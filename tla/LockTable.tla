----------------------------- MODULE LockTable -----------------------------
(***************************************************************************)
(* The locks one process keeps on one open table of the C engine           *)
(* (src/original/source): the fields of DATA4FILE, INDEX4FILE, MEMO4FILE   *)
(* and DATA4 that say what is locked, and the bytes of the files that      *)
(* LockFile was called on.  Both are parts of one record, because the      *)
(* code keeps them in step by hand: every operator below changes a field   *)
(* and the bytes exactly as its function does.                             *)
(*                                                                         *)
(* Build: stand-alone, FoxPro indexes, Win32, several users; tables opened *)
(* OPEN4DENY_NONE (for OPEN4DENY_RW nothing is locked), no large files.    *)
(***************************************************************************)
EXTENDS Integers, FiniteSetsExt

CONSTANTS
  Data,         \* the DATA4s of this process that are open on the table
  LockId(_),    \* the lockId of a DATA4: clones share it
  Recs,         \* record numbers
  RecPos(_),    \* the file position of a record (dfile4recordPosition)
  LockBase,     \* L4LOCK_POS_OLD, 0x40000000 in the code
  V30,          \* the table's version is 0x30 (Visual FoxPro)
  None

(* L4LOCK_POS, 0x7FFFFFFE in the code: two below twice the base. *)
LockPos == 2 * LockBase - 2

RecByte(r)  == <<"dbf", IF V30 THEN LockPos - r ELSE LockBase + RecPos(r)>>
AppendByte  == <<"dbf", IF V30 THEN LockPos ELSE LockBase>>
(* Mutant: one byte too few, so that the append byte is left out. *)
FileBytesShort == {"dbf"} \X (LockBase .. (LockBase + (LockBase - 1) - 2))

FileBytes   == {"dbf"} \X (LockBase .. (LockBase + (LockBase - 1) - 1))
MemoByte    == <<"fpt", LockBase>>
IndexByte   == <<"cdx", LockPos>>

(* A lock somebody asks for.  "index" stands for all index files of the    *)
(* table, which are taken together or given back (dfile4lockIndex).        *)
Record(d, r) == [kind |-> "record", data |-> d, rec |-> r]
Target(k, d) == [kind |-> k, data |-> d, rec |-> 0]

BytesOf(t) ==
  CASE t.kind = "record" -> {RecByte(t.rec)}
    [] t.kind = "append" -> {AppendByte}
    [] t.kind = "file"   -> FileBytes
    [] t.kind = "memo"   -> {MemoByte}
    [] t.kind = "index"  -> {IndexByte}

NoLocks == [file   |-> None,                  \* fileServerWriteLock
            append |-> None,                  \* appendServerLock
            recs   |-> [d \in Data |-> {}],   \* DATA4.lockedRecords
            count  |-> 0,                     \* recordLockWriteCount
            memo   |-> FALSE,                 \* MEMO4FILE.fileLock
            index  |-> None,                  \* INDEX4FILE.fileLocked
            bytes  |-> {}]                    \* what LockFile was granted

Locks == [file: Data \cup {None}, append: Data \cup {None},
          recs: [Data -> SUBSET Recs], count: Int, memo: BOOLEAN,
          index: Data \cup {None}, bytes: SUBSET ({"dbf", "fpt", "cdx"} \X Nat)]

------------------------------------------------------------------------------
(* What is already locked inside the process: "mine", "other" or "free". *)

Whose(owner, d) ==
  IF owner = None THEN "free"
  ELSE IF LockId(owner) = LockId(d) THEN "mine" ELSE "other"

TestFile(h, d)   == Whose(h.file, d)
TestAppend(h, d) == Whose(h.append, d)

(* Scans the DATA4s of the table for one that holds the record. *)
TestRecord(h, d, r) ==
  IF \E e \in Data : r \in h.recs[e] /\ LockId(e) = LockId(d) THEN "mine"
  ELSE IF \E e \in Data : r \in h.recs[e] THEN "other" ELSE "free"

(* The file is asked before the record. *)
TestLock(h, d, r) ==
  IF TestFile(h, d) # "free" THEN TestFile(h, d) ELSE TestRecord(h, d, r)

HasLocks(h, d) ==
  \/ h.file = d
  \/ h.append = d
  \/ h.recs[d] # {}

------------------------------------------------------------------------------
(* What LockFile granted, and only then what is written down of it. *)

Grant(h, B)   == [h EXCEPT !.bytes = @ \cup B]
Release(h, B) == [h EXCEPT !.bytes = @ \ B]

(* DATA4.lockedRecords and recordLockWriteCount, with the bytes. *)
Counted(h, B, n, f) == [h EXCEPT !.bytes = B, !.count = n, !.recs = f]

TakeRecord(h, d, r) ==
  Counted(h, h.bytes \cup {RecByte(r)}, h.count + 1,
          [h.recs EXCEPT ![d] = @ \cup {r}])
TakeAppend(h, d) == [Grant(h, {AppendByte}) EXCEPT !.append = d]
TakeFile(h, d)   == [Grant(h, FileBytes) EXCEPT !.file = d]
TakeMemo(h)      == [Grant(h, {MemoByte}) EXCEPT !.memo = TRUE]
TakeIndex(h, d)  == [Grant(h, {IndexByte}) EXCEPT !.index = d]

Take(h, t) ==
  CASE t.kind = "record" -> TakeRecord(h, t.data, t.rec)
    [] t.kind = "append" -> TakeAppend(h, t.data)
    [] t.kind = "file"   -> TakeFile(h, t.data)
    [] t.kind = "memo"   -> TakeMemo(h)
    [] t.kind = "index"  -> TakeIndex(h, t.data)

(* A lock the process holds already needs no call of LockFile. *)
Held(h, t) ==
  CASE t.kind = "record" -> TestLock(h, t.data, t.rec) = "mine"
    [] t.kind = "append" -> "mine" \in {TestFile(h, t.data), TestAppend(h, t.data)}
    [] t.kind = "file"   -> TestFile(h, t.data) = "mine"
    [] t.kind = "memo"   -> h.memo
    [] t.kind = "index"  -> h.index = t.data

(* Refused inside the process, before any call of LockFile.  A file lock   *)
(* is refused over every append lock of the process and over every record  *)
(* it has locked, its own DATA4's too.                                     *)
Refused(h, t) ==
  CASE t.kind = "record" -> TestLock(h, t.data, t.rec) = "other"
    [] t.kind = "append" -> \/ TestFile(h, t.data) = "other"
                            \/ TestAppend(h, t.data) = "other"
    [] t.kind = "file"   -> \/ TestFile(h, t.data) = "other"
                            \/ h.append # None
                            \/ h.count # 0
    [] t.kind = "memo"   -> FALSE
    [] t.kind = "index"  -> h.index \notin {None, t.data}

------------------------------------------------------------------------------
(* Giving back. *)

UnlockRecord(h, d, r) ==
  IF r \in h.recs[d]
  THEN Counted(h, h.bytes \ {RecByte(r)}, h.count - 1,
               [h.recs EXCEPT ![d] = @ \ {r}])
  ELSE h

UnlockRecords(h, d) ==
  Counted(h, h.bytes \ {RecByte(r) : r \in h.recs[d]},
          h.count - Cardinality(h.recs[d]), [h.recs EXCEPT ![d] = {}])

(* Mutant: the byte is computed without a look at the version. *)
UnlockAppendOld(h, d) ==
  IF TestAppend(h, d) = "mine"
  THEN [Release(h, {<<"dbf", LockBase>>}) EXCEPT !.append = None]
  ELSE h

UnlockAppend(h, d) ==
  IF TestAppend(h, d) = "mine"
  THEN [Release(h, {AppendByte}) EXCEPT !.append = None]
  ELSE h

UnlockFile(h, d) ==
  IF h.file = d THEN [Release(h, FileBytes) EXCEPT !.file = None] ELSE h

UnlockMemo(h) ==
  IF h.memo THEN [Release(h, {MemoByte}) EXCEPT !.memo = FALSE] ELSE h

UnlockIndex(h, d) ==
  IF h.index = d THEN [Release(h, {IndexByte}) EXCEPT !.index = None] ELSE h

(* File, append and records of one DATA4. *)
UnlockData(h, d) == UnlockRecords(UnlockAppend(UnlockFile(h, d), d), d)

(* The memo lock is the DATA4FILE's and goes with any DATA4's unlock.  A    *)
(* DATA4 with locks is updated first, and when that fails because an error *)
(* is pending nothing of it is given back.                                 *)
UnlockDo(h, d, err) ==
  IF ~HasLocks(h, d) THEN UnlockIndex(UnlockMemo(h), d)
  ELSE IF err THEN h
  ELSE UnlockIndex(UnlockMemo(UnlockData(h, d)), d)

(* Every DATA4 of the process, one after the other. *)
UnlockAll(h, err) == FoldSet(LAMBDA d, g : UnlockDo(g, d, err), h, Data)
=============================================================================
