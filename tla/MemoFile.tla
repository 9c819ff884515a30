------------------------------ MODULE MemoFile ------------------------------
(***************************************************************************)
(* The memos of a data file that several users share                       *)
(* (src/original/source: m4file.c, m4create.c, f4memo.c, m4memo.c,         *)
(* D4WRITE.C, D4APPEND.C, D4FLUSH.C, D4FRESH.C, d4go.c, d4lock.c,          *)
(* d4unlock.c, D4PACK.C, D4ZAP.C).                                         *)
(*                                                                         *)
(* A record holds the number of the block its memo begins at.  The memo    *)
(* file hands out blocks from a counter in its header and never takes one  *)
(* back, so a memo that no longer fits moves and leaves its blocks behind. *)
(* A user's copy of a record, and with it the block number, is out of date *)
(* as soon as another user moves that memo: d4validateMemoIds looks it up  *)
(* again under the record's lock.  The steps of a write are apart, and     *)
(* each of them can be a user's last.                                      *)
(***************************************************************************)
EXTENDS Integers, Sequences, FiniteSets

CONSTANTS
  User,
  Text,          \* texts that are not empty
  Size,          \* [Text -> Nat \ {0}]: the blocks a memo of this text takes
  Files,         \* the memos of the records a run begins with
  MaxRec,        \* bound: records
  MaxBlock,      \* bound: blocks of the memo file
  MaxChanges,    \* bound: changes of records
  MaxCrashes,    \* bound: users that die
  ReadLocks,     \* the settings of CODE4.readLock that users may have
  Careless       \* calls known to go wrong that programs make all the same

NoOne == "no one"
Empty == "empty"
Unread == "unread"
Unknown == "unknown"

Length(t) == IF t \in Text THEN Size[t] ELSE 0

(* Where memos of these sizes begin when they are laid one after the other,
   and where the next one would. *)
Starts(sizes) ==
  LET start[i \in 1..(Len(sizes) + 1)] == IF i = 1 THEN 1 ELSE start[i - 1] + sizes[i - 1]
  IN  start
End(sizes) == Starts(sizes)[Len(sizes) + 1]

ASSUME BoundAssumption == MaxRec \in Nat /\ MaxBlock \in Nat
ASSUME NameAssumption == NoOne \notin User /\ Text \cap {Empty, Unread, Unknown} = {}
ASSUME SizeAssumption == Size \in [Text -> Nat \ {0}]
ASSUME FilesAssumption ==
  \A f \in Files : /\ f \in Seq(Text \cup {Empty}) /\ Len(f) <= MaxRec
                   /\ End([r \in DOMAIN f |-> Length(f[r])]) <= MaxBlock + 1
ASSUME ReadLocksAssumption == ReadLocks \subseteq BOOLEAN
ASSUME CarelessAssumption == Careless \subseteq {"direct", "blank", "read changed", "together", "die"}

VARIABLES
  data,      \* the records: [memo |-> its first block or 0, live |-> not marked deleted]
  blocks,    \* the memo file: [size |-> length in its header, piece |-> <<text, n>>]
  next,      \* nextBlock of the memo file's header
  rlock,     \* who holds each record, and the one to come; the file's lock is all of them
  alock,     \* who holds the append byte
  mlock,     \* who holds the memo file's header
  us,        \* the users
  said,      \* of each record, the text last given to it, or Unknown
  changes, crashes

locks == <<rlock, alock, mlock>>
disk == <<data, blocks, next>>
vars == <<data, blocks, next, rlock, alock, mlock, us, said, changes, crashes>>

Blank == [size |-> 0, piece |-> <<Empty, 1>>]

(* What memo4fileReadPart makes of the blocks from id on when the memo's
   header says size. *)
TextAt(id, size) ==
  LET whole == {t \in Text : /\ Size[t] = size
                             /\ \A n \in 1..size : /\ id + n - 1 \in DOMAIN blocks
                                                   /\ blocks[id + n - 1].piece = <<t, n>>}
  IN  CASE size = 0                 -> Empty
        [] size # 0 /\ whole = {}  -> Unknown
        [] size # 0 /\ whole # {}  -> CHOOSE t \in whole : TRUE
SizeAt(id) == IF id = 0 THEN 0 ELSE blocks[id].size
MemoAt(id) == TextAt(id, SizeAt(id))

Numbers(sizes) == [i \in DOMAIN sizes |-> IF sizes[i] = 0 THEN 0 ELSE Starts(sizes)[i]]
LaidOut(sizes, was) ==
  [b \in 1..MaxBlock |->
     LET owner == {i \in DOMAIN sizes : Starts(sizes)[i] <= b /\ b < Starts(sizes)[i + 1]}
     IN  IF owner = {} THEN Blank
         ELSE LET i == CHOOSE j \in owner : TRUE IN was[i][b - Starts(sizes)[i] + 1]]

(***************************************************************************)
(* A user: rec, the record it is on (-1 none, 0 one that is to be          *)
(* appended); id and live, the memo's number and the mark in its copy of   *)
(* the record; old and oldOf, recordOld and recNumOld; dirty,              *)
(* recordChanged; valid, memoValidated; text, the memo's contents (Unread  *)
(* with status 1); changed, isChanged; rlk, CODE4.readLock; pc, where it   *)
(* is in a call; n, a number that call has read; needs, memoNeedsUnlocking; *)
(* was, the numbers a compress replaces.  given and fresh are for the      *)
(* properties: the text was assigned since the last write, and the record  *)
(* was read under its lock.                                                *)
(***************************************************************************)
Away(rlk) == [rec |-> -1, id |-> 0, live |-> TRUE, old |-> 0, oldOf |-> -1, dirty |-> FALSE,
              valid |-> FALSE, text |-> Unread, changed |-> FALSE, rlk |-> rlk, pc |-> "idle",
              n |-> 0, needs |-> FALSE, was |-> << >>, given |-> FALSE, fresh |-> FALSE]

Init == \E f \in Files :
          LET sizes == [r \in DOMAIN f |-> Length(f[r])]
              texts == [r \in DOMAIN f |-> [n \in 1..sizes[r] |->
                          [size |-> IF n = 1 THEN sizes[r] ELSE 0, piece |-> <<f[r], n>>]]]
          IN  /\ data = [r \in DOMAIN f |-> [memo |-> Numbers(sizes)[r], live |-> TRUE]]
              /\ blocks = LaidOut(sizes, texts) /\ next = End(sizes)
              /\ said = f
              /\ rlock = [r \in 1..(MaxRec + 1) |-> NoOne] /\ alock = NoOne /\ mlock = NoOne
              /\ \E rlk \in ReadLocks : us = [u \in User |-> Away(rlk)]
              /\ changes = 0 /\ crashes = 0

Me(u, v) == us' = [us EXCEPT ![u] = v]
Idle(u) == us[u].pc = "idle"
On(u) == us[u].rec \in DOMAIN data
Clean(u) == Idle(u) /\ ~us[u].dirty
Changes == changes < MaxChanges /\ changes' = changes + 1

----------------------------------------------------------------------------
(* Locks. *)

Holds(u, r) == rlock[r] = u
HoldsAny(u) == alock = u \/ \E r \in DOMAIN rlock : Holds(u, r)
Free(u, r) == rlock[r] \in {NoOne, u}
Released(u) == [r \in DOMAIN rlock |-> IF Holds(u, r) THEN NoOne ELSE rlock[r]]
GivenBack(u, a) == IF a = u THEN NoOne ELSE a

(* d4unlockRecords and d4unlockFile: what was read of the record is not kept. *)
Forgets(v) == [v EXCEPT !.old = 0, !.oldOf = -1, !.valid = FALSE, !.fresh = FALSE]

(* d4lockInternal: a record not held yet is taken once all others of the
   user are given back, which they are even if it turns out to be taken. *)
TakesRecord(u, r) ==
  /\ mlock' = mlock
  /\ IF Holds(u, r) THEN UNCHANGED <<rlock, alock>>
     ELSE rlock' = [Released(u) EXCEPT ![r] = u] /\ alock' = GivenBack(u, alock)
AfterLock(u, r, v) == IF Holds(u, r) THEN v ELSE Forgets(v)
GivesAllBack(u) == /\ rlock' = Released(u)
                   /\ alock' = GivenBack(u, alock) /\ mlock' = GivenBack(u, mlock)

(* d4lock: with locks held, a changed record is written first. *)
DoLock(u) == \E r \in DOMAIN data :
  /\ Idle(u) /\ ~Holds(u, r) /\ (us[u].dirty => ~HoldsAny(u))
  /\ Me(u, Forgets(us[u]))
  /\ IF Free(u, r) THEN TakesRecord(u, r) ELSE GivesAllBack(u)
  /\ UNCHANGED <<disk, said, changes, crashes>>
(* d4unlock: a changed record is written first. *)
DoUnlock(u) == /\ Clean(u) /\ HoldsAny(u)
               /\ Me(u, Forgets(us[u])) /\ GivesAllBack(u)
               /\ UNCHANGED <<disk, said, changes, crashes>>

----------------------------------------------------------------------------
(* Reading. *)

(* f4memoReset *)
Reset(v) == [v EXCEPT !.text = Unread, !.changed = FALSE, !.given = FALSE]

(* Mutant: the memo's contents stay from the time before. *)
RecordReadKeepsMemo(v, r, held) ==
  [v EXCEPT !.rec = r, !.id = data[r].memo, !.live = data[r].live, !.dirty = FALSE,
            !.old = IF held THEN data[r].memo ELSE @, !.oldOf = IF held THEN r ELSE @,
            !.valid = held, !.fresh = held, !.changed = FALSE, !.given = FALSE]
(* The record is read, and what is known of it is up to date if its lock is held. *)
RecordRead(v, r, held) ==
  Reset([v EXCEPT !.rec = r, !.id = data[r].memo, !.live = data[r].live, !.dirty = FALSE,
                  !.old = IF held THEN data[r].memo ELSE @, !.oldOf = IF held THEN r ELSE @,
                  !.valid = held, !.fresh = held])

(* d4go: a changed record is written first. *)
DoGo(u) == \E r \in DOMAIN data :
  /\ Clean(u)
  /\ CASE ~us[u].rlk  -> Me(u, RecordRead(us[u], r, Holds(u, r))) /\ UNCHANGED locks
       [] us[u].rlk /\ Free(u, r)  -> /\ Me(u, RecordRead(AfterLock(u, r, us[u]), r, TRUE))
                                      /\ TakesRecord(u, r)
       [] us[u].rlk /\ ~Free(u, r) -> Me(u, Reset(Forgets(us[u]))) /\ GivesAllBack(u)
  /\ UNCHANGED <<disk, said, changes, crashes>>
(* d4refreshRecord: what was changed is given up. *)
DoRefresh(u) == /\ Idle(u) /\ On(u)
                /\ Me(u, RecordRead(us[u], us[u].rec, Holds(u, us[u].rec)))
                /\ UNCHANGED <<disk, locks, said, changes, crashes>>
(* d4close, and the file is opened again. *)
DoClose(u) == /\ Clean(u) /\ us[u].rec # -1
              /\ Me(u, Away(us[u].rlk)) /\ GivesAllBack(u)
              /\ UNCHANGED <<disk, said, changes, crashes>>

(* d4readOld *)
ReadsOld(v) == IF v.oldOf = v.rec THEN v ELSE [v EXCEPT !.old = data[v.rec].memo, !.oldOf = v.rec]
(* Mutant: the number of an unchanged memo stays in a record that was changed. *)
ValidatedByRecord(v) == IF v.valid THEN v ELSE [ReadsOld(v) EXCEPT !.valid = TRUE]
(* d4validateMemoIds under the record's lock: the number of a memo that was
   not changed comes from the disk, if the record was not changed either. *)
Validated(v) ==
  IF v.valid THEN v
  ELSE LET w == ReadsOld(v)
       IN  IF v.dirty \/ v.changed THEN [w EXCEPT !.valid = TRUE]
           ELSE [w EXCEPT !.valid = TRUE, !.id = w.old, !.fresh = TRUE]

(* f4memoPtr of a memo not read yet: f4memoRead, f4memoReadLow.  A record
   that is locked by another is read all the same. *)
Reads(v) == IF v.id = 0 THEN [v EXCEPT !.text = Empty, !.changed = FALSE]
            ELSE [v EXCEPT !.n = SizeAt(v.id), !.pc = "reading", !.changed = FALSE]
DoReadMemo(u) ==
  LET v == us[u]
  IN  /\ Idle(u) /\ On(u) /\ v.text = Unread
      /\ CASE ~v.rlk \/ v.valid -> Me(u, Reads(v)) /\ UNCHANGED locks
           [] v.rlk /\ ~v.valid /\ Free(u, v.rec) ->
                /\ v.dirty => /\ "read changed" \in Careless
                              /\ Holds(u, v.rec) \/ ~HoldsAny(u)
                /\ Me(u, Reads(Validated(AfterLock(u, v.rec, v)))) /\ TakesRecord(u, v.rec)
           [] v.rlk /\ ~v.valid /\ ~Free(u, v.rec) ->
                /\ v.dirty => ~HoldsAny(u)
                /\ Me(u, Reads(Forgets(v))) /\ GivesAllBack(u)
      /\ UNCHANGED <<disk, said, changes, crashes>>
ReadText(u) == /\ us[u].pc = "reading"
               /\ Me(u, [us[u] EXCEPT !.text = TextAt(us[u].id, us[u].n), !.pc = "idle", !.n = 0])
               /\ UNCHANGED <<disk, locks, said, changes, crashes>>

----------------------------------------------------------------------------
(* Changing the copy of the record. *)

(* f4memoAssignN *)
Given(v, t) == [v EXCEPT !.text = t, !.changed = TRUE, !.dirty = TRUE, !.given = TRUE]
DoAssign(u) == \E t \in Text \cup {Empty} :
  /\ Idle(u) /\ (On(u) \/ us[u].rec = 0) /\ ~us[u].given /\ Changes
  /\ Me(u, Given(us[u], t))
  /\ UNCHANGED <<disk, locks, said, crashes>>
(* d4delete and d4recall, as any change of the record but for its memo *)
DoMark(u) == /\ Idle(u) /\ On(u) /\ ~us[u].dirty /\ Changes
             /\ Me(u, [us[u] EXCEPT !.live = ~@, !.dirty = TRUE])
             /\ UNCHANGED <<disk, locks, said, crashes>>
(* d4blank: the memo is let go of, and not marked as changed. *)
DoBlank(u) == /\ Clean(u) /\ On(u) /\ Changes
              /\ "blank" \in Careless \/ Holds(u, us[u].rec)
              /\ Me(u, [us[u] EXCEPT !.id = 0, !.live = TRUE, !.text = Unread, !.valid = TRUE,
                                     !.dirty = TRUE, !.given = TRUE])
              /\ UNCHANGED <<disk, locks, said, crashes>>

----------------------------------------------------------------------------
(* Writing the record. *)

(* d4writeLow: the lock, the memo's number, and the keys of the tags, for
   which recordOld is read and then given up. *)
DoWrite(u) ==
  LET v == us[u]
  IN  /\ Idle(u) /\ On(u) /\ v.dirty
      /\ IF Free(u, v.rec)
         THEN /\ TakesRecord(u, v.rec)
              /\ Me(u, [Validated([AfterLock(u, v.rec, v) EXCEPT !.dirty = FALSE])
                          EXCEPT !.old = 0, !.oldOf = -1, !.pc = IF v.changed THEN "place" ELSE "store"])
         ELSE Me(u, Forgets(v)) /\ GivesAllBack(u)
      /\ UNCHANGED <<disk, said, changes, crashes>>

(* memo4fileWritePart: where the memo goes. *)
Place(u) ==
  LET v == us[u]
  IN  /\ v.pc = "place"
      /\ Me(u, CASE Length(v.text) = 0              -> [v EXCEPT !.id = 0, !.pc = "store"]
                 [] v.id # 0 /\ SizeAt(v.id) >= Length(v.text) /\ Length(v.text) > 0
                                                    -> [v EXCEPT !.n = v.id, !.pc = "head"]
                 [] OTHER                           -> [v EXCEPT !.pc = "header"])
      /\ UNCHANGED <<disk, locks, said, changes, crashes>>
(* Mutant: the header is read before its lock is there. *)
TakeHeaderUnlocked(u) == /\ us[u].pc = "header" /\ next + Length(us[u].text) <= MaxBlock + 1
                         /\ Me(u, [us[u] EXCEPT !.n = next, !.needs = FALSE, !.pc = "extend"])
                         /\ UNCHANGED <<disk, locks, said, changes, crashes>>
(* memo4fileGetFileHeader: waits for the header for as long as it takes, if
   the user does not hold it from a compress. *)
TakeHeader(u) == /\ us[u].pc = "header" /\ next + Length(us[u].text) <= MaxBlock + 1
                 /\ mlock \in {NoOne, u} /\ mlock' = u
                 /\ Me(u, [us[u] EXCEPT !.n = next, !.needs = (mlock = NoOne), !.pc = "extend"])
                 /\ UNCHANGED <<disk, rlock, alock, said, changes, crashes>>
(* memo4fileWriteFileHeader *)
WriteHeader(u) == /\ us[u].pc = "extend"
                  /\ next' = us[u].n + Length(us[u].text)
                  /\ mlock' = IF us[u].needs THEN NoOne ELSE mlock
                  /\ Me(u, [us[u] EXCEPT !.needs = FALSE, !.pc = "head"])
                  /\ UNCHANGED <<data, blocks, rlock, alock, said, changes, crashes>>
(* memo4fileDump: the memo's header, then its text. *)
DumpHead(u) == /\ us[u].pc = "head"
               /\ blocks' = [blocks EXCEPT ![us[u].n].size = Length(us[u].text)]
               /\ Me(u, [us[u] EXCEPT !.pc = "text"])
               /\ UNCHANGED <<data, next, locks, said, changes, crashes>>
DumpText(u) ==
  LET v == us[u]
      Piece(b) == IF b \in v.n..(v.n + Length(v.text) - 1) THEN <<v.text, b - v.n + 1>> ELSE blocks[b].piece
  IN  /\ v.pc = "text"
      /\ blocks' = [b \in DOMAIN blocks |-> [blocks[b] EXCEPT !.piece = Piece(b)]]
      /\ Me(u, [v EXCEPT !.id = v.n, !.n = 0, !.pc = "store"])
      /\ UNCHANGED <<data, next, locks, said, changes, crashes>>

Meant(v) == IF v.text = Unread THEN Empty ELSE v.text
Stored(v) == [memo |-> v.id, live |-> v.live]
(* d4writeData.  After d4updateRecord the memos are to be read again; a call
   of d4write leaves isChanged at the number the memo was written to. *)
Store(u) ==
  LET v == us[u]
      done == [v EXCEPT !.pc = "idle", !.given = FALSE]
  IN  /\ v.pc = "store" /\ v.rec # 0
      /\ data' = [data EXCEPT ![v.rec] = Stored(v)]
      /\ said' = IF v.given THEN [said EXCEPT ![v.rec] = Meant(v)] ELSE said
      /\ \/ Me(u, Reset([done EXCEPT !.old = 0, !.oldOf = -1]))
         \/ "direct" \in Careless /\ Me(u, [done EXCEPT !.changed = v.changed /\ v.id # 0])
      /\ UNCHANGED <<blocks, next, locks, changes, crashes>>

----------------------------------------------------------------------------
(* Appending. *)

(* d4appendStart; with useMemoEntries the memos of the record at hand are
   read under its lock, and all locks are given back. *)
DoAppendStart(u) ==
  LET v == us[u]
      started == [Reset(Forgets(v)) EXCEPT !.rec = 0, !.id = 0, !.live = TRUE]
  IN  /\ Clean(u) /\ v.rec # 0
      /\ GivesAllBack(u)
      /\ \/ Me(u, started)
         \/ On(u) /\ Free(u, v.rec) /\ Me(u, [started EXCEPT !.text = MemoAt(data[v.rec].memo)])
         \/ On(u) /\ ~Free(u, v.rec) /\ Me(u, Reset(Forgets(v)))
      /\ UNCHANGED <<disk, said, changes, crashes>>
(* d4lockAppendRecord: the append byte, then the record to come. *)
DoAppend(u) ==
  LET v == us[u]
      new == Len(data) + 1
      can == alock \in {NoOne, u} /\ Free(u, new)
  IN  /\ Idle(u) /\ v.rec = 0 /\ Len(data) < MaxRec
      /\ IF can
         THEN /\ rlock' = [Released(u) EXCEPT ![new] = u] /\ alock' = u /\ mlock' = GivenBack(u, mlock)
              /\ Me(u, [Forgets(v) EXCEPT !.dirty = FALSE, !.changed = FALSE, !.id = 0,
                          !.pc = IF Length(v.text) > 0 THEN "header" ELSE "store"])
         ELSE GivesAllBack(u) /\ Me(u, Forgets(v))
      /\ UNCHANGED <<disk, said, changes, crashes>>
(* d4appendUpdateData, d4appendUnlock: the record's own lock stays. *)
StoreNew(u) ==
  LET v == us[u]
  IN  /\ v.pc = "store" /\ v.rec = 0
      /\ data' = Append(data, Stored(v)) /\ said' = Append(said, Meant(v))
      /\ alock' = NoOne
      /\ Me(u, [v EXCEPT !.rec = Len(data) + 1, !.pc = "idle", !.given = FALSE])
      /\ UNCHANGED <<blocks, next, rlock, mlock, changes, crashes>>

----------------------------------------------------------------------------
(* Work on the whole file, under the lock of all of it. *)

Alone(u) == /\ Clean(u) /\ \A r \in DOMAIN rlock : Free(u, r)
            /\ alock \in {NoOne, u} /\ mlock \in {NoOne, u}
            /\ \A w \in User \ {u} : us[w].rec = -1 \/ "together" \in Careless
TakesFile(u) == rlock' = [r \in DOMAIN rlock |-> u] /\ alock' = u
(* d4packData and d4zapData leave the user on no record. *)
OnNone(u) == Away(us[u].rlk)
Kept(seq, keep) ==
  LET Nth(i) == CHOOSE r \in keep : Cardinality({x \in keep : x <= r}) = i
  IN  [i \in 1..Cardinality(keep) |-> seq[Nth(i)]]
Keep(u, recs) == /\ data' = Kept(data, recs) /\ said' = Kept(said, recs)
                 /\ Me(u, OnNone(u)) /\ TakesFile(u)
                 /\ UNCHANGED <<blocks, next, mlock, crashes>>
(* dfile4packData: the records not marked close up. *)
DoPack(u) == Alone(u) /\ Changes /\ Keep(u, {r \in DOMAIN data : data[r].live})
(* dfile4zapData: records first to last are taken out. *)
DoZap(u) == /\ Alone(u) /\ Changes
            /\ \E first, last \in 1..MaxRec : first <= last /\ Keep(u, DOMAIN data \ (first..last))

(* dfile4memoCompress: memos are copied one after the other to a new file,
   the records with their new numbers are written, and then the new file
   takes the place of the old one. *)
Sizes == [r \in DOMAIN data |-> SizeAt(data[r].memo)]
CompressRecords(u) ==
  /\ Alone(u) /\ Changes /\ us[u].rec # -1
  /\ data' = [r \in DOMAIN data |-> [data[r] EXCEPT !.memo = Numbers(Sizes)[r]]]
  /\ Me(u, [us[u] EXCEPT !.pc = "replace", !.was = [r \in DOMAIN data |-> data[r].memo]])
  /\ TakesFile(u) /\ mlock' = u
  /\ UNCHANGED <<blocks, next, said, crashes>>
(* file4replace; then the record at hand is read again. *)
CompressFile(u) ==
  LET was == us[u].was
      done == [us[u] EXCEPT !.pc = "idle", !.was = << >>]
      sizes == [r \in DOMAIN was |-> SizeAt(was[r])]
      texts == [r \in DOMAIN was |-> [n \in 1..sizes[r] |-> blocks[was[r] + n - 1]]]
  IN  /\ us[u].pc = "replace"
      /\ blocks' = LaidOut(sizes, texts) /\ next' = End(sizes)
      /\ Me(u, IF On(u) THEN RecordRead(done, us[u].rec, TRUE) ELSE done)
      /\ UNCHANGED <<data, locks, said, changes, crashes>>

----------------------------------------------------------------------------
(* A user dies, and the system takes its locks back.  The memo of a record
   it was writing over may be of either text or of none. *)
WritesOver(v) == /\ v.rec > 0
                 /\ \/ v.pc = "text" /\ v.n = data[v.rec].memo
                    \/ v.pc = "store" /\ v.given /\ v.id = data[v.rec].memo
Die(u) == /\ us[u].rec # -1 /\ crashes < MaxCrashes /\ crashes' = crashes + 1
          /\ us[u].pc = "replace" => "die" \in Careless
          /\ said' = IF WritesOver(us[u]) THEN [said EXCEPT ![us[u].rec] = Unknown] ELSE said
          /\ Me(u, Away(us[u].rlk)) /\ GivesAllBack(u)
          /\ UNCHANGED <<disk, changes>>

Call(u) == \/ DoLock(u) \/ DoUnlock(u) \/ DoGo(u) \/ DoRefresh(u) \/ DoClose(u) \/ DoReadMemo(u)
           \/ DoAssign(u) \/ DoMark(u) \/ DoBlank(u) \/ DoWrite(u) \/ DoAppendStart(u) \/ DoAppend(u)
           \/ DoPack(u) \/ DoZap(u) \/ CompressRecords(u)
Step(u) == \/ ReadText(u) \/ Place(u) \/ TakeHeader(u) \/ WriteHeader(u) \/ DumpHead(u) \/ DumpText(u)
           \/ Store(u) \/ StoreNew(u) \/ CompressFile(u)
Next == \E u \in User : Call(u) \/ Step(u) \/ Die(u)
Spec == Init /\ [][Next]_vars

----------------------------------------------------------------------------
Whole == \A u \in User : us[u].pc # "replace"
Writing(r) == \E u \in User : us[u].rec = r /\ us[u].pc \in {"place", "header", "extend", "head", "text", "store"}
Blocks(r) == LET id == data[r].memo IN IF id = 0 THEN {} ELSE id..(id + SizeAt(id) - 1)

(* Memos of two records never have a block in common, and every block in
   use has been handed out: the numbers records hold go through copies that
   other users made long before (f4memo.c:793, m4file.c:557). *)
NoSharedBlocks ==
  Whole => \A r, s \in DOMAIN data : /\ Blocks(r) \subseteq 1..(next - 1)
                                     /\ r # s => Blocks(r) \cap Blocks(s) = {}

(* The memo of a record nobody is writing is the text last given to it,
   whoever has changed that record or its neighbours since, and whatever
   copies of it they had (d4validateMemoIds, m4memo.c:505). *)
MemoIsTheLast ==
  Whole => \A r \in DOMAIN data : Writing(r) \/ said[r] \in {Unknown, MemoAt(data[r].memo)}

(* A memo read of a record that was read under its lock is the text last
   given to it (d4go.c:293-345, f4memo.c:508). *)
LockedReadIsTheLast ==
  \A u \in User : LET v == us[u]
                  IN  v.pc = "idle" /\ On(u) /\ v.fresh /\ ~v.given /\ v.text # Unread
                        => said[v.rec] \in {Unknown, v.text}
=============================================================================
