----------------------------- MODULE DataLocks -----------------------------
(***************************************************************************)
(* Locking in the C engine: several processes, each with one CODE4 and     *)
(* some DATA4s on the same table, lock records, the append byte, the file, *)
(* the file with its memo and indexes, or a queue of these as a group.     *)
(*                                                                         *)
(* What one process holds is a record of LockTable.  A call first decides  *)
(* what it can from the process's own fields and gives back what           *)
(* unlockAuto says; then it asks LockFile, byte by byte and try by try,    *)
(* and other processes run between the tries.                              *)
(***************************************************************************)
EXTENDS Integers, Sequences, FiniteSets, SequencesExt

CONSTANTS
  Procs,          \* processes (one CODE4 each)
  Data,           \* DATA4s of all processes
  ProcOf(_),      \* whose a DATA4 is
  LockId(_),      \* as in LockTable
  Recs, RecPos(_), LockBase, V30,
  Settings(_),    \* the CODE4 settings a process may have: unlockAuto,
                  \* lockAttempts, lockAttemptsSingle
  Queues,         \* the queues programs build for code4lock
  None

WAIT4EVER == -1

(* What a queue, a lock call and dfile4lockIndex can ask for. *)
Wanted == [kind : {"append", "file", "all"}, data : Data, rec : {0}]
            \cup [kind : {"record"}, data : Data, rec : Recs]

ASSUME LocksAssumption ==
  /\ None \notin Data
  /\ IsFiniteSet(Data) /\ IsFiniteSet(Recs)
  /\ \A d \in Data : ProcOf(d) \in Procs /\ LockId(d) \in Data
  /\ Queues \subseteq Seq(Wanted)
  /\ \A p \in Procs : Settings(p) \subseteq [auto: {"OFF", "ALL", "DATA"},
                          attempts: Nat \cup {WAIT4EVER},
                          single: Nat \cup {WAIT4EVER}]

(* Records do not lie over each other, and the byte of each is one of the  *)
(* bytes of the file lock: an old table is shorter than L4LOCK_POS_OLD.    *)
ASSUME RecordsAssumption ==
  /\ V30 \in BOOLEAN /\ LockBase \in Nat /\ LockBase >= 2
  /\ \A r \in Recs : r \in 1 .. (LockBase - 2) /\ RecPos(r) \in 1 .. (LockBase - 2)
  /\ \A r, s \in Recs : RecPos(r) = RecPos(s) => r = s

VARIABLES
  held,      \* held[p]: the locks of p (LockTable)
  set,       \* set[p]: the settings of p's CODE4; code4lock changes unlockAuto
  err,       \* err[p]: an error is pending in the CODE4
  call,      \* call[p]: the call p is in, and the locks it still wants
  queue      \* queue[p]: TRAN4.locks, what the next code4lock takes

vars == <<held, set, err, call, queue>>

(* The DATA4s of other processes hold nothing in held[p]. *)
LT == INSTANCE LockTable

DataOf(p) == {d \in Data : ProcOf(d) = p}

(* The locks a request takes, in the order it takes them. *)
Parts(w) ==
  IF w.kind = "all"
  THEN <<LT!Target("file", w.data), LT!Target("memo", w.data),
         LT!Target("index", w.data)>>
  ELSE <<w>>

Idle == [op |-> "idle", todo |-> <<>>, left |-> 0, data |-> None,
         at |-> 0, round |-> 0, got |-> <<>>, saved |-> "OFF", base |-> {}]

Calling(p) == call[p].op # "idle"

Init ==
  /\ held = [p \in Procs |-> LT!NoLocks]
  /\ set \in {f \in [Procs -> UNION {Settings(p) : p \in Procs}] :
              \A p \in Procs : f[p] \in Settings(p)}
  /\ err = [p \in Procs |-> FALSE]
  /\ call = [p \in Procs |-> Idle]
  /\ queue = [p \in Procs |-> <<>>]

auto(p)     == set[p].auto
attempts(p) == set[p].attempts
single(p)   == set[p].single

Return(p) == call' = [call EXCEPT ![p] = Idle]

(* A lock that cannot come while the process waits is an error when it     *)
(* would wait for ever, and r4locked otherwise.                            *)
RefusedRc(p) == IF attempts(p) = WAIT4EVER THEN "error" ELSE "locked"

Refuse(p) ==
  /\ Return(p)
  /\ err' = [err EXCEPT ![p] = RefusedRc(p) = "error"]

------------------------------------------------------------------------------
(* d4lock, d4lockAppend, d4lockFile, d4lockAll. *)

(* Mutant: LOCK4ALL gives back the DATA4 that asks and no other. *)
AutoUnlockOne(p, t) ==
  IF auto(p) = "OFF" THEN held[p] ELSE LT!UnlockDo(held[p], t.data, FALSE)

(* What unlockAuto gives back before a lock is asked for. *)
AutoUnlock(p, t) ==
  LET h == held[p] d == t.data IN
  CASE auto(p) = "OFF" -> h
    [] auto(p) = "ALL" -> LT!UnlockAll(h, FALSE)
    [] auto(p) = "DATA" /\ t.kind = "record" ->
         LT!UnlockAppend(LT!UnlockRecords(LT!UnlockIndex(h, d), d), d)
    [] auto(p) = "DATA" /\ t.kind = "append" ->
         LT!UnlockRecords(LT!UnlockIndex(h, d), d)
    [] auto(p) = "DATA" /\ t.kind = "file" -> LT!UnlockDo(h, d, FALSE)

(* d4lockAll gives back what it has when a part fails, unless unlockAuto   *)
(* is off.                                                                 *)
AfterFailure(p, d, rc) ==
  CASE auto(p) = "ALL"  -> LT!UnlockAll(held[p], rc = "error")
    [] auto(p) = "DATA" -> LT!UnlockDo(held[p], d, rc = "error")
    [] auto(p) = "OFF"  -> held[p]

(* The test before the unlock.  For the file it asks for a file lock only: *)
(* records and the append byte are looked at after it.                     *)
RefusedAtCall(h, t) ==
  IF t.kind = "file" THEN LT!TestFile(h, t.data) = "other" ELSE LT!Refused(h, t)

Ask(p, w) ==
  LET t == Parts(w)[1]
      op == IF w.kind = "all" THEN "all" ELSE "one"
      start(todo) == [Idle EXCEPT !.op = op, !.todo = todo,
                                  !.left = attempts(p), !.data = w.data]
  IN
  /\ ~Calling(p) /\ ~err[p]
  /\ UNCHANGED <<set, queue>>
  /\ \/ /\ LT!Held(held[p], t)
        /\ UNCHANGED <<held, err>>
        /\ IF Len(Parts(w)) = 1
           THEN Return(p)
           ELSE call' = [call EXCEPT ![p] = start(Tail(Parts(w)))]
     \/ /\ ~LT!Held(held[p], t)
        /\ RefusedAtCall(held[p], t) /\ auto(p) # "ALL"
        /\ Refuse(p)
        /\ held' = [held EXCEPT ![p] = IF op = "all"
             THEN AfterFailure(p, w.data, RefusedRc(p)) ELSE @]
     \/ /\ ~LT!Held(held[p], t)
        /\ ~RefusedAtCall(held[p], t) \/ auto(p) = "ALL"
        /\ held' = [held EXCEPT ![p] = AutoUnlock(p, t)]
        /\ call' = [call EXCEPT ![p] = start(Parts(w))]
        /\ UNCHANGED err

LockRecord(p) == \E d \in DataOf(p), r \in Recs : Ask(p, LT!Record(d, r))
LockAppend(p) == \E d \in DataOf(p) : Ask(p, LT!Target("append", d))
LockFile(p)   == \E d \in DataOf(p) : Ask(p, LT!Target("file", d))
LockAll(p)    == \E d \in DataOf(p) : Ask(p, LT!Target("all", d))

(* d4writeKeys: the index files are locked while the keys of a locked      *)
(* record are changed, unless they are locked already.                     *)
WriteKeys(p) ==
  /\ ~Calling(p) /\ ~err[p]
  /\ \E d \in DataOf(p) :
       /\ LT!HasLocks(held[p], d) /\ held[p].index # d
       /\ call' = [call EXCEPT ![p] =
            [Idle EXCEPT !.op = "keys", !.todo = <<LT!Target("index", d)>>,
                         !.left = attempts(p), !.data = d]]
  /\ UNCHANGED <<held, set, err, queue>>

KeysWritten(p) ==
  /\ call[p].op = "keys" /\ call[p].todo = <<>>
  /\ held' = [held EXCEPT ![p] = LT!UnlockIndex(@, call[p].data)]
  /\ Return(p)
  /\ UNCHANGED <<set, err, queue>>

------------------------------------------------------------------------------
(* One try at the next lock of a call. *)

(* LockFile refuses a byte somebody has locked, the caller's own handle too. *)
Free(t) == \A q \in Procs : LT!BytesOf(t) \cap held[q].bytes = {}

(* Mutant: locked records are forgotten. *)
GroupUnlockNoRecord(h, w) ==
  CASE w.kind \in {"all", "file"} -> LT!UnlockFile(h, w.data)
    [] w.kind = "append" -> LT!UnlockAppend(h, w.data)
    [] w.kind = "record" -> h

(* lock4groupUnlock. *)
GroupUnlock(h, w) ==
  CASE w.kind = "all" ->
         LT!UnlockFile(LT!UnlockIndex(LT!UnlockMemo(h), w.data), w.data)
    [] w.kind = "append" -> LT!UnlockAppend(h, w.data)
    [] w.kind = "file"   -> LT!UnlockFile(h, w.data)
    [] w.kind = "record" -> LT!UnlockRecord(h, w.data, w.rec)

(* tran4unlock: the locks the group has go back on the queue, one after    *)
(* the other, the last first: at its front after a round, before the lock  *)
(* that failed after an error.                                             *)
GroupUndo(p, rc) ==
  /\ call' = [call EXCEPT ![p] =
       [Idle EXCEPT !.op = "undo", !.at = IF rc = "error" THEN call[p].at ELSE 1,
                    !.got = call[p].got, !.saved = call[p].saved,
                    !.base = call[p].base]]
  /\ err' = [err EXCEPT ![p] = rc = "error"]
  /\ UNCHANGED <<held, set, queue>>

Undo(p) ==
  LET got == call[p].got n == Len(got) IN
  /\ call[p].op = "undo"
  /\ \/ /\ got # <<>>
        /\ held' = [held EXCEPT ![p] = GroupUnlock(@, got[n])]
        /\ queue' = [queue EXCEPT ![p] = InsertAt(@, call[p].at, got[n])]
        /\ call' = [call EXCEPT ![p].got = SubSeq(got, 1, n - 1)]
        /\ UNCHANGED <<set, err>>
     \/ /\ got = <<>>
        /\ set' = [set EXCEPT ![p].auto = call[p].saved]
        /\ Return(p) /\ UNCHANGED <<held, err, queue>>

(* The group's next lock is at place i of queue q, or there is none before *)
(* the queue starts over.                                                  *)
GroupNext(p, q, i, got) ==
  call' = [call EXCEPT ![p] =
    [@ EXCEPT !.at = i, !.got = got, !.left = attempts(p),
              !.todo = IF i <= Len(q) THEN Parts(q[i]) ELSE <<>>]]

(* All parts of a request are taken. *)
Done(p) ==
  \/ /\ call[p].op \in {"one", "all"} /\ Return(p) /\ UNCHANGED queue
  \/ /\ call[p].op = "keys"
     /\ call' = [call EXCEPT ![p].todo = <<>>] /\ UNCHANGED queue
  \/ /\ call[p].op = "group"
     /\ queue' = [queue EXCEPT ![p] = RemoveAt(@, call[p].at)]
     /\ GroupNext(p, queue'[p], call[p].at,
                  Append(call[p].got, queue[p][call[p].at]))

Advance(p) ==
  /\ UNCHANGED <<set, err>>
  /\ IF Len(call[p].todo) = 1 THEN Done(p)
     ELSE /\ call' = [call EXCEPT ![p].todo = Tail(@), ![p].left = attempts(p)]
          /\ UNCHANGED queue

(* A request has failed with rc. *)
Fail(p, rc) ==
  /\ \/ /\ call[p].op # "group"
        /\ held' = [held EXCEPT ![p] = IF call[p].op = "all"
             THEN AfterFailure(p, call[p].data, rc) ELSE @]
        /\ err' = [err EXCEPT ![p] = rc = "error"]
        /\ Return(p) /\ UNCHANGED <<set, queue>>
     \/ /\ call[p].op = "group" /\ rc = "error" /\ GroupUndo(p, rc)
     \/ /\ call[p].op = "group" /\ rc = "locked"
        /\ GroupNext(p, queue[p],
             IF single(p) = 1 THEN Len(queue[p]) + 1 ELSE call[p].at + 1,
             call[p].got)
        /\ UNCHANGED <<held, err, set, queue>>

(* Mutant: the tries are not counted. *)
LastTryNever(p, t) == FALSE

(* The tries that are left: file4lockInternal makes attempts of them, the  *)
(* loop of dfile4lockIndex one more, and the memo waits for ever.          *)
LastTry(p, t) ==
  CASE t.kind = "memo"  -> FALSE
    [] t.kind = "index" -> call[p].left = 0
    [] OTHER            -> call[p].left \in {0, 1}

Try(p) ==
  LET t == call[p].todo[1] h == held[p] IN
  /\ Calling(p) /\ call[p].todo # <<>>
  /\ \/ /\ LT!Held(h, t) /\ UNCHANGED held /\ Advance(p)
     \/ /\ ~LT!Held(h, t) /\ LT!Refused(h, t) /\ t.kind # "index"
        /\ Fail(p, RefusedRc(p))
     \/ /\ ~LT!Held(h, t) /\ ~LT!Refused(h, t) /\ Free(t)
        /\ held' = [held EXCEPT ![p] = LT!Take(h, t)]
        /\ Advance(p)
     \/ /\ ~LT!Held(h, t)
        /\ IF LT!Refused(h, t) THEN t.kind = "index" ELSE ~Free(t)
        /\ IF LastTry(p, t) THEN Fail(p, "locked")
           ELSE /\ call[p].left > 0 /\ t.kind # "memo"
                /\ call' = [call EXCEPT ![p].left = @ - 1]
                /\ UNCHANGED <<set, held, err, queue>>

------------------------------------------------------------------------------
(* code4lock: the locks of the queue, round after round, all or none. *)

(* One d4lockAdd, d4lockAddAppend, d4lockAddFile or d4lockAddAll after the *)
(* other, each at the head of the list.                                    *)
QueueAdd(p) ==
  /\ ~Calling(p) /\ ~err[p] /\ queue[p] = <<>>
  /\ \E q \in Queues :
       /\ \A i \in DOMAIN q : ProcOf(q[i].data) = p
       /\ queue' = [queue EXCEPT ![p] = Reverse(q)]
  /\ UNCHANGED <<held, set, err, call>>

QueueClear(p) ==
  /\ ~Calling(p) /\ queue[p] # <<>>
  /\ queue' = [queue EXCEPT ![p] = <<>>]
  /\ UNCHANGED <<held, set, err, call>>

GroupStart(p) ==
  LET h == IF auto(p) = "ALL" THEN LT!UnlockAll(held[p], FALSE) ELSE held[p] IN
  /\ ~Calling(p) /\ ~err[p]
  /\ held' = [held EXCEPT ![p] = h]
  /\ call' = [call EXCEPT ![p] =
       [Idle EXCEPT !.op = "group", !.at = Len(queue[p]) + 1, !.round = -1,
                    !.saved = auto(p), !.base = h.bytes]]
  /\ set' = [set EXCEPT ![p].auto = "OFF"]
  /\ UNCHANGED <<err, queue>>

(* The end of a round: done, out of rounds, or once more from the front. *)
GroupRound(p) ==
  LET n == call[p].round + 1 IN
  /\ call[p].op = "group" /\ call[p].todo = <<>>
  /\ \/ /\ queue[p] = <<>>
        /\ set' = [set EXCEPT ![p].auto = call[p].saved]
        /\ Return(p) /\ UNCHANGED <<held, err, queue>>
     \/ /\ queue[p] # <<>> /\ single(p) # WAIT4EVER /\ n >= single(p)
        /\ GroupUndo(p, "locked")
     \/ /\ queue[p] # <<>> /\ (single(p) = WAIT4EVER \/ n < single(p))
        /\ call' = [call EXCEPT ![p] =
             [@ EXCEPT !.round = IF single(p) = WAIT4EVER THEN 0 ELSE n,
                       !.at = 1, !.left = attempts(p),
                       !.todo = Parts(queue[p][1])]]
        /\ UNCHANGED <<held, set, err, queue>>

------------------------------------------------------------------------------
(* Giving back. *)

(* d4unlock updates the DATA4 first, which fails while an error is         *)
(* pending.  The table's own locks go first, the memo and the index after  *)
(* them, by other calls of UnlockFile.                                     *)
Unlock(p) ==
  /\ ~Calling(p) /\ ~err[p]
  /\ \E d \in DataOf(p) :
       /\ held' = [held EXCEPT ![p] =
            IF LT!HasLocks(@, d) THEN LT!UnlockData(@, d) ELSE @]
       /\ call' = [call EXCEPT ![p] = [Idle EXCEPT !.op = "unlock", !.data = d]]
  /\ UNCHANGED <<set, err, queue>>

UnlockMemo(p) ==
  /\ call[p].op = "unlock"
  /\ held' = [held EXCEPT ![p] = LT!UnlockMemo(@)]
  /\ call' = [call EXCEPT ![p].op = "unlock index"]
  /\ UNCHANGED <<set, err, queue>>

UnlockIndex(p) ==
  /\ call[p].op = "unlock index"
  /\ held' = [held EXCEPT ![p] = LT!UnlockIndex(@, call[p].data)]
  /\ Return(p)
  /\ UNCHANGED <<set, err, queue>>

(* code4unlock. *)
UnlockAll(p) ==
  /\ ~Calling(p)
  /\ held' = [held EXCEPT ![p] = LT!UnlockAll(@, err[p])]
  /\ UNCHANGED <<set, err, call, queue>>

(* d4unlockAppend, as the append of a record calls it. *)
UnlockAppend(p) ==
  /\ ~Calling(p)
  /\ \E d \in DataOf(p) : held' = [held EXCEPT ![p] = LT!UnlockAppend(@, d)]
  /\ UNCHANGED <<set, err, call, queue>>

(* The program has seen the error and resets it. *)
ClearError(p) ==
  /\ ~Calling(p) /\ err[p]
  /\ err' = [err EXCEPT ![p] = FALSE]
  /\ UNCHANGED <<held, set, call, queue>>

Next ==
  \E p \in Procs :
    \/ LockRecord(p) \/ LockAppend(p) \/ LockFile(p) \/ LockAll(p)
    \/ WriteKeys(p) \/ KeysWritten(p)
    \/ Try(p) \/ Undo(p)
    \/ QueueAdd(p) \/ QueueClear(p) \/ GroupStart(p) \/ GroupRound(p)
    \/ Unlock(p) \/ UnlockMemo(p) \/ UnlockIndex(p) \/ UnlockAll(p)
    \/ UnlockAppend(p) \/ ClearError(p)

(* A process in a call goes on trying: u4delayHundredth returns. *)
Spec == Init /\ [][Next]_vars /\ \A p \in Procs : 
  WF_vars(\/ Try(p) \/ GroupRound(p) \/ Undo(p) \/ KeysWritten(p)
          \/ UnlockMemo(p) \/ UnlockIndex(p))

------------------------------------------------------------------------------
(* Every byte LockFile was granted is written down in some field, and      *)
(* nothing is written down that was not granted: a lock nobody would give  *)
(* back, or a lock believed in and not there.  recordLockWriteCount, which *)
(* decides on file locks, counts the locked records.  (dfile4lock,         *)
(* dfile4unlockRecordDo and the functions around them; the append byte is  *)
(* computed from compatibility in one place, from version in the other.)   *)
LocksMatchTheFiles ==
  \A p \in Procs : LET h == held[p] IN
    /\ h \in LT!Locks
    /\ h.bytes = UNION {
         UNION {{LT!RecByte(r) : r \in h.recs[d]} : d \in Data},
         IF h.append # None THEN {LT!AppendByte} ELSE {},
         IF h.file # None THEN LT!FileBytes ELSE {},
         IF h.memo THEN {LT!MemoByte} ELSE {},
         IF h.index # None THEN {LT!IndexByte} ELSE {}}
    /\ h.count = Cardinality({x \in Data \X Recs : x[2] \in h.recs[x[1]]})

(* No two DATA4s, of one process or of two, both have the right to change  *)
(* the same record, the record count, or the file one of them has locked   *)
(* (clones, which share a lockId, do have it together).                    *)
Exclusive ==
  \A p, q \in Procs, d, e \in Data : LET h == held[p] g == held[q] IN
    (LockId(d) # LockId(e)) =>
      /\ h.recs[d] \cap g.recs[e] = {}
      /\ ~(h.append = d /\ g.append = e)
      /\ h.file = d => g.file # e /\ g.append # e /\ g.recs[e] = {}

(* code4lock: either all of the queue is locked, and the queue is empty,   *)
(* or the process has no lock more than before and the queue is whole.     *)
GroupAllOrNothing ==
  [][\A p \in Procs :
       /\ call[p].op = "group" /\ call'[p].op = "idle" =>
            /\ queue'[p] = <<>>
            /\ \A i \in DOMAIN call[p].got :
                 \A t \in ToSet(Parts(call[p].got[i])) : LT!Held(held'[p], t)
       /\ call[p].op = "undo" /\ call'[p].op = "idle" =>
            held'[p].bytes \subseteq call[p].base
       /\ call[p].op \in {"group", "undo"} /\ call'[p].op # "idle" =>
            ToSet(queue'[p]) \cup ToSet(call'[p].got)
              = ToSet(queue[p]) \cup ToSet(call[p].got)]_vars

(* Who waits for ever for whom: the waiter stands before a byte of it. *)
Waits(p, q) ==
  /\ call[p].op \in {"one", "all"} /\ auto(p) = "ALL" /\ attempts(p) = WAIT4EVER
  /\ ~LT!Held(held[p], call[p].todo[1])
  /\ LT!BytesOf(call[p].todo[1]) \cap held[q].bytes # {}

(* With unlockAuto at LOCK4ALL, the default, no processes, however many,   *)
(* wait in a circle, whatever they lock: of any set one waits for none     *)
(* of the others.  All was given back before, and d4lockAll takes file,    *)
(* memo and index in this order.                                           *)
NoWaitCycle ==
  \A S \in (SUBSET Procs) \ {{}} : \E p \in S : \A q \in S : ~Waits(p, q)

(* A process whose lockAttempts is not WAIT4EVER gets an answer from every *)
(* lock call, also from the loops around the index files, the memo (which  *)
(* waits for ever on its own) and the rounds of code4lock.                 *)
Answered ==
  \A p \in Procs :
    (Calling(p) /\ attempts(p) # WAIT4EVER /\ single(p) # WAIT4EVER)
      ~> ~Calling(p)
=============================================================================
