------------------------------ MODULE TransLog ------------------------------
(***************************************************************************)
(* The transaction log that the processes of the C engine share            *)
(* (src/original/source/c4trans.c): a file of entries that grows at its    *)
(* end, and the bytes far behind the end that processes lock in it.        *)
(*                                                                         *)
(*   Multiple     held while entries are written, and for as long as a     *)
(*                transaction lasts                                        *)
(*   0..MaxUsers  a process holds one of them, its user number, as long    *)
(*                as it has the log open                                   *)
(*   Reserve      held by who looks at the user bytes                      *)
(*                                                                         *)
(* A process may crash at any step; the system gives back its bytes.       *)
(* What a transaction writes to the tables is one change per WRITE entry;  *)
(* Transactions models the change itself.                                  *)
(***************************************************************************)
EXTENDS Integers, Sequences, FiniteSets, SequencesExt

CONSTANTS
  Procs,
  MaxUsers,   \* TRAN4MAX_USERS, 1000 in the code
  MaxLog,     \* bound: sessions and changes start while the log is shorter
  None

ASSUME LogAssumption ==
  MaxUsers \in Nat \ {0} /\ MaxLog \in Nat /\ None \notin Procs

VARIABLES
  log,       \* the file; <<>> when it exists and nothing is in it yet
  exists,    \* the file is there
  owner,     \* owner[b]: who holds byte b of the file
  proc,      \* proc[p]: where p is, and the fields of its TRAN4FILE and TRAN4
  data       \* the positions of the WRITE entries that are in the tables

vars == <<log, exists, owner, proc, data>>

Users == 0 .. MaxUsers
Multiple == -1            \* TRAN4LOCK_MULTIPLE
Reserve  == MaxUsers + 1
Bytes    == Users \cup {Multiple, Reserve}

(* at      where p is between its steps                                    *)
(* i       the user byte it looks at                                       *)
(* user    userIdNo, 0 before there is one                                 *)
(* fileId  TRAN4FILE.transId, the last id given                            *)
(* id      TRAN4.transId                                                   *)
(* status  currentTranStatus                                               *)
Closed == [at |-> "closed", i |-> 0, user |-> 0, fileId |-> 0, id |-> 0,
           status |-> "inactive"]

Entry(p, type) == [type |-> type, user |-> proc[p].user,
                   id |-> IF proc[p].status # "inactive" THEN proc[p].id ELSE 0]

Init ==
  /\ log = <<>> /\ exists = FALSE /\ data = {}
  /\ owner = [b \in Bytes |-> None]
  /\ proc = [p \in Procs |-> Closed]

------------------------------------------------------------------------------
Goto(p, at) == proc' = [proc EXCEPT ![p].at = at]

(* code4tranLockTransactions waits for ever; a byte held already is kept.  *)
CanWrite(p) == owner[Multiple] \in {p, None}

(* Only one process looks at the user bytes at a time. *)
Open(p) ==
  /\ proc[p].at = "closed" /\ exists /\ Len(log) < MaxLog
  /\ owner[Reserve] = None
  /\ owner' = [owner EXCEPT ![Reserve] = p]
  /\ proc' = [proc EXCEPT ![p] = [Closed EXCEPT !.at = "probe"]]
  /\ UNCHANGED <<log, exists, data>>

(* A byte somebody holds says that the log is in use: it is believed.      *)
InUse(p) ==
  /\ proc[p].at = "probe" /\ owner[proc[p].i] # None
  /\ owner' = [owner EXCEPT ![Reserve] = None]
  /\ proc' = [proc EXCEPT ![p].at = "add", ![p].i = 1]
  /\ UNCHANGED <<log, exists, data>>

Probe(p) ==
  /\ proc[p].at = "probe" /\ owner[proc[p].i] = None
  /\ owner' = [owner EXCEPT ![proc[p].i] = p]
  /\ Goto(p, "probed")
  /\ UNCHANGED <<log, exists, data>>

Unprobe(p) ==
  /\ proc[p].at = "probed"
  /\ owner' = [owner EXCEPT ![proc[p].i] = None]
  /\ proc' = [proc EXCEPT ![p].at = IF proc[p].i = MaxUsers THEN "verify" ELSE "probe",
                          ![p].i = @ + 1]
  /\ UNCHANGED <<log, exists, data>>

WellEnded == Len(log) >= 2 /\ Last(log).type = "SHUTDOWN"

(* Nobody had the log: it must end with a SHUTDOWN, or it is refused.      *)
Verify(p) ==
  /\ proc[p].at = "verify"
  /\ owner' = [owner EXCEPT ![Reserve] = None]
  /\ proc' = [proc EXCEPT ![p] = IF WellEnded
                                 THEN [@ EXCEPT !.at = "add", !.i = 1] ELSE Closed]
  /\ UNCHANGED <<log, exists, data>>

CreateFile(p) ==
  /\ proc[p].at = "closed" /\ ~exists
  /\ exists' = TRUE
  /\ Goto(p, "create")
  /\ UNCHANGED <<log, owner, data>>

CreateMark(p) ==
  /\ proc[p].at = "create" /\ CanWrite(p)
  /\ log' = Append(log, [type |-> "SHUTDOWN", user |-> 0, id |-> 0])
  /\ proc' = [proc EXCEPT ![p].at = "add", ![p].i = 1]
  /\ UNCHANGED <<exists, owner, data>>

(* The first user byte that can be had, tried one after the other.  With   *)
(* none left an error is raised that nobody looks at: the log is open, and *)
(* its user is 0.                                                          *)
AddUser(p) ==
  LET i == proc[p].i IN
  /\ proc[p].at = "add"
  /\ IF i > MaxUsers
     THEN Goto(p, "open") /\ UNCHANGED owner
     ELSE IF owner[i] = None
     THEN /\ owner' = [owner EXCEPT ![i] = p]
          /\ proc' = [proc EXCEPT ![p].at = "init", ![p].user = i]
     ELSE proc' = [proc EXCEPT ![p].i = i + 1] /\ UNCHANGED owner
  /\ UNCHANGED <<log, exists, data>>

InitEntry(p) ==
  /\ proc[p].at = "init" /\ CanWrite(p)
  /\ log' = Append(log, Entry(p, "INIT"))
  /\ Goto(p, "open")
  /\ UNCHANGED <<exists, owner, data>>

------------------------------------------------------------------------------
(* The last id in the log that user u gave itself, 0 if there is none.     *)
LastIdOf(u) ==
  LET k == SelectLastInSeq(log, LAMBDA e : e.id % MaxUsers = u)
  IN  IF k = 0 THEN 0 ELSE log[k].id

(* tran4fileGetNextTransId.  Steps of MaxUsers from the user number keep   *)
(* the ids of users apart.  A session's first looks for the last one its   *)
(* user number had.                                                        *)
NextId(p) ==
  LET last == LastIdOf(proc[p].user) IN
  IF proc[p].fileId > 0 THEN proc[p].fileId + MaxUsers
  ELSE IF last > 0 \/ proc[p].user = 0 THEN last + MaxUsers ELSE proc[p].user

(* Entries that are no part of a transaction: a table opened or closed.    *)
Note(p) ==
  /\ proc[p].at = "open" /\ proc[p].status = "inactive"
  /\ CanWrite(p) /\ Len(log) < MaxLog
  /\ log' = Append(log, Entry(p, "OPEN"))
  /\ UNCHANGED <<exists, owner, proc, data>>

Start(p) ==
  LET id == IF proc[p].id > 0 THEN proc[p].id ELSE NextId(p) IN
  /\ proc[p].at \in {"open", "stuck"} /\ proc[p].status # "active"
  /\ CanWrite(p) /\ Len(log) < MaxLog
  /\ owner' = [owner EXCEPT ![Multiple] = p]
  /\ log' = Append(log, [type |-> "START", user |-> proc[p].user, id |-> id])
  /\ proc' = [proc EXCEPT ![p].at = "open", ![p].status = "active",
                          ![p].id = id, ![p].fileId = IF proc[p].id > 0 THEN @ ELSE id]
  /\ UNCHANGED <<exists, data>>

(* The entry goes to the log before the change goes to the table, and a    *)
(* crash may come between them.                                            *)
LogWrite(p) ==
  /\ proc[p].at = "open" /\ proc[p].status = "active"
  /\ CanWrite(p) /\ Len(log) < MaxLog
  /\ log' = Append(log, Entry(p, "WRITE"))
  /\ Goto(p, "write")
  /\ UNCHANGED <<exists, owner, data>>

Write(p) ==
  /\ proc[p].at = "write"
  /\ data' = data \cup {Len(log)}
  /\ Goto(p, "open")
  /\ UNCHANGED <<log, exists, owner>>

(* Phase one writes out what is pending and says so in the log; a pending  *)
(* record that is refused leaves the transaction partial, and then neither *)
(* phase two nor a rollback takes it.  Another start does, under the old   *)
(* id.                                                                     *)
CommitOne(p, rc) ==
  /\ proc[p].at = "open" /\ proc[p].status = "active" /\ CanWrite(p)
  /\ proc' = [proc EXCEPT ![p].status = "partial",
                          ![p].at = IF rc = 0 THEN "commit" ELSE "stuck"]
  /\ log' = IF rc = 0 THEN Append(log, Entry(p, "COMMIT_PHASE_ONE")) ELSE log
  /\ UNCHANGED <<exists, owner, data>>

End(p, at) ==
  /\ owner' = [owner EXCEPT ![Multiple] = IF @ = p THEN None ELSE @]
  /\ proc' = [proc EXCEPT ![p].status = "inactive", ![p].id = 0, ![p].at = at]

CommitTwo(p) ==
  /\ proc[p].at = "commit" /\ CanWrite(p)
  /\ log' = Append(log, Entry(p, "COMMIT_PHASE_TWO"))
  /\ End(p, "open")
  /\ UNCHANGED <<exists, data>>

(* Mutant: the walk stops at the first entry it meets. *)
UndoneLast(p) == {k \in {Len(log)} : log[k].type = "WRITE"}

(* What the walk of tran4lowRollback from the end of the log undoes: the   *)
(* entries of its id down to the first START of it.                        *)
Undone(p) ==
  LET first == SelectLastInSeq(log, LAMBDA e : e.id = proc[p].id /\ e.type = "START")
  IN  {k \in first .. Len(log) : log[k].id = proc[p].id /\ log[k].type = "WRITE"}

(* An entry that cannot be undone stops the walk: there is no ROLLBACK     *)
(* entry, and yet the transaction is over (the lock's result replaces the  *)
(* failure's).                                                             *)
Rollback(p, next) ==
  /\ proc[p].at = "open" /\ proc[p].status = "active" /\ CanWrite(p)
  /\ \/ /\ data' = data \ Undone(p)
        /\ log' = Append(log, Entry(p, "ROLLBACK"))
     \/ \E k \in Undone(p) :
          data' = data \ {j \in Undone(p) : j > k} /\ UNCHANGED log
  /\ End(p, next)
  /\ UNCHANGED exists

------------------------------------------------------------------------------
(* code4initUndo: an active transaction is rolled back first; a partial    *)
(* one is not.                                                             *)
BeginClose(p) ==
  /\ proc[p].at \in {"open", "stuck"} /\ proc[p].status # "active"
  /\ Goto(p, "undo")
  /\ UNCHANGED <<log, exists, owner, data>>

CloseActive(p) == Rollback(p, "undo")

CloseFile(p) ==
  /\ owner' = [b \in Bytes |-> IF owner[b] = p THEN None ELSE owner[b]]
  /\ proc' = [proc EXCEPT ![p] = Closed]

InitUndo(p) ==
  /\ proc[p].at = "undo" /\ CanWrite(p)
  /\ log' = Append(log, Entry(p, "INIT_UNDO"))
  /\ IF proc[p].status = "inactive" THEN Goto(p, "leave") /\ UNCHANGED owner
                                    ELSE CloseFile(p)
  /\ UNCHANGED <<exists, data>>

(* The user byte is given back so that all of them can be asked for.       *)
Leave(p) ==
  /\ proc[p].at = "leave"
  /\ owner' = [owner EXCEPT ![proc[p].user] = IF @ = p THEN None ELSE @]
  /\ Goto(p, "last")
  /\ UNCHANGED <<log, exists, data>>

(* Mutant: the last two users are not looked at. *)
AllUsersButTwo == 0 .. MaxUsers - 2

(* MaxUsers bytes from the first: the byte of the last user is not there.  *)
AllUsers == 0 .. MaxUsers - 1

(* Asked once. *)
LastUser(p) ==
  /\ proc[p].at = "last"
  /\ IF \A b \in AllUsers : owner[b] = None
     THEN /\ owner' = [b \in Bytes |-> IF b \in AllUsers THEN p ELSE owner[b]]
          /\ Goto(p, "shutdown")
     ELSE CloseFile(p)
  /\ UNCHANGED <<log, exists, data>>

Shutdown(p) ==
  /\ proc[p].at = "shutdown" /\ CanWrite(p)
  /\ log' = Append(log, [type |-> "SHUTDOWN", user |-> 0, id |-> 0])
  /\ CloseFile(p)
  /\ UNCHANGED <<exists, data>>

Crash(p) ==
  /\ proc[p].at # "closed"
  /\ CloseFile(p)
  /\ UNCHANGED <<log, exists, data>>

(* The steps of a call, once it is made. *)
Continue(p) ==
  \/ InUse(p) \/ Probe(p) \/ Unprobe(p) \/ Verify(p)
  \/ CreateMark(p) \/ AddUser(p) \/ InitEntry(p)
  \/ Write(p) \/ CommitTwo(p)
  \/ InitUndo(p) \/ Leave(p) \/ LastUser(p) \/ Shutdown(p)

Next ==
  \E p \in Procs :
    \/ CreateFile(p) \/ Open(p) \/ Continue(p)
    \/ Note(p) \/ Start(p) \/ LogWrite(p)
    \/ \E rc \in {0, -1} : CommitOne(p, rc)
    \/ Rollback(p, "open") \/ BeginClose(p) \/ CloseActive(p)
    \/ Crash(p)

Spec == Init /\ [][Next]_vars

------------------------------------------------------------------------------
Starts == {k \in 1 .. Len(log) : log[k].type = "START"}
(* The START an entry of a transaction belongs to: the last before it.     *)
StartOf(k) == CHOOSE s \in Starts : s < k /\ ~\E t \in Starts : s < t /\ t < k
Changes(k) == {w \in StartOf(k) .. k : log[w].type = "WRITE"}

(* An id is used again only by the session whose commit got stuck, for a   *)
(* transaction that did not end: whatever crashed or closed in between.    *)
(* The last user number is an exception: its remainder is 0, so it never   *)
(* finds its earlier ids (c4trans.c:1070-1084).                            *)
TransIdsUnique ==
  \A k, l \in Starts : k < l /\ log[k].id = log[l].id =>
    \/ log[k].id % MaxUsers = 0
    \/ \A j \in k .. l :
         /\ log[j].id = log[k].id =>
              log[j].type \notin {"COMMIT_PHASE_TWO", "ROLLBACK"}
         /\ log[j].type = "INIT" => log[j].user # log[k].user

(* The tables hold all of what a committed transaction wrote and none of   *)
(* what a rolled back one did, for ever and whoever crashed since.         *)
LogTellsTheTables ==
  \A k \in 1 .. Len(log) :
    /\ log[k].type = "COMMIT_PHASE_TWO" => Changes(k) \subseteq data
    /\ log[k].type = "ROLLBACK" => Changes(k) \cap data = {}

(* An open transaction is the end of the log: nobody writes between its    *)
(* entries, so a walk back from the end meets only its own.                *)
OpenIsTheEnd ==
  \A p \in Procs :
    proc[p].status = "active" /\ proc[p].at # "closed" =>
      \A k \in StartOf(Len(log) + 1) .. Len(log) :
        log[k].id = proc[p].id /\ log[k].user = proc[p].user

(* The log is true of the tables, each transaction in it has an id of its  *)
(* own, and the open one can be walked back from the end.                  *)
LogIsTrue == TransIdsUnique /\ LogTellsTheTables /\ OpenIsTheEnd

(* Who marks the log as shut down is the last one in it: nobody else has a *)
(* user number, save the last number, which the closer does not look at,   *)
(* and a process that is itself on its way out.                            *)
ShutdownIsByTheLast ==
  [][\A p \in Procs : Shutdown(p) =>
       \A q \in Procs \ {p} :
         proc[q].user % MaxUsers = 0 \/ proc[q].at = "last"]_vars

(* "<final TRAN4SHUTDOWN entry> - indicates transaction file was properly  *)
(* shut down" (c4trans.c:50): no transaction is left half way.             *)
ShutdownMeansEnded ==
  Len(log) > 0 /\ Last(log).type = "SHUTDOWN" =>
    \A s \in Starts : \E k \in s .. Len(log) :
      log[k].type \in {"COMMIT_PHASE_TWO", "ROLLBACK"} /\ log[k].id = log[s].id
=============================================================================
