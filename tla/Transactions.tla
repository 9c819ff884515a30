---------------------------- MODULE Transactions ----------------------------
(***************************************************************************)
(* One program of the C engine changes a table, in transactions and        *)
(* outside them (src/original/source: c4trans.c, D4WRITE.C, D4APPEND.C,    *)
(* D4FLUSH.C).  A changed record waits in the record buffer until          *)
(* something flushes it; with the log open every change outside a          *)
(* transaction is a transaction of its own.  TransLog is the log as the    *)
(* processes share it; here are the records and the tags behind it.        *)
(***************************************************************************)
EXTENDS RecordUpdate

CONSTANTS
  Records,     \* records a program may write: a key per tag, or NoKey
  Tables0,     \* tables to begin with: sequences of records
  MaxRecs,     \* bound: records of the table
  MaxEntries,  \* bound: log entries of one transaction
  None

VARIABLES
  t,        \* the table
  logOn,    \* the log is open (code4transEnabled)
  status,   \* currentTranStatus
  entries,  \* what the open transaction has logged
  buf,      \* the changed record that was not written yet
  changed,  \* DATA4.transChanged: the transaction logged a change
  saved,    \* history: the table when the transaction started
  broken,   \* history: a write to the file failed, or a commit stuck
  rc        \* the result of the last call

vars == <<t, logOn, status, entries, buf, changed, saved, broken, rc>>

KeysOf(recs, g) ==
  {<<recs[r][g], r>> : r \in {k \in DOMAIN recs : recs[k][g] # NoKey}}

ASSUME TablesAssumption ==
  \A recs \in Tables0 :
    /\ recs \in Seq(Range(recs))
    /\ \A g \in Tags : Unique(g) # "none" =>
         \A e, f \in KeysOf(recs, g) : e[1] = f[1] => e = f

Init ==
  /\ \E recs \in Tables0 :
       t = [recs |-> recs,
            tags |-> [g \in Tags |-> [keys |-> KeysOf(recs, g), removed |-> <<>>]]]
  /\ logOn \in BOOLEAN /\ status = "inactive" /\ entries = <<>>
  /\ buf = None /\ changed = FALSE /\ saved = None
  /\ broken = FALSE /\ rc = "ok"

------------------------------------------------------------------------------
(* What undoes an entry.  A WRITE is undone by writing the old record; the *)
(* keys to change are found by comparing with the record in the file.  An  *)
(* APPEND whose record is not there was never done.                        *)
UndoEntry(u, e) ==
  CASE e.op = "write"  -> WriteRecord(u, "rollback", e.rec, e.old, FALSE)
    [] e.op = "append" ->
         Done(IF Len(u.recs) = e.rec THEN UnappendRecord(u, e.new) ELSE u, "ok")

(* One change: logged first where there is an open transaction.  Without   *)
(* one, but with the log open, it is wrapped into its own transaction,     *)
(* committed or rolled back at once.  Phase one of a commit writes with    *)
(* status partial: neither.                                                *)
Mini == logOn /\ status = "inactive"

St == IF Mini THEN "active" ELSE status

Change(d, e) ==
  /\ t' = IF ~Mini THEN d.x
          ELSE IF d.rc = "ok" THEN RemoveKeys(d.x) ELSE UndoEntry(d.x, e).x
  /\ entries' = IF status = "active" THEN Append(entries, e) ELSE entries
  /\ changed' = (changed \/ status = "active")
  /\ broken' = (broken \/ d.rc = "error")
  /\ rc' = d.rc
  /\ UNCHANGED <<logOn, saved>>

Room == Len(entries) < MaxEntries

(* Fields are assigned: the record is changed in the buffer only. *)
Replace(r, new) ==
  /\ status # "rollback" /\ buf = None /\ r \in DOMAIN t.recs /\ new # t.recs[r]
  /\ buf' = [rec |-> r, new |-> new]
  /\ rc' = "ok"
  /\ UNCHANGED <<t, logOn, status, entries, changed, saved, broken>>

(* d4update, and every call that goes to another record.  A record that is *)
(* refused stays in the buffer; after a failed write it is gone.           *)
Flush(fails) ==
  /\ status # "rollback" /\ buf # None /\ Room
  /\ LET r == buf.rec new == buf.new IN
     Change(WriteRecord(t, St, r, new, fails),
            [op |-> "write", rec |-> r, old |-> t.recs[r], new |-> new])
  /\ buf' = IF rc' = "unique" THEN buf ELSE None
  /\ UNCHANGED status

(* The buffer is flushed before an append starts (d4appendStart). *)
AppendNew(new, fails) ==
  /\ status # "rollback" /\ buf = None /\ Room /\ Len(t.recs) < MaxRecs
  /\ Change(AppendRecord(t, St, new, fails),
            [op |-> "append", rec |-> Len(t.recs) + 1, old |-> None, new |-> new])
  /\ UNCHANGED <<buf, status>>

(* code4tranStart flushes nothing.  The start after a commit that stuck    *)
(* begins another transaction at what was done so far.                     *)
Start ==
  /\ logOn /\ status \in {"inactive", "partial"}
  /\ status' = "active" /\ entries' = <<>> /\ changed' = FALSE
  /\ saved' = t /\ rc' = "ok"
  /\ UNCHANGED <<t, logOn, buf, broken>>

End ==
  /\ status' = "inactive" /\ entries' = <<>> /\ saved' = None

(* code4tranCommit.  Phase one flushes the buffer, if this transaction     *)
(* changed the table before; the flush is not logged, and what it takes    *)
(* out of a tag goes at once.  If it is refused the status stays partial:  *)
(* a commit or a rollback is then an error.                                *)
Commit(fails) ==
  LET w == IF buf = None \/ ~changed THEN Done(t, "ok")
           ELSE WriteRecord(t, "partial", buf.rec, buf.new, fails) IN
  /\ status = "active"
  /\ rc' = w.rc
  /\ buf' = IF ~changed \/ w.rc = "unique" THEN buf ELSE None
  /\ IF w.rc = "ok"
     THEN End /\ t' = RemoveKeys(w.x) /\ changed' = FALSE
     ELSE /\ status' = "partial" /\ t' = w.x
          /\ UNCHANGED <<entries, saved, changed>>
  /\ broken' = (broken \/ w.rc # "ok")
  /\ UNCHANGED logOn

(* code4tranRollback goes back over the log, from the last entry to the    *)
(* START, and stops where one cannot be undone.  Entries that were refused *)
(* are in the log as well, followed by a VOID that nothing looks at.       *)
Rollback ==
  /\ status = "active"
  /\ status' = "rollback" /\ rc' = "ok"
  /\ UNCHANGED <<t, logOn, entries, buf, changed, saved, broken>>

RollbackEntry ==
  LET w == UndoEntry(t, Last(entries)) IN
  /\ status = "rollback" /\ entries # <<>>
  /\ t' = w.x
  /\ entries' = IF w.rc = "ok" THEN Front(entries) ELSE <<>>
  /\ UNCHANGED <<logOn, status, buf, changed, saved, broken, rc>>

(* The buffers are made invalid after it. *)
RollbackEnd ==
  /\ status = "rollback" /\ entries = <<>>
  /\ End /\ buf' = None /\ changed' = FALSE
  /\ UNCHANGED <<t, logOn, broken, rc>>

Next ==
  \/ \E r \in 1 .. MaxRecs, new \in Records : Replace(r, new)
  \/ \E fails \in BOOLEAN :
       \/ Flush(fails)
       \/ \E new \in Records : AppendNew(new, fails)
       \/ Commit(fails)
  \/ Start \/ Rollback \/ RollbackEntry \/ RollbackEnd

Spec == Init /\ [][Next]_vars

------------------------------------------------------------------------------
(* Bound: nothing is followed past a failed write or a stuck commit. *)
Whole == ~broken

(* A unique tag's entries that are to be removed are kept apart. *)
Listed(g) == Range(t.tags[g].removed)

(* Every tag has the entry of every record that belongs in it, and no      *)
(* other but those a commit will remove: through refusals half way         *)
(* through the tags, rollbacks and single changes.  Excepted is what       *)
(* follows a write to the file that failed, or a commit that stuck.        *)
KeysMatchRecords ==
  ~broken => \A g \in Tags :
    Unique(g) # "r4uniqueContinue" =>
      /\ t.tags[g].keys = KeysOf(t.recs, g) \cup Listed(g)
      /\ KeysOf(t.recs, g) \cap Listed(g) = {}

(* No two records have one key of a unique tag, and a key on the list      *)
(* belongs to no record: whoever looks it up finds one entry.              *)
OneEntryPerKey ==
  ~broken => \A g \in Tags : Unique(g) # "none" =>
    \A e, f \in t.tags[g].keys : e[1] = f[1] => e = f

(* The tags are true of the records.                                       *)
TagsAreTrue == KeysMatchRecords /\ OneEntryPerKey

(* A rollback gives back the table, its tags and its record count as they  *)
(* were at the start, and leaves nothing to be removed.                    *)
RollbackRestores ==
  [][~broken /\ RollbackEnd => t = saved]_vars

(* A change that is refused changes nothing: outside a transaction not one *)
(* entry, inside one at most which entries are still to be removed (one    *)
(* that kept its key for a rollback may be gone after it).                 *)
RefusedChangesNothing ==
  [][~broken /\ rc' = "unique" =>
       /\ t'.recs = t.recs
       /\ (status # "active" /\ \A g \in Tags : Listed(g) = {}) => t' = t
       /\ \A g \in Tags : t'.tags[g].keys \subseteq t.tags[g].keys]_vars

(* "code4tranRollback to abort the transaction and restore the database to *)
(* its original state" (Transaction_Processing/12_Transaction_Processing.  *)
(* htm:598), also when a write in it failed.                               *)
RollbackAlwaysRestores ==
  [][RollbackEnd /\ (\A g \in Tags : saved.tags[g].removed = <<>>) => t = saved]_vars
=============================================================================
