---------------------------- MODULE RecordUpdate ----------------------------
(***************************************************************************)
(* What writing or appending a record does to a table of the C engine      *)
(* (src/original/source: D4WRITE.C, D4APPEND.C, i4addtag.c, i4remove.c):   *)
(* the records, the entries of the tags one after the other, and the list  *)
(* each unique tag keeps of entries to be removed when the transaction     *)
(* commits (removedKeys), so that nobody can take a key that a rollback    *)
(* has to give back.                                                       *)
(*                                                                         *)
(* A table t is [recs, tags], a tag x is [keys, removed].  A record gives  *)
(* its key per tag, or NoKey where the tag's filter leaves it out; st is   *)
(* the transaction status.  A step returns what it made and rc.            *)
(***************************************************************************)
EXTENDS Integers, Sequences, FiniteSets, SequencesExt

CONSTANTS
  NTags,       \* the tags are 1 .. NTags, in the order of d4tagNext
  Unique(_),   \* "r4unique", "r4uniqueContinue" or "none"
  NoKey

Tags == 1 .. NTags

ASSUME TagsAssumption ==
  /\ NTags \in Nat
  /\ \A g \in Tags : Unique(g) \in {"r4unique", "r4uniqueContinue", "none"}

Keeps(g, st) == st = "active" /\ Unique(g) = "r4unique"

Gone(x, e) == [x EXCEPT !.keys = @ \ {e}]
OnList(x, e) == [x EXCEPT !.removed = <<e>> \o @]
OffList(x, i) == [x EXCEPT !.removed = RemoveAt(@, i)]
Done(x, rc) == [x |-> x, rc |-> rc]

(* t4keyFind: where the list has the key, the first of them; and where it  *)
(* has r's own entry of it.                                                *)
ListedFor(x, key) == {i \in DOMAIN x.removed : x.removed[i][1] = key}
ListedAs(x, key, r) == {i \in ListedFor(x, key) : x.removed[i][2] = r}

(* tfile4add: a unique tag has one entry of a key. *)
Add(g, x, key, r) ==
  IF Unique(g) # "none" /\ \E e \in x.keys : e[1] = key
  THEN Done(x, IF Unique(g) = "r4unique" THEN "unique" ELSE "ok")
  ELSE Done([x EXCEPT !.keys = @ \cup {<<key, r>>}], "ok")

(* tfile4removeCalc: whether the filter takes the record or not. *)
RemoveCalc(x, key, r) == Gone(x, <<key, r>>)

(* A key that is on the list belongs to nobody: r's own is taken off the   *)
(* list and was never gone; another record's is now removed indeed.        *)
Claim(g, x, key, r) ==
  LET i == Min(ListedFor(x, key))
      e == x.removed[i] IN
  IF ListedFor(x, key) = {} THEN Add(g, x, key, r)
  ELSE IF e[2] = r THEN Done(OffList(x, i), "ok")
  ELSE Add(g, Gone(OffList(x, i), e), key, r)

(* t4addCalc looks at the list only while the transaction is active, and   *)
(* for the record's own entry before any other of that key.                *)
AddCalc(g, x, st, key, r) ==
  IF key = NoKey THEN Done(x, "ok")
  ELSE IF ~Keeps(g, st) THEN Add(g, x, key, r)
  ELSE IF ListedAs(x, key, r) # {}
  THEN Done(OffList(x, Min(ListedAs(x, key, r))), "ok")
  ELSE Claim(g, x, key, r)

------------------------------------------------------------------------------
(* d4writeKeysOneTag. *)
RemoveOld(g, x, st, key, r) ==
  IF key = NoKey THEN x
  ELSE IF Keeps(g, st) THEN OnList(x, <<key, r>>)
  ELSE Gone(x, <<key, r>>)

(* Mutant: a rollback adds the key again and leaves it on the list. *)
AddNewListed(g, x, st, key, r) ==
  IF key = NoKey THEN Done(x, "ok") ELSE Add(g, x, key, r)

(* In a rollback the record's own entry was perhaps never removed. *)
AddNew(g, x, st, key, r) ==
  IF key = NoKey THEN Done(x, "ok")
  ELSE IF st = "rollback" /\ ListedAs(x, key, r) # {}
  THEN Done(OffList(x, Min(ListedAs(x, key, r))), "ok")
  ELSE IF Unique(g) # "none" THEN Claim(g, x, key, r)
  ELSE Add(g, x, key, r)

PutBackOld(g, x, st, key, r) ==
  IF key = NoKey THEN x
  ELSE IF Keeps(g, st) THEN OffList(x, 1)
  ELSE Add(g, x, key, r).x

WriteKeyOneTag(g, x, st, r, old, new) ==
  LET added == AddNew(g, RemoveOld(g, x, st, old, r), st, new, r) IN
  IF old = new THEN Done(x, "ok")
  ELSE IF added.rc = "ok" THEN added
  ELSE Done(PutBackOld(g, added.x, st, old, r), added.rc)

(* Mutant: the keys that were added stay. *)
UndoTagHalf(g, x, st, r, old, new) ==
  IF old = new \/ old = NoKey THEN x ELSE AddCalc(g, x, st, old, r).x

(* d4writeKeysRemoveKeys: the tags before the one that refused.  What it   *)
(* adds again it adds as an append does.                                   *)
UndoTag(g, x, st, r, old, new) ==
  LET u == IF new = NoKey THEN x ELSE RemoveCalc(x, new, r) IN
  IF old = new THEN x ELSE AddCalc(g, u, st, old, r).x

(* The tags in order, each by itself, up to the first that refuses; then   *)
(* back over those before it.  made has each tag's step and undone what    *)
(* the way back makes of it.                                               *)
InTurn(tags, made, undone) ==
  LET refusing == {g \in Tags : made[g].rc # "ok"}
      at == Min(refusing) IN
  IF refusing = {} THEN Done([g \in Tags |-> made[g].x], "ok")
  ELSE Done([g \in Tags |-> IF g < at THEN undone[g]
                            ELSE IF g = at THEN made[g].x ELSE tags[g]],
            made[at].rc)

(* d4writeKeys. *)
WriteKeys(tags, st, r, old, new) ==
  LET made == [g \in Tags |-> WriteKeyOneTag(g, tags[g], st, r, old[g], new[g])]
  IN  InTurn(tags, made,
             [g \in Tags |-> UndoTag(g, made[g].x, st, r, old[g], new[g])])

(* d4writeLow's own part: the keys, then the record.  When the record      *)
(* cannot be written an error is pending, and d4unwriteKeys stops at the   *)
(* index lock it asks for (dfile4lockIndex refuses after an error): the    *)
(* new keys stay.                                                          *)
WriteRecord(t, st, r, new, fails) ==
  LET w == WriteKeys(t.tags, st, r, t.recs[r], new)
      u == [t EXCEPT !.tags = w.x] IN
  IF w.rc # "ok" THEN Done(u, w.rc)
  ELSE IF fails THEN Done(u, "error")
  ELSE Done([u EXCEPT !.recs[r] = new], "ok")

(* d4doAppend.  A tag that refuses has the tags before it cleaned; after a *)
(* failed write nothing is, for the same reason as above.                  *)
AppendRecord(t, st, new, fails) ==
  LET r == Len(t.recs) + 1
      made == [g \in Tags |-> AddCalc(g, t.tags[g], st, new[g], r)]
      w == InTurn(t.tags, made, [g \in Tags |-> RemoveCalc(made[g].x, new[g], r)])
      u == [t EXCEPT !.tags = w.x] IN
  IF w.rc # "ok" THEN Done(u, w.rc)
  ELSE IF fails THEN Done(u, "error")
  ELSE Done([u EXCEPT !.recs = Append(@, new)], "ok")

(* d4unappend. *)
UnappendRecord(t, image) ==
  LET r == Len(t.recs) IN
  [recs |-> Front(t.recs),
   tags |-> [g \in Tags |-> RemoveCalc(t.tags[g], image[g], r)]]

(* tran4lowRemoveKeys: at a commit the listed entries go. *)
RemoveKeys(t) ==
  [t EXCEPT !.tags = [g \in Tags |->
     [keys |-> t.tags[g].keys \ Range(t.tags[g].removed), removed |-> <<>>]]]
=============================================================================
