------------------------------- MODULE KeySet -------------------------------
(* What a tag is to the rest of the engine: a set of entries <<key,        *)
(* record>>, at most one of a key when the tag is unique.                  *)
EXTENDS Integers

CONSTANTS Entries, Unique

VARIABLES set, rc

Init == set \subseteq Entries /\ rc = "ok"

Insert(e) ==
  \/ /\ Unique => \A x \in set : x[1] # e[1]
     /\ set' = set \cup {e} /\ rc' = "ok"
  \/ /\ Unique /\ \E x \in set : x[1] = e[1]
     /\ set' = set /\ rc' = "unique"

Delete(e) ==
  /\ set' = set \ {e}
  /\ rc' = IF e \in set THEN "ok" ELSE "entry"

Next == <<set, rc>>' # <<set, rc>> /\ \E e \in Entries : Insert(e) \/ Delete(e)

Spec == Init /\ [][Next]_<<set, rc>>
=============================================================================
