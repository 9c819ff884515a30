---------------------------- MODULE CompositeFile ----------------------------
(***************************************************************************)
(* What relate4top, relate4bottom, relate4skip and relate4count promise:   *)
(* the composite data file is one list of records, and the program stands  *)
(* at a place in it, 0 off the front and len + 1 off the end.  A relation  *)
(* with a slave that must be found may end the walk instead, and leaves    *)
(* the program nowhere; relate4doAll takes it aside.                       *)
(***************************************************************************)
EXTENDS Integers

VARIABLES len, place, strict
vars == <<len, place, strict>>

nowhere == -1
aside   == -3
MoveTo(p) == place' = p /\ UNCHANGED <<len, strict>>
Placed == place \notin {nowhere, aside}

First    == MoveTo(1)
Final    == len > 0 /\ MoveTo(len)
NoFinal  == len = 0 /\ MoveTo(1)
Forward  == Placed /\ MoveTo(IF place > len THEN place ELSE place + 1)
Backward == Placed /\ MoveTo(IF place = 0 THEN place ELSE place - 1)
Aside    == MoveTo(aside)
GiveUp   == strict /\ MoveTo(nowhere)

Init == len \in Nat /\ strict \in BOOLEAN /\ place = nowhere
Next == First \/ Final \/ NoFinal \/ Forward \/ Backward \/ Aside \/ GiveUp
Spec == Init /\ [][Next]_vars
=============================================================================
