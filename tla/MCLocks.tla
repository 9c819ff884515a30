------------------------------ MODULE MCLocks ------------------------------
(* Two processes; the first has a table open twice. *)
EXTENDS DataLocks

CONSTANTS p1, p2, d1, d2, d3

MCProcOf(d) == IF d = d3 THEN p2 ELSE p1
MCLockId(d) == d
MCRecPos(r) == r

Set(a, n, g) == [auto |-> a, attempts |-> n, single |-> g]
MCSettings(p) ==
  IF p = p1
  THEN {Set("ALL", WAIT4EVER, 1), Set("DATA", 1, 1)}
  ELSE {Set("ALL", WAIT4EVER, 1), Set("OFF", 2, 2)}

Rec(d, r) == [kind |-> "record", data |-> d, rec |-> r]
Whole(k, d) == [kind |-> k, data |-> d, rec |-> 0]
MCQueues == {<<Rec(d1, 1), Rec(d2, 1), Whole("append", d2)>>, <<Rec(d3, 2), Rec(d3, 1)>>}
MCQueuesAll == {<<Whole("all", d1)>>}
=============================================================================
