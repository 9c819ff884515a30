----------------------------- MODULE MCIndexTag -----------------------------
EXTENDS IndexTag

MCSize(k) == IF k = 1 THEN 2 ELSE 1
Sym == Permutations(Procs)

(* Keys so long that a leaf holds one. *)
LongKeys(k) == 2
EmptyTag == {<<>>}

(* An empty tag, and one whose entries were added from both ends.          *)
MCStarts == {<<>>, <<<<2, 2>>, <<1, 2>>, <<1, 1>>, <<2, 1>>>>}

(* Every order in which all entries were added: takes some minutes.        *)
AllOrders == SetToSeqs(Keys \X Recs)
=============================================================================
