--------------------------- MODULE MCTransactions ---------------------------
(* Two unique tags and a third that is not; two records to begin with. *)
EXTENDS Transactions

MCUnique(g) == IF g = 2 THEN "none" ELSE "r4unique"

MCRecords == {<<1, 1, 1>>, <<2, 1, 1>>, <<3, 2, 2>>, <<1, 2, NoKey>>}
MCTables == {<<<<1, 1, 1>>, <<2, 2, 2>>>>, <<<<1, 2, NoKey>>, <<2, 1, 1>>>>}
=============================================================================
