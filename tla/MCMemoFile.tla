----------------------------- MODULE MCMemoFile -----------------------------
(* Two users of a file of two records, with memos of one block and of two. *)
EXTENDS MemoFile, TLC

MCText == {"s", "L"}
MCSize == [t \in MCText |-> IF t = "s" THEN 1 ELSE 2]
Alike == Permutations(User)
MCFiles == {<<"s">>, << >>}

(* Who reads without locks begins with a memo that may grow out of its     *)
(* place, who locks what he reads with a file of no records.               *)
MCInit == Init /\ \A u \in User : us[u].rlk <=> said = << >>
MCSpec == MCInit /\ [][Next]_vars
=============================================================================
