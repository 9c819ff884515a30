---------------------------- MODULE MCBlockCache ----------------------------
(* Instances of BlockCache for TLC.                                        *)
EXTENDS BlockCache, TLC

CONSTANTS t1, t2, dbf, cdx

(* The factory's PriorityFor: an index file above a data file.             *)
FilePriority == (dbf :> 1) @@ (cdx :> 2)
OnePriority  == (dbf :> 1)

(* Two slots: within a window, over an edge, over two edges, past the end
   of a short file, and wider than the pool.                               *)
ManyReads == {<<0, 1>>, <<1, 2>>, <<0, 4>>, <<3, 2>>, <<1, 5>>}

(* One slot: a file's first window, and its second, which may be past its
   end.                                                                    *)
SlotReads == {<<0, 2>>, <<2, 2>>}

Symmetry == Permutations(Threads) \cup Permutations(Slots)
============================================================================
