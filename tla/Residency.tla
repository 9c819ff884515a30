----------------------------- MODULE Residency -----------------------------
(***************************************************************************)
(* What the block cache may rely on about its pool of slots: the promise   *)
(* of IBlockResidency and BlockPool, without the linked lists behind them. *)
(*                                                                         *)
(* A residency is a record:                                                *)
(*   list[s]   the priority list slot s is on, or Free;                    *)
(*   pins[s]   how many claims are outstanding on s;                       *)
(*   older     the pairs <<a, b>> where a and b are on one list and a is   *)
(*             nearer the end a victim is taken from.                      *)
(* The operations are functions from a residency to a residency, because   *)
(* one call of the cache makes several of them under one lock.             *)
(***************************************************************************)
EXTENDS Integers

CONSTANTS
  Slots,        \* the slots of the pool, allocated up front
  Priorities    \* the lists, lowest given up first (BlockPriority)

ASSUME PrioritiesAssumption == Priorities \subseteq Nat

Free == -1

Residency == [list  : [Slots -> Priorities \cup {Free}],
              pins  : [Slots -> Nat],
              older : SUBSET (Slots \X Slots)]

AllFree == [list  |-> [s \in Slots |-> Free],
            pins  |-> [s \in Slots |-> 0],
            older |-> {}]

Resident(r) == {s \in Slots : r.list[s] # Free}

OnList(r, p) == {s \in Slots : r.list[s] = p}

Without(older, s) == {e \in older : e[1] # s /\ e[2] # s}

-----------------------------------------------------------------------------
(* The operations of the residency. *)

Admit(r, s, p) ==
  [list  |-> [r.list EXCEPT ![s] = p],
   pins  |-> [r.pins EXCEPT ![s] = 0],
   older |-> r.older \cup (OnList(r, p) \X {s})]

Touch(r, s) ==
  [r EXCEPT !.older =
     Without(r.older, s) \cup ((OnList(r, r.list[s]) \ {s}) \X {s})]

Pin(r, s) == [r EXCEPT !.pins = [r.pins EXCEPT ![s] = @ + 1]]

Unpin(r, s) == [r EXCEPT !.pins = [r.pins EXCEPT ![s] = @ - 1]]

Forget(r, s) ==
  [r EXCEPT !.list  = [r.list EXCEPT ![s] = Free],
            !.older = Without(r.older, s)]

Retirable(r, s) == r.list[s] # Free /\ r.pins[s] = 0

(* Mutant: the highest list gives up its blocks first.                     *)
IsVictimOfHighest(r, s) ==
  /\ Retirable(r, s)
  /\ \A x \in Slots \ {s} :
        Retirable(r, x) => \/ r.list[s] > r.list[x]
                           \/ r.list[s] = r.list[x] /\ <<s, x>> \in r.older

(* The retirable slot of the lowest list that has one, least recently used *)
(* first; pinned slots are stepped over.                                   *)
IsVictim(r, s) ==
  /\ Retirable(r, s)
  /\ \A x \in Slots \ {s} :
        Retirable(r, x) => \/ r.list[s] < r.list[x]
                           \/ r.list[s] = r.list[x] /\ <<s, x>> \in r.older

-----------------------------------------------------------------------------
(* The operations of the pool. *)

(* TryClaim may hand out slot s: any free slot while there is one, and     *)
(* otherwise the victim.                                                   *)
Claimable(r, s) ==
  IF \E x \in Slots : r.list[x] = Free
    THEN r.list[s] = Free
    ELSE IsVictim(r, s)

(* The residency after TryClaim(p) has handed out s, retiring what s held. *)
Claimed(r, s, p) ==
  Pin(Admit(IF r.list[s] = Free THEN r ELSE Forget(r, s), s, p), s)
============================================================================
