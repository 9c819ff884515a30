------------------------------ MODULE TagTree ------------------------------
(***************************************************************************)
(* The operations of a tag cursor (Cdx/TagCursor.cs) as operators from a   *)
(* tag and a cursor to a cursor.  A tag is its chain of leaves, each a     *)
(* sequence of entries in stored byte order, with one separator per leaf:  *)
(* the greatest key the branch above it promises.  The branch levels of    *)
(* the tree are collapsed into that one list, as a descent chooses the     *)
(* same leaf through one level or three.                                   *)
(*                                                                         *)
(* A key is its rank among the values its bytes can take: 1 is the least   *)
(* and MaxKey the one whose bytes are all 0xFF, which has no successor.  A *)
(* search is the interval of keys it matches: one key for a whole key,     *)
(* several for a prefix, all of them for an empty value.                   *)
(*                                                                         *)
(* A step of the cursor succeeded exactly when it is on a key afterwards,  *)
(* so the operators return the cursor and OnKey is the code's return value.*)
(***************************************************************************)
EXTENDS Integers, Sequences, FiniteSets, SequencesExt

CONSTANT MaxKey

ASSUME MaxKeyAssumption == MaxKey \in Nat \ {0}

Key == 1..MaxKey

Entry == [key : Key, rec : Nat \ {0}]

Search == {s \in [lo : Key, hi : Key] : s.lo <= s.hi}

\* A search for the whole of one key.
Whole(k) == [lo |-> k, hi |-> k]

\* A zero-length value, which every key matches.
IsEmpty(s) == s.lo = 1 /\ s.hi = MaxKey

\* The tag's entries in the tag's own order.
Order(t) ==
    LET physical == FlattenSeq(t.leaves)
    IN  IF t.descending THEN Reverse(physical) ELSE physical

(* Where a cursor is: the leaf it holds a copy of (0 for none), the place  *)
(* in it and the two flags.                                                *)
Nowhere == [leaf |-> 0, at |-> 1, eof |-> TRUE, bof |-> TRUE]

Landing(l, i) == [leaf |-> l, at |-> i, eof |-> FALSE, bof |-> FALSE]

AtEof(c) == [c EXCEPT !.eof = TRUE, !.bof = FALSE]
AtBof(c) == [c EXCEPT !.bof = TRUE, !.eof = FALSE]

OnKey(t, c) == ~c.eof /\ ~c.bof /\ c.leaf # 0 /\ t.leaves[c.leaf] # <<>>

Current(t, c) == t.leaves[c.leaf][c.at]

MatchesHere(t, c, s) == Current(t, c).key \in s.lo..s.hi

-----------------------------------------------------------------------------
\* Mutant: the place past the last key.
DescendPastLast(t, first) ==
    LET l == IF first THEN 1 ELSE Len(t.leaves)
    IN  IF t.leaves[l] = <<>>
        THEN [Nowhere EXCEPT !.leaf = l]
        ELSE Landing(l, IF first THEN 1 ELSE Len(t.leaves[l]) + 1)

\* The outermost leaf whichever way, and its outermost key.
Descend(t, first) ==
    LET l == IF first THEN 1 ELSE Len(t.leaves)
    IN  IF t.leaves[l] = <<>>
        THEN [Nowhere EXCEPT !.leaf = l]
        ELSE Landing(l, IF first THEN 1 ELSE Len(t.leaves[l]))

Top(t) == Descend(t, ~t.descending)

Bottom(t) == Descend(t, t.descending)

\* The flag that running out of leaves sets, in the tag's order and not the physical one.
RanOut(t, c, dir) ==
    IF (dir > 0) = ~t.descending THEN [c EXCEPT !.eof = TRUE] ELSE [c EXCEPT !.bof = TRUE]

\* One entry along in byte order, over any leaves left without keys.
StepPhysical(t, c, dir) ==
    LET count == Len(t.leaves[c.leaf])
        beyond == {l \in DOMAIN t.leaves : /\ t.leaves[l] # <<>>
                                           /\ IF dir > 0 THEN l > c.leaf ELSE l < c.leaf}
    IN  CASE c.leaf = 0 -> c
          [] c.leaf # 0 /\ c.at <= count /\ ((c.eof /\ dir < 0) \/ (c.bof /\ dir > 0)) ->
                Landing(c.leaf, c.at)
          [] OTHER ->
                CASE c.at + dir \in 1..count -> Landing(c.leaf, c.at + dir)
                  [] c.at + dir \notin 1..count /\ beyond = {} -> RanOut(t, c, dir)
                  [] OTHER -> IF dir > 0
                              THEN Landing(Min(beyond), 1)
                              ELSE Landing(Max(beyond), Len(t.leaves[Max(beyond)]))

StepInTagOrder(t, c, dir) == StepPhysical(t, c, IF t.descending THEN -dir ELSE dir)

Cursor == [leaf : Nat, at : Nat \ {0}, eof : BOOLEAN, bof : BOOLEAN]

(* Steps in the tag's order from c until the entry is one that Stop holds  *)
(* of, or there is none.                                                   *)
WalkUntil(t, c, dir, Stop(_)) ==
    LET walk[x \in Cursor] ==
            IF OnKey(t, x) /\ ~Stop(Current(t, x)) THEN walk[StepInTagOrder(t, x, dir)] ELSE x
    IN  walk[c]

(* Skip stops at the first step that fails, and answers how many did not.  *)
Skip(t, c, count) ==
    LET dir == IF count < 0 THEN -1 ELSE 1
        skip[n \in Nat] ==
            IF n = 0 THEN [cur |-> c, moved |-> 0]
            ELSE LET before == skip[n - 1]
                     next   == StepInTagOrder(t, before.cur, dir)
                 IN  CASE before.moved # dir * (n - 1) -> before
                       [] OTHER -> [cur |-> next,
                                    moved |-> before.moved + IF OnKey(t, next) THEN dir ELSE 0]
    IN  skip[dir * count]

-----------------------------------------------------------------------------
\* Mutant: a separator equal to the key sends it to the leaf after.
ChildPast(t, k) ==
    Min({l \in DOMAIN t.leaves : t.separators[l] > k} \cup {Len(t.leaves)})

\* The leaf a branch sends a key to: the first whose separator is not below it, or the last.
Child(t, k) ==
    Min({l \in DOMAIN t.leaves : t.separators[l] >= k} \cup {Len(t.leaves)})

\* Where in a leaf the first key that is at least k is; one past the last when none is.
LeafSeek(leaf, k) == Min({i \in DOMAIN leaf : leaf[i].key >= k} \cup {Len(leaf) + 1})

\* The bytes one greater than a key's, which the key of all 0xFF has none of.
HasSuccessor(k) == k # MaxKey

\* A step that found no entry stands at the end, or at the beginning.
OrEof(t, c) == IF OnKey(t, c) THEN c ELSE AtEof(c)
OrBof(t, c) == IF OnKey(t, c) THEN c ELSE AtBof(c)

\* The first entry, in byte order, whose key is at least k; SeekNearestByBytes is the same.
SeekFirstAtOrAbove(t, k) ==
    LET l == Child(t, k)
        i == LeafSeek(t.leaves[l], k)
    IN  IF i \in DOMAIN t.leaves[l]
        THEN Landing(l, i)
        ELSE OrEof(t, StepPhysical(t, Landing(l, Max({Len(t.leaves[l]), 1})), 1))

\* One back from an entry, or the last of all from the end.
BackFrom(t, past) ==
    IF OnKey(t, past) THEN OrBof(t, StepPhysical(t, past, -1)) ELSE Descend(t, FALSE)

\* The last entry, in byte order, whose key is at most k.
SeekLastAtOrBelow(t, k) ==
    IF HasSuccessor(k) THEN BackFrom(t, SeekFirstAtOrAbove(t, k + 1)) ELSE Descend(t, FALSE)

\* What a seek leaves behind: the cursor and what it reports.
Left(c, o) == [cur |-> c, outcome |-> o]

\* A seek that came to c: no entry, a match, or a neighbour.
AfterSeek(t, c, s) ==
    CASE ~OnKey(t, c) -> Left(AtEof(c), "Eof")
      [] OnKey(t, c) /\ MatchesHere(t, c, s) -> Left(c, "Found")
      [] OTHER -> Left(c, "After")

BeforeSeek(t, c, s) ==
    CASE ~OnKey(t, c) -> Left(AtBof(c), "Bof")
      [] OnKey(t, c) /\ MatchesHere(t, c, s) -> Left(c, "Found")
      [] OTHER -> Left(c, "Before")

Seek(t, c, s) ==
    CASE IsEmpty(s) -> Left(Top(t), IF OnKey(t, Top(t)) THEN "Found" ELSE "Eof")
      [] ~IsEmpty(s) /\ t.descending /\ ~HasSuccessor(s.hi) -> Left(AtEof(c), "Eof")
      [] OTHER -> AfterSeek(t, IF t.descending THEN SeekLastAtOrBelow(t, s.hi)
                                               ELSE SeekFirstAtOrAbove(t, s.lo), s)

SeekAtOrBefore(t, s) ==
    IF IsEmpty(s)
    THEN Left(Bottom(t), IF OnKey(t, Bottom(t)) THEN "Found" ELSE "Bof")
    ELSE BeforeSeek(t, IF t.descending THEN SeekFirstAtOrAbove(t, s.lo)
                                       ELSE SeekLastAtOrBelow(t, s.hi), s)

FoundOrNone(r) == Left(r.cur, IF r.outcome = "Found" THEN "Found" ELSE "NoEntry")

SeekLast(t, s) == FoundOrNone(SeekAtOrBefore(t, s))

\* Mutant: every continuation starts the search over.
SeekAgain(t, c, s, dir) == IF dir > 0 THEN Seek(t, c, s) ELSE SeekLast(t, s)

\* SeekNext with dir 1, SeekPrevious with dir -1.
SeekAdjacentMatch(t, c, s, dir) ==
    LET next == StepInTagOrder(t, c, dir)
        here == OnKey(t, c) /\ MatchesHere(t, c, s)
    IN  CASE here  -> Left(next, IF OnKey(t, next) /\ MatchesHere(t, next, s)
                                 THEN "Found" ELSE "NoEntry")
          [] ~here -> IF dir > 0 THEN Seek(t, c, s) ELSE SeekLast(t, s)

\* Where a search for the pair ended: off the tag, on the pair, or past it.
AtExact(t, end, k, rec) ==
    IF OnKey(t, end)
    THEN Left(end, IF Current(t, end) = [key |-> k, rec |-> rec] THEN "Found" ELSE "After")
    ELSE Left(end, "Eof")

\* Mutant: a run is walked the same way on a descending tag.
WalkRunAscending(t, first, k, rec) ==
    IF first.outcome # "Found" THEN first
    ELSE AtExact(t, WalkUntil(t, first.cur, 1, LAMBDA e : e.key # k \/ e.rec >= rec), k, rec)

(* Walks a run of equal keys for one record number, which a descending tag *)
(* keeps from the highest to the lowest.                                   *)
WalkRun(t, first, k, rec) ==
    LET Passed(r) == IF t.descending THEN r < rec ELSE r > rec
    IN  IF first.outcome # "Found" THEN first
        ELSE AtExact(t, WalkUntil(t, first.cur, 1,
                                  LAMBDA e : e.key # k \/ e.rec = rec \/ Passed(e.rec)), k, rec)

SeekExact(t, c, k, rec) == WalkRun(t, Seek(t, c, Whole(k)), k, rec)
=============================================================================
