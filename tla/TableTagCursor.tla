--------------------------- MODULE TableTagCursor ---------------------------
(***************************************************************************)
(* A tag as a table walks it (Dbf/TableTagCursor.cs): a tag cursor, the    *)
(* search that SeekNext would continue, and whether the last synchronize   *)
(* landed near a record and not on it.  The operators take a tag and the   *)
(* number of records the table holds.  The code's search shares one buffer *)
(* with the keys it rebuilds; both places that write the buffer also set   *)
(* or clear the search, so a search is its interval here.                  *)
(***************************************************************************)
EXTENDS TagTree

NoSearch == [lo |-> 0, hi |-> 0]

\* A cursor never used.
Unused == [cur |-> Nowhere, search |-> NoSearch, near |-> FALSE]

ForgetSearch(k) == [k EXCEPT !.search = NoSearch]

ForgetBlocks(k) == [k EXCEPT !.cur = Nowhere, !.search = NoSearch]

(* From the entry the cursor is on, past every entry whose record the      *)
(* table does not have.                                                    *)
Land(t, c, forwards, count) ==
    WalkUntil(t, c, IF forwards THEN 1 ELSE -1, LAMBDA e : e.rec \in 1..count)

\* The record a landing names, 0 for none.
Named(t, c) == IF OnKey(t, c) THEN Current(t, c).rec ELSE 0

FirstIn(t, count) == Land(t, Top(t), TRUE, count)

LastIn(t, count) == Land(t, Bottom(t), FALSE, count)

\* What a seek came to, r, once the entries of missing records are stepped over to l.
Settled(t, r, l, forwards) ==
    CASE r.outcome \in {"Eof", "Bof", "NoEntry"} -> r
      [] r.outcome \notin {"Eof", "Bof", "NoEntry"} /\ OnKey(t, l) -> Left(l, r.outcome)
      [] OTHER -> Left(l, IF forwards THEN "Eof" ELSE "Bof")

\* Mutant: every landing steps over missing records forwards.
LandedForwards(t, r, forwards, count) == Settled(t, r, Land(t, r.cur, TRUE, count), forwards)

Landed(t, r, forwards, count) == Settled(t, r, Land(t, r.cur, forwards, count), forwards)

\* A move that passed s.moved entries of the n it was to pass.
Stepped(t, s, n, count) ==
    LET there == Land(t, s.cur, n >= 0, count)
        front == FirstIn(t, count)
    IN  CASE s.moved = n -> Left(there, IF OnKey(t, there) THEN "Moved" ELSE "Nowhere")
          [] s.moved # n /\ n < 0 -> Left(front, IF OnKey(t, front) THEN "Stopped" ELSE "Nowhere")
          [] OTHER -> Left(s.cur, "AtEnd")

(* A move by a number of entries.  Running out of them backwards stops on  *)
(* the tag's first record.                                                 *)
Step(t, c, n, count) == Stepped(t, Skip(t, c, n), n, count)

\* Where a descent to the record's own entry, or failing that to its key, leaves the cursor.
Descended(t, exact, key) ==
    IF exact.outcome = "Found"
    THEN [cur |-> exact.cur, search |-> NoSearch, near |-> FALSE]
    ELSE [cur |-> SeekFirstAtOrAbove(t, key), search |-> NoSearch, near |-> TRUE]

\* Mutant: a cursor that is on a key is taken to be on the record's.
SynchronizeTrusting(t, k, rec, key) ==
    IF OnKey(t, k.cur) THEN k ELSE Descended(t, SeekExact(t, k.cur, key, rec), key)

(* Brings the tag to the record the table is on: nothing to do when it is  *)
(* there, else a descent to the key the record buffer gives, or to the     *)
(* nearest above it.  It failed when the cursor is on no key afterwards.   *)
Synchronize(t, k, rec, key) ==
    IF OnKey(t, k.cur) /\ Current(t, k.cur).rec = rec
    THEN k
    ELSE Descended(t, SeekExact(t, k.cur, key, rec), key)

\* Mutant: one fewer in both directions, as the C library has it.
AdjustedDown(t, k, n) ==
    CASE ~k.near -> n
      [] k.near /\ t.descending -> IF n < 0 THEN n - 1 ELSE n
      [] OTHER -> IF n > 0 THEN n - 1 ELSE n

\* Table.Adjusted: a landing near the record has already taken one step.
Adjusted(t, k, n) ==
    CASE ~k.near -> n
      [] k.near /\ t.descending -> IF n < 0 THEN n + 1 ELSE n
      [] OTHER -> IF n > 0 THEN n - 1 ELSE n
=============================================================================
