------------------------------- MODULE Table -------------------------------
(***************************************************************************)
(* The record pointer of one table (Table.cs, Dbf/RecordPosition.cs,       *)
(* Dbf/RecordReader.cs) and the tag cursors it moves through: every order  *)
(* of its navigation calls, on every table of Tables.  The files do not    *)
(* change; the tags may leave records out and may name records the table   *)
(* does not have, as a filtered tag and a writer's newer index do.  Calls  *)
(* are whole: a table is used by one thread at a time.                     *)
(***************************************************************************)
EXTENDS TableTagCursor

CONSTANTS Tags,      \* the names of the table's tags
          Tables,    \* [count, keys, trees, short]: see TableOK
          Searches,  \* what a caller seeks
          Counts     \* how far a caller skips

NoTag == "record order"

ASSUME TagsAssumption == NoTag \notin Tags

(* A table: how many records its header says, what key each record gives   *)
(* in each tag, the tags as their index holds them, and the records whose  *)
(* bytes the file is too short to give whole.  An entry of a record the    *)
(* table has is under that record's key.                                   *)
TableOK(t) ==
    /\ t.count \in Nat
    /\ t.keys \in [Tags -> [1..t.count -> Key]]
    /\ DOMAIN t.trees = Tags
    /\ \A g \in Tags : \A e \in Range(Order(t.trees[g])) :
          e.rec \in 1..t.count => e.key = t.keys[g][e.rec]
    /\ t.short \subseteq 1..t.count

ASSUME TablesAssumption == \A t \in Tables : TableOK(t)

VARIABLES table,     \* the one of Tables this is
          at,        \* RecordPosition, the record buffer and the last answer
          selected,  \* the tag whose order is followed, or NoTag
          parked,    \* one TableTagCursor per tag
          call       \* history: the call that led here

vars == <<table, at, selected, parked, call>>

(* The name of a call, the tag it moves in, how far or which way it goes,  *)
(* and what it seeks.                                                      *)
Call(op, g, n, s) == [op |-> op, tag |-> g, n |-> n, sought |-> s]

Count == table.count
Tree(g) == table.trees[g]

(* What the record buffer holds: whose bytes (0 for the blank record, -1   *)
(* for parts of two) and the key each tag would make of them.              *)
Blank == [of |-> 0, keys |-> [g \in Tags |-> 1]]

Bytes(r) == [of |-> r, keys |-> [g \in Tags |-> table.keys[g][r]]]

(* A read that came up short has overwritten the fields at the front of    *)
(* the record and none at the back; a tag of Leading is over the former.   *)
CONSTANT Leading

Torn(held, r) ==
    [of |-> -1, keys |-> [g \in Tags |-> IF g \in Leading THEN table.keys[g][r] ELSE held.keys[g]]]

Answers == {"Nothing", "Ok", "NoRecord", "Moved", "Eof", "Bof", "Found", "After", "Before", "Throws"}

TypeOK ==
    /\ TableOK(table)
    /\ at.number \in {-1} \cup 1..(Count + 1)
    /\ at.eof \in BOOLEAN /\ at.bof \in BOOLEAN
    /\ at.held.of \in -1..Count /\ at.held.keys \in [Tags -> Key]
    /\ at.answer \in Answers
    /\ selected \in Tags \cup {NoTag}
    /\ \A g \in Tags :
         LET k == parked[g]
         IN  /\ k.search \in Search \cup {NoSearch}
             /\ k.near \in BOOLEAN
             /\ k.cur.leaf \in 0..Len(Tree(g).leaves)
             /\ OnKey(Tree(g), k.cur) => k.cur.at \in DOMAIN Tree(g).leaves[k.cur.leaf]

Init ==
    /\ table \in Tables
    /\ at = [number |-> -1, eof |-> FALSE, bof |-> FALSE, held |-> Blank, answer |-> "Nothing"]
    /\ selected = NoTag
    /\ parked = [g \in Tags |-> Unused]
    /\ call = Call("Open", NoTag, 0, NoSearch)

-----------------------------------------------------------------------------
(* The moves of the position; p is a value of at.  A fetch that fails has  *)
(* moved nothing and left a torn buffer, and what follows it is not done.  *)
Answering(p, a) == IF p.answer = "Throws" THEN p ELSE [p EXCEPT !.answer = a]

\* Mutant: the position moves before the record is read.
FetchMovingFirst(p, r) ==
    IF r \in table.short
    THEN [p EXCEPT !.number = r, !.held = Torn(p.held, r), !.answer = "Throws"]
    ELSE [number |-> r, eof |-> FALSE, bof |-> FALSE, held |-> Bytes(r), answer |-> "Ok"]

\* Mutant: the beginning flag is left as it was.
FetchKeepingBof(p, r) ==
    IF r \in table.short
    THEN [p EXCEPT !.held = Torn(p.held, r), !.answer = "Throws"]
    ELSE [number |-> r, eof |-> FALSE, bof |-> p.bof, held |-> Bytes(r), answer |-> "Ok"]

Fetch(p, r) ==
    IF r \in table.short
    THEN [p EXCEPT !.held = Torn(p.held, r), !.answer = "Throws"]
    ELSE [number |-> r, eof |-> FALSE, bof |-> FALSE, held |-> Bytes(r), answer |-> "Ok"]

\* Mutant: the record left behind is not blanked.
MovePastEndUnblanked(p) ==
    [p EXCEPT !.number = Count + 1, !.eof = TRUE, !.bof = p.bof \/ Count = 0, !.answer = "Ok"]

MovePastEnd(p) ==
    [p EXCEPT !.number = Count + 1, !.eof = TRUE, !.bof = p.bof \/ Count = 0, !.held = Blank,
              !.answer = "Ok"]

MovedBeforeStart(p, eofBefore) ==
    IF p.answer = "Throws" THEN p ELSE [p EXCEPT !.bof = TRUE, !.eof = eofBefore]

\* Mutant: nowhere is record zero.
NoRecordZero(p) == [p EXCEPT !.held = Blank, !.number = 0, !.answer = "NoRecord"]

NoRecordFound(p) == [p EXCEPT !.held = Blank, !.number = -1, !.answer = "NoRecord"]

\* An indexed move to record r, or to none.
Reached(p, r) ==
    IF r = 0
    THEN Answering(MovedBeforeStart(MovePastEnd(p), TRUE), "NoRecord")
    ELSE Answering(Fetch(p, r), "Ok")

\* The position and the cursors of the tags after a call.
Becomes(p, ks) == at' = p /\ parked' = ks /\ UNCHANGED <<table, selected>>

Refuses(ks) == Becomes([at EXCEPT !.answer = "Throws"], ks)

\* The cursors with that of tag g replaced.
With(g, k) == [parked EXCEPT ![g] = k]

\* The cursors after ForgetSearch on the selected tag, if there is one.
Unsought == IF selected = NoTag THEN parked ELSE With(selected, ForgetSearch(parked[selected]))

-----------------------------------------------------------------------------
DoGo(r) ==
    CASE r < 1 -> Refuses(Unsought)
      [] r > Count -> Becomes(NoRecordFound(at), Unsought)
      [] OTHER -> Becomes(Answering(Fetch(at, r), "Ok"), Unsought)

\* To one end of record order: record r, or past the end of an empty table.
ToEnd(r) == Becomes(IF Count < 1 THEN Answering(MovePastEnd(at), "NoRecord")
                                 ELSE Answering(Fetch(at, r), "Ok"), Unsought)

DoTop ==
    IF selected = NoTag THEN ToEnd(1)
    ELSE LET c == FirstIn(Tree(selected), Count)
         IN  Becomes(Reached(at, Named(Tree(selected), c)),
                     With(selected, [ForgetSearch(parked[selected]) EXCEPT !.cur = c]))

DoBottom ==
    IF selected = NoTag THEN ToEnd(Count)
    ELSE LET c == LastIn(Tree(selected), Count)
         IN  Becomes(Reached(at, Named(Tree(selected), c)),
                     With(selected, [ForgetSearch(parked[selected]) EXCEPT !.cur = c]))

\* A skip in record order from position p, whose beginning flag is already cleared.
SkipRecords(p, n) ==
    LET target == p.number + n
    IN  CASE target \in 1..Count -> Answering(Fetch(p, target), "Moved")
          [] target > Count -> Answering(MovePastEnd(p), IF n < 0 THEN "Bof" ELSE "Eof")
          [] OTHER -> IF Count < 1 THEN Answering(MovePastEnd(p), IF n < 0 THEN "Bof" ELSE "Eof")
                      ELSE Answering(MovedBeforeStart(Fetch(p, 1), p.eof), "Bof")

\* The position after a skip in tag order that took the tag to s.
SkipTo(t, p, s) ==
    CASE s.outcome = "Moved"   -> Answering(Fetch(p, Named(t, s.cur)), "Moved")
      [] s.outcome = "Stopped" -> Answering(MovedBeforeStart(Fetch(p, Named(t, s.cur)), p.eof), "Bof")
      [] s.outcome = "AtEnd"   -> Answering(MovePastEnd(p), "Eof")
      [] s.outcome = "Nowhere" -> Answering(MovedBeforeStart(MovePastEnd(p), TRUE), "Eof")

\* A position and the tag's cursor, where a skip leaves them.
Gone(p, k) == [at |-> p, cursor |-> k]

SkipWith(t, p, k, s) == Gone(SkipTo(t, p, s), [k EXCEPT !.cur = s.cur])

\* The skip from a cursor brought to the record, or as near to it as the tag goes.
SkipSynchronized(t, p, k, n) ==
    IF OnKey(t, k.cur)
    THEN SkipWith(t, p, k, Step(t, k.cur, Adjusted(t, k, n), Count))
    ELSE Gone(Answering(MovePastEnd(p), IF n < 0 THEN "Bof" ELSE "Eof"), k)

(* A skip in the order of tag g from a position that is not past the end:  *)
(* the tag is brought to the record first.                                 *)
SkipFrom(g, p, k, n) ==
    IF n = 0 THEN Gone(Answering([p EXCEPT !.answer = "Ok"], "Moved"), k)
    ELSE SkipSynchronized(Tree(g), p, Synchronize(Tree(g), k, p.number, p.held.keys[g]), n)

(* From past the end a skip back comes in through the tag's last record,   *)
(* which counts as one of the steps.                                       *)
SkipFromBack(g, back, k, n) ==
    IF back.answer = "Ok" THEN SkipFrom(g, back, k, n + 1) ELSE Gone(Answering(back, "Bof"), k)

SkipInTagOrder(g, p, k, n) ==
    LET last == LastIn(Tree(g), Count)
    IN  CASE ~p.eof -> SkipFrom(g, p, k, n)
          [] p.eof /\ n >= 0 -> Gone(Answering(MovePastEnd(p), "Eof"), k)
          [] OTHER -> SkipFromBack(g, Reached(p, Named(Tree(g), last)),
                                   [ForgetSearch(k) EXCEPT !.cur = last], n)

SkippedTo(r) == Becomes(r.at, With(selected, r.cursor))

DoSkip(n) ==
    LET p == [at EXCEPT !.bof = FALSE, !.answer = "Ok"]
    IN  CASE at.number < 1 -> Refuses(parked)
          [] at.number >= 1 /\ selected = NoTag -> Becomes(SkipRecords(p, n), parked)
          [] OTHER -> SkippedTo(SkipInTagOrder(selected, p, parked[selected], n))

\* The selection; a tag of another table is refused, after the search is forgotten.
DoSelectTag(g) ==
    /\ selected' = g
    /\ at' = [at EXCEPT !.answer = "Nothing"]
    /\ parked' = Unsought
    /\ UNCHANGED table

DoSelectForeignTag == Refuses(Unsought)

-----------------------------------------------------------------------------
\* The calls that name the tag they move in, whatever is selected.
IndexedTo(g, c) == Becomes(Reached(at, Named(Tree(g), c)), With(g, [parked[g] EXCEPT !.cur = c]))

DoGoFirstIndexed(g) == IndexedTo(g, FirstIn(Tree(g), Count))

DoGoLastIndexed(g) == IndexedTo(g, LastIn(Tree(g), Count))

\* The step with the tag brought to the record, k, and then the tag moved, s.
StepTo(g, k, s) ==
    Becomes(Reached(at, IF s.outcome = "Moved" THEN Named(Tree(g), s.cur) ELSE 0),
            With(g, [k EXCEPT !.cur = s.cur]))

StepSynchronized(g, k, n) ==
    IF OnKey(Tree(g), k.cur)
    THEN StepTo(g, k, Step(Tree(g), k.cur, Adjusted(Tree(g), k, n), Count))
    ELSE Becomes(Reached(at, 0), With(g, k))

\* GoNextIndexed with n = 1, GoPreviousIndexed with n = -1.
DoStepIndexed(g, n) ==
    CASE at.number < 1 -> Refuses(parked)
      [] at.number >= 1 /\ at.eof ->
            IF n < 0 THEN DoGoLastIndexed(g) ELSE Becomes(Reached(at, 0), parked)
      [] OTHER -> StepSynchronized(g, Synchronize(Tree(g), parked[g], at.number, at.held.keys[g]), n)

-----------------------------------------------------------------------------
\* A match or no record at all.
GoesIfFound(r, s) ==
    Becomes(IF r.outcome = "Found" THEN Reached(at, Named(Tree(selected), r.cur)) ELSE NoRecordFound(at),
            With(selected, [parked[selected] EXCEPT !.cur = r.cur, !.search = s]))

\* Seek and SeekPrefix.
DoSeek(s) ==
    LET t == Tree(selected)
    IN  IF selected = NoTag THEN Refuses(parked)
        ELSE GoesIfFound(Landed(t, Seek(t, parked[selected].cur, s), TRUE, Count), s)

\* A match or its neighbour.
GoesNear(r, s) ==
    Becomes(IF r.outcome \in {"Eof", "Bof"}
            THEN Answering(MovePastEnd(at), r.outcome)
            ELSE Answering(Fetch(at, Named(Tree(selected), r.cur)), r.outcome),
            With(selected, [parked[selected] EXCEPT !.cur = r.cur, !.search = s]))

\* SeekAtOrAfter and SeekAtOrBefore.
DoPosition(s, forwards) ==
    LET t == Tree(selected)
    IN  IF selected = NoTag THEN Refuses(parked)
        ELSE GoesNear(Landed(t, IF forwards THEN Seek(t, parked[selected].cur, s)
                                            ELSE SeekAtOrBefore(t, s), forwards, Count), s)

\* SeekNext and SeekPrevious.
DoContinue(forwards) ==
    LET t == Tree(selected)
        k == parked[selected]
    IN  IF selected = NoTag \/ k.search = NoSearch THEN Refuses(parked)
        ELSE GoesIfFound(Landed(t, SeekAdjacentMatch(t, k.cur, k.search, IF forwards THEN 1 ELSE -1),
                                forwards, Count), k.search)

-----------------------------------------------------------------------------
Forgotten == [g \in Tags |-> ForgetBlocks(parked[g])]

DoDropCachedBlocks == Becomes([at EXCEPT !.answer = "Nothing"], Forgotten)

DoRefresh ==
    Becomes(IF at.number \in 1..Count /\ ~at.eof /\ ~at.bof
            THEN Answering(Fetch(at, at.number), "Nothing") ELSE [at EXCEPT !.answer = "Nothing"],
            Forgotten)

Calling(op, g, n, s) == call' = Call(op, g, n, s)

Next ==
    \/ \E r \in 0..(Count + 1) : DoGo(r) /\ Calling("Go", NoTag, r, NoSearch)
    \/ DoTop /\ Calling("Top", selected, 0, NoSearch)
    \/ DoBottom /\ Calling("Bottom", selected, 0, NoSearch)
    \/ \E n \in Counts : DoSkip(n) /\ Calling("Skip", selected, n, NoSearch)
    \/ \E g \in Tags \cup {NoTag} : DoSelectTag(g) /\ Calling("SelectTag", g, 0, NoSearch)
    \/ DoSelectForeignTag /\ Calling("SelectTag", NoTag, 0, NoSearch)
    \/ \E g \in Tags : \/ DoGoFirstIndexed(g) /\ Calling("GoFirstIndexed", g, 0, NoSearch)
                       \/ DoGoLastIndexed(g) /\ Calling("GoLastIndexed", g, 0, NoSearch)
                       \/ DoStepIndexed(g, 1) /\ Calling("StepIndexed", g, 1, NoSearch)
                       \/ DoStepIndexed(g, -1) /\ Calling("StepIndexed", g, -1, NoSearch)
    \/ \E s \in Searches : \/ DoSeek(s) /\ Calling("Seek", selected, 0, s)
                           \/ DoPosition(s, TRUE) /\ Calling("Position", selected, 1, s)
                           \/ DoPosition(s, FALSE) /\ Calling("Position", selected, -1, s)
    \/ DoContinue(TRUE) /\ Calling("Continue", selected, 1, NoSearch)
    \/ DoContinue(FALSE) /\ Calling("Continue", selected, -1, NoSearch)
    \/ DoDropCachedBlocks /\ Calling("DropCachedBlocks", NoTag, 0, NoSearch)
    \/ DoRefresh /\ Calling("Refresh", NoTag, 0, NoSearch)

Spec == Init /\ [][Next]_vars

-----------------------------------------------------------------------------
\* The buffer is not torn between two records, and the call does not throw.
Untorn == at.held.of # -1

Answered == at'.answer # "Throws"

IsOn(r) == at.number = r /\ r \in 1..Count /\ ~at.eof /\ Untorn

\* A tag's entries, and those of records the table has.
Entries(g) == IF g = NoTag THEN <<>> ELSE Order(Tree(g))

Present(g) == SelectSeq(Entries(g), LAMBDA e : e.rec \in 1..Count)

NoneMissing(g) == Present(g) = Entries(g)

PlaceOf(g, r) == {i \in DOMAIN Entries(g) : Entries(g)[i].rec = r}

InStep(g) == OnKey(Tree(g), parked[g].cur) /\ Current(Tree(g), parked[g].cur).rec = at.number

\* The last synchronize stopped near some record, on the one the table is on.
StillNear(g) == InStep(g) /\ parked[g].near

(* The record buffer holds the record the position names and the blank     *)
(* record wherever it names none, whatever calls failed to find anything   *)
(* on the way (Table.cs:1445-1458, 806-812); a short read is the exception.*)
BufferIsThePosition == Untorn => at.held.of = IF at.number \in 1..Count THEN at.number ELSE 0

(* The beginning flag, while the end flag is clear, is only ever seen on   *)
(* the first record of record order or of some tag (RecordPosition.cs:     *)
(* 37-42), however the position was reached and whatever is selected since.*)
BofIsAFirst ==
    at.bof /\ ~at.eof /\ at.number \in 1..Count =>
        \/ at.number = 1
        \/ \E g \in Tags : Present(g) # <<>> /\ at.number = Head(Present(g)).rec

(* Where a walk of n entries from the entry at i ends: over entries of     *)
(* missing records the way it was headed; 0 off the front, -1 off the end  *)
(* or where every entry left names a missing record.                       *)
Reach(g, i, n) ==
    LET e == Entries(g)
        on == {j \in DOMAIN e : e[j].rec \in 1..Count /\ IF n > 0 THEN j >= i + n ELSE j <= i + n}
    IN  CASE i + n < 1 -> 0
          [] i + n >= 1 /\ on = {} -> -1
          [] OTHER -> e[IF n > 0 THEN Min(on) ELSE Max(on)].rec

(* The table never stands on a record that the file was too short for: the *)
(* read comes before the position moves, on every path that ends in one    *)
(* (Table.cs:1445-1449).                                                   *)
StandsOnReadRecords == at.number \notin table.short

(* A skip from a record the tag lists goes to the record that many entries *)
(* on in the tag's order, or to the end it ran off: the tag is brought to  *)
(* the record however the record was reached (Table.cs:374-378).  A cursor *)
(* that the last synchronize left near this very record is the exception   *)
(* LeavesItsRecord is about.                                               *)
SkipFollowsTheTag ==
    [][ call'.op = "Skip" /\ call'.n # 0 /\ Answered /\ IsOn(at.number) =>
          \A i \in PlaceOf(selected, at.number) :
            LET to == Reach(selected, i, call'.n)
            IN  StillNear(selected) \/
                CASE to > 0  -> at'.number = to /\ at'.answer = "Moved" /\ ~at'.bof
                  [] to = -1 -> at'.number = Count + 1 /\ at'.answer = "Eof"
                  [] OTHER   -> /\ at'.number = Head(Present(selected)).rec
                                /\ at'.answer = "Bof" /\ at'.bof /\ ~at'.eof ]_vars

(* The calls that name their tag visit the same records as a skip with the *)
(* tag selected (Table.cs:463-466, 596-598), and answer no record past the *)
(* end where it would stop.                                                *)
IndexedStepsAgree ==
    [][ call'.op = "StepIndexed" /\ Answered /\ IsOn(at.number) =>
          \A i \in PlaceOf(call'.tag, at.number) :
            LET to == Reach(call'.tag, i, call'.n)
            IN  StillNear(call'.tag) \/
                IF to > 0
                THEN at'.number = to /\ at'.answer = "Ok"
                ELSE at'.number = Count + 1 /\ at'.answer = "NoRecord" /\ at'.eof /\ at'.bof ]_vars

(* From a record the tag leaves out, a step towards greater keys stops on  *)
(* the first entry that is not below the record's key (Table.cs:821-825).  *)
StepsOntoTheNearest ==
    [][ (/\ call'.op = "StepIndexed" /\ Answered
         /\ IsOn(at.number) /\ PlaceOf(call'.tag, at.number) = {} /\ NoneMissing(call'.tag)
         /\ Tree(call'.tag).descending = (call'.n < 0)) =>
             LET up == SelectSeq(Entries(call'.tag),
                                 LAMBDA e : e.key >= table.keys[call'.tag][at.number])
             IN  IF up = <<>> THEN at'.answer = "NoRecord"
                 ELSE at'.number = up[IF call'.n > 0 THEN 1 ELSE Len(up)].rec ]_vars

Matches(e, s) == e.key \in s.lo..s.hi

\* The entries of records the table has that a seek forwards, or back, may stop on.
Candidates(g, s, forwards) ==
    SelectSeq(Present(g), LAMBDA e : IF forwards = Tree(g).descending THEN e.key <= s.hi
                                                                      ELSE e.key >= s.lo)

(* A seek stops on the record nearest to what was sought that the table    *)
(* has, and misses no match: an exact one is answered Ok or Found, and     *)
(* nothing is found when no entry matches (Table.cs:610-640, 676-700).     *)
SeeksMissNothing ==
    [][ call'.op \in {"Seek", "Position"} /\ selected # NoTag /\ Answered =>
          LET s    == call'.sought
              c    == Candidates(selected, s, call'.n >= 0)
              best == c[IF call'.n >= 0 THEN 1 ELSE Len(c)]
              hit  == c # <<>> /\ Matches(best, s)
              none == \A e \in Range(Entries(selected)) : ~Matches(e, s)
          IN  IF call'.op = "Seek"
              THEN /\ hit => at'.number = best.rec /\ at'.answer = "Ok"
                   /\ none => at'.number = -1 /\ at'.answer = "NoRecord"
              ELSE /\ at'.number = IF c = <<>> THEN Count + 1 ELSE best.rec
                   /\ hit => at'.answer = "Found"
                   /\ none => at'.answer # "Found" ]_vars

(* SeekNext and SeekPrevious from a match visit the matches one by one in  *)
(* the tag's order and stop at the end of the run (Table.cs:724-743).      *)
SeekNextWalksTheRun ==
    [][ call'.op = "Continue" /\ Answered /\ selected # NoTag /\ parked[selected].search # NoSearch
        /\ InStep(selected) /\ NoneMissing(selected) =>
          \A i \in PlaceOf(selected, at.number) :
            LET e == Entries(selected)
                s == parked[selected].search
                more == {j \in DOMAIN e : j = i + call'.n /\ Matches(e[j], s)}
            IN  Matches(e[i], s) =>
                  IF more = {}
                  THEN at'.number = -1 /\ at'.answer = "NoRecord"
                  ELSE at'.number = e[i + call'.n].rec /\ at'.answer = "Ok" ]_vars

(* The position is true after every call: the flags, the buffer and the    *)
(* number say the same, and the record is one that was read.               *)
PositionIsTrue == TypeOK /\ BufferIsThePosition /\ BofIsAFirst /\ StandsOnReadRecords

(* Every step, by the selected tag or a named one, goes by the tag's order.*)
MovesFollowTheTag == SkipFollowsTheTag /\ IndexedStepsAgree /\ StepsOntoTheNearest

(* Every seek, and every one that goes on from it, finds the tag's matches.*)
SeeksFindTheirs == SeeksMissNothing /\ SeekNextWalksTheRun

(* A statement of the code's doc that it does not keep after a landing     *)
(* near a record (see the README): "a caller may move by record number and carry on stepping in the tag"   *)
(* (Table.cs:377-378): a skip forwards leaves the record it started on.    *)
LeavesItsRecord ==
    [][ call'.op = "Skip" /\ call'.n = 1 /\ selected # NoTag /\ IsOn(at.number) =>
          at'.number # at.number ]_vars
=============================================================================
