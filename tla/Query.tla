-------------------------------- MODULE Query --------------------------------
(***************************************************************************)
(* A query over a table (Query.cs): a filter, the records its plan found,  *)
(* and two flags for running off an end.  It has no position of its own:   *)
(* it moves the table's cursor, which its caller moves too.                *)
(*                                                                         *)
(* Prepare (167-184) runs in the first of the query's calls.  Nothing it   *)
(* reads changes here - another process's writes are left out - so its     *)
(* outcome is worked out once, in Init.                                    *)
(***************************************************************************)
EXTENDS QueryPlan

CONSTANTS Databases,   \* records of rows and tags
          Filters,     \* filters over their columns
          MaxSkip      \* records skipped in one call

VARIABLES db,        \* the database, which stays as it is
          filter,    \* the filter
          prepared,  \* the candidates, whether any term is left, and those it admits
          selected,  \* the tag the table is ordered by, or NoTag
          at,        \* the table's record number: -1 at first, past the last at its end
          eof, bof,  \* the query's flags
          call,      \* the last call and its count
          answer     \* what it answered
vars == <<db, filter, prepared, selected, at, eof, bof, call, answer>>

NoTag == 0

Count == Len(db.rows)

PastEnd == Count + 1

Prepared(d, f) ==
    LET plan == Decompose(f, d.tags)
        terms == ResidualTerms(f, plan)
        candidates == Candidates(plan.root, d.tags, Len(d.rows))
    IN  [candidates |-> candidates,
         hasWork |-> terms # {},
         admitted |-> {r \in candidates : Admits(terms, d.rows[r])}]

(* The records in the selected tag's order; a tag's entries for records    *)
(* that the table does not have are passed over.                           *)
Order ==
    LET tag == db.tags[selected]
        present == SelectSeq([i \in DOMAIN tag.entries |-> tag.entries[i].rec], LAMBDA r : r \in 1..Count)
    IN  IF tag.descending THEN Reverse(present) ELSE present

ByNumber(records) == SelectSeq([r \in 1..Count |-> r], LAMBDA r : r \in records)

PlaceOf(r) == CHOOSE i \in DOMAIN Order : Order[i] = r

Init == /\ db \in Databases
        /\ filter \in Filters
        /\ prepared = Prepared(db, filter)
        /\ selected = NoTag
        /\ at = -1
        /\ eof = FALSE /\ bof = FALSE
        /\ call = <<"Open", 0>> /\ answer = <<"None", 0>>

-----------------------------------------------------------------------------
(* One step, from a place of the table: where it is left, and whether on a *)
(* match.                                                                  *)

\* Going through records: to the first admitted one, or else to rest.
Through(records, rest) ==
    LET found == {i \in DOMAIN records : records[i] \in prepared.admitted}
    IN  IF found = {} THEN [found |-> FALSE, at |-> rest] ELSE [found |-> TRUE, at |-> records[Min(found)]]

\* Mutant: the table rests where the step was to begin, though no record is read.
StepByRecordResting(place, from, forwards) ==
    LET ahead == {r \in prepared.candidates : IF forwards THEN r > from ELSE r < from}
    IN  Through(IF forwards THEN ByNumber(ahead) ELSE Reverse(ByNumber(ahead)), from)

\* Candidates only are read, and the last of those read is where the table stays.
StepByRecord(place, from, forwards) ==
    LET ahead == {r \in prepared.candidates : IF forwards THEN r > from ELSE r < from}
        records == IF forwards THEN ByNumber(ahead) ELSE Reverse(ByNumber(ahead))
    IN  Through(records, IF records = <<>> THEN place ELSE Last(records))

\* The tag's records from its i-th on, and past the table's end after them.
Walk(i, forwards) ==
    Through(IF forwards THEN SubSeq(Order, i, Len(Order)) ELSE Reverse(SubSeq(Order, 1, i)), PastEnd)

FromTheEnd(forwards) == Walk(IF forwards THEN 1 ELSE Len(Order), forwards)

\* Mutant: the entry the table is on is taken for its next.
StepByTagStaying(place, forwards) ==
    IF place = PastEnd THEN (IF forwards THEN Through(<<>>, PastEnd) ELSE FromTheEnd(FALSE))
                       ELSE Walk(PlaceOf(place), forwards)

\* From past the table's end nothing is ahead; back is by the tag's last record.
StepByTag(place, forwards) ==
    CASE place = PastEnd /\ forwards  -> Through(<<>>, PastEnd)
      [] place = PastEnd /\ ~forwards -> FromTheEnd(FALSE)
      [] place # PastEnd -> Walk(PlaceOf(place) + (IF forwards THEN 1 ELSE -1), forwards)

-----------------------------------------------------------------------------
(* Where the query is: the table's place, its own flags, and whether its   *)
(* last step found a match.                                                *)
Here == [at |-> at, eof |-> eof, bof |-> bof, found |-> TRUE]

Settle(s, flags, forwards) ==
    [at |-> s.at, found |-> s.found,
     eof |-> flags.eof \/ (~s.found /\ forwards),
     bof |-> flags.bof \/ (~s.found /\ ~forwards)]

Becomes(q, result) ==
    /\ at' = q.at /\ eof' = q.eof /\ bof' = q.bof
    /\ answer' = <<result, 0>>
    /\ UNCHANGED <<db, filter, prepared, selected>>

Stays(result) == Becomes(Here, result)

Result(found) == IF found THEN "Ok" ELSE "NoRecord"

\* Mutant: Bottom begins at the last record and not past it.
ExtremeShort(forwards) ==
    Settle(IF selected # NoTag THEN FromTheEnd(forwards)
           ELSE StepByRecord(at, IF forwards THEN 0 ELSE Count, forwards),
           [eof |-> FALSE, bof |-> FALSE], forwards)

\* Top, or Bottom.  Both flags are cleared before the step.
Extreme(forwards) ==
    Settle(IF selected # NoTag THEN FromTheEnd(forwards)
           ELSE StepByRecord(at, IF forwards THEN 0 ELSE PastEnd, forwards),
           [eof |-> FALSE, bof |-> FALSE], forwards)

DoTop == Becomes(Extreme(TRUE), Result(Extreme(TRUE).found))

DoBottom == Becomes(Extreme(FALSE), Result(Extreme(FALSE).found))

Stuck(q, forwards) == IF forwards THEN q.eof ELSE q.bof

From_(q, forwards) == CASE ~q.bof /\ ~q.eof -> q.at
                        [] q.bof \/ q.eof   -> IF forwards THEN 0 ELSE PastEnd

(* Nothing from the end the query already ran off; from the other end, all *)
(* the way in; else from where the table is.  Neither flag is cleared.     *)
Move(q, forwards) ==
    IF Stuck(q, forwards) THEN [q EXCEPT !.found = FALSE]
    ELSE Settle(IF selected # NoTag THEN StepByTag(q.at, forwards)
                ELSE StepByRecord(q.at, From_(q, forwards), forwards), q, forwards)

\* The table refuses to step in a tag from nowhere.
Refused(forwards) == ~Stuck(Here, forwards) /\ selected # NoTag /\ at = -1

DoMove(forwards) ==
    IF Refused(forwards) THEN Stays("Throws")
    ELSE Becomes(Move(Here, forwards), Result(Move(Here, forwards).found))

Distance(n) == IF n < 0 THEN -n ELSE n

\* Steps until the count is done or one of them finds nothing.
Skipped(n) ==
    FoldLeft(LAMBDA q, i : IF q.found THEN Move(q, n > 0) ELSE q, Here, [i \in 1..Distance(n) |-> i])

Ended(n) == IF n > 0 THEN "Eof" ELSE "Bof"

DoSkip(n) ==
    IF n # 0 /\ Refused(n > 0) THEN Stays("Throws")
    ELSE Becomes(Skipped(n), IF Skipped(n).found THEN "Moved" ELSE Ended(n))

Counts(n, place) ==
    /\ answer' = <<"Count", n>> /\ at' = place
    /\ UNCHANGED <<db, filter, prepared, selected, eof, bof>>

\* Mutant: the candidates are counted though terms are left to test.
CountCandidates == Counts(Cardinality(prepared.candidates), at)

(* The candidates; or where terms are left those they admit, each read in  *)
(* turn, which leaves the table on the last candidate.                     *)
DoCount ==
    IF prepared.hasWork
    THEN Counts(Cardinality(prepared.admitted), IF prepared.candidates = {} THEN at ELSE Max(prepared.candidates))
    ELSE Counts(Cardinality(prepared.candidates), at)

-----------------------------------------------------------------------------
(* What the table's caller does between the query's calls: go to a record, *)
(* or past the end, and select a tag that leaves no record out.            *)
DoGo(r) == Becomes([Here EXCEPT !.at = r], "None")

DoSelectTag(g) ==
    /\ g # NoTag => ~db.tags[g].filtered /\ ~db.tags[g].unique
    /\ selected' = g /\ answer' = <<"None", 0>>
    /\ UNCHANGED <<db, filter, prepared, at, eof, bof>>

Calling(name, n) == call' = <<name, n>>

Next ==
    \/ DoTop /\ Calling("Top", 0)
    \/ DoBottom /\ Calling("Bottom", 0)
    \/ DoMove(TRUE) /\ Calling("Next", 1)
    \/ DoMove(FALSE) /\ Calling("Previous", -1)
    \/ \E n \in -MaxSkip..MaxSkip : DoSkip(n) /\ Calling("Skip", n)
    \/ DoCount /\ Calling("Count", 0)
    \/ \E r \in 1..PastEnd : DoGo(r) /\ Calling("Go", r)
    \/ \E g \in {NoTag} \cup DOMAIN db.tags : DoSelectTag(g) /\ Calling("SelectTag", g)

Spec == Init /\ [][Next]_vars

-----------------------------------------------------------------------------
\* Reading every record and testing the whole filter on it.
Scan == {r \in 1..Count : IsTrue(filter, db.rows[r])}

InOrder(records) == IF selected = NoTag THEN ByNumber(records) ELSE SelectSeq(Order, LAMBDA r : r \in records)

\* The matches beyond the table's place, the nearest first.
Beyond(forwards) ==
    LET upTo == CASE at = -1     -> {}
                  [] at > Count  -> 1..Count
                  [] OTHER       -> IF selected = NoTag THEN 1..at
                                    ELSE {Order[i] : i \in 1..PlaceOf(at)}
    IN  IF forwards THEN InOrder(Scan \ upTo)
        ELSE Reverse(InOrder(Scan \cap (upTo \ {at})))

\* A move by n steps, of which matches lie ahead.
GoesBy(n, matches) ==
    IF Distance(n) <= Len(matches)
    THEN at' = matches[Distance(n)] /\ ~eof' /\ ~bof' /\ answer'[1] \in {"Ok", "Moved"}
    ELSE (IF n > 0 THEN eof' ELSE bof') /\ answer'[1] \in {"NoRecord", Ended(n)}

GoesToFirst(matches) == IF matches = <<>> THEN eof' ELSE at' = matches[1] /\ ~eof'

GoesToLast(matches) == IF matches = <<>> THEN bof' ELSE at' = Last(matches) /\ ~bof'

JustRanOff == answer[1] = "NoRecord"

TypeOK ==
    /\ prepared.candidates \subseteq 1..Count /\ prepared.admitted \subseteq prepared.candidates
    /\ prepared.hasWork \in BOOLEAN
    /\ selected \in {NoTag} \cup DOMAIN db.tags
    /\ at \in {-1} \cup 1..PastEnd
    /\ eof \in BOOLEAN /\ bof \in BOOLEAN

(* The records a prepared query will answer with - what its tags reached,  *)
(* less what the terms left over strike out - are those that reading every *)
(* record and testing it gives, whatever the terms, their order and the    *)
(* tags (QueryDecomposer, ConstraintSeeker, ResidualFilter).               *)
TagsGiveTheScan == prepared.admitted = Scan

(* Folding the leaves of a plan changes no record that it reaches          *)
(* (QueryDecomposer.Merged, ConstraintMerge).                              *)
MergeKeepsTheRecords ==
    call[1] = "Open" =>
    \A n \in DOMAIN Visit(filter, <<>>, db.tags) :
        LET node == Visit(filter, <<>>, db.tags)[n]
        IN  Reach(Merged(node), db.tags, Count) = Reach(node, db.tags, Count)

(* The plan is the scan, folded or not.                                    *)
PlanIsTheScan == TypeOK /\ TagsGiveTheScan /\ MergeKeepsTheRecords

(* Next, Previous and Skip go by the matches of the scan, in the table's   *)
(* order and from where the table is, whoever moved it there; when there   *)
(* are too few they report the end (Query.Move, StepByRecord, StepByTag).  *)
VisitsTheScan ==
    [][(call'[1] \in {"Next", "Previous", "Skip"} /\ call'[2] # 0 /\ ~eof /\ ~bof /\ answer'[1] # "Throws")
       => GoesBy(call'[2], Beyond(call'[2] > 0))]_vars

(* Top and Bottom go to the scan's first and last match whatever the       *)
(* flags were, and a step back from the end just run off to the last       *)
(* (Query.Top, Bottom, Move); a tag selected since then has its own end.   *)
EndsOfTheScan ==
    [][/\ call'[1] = "Top" => GoesToFirst(InOrder(Scan)) /\ ~bof'
       /\ call'[1] = "Bottom" => GoesToLast(InOrder(Scan)) /\ ~eof'
       /\ (call'[1] = "Previous" /\ eof /\ ~bof /\ JustRanOff /\ (selected = NoTag \/ at = PastEnd))
          => GoesToLast(InOrder(Scan))]_vars

(* Count is the number of the scan's matches, whether or not it reads a    *)
(* record for it, and leaves the query's flags (Query.Count).              *)
CountIsTheScan ==
    [][call'[1] = "Count" => answer' = <<"Count", Cardinality(Scan)>> /\ eof' = eof /\ bof' = bof]_vars

(* Every move of a query, and its count, are the scan's.                   *)
FollowsTheScan == VisitsTheScan /\ EndsOfTheScan /\ CountIsTheScan
=============================================================================
