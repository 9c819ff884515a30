----------------------------- MODULE RelationSet -----------------------------
(***************************************************************************)
(* A program that walks the composite data file of a relation set, and the *)
(* rows that file should have.                                             *)
(***************************************************************************)
EXTENDS Relate

CONSTANTS Relations,    \* the relations that are set up
          Wanders       \* the program makes any call at any place

VARIABLES c,            \* the relation, as it was set up
          rows,         \* the rows of its composite data file
          s,            \* the relation, as it stands
          rc            \* what the program's last call but a count got

vars == <<c, rows, s, rc>>

----------------------------------------------------------------------------
(* The composite data file, from the relation alone. *)

InTagOrder(f) == IF f.desc THEN Reverse(f.ents) ELSE f.ents
Recs(es) == [i \in DOMAIN es |-> es[i].rec]

TopRecords(f) == IF f.sel THEN Recs(InTagOrder(f)) ELSE [i \in 1..f.n |-> i]

(* The records of slave n for the value v: all, the first, or the nearest. *)
Found(k, n, v) ==
  LET es   == InTagOrder(k.f[n])
      same == Recs(SelectSeq(es, LAMBDA e : e.key = v))
      near == Recs(SelectSeq(es, LAMBDA e : IF k.f[n].desc THEN e.key <= v ELSE e.key >= v))
      First1(q) == IF q = << >> THEN q ELSE <<Head(q)>>
  IN  CASE ~k.tag[n]          -> IF v \in 1..k.f[n].n THEN <<v>> ELSE << >>
        [] k.kind[n] = "scan" -> same
        [] k.kind[n] = "exact" -> First1(same)
        [] OTHER              -> First1(near)

Blank(k, n) == [m \in Below(k, n) |-> 0]

(* The rows of the tree under n, whose record is r.  Several scan slaves of
   one master follow each other, each with the others blank. *)
RECURSIVE Under(_, _, _)
Under(k, n, r) ==
  LET Slave(m) == LET q == Found(k, m, k.link[m][r])
                  IN  IF q # << >> THEN FlattenSeq([i \in DOMAIN q |-> Under(k, m, q[i])])
                      ELSE IF k.kind[m] = "approx" \/ k.act[m] = "blank" THEN Under(k, m, 0)
                      ELSE << >>
      Has(m)   == Found(k, m, k.link[m][r]) # << >>
      scans    == ScanList(k, n)
      some     == {m \in Range(scans) : Has(m)}
      Alone(m) == FoldLeft(LAMBDA acc, j : IF j = m \/ k.kind[j] # "scan" THEN acc
                                           ELSE [i \in DOMAIN acc |-> acc[i] @@ Blank(k, j)],
                           Slave(m), k.slaves[n])
      first    == IF some = {} THEN Head(scans) ELSE CHOOSE m \in some : TRUE
      Times(p, q) == FlattenSeq([i \in DOMAIN p |-> [j \in DOMAIN q |-> p[i] @@ q[j]]])
      union    == IF some = {} THEN Alone(Head(scans))
                  ELSE FlattenSeq([i \in DOMAIN SelectSeq(scans, Has) |-> Alone(SelectSeq(scans, Has)[i])])
      others   == FoldLeft(LAMBDA acc, m : IF k.kind[m] = "scan" THEN acc ELSE Times(acc, Slave(m)),
                           <<(n :> r)>>, k.slaves[n])
  IN  IF scans = << >> THEN others ELSE Times(others, union)

Satisfies(k, row) == \A n \in Range(k.query) : row[n] \in k.ok[n]

Composite(k) ==
  LET recs == TopRecords(k.f[Top])
      all  == SelectSeq(FlattenSeq([i \in DOMAIN recs |-> Under(k, Top, recs[i])]),
                        LAMBDA row : Satisfies(k, row))
  IN  IF k.sort = 0 THEN all ELSE InOrder(k, all)

----------------------------------------------------------------------------

Init ==
  /\ c \in Relations
  /\ rows = Composite(c)
  /\ s \in {NewRelation(c), SkipEnable(NewRelation(c))}
  /\ rc = "none"

Did(x) == rc' = x.rc /\ s' = x.s /\ UNCHANGED <<c, rows>>

Walking == rc \in {"ok", "eof", "bof"}
(* A program that does not wander keeps clear of the calls that are known to
   go wrong, each at the place given in the README. *)

(* Off an end of a sort, or of a tag's order, a further step is not relied on. *)
MayStep == rc = "ok" \/ (c.sort = 0 /\ ~c.f[Top].sel) \/ (c.sort # 0 /\ rc = "eof")

(* With several scan slaves of one master it goes forwards only, to the end. *)
OneEach  == \A n \in Nodes(c) : Len(ScanList(c, n)) < 2
MayStart == rc # "ok" \/ OneEach

(* It counts before the walk, or when the slaves' places are put back. *)
MayCount == ~s.init \/ /\ c.sort = 0 \/ s.back
                       /\ OneEach
                       /\ \A n \in Nodes(c) \ {Top} : ScanList(c, n) = << >>

DoTop    == (Wanders \/ MayStart) /\ \E x \in {TopOf(c, s)} : Did(x)
DoBottom == (Wanders \/ OneEach) /\ \E x \in {Bottom(c, s)} : Did(x)
DoSkip(by) ==
  /\ Walking
  /\ Wanders \/ MayStep
  /\ by = -1 => s.back /\ (Wanders \/ OneEach)
  /\ \E x \in {Skip(c, s, by)} : Did(x)

DoCount ==
  /\ Wanders \/ MayCount
  /\ \E garbage \in (IF s.init THEN {FALSE} ELSE BOOLEAN) : s' = Count(c, s, garbage).s
  /\ rc' = CASE s.init /\ ~s'.init -> "terminate"
              [] rc \in {"read", "unread"} -> "counted"
              [] OTHER               -> rc
  /\ UNCHANGED <<c, rows>>

(* The program goes to a record of the top file itself and asks for its slaves. *)
DoAllOf(r) ==
  LET go == Go(c.f[Top], s.d[Top], r)
  IN  \E x \in {DoAll(c, SetD(s, Top, go.d))} :
         Did([x EXCEPT !.rc = IF @ = "ok" THEN "read" ELSE "unread"])
MayRead == \A n \in Nodes(c) : c.kind[n] = "scan" /\ c.act[n] = "skip" => s.level \notin Below(c, n)
(* Bounded to relations without a query or a sort, which it does not look at. *)
DoOther == c.query = << >> /\ c.sort = 0 /\ (Wanders \/ MayRead) /\ \E r \in 1..c.f[Top].n : DoAllOf(r)

Next == DoTop \/ DoBottom \/ (\E by \in {1, -1} : DoSkip(by)) \/ DoCount \/ DoOther

Spec == Init /\ [][Next]_vars

----------------------------------------------------------------------------

Now(st) == [n \in Nodes(c) |-> Shown(st, n)]
(* The place of the record the program has; no place when no row is like it. *)
PlaceOf == CASE rc \in {"none", "terminate"} -> -1
             [] rc \in {"read", "unread", "counted"}   -> -3
             [] rc = "eof"                  -> Len(rows) + 1
             [] rc = "bof"                  -> 0
             [] Now(s) \notin Range(rows)   -> -2
             [] OTHER -> SelectInSeq(rows, LAMBDA row : row = Now(s))

A == INSTANCE CompositeFile WITH len <- Len(rows), place <- PlaceOf,
                                 strict <- "terminate" \in Range(c.act)
WalksTheComposite == A!Spec

(* relate4doAll gives the first composite record of the record it starts
   from, or none when that record has none. *)
DoAllIsTheFirst ==
  rc \in {"read", "unread"} =>
    LET q == Under(c, Top, s.d[Top].rec)
    IN  /\ rc = "read" => q # << >> /\ (OneEach => Now(s) = Head(q))
        /\ rc = "unread" => q = << >> \/ "terminate" \in Range(c.act)

(* relate4count is the number of composite records, wherever it is asked for
   and whatever the walk, the flags, the sort and the reads it leaves out. *)
CountIsTheRows == s.count # -1 => s.count = Len(rows)

=============================================================================
