---------------------------- MODULE BitmapFlags -----------------------------
(***************************************************************************)
(* The flags of a query (m4map.c, C4CONST.C, F4FLAG.C): each leaf of the   *)
(* settled tree walks its tag and flags records, and the flags of the      *)
(* branches are joined.  A tag is a sequence of [key, rec] in key order,   *)
(* on one block; it stands at 0..n, n being its end.                       *)
(***************************************************************************)
EXTENDS Bitmap, FiniteSets

NoRecord == -1       \* ULONG_MAX
Nowhere == 0         \* no seek made, or the tag is empty

RecAt(tag, at) ==
    CASE Len(tag) = 0 -> Nowhere
      [] at >= Len(tag) -> NoRecord
      [] OTHER -> tag[at + 1].rec

Recs(tag, lo, hi) == {tag[i + 1].rec : i \in lo..hi}
AtEnd(tag, at) == at >= Len(tag)

\* tfile4position, times twice the number of keys.
Position(tag, at) ==
    CASE at = 0 -> 0
      [] at = Len(tag) - 1 -> 2 * Len(tag)
      [] OTHER -> 2 * at + 1
Half(tag) == Len(tag)

\* tfile4seek: the first key not before the constant; or, descending, the last
\* key not after it, and the end where there is none.
NotBefore(tag, con) == Cardinality({i \in DOMAIN tag : Before(tag[i].key, con, Len(con))})
NotAfter(tag, con) ==
    LET n == Cardinality({i \in DOMAIN tag : ~Before(con, tag[i].key, Len(con))})
    IN  IF n = 0 THEN Len(tag) ELSE n - 1

\* bitmap4seek, the tag standing at the key: 0 the last key before the constant,
\* 1 the first not before it, 2 the last not after it, 3 the first after it.
SeekFrom(tag, at, location, check, doCheck) ==
    LET none(a) == [rec |-> NoRecord, at |-> a]
        some(a) == [rec |-> RecAt(tag, a), at |-> a]
    IN  CASE doCheck /\ ~AtEnd(tag, at) /\ RecAt(tag, at) = check -> none(at)
          [] OTHER ->
          CASE location = 0 -> IF at > 0 THEN some(at - 1) ELSE none(0)
            [] location = 1 -> IF AtEnd(tag, at) THEN none(at) ELSE some(at)
            [] location = 2 -> some(at)
            [] location = 3 ->
                 CASE AtEnd(tag, at) -> some(0)
                   [] ~AtEnd(tag, at) /\ at + 1 < Len(tag) -> some(at + 1)
                   [] OTHER -> none(Len(tag) - 1)

Seek(tag, con, location, check, doCheck) ==
    SeekFrom(tag, IF location > 1 THEN NotAfter(tag, con) ELSE NotBefore(tag, con),
             location, check, doCheck)

-----------------------------------------------------------------------------
(* bitmap4flagRange: the records from one constant to another, or those    *)
(* outside where they are fewer.  flip says how the records set so far     *)
(* count: 1 they match, -1 the others do, 0 none are set yet; -2 is that   *)
(* no key lies in the range.                                               *)

Nobody == -2
Flagged(set, flip) == [set |-> set, flip |-> flip]

\* From s, if it is bounded below, to e, if it is bounded above.
FlagBetween(tag, set, below, s, above, e, flip) ==
    LET n == Len(tag)
        hasStart == below /\ s.rec # Nowhere
        hasEnd == above /\ e.rec # Nowhere
        pos1 == Position(tag, s.at)
        pos2 == Position(tag, e.at)
        nobody == \/ below /\ (s.rec = NoRecord \/ AtEnd(tag, s.at))
                  \/ above /\ e.rec = NoRecord
    IN  CASE nobody -> Flagged(set, Nobody)
          [] ~nobody /\ hasStart /\ hasEnd ->
               CASE pos1 > pos2 -> Flagged(set, flip)
                 [] pos1 <= pos2 /\ flip = 0 /\ pos2 - pos1 > Half(tag) ->
                      Flagged(set \union Recs(tag, e.at + 1, n - 1) \union Recs(tag, 0, s.at - 1), -1)
                 [] pos1 <= pos2 /\ flip = -1 -> Flagged(set \ Recs(tag, s.at, e.at), -1)
                 [] OTHER -> Flagged(set \union Recs(tag, s.at, e.at), 1)
          [] ~nobody /\ hasStart /\ ~hasEnd ->
               CASE flip = 0 /\ pos1 < Half(tag) -> Flagged(set \union Recs(tag, 0, s.at - 1), -1)
                 [] flip = -1 -> Flagged(set \union Recs(tag, 0, s.at), -1)
                 [] OTHER -> Flagged(set \union Recs(tag, s.at, n - 1), 1)
          [] ~nobody /\ ~hasStart /\ hasEnd ->
               CASE flip = 0 /\ pos2 >= Half(tag) -> Flagged(set \union Recs(tag, e.at + 1, n - 1), -1)
                 [] flip = 1 -> Flagged(set \union Recs(tag, e.at, n - 1), -1)
                 [] OTHER -> Flagged(set \union Recs(tag, 0, e.at), 1)
          [] OTHER -> Flagged(set, -1)

FlagFrom(tag, set, below, s, endCon, endVal, flip, check) ==
    FlagBetween(tag, set, below, s, Has(endCon),
                Seek(tag, endCon, endVal, IF below THEN s.rec ELSE Nowhere, check), flip)

FlagRange(tag, set, startCon, startVal, endCon, endVal, flip, check) ==
    FlagFrom(tag, set, Has(startCon), Seek(tag, startCon, startVal, Nowhere, FALSE),
             endCon, endVal, flip, check)

-----------------------------------------------------------------------------
(* The flags of a leaf: [set, flip], and with flip the records not in set  *)
(* are the ones that match.                                                *)

Flags(set, flip) == [set |-> set, flip |-> flip]
Everyone(n) == Flags({}, TRUE)
NoOne(n) == Flags({}, FALSE)
Matches(f, n) == {r \in 1..n : (r \in f.set) # f.flip}

Sense(r) == Flags(r.set, r.flip = -1)

AndEqFlags(tag, m) == Sense(FlagRange(tag, {}, m.eq, 1, m.eq, 2, 0, FALSE))

\* The range first, then each excluded constant taken out of it: the sense of
\* flip is turned round for that and back at the end.
Turn(flip) == IF flip = 1 THEN -1 ELSE 1

\* What an excluded constant leaves, r being the range of its keys.
Without(r, flip, n) ==
    CASE r.flip # Nobody -> r
      [] r.flip = Nobody /\ flip = 0 -> Flagged(0..n, -1)
      [] OTHER -> Flagged(r.set, flip)

RECURSIVE TakeOut(_, _, _, _)
TakeOut(tag, ne, had, n) ==
    IF ne = <<>> THEN had
    ELSE TakeOut(tag, Tail(ne),
                 Without(FlagRange(tag, had.set, Head(ne), 1, Head(ne), 2, had.flip, FALSE),
                         had.flip, n), n)

\* A wrong variant: a range of one key is taken for none, whatever its ends.
OpenAnyway(m) == TRUE

OpenEnds(m) == ~Has(m.ge) /\ ~Has(m.le)

AndRange(tag, m) ==
    FlagRange(tag, {},
              IF Has(m.gt) THEN m.gt ELSE m.ge, IF Has(m.gt) THEN 3 ELSE 1,
              IF Has(m.lt) THEN m.lt ELSE m.le, IF Has(m.lt) THEN 0 ELSE 2, 0, OpenEnds(m))

Turned(r) == Flags(r.set, Turn(r.flip) = -1)

\* r is the range of the leaf without its excluded constants.
Excluded(tag, m, r, n) ==
    CASE r.flip = Nobody -> NoOne(n)
      [] r.flip # Nobody /\ m.ne = <<>> -> Sense(r)
      [] OTHER -> Turned(TakeOut(tag, m.ne,
                                 Flagged(r.set, IF r.flip = 0 THEN 0 ELSE Turn(r.flip)), n))

AndOtFlags(tag, m, n) == Excluded(tag, m, AndRange(tag, m), n)

Outside(r) == Flags(r.set, r.flip # -1)

OrNeFlags(tag, m) == Outside(FlagRange(tag, {}, Head(m.ne), 1, Head(m.ne), 2, 0, FALSE))

\* bmf4OrOt: the records up to e, the lower range's end, and from s, the upper
\* one's start.  Where the upper range has a first record and the lower one none,
\* the tag is put back by a seek, again, that is not the one that found the record.
Sides(tag, start, s, end, e, again) ==
    LET n == Len(tag)
        valid(rec) == rec # NoRecord /\ rec # Nowhere
        back == IF end = NoRecord THEN again.at ELSE s.at
    IN  CASE valid(start) /\ valid(end) ->
               IF Position(tag, e.at) - Position(tag, s.at) < Half(tag)
               THEN \* from the lower range's end up to the upper one's start
                    Flagged(IF s.at > e.at THEN Recs(tag, e.at + 1, s.at - 1)
                            ELSE IF s.at = e.at THEN {} ELSE Recs(tag, e.at + 1, n - 1), -1)
               ELSE Flagged(Recs(tag, 0, e.at) \union Recs(tag, again.at, n - 1), 0)
          [] valid(start) /\ ~valid(end) ->
               IF Position(tag, s.at) < Half(tag)
               THEN Flagged(Recs(tag, 0, back - 1), -1)
               ELSE Flagged(Recs(tag, back, n - 1), 1)
          [] ~valid(start) /\ valid(end) ->
               IF Position(tag, e.at) > Half(tag)
               THEN Flagged(Recs(tag, e.at + 1, n - 1), -1)
               ELSE Flagged(Recs(tag, 0, e.at), 1)
          [] OTHER -> Flagged({}, 0)

LastOf(r, had) == IF r.flip # Nobody THEN r ELSE had

\* The equal keys besides the two sides.
AndTheEqual(tag, m, had) ==
    IF ~Has(m.eq) THEN Sense(had)
    ELSE Sense(LastOf(FlagRange(tag, had.set, m.eq, 1, m.eq, 2, had.flip, FALSE), had))

OrBetween(tag, m, start, s, end, e) ==
    IF start = NoRecord /\ end = NoRecord THEN Flags({}, FALSE)
    ELSE AndTheEqual(tag, m,
           Sides(tag, start, s, end, e,
                 IF Has(m.gt) THEN Seek(tag, m.gt, 1, Nowhere, FALSE)
                 ELSE Seek(tag, m.ge, 2, Nowhere, FALSE)))

OrFrom(tag, m, start, s) ==
    LET lower == Has(m.lt) \/ Has(m.le)
        To(e) == OrBetween(tag, m, start, s, IF lower THEN e.rec ELSE Nowhere, e)
    IN  To(IF Has(m.lt) THEN Seek(tag, m.lt, 0, start, TRUE) ELSE Seek(tag, m.le, 2, start, TRUE))

OrOtFlags(tag, m) ==
    LET upper == Has(m.gt) \/ Has(m.ge)
        From(s) == OrFrom(tag, m, IF upper THEN s.rec ELSE Nowhere, s)
    IN  From(IF Has(m.gt) THEN Seek(tag, m.gt, 3, Nowhere, FALSE)
             ELSE Seek(tag, m.ge, 1, Nowhere, FALSE))

\* bitmap4flagGenerate
LeafFlags(tag, m, n) ==
    CASE m.noMatch -> IF m.op = "or" THEN Everyone(n) ELSE NoOne(n)
      [] ~m.noMatch /\ m.op = "and" -> IF Has(m.eq) THEN AndEqFlags(tag, m) ELSE AndOtFlags(tag, m, n)
      [] OTHER -> IF m.ne # <<>> THEN OrNeFlags(tag, m) ELSE OrOtFlags(tag, m)

FlagAnd(f, g, n) == Flags(Matches(f, n) \cap Matches(g, n), FALSE)
FlagOr(f, g, n) == Flags(Matches(f, n) \union Matches(g, n), FALSE)

\* bitmap4generate, over tags, a function from tags to their keys.
RECURSIVE Generate(_, _, _)
Generate(m, tags, n) ==
    IF ~m.branch THEN LeafFlags(tags[m.tag], m, n)
    ELSE LET parts == [i \in DOMAIN m.kids |-> Generate(m.kids[i], tags, n)]
         IN  FoldLeft(LAMBDA f, g : IF m.op = "and" THEN FlagAnd(f, g, n) ELSE FlagOr(f, g, n),
                      Head(parts), Tail(parts))

=============================================================================
