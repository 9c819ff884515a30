---------------------------- MODULE BitmapQuery -----------------------------
(***************************************************************************)
(* One query over one table, from its expression to the records it reads   *)
(* (m4map.c, with the counting of r4relate.c).  The comparisons that have  *)
(* a tag of their own become a tree of maps; the tree is reduced,          *)
(* rewritten and settled, and flags the candidates.  The rest of the       *)
(* relation only reads candidates and evaluates the expression on each, so *)
(* a record that is not flagged is lost to the query; and when every part  *)
(* of the expression was mapped the count of the flags is the count of the *)
(* query.                                                                  *)
(*                                                                         *)
(* An expression is a comparison [kind, cmp, tag, con, left] of a tag's    *)
(* key and a constant, left saying that the constant is written first; a   *)
(* part no tag answers [kind |-> "other", true]; or a join of parts        *)
(* [kind, parms] with kind "and" or "or".                                  *)
(***************************************************************************)
EXTENDS BitmapFlags

CONSTANTS Tags,          \* the tags of the table
          KeyLen,          \* their key lengths
          Tables,        \* sets of tables: records as functions from tags to keys
          Queries,       \* the expressions asked
          Beyond         \* what the bytes after a constant may compare as

VARIABLES query, table, beyond, stage, map, fully, found

vars == <<query, table, beyond, stage, map, fully, found>>

Nrecs == Len(table)

-----------------------------------------------------------------------------
(* What the expression says of a record (e4functi.c): both sides are       *)
(* compared over the length of the shorter; on equality there only         *)
(* "greater" and "less" look at which was the longer.                      *)

Compares(cmp, v, w) ==
    LET n == Least(Len(v), Len(w)) IN
    CASE cmp = "eq" -> SameStart(v, w, n)
      [] cmp = "ne" -> ~SameStart(v, w, n)
      [] cmp = "gt" -> Before(w, v, n) \/ (SameStart(v, w, n) /\ Len(v) > Len(w))
      [] cmp = "lt" -> Before(v, w, n) \/ (SameStart(v, w, n) /\ Len(v) < Len(w))
      [] cmp = "ge" -> ~Before(v, w, n)
      [] cmp = "le" -> ~Before(w, v, n)

RECURSIVE IsTrue(_, _, _)
IsTrue(e, r, tab) ==
    CASE e.kind = "cmp" -> IF e.left THEN Compares(e.cmp, e.con, tab[r][e.tag])
                           ELSE Compares(e.cmp, tab[r][e.tag], e.con)
      [] e.kind = "other" -> r \in e.true
      [] e.kind = "and" -> \A i \in DOMAIN e.parms : IsTrue(e.parms[i], r, tab)
      [] e.kind = "or" -> \E i \in DOMAIN e.parms : IsTrue(e.parms[i], r, tab)

Matching == {r \in 1..Nrecs : IsTrue(query, r, table)}

-----------------------------------------------------------------------------
(* bitmap4can: the parameters are read from the last to the first.  An     *)
(* "and" keeps what can be mapped, an "or" needs all of it.                *)

NoMap == Map("nomap", FALSE, Absent)
IsMap(m) == m.op # "nomap"

RECURSIVE Can(_, _)
Can(e, first) ==
    CASE e.kind = "other" -> NoMap
      [] e.kind = "cmp" -> Leaf(e.cmp, e.tag, e.con, e.left /\ first, KeyLen[e.tag])
      [] e.kind \in {"and", "or"} ->
           LET parms == Reverse([i \in DOMAIN e.parms |-> Can(e.parms[i], first /\ i = 1)])
               kids == SelectSeq(parms, IsMap)
               joined == [i \in DOMAIN kids |->
                             [kids[i] EXCEPT !.op = IF @ = "none" THEN e.kind ELSE @]]
           IN  IF kids = <<>> \/ (e.kind = "or" /\ Len(kids) < Len(parms)) THEN NoMap
               ELSE [Map(e.kind, TRUE, Absent) EXCEPT !.kids = joined]

\* A wrong variant: what could be mapped in part was mapped.
AllMappedLoose(e) == IsMap(Can(e, TRUE))

RECURSIVE AllMapped(_)
AllMapped(e) ==
    e.kind = "cmp" \/ (e.kind \in {"and", "or"} /\ \A i \in DOMAIN e.parms : AllMapped(e.parms[i]))

\* The order of a tag's keys: by key, then by record.
KeysOf(tag, tab) ==
    SortSeq([r \in DOMAIN tab |-> [key |-> tab[r][tag], rec |-> r]],
            LAMBDA a, b : Less(a.key, b.key) \/ (a.key = b.key /\ a.rec < b.rec))

-----------------------------------------------------------------------------
Init ==
    /\ query \in Queries
    /\ table \in Tables
    /\ beyond \in Beyond
    /\ stage = "asked"
    /\ map = NoMap
    /\ fully = FALSE
    /\ found = Everyone(Nrecs)

\* log4bitmapDo and bitmap4init
Build ==
    /\ stage = "asked"
    /\ map' = Can(query, TRUE)
    /\ fully' = AllMapped(query)
    /\ stage' = IF IsMap(map') THEN "built" ELSE "found"
    /\ UNCHANGED <<query, table, beyond, found>>

ReduceMap ==
    /\ stage = "built"
    /\ map' = Reduce(map)
    /\ stage' = "reduced"
    /\ UNCHANGED <<query, table, beyond, fully, found>>

RedistributeMap ==
    /\ stage = "reduced"
    /\ map' = RedistributeRoot(map, beyond)
    /\ stage' = "redistributed"
    /\ UNCHANGED <<query, table, beyond, fully, found>>

SettleMap ==
    /\ stage = "redistributed"
    /\ map' = Settle(map)
    /\ stage' = IF Ended(map') THEN map'.op ELSE "settled"
    /\ UNCHANGED <<query, table, beyond, fully, found>>

GenerateFlags ==
    /\ stage = "settled"
    /\ found' = Generate(map, [t \in Tags |-> KeysOf(t, table)], Nrecs)
    /\ stage' = "found"
    /\ UNCHANGED <<query, table, beyond, map, fully>>

Next == Build \/ ReduceMap \/ RedistributeMap \/ SettleMap \/ GenerateFlags

Spec == Init /\ [][Next]_vars

-----------------------------------------------------------------------------
Candidates == Matches(found, Nrecs)
CountOfFlags == Cardinality(Candidates)

\* The tree keeps its shape: a leaf has a tag, a branch has none of the
\* constants, and constants are of the tags' types.
RECURSIVE WellFormed(_)
WellFormed(m) ==
    IF m.branch THEN IsSpent(m) /\ \A i \in DOMAIN m.kids : WellFormed(m.kids[i])
    ELSE m.tag \in Tags /\ m.kids = <<>>

TypeOK ==
    /\ stage \in {"asked", "built", "reduced", "redistributed", "settled", "found", "crash", "spread"}
    /\ IsMap(map) /\ ~Ended(map) => WellFormed(map)
    /\ found.set \subseteq 0..Nrecs /\ found.flip \in BOOLEAN

\* No matching record is left out: however the parts of the expression are
\* combined and the tags walked, a record that makes it true is a candidate.
NothingIsMissed == stage = "found" => Matching \subseteq Candidates

\* Where relate4count returns the count of the flags, it is the count of the
\* records that match.
CountIsTheMatches == stage = "found" /\ fully => CountOfFlags = Cardinality(Matching)

\* The records a tree stands for, by the meaning of its leaves' constants.
RECURSIVE Means(_, _)
Means(m, key) ==
    LET parts == {p \in {"lt", "le", "gt", "ge", "eq"} : Holds(m, p)}
        one(p) == Compares(IF p = "gt" THEN "le" ELSE p, key[m.tag], m[p]) # (p = "gt")
        others == {Compares("ne", key[m.tag], m.ne[i]) : i \in DOMAIN m.ne}
    IN  CASE m.branch /\ m.noMatch -> m.op = "or"
          [] m.branch /\ ~m.noMatch /\ m.op = "and" -> \A i \in DOMAIN m.kids : Means(m.kids[i], key)
          [] m.branch /\ ~m.noMatch /\ m.op = "or" -> \E i \in DOMAIN m.kids : Means(m.kids[i], key)
          [] ~m.branch /\ m.noMatch -> m.op = "or"
          [] ~m.branch /\ ~m.noMatch /\ m.op = "and" ->
                (\A p \in parts : one(p)) /\ FALSE \notin others
          [] OTHER -> (\E p \in parts : one(p)) \/ TRUE \in others

\* At every stage of the rewriting the tree still stands for every record that
\* matches: combining, moving and dropping leaves never narrows it.
TreeKeepsTheMatches ==
    stage \in {"built", "reduced", "redistributed", "settled"} =>
        \A r \in Matching : Means(map, table[r])

\* The distribution of one leaf over another, whose copy of a leaf with an
\* excluded constant would never end, is not reached.
NeverSpread == stage # "spread"

=============================================================================
