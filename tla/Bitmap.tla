------------------------------- MODULE Bitmap -------------------------------
(***************************************************************************)
(* The maps of a query (m4map.c, C4CONST.C).  A query over one table is    *)
(* turned into a tree: a branch joins its children by "and" or "or", a     *)
(* leaf holds, for one tag, at most one constant of each kind (lt, le, gt, *)
(* ge, eq) and a list of constants its keys must differ from (ne).  The    *)
(* tree is rewritten so that leaves of one tag become one leaf, and the    *)
(* leaves then flag records by walking their tags (BitmapFlags).           *)
(*                                                                         *)
(* A key and a constant are sequences of numbers; a constant of a          *)
(* character tag may be shorter than its keys, and << >> is the constant   *)
(* that is absent (len = 0).                                               *)
(***************************************************************************)
EXTENDS Integers, Sequences, SequencesExt

CONSTANT Absent      \* the tag of a branch that has none

None == <<>>
Has(con) == con # None
Least(a, b) == IF a < b THEN a ELSE b

\* c4memcmp over the first n bytes.
Cut(s, n) == SubSeq(s, 1, Least(n, Len(s)))
Before(p, q, n) ==
    \E i \in 1..n : p[i] < q[i] /\ \A j \in 1..(i - 1) : p[j] = q[j]
SameStart(p, q, n) == \A i \in 1..n : p[i] = q[i]

Less(p, q) ==
    LET n == Least(Len(p), Len(q))
    IN  Before(p, q, n) \/ (Len(p) < Len(q) /\ SameStart(p, q, n))

\* A wrong variant: equal is not "at most".
LessEqStrict(p, q) == Less(p, q)

LessEq(p, q) ==
    LET n == Least(Len(p), Len(q))
    IN  Before(p, q, n) \/ (Len(p) <= Len(q) /\ SameStart(p, q, n))

\* The comparison runs over the first one's length.  Past the end of a shorter
\* second one lie the bytes of whatever constant was stored after it: beyond
\* says what they compare as.
Same(p, q, beyond) ==
    /\ Len(p) >= Len(q)
    /\ SameStart(p, q, Len(q))
    /\ Len(p) > Len(q) => beyond

-----------------------------------------------------------------------------
Map(op, branch, tag) ==
    [op |-> op, branch |-> branch, tag |-> tag, noMatch |-> FALSE, kids |-> <<>>,
     lt |-> None, le |-> None, gt |-> None, ge |-> None, eq |-> None, ne |-> <<>>]

\* A comparison leaves its constant in one field.  "first" says that the
\* constant stands on the left and is the first entry of the whole expression:
\* only then are the operands taken for swapped.
Leaf(cmp, tag, con, first, keyLen) ==
    LET m == Map("none", FALSE, tag)
        partial == Len(con) < keyLen
    IN  CASE cmp = "ne" -> [m EXCEPT !.ne = <<con>>]
          [] cmp = "eq" -> [m EXCEPT !.eq = con]
          [] cmp = "gt" /\ first -> [m EXCEPT !.lt = con]
          [] cmp = "lt" /\ ~first -> [m EXCEPT !.lt = con]
          [] cmp \in {"gt", "lt"} /\ partial -> [m EXCEPT !.ge = con]
          [] cmp \in {"gt", "lt"} -> [m EXCEPT !.gt = con]
          [] cmp = "ge" /\ first -> [m EXCEPT !.le = con]
          [] cmp = "le" /\ ~first -> [m EXCEPT !.le = con]
          [] cmp \in {"ge", "le"} -> [m EXCEPT !.ge = con]

Dead == [ok |-> FALSE]
Two(m1, m2) == [ok |-> TRUE, m1 |-> m1, m2 |-> m2]

-----------------------------------------------------------------------------
(* Two leaves of one tag under an "and": each of the second's constants is *)
(* brought into the first; Dead is "no record can match".                  *)

AndLe(m1, m2, beyond) ==
    LET c == m2.le
        rest == SelectSeq(m1.ne, LAMBDA x : ~Less(c, x))
        meets == \E i \in DOMAIN rest : Same(c, rest[i], beyond)
        n1 == [m1 EXCEPT !.ne = rest]
        done == [m2 EXCEPT !.le = None]
    IN  CASE Has(m1.eq) -> IF Less(c, m1.eq) THEN Dead ELSE Two(m1, done)
          [] ~Has(m1.eq) /\ Has(m1.gt) /\ LessEq(c, m1.gt) -> Dead
          [] ~Has(m1.eq) /\ Has(m1.ge) /\ Less(c, m1.ge) -> Dead
          [] ~Has(m1.eq) /\ Has(m1.ge) /\ Same(c, m1.ge, beyond) ->
                IF Has(m2.eq) /\ ~Same(m2.eq, c, beyond)
                THEN Dead ELSE Two(m1, [done EXCEPT !.eq = c])
          [] OTHER ->
                CASE meets -> Two(n1, [done EXCEPT !.lt = c])
                  [] ~meets /\ Has(m1.lt) ->
                        Two(IF Less(c, m1.lt) THEN [n1 EXCEPT !.le = c, !.lt = None]
                            ELSE n1, done)
                  [] ~meets /\ ~Has(m1.lt) ->
                        Two(IF Has(m1.le) /\ ~Less(c, m1.le) THEN n1
                            ELSE [n1 EXCEPT !.le = c], done)

AndGe(m1, m2, beyond) ==
    LET c == m2.ge
        rest == SelectSeq(m1.ne, LAMBDA x : ~Less(x, c))
        meets == \E i \in DOMAIN rest : Same(rest[i], c, beyond)
        n1 == [m1 EXCEPT !.ne = rest]
        done == [m2 EXCEPT !.ge = None]
    IN  CASE Has(m1.eq) -> IF Less(m1.eq, c) THEN Dead ELSE Two(m1, done)
          [] ~Has(m1.eq) /\ Has(m1.lt) /\ LessEq(m1.lt, c) -> Dead
          [] ~Has(m1.eq) /\ ~Has(m1.lt) /\ Has(m1.le) /\ Less(m1.le, c) -> Dead
          [] ~Has(m1.eq) /\ ~Has(m1.lt) /\ Has(m1.le) /\ Same(m1.le, c, beyond) ->
                IF Has(m2.eq) /\ ~Same(m2.eq, c, beyond)
                THEN Dead ELSE Two(m1, [done EXCEPT !.eq = c])
          [] OTHER ->
                CASE meets -> Two(n1, [done EXCEPT !.gt = c])
                  [] ~meets /\ Has(m1.gt) ->
                        Two(IF Less(m1.gt, c) THEN [n1 EXCEPT !.ge = c, !.gt = None]
                            ELSE n1, done)
                  [] ~meets /\ ~Has(m1.gt) ->
                        Two(IF Has(m1.ge) /\ ~Less(m1.ge, c) THEN n1
                            ELSE [n1 EXCEPT !.ge = c], done)

AndLt(m1, m2) ==
    LET c == m2.lt
        n1 == [m1 EXCEPT !.ne = SelectSeq(@, LAMBDA x : ~LessEq(c, x))]
        done == [m2 EXCEPT !.lt = None]
    IN  CASE Has(m1.eq) -> IF LessEq(c, m1.eq) THEN Dead ELSE Two(m1, done)
          [] ~Has(m1.eq) /\ Has(m1.gt) /\ LessEq(c, m1.gt) -> Dead
          [] ~Has(m1.eq) /\ ~Has(m1.gt) /\ Has(m1.ge) /\ LessEq(c, m1.ge) -> Dead
          [] OTHER ->
                Two(CASE Has(m1.lt) -> IF LessEq(c, m1.lt) THEN [n1 EXCEPT !.lt = c] ELSE n1
                      [] ~Has(m1.lt) /\ Has(m1.le) ->
                            IF LessEq(c, m1.le) THEN [n1 EXCEPT !.lt = c, !.le = None] ELSE n1
                      [] ~Has(m1.lt) /\ ~Has(m1.le) -> [n1 EXCEPT !.lt = c],
                    done)

AndGt(m1, m2) ==
    LET c == m2.gt
        n1 == [m1 EXCEPT !.ne = SelectSeq(@, LAMBDA x : ~LessEq(x, c))]
        done == [m2 EXCEPT !.gt = None]
    IN  CASE Has(m1.eq) -> IF LessEq(m1.eq, c) THEN Dead ELSE Two(m1, done)
          [] ~Has(m1.eq) /\ Has(m1.lt) /\ LessEq(m1.lt, c) -> Dead
          [] ~Has(m1.eq) /\ ~Has(m1.lt) /\ Has(m1.le) /\ LessEq(m1.le, c) -> Dead
          [] OTHER ->
                Two(CASE Has(m1.gt) -> IF Less(m1.gt, c) THEN [n1 EXCEPT !.gt = c] ELSE n1
                      [] ~Has(m1.gt) /\ Has(m1.ge) ->
                            IF LessEq(m1.ge, c) THEN [n1 EXCEPT !.gt = c, !.ge = None] ELSE n1
                      [] ~Has(m1.gt) /\ ~Has(m1.ge) -> [n1 EXCEPT !.gt = c],
                    done)

\* One excluded constant against the first leaf: it may be the leaf's very
\* value, lie outside its bounds, be the closed end of one, or be new.
AndNeOne(m1, c, beyond) ==
    CASE Has(m1.eq) -> IF Same(c, m1.eq, beyond) THEN Dead ELSE Two(m1, None)
      [] ~Has(m1.eq) /\ Has(m1.gt) /\ LessEq(c, m1.gt) -> Two(m1, None)
      [] ~Has(m1.eq) /\ ~Has(m1.gt) /\ Has(m1.ge) /\ Same(c, m1.ge, beyond) ->
            Two([m1 EXCEPT !.gt = m1.ge, !.ge = None], None)
      [] ~Has(m1.eq) /\ ~Has(m1.gt) /\ Has(m1.ge) /\ ~Same(c, m1.ge, beyond)
            /\ LessEq(c, m1.ge) -> Two(m1, None)
      [] OTHER ->
            CASE Has(m1.lt) /\ LessEq(m1.lt, c) -> Two(m1, None)
              [] ~Has(m1.lt) /\ Has(m1.le) /\ Same(c, m1.le, beyond) ->
                    Two([m1 EXCEPT !.lt = m1.le, !.le = None], None)
              [] ~Has(m1.lt) /\ Has(m1.le) /\ ~Same(c, m1.le, beyond)
                    /\ LessEq(m1.le, c) -> Two(m1, None)
              [] OTHER ->
                    Two(IF \E i \in DOMAIN m1.ne : Same(c, m1.ne[i], beyond) THEN m1
                        ELSE [m1 EXCEPT !.ne = Append(@, c)], None)

RECURSIVE AndNe(_, _, _)
AndNe(m1, m2, beyond) ==
    IF m2.ne = <<>> THEN Two(m1, m2)
    ELSE LET one == AndNeOne(m1, Head(m2.ne), beyond)
         IN  IF ~one.ok THEN Dead
             ELSE AndNe(one.m1, [m2 EXCEPT !.ne = Tail(@)], beyond)

AndEq(m1, m2, beyond) ==
    LET c == m2.eq
        above == \/ Has(m1.le) /\ Less(m1.le, c)
                 \/ ~Has(m1.le) /\ Has(m1.lt) /\ LessEq(m1.lt, c)
        below == \/ Has(m1.ge) /\ Less(c, m1.ge)
                 \/ ~Has(m1.ge) /\ Has(m1.gt) /\ LessEq(c, m1.gt)
    IN  CASE Has(m1.eq) ->
                IF Same(c, m1.eq, beyond) THEN Two(m1, [m2 EXCEPT !.eq = None]) ELSE Dead
          [] ~Has(m1.eq) /\ (above \/ below \/ \E i \in DOMAIN m1.ne : Same(c, m1.ne[i], beyond)) ->
                Dead
          [] OTHER ->
                Two([m1 EXCEPT !.ne = <<>>, !.eq = c,
                               !.le = None, !.lt = IF Has(m1.le) THEN @ ELSE None,
                               !.ge = None, !.gt = IF Has(m1.ge) THEN @ ELSE None],
                    [m2 EXCEPT !.eq = None])

-----------------------------------------------------------------------------
(* Under an "or"; Dead is "every record matches".  An excluded constant    *)
(* stands alone in its leaf.                                               *)

OrLe(m1, m2) ==
    LET c == m2.le
        n1 == IF Has(m1.eq) /\ LessEq(m1.eq, c) THEN [m1 EXCEPT !.eq = None] ELSE m1
        done == [m2 EXCEPT !.le = None]
    IN  CASE \/ Has(m1.gt) /\ LessEq(m1.gt, c)
             \/ ~Has(m1.gt) /\ Has(m1.ge) /\ LessEq(m1.ge, c)
             \/ m1.ne # <<>> /\ LessEq(Head(m1.ne), c) -> Dead
          [] OTHER ->
                Two(IF \/ m1.ne # <<>>
                       \/ Has(m1.lt) /\ ~LessEq(m1.lt, c)
                       \/ ~Has(m1.lt) /\ Has(m1.le) /\ ~LessEq(m1.le, c)
                    THEN n1 ELSE [n1 EXCEPT !.le = c, !.lt = None], done)

OrGe(m1, m2) ==
    LET c == m2.ge
        n1 == IF Has(m1.eq) /\ LessEq(c, m1.eq) THEN [m1 EXCEPT !.eq = None] ELSE m1
        done == [m2 EXCEPT !.ge = None]
    IN  CASE \/ Has(m1.lt) /\ LessEq(c, m1.lt)
             \/ ~Has(m1.lt) /\ Has(m1.le) /\ LessEq(c, m1.le)
             \/ m1.ne # <<>> /\ LessEq(c, Head(m1.ne)) -> Dead
          [] OTHER ->
                Two(IF \/ m1.ne # <<>>
                       \/ Has(m1.gt) /\ ~LessEq(c, m1.gt)
                       \/ ~Has(m1.gt) /\ Has(m1.ge) /\ ~LessEq(c, m1.ge)
                    THEN n1 ELSE [n1 EXCEPT !.ge = c, !.gt = None], done)

AddNe(m, c, beyond) ==
    IF \E i \in DOMAIN m.ne : Same(c, m.ne[i], beyond) THEN m
    ELSE [m EXCEPT !.ne = Append(@, c)]

OrLt(m1, m2, beyond) ==
    LET c == m2.lt
        n1 == IF Has(m1.eq) /\ Less(m1.eq, c) THEN [m1 EXCEPT !.eq = None] ELSE m1
        done == [m2 EXCEPT !.lt = None]
    IN  CASE Has(m1.eq) /\ Same(m1.eq, c, beyond) ->
                Two([m1 EXCEPT !.eq = None], [done EXCEPT !.le = c])
          [] OTHER ->
          CASE m1.ne # <<>> -> IF Less(Head(m1.ne), c) THEN Dead ELSE Two(n1, done)
            [] m1.ne = <<>> /\ Has(m1.gt) /\ Less(m1.gt, c) -> Dead
            [] m1.ne = <<>> /\ Has(m1.gt) /\ ~Less(m1.gt, c) /\ Same(m1.gt, c, beyond) ->
                  Two([AddNe(n1, c, beyond) EXCEPT !.gt = None], done)
            [] m1.ne = <<>> /\ ~Has(m1.gt) /\ Has(m1.ge) /\ LessEq(m1.ge, c) -> Dead
            [] OTHER ->
                  Two(CASE Has(m1.lt) -> IF Less(m1.lt, c) THEN [n1 EXCEPT !.lt = c] ELSE n1
                        [] ~Has(m1.lt) /\ Has(m1.le) ->
                              IF LessEq(c, m1.le) THEN n1 ELSE [n1 EXCEPT !.lt = c, !.le = None]
                        [] ~Has(m1.lt) /\ ~Has(m1.le) -> [n1 EXCEPT !.lt = c],
                      done)

OrGt(m1, m2, beyond) ==
    LET c == m2.gt
        n1 == IF Has(m1.eq) /\ Less(c, m1.eq) THEN [m1 EXCEPT !.eq = None] ELSE m1
        done == [m2 EXCEPT !.gt = None]
    IN  CASE Has(m1.eq) /\ Same(m1.eq, c, beyond) ->
                Two([m1 EXCEPT !.eq = None], [done EXCEPT !.ge = c])
          [] OTHER ->
          CASE m1.ne # <<>> -> IF Less(c, Head(m1.ne)) THEN Dead ELSE Two(n1, done)
            [] m1.ne = <<>> /\ Has(m1.lt) /\ Less(c, m1.lt) -> Dead
            [] m1.ne = <<>> /\ Has(m1.lt) /\ ~Less(c, m1.lt) /\ Same(c, m1.lt, beyond) ->
                  Two([AddNe(n1, c, beyond) EXCEPT !.lt = None], done)
            [] m1.ne = <<>> /\ ~Has(m1.lt) /\ Has(m1.le) /\ LessEq(c, m1.le) -> Dead
            [] OTHER ->
                  Two(CASE Has(m1.gt) -> IF Less(m1.gt, c) THEN n1 ELSE [n1 EXCEPT !.gt = c]
                        [] ~Has(m1.gt) /\ Has(m1.ge) ->
                              IF LessEq(m1.ge, c) THEN n1 ELSE [n1 EXCEPT !.gt = c, !.ge = None]
                        [] ~Has(m1.gt) /\ ~Has(m1.ge) -> [n1 EXCEPT !.gt = c],
                      done)

OrEq(m1, m2, beyond) ==
    LET c == m2.eq
        done == [m2 EXCEPT !.eq = None]
    IN  CASE Has(m1.eq) /\ Same(m1.eq, c, beyond) -> Two(m1, done)
          [] OTHER ->
          CASE m1.ne # <<>> -> IF Same(c, Head(m1.ne), beyond) THEN Dead ELSE Two(m1, done)
            [] m1.ne = <<>> /\ Has(m1.lt) /\ Same(m1.lt, c, beyond) ->
                  Two([m1 EXCEPT !.le = m1.lt, !.lt = None], done)
            [] m1.ne = <<>> /\ Has(m1.lt) /\ ~Same(m1.lt, c, beyond) /\ Less(c, m1.lt) ->
                  Two(m1, done)
            [] m1.ne = <<>> /\ ~Has(m1.lt) /\ Has(m1.le) /\ LessEq(c, m1.le) -> Two(m1, done)
            [] OTHER ->
            CASE Has(m1.gt) /\ Same(m1.gt, c, beyond) ->
                    Two([m1 EXCEPT !.ge = m1.gt, !.gt = None], done)
              [] Has(m1.gt) /\ ~Same(m1.gt, c, beyond) /\ Less(m1.gt, c) -> Two(m1, done)
              [] ~Has(m1.gt) /\ Has(m1.ge) /\ LessEq(m1.ge, c) -> Two(m1, done)
              [] OTHER -> IF Has(m1.eq) THEN Two(m1, m2) ELSE Two([m1 EXCEPT !.eq = c], done)

OrNe(m1, m2, beyond) ==
    LET c == Head(m2.ne)
        done == [m2 EXCEPT !.ne = Tail(@)]
        n1 == [m1 EXCEPT !.eq = None]
    IN  CASE \/ Has(m1.eq) /\ Same(m1.eq, c, beyond)
             \/ m1.ne # <<>> /\ ~Same(Head(m1.ne), c, beyond)
             \/ m1.ne = <<>> /\ (\/ Has(m1.lt) /\ Less(c, m1.lt)
                                 \/ ~Has(m1.lt) /\ Has(m1.le) /\ LessEq(c, m1.le)
                                 \/ Has(m1.gt) /\ Less(m1.gt, c)
                                 \/ ~Has(m1.gt) /\ Has(m1.ge) /\ LessEq(m1.ge, c)) -> Dead
          [] OTHER ->
                IF m1.ne # <<>> THEN Two(n1, done)
                ELSE Two([n1 EXCEPT !.lt = None, !.le = IF Has(m1.lt) THEN @ ELSE None,
                                    !.gt = None, !.ge = IF Has(m1.gt) THEN @ ELSE None,
                                    !.ne = <<c>>], done)

-----------------------------------------------------------------------------
(* bitmap4combineLeafs.  The constants of the second leaf are brought in   *)
(* one kind after another; a step may leave it a constant of a kind still  *)
(* to come.                                                                *)

Holds(m, kind) == IF kind = "ne" THEN m.ne # <<>> ELSE Has(m[kind])

AndOne(kind, m1, m2, beyond) ==
    CASE kind = "le" -> AndLe(m1, m2, beyond) [] kind = "ge" -> AndGe(m1, m2, beyond)
      [] kind = "lt" -> AndLt(m1, m2)         [] kind = "gt" -> AndGt(m1, m2)
      [] kind = "ne" -> AndNe(m1, m2, beyond) [] kind = "eq" -> AndEq(m1, m2, beyond)

OrOne(kind, m1, m2, beyond) ==
    CASE kind = "lt" -> OrLt(m1, m2, beyond) [] kind = "gt" -> OrGt(m1, m2, beyond)
      [] kind = "le" -> OrLe(m1, m2)         [] kind = "ge" -> OrGe(m1, m2)
      [] kind = "ne" -> OrNe(m1, m2, beyond) [] kind = "eq" -> OrEq(m1, m2, beyond)

RECURSIVE Bring(_, _, _, _)
Bring(kinds, op, pair, beyond) ==
    IF kinds = <<>> \/ ~pair.ok THEN pair
    ELSE Bring(Tail(kinds), op,
               IF ~Holds(pair.m2, Head(kinds)) THEN pair
               ELSE IF op = "and" THEN AndOne(Head(kinds), pair.m1, pair.m2, beyond)
               ELSE OrOne(Head(kinds), pair.m1, pair.m2, beyond), beyond)

\* Under an "or" the round is gone through once for every child from the
\* second leaf to the last.
RECURSIVE Rounds(_, _, _)
Rounds(n, pair, beyond) ==
    IF n = 0 \/ ~pair.ok THEN pair
    ELSE Rounds(n - 1, Bring(<<"lt", "gt", "le", "ge", "ne", "eq">>, "or", pair, beyond), beyond)

CombineLeafs(op, m1, m2, nLater, beyond) ==
    IF op = "and" THEN Bring(<<"le", "ge", "lt", "gt", "ne", "eq">>, op, Two(m1, m2), beyond)
    ELSE Rounds(1 + nLater, Two(m1, m2), beyond)

IsSpent(m) == \A kind \in {"lt", "le", "gt", "ge", "ne", "eq"} : ~Holds(m, kind)

-----------------------------------------------------------------------------
(* The rewriting.  A branch left with one child gives way to it; its       *)
(* parent takes over a tag it has not.                                     *)

TakeTag(tag, child) == IF tag = Absent THEN child.tag ELSE tag

RECURSIVE Reduce(_)
Reduce(m) ==
    IF ~m.branch THEN m
    ELSE LET kids == [i \in DOMAIN m.kids |-> Reduce(m.kids[i])]
             tagged == FoldLeft(LAMBDA tag, i :
                                  IF m.kids[i].branch /\ Len(m.kids[i].kids) = 1
                                  THEN TakeTag(tag, kids[i]) ELSE tag,
                                m.tag, [i \in DOMAIN kids |-> i])
         IN  IF Len(kids) = 1 THEN kids[1] ELSE [m EXCEPT !.kids = kids, !.tag = tagged]

\* bitmap4collapse: nothing (under "and") or everything (under "or") matches.
Collapse(m) ==
    [m EXCEPT !.noMatch = TRUE, !.tag = TakeTag(@, Head(m.kids)), !.kids = <<>>]

\* An "eq" and a "ne" whose lengths differ but which start alike say something
\* of one key that neither says of the other.
Blurred(m1, m2) ==
    LET clash(e, n) == \E i \in DOMAIN n.ne :
            Len(n.ne[i]) # Len(e.eq)
              /\ SameStart(n.ne[i], e.eq, Least(Len(n.ne[i]), Len(e.eq)))
    IN  CASE Has(m1.eq) /\ m2.ne # <<>> -> clash(m1, m2)
          [] ~(Has(m1.eq) /\ m2.ne # <<>>) /\ Has(m2.eq) /\ m1.ne # <<>> -> clash(m2, m1)
          [] OTHER -> FALSE

Apart(op, m1, m2) ==
    m2.tag # m1.tag \/ m2.op # m1.op \/ op # m2.op \/ Blurred(m1, m2)

\* bitmap4redistributeCombine.  The child at i is met by the one after it,
\* which is combined with it, passed to, or moved to a branch of its own.
RECURSIVE Combine(_, _, _, _)

\* pair is what the leaves at i and i + 1 came to.
Combined(m, i, moved, pair, beyond) ==
    CASE ~pair.ok -> [map |-> Collapse(m), moved |-> moved]
      [] pair.ok /\ m.op = "or" /\ ~IsSpent(pair.m2) ->
            Combine([m EXCEPT !.kids[i] = pair.m1, !.kids[i + 1] = pair.m2],
                    i + 1, moved, beyond)
      [] OTHER ->
            Combine([m EXCEPT !.kids = RemoveAt([@ EXCEPT ![i] = pair.m1], i + 1)],
                    i, moved, beyond)

Combine(m, i, moved, beyond) ==
    IF i >= Len(m.kids) THEN [map |-> m, moved |-> moved]
    ELSE
    LET left == m.kids[i]
        right == m.kids[i + 1]
    IN  CASE Apart(m.op, left, right) ->
                Combine([m EXCEPT !.kids = RemoveAt(@, i + 1)], i, Append(moved, right), beyond)
          [] ~Apart(m.op, left, right) /\ (left.branch \/ right.branch) ->
                Combine(m, i + 1, moved, beyond)
          [] OTHER ->
                Combined(m, i, moved, CombineLeafs(m.op, left, right, Len(m.kids) - i - 1, beyond), beyond)

\* A map under a parent of the other operator keeps its children as they are.
OtherKind(under, op) == under # "none" /\ under # op

\* bitmap4redistribute.  under is the operator of the parent, "none" at the
\* root; the result is the map's successor, the maps its parent gets besides,
\* and the tag its parent has then.
RECURSIVE Redistribute(_, _, _, _, _)

\* bitmap4redistributeChildren: goes on after the last map the child gave.
RECURSIVE RedistributeChildren(_, _, _)
ChildGave(p, i, r, beyond) ==
    LET kids == [p.kids EXCEPT ![i] = r.map] \o r.more
    IN  RedistributeChildren([p EXCEPT !.kids = kids, !.tag = r.tag],
                             IF r.more = <<>> THEN i + 1 ELSE Len(kids) + 1, beyond)
RedistributeChildren(p, i, beyond) ==
    IF i > Len(p.kids) THEN p
    ELSE ChildGave(p, i, Redistribute(p.kids[i], p.op, p.tag, FALSE, beyond), beyond)

\* With the maps the parent gets: those that were moved out, rewritten too.
Shrunk(m, more, tag, shrink) ==
    LET single == shrink /\ Len(m.kids) = 1
    IN  [map |-> IF single THEN m.kids[1] ELSE m, more |-> more,
         tag |-> IF single THEN TakeTag(tag, m.kids[1]) ELSE tag]

MovedOut(m, rest, shrink) == Shrunk(m, <<rest.map>> \o rest.more, rest.tag, shrink)

Divided(split, op, tag, shrink, beyond) ==
    IF split.moved = <<>> THEN Shrunk(split.map, <<>>, tag, shrink)
    ELSE MovedOut(split.map,
                  Redistribute([Map(op, TRUE, Absent) EXCEPT !.kids = split.moved],
                               op, tag, TRUE, beyond),
                  shrink)

Regroup(kept, under, tag, shrink, beyond) ==
    IF OtherKind(under, kept.op) THEN [map |-> kept, more |-> <<>>, tag |-> tag]
    ELSE Divided(Combine(kept, 1, <<>>, beyond), kept.op, tag, shrink, beyond)

Redistribute(m, under, tag, shrink, beyond) ==
    IF ~m.branch THEN [map |-> m, more |-> <<>>, tag |-> tag]
    ELSE Regroup(RedistributeChildren(m, 1, beyond), under, tag, shrink, beyond)

Rooted(r, op) ==
    IF r.more = <<>> THEN r.map
    ELSE [Map(op, TRUE, r.tag) EXCEPT !.kids = <<r.map>> \o r.more]

RedistributeRoot(m, beyond) == Rooted(Redistribute(m, "none", Absent, TRUE, beyond), m.op)

\* bitmap4redistributeBranch: branches without children become leaves that
\* match nothing, those with one child give way to it.  Under an "and" two
\* children of one tag and unlike operators, the first of them a leaf, are meant
\* to be distributed over each other (bitmap4redistributeLeaf).  Where the one
\* under "or" holds no constant of its own, being a branch, both are dropped and
\* the walk goes on from no child at all: it starts anew, or reads through the
\* null pointer where a third child follows.
Outcome(name) == Map(name, FALSE, Absent)
Ended(m) == m.op \in {"crash", "spread"}

RECURSIVE Settle(_)
Settle(m) ==
    LET Close(p) ==
            CASE Len(p.kids) = 0 -> [p EXCEPT !.branch = FALSE, !.noMatch = TRUE]
              [] Len(p.kids) = 1 -> p.kids[1]
              [] OTHER -> p
        At(p, i) == [p EXCEPT !.kids[i] = Settle(@)]
        RECURSIVE Outer(_, _), Inner(_, _, _)
        Outer(p, i) ==
            IF i > Len(p.kids) THEN Close(p)
            ELSE LET q == At(p, i) IN
                 IF Ended(q.kids[i]) THEN q.kids[i]
                 ELSE IF q.kids[i].branch THEN Outer(q, i + 1) ELSE Inner(q, i, i + 1)
        Inner(p, i, j) ==
            IF j > Len(p.kids) THEN Outer(p, i + 1)
            ELSE LET q == At(p, j)
                     x == q.kids[i]
                     y == q.kids[j]
                     orMap == IF x.op = "and" THEN y ELSE x
                 IN  CASE Ended(y) -> y
                       [] ~Ended(y) /\ p.op = "and" /\ x.tag = y.tag /\ x.op # y.op ->
                            CASE ~IsSpent(orMap) -> Outcome("spread")
                              [] IsSpent(orMap) /\ j < Len(p.kids) -> Outcome("crash")
                              [] OTHER ->
                                    Outer([q EXCEPT !.kids = RemoveAt(RemoveAt(@, j), i),
                                                    !.tag = TakeTag(@, IF x.op = "and" THEN x ELSE y)], 1)
                       [] OTHER -> Inner(q, i, j + 1)
    IN  IF ~m.branch THEN m ELSE Outer(m, 1)

=============================================================================
