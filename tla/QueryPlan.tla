------------------------------ MODULE QueryPlan ------------------------------
(***************************************************************************)
(* How a filter becomes the records worth reading: the terms that a tag    *)
(* answers (Queries/QueryDecomposer.cs), the tree of constraints they      *)
(* make, its leaves folded per tag, the records the tree reaches           *)
(* (QueryExecutor.cs) and the terms left to test (ResidualFilter.cs).      *)
(*                                                                         *)
(* A filter is a tree: a comparison of a column and a constant, either     *)
(* side first; .AND. and .OR. of a sequence; .NOT.  A database is a        *)
(* sequence of rows and its tags.  Subtrees are named by their path.       *)
(***************************************************************************)
EXTENDS Constraints

CONSTANT Scope   \* the tags a caller allows: "Compatible" or "AllSeekable"

Term(op, column, constant, reflected) ==
    [kind |-> "term", op |-> op, column |-> column, constant |-> constant, reflected |-> reflected]

Both(filters)   == [kind |-> "and", args |-> filters]
Either(filters) == [kind |-> "or", args |-> filters]
Not(filter)     == [kind |-> "not", arg |-> filter]

-----------------------------------------------------------------------------
(* A comparison with an absent value is absent, and yet says something.    *)
(* Connectives heed only what their operands say; negation keeps absence.  *)
RECURSIVE Evaluate(_, _)
Evaluate(f, row) ==
    CASE f.kind = "term" ->
            LET v == row[f.column]
            IN  IF v = Absent THEN [absent |-> TRUE, says |-> f.op = "<>"]
                ELSE [absent |-> FALSE,
                      says |-> IF f.reflected THEN Holds(f.op, f.constant, v) ELSE Holds(f.op, v, f.constant)]
      [] f.kind = "and" -> [absent |-> FALSE, says |-> \A i \in DOMAIN f.args : Evaluate(f.args[i], row).says]
      [] f.kind = "or"  -> [absent |-> FALSE, says |-> \E i \in DOMAIN f.args : Evaluate(f.args[i], row).says]
      [] f.kind = "not" -> LET v == Evaluate(f.arg, row) IN [v EXCEPT !.says = ~v.absent /\ ~v.says]

IsTrue(f, row) == Evaluate(f, row) = [absent |-> FALSE, says |-> TRUE]

-----------------------------------------------------------------------------
(* A tag: its column, the kind and length of its keys, whether it leaves   *)
(* records out or is collated, its direction and its entries.              *)

Allows(tag) ==
    /\ ~tag.filtered /\ ~tag.unique /\ ~tag.collated
    /\ Scope = "AllSeekable" \/ tag.kind \notin {"Int32", "Currency", "DateTime"}

\* A number is a byte, in halves: an integer key expresses the even ones.
CanExpress(tag, c) == tag.kind = "Int32" => c[1] % 2 = 0

InTheTagsDomain(tag, c) == IF tag.kind = "Int32" THEN <<c[1] - (c[1] % 2)>> ELSE c

Widens(tag, c) == tag.kind = "Character" /\ Len(c) < tag.length

Constrain(t, tag) ==
    LET c == t.constant
    IN  CASE t.op = "<>" -> Excluding(c)
          [] t.op = "="  -> Exactly(c)
          [] t.op = ">=" -> IF t.reflected THEN To(c, TRUE) ELSE From(c, TRUE)
          [] t.op = "<=" -> IF t.reflected THEN From(c, TRUE) ELSE To(c, TRUE)
          [] t.op = ">"  -> IF t.reflected THEN To(c, FALSE) ELSE From(c, Widens(tag, c))
          [] t.op = "<"  -> IF t.reflected THEN From(c, Widens(tag, c)) ELSE To(c, FALSE)

Leaf(g, constraint, sources) == [kind |-> "leaf", tag |-> g, constraint |-> constraint, sources |-> sources]

Branch(kind, children) == [kind |-> kind, children |-> children]

\* Whether a tag's key expression is the very one that a term compares.
IsKeyOf(tag, column) == tag.column = column

\* The first of the tags that match and may be used, in a set empty if none does.
FirstMatch(column, tags) ==
    LET matching == {g \in DOMAIN tags : Allows(tags[g]) /\ IsKeyOf(tags[g], column)}
    IN  {g \in matching : \A h \in matching : g <= h}

\* The node of a comparison in a sequence, empty where no tag answers it.
VisitComparison(t, path, tags) ==
    LET able == {g \in FirstMatch(t.column, tags) : CanExpress(tags[g], t.constant)}
    IN  SetToSeq({Leaf(g, Constrain(t, tags[g]), {path}) : g \in able})

Collapsed(kind, children) ==
    IF Len(children) < 2 THEN children ELSE <<Branch(kind, children)>>

\* Mutant: an .OR. keeps what it could map, as an .AND. may.
ConnectiveKeeping(kind, visited) == Collapsed(kind, FlattenSeq(visited))

(* What a connective makes of its operands: an .OR. with one that no tag   *)
(* answers is given up, an .AND. keeps the others.                         *)
Connective(kind, visited) ==
    IF kind = "or" /\ \E i \in DOMAIN visited : visited[i] = <<>> THEN <<>>
    ELSE Collapsed(kind, FlattenSeq(visited))

RECURSIVE Visit(_, _, _)
Visit(f, path, tags) ==
    CASE f.kind = "term" -> VisitComparison(f, path, tags)
      [] f.kind = "not"  -> <<>>
      [] OTHER -> Connective(f.kind, Reverse([i \in DOMAIN f.args |-> Visit(f.args[i], Append(path, i), tags)]))

-----------------------------------------------------------------------------
Together(kind, a, b) == IF kind = "and" THEN {And(a, b)} ELSE Or(a, b)

RECURSIVE Absorb(_, _, _, _)
Absorb(standing, i, leaf, kind) ==
    IF i = 0 THEN Append(standing, leaf)
    ELSE LET together == Together(kind, standing[i].constraint, leaf.constraint)
         IN  IF together = {} THEN Absorb(standing, i - 1, leaf, kind)
             ELSE Absorb(RemoveAt(standing, i), i - 1,
                         Leaf(leaf.tag, CHOOSE k \in together : TRUE, standing[i].sources \cup leaf.sources), kind)

\* Each leaf meets those before it, the nearest first.
Fold(leaves, kind) == FoldLeft(LAMBDA standing, leaf : Absorb(standing, Len(standing), leaf, kind), <<>>, leaves)

IsLeaf(node) == node.kind = "leaf"

FoldedPerTag(leaves, kind) ==
    LET ofTag(g) == SelectSeq(leaves, LAMBDA leaf : leaf.tag = g)
        tags == SetToSortSeq({leaves[i].tag : i \in DOMAIN leaves}, <)
    IN  FlattenSeq([n \in DOMAIN tags |-> Fold(ofTag(tags[n]), kind)])

RECURSIVE Merged(_)
Merged(node) ==
    IF IsLeaf(node) THEN node
    ELSE LET branches == SelectSeq(node.children, LAMBDA child : ~IsLeaf(child))
             leaves == SelectSeq(node.children, IsLeaf)
         IN  Head(Collapsed(node.kind, [i \in DOMAIN branches |-> Merged(branches[i])] \o FoldedPerTag(leaves, node.kind)))

RECURSIVE Leaves(_)
Leaves(node) == IF IsLeaf(node) THEN {node} ELSE UNION {Leaves(node.children[i]) : i \in DOMAIN node.children}

RECURSIVE AllMapped(_, _)
AllMapped(f, tags) ==
    CASE f.kind = "term" -> VisitComparison(f, <<>>, tags) # <<>>
      [] f.kind = "not"  -> FALSE
      [] OTHER -> \A i \in DOMAIN f.args : AllMapped(f.args[i], tags)

(* The plan: a tree in a sequence, empty where no tag helps; whether every *)
(* term is in it; and the terms that a leaf answers.                       *)
Decompose(f, tags) ==
    LET visited == Visit(f, <<>>, tags)
        root == [i \in DOMAIN visited |-> Merged(visited[i])]
    IN  [root |-> root,
         fullyMapped |-> root # <<>> /\ AllMapped(f, tags),
         trusted |-> UNION {UNION {leaf.sources : leaf \in Leaves(root[i])} : i \in DOMAIN root}]

-----------------------------------------------------------------------------
Keyed(tag, k) ==
    LET to(b) == IF b.open THEN b ELSE [b EXCEPT !.value = InTheTagsDomain(tag, b.value)]
    IN  CASE k.kind = "Empty" -> k
          [] k.kind = "Equal" -> [k EXCEPT !.value = InTheTagsDomain(tag, @)]
          [] k.kind = "Range" -> Range_(to(k.lower), to(k.upper), {InTheTagsDomain(tag, v) : v \in k.out})

RECURSIVE Reach(_, _, _)
Reach(node, tags, count) ==
    LET child(i) == Reach(node.children[i], tags, count)
    IN  CASE IsLeaf(node) -> RecordsOf(Keyed(tags[node.tag], node.constraint), tags[node.tag].entries, count)
          [] node.kind = "and" -> {r \in 1..count : \A i \in DOMAIN node.children : r \in child(i)}
          [] node.kind = "or"  -> UNION {child(i) : i \in DOMAIN node.children}

Candidates(root, tags, count) == IF root = <<>> THEN 1..count ELSE Reach(root[1], tags, count)

(* The operands of the outermost .AND., or the whole filter, that no leaf  *)
(* answers.                                                                *)
ResidualTerms(f, plan) ==
    CASE plan.fullyMapped -> {}
      [] ~plan.fullyMapped /\ f.kind = "and" -> {f.args[i] : i \in {j \in DOMAIN f.args : <<j>> \notin plan.trusted}}
      [] ~plan.fullyMapped /\ f.kind # "and" -> IF <<>> \in plan.trusted THEN {} ELSE {f}

Admits(terms, row) == \A t \in terms : IsTrue(t, row)
=============================================================================
