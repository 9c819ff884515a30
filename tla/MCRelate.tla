------------------------------ MODULE MCRelate ------------------------------
(***************************************************************************)
(* Small relation sets for TLC: a top file alone, with one slave, with two *)
(* side by side and with two in a chain; and, in the same run, queries of  *)
(* one table that bitmaps answer (BitmapQuery).  part says which of the    *)
(* two a behaviour is of.                                                  *)
(***************************************************************************)
EXTENDS RelationSet

Entries(key) ==
  SortSeq(SetToSeq({[key |-> key[r], rec |-> r] : r \in {q \in DOMAIN key : key[q] # 0}}),
          Before)

File(key, sel, desc) ==
  [n |-> Len(key), key |-> key, ents |-> Entries(key), desc |-> desc, sel |-> sel]

NoFlags == [on |-> FALSE, set |-> {}, flip |-> FALSE]

(* The relation of no query, no flags and no sort over the slaves given. *)
Plain(slaves, master, kind, act, tag, link, f) ==
  [slaves |-> slaves, master |-> master, kind |-> kind, act |-> act, tag |-> tag,
   link |-> link, f |-> f, query |-> << >>, ok |-> [n \in DOMAIN kind |-> {}],
   flags |-> NoFlags, full |-> FALSE, sort |-> 0]

TopFiles == {File(<<2, 1, 2>>, FALSE, FALSE), File(<<2, 1, 2>>, TRUE, FALSE), File(<<2, 1, 2>>, TRUE, TRUE)}

Lone(f) == Plain(<<<< >>>>, <<0>>, <<"exact">>, <<"blank">>, <<FALSE>>, <<<< >>>>, <<f>>)

(* The query on the top file, with flags that leave out none of its records. *)
Queried(k, S) ==
  {[k EXCEPT !.query = <<Top>>, !.ok[Top] = S, !.flags = g, !.full = g.on /\ g.set = S] :
     g \in {NoFlags} \cup [on : {TRUE}, set : {S, S \cup {3}, 1..3}, flip : BOOLEAN]}

(* The first byte of a turned bitmap has a bit: f4flagGetNextFlip takes a
   byte without one for a byte without records, see FlippedSet. *)
FirstByteKept(k) == k.flags.flip => ~(1..Byte - 1 \subseteq k.flags.set)

(* No slave leaves out records beside, or above, a scan slave, see SkippingSet. *)
SkipsAlone(k) ==
  \A n, m \in Nodes(k) :
     n # m /\ n # Top /\ k.act[n] = "skip" /\ k.kind[m] = "scan" => n \in Below(k, m)

SortedBy(k, S) == {[k EXCEPT !.sort = n] : n \in S}

LoneSet ==
  UNION {SortedBy(r, {0, 1}) :
     r \in UNION {{Lone(f)} \cup UNION {Queried(Lone(f), S) : S \in SUBSET (1..3)} : f \in TopFiles}}

Looks == [kind : {"scan", "exact", "approx"}, act : {"blank", "skip", "terminate"}, tag : BOOLEAN]
Usable(l) == (l.kind = "scan" => l.tag) /\ (l.kind = "approx" => l.act = "blank")

Single(f, g, l, link) ==
  Plain(<<<<2>>, << >>>>, <<0, 1>>, <<"exact", l.kind>>, <<"blank", l.act>>, <<FALSE, l.tag>>,
        <<<< >>, 0 :> 0 @@ link>>, <<f, g>>)

SlaveFile(desc) == File(<<1, 2, 1>>, TRUE, desc)
Tops2 == {File(<<2, 1>>, FALSE, FALSE), File(<<2, 1>>, TRUE, FALSE)}

OnNode(k, n, S) == [k EXCEPT !.query = <<n>>, !.ok[n] = S]

SingleSet ==
  LET K == {Single(f, SlaveFile(desc), l, link) :
              f \in Tops2, desc \in BOOLEAN, l \in {x \in Looks : Usable(x)},
              link \in {<<1, 3>>, <<2, 1>>}}
  IN  UNION {SortedBy(k, {0, 1, 2}) \cup {OnNode(k, 1, {2}), OnNode(k, 2, {1}), OnNode(k, 2, {0, 3})} : k \in K}

Two(slaves, master, l2, l3, link2, link3) ==
  Plain(slaves, master, <<"exact", l2.kind, l3.kind>>, <<"blank", l2.act, l3.act>>,
        <<FALSE, l2.tag, l3.tag>>, <<<< >>, 0 :> 0 @@ link2, 0 :> 0 @@ link3>>,
        <<File(<<2, 1>>, FALSE, FALSE), SlaveFile(FALSE), File(<<1, 1>>, TRUE, FALSE)>>)

Scan == [kind |-> "scan", act |-> "blank", tag |-> TRUE]
Exact == [kind |-> "exact", act |-> "blank", tag |-> TRUE]
Skips(l) == [l EXCEPT !.act = "skip"]
Looks2 == {Scan, Exact, Skips(Scan), Skips(Exact)}

ForkSet ==
  {Two(<<<<2, 3>>, << >>, << >>>>, <<0, 1, 1>>, a, b, x, y) :
     a \in Looks2, b \in Looks2, x \in {<<1, 3>>, <<3, 1>>}, y \in {<<1, 3>>, <<1, 1>>}}
ChainSet ==
  {Two(<<<<2>>, <<3>>, << >>>>, <<0, 1, 2>>, a, b, x, y) :
     a \in Looks2, b \in Looks2, x \in {<<1, 3>>, <<1, 1>>}, y \in {<<1, 1, 3>>, <<3, 3, 3>>, <<1, 3, 1>>}}

Asking(k) == {k, OnNode(k, 2, {1}), OnNode(k, 3, {0, 2}), [k EXCEPT !.sort = 3]}
TwoSet == UNION {Asking(k) : k \in {x \in ForkSet \cup ChainSet : SkipsAlone(x)}}

MCRelations == {k \in LoneSet : FirstByteKept(k)} \cup SingleSet \cup TwoSet

(* The relations that are kept out of the run. *)
FlippedSet == {k \in LoneSet : ~FirstByteKept(k)}
SkippingSet == {k \in ForkSet : ~SkipsAlone(k) /\ k.kind[2] = "scan" /\ k.kind[3] = "exact"}

-----------------------------------------------------------------------------
(* Tables and queries for BitmapQuery: a numeric tag xt with one-place     *)
(* keys and a character tag yt with two-place keys.                        *)
CONSTANTS xt, yt, Absent, Beyond

TwoTags == {xt, yt}
KeyLens == (xt :> 1) @@ (yt :> 2)

Keys(x, y, z) == (xt :> <<x>>) @@ (yt :> <<y, z>>)
FewTables ==
    { <<>>,
      << Keys(4, 3, 1), Keys(2, 1, 2), Keys(2, 3, 2) >>,
      << Keys(1, 1, 1), Keys(3, 2, 1), Keys(4, 1, 2), Keys(5, 3, 1), Keys(2, 2, 2), Keys(3, 1, 2) >>,
      << Keys(4, 2, 2), Keys(4, 2, 1), Keys(5, 3, 1) >> }

Comparisons == {"lt", "le", "gt", "ge", "eq", "ne"}
Is(cmp, t, con) == [kind |-> "cmp", cmp |-> cmp, tag |-> t, con |-> con, left |-> FALSE]
OnX == {Is(d, xt, k) : d \in Comparisons, k \in {<<2>>, <<4>>}}
OnY(cons) == {Is(d, yt, k) : d \in Comparisons, k \in cons}
Short == {<<2>>, <<3>>}
Long == {<<2, 1>>, <<3, 1>>}
Other == [kind |-> "other", true |-> {1, 3}]
Joined(kind, parms) == [kind |-> kind, parms |-> parms]
Seqs2(S, T) == {<<a, b>> : a \in S, b \in T}
Seqs3(S, T, U) == {<<x, y, z>> : x \in S, y \in T, z \in U}

Flat ==
    {Joined("and", p) : p \in Seqs3(OnX, OnX, OnX) \union Seqs3(OnX, OnX, OnY(Long) \union {Other})
                              \union Seqs2(OnY(Short), OnY(Short)) \union Seqs2(OnY(Long), OnY(Long))}
    \union
    {Joined("or", p) : p \in Seqs2(OnX, OnX) \union Seqs2(OnY(Short), OnY(Short))
                             \union Seqs2(OnX, OnY(Long) \union {Other})}

\* A join within a join, on either side; and one more level of them.
Few == {Is(d, xt, <<k>>) : d \in {"le", "gt", "ne"}, k \in {2, 4}}
FewY == {Is(d, yt, <<2, 1>>) : d \in {"lt", "eq"}}
Inner == {Joined(k, p) : k \in {"and", "or"}, p \in Seqs2(Few, Few \union FewY \union {Other})}
Nested ==
    {Joined(k, p) : k \in {"and", "or"}, p \in Seqs2(Inner, Few \union FewY) \union Seqs2(Few, Inner)}
Deep ==
    {Joined(k, IF turned THEN <<Joined(j, <<b, Joined(i, <<x, y>>)>>), a>>
               ELSE <<a, Joined(j, <<b, Joined(i, <<x, y>>)>>)>>) :
        turned \in BOOLEAN, k \in {"and", "or"}, j \in {"and", "or"}, i \in {"and", "or"},
        a \in {Is("gt", xt, <<2>>), Is("ne", xt, <<4>>)}, b \in Few \union FewY,
        x \in {Is("eq", xt, <<4>>), Is("lt", yt, <<2, 1>>)}, y \in {Other, Is("le", xt, <<2>>), Is("eq", yt, <<3, 1>>)}}

\* The constant first, in the first comparison or in the second.
Swapped(e) == [e EXCEPT !.left = TRUE]
FirstSwapped == {Joined("and", <<Swapped(a), b>>) : a \in OnX \union OnY(Short), b \in OnX \union OnY(Short)}
SecondSwapped == {Joined("and", <<a, Swapped(b)>>) : a \in OnX, b \in OnX \union OnY(Short)}

Queries1 == Flat \union Nested \union Deep \union FirstSwapped

\* A bound from above joined by "or" to one from below on the same tag, at
\* whatever depth.
RECURSIVE Parts(_, _)
Parts(e, kind) ==
    IF e.kind # kind THEN {e} ELSE UNION {Parts(e.parms[i], kind) : i \in DOMAIN e.parms}
RECURSIVE TwoSided(_)
TwoSided(e) ==
    /\ e.kind \in {"and", "or"}
    /\ \/ \E i \in DOMAIN e.parms : TwoSided(e.parms[i])
       \/ \E p, q \in Parts(e, "or") :
             /\ p.kind = "cmp" /\ q.kind = "cmp" /\ p.tag = q.tag
             /\ p.cmp \in {"lt", "le"} /\ q.cmp \in {"gt", "ge"}
\* An "or" with a part that gives way to a child of its own while the tree is
\* rewritten, and so takes over that child's tag: an "or" in it, or an "and" of
\* which one part alone is mapped.
RECURSIVE TakesATag(_)
TakesATag(e) ==
    /\ e.kind \in {"and", "or"}
    /\ \E i \in DOMAIN e.parms :
          \/ TakesATag(e.parms[i])
          \/ e.kind = "or" /\ e.parms[i].kind = "or"
          \/ /\ e.kind = "or" /\ e.parms[i].kind = "and"
             /\ Cardinality({j \in DOMAIN e.parms[i].parms : e.parms[i].parms[j].kind # "other"}) = 1

(* The queries that lose no record, and those of which some do. *)
Safe == {e \in Queries1 : ~TwoSided(e) /\ ~TakesATag(e)}
Sides == {e \in Flat : TwoSided(e)}
TaggedBranches == {e \in Deep : TakesATag(e) /\ ~TwoSided(e)}
Lengths == {Joined("and", <<a, b>>) : a \in OnY(Short), b \in OnY(Long)}

-----------------------------------------------------------------------------
VARIABLES part, query, table, beyond, stage, map, fully, found

B == INSTANCE BitmapQuery WITH
       Tags <- TwoTags, KeyLen <- KeyLens, Tables <- FewTables, Queries <- Safe

bvars == <<query, table, beyond, stage, map, fully, found>>

NoQuery == query = << >> /\ table = << >> /\ beyond = FALSE /\ stage = "none"
           /\ map = << >> /\ fully = FALSE /\ found = << >>
NoRelation == c = [act |-> <<"blank">>] /\ rows = << >> /\ s = << >> /\ rc = "none"

MCInit ==
  \/ part = "relation" /\ Init /\ NoQuery
  \/ part = "bitmap" /\ B!Init /\ NoRelation

MCNext ==
  \/ part = "relation" /\ Next /\ UNCHANGED <<part, bvars>>
  \/ part = "bitmap" /\ B!Next /\ UNCHANGED <<part, vars>>

MCSpec == MCInit /\ [][MCNext]_<<part, vars, bvars>>

(* No matching record is left out by the maps and the tags (BitmapQuery).    *)
NothingIsMissed == part = "bitmap" => B!NothingIsMissed

(* A count taken from the flags is the count of the records that match       *)
(* (BitmapQuery).                                                            *)
CountIsTheMatches == part = "bitmap" => B!CountIsTheMatches

(* A count is the number of rows (RelationSet).                              *)
CountsTheRows == part = "relation" => CountIsTheRows

(* relate4doAll gives what relate4top gives (RelationSet).                   *)
DoAllGivesTheFirst == part = "relation" => DoAllIsTheFirst
=============================================================================
