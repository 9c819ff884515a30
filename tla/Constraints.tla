----------------------------- MODULE Constraints -----------------------------
(***************************************************************************)
(* What a tag is constrained to (Queries/LeafConstraint.cs), how two       *)
(* constraints on one tag are folded into one (ConstraintMerge.cs), and    *)
(* the records a constraint reaches through the tag (ConstraintSeeker.cs); *)
(* and, first, key values as a query compares them, by three rules over    *)
(* the same bytes:                                                         *)
(*   CompareTo      two constants against each other (ConstraintValue.cs), *)
(*                  when two terms over one tag are folded;                *)
(*   SearchCompare  a stored key against a constant (KeySearch.cs), when a *)
(*                  tag is walked;                                         *)
(*   Holds          a value against a constant (ExpressionEvaluator.cs),   *)
(*                  when a record is tested.                               *)
(* A value is a word of bytes as wide as its column: two for text, one for *)
(* a number.  A constant may be shorter.  The key of an absent value is of *)
(* zero bytes and sorts before every other.                                *)
(***************************************************************************)
EXTENDS Integers, SequencesExt

CONSTANT Pad   \* the blank that keys are padded with

\* Bytes are positive, save in the key of an absent value.
Absent == <<0, 0>>

Prefix(a, n) == SubSeq(a, 1, n)

Common(a, b) == IF Len(a) < Len(b) THEN Len(a) ELSE Len(b)

Less(a, b) ==
    \/ \E i \in 1..Common(a, b) : a[i] < b[i] /\ Prefix(a, i - 1) = Prefix(b, i - 1)
    \/ IsStrictPrefix(a, b)

(* Bytes first, and of two that agree the shorter is less.                 *)
CompareTo(a, b) == IF Less(a, b) THEN -1 ELSE IF a = b THEN 0 ELSE 1

(* A constant that ends in blanks stands for a whole key, padded out; any  *)
(* other for every key that begins with it.                                *)
StandsForWholeKey(c) == c # <<>> /\ Last(c) = Pad

Padded(c, n) == [i \in 1..n |-> IF i <= Len(c) THEN c[i] ELSE Pad]

\* Negative when the key sorts before the constant, zero when it matches.
SearchCompare(key, c) ==
    IF StandsForWholeKey(c) THEN CompareTo(key, Padded(c, Len(key)))
                            ELSE CompareTo(Prefix(key, Common(key, c)), Prefix(c, Common(key, c)))

Operators == {"=", "<>", ">=", "<=", ">", "<"}

(* Whether left op right: four of the six stop at the shorter's width, and *)
(* only the strict two break a tie by width.                               *)
Holds(op, left, right) ==
    LET n == Common(left, right)
        a == Prefix(left, n)
        b == Prefix(right, n)
    IN  CASE op = "="  -> a = b
          [] op = "<>" -> a # b
          [] op = ">=" -> ~Less(a, b)
          [] op = "<=" -> ~Less(b, a)
          [] op = ">"  -> Less(right, left)
          [] op = "<"  -> Less(left, right)

-----------------------------------------------------------------------------
(* A bound, or Open where the range has no end on that side.               *)
Open == [open |-> TRUE, value |-> <<>>, inclusive |-> FALSE]

Bound(v, inclusive) == [open |-> FALSE, value |-> v, inclusive |-> inclusive]

Nothing == [kind |-> "Empty", value |-> <<>>, lower |-> Open, upper |-> Open, out |-> {}]

Exactly(v) == [Nothing EXCEPT !.kind = "Equal", !.value = v]

Range_(lower, upper, out) ==
    [kind |-> "Range", value |-> <<>>, lower |-> lower, upper |-> upper, out |-> out]

From(v, inclusive) == Range_(Bound(v, inclusive), Open, {})

To(v, inclusive) == Range_(Open, Bound(v, inclusive), {})

Excluding(v) == Range_(Open, Open, {v})

Above(lower, v) ==
    \/ lower.open
    \/ CompareTo(v, lower.value) > 0
    \/ v = lower.value /\ lower.inclusive

Below(upper, v) ==
    \/ upper.open
    \/ CompareTo(v, upper.value) < 0
    \/ v = upper.value /\ upper.inclusive

Within(lower, upper, v) == Above(lower, v) /\ Below(upper, v)

\* Whether a constraint admits a value, by the rule constants are compared by.
Accepts(k, v) ==
    CASE k.kind = "Empty" -> FALSE
      [] k.kind = "Equal" -> v = k.value
      [] k.kind = "Range" -> Within(k.lower, k.upper, v) /\ v \notin k.out

-----------------------------------------------------------------------------
(* Of two bounds on one side, the one that admits less, or more.           *)
Narrower(a, b, isLower) ==
    CASE a.open -> b
      [] ~a.open /\ b.open -> a
      [] OTHER -> IF a.value = b.value THEN Bound(a.value, a.inclusive /\ b.inclusive)
                  ELSE IF (CompareTo(a.value, b.value) > 0) = isLower THEN a ELSE b

Wider(a, b, isLower) ==
    CASE a.open \/ b.open -> Open
      [] OTHER -> IF a.value = b.value THEN Bound(a.value, a.inclusive \/ b.inclusive)
                  ELSE IF (CompareTo(a.value, b.value) < 0) = isLower THEN a ELSE b

\* An inclusive end whose own value is struck out moves past it.
Tightened(b, out) == IF ~b.open /\ b.inclusive /\ b.value \in out
                     THEN Bound(b.value, FALSE) ELSE b

(* A range in its simplest true form: ends that crossed admit nothing,     *)
(* ends that met are one value.                                            *)
Narrow(lower, upper, out) ==
    LET l == Tightened(lower, out)
        u == Tightened(upper, out)
        order == CompareTo(l.value, u.value)
    IN  CASE ~l.open /\ ~u.open /\ order > 0 -> Nothing
          [] ~l.open /\ ~u.open /\ order = 0 ->
                IF l.inclusive /\ u.inclusive THEN Exactly(l.value) ELSE Nothing
          [] OTHER -> Range_(l, u, {v \in out : Within(l, u, v)})

And(a, b) ==
    CASE a.kind = "Empty" \/ b.kind = "Empty" -> Nothing
      [] a.kind = "Equal" /\ b.kind # "Empty" -> IF Accepts(b, a.value) THEN a ELSE Nothing
      [] a.kind = "Range" /\ b.kind = "Equal" -> IF Accepts(a, b.value) THEN b ELSE Nothing
      [] a.kind = "Range" /\ b.kind = "Range" ->
            Narrow(Narrower(a.lower, b.lower, TRUE), Narrower(a.upper, b.upper, FALSE), a.out \cup b.out)

Unbounded(k) == k.kind = "Range" /\ k.lower.open /\ k.upper.open

LowEnd(k)  == IF k.kind = "Equal" THEN Bound(k.value, TRUE) ELSE k.lower
HighEnd(k) == IF k.kind = "Equal" THEN Bound(k.value, TRUE) ELSE k.upper

\* Mutant: two ranges that both stop short of a value are taken to touch at it.
ReachesOver(upper, lower) ==
    upper.open \/ lower.open \/ CompareTo(upper.value, lower.value) >= 0

\* Whether nothing lies between an upper end and a lower one.
Reaches(upper, lower) ==
    \/ upper.open \/ lower.open
    \/ CompareTo(upper.value, lower.value) > 0
    \/ upper.value = lower.value /\ (upper.inclusive \/ lower.inclusive)

Joined(lower, upper) ==
    IF ~lower.open /\ ~upper.open /\ lower.inclusive /\ upper.inclusive /\ lower.value = upper.value
    THEN Exactly(lower.value) ELSE Range_(lower, upper, {})

(* The union as one constraint, in a set that is empty where it is none.   *)
Or(a, b) ==
    CASE a.kind = "Empty" -> {b}
      [] a.kind # "Empty" /\ b.kind = "Empty" -> {a}
      [] a.kind # "Empty" /\ b.kind # "Empty" ->
            CASE Unbounded(a) /\ Unbounded(b) -> {Range_(Open, Open, a.out \cap b.out)}
              [] ~(Unbounded(a) /\ Unbounded(b)) /\ a.out \cup b.out # {} -> {}
              [] OTHER -> IF Reaches(HighEnd(a), LowEnd(b)) /\ Reaches(HighEnd(b), LowEnd(a))
                          THEN {Joined(Wider(LowEnd(a), LowEnd(b), TRUE), Wider(HighEnd(a), HighEnd(b), FALSE))}
                          ELSE {}

-----------------------------------------------------------------------------
(* A tag's entries are in stored order, by key and then by record.         *)

\* Where a descent for a constant lands: the first key that is not below it.
LandsAt(entries, c) ==
    Min({i \in DOMAIN entries : SearchCompare(entries[i].key, c) >= 0} \cup {Len(entries) + 1})

\* The entries walked from the i-th up to the first that Stop holds of.
WalkedFrom(entries, i, Stop(_)) ==
    {j \in i..Len(entries) : \A m \in i..j : ~Stop(entries[m].key)}

Matching(entries, c) ==
    {entries[j].rec : j \in WalkedFrom(entries, LandsAt(entries, c),
                                       LAMBDA key : SearchCompare(key, c) # 0)}

PastUpper(k, key) ==
    /\ ~k.upper.open
    /\ \/ SearchCompare(key, k.upper.value) > 0
       \/ SearchCompare(key, k.upper.value) = 0 /\ ~k.upper.inclusive

AtExclusiveLower(k, key) ==
    ~k.lower.open /\ ~k.lower.inclusive /\ SearchCompare(key, k.lower.value) = 0

Between(entries, k) ==
    LET start == IF k.lower.open THEN 1 ELSE LandsAt(entries, k.lower.value)
        kept  == {j \in WalkedFrom(entries, start, LAMBDA key : PastUpper(k, key)) :
                    /\ ~AtExclusiveLower(k, entries[j].key)
                    /\ \A v \in k.out : SearchCompare(entries[j].key, v) # 0}
    IN  {entries[j].rec : j \in kept}

(* The records a constraint admits, of a table of count records.  One that *)
(* only strikes values out is answered by what it leaves out.              *)
RecordsOf(k, entries, count) ==
    LET only == Unbounded(k) /\ k.out # {}
        named == CASE k.kind = "Empty" -> {}
                   [] k.kind = "Equal" -> Matching(entries, k.value)
                   [] k.kind = "Range" -> IF only THEN UNION {Matching(entries, v) : v \in k.out}
                                                  ELSE Between(entries, k)
    IN  IF only THEN (1..count) \ named ELSE (1..count) \cap named
=============================================================================
