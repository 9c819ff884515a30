------------------------- MODULE RecordCursorProofs -------------------------
(***************************************************************************)
(* For any files, keys, bounds and skips, and programs that set no         *)
(* position while the blocks of the tag are out of date (~Jumps): a seek   *)
(* misses no match (SeeksMissNothing), d4seekNext goes to the next one     *)
(* (SeeksGoToTheNext), and a walk from either end meets every record that  *)
(* stands still, once and in order (WalksMeetEveryone).                    *)
(***************************************************************************)
EXTENDS RecordCursor, FiniteSetTheorems, WellFoundedInduction, TLAPS

(* What the operators of DataFile work on: a file, and a place in it. *)
EntryType == [key : Nat, rec : 1..MaxRec]
FileType == [n : 0..MaxRec, key : [1..MaxRec -> Nat], ents : Seq(EntryType),
             desc : BOOLEAN, sel : BOOLEAN]
Place(f) == [rec : {-1} \cup (Nat \ {0}), bof : BOOLEAN, eof : BOOLEAN, buf : Nat,
             at : 1..(Len(f.ents) + 1)]

TypeOK ==
  /\ file \in FileType
  /\ tag \in Seq(EntryType)
  /\ stale \in BOOLEAN /\ mine \in BOOLEAN
  /\ d \in Place(Seen(tag))
  /\ call = [op |-> call.op, arg |-> call.arg, rc |-> call.rc]
  /\ walk \in [dir : {-1, 0, 1}, met : Seq({-1} \cup (Nat \ {0})), steady : SUBSET Nat, over : BOOLEAN]

(* The entries are in order, one of a record, and those of records that
   nobody is changing are sound and complete.  On a descending tag none is
   ahead of its record. *)
InOrder(ents) == \A i, j \in DOMAIN ents : i < j => Before(ents[i], ents[j])
OneEach(ents) == \A i, j \in DOMAIN ents : ents[i].rec = ents[j].rec => i = j
TagTrue ==
  /\ InOrder(file.ents) /\ OneEach(file.ents)
  /\ \A i \in DOMAIN file.ents : file.ents[i].rec # half.rec => Sound(i)
  /\ \A r \in (1..file.n) \ {half.rec} : \E i \in DOMAIN file.ents : file.ents[i].rec = r
  /\ file.desc => \A i \in DOMAIN file.ents : file.ents[i].rec <= file.n
  /\ ~stale => tag = file.ents

(* What the other user has begun and not written. *)
HalfTrue ==
  \/ half = NoHalf
  \/ /\ ~mine
     /\ half.rec \in 1..MaxRec /\ half.rec <= file.n + 1 /\ half.key \in Nat
     /\ half.left \in (SUBSET {"data", "tag"}) \ {{}}
     /\ "data" \notin half.left => half.rec <= file.n /\ file.key[half.rec] = half.key
     /\ "tag" \notin half.left =>
          \E i \in DOMAIN file.ents : file.ents[i] = [key |-> half.key, rec |-> half.rec]

------------------------------------------------------------------------------
(* Numbers: a set of them has a least one, and one that is bounded a        *)
(* greatest.                                                                *)
LEMMA LeastIs ==
  ASSUME NEW S, S \subseteq Nat, S # {}
  PROVE  Min(S) \in S /\ \A x \in S : Min(S) <= x
<1>1. PICK m \in S : \A x \in S : ~(<<x, m>> \in OpToRel(<, Nat))
  BY NatLessThanWellFounded, WFMin
<1>2. \A x \in S : ~(x < m)
  BY <1>1 DEF OpToRel
<1>3. m \in S /\ \A x \in S : m <= x
  BY <1>2
<1> QED BY <1>3 DEF Min

LEMMA GreatestIs ==
  ASSUME NEW n \in Nat, NEW S, S \subseteq 0..n, S # {}
  PROVE  Max(S) \in S /\ \A x \in S : x <= Max(S)
<1> DEFINE T == {n - x : x \in S}
<1>0. \A x \in S : x \in 0..n
  OBVIOUS
<1>1. T \subseteq Nat /\ T # {}
  <2>1. \A x \in S : n - x \in Nat
    BY <1>0
  <2> QED BY <2>1
<1>2. Min(T) \in T /\ \A y \in T : Min(T) <= y
  BY <1>1, LeastIs
<1>3. PICK m \in S : Min(T) = n - m
  BY <1>2
<1>4. \A x \in S : n - x \in T /\ x \in 0..n /\ m \in 0..n
  OBVIOUS
<1> HIDE DEF T
<1>5. \A x \in S : x <= m
  BY <1>2, <1>3, <1>4
<1> QED BY <1>5 DEF Max

------------------------------------------------------------------------------
(* The operators of DataFile leave a place in the file.                     *)

LEMMA TagRecIs ==
  ASSUME NEW f \in FileType, NEW e \in Place(f)
  PROVE  /\ Len(f.ents) \in Nat
         /\ TagRec(f, e) \in {-1} \cup 1..MaxRec
         /\ ~TagEof(f, e) => e.at \in 1..Len(f.ents) /\ TagRec(f, e) = f.ents[e.at].rec
                             /\ f.ents[e.at] \in EntryType /\ TagRec(f, e) \in 1..MaxRec
         /\ TagEof(f, e) => TagRec(f, e) = -1
<1>1. f.ents \in Seq(EntryType) /\ e.at \in 1..(Len(f.ents) + 1)
  BY DEF FileType, Place
<1>2. Len(f.ents) \in Nat /\ (~(e.at > Len(f.ents)) => e.at \in 1..Len(f.ents) /\ f.ents[e.at] \in EntryType)
  BY <1>1
<1>3. \A x \in EntryType : x.rec \in 1..MaxRec
  BY DEF EntryType
<1> QED BY <1>1, <1>2, <1>3 DEF TagRec, TagEof

LEMMA LastIs ==
  ASSUME NEW f \in FileType
  PROVE  LastOr1(f) \in 1..(Len(f.ents) + 1)
         /\ (f.ents # << >> => Len(f.ents) \in Nat \ {0} /\ LastOr1(f) = Len(f.ents))
BY DEF FileType, LastOr1

LEMMA GoPlace ==
  ASSUME NEW f \in FileType, NEW e \in Place(f), NEW r \in Int
  PROVE  /\ Go(f, e, r).d \in Place(f) /\ Go(f, e, r).rc \in {"ok", "entry"}
         /\ Go(f, e, r).d.at = e.at
         /\ Go(f, e, r).rc = "ok" <=> r \in 1..f.n
         /\ r \in 1..f.n => Go(f, e, r).d = [e EXCEPT !.rec = r, !.buf = f.key[r], !.bof = FALSE, !.eof = FALSE]
<1>1. f.key \in [1..MaxRec -> Nat] /\ f.n \in Nat /\ f.n <= MaxRec /\ MaxRec \in Nat
  BY BoundAssumption DEF FileType
<1>2. CASE r \in 1..f.n
  <2> DEFINE x == [e EXCEPT !.rec = r, !.buf = f.key[r], !.bof = FALSE, !.eof = FALSE]
  <2>1. f.key[r] \in Nat /\ r \in Nat \ {0} /\ r \in 1..f.n
    BY <1>1, <1>2
  <2>2. Go(f, e, r) = [d |-> x, rc |-> "ok"]
    BY <1>1, <1>2 DEF Go, Res
  <2>3. x \in Place(f) /\ x.at = e.at
    BY <2>1 DEF Place
  <2> HIDE DEF x
  <2>4. Go(f, e, r).d \in Place(f) /\ Go(f, e, r).d.at = e.at /\ Go(f, e, r).d = x /\ Go(f, e, r).rc = "ok"
    BY <2>2, <2>3
  <2> QED BY <1>2, <2>4 DEF x
<1>3. CASE r \notin 1..f.n
  <2> DEFINE x == [e EXCEPT !.rec = -1, !.buf = 0]
  <2>2. Go(f, e, r) = [d |-> x, rc |-> "entry"]
    BY <1>1, <1>3 DEF Go, Res
  <2>3. x \in Place(f) /\ x.at = e.at
    BY DEF Place
  <2> HIDE DEF x
  <2> QED BY <1>3, <2>2, <2>3
<1> QED BY <1>2, <1>3

LEMMA GoEofPlace ==
  ASSUME NEW f \in FileType, NEW e \in Place(f)
  PROVE  /\ GoEof(f, e).d \in Place(f) /\ GoEof(f, e).rc = "eof" /\ GoEof(f, e).d.at = e.at
         /\ BofAndEof(f, e).d \in Place(f) /\ BofAndEof(f, e).rc = "eof" /\ BofAndEof(f, e).d.at = e.at
<1>1. f.n \in Nat /\ f.n + 1 \in Nat \ {0}
  BY BoundAssumption DEF FileType
<1> DEFINE b == [e EXCEPT !.bof = TRUE]
<1>b. b \in Place(f) /\ b.at = e.at
  BY DEF Place
<1>2. \A x \in Place(f) : GoEof(f, x).d \in Place(f) /\ GoEof(f, x).rc = "eof" /\ GoEof(f, x).d.at = x.at
  <2> TAKE x \in Place(f)
  <2> DEFINE y == [x EXCEPT !.rec = f.n + 1, !.buf = 0, !.eof = TRUE, !.bof = x.bof \/ f.n = 0]
  <2>1. GoEof(f, x) = [d |-> y, rc |-> "eof"]
    BY DEF GoEof, Res
  <2>2. (x.bof \/ f.n = 0) \in BOOLEAN
    OBVIOUS
  <2>3. y \in Place(f) /\ y.at = x.at
    BY <1>1, <2>2 DEF Place
  <2> HIDE DEF y
  <2> QED BY <2>1, <2>3
<1>3. BofAndEof(f, e) = GoEof(f, b)
  BY DEF BofAndEof
<1> HIDE DEF b
<1> QED BY <1>b, <1>2, <1>3

LEMMA TagGoPlace ==
  ASSUME NEW f \in FileType, NEW g \in FileType, NEW e \in Place(g), NEW key, NEW rec
  PROVE  /\ TagGo(f, e, key, rec).d \in Place(f) /\ TagGo(f, e, key, rec).rc \in {"ok", "after"}
         /\ TagGo(f, e, key, rec).d = [e EXCEPT !.at = TagGo(f, e, key, rec).d.at]
<1> DEFINE S == {j \in DOMAIN f.ents : AtOrAfter(f.ents[j], key, rec)}
           i == FirstFrom(f, S)
<1>1. Len(f.ents) \in Nat /\ DOMAIN f.ents = 1..Len(f.ents)
  BY DEF FileType
<1>2. S \subseteq 1..Len(f.ents)
  BY <1>1
<1> HIDE DEF S
<1>a. S # {} => Min(S) \in S
  <2>1. S \subseteq Nat
    BY <1>1, <1>2
  <2> QED BY <2>1, LeastIs
<1>b. i = IF S = {} THEN Len(f.ents) + 1 ELSE Min(S)
  BY DEF FirstFrom
<1> HIDE DEF i
<1>3. i \in 1..(Len(f.ents) + 1)
  <2>1. CASE S = {}
    BY <1>1, <1>b, <2>1
  <2>2. CASE S # {}
    <3>1. Min(S) \in 1..Len(f.ents)
      BY <1>2, <1>a, <2>2
    <3>2. i = Min(S)
      BY <1>b, <2>2
    <3> QED BY <1>1, <3>1, <3>2
  <2> QED BY <2>1, <2>2
<1>4. TagGo(f, e, key, rec).d = [e EXCEPT !.at = i] /\ TagGo(f, e, key, rec).rc \in {"ok", "after"}
  BY DEF TagGo, Res, S, i
<1> QED BY <1>3, <1>4 DEF Place

LEMMA PhysSkipPlace ==
  ASSUME NEW f \in FileType, NEW e \in Place(f), NEW k \in Int
  PROVE  /\ PhysSkip(f, e, k).d \in Place(f) /\ PhysSkip(f, e, k).done \in Int
         /\ PhysSkip(f, e, k).d = [e EXCEPT !.at = PhysSkip(f, e, k).d.at]
<1>1. Len(f.ents) \in Nat /\ e.at \in 1..(Len(f.ents) + 1)
  BY DEF FileType, Place
<1>2. CASE k > 0 /\ e.at + k > Len(f.ents)
  <2>1. PhysSkip(f, e, k) = [d |-> [e EXCEPT !.at = IF Len(f.ents) = 0 THEN 1 ELSE Len(f.ents)],
                             done |-> IF e.at > Len(f.ents) THEN 0 ELSE Len(f.ents) - e.at]
    BY <1>1, <1>2 DEF PhysSkip
  <2> QED BY <1>1, <2>1 DEF Place
<1>3. CASE k < 0 /\ e.at + k < 1
  <2>1. PhysSkip(f, e, k) = [d |-> [e EXCEPT !.at = 1], done |-> 1 - e.at]
    BY <1>1, <1>3 DEF PhysSkip
  <2> QED BY <1>1, <2>1 DEF Place
<1>4. CASE ~(k > 0 /\ e.at + k > Len(f.ents)) /\ ~(k < 0 /\ e.at + k < 1)
  <2>1. PhysSkip(f, e, k) = [d |-> [e EXCEPT !.at = e.at + k], done |-> k]
    BY <1>1, <1>4 DEF PhysSkip
  <2> QED BY <1>1, <1>4, <2>1 DEF Place
<1> QED BY <1>2, <1>3, <1>4

LEMMA DSkipPlace ==
  ASSUME NEW f \in FileType, NEW e \in Place(f), NEW k \in Int
  PROVE  /\ DSkip(f, e, k).d \in Place(f) /\ DSkip(f, e, k).done \in Int
         /\ DSkip(f, e, k).d = [e EXCEPT !.at = DSkip(f, e, k).d.at]
<1>1. CASE f.desc
  <2> DEFINE p == PhysSkip(f, e, -k)
  <2>1. p.d \in Place(f) /\ p.done \in Int /\ p.d = [e EXCEPT !.at = p.d.at]
    BY PhysSkipPlace
  <2>2. DSkip(f, e, k) = [p EXCEPT !.done = -@]
    BY <1>1 DEF DSkip
  <2>3. p = [d |-> p.d, done |-> p.done]
    BY DEF PhysSkip
  <2> HIDE DEF p
  <2> QED BY <2>1, <2>2, <2>3
<1>2. CASE ~f.desc
  BY <1>2, PhysSkipPlace DEF DSkip
<1> QED BY <1>1, <1>2

LEMMA TagEndsPlace ==
  ASSUME NEW f \in FileType, NEW e \in Place(f)
  PROVE  /\ TagTop(f, e) \in Place(f) /\ TagTop(f, e) = [e EXCEPT !.at = IF f.desc THEN LastOr1(f) ELSE 1]
         /\ TagBottom(f, e) \in Place(f) /\ TagBottom(f, e) = [e EXCEPT !.at = IF f.desc THEN 1 ELSE LastOr1(f)]
<1>1. LastOr1(f) \in 1..(Len(f.ents) + 1) /\ 1 \in 1..(Len(f.ents) + 1)
  BY LastIs DEF FileType
<1> QED BY <1>1 DEF TagTop, TagBottom, Place

LEMMA TagSeekPlace ==
  ASSUME NEW f \in FileType, NEW e \in Place(f), NEW key
  PROVE  /\ TagSeek(f, e, key).d \in Place(f) /\ TagSeek(f, e, key).rc \in {"eof", "ok", "after"}
         /\ TagSeek(f, e, key).d = [e EXCEPT !.at = TagSeek(f, e, key).d.at]
<1> DEFINE S == {j \in DOMAIN f.ents : IF f.desc THEN f.ents[j].key <= key ELSE f.ents[j].key >= key}
           i == IF S = {} THEN Len(f.ents) + 1 ELSE IF f.desc THEN Max(S) ELSE Min(S)
<1>1. Len(f.ents) \in Nat /\ DOMAIN f.ents = 1..Len(f.ents)
  BY DEF FileType
<1>2. S \subseteq 1..Len(f.ents)
  BY <1>1
<1> HIDE DEF S
<1>3. S # {} => Max(S) \in S /\ Min(S) \in S
  <2>1. S \subseteq Nat /\ S \subseteq 0..Len(f.ents)
    BY <1>1, <1>2
  <2> QED BY <1>1, <2>1, LeastIs, GreatestIs
<1>4. i \in 1..(Len(f.ents) + 1)
  <2>1. CASE S = {}
    BY <1>1, <2>1
  <2>2. CASE S # {}
    <3>1. Min(S) \in 1..Len(f.ents) /\ Max(S) \in 1..Len(f.ents)
      BY <1>2, <1>3, <2>2
    <3>2. i \in {Min(S), Max(S)}
      BY <2>2
    <3> HIDE DEF i
    <3> QED BY <1>1, <3>1, <3>2
  <2> QED BY <2>1, <2>2
<1>5. TagSeek(f, e, key).d = [e EXCEPT !.at = i] /\ TagSeek(f, e, key).rc \in {"eof", "ok", "after"}
  BY DEF TagSeek, Res, S
<1> HIDE DEF i
<1> QED BY <1>4, <1>5 DEF Place

LEMMA PlaceExcept ==
  ASSUME NEW f \in FileType, NEW e \in Place(f)
  PROVE  /\ \A b \in BOOLEAN : [e EXCEPT !.bof = b] \in Place(f)
         /\ \A b, c \in BOOLEAN : [e EXCEPT !.bof = b, !.eof = c] \in Place(f)
         /\ \A i \in 1..(Len(f.ents) + 1) : [e EXCEPT !.at = i] \in Place(f)
         /\ \A r \in {-1} \cup (Nat \ {0}) : [e EXCEPT !.bof = FALSE, !.rec = r] \in Place(f)
         /\ e.rec \in Int /\ e.bof \in BOOLEAN /\ e.eof \in BOOLEAN /\ e.buf \in Nat
         /\ e.at \in 1..(Len(f.ents) + 1)
<1>1. \A b \in BOOLEAN : [e EXCEPT !.bof = b] \in Place(f)
  BY DEF Place
<1>2. \A b, c \in BOOLEAN : [e EXCEPT !.bof = b, !.eof = c] \in Place(f)
  BY DEF Place
<1>3. \A i \in 1..(Len(f.ents) + 1) : [e EXCEPT !.at = i] \in Place(f)
  BY DEF Place
<1>4. \A r \in {-1} \cup (Nat \ {0}) : [e EXCEPT !.bof = FALSE, !.rec = r] \in Place(f)
  BY DEF Place
<1>5. e.rec \in Int /\ e.bof \in BOOLEAN /\ e.eof \in BOOLEAN /\ e.buf \in Nat
  BY DEF Place
<1>6. e.at \in 1..(Len(f.ents) + 1)
  BY DEF Place
<1> QED BY <1>1, <1>2, <1>3, <1>4, <1>5, <1>6

(* The entries with counted records from at on in a direction. *)
Here(f, at, dir) == {j \in DOMAIN f.ents : f.ents[j].rec <= f.n
                                          /\ IF dir > 0 THEN j >= at ELSE j <= at}

LEMMA HereIs ==
  ASSUME NEW f \in FileType, NEW at, NEW dir \in Int
  PROVE  LET S == Here(f, at, dir)
         IN  /\ S \subseteq 1..Len(f.ents)
             /\ S # {} => /\ Min(S) \in S /\ (\A x \in S : Min(S) <= x)
                          /\ Max(S) \in S /\ (\A x \in S : x <= Max(S))
<1> DEFINE S == Here(f, at, dir)
<1>1. Len(f.ents) \in Nat /\ S \subseteq 1..Len(f.ents)
  BY DEF FileType, Here
<1> HIDE DEF S
<1>2. S \subseteq Nat /\ S \subseteq 0..Len(f.ents)
  BY <1>1
<1>3. S # {} => /\ Min(S) \in S /\ (\A x \in S : Min(S) <= x)
                /\ Max(S) \in S /\ (\A x \in S : x <= Max(S))
  BY <1>1, <1>2, LeastIs, GreatestIs
<1> QED BY <1>1, <1>3 DEF S

(* What ToCounted gives: the nearest of them. *)
Counts(f, e, dir, w) ==
  LET S == Here(f, e.at, dir)
      i == IF S = {} THEN IF dir > 0 THEN LastOr1(f) ELSE 1
           ELSE IF dir > 0 THEN Min(S) ELSE Max(S)
  IN  /\ w.d \in Place(f) /\ w.d = [e EXCEPT !.at = i]
      /\ w.found = (S # {})
      /\ S # {} => /\ i \in S /\ i \in 1..Len(f.ents) /\ w.d.at = i
                   /\ TagRec(f, w.d) = f.ents[i].rec /\ f.ents[i].rec \in 1..f.n

LEMMA ToCountedIs ==
  ASSUME NEW f \in FileType, NEW e \in Place(f), NEW dir \in Int
  PROVE  Counts(f, e, dir, ToCounted(f, e, dir))
<1> DEFINE S == Here(f, e.at, dir)
           w == ToCounted(f, e, dir)
           i == IF S = {} THEN IF dir > 0 THEN LastOr1(f) ELSE 1
                ELSE IF dir > 0 THEN Min(S) ELSE Max(S)
<1>1. S # {} => i \in S /\ i \in 1..Len(f.ents)
  BY HereIs
<1>2. Len(f.ents) \in Nat /\ LastOr1(f) \in 1..(Len(f.ents) + 1)
  BY TagRecIs, LastIs
<1>3. i \in 1..(Len(f.ents) + 1)
  <2>1. CASE S = {}
    <3>1. i \in {LastOr1(f), 1}
      BY <2>1
    <3> HIDE DEF i
    <3> QED BY <1>2, <3>1
  <2>2. CASE S # {}
    <3> HIDE DEF i
    <3> QED BY <1>1, <1>2, <2>2
  <2> QED BY <2>1, <2>2
<1>4. w = [d |-> [e EXCEPT !.at = i], found |-> S # {}]
  <2>1. CASE S = {}
    BY <2>1 DEF ToCounted, Here
  <2>2. CASE S # {}
    BY <2>2 DEF ToCounted, Here
  <2> QED BY <2>1, <2>2
<1>5. \A x \in S : f.ents[x].rec <= f.n
  BY DEF Here
<1> HIDE DEF S, w, i
<1>6. w.d = [e EXCEPT !.at = i] /\ w.found = (S # {})
  BY <1>4
<1>7. w.d \in Place(f)
  <2>1. \A x \in 1..(Len(f.ents) + 1) : [e EXCEPT !.at = x] \in Place(f)
    BY PlaceExcept
  <2> QED BY <1>3, <1>6, <2>1
<1>8. [e EXCEPT !.at = i].at = i
  BY DEF Place
<1>9. ASSUME S # {}
      PROVE  w.d.at = i /\ TagRec(f, w.d) = f.ents[i].rec /\ f.ents[i].rec \in 1..f.n
  <2>1. w.d.at = i
    BY <1>6, <1>8
  <2>2. ~TagEof(f, w.d)
    BY <1>1, <1>2, <1>9, <2>1 DEF TagEof
  <2>3. TagRec(f, w.d) = f.ents[i].rec /\ TagRec(f, w.d) \in 1..MaxRec
    BY <1>7, <2>1, <2>2, TagRecIs
  <2>4. f.ents[i].rec <= f.n /\ f.n \in Nat /\ MaxRec \in Nat
    BY <1>1, <1>5, <1>9, BoundAssumption DEF FileType
  <2> QED BY <2>1, <2>3, <2>4
<1>10. w.d \in Place(f) /\ w.d = [e EXCEPT !.at = i] /\ w.found = (S # {})
       /\ (S # {} => /\ i \in S /\ i \in 1..Len(f.ents) /\ w.d.at = i
                     /\ TagRec(f, w.d) = f.ents[i].rec /\ f.ents[i].rec \in 1..f.n)
  BY <1>1, <1>6, <1>7, <1>9
<1>11. Counts(f, e, dir, w)
  BY <1>10 DEF Counts, S, i
<1> QED BY <1>11 DEF w

LEMMA EndsPlace ==
  ASSUME NEW f \in FileType, NEW e \in Place(f)
  PROVE  DTop(f, e).d \in Place(f) /\ DBottom(f, e).d \in Place(f)
<1>1. \A x \in Place(f) : BofAndEof(f, x).d \in Place(f)
  BY GoEofPlace
<1>2. f.n \in Int /\ 1 \in Int /\ \A r \in Int : Go(f, e, r).d \in Place(f)
  <2>1. \A r \in Int : Go(f, e, r).d \in Place(f)
    BY GoPlace
  <2> QED BY <2>1, BoundAssumption DEF FileType
<1>3. \A x \in Place(f), dir \in {-1, 1} : Ended(f, x, dir).d \in Place(f)
  <2> TAKE x \in Place(f), dir \in {-1, 1}
  <2> DEFINE w == ToCounted(f, x, dir)
  <2>0. dir \in Int
    OBVIOUS
  <2>1. w.d \in Place(f)
    BY <2>0, ToCountedIs DEF Counts
  <2> HIDE DEF w
  <2>2. TagRec(f, w.d) \in Int
    BY <2>1, TagRecIs, BoundAssumption
  <2>3. Go(f, w.d, TagRec(f, w.d)).d \in Place(f)
    BY <2>1, <2>2, GoPlace
  <2>4. Counted(f, w).d \in Place(f)
    BY <1>1, <2>1, <2>3 DEF Counted
  <2> QED BY <2>4 DEF Ended, w
<1>4. TagTop(f, e) \in Place(f) /\ TagBottom(f, e) \in Place(f)
  BY TagEndsPlace
<1>5. DTop(f, e).d \in Place(f)
  BY <1>1, <1>2, <1>3, <1>4 DEF DTop
<1>6. DBottom(f, e).d \in Place(f)
  BY <1>1, <1>2, <1>3, <1>4 DEF DBottom
<1> QED BY <1>5, <1>6

LEMMA LandedPlace ==
  ASSUME NEW f \in FileType, NEW p, p.d \in Place(f), NEW n \in Int, NEW dir \in Int
  PROVE  Landed(f, p, n, dir).d \in Place(f)
<1> DEFINE w == ToCounted(f, p.d, dir)
           g == Go(f, w.d, TagRec(f, w.d))
<1>1. w.d \in Place(f)
  BY ToCountedIs DEF Counts
<1> HIDE DEF w
<1>2. TagRec(f, w.d) \in Int
  BY <1>1, TagRecIs, BoundAssumption
<1>3. g.d \in Place(f)
  BY <1>1, <1>2, GoPlace
<1> HIDE DEF g
<1>4. [g.d EXCEPT !.bof = TRUE] \in Place(f)
  BY <1>3, PlaceExcept
<1>5. BofAndEof(f, w.d).d \in Place(f) /\ BofAndEof(f, p.d).d \in Place(f) /\ GoEof(f, p.d).d \in Place(f)
  BY <1>1, GoEofPlace
<1>6. Res([g.d EXCEPT !.bof = TRUE], "bof").d \in Place(f)
  BY <1>4 DEF Res
<1> QED BY <1>3, <1>5, <1>6 DEF Landed, w, g

LEMMA SkipEntriesPlace ==
  ASSUME NEW f \in FileType, NEW e \in Place(f), NEW n \in Int
  PROVE  SkipEntries(f, e, n).d \in Place(f)
<1> DEFINE p == DSkip(f, e, n)
<1>1. p.d \in Place(f)
  BY DSkipPlace
<1> HIDE DEF p
<1>2. \A dir \in {-1, 1} : Landed(f, p, n, dir).d \in Place(f)
  <2> TAKE dir \in {-1, 1}
  <2>1. dir \in Int
    OBVIOUS
  <2> QED BY <1>1, <2>1, LandedPlace
<1> QED BY <1>2 DEF SkipEntries, p

LEMMA SkipFromPlace ==
  ASSUME NEW f \in FileType, NEW e \in Place(f), NEW n \in Int
  PROVE  SkipFrom(f, e, n).d \in Place(f)
<1> DEFINE g == Go(f, e, e.rec)
           t == TagGo(f, g.d, f.key[e.rec], e.rec)
<1>1. g.d \in Place(f)
  BY GoPlace, PlaceExcept
<1> HIDE DEF g
<1>2. t.d \in Place(f)
  BY <1>1, TagGoPlace
<1> HIDE DEF t
<1>3. n - 1 \in Int
  OBVIOUS
<1>4. SkipBrought(f, t, n).d \in Place(f)
  BY <1>2, <1>3, SkipEntriesPlace DEF SkipBrought
<1>5. Res(e, "ok").d \in Place(f) /\ SkipEntries(f, e, n).d \in Place(f)
  BY SkipEntriesPlace DEF Res
<1> QED BY <1>1, <1>4, <1>5 DEF SkipFrom, g, t

LEMMA DSkipRecPlace ==
  ASSUME NEW f \in FileType, NEW e \in Place(f), NEW n \in Int
  PROVE  DSkipRec(f, e, n).d \in Place(f)
<1>0. e.rec \in Int
  BY PlaceExcept
<1>9. e.rec + n \in Int /\ ((e.rec < 1) = ~(e.rec >= 1))
  BY <1>0
<1>1. /\ e.rec \in Int /\ e.eof \in BOOLEAN
      /\ \A x \in Place(f) : [x EXCEPT !.bof = FALSE] \in Place(f) /\ [x EXCEPT !.bof = TRUE] \in Place(f)
                             /\ [x EXCEPT !.bof = TRUE, !.eof = e.eof] \in Place(f)
  BY PlaceExcept
<1>2. \A x \in Place(f) : GoEof(f, x).d \in Place(f)
  BY GoEofPlace
<1>3. \A x \in Place(f), r \in Int : Go(f, x, r).d \in Place(f)
  BY GoPlace
<1>4. CASE e.rec < 1
  <2>1. DSkipRec(f, e, n) = Res(e, "info")
    BY <1>4, <1>9 DEF DSkipRec
  <2> QED BY <2>1 DEF Res
<1>5. CASE e.rec >= 1 /\ ~f.sel
  <2> DEFINE here == [e EXCEPT !.bof = FALSE]
             gone == IF e.rec + n > 0 THEN Go(f, here, e.rec + n).d ELSE here
             none == IF f.n = 0 THEN [GoEof(f, gone).d EXCEPT !.bof = TRUE] ELSE gone
             one == Go(f, here, 1).d
  <2>1. here \in Place(f) /\ e.rec + n \in Int /\ 1 \in Int
    <3>1. here \in Place(f)
      BY <1>1
    <3>2. e.rec + n \in Int
      BY <1>9
    <3> QED BY <3>1, <3>2
  <2> HIDE DEF here
  <2>2. gone \in Place(f) /\ one \in Place(f)
    BY <1>3, <2>1
  <2> HIDE DEF gone, one
  <2>3. none \in Place(f)
    BY <1>1, <1>2, <2>2
  <2> HIDE DEF none
  <2>4. /\ Res([none EXCEPT !.bof = TRUE], "bof").d \in Place(f) /\ GoEof(f, none).d \in Place(f)
        /\ Res([one EXCEPT !.bof = TRUE, !.eof = e.eof], "bof").d \in Place(f)
        /\ Go(f, here, e.rec + n).d \in Place(f)
    BY <1>1, <1>2, <1>3, <2>1, <2>2, <2>3 DEF Res
  <2>5. SkipRecords(f, e, n).d \in Place(f)
    BY <2>4 DEF SkipRecords, here, gone, none, one
  <2>6. DSkipRec(f, e, n) = SkipRecords(f, e, n)
    BY <1>5, <1>9 DEF DSkipRec
  <2> QED BY <2>5, <2>6
<1>6. CASE e.rec >= 1 /\ f.sel
  <2> DEFINE b == DBottom(f, e)
             c == [b.d EXCEPT !.bof = FALSE, !.rec = TagRec(f, b.d)]
             s == GoEof(f, b.d)
  <2>1. b.d \in Place(f)
    BY EndsPlace
  <2> HIDE DEF b
  <2>2. TagRec(f, b.d) \in {-1} \cup (Nat \ {0})
    BY <2>1, TagRecIs, BoundAssumption
  <2>3. c \in Place(f) /\ s.d \in Place(f)
    BY <1>2, <2>1, <2>2, PlaceExcept
  <2> HIDE DEF c, s
  <2>4. n + 1 \in Int
    OBVIOUS
  <2>5. SkipFrom(f, c, n + 1).d \in Place(f) /\ Res(s.d, "bof").d \in Place(f)
    BY <2>3, <2>4, SkipFromPlace DEF Res
  <2>6. SkipFromBottom(f, b, n).d \in Place(f)
    BY <2>5 DEF SkipFromBottom, c, s
  <2>7. SkipFrom(f, [e EXCEPT !.bof = FALSE], n).d \in Place(f)
    BY <1>1, SkipFromPlace
  <2>8. SkipTag(f, e, n).d \in Place(f)
    BY <1>2, <2>6, <2>7 DEF SkipTag, b
  <2>9. DSkipRec(f, e, n) = SkipTag(f, e, n)
    BY <1>6, <1>9 DEF DSkipRec
  <2> QED BY <2>8, <2>9
<1>7. f.sel \in BOOLEAN /\ e.rec \in Int
  BY <1>1 DEF FileType
<1>8. e.rec < 1 \/ e.rec >= 1
  BY <1>7
<1> QED BY <1>4, <1>5, <1>6, <1>7, <1>8

(* The entries d4seekCheck counts, from at on. *)
Goods(f, at, key, m) ==
  {j \in at..Len(f.ents) : /\ f.ents[j].rec <= f.n
                           /\ m \/ f.key[f.ents[j].rec] = f.ents[j].key
                           /\ m \/ j = at \/ f.ents[j].key >= key}

(* What SeekCheck gives: the first of the entries that count. *)
SeekChecks(f, e, rc, key, m, r) ==
  /\ r.d \in Place(f)
  /\ Goods(f, e.at, key, m) = {} => r.rc = "eof"
  /\ Goods(f, e.at, key, m) # {} =>
       \E i \in Goods(f, e.at, key, m) :
          /\ \A j \in Goods(f, e.at, key, m) : i <= j
          /\ i \in 1..Len(f.ents) /\ f.ents[i].rec \in 1..f.n
          /\ r.d.rec = f.ents[i].rec
          /\ r.d.buf = f.key[f.ents[i].rec]
          /\ r.rc = IF m \/ i = e.at THEN rc ELSE IF f.ents[i].key = key THEN "ok" ELSE "after"

LEMMA SeekCheckIs ==
  ASSUME NEW f \in FileType, NEW e \in Place(f), NEW rc, NEW key, NEW m \in BOOLEAN
  PROVE  SeekChecks(f, e, rc, key, m, SeekCheck(f, e, rc, key, m))
<1> DEFINE S == Goods(f, e.at, key, m)
           i == Min(S)
           r == SeekCheck(f, e, rc, key, m)
<1>1. Len(f.ents) \in Nat /\ e.at \in 1..(Len(f.ents) + 1)
  BY TagRecIs, PlaceExcept
<1>2. S \subseteq 1..Len(f.ents) /\ S \subseteq Nat
  BY <1>1 DEF Goods
<1>3. S # {} => i \in S /\ \A j \in S : i <= j
  <2> HIDE DEF S
  <2> QED BY <1>2, LeastIs
<1>4. TagEof(f, e) => S = {}
  BY <1>1 DEF TagEof, Goods
<1>5. CASE S = {}
  <2>1. [e EXCEPT !.at = LastOr1(f)] \in Place(f)
    BY LastIs, PlaceExcept
  <2>2. r = GoEof(f, e) \/ r = GoEof(f, [e EXCEPT !.at = LastOr1(f)])
    BY <1>5 DEF SeekCheck, Goods
  <2>3. \A x \in Place(f) : GoEof(f, x).d \in Place(f) /\ GoEof(f, x).rc = "eof"
    BY GoEofPlace
  <2>4. r.d \in Place(f) /\ r.rc = "eof"
    BY <2>1, <2>2, <2>3
  <2> HIDE DEF r
  <2>5. SeekChecks(f, e, rc, key, m, r)
    BY <1>5, <2>4 DEF SeekChecks
  <2> QED BY <2>5 DEF r
<1>6. CASE S # {}
  <2> DEFINE x == [e EXCEPT !.at = i]
             g == Go(f, x, f.ents[i].rec)
             c == IF m \/ i = e.at THEN rc ELSE IF f.ents[i].key = key THEN "ok" ELSE "after"
  <2>1. i \in S /\ i \in 1..Len(f.ents)
    BY <1>2, <1>3, <1>6
  <2>2. x \in Place(f)
    <3>1. \A y \in 1..(Len(f.ents) + 1) : [e EXCEPT !.at = y] \in Place(f)
      BY PlaceExcept
    <3> HIDE DEF i
    <3> QED BY <1>1, <2>1, <3>1
  <2>3. f.ents[i] \in EntryType /\ f.ents[i].rec <= f.n
    <3>1. f.ents \in Seq(EntryType)
      BY DEF FileType
    <3>2. \A j \in S : f.ents[j].rec <= f.n
      BY DEF Goods
    <3> HIDE DEF S, i
    <3> QED BY <2>1, <3>1, <3>2
  <2>4. f.ents[i].rec \in 1..f.n /\ f.ents[i].rec \in Int
    <3> HIDE DEF S, i
    <3> QED BY <2>3, BoundAssumption DEF EntryType, FileType
  <2>5. ~TagEof(f, e) /\ r = Res(g.d, c)
    <3>1. ~TagEof(f, e)
      BY <1>4, <1>6
    <3> QED BY <3>1, <1>6 DEF SeekCheck, Goods
  <2>6. g.d \in Place(f) /\ g.d = [x EXCEPT !.rec = f.ents[i].rec, !.buf = f.key[f.ents[i].rec],
                                           !.bof = FALSE, !.eof = FALSE]
    <3> HIDE DEF x, i, S
    <3> QED BY <2>2, <2>4, GoPlace
  <2>7. g.d.rec = f.ents[i].rec /\ g.d.buf = f.key[f.ents[i].rec]
    <3> HIDE DEF g, i
    <3>1. x \in [rec : {-1} \cup (Nat \ {0}), bof : BOOLEAN, eof : BOOLEAN, buf : Nat,
                 at : 1..(Len(f.ents) + 1)]
      BY <2>2 DEF Place
    <3> HIDE DEF x
    <3> QED BY <2>6, <3>1
  <2> HIDE DEF g, c
  <2>8. r.d = g.d /\ r.rc = c
    BY <2>5 DEF Res
  <2> HIDE DEF r, S, i, x
  <2>9. /\ r.d \in Place(f)
        /\ i \in S /\ (\A j \in S : i <= j) /\ i \in 1..Len(f.ents)
        /\ f.ents[i].rec \in 1..f.n
        /\ r.d.rec = f.ents[i].rec /\ r.d.buf = f.key[f.ents[i].rec] /\ r.rc = c
    BY <1>3, <1>6, <2>1, <2>4, <2>6, <2>7, <2>8
  <2>10. SeekChecks(f, e, rc, key, m, r)
    BY <1>6, <2>9 DEF SeekChecks, S, c
  <2> QED BY <2>10 DEF r
<1> QED BY <1>5, <1>6

LEMMA SeekPlace ==
  ASSUME NEW f \in FileType, NEW e \in Place(f), NEW key, NEW m \in BOOLEAN
  PROVE  Seek(f, e, key, m).d \in Place(f)
<1> DEFINE t == TagSeek(f, e, key)
<1>1. t.d \in Place(f)
  BY TagSeekPlace
<1> HIDE DEF t
<1>2. SeekCheck(f, t.d, t.rc, key, m).d \in Place(f)
  BY <1>1, SeekCheckIs DEF SeekChecks
<1> QED BY <1>2 DEF Seek, t

LEMMA NextOfKeyPlace ==
  ASSUME NEW f \in FileType, NEW next, next.d \in Place(f), NEW key, NEW m \in BOOLEAN
  PROVE  NextOfKey(f, next, key, m).d \in Place(f)
<1>1. GoEof(f, next.d).d \in Place(f)
  BY GoEofPlace
<1>2. \A rc : SeekCheck(f, next.d, rc, key, m).d \in Place(f)
  BY SeekCheckIs DEF SeekChecks
<1>3. \A res, rc : Res(res.d, rc).d = res.d
  BY DEF Res
<1> QED BY <1>1, <1>2, <1>3 DEF NextOfKey

LEMMA SeekNextPlace ==
  ASSUME NEW f \in FileType, NEW e \in Place(f), NEW key, NEW m \in BOOLEAN, NEW lost
  PROVE  SeekNext(f, e, key, m, lost).d \in Place(f)
<1> DEFINE Next0(on) == IF on.buf # key THEN Seek(f, on, key, m)
                       ELSE NextOfKey(f, DSkip(f, on, 1), key, m)
           read == IF m THEN Res(e, "ok") ELSE Go(f, e, e.rec)
           t == TagGo(f, read.d, read.d.buf, e.rec)
<1>1. \A x \in Place(f) : Next0(x).d \in Place(f)
  <2> TAKE x \in Place(f)
  <2>0. 1 \in Int
    OBVIOUS
  <2>1. DSkip(f, x, 1).d \in Place(f)
    BY <2>0, DSkipPlace
  <2>2. NextOfKey(f, DSkip(f, x, 1), key, m).d \in Place(f)
    BY <2>1, NextOfKeyPlace
  <2>3. Seek(f, x, key, m).d \in Place(f)
    BY SeekPlace
  <2> QED BY <2>2, <2>3
<1> HIDE DEF Next0
<1>2. read.d \in Place(f)
  <2>1. Go(f, e, e.rec).d \in Place(f)
    BY GoPlace, PlaceExcept
  <2>2. Res(e, "ok").d = e
    BY DEF Res
  <2> QED BY <2>1, <2>2
<1> HIDE DEF read
<1>3. t.d \in Place(f)
  BY <1>2, TagGoPlace
<1> HIDE DEF t
<1>4. Next0(e).d \in Place(f) /\ Next0(t.d).d \in Place(f) /\ Seek(f, read.d, key, m).d \in Place(f)
  BY <1>1, <1>2, <1>3, SeekPlace
<1> QED BY <1>4 DEF SeekNext, Next0, read, t

LEMMA TagSyncPlace ==
  ASSUME NEW f \in FileType, NEW e \in Place(f)
  PROVE  TagAt(f, e).d \in Place(f) /\ \A rc : TagSync(f, e, rc).d \in Place(f)
<1>1. TagAt(f, e).d \in Place(f)
  BY TagGoPlace DEF TagAt, Res
<1>2. TagRec(f, e) \in Int
  BY TagRecIs, BoundAssumption
<1>3. Go(f, e, TagRec(f, e)).d \in Place(f) /\ GoEof(f, e).d \in Place(f)
  BY <1>2, GoPlace, GoEofPlace
<1>4. \A rc : TagSync(f, e, rc).d \in Place(f)
  BY <1>3 DEF TagSync, Res
<1> QED BY <1>1, <1>4

------------------------------------------------------------------------------
(* What a call of the program sees and leaves, whatever it is.              *)

LEMMA SeenIs ==
  ASSUME TypeOK
  PROVE  /\ \A q \in Seq(EntryType) : Seen(q) \in FileType /\ Seen(q).ents = q
         /\ Seen(file.ents) = file
<1>1. file = [n |-> file.n, key |-> file.key, ents |-> file.ents, desc |-> file.desc, sel |-> file.sel]
  BY DEF TypeOK, FileType
<1>2. \A q : Seen(q) = [n |-> file.n, key |-> file.key, ents |-> q, desc |-> file.desc, sel |-> file.sel]
  BY <1>1 DEF Seen
<1>3. \A q \in Seq(EntryType) : Seen(q) \in FileType /\ Seen(q).ents = q
  BY <1>2 DEF TypeOK, FileType
<1> QED BY <1>1, <1>2, <1>3

LEMMA CheckedIs ==
  ASSUME TypeOK, TagTrue, NEW e \in Place(Seen(tag)), NEW seek \in BOOLEAN
  PROVE  LET c == Checked(e, seek)
         IN  /\ c.ents = file.ents /\ c.d \in Place(file)
             /\ c.d = [e EXCEPT !.at = c.d.at]
             /\ c.lost = (stale /\ ~seek)
             /\ stale /\ ~seek => c.d.at = Len(file.ents) + 1
             /\ ~stale => c.d = e
<1> DEFINE past == [e EXCEPT !.at = Len(file.ents) + 1]
           t == TagGo(file, e, tag[e.at].key, tag[e.at].rec)
           c == Checked(e, seek)
<1>1. file \in FileType /\ Seen(tag) \in FileType /\ Seen(tag).ents = tag /\ Seen(file.ents) = file
  BY SeenIs DEF TypeOK
<1>2. past \in Place(file) /\ past.at = Len(file.ents) + 1 /\ past = [e EXCEPT !.at = past.at]
  <2>1. Len(file.ents) + 1 \in 1..(Len(file.ents) + 1)
    BY <1>1, TagRecIs DEF FileType
  <2> QED BY <2>1 DEF Place
<1>3. t.d \in Place(file) /\ t.d = [e EXCEPT !.at = t.d.at]
  BY <1>1, TagGoPlace
<1>4. ~stale => tag = file.ents
  BY DEF TagTrue
<1>5. e = [e EXCEPT !.at = e.at]
  BY DEF Place
<1> HIDE DEF t, past
<1> SUFFICES /\ c.ents = file.ents /\ c.d \in Place(file)
             /\ c.d = [e EXCEPT !.at = c.d.at]
             /\ c.lost = (stale /\ ~seek)
             /\ stale /\ ~seek => c.d.at = Len(file.ents) + 1
             /\ ~stale => c.d = e
  OBVIOUS
<1>6. CASE ~stale
  <2>1. c = [ents |-> tag, d |-> e, lost |-> FALSE]
    BY <1>6 DEF Checked, Blocks
  <2>2. e \in Place(file) /\ tag = file.ents
    BY <1>1, <1>4, <1>6
  <2> HIDE DEF c
  <2> QED BY <1>5, <1>6, <2>1, <2>2
<1>7. CASE stale /\ ~seek
  <2>1. c = [ents |-> file.ents, d |-> past, lost |-> TRUE]
    BY <1>7 DEF Checked, Blocks, past
  <2> HIDE DEF c
  <2> QED BY <1>2, <1>7, <2>1
<1>8. CASE stale /\ seek
  <2>1. c = [ents |-> file.ents, d |-> past, lost |-> FALSE] \/ c = [ents |-> file.ents, d |-> t.d, lost |-> FALSE]
    BY <1>8 DEF Checked, Blocks, past, t
  <2> HIDE DEF c
  <2>2. c.ents = file.ents /\ c.lost = FALSE /\ (c.d = past \/ c.d = t.d)
    BY <2>1
  <2>3. CASE c.d = past
    BY <1>2, <1>8, <2>2, <2>3
  <2>4. CASE c.d = t.d
    BY <1>3, <1>8, <2>2, <2>4
  <2> QED BY <2>2, <2>3, <2>4
<1> QED BY <1>6, <1>7, <1>8

(* The walk of any call is a walk. *)
WalkType == [dir : {-1, 0, 1}, met : Seq({-1} \cup (Nat \ {0})), steady : SUBSET Nat, over : BOOLEAN]

LEMMA WalkedType ==
  ASSUME TypeOK, NEW op, NEW arg, NEW r, NEW f, r.d \in Place(f)
  PROVE  Walked(op, arg, r) \in WalkType
<1>1. r.d.rec \in {-1} \cup (Nat \ {0})
  BY DEF Place
<1>2. NoWalk \in WalkType
  BY DEF NoWalk, WalkType
<1>3. \A x \in {-1, 1} : Begun(x, r) \in WalkType
  <2> TAKE x \in {-1, 1}
  <2>1. (1..file.n) \ {half.rec} \in SUBSET Nat /\ (r.rc # "ok") \in BOOLEAN
    BY BoundAssumption DEF TypeOK, FileType
  <2>2. (IF r.rc = "ok" THEN <<r.d.rec>> ELSE << >>) \in Seq({-1} \cup (Nat \ {0}))
    <3> DEFINE R == {-1} \cup (Nat \ {0})
    <3>1. r.d.rec \in R
      BY <1>1
    <3> HIDE DEF R
    <3>2. <<r.d.rec>> \in Seq(R) /\ << >> \in Seq(R)
      BY <3>1
    <3> QED BY <3>2 DEF R
  <2> QED BY <2>1, <2>2 DEF Begun, WalkType
<1>4. Stepped(r) \in WalkType
  <2>1. walk \in WalkType
    BY DEF TypeOK, WalkType
  <2>2. Append(walk.met, r.d.rec) \in Seq({-1} \cup (Nat \ {0}))
    BY <1>1, <2>1 DEF WalkType
  <2>3. [walk EXCEPT !.met = Append(walk.met, r.d.rec)] \in WalkType
    BY <2>1, <2>2 DEF WalkType
  <2>4. [walk EXCEPT !.over = TRUE] \in WalkType
    BY <2>1 DEF WalkType
  <2> QED BY <1>2, <2>3, <2>4 DEF Stepped
<1> QED BY <1>2, <1>3, <1>4 DEF Walked

(* A call leaves a place in the blocks it leaves, and these are the file's
   unless the tag was changed since. *)
Sees(op, ents) ==
  /\ ents = file.ents \/ (ents = tag /\ (stale /\ file.sel => op # "set"))

LEMMA CallKeeps ==
  ASSUME TypeOK, TagTrue, HalfTrue, NEW op, NEW arg, NEW ents, NEW r, Sees(op, ents),
         r.d \in Place(Seen(ents)), Calls(op, arg, ents, r)
  PROVE  TypeOK' /\ TagTrue' /\ HalfTrue'
<1>1. /\ d' = r.d /\ tag' = ents /\ call' = [op |-> op, arg |-> arg, rc |-> r.rc]
      /\ walk' = Walked(op, arg, r) /\ file' = file /\ mine' = mine /\ half' = half
      /\ stale' = (stale /\ ents = tag /\ (op # "set" \/ ~file.sel))
  BY DEF Calls
<1>2. ents \in Seq(EntryType)
  BY DEF Sees, TypeOK, FileType
<1>3. TypeOK'
  <2>1. file' \in FileType /\ tag' \in Seq(EntryType) /\ stale' \in BOOLEAN /\ mine' \in BOOLEAN
    BY <1>1, <1>2 DEF TypeOK
  <2>2. d' \in Place(Seen(tag))'
    BY <1>1 DEF Seen, Place
  <2>3. call' = [op |-> call.op, arg |-> call.arg, rc |-> call.rc]'
    BY <1>1
  <2>4. walk' \in WalkType
    BY <1>1, WalkedType
  <2> QED BY <2>1, <2>2, <2>3, <2>4 DEF TypeOK, WalkType
<1>4. ~stale' => tag' = file'.ents
  <2>1. file.sel \in BOOLEAN /\ stale \in BOOLEAN
    BY DEF TypeOK, FileType
  <2>2. ~stale => tag = file.ents
    BY DEF TagTrue
  <2> QED BY <1>1, <2>1, <2>2 DEF Sees
<1>5. TagTrue'
  BY <1>1, <1>4 DEF TagTrue, Sound
<1>6. HalfTrue'
  BY <1>1 DEF HalfTrue
<1> QED BY <1>3, <1>5, <1>6

------------------------------------------------------------------------------
(* Entries in order.                                                        *)

LEMMA EntryIs ==
  ASSUME NEW x \in EntryType
  PROVE  x.key \in Nat /\ x.rec \in Nat /\ x.rec \in 1..MaxRec /\ x = [key |-> x.key, rec |-> x.rec]
<1>1. x.key \in Nat /\ x.rec \in 1..MaxRec /\ x = [key |-> x.key, rec |-> x.rec]
  BY DEF EntryType
<1> QED BY <1>1, BoundAssumption

Less(a, b) == a.key < b.key \/ (a.key = b.key /\ a.rec < b.rec)
Sorted(q) == \A i, j \in DOMAIN q : i < j <=> Less(q[i], q[j])

LEMMA SortedIs ==
  ASSUME NEW q \in Seq(EntryType)
  PROVE  InOrder(q) <=> Sorted(q)
<1>1. \A i \in DOMAIN q : q[i].key \in Nat /\ q[i].rec \in Nat /\ i \in Nat
                          /\ q[i] = [key |-> q[i].key, rec |-> q[i].rec]
  <2>1. \A i \in DOMAIN q : q[i] \in EntryType /\ i \in Nat
    OBVIOUS
  <2> QED BY <2>1, EntryIs
<1>2. \A i, j \in DOMAIN q : Before(q[i], q[j]) <=> Less(q[i], q[j])
  <2> TAKE i, j \in DOMAIN q
  <2>1. q[i] = q[j] <=> q[i].key = q[j].key /\ q[i].rec = q[j].rec
    BY <1>1
  <2>2. q[i].key \in Nat /\ q[i].rec \in Nat /\ q[j].key \in Nat /\ q[j].rec \in Nat
    BY <1>1
  <2> QED BY <2>1, <2>2 DEF Before, AtOrAfter, Less
<1>3. ASSUME InOrder(q), NEW i \in DOMAIN q, NEW j \in DOMAIN q
      PROVE  i < j <=> Less(q[i], q[j])
  <2>1. i < j => Less(q[i], q[j])
    BY <1>2, <1>3 DEF InOrder
  <2>2. j < i => Less(q[j], q[i])
    BY <1>2, <1>3 DEF InOrder
  <2>3. i \in Nat /\ j \in Nat
    BY <1>1
  <2>4. ~(Less(q[i], q[j]) /\ Less(q[j], q[i])) /\ ~Less(q[i], q[i])
    BY <1>1 DEF Less
  <2> QED BY <2>1, <2>2, <2>3, <2>4
<1>4. Sorted(q) => InOrder(q)
  BY <1>2 DEF Sorted, InOrder
<1> QED BY <1>3, <1>4 DEF Sorted

(* An entry that is there is found. *)
LEMMA GoesToEntry ==
  ASSUME NEW f \in FileType, Sorted(f.ents), NEW g \in FileType, NEW e \in Place(g), NEW i \in DOMAIN f.ents
  PROVE  LET t == TagGo(f, e, f.ents[i].key, f.ents[i].rec)
         IN  t.rc = "ok" /\ t.d = [e EXCEPT !.at = i] /\ t.d \in Place(f)
<1> DEFINE S == {j \in DOMAIN f.ents : AtOrAfter(f.ents[j], f.ents[i].key, f.ents[i].rec)}
           t == TagGo(f, e, f.ents[i].key, f.ents[i].rec)
<1>1. Len(f.ents) \in Nat /\ DOMAIN f.ents = 1..Len(f.ents)
  BY DEF FileType
<1>2. \A j \in DOMAIN f.ents : f.ents[j].key \in Nat /\ f.ents[j].rec \in Nat
                               /\ f.ents[j] = [key |-> f.ents[j].key, rec |-> f.ents[j].rec]
  <2>1. \A j \in DOMAIN f.ents : f.ents[j] \in EntryType
    BY DEF FileType
  <2> QED BY <2>1, EntryIs
<1>3. \A j \in DOMAIN f.ents : j \in S <=> j >= i
  <2> TAKE j \in DOMAIN f.ents
  <2>1. j < i <=> Less(f.ents[j], f.ents[i])
    BY DEF Sorted
  <2>2. f.ents[j].key \in Nat /\ f.ents[i].key \in Nat /\ f.ents[j].rec \in Nat /\ f.ents[i].rec \in Nat
    BY <1>2
  <2>3. AtOrAfter(f.ents[j], f.ents[i].key, f.ents[i].rec) <=> ~Less(f.ents[j], f.ents[i])
    BY <2>2 DEF AtOrAfter, Less
  <2>4. i \in Nat /\ j \in Nat
    BY <1>1
  <2> QED BY <2>1, <2>3, <2>4
<1>4. i \in S /\ S \subseteq Nat
  BY <1>1, <1>3
<1>5. Min(S) = i
  <2>0. \A j \in S : j \in DOMAIN f.ents
    OBVIOUS
  <2> HIDE DEF S
  <2>1. Min(S) \in S /\ \A x \in S : Min(S) <= x
    BY <1>4, LeastIs
  <2>2. Min(S) >= i /\ Min(S) <= i
    BY <1>3, <1>4, <2>0, <2>1
  <2>3. Min(S) \in Nat /\ i \in Nat
    BY <1>4, <2>1
  <2> QED BY <2>2, <2>3
<1>6. FirstFrom(f, S) = i
  BY <1>4, <1>5 DEF FirstFrom
<1>7. t = Res([e EXCEPT !.at = i], "ok")
  <2>1. i <= Len(f.ents) /\ f.ents[i] = [key |-> f.ents[i].key, rec |-> f.ents[i].rec]
    BY <1>1, <1>2
  <2> QED BY <1>6, <2>1 DEF TagGo
<1>8. t.d \in Place(f)
  BY TagGoPlace
<1> HIDE DEF t
<1>9. t.rc = "ok" /\ t.d = [e EXCEPT !.at = i]
  BY <1>7 DEF Res
<1> QED BY <1>8, <1>9 DEF t

(* The direction of the stored tree in which the program's n leads. *)
Dir(f, n) == IF (n < 0) # f.desc THEN -1 ELSE 1

LEMMA DSkipOne ==
  ASSUME NEW f \in FileType, NEW e \in Place(f), e.at \in DOMAIN f.ents, NEW n \in {-1, 1}
  PROVE  LET to == e.at + Dir(f, n)
             p == DSkip(f, e, n)
         IN  /\ to \in DOMAIN f.ents => p.d = [e EXCEPT !.at = to] /\ p.done = n
             /\ to \notin DOMAIN f.ents => p.d = e /\ p.done = 0
<1> DEFINE k == Dir(f, n)
           to == e.at + k
           p == DSkip(f, e, n)
           q == PhysSkip(f, e, k)
<1>1. Len(f.ents) \in Nat /\ DOMAIN f.ents = 1..Len(f.ents) /\ f.desc \in BOOLEAN
  BY DEF FileType
<1>2. k = IF f.desc THEN -n ELSE n
  BY <1>1 DEF Dir
<1>3. p = IF f.desc THEN [q EXCEPT !.done = -@] ELSE q
  BY <1>2 DEF DSkip
<1>4. k \in {-1, 1} /\ e.at \in Nat /\ e.at >= 1 /\ e.at <= Len(f.ents)
  BY <1>1, <1>2
<1>5. e = [e EXCEPT !.at = e.at]
  BY DEF Place
<1> HIDE DEF k
<1>6. CASE to \in DOMAIN f.ents
  <2>1. ~(k > 0 /\ e.at + k > Len(f.ents)) /\ ~(k < 0 /\ e.at + k < 1)
    BY <1>1, <1>4, <1>6
  <2>2. q = [d |-> [e EXCEPT !.at = to], done |-> k]
    BY <2>1 DEF PhysSkip
  <2>3. p = [d |-> [e EXCEPT !.at = to], done |-> IF f.desc THEN -k ELSE k]
    BY <1>3, <2>2
  <2>4. (IF f.desc THEN -k ELSE k) = n
    BY <1>2
  <2> HIDE DEF p, to
  <2> QED BY <1>6, <2>3, <2>4 DEF p, to, k
<1>7. CASE to \notin DOMAIN f.ents
  <2>1. \/ k > 0 /\ e.at + k > Len(f.ents) /\ e.at = Len(f.ents)
        \/ k < 0 /\ e.at + k < 1 /\ e.at = 1 /\ ~(k > 0)
    BY <1>1, <1>4, <1>7
  <2>2. q = [d |-> e, done |-> 0]
    <3>1. CASE k > 0 /\ e.at + k > Len(f.ents) /\ e.at = Len(f.ents)
      <4>1. q = [d |-> [e EXCEPT !.at = IF Len(f.ents) = 0 THEN 1 ELSE Len(f.ents)],
                 done |-> IF e.at > Len(f.ents) THEN 0 ELSE Len(f.ents) - e.at]
        BY <1>4, <3>1 DEF PhysSkip
      <4>2. (IF Len(f.ents) = 0 THEN 1 ELSE Len(f.ents)) = e.at
            /\ (IF e.at > Len(f.ents) THEN 0 ELSE Len(f.ents) - e.at) = 0
        BY <1>4, <3>1
      <4> QED BY <1>5, <4>1, <4>2
    <3>2. CASE k < 0 /\ e.at + k < 1 /\ e.at = 1 /\ ~(k > 0)
      <4>1. q = [d |-> [e EXCEPT !.at = 1], done |-> 1 - e.at]
        BY <3>2 DEF PhysSkip
      <4>2. 1 - e.at = 0
        BY <3>2
      <4> QED BY <1>5, <3>2, <4>1, <4>2
    <3> QED BY <2>1, <3>1, <3>2
  <2>3. p = [d |-> e, done |-> 0]
    BY <1>3, <2>2
  <2> HIDE DEF p, to
  <2> QED BY <1>7, <2>3 DEF p, to, k
<1> QED BY <1>6, <1>7 DEF k

------------------------------------------------------------------------------
(* What a seek finds.                                                       *)

LEMMA FileIs ==
  ASSUME TypeOK, TagTrue
  PROVE  /\ file \in FileType /\ Sorted(file.ents)
         /\ Len(file.ents) \in Nat /\ DOMAIN file.ents = 1..Len(file.ents)
         /\ \A i \in DOMAIN file.ents : /\ file.ents[i] \in EntryType
                                        /\ file.ents[i].key \in Nat /\ file.ents[i].rec \in 1..MaxRec
         /\ half = NoHalf => \A i \in DOMAIN file.ents : Sound(i)
<1>1. file \in FileType /\ file.ents \in Seq(EntryType)
  BY DEF TypeOK, FileType
<1>2. Sorted(file.ents) /\ Len(file.ents) \in Nat /\ DOMAIN file.ents = 1..Len(file.ents)
  BY <1>1, SortedIs DEF TagTrue
<1>3. \A i \in DOMAIN file.ents : file.ents[i] \in EntryType
  BY <1>1
<1>4. \A i \in DOMAIN file.ents : /\ file.ents[i] \in EntryType
                                  /\ file.ents[i].key \in Nat /\ file.ents[i].rec \in 1..MaxRec
  BY <1>3, EntryIs
<1>5. half = NoHalf => \A i \in DOMAIN file.ents : Sound(i)
  <2>1. half = NoHalf => half.rec = 0
    BY DEF NoHalf
  <2>2. \A i \in DOMAIN file.ents : file.ents[i].rec # 0
    BY <1>4, BoundAssumption
  <2> QED BY <2>1, <2>2 DEF TagTrue
<1> QED BY <1>1, <1>2, <1>4, <1>5

(* From a place whose entry and all after it are not below the key. *)
UpFinds(r, key, at) ==
  LET S == {j \in SoundFor(key) : j >= at}
  IN  /\ S = {} => r.rc # "ok"
      /\ S # {} => r.rc = "ok" /\ r.d.buf = key /\ r.d.rec = file.ents[Min(S)].rec

LEMMA ChecksUp ==
  ASSUME TypeOK, TagTrue, mine => half = NoHalf, NEW e \in Place(file), NEW key \in Nat, NEW rc,
         \A j \in DOMAIN file.ents : j >= e.at => file.ents[j].key >= key,
         e.at \in DOMAIN file.ents => (rc = "ok" <=> file.ents[e.at].key = key)
  PROVE  UpFinds(SeekCheck(file, e, rc, key, mine), key, e.at)
<1> DEFINE S == {j \in SoundFor(key) : j >= e.at}
           G == Goods(file, e.at, key, mine)
           r == SeekCheck(file, e, rc, key, mine)
<1>1. /\ file \in FileType /\ Sorted(file.ents) /\ Len(file.ents) \in Nat
      /\ DOMAIN file.ents = 1..Len(file.ents) /\ e.at \in 1..(Len(file.ents) + 1)
      /\ \A j \in DOMAIN file.ents : file.ents[j].key \in Nat
  <2>1. file \in FileType
    BY FileIs
  <2>2. Len(file.ents) \in Nat /\ e.at \in 1..(Len(file.ents) + 1)
    BY <2>1, FileIs, PlaceExcept
  <2> QED BY <2>1, <2>2, FileIs
<1>0. file \in FileType /\ mine \in BOOLEAN /\ (mine => \A j \in DOMAIN file.ents : Sound(j))
  BY FileIs DEF TypeOK
<1>2. \A j \in DOMAIN file.ents : j \in G <=> j >= e.at /\ Sound(j)
  <2> TAKE j \in DOMAIN file.ents
  <2>1. mine => Sound(j)
    BY FileIs
  <2>2. j \in e.at..Len(file.ents) <=> j >= e.at
    BY <1>1
  <2>3. j >= e.at => file.ents[j].key >= key
    OBVIOUS
  <2>4. Sound(j) <=> file.ents[j].rec <= file.n /\ file.key[file.ents[j].rec] = file.ents[j].key
    BY DEF Sound
  <2> QED BY <2>1, <2>2, <2>3, <2>4 DEF Goods
<1>3. G \subseteq DOMAIN file.ents
  BY <1>1 DEF Goods
<1>4. S = {j \in G : file.ents[j].key = key}
  BY <1>2, <1>3 DEF SoundFor
<1>5. /\ G = {} => r.rc = "eof"
      /\ G # {} => \E i \in G : /\ \A j \in G : i <= j
                   /\ r.d.rec = file.ents[i].rec /\ r.d.buf = file.key[file.ents[i].rec]
                   /\ r.rc = IF mine \/ i = e.at THEN rc
                             ELSE IF file.ents[i].key = key THEN "ok" ELSE "after"
  <2> HIDE DEF r
  <2>1. SeekChecks(file, e, rc, key, mine, r)
    BY <1>0, SeekCheckIs DEF r
  <2> QED BY <2>1 DEF SeekChecks
<1> HIDE DEF S, r
<1>6. CASE G = {}
  <2>1. S = {} /\ r.rc # "ok"
    BY <1>4, <1>5, <1>6
  <2> QED BY <2>1 DEF UpFinds, S, r
<1>7. CASE G # {}
  <2>0. PICK i \in G : /\ \A j \in G : i <= j
                   /\ r.d.rec = file.ents[i].rec /\ r.d.buf = file.key[file.ents[i].rec]
                   /\ r.rc = IF mine \/ i = e.at THEN rc
                             ELSE IF file.ents[i].key = key THEN "ok" ELSE "after"
    BY <1>5, <1>7
  <2>1. i \in G /\ i \in DOMAIN file.ents /\ i >= e.at /\ Sound(i)
    BY <1>1, <1>2, <1>3, <2>0
  <2>2. mine => i = e.at
    <3> SUFFICES ASSUME mine PROVE i = e.at
      OBVIOUS
    <3>1. e.at \in DOMAIN file.ents
      BY <1>1, <2>1
    <3>2. e.at \in G
      <4>1. Sound(e.at) /\ e.at >= e.at
        BY <1>0, <1>1, <3>1
      <4> QED BY <1>2, <3>1, <4>1
    <3>3. i <= e.at
      BY <2>0, <3>2
    <3> QED BY <1>1, <2>1, <3>1, <3>3
  <2>3. r.rc = "ok" <=> file.ents[i].key = key
    BY <2>0, <2>1, <2>2
  <2>4. r.d.buf = file.ents[i].key /\ r.d.rec = file.ents[i].rec
    BY <2>0, <2>1 DEF Sound
  <2>5. CASE S = {}
    <3>1. r.rc # "ok"
      BY <1>4, <2>1, <2>3, <2>5
    <3> QED BY <2>5, <3>1 DEF UpFinds, S, r
  <2>6. CASE S # {}
    <3>1. PICK j \in S : TRUE
      BY <2>6
    <3>2. j \in G /\ j \in DOMAIN file.ents /\ file.ents[j].key = key /\ i <= j
      BY <1>3, <1>4, <2>0, <3>1
    <3>3. file.ents[i].key <= file.ents[j].key
      <4>1. i = j \/ i < j
        BY <1>1, <2>1, <3>2
      <4>2. i < j => Less(file.ents[i], file.ents[j])
        BY <1>1, <2>1, <3>2 DEF Sorted
      <4> QED BY <1>1, <2>1, <3>2, <4>1, <4>2 DEF Less
    <3>4. file.ents[i].key = key
      BY <1>1, <2>1, <3>2, <3>3
    <3>5. i \in S /\ \A x \in S : i <= x
      BY <1>4, <2>0, <2>1, <3>4
    <3>6. S \subseteq Nat
      BY <1>1, <1>3, <1>4
    <3>7. Min(S) = i
      <4>1. Min(S) \in S /\ \A x \in S : Min(S) <= x
        BY <3>5, <3>6, LeastIs
      <4>2. Min(S) <= i /\ i <= Min(S) /\ i \in Nat /\ Min(S) \in Nat
        BY <3>5, <3>6, <4>1
      <4> QED BY <4>2
    <3>8. r.rc = "ok" /\ r.d.buf = key /\ r.d.rec = file.ents[Min(S)].rec
      BY <2>3, <2>4, <3>4, <3>7
    <3> QED BY <2>6, <3>8 DEF UpFinds, S, r
  <2> QED BY <2>5, <2>6
<1> QED BY <1>6, <1>7

(* At an entry, with nothing half written. *)
LEMMA ChecksHere ==
  ASSUME TypeOK, TagTrue, half = NoHalf, NEW e \in Place(file), e.at \in DOMAIN file.ents,
         NEW key \in Nat, NEW rc
  PROVE  /\ SeekCheck(file, e, rc, key, mine).rc = rc
         /\ SeekCheck(file, e, rc, key, mine).d.buf = file.ents[e.at].key
         /\ SeekCheck(file, e, rc, key, mine).d.rec = file.ents[e.at].rec
<1> DEFINE G == Goods(file, e.at, key, mine)
           r == SeekCheck(file, e, rc, key, mine)
<1>1. /\ file \in FileType /\ Len(file.ents) \in Nat
      /\ DOMAIN file.ents = 1..Len(file.ents) /\ e.at \in Nat
      /\ \A j \in DOMAIN file.ents : Sound(j)
  <2>1. file \in FileType /\ Len(file.ents) \in Nat /\ DOMAIN file.ents = 1..Len(file.ents)
        /\ \A j \in DOMAIN file.ents : Sound(j)
    BY FileIs
  <2> QED BY <2>1
<1>0. file \in FileType /\ mine \in BOOLEAN
  BY <1>1 DEF TypeOK
<1>2. e.at \in G /\ \A j \in G : j >= e.at /\ j \in Nat
  BY <1>1 DEF Goods, Sound
<1>3. PICK i \in G :
      /\ \A j \in G : i <= j
      /\ r.d.rec = file.ents[i].rec /\ r.d.buf = file.key[file.ents[i].rec]
      /\ r.rc = IF mine \/ i = e.at THEN rc
                ELSE IF file.ents[i].key = key THEN "ok" ELSE "after"
  <2>1. G # {}
    BY <1>2
  <2> HIDE DEF r
  <2>2. SeekChecks(file, e, rc, key, mine, r)
    BY <1>0, SeekCheckIs DEF r
  <2> QED BY <2>1, <2>2 DEF SeekChecks
<1> HIDE DEF G, r
<1>4. i = e.at
  BY <1>1, <1>2, <1>3
<1>5. r.rc = rc /\ r.d.buf = file.ents[e.at].key /\ r.d.rec = file.ents[e.at].rec
  BY <1>1, <1>3, <1>4 DEF Sound
<1> QED BY <1>5 DEF r

Finds(r, key) ==
  LET S == SoundFor(key)
  IN  /\ S = {} => r.rc # "ok"
      /\ S # {} => /\ r.rc = "ok" /\ r.d.buf = key
                   /\ r.d.rec = file.ents[IF file.desc THEN Max(S) ELSE Min(S)].rec

LEMMA SeekFinds ==
  ASSUME TypeOK, TagTrue, mine => half = NoHalf, file.desc => half = NoHalf,
         NEW e \in Place(file), NEW key \in Nat
  PROVE  Finds(Seek(file, e, key, mine), key)
<1> DEFINE T == {j \in DOMAIN file.ents : IF file.desc THEN file.ents[j].key <= key ELSE file.ents[j].key >= key}
           t == TagSeek(file, e, key)
           i == IF T = {} THEN Len(file.ents) + 1 ELSE IF file.desc THEN Max(T) ELSE Min(T)
           S == SoundFor(key)
           r == Seek(file, e, key, mine)
<1>1. /\ file \in FileType /\ Sorted(file.ents) /\ Len(file.ents) \in Nat
      /\ DOMAIN file.ents = 1..Len(file.ents)
      /\ \A j \in DOMAIN file.ents : file.ents[j].key \in Nat
  BY FileIs
<1>2. t = Res([e EXCEPT !.at = i], IF T = {} THEN "eof" ELSE IF file.ents[i].key = key THEN "ok" ELSE "after")
  BY DEF TagSeek
<1>3. t.d \in Place(file)
  BY <1>1, TagSeekPlace
<1>4. r = SeekCheck(file, t.d, t.rc, key, mine)
  BY DEF Seek
<1>5. T # {} => Max(T) \in T /\ Min(T) \in T /\ (\A x \in T : Min(T) <= x /\ x <= Max(T))
  <2>1. T \subseteq Nat /\ T \subseteq 0..Len(file.ents)
    BY <1>1
  <2> HIDE DEF T
  <2> QED BY <1>1, <2>1, LeastIs, GreatestIs
<1>6. t.d.at = i
  <2>1. [e EXCEPT !.at = i].at = i
    BY DEF Place
  <2>2. t.d = [e EXCEPT !.at = i]
    BY <1>2 DEF Res
  <2> HIDE DEF i, t
  <2> QED BY <2>1, <2>2
<1>7. t.rc = IF T = {} THEN "eof" ELSE IF file.ents[i].key = key THEN "ok" ELSE "after"
  <2> HIDE DEF i, T, t
  <2> QED BY <1>2 DEF Res
<1>8. S \subseteq T /\ (\A j \in S : file.ents[j].key = key) /\ S \subseteq DOMAIN file.ents
  <2>1. \A j \in S : j \in DOMAIN file.ents /\ file.ents[j].key = key
    BY DEF SoundFor
  <2>2. \A j \in DOMAIN file.ents : file.ents[j].key = key => j \in T
    BY <1>1
  <2> QED BY <2>1, <2>2
<1>9. CASE ~file.desc
  <2>1. \A j \in DOMAIN file.ents : j >= t.d.at <=> j \in T
    <3> TAKE j \in DOMAIN file.ents
    <3>1. CASE T = {}
      <4>1. i = Len(file.ents) + 1
        BY <3>1
      <4> HIDE DEF i, T
      <4> QED BY <1>1, <1>6, <3>1, <4>1
    <3>2. CASE T # {}
      <4>1. i = Min(T) /\ i \in T /\ i \in DOMAIN file.ents
        BY <1>5, <1>9, <3>2
      <4>2. j \in T => i <= j
        BY <1>5, <3>2, <4>1
      <4>3. ASSUME j >= i PROVE j \in T
        <5>1. j = i \/ i < j
          BY <1>1, <4>1, <4>3
        <5>2. i < j => Less(file.ents[i], file.ents[j])
          BY <1>1, <4>1 DEF Sorted
        <5>3. file.ents[i].key >= key
          BY <1>9, <4>1
        <5>4. file.ents[j].key >= key
          <6>1. file.ents[i].key \in Nat /\ file.ents[j].key \in Nat
            BY <1>1, <4>1
          <6> HIDE DEF i, T, t, r, S
          <6>2. CASE j = i
            BY <5>3, <6>2
          <6>3. CASE i < j
            BY <5>2, <5>3, <6>1, <6>3 DEF Less
          <6> QED BY <5>1, <6>2, <6>3
        <5> QED BY <1>9, <5>4
      <4>4. i \in Nat /\ j \in Nat
        BY <1>1, <4>1
      <4> HIDE DEF i, T
      <4> QED BY <1>6, <4>2, <4>3, <4>4
    <3> QED BY <3>1, <3>2
  <2>2. \A j \in DOMAIN file.ents : j >= t.d.at => file.ents[j].key >= key
    BY <1>9, <2>1
  <2>3. t.d.at \in DOMAIN file.ents => (t.rc = "ok" <=> file.ents[t.d.at].key = key)
    <3> SUFFICES ASSUME t.d.at \in DOMAIN file.ents PROVE t.rc = "ok" <=> file.ents[t.d.at].key = key
      OBVIOUS
    <3>1. t.d.at \in T
      BY <1>1, <2>1
    <3> HIDE DEF T, i, t
    <3> QED BY <1>6, <1>7, <3>1
  <2>4. S = {j \in SoundFor(key) : j >= t.d.at}
    BY <1>8, <2>1
  <2> HIDE DEF t, T, i, r, S
  <2>5. UpFinds(r, key, t.d.at)
    BY <1>3, <1>4, <2>2, <2>3, ChecksUp
  <2>6. /\ S = {} => r.rc # "ok"
        /\ S # {} => r.rc = "ok" /\ r.d.buf = key /\ r.d.rec = file.ents[Min(S)].rec
    BY <2>4, <2>5 DEF UpFinds
  <2> QED BY <1>9, <2>6 DEF Finds, S, r
<1>10. CASE file.desc
  <2>1. CASE T = {}
    <3>1. i = Len(file.ents) + 1
      BY <2>1
    <3>2. Goods(file, t.d.at, key, mine) = {}
      <4> HIDE DEF i, t
      <4> QED BY <1>1, <1>6, <3>1 DEF Goods
    <3>3. S = {}
      BY <1>8, <2>1
    <3> HIDE DEF i, t, S, r
    <3>4. r.rc = "eof"
      <4>1. mine \in BOOLEAN
        BY DEF TypeOK
      <4>2. SeekChecks(file, t.d, t.rc, key, mine, r)
        BY <1>1, <1>3, <1>4, <4>1, SeekCheckIs
      <4> QED BY <3>2, <4>2 DEF SeekChecks
    <3> QED BY <3>3, <3>4 DEF Finds, S, r
  <2>2. CASE T # {}
    <3>1. i = Max(T) /\ i \in T /\ i \in DOMAIN file.ents /\ file.ents[i].key <= key
      BY <1>5, <1>10, <2>2
    <3>2. \A x \in T : x <= i
      BY <1>5, <2>2, <3>1
    <3> HIDE DEF i, t, S, r, T
    <3>3. r.rc = t.rc /\ r.d.buf = file.ents[i].key /\ r.d.rec = file.ents[i].rec
      BY <1>3, <1>4, <1>6, <1>10, <3>1, ChecksHere
    <3>4. r.rc = "ok" <=> file.ents[i].key = key
      BY <1>7, <2>2, <3>3
    <3>5. CASE S = {}
      <4>1. Sound(i)
        BY <1>10, <3>1, FileIs
      <4>2. file.ents[i].key # key
        BY <3>1, <3>5, <4>1 DEF S, SoundFor
      <4> QED BY <3>4, <3>5, <4>2 DEF Finds, S, r
    <3>6. CASE S # {}
      <4>1. PICK j \in S : TRUE
        BY <3>6
      <4>2. j \in T /\ j \in DOMAIN file.ents /\ file.ents[j].key = key /\ j <= i
        BY <1>8, <3>2, <4>1
      <4>3. j = i \/ Less(file.ents[j], file.ents[i])
        BY <1>1, <3>1, <4>2 DEF Sorted
      <4>4. file.ents[i].key = key
        BY <1>1, <3>1, <4>2, <4>3 DEF Less
      <4>5. i \in S
        BY <1>10, <3>1, <4>4, FileIs DEF S, SoundFor
      <4>6. S # {} /\ S \subseteq 0..Len(file.ents)
        BY <1>1, <1>8, <3>6
      <4>7. Max(S) \in S /\ \A x \in S : x <= Max(S)
        BY <1>1, <4>6, GreatestIs
      <4>8. i <= Max(S) /\ Max(S) <= i /\ i \in Nat /\ Max(S) \in Nat
        BY <1>1, <1>8, <3>1, <3>2, <4>5, <4>7
      <4>9. Max(S) = i
        BY <4>8
      <4>10. r.rc = "ok" /\ r.d.buf = key /\ r.d.rec = file.ents[Max(S)].rec
        BY <3>3, <3>4, <4>4, <4>9
      <4> QED BY <1>10, <3>6, <4>10 DEF Finds, S, r
    <3> QED BY <3>5, <3>6
  <2> QED BY <2>1, <2>2
<1> QED BY <1>9, <1>10 DEF FileType


------------------------------------------------------------------------------
(* What d4seekNext finds.                                                   *)

(* Among sound entries the program's order is the tag's. *)
LEMMA AheadIs ==
  ASSUME TypeOK, TagTrue, file.sel, NEW i \in DOMAIN file.ents, NEW j \in DOMAIN file.ents,
         Sound(i), Sound(j)
  PROVE  Ahead(file.ents[i].rec, file.ents[j].rec) <=> IF file.desc THEN j < i ELSE i < j
<1>1. i \in Nat /\ j \in Nat /\ (i < j <=> Less(file.ents[i], file.ents[j]))
  BY FileIs DEF Sorted
<1>2. file.ents[i].rec = file.ents[j].rec <=> i = j
  BY DEF TagTrue, OneEach
<1>3. file.key[file.ents[i].rec] = file.ents[i].key /\ file.key[file.ents[j].rec] = file.ents[j].key
  BY DEF Sound
<1>4. Ahead(file.ents[i].rec, file.ents[j].rec) <=>
        i # j /\ IF file.desc THEN ~(i < j) ELSE i < j
  BY <1>1, <1>2, <1>3 DEF Ahead, Less
<1> QED BY <1>1, <1>4

(* The tag is brought to the entry of the program's record. *)
LEMMA SeekNextStands ==
  ASSUME TypeOK, TagTrue, NEW e \in Place(file), NEW lost, NEW key \in Nat,
         NEW i \in SoundFor(key), file.ents[i].rec = e.rec, e.buf = key
  PROVE  \E x \in Place(file) :
           /\ x.at = i
           /\ SeekNext(file, e, key, mine, lost) = NextOfKey(file, DSkip(file, x, 1), key, mine)
<1>1. /\ file \in FileType /\ Sorted(file.ents) /\ i \in DOMAIN file.ents /\ Sound(i)
      /\ file.ents[i].key = key /\ file.ents[i].rec \in 1..MaxRec
      /\ file.ents[i].rec <= file.n /\ file.key[file.ents[i].rec] = key
  BY FileIs DEF SoundFor, Sound
<1>2. CASE Stands(file, e, lost)
  <2>1. TagRec(file, e) = e.rec /\ e.rec # -1
    BY <1>1, <1>2, BoundAssumption DEF Stands
  <2>2. e.at \in 1..Len(file.ents) /\ file.ents[e.at].rec = e.rec
    BY <1>1, <2>1, TagRecIs
  <2>3. e.at = i
    BY <1>1, <2>2, FileIs DEF TagTrue, OneEach
  <2>4. SeekNext(file, e, key, mine, lost) = NextOfKey(file, DSkip(file, e, 1), key, mine)
    BY <1>2 DEF SeekNext
  <2> QED BY <2>3, <2>4
<1>3. CASE ~Stands(file, e, lost)
  <2> DEFINE read == IF mine THEN Res(e, "ok") ELSE Go(file, e, e.rec)
             t == TagGo(file, read.d, read.d.buf, e.rec)
  <2>1. e.rec \in Int /\ e.rec \in 1..file.n /\ file.n \in Nat
    BY <1>1, BoundAssumption DEF FileType
  <2>2. read.rc = "ok" /\ read.d \in Place(file) /\ read.d.buf = key
    <3>1. CASE mine
      BY <3>1 DEF Res
    <3>2. CASE ~mine
      <4> DEFINE g == Go(file, e, e.rec)
      <4>1. g.d \in Place(file) /\ g.rc = "ok"
            /\ g.d = [e EXCEPT !.rec = e.rec, !.buf = file.key[e.rec], !.bof = FALSE, !.eof = FALSE]
        BY <1>1, <2>1, GoPlace
      <4>2. e \in [rec : {-1} \cup (Nat \ {0}), bof : BOOLEAN, eof : BOOLEAN, buf : Nat,
                   at : 1..(Len(file.ents) + 1)]
        BY DEF Place
      <4> HIDE DEF g
      <4>3. g.d.buf = key
        BY <1>1, <4>1, <4>2
      <4> QED BY <3>2, <4>1, <4>3 DEF g
    <3> QED BY <3>1, <3>2
  <2> HIDE DEF read
  <2>3. t.d = [read.d EXCEPT !.at = i] /\ t.d \in Place(file)
    BY <1>1, <2>2, GoesToEntry
  <2>4. t.d.at = i /\ t.d.buf = key
    <3> HIDE DEF t
    <3> QED BY <2>2, <2>3 DEF Place
  <2>5. SeekNext(file, e, key, mine, lost) = NextOfKey(file, DSkip(file, t.d, 1), key, mine)
    BY <1>3, <2>2, <2>4 DEF SeekNext, read
  <2> QED BY <2>3, <2>4, <2>5
<1> QED BY <1>2, <1>3

FindsNext(r, key, rec) ==
  LET rest == {j \in SoundFor(key) : Ahead(rec, file.ents[j].rec)}
  IN  /\ rest = {} => r.rc # "ok"
      /\ rest # {} => /\ r.rc = "ok"
                      /\ r.d.rec = file.ents[IF file.desc THEN Max(rest) ELSE Min(rest)].rec

LEMMA SeekNextFinds ==
  ASSUME TypeOK, TagTrue, file.sel, mine => half = NoHalf, file.desc => half = NoHalf,
         NEW e \in Place(file), NEW lost, NEW key \in Nat,
         NEW i \in SoundFor(key), file.ents[i].rec = e.rec, e.buf = key
  PROVE  FindsNext(SeekNext(file, e, key, mine, lost), key, e.rec)
<1> DEFINE rest == {j \in SoundFor(key) : Ahead(e.rec, file.ents[j].rec)}
           r == SeekNext(file, e, key, mine, lost)
           to == i + Dir(file, 1)
<1>1. /\ file \in FileType /\ Sorted(file.ents) /\ Len(file.ents) \in Nat
      /\ DOMAIN file.ents = 1..Len(file.ents)
      /\ \A j \in DOMAIN file.ents : file.ents[j].key \in Nat
      /\ file.desc \in BOOLEAN /\ mine \in BOOLEAN
  BY FileIs DEF TypeOK, FileType
<1>2. i \in DOMAIN file.ents /\ Sound(i) /\ file.ents[i].key = key /\ i \in Nat
  BY <1>1 DEF SoundFor
<1>3. \A j : j \in rest <=> j \in SoundFor(key) /\ IF file.desc THEN j < i ELSE i < j
  <2> SUFFICES ASSUME NEW j \in SoundFor(key)
               PROVE  Ahead(e.rec, file.ents[j].rec) <=> IF file.desc THEN j < i ELSE i < j
    OBVIOUS
  <2>1. j \in DOMAIN file.ents /\ Sound(j)
    BY DEF SoundFor
  <2> QED BY <1>2, <2>1, AheadIs
<1>4. Dir(file, 1) = IF file.desc THEN -1 ELSE 1
  BY <1>1 DEF Dir
<1>5. to = (IF file.desc THEN i - 1 ELSE i + 1) /\ to \in Int
  BY <1>2, <1>4
<1>6. PICK x \in Place(file) : x.at = i /\ r = NextOfKey(file, DSkip(file, x, 1), key, mine)
  BY SeekNextStands
<1> DEFINE p == DSkip(file, x, 1)
<1>7. /\ to \in DOMAIN file.ents => p.d = [x EXCEPT !.at = to] /\ p.done = 1
      /\ to \notin DOMAIN file.ents => p.d = x /\ p.done = 0
  <2>1. x.at \in DOMAIN file.ents /\ 1 \in {-1, 1}
    BY <1>2, <1>6
  <2> QED BY <1>1, <1>6, <2>1, DSkipOne
<1>8. p.d \in Place(file)
  <2>1. 1 \in Int
    OBVIOUS
  <2> QED BY <1>1, <2>1, DSkipPlace
<1>9. \A j \in SoundFor(key) : j \in DOMAIN file.ents /\ j \in Nat /\ Sound(j) /\ file.ents[j].key = key
  BY <1>1 DEF SoundFor
<1>10. r = NextOfKey(file, p, key, mine)
  BY <1>6
<1> HIDE DEF p, r, rest, to
<1>11. CASE to \notin DOMAIN file.ents
  <2>1. r = GoEof(file, p.d)
    BY <1>7, <1>10, <1>11 DEF NextOfKey
  <2>2. r.rc = "eof"
    BY <1>1, <1>8, <2>1, GoEofPlace
  <2>3. rest = {}
    <3> SUFFICES ASSUME NEW j \in rest PROVE FALSE
      OBVIOUS
    <3>1. j \in 1..Len(file.ents) /\ i \in 1..Len(file.ents) /\ (IF file.desc THEN j < i ELSE i < j)
      BY <1>1, <1>2, <1>3, <1>9
    <3>2. to \in 1..Len(file.ents)
      BY <1>1, <1>5, <3>1
    <3> QED BY <1>1, <1>11, <3>2
  <2> QED BY <2>2, <2>3 DEF FindsNext, rest, r
<1>12. CASE to \in DOMAIN file.ents
  <2> DEFINE hit == file.ents[to].key = key
             s == SeekCheck(file, p.d, IF hit THEN "ok" ELSE "entry", key, mine)
  <2>1. p.d.at = to /\ p.done = 1
    <3>1. [x EXCEPT !.at = to].at = to
      BY <1>6 DEF Place
    <3> QED BY <1>7, <1>12, <3>1
  <2>2. TagKey(file, p.d) = file.ents[to].key
    BY <2>1 DEF TagKey
  <2>3. r = IF hit THEN s ELSE Res(s.d, "entry")
    BY <1>10, <2>1, <2>2 DEF NextOfKey
  <2>4. (IF hit THEN "ok" ELSE "entry") = "ok" <=> hit
    OBVIOUS
  <2> DEFINE rc == IF hit THEN "ok" ELSE "entry"
  <2>5. CASE ~file.desc
    <3>1. \A j \in DOMAIN file.ents : j >= to <=> i < j
      BY <1>1, <1>2, <1>5, <2>5
    <3>2. \A j \in DOMAIN file.ents : j >= to => file.ents[j].key >= key
      <4> SUFFICES ASSUME NEW j \in DOMAIN file.ents, j >= to PROVE file.ents[j].key >= key
        OBVIOUS
      <4>1. Less(file.ents[i], file.ents[j])
        BY <1>1, <1>2, <3>1 DEF Sorted
      <4>2. file.ents[j].key \in Nat
        BY <1>1
      <4> QED BY <1>2, <4>1, <4>2 DEF Less
    <3>3. p.d.at \in DOMAIN file.ents => (rc = "ok" <=> file.ents[p.d.at].key = key)
      BY <2>1, <2>4
    <3>4. rest = {j \in SoundFor(key) : j >= p.d.at}
      BY <1>3, <1>9, <2>1, <2>5, <3>1
    <3>5. \A j \in DOMAIN file.ents : j >= p.d.at => file.ents[j].key >= key
      BY <2>1, <3>2
    <3>6. s = SeekCheck(file, p.d, rc, key, mine)
      OBVIOUS
    <3>7. ~hit => rest = {}
      <4> SUFFICES ASSUME ~hit, NEW j \in rest PROVE FALSE
        OBVIOUS
      <4>1. j \in DOMAIN file.ents /\ file.ents[j].key = key /\ j >= to
        BY <1>3, <1>9, <2>5, <3>1
      <4>2. j # to
        BY <4>1
      <4>3. Less(file.ents[to], file.ents[j])
        BY <1>1, <1>5, <1>12, <4>1, <4>2 DEF Sorted
      <4>4. file.ents[to].key \in Nat /\ file.ents[to].key >= key
        BY <1>1, <1>12, <1>5, <3>2
      <4> QED BY <4>1, <4>3, <4>4 DEF Less
    <3> HIDE DEF s, rc
    <3>8. UpFinds(s, key, p.d.at)
      BY <1>8, <3>3, <3>5, <3>6, ChecksUp
    <3> HIDE DEF hit
    <3>9. CASE hit
      <4>1. r = s
        BY <2>3, <3>9
      <4>2. /\ rest = {} => r.rc # "ok"
            /\ rest # {} => r.rc = "ok" /\ r.d.rec = file.ents[Min(rest)].rec
        BY <3>4, <3>8, <4>1 DEF UpFinds
      <4> QED BY <2>5, <4>2 DEF FindsNext, r, rest
    <3>10. CASE ~hit
      <4>1. r.rc # "ok" /\ rest = {}
        BY <2>3, <3>7, <3>10 DEF Res
      <4> QED BY <4>1 DEF FindsNext, r, rest
    <3> QED BY <3>9, <3>10
  <2>6. CASE file.desc
    <3>1. Sound(to) /\ half = NoHalf /\ to = i - 1
      BY <1>5, <1>12, <2>6, FileIs
    <3>2. s.rc = rc /\ s.d.rec = file.ents[to].rec
      BY <1>8, <1>12, <2>1, <3>1, ChecksHere
    <3> HIDE DEF s
    <3>3. CASE hit
      <4>1. to \in rest
        <5>1. to \in SoundFor(key)
          BY <1>12, <3>1, <3>3 DEF SoundFor
        <5> QED BY <1>2, <1>3, <2>6, <3>1, <5>1
      <4>2. \A j \in rest : j <= to /\ j \in 0..Len(file.ents)
        BY <1>1, <1>2, <1>3, <1>9, <2>6, <3>1
      <4>3. Max(rest) \in rest /\ \A j \in rest : j <= Max(rest)
        BY <1>1, <4>1, <4>2, GreatestIs
      <4>4. Max(rest) = to
        <5>1. Max(rest) \in 0..Len(file.ents) /\ Max(rest) <= to /\ to <= Max(rest)
          BY <4>1, <4>2, <4>3
        <5> QED BY <1>1, <1>5, <5>1
      <4>5. r.rc = "ok" /\ r.d.rec = file.ents[Max(rest)].rec /\ rest # {}
        BY <2>3, <3>2, <3>3, <4>1, <4>4
      <4> QED BY <2>6, <4>5 DEF FindsNext, r, rest
    <3>4. CASE ~hit
      <4>1. r.rc # "ok"
        BY <2>3, <3>4 DEF Res
      <4>2. rest = {}
        <5> SUFFICES ASSUME NEW j \in rest PROVE FALSE
          OBVIOUS
        <5>1. j \in DOMAIN file.ents /\ file.ents[j].key = key /\ j < i
          BY <1>3, <1>9, <2>6
        <5>2. j # to
          BY <3>4, <5>1
        <5>3. j < to /\ to < i
          BY <1>1, <1>2, <3>1, <5>1, <5>2
        <5>4. Less(file.ents[j], file.ents[to]) /\ Less(file.ents[to], file.ents[i])
          BY <1>1, <1>2, <1>12, <5>1, <5>3 DEF Sorted
        <5>5. file.ents[to].key \in Nat
          BY <1>1, <1>12
        <5>6. file.ents[to].key = key
          BY <1>1, <1>2, <5>1, <5>4, <5>5 DEF Less
        <5> QED BY <3>4, <5>6
      <4> QED BY <4>1, <4>2 DEF FindsNext, r, rest
    <3> QED BY <3>3, <3>4
  <2> QED BY <1>1, <2>5, <2>6
<1> QED BY <1>11, <1>12

------------------------------------------------------------------------------
(* What every step keeps of the file, the tag and the place.                *)
Core == TypeOK /\ TagTrue /\ HalfTrue

(* What a call works on. *)
Shown(c) ==
  /\ c.ents \in Seq(EntryType) /\ c.ents \in {file.ents, tag}
  /\ Seen(c.ents) \in FileType /\ c.d \in Place(Seen(c.ents))

LEMMA PlacesAre ==
  ASSUME TypeOK
  PROVE  /\ file \in FileType /\ Seen(tag) \in FileType /\ Seen(file.ents) = file
         /\ Shown(AsIs) /\ AsIs.d = d
         /\ \A x, r : Go(Seen(tag), x, r) = Go(file, x, r)
         /\ \A x : GoEof(Seen(tag), x) = GoEof(file, x)
<1>1. file \in FileType /\ Seen(tag) \in FileType /\ Seen(file.ents) = file /\ tag \in Seq(EntryType)
  BY SeenIs DEF TypeOK
<1>2. Seen(tag).n = file.n /\ Seen(tag).key = file.key
  <2>1. file \in [n : 0..MaxRec, key : [1..MaxRec -> Nat], ents : Seq(EntryType),
                  desc : BOOLEAN, sel : BOOLEAN]
    BY <1>1 DEF FileType
  <2> QED BY <2>1 DEF Seen
<1>3. \A x, r : Go(Seen(tag), x, r) = Go(file, x, r)
  BY <1>2 DEF Go
<1>4. \A x : GoEof(Seen(tag), x) = GoEof(file, x)
  BY <1>2 DEF GoEof
<1>5. AsIs = [ents |-> tag, d |-> d, lost |-> FALSE]
  BY DEF AsIs, Blocks
<1>6. Shown(AsIs) /\ AsIs.d = d
  BY <1>1, <1>5 DEF Shown, TypeOK
<1> QED BY <1>1, <1>3, <1>4, <1>6

LEMMA CheckedShown ==
  ASSUME TypeOK, TagTrue, NEW e \in Place(Seen(tag)), NEW seek \in BOOLEAN
  PROVE  Shown(Checked(e, seek)) /\ Seen(Checked(e, seek).ents) = file
<1> DEFINE c == Checked(e, seek)
<1>1. c.ents = file.ents /\ c.d \in Place(file)
  BY CheckedIs
<1> HIDE DEF c
<1>2. file \in FileType /\ Seen(file.ents) = file /\ file.ents \in Seq(EntryType)
  BY PlacesAre DEF FileType
<1>3. Shown(c) /\ Seen(c.ents) = file
  BY <1>1, <1>2 DEF Shown
<1> QED BY <1>3 DEF c

LEMMA ViewShown ==
  ASSUME TypeOK, TagTrue, NEW seek \in BOOLEAN
  PROVE  Shown(View(seek))
<1>1. d \in Place(Seen(tag))
  BY DEF TypeOK
<1> QED BY <1>1, PlacesAre, CheckedShown DEF View

(* A call that is not d4positionSet, on what it is shown. *)
LEMMA ShownKeeps ==
  ASSUME Core, NEW op, NEW arg, NEW c, NEW r, Shown(c), op # "set",
         r.d \in Place(Seen(c.ents)), Calls(op, arg, c.ents, r)
  PROVE  Core'
<1>1. Sees(op, c.ents)
  BY DEF Shown, Sees
<1> QED BY <1>1, CallKeeps DEF Core

LEMMA TopKeeps == ASSUME Core, Top PROVE Core'
<1>1. PICK c \in {View(FALSE)} : Calls("top", 0, c.ents, DTop(Seen(c.ents), c.d))
  BY DEF Top
<1>2. Shown(c)
  BY <1>1, ViewShown DEF Core
<1>3. DTop(Seen(c.ents), c.d).d \in Place(Seen(c.ents))
  BY <1>2, EndsPlace DEF Shown
<1> QED BY <1>1, <1>2, <1>3, ShownKeeps

LEMMA BottomKeeps == ASSUME Core, Bottom PROVE Core'
<1>1. PICK c \in {View(FALSE)} : Calls("bottom", 0, c.ents, DBottom(Seen(c.ents), c.d))
  BY DEF Bottom
<1>2. Shown(c)
  BY <1>1, ViewShown DEF Core
<1>3. DBottom(Seen(c.ents), c.d).d \in Place(Seen(c.ents))
  BY <1>2, EndsPlace DEF Shown
<1> QED BY <1>1, <1>2, <1>3, ShownKeeps

LEMMA GoBofKeeps == ASSUME Core, GoBof PROVE Core'
<1>1. PICK c \in {View(FALSE)} : \E t \in {DTop(Seen(c.ents), c.d)} :
             Calls("gobof", 0, c.ents, Res([t.d EXCEPT !.bof = TRUE], "bof"))
  BY DEF GoBof
<1>2. PICK t \in {DTop(Seen(c.ents), c.d)} :
             Calls("gobof", 0, c.ents, Res([t.d EXCEPT !.bof = TRUE], "bof"))
  BY <1>1
<1>3. Shown(c)
  BY <1>1, ViewShown DEF Core
<1>4. t.d \in Place(Seen(c.ents))
  BY <1>2, <1>3, EndsPlace DEF Shown
<1>5. Res([t.d EXCEPT !.bof = TRUE], "bof").d \in Place(Seen(c.ents))
  BY <1>3, <1>4, PlaceExcept DEF Res, Shown
<1> QED BY <1>2, <1>3, <1>5, ShownKeeps

LEMMA GoKeeps == ASSUME Core, DoGo PROVE Core'
<1>1. PICK r \in 1..MaxRec : Calls("go", r, tag, Go(file, d, r))
  BY DEF DoGo
<1>2. r \in Int /\ Shown(AsIs) /\ AsIs.ents = tag /\ d \in Place(Seen(tag)) /\ Seen(tag) \in FileType
      /\ Go(Seen(tag), d, r) = Go(file, d, r)
  BY <1>1, BoundAssumption, PlacesAre DEF Core, TypeOK, AsIs, Blocks
<1>3. Go(Seen(tag), d, r).d \in Place(Seen(tag))
  BY <1>2, GoPlace
<1>4. Go(file, d, r).d \in Place(Seen(AsIs.ents))
  BY <1>2, <1>3
<1> QED BY <1>1, <1>2, <1>4, ShownKeeps

LEMMA SkipKeeps == ASSUME Core, DoSkip PROVE Core'
<1>1. PICK n \in Steps : \E c \in {Skipping(n)} :
            Calls("skip", n, c.ents, DSkipRec(Seen(c.ents), c.d, n))
  BY DEF DoSkip
<1>2. PICK c \in {Skipping(n)} : Calls("skip", n, c.ents, DSkipRec(Seen(c.ents), c.d, n))
  BY <1>1
<1>3. Shown(c)
  <2>1. (~d.eof) \in BOOLEAN
    OBVIOUS
  <2> QED BY <1>2, <2>1, ViewShown, PlacesAre DEF Core, Skipping
<1>4. DSkipRec(Seen(c.ents), c.d, n).d \in Place(Seen(c.ents))
  BY <1>3, DSkipRecPlace, BoundAssumption DEF Shown
<1> QED BY <1>2, <1>3, <1>4, ShownKeeps

LEMMA SeekKeeps == ASSUME Core, DoSeek PROVE Core'
<1>1. PICK k \in Keys, c \in {Checked(d, FALSE)} :
               Calls("seek", k, c.ents, Seek(Seen(c.ents), c.d, k, mine))
  BY DEF DoSeek
<1>2. Shown(c) /\ mine \in BOOLEAN
  BY <1>1, CheckedShown DEF Core, TypeOK
<1>3. Seek(Seen(c.ents), c.d, k, mine).d \in Place(Seen(c.ents))
  BY <1>2, SeekPlace DEF Shown
<1> QED BY <1>1, <1>2, <1>3, ShownKeeps

LEMMA SeekNextKeeps == ASSUME Core, DoSeekNext PROVE Core'
<1>1. PICK k \in Keys, c \in {Checked(d, FALSE)} :
               Calls("next", k, c.ents, SeekNext(Seen(c.ents), c.d, k, mine, c.lost))
  BY DEF DoSeekNext
<1>2. Shown(c) /\ mine \in BOOLEAN
  BY <1>1, CheckedShown DEF Core, TypeOK
<1>3. SeekNext(Seen(c.ents), c.d, k, mine, c.lost).d \in Place(Seen(c.ents))
  BY <1>2, SeekNextPlace DEF Shown
<1> QED BY <1>1, <1>2, <1>3, ShownKeeps

LEMMA TagSyncKeeps == ASSUME Core, DoTagSync PROVE Core'
<1>1. PICK t \in {TagAt(Seen(tag), d)} :
         \E c \in {IF d.eof THEN Blocks(tag, t.d, FALSE) ELSE Checked(t.d, TRUE)} :
            Calls("sync", 0, c.ents, TagSync(Seen(c.ents), c.d, t.rc))
  BY DEF DoTagSync
<1>2. PICK c \in {IF d.eof THEN Blocks(tag, t.d, FALSE) ELSE Checked(t.d, TRUE)} :
            Calls("sync", 0, c.ents, TagSync(Seen(c.ents), c.d, t.rc))
  BY <1>1
<1>3. t.d \in Place(Seen(tag)) /\ tag \in Seq(EntryType) /\ Seen(tag) \in FileType
  BY <1>1, PlacesAre, TagSyncPlace DEF Core, TypeOK
<1>4. Shown(c)
  <2>1. CASE d.eof
    <3>1. c.ents = tag /\ c.d = t.d
      BY <1>2, <2>1 DEF Blocks
    <3> QED BY <1>3, <3>1 DEF Shown
  <2>2. CASE ~d.eof
    BY <1>2, <1>3, <2>2, CheckedShown DEF Core
  <2> QED BY <2>1, <2>2
<1>5. TagSync(Seen(c.ents), c.d, t.rc).d \in Place(Seen(c.ents))
  BY <1>4, TagSyncPlace DEF Shown
<1> QED BY <1>2, <1>4, <1>5, ShownKeeps

LEMMA PositionKeeps == ASSUME Core, DoPosition PROVE Core'
<1>1. PICK c \in {Checked(d, FALSE)} :
         Calls("position", 0, c.ents, Res(TagGo(Seen(c.ents), c.d, d.buf, d.rec).d, "ok"))
  BY DEF DoPosition
<1>2. Shown(c)
  BY <1>1, CheckedShown DEF Core, TypeOK
<1>3. TagGo(Seen(c.ents), c.d, d.buf, d.rec).d \in Place(Seen(c.ents))
  BY <1>2, TagGoPlace DEF Shown
<1>4. Res(TagGo(Seen(c.ents), c.d, d.buf, d.rec).d, "ok").d \in Place(Seen(c.ents))
  BY <1>3 DEF Res
<1> QED BY <1>1, <1>2, <1>4, ShownKeeps

LEMMA PositionSetKeeps == ASSUME Core, ~Jumps, DoPositionSet PROVE Core'
<1>1. /\ Seen(tag) \in FileType /\ file \in FileType /\ tag \in Seq(EntryType) /\ d \in Place(Seen(tag))
      /\ file.sel \in BOOLEAN /\ stale \in BOOLEAN
  BY PlacesAre DEF Core, TypeOK, FileType
<1>2. \A e \in Place(Seen(tag)), r \in Int : Go(Seen(tag), e, r).d \in Place(Seen(tag))
  BY <1>1, GoPlace
<1>3. Sees("set", tag)
  BY <1>1 DEF DoPositionSet, Sees, Core, TagTrue
<1>4. CASE file.sel
  <2>1. PICK i \in DOMAIN tag : Calls("set", i, tag, Jumped(i))
    BY <1>4 DEF DoPositionSet
  <2> DEFINE g == Go(Seen(tag), [d EXCEPT !.at = i], tag[i].rec)
             at == TagAt(Seen(tag), g.d)
             s == TagSync(Seen(tag), at.d, "ok")
             last == Go(Seen(tag), s.d, tag[i].rec)
  <2>2. tag[i] \in EntryType /\ tag[i].rec \in Int
    <3>1. tag[i] \in EntryType
      BY <1>1
    <3> QED BY <3>1, EntryIs
  <2>3. [d EXCEPT !.at = i] \in Place(Seen(tag))
    <3>1. i \in 1..(Len(tag) + 1) /\ Seen(tag).ents = tag
      BY <1>1, SeenIs DEF Core
    <3> QED BY <1>1, <3>1, PlaceExcept
  <2>4. g.d \in Place(Seen(tag))
    BY <1>2, <2>2, <2>3
  <2> HIDE DEF g
  <2>5. at.d \in Place(Seen(tag))
    BY <1>1, <2>4, TagSyncPlace
  <2> HIDE DEF at
  <2>6. s.d \in Place(Seen(tag))
    BY <1>1, <2>5, TagSyncPlace
  <2> HIDE DEF s
  <2>7. last.d \in Place(Seen(tag))
    BY <1>2, <2>2, <2>6
  <2> HIDE DEF last
  <2>8. Jumped(i).d \in Place(Seen(tag))
    BY <2>4, <2>6, <2>7 DEF Jumped, g, at, s, last
  <2> QED BY <1>3, <2>1, <2>8, CallKeeps DEF Core
<1>5. CASE ~file.sel
  <2>1. PICK arg, r : Calls("set", arg, tag, r) /\ r.d \in Place(Seen(tag))
    <3>1. CASE file.n = 0
      <4>1. GoEof(file, d).d \in Place(Seen(tag))
        BY <1>1, GoEofPlace, PlacesAre DEF Core
      <4> QED BY <1>5, <3>1, <4>1 DEF DoPositionSet
    <3>2. CASE file.n # 0
      <4>1. PICK x \in 1..file.n : Calls("set", x, tag, Go(file, d, x))
        BY <1>5, <3>2 DEF DoPositionSet
      <4>2. x \in Int
        BY <1>1, BoundAssumption DEF FileType
      <4>3. Go(file, d, x).d \in Place(Seen(tag))
        BY <1>1, <1>2, <4>2, PlacesAre DEF Core
      <4> QED BY <4>1, <4>3
    <3> QED BY <3>1, <3>2
  <2> QED BY <1>3, <2>1, CallKeeps DEF Core
<1> QED BY <1>1, <1>4, <1>5

LEMMA LocksKeep == ASSUME Core, LockFile \/ UnlockFile PROVE Core'
<1>1. /\ UNCHANGED <<file, tag, stale, d, half, walk>> /\ mine' \in BOOLEAN
      /\ mine' => half = NoHalf
      /\ \E op : call' = [call EXCEPT !.op = op]
  BY DEF LockFile, UnlockFile
<1>2. call' = [op |-> call'.op, arg |-> call'.arg, rc |-> call'.rc]
  BY <1>1 DEF Core, TypeOK
<1>3. TypeOK'
  BY <1>1, <1>2 DEF Core, TypeOK, Seen, Place
<1>4. TagTrue' /\ HalfTrue'
  BY <1>1 DEF Core, TagTrue, Sound, HalfTrue
<1> QED BY <1>3, <1>4 DEF Core

(* The other user begins a record. *)
LEMMA BeginsKeep == ASSUME Core, Appends \/ Rekeys PROVE Core'
<1>1. file \in FileType /\ file.n \in Nat /\ file.n <= MaxRec /\ MaxRec \in Nat /\ file.key \in [1..MaxRec -> Nat]
  BY BoundAssumption DEF Core, TypeOK, FileType
<1>2. PICK r \in 1..MaxRec, k \in Nat : Begin(r, k) /\ r <= file.n + 1
  <2>1. CASE Appends
    <3>1. file.n + 1 \in 1..MaxRec /\ file.n + 1 <= file.n + 1
      BY <1>1, <2>1 DEF Appends
    <3> QED BY <2>1, <3>1, BoundAssumption DEF Appends
  <2>2. CASE Rekeys
    <3>1. PICK x \in 1..file.n, k \in Keys : Begin(x, k)
      BY <2>2 DEF Rekeys
    <3>2. x \in 1..MaxRec /\ x <= file.n + 1 /\ k \in Nat
      BY <1>1, BoundAssumption
    <3> QED BY <3>1, <3>2
  <2> QED BY <2>1, <2>2
<1>3. /\ ~mine /\ half = NoHalf /\ half' = [rec |-> r, key |-> k, left |-> {"data", "tag"}]
      /\ walk' = Forget(r) /\ call' = [call EXCEPT !.op = "none"]
      /\ UNCHANGED <<file, tag, stale, d, mine>>
  BY <1>2 DEF Begin
<1>4. walk' \in WalkType
  <2>1. walk \in WalkType
    BY DEF Core, TypeOK, WalkType
  <2>2. [walk EXCEPT !.steady = walk.steady \ {r}] \in WalkType /\ NoWalk \in WalkType
    BY <2>1 DEF WalkType, NoWalk
  <2> QED BY <1>3, <2>2 DEF Forget
<1>5. TypeOK'
  <2>1. call' = [op |-> call'.op, arg |-> call'.arg, rc |-> call'.rc]
    BY <1>3 DEF Core, TypeOK
  <2> QED BY <1>3, <1>4, <2>1 DEF Core, TypeOK, Seen, Place, WalkType
<1>6. TagTrue'
  <2>1. half.rec = 0 /\ r # 0
    BY <1>3 DEF NoHalf
  <2>2. \A i \in DOMAIN file.ents : Sound(i)
    BY <1>3, FileIs DEF Core
  <2>3. \A x \in (1..file.n) \ {r} : x \in (1..file.n) \ {half.rec}
    BY <2>1
  <2> QED BY <1>3, <2>2, <2>3 DEF Core, TagTrue, Sound
<1>7. HalfTrue'
  <2>1. half'.rec = r /\ half'.key = k /\ half'.left = {"data", "tag"}
    BY <1>3
  <2> QED BY <1>2, <1>3, <2>1 DEF HalfTrue
<1> QED BY <1>5, <1>6, <1>7 DEF Core

(* What the disk gets of it. *)
LEMMA HalfIs ==
  ASSUME HalfTrue, half.left # {}
  PROVE  /\ ~mine /\ half.rec \in 1..MaxRec /\ half.rec <= file.n + 1 /\ half.key \in Nat
         /\ half.left \in (SUBSET {"data", "tag"}) \ {{}}
         /\ "data" \notin half.left => half.rec <= file.n /\ file.key[half.rec] = half.key
         /\ "tag" \notin half.left =>
              \E i \in DOMAIN file.ents : file.ents[i] = [key |-> half.key, rec |-> half.rec]
<1>1. half # NoHalf
  BY DEF NoHalf
<1> QED BY <1>1 DEF HalfTrue

LEMMA WriteRecordKeeps == ASSUME Core, WriteRecord PROVE Core'
<1> DEFINE n == IF half.rec > file.n THEN half.rec ELSE file.n
           h == half.rec
<1>1. /\ "data" \in half.left
      /\ half' = IF half.left = {"data"} THEN NoHalf ELSE [half EXCEPT !.left = half.left \ {"data"}]
      /\ call' = [call EXCEPT !.op = "none"] /\ UNCHANGED <<tag, d, mine, walk, stale>>
      /\ file' = [file EXCEPT !.n = n, !.key[h] = half.key]
  BY DEF WriteRecord, Publish
<1>2. /\ ~mine /\ h \in 1..MaxRec /\ h <= file.n + 1 /\ half.key \in Nat
      /\ half.left \in (SUBSET {"data", "tag"}) \ {{}}
      /\ "tag" \notin half.left =>
           \E i \in DOMAIN file.ents : file.ents[i] = [key |-> half.key, rec |-> half.rec]
  BY <1>1, HalfIs DEF Core
<1>3. file \in FileType /\ file.n \in Nat /\ file.n <= MaxRec /\ MaxRec \in Nat /\ file.key \in [1..MaxRec -> Nat]
  BY BoundAssumption DEF Core, TypeOK, FileType
<1>4. n \in 0..MaxRec /\ file.n <= n /\ h <= n /\ \A r \in 1..n : r = h \/ r \in 1..file.n
  BY <1>2, <1>3
<1> HIDE DEF n
<1>5. /\ file' \in FileType /\ file'.ents = file.ents /\ file'.desc = file.desc /\ file'.sel = file.sel
      /\ file'.n = n /\ file'.key = [file.key EXCEPT ![h] = half.key]
  <2>1. [file.key EXCEPT ![h] = half.key] \in [1..MaxRec -> Nat]
    BY <1>2, <1>3
  <2>2. file' = [file EXCEPT !.n = n, !.key = [file.key EXCEPT ![h] = half.key]]
    BY <1>1
  <2>3. file \in [n : 0..MaxRec, key : [1..MaxRec -> Nat], ents : Seq(EntryType),
                  desc : BOOLEAN, sel : BOOLEAN]
    BY <1>3 DEF FileType
  <2> HIDE DEF h
  <2>4. file' \in [n : 0..MaxRec, key : [1..MaxRec -> Nat], ents : Seq(EntryType),
                   desc : BOOLEAN, sel : BOOLEAN]
    BY <1>4, <2>1, <2>2, <2>3
  <2> QED BY <2>2, <2>3, <2>4 DEF FileType
<1>6. file'.key[h] = half.key /\ \A r \in 1..MaxRec : r # h => file'.key[r] = file.key[r]
  BY <1>2, <1>3, <1>5
<1>7. \A i \in DOMAIN file.ents : file.ents[i].rec \in 1..MaxRec /\ file.ents[i].rec \in Nat
  BY FileIs, BoundAssumption DEF Core
<1>8. half'.rec # h => "tag" \notin half.left
  <2>1. half.left # {"data"} => half'.rec = h
    BY <1>1 DEF HalfTrue
  <2> QED BY <2>1
<1>9. TypeOK'
  <2>1. call' = [op |-> call'.op, arg |-> call'.arg, rc |-> call'.rc]
    BY <1>1 DEF Core, TypeOK
  <2>2. d' \in Place(Seen(tag))'
    <3>1. Seen(tag)'.ents = tag /\ Seen(tag).ents = tag
      BY <1>1, <1>5, SeenIs DEF Core, Seen, TypeOK, FileType
    <3> QED BY <1>1, <3>1 DEF Core, TypeOK, Place
  <2> QED BY <1>1, <1>5, <2>1, <2>2 DEF Core, TypeOK
<1>10. TagTrue'
  <2>1. \A i \in DOMAIN file.ents : file.ents[i].rec # half'.rec => Sound(i)'
    <3> SUFFICES ASSUME NEW i \in DOMAIN file.ents, file.ents[i].rec # half'.rec
                 PROVE  file.ents[i].rec <= n /\ file'.key[file.ents[i].rec] = file.ents[i].key
      BY <1>5 DEF Sound
    <3>1. CASE file.ents[i].rec # h
      <4>1. Sound(i)
        BY <3>1 DEF Core, TagTrue
      <4> QED BY <1>3, <1>4, <1>6, <1>7, <3>1, <4>1 DEF Sound
    <3>2. CASE file.ents[i].rec = h
      <4>1. PICK j \in DOMAIN file.ents : file.ents[j] = [key |-> half.key, rec |-> half.rec]
        BY <1>2, <1>8, <3>2
      <4>2. i = j
        BY <3>2, <4>1 DEF Core, TagTrue, OneEach
      <4>3. file.ents[i].key = half.key
        BY <4>1, <4>2
      <4> QED BY <1>4, <1>6, <3>2, <4>3
    <3> QED BY <3>1, <3>2
  <2>2. \A r \in (1..n) \ {half'.rec} : \E i \in DOMAIN file.ents : file.ents[i].rec = r
    <3> SUFFICES ASSUME NEW r \in 1..n, r # half'.rec PROVE \E i \in DOMAIN file.ents : file.ents[i].rec = r
      OBVIOUS
    <3>1. CASE r = h
      BY <1>2, <1>8, <3>1
    <3>2. CASE r # h
      BY <1>4, <3>2 DEF Core, TagTrue
    <3> QED BY <3>1, <3>2
  <2>3. file.desc => \A i \in DOMAIN file.ents : file.ents[i].rec <= n
    <3> SUFFICES ASSUME file.desc, NEW i \in DOMAIN file.ents PROVE file.ents[i].rec <= n
      OBVIOUS
    <3>1. file.ents[i].rec <= file.n /\ file.ents[i].rec \in Nat /\ n \in Nat
      BY <1>3, <1>4, <1>7 DEF Core, TagTrue
    <3> QED BY <1>3, <1>4, <3>1
  <2> QED BY <1>1, <1>5, <2>1, <2>2, <2>3 DEF Core, TagTrue
<1>11. HalfTrue'
  <2>1. CASE half.left = {"data"}
    BY <1>1, <2>1 DEF HalfTrue
  <2>2. CASE half.left # {"data"}
    <3>1. half'.rec = h /\ half'.key = half.key /\ half'.left = half.left \ {"data"}
      BY <1>1, <2>2 DEF HalfTrue, Core, NoHalf
    <3>2. half'.left = {"tag"}
      BY <1>1, <1>2, <2>2, <3>1
    <3>3. h <= n + 1 /\ h <= n
      BY <1>2, <1>4
    <3> QED BY <1>1, <1>2, <1>5, <1>6, <3>1, <3>2, <3>3 DEF HalfTrue
  <2> QED BY <2>1, <2>2
<1> QED BY <1>9, <1>10, <1>11 DEF Core

------------------------------------------------------------------------------
(* An entry is written.                                                     *)

LEMMA RemovedIs ==
  ASSUME NEW T, NEW q \in Seq(T), NEW i \in 1..Len(q)
  PROVE  /\ RemoveAt(q, i) \in Seq(T) /\ Len(RemoveAt(q, i)) = Len(q) - 1
         /\ \A j \in 1..(Len(q) - 1) : RemoveAt(q, i)[j] = IF j < i THEN q[j] ELSE q[j + 1]
<1> DEFINE a == SubSeq(q, 1, i - 1)
           b == SubSeq(q, i + 1, Len(q))
<1>1. Len(q) \in Nat /\ i \in Nat /\ i >= 1 /\ i <= Len(q)
  OBVIOUS
<1>2. a \in Seq(T) /\ Len(a) = i - 1 /\ \A j \in 1..(i - 1) : a[j] = q[j]
  <2>1. \A j \in 1..(i - 1) : j \in 1..Len(q)
    BY <1>1
  <2> QED BY <1>1, <2>1
<1>3. b \in Seq(T) /\ Len(b) = Len(q) - i /\ \A j \in 1..(Len(q) - i) : b[j] = q[i + j]
  <2>1. \A j \in 1..(Len(q) - i) : i + j \in 1..Len(q) /\ (i + 1) + j - 1 = i + j
    BY <1>1
  <2> QED BY <1>1, <2>1
<1>4. RemoveAt(q, i) = a \o b
  BY DEF RemoveAt
<1> HIDE DEF a, b
<1>5. a \o b \in Seq(T) /\ Len(a \o b) = Len(q) - 1
  BY <1>1, <1>2, <1>3
<1>6. \A j \in 1..(Len(q) - 1) : (a \o b)[j] = IF j < i THEN q[j] ELSE q[j + 1]
  <2> TAKE j \in 1..(Len(q) - 1)
  <2>1. CASE j < i
    BY <1>1, <1>2, <1>3, <2>1
  <2>2. CASE ~(j < i)
    <3>1. j - (i - 1) \in 1..(Len(q) - i) /\ i + (j - (i - 1)) = j + 1 /\ j > Len(a) /\ j <= Len(a) + Len(b)
      BY <1>1, <1>2, <1>3, <2>2
    <3>2. (a \o b)[j] = b[j - Len(a)]
      BY <1>2, <1>3, <3>1
    <3> QED BY <1>2, <1>3, <2>2, <3>1, <3>2
  <2> QED BY <2>1, <2>2
<1> QED BY <1>4, <1>5, <1>6

LEMMA InsertedIs ==
  ASSUME NEW T, NEW q \in Seq(T), NEW i \in 1..(Len(q) + 1), NEW e \in T
  PROVE  /\ InsertAt(q, i, e) \in Seq(T) /\ Len(InsertAt(q, i, e)) = Len(q) + 1
         /\ \A j \in 1..(Len(q) + 1) :
              InsertAt(q, i, e)[j] = IF j < i THEN q[j] ELSE IF j = i THEN e ELSE q[j - 1]
<1> DEFINE a == SubSeq(q, 1, i - 1)
           b == SubSeq(q, i, Len(q))
           m == a \o <<e>>
<1>1. Len(q) \in Nat /\ i \in Nat /\ i >= 1 /\ i <= Len(q) + 1
  OBVIOUS
<1>2. a \in Seq(T) /\ Len(a) = i - 1 /\ \A j \in 1..(i - 1) : a[j] = q[j]
  <2>1. \A j \in 1..(i - 1) : j \in 1..Len(q)
    BY <1>1
  <2> QED BY <1>1, <2>1
<1>3. b \in Seq(T) /\ Len(b) = Len(q) - i + 1 /\ \A j \in 1..(Len(q) - i + 1) : b[j] = q[i + j - 1]
  <2>1. \A j \in 1..(Len(q) - i + 1) : i + j - 1 \in 1..Len(q)
    BY <1>1
  <2> QED BY <1>1, <2>1
<1> HIDE DEF a, b
<1>4. m \in Seq(T) /\ Len(m) = i /\ m[i] = e /\ \A j \in 1..(i - 1) : m[j] = q[j]
  BY <1>1, <1>2
<1> HIDE DEF m
<1>5. InsertAt(q, i, e) = m \o b
  BY DEF InsertAt, m, a, b
<1>6. m \o b \in Seq(T) /\ Len(m \o b) = Len(q) + 1
  <2>1. m \o b \in Seq(T) /\ Len(m \o b) = Len(m) + Len(b)
    <3>1. m \in Seq(T) /\ b \in Seq(T)
      BY <1>3, <1>4
    <3> QED BY <3>1
  <2>2. i + (Len(q) - i + 1) = Len(q) + 1
    BY <1>1
  <2> QED BY <1>3, <1>4, <2>1, <2>2
<1>7. \A j \in 1..(Len(q) + 1) : (m \o b)[j] = IF j < i THEN q[j] ELSE IF j = i THEN e ELSE q[j - 1]
  <2> TAKE j \in 1..(Len(q) + 1)
  <2>1. CASE j < i
    BY <1>1, <1>3, <1>4, <2>1
  <2>2. CASE j = i
    BY <1>1, <1>3, <1>4, <2>2
  <2>3. CASE j > i
    <3>1. j - i \in 1..(Len(q) - i + 1) /\ i + (j - i) - 1 = j - 1 /\ j > Len(m) /\ j <= Len(m) + Len(b)
      BY <1>1, <1>3, <1>4, <2>3
    <3>2. (m \o b)[j] = b[j - Len(m)]
      BY <1>3, <1>4, <3>1
    <3> QED BY <1>3, <1>4, <2>3, <3>1, <3>2
  <2>4. j \in Int /\ i \in Int
    BY <1>1
  <2>5. j < i \/ j = i \/ j > i
    BY <2>4
  <2> QED BY <2>1, <2>2, <2>3, <2>5
<1> QED BY <1>5, <1>6, <1>7

LEMMA LessIs ==
  ASSUME NEW a \in EntryType, NEW b \in EntryType
  PROVE  /\ Before(a, b) <=> Less(a, b)
         /\ ~(Less(a, b) /\ Less(b, a)) /\ ~Less(a, a)
         /\ a.rec # b.rec => Less(a, b) \/ Less(b, a)
         /\ \A c \in EntryType : Less(a, b) /\ Less(b, c) => Less(a, c)
<1>1. a.key \in Nat /\ a.rec \in Nat /\ b.key \in Nat /\ b.rec \in Nat
      /\ a = [key |-> a.key, rec |-> a.rec] /\ b = [key |-> b.key, rec |-> b.rec]
  BY EntryIs
<1>2. a = b <=> a.key = b.key /\ a.rec = b.rec
  BY <1>1
<1>3. Before(a, b) <=> Less(a, b)
  <2> HIDE DEF Less
  <2> QED BY <1>1, <1>2 DEF Before, AtOrAfter, Less
<1>4. ~(Less(a, b) /\ Less(b, a)) /\ ~Less(a, a) /\ (a.rec # b.rec => Less(a, b) \/ Less(b, a))
  BY <1>1 DEF Less
<1>5. \A c \in EntryType : Less(a, b) /\ Less(b, c) => Less(a, c)
  <2> TAKE c \in EntryType
  <2>1. c.key \in Nat /\ c.rec \in Nat
    BY EntryIs
  <2> QED BY <1>1, <2>1 DEF Less
<1> QED BY <1>3, <1>4, <1>5

LEMMA SortedFrom ==
  ASSUME NEW q \in Seq(EntryType), \A i, j \in DOMAIN q : i < j => Less(q[i], q[j])
  PROVE  Sorted(q)
<1> SUFFICES ASSUME NEW i \in DOMAIN q, NEW j \in DOMAIN q, Less(q[i], q[j]) PROVE i < j
  BY DEF Sorted
<1>1. i \in Nat /\ j \in Nat /\ q[i] \in EntryType /\ q[j] \in EntryType
  OBVIOUS
<1>2. ~Less(q[j], q[i]) /\ i # j
  BY <1>1, LessIs
<1>3. ~(j < i)
  BY <1>2
<1> QED BY <1>1, <1>2, <1>3

(* The entries without the record's own. *)
Without(q, e) ==
  LET old == {i \in DOMAIN q : q[i].rec = e.rec}
  IN  IF old = {} THEN q ELSE RemoveAt(q, Min(old))

LEMMA WithoutIs ==
  ASSUME NEW q \in Seq(EntryType), Sorted(q), OneEach(q), NEW e \in EntryType, NEW w, w = Without(q, e)
  PROVE  /\ w \in Seq(EntryType) /\ (\A i, j \in DOMAIN w : i < j => Less(w[i], w[j])) /\ OneEach(w)
         /\ \A j \in DOMAIN w : \E i \in DOMAIN q : w[j] = q[i] /\ q[i].rec # e.rec
         /\ \A i \in DOMAIN q : q[i].rec # e.rec => \E j \in DOMAIN w : w[j] = q[i]
<1> DEFINE old == {i \in DOMAIN q : q[i].rec = e.rec}
<1>1. Len(q) \in Nat /\ DOMAIN q = 1..Len(q) /\ old \subseteq Nat
  OBVIOUS
<1>2. w = IF old = {} THEN q ELSE RemoveAt(q, Min(old))
  BY DEF Without
<1>3. \A i \in DOMAIN q : i \in old <=> q[i].rec = e.rec
  OBVIOUS
<1>4. old \subseteq DOMAIN q
  OBVIOUS
<1> HIDE DEF old
<1>5. CASE old = {}
  BY <1>2, <1>3, <1>5 DEF Sorted
<1>6. CASE old # {}
  <2> DEFINE o == Min(old)
             u == [j \in 1..(Len(q) - 1) |-> IF j < o THEN j ELSE j + 1]
  <2>1. o \in old /\ o \in DOMAIN q /\ q[o].rec = e.rec
    BY <1>1, <1>3, <1>4, <1>6, LeastIs
  <2>2. w = RemoveAt(q, o)
    BY <1>2, <1>6
  <2> HIDE DEF o
  <2>3. o \in 1..Len(q) /\ o \in Nat
    BY <1>1, <2>1
  <2>4. w \in Seq(EntryType) /\ Len(w) = Len(q) - 1
        /\ \A j \in 1..(Len(q) - 1) : w[j] = IF j < o THEN q[j] ELSE q[j + 1]
    BY <2>2, <2>3, RemovedIs
  <2>5. DOMAIN w = 1..(Len(q) - 1) /\ Len(q) - 1 \in Nat
    BY <1>1, <2>3, <2>4
  <2>6. /\ \A j \in DOMAIN w : u[j] \in DOMAIN q /\ u[j] # o /\ u[j] \in Nat
        /\ \A i, j \in DOMAIN w : i < j => u[i] < u[j]
    BY <1>1, <2>3, <2>5
  <2>7. \A j \in DOMAIN w : w[j] = q[u[j]]
    BY <2>4, <2>5
  <2>8. \A i \in DOMAIN q : i # o => \E j \in DOMAIN w : u[j] = i
    <3> SUFFICES ASSUME NEW i \in 1..Len(q), i # o PROVE \E j \in 1..(Len(q) - 1) : u[j] = i
      BY <1>1, <2>5
    <3>1. CASE i < o
      <4>1. i \in 1..(Len(q) - 1)
        BY <1>1, <2>3, <3>1
      <4>2. u[i] = i
        BY <3>1, <4>1
      <4> QED BY <4>1, <4>2
    <3>2. CASE i > o
      <4>1. i - 1 \in 1..(Len(q) - 1) /\ ~(i - 1 < o) /\ (i - 1) + 1 = i
        BY <1>1, <2>3, <3>2
      <4>2. u[i - 1] = i
        BY <4>1
      <4> QED BY <4>1, <4>2
    <3> QED BY <1>1, <2>3, <3>1, <3>2
  <2> HIDE DEF u
  <2>9. \A i, j \in DOMAIN w : i < j => Less(w[i], w[j])
    <3> TAKE i, j \in DOMAIN w
    <3>1. u[i] < u[j] <=> Less(q[u[i]], q[u[j]])
      BY <2>6 DEF Sorted
    <3> QED BY <2>6, <2>7, <3>1
  <2>10. OneEach(w)
    <3> SUFFICES ASSUME NEW i \in DOMAIN w, NEW j \in DOMAIN w, w[i].rec = w[j].rec PROVE i = j
      BY DEF OneEach
    <3>1. u[i] = u[j]
      BY <2>6, <2>7 DEF OneEach
    <3>2. u[i] \in Nat /\ ~(i < j) /\ ~(j < i)
      BY <2>6, <3>1
    <3>3. i \in Nat /\ j \in Nat
      BY <2>5
    <3> QED BY <3>2, <3>3
  <2>11. \A j \in DOMAIN w : \E i \in DOMAIN q : w[j] = q[i] /\ q[i].rec # e.rec
    <3> TAKE j \in DOMAIN w
    <3>1. u[j] \in DOMAIN q /\ u[j] # o
      BY <2>6
    <3>2. q[u[j]].rec # e.rec
      BY <2>1, <3>1 DEF OneEach
    <3> QED BY <2>7, <3>1, <3>2
  <2>12. \A i \in DOMAIN q : q[i].rec # e.rec => \E j \in DOMAIN w : w[j] = q[i]
    <3> SUFFICES ASSUME NEW i \in DOMAIN q, q[i].rec # e.rec PROVE \E j \in DOMAIN w : w[j] = q[i]
      OBVIOUS
    <3>1. i # o
      BY <2>1
    <3> QED BY <2>7, <2>8, <3>1
  <2> QED BY <2>4, <2>9, <2>10, <2>11, <2>12
<1> QED BY <1>5, <1>6

Entered(q, e, w) ==
  /\ w \in Seq(EntryType) /\ Sorted(w) /\ OneEach(w)
  /\ \E j \in DOMAIN w : w[j] = e
  /\ \A j \in DOMAIN w : w[j] = e \/ \E i \in DOMAIN q : w[j] = q[i] /\ q[i].rec # e.rec
  /\ \A i \in DOMAIN q : q[i].rec # e.rec => \E j \in DOMAIN w : w[j] = q[i]

LEMMA WithEntryIs ==
  ASSUME NEW q \in Seq(EntryType), Sorted(q), OneEach(q), NEW e \in EntryType
  PROVE  Entered(q, e, WithEntry(q, e))
<1> DEFINE w == WithEntry(q, e)
<1> DEFINE rest == Without(q, e)
           P == {i \in DOMAIN rest : Before(e, rest[i])} \cup {Len(rest) + 1}
           p == Min(P)
<1>1. w = InsertAt(rest, p, e)
  BY DEF WithEntry, Without
<1> HIDE DEF rest, w
<1>2. /\ rest \in Seq(EntryType) /\ (\A i, j \in DOMAIN rest : i < j => Less(rest[i], rest[j])) /\ OneEach(rest)
      /\ \A j \in DOMAIN rest : \E i \in DOMAIN q : rest[j] = q[i] /\ q[i].rec # e.rec
      /\ \A i \in DOMAIN q : q[i].rec # e.rec => \E j \in DOMAIN rest : rest[j] = q[i]
  BY WithoutIs DEF rest
<1>3. Len(rest) \in Nat /\ DOMAIN rest = 1..Len(rest)
  BY <1>2
<1>4. \A j \in DOMAIN rest : rest[j] \in EntryType /\ rest[j].rec # e.rec
  BY <1>2
<1>5. P \subseteq 1..(Len(rest) + 1) /\ P # {} /\ P \subseteq Nat
  BY <1>3
<1>6. p \in P /\ \A x \in P : p <= x
  <2> HIDE DEF P
  <2> QED BY <1>5, LeastIs
<1>7. p \in 1..(Len(rest) + 1) /\ p \in Nat
  <2> HIDE DEF P, p
  <2> QED BY <1>5, <1>6
<1>8. \A j \in DOMAIN rest : j \in P <=> Less(e, rest[j])
  <2> TAKE j \in DOMAIN rest
  <2>1. Before(e, rest[j]) <=> Less(e, rest[j])
    BY <1>4, LessIs
  <2>2. j # Len(rest) + 1
    BY <1>3
  <2> QED BY <2>1, <2>2
<1> HIDE DEF P, p
<1>9. \A j \in DOMAIN rest : /\ j < p => Less(rest[j], e)
                             /\ ~(j < p) => Less(e, rest[j])
  <2> TAKE j \in DOMAIN rest
  <2>1. rest[j] \in EntryType /\ rest[j].rec # e.rec /\ j \in Nat
    BY <1>3, <1>4
  <2>2. ASSUME j < p PROVE Less(rest[j], e)
    <3>1. j \notin P
      BY <1>6, <1>7, <2>1, <2>2
    <3> QED BY <1>8, <2>1, <3>1, LessIs
  <2>3. ASSUME ~(j < p) PROVE Less(e, rest[j])
    <3>1. p \in DOMAIN rest /\ p <= j
      BY <1>3, <1>7, <2>3
    <3>2. Less(e, rest[p]) /\ rest[p] \in EntryType
      BY <1>4, <1>6, <1>8, <3>1
    <3>3. p = j \/ Less(rest[p], rest[j])
      BY <1>2, <1>7, <2>1, <3>1
    <3> QED BY <2>1, <3>2, <3>3, LessIs
  <2> QED BY <2>2, <2>3
<1>10. /\ w \in Seq(EntryType) /\ Len(w) = Len(rest) + 1
       /\ \A j \in 1..(Len(rest) + 1) : w[j] = IF j < p THEN rest[j] ELSE IF j = p THEN e ELSE rest[j - 1]
  BY <1>1, <1>2, <1>7, InsertedIs
<1>11. DOMAIN w = 1..(Len(rest) + 1)
  BY <1>3, <1>10
<1>12. \A j \in DOMAIN w : \/ j < p /\ j \in DOMAIN rest /\ w[j] = rest[j]
                           \/ j = p /\ w[j] = e
                           \/ j > p /\ j - 1 \in DOMAIN rest /\ ~(j - 1 < p) /\ w[j] = rest[j - 1]
  <2> TAKE j \in DOMAIN w
  <2>1. j \in Nat /\ j \in 1..(Len(rest) + 1)
    BY <1>3, <1>11
  <2>2. CASE j < p
    BY <1>3, <1>7, <1>10, <2>1, <2>2
  <2>3. CASE j = p
    BY <1>7, <1>10, <2>1, <2>3
  <2>4. CASE j > p
    <3>1. j - 1 \in DOMAIN rest /\ ~(j - 1 < p) /\ ~(j < p) /\ j # p
      BY <1>3, <1>7, <2>1, <2>4
    <3> QED BY <1>10, <2>1, <2>4, <3>1
  <2> QED BY <1>7, <2>1, <2>2, <2>3, <2>4
<1>13. \A i, j \in DOMAIN w : i < j => Less(w[i], w[j])
  <2> SUFFICES ASSUME NEW i \in DOMAIN w, NEW j \in DOMAIN w, i < j PROVE Less(w[i], w[j])
    OBVIOUS
  <2>1. i \in Nat /\ j \in Nat
    BY <1>3, <1>11
  <2>2. CASE i < p /\ i \in DOMAIN rest /\ w[i] = rest[i]
    <3>1. Less(rest[i], e) /\ rest[i] \in EntryType
      BY <1>4, <1>9, <2>2
    <3>2. CASE j < p /\ j \in DOMAIN rest /\ w[j] = rest[j]
      BY <1>2, <2>2, <3>2
    <3>3. CASE j = p /\ w[j] = e
      BY <2>2, <3>1, <3>3
    <3>4. CASE j > p /\ j - 1 \in DOMAIN rest /\ ~(j - 1 < p) /\ w[j] = rest[j - 1]
      <4>1. Less(e, rest[j - 1]) /\ rest[j - 1] \in EntryType
        BY <1>4, <1>9, <3>4
      <4>2. Less(rest[i], rest[j - 1])
        BY <3>1, <4>1, LessIs
      <4> QED BY <2>2, <3>4, <4>2
    <3> QED BY <1>12, <3>2, <3>3, <3>4
  <2>3. CASE i = p /\ w[i] = e
    <3>1. j > p
      BY <2>3
    <3>2. j - 1 \in DOMAIN rest /\ ~(j - 1 < p) /\ w[j] = rest[j - 1]
      BY <1>7, <1>12, <2>1, <3>1
    <3> QED BY <1>9, <2>3, <3>2
  <2>4. CASE i > p /\ i - 1 \in DOMAIN rest /\ ~(i - 1 < p) /\ w[i] = rest[i - 1]
    <3>1. j > p /\ i - 1 < j - 1
      BY <1>7, <2>1, <2>4
    <3>2. j - 1 \in DOMAIN rest /\ w[j] = rest[j - 1]
      BY <1>7, <1>12, <2>1, <3>1
    <3> QED BY <1>2, <2>4, <3>1, <3>2
  <2> QED BY <1>12, <2>2, <2>3, <2>4
<1>14. Sorted(w)
  BY <1>10, <1>13, SortedFrom
<1>15. OneEach(w)
  <2> SUFFICES ASSUME NEW i \in DOMAIN w, NEW j \in DOMAIN w, w[i].rec = w[j].rec PROVE i = j
    BY DEF OneEach
  <2>1. i \in Nat /\ j \in Nat
    BY <1>3, <1>11
  <2>0. \A x \in DOMAIN w : w[x].rec = e.rec <=> x = p
    <3> TAKE x \in DOMAIN w
    <3>1. x = p => w[x] = e
      BY <1>7, <1>12
    <3>2. x # p => \E k \in DOMAIN rest : w[x] = rest[k]
      BY <1>12
    <3> QED BY <1>4, <3>1, <3>2
  <2>2. CASE i = p
    BY <2>0, <2>2
  <2>3. CASE i < p
    <3>1. i \in DOMAIN rest /\ w[i] = rest[i]
      BY <1>7, <1>12, <2>1, <2>3
    <3>2. CASE j = p
      BY <2>0, <2>1, <3>2
    <3>3. CASE j < p
      BY <1>2, <1>7, <1>12, <2>1, <3>1, <3>3 DEF OneEach
    <3>4. CASE j > p
      <4>1. j - 1 \in DOMAIN rest /\ w[j] = rest[j - 1] /\ ~(j - 1 < p)
        BY <1>7, <1>12, <2>1, <3>4
      <4>2. i = j - 1
        BY <1>2, <3>1, <4>1 DEF OneEach
      <4> QED BY <2>3, <4>1, <4>2
    <3> QED BY <1>7, <2>1, <3>2, <3>3, <3>4
  <2>4. CASE i > p
    <3>1. i - 1 \in DOMAIN rest /\ w[i] = rest[i - 1] /\ ~(i - 1 < p)
      BY <1>7, <1>12, <2>1, <2>4
    <3>2. CASE j = p
      BY <2>0, <2>1, <3>2
    <3>3. CASE j < p
      <4>1. j \in DOMAIN rest /\ w[j] = rest[j]
        BY <1>7, <1>12, <2>1, <3>3
      <4>2. j = i - 1
        BY <1>2, <3>1, <4>1 DEF OneEach
      <4> QED BY <3>1, <3>3, <4>2
    <3>4. CASE j > p
      <4>1. j - 1 \in DOMAIN rest /\ w[j] = rest[j - 1]
        BY <1>7, <1>12, <2>1, <3>4
      <4>2. i - 1 = j - 1
        BY <1>2, <3>1, <4>1 DEF OneEach
      <4> QED BY <2>1, <4>2
    <3> QED BY <1>7, <2>1, <3>2, <3>3, <3>4
  <2> QED BY <1>7, <2>1, <2>2, <2>3, <2>4
<1>16. \E j \in DOMAIN w : w[j] = e
  BY <1>7, <1>10, <1>11
<1>17. \A j \in DOMAIN w : w[j] = e \/ \E i \in DOMAIN q : w[j] = q[i] /\ q[i].rec # e.rec
  BY <1>2, <1>12
<1>18. \A i \in DOMAIN q : q[i].rec # e.rec => \E j \in DOMAIN w : w[j] = q[i]
  <2> SUFFICES ASSUME NEW i \in DOMAIN q, q[i].rec # e.rec PROVE \E j \in DOMAIN w : w[j] = q[i]
    OBVIOUS
  <2>1. PICK k \in DOMAIN rest : rest[k] = q[i]
    BY <1>2
  <2>2. k \in Nat /\ k \in 1..Len(rest)
    BY <1>3
  <2>3. CASE k < p
    BY <1>3, <1>10, <1>11, <2>1, <2>2, <2>3
  <2>4. CASE ~(k < p)
    <3>1. k + 1 \in 1..(Len(rest) + 1) /\ ~(k + 1 < p) /\ k + 1 # p /\ (k + 1) - 1 = k
      BY <1>3, <1>7, <2>2, <2>4
    <3>2. w[k + 1] = rest[k]
      BY <1>10, <3>1
    <3> QED BY <1>11, <2>1, <3>1, <3>2
  <2> QED BY <2>3, <2>4
<1>19. Entered(q, e, w)
  BY <1>10, <1>14, <1>15, <1>16, <1>17, <1>18 DEF Entered
<1> QED BY <1>19 DEF w

LEMMA WriteEntryKeeps == ASSUME Core, WriteEntry PROVE Core'
<1> DEFINE e == [key |-> half.key, rec |-> half.rec]
           q == file.ents
           w == WithEntry(q, e)
<1>1. /\ "tag" \in half.left
      /\ half' = IF half.left = {"tag"} THEN NoHalf ELSE [half EXCEPT !.left = half.left \ {"tag"}]
      /\ call' = [call EXCEPT !.op = "none"] /\ UNCHANGED <<tag, d, mine, walk>>
      /\ file.desc => half.rec <= file.n
      /\ file' = [file EXCEPT !.ents = w] /\ stale' = TRUE
  BY DEF WriteEntry, Publish
<1>2. /\ ~mine /\ half.rec \in 1..MaxRec /\ half.rec <= file.n + 1 /\ half.key \in Nat
      /\ half.left \in (SUBSET {"data", "tag"}) \ {{}}
      /\ "data" \notin half.left => half.rec <= file.n /\ file.key[half.rec] = half.key
  BY <1>1, HalfIs DEF Core
<1>3. e \in EntryType /\ e.rec = half.rec /\ e.key = half.key
  BY <1>2 DEF EntryType
<1>4. q \in Seq(EntryType) /\ Sorted(q) /\ OneEach(q) /\ file \in FileType
  BY FileIs DEF Core, TagTrue, FileType
<1> HIDE DEF e, w
<1>5. /\ w \in Seq(EntryType) /\ Sorted(w) /\ OneEach(w)
      /\ \E j \in DOMAIN w : w[j] = e
      /\ \A j \in DOMAIN w : w[j] = e \/ \E i \in DOMAIN q : w[j] = q[i] /\ q[i].rec # e.rec
      /\ \A i \in DOMAIN q : q[i].rec # e.rec => \E j \in DOMAIN w : w[j] = q[i]
  <2>1. Entered(q, e, w)
    BY <1>3, <1>4, WithEntryIs DEF w
  <2> QED BY <2>1 DEF Entered
<1>6. /\ file' \in FileType /\ file'.ents = w /\ file'.desc = file.desc /\ file'.sel = file.sel
      /\ file'.n = file.n /\ file'.key = file.key
  <2>1. file \in [n : 0..MaxRec, key : [1..MaxRec -> Nat], ents : Seq(EntryType),
                  desc : BOOLEAN, sel : BOOLEAN]
    BY <1>4 DEF FileType
  <2>2. file' \in [n : 0..MaxRec, key : [1..MaxRec -> Nat], ents : Seq(EntryType),
                  desc : BOOLEAN, sel : BOOLEAN]
    BY <1>1, <1>5, <2>1
  <2> QED BY <1>1, <2>1, <2>2 DEF FileType
<1>7. half'.rec = half.rec \/ "data" \notin half.left
  <2>1. half.left # {"tag"} => half'.rec = half.rec
    BY <1>1 DEF HalfTrue
  <2> QED BY <2>1
<1>8. TypeOK'
  <2>1. call' = [op |-> call'.op, arg |-> call'.arg, rc |-> call'.rc]
    BY <1>1 DEF Core, TypeOK
  <2>2. d' \in Place(Seen(tag))'
    <3>1. Seen(tag)'.ents = tag /\ Seen(tag).ents = tag
      BY <1>1, <1>6, SeenIs DEF Core, Seen, TypeOK, FileType
    <3> QED BY <1>1, <3>1 DEF Core, TypeOK, Place
  <2> QED BY <1>1, <1>6, <2>1, <2>2 DEF Core, TypeOK
<1>9. TagTrue'
  <2>1. InOrder(w)
    BY <1>5, SortedIs
  <2>2. \A j \in DOMAIN w : w[j].rec # half'.rec => Sound(j)'
    <3> SUFFICES ASSUME NEW j \in DOMAIN w, w[j].rec # half'.rec
                 PROVE  w[j].rec <= file.n /\ file.key[w[j].rec] = w[j].key
      BY <1>6 DEF Sound
    <3>1. CASE w[j] = e
      BY <1>2, <1>3, <1>7, <3>1
    <3>2. CASE w[j] # e
      <4>1. PICK i \in DOMAIN q : w[j] = q[i] /\ q[i].rec # e.rec
        BY <1>5, <3>2
      <4>2. Sound(i)
        BY <1>3, <4>1 DEF Core, TagTrue
      <4> QED BY <4>1, <4>2 DEF Sound
    <3> QED BY <3>1, <3>2
  <2>3. \A r \in (1..file.n) \ {half'.rec} : \E j \in DOMAIN w : w[j].rec = r
    <3> SUFFICES ASSUME NEW r \in 1..file.n PROVE \E j \in DOMAIN w : w[j].rec = r
      OBVIOUS
    <3>1. CASE r = half.rec
      BY <1>3, <1>5, <3>1
    <3>2. CASE r # half.rec
      <4>1. PICK i \in DOMAIN q : q[i].rec = r
        BY <3>2 DEF Core, TagTrue
      <4> QED BY <1>3, <1>5, <3>2, <4>1
    <3> QED BY <3>1, <3>2
  <2>4. file.desc => \A j \in DOMAIN w : w[j].rec <= file.n
    <3> SUFFICES ASSUME file.desc, NEW j \in DOMAIN w PROVE w[j].rec <= file.n
      OBVIOUS
    <3>1. CASE w[j] = e
      BY <1>1, <1>3, <3>1
    <3>2. CASE w[j] # e
      BY <1>5, <3>2 DEF Core, TagTrue
    <3> QED BY <3>1, <3>2
  <2> QED BY <1>1, <1>5, <1>6, <2>1, <2>2, <2>3, <2>4 DEF TagTrue
<1>10. HalfTrue'
  <2>1. CASE half.left = {"tag"}
    BY <1>1, <2>1 DEF HalfTrue
  <2>2. CASE half.left # {"tag"}
    <3>1. half'.rec = half.rec /\ half'.key = half.key /\ half'.left = half.left \ {"tag"}
      BY <1>1, <2>2 DEF HalfTrue, Core, NoHalf
    <3>2. half'.left = {"data"}
      BY <1>1, <1>2, <2>2, <3>1
    <3>3. \E j \in DOMAIN w : w[j] = [key |-> half'.key, rec |-> half'.rec]
      BY <1>5, <3>1 DEF e
    <3> QED BY <1>1, <1>2, <1>6, <3>1, <3>2, <3>3 DEF HalfTrue
  <2> QED BY <2>1, <2>2
<1> QED BY <1>8, <1>9, <1>10 DEF Core

LEMMA CoreInit == Init => Core
<1> SUFFICES ASSUME Init PROVE Core
  OBVIOUS
<1>1. PICK g \in Files, s \in BOOLEAN : file = [g EXCEPT !.sel = s]
  BY DEF Init
<1>2. TrueFile(g)
  BY FilesAssumption
<1>3. g \in FileType
  BY <1>2 DEF TrueFile, FileType, EntryType
<1>4. /\ file \in FileType /\ file.ents = g.ents /\ file.n = g.n /\ file.key = g.key
  BY <1>1, <1>3 DEF FileType
<1>5. /\ \A i, j \in DOMAIN file.ents : i < j => Before(file.ents[i], file.ents[j])
      /\ \A i \in DOMAIN file.ents : file.ents[i].rec <= file.n /\ file.ents[i].key = file.key[file.ents[i].rec]
      /\ \A r \in 1..file.n : \E i \in DOMAIN file.ents : file.ents[i].rec = r
  BY <1>2, <1>4 DEF TrueFile
<1>6. tag = file.ents /\ stale = FALSE /\ d = Start(file) /\ mine = FALSE /\ half = NoHalf
      /\ call = [op |-> "none", arg |-> 0, rc |-> "ok"] /\ walk = NoWalk
  BY DEF Init
<1>7. TypeOK
  <2>1. Seen(tag) = file
    BY <1>4, <1>6 DEF Seen, FileType
  <2>2. d \in Place(Seen(tag))
    <3>1. file.ents \in Seq(EntryType)
      BY <1>4 DEF FileType
    <3>2. 1 \in 1..(Len(file.ents) + 1)
      BY <3>1
    <3> QED BY <1>6, <2>1, <3>2 DEF Start, Place
  <2>3. walk \in WalkType
    BY <1>6 DEF NoWalk, WalkType
  <2> QED BY <1>4, <1>6, <2>2, <2>3 DEF TypeOK, WalkType, FileType
<1>8. TagTrue
  <2>1. OneEach(file.ents)
    <3>1. file.ents \in Seq(EntryType) /\ InOrder(file.ents)
      BY <1>4, <1>5 DEF FileType, InOrder
    <3>2. Sorted(file.ents)
      BY <3>1, SortedIs
    <3> SUFFICES ASSUME NEW i \in DOMAIN file.ents, NEW j \in DOMAIN file.ents, file.ents[i].rec = file.ents[j].rec
                 PROVE  i = j
      BY DEF OneEach
    <3>3. file.ents[i].key = file.ents[j].key
      BY <1>5
    <3>4. file.ents[i] \in EntryType /\ file.ents[j] \in EntryType /\ i \in Nat /\ j \in Nat
      BY <3>1
    <3>5. file.ents[i].key \in Nat /\ file.ents[i].rec \in Nat
      BY <3>4, EntryIs
    <3>6. ~Less(file.ents[i], file.ents[j]) /\ ~Less(file.ents[j], file.ents[i])
      BY <3>3, <3>5 DEF Less
    <3>7. ~(i < j) /\ ~(j < i)
      BY <3>2, <3>6 DEF Sorted
    <3> QED BY <3>4, <3>7
  <2> QED BY <1>5, <1>6, <2>1 DEF TagTrue, InOrder, Sound
<1>9. HalfTrue
  BY <1>6 DEF HalfTrue
<1> QED BY <1>7, <1>8, <1>9 DEF Core

LEMMA CoreStep ==
  ASSUME Core, ~Jumps, [Next]_vars
  PROVE  Core'
<1>1. CASE UNCHANGED vars
  BY <1>1 DEF vars, Core, TypeOK, TagTrue, HalfTrue, Sound, Seen, Place
<1>2. CASE Next
  BY <1>2, TopKeeps, BottomKeeps, GoBofKeeps, GoKeeps, SkipKeeps, SeekKeeps, SeekNextKeeps, TagSyncKeeps,
     PositionKeeps, PositionSetKeeps, LocksKeep, BeginsKeep, WriteRecordKeeps, WriteEntryKeeps DEF Next
<1> QED BY <1>1, <1>2

------------------------------------------------------------------------------
(* The seeks.                                                               *)

LEMMA OtherOps ==
  ASSUME Core, Next, ~DoSeek, ~DoSeekNext
  PROVE  call'.op \notin {"seek", "next"}
<1>1. CASE \E op, arg, ents, r : op \notin {"seek", "next"} /\ Calls(op, arg, ents, r)
  BY <1>1 DEF Calls
<1>2. CASE \E op \in {"none", "lock", "unlock"} : call' = [call EXCEPT !.op = op]
  BY <1>2 DEF Core, TypeOK
<1> QED BY <1>1, <1>2 DEF Next, Top, Bottom, DoGo, DoSkip, DoTagSync, DoPosition, DoPositionSet, GoBof,
           LockFile, UnlockFile, Appends, Rekeys, Begin, WriteRecord, WriteEntry, Publish

LEMMA SeekIsTrue ==
  ASSUME Core, DoSeek
  PROVE  SeekMissesNothing'
<1>1. PICK k \in Keys, c \in {Checked(d, FALSE)} :
               Calls("seek", k, c.ents, Seek(Seen(c.ents), c.d, k, mine))
  BY DEF DoSeek
<1>2. Seen(c.ents) = file /\ c.d \in Place(file)
  <2>1. d \in Place(Seen(tag)) /\ FALSE \in BOOLEAN
    BY DEF Core, TypeOK
  <2> QED BY <1>1, <2>1, CheckedShown DEF Core, Shown
<1> DEFINE r == Seek(file, c.d, k, mine)
<1>3. /\ d' = r.d /\ file' = file /\ half' = half
      /\ call' = [op |-> "seek", arg |-> k, rc |-> r.rc]
  BY <1>1, <1>2 DEF Calls
<1>4. k \in Nat /\ (mine => half = NoHalf)
  BY BoundAssumption DEF Core, HalfTrue
<1>5. (file.desc => half = NoHalf) => Finds(r, k)
  BY <1>2, <1>4, SeekFinds DEF Core
<1> HIDE DEF r
<1>6. SoundFor(k)' = SoundFor(k)
  BY <1>3 DEF SoundFor, Sound
<1>7. call'.arg = k /\ call'.rc = r.rc
  BY <1>3
<1> QED BY <1>3, <1>5, <1>6, <1>7 DEF SeekMissesNothing, Finds, SoundFor, Sound

LEMMA SeekStep ==
  ASSUME Core, SeekMissesNothing, [Next]_vars
  PROVE  SeekMissesNothing'
<1>1. CASE UNCHANGED vars
  BY <1>1 DEF vars, SeekMissesNothing, SoundFor, Sound
<1>2. CASE DoSeek
  BY <1>2, SeekIsTrue
<1>3. CASE DoSeekNext
  BY <1>3 DEF DoSeekNext, Calls, SeekMissesNothing
<1>4. CASE Next /\ ~DoSeek /\ ~DoSeekNext
  BY <1>4, OtherOps DEF SeekMissesNothing
<1> QED BY <1>1, <1>2, <1>3, <1>4

LEMMA SeekNextIsTrue ==
  ASSUME Core, DoSeekNext, file.desc => half = NoHalf,
         NEW i \in SoundFor(call'.arg), file.ents[i].rec = d.rec, d.buf = call'.arg
  PROVE  FindsNext([d |-> d', rc |-> call'.rc], call'.arg, d.rec)
<1>1. PICK k \in Keys, c \in {Checked(d, FALSE)} :
               Calls("next", k, c.ents, SeekNext(Seen(c.ents), c.d, k, mine, c.lost))
  BY DEF DoSeekNext
<1>2. d \in Place(Seen(tag)) /\ FALSE \in BOOLEAN
  BY DEF Core, TypeOK
<1>3. Seen(c.ents) = file /\ c.d \in Place(file)
  BY <1>1, <1>2, CheckedShown DEF Core, Shown
<1>4. c.d.rec = d.rec /\ c.d.buf = d.buf
  <2>1. c.d = [d EXCEPT !.at = c.d.at]
    BY <1>1, <1>2, CheckedIs DEF Core
  <2> QED BY <1>2, <2>1 DEF Place
<1> DEFINE r == SeekNext(file, c.d, k, mine, c.lost)
<1>5. d' = r.d /\ call' = [op |-> "next", arg |-> k, rc |-> r.rc]
  BY <1>1, <1>3 DEF Calls
<1>6. call'.arg = k /\ call'.rc = r.rc
  <2> HIDE DEF r
  <2> QED BY <1>5
<1>7. k \in Nat /\ (mine => half = NoHalf) /\ file.sel
  BY BoundAssumption DEF Core, HalfTrue, DoSeekNext
<1>8. FindsNext(r, k, d.rec)
  BY <1>3, <1>4, <1>6, <1>7, SeekNextFinds DEF Core
<1> HIDE DEF r
<1> QED BY <1>5, <1>6, <1>8 DEF FindsNext

------------------------------------------------------------------------------
(* The types, the order and completeness of the tag and what the other      *)
(* user has half written hold throughout, as long as no position is set     *)
(* while blocks are out of date.                                            *)
THEOREM CursorInvariant == ~Jumps => (Spec => []Core)
<1> SUFFICES ASSUME ~Jumps PROVE Spec => []Core
  OBVIOUS
<1>1. Core /\ [Next]_vars => Core'
  BY CoreStep
<1> QED BY <1>1, CoreInit, PTL DEF Spec

(* A seek finds the first record of the key when there is one, and reports  *)
(* none otherwise, whatever another user has half written and however old   *)
(* the program's blocks are (D4SEEK.C: d4seek, d4seekCheck).                *)
THEOREM SeeksMissNothing == ~Jumps => (Spec => []SeekMissesNothing)
<1> SUFFICES ASSUME ~Jumps PROVE Spec => []SeekMissesNothing
  OBVIOUS
<1>1. Init => SeekMissesNothing
  BY DEF Init, SeekMissesNothing
<1>2. (Core /\ SeekMissesNothing) /\ [Next]_vars => SeekMissesNothing'
  BY SeekStep
<1> QED BY <1>1, <1>2, CursorInvariant, PTL DEF Spec

(* d4seekNext from a record of the key goes to the next one in the order of *)
(* the tag, and reports none after the last, also when the tag has to be    *)
(* brought back to the record first (D4SEEK.C: d4seekNextN).                *)
THEOREM SeeksGoToTheNext == ~Jumps => (Spec => SeekNextIsTheNext)
<1> SUFFICES ASSUME ~Jumps PROVE Spec => SeekNextIsTheNext
  OBVIOUS
<1> DEFINE NextOne ==
     (call'.op = "next" /\ (file.desc => half = NoHalf)
      /\ \E i \in SoundFor(call'.arg) : file.ents[i].rec = d.rec) =>
     LET k    == call'.arg
         rest == {i \in SoundFor(k) : Ahead(d.rec, file.ents[i].rec)}
     IN  IF d.buf # k THEN TRUE
         ELSE IF rest = {} THEN call'.rc # "ok"
         ELSE /\ call'.rc = "ok"
              /\ d'.rec = file.ents[IF file.desc THEN Max(rest) ELSE Min(rest)].rec
<1>1. Core /\ Next => NextOne
  <2> SUFFICES ASSUME Core, Next, call'.op = "next", file.desc => half = NoHalf,
                      NEW i \in SoundFor(call'.arg), file.ents[i].rec = d.rec, d.buf = call'.arg
               PROVE  FindsNext([d |-> d', rc |-> call'.rc], call'.arg, d.rec)
    BY DEF FindsNext
  <2>1. ~DoSeek
    <3> SUFFICES ASSUME DoSeek PROVE FALSE
      OBVIOUS
    <3>1. PICK arg, ents, r : Calls("seek", arg, ents, r)
      BY DEF DoSeek
    <3>2. call' = [op |-> "seek", arg |-> arg, rc |-> r.rc]
      BY <3>1 DEF Calls
    <3>3. call'.op = "seek"
      BY <3>2
    <3> QED BY <3>3
  <2>2. DoSeekNext
    BY <2>1, OtherOps
  <2> QED BY <2>2, SeekNextIsTrue
<1>2. Core /\ [Next]_vars => [NextOne]_vars
  BY <1>1
<1> QED BY <1>2, CursorInvariant, PTL DEF Spec, SeekNextIsTheNext

------------------------------------------------------------------------------
(* The order of a walk.                                                     *)

(* b comes after a in a walk of direction dir. *)
Beyond(dir, a, b) == IF dir > 0 THEN Ahead(a, b) ELSE Ahead(b, a)

(* The records nobody is changing. *)
Rested == (1..file.n) \ {half.rec}

LEMMA AheadOrder ==
  ASSUME TypeOK, NEW a \in 1..file.n, NEW b \in 1..file.n, NEW c \in 1..file.n
  PROVE  /\ ~Ahead(a, a) /\ ~(Ahead(a, b) /\ Ahead(b, a))
         /\ a = b \/ Ahead(a, b) \/ Ahead(b, a)
         /\ Ahead(a, b) /\ Ahead(b, c) => Ahead(a, c)
<1> DEFINE key(x) == IF file.sel THEN file.key[x] ELSE 0
           lt(x, y) == key(x) < key(y) \/ (key(x) = key(y) /\ x < y)
<1>1. file.key \in [1..MaxRec -> Nat] /\ file.n \in Nat /\ file.n <= MaxRec /\ MaxRec \in Nat
  BY BoundAssumption DEF TypeOK, FileType
<1>2. \A x \in 1..file.n : key(x) \in Nat /\ x \in Nat
  BY <1>1
<1>3. \A x, y \in 1..file.n : Ahead(x, y) <=> x # y /\ IF file.sel /\ file.desc THEN ~lt(x, y) ELSE lt(x, y)
  BY DEF Ahead
<1> HIDE DEF key
<1>4. \A x, y \in 1..file.n : x # y => (lt(x, y) <=> ~lt(y, x))
  BY <1>2
<1>5. \A x, y, z \in 1..file.n : lt(x, y) /\ lt(y, z) => lt(x, z)
  BY <1>2
<1>6. \A x \in 1..file.n : ~lt(x, x)
  BY <1>2
<1> HIDE DEF lt
<1>7. \A x, y \in 1..file.n : Ahead(x, y) <=> IF file.sel /\ file.desc THEN lt(y, x) ELSE lt(x, y)
  BY <1>3, <1>4, <1>6
<1> QED BY <1>4, <1>5, <1>6, <1>7

LEMMA BeyondOrder ==
  ASSUME TypeOK, NEW dir, NEW a \in 1..file.n, NEW b \in 1..file.n, NEW c \in 1..file.n
  PROVE  /\ ~Beyond(dir, a, a) /\ ~(Beyond(dir, a, b) /\ Beyond(dir, b, a))
         /\ a = b \/ Beyond(dir, a, b) \/ Beyond(dir, b, a)
         /\ Beyond(dir, a, b) /\ Beyond(dir, b, c) => Beyond(dir, a, c)
<1>1. CASE dir > 0
  BY <1>1, AheadOrder DEF Beyond
<1>2. CASE ~(dir > 0)
  BY <1>2, AheadOrder DEF Beyond
<1> QED BY <1>1, <1>2

LEMMA DirIs ==
  ASSUME TypeOK, NEW n \in {-1, 1}
  PROVE  /\ Dir(file, n) \in {-1, 1}
         /\ n = 1 => Dir(file, n) = IF file.desc THEN -1 ELSE 1
         /\ n = -1 => Dir(file, n) = IF file.desc THEN 1 ELSE -1
<1>1. file.desc \in BOOLEAN
  BY DEF TypeOK, FileType
<1> QED BY <1>1 DEF Dir

(* A walk follows the entries in the tag's direction or against it. *)
LEMMA BeyondIs ==
  ASSUME TypeOK, TagTrue, file.sel, NEW n \in {-1, 1},
         NEW i \in DOMAIN file.ents, NEW j \in DOMAIN file.ents, Sound(i), Sound(j)
  PROVE  Beyond(n, file.ents[i].rec, file.ents[j].rec) <=> IF Dir(file, n) > 0 THEN i < j ELSE j < i
<1>1. /\ Ahead(file.ents[i].rec, file.ents[j].rec) <=> IF file.desc THEN j < i ELSE i < j
      /\ Ahead(file.ents[j].rec, file.ents[i].rec) <=> IF file.desc THEN i < j ELSE j < i
  BY AheadIs
<1>2. /\ n = 1 => Dir(file, n) = IF file.desc THEN -1 ELSE 1
      /\ n = -1 => Dir(file, n) = IF file.desc THEN 1 ELSE -1
  BY DirIs
<1>3. CASE n = 1
  BY <1>1, <1>2, <1>3 DEF Beyond
<1>4. CASE n = -1
  BY <1>1, <1>2, <1>4 DEF Beyond
<1> QED BY <1>3, <1>4

(* Every record nobody is changing has its sound entry. *)
LEMMA RestedHas ==
  ASSUME TypeOK, TagTrue, NEW s \in Rested
  PROVE  \E j \in DOMAIN file.ents : file.ents[j].rec = s /\ Sound(j)
<1>1. PICK j \in DOMAIN file.ents : file.ents[j].rec = s
  BY DEF TagTrue, Rested
<1>2. Sound(j)
  BY <1>1 DEF TagTrue, Rested
<1> QED BY <1>1, <1>2

LEMMA GoIs ==
  ASSUME NEW f \in FileType, NEW e \in Place(f), NEW r \in 1..f.n
  PROVE  Go(f, e, r).rc = "ok" /\ Go(f, e, r).d.rec = r /\ Go(f, e, r).d.eof = FALSE
<1>1. r \in Int
  BY BoundAssumption DEF FileType
<1> DEFINE g == Go(f, e, r)
<1>2. g.rc = "ok" /\ g.d = [e EXCEPT !.rec = r, !.buf = f.key[r], !.bof = FALSE, !.eof = FALSE]
  BY <1>1, GoPlace
<1>3. e \in [rec : {-1} \cup (Nat \ {0}), bof : BOOLEAN, eof : BOOLEAN, buf : Nat,
             at : 1..(Len(f.ents) + 1)]
  BY DEF Place
<1> HIDE DEF g
<1>4. g.rc = "ok" /\ g.d.rec = r /\ g.d.eof = FALSE
  BY <1>2, <1>3
<1> QED BY <1>4 DEF g

(* The record a walk of direction n meets after a, and none after the last. *)
MeetsNext(n, a, r) ==
  /\ r.rc = "ok" => /\ r.d.rec \in 1..file.n /\ ~r.d.eof
                    /\ r.d.rec # half.rec =>
                         /\ Beyond(n, a, r.d.rec)
                         /\ \A s \in Rested : Beyond(n, a, s) => s = r.d.rec \/ Beyond(n, r.d.rec, s)
  /\ r.rc # "ok" => \A s \in Rested : ~Beyond(n, a, s)

LEMMA EntriesStep ==
  ASSUME TypeOK, TagTrue, file.sel, NEW n \in {-1, 1}, NEW x \in Place(file),
         x.at \in DOMAIN file.ents, Sound(x.at)
  PROVE  MeetsNext(n, file.ents[x.at].rec, SkipEntries(file, x, n))
<1> DEFINE i == x.at
           a == file.ents[x.at].rec
           dir == Dir(file, n)
           to == i + dir
           p == DSkip(file, x, n)
           r == SkipEntries(file, x, n)
           S == Here(file, to, dir)
           w == ToCounted(file, p.d, dir)
<1>1. /\ file \in FileType /\ Len(file.ents) \in Nat /\ DOMAIN file.ents = 1..Len(file.ents)
      /\ dir \in {-1, 1} /\ i \in Nat /\ n \in Int
  BY FileIs, DirIs
<1>2. /\ to \in DOMAIN file.ents => p.d = [x EXCEPT !.at = to] /\ p.done = n
      /\ to \notin DOMAIN file.ents => p.d = x /\ p.done = 0
  BY <1>1, DSkipOne
<1>3. p.d \in Place(file)
  BY <1>1, DSkipPlace
<1>4. r = Landed(file, p, n, dir)
  BY DEF SkipEntries, Dir
<1>5. \A s \in Rested : \E j \in DOMAIN file.ents :
        /\ file.ents[j].rec = s /\ Sound(j) /\ file.ents[j].rec <= file.n
        /\ Beyond(n, a, s) <=> IF dir > 0 THEN i < j ELSE j < i
  <2> TAKE s \in Rested
  <2>1. PICK j \in DOMAIN file.ents : file.ents[j].rec = s /\ Sound(j)
    BY RestedHas
  <2>2. Beyond(n, a, s) <=> IF dir > 0 THEN i < j ELSE j < i
    BY <2>1, BeyondIs
  <2> QED BY <2>1, <2>2 DEF Sound
<1> HIDE DEF p, r, dir, to
<1>6. CASE to \notin DOMAIN file.ents
  <2>1. r.rc # "ok"
    <3>1. p.done # n /\ ~TagEof(file, p.d)
      BY <1>1, <1>2, <1>6 DEF TagEof
    <3>2. \A y \in Place(file) : BofAndEof(file, y).rc = "eof" /\ GoEof(file, y).rc = "eof"
      BY <1>1, GoEofPlace
    <3>3. \/ r = GoEof(file, p.d) \/ (w.d \in Place(file) /\ r = BofAndEof(file, w.d)) \/ r.rc = "bof"
      <4>1. w.d \in Place(file)
        <5>1. dir \in Int
          BY <1>1
        <5> QED BY <1>1, <1>3, <5>1, ToCountedIs DEF Counts
      <4>2. \/ r = GoEof(file, p.d) \/ r = BofAndEof(file, w.d)
            \/ r = Res([Go(file, w.d, TagRec(file, w.d)).d EXCEPT !.bof = TRUE], "bof")
        BY <1>4, <3>1 DEF Landed
      <4> QED BY <4>1, <4>2 DEF Res
    <3> QED BY <1>3, <3>2, <3>3
  <2>2. \A s \in Rested : ~Beyond(n, a, s)
    <3> SUFFICES ASSUME NEW s \in Rested, Beyond(n, a, s) PROVE FALSE
      OBVIOUS
    <3>1. PICK j \in 1..Len(file.ents) : IF dir > 0 THEN i < j ELSE j < i
      BY <1>1, <1>5
    <3>2. i + dir \in 1..Len(file.ents)
      BY <1>1, <3>1
    <3> QED BY <1>1, <1>6, <3>2 DEF to
  <2> QED BY <2>1, <2>2 DEF MeetsNext, r
<1>7. CASE to \in DOMAIN file.ents
  <2>1. p.d.at = to /\ p.done = n /\ to \in Int
    <3>1. [x EXCEPT !.at = to].at = to
      BY DEF Place
    <3>2. to \in Int
      BY <1>1, <1>7
    <3> QED BY <1>2, <1>7, <3>1, <3>2
  <2>2. ~TagEof(file, p.d)
    BY <1>1, <1>7, <2>1 DEF TagEof
  <2>3. r = IF w.found THEN Go(file, w.d, TagRec(file, w.d)) ELSE BofAndEof(file, w.d)
    BY <1>4, <2>1, <2>2 DEF Landed
  <2> DEFINE k == IF dir > 0 THEN Min(S) ELSE Max(S)
  <2>4. /\ w.d \in Place(file) /\ w.found = (S # {})
        /\ S # {} => /\ k \in S /\ k \in 1..Len(file.ents)
                     /\ TagRec(file, w.d) = file.ents[k].rec /\ file.ents[k].rec \in 1..file.n
    <3>1. dir \in Int
      BY <1>1
    <3>2. Counts(file, p.d, dir, w)
      BY <1>1, <1>3, <3>1, ToCountedIs
    <3> QED BY <2>1, <3>2 DEF Counts
  <2>5. \A j \in DOMAIN file.ents : j \in S <=> file.ents[j].rec <= file.n /\ IF dir > 0 THEN i < j ELSE j < i
    <3> TAKE j \in DOMAIN file.ents
    <3>1. (IF dir > 0 THEN j >= to ELSE j <= to) <=> IF dir > 0 THEN i < j ELSE j < i
      BY <1>1 DEF to
    <3> QED BY <3>1 DEF Here
  <2>6. S # {} => \A j \in S : IF dir > 0 THEN k <= j ELSE j <= k
    <3>1. dir \in Int
      BY <1>1
    <3> QED BY <1>1, <3>1, HereIs
  <2> HIDE DEF S, k, w
  <2>7. CASE S = {}
    <3>1. r.rc = "eof"
      BY <1>1, <2>3, <2>4, <2>7, GoEofPlace
    <3>2. \A s \in Rested : ~Beyond(n, a, s)
      BY <1>5, <2>5, <2>7
    <3> QED BY <3>1, <3>2 DEF MeetsNext, r
  <2>8. CASE S # {}
    <3>1. r.rc = "ok" /\ r.d.rec = file.ents[k].rec /\ r.d.eof = FALSE /\ file.ents[k].rec \in 1..file.n
      <4>1. r = Go(file, w.d, file.ents[k].rec) /\ w.d \in Place(file) /\ file.ents[k].rec \in 1..file.n
        BY <2>3, <2>4, <2>8
      <4> QED BY <1>1, <4>1, GoIs
    <3>2. ASSUME file.ents[k].rec # half.rec
          PROVE  /\ Beyond(n, a, file.ents[k].rec)
                 /\ \A s \in Rested : Beyond(n, a, s) => s = file.ents[k].rec \/ Beyond(n, file.ents[k].rec, s)
      <4>1. k \in DOMAIN file.ents /\ k \in S /\ Sound(k)
        BY <1>1, <2>4, <2>8, <3>2 DEF TagTrue
      <4>2. Beyond(n, a, file.ents[k].rec)
        <5>1. IF dir > 0 THEN i < k ELSE k < i
          BY <2>5, <4>1
        <5> QED BY <4>1, <5>1, BeyondIs DEF dir
      <4>3. ASSUME NEW s \in Rested, Beyond(n, a, s)
            PROVE  s = file.ents[k].rec \/ Beyond(n, file.ents[k].rec, s)
        <5>1. PICK j \in DOMAIN file.ents : /\ file.ents[j].rec = s /\ Sound(j) /\ file.ents[j].rec <= file.n
                                            /\ IF dir > 0 THEN i < j ELSE j < i
          BY <1>5, <4>3
        <5>2. IF dir > 0 THEN k <= j ELSE j <= k
          BY <2>5, <2>6, <2>8, <5>1
        <5>3. j = k \/ IF dir > 0 THEN k < j ELSE j < k
          BY <1>1, <4>1, <5>2
        <5>4. CASE j = k
          BY <5>1, <5>4
        <5>5. CASE IF dir > 0 THEN k < j ELSE j < k
          BY <4>1, <5>1, <5>5, BeyondIs DEF dir
        <5> QED BY <5>3, <5>4, <5>5
      <4> QED BY <4>2, <4>3
    <3> QED BY <3>1, <3>2 DEF MeetsNext, r
  <2> QED BY <2>7, <2>8
<1> QED BY <1>6, <1>7

LEMMA SkipMeets ==
  ASSUME Core, NEW n \in {-1, 1}, d.rec \in Rested, ~d.eof, NEW c, c = Skipping(n)
  PROVE  MeetsNext(n, d.rec, DSkipRec(Seen(c.ents), c.d, n))
<1>1. /\ file \in FileType /\ Seen(tag) \in FileType /\ d \in Place(Seen(tag)) /\ file.sel \in BOOLEAN
      /\ file.n \in Nat /\ d.rec \in 1..file.n /\ d.rec # half.rec /\ n \in Int
  BY PlacesAre, BoundAssumption DEF Core, TypeOK, FileType, Rested
<1>2. c = IF file.sel THEN Checked(d, TRUE) ELSE AsIs
  <2>1. ~(d.rec < 1) /\ (~d.eof) = TRUE
    BY <1>1
  <2>2. c = View(~d.eof)
    BY <2>1 DEF Skipping
  <2> QED BY <2>1, <2>2 DEF View
<1>3. d.rec \in Nat /\ ~(d.rec < 1) /\ d.rec >= 1
  BY <1>1
<1>4. CASE ~file.sel
  <2> DEFINE f == Seen(tag)
             here == [d EXCEPT !.bof = FALSE]
             to == d.rec + n
             r == DSkipRec(f, d, n)
  <2>1. c.d = d /\ c.ents = tag
    BY <1>2, <1>4 DEF AsIs, Blocks
  <2>2. f.n = file.n /\ ~f.sel
    <3>1. file \in [n : 0..MaxRec, key : [1..MaxRec -> Nat], ents : Seq(EntryType),
                    desc : BOOLEAN, sel : BOOLEAN]
      BY <1>1 DEF FileType
    <3> QED BY <1>4, <3>1 DEF Seen
  <2>3. here \in Place(f)
    BY <1>1, PlaceExcept
  <2>4. r = SkipRecords(f, d, n)
    BY <1>3, <2>2 DEF DSkipRec
  <2>5. \A a, b : Beyond(n, a, b) <=> IF n > 0 THEN a # b /\ a < b ELSE a # b /\ b < a
    BY <1>4 DEF Beyond, Ahead
  <2> HIDE DEF f, here, r
  <2>6. CASE to \in 1..file.n
    <3>1. r = Go(f, here, to)
      BY <1>1, <2>2, <2>4, <2>6 DEF SkipRecords, here
    <3>2. r.rc = "ok" /\ r.d.rec = to /\ r.d.eof = FALSE
      BY <1>1, <2>2, <2>3, <2>6, <3>1, GoIs DEF f
    <3>3. Beyond(n, d.rec, to)
      BY <1>3, <2>5
    <3>4. \A s \in Rested : Beyond(n, d.rec, s) => s = to \/ Beyond(n, to, s)
      <4> SUFFICES ASSUME NEW s \in Nat, Beyond(n, d.rec, s) PROVE s = to \/ Beyond(n, to, s)
        BY <1>1 DEF Rested
      <4>1. IF n > 0 THEN d.rec < s ELSE s < d.rec
        BY <2>5
      <4>2. s = to \/ (IF n > 0 THEN to < s ELSE s < to)
        BY <1>3, <4>1
      <4>3. to \in Int
        BY <1>3
      <4> HIDE DEF to
      <4> QED BY <2>5, <4>2, <4>3
    <3> QED BY <2>1, <2>6, <3>2, <3>3, <3>4 DEF MeetsNext, r, f
  <2>7. CASE to \notin 1..file.n
    <3>1. r.rc # "ok"
      <4>1. CASE n = 1
        <5> DEFINE none == Go(f, here, to).d
        <5>1. to > 0 /\ to > f.n /\ f.n # 0 /\ ~(n < 0)
          BY <1>1, <2>2, <2>7, <4>1
        <5>2. r = GoEof(f, none)
          BY <2>4, <5>1 DEF SkipRecords, here
        <5> QED BY <5>2 DEF GoEof, Res
      <4>2. CASE n = -1
        <5>1. ~(to > 0) /\ ~(f.n = 0 \/ to > f.n)
          BY <1>1, <2>2, <2>7, <4>2
        <5>2. r = Res([Go(f, here, 1).d EXCEPT !.bof = TRUE, !.eof = d.eof], "bof")
          BY <2>4, <5>1 DEF SkipRecords, here
        <5> QED BY <5>2 DEF Res
      <4> QED BY <4>1, <4>2
    <3>2. \A s \in Rested : ~Beyond(n, d.rec, s)
      <4> SUFFICES ASSUME NEW s \in 1..file.n, Beyond(n, d.rec, s) PROVE FALSE
        BY DEF Rested
      <4>1. IF n > 0 THEN d.rec < s ELSE s < d.rec
        BY <2>5
      <4> QED BY <1>1, <2>7, <4>1
    <3> QED BY <2>1, <3>1, <3>2 DEF MeetsNext, r, f
  <2> QED BY <2>6, <2>7
<1>5. CASE file.sel
  <2>1. c.ents = file.ents /\ c.d \in Place(file) /\ c.d = [d EXCEPT !.at = c.d.at] /\ Seen(c.ents) = file
    BY <1>1, <1>2, <1>5, CheckedIs, PlacesAre DEF Core
  <2> DEFINE e == [c.d EXCEPT !.bof = FALSE]
             read == Go(file, e, e.rec)
             t == TagGo(file, read.d, file.key[e.rec], e.rec)
  <2>2. c.d.rec = d.rec /\ c.d.eof = FALSE
    <3>1. d \in [rec : {-1} \cup (Nat \ {0}), bof : BOOLEAN, eof : BOOLEAN, buf : Nat,
                 at : 1..(Len(Seen(tag).ents) + 1)]
      BY <1>1 DEF Place
    <3>2. d.eof = FALSE
      BY <3>1
    <3> QED BY <2>1, <3>1, <3>2
  <2>3. e \in Place(file) /\ e.rec = d.rec
    <3>1. e \in Place(file)
      BY <1>1, <2>1, PlaceExcept
    <3>2. c.d \in [rec : {-1} \cup (Nat \ {0}), bof : BOOLEAN, eof : BOOLEAN, buf : Nat,
                   at : 1..(Len(file.ents) + 1)]
      BY <2>1 DEF Place
    <3> QED BY <2>2, <3>1, <3>2
  <2>4. DSkipRec(Seen(c.ents), c.d, n) = SkipFrom(file, e, n)
    BY <1>3, <1>5, <2>1, <2>2 DEF DSkipRec, SkipTag
  <2> HIDE DEF e
  <2>5. PICK i \in DOMAIN file.ents : file.ents[i].rec = d.rec /\ Sound(i)
    BY RestedHas DEF Core
  <2>6. PICK x \in Place(file) : x.at = i /\ SkipFrom(file, e, n) = SkipEntries(file, x, n)
    <3>1. CASE TagRec(file, e) = e.rec
      <4>1. e.at \in 1..Len(file.ents) /\ file.ents[e.at].rec = e.rec
        BY <1>1, <1>3, <2>3, <3>1, TagRecIs
      <4>2. e.at = i
        BY <2>3, <2>5, <4>1, FileIs DEF Core, TagTrue, OneEach
      <4>3. SkipFrom(file, e, n) = SkipEntries(file, e, n)
        BY <3>1 DEF SkipFrom
      <4> QED BY <2>3, <4>2, <4>3
    <3>2. CASE TagRec(file, e) # e.rec
      <4>1. read.rc = "ok" /\ read.d \in Place(file)
        <5>1. e.rec \in 1..file.n /\ e.rec \in Int
          BY <1>1, <1>3, <2>3
        <5> QED BY <1>1, <2>3, <5>1, GoPlace
      <4> HIDE DEF read
      <4>2. file.key[e.rec] = file.ents[i].key /\ e.rec = file.ents[i].rec
        BY <2>3, <2>5 DEF Sound
      <4>3. t.rc = "ok" /\ t.d = [read.d EXCEPT !.at = i] /\ t.d \in Place(file)
        <5>1. t = TagGo(file, read.d, file.ents[i].key, file.ents[i].rec) /\ Sorted(file.ents)
          BY <4>2, FileIs DEF Core
        <5> QED BY <1>1, <4>1, <5>1, GoesToEntry
      <4> HIDE DEF t
      <4>4. t.d.at = i
        BY <4>1, <4>3 DEF Place
      <4>5. SkipFrom(file, e, n) = SkipBrought(file, t, n)
        BY <3>2, <4>1 DEF SkipFrom, read, t
      <4>6. SkipBrought(file, t, n) = SkipEntries(file, t.d, n)
        BY <4>3 DEF SkipBrought
      <4> QED BY <4>3, <4>4, <4>5, <4>6
    <3> QED BY <3>1, <3>2
  <2>7. MeetsNext(n, file.ents[x.at].rec, SkipEntries(file, x, n))
    BY <1>5, <2>5, <2>6, EntriesStep DEF Core
  <2> QED BY <2>4, <2>5, <2>6, <2>7
<1> QED BY <1>1, <1>4, <1>5

(* The record a walk of direction n begins with. *)
MeetsFirst(n, r) ==
  /\ r.rc = "ok" => /\ r.d.rec \in 1..file.n /\ ~r.d.eof
                    /\ r.d.rec # half.rec => \A s \in Rested : s = r.d.rec \/ Beyond(n, r.d.rec, s)
  /\ r.rc # "ok" => Rested = {}

LEMMA EndedMeets ==
  ASSUME TypeOK, TagTrue, file.sel, NEW n \in {-1, 1}, NEW m \in {-1, 1}, NEW x \in Place(file), NEW S,
         S = Here(file, x.at, m),
         S = {} => \A j \in DOMAIN file.ents : ~(file.ents[j].rec <= file.n),
         \A k \in S : (\A j \in S : IF m > 0 THEN k <= j ELSE j <= k) =>
            \A j \in DOMAIN file.ents : file.ents[j].rec <= file.n =>
               IF Dir(file, n) > 0 THEN k <= j ELSE j <= k
  PROVE  MeetsFirst(n, Ended(file, x, m))
<1> DEFINE w == ToCounted(file, x, m)
           r == Ended(file, x, m)
           k == IF m > 0 THEN Min(S) ELSE Max(S)
<1>1. /\ file \in FileType /\ m \in Int /\ Len(file.ents) \in Nat /\ DOMAIN file.ents = 1..Len(file.ents)
      /\ Dir(file, n) \in {-1, 1}
  BY FileIs, DirIs
<1>2. Counts(file, x, m, w)
  BY <1>1, ToCountedIs
<1>3. S # {} => \A j \in S : IF m > 0 THEN k <= j ELSE j <= k
  BY <1>1, HereIs
<1>4. /\ w.d \in Place(file) /\ w.found = (S # {})
      /\ S # {} => /\ k \in S /\ k \in 1..Len(file.ents)
                   /\ TagRec(file, w.d) = file.ents[k].rec /\ file.ents[k].rec \in 1..file.n
  BY <1>2 DEF Counts
<1>5. r = Counted(file, w)
  BY DEF Ended
<1>6. \A s \in Rested : \E j \in DOMAIN file.ents :
        file.ents[j].rec = s /\ Sound(j) /\ file.ents[j].rec <= file.n
  BY RestedHas DEF Sound
<1> HIDE DEF k, w, r
<1>7. CASE S = {}
  <2>1. r.rc = "eof"
    BY <1>1, <1>4, <1>5, <1>7, GoEofPlace DEF Counted
  <2>2. Rested = {}
    BY <1>6, <1>7
  <2> QED BY <2>1, <2>2 DEF MeetsFirst, r
<1>8. CASE S # {}
  <2>1. r.rc = "ok" /\ r.d.rec = file.ents[k].rec /\ r.d.eof = FALSE /\ file.ents[k].rec \in 1..file.n
    <3>1. r = Go(file, w.d, file.ents[k].rec) /\ w.d \in Place(file) /\ file.ents[k].rec \in 1..file.n
      BY <1>4, <1>5, <1>8 DEF Counted
    <3> QED BY <1>1, <3>1, GoIs
  <2>2. k \in S /\ k \in DOMAIN file.ents /\ k \in Nat
    BY <1>1, <1>4, <1>8
  <2>3. \A j \in DOMAIN file.ents : file.ents[j].rec <= file.n =>
               IF Dir(file, n) > 0 THEN k <= j ELSE j <= k
    BY <1>3, <1>8, <2>2
  <2>4. ASSUME file.ents[k].rec # half.rec, NEW s \in Rested
        PROVE  s = file.ents[k].rec \/ Beyond(n, file.ents[k].rec, s)
    <3>1. Sound(k)
      BY <2>2, <2>4 DEF TagTrue
    <3>2. PICK j \in DOMAIN file.ents : file.ents[j].rec = s /\ Sound(j) /\ file.ents[j].rec <= file.n
      BY <1>6, <2>4
    <3>3. j \in Nat
      BY <1>1
    <3>4. j = k \/ IF Dir(file, n) > 0 THEN k < j ELSE j < k
      BY <1>1, <2>2, <2>3, <3>2, <3>3
    <3>5. CASE j = k
      BY <3>2, <3>5
    <3>6. CASE IF Dir(file, n) > 0 THEN k < j ELSE j < k
      BY <2>2, <3>1, <3>2, <3>6, BeyondIs
    <3> QED BY <3>4, <3>5, <3>6
  <2> QED BY <2>1, <2>4 DEF MeetsFirst, r
<1> QED BY <1>7, <1>8

LEMMA EndsMeet ==
  ASSUME Core, NEW c, c = View(FALSE)
  PROVE  /\ MeetsFirst(1, DTop(Seen(c.ents), c.d))
         /\ MeetsFirst(-1, DBottom(Seen(c.ents), c.d))
<1>1. /\ file \in FileType /\ Seen(tag) \in FileType /\ d \in Place(Seen(tag)) /\ file.sel \in BOOLEAN
      /\ file.n \in Nat /\ file.desc \in BOOLEAN
  BY PlacesAre, BoundAssumption DEF Core, TypeOK, FileType
<1>2. c = IF file.sel THEN Checked(d, FALSE) ELSE AsIs
  BY DEF View
<1>3. CASE ~file.sel
  <2> DEFINE f == Seen(tag)
  <2>1. c.d = d /\ c.ents = tag
    <3>1. c = AsIs
      BY <1>2, <1>3
    <3>2. AsIs = [ents |-> tag, d |-> d, lost |-> FALSE]
      BY DEF AsIs, Blocks
    <3>3. [ents |-> tag, d |-> d, lost |-> FALSE].d = d /\ [ents |-> tag, d |-> d, lost |-> FALSE].ents = tag
      OBVIOUS
    <3> QED BY <3>1, <3>2, <3>3
  <2>2. f.n = file.n /\ ~f.sel
    <3>1. file \in [n : 0..MaxRec, key : [1..MaxRec -> Nat], ents : Seq(EntryType),
                    desc : BOOLEAN, sel : BOOLEAN]
      BY <1>1 DEF FileType
    <3> QED BY <1>3, <3>1 DEF Seen
  <2>3. \A n, a, b : Beyond(n, a, b) <=> IF n > 0 THEN a # b /\ a < b ELSE a # b /\ b < a
    BY <1>3 DEF Beyond, Ahead
  <2> HIDE DEF f
  <2>4. CASE file.n = 0
    <3>1. DTop(f, d) = BofAndEof(f, d) /\ DBottom(f, d) = BofAndEof(f, d)
      BY <2>2, <2>4 DEF DTop, DBottom
    <3>2. BofAndEof(f, d).rc = "eof"
      BY DEF BofAndEof, GoEof, Res
    <3>3. Rested = {}
      BY <2>4 DEF Rested
    <3> QED BY <2>1, <3>1, <3>2, <3>3 DEF MeetsFirst, f
  <2>5. CASE file.n > 0
    <3>1. DTop(f, d) = Go(f, d, 1) /\ DBottom(f, d) = Go(f, d, file.n)
      BY <2>2, <2>5 DEF DTop, DBottom
    <3>2. 1 \in 1..f.n /\ file.n \in 1..f.n
      BY <1>1, <2>2, <2>5
    <3>3. /\ DTop(f, d).rc = "ok" /\ DTop(f, d).d.rec = 1 /\ DTop(f, d).d.eof = FALSE
          /\ DBottom(f, d).rc = "ok" /\ DBottom(f, d).d.rec = file.n /\ DBottom(f, d).d.eof = FALSE
      <4>1. f \in FileType /\ d \in Place(f)
        BY <1>1 DEF f
      <4>2. \A x \in 1..f.n : Go(f, d, x).rc = "ok" /\ Go(f, d, x).d.rec = x /\ Go(f, d, x).d.eof = FALSE
        BY <4>1, GoIs
      <4> QED BY <3>1, <3>2, <4>2
    <3>4. \A s \in Rested : s = 1 \/ Beyond(1, 1, s)
      <4> SUFFICES ASSUME NEW s \in 1..file.n PROVE s = 1 \/ Beyond(1, 1, s)
        BY DEF Rested
      <4>1. s = 1 \/ 1 < s
        BY <1>1
      <4> QED BY <2>3, <4>1
    <3>5. \A s \in Rested : s = file.n \/ Beyond(-1, file.n, s)
      <4> SUFFICES ASSUME NEW s \in 1..file.n PROVE s = file.n \/ Beyond(-1, file.n, s)
        BY DEF Rested
      <4>1. s = file.n \/ s < file.n
        BY <1>1
      <4>2. ~(-1 > 0)
        OBVIOUS
      <4> QED BY <2>3, <4>1, <4>2
    <3>6. 1 \in 1..file.n /\ file.n \in 1..file.n
      BY <1>1, <2>5
    <3> QED BY <2>1, <3>3, <3>4, <3>5, <3>6 DEF MeetsFirst, f
  <2>6. file.n = 0 \/ file.n > 0
    BY <1>1
  <2> QED BY <2>4, <2>5, <2>6
<1>4. CASE file.sel
  <2> DEFINE e == c.d
             len == Len(file.ents)
  <2>1. c.ents = file.ents /\ e \in Place(file) /\ Seen(c.ents) = file
    BY <1>1, <1>2, <1>4, CheckedIs, PlacesAre DEF Core
  <2> HIDE DEF e
  <2>2. len \in Nat /\ DOMAIN file.ents = 1..len /\ file.ents \in Seq(EntryType)
    BY <1>1, FileIs DEF Core, FileType
  <2>3. file.desc => \A j \in DOMAIN file.ents : file.ents[j].rec <= file.n
    BY DEF Core, TagTrue
  <2>4. 1 \in {-1, 1} /\ -1 \in {-1, 1} /\ Dir(file, 1) = (IF file.desc THEN -1 ELSE 1)
        /\ Dir(file, -1) = (IF file.desc THEN 1 ELSE -1)
    BY DirIs DEF Core
  <2>5. CASE file.ents = << >>
    <3>1. /\ DTop(file, e) = BofAndEof(file, TagTop(file, e))
          /\ DBottom(file, e) = BofAndEof(file, TagBottom(file, e))
      BY <1>4, <2>5 DEF DTop, DBottom
    <3>2. DTop(file, e).rc = "eof" /\ DBottom(file, e).rc = "eof"
      BY <3>1 DEF BofAndEof, GoEof, Res
    <3>3. Rested = {}
      BY <2>5, RestedHas DEF Core
    <3> QED BY <2>1, <3>2, <3>3 DEF MeetsFirst, e
  <2>6. CASE file.ents # << >>
    <3> DEFINE top == TagTop(file, e)
               bottom == TagBottom(file, e)
    <3>1. DTop(file, e) = Ended(file, top, 1) /\ DBottom(file, e) = Ended(file, bottom, -1)
      BY <1>4, <2>6 DEF DTop, DBottom
    <3>2. len >= 1 /\ LastOr1(file) = len
      BY <2>2, <2>6 DEF LastOr1
    <3>3. /\ top \in Place(file) /\ bottom \in Place(file)
          /\ top.at = (IF file.desc THEN len ELSE 1) /\ bottom.at = (IF file.desc THEN 1 ELSE len)
      <4>1. \A i : [e EXCEPT !.at = i].at = i
        BY <2>1 DEF Place
      <4>2. /\ top \in Place(file) /\ top = [e EXCEPT !.at = IF file.desc THEN LastOr1(file) ELSE 1]
            /\ bottom \in Place(file) /\ bottom = [e EXCEPT !.at = IF file.desc THEN 1 ELSE LastOr1(file)]
        BY <1>1, <2>1, TagEndsPlace
      <4> HIDE DEF top, bottom
      <4> QED BY <3>2, <4>1, <4>2
    <3> HIDE DEF top, bottom
    <3> DEFINE T == Here(file, top.at, 1)
               B == Here(file, bottom.at, -1)
    <3>4. \A j \in DOMAIN file.ents : j \in T <=> file.ents[j].rec <= file.n /\ (file.desc => j = len)
      <4> TAKE j \in DOMAIN file.ents
      <4>1. j >= top.at <=> (file.desc => j = len)
        BY <1>1, <2>2, <3>3
      <4> QED BY <4>1 DEF Here
    <3>5. \A j \in DOMAIN file.ents : j \in B <=> file.ents[j].rec <= file.n /\ (file.desc => j = 1)
      <4> TAKE j \in DOMAIN file.ents
      <4>1. j <= bottom.at <=> (file.desc => j = 1)
        BY <1>1, <2>2, <3>3
      <4>2. ~(-1 > 0)
        OBVIOUS
      <4> QED BY <4>1, <4>2 DEF Here
    <3>6. T \subseteq DOMAIN file.ents /\ B \subseteq DOMAIN file.ents
      BY DEF Here
    <3>7. 1 \in DOMAIN file.ents /\ len \in DOMAIN file.ents
      BY <2>2, <3>2
    <3> HIDE DEF T, B
    <3>8. T = {} => \A j \in DOMAIN file.ents : ~(file.ents[j].rec <= file.n)
      BY <2>3, <3>4, <3>7
    <3>9. B = {} => \A j \in DOMAIN file.ents : ~(file.ents[j].rec <= file.n)
      BY <2>3, <3>5, <3>7
    <3>10. \A k \in T : (\A j \in T : IF 1 > 0 THEN k <= j ELSE j <= k) =>
             \A j \in DOMAIN file.ents : file.ents[j].rec <= file.n =>
                IF Dir(file, 1) > 0 THEN k <= j ELSE j <= k
      <4> SUFFICES ASSUME NEW k \in T, \A j \in T : k <= j, NEW j \in DOMAIN file.ents, file.ents[j].rec <= file.n
                   PROVE  IF Dir(file, 1) > 0 THEN k <= j ELSE j <= k
        OBVIOUS
      <4>1. CASE file.desc
        BY <2>2, <2>4, <3>4, <3>6, <4>1
      <4>2. CASE ~file.desc
        BY <2>4, <3>4, <4>2
      <4> QED BY <4>1, <4>2
    <3>11. \A k \in B : (\A j \in B : IF -1 > 0 THEN k <= j ELSE j <= k) =>
             \A j \in DOMAIN file.ents : file.ents[j].rec <= file.n =>
                IF Dir(file, -1) > 0 THEN k <= j ELSE j <= k
      <4> SUFFICES ASSUME NEW k \in B, \A j \in B : j <= k, NEW j \in DOMAIN file.ents, file.ents[j].rec <= file.n
                   PROVE  IF Dir(file, -1) > 0 THEN k <= j ELSE j <= k
        OBVIOUS
      <4>1. CASE file.desc
        BY <2>2, <2>4, <3>5, <3>6, <4>1
      <4>2. CASE ~file.desc
        BY <2>4, <3>5, <4>2
      <4> QED BY <4>1, <4>2
    <3>12. MeetsFirst(1, Ended(file, top, 1))
      BY <1>4, <2>4, <3>3, <3>8, <3>10, EndedMeets DEF Core, T
    <3>13. MeetsFirst(-1, Ended(file, bottom, -1))
      BY <1>4, <2>4, <3>3, <3>9, <3>11, EndedMeets DEF Core, B
    <3> QED BY <2>1, <3>1, <3>12, <3>13 DEF e
  <2> QED BY <2>5, <2>6
<1> QED BY <1>1, <1>3, <1>4

(* The walk w of a program that stands at e: what it met is in order, a     *)
(* walk under way stands on a record nobody is changing and has met of the  *)
(* steady ones those up to there, and one that is over has met all.         *)
WalkIs(w, e) ==
  /\ w.dir = 0 => w.steady = {}
  /\ w.steady \subseteq Rested
  /\ w.dir # 0 /\ ~w.over =>
       /\ e.rec \in Rested /\ ~e.eof
       /\ \A s \in w.steady : (\E i \in DOMAIN w.met : w.met[i] = s) <=> s = e.rec \/ Beyond(w.dir, s, e.rec)
  /\ \A i, j \in DOMAIN w.met :
       i < j /\ w.met[i] \in w.steady /\ w.met[j] \in w.steady => Beyond(w.dir, w.met[i], w.met[j])
  /\ w.over => \A s \in w.steady : \E i \in DOMAIN w.met : w.met[i] = s

WalkTrue == WalkIs(walk, d)

LEMMA WalkTrueMeets == WalkTrue => WalkMeetsEveryone
<1> SUFFICES ASSUME WalkTrue PROVE WalkMeetsEveryone
  OBVIOUS
<1>1. ASSUME NEW i \in DOMAIN walk.met, NEW j \in DOMAIN walk.met,
             i < j /\ {walk.met[i], walk.met[j]} \subseteq walk.steady
      PROVE  IF walk.dir > 0 THEN Ahead(walk.met[i], walk.met[j]) ELSE Ahead(walk.met[j], walk.met[i])
  <2>1. walk.met[i] \in walk.steady /\ walk.met[j] \in walk.steady
    BY <1>1
  <2>2. Beyond(walk.dir, walk.met[i], walk.met[j])
    BY <1>1, <2>1 DEF WalkTrue, WalkIs
  <2> QED BY <2>2 DEF Beyond
<1>2. walk.over => walk.steady \subseteq {walk.met[i] : i \in DOMAIN walk.met}
  BY DEF WalkTrue, WalkIs
<1> QED BY <1>1, <1>2 DEF WalkMeetsEveryone

LEMMA NoWalkIs == ASSUME NEW e PROVE WalkIs(NoWalk, e)
<1>1. NoWalk.dir = 0 /\ NoWalk.steady = {} /\ NoWalk.met = << >> /\ NoWalk.over = FALSE
  BY DEF NoWalk
<1>2. DOMAIN << >> = {}
  OBVIOUS
<1> QED BY <1>1, <1>2 DEF WalkIs

(* A call of the program changes neither the file nor what the other user   *)
(* has begun.                                                               *)
LEMMA CallWalk ==
  ASSUME NEW op, NEW arg, NEW ents, NEW r, Calls(op, arg, ents, r), WalkIs(Walked(op, arg, r), r.d)
  PROVE  WalkTrue'
<1> DEFINE w == Walked(op, arg, r)
           e == r.d
<1>1. file' = file /\ half' = half /\ d' = e /\ walk' = w
  BY DEF Calls
<1>2. WalkIs(w, e)
  OBVIOUS
<1> HIDE DEF w, e
<1>3. WalkIs(walk, d)'
  BY <1>1, <1>2 DEF WalkIs, Rested, Beyond, Ahead
<1> QED BY <1>3 DEF WalkTrue

LEMMA BegunIs ==
  ASSUME Core, NEW n \in {-1, 1}, NEW r, MeetsFirst(n, r), ~(r.d.rec = half.rec /\ ~r.d.eof)
  PROVE  WalkIs(Begun(n, r), r.d)
<1> DEFINE w == Begun(n, r)
           a == r.d.rec
<1>1. w.dir = n /\ w.steady = Rested /\ w.over = (r.rc # "ok") /\ w.met = (IF r.rc = "ok" THEN <<a>> ELSE << >>)
  BY DEF Begun, Rested
<1> HIDE DEF w
<1>2. CASE r.rc = "ok"
  <2>1. a \in 1..file.n /\ ~r.d.eof /\ a # half.rec /\ \A s \in Rested : s = a \/ Beyond(n, a, s)
    BY <1>2 DEF MeetsFirst
  <2>2. a \in Rested
    BY <2>1 DEF Rested
  <2> HIDE DEF a
  <2>3. w.met = <<a>> /\ DOMAIN w.met = {1} /\ w.met[1] = a /\ w.over = FALSE
    <3>1. w.over = FALSE /\ w.met = <<a>>
      BY <1>1, <1>2
    <3>2. DOMAIN <<a>> = 1..1 /\ <<a>>[1] = a
      OBVIOUS
    <3> QED BY <3>1, <3>2
  <2>4. \A s \in Rested : ~Beyond(n, s, a)
    <3> SUFFICES ASSUME NEW s \in Rested, Beyond(n, s, a) PROVE FALSE
      OBVIOUS
    <3>1. s \in 1..file.n
      BY DEF Rested
    <3> QED BY <2>1, <3>1, BeyondOrder DEF Core
  <2>5. \A s \in w.steady : (\E i \in DOMAIN w.met : w.met[i] = s) <=> s = a \/ Beyond(w.dir, s, a)
    BY <1>1, <2>3, <2>4
  <2>6. \A i, j \in DOMAIN w.met : ~(i < j)
    BY <2>3
  <2>7. w.dir # 0 /\ w.steady \subseteq Rested
    BY <1>1
  <2>8. WalkIs(w, r.d)
    BY <2>1, <2>2, <2>3, <2>5, <2>6, <2>7 DEF WalkIs, a
  <2> QED BY <2>8 DEF w
<1>3. CASE r.rc # "ok"
  <2>1. w.steady = {} /\ w.over = TRUE
    BY <1>1, <1>3 DEF MeetsFirst
  <2>2. WalkIs(w, r.d)
    BY <2>1 DEF WalkIs
  <2> QED BY <2>2 DEF w
<1> QED BY <1>2, <1>3

LEMMA SteppedIs ==
  ASSUME Core, WalkTrue, NEW n \in {-1, 1}, n = walk.dir, ~walk.over, NEW r, MeetsNext(n, d.rec, r),
         ~(r.d.rec = half.rec /\ ~r.d.eof)
  PROVE  WalkIs(Stepped(r), r.d)
<1> DEFINE w == Stepped(r)
           a == r.d.rec
           b == d.rec
           met == walk.met
           steady == walk.steady
           len == Len(met)
<1>1. walk \in WalkType
  BY DEF Core, TypeOK, WalkType
<1>2. met \in Seq({-1} \cup (Nat \ {0})) /\ len \in Nat /\ DOMAIN met = 1..len
  BY <1>1 DEF WalkType
<1>3. /\ b \in Rested /\ steady \subseteq Rested
      /\ \A s \in steady : (\E i \in DOMAIN met : met[i] = s) <=> s = b \/ Beyond(n, s, b)
      /\ \A i, j \in DOMAIN met : i < j /\ met[i] \in steady /\ met[j] \in steady => Beyond(n, met[i], met[j])
  <2>1. walk.dir # 0
    OBVIOUS
  <2> QED BY <2>1 DEF WalkTrue, WalkIs
<1>4. b \in 1..file.n /\ \A s \in steady : s \in 1..file.n /\ s \in Rested
  BY <1>3 DEF Rested
<1>5. CASE r.rc = "ok"
  <2>1. /\ a \in 1..file.n /\ ~r.d.eof /\ a # half.rec /\ Beyond(n, b, a)
        /\ \A s \in Rested : Beyond(n, b, s) => s = a \/ Beyond(n, a, s)
    BY <1>5 DEF MeetsNext
  <2>2. a \in Rested
    BY <2>1 DEF Rested
  <2>3. w.dir = n /\ w.steady = steady /\ w.over = FALSE /\ w.met = Append(met, a)
    <3>1. w = [walk EXCEPT !.met = Append(@, a)]
      BY <1>5 DEF Stepped
    <3>2. walk \in [dir : {-1, 0, 1}, met : Seq({-1} \cup (Nat \ {0})), steady : SUBSET Nat, over : BOOLEAN]
      BY <1>1 DEF WalkType
    <3> HIDE DEF w, a
    <3>3. w.dir = walk.dir /\ w.steady = walk.steady /\ w.over = walk.over /\ w.met = Append(walk.met, a)
      BY <3>1, <3>2
    <3> QED BY <3>2, <3>3
  <2> HIDE DEF w, a, b, met, steady, len
  <2>4. /\ DOMAIN w.met = 1..(len + 1) /\ w.met[len + 1] = a
        /\ \A i \in 1..len : w.met[i] = met[i]
    <3>1. \A i \in 1..len : met[i] \in {-1} \cup (Nat \ {0})
      BY <1>2
    <3>2. a \in Nat \ {0}
      BY <2>1
    <3>3. a \in {-1} \cup (Nat \ {0})
      BY <3>2
    <3> QED BY <1>2, <2>3, <3>1, <3>3 DEF len
  <2>5. \A s \in steady : (\E i \in 1..len : met[i] = s) \/ s = a <=> s = a \/ Beyond(n, s, a)
    <3> SUFFICES ASSUME NEW s \in steady
                 PROVE  (s = b \/ Beyond(n, s, b)) \/ s = a <=> s = a \/ Beyond(n, s, a)
      BY <1>2, <1>3
    <3>1. s \in 1..file.n /\ s \in Rested
      BY <1>4
    <3>2. s = b \/ Beyond(n, s, b) => Beyond(n, s, a)
      BY <1>4, <2>1, <3>1, BeyondOrder DEF Core
    <3>3. Beyond(n, s, a) => s = b \/ Beyond(n, s, b) \/ Beyond(n, b, s)
      BY <1>4, <3>1, BeyondOrder DEF Core
    <3>4. Beyond(n, b, s) => ~Beyond(n, s, a) \/ s = a
      BY <2>1, <3>1, BeyondOrder DEF Core
    <3> QED BY <3>2, <3>3, <3>4
  <2>6. \A s \in w.steady : (\E i \in DOMAIN w.met : w.met[i] = s) <=> s = a \/ Beyond(w.dir, s, a)
    <3> SUFFICES ASSUME NEW s \in steady
                 PROVE  (\E i \in DOMAIN w.met : w.met[i] = s) <=> (\E i \in 1..len : met[i] = s) \/ s = a
      BY <2>3, <2>5
    <3>1. 1..len \subseteq DOMAIN w.met /\ len + 1 \in DOMAIN w.met
          /\ \A i \in DOMAIN w.met : i \in 1..len \/ i = len + 1
      BY <1>2, <2>4
    <3> QED BY <2>4, <3>1
  <2>7. ASSUME NEW i \in DOMAIN w.met, NEW j \in DOMAIN w.met, i < j, w.met[i] \in w.steady, w.met[j] \in w.steady
        PROVE  Beyond(w.dir, w.met[i], w.met[j])
    <3>1. i \in 1..len /\ (j \in 1..len \/ j = len + 1)
      BY <1>2, <2>4, <2>7
    <3>2. CASE j \in 1..len
      <4>1. w.met[i] = met[i] /\ w.met[j] = met[j] /\ i \in DOMAIN met /\ j \in DOMAIN met
        BY <1>2, <2>4, <3>1, <3>2
      <4> QED BY <1>3, <2>3, <2>7, <4>1
    <3>3. CASE j = len + 1
      <4>1. w.met[i] = met[i] /\ w.met[j] = a /\ met[i] \in steady
        BY <2>3, <2>4, <2>7, <3>1, <3>3
      <4>2. met[i] = b \/ Beyond(n, met[i], b)
        BY <1>2, <1>3, <3>1, <4>1
      <4>3. Beyond(n, met[i], a)
        <5>1. met[i] \in 1..file.n
          BY <1>4, <4>1
        <5> QED BY <1>4, <2>1, <4>2, <5>1, BeyondOrder DEF Core
      <4> QED BY <2>3, <4>1, <4>3
    <3> QED BY <3>1, <3>2, <3>3
  <2>8. w.dir # 0 /\ w.steady \subseteq Rested
    BY <1>3, <2>3
  <2>9. WalkIs(w, r.d)
    BY <2>1, <2>2, <2>3, <2>6, <2>7, <2>8 DEF WalkIs, a
  <2> QED BY <2>9 DEF w
<1>6. CASE r.rc # "ok"
  <2>1. \A s \in Rested : ~Beyond(n, b, s)
    BY <1>6 DEF MeetsNext
  <2>2. w.dir = n /\ w.steady = steady /\ w.over = TRUE /\ w.met = met
    <3>1. w = [walk EXCEPT !.over = TRUE]
      BY <1>6 DEF Stepped
    <3>2. walk \in [dir : {-1, 0, 1}, met : Seq({-1} \cup (Nat \ {0})), steady : SUBSET Nat, over : BOOLEAN]
      BY <1>1 DEF WalkType
    <3> HIDE DEF w
    <3> QED BY <3>1, <3>2
  <2> HIDE DEF w, a, b, met, steady, len
  <2>3. \A s \in steady : \E i \in DOMAIN met : met[i] = s
    <3> TAKE s \in steady
    <3>1. s = b \/ Beyond(n, s, b) \/ Beyond(n, b, s)
      BY <1>4, BeyondOrder DEF Core
    <3> QED BY <1>3, <1>4, <2>1, <3>1
  <2>4. w.dir # 0 /\ w.steady \subseteq Rested
    BY <1>3, <2>2
  <2>5. WalkIs(w, r.d)
    BY <1>3, <2>2, <2>3, <2>4 DEF WalkIs
  <2> QED BY <2>5 DEF w
<1> QED BY <1>5, <1>6

LEMMA EndsWalk == ASSUME Core, Top \/ Bottom PROVE WalkTrue'
<1> DEFINE c == View(FALSE)
           top == DTop(Seen(c.ents), c.d)
           bottom == DBottom(Seen(c.ents), c.d)
<1>1. MeetsFirst(1, top) /\ MeetsFirst(-1, bottom)
  BY EndsMeet
<1>2. ASSUME NEW r, NEW op \in {"top", "bottom"}, NEW n \in {-1, 1}, NEW ents, MeetsFirst(n, r),
             op = (IF n = 1 THEN "top" ELSE "bottom"), Calls(op, 0, ents, r)
      PROVE  WalkTrue'
  <2>1. Walked(op, 0, r) = IF r.d.rec = half.rec /\ ~r.d.eof THEN NoWalk ELSE Begun(n, r)
    <3>1. CASE n = 1
      <4>1. op = "top"
        BY <1>2, <3>1
      <4> QED BY <3>1, <4>1 DEF Walked
    <3>2. CASE n = -1
      <4>1. op = "bottom"
        BY <1>2, <3>2
      <4> QED BY <3>2, <4>1 DEF Walked
    <3> QED BY <3>1, <3>2
  <2>2. WalkIs(Walked(op, 0, r), r.d)
    <3>1. CASE r.d.rec = half.rec /\ ~r.d.eof
      BY <2>1, <3>1, NoWalkIs
    <3>2. CASE ~(r.d.rec = half.rec /\ ~r.d.eof)
      <4>1. WalkIs(Begun(n, r), r.d)
        BY <1>2, <3>2, BegunIs
      <4> QED BY <2>1, <3>2, <4>1
    <3> QED BY <3>1, <3>2
  <2> QED BY <1>2, <2>2, CallWalk
<1>3. CASE Top
  <2>1. Calls("top", 0, c.ents, top)
    BY <1>3 DEF Top
  <2> HIDE DEF top, bottom, c
  <2> QED BY <1>1, <1>2, <2>1
<1>4. CASE Bottom
  <2>1. Calls("bottom", 0, c.ents, bottom)
    BY <1>4 DEF Bottom
  <2> HIDE DEF top, bottom, c
  <2>2. "bottom" = (IF -1 = 1 THEN "top" ELSE "bottom") /\ -1 \in {-1, 1}
    OBVIOUS
  <2> QED BY <1>1, <1>2, <2>1, <2>2
<1> QED BY <1>3, <1>4

LEMMA SkipWalks == ASSUME Core, WalkTrue, DoSkip PROVE WalkTrue'
<1>0. PICK n \in Steps : \E c \in {Skipping(n)} : Calls("skip", n, c.ents, DSkipRec(Seen(c.ents), c.d, n))
  BY DEF DoSkip
<1>1. PICK c \in {Skipping(n)} : Calls("skip", n, c.ents, DSkipRec(Seen(c.ents), c.d, n))
  BY <1>0
<1> DEFINE r == DSkipRec(Seen(c.ents), c.d, n)
<1>2. Walked("skip", n, r) = IF r.d.rec = half.rec /\ ~r.d.eof THEN NoWalk
                             ELSE IF n = walk.dir THEN Stepped(r) ELSE NoWalk
  BY DEF Walked
<1>3. walk.dir \in {-1, 0, 1} /\ walk.over \in BOOLEAN
  BY DEF Core, TypeOK
<1>4. CASE (r.d.rec = half.rec /\ ~r.d.eof) \/ n # walk.dir \/ walk.over
  <2>1. walk.over => Stepped(r) = NoWalk
    BY DEF Stepped
  <2> HIDE DEF r
  <2>2. Walked("skip", n, r) = NoWalk
    BY <1>2, <1>4, <2>1
  <2>3. WalkIs(Walked("skip", n, r), r.d)
    BY <2>2, NoWalkIs
  <2> QED BY <1>1, <2>3, CallWalk DEF r
<1>5. CASE ~(r.d.rec = half.rec /\ ~r.d.eof) /\ n = walk.dir /\ ~walk.over /\ n = 0
  <2>1. walk.steady = {}
    BY <1>5 DEF WalkTrue, WalkIs
  <2>2. Stepped(r).dir = 0 /\ Stepped(r).steady = {}
    <3>1. walk \in [dir : {-1, 0, 1}, met : Seq({-1} \cup (Nat \ {0})), steady : SUBSET Nat, over : BOOLEAN]
      BY DEF Core, TypeOK
    <3> HIDE DEF r
    <3>2. Stepped(r) = [walk EXCEPT !.met = Append(walk.met, r.d.rec)] \/ Stepped(r) = [walk EXCEPT !.over = TRUE]
      BY <1>5 DEF Stepped
    <3> QED BY <1>5, <2>1, <3>1, <3>2
  <2> HIDE DEF r
  <2>3. WalkIs(Stepped(r), r.d)
    BY <2>2 DEF WalkIs
  <2>4. WalkIs(Walked("skip", n, r), r.d)
    BY <1>2, <1>5, <2>3
  <2> QED BY <1>1, <2>4, CallWalk DEF r
<1>6. CASE ~(r.d.rec = half.rec /\ ~r.d.eof) /\ n = walk.dir /\ ~walk.over /\ n # 0
  <2>1. n \in {-1, 1}
    BY <1>3, <1>6
  <2>2. d.rec \in Rested /\ ~d.eof
    BY <1>6 DEF WalkTrue, WalkIs
  <2>3. MeetsNext(n, d.rec, r)
    <3>1. c = Skipping(n)
      OBVIOUS
    <3> QED BY <2>1, <2>2, <3>1, SkipMeets
  <2> HIDE DEF r
  <2>4. WalkIs(Stepped(r), r.d)
    BY <1>6, <2>1, <2>3, SteppedIs
  <2>5. WalkIs(Walked("skip", n, r), r.d)
    BY <1>2, <1>6, <2>4
  <2> QED BY <1>1, <2>5, CallWalk DEF r
<1> QED BY <1>4, <1>5, <1>6

(* Any other call ends the walk. *)
LEMMA OtherCallsEnd ==
  ASSUME DoGo \/ DoSeek \/ DoSeekNext \/ DoTagSync \/ DoPosition \/ DoPositionSet \/ GoBof
  PROVE  WalkTrue'
<1>1. \E op \in {"go", "seek", "next", "sync", "position", "gobof", "set"} :
        \E arg, ents, r : Calls(op, arg, ents, r)
  <2>1. CASE DoGo
    BY <2>1 DEF DoGo
  <2>2. CASE DoSeek
    BY <2>2 DEF DoSeek
  <2>3. CASE DoSeekNext
    BY <2>3 DEF DoSeekNext
  <2>4. CASE DoTagSync
    BY <2>4 DEF DoTagSync
  <2>5. CASE DoPosition
    BY <2>5 DEF DoPosition
  <2>6. CASE DoPositionSet
    BY <2>6 DEF DoPositionSet
  <2>7. CASE GoBof
    BY <2>7 DEF GoBof
  <2> QED BY <2>1, <2>2, <2>3, <2>4, <2>5, <2>6, <2>7
<1>2. PICK op \in {"go", "seek", "next", "sync", "position", "gobof", "set"} :
        \E arg, ents, r : Calls(op, arg, ents, r)
  BY <1>1
<1>3. PICK arg, ents, r : Calls(op, arg, ents, r)
  BY <1>2
<1>4. Walked(op, arg, r) = NoWalk
  <2>1. op # "top" /\ op # "bottom" /\ op # "skip"
    OBVIOUS
  <2> QED BY <2>1 DEF Walked
<1>5. WalkIs(Walked(op, arg, r), r.d)
  BY <1>4, NoWalkIs
<1> QED BY <1>3, <1>5, CallWalk

LEMMA LocksWalk == ASSUME WalkTrue, LockFile \/ UnlockFile PROVE WalkTrue'
<1>1. file' = file /\ half' = half /\ d' = d /\ walk' = walk
  BY DEF LockFile, UnlockFile
<1> QED BY <1>1 DEF WalkTrue, WalkIs, Rested, Beyond, Ahead

(* A record the other user begins with is steady no more, and is not the    *)
(* one a walk under way stands on.                                          *)
LEMMA BeginsWalk == ASSUME Core, WalkTrue, Appends \/ Rekeys PROVE WalkTrue'
<1>0. PICK r \in Nat : \E k : Begin(r, k)
  <2>1. file.n \in Nat
    BY BoundAssumption DEF Core, TypeOK, FileType
  <2>2. file.n + 1 \in Nat /\ 1..file.n \subseteq Nat
    BY <2>1
  <2>3. CASE Appends
    BY <2>2, <2>3 DEF Appends
  <2>4. CASE Rekeys
    BY <2>2, <2>4 DEF Rekeys
  <2> QED BY <2>3, <2>4
<1>1. PICK k : Begin(r, k)
  BY <1>0
<1>2. /\ file' = file /\ d' = d /\ walk' = Forget(r)
      /\ half.rec = 0 /\ half'.rec = r
  BY <1>1 DEF Begin, NoHalf
<1> DEFINE w == [walk EXCEPT !.steady = @ \ {r}]
<1>3. CASE r = d.rec /\ ~d.eof
  <2>1. walk' = NoWalk
    BY <1>2, <1>3 DEF Forget
  <2>2. walk'.dir = 0 /\ walk'.steady = {} /\ walk'.met = << >> /\ walk'.over = FALSE
    BY <2>1 DEF NoWalk
  <2>3. DOMAIN << >> = {}
    OBVIOUS
  <2>4. (WalkIs(walk, d))'
    BY <2>2, <2>3 DEF WalkIs
  <2> QED BY <2>4 DEF WalkTrue
<1>4. CASE ~(r = d.rec /\ ~d.eof)
  <2>1. walk' = w
    BY <1>2, <1>4 DEF Forget
  <2>2. w.dir = walk.dir /\ w.met = walk.met /\ w.over = walk.over /\ w.steady = walk.steady \ {r}
    <3>1. walk \in [dir : {-1, 0, 1}, met : Seq({-1} \cup (Nat \ {0})), steady : SUBSET Nat, over : BOOLEAN]
      BY DEF Core, TypeOK
    <3> QED BY <3>1
  <2>3. /\ walk'.dir = walk.dir /\ walk'.met = walk.met /\ walk'.over = walk.over
        /\ walk'.steady = walk.steady \ {r}
    BY <2>1, <2>2
  <2> HIDE DEF w
  <2>4. Rested' = (1..file.n) \ {r}
    BY <1>2 DEF Rested
  <2>5. walk.steady \subseteq 1..file.n
    BY DEF WalkTrue, WalkIs, Rested
  <2>6. walk'.steady \subseteq Rested'
    BY <2>3, <2>4, <2>5
  <2>7. \A dir, a, b : Beyond(dir, a, b)' <=> Beyond(dir, a, b)
    BY <1>2 DEF Beyond, Ahead
  <2>8. walk'.dir = 0 => walk'.steady = {}
    BY <2>3 DEF WalkTrue, WalkIs
  <2>9. walk.dir # 0 /\ ~walk.over => d.rec \in Rested' /\ ~d.eof
    BY <1>4, <2>4 DEF WalkTrue, WalkIs, Rested
  <2>10. (WalkIs(walk, d))'
    BY <1>2, <2>3, <2>6, <2>7, <2>8, <2>9 DEF WalkTrue, WalkIs
  <2> QED BY <2>10 DEF WalkTrue
<1> QED BY <1>3, <1>4

(* What is written is of a record that is not steady.                       *)
LEMMA WrittenWalk ==
  ASSUME Core, WalkTrue, d' = d, walk' = walk, Rested \subseteq Rested',
         \A a, b \in Rested : Ahead(a, b)' <=> Ahead(a, b)
  PROVE  WalkTrue'
<1>1. \A dir, a, b : a \in Rested /\ b \in Rested => (Beyond(dir, a, b)' <=> Beyond(dir, a, b))
  BY DEF Beyond
<1>2. walk.steady \subseteq Rested
  BY DEF WalkTrue, WalkIs
<1>3. (WalkIs(walk, d))'
  BY <1>1, <1>2 DEF WalkTrue, WalkIs
<1> QED BY <1>3 DEF WalkTrue

LEMMA WriteRecordWalk == ASSUME Core, WalkTrue, WriteRecord PROVE WalkTrue'
<1>1. /\ d' = d /\ walk' = walk /\ half'.rec \in {0, half.rec}
      /\ file' = [file EXCEPT !.n = IF half.rec > @ THEN half.rec ELSE @, !.key[half.rec] = half.key]
  <2>1. half' = IF half.left = {"data"} THEN NoHalf ELSE [half EXCEPT !.left = half.left \ {"data"}]
    BY DEF WriteRecord, Publish
  <2>2. half.left # {"data"} => half'.rec = half.rec
    BY <2>1 DEF Core, HalfTrue
  <2>3. half.left = {"data"} => half'.rec = 0
    BY <2>1 DEF NoHalf
  <2> QED BY <2>2, <2>3 DEF WriteRecord, Publish
<1>2. file \in [n : 0..MaxRec, key : [1..MaxRec -> Nat], ents : Seq(EntryType), desc : BOOLEAN, sel : BOOLEAN]
  BY DEF Core, TypeOK, FileType
<1>3. /\ file'.n = (IF half.rec > file.n THEN half.rec ELSE file.n)
      /\ file'.key = [file.key EXCEPT ![half.rec] = half.key]
      /\ file'.desc = file.desc /\ file'.sel = file.sel
  BY <1>1, <1>2
<1>4. half.rec \in Nat /\ file.n \in Nat /\ file.n <= MaxRec /\ MaxRec \in Nat
  BY <1>2, HalfIs, BoundAssumption DEF Core, WriteRecord, Publish
<1>5. Rested \subseteq Rested'
  BY <1>1, <1>3, <1>4 DEF Rested
<1>6. \A a \in Rested : file'.key[a] = file.key[a]
  <2> TAKE a \in Rested
  <2>1. a \in 1..MaxRec /\ a # half.rec
    BY <1>4 DEF Rested
  <2> QED BY <1>2, <1>3, <2>1
<1>7. \A a, b \in Rested : Ahead(a, b)' <=> Ahead(a, b)
  BY <1>3, <1>6 DEF Ahead
<1> QED BY <1>1, <1>5, <1>7, WrittenWalk

LEMMA WriteEntryWalk == ASSUME Core, WalkTrue, WriteEntry PROVE WalkTrue'
<1>1. d' = d /\ walk' = walk /\ half'.rec \in {0, half.rec}
  <2>1. half' = IF half.left = {"tag"} THEN NoHalf ELSE [half EXCEPT !.left = half.left \ {"tag"}]
    BY DEF WriteEntry, Publish
  <2>2. half.left # {"tag"} => half'.rec = half.rec
    BY <2>1 DEF Core, HalfTrue
  <2>3. half.left = {"tag"} => half'.rec = 0
    BY <2>1 DEF NoHalf
  <2> QED BY <2>2, <2>3 DEF WriteEntry, Publish
<1>2. file'.n = file.n /\ file'.key = file.key /\ file'.desc = file.desc /\ file'.sel = file.sel
  <2>1. file \in [n : 0..MaxRec, key : [1..MaxRec -> Nat], ents : Seq(EntryType), desc : BOOLEAN, sel : BOOLEAN]
    BY DEF Core, TypeOK, FileType
  <2>2. PICK q : file' = [file EXCEPT !.ents = q]
    BY DEF WriteEntry
  <2> QED BY <2>1, <2>2
<1>3. Rested \subseteq Rested'
  <2>1. \A r \in Rested : r # 0
    <3>1. file.n \in Nat
      BY BoundAssumption DEF Core, TypeOK, FileType
    <3> QED BY <3>1 DEF Rested
  <2> QED BY <1>1, <1>2, <2>1 DEF Rested
<1>4. \A a, b \in Rested : Ahead(a, b)' <=> Ahead(a, b)
  BY <1>2 DEF Ahead
<1> QED BY <1>1, <1>3, <1>4, WrittenWalk

LEMMA WalkStep == ASSUME Core, WalkTrue, [Next]_vars PROVE WalkTrue'
<1>1. CASE Top \/ Bottom
  BY <1>1, EndsWalk
<1>2. CASE DoSkip
  BY <1>2, SkipWalks
<1>3. CASE DoGo \/ DoSeek \/ DoSeekNext \/ DoTagSync \/ DoPosition \/ DoPositionSet \/ GoBof
  BY <1>3, OtherCallsEnd
<1>4. CASE LockFile \/ UnlockFile
  BY <1>4, LocksWalk
<1>5. CASE Appends \/ Rekeys
  BY <1>5, BeginsWalk
<1>6. CASE WriteRecord
  BY <1>6, WriteRecordWalk
<1>7. CASE WriteEntry
  BY <1>7, WriteEntryWalk
<1>8. CASE UNCHANGED vars
  BY <1>8 DEF vars, WalkTrue, WalkIs, Rested, Beyond, Ahead
<1> QED BY <1>1, <1>2, <1>3, <1>4, <1>5, <1>6, <1>7, <1>8 DEF Next

(* A walk from d4top by d4skip(1), or from d4bottom by d4skip(-1), meets    *)
(* every record that was there all the time and that nobody changed, once   *)
(* and in order.                                                            *)
THEOREM WalksMeetEveryone == ~Jumps => (Spec => []WalkMeetsEveryone)
<1> SUFFICES ASSUME ~Jumps PROVE Spec => []WalkMeetsEveryone
  OBVIOUS
<1>1. Init => Core /\ WalkTrue
  <2>1. Init => walk = NoWalk
    BY DEF Init
  <2> QED BY <2>1, CoreInit, NoWalkIs DEF WalkTrue
<1>2. (Core /\ WalkTrue) /\ [Next]_vars => (Core /\ WalkTrue)'
  BY CoreStep, WalkStep
<1>3. Core /\ WalkTrue => WalkMeetsEveryone
  BY WalkTrueMeets
<1> QED BY <1>1, <1>2, <1>3, PTL DEF Spec
=============================================================================
