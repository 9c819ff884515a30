--------------------------- MODULE MemoFileProofs ---------------------------
(***************************************************************************)
(* For any users, texts, files and bounds, and programs that make none of  *)
(* the Careless calls: memos never share a block (BlocksStayApart), a      *)
(* record's memo is the last text given to it (MemosStayTrue), and a memo  *)
(* read under the record's lock is that text (LockedReadsAreTrue).         *)
(***************************************************************************)
EXTENDS MemoFile, WellFoundedInduction, FiniteSetTheorems, TLAPS

(* What a user's variable may hold. *)
Pieces == (Text \cup {Empty}) \X Nat
Record == [memo : Nat, live : BOOLEAN]
Said == Text \cup {Empty, Unknown}
Codes == {"idle", "reading", "place", "header", "extend", "head", "text", "store", "replace"}
Writes == {"place", "header", "extend", "head", "text", "store"}
UserState ==
  [rec : {-1} \cup Nat, id : Nat, live : BOOLEAN, old : Nat, oldOf : {-1} \cup (Nat \ {0}), dirty : BOOLEAN,
   valid : BOOLEAN, text : Said \cup {Unread}, changed : BOOLEAN, rlk : BOOLEAN, pc : Codes, n : Nat,
   needs : BOOLEAN, was : Seq(Nat), given : BOOLEAN, fresh : BOOLEAN]

TypeOK ==
  /\ data \in Seq(Record) /\ Len(data) <= MaxRec
  /\ blocks \in [1..MaxBlock -> [size : Nat, piece : Pieces]]
  /\ next \in 1..(MaxBlock + 1)
  /\ rlock \in [1..(MaxRec + 1) -> User \cup {NoOne}]
  /\ alock \in User \cup {NoOne} /\ mlock \in User \cup {NoOne}
  /\ us \in [User -> UserState]
  /\ said \in Seq(Said) /\ Len(said) = Len(data)

(* The record a user's copy is of, the one to come while it appends. *)
Own(u) == IF us[u].rec = 0 THEN Len(data) + 1 ELSE us[u].rec

(* Who is on no record has nothing; who is on one to come has read nothing. *)
AwayOK(u) ==
  LET v == us[u]
  IN  /\ v.rec = -1 => v = Away(v.rlk)
      /\ v.rec <= Len(data)
      /\ v.rec = 0 => /\ v.oldOf = -1 /\ ~v.valid /\ ~v.fresh
                      /\ v.pc \notin {"reading", "place"}
                      /\ v.pc # "store" => v.id = 0
                      /\ v.pc = "idle" /\ v.given => v.changed
                      /\ v.pc # "idle" => ~v.changed
      /\ v.pc # "replace" => v.was = << >>

(* A writer holds the lock of its record, an appender that of the one to
   come and the append byte, and who extends the file holds its header. *)
LocksOK(u) ==
  LET v == us[u]
  IN  /\ v.pc \in Writes => Own(u) <= MaxRec /\ Holds(u, Own(u))
      /\ v.pc \in Writes /\ v.rec = 0 => alock = u
      /\ v.pc = "extend" => mlock = u /\ v.n = next /\ next + Length(v.text) <= MaxBlock + 1
      /\ v.valid \/ v.fresh => v.rec > 0 /\ Holds(u, v.rec)
      /\ v.oldOf # -1 => v.oldOf \in DOMAIN data /\ Holds(u, v.oldOf)

(* What is known of the record under its lock is so. *)
KnownOK(u) ==
  LET v == us[u]
  IN  v.pc # "replace" =>
        /\ v.oldOf # -1 => v.old = data[v.oldOf].memo
        /\ (v.valid \/ v.fresh) /\ ~v.given => v.id = data[v.rec].memo

(* How the marks of a user's changes go together. *)
MarksOK(u) ==
  LET v == us[u]
  IN  /\ v.changed => v.given /\ v.text \in Text \cup {Empty}
      /\ v.given => v.text \in Text \cup {Empty, Unread}
      /\ v.given /\ v.pc \in {"idle", "reading"} => v.dirty
      /\ v.given /\ ~v.changed /\ v.pc = "idle" => /\ v.id = 0 /\ v.valid /\ v.text \in {Empty, Unread}
      /\ v.pc = "reading" => ~v.given /\ v.text = Unread
      /\ v.pc = "replace" => ~v.given
      /\ v.pc \in Writes /\ v.rec > 0 => v.given \/ v.valid
      /\ v.pc \in {"place", "header", "extend", "head", "text"} /\ v.rec > 0 => v.given
      /\ v.pc = "place" => v.text \in Text \cup {Empty}
      /\ v.pc \in {"header", "extend", "head", "text"} => v.text \in Text

(* The blocks from id on hold the whole of a text. *)
Written(id, t) ==
  /\ id \in DOMAIN blocks /\ blocks[id].size = Size[t]
  /\ \A n \in 1..Size[t] : id + n - 1 \in DOMAIN blocks /\ blocks[id + n - 1].piece = <<t, n>>

(* How far a writer has got with its text. *)
TextOK(u) ==
  LET v == us[u]
  IN  /\ v.pc = "text" => blocks[v.n].size = Size[v.text]
      /\ v.pc = "store" /\ (v.given \/ v.rec = 0) =>
            IF v.text \in Text THEN Written(v.id, v.text) ELSE v.id = 0

(* What a user has read under the lock is what is there. *)
ReadOK(u) ==
  LET v == us[u]
  IN  v.fresh /\ ~v.given =>
        /\ v.pc = "reading" => v.n = SizeAt(v.id)
        /\ v.pc = "idle" /\ v.text # Unread => said[v.rec] \in {Unknown, v.text}

(* A lot is the blocks handed out together: block b was handed out for a
   memo of record lot[b][1] that begins at block lot[b][2]. *)
Lot(lot, o, i, len) == /\ i \in 1..(next - 1) /\ i + len <= next /\ lot[i] = <<o, i>>
                       /\ \A b \in i..(i + len - 1) : lot[b] = <<o, i>>
LotsOf(lot, memo) == \A r \in DOMAIN data : memo[r] # 0 => Lot(lot, r, memo[r], blocks[memo[r]].size)
LotsOfUser(lot, u) ==
  LET v == us[u]
  IN  /\ v.id # 0 => Lot(lot, Own(u), v.id, blocks[v.id].size)
      /\ v.pc \in {"head", "text"} => Lot(lot, Own(u), v.n, Length(v.text))
Memos == [r \in DOMAIN data |-> data[r].memo]
LotsOK == Whole => \E lot : LotsOf(lot, Memos) /\ \A u \in User : LotsOfUser(lot, u)

(* A record's memo is the last, or one is just writing over it. *)
WrittenOver(r) == \E u \in User : us[u].rec = r /\ WritesOver(us[u])
SaidOK == Whole => \A r \in DOMAIN data :
            said[r] \in {Unknown, MemoAt(data[r].memo)} \/ WrittenOver(r)

(* Between the two steps of a compress nobody else writes, and what the
   records say will be so when the new file is there. *)
ReplaceOK(u) ==
  LET v == us[u]
      sizes == [r \in DOMAIN v.was |-> SizeAt(v.was[r])]
  IN  v.pc = "replace" =>
        /\ rlock = [r \in DOMAIN rlock |-> u] /\ alock = u
        /\ Len(v.was) = Len(data)
        /\ \A r \in DOMAIN data : data[r].memo = Numbers(sizes)[r]
        /\ \E lot : LotsOf(lot, v.was)
        /\ \A r \in DOMAIN data : said[r] \in {Unknown, MemoAt(v.was[r])}
        /\ \A w \in User \ {u} : /\ us[w].pc \in {"idle", "reading"}
                                 /\ us[w].id # 0 => us[w].id = data[us[w].rec].memo

IInv == /\ TypeOK
        /\ \A u \in User : /\ AwayOK(u) /\ LocksOK(u) /\ KnownOK(u) /\ MarksOK(u)
                           /\ TextOK(u) /\ ReadOK(u) /\ ReplaceOK(u)
        /\ LotsOK /\ SaidOK

------------------------------------------------------------------------------
(* Numbers, and memos laid one after the other. *)

(* A set of numbers has a least one. *)
LEMMA LeastOf ==
  ASSUME NEW T, T \subseteq Nat, T # {}
  PROVE  \E m \in T : \A n \in T : m <= n
<1>1. PICK m \in T : \A n \in T : ~(<<n, m>> \in OpToRel(<, Nat))
  BY NatLessThanWellFounded, WFMin
<1>2. \A n \in T : ~(n < m)
  BY <1>1 DEF OpToRel
<1> QED BY <1>2

(* Induction, for the numbers a formula holds of as a set. *)
LEMMA Inductive ==
  ASSUME NEW T, T \subseteq Nat, 0 \in T, \A n \in T : n + 1 \in T
  PROVE  T = Nat
<1> SUFFICES ASSUME T # Nat PROVE FALSE
  OBVIOUS
<1>1. PICK m \in Nat \ T : \A n \in Nat \ T : m <= n
  BY LeastOf
<1>2. m # 0 /\ m - 1 \in Nat
  OBVIOUS
<1>3. m - 1 \in T
  BY <1>1, <1>2
<1> QED BY <1>3, m - 1 + 1 = m

(* There are places for memos of any sizes. *)
LEMMA StartsExist ==
  ASSUME NEW sizes \in Seq(Nat)
  PROVE  \E f : f = [i \in 1..(Len(sizes) + 1) |-> IF i = 1 THEN 1 ELSE f[i - 1] + sizes[i - 1]]
<1> DEFINE Upto(m, f) == /\ f \in [1..(m + 1) -> Nat]
                         /\ \A i \in 1..(m + 1) : f[i] = IF i = 1 THEN 1 ELSE f[i - 1] + sizes[i - 1]
           T == {m \in Nat : m <= Len(sizes) => \E f : Upto(m, f)}
<1>1. 0 \in T
  <2> DEFINE f == [i \in 1..1 |-> 1]
  <2>1. Upto(0, f)
    OBVIOUS
  <2> QED BY <2>1
<1>2. ASSUME NEW m \in T PROVE m + 1 \in T
  <2>0. m \in Nat /\ m + 1 \in Nat
    OBVIOUS
  <2> SUFFICES ASSUME m + 1 <= Len(sizes) PROVE \E f : Upto(m + 1, f)
    BY <2>0, Zenon
  <2>1. PICK f : Upto(m, f)
    BY Len(sizes) \in Nat
  <2> DEFINE g == [i \in 1..(m + 2) |-> IF i <= m + 1 THEN f[i] ELSE f[m + 1] + sizes[m + 1]]
  <2>2. sizes[m + 1] \in Nat /\ f[m + 1] \in Nat /\ m \in Nat
    BY <2>1, Len(sizes) \in Nat
  <2>3. g \in [1..(m + 2) -> Nat]
    BY <2>1, <2>2
  <2>4. ASSUME NEW i \in 1..(m + 2) PROVE g[i] = IF i = 1 THEN 1 ELSE g[i - 1] + sizes[i - 1]
    <3>1. CASE i <= m + 1
      <4>1. i # 1 => i - 1 \in 1..(m + 2) /\ i - 1 <= m + 1
        BY <2>2
      <4>2. i \in 1..(m + 1)
        BY <2>2, <3>1
      <4> QED BY <2>1, <4>1, <4>2, <3>1
    <3>2. CASE i = m + 2
      BY <2>2, <3>2
    <3> QED BY <3>1, <3>2, <2>2
  <2> QED BY <2>2, <2>3, <2>4, m + 1 + 1 = m + 2
<1> HIDE DEF T
<1>3. T = Nat
  BY <1>1, <1>2, Inductive DEF T
<1>4. PICK f : Upto(Len(sizes), f)
  BY <1>3, Len(sizes) \in Nat DEF T
<1>5. f = [i \in 1..(Len(sizes) + 1) |-> IF i = 1 THEN 1 ELSE f[i - 1] + sizes[i - 1]]
  BY <1>4
<1> QED BY <1>5

(* Each memo begins where the one before it ends. *)
LEMMA StartsAre ==
  ASSUME NEW sizes \in Seq(Nat)
  PROVE  /\ Starts(sizes) \in [1..(Len(sizes) + 1) -> Nat \ {0}]
         /\ Starts(sizes)[1] = 1
         /\ \A i \in 1..Len(sizes) : Starts(sizes)[i + 1] = Starts(sizes)[i] + sizes[i]
         /\ \A i, j \in 1..(Len(sizes) + 1) : i <= j => Starts(sizes)[i] <= Starts(sizes)[j]
<1> DEFINE L == Len(sizes)
           D == 1..(L + 1)
           s == Starts(sizes)
<1>1. s = [i \in D |-> IF i = 1 THEN 1 ELSE s[i - 1] + sizes[i - 1]]
  BY StartsExist, Zenon DEF Starts
<1>0. L \in Nat /\ \A i \in 1..L : sizes[i] \in Nat
  OBVIOUS
<1> HIDE DEF s, L
<1>2. s[1] = 1
  BY <1>0, <1>1
<1>3. \A i \in 1..L : s[i + 1] = s[i] + sizes[i]
  <2> TAKE i \in 1..L
  <2>1. i + 1 \in D /\ i + 1 # 1 /\ i + 1 - 1 = i
    BY <1>0
  <2>2. \A k \in D : s[k] = IF k = 1 THEN 1 ELSE s[k - 1] + sizes[k - 1]
    BY <1>1, Zenon
  <2> QED BY <2>1, <2>2
<1>4. \A n \in D : s[n] \in Nat \ {0}
  <2> DEFINE T == {m \in Nat : m + 1 \in D => s[m + 1] \in Nat \ {0}}
  <2>1. 0 \in T
    BY <1>2
  <2>2. ASSUME NEW m \in T PROVE m + 1 \in T
    <3> SUFFICES ASSUME m + 1 + 1 \in D PROVE s[m + 1 + 1] \in Nat \ {0}
      OBVIOUS
    <3>1. m + 1 \in 1..L
      BY <1>0
    <3>2. s[m + 1] \in Nat \ {0}
      BY <1>0, <3>1
    <3>3. s[m + 1 + 1] = s[m + 1] + sizes[m + 1] /\ sizes[m + 1] \in Nat
      BY <1>0, <1>3, <3>1
    <3> QED BY <3>2, <3>3
  <2> HIDE DEF T
  <2>3. T = Nat
    BY <2>1, <2>2, Inductive DEF T
  <2> TAKE n \in D
  <2>4. n - 1 \in T /\ n - 1 + 1 = n
    BY <1>0, <2>3
  <2> QED BY <2>4 DEF T
<1>5. \A i, j \in D : i <= j => s[i] <= s[j]
  <2> TAKE i \in D
  <2> DEFINE T == {k \in Nat : i + k \in D => s[i] <= s[i + k]}
  <2>1. 0 \in T
    BY <1>0, <1>4
  <2>2. ASSUME NEW k \in T PROVE k + 1 \in T
    <3> SUFFICES ASSUME i + (k + 1) \in D PROVE s[i] <= s[i + (k + 1)]
      OBVIOUS
    <3>1. i + k \in 1..L /\ i + (k + 1) = i + k + 1
      BY <1>0
    <3>2. s[i] <= s[i + k] /\ s[i + k] \in Nat /\ sizes[i + k] \in Nat /\ s[i] \in Nat
      BY <1>0, <1>4, <3>1
    <3>3. s[i + k + 1] = s[i + k] + sizes[i + k]
      BY <1>3, <3>1
    <3> QED BY <3>1, <3>2, <3>3
  <2> HIDE DEF T
  <2>3. T = Nat
    BY <2>1, <2>2, Inductive DEF T
  <2> TAKE j \in D
  <2> SUFFICES ASSUME i <= j PROVE s[i] <= s[j]
    OBVIOUS
  <2>4. j - i \in T /\ i + (j - i) = j
    BY <1>0, <2>3
  <2> QED BY <2>4 DEF T
<1>6. s \in [D -> Nat \ {0}]
  BY <1>1, <1>4
<1> QED BY <1>2, <1>3, <1>5, <1>6 DEF s, L

(* Where the block b of memos laid one after the other belongs. *)
LotOf(sizes) ==
  [b \in 1..(End(sizes) - 1) |->
     LET i == CHOOSE j \in DOMAIN sizes : Starts(sizes)[j] <= b /\ b < Starts(sizes)[j + 1]
     IN  <<i, Starts(sizes)[i]>>]

(* The blocks of memos laid one after the other are apart. *)
LEMMA StartsApart ==
  ASSUME NEW sizes \in Seq(Nat), NEW i \in DOMAIN sizes, NEW j \in DOMAIN sizes, NEW b \in Nat,
         Starts(sizes)[i] <= b, b < Starts(sizes)[i + 1], Starts(sizes)[j] <= b, b < Starts(sizes)[j + 1]
  PROVE  i = j
<1> DEFINE s == Starts(sizes)
           D == 1..(Len(sizes) + 1)
<1>1. /\ i \in D /\ j \in D /\ i + 1 \in D /\ j + 1 \in D /\ i \in Int /\ j \in Int
  BY Len(sizes) \in Nat
<1>2. \A x \in D : s[x] \in Nat
  BY StartsAre
<1>3. \A x, y \in D : x <= y => s[x] <= s[y]
  BY StartsAre
<1> HIDE DEF s, D
<1>4. ~(i + 1 <= j)
  <2> SUFFICES ASSUME i + 1 <= j PROVE FALSE
    OBVIOUS
  <2>1. s[i + 1] <= s[j]
    BY <1>1, <1>3
  <2> QED BY <1>1, <1>2, <2>1 DEF s
<1>5. ~(j + 1 <= i)
  <2> SUFFICES ASSUME j + 1 <= i PROVE FALSE
    OBVIOUS
  <2>1. s[j + 1] <= s[i]
    BY <1>1, <1>3
  <2> QED BY <1>1, <1>2, <2>1 DEF s
<1> QED BY <1>1, <1>4, <1>5

(* A block of the i-th memo lies where its text is put, and in its lot. *)
LEMMA BlockOfMemo ==
  ASSUME NEW sizes \in Seq(Nat), NEW was, NEW i \in DOMAIN sizes, NEW n \in 1..sizes[i],
         End(sizes) <= MaxBlock + 1
  PROVE  /\ Starts(sizes)[i] + n - 1 \in 1..MaxBlock
         /\ Starts(sizes)[i] + n - 1 < End(sizes)
         /\ LaidOut(sizes, was)[Starts(sizes)[i] + n - 1] = was[i][n]
         /\ LotOf(sizes)[Starts(sizes)[i] + n - 1] = <<i, Starts(sizes)[i]>>
<1> DEFINE s == Starts(sizes)
           b == s[i] + n - 1
           In(j) == s[j] <= b /\ b < s[j + 1]
<1>1. /\ Len(sizes) \in Nat /\ MaxBlock \in Nat /\ sizes[i] \in Nat /\ n \in Nat /\ i \in 1..Len(sizes)
      /\ Len(sizes) + 1 \in 1..(Len(sizes) + 1) /\ i + 1 \in 1..(Len(sizes) + 1) /\ i + 1 <= Len(sizes) + 1
  BY BoundAssumption
<1>2. /\ s[i] \in Nat \ {0} /\ s[i + 1] = s[i] + sizes[i] /\ s[i + 1] <= End(sizes) /\ End(sizes) \in Nat
  <2>1. \A x \in 1..(Len(sizes) + 1) : s[x] \in Nat \ {0}
    BY StartsAre
  <2>2. \A x, y \in 1..(Len(sizes) + 1) : x <= y => s[x] <= s[y]
    BY StartsAre
  <2>3. \A x \in 1..Len(sizes) : s[x + 1] = s[x] + sizes[x]
    BY StartsAre
  <2>4. i \in 1..(Len(sizes) + 1)
    BY <1>1
  <2> HIDE DEF s
  <2> QED BY <1>1, <2>1, <2>2, <2>3, <2>4 DEF End, s
<1>3. b \in 1..MaxBlock /\ b < End(sizes) /\ b \in Nat /\ In(i) /\ b - s[i] + 1 = n
  <2> HIDE DEF s
  <2>1. n <= sizes[i] /\ 1 <= n /\ n \in Int
    BY <1>1
  <2>2. b < s[i + 1] /\ s[i] <= b /\ b \in Nat /\ b # 0 /\ b - s[i] + 1 = n
    <3>1. s[i] \in Nat \ {0} /\ s[i + 1] = s[i] + sizes[i] /\ sizes[i] \in Nat
      BY <1>1, <1>2
    <3>2. \A x, y, z \in Int : x > 0 /\ 1 <= y /\ y <= z =>
            x + y - 1 < x + z /\ x <= x + y - 1 /\ x + y - 1 > 0 /\ x + y - 1 - x + 1 = y
      OBVIOUS
    <3> QED BY <2>1, <3>1, <3>2
  <2>3. b < End(sizes)
    <3>1. s[i + 1] \in Int /\ s[i + 1] <= End(sizes) /\ End(sizes) \in Int
      BY <1>1, <1>2
    <3> HIDE DEF b
    <3> QED BY <2>2, <3>1
  <2>4. b <= MaxBlock
    BY <1>1, <1>2, <2>2, <2>3
  <2> QED BY <1>1, <2>2, <2>3, <2>4
<1>4. \A j \in DOMAIN sizes : In(j) => j = i
  BY <1>3, StartsApart
<1>5. {j \in DOMAIN sizes : In(j)} = {i}
  BY <1>3, <1>4
<1> HIDE DEF In
<1>6. (CHOOSE j \in DOMAIN sizes : In(j)) = i
  BY <1>3, <1>4
<1>7. LotOf(sizes)[b] = <<i, s[i]>>
  <2>1. b \in 1..(End(sizes) - 1)
    BY <1>1, <1>2, <1>3
  <2>2. LotOf(sizes)[b] = <<CHOOSE j \in DOMAIN sizes : In(j), s[CHOOSE j \in DOMAIN sizes : In(j)]>>
    BY <2>1 DEF LotOf, In
  <2> QED BY <1>6, <2>2
<1>8. (CHOOSE j \in {j \in DOMAIN sizes : In(j)} : TRUE) = i
  BY <1>5
<1>9. LaidOut(sizes, was)[b] =
        IF {j \in DOMAIN sizes : In(j)} = {} THEN Blank
        ELSE was[CHOOSE j \in {j \in DOMAIN sizes : In(j)} : TRUE]
                [b - s[CHOOSE j \in {j \in DOMAIN sizes : In(j)} : TRUE] + 1]
  BY <1>3 DEF LaidOut, In
<1> QED BY <1>3, <1>5, <1>7, <1>8, <1>9

(* What is laid out is blocks. *)
LEMMA LaidOutIs ==
  ASSUME NEW sizes \in Seq(Nat), NEW was, NEW B, Blank \in B, End(sizes) <= MaxBlock + 1,
         \A i \in DOMAIN sizes : \A n \in 1..sizes[i] : was[i][n] \in B
  PROVE  LaidOut(sizes, was) \in [1..MaxBlock -> B]
<1> DEFINE s == Starts(sizes)
           In(j, b) == s[j] <= b /\ b < s[j + 1]
           Owner(b) == {j \in DOMAIN sizes : In(j, b)}
           At(b) == IF Owner(b) = {} THEN Blank
                    ELSE was[CHOOSE j \in Owner(b) : TRUE][b - s[CHOOSE j \in Owner(b) : TRUE] + 1]
<1>1. ASSUME NEW b \in 1..MaxBlock PROVE At(b) \in B
  <2>1. CASE Owner(b) = {}
    BY <2>1
  <2>2. CASE Owner(b) # {}
    <3> DEFINE i == CHOOSE j \in Owner(b) : TRUE
    <3>1. i \in Owner(b)
      BY <2>2
    <3> HIDE DEF i
    <3>2. i \in DOMAIN sizes /\ i \in 1..Len(sizes) /\ In(i, b) /\ Len(sizes) \in Nat /\ sizes[i] \in Nat
      BY <3>1
    <3>3. s[i] \in Nat \ {0} /\ s[i + 1] = s[i] + sizes[i]
      BY <3>2, StartsAre
    <3>4. b - s[i] + 1 \in 1..sizes[i]
      BY <3>2, <3>3, b \in Int
    <3>5. was[i][b - s[i] + 1] \in B
      BY <3>2, <3>4
    <3>6. At(b) = was[i][b - s[i] + 1]
      BY <2>2 DEF i
    <3> QED BY <3>5, <3>6
  <2> QED BY <2>1, <2>2
<1>2. LaidOut(sizes, was) = [b \in 1..MaxBlock |-> At(b)]
  BY DEF LaidOut
<1> HIDE DEF At
<1> QED BY <1>1, <1>2

(* Memos of these sizes begin where from says, in lots of their own among
   the first m blocks. *)
Fit(sizes, from, m, lot) ==
  \A r \in DOMAIN sizes : sizes[r] # 0 =>
     /\ from[r] \in 1..m /\ from[r] + sizes[r] <= m + 1
     /\ \A b \in from[r]..(from[r] + sizes[r] - 1) : lot[b] = <<r, from[r]>>

(* They are laid out in no more blocks than those. *)
LEMMA EndIsBound ==
  ASSUME NEW sizes \in Seq(Nat), NEW from, NEW m \in Nat, NEW lot, Fit(sizes, from, m, lot)
  PROVE  End(sizes) <= m + 1
<1>f. \A r \in DOMAIN sizes : sizes[r] # 0 =>
         /\ from[r] \in 1..m /\ from[r] + sizes[r] <= m + 1
         /\ \A b \in from[r]..(from[r] + sizes[r] - 1) : lot[b] = <<r, from[r]>>
  BY DEF Fit
<1> DEFINE Ext(r) == IF sizes[r] = 0 THEN {} ELSE from[r]..(from[r] + sizes[r] - 1)
           Used(k) == {b \in 1..m : \E r \in 1..k : b \in Ext(r)}
           L == Len(sizes)
           s == Starts(sizes)
           T == {k \in Nat : k <= L => Cardinality(Used(k)) = s[k + 1] - 1}
<1>0. L \in Nat /\ DOMAIN sizes = 1..L /\ \A r \in 1..L : sizes[r] \in Nat
  OBVIOUS
<1>1. s[1] = 1 /\ \A r \in 1..L : s[r + 1] = s[r] + sizes[r] /\ s[r] \in Nat /\ s[r + 1] \in Nat
  <2>1. \A x \in 1..(L + 1) : s[x] \in Nat
    BY StartsAre
  <2>2. \A r \in 1..L : r \in 1..(L + 1) /\ r + 1 \in 1..(L + 1)
    BY <1>0
  <2>3. s[1] = 1 /\ \A r \in 1..L : s[r + 1] = s[r] + sizes[r]
    BY StartsAre
  <2> HIDE DEF s, L
  <2> QED BY <2>1, <2>2, <2>3
<1>2. IsFiniteSet(1..m) /\ Cardinality(1..m) = m
  BY FS_Interval
<1>3. \A k : IsFiniteSet(Used(k)) /\ Cardinality(Used(k)) <= m /\ Cardinality(Used(k)) \in Nat
  <2> TAKE k
  <2>1. Used(k) \in SUBSET (1..m)
    OBVIOUS
  <2> HIDE DEF Used
  <2> QED BY <1>2, <2>1, FS_Subset, FS_CardinalityType
<1>4. 0 \in T
  <2>1. Used(0) = {}
    OBVIOUS
  <2>2. Cardinality(Used(0)) = 0
    BY <2>1, FS_EmptySet, Zenon
  <2>3. s[0 + 1] - 1 = 0
    BY <1>1
  <2> HIDE DEF Used, s
  <2> QED BY <2>2, <2>3
<1>5. ASSUME NEW k \in T PROVE k + 1 \in T
  <2>0. k \in Nat /\ k + 1 \in Nat
    OBVIOUS
  <2> SUFFICES ASSUME k + 1 <= L PROVE Cardinality(Used(k + 1)) = s[k + 1 + 1] - 1
    BY <2>0, Zenon
  <2>1. Cardinality(Used(k)) = s[k + 1] - 1 /\ k + 1 \in 1..L
    BY <1>0, <2>0
  <2> HIDE DEF T
  <2>2. Ext(k + 1) \subseteq 1..m
    <3> SUFFICES ASSUME sizes[k + 1] # 0, NEW b \in from[k + 1]..(from[k + 1] + sizes[k + 1] - 1)
                 PROVE  b \in 1..m
      OBVIOUS
    <3>1. from[k + 1] \in 1..m /\ from[k + 1] + sizes[k + 1] <= m + 1 /\ sizes[k + 1] \in Nat
      BY <1>f, <1>0, <2>1
    <3>2. from[k + 1] \in Int /\ 1 <= from[k + 1] /\ sizes[k + 1] \in Int
      BY <3>1
    <3>3. b \in Int /\ from[k + 1] <= b /\ b <= from[k + 1] + sizes[k + 1] - 1
      BY <3>2
    <3>4. \A x, y, z, w \in Int : 1 <= x /\ x <= z /\ z <= x + y - 1 /\ x + y <= w + 1 => 1 <= z /\ z <= w
      OBVIOUS
    <3>5. 1 <= b /\ b <= m
      BY <3>1, <3>2, <3>3, <3>4
    <3> QED BY <3>3, <3>5
  <2>3. Used(k + 1) = Used(k) \cup Ext(k + 1)
    <3>1. 1..(k + 1) = 1..k \cup {k + 1}
      BY <2>0
    <3> HIDE DEF Ext
    <3> QED BY <2>2, <3>1
  <2>4. Used(k) \cap Ext(k + 1) = {}
    <3> SUFFICES ASSUME NEW b \in Ext(k + 1), NEW r \in 1..k, b \in Ext(r) PROVE FALSE
      OBVIOUS
    <3>1. r \in 1..L /\ r # k + 1
      BY <1>0, <2>0, <2>1
    <3>2. lot[b] = <<r, from[r]>>
      BY <3>1, <1>0, <1>f
    <3>3. lot[b] = <<k + 1, from[k + 1]>>
      BY <2>1, <1>0, <1>f
    <3> QED BY <3>1, <3>2, <3>3
  <2>5. IsFiniteSet(Ext(k + 1)) /\ Cardinality(Ext(k + 1)) = sizes[k + 1]
    <3>1. CASE sizes[k + 1] = 0
      BY <3>1, FS_EmptySet
    <3>2. CASE sizes[k + 1] # 0
      <4>1. from[k + 1] \in Int /\ from[k + 1] + sizes[k + 1] - 1 \in Int /\ sizes[k + 1] \in Nat
        BY <1>0, <1>f, <2>1, <3>2
      <4>3. \A x, y \in Int : Cardinality(x..y) = IF x > y THEN 0 ELSE y - x + 1
        BY FS_Interval
      <4> DEFINE lo == from[k + 1]
                 hi == from[k + 1] + sizes[k + 1] - 1
      <4>4. lo \in Int /\ hi \in Int /\ ~(lo > hi) /\ hi - lo + 1 = sizes[k + 1]
        <5>1. \A x \in Int, y \in Nat : y # 0 => ~(x > x + y - 1) /\ x + y - 1 - x + 1 = y
          OBVIOUS
        <5> QED BY <4>1, <3>2, <5>1
      <4>5. Cardinality(lo..hi) = hi - lo + 1
        <5> HIDE DEF lo, hi
        <5> QED BY <4>3, <4>4
      <4>2. Cardinality(from[k + 1]..(from[k + 1] + sizes[k + 1] - 1)) = sizes[k + 1]
        BY <4>4, <4>5
      <4> QED BY <3>2, <4>1, <4>2, FS_Interval
    <3> QED BY <3>1, <3>2
  <2> HIDE DEF Ext, Used
  <2>6. Cardinality(Used(k + 1)) = Cardinality(Used(k)) + Cardinality(Ext(k + 1)) - Cardinality({})
    BY <1>3, <2>3, <2>4, <2>5, FS_Union
  <2>7. s[k + 1 + 1] = s[k + 1] + sizes[k + 1] /\ s[k + 1] \in Nat /\ sizes[k + 1] \in Nat
    BY <1>0, <1>1, <2>1
  <2>8. Cardinality({}) = 0
    BY FS_EmptySet
  <2> HIDE DEF s
  <2>9. Cardinality(Used(k + 1)) = s[k + 1] - 1 + sizes[k + 1]
    BY <2>1, <2>5, <2>6, <2>7, <2>8
  <2>10. \A x, y \in Int : x - 1 + y = x + y - 1
    OBVIOUS
  <2>11. s[k + 1] - 1 + sizes[k + 1] = s[k + 1 + 1] - 1
    BY <2>7, <2>10
  <2> QED BY <2>9, <2>11, Zenon
<1> HIDE DEF T
<1>6. T = Nat
  BY <1>4, <1>5, Inductive DEF T
<1>7. Cardinality(Used(L)) = s[L + 1] - 1
  <2> HIDE DEF Used, s, L
  <2>1. L \in T /\ L <= L
    BY <1>0, <1>6
  <2> QED BY <2>1 DEF T
<1>8. s[L + 1] \in Nat
  BY StartsAre, <1>0
<1> HIDE DEF Used
<1> QED BY <1>3, <1>7, <1>8 DEF End

------------------------------------------------------------------------------
(* The records a pack or a zap keeps. *)

Nth(keep) == [i \in 1..Cardinality(keep) |-> CHOOSE r \in keep : Cardinality({x \in keep : x <= r}) = i]

(* The first of the kept records, the second, and so on are each another one. *)
LEMMA NthAre ==
  ASSUME NEW m \in Nat, NEW keep \in SUBSET (1..m)
  PROVE  /\ Cardinality(keep) \in Nat /\ Cardinality(keep) <= m
         /\ Nth(keep) \in [1..Cardinality(keep) -> keep]
         /\ \A i, j \in 1..Cardinality(keep) : Nth(keep)[i] = Nth(keep)[j] => i = j
<1> DEFINE N == Cardinality(keep)
           Low(r) == {x \in keep : x <= r}
           f == [r \in keep |-> Cardinality(Low(r))]
<1>1. IsFiniteSet(keep) /\ N \in Nat /\ N <= m
  <2>1. IsFiniteSet(1..m) /\ Cardinality(1..m) = m
    BY FS_Interval
  <2> QED BY <2>1, FS_Subset, FS_CardinalityType
<1>2. \A r \in keep : /\ IsFiniteSet(Low(r)) /\ Cardinality(Low(r)) \in 1..N
  <2> TAKE r \in keep
  <2>1. Low(r) \in SUBSET keep /\ r \in Low(r)
    OBVIOUS
  <2> HIDE DEF Low
  <2>2. IsFiniteSet(Low(r)) /\ Cardinality(Low(r)) <= N /\ Cardinality(Low(r)) \in Nat
    BY <1>1, <2>1, FS_Subset, FS_CardinalityType
  <2>3. Cardinality(Low(r)) # 0
    BY <2>1, <2>2, FS_EmptySet
  <2> QED BY <2>2, <2>3, <1>1
<1>3. \A r, q \in keep : r < q => f[r] # f[q]
  <2> SUFFICES ASSUME NEW r \in keep, NEW q \in keep, r < q, Cardinality(Low(r)) = Cardinality(Low(q))
               PROVE FALSE
    OBVIOUS
  <2>0. r \in Int /\ q \in Int /\ \A x \in keep : x \in Int
    OBVIOUS
  <2>1. Low(r) \in SUBSET Low(q) /\ q \in Low(q) /\ q \notin Low(r)
    <3>1. ~(q <= r)
      BY <2>0
    <3>2. \A x \in keep : x <= r => x <= q
      BY <2>0
    <3>3. r <= r /\ q <= q
      BY <2>0
    <3> QED BY <3>1, <3>2, <3>3, Zenon
  <2> HIDE DEF Low
  <2>2. Low(r) = Low(q)
    BY <1>2, <2>1, FS_Subset
  <2> QED BY <2>1, <2>2
<1>4. f \in Injection(keep, 1..N)
  <2>1. f \in [keep -> 1..N]
    BY <1>2
  <2>2. \A r, q \in keep : f[r] = f[q] => r = q
    <3> SUFFICES ASSUME NEW r \in keep, NEW q \in keep, f[r] = f[q], r # q PROVE FALSE
      OBVIOUS
    <3>1. r \in Int /\ q \in Int
      OBVIOUS
    <3>2. r < q \/ q < r
      BY <3>1
    <3> HIDE DEF f
    <3> QED BY <3>2, <1>3
  <2> HIDE DEF f
  <2> QED BY <2>1, <2>2 DEF Injection, IsInjective
<1>5. f \in Surjection(keep, 1..N)
  <2>1. IsFiniteSet(1..N) /\ Cardinality(1..N) = N
    BY <1>1, FS_Interval
  <2> HIDE DEF f
  <2> QED BY <1>4, <2>1, FS_Injection
<1>6. \A i \in 1..N : \E r \in keep : f[r] = i
  <2> HIDE DEF f
  <2> QED BY <1>5 DEF Surjection
<1>7. \A i \in 1..N : Nth(keep)[i] \in keep /\ f[Nth(keep)[i]] = i
  <2> TAKE i \in 1..N
  <2>1. \E r \in keep : Cardinality(Low(r)) = i
    BY <1>6
  <2>2. Nth(keep)[i] = CHOOSE r \in keep : Cardinality(Low(r)) = i
    BY DEF Nth
  <2> HIDE DEF Low
  <2> QED BY <2>1, <2>2
<1>8. Nth(keep) \in [1..N -> keep]
  BY <1>7 DEF Nth
<1> HIDE DEF f
<1> QED BY <1>1, <1>7, <1>8

LEMMA KeptIs ==
  ASSUME NEW seq, NEW keep
  PROVE  Kept(seq, keep) = [i \in 1..Cardinality(keep) |-> seq[Nth(keep)[i]]]
BY DEF Kept, Nth

------------------------------------------------------------------------------
(* Texts in the memo file. *)

LEMMA TextIs ==
  ASSUME NEW id, NEW size
  PROVE  TextAt(id, size) \in Said
<1> DEFINE whole == {t \in Text : /\ Size[t] = size
                                  /\ \A n \in 1..size : /\ id + n - 1 \in DOMAIN blocks
                                                        /\ blocks[id + n - 1].piece = <<t, n>>}
<1>1. whole # {} => (CHOOSE t \in whole : TRUE) \in whole
  OBVIOUS
<1>2. TextAt(id, size) = CASE size = 0 -> Empty [] size # 0 /\ whole = {} -> Unknown
                           [] size # 0 /\ whole # {} -> CHOOSE t \in whole : TRUE
  BY DEF TextAt
<1>3. whole \subseteq Text
  OBVIOUS
<1> HIDE DEF whole
<1> QED BY <1>1, <1>2, <1>3 DEF Said

(* Who reads a text that is wholly there gets it. *)
LEMMA TextIsWritten ==
  ASSUME blocks \in [1..MaxBlock -> [size : Nat, piece : Pieces]], NEW id, NEW t \in Text, Written(id, t)
  PROVE  MemoAt(id) = t /\ TextAt(id, Size[t]) = t /\ SizeAt(id) = Size[t] /\ id # 0
<1> DEFINE whole == {s \in Text : /\ Size[s] = Size[t]
                                  /\ \A n \in 1..Size[t] : /\ id + n - 1 \in DOMAIN blocks
                                                           /\ blocks[id + n - 1].piece = <<s, n>>}
<1>1. Size[t] \in Nat \ {0} /\ 1 \in 1..Size[t]
  BY SizeAssumption
<1>2. t \in whole
  BY DEF Written
<1>3. ASSUME NEW s \in whole PROVE s = t
  <2>1. blocks[id + 1 - 1].piece = <<s, 1>> /\ blocks[id + 1 - 1].piece = <<t, 1>>
    BY <1>1 DEF Written
  <2> QED BY <2>1
<1>4. whole = {t}
  BY <1>2, <1>3
<1>5. TextAt(id, Size[t]) = CASE Size[t] = 0 -> Empty [] Size[t] # 0 /\ whole = {} -> Unknown
                           [] Size[t] # 0 /\ whole # {} -> CHOOSE s \in whole : TRUE
  BY DEF TextAt
<1>6. (CHOOSE s \in {t} : TRUE) = t
  OBVIOUS
<1> HIDE DEF whole
<1>7. TextAt(id, Size[t]) = t
  BY <1>1, <1>4, <1>5, <1>6
<1>8. id # 0 /\ SizeAt(id) = Size[t]
  BY BoundAssumption DEF Written, SizeAt
<1> QED BY <1>7, <1>8 DEF MemoAt

(* The same pieces, wherever they are, are the same text. *)
LEMMA TextMoves ==
  ASSUME NEW i, NEW j, NEW size,
         \A n \in 1..size : /\ i + n - 1 \in DOMAIN blocks /\ j + n - 1 \in DOMAIN blocks'
                            /\ blocks'[j + n - 1].piece = blocks[i + n - 1].piece
  PROVE  TextAt(j, size)' = TextAt(i, size)
<1> DEFINE whole == {t \in Text : /\ Size[t] = size
                                  /\ \A n \in 1..size : /\ i + n - 1 \in DOMAIN blocks
                                                        /\ blocks[i + n - 1].piece = <<t, n>>}
           new == {t \in Text : /\ Size[t] = size
                                /\ \A n \in 1..size : /\ j + n - 1 \in DOMAIN blocks'
                                                      /\ blocks'[j + n - 1].piece = <<t, n>>}
<1>1. new = whole
  OBVIOUS
<1>2. TextAt(i, size) = CASE size = 0 -> Empty [] size # 0 /\ whole = {} -> Unknown
                           [] size # 0 /\ whole # {} -> CHOOSE t \in whole : TRUE
  BY DEF TextAt
<1>3. TextAt(j, size)' = CASE size = 0 -> Empty [] size # 0 /\ new = {} -> Unknown
                           [] size # 0 /\ new # {} -> CHOOSE t \in new : TRUE
  BY DEF TextAt
<1> HIDE DEF whole, new
<1> QED BY <1>1, <1>2, <1>3

------------------------------------------------------------------------------
(* Steps of one user and the others. *)

UserOK(u) == AwayOK(u) /\ LocksOK(u) /\ KnownOK(u) /\ MarksOK(u) /\ TextOK(u) /\ ReadOK(u)

(* Locks are only taken when they are free, and only one's own given back. *)
LockStep(u) ==
  /\ rlock' \in [1..(MaxRec + 1) -> User \cup {NoOne}]
  /\ alock' \in User \cup {NoOne} /\ mlock' \in User \cup {NoOne}
  /\ \A r \in 1..(MaxRec + 1) : rlock'[r] # rlock[r] => {rlock[r], rlock'[r]} \subseteq {NoOne, u}
  /\ alock' # alock => {alock, alock'} \subseteq {NoOne, u}
  /\ mlock' # mlock => {mlock, mlock'} \subseteq {NoOne, u}

LEMMA LocksUnchanged ==
  ASSUME TypeOK, UNCHANGED locks, NEW u
  PROVE  LockStep(u)
BY DEF TypeOK, LockStep, locks

LEMMA GivingBack ==
  ASSUME TypeOK, NEW u \in User, GivesAllBack(u)
  PROVE  LockStep(u) /\ \A r \in 1..(MaxRec + 1) : ~Holds(u, r)'
BY NameAssumption DEF TypeOK, LockStep, GivesAllBack, Released, GivenBack, Holds

LEMMA TakingRecord ==
  ASSUME TypeOK, NEW u \in User, NEW r \in 1..(MaxRec + 1), Free(u, r), TakesRecord(u, r)
  PROVE  /\ LockStep(u) /\ Holds(u, r)'
         /\ Holds(u, r) => UNCHANGED locks
         /\ ~Holds(u, r) => \A q \in 1..(MaxRec + 1) : Holds(u, q)' => q = r
<1>1. CASE Holds(u, r)
  BY <1>1 DEF TypeOK, TakesRecord, LockStep, Holds, locks
<1>2. CASE ~Holds(u, r)
  <2>1. /\ rlock' = [Released(u) EXCEPT ![r] = u] /\ alock' = GivenBack(u, alock) /\ mlock' = mlock
    BY <1>2 DEF TakesRecord
  <2>2. Released(u) \in [1..(MaxRec + 1) -> User \cup {NoOne}]
    BY DEF TypeOK, Released
  <2>3. \A q \in 1..(MaxRec + 1) : rlock'[q] = IF q = r THEN u ELSE IF rlock[q] = u THEN NoOne ELSE rlock[q]
    BY <2>1, <2>2 DEF TypeOK, Released, Holds
  <2>4. rlock' \in [1..(MaxRec + 1) -> User \cup {NoOne}]
    BY <2>1, <2>2
  <2>5. LockStep(u)
    BY <2>1, <2>3, <2>4 DEF TypeOK, LockStep, GivenBack, Free
  <2> QED BY <1>2, <2>3, <2>5, NameAssumption DEF Holds
<1> QED BY <1>1, <1>2

(* A user is on no record, on the one to come, or on one of the file. *)
LEMMA Whereabouts ==
  ASSUME TypeOK, NEW w \in User, UserOK(w)
  PROVE  /\ us[w].rec \in {-1} \cup (0..Len(data)) /\ us[w].rec \in Int
         /\ us[w].rec = -1 => us[w].pc = "idle" /\ us[w].id = 0 /\ ~us[w].given /\ us[w].n = 0
         /\ us[w].valid \/ us[w].fresh => us[w].rec \in DOMAIN data /\ Holds(w, us[w].rec)
         /\ us[w].oldOf # -1 => us[w].oldOf \in DOMAIN data /\ Holds(w, us[w].oldOf)
         /\ us[w].pc \in Writes => /\ Own(w) \in 1..MaxRec /\ Holds(w, Own(w))
                                   /\ us[w].rec # -1 /\ Own(w) \in 1..(Len(data) + 1)
<1>1. us[w].rec \in {-1} \cup Nat
  BY DEF TypeOK, UserState
<1>2. Len(data) \in Nat /\ DOMAIN data = 1..Len(data) /\ MaxRec \in Nat /\ Len(data) <= MaxRec
  BY BoundAssumption DEF TypeOK
<1>3. us[w].rec <= Len(data)
  BY DEF UserOK, AwayOK
<1>4. us[w].rec = -1 => us[w].pc = "idle" /\ us[w].id = 0 /\ ~us[w].given /\ us[w].n = 0
  BY DEF UserOK, AwayOK, Away
<1>5. us[w].valid \/ us[w].fresh => us[w].rec > 0 /\ Holds(w, us[w].rec)
  BY DEF UserOK, LocksOK
<1>6. us[w].oldOf # -1 => us[w].oldOf \in DOMAIN data /\ Holds(w, us[w].oldOf)
  BY DEF UserOK, LocksOK
<1>7. us[w].pc \in Writes => Own(w) <= MaxRec /\ Holds(w, Own(w))
  BY DEF UserOK, LocksOK
<1>8. us[w].rec # -1 => Own(w) \in 1..(Len(data) + 1)
  BY <1>1, <1>2, <1>3 DEF Own
<1>9. us[w].pc \in Writes => us[w].rec # -1
  BY <1>4 DEF Writes
<1> QED BY <1>1, <1>2, <1>3, <1>4, <1>5, <1>6, <1>7, <1>8, <1>9

LEMMA WhereaboutsPrime ==
  ASSUME TypeOK', NEW w \in User, UserOK(w)'
  PROVE  (us[w].pc \in Writes => Own(w) \in 1..MaxRec /\ Holds(w, Own(w)))'
<1>1. us'[w].rec \in {-1} \cup Nat
  BY DEF TypeOK, UserState
<1>2. Len(data') \in Nat /\ MaxRec \in Nat
  BY BoundAssumption DEF TypeOK
<1>3. us'[w].pc \in Writes => Own(w)' <= MaxRec /\ Holds(w, Own(w))'
  BY DEF UserOK, LocksOK
<1>4. us'[w].rec = -1 => us'[w].pc = "idle"
  BY DEF UserOK, AwayOK, Away
<1>5. us'[w].rec # -1 => Own(w)' \in Nat \ {0}
  BY <1>1, <1>2 DEF Own
<1>6. us'[w].pc \in Writes => us'[w].rec # -1
  BY <1>4 DEF Writes
<1> QED BY <1>2, <1>3, <1>5, <1>6

(* A user changes the records only under their locks, the file's end only  *)
(* under the header's, and none of the blocks another writes or has read.  *)
Spares(u, w) ==
  /\ us'[w] = us[w]
  /\ Len(data') # Len(data) => alock = u /\ Len(data') = Len(data) + 1
  /\ \A r \in DOMAIN data : ~Holds(u, r) => data'[r] = data[r] /\ said'[r] = said[r]
  /\ us[w].pc = "extend" => next' = next
  /\ us[w].pc = "text" => blocks'[us[w].n].size = blocks[us[w].n].size
  /\ us[w].pc = "store" /\ us[w].text \in Text /\ Written(us[w].id, us[w].text) => Written(us[w].id, us[w].text)'
  /\ us[w].pc = "reading" /\ us[w].fresh /\ us[w].id # 0 => blocks'[us[w].id].size = blocks[us[w].id].size

(* A user's step then leaves true what is true of another. *)
LEMMA Bystander ==
  ASSUME TypeOK, TypeOK', NEW u \in User, NEW w \in User, w # u, UserOK(w), LockStep(u), Spares(u, w)
  PROVE  UserOK(w)'
<1>s. /\ us'[w] = us[w]
      /\ Len(data') # Len(data) => alock = u /\ Len(data') = Len(data) + 1
      /\ us[w].pc = "extend" => next' = next
      /\ us[w].pc = "text" => blocks'[us[w].n].size = blocks[us[w].n].size
      /\ us[w].pc = "store" /\ us[w].text \in Text /\ Written(us[w].id, us[w].text) => Written(us[w].id, us[w].text)'
      /\ us[w].pc = "reading" /\ us[w].fresh /\ us[w].id # 0 => blocks'[us[w].id].size = blocks[us[w].id].size
  BY DEF Spares
<1>0. /\ Len(data) \in Nat /\ DOMAIN data = 1..Len(data) /\ Len(data') >= Len(data) /\ Len(data') \in Nat
      /\ Len(said) = Len(data) /\ DOMAIN data' = 1..Len(data') /\ MaxRec \in Nat /\ w # NoOne
      /\ Len(data) <= MaxRec
  <2>1. Len(data) \in Nat /\ Len(data') \in Nat
    BY DEF TypeOK
  <2>2. DOMAIN data = 1..Len(data) /\ Len(said) = Len(data) /\ Len(data) <= MaxRec /\ DOMAIN data' = 1..Len(data')
    BY DEF TypeOK
  <2>3. Len(data') # Len(data) => Len(data') = Len(data) + 1
    BY <1>s
  <2>4. Len(data') >= Len(data)
    BY <2>1, <2>3
  <2>5. w # NoOne
    BY NameAssumption
  <2>6. MaxRec \in Nat
    BY BoundAssumption
  <2> QED BY <2>1, <2>2, <2>4, <2>5, <2>6
<1>1. \A r \in 1..(MaxRec + 1) : Holds(w, r) => Holds(w, r)' /\ ~Holds(u, r)
  BY <1>0 DEF LockStep, Holds
<1>2. alock = w => alock' = w /\ Own(w)' = Own(w)
  <2>1. alock' # alock => alock \in {NoOne, u}
    BY DEF LockStep
  <2>2. w # NoOne /\ w # u
    BY NameAssumption
  <2>3. alock = w => alock' = w
    BY <2>1, <2>2
  <2>4. alock = w => Len(data') = Len(data)
    BY <1>s, <2>2
  <2> QED BY <2>3, <2>4, <1>s DEF Own
<1>3. mlock = w => mlock' = w
  <2>1. mlock' # mlock => mlock \in {NoOne, u}
    BY DEF LockStep
  <2>2. w # NoOne /\ w # u
    BY NameAssumption
  <2> QED BY <2>1, <2>2
<1>4. us[w].rec # 0 => Own(w)' = Own(w)
  BY <1>s DEF Own
<1>5. /\ us[w].rec \in {-1} \cup (0..Len(data)) /\ us[w].rec \in Int
      /\ us[w].valid \/ us[w].fresh => us[w].rec \in DOMAIN data /\ Holds(w, us[w].rec)
      /\ us[w].oldOf # -1 => us[w].oldOf \in DOMAIN data /\ Holds(w, us[w].oldOf)
      /\ us[w].pc \in Writes => Own(w) \in 1..MaxRec /\ Holds(w, Own(w))
  BY Whereabouts
<1>6. AwayOK(w)'
  <2>1. us[w].rec <= Len(data')
    BY <1>0, <1>5
  <2> QED BY <1>s, <2>1 DEF UserOK, AwayOK, Away
<1>7. LocksOK(w)'
  <2>1. us[w].pc \in Writes => Own(w)' <= MaxRec /\ Holds(w, Own(w))'
    <3>1. us[w].pc \in Writes /\ us[w].rec = 0 => alock = w
      BY DEF UserOK, LocksOK
    <3>2. us[w].pc \in Writes => Own(w)' = Own(w)
      BY <1>2, <1>4, <3>1
    <3>3. \A r \in 1..MaxRec : r \in 1..(MaxRec + 1) /\ r <= MaxRec
      BY <1>0
    <3> QED BY <1>1, <1>5, <3>2, <3>3 DEF Holds
  <2>2. us[w].pc \in Writes /\ us[w].rec = 0 => alock' = w
    BY <1>2, <1>s DEF UserOK, LocksOK
  <2>3. us[w].pc = "extend" => mlock' = w /\ us[w].n = next' /\ next' + Length(us[w].text) <= MaxBlock + 1
    BY <1>3, <1>s DEF UserOK, LocksOK
  <2>4. us[w].valid \/ us[w].fresh => us[w].rec > 0 /\ Holds(w, us[w].rec)'
    <3>1. \A r \in DOMAIN data : r \in 1..(MaxRec + 1) /\ r > 0
      BY <1>0
    <3> QED BY <1>1, <1>5, <3>1, <1>s
  <2>5. us[w].oldOf # -1 => us[w].oldOf \in DOMAIN data' /\ Holds(w, us[w].oldOf)'
    <3>1. \A r \in DOMAIN data : r \in 1..(MaxRec + 1) /\ r \in DOMAIN data'
      BY <1>0
    <3> QED BY <1>1, <1>5, <3>1, <1>s DEF Holds
  <2> QED BY <2>1, <2>2, <2>3, <2>4, <2>5, <1>s DEF LocksOK, Length, Holds
<1>8. \A r \in DOMAIN data : Holds(w, r) => data'[r] = data[r] /\ said'[r] = said[r]
  <2>1. \A r \in DOMAIN data : r \in 1..(MaxRec + 1)
    BY <1>0
  <2>2. \A r \in DOMAIN data : ~Holds(u, r) => data'[r] = data[r] /\ said'[r] = said[r]
    BY DEF Spares
  <2> QED BY <1>1, <2>1, <2>2
<1>9. KnownOK(w)'
  <2>1. us[w].oldOf # -1 => data'[us[w].oldOf] = data[us[w].oldOf]
    BY <1>5, <1>8
  <2>2. us[w].valid \/ us[w].fresh => data'[us[w].rec] = data[us[w].rec]
    BY <1>5, <1>8
  <2> QED BY <1>s, <2>1, <2>2 DEF UserOK, KnownOK
<1>10. MarksOK(w)'
  BY <1>s DEF UserOK, MarksOK
<1>11. TextOK(w)'
  BY <1>s DEF UserOK, TextOK
<1>12. ReadOK(w)'
  <2>1. us[w].fresh => said'[us[w].rec] = said[us[w].rec]
    BY <1>5, <1>8
  <2> QED BY <1>s, <2>1 DEF UserOK, ReadOK, SizeAt
<1> QED BY <1>6, <1>7, <1>9, <1>10, <1>11, <1>12 DEF UserOK

(* What the invariant says of one user, and of all. *)
LEMMA OfEveryone ==
  ASSUME IInv
  PROVE  TypeOK /\ LotsOK /\ SaidOK /\ \A w \in User : UserOK(w) /\ ReplaceOK(w)
BY DEF IInv, UserOK

LEMMA ForEveryone ==
  ASSUME TypeOK', LotsOK', SaidOK', \A w \in User : UserOK(w)' /\ ReplaceOK(w)'
  PROVE  IInv'
BY DEF IInv, UserOK

LEMMA OneSteps ==
  ASSUME TypeOK, NEW u \in User, NEW v \in UserState, us' = [us EXCEPT ![u] = v]
  PROVE  us' \in [User -> UserState] /\ us'[u] = v /\ \A w \in User : w # u => us'[w] = us[w]
BY DEF TypeOK

(* While the two steps of a compress are under way nobody else holds a lock. *)
LEMMA UnderReplace ==
  ASSUME TypeOK, NEW u \in User, NEW w \in User, w # u, us[w].pc = "replace", ReplaceOK(w), LockStep(u)
  PROVE  /\ \A r \in 1..(MaxRec + 1) : rlock'[r] = w /\ ~Holds(u, r) /\ ~Holds(u, r)'
         /\ rlock' = [r \in DOMAIN rlock' |-> w] /\ alock' = w /\ alock = w
<1>1. rlock = [r \in DOMAIN rlock |-> w] /\ alock = w /\ DOMAIN rlock = 1..(MaxRec + 1)
  BY DEF ReplaceOK, TypeOK
<1>2. \A r \in 1..(MaxRec + 1) : rlock[r] = w
  BY <1>1
<1>3. w # NoOne
  BY NameAssumption
<1>4. \A r \in 1..(MaxRec + 1) : rlock'[r] = w
  BY <1>2, <1>3 DEF LockStep
<1>5. alock' = w
  <2>1. alock' # alock => alock \in {NoOne, u}
    BY DEF LockStep
  <2> QED BY <1>1, <1>3, <2>1
<1>6. rlock' = [r \in DOMAIN rlock' |-> w]
  <2>1. rlock' \in [1..(MaxRec + 1) -> User \cup {NoOne}]
    BY DEF LockStep
  <2> QED BY <1>4, <2>1
<1> QED BY <1>1, <1>2, <1>4, <1>5, <1>6 DEF Holds

(* A lot is a lot of its first blocks, too. *)
LEMMA LotShrinks ==
  ASSUME TypeOK, NEW lot, NEW o, NEW i, NEW len \in Nat, NEW m \in Nat, Lot(lot, o, i, len), m <= len
  PROVE  Lot(lot, o, i, m)
<1>1. i \in 1..(next - 1) /\ i + len <= next /\ lot[i] = <<o, i>> /\ next \in Int /\ i \in Int
  BY DEF Lot, TypeOK
<1>2. i + m <= next
  BY <1>1
<1>3. \A b \in i..(i + m - 1) : b \in i..(i + len - 1)
  BY <1>1
<1>4. \A b \in i..(i + len - 1) : lot[b] = <<o, i>>
  BY DEF Lot
<1> QED BY <1>1, <1>2, <1>3, <1>4 DEF Lot

(* A step that leaves the disk and what was said alone, of a user whose    *)
(* memo's number is still of the same record or comes from the disk.       *)
LEMMA Quiet ==
  ASSUME IInv, NEW u \in User, NEW v \in UserState, us' = [us EXCEPT ![u] = v],
         UNCHANGED <<disk, said>>, LockStep(u), UserOK(u)',
         us[u].pc # "replace", ~WritesOver(us[u]), v.pc \notin {"text", "replace"},
         v.id # 0 => \/ v.id = us[u].id /\ v.rec = us[u].rec
                     \/ v.rec \in DOMAIN data /\ v.id = data[v.rec].memo,
         v.pc = "head" => /\ v.n = v.id /\ v.id # 0
                          /\ Length(v.text) \in Nat /\ Length(v.text) <= blocks[v.id].size
  PROVE  IInv'
<1>0. TypeOK /\ LotsOK /\ SaidOK /\ \A w \in User : UserOK(w) /\ ReplaceOK(w)
  BY OfEveryone
<1>1. /\ us' \in [User -> UserState] /\ us'[u] = v /\ \A w \in User : w # u => us'[w] = us[w]
  BY <1>0, OneSteps
<1>2. data' = data /\ blocks' = blocks /\ next' = next /\ said' = said
  BY DEF disk
<1>3. TypeOK'
  BY <1>0, <1>1, <1>2 DEF TypeOK, LockStep
<1>4. \A w \in User : UserOK(w)'
  <2> SUFFICES ASSUME NEW w \in User, w # u PROVE UserOK(w)'
    OBVIOUS
  <2>1. Spares(u, w)
    BY <1>1, <1>2 DEF Spares, Written
  <2> QED BY <1>0, <1>3, <2>1, Bystander
<1>5. Whole' => Whole
  BY <1>1 DEF Whole
<1>6. \A w \in User : w # u => Own(w)' = Own(w)
  BY <1>1, <1>2 DEF Own
<1>7. LotsOK'
  <2> SUFFICES ASSUME Whole' PROVE (\E lot : LotsOf(lot, Memos) /\ \A w \in User : LotsOfUser(lot, w))'
    BY DEF LotsOK
  <2>1. PICK lot : LotsOf(lot, Memos) /\ \A w \in User : LotsOfUser(lot, w)
    BY <1>0, <1>5 DEF LotsOK
  <2>2. LotsOf(lot, Memos)'
    BY <1>2, <2>1 DEF LotsOf, Memos, Lot
  <2>3. \A w \in User : w # u => LotsOfUser(lot, w)'
    BY <1>1, <1>2, <1>6, <2>1 DEF LotsOfUser, Lot, Length
  <2>4. \A o, i, len : Lot(lot, o, i, len)' <=> Lot(lot, o, i, len)
    BY <1>2 DEF Lot
  <2>5. v.id # 0 => Lot(lot, Own(u)', v.id, blocks[v.id].size)
    <3>1. CASE v.id # 0 /\ v.id = us[u].id /\ v.rec = us[u].rec
      <4>1. Own(u)' = Own(u)
        BY <1>1, <1>2, <3>1 DEF Own
      <4> QED BY <2>1, <3>1, <4>1 DEF LotsOfUser
    <3>2. CASE v.id # 0 /\ v.rec \in DOMAIN data /\ v.id = data[v.rec].memo
      <4>1. Own(u)' = v.rec
        <5>1. v.rec # 0
          BY <1>0, <3>2 DEF TypeOK
        <5> QED BY <1>1, <1>2, <5>1 DEF Own
      <4>2. Memos[v.rec] = v.id
        BY <3>2 DEF Memos
      <4>3. Lot(lot, v.rec, Memos[v.rec], blocks[Memos[v.rec]].size)
        BY <2>1, <3>2, <4>2 DEF LotsOf
      <4> QED BY <4>1, <4>2, <4>3
    <3> QED BY <3>1, <3>2
  <2>6. v.pc = "head" => Lot(lot, Own(u)', v.n, Length(v.text))
    <3> SUFFICES ASSUME v.pc = "head" PROVE Lot(lot, Own(u)', v.n, Length(v.text))
      OBVIOUS
    <3>1. v.n = v.id /\ v.id # 0 /\ Length(v.text) \in Nat /\ Length(v.text) <= blocks[v.id].size
      OBVIOUS
    <3>2. Lot(lot, Own(u)', v.id, blocks[v.id].size)
      BY <2>5, <3>1
    <3>3. blocks[v.id].size \in Nat
      <4>1. v.id \in 1..MaxBlock
        BY <1>0, <3>2, BoundAssumption DEF Lot, TypeOK
      <4> QED BY <1>0, <4>1 DEF TypeOK
    <3> HIDE DEF Length
    <3> QED BY <1>0, <3>1, <3>2, <3>3, LotShrinks
  <2>7. LotsOfUser(lot, u)'
    BY <1>1, <1>2, <2>4, <2>5, <2>6 DEF LotsOfUser, Length
  <2> QED BY <2>2, <2>3, <2>7
<1>8. SaidOK'
  <2> SUFFICES ASSUME Whole', NEW r \in DOMAIN data' PROVE (said[r] \in {Unknown, MemoAt(data[r].memo)} \/ WrittenOver(r))'
    BY DEF SaidOK
  <2>1. said[r] \in {Unknown, MemoAt(data[r].memo)} \/ WrittenOver(r)
    BY <1>0, <1>2, <1>5 DEF SaidOK
  <2>2. CASE WrittenOver(r)
    <3>1. PICK w \in User : us[w].rec = r /\ WritesOver(us[w])
      BY <2>2 DEF WrittenOver
    <3>2. w # u
      BY <3>1
    <3> QED BY <1>1, <1>2, <3>1, <3>2 DEF WrittenOver, WritesOver
  <2>3. MemoAt(data[r].memo)' = MemoAt(data[r].memo)
    BY <1>2 DEF MemoAt, SizeAt, TextAt
  <2> QED BY <1>2, <2>1, <2>2, <2>3
<1>9. \A w \in User : ReplaceOK(w)'
  <2>1. ReplaceOK(u)'
    BY <1>1 DEF ReplaceOK
  <2>2. ASSUME NEW w \in User, w # u, us[w].pc = "replace" PROVE ReplaceOK(w)'
    <3>0. us'[w] = us[w]
      BY <1>1, <2>2
    <3>1. /\ \A r \in 1..(MaxRec + 1) : ~Holds(u, r)'
          /\ rlock' = [r \in DOMAIN rlock' |-> w] /\ alock' = w
      BY <1>0, <2>2, UnderReplace
    <3>2. /\ Len(us[w].was) = Len(data)
          /\ \A r \in DOMAIN data : data[r].memo = Numbers([q \in DOMAIN us[w].was |-> SizeAt(us[w].was[q])])[r]
          /\ \E lot : LotsOf(lot, us[w].was)
          /\ \A r \in DOMAIN data : said[r] \in {Unknown, MemoAt(us[w].was[r])}
          /\ \A x \in User \ {w} : /\ us[x].pc \in {"idle", "reading"}
                                   /\ us[x].id # 0 => us[x].id = data[us[x].rec].memo
      BY <1>0, <2>2 DEF ReplaceOK
    <3>3. v.pc \in {"idle", "reading"}
      <4>1. v.pc \in Codes /\ v.pc # "replace"
        BY DEF UserState
      <4>2. us'[u].pc \notin Writes
        <5>1. us'[u].pc \in Writes => Own(u)' \in 1..MaxRec /\ Holds(u, Own(u))'
          BY <1>3, <1>4, WhereaboutsPrime
        <5> QED BY <3>1, <5>1, BoundAssumption
      <4> QED BY <1>1, <4>1, <4>2 DEF Codes, Writes
    <3>4. v.id # 0 => v.id = data[v.rec].memo
      <4>1. us[u].id # 0 => us[u].id = data[us[u].rec].memo
        BY <2>2, <3>2
      <4> QED BY <4>1
    <3>5. \A x \in User \ {w} : /\ us'[x].pc \in {"idle", "reading"}
                                /\ us'[x].id # 0 => us'[x].id = data[us'[x].rec].memo
      BY <1>1, <3>2, <3>3, <3>4
    <3>6. \A id : SizeAt(id)' = SizeAt(id) /\ MemoAt(id)' = MemoAt(id)
      BY <1>2 DEF MemoAt, SizeAt, TextAt
    <3>7. (\E lot : LotsOf(lot, us[w].was))'
      <4>1. PICK lot : LotsOf(lot, us[w].was)
        BY <3>2
      <4>2. LotsOf(lot, us[w].was)'
        BY <1>2, <3>0, <4>1 DEF LotsOf, Lot
      <4> QED BY <4>2
    <3> QED BY <1>2, <3>0, <3>1, <3>2, <3>5, <3>6, <3>7 DEF ReplaceOK
  <2> QED BY <1>1, <2>1, <2>2 DEF ReplaceOK
<1> QED BY <1>3, <1>4, <1>7, <1>8, <1>9, ForEveryone

LEMMA NotOver ==
  ASSUME NEW u \in User, us[u].pc \notin {"text", "store"}
  PROVE  ~WritesOver(us[u])
BY DEF WritesOver

------------------------------------------------------------------------------
(* What the calls make of a user's copy. *)

LEMMA AwayIs ==
  ASSUME NEW rlk \in BOOLEAN
  PROVE  /\ Away(rlk) \in UserState
         /\ Away(rlk).rlk = rlk
BY DEF Away, UserState, Codes, Said

LEMMA ForgetsIs ==
  ASSUME NEW x \in UserState
  PROVE  /\ Forgets(x) \in UserState
         /\ Forgets(x).oldOf = -1 /\ ~Forgets(x).valid /\ ~Forgets(x).fresh /\ Forgets(x).old = 0
         /\ Forgets(x).rec = x.rec /\ Forgets(x).id = x.id /\ Forgets(x).text = x.text
         /\ Forgets(x).changed = x.changed /\ Forgets(x).given = x.given /\ Forgets(x).dirty = x.dirty
         /\ Forgets(x).pc = x.pc /\ Forgets(x).n = x.n /\ Forgets(x).was = x.was /\ Forgets(x).rlk = x.rlk
         /\ Forgets(x).needs = x.needs
<1> USE DEF UserState
<1>1. Forgets(x) \in UserState
  BY DEF Forgets
<1> QED BY <1>1 DEF Forgets

LEMMA ResetIs ==
  ASSUME NEW x \in UserState
  PROVE  /\ Reset(x) \in UserState
         /\ Reset(x).text = Unread /\ ~Reset(x).changed /\ ~Reset(x).given
         /\ Reset(x).rec = x.rec /\ Reset(x).id = x.id /\ Reset(x).dirty = x.dirty
         /\ Reset(x).oldOf = x.oldOf /\ Reset(x).valid = x.valid /\ Reset(x).fresh = x.fresh
         /\ Reset(x).old = x.old
         /\ Reset(x).pc = x.pc /\ Reset(x).n = x.n /\ Reset(x).was = x.was /\ Reset(x).rlk = x.rlk
<1> USE DEF UserState
<1>1. Reset(x) \in UserState
  BY DEF Reset
<1> QED BY <1>1 DEF Reset

LEMMA RecordReadIs ==
  ASSUME NEW x \in UserState, NEW r \in DOMAIN data, NEW held \in BOOLEAN, data \in Seq(Record)
  PROVE  /\ RecordRead(x, r, held) \in UserState
         /\ RecordRead(x, r, held).rec = r /\ RecordRead(x, r, held).id = data[r].memo
         /\ RecordRead(x, r, held).valid = held /\ RecordRead(x, r, held).fresh = held
         /\ held => RecordRead(x, r, held).oldOf = r /\ RecordRead(x, r, held).old = data[r].memo
         /\ ~held => RecordRead(x, r, held).oldOf = x.oldOf /\ RecordRead(x, r, held).old = x.old
         /\ ~RecordRead(x, r, held).given /\ ~RecordRead(x, r, held).changed
         /\ RecordRead(x, r, held).text = Unread /\ ~RecordRead(x, r, held).dirty
         /\ RecordRead(x, r, held).pc = x.pc /\ RecordRead(x, r, held).was = x.was
         /\ RecordRead(x, r, held).n = x.n
<1> DEFINE m == data[r].memo
           l == data[r].live
           y == [x EXCEPT !.rec = r, !.id = m, !.live = l, !.dirty = FALSE,
                          !.old = IF held THEN m ELSE @, !.oldOf = IF held THEN r ELSE @,
                          !.valid = held, !.fresh = held]
<1>1. data[r] \in Record /\ r \in Nat \ {0}
  OBVIOUS
<1>2. m \in Nat /\ l \in BOOLEAN
  BY <1>1 DEF Record
<1> HIDE DEF m, l
<1>3. y \in UserState
  <2>1. r \in {-1} \cup Nat /\ r \in {-1} \cup (Nat \ {0})
    BY <1>1
  <2>2. CASE held
    BY <1>2, <2>1, <2>2 DEF UserState
  <2>3. CASE ~held
    BY <1>2, <2>1, <2>3 DEF UserState
  <2> QED BY <2>2, <2>3
<1>4. /\ y.rec = r /\ y.id = m /\ y.valid = held /\ y.fresh = held /\ ~y.dirty
      /\ y.pc = x.pc /\ y.was = x.was /\ y.n = x.n
      /\ held => y.oldOf = r /\ y.old = m
      /\ ~held => y.oldOf = x.oldOf /\ y.old = x.old
  BY DEF UserState
<1>5. RecordRead(x, r, held) = Reset(y)
  BY DEF RecordRead, m, l
<1> HIDE DEF y
<1> QED BY <1>3, <1>4, <1>5, ResetIs DEF m

LEMMA ReadsOldIs ==
  ASSUME NEW x \in UserState, x.rec \in DOMAIN data, data \in Seq(Record)
  PROVE  /\ ReadsOld(x) \in UserState
         /\ ReadsOld(x).oldOf = x.rec
         /\ (x.oldOf = x.rec => x.old = data[x.rec].memo) => ReadsOld(x).old = data[x.rec].memo
         /\ ReadsOld(x).rec = x.rec /\ ReadsOld(x).id = x.id /\ ReadsOld(x).text = x.text
         /\ ReadsOld(x).changed = x.changed /\ ReadsOld(x).given = x.given /\ ReadsOld(x).dirty = x.dirty
         /\ ReadsOld(x).valid = x.valid /\ ReadsOld(x).fresh = x.fresh
         /\ ReadsOld(x).pc = x.pc /\ ReadsOld(x).n = x.n /\ ReadsOld(x).was = x.was
<1>1. CASE x.oldOf = x.rec
  BY <1>1 DEF ReadsOld
<1>2. CASE x.oldOf # x.rec
  <2> DEFINE y == [x EXCEPT !.old = data[x.rec].memo, !.oldOf = x.rec]
  <2>0. data[x.rec] \in Record
    OBVIOUS
  <2>1. data[x.rec].memo \in Nat /\ x.rec \in Nat \ {0}
    BY <2>0 DEF Record
  <2>2. y \in UserState
    BY <2>1 DEF UserState
  <2>3. /\ y.oldOf = x.rec /\ y.old = data[x.rec].memo /\ y.rec = x.rec /\ y.id = x.id /\ y.text = x.text
        /\ y.changed = x.changed /\ y.given = x.given /\ y.dirty = x.dirty
        /\ y.valid = x.valid /\ y.fresh = x.fresh /\ y.pc = x.pc /\ y.n = x.n /\ y.was = x.was
    BY DEF UserState
  <2>4. ReadsOld(x) = y
    BY <1>2 DEF ReadsOld
  <2> HIDE DEF y
  <2> QED BY <2>2, <2>3, <2>4
<1> QED BY <1>1, <1>2

LEMMA ValidatedIs ==
  ASSUME NEW x \in UserState, x.rec \in DOMAIN data, data \in Seq(Record)
  PROVE  /\ Validated(x) \in UserState /\ Validated(x).valid
         /\ x.valid => Validated(x) = x
         /\ ~x.valid => /\ Validated(x).oldOf = x.rec
                        /\ (x.oldOf = x.rec => x.old = data[x.rec].memo) =>
                              /\ Validated(x).old = data[x.rec].memo
                              /\ ~x.dirty /\ ~x.changed => Validated(x).id = data[x.rec].memo
                        /\ x.dirty \/ x.changed => Validated(x).id = x.id /\ Validated(x).fresh = x.fresh
                        /\ ~x.dirty /\ ~x.changed => Validated(x).fresh
         /\ Validated(x).rec = x.rec /\ Validated(x).text = x.text /\ Validated(x).changed = x.changed
         /\ Validated(x).given = x.given /\ Validated(x).dirty = x.dirty
         /\ Validated(x).pc = x.pc /\ Validated(x).n = x.n /\ Validated(x).was = x.was
<1>1. CASE x.valid
  BY <1>1 DEF Validated
<1>2. CASE ~x.valid
  <2> DEFINE w == ReadsOld(x)
             y == [w EXCEPT !.valid = TRUE]
             z == [w EXCEPT !.valid = TRUE, !.id = w.old, !.fresh = TRUE]
  <2>1. /\ w \in UserState /\ w.oldOf = x.rec
        /\ (x.oldOf = x.rec => x.old = data[x.rec].memo) => w.old = data[x.rec].memo
        /\ w.rec = x.rec /\ w.id = x.id /\ w.text = x.text /\ w.changed = x.changed /\ w.given = x.given
        /\ w.dirty = x.dirty /\ w.fresh = x.fresh /\ w.pc = x.pc /\ w.n = x.n /\ w.was = x.was
    BY ReadsOldIs
  <2>2. Validated(x) = IF x.dirty \/ x.changed THEN y ELSE z
    BY <1>2 DEF Validated
  <2> HIDE DEF w
  <2>3. w.old \in Nat
    BY <2>1 DEF UserState
  <2>4. /\ y \in UserState /\ y.valid /\ y.oldOf = w.oldOf /\ y.old = w.old /\ y.rec = w.rec /\ y.id = w.id
        /\ y.text = w.text /\ y.changed = w.changed /\ y.given = w.given /\ y.dirty = w.dirty
        /\ y.fresh = w.fresh /\ y.pc = w.pc /\ y.n = w.n /\ y.was = w.was
    BY <2>1 DEF UserState
  <2>5. /\ z \in UserState /\ z.valid /\ z.oldOf = w.oldOf /\ z.old = w.old /\ z.rec = w.rec /\ z.id = w.old
        /\ z.text = w.text /\ z.changed = w.changed /\ z.given = w.given /\ z.dirty = w.dirty
        /\ z.fresh /\ z.pc = w.pc /\ z.n = w.n /\ z.was = w.was
    BY <2>1, <2>3 DEF UserState
  <2> HIDE DEF y, z
  <2> QED BY <1>2, <2>1, <2>2, <2>4, <2>5
<1> QED BY <1>1, <1>2

LEMMA ReadsIs ==
  ASSUME NEW x \in UserState, SizeAt(x.id) \in Nat
  PROVE  /\ Reads(x) \in UserState /\ ~Reads(x).changed
         /\ x.id = 0 => Reads(x).text = Empty /\ Reads(x).pc = x.pc /\ Reads(x).n = x.n
         /\ x.id # 0 => Reads(x).text = x.text /\ Reads(x).pc = "reading" /\ Reads(x).n = SizeAt(x.id)
         /\ Reads(x).rec = x.rec /\ Reads(x).id = x.id /\ Reads(x).given = x.given
         /\ Reads(x).dirty = x.dirty /\ Reads(x).valid = x.valid /\ Reads(x).fresh = x.fresh
         /\ Reads(x).oldOf = x.oldOf /\ Reads(x).old = x.old /\ Reads(x).was = x.was
<1> DEFINE y == [x EXCEPT !.text = Empty, !.changed = FALSE]
           z == [x EXCEPT !.n = SizeAt(x.id), !.pc = "reading", !.changed = FALSE]
<1>1. /\ y \in UserState /\ y.text = Empty /\ ~y.changed /\ y.pc = x.pc /\ y.n = x.n
      /\ y.rec = x.rec /\ y.id = x.id /\ y.given = x.given /\ y.dirty = x.dirty /\ y.valid = x.valid
      /\ y.fresh = x.fresh /\ y.oldOf = x.oldOf /\ y.old = x.old /\ y.was = x.was
  BY DEF UserState, Said
<1>2. /\ z \in UserState /\ z.text = x.text /\ ~z.changed /\ z.pc = "reading" /\ z.n = SizeAt(x.id)
      /\ z.rec = x.rec /\ z.id = x.id /\ z.given = x.given /\ z.dirty = x.dirty /\ z.valid = x.valid
      /\ z.fresh = x.fresh /\ z.oldOf = x.oldOf /\ z.old = x.old /\ z.was = x.was
  BY DEF UserState, Codes
<1>3. Reads(x) = IF x.id = 0 THEN y ELSE z
  BY DEF Reads
<1> HIDE DEF y, z
<1> QED BY <1>1, <1>2, <1>3

------------------------------------------------------------------------------
(* What there is to show of a user that is in no call, or in one that reads. *)

LEMMA AtRest ==
  ASSUME NEW u \in User, us'[u].pc = "idle", us'[u].was = << >>, us'[u].rec \in Nat, us'[u].rec <= Len(data'),
         us'[u].valid \/ us'[u].fresh =>
            /\ us'[u].rec > 0 /\ Holds(u, us[u].rec)'
            /\ ~us'[u].given => us'[u].id = data'[us'[u].rec].memo,
         us'[u].oldOf # -1 => /\ us'[u].rec # 0 /\ us'[u].oldOf \in DOMAIN data' /\ Holds(u, us[u].oldOf)'
                              /\ us'[u].old = data'[us'[u].oldOf].memo,
         us'[u].rec = 0 => us'[u].id = 0,
         us'[u].changed => us'[u].given /\ us'[u].text \in Text \cup {Empty},
         us'[u].given => us'[u].dirty /\ us'[u].text \in Text \cup {Empty, Unread},
         us'[u].given /\ ~us'[u].changed =>
            us'[u].rec # 0 /\ us'[u].id = 0 /\ us'[u].valid /\ us'[u].text \in {Empty, Unread},
         us'[u].fresh /\ ~us'[u].given /\ us'[u].text # Unread => said'[us'[u].rec] \in {Unknown, us'[u].text}
  PROVE  UserOK(u)'
<1>1. us'[u].rec # -1
  OBVIOUS
<1>2. AwayOK(u)'
  BY <1>1 DEF AwayOK
<1>3. LocksOK(u)'
  BY DEF LocksOK, Writes, Holds
<1>4. KnownOK(u)'
  BY DEF KnownOK
<1>5. MarksOK(u)'
  BY DEF MarksOK, Writes
<1>6. TextOK(u)'
  BY DEF TextOK
<1>7. ReadOK(u)'
  BY DEF ReadOK
<1> QED BY <1>2, <1>3, <1>4, <1>5, <1>6, <1>7 DEF UserOK

LEMMA AtReading ==
  ASSUME NEW u \in User, us'[u].pc = "reading", us'[u].was = << >>,
         us'[u].rec \in Nat \ {0}, us'[u].rec <= Len(data'),
         us'[u].valid \/ us'[u].fresh => Holds(u, us[u].rec)' /\ us'[u].id = data'[us'[u].rec].memo,
         us'[u].oldOf # -1 => /\ us'[u].oldOf \in DOMAIN data' /\ Holds(u, us[u].oldOf)'
                              /\ us'[u].old = data'[us'[u].oldOf].memo,
         ~us'[u].changed, ~us'[u].given, us'[u].text = Unread,
         us'[u].fresh => us'[u].n = SizeAt(us[u].id)'
  PROVE  UserOK(u)'
<1>1. us'[u].rec # -1 /\ us'[u].rec > 0 /\ us'[u].rec # 0
  OBVIOUS
<1>2. AwayOK(u)'
  BY <1>1 DEF AwayOK
<1>3. LocksOK(u)'
  BY <1>1 DEF LocksOK, Writes, Holds
<1>4. KnownOK(u)'
  BY DEF KnownOK
<1>5. MarksOK(u)'
  BY DEF MarksOK, Writes
<1>6. TextOK(u)'
  BY DEF TextOK
<1>7. ReadOK(u)'
  BY DEF ReadOK
<1> QED BY <1>2, <1>3, <1>4, <1>5, <1>6, <1>7 DEF UserOK

(* A user that is on no record has nothing to be held to. *)
LEMMA AtNone ==
  ASSUME NEW u \in User, NEW rlk \in BOOLEAN, us'[u] = Away(rlk), Len(data') \in Nat
  PROVE  UserOK(u)'
<1>1. /\ us'[u].rec = -1 /\ us'[u].pc = "idle" /\ us'[u].was = << >> /\ ~us'[u].valid /\ ~us'[u].fresh
      /\ us'[u].oldOf = -1 /\ ~us'[u].changed /\ ~us'[u].given /\ us'[u].rlk = rlk
  BY DEF Away
<1>2. AwayOK(u)'
  BY <1>1 DEF AwayOK
<1>3. LocksOK(u)'
  BY <1>1 DEF LocksOK, Writes
<1>4. KnownOK(u)'
  BY <1>1 DEF KnownOK
<1>5. MarksOK(u)'
  BY <1>1 DEF MarksOK, Writes
<1>6. TextOK(u)'
  BY <1>1 DEF TextOK
<1>7. ReadOK(u)'
  BY <1>1 DEF ReadOK
<1> QED BY <1>2, <1>3, <1>4, <1>5, <1>6, <1>7 DEF UserOK

(* What the invariant says of a user that is in no call. *)
LEMMA InNoCall ==
  ASSUME TypeOK, NEW u \in User, UserOK(u), us[u].pc = "idle"
  PROVE  /\ us[u] \in UserState /\ us[u].was = << >> /\ us[u].rec <= Len(data)
         /\ us[u].rec \in {-1} \cup Nat /\ us[u].id \in Nat
         /\ us[u].changed => us[u].given /\ us[u].text \in Text \cup {Empty}
         /\ us[u].given => us[u].dirty /\ us[u].text \in Text \cup {Empty, Unread}
         /\ us[u].given /\ ~us[u].changed =>
               us[u].rec # 0 /\ us[u].id = 0 /\ us[u].valid /\ us[u].text \in {Empty, Unread}
         /\ us[u].rec = 0 => us[u].id = 0 /\ us[u].oldOf = -1 /\ ~us[u].valid /\ ~us[u].fresh
         /\ us[u].oldOf # -1 => us[u].oldOf \in DOMAIN data /\ Holds(u, us[u].oldOf)
                                /\ us[u].old = data[us[u].oldOf].memo
         /\ us[u].valid \/ us[u].fresh => /\ us[u].rec \in DOMAIN data /\ Holds(u, us[u].rec)
                                          /\ ~us[u].given => us[u].id = data[us[u].rec].memo
         /\ us[u].fresh /\ ~us[u].given /\ us[u].text # Unread => said[us[u].rec] \in {Unknown, us[u].text}
         /\ us[u].rec = -1 => us[u].oldOf = -1 /\ ~us[u].given /\ us[u].id = 0
<1>1. us[u] \in UserState /\ us[u].rec \in {-1} \cup Nat /\ us[u].id \in Nat
  BY DEF TypeOK, UserState
<1>2. us[u].was = << >> /\ us[u].rec <= Len(data)
      /\ (us[u].rec = 0 => us[u].id = 0 /\ us[u].oldOf = -1 /\ ~us[u].valid /\ ~us[u].fresh)
  BY DEF UserOK, AwayOK
<1>3. /\ us[u].changed => us[u].given /\ us[u].text \in Text \cup {Empty}
      /\ us[u].given => us[u].dirty /\ us[u].text \in Text \cup {Empty, Unread}
      /\ us[u].given /\ ~us[u].changed => us[u].id = 0 /\ us[u].valid /\ us[u].text \in {Empty, Unread}
  BY DEF UserOK, MarksOK
<1>4. /\ us[u].oldOf # -1 => us[u].old = data[us[u].oldOf].memo
      /\ (us[u].valid \/ us[u].fresh) /\ ~us[u].given => us[u].id = data[us[u].rec].memo
  BY DEF UserOK, KnownOK
<1>5. us[u].fresh /\ ~us[u].given /\ us[u].text # Unread => said[us[u].rec] \in {Unknown, us[u].text}
  BY DEF UserOK, ReadOK
<1>6. us[u].rec = -1 => us[u].oldOf = -1
  BY DEF UserOK, AwayOK, Away
<1> QED BY <1>1, <1>2, <1>3, <1>4, <1>5, <1>6, Whereabouts

------------------------------------------------------------------------------
(* The calls that take and give back locks, and those that read. *)

LEMMA ForgetsAway ==
  ASSUME NEW rlk
  PROVE  Forgets(Away(rlk)) = Away(rlk) /\ Reset(Away(rlk)) = Away(rlk)
<1> DEFINE a == Away(rlk)
<1>1. a = [f \in DOMAIN a |-> a[f]]
  BY DEF Away
<1>2. /\ a.old = 0 /\ a.oldOf = -1 /\ a.valid = FALSE /\ a.fresh = FALSE
      /\ a.text = Unread /\ a.changed = FALSE /\ a.given = FALSE
  BY DEF Away
<1> HIDE DEF a
<1>3. [a EXCEPT !.old = 0] = a /\ [a EXCEPT !.oldOf = -1] = a
  BY <1>1, <1>2
<1>4. [a EXCEPT !.valid = FALSE] = a /\ [a EXCEPT !.fresh = FALSE] = a
  BY <1>1, <1>2
<1>5. [a EXCEPT !.text = Unread] = a /\ [a EXCEPT !.changed = FALSE] = a /\ [a EXCEPT !.given = FALSE] = a
  BY <1>1, <1>2
<1>6. [[[[a EXCEPT !.old = 0] EXCEPT !.oldOf = -1] EXCEPT !.valid = FALSE] EXCEPT !.fresh = FALSE] = a
  BY <1>3, <1>4
<1>7. [[[a EXCEPT !.text = Unread] EXCEPT !.changed = FALSE] EXCEPT !.given = FALSE] = a
  BY <1>5
<1>8. Forgets(a) = a
  BY <1>6 DEF Forgets
<1>9. Reset(a) = a
  BY <1>7 DEF Reset
<1> QED BY <1>8, <1>9 DEF a

LEMMA InBounds ==
  ASSUME TypeOK
  PROVE  /\ Len(data) \in Nat /\ Len(data) <= MaxRec /\ MaxRec \in Nat /\ DOMAIN data = 1..Len(data)
         /\ \A r \in DOMAIN data : r \in 1..(MaxRec + 1) /\ r \in 1..MaxRec /\ r # 0 /\ r > 0 /\ r <= Len(data)
                                   /\ r \in Nat /\ r \in Nat \ {0} /\ r # -1
         /\ data \in Seq(Record) /\ DOMAIN rlock = 1..(MaxRec + 1) /\ DOMAIN blocks = 1..MaxBlock
         /\ DOMAIN said = DOMAIN data /\ next \in Nat
<1>1. Len(data) \in Nat /\ Len(data) <= MaxRec /\ MaxRec \in Nat /\ DOMAIN data = 1..Len(data)
  BY BoundAssumption DEF TypeOK
<1>2. \A r \in 1..Len(data) : r \in 1..(MaxRec + 1) /\ r \in 1..MaxRec /\ r # 0 /\ r > 0 /\ r <= Len(data)
                                   /\ r \in Nat /\ r \in Nat \ {0} /\ r # -1
  BY <1>1
<1>3. data \in Seq(Record) /\ DOMAIN rlock = 1..(MaxRec + 1) /\ DOMAIN blocks = 1..MaxBlock
      /\ DOMAIN said = DOMAIN data /\ next \in Nat
  BY BoundAssumption DEF TypeOK
<1> QED BY <1>1, <1>2, <1>3

(* A user that gives up what it knows under its locks. *)
LEMMA Forgot ==
  ASSUME TypeOK, NEW u \in User, UserOK(u), us[u].pc = "idle", us'[u] = Forgets(us[u]), data' = data,
         us[u].given => us[u].changed
  PROVE  UserOK(u)'
<1>0. TypeOK /\ us[u] \in UserState /\ Len(data') \in Nat
  BY InBounds DEF TypeOK
<1>1. CASE us[u].rec = -1
  <2>1. us[u] = Away(us[u].rlk) /\ us[u].rlk \in BOOLEAN
    BY <1>0, <1>1 DEF UserOK, AwayOK, UserState
  <2>2. us'[u] = Away(us[u].rlk)
    BY <2>1, ForgetsAway
  <2> QED BY <1>0, <2>1, <2>2, AtNone
<1>2. CASE us[u].rec # -1
  <2>1. /\ us'[u].oldOf = -1 /\ ~us'[u].valid /\ ~us'[u].fresh
        /\ us'[u].rec = us[u].rec /\ us'[u].id = us[u].id /\ us'[u].text = us[u].text
        /\ us'[u].changed = us[u].changed /\ us'[u].given = us[u].given /\ us'[u].dirty = us[u].dirty
        /\ us'[u].pc = us[u].pc /\ us'[u].was = us[u].was
    BY <1>0, ForgetsIs
  <2>2. /\ us[u].was = << >> /\ us[u].rec <= Len(data) /\ us[u].rec \in Nat
        /\ us[u].changed => us[u].given /\ us[u].text \in Text \cup {Empty}
        /\ us[u].given => us[u].dirty /\ us[u].text \in Text \cup {Empty, Unread}
        /\ us[u].rec = 0 => us[u].id = 0
    BY <1>2, InNoCall
  <2> QED BY <2>1, <2>2, AtRest
<1> QED BY <1>1, <1>2

LEMMA ResetOK ==
  ASSUME TypeOK, NEW u \in User, UserOK(u), us[u].pc = "idle", us'[u] = Reset(Forgets(us[u])), data' = data
  PROVE  UserOK(u)'
<1>0. TypeOK /\ us[u] \in UserState /\ Len(data') \in Nat
  BY InBounds DEF TypeOK
<1>1. CASE us[u].rec = -1
  <2>1. us[u] = Away(us[u].rlk) /\ us[u].rlk \in BOOLEAN
    BY <1>0, <1>1 DEF UserOK, AwayOK, UserState
  <2>2. us'[u] = Away(us[u].rlk)
    BY <2>1, ForgetsAway
  <2> QED BY <1>0, <2>1, <2>2, AtNone
<1>2. CASE us[u].rec # -1
  <2> DEFINE x == Forgets(us[u])
  <2>1. x \in UserState /\ x.oldOf = -1 /\ ~x.valid /\ ~x.fresh /\ x.rec = us[u].rec /\ x.id = us[u].id
        /\ x.pc = "idle" /\ x.was = us[u].was
    BY <1>0, ForgetsIs
  <2>2. us'[u] = Reset(x)
    OBVIOUS
  <2> HIDE DEF x
  <2>3. /\ us'[u].oldOf = -1 /\ ~us'[u].valid /\ ~us'[u].fresh
        /\ us'[u].rec = us[u].rec /\ us'[u].id = us[u].id /\ us'[u].text = Unread
        /\ ~us'[u].changed /\ ~us'[u].given /\ us'[u].pc = "idle" /\ us'[u].was = us[u].was
    BY <2>1, <2>2, ResetIs
  <2>4. /\ us[u].was = << >> /\ us[u].rec <= Len(data) /\ us[u].rec \in Nat
        /\ us[u].rec = 0 => us[u].id = 0
    BY <1>2, InNoCall
  <2> QED BY <2>3, <2>4, AtRest
<1> QED BY <1>1, <1>2

LEMMA LockKeeps ==
  ASSUME IInv, NEW u \in User, DoLock(u)
  PROVE  IInv'
<1>0. TypeOK /\ UserOK(u) /\ us[u] \in UserState
  BY OfEveryone DEF TypeOK
<1>1. PICK r \in DOMAIN data :
        /\ Idle(u) /\ ~Holds(u, r) /\ (us[u].dirty => ~HoldsAny(u))
        /\ Me(u, Forgets(us[u]))
        /\ IF Free(u, r) THEN TakesRecord(u, r) ELSE GivesAllBack(u)
        /\ UNCHANGED <<disk, said, changes, crashes>>
  BY DEF DoLock
<1> DEFINE v == Forgets(us[u])
<1>2. us' = [us EXCEPT ![u] = v] /\ us'[u] = v /\ us[u].pc = "idle"
  BY <1>0, <1>1 DEF Me, Idle, TypeOK
<1>3. LockStep(u)
  <2>1. r \in 1..(MaxRec + 1)
    BY <1>0, InBounds
  <2>2. CASE Free(u, r)
    BY <1>0, <1>1, <2>1, <2>2, TakingRecord
  <2>3. CASE ~Free(u, r)
    BY <1>0, <1>1, <2>3, GivingBack
  <2> QED BY <2>2, <2>3
<1>4. us[u].given => us[u].changed
  <2> SUFFICES ASSUME us[u].given, ~us[u].changed PROVE FALSE
    OBVIOUS
  <2>1. us[u].dirty /\ us[u].valid
    BY <1>0, <1>2, InNoCall
  <2>2. us[u].rec \in DOMAIN data /\ Holds(u, us[u].rec)
    BY <1>0, <2>1, Whereabouts
  <2>3. HoldsAny(u)
    BY <1>0, <2>2, InBounds DEF HoldsAny
  <2> QED BY <1>1, <2>1, <2>3
<1>5. UserOK(u)'
  BY <1>0, <1>1, <1>2, <1>4, Forgot DEF disk
<1>6. v \in UserState /\ v.pc = "idle" /\ v.id = us[u].id /\ v.rec = us[u].rec
  BY <1>0, <1>2, ForgetsIs
<1> HIDE DEF v
<1> QED BY <1>1, <1>2, <1>3, <1>5, <1>6, NotOver, Quiet

LEMMA UnlockKeeps ==
  ASSUME IInv, NEW u \in User, DoUnlock(u)
  PROVE  IInv'
<1>0. TypeOK /\ UserOK(u) /\ us[u] \in UserState
  BY OfEveryone DEF TypeOK
<1>1. /\ us[u].pc = "idle" /\ ~us[u].dirty /\ us' = [us EXCEPT ![u] = Forgets(us[u])]
      /\ GivesAllBack(u) /\ UNCHANGED <<disk, said>>
  BY DEF DoUnlock, Clean, Idle, Me
<1> DEFINE v == Forgets(us[u])
<1>2. us' = [us EXCEPT ![u] = v] /\ us'[u] = v
  BY <1>0, <1>1 DEF TypeOK
<1>3. LockStep(u)
  BY <1>0, <1>1, GivingBack
<1>4. us[u].given => us[u].changed
  BY <1>0, <1>1, InNoCall
<1>5. UserOK(u)'
  BY <1>0, <1>1, <1>2, <1>4, Forgot DEF disk
<1>6. v \in UserState /\ v.pc = "idle" /\ v.id = us[u].id /\ v.rec = us[u].rec
  BY <1>0, <1>1, ForgetsIs
<1> HIDE DEF v
<1> QED BY <1>1, <1>2, <1>3, <1>5, <1>6, NotOver, Quiet

(* The record is read. *)
LEMMA ReadingRecord ==
  ASSUME TypeOK, NEW u \in User, NEW x \in UserState, NEW r \in DOMAIN data, NEW held \in BOOLEAN,
         us'[u] = RecordRead(x, r, held), x.pc = "idle", x.was = << >>, data' = data,
         held => rlock'[r] = u,
         ~held /\ x.oldOf # -1 => x.oldOf \in DOMAIN data /\ rlock'[x.oldOf] = u /\ x.old = data[x.oldOf].memo
  PROVE  UserOK(u)'
<1>1. /\ us'[u] \in UserState
      /\ us'[u].rec = r /\ us'[u].id = data[r].memo
      /\ us'[u].valid = held /\ us'[u].fresh = held
      /\ held => us'[u].oldOf = r /\ us'[u].old = data[r].memo
      /\ ~held => us'[u].oldOf = x.oldOf /\ us'[u].old = x.old
      /\ ~us'[u].given /\ ~us'[u].changed
      /\ us'[u].text = Unread
      /\ us'[u].pc = "idle" /\ us'[u].was = << >>
  BY InBounds, RecordReadIs
<1>2. r \in Nat /\ r > 0 /\ r <= Len(data') /\ r # 0
  BY InBounds
<1>3. held => Holds(u, us[u].rec)'
  BY <1>1 DEF Holds
<1>4. us'[u].oldOf # -1 => us'[u].oldOf \in DOMAIN data' /\ Holds(u, us[u].oldOf)' /\ us'[u].old = data'[us'[u].oldOf].memo
  <2>1. CASE held
    BY <1>1, <2>1 DEF Holds
  <2>2. CASE ~held
    BY <1>1, <2>2 DEF Holds
  <2> QED BY <2>1, <2>2
<1> QED BY <1>1, <1>2, <1>3, <1>4, AtRest

(* A record that no other user has locked says what it was given. *)
LEMMA TrueUnderLock ==
  ASSUME IInv, NEW u \in User, us[u].pc \in {"idle", "reading"}, NEW r \in DOMAIN data, Free(u, r)
  PROVE  said[r] \in {Unknown, MemoAt(data[r].memo)}
<1>0. TypeOK /\ SaidOK /\ \A w \in User : UserOK(w) /\ ReplaceOK(w)
  BY OfEveryone
<1>1. r \in 1..(MaxRec + 1) /\ r # 0 /\ r # -1
  BY <1>0, InBounds
<1>2. Whole
  <2> SUFFICES ASSUME NEW w \in User, us[w].pc = "replace" PROVE FALSE
    BY DEF Whole
  <2>1. rlock = [q \in DOMAIN rlock |-> w]
    BY <1>0 DEF ReplaceOK
  <2>2. rlock[r] = w
    BY <1>0, <1>1, <2>1, InBounds
  <2>3. w # u /\ w # NoOne
    BY NameAssumption
  <2> QED BY <2>2, <2>3 DEF Free
<1>3. ~WrittenOver(r)
  <2> SUFFICES ASSUME NEW w \in User, us[w].rec = r, WritesOver(us[w]) PROVE FALSE
    BY DEF WrittenOver
  <2>1. us[w].pc \in Writes /\ us[w].pc \notin {"idle", "reading"}
    BY DEF WritesOver, Writes
  <2>2. Holds(w, r)
    BY <1>0, <1>1, <2>1, Whereabouts DEF Own
  <2>3. w # u /\ w # NoOne
    BY <2>1, NameAssumption
  <2> QED BY <2>2, <2>3 DEF Free, Holds
<1> QED BY <1>0, <1>2, <1>3 DEF SaidOK

LEMMA AfterLockIs ==
  ASSUME TypeOK, NEW u \in User, UserOK(u), us[u].pc = "idle", NEW r \in DOMAIN data, Free(u, r), TakesRecord(u, r)
  PROVE  /\ AfterLock(u, r, us[u]) \in UserState
         /\ AfterLock(u, r, us[u]).rec = us[u].rec /\ AfterLock(u, r, us[u]).id = us[u].id
         /\ AfterLock(u, r, us[u]).text = us[u].text /\ AfterLock(u, r, us[u]).changed = us[u].changed
         /\ AfterLock(u, r, us[u]).given = us[u].given /\ AfterLock(u, r, us[u]).dirty = us[u].dirty
         /\ AfterLock(u, r, us[u]).pc = "idle" /\ AfterLock(u, r, us[u]).was = << >>
         /\ AfterLock(u, r, us[u]).valid => us[u].valid /\ Holds(u, r)
         /\ AfterLock(u, r, us[u]).fresh => us[u].fresh /\ Holds(u, r)
         /\ us[u].valid /\ Holds(u, r) => AfterLock(u, r, us[u]).valid
         /\ AfterLock(u, r, us[u]).oldOf # -1 =>
               /\ AfterLock(u, r, us[u]).oldOf \in DOMAIN data /\ rlock'[AfterLock(u, r, us[u]).oldOf] = u
               /\ AfterLock(u, r, us[u]).old = data[AfterLock(u, r, us[u]).oldOf].memo
         /\ LockStep(u) /\ Holds(u, r)' /\ (Holds(u, r) => UNCHANGED locks)
<1>1. r \in 1..(MaxRec + 1) /\ us[u] \in UserState
  BY InBounds DEF TypeOK
<1>2. LockStep(u) /\ Holds(u, r)' /\ (Holds(u, r) => UNCHANGED locks)
  BY <1>1, TakingRecord
<1>3. us[u].was = << >> /\ (us[u].oldOf # -1 => us[u].oldOf \in DOMAIN data /\ Holds(u, us[u].oldOf)
                                                /\ us[u].old = data[us[u].oldOf].memo)
  BY InNoCall
<1>4. CASE Holds(u, r)
  <2>1. AfterLock(u, r, us[u]) = us[u]
    BY <1>4 DEF AfterLock
  <2>2. rlock' = rlock
    BY <1>2, <1>4 DEF locks
  <2> QED BY <1>1, <1>2, <1>3, <1>4, <2>1, <2>2 DEF Holds
<1>5. CASE ~Holds(u, r)
  <2>1. AfterLock(u, r, us[u]) = Forgets(us[u])
    BY <1>5 DEF AfterLock
  <2>2. /\ Forgets(us[u]) \in UserState
        /\ Forgets(us[u]).oldOf = -1 /\ ~Forgets(us[u]).valid /\ ~Forgets(us[u]).fresh
        /\ Forgets(us[u]).rec = us[u].rec /\ Forgets(us[u]).id = us[u].id /\ Forgets(us[u]).text = us[u].text
        /\ Forgets(us[u]).changed = us[u].changed /\ Forgets(us[u]).given = us[u].given
        /\ Forgets(us[u]).dirty = us[u].dirty /\ Forgets(us[u]).pc = us[u].pc /\ Forgets(us[u]).was = us[u].was
    BY <1>1, ForgetsIs
  <2> QED BY <1>2, <1>3, <1>5, <2>1, <2>2
<1> QED BY <1>4, <1>5

LEMMA GoKeeps ==
  ASSUME IInv, NEW u \in User, DoGo(u)
  PROVE  IInv'
<1>0. TypeOK /\ UserOK(u) /\ us[u] \in UserState
  BY OfEveryone DEF TypeOK
<1>1. PICK r \in DOMAIN data :
        CASE ~us[u].rlk  -> Me(u, RecordRead(us[u], r, Holds(u, r))) /\ UNCHANGED locks
          [] us[u].rlk /\ Free(u, r)  -> /\ Me(u, RecordRead(AfterLock(u, r, us[u]), r, TRUE))
                                         /\ TakesRecord(u, r)
          [] us[u].rlk /\ ~Free(u, r) -> Me(u, Reset(Forgets(us[u]))) /\ GivesAllBack(u)
  BY DEF DoGo
<1>2. us[u].pc = "idle" /\ ~us[u].dirty /\ UNCHANGED <<disk, said>>
  BY DEF DoGo, Clean, Idle
<1>3. data' = data
  BY <1>2 DEF disk
<1>4. /\ us[u].was = << >> /\ ~us[u].given /\ ~us[u].changed
      /\ us[u].oldOf # -1 => us[u].oldOf \in DOMAIN data /\ Holds(u, us[u].oldOf)
                             /\ us[u].old = data[us[u].oldOf].memo
  BY <1>0, <1>2, InNoCall
<1>5. data \in Seq(Record)
  BY <1>0, InBounds
<1>6. CASE ~us[u].rlk
  <2> DEFINE v == RecordRead(us[u], r, Holds(u, r))
  <2>1. us' = [us EXCEPT ![u] = v] /\ UNCHANGED locks
    BY <1>1, <1>6 DEF Me
  <2>2. us'[u] = v /\ Holds(u, r) \in BOOLEAN
    BY <1>0, <2>1 DEF TypeOK, Holds
  <2>3. v \in UserState /\ v.pc = "idle" /\ v.rec = r /\ v.id = data[r].memo
    BY <1>0, <1>2, <1>5, <2>2, RecordReadIs
  <2>4. us[u].oldOf # -1 => us[u].oldOf \in DOMAIN data /\ rlock'[us[u].oldOf] = u /\ us[u].old = data[us[u].oldOf].memo
    BY <1>4, <2>1 DEF locks, Holds
  <2>5. Holds(u, r) => rlock'[r] = u
    BY <2>1 DEF locks, Holds
  <2>6. UserOK(u)'
    BY <1>0, <1>2, <1>3, <1>4, <2>2, <2>4, <2>5, ReadingRecord
  <2>7. LockStep(u)
    BY <1>0, <2>1, LocksUnchanged
  <2> HIDE DEF v
  <2> QED BY <1>2, <2>1, <2>3, <2>6, <2>7, NotOver, Quiet
<1>7. CASE us[u].rlk /\ Free(u, r)
  <2> DEFINE x == AfterLock(u, r, us[u])
             v == RecordRead(x, r, TRUE)
  <2>1. us' = [us EXCEPT ![u] = v] /\ TakesRecord(u, r)
    BY <1>1, <1>7 DEF Me
  <2>2. us'[u] = v
    BY <1>0, <2>1 DEF TypeOK
  <2>3. /\ x \in UserState /\ x.pc = "idle" /\ x.was = << >>
        /\ x.oldOf # -1 => x.oldOf \in DOMAIN data /\ rlock'[x.oldOf] = u /\ x.old = data[x.oldOf].memo
        /\ LockStep(u) /\ rlock'[r] = u
    BY <1>0, <1>2, <1>7, <2>1, AfterLockIs DEF Holds
  <2> HIDE DEF x
  <2>4. v \in UserState /\ v.pc = "idle" /\ v.rec = r /\ v.id = data[r].memo
    BY <2>3, <1>5, RecordReadIs
  <2>5. UserOK(u)'
    BY <1>0, <1>3, <2>2, <2>3, ReadingRecord
  <2> HIDE DEF v
  <2> QED BY <1>2, <2>1, <2>3, <2>4, <2>5, NotOver, Quiet
<1>8. CASE us[u].rlk /\ ~Free(u, r)
  <2> DEFINE v == Reset(Forgets(us[u]))
  <2>1. us' = [us EXCEPT ![u] = v] /\ GivesAllBack(u)
    BY <1>1, <1>8 DEF Me
  <2>2. us'[u] = v
    BY <1>0, <2>1 DEF TypeOK
  <2>3. LockStep(u)
    BY <1>0, <2>1, GivingBack
  <2>4. v \in UserState /\ v.pc = "idle" /\ v.rec = us[u].rec /\ v.id = us[u].id
    BY <1>0, <1>2, ForgetsIs, ResetIs
  <2>5. UserOK(u)'
    BY <1>0, <1>2, <1>3, <2>2, ResetOK
  <2> HIDE DEF v
  <2> QED BY <1>2, <2>1, <2>3, <2>4, <2>5, NotOver, Quiet
<1> QED BY <1>6, <1>7, <1>8

LEMMA RefreshKeeps ==
  ASSUME IInv, NEW u \in User, DoRefresh(u)
  PROVE  IInv'
<1> DEFINE r == us[u].rec
           v == RecordRead(us[u], r, Holds(u, r))
<1>0. TypeOK /\ UserOK(u) /\ us[u] \in UserState
  BY OfEveryone DEF TypeOK
<1>1. us[u].pc = "idle" /\ r \in DOMAIN data /\ us' = [us EXCEPT ![u] = v] /\ UNCHANGED <<disk, said, locks>>
  BY DEF DoRefresh, Idle, On, Me
<1>2. us'[u] = v /\ Holds(u, r) \in BOOLEAN /\ data' = data
  BY <1>0, <1>1 DEF TypeOK, Holds, disk
<1>3. data \in Seq(Record)
  BY <1>0, InBounds
<1>4. v \in UserState /\ v.pc = "idle" /\ v.rec = r /\ v.id = data[r].memo
  BY <1>0, <1>1, <1>2, <1>3, RecordReadIs
<1>5. /\ us[u].oldOf # -1 => us[u].oldOf \in DOMAIN data /\ rlock'[us[u].oldOf] = u /\ us[u].old = data[us[u].oldOf].memo
      /\ us[u].was = << >> /\ (Holds(u, r) => rlock'[r] = u)
  BY <1>0, <1>1, InNoCall DEF locks, Holds
<1>6. UserOK(u)'
  BY <1>0, <1>1, <1>2, <1>5, ReadingRecord
<1>7. LockStep(u)
  BY <1>0, <1>1, LocksUnchanged
<1> HIDE DEF v
<1> QED BY <1>1, <1>4, <1>6, <1>7, NotOver, Quiet

LEMMA CloseKeeps ==
  ASSUME IInv, NEW u \in User, DoClose(u)
  PROVE  IInv'
<1> DEFINE v == Away(us[u].rlk)
<1>0. TypeOK /\ us[u].rlk \in BOOLEAN
  BY OfEveryone DEF TypeOK, UserState
<1>1. us[u].pc = "idle" /\ us' = [us EXCEPT ![u] = v] /\ GivesAllBack(u) /\ UNCHANGED <<disk, said>>
  BY DEF DoClose, Clean, Idle, Me
<1>2. us'[u] = v /\ data' = data
  BY <1>0, <1>1 DEF TypeOK, disk
<1>3. LockStep(u)
  BY <1>0, <1>1, GivingBack
<1>4. v \in UserState /\ v.pc = "idle" /\ v.id = 0
  BY <1>0, AwayIs DEF Away
<1>5. UserOK(u)'
  BY <1>0, <1>2, AtNone, InBounds
<1> HIDE DEF v
<1> QED BY <1>1, <1>3, <1>4, <1>5, NotOver, Quiet

LEMMA SizesAre ==
  ASSUME TypeOK, NEW id, id \in 0..MaxBlock
  PROVE  SizeAt(id) \in Nat /\ SizeAt(0) = 0
<1>1. CASE id = 0
  BY <1>1 DEF SizeAt
<1>2. CASE id # 0
  <2>1. id \in 1..MaxBlock
    BY <1>2, BoundAssumption
  <2>2. blocks[id].size \in Nat
    BY <2>1 DEF TypeOK
  <2> QED BY <1>2, <2>2 DEF SizeAt
<1> QED BY <1>1, <1>2

LEMMA LotInFile ==
  ASSUME TypeOK, NEW lot, NEW o, NEW i, NEW len, Lot(lot, o, i, len)
  PROVE  i \in 1..MaxBlock /\ i \in 1..(next - 1) /\ i + len <= next
<1>1. i \in 1..(next - 1) /\ i + len <= next
  BY DEF Lot
<1>2. next \in Nat /\ next <= MaxBlock + 1 /\ MaxBlock \in Nat
  BY BoundAssumption DEF TypeOK
<1> QED BY <1>1, <1>2

(* Memos in lots of their own fit when they are laid one after the other. *)
LEMMA LotsFit ==
  ASSUME TypeOK, NEW lot, NEW was \in Seq(Nat), Len(was) = Len(data), LotsOf(lot, was),
         NEW sizes, sizes = [r \in DOMAIN was |-> SizeAt(was[r])]
  PROVE  /\ sizes \in Seq(Nat) /\ Len(sizes) = Len(data) /\ DOMAIN sizes = DOMAIN data
         /\ \A r \in DOMAIN sizes : sizes[r] = SizeAt(was[r]) /\ sizes[r] \in Nat /\ was[r] \in 0..MaxBlock
         /\ \A r \in DOMAIN sizes : sizes[r] # 0 => was[r] # 0 /\ Lot(lot, r, was[r], sizes[r])
         /\ End(sizes) <= next /\ End(sizes) <= MaxBlock + 1 /\ End(sizes) \in Nat \ {0}
<1>0. /\ DOMAIN was = 1..Len(data) /\ Len(data) \in Nat /\ DOMAIN data = 1..Len(data)
      /\ next \in Nat \ {0} /\ next - 1 \in Nat /\ next <= MaxBlock + 1 /\ MaxBlock \in Nat
  BY BoundAssumption DEF TypeOK
<1>1. \A r \in DOMAIN data : was[r] # 0 => Lot(lot, r, was[r], blocks[was[r]].size) /\ was[r] \in 1..MaxBlock
  BY LotInFile DEF LotsOf
<1>2. \A r \in DOMAIN data : was[r] \in 0..MaxBlock
  <2>1. \A r \in DOMAIN data : was[r] = 0 \/ was[r] \in 1..MaxBlock
    BY <1>1
  <2> QED BY <1>0, <2>1
<1>3. \A r \in DOMAIN data : sizes[r] = SizeAt(was[r]) /\ sizes[r] \in Nat
  BY <1>0, <1>2, SizesAre
<1>4. sizes \in Seq(Nat) /\ Len(sizes) = Len(data) /\ DOMAIN sizes = DOMAIN data
  <2>1. sizes = [r \in 1..Len(data) |-> SizeAt(was[r])]
    BY <1>0
  <2>2. \A r \in 1..Len(data) : SizeAt(was[r]) \in Nat
    BY <1>0, <1>3
  <2> QED BY <1>0, <2>1, <2>2
<1>5. \A r \in DOMAIN data : sizes[r] # 0 => was[r] # 0 /\ Lot(lot, r, was[r], sizes[r])
  BY <1>1, <1>3 DEF SizeAt
<1> DEFINE m == next - 1
<1>6. End(sizes) <= m + 1
  <2>1. m \in Nat /\ m + 1 = next
    BY <1>0
  <2>2. ASSUME NEW r \in DOMAIN sizes, sizes[r] # 0
        PROVE  /\ was[r] \in 1..m /\ was[r] + sizes[r] <= m + 1
               /\ \A b \in was[r]..(was[r] + sizes[r] - 1) : lot[b] = <<r, was[r]>>
    <3>1. Lot(lot, r, was[r], sizes[r])
      BY <1>4, <1>5, <2>2
    <3> QED BY <2>1, <3>1 DEF Lot
  <2> HIDE DEF m
  <2>3. Fit(sizes, was, m, lot)
    BY <2>2 DEF Fit
  <2> QED BY <1>4, <2>1, <2>3, EndIsBound
<1>7. End(sizes) \in Nat \ {0}
  <2>1. Len(sizes) + 1 \in 1..(Len(sizes) + 1)
    BY <1>0, <1>4
  <2> QED BY <1>4, <2>1, StartsAre DEF End
<1> QED BY <1>0, <1>2, <1>3, <1>4, <1>5, <1>6, <1>7

(* Where a memo begins that is laid with the others. *)
LEMMA NumbersAre ==
  ASSUME NEW sizes \in Seq(Nat), End(sizes) <= MaxBlock + 1, NEW r \in DOMAIN sizes
  PROVE  /\ Numbers(sizes)[r] \in 0..MaxBlock
         /\ sizes[r] = 0 => Numbers(sizes)[r] = 0
         /\ sizes[r] # 0 => /\ Numbers(sizes)[r] = Starts(sizes)[r] /\ Numbers(sizes)[r] \in 1..MaxBlock
                            /\ Numbers(sizes)[r] + sizes[r] <= End(sizes)
<1>1. Numbers(sizes)[r] = IF sizes[r] = 0 THEN 0 ELSE Starts(sizes)[r]
  BY DEF Numbers
<1>2. sizes[r] \in Nat /\ MaxBlock \in Nat /\ r \in 1..Len(sizes) /\ Len(sizes) \in Nat
  BY BoundAssumption
<1>3. /\ Starts(sizes)[r] \in Nat \ {0} /\ Starts(sizes)[r + 1] = Starts(sizes)[r] + sizes[r]
      /\ Starts(sizes)[r + 1] <= End(sizes) /\ End(sizes) \in Nat
  <2>1. r \in 1..(Len(sizes) + 1) /\ r + 1 \in 1..(Len(sizes) + 1) /\ r + 1 <= Len(sizes) + 1
        /\ Len(sizes) + 1 \in 1..(Len(sizes) + 1)
    BY <1>2
  <2> QED BY <1>2, <2>1, StartsAre DEF End
<1>4. CASE sizes[r] = 0
  BY <1>1, <1>2, <1>4
<1>5. CASE sizes[r] # 0
  <2>1. \A a, n, e, m \in Nat : a # 0 /\ n # 0 /\ a + n <= e /\ e <= m + 1 => a \in 1..m /\ a \in 0..m
    OBVIOUS
  <2>2. Starts(sizes)[r] \in Nat /\ Starts(sizes)[r] # 0 /\ Starts(sizes)[r] + sizes[r] <= End(sizes)
    BY <1>3
  <2>3. Starts(sizes)[r] \in 1..MaxBlock /\ Starts(sizes)[r] \in 0..MaxBlock
    BY <1>2, <1>3, <1>5, <2>1, <2>2
  <2> QED BY <1>1, <1>5, <2>2, <2>3
<1> QED BY <1>4, <1>5

(* Every number a record has, or a user, is a block's. *)
LEMMA IdsAre ==
  ASSUME IInv
  PROVE  /\ \A r \in DOMAIN data : data[r].memo \in 0..MaxBlock
         /\ \A u \in User : us[u].pc # "replace" => us[u].id \in 0..MaxBlock
<1>0. TypeOK /\ LotsOK /\ (\A w \in User : UserOK(w) /\ ReplaceOK(w)) /\ MaxBlock \in Nat
  BY OfEveryone, BoundAssumption
<1>1. CASE Whole
  <2>1. PICK lot : LotsOf(lot, Memos) /\ \A w \in User : LotsOfUser(lot, w)
    BY <1>0, <1>1 DEF LotsOK
  <2>2. \A w \in User : us[w].id = 0 \/ us[w].id \in 1..MaxBlock
    BY <1>0, <2>1, LotInFile DEF LotsOfUser
  <2>3. \A r \in DOMAIN data : data[r].memo = 0 \/ data[r].memo \in 1..MaxBlock
    BY <1>0, <2>1, LotInFile DEF LotsOf, Memos
  <2>4. \A i : i = 0 \/ i \in 1..MaxBlock => i \in 0..MaxBlock
    BY <1>0
  <2> QED BY <2>2, <2>3, <2>4
<1>2. CASE ~Whole
  <2>1. PICK w \in User : us[w].pc = "replace"
    BY <1>2 DEF Whole
  <2> DEFINE sizes == [r \in DOMAIN us[w].was |-> SizeAt(us[w].was[r])]
  <2>2. /\ Len(us[w].was) = Len(data)
        /\ \A r \in DOMAIN data : data[r].memo = Numbers(sizes)[r]
        /\ \E lot : LotsOf(lot, us[w].was)
        /\ \A x \in User \ {w} : us[x].pc \in {"idle", "reading"} /\ (us[x].id # 0 => us[x].id = data[us[x].rec].memo)
    BY <1>0, <2>1 DEF ReplaceOK
  <2>3. us[w].was \in Seq(Nat)
    BY <1>0 DEF TypeOK, UserState
  <2>4. sizes \in Seq(Nat) /\ DOMAIN sizes = DOMAIN data /\ End(sizes) <= MaxBlock + 1
    BY <1>0, <2>2, <2>3, LotsFit
  <2> HIDE DEF sizes
  <2>5. \A r \in DOMAIN data : data[r].memo \in 0..MaxBlock
    BY <2>2, <2>4, NumbersAre
  <2>6. \A u \in User : us[u].pc # "replace" => us[u].id \in 0..MaxBlock
    <3> SUFFICES ASSUME NEW u \in User, us[u].pc # "replace", us[u].id # 0 PROVE us[u].id \in 0..MaxBlock
      BY <1>0
    <3>1. us[u].id = data[us[u].rec].memo /\ us[u].pc \in {"idle", "reading"}
      BY <2>1, <2>2
    <3>2. us[u].rec # -1
      BY <1>0, Whereabouts
    <3>3. us[u].rec # 0
      BY <1>0, <3>1 DEF UserOK, AwayOK
    <3>4. us[u].rec \in DOMAIN data
      BY <1>0, <3>2, <3>3, Whereabouts, InBounds
    <3> QED BY <2>5, <3>1, <3>4
  <2> QED BY <2>5, <2>6
<1> QED BY <1>1, <1>2

LEMMA StaysOnDisk ==
  ASSUME blocks' = blocks
  PROVE  \A id : SizeAt(id)' = SizeAt(id) /\ MemoAt(id)' = MemoAt(id)
BY DEF MemoAt, SizeAt, TextAt

LEMMA NoMemo == MemoAt(0) = Empty
<1>1. SizeAt(0) = 0
  BY DEF SizeAt
<1>2. TextAt(0, 0) = Empty
  BY DEF TextAt
<1> QED BY <1>1, <1>2 DEF MemoAt

(* A memo begins to be read, of a copy that is of a record of the file. *)
LEMMA BeginningToRead ==
  ASSUME TypeOK, NEW u \in User, NEW x \in UserState, x.id \in 0..MaxBlock,
         us'[u] = Reads(x), data' = data, blocks' = blocks, said' = said,
         x.pc = "idle", x.was = << >>, x.rec \in DOMAIN data, x.text = Unread, ~x.changed,
         x.given => x.id = 0 /\ x.valid /\ x.dirty,
         x.valid \/ x.fresh => rlock'[x.rec] = u /\ (~x.given => x.id = data[x.rec].memo),
         x.oldOf # -1 => x.oldOf \in DOMAIN data /\ rlock'[x.oldOf] = u /\ x.old = data[x.oldOf].memo,
         x.fresh /\ ~x.given => said[x.rec] \in {Unknown, MemoAt(x.id)}
  PROVE  UserOK(u)'
<1>0. SizeAt(x.id) \in Nat /\ MemoAt(0) = Empty
  BY SizesAre, NoMemo
<1>1. x.rec \in Nat \ {0} /\ x.rec > 0 /\ x.rec # 0 /\ x.rec \in Nat /\ x.rec <= Len(data)
  BY InBounds
<1>2. /\ ~us'[u].changed
      /\ x.id = 0 => us'[u].text = Empty /\ us'[u].pc = "idle"
      /\ x.id # 0 => us'[u].text = Unread /\ us'[u].pc = "reading" /\ us'[u].n = SizeAt(x.id)
      /\ us'[u].rec = x.rec /\ us'[u].id = x.id /\ us'[u].given = x.given
      /\ us'[u].dirty = x.dirty /\ us'[u].valid = x.valid /\ us'[u].fresh = x.fresh
      /\ us'[u].oldOf = x.oldOf /\ us'[u].old = x.old /\ us'[u].was = << >>
  BY <1>0, ReadsIs
<1>3. us'[u].valid \/ us'[u].fresh => Holds(u, us[u].rec)'
  BY <1>2 DEF Holds
<1>4. us'[u].oldOf # -1 => /\ us'[u].oldOf \in DOMAIN data' /\ Holds(u, us[u].oldOf)'
                           /\ us'[u].old = data'[us'[u].oldOf].memo
  BY <1>2 DEF Holds
<1>5. CASE x.id = 0
  BY <1>0, <1>1, <1>2, <1>3, <1>4, <1>5, AtRest
<1>6. CASE x.id # 0
  <2>1. SizeAt(us[u].id)' = SizeAt(x.id)
    BY <1>2, StaysOnDisk DEF SizeAt
  <2> QED BY <1>1, <1>2, <1>3, <1>4, <1>6, <2>1, AtReading
<1> QED BY <1>5, <1>6

LEMMA ReadMemoKeeps ==
  ASSUME IInv, Careless = {}, NEW u \in User, DoReadMemo(u)
  PROVE  IInv'
<1> DEFINE r == us[u].rec
<1>0. TypeOK /\ UserOK(u) /\ us[u] \in UserState /\ us[u].rec \in Int
  BY OfEveryone, Whereabouts DEF TypeOK
<1>1. /\ us[u].pc = "idle" /\ r \in DOMAIN data /\ us[u].text = Unread /\ UNCHANGED <<disk, said>>
      /\ CASE ~us[u].rlk \/ us[u].valid -> Me(u, Reads(us[u])) /\ UNCHANGED locks
           [] us[u].rlk /\ ~us[u].valid /\ Free(u, r) ->
                /\ us[u].dirty => /\ "read changed" \in Careless
                                  /\ Holds(u, r) \/ ~HoldsAny(u)
                /\ Me(u, Reads(Validated(AfterLock(u, r, us[u])))) /\ TakesRecord(u, r)
           [] us[u].rlk /\ ~us[u].valid /\ ~Free(u, r) ->
                /\ us[u].dirty => ~HoldsAny(u)
                /\ Me(u, Reads(Forgets(us[u]))) /\ GivesAllBack(u)
  BY DEF DoReadMemo, Idle, On
<1>2. data' = data /\ blocks' = blocks /\ said' = said
  BY <1>1 DEF disk
<1>3. us[u].id \in 0..MaxBlock /\ data[r].memo \in 0..MaxBlock
  BY <1>1, IdsAre
<1>4. data \in Seq(Record)
  BY <1>0, InBounds
<1>5. /\ us[u].was = << >> /\ ~us[u].changed
      /\ us[u].given => us[u].id = 0 /\ us[u].valid /\ us[u].dirty
      /\ us[u].oldOf # -1 => us[u].oldOf \in DOMAIN data /\ Holds(u, us[u].oldOf) /\ us[u].old = data[us[u].oldOf].memo
      /\ us[u].valid \/ us[u].fresh => Holds(u, r) /\ (~us[u].given => us[u].id = data[r].memo)
  <2>1. ~us[u].changed
    BY <1>0, <1>1, InNoCall, NameAssumption DEF Unread, Empty
  <2> QED BY <1>0, <1>1, <2>1, InNoCall
<1>6. CASE ~us[u].rlk \/ us[u].valid
  <2> DEFINE v == Reads(us[u])
  <2>1. us' = [us EXCEPT ![u] = v] /\ UNCHANGED locks
    BY <1>1, <1>6 DEF Me
  <2>2. us'[u] = v /\ rlock' = rlock
    BY <1>0, <2>1 DEF TypeOK, locks
  <2>3. v \in UserState /\ v.pc \in {"idle", "reading"} /\ v.rec = r /\ v.id = us[u].id
    BY <1>0, <1>1, <1>3, SizesAre, ReadsIs
  <2>4. us[u].fresh /\ ~us[u].given => said[r] \in {Unknown, MemoAt(us[u].id)}
    <3> SUFFICES ASSUME us[u].fresh, ~us[u].given PROVE said[r] \in {Unknown, MemoAt(us[u].id)}
      OBVIOUS
    <3>1. Free(u, r)
      BY <1>5 DEF Free, Holds
    <3>2. said[r] \in {Unknown, MemoAt(data[r].memo)}
      BY <1>1, <3>1, TrueUnderLock
    <3> QED BY <1>5, <3>2
  <2>5. /\ us[u].valid \/ us[u].fresh => rlock'[r] = u /\ (~us[u].given => us[u].id = data[r].memo)
        /\ us[u].oldOf # -1 => us[u].oldOf \in DOMAIN data /\ rlock'[us[u].oldOf] = u /\ us[u].old = data[us[u].oldOf].memo
    BY <1>5, <2>2 DEF Holds
  <2>6. UserOK(u)'
    BY <1>0, <1>1, <1>2, <1>3, <1>5, <2>2, <2>4, <2>5, BeginningToRead
  <2>7. LockStep(u)
    BY <1>0, <2>1, LocksUnchanged
  <2> HIDE DEF v
  <2> QED BY <1>1, <2>1, <2>3, <2>6, <2>7, NotOver, Quiet
<1>7. CASE us[u].rlk /\ ~us[u].valid /\ Free(u, r)
  <2> DEFINE y == AfterLock(u, r, us[u])
             x == Validated(y)
             v == Reads(x)
  <2>1. us' = [us EXCEPT ![u] = v] /\ TakesRecord(u, r) /\ ~us[u].dirty
    BY <1>1, <1>7 DEF Me
  <2>2. us'[u] = v /\ ~us[u].given
    BY <1>0, <1>5, <2>1 DEF TypeOK
  <2>3. /\ y \in UserState /\ y.rec = r /\ y.text = Unread /\ ~y.changed /\ ~y.given /\ ~y.dirty
        /\ y.pc = "idle" /\ y.was = << >> /\ ~y.valid
        /\ y.oldOf # -1 => y.oldOf \in DOMAIN data /\ rlock'[y.oldOf] = u /\ y.old = data[y.oldOf].memo
        /\ LockStep(u) /\ rlock'[r] = u
    BY <1>0, <1>1, <1>5, <1>7, <2>1, <2>2, AfterLockIs DEF Holds
  <2> HIDE DEF y
  <2>4. y.oldOf = y.rec => y.old = data[y.rec].memo
    BY <1>1, <1>0, <2>3, InBounds
  <2>5. /\ x \in UserState /\ x.rec = r /\ x.text = Unread /\ ~x.changed /\ ~x.given /\ x.valid /\ x.fresh
        /\ x.pc = "idle" /\ x.was = << >> /\ x.oldOf = r /\ x.old = data[r].memo /\ x.id = data[r].memo
    BY <1>1, <1>4, <2>3, <2>4, ValidatedIs
  <2> HIDE DEF x
  <2>6. v \in UserState /\ v.pc \in {"idle", "reading"} /\ v.rec = r /\ v.id = data[r].memo
    BY <1>0, <1>3, <2>5, SizesAre, ReadsIs
  <2>7. said[r] \in {Unknown, MemoAt(x.id)}
    BY <1>1, <1>7, <2>5, TrueUnderLock
  <2>8. UserOK(u)'
    BY <1>0, <1>1, <1>2, <1>3, <2>2, <2>3, <2>5, <2>7, BeginningToRead
  <2> HIDE DEF v
  <2> QED BY <1>1, <2>1, <2>3, <2>6, <2>8, NotOver, Quiet
<1>8. CASE us[u].rlk /\ ~us[u].valid /\ ~Free(u, r)
  <2> DEFINE x == Forgets(us[u])
             v == Reads(x)
  <2>1. us' = [us EXCEPT ![u] = v] /\ GivesAllBack(u)
    BY <1>1, <1>8 DEF Me
  <2>2. us'[u] = v /\ ~us[u].given
    BY <1>0, <1>5, <1>8, <2>1 DEF TypeOK
  <2>3. /\ x \in UserState /\ x.rec = r /\ x.id = us[u].id /\ x.text = Unread /\ ~x.changed /\ ~x.given
        /\ ~x.valid /\ ~x.fresh /\ x.pc = "idle" /\ x.was = << >> /\ x.oldOf = -1
    BY <1>0, <1>1, <1>5, <2>2, ForgetsIs
  <2> HIDE DEF x
  <2>4. v \in UserState /\ v.pc \in {"idle", "reading"} /\ v.rec = r /\ v.id = us[u].id
    BY <1>0, <1>3, <2>3, SizesAre, ReadsIs
  <2>5. UserOK(u)'
    BY <1>0, <1>1, <1>2, <1>3, <2>2, <2>3, BeginningToRead
  <2>6. LockStep(u)
    BY <1>0, <2>1, GivingBack
  <2> HIDE DEF v
  <2> QED BY <1>1, <2>1, <2>4, <2>5, <2>6, NotOver, Quiet
<1> QED BY <1>6, <1>7, <1>8

LEMMA ReadTextKeeps ==
  ASSUME IInv, NEW u \in User, ReadText(u)
  PROVE  IInv'
<1> DEFINE t == TextAt(us[u].id, us[u].n)
           v == [us[u] EXCEPT !.text = t, !.pc = "idle", !.n = 0]
<1>0. TypeOK /\ UserOK(u) /\ us[u] \in UserState
  BY OfEveryone DEF TypeOK
<1>1. us[u].pc = "reading" /\ us' = [us EXCEPT ![u] = v] /\ UNCHANGED <<disk, locks, said>>
  BY DEF ReadText, Me
<1>2. us'[u] = v /\ data' = data /\ rlock' = rlock /\ said' = said
  BY <1>0, <1>1 DEF TypeOK, disk, locks
<1>3. t \in Said
  BY TextIs
<1> HIDE DEF t
<1>4. /\ v \in UserState /\ v.text = t /\ v.pc = "idle" /\ v.rec = us[u].rec /\ v.id = us[u].id
      /\ v.given = us[u].given /\ v.changed = us[u].changed /\ v.valid = us[u].valid /\ v.fresh = us[u].fresh
      /\ v.oldOf = us[u].oldOf /\ v.old = us[u].old /\ v.was = us[u].was
  BY <1>0, <1>3 DEF UserState, Codes
<1> HIDE DEF v
<1>5. /\ ~us[u].given /\ ~us[u].changed /\ us[u].was = << >>
      /\ us[u].rec \in DOMAIN data /\ us[u].rec \in Nat \ {0} /\ us[u].rec <= Len(data)
  <2>1. ~us[u].given /\ ~us[u].changed
    BY <1>0, <1>1 DEF UserOK, MarksOK
  <2>2. us[u].was = << >> /\ us[u].rec # 0
    BY <1>0, <1>1 DEF UserOK, AwayOK
  <2>3. us[u].rec # -1
    BY <1>0, <1>1, Whereabouts
  <2> QED BY <1>0, <2>1, <2>2, <2>3, Whereabouts, InBounds
<1>6. us[u].valid \/ us[u].fresh => Holds(u, us[u].rec) /\ us[u].id = data[us[u].rec].memo
  BY <1>0, <1>1, <1>5, Whereabouts DEF UserOK, KnownOK
<1>7. us[u].oldOf # -1 => us[u].oldOf \in DOMAIN data /\ Holds(u, us[u].oldOf) /\ us[u].old = data[us[u].oldOf].memo
  BY <1>0, <1>1, Whereabouts DEF UserOK, KnownOK
<1>8. us[u].fresh => said[us[u].rec] \in {Unknown, t}
  <2> SUFFICES ASSUME us[u].fresh PROVE said[us[u].rec] \in {Unknown, t}
    OBVIOUS
  <2>1. us[u].n = SizeAt(us[u].id)
    BY <1>0, <1>1, <1>5 DEF UserOK, ReadOK
  <2>2. Free(u, us[u].rec)
    BY <1>6 DEF Free, Holds
  <2>3. said[us[u].rec] \in {Unknown, MemoAt(data[us[u].rec].memo)}
    BY <1>1, <1>5, <2>2, TrueUnderLock
  <2> QED BY <1>6, <2>1, <2>3 DEF MemoAt, t
<1>9. UserOK(u)'
  <2>1. us'[u].rec \in Nat /\ us'[u].rec > 0 /\ us'[u].rec # 0 /\ us'[u].rec <= Len(data')
    BY <1>2, <1>4, <1>5
  <2>2. us'[u].valid \/ us'[u].fresh => Holds(u, us[u].rec)' /\ us'[u].id = data'[us'[u].rec].memo
    BY <1>2, <1>4, <1>6 DEF Holds
  <2>3. us'[u].oldOf # -1 => /\ us'[u].oldOf \in DOMAIN data' /\ Holds(u, us[u].oldOf)'
                             /\ us'[u].old = data'[us'[u].oldOf].memo
    BY <1>2, <1>4, <1>7 DEF Holds
  <2>4. /\ us'[u].pc = "idle" /\ us'[u].was = << >> /\ ~us'[u].given /\ ~us'[u].changed
        /\ us'[u].fresh => said'[us'[u].rec] \in {Unknown, us'[u].text}
    BY <1>2, <1>4, <1>5, <1>8
  <2> QED BY <2>1, <2>2, <2>3, <2>4, AtRest
<1>10. LockStep(u)
  BY <1>0, <1>1, LocksUnchanged
<1> QED BY <1>1, <1>4, <1>9, <1>10, NotOver, Quiet

------------------------------------------------------------------------------
(* The calls that change the copy of a record. *)

LEMMA AssignKeeps ==
  ASSUME IInv, NEW u \in User, DoAssign(u)
  PROVE  IInv'
<1>0. TypeOK /\ UserOK(u) /\ us[u] \in UserState /\ us[u].rec \in Int
  BY OfEveryone, Whereabouts DEF TypeOK
<1>1. PICK t \in Text \cup {Empty} : us' = [us EXCEPT ![u] = Given(us[u], t)]
  BY DEF DoAssign, Me
<1>2. /\ us[u].pc = "idle" /\ (us[u].rec \in DOMAIN data \/ us[u].rec = 0) /\ UNCHANGED <<disk, locks, said>>
  BY DEF DoAssign, Idle, On
<1> DEFINE v == Given(us[u], t)
<1>3. us'[u] = v /\ data' = data /\ rlock' = rlock
  BY <1>0, <1>1, <1>2 DEF TypeOK, disk, locks
<1>4. t \in Said /\ t # Unread
  BY NameAssumption DEF Said, Unread, Empty
<1>5. /\ v \in UserState /\ v.text = t /\ v.pc = "idle" /\ v.rec = us[u].rec /\ v.id = us[u].id
      /\ v.given /\ v.changed /\ v.dirty /\ v.valid = us[u].valid /\ v.fresh = us[u].fresh
      /\ v.oldOf = us[u].oldOf /\ v.old = us[u].old /\ v.was = us[u].was
  BY <1>0, <1>2, <1>4 DEF UserState, Given
<1> HIDE DEF v
<1>6. /\ us[u].was = << >> /\ us[u].rec \in Nat /\ us[u].rec <= Len(data)
      /\ us[u].rec = 0 => us[u].id = 0 /\ us[u].oldOf = -1 /\ ~us[u].valid /\ ~us[u].fresh
      /\ us[u].oldOf # -1 => us[u].oldOf \in DOMAIN data /\ Holds(u, us[u].oldOf) /\ us[u].old = data[us[u].oldOf].memo
      /\ us[u].valid \/ us[u].fresh => Holds(u, us[u].rec)
  BY <1>0, <1>2, InNoCall, InBounds
<1>7. us[u].rec # 0 => us[u].rec > 0
  BY <1>6
<1>8. UserOK(u)'
  <2>1. us'[u].oldOf # -1 => /\ us'[u].rec # 0 /\ us'[u].oldOf \in DOMAIN data' /\ Holds(u, us[u].oldOf)'
                             /\ us'[u].old = data'[us'[u].oldOf].memo
    BY <1>3, <1>5, <1>6 DEF Holds
  <2>2. us'[u].valid \/ us'[u].fresh => us'[u].rec > 0 /\ Holds(u, us[u].rec)'
    BY <1>3, <1>5, <1>6, <1>7 DEF Holds
  <2> QED BY <1>3, <1>5, <1>6, <2>1, <2>2, AtRest
<1>9. LockStep(u)
  BY <1>0, <1>2, LocksUnchanged
<1> QED BY <1>1, <1>2, <1>5, <1>8, <1>9, NotOver, Quiet DEF v

LEMMA MarkKeeps ==
  ASSUME IInv, NEW u \in User, DoMark(u)
  PROVE  IInv'
<1>0. TypeOK /\ UserOK(u) /\ us[u] \in UserState /\ us[u].rec \in Int
  BY OfEveryone, Whereabouts DEF TypeOK
<1> DEFINE other == ~us[u].live
           v == [us[u] EXCEPT !.live = other, !.dirty = TRUE]
<1>1. /\ us[u].pc = "idle" /\ us[u].rec \in DOMAIN data /\ ~us[u].dirty
      /\ us' = [us EXCEPT ![u] = v] /\ UNCHANGED <<disk, locks, said>>
  BY DEF DoMark, Idle, On, Me, other
<1>2. us'[u] = v /\ data' = data /\ rlock' = rlock /\ said' = said
  BY <1>0, <1>1 DEF TypeOK, disk, locks
<1>3. /\ v \in UserState /\ v.text = us[u].text /\ v.pc = "idle" /\ v.rec = us[u].rec /\ v.id = us[u].id
      /\ v.given = us[u].given /\ v.changed = us[u].changed /\ v.dirty /\ v.valid = us[u].valid
      /\ v.fresh = us[u].fresh /\ v.oldOf = us[u].oldOf /\ v.old = us[u].old /\ v.was = us[u].was
  <2>1. other \in BOOLEAN
    BY DEF other
  <2> HIDE DEF other
  <2> QED BY <1>0, <1>1, <2>1 DEF UserState
<1> HIDE DEF v
<1>4. /\ us[u].was = << >> /\ us[u].rec \in Nat /\ us[u].rec <= Len(data) /\ us[u].rec > 0 /\ us[u].rec # 0
      /\ us[u].oldOf # -1 => us[u].oldOf \in DOMAIN data /\ Holds(u, us[u].oldOf) /\ us[u].old = data[us[u].oldOf].memo
      /\ us[u].valid \/ us[u].fresh => Holds(u, us[u].rec) /\ (~us[u].given => us[u].id = data[us[u].rec].memo)
      /\ ~us[u].given /\ ~us[u].changed
      /\ us[u].fresh /\ us[u].text # Unread => said[us[u].rec] \in {Unknown, us[u].text}
  BY <1>0, <1>1, InNoCall, InBounds
<1>5. UserOK(u)'
  <2>1. us'[u].oldOf # -1 => /\ us'[u].rec # 0 /\ us'[u].oldOf \in DOMAIN data' /\ Holds(u, us[u].oldOf)'
                             /\ us'[u].old = data'[us'[u].oldOf].memo
    BY <1>2, <1>3, <1>4 DEF Holds
  <2>2. us'[u].valid \/ us'[u].fresh => us'[u].rec > 0 /\ Holds(u, us[u].rec)' /\ us'[u].id = data'[us'[u].rec].memo
    BY <1>2, <1>3, <1>4 DEF Holds
  <2> QED BY <1>2, <1>3, <1>4, <2>1, <2>2, AtRest
<1>6. LockStep(u)
  BY <1>0, <1>1, LocksUnchanged
<1> QED BY <1>1, <1>3, <1>5, <1>6, NotOver, Quiet

LEMMA BlankKeeps ==
  ASSUME IInv, Careless = {}, NEW u \in User, DoBlank(u)
  PROVE  IInv'
<1>0. TypeOK /\ UserOK(u) /\ us[u] \in UserState /\ us[u].rec \in Int
  BY OfEveryone, Whereabouts DEF TypeOK
<1> DEFINE v == [us[u] EXCEPT !.id = 0, !.live = TRUE, !.text = Unread, !.valid = TRUE,
                              !.dirty = TRUE, !.given = TRUE]
<1>1. /\ us[u].pc = "idle" /\ us[u].rec \in DOMAIN data /\ ~us[u].dirty /\ Holds(u, us[u].rec)
      /\ us' = [us EXCEPT ![u] = v] /\ UNCHANGED <<disk, locks, said>>
  BY DEF DoBlank, Clean, Idle, On, Me
<1>2. us'[u] = v /\ data' = data /\ rlock' = rlock
  BY <1>0, <1>1 DEF TypeOK, disk, locks
<1>3. /\ v \in UserState /\ v.text = Unread /\ v.pc = "idle" /\ v.rec = us[u].rec /\ v.id = 0
      /\ v.given /\ v.changed = us[u].changed /\ v.dirty /\ v.valid
      /\ v.oldOf = us[u].oldOf /\ v.old = us[u].old /\ v.was = us[u].was
  BY <1>0, <1>1 DEF UserState, Said
<1> HIDE DEF v
<1>4. /\ us[u].was = << >> /\ us[u].rec \in Nat /\ us[u].rec <= Len(data) /\ us[u].rec > 0 /\ us[u].rec # 0
      /\ us[u].oldOf # -1 => us[u].oldOf \in DOMAIN data /\ Holds(u, us[u].oldOf) /\ us[u].old = data[us[u].oldOf].memo
      /\ ~us[u].changed
  BY <1>0, <1>1, InNoCall, InBounds
<1>5. UserOK(u)'
  <2>1. us'[u].oldOf # -1 => /\ us'[u].rec # 0 /\ us'[u].oldOf \in DOMAIN data' /\ Holds(u, us[u].oldOf)'
                             /\ us'[u].old = data'[us'[u].oldOf].memo
    BY <1>2, <1>3, <1>4 DEF Holds
  <2>2. us'[u].rec > 0 /\ Holds(u, us[u].rec)' /\ us'[u].id = 0 /\ us'[u].given
    BY <1>1, <1>2, <1>3, <1>4 DEF Holds
  <2> QED BY <1>2, <1>3, <1>4, <2>1, <2>2, AtRest
<1>6. LockStep(u)
  BY <1>0, <1>1, LocksUnchanged
<1> QED BY <1>1, <1>3, <1>5, <1>6, NotOver, Quiet

------------------------------------------------------------------------------
(* The steps of a write that leave the disk alone. *)

LEMMA AtWriting ==
  ASSUME NEW u \in User, us'[u].pc \in Writes, us'[u].was = << >>, us'[u].rec \in Nat, us'[u].rec <= Len(data'),
         Own(u)' <= MaxRec, rlock'[Own(u)'] = u, us'[u].rec = 0 => alock' = u,
         us'[u].rec = 0 => /\ us'[u].oldOf = -1 /\ ~us'[u].valid /\ ~us'[u].fresh /\ us'[u].pc # "place"
                           /\ us'[u].pc # "store" => us'[u].id = 0
                           /\ ~us'[u].changed,
         us'[u].pc = "extend" => /\ mlock' = u /\ us'[u].n = next'
                                 /\ next' + Length(us'[u].text) <= MaxBlock + 1,
         us'[u].oldOf # -1 => /\ us'[u].oldOf \in DOMAIN data' /\ rlock'[us'[u].oldOf] = u
                              /\ us'[u].old = data'[us'[u].oldOf].memo,
         (us'[u].valid \/ us'[u].fresh) /\ ~us'[u].given => us'[u].id = data'[us'[u].rec].memo,
         us'[u].changed => us'[u].given /\ us'[u].text \in Text \cup {Empty},
         us'[u].given => us'[u].text \in Text \cup {Empty, Unread},
         us'[u].rec > 0 => us'[u].given \/ us'[u].valid,
         us'[u].pc # "store" => /\ us'[u].rec > 0 => us'[u].given
                                /\ us'[u].text \in Text \cup {Empty} /\ (us'[u].pc # "place" => us'[u].text \in Text),
         TextOK(u)'
  PROVE  UserOK(u)'
<1>0. us'[u].rec # -1 /\ us'[u].pc \notin {"idle", "reading", "replace"}
  BY DEF Writes
<1>1. us'[u].rec # 0 => us'[u].rec > 0 /\ Own(u)' = us'[u].rec
  BY DEF Own
<1>2. AwayOK(u)'
  BY <1>0 DEF AwayOK
<1>3. LocksOK(u)'
  <2>1. us'[u].valid \/ us'[u].fresh => us'[u].rec > 0 /\ rlock'[us'[u].rec] = u
    BY <1>1
  <2> QED BY <2>1 DEF LocksOK, Holds, Length
<1>4. KnownOK(u)'
  BY DEF KnownOK
<1>5. MarksOK(u)'
  BY <1>0 DEF MarksOK, Writes
<1>6. ReadOK(u)'
  BY <1>0 DEF ReadOK
<1> QED BY <1>2, <1>3, <1>4, <1>5, <1>6 DEF UserOK

LEMMA InWriting ==
  ASSUME TypeOK, NEW u \in User, UserOK(u), us[u].pc \in Writes
  PROVE  /\ us[u] \in UserState /\ us[u].was = << >> /\ us[u].rec \in Nat /\ us[u].rec <= Len(data)
         /\ Own(u) <= MaxRec /\ Own(u) \in 1..MaxRec /\ rlock[Own(u)] = u /\ (us[u].rec = 0 => alock = u)
         /\ us[u].rec = 0 => /\ us[u].oldOf = -1 /\ ~us[u].valid /\ ~us[u].fresh /\ us[u].pc # "place"
                             /\ us[u].pc # "store" => us[u].id = 0
                          /\ ~us[u].changed
                             /\ ~us[u].changed
         /\ us[u].rec # 0 => us[u].rec \in DOMAIN data /\ us[u].rec > 0 /\ Own(u) = us[u].rec
         /\ us[u].pc = "extend" => /\ mlock = u /\ us[u].n = next
                                   /\ next + Length(us[u].text) <= MaxBlock + 1
         /\ us[u].oldOf # -1 => /\ us[u].oldOf \in DOMAIN data /\ rlock[us[u].oldOf] = u
                                /\ us[u].old = data[us[u].oldOf].memo
         /\ (us[u].valid \/ us[u].fresh) /\ ~us[u].given => us[u].id = data[us[u].rec].memo
         /\ us[u].changed => us[u].given /\ us[u].text \in Text \cup {Empty}
         /\ us[u].given => us[u].text \in Text \cup {Empty, Unread}
         /\ us[u].rec > 0 => us[u].given \/ us[u].valid
         /\ us[u].pc # "store" => /\ us[u].rec > 0 => us[u].given
                                  /\ us[u].text \in Text \cup {Empty} /\ (us[u].pc # "place" => us[u].text \in Text)
         /\ us[u].id \in Nat /\ us[u].n \in Nat /\ us[u].text \in Said \cup {Unread}
<1>1. us[u] \in UserState /\ us[u].id \in Nat /\ us[u].n \in Nat /\ us[u].text \in Said \cup {Unread}
  BY DEF TypeOK, UserState
<1>2. us[u].rec \in {-1} \cup (0..Len(data)) /\ Own(u) \in 1..MaxRec /\ Holds(u, Own(u)) /\ us[u].rec # -1
  BY Whereabouts
<1>3. us[u].pc \notin {"idle", "reading", "replace"}
  BY DEF Writes
<1>4. us[u].rec \in Nat /\ us[u].rec <= Len(data) /\ Own(u) <= MaxRec /\ rlock[Own(u)] = u
  BY <1>2, InBounds DEF Holds
<1>5. us[u].rec # 0 => us[u].rec \in DOMAIN data /\ us[u].rec > 0 /\ Own(u) = us[u].rec
  BY <1>4, InBounds DEF Own
<1>6. /\ us[u].was = << >>
      /\ us[u].rec = 0 => /\ us[u].oldOf = -1 /\ ~us[u].valid /\ ~us[u].fresh /\ us[u].pc # "place"
                          /\ us[u].pc # "store" => us[u].id = 0
                          /\ ~us[u].changed
  BY <1>3 DEF UserOK, AwayOK
<1>7. /\ us[u].rec = 0 => alock = u
      /\ us[u].pc = "extend" => mlock = u /\ us[u].n = next /\ next + Length(us[u].text) <= MaxBlock + 1
      /\ us[u].oldOf # -1 => us[u].oldOf \in DOMAIN data /\ rlock[us[u].oldOf] = u
  BY DEF UserOK, LocksOK, Holds
<1>8. /\ us[u].oldOf # -1 => us[u].old = data[us[u].oldOf].memo
      /\ (us[u].valid \/ us[u].fresh) /\ ~us[u].given => us[u].id = data[us[u].rec].memo
  BY <1>3 DEF UserOK, KnownOK
<1>9. /\ us[u].changed => us[u].given /\ us[u].text \in Text \cup {Empty}
      /\ us[u].given => us[u].text \in Text \cup {Empty, Unread}
      /\ us[u].rec > 0 => us[u].given \/ us[u].valid
      /\ us[u].pc # "store" => /\ us[u].rec > 0 => us[u].given
                               /\ us[u].text \in Text \cup {Empty} /\ (us[u].pc # "place" => us[u].text \in Text)
  BY DEF UserOK, MarksOK, Writes
<1> QED BY <1>1, <1>2, <1>4, <1>5, <1>6, <1>7, <1>8, <1>9

LEMMA LengthsAre ==
  ASSUME NEW t
  PROVE  /\ Length(t) \in Nat
         /\ t \in Text => Length(t) = Size[t] /\ Length(t) > 0 /\ Length(t) # 0
         /\ t \notin Text => Length(t) = 0
BY SizeAssumption DEF Length

LEMMA WriteKeeps ==
  ASSUME IInv, NEW u \in User, DoWrite(u)
  PROVE  IInv'
<1> DEFINE r == us[u].rec
<1>0. TypeOK /\ UserOK(u) /\ us[u] \in UserState /\ us[u].rec \in Int
  BY OfEveryone, Whereabouts DEF TypeOK
<1>1. /\ us[u].pc = "idle" /\ r \in DOMAIN data /\ us[u].dirty /\ UNCHANGED <<disk, said>>
      /\ IF Free(u, r)
         THEN /\ TakesRecord(u, r)
              /\ Me(u, [Validated([AfterLock(u, r, us[u]) EXCEPT !.dirty = FALSE])
                          EXCEPT !.old = 0, !.oldOf = -1, !.pc = IF us[u].changed THEN "place" ELSE "store"])
         ELSE Me(u, Forgets(us[u])) /\ GivesAllBack(u)
  BY DEF DoWrite, Idle, On
<1>2. data' = data /\ blocks' = blocks /\ said' = said
  BY <1>1 DEF disk
<1>3. /\ us[u].given /\ ~us[u].changed => us[u].id = 0 /\ us[u].valid /\ us[u].text \in {Empty, Unread}
      /\ us[u].changed => us[u].given /\ us[u].text \in Text \cup {Empty}
      /\ us[u].given => us[u].text \in Text \cup {Empty, Unread}
      /\ us[u].valid => Holds(u, r) /\ (~us[u].given => us[u].id = data[r].memo)
  BY <1>0, <1>1, InNoCall
<1>4. r \in Nat /\ r > 0 /\ r # 0 /\ r <= MaxRec /\ r <= Len(data) /\ data \in Seq(Record)
      /\ r \in DOMAIN data
  BY <1>0, <1>1, InBounds
<1>5. CASE Free(u, r)
  <2> DEFINE w == AfterLock(u, r, us[u])
             x == [w EXCEPT !.dirty = FALSE]
             y == Validated(x)
             p == IF us[u].changed THEN "place" ELSE "store"
             v == [y EXCEPT !.old = 0, !.oldOf = -1, !.pc = p]
  <2>1. us' = [us EXCEPT ![u] = v] /\ TakesRecord(u, r)
    BY <1>1, <1>5 DEF Me
  <2>2. us'[u] = v
    BY <1>0, <2>1 DEF TypeOK
  <2>3. /\ w \in UserState /\ w.rec = r /\ w.id = us[u].id /\ w.text = us[u].text /\ w.changed = us[u].changed
        /\ w.given = us[u].given /\ w.was = << >> /\ (w.valid => us[u].valid /\ Holds(u, r))
        /\ (us[u].valid /\ Holds(u, r) => w.valid)
        /\ w.oldOf # -1 => w.oldOf \in DOMAIN data /\ w.old = data[w.oldOf].memo
        /\ LockStep(u) /\ rlock'[r] = u
    BY <1>0, <1>1, <1>5, <2>1, AfterLockIs DEF Holds
  <2> HIDE DEF w
  <2>4. /\ x \in UserState /\ x.rec = r /\ x.id = us[u].id /\ x.text = us[u].text /\ x.changed = us[u].changed
        /\ x.given = us[u].given /\ x.was = << >> /\ x.valid = w.valid /\ ~x.dirty
        /\ x.oldOf = w.oldOf /\ x.old = w.old
    BY <2>3 DEF UserState
  <2> HIDE DEF x
  <2>5. x.oldOf = x.rec => x.old = data[x.rec].memo
    BY <1>4, <2>3, <2>4
  <2>6. /\ y \in UserState /\ y.valid /\ y.rec = r /\ y.text = us[u].text /\ y.changed = us[u].changed
        /\ y.given = us[u].given /\ y.was = << >>
        /\ w.valid \/ us[u].changed => y.id = us[u].id
        /\ ~w.valid /\ ~us[u].changed => y.id = data[r].memo
    BY <1>1, <1>4, <2>4, <2>5, ValidatedIs
  <2> HIDE DEF y
  <2>7. p \in Codes /\ p \in {"place", "store"} /\ (p = "place" <=> us[u].changed) /\ p \in Writes
    BY DEF Codes, Writes
  <2> HIDE DEF p
  <2>8. /\ v \in UserState /\ v.valid /\ v.rec = r /\ v.text = us[u].text /\ v.changed = us[u].changed
        /\ v.given = us[u].given /\ v.was = << >> /\ v.id = y.id /\ v.pc = p /\ v.oldOf = -1
    BY <2>6, <2>7 DEF UserState
  <2> HIDE DEF v
  <2>9. Own(u)' = r
    BY <1>4, <2>2, <2>8 DEF Own
  <2>10. us[u].given /\ ~us[u].changed => v.id = 0 /\ v.text \notin Text
    BY <1>3, <2>3, <2>6, <2>8, NameAssumption
  <2>11. ~us[u].given => v.id = data[r].memo
    BY <1>3, <2>3, <2>6, <2>8
  <2>12. TextOK(u)'
    <3>1. us'[u].pc = "store" /\ (us'[u].given \/ us'[u].rec = 0) => us'[u].id = 0 /\ us'[u].text \notin Text
      BY <1>4, <2>2, <2>7, <2>8, <2>10
    <3>2. us'[u].pc # "text"
      BY <2>2, <2>7, <2>8
    <3> QED BY <3>1, <3>2 DEF TextOK
  <2>13. UserOK(u)'
    <3>1. us'[u].pc \in Writes /\ us'[u].pc # "extend"
      BY <2>2, <2>7, <2>8
    <3>2. us'[u].pc # "store" => us'[u].given /\ us'[u].text \in Text \cup {Empty} /\ us'[u].pc = "place"
      BY <1>3, <2>2, <2>7, <2>8
    <3>3. us'[u].rec \in Nat /\ us'[u].rec # 0 /\ us'[u].rec <= Len(data') /\ Own(u)' <= MaxRec /\ rlock'[Own(u)'] = u
      BY <1>2, <1>4, <2>2, <2>3, <2>8, <2>9
    <3>4. ~us'[u].given => us'[u].id = data'[us'[u].rec].memo
      BY <1>2, <2>2, <2>8, <2>11
    <3>5. /\ us'[u].changed => us'[u].given /\ us'[u].text \in Text \cup {Empty}
          /\ us'[u].given => us'[u].text \in Text \cup {Empty, Unread}
      BY <1>3, <2>2, <2>8
    <3>6. us'[u].valid /\ us'[u].was = << >> /\ us'[u].oldOf = -1
      BY <2>2, <2>8
    <3> QED BY <2>12, <3>1, <3>2, <3>3, <3>4, <3>5, <3>6, AtWriting
  <2>14. v.id # 0 => (v.id = us[u].id /\ v.rec = us[u].rec) \/ (v.rec \in DOMAIN data /\ v.id = data[v.rec].memo)
    BY <1>4, <2>6, <2>8
  <2>15. v.pc \notin {"text", "replace", "head"}
    BY <2>7, <2>8
  <2> QED BY <1>1, <2>1, <2>3, <2>8, <2>13, <2>14, <2>15, NotOver, Quiet
<1>6. CASE ~Free(u, r)
  <2> DEFINE v == Forgets(us[u])
  <2>1. us' = [us EXCEPT ![u] = v] /\ GivesAllBack(u)
    BY <1>1, <1>6 DEF Me
  <2>2. us'[u] = v
    BY <1>0, <2>1 DEF TypeOK
  <2>3. us[u].given => us[u].changed
    BY <1>3, <1>6 DEF Free, Holds
  <2>4. UserOK(u)'
    BY <1>0, <1>1, <1>2, <2>2, <2>3, Forgot
  <2>5. v \in UserState /\ v.pc = "idle" /\ v.rec = us[u].rec /\ v.id = us[u].id
    BY <1>0, <1>1, ForgetsIs
  <2>6. LockStep(u)
    BY <1>0, <2>1, GivingBack
  <2> HIDE DEF v
  <2> QED BY <1>1, <2>1, <2>4, <2>5, <2>6, NotOver, Quiet
<1> QED BY <1>5, <1>6

LEMMA PlaceKeeps ==
  ASSUME IInv, NEW u \in User, Place(u)
  PROVE  IInv'
<1> DEFINE t == us[u].text
           v1 == [us[u] EXCEPT !.id = 0, !.pc = "store"]
           v2 == [us[u] EXCEPT !.n = us[u].id, !.pc = "head"]
           v3 == [us[u] EXCEPT !.pc = "header"]
<1>0. TypeOK /\ UserOK(u) /\ us[u] \in UserState /\ us[u].pc = "place" /\ UNCHANGED <<disk, locks, said>>
  BY OfEveryone DEF TypeOK, Place
<1>1. us' = [us EXCEPT ![u] = CASE Length(t) = 0 -> v1
                 [] us[u].id # 0 /\ SizeAt(us[u].id) >= Length(t) /\ Length(t) > 0 -> v2
                 [] OTHER -> v3]
  BY DEF Place, Me
<1>2. data' = data /\ rlock' = rlock /\ LockStep(u) /\ us[u].pc \in Writes
  BY <1>0, LocksUnchanged DEF disk, locks, Writes
<1>3. /\ us[u].was = << >> /\ us[u].rec \in Nat /\ us[u].rec <= Len(data) /\ us[u].rec # 0 /\ us[u].rec > 0
      /\ Own(u) <= MaxRec /\ rlock[Own(u)] = u /\ us[u].given /\ t \in Text \cup {Empty} /\ us[u].id \in Nat
      /\ us[u].oldOf # -1 => /\ us[u].oldOf \in DOMAIN data /\ rlock[us[u].oldOf] = u
                             /\ us[u].old = data[us[u].oldOf].memo
  BY <1>0, <1>2, InWriting
<1>4. Length(t) \in Nat /\ (Length(t) = 0 => t \notin Text) /\ (Length(t) # 0 => t \in Text) 
      /\ (Length(t) # 0 => Length(t) > 0)
  BY LengthsAre
<1>5. ASSUME NEW v \in UserState, us' = [us EXCEPT ![u] = v],
             v.rec = us[u].rec, v.text = t, v.given, v.changed = us[u].changed, v.was = << >>,
             v.oldOf = us[u].oldOf, v.old = us[u].old,
             \/ v.pc = "store" /\ v.id = 0 /\ t \notin Text
             \/ v.pc \in {"head", "header"} /\ v.id = us[u].id /\ t \in Text,
             v.pc = "head" => v.n = v.id /\ v.id # 0 /\ Length(t) <= blocks[v.id].size
      PROVE  IInv'
  <2>1. us'[u] = v
    BY <1>0, <1>5 DEF TypeOK
  <2>2. Own(u)' = Own(u)
    BY <1>3, <1>5, <2>1 DEF Own
  <2>3. TextOK(u)'
    BY <1>5, <2>1 DEF TextOK
  <2>4. v.pc \in Writes /\ v.pc \notin {"extend", "text", "replace", "place"}
    BY <1>5 DEF Writes
  <2>5. UserOK(u)'
    BY <1>2, <1>3, <1>5, <2>1, <2>2, <2>3, <2>4, AtWriting
  <2>6. v.id # 0 => v.id = us[u].id
    BY <1>5
  <2> QED BY <1>0, <1>2, <1>4, <1>5, <2>4, <2>5, <2>6, NotOver, Quiet
<1>6. CASE Length(t) = 0
  <2>1. us' = [us EXCEPT ![u] = v1]
    <3> HIDE DEF v1, v2, v3
    <3> QED BY <1>1, <1>4, <1>6
  <2>2. /\ v1 \in UserState /\ v1.rec = us[u].rec /\ v1.text = t /\ v1.given /\ v1.changed = us[u].changed
        /\ v1.was = << >> /\ v1.oldOf = us[u].oldOf /\ v1.old = us[u].old /\ v1.pc = "store" /\ v1.id = 0
    BY <1>0, <1>3 DEF UserState, Codes
  <2> HIDE DEF v1
  <2> QED BY <1>4, <1>5, <1>6, <2>1, <2>2
<1>7. CASE Length(t) # 0 /\ us[u].id # 0 /\ SizeAt(us[u].id) >= Length(t)
  <2>1. us' = [us EXCEPT ![u] = v2]
    <3> HIDE DEF v1, v2, v3
    <3> QED BY <1>1, <1>4, <1>7
  <2>2. /\ v2 \in UserState /\ v2.rec = us[u].rec /\ v2.text = t /\ v2.given /\ v2.changed = us[u].changed
        /\ v2.was = << >> /\ v2.oldOf = us[u].oldOf /\ v2.old = us[u].old /\ v2.pc = "head" /\ v2.id = us[u].id
        /\ v2.n = us[u].id
    BY <1>0, <1>3 DEF UserState, Codes
  <2> HIDE DEF v2
  <2>3. Length(t) <= blocks[v2.id].size
    <3>1. v2.id \in 0..MaxBlock /\ v2.id # 0
      BY <1>0, <1>7, <2>2, IdsAre
    <3>2. SizeAt(v2.id) \in Nat /\ SizeAt(v2.id) = blocks[v2.id].size
      BY <1>0, <3>1, SizesAre DEF SizeAt
    <3> QED BY <1>4, <1>7, <2>2, <3>2
  <2> QED BY <1>4, <1>5, <1>7, <2>1, <2>2, <2>3
<1>8. CASE Length(t) # 0 /\ ~(us[u].id # 0 /\ SizeAt(us[u].id) >= Length(t))
  <2>1. us' = [us EXCEPT ![u] = v3]
    <3> HIDE DEF v1, v2, v3
    <3> QED BY <1>1, <1>4, <1>8
  <2>2. /\ v3 \in UserState /\ v3.rec = us[u].rec /\ v3.text = t /\ v3.given /\ v3.changed = us[u].changed
        /\ v3.was = << >> /\ v3.oldOf = us[u].oldOf /\ v3.old = us[u].old /\ v3.pc = "header" /\ v3.id = us[u].id
    BY <1>0, <1>3 DEF UserState, Codes
  <2> HIDE DEF v3
  <2> QED BY <1>4, <1>5, <1>8, <2>1, <2>2
<1> QED BY <1>6, <1>7, <1>8

LEMMA TakeHeaderKeeps ==
  ASSUME IInv, NEW u \in User, TakeHeader(u)
  PROVE  IInv'
<1> DEFINE b == (mlock = NoOne)
           v == [us[u] EXCEPT !.n = next, !.needs = b, !.pc = "extend"]
<1>0. TypeOK /\ UserOK(u) /\ us[u] \in UserState /\ us[u].pc = "header" /\ UNCHANGED <<disk, said>> /\ next \in Nat
      /\ rlock' = rlock /\ alock' = alock
  BY OfEveryone, InBounds DEF TypeOK, TakeHeader
<1>1. /\ us' = [us EXCEPT ![u] = v] /\ mlock \in {NoOne, u} /\ mlock' = u
      /\ next + Length(us[u].text) <= MaxBlock + 1
  BY DEF TakeHeader, Me
<1>2. data' = data /\ next' = next /\ us[u].pc \in Writes /\ b \in BOOLEAN
  BY <1>0 DEF disk, Writes
<1>3. LockStep(u)
  BY <1>0, <1>1 DEF TypeOK, LockStep
<1> HIDE DEF b
<1>4. /\ v \in UserState /\ v.rec = us[u].rec /\ v.text = us[u].text /\ v.given = us[u].given
      /\ v.changed = us[u].changed /\ v.was = us[u].was /\ v.oldOf = us[u].oldOf /\ v.old = us[u].old
      /\ v.pc = "extend" /\ v.id = us[u].id /\ v.n = next /\ v.valid = us[u].valid /\ v.fresh = us[u].fresh
  BY <1>0, <1>2 DEF UserState, Codes
<1>5. us'[u] = v
  BY <1>0, <1>1 DEF TypeOK
<1> HIDE DEF v
<1>6. Own(u)' = Own(u) /\ TextOK(u)'
  BY <1>2, <1>4, <1>5 DEF Own, TextOK
<1>7. UserOK(u)'
  <2>1. us'[u].pc = "extend" /\ us'[u].pc \in Writes
    BY <1>4, <1>5 DEF Writes
  <2>2. mlock' = u /\ us'[u].n = next' /\ next' + Length(us'[u].text) <= MaxBlock + 1
    BY <1>1, <1>2, <1>4, <1>5
  <2>3. /\ us[u].was = << >> /\ us[u].rec \in Nat /\ us[u].rec <= Len(data)
        /\ Own(u) <= MaxRec /\ rlock[Own(u)] = u /\ (us[u].rec = 0 => alock = u)
        /\ us[u].rec = 0 => /\ us[u].oldOf = -1 /\ ~us[u].valid /\ ~us[u].fresh /\ us[u].id = 0
                            /\ ~us[u].changed
        /\ us[u].oldOf # -1 => /\ us[u].oldOf \in DOMAIN data /\ rlock[us[u].oldOf] = u
                               /\ us[u].old = data[us[u].oldOf].memo
    BY <1>0, <1>2, InWriting
  <2>4. /\ (us[u].valid \/ us[u].fresh) /\ ~us[u].given => us[u].id = data[us[u].rec].memo
        /\ us[u].changed => us[u].given /\ us[u].text \in Text \cup {Empty}
        /\ us[u].given => us[u].text \in Text \cup {Empty, Unread}
        /\ us[u].rec > 0 => us[u].given
        /\ us[u].text \in Text
    BY <1>0, <1>2, InWriting
  <2> QED BY <1>0, <1>2, <1>4, <1>5, <1>6, <2>1, <2>2, <2>3, <2>4, AtWriting
<1> QED BY <1>0, <1>1, <1>3, <1>4, <1>7, NotOver, Quiet

------------------------------------------------------------------------------
(* Appending, until the record is written. *)

LEMMA AppendStartKeeps ==
  ASSUME IInv, NEW u \in User, DoAppendStart(u)
  PROVE  IInv'
<1> DEFINE x == Reset(Forgets(us[u]))
           started == [x EXCEPT !.rec = 0, !.id = 0, !.live = TRUE]
           t == MemoAt(data[us[u].rec].memo)
           withText == [started EXCEPT !.text = t]
<1>0. TypeOK /\ UserOK(u) /\ us[u] \in UserState /\ us[u].pc = "idle" /\ UNCHANGED <<disk, said>> /\ GivesAllBack(u)
  BY OfEveryone DEF TypeOK, DoAppendStart, Clean, Idle
<1>1. \/ us' = [us EXCEPT ![u] = started] \/ us' = [us EXCEPT ![u] = withText] \/ us' = [us EXCEPT ![u] = x]
  BY DEF DoAppendStart, Me
<1>2. LockStep(u) /\ data' = data /\ Len(data) \in Nat
  BY <1>0, GivingBack, InBounds DEF disk
<1>3. us[u].was = << >>
  BY <1>0, InNoCall
<1>4. /\ x \in UserState /\ x.oldOf = -1 /\ ~x.valid /\ ~x.fresh /\ x.text = Unread /\ ~x.changed /\ ~x.given
      /\ x.pc = "idle" /\ x.was = << >> /\ x.rec = us[u].rec /\ x.id = us[u].id
  BY <1>0, <1>3, ForgetsIs, ResetIs
<1>5. t \in Said
  BY TextIs DEF MemoAt
<1> HIDE DEF x, t
<1>6. /\ started \in UserState /\ started.oldOf = -1 /\ ~started.valid /\ ~started.fresh
      /\ ~started.changed /\ ~started.given /\ started.pc = "idle" /\ started.was = << >>
      /\ started.rec = 0 /\ started.id = 0
  BY <1>4 DEF UserState
<1> HIDE DEF started
<1>7. /\ withText \in UserState /\ withText.oldOf = -1 /\ ~withText.valid /\ ~withText.fresh
      /\ ~withText.changed /\ ~withText.given /\ withText.pc = "idle" /\ withText.was = << >>
      /\ withText.rec = 0 /\ withText.id = 0
  BY <1>5, <1>6 DEF UserState
<1> HIDE DEF withText
<1>8. ASSUME NEW v \in UserState, us' = [us EXCEPT ![u] = v], v.oldOf = -1, ~v.valid, ~v.fresh,
             ~v.changed, ~v.given, v.pc = "idle", v.was = << >>, v.rec = 0, v.id = 0
      PROVE  IInv'
  <2>1. us'[u] = v
    BY <1>0, <1>8 DEF TypeOK
  <2>2. UserOK(u)'
    BY <1>2, <1>8, <2>1, AtRest
  <2> QED BY <1>0, <1>2, <1>8, <2>2, NotOver, Quiet
<1>9. CASE us' = [us EXCEPT ![u] = x]
  <2>1. us'[u] = Reset(Forgets(us[u]))
    BY <1>0, <1>9 DEF TypeOK, x
  <2>2. UserOK(u)'
    BY <1>0, <1>2, <2>1, ResetOK
  <2> QED BY <1>0, <1>2, <1>4, <1>9, <2>2, NotOver, Quiet
<1> QED BY <1>1, <1>6, <1>7, <1>8, <1>9

LEMMA AppendKeeps ==
  ASSUME IInv, NEW u \in User, DoAppend(u)
  PROVE  IInv'
<1> DEFINE new == Len(data) + 1
           can == alock \in {NoOne, u} /\ Free(u, new)
           x == Forgets(us[u])
           p == IF Length(us[u].text) > 0 THEN "header" ELSE "store"
           v == [x EXCEPT !.dirty = FALSE, !.changed = FALSE, !.id = 0, !.pc = p]
<1>0. TypeOK /\ UserOK(u) /\ us[u] \in UserState /\ us[u].pc = "idle" /\ UNCHANGED <<disk, said>>
      /\ us[u].rec = 0 /\ Len(data) < MaxRec
  BY OfEveryone DEF TypeOK, DoAppend, Idle
<1>1. IF can THEN /\ rlock' = [Released(u) EXCEPT ![new] = u] /\ alock' = u /\ mlock' = GivenBack(u, mlock)
                  /\ us' = [us EXCEPT ![u] = v]
             ELSE GivesAllBack(u) /\ us' = [us EXCEPT ![u] = x]
  BY DEF DoAppend, Me
<1>2. data' = data /\ Len(data) \in Nat /\ MaxRec \in Nat /\ new \in 1..MaxRec /\ new \in 1..(MaxRec + 1)
  BY <1>0, InBounds DEF disk
<1>3. /\ us[u].was = << >> /\ (us[u].given => us[u].changed) /\ (us[u].changed => us[u].text \in Text \cup {Empty})
  BY <1>0, InNoCall
<1>4. /\ x \in UserState /\ x.oldOf = -1 /\ ~x.valid /\ ~x.fresh /\ x.text = us[u].text /\ x.given = us[u].given
      /\ x.pc = "idle" /\ x.was = << >> /\ x.rec = 0 /\ x.id = us[u].id
  BY <1>0, <1>3, ForgetsIs
<1>5. CASE ~can
  <2>1. GivesAllBack(u) /\ us' = [us EXCEPT ![u] = x]
    BY <1>1, <1>5
  <2>2. us'[u] = Forgets(us[u])
    BY <1>0, <2>1 DEF TypeOK
  <2>3. UserOK(u)'
    BY <1>0, <1>2, <1>3, <2>2, Forgot
  <2>4. LockStep(u)
    BY <1>0, <2>1, GivingBack
  <2> HIDE DEF x
  <2> QED BY <1>0, <1>4, <2>1, <2>3, <2>4, NotOver, Quiet
<1>6. CASE can
  <2>1. /\ rlock' = [Released(u) EXCEPT ![new] = u] /\ alock' = u /\ mlock' = GivenBack(u, mlock)
        /\ us' = [us EXCEPT ![u] = v]
    BY <1>1, <1>6
  <2>2. LockStep(u) /\ rlock'[new] = u
    <3>1. Released(u) \in [1..(MaxRec + 1) -> User \cup {NoOne}]
      BY <1>0 DEF TypeOK, Released
    <3>2. rlock' \in [1..(MaxRec + 1) -> User \cup {NoOne}]
      BY <1>2, <2>1, <3>1
    <3>3. \A q \in 1..(MaxRec + 1) : rlock'[q] = IF q = new THEN u ELSE IF rlock[q] = u THEN NoOne ELSE rlock[q]
      BY <1>0, <1>2, <2>1, <3>1 DEF TypeOK, Released, Holds
    <3>4. alock' \in User \cup {NoOne} /\ mlock' \in User \cup {NoOne}
          /\ (mlock' # mlock => {mlock, mlock'} \subseteq {NoOne, u})
      BY <1>0, <2>1 DEF TypeOK, GivenBack
    <3> QED BY <1>2, <1>6, <2>1, <3>2, <3>3, <3>4 DEF LockStep, Free
  <2>3. /\ p \in {"header", "store"} /\ p \in Writes /\ p \in Codes
        /\ (p = "header" => us[u].text \in Text) /\ (p = "store" => us[u].text \notin Text)
    BY LengthsAre DEF Writes, Codes
  <2> HIDE DEF p, x
  <2>4. /\ v \in UserState /\ v.oldOf = -1 /\ ~v.valid /\ ~v.fresh /\ v.text = us[u].text /\ v.given = us[u].given
        /\ v.pc = p /\ v.was = << >> /\ v.rec = 0 /\ v.id = 0 /\ ~v.changed
    BY <1>4, <2>3 DEF UserState
  <2>5. us'[u] = v
    BY <1>0, <2>1 DEF TypeOK
  <2> HIDE DEF v
  <2>6. Own(u)' = new
    BY <1>2, <2>4, <2>5 DEF Own
  <2>7. TextOK(u)'
    BY <2>3, <2>4, <2>5 DEF TextOK
  <2>8. UserOK(u)'
    <3>1. Own(u)' <= MaxRec /\ rlock'[Own(u)'] = u /\ alock' = u
      BY <1>2, <2>1, <2>2, <2>6
    <3>2. us'[u].given => us'[u].text \in Text \cup {Empty, Unread}
      BY <1>3, <2>4, <2>5
    <3> HIDE DEF new
    <3> QED BY <1>2, <2>3, <2>4, <2>5, <2>7, <3>1, <3>2, AtWriting
  <2> QED BY <1>0, <2>1, <2>2, <2>3, <2>4, <2>8, NotOver, Quiet
<1> QED BY <1>5, <1>6

------------------------------------------------------------------------------
(* The steps of a write that change the disk. *)

LEMMA WholeWhenWriting ==
  ASSUME IInv, NEW u \in User, us[u].pc \in Writes
  PROVE  Whole /\ \A w \in User : us[w].pc # "replace"
<1>0. TypeOK /\ \A w \in User : UserOK(w) /\ ReplaceOK(w)
  BY OfEveryone
<1> SUFFICES ASSUME NEW w \in User, us[w].pc = "replace" PROVE FALSE
  BY DEF Whole
<1>1. Own(u) \in 1..MaxRec /\ Holds(u, Own(u))
  BY <1>0, Whereabouts
<1>2. rlock = [r \in DOMAIN rlock |-> w] /\ DOMAIN rlock = 1..(MaxRec + 1) /\ MaxRec \in Nat
  BY <1>0, InBounds DEF ReplaceOK
<1>3. Own(u) \in 1..(MaxRec + 1)
  BY <1>1, <1>2
<1>4. rlock[Own(u)] = w
  BY <1>2, <1>3
<1> QED BY <1>1, <1>4 DEF Holds, Writes

LEMMA WholeAfter ==
  ASSUME NEW u \in User, us'[u].pc # "replace", \A w \in User : us[w].pc # "replace",
         \A w \in User : w # u => us'[w] = us[w]
  PROVE  Whole' /\ \A w \in User : ReplaceOK(w)'
<1>1. \A w \in User : us'[w].pc # "replace"
  OBVIOUS
<1> QED BY <1>1 DEF Whole, ReplaceOK

LEMMA OwnsApart ==
  ASSUME TypeOK, NEW u \in User, NEW w \in User, w # u, UserOK(u), UserOK(w),
         us[u].pc \in Writes, us[w].pc \in Writes \/ us[w].fresh
  PROVE  Own(w) # Own(u)
<1>1. Holds(u, Own(u))
  BY Whereabouts
<1>2. CASE us[w].pc \in Writes
  BY <1>1, <1>2, Whereabouts DEF Holds
<1>3. CASE us[w].fresh
  <2>1. us[w].rec \in DOMAIN data /\ Holds(w, us[w].rec)
    BY <1>3, Whereabouts
  <2>2. Own(w) = us[w].rec
    BY <2>1, InBounds DEF Own
  <2> QED BY <1>1, <2>1, <2>2 DEF Holds
<1> QED BY <1>2, <1>3

LEMMA WriteHeaderKeeps ==
  ASSUME IInv, NEW u \in User, WriteHeader(u)
  PROVE  IInv'
<1> DEFINE t == us[u].text
           v == [us[u] EXCEPT !.needs = FALSE, !.pc = "head"]
<1>0. TypeOK /\ LotsOK /\ SaidOK /\ (\A w \in User : UserOK(w)) /\ us[u] \in UserState
      /\ us[u].pc = "extend" /\ us[u].pc \in Writes
  BY OfEveryone DEF TypeOK, WriteHeader, Writes
<1>1. /\ us' = [us EXCEPT ![u] = v] /\ next' = us[u].n + Length(t)
      /\ mlock' = (IF us[u].needs THEN NoOne ELSE mlock)
      /\ data' = data /\ blocks' = blocks /\ rlock' = rlock /\ alock' = alock /\ said' = said
  BY DEF WriteHeader, Me
<1>2. /\ us[u].was = << >> /\ us[u].rec \in Nat /\ us[u].rec <= Len(data)
      /\ Own(u) <= MaxRec /\ rlock[Own(u)] = u /\ (us[u].rec = 0 => alock = u)
      /\ us[u].rec = 0 => /\ us[u].oldOf = -1 /\ ~us[u].valid /\ ~us[u].fresh /\ us[u].id = 0
                          /\ ~us[u].changed
      /\ us[u].oldOf # -1 => /\ us[u].oldOf \in DOMAIN data /\ rlock[us[u].oldOf] = u
                             /\ us[u].old = data[us[u].oldOf].memo
  BY <1>0, InWriting
<1>3. /\ (us[u].valid \/ us[u].fresh) /\ ~us[u].given => us[u].id = data[us[u].rec].memo
      /\ us[u].changed => us[u].given /\ us[u].text \in Text \cup {Empty}
      /\ us[u].given => us[u].text \in Text \cup {Empty, Unread}
      /\ us[u].rec > 0 => us[u].given
      /\ t \in Text /\ mlock = u /\ us[u].n = next /\ next + Length(t) <= MaxBlock + 1
  BY <1>0, InWriting
<1>4. Length(t) \in Nat /\ Length(t) > 0 /\ next \in Nat /\ next \in 1..(MaxBlock + 1) /\ MaxBlock \in Nat
  BY <1>0, <1>3, LengthsAre, BoundAssumption DEF TypeOK
<1>5. /\ v \in UserState /\ v.rec = us[u].rec /\ v.text = t /\ v.given = us[u].given
      /\ v.changed = us[u].changed /\ v.was = us[u].was /\ v.oldOf = us[u].oldOf /\ v.old = us[u].old
      /\ v.pc = "head" /\ v.id = us[u].id /\ v.n = next /\ v.valid = us[u].valid /\ v.fresh = us[u].fresh
  BY <1>0, <1>3 DEF UserState, Codes
<1> HIDE DEF v
<1>6. us' \in [User -> UserState] /\ us'[u] = v /\ \A w \in User : w # u => us'[w] = us[w]
  BY <1>0, <1>1, <1>5, OneSteps
<1>7. next' = next + Length(t) /\ next' \in 1..(MaxBlock + 1) /\ next <= next' /\ next' \in Nat
  BY <1>1, <1>3, <1>4
<1>8. TypeOK'
  BY <1>0, <1>1, <1>6, <1>7 DEF TypeOK
<1>9. LockStep(u)
  BY <1>0, <1>1, <1>3 DEF TypeOK, LockStep
<1>10. Own(u)' = Own(u) /\ \A w \in User : w # u => Own(w)' = Own(w)
  BY <1>1, <1>5, <1>6 DEF Own
<1>11. UserOK(u)'
  <2>1. us'[u].pc = "head" /\ us'[u].pc \in Writes /\ TextOK(u)'
    BY <1>5, <1>6 DEF Writes, TextOK
  <2> QED BY <1>1, <1>2, <1>3, <1>5, <1>6, <1>10, <2>1, AtWriting
<1>12. \A w \in User : UserOK(w)'
  <2> SUFFICES ASSUME NEW w \in User, w # u PROVE UserOK(w)'
    BY <1>11
  <2>1. us[w].pc # "extend"
    BY <1>0, <1>3, NameAssumption DEF UserOK, LocksOK
  <2>2. Spares(u, w)
    BY <1>1, <1>6, <2>1 DEF Spares, Written
  <2> QED BY <1>0, <1>8, <1>9, <2>2, Bystander
<1>13. Whole /\ \A w \in User : us[w].pc # "replace"
  BY <1>0, WholeWhenWriting
<1>14. Whole' /\ \A w \in User : ReplaceOK(w)'
  BY <1>5, <1>6, <1>13, WholeAfter
<1>15. LotsOK'
  <2>1. PICK lot : LotsOf(lot, Memos) /\ \A w \in User : LotsOfUser(lot, w)
    BY <1>0, <1>13 DEF LotsOK
  <2>8. PICK new : new = [b \in Nat |-> IF b < next THEN lot[b] ELSE <<Own(u), next>>]
    OBVIOUS
  <2>2. ASSUME NEW o, NEW i, NEW len \in Nat, Lot(lot, o, i, len)
        PROVE  /\ i \in 1..(next' - 1) /\ i + len <= next' /\ new[i] = <<o, i>>
               /\ \A b \in i..(i + len - 1) : new[b] = <<o, i>>
    <3>1. i \in 1..(next - 1) /\ i + len <= next /\ lot[i] = <<o, i>> /\ i \in Nat
          /\ \A b \in i..(i + len - 1) : lot[b] = <<o, i>>
      BY <1>4, <2>2 DEF Lot
    <3>2. \A b \in i..(i + len - 1) : b \in Nat /\ b < next
      BY <1>4, <3>1
    <3>3. i \in 1..(next' - 1) /\ i + len <= next' /\ i < next
      BY <1>4, <1>7, <3>1
    <3> QED BY <3>1, <3>2, <3>3, <2>8
  <2>3. /\ next \in 1..(next' - 1) /\ next + Length(t) <= next' /\ new[next] = <<Own(u), next>>
        /\ \A b \in next..(next + Length(t) - 1) : new[b] = <<Own(u), next>>
    BY <1>4, <1>7, <2>8
  <2>4. \A r \in DOMAIN data : blocks[data[r].memo].size \in Nat \/ data[r].memo = 0
    <3> SUFFICES ASSUME NEW r \in DOMAIN data, data[r].memo # 0 PROVE blocks[data[r].memo].size \in Nat
      OBVIOUS
    <3>1. data[r].memo \in 1..MaxBlock
      BY <1>4, IdsAre
    <3> QED BY <1>0, <3>1 DEF TypeOK
  <2>5. \A w \in User : blocks[us[w].id].size \in Nat \/ us[w].id = 0
    <3> SUFFICES ASSUME NEW w \in User, us[w].id # 0 PROVE blocks[us[w].id].size \in Nat
      OBVIOUS
    <3>1. us[w].id \in 1..MaxBlock
      BY <1>4, <1>13, IdsAre
    <3> QED BY <1>0, <3>1 DEF TypeOK
  <2>6. LotsOf(new, Memos)'
    <3> SUFFICES ASSUME NEW r \in DOMAIN data, data[r].memo # 0
                 PROVE  Lot(new, r, data[r].memo, blocks[data[r].memo].size)'
      BY <1>1 DEF LotsOf, Memos
    <3>1. Lot(lot, r, data[r].memo, blocks[data[r].memo].size)
      BY <2>1 DEF LotsOf, Memos
    <3> QED BY <1>1, <2>2, <2>4, <3>1 DEF Lot
  <2>7. ASSUME NEW w \in User PROVE LotsOfUser(new, w)'
    <3>1. us'[w].id = us[w].id
      BY <1>5, <1>6
    <3>2. us'[w].id # 0 => Lot(new, Own(w), us[w].id, blocks[us[w].id].size)'
      <4> SUFFICES ASSUME us[w].id # 0 PROVE Lot(new, Own(w), us[w].id, blocks[us[w].id].size)'
        BY <3>1
      <4>1. Lot(lot, Own(w), us[w].id, blocks[us[w].id].size)
        BY <2>1 DEF LotsOfUser
      <4> QED BY <1>1, <1>10, <2>2, <2>5, <3>1, <4>1 DEF Lot
    <3>3. us'[w].pc \in {"head", "text"} => Lot(new, Own(w), us[w].n, Length(us[w].text))'
      <4>1. CASE w = u
        <5>1. us'[u].n = next /\ us'[u].text = t /\ Own(u)' = Own(u) /\ Length(us[u].text)' = Length(t)
          BY <1>5, <1>6, <1>10 DEF Length
        <5> QED BY <2>3, <4>1, <5>1 DEF Lot
      <4>2. CASE w # u
        <5> SUFFICES ASSUME us[w].pc \in {"head", "text"} PROVE Lot(new, Own(w), us[w].n, Length(us[w].text))'
          BY <1>6, <4>2
        <5>1. us'[w] = us[w] /\ Own(w)' = Own(w) /\ Length(us[w].text)' = Length(us[w].text)
          BY <1>6, <1>10, <4>2 DEF Length
        <5>2. Lot(lot, Own(w), us[w].n, Length(us[w].text)) /\ Length(us[w].text) \in Nat
          BY <2>1, LengthsAre DEF LotsOfUser
        <5> QED BY <2>2, <5>1, <5>2 DEF Lot
      <4> QED BY <4>1, <4>2
    <3> QED BY <3>2, <3>3 DEF LotsOfUser
  <2> QED BY <2>6, <2>7 DEF LotsOK
<1>16. SaidOK'
  <2> SUFFICES ASSUME NEW r \in DOMAIN data PROVE (said[r] \in {Unknown, MemoAt(data[r].memo)} \/ WrittenOver(r))'
    BY <1>1 DEF SaidOK
  <2>1. said[r] \in {Unknown, MemoAt(data[r].memo)} \/ WrittenOver(r)
    BY <1>0, <1>13 DEF SaidOK
  <2>2. CASE WrittenOver(r)
    <3>1. PICK w \in User : us[w].rec = r /\ WritesOver(us[w])
      BY <2>2 DEF WrittenOver
    <3>2. w # u
      BY <1>0, <3>1 DEF WritesOver
    <3> QED BY <1>1, <1>6, <3>1, <3>2 DEF WrittenOver, WritesOver
  <2>3. MemoAt(data[r].memo)' = MemoAt(data[r].memo)
    BY <1>1 DEF MemoAt, SizeAt, TextAt
  <2> QED BY <1>1, <2>1, <2>2, <2>3
<1> QED BY <1>8, <1>12, <1>14, <1>15, <1>16, ForEveryone

(* What a text is read from is what its blocks hold. *)
LEMMA PiecesStay ==
  ASSUME NEW id, NEW size, DOMAIN blocks' = DOMAIN blocks,
         \A n \in 1..size : id + n - 1 \in DOMAIN blocks =>
            blocks'[id + n - 1].piece = blocks[id + n - 1].piece
  PROVE  TextAt(id, size)' = TextAt(id, size)
<1> DEFINE whole == {t \in Text : /\ Size[t] = size
                                  /\ \A n \in 1..size : /\ id + n - 1 \in DOMAIN blocks
                                                        /\ blocks[id + n - 1].piece = <<t, n>>}
           new == {t \in Text : /\ Size[t] = size
                                /\ \A n \in 1..size : /\ id + n - 1 \in DOMAIN blocks'
                                                      /\ blocks'[id + n - 1].piece = <<t, n>>}
<1>1. new = whole
  OBVIOUS
<1>2. TextAt(id, size) = CASE size = 0 -> Empty [] size # 0 /\ whole = {} -> Unknown
                           [] size # 0 /\ whole # {} -> CHOOSE t \in whole : TRUE
  BY DEF TextAt
<1>3. TextAt(id, size)' = CASE size = 0 -> Empty [] size # 0 /\ new = {} -> Unknown
                            [] size # 0 /\ new # {} -> CHOOSE t \in new : TRUE
  BY DEF TextAt
<1> HIDE DEF whole, new
<1> QED BY <1>1, <1>2, <1>3

(* A step of a write that changes blocks of the lot it writes to, and none  *)
(* but those; who writes over the memo of its record is known to.           *)
Dumps(u, v, n, len) ==
  /\ us' = [us EXCEPT ![u] = v] /\ us[u].pc \in {"head", "text"}
  /\ UNCHANGED <<data, next, locks, said>>
  /\ n = us[u].n /\ len = Length(us[u].text) /\ blocks'[n].size = len
  /\ \A b \in 1..MaxBlock : b # n => blocks'[b].size = blocks[b].size
  /\ \A b \in 1..MaxBlock : b \notin n..(n + len - 1) => blocks'[b].piece = blocks[b].piece
  /\ v.rec = us[u].rec /\ v.text = us[u].text /\ v.id \in {us[u].id, n}
  /\ v.pc = "store" \/ (v.pc = "text" /\ v.n = n)
  /\ Own(u) \in DOMAIN data /\ data[Own(u)].memo = n => WritesOver(v)

LEMMA LotWritten ==
  ASSUME IInv, NEW u \in User, NEW v \in UserState, NEW n, NEW len, Dumps(u, v, n, len), TypeOK', UserOK(u)'
  PROVE  IInv'
<1>d. /\ us' = [us EXCEPT ![u] = v] /\ us[u].pc \in {"head", "text"}
      /\ UNCHANGED <<data, next, locks, said>>
      /\ n = us[u].n /\ len = Length(us[u].text) /\ blocks'[n].size = len
      /\ \A b \in 1..MaxBlock : b # n => blocks'[b].size = blocks[b].size
      /\ \A b \in 1..MaxBlock : b \notin n..(n + len - 1) => blocks'[b].piece = blocks[b].piece
      /\ v.rec = us[u].rec /\ v.text = us[u].text /\ v.id \in {us[u].id, n}
      /\ v.pc = "store" \/ (v.pc = "text" /\ v.n = n)
      /\ Own(u) \in DOMAIN data /\ data[Own(u)].memo = n => WritesOver(v)
  BY DEF Dumps
<1> USE <1>d
<1>0. TypeOK /\ LotsOK /\ SaidOK /\ (\A w \in User : UserOK(w)) /\ us[u].pc \in Writes
      /\ len \in Nat /\ MaxBlock \in Nat
  BY OfEveryone, LengthsAre, BoundAssumption DEF Writes
<1>1. us' \in [User -> UserState] /\ us'[u] = v /\ \A w \in User : w # u => us'[w] = us[w]
  BY <1>0, OneSteps
<1>2. Whole /\ \A w \in User : us[w].pc # "replace"
  BY <1>0, WholeWhenWriting
<1>3. Whole' /\ \A w \in User : ReplaceOK(w)'
  BY <1>1, <1>2, WholeAfter
<1>4. PICK lot : LotsOf(lot, Memos) /\ \A w \in User : LotsOfUser(lot, w)
  BY <1>0, <1>2 DEF LotsOK
<1>5. /\ Lot(lot, Own(u), n, len) /\ lot[n] = <<Own(u), n>> /\ n \in 1..MaxBlock
      /\ \A b \in n..(n + len - 1) : lot[b] = <<Own(u), n>>
  <2>1. Lot(lot, Own(u), n, len)
    BY <1>4 DEF LotsOfUser
  <2>2. n \in 1..MaxBlock
    BY <1>0, <2>1, LotInFile
  <2> QED BY <2>1, <2>2 DEF Lot
<1>6. /\ data' = data /\ next' = next /\ said' = said /\ LockStep(u)
      /\ DOMAIN blocks' = 1..MaxBlock /\ DOMAIN blocks = 1..MaxBlock
  BY <1>0, LocksUnchanged DEF TypeOK
<1>7. Own(u)' = Own(u) /\ \A w \in User : w # u => Own(w)' = Own(w)
  BY <1>1, <1>6 DEF Own
<1>8. \A w \in User : UserOK(w)'
  <2> SUFFICES ASSUME NEW w \in User, w # u PROVE UserOK(w)'
    OBVIOUS
  <2>1. us[w].pc \in Writes \/ us[w].fresh => Own(w) # Own(u)
    BY <1>0, OwnsApart
  <2>2. /\ us[w].id # 0 => Lot(lot, Own(w), us[w].id, blocks[us[w].id].size)
        /\ us[w].pc \in {"head", "text"} => Lot(lot, Own(w), us[w].n, Length(us[w].text))
    BY <1>4 DEF LotsOfUser
  <2>3. us[w].pc = "text" => blocks'[us[w].n].size = blocks[us[w].n].size
    <3> SUFFICES ASSUME us[w].pc = "text" PROVE blocks'[us[w].n].size = blocks[us[w].n].size
      OBVIOUS
    <3>0. Lot(lot, Own(w), us[w].n, Length(us[w].text))
      BY <2>2
    <3>3. us[w].n \in 1..MaxBlock
      BY <1>0, <3>0, LotInFile
    <3>1. lot[us[w].n] = <<Own(w), us[w].n>> /\ us[w].n \in 1..MaxBlock
      BY <3>0, <3>3 DEF Lot
    <3>2. Own(w) # Own(u)
      BY <2>1 DEF Writes
    <3> QED BY <1>5, <3>1, <3>2
  <2>4. us[w].id # 0 /\ (us[w].pc \in Writes \/ us[w].fresh) =>
          /\ blocks'[us[w].id].size = blocks[us[w].id].size
          /\ \A b \in us[w].id..(us[w].id + blocks[us[w].id].size - 1) : b \notin n..(n + len - 1)
    <3> SUFFICES ASSUME us[w].id # 0, us[w].pc \in Writes \/ us[w].fresh
                 PROVE  /\ blocks'[us[w].id].size = blocks[us[w].id].size
                        /\ \A b \in us[w].id..(us[w].id + blocks[us[w].id].size - 1) : b \notin n..(n + len - 1)
      OBVIOUS
    <3>1. lot[us[w].id] = <<Own(w), us[w].id>> /\ us[w].id \in 1..MaxBlock
          /\ \A b \in us[w].id..(us[w].id + blocks[us[w].id].size - 1) : lot[b] = <<Own(w), us[w].id>>
      BY <1>0, <2>2, LotInFile DEF Lot
    <3> QED BY <1>5, <2>1, <3>1
  <2>5. us[w].pc = "store" /\ us[w].text \in Text /\ Written(us[w].id, us[w].text)
          => Written(us[w].id, us[w].text)'
    <3> SUFFICES ASSUME us[w].pc = "store", us[w].text \in Text, Written(us[w].id, us[w].text)
                 PROVE  Written(us[w].id, us[w].text)'
      OBVIOUS
    <3>0. PICK t, i : t = us[w].text /\ i = us[w].id
      OBVIOUS
    <3>1. /\ i \in 1..MaxBlock /\ blocks[i].size = Size[t] /\ Size[t] \in Nat
          /\ \A k \in 1..Size[t] : i + k - 1 \in 1..MaxBlock /\ blocks[i + k - 1].piece = <<t, k>>
      BY <1>6, <3>0, SizeAssumption DEF Written
    <3>2. blocks'[i].size = Size[t] /\ \A b \in i..(i + Size[t] - 1) : b \notin n..(n + len - 1)
      BY <1>0, <2>4, <3>0, <3>1 DEF Writes
    <3>3. \A k \in 1..Size[t] : i + k - 1 \in i..(i + Size[t] - 1)
      BY <1>0, <3>1
    <3>4. \A k \in 1..Size[t] : blocks'[i + k - 1].piece = <<t, k>>
      BY <3>1, <3>2, <3>3
    <3>5. us'[w].id = i /\ us'[w].text = t
      BY <1>1, <3>0
    <3> QED BY <1>6, <3>1, <3>2, <3>4, <3>5 DEF Written
  <2>6. Spares(u, w)
    BY <1>1, <1>6, <2>3, <2>4, <2>5 DEF Spares
  <2> QED BY <1>0, <1>6, <2>6, Bystander
<1>9. \A o, i, l : Lot(lot, o, i, l)' <=> Lot(lot, o, i, l)
  BY <1>6 DEF Lot
<1>10. ASSUME NEW o, NEW i, Lot(lot, o, i, blocks[i].size)
       PROVE  Lot(lot, o, i, blocks[i].size)'
  <2>1. i \in 1..MaxBlock /\ lot[i] = <<o, i>>
    BY <1>0, <1>10, LotInFile DEF Lot
  <2>2. CASE i # n
    <3>1. blocks'[i].size = blocks[i].size
      BY <2>1, <2>2
    <3> QED BY <1>6, <1>10, <3>1 DEF Lot
  <2>3. CASE i = n
    <3>1. o = Own(u)
      BY <1>5, <2>1, <2>3
    <3>2. Lot(lot, o, i, blocks'[i].size)
      BY <1>5, <2>3, <3>1
    <3> QED BY <1>6, <3>2 DEF Lot
  <2> QED BY <2>2, <2>3
<1>11. LotsOK'
  <2>1. LotsOf(lot, Memos)'
    <3> SUFFICES ASSUME NEW r \in DOMAIN data, data[r].memo # 0
                 PROVE  Lot(lot, r, data[r].memo, blocks[data[r].memo].size)'
      BY <1>6 DEF LotsOf, Memos
    <3>0. PICK i : i = data[r].memo
      OBVIOUS
    <3>1. Lot(lot, r, i, blocks[i].size)
      BY <1>4, <3>0 DEF LotsOf, Memos
    <3>2. Lot(lot, r, i, blocks[i].size)'
      BY <3>1, <1>10
    <3> QED BY <1>6, <3>0, <3>2
  <2>2. ASSUME NEW w \in User PROVE LotsOfUser(lot, w)'
    <3>1. us'[w].id # 0 => Lot(lot, Own(w), us[w].id, blocks[us[w].id].size)'
      <4> SUFFICES ASSUME us'[w].id # 0 PROVE Lot(lot, Own(w), us[w].id, blocks[us[w].id].size)'
        OBVIOUS
      <4>0. PICK i, o : i = us'[w].id /\ o = Own(w)
        OBVIOUS
      <4>1. CASE i = us[w].id
        <5>1. Lot(lot, o, i, blocks[i].size)
          BY <1>4, <4>0, <4>1 DEF LotsOfUser
        <5>2. Lot(lot, o, i, blocks[i].size)' /\ Own(w)' = o
          BY <5>1, <1>7, <1>10, <4>0
        <5> QED BY <4>0, <5>2
      <4>2. CASE w = u /\ i = n
        <5>1. Lot(lot, o, i, blocks'[i].size) /\ Own(w)' = o
          BY <1>5, <1>7, <4>0, <4>2
        <5>2. Lot(lot, o, i, blocks[i].size)'
          BY <1>6, <5>1 DEF Lot
        <5> QED BY <4>0, <5>1, <5>2
      <4> QED BY <1>1, <4>0, <4>1, <4>2
    <3>2. us'[w].pc \in {"head", "text"} => Lot(lot, Own(w), us[w].n, Length(us[w].text))'
      <4> SUFFICES ASSUME us'[w].pc \in {"head", "text"}
                   PROVE  Lot(lot, Own(w), us[w].n, Length(us[w].text))'
        OBVIOUS
      <4>0. PICK i, o, l : i = us'[w].n /\ o = Own(w) /\ l = Length(us'[w].text)
        OBVIOUS
      <4>1. Lot(lot, o, i, l)
        <5>1. CASE w = u
          BY <1>1, <1>5, <4>0, <5>1
        <5>2. CASE w # u
          BY <1>1, <1>4, <4>0, <5>2 DEF LotsOfUser
        <5> QED BY <5>1, <5>2
      <4>2. Lot(lot, o, i, l)' /\ Own(w)' = o /\ Length(us[w].text)' = l
        BY <1>7, <1>9, <4>0, <4>1 DEF Length
      <4> QED BY <4>0, <4>2
    <3> QED BY <3>1, <3>2 DEF LotsOfUser
  <2> QED BY <2>1, <2>2 DEF LotsOK
<1>12. SaidOK'
  <2> SUFFICES ASSUME NEW r \in DOMAIN data PROVE (said[r] \in {Unknown, MemoAt(data[r].memo)} \/ WrittenOver(r))'
    BY <1>6 DEF SaidOK
  <2>1. said[r] \in {Unknown, MemoAt(data[r].memo)} \/ WrittenOver(r)
    BY <1>0, <1>2 DEF SaidOK
  <2>2. CASE data[r].memo = n
    <3>1. r = Own(u)
      <4>1. Memos[r] = n /\ n # 0
        BY <1>5, <2>2 DEF Memos
      <4>2. Lot(lot, r, n, blocks[n].size)
        BY <1>4, <4>1 DEF LotsOf
      <4> QED BY <1>5, <4>2 DEF Lot
    <3>2. us[u].rec = r
      BY <1>0, <3>1, InBounds DEF Own
    <3>3. WritesOver(v)
      BY <2>2, <3>1
    <3> QED BY <1>1, <1>6, <3>2, <3>3 DEF WrittenOver, WritesOver
  <2>3. CASE data[r].memo # n
    <3>1. CASE WrittenOver(r)
      <4>1. PICK w \in User : us[w].rec = r /\ WritesOver(us[w])
        BY <3>1 DEF WrittenOver
      <4>2. w # u
        BY <2>3, <4>1 DEF WritesOver
      <4> QED BY <1>1, <1>6, <4>1, <4>2 DEF WrittenOver, WritesOver
    <3>2. MemoAt(data[r].memo)' = MemoAt(data[r].memo)
      <4>0. PICK i : i = data[r].memo
        OBVIOUS
      <4>1. CASE i = 0
        BY <1>6, <4>0, <4>1 DEF MemoAt, SizeAt, TextAt
      <4>2. CASE i # 0
        <5>1. Lot(lot, r, i, blocks[i].size)
          BY <1>4, <4>0, <4>2 DEF LotsOf, Memos
        <5>2. i \in 1..MaxBlock /\ \A b \in i..(i + blocks[i].size - 1) : lot[b] = <<r, i>>
          BY <1>0, <5>1, LotInFile DEF Lot
        <5>3. blocks'[i].size = blocks[i].size /\ blocks[i].size \in Nat
          BY <1>0, <2>3, <4>0, <5>2 DEF TypeOK
        <5>4. \A k \in 1..blocks[i].size : i + k - 1 \in i..(i + blocks[i].size - 1)
          BY <5>2, <5>3
        <5>5. \A k \in 1..blocks[i].size : i + k - 1 \in DOMAIN blocks =>
                blocks'[i + k - 1].piece = blocks[i + k - 1].piece
          BY <1>5, <1>6, <2>3, <4>0, <5>2, <5>4
        <5>7. PICK size : size = blocks[i].size
          OBVIOUS
        <5>8. TextAt(i, size)' = TextAt(i, size)
          BY <1>6, <5>5, <5>7, PiecesStay
        <5>9. MemoAt(i) = TextAt(i, size) /\ MemoAt(i)' = TextAt(i, size)'
          BY <4>2, <5>3, <5>7 DEF MemoAt, SizeAt
        <5>10. MemoAt(i)' = MemoAt(i)
          BY <5>8, <5>9
        <5> QED BY <1>6, <4>0, <5>10
      <4> QED BY <4>1, <4>2
    <3> QED BY <1>6, <2>1, <3>1, <3>2
  <2> QED BY <2>2, <2>3
<1> QED BY <1>3, <1>8, <1>11, <1>12, ForEveryone

LEMMA DumpHeadKeeps ==
  ASSUME IInv, NEW u \in User, DumpHead(u)
  PROVE  IInv'
<1> DEFINE v == [us[u] EXCEPT !.pc = "text"]
           len == Length(us[u].text)
           n == us[u].n
<1>0. TypeOK /\ LotsOK /\ (\A w \in User : UserOK(w)) /\ us[u] \in UserState
      /\ us[u].pc = "head" /\ us[u].pc \in Writes
  BY OfEveryone DEF TypeOK, DumpHead, Writes
<1>1. /\ us' = [us EXCEPT ![u] = v] /\ blocks' = [blocks EXCEPT ![n].size = len]
      /\ UNCHANGED <<data, next, locks, said>> /\ rlock' = rlock /\ alock' = alock /\ mlock' = mlock
  BY DEF DumpHead, Me, locks
<1>2. /\ us[u].was = << >> /\ us[u].rec \in Nat /\ us[u].rec <= Len(data)
      /\ Own(u) <= MaxRec /\ rlock[Own(u)] = u /\ (us[u].rec = 0 => alock = u)
      /\ us[u].rec = 0 => /\ us[u].oldOf = -1 /\ ~us[u].valid /\ ~us[u].fresh /\ us[u].id = 0
                          /\ ~us[u].changed
      /\ us[u].oldOf # -1 => /\ us[u].oldOf \in DOMAIN data /\ rlock[us[u].oldOf] = u
                             /\ us[u].old = data[us[u].oldOf].memo
  BY <1>0, InWriting
<1>3. /\ (us[u].valid \/ us[u].fresh) /\ ~us[u].given => us[u].id = data[us[u].rec].memo
      /\ us[u].changed => us[u].given /\ us[u].text \in Text \cup {Empty}
      /\ us[u].given => us[u].text \in Text \cup {Empty, Unread}
      /\ us[u].rec > 0 => us[u].given
      /\ us[u].text \in Text
  BY <1>0, InWriting
<1>4. /\ v \in UserState /\ v.rec = us[u].rec /\ v.text = us[u].text /\ v.given = us[u].given
      /\ v.changed = us[u].changed /\ v.was = us[u].was /\ v.oldOf = us[u].oldOf /\ v.old = us[u].old
      /\ v.pc = "text" /\ v.id = us[u].id /\ v.n = n /\ v.valid = us[u].valid /\ v.fresh = us[u].fresh
  BY <1>0 DEF UserState, Codes
<1> HIDE DEF v
<1>5. us' \in [User -> UserState] /\ us'[u] = v
  BY <1>0, <1>1, <1>4, OneSteps
<1>6. n \in 1..MaxBlock
  <2>1. Whole
    BY <1>0, WholeWhenWriting
  <2>2. PICK lot : Lot(lot, Own(u), n, len)
    BY <1>0, <2>1 DEF LotsOK, LotsOfUser
  <2> QED BY <1>0, <2>2, LotInFile
<1>7. len \in Nat /\ len = Size[us[u].text]
  BY <1>3, LengthsAre
<1> HIDE DEF len
<1>8. /\ blocks' \in [1..MaxBlock -> [size : Nat, piece : Pieces]] /\ blocks'[n].size = len
      /\ \A b \in 1..MaxBlock : /\ b # n => blocks'[b].size = blocks[b].size
                                /\ blocks'[b].piece = blocks[b].piece
  BY <1>0, <1>1, <1>6, <1>7 DEF TypeOK
<1>9. TypeOK'
  BY <1>0, <1>1, <1>5, <1>8 DEF TypeOK
<1>10. UserOK(u)'
  <2>1. us'[u].pc = "text" /\ us'[u].pc \in Writes /\ Own(u)' = Own(u) /\ data' = data
    BY <1>1, <1>4, <1>5 DEF Writes, Own
  <2>2. TextOK(u)'
    BY <1>4, <1>5, <1>7, <1>8 DEF TextOK
  <2> QED BY <1>1, <1>2, <1>3, <1>4, <1>5, <2>1, <2>2, AtWriting
<1>11. Own(u) \in DOMAIN data /\ data[Own(u)].memo = n => WritesOver(v)
  <2> SUFFICES ASSUME Own(u) \in DOMAIN data, data[Own(u)].memo = n PROVE WritesOver(v)
    OBVIOUS
  <2>1. us[u].rec # 0
    BY <1>0, InBounds DEF Own
  <2> QED BY <1>2, <1>4, <2>1 DEF WritesOver, Own
<1>12. n = us[u].n /\ len = Length(us[u].text) /\ us[u].pc \in {"head", "text"}
  BY <1>0 DEF len
<1> HIDE DEF n
<1>13. \A b \in 1..MaxBlock : b # n => blocks'[b].size = blocks[b].size
  BY <1>8
<1>14. \A b \in 1..MaxBlock : b \notin n..(n + len - 1) => blocks'[b].piece = blocks[b].piece
  BY <1>8
<1>15. v.rec = us[u].rec /\ v.text = us[u].text /\ v.id \in {us[u].id, n} /\ v.pc = "text" /\ v.n = n
  BY <1>4 DEF n
<1>16. PICK m, l : m = n /\ l = len
  OBVIOUS
<1>17. /\ m = us[u].n /\ l = Length(us[u].text) /\ blocks'[m].size = l
       /\ \A b \in 1..MaxBlock : b # m => blocks'[b].size = blocks[b].size
       /\ \A b \in 1..MaxBlock : b \notin m..(m + l - 1) => blocks'[b].piece = blocks[b].piece
       /\ v.rec = us[u].rec /\ v.text = us[u].text /\ v.id \in {us[u].id, m} /\ (v.pc = "text" /\ v.n = m)
       /\ (Own(u) \in DOMAIN data /\ data[Own(u)].memo = m => WritesOver(v))
  BY <1>8, <1>11, <1>12, <1>13, <1>14, <1>15, <1>16
<1>18. Dumps(u, v, m, l)
  BY <1>1, <1>12, <1>17 DEF Dumps
<1> QED BY <1>4, <1>9, <1>10, <1>18, LotWritten

LEMMA DumpTextKeeps ==
  ASSUME IInv, NEW u \in User, DumpText(u)
  PROVE  IInv'
<1> DEFINE v == [us[u] EXCEPT !.id = us[u].n, !.n = 0, !.pc = "store"]
           t == us[u].text
           len == Length(us[u].text)
           n == us[u].n
           Piece(b) == IF b \in n..(n + len - 1) THEN <<t, b - n + 1>> ELSE blocks[b].piece
<1>0. TypeOK /\ LotsOK /\ (\A w \in User : UserOK(w)) /\ us[u] \in UserState
      /\ us[u].pc = "text" /\ us[u].pc \in Writes
  BY OfEveryone DEF TypeOK, DumpText, Writes
<1>1. /\ us' = [us EXCEPT ![u] = v]
      /\ blocks' = [b \in DOMAIN blocks |-> [blocks[b] EXCEPT !.piece = Piece(b)]]
      /\ UNCHANGED <<data, next, locks, said>> /\ rlock' = rlock /\ alock' = alock /\ mlock' = mlock
  BY DEF DumpText, Me, locks
<1>2. /\ us[u].was = << >> /\ us[u].rec \in Nat /\ us[u].rec <= Len(data)
      /\ Own(u) <= MaxRec /\ rlock[Own(u)] = u /\ (us[u].rec = 0 => alock = u)
      /\ us[u].rec = 0 => /\ us[u].oldOf = -1 /\ ~us[u].valid /\ ~us[u].fresh
                          /\ ~us[u].changed
      /\ us[u].oldOf # -1 => /\ us[u].oldOf \in DOMAIN data /\ rlock[us[u].oldOf] = u
                             /\ us[u].old = data[us[u].oldOf].memo
  BY <1>0, InWriting
<1>3. /\ us[u].changed => us[u].given /\ us[u].text \in Text \cup {Empty}
      /\ us[u].rec > 0 => us[u].given
      /\ t \in Text /\ n \in Nat
  BY <1>0, InWriting
<1>4. /\ v \in UserState /\ v.rec = us[u].rec /\ v.text = t /\ v.given = us[u].given
      /\ v.changed = us[u].changed /\ v.was = us[u].was /\ v.oldOf = us[u].oldOf /\ v.old = us[u].old
      /\ v.pc = "store" /\ v.id = n /\ v.valid = us[u].valid /\ v.fresh = us[u].fresh
  BY <1>0, <1>3 DEF UserState, Codes
<1> HIDE DEF v
<1>5. us' \in [User -> UserState] /\ us'[u] = v
  BY <1>0, <1>1, <1>4, OneSteps
<1>6. n \in 1..MaxBlock /\ n + len <= MaxBlock + 1
  <2>1. Whole
    BY <1>0, WholeWhenWriting
  <2>2. PICK lot : Lot(lot, Own(u), n, len)
    BY <1>0, <2>1 DEF LotsOK, LotsOfUser
  <2>3. n \in 1..MaxBlock /\ n + len <= next
    BY <1>0, <2>2, LotInFile
  <2>4. len \in Nat /\ next \in 1..(MaxBlock + 1) /\ MaxBlock \in Nat
    BY <1>0, LengthsAre, BoundAssumption DEF TypeOK
  <2> QED BY <2>3, <2>4
<1>7. len \in Nat /\ len = Size[t] /\ blocks[n].size = Size[t] /\ MaxBlock \in Nat
  <2>1. len \in Nat /\ len = Size[t] /\ MaxBlock \in Nat
    BY <1>3, LengthsAre, BoundAssumption
  <2>2. blocks[n].size = Size[t]
    BY <1>0 DEF UserOK, TextOK
  <2> QED BY <2>1, <2>2
<1> HIDE DEF len, t, n
<1>8. /\ DOMAIN blocks = 1..MaxBlock /\ DOMAIN blocks' = 1..MaxBlock
      /\ blocks' \in [1..MaxBlock -> [size : Nat, piece : Pieces]]
      /\ \A b \in 1..MaxBlock : /\ blocks'[b].size = blocks[b].size /\ blocks'[b].piece = Piece(b)
  <2>1. \A b \in 1..MaxBlock : Piece(b) \in Pieces
    <3> SUFFICES ASSUME NEW b \in 1..MaxBlock, b \in n..(n + len - 1) PROVE b - n + 1 \in Nat
      BY <1>0, <1>3 DEF TypeOK, Pieces
    <3> QED BY <1>6, <1>7
  <2> HIDE DEF Piece
  <2> QED BY <1>0, <1>1, <2>1 DEF TypeOK
<1>9. TypeOK'
  BY <1>0, <1>1, <1>5, <1>8 DEF TypeOK
<1>10. \A id, s : id = n /\ s = t => Written(id, s)'
  <2> SUFFICES ASSUME NEW id, NEW s, id = n, s = t PROVE Written(id, s)'
    OBVIOUS
  <2>1. id \in DOMAIN blocks' /\ blocks'[id].size = Size[s]
    BY <1>6, <1>7, <1>8
  <2>2. ASSUME NEW k \in 1..Size[s] PROVE id + k - 1 \in DOMAIN blocks' /\ blocks'[id + k - 1].piece = <<s, k>>
    <3>1. id + k - 1 \in 1..MaxBlock /\ id + k - 1 \in n..(n + len - 1) /\ (id + k - 1) - n + 1 = k
      BY <1>6, <1>7
    <3> QED BY <1>8, <3>1
  <2> QED BY <2>1, <2>2 DEF Written
<1>11. UserOK(u)'
  <2>1. us'[u].pc = "store" /\ us'[u].pc \in Writes /\ Own(u)' = Own(u) /\ data' = data
    BY <1>1, <1>4, <1>5 DEF Writes, Own
  <2>2. PICK id, s : id = n /\ s = t
    OBVIOUS
  <2>3. Written(id, s)' /\ us'[u].id = id /\ us'[u].text = s
    BY <1>4, <1>5, <1>10, <2>2
  <2>4. Written(us[u].id, us[u].text)'
    BY <2>3 DEF Written
  <2>5. TextOK(u)'
    BY <1>3, <1>4, <1>5, <2>4 DEF TextOK
  <2> QED BY <1>1, <1>2, <1>3, <1>4, <1>5, <2>1, <2>5, AtWriting
<1>12. Own(u) \in DOMAIN data /\ data[Own(u)].memo = n => WritesOver(v)
  <2> SUFFICES ASSUME Own(u) \in DOMAIN data, data[Own(u)].memo = n PROVE WritesOver(v)
    OBVIOUS
  <2>1. us[u].rec # 0
    BY <1>0, InBounds DEF Own
  <2> QED BY <1>2, <1>3, <1>4, <2>1 DEF WritesOver, Own
<1>13. \A b \in 1..MaxBlock : b \notin n..(n + len - 1) => blocks'[b].piece = blocks[b].piece
  BY <1>8
<1>14. n = us[u].n /\ len = Length(us[u].text) /\ us[u].pc \in {"head", "text"} /\ blocks'[n].size = len
  BY <1>0, <1>6, <1>7, <1>8 DEF len, n
<1>15. \A b \in 1..MaxBlock : b # n => blocks'[b].size = blocks[b].size
  BY <1>8
<1>16. v.rec = us[u].rec /\ v.text = us[u].text /\ v.id \in {us[u].id, n} /\ v.pc = "store"
  BY <1>4 DEF n, t
<1>17. PICK m, l : m = n /\ l = len
  OBVIOUS
<1>18. /\ m = us[u].n /\ l = Length(us[u].text) /\ blocks'[m].size = l
       /\ \A b \in 1..MaxBlock : b # m => blocks'[b].size = blocks[b].size
       /\ \A b \in 1..MaxBlock : b \notin m..(m + l - 1) => blocks'[b].piece = blocks[b].piece
       /\ v.rec = us[u].rec /\ v.text = us[u].text /\ v.id \in {us[u].id, m} /\ v.pc = "store"
       /\ (Own(u) \in DOMAIN data /\ data[Own(u)].memo = m => WritesOver(v))
  BY <1>12, <1>13, <1>14, <1>15, <1>16, <1>17
<1>19. Dumps(u, v, m, l)
  BY <1>1, <1>14, <1>18 DEF Dumps
<1> QED BY <1>4, <1>9, <1>11, <1>19, LotWritten

------------------------------------------------------------------------------
(* A record is written. *)

(* What a writer leaves in the record it writes is what it says of it. *)
LEMMA SaidIsWritten ==
  ASSUME TypeOK, NEW u \in User, UserOK(u), us[u].pc = "store", us[u].given \/ us[u].rec = 0
  PROVE  Meant(us[u]) \in {Unknown, MemoAt(us[u].id)}
<1>1. IF us[u].text \in Text THEN Written(us[u].id, us[u].text) ELSE us[u].id = 0
  BY DEF UserOK, TextOK
<1>2. us[u].text \in Said \cup {Unread} /\ us[u] \in UserState
  BY DEF TypeOK, UserState
<1>3. blocks \in [1..MaxBlock -> [size : Nat, piece : Pieces]]
  BY DEF TypeOK
<1>4. CASE us[u].text \in Text
  <2>1. MemoAt(us[u].id) = us[u].text
    BY <1>1, <1>3, <1>4, TextIsWritten
  <2>2. us[u].text # Unread
    BY <1>4, NameAssumption
  <2> QED BY <2>1, <2>2 DEF Meant
<1>5. CASE us[u].text \notin Text
  BY <1>1, <1>2, <1>5, NoMemo DEF Meant, Said
<1> QED BY <1>4, <1>5

LEMMA MeantIs ==
  ASSUME NEW x \in UserState
  PROVE  Meant(x) \in Said /\ Stored(x) \in Record /\ Stored(x).memo = x.id
BY DEF Meant, Stored, Said, Record, UserState

LEMMA StoreKeeps ==
  ASSUME IInv, Careless = {}, NEW u \in User, Store(u)
  PROVE  IInv'
<1> DEFINE y == [us[u] EXCEPT !.pc = "idle", !.given = FALSE, !.old = 0, !.oldOf = -1]
           v == Reset(y)
           r0 == us[u].rec
<1>0. TypeOK /\ LotsOK /\ SaidOK /\ (\A w \in User : UserOK(w)) /\ us[u] \in UserState
      /\ us[u].pc = "store" /\ us[u].pc \in Writes /\ us[u].rec # 0
  BY OfEveryone DEF TypeOK, Store, Writes
<1>1. /\ data' = [data EXCEPT ![r0] = Stored(us[u])]
      /\ said' = (IF us[u].given THEN [said EXCEPT ![r0] = Meant(us[u])] ELSE said)
      /\ us' = [us EXCEPT ![u] = v] /\ UNCHANGED locks
      /\ blocks' = blocks /\ next' = next /\ rlock' = rlock /\ alock' = alock /\ mlock' = mlock
  BY DEF Store, Me, locks
<1>2. /\ us[u].was = << >> /\ r0 \in DOMAIN data /\ Own(u) = r0 /\ rlock[r0] = u
      /\ us[u].given \/ us[u].valid
      /\ us[u].valid /\ ~us[u].given => us[u].id = data[r0].memo
      /\ r0 \in Nat \ {0} /\ r0 <= Len(data) /\ Len(data) \in Nat /\ DOMAIN said = DOMAIN data
  BY <1>0, InWriting, InBounds
<1>3. Meant(us[u]) \in Said /\ Stored(us[u]) \in Record /\ Stored(us[u]).memo = us[u].id
  BY <1>0, MeantIs
<1>4. /\ y \in UserState /\ y.pc = "idle" /\ y.was = us[u].was /\ y.rec = r0 /\ y.id = us[u].id
      /\ y.oldOf = -1 /\ y.valid = us[u].valid /\ y.fresh = us[u].fresh
  BY <1>0 DEF UserState, Codes
<1> HIDE DEF y, r0
<1>5. /\ v \in UserState /\ v.pc = "idle" /\ v.was = << >> /\ v.rec = r0 /\ v.id = us[u].id
      /\ v.oldOf = -1 /\ v.valid = us[u].valid /\ v.fresh = us[u].fresh
      /\ v.text = Unread /\ ~v.changed /\ ~v.given
  BY <1>2, <1>4, ResetIs
<1> HIDE DEF v
<1>6. us' \in [User -> UserState] /\ us'[u] = v /\ \A w \in User : w # u => us'[w] = us[w]
  BY <1>0, <1>1, <1>5, OneSteps
<1>7. /\ data' \in Seq(Record) /\ Len(data') = Len(data) /\ data'[r0].memo = us[u].id
      /\ \A r \in DOMAIN data : r # r0 => data'[r] = data[r]
      /\ DOMAIN data' = DOMAIN data
  BY <1>0, <1>1, <1>2, <1>3 DEF TypeOK
<1>8. /\ said' \in Seq(Said) /\ Len(said') = Len(said)
      /\ said'[r0] = IF us[u].given THEN Meant(us[u]) ELSE said[r0]
      /\ \A r \in DOMAIN data : r # r0 => said'[r] = said[r]
  <2>1. said \in Seq(Said) /\ r0 \in DOMAIN said
    BY <1>0, <1>2 DEF TypeOK
  <2>2. CASE us[u].given
    BY <1>1, <1>2, <1>3, <2>1, <2>2
  <2>3. CASE ~us[u].given
    BY <1>1, <2>1, <2>3
  <2> QED BY <2>2, <2>3
<1>9. TypeOK'
  BY <1>0, <1>1, <1>6, <1>7, <1>8 DEF TypeOK
<1>10. LockStep(u)
  BY <1>0, <1>1, LocksUnchanged
<1>11. UserOK(u)'
  <2>1. us'[u].rec \in Nat /\ us'[u].rec <= Len(data') /\ us'[u].rec > 0 /\ us'[u].rec # 0
    BY <1>2, <1>5, <1>6, <1>7
  <2>2. Holds(u, us[u].rec)'
    BY <1>1, <1>2, <1>5, <1>6 DEF Holds
  <2>3. us'[u].id = data'[us'[u].rec].memo
    BY <1>5, <1>6, <1>7
  <2> QED BY <1>5, <1>6, <2>1, <2>2, <2>3, AtRest
<1>12. \A w \in User : UserOK(w)'
  <2> SUFFICES ASSUME NEW w \in User, w # u PROVE UserOK(w)'
    BY <1>11
  <2>1. \A r \in DOMAIN data : ~Holds(u, r) => data'[r] = data[r] /\ said'[r] = said[r]
    BY <1>2, <1>7, <1>8 DEF Holds
  <2>2. Written(us[w].id, us[w].text) => Written(us[w].id, us[w].text)'
    BY <1>1, <1>6 DEF Written
  <2>3. Spares(u, w)
    BY <1>1, <1>6, <1>7, <2>1, <2>2 DEF Spares
  <2> QED BY <1>0, <1>9, <1>10, <2>3, Bystander
<1>13. Whole /\ \A w \in User : us[w].pc # "replace"
  BY <1>0, WholeWhenWriting
<1>14. Whole' /\ \A w \in User : ReplaceOK(w)'
  BY <1>5, <1>6, <1>13, WholeAfter
<1>15. Own(u)' = Own(u) /\ \A w \in User : w # u => Own(w)' = Own(w)
  BY <1>2, <1>5, <1>6, <1>7 DEF Own
<1>16. LotsOK'
  <2>1. PICK lot : LotsOf(lot, Memos) /\ \A w \in User : LotsOfUser(lot, w)
    BY <1>0, <1>13 DEF LotsOK
  <2>2. \A o, i, l : Lot(lot, o, i, l)' <=> Lot(lot, o, i, l)
    BY <1>1 DEF Lot
  <2>3. LotsOf(lot, Memos)'
    <3> SUFFICES ASSUME NEW r \in DOMAIN data, data'[r].memo # 0
                 PROVE  Lot(lot, r, data[r].memo, blocks[data[r].memo].size)'
      BY <1>7 DEF LotsOf, Memos
    <3>0. PICK i : i = data'[r].memo
      OBVIOUS
    <3>1. CASE r = r0
      <4>1. Lot(lot, r, i, blocks[i].size)
        BY <1>2, <1>7, <2>1, <3>0, <3>1 DEF LotsOfUser
      <4> QED BY <1>1, <2>2, <3>0, <4>1
    <3>2. CASE r # r0
      <4>1. Lot(lot, r, i, blocks[i].size)
        BY <1>7, <2>1, <3>0, <3>2 DEF LotsOf, Memos
      <4> QED BY <1>1, <2>2, <3>0, <4>1
    <3> QED BY <3>1, <3>2
  <2>4. ASSUME NEW w \in User PROVE LotsOfUser(lot, w)'
    <3>1. us'[w].id = us[w].id
      BY <1>5, <1>6
    <3>2. Own(w)' = Own(w)
      BY <1>15
    <3>3. us'[w].pc \in {"head", "text"} => us'[w] = us[w]
      BY <1>5, <1>6
    <3> QED BY <1>1, <2>1, <2>2, <3>1, <3>2, <3>3 DEF LotsOfUser, Lot, Length
  <2> QED BY <2>3, <2>4 DEF LotsOK
<1>17. SaidOK'
  <2> SUFFICES ASSUME NEW r \in DOMAIN data PROVE (said[r] \in {Unknown, MemoAt(data[r].memo)} \/ WrittenOver(r))'
    BY <1>7 DEF SaidOK
  <2>1. said[r] \in {Unknown, MemoAt(data[r].memo)} \/ WrittenOver(r)
    BY <1>0, <1>13 DEF SaidOK
  <2>2. \A id : MemoAt(id)' = MemoAt(id)
    BY <1>1, StaysOnDisk
  <2>3. CASE r = r0
    <3>1. CASE us[u].given
      <4>1. said'[r] \in {Unknown, MemoAt(us[u].id)}
        BY <1>0, <1>8, <2>3, <3>1, SaidIsWritten
      <4>2. data'[r].memo = us[u].id
        BY <1>7, <2>3
      <4>3. MemoAt(data[r].memo)' = MemoAt(us[u].id)
        BY <2>2, <4>2
      <4> QED BY <4>1, <4>3
    <3>2. CASE ~us[u].given
      <4>1. ~WrittenOver(r)
        <5> SUFFICES ASSUME NEW w \in User, us[w].rec = r, WritesOver(us[w]) PROVE FALSE
          BY DEF WrittenOver
        <5>1. us[w].pc \in Writes /\ w # u
          BY <1>0, <3>2 DEF WritesOver, Writes
        <5>2. rlock[Own(w)] = w /\ Own(w) = r
          BY <1>0, <1>2, <2>3, <5>1, InWriting
        <5> QED BY <1>2, <2>3, <5>1, <5>2
      <4>2. data'[r].memo = data[r].memo /\ said'[r] = said[r]
        BY <1>2, <1>7, <1>8, <2>3, <3>2
      <4>3. MemoAt(data[r].memo)' = MemoAt(data[r].memo)
        BY <2>2, <4>2
      <4> QED BY <2>1, <4>1, <4>2, <4>3
    <3> QED BY <3>1, <3>2
  <2>4. CASE r # r0
    <3>1. data'[r] = data[r] /\ said'[r] = said[r]
      BY <1>7, <1>8, <2>4
    <3>2. CASE WrittenOver(r)
      <4>1. PICK w \in User : us[w].rec = r /\ WritesOver(us[w])
        BY <3>2 DEF WrittenOver
      <4>2. w # u
        BY <2>4, <4>1 DEF r0
      <4> QED BY <1>6, <3>1, <4>1, <4>2 DEF WrittenOver, WritesOver
    <3>3. MemoAt(data[r].memo)' = MemoAt(data[r].memo)
      BY <2>2, <3>1
    <3> QED BY <2>1, <3>1, <3>2, <3>3
  <2> QED BY <2>3, <2>4
<1> QED BY <1>9, <1>12, <1>14, <1>16, <1>17, ForEveryone

LEMMA StoreNewKeeps ==
  ASSUME IInv, NEW u \in User, StoreNew(u)
  PROVE  IInv'
<1> DEFINE v == [us[u] EXCEPT !.rec = Len(data) + 1, !.pc = "idle", !.given = FALSE]
           r0 == Len(data) + 1
<1>0. TypeOK /\ LotsOK /\ SaidOK /\ (\A w \in User : UserOK(w)) /\ us[u] \in UserState
      /\ us[u].pc = "store" /\ us[u].pc \in Writes /\ us[u].rec = 0
  BY OfEveryone DEF TypeOK, StoreNew, Writes
<1>1. /\ data' = Append(data, Stored(us[u])) /\ said' = Append(said, Meant(us[u]))
      /\ us' = [us EXCEPT ![u] = v] /\ alock' = NoOne
      /\ blocks' = blocks /\ next' = next /\ rlock' = rlock /\ mlock' = mlock
  BY DEF StoreNew, Me
<1>2. /\ us[u].was = << >> /\ Own(u) = r0 /\ r0 <= MaxRec /\ alock = u
      /\ us[u].oldOf = -1 /\ ~us[u].valid /\ ~us[u].fresh /\ ~us[u].changed
      /\ r0 \in Nat \ {0} /\ Len(data) \in Nat /\ DOMAIN data = 1..Len(data) /\ Len(said) = Len(data)
  <2>1. Own(u) = r0
    BY <1>0 DEF Own
  <2>2. Len(data) \in Nat /\ DOMAIN data = 1..Len(data) /\ Len(said) = Len(data)
    BY <1>0 DEF TypeOK
  <2>3. Own(u) <= MaxRec /\ us[u].was = << >> /\ alock = u
        /\ us[u].oldOf = -1 /\ ~us[u].valid /\ ~us[u].fresh /\ ~us[u].changed
    BY <1>0, InWriting
  <2>4. r0 \in Nat \ {0}
    BY <2>2
  <2> QED BY <2>1, <2>2, <2>3, <2>4
<1>3. Meant(us[u]) \in Said /\ Stored(us[u]) \in Record /\ Stored(us[u]).memo = us[u].id
  BY <1>0, MeantIs
<1>4. /\ v \in UserState /\ v.pc = "idle" /\ v.was = us[u].was /\ v.rec = r0 /\ v.id = us[u].id
      /\ v.oldOf = us[u].oldOf /\ v.valid = us[u].valid /\ v.fresh = us[u].fresh
      /\ ~v.given /\ v.changed = us[u].changed
  BY <1>0, <1>2 DEF UserState, Codes
<1> HIDE DEF v
<1>5. us' \in [User -> UserState] /\ us'[u] = v /\ \A w \in User : w # u => us'[w] = us[w]
  BY <1>0, <1>1, <1>4, OneSteps
<1>6. /\ data' \in Seq(Record) /\ Len(data') = r0 /\ data'[r0] = Stored(us[u])
      /\ \A r \in DOMAIN data : data'[r] = data[r]
      /\ DOMAIN data' = 1..r0
  <2>1. data \in Seq(Record)
    BY <1>0 DEF TypeOK
  <2> QED BY <1>1, <1>3, <2>1
<1>7. /\ said' \in Seq(Said) /\ Len(said') = r0 /\ said'[r0] = Meant(us[u])
      /\ \A r \in DOMAIN data : said'[r] = said[r]
  <2>1. said \in Seq(Said) /\ DOMAIN said = DOMAIN data
    BY <1>0, InBounds DEF TypeOK
  <2> QED BY <1>1, <1>2, <1>3, <2>1
<1>8. \A r \in DOMAIN data' : r \in DOMAIN data \/ r = r0
  BY <1>2, <1>6
<1>9. r0 \notin DOMAIN data /\ r0 \in DOMAIN data' /\ r0 # 0 /\ \A r \in DOMAIN data : r \in DOMAIN data' /\ r # 0
  BY <1>2, <1>6
<1>10. TypeOK'
  BY <1>0, <1>1, <1>2, <1>5, <1>6, <1>7 DEF TypeOK
<1>11. LockStep(u)
  BY <1>0, <1>1, <1>2 DEF TypeOK, LockStep
<1>12. UserOK(u)'
  <2>1. us'[u].rec \in Nat /\ us'[u].rec <= Len(data') /\ us'[u].rec # 0
    BY <1>2, <1>4, <1>5, <1>6
  <2> HIDE DEF r0
  <2> QED BY <1>2, <1>4, <1>5, <2>1, AtRest
<1>13. \A w \in User : UserOK(w)'
  <2> SUFFICES ASSUME NEW w \in User, w # u PROVE UserOK(w)'
    BY <1>12
  <2>1. Written(us[w].id, us[w].text) => Written(us[w].id, us[w].text)'
    BY <1>1, <1>5 DEF Written
  <2>2. Spares(u, w)
    BY <1>1, <1>2, <1>5, <1>6, <1>7, <2>1 DEF Spares
  <2> QED BY <1>0, <1>10, <1>11, <2>2, Bystander
<1>14. Whole /\ \A w \in User : us[w].pc # "replace"
  BY <1>0, WholeWhenWriting
<1>15. Whole' /\ \A w \in User : ReplaceOK(w)'
  BY <1>4, <1>5, <1>14, WholeAfter
<1>16. ASSUME NEW w \in User, us[w].rec # 0 PROVE Own(w)' = Own(w)
  <2>1. w # u
    BY <1>0, <1>16
  <2> QED BY <1>5, <1>16, <2>1 DEF Own
<1>17. ASSUME NEW w \in User, w # u, us[w].rec = 0 PROVE us[w].id = 0 /\ us[w].pc \notin {"head", "text"}
  <2>1. us[w].pc \in Writes => alock = w
    BY <1>0, <1>17 DEF UserOK, LocksOK
  <2>2. us[w].pc \notin Writes
    BY <1>2, <1>17, <2>1
  <2> QED BY <1>0, <1>17, <2>2 DEF UserOK, AwayOK, Writes
<1>18. Own(u)' = r0
  BY <1>4, <1>5, <1>9 DEF Own
<1> HIDE DEF r0
<1>19. LotsOK'
  <2>1. PICK lot : LotsOf(lot, Memos) /\ \A w \in User : LotsOfUser(lot, w)
    BY <1>0, <1>14 DEF LotsOK
  <2>2. \A o, i, l : Lot(lot, o, i, l)' <=> Lot(lot, o, i, l)
    BY <1>1 DEF Lot
  <2>3. us[u].id # 0 => Lot(lot, r0, us[u].id, blocks[us[u].id].size)
    BY <1>2, <2>1 DEF LotsOfUser
  <2>4. LotsOf(lot, Memos)'
    <3> SUFFICES ASSUME NEW r \in DOMAIN data', data'[r].memo # 0
                 PROVE  Lot(lot, r, data[r].memo, blocks[data[r].memo].size)'
      BY DEF LotsOf, Memos
    <3>0. PICK i : i = data'[r].memo
      OBVIOUS
    <3>1. CASE r = r0
      <4>1. Lot(lot, r, i, blocks[i].size)
        BY <1>3, <1>6, <2>3, <3>0, <3>1
      <4> QED BY <1>1, <2>2, <3>0, <4>1
    <3>2. CASE r \in DOMAIN data
      <4>1. Lot(lot, r, i, blocks[i].size)
        BY <1>6, <2>1, <3>0, <3>2 DEF LotsOf, Memos
      <4> QED BY <1>1, <2>2, <3>0, <4>1
    <3> QED BY <1>8, <3>1, <3>2
  <2>5. ASSUME NEW w \in User PROVE LotsOfUser(lot, w)'
    <3>1. CASE w = u
      <4>1. us'[u].id = us[u].id /\ us'[u].pc = "idle"
        BY <1>4, <1>5
      <4> QED BY <1>1, <1>18, <2>2, <2>3, <3>1, <4>1 DEF LotsOfUser, Lot
    <3>2. CASE w # u /\ us[w].rec = 0
      <4>1. us'[w].id = 0 /\ us'[w].pc \notin {"head", "text"}
        BY <1>5, <1>17, <3>2
      <4> QED BY <4>1 DEF LotsOfUser
    <3>3. CASE w # u /\ us[w].rec # 0
      <4>1. us'[w] = us[w] /\ Own(w)' = Own(w)
        BY <1>5, <1>16, <3>3
      <4> QED BY <1>1, <2>1, <4>1 DEF LotsOfUser, Lot, Length
    <3> QED BY <3>1, <3>2, <3>3
  <2> QED BY <2>4, <2>5 DEF LotsOK
<1>20. SaidOK'
  <2> SUFFICES ASSUME NEW r \in DOMAIN data' PROVE (said[r] \in {Unknown, MemoAt(data[r].memo)} \/ WrittenOver(r))'
    BY DEF SaidOK
  <2>1. \A id : MemoAt(id)' = MemoAt(id)
    BY <1>1, StaysOnDisk
  <2>2. CASE r = r0
    <3>1. said'[r] \in {Unknown, MemoAt(us[u].id)}
      BY <1>0, <1>7, <2>2, SaidIsWritten
    <3>2. data'[r].memo = us[u].id
      BY <1>3, <1>6, <2>2
    <3>3. MemoAt(data[r].memo)' = MemoAt(us[u].id)
      BY <2>1, <3>2
    <3> QED BY <3>1, <3>3
  <2>3. CASE r \in DOMAIN data
    <3>1. data'[r] = data[r] /\ said'[r] = said[r] /\ r # 0
      BY <1>6, <1>7, <1>9, <2>3
    <3>2. said[r] \in {Unknown, MemoAt(data[r].memo)} \/ WrittenOver(r)
      BY <1>0, <1>14, <2>3 DEF SaidOK
    <3>3. CASE WrittenOver(r)
      <4>1. PICK w \in User : us[w].rec = r /\ WritesOver(us[w])
        BY <3>3 DEF WrittenOver
      <4>2. w # u
        BY <1>0, <3>1, <4>1
      <4> QED BY <1>5, <3>1, <4>1, <4>2 DEF WrittenOver, WritesOver
    <3>4. MemoAt(data[r].memo)' = MemoAt(data[r].memo)
      BY <2>1, <3>1
    <3> QED BY <3>1, <3>2, <3>3, <3>4
  <2> QED BY <1>8, <2>2, <2>3
<1> QED BY <1>10, <1>13, <1>15, <1>19, <1>20, ForEveryone

------------------------------------------------------------------------------
(* A user dies. *)

LEMMA DieKeeps ==
  ASSUME IInv, Careless = {}, NEW u \in User, Die(u)
  PROVE  IInv'
<1> DEFINE v == Away(us[u].rlk)
           r0 == us[u].rec
<1>0. TypeOK /\ LotsOK /\ SaidOK /\ (\A w \in User : UserOK(w)) /\ us[u] \in UserState
      /\ us[u].pc # "replace" /\ UNCHANGED disk /\ us[u].rlk \in BOOLEAN
  BY OfEveryone DEF TypeOK, Die, UserState
<1>1. /\ us' = [us EXCEPT ![u] = v] /\ GivesAllBack(u)
      /\ data' = data /\ blocks' = blocks /\ next' = next
      /\ said' = IF WritesOver(us[u]) THEN [said EXCEPT ![r0] = Unknown] ELSE said
  BY DEF Die, Me, disk
<1>2. LockStep(u)
  BY <1>0, <1>1, GivingBack
<1>3. v \in UserState /\ v.id = 0 /\ v.pc = "idle"
  BY <1>0, AwayIs DEF Away
<1>4. us' \in [User -> UserState] /\ us'[u] = v /\ \A w \in User : w # u => us'[w] = us[w]
  BY <1>0, <1>1, <1>3, OneSteps
<1>5. UserOK(u)'
  BY <1>0, <1>1, <1>4, InBounds, AtNone
<1> HIDE DEF v
<1>6. CASE ~WritesOver(us[u])
  <2>1. UNCHANGED <<disk, said>>
    BY <1>0, <1>1, <1>6
  <2> QED BY <1>0, <1>1, <1>2, <1>3, <1>5, <1>6, <2>1, Quiet
<1>7. CASE WritesOver(us[u])
  <2>1. us[u].pc \in Writes
    BY <1>7 DEF WritesOver, Writes
  <2>2. r0 > 0 /\ r0 \in DOMAIN data /\ rlock[r0] = u /\ r0 \in DOMAIN said
    BY <1>0, <1>7, <2>1, InWriting, InBounds DEF WritesOver
  <2> HIDE DEF r0
  <2>3. /\ said' \in Seq(Said) /\ Len(said') = Len(said) /\ said'[r0] = Unknown
        /\ \A r \in DOMAIN data : r # r0 => said'[r] = said[r]
    BY <1>0, <1>1, <1>7, <2>2, InBounds DEF TypeOK, Said
  <2>4. TypeOK'
    BY <1>0, <1>1, <1>2, <1>4, <2>3 DEF TypeOK, LockStep
  <2>5. \A w \in User : UserOK(w)'
    <3> SUFFICES ASSUME NEW w \in User, w # u PROVE UserOK(w)'
      BY <1>5
    <3>1. \A r \in DOMAIN data : ~Holds(u, r) => data'[r] = data[r] /\ said'[r] = said[r]
      BY <1>1, <2>2, <2>3 DEF Holds
    <3>2. Written(us[w].id, us[w].text) => Written(us[w].id, us[w].text)'
      BY <1>1, <1>4 DEF Written
    <3>3. Spares(u, w)
      BY <1>1, <1>4, <3>1, <3>2 DEF Spares
    <3> QED BY <1>0, <1>2, <2>4, <3>3, Bystander
  <2>6. Whole /\ \A w \in User : us[w].pc # "replace"
    BY <2>1, WholeWhenWriting
  <2>7. Whole' /\ \A w \in User : ReplaceOK(w)'
    BY <1>3, <1>4, <2>6, WholeAfter
  <2>8. LotsOK'
    <3>1. PICK lot : LotsOf(lot, Memos) /\ \A w \in User : LotsOfUser(lot, w)
      BY <1>0, <2>6 DEF LotsOK
    <3>2. LotsOf(lot, Memos)'
      BY <1>1, <3>1 DEF LotsOf, Memos, Lot
    <3>3. ASSUME NEW w \in User PROVE LotsOfUser(lot, w)'
      <4>1. CASE w = u
        BY <1>3, <1>4, <4>1 DEF LotsOfUser
      <4>2. CASE w # u
        <5>1. us'[w] = us[w] /\ Own(w)' = Own(w)
          BY <1>1, <1>4, <4>2 DEF Own
        <5> QED BY <1>1, <3>1, <5>1 DEF LotsOfUser, Lot, Length
      <4> QED BY <4>1, <4>2
    <3> QED BY <3>2, <3>3 DEF LotsOK
  <2>9. SaidOK'
    <3> SUFFICES ASSUME NEW r \in DOMAIN data, r # r0
                 PROVE  (said[r] \in {Unknown, MemoAt(data[r].memo)} \/ WrittenOver(r))'
      BY <1>1, <2>3 DEF SaidOK
    <3>1. said[r] \in {Unknown, MemoAt(data[r].memo)} \/ WrittenOver(r)
      BY <1>0, <2>6 DEF SaidOK
    <3>2. CASE WrittenOver(r)
      <4>1. PICK w \in User : us[w].rec = r /\ WritesOver(us[w])
        BY <3>2 DEF WrittenOver
      <4>2. w # u
        BY <4>1 DEF r0
      <4> QED BY <1>1, <1>4, <4>1, <4>2 DEF WrittenOver, WritesOver
    <3>3. \A id : MemoAt(id)' = MemoAt(id)
      BY <1>1, StaysOnDisk
    <3>4. MemoAt(data[r].memo)' = MemoAt(data[r].memo)
      BY <1>1, <3>3
    <3> QED BY <1>1, <2>3, <3>1, <3>2, <3>4
  <2> QED BY <2>4, <2>5, <2>7, <2>8, <2>9, ForEveryone
<1> QED BY <1>6, <1>7

------------------------------------------------------------------------------
(* Work on the whole file: everybody else has closed it. *)

LEMMA AloneIs ==
  ASSUME IInv, Careless = {}, NEW u \in User, Alone(u)
  PROVE  /\ Whole /\ \A r : ~WrittenOver(r)
         /\ us[u].pc = "idle" /\ ~us[u].dirty
         /\ \A w \in User \ {u} : us[w] = Away(us[w].rlk) /\ us[w].rlk \in BOOLEAN
<1>1. us[u].pc = "idle" /\ ~us[u].dirty /\ \A w \in User \ {u} : us[w].rec = -1
  BY DEF Alone, Clean, Idle
<1>2. \A w \in User : UserOK(w) /\ us[w].rlk \in BOOLEAN
  BY OfEveryone DEF TypeOK, UserState
<1>3. \A w \in User \ {u} : us[w] = Away(us[w].rlk) /\ us[w].rlk \in BOOLEAN
  BY <1>1, <1>2 DEF UserOK, AwayOK
<1>4. \A w \in User : us[w].pc = "idle"
  <2> TAKE w \in User
  <2>1. \A rlk : Away(rlk).pc = "idle"
    BY DEF Away
  <2> QED BY <1>1, <1>3, <2>1
<1> QED BY <1>1, <1>3, <1>4 DEF Whole, WrittenOver, WritesOver

(* A pack or a zap that keeps some of the records. *)
LEMMA KeepKeeps ==
  ASSUME IInv, Careless = {}, NEW u \in User, Alone(u), NEW recs \in SUBSET DOMAIN data, Keep(u, recs)
  PROVE  IInv'
<1> DEFINE N == Cardinality(recs)
           nth == Nth(recs)
<1>0. TypeOK /\ LotsOK /\ SaidOK /\ (\A w \in User : UserOK(w)) /\ us[u] \in UserState
      /\ us[u].rlk \in BOOLEAN
  BY OfEveryone DEF TypeOK, UserState
<1>1. /\ data' = Kept(data, recs) /\ said' = Kept(said, recs) /\ us' = [us EXCEPT ![u] = Away(us[u].rlk)]
      /\ rlock' = [r \in DOMAIN rlock |-> u] /\ alock' = u /\ mlock' = mlock
      /\ blocks' = blocks /\ next' = next
  BY DEF Keep, Me, OnNone, TakesFile
<1>2. /\ Whole /\ \A r : ~WrittenOver(r)
      /\ \A w \in User \ {u} : us[w] = Away(us[w].rlk) /\ us[w].rlk \in BOOLEAN
  BY AloneIs
<1>3. us' \in [User -> UserState] /\ \A w \in User : us'[w] = Away(us[w].rlk) /\ us[w].rlk \in BOOLEAN
  <2>1. Away(us[u].rlk) \in UserState
    BY <1>0, AwayIs
  <2>2. us' \in [User -> UserState] /\ us'[u] = Away(us[u].rlk) /\ \A w \in User : w # u => us'[w] = us[w]
    BY <1>0, <1>1, <2>1, OneSteps
  <2> QED BY <1>0, <1>2, <2>2
<1>4. /\ N \in Nat /\ N <= Len(data) /\ nth \in [1..N -> recs]
      /\ \A i, j \in 1..N : nth[i] = nth[j] => i = j
  <2>1. Len(data) \in Nat /\ recs \in SUBSET (1..Len(data))
    BY <1>0, InBounds
  <2> QED BY <2>1, NthAre
<1>5. /\ data' = [i \in 1..N |-> data[nth[i]]] /\ said' = [i \in 1..N |-> said[nth[i]]]
  BY <1>1, KeptIs
<1> HIDE DEF N, nth
<1>6. \A i \in 1..N : nth[i] \in DOMAIN data /\ nth[i] \in DOMAIN said
  BY <1>0, <1>4, InBounds
<1>7. data' \in Seq(Record) /\ said' \in Seq(Said) /\ Len(data') = N /\ Len(said') = N /\ DOMAIN data' = 1..N
  <2>1. data \in Seq(Record) /\ said \in Seq(Said)
    BY <1>0 DEF TypeOK
  <2>2. \A i \in 1..N : data[nth[i]] \in Record /\ said[nth[i]] \in Said
    BY <1>6, <2>1
  <2> QED BY <1>4, <1>5, <2>2
<1>8. TypeOK'
  <2>1. N <= MaxRec
    BY <1>0, <1>4, InBounds
  <2> QED BY <1>0, <1>1, <1>3, <1>7, <2>1 DEF TypeOK
<1>9. \A w \in User : UserOK(w)'
  BY <1>3, <1>4, <1>7, AtNone
<1>10. \A w \in User : us'[w].pc = "idle" /\ us'[w].id = 0
  BY <1>3 DEF Away
<1>11. \A w \in User : ReplaceOK(w)'
  BY <1>10 DEF ReplaceOK
<1>12. LotsOK'
  <2>1. PICK lot : LotsOf(lot, Memos)
    BY <1>0, <1>2 DEF LotsOK
  <2>2. PICK new : new = [b \in Nat |-> <<CHOOSE i \in 1..N : nth[i] = lot[b][1], lot[b][2]>>]
    OBVIOUS
  <2>3. \A i \in 1..N : (CHOOSE j \in 1..N : nth[j] = nth[i]) = i
    BY <1>4
  <2>4. LotsOf(new, Memos)'
    <3> SUFFICES ASSUME NEW i \in 1..N, data'[i].memo # 0
                 PROVE  Lot(new, i, data[i].memo, blocks[data[i].memo].size)'
      BY <1>7 DEF LotsOf, Memos
    <3>0. PICK m, r : m = data'[i].memo /\ r = nth[i]
      OBVIOUS
    <3>1. r \in DOMAIN data /\ data[r].memo = m
      BY <1>5, <1>6, <3>0
    <3>2. Lot(lot, r, m, blocks[m].size)
      BY <2>1, <3>0, <3>1 DEF LotsOf, Memos
    <3>3. m \in Nat
      BY <1>0, <3>2, BoundAssumption, LotInFile
    <3>4. \A b \in Nat : lot[b] = <<r, m>> => new[b] = <<i, m>>
      <4> SUFFICES ASSUME NEW b \in Nat, lot[b] = <<r, m>> PROVE new[b] = <<i, m>>
        OBVIOUS
      <4>1. lot[b][1] = nth[i] /\ lot[b][2] = m
        BY <3>0
      <4>2. new[b] = <<CHOOSE j \in 1..N : nth[j] = lot[b][1], lot[b][2]>>
        BY <2>2
      <4>3. (CHOOSE j \in 1..N : nth[j] = lot[b][1]) = i
        BY <2>3, <4>1
      <4> QED BY <4>1, <4>2, <4>3
    <3>5. \A b \in m..(m + blocks[m].size - 1) : b \in Nat
      BY <3>3
    <3>6. Lot(new, i, m, blocks[m].size)
      BY <3>2, <3>3, <3>4, <3>5 DEF Lot
    <3>7. Lot(new, i, m, blocks[m].size)'
      BY <1>1, <3>6 DEF Lot
    <3> QED BY <1>1, <3>0, <3>7
  <2>5. \A w \in User : LotsOfUser(new, w)'
    BY <1>10 DEF LotsOfUser
  <2> QED BY <2>4, <2>5 DEF LotsOK
<1>13. SaidOK'
  <2> SUFFICES ASSUME NEW i \in 1..N PROVE (said[i] \in {Unknown, MemoAt(data[i].memo)})'
    BY <1>7 DEF SaidOK
  <2>1. said'[i] = said[nth[i]] /\ data'[i] = data[nth[i]] /\ nth[i] \in DOMAIN data
    BY <1>5, <1>6
  <2>2. said[nth[i]] \in {Unknown, MemoAt(data[nth[i]].memo)}
    BY <1>0, <1>2, <2>1 DEF SaidOK
  <2>3. \A id : MemoAt(id)' = MemoAt(id)
    BY <1>1, StaysOnDisk
  <2>4. MemoAt(data[i].memo)' = MemoAt(data[nth[i]].memo)
    BY <2>1, <2>3
  <2> QED BY <2>1, <2>2, <2>4
<1> QED BY <1>8, <1>9, <1>11, <1>12, <1>13, ForEveryone

LEMMA PackKeeps ==
  ASSUME IInv, Careless = {}, NEW u \in User, DoPack(u)
  PROVE  IInv'
BY KeepKeeps DEF DoPack

LEMMA ZapKeeps ==
  ASSUME IInv, Careless = {}, NEW u \in User, DoZap(u)
  PROVE  IInv'
BY KeepKeeps DEF DoZap

(* The first step of a compress. *)
LEMMA CompressRecordsKeeps ==
  ASSUME IInv, Careless = {}, NEW u \in User, CompressRecords(u)
  PROVE  IInv'
<1> DEFINE was == [r \in DOMAIN data |-> data[r].memo]
           v == [us[u] EXCEPT !.pc = "replace", !.was = was]
           sizes == [r \in DOMAIN was |-> SizeAt(was[r])]
<1>0. TypeOK /\ LotsOK /\ SaidOK /\ (\A w \in User : UserOK(w)) /\ us[u] \in UserState /\ Alone(u)
      /\ us[u].pc = "idle" /\ ~us[u].dirty /\ us[u].rec # -1
  BY OfEveryone DEF TypeOK, CompressRecords, Alone, Clean, Idle
<1>1. /\ data' = [r \in DOMAIN data |-> [data[r] EXCEPT !.memo = Numbers(sizes)[r]]]
      /\ us' = [us EXCEPT ![u] = v] /\ rlock' = [r \in DOMAIN rlock |-> u] /\ alock' = u /\ mlock' = u
      /\ blocks' = blocks /\ next' = next /\ said' = said
  <2>1. Sizes = sizes
    BY DEF Sizes
  <2> HIDE DEF sizes
  <2> QED BY <2>1 DEF CompressRecords, Me, TakesFile
<1>2. /\ Whole /\ \A r : ~WrittenOver(r)
      /\ \A w \in User \ {u} : us[w] = Away(us[w].rlk) /\ us[w].rlk \in BOOLEAN
  BY <1>0, AloneIs
<1>3. PICK lot : LotsOf(lot, was)
  BY <1>0, <1>2 DEF LotsOK, Memos
<1>4. /\ data \in Seq(Record) /\ Len(data) \in Nat /\ DOMAIN data = 1..Len(data) /\ DOMAIN rlock = 1..(MaxRec + 1)
      /\ \A r \in DOMAIN data : r \in 1..(MaxRec + 1) /\ r # 0
  BY <1>0, InBounds
<1>5. was \in Seq(Nat) /\ Len(was) = Len(data) /\ DOMAIN was = DOMAIN data
  <2>1. \A r \in 1..Len(data) : data[r] \in Record
    BY <1>4
  <2>2. \A r \in 1..Len(data) : data[r].memo \in Nat
    BY <2>1 DEF Record
  <2>3. was = [r \in 1..Len(data) |-> data[r].memo]
    BY <1>4
  <2> HIDE DEF was
  <2> QED BY <1>4, <2>2, <2>3
<1>6. sizes \in Seq(Nat) /\ DOMAIN sizes = DOMAIN data /\ End(sizes) <= MaxBlock + 1
  <2> HIDE DEF was
  <2>1. PICK s : s = sizes
    OBVIOUS
  <2>2. s \in Seq(Nat) /\ DOMAIN s = DOMAIN data /\ End(s) <= MaxBlock + 1
    BY <1>0, <1>3, <1>5, <2>1, LotsFit
  <2> HIDE DEF sizes
  <2> QED BY <2>1, <2>2
<1> HIDE DEF sizes
<1>7. /\ data' \in Seq(Record) /\ Len(data') = Len(data) /\ DOMAIN data' = DOMAIN data
      /\ \A r \in DOMAIN data : data'[r].memo = Numbers(sizes)[r]
  <2>1. \A r \in DOMAIN data : Numbers(sizes)[r] \in Nat
    BY <1>6, NumbersAre, BoundAssumption
  <2>2. \A r \in DOMAIN data : [data[r] EXCEPT !.memo = Numbers(sizes)[r]] \in Record
    <3> SUFFICES ASSUME NEW r \in DOMAIN data PROVE [data[r] EXCEPT !.memo = Numbers(sizes)[r]] \in Record
      OBVIOUS
    <3>1. data[r] \in Record /\ Numbers(sizes)[r] \in Nat
      BY <1>4, <2>1
    <3> QED BY <3>1 DEF Record
  <2>3. \A r \in DOMAIN data : [data[r] EXCEPT !.memo = Numbers(sizes)[r]].memo = Numbers(sizes)[r]
    <3> SUFFICES ASSUME NEW r \in DOMAIN data
                 PROVE  [data[r] EXCEPT !.memo = Numbers(sizes)[r]].memo = Numbers(sizes)[r]
      OBVIOUS
    <3>1. data[r] \in Record
      BY <1>4
    <3> QED BY <3>1 DEF Record
  <2>4. PICK new : new = [r \in DOMAIN data |-> [data[r] EXCEPT !.memo = Numbers(sizes)[r]]]
    OBVIOUS
  <2>5. data' = new /\ DOMAIN new = 1..Len(data)
        /\ \A r \in DOMAIN data : new[r] \in Record /\ new[r].memo = Numbers(sizes)[r]
    BY <1>1, <1>4, <2>2, <2>3, <2>4
  <2>6. new = [r \in 1..Len(data) |-> new[r]]
    BY <2>4, <2>5
  <2>7. new \in Seq(Record) /\ Len(new) = Len(data)
    BY <1>4, <2>5, <2>6
  <2> QED BY <1>4, <2>5, <2>7
<1>8. /\ us[u].was = << >> /\ ~us[u].given /\ ~us[u].changed /\ us[u].rec <= Len(data)
      /\ us[u].rec = 0 => us[u].id = 0 /\ us[u].oldOf = -1 /\ ~us[u].valid /\ ~us[u].fresh
      /\ us[u].oldOf # -1 => us[u].oldOf \in DOMAIN data
      /\ us[u].valid \/ us[u].fresh => us[u].rec \in DOMAIN data
  BY <1>0, InNoCall
<1> HIDE DEF was
<1>9. /\ v \in UserState /\ v.pc = "replace" /\ v.was = was /\ v.rec = us[u].rec /\ v.id = us[u].id
      /\ v.oldOf = us[u].oldOf /\ v.valid = us[u].valid /\ v.fresh = us[u].fresh
      /\ ~v.given /\ ~v.changed
  BY <1>0, <1>5, <1>8 DEF UserState, Codes
<1> HIDE DEF v
<1>10. us' \in [User -> UserState] /\ us'[u] = v /\ \A w \in User : w # u => us'[w] = us[w]
  BY <1>0, <1>1, <1>9, OneSteps
<1>11. TypeOK'
  BY <1>0, <1>1, <1>7, <1>10 DEF TypeOK
<1>12. UserOK(u)'
  <2>1. AwayOK(u)'
    BY <1>0, <1>7, <1>8, <1>9, <1>10 DEF AwayOK
  <2>2. LocksOK(u)'
    <3>1. \A r \in DOMAIN data : rlock'[r] = u /\ r > 0
      BY <1>1, <1>4
    <3>2. v.valid \/ v.fresh => v.rec > 0 /\ rlock'[v.rec] = u
      BY <1>8, <1>9, <3>1
    <3>3. v.oldOf # -1 => v.oldOf \in DOMAIN data' /\ rlock'[v.oldOf] = u
      BY <1>7, <1>8, <1>9, <3>1
    <3> QED BY <1>9, <1>10, <3>2, <3>3 DEF LocksOK, Holds, Writes
  <2>3. KnownOK(u)' /\ TextOK(u)' /\ ReadOK(u)'
    BY <1>9, <1>10 DEF KnownOK, TextOK, ReadOK
  <2>4. MarksOK(u)'
    BY <1>9, <1>10 DEF MarksOK, Writes
  <2> QED BY <2>1, <2>2, <2>3, <2>4 DEF UserOK
<1>13. \A w \in User : UserOK(w)'
  <2> SUFFICES ASSUME NEW w \in User, w # u PROVE UserOK(w)'
    BY <1>12
  <2>1. us'[w] = Away(us[w].rlk) /\ us[w].rlk \in BOOLEAN /\ Len(data') \in Nat
    BY <1>2, <1>4, <1>7, <1>10
  <2> QED BY <2>1, AtNone
<1>14. \A w \in User : w # u => us'[w].pc = "idle" /\ us'[w].id = 0
  <2>1. \A rlk : Away(rlk).pc = "idle" /\ Away(rlk).id = 0
    BY DEF Away
  <2>2. \A w \in User : w # u => us'[w] = Away(us[w].rlk)
    BY <1>2, <1>10
  <2> QED BY <2>1, <2>2
<1>15. ReplaceOK(u)'
  <2>1. us'[u].was = was /\ us'[u].pc = "replace"
    BY <1>9, <1>10
  <2>2. \A id : SizeAt(id)' = SizeAt(id) /\ MemoAt(id)' = MemoAt(id)
    BY <1>1, StaysOnDisk
  <2>3. [r \in DOMAIN us'[u].was |-> SizeAt(us[u].was[r])'] = sizes
    BY <2>1, <2>2 DEF sizes
  <2>4. PICK memos : memos = was
    OBVIOUS
  <2>5. LotsOf(lot, memos)'
    BY <1>1, <1>3, <1>7, <2>4 DEF LotsOf, Lot
  <2>6. \A r \in DOMAIN data : said[r] \in {Unknown, MemoAt(memos[r])}
    BY <1>0, <1>2, <2>4 DEF SaidOK, was
  <2>7. rlock' = [r \in DOMAIN rlock' |-> u]
    BY <1>1
  <2>8. Len(memos) = Len(data)
    BY <1>5, <2>4
  <2>9. us'[u].was = memos
    BY <2>1, <2>4
  <2>10. \A r \in DOMAIN data' : data'[r].memo = Numbers([q \in DOMAIN us'[u].was |-> SizeAt(us[u].was[q])'])[r]
    BY <1>7, <2>3
  <2>11. \A r \in DOMAIN data' : said'[r] \in {Unknown, MemoAt(memos[r])'}
    BY <1>1, <1>7, <2>2, <2>6
  <2> QED BY <1>1, <1>7, <1>14, <2>5, <2>7, <2>8, <2>9, <2>10, <2>11 DEF ReplaceOK
<1>16. \A w \in User : ReplaceOK(w)'
  BY <1>14, <1>15 DEF ReplaceOK
<1>17. LotsOK' /\ SaidOK'
  <2>1. ~Whole'
    BY <1>9, <1>10 DEF Whole
  <2> QED BY <2>1 DEF LotsOK, SaidOK
<1> QED BY <1>11, <1>13, <1>16, <1>17, ForEveryone

(* Where a memo that is laid out lies. *)
Lies(sizes, was, r, m) ==
  /\ m \in 1..MaxBlock /\ m \in 1..(End(sizes) - 1) /\ m + sizes[r] <= End(sizes)
  /\ LotOf(sizes)[m] = <<r, m>> /\ LaidOut(sizes, was)[m] = was[r][1]
  /\ \A b \in m..(m + sizes[r] - 1) : LotOf(sizes)[b] = <<r, m>>
  /\ \A n \in 1..sizes[r] : m + n - 1 \in 1..MaxBlock /\ LaidOut(sizes, was)[m + n - 1] = was[r][n]

LEMMA LaidOutMemo ==
  ASSUME NEW sizes \in Seq(Nat), End(sizes) <= MaxBlock + 1, NEW was, NEW r \in DOMAIN sizes, sizes[r] # 0,
         NEW m, m = Numbers(sizes)[r]
  PROVE  Lies(sizes, was, r, m)
<1>1. /\ m = Starts(sizes)[r] /\ m \in 1..MaxBlock /\ m + sizes[r] <= End(sizes)
  BY NumbersAre
<1>2. sizes[r] \in Nat /\ MaxBlock \in Nat /\ End(sizes) \in Nat
  <2>1. \A x \in 1..(Len(sizes) + 1) : Starts(sizes)[x] \in Nat
    BY StartsAre
  <2>2. Len(sizes) + 1 \in 1..(Len(sizes) + 1)
    OBVIOUS
  <2> QED BY <2>1, <2>2, BoundAssumption DEF End
<1>3. \A n \in 1..sizes[r] : /\ m + n - 1 \in 1..MaxBlock
                             /\ LaidOut(sizes, was)[m + n - 1] = was[r][n]
                             /\ LotOf(sizes)[m + n - 1] = <<r, m>>
  <2> TAKE n \in 1..sizes[r]
  <2>1. /\ Starts(sizes)[r] + n - 1 \in 1..MaxBlock
        /\ LaidOut(sizes, was)[Starts(sizes)[r] + n - 1] = was[r][n]
        /\ LotOf(sizes)[Starts(sizes)[r] + n - 1] = <<r, Starts(sizes)[r]>>
    BY BlockOfMemo
  <2> QED BY <1>1, <2>1
<1>9. m \in Nat \ {0} /\ sizes[r] \in Nat \ {0}
  <2>1. m \in 1..MaxBlock /\ MaxBlock \in Nat
    BY <1>1, <1>2
  <2>2. m \in Nat \ {0}
    BY <2>1
  <2> QED BY <1>2, <2>2
<1>10. \A x, y \in Nat \ {0} : \A b \in x..(x + y - 1) : b - x + 1 \in 1..y /\ x + (b - x + 1) - 1 = b
  OBVIOUS
<1>11. \A x, y, z \in Nat : y # 0 /\ x # 0 /\ x + y <= z => x \in 1..(z - 1)
  OBVIOUS
<1>4. \A b \in m..(m + sizes[r] - 1) : b - m + 1 \in 1..sizes[r] /\ m + (b - m + 1) - 1 = b
  BY <1>9, <1>10
<1>5. \A b \in m..(m + sizes[r] - 1) : LotOf(sizes)[b] = <<r, m>>
  <2> TAKE b \in m..(m + sizes[r] - 1)
  <2>1. PICK n : n = b - m + 1
    OBVIOUS
  <2>2. n \in 1..sizes[r] /\ m + n - 1 = b
    BY <1>4, <2>1
  <2> QED BY <1>3, <2>2
<1>6. 1 \in 1..sizes[r] /\ m + 1 - 1 = m /\ m \in m..(m + sizes[r] - 1)
  BY <1>9
<1>7. LaidOut(sizes, was)[m] = was[r][1]
  <2>1. LaidOut(sizes, was)[m + 1 - 1] = was[r][1]
    BY <1>3, <1>6
  <2> QED BY <1>6, <2>1
<1>8. m \in 1..(End(sizes) - 1)
  <2>1. m + sizes[r] <= End(sizes) /\ End(sizes) \in Nat
    BY <1>1, <1>2
  <2> QED BY <1>9, <1>11, <2>1
<1> QED BY <1>1, <1>3, <1>5, <1>6, <1>7, <1>8 DEF Lies

(* The second step of a compress. *)
LEMMA CompressFileKeeps ==
  ASSUME IInv, NEW u \in User, CompressFile(u)
  PROVE  IInv'
<1> DEFINE r0 == us[u].rec
           done == [us[u] EXCEPT !.pc = "idle", !.was = << >>]
           v == IF r0 \in DOMAIN data THEN RecordRead(done, r0, TRUE) ELSE done
<1>0. /\ TypeOK /\ (\A w \in User : UserOK(w) /\ ReplaceOK(w)) /\ us[u] \in UserState
      /\ us[u].pc = "replace"
  BY OfEveryone DEF TypeOK, CompressFile
<1>1. PICK was, sizes, texts :
         /\ was = us[u].was /\ sizes = [r \in DOMAIN was |-> SizeAt(was[r])]
         /\ texts = [r \in DOMAIN was |-> [n \in 1..sizes[r] |-> blocks[was[r] + n - 1]]]
  OBVIOUS
<1>2. /\ blocks' = LaidOut(sizes, texts) /\ next' = End(sizes) /\ us' = [us EXCEPT ![u] = v]
      /\ data' = data /\ said' = said /\ UNCHANGED locks
      /\ rlock' = rlock /\ alock' = alock /\ mlock' = mlock
  BY <1>1 DEF CompressFile, Me, On, locks
<1>3. /\ rlock = [r \in DOMAIN rlock |-> u] /\ alock = u /\ Len(was) = Len(data)
      /\ \A r \in DOMAIN data : data[r].memo = Numbers(sizes)[r]
      /\ \A r \in DOMAIN data : said[r] \in {Unknown, MemoAt(was[r])}
      /\ \A w \in User \ {u} : /\ us[w].pc \in {"idle", "reading"}
                               /\ us[w].id # 0 => us[w].id = data[us[w].rec].memo
      /\ \E lot : LotsOf(lot, was)
  <2>1. sizes = [r \in DOMAIN us[u].was |-> SizeAt(us[u].was[r])]
    BY <1>1
  <2> QED BY <1>0, <1>1, <2>1 DEF ReplaceOK
<1>4. was \in Seq(Nat)
  BY <1>0, <1>1 DEF UserState
<1>5. PICK old : LotsOf(old, was)
  BY <1>3
<1>6. /\ sizes \in Seq(Nat) /\ Len(sizes) = Len(data) /\ DOMAIN sizes = DOMAIN data
      /\ \A r \in DOMAIN sizes : sizes[r] = SizeAt(was[r]) /\ sizes[r] \in Nat /\ was[r] \in 0..MaxBlock
      /\ \A r \in DOMAIN sizes : sizes[r] # 0 => was[r] # 0 /\ Lot(old, r, was[r], sizes[r])
      /\ End(sizes) <= MaxBlock + 1 /\ End(sizes) \in Nat \ {0}
  BY <1>0, <1>1, <1>3, <1>4, <1>5, LotsFit
<1>7. \A r \in DOMAIN sizes : \A n \in 1..sizes[r] :
         was[r] + n - 1 \in 1..MaxBlock /\ texts[r][n] = blocks[was[r] + n - 1]
  <2> SUFFICES ASSUME NEW r \in DOMAIN sizes, NEW n \in 1..sizes[r]
               PROVE  was[r] + n - 1 \in 1..MaxBlock /\ texts[r][n] = blocks[was[r] + n - 1]
    OBVIOUS
  <2>1. sizes[r] \in Nat /\ sizes[r] # 0
    BY <1>6
  <2>2. was[r] \in 1..MaxBlock /\ was[r] + sizes[r] <= next
    BY <1>0, <1>6, <2>1, LotInFile
  <2>3. next \in 1..(MaxBlock + 1) /\ MaxBlock \in Nat
    BY <1>0, BoundAssumption DEF TypeOK
  <2>4. was[r] + n - 1 \in 1..MaxBlock
    BY <2>1, <2>2, <2>3
  <2>5. texts[r] = [k \in 1..sizes[r] |-> blocks[was[r] + k - 1]]
    BY <1>1
  <2> QED BY <2>4, <2>5
<1>8. blocks' \in [1..MaxBlock -> [size : Nat, piece : Pieces]]
  <2>1. Blank \in [size : Nat, piece : Pieces]
    BY DEF Blank, Pieces
  <2>2. PICK B : B = [size : Nat, piece : Pieces]
    OBVIOUS
  <2>3. \A r \in DOMAIN sizes : \A n \in 1..sizes[r] : texts[r][n] \in B
    <3>1. \A b \in 1..MaxBlock : blocks[b] \in B
      BY <1>0, <2>2 DEF TypeOK
    <3> QED BY <1>7, <3>1
  <2>4. LaidOut(sizes, texts) \in [1..MaxBlock -> B]
    BY <1>6, <2>1, <2>2, <2>3, LaidOutIs
  <2> QED BY <1>2, <2>2, <2>4
<1>9. ASSUME NEW r \in DOMAIN data, NEW m, m = data[r].memo, sizes[r] # 0
      PROVE  /\ m \in 1..MaxBlock /\ blocks'[m].size = sizes[r]
             /\ MemoAt(m)' = MemoAt(was[r])
             /\ \A size : size = sizes[r] => Lot(LotOf(sizes), r, m, size)'
  <2>1. m = Numbers(sizes)[r] /\ r \in DOMAIN sizes
    BY <1>3, <1>6, <1>9
  <2>2. /\ m \in 1..MaxBlock /\ m \in 1..(End(sizes) - 1) /\ m + sizes[r] <= End(sizes)
        /\ LotOf(sizes)[m] = <<r, m>> /\ blocks'[m] = texts[r][1]
        /\ \A b \in m..(m + sizes[r] - 1) : LotOf(sizes)[b] = <<r, m>>
        /\ \A n \in 1..sizes[r] : m + n - 1 \in 1..MaxBlock /\ blocks'[m + n - 1] = texts[r][n]
    <3>1. sizes \in Seq(Nat) /\ End(sizes) <= MaxBlock + 1 /\ sizes[r] # 0
      BY <1>6, <1>9
    <3>2. Lies(sizes, texts, r, m)
      BY <2>1, <3>1, LaidOutMemo
    <3> QED BY <1>2, <3>2 DEF Lies
  <2>3. was[r] \in 1..MaxBlock /\ was[r] # 0 /\ blocks[was[r]].size = sizes[r] /\ sizes[r] \in Nat
    <3>1. was[r] \in 0..MaxBlock /\ was[r] # 0 /\ sizes[r] = SizeAt(was[r]) /\ sizes[r] \in Nat
      BY <1>6, <1>9, <2>1
    <3> QED BY <3>1 DEF SizeAt
  <2>4. texts[r][1] = blocks[was[r]]
    <3>1. 1 \in 1..sizes[r]
      BY <1>9, <2>3
    <3>2. texts[r][1] = blocks[was[r] + 1 - 1]
      BY <1>7, <2>1, <3>1
    <3>3. was[r] + 1 - 1 = was[r]
      BY <2>3
    <3> QED BY <3>2, <3>3
  <2>5. blocks'[m].size = sizes[r]
    BY <2>2, <2>3, <2>4
  <2>6. PICK size : size = sizes[r]
    OBVIOUS
  <2>7. TextAt(m, size)' = TextAt(was[r], size)
    <3>1. PICK i : i = was[r]
      OBVIOUS
    <3>2. \A n \in 1..size : /\ i + n - 1 \in DOMAIN blocks /\ m + n - 1 \in DOMAIN blocks'
                             /\ blocks'[m + n - 1].piece = blocks[i + n - 1].piece
      <4>1. DOMAIN blocks = 1..MaxBlock /\ DOMAIN blocks' = 1..MaxBlock
        BY <1>0, <1>8 DEF TypeOK
      <4> QED BY <1>7, <2>1, <2>2, <2>6, <3>1, <4>1
    <3>3. TextAt(m, size)' = TextAt(i, size)
      BY <3>2, TextMoves
    <3> QED BY <3>1, <3>3
  <2>8. MemoAt(m)' = TextAt(m, size)' /\ MemoAt(was[r]) = TextAt(was[r], size)
    <3>1. m # 0
      BY <2>2, BoundAssumption
    <3>2. MemoAt(was[r]) = TextAt(was[r], size)
      BY <2>3, <2>6 DEF MemoAt, SizeAt
    <3>3. MemoAt(m)' = TextAt(m, size)'
      BY <2>5, <2>6, <3>1 DEF MemoAt, SizeAt
    <3> QED BY <3>2, <3>3
  <2>9. \A s : s = sizes[r] => Lot(LotOf(sizes), r, m, s)'
    BY <1>2, <2>2 DEF Lot
  <2> QED BY <2>2, <2>5, <2>7, <2>8, <2>9
<1>10. ASSUME NEW r \in DOMAIN data, sizes[r] = 0 PROVE data[r].memo = 0 /\ MemoAt(was[r]) = Empty
  <2>1. data[r].memo = 0
    BY <1>3, <1>6, <1>10, NumbersAre
  <2>2. SizeAt(was[r]) = 0
    BY <1>6, <1>10
  <2> QED BY <2>1, <2>2 DEF MemoAt, TextAt
<1>11. \A w \in User : us[w].rec \in {-1} \cup (0..Len(data)) /\ DOMAIN data = 1..Len(data)
  BY <1>0, Whereabouts, InBounds
<1>12. /\ us[u].rec # -1 /\ ~us[u].given /\ ~us[u].changed
       /\ us[u].rec = 0 => us[u].id = 0 /\ us[u].oldOf = -1 /\ ~us[u].valid /\ ~us[u].fresh
  <2>1. us[u].rec # -1
    BY <1>0, Whereabouts
  <2>2. ~us[u].given /\ ~us[u].changed
    BY <1>0 DEF UserOK, MarksOK
  <2> QED BY <1>0, <2>1, <2>2 DEF UserOK, AwayOK
<1>13. /\ done \in UserState /\ done.pc = "idle" /\ done.was = << >> /\ done.rec = r0 /\ done.id = us[u].id
       /\ done.oldOf = us[u].oldOf /\ done.valid = us[u].valid /\ done.fresh = us[u].fresh
       /\ ~done.given /\ ~done.changed
  <2>1. << >> \in Seq(Nat)
    OBVIOUS
  <2>2. done \in UserState
    BY <1>0, <2>1 DEF UserState, Codes
  <2> QED BY <1>0, <1>12, <2>2 DEF UserState
<1> HIDE DEF done
<1>14. v \in UserState /\ v.pc = "idle" /\ v.rec = r0
       /\ IF r0 \in DOMAIN data THEN v.id = data[r0].memo ELSE v.id = 0 /\ r0 = 0
  <2>1. CASE r0 \in DOMAIN data
    BY <1>0, <1>13, <2>1, RecordReadIs, InBounds
  <2>2. CASE r0 \notin DOMAIN data
    <3>1. r0 = 0
      BY <1>11, <1>12, <2>2
    <3> QED BY <1>12, <1>13, <2>2, <3>1
  <2> QED BY <2>1, <2>2
<1>15. us' \in [User -> UserState] /\ us'[u] = v /\ \A w \in User : w # u => us'[w] = us[w]
  BY <1>0, <1>2, <1>14, OneSteps
<1>16. TypeOK'
  <2>1. next' \in 1..(MaxBlock + 1)
    BY <1>2, <1>6, BoundAssumption
  <2> QED BY <1>0, <1>2, <1>8, <1>15, <2>1 DEF TypeOK
<1>17. LockStep(u) /\ \A r \in DOMAIN data : rlock'[r] = u /\ Holds(u, r)
  BY <1>0, <1>2, <1>3, LocksUnchanged, InBounds DEF Holds
<1>18. UserOK(u)'
  <2>1. CASE r0 \in DOMAIN data
    <3>1. us'[u] = RecordRead(done, r0, TRUE)
      BY <1>15, <2>1
    <3> QED BY <1>0, <1>2, <1>13, <1>17, <2>1, <3>1, ReadingRecord
  <2>2. CASE r0 \notin DOMAIN data
    <3>1. us'[u] = done /\ us'[u].rec = 0
      BY <1>13, <1>14, <1>15, <2>2
    <3>2. us'[u].rec \in Nat /\ us'[u].rec <= Len(data')
      <4>1. Len(data) \in Nat /\ 0 <= Len(data)
        BY <1>0, InBounds
      <4>2. Len(data') = Len(data)
        BY <1>2
      <4> QED BY <3>1, <4>1, <4>2
    <3>3. us'[u].id = 0 /\ us'[u].oldOf = -1 /\ ~us'[u].valid /\ ~us'[u].fresh
      BY <1>12, <1>13, <3>1
    <3> QED BY <1>13, <3>1, <3>2, <3>3, AtRest
  <2> QED BY <2>1, <2>2
<1> HIDE DEF v, r0
<1>19. \A w \in User : UserOK(w)'
  <2> SUFFICES ASSUME NEW w \in User, w # u PROVE UserOK(w)'
    BY <1>18
  <2>1. us[w].pc \in {"idle", "reading"}
    BY <1>3
  <2>2. ~us[w].fresh
    <3> SUFFICES ASSUME us[w].fresh PROVE FALSE
      OBVIOUS
    <3>1. us[w].rec \in DOMAIN data /\ Holds(w, us[w].rec)
      BY <1>0, Whereabouts
    <3> QED BY <1>17, <3>1 DEF Holds
  <2>3. Spares(u, w)
    BY <1>2, <1>15, <2>1, <2>2 DEF Spares
  <2> QED BY <1>0, <1>16, <1>17, <2>3, Bystander
<1>20. \A w \in User : us'[w].pc \in {"idle", "reading"}
  BY <1>3, <1>14, <1>15
<1>21. \A w \in User : ReplaceOK(w)'
  BY <1>20 DEF ReplaceOK
<1>22. LotsOK'
  <2>1. PICK lot : lot = LotOf(sizes)
    OBVIOUS
  <2>2. ASSUME NEW r \in DOMAIN data, NEW m, m = data[r].memo, m # 0 PROVE Lot(lot, r, m, blocks[m].size)'
    <3>1. sizes[r] # 0
      BY <1>10, <2>2
    <3>2. blocks'[m].size = sizes[r] /\ \A size : size = sizes[r] => Lot(LotOf(sizes), r, m, size)'
      BY <1>9, <2>2, <3>1
    <3>3. PICK size : size = blocks'[m].size
      OBVIOUS
    <3>4. Lot(LotOf(sizes), r, m, size)'
      BY <3>2, <3>3
    <3> QED BY <2>1, <3>3, <3>4 DEF Lot
  <2>3. LotsOf(lot, Memos)'
    <3> SUFFICES ASSUME NEW r \in DOMAIN data, data[r].memo # 0
                 PROVE  Lot(lot, r, data[r].memo, blocks[data[r].memo].size)'
      BY <1>2 DEF LotsOf, Memos
    <3>1. PICK m : m = data[r].memo
      OBVIOUS
    <3>2. Lot(lot, r, m, blocks[m].size)'
      BY <2>2, <3>1
    <3> QED BY <1>2, <3>1, <3>2
  <2>4. ASSUME NEW w \in User PROVE LotsOfUser(lot, w)'
    <3>1. us'[w].id # 0 => us'[w].rec \in DOMAIN data /\ us'[w].id = data[us'[w].rec].memo
      <4>1. CASE w = u
        BY <1>14, <1>15, <4>1
      <4>2. CASE w # u
        <5> SUFFICES ASSUME us[w].id # 0 PROVE us[w].rec \in DOMAIN data /\ us[w].id = data[us[w].rec].memo
          BY <1>15, <4>2
        <5>1. us[w].rec # -1
          BY <1>0, Whereabouts
        <5>2. us[w].rec # 0
          BY <1>0, <1>3, <4>2 DEF UserOK, AwayOK
        <5>3. us[w].rec \in DOMAIN data
          BY <1>11, <5>1, <5>2
        <5> QED BY <1>3, <4>2, <5>3
      <4> QED BY <4>1, <4>2
    <3>2. us'[w].id # 0 => Lot(lot, Own(w), us[w].id, blocks[us[w].id].size)'
      <4> SUFFICES ASSUME us'[w].id # 0 PROVE Lot(lot, Own(w), us[w].id, blocks[us[w].id].size)'
        OBVIOUS
      <4>1. PICK m, r : m = us'[w].id /\ r = us'[w].rec
        OBVIOUS
      <4>2. r \in DOMAIN data /\ m = data[r].memo /\ m # 0
        BY <3>1, <4>1
      <4>3. Lot(lot, r, m, blocks[m].size)'
        BY <2>2, <4>2
      <4>4. Own(w)' = r
        <5>1. r # 0
          BY <1>0, <4>2, InBounds
        <5> QED BY <4>1, <5>1 DEF Own
      <4> QED BY <4>1, <4>3, <4>4
    <3> QED BY <1>20, <3>2 DEF LotsOfUser
  <2> QED BY <2>3, <2>4 DEF LotsOK
<1>23. SaidOK'
  <2> SUFFICES ASSUME NEW r \in DOMAIN data PROVE (said[r] \in {Unknown, MemoAt(data[r].memo)})'
    BY <1>2 DEF SaidOK
  <2>1. PICK m : m = data[r].memo
    OBVIOUS
  <2>2. MemoAt(m)' = MemoAt(was[r])
    <3>1. CASE sizes[r] # 0
      BY <1>9, <2>1, <3>1
    <3>2. CASE sizes[r] = 0
      <4>1. m = 0 /\ MemoAt(was[r]) = Empty
        BY <1>10, <2>1, <3>2
      <4>2. MemoAt(m)' = Empty
        BY <4>1 DEF MemoAt, SizeAt, TextAt
      <4> QED BY <4>1, <4>2
    <3> QED BY <3>1, <3>2
  <2>3. MemoAt(data[r].memo)' = MemoAt(m)'
    BY <1>2, <2>1
  <2> QED BY <1>2, <1>3, <2>2, <2>3
<1> QED BY <1>16, <1>19, <1>21, <1>22, <1>23, ForEveryone

------------------------------------------------------------------------------
(* The beginning, and all steps together. *)

LEMMA NobodyYet ==
  ASSUME NEW u \in User, NEW rlk \in BOOLEAN, us[u] = Away(rlk), Len(data) \in Nat
  PROVE  UserOK(u) /\ ReplaceOK(u) /\ us[u].id = 0 /\ us[u].pc = "idle"
<1>1. /\ us[u].rec = -1 /\ us[u].pc = "idle" /\ us[u].was = << >> /\ ~us[u].valid /\ ~us[u].fresh
      /\ us[u].oldOf = -1 /\ ~us[u].changed /\ ~us[u].given /\ us[u].rlk = rlk /\ us[u].id = 0
  BY DEF Away
<1>2. AwayOK(u)
  BY <1>1 DEF AwayOK
<1>3. LocksOK(u)
  BY <1>1 DEF LocksOK, Writes
<1>4. KnownOK(u)
  BY <1>1 DEF KnownOK
<1>5. MarksOK(u)
  BY <1>1 DEF MarksOK, Writes
<1>6. TextOK(u) /\ ReadOK(u) /\ ReplaceOK(u)
  BY <1>1 DEF TextOK, ReadOK, ReplaceOK
<1> QED BY <1>1, <1>2, <1>3, <1>4, <1>5, <1>6 DEF UserOK

LEMMA InitHolds == Init => IInv
<1> SUFFICES ASSUME Init PROVE IInv
  OBVIOUS
<1>0. PICK f \in Files :
        LET sizes == [r \in DOMAIN f |-> Length(f[r])]
            texts == [r \in DOMAIN f |-> [n \in 1..sizes[r] |->
                        [size |-> IF n = 1 THEN sizes[r] ELSE 0, piece |-> <<f[r], n>>]]]
        IN  /\ data = [r \in DOMAIN f |-> [memo |-> Numbers(sizes)[r], live |-> TRUE]]
            /\ blocks = LaidOut(sizes, texts) /\ next = End(sizes)
            /\ said = f
            /\ rlock = [r \in 1..(MaxRec + 1) |-> NoOne] /\ alock = NoOne /\ mlock = NoOne
            /\ \E rlk \in ReadLocks : us = [u \in User |-> Away(rlk)]
  BY DEF Init
<1>1. PICK sizes, texts :
        /\ sizes = [r \in DOMAIN f |-> Length(f[r])]
        /\ texts = [r \in DOMAIN f |-> [n \in 1..sizes[r] |->
                      [size |-> IF n = 1 THEN sizes[r] ELSE 0, piece |-> <<f[r], n>>]]]
        /\ data = [r \in DOMAIN f |-> [memo |-> Numbers(sizes)[r], live |-> TRUE]]
        /\ blocks = LaidOut(sizes, texts) /\ next = End(sizes)
        /\ said = f
        /\ rlock = [r \in 1..(MaxRec + 1) |-> NoOne] /\ alock = NoOne /\ mlock = NoOne
        /\ \E rlk \in ReadLocks : us = [u \in User |-> Away(rlk)]
  BY <1>0
<1>2. PICK rlk \in BOOLEAN : us = [u \in User |-> Away(rlk)]
  BY <1>1, ReadLocksAssumption
<1>3. /\ f \in Seq(Text \cup {Empty}) /\ Len(f) <= MaxRec /\ Len(f) \in Nat /\ DOMAIN f = 1..Len(f)
      /\ End(sizes) <= MaxBlock + 1
  BY <1>1, FilesAssumption
<1>4. sizes \in Seq(Nat) /\ Len(sizes) = Len(f) /\ DOMAIN sizes = DOMAIN f
  <2>1. \A r \in 1..Len(f) : Length(f[r]) \in Nat
    BY LengthsAre
  <2> QED BY <1>1, <1>3, <2>1
<1>5. \A r \in DOMAIN f : sizes[r] = Length(f[r]) /\ sizes[r] \in Nat /\ f[r] \in Text \cup {Empty}
  BY <1>1, <1>3, LengthsAre
<1>6. /\ data \in Seq(Record) /\ Len(data) = Len(f) /\ DOMAIN data = DOMAIN f
      /\ \A r \in DOMAIN f : data[r].memo = Numbers(sizes)[r]
  <2>1. \A r \in DOMAIN f : Numbers(sizes)[r] \in Nat
    BY <1>3, <1>4, NumbersAre, BoundAssumption
  <2>2. \A r \in 1..Len(f) : [memo |-> Numbers(sizes)[r], live |-> TRUE] \in Record
    BY <1>3, <2>1 DEF Record
  <2>3. data = [r \in 1..Len(f) |-> [memo |-> Numbers(sizes)[r], live |-> TRUE]]
    BY <1>1, <1>3
  <2>4. data \in Seq(Record) /\ Len(data) = Len(f)
    BY <1>3, <2>2, <2>3
  <2> QED BY <1>1, <2>4
<1>7. End(sizes) \in Nat \ {0} /\ MaxBlock \in Nat
  <2>1. \A x \in 1..(Len(sizes) + 1) : Starts(sizes)[x] \in Nat \ {0}
    BY <1>4, StartsAre
  <2>2. Len(sizes) + 1 \in 1..(Len(sizes) + 1)
    BY <1>3, <1>4
  <2> QED BY <2>1, <2>2, BoundAssumption DEF End
<1>8. \A r \in DOMAIN f : \A n \in 1..sizes[r] :
         texts[r][n] = [size |-> IF n = 1 THEN sizes[r] ELSE 0, piece |-> <<f[r], n>>]
  <2> TAKE r \in DOMAIN f
  <2> TAKE n \in 1..sizes[r]
  <2>1. texts[r] = [k \in 1..sizes[r] |-> [size |-> IF k = 1 THEN sizes[r] ELSE 0, piece |-> <<f[r], k>>]]
    BY <1>1
  <2> QED BY <2>1
<1>9. blocks \in [1..MaxBlock -> [size : Nat, piece : Pieces]]
  <2>1. Blank \in [size : Nat, piece : Pieces]
    BY DEF Blank, Pieces
  <2>2. \A r \in DOMAIN sizes : \A n \in 1..sizes[r] : texts[r][n] \in [size : Nat, piece : Pieces]
    <3> SUFFICES ASSUME NEW r \in DOMAIN f, NEW n \in 1..sizes[r]
                 PROVE  texts[r][n] \in [size : Nat, piece : Pieces]
      BY <1>4
    <3>1. sizes[r] \in Nat /\ f[r] \in Text \cup {Empty} /\ n \in Nat
      BY <1>5
    <3>2. texts[r][n] = [size |-> IF n = 1 THEN sizes[r] ELSE 0, piece |-> <<f[r], n>>]
      BY <1>8
    <3> QED BY <3>1, <3>2 DEF Pieces
  <2>3. PICK B : B = [size : Nat, piece : Pieces]
    OBVIOUS
  <2>4. LaidOut(sizes, texts) \in [1..MaxBlock -> B]
    BY <1>3, <1>4, <2>1, <2>2, <2>3, LaidOutIs
  <2> QED BY <1>1, <2>3, <2>4
<1>10. TypeOK
  <2>1. said \in Seq(Said) /\ Len(said) = Len(data)
    <3>1. f \in Seq(Said)
      BY <1>3 DEF Said
    <3> QED BY <1>1, <1>6, <3>1
  <2>2. us \in [User -> UserState]
    BY <1>2, AwayIs
  <2>3. next \in 1..(MaxBlock + 1)
    BY <1>1, <1>3, <1>7
  <2> QED BY <1>1, <1>3, <1>6, <1>9, <2>1, <2>2, <2>3 DEF TypeOK
<1>11. \A u \in User : UserOK(u) /\ ReplaceOK(u) /\ us[u].id = 0 /\ us[u].pc = "idle"
  <2> TAKE u \in User
  <2>1. us[u] = Away(rlk) /\ Len(data) \in Nat
    BY <1>2, <1>3, <1>6
  <2> QED BY <2>1, NobodyYet
<1>12. ASSUME NEW r \in DOMAIN f, NEW m, m = data[r].memo, sizes[r] # 0
       PROVE  Lies(sizes, texts, r, m) /\ blocks[m].size = sizes[r]
  <2>1. m = Numbers(sizes)[r] /\ r \in DOMAIN sizes
    BY <1>4, <1>6, <1>12
  <2>2. Lies(sizes, texts, r, m)
    BY <1>3, <1>4, <1>12, <2>1, LaidOutMemo
  <2>3. blocks[m] = texts[r][1]
    BY <1>1, <2>2 DEF Lies
  <2>4. 1 \in 1..sizes[r]
    BY <1>5, <1>12
  <2>5. texts[r][1] = [size |-> sizes[r], piece |-> <<f[r], 1>>]
    BY <1>8, <2>4
  <2> QED BY <2>2, <2>3, <2>5
<1>13. \A r \in DOMAIN f : sizes[r] = 0 => data[r].memo = 0
  BY <1>3, <1>4, <1>6, NumbersAre
<1>14. LotsOK
  <2>1. PICK lot : lot = LotOf(sizes)
    OBVIOUS
  <2>2. LotsOf(lot, Memos)
    <3> SUFFICES ASSUME NEW r \in DOMAIN f, NEW m, m = data[r].memo, m # 0
                 PROVE  Lot(lot, r, m, blocks[m].size)
      BY <1>6 DEF LotsOf, Memos
    <3>1. Lies(sizes, texts, r, m) /\ blocks[m].size = sizes[r]
      BY <1>12, <1>13
    <3> QED BY <1>1, <2>1, <3>1 DEF Lot, Lies
  <2>3. \A u \in User : LotsOfUser(lot, u)
    BY <1>11 DEF LotsOfUser
  <2> QED BY <2>2, <2>3 DEF LotsOK
<1>15. SaidOK
  <2> SUFFICES ASSUME NEW r \in DOMAIN f PROVE f[r] = MemoAt(data[r].memo)
    BY <1>1, <1>6 DEF SaidOK
  <2>1. CASE f[r] \notin Text
    <3>1. f[r] = Empty /\ sizes[r] = 0
      BY <1>5, <2>1, LengthsAre
    <3> QED BY <1>13, <3>1, NoMemo
  <2>2. CASE f[r] \in Text
    <3>1. sizes[r] # 0 /\ sizes[r] = Size[f[r]]
      BY <1>5, <2>2, LengthsAre
    <3>2. PICK m : m = data[r].memo
      OBVIOUS
    <3>3. Lies(sizes, texts, r, m) /\ blocks[m].size = sizes[r]
      BY <1>12, <3>1, <3>2
    <3>4. \A n \in 1..sizes[r] : m + n - 1 \in 1..MaxBlock /\ blocks[m + n - 1].piece = <<f[r], n>>
      BY <1>1, <1>8, <3>3 DEF Lies
    <3>5. m \in 1..MaxBlock /\ DOMAIN blocks = 1..MaxBlock
      BY <1>9, <3>3 DEF Lies
    <3>6. Written(m, f[r])
      BY <3>1, <3>3, <3>4, <3>5 DEF Written
    <3> QED BY <1>9, <2>2, <3>2, <3>6, TextIsWritten
  <2> QED BY <2>1, <2>2
<1> QED BY <1>10, <1>11, <1>14, <1>15 DEF IInv, UserOK

LEMMA Standing ==
  ASSUME IInv, UNCHANGED vars
  PROVE  IInv'
<1>1. /\ data' = data /\ blocks' = blocks /\ next' = next /\ rlock' = rlock /\ alock' = alock
      /\ mlock' = mlock /\ us' = us /\ said' = said
  BY DEF vars
<1>2. TypeOK /\ LotsOK /\ SaidOK /\ \A w \in User : UserOK(w) /\ ReplaceOK(w)
  BY OfEveryone
<1>3. TypeOK'
  BY <1>1, <1>2 DEF TypeOK
<1>4. LotsOK'
  <2> SUFFICES ASSUME Whole PROVE (\E lot : LotsOf(lot, Memos) /\ \A w \in User : LotsOfUser(lot, w))'
    BY <1>1 DEF LotsOK, Whole
  <2>1. PICK lot : LotsOf(lot, Memos) /\ \A w \in User : LotsOfUser(lot, w)
    BY <1>2 DEF LotsOK
  <2>2. LotsOf(lot, Memos)'
    BY <1>1, <2>1 DEF LotsOf, Memos, Lot
  <2>3. \A w \in User : LotsOfUser(lot, w)'
    BY <1>1, <2>1 DEF LotsOfUser, Lot, Length, Own
  <2> QED BY <2>2, <2>3
<1>8. \A id : SizeAt(id)' = SizeAt(id) /\ MemoAt(id)' = MemoAt(id)
  BY <1>1, StaysOnDisk
<1>5. SaidOK'
  <2> SUFFICES ASSUME Whole, NEW r \in DOMAIN data
               PROVE  (said[r] \in {Unknown, MemoAt(data[r].memo)} \/ WrittenOver(r))'
    BY <1>1 DEF SaidOK, Whole
  <2>1. said[r] \in {Unknown, MemoAt(data[r].memo)} \/ WrittenOver(r)
    BY <1>2 DEF SaidOK
  <2>2. MemoAt(data[r].memo)' = MemoAt(data[r].memo)
    BY <1>1, <1>8
  <2>3. WrittenOver(r) => WrittenOver(r)'
    BY <1>1 DEF WrittenOver, WritesOver
  <2> QED BY <1>1, <2>1, <2>2, <2>3
<1>6. ASSUME NEW w \in User PROVE UserOK(w)'
  <2>1. AwayOK(w)' /\ LocksOK(w)' /\ KnownOK(w)'
    BY <1>1, <1>2 DEF UserOK, AwayOK, LocksOK, KnownOK, Own, Holds, Length, Away
  <2>2. MarksOK(w)' /\ TextOK(w)' /\ ReadOK(w)'
    BY <1>1, <1>2 DEF UserOK, MarksOK, TextOK, ReadOK, Written, SizeAt
  <2> QED BY <2>1, <2>2 DEF UserOK
<1>7. ASSUME NEW w \in User PROVE ReplaceOK(w)'
  <2>1. (\E lot : LotsOf(lot, us[w].was)) => (\E lot : LotsOf(lot, us[w].was))'
    <3> SUFFICES ASSUME NEW lot, LotsOf(lot, us[w].was) PROVE LotsOf(lot, us[w].was)'
      OBVIOUS
    <3>1. DOMAIN data' = DOMAIN data /\ next' = next /\ blocks' = blocks /\ us'[w].was = us[w].was
      BY <1>1
    <3> QED BY <3>1 DEF LotsOf, Lot
  <2> QED BY <1>1, <1>2, <1>8, <2>1 DEF ReplaceOK
<1> QED BY <1>3, <1>4, <1>5, <1>6, <1>7, ForEveryone

(* Every step of programs that make none of the Careless calls. *)
LEMMA StepKeeps ==
  ASSUME IInv, Careless = {}, Next
  PROVE  IInv'
<1>1. PICK u \in User : Call(u) \/ Step(u) \/ Die(u)
  BY DEF Next
<1>2. CASE Call(u)
  <2>1. CASE DoLock(u) \/ DoUnlock(u) \/ DoGo(u) \/ DoRefresh(u) \/ DoClose(u) \/ DoReadMemo(u)
    BY <2>1, LockKeeps, UnlockKeeps, GoKeeps, RefreshKeeps, CloseKeeps, ReadMemoKeeps
  <2>2. CASE DoAssign(u) \/ DoMark(u) \/ DoBlank(u) \/ DoWrite(u) \/ DoAppendStart(u) \/ DoAppend(u)
    BY <2>2, AssignKeeps, MarkKeeps, BlankKeeps, WriteKeeps, AppendStartKeeps, AppendKeeps
  <2>3. CASE DoPack(u) \/ DoZap(u) \/ CompressRecords(u)
    BY <2>3, PackKeeps, ZapKeeps, CompressRecordsKeeps
  <2> QED BY <1>2, <2>1, <2>2, <2>3 DEF Call
<1>3. CASE Step(u)
  <2>1. CASE ReadText(u) \/ Place(u) \/ TakeHeader(u) \/ WriteHeader(u) \/ DumpHead(u) \/ DumpText(u)
    BY <2>1, ReadTextKeeps, PlaceKeeps, TakeHeaderKeeps, WriteHeaderKeeps, DumpHeadKeeps, DumpTextKeeps
  <2>2. CASE Store(u) \/ StoreNew(u) \/ CompressFile(u)
    BY <2>2, StoreKeeps, StoreNewKeeps, CompressFileKeeps
  <2> QED BY <1>3, <2>1, <2>2 DEF Step
<1>4. CASE Die(u)
  BY <1>4, DieKeeps
<1> QED BY <1>1, <1>2, <1>3, <1>4

------------------------------------------------------------------------------
(* What the invariant says of memos. *)

LEMMA Apart == IInv => NoSharedBlocks
<1> SUFFICES ASSUME IInv, Whole, NEW r \in DOMAIN data, NEW s \in DOMAIN data
             PROVE  Blocks(r) \subseteq 1..(next - 1) /\ (r # s => Blocks(r) \cap Blocks(s) = {})
  BY DEF NoSharedBlocks
<1>0. TypeOK /\ LotsOK
  BY OfEveryone
<1>1. PICK lot : LotsOf(lot, Memos)
  BY <1>0 DEF LotsOK
<1>2. ASSUME NEW q \in DOMAIN data, NEW b \in Blocks(q)
      PROVE  b \in 1..(next - 1) /\ lot[b] = <<q, data[q].memo>>
  <2>1. PICK m : m = data[q].memo
    OBVIOUS
  <2>2. m # 0 /\ b \in m..(m + SizeAt(m) - 1)
    BY <1>2, <2>1 DEF Blocks
  <2>3. SizeAt(m) = blocks[m].size
    BY <2>2 DEF SizeAt
  <2>4. Lot(lot, q, m, blocks[m].size)
    BY <1>1, <2>1, <2>2 DEF LotsOf, Memos
  <2>5. lot[b] = <<q, m>>
    BY <2>2, <2>3, <2>4 DEF Lot
  <2>6. m \in 1..(next - 1) /\ m + blocks[m].size <= next /\ next \in Nat /\ blocks[m].size \in Nat
    <3>1. m \in 1..MaxBlock /\ m \in 1..(next - 1) /\ m + blocks[m].size <= next
      BY <1>0, <2>4, LotInFile
    <3> QED BY <1>0, <3>1, InBounds DEF TypeOK
  <2>7. b \in 1..(next - 1)
    BY <2>2, <2>3, <2>6
  <2> QED BY <2>1, <2>5, <2>7
<1> QED BY <1>2

LEMMA TheLast == IInv => MemoIsTheLast
<1> SUFFICES ASSUME IInv, Whole, NEW r \in DOMAIN data, ~Writing(r)
             PROVE  said[r] \in {Unknown, MemoAt(data[r].memo)}
  BY DEF MemoIsTheLast
<1>1. ~WrittenOver(r)
  BY DEF Writing, WrittenOver, WritesOver
<1> QED BY <1>1 DEF IInv, SaidOK

LEMMA ReadUnderLock == IInv => LockedReadIsTheLast
BY DEF IInv, ReadOK, LockedReadIsTheLast

------------------------------------------------------------------------------
(* The invariant always holds, of programs that make none of the Careless  *)
(* calls.                                                                  *)
THEOREM MemoInvariant == Careless = {} /\ Spec => []IInv
<1> SUFFICES ASSUME Careless = {} PROVE Spec => []IInv
  OBVIOUS
<1>1. Init => IInv
  BY InitHolds
<1>2. IInv /\ [Next]_vars => IInv'
  BY StepKeeps, Standing
<1> QED BY <1>1, <1>2, PTL DEF Spec

(* However users interleave their writes, packs and compresses, and        *)
(* wherever they die, memos of two records have no block in common.        *)
THEOREM BlocksStayApart == Careless = {} /\ Spec => []NoSharedBlocks
BY MemoInvariant, Apart, PTL

(* The memo of a record nobody is writing is the text last given to it.    *)
THEOREM MemosStayTrue == Careless = {} /\ Spec => []MemoIsTheLast
BY MemoInvariant, TheLast, PTL

(* A memo read of a record that was read under its lock is the text last   *)
(* given to it.                                                            *)
THEOREM LockedReadsAreTrue == Careless = {} /\ Spec => []LockedReadIsTheLast
BY MemoInvariant, ReadUnderLock, PTL
=============================================================================
