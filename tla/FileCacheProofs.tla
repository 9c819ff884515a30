--------------------------- MODULE FileCacheProofs ---------------------------
EXTENDS FileCache, TLAPS
------------------------------------------------------------------------------
(* The invariant.  A byte is exempt while the write in progress has not    *)
(* reached it: in the blocks it still has to write, or, when the file does *)
(* not buffer, until the write through.                                    *)

Vals == Nat \cup {AnyByte, Junk}
Buffer == [on : BOOLEAN, start : Nat, count : Nat, data : Seq(Vals)]
Block == [data : [1 .. BlockSize -> Vals], len : 0 .. BlockSize, changed : BOOLEAN]
Files == [disk : Seq(Vals), cache : UNION {[D -> Block] : D \in SUBSET Nat},
          wbuf : Buffer, rbuf : Buffer, flen : Nat \cup {Unknown}]
Written == Nat \cup {AnyByte}

WriteCall == [op : {"write", "through"}, pos : Nat, n : Nat \ {0}, b : Nat]
ReadCall == [op : {"read"}, pos : Nat, n : Nat \ {0}, b : Nat, forced : BOOLEAN, sp : BOOLEAN,
             place : Nat \cup {-1}, last : Nat, got : Seq(Vals)]
FlushCall == [op : {"flush"}, free : BOOLEAN, forget : BOOLEAN, lock : BOOLEAN]
Calls == {NoCall} \cup WriteCall \cup ReadCall \cup FlushCall
Answers == {NoAnswer} \cup [op : {"flush"}]
           \cup [op : {"read"}, pos : Nat, n : Nat \ {0}, forced : BOOLEAN, bytes : Seq(Vals)]

TypeOK ==
  /\ mode \in Modes /\ buffers \in BOOLEAN /\ held \in BOOLEAN
  /\ s \in Files /\ want \in Seq(Written) /\ writes \in Nat
  /\ call \in Calls /\ answer \in Answers

(* Who buffers has the file to himself. *)
Alone ==
  /\ buffers = (~mode.shared /\ mode.writeBuffer)
  /\ held => mode.shared
  /\ call.op = "flush" /\ (call.lock \/ call.forget) => mode.shared /\ call.free
  /\ call.op = "flush" /\ call.lock => held
  /\ call.op = "read" /\ call.forced => mode.shared
  /\ call.op = "through" => ~buffers
TrueView == ~mode.shared \/ (held /\ ~(call.op = "flush" /\ call.lock))

(* What stands at byte p. *)
WEnd(t) == t.wbuf.start + Len(t.wbuf.data)
Covered(t, p) ==
  LET b == BlockOf(p)
  IN b \in DOMAIN t.cache /\ t.cache[b].changed /\ p - Base(b) < t.cache[b].len
Stands(t, p) ==
  IF Covered(t, p) THEN t.cache[BlockOf(p)].data[p - Base(BlockOf(p)) + 1]
  ELSE IF t.wbuf.on /\ p >= t.wbuf.start /\ p < WEnd(t) THEN t.wbuf.data[p - t.wbuf.start + 1]
  ELSE IF p < Len(t.disk) THEN t.disk[p + 1] ELSE Junk

InCall(c, p) == p >= c.pos /\ p < c.pos + c.n
ToDo(c) == {p \in Nat : c.op = "write" /\ InCall(c, p) /\ p >= Base(c.b)}
Open(B, c) ==
  {p \in Nat : c.op \in {"write", "through"} /\ InCall(c, p) /\ (B => c.op = "write" /\ p >= Base(c.b))}

(* What stands is what was written, or nobody's; w is the file as          *)
(* everybody wrote it, E what is exempt.                                   *)
Cov(t, w, E) == \A p \in 0 .. Len(w) - 1 : p \notin E => Agrees(Stands(t, p), w[p + 1])
(* The write buffer's last block beyond the buffer is nobody's.            *)
Gap(t, w, E) ==
  t.wbuf.on => \A p \in 0 .. Len(w) - 1 :
     p \notin E /\ p >= WEnd(t) /\ Base(BlockOf(p)) < WEnd(t) => w[p + 1] = AnyByte \/ Covered(t, p)
(* A block in memory has what was written, to its end.                     *)
GoodBlock(t, w, E, b) ==
  \A p \in 0 .. Len(w) - 1 : p \notin E /\ Base(b) <= p /\ p < Base(b) + BlockSize =>
     IF p - Base(b) < t.cache[b].len THEN Agrees(t.cache[b].data[p - Base(b) + 1], w[p + 1])
     ELSE w[p + 1] = AnyByte
Good(t, w, E) == \A b \in DOMAIN t.cache : GoodBlock(t, w, E, b)

(* No block ends behind the file; the disk has what is not known to be     *)
(* longer.                                                                 *)
LensIn(t) ==
  /\ \A b \in DOMAIN t.cache : t.cache[b].len = 0 \/ Base(b) + t.cache[b].len <= FileLen(t)
  /\ t.flen = Unknown =>
       /\ \A b \in DOMAIN t.cache :
            /\ Base(b) + t.cache[b].len <= Len(t.disk)
            /\ t.cache[b].len = BlockSize \/ Base(b) + t.cache[b].len >= Len(t.disk)
       /\ t.wbuf.on => WEnd(t) <= Len(t.disk)
(* A file that does not buffer has everything on disk.                     *)
Straight(t) ==
  t.flen = Unknown /\ ~t.wbuf.on /\ \A b \in DOMAIN t.cache : ~t.cache[b].changed

(* The read buffer, while its blocks are placed from the last to the       *)
(* first.                                                                  *)
Placing(c) == c.op = "read" /\ c.place >= 0
PlaceLens(B, t, c) ==
  B => /\ Base(c.b) + c.last <= FileLen(t)
       /\ t.flen = Unknown =>
            Base(c.place) + BlockSize <= c.last \/ Base(c.b) + c.last >= Len(t.disk)
PlaceIs(B, t, c) ==
  /\ t.rbuf.on /\ t.rbuf.start = Base(c.b)
  /\ Base(c.place) < c.last /\ c.last <= Len(t.rbuf.data) /\ c.place < MaxBlocks
  /\ PlaceLens(B, t, c)
PlaceGood(t, w, c) ==
  \A p \in 0 .. Len(w) - 1 :
    p >= Base(c.b) /\ p < Base(c.b + c.place) + BlockSize /\ ~Covered(t, p) =>
      IF p - Base(c.b) < c.last THEN Agrees(t.rbuf.data[p - Base(c.b) + 1], w[p + 1])
      ELSE w[p + 1] = AnyByte

(* The file is as it should be but for what is exempt, X of what stands    *)
(* and E of the blocks.  B says that it buffers, v that nobody else        *)
(* writes, so that the blocks are true.                                    *)
Fine(B, t, w, E, X, v) ==
  /\ Cov(t, w, X)
  /\ B => Gap(t, w, E) /\ LensIn(t)
  /\ ~B => Straight(t)
  /\ v => Good(t, w, E)

(* What is known of each call in progress.                                 *)
WriteIs(t, w, k, c) ==
  /\ Base(c.b) < c.pos + c.n /\ c.pos < Base(c.b) + BlockSize
  /\ \A p \in Nat : InCall(c, p) => w[p + 1] = k
  /\ Len(w) = Most2(FileLen(t), c.pos + c.n)
  /\ \A p \in 0 .. Len(w) - 1 : p >= FileLen(t) /\ p < c.pos => w[p + 1] = AnyByte
ThroughIs(t, w, k, c) ==
  /\ Len(w) = Most2(FileLen(t), c.pos + c.n)
  /\ \A p \in Nat : InCall(c, p) => w[p + 1] = k

GotIs(w, c) == \A i \in 1 .. Len(c.got) : c.pos + i <= Len(w) => Agrees(c.got[i], w[c.pos + i])
ReadIs(B, t, w, v, c) ==
  /\ Base(c.b) < c.pos + c.n /\ c.pos < Base(c.b) + BlockSize
  /\ Len(c.got) = Most2(c.pos, Base(c.b)) - c.pos
  /\ B => Base(c.b) <= FileLen(t)
  /\ v => GotIs(w, c)

CallIs(B, t, w, k, v, c) ==
  /\ c.op = "write" => WriteIs(t, w, k, c)
  /\ c.op = "through" => ThroughIs(t, w, k, c)
  /\ c.op = "read" => ReadIs(B, t, w, v, c)
  /\ c.op \notin {"write", "through"} => FileLen(t) = Len(w)
PlacingIs(B, t, w, v, c) ==
  /\ Placing(c) => PlaceIs(B, t, c) /\ (v => PlaceGood(t, w, c))
  /\ ~Placing(c) => ~t.rbuf.on

(* What is known of an answer.                                             *)
FlushIs(t, w) == Len(t.disk) = Len(w) /\ \A i \in 1 .. Len(w) : Agrees(t.disk[i], w[i])
AnswerIs ==
  /\ answer.op # "none" => Quiet
  /\ answer.op = "flush" => FlushIs(s, want)
  /\ answer.op = "read" => ReadsAreTrue

(* The inductive invariant.                                                *)
IInv ==
  /\ Opened /\ TypeOK /\ Alone
  /\ Fine(buffers, s, want, ToDo(call), Open(buffers, call), TrueView)
  /\ CallIs(buffers, s, want, writes, TrueView, call)
  /\ PlacingIs(buffers, s, want, TrueView, call) /\ AnswerIs
------------------------------------------------------------------------------
(* Blocks and their bytes.                                                 *)

(* Where blocks begin: one after the other, and every byte is in one.      *)
LEMMA Bases ==
  ASSUME Opened
  PROVE  /\ Base(0) = 0
         /\ \A b \in Nat : Base(b) \in Nat
         /\ \A b \in Nat : Base(b + 1) = Base(b) + BlockSize
         /\ \A a, b \in Nat : a < b => Base(a) + BlockSize <= Base(b)
         /\ \A a, b \in Nat : Base(a + b) = Base(a) + Base(b)
         /\ BlockSize \in Nat /\ BlockSize > 0
<1>1. BlockSize \in Nat /\ BlockSize > 0
  BY DEF Opened
<1>2. ASSUME NEW b \in Nat PROVE Base(b) \in Nat /\ Base(b + 1) = Base(b) + BlockSize
  BY <1>1 DEF Base
<1>3. ASSUME NEW a \in Nat, NEW b \in Nat PROVE Base(a + b) = Base(a) + Base(b)
  BY <1>1 DEF Base
<1>4. ASSUME NEW a \in Nat, NEW b \in Nat, a < b PROVE Base(a) + BlockSize <= Base(b)
  <2> DEFINE k == b - (a + 1)
  <2>1. k \in Nat /\ b = (a + 1) + k
    BY <1>4
  <2> HIDE DEF k
  <2>2. Base(b) = Base(a + 1) + Base(k)
    BY <2>1, <1>3
  <2> QED BY <1>2, <2>1, <2>2, <1>1
<1>5. Base(0) = 0
  BY <1>1 DEF Base
<1> QED BY <1>1, <1>2, <1>3, <1>4, <1>5

(* The block of a byte.                                                    *)
LEMMA Bytewise ==
  ASSUME Opened
  PROVE  /\ \A p \in Nat : /\ BlockOf(p) \in Nat
                           /\ Base(BlockOf(p)) <= p /\ p < Base(BlockOf(p)) + BlockSize
         /\ \A p, b \in Nat : Base(b) <= p /\ p < Base(b) + BlockSize => BlockOf(p) = b
<1>1. BlockSize \in Nat /\ BlockSize > 0
  BY DEF Opened
<1>2. ASSUME NEW p \in Nat
      PROVE  /\ BlockOf(p) \in Nat
             /\ Base(BlockOf(p)) <= p /\ p < Base(BlockOf(p)) + BlockSize
  <2> DEFINE k == p \div BlockSize
  <2>1. k \in Nat /\ k * BlockSize <= p /\ p < k * BlockSize + BlockSize
    BY <1>1, SMT
  <2> QED BY <2>1 DEF Base, BlockOf
<1>3. ASSUME NEW p \in Nat, NEW b \in Nat, Base(b) <= p, p < Base(b) + BlockSize
      PROVE  BlockOf(p) = b
  <2> DEFINE k == BlockOf(p)
  <2>1. k \in Nat /\ Base(k) <= p /\ p < Base(k) + BlockSize
    BY <1>2
  <2>2. Base(k) \in Nat /\ Base(b) \in Nat
    BY <2>1, Bases
  <2> HIDE DEF k
  <2>3. ~(k < b)
    <3>1. k < b => Base(k) + BlockSize <= Base(b)
      BY <2>1, Bases
    <3> QED BY <3>1, <2>1, <2>2, <1>3, <1>1
  <2>4. ~(b < k)
    <3>1. b < k => Base(b) + BlockSize <= Base(k)
      BY <2>1, Bases
    <3> QED BY <3>1, <2>1, <2>2, <1>3, <1>1
  <2>5. k = b
    BY <2>3, <2>4, <2>1
  <2> QED BY <2>5 DEF k
<1> QED BY <1>2, <1>3

(* What the helpers on sequences give.                                     *)
PutGives(S) ==
  \A q \in Seq(S), d \in Seq(S), fill \in S, at \in Nat :
    /\ Put(q, at, d, fill) \in Seq(S)
    /\ Len(Put(q, at, d, fill)) = Most2(Len(q), at + Len(d))
    /\ \A i \in 1 .. Most2(Len(q), at + Len(d)) :
         Put(q, at, d, fill)[i] = IF i > at /\ i <= at + Len(d) THEN d[i - at]
                                  ELSE IF i <= Len(q) THEN q[i] ELSE fill
LEMMA PutIs ==
  ASSUME NEW S
  PROVE  PutGives(S)
<1> SUFFICES ASSUME NEW q \in Seq(S), NEW d \in Seq(S), NEW fill \in S, NEW at \in Nat
             PROVE  /\ Put(q, at, d, fill) \in Seq(S)
                    /\ Len(Put(q, at, d, fill)) = Most2(Len(q), at + Len(d))
                    /\ \A i \in 1 .. Most2(Len(q), at + Len(d)) :
                         Put(q, at, d, fill)[i] = IF i > at /\ i <= at + Len(d) THEN d[i - at]
                                                  ELSE IF i <= Len(q) THEN q[i] ELSE fill
  BY DEF PutGives
<1> DEFINE n == Most2(Len(q), at + Len(d))
           P(i) == IF i > at /\ i <= at + Len(d) THEN d[i - at]
                   ELSE IF i <= Len(q) THEN q[i] ELSE fill
<1>1. Len(q) \in Nat /\ Len(d) \in Nat
  OBVIOUS
<1>2. n \in Nat
  BY <1>1 DEF Most2
<1>3. ASSUME NEW i \in 1 .. n PROVE P(i) \in S
  <2>1. CASE i > at /\ i <= at + Len(d)
    <3>1. i - at \in 1 .. Len(d)
      BY <2>1, <1>1, <1>2
    <3> QED BY <3>1, <2>1
  <2>2. CASE ~(i > at /\ i <= at + Len(d)) /\ i <= Len(q)
    BY <2>2, <1>1, <1>2
  <2> QED BY <2>1, <2>2
<1> HIDE DEF n
<1>4. [i \in 1 .. n |-> P(i)] \in Seq(S) /\ Len([i \in 1 .. n |-> P(i)]) = n
  <2>1. [i \in 1 .. n |-> P(i)] \in [1 .. n -> S]
    BY <1>3
  <2> QED BY <2>1, <1>2
<1>5. Put(q, at, d, fill) = [i \in 1 .. n |-> P(i)]
  BY DEF Put, n
<1> QED BY <1>4, <1>5 DEF n

(* Put, on bytes of the file and on the bytes that are wanted.             *)
LEMMA PutVals ==
  ASSUME NEW q \in Seq(Vals), NEW d \in Seq(Vals), NEW at \in Nat
  PROVE  /\ Put(q, at, d, Junk) \in Seq(Vals)
         /\ Len(Put(q, at, d, Junk)) = Most2(Len(q), at + Len(d))
         /\ \A i \in 1 .. Most2(Len(q), at + Len(d)) :
              Put(q, at, d, Junk)[i] = IF i > at /\ i <= at + Len(d) THEN d[i - at]
                                       ELSE IF i <= Len(q) THEN q[i] ELSE Junk
<1>1. Junk \in Vals
  BY DEF Vals
<1>2. PutGives(Vals)
  BY PutIs
<1>3. \A fill \in Vals, n \in Nat :
        /\ Put(q, n, d, fill) \in Seq(Vals)
        /\ Len(Put(q, n, d, fill)) = Most2(Len(q), n + Len(d))
        /\ \A i \in 1 .. Most2(Len(q), n + Len(d)) :
             Put(q, n, d, fill)[i] = IF i > n /\ i <= n + Len(d) THEN d[i - n]
                                     ELSE IF i <= Len(q) THEN q[i] ELSE fill
  BY <1>2, Zenon DEF PutGives
<1> QED BY <1>1, <1>3

LEMMA PutWant ==
  ASSUME NEW q \in Seq(Written), NEW d \in Seq(Written), NEW at \in Nat
  PROVE  /\ Put(q, at, d, AnyByte) \in Seq(Written)
         /\ Len(Put(q, at, d, AnyByte)) = Most2(Len(q), at + Len(d))
         /\ \A i \in 1 .. Most2(Len(q), at + Len(d)) :
              Put(q, at, d, AnyByte)[i] = IF i > at /\ i <= at + Len(d) THEN d[i - at]
                                       ELSE IF i <= Len(q) THEN q[i] ELSE AnyByte
<1>1. AnyByte \in Written
  BY DEF Written
<1>2. PutGives(Written)
  BY PutIs
<1>3. \A fill \in Written, n \in Nat :
        /\ Put(q, n, d, fill) \in Seq(Written)
        /\ Len(Put(q, n, d, fill)) = Most2(Len(q), n + Len(d))
        /\ \A i \in 1 .. Most2(Len(q), n + Len(d)) :
             Put(q, n, d, fill)[i] = IF i > n /\ i <= n + Len(d) THEN d[i - n]
                                     ELSE IF i <= Len(q) THEN q[i] ELSE fill
  BY <1>2, Zenon DEF PutGives
<1> QED BY <1>1, <1>3

(* Resize, on both.                                                        *)
LEMMA ResizeVals ==
  ASSUME NEW q \in Seq(Vals), NEW fill \in Vals, NEW n \in Nat
  PROVE  /\ Resize(q, n, fill) \in Seq(Vals) /\ Len(Resize(q, n, fill)) = n
         /\ Resize(q, n, fill) \in [1 .. n -> Vals]
         /\ \A i \in 1 .. n : Resize(q, n, fill)[i] = IF i <= Len(q) THEN q[i] ELSE fill
<1>1. ASSUME NEW i \in 1 .. n PROVE (IF i <= Len(q) THEN q[i] ELSE fill) \in Vals
  OBVIOUS
<1>2. Resize(q, n, fill) \in [1 .. n -> Vals]
  BY <1>1 DEF Resize
<1> QED BY <1>2 DEF Resize

LEMMA ResizeWant ==
  ASSUME NEW q \in Seq(Written), NEW fill \in Written, NEW n \in Nat
  PROVE  /\ Resize(q, n, fill) \in Seq(Written) /\ Len(Resize(q, n, fill)) = n
         /\ Resize(q, n, fill) \in [1 .. n -> Written]
         /\ \A i \in 1 .. n : Resize(q, n, fill)[i] = IF i <= Len(q) THEN q[i] ELSE fill
<1>1. ASSUME NEW i \in 1 .. n PROVE (IF i <= Len(q) THEN q[i] ELSE fill) \in Written
  OBVIOUS
<1>2. Resize(q, n, fill) \in [1 .. n -> Written]
  BY <1>1 DEF Resize
<1> QED BY <1>2 DEF Resize

(* Bytes, on both.                                                         *)
LEMMA BytesVals ==
  ASSUME NEW v \in Vals, NEW n \in Nat
  PROVE  /\ Bytes(n, v) \in Seq(Vals) /\ Len(Bytes(n, v)) = n
         /\ \A i \in 1 .. n : Bytes(n, v)[i] = v
<1>1. Bytes(n, v) \in [1 .. n -> Vals]
  BY DEF Bytes
<1> QED BY <1>1 DEF Bytes

LEMMA BytesWant ==
  ASSUME NEW v \in Written, NEW n \in Nat
  PROVE  /\ Bytes(n, v) \in Seq(Written) /\ Len(Bytes(n, v)) = n
         /\ \A i \in 1 .. n : Bytes(n, v)[i] = v
<1>1. Bytes(n, v) \in [1 .. n -> Written]
  BY DEF Bytes
<1> QED BY <1>1 DEF Bytes

(* From, on both.                                                          *)
LEMMA FromVals ==
  ASSUME NEW q \in Seq(Vals), NEW at \in Nat, NEW n \in Nat
  PROVE  /\ From(q, at, n) \in Seq(Vals)
         /\ Len(From(q, at, n)) = IF at >= Len(q) THEN 0 ELSE Least2(n, Len(q) - at)
         /\ \A i \in 1 .. Len(From(q, at, n)) : From(q, at, n)[i] = q[at + i]
<1> DEFINE m == Least2(at + n, Len(q))
<1>1. Len(q) \in Nat /\ m \in Nat /\ m <= Len(q) /\ m <= at + n
  BY DEF Least2
<1>2. From(q, at, n) = SubSeq(q, at + 1, m)
  BY DEF From
<1>3. Len(q) > at => m - at = Least2(n, Len(q) - at)
  BY <1>1 DEF Least2
<1>4. at >= Len(q) => m <= at
  BY <1>1
<1> HIDE DEF m
<1>5. SubSeq(q, at + 1, m) \in Seq(Vals)
  BY <1>1
<1>6. Len(SubSeq(q, at + 1, m)) = IF m >= at THEN m - at ELSE 0
  BY <1>1
<1>7. \A i \in 1 .. (m - at) : SubSeq(q, at + 1, m)[i] = q[at + i]
  BY <1>1
<1>8. n >= 0 /\ (Len(q) > at => m >= at)
  BY <1>1, <1>3 DEF Least2
<1> QED BY <1>1, <1>2, <1>3, <1>4, <1>5, <1>6, <1>7, <1>8

LEMMA FromWant ==
  ASSUME NEW q \in Seq(Written), NEW at \in Nat, NEW n \in Nat
  PROVE  /\ From(q, at, n) \in Seq(Written)
         /\ Len(From(q, at, n)) = IF at >= Len(q) THEN 0 ELSE Least2(n, Len(q) - at)
         /\ \A i \in 1 .. Len(From(q, at, n)) : From(q, at, n)[i] = q[at + i]
<1> DEFINE m == Least2(at + n, Len(q))
<1>1. Len(q) \in Nat /\ m \in Nat /\ m <= Len(q) /\ m <= at + n
  BY DEF Least2
<1>2. From(q, at, n) = SubSeq(q, at + 1, m)
  BY DEF From
<1>3. Len(q) > at => m - at = Least2(n, Len(q) - at)
  BY <1>1 DEF Least2
<1>4. at >= Len(q) => m <= at
  BY <1>1
<1> HIDE DEF m
<1>5. SubSeq(q, at + 1, m) \in Seq(Written)
  BY <1>1
<1>6. Len(SubSeq(q, at + 1, m)) = IF m >= at THEN m - at ELSE 0
  BY <1>1
<1>7. \A i \in 1 .. (m - at) : SubSeq(q, at + 1, m)[i] = q[at + i]
  BY <1>1
<1>8. n >= 0 /\ (Len(q) > at => m >= at)
  BY <1>1, <1>3 DEF Least2
<1> QED BY <1>1, <1>2, <1>3, <1>4, <1>5, <1>6, <1>7, <1>8
------------------------------------------------------------------------------
(* The state of a file.                                                    *)

Caches == UNION {[D -> Block] : D \in SUBSET Nat}

(* Blocks, and what each is made of.                                       *)
LEMMA CacheIs ==
  ASSUME NEW D, D \subseteq Nat, NEW k, k = [b \in D |-> k[b]], \A b \in D : k[b] \in Block
  PROVE  k \in Caches /\ DOMAIN k = D
<1>1. k \in [D -> Block]
  OBVIOUS
<1> QED BY <1>1 DEF Caches

LEMMA CacheHas ==
  ASSUME NEW k \in Caches
  PROVE  /\ DOMAIN k \subseteq Nat /\ k = [b \in DOMAIN k |-> k[b]]
         /\ \A b \in DOMAIN k : k[b] \in Block
<1>1. PICK D \in SUBSET Nat : k \in [D -> Block]
  BY DEF Caches
<1> QED BY <1>1

LEMMA FilesAre ==
  Files = [disk : Seq(Vals), cache : Caches, wbuf : Buffer, rbuf : Buffer, flen : Nat \cup {Unknown}]
BY DEF Files, Caches

LEMMA FileHas ==
  ASSUME Opened, NEW t \in Files
  PROVE  /\ t.disk \in Seq(Vals) /\ Len(t.disk) \in Nat
         /\ t.cache \in Caches /\ DOMAIN t.cache \subseteq Nat
         /\ \A b \in DOMAIN t.cache :
              /\ b \in Nat /\ t.cache[b] \in Block /\ t.cache[b].data \in [1 .. BlockSize -> Vals]
              /\ t.cache[b].len \in Nat /\ t.cache[b].len <= BlockSize
              /\ t.cache[b].changed \in BOOLEAN
         /\ t.wbuf \in Buffer /\ t.wbuf.on \in BOOLEAN /\ t.wbuf.start \in Nat /\ t.wbuf.count \in Nat
         /\ t.wbuf.data \in Seq(Vals) /\ Len(t.wbuf.data) \in Nat
         /\ WEnd(t) \in Nat /\ WEnd(t) >= t.wbuf.start
         /\ t.rbuf \in Buffer /\ t.rbuf.on \in BOOLEAN /\ t.rbuf.start \in Nat
         /\ t.rbuf.data \in Seq(Vals) /\ Len(t.rbuf.data) \in Nat
         /\ t.flen \in Nat \cup {Unknown} /\ FileLen(t) \in Nat
         /\ Junk \in Vals /\ AnyByte \in Vals /\ Nat \subseteq Vals
<1>1. /\ t.disk \in Seq(Vals) /\ t.cache \in Caches /\ t.wbuf \in Buffer /\ t.rbuf \in Buffer
      /\ t.flen \in Nat \cup {Unknown}
  BY FilesAre
<1>2. DOMAIN t.cache \subseteq Nat /\ \A b \in DOMAIN t.cache : t.cache[b] \in Block
  BY <1>1, CacheHas
<1>3. \A b \in DOMAIN t.cache :
        /\ b \in Nat /\ t.cache[b].data \in [1 .. BlockSize -> Vals]
        /\ t.cache[b].len \in Nat /\ t.cache[b].len <= BlockSize /\ t.cache[b].changed \in BOOLEAN
  BY <1>2 DEF Block, Opened
<1>4. Len(t.disk) \in Nat
  BY <1>1
<1>5. /\ t.wbuf.on \in BOOLEAN /\ t.wbuf.start \in Nat /\ t.wbuf.data \in Seq(Vals) /\ t.wbuf.count \in Nat
      /\ Len(t.wbuf.data) \in Nat
  BY <1>1 DEF Buffer
<1>6. t.rbuf.on \in BOOLEAN /\ t.rbuf.start \in Nat /\ t.rbuf.data \in Seq(Vals) /\ Len(t.rbuf.data) \in Nat
  BY <1>1 DEF Buffer
<1>7. WEnd(t) \in Nat /\ WEnd(t) >= t.wbuf.start
  BY <1>5 DEF WEnd
<1>8. FileLen(t) \in Nat
  BY <1>1, <1>4 DEF FileLen, Opened
<1> QED BY <1>1, <1>2, <1>3, <1>4, <1>5, <1>6, <1>7, <1>8 DEF Vals

LEMMA BlockHas ==
  ASSUME Opened, NEW t \in Files, NEW b \in DOMAIN t.cache
  PROVE  /\ b \in Nat /\ Base(b) \in Nat /\ BlockSize \in Nat /\ BlockSize > 0
         /\ t.cache[b].len \in Nat /\ t.cache[b].len <= BlockSize /\ t.cache[b].changed \in BOOLEAN
         /\ t.cache[b].data \in [1 .. BlockSize -> Vals] /\ t.cache[b] \in Block
<1>1. /\ b \in Nat /\ t.cache[b].len \in Nat /\ t.cache[b].len <= BlockSize /\ t.cache[b].changed \in BOOLEAN
      /\ t.cache[b].data \in [1 .. BlockSize -> Vals] /\ t.cache[b] \in Block
  BY FileHas
<1>2. Base(b) \in Nat /\ BlockSize \in Nat /\ BlockSize > 0
  BY <1>1, Bases
<1> QED BY <1>1, <1>2

LEMMA ByteIn ==
  ASSUME Opened, NEW p \in Nat
  PROVE  /\ BlockOf(p) \in Nat /\ Base(BlockOf(p)) \in Nat /\ BlockSize \in Nat /\ BlockSize > 0
         /\ Base(BlockOf(p)) <= p /\ p < Base(BlockOf(p)) + BlockSize
<1>1. BlockOf(p) \in Nat /\ Base(BlockOf(p)) <= p /\ p < Base(BlockOf(p)) + BlockSize
  BY Bytewise
<1>2. Base(BlockOf(p)) \in Nat /\ BlockSize \in Nat /\ BlockSize > 0
  BY <1>1, Bases
<1> QED BY <1>1, <1>2

(* An empty buffer.                                                        *)
LEMMA NoBufferIs ==
  NoBuffer \in Buffer /\ NoBuffer.on = FALSE /\ NoBuffer.start = 0 /\ NoBuffer.count = 0 /\ NoBuffer.data = <<>>
<1>1. <<>> \in Seq(Vals)
  OBVIOUS
<1> QED BY <1>1 DEF NoBuffer, Buffer

(* The write buffer goes to the disk: every byte stands as it stood.       *)
LEMMA FlushedFields ==
  ASSUME Opened, NEW t \in Files, t.wbuf.on, NEW u, u = FlushWriteBuffer(t)
  PROVE  /\ u \in Files /\ u.disk = Put(t.disk, t.wbuf.start, t.wbuf.data, Junk)
         /\ ~u.wbuf.on /\ u.cache = t.cache /\ u.rbuf = t.rbuf /\ u.flen = t.flen
         /\ Len(u.disk) = Most2(Len(t.disk), WEnd(t))
<1> DEFINE d == Put(t.disk, t.wbuf.start, t.wbuf.data, Junk)
<1>0. /\ t.disk \in Seq(Vals) /\ t.wbuf.data \in Seq(Vals) /\ t.wbuf.start \in Nat /\ Junk \in Vals
  BY FileHas
<1>1. d \in Seq(Vals) /\ Len(d) = Most2(Len(t.disk), WEnd(t))
  BY ONLY <1>0, PutVals DEF WEnd
<1>2. u = [t EXCEPT !.disk = d, !.wbuf = NoBuffer]
  BY DEF FlushWriteBuffer
<1> HIDE DEF d
<1>3. u \in Files /\ u.disk = d /\ u.wbuf = NoBuffer /\ u.cache = t.cache /\ u.rbuf = t.rbuf
      /\ u.flen = t.flen
  BY <1>1, <1>2, NoBufferIs, FilesAre
<1> QED BY <1>1, <1>3, NoBufferIs DEF d

LEMMA FlushStands ==
  ASSUME Opened, NEW t \in Files, NEW p \in Nat, NEW u, u = FlushWriteBuffer(t)
  PROVE  Stands(u, p) = Stands(t, p)
<1>1. CASE ~t.wbuf.on
  BY <1>1 DEF FlushWriteBuffer
<1>2. CASE t.wbuf.on
  <2>1. /\ u.disk = Put(t.disk, t.wbuf.start, t.wbuf.data, Junk)
        /\ ~u.wbuf.on /\ u.cache = t.cache
        /\ Len(u.disk) = Most2(Len(t.disk), WEnd(t))
    BY <1>2, FlushedFields
  <2>2. /\ t.disk \in Seq(Vals) /\ Len(t.disk) \in Nat /\ t.wbuf.start \in Nat
        /\ t.wbuf.data \in Seq(Vals) /\ Len(t.wbuf.data) \in Nat
        /\ WEnd(t) = t.wbuf.start + Len(t.wbuf.data) /\ Junk \in Vals
    BY FileHas DEF WEnd
  <2>3. Covered(u, p) <=> Covered(t, p)
    BY <2>1 DEF Covered
  <2>4. \A i \in 1 .. Most2(Len(t.disk), WEnd(t)) :
           u.disk[i] = IF i > t.wbuf.start /\ i <= WEnd(t) THEN t.wbuf.data[i - t.wbuf.start]
                       ELSE IF i <= Len(t.disk) THEN t.disk[i] ELSE Junk
    <3> DEFINE q == t.disk
               d == t.wbuf.data
               at == t.wbuf.start
    <3>1. q \in Seq(Vals) /\ d \in Seq(Vals) /\ at \in Nat /\ u.disk = Put(q, at, d, Junk)
          /\ WEnd(t) = at + Len(d)
      BY <2>1, <2>2
    <3> HIDE DEF q, d, at
    <3>2. \A i \in 1 .. Most2(Len(q), at + Len(d)) :
            Put(q, at, d, Junk)[i] = IF i > at /\ i <= at + Len(d) THEN d[i - at]
                                     ELSE IF i <= Len(q) THEN q[i] ELSE Junk
      BY <3>1, <2>2, PutVals
    <3>3. \A i \in 1 .. Most2(Len(q), WEnd(t)) :
            u.disk[i] = IF i > at /\ i <= WEnd(t) THEN d[i - at]
                        ELSE IF i <= Len(q) THEN q[i] ELSE Junk
      BY <3>1, <3>2
    <3> QED BY <3>3 DEF q, d, at
  <2>5. CASE Covered(t, p)
    BY <2>5, <2>3, <2>1 DEF Stands
  <2>6. CASE ~Covered(t, p)
    <3>1. Stands(u, p) = IF p < Len(u.disk) THEN u.disk[p + 1] ELSE Junk
      BY <2>6, <2>3, <2>1 DEF Stands
    <3>2. Stands(t, p) = IF p >= t.wbuf.start /\ p < WEnd(t) THEN t.wbuf.data[p - t.wbuf.start + 1]
                         ELSE IF p < Len(t.disk) THEN t.disk[p + 1] ELSE Junk
      BY <2>6, <1>2 DEF Stands
    <3>3. p < Len(u.disk) => p + 1 \in 1 .. Most2(Len(t.disk), WEnd(t))
      BY <2>1, <2>2 DEF Most2
    <3>4. (p + 1) - t.wbuf.start = p - t.wbuf.start + 1
      BY ONLY <2>2, SMTT(60)
    <3>5. p >= Len(u.disk) => p >= WEnd(t) /\ p >= Len(t.disk)
      BY <2>1, <2>2 DEF Most2
    <3>6. CASE p < Len(u.disk)
      <4>1. u.disk[p + 1] = IF p + 1 > t.wbuf.start /\ p + 1 <= WEnd(t) THEN t.wbuf.data[p - t.wbuf.start + 1]
                            ELSE IF p + 1 <= Len(t.disk) THEN t.disk[p + 1] ELSE Junk
        BY <3>6, <3>3, <3>4, <2>4
      <4>2. p + 1 > t.wbuf.start <=> p >= t.wbuf.start
        BY ONLY <2>2
      <4>3. (p + 1 <= WEnd(t) <=> p < WEnd(t)) /\ (p + 1 <= Len(t.disk) <=> p < Len(t.disk))
        BY ONLY <2>2
      <4> QED BY ONLY <3>6, <4>1, <4>2, <4>3, <3>1, <3>2
    <3>7. CASE ~(p < Len(u.disk))
      BY ONLY <3>7, <3>5, <3>1, <3>2, <2>1, <2>2 DEF Most2
    <3> QED BY <3>6, <3>7
  <2> QED BY <2>5, <2>6
<1> QED BY <1>1, <1>2

(* What the invariant says of a file depends on the bytes that stand, the  *)
(* blocks and the lengths alone.                                           *)
LEMMA SameBytes ==
  ASSUME NEW B \in BOOLEAN, NEW v \in BOOLEAN, NEW t, NEW u, NEW w, NEW E, NEW X,
         Len(w) \in Nat, Fine(B, t, w, E, X, v),
         \A p \in Nat : Stands(u, p) = Stands(t, p),
         u.cache = t.cache, u.flen = t.flen, ~u.wbuf.on,
         B => FileLen(u) = FileLen(t) /\ (t.flen = Unknown => Len(u.disk) = Len(t.disk))
  PROVE  Fine(B, u, w, E, X, v)
<1>1. Cov(u, w, X)
  BY DEF Cov, Fine
<1>2. Gap(u, w, E)
  BY DEF Gap
<1>3. B => LensIn(u)
  BY DEF LensIn, Fine
<1>4. ~B => Straight(u)
  BY DEF Straight, Fine
<1>5. v => Good(u, w, E)
  BY DEF Good, GoodBlock, Fine
<1> QED BY <1>1, <1>2, <1>3, <1>4, <1>5 DEF Fine

(* The write buffer's going leaves everything the invariant says.          *)
LEMMA FlushFine ==
  ASSUME Opened, NEW B \in BOOLEAN, NEW v \in BOOLEAN, NEW t \in Files, NEW w \in Seq(Written),
         NEW E, NEW X, Fine(B, t, w, E, X, v), NEW u, u = FlushWriteBuffer(t)
  PROVE  /\ u \in Files /\ Fine(B, u, w, E, X, v) /\ ~u.wbuf.on
         /\ u.cache = t.cache /\ u.rbuf = t.rbuf /\ u.flen = t.flen /\ FileLen(u) = FileLen(t)
         /\ t.flen = Unknown => Len(u.disk) = Len(t.disk)
         /\ \A p \in Nat : Stands(u, p) = Stands(t, p)
<1>1. \A p \in Nat : Stands(u, p) = Stands(t, p)
  BY FlushStands
<1>2. CASE ~t.wbuf.on
  <2>1. u = t
    BY <1>2 DEF FlushWriteBuffer
  <2> QED BY <2>1, <1>2
<1>3. CASE t.wbuf.on
  <2>1. /\ u \in Files /\ ~u.wbuf.on /\ u.cache = t.cache /\ u.rbuf = t.rbuf /\ u.flen = t.flen
        /\ Len(u.disk) = Most2(Len(t.disk), WEnd(t))
    BY <1>3, FlushedFields
  <2>2. B
    BY <1>3 DEF Fine, Straight
  <2>3. t.flen = Unknown => WEnd(t) <= Len(t.disk)
    BY <2>2, <1>3 DEF Fine, LensIn
  <2>4. t.flen = Unknown => Len(u.disk) = Len(t.disk)
    BY <2>1, <2>3, FileHas DEF Most2
  <2>5. FileLen(u) = FileLen(t)
    BY <2>1, <2>4 DEF FileLen
  <2>6. Len(w) \in Nat
    OBVIOUS
  <2>7. Fine(B, u, w, E, X, v)
    BY <1>1, <2>1, <2>4, <2>5, <2>6, SameBytes
  <2> QED BY <1>1, <2>1, <2>4, <2>5, <2>7
<1> QED BY <1>2, <1>3
------------------------------------------------------------------------------
(* A changed block goes to the write buffer.                               *)

PatchGives(t, at, d, u) ==
  /\ u \in Files /\ u.disk = t.disk /\ u.cache = t.cache /\ u.wbuf = t.wbuf /\ u.flen = t.flen
  /\ u.rbuf.on = t.rbuf.on /\ u.rbuf.start = t.rbuf.start
  /\ u.rbuf.data = IF t.rbuf.on /\ at >= t.rbuf.start /\ at < t.rbuf.start + Base(MaxBlocks)
                   THEN Put(t.rbuf.data, at - t.rbuf.start, d, Junk) ELSE t.rbuf.data

(* What Patch changes: the read buffer alone.                              *)
LEMMA PatchFields ==
  ASSUME Opened, NEW t \in Files, NEW at \in Nat, NEW d \in Seq(Vals), NEW u, u = Patch(t, at, d)
  PROVE  PatchGives(t, at, d, u)
<1> DEFINE near == t.rbuf.on /\ at >= t.rbuf.start /\ at < t.rbuf.start + Base(MaxBlocks)
           e == Put(t.rbuf.data, at - t.rbuf.start, d, Junk)
<1>1. CASE ~near
  BY <1>1 DEF Patch, PatchGives
<1>2. CASE near
  <2>1. t.rbuf \in Buffer /\ t.rbuf.data \in Seq(Vals) /\ t.rbuf.start \in Nat
    BY FileHas
  <2>2. at - t.rbuf.start \in Nat
    BY <1>2, <2>1
  <2>3. e \in Seq(Vals)
    BY <2>1, <2>2, PutVals
  <2>4. u = [t EXCEPT !.rbuf.data = e]
    BY <1>2 DEF Patch
  <2> HIDE DEF e
  <2>5. [t.rbuf EXCEPT !.data = e] \in Buffer
    BY <2>1, <2>3 DEF Buffer
  <2>6. u = [t EXCEPT !.rbuf = [t.rbuf EXCEPT !.data = e]]
    BY <2>4, FilesAre
  <2>7. /\ u \in Files /\ u.disk = t.disk /\ u.cache = t.cache /\ u.wbuf = t.wbuf /\ u.flen = t.flen
        /\ u.rbuf = [t.rbuf EXCEPT !.data = e]
    BY <2>5, <2>6, FilesAre
  <2>8. u.rbuf.on = t.rbuf.on /\ u.rbuf.start = t.rbuf.start /\ u.rbuf.data = e
    BY <2>1, <2>7 DEF Buffer
  <2> QED BY <1>2, <2>7, <2>8 DEF e, PatchGives
<1> QED BY <1>1, <1>2

CollectGives(t, at, d, u) ==
  /\ u \in Files /\ u.cache = t.cache /\ u.rbuf = t.rbuf /\ u.flen = t.flen /\ u.wbuf.on
  /\ GoesOn(t.wbuf, at) =>
       /\ t.wbuf.on /\ WEnd(t) <= at /\ at - WEnd(t) < BlockSize
       /\ u.disk = t.disk /\ u.wbuf.start = t.wbuf.start
       /\ u.wbuf.data = Put(t.wbuf.data, at - t.wbuf.start, d, Junk)
  /\ ~GoesOn(t.wbuf, at) =>
       /\ u.disk = FlushWriteBuffer(t).disk /\ u.wbuf.start = at
       /\ u.wbuf.data = Put(<<>>, 0, d, Junk)

(* What Collect changes, whether the write buffer goes on or starts anew.  *)
LEMMA CollectFields ==
  ASSUME Opened, NEW t \in Files, NEW at \in Nat, NEW d \in Seq(Vals), NEW u, u = Collect(t, at, d)
  PROVE  CollectGives(t, at, d, u)
<1>0. /\ t.wbuf \in Buffer /\ t.wbuf.data \in Seq(Vals) /\ t.wbuf.start \in Nat /\ t.wbuf.count \in Nat
      /\ Len(t.wbuf.data) \in Nat /\ <<>> \in Seq(Vals) /\ t.wbuf.on \in BOOLEAN
  BY FileHas
<1>1. CASE GoesOn(t.wbuf, at)
  <2> DEFINE e == Put(t.wbuf.data, at - t.wbuf.start, d, Junk)
             w == [t.wbuf EXCEPT !.data = e, !.count = t.wbuf.count + 1]
  <2>1. t.wbuf.on /\ WEnd(t) <= at /\ at - WEnd(t) < BlockSize
    BY <1>1 DEF GoesOn, WEnd
  <2>2. at - t.wbuf.start \in Nat
    BY <2>1, <1>0 DEF WEnd
  <2>3. e \in Seq(Vals)
    BY <1>0, <2>2, PutVals
  <2>4. u = [t EXCEPT !.wbuf.data = e, !.wbuf.count = t.wbuf.count + 1]
    BY <1>1, FilesAre DEF Collect
  <2> HIDE DEF e
  <2>5. w \in Buffer /\ w.on = t.wbuf.on /\ w.start = t.wbuf.start /\ w.data = e
    <3> DEFINE x == t.wbuf
               k == t.wbuf.count + 1
    <3>1. x \in Buffer /\ k \in Nat
      BY <1>0
    <3> HIDE DEF x, k
    <3>2. /\ [x EXCEPT !.data = e, !.count = k] \in Buffer
          /\ [x EXCEPT !.data = e, !.count = k].on = x.on
          /\ [x EXCEPT !.data = e, !.count = k].start = x.start
          /\ [x EXCEPT !.data = e, !.count = k].data = e
      BY <3>1, <2>3 DEF Buffer
    <3> QED BY <3>2 DEF x, k
  <2>6. u = [t EXCEPT !.wbuf = w]
    BY <2>4, <1>0, FilesAre DEF Buffer
  <2> HIDE DEF w
  <2>7. u \in Files /\ u.disk = t.disk /\ u.cache = t.cache /\ u.wbuf = w /\ u.flen = t.flen /\ u.rbuf = t.rbuf
    BY <2>5, <2>6, FilesAre
  <2> QED BY <1>1, <2>1, <2>5, <2>7 DEF e, CollectGives
<1>2. CASE ~GoesOn(t.wbuf, at)
  <2> DEFINE f == FlushWriteBuffer(t)
             e == Put(<<>>, 0, d, Junk)
             n == [NoBuffer EXCEPT !.on = TRUE, !.start = at]
             w == [NoBuffer EXCEPT !.on = TRUE, !.start = at, !.data = e, !.count = 1]
  <2>1. f \in Files /\ f.cache = t.cache /\ f.rbuf = t.rbuf /\ f.flen = t.flen
    <3>1. CASE t.wbuf.on
      BY <3>1, FlushedFields
    <3>2. CASE ~t.wbuf.on
      BY <3>2 DEF FlushWriteBuffer
    <3> QED BY <3>1, <3>2
  <2>2. e \in Seq(Vals)
    BY <1>0, PutVals
  <2>3. n.start = at /\ n.data = <<>> /\ n.count = 0
    BY DEF NoBuffer
  <2>4. u = [[f EXCEPT !.wbuf = n] EXCEPT !.wbuf.data = Put(<<>>, at - at, d, Junk), !.wbuf.count = 0 + 1]
    BY <1>2, <2>1, <2>3, FilesAre DEF Collect
  <2>5. at - at = 0
    OBVIOUS
  <2> HIDE DEF f, e
  <2>6. u = [f EXCEPT !.wbuf = [n EXCEPT !.data = e, !.count = 1]]
    <3> HIDE DEF n
    <3>1. u = [[f EXCEPT !.wbuf = n] EXCEPT !.wbuf.data = e, !.wbuf.count = 1]
      <4>1. Put(<<>>, at - at, d, Junk) = e /\ 0 + 1 = 1
        BY <2>5 DEF e
      <4> QED BY <4>1, <2>4
    <3> QED BY <3>1, <2>1, FilesAre
  <2>7. [n EXCEPT !.data = e, !.count = 1] = w
    BY DEF NoBuffer
  <2>8. w \in Buffer /\ w.on /\ w.start = at /\ w.data = e
    BY <2>2 DEF NoBuffer, Buffer
  <2> HIDE DEF w, n
  <2>9. u \in Files /\ u.disk = f.disk /\ u.cache = f.cache /\ u.wbuf = w /\ u.flen = f.flen /\ u.rbuf = f.rbuf
    BY <2>1, <2>6, <2>7, <2>8, FilesAre
  <2> QED BY <1>2, <2>1, <2>8, <2>9 DEF f, e, CollectGives
<1> QED BY <1>1, <1>2

(* An offset into the write buffer, counted from its start or from the     *)
(* piece.                                                                  *)
LEMMA Shift ==
  ASSUME NEW st \in Nat, NEW at \in Nat, NEW p \in Nat, NEW old \in Nat, NEW new \in Nat,
         NEW o \in Nat, o = at - st, o >= old, NEW e, e = st + old
  PROVE  /\ p >= st /\ p < at + new =>
              p - st + 1 \in 1 .. o + new /\ p - st + 1 <= o + new
         /\ (at <= p => p - st + 1 > o) /\ (at > p => ~(p - st + 1 > o)) /\ (p - st + 1) - o = p - at + 1
         /\ (p < e => p - st + 1 <= old) /\ (~(p < e) => ~(p - st + 1 <= old))
OBVIOUS

CollectBytes(t, at, d, u) ==
  /\ WEnd(u) = at + Len(d)
  /\ \A p \in Nat : ~Covered(t, p) =>
       Stands(u, p) = IF at <= p /\ p < at + Len(d) THEN d[p - at + 1]
                      ELSE IF GoesOn(t.wbuf, at) /\ WEnd(t) <= p /\ p < at THEN Junk
                      ELSE Stands(t, p)

(* Which byte stands where once a piece is collected.                      *)
LEMMA CollectStands ==
  ASSUME Opened, NEW t \in Files, NEW at \in Nat, NEW d \in Seq(Vals), NEW u, u = Collect(t, at, d)
  PROVE  CollectBytes(t, at, d, u)
<1>0. /\ t.wbuf.data \in Seq(Vals) /\ t.wbuf.start \in Nat /\ WEnd(t) \in Nat /\ Len(d) \in Nat
      /\ Len(t.wbuf.data) \in Nat /\ <<>> \in Seq(Vals) /\ WEnd(t) = t.wbuf.start + Len(t.wbuf.data)
  BY FileHas DEF WEnd
<1>a. CollectGives(t, at, d, u)
  BY CollectFields
<1>1. u.cache = t.cache /\ u.wbuf.on
  BY <1>a DEF CollectGives
<1>2. \A p : Covered(u, p) <=> Covered(t, p)
  BY <1>1 DEF Covered
<1>3. CASE GoesOn(t.wbuf, at)
  <2> DEFINE q == t.wbuf.data
             o == at - t.wbuf.start
  <2>1. /\ t.wbuf.on /\ WEnd(t) <= at /\ u.disk = t.disk /\ u.wbuf.start = t.wbuf.start
        /\ u.wbuf.data = Put(q, o, d, Junk)
    BY <1>3, <1>a DEF CollectGives
  <2>2. o \in Nat /\ o >= Len(q) /\ q \in Seq(Vals) /\ Len(q) \in Nat /\ o = at - t.wbuf.start
    BY <2>1, <1>0
  <2> HIDE DEF q, o
  <2>3. /\ Len(u.wbuf.data) = o + Len(d)
        /\ \A i \in 1 .. o + Len(d) :
             u.wbuf.data[i] = IF i > o /\ i <= o + Len(d) THEN d[i - o] ELSE IF i <= Len(q) THEN q[i] ELSE Junk
    <3>1. Most2(Len(q), o + Len(d)) = o + Len(d)
      BY <2>2, <1>0 DEF Most2
    <3>2. /\ Len(Put(q, o, d, Junk)) = Most2(Len(q), o + Len(d))
          /\ \A i \in 1 .. Most2(Len(q), o + Len(d)) :
               Put(q, o, d, Junk)[i] = IF i > o /\ i <= o + Len(d) THEN d[i - o]
                                       ELSE IF i <= Len(q) THEN q[i] ELSE Junk
      BY <2>2, PutVals
    <3> QED BY <3>1, <3>2, <2>1
  <2>4. WEnd(u) = at + Len(d)
    <3>1. WEnd(u) = t.wbuf.start + (o + Len(d))
      BY <2>1, <2>3 DEF WEnd
    <3>2. t.wbuf.start + (o + Len(d)) = at + Len(d)
      <4>1. \A x, st, n \in Nat : x = at - st => st + (x + n) = at + n
        OBVIOUS
      <4> QED BY ONLY <4>1, <2>2, <1>0, at \in Nat, SMTT(60)
    <3> QED BY <3>1, <3>2
  <2>5. ASSUME NEW p \in Nat, ~Covered(t, p)
        PROVE  Stands(u, p) = IF at <= p /\ p < at + Len(d) THEN d[p - at + 1]
                              ELSE IF WEnd(t) <= p /\ p < at THEN Junk ELSE Stands(t, p)
    <3> DEFINE i == p - t.wbuf.start + 1
    <3>0. Len(q) = Len(t.wbuf.data) /\ o = at - t.wbuf.start
      BY DEF q, o
    <3>1. Stands(u, p) = IF p >= t.wbuf.start /\ p < at + Len(d) THEN u.wbuf.data[i]
                         ELSE IF p < Len(t.disk) THEN t.disk[p + 1] ELSE Junk
      BY <2>5, <1>1, <1>2, <2>1, <2>4 DEF Stands
    <3>2. Stands(t, p) = IF p >= t.wbuf.start /\ p < WEnd(t) THEN t.wbuf.data[i]
                         ELSE IF p < Len(t.disk) THEN t.disk[p + 1] ELSE Junk
      BY <2>5, <2>1 DEF Stands
    <3>3. p >= t.wbuf.start /\ p < at + Len(d) =>
            /\ i \in 1 .. o + Len(d) /\ (at <= p => i > o) /\ (at > p => ~(i > o)) /\ i <= o + Len(d) /\ i - o = p - at + 1
            /\ (p < WEnd(t) => i <= Len(q)) /\ (~(p < WEnd(t)) => ~(i <= Len(q)))
      <4>1. t.wbuf.start \in Nat /\ Len(q) \in Nat /\ Len(d) \in Nat /\ o \in Nat /\ o >= Len(q)
            /\ o = at - t.wbuf.start /\ WEnd(t) = t.wbuf.start + Len(q)
        BY <2>2, <3>0, <1>0
      <4> DEFINE st == t.wbuf.start
                 old == Len(q)
                 new == Len(d)
                 e == WEnd(t)
      <4>2. st \in Nat /\ old \in Nat /\ new \in Nat /\ o \in Nat /\ o >= old /\ o = at - st /\ e = st + old
        BY <4>1
      <4> HIDE DEF st, old, new, e
      <4>3. /\ p >= st /\ p < at + new => p - st + 1 \in 1 .. o + new /\ p - st + 1 <= o + new
            /\ (at <= p => p - st + 1 > o) /\ (at > p => ~(p - st + 1 > o)) /\ (p - st + 1) - o = p - at + 1
            /\ (p < e => p - st + 1 <= old) /\ (~(p < e) => ~(p - st + 1 <= old))
        BY <4>2, Shift
      <4> USE DEF st, old, new, e
      <4> SUFFICES ASSUME p >= t.wbuf.start, p < at + Len(d)
                   PROVE  /\ i \in 1 .. o + Len(d) /\ (at <= p => i > o) /\ (at > p => ~(i > o)) /\ i <= o + Len(d) /\ i - o = p - at + 1
                          /\ (p < WEnd(t) => i <= Len(q)) /\ (~(p < WEnd(t)) => ~(i <= Len(q)))
        OBVIOUS
      <4>4. i \in 1 .. o + Len(d) /\ i <= o + Len(d)
        BY <4>3
      <4>5. (at <= p => i > o) /\ (at > p => ~(i > o))
        BY <4>3
      <4>6. i - o = p - at + 1
        BY <4>3
      <4>7. (p < WEnd(t) => i <= Len(q)) /\ (~(p < WEnd(t)) => ~(i <= Len(q)))
        BY <4>3
      <4> QED BY <4>4, <4>5, <4>6, <4>7
    <3> HIDE DEF i
    <3>4. p >= t.wbuf.start /\ p < at + Len(d) =>
            u.wbuf.data[i] = IF at <= p THEN d[p - at + 1] ELSE IF p < WEnd(t) THEN q[i] ELSE Junk
      BY ONLY <3>3, <2>3
    <3>5. t.wbuf.start <= at /\ q = t.wbuf.data /\ WEnd(t) >= t.wbuf.start
      BY <2>2, <1>0, SMTT(60) DEF q, o
    <3>6. CASE p >= t.wbuf.start /\ p < at + Len(d)
      BY <3>6, <3>1, <3>2, <3>4, <3>5, <1>0
    <3>7. CASE ~(p >= t.wbuf.start /\ p < at + Len(d))
      BY <3>7, <3>1, <3>2, <3>5, <1>0, <2>1, SMTT(60)
    <3> QED BY <3>6, <3>7
  <2> QED BY <1>3, <2>4, <2>5 DEF CollectBytes
<1>4. CASE ~GoesOn(t.wbuf, at)
  <2> DEFINE f == FlushWriteBuffer(t)
  <2>1. u.disk = f.disk /\ u.wbuf.start = at /\ u.wbuf.data = Put(<<>>, 0, d, Junk)
    BY <1>4, <1>a DEF CollectGives
  <2>2. f.cache = t.cache /\ ~f.wbuf.on
    <3>1. CASE t.wbuf.on
      BY <3>1, FlushedFields
    <3>2. CASE ~t.wbuf.on
      BY <3>2 DEF FlushWriteBuffer
    <3> QED BY <3>1, <3>2
  <2>3. \A p \in Nat : Stands(f, p) = Stands(t, p)
    BY FlushStands
  <2> HIDE DEF f
  <2>4. /\ Len(u.wbuf.data) = Len(d) /\ \A i \in 1 .. Len(d) : u.wbuf.data[i] = d[i]
    <3> DEFINE q == <<>>
    <3>0. q \in Seq(Vals) /\ Len(q) = 0
      BY <1>0
    <3>1. Most2(Len(q), 0 + Len(d)) = Len(d)
      BY <1>0, <3>0 DEF Most2
    <3> HIDE DEF q
    <3> DEFINE z == 0
    <3>5. z \in Nat /\ z = 0
      OBVIOUS
    <3> HIDE DEF z
    <3>6. /\ Len(Put(q, z, d, Junk)) = Most2(Len(q), z + Len(d))
          /\ \A i \in 1 .. Most2(Len(q), z + Len(d)) :
               Put(q, z, d, Junk)[i] = IF i > z /\ i <= z + Len(d) THEN d[i - z]
                                       ELSE IF i <= Len(q) THEN q[i] ELSE Junk
      BY <3>0, <3>5, PutVals
    <3>2. /\ Len(Put(q, 0, d, Junk)) = Most2(Len(q), 0 + Len(d))
          /\ \A i \in 1 .. Most2(Len(q), 0 + Len(d)) :
               Put(q, 0, d, Junk)[i] = IF i > 0 /\ i <= 0 + Len(d) THEN d[i - 0]
                                       ELSE IF i <= Len(q) THEN q[i] ELSE Junk
      BY <3>5, <3>6
    <3>3. \A i \in 1 .. Len(d) : i > 0 /\ i <= 0 + Len(d) /\ i - 0 = i
      BY <1>0
    <3>4. u.wbuf.data = Put(q, 0, d, Junk)
      BY <2>1 DEF q
    <3> QED BY <3>1, <3>2, <3>3, <3>4
  <2>5. WEnd(u) = at + Len(d)
    BY <2>1, <2>4 DEF WEnd
  <2>6. ASSUME NEW p \in Nat, ~Covered(t, p)
        PROVE  Stands(u, p) = IF at <= p /\ p < at + Len(d) THEN d[p - at + 1] ELSE Stands(t, p)
    <3>1. Stands(u, p) = IF p >= at /\ p < at + Len(d) THEN u.wbuf.data[p - at + 1]
                         ELSE IF p < Len(f.disk) THEN f.disk[p + 1] ELSE Junk
      BY <2>6, <1>1, <1>2, <2>1, <2>5 DEF Stands
    <3>2. ~Covered(f, p)
      BY <2>6, <2>2 DEF Covered
    <3>3. Stands(f, p) = IF p < Len(f.disk) THEN f.disk[p + 1] ELSE Junk
      BY <3>2, <2>2 DEF Stands
    <3>4. p >= at /\ p < at + Len(d) => p - at + 1 \in 1 .. Len(d)
      BY <1>0
    <3> QED BY <3>1, <3>3, <3>4, <2>3, <2>4
  <2> QED BY <1>4, <2>5, <2>6 DEF CollectBytes
<1> QED BY <1>3, <1>4

(* The bytes of a block that count.                                        *)
LEMMA DataOf ==
  ASSUME Opened, NEW t \in Files, NEW b \in DOMAIN t.cache, NEW d,
         d = SubSeq(t.cache[b].data, 1, t.cache[b].len)
  PROVE  /\ d \in Seq(Vals) /\ Len(d) = t.cache[b].len
         /\ \A i \in 1 .. t.cache[b].len : d[i] = t.cache[b].data[i]
<1> DEFINE q == t.cache[b].data
           n == t.cache[b].len
<1>1. q \in [1 .. BlockSize -> Vals] /\ n \in Nat /\ n <= BlockSize /\ BlockSize \in Nat
  BY FileHas DEF Opened
<1> HIDE DEF q, n
<1>2. q \in Seq(Vals) /\ Len(q) = BlockSize
  BY <1>1
<1>3. d = SubSeq(q, 1, n)
  BY DEF q, n
<1>7. n >= 0 /\ n <= Len(q) /\ 1 \in Int
  BY <1>1, <1>2
<1>8. SubSeq(q, 1, n) \in Seq(Vals)
  BY <1>1, <1>2, <1>7
<1>9. Len(SubSeq(q, 1, n)) = n
  BY <1>1, <1>2, <1>7
<1>4. d \in Seq(Vals) /\ Len(d) = n
  BY <1>3, <1>8, <1>9
<1>5. \A i \in 1 .. n : SubSeq(q, 1, n)[i] = q[1 + i - 1]
  BY <1>1, <1>2
<1>6. \A i \in 1 .. n : d[i] = q[i]
  <2> TAKE i \in 1 .. n
  <2>1. 1 + i - 1 = i
    BY <1>1
  <2> QED BY <2>1, <1>5, <1>3
<1> QED BY <1>4, <1>6 DEF q, n

(* A block that is clean now is in every other way what it was.            *)
LEMMA SetChanged ==
  ASSUME Opened, NEW t \in Files, NEW b \in DOMAIN t.cache, NEW u,
         u = [t EXCEPT !.cache[b].changed = FALSE]
  PROVE  /\ u \in Files /\ u.disk = t.disk /\ u.wbuf = t.wbuf /\ u.rbuf = t.rbuf /\ u.flen = t.flen
         /\ DOMAIN u.cache = DOMAIN t.cache
         /\ \A x \in DOMAIN t.cache : u.cache[x].data = t.cache[x].data /\ u.cache[x].len = t.cache[x].len
         /\ \A x \in DOMAIN t.cache : x # b => u.cache[x] = t.cache[x]
         /\ ~u.cache[b].changed
<1> DEFINE k == [t.cache EXCEPT ![b] = [t.cache[b] EXCEPT !.changed = FALSE]]
<1>1. t.cache \in Caches /\ t.cache[b] \in Block
  BY FileHas
<1>2. [t.cache[b] EXCEPT !.changed = FALSE] \in Block
  BY <1>1 DEF Block
<1>3. u = [t EXCEPT !.cache = k]
  BY <1>1, FilesAre
<1>4. /\ DOMAIN k = DOMAIN t.cache /\ k = [x \in DOMAIN t.cache |-> k[x]]
      /\ \A x \in DOMAIN t.cache : x # b => k[x] = t.cache[x]
      /\ k[b] = [t.cache[b] EXCEPT !.changed = FALSE]
  OBVIOUS
<1> HIDE DEF k
<1>5. DOMAIN t.cache \subseteq Nat /\ \A x \in DOMAIN t.cache : t.cache[x] \in Block
  BY <1>1, CacheHas
<1>6. \A x \in DOMAIN t.cache : k[x] \in Block
  BY <1>2, <1>4, <1>5
<1>7. k \in Caches
  BY <1>4, <1>5, <1>6, CacheIs
<1>8. /\ u \in Files /\ u.disk = t.disk /\ u.wbuf = t.wbuf /\ u.rbuf = t.rbuf /\ u.flen = t.flen
      /\ u.cache = k
  BY <1>3, <1>7, FilesAre
<1>9. k[b].data = t.cache[b].data /\ k[b].len = t.cache[b].len /\ ~k[b].changed
  BY <1>1, <1>4 DEF Block
<1> QED BY <1>4, <1>8, <1>9

(* A collected byte is where the write buffer says it is.                  *)
LEMMA BufferedByte ==
  ASSUME Opened, NEW t \in Files, NEW at \in Nat, NEW d \in Seq(Vals), NEW u, u = Collect(t, at, d),
         NEW p \in Nat, at <= p, p < at + Len(d)
  PROVE  u.wbuf.data[p - u.wbuf.start + 1] = d[p - at + 1]
<1>a. CollectGives(t, at, d, u)
  BY CollectFields
<1>0. ~GoesOn(t.wbuf, at) => u.wbuf.start = at /\ u.wbuf.data = Put(<<>>, 0, d, Junk)
  BY <1>a DEF CollectGives
<1>1. CASE GoesOn(t.wbuf, at)
  <2> DEFINE q == t.wbuf.data
             st == t.wbuf.start
             o == at - st
             i == p - st + 1
  <2>1. q \in Seq(Vals) /\ st \in Nat /\ WEnd(t) = st + Len(q) /\ Len(q) \in Nat /\ Len(d) \in Nat
    BY FileHas DEF WEnd
  <2>2. WEnd(t) <= at /\ u.wbuf.start = st /\ u.wbuf.data = Put(q, o, d, Junk)
    BY <1>1, <1>a DEF CollectGives
  <2>3. o \in Nat /\ i > o /\ i <= o + Len(d) /\ i - o = p - at + 1 /\ o >= Len(q) /\ i \in 1 .. o + Len(d)
    <3>1. at \in Nat /\ p \in Nat /\ st + Len(q) <= at /\ at <= p /\ p < at + Len(d)
      BY <2>1, <2>2
    <3>2. o \in Nat /\ o >= Len(q)
      <4>1. PICK x \in Nat, y \in Nat : x = st /\ y = Len(q)
        BY ONLY <2>1
      <4>2. x + y <= at
        BY ONLY <4>1, <3>1
      <4>3. at - x \in Nat /\ at - x >= y
        BY ONLY <4>2, <3>1, x \in Nat, y \in Nat
      <4> QED BY ONLY <4>1, <4>3
    <3>5. i > o
      <4>1. PICK x \in Nat : x = st
        BY ONLY <2>1
      <4>2. (p - x) + 1 > at - x /\ p - x + 1 = (p - x) + 1
        BY ONLY <3>1, x \in Nat
      <4> QED BY ONLY <4>1, <4>2
    <3>6. i <= o + Len(d)
      BY ONLY <2>1, <3>1
    <3>3. i \in Nat /\ i > o /\ i <= o + Len(d) /\ i >= 1
      <4>1. p - st \in Nat
        BY ONLY <2>1, <3>1, <3>2, <3>5, SMTT(60)
      <4>2. i \in Nat /\ i >= 1
        BY ONLY <4>1
      <4> QED BY ONLY <4>2, <3>5, <3>6
    <3>4. i - o = p - at + 1
      BY ONLY <2>1, <3>1, SMTT(60)
    <3> QED BY ONLY <2>1, <3>2, <3>3, <3>4
  <2>4. u.wbuf.data[p - u.wbuf.start + 1] = Put(q, o, d, Junk)[i]
    BY <2>2
  <2> HIDE DEF q, st, o, i
  <2>5. Most2(Len(q), o + Len(d)) = o + Len(d)
    BY <2>1, <2>3 DEF Most2
  <2>6. \A j \in 1 .. Most2(Len(q), o + Len(d)) :
          Put(q, o, d, Junk)[j] = IF j > o /\ j <= o + Len(d) THEN d[j - o]
                                  ELSE IF j <= Len(q) THEN q[j] ELSE Junk
    BY <2>1, <2>3, PutVals
  <2> QED BY <2>3, <2>4, <2>5, <2>6
<1>2. CASE ~GoesOn(t.wbuf, at)
  <2> DEFINE q == <<>>
             o == 0
             i == p - at + 1
  <2>1. q \in Seq(Vals) /\ Len(q) = 0 /\ o \in Nat /\ o = 0 /\ Len(d) \in Nat
    OBVIOUS
  <2>0. u.wbuf.start = at /\ u.wbuf.data = Put(<<>>, 0, d, Junk)
    BY <1>0, <1>2
  <2>2. u.wbuf.start = at /\ u.wbuf.data = Put(q, o, d, Junk)
    BY <2>0
  <2>3. i \in 1 .. o + Len(d) /\ i > o /\ i <= o + Len(d) /\ i - o = i
    BY <2>1
  <2>4. u.wbuf.data[p - u.wbuf.start + 1] = Put(q, o, d, Junk)[i]
    BY <2>2
  <2>5. i = p - at + 1
    OBVIOUS
  <2> HIDE DEF q, o, i
  <2>6. Most2(Len(q), o + Len(d)) = o + Len(d)
    BY <2>1 DEF Most2
  <2>7. \A j \in 1 .. Most2(Len(q), o + Len(d)) :
          Put(q, o, d, Junk)[j] = IF j > o /\ j <= o + Len(d) THEN d[j - o]
                                  ELSE IF j <= Len(q) THEN q[j] ELSE Junk
    BY <2>1, PutVals
  <2> QED BY <2>3, <2>4, <2>5, <2>6, <2>7
<1> QED BY <1>1, <1>2

(* The bytes of a flushed block stand in the write buffer, and the bytes   *)
(* between two blocks of it are nobody's.                                  *)
BlockFlushGives(t, b, u) ==
  /\ u \in Files /\ u.flen = t.flen /\ DOMAIN u.cache = DOMAIN t.cache
  /\ \A x \in DOMAIN t.cache : u.cache[x].data = t.cache[x].data /\ u.cache[x].len = t.cache[x].len
  /\ \A x \in DOMAIN t.cache : x # b => u.cache[x] = t.cache[x]
  /\ ~u.cache[b].changed
  /\ WEnd(u) = Base(b) + t.cache[b].len /\ u.wbuf.on
  /\ GoesOn(t.wbuf, Base(b)) =>
       /\ t.wbuf.on /\ WEnd(t) <= Base(b) /\ Base(b) - WEnd(t) < BlockSize
       /\ u.disk = t.disk
  /\ ~GoesOn(t.wbuf, Base(b)) => u.disk = FlushWriteBuffer(t).disk
  /\ \A p \in Nat :
       Stands(u, p) = IF GoesOn(t.wbuf, Base(b)) /\ WEnd(t) <= p /\ p < Base(b) /\ ~Covered(t, p)
                      THEN Junk ELSE Stands(t, p)
  /\ u.rbuf.on = t.rbuf.on /\ u.rbuf.start = t.rbuf.start
  /\ u.rbuf.data = IF t.rbuf.on /\ Base(b) >= t.rbuf.start /\ Base(b) < t.rbuf.start + Base(MaxBlocks)
                   THEN Put(t.rbuf.data, Base(b) - t.rbuf.start, SubSeq(t.cache[b].data, 1, t.cache[b].len), Junk)
                   ELSE t.rbuf.data

LEMMA BlockFlushed ==
  ASSUME Opened, NEW t \in Files, NEW b \in DOMAIN t.cache, t.cache[b].changed,
         NEW u, u = BlockFlush(t, b)
  PROVE  BlockFlushGives(t, b, u)
<1>c. PICK at \in Nat : at = Base(b)
  BY FileHas, Bases
<1>0. PICK d : d = SubSeq(t.cache[b].data, 1, t.cache[b].len)
  OBVIOUS
<1>a. PICK g : g = Patch(t, at, d)
  OBVIOUS
<1>b. PICK c : c = Collect(g, at, d)
  OBVIOUS
<1>1. /\ d \in Seq(Vals) /\ Len(d) = t.cache[b].len
      /\ \A i \in 1 .. t.cache[b].len : d[i] = t.cache[b].data[i]
  BY ONLY <1>0, DataOf, Opened, t \in Files, b \in DOMAIN t.cache
<1>2. /\ b \in Nat /\ at \in Nat /\ at = Base(b) /\ t.cache[b].len \in Nat /\ t.cache[b].len <= BlockSize
      /\ BlockSize \in Nat /\ WEnd(t) \in Nat
  BY <1>c, FileHas, Bases
<1>3. u = [c EXCEPT !.cache[b].changed = FALSE]
  BY <1>c, <1>0, <1>a, <1>b DEF BlockFlush
<1>4. /\ g \in Files /\ g.disk = t.disk /\ g.cache = t.cache /\ g.wbuf = t.wbuf /\ g.flen = t.flen
      /\ g.rbuf.on = t.rbuf.on /\ g.rbuf.start = t.rbuf.start
      /\ g.rbuf.data = IF t.rbuf.on /\ at >= t.rbuf.start /\ at < t.rbuf.start + Base(MaxBlocks)
                       THEN Put(t.rbuf.data, at - t.rbuf.start, d, Junk) ELSE t.rbuf.data
  <2>1. PatchGives(t, at, d, g)
    BY <1>1, <1>2, <1>a, PatchFields
  <2> QED BY <2>1 DEF PatchGives
<1>d. CollectGives(g, at, d, c)
  BY <1>1, <1>2, <1>4, <1>b, CollectFields
<1>e. CollectBytes(g, at, d, c)
  BY <1>1, <1>2, <1>4, <1>b, CollectStands
<1>5. /\ c \in Files /\ c.cache = g.cache /\ c.rbuf = g.rbuf /\ c.flen = g.flen /\ c.wbuf.on
      /\ GoesOn(g.wbuf, at) =>
           /\ g.wbuf.on /\ WEnd(g) <= at /\ at - WEnd(g) < BlockSize /\ c.disk = g.disk
      /\ ~GoesOn(g.wbuf, at) => c.disk = FlushWriteBuffer(g).disk
  BY <1>d DEF CollectGives
<1>6. /\ WEnd(c) = at + Len(d)
      /\ \A p \in Nat : ~Covered(g, p) =>
            Stands(c, p) = IF at <= p /\ p < at + Len(d) THEN d[p - at + 1]
                           ELSE IF GoesOn(g.wbuf, at) /\ WEnd(g) <= p /\ p < at THEN Junk
                           ELSE Stands(g, p)
  BY <1>e DEF CollectBytes
<1>7. /\ u \in Files /\ u.disk = c.disk /\ u.wbuf = c.wbuf /\ u.rbuf = c.rbuf /\ u.flen = c.flen
      /\ DOMAIN u.cache = DOMAIN c.cache
      /\ \A x \in DOMAIN c.cache : u.cache[x].data = c.cache[x].data /\ u.cache[x].len = c.cache[x].len
      /\ \A x \in DOMAIN c.cache : x # b => u.cache[x] = c.cache[x]
      /\ ~u.cache[b].changed
  BY <1>3, <1>4, <1>5, SetChanged
<1>8. WEnd(g) = WEnd(t) /\ WEnd(u) = WEnd(c)
  BY <1>4, <1>7 DEF WEnd
<1>9. FlushWriteBuffer(g).disk = FlushWriteBuffer(t).disk
  <2>1. CASE t.wbuf.on
    BY <2>1, <1>4, FlushedFields
  <2>2. CASE ~t.wbuf.on
    BY <2>2, <1>4 DEF FlushWriteBuffer
  <2> QED BY <2>1, <2>2
<1>10. \A p \in Nat : (Covered(g, p) <=> Covered(t, p)) /\ Stands(g, p) = Stands(t, p)
  BY <1>4, <1>8 DEF Covered, Stands
<1>11. ASSUME NEW p \in Nat
       PROVE  Stands(u, p) = IF GoesOn(t.wbuf, at) /\ WEnd(t) <= p /\ p < at /\ ~Covered(t, p)
                             THEN Junk ELSE Stands(t, p)
  <2>1. /\ BlockOf(p) \in Nat /\ Base(BlockOf(p)) <= p /\ p < Base(BlockOf(p)) + BlockSize
        /\ Base(BlockOf(p)) \in Nat
        /\ at <= p /\ p < at + BlockSize => BlockOf(p) = b
    BY <1>2, Bytewise, Bases
  <2>2. CASE Covered(t, p) /\ BlockOf(p) # b
    <3>1. Covered(u, p) /\ u.cache[BlockOf(p)] = t.cache[BlockOf(p)]
      BY <2>2, <1>4, <1>5, <1>7 DEF Covered
    <3> QED BY <2>2, <3>1 DEF Stands
  <2>3. CASE ~Covered(t, p)
    <3>1. ~Covered(c, p) /\ ~Covered(u, p) /\ ~Covered(g, p)
      BY <2>3, <1>4, <1>5, <1>7 DEF Covered
    <3>2. Stands(u, p) = Stands(c, p)
      BY <3>1, <1>7, <1>8 DEF Stands
    <3>3. ~(at <= p /\ p < at + Len(d))
      <4>1. SUFFICES ASSUME at <= p, p < at + Len(d) PROVE FALSE
        OBVIOUS
      <4>2. BlockOf(p) = b /\ p - at < t.cache[b].len
        <5>1. p < at + BlockSize
          <6>1. Len(d) = t.cache[b].len /\ Len(d) \in Nat
            BY ONLY <1>1, <1>2
          <6> QED BY ONLY <6>1, <4>1, <1>2, p \in Nat
        <5>2. BlockOf(p) = b
          BY ONLY <5>1, <4>1, <2>1
        <5>3. Len(d) = t.cache[b].len /\ Len(d) \in Nat
          BY ONLY <1>1, <1>2
        <5>4. p - at < Len(d)
          BY ONLY <5>3, <4>1, <1>2, p \in Nat
        <5> QED BY ONLY <5>2, <5>3, <5>4
      <4> QED BY <4>2, <2>3, <1>c DEF Covered
    <3> QED BY <3>1, <3>2, <3>3, <1>6, <1>8, <1>10, <1>4, <2>3
  <2>4. CASE Covered(t, p) /\ BlockOf(p) = b
    <3>1. p - at < t.cache[b].len /\ at <= p
      BY <2>4, <2>1, <1>c DEF Covered
    <3>2. ~Covered(u, p) /\ c.wbuf.on
      BY <2>4, <1>7, <1>5 DEF Covered
    <3>3. c.wbuf.start <= at /\ p < WEnd(c)
      <4>1. c.wbuf.start <= at
        <5>1. CASE GoesOn(g.wbuf, at)
          <6>1. c.wbuf.start = g.wbuf.start /\ WEnd(g) <= at
            BY <5>1, <1>d DEF CollectGives
          <6> QED BY ONLY <6>1, <1>4, <1>2, FileHas, Opened, g \in Files, SMTT(60)
        <5>2. CASE ~GoesOn(g.wbuf, at)
          <6>1. c.wbuf.start = at
            BY <5>2, <1>d DEF CollectGives
          <6> QED BY <6>1, <1>2
        <5> QED BY <5>1, <5>2
      <4> QED BY <4>1, <1>6, <1>1, <1>2, <3>1
    <3>8. at <= p /\ p < at + Len(d)
      BY <3>1, <1>1, <1>2
    <3>4. c.wbuf.data[p - c.wbuf.start + 1] = d[p - at + 1]
      <4>1. c.wbuf.data \in Seq(Vals) /\ c.wbuf.start \in Nat
        BY <1>5, FileHas
      <4>2. /\ Opened /\ g \in Files /\ at \in Nat /\ d \in Seq(Vals) /\ c = Collect(g, at, d)
            /\ p \in Nat /\ at <= p /\ p < at + Len(d)
        BY <3>8, <1>1, <1>2, <1>4, <1>b
      <4> QED BY ONLY <4>2, BufferedByte
    <3>5. Stands(u, p) = d[p - at + 1]
      <4>1. c.wbuf.start \in Nat
        BY <1>5, FileHas
      <4> QED BY <3>1, <3>2, <3>3, <3>4, <4>1, <1>2, <1>7, <1>8 DEF Stands
    <3>6. p - at + 1 \in 1 .. t.cache[b].len
      BY <3>1, <1>2
    <3>7. Stands(t, p) = t.cache[b].data[p - at + 1]
      BY <2>4, <1>c DEF Stands
    <3> QED BY <3>5, <3>6, <3>7, <1>1, <2>4
  <2> QED BY <2>2, <2>3, <2>4
<1>12. /\ GoesOn(t.wbuf, at) =>
           /\ t.wbuf.on /\ WEnd(t) <= at /\ at - WEnd(t) < BlockSize /\ u.disk = t.disk
       /\ ~GoesOn(t.wbuf, at) => u.disk = FlushWriteBuffer(t).disk
       /\ WEnd(u) = at + t.cache[b].len /\ u.wbuf.on
  BY <1>1, <1>4, <1>5, <1>6, <1>7, <1>8, <1>9
<1>13. /\ u.rbuf.on = t.rbuf.on /\ u.rbuf.start = t.rbuf.start
       /\ u.rbuf.data = IF t.rbuf.on /\ at >= t.rbuf.start /\ at < t.rbuf.start + Base(MaxBlocks)
                        THEN Put(t.rbuf.data, at - t.rbuf.start, d, Junk) ELSE t.rbuf.data
  BY <1>4, <1>5, <1>7
<1>14. u.flen = t.flen /\ DOMAIN u.cache = DOMAIN t.cache
  BY <1>4, <1>5, <1>7
<1> QED BY <1>4, <1>5, <1>7, <1>11, <1>12, <1>13, <1>14, <1>0, <1>c DEF BlockFlushGives

(* Between two blocks of the write buffer there is nothing anybody wrote.  *)
LEMMA BlockFlushFine ==
  ASSUME Opened, NEW t \in Files, NEW b \in DOMAIN t.cache, t.cache[b].changed,
         NEW w \in Seq(Written), NEW E, Fine(TRUE, t, w, E, E, TRUE), NEW u, u = BlockFlush(t, b)
  PROVE  /\ Fine(TRUE, u, w, E, E, TRUE) /\ FileLen(u) = FileLen(t)
         /\ t.flen = Unknown => Len(u.disk) = Len(t.disk)
<1>1. BlockFlushGives(t, b, u)
  BY BlockFlushed
<1>2. /\ u \in Files /\ u.flen = t.flen /\ DOMAIN u.cache = DOMAIN t.cache
      /\ \A x \in DOMAIN t.cache : u.cache[x].data = t.cache[x].data /\ u.cache[x].len = t.cache[x].len
      /\ \A x \in DOMAIN t.cache : x # b => u.cache[x] = t.cache[x]
      /\ WEnd(u) = Base(b) + t.cache[b].len /\ u.wbuf.on
  BY <1>1 DEF BlockFlushGives
<1>3. /\ b \in Nat /\ Base(b) \in Nat /\ t.cache[b].len \in Nat /\ t.cache[b].len <= BlockSize
      /\ BlockSize \in Nat /\ WEnd(t) \in Nat /\ Len(w) \in Nat /\ BlockSize > 0
  <2>1. WEnd(t) \in Nat
    BY FileHas
  <2>2. Len(w) \in Nat
    OBVIOUS
  <2> QED BY <2>1, <2>2, BlockHas
<1>4. Cov(t, w, E) /\ Gap(t, w, E) /\ LensIn(t) /\ Good(t, w, E)
  BY DEF Fine
<1>5. ASSUME NEW p \in 0 .. Len(w) - 1, p \notin E PROVE Agrees(Stands(u, p), w[p + 1])
  <2>0. p \in Nat
    BY <1>3
  <2>1. p \in Nat /\ BlockOf(p) \in Nat /\ Base(BlockOf(p)) \in Nat /\ Base(BlockOf(p)) <= p
    BY <2>0, ByteIn
  <2>2. CASE GoesOn(t.wbuf, Base(b)) /\ WEnd(t) <= p /\ p < Base(b) /\ ~Covered(t, p)
    <3>1. t.wbuf.on /\ WEnd(t) <= Base(b) /\ Base(b) - WEnd(t) < BlockSize
      BY <1>1, <2>2 DEF BlockFlushGives
    <3>2. BlockOf(p) < b
      <4>1. b < BlockOf(p) => Base(b) + BlockSize <= Base(BlockOf(p))
        BY <1>3, <2>1, Bases
      <4>2. ~(b < BlockOf(p)) /\ b # BlockOf(p)
        BY <4>1, <2>1, <2>2, <1>3
      <4> QED BY <4>2, <2>1, <1>3
    <3>3. Base(BlockOf(p)) + BlockSize <= Base(b)
      BY <3>2, <1>3, <2>1, Bases
    <3>4. Base(BlockOf(p)) < WEnd(t)
      BY <3>1, <3>3, <1>3, <2>1
    <3>5. w[p + 1] = AnyByte
      BY <3>1, <3>4, <2>2, <1>4, <1>5 DEF Gap
    <3> QED BY <3>5 DEF Agrees
  <2>3. CASE ~(GoesOn(t.wbuf, Base(b)) /\ WEnd(t) <= p /\ p < Base(b) /\ ~Covered(t, p))
    <3>1. Stands(u, p) = Stands(t, p)
      BY <1>1, <2>1, <2>3 DEF BlockFlushGives
    <3> QED BY <3>1, <1>4, <1>5 DEF Cov
  <2> QED BY <2>2, <2>3
<1>6. ASSUME NEW p \in 0 .. Len(w) - 1, p \notin E, p >= WEnd(u), Base(BlockOf(p)) < WEnd(u)
      PROVE  w[p + 1] = AnyByte
  <2>0. p \in Nat
    BY <1>3
  <2>1. p \in Nat /\ BlockOf(p) \in Nat /\ Base(BlockOf(p)) \in Nat
        /\ Base(BlockOf(p)) <= p /\ p < Base(BlockOf(p)) + BlockSize
    BY <2>0, ByteIn
  <2>2. ~(BlockOf(p) < b) /\ ~(b < BlockOf(p))
    <3>1. BlockOf(p) < b => Base(BlockOf(p)) + BlockSize <= Base(b)
      BY <1>3, <2>1, Bases
    <3>2. b < BlockOf(p) => Base(b) + BlockSize <= Base(BlockOf(p))
      BY <1>3, <2>1, Bases
    <3>3. PICK x \in Nat, y \in Nat, e \in Nat : x = Base(b) /\ y = Base(BlockOf(p)) /\ e = WEnd(u)
      BY ONLY <1>2, <1>3, <2>1
    <3>4. e <= x + BlockSize /\ x <= e
      <4>1. PICK n \in Nat : n = t.cache[b].len /\ n <= BlockSize
        BY ONLY <1>3
      <4>2. e = x + n
        BY ONLY <4>1, <3>3, <1>2
      <4>3. BlockSize \in Nat
        BY ONLY <1>3
      <4>4. \A a, c, z \in Nat : c <= z => a + c <= a + z /\ a <= a + c
        OBVIOUS
      <4> QED BY ONLY <4>1, <4>2, <4>3, <4>4, x \in Nat
    <3>5. p >= e /\ y < e /\ p < y + BlockSize
      BY ONLY <3>3, <1>6, <2>1
    <3>6. ~(y + BlockSize <= x) /\ ~(x + BlockSize <= y)
      BY ONLY <3>4, <3>5, <1>3, x \in Nat, y \in Nat, e \in Nat, p \in Nat
    <3> QED BY ONLY <3>1, <3>2, <3>3, <3>6
  <2>3. BlockOf(p) = b
    BY <2>1, <2>2, <1>3
  <2>4. GoodBlock(t, w, E, b)
    BY <1>4 DEF Good
  <2>5. ~(p - Base(b) < t.cache[b].len)
    BY ONLY <1>2, <1>3, <1>6, <2>1, p \in Nat
  <2> QED BY <2>1, <2>3, <2>4, <2>5, <1>6 DEF GoodBlock
<1>7. Good(u, w, E)
  BY <1>2, <1>4 DEF Good, GoodBlock
<1>8. t.flen = Unknown => Len(u.disk) = Len(t.disk)
  <2>1. CASE GoesOn(t.wbuf, Base(b)) \/ ~t.wbuf.on
    BY <2>1, <1>1 DEF BlockFlushGives, FlushWriteBuffer
  <2>2. CASE ~GoesOn(t.wbuf, Base(b)) /\ t.wbuf.on
    <3>1. PICK f : f = FlushWriteBuffer(t)
      OBVIOUS
    <3>2. u.disk = f.disk
      BY <3>1, <2>2, <1>1 DEF BlockFlushGives
    <3>3. Len(f.disk) = Most2(Len(t.disk), WEnd(t))
      BY <3>1, <2>2, FlushedFields
    <3>4. t.flen = Unknown => WEnd(t) <= Len(t.disk)
      BY <2>2, <1>4 DEF LensIn
    <3>5. Len(t.disk) \in Nat
      BY FileHas
    <3> QED BY <3>2, <3>3, <3>4, <3>5, <1>3 DEF Most2
  <2> QED BY <2>1, <2>2
<1>9. FileLen(u) = FileLen(t)
  BY <1>2, <1>8 DEF FileLen
<1>10. LensIn(u)
  <2>1. \A x \in DOMAIN u.cache : u.cache[x].len = 0 \/ Base(x) + u.cache[x].len <= FileLen(u)
    BY <1>2, <1>4, <1>9 DEF LensIn
  <2>2. ASSUME u.flen = Unknown, NEW x \in DOMAIN u.cache
        PROVE  /\ Base(x) + u.cache[x].len <= Len(u.disk)
               /\ u.cache[x].len = BlockSize \/ Base(x) + u.cache[x].len >= Len(u.disk)
    BY <2>2, <1>2, <1>4, <1>8 DEF LensIn
  <2>3. u.flen = Unknown => WEnd(u) <= Len(u.disk)
    <3>1. SUFFICES ASSUME u.flen = Unknown PROVE WEnd(u) <= Len(u.disk)
      OBVIOUS
    <3>2. Base(b) + t.cache[b].len <= Len(t.disk)
      BY <3>1, <1>2, <1>4 DEF LensIn
    <3> QED BY <3>1, <3>2, <1>2, <1>8
  <2> QED BY <2>1, <2>2, <2>3 DEF LensIn
<1> QED BY <1>5, <1>6, <1>7, <1>8, <1>9, <1>10 DEF Fine, Cov, Gap

(* Blocks that are written may be forgotten.                               *)
DropGives(t, X, u) ==
  /\ u \in Files /\ u.disk = t.disk /\ u.wbuf = t.wbuf /\ u.rbuf = t.rbuf /\ u.flen = t.flen
  /\ DOMAIN u.cache = DOMAIN t.cache \ X /\ \A x \in DOMAIN u.cache : u.cache[x] = t.cache[x]
LEMMA DropFields ==
  ASSUME Opened, NEW t \in Files, NEW X, NEW u, u = Drop(t, X)
  PROVE  DropGives(t, X, u)
<1> DEFINE k == [b \in DOMAIN t.cache \ X |-> t.cache[b]]
<1>1. t.cache \in Caches
  BY FileHas
<1>2. DOMAIN t.cache \subseteq Nat /\ \A b \in DOMAIN t.cache : t.cache[b] \in Block
  BY <1>1, CacheHas
<1>3. u = [t EXCEPT !.cache = k]
  BY DEF Drop
<1>4. /\ DOMAIN k = DOMAIN t.cache \ X /\ k = [b \in DOMAIN t.cache \ X |-> k[b]]
      /\ \A b \in DOMAIN t.cache \ X : k[b] = t.cache[b]
  OBVIOUS
<1> HIDE DEF k
<1>5. k \in Caches
  <2>1. DOMAIN t.cache \ X \subseteq Nat /\ \A b \in DOMAIN t.cache \ X : k[b] \in Block
    BY <1>2, <1>4
  <2> QED BY <2>1, <1>4, CacheIs
<1>6. /\ u \in Files /\ u.disk = t.disk /\ u.wbuf = t.wbuf /\ u.rbuf = t.rbuf /\ u.flen = t.flen
      /\ u.cache = k
  BY <1>3, <1>5, FilesAre
<1> QED BY <1>4, <1>6 DEF DropGives

LEMMA DropFine ==
  ASSUME Opened, NEW B \in BOOLEAN, NEW v \in BOOLEAN, NEW t \in Files, NEW w \in Seq(Written),
         NEW E, NEW F, Fine(B, t, w, E, F, v), NEW X, NEW u, u = Drop(t, X),
         \A x \in DOMAIN t.cache : x \in X => ~t.cache[x].changed
  PROVE  /\ Fine(B, u, w, E, F, v) /\ FileLen(u) = FileLen(t)
         /\ \A p : Stands(u, p) = Stands(t, p) /\ (Covered(u, p) <=> Covered(t, p))
<1>1. DropGives(t, X, u)
  BY DropFields
<1>2. /\ u.disk = t.disk /\ u.wbuf = t.wbuf /\ u.flen = t.flen
      /\ DOMAIN u.cache = DOMAIN t.cache \ X /\ \A x \in DOMAIN u.cache : u.cache[x] = t.cache[x]
  BY <1>1 DEF DropGives
<1>3. WEnd(u) = WEnd(t) /\ FileLen(u) = FileLen(t)
  BY <1>2 DEF WEnd, FileLen
<1>4. ASSUME NEW p PROVE (Covered(u, p) <=> Covered(t, p)) /\ Stands(u, p) = Stands(t, p)
  <2>1. Covered(u, p) <=> Covered(t, p)
    BY <1>2 DEF Covered
  <2>2. CASE Covered(t, p)
    <3>1. BlockOf(p) \in DOMAIN u.cache
      BY <2>1, <2>2 DEF Covered
    <3> QED BY <2>1, <2>2, <3>1, <1>2 DEF Stands
  <2>3. CASE ~Covered(t, p)
    BY <2>1, <2>3, <1>2, <1>3 DEF Stands
  <2> QED BY <2>1, <2>2, <2>3
<1>5. Cov(u, w, F)
  BY <1>4 DEF Cov, Fine
<1>6. B => Gap(u, w, E)
  BY <1>2, <1>3, <1>4 DEF Gap, Fine
<1>7. B => LensIn(u)
  BY <1>2, <1>3 DEF LensIn, Fine
<1>8. ~B => Straight(u)
  BY <1>2 DEF Straight, Fine
<1>9. v => Good(u, w, E)
  BY <1>2 DEF Good, GoodBlock, Fine
<1> QED BY <1>3, <1>4, <1>5, <1>6, <1>7, <1>8, <1>9 DEF Fine

(* A block is found by giving one away, which is written if it is changed. *)
GetGives(t, u) ==
  /\ u \in Files /\ u.flen = t.flen /\ FileLen(u) = FileLen(t)
  /\ DOMAIN u.cache \subseteq DOMAIN t.cache /\ u.rbuf.on = t.rbuf.on
  /\ t.flen = Unknown => Len(u.disk) = Len(t.disk)
LEMMA GetBlockFine ==
  ASSUME Opened, NEW B \in BOOLEAN, NEW v \in BOOLEAN, NEW t \in Files, NEW w \in Seq(Written),
         NEW E, NEW X, Fine(B, t, w, E, X, v), B => v /\ E = X, NEW u \in GetBlock(t)
  PROVE  Fine(B, u, w, E, X, v) /\ GetGives(t, u)
<1>1. CASE u \in Spare(t)
  <2>1. u = t
    BY <1>1 DEF Spare
  <2> QED BY <2>1 DEF GetGives
<1>2. ASSUME NEW b \in DOMAIN t.cache,
             u = Drop(IF t.cache[b].changed THEN BlockFlush(t, b) ELSE t, {b})
      PROVE  Fine(B, u, w, E, X, v) /\ GetGives(t, u)
  <2>1. CASE ~t.cache[b].changed
    <3>1. u = Drop(t, {b})
      BY <1>2, <2>1
    <3>2. \A x \in DOMAIN t.cache : x \in {b} => ~t.cache[x].changed
      BY <2>1
    <3>3. Fine(B, u, w, E, X, v) /\ FileLen(u) = FileLen(t)
      BY <3>1, <3>2, DropFine
    <3>4. DropGives(t, {b}, u)
      BY <3>1, DropFields
    <3> QED BY <3>3, <3>4 DEF DropGives, GetGives
  <2>2. CASE t.cache[b].changed
    <3>1. PICK f : f = BlockFlush(t, b)
      OBVIOUS
    <3>2. u = Drop(f, {b})
      BY <1>2, <2>2, <3>1
    <3>3. B = TRUE /\ v = TRUE /\ E = X
      BY <2>2 DEF Fine, Straight
    <3>4. /\ Fine(TRUE, f, w, E, E, TRUE) /\ FileLen(f) = FileLen(t)
          /\ t.flen = Unknown => Len(f.disk) = Len(t.disk)
      BY <2>2, <3>1, <3>3, BlockFlushFine
    <3>5. BlockFlushGives(t, b, f)
      BY <2>2, <3>1, BlockFlushed
    <3>6. f \in Files /\ f.flen = t.flen /\ DOMAIN f.cache = DOMAIN t.cache /\ f.rbuf.on = t.rbuf.on
          /\ ~f.cache[b].changed
      BY <3>5 DEF BlockFlushGives
    <3>7. \A x \in DOMAIN f.cache : x \in {b} => ~f.cache[x].changed
      BY <3>6
    <3>10. Fine(B, f, w, E, X, v)
      BY <3>3, <3>4
    <3>8. Fine(B, u, w, E, X, v) /\ FileLen(u) = FileLen(f)
      BY <3>2, <3>10, <3>6, <3>7, DropFine
    <3>9. DropGives(f, {b}, u)
      BY <3>2, <3>6, DropFields
    <3> QED BY <3>3, <3>4, <3>6, <3>8, <3>9 DEF DropGives, GetGives
  <2> QED BY <2>1, <2>2
<1> QED BY <1>1, <1>2 DEF GetBlock

KnowGives(t, u) ==
  /\ u \in Files /\ FileLen(u) = FileLen(t) /\ u.cache = t.cache /\ u.disk = t.disk
  /\ u.wbuf = t.wbuf /\ u.rbuf = t.rbuf
  /\ buffers => u.flen = FileLen(t) /\ u.flen # Unknown
  /\ ~buffers => u = t
LEMMA KnowLenFine ==
  ASSUME Opened, buffers \in BOOLEAN, NEW v \in BOOLEAN, NEW t \in Files, NEW w \in Seq(Written),
         NEW E, NEW X, Fine(buffers, t, w, E, X, v), NEW u, u = KnowLen(t)
  PROVE  Fine(buffers, u, w, E, X, v) /\ KnowGives(t, u)
<1>1. CASE ~buffers
  <2>1. u = t
    BY <1>1 DEF KnowLen
  <2> QED BY <1>1, <2>1 DEF KnowGives
<1>2. CASE buffers
  <2>1. u = [t EXCEPT !.flen = FileLen(t)]
    BY <1>2 DEF KnowLen
  <2>2. FileLen(t) \in Nat
    BY FileHas
  <2>3. /\ u \in Files /\ u.disk = t.disk /\ u.cache = t.cache /\ u.wbuf = t.wbuf /\ u.rbuf = t.rbuf
        /\ u.flen = FileLen(t)
    BY <2>1, <2>2, FilesAre
  <2>4. u.flen # Unknown
    BY <2>2, <2>3 DEF Opened
  <2>5. FileLen(u) = FileLen(t)
    BY <2>3, <2>4 DEF FileLen
  <2>6. WEnd(u) = WEnd(t)
    BY <2>3 DEF WEnd
  <2>7. \A p : (Covered(u, p) <=> Covered(t, p)) /\ Stands(u, p) = Stands(t, p)
    BY <2>3, <2>6 DEF Covered, Stands
  <2>8. Cov(u, w, X) /\ Gap(u, w, E)
    BY <1>2, <2>3, <2>6, <2>7 DEF Fine, Cov, Gap
  <2>9. LensIn(u)
    BY <1>2, <2>3, <2>4, <2>5 DEF Fine, LensIn
  <2>10. v => Good(u, w, E)
    BY <2>3 DEF Fine, Good, GoodBlock
  <2>11. Fine(buffers, u, w, E, X, v)
    BY <1>2, <2>8, <2>9, <2>10 DEF Fine
  <2>12. KnowGives(t, u)
    BY <1>2, <2>3, <2>4, <2>5 DEF KnowGives
  <2> QED BY <2>11, <2>12
<1> QED BY <1>1, <1>2

(* What is read are the bytes that stand, to the end of the file.          *)
ReadGives(t, at, n, r) ==
  /\ r.at \in Files /\ r.at.cache = t.cache /\ r.at.flen = t.flen /\ r.at.rbuf = t.rbuf
  /\ FileLen(r.at) = FileLen(t) /\ r.got \in Seq(Vals) /\ Len(r.got) \in Nat /\ Len(r.got) <= n
  /\ t.flen = Unknown => Len(r.at.disk) = Len(t.disk)
  /\ buffers /\ at <= FileLen(t) => at + Len(r.got) <= FileLen(t)
  /\ buffers /\ t.flen = Unknown => Len(r.got) = n \/ at + Len(r.got) >= Len(t.disk)
  /\ \A p \in Nat : Stands(r.at, p) = Stands(t, p)
ReadBytes(t, at, n, r) ==
  \A p \in Nat : at <= p /\ p < at + n /\ ~Covered(t, p) =>
    IF p - at < Len(r.got) THEN r.got[p - at + 1] = Stands(t, p)
    ELSE Stands(t, p) = Junk \/ (buffers /\ p >= FileLen(t))
LEMMA ReadFileFine ==
  ASSUME Opened, buffers \in BOOLEAN, NEW v \in BOOLEAN, NEW t \in Files, NEW w \in Seq(Written),
         NEW E, NEW X, Fine(buffers, t, w, E, X, v), NEW at \in Nat, NEW n \in Nat,
         NEW r, r = ReadFile(t, at, n)
  PROVE  /\ Fine(buffers, r.at, w, E, X, v) /\ ReadGives(t, at, n, r) /\ ReadBytes(t, at, n, r)
<1>0. PICK near : near = (t.wbuf.on /\ at + n >= t.wbuf.start /\ at < t.wbuf.start + Len(t.wbuf.data))
  OBVIOUS
<1>1. PICK u : u = IF near THEN FlushWriteBuffer(t) ELSE t
  OBVIOUS
<1>2. PICK m : m = IF buffers /\ t.flen # Unknown /\ at <= t.flen THEN Least2(n, t.flen - at) ELSE n
  OBVIOUS
<1>3. PICK g : g = From(u.disk, at, m)
  OBVIOUS
<1>4. r = [at |-> u, got |-> g]
  BY <1>0, <1>1, <1>2, <1>3 DEF ReadFile
<1>5. r.at = u /\ r.got = g
  BY <1>4
<1>6. t.flen \in Nat \cup {Unknown} /\ Len(t.disk) \in Nat /\ FileLen(t) \in Nat /\ WEnd(t) \in Nat
      /\ WEnd(t) = t.wbuf.start + Len(t.wbuf.data) /\ t.wbuf.start \in Nat /\ t.wbuf.on \in BOOLEAN
  BY FileHas DEF WEnd
<1>7. m \in Nat /\ m <= n
  <2>1. CASE buffers /\ t.flen # Unknown /\ at <= t.flen
    <3>1. t.flen \in Nat /\ t.flen - at \in Nat
      BY <2>1, <1>6
    <3> QED BY <2>1, <3>1, <1>2 DEF Least2
  <2>2. CASE ~(buffers /\ t.flen # Unknown /\ at <= t.flen)
    BY <2>2, <1>2
  <2> QED BY <2>1, <2>2
<1>8. /\ u \in Files /\ Fine(buffers, u, w, E, X, v) /\ (near => ~u.wbuf.on)
      /\ u.cache = t.cache /\ u.rbuf = t.rbuf /\ u.flen = t.flen /\ FileLen(u) = FileLen(t)
      /\ t.flen = Unknown => Len(u.disk) = Len(t.disk)
      /\ \A p \in Nat : Stands(u, p) = Stands(t, p)
  <2>1. CASE near
    BY <2>1, <1>1, FlushFine
  <2>2. CASE ~near
    BY <2>2, <1>1
  <2> QED BY <2>1, <2>2
<1>9. u.disk \in Seq(Vals) /\ Len(u.disk) \in Nat
  BY <1>8, FileHas
<1>10. /\ g \in Seq(Vals) /\ Len(g) = IF at >= Len(u.disk) THEN 0 ELSE Least2(m, Len(u.disk) - at)
       /\ \A i \in 1 .. Len(g) : g[i] = u.disk[at + i]
  <2>1. PICK q \in Seq(Vals) : q = u.disk
    BY <1>9
  <2>2. g = From(q, at, m)
    BY <1>3, <2>1
  <2>3. /\ From(q, at, m) \in Seq(Vals)
        /\ Len(From(q, at, m)) = IF at >= Len(q) THEN 0 ELSE Least2(m, Len(q) - at)
        /\ \A i \in 1 .. Len(From(q, at, m)) : From(q, at, m)[i] = q[at + i]
    BY <1>7, FromVals
  <2> QED BY <2>1, <2>2, <2>3
<1>11. Len(g) \in Nat /\ Len(g) <= m /\ (Len(g) = m \/ at + Len(g) >= Len(u.disk))
       /\ (at < Len(u.disk) => at + Len(g) <= Len(u.disk)) /\ (at >= Len(u.disk) => Len(g) = 0)
  BY ONLY <1>7, <1>9, <1>10, at \in Nat DEF Least2
<1>12. ReadGives(t, at, n, r)
  <2>1. buffers /\ at <= FileLen(t) => at + Len(g) <= FileLen(t)
    <3>1. SUFFICES ASSUME buffers, at <= FileLen(t) PROVE at + Len(g) <= FileLen(t)
      OBVIOUS
    <3>2. CASE t.flen # Unknown
      <4>1. FileLen(t) = t.flen /\ t.flen \in Nat
        BY <3>2, <1>6 DEF FileLen
      <4>2. m = Least2(n, t.flen - at)
        BY <3>1, <3>2, <4>1, <1>2
      <4> QED BY <4>1, <4>2, <3>1, <1>7, <1>11 DEF Least2
    <3>3. CASE t.flen = Unknown
      <4>1. FileLen(t) = Len(t.disk) /\ Len(u.disk) = Len(t.disk)
        BY <3>3, <1>8 DEF FileLen
      <4> QED BY <4>1, <3>1, <1>11, <1>6
    <3> QED BY <3>2, <3>3
  <2>2. buffers /\ t.flen = Unknown => Len(g) = n \/ at + Len(g) >= Len(t.disk)
    <3>1. SUFFICES ASSUME buffers, t.flen = Unknown PROVE Len(g) = n \/ at + Len(g) >= Len(t.disk)
      OBVIOUS
    <3>2. m = n /\ Len(u.disk) = Len(t.disk)
      BY <3>1, <1>2, <1>8
    <3> QED BY <3>2, <1>11
  <2>3. Len(g) <= n
    BY <1>7, <1>11
  <2> QED BY <2>1, <2>2, <2>3, <1>5, <1>8, <1>10, <1>11 DEF ReadGives
<1>13. ASSUME NEW p \in Nat, at <= p, p < at + n, ~Covered(t, p)
       PROVE  IF p - at < Len(g) THEN g[p - at + 1] = Stands(t, p)
              ELSE Stands(t, p) = Junk \/ (buffers /\ p >= FileLen(t))
  <2>1. Stands(t, p) = IF p < Len(u.disk) THEN u.disk[p + 1] ELSE Junk
    <3>1. CASE near
      <4>1. ~Covered(u, p)
        BY <1>8, <1>13 DEF Covered
      <4>2. Stands(u, p) = Stands(t, p) /\ ~u.wbuf.on
        BY <1>8, <3>1
      <4> QED BY <4>1, <4>2 DEF Stands
    <3>2. CASE ~near
      <4>1. u = t
        BY <3>2, <1>1
      <4>2. ~(t.wbuf.on /\ p >= t.wbuf.start /\ p < WEnd(t))
        BY <3>2, <1>0, <1>13, <1>6, SMTT(60)
      <4> QED BY <4>1, <4>2, <1>13 DEF Stands
    <3> QED BY <3>1, <3>2
  <2>2. CASE p - at < Len(g)
    <3>1. p - at + 1 \in 1 .. Len(g) /\ at + (p - at + 1) = p + 1 /\ p < Len(u.disk)
      BY <2>2, <1>11, <1>13, <1>9
    <3> QED BY <3>1, <2>1, <2>2, <1>10
  <2>3. CASE ~(p - at < Len(g)) /\ at + Len(g) >= Len(u.disk)
    <3>1. ~(p < Len(u.disk))
      BY <2>3, <1>13, <1>11, <1>9
    <3> QED BY <2>3, <3>1, <2>1
  <2>4. CASE ~(p - at < Len(g)) /\ Len(g) = m
    <3>1. m < n
      BY <2>4, <1>13, <1>7, <1>11
    <3>2. buffers /\ t.flen # Unknown /\ at <= t.flen /\ m = Least2(n, t.flen - at)
      BY <3>1, <1>2, <1>7
    <3>3. FileLen(t) = t.flen /\ t.flen \in Nat
      BY <3>2, <1>6 DEF FileLen
    <3>4. m = t.flen - at
      BY <3>1, <3>2, <3>3 DEF Least2
    <3> QED BY <2>4, <3>2, <3>3, <3>4, <1>13
  <2> QED BY <2>2, <2>3, <2>4, <1>11
<1> QED BY <1>5, <1>8, <1>12, <1>13 DEF ReadBytes

(* A block is added with what was read for it.                             *)
AddGives(t, b, d, u) ==
  /\ u \in Files /\ u.disk = t.disk /\ u.wbuf = t.wbuf /\ u.rbuf = t.rbuf /\ u.flen = t.flen
  /\ DOMAIN u.cache = DOMAIN t.cache \cup {b}
  /\ \A x \in DOMAIN t.cache : u.cache[x] = t.cache[x]
  /\ u.cache[b].len = Len(d) /\ ~u.cache[b].changed
  /\ \A i \in 1 .. Len(d) : u.cache[b].data[i] = d[i]
LEMMA AddFields ==
  ASSUME Opened, NEW t \in Files, NEW b \in Nat, b \notin DOMAIN t.cache,
         NEW d \in Seq(Vals), Len(d) <= BlockSize, NEW u, u = Add(t, b, d)
  PROVE  AddGives(t, b, d, u)
<1>1. PICK q : q = Resize(d, BlockSize, Junk)
  OBVIOUS
<1>2. PICK e : e = [data |-> q, len |-> Len(d), changed |-> FALSE]
  OBVIOUS
<1>3. PICK k : k = [x \in DOMAIN t.cache \cup {b} |-> IF x = b THEN e ELSE t.cache[x]]
  OBVIOUS
<1>4. BlockSize \in Nat /\ Junk \in Vals /\ Len(d) \in Nat
  BY DEF Opened, Vals
<1>5. q \in [1 .. BlockSize -> Vals] /\ \A i \in 1 .. BlockSize : q[i] = IF i <= Len(d) THEN d[i] ELSE Junk
  <2>1. \A fill \in Vals, n \in Nat :
          /\ Resize(d, n, fill) \in [1 .. n -> Vals]
          /\ \A i \in 1 .. n : Resize(d, n, fill)[i] = IF i <= Len(d) THEN d[i] ELSE fill
    BY ResizeVals
  <2> QED BY <2>1, <1>1, <1>4
<1>6. e \in Block
  BY <1>2, <1>4, <1>5 DEF Block
<1>7. DOMAIN t.cache \subseteq Nat /\ \A x \in DOMAIN t.cache : t.cache[x] \in Block
  BY FileHas
<1>8. /\ DOMAIN k = DOMAIN t.cache \cup {b} /\ k[b] = e /\ \A x \in DOMAIN t.cache : k[x] = t.cache[x]
      /\ k = [x \in DOMAIN t.cache \cup {b} |-> k[x]]
  BY <1>3
<1>9. k \in Caches
  <2>1. DOMAIN t.cache \cup {b} \subseteq Nat /\ \A x \in DOMAIN t.cache \cup {b} : k[x] \in Block
    BY <1>6, <1>7, <1>8
  <2> QED BY <2>1, <1>8, CacheIs
<1>10. u = [t EXCEPT !.cache = k]
  BY <1>1, <1>2, <1>3, FilesAre DEF Add
<1>11. /\ u \in Files /\ u.disk = t.disk /\ u.wbuf = t.wbuf /\ u.rbuf = t.rbuf /\ u.flen = t.flen
       /\ u.cache = k
  BY <1>9, <1>10, FilesAre
<1>12. e.len = Len(d) /\ ~e.changed /\ e.data = q
  BY <1>2
<1>13. \A i \in 1 .. Len(d) : q[i] = d[i]
  BY <1>4, <1>5
<1> QED BY <1>8, <1>11, <1>12, <1>13 DEF AddGives

NewGood(b, d, w, E) ==
  \A p \in 0 .. Len(w) - 1 : p \notin E /\ Base(b) <= p /\ p < Base(b) + BlockSize =>
     IF p - Base(b) < Len(d) THEN Agrees(d[p - Base(b) + 1], w[p + 1]) ELSE w[p + 1] = AnyByte
NewLens(t, b, n) ==
  /\ n = 0 \/ Base(b) + n <= FileLen(t)
  /\ t.flen = Unknown => /\ Base(b) + n <= Len(t.disk)
                         /\ n = BlockSize \/ Base(b) + n >= Len(t.disk)
SameView(t, u) ==
  \A p : Stands(u, p) = Stands(t, p) /\ (Covered(u, p) <=> Covered(t, p))
LEMMA AddFine ==
  ASSUME Opened, NEW B \in BOOLEAN, NEW v \in BOOLEAN, NEW t \in Files, NEW w \in Seq(Written),
         NEW E, NEW X, Fine(B, t, w, E, X, v), NEW b \in Nat, b \notin DOMAIN t.cache,
         NEW d \in Seq(Vals), Len(d) <= BlockSize, NEW u, u = Add(t, b, d),
         v => NewGood(b, d, w, E), B => NewLens(t, b, Len(d))
  PROVE  Fine(B, u, w, E, X, v) /\ FileLen(u) = FileLen(t) /\ SameView(t, u)
<1>1. AddGives(t, b, d, u)
  BY AddFields
<1>2. /\ u.disk = t.disk /\ u.wbuf = t.wbuf /\ u.flen = t.flen
      /\ DOMAIN u.cache = DOMAIN t.cache \cup {b} /\ \A x \in DOMAIN t.cache : u.cache[x] = t.cache[x]
      /\ u.cache[b].len = Len(d) /\ ~u.cache[b].changed
      /\ \A i \in 1 .. Len(d) : u.cache[b].data[i] = d[i]
  BY <1>1 DEF AddGives
<1>3. WEnd(u) = WEnd(t) /\ FileLen(u) = FileLen(t)
  BY <1>2 DEF WEnd, FileLen
<1>4. ASSUME NEW p PROVE (Covered(u, p) <=> Covered(t, p)) /\ Stands(u, p) = Stands(t, p)
  <2>1. Covered(u, p) <=> Covered(t, p)
    BY <1>2 DEF Covered
  <2>2. CASE Covered(t, p)
    <3>1. BlockOf(p) \in DOMAIN t.cache
      BY <2>2 DEF Covered
    <3> QED BY <2>1, <2>2, <3>1, <1>2 DEF Stands
  <2>3. CASE ~Covered(t, p)
    BY <2>1, <2>3, <1>2, <1>3 DEF Stands
  <2> QED BY <2>1, <2>2, <2>3
<1>5. Cov(u, w, X)
  BY <1>4 DEF Cov, Fine
<1>6. B => Gap(u, w, E)
  BY <1>2, <1>3, <1>4 DEF Gap, Fine
<1>7. B => LensIn(u)
  <2>1. SUFFICES ASSUME B PROVE LensIn(u)
    OBVIOUS
  <2>2. LensIn(t) /\ NewLens(t, b, Len(d))
    BY <2>1 DEF Fine
  <2> QED BY <2>2, <1>2, <1>3 DEF LensIn, NewLens
<1>8. ~B => Straight(u)
  BY <1>2 DEF Straight, Fine
<1>9. v => Good(u, w, E)
  <2>1. SUFFICES ASSUME v, NEW x \in DOMAIN u.cache PROVE GoodBlock(u, w, E, x)
    BY DEF Good
  <2>2. CASE x # b
    <3>1. x \in DOMAIN t.cache /\ u.cache[x] = t.cache[x]
      BY <2>2, <1>2
    <3> QED BY <2>1, <3>1 DEF Fine, Good, GoodBlock
  <2>3. CASE x = b
    <3>1. SUFFICES ASSUME NEW p \in 0 .. Len(w) - 1, p \notin E, Base(b) <= p, p < Base(b) + BlockSize
                   PROVE  IF p - Base(b) < u.cache[b].len
                          THEN Agrees(u.cache[b].data[p - Base(b) + 1], w[p + 1]) ELSE w[p + 1] = AnyByte
      BY <2>3 DEF GoodBlock
    <3>2. IF p - Base(b) < Len(d) THEN Agrees(d[p - Base(b) + 1], w[p + 1]) ELSE w[p + 1] = AnyByte
      BY <2>1, <3>1 DEF NewGood
    <3>3. p - Base(b) < Len(d) => p - Base(b) + 1 \in 1 .. Len(d)
      <4>1. Base(b) \in Nat /\ p \in Nat
        BY Bases
      <4> QED BY <4>1, <3>1
    <3> QED BY <3>2, <3>3, <1>2
  <2> QED BY <2>2, <2>3
<1> QED BY <1>3, <1>4, <1>5, <1>6, <1>7, <1>8, <1>9 DEF Fine, SameView

(* Bytes of the block that nobody is still writing are read as they are.   *)
ReadApart(t, w, E, X, b) ==
  \A p \in 0 .. Len(w) - 1 : p \notin E /\ Base(b) <= p /\ p < Base(b) + BlockSize =>
    p \notin X /\ (buffers /\ p >= FileLen(t) => w[p + 1] = AnyByte)
AddedTo(t, b, u) ==
  /\ u \in Files /\ u.rbuf = t.rbuf /\ FileLen(u) = FileLen(t) /\ u.flen = t.flen
  /\ DOMAIN u.cache = DOMAIN t.cache \cup {b}
  /\ \A p \in Nat : Stands(u, p) = Stands(t, p)
LEMMA AddRead ==
  ASSUME Opened, buffers \in BOOLEAN, NEW v \in BOOLEAN, NEW t \in Files, NEW w \in Seq(Written),
         NEW E, NEW X, Fine(buffers, t, w, E, X, v), NEW b \in Nat, b \notin DOMAIN t.cache,
         buffers => Base(b) <= FileLen(t), ReadApart(t, w, E, X, b),
         NEW r, r = ReadFile(t, Base(b), BlockSize), NEW u, u = Add(r.at, b, r.got)
  PROVE  Fine(buffers, u, w, E, X, v) /\ AddedTo(t, b, u)
<1>0. PICK at \in Nat : at = Base(b)
  BY Bases
<1>1. BlockSize \in Nat /\ Len(w) \in Nat
  BY DEF Opened
<1>2. r = ReadFile(t, at, BlockSize)
  BY <1>0
<1>3. Fine(buffers, r.at, w, E, X, v) /\ ReadGives(t, at, BlockSize, r) /\ ReadBytes(t, at, BlockSize, r)
  BY <1>1, <1>2, ReadFileFine
<1>4. PICK f : f = r.at
  OBVIOUS
<1>5. PICK d : d = r.got
  OBVIOUS
<1>6. /\ f \in Files /\ f.cache = t.cache /\ f.flen = t.flen /\ f.rbuf = t.rbuf
      /\ FileLen(f) = FileLen(t) /\ d \in Seq(Vals) /\ Len(d) \in Nat /\ Len(d) <= BlockSize
      /\ t.flen = Unknown => Len(f.disk) = Len(t.disk)
      /\ buffers /\ at <= FileLen(t) => at + Len(d) <= FileLen(t)
      /\ buffers /\ t.flen = Unknown => Len(d) = BlockSize \/ at + Len(d) >= Len(t.disk)
      /\ \A p \in Nat : Stands(f, p) = Stands(t, p)
  BY <1>3, <1>4, <1>5 DEF ReadGives
<1>7. NewGood(b, d, w, E)
  <2>1. SUFFICES ASSUME NEW p \in 0 .. Len(w) - 1, p \notin E, at <= p, p < at + BlockSize
                 PROVE  IF p - at < Len(d) THEN Agrees(d[p - at + 1], w[p + 1]) ELSE w[p + 1] = AnyByte
    BY <1>0 DEF NewGood
  <2>2. p \in Nat
    BY <1>1
  <2>3. BlockOf(p) = b
    BY <2>1, <2>2, <1>0, Bytewise
  <2>4. ~Covered(t, p)
    BY <2>3 DEF Covered
  <2>5. IF p - at < Len(d) THEN d[p - at + 1] = Stands(t, p)
        ELSE Stands(t, p) = Junk \/ (buffers /\ p >= FileLen(t))
    BY <2>1, <2>2, <2>4, <1>3, <1>5 DEF ReadBytes
  <2>6. p \notin X /\ (buffers /\ p >= FileLen(t) => w[p + 1] = AnyByte)
    BY <2>1, <1>0 DEF ReadApart
  <2>7. Agrees(Stands(t, p), w[p + 1])
    BY <2>1, <2>6 DEF Fine, Cov
  <2>8. w[p + 1] \in Written
    <3>1. p + 1 \in 1 .. Len(w)
      BY <2>2, <1>1
    <3> QED BY <3>1
  <2>9. Stands(t, p) = Junk => w[p + 1] = AnyByte
    BY <2>7, <2>8 DEF Agrees, Written, Opened
  <2> QED BY <2>5, <2>6, <2>7, <2>9
<1>8. buffers => NewLens(f, b, Len(d))
  <2>1. SUFFICES ASSUME buffers PROVE NewLens(f, b, Len(d))
    OBVIOUS
  <2>2. at + Len(d) <= FileLen(f)
    BY <2>1, <1>0, <1>6
  <2>3. f.flen = Unknown => FileLen(f) = Len(f.disk)
    BY DEF FileLen
  <2> QED BY <2>1, <2>2, <2>3, <1>0, <1>6 DEF NewLens
<1>9. u = Add(f, b, d) /\ Fine(buffers, f, w, E, X, v)
  BY <1>3, <1>4, <1>5
<1>10. b \notin DOMAIN f.cache
  BY <1>6
<1>11. Fine(buffers, u, w, E, X, v) /\ FileLen(u) = FileLen(f) /\ SameView(f, u)
  BY <1>6, <1>7, <1>8, <1>9, <1>10, AddFine
<1>12. AddGives(f, b, d, u)
  BY <1>6, <1>9, <1>10, AddFields
<1>13. u \in Files /\ u.rbuf = f.rbuf /\ u.flen = f.flen /\ DOMAIN u.cache = DOMAIN f.cache \cup {b}
  BY <1>12 DEF AddGives
<1>14. \A p \in Nat : Stands(u, p) = Stands(t, p)
  BY <1>6, <1>11 DEF SameView
<1> QED BY <1>6, <1>11, <1>13, <1>14 DEF AddedTo

(* The block a write goes to: it is there, read, or nobody's yet.          *)
Blank(t, w, E, b, at, whole) ==
  /\ Base(b) <= at
  /\ \A p \in 0 .. Len(w) - 1 : p \notin E /\ Base(b) <= p /\ p < Base(b) + BlockSize =>
       ~whole /\ (Base(b) >= FileLen(t) => w[p + 1] = AnyByte)
FetchGives(t, b, u) ==
  /\ u \in Files /\ b \in DOMAIN u.cache /\ FileLen(u) = FileLen(t) /\ u.rbuf.on = t.rbuf.on
LEMMA FetchedFine ==
  ASSUME Opened, buffers \in BOOLEAN, NEW v \in BOOLEAN, NEW t \in Files, NEW w \in Seq(Written),
         NEW E, NEW X, Fine(buffers, t, w, E, X, v), buffers => v /\ E = X,
         NEW b \in Nat, NEW at \in Nat, NEW n, NEW whole \in BOOLEAN,
         ReadApart(t, w, E, X, b), Blank(t, w, E, b, at, whole),
         NEW u \in Fetched(t, b, at, n, whole)
  PROVE  Fine(buffers, u, w, E, X, v) /\ FetchGives(t, b, u)
<1>1. CASE b \in DOMAIN t.cache
  <2>1. u = t
    BY <1>1 DEF Fetched
  <2> QED BY <1>1, <2>1 DEF FetchGives
<1>2. CASE b \notin DOMAIN t.cache
  <2>1. PICK g \in GetBlock(t) :
          u \in {LET k == KnowLen(g)
                     r == ReadFile(k, Base(b), BlockSize)
                 IN IF ~whole /\ Base(b) < FileLen(k) THEN Add(r.at, b, r.got)
                    ELSE Add(k, b, Bytes(WholeLen(k, at), Junk))}
    BY <1>2 DEF Fetched
  <2>2. PICK k : k = KnowLen(g)
    OBVIOUS
  <2>3. PICK r : r = ReadFile(k, Base(b), BlockSize)
    OBVIOUS
  <2>4. u = IF ~whole /\ Base(b) < FileLen(k) THEN Add(r.at, b, r.got)
            ELSE Add(k, b, Bytes(WholeLen(k, at), Junk))
    BY <2>1, <2>2, <2>3
  <2>5. Fine(buffers, g, w, E, X, v) /\ GetGives(t, g)
    BY GetBlockFine
  <2>6. g \in Files /\ FileLen(g) = FileLen(t) /\ DOMAIN g.cache \subseteq DOMAIN t.cache /\ g.rbuf.on = t.rbuf.on
    BY <2>5 DEF GetGives
  <2>7. Fine(buffers, k, w, E, X, v) /\ KnowGives(g, k)
    BY <2>2, <2>5, <2>6, KnowLenFine
  <2>8. /\ k \in Files /\ FileLen(k) = FileLen(t) /\ b \notin DOMAIN k.cache /\ k.rbuf.on = t.rbuf.on
        /\ buffers => k.flen # Unknown
    <3>1. k \in Files
      BY <2>6, <2>7 DEF KnowGives
    <3> QED BY <3>1, <2>6, <2>7, <1>2 DEF KnowGives
  <2>9. ReadApart(k, w, E, X, b)
    BY <2>8 DEF ReadApart
  <2>10. CASE ~whole /\ Base(b) < FileLen(k)
    <3>1. u = Add(r.at, b, r.got)
      BY <2>4, <2>10
    <3>2. buffers => Base(b) <= FileLen(k)
      <4>1. Base(b) \in Nat /\ FileLen(k) \in Nat
        BY <2>8, Bases, FileHas
      <4> QED BY <4>1, <2>10
    <3>3. Fine(buffers, u, w, E, X, v) /\ AddedTo(k, b, u)
      BY <2>3, <2>7, <2>8, <2>9, <3>1, <3>2, AddRead
    <3> QED BY <3>3, <2>8 DEF AddedTo, FetchGives
  <2>11. CASE ~(~whole /\ Base(b) < FileLen(k))
    <3>1. PICK m : m = WholeLen(k, at)
      OBVIOUS
    <3>2. PICK d : d = Bytes(m, Junk)
      OBVIOUS
    <3>3. u = Add(k, b, d)
      BY <2>4, <2>11, <3>1, <3>2
    <3>4. BlockSize \in Nat /\ BlockSize > 0 /\ Base(b) \in Nat /\ FileLen(k) \in Nat /\ Junk \in Vals
      BY <2>8, Bases, FileHas
    <3>5. m = (IF FileLen(k) >= at + BlockSize THEN BlockSize ELSE 0)
      BY <3>1 DEF WholeLen
    <3>6. m \in Nat /\ m <= BlockSize
      BY <3>4, <3>5
    <3>7. d \in Seq(Vals) /\ Len(d) = m
      BY <3>2, <3>4, <3>6, BytesVals
    <3>8. NewGood(b, d, w, E)
      <4>1. SUFFICES ASSUME NEW p \in 0 .. Len(w) - 1, p \notin E, Base(b) <= p, p < Base(b) + BlockSize
                     PROVE  IF p - Base(b) < Len(d) THEN Agrees(d[p - Base(b) + 1], w[p + 1]) ELSE w[p + 1] = AnyByte
        BY DEF NewGood
      <4>2. ~whole /\ (Base(b) >= FileLen(t) => w[p + 1] = AnyByte) /\ Base(b) <= at
        BY <4>1 DEF Blank
      <4>3. Base(b) >= FileLen(k)
        BY <4>2, <2>11, <3>4
      <4>4. m = 0
        BY <4>2, <4>3, <3>4, <3>5
      <4>5. ~(p - Base(b) < Len(d))
        <5>1. p \in Int
          OBVIOUS
        <5> QED BY <5>1, <4>1, <4>4, <3>4, <3>7
      <4> QED BY <4>2, <4>3, <4>5, <2>8
    <3>9. buffers => NewLens(k, b, Len(d))
      <4>1. Base(b) <= at
        BY DEF Blank
      <4>2. m = 0 \/ Base(b) + m <= FileLen(k)
        BY <4>1, <3>4, <3>5
      <4> QED BY <4>2, <2>8, <3>7 DEF NewLens
    <3>10. Fine(buffers, u, w, E, X, v) /\ FileLen(u) = FileLen(k)
      BY <2>7, <2>8, <3>3, <3>6, <3>7, <3>8, <3>9, AddFine
    <3>11. AddGives(k, b, d, u)
      BY <2>8, <3>3, <3>6, <3>7, AddFields
    <3>12. u \in Files /\ u.rbuf = k.rbuf /\ b \in DOMAIN u.cache
      BY <3>11 DEF AddGives
    <3> QED BY <3>10, <3>12, <2>8 DEF FetchGives
  <2> QED BY <2>10, <2>11
<1> QED BY <1>1, <1>2

(* One block becomes e, the length the file is known by f.                 *)
Becomes(t, b, e, f, u) ==
  /\ u \in Files /\ u.disk = t.disk /\ u.wbuf = t.wbuf /\ u.rbuf = t.rbuf /\ u.flen = f
  /\ DOMAIN u.cache = DOMAIN t.cache /\ u.cache[b] = e
  /\ \A x \in DOMAIN t.cache : x # b => u.cache[x] = t.cache[x]
LEMMA BecomesBlock ==
  ASSUME Opened, NEW t \in Files, NEW b \in DOMAIN t.cache, NEW e \in Block,
         NEW f \in Nat \cup {Unknown}, NEW u,
         u = [t EXCEPT !.cache = [t.cache EXCEPT ![b] = e], !.flen = f]
  PROVE  Becomes(t, b, e, f, u)
<1>1. PICK k : k = [t.cache EXCEPT ![b] = e]
  OBVIOUS
<1>2. DOMAIN t.cache \subseteq Nat /\ (\A x \in DOMAIN t.cache : t.cache[x] \in Block) /\ t.cache \in Caches
  BY FileHas
<1>3. t.cache = [x \in DOMAIN t.cache |-> t.cache[x]]
  BY <1>2, CacheHas
<1>4. /\ DOMAIN k = DOMAIN t.cache /\ k = [x \in DOMAIN t.cache |-> k[x]]
      /\ \A x \in DOMAIN t.cache : x # b => k[x] = t.cache[x]
      /\ k[b] = e
  BY <1>1, <1>3
<1>5. \A x \in DOMAIN t.cache : k[x] \in Block
  BY <1>2, <1>4
<1>6. k \in Caches
  BY <1>2, <1>4, <1>5, CacheIs
<1>7. /\ u \in Files /\ u.disk = t.disk /\ u.wbuf = t.wbuf /\ u.rbuf = t.rbuf /\ u.flen = f
      /\ u.cache = k
  BY <1>1, <1>6, FilesAre
<1> QED BY <1>4, <1>7 DEF Becomes

(* The block's bytes change.                                               *)
LEMMA NewData ==
  ASSUME Opened, NEW t \in Files, NEW b \in DOMAIN t.cache, NEW q \in [1 .. BlockSize -> Vals],
         NEW c \in BOOLEAN, NEW u,
         u = [t EXCEPT !.cache[b].data = q, !.cache[b].changed = c]
  PROVE  Becomes(t, b, [data |-> q, len |-> t.cache[b].len, changed |-> c], t.flen, u)
<1>1. PICK o : o = t.cache[b]
  OBVIOUS
<1>2. o \in Block
  BY <1>1, BlockHas
<1>3. PICK e : e = [data |-> q, len |-> o.len, changed |-> c]
  OBVIOUS
<1>4. e \in Block /\ e = [o EXCEPT !.data = q, !.changed = c]
  <2>1. o.len \in 0 .. BlockSize
    BY <1>2 DEF Block
  <2>2. e \in Block
    BY <2>1, <1>3 DEF Block
  <2>3. PICK d, l, h : o = [data |-> d, len |-> l, changed |-> h]
    BY <1>2 DEF Block
  <2>5. PICK m : m = [o EXCEPT !.data = q]
    OBVIOUS
  <2>6. m = [data |-> q, len |-> l, changed |-> h]
    BY <2>3, <2>5
  <2>7. o.len = l /\ o.changed = h
    BY <2>3
  <2>8. e = [m EXCEPT !.changed = c]
    BY <2>6, <2>7, <1>3
  <2>4. e = [o EXCEPT !.data = q, !.changed = c]
    BY <2>5, <2>8
  <2> QED BY <2>2, <2>4
<1>5. u = [t EXCEPT !.cache = [t.cache EXCEPT ![b] = [o EXCEPT !.data = q, !.changed = c]]]
  <2>1. t.cache \in Caches
    BY FileHas
  <2>2. t.cache = [x \in DOMAIN t.cache |-> t.cache[x]]
    BY <2>1, CacheHas
  <2> QED BY <1>1, <2>2, FilesAre
<1>6. u = [t EXCEPT !.cache = [t.cache EXCEPT ![b] = e], !.flen = t.flen]
  BY <1>4, <1>5, FilesAre
<1>7. t.flen \in Nat \cup {Unknown}
  BY FileHas
<1>8. Becomes(t, b, e, t.flen, u)
  BY <1>4, <1>6, <1>7, BecomesBlock
<1> QED BY <1>1, <1>3, <1>8

(* The block's bytes and its end change, and the length of the file.       *)
LEMMA NewEnd ==
  ASSUME Opened, NEW t \in Files, NEW b \in DOMAIN t.cache, NEW q \in [1 .. BlockSize -> Vals],
         NEW n \in 0 .. BlockSize, NEW f \in Nat \cup {Unknown}, NEW u,
         u = [t EXCEPT !.cache[b].data = q, !.cache[b].len = n, !.flen = f]
  PROVE  Becomes(t, b, [data |-> q, len |-> n, changed |-> t.cache[b].changed], f, u)
<1>1. PICK o : o = t.cache[b]
  OBVIOUS
<1>2. o \in Block
  BY <1>1, BlockHas
<1>3. PICK e : e = [data |-> q, len |-> n, changed |-> o.changed]
  OBVIOUS
<1>4. e \in Block /\ e = [o EXCEPT !.data = q, !.len = n]
  <2>1. o.changed \in BOOLEAN
    BY <1>2 DEF Block
  <2>2. e \in Block
    BY <2>1, <1>3 DEF Block
  <2>3. PICK d, l, h : o = [data |-> d, len |-> l, changed |-> h]
    BY <1>2 DEF Block
  <2>5. PICK m : m = [o EXCEPT !.data = q]
    OBVIOUS
  <2>6. m = [data |-> q, len |-> l, changed |-> h]
    BY <2>3, <2>5
  <2>7. o.len = l /\ o.changed = h
    BY <2>3
  <2>8. e = [m EXCEPT !.len = n]
    BY <2>6, <2>7, <1>3
  <2>4. e = [o EXCEPT !.data = q, !.len = n]
    BY <2>5, <2>8
  <2> QED BY <2>2, <2>4
<1>5. u = [t EXCEPT !.cache = [t.cache EXCEPT ![b] = [o EXCEPT !.data = q, !.len = n]], !.flen = f]
  <2>1. t.cache \in Caches
    BY FileHas
  <2>2. t.cache = [x \in DOMAIN t.cache |-> t.cache[x]]
    BY <2>1, CacheHas
  <2>3. PICK g : g = [t EXCEPT !.cache[b].data = q, !.cache[b].len = n]
    OBVIOUS
  <2>4. g = [t EXCEPT !.cache = [t.cache EXCEPT ![b] = [o EXCEPT !.data = q, !.len = n]]]
    BY <1>1, <2>2, <2>3, FilesAre
  <2>5. u = [g EXCEPT !.flen = f]
    BY <2>3, FilesAre
  <2> QED BY <2>4, <2>5, FilesAre
<1>6. u = [t EXCEPT !.cache = [t.cache EXCEPT ![b] = e], !.flen = f]
  BY <1>4, <1>5, FilesAre
<1>8. Becomes(t, b, e, f, u)
  BY <1>4, <1>6, BecomesBlock
<1> QED BY <1>1, <1>3, <1>8

(* The block's end changes.                                                *)
LEMMA NewLen ==
  ASSUME Opened, NEW t \in Files, NEW b \in DOMAIN t.cache, NEW n \in 0 .. BlockSize, NEW u,
         u = [t EXCEPT !.cache[b].len = n]
  PROVE  Becomes(t, b, [data |-> t.cache[b].data, len |-> n, changed |-> t.cache[b].changed], t.flen, u)
<1>1. PICK o : o = t.cache[b]
  OBVIOUS
<1>2. o \in Block
  BY <1>1, BlockHas
<1>3. PICK e : e = [data |-> o.data, len |-> n, changed |-> o.changed]
  OBVIOUS
<1>4. e \in Block /\ e = [o EXCEPT !.len = n]
  BY <1>2, <1>3 DEF Block
<1>5. u = [t EXCEPT !.cache = [t.cache EXCEPT ![b] = [o EXCEPT !.len = n]]]
  <2>1. t.cache \in Caches
    BY FileHas
  <2>2. t.cache = [x \in DOMAIN t.cache |-> t.cache[x]]
    BY <2>1, CacheHas
  <2> QED BY <1>1, <2>2, FilesAre
<1>6. u = [t EXCEPT !.cache = [t.cache EXCEPT ![b] = e], !.flen = t.flen]
  BY <1>4, <1>5, FilesAre
<1>7. t.flen \in Nat \cup {Unknown}
  BY FileHas
<1>8. Becomes(t, b, e, t.flen, u)
  BY <1>4, <1>6, <1>7, BecomesBlock
<1> QED BY <1>1, <1>3, <1>8

(* What one round of a write makes of its block, and of the length.        *)
PutGives2(q, o, m, k, r) ==
  /\ r \in [1 .. BlockSize -> Vals]
  /\ \A i \in 1 .. BlockSize : r[i] = IF i > o /\ i <= o + m THEN k ELSE q[i]
LEMMA PutInBlock ==
  ASSUME Opened, NEW q \in [1 .. BlockSize -> Vals], NEW o \in Nat, NEW m \in Nat,
         o + m <= BlockSize, NEW k \in Nat, NEW r, r = Put(q, o, Bytes(m, k), Junk)
  PROVE  PutGives2(q, o, m, k, r)
<1>1. BlockSize \in Nat /\ Nat \subseteq Vals
  BY DEF Opened, Vals
<1>2. q \in Seq(Vals) /\ Len(q) = BlockSize
  BY <1>1
<1>3. PICK d : d = Bytes(m, k)
  OBVIOUS
<1>4. d \in Seq(Vals) /\ Len(d) = m /\ \A i \in 1 .. m : d[i] = k
  BY <1>1, <1>3, BytesVals
<1>5. r = Put(q, o, d, Junk)
  BY <1>3
<1>6. Most2(Len(q), o + Len(d)) = BlockSize
  BY <1>1, <1>2, <1>4 DEF Most2
<1>7. /\ r \in Seq(Vals) /\ Len(r) = BlockSize
      /\ \A i \in 1 .. BlockSize : r[i] = IF i > o /\ i <= o + Len(d) THEN d[i - o]
                                          ELSE IF i <= Len(q) THEN q[i] ELSE Junk
  <2>1. /\ Put(q, o, d, Junk) \in Seq(Vals) /\ Len(Put(q, o, d, Junk)) = Most2(Len(q), o + Len(d))
        /\ \A i \in 1 .. Most2(Len(q), o + Len(d)) :
             Put(q, o, d, Junk)[i] = IF i > o /\ i <= o + Len(d) THEN d[i - o]
                                     ELSE IF i <= Len(q) THEN q[i] ELSE Junk
    BY <1>2, <1>4, PutVals
  <2> QED BY <2>1, <1>5, <1>6
<1>8. r \in [1 .. BlockSize -> Vals]
  BY <1>7
<1>9. ASSUME NEW i \in 1 .. BlockSize PROVE r[i] = IF i > o /\ i <= o + m THEN k ELSE q[i]
  <2>1. i > o /\ i <= o + m => i - o \in 1 .. m
    OBVIOUS
  <2> QED BY <2>1, <1>2, <1>4, <1>7
<1> QED BY <1>8, <1>9 DEF PutGives2

GrownAs(t, b, high, v) ==
  \/ high <= Base(b) + t.cache[b].len /\ v.cache[b].len = t.cache[b].len /\ v.flen = t.flen
  \/ /\ high > Base(b) + t.cache[b].len /\ (t.flen = Unknown \/ t.flen < high)
     /\ v.cache[b].len = high - Base(b) /\ v.flen = IF buffers THEN high ELSE t.flen
  \/ /\ high > Base(b) + t.cache[b].len /\ t.flen \in Nat /\ t.flen >= high
     /\ v.cache[b].len = Least2(BlockSize, t.flen - Base(b)) /\ v.flen = t.flen
WriteGives(t, b, low, high, k, v) ==
  /\ v \in Files /\ v.disk = t.disk /\ v.wbuf = t.wbuf /\ v.rbuf = t.rbuf
  /\ DOMAIN v.cache = DOMAIN t.cache /\ \A x \in DOMAIN t.cache : x # b => v.cache[x] = t.cache[x]
  /\ v.cache[b].changed = (t.cache[b].changed \/ buffers)
  /\ v.cache[b].len >= t.cache[b].len /\ high <= Base(b) + v.cache[b].len
  /\ \A i \in 1 .. BlockSize :
       IF i > low - Base(b) /\ i <= high - Base(b) THEN v.cache[b].data[i] = k
       ELSE i <= t.cache[b].len => v.cache[b].data[i] = t.cache[b].data[i]
  /\ GrownAs(t, b, high, v)
LEMMA WriteFields ==
  ASSUME Opened, buffers \in BOOLEAN, NEW t \in Files, NEW b \in DOMAIN t.cache, NEW pos \in Nat,
         NEW low \in Nat, NEW high \in Nat, NEW k \in Nat, low = Most2(pos, Base(b)), low < high,
         high <= Base(b) + BlockSize, NEW u, NEW v,
         u = [t EXCEPT !.cache[b].data = Put(@, low - Base(b), Bytes(high - low, k), Junk),
                       !.cache[b].changed = @ \/ buffers],
         v = Grown(u, b, pos, high)
  PROVE  WriteGives(t, b, low, high, k, v)
<1>0. PICK at \in Nat : at = Base(b)
  BY FileHas, Bases
<1>1. PICK o : o = t.cache[b]
  OBVIOUS
<1>2. /\ o.data \in [1 .. BlockSize -> Vals] /\ o.len \in Nat /\ o.len <= BlockSize
      /\ o.changed \in BOOLEAN /\ BlockSize \in Nat /\ t.flen \in Nat \cup {Unknown} /\ Unknown \notin Nat
  BY <1>1, BlockHas, FileHas DEF Opened
<1>3. PICK l \in Nat : l = low - at
  BY <1>0 DEF Most2
<1>4. PICK m \in Nat : m = high - low
  OBVIOUS
<1>5. l + m = high - at /\ l + m <= BlockSize /\ low >= at /\ low >= pos
  <2>1. low >= at /\ low >= pos
    BY <1>0 DEF Most2
  <2>2. high <= at + BlockSize
    BY <1>0
  <2>3. l + m = high - at
    BY <1>3, <1>4
  <2>4. high - at <= BlockSize
    BY <2>2, <1>2
  <2> QED BY <2>1, <2>3, <2>4
<1>6. PICK q : q = Put(o.data, l, Bytes(m, k), Junk)
  OBVIOUS
<1>7. q \in [1 .. BlockSize -> Vals] /\ \A i \in 1 .. BlockSize : q[i] = IF i > l /\ i <= l + m THEN k ELSE o.data[i]
  <2>1. PutGives2(o.data, l, m, k, q)
    BY <1>2, <1>5, <1>6, PutInBlock
  <2> QED BY <2>1 DEF PutGives2
<1>8. PICK c \in BOOLEAN : c = (o.changed \/ buffers)
  OBVIOUS
<1>9. u = [t EXCEPT !.cache[b].data = q, !.cache[b].changed = c]
  BY <1>0, <1>1, <1>3, <1>4, <1>6, <1>8
<1>10. Becomes(t, b, [data |-> q, len |-> o.len, changed |-> c], t.flen, u)
  BY <1>1, <1>7, <1>9, NewData
<1>11. /\ u \in Files /\ u.disk = t.disk /\ u.wbuf = t.wbuf /\ u.rbuf = t.rbuf /\ u.flen = t.flen
       /\ DOMAIN u.cache = DOMAIN t.cache
       /\ u.cache[b].data = q /\ u.cache[b].len = o.len /\ u.cache[b].changed = c
       /\ \A x \in DOMAIN t.cache : x # b => u.cache[x] = t.cache[x]
  BY <1>10 DEF Becomes
<1>12. b \in DOMAIN u.cache
  BY ONLY <1>11, b \in DOMAIN t.cache
<1>13. CASE high <= at + o.len
  <2>1. v = u
    <3>1. high <= Base(b) + u.cache[b].len
      BY ONLY <1>0, <1>11, <1>13
    <3> QED BY <3>1, Zenon DEF Grown
  <2>2. GrownAs(t, b, high, v)
    BY ONLY <2>1, <1>0, <1>1, <1>11, <1>13 DEF GrownAs
  <2>3. ASSUME NEW i \in 1 .. BlockSize
        PROVE  IF i > low - at /\ i <= high - at THEN q[i] = k ELSE i <= o.len => q[i] = o.data[i]
    BY ONLY <1>3, <1>4, <1>5, <1>7, i \in 1 .. BlockSize, low \in Nat, high \in Nat, <1>0, <1>2
  <2>4. o.len >= o.len
    BY ONLY <1>2
  <2>5. v.cache[b].data = q /\ v.cache[b].len = o.len /\ v.cache[b].changed = c
    BY <2>1, <1>11
  <2>6. /\ v \in Files /\ v.disk = t.disk /\ v.wbuf = t.wbuf /\ v.rbuf = t.rbuf
        /\ DOMAIN v.cache = DOMAIN t.cache /\ \A x \in DOMAIN t.cache : x # b => v.cache[x] = t.cache[x]
    BY ONLY <2>1, <1>11
  <2> QED BY ONLY <2>2, <2>3, <2>4, <2>5, <2>6, <1>0, <1>1, <1>8, <1>13 DEF WriteGives
<1>14. CASE ~(high <= at + o.len) /\ (t.flen = Unknown \/ t.flen < high)
  <2>1. PICK r : r = [i \in 1 .. BlockSize |-> IF i > o.len /\ i <= pos - at THEN 0 ELSE q[i]]
    OBVIOUS
  <2>2. PICK n \in 0 .. BlockSize : n = high - at
    BY ONLY <1>2, <1>5, high \in Nat, <1>0
  <2>3. PICK f : f = IF buffers THEN high ELSE t.flen
    OBVIOUS
  <2>4. v = [u EXCEPT !.cache[b].data = r, !.cache[b].len = n, !.flen = f]
    <3>1. ~(high <= Base(b) + u.cache[b].len) /\ (u.flen = Unknown \/ u.flen < high)
      BY <1>0, <1>11, <1>14
    <3>2. v = [u EXCEPT !.cache[b].data = [i \in 1 .. BlockSize |->
                                             IF i > u.cache[b].len /\ i <= pos - Base(b) THEN 0 ELSE u.cache[b].data[i]],
                        !.cache[b].len = high - Base(b), !.flen = IF buffers THEN high ELSE @]
      BY <3>1, Zenon DEF Grown
    <3>3. r = [i \in 1 .. BlockSize |-> IF i > u.cache[b].len /\ i <= pos - Base(b) THEN 0 ELSE u.cache[b].data[i]]
      <4>1. u.cache[b].len = o.len /\ u.cache[b].data = q /\ Base(b) = at
        BY ONLY <1>0, <1>11
      <4> QED BY ONLY <2>1, <4>1
    <3>4. v = [u EXCEPT !.cache[b].data = r, !.cache[b].len = high - Base(b), !.flen = IF buffers THEN high ELSE @]
      BY ONLY <3>2, <3>3, Zenon
    <3> QED BY <3>4, <2>2, <2>3, <1>0, <1>11
  <2>5. r \in [1 .. BlockSize -> Vals]
    <3>1. 0 \in Vals
      BY DEF Vals
    <3> QED BY <3>1, <1>7, <2>1
  <2>6. f \in Nat \cup {Unknown}
    BY ONLY <1>2, <2>3, high \in Nat, buffers \in BOOLEAN, SMTT(60)
  <2>7. Becomes(u, b, [data |-> r, len |-> n, changed |-> u.cache[b].changed], f, v)
    BY <1>11, <1>12, <2>4, <2>5, <2>6, NewEnd
  <2>71. Becomes(u, b, [data |-> r, len |-> n, changed |-> c], f, v)
    BY ONLY <2>7, <1>11
  <2>8. /\ v \in Files /\ v.disk = u.disk /\ v.wbuf = u.wbuf /\ v.rbuf = u.rbuf /\ v.flen = f
        /\ DOMAIN v.cache = DOMAIN u.cache
        /\ v.cache[b].data = r /\ v.cache[b].len = n /\ v.cache[b].changed = c
        /\ \A x \in DOMAIN u.cache : x # b => v.cache[x] = u.cache[x]
    <3>1. PICK e : e = [data |-> r, len |-> n, changed |-> c]
      OBVIOUS
    <3>2. e.data = r /\ e.len = n /\ e.changed = c
      BY <3>1
    <3>3. Becomes(u, b, e, f, v)
      BY <2>71, <3>1
    <3> QED BY ONLY <3>2, <3>3 DEF Becomes
  <2>9. ASSUME NEW i \in 1 .. BlockSize
        PROVE  IF i > low - at /\ i <= high - at THEN r[i] = k ELSE i <= o.len => r[i] = o.data[i]
    <3>1. i > l => ~(i <= pos - at)
      BY <1>3, <1>5
    <3>2. r[i] = IF i > o.len /\ i <= pos - at THEN 0 ELSE q[i]
      BY <2>1
    <3>3. q[i] = IF i > l /\ i <= l + m THEN k ELSE o.data[i]
      BY <1>7
    <3>4. i <= o.len => ~(i > o.len)
      BY <1>2
    <3> QED BY ONLY <3>1, <3>2, <3>3, <3>4, <1>3, <1>5, low \in Nat, high \in Nat, <1>4, <1>0, i \in 1 .. BlockSize
  <2>10. n >= o.len /\ high <= at + n /\ high > at + o.len
    BY ONLY <1>2, <1>14, <2>2, <1>0, high \in Nat
  <2>11. GrownAs(t, b, high, v)
    <3>1. high > Base(b) + t.cache[b].len
      BY ONLY <2>10, <1>0, <1>1
    <3>2. v.cache[b].len = high - Base(b) /\ v.flen = IF buffers THEN high ELSE t.flen
      BY ONLY <2>2, <2>3, <2>8, <1>0
    <3> QED BY ONLY <3>1, <3>2, <1>14 DEF GrownAs
  <2>12. /\ v.disk = t.disk /\ v.wbuf = t.wbuf /\ v.rbuf = t.rbuf
         /\ DOMAIN v.cache = DOMAIN t.cache /\ \A x \in DOMAIN t.cache : x # b => v.cache[x] = t.cache[x]
    BY ONLY <2>8, <1>11
  <2> QED BY ONLY <2>8, <2>9, <2>10, <2>11, <2>12, <1>0, <1>1, <1>8 DEF WriteGives
<1>15. CASE ~(high <= at + o.len) /\ ~(t.flen = Unknown \/ t.flen < high)
  <2>1. t.flen \in Nat /\ t.flen >= high
    BY ONLY <1>2, <1>15, high \in Nat
  <2>2. PICK n \in 0 .. BlockSize : n = Least2(BlockSize, t.flen - at)
    <3>1. t.flen - at \in Nat
      BY <2>1, <1>5, <1>3, <1>4
    <3>2. Least2(BlockSize, t.flen - at) = IF BlockSize < t.flen - at THEN BlockSize ELSE t.flen - at
      BY DEF Least2
    <3>3. BlockSize \in Nat
      BY ONLY <1>2
    <3>4. Least2(BlockSize, t.flen - at) \in 0 .. BlockSize
      BY ONLY <3>1, <3>2, <3>3
    <3> QED BY ONLY <3>4
  <2>3. v = [u EXCEPT !.cache[b].len = n]
    <3>1. ~(high <= Base(b) + u.cache[b].len) /\ ~(u.flen = Unknown \/ u.flen < high)
      BY ONLY <1>0, <1>11, <1>15
    <3>2. v = [u EXCEPT !.cache[b].len = Least2(BlockSize, u.flen - Base(b))]
      BY <3>1, Zenon DEF Grown
    <3>3. Least2(BlockSize, u.flen - Base(b)) = n
      BY ONLY <2>2, <1>0, <1>11, SMTT(60)
    <3> QED BY ONLY <3>2, <3>3, Zenon
  <2>4. Becomes(u, b, [data |-> u.cache[b].data, len |-> n, changed |-> u.cache[b].changed], u.flen, v)
    BY <1>11, <1>12, <2>3, NewLen
  <2>41. Becomes(u, b, [data |-> q, len |-> n, changed |-> c], u.flen, v)
    BY ONLY <2>4, <1>11
  <2>5. /\ v \in Files /\ v.disk = u.disk /\ v.wbuf = u.wbuf /\ v.rbuf = u.rbuf /\ v.flen = u.flen
        /\ DOMAIN v.cache = DOMAIN u.cache
        /\ v.cache[b].data = q /\ v.cache[b].len = n /\ v.cache[b].changed = c
        /\ \A x \in DOMAIN u.cache : x # b => v.cache[x] = u.cache[x]
    <3>1. PICK e : e = [data |-> q, len |-> n, changed |-> c]
      OBVIOUS
    <3>2. e.data = q /\ e.len = n /\ e.changed = c
      BY <3>1
    <3>3. Becomes(u, b, e, u.flen, v)
      BY <2>41, <3>1
    <3> QED BY ONLY <3>2, <3>3 DEF Becomes
  <2>6. n >= o.len /\ high <= at + n /\ high > at + o.len
    <3>1. high > at + o.len
      BY <1>2, <1>15, <1>0
    <3>2. n = BlockSize \/ n = t.flen - at
      BY ONLY <2>2 DEF Least2
    <3>3. PICK y \in Nat, f \in Nat, z \in Nat : y = o.len /\ f = t.flen /\ z = BlockSize
      BY ONLY <1>2, <2>1
    <3>4. high <= at + z
      BY ONLY <3>3, <1>0, high <= Base(b) + BlockSize
    <3>5. y <= z /\ high > at + y /\ f >= high /\ (n = z \/ n = f - at) /\ n \in Nat
      BY ONLY <3>1, <3>2, <3>3, <1>2, <2>1, n \in 0 .. BlockSize
    <3>6. n >= y /\ high <= at + n /\ high > at + y
      BY ONLY <3>4, <3>5, high \in Nat, y \in Nat, z \in Nat, f \in Nat, at \in Nat
    <3> QED BY ONLY <3>3, <3>6
  <2>7. GrownAs(t, b, high, v)
    <3>1. high > Base(b) + t.cache[b].len
      BY ONLY <2>6, <1>0, <1>1
    <3>2. v.cache[b].len = Least2(BlockSize, t.flen - Base(b)) /\ v.flen = t.flen
      BY ONLY <2>2, <2>5, <1>0, <1>11
    <3> QED BY ONLY <3>1, <3>2, <2>1 DEF GrownAs
  <2>8. ASSUME NEW i \in 1 .. BlockSize
        PROVE  IF i > low - at /\ i <= high - at THEN q[i] = k ELSE i <= o.len => q[i] = o.data[i]
    BY ONLY <1>3, <1>4, <1>5, <1>7, i \in 1 .. BlockSize, low \in Nat, high \in Nat, <1>0, <1>2
  <2>12. /\ v.disk = t.disk /\ v.wbuf = t.wbuf /\ v.rbuf = t.rbuf
         /\ DOMAIN v.cache = DOMAIN t.cache /\ \A x \in DOMAIN t.cache : x # b => v.cache[x] = t.cache[x]
    BY ONLY <2>5, <1>11
  <2> QED BY ONLY <2>5, <2>6, <2>7, <2>8, <2>12, <1>0, <1>1, <1>8 DEF WriteGives
<1> QED BY <1>13, <1>14, <1>15

(* A write is as it should be in the blocks it has reached.                *)
Part(w, E, F, low, high, k) ==
  \A p \in 0 .. Len(w) - 1 :
    IF low <= p /\ p < high THEN w[p + 1] = k ELSE p \notin F => p \notin E
LEMMA WriteFine ==
  ASSUME Opened, buffers \in BOOLEAN, NEW g \in BOOLEAN, NEW t \in Files, NEW b \in DOMAIN t.cache,
         NEW w \in Seq(Written), NEW E, NEW X, NEW F, NEW Y, Fine(buffers, t, w, E, X, g),
         buffers => g /\ E = X /\ F = Y, ~buffers => Y = X,
         NEW low \in Nat, NEW high \in Nat, NEW k \in Nat, Base(b) <= low, low < high,
         high <= Base(b) + BlockSize, NEW v, WriteGives(t, b, low, high, k, v),
         Part(w, E, F, low, high, k)
  PROVE  /\ Fine(buffers, v, w, F, Y, g)
         /\ FileLen(v) = IF buffers THEN Most2(FileLen(t), high) ELSE FileLen(t)
<1>0. PICK at \in Nat : at = Base(b)
  BY FileHas, Bases
<1>1. /\ v \in Files /\ v.disk = t.disk /\ v.wbuf = t.wbuf /\ v.rbuf = t.rbuf
      /\ DOMAIN v.cache = DOMAIN t.cache /\ \A x \in DOMAIN t.cache : x # b => v.cache[x] = t.cache[x]
      /\ v.cache[b].changed = (t.cache[b].changed \/ buffers)
      /\ v.cache[b].len >= t.cache[b].len /\ high <= at + v.cache[b].len
      /\ \A i \in 1 .. BlockSize :
           IF i > low - at /\ i <= high - at THEN v.cache[b].data[i] = k
           ELSE i <= t.cache[b].len => v.cache[b].data[i] = t.cache[b].data[i]
      /\ GrownAs(t, b, high, v)
  BY <1>0 DEF WriteGives
<1>2. /\ b \in Nat /\ BlockSize \in Nat /\ BlockSize > 0 /\ t.cache[b].len \in Nat /\ t.cache[b].len <= BlockSize
      /\ Len(w) \in Nat /\ v.cache[b].len \in Nat /\ v.cache[b].len <= BlockSize
  <2>1. b \in DOMAIN v.cache
    BY <1>1
  <2>2. v.cache[b].len \in Nat /\ v.cache[b].len <= BlockSize
    BY <1>1, <2>1, BlockHas
  <2> QED BY <2>2, BlockHas
<1>3. WEnd(v) = WEnd(t)
  BY <1>1 DEF WEnd
<1>4. ASSUME NEW p \in Nat, BlockOf(p) # b
      PROVE  (Covered(v, p) <=> Covered(t, p)) /\ Stands(v, p) = Stands(t, p)
  <2>1. Covered(v, p) <=> Covered(t, p)
    BY <1>1, <1>4 DEF Covered
  <2>2. CASE Covered(t, p)
    <3>1. BlockOf(p) \in DOMAIN t.cache
      BY <2>2 DEF Covered
    <3> QED BY <2>1, <2>2, <3>1, <1>1, <1>4 DEF Stands
  <2>3. CASE ~Covered(t, p)
    BY <2>1, <2>3, <1>1, <1>3 DEF Stands
  <2> QED BY <2>1, <2>2, <2>3
<1>5. ASSUME g PROVE GoodBlock(v, w, F, b)
  <2>1. SUFFICES ASSUME NEW p \in 0 .. Len(w) - 1, p \notin F, at <= p, p < at + BlockSize
                 PROVE  IF p - at < v.cache[b].len THEN Agrees(v.cache[b].data[p - at + 1], w[p + 1])
                        ELSE w[p + 1] = AnyByte
    BY <1>0 DEF GoodBlock
  <2>2. p \in Nat /\ p - at + 1 \in 1 .. BlockSize
    BY ONLY <2>1, <1>2, <1>0
  <2>3. CASE low <= p /\ p < high
    <3>1. w[p + 1] = k
      BY <2>1, <2>3 DEF Part
    <3>2. p - at + 1 > low - at /\ p - at + 1 <= high - at /\ p - at < v.cache[b].len
      <4>1. p - at + 1 > low - at /\ p - at + 1 <= high - at
        BY ONLY <2>2, <2>3, low \in Nat, high \in Nat, <1>0
      <4>2. PICK n \in Nat : n = v.cache[b].len
        BY <1>2
      <4>3. p < at + n
        BY ONLY <2>2, <2>3, <4>2, <1>1, high \in Nat, <1>0, SMTT(60)
      <4>4. p - at < n
        BY ONLY <2>2, <4>3, <1>0
      <4> QED BY <4>1, <4>2, <4>4
    <3>3. v.cache[b].data[p - at + 1] = k
      BY <3>2, <2>2, <1>1
    <3> QED BY <3>1, <3>2, <3>3 DEF Agrees
  <2>4. CASE ~(low <= p /\ p < high)
    <3>1. p \notin E
      BY <2>1, <2>4 DEF Part
    <3>2. GoodBlock(t, w, E, b)
      BY <1>5 DEF Fine, Good
    <3>3. IF p - at < t.cache[b].len THEN Agrees(t.cache[b].data[p - at + 1], w[p + 1]) ELSE w[p + 1] = AnyByte
      BY <3>1, <3>2, <2>1, <1>0 DEF GoodBlock
    <3>4. CASE p - at < t.cache[b].len
      <4>1. ~(p - at + 1 > low - at /\ p - at + 1 <= high - at) /\ p - at + 1 <= t.cache[b].len
        <5>1. p - at + 1 <= t.cache[b].len
          BY ONLY <2>2, <3>4, <1>0, <1>2
        <5>2. ~(p - at + 1 > low - at /\ p - at + 1 <= high - at)
          <6>1. p \in Nat /\ at \in Nat /\ (p < low \/ p >= high)
            BY ONLY <2>2, <2>4, <1>0, low \in Nat, high \in Nat
          <6>2. CASE p < low
            BY ONLY <6>1, <6>2, low \in Nat
          <6>3. CASE p >= high
            BY ONLY <6>1, <6>3, high \in Nat
          <6> QED BY ONLY <6>1, <6>2, <6>3
        <5> QED BY ONLY <5>1, <5>2
      <4>2. v.cache[b].data[p - at + 1] = t.cache[b].data[p - at + 1]
        BY <4>1, <2>2, <1>1
      <4>3. p - at < v.cache[b].len
        BY ONLY <3>4, <2>2, <1>1, <1>2, SMTT(60)
      <4> QED BY <3>3, <3>4, <4>2, <4>3
    <3>5. CASE ~(p - at < t.cache[b].len)
      BY <3>3, <3>5 DEF Agrees
    <3> QED BY <3>4, <3>5
  <2> QED BY <2>3, <2>4
<1>6. g => Good(v, w, F)
  <2>1. SUFFICES ASSUME g, NEW x \in DOMAIN v.cache PROVE GoodBlock(v, w, F, x)
    BY DEF Good
  <2>2. CASE x = b
    BY <2>1, <2>2, <1>5
  <2>3. CASE x # b
    <3>1. x \in DOMAIN t.cache /\ v.cache[x] = t.cache[x]
      BY <2>3, <1>1
    <3>2. x \in Nat
      BY <3>1, FileHas
    <3>3. GoodBlock(t, w, E, x)
      BY <2>1, <3>1 DEF Fine, Good
    <3>4. ASSUME NEW p \in 0 .. Len(w) - 1, p \notin F, Base(x) <= p, p < Base(x) + BlockSize
          PROVE  p \notin E
      <4>1. p \in Nat
        BY <1>2
      <4>2. BlockOf(p) = x
        BY <3>2, <3>4, <4>1, Bytewise
      <4>3. low <= p /\ p < high => BlockOf(p) = b
        <5>1. low <= p /\ p < high => Base(b) <= p /\ p < Base(b) + BlockSize
          BY <4>1, <1>0, <1>2, SMTT(60)
        <5> QED BY <5>1, <4>1, <1>2, Bytewise
      <4>4. ~(low <= p /\ p < high)
        BY <4>2, <4>3, <2>3
      <4> QED BY <4>4, <3>4 DEF Part
    <3> QED BY <3>1, <3>3, <3>4 DEF GoodBlock
  <2> QED BY <2>2, <2>3
<1>7. ASSUME NEW p \in 0 .. Len(w) - 1, p \notin F, buffers, BlockOf(p) = b
      PROVE  Agrees(Stands(v, p), w[p + 1]) /\ (w[p + 1] = AnyByte \/ Covered(v, p))
  <2>1. p \in Nat
    BY <1>2
  <2>2. at <= p /\ p < at + BlockSize
    BY <2>1, <1>0, <1>7, ByteIn
  <2>3. IF p - at < v.cache[b].len THEN Agrees(v.cache[b].data[p - at + 1], w[p + 1]) ELSE w[p + 1] = AnyByte
    <3>1. GoodBlock(v, w, F, b)
      BY <1>5, <1>7
    <3> QED BY <3>1, <2>2, <1>0, <1>7 DEF GoodBlock
  <2>4. CASE p - at < v.cache[b].len
    <3>1. Covered(v, p)
      BY <2>4, <1>0, <1>1, <1>7 DEF Covered
    <3>2. Stands(v, p) = v.cache[b].data[p - at + 1]
      BY <3>1, <1>0, <1>7 DEF Stands
    <3> QED BY <3>1, <3>2, <2>3, <2>4
  <2>5. CASE ~(p - at < v.cache[b].len)
    BY <2>3, <2>5 DEF Agrees
  <2> QED BY <2>4, <2>5
<1>8. ASSUME NEW p \in 0 .. Len(w) - 1, p \notin F, BlockOf(p) # b PROVE p \notin E
  <2>1. p \in Nat
    BY <1>2
  <2>2. low <= p /\ p < high => Base(b) <= p /\ p < Base(b) + BlockSize
    BY <2>1, <1>0, <1>2
  <2>3. ~(low <= p /\ p < high)
    BY <2>1, <2>2, <1>2, <1>8, Bytewise
  <2> QED BY <2>3, <1>8 DEF Part
<1>9. CASE buffers
  <2>1. Cov(t, w, E) /\ Gap(t, w, E) /\ LensIn(t) /\ g
    BY <1>9 DEF Fine
  <2>2. ASSUME NEW p \in 0 .. Len(w) - 1, p \notin F PROVE Agrees(Stands(v, p), w[p + 1])
    <3>1. CASE BlockOf(p) = b
      BY <2>2, <3>1, <1>7, <1>9
    <3>2. CASE BlockOf(p) # b
      <4>1. p \notin E
        BY <2>2, <3>2, <1>8
      <4>2. p \in Nat
        BY <1>2
      <4>3. Stands(v, p) = Stands(t, p)
        BY <4>2, <3>2, <1>4
      <4> QED BY <4>1, <4>3, <2>1 DEF Cov
    <3> QED BY <3>1, <3>2
  <2>3. Gap(v, w, F)
    <3>1. SUFFICES ASSUME v.wbuf.on, NEW p \in 0 .. Len(w) - 1, p \notin F, p >= WEnd(t), Base(BlockOf(p)) < WEnd(t)
                   PROVE  w[p + 1] = AnyByte \/ Covered(v, p)
      BY <1>3 DEF Gap
    <3>2. CASE BlockOf(p) = b
      BY <3>1, <3>2, <1>7, <1>9
    <3>3. CASE BlockOf(p) # b
      <4>1. p \notin E
        BY <3>1, <3>3, <1>8
      <4>2. p \in Nat
        BY <1>2
      <4>3. Covered(v, p) <=> Covered(t, p)
        BY <4>2, <3>3, <1>4
      <4> QED BY <4>1, <4>3, <3>1, <2>1, <1>1 DEF Gap
    <3> QED BY <3>2, <3>3
  <2>4. LensIn(v) /\ FileLen(v) = Most2(FileLen(t), high)
    <3>0. /\ FileLen(t) \in Nat /\ Len(t.disk) \in Nat /\ Unknown \notin Nat
          /\ \A x \in DOMAIN t.cache : x \in Nat /\ Base(x) \in Nat /\ t.cache[x].len \in Nat
      BY FileHas, Bases DEF Opened
    <3>1. \A x \in DOMAIN t.cache : t.cache[x].len = 0 \/ Base(x) + t.cache[x].len <= FileLen(t)
      BY <2>1 DEF LensIn
    <3>2. CASE high <= at + t.cache[b].len /\ v.cache[b].len = t.cache[b].len /\ v.flen = t.flen
      <4>1. FileLen(v) = FileLen(t)
        BY <3>2, <1>1 DEF FileLen
      <4>2. t.cache[b].len # 0
        BY <3>2, <1>0, <1>2
      <4>3. high <= FileLen(t)
        BY ONLY <3>0, <3>1, <3>2, <4>2, <1>0, <1>2, high \in Nat, b \in DOMAIN t.cache
      <4>4. \A x \in DOMAIN v.cache : v.cache[x].len = t.cache[x].len
        BY <3>2, <1>1
      <4>5. LensIn(v)
        BY <4>1, <4>4, <3>2, <2>1, <1>1, <1>3 DEF LensIn
      <4> QED BY <4>1, <4>3, <4>5, <3>0 DEF Most2
    <3>3. CASE /\ high > at + t.cache[b].len /\ (t.flen = Unknown \/ t.flen < high)
               /\ v.cache[b].len = high - at /\ v.flen = IF buffers THEN high ELSE t.flen
      <4>1. v.flen = high /\ v.flen # Unknown /\ FileLen(v) = high
        <5>1. v.flen = high
          BY <3>3, <1>9
        <5> QED BY <5>1, <3>0 DEF FileLen
      <4>2. FileLen(t) <= high
        <5>1. CASE t.flen = Unknown
          <6>1. t.cache[b].len = BlockSize \/ at + t.cache[b].len >= Len(t.disk)
            BY <5>1, <2>1, <1>0 DEF LensIn
          <6>2. t.cache[b].len # BlockSize
            BY <3>3, <1>0, <1>2
          <6>3. FileLen(t) = Len(t.disk)
            BY <5>1 DEF FileLen
          <6>4. PICK y \in Nat, z \in Nat : y = t.cache[b].len /\ z = Len(t.disk)
            BY ONLY <1>2, <3>0, <6>3
          <6>5. at + y >= z /\ high > at + y
            BY ONLY <6>1, <6>2, <6>4, <3>3
          <6>6. z <= high
            BY ONLY <6>5, <1>0, y \in Nat, z \in Nat, high \in Nat
          <6> QED BY ONLY <6>3, <6>4, <6>6
        <5>2. CASE t.flen # Unknown
          <6>1. FileLen(t) = t.flen /\ t.flen < high
            BY <5>2, <3>3 DEF FileLen
          <6> QED BY <6>1, <3>0
        <5> QED BY <5>1, <5>2
      <4>3. \A x \in DOMAIN v.cache : v.cache[x].len = 0 \/ Base(x) + v.cache[x].len <= high
        <5>1. TAKE x \in DOMAIN v.cache
        <5>2. CASE x = b
          BY <5>2, <3>3, <1>0
        <5>3. CASE x # b
          <6>1. x \in DOMAIN t.cache /\ v.cache[x].len = t.cache[x].len
            BY <5>3, <1>1
          <6> QED BY ONLY <6>1, <3>0, <3>1, <4>2
        <5> QED BY <5>2, <5>3
      <4>4. LensIn(v)
        BY <4>1, <4>3 DEF LensIn
      <4> QED BY <4>1, <4>2, <4>4, <3>0 DEF Most2
    <3>4. CASE /\ high > at + t.cache[b].len /\ t.flen \in Nat /\ t.flen >= high
               /\ v.cache[b].len = Least2(BlockSize, t.flen - at) /\ v.flen = t.flen
      <4>1. v.flen # Unknown /\ FileLen(v) = t.flen /\ FileLen(t) = t.flen
        BY <3>4, <3>0 DEF FileLen
      <4>2. at + v.cache[b].len <= t.flen
        BY <3>4, <1>2 DEF Least2
      <4>3. \A x \in DOMAIN v.cache : v.cache[x].len = 0 \/ Base(x) + v.cache[x].len <= t.flen
        <5>1. TAKE x \in DOMAIN v.cache
        <5>2. CASE x = b
          BY <5>2, <4>2, <1>0
        <5>3. CASE x # b
          <6>1. x \in DOMAIN t.cache /\ v.cache[x].len = t.cache[x].len
            BY <5>3, <1>1
          <6> QED BY <6>1, <3>1, <4>1
        <5> QED BY <5>2, <5>3
      <4>4. LensIn(v)
        BY <4>1, <4>3 DEF LensIn
      <4> QED BY <4>1, <4>4, <3>4 DEF Most2
    <3> QED BY <3>2, <3>3, <3>4, <1>0, <1>1 DEF GrownAs
  <2>5. Cov(v, w, Y)
    BY <2>2, <1>9 DEF Cov
  <2> QED BY <2>3, <2>4, <2>5, <1>6, <1>9 DEF Fine
<1>10. CASE ~buffers
  <2>1. Straight(t) /\ Cov(t, w, X) /\ Y = X
    BY <1>10 DEF Fine
  <2>2. v.flen = Unknown
    <3>1. v.flen = t.flen
      BY <1>1, <1>10 DEF GrownAs
    <3> QED BY <3>1, <2>1 DEF Straight
  <2>3. \A x \in DOMAIN v.cache : ~v.cache[x].changed
    <3>1. TAKE x \in DOMAIN v.cache
    <3>2. ~t.cache[x].changed
      BY <1>1, <2>1 DEF Straight
    <3> QED BY <3>2, <1>1, <1>10
  <2>4. Straight(v)
    BY <2>1, <2>2, <2>3, <1>1 DEF Straight
  <2>5. ASSUME NEW p PROVE Stands(v, p) = Stands(t, p)
    <3>1. ~Covered(v, p) /\ ~Covered(t, p)
      BY <2>1, <2>3 DEF Covered, Straight
    <3> QED BY <3>1, <1>1, <1>3 DEF Stands
  <2>6. Cov(v, w, Y)
    BY <2>1, <2>5 DEF Cov
  <2>7. FileLen(v) = FileLen(t)
    BY <2>1, <2>2, <1>1 DEF FileLen, Straight
  <2> QED BY <2>4, <2>6, <2>7, <1>6, <1>10 DEF Fine
<1> QED BY <1>9, <1>10

(* The file as everybody wrote it changes, the state does not: what is not *)
(* exempt stands as before, or is nobody's.                                *)
Narrower(w, y, E) ==
  \A p \in 0 .. Len(y) - 1 : p \notin E => y[p + 1] = AnyByte \/ (p < Len(w) /\ y[p + 1] = w[p + 1])
LEMMA NewWant ==
  ASSUME NEW B \in BOOLEAN, NEW v \in BOOLEAN, NEW t, NEW w \in Seq(Written), NEW y \in Seq(Written),
         NEW E, NEW X, Fine(B, t, w, {}, {}, v), Narrower(w, y, E), Narrower(w, y, X)
  PROVE  Fine(B, t, y, E, X, v)
<1>0. Len(w) \in Nat /\ Len(y) \in Nat
  OBVIOUS
<1>1. \A p \in 0 .. Len(y) - 1 : p < Len(w) => p \in 0 .. Len(w) - 1
  BY <1>0
<1>2. Cov(t, y, X)
  BY <1>1 DEF Cov, Fine, Narrower, Agrees
<1>3. B => Gap(t, y, E)
  BY <1>1 DEF Gap, Fine, Narrower
<1>4. v => Good(t, y, E)
  <2>1. SUFFICES ASSUME v, NEW b \in DOMAIN t.cache PROVE GoodBlock(t, y, E, b)
    BY DEF Good
  <2>2. GoodBlock(t, w, {}, b)
    BY <2>1 DEF Fine, Good
  <2> QED BY <2>2, <1>1 DEF GoodBlock, Narrower, Agrees
<1> QED BY <1>2, <1>3, <1>4 DEF Fine

(* The bytes that everybody wants after one more write.                    *)
WantGives(w, pos, n, k, y) ==
  /\ y \in Seq(Written) /\ Len(y) = Most2(Len(w), pos + n)
  /\ \A p \in 0 .. Len(y) - 1 :
       y[p + 1] = IF pos <= p /\ p < pos + n THEN k ELSE IF p < Len(w) THEN w[p + 1] ELSE AnyByte
LEMMA WantPut ==
  ASSUME NEW w \in Seq(Written), NEW pos \in Nat, NEW n \in Nat, NEW k \in Nat,
         NEW y, y = Put(w, pos, Bytes(n, k), AnyByte)
  PROVE  WantGives(w, pos, n, k, y)
<1>1. PICK d : d = Bytes(n, k)
  OBVIOUS
<1>2. d \in Seq(Written) /\ Len(d) = n /\ \A i \in 1 .. n : d[i] = k
  <2>1. k \in Written
    BY DEF Written
  <2> QED BY <2>1, <1>1, BytesWant
<1>3. y = Put(w, pos, d, AnyByte)
  BY <1>1
<1>4. /\ y \in Seq(Written) /\ Len(y) = Most2(Len(w), pos + Len(d))
      /\ \A i \in 1 .. Most2(Len(w), pos + Len(d)) :
           y[i] = IF i > pos /\ i <= pos + Len(d) THEN d[i - pos] ELSE IF i <= Len(w) THEN w[i] ELSE AnyByte
  <2>1. /\ Put(w, pos, d, AnyByte) \in Seq(Written) /\ Len(Put(w, pos, d, AnyByte)) = Most2(Len(w), pos + Len(d))
        /\ \A i \in 1 .. Most2(Len(w), pos + Len(d)) :
             Put(w, pos, d, AnyByte)[i] = IF i > pos /\ i <= pos + Len(d) THEN d[i - pos]
                                      ELSE IF i <= Len(w) THEN w[i] ELSE AnyByte
    BY <1>2, PutWant
  <2> QED BY <2>1, <1>3
<1>5. ASSUME NEW p \in 0 .. Len(y) - 1
      PROVE  y[p + 1] = IF pos <= p /\ p < pos + n THEN k ELSE IF p < Len(w) THEN w[p + 1] ELSE AnyByte
  <2>0. Len(w) \in Nat /\ Len(y) \in Nat
    BY <1>4
  <2>1. p + 1 \in 1 .. Len(y) /\ p \in Nat
    BY <2>0
  <2>2. y[p + 1] = IF p + 1 > pos /\ p + 1 <= pos + n THEN d[(p + 1) - pos]
                   ELSE IF p + 1 <= Len(w) THEN w[p + 1] ELSE AnyByte
    BY <1>2, <1>4, <2>1
  <2>3. pos <= p /\ p < pos + n => (p + 1) - pos \in 1 .. n
    BY <2>1
  <2>4. (p + 1 > pos /\ p + 1 <= pos + n => pos <= p /\ p < pos + n)
        /\ (pos <= p /\ p < pos + n => p + 1 > pos /\ p + 1 <= pos + n)
    BY <2>1
  <2>5. (p + 1 <= Len(w) => p < Len(w)) /\ (p < Len(w) => p + 1 <= Len(w))
    BY <2>0, <2>1
  <2> QED BY <2>2, <2>3, <2>4, <2>5, <1>2
<1> QED BY <1>2, <1>4, <1>5 DEF WantGives

(* Nothing is exempt while nobody writes.                                  *)
LEMMA NoneExempt ==
  ASSUME NEW B, NEW c, c.op \notin {"write", "through"}
  PROVE  ToDo(c) = {} /\ Open(B, c) = {}
BY DEF ToDo, Open

(* What the invariant says of whatever call is in progress.                *)
LEMMA Facts ==
  ASSUME IInv
  PROVE  /\ Opened /\ mode \in Modes /\ buffers \in BOOLEAN /\ held \in BOOLEAN
         /\ s \in Files /\ want \in Seq(Written) /\ writes \in Nat /\ call \in Calls /\ answer \in Answers
         /\ Len(want) \in Nat /\ mode.shared \in BOOLEAN /\ mode.writeBuffer \in BOOLEAN
         /\ ~(mode.shared /\ mode.writeBuffer) /\ TrueView \in BOOLEAN
         /\ (buffers => TrueView /\ ~mode.shared)
         /\ Fine(buffers, s, want, ToDo(call), Open(buffers, call), TrueView)
         /\ CallIs(buffers, s, want, writes, TrueView, call)
         /\ PlacingIs(buffers, s, want, TrueView, call) /\ AnswerIs /\ Alone
<1>1. TypeOK /\ Opened /\ Alone
  BY DEF IInv
<1>2. /\ mode \in Modes /\ buffers \in BOOLEAN /\ held \in BOOLEAN
      /\ s \in Files /\ want \in Seq(Written) /\ writes \in Nat /\ call \in Calls /\ answer \in Answers
  BY <1>1 DEF TypeOK
<1>3. mode.shared \in BOOLEAN /\ mode.writeBuffer \in BOOLEAN /\ ~(mode.shared /\ mode.writeBuffer)
  BY <1>1, <1>2 DEF Opened
<1>4. Len(want) \in Nat
  BY <1>2
<1>5. TrueView \in BOOLEAN
  BY DEF TrueView
<1>6. buffers => TrueView /\ ~mode.shared
  BY <1>1 DEF Alone, TrueView
<1> QED BY <1>1, <1>2, <1>3, <1>4, <1>5, <1>6 DEF IInv

(* Between calls nothing is exempt and the length is that of the file.     *)
LEMMA QuietFacts ==
  ASSUME IInv, Quiet
  PROVE  /\ Fine(buffers, s, want, {}, {}, TrueView) /\ FileLen(s) = Len(want) /\ ~s.rbuf.on
         /\ (TrueView <=> ~mode.shared \/ held)
<1>1. call.op = "none"
  BY DEF Quiet, NoCall
<1>2. /\ Fine(buffers, s, want, ToDo(call), Open(buffers, call), TrueView)
      /\ CallIs(buffers, s, want, writes, TrueView, call)
      /\ PlacingIs(buffers, s, want, TrueView, call)
  BY Facts
<1>3. ToDo(call) = {} /\ Open(buffers, call) = {}
  BY <1>1, NoneExempt
<1>4. FileLen(s) = Len(want)
  BY <1>1, <1>2 DEF CallIs
<1>5. ~s.rbuf.on
  BY <1>1, <1>2 DEF PlacingIs, Placing
<1>6. TrueView <=> ~mode.shared \/ held
  BY <1>1 DEF TrueView
<1> QED BY <1>2, <1>3, <1>4, <1>5, <1>6

(* The invariant of the next state, part by part.                          *)
LEMMA Together ==
  ASSUME Opened, TypeOK', Alone', NEW E, E = ToDo(call'), NEW X, X = Open(buffers', call'),
         Fine(buffers', s', want', E, X, TrueView'),
         CallIs(buffers', s', want', writes', TrueView', call'),
         PlacingIs(buffers', s', want', TrueView', call'), AnswerIs'
  PROVE  IInv'
BY DEF IInv

------------------------------------------------------------------------------
(* Every action keeps the invariant.                                       *)

LEMMA AnswerOff ==
  ASSUME answer' = NoAnswer
  PROVE  AnswerIs'
<1>1. answer'.op = "none"
  BY DEF NoAnswer
<1> QED BY <1>1 DEF AnswerIs

LEMMA AnswerStays ==
  ASSUME IInv, ~Quiet, answer' = answer
  PROVE  AnswerIs'
<1>1. answer.op \notin {"flush", "read"}
  <2>1. answer.op = "none"
    BY Facts DEF AnswerIs
  <2> QED BY <2>1
<1>2. answer.op = "none"
  BY Facts DEF AnswerIs
<1> QED BY <1>1, <1>2 DEF AnswerIs

(* A write begins: the bytes it has to write are exempt.                   *)
LEMMA WriteStep ==
  ASSUME IInv, NEW pos \in Nat, NEW n \in Nat \ {0}, Write(pos, n)
  PROVE  IInv'
<1>1. /\ Quiet /\ writes' = writes + 1
      /\ want' = Put(want, pos, Bytes(n, writes + 1), AnyByte)
      /\ call' = [op |-> "write", pos |-> pos, n |-> n, b |-> BlockOf(pos)]
      /\ answer' = NoAnswer /\ mode' = mode /\ buffers' = buffers /\ held' = held /\ s' = s
  BY DEF Write
<1>2. /\ Opened /\ TypeOK /\ Alone /\ want \in Seq(Written) /\ Len(want) \in Nat /\ s \in Files
      /\ buffers \in BOOLEAN /\ writes \in Nat /\ TrueView \in BOOLEAN
  BY Facts DEF IInv
<1>3. Fine(buffers, s, want, {}, {}, TrueView) /\ FileLen(s) = Len(want) /\ ~s.rbuf.on
  BY <1>1, QuietFacts
<1>4. PICK k \in Nat : k = writes + 1
  BY <1>2
<1>5. PICK c : c = [op |-> "write", pos |-> pos, n |-> n, b |-> BlockOf(pos)]
  OBVIOUS
<1>6. c.op = "write" /\ c.pos = pos /\ c.n = n /\ c.b = BlockOf(pos)
  BY <1>5
<1>7. /\ BlockOf(pos) \in Nat /\ Base(BlockOf(pos)) \in Nat /\ BlockSize \in Nat
      /\ Base(BlockOf(pos)) <= pos /\ pos < Base(BlockOf(pos)) + BlockSize
  BY <1>2, ByteIn
<1>8. PICK y : y = Put(want, pos, Bytes(n, k), AnyByte)
  OBVIOUS
<1>9. /\ y \in Seq(Written) /\ Len(y) = Most2(Len(want), pos + n)
      /\ \A p \in 0 .. Len(y) - 1 :
           y[p + 1] = IF pos <= p /\ p < pos + n THEN k ELSE IF p < Len(want) THEN want[p + 1] ELSE AnyByte
  <2>1. WantGives(want, pos, n, k, y)
    BY <1>2, <1>8, WantPut
  <2> QED BY <2>1 DEF WantGives
<1>10. ASSUME NEW E, \A p \in Nat : pos <= p /\ p < pos + n => p \in E
       PROVE  Narrower(want, y, E)
  <2>1. Len(y) \in Nat
    BY <1>9
  <2>2. \A p \in 0 .. Len(y) - 1 : p \in Nat
    BY <2>1
  <2> QED BY <1>9, <1>10, <2>2 DEF Narrower
<1>11. PICK E : E = ToDo(c)
  OBVIOUS
<1>12. PICK X : X = Open(buffers, c)
  OBVIOUS
<1>13. \A p \in Nat : pos <= p /\ p < pos + n => p \in E /\ p \in X
  <2>1. SUFFICES ASSUME NEW p \in Nat, pos <= p, p < pos + n PROVE p \in E /\ p \in X
    OBVIOUS
  <2>2. InCall(c, p)
    BY <2>1, <1>6 DEF InCall
  <2>3. p >= Base(c.b)
    BY <2>1, <1>6, <1>7
  <2> QED BY <2>2, <2>3, <1>6, <1>11, <1>12 DEF ToDo, Open
<1>14. Fine(buffers, s, y, E, X, TrueView)
  <2>1. Narrower(want, y, E) /\ Narrower(want, y, X)
    BY <1>10, <1>13
  <2> QED BY <2>1, <1>2, <1>3, <1>9, NewWant
<1>15. CallIs(buffers, s, y, k, TrueView, c)
  <2>1. Base(c.b) < c.pos + c.n /\ c.pos < Base(c.b) + BlockSize
    BY <1>6, <1>7
  <2>2. \A p \in Nat : InCall(c, p) => y[p + 1] = k
    <3>1. SUFFICES ASSUME NEW p \in Nat, InCall(c, p) PROVE y[p + 1] = k
      OBVIOUS
    <3>2. pos <= p /\ p < pos + n
      BY <3>1, <1>6 DEF InCall
    <3>3. p \in 0 .. Len(y) - 1
      BY <3>2, <1>2, <1>9 DEF Most2
    <3> QED BY <3>2, <3>3, <1>9
  <2>3. Len(y) = Most2(FileLen(s), c.pos + c.n)
    BY <1>3, <1>6, <1>9
  <2>4. \A p \in 0 .. Len(y) - 1 : p >= FileLen(s) /\ p < c.pos => y[p + 1] = AnyByte
    <3>1. SUFFICES ASSUME NEW p \in 0 .. Len(y) - 1, p >= Len(want), p < pos PROVE y[p + 1] = AnyByte
      BY <1>3, <1>6
    <3>2. p \in Int
      OBVIOUS
    <3>3. ~(pos <= p /\ p < pos + n) /\ ~(p < Len(want))
      BY <3>1, <3>2, <1>2
    <3> QED BY <3>3, <1>9
  <2>5. WriteIs(s, y, k, c)
    BY <2>1, <2>2, <2>3, <2>4 DEF WriteIs
  <2> QED BY <2>5, <1>6 DEF CallIs
<1>16. PlacingIs(buffers, s, y, TrueView, c)
  BY <1>3, <1>6 DEF PlacingIs, Placing
<1>17. want' = y /\ call' = c /\ writes' = k
  BY <1>1, <1>4, <1>5, <1>8
<1>18. TypeOK'
  <2>1. c \in Calls
    BY <1>5, <1>7 DEF Calls, WriteCall
  <2>2. NoAnswer \in Answers
    BY DEF Answers
  <2> QED BY <2>1, <2>2, <1>1, <1>2, <1>9, <1>17 DEF TypeOK
<1>19. Alone'
  BY <1>1, <1>2, <1>6, <1>17 DEF Alone
<1>20. TrueView' = TrueView
  <2>1. TrueView <=> ~mode.shared \/ held
    BY <1>1, QuietFacts
  <2>2. TrueView' <=> ~mode.shared \/ held
    BY <1>1, <1>6, <1>17 DEF TrueView
  <2>3. TrueView' \in BOOLEAN
    BY DEF TrueView
  <2> QED BY <2>1, <2>2, <2>3, <1>2
<1>21. AnswerIs'
  BY <1>1, AnswerOff
<1>22. /\ Fine(buffers', s', want', E, X, TrueView') /\ E = ToDo(call') /\ X = Open(buffers', call')
       /\ CallIs(buffers', s', want', writes', TrueView', call')
       /\ PlacingIs(buffers', s', want', TrueView', call')
  BY <1>1, <1>11, <1>12, <1>14, <1>15, <1>16, <1>17, <1>20
<1> QED BY <1>2, <1>18, <1>19, <1>21, <1>22, Together

(* A write to the disk, of a file that does not buffer.                    *)
DiskGives(q, pos, n, k, y) ==
  /\ y \in Seq(Vals) /\ Len(y) = Most2(Len(q), pos + n)
  /\ \A p \in 0 .. Len(y) - 1 :
       y[p + 1] = IF pos <= p /\ p < pos + n THEN k ELSE IF p < Len(q) THEN q[p + 1] ELSE Junk
LEMMA DiskPut ==
  ASSUME NEW q \in Seq(Vals), NEW pos \in Nat, NEW n \in Nat, NEW k \in Nat,
         NEW y, y = Put(q, pos, Bytes(n, k), Junk)
  PROVE  DiskGives(q, pos, n, k, y)
<1>1. PICK d : d = Bytes(n, k)
  OBVIOUS
<1>2. d \in Seq(Vals) /\ Len(d) = n /\ \A i \in 1 .. n : d[i] = k
  <2>1. k \in Vals
    BY DEF Vals
  <2> QED BY <2>1, <1>1, BytesVals
<1>3. y = Put(q, pos, d, Junk)
  BY <1>1
<1>4. /\ y \in Seq(Vals) /\ Len(y) = Most2(Len(q), pos + Len(d))
      /\ \A i \in 1 .. Most2(Len(q), pos + Len(d)) :
           y[i] = IF i > pos /\ i <= pos + Len(d) THEN d[i - pos] ELSE IF i <= Len(q) THEN q[i] ELSE Junk
  <2>1. /\ Put(q, pos, d, Junk) \in Seq(Vals) /\ Len(Put(q, pos, d, Junk)) = Most2(Len(q), pos + Len(d))
        /\ \A i \in 1 .. Most2(Len(q), pos + Len(d)) :
             Put(q, pos, d, Junk)[i] = IF i > pos /\ i <= pos + Len(d) THEN d[i - pos]
                                       ELSE IF i <= Len(q) THEN q[i] ELSE Junk
    BY <1>2, PutVals
  <2> QED BY <2>1, <1>3
<1>5. ASSUME NEW p \in 0 .. Len(y) - 1
      PROVE  y[p + 1] = IF pos <= p /\ p < pos + n THEN k ELSE IF p < Len(q) THEN q[p + 1] ELSE Junk
  <2>0. Len(q) \in Nat /\ Len(y) \in Nat
    BY <1>4
  <2>1. p + 1 \in 1 .. Len(y) /\ p \in Nat
    BY <2>0
  <2>2. y[p + 1] = IF p + 1 > pos /\ p + 1 <= pos + n THEN d[(p + 1) - pos]
                   ELSE IF p + 1 <= Len(q) THEN q[p + 1] ELSE Junk
    BY <1>2, <1>4, <2>1
  <2>3. pos <= p /\ p < pos + n => (p + 1) - pos \in 1 .. n
    BY <2>1
  <2>4. (p + 1 > pos /\ p + 1 <= pos + n => pos <= p /\ p < pos + n)
        /\ (pos <= p /\ p < pos + n => p + 1 > pos /\ p + 1 <= pos + n)
    BY <2>1
  <2>5. (p + 1 <= Len(q) => p < Len(q)) /\ (p < Len(q) => p + 1 <= Len(q))
    BY <2>0, <2>1
  <2> QED BY <2>2, <2>3, <2>4, <2>5, <1>2
<1> QED BY <1>2, <1>4, <1>5 DEF DiskGives

DiskBecomes(t, q, u) ==
  /\ u \in Files /\ u.disk = q /\ u.wbuf = t.wbuf /\ u.rbuf = t.rbuf /\ u.flen = t.flen /\ u.cache = t.cache
LEMMA NewDisk ==
  ASSUME NEW t \in Files, NEW q \in Seq(Vals), NEW u, u = [t EXCEPT !.disk = q]
  PROVE  DiskBecomes(t, q, u)
BY FilesAre DEF DiskBecomes

LEMMA StandsOnDisk ==
  ASSUME NEW t, Straight(t), NEW p
  PROVE  ~Covered(t, p) /\ Stands(t, p) = IF p < Len(t.disk) THEN t.disk[p + 1] ELSE Junk
<1>1. ~Covered(t, p)
  BY DEF Covered, Straight
<1> QED BY <1>1 DEF Stands, Straight

(* The bytes of a write through are on disk and exempt no longer.          *)
PutHas(w, X, pos, n, k) ==
  /\ \A p \in X : pos <= p /\ p < pos + n
  /\ \A p \in 0 .. Len(w) - 1 : pos <= p /\ p < pos + n => w[p + 1] = k
LEMMA PutFine ==
  ASSUME Opened, NEW B \in BOOLEAN, ~B, NEW v \in BOOLEAN, NEW t \in Files,
         NEW w \in Seq(Written), NEW E, NEW X, Fine(B, t, w, E, X, v), NEW pos \in Nat, NEW n \in Nat, NEW k \in Nat, NEW y,
         y = Put(t.disk, pos, Bytes(n, k), Junk), NEW u, u = [t EXCEPT !.disk = y],
         PutHas(w, X, pos, n, k)
  PROVE  /\ u \in Files /\ Fine(B, u, w, E, {}, v) /\ u.rbuf = t.rbuf
         /\ FileLen(u) = Most2(FileLen(t), pos + n)
<1>2. DiskGives(t.disk, pos, n, k, y)
  <2>1. t.disk \in Seq(Vals)
    BY FileHas
  <2> QED BY <2>1, DiskPut
<1>3. /\ y \in Seq(Vals) /\ Len(y) = Most2(Len(t.disk), pos + n)
      /\ \A p \in 0 .. Len(y) - 1 :
           y[p + 1] = IF pos <= p /\ p < pos + n THEN k ELSE IF p < Len(t.disk) THEN t.disk[p + 1] ELSE Junk
  BY <1>2 DEF DiskGives
<1>4. DiskBecomes(t, y, u)
  BY <1>3, NewDisk
<1>5. u \in Files /\ u.disk = y /\ u.wbuf = t.wbuf /\ u.rbuf = t.rbuf /\ u.flen = t.flen /\ u.cache = t.cache
  BY <1>4 DEF DiskBecomes
<1>6. Straight(t) /\ Cov(t, w, X)
  BY DEF Fine
<1>7. Straight(u)
  BY <1>5, <1>6 DEF Straight
<1>8. FileLen(u) = Len(y) /\ FileLen(t) = Len(t.disk)
  BY <1>5, <1>6 DEF Straight, FileLen
<1>9. ASSUME NEW p \in 0 .. Len(w) - 1 PROVE Agrees(Stands(u, p), w[p + 1])
  <2>1. p \in Nat /\ Len(t.disk) \in Nat /\ Len(y) \in Nat
    <3>1. Len(w) \in Nat
      OBVIOUS
    <3>2. Len(t.disk) \in Nat
      BY FileHas
    <3> QED BY <1>3, <3>1, <3>2
  <2>2. Stands(u, p) = IF p < Len(y) THEN y[p + 1] ELSE Junk
    BY <1>5, <1>7, StandsOnDisk
  <2>3. Stands(t, p) = IF p < Len(t.disk) THEN t.disk[p + 1] ELSE Junk
    BY <1>6, StandsOnDisk
  <2>4. p < Len(y) => p \in 0 .. Len(y) - 1
    BY <2>1
  <2>5. CASE pos <= p /\ p < pos + n
    <3>1. p < Len(y)
      BY <2>1, <2>5, <1>3 DEF Most2
    <3>2. y[p + 1] = k /\ w[p + 1] = k
      BY <2>4, <2>5, <3>1, <1>3 DEF PutHas
    <3> QED BY <2>2, <3>1, <3>2 DEF Agrees
  <2>6. CASE ~(pos <= p /\ p < pos + n)
    <3>1. p \notin X
      BY <2>6 DEF PutHas
    <3>2. Agrees(Stands(t, p), w[p + 1])
      BY <3>1, <1>6 DEF Cov
    <3>3. p < Len(t.disk) => p < Len(y)
      BY <2>1, <1>3 DEF Most2
    <3>4. Stands(u, p) = Stands(t, p)
      BY <2>2, <2>3, <2>4, <2>6, <3>3, <1>3
    <3> QED BY <3>2, <3>4
  <2> QED BY <2>5, <2>6
<1>10. v => Good(u, w, E)
  BY <1>5 DEF Fine, Good, GoodBlock
<1>11. Fine(B, u, w, E, {}, v)
  BY <1>7, <1>9, <1>10 DEF Fine, Cov
<1> QED BY <1>3, <1>5, <1>8, <1>11

(* A call is one of its kinds.                                             *)
LEMMA CallKinds ==
  ASSUME NEW c \in Calls
  PROVE  /\ c.op \in {"write", "through"} =>
              c \in WriteCall /\ c.pos \in Nat /\ c.n \in Nat /\ c.n > 0 /\ c.b \in Nat
         /\ c.op = "read" =>
              /\ c \in ReadCall /\ c.pos \in Nat /\ c.n \in Nat /\ c.n > 0 /\ c.b \in Nat
              /\ c.forced \in BOOLEAN /\ c.sp \in BOOLEAN /\ c.place \in Nat \cup {-1} /\ c.last \in Nat
              /\ c.got \in Seq(Vals)
         /\ c.op = "flush" => c \in FlushCall
<1>1. CASE c = NoCall
  BY <1>1 DEF NoCall
<1>2. CASE c \in WriteCall
  BY <1>2 DEF WriteCall
<1>3. CASE c \in ReadCall
  BY <1>3 DEF ReadCall
<1>4. CASE c \in FlushCall
  BY <1>4 DEF FlushCall
<1> QED BY <1>1, <1>2, <1>3, <1>4 DEF Calls

(* What a step that ends its call has to show.                             *)
LEMMA EndsCall ==
  ASSUME IInv, call' = NoCall, mode' = mode, buffers' = buffers, held' = held,
         s' \in Files, want' \in Seq(Written), writes' \in Nat, answer' \in Answers,
         NEW v \in BOOLEAN, v = (~mode.shared \/ held),
         Fine(buffers, s', want', {}, {}, v), FileLen(s') = Len(want'), ~s'.rbuf.on, AnswerIs'
  PROVE  IInv'
<1>1. call'.op = "none" /\ NoCall \in Calls
  BY DEF NoCall, Calls
<1>2. Opened /\ TypeOK /\ Alone
  BY Facts DEF IInv
<1>3. ToDo(call') = {} /\ Open(buffers', call') = {}
  BY <1>1, NoneExempt
<1>4. TypeOK'
  BY <1>1, <1>2 DEF TypeOK
<1>5. Alone'
  BY <1>1, <1>2 DEF Alone
<1>6. TrueView' = v
  <2>1. TrueView' <=> ~mode.shared \/ held
    BY <1>1 DEF TrueView
  <2>2. TrueView' \in BOOLEAN
    BY DEF TrueView
  <2> QED BY <2>1, <2>2
<1>7. CallIs(buffers', s', want', writes', TrueView', call')
  BY <1>1 DEF CallIs
<1>8. PlacingIs(buffers', s', want', TrueView', call')
  BY <1>1 DEF PlacingIs, Placing
<1> QED BY <1>2, <1>3, <1>4, <1>5, <1>6, <1>7, <1>8, Together

LEMMA WriteThroughStep ==
  ASSUME IInv, WriteThrough
  PROVE  IInv'
<1>1. /\ call.op = "through" /\ call' = NoCall
      /\ s' = [s EXCEPT !.disk = Put(@, call.pos, Bytes(call.n, writes), Junk)]
      /\ mode' = mode /\ buffers' = buffers /\ held' = held /\ want' = want /\ writes' = writes
      /\ answer' = answer
  BY DEF WriteThrough
<1>2. /\ Opened /\ Alone /\ s \in Files /\ want \in Seq(Written) /\ writes \in Nat /\ answer \in Answers
      /\ call \in Calls /\ TrueView \in BOOLEAN
      /\ Fine(buffers, s, want, ToDo(call), Open(buffers, call), TrueView)
      /\ CallIs(buffers, s, want, writes, TrueView, call)
      /\ PlacingIs(buffers, s, want, TrueView, call)
  BY Facts
<1>3. ~buffers /\ buffers \in BOOLEAN
  BY <1>1, <1>2, Facts DEF Alone
<1>4. call.pos \in Nat /\ call.n \in Nat
  BY <1>1, <1>2, CallKinds
<1>5. ToDo(call) = {}
  BY <1>1 DEF ToDo
<1>6. PICK X : X = Open(buffers, call)
  OBVIOUS
<1>7. \A p \in X : call.pos <= p /\ p < call.pos + call.n
  BY <1>4, <1>6 DEF Open, InCall
<1>8. ThroughIs(s, want, writes, call)
  BY <1>1, <1>2 DEF CallIs
<1>9. \A p \in 0 .. Len(want) - 1 : call.pos <= p /\ p < call.pos + call.n => want[p + 1] = writes
  <2>1. \A p \in 0 .. Len(want) - 1 : p \in Nat
    BY <1>2
  <2> QED BY <2>1, <1>4, <1>8 DEF ThroughIs, InCall
<1>10. Fine(buffers, s, want, {}, X, TrueView)
  BY <1>2, <1>3, <1>5, <1>6
<1>11. /\ s' \in Files /\ Fine(buffers, s', want, {}, {}, TrueView) /\ s'.rbuf = s.rbuf
       /\ FileLen(s') = Most2(FileLen(s), call.pos + call.n)
  <2>1. PICK p \in Nat, n \in Nat : p = call.pos /\ n = call.n
    BY <1>4
  <2>4. PICK y : y = Put(s.disk, p, Bytes(n, writes), Junk)
    OBVIOUS
  <2>2. PICK u : u = [s EXCEPT !.disk = y]
    OBVIOUS
  <2>3. /\ u \in Files /\ Fine(buffers, u, want, {}, {}, TrueView) /\ u.rbuf = s.rbuf
        /\ FileLen(u) = Most2(FileLen(s), p + n)
    <3>1. PutHas(want, X, p, n, writes)
      BY <2>1, <1>7, <1>9 DEF PutHas
    <3>2. /\ Opened /\ s \in Files /\ want \in Seq(Written) /\ writes \in Nat /\ TrueView \in BOOLEAN
          /\ Fine(buffers, s, want, {}, X, TrueView) /\ ~buffers /\ buffers \in BOOLEAN
      BY <1>2, <1>3, <1>10
    <3> QED BY <3>1, <3>2, <2>2, <2>4, PutFine
  <2> QED BY <2>1, <2>2, <2>3, <2>4, <1>1
<1>12. FileLen(s') = Len(want)
  BY <1>8, <1>11 DEF ThroughIs
<1>13. ~s'.rbuf.on
  BY <1>1, <1>2, <1>11 DEF PlacingIs, Placing
<1>14. TrueView = (~mode.shared \/ held)
  <2>1. TrueView <=> ~mode.shared \/ held
    BY <1>1 DEF TrueView
  <2> QED BY <2>1, <1>2
<1>15. AnswerIs'
  <2>1. ~Quiet
    BY <1>1 DEF Quiet, NoCall
  <2> QED BY <2>1, <1>1, AnswerStays
<1> QED BY <1>1, <1>2, <1>3, <1>11, <1>12, <1>13, <1>14, <1>15, EndsCall

(* A step that leaves a read in progress keeps the invariant if the        *)
(* read's part of it holds.                                                *)
LEMMA Reads ==
  ASSUME IInv, mode' = mode, buffers' = buffers, held' = held, want' = want, writes' = writes,
         s' \in Files, NEW c \in ReadCall, call' = c, c.forced => mode.shared,
         NEW v \in BOOLEAN, v = (~mode.shared \/ held),
         Fine(buffers, s', want, {}, {}, v), FileLen(s') = Len(want),
         ReadIs(buffers, s', want, v, c), PlacingIs(buffers, s', want, v, c),
         answer' \in Answers, AnswerIs'
  PROVE  IInv'
<1>1. call'.op = "read" /\ c \in Calls /\ c.op = "read"
  BY DEF ReadCall, Calls
<1>2. Opened /\ TypeOK /\ Alone
  BY Facts DEF IInv
<1>3. ToDo(call') = {} /\ Open(buffers', call') = {}
  BY <1>1, NoneExempt
<1>4. TypeOK'
  BY <1>1, <1>2 DEF TypeOK
<1>5. Alone'
  BY <1>1, <1>2 DEF Alone
<1>6. TrueView' = v
  <2>1. TrueView' <=> ~mode.shared \/ held
    BY <1>1 DEF TrueView
  <2>2. TrueView' \in BOOLEAN
    BY DEF TrueView
  <2> QED BY <2>1, <2>2
<1>7. CallIs(buffers', s', want', writes', TrueView', call')
  BY <1>1, <1>6 DEF CallIs
<1> QED BY <1>2, <1>3, <1>4, <1>5, <1>6, <1>7, Together

(* What the invariant says of a read in progress.                          *)
LEMMA ReadFacts ==
  ASSUME IInv, call.op = "read"
  PROVE  /\ Fine(buffers, s, want, {}, {}, TrueView) /\ FileLen(s) = Len(want)
         /\ ReadIs(buffers, s, want, TrueView, call) /\ PlacingIs(buffers, s, want, TrueView, call)
         /\ TrueView = (~mode.shared \/ held) /\ ~Quiet /\ (call.forced => mode.shared)
         /\ call \in ReadCall /\ call.pos \in Nat /\ call.n \in Nat /\ call.n > 0 /\ call.b \in Nat
         /\ call.forced \in BOOLEAN /\ call.sp \in BOOLEAN /\ call.place \in Nat \cup {-1}
         /\ call.last \in Nat /\ call.got \in Seq(Vals)
<1>1. /\ Fine(buffers, s, want, ToDo(call), Open(buffers, call), TrueView)
      /\ CallIs(buffers, s, want, writes, TrueView, call) /\ Alone
      /\ PlacingIs(buffers, s, want, TrueView, call) /\ TrueView \in BOOLEAN /\ call \in Calls
  BY Facts
<1>2. ToDo(call) = {} /\ Open(buffers, call) = {}
  BY NoneExempt
<1>3. FileLen(s) = Len(want) /\ ReadIs(buffers, s, want, TrueView, call)
  BY <1>1 DEF CallIs
<1>4. TrueView = (~mode.shared \/ held)
  <2>1. TrueView <=> ~mode.shared \/ held
    BY DEF TrueView
  <2> QED BY <2>1, <1>1
<1>5. ~Quiet
  BY DEF Quiet, NoCall
<1>6. call.forced => mode.shared
  BY <1>1 DEF Alone
<1> QED BY <1>1, <1>2, <1>3, <1>4, <1>5, <1>6, CallKinds

LEMMA ReadStep ==
  ASSUME IInv, NEW pos \in Nat, NEW n \in Nat \ {0}, NEW f \in BOOLEAN, pos < Len(want), Read(pos, n, f)
  PROVE  IInv'
<1>1. PICK c : c = [op |-> "read", pos |-> pos, n |-> n, b |-> BlockOf(pos),
                    forced |-> f, sp |-> FALSE, place |-> -1, last |-> 0, got |-> <<>>]
  OBVIOUS
<1>2. /\ Quiet /\ (f => mode.shared) /\ call' = c /\ answer' = NoAnswer /\ mode' = mode /\ buffers' = buffers
      /\ held' = held /\ s' = s /\ want' = want /\ writes' = writes
  BY <1>1 DEF Read
<1>3. /\ c.op = "read" /\ c.pos = pos /\ c.n = n /\ c.b = BlockOf(pos) /\ c.forced = f
      /\ c.place = -1 /\ c.got = <<>>
  BY <1>1
<1>4. /\ BlockOf(pos) \in Nat /\ Base(BlockOf(pos)) \in Nat /\ BlockSize \in Nat
      /\ Base(BlockOf(pos)) <= pos /\ pos < Base(BlockOf(pos)) + BlockSize
  BY Facts, ByteIn
<1>5. c \in ReadCall
  <2>1. <<>> \in Seq(Vals)
    OBVIOUS
  <2> QED BY <2>1, <1>1, <1>4 DEF ReadCall
<1>6. /\ Fine(buffers, s, want, {}, {}, TrueView) /\ FileLen(s) = Len(want) /\ ~s.rbuf.on
      /\ (TrueView <=> ~mode.shared \/ held) /\ TrueView \in BOOLEAN /\ s \in Files /\ Len(want) \in Nat
  BY <1>2, QuietFacts, Facts
<1>7. ReadIs(buffers, s, want, TrueView, c)
  <2>1. Base(c.b) < c.pos + c.n /\ c.pos < Base(c.b) + BlockSize
    BY <1>3, <1>4
  <2>2. Len(c.got) = 0
    BY <1>3
  <2>3. Most2(c.pos, Base(c.b)) - c.pos = 0
    BY <1>3, <1>4 DEF Most2
  <2>4. Base(c.b) <= FileLen(s)
    BY <1>3, <1>4, <1>6
  <2>5. GotIs(want, c)
    BY <2>2 DEF GotIs
  <2> QED BY <2>1, <2>2, <2>3, <2>4, <2>5 DEF ReadIs
<1>8. PlacingIs(buffers, s, want, TrueView, c)
  BY <1>3, <1>6 DEF PlacingIs, Placing
<1>9. AnswerIs' /\ NoAnswer \in Answers
  BY <1>2, AnswerOff DEF Answers
<1>10. TrueView = (~mode.shared \/ held)
  BY <1>6
<1> QED BY <1>2, <1>3, <1>5, <1>6, <1>7, <1>8, <1>9, <1>10, Reads

(* The read buffer is nothing of what stands.                              *)
NewRead(t, r, u) ==
  /\ u \in Files /\ u.disk = t.disk /\ u.cache = t.cache /\ u.wbuf = t.wbuf /\ u.flen = t.flen /\ u.rbuf = r
LEMMA ReadBufferFine ==
  ASSUME Opened, NEW B \in BOOLEAN, NEW v \in BOOLEAN, NEW t \in Files, NEW w, NEW E, NEW X,
         Fine(B, t, w, E, X, v), NEW r \in Buffer, NEW u, u = [t EXCEPT !.rbuf = r]
  PROVE  /\ NewRead(t, r, u) /\ Fine(B, u, w, E, X, v) /\ FileLen(u) = FileLen(t)
         /\ \A p : Covered(u, p) <=> Covered(t, p)
<1>1. NewRead(t, r, u)
  BY FilesAre DEF NewRead
<1>2. u.disk = t.disk /\ u.cache = t.cache /\ u.wbuf = t.wbuf /\ u.flen = t.flen
  BY <1>1 DEF NewRead
<1>3. WEnd(u) = WEnd(t) /\ FileLen(u) = FileLen(t)
  BY <1>2 DEF WEnd, FileLen
<1>4. \A p : (Covered(u, p) <=> Covered(t, p)) /\ Stands(u, p) = Stands(t, p)
  BY <1>2, <1>3 DEF Covered, Stands
<1>5. Cov(u, w, X) /\ (B => Gap(u, w, E) /\ LensIn(u))
  BY <1>2, <1>3, <1>4 DEF Fine, Cov, Gap, LensIn
<1>6. (~B => Straight(u)) /\ (v => Good(u, w, E))
  BY <1>2 DEF Fine, Straight, Good, GoodBlock
<1> QED BY <1>1, <1>3, <1>4, <1>5, <1>6 DEF Fine

BufferOf(at, d, r) == r \in Buffer /\ r.on /\ r.start = at /\ r.data = d
LEMMA ReadBufferOn ==
  ASSUME NEW at \in Nat, NEW d \in Seq(Vals), NEW r, r = [NoBuffer EXCEPT !.on = TRUE, !.start = at, !.data = d]
  PROVE  BufferOf(at, d, r)
BY DEF NoBuffer, Buffer, BufferOf

LEMMA FillStep ==
  ASSUME IInv, FillReadBuffer
  PROVE  IInv'
<1>1. call.op = "read" /\ call.place < 0 /\ WantsMany(call)
  BY DEF FillReadBuffer, Reading
<1>2. /\ Opened /\ s \in Files /\ want \in Seq(Written) /\ Len(want) \in Nat /\ buffers \in BOOLEAN
      /\ TrueView \in BOOLEAN /\ answer \in Answers
  BY Facts
<1>3. PICK c : c = call
  OBVIOUS
<1>4. /\ Fine(buffers, s, want, {}, {}, TrueView) /\ FileLen(s) = Len(want)
      /\ ReadIs(buffers, s, want, TrueView, c) /\ PlacingIs(buffers, s, want, TrueView, c)
      /\ TrueView = (~mode.shared \/ held) /\ ~Quiet /\ (c.forced => mode.shared)
      /\ c \in ReadCall /\ c.pos \in Nat /\ c.n \in Nat /\ c.n > 0 /\ c.b \in Nat /\ c.last \in Nat
      /\ c.op = "read" /\ c.place < 0
  BY <1>1, <1>3, ReadFacts
<1>5. PICK at \in Nat : at = Base(c.b)
  BY <1>2, <1>4, Bases
<1>6. PICK k : k = Least2(MaxBlocks, 1 + BlockOf(Rest(c)))
  OBVIOUS
<1>7. k \in Nat /\ k <= MaxBlocks /\ MaxBlocks \in Nat
  <2>1. Rest(c) > BlockSize /\ BlockSize \in Nat
    BY <1>1, <1>2, <1>3 DEF WantsMany, Opened
  <2>2. Rest(c) \in Nat
    BY ONLY <2>1, <1>4, <1>5 DEF Rest
  <2>3. BlockOf(Rest(c)) \in Nat
    BY <2>2, <1>2, ByteIn
  <2>4. MaxBlocks \in Nat
    BY <1>2 DEF Opened
  <2> QED BY <2>3, <2>4, <1>6 DEF Least2
<1>8. PICK m \in Nat : m = Base(k)
  BY <1>2, <1>7, Bases
<1>9. PICK r : r = ReadFile(s, at, m)
  OBVIOUS
<1>10. PICK f, g : f = r.at /\ g = r.got
  OBVIOUS
<1>11. Fine(buffers, r.at, want, {}, {}, TrueView) /\ ReadGives(s, at, m, r) /\ ReadBytes(s, at, m, r)
  BY <1>2, <1>4, <1>9, ReadFileFine
<1>12. /\ f \in Files /\ f.cache = s.cache /\ f.flen = s.flen /\ f.rbuf = s.rbuf
       /\ FileLen(f) = FileLen(s) /\ g \in Seq(Vals) /\ Len(g) \in Nat /\ Len(g) <= m
       /\ s.flen = Unknown => Len(f.disk) = Len(s.disk)
       /\ buffers /\ at <= FileLen(s) => at + Len(g) <= FileLen(s)
       /\ buffers /\ s.flen = Unknown => Len(g) = m \/ at + Len(g) >= Len(s.disk)
       /\ Fine(buffers, f, want, {}, {}, TrueView)
  BY <1>10, <1>11 DEF ReadGives
<1>13. /\ mode' = mode /\ buffers' = buffers /\ held' = held /\ want' = want /\ writes' = writes
       /\ answer' = answer
  BY DEF FillReadBuffer
<1>14. IF g = <<>> THEN s' = f /\ call' = [c EXCEPT !.sp = TRUE]
       ELSE /\ s' = [f EXCEPT !.rbuf = [NoBuffer EXCEPT !.on = TRUE, !.start = at, !.data = g]]
            /\ call' = [c EXCEPT !.sp = TRUE, !.place = BlockOf(Len(g) - 1), !.last = Len(g)]
  BY <1>3, <1>5, <1>6, <1>8, <1>9, <1>10 DEF FillReadBuffer
<1>15. AnswerIs'
  BY <1>4, <1>13, AnswerStays
<1>16. CASE g = <<>>
  <2>1. PICK e : e = [c EXCEPT !.sp = TRUE]
    OBVIOUS
  <2>2. /\ e \in ReadCall /\ e.pos = c.pos /\ e.n = c.n /\ e.b = c.b /\ e.forced = c.forced
        /\ e.place = c.place /\ e.got = c.got
    BY <2>1, <1>4 DEF ReadCall
  <2>3. s' = f /\ call' = e
    BY <1>14, <1>16, <2>1
  <2>4. ReadIs(buffers, f, want, TrueView, e)
    BY <2>2, <1>4, <1>12 DEF ReadIs, GotIs
  <2>5. PlacingIs(buffers, f, want, TrueView, e)
    <3>1. ~(c.place >= 0)
      BY <1>4 DEF ReadCall
    <3> QED BY <3>1, <2>2, <1>4, <1>12 DEF PlacingIs, Placing
  <2> QED BY <2>2, <2>3, <2>4, <2>5, <1>2, <1>4, <1>12, <1>13, <1>15, Reads
<1>17. CASE g # <<>>
  <2>1. PICK n \in Nat : n = Len(g) - 1 /\ Len(g) = n + 1
    BY <1>12, <1>17
  <2>2. PICK j \in Nat : j = BlockOf(n)
    BY <2>1, <1>2, ByteIn
  <2>3. Base(j) \in Nat /\ Base(j) <= n /\ n < Base(j) + BlockSize /\ BlockSize \in Nat /\ BlockSize > 0
    BY <2>1, <2>2, <1>2, ByteIn
  <2>4. PICK b : b = [NoBuffer EXCEPT !.on = TRUE, !.start = at, !.data = g]
    OBVIOUS
  <2>5. b \in Buffer /\ b.on /\ b.start = at /\ b.data = g
    <3>1. at \in Nat /\ g \in Seq(Vals)
      BY <1>12
    <3>2. BufferOf(at, g, b)
      BY ONLY <3>1, <2>4, ReadBufferOn
    <3> QED BY <3>2 DEF BufferOf
  <2>6. PICK u : u = [f EXCEPT !.rbuf = b]
    OBVIOUS
  <2>7. PICK e : e = [c EXCEPT !.sp = TRUE, !.place = j, !.last = Len(g)]
    OBVIOUS
  <2>8. /\ e \in ReadCall /\ e.pos = c.pos /\ e.n = c.n /\ e.b = c.b /\ e.forced = c.forced
        /\ e.place = j /\ e.last = Len(g) /\ e.got = c.got /\ e.op = "read"
    BY <2>7, <1>4, <1>12 DEF ReadCall
  <2>9. s' = u /\ call' = e
    BY <1>14, <1>17, <2>1, <2>2, <2>4, <2>6, <2>7
  <2>10. /\ NewRead(f, b, u) /\ Fine(buffers, u, want, {}, {}, TrueView) /\ FileLen(u) = FileLen(f)
         /\ \A p : Covered(u, p) <=> Covered(f, p)
    BY <2>5, <2>6, <1>2, <1>12, ReadBufferFine
  <2>11. u \in Files /\ u.rbuf = b /\ u.disk = f.disk /\ u.flen = f.flen
    BY <2>10 DEF NewRead
  <2>12. ReadIs(buffers, u, want, TrueView, e)
    BY <2>8, <2>10, <1>4, <1>12 DEF ReadIs, GotIs
  <2>13. j < MaxBlocks /\ Base(j) + BlockSize <= m
    <3>1. ~(k <= j)
      <4>1. k < j => Base(k) + BlockSize <= Base(j)
        BY <2>2, <1>2, <1>7, Bases
      <4> QED BY <4>1, <2>1, <2>2, <2>3, <1>7, <1>8, <1>12
    <3>2. Base(j) + BlockSize <= Base(k)
      BY <3>1, <2>2, <1>2, <1>7, Bases
    <3> QED BY <3>1, <3>2, <2>2, <1>7, <1>8
  <2>14. PlaceLens(buffers, u, e)
    <3>1. SUFFICES ASSUME buffers
                   PROVE  /\ at + Len(g) <= FileLen(u)
                          /\ u.flen = Unknown => Base(j) + BlockSize <= Len(g) \/ at + Len(g) >= Len(u.disk)
      BY <2>8, <1>5 DEF PlaceLens
    <3>2. at <= FileLen(s)
      BY <3>1, <1>4, <1>5 DEF ReadIs
    <3>3. at + Len(g) <= FileLen(u)
      BY <3>1, <3>2, <2>10, <1>12
    <3>4. ASSUME u.flen = Unknown PROVE Base(j) + BlockSize <= Len(g) \/ at + Len(g) >= Len(u.disk)
      <4>1. s.flen = Unknown /\ Len(u.disk) = Len(s.disk)
        BY <3>4, <2>11, <1>12
      <4>2. Len(g) = m \/ at + Len(g) >= Len(s.disk)
        BY <3>1, <4>1, <1>12
      <4> QED BY <4>1, <4>2, <2>13
    <3> QED BY <3>3, <3>4
  <2>15. PlaceIs(buffers, u, e)
    <3>1. Base(j) < Len(g) /\ Len(g) <= Len(b.data)
      BY <2>1, <2>3, <2>5, <1>12
    <3> QED BY <3>1, <2>5, <2>8, <2>11, <2>13, <2>14, <1>5 DEF PlaceIs
  <2>16. PlaceGood(u, want, e)
    <3>1. SUFFICES ASSUME NEW p \in 0 .. Len(want) - 1, p >= at, p < Base(c.b + j) + BlockSize, ~Covered(u, p)
                   PROVE  IF p - at < Len(g) THEN Agrees(g[p - at + 1], want[p + 1]) ELSE want[p + 1] = AnyByte
      BY <2>5, <2>8, <2>11, <1>5 DEF PlaceGood
    <3>2. p \in Nat /\ p + 1 \in 1 .. Len(want)
      BY <1>2
    <3>3. Base(c.b + j) = at + Base(j)
      BY <2>2, <1>2, <1>4, <1>5, Bases
    <3>4. p < at + m
      BY <3>1, <3>2, <3>3, <2>3, <2>13
    <3>5. ~Covered(s, p)
      <4>1. ~Covered(f, p)
        BY <3>1, <2>10
      <4> QED BY <4>1, <1>12 DEF Covered
    <3>6. IF p - at < Len(g) THEN g[p - at + 1] = Stands(s, p)
          ELSE Stands(s, p) = Junk \/ (buffers /\ p >= FileLen(s))
      BY <3>1, <3>2, <3>4, <3>5, <1>10, <1>11 DEF ReadBytes
    <3>7. Agrees(Stands(s, p), want[p + 1])
      BY <1>4 DEF Fine, Cov
    <3>8. want[p + 1] \in Written
      BY <3>2, <1>2
    <3>9. Stands(s, p) = Junk => want[p + 1] = AnyByte
      BY <3>7, <3>8, <1>2 DEF Agrees, Written, Opened
    <3>10. ~(p >= FileLen(s))
      BY <3>2, <1>2, <1>4
    <3> QED BY <3>6, <3>7, <3>9, <3>10
  <2>17. PlacingIs(buffers, u, want, TrueView, e)
    <3>1. Placing(e)
      BY <2>2, <2>8 DEF Placing
    <3> QED BY <3>1, <2>15, <2>16 DEF PlacingIs
  <2> QED BY <2>8, <2>9, <2>10, <2>11, <2>12, <2>17, <1>2, <1>4, <1>12, <1>13, <1>15, Reads
<1> QED BY <1>16, <1>17

(* A changed block that is evicted while the read buffer is placed goes to *)
(* the read buffer too, so that what is left of it stays true.             *)
Kept(t, w, c, u) ==
  /\ PlaceGood(u, w, c) /\ u.rbuf.on = t.rbuf.on /\ u.rbuf.start = t.rbuf.start
  /\ Len(u.rbuf.data) >= Len(t.rbuf.data)
LEMMA FlushPlaces ==
  ASSUME Opened, NEW t \in Files, NEW x \in DOMAIN t.cache, t.cache[x].changed,
         NEW w \in Seq(Written), Cov(t, w, {}), NEW c \in ReadCall, c.place \in Nat,
         NEW B, PlaceIs(B, t, c), PlaceGood(t, w, c), (c.b + c.place) \notin DOMAIN t.cache,
         NEW y, y = BlockFlush(t, x)
  PROVE  Kept(t, w, c, y)
<1>1. BlockFlushGives(t, x, y)
  BY BlockFlushed
<1>2. /\ y \in Files /\ DOMAIN y.cache = DOMAIN t.cache
      /\ \A z \in DOMAIN t.cache : z # x => y.cache[z] = t.cache[z]
      /\ ~y.cache[x].changed /\ y.rbuf.on = t.rbuf.on /\ y.rbuf.start = t.rbuf.start
  BY <1>1 DEF BlockFlushGives
<1>3. PICK d : d = SubSeq(t.cache[x].data, 1, t.cache[x].len)
  OBVIOUS
<1>4. PICK n \in Nat : n = t.cache[x].len
  BY BlockHas
<1>5. d \in Seq(Vals) /\ Len(d) = n /\ \A i \in 1 .. n : d[i] = t.cache[x].data[i]
  BY <1>3, <1>4, DataOf
<1>6. PICK q, r : q = t.rbuf.data /\ r = y.rbuf.data
  OBVIOUS
<1>7. q \in Seq(Vals) /\ r \in Seq(Vals) /\ Len(q) \in Nat /\ Len(r) \in Nat
  BY <1>2, <1>6, FileHas
<1>8. c.b \in Nat /\ c.last \in Nat /\ x \in Nat /\ MaxBlocks \in Nat
  BY BlockHas DEF ReadCall, Opened
<1>9. PICK st \in Nat, at \in Nat : st = Base(c.b) /\ at = Base(x)
  BY <1>8, Bases
<1>10. t.rbuf.on /\ t.rbuf.start = st /\ Base(c.place) < c.last /\ c.last <= Len(q) /\ c.place < MaxBlocks
  BY <1>6, <1>9 DEF PlaceIs
<1>11. r = IF at >= st /\ at < st + Base(MaxBlocks) THEN Put(q, at - st, d, Junk) ELSE q
  BY <1>1, <1>3, <1>6, <1>9, <1>10 DEF BlockFlushGives
<1>12. n <= BlockSize /\ BlockSize \in Nat /\ BlockSize > 0
  BY <1>4, BlockHas
<1>13. ASSUME at >= st, at < st + Base(MaxBlocks), NEW o \in Nat, o = at - st
       PROVE  /\ Len(r) >= Len(q)
              /\ \A i \in 1 .. Len(q) : r[i] = IF i > o /\ i <= o + n THEN d[i - o] ELSE q[i]
  <2>1. r = Put(q, o, d, Junk)
    BY <1>11, <1>13
  <2>2. /\ Len(Put(q, o, d, Junk)) = Most2(Len(q), o + Len(d))
        /\ \A i \in 1 .. Most2(Len(q), o + Len(d)) :
              Put(q, o, d, Junk)[i] = IF i > o /\ i <= o + Len(d) THEN d[i - o]
                                       ELSE IF i <= Len(q) THEN q[i] ELSE Junk
    <3>1. q \in Seq(Vals) /\ d \in Seq(Vals) /\ o \in Nat
      BY <1>5, <1>7, <1>13
    <3> QED BY ONLY <3>1, PutVals
  <2>3. Most2(Len(q), o + n) \in Nat /\ Most2(Len(q), o + n) >= Len(q)
    BY <1>7 DEF Most2
  <2>4. Len(r) >= Len(q)
    BY <2>1, <2>2, <2>3, <1>5
  <2>5. ASSUME NEW i \in 1 .. Len(q) PROVE r[i] = IF i > o /\ i <= o + n THEN d[i - o] ELSE q[i]
    <3>1. i \in 1 .. Most2(Len(q), o + n)
      BY <2>3, <1>7
    <3> QED BY <3>1, <2>1, <2>2, <1>5
  <2> QED BY <2>4, <2>5
<1>14. ~(at >= st /\ at < st + Base(MaxBlocks)) => r = q
  BY <1>11
<1>15. Len(r) >= Len(q)
  <2>1. CASE at >= st /\ at < st + Base(MaxBlocks)
    <3>1. at - st \in Nat
      BY <2>1
    <3> QED BY <3>1, <2>1, <1>13
  <2>2. CASE ~(at >= st /\ at < st + Base(MaxBlocks))
    BY <2>2, <1>7, <1>14
  <2> QED BY <2>1, <2>2
<1>16. PlaceGood(y, w, c)
  <2>1. SUFFICES ASSUME NEW p \in 0 .. Len(w) - 1, p >= st, p < Base(c.b + c.place) + BlockSize,
                        ~Covered(y, p)
                 PROVE  IF p - st < c.last THEN Agrees(r[p - st + 1], w[p + 1]) ELSE w[p + 1] = AnyByte
    BY <1>6, <1>9 DEF PlaceGood
  <2>2. p \in Nat /\ p + 1 \in 1 .. Len(w)
    OBVIOUS
  <2>3. Base(c.b + c.place) = st + Base(c.place) /\ Base(c.place) \in Nat /\ Base(MaxBlocks) \in Nat
    BY <1>8, <1>9, Bases
  <2>4. /\ BlockOf(p) \in Nat /\ Base(BlockOf(p)) \in Nat
        /\ Base(BlockOf(p)) <= p /\ p < Base(BlockOf(p)) + BlockSize
    BY <2>2, ByteIn
  <2>5. ASSUME ~Covered(t, p)
        PROVE  IF p - st < c.last THEN Agrees(q[p - st + 1], w[p + 1]) ELSE w[p + 1] = AnyByte
    BY <2>1, <2>5, <1>6, <1>9 DEF PlaceGood
  <2>6. CASE BlockOf(p) = x
    <3>1. at <= p /\ p < at + BlockSize
      BY <2>4, <2>6, <1>9
    <3>2. x # c.b + c.place
      OBVIOUS
    <3>3. ~(x < c.b)
      <4>1. x < c.b => at + BlockSize <= st
        BY <1>8, <1>9, Bases
      <4> QED BY <4>1, <3>1, <2>1, <1>12
    <3>4. ~(c.b + c.place < x)
      <4>1. c.b + c.place \in Nat
        BY <1>8
      <4>2. c.b + c.place < x => Base(c.b + c.place) + BlockSize <= at
        BY <4>1, <1>8, <1>9, Bases
      <4> QED BY <4>2, <3>1, <2>1, <2>3, <1>12
    <3>5. c.b <= x /\ x < c.b + c.place /\ x < c.b + MaxBlocks
      <4>1. PICK k \in Nat, j \in Nat : k = c.b /\ j = c.place /\ j < MaxBlocks
        BY ONLY <1>8, <1>10, c.place \in Nat
      <4>2. k <= x /\ x < k + j /\ x < k + MaxBlocks
        BY ONLY <4>1, <3>2, <3>3, <3>4, <1>8, k \in Nat, j \in Nat, SMTT(60)
      <4> QED BY ONLY <4>1, <4>2
    <3>6. at + BlockSize <= st + Base(c.place)
      <4>1. c.b + c.place \in Nat
        BY <1>8
      <4>2. at + BlockSize <= Base(c.b + c.place)
        BY <4>1, <3>5, <1>8, <1>9, Bases
      <4> QED BY <4>2, <2>3
    <3>7. st <= at
      <4>1. c.b = x \/ c.b < x
        BY <3>5, <1>8
      <4>2. c.b < x => st + BlockSize <= at
        BY <1>8, <1>9, Bases
      <4> QED BY <4>1, <4>2, <1>9, <1>12
    <3>8. at < st + Base(MaxBlocks)
      <4>1. Base(c.place) + BlockSize <= Base(MaxBlocks)
        BY <1>8, <1>10, Bases
      <4> QED BY <4>1, <3>6, <2>3, <1>12
    <3>9. PICK o \in Nat : o = at - st
      BY <3>7
    <3>10. p - st < c.last /\ p - st + 1 \in 1 .. Len(q)
      <4>1. PICK e \in Nat : e = Base(c.place)
        BY <2>3
      <4>2. p < st + e /\ e < c.last
        BY <4>1, <3>1, <3>6, <2>2, <1>10, <1>12
      <4>3. PICK f \in Nat : f = c.last /\ f <= Len(q)
        BY ONLY <1>8, <1>10
      <4>4. p - st \in Nat /\ p - st < f
        BY ONLY <4>2, <4>3, <2>1, p \in Nat, st \in Nat, e \in Nat, f \in Nat
      <4>5. p - st + 1 \in 1 .. Len(q)
        BY ONLY <4>3, <4>4, <1>7, f \in Nat
      <4> QED BY ONLY <4>3, <4>4, <4>5
    <3>11. r[p - st + 1] = IF p - st + 1 > o /\ p - st + 1 <= o + n THEN d[(p - st + 1) - o] ELSE q[p - st + 1]
      BY <3>7, <3>8, <3>9, <3>10, <1>13
    <3>12. p - st + 1 > o /\ (p - st + 1) - o = p - at + 1
      BY <3>1, <3>9, <3>10, <1>12, SMTT(60)
    <3>13. CASE p - at < n
      <4>1. p - st + 1 <= o + n
        BY <3>13, <3>9, <2>2
      <4>2. r[p - st + 1] = d[p - at + 1]
        BY <4>1, <3>11, <3>12
      <4>3. p - at + 1 \in 1 .. n
        BY <3>13, <3>1, <2>2
      <4>4. Covered(t, p) /\ Stands(t, p) = t.cache[x].data[p - at + 1]
        BY <3>13, <2>6, <1>4, <1>9 DEF Covered, Stands
      <4>5. Agrees(Stands(t, p), w[p + 1])
        BY DEF Cov
      <4> QED BY <4>2, <4>3, <4>4, <4>5, <3>10, <1>5
    <3>14. CASE ~(p - at < n)
      <4>1. ~(p - st + 1 <= o + n)
        BY <3>14, <3>9, <2>2
      <4>2. ~Covered(t, p)
        BY <3>14, <2>6, <1>4, <1>9 DEF Covered
      <4> QED BY <4>1, <4>2, <3>10, <3>11, <2>5
    <3> QED BY <3>13, <3>14
  <2>7. CASE BlockOf(p) # x
    <3>1. ~Covered(t, p)
      BY <2>1, <2>7, <1>2 DEF Covered
    <3>2. ~(at <= p /\ p < at + BlockSize)
      <4>1. at <= p /\ p < at + BlockSize => BlockOf(p) = x
        BY <2>2, <1>8, <1>9, Bytewise
      <4> QED BY <4>1, <2>7
    <3>3. ASSUME p - st < c.last PROVE r[p - st + 1] = q[p - st + 1]
      <4>1. p - st + 1 \in 1 .. Len(q)
        BY <3>3, <2>1, <1>7, <1>8, <1>10
      <4>2. CASE at >= st /\ at < st + Base(MaxBlocks)
        <5>1. PICK o \in Nat : o = at - st
          BY <4>2
        <5>2. ~(p - st + 1 > o /\ p - st + 1 <= o + n)
          BY <5>1, <4>1, <3>2, <2>2, <1>12
        <5> QED BY <5>1, <5>2, <4>1, <4>2, <1>13
      <4>3. CASE ~(at >= st /\ at < st + Base(MaxBlocks))
        BY <4>3, <1>14
      <4> QED BY <4>2, <4>3
    <3> QED BY <3>1, <3>3, <2>5
  <2> QED BY <2>6, <2>7
<1> QED BY <1>2, <1>6, <1>15, <1>16 DEF Kept

(* A block given away while the read buffer is placed leaves the rest of   *)
(* it to place.                                                            *)
LEMMA PlacesKept ==
  ASSUME Opened, NEW B \in BOOLEAN, NEW v \in BOOLEAN, NEW t \in Files, NEW w \in Seq(Written),
         Fine(B, t, w, {}, {}, v), B => v, NEW c \in ReadCall, c.place \in Nat, PlaceIs(B, t, c),
         v => PlaceGood(t, w, c), (c.b + c.place) \notin DOMAIN t.cache, NEW u \in GetBlock(t)
  PROVE  PlaceIs(B, u, c) /\ (v => PlaceGood(u, w, c))
<1>1. GetGives(t, u)
  BY GetBlockFine
<1>2. /\ u \in Files /\ u.flen = t.flen /\ FileLen(u) = FileLen(t) /\ u.rbuf.on = t.rbuf.on
      /\ t.flen = Unknown => Len(u.disk) = Len(t.disk)
  BY <1>1 DEF GetGives
<1>3. /\ u.rbuf.start = t.rbuf.start /\ Len(u.rbuf.data) >= Len(t.rbuf.data)
      /\ v => PlaceGood(u, w, c)
  <2>1. CASE u = t
    BY <2>1, FileHas
  <2>2. CASE \E x \in DOMAIN t.cache : ~t.cache[x].changed /\ u = Drop(t, {x})
    <3>1. PICK x \in DOMAIN t.cache : ~t.cache[x].changed /\ u = Drop(t, {x})
      BY <2>2
    <3>2. PICK X : X = {x}
      OBVIOUS
    <3>3. u = Drop(t, X) /\ \A z \in DOMAIN t.cache : z \in X => ~t.cache[z].changed
      BY <3>1, <3>2
    <3>4. DropGives(t, X, u)
      BY <3>3, DropFields
    <3>5. \A p : Covered(u, p) <=> Covered(t, p)
      BY <3>3, DropFine
    <3>6. u.rbuf = t.rbuf
      BY <3>4 DEF DropGives
    <3>7. PlaceGood(t, w, c) => PlaceGood(u, w, c)
      BY <3>5, <3>6 DEF PlaceGood
    <3> QED BY <3>6, <3>7, FileHas
  <2>3. CASE \E x \in DOMAIN t.cache : t.cache[x].changed /\ u = Drop(BlockFlush(t, x), {x})
    <3>1. PICK x \in DOMAIN t.cache : t.cache[x].changed /\ u = Drop(BlockFlush(t, x), {x})
      BY <2>3
    <3>2. PICK y, X : y = BlockFlush(t, x) /\ X = {x}
      OBVIOUS
    <3>3. B /\ v
      BY <3>1 DEF Fine, Straight
    <3>4. Cov(t, w, {}) /\ Fine(TRUE, t, w, {}, {}, TRUE)
      BY <3>3 DEF Fine
    <3>5. Kept(t, w, c, y)
      BY <3>1, <3>2, <3>3, <3>4, FlushPlaces
    <3>6. BlockFlushGives(t, x, y)
      BY <3>1, <3>2, BlockFlushed
    <3>7. y \in Files /\ ~y.cache[x].changed /\ DOMAIN y.cache = DOMAIN t.cache
      BY <3>6 DEF BlockFlushGives
    <3>8. Fine(TRUE, y, w, {}, {}, TRUE)
      BY <3>1, <3>2, <3>4, BlockFlushFine
    <3>9. u = Drop(y, X) /\ \A z \in DOMAIN y.cache : z \in X => ~y.cache[z].changed
      BY <3>1, <3>2, <3>7
    <3>10. DropGives(y, X, u)
      BY <3>7, <3>9, DropFields
    <3>11. Fine(B, y, w, {}, {}, v)
      BY <3>3, <3>8 DEF Fine
    <3>12. \A p : Covered(u, p) <=> Covered(y, p)
      BY <3>7, <3>9, <3>11, DropFine
    <3>13. u.rbuf = y.rbuf
      BY <3>10 DEF DropGives
    <3>14. PlaceGood(y, w, c) => PlaceGood(u, w, c)
      BY <3>12, <3>13 DEF PlaceGood
    <3> QED BY <3>5, <3>13, <3>14 DEF Kept
  <2> QED BY <2>1, <2>2, <2>3 DEF GetBlock, Spare
<1>4. PlaceLens(B, u, c)
  BY <1>2 DEF PlaceIs, PlaceLens
<1>5. Len(u.rbuf.data) \in Nat /\ Len(t.rbuf.data) \in Nat /\ c.last \in Nat
  BY <1>2, FileHas DEF ReadCall
<1>6. c.last <= Len(u.rbuf.data)
  BY <1>3, <1>5 DEF PlaceIs
<1> QED BY <1>2, <1>3, <1>4, <1>6 DEF PlaceIs

(* A block placed from the read buffer is what stands.                     *)
PlacedOn(B, v, t, w, c, u) ==
  /\ u \in Files /\ Fine(B, u, w, {}, {}, v) /\ FileLen(u) = FileLen(t)
  /\ PlaceIs(B, u, c) /\ (v => PlaceGood(u, w, c))
LEMMA PlacedFine ==
  ASSUME Opened, NEW B \in BOOLEAN, NEW v \in BOOLEAN, NEW t \in Files, NEW w \in Seq(Written),
         Fine(B, t, w, {}, {}, v), NEW c \in ReadCall, c.place \in Nat, PlaceIs(B, t, c),
         v => PlaceGood(t, w, c), NEW b \in Nat, b = c.b + c.place, b \notin DOMAIN t.cache,
         NEW off \in Nat, off = Base(c.place), NEW m, m = Least2(BlockSize, c.last - off),
         NEW d, d = From(t.rbuf.data, off, m), NEW u, u = Add(t, b, d)
  PROVE  PlacedOn(B, v, t, w, c, u)
<1>1. c.b \in Nat /\ c.last \in Nat /\ BlockSize \in Nat /\ BlockSize > 0
  BY DEF ReadCall, Opened
<1>2. PICK st \in Nat, at \in Nat : st = Base(c.b) /\ at = Base(b)
  BY <1>1, Bases
<1>3. at = st + off
  BY <1>1, <1>2, Bases
<1>4. PICK q : q = t.rbuf.data
  OBVIOUS
<1>5. q \in Seq(Vals) /\ Len(q) \in Nat
  BY <1>4, FileHas
<1>6. /\ t.rbuf.on /\ t.rbuf.start = st /\ off < c.last /\ c.last <= Len(q) /\ c.place < MaxBlocks
      /\ PlaceLens(B, t, c)
  BY <1>2, <1>4 DEF PlaceIs
<1>7. m \in Nat /\ m <= BlockSize /\ off + m <= c.last /\ (m = BlockSize \/ off + m = c.last)
  BY <1>1, <1>6, SMTT(60) DEF Least2
<1>8. /\ d \in Seq(Vals) /\ Len(d) = m /\ \A i \in 1 .. m : d[i] = q[off + i]
  <2>1. /\ From(q, off, m) \in Seq(Vals)
        /\ Len(From(q, off, m)) = IF off >= Len(q) THEN 0 ELSE Least2(m, Len(q) - off)
        /\ \A i \in 1 .. Len(From(q, off, m)) : From(q, off, m)[i] = q[off + i]
    <3>1. q \in Seq(Vals) /\ off \in Nat /\ m \in Nat
      BY <1>5, <1>7
    <3> QED BY ONLY <3>1, FromVals
  <2>2. Least2(m, Len(q) - off) = m /\ ~(off >= Len(q))
    <3>1. m <= Len(q) - off /\ ~(off >= Len(q))
      BY ONLY <1>1, <1>5, <1>6, <1>7, off \in Nat
    <3> QED BY ONLY <3>1, <1>5, <1>7 DEF Least2
  <2> QED BY <2>1, <2>2, <1>4
<1>9. v => NewGood(b, d, w, {})
  <2>1. SUFFICES ASSUME v, NEW p \in 0 .. Len(w) - 1, at <= p, p < at + BlockSize
                 PROVE  IF p - at < m THEN Agrees(d[p - at + 1], w[p + 1]) ELSE w[p + 1] = AnyByte
    BY <1>2, <1>8 DEF NewGood
  <2>2. p \in Nat
    OBVIOUS
  <2>3. BlockOf(p) = b
    BY <2>1, <2>2, <1>2, Bytewise
  <2>4. ~Covered(t, p)
    BY <2>3 DEF Covered
  <2>5. p >= st /\ p < Base(c.b + c.place) + BlockSize
    BY <2>1, <2>2, <1>2, <1>3
  <2>6. IF p - st < c.last THEN Agrees(q[p - st + 1], w[p + 1]) ELSE w[p + 1] = AnyByte
    BY <2>1, <2>4, <2>5, <1>2, <1>4 DEF PlaceGood
  <2>7. CASE p - at < m
    <3>1. p - st < c.last /\ p - at + 1 \in 1 .. m /\ off + (p - at + 1) = p - st + 1
      <4>1. p - st = off + (p - at)
        BY <2>2, <1>3
      <4>2. p - at \in Nat /\ off + (p - at) < off + m
        BY <2>1, <2>2, <2>7, <1>7
      <4>3. p - st < c.last
        <5>1. PICK e \in Nat, x \in Nat, k \in Nat : e = c.last /\ x = p - at /\ k = m
          BY ONLY <1>1, <1>7, <4>2
        <5>2. p - st = off + x /\ off + x < off + k /\ off + k <= e
          BY ONLY <5>1, <4>1, <4>2, <1>7
        <5>3. p - st < e
          BY ONLY <5>2, e \in Nat, x \in Nat, k \in Nat, off \in Nat
        <5> QED BY ONLY <5>1, <5>3
      <4>4. p - at + 1 \in 1 .. m
        BY ONLY <4>2, <2>7, <1>7
      <4>5. off + (p - at + 1) = p - st + 1
        BY ONLY <4>1, <2>2, <1>2, off \in Nat
      <4> QED BY ONLY <4>3, <4>4, <4>5
    <3>2. d[p - at + 1] = q[p - st + 1]
      BY <3>1, <1>8
    <3> QED BY <3>1, <3>2, <2>6, <2>7
  <2>8. CASE ~(p - at < m)
    <3>1. ~(p - st < c.last)
      <4>1. PICK e \in Nat, k \in Nat : e = c.last /\ k = m
        BY ONLY <1>1, <1>7
      <4>2. p - at >= k /\ p < at + BlockSize /\ (k = BlockSize \/ off + k = e)
        BY ONLY <4>1, <2>1, <2>8, <1>7, <2>2, <1>2
      <4>3. off + k = e
        BY ONLY <4>2, <1>1, p \in Nat, at \in Nat, k \in Nat
      <4>4. p >= st + e
        BY ONLY <4>2, <4>3, <1>3, p \in Nat, at \in Nat, st \in Nat, off \in Nat, k \in Nat, e \in Nat
      <4>5. ~(p - st < e)
        BY ONLY <4>4, p \in Nat, st \in Nat, e \in Nat
      <4> QED BY ONLY <4>1, <4>5
    <3> QED BY <3>1, <2>6, <2>8
  <2> QED BY <2>7, <2>8
<1>10. B => NewLens(t, b, m)
  <2>1. SUFFICES ASSUME B PROVE NewLens(t, b, m)
    OBVIOUS
  <2>2. /\ st + c.last <= FileLen(t)
        /\ t.flen = Unknown => off + BlockSize <= c.last \/ st + c.last >= Len(t.disk)
    <3>1. PlaceLens(B, t, c)
      BY <1>6
    <3> QED BY ONLY <3>1, <2>1, <1>2, off = Base(c.place) DEF PlaceLens
  <2>3. FileLen(t) \in Nat /\ Len(t.disk) \in Nat
    BY FileHas
  <2>4. at + m <= FileLen(t)
    <3>1. PICK e \in Nat, f \in Nat, k \in Nat : e = c.last /\ f = FileLen(t) /\ k = m
      BY ONLY <1>1, <1>7, <2>3
    <3>2. st + e <= f /\ off + k <= e
      BY ONLY <3>1, <2>2, <1>7
    <3>3. at + k <= f
      BY ONLY <3>2, <1>3, e \in Nat, f \in Nat, k \in Nat, st \in Nat, off \in Nat
    <3> QED BY ONLY <3>1, <3>3
  <2>5. ASSUME t.flen = Unknown
        PROVE  at + m <= Len(t.disk) /\ (m = BlockSize \/ at + m >= Len(t.disk))
    <3>1. FileLen(t) = Len(t.disk)
      BY <2>5 DEF FileLen
    <3>2. off + BlockSize <= c.last => m = BlockSize
      <4>1. PICK e \in Nat : e = c.last
        BY ONLY <1>1
      <4>2. m = IF BlockSize < e - off THEN BlockSize ELSE e - off
        BY <4>1 DEF Least2
      <4> QED BY ONLY <4>1, <4>2, <1>1, e \in Nat, off \in Nat
    <3>3. m = BlockSize \/ at + m >= Len(t.disk)
      BY ONLY <3>2, <2>2, <2>3, <2>5, <1>1, <1>3, <1>7, off \in Nat, <1>2
    <3> QED BY <3>1, <3>3, <2>4
  <2> QED BY <2>4, <2>5, <1>2 DEF NewLens
<1>11. Fine(B, u, w, {}, {}, v) /\ FileLen(u) = FileLen(t) /\ SameView(t, u)
  <2>1. Len(d) <= BlockSize
    BY <1>7, <1>8
  <2>2. B => NewLens(t, b, Len(d))
    BY <1>8, <1>10
  <2> QED BY <2>1, <2>2, <1>8, <1>9, AddFine
<1>12. AddGives(t, b, d, u)
  <2>1. Len(d) <= BlockSize
    BY ONLY <1>7, <1>8, SMTT(60)
  <2> QED BY <2>1, <1>8, AddFields
<1>13. u \in Files /\ u.disk = t.disk /\ u.rbuf = t.rbuf /\ u.flen = t.flen
  BY <1>12 DEF AddGives
<1>14. \A p : Covered(u, p) <=> Covered(t, p)
  BY <1>11 DEF SameView
<1>15. v => PlaceGood(u, w, c)
  BY <1>13, <1>14 DEF PlaceGood
<1>16. PlaceIs(B, u, c)
  BY <1>11, <1>13 DEF PlaceIs, PlaceLens
<1> QED BY <1>11, <1>13, <1>15, <1>16 DEF PlacedOn

(* The next block to place is the one before.                              *)
LEMMA PlacesOn ==
  ASSUME Opened, NEW B \in BOOLEAN, NEW v \in BOOLEAN, NEW t \in Files, NEW w \in Seq(Written),
         NEW c \in ReadCall, NEW j \in Nat, c.place = j + 1, PlaceIs(B, t, c), v => PlaceGood(t, w, c),
         NEW e, e = [c EXCEPT !.place = j]
  PROVE  PlaceIs(B, t, e) /\ (v => PlaceGood(t, w, e))
<1>1. e.b = c.b /\ e.place = j /\ e.last = c.last /\ c.b \in Nat /\ c.last \in Nat
  BY DEF ReadCall
<1>2. BlockSize \in Nat /\ BlockSize > 0 /\ MaxBlocks \in Nat
  BY DEF Opened
<1>3. PICK st \in Nat, o \in Nat : st = Base(c.b) /\ o = Base(j)
  BY <1>1, Bases
<1>4. Base(j + 1) = o + BlockSize
  BY <1>3, Bases
<1>5. PlaceIs(B, t, e)
  <2>1. /\ t.rbuf.on /\ t.rbuf.start = st /\ o + BlockSize < c.last /\ c.last <= Len(t.rbuf.data)
        /\ j + 1 < MaxBlocks /\ PlaceLens(B, t, c)
    BY <1>3, <1>4 DEF PlaceIs
  <2>2. o < c.last /\ j < MaxBlocks
    BY <2>1, <1>1, <1>2
  <2>3. PlaceLens(B, t, e)
    <3>1. o + BlockSize <= c.last
      BY <2>1, <1>1, <1>2
    <3> QED BY <3>1, <2>1, <1>1, <1>3 DEF PlaceLens
  <2> QED BY <2>1, <2>2, <2>3, <1>1, <1>3 DEF PlaceIs
<1>6. PlaceGood(t, w, c) => PlaceGood(t, w, e)
  <2>1. Base(c.b + j) = st + o /\ Base(c.b + c.place) = st + o + BlockSize
    <3>1. c.b + j \in Nat /\ c.b + c.place = (c.b + j) + 1
      BY <1>1
    <3>2. Base(c.b + j) = st + o
      BY <1>1, <1>3, Bases
    <3>3. Base((c.b + j) + 1) = Base(c.b + j) + BlockSize
      BY <3>1, Bases
    <3> QED BY <3>1, <3>2, <3>3
  <2>2. ASSUME PlaceGood(t, w, c), NEW p \in 0 .. Len(w) - 1, p >= st, p < (st + o) + BlockSize, ~Covered(t, p)
        PROVE  IF p - st < c.last THEN Agrees(t.rbuf.data[p - st + 1], w[p + 1]) ELSE w[p + 1] = AnyByte
    <3>1. p < (st + o + BlockSize) + BlockSize
      BY <2>2, <1>2
    <3> QED BY <3>1, <2>1, <2>2, <1>3 DEF PlaceGood
  <2> QED BY <2>1, <2>2, <1>1, <1>3 DEF PlaceGood
<1> QED BY <1>5, <1>6

LEMMA PlaceStep ==
  ASSUME IInv, PlaceBlock
  PROVE  IInv'
<1>1. PICK c : c = call
  OBVIOUS
<1>2. c.op = "read" /\ c.place >= 0
  BY <1>1 DEF PlaceBlock
<1>3. /\ Opened /\ s \in Files /\ want \in Seq(Written) /\ Len(want) \in Nat /\ buffers \in BOOLEAN
      /\ TrueView \in BOOLEAN /\ answer \in Answers /\ (buffers => TrueView)
  BY Facts
<1>4. /\ Fine(buffers, s, want, {}, {}, TrueView) /\ FileLen(s) = Len(want)
      /\ ReadIs(buffers, s, want, TrueView, c) /\ PlacingIs(buffers, s, want, TrueView, c)
      /\ TrueView = (~mode.shared \/ held) /\ ~Quiet /\ (c.forced => mode.shared)
      /\ c \in ReadCall /\ c.b \in Nat /\ c.place \in Nat \cup {-1} /\ c.last \in Nat
  BY <1>1, <1>2, ReadFacts
<1>5. c.place \in Nat
  BY <1>2, <1>4
<1>7. PlaceIs(buffers, s, c) /\ (TrueView => PlaceGood(s, want, c))
  BY <1>2, <1>4 DEF PlacingIs, Placing
<1>8. PICK b \in Nat : b = c.b + c.place
  BY <1>4, <1>5
<1>9. PICK off \in Nat : off = Base(c.place)
  BY <1>3, <1>5, Bases
<1>10. PICK m : m = Least2(BlockSize, c.last - off)
  OBVIOUS
<1>11. /\ mode' = mode /\ buffers' = buffers /\ held' = held /\ want' = want /\ writes' = writes
       /\ answer' = answer /\ call' = [c EXCEPT !.place = @ - 1]
  BY <1>1 DEF PlaceBlock
<1>12. PICK t : /\ t \in (IF b \in DOMAIN s.cache THEN {s}
                          ELSE {Add(u, b, From(u.rbuf.data, off, m)) : u \in GetBlock(s)})
                /\ s' = IF c.place = 0 THEN [t EXCEPT !.rbuf = NoBuffer] ELSE t
  BY <1>1, <1>8, <1>9, <1>10 DEF PlaceBlock
<1>13. PlacedOn(buffers, TrueView, s, want, c, t)
  <2>1. CASE b \in DOMAIN s.cache
    <3>1. t = s
      BY <2>1, <1>12
    <3> QED BY <3>1, <1>3, <1>4, <1>7 DEF PlacedOn
  <2>2. CASE b \notin DOMAIN s.cache
    <3>1. PICK u \in GetBlock(s) : t = Add(u, b, From(u.rbuf.data, off, m))
      BY <2>2, <1>12
    <3>2. Fine(buffers, u, want, {}, {}, TrueView) /\ GetGives(s, u)
      BY <3>1, <1>3, <1>4, GetBlockFine
    <3>3. PlaceIs(buffers, u, c) /\ (TrueView => PlaceGood(u, want, c))
      BY <3>1, <2>2, <1>3, <1>4, <1>5, <1>7, <1>8, PlacesKept
    <3>4. u \in Files /\ FileLen(u) = FileLen(s) /\ b \notin DOMAIN u.cache
      BY <3>2, <2>2 DEF GetGives
    <3>5. PICK d : d = From(u.rbuf.data, off, m)
      OBVIOUS
    <3>6. t = Add(u, b, d)
      BY <3>1, <3>5
    <3>7. PlacedOn(buffers, TrueView, u, want, c, t)
      BY <3>2, <3>3, <3>4, <3>5, <3>6, <1>3, <1>4, <1>5, <1>8, <1>9, <1>10, PlacedFine
    <3> QED BY <3>4, <3>7 DEF PlacedOn
  <2> QED BY <2>1, <2>2
<1>14. /\ t \in Files /\ Fine(buffers, t, want, {}, {}, TrueView) /\ FileLen(t) = Len(want)
       /\ PlaceIs(buffers, t, c) /\ (TrueView => PlaceGood(t, want, c))
  BY <1>4, <1>13 DEF PlacedOn
<1>15. AnswerIs'
  BY <1>4, <1>11, AnswerStays
<1>16. PICK e : e = [c EXCEPT !.place = c.place - 1]
  OBVIOUS
<1>17. /\ e \in ReadCall /\ e.pos = c.pos /\ e.n = c.n /\ e.b = c.b /\ e.forced = c.forced
       /\ e.place = c.place - 1 /\ e.got = c.got /\ e.op = "read" /\ call' = e
  <2>1. c.place - 1 \in Nat \cup {-1}
    BY <1>5
  <2> QED BY <2>1, <1>4, <1>11, <1>16 DEF ReadCall
<1>18. CASE c.place = 0
  <2>1. NoBuffer \in Buffer /\ NoBuffer.on = FALSE
    BY NoBufferIs
  <2>2. PICK u : u = [t EXCEPT !.rbuf = NoBuffer]
    OBVIOUS
  <2>3. NewRead(t, NoBuffer, u) /\ Fine(buffers, u, want, {}, {}, TrueView) /\ FileLen(u) = FileLen(t)
    BY <2>1, <2>2, <1>3, <1>14, ReadBufferFine
  <2>4. u \in Files /\ ~u.rbuf.on
    BY <2>1, <2>3 DEF NewRead
  <2>5. s' = u
    BY <2>2, <1>12, <1>18
  <2>6. ReadIs(buffers, u, want, TrueView, e)
    BY <2>3, <1>4, <1>14, <1>17 DEF ReadIs, GotIs
  <2>7. PlacingIs(buffers, u, want, TrueView, e)
    <3>1. ~(e.place >= 0)
      BY <1>17, <1>18
    <3> QED BY <3>1, <2>4 DEF PlacingIs, Placing
  <2>8. FileLen(u) = Len(want)
    BY <2>3, <1>14
  <2> QED BY <2>3, <2>4, <2>5, <2>6, <2>7, <2>8, <1>3, <1>4, <1>11, <1>15, <1>17, Reads
<1>19. CASE c.place # 0
  <2>1. s' = t
    BY <1>12, <1>19
  <2>2. ReadIs(buffers, t, want, TrueView, e)
    BY <1>4, <1>14, <1>17 DEF ReadIs, GotIs
  <2>3. PICK j \in Nat : j = c.place - 1 /\ c.place = j + 1
    BY <1>5, <1>19
  <2>4. e = [c EXCEPT !.place = j]
    BY <2>3, <1>16
  <2>5. PlaceIs(buffers, t, e) /\ (TrueView => PlaceGood(t, want, e))
    BY <2>3, <2>4, <1>3, <1>4, <1>14, PlacesOn
  <2>6. PlacingIs(buffers, t, want, TrueView, e)
    <3>1. e.place >= 0
      BY <2>3, <1>17
    <3> QED BY <3>1, <2>5, <1>17 DEF PlacingIs, Placing
  <2> QED BY <2>1, <2>2, <2>6, <1>3, <1>4, <1>11, <1>14, <1>15, <1>17, Reads
<1> QED BY <1>18, <1>19

(* What a round of a read adds is the block's part, up to the block's end. *)
JoinGives(h, d, g) ==
  /\ g \in Seq(Vals) /\ Len(g) = Len(h) + Len(d) /\ Len(h) \in Nat /\ Len(d) \in Nat
  /\ \A i \in 1 .. Len(h) : g[i] = h[i]
  /\ \A j \in 1 .. Len(d) : g[Len(h) + j] = d[j]
LEMMA Joined ==
  ASSUME NEW h \in Seq(Vals), NEW d \in Seq(Vals), NEW g, g = h \o d
  PROVE  JoinGives(h, d, g)
BY DEF JoinGives
SliceGives(q, low, m, d) == d \in Seq(Vals) /\ Len(d) = m - low /\ \A i \in 1 .. m - low : d[i] = q[low + i]
LEMMA Sliced ==
  ASSUME NEW q \in Seq(Vals), NEW low \in Nat, NEW m \in Nat, low <= m, m <= Len(q),
         NEW d, d = SubSeq(q, low + 1, m)
  PROVE  SliceGives(q, low, m, d)
<1>1. PICK a \in Nat : a = low + 1
  OBVIOUS
<1>2. d \in Seq(Vals) /\ Len(d) = m - low
  OBVIOUS
<1>3. \A i \in 1 .. (m - a) + 1 : SubSeq(q, a, m)[i] = q[(a + i) - 1]
  BY ONLY <1>1, q \in Seq(Vals), m \in Nat, SMTT(60)
<1>4. ASSUME NEW i \in 1 .. m - low PROVE d[i] = q[low + i]
  <2>1. i \in 1 .. (m - a) + 1 /\ (a + i) - 1 = low + i
    BY <1>1
  <2>2. d = SubSeq(q, a, m)
    BY <1>1
  <2>3. SubSeq(q, a, m)[i] = q[(a + i) - 1]
    BY <1>3, <2>1
  <2> QED BY <2>1, <2>2, <2>3
<1> QED BY <1>2, <1>4 DEF SliceGives

GotOn(t, w, c, b, m, g) ==
  /\ g \in Seq(Vals) /\ Len(g) = Base(b) + m - c.pos
  /\ GoodBlock(t, w, {}, b) /\ GotIs(w, c) =>
       \A i \in 1 .. Len(g) : c.pos + i <= Len(w) => Agrees(g[i], w[c.pos + i])
LEMMA MoreGot ==
  ASSUME Opened, NEW t \in Files, NEW w \in Seq(Written), NEW c \in ReadCall,
         NEW b \in DOMAIN t.cache, NEW at \in Nat, at = Base(b), NEW low \in Nat,
         Len(c.got) = (at + low) - c.pos, NEW m \in Nat, low <= m, m <= BlockSize,
         m > low => m <= t.cache[b].len,
         NEW g, g = c.got \o SubSeq(t.cache[b].data, low + 1, m)
  PROVE  GotOn(t, w, c, b, m, g)
<1>1. PICK q : q = t.cache[b].data
  OBVIOUS
<1>2. q \in [1 .. BlockSize -> Vals] /\ BlockSize \in Nat /\ t.cache[b].len \in Nat /\ t.cache[b].len <= BlockSize
  BY <1>1, BlockHas
<1>3. q \in Seq(Vals) /\ Len(q) = BlockSize
  BY ONLY <1>2
<1>4. PICK d : d = SubSeq(q, low + 1, m)
  OBVIOUS
<1>5. SliceGives(q, low, m, d)
  <2>1. m <= Len(q)
    BY <1>3
  <2> QED BY <2>1, <1>3, <1>4, Sliced
<1>6. d \in Seq(Vals) /\ Len(d) = m - low /\ \A i \in 1 .. m - low : d[i] = q[low + i]
  BY <1>5 DEF SliceGives
<1>7. PICK h \in Seq(Vals) : h = c.got
  BY DEF ReadCall
<1>8. PICK pos \in Nat : pos = c.pos
  BY DEF ReadCall
<1>9. PICK l \in Nat : l = Len(h)
  BY <1>7
<1>10. JoinGives(h, d, g)
  <2>1. g = h \o d
    BY <1>1, <1>4, <1>7
  <2> QED BY <2>1, <1>6, <1>7, Joined
<1>11. /\ g \in Seq(Vals) /\ Len(g) = l + (m - low)
       /\ \A i \in 1 .. l : g[i] = h[i]
       /\ \A j \in 1 .. m - low : g[l + j] = q[low + j]
  BY <1>6, <1>9, <1>10 DEF JoinGives
<1>12. l = (at + low) - pos
  BY <1>7, <1>8, <1>9
<1>13. PICK n \in Nat, size \in Nat : n = t.cache[b].len /\ size = BlockSize
  BY <1>2
<1>14. n <= size /\ m <= size /\ (m > low => m <= n)
  BY <1>2, <1>13
<1>15. ASSUME GoodBlock(t, w, {}, b), GotIs(w, c), NEW i \in Nat, i >= 1, i <= Len(g), pos + i <= Len(w)
       PROVE  Agrees(g[i], w[pos + i])
  <2>1. CASE i <= l
    <3>1. i \in 1 .. l
      BY ONLY <2>1, <1>15, l \in Nat
    <3>2. Agrees(h[i], w[pos + i])
      BY <3>1, <1>7, <1>8, <1>9, <1>15 DEF GotIs
    <3> QED BY <3>1, <3>2, <1>11
  <2>2. CASE i > l
    <3>1. PICK j \in Nat : j = i - l /\ i = l + j /\ j >= 1
      BY ONLY <2>2, <1>15, l \in Nat
    <3>2. j \in 1 .. m - low
      <4>1. l + j <= l + (m - low)
        BY ONLY <3>1, <1>11, <1>15
      <4>2. j \in Nat /\ j >= 1 /\ m - low \in Nat
        BY ONLY <3>1, m \in Nat, low \in Nat, low <= m
      <4>3. j <= m - low
        BY ONLY <4>1, <4>2, l \in Nat
      <4> QED BY ONLY <4>2, <4>3
    <3>3. g[i] = q[low + j]
      BY <3>1, <3>2, <1>11
    <3>4. PICK p \in Nat : p = (pos + i) - 1 /\ p + 1 = pos + i
      BY ONLY <1>15, pos \in Nat
    <3>5. p = (at + (low + j)) - 1
      BY ONLY <3>1, <3>4, <1>12, l \in Nat, low \in Nat, at \in Nat, pos \in Nat
    <3>6. low + j <= n
      BY ONLY <3>2, <1>14, n \in Nat, low \in Nat, m \in Nat, low <= m
    <3>7. p - at < n /\ at <= p /\ p < at + size /\ p - at + 1 = low + j
      <4>1. p = at + ((low + j) - 1) /\ (low + j) - 1 >= 0
        BY ONLY <3>1, <3>5, low \in Nat, at \in Nat
      <4> QED BY ONLY <4>1, <3>6, <1>14, n \in Nat, size \in Nat, at \in Nat, low \in Nat, j \in Nat
    <3>8. p \in 0 .. Len(w) - 1
      BY <3>4, <1>15
    <3>9. Agrees(q[p - at + 1], w[p + 1])
      BY <3>7, <3>8, <1>1, <1>13, <1>15 DEF GoodBlock
    <3> QED BY <3>3, <3>4, <3>7, <3>9
  <2> QED BY ONLY <2>1, <2>2, <1>15, l \in Nat
<1>16. Len(g) \in Nat /\ Len(g) = at + m - pos
  <2>1. Len(g) \in Nat
    BY ONLY <1>11, <1>9, m \in Nat, low \in Nat, low <= m
  <2>2. Len(g) = at + m - pos
    BY ONLY <1>11, <1>12, at \in Nat, low \in Nat, m \in Nat, pos \in Nat
  <2> QED BY <2>1, <2>2
<1>17. GoodBlock(t, w, {}, b) /\ GotIs(w, c) =>
         \A i \in 1 .. Len(g) : c.pos + i <= Len(w) => Agrees(g[i], w[c.pos + i])
  <2>1. SUFFICES ASSUME GoodBlock(t, w, {}, b), GotIs(w, c), NEW i \in 1 .. Len(g), pos + i <= Len(w)
                 PROVE  Agrees(g[i], w[pos + i])
    BY <1>8
  <2>2. i \in Nat /\ i >= 1 /\ i <= Len(g)
    BY ONLY <1>16, i \in 1 .. Len(g)
  <2> QED BY <2>1, <2>2, <1>15
<1> QED BY <1>8, <1>11, <1>16, <1>17 DEF GotOn

(* A clean block that is read again is what is on disk.                    *)
DataBecomes(t, b, q, u) ==
  /\ u \in Files /\ u.disk = t.disk /\ u.wbuf = t.wbuf /\ u.rbuf = t.rbuf /\ u.flen = t.flen
  /\ DOMAIN u.cache = DOMAIN t.cache /\ \A x \in DOMAIN t.cache : x # b => u.cache[x] = t.cache[x]
  /\ u.cache[b].data = q /\ u.cache[b].len = t.cache[b].len /\ u.cache[b].changed = t.cache[b].changed
LEMMA OnlyData ==
  ASSUME Opened, NEW t \in Files, NEW b \in DOMAIN t.cache, NEW q \in [1 .. BlockSize -> Vals],
         NEW u, u = [t EXCEPT !.cache[b].data = q]
  PROVE  DataBecomes(t, b, q, u)
<1>1. PICK o : o = t.cache[b]
  OBVIOUS
<1>2. o \in Block
  BY <1>1, BlockHas
<1>3. PICK e : e = [data |-> q, len |-> o.len, changed |-> o.changed]
  OBVIOUS
<1>4. e \in Block /\ e = [o EXCEPT !.data = q]
  BY <1>2, <1>3 DEF Block
<1>5. u = [t EXCEPT !.cache = [t.cache EXCEPT ![b] = [o EXCEPT !.data = q]]]
  <2>1. t.cache \in Caches
    BY FileHas
  <2>2. t.cache = [x \in DOMAIN t.cache |-> t.cache[x]]
    BY <2>1, CacheHas
  <2> QED BY <1>1, <2>2, FilesAre
<1>6. u = [t EXCEPT !.cache = [t.cache EXCEPT ![b] = e], !.flen = t.flen]
  BY <1>4, <1>5, FilesAre
<1>7. t.flen \in Nat \cup {Unknown}
  BY FileHas
<1>8. Becomes(t, b, e, t.flen, u)
  BY <1>4, <1>6, <1>7, BecomesBlock
<1>9. e.data = q /\ e.len = o.len /\ e.changed = o.changed
  BY <1>3
<1> QED BY <1>1, <1>8, <1>9 DEF Becomes, DataBecomes

LEMMA RereadFine ==
  ASSUME Opened, buffers \in BOOLEAN, ~buffers, NEW v \in BOOLEAN, NEW t \in Files, NEW w \in Seq(Written),
         Fine(buffers, t, w, {}, {}, v), NEW b \in DOMAIN t.cache, NEW u, u = Reread(t, b)
  PROVE  /\ u \in Files /\ Fine(buffers, u, w, {}, {}, v) /\ FileLen(u) = FileLen(t)
         /\ DOMAIN u.cache = DOMAIN t.cache /\ u.rbuf = t.rbuf
<1>1. b \in Nat /\ BlockSize \in Nat /\ BlockSize > 0 /\ t.cache[b].len \in Nat /\ t.cache[b].len <= BlockSize
  BY BlockHas
<1>2. PICK at \in Nat : at = Base(b)
  BY <1>1, Bases
<1>3. PICK r : r = ReadFile(t, at, BlockSize)
  OBVIOUS
<1>4. Fine(buffers, r.at, w, {}, {}, v) /\ ReadGives(t, at, BlockSize, r) /\ ReadBytes(t, at, BlockSize, r)
  BY <1>1, <1>3, ReadFileFine
<1>5. PICK f, g : f = r.at /\ g = r.got
  OBVIOUS
<1>6. /\ f \in Files /\ f.cache = t.cache /\ f.flen = t.flen /\ f.rbuf = t.rbuf /\ FileLen(f) = FileLen(t)
      /\ g \in Seq(Vals) /\ Len(g) \in Nat /\ Len(g) <= BlockSize /\ Fine(buffers, f, w, {}, {}, v)
  BY <1>4, <1>5 DEF ReadGives
<1>7. PICK o : o = f.cache[b].data
  OBVIOUS
<1>8. o \in [1 .. BlockSize -> Vals] /\ b \in DOMAIN f.cache
  BY <1>6, <1>7, BlockHas
<1>9. o \in Seq(Vals) /\ Len(o) = BlockSize
  BY <1>1, <1>8
<1>10. PICK q : q = Put(o, 0, g, Junk)
  OBVIOUS
<1>11. /\ q \in Seq(Vals) /\ Len(q) = Most2(BlockSize, 0 + Len(g))
       /\ \A i \in 1 .. Most2(BlockSize, 0 + Len(g)) :
            q[i] = IF i > 0 /\ i <= 0 + Len(g) THEN g[i - 0] ELSE IF i <= BlockSize THEN o[i] ELSE Junk
  <2>1. o \in Seq(Vals) /\ g \in Seq(Vals) /\ 0 \in Nat
    BY <1>6, <1>9
  <2>2. /\ Put(o, 0, g, Junk) \in Seq(Vals)
        /\ Len(Put(o, 0, g, Junk)) = Most2(Len(o), 0 + Len(g))
        /\ \A i \in 1 .. Most2(Len(o), 0 + Len(g)) :
             Put(o, 0, g, Junk)[i] = IF i > 0 /\ i <= 0 + Len(g) THEN g[i - 0]
                                     ELSE IF i <= Len(o) THEN o[i] ELSE Junk
    BY ONLY <2>1, PutVals
  <2> QED BY <2>2, <1>9, <1>10
<1>12. Most2(BlockSize, 0 + Len(g)) = BlockSize
  BY <1>1, <1>6 DEF Most2
<1>13. \A i \in 1 .. BlockSize : q[i] = IF i <= Len(g) THEN g[i] ELSE o[i]
  BY <1>1, <1>6, <1>11, <1>12
<1>14. q \in [1 .. BlockSize -> Vals]
  BY <1>11, <1>12
<1>15. u = [f EXCEPT !.cache[b].data = q]
  BY <1>2, <1>3, <1>5, <1>7, <1>10 DEF Reread
<1>16. DataBecomes(f, b, q, u)
  BY <1>6, <1>8, <1>14, <1>15, OnlyData
<1>17. /\ u \in Files /\ u.disk = f.disk /\ u.wbuf = f.wbuf /\ u.rbuf = f.rbuf /\ u.flen = f.flen
       /\ DOMAIN u.cache = DOMAIN f.cache /\ \A x \in DOMAIN f.cache : x # b => u.cache[x] = f.cache[x]
       /\ u.cache[b].data = q /\ u.cache[b].len = f.cache[b].len /\ u.cache[b].changed = f.cache[b].changed
  BY <1>16 DEF DataBecomes
<1>18. Straight(f) /\ Straight(t) /\ Cov(f, w, {}) /\ Cov(t, w, {})
  BY <1>6 DEF Fine
<1>19. Straight(u)
  BY <1>17, <1>18 DEF Straight
<1>20. \A p : Stands(u, p) = Stands(f, p)
  BY <1>17, <1>18, <1>19, StandsOnDisk
<1>21. Cov(u, w, {})
  BY <1>18, <1>20 DEF Cov
<1>22. ASSUME v PROVE Good(u, w, {})
  <2>1. Good(f, w, {})
    BY <1>6, <1>22 DEF Fine
  <2>2. ASSUME NEW x \in DOMAIN u.cache, x # b PROVE GoodBlock(u, w, {}, x)
    BY <2>1, <2>2, <1>17 DEF Good, GoodBlock
  <2>3. GoodBlock(u, w, {}, b)
    <3>1. SUFFICES ASSUME NEW p \in 0 .. Len(w) - 1, at <= p, p < at + BlockSize
                   PROVE  IF p - at < f.cache[b].len THEN Agrees(q[p - at + 1], w[p + 1]) ELSE w[p + 1] = AnyByte
      BY <1>2, <1>17 DEF GoodBlock
    <3>2. p \in Nat /\ p - at + 1 \in 1 .. BlockSize
      BY <3>1, <1>1
    <3>3. IF p - at < f.cache[b].len THEN Agrees(o[p - at + 1], w[p + 1]) ELSE w[p + 1] = AnyByte
      BY <3>1, <2>1, <1>2, <1>7, <1>8 DEF Good, GoodBlock
    <3>4. p - at < Len(g) => Agrees(g[p - at + 1], w[p + 1])
      <4>1. ~Covered(t, p)
        BY <1>18, StandsOnDisk
      <4>2. p - at < Len(g) => g[p - at + 1] = Stands(t, p)
        BY <4>1, <3>1, <3>2, <1>4, <1>5 DEF ReadBytes
      <4>3. Agrees(Stands(t, p), w[p + 1])
        BY <1>18 DEF Cov
      <4> QED BY <4>2, <4>3
    <3>5. q[p - at + 1] = IF p - at + 1 <= Len(g) THEN g[p - at + 1] ELSE o[p - at + 1]
      BY <3>2, <1>13
    <3>6. p - at + 1 <= Len(g) <=> p - at < Len(g)
      BY <3>2, <1>6
    <3> QED BY <3>3, <3>4, <3>5, <3>6
  <2> QED BY <2>2, <2>3, <1>17 DEF Good
<1>23. FileLen(u) = FileLen(f)
  BY <1>17 DEF FileLen
<1> QED BY <1>6, <1>17, <1>19, <1>21, <1>22, <1>23 DEF Fine

(* The block a read comes to: there, read, or read again.                  *)
PresentGives(c, v, t) ==
  /\ t \in Files /\ Fine(buffers, t, want, {}, {}, v) /\ FileLen(t) = FileLen(s)
  /\ c.b \in DOMAIN t.cache /\ t.rbuf.on = s.rbuf.on
LEMMA PresentFine ==
  ASSUME Opened, buffers \in BOOLEAN, NEW v \in BOOLEAN, buffers => v, s \in Files,
         want \in Seq(Written), Fine(buffers, s, want, {}, {}, v), NEW c \in ReadCall,
         buffers => Base(c.b) <= FileLen(s), FileLen(s) = Len(want), NEW t \in Present(c)
  PROVE  PresentGives(c, v, t)
<1>1. PICK b \in Nat : b = c.b
  BY DEF ReadCall
<1>2. CASE b \in DOMAIN s.cache
  <2>1. t = s \/ (t = Reread(s, b) /\ ~buffers)
    BY <1>1, <1>2 DEF Present
  <2>2. CASE t = s
    BY <1>1, <1>2, <2>2 DEF PresentGives
  <2>3. CASE t = Reread(s, b) /\ ~buffers
    <3>1. /\ t \in Files /\ Fine(buffers, t, want, {}, {}, v) /\ FileLen(t) = FileLen(s)
          /\ DOMAIN t.cache = DOMAIN s.cache /\ t.rbuf = s.rbuf
      BY <1>2, <2>3, RereadFine
    <3> QED BY <3>1, <1>1, <1>2 DEF PresentGives
  <2> QED BY <2>1, <2>2, <2>3
<1>3. CASE b \notin DOMAIN s.cache
  <2>1. PICK u \in GetBlock(s) : t = (LET r == ReadFile(u, Base(b), BlockSize) IN Add(r.at, b, r.got))
    BY <1>1, <1>3 DEF Present
  <2>2. Fine(buffers, u, want, {}, {}, v) /\ GetGives(s, u)
    BY <2>1, GetBlockFine
  <2>3. /\ u \in Files /\ FileLen(u) = FileLen(s) /\ DOMAIN u.cache \subseteq DOMAIN s.cache
        /\ u.rbuf.on = s.rbuf.on
    BY <2>2 DEF GetGives
  <2>4. PICK r : r = ReadFile(u, Base(b), BlockSize)
    OBVIOUS
  <2>5. t = Add(r.at, b, r.got)
    BY <2>1, <2>4
  <2>6. ReadApart(u, want, {}, {}, b)
    <3>1. ASSUME NEW p \in 0 .. Len(want) - 1 PROVE ~(p >= FileLen(u))
      BY <2>3
    <3> QED BY <3>1 DEF ReadApart
  <2>7. b \notin DOMAIN u.cache /\ (buffers => Base(b) <= FileLen(u))
    BY <2>3, <1>1, <1>3
  <2>8. Fine(buffers, t, want, {}, {}, v) /\ AddedTo(u, b, t)
    BY <2>2, <2>3, <2>4, <2>5, <2>6, <2>7, <1>1, AddRead
  <2>9. t \in Files /\ t.rbuf = u.rbuf /\ FileLen(t) = FileLen(u) /\ b \in DOMAIN t.cache
    BY <2>8 DEF AddedTo
  <2> QED BY <2>3, <2>8, <2>9, <1>1 DEF PresentGives
<1> QED BY <1>2, <1>3

(* A read that ends has all that is there, but for bytes nobody wrote.     *)
AllThere(w, pos, n, g) ==
  LET there == From(w, pos, n)
  IN \A i \in 1 .. Len(there) :
       (\A j \in 1 .. i : there[j] # AnyByte) => i <= Len(g) /\ g[i] = there[i]
GotAll(w, pos, g) == \A i \in 1 .. Len(g) : pos + i <= Len(w) => Agrees(g[i], w[pos + i])
RoundEnds(rest, len, low, m) ==
  m = Most2(Least2(Least2(rest, BlockSize), len), low) /\ ~(rest > BlockSize /\ len = BlockSize)
LEMMA ReadEnds ==
  ASSUME Opened, NEW t \in Files, NEW w \in Seq(Written), NEW b \in DOMAIN t.cache,
         NEW at \in Nat, at = Base(b), NEW pos \in Nat, NEW n \in Nat, NEW rest \in Nat,
         rest = (pos + n) - at, NEW low \in Nat, low < BlockSize, at + low >= pos, NEW size \in Nat, size = t.cache[b].len,
         NEW m \in Nat, RoundEnds(rest, size, low, m), GoodBlock(t, w, {}, b),
         NEW g \in Seq(Vals), Len(g) = at + m - pos, GotAll(w, pos, g)
  PROVE  AllThere(w, pos, n, g)
<1>10. m = Most2(Least2(Least2(rest, BlockSize), size), low) /\ ~(rest > BlockSize /\ size = BlockSize)
  BY DEF RoundEnds
<1>1. PICK y : y = From(w, pos, n)
  OBVIOUS
<1>2. /\ Len(y) = IF pos >= Len(w) THEN 0 ELSE Least2(n, Len(w) - pos)
      /\ \A i \in 1 .. Len(y) : y[i] = w[pos + i]
  <2>1. /\ From(w, pos, n) \in Seq(Written)
        /\ Len(From(w, pos, n)) = IF pos >= Len(w) THEN 0 ELSE Least2(n, Len(w) - pos)
        /\ \A i \in 1 .. Len(From(w, pos, n)) : From(w, pos, n)[i] = w[pos + i]
    <3>1. w \in Seq(Written) /\ pos \in Nat /\ n \in Nat
      OBVIOUS
    <3> QED BY ONLY <3>1, FromWant
  <2> QED BY <2>1, <1>1
<1>3. BlockSize \in Nat /\ BlockSize > 0 /\ size <= BlockSize
  BY BlockHas
<1>4. Len(w) \in Nat /\ Len(g) \in Nat
  OBVIOUS
<1>5. SUFFICES ASSUME NEW i \in 1 .. Len(y), \A j \in 1 .. i : y[j] # AnyByte
               PROVE  i <= Len(g) /\ g[i] = y[i]
  BY <1>1 DEF AllThere
<1>6. Len(y) <= n /\ pos + Len(y) <= Len(w) /\ Len(y) \in Nat
  <2>1. i \in Nat /\ i >= 1 /\ i <= Len(y)
    OBVIOUS
  <2>2. CASE pos >= Len(w)
    BY <2>1, <2>2, <1>2
  <2>3. CASE ~(pos >= Len(w))
    <3>1. Len(y) = Least2(n, Len(w) - pos)
      BY <2>3, <1>2
    <3>4. Len(w) - pos \in Nat
      BY <2>3, <1>4
    <3>2. PICK k \in Nat : k = Len(w) - pos
      BY ONLY <3>4
    <3>3. Len(y) = IF n < k THEN n ELSE k
      BY <3>1, <3>2 DEF Least2
    <3> QED BY ONLY <3>2, <3>3, <1>4, k \in Nat, n \in Nat, pos \in Nat
  <2> QED BY <2>2, <2>3
<1>7. i \in Nat /\ i >= 1 /\ i <= n /\ pos + i <= Len(w) /\ i <= Len(y)
  BY ONLY <1>4, <1>6, i \in 1 .. Len(y), n \in Nat, pos \in Nat
<1>8. i <= Len(g)
  <2>1. SUFFICES ASSUME i > Len(g) PROVE FALSE
    <3>1. i \in Nat /\ Len(g) \in Nat
      BY ONLY <1>4, <1>7
    <3>2. i <= Len(g) \/ i > Len(g)
      BY ONLY <3>1
    <3> QED BY <3>2, Zenon
  <2>2. m = IF Least2(Least2(rest, BlockSize), size) > low THEN Least2(Least2(rest, BlockSize), size) ELSE low
    BY <1>10 DEF Most2
  <2>3. at + m >= pos /\ at + m < pos + n /\ (at + m) < Len(w)
    <3>1. m >= low
      BY ONLY <2>2, m \in Nat, low \in Nat
    <3>2. at + m >= pos
      BY ONLY <3>1, at + low >= pos, at \in Nat, low \in Nat, m \in Nat, pos \in Nat
    <3> QED BY ONLY <3>2, <2>1, <1>4, <1>7, Len(g) = at + m - pos, at \in Nat, m \in Nat, pos \in Nat, n \in Nat
  <2>4. m < rest
    BY ONLY <2>3, rest = (pos + n) - at, at \in Nat, m \in Nat, pos \in Nat, n \in Nat
  <2>5. m >= size /\ m < BlockSize
    <3>1. Least2(rest, BlockSize) = IF rest < BlockSize THEN rest ELSE BlockSize
      BY DEF Least2
    <3>2. PICK x \in Nat : x = Least2(rest, BlockSize)
      BY <3>1, <1>3
    <3>3. Least2(x, size) = IF x < size THEN x ELSE size
      BY DEF Least2
    <3>4. PICK z \in Nat : z = Least2(x, size)
      BY <3>3
    <3>5. /\ x = IF rest < BlockSize THEN rest ELSE BlockSize
          /\ z = IF x < size THEN x ELSE size
          /\ m = IF z > low THEN z ELSE low
      BY <3>1, <3>2, <3>3, <3>4, <2>2
    <3>6. m < BlockSize
      <4>1. SUFFICES ASSUME m >= BlockSize PROVE FALSE
        <5>1. m \in Nat /\ BlockSize \in Nat
          BY ONLY <1>3, m \in Nat
        <5>2. m < BlockSize \/ m >= BlockSize
          BY ONLY <5>1
        <5> QED BY <5>2, Zenon
      <4>2. z >= BlockSize
        BY ONLY <4>1, <3>5, low < BlockSize, <1>3, z \in Nat, low \in Nat, m \in Nat
      <4>3. x >= BlockSize /\ size = BlockSize
        BY ONLY <4>2, <3>5, <1>3, x \in Nat, size \in Nat
      <4>4. rest > BlockSize
        BY ONLY <4>1, <2>4, <1>3, rest \in Nat, m \in Nat
      <4> QED BY <4>3, <4>4, <1>10
    <3>7. m >= size
      <4>1. m < size \/ m >= size
        BY ONLY m \in Nat, size \in Nat
      <4>4. SUFFICES ASSUME m < size PROVE FALSE
        BY <4>1
      <4>2. z < size /\ z <= m
        BY ONLY <4>4, <3>5, <1>3, z \in Nat, x \in Nat, low \in Nat, m \in Nat, size \in Nat, rest \in Nat
      <4>3. x <= m
        BY ONLY <4>2, <3>5, <1>3, z \in Nat, x \in Nat, low \in Nat, m \in Nat, size \in Nat, rest \in Nat
      <4> QED BY ONLY <4>3, <3>5, <3>6, <2>4, <1>3, x \in Nat, m \in Nat, rest \in Nat
    <3> QED BY <3>6, <3>7
  <2>6. PICK p \in Nat : p = at + m
    <3>1. at + m \in Nat
      BY ONLY at \in Nat, m \in Nat
    <3> QED BY ONLY <3>1
  <2>7. p \in 0 .. Len(w) - 1 /\ at <= p /\ p < at + BlockSize /\ ~(p - at < size)
    BY ONLY <2>3, <2>5, <2>6, <1>3, <1>4, at \in Nat, m \in Nat, size \in Nat
  <2>8. w[p + 1] = AnyByte
    BY <2>7 DEF GoodBlock
  <2>9. PICK j \in Nat : j = Len(g) + 1
    BY ONLY <1>4
  <2>10. j \in 1 .. i /\ j \in 1 .. Len(y) /\ pos + j = p + 1
    BY ONLY <2>1, <2>3, <2>6, <2>9, <1>4, <1>6, <1>7, Len(g) = at + m - pos, at \in Nat, m \in Nat, pos \in Nat
  <2> QED BY <2>8, <2>10, <1>2, <1>5
<1>9. g[i] = y[i]
  <2>1. i \in 1 .. Len(g) /\ i \in 1 .. i
    BY <1>4, <1>7, <1>8
  <2>2. Agrees(g[i], w[pos + i])
    BY <2>1, <1>7 DEF GotAll
  <2> QED BY <2>1, <2>2, <1>2, <1>5 DEF Agrees
<1> QED BY <1>8, <1>9

LEMMA ReadBlockStep ==
  ASSUME IInv, ReadBlock
  PROVE  IInv'
<1>1. PICK c : c = call
  OBVIOUS
<1>2. c.op = "read" /\ c.place < 0
  BY <1>1 DEF ReadBlock, Reading
<1>3. /\ Opened /\ s \in Files /\ want \in Seq(Written) /\ Len(want) \in Nat /\ buffers \in BOOLEAN
      /\ TrueView \in BOOLEAN /\ answer \in Answers /\ (buffers => TrueView)
  BY Facts
<1>4. /\ Fine(buffers, s, want, {}, {}, TrueView) /\ FileLen(s) = Len(want)
      /\ ReadIs(buffers, s, want, TrueView, c) /\ PlacingIs(buffers, s, want, TrueView, c)
      /\ TrueView = (~mode.shared \/ held) /\ ~Quiet /\ (c.forced => mode.shared)
      /\ c \in ReadCall /\ c.forced \in BOOLEAN
  BY <1>1, <1>2, ReadFacts
<1>5. PICK b \in Nat, pos \in Nat, k \in Nat : b = c.b /\ pos = c.pos /\ k = c.n /\ k > 0
  BY <1>1, <1>2, ReadFacts
<1>6. PICK at \in Nat : at = Base(b) /\ Base(b + 1) = at + BlockSize
  BY <1>3, Bases
<1>7. PICK size \in Nat : size = BlockSize /\ size > 0
  BY <1>3 DEF Opened
<1>8. /\ at < pos + k /\ pos < at + size /\ Len(c.got) = Most2(pos, at) - pos
      /\ (buffers => at <= FileLen(s)) /\ (TrueView => GotIs(want, c))
  BY <1>4, <1>5, <1>6, <1>7 DEF ReadIs
<1>9. PICK low \in Nat : low = Most2(pos, at) - at /\ low < size /\ at + low >= pos /\ at + low = Most2(pos, at)
  <2>1. Most2(pos, at) = IF pos > at THEN pos ELSE at
    BY DEF Most2
  <2>2. Most2(pos, at) - at \in Nat /\ Most2(pos, at) - at < size /\ Most2(pos, at) >= pos
    BY ONLY <2>1, <1>7, <1>8, pos \in Nat, at \in Nat, size \in Nat
  <2> QED BY <2>1, <2>2
<1>10. PICK rest \in Nat : rest = (pos + k) - at /\ rest = Rest(c)
  <2>1. Rest(c) = (pos + k) - at
    BY ONLY <1>5, <1>6 DEF Rest
  <2>2. (pos + k) - at \in Nat
    <3>1. at < pos + k
      BY ONLY <1>8
    <3> QED BY ONLY <3>1, pos \in Nat, k \in Nat, at \in Nat
  <2> QED BY ONLY <2>1, <2>2
<1>11. /\ mode' = mode /\ buffers' = buffers /\ held' = held /\ want' = want /\ writes' = writes
  BY ZenonT(60) DEF ReadBlock
<1>12. PICK t \in Present(c) :
          LET q == t.cache[b]
              m == Most2(Least2(Least2(rest, size), q.len), low)
              got == c.got \o SubSeq(q.data, low + 1, m)
          IN /\ s' = t
             /\ IF rest > size /\ q.len = size
                THEN /\ call' = [c EXCEPT !.b = @ + 1, !.sp = FALSE, !.got = got]
                     /\ answer' = answer
                ELSE /\ call' = NoCall
                     /\ answer' = [op |-> "read", pos |-> pos, n |-> k, forced |-> c.forced, bytes |-> got]
  BY ONLY ReadBlock, <1>1, <1>5, <1>6, <1>7, <1>9, <1>10, Zenon DEF ReadBlock
<1>13. PresentGives(c, TrueView, t)
  BY <1>3, <1>4, <1>5, <1>6, <1>8, PresentFine
<1>14. /\ t \in Files /\ Fine(buffers, t, want, {}, {}, TrueView) /\ FileLen(t) = Len(want)
       /\ b \in DOMAIN t.cache /\ t.rbuf.on = s.rbuf.on
  BY <1>4, <1>5, <1>13 DEF PresentGives
<1>15. PICK len \in Nat : len = t.cache[b].len /\ len <= size
  BY <1>3, <1>7, <1>14, BlockHas
<1>16. PICK m \in Nat : m = Most2(Least2(Least2(rest, size), len), low)
  BY DEF Most2, Least2
<1>17. PICK g : g = c.got \o SubSeq(t.cache[b].data, low + 1, m)
  OBVIOUS
<1>18. /\ s' = t
       /\ IF rest > size /\ len = size
          THEN call' = [c EXCEPT !.b = @ + 1, !.sp = FALSE, !.got = g] /\ answer' = answer
          ELSE /\ call' = NoCall
               /\ answer' = [op |-> "read", pos |-> pos, n |-> k, forced |-> c.forced, bytes |-> g]
  BY <1>12, <1>15, <1>16, <1>17
<1>19. low <= m /\ m <= size /\ (m > low => m <= len)
  <2>1. PICK x \in Nat : x = Least2(Least2(rest, size), len) /\ x <= len
    BY DEF Least2
  <2>2. m = IF x > low THEN x ELSE low
    BY <2>1, <1>16 DEF Most2
  <2> QED BY ONLY <2>1, <2>2, <1>9, <1>15, x \in Nat, low \in Nat, m \in Nat, size \in Nat, len \in Nat
<1>20. GotOn(t, want, c, b, m, g)
  <2>1. Len(c.got) = (at + low) - c.pos
    BY <1>5, <1>8, <1>9
  <2>2. m <= BlockSize /\ (m > low => m <= t.cache[b].len)
    BY <1>7, <1>15, <1>19
  <2> QED BY <2>1, <2>2, <1>3, <1>4, <1>6, <1>14, <1>17, <1>19, MoreGot
<1>21. /\ g \in Seq(Vals) /\ Len(g) = at + m - pos
       /\ TrueView => \A i \in 1 .. Len(g) : pos + i <= Len(want) => Agrees(g[i], want[pos + i])
  <2>1. TrueView => GoodBlock(t, want, {}, b)
    BY <1>14 DEF Fine, Good
  <2> QED BY <2>1, <1>5, <1>6, <1>8, <1>20 DEF GotOn
<1>22. CASE rest > size /\ len = size
  <2>1. PICK e : e = [c EXCEPT !.b = b + 1, !.sp = FALSE, !.got = g]
    OBVIOUS
  <2>2. /\ e \in ReadCall /\ e.pos = pos /\ e.n = k /\ e.b = b + 1 /\ e.forced = c.forced
        /\ e.place = c.place /\ e.got = g
    <3>1. b + 1 \in Nat /\ g \in Seq(Vals) /\ FALSE \in BOOLEAN /\ c \in ReadCall /\ pos = c.pos /\ k = c.n
      BY ONLY <1>4, <1>5, <1>21, SMTT(60)
    <3> QED BY ONLY <2>1, <3>1 DEF ReadCall
  <2>3. call' = e /\ answer' = answer
    BY <2>1, <1>4, <1>5, <1>18, <1>22 DEF ReadCall
  <2>4. m = size
    <3>1. Least2(rest, size) = size
      BY <1>22 DEF Least2
    <3>2. Least2(size, len) = size
      BY <1>22 DEF Least2
    <3> QED BY <3>1, <3>2, <1>9, <1>16 DEF Most2
  <2>5. ReadIs(buffers, t, want, TrueView, e)
    <3>1. at + size < pos + k /\ pos < (at + size) + size
      BY ONLY <1>7, <1>8, <1>10, <1>22, at \in Nat, pos \in Nat, k \in Nat, size \in Nat, rest \in Nat
    <3>2. Most2(pos, at + size) = at + size
      BY <1>8 DEF Most2
    <3>3. ASSUME buffers PROVE at + size <= FileLen(t)
      <4>1. LensIn(t)
        BY <3>3, <1>14 DEF Fine
      <4>2. t.cache[b].len = 0 \/ at + t.cache[b].len <= FileLen(t)
        BY <4>1, <1>6, <1>14 DEF LensIn
      <4> QED BY <4>2, <1>7, <1>15, <1>22
    <3>4. TrueView => GotIs(want, e)
      BY <2>2, <1>21 DEF GotIs
    <3>5. Base(e.b) = at + size
      BY <2>2, <1>6, <1>7
    <3>6. Len(e.got) = Most2(e.pos, Base(e.b)) - e.pos
      BY <3>2, <3>5, <2>2, <2>4, <1>21
    <3> QED BY <3>1, <3>3, <3>4, <3>5, <3>6, <2>2, <1>7 DEF ReadIs
  <2>6. PlacingIs(buffers, t, want, TrueView, e)
    <3>1. ~(c.place >= 0)
      BY <1>2, <1>4 DEF ReadCall
    <3> QED BY <3>1, <2>2, <1>2, <1>4, <1>14 DEF PlacingIs, Placing
  <2>7. AnswerIs'
    BY <2>3, <1>4, AnswerStays
  <2> QED BY <2>2, <2>3, <2>5, <2>6, <2>7, <1>3, <1>4, <1>11, <1>14, <1>18, Reads
<1>23. CASE ~(rest > size /\ len = size)
  <2>1. PICK a : a = [op |-> "read", pos |-> pos, n |-> k, forced |-> c.forced, bytes |-> g]
    OBVIOUS
  <2>2. call' = NoCall /\ answer' = a
    BY <2>1, <1>18, <1>23
  <2>3. a \in Answers /\ a.op = "read" /\ a.pos = pos /\ a.n = k /\ a.bytes = g
    BY <2>1, <1>4, <1>5, <1>21 DEF Answers
  <2>4. ASSUME TrueView PROVE AllThere(want, pos, k, g)
    <3>1. GoodBlock(t, want, {}, b)
      BY <2>4, <1>14 DEF Fine, Good
    <3>2. GotAll(want, pos, g)
      BY <2>4, <1>21 DEF GotAll
    <3>3. RoundEnds(rest, len, low, m) /\ low < BlockSize
      BY <1>7, <1>9, <1>16, <1>23 DEF RoundEnds
    <3>4. /\ t \in Files /\ want \in Seq(Written) /\ b \in DOMAIN t.cache /\ at \in Nat /\ at = Base(b)
          /\ pos \in Nat /\ k \in Nat /\ rest \in Nat /\ rest = (pos + k) - at /\ low \in Nat
          /\ at + low >= pos /\ len \in Nat /\ len = t.cache[b].len /\ m \in Nat /\ g \in Seq(Vals)
          /\ Len(g) = at + m - pos /\ Opened
      BY <1>3, <1>6, <1>9, <1>10, <1>14, <1>15, <1>21
    <3> QED BY ONLY <3>1, <3>2, <3>3, <3>4, ReadEnds
  <2>5. AnswerIs'
    <3>1. answer'.op = "read" /\ answer'.pos = pos /\ answer'.n = k /\ answer'.bytes = g
      BY <2>2, <2>3
    <3>2. (~mode.shared \/ held) => AllThere(want, pos, k, g)
      BY <2>4, <1>4
    <3>3. ReadsAreTrue'
      BY <3>1, <3>2, <1>11 DEF ReadsAreTrue, AllThere
    <3>4. Quiet'
      BY <2>2 DEF Quiet
    <3> QED BY <3>1, <3>3, <3>4 DEF AnswerIs
  <2>6. ~t.rbuf.on
    <3>1. ~(c.place >= 0)
      BY <1>2, <1>4 DEF ReadCall
    <3> QED BY <3>1, <1>4, <1>14 DEF PlacingIs, Placing
  <2> QED BY <2>2, <2>3, <2>5, <2>6, <1>3, <1>4, <1>11, <1>14, <1>18, Facts, EndsCall
<1> QED BY <1>22, <1>23

(* A step that leaves a write in progress keeps the invariant if the       *)
(* write's part of it holds.                                               *)
LEMMA Writing ==
  ASSUME IInv, ~Quiet, mode' = mode, buffers' = buffers, held' = held, want' = want, writes' = writes,
         answer' = answer, s' \in Files, NEW c \in WriteCall, call' = c, c.op = "through" => ~buffers,
         NEW v \in BOOLEAN, v = (~mode.shared \/ held),
         NEW E, E = ToDo(c), NEW X, X = Open(buffers, c), Fine(buffers, s', want, E, X, v),
         CallIs(buffers, s', want, writes, v, c), ~s'.rbuf.on
  PROVE  IInv'
<1>1. call'.op \in {"write", "through"} /\ c \in Calls
  BY DEF WriteCall, Calls
<1>2. Opened /\ TypeOK /\ Alone
  BY Facts DEF IInv
<1>3. E = ToDo(call') /\ X = Open(buffers', call')
  OBVIOUS
<1>4. TypeOK'
  BY <1>1, <1>2 DEF TypeOK
<1>5. Alone'
  BY <1>1, <1>2 DEF Alone
<1>6. TrueView' = v
  <2>1. TrueView' <=> ~mode.shared \/ held
    BY <1>1 DEF TrueView
  <2>2. TrueView' \in BOOLEAN
    BY DEF TrueView
  <2> QED BY <2>1, <2>2
<1>7. PlacingIs(buffers', s', want', TrueView', call')
  BY <1>1 DEF PlacingIs, Placing
<1>8. AnswerIs'
  BY AnswerStays
<1>9. Fine(buffers', s', want', E, X, TrueView') /\ CallIs(buffers', s', want', writes', TrueView', call')
  BY <1>6
<1> QED BY <1>2, <1>3, <1>4, <1>5, <1>7, <1>8, <1>9, Together

(* One round of a write: the bytes from low to high of block b.            *)
RoundIs(c, b, at, low, high) ==
  /\ b = c.b /\ at = Base(b) /\ low = Most2(c.pos, at) /\ high = Least2(c.pos + c.n, at + BlockSize)
  /\ at <= low /\ low < high /\ high <= at + BlockSize /\ c.pos <= low /\ high <= c.pos + c.n
LEMMA RoundParts ==
  ASSUME Opened, NEW c \in WriteCall, NEW b \in Nat, b = c.b, NEW at \in Nat, at = Base(b),
         at < c.pos + c.n, c.pos < at + BlockSize,
         NEW low, low = Most2(c.pos, at), NEW high, high = Least2(c.pos + c.n, at + BlockSize)
  PROVE  RoundIs(c, b, at, low, high) /\ low \in Nat /\ high \in Nat
<1>1. PICK pos \in Nat, n \in Nat, size \in Nat : pos = c.pos /\ n = c.n /\ size = BlockSize /\ n > 0 /\ size > 0
  BY DEF WriteCall, Opened
<1>2. low = (IF pos > at THEN pos ELSE at) /\ high = (IF pos + n < at + size THEN pos + n ELSE at + size)
  BY <1>1 DEF Most2, Least2
<1>3. at < pos + n /\ pos < at + size
  BY <1>1
<1>4. /\ low \in Nat /\ high \in Nat /\ at <= low /\ low < high /\ high <= at + size
      /\ pos <= low /\ high <= pos + n
  BY ONLY <1>1, <1>2, <1>3, pos \in Nat, n \in Nat, size \in Nat, at \in Nat
<1> QED BY <1>1, <1>4 DEF RoundIs

(* The block of a round is fit to be written to.                           *)
LEMMA RoundFetched ==
  ASSUME Opened, buffers \in BOOLEAN, NEW v \in BOOLEAN, NEW t \in Files, NEW w \in Seq(Written),
         NEW c \in WriteCall, c.op = "write", NEW E, E = ToDo(c), NEW X, X = Open(buffers, c),
         Fine(buffers, t, w, E, X, v), buffers => v, NEW k, WriteIs(t, w, k, c),
         NEW b \in Nat, NEW at \in Nat, NEW low \in Nat, NEW high \in Nat, RoundIs(c, b, at, low, high),
         NEW u \in Fetched(t, b, low, high - low, high - low = BlockSize)
  PROVE  Fine(buffers, u, w, E, X, v) /\ FetchGives(t, b, u)
<1>1. PICK pos \in Nat, n \in Nat, size \in Nat : pos = c.pos /\ n = c.n /\ size = BlockSize /\ n > 0 /\ size > 0
  BY DEF WriteCall, Opened
<1>2. /\ b = c.b /\ at = Base(b) /\ low = Most2(pos, at) /\ high = Least2(pos + n, at + size)
      /\ at <= low /\ low < high /\ high <= at + size /\ pos <= low /\ high <= pos + n
  BY <1>1 DEF RoundIs
<1>3. PICK len \in Nat : len = FileLen(t)
  BY FileHas
<1>4. /\ Len(w) = Most2(len, pos + n)
      /\ \A p \in 0 .. Len(w) - 1 : p >= len /\ p < pos => w[p + 1] = AnyByte
  BY <1>1, <1>3 DEF WriteIs
<1>5. \A p \in Nat : InCall(c, p) <=> pos <= p /\ p < pos + n
  BY <1>1 DEF InCall
<1>6. \A p \in Nat : p \in E <=> InCall(c, p) /\ p >= at
  BY <1>2 DEF ToDo
<1>7. \A p \in Nat : p \in X => InCall(c, p)
  BY DEF Open
<1>8. ASSUME NEW p \in 0 .. Len(w) - 1, p \notin E, at <= p, p < at + size
      PROVE  p \notin X /\ (p >= len => w[p + 1] = AnyByte) /\ high - low # BlockSize
  <2>1. p \in Nat /\ p < Len(w)
    OBVIOUS
  <2>2. ~(pos <= p /\ p < pos + n)
    BY <2>1, <1>5, <1>6, <1>8
  <2>3. p \notin X
    BY <2>1, <2>2, <1>5, <1>7
  <2>4. p >= len => p < pos
    <3>1. Most2(len, pos + n) = IF len > pos + n THEN len ELSE pos + n
      BY DEF Most2
    <3>2. p < Most2(len, pos + n)
      BY <2>1, <1>4
    <3> QED BY ONLY <2>1, <2>2, <3>1, <3>2, len \in Nat, pos \in Nat, n \in Nat
  <2>5. high - low # size
    <3>1. SUFFICES ASSUME high - low = size PROVE FALSE
      OBVIOUS
    <3>2. low = at /\ high = at + size
      <4>1. at \in Nat /\ size \in Nat /\ low \in Nat /\ high \in Nat /\ at <= low /\ high <= at + size
        BY ONLY <1>2, at \in Nat, size \in Nat, low \in Nat, high \in Nat
      <4> QED BY ONLY <4>1, <3>1
    <3>3. at <= p /\ p < at + size
      BY <1>8
    <3>5. p \in Nat /\ pos <= low /\ high <= pos + n
      BY <2>1, <1>2
    <3>4. pos <= p /\ p < pos + n
      BY ONLY <3>2, <3>3, <3>5, low \in Nat, high \in Nat, at \in Nat, size \in Nat, pos \in Nat, n \in Nat
    <3> QED BY ONLY <2>2, <3>4
  <2> QED BY <2>3, <2>4, <2>5, <1>1, <1>4
<1>9. ReadApart(t, w, E, X, b)
  BY <1>1, <1>2, <1>3, <1>8 DEF ReadApart
<1>10. PICK whole \in BOOLEAN : whole = (high - low = BlockSize)
  OBVIOUS
<1>11. Blank(t, w, E, b, low, whole)
  <2>1. SUFFICES ASSUME NEW p \in 0 .. Len(w) - 1, p \notin E, at <= p, p < at + size
                 PROVE  ~whole /\ (at >= len => w[p + 1] = AnyByte)
    BY <1>1, <1>2, <1>3 DEF Blank
  <2>2. ~whole
    BY <2>1, <1>8, <1>10
  <2>3. at >= len => p >= len
    BY <2>1
  <2> QED BY <2>1, <2>2, <2>3, <1>8
<1>12. buffers => v /\ E = X
  <2>1. ASSUME buffers PROVE E = X
    BY <2>1 DEF ToDo, Open
  <2> QED BY <2>1
<1>13. u \in Fetched(t, b, low, high - low, whole)
  BY <1>10
<1> QED BY <1>9, <1>11, <1>12, <1>13, FetchedFine

(* After the round its bytes are exempt no longer, those of later blocks   *)
(* are.                                                                    *)
LEMMA RoundPart ==
  ASSUME NEW w \in Seq(Written), NEW c \in WriteCall, c.op = "write", NEW E, E = ToDo(c),
         NEW b \in Nat, NEW at \in Nat, NEW low \in Nat, NEW high \in Nat, RoundIs(c, b, at, low, high),
         BlockSize \in Nat, NEW F, F = {p \in Nat : InCall(c, p) /\ p >= at + BlockSize},
         NEW k, \A p \in Nat : InCall(c, p) => w[p + 1] = k
  PROVE  Part(w, E, F, low, high, k)
<1>1. PICK pos \in Nat, n \in Nat, size \in Nat : pos = c.pos /\ n = c.n /\ size = BlockSize
  BY DEF WriteCall
<1>2. /\ b = c.b /\ at = Base(b) /\ low = Most2(pos, at) /\ high = Least2(pos + n, at + size)
      /\ at <= low /\ low < high /\ high <= at + size /\ pos <= low /\ high <= pos + n
  BY <1>1 DEF RoundIs
<1>3. \A p \in Nat : InCall(c, p) <=> pos <= p /\ p < pos + n
  BY <1>1 DEF InCall
<1>4. \A p \in Nat : p \in E <=> InCall(c, p) /\ p >= at
  BY <1>2 DEF ToDo
<1>5. \A p \in Nat : p \in F <=> InCall(c, p) /\ p >= at + size
  BY <1>1
<1>6. low = (IF pos > at THEN pos ELSE at) /\ high = (IF pos + n < at + size THEN pos + n ELSE at + size)
  BY <1>2 DEF Most2, Least2
<1>7. SUFFICES ASSUME NEW p \in 0 .. Len(w) - 1
               PROVE  IF low <= p /\ p < high THEN w[p + 1] = k ELSE p \notin F => p \notin E
  BY DEF Part
<1>8. p \in Nat
  OBVIOUS
<1>9. CASE low <= p /\ p < high
  <2>1. pos <= p /\ p < pos + n
    <3>1. pos <= low /\ high <= pos + n
      BY ONLY <1>2
    <3> QED BY ONLY <3>1, <1>8, <1>9, low \in Nat, high \in Nat, pos \in Nat, n \in Nat
  <2> QED BY <2>1, <1>3, <1>8, <1>9
<1>10. CASE ~(low <= p /\ p < high)
  <2>1. ASSUME pos <= p, p < pos + n, p >= at PROVE p >= at + size
    BY ONLY <2>1, <1>6, <1>8, <1>10, low \in Nat, high \in Nat, pos \in Nat, n \in Nat, at \in Nat, size \in Nat
  <2> QED BY <2>1, <1>3, <1>4, <1>5, <1>8, <1>10
<1> QED BY <1>9, <1>10

(* A step of WriteBlock is one round, in the round's own words.            *)
RoundGives(c, b, low, high, t) ==
  LET u == [t EXCEPT !.cache[b].data = Put(@, low - Base(b), Bytes(high - low, writes), Junk),
                     !.cache[b].changed = @ \/ buffers]
      y == Grown(u, b, c.pos, high)
  IN /\ s' = y
     /\ call' = IF LastRound(c, b) \/ y.cache[b].len # BlockSize
                THEN IF buffers THEN NoCall ELSE [c EXCEPT !.op = "through"]
                ELSE [c EXCEPT !.b = b + 1]
LEMMA RoundOf ==
  ASSUME WriteBlock, NEW c, c = call, NEW b, b = c.b, NEW low, low = Most2(c.pos, Base(b)),
         NEW high, high = Least2(c.pos + c.n, Base(b + 1))
  PROVE  \E t \in Fetched(s, b, low, high - low, high - low = BlockSize) : RoundGives(c, b, low, high, t)
<1>1. \E t \in Fetched(s, call.b, Most2(call.pos, Base(call.b)),
                       Least2(call.pos + call.n, Base(call.b + 1)) - Most2(call.pos, Base(call.b)),
                       Least2(call.pos + call.n, Base(call.b + 1)) - Most2(call.pos, Base(call.b)) = BlockSize) :
         RoundGives(call, call.b, Most2(call.pos, Base(call.b)), Least2(call.pos + call.n, Base(call.b + 1)), t)
  BY ZenonT(60) DEF WriteBlock, RoundGives
<1> QED BY <1>1

LEMMA WriteBlockStep ==
  ASSUME IInv, WriteBlock
  PROVE  IInv'
<1>1. PICK c : c = call
  OBVIOUS
<1>2. c.op = "write"
  BY <1>1 DEF WriteBlock
<1>3. /\ Opened /\ Alone /\ s \in Files /\ want \in Seq(Written) /\ Len(want) \in Nat /\ buffers \in BOOLEAN
      /\ TrueView \in BOOLEAN /\ answer \in Answers /\ (buffers => TrueView) /\ writes \in Nat
      /\ Fine(buffers, s, want, ToDo(c), Open(buffers, c), TrueView)
      /\ CallIs(buffers, s, want, writes, TrueView, c)
      /\ PlacingIs(buffers, s, want, TrueView, c) /\ c \in Calls
  BY <1>1, Facts
<1>4. c \in WriteCall /\ WriteIs(s, want, writes, c) /\ ~s.rbuf.on
  BY <1>2, <1>3, CallKinds DEF CallIs, PlacingIs, Placing
<1>5. PICK b \in Nat, pos \in Nat, n \in Nat : b = c.b /\ pos = c.pos /\ n = c.n
  BY <1>4 DEF WriteCall
<1>6. PICK at \in Nat : at = Base(b) /\ Base(b + 1) = at + BlockSize
  BY <1>3, Bases
<1>7. PICK size \in Nat : size = BlockSize /\ size > 0
  BY <1>3 DEF Opened
<1>8. PICK low, high : low = Most2(pos, at) /\ high = Least2(pos + n, at + size)
  OBVIOUS
<1>9. RoundIs(c, b, at, low, high) /\ low \in Nat /\ high \in Nat
  <2>1. at < c.pos + c.n /\ c.pos < at + BlockSize
    BY <1>4, <1>5, <1>6 DEF WriteIs
  <2>2. low = Most2(c.pos, at) /\ high = Least2(c.pos + c.n, at + BlockSize)
    BY <1>5, <1>7, <1>8
  <2> QED BY <2>1, <2>2, <1>3, <1>4, <1>5, <1>6, RoundParts
<1>10. /\ at <= low /\ low < high /\ high <= at + size /\ pos <= low /\ high <= pos + n
       /\ high = (IF pos + n < at + size THEN pos + n ELSE at + size)
  <2>1. /\ at <= low /\ low < high /\ high <= at + size /\ pos <= low /\ high <= pos + n
        /\ high = Least2(pos + n, at + size)
    BY ONLY <1>5, <1>7, <1>8, <1>9, Zenon DEF RoundIs
  <2> QED BY ONLY <2>1 DEF Least2
<1>11. /\ mode' = mode /\ buffers' = buffers /\ held' = held /\ want' = want /\ writes' = writes
       /\ answer' = answer
  BY DEF WriteBlock
<1>12. PICK t \in Fetched(s, b, low, high - low, high - low = BlockSize) : RoundGives(c, b, low, high, t)
  <2>1. /\ b = call.b /\ c = call /\ low = Most2(call.pos, Base(call.b))
        /\ high = Least2(call.pos + call.n, Base(call.b + 1))
    BY <1>1, <1>5, <1>6, <1>7, <1>8
  <2> QED BY ONLY <2>1, WriteBlock, RoundOf
<1>13. PICK E, X : E = ToDo(c) /\ X = Open(buffers, c)
  OBVIOUS
<1>14. Fine(buffers, t, want, E, X, TrueView) /\ FetchGives(s, b, t)
  <2>1. Fine(buffers, s, want, E, X, TrueView)
    BY <1>3, <1>13
  <2>2. t \in Fetched(s, b, low, high - low, high - low = BlockSize)
    OBVIOUS
  <2> QED BY <2>1, <2>2, <1>2, <1>3, <1>4, <1>9, <1>13, RoundFetched
<1>15. t \in Files /\ b \in DOMAIN t.cache /\ FileLen(t) = FileLen(s) /\ ~t.rbuf.on
  BY <1>4, <1>14 DEF FetchGives
<1>16. PICK u : u = [t EXCEPT !.cache[b].data = Put(@, low - Base(b), Bytes(high - low, writes), Junk),
                              !.cache[b].changed = @ \/ buffers]
  OBVIOUS
<1>17. PICK y : y = Grown(u, b, pos, high)
  BY ZenonT(60)
<1>18. /\ s' = y
       /\ call' = IF LastRound(c, b) \/ y.cache[b].len # BlockSize
                  THEN IF buffers THEN NoCall ELSE [c EXCEPT !.op = "through"]
                  ELSE [c EXCEPT !.b = b + 1]
  <2>1. RoundGives(c, b, low, high, t)
    BY <1>12
  <2> QED BY ONLY <2>1, <1>5, <1>16, <1>17 DEF RoundGives
<1>19. WriteGives(t, b, low, high, writes, y)
  <2>1. low = Most2(pos, Base(b)) /\ high <= Base(b) + BlockSize /\ low < high
    BY <1>6, <1>7, <1>8, <1>10
  <2> QED BY <2>1, <1>3, <1>9, <1>15, <1>16, <1>17, WriteFields
<1>20. y \in Files /\ y.rbuf = t.rbuf /\ b \in DOMAIN y.cache /\ high <= at + y.cache[b].len
  BY <1>6, <1>15, <1>19 DEF WriteGives
<1>21. PICK F : F = {p \in Nat : InCall(c, p) /\ p >= at + BlockSize}
  OBVIOUS
<1>22. PICK Y : Y = IF buffers THEN F ELSE X
  OBVIOUS
<1>23. Part(want, E, F, low, high, writes)
  <2>1. \A p \in Nat : InCall(c, p) => want[p + 1] = writes
    BY <1>4 DEF WriteIs
  <2>2. BlockSize \in Nat
    BY <1>7
  <2> QED BY <2>1, <2>2, <1>2, <1>3, <1>4, <1>9, <1>13, <1>21, RoundPart
<1>24. /\ Fine(buffers, y, want, F, Y, TrueView)
       /\ FileLen(y) = IF buffers THEN Most2(FileLen(t), high) ELSE FileLen(t)
  <2>1. buffers => E = X
    <3>1. ASSUME buffers PROVE E = X
      BY <3>1, <1>13 DEF ToDo, Open
    <3> QED BY <3>1
  <2>2. buffers => TrueView /\ E = X /\ F = Y
    BY <2>1, <1>3, <1>22
  <2>3. ~buffers => Y = X
    BY <1>22
  <2>4. Base(b) <= low /\ low < high /\ high <= Base(b) + BlockSize
    BY <1>6, <1>7, <1>10
  <2> QED BY <2>2, <2>3, <2>4, <1>3, <1>9, <1>14, <1>15, <1>19, <1>23, WriteFine
<1>25. PICK old \in Nat, new \in Nat : old = FileLen(s) /\ new = FileLen(y)
  BY <1>3, <1>20, FileHas
<1>26. /\ new = IF buffers /\ old < high THEN high ELSE old
       /\ Len(want) = IF old > pos + n THEN old ELSE pos + n
  <2>1. Len(want) = Most2(old, pos + n)
    BY <1>4, <1>5, <1>25 DEF WriteIs
  <2>2. new = IF buffers THEN Most2(old, high) ELSE old
    BY <1>15, <1>24, <1>25
  <2>3. Most2(old, high) = IF old < high THEN high ELSE old
    BY <1>9 DEF Most2
  <2> QED BY <2>1, <2>2, <2>3 DEF Most2
<1>27. LastRound(c, b) <=> pos + n <= at + size
  BY <1>5, <1>6, <1>7 DEF LastRound
<1>28. LastRound(c, b) \/ y.cache[b].len # BlockSize <=> LastRound(c, b)
  <2>1. PICK len \in Nat : len = y.cache[b].len /\ len <= size
    BY <1>3, <1>7, <1>20, BlockHas
  <2>2. ~(pos + n <= at + size) => len = size
    BY ONLY <2>1, <1>7, <1>10, <1>20, high \in Nat, at \in Nat, size \in Nat, pos \in Nat, n \in Nat, len \in Nat
  <2> QED BY <2>1, <2>2, <1>7, <1>27
<1>29. TrueView = (~mode.shared \/ held) /\ ~Quiet
  <2>1. TrueView <=> ~mode.shared \/ held
    BY <1>1, <1>2 DEF TrueView
  <2>2. ~Quiet
    BY <1>1, <1>2 DEF Quiet, NoCall
  <2> QED BY <2>1, <2>2, <1>3
<1>30. \A p \in Nat : InCall(c, p) => want[p + 1] = writes
  BY <1>4 DEF WriteIs
<1>31. \A p \in 0 .. Len(want) - 1 : p >= old /\ p < pos => want[p + 1] = AnyByte
  BY <1>4, <1>5, <1>25 DEF WriteIs
<1>32. CASE ~LastRound(c, b)
  <2>1. PICK e : e = [c EXCEPT !.b = b + 1]
    OBVIOUS
  <2>2. e \in WriteCall /\ e.op = "write" /\ e.pos = pos /\ e.n = n /\ e.b = b + 1
    BY <2>1, <1>2, <1>4, <1>5 DEF WriteCall
  <2>3. call' = e
    BY <2>1, <1>18, <1>28, <1>32
  <2>4. \A p : InCall(e, p) <=> InCall(c, p)
    BY <2>2, <1>5 DEF InCall
  <2>5. Base(e.b) = at + BlockSize
    BY <2>2, <1>6
  <2>6. F = ToDo(e)
    BY <2>2, <2>4, <2>5, <1>21 DEF ToDo
  <2>7. Y = Open(buffers, e)
    <3>1. CASE buffers
      <4>1. Open(buffers, e) = F
        BY <3>1, <2>2, <2>4, <2>5, <1>21 DEF Open
      <4> QED BY <4>1, <3>1, <1>22
    <3>2. CASE ~buffers
      <4>1. Open(buffers, e) = Open(buffers, c)
        BY <3>2, <2>2, <2>4, <1>2 DEF Open
      <4> QED BY <4>1, <3>2, <1>13, <1>22
    <3> QED BY <3>1, <3>2
  <2>8. WriteIs(y, want, writes, e)
    <3>6. ~(pos + n <= at + size)
      BY <1>27, <1>32
    <3>1. at + size < pos + n /\ pos < (at + size) + size /\ high = at + size
      <4>1. at + size < pos + n
        BY ONLY <3>6, pos \in Nat, n \in Nat, at \in Nat, size \in Nat
      <4>2. high = at + size
        BY ONLY <4>1, <1>10, pos \in Nat, n \in Nat, at \in Nat, size \in Nat
      <4>3. pos < at + size
        BY <1>4, <1>5, <1>6, <1>7 DEF WriteIs
      <4> QED BY ONLY <4>1, <4>2, <4>3, pos \in Nat, n \in Nat, at \in Nat, size \in Nat
    <3>2. Len(want) = (IF new > pos + n THEN new ELSE pos + n) /\ old <= new
      BY ONLY <3>1, <1>26, old \in Nat, new \in Nat, high \in Nat, pos \in Nat, n \in Nat, at \in Nat, size \in Nat
    <3>3. Len(want) = Most2(new, pos + n)
      BY <3>2 DEF Most2
    <3>4. \A p \in 0 .. Len(want) - 1 : p >= new /\ p < pos => want[p + 1] = AnyByte
      <4>1. ASSUME NEW p \in 0 .. Len(want) - 1, p >= new PROVE p >= old
        BY <4>1, <3>2
      <4> QED BY <4>1, <1>31
    <3>5. \A p \in Nat : InCall(e, p) => want[p + 1] = writes
      BY <2>4, <1>30
    <3> QED BY <3>1, <3>3, <3>4, <3>5, <2>2, <2>5, <1>7, <1>25 DEF WriteIs
  <2>9. CallIs(buffers, y, want, writes, TrueView, e)
    BY <2>2, <2>8 DEF CallIs
  <2>10. e.op = "through" => ~buffers
    BY <2>2
  <2> QED BY <2>2, <2>3, <2>6, <2>7, <2>9, <2>10, <1>3, <1>11, <1>15, <1>18, <1>20, <1>24, <1>29, Writing
<1>33. CASE LastRound(c, b)
  <2>1. F = {}
    <3>1. ASSUME NEW p \in Nat, InCall(c, p), p >= at + BlockSize PROVE FALSE
      <4>1. p < pos + n /\ p >= at + size /\ pos + n <= at + size
        BY <3>1, <1>5, <1>7, <1>27, <1>33 DEF InCall
      <4> QED BY ONLY <4>1, p \in Nat, pos \in Nat, n \in Nat, at \in Nat, size \in Nat
    <3> QED BY <3>1, <1>21
  <2>2. high = pos + n
    BY ONLY <1>10, <1>27, <1>33, pos \in Nat, n \in Nat, at \in Nat, size \in Nat, high \in Nat
  <2>3. CASE buffers
    <3>1. call' = NoCall
      BY <2>3, <1>18, <1>33
    <3>2. FileLen(y) = Len(want)
      BY ONLY <2>2, <2>3, <1>25, <1>26, old \in Nat, new \in Nat, pos \in Nat, n \in Nat, high \in Nat
    <3>3. Fine(buffers, y, want, {}, {}, TrueView)
      BY <2>1, <2>3, <1>22, <1>24
    <3>4. AnswerIs'
      BY <1>11, <1>29, AnswerStays
    <3> QED BY <3>1, <3>2, <3>3, <3>4, <1>3, <1>11, <1>15, <1>18, <1>20, <1>29, EndsCall
  <2>4. CASE ~buffers
    <3>1. PICK e : e = [c EXCEPT !.op = "through"]
      OBVIOUS
    <3>2. e \in WriteCall /\ e.op = "through" /\ e.pos = pos /\ e.n = n /\ e.b = b
      BY <3>1, <1>4, <1>5 DEF WriteCall
    <3>3. call' = e
      BY <3>1, <2>4, <1>18, <1>33
    <3>4. \A p : InCall(e, p) <=> InCall(c, p)
      BY <3>2, <1>5 DEF InCall
    <3>5. F = ToDo(e)
      BY <3>2, <2>1 DEF ToDo
    <3>6. Y = Open(buffers, e)
      <4>1. Open(buffers, e) = Open(buffers, c)
        BY <3>2, <3>4, <2>4, <1>2 DEF Open
      <4> QED BY <4>1, <2>4, <1>13, <1>22
    <3>7. ThroughIs(y, want, writes, e)
      <4>1. Len(want) = Most2(new, pos + n)
        BY <2>4, <1>26 DEF Most2
      <4>2. \A p \in Nat : InCall(e, p) => want[p + 1] = writes
        BY <3>4, <1>30
      <4> QED BY <4>1, <4>2, <3>2, <1>25 DEF ThroughIs
    <3>8. CallIs(buffers, y, want, writes, TrueView, e)
      BY <3>2, <3>7 DEF CallIs
    <3> QED BY <3>2, <3>3, <3>5, <3>6, <3>8, <2>4, <1>3, <1>11, <1>15, <1>18, <1>20, <1>24, <1>29, Writing
  <2> QED BY <2>3, <2>4
<1> QED BY ONLY <1>32, <1>33, Zenon

(* The length of a file that buffers.  It is cut at the edge of a block.   *)
LEMMA EdgeOf ==
  ASSUME Opened, NEW n \in Nat, n = Base(BlockOf(n))
  PROVE  n % BlockSize = 0
<1>1. BlockSize \in Nat /\ BlockSize > 0
  BY DEF Opened
<1>2. n = (n \div BlockSize) * BlockSize
  BY DEF Base, BlockOf
<1> QED BY <1>1, <1>2

LenBecomes(t, n, u) ==
  /\ u \in Files /\ u.disk = t.disk /\ u.wbuf = t.wbuf /\ u.rbuf = t.rbuf /\ u.cache = t.cache /\ u.flen = n
LEMMA LenFields ==
  ASSUME NEW t \in Files, NEW n \in Nat, NEW u, u = [t EXCEPT !.flen = n]
  PROVE  LenBecomes(t, n, u)
BY FilesAre DEF LenBecomes

(* The file is cut at the edge of a block.                                 *)
Sized(B, t, y, n, v, u) == u \in Files /\ Fine(B, u, y, {}, {}, v) /\ FileLen(u) = n /\ u.rbuf = t.rbuf
LEMMA CutFine ==
  ASSUME Opened, NEW B \in BOOLEAN, B, NEW v \in BOOLEAN, NEW f \in Files, NEW y \in Seq(Written),
         NEW n \in Nat, NEW b \in Nat, n = Base(b), Len(y) = n, Fine(B, f, y, {}, {}, v), ~f.wbuf.on,
         NEW D, D = {x \in DOMAIN f.cache : Base(x) >= n},
         NEW u, u = Drop(f, D), NEW z, z = [u EXCEPT !.flen = n]
  PROVE  Sized(B, f, y, n, v, z)
<1>1. DropGives(f, D, u)
  BY DropFields
<1>2. /\ u \in Files /\ u.disk = f.disk /\ u.wbuf = f.wbuf /\ u.rbuf = f.rbuf
      /\ DOMAIN u.cache = DOMAIN f.cache \ D /\ \A x \in DOMAIN u.cache : u.cache[x] = f.cache[x]
  BY <1>1 DEF DropGives
<1>3. LenBecomes(u, n, z)
  BY <1>2, LenFields
<1>4. /\ z \in Files /\ z.disk = f.disk /\ z.wbuf = f.wbuf /\ z.rbuf = f.rbuf /\ z.flen = n
      /\ DOMAIN z.cache = DOMAIN f.cache \ D /\ \A x \in DOMAIN z.cache : z.cache[x] = f.cache[x]
  BY <1>2, <1>3 DEF LenBecomes
<1>5. n # Unknown /\ BlockSize \in Nat
  BY DEF Opened
<1>6. FileLen(z) = n
  BY <1>4, <1>5 DEF FileLen
<1>7. Cov(z, y, {})
  <2>1. SUFFICES ASSUME NEW p \in 0 .. Len(y) - 1 PROVE Agrees(Stands(z, p), y[p + 1])
    BY DEF Cov
  <2>2. p \in Nat /\ p < n
    OBVIOUS
  <2>3. BlockOf(p) \in Nat /\ Base(BlockOf(p)) \in Nat /\ Base(BlockOf(p)) <= p
    BY <2>2, ByteIn
  <2>4. BlockOf(p) \notin D
    BY <2>2, <2>3
  <2>5. (Covered(z, p) <=> Covered(f, p)) /\ (Covered(z, p) => z.cache[BlockOf(p)] = f.cache[BlockOf(p)])
    BY <2>4, <1>4 DEF Covered
  <2>6. Stands(z, p) = Stands(f, p)
    BY <2>5, <1>4 DEF Stands
  <2>7. Agrees(Stands(f, p), y[p + 1])
    BY DEF Fine, Cov
  <2> QED BY <2>6, <2>7
<1>8. Gap(z, y, {})
  BY <1>4 DEF Gap
<1>9. LensIn(z)
  <2>1. ASSUME NEW x \in DOMAIN z.cache PROVE Base(x) + z.cache[x].len <= n
    <3>1. x \in Nat /\ z.cache[x].len \in Nat /\ z.cache[x].len <= BlockSize /\ Base(x) \in Nat
      BY <1>4, BlockHas
    <3>2. x \notin D /\ x \in DOMAIN f.cache
      BY <1>4
    <3>3. Base(x) < Base(b)
      BY <3>1, <3>2
    <3>4. x < b
      <4>1. b < x => Base(b) + BlockSize <= Base(x)
        BY <3>1, Bases
      <4>2. ~(b < x) /\ x # b
        BY <4>1, <3>1, <3>3, <1>5
      <4> QED BY <4>2, <3>1
    <3>5. Base(x) + BlockSize <= n
      BY <3>1, <3>4, Bases
    <3> QED BY <3>1, <3>5, <1>5
  <2> QED BY <2>1, <1>4, <1>5, <1>6 DEF LensIn
<1>10. v => Good(z, y, {})
  BY <1>4 DEF Fine, Good, GoodBlock
<1>11. Fine(B, z, y, {}, {}, v)
  BY <1>7, <1>8, <1>9, <1>10 DEF Fine
<1> QED BY <1>4, <1>6, <1>11 DEF Sized

(* It grows: the block it ends in is longer, by bytes nobody wrote.        *)
LEMMA ExtendFine ==
  ASSUME Opened, NEW B \in BOOLEAN, B, NEW v \in BOOLEAN, v, NEW t \in Files, NEW y \in Seq(Written),
         NEW n \in Nat, NEW old \in Nat, t.flen = old, old <= n, Len(y) = n,
         Fine(B, t, y, {}, {}, v), \A p \in Nat : old <= p /\ p < n => y[p + 1] = AnyByte,
         NEW u, u = Extend(t, n, old), NEW z, z = [u EXCEPT !.flen = n]
  PROVE  Sized(B, t, y, n, v, z)
<1>1. PICK b \in Nat : b = BlockOf(old)
  BY ByteIn
<1>2. PICK at \in Nat, size \in Nat : at = Base(b) /\ size = BlockSize /\ size > 0 /\ at <= old
  BY <1>1, ByteIn
<1>3. FileLen(t) = old /\ n # Unknown /\ old # Unknown
  BY DEF FileLen, Opened
<1>4. Cov(t, y, {}) /\ Gap(t, y, {}) /\ LensIn(t) /\ Good(t, y, {})
  BY DEF Fine
<1>5. CASE b \notin DOMAIN t.cache
  <2>1. u = t
    BY <1>1, <1>5 DEF Extend
  <2>2. LenBecomes(t, n, z)
    BY <2>1, LenFields
  <2>3. /\ z \in Files /\ z.disk = t.disk /\ z.wbuf = t.wbuf /\ z.rbuf = t.rbuf /\ z.cache = t.cache
        /\ z.flen = n
    BY <2>2 DEF LenBecomes
  <2>4. FileLen(z) = n
    BY <2>3, <1>3 DEF FileLen
  <2>5. \A p : (Covered(z, p) <=> Covered(t, p)) /\ Stands(z, p) = Stands(t, p)
    BY ONLY <2>3 DEF Covered, Stands, WEnd
  <2>6. Cov(z, y, {}) /\ Gap(z, y, {}) /\ Good(z, y, {})
    BY <2>3, <2>5, <1>4 DEF Cov, Gap, Good, GoodBlock, WEnd
  <2>7. LensIn(z)
    <3>1. ASSUME NEW x \in DOMAIN t.cache PROVE t.cache[x].len = 0 \/ Base(x) + t.cache[x].len <= n
      <4>1. t.cache[x].len = 0 \/ Base(x) + t.cache[x].len <= old
        BY <1>3, <1>4 DEF LensIn
      <4>2. Base(x) + t.cache[x].len \in Nat
        BY BlockHas, SMTT(60)
      <4> QED BY <4>1, <4>2
    <3> QED BY <3>1, <2>3, <2>4, <1>3 DEF LensIn
  <2> QED BY <2>3, <2>4, <2>6, <2>7 DEF Sized, Fine
<1>6. CASE b \in DOMAIN t.cache
  <2>1. PICK l \in Nat : l = t.cache[b].len /\ l <= size
    BY <1>2, <1>6, BlockHas
  <2>2. PICK m \in Nat : m = Least2(size, n - at) /\ m <= size /\ at + m <= n
    BY <1>2 DEF Least2
  <2>3. l <= m
    <3>1. l = 0 \/ at + l <= old
      BY <2>1, <1>2, <1>3, <1>4, <1>6 DEF LensIn
    <3>2. m = IF size < n - at THEN size ELSE n - at
      BY <2>2 DEF Least2
    <3> QED BY ONLY <2>1, <3>1, <3>2, <1>2, old <= n, l \in Nat, m \in Nat, size \in Nat, at \in Nat, old \in Nat, n \in Nat
  <2>4. u = [t EXCEPT !.cache[b].len = m]
    BY <2>2, <1>1, <1>2, <1>6 DEF Extend
  <2>5. PICK e : e = [data |-> t.cache[b].data, len |-> m, changed |-> t.cache[b].changed]
    OBVIOUS
  <2>6. Becomes(t, b, e, t.flen, u)
    <3>1. m \in 0 .. BlockSize
      BY <2>2, <1>2
    <3> QED BY <3>1, <2>4, <2>5, <1>6, NewLen
  <2>7. e.data = t.cache[b].data /\ e.len = m /\ e.changed = t.cache[b].changed
    BY <2>5
  <2>8. u \in Files
    BY <2>6 DEF Becomes
  <2>9. LenBecomes(u, n, z)
    BY <2>8, LenFields
  <2>10. /\ z \in Files /\ z.disk = t.disk /\ z.wbuf = t.wbuf /\ z.rbuf = t.rbuf /\ z.flen = n
         /\ DOMAIN z.cache = DOMAIN t.cache
         /\ \A x \in DOMAIN t.cache : x # b => z.cache[x] = t.cache[x]
         /\ z.cache[b].data = t.cache[b].data /\ z.cache[b].len = m
         /\ z.cache[b].changed = t.cache[b].changed
    BY <2>6, <2>7, <2>9 DEF Becomes, LenBecomes
  <2>11. FileLen(z) = n
    BY <2>10, <1>3 DEF FileLen
  <2>12. \A p \in Nat : BlockOf(p) = b /\ ~(p - at < l) /\ p < n => y[p + 1] = AnyByte
    <3>1. SUFFICES ASSUME NEW p \in Nat, BlockOf(p) = b, ~(p - at < l), p < n PROVE y[p + 1] = AnyByte
      OBVIOUS
    <3>2. p \in 0 .. Len(y) - 1
      BY <3>1
    <3>3. at <= p /\ p < at + BlockSize
      BY <3>1, <1>2, ByteIn
    <3> QED BY <3>1, <3>2, <3>3, <2>1, <1>2, <1>4, <1>6 DEF Good, GoodBlock
  <2>13. \A p \in Nat : Covered(t, p) => Covered(z, p)
    <3>1. SUFFICES ASSUME NEW p \in Nat, Covered(t, p) PROVE Covered(z, p)
      OBVIOUS
    <3>2. CASE BlockOf(p) = b
      <4>1. p - at < l /\ b \in DOMAIN z.cache /\ z.cache[b].changed
        BY <3>1, <3>2, <2>1, <2>10, <1>2 DEF Covered
      <4>2. p - at < m
        BY <4>1, <2>3, <1>2
      <4> QED BY <4>1, <4>2, <3>2, <2>10, <1>2 DEF Covered
    <3>3. CASE BlockOf(p) # b
      BY <3>1, <3>3, <2>10 DEF Covered
    <3> QED BY <3>2, <3>3
  <2>18. /\ WEnd(z) = WEnd(t) /\ z.disk = t.disk /\ z.wbuf = t.wbuf
         /\ z.cache[b].data = t.cache[b].data
    BY <2>10 DEF WEnd
  <2>14. Cov(z, y, {})
    <3>1. SUFFICES ASSUME NEW p \in 0 .. Len(y) - 1, y[p + 1] # AnyByte PROVE Stands(z, p) = y[p + 1]
      BY DEF Cov, Agrees
    <3>2. p \in Nat /\ p < n
      OBVIOUS
    <3>3. Stands(t, p) = y[p + 1]
      BY <3>1, <1>4 DEF Cov, Agrees
    <3>4. CASE BlockOf(p) = b
      <4>1. p - at < l
        BY <3>1, <3>2, <3>4, <2>12
      <4>2. Covered(z, p) <=> Covered(t, p)
        <5>1. Covered(z, p) => Covered(t, p)
          BY <4>1, <3>4, <2>1, <2>10, <1>2, <1>6 DEF Covered
        <5> QED BY <5>1, <3>2, <2>13
      <4>3. Stands(z, p) = Stands(t, p)
        BY ONLY <4>2, <3>4, <2>18 DEF Stands
      <4> QED BY <4>3, <3>3
    <3>5. CASE BlockOf(p) # b
      <4>1. (Covered(z, p) <=> Covered(t, p)) /\ (Covered(z, p) => z.cache[BlockOf(p)] = t.cache[BlockOf(p)])
        BY <3>5, <2>10 DEF Covered
      <4>2. Stands(z, p) = Stands(t, p)
        BY ONLY <4>1, <2>18 DEF Stands
      <4> QED BY <4>2, <3>3
    <3> QED BY <3>4, <3>5
  <2>15. Gap(z, y, {})
    <3>1. WEnd(z) = WEnd(t) /\ z.wbuf = t.wbuf
      BY <2>10 DEF WEnd
    <3>2. \A p \in 0 .. Len(y) - 1 : p \in Nat
      OBVIOUS
    <3> QED BY <3>1, <3>2, <2>13, <1>4 DEF Gap
  <2>16. LensIn(z)
    <3>1. ASSUME NEW x \in DOMAIN z.cache PROVE z.cache[x].len = 0 \/ Base(x) + z.cache[x].len <= n
      <4>1. CASE x = b
        BY <4>1, <2>2, <2>10, <1>2
      <4>2. CASE x # b
        <5>1. t.cache[x].len = 0 \/ Base(x) + t.cache[x].len <= old
          BY <4>2, <2>10, <1>3, <1>4 DEF LensIn
        <5>2. Base(x) + t.cache[x].len \in Nat /\ x \in DOMAIN t.cache
          BY ONLY <2>10, BlockHas, Opened, t \in Files, b \in DOMAIN t.cache, <1>6, SMTT(60)
        <5> QED BY <4>2, <5>1, <5>2, <2>10
      <4> QED BY <4>1, <4>2
    <3> QED BY <3>1, <2>10, <2>11, <1>3 DEF LensIn
  <2>17. Good(z, y, {})
    <3>1. ASSUME NEW x \in DOMAIN z.cache, x # b PROVE GoodBlock(z, y, {}, x)
      BY <3>1, <2>10, <1>4 DEF Good, GoodBlock
    <3>2. GoodBlock(z, y, {}, b)
      <4>1. SUFFICES ASSUME NEW p \in 0 .. Len(y) - 1, at <= p, p < at + size
                     PROVE  IF p - at < m THEN Agrees(t.cache[b].data[p - at + 1], y[p + 1]) ELSE y[p + 1] = AnyByte
        BY <2>10, <1>2 DEF GoodBlock
      <4>2. IF p - at < l THEN Agrees(t.cache[b].data[p - at + 1], y[p + 1]) ELSE y[p + 1] = AnyByte
        BY <4>1, <2>1, <1>2, <1>4, <1>6 DEF Good, GoodBlock
      <4>3. p - at < l => p - at < m
        BY <4>1, <2>3
      <4> QED BY <4>2, <4>3 DEF Agrees
    <3> QED BY <3>1, <3>2 DEF Good
  <2> QED BY <2>10, <2>11, <2>14, <2>15, <2>16, <2>17 DEF Sized, Fine
<1> QED BY <1>5, <1>6

(* The length of a file that does not buffer.                              *)
ResizeGives(q, n, fill, y) ==
  /\ Len(y) = n /\ \A p \in 0 .. n - 1 : y[p + 1] = IF p < Len(q) THEN q[p + 1] ELSE fill
LEMMA DiskResized ==
  ASSUME Opened, NEW q \in Seq(Vals), NEW n \in Nat, NEW y, y = Resize(q, n, Junk)
  PROVE  y \in Seq(Vals) /\ ResizeGives(q, n, Junk, y)
<1>1. Junk \in Vals
  BY DEF Vals
<1>2. /\ Resize(q, n, Junk) \in Seq(Vals) /\ Len(Resize(q, n, Junk)) = n
      /\ \A i \in 1 .. n : Resize(q, n, Junk)[i] = IF i <= Len(q) THEN q[i] ELSE Junk
  BY <1>1, ResizeVals
<1>3. \A p \in 0 .. n - 1 : p + 1 \in 1 .. n /\ (p + 1 <= Len(q) <=> p < Len(q))
  OBVIOUS
<1> QED BY <1>2, <1>3 DEF ResizeGives
LEMMA WantResized ==
  ASSUME NEW q \in Seq(Written), NEW n \in Nat, NEW y, y = Resize(q, n, AnyByte)
  PROVE  y \in Seq(Written) /\ ResizeGives(q, n, AnyByte, y)
<1>1. AnyByte \in Written
  BY DEF Written
<1>2. /\ Resize(q, n, AnyByte) \in Seq(Written) /\ Len(Resize(q, n, AnyByte)) = n
      /\ \A i \in 1 .. n : Resize(q, n, AnyByte)[i] = IF i <= Len(q) THEN q[i] ELSE AnyByte
  BY <1>1, ResizeWant
<1>3. \A p \in 0 .. n - 1 : p + 1 \in 1 .. n /\ (p + 1 <= Len(q) <=> p < Len(q))
  OBVIOUS
<1> QED BY <1>2, <1>3 DEF ResizeGives

(* What Shorten forgets.                                                   *)
ShortenGives(f, n, u) ==
  /\ u \in Files /\ u.disk = f.disk /\ u.wbuf = f.wbuf /\ u.rbuf = f.rbuf /\ u.flen = f.flen
  /\ DOMAIN u.cache \subseteq DOMAIN f.cache
  /\ \A x \in DOMAIN u.cache :
       /\ u.cache[x].data = f.cache[x].data /\ u.cache[x].changed = f.cache[x].changed
       /\ u.cache[x].len = f.cache[x].len \/ (x = 0 /\ n < BlockSize /\ n % BlockSize # 0 /\ u.cache[x].len = n)
LEMMA ShortenFields ==
  ASSUME Opened, NEW f \in Files, NEW n \in Nat, NEW u, u = Shorten(f, n)
  PROVE  ShortenGives(f, n, u)
<1>1. PICK D : D = {x \in DOMAIN f.cache : Base(x) >= n}
  OBVIOUS
<1>2. CASE ~(n % BlockSize # 0 /\ BlockOf(n) = 0 /\ 0 \in DOMAIN f.cache)
  <2>1. u = Drop(f, D)
    BY <1>1, <1>2 DEF Shorten
  <2>2. DropGives(f, D, u)
    BY <2>1, DropFields
  <2> QED BY <2>2 DEF DropGives, ShortenGives
<1>3. CASE n % BlockSize # 0 /\ BlockOf(n) = 0 /\ 0 \in DOMAIN f.cache
  <2>1. n < BlockSize /\ BlockSize \in Nat
    <3>1. n < Base(BlockOf(n)) + BlockSize
      BY ByteIn
    <3>2. Base(0) = 0 /\ BlockSize \in Nat
      BY Bases
    <3> QED BY <3>1, <3>2, <1>3
  <2>2. PICK g : g = [f EXCEPT !.cache[0].len = n]
    OBVIOUS
  <2>3. PICK e : e = [data |-> f.cache[0].data, len |-> n, changed |-> f.cache[0].changed]
    OBVIOUS
  <2>4. Becomes(f, 0, e, f.flen, g)
    <3>1. PICK z : z = 0
      OBVIOUS
    <3>2. z \in DOMAIN f.cache /\ n \in 0 .. BlockSize
      BY <3>1, <2>1, <1>3
    <3>3. Becomes(f, z, e, f.flen, g)
      BY <3>1, <3>2, <2>2, <2>3, NewLen
    <3> QED BY <3>1, <3>3
  <2>5. e.data = f.cache[0].data /\ e.len = n /\ e.changed = f.cache[0].changed
    BY <2>3
  <2>6. /\ g \in Files /\ g.disk = f.disk /\ g.wbuf = f.wbuf /\ g.rbuf = f.rbuf /\ g.flen = f.flen
        /\ DOMAIN g.cache = DOMAIN f.cache /\ g.cache[0] = e
        /\ \A x \in DOMAIN f.cache : x # 0 => g.cache[x] = f.cache[x]
    BY <2>4 DEF Becomes
  <2>7. u = Drop(g, D)
    BY <2>2, <1>1, <1>3 DEF Shorten
  <2>8. DropGives(g, D, u)
    BY <2>6, <2>7, DropFields
  <2> QED BY <2>1, <2>5, <2>6, <2>8, <1>3 DEF DropGives, ShortenGives
<1> QED BY <1>2, <1>3

(* The disk is cut or grown under blocks that are all clean.               *)
LEMMA ResizeFine ==
  ASSUME Opened, NEW B \in BOOLEAN, ~B, NEW v \in BOOLEAN, NEW f \in Files, NEW y \in Seq(Written),
         NEW n \in Nat, Len(y) = n, Fine(B, f, y, {}, {}, v), NEW old \in Nat, FileLen(f) = old,
         \A p \in Nat : old <= p /\ p < n => y[p + 1] = AnyByte, n < old => n % BlockSize = 0,
         NEW u, u = Shorten(f, n), NEW z, z = [u EXCEPT !.disk = Resize(u.disk, n, Junk)]
  PROVE  Sized(B, f, y, n, v, z)
<1>1. Straight(f) /\ Cov(f, y, {}) /\ (v => Good(f, y, {}))
  BY DEF Fine
<1>2. /\ u \in Files /\ u.disk = f.disk /\ u.wbuf = f.wbuf /\ u.rbuf = f.rbuf /\ u.flen = f.flen
      /\ DOMAIN u.cache \subseteq DOMAIN f.cache
      /\ \A x \in DOMAIN u.cache :
           /\ u.cache[x].data = f.cache[x].data /\ u.cache[x].changed = f.cache[x].changed
           /\ u.cache[x].len = f.cache[x].len \/ (x = 0 /\ n < BlockSize /\ n % BlockSize # 0 /\ u.cache[x].len = n)
  BY ShortenFields DEF ShortenGives
<1>3. PICK q : q = Resize(u.disk, n, Junk)
  OBVIOUS
<1>4. q \in Seq(Vals) /\ ResizeGives(f.disk, n, Junk, q) /\ f.disk \in Seq(Vals)
  <2>1. f.disk \in Seq(Vals)
    BY FileHas
  <2>2. q = Resize(f.disk, n, Junk)
    BY <1>2, <1>3
  <2> QED BY <2>1, <2>2, DiskResized
<1>5. DiskBecomes(u, q, z)
  BY <1>2, <1>3, <1>4, NewDisk
<1>6. /\ z \in Files /\ z.disk = q /\ z.wbuf = f.wbuf /\ z.rbuf = f.rbuf /\ z.flen = f.flen
      /\ z.cache = u.cache
  BY <1>2, <1>5 DEF DiskBecomes
<1>7. Len(f.disk) = old
  BY <1>1 DEF Straight, FileLen
<1>8. Len(q) = n /\ \A p \in 0 .. n - 1 : q[p + 1] = IF p < old THEN f.disk[p + 1] ELSE Junk
  BY <1>4, <1>7 DEF ResizeGives
<1>9. Straight(z)
  BY <1>1, <1>2, <1>6 DEF Straight
<1>10. FileLen(z) = n
  BY <1>6, <1>8, <1>9 DEF Straight, FileLen
<1>11. Cov(z, y, {})
  <2>1. SUFFICES ASSUME NEW p \in 0 .. Len(y) - 1 PROVE Agrees(Stands(z, p), y[p + 1])
    BY DEF Cov
  <2>2. p \in Nat /\ p < n /\ p \in 0 .. n - 1
    OBVIOUS
  <2>3. Stands(z, p) = q[p + 1]
    BY <2>2, <1>6, <1>8, <1>9, StandsOnDisk
  <2>4. CASE p < old
    <3>1. Stands(f, p) = f.disk[p + 1]
      BY <2>2, <2>4, <1>1, <1>7, StandsOnDisk
    <3>2. Agrees(Stands(f, p), y[p + 1])
      BY <1>1 DEF Cov
    <3> QED BY <3>1, <3>2, <2>2, <2>3, <2>4, <1>8
  <2>5. CASE ~(p < old)
    BY <2>2, <2>5 DEF Agrees
  <2> QED BY <2>4, <2>5
<1>12. ASSUME v PROVE Good(z, y, {})
  <2>1. SUFFICES ASSUME NEW x \in DOMAIN u.cache, NEW p \in 0 .. Len(y) - 1, Base(x) <= p, p < Base(x) + BlockSize
                 PROVE  IF p - Base(x) < u.cache[x].len THEN Agrees(f.cache[x].data[p - Base(x) + 1], y[p + 1])
                        ELSE y[p + 1] = AnyByte
    BY <1>2, <1>6 DEF Good, GoodBlock
  <2>2. IF p - Base(x) < f.cache[x].len THEN Agrees(f.cache[x].data[p - Base(x) + 1], y[p + 1])
        ELSE y[p + 1] = AnyByte
    BY <2>1, <1>1, <1>2, <1>12 DEF Good, GoodBlock
  <2>3. CASE u.cache[x].len = f.cache[x].len
    BY <2>2, <2>3
  <2>4. CASE x = 0 /\ n < BlockSize /\ n % BlockSize # 0 /\ u.cache[x].len = n
    <3>1. Base(x) = 0
      BY <2>4, Bases
    <3>2. p - Base(x) < n
      BY <3>1
    <3> QED BY <3>2, <2>2, <2>4 DEF Agrees
  <2> QED BY <2>3, <2>4, <1>2
<1>13. Fine(B, z, y, {}, {}, v)
  BY <1>9, <1>11, <1>12 DEF Fine
<1> QED BY <1>6, <1>10, <1>13 DEF Sized

LEMMA SetLenStep ==
  ASSUME IInv, NEW n \in Nat, n = Base(BlockOf(n)) \/ n >= Len(want), SetLen(n)
  PROVE  IInv'
<1>1. /\ Quiet /\ writes' = writes + 1 /\ want' = Resize(want, n, AnyByte) /\ answer' = NoAnswer
      /\ mode' = mode /\ buffers' = buffers /\ held' = held /\ call' = call
  BY DEF SetLen
<1>2. /\ Opened /\ want \in Seq(Written) /\ Len(want) \in Nat /\ s \in Files
      /\ buffers \in BOOLEAN /\ writes \in Nat /\ TrueView \in BOOLEAN /\ (buffers => TrueView)
  BY Facts
<1>3. /\ Fine(buffers, s, want, {}, {}, TrueView) /\ FileLen(s) = Len(want) /\ ~s.rbuf.on
      /\ (TrueView <=> ~mode.shared \/ held)
  BY <1>1, QuietFacts
<1>4. PICK old \in Nat : old = Len(want)
  BY <1>2
<1>5. PICK y : y = Resize(want, n, AnyByte)
  OBVIOUS
<1>6. y \in Seq(Written) /\ ResizeGives(want, n, AnyByte, y)
  BY <1>2, <1>5, WantResized
<1>7. Len(y) = n /\ \A p \in 0 .. n - 1 : y[p + 1] = IF p < old THEN want[p + 1] ELSE AnyByte
  BY <1>4, <1>6 DEF ResizeGives
<1>8. \A p \in Nat : old <= p /\ p < n => y[p + 1] = AnyByte
  <2>1. ASSUME NEW p \in Nat, old <= p, p < n PROVE p \in 0 .. n - 1 /\ ~(p < old)
    BY <2>1
  <2> QED BY <2>1, <1>7
<1>9. Fine(buffers, s, y, {}, {}, TrueView)
  <2>1. PICK E : E = {}
    OBVIOUS
  <2>2. Narrower(want, y, E)
    BY <1>4, <1>7 DEF Narrower
  <2>3. Fine(buffers, s, y, E, E, TrueView)
    BY <2>2, <1>2, <1>3, <1>6, NewWant
  <2> QED BY <2>1, <2>3
<1>10. PICK t : t = KnowLen(s)
  OBVIOUS
<1>11. Fine(buffers, t, y, {}, {}, TrueView) /\ KnowGives(s, t)
  BY <1>2, <1>6, <1>9, <1>10, KnowLenFine
<1>12. /\ t \in Files /\ FileLen(t) = old /\ t.rbuf = s.rbuf
       /\ (buffers => t.flen = old /\ t.flen # Unknown) /\ (~buffers => t = s)
  BY <1>3, <1>4, <1>11 DEF KnowGives
<1>13. PICK f : f = FlushWriteBuffer(t)
  OBVIOUS
<1>14. /\ f \in Files /\ Fine(buffers, f, y, {}, {}, TrueView) /\ ~f.wbuf.on /\ f.rbuf = t.rbuf
       /\ FileLen(f) = old
  BY <1>2, <1>6, <1>11, <1>12, <1>13, FlushFine
<1>15. PICK u : u = IF t.flen = Unknown \/ t.flen > n THEN Shorten(f, n) ELSE Extend(t, n, old)
  OBVIOUS
<1>16. s' = IF buffers THEN [u EXCEPT !.flen = n] ELSE [u EXCEPT !.disk = Resize(u.disk, n, Junk)]
  BY <1>10, <1>12, <1>13, <1>15 DEF SetLen
<1>17. n < old => n % BlockSize = 0
  <2>1. n < old => n = Base(BlockOf(n))
    BY <1>4
  <2> QED BY <2>1, <1>2, EdgeOf
<1>18. PICK z : z = s'
  OBVIOUS
<1>19. z \in Files /\ Fine(buffers, z, y, {}, {}, TrueView) /\ FileLen(z) = n /\ z.rbuf = s.rbuf
  <2>1. CASE buffers /\ old > n
    <3>1. u = Shorten(f, n) /\ z = [u EXCEPT !.flen = n]
      BY <2>1, <1>12, <1>15, <1>16, <1>18
    <3>2. PICK D : D = {x \in DOMAIN f.cache : Base(x) >= n}
      OBVIOUS
    <3>3. u = Drop(f, D)
      BY <2>1, <3>1, <3>2, <1>17 DEF Shorten
    <3>4. PICK b \in Nat : b = BlockOf(n)
      BY <1>2, ByteIn
    <3>5. n = Base(b)
      BY <2>1, <3>4, <1>4
    <3>6. Sized(buffers, f, y, n, TrueView, z)
      BY <2>1, <3>1, <3>2, <3>3, <3>5, <1>2, <1>6, <1>7, <1>14, CutFine
    <3> QED BY <3>6, <1>12, <1>14 DEF Sized
  <2>2. CASE buffers /\ ~(old > n)
    <3>1. u = Extend(t, n, old) /\ z = [u EXCEPT !.flen = n]
      BY <2>2, <1>12, <1>15, <1>16, <1>18
    <3>2. old <= n /\ t.flen = old
      BY <2>2, <1>12
    <3>3. Sized(buffers, t, y, n, TrueView, z)
      BY <2>2, <3>1, <3>2, <1>2, <1>6, <1>7, <1>8, <1>11, <1>12, ExtendFine
    <3> QED BY <3>3, <1>12 DEF Sized
  <2>3. CASE ~buffers
    <3>1. t.flen = Unknown
      BY <2>3, <1>11 DEF Fine, Straight
    <3>2. u = Shorten(f, n) /\ z = [u EXCEPT !.disk = Resize(u.disk, n, Junk)]
      BY <2>3, <3>1, <1>15, <1>16, <1>18
    <3>3. Sized(buffers, f, y, n, TrueView, z)
      BY <2>3, <3>2, <1>2, <1>6, <1>7, <1>8, <1>14, <1>17, ResizeFine
    <3> QED BY <3>3, <1>12, <1>14 DEF Sized
  <2> QED BY <2>1, <2>2, <2>3
<1>20. call' = NoCall
  BY <1>1 DEF Quiet
<1>21. AnswerIs' /\ NoAnswer \in Answers
  BY <1>1, AnswerOff DEF Answers
<1>22. TrueView = (~mode.shared \/ held)
  BY <1>2, <1>3
<1>23. want' = y /\ Len(y) = n /\ writes' \in Nat
  BY <1>1, <1>2, <1>5, <1>7
<1> QED BY <1>1, <1>2, <1>3, <1>6, <1>18, <1>19, <1>20, <1>21, <1>22, <1>23, EndsCall

(* A step that leaves a flush in progress keeps the invariant if the       *)
(* flush's part of it holds.                                               *)
LEMMA Flushing ==
  ASSUME IInv, mode' = mode, held' \in BOOLEAN, held' => mode.shared, buffers' = buffers,
         want' = want, writes' = writes, s' \in Files, NEW c \in FlushCall, call' = c,
         c.lock \/ c.forget => mode.shared /\ c.free, c.lock => held',
         NEW v \in BOOLEAN, v = (~mode.shared \/ (held' /\ ~c.lock)),
         Fine(buffers, s', want, {}, {}, v), FileLen(s') = Len(want), ~s'.rbuf.on,
         answer' \in Answers, AnswerIs'
  PROVE  IInv'
<1>1. call'.op = "flush" /\ c \in Calls /\ c.op = "flush"
  BY DEF FlushCall, Calls
<1>2. Opened /\ TypeOK /\ Alone
  BY Facts DEF IInv
<1>3. ToDo(call') = {} /\ Open(buffers', call') = {}
  BY <1>1, NoneExempt
<1>4. TypeOK'
  BY <1>1, <1>2 DEF TypeOK
<1>5. Alone'
  BY <1>1, <1>2 DEF Alone
<1>6. TrueView' = v
  <2>1. TrueView' <=> ~mode.shared \/ (held' /\ ~c.lock)
    BY <1>1 DEF TrueView
  <2>2. TrueView' \in BOOLEAN
    BY DEF TrueView
  <2> QED BY <2>1, <2>2
<1>7. CallIs(buffers', s', want', writes', TrueView', call')
  BY <1>1 DEF CallIs
<1>8. PlacingIs(buffers', s', want', TrueView', call')
  BY <1>1 DEF PlacingIs, Placing
<1> QED BY <1>2, <1>3, <1>4, <1>5, <1>6, <1>7, <1>8, Together

(* Who may look at less may rely on less.                                  *)
LEMMA SeesLess ==
  ASSUME NEW B, NEW t, NEW w, NEW E, NEW X, NEW v, NEW o, Fine(B, t, w, E, X, v), o => v
  PROVE  Fine(B, t, w, E, X, o)
BY DEF Fine

LEMMA FlushStep ==
  ASSUME IInv, NEW free \in BOOLEAN, NEW forget \in BOOLEAN, forget => mode.shared /\ free, Flush(free, forget)
  PROVE  IInv'
<1>1. PICK c : c = [op |-> "flush", free |-> free, forget |-> forget, lock |-> FALSE]
  OBVIOUS
<1>2. /\ Quiet /\ call' = c /\ answer' = NoAnswer /\ mode' = mode /\ buffers' = buffers
      /\ held' = held /\ s' = s /\ want' = want /\ writes' = writes
  BY <1>1 DEF Flush
<1>3. c \in FlushCall /\ c.free = free /\ c.forget = forget /\ ~c.lock
  BY <1>1 DEF FlushCall
<1>4. s \in Files /\ held \in BOOLEAN /\ (held => mode.shared) /\ TrueView \in BOOLEAN
  BY Facts DEF Alone
<1>5. /\ Fine(buffers, s, want, {}, {}, TrueView) /\ FileLen(s) = Len(want) /\ ~s.rbuf.on
      /\ (TrueView <=> ~mode.shared \/ held)
  BY <1>2, QuietFacts
<1>6. AnswerIs' /\ NoAnswer \in Answers
  BY <1>2, AnswerOff DEF Answers
<1>7. TrueView = (~mode.shared \/ (held' /\ ~c.lock))
  BY <1>2, <1>3, <1>4, <1>5
<1> QED BY <1>2, <1>3, <1>4, <1>5, <1>6, <1>7, Flushing

LEMMA LockStep ==
  ASSUME IInv, Lock
  PROVE  IInv'
<1>1. PICK c : c = [op |-> "flush", free |-> TRUE, forget |-> TRUE, lock |-> TRUE]
  OBVIOUS
<1>2. /\ Quiet /\ mode.shared /\ call' = c /\ answer' = NoAnswer /\ mode' = mode
      /\ buffers' = mode.writeBuffer /\ held' = TRUE /\ s' = s /\ want' = want /\ writes' = writes
  BY <1>1 DEF Lock
<1>3. c \in FlushCall /\ c.free /\ c.forget /\ c.lock
  BY <1>1 DEF FlushCall
<1>4. /\ s \in Files /\ TrueView \in BOOLEAN /\ ~(mode.shared /\ mode.writeBuffer)
      /\ buffers \in BOOLEAN /\ mode.writeBuffer \in BOOLEAN /\ (buffers => ~mode.shared)
  BY Facts
<1>5. buffers' = buffers
  BY <1>2, <1>4
<1>6. PICK v \in BOOLEAN : ~v
  OBVIOUS
<1>7. Fine(buffers, s, want, {}, {}, TrueView) /\ FileLen(s) = Len(want) /\ ~s.rbuf.on
  BY <1>2, QuietFacts
<1>8. Fine(buffers, s, want, {}, {}, v)
  BY <1>6, <1>7, SeesLess
<1>9. AnswerIs' /\ NoAnswer \in Answers
  BY <1>2, AnswerOff DEF Answers
<1>10. v = (~mode.shared \/ (held' /\ ~c.lock))
  BY <1>2, <1>3, <1>6
<1> QED BY <1>2, <1>3, <1>4, <1>5, <1>7, <1>8, <1>9, <1>10, Flushing

LEMMA FlushBlockStep ==
  ASSUME IInv, NEW b \in DOMAIN s.cache, FlushBlock(b)
  PROVE  IInv'
<1>1. /\ call.op = "flush" /\ s.cache[b].changed /\ s' = BlockFlush(s, b) /\ mode' = mode
      /\ buffers' = buffers /\ held' = held /\ want' = want /\ writes' = writes /\ call' = call
      /\ answer' = answer
  BY DEF FlushBlock
<1>2. /\ Opened /\ Alone /\ s \in Files /\ want \in Seq(Written) /\ answer \in Answers /\ call \in Calls
      /\ buffers \in BOOLEAN /\ TrueView \in BOOLEAN /\ (buffers => TrueView /\ ~mode.shared)
      /\ Fine(buffers, s, want, ToDo(call), Open(buffers, call), TrueView) /\ held \in BOOLEAN
      /\ CallIs(buffers, s, want, writes, TrueView, call) /\ PlacingIs(buffers, s, want, TrueView, call)
  BY Facts
<1>3. buffers
  BY <1>1, <1>2 DEF Fine, Straight
<1>4. Fine(buffers, s, want, {}, {}, TrueView) /\ FileLen(s) = Len(want) /\ ~s.rbuf.on
  <2>1. ToDo(call) = {} /\ Open(buffers, call) = {}
    BY <1>1, NoneExempt
  <2> QED BY <2>1, <1>1, <1>2 DEF CallIs, PlacingIs, Placing
<1>5. PICK E, u : E = {} /\ u = BlockFlush(s, b)
  OBVIOUS
<1>6. Fine(TRUE, s, want, E, E, TRUE)
  BY <1>2, <1>3, <1>4, <1>5 DEF Fine
<1>7. Fine(TRUE, u, want, E, E, TRUE) /\ FileLen(u) = FileLen(s)
  BY <1>1, <1>2, <1>5, <1>6, BlockFlushFine
<1>8. BlockFlushGives(s, b, u)
  BY <1>1, <1>2, <1>5, BlockFlushed
<1>9. u \in Files /\ ~u.rbuf.on
  BY <1>4, <1>8 DEF BlockFlushGives
<1>10. Fine(buffers, u, want, {}, {}, TrueView)
  BY <1>2, <1>3, <1>5, <1>7 DEF Fine
<1>11. call \in FlushCall /\ (call.lock \/ call.forget => mode.shared /\ call.free) /\ (call.lock => held)
       /\ (held => mode.shared)
  BY <1>1, <1>2, CallKinds DEF Alone
<1>12. TrueView = (~mode.shared \/ (held' /\ ~call.lock))
  BY <1>1, <1>2, <1>3
<1>13. AnswerIs'
  <2>1. ~Quiet
    BY <1>1 DEF Quiet, NoCall
  <2> QED BY <2>1, <1>1, AnswerStays
<1> QED BY <1>1, <1>2, <1>4, <1>5, <1>7, <1>9, <1>10, <1>11, <1>12, <1>13, Flushing

(* The end of a flush: the write buffer goes and the file gets its length. *)
SettledGives(t, w, u) ==
  /\ u \in Files /\ u.cache = t.cache /\ u.rbuf = t.rbuf /\ u.flen = t.flen /\ ~u.wbuf.on
  /\ FileLen(u) = Len(w) /\ FlushIs(u, w)
LEMMA SettledFine ==
  ASSUME Opened, NEW B \in BOOLEAN, NEW v \in BOOLEAN, NEW t \in Files, NEW w \in Seq(Written),
         Fine(B, t, w, {}, {}, v), FileLen(t) = Len(w), \A b \in DOMAIN t.cache : ~t.cache[b].changed,
         NEW u, u = Settled(t)
  PROVE  Fine(B, u, w, {}, {}, v) /\ SettledGives(t, w, u)
<1>1. PICK f : f = FlushWriteBuffer(t)
  OBVIOUS
<1>2. PICK X : X = {}
  OBVIOUS
<1>3. /\ f \in Files /\ Fine(B, f, w, X, X, v) /\ ~f.wbuf.on /\ f.cache = t.cache /\ f.rbuf = t.rbuf
      /\ f.flen = t.flen /\ FileLen(f) = FileLen(t)
  BY <1>1, <1>2, FlushFine
<1>4. f.disk \in Seq(Vals) /\ Len(f.disk) \in Nat /\ f.flen \in Nat \cup {Unknown} /\ Len(w) \in Nat
  BY <1>3, FileHas
<1>5. \A p \in Nat : Stands(f, p) = IF p < Len(f.disk) THEN f.disk[p + 1] ELSE Junk
  BY <1>3 DEF Stands, Covered
<1>6. \A p \in 0 .. Len(w) - 1 : Agrees(Stands(f, p), w[p + 1])
  BY <1>2, <1>3 DEF Fine, Cov
<1>7. CASE f.flen = Unknown
  <2>1. u = f
    BY <1>1, <1>7 DEF Settled
  <2>2. Len(f.disk) = Len(w)
    BY <1>3, <1>7 DEF FileLen
  <2>3. ASSUME NEW i \in 1 .. Len(w) PROVE Agrees(f.disk[i], w[i])
    <3>1. PICK p : p = i - 1
      OBVIOUS
    <3>2. p \in 0 .. Len(w) - 1 /\ p \in Nat /\ p + 1 = i /\ p < Len(f.disk)
      BY ONLY <3>1, <2>2, <1>4, i \in 1 .. Len(w)
    <3> QED BY <3>2, <1>5, <1>6
  <2>4. FlushIs(u, w)
    BY <2>1, <2>2, <2>3 DEF FlushIs
  <2> QED BY <2>1, <2>4, <1>2, <1>3 DEF SettledGives
<1>8. CASE f.flen # Unknown
  <2>1. PICK n \in Nat : n = f.flen
    BY <1>4, <1>8
  <2>2. n = Len(w)
    BY <1>3, <1>8, <2>1 DEF FileLen
  <2>3. PICK y : y = Resize(f.disk, n, Junk)
    OBVIOUS
  <2>4. u = [f EXCEPT !.disk = y]
    BY <1>1, <1>8, <2>1, <2>3 DEF Settled
  <2>5. y \in Seq(Vals) /\ ResizeGives(f.disk, n, Junk, y)
    BY <1>4, <2>3, DiskResized
  <2>6. DiskBecomes(f, y, u)
    BY <1>3, <2>4, <2>5, NewDisk
  <2>7. /\ u \in Files /\ u.disk = y /\ u.wbuf = f.wbuf /\ u.rbuf = f.rbuf /\ u.flen = f.flen
        /\ u.cache = f.cache
    BY <2>6 DEF DiskBecomes
  <2>8. Len(y) = n /\ \A p \in 0 .. n - 1 : y[p + 1] = IF p < Len(f.disk) THEN f.disk[p + 1] ELSE Junk
    BY <2>5 DEF ResizeGives
  <2>9. ASSUME NEW p \in 0 .. Len(w) - 1 PROVE Agrees(y[p + 1], w[p + 1]) /\ Stands(u, p) = y[p + 1]
    <3>1. p \in Nat /\ p < Len(y) /\ p \in 0 .. n - 1
      BY ONLY <1>4, <2>2, <2>8, p \in 0 .. Len(w) - 1
    <3>2. y[p + 1] = Stands(f, p)
      BY <3>1, <2>8, <1>5
    <3>3. Stands(u, p) = y[p + 1]
      BY <3>1, <2>7, <1>3 DEF Stands, Covered
    <3> QED BY <3>2, <3>3, <1>6
  <2>10. ASSUME NEW i \in 1 .. Len(w) PROVE Agrees(y[i], w[i])
    <3>1. PICK p : p = i - 1
      OBVIOUS
    <3>2. p \in 0 .. Len(w) - 1 /\ p + 1 = i
      BY ONLY <3>1, <1>4, i \in 1 .. Len(w)
    <3> QED BY <3>2, <2>9
  <2>11. FlushIs(u, w)
    BY <2>2, <2>7, <2>8, <2>10 DEF FlushIs
  <2>12. FileLen(u) = Len(w) /\ FileLen(f) = FileLen(u)
    BY <1>3, <1>8, <2>1, <2>2, <2>7 DEF FileLen
  <2>13. Cov(u, w, {})
    BY <2>9 DEF Cov
  <2>14. B => Gap(u, w, {})
    BY <2>7, <1>3 DEF Gap
  <2>15. B => LensIn(u)
    BY <2>7, <2>12, <1>3, <1>8 DEF Fine, LensIn
  <2>16. ~B => Straight(u)
    BY <1>3, <1>8 DEF Fine, Straight
  <2>17. v => Good(u, w, {})
    BY <1>2, <1>3, <2>7 DEF Fine, Good, GoodBlock
  <2>18. Fine(B, u, w, {}, {}, v)
    BY <2>13, <2>14, <2>15, <2>16, <2>17 DEF Fine
  <2> QED BY <2>7, <2>11, <2>12, <2>18, <1>3 DEF SettledGives
<1> QED BY <1>7, <1>8

LEMMA FlushEndStep ==
  ASSUME IInv, FlushEnd
  PROVE  IInv'
<1>1. PICK t, u : t = Settled(s) /\ u = IF call.free THEN Drop(t, DOMAIN t.cache) ELSE t
  OBVIOUS
<1>2. /\ call.op = "flush" /\ (\A b \in DOMAIN s.cache : ~s.cache[b].changed)
      /\ s' = IF call.forget THEN [u EXCEPT !.flen = Unknown] ELSE u
  BY <1>1 DEF FlushEnd
<1>3. /\ call' = NoCall /\ answer' = [op |-> "flush"] /\ mode' = mode /\ buffers' = buffers
      /\ held' = held /\ want' = want /\ writes' = writes
  BY DEF FlushEnd
<1>4. /\ Opened /\ Alone /\ s \in Files /\ want \in Seq(Written) /\ call \in Calls /\ writes \in Nat
      /\ buffers \in BOOLEAN /\ TrueView \in BOOLEAN /\ (buffers => TrueView /\ ~mode.shared)
      /\ Fine(buffers, s, want, ToDo(call), Open(buffers, call), TrueView) /\ held \in BOOLEAN
      /\ mode.shared \in BOOLEAN
      /\ CallIs(buffers, s, want, writes, TrueView, call) /\ PlacingIs(buffers, s, want, TrueView, call)
  BY Facts
<1>5. Fine(buffers, s, want, {}, {}, TrueView) /\ FileLen(s) = Len(want) /\ ~s.rbuf.on
  <2>1. ToDo(call) = {} /\ Open(buffers, call) = {}
    BY <1>2, NoneExempt
  <2> QED BY <2>1, <1>2, <1>4 DEF CallIs, PlacingIs, Placing
<1>6. Fine(buffers, t, want, {}, {}, TrueView) /\ SettledGives(s, want, t)
  BY <1>1, <1>2, <1>4, <1>5, SettledFine
<1>7. /\ t \in Files /\ t.cache = s.cache /\ t.rbuf = s.rbuf /\ t.flen = s.flen
      /\ FileLen(t) = Len(want) /\ FlushIs(t, want)
  BY <1>6 DEF SettledGives
<1>8. call \in FlushCall /\ (call.lock \/ call.forget => mode.shared /\ call.free) /\ call.free \in BOOLEAN
      /\ call.forget \in BOOLEAN /\ call.lock \in BOOLEAN
  <2>1. call \in FlushCall
    BY <1>2, <1>4, CallKinds
  <2>2. call.free \in BOOLEAN /\ call.forget \in BOOLEAN /\ call.lock \in BOOLEAN
    BY <2>1 DEF FlushCall
  <2> QED BY <2>1, <2>2, <1>2, <1>4 DEF Alone
<1>9. /\ u \in Files /\ Fine(buffers, u, want, {}, {}, TrueView) /\ u.rbuf = s.rbuf
      /\ FileLen(u) = Len(want) /\ FlushIs(u, want) /\ (call.free => DOMAIN u.cache = {})
  <2>1. CASE ~call.free
    BY <2>1, <1>1, <1>6, <1>7
  <2>2. CASE call.free
    <3>1. PICK X : X = DOMAIN t.cache
      OBVIOUS
    <3>2. u = Drop(t, X)
      BY <2>2, <3>1, <1>1
    <3>3. \A x \in DOMAIN t.cache : x \in X => ~t.cache[x].changed
      BY <1>2, <1>7
    <3>4. DropGives(t, X, u)
      BY <3>2, <1>4, <1>7, DropFields
    <3>5. Fine(buffers, u, want, {}, {}, TrueView) /\ FileLen(u) = FileLen(t)
      BY <3>2, <3>3, <1>4, <1>6, <1>7, DropFine
    <3>6. u \in Files /\ u.disk = t.disk /\ u.rbuf = t.rbuf /\ DOMAIN u.cache = {}
      BY <3>1, <3>4 DEF DropGives
    <3> QED BY <3>5, <3>6, <1>7 DEF FlushIs
  <2> QED BY <2>1, <2>2, <1>8
<1>10. s' = u
  <2>1. CASE call.forget
    <3>1. ~buffers
      BY <2>1, <1>4, <1>8
    <3>2. u.flen = Unknown
      BY <3>1, <1>9 DEF Fine, Straight
    <3>3. [u EXCEPT !.flen = Unknown] = u
      BY <3>2, <1>9, FilesAre
    <3> QED BY <3>3, <2>1, <1>2
  <2> QED BY <2>1, <1>2
<1>11. PICK v \in BOOLEAN : v = (~mode.shared \/ held)
  BY <1>4
<1>12. Fine(buffers, u, want, {}, {}, v)
  <2>1. CASE call.lock
    BY <2>1, <1>8, <1>9 DEF Fine, Good
  <2>2. CASE ~call.lock
    <3>1. TrueView <=> v
      BY <2>2, <1>2, <1>11 DEF TrueView
    <3> QED BY <3>1, <1>9 DEF Fine
  <2> QED BY <2>1, <2>2
<1>13. answer' \in Answers /\ answer'.op = "flush"
  BY <1>3 DEF Answers
<1>14. AnswerIs'
  <2>1. Quiet'
    BY <1>3 DEF Quiet
  <2>2. FlushIs(s', want')
    BY <1>3, <1>9, <1>10
  <2> QED BY <2>1, <2>2, <1>13 DEF AnswerIs
<1> QED BY <1>3, <1>4, <1>5, <1>9, <1>10, <1>11, <1>12, <1>13, <1>14, EndsCall

(* Between calls the file is unlocked, and others write.                   *)
LEMMA StaysQuiet ==
  ASSUME IInv, call' = NoCall, mode' = mode, buffers' = buffers, held' \in BOOLEAN,
         held' => mode.shared, s' \in Files, want' \in Seq(Written), writes' \in Nat,
         answer' = NoAnswer, NEW v \in BOOLEAN, v = (~mode.shared \/ held'),
         Fine(buffers, s', want', {}, {}, v), FileLen(s') = Len(want'), ~s'.rbuf.on
  PROVE  IInv'
<1>1. call'.op = "none" /\ NoCall \in Calls /\ NoAnswer \in Answers
  BY DEF NoCall, Calls, Answers
<1>2. Opened /\ TypeOK /\ Alone
  BY Facts DEF IInv
<1>3. ToDo(call') = {} /\ Open(buffers', call') = {}
  BY <1>1, NoneExempt
<1>4. TypeOK'
  BY <1>1, <1>2 DEF TypeOK
<1>5. Alone'
  BY <1>1, <1>2 DEF Alone
<1>6. TrueView' = v
  <2>1. TrueView' <=> ~mode.shared \/ held'
    BY <1>1 DEF TrueView
  <2>2. TrueView' \in BOOLEAN
    BY DEF TrueView
  <2> QED BY <2>1, <2>2
<1>7. CallIs(buffers', s', want', writes', TrueView', call')
  BY <1>1 DEF CallIs
<1>8. PlacingIs(buffers', s', want', TrueView', call')
  BY <1>1 DEF PlacingIs, Placing
<1>9. AnswerIs'
  BY AnswerOff
<1> QED BY <1>2, <1>3, <1>4, <1>5, <1>6, <1>7, <1>8, <1>9, Together

LEMMA UnlockStep ==
  ASSUME IInv, Unlock
  PROVE  IInv'
<1>1. /\ Quiet /\ held /\ held' = FALSE /\ buffers' = FALSE /\ answer' = NoAnswer
      /\ mode' = mode /\ s' = s /\ want' = want /\ writes' = writes /\ call' = call
  BY DEF Unlock
<1>2. /\ s \in Files /\ want \in Seq(Written) /\ writes \in Nat /\ buffers \in BOOLEAN
      /\ (buffers => ~mode.shared) /\ (held => mode.shared) /\ mode.shared \in BOOLEAN
  BY Facts DEF Alone
<1>3. buffers' = buffers /\ mode.shared /\ call' = NoCall /\ held' \in BOOLEAN
  BY <1>1, <1>2 DEF Quiet
<1>4. Fine(buffers, s, want, {}, {}, TrueView) /\ FileLen(s) = Len(want) /\ ~s.rbuf.on
  BY <1>1, QuietFacts
<1>5. PICK v \in BOOLEAN : ~v
  OBVIOUS
<1>6. Fine(buffers, s, want, {}, {}, v)
  BY <1>4, <1>5, SeesLess
<1>7. v = (~mode.shared \/ held')
  BY <1>1, <1>3, <1>5
<1> QED BY <1>1, <1>2, <1>3, <1>4, <1>5, <1>6, <1>7, StaysQuiet

LEMMA OtherStep ==
  ASSUME IInv, NEW pos \in Nat, NEW n \in Nat \ {0}, Other(pos, n)
  PROVE  IInv'
<1>1. /\ Quiet /\ mode.shared /\ ~held /\ writes' = writes + 1 /\ answer' = NoAnswer
      /\ want' = Put(want, pos, Bytes(n, writes + 1), AnyByte)
      /\ s' = [s EXCEPT !.disk = Put(s.disk, pos, Bytes(n, writes + 1), Junk)]
      /\ mode' = mode /\ buffers' = buffers /\ held' = held /\ call' = call
  BY DEF Other
<1>2. /\ Opened /\ s \in Files /\ want \in Seq(Written) /\ writes \in Nat /\ buffers \in BOOLEAN
      /\ (buffers => ~mode.shared) /\ mode.shared \in BOOLEAN /\ held \in BOOLEAN /\ Len(want) \in Nat
      /\ TrueView \in BOOLEAN
  BY Facts
<1>3. /\ Fine(buffers, s, want, {}, {}, TrueView) /\ FileLen(s) = Len(want) /\ ~s.rbuf.on
      /\ (TrueView <=> ~mode.shared \/ held)
  BY <1>1, QuietFacts
<1>4. ~buffers /\ ~TrueView /\ call' = NoCall
  BY <1>1, <1>2, <1>3 DEF Quiet
<1>5. PICK k \in Nat : k = writes + 1
  BY <1>2
<1>6. PICK w : w = Put(want, pos, Bytes(n, k), AnyByte)
  OBVIOUS
<1>7. PICK y : y = Put(s.disk, pos, Bytes(n, k), Junk)
  OBVIOUS
<1>8. PICK u : u = [s EXCEPT !.disk = y]
  OBVIOUS
<1>9. want' = w /\ s' = u /\ writes' = k
  BY <1>1, <1>5, <1>6, <1>7, <1>8
<1>10. WantGives(want, pos, n, k, w)
  BY <1>2, <1>6, WantPut
<1>11. /\ w \in Seq(Written) /\ Len(w) = Most2(Len(want), pos + n)
       /\ \A p \in 0 .. Len(w) - 1 :
            w[p + 1] = IF pos <= p /\ p < pos + n THEN k ELSE IF p < Len(want) THEN want[p + 1] ELSE AnyByte
  BY <1>10 DEF WantGives
<1>12. PICK X : X = {p \in Nat : pos <= p /\ p < pos + n}
  OBVIOUS
<1>13. Narrower(want, w, X)
  <2>1. \A p \in 0 .. Len(w) - 1 : p \in Nat
    BY <1>11
  <2> QED BY <2>1, <1>11, <1>12 DEF Narrower
<1>14. Fine(buffers, s, w, X, X, TrueView)
  BY <1>2, <1>3, <1>11, <1>13, NewWant
<1>15. PutHas(w, X, pos, n, k)
  BY <1>11, <1>12 DEF PutHas
<1>16. /\ u \in Files /\ Fine(buffers, u, w, X, {}, TrueView) /\ u.rbuf = s.rbuf
       /\ FileLen(u) = Most2(FileLen(s), pos + n)
  BY <1>2, <1>4, <1>7, <1>8, <1>11, <1>14, <1>15, PutFine
<1>17. Fine(buffers, u, w, {}, {}, TrueView)
  BY <1>4, <1>16 DEF Fine
<1>18. TrueView = (~mode.shared \/ held') /\ (held' => mode.shared) /\ held' \in BOOLEAN
  BY <1>1, <1>2, <1>3
<1> QED BY <1>1, <1>2, <1>3, <1>4, <1>5, <1>9, <1>11, <1>16, <1>17, <1>18, StaysQuiet

------------------------------------------------------------------------------
(* A file that is opened has the invariant.                                *)
LEMMA Starts ==
  ASSUME Opened, Init
  PROVE  IInv
<1>1. PICK n \in StartLens : s = [disk |-> Bytes(n, 0), cache |-> [b \in {} |-> 0], wbuf |-> NoBuffer,
                                  rbuf |-> NoBuffer, flen |-> Unknown]
  BY DEF Init
<1>2. /\ mode \in Modes /\ buffers = (~mode.shared /\ mode.writeBuffer) /\ held = FALSE
      /\ want = s.disk /\ writes = 0 /\ call = NoCall /\ answer = NoAnswer
  BY DEF Init
<1>3. n \in Nat
  BY DEF Opened
<1>4. PICK q : q = Bytes(n, 0)
  OBVIOUS
<1>5. q \in Seq(Vals) /\ q \in Seq(Written) /\ Len(q) = n
  <2>1. 0 \in Vals /\ 0 \in Written
    BY DEF Vals, Written
  <2> QED BY <2>1, <1>3, <1>4, BytesVals, BytesWant
<1>6. PICK k : k = [b \in {} |-> 0]
  OBVIOUS
<1>7. k \in Caches /\ DOMAIN k = {}
  <2>1. DOMAIN k = {}
    BY <1>6
  <2>2. k = [b \in {} |-> k[b]]
    BY <1>6
  <2>3. {} \subseteq Nat /\ \A b \in {} : k[b] \in Block
    OBVIOUS
  <2> QED BY <2>1, <2>2, <2>3, CacheIs
<1>8. s = [disk |-> q, cache |-> k, wbuf |-> NoBuffer, rbuf |-> NoBuffer, flen |-> Unknown]
  BY <1>1, <1>4, <1>6
<1>9. s \in Files /\ s.disk = q /\ s.cache = k /\ s.wbuf = NoBuffer /\ s.rbuf = NoBuffer /\ s.flen = Unknown
  BY <1>5, <1>7, <1>8, FilesAre, NoBufferIs
<1>10. call.op = "none" /\ answer.op = "none" /\ NoCall \in Calls /\ NoAnswer \in Answers
  BY <1>2 DEF NoCall, NoAnswer, Calls, Answers
<1>11. mode.shared \in BOOLEAN /\ mode.writeBuffer \in BOOLEAN
  BY <1>2 DEF Opened
<1>12. TypeOK
  BY <1>2, <1>5, <1>9, <1>10, <1>11 DEF TypeOK
<1>13. Alone
  BY <1>2, <1>10 DEF Alone
<1>14. ToDo(call) = {} /\ Open(buffers, call) = {}
  BY <1>10, NoneExempt
<1>15. ~s.wbuf.on /\ ~s.rbuf.on /\ FileLen(s) = Len(want) /\ Straight(s)
  BY <1>2, <1>7, <1>9, NoBufferIs DEF FileLen, Straight
<1>16. ASSUME NEW p \in 0 .. Len(want) - 1 PROVE Agrees(Stands(s, p), want[p + 1])
  <2>1. Stands(s, p) = IF p < Len(s.disk) THEN s.disk[p + 1] ELSE Junk
    BY <1>15, StandsOnDisk
  <2>2. p < Len(s.disk)
    BY <1>2, <1>3, <1>5, <1>9
  <2> QED BY <2>1, <2>2, <1>2 DEF Agrees
<1>17. Cov(s, want, {})
  BY <1>16 DEF Cov
<1>18. Gap(s, want, {}) /\ LensIn(s) /\ Good(s, want, {})
  BY <1>7, <1>9, <1>15 DEF Gap, LensIn, Good
<1>19. Fine(buffers, s, want, ToDo(call), Open(buffers, call), TrueView)
  BY <1>14, <1>15, <1>17, <1>18 DEF Fine
<1>20. CallIs(buffers, s, want, writes, TrueView, call)
  BY <1>10, <1>15 DEF CallIs
<1>21. PlacingIs(buffers, s, want, TrueView, call)
  BY <1>10, <1>15 DEF PlacingIs, Placing
<1>22. AnswerIs
  BY <1>10 DEF AnswerIs
<1> QED BY <1>12, <1>13, <1>19, <1>20, <1>21, <1>22 DEF IInv

(* Every step keeps the invariant.                                         *)
LEMMA Steps ==
  ASSUME IInv, [Next]_vars
  PROVE  IInv'
<1>1. /\ Opened /\ Len(want) \in Nat
      /\ \A n \in Pieces : n \in Nat \ {0}
      /\ \A n \in Spans : n \in Nat \ {0}
      /\ \A n \in Cuts : n = Base(BlockOf(n))
  BY Facts DEF Opened
<1>2. CASE UNCHANGED vars
  BY <1>2 DEF vars, IInv, TypeOK, Alone, TrueView, CallIs, AnswerIs, Quiet, ReadsAreTrue
<1>3. CASE Next
  <2>1. ASSUME NEW pos \in 0 .. Len(want) + 1, NEW n \in Pieces, Write(pos, n) PROVE IInv'
    <3>1. pos \in Nat /\ n \in Nat \ {0}
      BY <1>1, <2>1
    <3> QED BY <3>1, <2>1, WriteStep
  <2>2. ASSUME NEW pos \in 0 .. FileMax - 1, NEW n \in Spans, NEW f \in BOOLEAN, pos < Len(want),
               Read(pos, n, f)
        PROVE  IInv'
    <3>1. pos \in Nat /\ n \in Nat \ {0}
      BY <1>1, <2>2
    <3> QED BY <3>1, <2>2, ReadStep
  <2>3. ASSUME NEW n \in 0 .. FileMax, n \in Cuts \/ n >= Len(want), SetLen(n) PROVE IInv'
    <3>1. n \in Nat /\ (n = Base(BlockOf(n)) \/ n >= Len(want))
      BY <1>1, <2>3
    <3> QED BY <3>1, <2>3, SetLenStep
  <2>4. ASSUME NEW free \in BOOLEAN, Flush(free, FALSE) PROVE IInv'
    BY <2>4, FlushStep
  <2>5. CASE Refresh
    BY <2>5, FlushStep DEF Refresh
  <2>6. ASSUME NEW b \in DOMAIN s.cache, FlushBlock(b) PROVE IInv'
    BY <2>6, FlushBlockStep
  <2>7. ASSUME NEW pos \in 0 .. Len(want), NEW n \in Pieces, Other(pos, n) PROVE IInv'
    <3>1. pos \in Nat /\ n \in Nat \ {0}
      BY <1>1, <2>7
    <3> QED BY <3>1, <2>7, OtherStep
  <2>8. CASE WriteBlock \/ WriteThrough
    BY <2>8, WriteBlockStep, WriteThroughStep
  <2>9. CASE FillReadBuffer \/ PlaceBlock \/ ReadBlock
    BY <2>9, FillStep, PlaceStep, ReadBlockStep
  <2>10. CASE FlushEnd \/ Lock \/ Unlock
    BY <2>10, FlushEndStep, LockStep, UnlockStep
  <2> QED BY <2>1, <2>2, <2>3, <2>4, <2>5, <2>6, <2>7, <2>8, <2>9, <2>10, <1>3 DEF Next
<1> QED BY <1>2, <1>3

(* The invariant holds of a file that is opened as said, in every state:   *)
(* whatever its blocks, its modes and the sizes of what is read and        *)
(* written.                                                                *)
THEOREM FileCacheInvariant == Opened => (Spec => []IInv)
<1>1. Opened /\ Init => IInv
  BY Starts
<1>2. IInv /\ [Next]_vars => IInv'
  BY Steps
<1> QED BY <1>1, <1>2, PTL DEF Spec

(* Between calls what the property looks at is what stands.                *)
LEMMA WhollyThere ==
  ASSUME IInv
  PROVE  NothingIsLost
<1>1. SUFFICES ASSUME Quiet
               PROVE  FileLen(s) = Len(want) /\ \A p \in 0 .. Len(want) - 1 : Agrees(Whole(p), want[p + 1])
  BY DEF NothingIsLost
<1>2. Fine(buffers, s, want, {}, {}, TrueView) /\ FileLen(s) = Len(want)
  BY <1>1, QuietFacts
<1>3. \A p : Whole(p) = Stands(s, p)
  BY DEF Whole, Changed, Stands, Covered, WEnd
<1> QED BY <1>2, <1>3 DEF Fine, Cov

(* Nothing that was written is lost: between calls the file, with the      *)
(* write buffer and the changed blocks over it, is what everybody wrote    *)
(* (opt4blockFlush, opt4fileGetBlock, opt4fileWrite).                      *)
THEOREM NothingLost == Opened => (Spec => []NothingIsLost)
<1>1. IInv => NothingIsLost
  BY WhollyThere
<1> QED BY <1>1, FileCacheInvariant, PTL

(* A read gives what was written last, while nobody else may write         *)
(* (opt4fileRead, opt4fileReadSpBuffer).                                   *)
THEOREM ReadsTrue == Opened => (Spec => []ReadsAreTrue)
<1>1. IInv => ReadsAreTrue
  BY DEF IInv, AnswerIs, ReadsAreTrue
<1> QED BY <1>1, FileCacheInvariant, PTL

(* What a flush leaves on disk is the file, to its length (opt4fileFlush). *)
THEOREM FlushedWritten == Opened => (Spec => []FlushedIsWritten)
<1>1. IInv => FlushedIsWritten
  BY DEF IInv, AnswerIs, FlushIs, FlushedIsWritten
<1> QED BY <1>1, FileCacheInvariant, PTL
=============================================================================
