-------------------------- MODULE BlockCacheProofs --------------------------
(***************************************************************************)
(* The safety of the shared pool of windows, for any number of threads,    *)
(* files, slots and sources: theorems CacheTypeOK, CacheBookkeeping,       *)
(* CacheClaimsBalance, CacheClaimedWindowStays, CacheBytesAreMine and      *)
(* ScansSpareTheIndex, all of them from the inductive invariant IInv; then *)
(* what a read returns (FreshReads, ReadsAreSlices).                       *)
(***************************************************************************)
EXTENDS BlockCache, FiniteSetTheorems, SequenceTheorems, TLAPS

(* What a TryClaim that hands out s does to the lists and to the claims.   *)
LEMMA ClaimedFacts ==
  ASSUME NEW r \in Residency, NEW s \in Slots, NEW p \in Priorities
  PROVE  /\ Claimed(r, s, p) \in Residency
         /\ Claimed(r, s, p).list = [r.list EXCEPT ![s] = p]
         /\ Claimed(r, s, p).pins = [r.pins EXCEPT ![s] = 1]
<1> DEFINE q == IF r.list[s] = Free THEN r ELSE Forget(r, s)
           a == Admit(q, s, p)
<1>1. /\ q.list \in [Slots -> Priorities \cup {Free}]
      /\ q.pins = r.pins
      /\ q.older \subseteq Slots \X Slots
      /\ \A x \in Slots : x # s => q.list[x] = r.list[x]
  BY DEF Residency, Forget, Without
<1>2. a.list = [q.list EXCEPT ![s] = p] /\ a.pins = [q.pins EXCEPT ![s] = 0]
      /\ a.older \subseteq Slots \X Slots
  BY <1>1 DEF Admit, OnList
<1>3. [q.list EXCEPT ![s] = p] = [r.list EXCEPT ![s] = p]
  BY <1>1 DEF Residency
<1>4. Claimed(r, s, p) = [a EXCEPT !.pins = [a.pins EXCEPT ![s] = @ + 1]]
  BY DEF Claimed, Pin
<1>5. a = [list |-> a.list, pins |-> a.pins, older |-> a.older]
  BY DEF Admit
<1>6. a.pins \in [Slots -> Nat] /\ a.pins[s] = 0
  BY <1>1, <1>2 DEF Residency
<1> HIDE DEF q, a
<1>7. /\ Claimed(r, s, p).list = a.list /\ Claimed(r, s, p).older = a.older
      /\ Claimed(r, s, p).pins = [a.pins EXCEPT ![s] = 1]
      /\ Claimed(r, s, p) = [list |-> a.list, pins |-> [a.pins EXCEPT ![s] = 1],
                             older |-> a.older]
  BY <1>4, <1>5, <1>6
<1>8. [a.pins EXCEPT ![s] = 1] = [r.pins EXCEPT ![s] = 1]
  BY <1>1, <1>2 DEF Residency
<1>9. a.list \in [Slots -> Priorities \cup {Free}]
  BY <1>1, <1>2
<1> QED
  BY <1>2, <1>3, <1>6, <1>7, <1>8, <1>9 DEF Residency

(* What an abandoned claim leaves: the slot free and unclaimed.            *)
LEMMA AbandonedFacts ==
  ASSUME NEW r \in Residency, NEW s \in Slots, NEW p \in Priorities
  PROVE  LET q == Forget(Unpin(Claimed(r, s, p), s), s) IN
         /\ q \in Residency
         /\ q.list = [r.list EXCEPT ![s] = Free]
         /\ q.pins = [r.pins EXCEPT ![s] = 0]
<1> DEFINE c == Claimed(r, s, p)
<1>1. /\ c \in Residency
      /\ c.list = [r.list EXCEPT ![s] = p]
      /\ c.pins = [r.pins EXCEPT ![s] = 1]
  BY ClaimedFacts
<1> HIDE DEF c
<1> DEFINE u == Unpin(c, s)
<1>2. /\ u \in Residency
      /\ u.list = c.list
      /\ u.pins = [r.pins EXCEPT ![s] = 0]
  BY <1>1 DEF Unpin, Residency
<1> HIDE DEF u
<1> DEFINE f == Forget(u, s)
<1>3. f \in Residency /\ f.list = [u.list EXCEPT ![s] = Free] /\ f.pins = u.pins
  BY <1>2 DEF Forget, Residency, Without
<1>4. [u.list EXCEPT ![s] = Free] = [r.list EXCEPT ![s] = Free]
  BY <1>1, <1>2 DEF Residency
<1> QED
  BY <1>2, <1>3, <1>4 DEF u, c

LEMMA TouchedFacts ==
  ASSUME NEW r \in Residency, NEW s \in Slots
  PROVE  LET q == Touch(Pin(r, s), s) IN
         /\ q \in Residency
         /\ q.list = r.list
         /\ q.pins = [r.pins EXCEPT ![s] = @ + 1]
<1> DEFINE p == Pin(r, s)
<1>1. p \in Residency /\ p.list = r.list /\ p.pins = [r.pins EXCEPT ![s] = @ + 1]
  BY DEF Pin, Residency
<1> HIDE DEF p
<1> DEFINE q == Touch(p, s)
<1>2. q \in Residency /\ q.list = p.list /\ q.pins = p.pins
  <2>1. Without(p.older, s) \cup ((OnList(p, p.list[s]) \ {s}) \X {s}) \subseteq Slots \X Slots
    BY <1>1 DEF Residency, Without, OnList
  <2> QED BY <1>1, <2>1 DEF Touch, Residency
<1> QED BY <1>1, <1>2 DEF p

LEMMA UnpinnedFacts ==
  ASSUME NEW r \in Residency, NEW s \in Slots, r.pins[s] > 0
  PROVE  /\ Unpin(r, s) \in Residency
         /\ Unpin(r, s).list = r.list
         /\ Unpin(r, s).pins = [r.pins EXCEPT ![s] = @ - 1]
BY DEF Unpin, Residency

(* A slot that TryClaim may hand out is one nobody has claimed.            *)
LEMMA ClaimableUnclaimed ==
  ASSUME FreeUnclaimed, NEW s \in Slots, Claimable(res, s)
  PROVE  res.pins[s] = 0
BY DEF FreeUnclaimed, Claimable, IsVictim, Retirable

-----------------------------------------------------------------------------
(* Counting claims. *)

LEMMA ClaimantsFinite ==
  \A s : IsFiniteSet(Claimants(s)) /\ Claimants(s) \subseteq Threads
BY FS_Subset, CacheAssumption DEF Claimants

(* A slot without a pin has no claimant.                                   *)
LEMMA UnpinnedUnclaimed ==
  ASSUME ClaimsBalance, NEW s \in Slots, res.pins[s] = 0
  PROVE  \A t \in Threads : pc[t] \in Claiming => claim[t].slot # s
<1>1. Cardinality(Claimants(s)) = 0
  BY DEF ClaimsBalance
<1>2. Claimants(s) = {}
  BY <1>1, ClaimantsFinite, FS_EmptySet
<1> QED BY <1>2 DEF Claimants

(* A claimed slot has a pin.                                               *)
LEMMA ClaimedPinned ==
  ASSUME TypeOK, ClaimsBalance, NEW t \in Threads, pc[t] \in Claiming, claim[t].slot \in Slots
  PROVE  res.pins[claim[t].slot] > 0
<1> DEFINE s == claim[t].slot
<1>1. t \in Claimants(s)
  BY DEF Claimants
<1>2. Cardinality(Claimants(s)) # 0
  BY <1>1, ClaimantsFinite, FS_EmptySet
<1>3. res.pins[s] = Cardinality(Claimants(s)) /\ res.pins[s] \in Nat
  BY DEF ClaimsBalance, TypeOK, Residency
<1> QED BY <1>2, <1>3

(* What a thread that takes, keeps or gives up a claim does to the count.  *)
LEMMA ClaimTaken ==
  ASSUME NEW t \in Threads, NEW s \in Slots,
         pc[t] \notin Claiming, pc'[t] \in Claiming, claim'[t].slot = s,
         \A u \in Threads \ {t} : pc'[u] = pc[u] /\ claim'[u] = claim[u]
  PROVE  /\ Cardinality(Claimants(s)') = Cardinality(Claimants(s)) + 1
         /\ \A x \in Slots \ {s} : Claimants(x)' = Claimants(x)
<1>1. Claimants(s)' = Claimants(s) \cup {t} /\ t \notin Claimants(s)
  BY DEF Claimants
<1>2. \A x \in Slots \ {s} : Claimants(x)' = Claimants(x)
  BY DEF Claimants
<1> QED BY <1>1, <1>2, ClaimantsFinite, FS_AddElement

LEMMA ClaimGivenUp ==
  ASSUME NEW t \in Threads, NEW s \in Slots,
         pc[t] \in Claiming, pc'[t] \notin Claiming, claim[t].slot = s,
         \A u \in Threads \ {t} : pc'[u] = pc[u] /\ claim'[u] = claim[u]
  PROVE  /\ Cardinality(Claimants(s)') = Cardinality(Claimants(s)) - 1
         /\ \A x \in Slots \ {s} : Claimants(x)' = Claimants(x)
<1>1. Claimants(s)' = Claimants(s) \ {t} /\ t \in Claimants(s)
  BY DEF Claimants
<1>2. \A x \in Slots \ {s} : Claimants(x)' = Claimants(x)
  BY DEF Claimants
<1> QED BY <1>1, <1>2, ClaimantsFinite, FS_RemoveElement

LEMMA ClaimKept ==
  ASSUME \A u \in Threads : (pc'[u] \in Claiming) = (pc[u] \in Claiming),
         \A u \in Threads : pc[u] \in Claiming => claim'[u] = claim[u]
  PROVE  \A x \in Slots : Claimants(x)' = Claimants(x)
BY DEF Claimants

-----------------------------------------------------------------------------
(* Arithmetic of windows. *)

LEMMA AlignBounds ==
  ASSUME NEW x \in Nat
  PROVE  /\ Align(x) \in Nat
         /\ Align(x) <= x
         /\ x < Align(x) + WindowSize
BY CacheAssumption DEF Align

(* A whole window, of a read that goes on past it, is taken to its end.    *)
LEMMA WholeWindow ==
  ASSUME NEW off \in Nat, NEW len \in Nat, len > 0, NEW w \in Nat, NEW n \in Nat,
         NEW from \in Nat, w + from = off + n,
         w + WindowSize <= Align(off + len - 1)
  PROVE  /\ Smaller(WindowSize - from, len - n) = WindowSize - from
         /\ w + WindowSize < off + len
<1>1. off + len - 1 \in Nat
  OBVIOUS
<1>2. Align(off + len - 1) \in Nat /\ Align(off + len - 1) <= off + len - 1
  BY <1>1, AlignBounds
<1>3. w + WindowSize < off + len /\ WindowSize \in Nat
  BY <1>2, CacheAssumption
<1> QED BY <1>3 DEF Smaller

-----------------------------------------------------------------------------
(* The steps of Read preserve IInv. *)

LEMMA InitIInv == Init => IInv
<1> SUFFICES ASSUME Init PROVE IInv
  OBVIOUS
<1> USE CacheAssumption DEF Init
<1>1. TypeOK
  <2>1. res \in Residency /\ held \subseteq Entries
    BY DEF AllFree, Residency
  <2>2. byslot \in [Slots -> Keys \cup {NoKey}] /\ block \in [Slots -> Contents]
    BY DEF Contents, NoBytes
  <2>3. disk \in [Files -> [version : Nat, size : Nat]] /\ fence \in [Files -> Nat]
    <3>1. ASSUME NEW d \in [version : {0}, size : Sizes]
          PROVE  d \in [version : Nat, size : Nat]
      <4>1. d = [version |-> d.version, size |-> d.size] /\ d.version = 0 /\ d.size \in Sizes
        OBVIOUS
      <4>2. d.size \in Nat
        BY <4>1
      <4> QED BY <4>1, <4>2
    <3>2. disk \in [Files -> [version : {0}, size : Sizes]] /\ fence = [f \in Files |-> 0]
      OBVIOUS
    <3> HIDE DEF Init
    <3> QED BY <3>1, <3>2
  <2>4. sources \in Seq(Sources) /\ out \in [Threads -> Seq(Bytes)]
    OBVIOUS
  <2>5. /\ pc \in [Threads -> Resting \cup Claiming \cup {"hold", "direct"}]
        /\ req \in [Threads -> Requests] /\ start \in [Threads -> Nat]
        /\ claim \in [Threads -> [slot : Slots \cup {NoSlot}, valid : Nat]]
    BY DEF Requests, Resting
  <2> QED BY <2>1, <2>2, <2>3, <2>4, <2>5 DEF TypeOK
<1>2. Bookkeeping /\ EntriesTrue /\ FreeUnclaimed /\ ClaimRegistered
  BY DEF Bookkeeping, EntriesTrue, FreeUnclaimed, ClaimRegistered, AllFree, Claiming
<1>3. ClaimsBalance
  <2>1. \A s : Claimants(s) = {}
    BY DEF Claimants, Claiming
  <2> QED BY <2>1, FS_EmptySet DEF ClaimsBalance, AllFree
<1>4. BytesAreMine /\ ReadsASource /\ LoopPosition
  BY DEF BytesAreMine, IsFrom, ReadsASource, LoopPosition
<1> QED BY <1>1, <1>2, <1>3, <1>4 DEF IInv

(* Steps that leave the cache, the claims and who claims as they are.      *)
LEMMA CacheUntouched ==
  ASSUME IInv, UNCHANGED <<cacheVars, claim>>,
         Len(sources') >= Len(sources),
         \A o \in 1 .. Len(sources) : sources'[o].file = sources[o].file,
         \A t \in Threads : (pc'[t] \in Claiming) = (pc[t] \in Claiming),
         \A t \in Threads : pc[t] \in Claiming => req'[t] = req[t] /\ start'[t] = start[t],
         sources' \in Seq(Sources)
  PROVE  (Bookkeeping /\ ClaimsBalance /\ EntriesTrue /\ FreeUnclaimed /\ ClaimRegistered)'
<1>1. Bookkeeping' /\ FreeUnclaimed'
  BY DEF IInv, Bookkeeping, FreeUnclaimed, cacheVars
<1>2. ClaimsBalance'
  <2>1. \A s \in Slots : Claimants(s)' = Claimants(s)
    BY ClaimKept
  <2> QED BY <2>1 DEF IInv, ClaimsBalance, cacheVars
<1>3. EntriesTrue'
  BY DEF IInv, EntriesTrue, cacheVars, TypeOK
<1>4. ClaimRegistered'
  BY DEF IInv, ClaimRegistered, cacheVars, Key
<1> QED BY <1>1, <1>2, <1>3, <1>4

LEMMA BeginReadStep ==
  ASSUME IInv, NEW t \in Threads, NEW o \in 1 .. Len(sources), NEW r \in Reads,
         BeginRead(t, o, r[1], r[2])
  PROVE  IInv'
<1> DEFINE q == [owner |-> o, off |-> r[1], len |-> r[2], floor |-> sources[o].floor,
                 fence |-> fence[sources[o].file]]
<1>1. r[1] \in Nat /\ r[2] \in Nat /\ r[2] > 0
  BY CacheAssumption
<1>2. sources[o] \in Sources /\ q \in Requests
  <2>1. sources[o] \in Sources
    BY DEF IInv, TypeOK
  <2>2. sources[o].file \in Files /\ sources[o].floor \in Nat
    BY <2>1 DEF Sources
  <2>3. fence[sources[o].file] \in Nat
    BY <2>2 DEF IInv, TypeOK
  <2> QED BY <1>1, <2>1, <2>2, <2>3 DEF Requests
<1>3. /\ pc[t] \in Resting /\ pc'[t] \in {"direct", "hold"}
      /\ pc' = [pc EXCEPT ![t] = pc'[t]]
      /\ req' = [req EXCEPT ![t] = q]
      /\ start' = [start EXCEPT ![t] = Align(r[1])]
      /\ out' = [out EXCEPT ![t] = <<>>]
      /\ UNCHANGED <<cacheVars, claim, disk, sources, fence>>
  BY DEF BeginRead, IInv, TypeOK
<1>4. TypeOK'
  <2>1. req' \in [Threads -> Requests] /\ start' \in [Threads -> Nat]
    BY <1>1, <1>2, <1>3, AlignBounds DEF IInv, TypeOK
  <2>2. out' \in [Threads -> Seq(Bytes)]
    <3>1. <<>> \in Seq(Bytes)
      OBVIOUS
    <3> QED BY <1>3, <3>1 DEF IInv, TypeOK
  <2>3. pc' \in [Threads -> Resting \cup Claiming \cup {"hold", "direct"}]
    BY <1>3 DEF IInv, TypeOK
  <2> QED BY <1>3, <2>1, <2>2, <2>3 DEF IInv, TypeOK, cacheVars
<1>5. (Bookkeeping /\ ClaimsBalance /\ EntriesTrue /\ FreeUnclaimed /\ ClaimRegistered)'
  BY <1>3, CacheUntouched DEF IInv, TypeOK, Resting, Claiming
<1>6. BytesAreMine' /\ ReadsASource'
  <2>1. /\ req'[t].owner \in 1 .. Len(sources) /\ out'[t] = <<>>
        /\ \A u \in Threads \ {t} : req'[u] = req[u] /\ out'[u] = out[u] /\ pc'[u] = pc[u]
    BY <1>3 DEF IInv, TypeOK
  <2> HIDE DEF q
  <2>2. BytesAreMine'
    <3>1. IsFrom(out'[t], FileOf(t)', req'[t].off)
      BY <2>1 DEF IsFrom
    <3>2. ASSUME NEW u \in Threads \ {t} PROVE IsFrom(out'[u], FileOf(u)', req'[u].off)
      BY <1>3, <2>1 DEF IInv, BytesAreMine, FileOf
    <3> QED BY <3>1, <3>2 DEF BytesAreMine
  <2>3. ReadsASource'
    BY <1>3, <2>1 DEF IInv, ReadsASource
  <2> QED BY <2>2, <2>3
<1>7. LoopPosition'
  <2> SUFFICES ASSUME NEW u \in Threads
               PROVE  /\ req'[u].len > 0 \/ pc'[u] = "idle"
                      /\ pc'[u] \in {"hold", "copy", "advance"} =>
                           start'[u] + WindowSize > req'[u].off
                      /\ pc'[u] \in {"hold", "copy"} =>
                           /\ Len(out'[u]) = Larger(0, start'[u] - req'[u].off)
                           /\ start'[u] < req'[u].off + req'[u].len
                      /\ pc'[u] = "advance" =>
                           /\ Len(out'[u]) = start'[u] + WindowSize - req'[u].off
                           /\ start'[u] + WindowSize < req'[u].off + req'[u].len
    BY DEF LoopPosition
  <2>1. CASE u = t
    <3>1. req'[u] = q /\ start'[u] = Align(r[1]) /\ out'[u] = <<>>
      BY <1>3, <2>1 DEF IInv, TypeOK
    <3>2. Align(r[1]) \in Nat /\ Align(r[1]) <= r[1] /\ r[1] < Align(r[1]) + WindowSize
      BY <1>1, AlignBounds
    <3>3. Larger(0, Align(r[1]) - r[1]) = 0
      BY <1>1, <3>2 DEF Larger
    <3> QED BY <1>1, <1>3, <2>1, <3>1, <3>2, <3>3
  <2>2. CASE u # t
    BY <1>3, <2>2 DEF IInv, TypeOK, LoopPosition
  <2> QED BY <2>1, <2>2
<1> QED BY <1>4, <1>5, <1>6, <1>7 DEF IInv

(* A thread in or past a read has a source and its file.                   *)
LEMMA ReadsAFile ==
  ASSUME TypeOK, ReadsASource, NEW t \in Threads, pc[t] # "idle"
  PROVE  req[t].owner \in 1 .. Len(sources) /\ FileOf(t) \in Files
<1>1. req[t].owner \in 1 .. Len(sources)
  BY DEF ReadsASource
<1>2. sources[req[t].owner] \in Sources
  BY <1>1 DEF TypeOK
<1> QED BY <1>1, <1>2 DEF FileOf, Sources

(* Steps that change no thread's place in Read.                            *)
LEMMA ReadersUntouched ==
  ASSUME IInv, UNCHANGED readerVars,
         Len(sources') >= Len(sources), Len(sources') \in Nat,
         \A o \in 1 .. Len(sources) : sources'[o].file = sources[o].file
  PROVE  (BytesAreMine /\ ReadsASource /\ LoopPosition)'
<1>1. ReadsASource' /\ LoopPosition'
  BY DEF IInv, TypeOK, ReadsASource, LoopPosition, readerVars
<1>2. \A t \in Threads : Len(out[t]) > 0 => FileOf(t)' = FileOf(t)
  BY DEF IInv, TypeOK, ReadsASource, FileOf, readerVars
<1>3. ASSUME NEW t \in Threads
      PROVE  IsFrom(out'[t], FileOf(t)', req'[t].off)
  <2>1. out'[t] = out[t] /\ req'[t] = req[t] /\ Len(out[t]) \in Nat
    BY DEF readerVars, IInv, TypeOK
  <2>2. IsFrom(out[t], FileOf(t), req[t].off)
    BY DEF IInv, BytesAreMine
  <2>3. CASE Len(out[t]) > 0
    BY <1>2, <2>1, <2>2, <2>3
  <2>4. CASE Len(out[t]) = 0
    BY <2>1, <2>4 DEF IsFrom
  <2> QED BY <2>1, <2>3, <2>4
<1> QED BY <1>1, <1>3 DEF BytesAreMine

(* HoldFull and DirectFault only move the thread on.                       *)
LEMMA MovedOn ==
  ASSUME IInv, NEW t \in Threads, NEW x \in {"direct", "failed"},
         pc[t] \in {"hold", "direct"}, pc' = [pc EXCEPT ![t] = x],
         UNCHANGED <<cacheVars, req, start, claim, out, disk, sources, fence>>
  PROVE  IInv'
<1>1. TypeOK'
  BY DEF IInv, TypeOK, cacheVars, Resting
<1>2. \A o \in 1 .. Len(sources) : sources'[o].file = sources[o].file
  OBVIOUS
<1>3. (Bookkeeping /\ ClaimsBalance /\ EntriesTrue /\ FreeUnclaimed /\ ClaimRegistered)'
  BY <1>2, CacheUntouched DEF IInv, TypeOK, Claiming
<1>4. (BytesAreMine /\ ReadsASource /\ LoopPosition)'
  BY DEF IInv, TypeOK, BytesAreMine, ReadsASource, LoopPosition, FileOf
<1> QED BY <1>1, <1>3, <1>4 DEF IInv

(* Bytes of a file appended where the copied ones end.                     *)
LEMMA Grown ==
  ASSUME NEW a \in Seq(Bytes), NEW b \in Seq(Bytes), NEW f, NEW off \in Nat,
         IsFrom(a, f, off), IsFrom(b, f, off + Len(a))
  PROVE  /\ a \o b \in Seq(Bytes)
         /\ Len(a \o b) = Len(a) + Len(b)
         /\ IsFrom(a \o b, f, off)
<1>1. /\ a \o b \in Seq(Bytes) /\ Len(a \o b) = Len(a) + Len(b)
      /\ Len(a) \in Nat /\ Len(b) \in Nat
  BY ConcatProperties, LenProperties
<1>2. ASSUME NEW i \in 1 .. Len(a \o b)
      PROVE  (a \o b)[i].file = f /\ (a \o b)[i].pos = off + i - 1
  <2>1. CASE i <= Len(a)
    BY <1>1, <2>1, ConcatProperties DEF IsFrom
  <2>2. CASE i > Len(a)
    <3>1. i - Len(a) \in 1 .. Len(b) /\ (a \o b)[i] = b[i - Len(a)]
      BY <1>1, <2>2, ConcatProperties
    <3> QED BY <1>1, <3>1 DEF IsFrom
  <2> QED BY <1>1, <2>1, <2>2
<1> QED BY <1>1, <1>2 DEF IsFrom

(* A run of n bytes of one version.                                        *)
LEMMA RunOfBytes ==
  ASSUME NEW f \in Files, NEW n \in Nat, NEW base \in Nat, NEW v \in Nat
  PROVE  /\ Run(f, base, n, v) \in Seq(Bytes)
         /\ Len(Run(f, base, n, v)) = n
         /\ IsFrom(Run(f, base, n, v), f, base)
<1> DEFINE b == [i \in 1 .. n |-> [file |-> f, pos |-> base + i - 1, version |-> v]]
<1>1. \A i \in 1 .. n : b[i] \in Bytes /\ b[i].file = f /\ b[i].pos = base + i - 1
  BY DEF Bytes
<1>2. b \in Seq(Bytes) /\ Len(b) = n
  BY <1>1
<1>3. b = Run(f, base, n, v)
  BY DEF Run
<1> HIDE DEF b
<1> QED BY <1>1, <1>2, <1>3 DEF IsFrom

LEMMA GivenIsNat ==
  ASSUME TypeOK, NEW f \in Files, NEW off \in Nat, NEW n \in Int
  PROVE  Given(f, off, n) \in Nat /\ (n >= 0 => Given(f, off, n) <= n)
BY DEF TypeOK, Given, Larger, Smaller

LEMMA ReadDirectStep ==
  ASSUME IInv, NEW t \in Threads, ReadDirect(t)
  PROVE  IInv'
<1> DEFINE f == FileOf(t)
           base == req[t].off + Len(out[t])
           n == Given(f, base, req[t].len - Len(out[t]))
           b == OnDisk(f, base, n)
<1>1. /\ pc[t] = "direct" /\ out' = [out EXCEPT ![t] = out[t] \o b]
      /\ pc' = [pc EXCEPT ![t] = "done"]
      /\ UNCHANGED <<cacheVars, req, start, claim, disk, sources, fence>>
  BY DEF ReadDirect, IInv, TypeOK
<1>2. f \in Files /\ req[t].owner \in 1 .. Len(sources)
  BY <1>1, ReadsAFile DEF IInv, ReadsASource
<1>3. /\ disk[f].version \in Nat /\ disk[f].size \in Nat
      /\ req[t].off \in Nat /\ req[t].len \in Nat
      /\ out[t] \in Seq(Bytes) /\ Len(out[t]) \in Nat
  BY <1>2 DEF IInv, TypeOK, Requests
<1>4. n \in Nat /\ base \in Nat
  <2>1. base \in Nat /\ req[t].len - Len(out[t]) \in Int
    BY <1>3
  <2> HIDE DEF f, base
  <2> QED BY <1>2, <2>1, GivenIsNat DEF IInv
<1>5. out[t] \o b \in Seq(Bytes) /\ IsFrom(out[t] \o b, f, req[t].off)
  <2>1. IsFrom(out[t], f, req[t].off)
    BY DEF IInv, BytesAreMine
  <2>2. b \in Seq(Bytes) /\ IsFrom(b, f, base)
    <3>1. b = Run(f, base, n, disk[f].version)
      BY DEF OnDisk
    <3> HIDE DEF b, n, f, base
    <3> QED BY <1>2, <1>3, <1>4, <3>1, RunOfBytes
  <2> HIDE DEF b, f
  <2> QED BY <1>3, <2>1, <2>2, Grown
<1> HIDE DEF b
<1>6. TypeOK'
  BY <1>1, <1>5 DEF IInv, TypeOK, cacheVars, Resting
<1>7. \A o \in 1 .. Len(sources) : sources'[o].file = sources[o].file
  BY <1>1
<1>8. (Bookkeeping /\ ClaimsBalance /\ EntriesTrue /\ FreeUnclaimed /\ ClaimRegistered)'
  BY <1>1, <1>7, CacheUntouched DEF IInv, TypeOK, Claiming
<1>9. BytesAreMine' /\ ReadsASource' /\ LoopPosition'
  BY <1>1, <1>2, <1>5 DEF IInv, TypeOK, BytesAreMine, ReadsASource, LoopPosition, FileOf
<1> QED BY <1>6, <1>8, <1>9 DEF IInv

LEMMA HoldHitStep ==
  ASSUME IInv, NEW t \in Threads, HoldHit(t)
  PROVE  IInv'
<1>1. PICK e \in held :
        /\ e.key = Key(t)
        /\ res' = Touch(Pin(res, e.slot), e.slot)
        /\ claim' = [claim EXCEPT ![t] = [slot |-> e.slot, valid |-> e.valid]]
  BY DEF HoldHit
<1> DEFINE s == e.slot
<1>2. /\ pc[t] = "hold" /\ pc' = [pc EXCEPT ![t] = "copy"]
      /\ UNCHANGED <<held, byslot, block, req, start, out, disk, sources, fence>>
  BY DEF HoldHit
<1>3. s \in Slots /\ e.valid \in Nat \ {0} /\ e.key \in Keys
  BY DEF IInv, TypeOK, Entries
<1>4. /\ res' \in Residency /\ res'.list = res.list
      /\ res'.pins = [res.pins EXCEPT ![s] = @ + 1]
  BY <1>1, <1>3, TouchedFacts DEF IInv, TypeOK
<1>5. byslot[s] = Key(t) /\ byslot[s] # NoKey /\ res.list[s] # Free
  BY <1>1, <1>3 DEF IInv, Bookkeeping, Keys, NoKey
<1>6. TypeOK'
  BY <1>1, <1>2, <1>3, <1>4 DEF IInv, TypeOK, Claiming
<1>7. Bookkeeping' /\ EntriesTrue' /\ ReadsASource'
  BY <1>2, <1>4 DEF IInv, TypeOK, Bookkeeping, EntriesTrue, ReadsASource
<1>8. ClaimsBalance'
  <2>1. /\ Cardinality(Claimants(s)') = Cardinality(Claimants(s)) + 1
        /\ \A x \in Slots \ {s} : Claimants(x)' = Claimants(x)
    BY <1>1, <1>2, <1>3, ClaimTaken DEF IInv, TypeOK, Claiming
  <2> QED BY <1>3, <1>4, <2>1 DEF IInv, TypeOK, ClaimsBalance, Residency
<1>9. FreeUnclaimed'
  BY <1>3, <1>4, <1>5 DEF IInv, TypeOK, FreeUnclaimed, Residency
<1>10. ClaimRegistered'
  BY <1>1, <1>2, <1>3, <1>5 DEF IInv, TypeOK, ClaimRegistered, EntriesTrue, Key, Claiming
<1>11. BytesAreMine' /\ LoopPosition'
  BY <1>2 DEF IInv, TypeOK, BytesAreMine, LoopPosition, FileOf
<1> QED BY <1>6, <1>7, <1>8, <1>9, <1>10, <1>11 DEF IInv

(* Evicting what slot s held takes its own entry out and no other.         *)
LEMMA EvictedEntries ==
  ASSUME IInv, NEW s \in Slots
  PROVE  \A e : e \in Evicted(s) <=> e \in held /\ e.slot # s
<1> SUFFICES ASSUME NEW e \in held PROVE e.key # byslot[s] <=> e.slot # s
  BY DEF Evicted
<1>1. byslot[e.slot] = e.key /\ e.key # NoKey /\ e.slot \in Slots
  BY DEF IInv, TypeOK, Bookkeeping, Entries, Keys, NoKey
<1>2. e.slot = s => e.key = byslot[s]
  BY <1>1
<1>3. ASSUME e.key = byslot[s] PROVE e.slot = s
  <2>1. PICK d \in held : d.slot = s /\ d.key = byslot[s]
    BY <1>1, <1>3 DEF IInv, Bookkeeping
  <2> QED BY <1>3, <2>1 DEF IInv, Bookkeeping
<1> QED BY <1>2, <1>3

LEMMA HoldFillStep ==
  ASSUME IInv, NEW t \in Threads, NEW s \in Slots, HoldFill(t, s)
  PROVE  IInv'
<1> DEFINE f == FileOf(t)
           read == Given(f, start[t], WindowSize)
           new == [key |-> Key(t), slot |-> s, valid |-> read]
<1>1. /\ pc[t] = "hold" /\ \A e \in held : e.key # Key(t)
      /\ Claimable(res, s) /\ read > 0
      /\ res' = Claimed(res, s, PriorityOf[f])
      /\ held' = Evicted(s) \cup {new}
      /\ byslot' = [byslot EXCEPT ![s] = Key(t)]
      /\ block' = [block EXCEPT ![s] = [file |-> f, start |-> start[t],
                                        version |-> disk[f].version]]
      /\ claim' = [claim EXCEPT ![t] = [slot |-> s, valid |-> read]]
      /\ pc' = [pc EXCEPT ![t] = "copy"]
      /\ UNCHANGED <<req, start, out, disk, sources, fence>>
  BY DEF HoldFill, Missed
<1>2. f \in Files /\ req[t].owner \in 1 .. Len(sources) /\ start[t] \in Nat
  BY <1>1, ReadsAFile DEF IInv, TypeOK
<1>3. read \in Nat /\ read <= WindowSize /\ disk[f].version \in Nat
  <2> HIDE DEF f
  <2>1. WindowSize \in Int /\ WindowSize >= 0
    BY CacheAssumption
  <2> QED BY <1>2, <2>1, GivenIsNat DEF IInv, TypeOK
<1>4. PriorityOf[f] \in Priorities /\ PriorityOf[f] # Free
  BY <1>2, CacheAssumption, PrioritiesAssumption DEF Free
<1>5. /\ res' \in Residency
      /\ res'.list = [res.list EXCEPT ![s] = PriorityOf[f]]
      /\ res'.pins = [res.pins EXCEPT ![s] = 1]
  <2> DEFINE p == PriorityOf[f]
  <2>1. p \in Priorities /\ res \in Residency /\ res' = Claimed(res, s, p)
    BY <1>1, <1>4 DEF IInv, TypeOK
  <2> HIDE DEF p
  <2>2. /\ res' \in Residency /\ res'.list = [res.list EXCEPT ![s] = p]
        /\ res'.pins = [res.pins EXCEPT ![s] = 1]
    BY <2>1, ClaimedFacts
  <2> QED BY <2>2 DEF p
<1>6. Key(t) \in Keys /\ Key(t) # NoKey /\ Key(t)[1] = req[t].owner /\ Key(t)[2] = start[t]
  BY <1>2 DEF IInv, TypeOK, Key, Keys, NoKey
<1>7. /\ res.pins[s] = 0
      /\ \A u \in Threads : pc[u] \in Claiming => claim[u].slot # s
  BY <1>1, ClaimableUnclaimed, UnpinnedUnclaimed DEF IInv
<1>8. \A e : e \in held' <=> e = new \/ (e \in held /\ e.slot # s)
  BY <1>1, EvictedEntries
<1> HIDE DEF f, read
<1>9. TypeOK'
  <2>1. held' \subseteq Entries
    BY <1>1, <1>3, <1>6, <1>8 DEF IInv, TypeOK, Entries
  <2>2. block' \in [Slots -> Contents]
    BY <1>1, <1>2, <1>3 DEF IInv, TypeOK, Contents
  <2> QED
    BY <1>1, <1>3, <1>5, <1>6, <2>1, <2>2 DEF IInv, TypeOK, Claiming
<1>10. Bookkeeping'
  <2>1. \A e \in held' : byslot'[e.slot] = e.key
    BY <1>1, <1>8 DEF IInv, TypeOK, Bookkeeping, Entries
  <2>2. \A x \in Slots : byslot'[x] # NoKey =>
          \E e \in held' : e.slot = x /\ e.key = byslot'[x]
    <3> SUFFICES ASSUME NEW x \in Slots, byslot'[x] # NoKey
                 PROVE  \E e \in held' : e.slot = x /\ e.key = byslot'[x]
      OBVIOUS
    <3>1. CASE x = s
      <4>1. byslot'[s] = Key(t)
        BY <1>1 DEF IInv, TypeOK
      <4>2. new.slot = s /\ new.key = Key(t) /\ new \in held'
        BY <1>8
      <4> QED BY <3>1, <4>1, <4>2
    <3>2. CASE x # s
      <4>1. byslot'[x] = byslot[x]
        BY <1>1, <3>2 DEF IInv, TypeOK
      <4>2. PICK e \in held : e.slot = x /\ e.key = byslot[x]
        BY <4>1 DEF IInv, Bookkeeping
      <4>3. e \in held'
        BY <1>8, <3>2, <4>2
      <4> QED BY <4>1, <4>2, <4>3
    <3> QED BY <3>1, <3>2
  <2>3. \A e, d \in held' : e.key = d.key => e = d
    BY <1>1, <1>8 DEF IInv, Bookkeeping
  <2>4. \A x \in Slots : byslot'[x] # NoKey <=> res'.list[x] # Free
    BY <1>1, <1>4, <1>5, <1>6 DEF IInv, TypeOK, Residency, Bookkeeping
  <2> QED BY <2>1, <2>2, <2>3, <2>4 DEF Bookkeeping
<1>11. ClaimsBalance'
  <2>1. /\ Cardinality(Claimants(s)') = Cardinality(Claimants(s)) + 1
        /\ \A x \in Slots \ {s} : Claimants(x)' = Claimants(x)
    BY <1>1, ClaimTaken DEF IInv, TypeOK, Claiming
  <2>2. Cardinality(Claimants(s)) = 0
    BY <1>7 DEF IInv, ClaimsBalance
  <2> QED BY <1>5, <2>1, <2>2 DEF IInv, TypeOK, ClaimsBalance, Residency
<1>12. EntriesTrue'
  <2> SUFFICES ASSUME NEW e \in held'
               PROVE  /\ e.key[1] \in 1 .. Len(sources)
                      /\ block'[e.slot].file = sources[e.key[1]].file
                      /\ block'[e.slot].start = e.key[2]
                      /\ e.valid <= WindowSize
    BY <1>1 DEF EntriesTrue
  <2>1. CASE e = new
    <3>1. e.key = Key(t) /\ e.slot = s /\ e.valid = read
      BY <2>1
    <3>2. block'[s].file = f /\ block'[s].start = start[t]
      BY <1>1 DEF IInv, TypeOK
    <3> QED BY <1>2, <1>3, <1>6, <3>1, <3>2 DEF f, FileOf
  <2>2. CASE e \in held /\ e.slot # s
    BY <1>1, <2>2 DEF IInv, TypeOK, Entries, EntriesTrue
  <2> QED BY <1>8, <2>1, <2>2
<1>13. FreeUnclaimed'
  BY <1>4, <1>5 DEF IInv, TypeOK, FreeUnclaimed, Residency
<1>14. ClaimRegistered'
  BY <1>1, <1>3, <1>7 DEF IInv, TypeOK, ClaimRegistered, Key, Claiming
<1>15. BytesAreMine' /\ LoopPosition' /\ ReadsASource'
  BY <1>1 DEF IInv, TypeOK, BytesAreMine, LoopPosition, ReadsASource, FileOf
<1> QED BY <1>9, <1>10, <1>11, <1>12, <1>13, <1>14, <1>15 DEF IInv

(* A fetch that gave nothing or failed: the slot is free in both           *)
(* directions, and nobody had claimed it.                                  *)
LEMMA AbandonStep ==
  ASSUME IInv, NEW t \in Threads, NEW s \in Slots, NEW x \in {"direct", "failed"},
         Missed(t), Claimable(res, s), Abandon(t, s),
         pc' = [pc EXCEPT ![t] = x],
         block' = block \/ block' = [block EXCEPT ![s] = NoBytes],
         UNCHANGED <<req, start, claim, out, disk, sources, fence>>
  PROVE  IInv'
<1> DEFINE p == PriorityOf[FileOf(t)]
<1>1. pc[t] = "hold" /\ held' = Evicted(s) /\ byslot' = [byslot EXCEPT ![s] = NoKey]
  BY DEF Missed, Abandon
<1>2. FileOf(t) \in Files
  BY <1>1, ReadsAFile DEF IInv
<1>3. p \in Priorities /\ res \in Residency
  BY <1>2, CacheAssumption DEF IInv, TypeOK
<1>4. res' = Forget(Unpin(Claimed(res, s, p), s), s)
  BY DEF Abandon
<1> HIDE DEF p
<1>5. /\ res' \in Residency
      /\ res'.list = [res.list EXCEPT ![s] = Free]
      /\ res'.pins = [res.pins EXCEPT ![s] = 0]
  BY <1>3, <1>4, AbandonedFacts
<1>6. /\ res.pins[s] = 0
      /\ \A u \in Threads : pc[u] \in Claiming => claim[u].slot # s
  BY ClaimableUnclaimed, UnpinnedUnclaimed DEF IInv
<1>7. \A e : e \in held' <=> e \in held /\ e.slot # s
  BY <1>1, EvictedEntries
<1>8. block' \in [Slots -> Contents] /\ \A y \in Slots \ {s} : block'[y] = block[y]
  <2>1. NoBytes \in Contents /\ block \in [Slots -> Contents]
    BY DEF IInv, TypeOK, Contents, NoBytes
  <2> QED BY <2>1
<1>9. TypeOK'
  <2>1. held' \subseteq Entries
    BY <1>7 DEF IInv, TypeOK
  <2> QED
    BY <1>1, <1>5, <1>8, <2>1 DEF IInv, TypeOK, Resting
<1>10. Bookkeeping'
  <2>1. \A e \in held' : byslot'[e.slot] = e.key
    BY <1>1, <1>7 DEF IInv, TypeOK, Bookkeeping, Entries
  <2>2. \A y \in Slots : byslot'[y] # NoKey =>
          \E e \in held' : e.slot = y /\ e.key = byslot'[y]
    <3> SUFFICES ASSUME NEW y \in Slots, byslot'[y] # NoKey
                 PROVE  \E e \in held' : e.slot = y /\ e.key = byslot'[y]
      OBVIOUS
    <3>1. y # s /\ byslot'[y] = byslot[y]
      BY <1>1 DEF IInv, TypeOK
    <3>2. PICK e \in held : e.slot = y /\ e.key = byslot[y]
      BY <3>1 DEF IInv, Bookkeeping
    <3> QED BY <1>7, <3>1, <3>2
  <2>3. \A e, d \in held' : e.key = d.key => e = d
    BY <1>7 DEF IInv, Bookkeeping
  <2>4. \A y \in Slots : byslot'[y] # NoKey <=> res'.list[y] # Free
    BY <1>1, <1>5 DEF IInv, TypeOK, Residency, Bookkeeping
  <2> QED BY <2>1, <2>2, <2>3, <2>4 DEF Bookkeeping
<1>11. ClaimsBalance'
  <2>1. \A y \in Slots : Claimants(y)' = Claimants(y)
    BY <1>1, ClaimKept DEF IInv, TypeOK, Claiming
  <2>2. res'.pins = res.pins
    BY <1>5, <1>6 DEF IInv, TypeOK, Residency
  <2> QED BY <2>1, <2>2 DEF IInv, ClaimsBalance
<1>12. EntriesTrue'
  BY <1>7, <1>8 DEF IInv, TypeOK, Entries, EntriesTrue
<1>13. FreeUnclaimed'
  BY <1>5, <1>6 DEF IInv, TypeOK, FreeUnclaimed, Residency
<1>14. ClaimRegistered'
  BY <1>1, <1>6 DEF IInv, TypeOK, ClaimRegistered, Key, Claiming
<1>15. BytesAreMine' /\ LoopPosition' /\ ReadsASource'
  BY <1>1 DEF IInv, TypeOK, BytesAreMine, LoopPosition, ReadsASource, FileOf
<1> QED BY <1>9, <1>10, <1>11, <1>12, <1>13, <1>14, <1>15 DEF IInv

(* What the copy takes from a claimed window is that window's file's bytes *)
(* from where the last ones ended.                                         *)
LEMMA CopyStep ==
  ASSUME IInv, NEW t \in Threads, Copy(t)
  PROVE  IInv'
<1> DEFINE q == req[t]
           c == claim[t]
           from == Larger(0, q.off - start[t])
           take == Smaller(c.valid - from, q.len - Len(out[t]))
           got == InSlot(c.slot, from, take)
           over == from >= c.valid \/ c.valid < WindowSize
                   \/ start[t] + WindowSize > LastWindow(q)
<1>1. /\ pc[t] = "copy"
      /\ out' = IF from >= c.valid THEN out ELSE [out EXCEPT ![t] = @ \o got]
      /\ pc' = [pc EXCEPT ![t] = IF over THEN "finish" ELSE "advance"]
      /\ UNCHANGED <<cacheVars, req, start, claim, disk, sources, fence>>
  BY DEF Copy
<1>2. /\ q.off \in Nat /\ q.len \in Nat /\ start[t] \in Nat
      /\ c.valid \in Nat /\ c.valid <= WindowSize /\ c.slot \in Slots
      /\ out[t] \in Seq(Bytes) /\ Len(out[t]) \in Nat
      /\ WindowSize \in Nat /\ WindowSize > 0
  <2>1. q \in Requests /\ c \in [slot : Slots \cup {NoSlot}, valid : Nat]
    BY DEF IInv, TypeOK
  <2>2. c.valid <= WindowSize /\ c.slot \in Slots
    BY <1>1 DEF IInv, ClaimRegistered, Claiming
  <2> QED BY <2>1, <2>2, CacheAssumption DEF IInv, TypeOK, Requests
<1>3. /\ start[t] + WindowSize > q.off
      /\ Len(out[t]) = Larger(0, start[t] - q.off)
      /\ start[t] < q.off + q.len
      /\ q.len > 0
  BY <1>1 DEF IInv, LoopPosition
<1>4. from \in Nat /\ start[t] + from = q.off + Len(out[t]) /\ q.len - Len(out[t]) > 0
  <2> DEFINE n == Len(out[t])
             w == start[t]
  <2>1. /\ q.off \in Nat /\ q.len \in Nat /\ q.len > 0 /\ w \in Nat /\ n \in Nat
        /\ n = Larger(0, w - q.off) /\ w < q.off + q.len
    BY <1>2, <1>3
  <2> DEFINE off == q.off
             len == q.len
  <2>2. /\ off \in Nat /\ len \in Nat /\ len > 0 /\ w \in Nat /\ n \in Nat
        /\ n = Larger(0, w - off) /\ w < off + len
    BY <2>1
  <2> HIDE DEF n, w, off, len
  <2>3. /\ Larger(0, off - w) \in Nat
        /\ w + Larger(0, off - w) = off + n
        /\ len - n > 0
    BY <2>2 DEF Larger
  <2> QED BY <2>3 DEF w, n, off, len
<1>5. from < c.valid => take \in Nat
  <2> DEFINE a == c.valid
             b == q.len - Len(out[t])
  <2>1. a \in Nat /\ b \in Nat /\ from \in Nat
    BY <1>2, <1>4
  <2> HIDE DEF from, a, b
  <2>2. from < a => Smaller(a - from, b) \in Nat
    BY <2>1 DEF Smaller
  <2> QED BY <2>2 DEF a, b
<1>6. /\ block[c.slot].file = FileOf(t) /\ block[c.slot].start = start[t]
      /\ block[c.slot].version \in Nat /\ FileOf(t) \in Files
  <2>1. byslot[c.slot] = Key(t)
    BY <1>1 DEF IInv, ClaimRegistered, Claiming
  <2>2. req[t].owner \in 1 .. Len(sources) /\ FileOf(t) \in Files
    BY <1>1, ReadsAFile DEF IInv
  <2>3. Key(t) # NoKey
    BY <2>2 DEF Key, NoKey
  <2>4. PICK e \in held : e.slot = c.slot /\ e.key = Key(t)
    BY <1>2, <2>1, <2>3 DEF IInv, Bookkeeping
  <2>5. block[c.slot].file = sources[e.key[1]].file /\ block[c.slot].start = e.key[2]
    BY <2>4 DEF IInv, EntriesTrue
  <2>6. block[c.slot] \in Contents
    BY <1>2 DEF IInv, TypeOK
  <2> QED BY <2>2, <2>4, <2>5, <2>6 DEF Key, FileOf, Contents
<1>7. ASSUME from < c.valid
      PROVE  /\ out[t] \o got \in Seq(Bytes)
             /\ Len(out[t] \o got) = Len(out[t]) + take
             /\ IsFrom(out[t] \o got, FileOf(t), q.off)
  <2>1. got = Run(FileOf(t), start[t] + from, take, block[c.slot].version)
    BY <1>6 DEF InSlot
  <2>2. start[t] + from \in Nat
    BY <1>2, <1>4
  <2>3. IsFrom(out[t], FileOf(t), q.off)
    BY DEF IInv, BytesAreMine
  <2>4. take \in Nat
    BY <1>5, <1>7
  <2> DEFINE f == FileOf(t)
             base == start[t] + from
             v == block[c.slot].version
  <2>5. got = Run(f, base, take, v)
        /\ f \in Files /\ take \in Nat /\ base \in Nat /\ v \in Nat
    BY <1>6, <2>1, <2>2, <2>4
  <2> HIDE DEF got, from, take, c, q, f, base, v
  <2>6. got \in Seq(Bytes) /\ Len(got) = take /\ IsFrom(got, f, base)
    BY <2>5, RunOfBytes
  <2>7. base = q.off + Len(out[t]) /\ IsFrom(out[t], f, q.off)
    BY <1>4, <2>3 DEF f, base
  <2>8. /\ out[t] \o got \in Seq(Bytes)
        /\ Len(out[t] \o got) = Len(out[t]) + Len(got)
        /\ IsFrom(out[t] \o got, f, q.off)
    BY <1>2, <2>6, <2>7, Grown
  <2> QED BY <2>6, <2>8 DEF f
<1> HIDE DEF got, over
<1>8. /\ out' \in [Threads -> Seq(Bytes)]
      /\ IsFrom(out'[t], FileOf(t), q.off)
      /\ \A u \in Threads \ {t} : out'[u] = out[u]
      /\ from < c.valid => Len(out'[t]) = Len(out[t]) + take
  <2>1. out \in [Threads -> Seq(Bytes)] /\ IsFrom(out[t], FileOf(t), q.off)
    BY DEF IInv, TypeOK, BytesAreMine
  <2>2. (from >= c.valid) \/ (from < c.valid)
    BY <1>2, <1>4
  <2>3. ~(from >= c.valid /\ from < c.valid)
    BY <1>2, <1>4
  <2> HIDE DEF from, take, c, q
  <2>4. CASE from >= c.valid
    BY <1>1, <2>1, <2>3, <2>4
  <2>5. CASE from < c.valid
    <3>1. out' = [out EXCEPT ![t] = out[t] \o got]
      BY <1>1, <2>1, <2>3, <2>5
    <3> QED BY <1>7, <2>1, <2>5, <3>1
  <2> QED BY <2>2, <2>4, <2>5
<1>9. pc' \in [Threads -> Resting \cup Claiming \cup {"hold", "direct"}]
      /\ pc'[t] \in {"finish", "advance"} /\ (pc'[t] = "advance" => ~over)
      /\ \A u \in Threads \ {t} : pc'[u] = pc[u]
  BY <1>1 DEF IInv, TypeOK, Claiming
<1>10. TypeOK'
  BY <1>1, <1>8, <1>9 DEF IInv, TypeOK, cacheVars
<1>11. (Bookkeeping /\ ClaimsBalance /\ EntriesTrue /\ FreeUnclaimed /\ ClaimRegistered)'
  <2>1. \A o \in 1 .. Len(sources) : sources'[o].file = sources[o].file
    BY <1>1
  <2>2. \A u \in Threads : (pc'[u] \in Claiming) = (pc[u] \in Claiming)
    BY <1>1, <1>9 DEF Claiming
  <2> QED BY <1>1, <2>1, <2>2, CacheUntouched DEF IInv, TypeOK
<1>12. BytesAreMine' /\ ReadsASource'
  BY <1>1, <1>8, <1>9 DEF IInv, BytesAreMine, ReadsASource, FileOf
<1>13. LoopPosition'
  <2>1. pc'[t] = "advance" =>
          /\ Len(out'[t]) = start[t] + WindowSize - q.off
          /\ start[t] + WindowSize < q.off + q.len
    <3> SUFFICES ASSUME pc'[t] = "advance"
                 PROVE  /\ Len(out'[t]) = start[t] + WindowSize - q.off
                        /\ start[t] + WindowSize < q.off + q.len
      OBVIOUS
    <3>1. ~over
      BY <1>9
    <3>2. LastWindow(q) \in Nat
      <4>1. q.off + q.len - 1 \in Nat
        BY <1>2, <1>3
      <4> HIDE DEF q
      <4> QED BY <4>1, AlignBounds DEF LastWindow
    <3>3. from < c.valid /\ c.valid = WindowSize /\ start[t] + WindowSize <= LastWindow(q)
      <4> HIDE DEF from, c
      <4> QED BY <1>2, <1>4, <3>1, <3>2 DEF over
    <3>4. /\ Smaller(WindowSize - from, q.len - Len(out[t])) = WindowSize - from
          /\ start[t] + WindowSize < q.off + q.len
      <4> DEFINE n == Len(out[t])
                 w == start[t]
      <4>1. /\ q.off \in Nat /\ q.len \in Nat /\ q.len > 0 /\ w \in Nat /\ n \in Nat
            /\ from \in Nat /\ w + from = q.off + n
        BY <1>2, <1>3, <1>4
      <4>2. w + WindowSize <= Align(q.off + q.len - 1)
        BY <3>3 DEF LastWindow
      <4> HIDE DEF from, n, w, q
      <4> DEFINE off == q.off
                 len == q.len
      <4>3. /\ off \in Nat /\ len \in Nat /\ len > 0 /\ w \in Nat /\ n \in Nat
            /\ from \in Nat /\ w + from = off + n
            /\ w + WindowSize <= Align(off + len - 1)
        BY <4>1, <4>2
      <4> HIDE DEF off, len
      <4>4. /\ Smaller(WindowSize - from, len - n) = WindowSize - from
            /\ w + WindowSize < off + len
        BY <4>3, WholeWindow
      <4> QED BY <4>4 DEF n, w, off, len
    <3>5. Len(out'[t]) = Len(out[t]) + (WindowSize - from)
      BY <1>8, <3>3, <3>4
    <3>6. /\ q.off \in Nat /\ start[t] \in Nat /\ WindowSize \in Nat
          /\ from \in Nat /\ Len(out[t]) \in Nat
      BY <1>2, <1>4
    <3>7. start[t] + from = q.off + Len(out[t])
      BY <1>4
    <3> DEFINE n == Len(out[t])
               m == Len(out'[t])
               w == start[t]
               off == q.off
    <3>8. /\ off \in Nat /\ w \in Nat /\ WindowSize \in Nat /\ from \in Nat /\ n \in Nat
          /\ w + from = off + n /\ m = n + (WindowSize - from)
      BY <3>5, <3>6, <3>7
    <3> HIDE DEF from, n, m, w, off
    <3>9. m = w + WindowSize - off
      BY <3>8
    <3> QED BY <3>4, <3>9 DEF m, w, off
  <2> QED
    BY <1>1, <1>3, <1>8, <1>9, <2>1 DEF IInv, LoopPosition
<1> QED BY <1>10, <1>11, <1>12, <1>13 DEF IInv

LEMMA ReleaseStep ==
  ASSUME IInv, NEW t \in Threads, Release(t)
  PROVE  IInv'
<1>0. claim[t].slot \in Slots
  BY DEF Release, IInv, ClaimRegistered, Claiming
<1> PICK s \in Slots : s = claim[t].slot
  BY <1>0
<1>1. /\ pc[t] \in {"advance", "finish"}
      /\ res' = Unpin(res, s)
      /\ claim' = [claim EXCEPT ![t] = [slot |-> NoSlot, valid |-> 0]]
      /\ start' = IF pc[t] = "advance" THEN [start EXCEPT ![t] = @ + WindowSize] ELSE start
      /\ pc' = [pc EXCEPT ![t] = IF pc[t] = "advance" THEN "hold" ELSE "done"]
      /\ UNCHANGED <<held, byslot, block, req, out, disk, sources, fence>>
  BY DEF Release
<1>2. pc[t] \in Claiming
  BY <1>1 DEF Claiming
<1>3. res.pins[s] > 0
  BY <1>2, ClaimedPinned DEF IInv
<1>4. /\ res' \in Residency /\ res'.list = res.list
      /\ res'.pins = [res.pins EXCEPT ![s] = @ - 1]
  BY <1>1, <1>3, UnpinnedFacts DEF IInv, TypeOK
<1>5. /\ pc'[t] \in {"hold", "done"} /\ (pc'[t] = "hold" <=> pc[t] = "advance")
      /\ \A u \in Threads \ {t} : pc'[u] = pc[u] /\ claim'[u] = claim[u] /\ start'[u] = start[u]
      /\ pc[t] = "advance" => start'[t] = start[t] + WindowSize
  BY <1>1 DEF IInv, TypeOK
<1>6. TypeOK'
  <2>1. pc' \in [Threads -> Resting \cup Claiming \cup {"hold", "direct"}]
    BY <1>1 DEF IInv, TypeOK, Resting
  <2>2. start' \in [Threads -> Nat]
    BY <1>1, CacheAssumption DEF IInv, TypeOK
  <2>3. claim' \in [Threads -> [slot : Slots \cup {NoSlot}, valid : Nat]]
    BY <1>1 DEF IInv, TypeOK
  <2> QED BY <1>1, <1>4, <2>1, <2>2, <2>3 DEF IInv, TypeOK
<1>7. Bookkeeping' /\ EntriesTrue'
  BY <1>1, <1>4 DEF IInv, Bookkeeping, EntriesTrue
<1>8. ClaimsBalance'
  <2>1. /\ Cardinality(Claimants(s)') = Cardinality(Claimants(s)) - 1
        /\ \A x \in Slots \ {s} : Claimants(x)' = Claimants(x)
    <3>1. pc'[t] \notin Claiming
      BY <1>5 DEF Claiming
    <3> QED BY <1>2, <1>5, <3>1, ClaimGivenUp
  <2> QED BY <1>2, <1>4, <2>1 DEF IInv, TypeOK, ClaimsBalance, Residency
<1>9. FreeUnclaimed'
  <2> QED BY <1>2, <1>3, <1>4 DEF IInv, TypeOK, FreeUnclaimed, Residency
<1>10. ClaimRegistered'
  <2>1. pc'[t] \notin Claiming
    BY <1>5 DEF Claiming
  <2> QED BY <1>1, <1>5, <2>1 DEF IInv, ClaimRegistered, Key
<1>11. BytesAreMine' /\ ReadsASource'
  BY <1>1, <1>5 DEF IInv, BytesAreMine, ReadsASource, FileOf
<1>12. LoopPosition'
  <2>1. pc[t] = "advance" =>
          /\ Len(out[t]) = Larger(0, start'[t] - req[t].off)
          /\ start'[t] < req[t].off + req[t].len
          /\ start'[t] + WindowSize > req[t].off
    <3>1. req[t].off \in Nat /\ req[t].len \in Nat /\ start[t] \in Nat
          /\ Len(out[t]) \in Nat /\ WindowSize \in Nat
      BY CacheAssumption DEF IInv, TypeOK, Requests
    <3>2. pc[t] = "advance" =>
            /\ Len(out[t]) = start[t] + WindowSize - req[t].off
            /\ start[t] + WindowSize < req[t].off + req[t].len
            /\ start[t] + WindowSize > req[t].off
      BY DEF IInv, LoopPosition
    <3> QED BY <1>5, <3>1, <3>2 DEF Larger
  <2> QED BY <1>1, <1>5, <2>1 DEF IInv, LoopPosition
<1> QED BY <1>6, <1>7, <1>8, <1>9, <1>10, <1>11, <1>12 DEF IInv

-----------------------------------------------------------------------------
(* The other steps preserve IInv. *)

LEMMA OpenStep ==
  ASSUME IInv, NEW t \in Threads, NEW f \in Files, Open(t, f)
  PROVE  IInv'
<1> DEFINE new == [file |-> f, user |-> t, state |-> "open", floor |-> disk[f].version]
<1>1. sources' = Append(sources, new) /\ UNCHANGED <<cacheVars, readerVars, disk, fence>>
  BY DEF Open
<1>2. new \in Sources
  BY DEF IInv, TypeOK, Sources
<1> HIDE DEF new
<1>3. /\ sources' \in Seq(Sources) /\ Len(sources') = Len(sources) + 1
      /\ \A o \in 1 .. Len(sources) : sources'[o] = sources[o]
      /\ Len(sources) \in Nat
  BY <1>1, <1>2, AppendProperties DEF IInv, TypeOK
<1>4. TypeOK'
  BY <1>1, <1>3 DEF IInv, TypeOK, cacheVars, readerVars
<1>5. (Bookkeeping /\ ClaimsBalance /\ EntriesTrue /\ FreeUnclaimed /\ ClaimRegistered)'
  BY <1>1, <1>3, CacheUntouched DEF readerVars
<1>6. (BytesAreMine /\ ReadsASource /\ LoopPosition)'
  BY <1>1, <1>3, ReadersUntouched
<1> QED BY <1>4, <1>5, <1>6 DEF IInv

LEMMA WriteFileStep ==
  ASSUME IInv, NEW f \in Files, NEW size \in Sizes, WriteFile(f, size)
  PROVE  IInv'
<1>1. /\ disk' = [disk EXCEPT ![f] = [version |-> @.version + 1, size |-> size]]
      /\ UNCHANGED <<cacheVars, readerVars, sources, fence>>
  BY DEF WriteFile
<1>2. TypeOK'
  <2>1. size \in Nat
    BY CacheAssumption
  <2>2. disk' \in [Files -> [version : Nat, size : Nat]]
    BY <1>1, <2>1 DEF IInv, TypeOK
  <2> QED BY <1>1, <2>2 DEF IInv, TypeOK, cacheVars, readerVars
<1>3. Len(sources') = Len(sources) /\ Len(sources) \in Nat /\ sources' \in Seq(Sources)
      /\ \A o \in 1 .. Len(sources) : sources'[o].file = sources[o].file
  BY <1>1 DEF IInv, TypeOK
<1>4. (Bookkeeping /\ ClaimsBalance /\ EntriesTrue /\ FreeUnclaimed /\ ClaimRegistered)'
  BY <1>1, <1>3, CacheUntouched DEF readerVars
<1>5. (BytesAreMine /\ ReadsASource /\ LoopPosition)'
  BY <1>1, <1>3, ReadersUntouched
<1> QED BY <1>2, <1>4, <1>5 DEF IInv

(* A source that changes state keeps its place and its file.               *)
LEMMA SourceStateKept ==
  ASSUME TypeOK, NEW o \in 1 .. Len(sources), NEW src \in Sources,
         src.file = sources[o].file, sources' = [sources EXCEPT ![o] = src]
  PROVE  /\ sources' \in Seq(Sources) /\ Len(sources') = Len(sources) /\ Len(sources) \in Nat
         /\ \A x \in 1 .. Len(sources) : sources'[x].file = sources[x].file
<1>1. sources' \in Seq(Sources) /\ Len(sources') = Len(sources) /\ Len(sources) \in Nat
  BY ExceptSeq DEF TypeOK
<1>2. \A x \in 1 .. Len(sources) : sources'[x] = IF x = o THEN src ELSE sources[x]
  BY DEF TypeOK
<1> QED BY <1>1, <1>2

LEMMA DisposeInnerStep ==
  ASSUME IInv, NEW o \in 1 .. Len(sources), DisposeInner(o)
  PROVE  IInv'
<1> DEFINE src == [sources[o] EXCEPT !.state = "closed"]
<1>1. sources' = [sources EXCEPT ![o] = src] /\ UNCHANGED <<cacheVars, readerVars, disk, fence>>
  BY DEF DisposeInner, IInv, TypeOK
<1>2. src \in Sources /\ src.file = sources[o].file
  <2>1. sources[o] \in Sources
    BY DEF IInv, TypeOK
  <2> QED BY <2>1 DEF Sources
<1> HIDE DEF src
<1>3. /\ sources' \in Seq(Sources) /\ Len(sources') = Len(sources) /\ Len(sources) \in Nat
      /\ \A x \in 1 .. Len(sources) : sources'[x].file = sources[x].file
  BY <1>1, <1>2, SourceStateKept DEF IInv
<1>4. TypeOK'
  BY <1>1, <1>3 DEF IInv, TypeOK, cacheVars, readerVars
<1>5. (Bookkeeping /\ ClaimsBalance /\ EntriesTrue /\ FreeUnclaimed /\ ClaimRegistered)'
  BY <1>1, <1>3, CacheUntouched DEF readerVars
<1>6. (BytesAreMine /\ ReadsASource /\ LoopPosition)'
  BY <1>1, <1>3, ReadersUntouched
<1> QED BY <1>4, <1>5, <1>6 DEF IInv

(* Dropping entries leaves every claimed window where it is.               *)
LEMMA DropStep ==
  ASSUME IInv, NEW entries \in SUBSET held, Drop(entries), UNCHANGED <<readerVars, disk>>,
         fence' \in [Files -> Nat],
         sources' \in Seq(Sources), Len(sources') = Len(sources), Len(sources) \in Nat,
         \A o \in 1 .. Len(sources) : sources'[o].file = sources[o].file
  PROVE  IInv'
<1> DEFINE dropped == {e \in entries : res.pins[e.slot] = 0}
           slots   == {e.slot : e \in dropped}
<1>1. /\ held' = held \ dropped
      /\ byslot' = [s \in Slots |-> IF s \in slots THEN NoKey ELSE byslot[s]]
      /\ res' = [res EXCEPT
                   !.list  = [s \in Slots |-> IF s \in slots THEN Free ELSE res.list[s]],
                   !.older = {p \in @ : p[1] \notin slots /\ p[2] \notin slots}]
      /\ UNCHANGED block
  BY DEF Drop
<1>2. \A s \in slots : s \in Slots /\ res.pins[s] = 0
  BY DEF IInv, TypeOK, Entries
<1>3. \A e \in held : e \in held' <=> e.slot \notin slots
  <2> SUFFICES ASSUME NEW e \in held, e.slot \in slots PROVE e \in dropped
    BY <1>1
  <2>1. PICK d \in dropped : d.slot = e.slot
    OBVIOUS
  <2>2. d \in held /\ byslot[d.slot] = d.key /\ byslot[e.slot] = e.key
    BY DEF IInv, Bookkeeping
  <2> QED BY <2>1, <2>2 DEF IInv, Bookkeeping
<1>4. held' \subseteq held
  BY <1>1
<1> HIDE DEF dropped, slots
<1>5. /\ res' \in Residency /\ res'.pins = res.pins
      /\ res'.list = [s \in Slots |-> IF s \in slots THEN Free ELSE res.list[s]]
  <2>1. res = [list |-> res.list, pins |-> res.pins, older |-> res.older]
        /\ res.list \in [Slots -> Priorities \cup {Free}] /\ res.pins \in [Slots -> Nat]
        /\ res.older \subseteq Slots \X Slots
    BY DEF IInv, TypeOK, Residency
  <2> QED BY <1>1, <2>1 DEF Residency
<1>6. TypeOK'
  <2>1. held' \subseteq Entries
    BY <1>4 DEF IInv, TypeOK
  <2>2. byslot' \in [Slots -> Keys \cup {NoKey}]
    BY <1>1 DEF IInv, TypeOK
  <2> QED BY <1>1, <1>5, <2>1, <2>2 DEF IInv, TypeOK, readerVars
<1>7. Bookkeeping'
  <2>1. \A e \in held' : byslot'[e.slot] = e.key
    BY <1>1, <1>3, <1>4 DEF IInv, TypeOK, Bookkeeping, Entries
  <2>2. \A s \in Slots : byslot'[s] # NoKey =>
          \E e \in held' : e.slot = s /\ e.key = byslot'[s]
    <3> SUFFICES ASSUME NEW s \in Slots, byslot'[s] # NoKey
                 PROVE  \E e \in held' : e.slot = s /\ e.key = byslot'[s]
      OBVIOUS
    <3>1. s \notin slots /\ byslot'[s] = byslot[s]
      BY <1>1
    <3>2. PICK e \in held : e.slot = s /\ e.key = byslot[s]
      BY <3>1 DEF IInv, Bookkeeping
    <3> QED BY <1>3, <3>1, <3>2
  <2>3. \A e, d \in held' : e.key = d.key => e = d
    BY <1>4 DEF IInv, Bookkeeping
  <2>4. \A s \in Slots : byslot'[s] # NoKey <=> res'.list[s] # Free
    BY <1>1, <1>5 DEF IInv, Bookkeeping
  <2> QED BY <2>1, <2>2, <2>3, <2>4 DEF Bookkeeping
<1>8. ClaimsBalance'
  <2>1. \A s \in Slots : Claimants(s)' = Claimants(s)
    BY ClaimKept DEF readerVars
  <2> QED BY <1>5, <2>1 DEF IInv, ClaimsBalance
<1>9. EntriesTrue'
  BY <1>1, <1>4 DEF IInv, EntriesTrue
<1>10. FreeUnclaimed'
  BY <1>2, <1>5 DEF IInv, FreeUnclaimed
<1>11. ClaimRegistered'
  <2>1. \A t \in Threads : pc[t] \in Claiming => claim[t].slot \notin slots
    BY <1>2, UnpinnedUnclaimed DEF IInv
  <2> QED BY <1>1, <2>1 DEF IInv, ClaimRegistered, Key, readerVars
<1>12. (BytesAreMine /\ ReadsASource /\ LoopPosition)'
  BY ReadersUntouched
<1> QED BY <1>6, <1>7, <1>8, <1>9, <1>10, <1>11, <1>12 DEF IInv

LEMMA InvalidateStep ==
  ASSUME IInv, NEW o \in 1 .. Len(sources), Invalidate(o) \/ Dispose(o)
  PROVE  IInv'
<1>1. sources[o] \in Sources
  BY DEF IInv, TypeOK
<1>2. PICK src \in Sources :
        src.file = sources[o].file /\ sources' = [sources EXCEPT ![o] = src]
  <2>1. CASE Invalidate(o)
    <3> DEFINE src == [sources[o] EXCEPT !.floor = disk[sources[o].file].version]
    <3>1. disk[sources[o].file].version \in Nat
      BY <1>1 DEF IInv, TypeOK, Sources
    <3>2. src \in Sources /\ src.file = sources[o].file
      BY <1>1, <3>1 DEF Sources
    <3>3. sources' = [sources EXCEPT ![o] = src]
      BY <2>1 DEF Invalidate, IInv, TypeOK
    <3> QED BY <3>2, <3>3
  <2>2. CASE Dispose(o)
    <3> DEFINE src == [sources[o] EXCEPT !.state = "disposed"]
    <3>1. src \in Sources /\ src.file = sources[o].file
      BY <1>1 DEF Sources
    <3>2. sources' = [sources EXCEPT ![o] = src]
      BY <2>2 DEF Dispose, IInv, TypeOK
    <3> QED BY <3>1, <3>2
  <2> QED BY <2>1, <2>2
<1>3. /\ sources' \in Seq(Sources) /\ Len(sources') = Len(sources) /\ Len(sources) \in Nat
      /\ \A x \in 1 .. Len(sources) : sources'[x].file = sources[x].file
  BY <1>2, SourceStateKept DEF IInv
<1>4. OfOwner(o) \in SUBSET held /\ Drop(OfOwner(o)) /\ UNCHANGED <<readerVars, disk, fence>>
  BY DEF Invalidate, Dispose, OfOwner
<1>5. fence' \in [Files -> Nat]
  BY <1>4 DEF IInv, TypeOK
<1> QED BY <1>3, <1>4, <1>5, DropStep

LEMMA InvalidateAllStep ==
  ASSUME IInv, InvalidateAll
  PROVE  IInv'
<1>1. fence' \in [Files -> Nat]
  BY DEF InvalidateAll, IInv, TypeOK
<1>2. /\ sources' \in Seq(Sources) /\ Len(sources') = Len(sources) /\ Len(sources) \in Nat
      /\ \A x \in 1 .. Len(sources) : sources'[x].file = sources[x].file
  BY DEF InvalidateAll, IInv, TypeOK
<1>3. held \in SUBSET held /\ Drop(held) /\ UNCHANGED <<readerVars, disk>>
  BY DEF InvalidateAll
<1> QED BY <1>1, <1>2, <1>3, DropStep

LEMMA StepIInv == IInv /\ [Next]_vars => IInv'
<1> SUFFICES ASSUME IInv, [Next]_vars PROVE IInv'
  OBVIOUS
<1>1. ASSUME NEW t \in Threads, ReadStep(t) PROVE IInv'
  <2>1. ASSUME HoldHit(t) PROVE IInv'
    BY <2>1, HoldHitStep
  <2>2. ASSUME HoldFull(t) PROVE IInv'
    BY <2>2, MovedOn DEF HoldFull, Missed
  <2>3. ASSUME Copy(t) PROVE IInv'
    BY <2>3, CopyStep
  <2>4. ASSUME Release(t) PROVE IInv'
    BY <2>4, ReleaseStep
  <2>5. ASSUME ReadDirect(t) PROVE IInv'
    BY <2>5, ReadDirectStep
  <2>6. ASSUME DirectFault(t) PROVE IInv'
    BY <2>6, MovedOn DEF DirectFault
  <2>7. ASSUME NEW s \in Slots, HoldFill(t, s) PROVE IInv'
    BY <2>7, HoldFillStep
  <2>8. ASSUME NEW s \in Slots, HoldNothing(t, s) PROVE IInv'
    BY <2>8, AbandonStep DEF HoldNothing
  <2>9. ASSUME NEW s \in Slots, HoldFault(t, s) PROVE IInv'
    BY <2>9, AbandonStep DEF HoldFault
  <2> QED BY <1>1, <2>1, <2>2, <2>3, <2>4, <2>5, <2>6, <2>7, <2>8, <2>9 DEF ReadStep
<1>2. ASSUME NEW t \in Threads, NEW o \in 1 .. Len(sources), NEW r \in Reads,
             BeginRead(t, o, r[1], r[2])
      PROVE  IInv'
  BY <1>2, BeginReadStep
<1>3. ASSUME NEW t \in Threads, NEW f \in Files, Open(t, f) PROVE IInv'
  BY <1>3, OpenStep
<1>4. ASSUME NEW o \in 1 .. Len(sources), Invalidate(o) \/ Dispose(o) \/ DisposeInner(o)
      PROVE  IInv'
  BY <1>4, InvalidateStep, DisposeInnerStep
<1>5. ASSUME InvalidateAll PROVE IInv'
  BY <1>5, InvalidateAllStep
<1>6. ASSUME NEW f \in Files, NEW size \in Sizes, WriteFile(f, size) PROVE IInv'
  BY <1>6, WriteFileStep
<1>7. ASSUME UNCHANGED vars PROVE IInv'
  <2>1. TypeOK'
    BY <1>7 DEF IInv, TypeOK, vars, cacheVars, readerVars
  <2>2. /\ UNCHANGED <<cacheVars, readerVars, claim>>
        /\ Len(sources') = Len(sources) /\ Len(sources) \in Nat /\ sources' \in Seq(Sources)
        /\ \A o \in 1 .. Len(sources) : sources'[o].file = sources[o].file
    BY <1>7 DEF IInv, TypeOK, vars, readerVars
  <2>3. (Bookkeeping /\ ClaimsBalance /\ EntriesTrue /\ FreeUnclaimed /\ ClaimRegistered)'
    BY <2>2, CacheUntouched DEF readerVars
  <2>4. (BytesAreMine /\ ReadsASource /\ LoopPosition)'
    BY <2>2, ReadersUntouched
  <2> QED BY <2>1, <2>3, <2>4 DEF IInv
<1> QED BY <1>1, <1>2, <1>3, <1>4, <1>5, <1>6, <1>7 DEF Next

-----------------------------------------------------------------------------
(* The theorems. *)

(* IInv holds in every state the cache and its readers can reach: it holds *)
(* initially and every step of TryHold, the copy, Release, Invalidate,     *)
(* InvalidateAll and Dispose keeps it.                                     *)
THEOREM CacheInvariant == Spec => []IInv
BY InitIInv, StepIInv, PTL DEF Spec

(* Every variable keeps its type.                                          *)
THEOREM CacheTypeOK == Spec => []TypeOK
<1>1. IInv => TypeOK
  BY DEF IInv
<1> QED BY <1>1, CacheInvariant, PTL

(* The dictionary of windows and the slots' keys always agree.             *)
THEOREM CacheBookkeeping == Spec => []Bookkeeping
<1>1. IInv => Bookkeeping
  BY DEF IInv
<1> QED BY <1>1, CacheInvariant, PTL

(* A slot's pin count is the number of threads between TryHold and Release *)
(* on it, on every path through Read.                                      *)
THEOREM CacheClaimsBalance == Spec => []ClaimsBalance
<1>1. IInv => ClaimsBalance
  BY DEF IInv
<1> QED BY <1>1, CacheInvariant, PTL

(* A window a thread has claimed is neither refilled nor dropped under it. *)
THEOREM CacheClaimedWindowStays == Spec => []ClaimedWindowStays
<1>1. IInv => ClaimedWindowStays
  <2> SUFFICES ASSUME IInv, NEW t \in Threads, pc[t] \in Claiming
               PROVE  /\ claim[t].slot \in Slots
                      /\ block[claim[t].slot].file = FileOf(t)
                      /\ block[claim[t].slot].start = start[t]
    BY DEF ClaimedWindowStays
  <2>1. claim[t].slot \in Slots /\ byslot[claim[t].slot] = Key(t)
    BY DEF IInv, ClaimRegistered
  <2>2. req[t].owner \in 1 .. Len(sources)
    BY ReadsAFile DEF IInv, Claiming
  <2>3. Key(t) # NoKey
    BY <2>2 DEF Key, NoKey
  <2>4. PICK e \in held : e.slot = claim[t].slot /\ e.key = Key(t)
    BY <2>1, <2>3 DEF IInv, Bookkeeping
  <2> QED BY <2>1, <2>4 DEF IInv, EntriesTrue, Key, FileOf
<1> QED BY <1>1, CacheInvariant, PTL

(* Read returns bytes of its own file from where it was asked, and no      *)
(* others, whatever the threads that share the cache do.                   *)
THEOREM CacheBytesAreMine == Spec => []BytesAreMine
<1>1. IInv => BytesAreMine
  BY DEF IInv
<1> QED BY <1>1, CacheInvariant, PTL


(* A slot that is given another window was the victim: nothing was free,   *)
(* and no list below its own had a block that nobody claims.               *)
LEMMA VictimIsLowest ==
  ASSUME IInv, NEW s \in Slots, Claimable(res, s), byslot[s] # NoKey, NEW x \in Slots
  PROVE  /\ res.list[x] # Free
         /\ Retirable(res, x) => res.list[x] >= res.list[s]
<1>1. res.list[s] # Free
  BY DEF IInv, Bookkeeping
<1>2. \A y \in Slots : res.list[y] # Free
  BY <1>1 DEF Claimable
<1>3. IsVictim(res, s)
  BY <1>1 DEF Claimable
<1>4. res.list[x] \in Nat /\ res.list[s] \in Nat
  BY <1>2, PrioritiesAssumption DEF IInv, TypeOK, Residency
<1>5. CASE x = s
  BY <1>2, <1>4, <1>5
<1>6. CASE x # s
  <2>1. Retirable(res, x) => res.list[s] < res.list[x] \/ res.list[s] = res.list[x]
    BY <1>3, <1>6 DEF IsVictim
  <2> QED BY <1>2, <1>4, <2>1
<1> QED BY <1>5, <1>6

(* Reading data through the pool never costs a window of the index while a *)
(* data window could go: a block is displaced only when no slot is free    *)
(* and no list below its own has one to give up, in every step.            *)
THEOREM ScansSpareTheIndex == Spec => ScanSparesTheIndex
<1>1. ASSUME IInv, [Next]_vars
      PROVE  \A s \in Slots :
               (byslot[s] # NoKey /\ byslot'[s] \notin {NoKey, byslot[s]}) =>
                 \A x \in Slots :
                   /\ res.list[x] # Free
                   /\ Retirable(res, x) => res.list[x] >= res.list[s]
  <2>1. SUFFICES ASSUME NEW s \in Slots, byslot[s] # NoKey, byslot'[s] \notin {NoKey, byslot[s]}
                 PROVE  Claimable(res, s)
    BY <1>1, VictimIsLowest
  <2>2. byslot' # byslot
    BY <2>1
  <2>3. ASSUME NEW t \in Threads, NEW u \in Slots, HoldFill(t, u) PROVE Claimable(res, s)
    <3>1. Claimable(res, u) /\ byslot' = [byslot EXCEPT ![u] = Key(t)]
      BY <2>3 DEF HoldFill
    <3>2. s = u
      BY <1>1, <2>1, <3>1 DEF IInv, TypeOK
    <3> QED BY <3>1, <3>2
  <2>4. ASSUME NEW t \in Threads, NEW u \in Slots, Abandon(t, u) PROVE FALSE
    BY <1>1, <2>1, <2>4 DEF Abandon, IInv, TypeOK
  <2>5. ASSUME NEW E, Drop(E) PROVE FALSE
    BY <1>1, <2>1, <2>5 DEF Drop, IInv, TypeOK
  <2>6. ASSUME NEW t \in Threads, ReadStep(t) PROVE Claimable(res, s)
    <3>1. \E u \in Slots : HoldFill(t, u) \/ HoldNothing(t, u) \/ HoldFault(t, u)
      BY <2>2, <2>6 DEF ReadStep, HoldHit, HoldFull, Copy, Release, ReadDirect, DirectFault, cacheVars
    <3> QED BY <2>3, <2>4, <3>1 DEF HoldNothing, HoldFault
  <2>7. CASE \E t \in Threads : ReadStep(t)
    BY <2>6, <2>7
  <2>8. CASE \E o \in 1 .. Len(sources) : Invalidate(o) \/ Dispose(o)
    BY <2>5, <2>8 DEF Invalidate, Dispose
  <2>9. CASE InvalidateAll
    BY <2>5, <2>9 DEF InvalidateAll
  <2> QED BY <1>1, <2>2, <2>7, <2>8, <2>9
        DEF Next, BeginRead, Open, DisposeInner, WriteFile, vars, cacheVars
<1>2. IInv /\ [Next]_vars =>
        [\A s \in Slots :
           (byslot[s] # NoKey /\ byslot'[s] \notin {NoKey, byslot[s]}) =>
             \A x \in Slots :
               /\ res.list[x] # Free
               /\ Retirable(res, x) => res.list[x] >= res.list[s]]_vars
  BY <1>1
<1> QED BY <1>2, CacheInvariant, PTL DEF Spec, ScanSparesTheIndex

------------------------------------------------------------------------------
(***************************************************************************)
(* What a read through the shared pool returns.  A second invariant, over  *)
(* IInv, follows the versions of the bytes from the file into a slot, and  *)
(* from a slot into the read, and how far the loop has come.               *)
(***************************************************************************)

(* No source dropped its windows at a version its file has not had.        *)
FloorsHold ==
  \A o \in 1 .. Len(sources) : sources[o].floor <= disk[sources[o].file].version

(* What an entry's slot holds is no older than its source's last drop and  *)
(* no newer than the file; while the file is the same, it is all the file  *)
(* has there.                                                              *)
EntryFresh(e) ==
  /\ sources[e.key[1]].floor <= block[e.slot].version
  /\ block[e.slot].version <= disk[sources[e.key[1]].file].version
  /\ block[e.slot].version = disk[sources[e.key[1]].file].version =>
       e.valid = Given(sources[e.key[1]].file, e.key[2], WindowSize)

(* A thread reads its own source, which has not forgotten the drop the     *)
(* read began after.                                                       *)
UsesItsOwn(t) ==
  pc[t] # "idle" =>
    /\ sources[req[t].owner].user = t
    /\ req[t].floor <= sources[req[t].owner].floor

(* The same of a claimed slot as of an entry, with the drop the read began *)
(* after.                                                                  *)
ClaimFresh(t) ==
  pc[t] \in Claiming =>
    /\ req[t].floor <= block[claim[t].slot].version
    /\ block[claim[t].slot].version <= disk[FileOf(t)].version
    /\ block[claim[t].slot].version = disk[FileOf(t)].version =>
         claim[t].valid = Given(FileOf(t), start[t], WindowSize)

BytesFresh(t) ==
  \A i \in 1 .. Len(out[t]) :
    req[t].floor <= out[t][i].version /\ out[t][i].version <= disk[FileOf(t)].version

Aligned(t) == pc[t] \in {"hold", "copy", "advance"} => Align(start[t]) = start[t]

(* Nobody has written the file since the drop the read began after.        *)
Unwritten(t) == disk[FileOf(t)].version = req[t].floor

(* n bytes of a read of len are no more than were asked and are there.     *)
SoFar(n, off, len, size) == n <= len /\ (n = 0 \/ off + n <= size)

(* How much of the read has been copied, place by place in the loop.       *)
LengthTrue(t) ==
  pc[t] # "idle" /\ Unwritten(t) =>
    /\ pc[t] \in {"hold", "copy", "advance", "direct"} =>
         SoFar(Len(out[t]), req[t].off, req[t].len, disk[FileOf(t)].size)
    /\ pc[t] \in {"finish", "done"} =>
         Len(out[t]) = Given(FileOf(t), req[t].off, req[t].len)

ReaderTrue(t) ==
  UsesItsOwn(t) /\ ClaimFresh(t) /\ BytesFresh(t) /\ Aligned(t) /\ LengthTrue(t)

ReadsInv ==
  /\ FloorsHold
  /\ \A e \in held : EntryFresh(e)
  /\ \A t \in Threads : ReaderTrue(t)

-----------------------------------------------------------------------------
(* Arithmetic of the loop. *)

LEMMA WholeSteps ==
  ASSUME NEW a \in Nat, NEW b \in Nat, NEW w \in Nat, a < b
  PROVE  a * w + w <= b * w
<1>1. PICK d \in Nat : b = a + 1 + d
  <2>1. b - a - 1 \in Nat /\ b = a + 1 + (b - a - 1)
    OBVIOUS
  <2> QED BY <2>1
<1>2. b * w = a * w + w + d * w
  BY <1>1
<1>3. d * w \in Nat /\ a * w \in Nat
  OBVIOUS
<1> QED BY <1>2, <1>3

(* The window after an aligned one is aligned.                             *)
LEMMA NextWindow ==
  ASSUME NEW w \in Nat, Align(w) = w
  PROVE  Align(w + WindowSize) = w + WindowSize
<1> DEFINE k == w \div WindowSize
<1>1. k \in Nat /\ w = k * WindowSize /\ WindowSize \in Nat /\ WindowSize > 0
  BY CacheAssumption DEF Align
<1>2. (w + WindowSize) \div WindowSize = k + 1
  BY <1>1
<1>3. (k + 1) * WindowSize = k * WindowSize + WindowSize
  BY <1>1
<1> QED BY <1>1, <1>2, <1>3 DEF Align

(* Aligned positions align to themselves.                                  *)
LEMMA AlignedTwice ==
  ASSUME NEW x \in Nat
  PROVE  Align(Align(x)) = Align(x)
<1> DEFINE k == x \div WindowSize
<1>1. k \in Nat /\ Align(x) = k * WindowSize /\ WindowSize \in Nat /\ WindowSize > 0
  BY CacheAssumption DEF Align
<1> HIDE DEF k
<1>2. (k * WindowSize) \div WindowSize = k
  BY <1>1
<1> QED BY <1>1, <1>2 DEF Align

(* A window that is not before the last one reaches past the request.      *)
LEMMA LastReaches ==
  ASSUME NEW w \in Nat, NEW x \in Nat, Align(w) = w, w + WindowSize > Align(x)
  PROVE  x < w + WindowSize
<1> DEFINE k == w \div WindowSize
           j == x \div WindowSize
<1>1. /\ k \in Nat /\ w = k * WindowSize /\ WindowSize \in Nat /\ WindowSize > 0
      /\ j \in Nat /\ Align(x) = j * WindowSize
  BY CacheAssumption DEF Align
<1>2. x < Align(x) + WindowSize
  BY AlignBounds
<1> HIDE DEF k, j
<1>3. CASE k < j
  <2>1. k * WindowSize + WindowSize <= j * WindowSize
    BY <1>1, <1>3, WholeSteps
  <2> QED BY <1>1, <2>1
<1>4. CASE k = j
  BY <1>1, <1>2, <1>4
<1>5. CASE j < k
  <2>1. j * WindowSize + WindowSize <= k * WindowSize
    BY <1>1, <1>5, WholeSteps
  <2>2. Align(x) \in Nat
    BY AlignBounds
  <2> QED BY <1>1, <1>2, <2>1, <2>2
<1> QED BY <1>1, <1>3, <1>4, <1>5

(* What a file of a size gives of n bytes at off.                          *)
Share(size, off, n) == Larger(0, Smaller(n, size - off))

(* Where a loop that has n bytes of len from off on stands, with valid     *)
(* bytes in the window it has claimed at w, and last the last one it needs.*)
InTheLoop(off, len, size, w, n, valid, last) ==
  /\ off \in Nat /\ len \in Nat /\ size \in Nat /\ w \in Nat /\ n \in Nat
  /\ valid \in Nat /\ last \in Nat /\ WindowSize \in Nat
  /\ len > 0 /\ WindowSize > 0 /\ w + WindowSize > off /\ w < off + len
  /\ n = Larger(0, w - off) /\ SoFar(n, off, len, size)
  /\ valid = Share(size, w, WindowSize)
  /\ last < off + len /\ (w + WindowSize > last => off + len - 1 < w + WindowSize)

(* What the copy makes of it.                                              *)
OutOfTheCopy(off, len, size, w, n, valid, last) ==
  LET from == Larger(0, off - w)
      take == Smaller(valid - from, len - n)
  IN  /\ from >= valid => n = Share(size, off, len)
      /\ from < valid /\ (valid < WindowSize \/ w + WindowSize > last) =>
           n + take = Share(size, off, len)
      /\ from < valid /\ ~(valid < WindowSize \/ w + WindowSize > last) =>
           SoFar(n + take, off, len, size)

(* Copying from a window of an unwritten file: a short window, and the     *)
(* last, bring the read to all it was asked for that is there; a whole one *)
(* before the last brings it on.                                           *)
LEMMA CopyLength ==
  ASSUME NEW off, NEW len, NEW size, NEW w, NEW n, NEW valid, NEW last,
         InTheLoop(off, len, size, w, n, valid, last)
  PROVE  OutOfTheCopy(off, len, size, w, n, valid, last)
<1> DEFINE from == Larger(0, off - w)
           take == Smaller(valid - from, len - n)
<1>0. /\ off \in Nat /\ len \in Nat /\ size \in Nat /\ w \in Nat /\ n \in Nat
      /\ valid \in Nat /\ last \in Nat /\ WindowSize \in Nat
      /\ len > 0 /\ WindowSize > 0 /\ w + WindowSize > off /\ w < off + len
      /\ n = Larger(0, w - off) /\ SoFar(n, off, len, size)
      /\ valid = Share(size, w, WindowSize)
      /\ last < off + len /\ (w + WindowSize > last => off + len - 1 < w + WindowSize)
  BY DEF InTheLoop
<1>1. /\ w <= off => n = 0 /\ from = off - w
      /\ w > off => n = w - off /\ from = 0
  BY <1>0 DEF Larger
<1>2. /\ from \in Nat /\ w + from = off + n /\ n < len /\ from < WindowSize
  BY <1>0, <1>1
<1>3. n = 0 \/ off + n <= size
  BY <1>0 DEF SoFar
<1>4. /\ valid <= WindowSize
      /\ valid < WindowSize => (valid = 0 /\ size <= w) \/ valid = size - w
      /\ valid > 0 => w + valid <= size
  BY <1>0 DEF Share, Larger, Smaller
<1>5. /\ valid - from <= len - n => take = valid - from
      /\ valid - from > len - n => take = len - n
  BY <1>0, <1>2 DEF Smaller
<1>6. /\ size - off <= 0 => Share(size, off, len) = 0
      /\ size - off > 0 /\ size - off <= len => Share(size, off, len) = size - off
      /\ size - off > len => Share(size, off, len) = len
  BY <1>0 DEF Share, Larger, Smaller
<1> HIDE DEF from, take
<1>7. from >= valid => n = Share(size, off, len)
  BY <1>0, <1>1, <1>2, <1>3, <1>4, <1>6
<1>8. from < valid /\ valid < WindowSize => n + take = Share(size, off, len)
  BY <1>0, <1>2, <1>4, <1>5, <1>6
<1>9. from < valid /\ w + WindowSize > last => n + take = Share(size, off, len)
  BY <1>0, <1>2, <1>4, <1>5, <1>6
<1>10. ASSUME from < valid, ~(valid < WindowSize), ~(w + WindowSize > last)
       PROVE  SoFar(n + take, off, len, size)
  <2>1. valid = WindowSize /\ w + WindowSize < off + len
    BY <1>0, <1>4, <1>10
  <2>2. w + WindowSize <= size
    BY <1>0, <1>4, <2>1
  <2>3. WindowSize - from <= len - n
    BY <1>0, <1>2, <2>1
  <2>4. take = WindowSize - from
    BY <1>5, <2>1, <2>3
  <2>5. n + (WindowSize - from) <= len /\ off + (n + (WindowSize - from)) <= size
    BY <1>0, <1>2, <2>1, <2>2
  <2> QED BY <2>4, <2>5 DEF SoFar
<1> QED BY <1>7, <1>8, <1>9, <1>10 DEF from, take, OutOfTheCopy

(* The rest of an unwritten file, read directly.                           *)
LEMMA DirectLength ==
  ASSUME NEW off \in Nat, NEW len \in Nat, NEW size \in Nat, NEW n \in Nat,
         SoFar(n, off, len, size)
  PROVE  n + Share(size, off + n, len - n) = Share(size, off, len)
BY DEF Larger, Smaller, SoFar, Share

-----------------------------------------------------------------------------
(* What every step but a thread's own leaves of the invariant. *)

(* Files only get newer, sources only come, and their floors only rise.    *)
Forward ==
  /\ \A f \in Files :
       /\ disk[f].version <= disk'[f].version
       /\ disk'[f].version = disk[f].version => disk'[f] = disk[f]
  /\ Len(sources) <= Len(sources')
  /\ \A o \in 1 .. Len(sources) :
       /\ sources'[o].file = sources[o].file
       /\ sources'[o].user = sources[o].user
       /\ sources[o].floor <= sources'[o].floor

LEMMA ReaderTypes ==
  ASSUME IInv, NEW t \in Threads
  PROVE  /\ req[t].off \in Nat /\ req[t].len \in Nat /\ req[t].floor \in Nat
         /\ start[t] \in Nat /\ out[t] \in Seq(Bytes) /\ Len(out[t]) \in Nat
         /\ \A i \in 1 .. Len(out[t]) : out[t][i].version \in Nat
         /\ pc[t] # "idle" =>
              /\ req[t].owner \in 1 .. Len(sources)
              /\ sources[req[t].owner].file = FileOf(t) /\ FileOf(t) \in Files
              /\ sources[req[t].owner].floor \in Nat
              /\ sources[req[t].owner].user \in Threads
              /\ disk[FileOf(t)].version \in Nat /\ disk[FileOf(t)].size \in Nat
<1>1. req[t] \in Requests /\ out[t] \in Seq(Bytes) /\ start[t] \in Nat
  BY DEF IInv, TypeOK
<1>2. \A i \in 1 .. Len(out[t]) : out[t][i].version \in Nat
  <2>1. \A i \in 1 .. Len(out[t]) : out[t][i] \in Bytes
    BY <1>1, ElementOfSeq
  <2> QED BY <2>1 DEF Bytes
<1>3. ASSUME pc[t] # "idle"
      PROVE  /\ req[t].owner \in 1 .. Len(sources)
             /\ sources[req[t].owner].file = FileOf(t) /\ FileOf(t) \in Files
             /\ sources[req[t].owner].floor \in Nat
             /\ sources[req[t].owner].user \in Threads
             /\ disk[FileOf(t)].version \in Nat /\ disk[FileOf(t)].size \in Nat
  <2>1. req[t].owner \in 1 .. Len(sources) /\ FileOf(t) \in Files
    BY <1>3, ReadsAFile DEF IInv
  <2>2. sources[req[t].owner] \in Sources
    BY <2>1 DEF IInv, TypeOK
  <2> QED BY <2>1, <2>2 DEF IInv, TypeOK, FileOf, Sources
<1> QED BY <1>1, <1>2, <1>3 DEF Requests

LEMMA EntryTypes ==
  ASSUME IInv, NEW e \in held
  PROVE  /\ e.slot \in Slots /\ e.valid \in Nat /\ e.key[2] \in Nat
         /\ e.key[1] \in 1 .. Len(sources)
         /\ sources[e.key[1]].file \in Files /\ sources[e.key[1]].floor \in Nat
         /\ block[e.slot].version \in Nat
         /\ block[e.slot].file = sources[e.key[1]].file
         /\ block[e.slot].start = e.key[2]
         /\ disk[sources[e.key[1]].file].version \in Nat
         /\ disk[sources[e.key[1]].file].size \in Nat
<1>1. e \in Entries
  BY DEF IInv, TypeOK
<1>2. /\ e.key[1] \in 1 .. Len(sources) /\ block[e.slot].file = sources[e.key[1]].file
      /\ block[e.slot].start = e.key[2]
  BY DEF IInv, EntriesTrue
<1>3. sources[e.key[1]] \in Sources
  BY <1>2 DEF IInv, TypeOK
<1>4. e.slot \in Slots /\ e.valid \in Nat /\ e.key[2] \in Nat
  BY <1>1 DEF Entries, Keys
<1>5. block[e.slot] \in Contents
  BY <1>4 DEF IInv, TypeOK
<1> QED BY <1>2, <1>3, <1>4, <1>5 DEF IInv, TypeOK, Sources, Contents

LEMMA GivenKept ==
  ASSUME NEW f \in Files, disk'[f] = disk[f]
  PROVE  \A off, n : Given(f, off, n)' = Given(f, off, n)
BY DEF Given

LEMMA EntryKept ==
  ASSUME IInv, IInv', Forward, NEW e \in held, EntryFresh(e),
         block'[e.slot] = block[e.slot],
         sources'[e.key[1]].floor = sources[e.key[1]].floor
  PROVE  EntryFresh(e)'
<1> DEFINE o == e.key[1]
           f == sources[o].file
           v == block[e.slot].version
<1>1. /\ o \in 1 .. Len(sources) /\ f \in Files /\ v \in Nat
      /\ disk[f].version \in Nat /\ e.key[2] \in Nat
  BY EntryTypes
<1>2. /\ sources'[o].file = f /\ disk[f].version <= disk'[f].version
      /\ disk'[f].version = disk[f].version => disk'[f] = disk[f]
  BY <1>1 DEF Forward
<1>3. disk'[f].version \in Nat
  BY <1>1 DEF IInv, TypeOK
<1>4. /\ sources[o].floor <= v /\ v <= disk[f].version
      /\ v = disk[f].version => e.valid = Given(f, e.key[2], WindowSize)
  BY DEF EntryFresh
<1>5. v = disk'[f].version =>
        e.valid = Share(disk'[f].size, e.key[2], WindowSize)
  BY <1>1, <1>2, <1>3, <1>4 DEF Given, Share
<1>6. v <= disk'[f].version
  BY <1>1, <1>2, <1>3, <1>4
<1>7. f = sources'[o].file /\ v = block'[e.slot].version
  BY <1>2
<1>8. sources[o].floor <= v
  BY <1>4
<1> HIDE DEF f, v
<1> QED BY <1>5, <1>6, <1>7, <1>8 DEF EntryFresh, Given, Share

LEMMA ReaderKept ==
  ASSUME IInv, IInv', Forward, FloorsHold, NEW t \in Threads, ReaderTrue(t),
         pc'[t] = pc[t], req'[t] = req[t], out'[t] = out[t],
         start'[t] = start[t], claim'[t] = claim[t],
         pc[t] \in Claiming => block'[claim[t].slot] = block[claim[t].slot]
  PROVE  ReaderTrue(t)'
<1>1. CASE pc[t] = "idle"
  <2>1. out'[t] = <<>>
    BY <1>1 DEF IInv, ReadsASource
  <2> QED BY <1>1, <2>1
          DEF ReaderTrue, UsesItsOwn, ClaimFresh, BytesFresh, Aligned, LengthTrue, Claiming
<1>2. CASE pc[t] # "idle"
  <2> DEFINE o == req[t].owner
             f == FileOf(t)
             v == disk[f].version
             u == disk'[f].version
  <2>1. /\ o \in 1 .. Len(sources) /\ f \in Files /\ v \in Nat
        /\ req[t].floor \in Nat
        /\ \A i \in 1 .. Len(out[t]) : out[t][i].version \in Nat
        /\ sources[o].floor \in Nat
    BY <1>2, ReaderTypes
  <2>2. /\ FileOf(t)' = f /\ sources'[o].user = sources[o].user
        /\ sources[o].floor <= sources'[o].floor
        /\ v <= u /\ (u = v => disk'[f] = disk[f])
    BY <2>1 DEF Forward, FileOf
  <2>3. u \in Nat /\ sources'[o].floor \in Nat
    <3>1. sources'[o] \in Sources
      BY <2>1 DEF IInv, TypeOK, Forward
    <3> QED BY <2>1, <3>1 DEF IInv, TypeOK, Sources
  <2> HIDE DEF f
  <2>4. UsesItsOwn(t)'
    BY <1>2, <2>1, <2>2, <2>3 DEF ReaderTrue, UsesItsOwn
  <2>5. BytesFresh(t)'
    BY <2>1, <2>2, <2>3 DEF ReaderTrue, BytesFresh, f
  <2>6. Aligned(t)'
    BY DEF ReaderTrue, Aligned
  <2>7. ClaimFresh(t)'
    <3> SUFFICES ASSUME pc[t] \in Claiming PROVE ClaimFresh(t)'
      BY DEF ClaimFresh
    <3> DEFINE b == block[claim[t].slot].version
    <3>1. b \in Nat
      <4>1. claim[t].slot \in Slots
        BY DEF IInv, ClaimRegistered
      <4>2. block[claim[t].slot] \in Contents
        BY <4>1 DEF IInv, TypeOK
      <4> QED BY <4>2 DEF Contents
    <3>2. /\ req[t].floor <= b /\ b <= v
          /\ b = v => claim[t].valid = Given(f, start[t], WindowSize)
      BY DEF ReaderTrue, ClaimFresh, f
    <3>3. block'[claim'[t].slot].version = b
      OBVIOUS
    <3> HIDE DEF b
    <3>4. b <= u /\ (b = u => b = v /\ disk'[f] = disk[f])
      BY <2>1, <2>2, <2>3, <3>1, <3>2
    <3>5. b = u => claim[t].valid = Share(disk'[f].size, start[t], WindowSize)
      BY <3>2, <3>4 DEF Given, Share
    <3>6. f = FileOf(t)'
      BY <2>2
    <3>7. u = disk'[FileOf(t)'].version /\ disk'[f].size = disk'[FileOf(t)'].size
      BY <3>6
    <3> HIDE DEF u
    <3>8. claim'[t].valid = claim[t].valid /\ start'[t] = start[t] /\ req'[t] = req[t]
      OBVIOUS
    <3> QED BY <3>2, <3>3, <3>4, <3>5, <3>7, <3>8 DEF ClaimFresh, Given, Share
  <2>8. LengthTrue(t)'
    <3> SUFFICES ASSUME Unwritten(t)' PROVE LengthTrue(t)'
      BY DEF LengthTrue
    <3>1. u = req[t].floor
      BY <2>2 DEF Unwritten
    <3>2. req[t].floor <= sources[o].floor /\ sources[o].floor <= v
      BY <1>2, <2>1 DEF ReaderTrue, UsesItsOwn, FloorsHold, FileOf, f
    <3>3. u = v /\ disk'[f] = disk[f] /\ Unwritten(t)
      BY <2>1, <2>2, <2>3, <3>1, <3>2 DEF Unwritten, f
    <3> QED BY <1>2, <2>2, <3>3 DEF ReaderTrue, LengthTrue, Given, f
  <2> QED BY <2>4, <2>5, <2>6, <2>7, <2>8 DEF ReaderTrue
<1> QED BY <1>1, <1>2

-----------------------------------------------------------------------------
(* The steps of Read preserve ReadsInv. *)

LEMMA InitReadsInv == Init => ReadsInv
<1> SUFFICES ASSUME Init PROVE ReadsInv
  OBVIOUS
<1>1. FloorsHold /\ held = {}
  BY DEF Init, FloorsHold
<1>2. ASSUME NEW t \in Threads PROVE ReaderTrue(t)
  <2>1. pc[t] = "idle" /\ out[t] = <<>>
    BY DEF Init
  <2> QED BY <2>1 DEF ReaderTrue, UsesItsOwn, ClaimFresh, BytesFresh, Aligned,
                      LengthTrue, Claiming
<1> QED BY <1>1, <1>2 DEF ReadsInv

LEMMA ForwardStill ==
  ASSUME IInv, UNCHANGED <<disk, sources>>
  PROVE  Forward
<1>1. \A f \in Files : disk[f].version \in Nat
  BY DEF IInv, TypeOK
<1>2. \A o \in 1 .. Len(sources) : sources[o].floor \in Nat
  <2>1. \A o \in 1 .. Len(sources) : sources[o] \in Sources
    BY DEF IInv, TypeOK
  <2> QED BY <2>1 DEF Sources
<1>3. Len(sources) \in Nat
  BY DEF IInv, TypeOK
<1> QED BY <1>1, <1>2, <1>3 DEF Forward

(* A step of one thread that leaves the pool, the files and the sources.   *)
LEMMA OneReaderStep ==
  ASSUME IInv, IInv', ReadsInv, NEW t \in Threads,
         UNCHANGED <<held, block, disk, sources>>,
         \A u \in Threads \ {t} :
           /\ pc'[u] = pc[u] /\ req'[u] = req[u] /\ out'[u] = out[u]
           /\ start'[u] = start[u] /\ claim'[u] = claim[u],
         ReaderTrue(t)'
  PROVE  ReadsInv'
<1>1. Forward
  BY ForwardStill
<1>2. FloorsHold'
  BY DEF ReadsInv, FloorsHold
<1>3. ASSUME NEW e \in held' PROVE EntryFresh(e)'
  BY <1>1, <1>3, EntryKept DEF ReadsInv
<1>4. ASSUME NEW u \in Threads PROVE ReaderTrue(u)'
  BY <1>1, <1>4, ReaderKept DEF ReadsInv
<1> QED BY <1>2, <1>3, <1>4 DEF ReadsInv

LEMMA BeginReadReads ==
  ASSUME IInv, IInv', ReadsInv, NEW t \in Threads, NEW o \in 1 .. Len(sources),
         NEW r \in Reads, BeginRead(t, o, r[1], r[2])
  PROVE  ReadsInv'
<1>1. /\ r[1] \in Nat /\ r[2] \in Nat /\ sources[o] \in Sources
  BY CacheAssumption DEF IInv, TypeOK
<1>2. /\ pc'[t] \in {"direct", "hold"} /\ out'[t] = <<>>
      /\ req'[t].owner = o /\ req'[t].off = r[1] /\ req'[t].len = r[2]
      /\ req'[t].floor = sources[o].floor
      /\ start'[t] = Align(r[1]) /\ sources[o].user = t
      /\ UNCHANGED <<cacheVars, claim, disk, sources>>
      /\ \A u \in Threads \ {t} :
           /\ pc'[u] = pc[u] /\ req'[u] = req[u] /\ out'[u] = out[u]
           /\ start'[u] = start[u]
  BY DEF BeginRead, IInv, TypeOK
<1>3. UsesItsOwn(t)' /\ ClaimFresh(t)' /\ BytesFresh(t)'
  BY <1>1, <1>2 DEF UsesItsOwn, ClaimFresh, BytesFresh, Claiming, Sources
<1>4. Aligned(t)'
  BY <1>1, <1>2, AlignedTwice DEF Aligned, Align
<1>5. LengthTrue(t)'
  BY <1>1, <1>2 DEF LengthTrue, SoFar
<1>6. ReaderTrue(t)'
  BY <1>3, <1>4, <1>5 DEF ReaderTrue
<1> QED BY <1>2, <1>6, OneReaderStep DEF cacheVars

(* HoldFull and DirectFault.                                               *)
LEMMA MovedOnReads ==
  ASSUME IInv, IInv', ReadsInv, NEW t \in Threads,
         \/ pc[t] = "hold" /\ pc' = [pc EXCEPT ![t] = "direct"]
         \/ pc[t] = "direct" /\ pc' = [pc EXCEPT ![t] = "failed"],
         UNCHANGED <<cacheVars, req, start, claim, out, disk, sources, fence>>
  PROVE  ReadsInv'
<1>1. ReaderTrue(t)
  BY DEF ReadsInv
<1>2. pc[t] # "idle" /\ pc'[t] \in {"direct", "failed"} /\ (pc'[t] = "direct" => pc[t] = "hold")
  BY DEF IInv, TypeOK
<1>3. UsesItsOwn(t)' /\ ClaimFresh(t)' /\ Aligned(t)' /\ BytesFresh(t)'
  BY <1>1, <1>2 DEF ReaderTrue, UsesItsOwn, ClaimFresh, Aligned, BytesFresh, Claiming, FileOf
<1>4. LengthTrue(t)'
  BY <1>1, <1>2 DEF ReaderTrue, LengthTrue, Unwritten, FileOf
<1>5. ReaderTrue(t)'
  BY <1>3, <1>4 DEF ReaderTrue
<1>6. \A u \in Threads \ {t} : pc'[u] = pc[u]
  BY DEF IInv, TypeOK
<1> QED BY <1>5, <1>6, OneReaderStep DEF cacheVars

LEMMA HoldHitReads ==
  ASSUME IInv, IInv', ReadsInv, NEW t \in Threads, HoldHit(t)
  PROVE  ReadsInv'
<1>1. PICK e \in held :
        /\ e.key = Key(t)
        /\ claim' = [claim EXCEPT ![t] = [slot |-> e.slot, valid |-> e.valid]]
  BY DEF HoldHit
<1>2. /\ pc[t] = "hold" /\ pc' = [pc EXCEPT ![t] = "copy"]
      /\ UNCHANGED <<held, byslot, block, req, start, out, disk, sources, fence>>
  BY DEF HoldHit
<1>3. /\ pc'[t] = "copy" /\ claim'[t].slot = e.slot /\ claim'[t].valid = e.valid
      /\ \A u \in Threads \ {t} : pc'[u] = pc[u] /\ claim'[u] = claim[u]
  BY <1>1, <1>2 DEF IInv, TypeOK
<1>4. e.key[1] = req[t].owner /\ e.key[2] = start[t] /\ sources[e.key[1]].file = FileOf(t)
  BY <1>1 DEF Key, FileOf
<1>5. ReaderTrue(t) /\ EntryFresh(e)
  BY DEF ReadsInv
<1>6. ClaimFresh(t)'
  <2> DEFINE b == block[e.slot].version
  <2>1. /\ b \in Nat /\ sources[req[t].owner].floor \in Nat /\ req[t].floor \in Nat
    BY <1>2, <1>4, EntryTypes, ReaderTypes
  <2>2. /\ sources[req[t].owner].floor <= b /\ b <= disk[FileOf(t)].version
        /\ b = disk[FileOf(t)].version => e.valid = Given(FileOf(t), start[t], WindowSize)
    BY <1>4, <1>5 DEF EntryFresh
  <2>3. req[t].floor <= sources[req[t].owner].floor
    BY <1>2, <1>5 DEF ReaderTrue, UsesItsOwn
  <2>4. FileOf(t)' = FileOf(t)
    BY <1>2 DEF FileOf
  <2>5. block'[claim'[t].slot].version = b
    BY <1>2, <1>3
  <2> HIDE DEF b
  <2>6. req[t].floor <= b
    BY <2>1, <2>2, <2>3
  <2> QED BY <1>2, <1>3, <2>2, <2>4, <2>5, <2>6 DEF ClaimFresh, Given
<1>7. UsesItsOwn(t)' /\ BytesFresh(t)' /\ Aligned(t)' /\ LengthTrue(t)'
  BY <1>2, <1>3, <1>5
     DEF ReaderTrue, UsesItsOwn, BytesFresh, Aligned, LengthTrue, Unwritten, FileOf, Given
<1>8. ReaderTrue(t)'
  BY <1>6, <1>7 DEF ReaderTrue
<1> QED BY <1>2, <1>3, <1>8, OneReaderStep

(* A step of one thread that gives an unclaimed slot something else.       *)
LEMMA SlotReused ==
  ASSUME IInv, IInv', ReadsInv, NEW t \in Threads, NEW s \in Slots,
         Missed(t), Claimable(res, s), UNCHANGED <<disk, sources>>,
         \A x \in Slots \ {s} : block'[x] = block[x],
         \A e \in held' : (e \in held /\ e.slot # s) \/ EntryFresh(e)',
         \A u \in Threads \ {t} :
           /\ pc'[u] = pc[u] /\ req'[u] = req[u] /\ out'[u] = out[u]
           /\ start'[u] = start[u] /\ claim'[u] = claim[u],
         ReaderTrue(t)'
  PROVE  ReadsInv'
<1>1. Forward
  BY ForwardStill
<1>2. FloorsHold'
  BY DEF ReadsInv, FloorsHold
<1>3. ASSUME NEW e \in held' PROVE EntryFresh(e)'
  <2>1. CASE e \in held /\ e.slot # s
    <3>1. e.slot \in Slots
      BY <2>1, EntryTypes
    <3> QED BY <1>1, <2>1, <3>1, EntryKept DEF ReadsInv
  <2> QED BY <2>1
<1>4. \A u \in Threads : pc[u] \in Claiming => claim[u].slot # s
  BY ClaimableUnclaimed, UnpinnedUnclaimed DEF IInv
<1>5. ASSUME NEW u \in Threads PROVE ReaderTrue(u)'
  <2>1. CASE u # t
    <3>1. pc[u] \in Claiming => block'[claim[u].slot] = block[claim[u].slot]
      BY <1>4 DEF IInv, ClaimRegistered
    <3> QED BY <1>1, <2>1, <3>1, ReaderKept DEF ReadsInv
  <2> QED BY <2>1
<1> QED BY <1>2, <1>3, <1>5 DEF ReadsInv

LEMMA HoldFillReads ==
  ASSUME IInv, IInv', ReadsInv, NEW t \in Threads, NEW s \in Slots, HoldFill(t, s)
  PROVE  ReadsInv'
<1> DEFINE f == FileOf(t)
           read == Given(f, start[t], WindowSize)
           new == [key |-> Key(t), slot |-> s, valid |-> read]
<1>1. /\ pc[t] = "hold" /\ Missed(t) /\ Claimable(res, s)
      /\ held' = Evicted(s) \cup {new}
      /\ block' = [block EXCEPT ![s] = [file |-> f, start |-> start[t],
                                        version |-> disk[f].version]]
      /\ claim' = [claim EXCEPT ![t] = [slot |-> s, valid |-> read]]
      /\ pc' = [pc EXCEPT ![t] = "copy"]
      /\ UNCHANGED <<req, start, out, disk, sources, fence>>
  BY DEF HoldFill, Missed
<1>2. ReaderTrue(t) /\ FloorsHold
  BY DEF ReadsInv
<1>3. /\ f \in Files /\ req[t].owner \in 1 .. Len(sources)
      /\ sources[req[t].owner].file = f
      /\ disk[f].version \in Nat /\ req[t].floor \in Nat
      /\ sources[req[t].owner].floor \in Nat
  BY <1>1, ReaderTypes
<1>4. /\ req[t].floor <= sources[req[t].owner].floor
      /\ sources[req[t].owner].floor <= disk[f].version
      /\ req[t].floor <= disk[f].version
  BY <1>1, <1>2, <1>3 DEF ReaderTrue, UsesItsOwn, FloorsHold
<1>5. /\ pc'[t] = "copy" /\ claim'[t].slot = s /\ claim'[t].valid = read
      /\ block'[s].version = disk[f].version
      /\ \A x \in Slots \ {s} : block'[x] = block[x]
      /\ \A u \in Threads \ {t} : pc'[u] = pc[u] /\ claim'[u] = claim[u]
  BY <1>1 DEF IInv, TypeOK
<1>6. FileOf(t)' = f /\ Given(f, start[t], WindowSize)' = read /\ f' = f
  BY <1>1 DEF FileOf, Given
<1>7. ASSUME NEW e, e = new PROVE EntryFresh(e)'
  <2>1. /\ sources'[e.key[1]].file = f /\ e.key[2] = start[t] /\ e.slot = s
        /\ sources'[e.key[1]].floor = sources[req[t].owner].floor /\ e.valid = read
    BY <1>1, <1>3, <1>7 DEF Key
  <2>2. read = Share(disk'[f].size, start[t], WindowSize)
    BY <1>1 DEF Given, Share
  <2> HIDE DEF f, read, new
  <2>3. /\ sources'[e.key[1]].floor <= block'[e.slot].version
        /\ block'[e.slot].version <= disk'[sources'[e.key[1]].file].version
        /\ e.valid = Share(disk'[sources'[e.key[1]].file].size, e.key[2], WindowSize)
    BY <1>1, <1>3, <1>4, <1>5, <2>1, <2>2
  <2> QED BY <2>3 DEF EntryFresh, Given, Share
<1>8. ClaimFresh(t)'
  <2>1. read = Share(disk'[f].size, start[t], WindowSize)
    BY <1>1 DEF Given, Share
  <2>2. f = FileOf(t)'
    BY <1>6
  <2> HIDE DEF f, read
  <2>3. /\ req'[t].floor <= block'[claim'[t].slot].version
        /\ block'[claim'[t].slot].version <= disk'[f].version
        /\ claim'[t].valid = Share(disk'[f].size, start'[t], WindowSize)
    BY <1>1, <1>3, <1>4, <1>5, <2>1
  <2> QED BY <2>2, <2>3 DEF ClaimFresh, Given, Share
<1>9. UsesItsOwn(t)' /\ BytesFresh(t)' /\ Aligned(t)' /\ LengthTrue(t)'
  BY <1>1, <1>2, <1>5
     DEF ReaderTrue, UsesItsOwn, BytesFresh, Aligned, LengthTrue, Unwritten, FileOf, Given
<1>10. ReaderTrue(t)'
  BY <1>8, <1>9 DEF ReaderTrue
<1>11. \A e \in held' : (e \in held /\ e.slot # s) \/ EntryFresh(e)'
  <2>1. \A e \in held' : (e \in held /\ e.slot # s) \/ e = new
    BY <1>1, EvictedEntries
  <2> QED BY <1>7, <2>1
<1> QED BY <1>1, <1>5, <1>10, <1>11, SlotReused

(* HoldNothing and HoldFault.                                              *)
LEMMA AbandonReads ==
  ASSUME IInv, IInv', ReadsInv, NEW t \in Threads, NEW s \in Slots,
         NEW x \in {"direct", "failed"},
         Missed(t), Claimable(res, s), Abandon(t, s),
         pc' = [pc EXCEPT ![t] = x],
         block' = block \/ block' = [block EXCEPT ![s] = NoBytes],
         UNCHANGED <<req, start, claim, out, disk, sources, fence>>
  PROVE  ReadsInv'
<1>1. pc[t] = "hold" /\ pc'[t] = x /\ ReaderTrue(t)
  BY DEF Missed, IInv, TypeOK, ReadsInv
<1>2. \A e \in held' : e \in held /\ e.slot # s
  BY EvictedEntries DEF Abandon
<1>3. /\ \A y \in Slots \ {s} : block'[y] = block[y]
      /\ \A u \in Threads \ {t} : pc'[u] = pc[u]
  BY DEF IInv, TypeOK
<1>4. UsesItsOwn(t)' /\ ClaimFresh(t)' /\ Aligned(t)' /\ BytesFresh(t)'
  BY <1>1 DEF ReaderTrue, UsesItsOwn, ClaimFresh, Aligned, BytesFresh, Claiming, FileOf
<1>5. LengthTrue(t)'
  BY <1>1 DEF ReaderTrue, LengthTrue, Unwritten, FileOf
<1>6. ReaderTrue(t)'
  BY <1>4, <1>5 DEF ReaderTrue
<1> QED BY <1>2, <1>3, <1>6, SlotReused

(* Bytes between two versions.                                             *)
Within(bytes, lo, hi) ==
  \A i \in 1 .. Len(bytes) : lo <= bytes[i].version /\ bytes[i].version <= hi

LEMMA RunWithin ==
  ASSUME NEW f \in Files, NEW base \in Nat, NEW n \in Nat, NEW v \in Nat,
         NEW lo \in Nat, NEW hi \in Nat, lo <= v, v <= hi
  PROVE  /\ Run(f, base, n, v) \in Seq(Bytes) /\ Len(Run(f, base, n, v)) = n
         /\ Within(Run(f, base, n, v), lo, hi)
<1>1. Run(f, base, n, v) \in Seq(Bytes) /\ Len(Run(f, base, n, v)) = n
  BY RunOfBytes
<1>2. \A i \in 1 .. n : Run(f, base, n, v)[i].version = v
  BY DEF Run
<1> QED BY <1>1, <1>2 DEF Within

LEMMA BothWithin ==
  ASSUME NEW a \in Seq(Bytes), NEW b \in Seq(Bytes), NEW lo, NEW hi,
         Within(a, lo, hi), Within(b, lo, hi)
  PROVE  Len(a \o b) = Len(a) + Len(b) /\ Within(a \o b, lo, hi)
<1>1. Len(a \o b) = Len(a) + Len(b) /\ Len(a) \in Nat /\ Len(b) \in Nat
  BY ConcatProperties, LenProperties
<1>2. ASSUME NEW i \in 1 .. Len(a \o b)
      PROVE  lo <= (a \o b)[i].version /\ (a \o b)[i].version <= hi
  <2>1. CASE i <= Len(a)
    BY <1>1, <2>1, ConcatProperties DEF Within
  <2>2. CASE i > Len(a)
    <3>1. i - Len(a) \in 1 .. Len(b) /\ (a \o b)[i] = b[i - Len(a)]
      BY <1>1, <2>2, ConcatProperties
    <3> QED BY <3>1 DEF Within
  <2> QED BY <1>1, <2>1, <2>2
<1> QED BY <1>1, <1>2 DEF Within

(* n bytes of one version, added to bytes within two versions.             *)
LEMMA GrownFresh ==
  ASSUME NEW a \in Seq(Bytes), NEW f \in Files, NEW base \in Nat, NEW n \in Nat,
         NEW v \in Nat, NEW lo \in Nat, NEW hi \in Nat, lo <= v, v <= hi,
         Within(a, lo, hi)
  PROVE  /\ Len(a \o Run(f, base, n, v)) = Len(a) + n
         /\ Within(a \o Run(f, base, n, v), lo, hi)
<1> DEFINE r == Run(f, base, n, v)
<1>1. r \in Seq(Bytes) /\ Len(r) = n /\ Within(r, lo, hi)
  BY RunWithin
<1> HIDE DEF r
<1>2. Len(a \o r) = Len(a) + n /\ Within(a \o r, lo, hi)
  BY <1>1, BothWithin
<1> QED BY <1>2 DEF r

LEMMA ClaimTypes ==
  ASSUME IInv, NEW t \in Threads, pc[t] \in Claiming
  PROVE  /\ claim[t].slot \in Slots /\ claim[t].valid \in Nat
         /\ block[claim[t].slot].file = FileOf(t)
         /\ block[claim[t].slot].start = start[t]
         /\ block[claim[t].slot].version \in Nat
<1>1. claim[t].slot \in Slots /\ byslot[claim[t].slot] = Key(t)
  BY DEF IInv, ClaimRegistered
<1>2. req[t].owner \in 1 .. Len(sources)
  BY ReadsAFile DEF IInv, Claiming
<1>3. Key(t) # NoKey
  BY <1>2 DEF Key, NoKey
<1>4. PICK e \in held : e.slot = claim[t].slot /\ e.key = Key(t)
  BY <1>1, <1>3 DEF IInv, Bookkeeping
<1>5. block[claim[t].slot] \in Contents /\ claim[t] \in [slot : Slots \cup {NoSlot}, valid : Nat]
  BY <1>1 DEF IInv, TypeOK
<1> QED BY <1>1, <1>4, <1>5 DEF IInv, EntriesTrue, Key, FileOf, Contents

LEMMA CopyReads ==
  ASSUME IInv, IInv', ReadsInv, NEW t \in Threads, Copy(t)
  PROVE  ReadsInv'
<1> DEFINE f == FileOf(t)
           size == disk[f].size
           off == req[t].off
           len == req[t].len
           w == start[t]
           n == Len(out[t])
           c == claim[t]
           ver == block[c.slot].version
           from == Larger(0, off - w)
           take == Smaller(c.valid - from, len - n)
           last == Align(off + len - 1)
           got == Run(f, w + from, take, ver)
           short == c.valid < WindowSize \/ w + WindowSize > last
<1>1. /\ pc[t] = "copy"
      /\ UNCHANGED <<held, block, req, start, claim, disk, sources>>
  BY DEF Copy, cacheVars
<1>2. /\ block[c.slot].file = f /\ block[c.slot].start = w /\ ver \in Nat /\ c.valid \in Nat
      /\ off \in Nat /\ len \in Nat /\ w \in Nat /\ out[t] \in Seq(Bytes) /\ n \in Nat
      /\ f \in Files /\ size \in Nat /\ disk[f].version \in Nat /\ req[t].floor \in Nat
      /\ WindowSize \in Nat /\ WindowSize > 0
  BY <1>1, ClaimTypes, ReaderTypes, CacheAssumption DEF Claiming
<1>3. /\ len > 0 /\ w + WindowSize > off /\ n = Larger(0, w - off) /\ w < off + len
  BY <1>1 DEF IInv, LoopPosition
<1>4. /\ from >= c.valid => out'[t] = out[t] /\ pc'[t] = "finish"
      /\ from < c.valid => /\ out'[t] = out[t] \o got
                           /\ pc'[t] = IF short THEN "finish" ELSE "advance"
      /\ \A u \in Threads \ {t} : pc'[u] = pc[u] /\ out'[u] = out[u]
  <2>1. got = InSlot(c.slot, from, take)
    BY <1>2 DEF InSlot
  <2>2. from \in Nat
    BY <1>2 DEF Larger
  <2>3. from < c.valid <=> ~(from >= c.valid)
    BY <1>2, <2>2
  <2>4. /\ out' = IF from >= c.valid THEN out
                  ELSE [out EXCEPT ![t] = out[t] \o InSlot(c.slot, from, take)]
        /\ pc' = [pc EXCEPT ![t] = IF from >= c.valid \/ short THEN "finish" ELSE "advance"]
    BY DEF Copy, LastWindow, IInv, TypeOK
  <2>5. out \in [Threads -> Seq(Bytes)] /\ pc \in [Threads -> Resting \cup Claiming \cup {"hold", "direct"}]
    BY DEF IInv, TypeOK
  <2> HIDE DEF from, take, got, short, c
  <2> QED BY <2>1, <2>3, <2>4, <2>5
<1>5. last \in Nat /\ last < off + len /\ (w + WindowSize > last => off + len - 1 < w + WindowSize)
  <2>1. Align(w) = w
    BY <1>1 DEF ReadsInv, ReaderTrue, Aligned
  <2>2. off + len - 1 \in Nat
    BY <1>2, <1>3
  <2>3. last \in Nat /\ last <= off + len - 1
    BY <2>2, AlignBounds
  <2>4. w + WindowSize > last => off + len - 1 < w + WindowSize
    BY <1>2, <2>1, <2>2, LastReaches
  <2> QED BY <1>2, <2>3, <2>4
<1>6. ReaderTrue(t) /\ FloorsHold
  BY DEF ReadsInv
<1>7. from \in Nat /\ w + from \in Nat /\ (from < c.valid => take \in Nat)
  <2>1. from \in Nat /\ w + from = off + n /\ n < len
    <3>1. off \in Nat /\ len \in Nat /\ w \in Nat /\ n \in Nat
      BY <1>2
    <3>2. len > 0 /\ n = Larger(0, w - off) /\ w < off + len
      BY <1>3
    <3> HIDE DEF f, size, c, ver, take, last, got, short, off, len, w, n
    <3>3. /\ w <= off => n = 0 /\ from = off - w
          /\ w > off => n = w - off /\ from = 0
      BY <3>1, <3>2 DEF Larger
    <3> HIDE DEF from
    <3> QED BY <3>1, <3>2, <3>3
  <2> DEFINE m == len - n
             x == c.valid
  <2>2. m \in Nat /\ x \in Nat
    BY <1>2, <2>1
  <2> HIDE DEF from, m, x
  <2>3. from < x => Smaller(x - from, m) \in Nat
    BY <2>1, <2>2 DEF Smaller
  <2> QED BY <1>2, <2>1, <2>3 DEF m, x
<1>8. /\ req[t].floor <= ver /\ ver <= disk[f].version
      /\ ver = disk[f].version => c.valid = Share(size, w, WindowSize)
  BY <1>1, <1>6 DEF ReaderTrue, ClaimFresh, Claiming, Given, Share
<1>9. Within(out[t], req[t].floor, disk[f].version)
  BY <1>6 DEF ReaderTrue, BytesFresh, Within
<1>10. from < c.valid =>
         Len(out'[t]) = n + take /\ Within(out'[t], req[t].floor, disk[f].version)
  <2> SUFFICES ASSUME from < c.valid
               PROVE  Len(out'[t]) = n + take /\ Within(out'[t], req[t].floor, disk[f].version)
    OBVIOUS
  <2> DEFINE a == out[t]
             base == w + from
             lo == req[t].floor
             hi == disk[f].version
  <2>1. /\ a \in Seq(Bytes) /\ f \in Files /\ base \in Nat /\ take \in Nat /\ ver \in Nat
        /\ lo \in Nat /\ hi \in Nat /\ lo <= ver /\ ver <= hi
        /\ Within(a, lo, hi)
    BY <1>2, <1>7, <1>8, <1>9
  <2>2. out'[t] = a \o Run(f, base, take, ver) /\ n = Len(a)
    BY <1>4
  <2> HIDE DEF f, base, take, ver, lo, hi, a, n, from, c
  <2>3. /\ Len(a \o Run(f, base, take, ver)) = Len(a) + take
        /\ Within(a \o Run(f, base, take, ver), lo, hi)
    BY <2>1, GrownFresh
  <2> QED BY <2>2, <2>3 DEF lo, hi
<1>11. (from < c.valid \/ from >= c.valid) /\ FileOf(t)' = f
  BY <1>1, <1>2, <1>7 DEF FileOf
<1>12. pc'[t] \in {"finish", "advance"}
  BY <1>4, <1>11
<1>13. BytesFresh(t)'
  <2> HIDE DEF f, from, c, take
  <2> QED BY <1>1, <1>4, <1>9, <1>10, <1>11 DEF BytesFresh, Within
<1>14. UsesItsOwn(t)' /\ ClaimFresh(t)' /\ Aligned(t)'
  BY <1>1, <1>6, <1>12
     DEF ReaderTrue, UsesItsOwn, ClaimFresh, Aligned, Claiming, FileOf, Given
<1>15. LengthTrue(t)'
  <2> SUFFICES ASSUME disk[f].version = req[t].floor
               PROVE  /\ pc'[t] = "advance" => SoFar(Len(out'[t]), off, len, size)
                      /\ pc'[t] = "finish" => Len(out'[t]) = Share(size, off, len)
    BY <1>1, <1>11, <1>12 DEF LengthTrue, Unwritten, Given, Share
  <2>1. c.valid = Share(size, w, WindowSize)
    BY <1>2, <1>8
  <2>2. SoFar(n, off, len, size)
    BY <1>1, <1>6 DEF ReaderTrue, LengthTrue, Unwritten
  <2> DEFINE valid == c.valid
  <2>3. InTheLoop(off, len, size, w, n, valid, last)
    BY <1>2, <1>3, <1>5, <2>1, <2>2 DEF InTheLoop
  <2>4. /\ from >= valid => n = Share(size, off, len)
        /\ from < valid /\ short => n + take = Share(size, off, len)
        /\ from < valid /\ ~short => SoFar(n + take, off, len, size)
    <3>1. from = Larger(0, off - w) /\ take = Smaller(valid - from, len - n)
          /\ short = (valid < WindowSize \/ w + WindowSize > last)
      OBVIOUS
    <3> HIDE DEF off, len, size, w, n, valid, last, from, take, short
    <3>2. OutOfTheCopy(off, len, size, w, n, valid, last)
      BY <2>3, CopyLength
    <3> QED BY <3>1, <3>2 DEF OutOfTheCopy
  <2> HIDE DEF off, len, size, w, n, last, from, take, short, c, got
  <2> QED BY <1>4, <1>10, <1>11, <2>4 DEF valid, n
<1>16. ReaderTrue(t)'
  BY <1>13, <1>14, <1>15 DEF ReaderTrue
<1>17. \A u \in Threads \ {t} :
           /\ pc'[u] = pc[u] /\ req'[u] = req[u] /\ out'[u] = out[u]
           /\ start'[u] = start[u] /\ claim'[u] = claim[u]
  BY <1>1, <1>4
<1> QED BY <1>1, <1>16, <1>17, OneReaderStep

LEMMA ReleaseReads ==
  ASSUME IInv, IInv', ReadsInv, NEW t \in Threads, Release(t)
  PROVE  ReadsInv'
<1>1. /\ pc[t] \in {"advance", "finish"}
      /\ UNCHANGED <<held, block, req, out, disk, sources>>
  BY DEF Release
<1>2. /\ pc[t] = "advance" => pc'[t] = "hold" /\ start'[t] = start[t] + WindowSize
      /\ pc[t] = "finish" => pc'[t] = "done"
      /\ \A u \in Threads \ {t} :
           pc'[u] = pc[u] /\ start'[u] = start[u] /\ claim'[u] = claim[u]
  BY DEF Release, IInv, TypeOK
<1>3. ReaderTrue(t)
  BY DEF ReadsInv
<1>4. Aligned(t)'
  <2>1. start[t] \in Nat
    BY ReaderTypes
  <2>2. pc[t] = "advance" => Align(start[t]) = start[t]
    BY <1>3 DEF ReaderTrue, Aligned
  <2> QED BY <1>1, <1>2, <2>1, <2>2, NextWindow DEF Aligned, Align
<1>5. UsesItsOwn(t)' /\ ClaimFresh(t)' /\ BytesFresh(t)' /\ LengthTrue(t)'
  BY <1>1, <1>2, <1>3
     DEF ReaderTrue, UsesItsOwn, ClaimFresh, BytesFresh, LengthTrue, Unwritten, Claiming,
         FileOf, Given
<1>6. ReaderTrue(t)'
  BY <1>4, <1>5 DEF ReaderTrue
<1>7. \A u \in Threads \ {t} :
           /\ pc'[u] = pc[u] /\ req'[u] = req[u] /\ out'[u] = out[u]
           /\ start'[u] = start[u] /\ claim'[u] = claim[u]
  BY <1>1, <1>2
<1> QED BY <1>1, <1>6, <1>7, OneReaderStep

LEMMA ReadDirectReads ==
  ASSUME IInv, IInv', ReadsInv, NEW t \in Threads, ReadDirect(t)
  PROVE  ReadsInv'
<1> DEFINE f == FileOf(t)
           size == disk[f].size
           off == req[t].off
           len == req[t].len
           n == Len(out[t])
           v == disk[f].version
           m == Given(f, off + n, len - n)
<1>1. /\ pc[t] = "direct" /\ pc'[t] = "done"
      /\ out'[t] = out[t] \o Run(f, off + n, m, v)
      /\ UNCHANGED <<held, block, req, start, claim, disk, sources>>
      /\ \A u \in Threads \ {t} : pc'[u] = pc[u] /\ out'[u] = out[u]
  BY DEF ReadDirect, OnDisk, IInv, TypeOK, cacheVars
<1>2. /\ off \in Nat /\ len \in Nat /\ n \in Nat /\ out[t] \in Seq(Bytes)
      /\ f \in Files /\ size \in Nat /\ v \in Nat /\ req[t].floor \in Nat
      /\ req[t].owner \in 1 .. Len(sources) /\ sources[req[t].owner].file = f
      /\ sources[req[t].owner].floor \in Nat
  BY <1>1, ReaderTypes
<1>3. m \in Nat /\ off + n \in Nat
  <2>1. off + n \in Nat /\ len - n \in Int
    BY <1>2
  <2> HIDE DEF f, off, len, n
  <2> QED BY <1>2, <2>1, GivenIsNat DEF IInv
<1>4. ReaderTrue(t) /\ FloorsHold
  BY DEF ReadsInv
<1>5. req[t].floor <= v
  BY <1>1, <1>2, <1>4 DEF ReaderTrue, UsesItsOwn, FloorsHold
<1>6. Within(out[t], req[t].floor, v)
  BY <1>4 DEF ReaderTrue, BytesFresh, Within
<1>7. Len(out'[t]) = n + m /\ Within(out'[t], req[t].floor, v)
  <2> DEFINE a == out[t]
             base == off + n
             lo == req[t].floor
  <2>1. /\ a \in Seq(Bytes) /\ f \in Files /\ base \in Nat /\ m \in Nat /\ v \in Nat
        /\ lo \in Nat /\ lo <= v /\ v <= v /\ Within(a, lo, v)
    BY <1>2, <1>3, <1>5, <1>6
  <2>2. out'[t] = a \o Run(f, base, m, v) /\ n = Len(a)
    BY <1>1
  <2> HIDE DEF f, base, m, v, lo, a, n
  <2>3. /\ Len(a \o Run(f, base, m, v)) = Len(a) + m
        /\ Within(a \o Run(f, base, m, v), lo, v)
    BY <2>1, GrownFresh
  <2> QED BY <2>2, <2>3 DEF lo
<1>8. FileOf(t)' = f
  BY <1>1 DEF FileOf
<1>9. UsesItsOwn(t)' /\ ClaimFresh(t)' /\ Aligned(t)'
  BY <1>1, <1>4 DEF ReaderTrue, UsesItsOwn, ClaimFresh, Aligned, Claiming
<1>10. BytesFresh(t)'
  <2> HIDE DEF f
  <2> QED BY <1>1, <1>7, <1>8 DEF BytesFresh, Within
<1>11. LengthTrue(t)'
  <2> SUFFICES ASSUME v = req[t].floor
               PROVE  Len(out'[t]) = Share(size, off, len)
    BY <1>1, <1>8 DEF LengthTrue, Unwritten, Given, Share
  <2>1. SoFar(n, off, len, size)
    BY <1>1, <1>4 DEF ReaderTrue, LengthTrue, Unwritten
  <2>2. m = Share(size, off + n, len - n)
    BY DEF Given, Share
  <2> HIDE DEF f, size, off, len, n, m, v
  <2>3. n + Share(size, off + n, len - n) = Share(size, off, len)
    BY <1>2, <2>1, DirectLength
  <2> QED BY <1>7, <2>2, <2>3
<1>12. ReaderTrue(t)'
  BY <1>9, <1>10, <1>11 DEF ReaderTrue
<1>13. \A u \in Threads \ {t} :
           /\ pc'[u] = pc[u] /\ req'[u] = req[u] /\ out'[u] = out[u]
           /\ start'[u] = start[u] /\ claim'[u] = claim[u]
  BY <1>1
<1> QED BY <1>1, <1>12, <1>13, OneReaderStep

-----------------------------------------------------------------------------
(* The other steps preserve ReadsInv. *)

(* A step that leaves every reader and every slot's bytes, raises floors   *)
(* to versions there are, and drops the entries of what it raises.         *)
LEMMA OthersReads ==
  ASSUME IInv, IInv', ReadsInv, Forward, FloorsHold',
         UNCHANGED <<readerVars, block>>, held' \subseteq held,
         \A e \in held' : sources'[e.key[1]].floor = sources[e.key[1]].floor
  PROVE  ReadsInv'
<1>1. ASSUME NEW e \in held' PROVE EntryFresh(e)'
  BY <1>1, EntryKept DEF ReadsInv
<1>2. ASSUME NEW t \in Threads PROVE ReaderTrue(t)'
  BY <1>2, ReaderKept DEF ReadsInv, readerVars
<1> QED BY <1>1, <1>2 DEF ReadsInv

LEMMA SourceTypes ==
  ASSUME IInv
  PROVE  /\ Len(sources) \in Nat /\ sources \in Seq(Sources)
         /\ \A o \in 1 .. Len(sources) :
              /\ sources[o] \in Sources /\ sources[o].floor \in Nat
              /\ sources[o].file \in Files /\ sources[o].user \in Threads
              /\ disk[sources[o].file].version \in Nat
<1>1. Len(sources) \in Nat /\ sources \in Seq(Sources)
  BY DEF IInv, TypeOK
<1>2. \A o \in 1 .. Len(sources) : sources[o] \in Sources
  BY <1>1
<1> QED BY <1>1, <1>2 DEF Sources, IInv, TypeOK

LEMMA OpenReads ==
  ASSUME IInv, IInv', ReadsInv, NEW t \in Threads, NEW f \in Files, Open(t, f)
  PROVE  ReadsInv'
<1> DEFINE new == [file |-> f, user |-> t, state |-> "open", floor |-> disk[f].version]
<1>1. sources' = Append(sources, new) /\ UNCHANGED <<cacheVars, readerVars, disk, fence>>
  BY DEF Open
<1>2. new \in Sources /\ new.file = f /\ new.floor = disk[f].version
      /\ disk[f].version \in Nat /\ disk[f].version <= disk[f].version
  BY DEF IInv, TypeOK, Sources
<1> HIDE DEF new
<1>3. /\ Len(sources') = Len(sources) + 1 /\ sources'[Len(sources) + 1] = new
      /\ \A o \in 1 .. Len(sources) : sources'[o] = sources[o]
      /\ Len(sources) \in Nat
  BY <1>1, <1>2, AppendProperties DEF IInv, TypeOK
<1>4. Forward
  <2>1. \A g \in Files : disk[g].version \in Nat /\ disk'[g] = disk[g]
    BY <1>1 DEF IInv, TypeOK
  <2>2. \A o \in 1 .. Len(sources) : sources[o].floor \in Nat /\ sources'[o] = sources[o]
    BY <1>3, SourceTypes
  <2>3. Len(sources) <= Len(sources')
    BY <1>3
  <2> QED BY <2>1, <2>2, <2>3 DEF Forward
<1>5. FloorsHold'
  <2> SUFFICES ASSUME NEW o \in 1 .. Len(sources')
               PROVE  sources'[o].floor <= disk[sources'[o].file].version
    BY <1>1 DEF FloorsHold
  <2>1. CASE o \in 1 .. Len(sources)
    BY <1>3, <2>1 DEF ReadsInv, FloorsHold
  <2>2. CASE o = Len(sources) + 1
    BY <1>2, <1>3, <2>2
  <2> QED BY <1>3, <2>1, <2>2
<1>6. \A e \in held' : sources'[e.key[1]].floor = sources[e.key[1]].floor
  BY <1>1, <1>3, EntryTypes DEF cacheVars
<1> QED BY <1>1, <1>4, <1>5, <1>6, OthersReads DEF cacheVars

LEMMA WriteFileReads ==
  ASSUME IInv, IInv', ReadsInv, NEW f \in Files, NEW size \in Sizes, WriteFile(f, size)
  PROVE  ReadsInv'
<1>1. /\ disk' = [disk EXCEPT ![f] = [version |-> disk[f].version + 1, size |-> size]]
      /\ UNCHANGED <<cacheVars, readerVars, sources, fence>>
  BY DEF WriteFile, IInv, TypeOK
<1>2. \A g \in Files : disk[g].version \in Nat
  BY DEF IInv, TypeOK
<1>3. \A g \in Files : IF g = f THEN disk'[g].version = disk[g].version + 1
                                ELSE disk'[g] = disk[g]
  BY <1>1 DEF IInv, TypeOK
<1>4. Forward
  BY <1>1, <1>2, <1>3, SourceTypes DEF Forward
<1>5. FloorsHold'
  <2> SUFFICES ASSUME NEW o \in 1 .. Len(sources)
               PROVE  sources[o].floor <= disk'[sources[o].file].version
    BY <1>1 DEF FloorsHold
  <2>1. sources[o].floor <= disk[sources[o].file].version
    BY DEF ReadsInv, FloorsHold
  <2>2. /\ sources[o].file \in Files /\ sources[o].floor \in Nat
    BY SourceTypes
  <2> QED BY <1>2, <1>3, <2>1, <2>2
<1> QED BY <1>1, <1>4, <1>5, OthersReads DEF cacheVars

(* A source that changes state keeps its place, its file and its user.     *)
LEMMA SourceReads ==
  ASSUME IInv, ReadsInv, NEW o \in 1 .. Len(sources), NEW src \in Sources,
         src.file = sources[o].file, src.user = sources[o].user,
         sources[o].floor <= src.floor, src.floor <= disk[src.file].version,
         sources' = [sources EXCEPT ![o] = src], disk' = disk
  PROVE  /\ Forward /\ FloorsHold'
         /\ \A x \in 1 .. Len(sources) : x # o => sources'[x] = sources[x]
         /\ sources'[o] = src
<1>1. /\ Len(sources') = Len(sources)
      /\ \A x \in 1 .. Len(sources) : sources'[x] = IF x = o THEN src ELSE sources[x]
  BY SourceTypes
<1>2. Forward
  <2>1. \A g \in Files : disk[g].version \in Nat
    BY DEF IInv, TypeOK
  <2>2. \A x \in 1 .. Len(sources) : sources[x].floor \in Nat
    BY SourceTypes
  <2>3. Len(sources) \in Nat
    BY SourceTypes
  <2> QED BY <1>1, <2>1, <2>2, <2>3 DEF Forward
<1>3. FloorsHold'
  BY <1>1 DEF ReadsInv, FloorsHold
<1> QED BY <1>1, <1>2, <1>3

(* The user of a source between its reads has claimed none of its windows. *)
LEMMA OwnUnclaimed ==
  ASSUME IInv, ReadsInv, NEW o \in 1 .. Len(sources), pc[sources[o].user] \in Resting,
         NEW e \in held, e.key[1] = o
  PROVE  res.pins[e.slot] = 0
<1>1. e.slot \in Slots /\ byslot[e.slot] = e.key
  BY EntryTypes DEF IInv, Bookkeeping
<1>2. ASSUME NEW t \in Threads, pc[t] \in Claiming, claim[t].slot = e.slot
      PROVE  FALSE
  <2>1. Key(t) = e.key
    BY <1>1, <1>2 DEF IInv, ClaimRegistered
  <2>2. req[t].owner = o
    BY <2>1 DEF Key
  <2>3. sources[o].user = t
    BY <1>2, <2>2 DEF ReadsInv, ReaderTrue, UsesItsOwn, Claiming
  <2> QED BY <1>2, <2>3 DEF Claiming, Resting
<1>3. Claimants(e.slot) = {}
  BY <1>2 DEF Claimants
<1> QED BY <1>1, <1>3, FS_EmptySet DEF IInv, ClaimsBalance

LEMMA InvalidateReads ==
  ASSUME IInv, IInv', ReadsInv, NEW o \in 1 .. Len(sources), Invalidate(o)
  PROVE  ReadsInv'
<1> DEFINE src == [sources[o] EXCEPT !.floor = disk[sources[o].file].version]
<1>1. /\ pc[sources[o].user] \in Resting /\ Drop(OfOwner(o))
      /\ sources' = [sources EXCEPT ![o] = src] /\ UNCHANGED <<readerVars, disk, block>>
  BY DEF Invalidate, Drop, IInv, TypeOK
<1>2. /\ src \in Sources /\ src.file = sources[o].file /\ src.user = sources[o].user
      /\ src.floor = disk[sources[o].file].version
      /\ sources[o].floor <= src.floor /\ src.floor <= disk[src.file].version
  BY SourceTypes DEF Sources, ReadsInv, FloorsHold
<1> HIDE DEF src
<1>3. /\ Forward /\ FloorsHold'
      /\ \A x \in 1 .. Len(sources) : x # o => sources'[x] = sources[x]
  BY <1>1, <1>2, SourceReads DEF readerVars
<1>4. \A e \in held : e.key[1] = o => res.pins[e.slot] = 0
  BY <1>1, OwnUnclaimed
<1>5. held' \subseteq held /\ \A e \in held' : e.key[1] # o
  BY <1>1, <1>4 DEF Drop, OfOwner
<1>6. \A e \in held' : sources'[e.key[1]].floor = sources[e.key[1]].floor
  BY <1>3, <1>5, EntryTypes
<1> QED BY <1>1, <1>3, <1>5, <1>6, OthersReads

(* Dispose and the closing of the file after it.                           *)
LEMMA DisposeReads ==
  ASSUME IInv, IInv', ReadsInv, NEW o \in 1 .. Len(sources), Dispose(o) \/ DisposeInner(o)
  PROVE  ReadsInv'
<1>1. UNCHANGED <<readerVars, disk, block>> /\ held' \subseteq held
  BY DEF Dispose, DisposeInner, Drop, cacheVars
<1>2. PICK src \in Sources :
        /\ src.file = sources[o].file /\ src.user = sources[o].user
        /\ src.floor = sources[o].floor
        /\ sources' = [sources EXCEPT ![o] = src]
  <2>1. CASE Dispose(o)
    <3> DEFINE src == [sources[o] EXCEPT !.state = "disposed"]
    <3>1. /\ src \in Sources /\ src.file = sources[o].file /\ src.user = sources[o].user
          /\ src.floor = sources[o].floor
      BY SourceTypes DEF Sources
    <3>2. sources' = [sources EXCEPT ![o] = src]
      BY <2>1 DEF Dispose, IInv, TypeOK
    <3> QED BY <3>1, <3>2
  <2>2. CASE DisposeInner(o)
    <3> DEFINE src == [sources[o] EXCEPT !.state = "closed"]
    <3>1. /\ src \in Sources /\ src.file = sources[o].file /\ src.user = sources[o].user
          /\ src.floor = sources[o].floor
      BY SourceTypes DEF Sources
    <3>2. sources' = [sources EXCEPT ![o] = src]
      BY <2>2 DEF DisposeInner, IInv, TypeOK
    <3> QED BY <3>1, <3>2
  <2> QED BY <2>1, <2>2
<1>3. sources[o].floor <= src.floor /\ src.floor <= disk[src.file].version
  BY <1>2, SourceTypes DEF ReadsInv, FloorsHold
<1>4. /\ Forward /\ FloorsHold' /\ sources'[o] = src
      /\ \A x \in 1 .. Len(sources) : x # o => sources'[x] = sources[x]
  BY <1>1, <1>2, <1>3, SourceReads
<1>5. \A e \in held' : sources'[e.key[1]].floor = sources[e.key[1]].floor
  BY <1>1, <1>2, <1>4, EntryTypes
<1> QED BY <1>1, <1>4, <1>5, OthersReads

LEMMA StillReads ==
  ASSUME IInv, IInv', ReadsInv, InvalidateAll \/ UNCHANGED vars
  PROVE  ReadsInv'
<1>1. UNCHANGED <<readerVars, block, disk, sources>> /\ held' \subseteq held
  BY DEF InvalidateAll, Drop, vars, cacheVars
<1>2. Forward /\ FloorsHold'
  BY <1>1, ForwardStill DEF ReadsInv, FloorsHold
<1> QED BY <1>1, <1>2, OthersReads

LEMMA StepReadsInv == IInv /\ IInv' /\ ReadsInv /\ [Next]_vars => ReadsInv'
<1> SUFFICES ASSUME IInv, IInv', ReadsInv, [Next]_vars PROVE ReadsInv'
  OBVIOUS
<1>1. ASSUME NEW t \in Threads, ReadStep(t) PROVE ReadsInv'
  <2>1. ASSUME HoldHit(t) PROVE ReadsInv'
    BY <2>1, HoldHitReads
  <2>2. ASSUME HoldFull(t) PROVE ReadsInv'
    BY <2>2, MovedOnReads DEF HoldFull, Missed
  <2>3. ASSUME Copy(t) PROVE ReadsInv'
    BY <2>3, CopyReads
  <2>4. ASSUME Release(t) PROVE ReadsInv'
    BY <2>4, ReleaseReads
  <2>5. ASSUME ReadDirect(t) PROVE ReadsInv'
    BY <2>5, ReadDirectReads
  <2>6. ASSUME DirectFault(t) PROVE ReadsInv'
    BY <2>6, MovedOnReads DEF DirectFault
  <2>7. ASSUME NEW s \in Slots, HoldFill(t, s) PROVE ReadsInv'
    BY <2>7, HoldFillReads
  <2>8. ASSUME NEW s \in Slots, HoldNothing(t, s) PROVE ReadsInv'
    BY <2>8, AbandonReads DEF HoldNothing
  <2>9. ASSUME NEW s \in Slots, HoldFault(t, s) PROVE ReadsInv'
    BY <2>9, AbandonReads DEF HoldFault
  <2> QED BY <1>1, <2>1, <2>2, <2>3, <2>4, <2>5, <2>6, <2>7, <2>8, <2>9 DEF ReadStep
<1>2. ASSUME NEW t \in Threads, NEW o \in 1 .. Len(sources), NEW r \in Reads,
             BeginRead(t, o, r[1], r[2])
      PROVE  ReadsInv'
  BY <1>2, BeginReadReads
<1>3. ASSUME NEW t \in Threads, NEW f \in Files, Open(t, f) PROVE ReadsInv'
  BY <1>3, OpenReads
<1>4. ASSUME NEW o \in 1 .. Len(sources), Invalidate(o) \/ Dispose(o) \/ DisposeInner(o)
      PROVE  ReadsInv'
  BY <1>4, InvalidateReads, DisposeReads
<1>5. ASSUME NEW f \in Files, NEW size \in Sizes, WriteFile(f, size) PROVE ReadsInv'
  BY <1>5, WriteFileReads
<1>6. ASSUME InvalidateAll \/ UNCHANGED vars PROVE ReadsInv'
  BY <1>6, StillReads
<1> QED BY <1>1, <1>2, <1>3, <1>4, <1>5, <1>6 DEF Next

-----------------------------------------------------------------------------
(* The theorems. *)

(* ReadsInv holds in every state the cache and its readers can reach.      *)
THEOREM ReadsInvariant == Spec => []ReadsInv
<1>1. Init => ReadsInv
  BY InitReadsInv
<1>2. IInv /\ IInv' /\ ReadsInv /\ [Next]_vars => ReadsInv'
  BY StepReadsInv
<1> QED BY <1>1, <1>2, CacheInvariant, PTL DEF Spec

(* A read that began after its table dropped its own blocks (Invalidate)   *)
(* returns nothing older than the drop, whichever slots it is served from. *)
THEOREM FreshReads == Spec => []FreshAfterOwnDrop
<1>1. ReadsInv => FreshAfterOwnDrop
  BY DEF ReadsInv, ReaderTrue, BytesFresh, FreshAfterOwnDrop
<1> QED BY <1>1, ReadsInvariant, PTL

(* A read of a file nobody has written since returns exactly the file's    *)
(* bytes from where it was asked, as many as there are, whether they came  *)
(* from one window, from several, from the file itself or from both.       *)
THEOREM ReadsAreSlices == Spec => []ReadIsSlice
<1>1. IInv /\ ReadsInv => ReadIsSlice
  <2> SUFFICES ASSUME IInv, ReadsInv, NEW t \in Threads,
                      pc[t] = "done", disk[FileOf(t)].version = req[t].floor
               PROVE  out[t] = OnDisk(FileOf(t), req[t].off,
                                      Given(FileOf(t), req[t].off, req[t].len))
    BY DEF ReadIsSlice
  <2> DEFINE f == FileOf(t)
             off == req[t].off
             n == Given(f, off, req[t].len)
             v == disk[f].version
  <2>1. Len(out[t]) = n /\ \A i \in 1 .. Len(out[t]) : v <= out[t][i].version /\ out[t][i].version <= v
    BY DEF ReadsInv, ReaderTrue, LengthTrue, Unwritten, BytesFresh
  <2>2. IsFrom(out[t], f, off)
    BY DEF IInv, BytesAreMine
  <2>3. out[t] \in Seq(Bytes) /\ v \in Nat /\ \A i \in 1 .. Len(out[t]) : out[t][i].version \in Nat
    BY ReaderTypes
  <2> HIDE DEF f, off, n, v
  <2>4. ASSUME NEW i \in 1 .. n
        PROVE  out[t][i] = [file |-> f, pos |-> off + i - 1, version |-> v]
    <3>1. out[t][i] \in Bytes
      BY <2>1, <2>3, ElementOfSeq
    <3>2. out[t][i].file = f /\ out[t][i].pos = off + i - 1 /\ out[t][i].version = v
      BY <2>1, <2>2, <2>3 DEF IsFrom
    <3> QED BY <3>1, <3>2 DEF Bytes
  <2>5. out[t] = [i \in 1 .. n |-> out[t][i]]
    BY <2>1, <2>3
  <2>6. out[t] = Run(f, off, n, v)
    BY <2>4, <2>5 DEF Run
  <2> QED BY <2>6 DEF OnDisk, f, off, n, v
<1> QED BY <1>1, CacheInvariant, ReadsInvariant, PTL
=============================================================================
