--------------------------- MODULE DataLocksProofs ---------------------------
(***************************************************************************)
(* The locks of the C engine for any number of processes, DATA4s and       *)
(* records: what is written down is what LockFile granted, and no two      *)
(* users have the same right (LocksMatch, LocksExclude); then what the     *)
(* calls promise to each other: a group is all or nothing                  *)
(* (GroupsAllOrNothing), and nobody waits in a circle (NobodyWaits).       *)
(***************************************************************************)
EXTENDS DataLocks, FiniteSetTheorems, SequenceTheorems, WellFoundedInduction,
        TLAPS

AllBytes == {"dbf", "fpt", "cdx"} \X Nat

(* What one LockFile call is for. *)
Part == [kind : {"append", "file", "memo", "index"}, data : Data, rec : {0}]
        \cup [kind : {"record"}, data : Data, rec : Recs]

(* The bytes the fields of h stand for, and the records locked. *)
Owned(h) == UNION {
  UNION {{LT!RecByte(r) : r \in h.recs[d]} : d \in Data},
  IF h.append # None THEN {LT!AppendByte} ELSE {},
  IF h.file # None THEN LT!FileBytes ELSE {},
  IF h.memo THEN {LT!MemoByte} ELSE {},
  IF h.index # None THEN {LT!IndexByte} ELSE {}}
Locked(h) == {x \in Data \X Recs : x[2] \in h.recs[x[1]]}

(* No record is locked twice in a process, and over a file lock nothing    *)
(* else of the table is.                                                   *)
Single(h) ==
  /\ \A d, e \in Data : d # e => h.recs[d] \cap h.recs[e] = {}
  /\ h.file # None => h.append = None /\ \A d \in Data : h.recs[d] = {}

Good(h) ==
  /\ h \in LT!Locks
  /\ h.bytes = Owned(h)
  /\ h.count = Cardinality(Locked(h))
  /\ Single(h)

(* g is what is left of h after something was given back. *)
Less(g, h) ==
  /\ Good(g)
  /\ g.bytes \subseteq h.bytes
  /\ g.file \in {h.file, None} /\ g.append \in {h.append, None}
  /\ g.index \in {h.index, None} /\ (g.memo => h.memo)
  /\ \A d \in Data : g.recs[d] \subseteq h.recs[d]

-----------------------------------------------------------------------------
(* The bytes of the files lie apart. *)

LEMMA OwnedBytes ==
  ASSUME NEW h, NEW x
  PROVE  x \in Owned(h) <=>
           \/ \E d \in Data : \E r \in h.recs[d] : x = LT!RecByte(r)
           \/ h.append # None /\ x = LT!AppendByte
           \/ h.file # None /\ x \in LT!FileBytes
           \/ h.memo /\ x = LT!MemoByte
           \/ h.index # None /\ x = LT!IndexByte
<1>1. x \in UNION {UNION {{LT!RecByte(r) : r \in h.recs[d]} : d \in Data}}
        <=> \E d \in Data : \E r \in h.recs[d] : x = LT!RecByte(r)
  OBVIOUS
<1> QED BY <1>1 DEF Owned

LEMMA BytesApart ==
  /\ \A r, s \in Recs : LT!RecByte(r) = LT!RecByte(s) => r = s
  /\ \A r \in Recs : /\ LT!RecByte(r) \in LT!FileBytes
                     /\ LT!RecByte(r) # LT!AppendByte
  /\ LT!AppendByte \in LT!FileBytes
  /\ \A x \in LT!FileBytes : x # LT!MemoByte /\ x # LT!IndexByte
  /\ LT!MemoByte # LT!IndexByte
  /\ LT!FileBytes \cup {LT!MemoByte, LT!IndexByte}
       \subseteq {"dbf", "fpt", "cdx"} \X Nat
<1> USE RecordsAssumption DEF LT!LockPos
<1>1. LT!AppendByte \in LT!FileBytes
  BY DEF LT!AppendByte, LT!FileBytes
<1>2. \A r \in Recs : LT!RecByte(r) \in LT!FileBytes
  BY DEF LT!RecByte, LT!FileBytes
<1>3. \A r \in Recs : LT!RecByte(r) # LT!AppendByte
  BY DEF LT!RecByte, LT!AppendByte
<1>4. \A r, s \in Recs : LT!RecByte(r) = LT!RecByte(s) => r = s
  BY DEF LT!RecByte
<1>5. \A x \in LT!FileBytes : x # LT!MemoByte /\ x # LT!IndexByte
  BY DEF LT!FileBytes, LT!MemoByte, LT!IndexByte
<1>6. LT!MemoByte # LT!IndexByte
  BY DEF LT!MemoByte, LT!IndexByte
<1>7. LT!FileBytes \cup {LT!MemoByte, LT!IndexByte}
        \subseteq {"dbf", "fpt", "cdx"} \X Nat
  BY DEF LT!FileBytes, LT!MemoByte, LT!IndexByte
<1> QED BY <1>1, <1>2, <1>3, <1>4, <1>5, <1>6, <1>7

(* A process that counts no record has none. *)
LEMMA LockedFinite ==
  ASSUME NEW h, h \in LT!Locks
  PROVE  /\ IsFiniteSet(Locked(h)) /\ Cardinality(Locked(h)) \in Nat
         /\ Cardinality(Locked(h)) = 0 => \A d \in Data : h.recs[d] = {}
<1>1. IsFiniteSet(Data \X Recs)
  BY LocksAssumption, FS_Product
<1>2. IsFiniteSet(Locked(h))
  BY <1>1, FS_Subset DEF Locked
<1>3. Cardinality(Locked(h)) = 0 => Locked(h) = {}
  BY <1>2, FS_EmptySet
<1>4. ASSUME NEW d \in Data, NEW r \in h.recs[d] PROVE <<d, r>> \in Locked(h)
  BY DEF Locked, LT!Locks
<1> QED BY <1>2, <1>3, <1>4, FS_CardinalityType

-----------------------------------------------------------------------------
(* What LockFile grants is written down. *)

LEMMA CountedFacts ==
  ASSUME NEW h \in LT!Locks, NEW B \in SUBSET ({"dbf", "fpt", "cdx"} \X Nat),
         NEW n \in Int, NEW f \in [Data -> SUBSET Recs]
  PROVE  LET g == LT!Counted(h, B, n, f) IN
         /\ g \in LT!Locks
         /\ g.file = h.file /\ g.append = h.append /\ g.memo = h.memo /\ g.index = h.index
         /\ g.count = n /\ g.recs = f /\ g.bytes = B
<1> DEFINE g == LT!Counted(h, B, n, f)
<1>1. g = [file |-> h.file, append |-> h.append, recs |-> f, count |-> n,
           memo |-> h.memo, index |-> h.index, bytes |-> B]
  <2> DEFINE k == [h EXCEPT !.bytes = B]
             l == [k EXCEPT !.count = n]
  <2>1. k = [file |-> h.file, append |-> h.append, recs |-> h.recs, count |-> h.count,
             memo |-> h.memo, index |-> h.index, bytes |-> B]
    BY DEF LT!Locks
  <2>2. g = [l EXCEPT !.recs = f]
    BY DEF LT!Counted
  <2> HIDE DEF k
  <2>3. l = [file |-> h.file, append |-> h.append, recs |-> h.recs, count |-> n,
             memo |-> h.memo, index |-> h.index, bytes |-> B]
    BY <2>1
  <2> HIDE DEF l, g
  <2> QED BY <2>2, <2>3
<1> HIDE DEF g
<1> QED BY <1>1 DEF LT!Locks, g

LEMMA TakeRecordGood ==
  ASSUME NEW h, Good(h), NEW d \in Data, NEW r \in Recs,
         LT!RecByte(r) \notin h.bytes, h.file = None
  PROVE  /\ Good(LT!TakeRecord(h, d, r))
         /\ LT!TakeRecord(h, d, r).bytes = h.bytes \cup {LT!RecByte(r)}
<1> DEFINE g == LT!TakeRecord(h, d, r)
<1>1. /\ g \in LT!Locks
      /\ g.file = h.file /\ g.append = h.append /\ g.memo = h.memo /\ g.index = h.index
      /\ g.count = h.count + 1
      /\ g.recs = [h.recs EXCEPT ![d] = @ \cup {r}]
      /\ g.bytes = h.bytes \cup {LT!RecByte(r)}
  <2> DEFINE B == h.bytes \cup {LT!RecByte(r)}
             f == [h.recs EXCEPT ![d] = @ \cup {r}]
  <2>1. LT!RecByte(r) \in {"dbf", "fpt", "cdx"} \X Nat
    BY BytesApart
  <2>2. B \in SUBSET ({"dbf", "fpt", "cdx"} \X Nat)
    BY <2>1 DEF Good, LT!Locks
  <2>3. f \in [Data -> SUBSET Recs] /\ h.count + 1 \in Int /\ h \in LT!Locks
    BY DEF Good, LT!Locks
  <2>4. g = LT!Counted(h, B, h.count + 1, f)
    BY DEF LT!TakeRecord
  <2> HIDE DEF g, B, f
  <2>5. /\ g \in LT!Locks /\ g.file = h.file /\ g.append = h.append /\ g.memo = h.memo
        /\ g.index = h.index /\ g.count = h.count + 1 /\ g.recs = f /\ g.bytes = B
    BY <2>2, <2>3, <2>4, CountedFacts
  <2> QED BY <2>5 DEF f, B
<1> HIDE DEF g
<1>2. \A e \in Data : r \notin h.recs[e]
  BY OwnedBytes DEF Good
<1>3. \A x : x \in Owned(g) <=> x \in h.bytes \cup {LT!RecByte(r)}
  <2> TAKE x
  <2>1. (\E e \in Data : \E s \in g.recs[e] : x = LT!RecByte(s))
          <=> \/ \E e \in Data : \E s \in h.recs[e] : x = LT!RecByte(s)
              \/ x = LT!RecByte(r)
    BY <1>1 DEF Good, LT!Locks
  <2>2. x \in h.bytes <=> x \in Owned(h)
    BY DEF Good
  <2> HIDE DEF Good
  <2> QED BY <1>1, <2>1, <2>2, OwnedBytes
<1>4. Locked(g) = Locked(h) \cup {<<d, r>>} /\ <<d, r>> \notin Locked(h)
  BY <1>1, <1>2 DEF Locked, Good, LT!Locks
<1>5. g.count = Cardinality(Locked(g))
  <2>1. IsFiniteSet(Locked(h)) /\ Cardinality(Locked(h)) = h.count
    BY LockedFinite DEF Good
  <2> DEFINE S == Locked(h)
             x == <<d, r>>
  <2> HIDE DEF S, x
  <2>2. IsFiniteSet(S) /\ x \notin S => Cardinality(S \cup {x}) = Cardinality(S) + 1
    BY FS_AddElement
  <2> QED BY <1>1, <1>4, <2>1, <2>2 DEF S, x
<1>6. Single(g)
  BY <1>1, <1>2 DEF Single, Good, LT!Locks
<1> QED BY <1>1, <1>3, <1>5, <1>6 DEF Good, g

LEMMA TakeAppendGood ==
  ASSUME NEW h, Good(h), NEW d \in Data, h.file = None
  PROVE  /\ Good(LT!TakeAppend(h, d))
         /\ LT!TakeAppend(h, d).bytes = h.bytes \cup {LT!AppendByte}
<1> DEFINE g == LT!TakeAppend(h, d)
<1>1. /\ g \in LT!Locks
      /\ g.file = h.file /\ g.append = d /\ g.memo = h.memo /\ g.index = h.index
      /\ g.count = h.count /\ g.recs = h.recs
      /\ g.bytes = h.bytes \cup {LT!AppendByte}
  <2>1. LT!AppendByte \in {"dbf", "fpt", "cdx"} \X Nat
    BY BytesApart
  <2> QED BY <2>1 DEF Good, LT!Locks, LT!TakeAppend, LT!Grant
<1> HIDE DEF g
<1>2. \A x : x \in Owned(g) <=> x \in h.bytes \cup {LT!AppendByte}
  BY <1>1, OwnedBytes, LocksAssumption DEF Good
<1>3. Locked(g) = Locked(h)
  BY <1>1 DEF Locked
<1> QED BY <1>1, <1>2, <1>3 DEF Good, Single, g

LEMMA TakeFileGood ==
  ASSUME NEW h, Good(h), NEW d \in Data, h.append = None, h.count = 0
  PROVE  /\ Good(LT!TakeFile(h, d))
         /\ LT!TakeFile(h, d).bytes = h.bytes \cup LT!FileBytes
<1> DEFINE g == LT!TakeFile(h, d)
<1>1. /\ g \in LT!Locks
      /\ g.file = d /\ g.append = h.append /\ g.memo = h.memo /\ g.index = h.index
      /\ g.count = h.count /\ g.recs = h.recs
      /\ g.bytes = h.bytes \cup LT!FileBytes
  BY BytesApart DEF Good, LT!Locks, LT!TakeFile, LT!Grant
<1> HIDE DEF g
<1>2. \A x : x \in Owned(g) <=> x \in h.bytes \cup LT!FileBytes
  BY <1>1, OwnedBytes, LocksAssumption DEF Good
<1>3. Locked(g) = Locked(h)
  BY <1>1 DEF Locked
<1>4. \A e \in Data : h.recs[e] = {}
  BY LockedFinite DEF Good
<1> QED BY <1>1, <1>2, <1>3, <1>4 DEF Good, Single, g

LEMMA TakeMemoGood ==
  ASSUME NEW h, Good(h)
  PROVE  /\ Good(LT!TakeMemo(h))
         /\ LT!TakeMemo(h).bytes = h.bytes \cup {LT!MemoByte}
<1> DEFINE g == LT!TakeMemo(h)
<1>1. /\ g \in LT!Locks
      /\ g.file = h.file /\ g.append = h.append /\ g.memo /\ g.index = h.index
      /\ g.count = h.count /\ g.recs = h.recs
      /\ g.bytes = h.bytes \cup {LT!MemoByte}
  BY BytesApart DEF Good, LT!Locks, LT!TakeMemo, LT!Grant
<1> HIDE DEF g
<1>2. \A x : x \in Owned(g) <=> x \in h.bytes \cup {LT!MemoByte}
  BY <1>1, OwnedBytes DEF Good
<1>3. Locked(g) = Locked(h)
  BY <1>1 DEF Locked
<1> QED BY <1>1, <1>2, <1>3 DEF Good, Single, g

LEMMA TakeIndexGood ==
  ASSUME NEW h, Good(h), NEW d \in Data
  PROVE  /\ Good(LT!TakeIndex(h, d))
         /\ LT!TakeIndex(h, d).bytes = h.bytes \cup {LT!IndexByte}
<1> DEFINE g == LT!TakeIndex(h, d)
<1>1. /\ g \in LT!Locks
      /\ g.file = h.file /\ g.append = h.append /\ g.memo = h.memo /\ g.index = d
      /\ g.count = h.count /\ g.recs = h.recs
      /\ g.bytes = h.bytes \cup {LT!IndexByte}
  BY BytesApart DEF Good, LT!Locks, LT!TakeIndex, LT!Grant
<1> HIDE DEF g
<1>2. \A x : x \in Owned(g) <=> x \in h.bytes \cup {LT!IndexByte}
  BY <1>1, OwnedBytes, LocksAssumption DEF Good
<1>3. Locked(g) = Locked(h)
  BY <1>1 DEF Locked
<1> QED BY <1>1, <1>2, <1>3 DEF Good, Single, g

(* A lock that is neither held nor refused, and whose bytes are free for   *)
(* the process itself, can be taken.                                       *)
LEMMA TakeGood ==
  ASSUME NEW h, Good(h), NEW t \in Part,
         ~LT!Held(h, t), ~LT!Refused(h, t), LT!BytesOf(t) \cap h.bytes = {}
  PROVE  /\ Good(LT!Take(h, t))
         /\ LT!Take(h, t).bytes = h.bytes \cup LT!BytesOf(t)
<1> USE DEF Part
<1>1. CASE t.kind = "record"
  <2>1. h.file = None
    BY <1>1 DEF LT!Held, LT!Refused, LT!TestLock, LT!TestFile, LT!Whose
  <2> QED BY <1>1, <2>1, TakeRecordGood DEF LT!Take, LT!BytesOf
<1>2. CASE t.kind = "append"
  <2>1. h.file = None
    BY <1>2 DEF LT!Held, LT!Refused, LT!TestFile, LT!Whose
  <2> QED BY <1>2, <2>1, TakeAppendGood DEF LT!Take, LT!BytesOf
<1>3. CASE t.kind = "file"
  <2>1. h.append = None /\ h.count = 0
    BY <1>3 DEF LT!Refused
  <2> QED BY <1>3, <2>1, TakeFileGood DEF LT!Take, LT!BytesOf
<1>4. CASE t.kind = "memo"
  BY <1>4, TakeMemoGood DEF LT!Take, LT!BytesOf
<1>5. CASE t.kind = "index"
  BY <1>5, TakeIndexGood DEF LT!Take, LT!BytesOf
<1> QED BY <1>1, <1>2, <1>3, <1>4, <1>5

-----------------------------------------------------------------------------
(* What is given back is given back in both places.  A byte that goes is   *)
(* nobody else's of the process, because no record is locked twice.        *)

LEMMA LessIsTransitive ==
  ASSUME NEW f, NEW g, NEW h, Less(f, g), Less(g, h) PROVE Less(f, h)
BY DEF Less

LEMMA UnlockRecordLess ==
  ASSUME NEW h, Good(h), NEW d \in Data, NEW r
  PROVE  Less(LT!UnlockRecord(h, d, r), h)
<1> DEFINE g == LT!UnlockRecord(h, d, r)
<1>1. CASE r \notin h.recs[d]
  BY <1>1 DEF LT!UnlockRecord, Less
<1>2. CASE r \in h.recs[d]
  <2>1. /\ g \in LT!Locks /\ g.file = h.file /\ g.append = h.append /\ g.memo = h.memo
        /\ g.index = h.index /\ g.count = h.count - 1
        /\ g.recs = [h.recs EXCEPT ![d] = @ \ {r}]
        /\ g.bytes = h.bytes \ {LT!RecByte(r)}
    <3> DEFINE B == h.bytes \ {LT!RecByte(r)}
               f == [h.recs EXCEPT ![d] = @ \ {r}]
    <3>1. B \in SUBSET ({"dbf", "fpt", "cdx"} \X Nat)
      BY DEF Good, LT!Locks
    <3>2. f \in [Data -> SUBSET Recs] /\ h.count - 1 \in Int /\ h \in LT!Locks
      BY DEF Good, LT!Locks
    <3>3. g = LT!Counted(h, B, h.count - 1, f)
      BY <1>2 DEF LT!UnlockRecord
    <3> HIDE DEF g, B, f
    <3>4. /\ g \in LT!Locks /\ g.file = h.file /\ g.append = h.append /\ g.memo = h.memo
          /\ g.index = h.index /\ g.count = h.count - 1 /\ g.recs = f /\ g.bytes = B
      BY <3>1, <3>2, <3>3, CountedFacts
    <3> QED BY <3>4 DEF f, B
  <2> HIDE DEF g
  <2>2. /\ h.recs \in [Data -> SUBSET Recs] /\ r \in Recs /\ h.file = None
        /\ \A e \in Data : e # d => r \notin h.recs[e]
    BY <1>2 DEF Good, Single, LT!Locks
  <2>3. \A x : x \in Owned(g) <=> x \in h.bytes \ {LT!RecByte(r)}
    <3> TAKE x
    <3>1. (\E e \in Data : \E s \in g.recs[e] : x = LT!RecByte(s))
            <=> /\ \E e \in Data : \E s \in h.recs[e] : x = LT!RecByte(s)
                /\ x # LT!RecByte(r)
      BY <2>1, <2>2, BytesApart
    <3>2. x = LT!AppendByte \/ x = LT!MemoByte \/ x = LT!IndexByte => x # LT!RecByte(r)
      BY <2>2, BytesApart
    <3>3. x \in h.bytes <=> x \in Owned(h)
      BY DEF Good
    <3> QED BY <2>1, <2>2, <3>1, <3>2, <3>3, OwnedBytes
  <2>4. Locked(g) = Locked(h) \ {<<d, r>>} /\ <<d, r>> \in Locked(h)
    BY <1>2, <2>1, <2>2 DEF Locked
  <2>5. g.count = Cardinality(Locked(g))
    BY <2>1, <2>4, LockedFinite, FS_RemoveElement DEF Good
  <2>6. Single(g)
    BY <2>1, <2>2 DEF Single, Good
  <2> QED BY <2>1, <2>3, <2>5, <2>6 DEF Less, Good, g
<1> QED BY <1>1, <1>2

LEMMA SameCardinality == \A S : LT!Cardinality(S) = Cardinality(S)
BY DEF LT!Cardinality, Cardinality

LEMMA UnlockRecordsLess ==
  ASSUME NEW h, Good(h), NEW d \in Data
  PROVE  Less(LT!UnlockRecords(h, d), h)
<1> DEFINE g == LT!UnlockRecords(h, d)
           R == {LT!RecByte(r) : r \in h.recs[d]}
           c == Cardinality(h.recs[d])
<1>1. /\ IsFiniteSet(h.recs[d]) /\ c \in Nat
      /\ IsFiniteSet({d} \X h.recs[d]) /\ Cardinality({d} \X h.recs[d]) = c
  <2>1. IsFiniteSet(h.recs[d])
    BY LocksAssumption, FS_Subset DEF Good, LT!Locks
  <2>2. c \in Nat
    BY <2>1, FS_CardinalityType
  <2>3. IsFiniteSet({d}) /\ Cardinality({d}) = 1
    BY FS_Singleton
  <2> QED BY <2>1, <2>2, <2>3, FS_Product
<1>2. /\ g \in LT!Locks /\ g.file = h.file /\ g.append = h.append /\ g.memo = h.memo
      /\ g.index = h.index /\ g.count = h.count - c
      /\ g.recs = [h.recs EXCEPT ![d] = {}] /\ g.bytes = h.bytes \ R
  <2> DEFINE B == h.bytes \ R
             f == [h.recs EXCEPT ![d] = {}]
  <2>1. B \in SUBSET ({"dbf", "fpt", "cdx"} \X Nat)
    BY DEF Good, LT!Locks
  <2>2. f \in [Data -> SUBSET Recs] /\ h.count - c \in Int /\ h \in LT!Locks
    BY <1>1 DEF Good, LT!Locks
  <2>3. g = LT!Counted(h, B, h.count - c, f)
    BY SameCardinality DEF LT!UnlockRecords
  <2> HIDE DEF g, B, f, c
  <2>4. /\ g \in LT!Locks /\ g.file = h.file /\ g.append = h.append /\ g.memo = h.memo
        /\ g.index = h.index /\ g.count = h.count - c /\ g.recs = f /\ g.bytes = B
    BY <2>1, <2>2, <2>3, CountedFacts
  <2> QED BY <2>4 DEF f, B
<1> HIDE DEF g
<1>3. /\ h.recs \in [Data -> SUBSET Recs]
      /\ \A e \in Data : e # d => h.recs[d] \cap h.recs[e] = {}
      /\ h.recs[d] # {} => h.file = None
  BY DEF Good, Single, LT!Locks
<1>4. \A x : x \in Owned(g) <=> x \in h.bytes \ R
  <2> TAKE x
  <2>1. (\E e \in Data : \E s \in g.recs[e] : x = LT!RecByte(s))
          <=> /\ \E e \in Data : \E s \in h.recs[e] : x = LT!RecByte(s)
              /\ x \notin R
    BY <1>2, <1>3, BytesApart
  <2>2. x = LT!AppendByte \/ x = LT!MemoByte \/ x = LT!IndexByte => x \notin R
    BY <1>3, BytesApart
  <2>3. h.file # None => R = {}
    BY <1>3
  <2>4. x \in h.bytes <=> x \in Owned(h)
    BY DEF Good
  <2>5. /\ g.file = h.file /\ g.append = h.append /\ g.memo = h.memo /\ g.index = h.index
        /\ g.bytes = h.bytes \ R
    BY <1>2
  <2> HIDE DEF R
  <2> QED BY <2>1, <2>2, <2>3, <2>4, <2>5, OwnedBytes
<1>5. Locked(g) = Locked(h) \ ({d} \X h.recs[d]) /\ ({d} \X h.recs[d]) \subseteq Locked(h)
  BY <1>2, <1>3 DEF Locked
<1>6. g.count = Cardinality(Locked(g))
  <2>1. Locked(h) \cap ({d} \X h.recs[d]) = {d} \X h.recs[d]
    BY <1>5
  <2>2. Cardinality(Locked(g)) = Cardinality(Locked(h)) - Cardinality({d} \X h.recs[d])
    <3>1. IsFiniteSet(Locked(h))
      BY LockedFinite DEF Good
    <3> DEFINE T == {d} \X h.recs[d]
    <3>2. Cardinality(Locked(h) \ T) = Cardinality(Locked(h)) - Cardinality(Locked(h) \cap T)
      BY <3>1, FS_Difference
    <3> QED BY <1>5, <2>1, <3>2
  <2>3. g.count = h.count - c
    BY <1>2
  <2> QED BY <1>1, <2>2, <2>3 DEF Good
<1>7. Single(g)
  BY <1>2, <1>3 DEF Single, Good
<1> QED BY <1>2, <1>4, <1>6, <1>7 DEF Less, Good, g

LEMMA UnlockAppendLess ==
  ASSUME NEW h, Good(h), NEW d \in Data
  PROVE  Less(LT!UnlockAppend(h, d), h)
<1> DEFINE g == LT!UnlockAppend(h, d)
<1>1. CASE LT!TestAppend(h, d) # "mine"
  BY <1>1 DEF LT!UnlockAppend, Less
<1>2. CASE LT!TestAppend(h, d) = "mine"
  <2>1. h.append # None /\ h.file = None
    BY <1>2 DEF LT!TestAppend, LT!Whose, Good, Single
  <2>2. /\ g \in LT!Locks /\ g.file = h.file /\ g.append = None /\ g.memo = h.memo
        /\ g.index = h.index /\ g.count = h.count /\ g.recs = h.recs
        /\ g.bytes = h.bytes \ {LT!AppendByte}
    BY <1>2 DEF LT!UnlockAppend, LT!Release, Good, LT!Locks
  <2> HIDE DEF g
  <2>3. \A x : x \in Owned(g) <=> x \in h.bytes \ {LT!AppendByte}
    <3> TAKE x
    <3>1. \A e \in Data : \A r \in h.recs[e] : LT!RecByte(r) # LT!AppendByte
      BY BytesApart DEF Good, LT!Locks
    <3>2. LT!AppendByte # LT!MemoByte /\ LT!AppendByte # LT!IndexByte
      BY BytesApart
    <3>3. x \in h.bytes <=> x \in Owned(h)
      BY DEF Good
    <3> QED BY <2>1, <2>2, <3>1, <3>2, <3>3, OwnedBytes
  <2>4. Locked(g) = Locked(h)
    BY <2>2 DEF Locked
  <2> QED BY <2>1, <2>2, <2>3, <2>4 DEF Less, Good, Single, g
<1> QED BY <1>1, <1>2

LEMMA UnlockFileLess ==
  ASSUME NEW h, Good(h), NEW d \in Data
  PROVE  Less(LT!UnlockFile(h, d), h)
<1> DEFINE g == LT!UnlockFile(h, d)
<1>1. CASE h.file # d
  BY <1>1 DEF LT!UnlockFile, Less
<1>2. CASE h.file = d
  <2>1. h.append = None /\ h.file # None /\ \A e \in Data : h.recs[e] = {}
    BY <1>2, LocksAssumption DEF Good, Single
  <2>2. /\ g \in LT!Locks /\ g.file = None /\ g.append = h.append /\ g.memo = h.memo
        /\ g.index = h.index /\ g.count = h.count /\ g.recs = h.recs
        /\ g.bytes = h.bytes \ LT!FileBytes
    BY <1>2 DEF LT!UnlockFile, LT!Release, Good, LT!Locks
  <2> HIDE DEF g
  <2>3. \A x : x \in Owned(g) <=> x \in h.bytes \ LT!FileBytes
    <3> TAKE x
    <3>1. LT!MemoByte \notin LT!FileBytes /\ LT!IndexByte \notin LT!FileBytes
      BY BytesApart
    <3>2. x \in h.bytes <=> x \in Owned(h)
      BY DEF Good
    <3> QED BY <2>1, <2>2, <3>1, <3>2, OwnedBytes
  <2>4. Locked(g) = Locked(h)
    BY <2>2 DEF Locked
  <2> QED BY <2>1, <2>2, <2>3, <2>4 DEF Less, Good, Single, g
<1> QED BY <1>1, <1>2

LEMMA UnlockMemoLess ==
  ASSUME NEW h, Good(h)
  PROVE  Less(LT!UnlockMemo(h), h)
<1> DEFINE g == LT!UnlockMemo(h)
<1>1. CASE ~h.memo
  BY <1>1 DEF LT!UnlockMemo, Less
<1>2. CASE h.memo
  <2>1. /\ g \in LT!Locks /\ g.file = h.file /\ g.append = h.append /\ g.memo = FALSE
        /\ g.index = h.index /\ g.count = h.count /\ g.recs = h.recs
        /\ g.bytes = h.bytes \ {LT!MemoByte}
    BY <1>2 DEF LT!UnlockMemo, LT!Release, Good, LT!Locks
  <2> HIDE DEF g
  <2>2. \A x : x \in Owned(g) <=> x \in h.bytes \ {LT!MemoByte}
    <3> TAKE x
    <3>1. \A e \in Data : \A r \in h.recs[e] : LT!RecByte(r) # LT!MemoByte
      BY BytesApart DEF Good, LT!Locks
    <3>2. /\ LT!AppendByte # LT!MemoByte /\ LT!MemoByte # LT!IndexByte
          /\ LT!MemoByte \notin LT!FileBytes
      BY BytesApart
    <3>3. x \in h.bytes <=> x \in Owned(h)
      BY DEF Good
    <3> QED BY <1>2, <2>1, <3>1, <3>2, <3>3, OwnedBytes
  <2>3. Locked(g) = Locked(h)
    BY <2>1 DEF Locked
  <2> QED BY <2>1, <2>2, <2>3 DEF Less, Good, Single, g
<1> QED BY <1>1, <1>2

LEMMA UnlockIndexLess ==
  ASSUME NEW h, Good(h), NEW d \in Data
  PROVE  Less(LT!UnlockIndex(h, d), h)
<1> DEFINE g == LT!UnlockIndex(h, d)
<1>1. CASE h.index # d
  BY <1>1 DEF LT!UnlockIndex, Less
<1>2. CASE h.index = d
  <2>1. h.index # None
    BY <1>2, LocksAssumption
  <2>2. /\ g \in LT!Locks /\ g.file = h.file /\ g.append = h.append /\ g.memo = h.memo
        /\ g.index = None /\ g.count = h.count /\ g.recs = h.recs
        /\ g.bytes = h.bytes \ {LT!IndexByte}
    BY <1>2 DEF LT!UnlockIndex, LT!Release, Good, LT!Locks
  <2> HIDE DEF g
  <2>3. \A x : x \in Owned(g) <=> x \in h.bytes \ {LT!IndexByte}
    <3> TAKE x
    <3>1. \A e \in Data : \A r \in h.recs[e] : LT!RecByte(r) # LT!IndexByte
      BY BytesApart DEF Good, LT!Locks
    <3>2. /\ LT!AppendByte # LT!IndexByte /\ LT!MemoByte # LT!IndexByte
          /\ LT!IndexByte \notin LT!FileBytes
      BY BytesApart
    <3>3. x \in h.bytes <=> x \in Owned(h)
      BY DEF Good
    <3> QED BY <2>1, <2>2, <3>1, <3>2, <3>3, OwnedBytes
  <2>4. Locked(g) = Locked(h)
    BY <2>2 DEF Locked
  <2> QED BY <2>2, <2>3, <2>4 DEF Less, Good, Single, g
<1> QED BY <1>1, <1>2

LEMMA UnlockDataLess ==
  ASSUME NEW h, Good(h), NEW d \in Data
  PROVE  Less(LT!UnlockData(h, d), h)
<1> DEFINE f == LT!UnlockFile(h, d)
           a == LT!UnlockAppend(f, d)
<1>1. Less(f, h)
  BY UnlockFileLess
<1>2. Less(a, f)
  BY <1>1, UnlockAppendLess DEF Less
<1>3. Less(LT!UnlockRecords(a, d), a)
  BY <1>2, UnlockRecordsLess DEF Less
<1> QED BY <1>1, <1>2, <1>3, LessIsTransitive DEF LT!UnlockData

LEMMA UnlockRestLess ==
  ASSUME NEW h, Good(h), NEW d \in Data
  PROVE  Less(LT!UnlockIndex(LT!UnlockMemo(h), d), h)
<1>1. Less(LT!UnlockMemo(h), h)
  BY UnlockMemoLess
<1>2. Less(LT!UnlockIndex(LT!UnlockMemo(h), d), LT!UnlockMemo(h))
  BY <1>1, UnlockIndexLess DEF Less
<1> QED BY <1>1, <1>2, LessIsTransitive

LEMMA UnlockDoLess ==
  ASSUME NEW h, Good(h), NEW d \in Data, NEW e \in BOOLEAN
  PROVE  Less(LT!UnlockDo(h, d, e), h)
<1>1. Less(LT!UnlockData(h, d), h)
  BY UnlockDataLess
<1>2. Less(LT!UnlockIndex(LT!UnlockMemo(LT!UnlockData(h, d)), d), LT!UnlockData(h, d))
  BY <1>1, UnlockRestLess DEF Less
<1>3. Less(LT!UnlockIndex(LT!UnlockMemo(LT!UnlockData(h, d)), d), h)
  BY <1>1, <1>2, LessIsTransitive
<1>4. Less(LT!UnlockIndex(LT!UnlockMemo(h), d), h)
  BY UnlockRestLess
<1> QED BY <1>3, <1>4 DEF LT!UnlockDo, Less

-----------------------------------------------------------------------------
(* Giving back one DATA4 after the other: the fold over all of them exists *)
(* and leaves less.                                                        *)

LEMMA LeastOf ==
  ASSUME NEW T, T \subseteq Nat, T # {}
  PROVE  \E n \in T : \A m \in T : n <= m
<1>1. PICK n \in T : \A m \in T : ~(<<m, n>> \in OpToRel(<, Nat))
  BY NatLessThanWellFounded, WFMin
<1>2. \A m \in T : ~(m < n)
  BY <1>1 DEF OpToRel
<1> QED BY <1>2

LEMMA SmallestSet ==
  ASSUME NEW B \in SUBSET SUBSET Data, B # {}
  PROVE  \E s \in B : \A t \in B : Cardinality(s) <= Cardinality(t)
<1>1. \A s \in B : Cardinality(s) \in Nat
  BY LocksAssumption, FS_Subset, FS_CardinalityType
<1> DEFINE T == {n \in Nat : \E s \in B : Cardinality(s) = n}
<1>2. PICK n \in T : \A m \in T : n <= m
  BY <1>1, LeastOf
<1> QED BY <1>1, <1>2

LEMMA SmallerSet ==
  ASSUME NEW B \in SUBSET SUBSET Data, NEW s \in B, NEW d \in s,
         \A t \in B : Cardinality(s) <= Cardinality(t)
  PROVE  s \ {d} \notin B
<1>1. IsFiniteSet(s) /\ Cardinality(s) \in Nat
  BY LocksAssumption, FS_Subset, FS_CardinalityType
<1>2. Cardinality(s \ {d}) = Cardinality(s) - 1
  BY <1>1, FS_RemoveElement
<1> QED BY <1>1, <1>2

(* What UnlockAll folds is a function on the sets of DATA4s. *)
Folding(iter, h, e) ==
  /\ LT!UnlockAll(h, e) = iter[Data]
  /\ \A s \in SUBSET Data :
       \/ s = {} /\ iter[s] = h
       \/ \E d \in s : iter[s] = LT!UnlockDo(iter[s \ {d}], d, e)

LEMMA UnlockAllIsAFold ==
  ASSUME NEW h, NEW e
  PROVE  \E iter : Folding(iter, h, e)
<1> DEFINE Some == SUBSET Data
           pick(s) == CHOOSE d \in s : TRUE
           Next1(g, d) == LT!UnlockDo(g, d, e)
           body(f, s) == IF s = {} THEN h ELSE Next1(f[s \ {pick(s)}], pick(s))
           upTo(n) == {s \in Some : Cardinality(s) <= n}
           Folded(f, S) == f = [s \in S |-> body(f, s)]
<1>1. /\ Data \in Some
      /\ \A s \in Some : Cardinality(s) \in Nat
      /\ \A s \in Some : Cardinality(s) <= Cardinality(Data)
      /\ \A s \in Some : Cardinality(s) = 0 => s = {}
      /\ \A s \in Some : s # {} => /\ pick(s) \in s /\ s \ {pick(s)} \in Some
                                  /\ Cardinality(s \ {pick(s)}) = Cardinality(s) - 1
  <2>1. ASSUME NEW s \in SUBSET Data
        PROVE  /\ Cardinality(s) \in Nat /\ Cardinality(s) <= Cardinality(Data)
               /\ Cardinality(s) = 0 => s = {}
               /\ s # {} => /\ pick(s) \in s /\ s \ {pick(s)} \in SUBSET Data
                            /\ Cardinality(s \ {pick(s)}) = Cardinality(s) - 1
    <3>1. IsFiniteSet(s) /\ Cardinality(s) <= Cardinality(Data)
      BY LocksAssumption, FS_Subset
    <3>2. Cardinality(s) = 0 => s = {}
      BY <3>1, FS_EmptySet
    <3>3. s # {} => pick(s) \in s
      OBVIOUS
    <3> HIDE DEF pick
    <3> QED BY <3>1, <3>2, <3>3, FS_CardinalityType, FS_RemoveElement
  <2> QED BY <2>1
<1> HIDE DEF Next1, pick
<1> HIDE DEF Some
<1>2. \A n \in Nat : \E f : Folded(f, upTo(n))
  <2> DEFINE T == {n \in Nat : ~\E f : Folded(f, upTo(n))}
  <2> SUFFICES ASSUME T # {} PROVE FALSE
    OBVIOUS
  <2>1. PICK n \in T : \A m \in T : n <= m
    BY LeastOf
  <2>2. CASE n = 0
    <3> DEFINE g == [s \in upTo(0) |-> h]
    <3>1. \A s \in upTo(0) : s = {}
      BY <1>1
    <3>2. Folded(g, upTo(0))
      BY <3>1
    <3> QED BY <2>2, <3>2
  <2>3. CASE n # 0
    <3>1. n - 1 \in Nat /\ n - 1 \notin T
      <4> HIDE DEF Folded, upTo
      <4> QED BY <2>1, <2>3
    <3>2. PICK f : Folded(f, upTo(n - 1))
      BY <3>1
    <3> DEFINE g == [s \in upTo(n) |-> body(f, s)]
    <3>3. ASSUME NEW s \in upTo(n) PROVE body(f, s) = body(g, s)
      <4>1. CASE s = {}
        BY <4>1
      <4>2. CASE s # {}
        <5> DEFINE t == s \ {pick(s)}
        <5>1. t \in upTo(n - 1) /\ t \in upTo(n)
          BY <1>1, <2>1, <4>2
        <5> HIDE DEF upTo, body, t
        <5>2. f[t] = body(f, t)
          BY <3>2, <5>1
        <5>3. g[t] = body(f, t)
          BY <5>1
        <5> QED BY <5>2, <5>3, <4>2 DEF body, t
      <4> QED BY <4>1, <4>2
    <3>4. Folded(g, upTo(n))
      <4> HIDE DEF body, upTo
      <4> QED BY <3>3
    <3> QED BY <2>1, <3>4
  <2> QED BY <2>2, <2>3
<1> DEFINE iter == CHOOSE f : Folded(f, Some)
<1>3. LT!UnlockAll(h, e) = iter[Data]
  BY DEF LT!UnlockAll, LT!FoldSet, LT!MapThenFoldSet, Next1, pick, Some
<1>4. Folded(iter, Some)
  <2>1. upTo(Cardinality(Data)) = Some /\ Cardinality(Data) \in Nat
    BY <1>1
  <2> HIDE DEF Folded, upTo
  <2>2. \E f : Folded(f, Some)
    BY <1>2, <2>1
  <2> QED BY <2>2
<1>5. \A s \in Some : iter[s] = body(iter, s)
  <2> HIDE DEF iter, body
  <2> QED BY <1>4
<1>6. \A s \in Some : \/ s = {} /\ iter[s] = h
                     \/ \E d \in s : iter[s] = LT!UnlockDo(iter[s \ {d}], d, e)
  <2> HIDE DEF iter
  <2> QED BY <1>1, <1>5 DEF Next1
<1> HIDE DEF iter
<1>7. Folding(iter, h, e)
  BY <1>3, <1>6 DEF Some, Folding
<1> QED BY <1>7

(* What holds of the empty set and goes from a set to the next holds of    *)
(* all DATA4s.                                                             *)
LEMMA UnlockAllLess ==
  ASSUME NEW h, Good(h), NEW e \in BOOLEAN
  PROVE  Less(LT!UnlockAll(h, e), h)
<1>1. PICK iter : Folding(iter, h, e)
  BY UnlockAllIsAFold
<1> DEFINE Bad == {s \in SUBSET Data : ~Less(iter[s], h)}
<1>2. ASSUME NEW s \in Bad, \A t \in Bad : Cardinality(s) <= Cardinality(t)
      PROVE  FALSE
  <2>1. CASE s = {} /\ iter[s] = h
    BY <2>1 DEF Less
  <2>2. ASSUME NEW d \in s, iter[s] = LT!UnlockDo(iter[s \ {d}], d, e) PROVE FALSE
    <3>1. s \ {d} \in SUBSET Data /\ s \ {d} \notin Bad /\ d \in Data
      <4>1. Bad \in SUBSET SUBSET Data
        OBVIOUS
      <4> HIDE DEF Bad
      <4> QED BY <1>2, <4>1, SmallerSet
    <3>2. Less(iter[s \ {d}], h)
      BY <3>1
    <3> DEFINE k == iter[s \ {d}]
    <3>3. Good(k) /\ iter[s] = LT!UnlockDo(k, d, e) /\ d \in Data
      BY <2>2, <3>1, <3>2 DEF Less
    <3>4. Less(k, h) /\ ~Less(iter[s], h)
      BY <3>2
    <3> HIDE DEF k
    <3>5. Less(iter[s], k)
      BY <3>3, UnlockDoLess
    <3> QED BY <3>4, <3>5, LessIsTransitive
  <2> QED BY <1>1, <2>1, <2>2 DEF Folding
<1>3. Bad = {}
  <2>1. Bad \in SUBSET SUBSET Data
    OBVIOUS
  <2> HIDE DEF Bad
  <2> QED BY <1>2, <2>1, SmallestSet
<1> QED BY <1>1, <1>3 DEF Folding

(* With no error pending nothing of the table stays locked.                *)
Freed(g, d) == g.file # d /\ g.append # d /\ g.index # d /\ ~g.memo /\ g.recs[d] = {}

LEMMA UnlockDoFrees ==
  ASSUME NEW h, Good(h), NEW d \in Data, NEW g, g = LT!UnlockDo(h, d, FALSE)
  PROVE  Freed(g, d)
<1> USE DEF Freed
<1>1. ASSUME NEW k, Good(k)
      PROVE  /\ LT!UnlockFile(k, d).file # d /\ LT!UnlockAppend(k, d).append # d
             /\ LT!UnlockIndex(k, d).index # d /\ ~LT!UnlockMemo(k).memo
  <2> USE LocksAssumption, <1>1 DEF Good, LT!Locks, LT!Release
  <2>1. LT!UnlockFile(k, d).file # d
    BY DEF LT!UnlockFile
  <2>2. LT!UnlockAppend(k, d).append # d
    BY DEF LT!UnlockAppend, LT!TestAppend, LT!Whose
  <2>3. LT!UnlockIndex(k, d).index # d
    BY DEF LT!UnlockIndex
  <2>4. ~LT!UnlockMemo(k).memo
    BY DEF LT!UnlockMemo
  <2> QED BY <2>1, <2>2, <2>3, <2>4
<1>2. ASSUME NEW k, Good(k) PROVE LT!UnlockRecords(k, d).recs[d] = {}
  <2> DEFINE B == k.bytes \ {LT!RecByte(r) : r \in k.recs[d]}
             n == k.count - Cardinality(k.recs[d])
             f == [k.recs EXCEPT ![d] = {}]
  <2>1. B \in SUBSET AllBytes /\ f \in [Data -> SUBSET Recs] /\ k \in LT!Locks
    BY <1>2 DEF Good, LT!Locks, AllBytes
  <2>2. n \in Int
    <3>1. IsFiniteSet(k.recs[d])
      BY <1>2, LocksAssumption, FS_Subset DEF Good, LT!Locks
    <3> QED BY <1>2, <3>1, FS_CardinalityType DEF Good, LT!Locks
  <2>3. LT!UnlockRecords(k, d) = LT!Counted(k, B, n, f)
    BY SameCardinality DEF LT!UnlockRecords
  <2>4. f[d] = {}
    BY <1>2 DEF Good, LT!Locks
  <2> HIDE DEF B, n, f
  <2> QED BY <2>1, <2>2, <2>3, <2>4, CountedFacts DEF AllBytes
<1> DEFINE f == LT!UnlockFile(h, d)
           a == LT!UnlockAppend(f, d)
           r == LT!UnlockRecords(a, d)
           m == LT!UnlockMemo(r)
           i == LT!UnlockIndex(m, d)
<1>3. CASE LT!HasLocks(h, d)
  <2>1. g = i
    BY <1>3 DEF LT!UnlockDo, LT!UnlockData
  <2>2. Less(f, h) /\ f.file # d
    BY <1>1, UnlockFileLess
  <2> HIDE DEF f
  <2>3. Less(a, f) /\ a.append # d
    BY <1>1, <2>2, UnlockAppendLess DEF Less
  <2> HIDE DEF a
  <2>4. Less(r, a) /\ r.recs[d] = {}
    BY <1>2, <2>3, UnlockRecordsLess DEF Less
  <2> HIDE DEF r
  <2>5. Less(m, r) /\ ~m.memo
    BY <1>1, <2>4, UnlockMemoLess DEF Less
  <2> HIDE DEF m
  <2>6. Less(i, m) /\ i.index # d
    BY <1>1, <2>5, UnlockIndexLess DEF Less
  <2> HIDE DEF i
  <2>7. Less(i, r) /\ Less(i, a) /\ Less(i, f)
    BY <2>3, <2>4, <2>5, <2>6, LessIsTransitive
  <2>8. i.file # d /\ i.append # d /\ ~i.memo /\ i.recs[d] = {}
    BY <2>2, <2>3, <2>4, <2>5, <2>6, <2>7, LocksAssumption DEF Less
  <2> QED BY <2>1, <2>6, <2>8
<1>4. CASE ~LT!HasLocks(h, d)
  <2> DEFINE k == LT!UnlockMemo(h)
  <2>1. Less(k, h) /\ ~k.memo
    BY <1>1, UnlockMemoLess
  <2>2. Less(LT!UnlockIndex(k, d), k) /\ LT!UnlockIndex(k, d).index # d
    BY <1>1, <2>1, UnlockIndexLess DEF Less
  <2>3. g = LT!UnlockIndex(k, d)
    BY <1>4 DEF LT!UnlockDo
  <2> HIDE DEF k
  <2> QED BY <1>4, <2>1, <2>2, <2>3, LocksAssumption DEF Less, LT!HasLocks
<1> QED BY <1>3, <1>4

LEMMA UnlockAllFrees ==
  ASSUME NEW h, Good(h), Data # {}
  PROVE  LT!UnlockAll(h, FALSE).bytes = {}
<1>1. PICK iter : Folding(iter, h, FALSE)
  BY UnlockAllIsAFold
<1> DEFINE Free1(s, g) == /\ s # {} => ~g.memo
                          /\ \A d \in s : g.file # d /\ g.append # d /\ g.index # d /\ g.recs[d] = {}
           Bad == {s \in SUBSET Data : ~(Good(iter[s]) /\ Free1(s, iter[s]))}
<1>2. ASSUME NEW s \in Bad, \A t \in Bad : Cardinality(s) <= Cardinality(t)
      PROVE  FALSE
  <2>1. CASE s = {} /\ iter[s] = h
    BY <2>1
  <2>2. ASSUME NEW d \in s, iter[s] = LT!UnlockDo(iter[s \ {d}], d, FALSE) PROVE FALSE
    <3> DEFINE t == s \ {d}
    <3>1. t \in SUBSET Data /\ t \notin Bad /\ d \in Data
      <4>1. Bad \in SUBSET SUBSET Data
        OBVIOUS
      <4> HIDE DEF Bad
      <4> QED BY <1>2, <4>1, SmallerSet
    <3>2. Good(iter[t]) /\ Free1(t, iter[t])
      BY <3>1
    <3> DEFINE k == iter[t]
               g == iter[s]
    <3>3. Good(k) /\ g = LT!UnlockDo(k, d, FALSE) /\ d \in Data /\ Free1(t, k)
      BY <2>2, <3>1, <3>2
    <3> HIDE DEF k, g
    <3>4. Less(g, k)
      BY <3>3, UnlockDoLess
    <3>5. Freed(g, d)
      <4>1. Good(k) /\ d \in Data /\ g = LT!UnlockDo(k, d, FALSE)
        BY <3>3
      <4> HIDE DEF t, Bad, Free1
      <4> QED BY <4>1, UnlockDoFrees
    <3>6. ASSUME NEW c \in t
          PROVE  g.file # c /\ g.append # c /\ g.index # c /\ g.recs[c] = {}
      <4>1. c \in Data /\ c # None
        BY <3>1, LocksAssumption
      <4>2. k.file # c /\ k.append # c /\ k.index # c /\ k.recs[c] = {}
        BY <3>3
      <4> QED BY <3>4, <4>1, <4>2 DEF Less
    <3>7. \A c \in s : c = d \/ c \in t
      OBVIOUS
    <3> HIDE DEF t
    <3>8. Free1(s, g)
      BY <3>5, <3>6, <3>7 DEF Freed
    <3> QED BY <3>4, <3>8 DEF Less, g
  <2> QED BY <1>1, <2>1, <2>2 DEF Folding
<1>3. Bad = {}
  <2>1. Bad \in SUBSET SUBSET Data
    OBVIOUS
  <2> HIDE DEF Bad
  <2> QED BY <1>2, <2>1, SmallestSet
<1> DEFINE g == iter[Data]
<1>4. Good(g) /\ Free1(Data, g)
  BY <1>3
<1>5. g.file = None /\ g.append = None /\ g.index = None /\ ~g.memo /\ \A d \in Data : g.recs[d] = {}
  BY <1>4 DEF Good, LT!Locks
<1> HIDE DEF g
<1>6. \A x : x \notin Owned(g)
  BY <1>5, OwnedBytes
<1> QED BY <1>1, <1>4, <1>6 DEF Folding, Good, g

-----------------------------------------------------------------------------
(* The calls. *)

Ops == {"idle", "one", "all", "keys", "group", "undo", "unlock", "unlock index"}
Autos == {"OFF", "ALL", "DATA"}
Tries == Nat \cup {WAIT4EVER}

Calls == [op : Ops, todo : Seq(Part), left : Int, data : Data \cup {None}, at : Nat,
          round : Int, got : Seq(Wanted), saved : Autos, base : SUBSET AllBytes]

(* A call that needs its DATA4 has one, a group and the undoing of one are *)
(* at a place of their queue,                                              *)
CallFits(c, q) ==
  /\ c.op \in {"all", "keys", "unlock", "unlock index"} => c.data \in Data
  /\ c.op = "group" => c.at >= 1 /\ (c.todo # <<>> => c.at <= Len(q))
  /\ c.op = "undo" => c.at \in 1 .. Len(q) + 1

(* and every variable keeps its type.                                      *)
TypeOK ==
  /\ held \in [Procs -> LT!Locks]
  /\ set \in [Procs -> [auto : Autos, attempts : Tries, single : Tries]]
  /\ err \in [Procs -> BOOLEAN]
  /\ call \in [Procs -> Calls]
  /\ queue \in [Procs -> Seq(Wanted)]
  /\ \A p \in Procs : CallFits(call[p], queue[p])

LocksGood == \A p \in Procs : Good(held[p])
Apart == \A p, q \in Procs : p # q => held[p].bytes \cap held[q].bytes = {}

(* The inductive invariant. *)
IInv == TypeOK /\ LocksGood /\ Apart

LEMMA IdleIsACall == Idle \in Calls
BY DEF Idle, Calls, Ops, Autos

LEMMA StartedIsACall ==
  ASSUME NEW op \in Ops, NEW todo \in Seq(Part), NEW n \in Int, NEW d \in Data \cup {None}
  PROVE  [Idle EXCEPT !.op = op, !.todo = todo, !.left = n, !.data = d] \in Calls
BY IdleIsACall DEF Calls

LEMMA GroupIsACall ==
  ASSUME NEW n \in Nat, NEW r \in Int, NEW a \in Autos, NEW B \in SUBSET AllBytes
  PROVE  [Idle EXCEPT !.op = "group", !.at = n, !.round = r, !.saved = a, !.base = B] \in Calls
<1>1. "group" \in Ops
  BY DEF Ops
<1> QED BY <1>1, IdleIsACall DEF Calls

LEMMA NextIsACall ==
  ASSUME NEW c \in Calls, NEW i \in Nat, NEW got \in Seq(Wanted), NEW n \in Int, NEW todo \in Seq(Part)
  PROVE  [c EXCEPT !.at = i, !.got = got, !.left = n, !.todo = todo] \in Calls
BY DEF Calls

LEMMA PartsOf ==
  ASSUME NEW w \in Wanted
  PROVE  /\ Parts(w) \in Seq(Part) /\ Parts(w) # <<>> 
         /\ Parts(w)[1] \in Part /\ Parts(w)[1].data = w.data
<1>1. CASE w.kind = "all"
  <2>1. /\ w.data \in Data
        /\ LT!Target("file", w.data) \in Part /\ LT!Target("memo", w.data) \in Part
        /\ LT!Target("index", w.data) \in Part /\ LT!Target("file", w.data).data = w.data
    BY <1>1 DEF Wanted, Part, LT!Target
  <2> QED BY <1>1, <2>1 DEF Parts
<1>2. CASE w.kind # "all"
  <2>1. w \in Part
    BY <1>2 DEF Wanted, Part
  <2> QED BY <1>2, <2>1 DEF Parts
<1> QED BY <1>1, <1>2

LEMMA HeldLess ==
  ASSUME IInv, NEW p \in Procs, NEW g, Less(g, held[p]), held' = [held EXCEPT ![p] = g]
  PROVE  held' \in [Procs -> LT!Locks] /\ LocksGood' /\ Apart'
<1>1. held' \in [Procs -> LT!Locks]
  BY DEF IInv, TypeOK, Less, Good
<1>2. \A q \in Procs : Good(held'[q]) /\ held'[q].bytes \subseteq held[q].bytes
  BY DEF IInv, TypeOK, LocksGood, Less
<1> QED BY <1>1, <1>2 DEF IInv, Apart, LocksGood

LEMMA HeldSame ==
  ASSUME IInv, UNCHANGED held
  PROVE  held' \in [Procs -> LT!Locks] /\ LocksGood' /\ Apart'
BY DEF IInv, TypeOK, LocksGood, Apart

(* A step that changes the call of p only, or no call. *)
LEMMA CallStep ==
  ASSUME IInv, NEW p \in Procs, NEW c \in Calls, call' = [call EXCEPT ![p] = c],
         queue' \in [Procs -> Seq(Wanted)],
         \A q \in Procs : q # p => queue'[q] = queue[q], CallFits(c, queue'[p])
  PROVE  call' \in [Procs -> Calls] /\ \A q \in Procs : CallFits(call'[q], queue'[q])
BY DEF IInv, TypeOK

LEMMA ReturnStep ==
  ASSUME IInv, NEW p \in Procs, Return(p), queue' \in [Procs -> Seq(Wanted)],
         \A q \in Procs : q # p => queue'[q] = queue[q]
  PROVE  call' \in [Procs -> Calls] /\ \A q \in Procs : CallFits(call'[q], queue'[q])
<1>1. CallFits(Idle, queue'[p])
  BY DEF CallFits, Idle
<1> QED BY <1>1, IdleIsACall, CallStep DEF Return

-----------------------------------------------------------------------------
(* What a call gives back. *)

LEMMA AutoUnlockLess ==
  ASSUME IInv, NEW p \in Procs, NEW t \in Part, t.kind \in {"record", "append", "file"}
  PROVE  Less(AutoUnlock(p, t), held[p])
<1> DEFINE h == held[p] d == t.data
<1>1. Good(h) /\ d \in Data /\ auto(p) \in Autos
  BY DEF IInv, LocksGood, TypeOK, Part, auto
<1> HIDE DEF h, d
<1>2. Less(h, h) /\ Less(LT!UnlockAll(h, FALSE), h) /\ Less(LT!UnlockDo(h, d, FALSE), h)
  BY <1>1, UnlockAllLess, UnlockDoLess DEF Less
<1>3. Less(LT!UnlockRecords(LT!UnlockIndex(h, d), d), h)
  <2>1. Less(LT!UnlockIndex(h, d), h)
    BY <1>1, UnlockIndexLess
  <2> QED BY <1>1, <2>1, UnlockRecordsLess, LessIsTransitive DEF Less
<1>4. Less(LT!UnlockAppend(LT!UnlockRecords(LT!UnlockIndex(h, d), d), d), h)
  BY <1>1, <1>3, UnlockAppendLess, LessIsTransitive DEF Less
<1> QED BY <1>1, <1>2, <1>3, <1>4 DEF AutoUnlock, Autos, h, d

LEMMA AfterFailureLess ==
  ASSUME IInv, NEW p \in Procs, NEW d \in Data, NEW rc
  PROVE  Less(AfterFailure(p, d, rc), held[p])
<1>1. Good(held[p]) /\ auto(p) \in Autos /\ (rc = "error") \in BOOLEAN
  BY DEF IInv, LocksGood, TypeOK, auto
<1>2. Less(held[p], held[p])
  BY <1>1 DEF Less
<1> QED BY <1>1, <1>2, UnlockAllLess, UnlockDoLess DEF AfterFailure, Autos

LEMMA GroupUnlockLess ==
  ASSUME NEW h, Good(h), NEW w \in Wanted
  PROVE  Less(GroupUnlock(h, w), h)
<1>1. w.data \in Data
  BY DEF Wanted
<1>2. CASE w.kind = "all"
  <2>1. Less(LT!UnlockIndex(LT!UnlockMemo(h), w.data), h)
    BY <1>1, UnlockRestLess
  <2>2. Less(LT!UnlockFile(LT!UnlockIndex(LT!UnlockMemo(h), w.data), w.data), h)
    BY <1>1, <2>1, UnlockFileLess, LessIsTransitive DEF Less
  <2> QED BY <1>2, <2>2 DEF GroupUnlock
<1>3. CASE w.kind # "all"
  BY <1>1, <1>3, UnlockAppendLess, UnlockFileLess, UnlockRecordLess DEF GroupUnlock, Wanted
<1> QED BY <1>2, <1>3

-----------------------------------------------------------------------------
(* Every step keeps the invariant. *)

LEMMA AskStep ==
  ASSUME IInv, NEW p \in Procs, NEW w \in Wanted, Ask(p, w)
  PROVE  IInv'
<1> DEFINE t == Parts(w)[1]
           op == IF w.kind = "all" THEN "all" ELSE "one"
           start(todo) == [Idle EXCEPT !.op = op, !.todo = todo, !.left = attempts(p), !.data = w.data]
<1>1. /\ Parts(w) \in Seq(Part) /\ t \in Part /\ t.kind \in {"record", "append", "file"}
      /\ w.data \in Data
  BY PartsOf DEF Parts, Wanted, LT!Target
<1>2. \A todo \in Seq(Part) : start(todo) \in Calls /\ CallFits(start(todo), queue[p])
  <2> TAKE todo \in Seq(Part)
  <2>1. attempts(p) \in Int
    BY DEF IInv, TypeOK, attempts, Tries, WAIT4EVER
  <2>2. op \in Ops /\ op # "group"
    BY DEF Ops
  <2>3. start(todo) \in Calls
    BY <1>1, <2>1, <2>2, StartedIsACall
  <2>4. start(todo).op = op /\ start(todo).data = w.data
    BY DEF Idle
  <2> QED BY <1>1, <2>2, <2>3, <2>4 DEF CallFits
<1> HIDE DEF start, t
<1>3. CASE /\ LT!Held(held[p], t) /\ UNCHANGED <<held, err>>
           /\ IF Len(Parts(w)) = 1 THEN Return(p)
              ELSE call' = [call EXCEPT ![p] = start(Tail(Parts(w)))]
  <2>1. Tail(Parts(w)) \in Seq(Part)
    BY <1>1, PartsOf
  <2>2. UNCHANGED <<set, queue, err, held>> /\ queue' \in [Procs -> Seq(Wanted)]
    BY <1>3 DEF Ask, IInv, TypeOK
  <2>3. call' \in [Procs -> Calls] /\ \A q \in Procs : CallFits(call'[q], queue'[q])
    BY <1>2, <1>3, <2>1, <2>2, CallStep, ReturnStep
  <2> QED BY <2>2, <2>3, HeldSame DEF IInv, TypeOK
<1>4. CASE /\ Refuse(p)
           /\ held' = [held EXCEPT ![p] = IF op = "all" THEN AfterFailure(p, w.data, RefusedRc(p)) ELSE @]
  <2>1. UNCHANGED <<set, queue>> /\ queue' \in [Procs -> Seq(Wanted)]
    BY <1>4 DEF Ask, IInv, TypeOK
  <2>2. Less(held[p], held[p])
    BY DEF IInv, LocksGood, Less
  <2>3. held' \in [Procs -> LT!Locks] /\ LocksGood' /\ Apart'
    BY <1>1, <1>4, <2>2, AfterFailureLess, HeldLess
  <2>4. call' \in [Procs -> Calls] /\ \A q \in Procs : CallFits(call'[q], queue'[q])
    BY <1>4, <2>1, ReturnStep DEF Refuse
  <2>5. err' \in [Procs -> BOOLEAN]
    BY <1>4 DEF Refuse, IInv, TypeOK
  <2> QED BY <2>1, <2>3, <2>4, <2>5 DEF IInv, TypeOK
<1>5. CASE /\ held' = [held EXCEPT ![p] = AutoUnlock(p, t)]
           /\ call' = [call EXCEPT ![p] = start(Parts(w))]
           /\ UNCHANGED err
  <2>1. UNCHANGED <<set, queue>> /\ queue' \in [Procs -> Seq(Wanted)]
    BY <1>5 DEF Ask, IInv, TypeOK
  <2>2. held' \in [Procs -> LT!Locks] /\ LocksGood' /\ Apart'
    BY <1>1, <1>5, AutoUnlockLess, HeldLess
  <2>3. call' \in [Procs -> Calls] /\ \A q \in Procs : CallFits(call'[q], queue'[q])
    BY <1>1, <1>2, <1>5, <2>1, CallStep
  <2> QED BY <1>5, <2>1, <2>2, <2>3 DEF IInv, TypeOK
<1> QED BY <1>3, <1>4, <1>5 DEF Ask, start, t

(* What stays as it is keeps its type. *)
LEMMA StaysTyped ==
  ASSUME IInv
  PROVE  /\ UNCHANGED set => set' \in [Procs -> [auto : Autos, attempts : Tries, single : Tries]]
         /\ UNCHANGED err => err' \in [Procs -> BOOLEAN]
         /\ UNCHANGED queue => queue' \in [Procs -> Seq(Wanted)]
         /\ UNCHANGED <<call, queue>> =>
              /\ call' \in [Procs -> Calls]
              /\ \A q \in Procs : CallFits(call'[q], queue'[q])
BY DEF IInv, TypeOK

LEMMA AutoStays ==
  ASSUME IInv, NEW p \in Procs, NEW a \in Autos, set' = [set EXCEPT ![p].auto = a]
  PROVE  set' \in [Procs -> [auto : Autos, attempts : Tries, single : Tries]]
BY DEF IInv, TypeOK

(* The calls of d4lock and its sisters ask for something that can be asked. *)
LEMMA LockStep ==
  ASSUME IInv, NEW p \in Procs,
         LockRecord(p) \/ LockAppend(p) \/ LockFile(p) \/ LockAll(p)
  PROVE  IInv'
<1>1. \A d \in DataOf(p) :
        /\ \A r \in Recs : LT!Record(d, r) \in Wanted
        /\ LT!Target("append", d) \in Wanted /\ LT!Target("file", d) \in Wanted
        /\ LT!Target("all", d) \in Wanted
  BY DEF DataOf, Wanted, LT!Record, LT!Target
<1> QED BY <1>1, AskStep DEF LockRecord, LockAppend, LockFile, LockAll

LEMMA WriteKeysStep ==
  ASSUME IInv, NEW p \in Procs, WriteKeys(p) \/ KeysWritten(p)
  PROVE  IInv'
<1>1. CASE WriteKeys(p)
  <2>1. PICK d \in DataOf(p) :
          call' = [call EXCEPT ![p] =
            [Idle EXCEPT !.op = "keys", !.todo = <<LT!Target("index", d)>>,
                         !.left = attempts(p), !.data = d]]
    BY <1>1 DEF WriteKeys
  <2> DEFINE c == [Idle EXCEPT !.op = "keys", !.todo = <<LT!Target("index", d)>>,
                               !.left = attempts(p), !.data = d]
  <2>2. d \in Data /\ LT!Target("index", d) \in Part
    BY DEF DataOf, Part, LT!Target
  <2>3. attempts(p) \in Int /\ "keys" \in Ops
    BY DEF IInv, TypeOK, attempts, Tries, WAIT4EVER, Ops
  <2>4. c \in Calls
    <3>1. <<LT!Target("index", d)>> \in Seq(Part)
      BY <2>2
    <3> QED BY <2>2, <2>3, <3>1, StartedIsACall
  <2>5. CallFits(c, queue[p])
    BY <2>2 DEF CallFits, Idle
  <2>6. UNCHANGED <<held, set, err, queue>>
    BY <1>1 DEF WriteKeys
  <2> HIDE DEF c
  <2>7. call' \in [Procs -> Calls] /\ \A q \in Procs : CallFits(call'[q], queue'[q])
    BY <2>1, <2>4, <2>5, <2>6, CallStep, StaysTyped DEF c
  <2> QED BY <2>6, <2>7, HeldSame, StaysTyped DEF IInv, TypeOK
<1>2. CASE KeysWritten(p)
  <2>1. Good(held[p]) /\ call[p].data \in Data
    BY <1>2 DEF KeysWritten, IInv, TypeOK, LocksGood, CallFits
  <2>2. held' \in [Procs -> LT!Locks] /\ LocksGood' /\ Apart'
    BY <1>2, <2>1, UnlockIndexLess, HeldLess DEF KeysWritten
  <2>3. UNCHANGED <<set, err, queue>> /\ Return(p)
    BY <1>2 DEF KeysWritten
  <2> QED BY <2>2, <2>3, ReturnStep, StaysTyped DEF IInv, TypeOK
<1> QED BY <1>1, <1>2

(* A lock is taken when its bytes are free for everyone. *)
LEMMA HeldMore ==
  ASSUME IInv, NEW p \in Procs, NEW t \in Part, ~LT!Held(held[p], t),
         ~LT!Refused(held[p], t), Free(t),
         held' = [held EXCEPT ![p] = LT!Take(held[p], t)]
  PROVE  held' \in [Procs -> LT!Locks] /\ LocksGood' /\ Apart'
<1> DEFINE g == LT!Take(held[p], t)
           B == LT!BytesOf(t)
<1>1. \A q \in Procs : B \cap held[q].bytes = {}
  BY DEF Free
<1>2. Good(g) /\ g.bytes = held[p].bytes \cup B
  BY <1>1, TakeGood DEF IInv, LocksGood
<1>3. held' = [held EXCEPT ![p] = g] /\ held \in [Procs -> LT!Locks]
  BY DEF IInv, TypeOK
<1> HIDE DEF g, B
<1>4. held' \in [Procs -> LT!Locks] /\ LocksGood'
  BY <1>2, <1>3 DEF IInv, LocksGood, Good
<1>5. \A q \in Procs : q # p => held'[q] = held[q]
  BY <1>3
<1>6. held'[p].bytes = held[p].bytes \cup B
  BY <1>2, <1>3
<1>7. Apart'
  <2> SUFFICES ASSUME NEW q \in Procs, NEW s \in Procs, q # s
               PROVE  held'[q].bytes \cap held'[s].bytes = {}
    BY DEF Apart
  <2>1. held[q].bytes \cap held[s].bytes = {}
    BY DEF IInv, Apart
  <2> QED BY <1>1, <1>5, <1>6, <2>1
<1> QED BY <1>4, <1>7

(* A group goes on with the next lock of its queue. *)
LEMMA GroupNextStep ==
  ASSUME IInv, NEW p \in Procs, call[p].op = "group", NEW i \in Nat, i >= 1, NEW got \in Seq(Wanted),
         queue' \in [Procs -> Seq(Wanted)],
         \A r \in Procs : r # p => queue'[r] = queue[r],
         GroupNext(p, queue'[p], i, got)
  PROVE  call' \in [Procs -> Calls] /\ \A r \in Procs : CallFits(call'[r], queue'[r])
<1> DEFINE q == queue'[p]
           todo == IF i <= Len(q) THEN Parts(q[i]) ELSE <<>>
           c == [call[p] EXCEPT !.at = i, !.got = got, !.left = attempts(p), !.todo = todo]
<1>1. call[p] \in Calls /\ attempts(p) \in Int /\ CallFits(call[p], queue[p])
      /\ call \in [Procs -> Calls]
  BY DEF IInv, TypeOK, attempts, Tries, WAIT4EVER
<1>2. q \in Seq(Wanted)
  OBVIOUS
<1>3. todo \in Seq(Part)
  <2>1. CASE i <= Len(q)
    <3>1. q[i] \in Wanted
      BY <1>2, <2>1
    <3> QED BY <2>1, <3>1, PartsOf
  <2>2. CASE ~(i <= Len(q))
    BY <2>2
  <2> QED BY <2>1, <2>2
<1>4. todo # <<>> => i <= Len(q)
  OBVIOUS
<1>5. call' = [call EXCEPT ![p] = c]
  BY <1>1 DEF GroupNext
<1> HIDE DEF q, todo
<1>6. c \in Calls
  BY <1>1, <1>3, NextIsACall
<1>7. c.op = call[p].op /\ c.data = call[p].data /\ c.at = i /\ c.todo = todo
  BY <1>1 DEF Calls
<1> HIDE DEF c
<1>8. CallFits(c, q)
  BY <1>1, <1>4, <1>7 DEF CallFits
<1> QED BY <1>5, <1>6, <1>8, CallStep DEF q

(* The locks of a failed group are given back one by one. *)
LEMMA GroupUndoStep ==
  ASSUME IInv, NEW p \in Procs, NEW rc, call[p].op = "group",
         rc = "error" => call[p].todo # <<>>, GroupUndo(p, rc)
  PROVE  IInv'
<1> DEFINE i == IF rc = "error" THEN call[p].at ELSE 1
           c == [Idle EXCEPT !.op = "undo", !.at = i, !.got = call[p].got,
                             !.saved = call[p].saved, !.base = call[p].base]
<1>1. /\ call[p] \in Calls /\ err \in [Procs -> BOOLEAN] /\ CallFits(call[p], queue[p])
      /\ queue[p] \in Seq(Wanted)
  BY DEF IInv, TypeOK
<1>2. /\ call[p].got \in Seq(Wanted) /\ call[p].saved \in Autos
      /\ call[p].base \in SUBSET AllBytes /\ "undo" \in Ops
  BY <1>1 DEF Calls, Ops
<1>a. i \in Nat /\ i \in 1 .. Len(queue[p]) + 1
  BY <1>1 DEF CallFits, Calls
<1> HIDE DEF i
<1>3. c \in Calls
  BY <1>2, <1>a, IdleIsACall DEF Calls
<1>b. c.op = "undo" /\ c.at = i
  BY DEF Idle
<1>4. CallFits(c, queue[p])
  BY <1>a, <1>b DEF CallFits
<1>5. call' = [call EXCEPT ![p] = c] /\ UNCHANGED <<held, set, queue>> /\ err' \in [Procs -> BOOLEAN]
  BY <1>1 DEF GroupUndo, i
<1> HIDE DEF c
<1>6. call' \in [Procs -> Calls] /\ \A q \in Procs : CallFits(call'[q], queue'[q])
  BY <1>3, <1>4, <1>5, CallStep, StaysTyped
<1> QED BY <1>5, <1>6, HeldSame, StaysTyped DEF IInv, TypeOK

LEMMA UndoStep ==
  ASSUME IInv, NEW p \in Procs, Undo(p)
  PROVE  IInv'
<1> DEFINE got == call[p].got
           n == Len(got)
<1>1. call[p] \in Calls /\ got \in Seq(Wanted) /\ call[p].saved \in Autos
      /\ queue \in [Procs -> Seq(Wanted)] /\ CallFits(call[p], queue[p]) /\ call[p].op = "undo"
  BY DEF IInv, TypeOK, Calls, Undo
<1>2. CASE /\ got # <<>>
           /\ held' = [held EXCEPT ![p] = GroupUnlock(@, got[n])]
           /\ queue' = [queue EXCEPT ![p] = InsertAt(@, call[p].at, got[n])]
           /\ call' = [call EXCEPT ![p].got = SubSeq(got, 1, n - 1)]
           /\ UNCHANGED <<set, err>>
  <2> DEFINE c == [call[p] EXCEPT !.got = SubSeq(got, 1, n - 1)]
  <2>1. got[n] \in Wanted /\ SubSeq(got, 1, n - 1) \in Seq(Wanted)
    BY <1>1, <1>2
  <2>2. held' \in [Procs -> LT!Locks] /\ LocksGood' /\ Apart'
    BY <1>2, <2>1, GroupUnlockLess, HeldLess DEF IInv, LocksGood
  <2>3. /\ InsertAt(queue[p], call[p].at, got[n]) \in Seq(Wanted)
        /\ Len(InsertAt(queue[p], call[p].at, got[n])) = Len(queue[p]) + 1
    <3> DEFINE q == queue[p]
               i == call[p].at
               x == got[n]
    <3>1. q \in Seq(Wanted) /\ i \in 1 .. Len(q) + 1 /\ x \in Wanted
      BY <1>1, <2>1 DEF CallFits
    <3> HIDE DEF q, i, x
    <3>2. /\ SubSeq(q, 1, i - 1) \in Seq(Wanted) /\ Len(SubSeq(q, 1, i - 1)) = i - 1
          /\ SubSeq(q, i, Len(q)) \in Seq(Wanted) /\ Len(SubSeq(q, i, Len(q))) = Len(q) - i + 1
      BY <3>1, SubSeqProperties
    <3>3. <<x>> \in Seq(Wanted) /\ Len(<<x>>) = 1
      BY <3>1
    <3>4. InsertAt(q, i, x) = SubSeq(q, 1, i - 1) \o <<x>> \o SubSeq(q, i, Len(q))
      BY DEF InsertAt
    <3>5. /\ InsertAt(q, i, x) \in Seq(Wanted)
          /\ Len(InsertAt(q, i, x)) = (i - 1) + 1 + (Len(q) - i + 1)
      BY <3>2, <3>3, <3>4
    <3>6. InsertAt(q, i, x) \in Seq(Wanted) /\ Len(InsertAt(q, i, x)) = Len(q) + 1
      BY <3>1, <3>5
    <3> QED BY <3>6 DEF q, i, x
  <2>4. queue' \in [Procs -> Seq(Wanted)] /\ \A q \in Procs : q # p => queue'[q] = queue[q]
    BY <1>1, <1>2, <2>3
  <2>5. c \in Calls /\ call' = [call EXCEPT ![p] = c]
    BY <1>1, <1>2, <2>1 DEF Calls
  <2>6. CallFits(c, queue'[p])
    <3>1. c.op = "undo" /\ c.at = call[p].at
      BY <1>1 DEF Calls
    <3> HIDE DEF c
    <3>2. queue'[p] = InsertAt(queue[p], call[p].at, got[n]) /\ queue[p] \in Seq(Wanted)
      BY <1>1, <1>2
    <3> QED BY <1>1, <2>3, <3>1, <3>2 DEF CallFits
  <2> HIDE DEF c
  <2>7. call' \in [Procs -> Calls] /\ \A q \in Procs : CallFits(call'[q], queue'[q])
    BY <2>4, <2>5, <2>6, CallStep
  <2> QED BY <1>2, <2>2, <2>4, <2>7, StaysTyped DEF IInv, TypeOK
<1>3. CASE /\ got = <<>>
           /\ set' = [set EXCEPT ![p].auto = call[p].saved]
           /\ Return(p) /\ UNCHANGED <<held, err, queue>>
  BY <1>1, <1>3, ReturnStep, AutoStays, HeldSame, StaysTyped DEF IInv, TypeOK
<1> QED BY <1>2, <1>3 DEF Undo

(* The end of a request, or its next part. *)
LEMMA AdvanceStep ==
  ASSUME IInv, NEW p \in Procs, call[p].todo # <<>>, Advance(p)
  PROVE  /\ UNCHANGED <<set, err>> /\ queue' \in [Procs -> Seq(Wanted)]
         /\ call' \in [Procs -> Calls]
         /\ \A q \in Procs : CallFits(call'[q], queue'[q])
<1>1. /\ call[p] \in Calls /\ CallFits(call[p], queue[p])
      /\ queue \in [Procs -> Seq(Wanted)] /\ call \in [Procs -> Calls]
      /\ attempts(p) \in Int
  BY DEF IInv, TypeOK, attempts, Tries, WAIT4EVER
<1>2. UNCHANGED <<set, err>>
  BY DEF Advance
<1>3. CASE Return(p) /\ UNCHANGED queue
  BY <1>1, <1>2, <1>3, ReturnStep
<1>4. CASE /\ call[p].op = "keys"
           /\ call' = [call EXCEPT ![p].todo = <<>>] /\ UNCHANGED queue
  <2> DEFINE c == [call[p] EXCEPT !.todo = <<>>]
  <2>1. c \in Calls /\ call' = [call EXCEPT ![p] = c]
    <3>1. <<>> \in Seq(Part)
      OBVIOUS
    <3> QED BY <1>1, <1>4, <3>1 DEF Calls
  <2>2. c.op = "keys" /\ c.data = call[p].data
    BY <1>1, <1>4 DEF Calls
  <2> HIDE DEF c
  <2>3. CallFits(c, queue[p])
    BY <1>1, <1>4, <2>2 DEF CallFits
  <2> QED BY <1>1, <1>2, <1>4, <2>1, <2>3, CallStep
<1>5. CASE /\ call[p].op = "group"
           /\ queue' = [queue EXCEPT ![p] = RemoveAt(@, call[p].at)]
           /\ GroupNext(p, queue'[p], call[p].at,
                        Append(call[p].got, queue[p][call[p].at]))
  <2> DEFINE q == queue[p]
             i == call[p].at
  <2>1. q \in Seq(Wanted) /\ i \in Nat /\ i >= 1 /\ i <= Len(q) /\ call[p].got \in Seq(Wanted)
    BY <1>1, <1>5 DEF CallFits, Calls
  <2>2. q[i] \in Wanted
    BY <2>1
  <2>3. RemoveAt(q, i) \in Seq(Wanted) /\ Append(call[p].got, q[i]) \in Seq(Wanted)
    <3> HIDE DEF q, i
    <3>1. SubSeq(q, 1, i - 1) \in Seq(Wanted) /\ SubSeq(q, i + 1, Len(q)) \in Seq(Wanted)
      BY <2>1, SubSeqProperties
    <3> QED BY <2>1, <2>2, <3>1 DEF RemoveAt
  <2>4. queue' \in [Procs -> Seq(Wanted)] /\ \A r \in Procs : r # p => queue'[r] = queue[r]
    BY <1>1, <1>5, <2>3
  <2> QED BY <1>2, <1>5, <2>1, <2>3, <2>4, GroupNextStep
<1>6. CASE /\ call' = [call EXCEPT ![p].todo = Tail(@), ![p].left = attempts(p)]
           /\ UNCHANGED queue
  <2> DEFINE c == [call[p] EXCEPT !.todo = Tail(@), !.left = attempts(p)]
  <2>1. Tail(call[p].todo) \in Seq(Part)
    BY <1>1 DEF Calls
  <2>2. c \in Calls
    BY <1>1, <2>1 DEF Calls
  <2>3. call' = [call EXCEPT ![p] = c]
    BY <1>1, <1>6
  <2>4. CallFits(c, queue[p])
    <3>1. c.op = call[p].op /\ c.data = call[p].data /\ c.at = call[p].at
      BY <1>1 DEF Calls
    <3> HIDE DEF c
    <3> QED BY <1>1, <3>1 DEF CallFits
  <2> HIDE DEF c
  <2> QED BY <1>1, <1>2, <1>6, <2>2, <2>3, <2>4, CallStep
<1> QED BY <1>3, <1>4, <1>5, <1>6 DEF Advance, Done

(* A request that fails gives back what its caller gives back. *)
LEMMA FailStep ==
  ASSUME IInv, NEW p \in Procs, NEW rc, call[p].todo # <<>>, Fail(p, rc)
  PROVE  IInv'
<1>1. call[p] \in Calls /\ CallFits(call[p], queue[p])
  BY DEF IInv, TypeOK
<1>2. CASE /\ call[p].op # "group"
           /\ held' = [held EXCEPT ![p] = IF call[p].op = "all"
                THEN AfterFailure(p, call[p].data, rc) ELSE @]
           /\ err' = [err EXCEPT ![p] = rc = "error"]
           /\ Return(p) /\ UNCHANGED <<set, queue>>
  <2>1. Less(held[p], held[p])
    BY DEF IInv, LocksGood, Less
  <2>2. call[p].op = "all" => Less(AfterFailure(p, call[p].data, rc), held[p])
    BY <1>1, AfterFailureLess DEF CallFits
  <2>3. held' \in [Procs -> LT!Locks] /\ LocksGood' /\ Apart'
    BY <1>2, <2>1, <2>2, HeldLess
  <2>4. err' \in [Procs -> BOOLEAN] /\ queue' \in [Procs -> Seq(Wanted)]
    BY <1>2 DEF IInv, TypeOK
  <2>5. call' \in [Procs -> Calls] /\ \A q \in Procs : CallFits(call'[q], queue'[q])
    BY <1>2, <2>4, ReturnStep
  <2> QED BY <1>2, <2>3, <2>4, <2>5, StaysTyped DEF IInv, TypeOK
<1>3. CASE call[p].op = "group" /\ GroupUndo(p, rc)
  BY <1>3, GroupUndoStep
<1>4. CASE /\ call[p].op = "group" /\ rc = "locked"
           /\ GroupNext(p, queue[p],
                IF single(p) = 1 THEN Len(queue[p]) + 1 ELSE call[p].at + 1,
                call[p].got)
           /\ UNCHANGED <<held, err, set, queue>>
  <2> DEFINE i == IF single(p) = 1 THEN Len(queue[p]) + 1 ELSE call[p].at + 1
  <2>1. queue \in [Procs -> Seq(Wanted)] /\ call[p].got \in Seq(Wanted) /\ call[p].at \in Nat
    BY <1>1 DEF IInv, TypeOK, Calls
  <2>2. i \in Nat /\ i >= 1
    BY <2>1
  <2> HIDE DEF i
  <2>3. call' \in [Procs -> Calls] /\ \A r \in Procs : CallFits(call'[r], queue'[r])
    BY <1>4, <2>1, <2>2, GroupNextStep DEF i
  <2> QED BY <1>4, <2>3, HeldSame, StaysTyped DEF IInv, TypeOK
<1> QED BY <1>2, <1>3, <1>4 DEF Fail

LEMMA TryStep ==
  ASSUME IInv, NEW p \in Procs, Try(p)
  PROVE  IInv'
<1> DEFINE t == call[p].todo[1]
           h == held[p]
<1>1. call[p] \in Calls /\ CallFits(call[p], queue[p]) /\ call \in [Procs -> Calls]
      /\ call[p].todo # <<>>
  BY DEF IInv, TypeOK, Try
<1>2. t \in Part
  BY <1>1 DEF Calls
<1>3. CASE LT!Held(h, t) /\ UNCHANGED held /\ Advance(p)
  BY <1>1, <1>3, AdvanceStep, HeldSame, StaysTyped DEF IInv, TypeOK
<1>4. ASSUME NEW rc, Fail(p, rc) PROVE IInv'
  BY <1>1, <1>4, FailStep
<1>5. CASE /\ ~LT!Held(h, t) /\ ~LT!Refused(h, t) /\ Free(t)
           /\ held' = [held EXCEPT ![p] = LT!Take(h, t)]
           /\ Advance(p)
  <2>1. held' \in [Procs -> LT!Locks] /\ LocksGood' /\ Apart'
    BY <1>2, <1>5, HeldMore
  <2> QED BY <1>1, <1>5, <2>1, AdvanceStep, StaysTyped DEF IInv, TypeOK
<1>6. CASE /\ call' = [call EXCEPT ![p].left = @ - 1]
           /\ UNCHANGED <<set, held, err, queue>>
  <2> DEFINE c == [call[p] EXCEPT !.left = @ - 1]
  <2>1. call[p].left - 1 \in Int
    BY <1>1 DEF Calls
  <2>2. c \in Calls /\ call' = [call EXCEPT ![p] = c]
    BY <1>1, <1>6, <2>1 DEF Calls
  <2>3. CallFits(c, queue[p])
    BY <1>1 DEF CallFits, Calls
  <2> HIDE DEF c
  <2>4. call' \in [Procs -> Calls] /\ \A q \in Procs : CallFits(call'[q], queue'[q])
    BY <1>6, <2>2, <2>3, CallStep, StaysTyped
  <2> QED BY <1>6, <2>4, HeldSame, StaysTyped DEF IInv, TypeOK
<1> HIDE DEF t, h
<1> QED BY <1>3, <1>4, <1>5, <1>6 DEF Try, t, h

LEMMA QueueStep ==
  ASSUME IInv, NEW p \in Procs, QueueAdd(p) \/ QueueClear(p)
  PROVE  IInv'
<1>1. /\ UNCHANGED <<held, set, err, call>> /\ ~Calling(p)
      /\ call \in [Procs -> Calls] /\ queue \in [Procs -> Seq(Wanted)]
  BY DEF QueueAdd, QueueClear, IInv, TypeOK
<1>2. PICK q \in Seq(Wanted) : queue' = [queue EXCEPT ![p] = q]
  <2>1. CASE QueueAdd(p)
    <3>1. PICK q \in Queues : queue' = [queue EXCEPT ![p] = Reverse(q)]
      BY <2>1 DEF QueueAdd
    <3>2. q \in Seq(Wanted)
      BY LocksAssumption
    <3>3. Reverse(q) \in Seq(Wanted)
      BY <3>2 DEF Reverse
    <3> QED BY <3>1, <3>3
  <2>2. CASE QueueClear(p)
    <3>1. <<>> \in Seq(Wanted)
      OBVIOUS
    <3> QED BY <2>2, <3>1 DEF QueueClear
  <2> QED BY <2>1, <2>2
<1>3. queue' \in [Procs -> Seq(Wanted)] /\ \A r \in Procs : r # p => queue'[r] = queue[r]
  BY <1>1, <1>2
<1>4. CallFits(call[p], queue'[p])
  BY <1>1 DEF Calling, CallFits
<1>5. \A r \in Procs : CallFits(call'[r], queue'[r])
  BY <1>1, <1>3, <1>4 DEF IInv, TypeOK
<1> QED BY <1>1, <1>3, <1>5, HeldSame, StaysTyped DEF IInv, TypeOK

LEMMA GroupStep ==
  ASSUME IInv, NEW p \in Procs, GroupStart(p) \/ GroupRound(p)
  PROVE  IInv'
<1>1. /\ call[p] \in Calls /\ CallFits(call[p], queue[p]) /\ call \in [Procs -> Calls]
      /\ queue \in [Procs -> Seq(Wanted)] /\ auto(p) \in Autos /\ attempts(p) \in Int
      /\ Good(held[p])
  BY DEF IInv, TypeOK, LocksGood, auto, attempts, Tries, WAIT4EVER
<1>2. CASE GroupStart(p)
  <2> DEFINE h == IF auto(p) = "ALL" THEN LT!UnlockAll(held[p], FALSE) ELSE held[p]
             n == Len(queue[p]) + 1
             c == [Idle EXCEPT !.op = "group", !.at = n, !.round = -1,
                               !.saved = auto(p), !.base = h.bytes]
  <2>1. Less(h, held[p])
    BY <1>1, UnlockAllLess DEF Less
  <2> HIDE DEF h
  <2>2. held' = [held EXCEPT ![p] = h] /\ call' = [call EXCEPT ![p] = c]
        /\ set' = [set EXCEPT ![p].auto = "OFF"] /\ UNCHANGED <<err, queue>>
    BY <1>2 DEF GroupStart, h
  <2>3. held' \in [Procs -> LT!Locks] /\ LocksGood' /\ Apart'
    BY <2>1, <2>2, HeldLess
  <2>4. n \in Nat /\ n >= 1 /\ h.bytes \in SUBSET AllBytes /\ -1 \in Int
    BY <1>1, <2>1 DEF Less, Good, LT!Locks, AllBytes
  <2>5. c \in Calls
    <3> HIDE DEF n
    <3> QED BY <1>1, <2>4, GroupIsACall
  <2>6. CallFits(c, queue[p])
    <3> HIDE DEF n
    <3>1. c.op = "group" /\ c.at = n /\ c.todo = <<>>
      BY DEF Idle
    <3> HIDE DEF c
    <3> QED BY <2>4, <3>1 DEF CallFits
  <2> HIDE DEF c
  <2>7. call' \in [Procs -> Calls] /\ \A r \in Procs : CallFits(call'[r], queue'[r])
    BY <2>2, <2>5, <2>6, CallStep, StaysTyped
  <2>8. set' \in [Procs -> [auto : Autos, attempts : Tries, single : Tries]]
    BY <2>2, AutoStays DEF Autos
  <2> QED BY <2>2, <2>3, <2>7, <2>8, StaysTyped DEF IInv, TypeOK
<1>3. CASE GroupRound(p)
  <2> DEFINE n == call[p].round + 1
             m == IF single(p) = WAIT4EVER THEN 0 ELSE n
  <2>1. CASE /\ set' = [set EXCEPT ![p].auto = call[p].saved]
             /\ Return(p) /\ UNCHANGED <<held, err, queue>>
    <3>1. call[p].saved \in Autos
      BY <1>1 DEF Calls
    <3> QED BY <2>1, <3>1, ReturnStep, AutoStays, HeldSame, StaysTyped DEF IInv, TypeOK
  <2>2. CASE GroupUndo(p, "locked")
    BY <1>3, <2>2, GroupUndoStep DEF GroupRound
  <2>3. CASE /\ queue[p] # <<>>
             /\ call' = [call EXCEPT ![p] =
                  [@ EXCEPT !.round = m, !.at = 1, !.left = attempts(p),
                            !.todo = Parts(queue[p][1])]]
             /\ UNCHANGED <<held, set, err, queue>>
    <3> DEFINE todo == Parts(queue[p][1])
               c == [call[p] EXCEPT !.round = m, !.at = 1, !.left = attempts(p), !.todo = todo]
    <3>1. m \in Int
      BY <1>1 DEF Calls
    <3>2. queue[p][1] \in Wanted /\ Len(queue[p]) >= 1
      BY <1>1, <2>3
    <3>3. todo \in Seq(Part)
      BY <3>2, PartsOf
    <3> HIDE DEF m, todo
    <3>4. c \in Calls
      BY <1>1, <3>1, <3>3 DEF Calls
    <3>5. c.op = call[p].op /\ c.data = call[p].data /\ c.at = 1
      BY <1>1 DEF Calls
    <3>6. call' = [call EXCEPT ![p] = c]
      BY <1>1, <2>3 DEF todo
    <3> HIDE DEF c
    <3>7. CallFits(c, queue[p])
      <4> HIDE DEF n
      <4>1. c.at >= 1 /\ c.at <= Len(queue[p])
        BY <3>2, <3>5
      <4>2. c.op \in {"all", "keys", "unlock", "unlock index"} => c.data \in Data
        BY <1>1, <3>5 DEF CallFits
      <4>3. c.op = "group"
        BY <1>3, <3>5 DEF GroupRound
      <4> QED BY <4>1, <4>2, <4>3 DEF CallFits
    <3>8. call' \in [Procs -> Calls] /\ \A r \in Procs : CallFits(call'[r], queue'[r])
      BY <2>3, <3>4, <3>6, <3>7, CallStep, StaysTyped
    <3> QED BY <2>3, <3>8, HeldSame, StaysTyped DEF IInv, TypeOK
  <2> QED BY <1>3, <2>1, <2>2, <2>3 DEF GroupRound
<1> QED BY <1>2, <1>3

LEMMA UnlockStep ==
  ASSUME IInv, NEW p \in Procs,
         \/ Unlock(p) \/ UnlockMemo(p) \/ UnlockIndex(p) \/ UnlockAll(p)
         \/ UnlockAppend(p) \/ ClearError(p)
  PROVE  IInv'
<1>1. /\ call[p] \in Calls /\ CallFits(call[p], queue[p]) /\ call \in [Procs -> Calls]
      /\ Good(held[p]) /\ err \in [Procs -> BOOLEAN] /\ err[p] \in BOOLEAN
  BY DEF IInv, TypeOK, LocksGood
<1>2. CASE Unlock(p)
  <2>1. PICK d \in DataOf(p) :
          /\ held' = [held EXCEPT ![p] =
               IF LT!HasLocks(@, d) THEN LT!UnlockData(@, d) ELSE @]
          /\ call' = [call EXCEPT ![p] = [Idle EXCEPT !.op = "unlock", !.data = d]]
    BY <1>2 DEF Unlock
  <2> DEFINE g == IF LT!HasLocks(held[p], d) THEN LT!UnlockData(held[p], d) ELSE held[p]
             c == [Idle EXCEPT !.op = "unlock", !.data = d]
  <2>2. d \in Data
    BY DEF DataOf
  <2>3. Less(g, held[p])
    BY <1>1, <2>2, UnlockDataLess DEF Less
  <2>4. held' = [held EXCEPT ![p] = g]
    BY <2>1 DEF IInv, TypeOK
  <2> HIDE DEF g
  <2>5. held' \in [Procs -> LT!Locks] /\ LocksGood' /\ Apart'
    BY <2>3, <2>4, HeldLess
  <2>6. c \in Calls
    BY <2>2, IdleIsACall DEF Calls, Ops
  <2>7. CallFits(c, queue[p])
    BY <2>2 DEF CallFits, Idle
  <2>8. UNCHANGED <<set, err, queue>>
    BY <1>2 DEF Unlock
  <2> HIDE DEF c
  <2>9. call' \in [Procs -> Calls] /\ \A r \in Procs : CallFits(call'[r], queue'[r])
    BY <2>1, <2>6, <2>7, <2>8, CallStep, StaysTyped DEF c
  <2> QED BY <2>5, <2>8, <2>9, StaysTyped DEF IInv, TypeOK
<1>3. CASE UnlockMemo(p)
  <2> DEFINE c == [call[p] EXCEPT !.op = "unlock index"]
  <2>1. c \in Calls /\ call' = [call EXCEPT ![p] = c]
    BY <1>1, <1>3 DEF UnlockMemo, Calls, Ops
  <2>2. c.op = "unlock index" /\ c.data = call[p].data
    BY <1>1 DEF Calls
  <2> HIDE DEF c
  <2>3. CallFits(c, queue[p])
    BY <1>1, <1>3, <2>2 DEF CallFits, UnlockMemo
  <2>4. held' \in [Procs -> LT!Locks] /\ LocksGood' /\ Apart'
    BY <1>1, <1>3, UnlockMemoLess, HeldLess DEF UnlockMemo
  <2>5. UNCHANGED <<set, err, queue>>
    BY <1>3 DEF UnlockMemo
  <2>6. call' \in [Procs -> Calls] /\ \A r \in Procs : CallFits(call'[r], queue'[r])
    BY <2>1, <2>3, <2>5, CallStep, StaysTyped
  <2> QED BY <2>4, <2>5, <2>6, StaysTyped DEF IInv, TypeOK
<1>4. CASE UnlockIndex(p)
  <2>1. call[p].data \in Data
    BY <1>1, <1>4 DEF UnlockIndex, CallFits
  <2>2. held' \in [Procs -> LT!Locks] /\ LocksGood' /\ Apart'
    BY <1>1, <1>4, <2>1, UnlockIndexLess, HeldLess DEF UnlockIndex
  <2>3. UNCHANGED <<set, err, queue>> /\ Return(p)
    BY <1>4 DEF UnlockIndex
  <2> QED BY <2>2, <2>3, ReturnStep, StaysTyped DEF IInv, TypeOK
<1>5. CASE UnlockAll(p)
  <2>1. held' \in [Procs -> LT!Locks] /\ LocksGood' /\ Apart'
    BY <1>1, <1>5, UnlockAllLess, HeldLess DEF UnlockAll
  <2> QED BY <1>5, <2>1, StaysTyped DEF UnlockAll, IInv, TypeOK
<1>6. CASE UnlockAppend(p)
  <2>1. PICK d \in Data : held' = [held EXCEPT ![p] = LT!UnlockAppend(@, d)]
    BY <1>6 DEF UnlockAppend, DataOf
  <2>2. held' \in [Procs -> LT!Locks] /\ LocksGood' /\ Apart'
    BY <1>1, <2>1, UnlockAppendLess, HeldLess
  <2> QED BY <1>6, <2>2, StaysTyped DEF UnlockAppend, IInv, TypeOK
<1>7. CASE ClearError(p)
  BY <1>1, <1>7, HeldSame, StaysTyped DEF ClearError, IInv, TypeOK
<1> QED BY <1>2, <1>3, <1>4, <1>5, <1>6, <1>7

LEMMA NoLocksGood == Good(LT!NoLocks) /\ LT!NoLocks.bytes = {}
<1> DEFINE h == LT!NoLocks
<1>1. /\ h \in LT!Locks /\ h.file = None /\ h.append = None /\ h.index = None /\ ~h.memo
      /\ h.count = 0 /\ h.bytes = {} /\ h.recs = [d \in Data |-> {}]
  BY DEF LT!NoLocks, LT!Locks
<1> HIDE DEF h
<1>2. Locked(h) = {} /\ Cardinality(Locked(h)) = 0
  BY <1>1, FS_EmptySet DEF Locked
<1>3. \A x : x \notin Owned(h)
  BY <1>1, OwnedBytes
<1> QED BY <1>1, <1>2, <1>3 DEF Good, Single, h

LEMMA InitIInv == Init => IInv
<1> SUFFICES ASSUME Init PROVE IInv
  OBVIOUS
<1>1. held \in [Procs -> LT!Locks] /\ LocksGood /\ Apart
  BY NoLocksGood DEF Init, Good, LocksGood, Apart
<1>2. set \in [Procs -> [auto : Autos, attempts : Tries, single : Tries]]
  BY LocksAssumption DEF Init, Autos, Tries
<1>3. err \in [Procs -> BOOLEAN] /\ queue \in [Procs -> Seq(Wanted)]
  BY DEF Init
<1>4. call \in [Procs -> Calls] /\ \A p \in Procs : CallFits(call[p], queue[p])
  BY IdleIsACall DEF Init, CallFits, Idle
<1> QED BY <1>1, <1>2, <1>3, <1>4 DEF IInv, TypeOK

LEMMA NextIInv == IInv /\ [Next]_vars => IInv'
<1> SUFFICES ASSUME IInv, [Next]_vars PROVE IInv'
  OBVIOUS
<1>1. ASSUME NEW p \in Procs, LockRecord(p) \/ LockAppend(p) \/ LockFile(p) \/ LockAll(p)
      PROVE IInv'
  BY <1>1, LockStep
<1>2. ASSUME NEW p \in Procs, WriteKeys(p) \/ KeysWritten(p) PROVE IInv'
  BY <1>2, WriteKeysStep
<1>3. ASSUME NEW p \in Procs, Try(p) \/ Undo(p) PROVE IInv'
  BY <1>3, TryStep, UndoStep
<1>4. ASSUME NEW p \in Procs, QueueAdd(p) \/ QueueClear(p) \/ GroupStart(p) \/ GroupRound(p)
      PROVE IInv'
  BY <1>4, QueueStep, GroupStep
<1>5. ASSUME NEW p \in Procs,
             \/ Unlock(p) \/ UnlockMemo(p) \/ UnlockIndex(p) \/ UnlockAll(p)
             \/ UnlockAppend(p) \/ ClearError(p)
      PROVE IInv'
  BY <1>5, UnlockStep
<1>6. CASE UNCHANGED vars
  BY <1>6, HeldSame, StaysTyped DEF vars, IInv, TypeOK
<1> QED BY <1>1, <1>2, <1>3, <1>4, <1>5, <1>6 DEF Next

-----------------------------------------------------------------------------

(* The inductive invariant: the types, for each process what is written    *)
(* down is what LockFile granted and no record is locked twice, and no two *)
(* processes were granted the same byte.                                   *)
THEOREM LocksInvariant == Spec => []IInv
BY InitIInv, NextIInv, PTL DEF Spec

(* Every variable keeps its type, and a call its place in its queue.       *)
THEOREM LocksTyped == Spec => []TypeOK
<1>1. IInv => TypeOK
  BY DEF IInv
<1> QED BY <1>1, LocksInvariant, PTL

(* After every step of every call, also one that fails half way, each byte *)
(* that LockFile granted is written down in a field, nothing is written    *)
(* down that was not granted, and recordLockWriteCount counts the records. *)
THEOREM LocksMatch == Spec => []LocksMatchTheFiles
<1>1. IInv => LocksMatchTheFiles
  BY DEF IInv, LocksGood, Good, LocksMatchTheFiles, Owned, Locked
<1> QED BY <1>1, LocksInvariant, PTL

(* No two users of the table, in one process or in two, have the same      *)
(* record, both the append byte, or anything under the other's file lock:  *)
(* between processes because a byte is granted once, inside a process      *)
(* because the fields are asked before LockFile is.                        *)
THEOREM LocksExclude == Spec => []Exclusive
<1>1. IInv => Exclusive
  <2> SUFFICES ASSUME IInv, NEW p \in Procs, NEW q \in Procs, NEW d \in Data, NEW e \in Data,
                      LockId(d) # LockId(e)
               PROVE  /\ held[p].recs[d] \cap held[q].recs[e] = {}
                      /\ ~(held[p].append = d /\ held[q].append = e)
                      /\ held[p].file = d => /\ held[q].file # e /\ held[q].append # e
                                             /\ held[q].recs[e] = {}
    BY DEF Exclusive
  <2> DEFINE h == held[p]
             g == held[q]
  <2>1. Good(h) /\ Good(g) /\ d # e /\ d # None /\ e # None
    BY LocksAssumption DEF IInv, LocksGood
  <2>2. CASE p = q
    BY <2>1, <2>2 DEF Good, Single
  <2>3. CASE p # q
    <3>1. \A x \in Owned(h) : x \notin Owned(g)
      BY <2>1, <2>3 DEF IInv, Apart, Good
    <3> HIDE DEF h, g
    <3>2. \A r \in h.recs[d] : LT!RecByte(r) \in Owned(h) /\ r \in Recs
      BY <2>1, OwnedBytes DEF Good, LT!Locks
    <3>3. \A r \in g.recs[e] : LT!RecByte(r) \in Owned(g) /\ r \in Recs
      BY <2>1, OwnedBytes DEF Good, LT!Locks
    <3>4. /\ h.append = d => LT!AppendByte \in Owned(h)
          /\ g.append = e => LT!AppendByte \in Owned(g)
          /\ h.file = d => \A x \in LT!FileBytes : x \in Owned(h)
          /\ g.file = e => \A x \in LT!FileBytes : x \in Owned(g)
      BY <2>1, OwnedBytes
    <3>5. h.recs[d] \cap g.recs[e] = {}
      BY <3>1, <3>2, <3>3
    <3>6. ~(h.append = d /\ g.append = e)
      BY <3>1, <3>4
    <3>7. h.file = d => g.file # e /\ g.append # e /\ g.recs[e] = {}
      BY <3>1, <3>3, <3>4, BytesApart
    <3> QED BY <3>5, <3>6, <3>7 DEF h, g
  <2> QED BY <2>2, <2>3
<1> QED BY <1>1, LocksInvariant, PTL

------------------------------------------------------------------------------
(***************************************************************************)
(* What the calls promise to each other.  A second invariant relates the   *)
(* request a call is at to what its process holds.                         *)
(***************************************************************************)

(* What is left to take of a request: all of it, or, of the file with its  *)
(* memo and its indexes, what follows a part that is held.                 *)
TodoFits(h, todo, w) ==
  LET T(k) == LT!Target(k, w.data) IN
  \/ todo = Parts(w)
  \/ /\ w.kind = "all" /\ LT!Held(h, T("file"))
     /\ \/ todo = <<T("memo"), T("index")>>
        \/ LT!Held(h, T("memo")) /\ todo = <<T("index")>>

(* A call asks for what is left of its request.  A group has all its locks *)
(* of before, and nothing is given back on its own while it runs.          *)
Shape(h, s, c, q) ==
  /\ c.op \in {"idle", "undo", "unlock", "unlock index"} => c.todo = <<>>
  /\ c.op = "keys" => c.todo \in {<<>>, <<LT!Target("index", c.data)>>}
  /\ c.op = "one" => \E w \in Wanted : w.kind # "all" /\ c.todo = Parts(w)
  /\ c.op = "all" => TodoFits(h, c.todo, LT!Target("all", c.data))
  /\ c.op = "group" =>
       /\ c.todo = <<>> \/ TodoFits(h, c.todo, q[c.at])
       /\ \A i \in DOMAIN c.got : \A t \in ToSet(Parts(c.got[i])) : LT!Held(h, t)
  /\ c.op \in {"group", "undo"} => s.auto = "OFF"

(* Whoever waits with LOCK4ALL has nothing, or has the file and waits for  *)
(* the memo or the indexes of it.                                          *)
Waiting(h, s, c) ==
  c.op \in {"one", "all"} /\ s.auto = "ALL" =>
    \/ h.bytes = {}
    \/ c.op = "all" /\ h.file = c.data /\ c.todo # Parts(LT!Target("all", c.data))

(* With LOCK4ALL the index files are locked under the file lock of the     *)
(* same DATA4, or by the call that runs.                                   *)
IndexFits(h, s, c) ==
  LET e == h.index IN
  e # None /\ (s.auto = "ALL" \/ (c.op \in {"group", "undo"} /\ c.saved = "ALL")) =>
    /\ c.op \in {"idle", "one", "all", "group"} => h.file = e
    /\ c.op \in {"keys", "unlock", "unlock index"} => h.file = e \/ c.data = e
    /\ c.op \in {"group", "undo"} =>
         \E i \in DOMAIN c.got : c.got[i].kind = "all" /\ c.got[i].data = e

(* Every byte a group has more than before is in a lock it will give back. *)
Gives(h, w, x) ==
  \/ w.kind = "record" /\ w.rec \in h.recs[w.data] /\ x = LT!RecByte(w.rec)
  \/ w.kind = "append" /\ h.append = w.data /\ x = LT!AppendByte
  \/ w.kind = "file" /\ h.file = w.data /\ x \in LT!FileBytes
Covered(h, c) ==
  c.op \in {"group", "undo"} =>
    \A x \in h.bytes \ c.base : \E i \in DOMAIN c.got : Gives(h, c.got[i], x)
Simple(q) == \A i \in DOMAIN q : q[i].kind # "all"

(* No DATA4 shares its locks with a clone, as long as c4setShareCloneLocks *)
(* was not called; no queue asks for the file with its memo and indexes.   *)
NotShared == \A d, e \in Data : LockId(d) = LockId(e) => d = e
NoAll == \A q \in Queues : Simple(q)

Whole(h, s, c, q) ==
  /\ Shape(h, s, c, q)
  /\ NotShared => Waiting(h, s, c) /\ IndexFits(h, s, c)
  /\ NoAll => Simple(q) /\ Simple(c.got) /\ Covered(h, c)
Wholes == \A p \in Procs : Whole(held[p], set[p], call[p], queue[p])

-----------------------------------------------------------------------------
(* What is held stays held when something is taken.                        *)

Keeps(h, g) == \A u \in Part : LT!Held(h, u) => LT!Held(g, u)

LEMMA TakeRecordKeeps ==
  ASSUME NEW h, Good(h), NEW d \in Data, NEW r \in Recs, h.file = None
  PROVE  /\ LT!Held(LT!TakeRecord(h, d, r), LT!Record(d, r))
         /\ Keeps(h, LT!TakeRecord(h, d, r))
<1> DEFINE g == LT!TakeRecord(h, d, r)
           B == h.bytes \cup {LT!RecByte(r)}
           f == [h.recs EXCEPT ![d] = @ \cup {r}]
<1>1. /\ B \in SUBSET ({"dbf", "fpt", "cdx"} \X Nat)
      /\ f \in [Data -> SUBSET Recs] /\ h.count + 1 \in Int /\ h \in LT!Locks
  BY BytesApart DEF Good, LT!Locks
<1>2. g = LT!Counted(h, B, h.count + 1, f)
  BY DEF LT!TakeRecord
<1>3. r \in f[d] /\ \A e \in Data : h.recs[e] \subseteq f[e]
  BY DEF Good, LT!Locks
<1> HIDE DEF g, B, f
<1>4. /\ g.file = None /\ g.append = h.append /\ g.memo = h.memo /\ g.index = h.index
      /\ r \in g.recs[d] /\ \A e \in Data : h.recs[e] \subseteq g.recs[e]
  BY <1>1, <1>2, <1>3, CountedFacts
<1>5. LT!Held(g, LT!Record(d, r))
  BY <1>4 DEF LT!Held, LT!Record, LT!TestLock, LT!TestFile, LT!Whose, LT!TestRecord
<1>6. ASSUME NEW u \in Part, LT!Held(h, u) PROVE LT!Held(g, u)
  <2>1. CASE u.kind = "record"
    <3>1. u.data \in Data /\ \E e \in Data : u.rec \in h.recs[e] /\ LockId(e) = LockId(u.data)
      BY <1>6, <2>1 DEF LT!Held, LT!TestLock, LT!TestFile, LT!Whose, LT!TestRecord, Part
    <3>2. \E e \in Data : u.rec \in g.recs[e] /\ LockId(e) = LockId(u.data)
      BY <1>4, <3>1
    <3> QED BY <1>4, <2>1, <3>2 DEF LT!Held, LT!TestLock, LT!TestFile, LT!Whose, LT!TestRecord
  <2>2. CASE u.kind # "record"
    BY <1>4, <1>6, <2>2 DEF LT!Held, LT!TestFile, LT!TestAppend, Part
  <2> QED BY <2>1, <2>2
<1> QED BY <1>5, <1>6 DEF Keeps, g

LEMMA TakeKeeps ==
  ASSUME NEW h, Good(h), NEW t \in Part, ~LT!Held(h, t), ~LT!Refused(h, t)
  PROVE  LT!Held(LT!Take(h, t), t) /\ Keeps(h, LT!Take(h, t))
<1> DEFINE g == LT!Take(h, t)
           d == t.data
<1>0. h \in LT!Locks /\ d \in Data /\ d # None
  BY LocksAssumption DEF Good, Part
<1>1. CASE t.kind = "record"
  <2>1. h.file = None /\ t.rec \in Recs
    BY <1>1 DEF LT!Held, LT!Refused, LT!TestLock, LT!TestFile, LT!Whose, Part
  <2>2. t = LT!Record(d, t.rec) /\ g = LT!TakeRecord(h, d, t.rec)
    BY <1>1 DEF LT!Record, LT!Take, Part
  <2> QED BY <1>0, <2>1, <2>2, TakeRecordKeeps
<1>2. CASE t.kind = "append"
  <2>1. h.file = None /\ h.append = None
    BY <1>2 DEF LT!Held, LT!Refused, LT!TestFile, LT!TestAppend, LT!Whose
  <2>2. /\ g.file = h.file /\ g.append = d /\ g.recs = h.recs /\ g.memo = h.memo
        /\ g.index = h.index
    BY <1>0, <1>2 DEF LT!Locks, LT!Take, LT!TakeAppend, LT!Grant
  <2> HIDE DEF g
  <2>3. LT!Held(g, t)
    BY <1>0, <1>2, <2>1, <2>2 DEF LT!Held, LT!TestFile, LT!TestAppend, LT!Whose
  <2>4. \A u \in Part : LT!Held(h, u) => LT!Held(g, u)
    BY <2>1, <2>2 DEF LT!Held, LT!TestLock, LT!TestFile, LT!TestAppend, LT!TestRecord, LT!Whose, Part
  <2> QED BY <2>3, <2>4 DEF Keeps, g
<1>3. CASE t.kind = "file"
  <2>1. h.file = None /\ h.append = None /\ \A e \in Data : h.recs[e] = {}
    BY <1>3, LockedFinite DEF LT!Held, LT!Refused, LT!TestFile, LT!Whose, Good
  <2>2. /\ g.file = d /\ g.append = h.append /\ g.recs = h.recs /\ g.memo = h.memo
        /\ g.index = h.index
    BY <1>0, <1>3 DEF LT!Locks, LT!Take, LT!TakeFile, LT!Grant
  <2> HIDE DEF g
  <2>3. LT!Held(g, t)
    BY <1>0, <1>3, <2>2 DEF LT!Held, LT!TestFile, LT!Whose
  <2>4. \A u \in Part : LT!Held(h, u) => LT!Held(g, u)
    BY <2>1, <2>2 DEF LT!Held, LT!TestLock, LT!TestFile, LT!TestAppend, LT!TestRecord, LT!Whose, Part
  <2> QED BY <2>3, <2>4 DEF Keeps, g
<1>4. CASE t.kind = "memo"
  <2>2. /\ g.file = h.file /\ g.append = h.append /\ g.recs = h.recs /\ g.memo
        /\ g.index = h.index
    BY <1>0, <1>4 DEF LT!Locks, LT!Take, LT!TakeMemo, LT!Grant
  <2> HIDE DEF g
  <2> QED BY <1>4, <2>2 DEF Keeps, LT!Held, LT!TestLock, LT!TestFile, LT!TestAppend, LT!TestRecord, Part, g
<1>5. CASE t.kind = "index"
  <2>1. h.index = None
    BY <1>5 DEF LT!Held, LT!Refused
  <2>2. /\ g.file = h.file /\ g.append = h.append /\ g.recs = h.recs /\ g.memo = h.memo
        /\ g.index = d
    BY <1>0, <1>5 DEF LT!Locks, LT!Take, LT!TakeIndex, LT!Grant
  <2> HIDE DEF g
  <2> QED BY <1>0, <1>5, <2>1, <2>2, LocksAssumption DEF Keeps, LT!Held, LT!TestLock, LT!TestFile, LT!TestAppend, LT!TestRecord, Part, g
<1> QED BY <1>1, <1>2, <1>3, <1>4, <1>5 DEF Part

(* A part that is held brings the request on or ends it.                   *)
LEMMA TodoGoesOn ==
  ASSUME NEW h, NEW g, NEW w \in Wanted, NEW todo, TodoFits(h, todo, w),
         Keeps(h, g), LT!Held(g, todo[1])
  PROVE  /\ Len(todo) # 1 => TodoFits(g, Tail(todo), w)
         /\ Len(todo) = 1 => \A u \in ToSet(Parts(w)) : LT!Held(g, u)
<1> DEFINE T(k) == LT!Target(k, w.data)
<1>1. w.data \in Data /\ T("file") \in Part /\ T("memo") \in Part /\ T("index") \in Part
  BY DEF Wanted, Part, LT!Target
<1>2. CASE w.kind # "all"
  <2>1. todo = <<w>> /\ Parts(w) = <<w>>
    BY <1>2 DEF TodoFits, Parts
  <2>2. Len(todo) = 1 /\ ToSet(Parts(w)) = {w} /\ todo[1] = w
    BY <2>1 DEF ToSet
  <2> QED BY <2>2
<1>3. CASE w.kind = "all"
  <2>1. Parts(w) = <<T("file"), T("memo"), T("index")>>
    BY <1>3 DEF Parts
  <2>2. ToSet(Parts(w)) = {T("file"), T("memo"), T("index")}
    BY <2>1 DEF ToSet
  <2>3. CASE todo = Parts(w)
    <3>1. Len(todo) = 3 /\ todo[1] = T("file") /\ Tail(todo) = <<T("memo"), T("index")>>
      BY <2>1, <2>3
    <3> QED BY <1>3, <3>1 DEF TodoFits
  <2>4. CASE LT!Held(h, T("file")) /\ todo = <<T("memo"), T("index")>>
    <3>1. Len(todo) = 2 /\ todo[1] = T("memo") /\ Tail(todo) = <<T("index")>>
      BY <2>4
    <3> QED BY <1>1, <1>3, <2>4, <3>1 DEF TodoFits, Keeps
  <2>5. CASE LT!Held(h, T("file")) /\ LT!Held(h, T("memo")) /\ todo = <<T("index")>>
    <3>1. Len(todo) = 1 /\ todo[1] = T("index")
      BY <2>5
    <3> QED BY <1>1, <2>2, <2>5, <3>1 DEF Keeps
  <2> QED BY <1>3, <2>3, <2>4, <2>5 DEF TodoFits
<1> QED BY <1>2, <1>3

-----------------------------------------------------------------------------
(* What giving back leaves alone.                                          *)

LEMMA UnlockLeaves ==
  ASSUME NEW h, Good(h), NEW d \in Data
  PROVE  /\ LT!UnlockAppend(h, d).file = h.file /\ LT!UnlockAppend(h, d).index = h.index
         /\ LT!UnlockRecords(h, d).file = h.file /\ LT!UnlockRecords(h, d).index = h.index
         /\ LT!UnlockMemo(h).file = h.file /\ LT!UnlockMemo(h).index = h.index
         /\ LT!UnlockIndex(h, d).file = h.file
         /\ LT!UnlockFile(h, d).index = h.index /\ (h.file # d => LT!UnlockFile(h, d) = h)
<1> USE DEF Good, LT!Locks, LT!Release
<1>1. LT!UnlockAppend(h, d).file = h.file /\ LT!UnlockAppend(h, d).index = h.index
  BY DEF LT!UnlockAppend
<1>2. LT!UnlockRecords(h, d).file = h.file /\ LT!UnlockRecords(h, d).index = h.index
  BY DEF LT!UnlockRecords, LT!Counted
<1>3. LT!UnlockMemo(h).file = h.file /\ LT!UnlockMemo(h).index = h.index
  BY DEF LT!UnlockMemo
<1>4. LT!UnlockIndex(h, d).file = h.file
  BY DEF LT!UnlockIndex
<1>5. LT!UnlockFile(h, d).index = h.index /\ (h.file # d => LT!UnlockFile(h, d) = h)
  BY DEF LT!UnlockFile
<1> QED BY <1>1, <1>2, <1>3, <1>4, <1>5

LEMMA UnlockDataLeaves ==
  ASSUME NEW h, Good(h), NEW d \in Data
  PROVE  /\ LT!UnlockData(h, d).index = h.index
         /\ h.file # d => LT!UnlockData(h, d).file = h.file
<1> DEFINE f == LT!UnlockFile(h, d)
           a == LT!UnlockAppend(f, d)
<1>1. Good(f) /\ Good(a)
  <2>1. Less(f, h)
    BY UnlockFileLess
  <2> HIDE DEF f
  <2>2. Less(a, f)
    BY <2>1, UnlockAppendLess DEF Less
  <2> QED BY <2>1, <2>2 DEF Less
<1>2. f.index = h.index /\ (h.file # d => f.file = h.file)
  BY UnlockLeaves
<1> HIDE DEF f
<1>3. a.index = f.index /\ a.file = f.file
  BY <1>1, UnlockLeaves
<1> HIDE DEF a
<1>4. LT!UnlockRecords(a, d).file = a.file /\ LT!UnlockRecords(a, d).index = a.index
  BY <1>1, UnlockLeaves
<1> QED BY <1>2, <1>3, <1>4 DEF LT!UnlockData, f, a

(* The index files are locked only under the file lock of the same DATA4.  *)
Under(h) == h.index # None => h.file = h.index

LEMMA UnlockDoUnder ==
  ASSUME NEW h, Good(h), NEW d \in Data, NEW e, Under(h)
  PROVE  Under(LT!UnlockDo(h, d, e))
<1>1. CASE ~LT!HasLocks(h, d)
  <2> DEFINE k == LT!UnlockMemo(h)
             g == LT!UnlockIndex(k, d)
  <2>1. Less(k, h) /\ k.file = h.file /\ k.index = h.index
    BY UnlockMemoLess, UnlockLeaves
  <2> HIDE DEF k
  <2>2. Less(g, k) /\ g.file = k.file
    BY <2>1, UnlockIndexLess, UnlockLeaves DEF Less
  <2>3. LT!UnlockDo(h, d, e) = g
    BY <1>1 DEF LT!UnlockDo, k
  <2> HIDE DEF g
  <2> QED BY <2>1, <2>2, <2>3 DEF Under, Less
<1>2. CASE LT!HasLocks(h, d) /\ ~e
  <2> DEFINE r == LT!UnlockData(h, d)
             k == LT!UnlockMemo(r)
             g == LT!UnlockIndex(k, d)
  <2>1. Less(r, h) /\ r.index = h.index /\ (h.file # d => r.file = h.file)
    BY UnlockDataLess, UnlockDataLeaves
  <2> HIDE DEF r
  <2>2. Less(k, r) /\ k.file = r.file /\ k.index = r.index
    BY <2>1, UnlockMemoLess, UnlockLeaves DEF Less
  <2> HIDE DEF k
  <2>3. Less(g, k) /\ g.file = k.file
    BY <2>2, UnlockIndexLess, UnlockLeaves DEF Less
  <2>4. g.index # d
    BY <2>2, LocksAssumption DEF LT!UnlockIndex, LT!Release, Less, Good, LT!Locks
  <2>5. LT!UnlockDo(h, d, e) = g
    BY <1>2 DEF LT!UnlockDo, r, k
  <2> HIDE DEF g
  <2> QED BY <2>1, <2>2, <2>3, <2>4, <2>5 DEF Under, Less
<1>3. CASE LT!HasLocks(h, d) /\ e
  BY <1>3 DEF LT!UnlockDo
<1> QED BY <1>1, <1>2, <1>3

LEMMA UnlockAllUnder ==
  ASSUME NEW h, Good(h), NEW e \in BOOLEAN, Under(h)
  PROVE  Under(LT!UnlockAll(h, e))
<1>1. PICK iter : Folding(iter, h, e)
  BY UnlockAllIsAFold
<1> DEFINE Bad == {s \in SUBSET Data : ~(Good(iter[s]) /\ Under(iter[s]))}
<1>2. ASSUME NEW s \in Bad, \A t \in Bad : Cardinality(s) <= Cardinality(t)
      PROVE  FALSE
  <2>1. CASE s = {} /\ iter[s] = h
    BY <2>1
  <2>2. ASSUME NEW d \in s, iter[s] = LT!UnlockDo(iter[s \ {d}], d, e) PROVE FALSE
    <3>1. s \ {d} \in SUBSET Data /\ s \ {d} \notin Bad /\ d \in Data
      <4>1. Bad \in SUBSET SUBSET Data
        OBVIOUS
      <4> HIDE DEF Bad
      <4> QED BY <1>2, <4>1, SmallerSet
    <3> DEFINE k == iter[s \ {d}]
    <3>2. Good(k) /\ Under(k) /\ iter[s] = LT!UnlockDo(k, d, e) /\ d \in Data
      BY <2>2, <3>1
    <3>3. ~(Good(iter[s]) /\ Under(iter[s]))
      OBVIOUS
    <3> HIDE DEF k
    <3>4. Less(iter[s], k)
      BY <3>2, UnlockDoLess
    <3>5. Under(iter[s])
      BY <3>2, UnlockDoUnder
    <3> QED BY <3>3, <3>4, <3>5 DEF Less
  <2> QED BY <1>1, <2>1, <2>2 DEF Folding
<1>3. Bad = {}
  <2>1. Bad \in SUBSET SUBSET Data
    OBVIOUS
  <2> HIDE DEF Bad
  <2> QED BY <1>2, <2>1, SmallestSet
<1> QED BY <1>1, <1>3 DEF Folding

(* With no bytes nothing is written down.                                  *)
LEMMA NoBytesNothing ==
  ASSUME NEW h, Good(h)
  PROVE  /\ h.bytes = {} => h.index = None /\ h.file = None
         /\ h.memo <=> LT!MemoByte \in h.bytes
         /\ (h.index # None) <=> LT!IndexByte \in h.bytes
<1>1. \A d \in Data : \A r \in h.recs[d] : r \in Recs
  BY DEF Good, LT!Locks
<1>2. LT!MemoByte \in Owned(h) <=> h.memo
  BY <1>1, OwnedBytes, BytesApart
<1>3. LT!IndexByte \in Owned(h) <=> h.index # None
  BY <1>1, OwnedBytes, BytesApart
<1>4. h.file # None => LT!AppendByte \in Owned(h)
  BY OwnedBytes, BytesApart
<1> QED BY <1>2, <1>3, <1>4 DEF Good

-----------------------------------------------------------------------------
(* What taking one lock changes.                                           *)

Takes(h, t, g) ==
  /\ Good(h) /\ Good(g) /\ t \in Part
  /\ \/ g = h /\ LT!Held(h, t)
     \/ /\ ~LT!Held(h, t) /\ ~LT!Refused(h, t) /\ LT!BytesOf(t) \cap h.bytes = {}
        /\ g = LT!Take(h, t)

LEMMA TakeFields ==
  ASSUME NEW h, Good(h), NEW t \in Part, ~LT!Held(h, t), ~LT!Refused(h, t),
         NEW g, g = LT!Take(h, t)
  PROVE  /\ g.file = IF t.kind = "file" THEN t.data ELSE h.file
         /\ g.append = IF t.kind = "append" THEN t.data ELSE h.append
         /\ g.index = IF t.kind = "index" THEN t.data ELSE h.index
         /\ \A d \in Data : h.recs[d] \subseteq g.recs[d]
         /\ t.kind = "record" => t.rec \in g.recs[t.data]
         /\ t.kind \in {"file", "append"} => h.file = None /\ h.append = None
         /\ t.kind = "index" => h.index = None
<1> DEFINE d == t.data
<1>0. h \in LT!Locks /\ d \in Data /\ d # None
  BY LocksAssumption DEF Good, Part
<1>1. CASE t.kind = "record"
  <2> DEFINE r == t.rec
             B == h.bytes \cup {LT!RecByte(r)}
             f == [h.recs EXCEPT ![d] = @ \cup {r}]
  <2>1. r \in Recs
    BY <1>1 DEF Part
  <2>2. /\ B \in SUBSET ({"dbf", "fpt", "cdx"} \X Nat)
        /\ f \in [Data -> SUBSET Recs] /\ h.count + 1 \in Int
    BY <1>0, <2>1, BytesApart DEF LT!Locks
  <2>3. r \in f[d] /\ \A e \in Data : h.recs[e] \subseteq f[e]
    BY <1>0 DEF LT!Locks
  <2>4. g = LT!Counted(h, B, h.count + 1, f)
    BY <1>1 DEF LT!Take, LT!TakeRecord
  <2> HIDE DEF B, f, d, r
  <2>5. /\ g.file = h.file /\ g.append = h.append /\ g.index = h.index /\ g.recs = f
    BY <1>0, <2>2, <2>4, CountedFacts
  <2> QED BY <1>1, <2>3, <2>5 DEF d, r
<1>2. CASE t.kind = "append"
  <2>1. h.file = None /\ h.append = None
    BY <1>2 DEF LT!Held, LT!Refused, LT!TestFile, LT!TestAppend, LT!Whose
  <2>2. g.file = h.file /\ g.append = d /\ g.recs = h.recs /\ g.index = h.index
    BY <1>0, <1>2 DEF LT!Locks, LT!Take, LT!TakeAppend, LT!Grant
  <2> QED BY <1>2, <2>1, <2>2
<1>3. CASE t.kind = "file"
  <2>1. h.file = None /\ h.append = None
    BY <1>3 DEF LT!Held, LT!Refused, LT!TestFile, LT!Whose
  <2>2. g.file = d /\ g.append = h.append /\ g.recs = h.recs /\ g.index = h.index
    BY <1>0, <1>3 DEF LT!Locks, LT!Take, LT!TakeFile, LT!Grant
  <2> QED BY <1>3, <2>1, <2>2
<1>4. CASE t.kind = "memo"
  <2>2. g.file = h.file /\ g.append = h.append /\ g.recs = h.recs /\ g.index = h.index
    BY <1>0, <1>4 DEF LT!Locks, LT!Take, LT!TakeMemo, LT!Grant
  <2> QED BY <1>4, <2>2
<1>5. CASE t.kind = "index"
  <2>1. h.index = None
    BY <1>5 DEF LT!Held, LT!Refused
  <2>2. g.file = h.file /\ g.append = h.append /\ g.recs = h.recs /\ g.index = d
    BY <1>0, <1>5 DEF LT!Locks, LT!Take, LT!TakeIndex, LT!Grant
  <2> QED BY <1>5, <2>1, <2>2
<1> QED BY <1>1, <1>2, <1>3, <1>4, <1>5 DEF Part

LEMMA TakesKeeps ==
  ASSUME NEW h, NEW t, NEW g, Takes(h, t, g)
  PROVE  LT!Held(g, t) /\ Keeps(h, g)
BY TakeKeeps DEF Takes, Keeps

(* Who may change the file is the DATA4 that has it locked.                *)
LEMMA HeldFile ==
  ASSUME NotShared, NEW h, Good(h), NEW d \in Data, LT!Held(h, LT!Target("file", d))
  PROVE  h.file = d
BY DEF NotShared, LT!Held, LT!Target, LT!TestFile, LT!Whose, Good, LT!Locks

LEMMA TakesUnder ==
  ASSUME NotShared, NEW h, NEW t, NEW g, Takes(h, t, g), Under(h),
         t.kind = "index" => LT!Held(h, LT!Target("file", t.data))
  PROVE  Under(g)
<1>1. CASE g = h
  BY <1>1
<1>2. CASE g # h
  <2>1. /\ Good(h) /\ t \in Part /\ ~LT!Held(h, t) /\ ~LT!Refused(h, t) /\ g = LT!Take(h, t)
        /\ t.data \in Data
    BY <1>2 DEF Takes, Part
  <2>2. t.kind = "index" => h.file = t.data
    BY <2>1, HeldFile
  <2> QED BY <2>1, <2>2, TakeFields DEF Under
<1> QED BY <1>1, <1>2

LEMMA TakesGives ==
  ASSUME NEW h, NEW t, NEW g, Takes(h, t, g)
  PROVE  /\ \A w \in Wanted : \A x : Gives(h, w, x) => Gives(g, w, x)
         /\ t.kind \in {"record", "append", "file"} =>
              \A x \in g.bytes : x \in h.bytes \/ Gives(g, t, x)
<1>1. CASE g = h
  BY <1>1
<1>2. CASE g # h
  <2>1. /\ Good(h) /\ t \in Part /\ ~LT!Held(h, t) /\ ~LT!Refused(h, t) /\ g = LT!Take(h, t)
        /\ LT!BytesOf(t) \cap h.bytes = {}
    BY <1>2 DEF Takes
  <2>2. g.bytes = h.bytes \cup LT!BytesOf(t)
    BY <2>1, TakeGood
  <2>3. ASSUME NEW w \in Wanted, NEW x, Gives(h, w, x) PROVE Gives(g, w, x)
    <3>1. w.data \in Data /\ w.data # None
      BY LocksAssumption DEF Wanted
    <3>2. /\ \A d \in Data : h.recs[d] \subseteq g.recs[d]
          /\ h.append # None => g.append = h.append
          /\ h.file # None => g.file = h.file
      BY <2>1, TakeFields
    <3> QED BY <2>3, <3>1, <3>2 DEF Gives
  <2>4. ASSUME t.kind \in {"record", "append", "file"}, NEW x \in LT!BytesOf(t)
        PROVE  Gives(g, t, x)
    BY <2>1, <2>4, TakeFields DEF Gives, LT!BytesOf
  <2> QED BY <2>2, <2>3, <2>4
<1> QED BY <1>1, <1>2

(* What a lock gives back is gone, and what others give back is not.       *)
LEMMA GivesStays ==
  ASSUME NEW h, Good(h), NEW g, Less(g, h), NEW w \in Wanted, NEW x \in g.bytes,
         Gives(h, w, x)
  PROVE  Gives(g, w, x)
<1>1. /\ w.data \in Data /\ w.data # None /\ x \in Owned(g)
      /\ \A d \in Data : g.recs[d] \subseteq h.recs[d] /\ h.recs[d] \subseteq Recs
      /\ g.file \in {h.file, None} /\ g.append \in {h.append, None}
  BY LocksAssumption DEF Wanted, Less, Good, LT!Locks
<1>2. CASE w.kind = "record"
  <2>1. w.rec \in h.recs[w.data] /\ x = LT!RecByte(w.rec) /\ w.rec \in Recs
    BY <1>1, <1>2 DEF Gives
  <2>2. h.file = None /\ g.file = None
    BY <1>1, <2>1 DEF Good, Single
  <2>3. PICK d \in Data : \E r \in g.recs[d] : x = LT!RecByte(r)
    BY <1>1, <2>1, <2>2, OwnedBytes, BytesApart
  <2>4. w.rec \in g.recs[d]
    BY <1>1, <2>1, <2>3, BytesApart
  <2>5. d = w.data
    BY <1>1, <2>1, <2>4 DEF Good, Single
  <2> QED BY <1>2, <2>1, <2>4, <2>5 DEF Gives
<1>3. CASE w.kind = "append"
  <2>1. h.append = w.data /\ x = LT!AppendByte
    BY <1>3 DEF Gives
  <2>2. g.file = None
    BY <1>1, <2>1 DEF Good, Single
  <2>3. g.append # None
    BY <1>1, <2>1, <2>2, OwnedBytes, BytesApart
  <2> QED BY <1>1, <1>3, <2>1, <2>3 DEF Gives
<1>4. CASE w.kind = "file"
  <2>1. h.file = w.data /\ x \in LT!FileBytes
    BY <1>4 DEF Gives
  <2>2. g.append = None /\ \A d \in Data : g.recs[d] = {}
    BY <1>1, <2>1 DEF Good, Single
  <2>3. g.file # None
    BY <1>1, <2>1, <2>2, OwnedBytes, BytesApart
  <2> QED BY <1>1, <1>4, <2>1, <2>3 DEF Gives
<1> QED BY <1>2, <1>3, <1>4 DEF Gives

LEMMA GivesGoes ==
  ASSUME NEW h, Good(h), NEW w \in Wanted, NEW x, Gives(h, w, x)
  PROVE  x \notin GroupUnlock(h, w).bytes
<1>0. h \in LT!Locks /\ w.data \in Data /\ w.data # None
  BY LocksAssumption DEF Good, Wanted
<1>1. CASE w.kind = "record"
  <2> DEFINE d == w.data
             r == w.rec
             B == h.bytes \ {LT!RecByte(r)}
             f == [h.recs EXCEPT ![d] = @ \ {r}]
  <2>1. r \in h.recs[d] /\ x = LT!RecByte(r)
    BY <1>1 DEF Gives
  <2>2. /\ B \in SUBSET ({"dbf", "fpt", "cdx"} \X Nat)
        /\ f \in [Data -> SUBSET Recs] /\ h.count - 1 \in Int
    BY <1>0 DEF LT!Locks
  <2>3. GroupUnlock(h, w) = LT!Counted(h, B, h.count - 1, f)
    BY <1>1, <2>1 DEF GroupUnlock, LT!UnlockRecord
  <2>4. x \notin B
    BY <2>1
  <2> HIDE DEF B, f
  <2> QED BY <1>0, <2>2, <2>3, <2>4, CountedFacts
<1>2. CASE w.kind = "append"
  <2>1. h.append = w.data /\ x = LT!AppendByte
    BY <1>2 DEF Gives
  <2>2. LT!UnlockAppend(h, w.data).bytes = h.bytes \ {LT!AppendByte}
    BY <1>0, <2>1 DEF LT!UnlockAppend, LT!TestAppend, LT!Whose, LT!Release, LT!Locks
  <2> QED BY <1>2, <2>1, <2>2 DEF GroupUnlock
<1>3. CASE w.kind = "file"
  <2>1. h.file = w.data /\ x \in LT!FileBytes
    BY <1>3 DEF Gives
  <2>2. LT!UnlockFile(h, w.data).bytes = h.bytes \ LT!FileBytes
    BY <1>0, <2>1 DEF LT!UnlockFile, LT!Release, LT!Locks
  <2> QED BY <1>3, <2>1, <2>2 DEF GroupUnlock
<1> QED BY <1>1, <1>2, <1>3 DEF Gives

LEMMA AllGoes ==
  ASSUME NEW h, Good(h), NEW w \in Wanted, w.kind = "all"
  PROVE  GroupUnlock(h, w).index # w.data
<1> DEFINE m == LT!UnlockMemo(h)
           i == LT!UnlockIndex(m, w.data)
<1>0. w.data \in Data /\ w.data # None
  BY LocksAssumption DEF Wanted
<1>1. Good(m)
  BY UnlockMemoLess DEF Less
<1> HIDE DEF m
<1>2. i.index # w.data
  BY <1>0, <1>1 DEF LT!UnlockIndex, LT!Release, Good, LT!Locks
<1>3. Good(i)
  BY <1>0, <1>1, UnlockIndexLess DEF Less
<1> HIDE DEF i
<1>4. LT!UnlockFile(i, w.data).index = i.index
  BY <1>0, <1>3, UnlockLeaves
<1> QED BY <1>2, <1>4 DEF GroupUnlock, i, m

-----------------------------------------------------------------------------
(* A step of one process leaves the others alone. *)

Same(q) == /\ held'[q] = held[q] /\ set'[q] = set[q]
           /\ call'[q] = call[q] /\ queue'[q] = queue[q]

Step(p) ==
  \/ LockRecord(p) \/ LockAppend(p) \/ LockFile(p) \/ LockAll(p)
  \/ WriteKeys(p) \/ KeysWritten(p)
  \/ Try(p) \/ Undo(p)
  \/ QueueAdd(p) \/ QueueClear(p) \/ GroupStart(p) \/ GroupRound(p)
  \/ Unlock(p) \/ UnlockMemo(p) \/ UnlockIndex(p) \/ UnlockAll(p)
  \/ UnlockAppend(p) \/ ClearError(p)

LEMMA StepIsMine ==
  ASSUME IInv, NEW p \in Procs, NEW q \in Procs, q # p, Step(p)
  PROVE  Same(q)
<1> USE DEF Same
<1>1. ASSUME NEW w, Ask(p, w) PROVE Same(q)
  BY <1>1 DEF Ask, Return, Refuse, IInv, TypeOK
<1>2. CASE WriteKeys(p) \/ KeysWritten(p)
  BY <1>2 DEF WriteKeys, KeysWritten, Return, IInv, TypeOK
<1>3. ASSUME NEW rc, GroupUndo(p, rc) PROVE Same(q)
  BY <1>3 DEF GroupUndo, IInv, TypeOK
<1>4. ASSUME NEW rc, Fail(p, rc) PROVE Same(q)
  BY <1>3, <1>4 DEF Fail, Return, GroupNext, IInv, TypeOK
<1>5. ASSUME Advance(p) PROVE set'[q] = set[q] /\ call'[q] = call[q] /\ queue'[q] = queue[q]
  BY <1>5 DEF Advance, Done, Return, GroupNext, IInv, TypeOK
<1>6. CASE Try(p)
  BY <1>4, <1>5, <1>6 DEF Try, IInv, TypeOK
<1>7. CASE Undo(p)
  BY <1>7 DEF Undo, Return, IInv, TypeOK
<1>8. CASE QueueAdd(p) \/ QueueClear(p) \/ GroupStart(p)
  BY <1>8 DEF QueueAdd, QueueClear, GroupStart, IInv, TypeOK
<1>9. CASE GroupRound(p)
  BY <1>3, <1>9 DEF GroupRound, Return, IInv, TypeOK
<1>10. CASE \/ Unlock(p) \/ UnlockMemo(p) \/ UnlockIndex(p) \/ UnlockAll(p)
            \/ UnlockAppend(p) \/ ClearError(p)
  BY <1>10 DEF Unlock, UnlockMemo, UnlockIndex, UnlockAll, UnlockAppend, ClearError,
               Return, IInv, TypeOK
<1>11. CASE LockRecord(p) \/ LockAppend(p) \/ LockFile(p) \/ LockAll(p)
  BY <1>1, <1>11 DEF LockRecord, LockAppend, LockFile, LockAll
<1> QED BY <1>2, <1>6, <1>7, <1>8, <1>9, <1>10, <1>11 DEF Step

(* What a process is in before and after a step. *)
LEMMA Mine ==
  ASSUME IInv, NEW p \in Procs
  PROVE  /\ Good(held[p]) /\ call[p] \in Calls /\ CallFits(call[p], queue[p])
         /\ set[p] \in [auto : Autos, attempts : Tries, single : Tries]
         /\ auto(p) = set[p].auto /\ auto(p) \in Autos
         /\ queue[p] \in Seq(Wanted)
         /\ held \in [Procs -> LT!Locks] /\ call \in [Procs -> Calls]
         /\ set \in [Procs -> [auto : Autos, attempts : Tries, single : Tries]]
         /\ queue \in [Procs -> Seq(Wanted)]
BY DEF IInv, TypeOK, LocksGood, auto

(* Between the calls. *)
LEMMA IdleWhole ==
  ASSUME NEW h, NEW s, NEW q, NotShared => (s.auto = "ALL" => Under(h)), NoAll => Simple(q)
  PROVE  Whole(h, s, Idle, q)
<1>1. Idle.op = "idle" /\ Idle.todo = <<>> /\ Idle.got = <<>>
  BY DEF Idle
<1> DEFINE c == Idle
<1> SUFFICES Whole(h, s, c, q)
  OBVIOUS
<1> HIDE DEF c
<1>2. c.op = "idle" /\ c.todo = <<>> /\ c.got = <<>>
  BY <1>1 DEF c
<1>3. Shape(h, s, c, q)
  BY <1>2 DEF Shape
<1>4. Waiting(h, s, c) /\ (NotShared => IndexFits(h, s, c))
  BY <1>2 DEF Waiting, IndexFits, Under
<1>5. NoAll => Simple(q) /\ Simple(c.got) /\ Covered(h, c)
  BY <1>2 DEF Simple, Covered
<1> QED BY <1>3, <1>4, <1>5 DEF Whole

LEMMA WholeIdle ==
  ASSUME NEW h, NEW s, NEW c, NEW q, c.op = "idle", Whole(h, s, c, q)
  PROVE  /\ NotShared => (s.auto = "ALL" => Under(h))
         /\ NoAll => Simple(q)
         /\ \A g, r : /\ NotShared => (s.auto = "ALL" => Under(g))
                      /\ NoAll => Simple(r)
                      => Whole(g, s, c, r)
BY DEF Whole, Shape, Waiting, IndexFits, Under, Covered

-----------------------------------------------------------------------------
(* Every step of a process keeps what its call has. *)

After(p) == Whole(held'[p], set'[p], call'[p], queue'[p])

LEMMA AskWhole ==
  ASSUME IInv, IInv', Wholes, NEW p \in Procs, NEW w \in Wanted, Ask(p, w)
  PROVE  After(p)
<1> DEFINE h == held[p]
           s == set[p]
           q == queue[p]
           t == Parts(w)[1]
           op == IF w.kind = "all" THEN "all" ELSE "one"
           start(todo) == [Idle EXCEPT !.op = op, !.todo = todo, !.left = attempts(p),
                                       !.data = w.data]
           all == LT!Target("all", w.data)
<1>1. /\ Good(h) /\ call[p].op = "idle" /\ set'[p] = s /\ queue'[p] = q /\ auto(p) = s.auto
      /\ call \in [Procs -> Calls] /\ held \in [Procs -> LT!Locks] /\ w.data \in Data
      /\ Good(held'[p])
  BY Mine DEF Ask, Calling, Wanted, IInv, LocksGood
<1>2. /\ NotShared => (s.auto = "ALL" => Under(h))
      /\ NoAll => Simple(q)
  BY <1>1, WholeIdle DEF Wholes
<1>3. ASSUME NEW todo
      PROVE  /\ start(todo).op = op /\ start(todo).todo = todo /\ start(todo).data = w.data
             /\ start(todo).got = <<>>
  BY DEF Idle
<1>4. /\ w.kind # "all" => Len(Parts(w)) = 1
      /\ w.kind = "all" => /\ t = LT!Target("file", w.data) /\ Parts(all) = Parts(w)
                           /\ Tail(Parts(w)) = <<LT!Target("memo", w.data), LT!Target("index", w.data)>>
                           /\ Tail(Parts(w)) # Parts(w) /\ all.kind = "all" /\ all.data = w.data
  <2>1. CASE w.kind # "all"
    BY <2>1 DEF Parts
  <2>2. CASE w.kind = "all"
    <3> DEFINE T(k) == LT!Target(k, w.data)
    <3>1. Parts(w) = <<T("file"), T("memo"), T("index")>>
      BY <2>2 DEF Parts
    <3>2. Len(Parts(w)) = 3 /\ Tail(Parts(w)) = <<T("memo"), T("index")>> /\ Parts(w)[1] = T("file")
      BY <3>1
    <3>3. Len(Tail(Parts(w))) = 2
      BY <3>2
    <3>4. all.kind = "all" /\ all.data = w.data
      BY DEF LT!Target
    <3>5. Parts(all) = Parts(w)
      BY <2>2, <3>1, <3>4 DEF Parts
    <3> QED BY <2>2, <3>2, <3>3, <3>4, <3>5
  <2> QED BY <2>1, <2>2
<1> HIDE DEF start, t, h, s, q, all
<1>5. CASE /\ LT!Held(h, t) /\ UNCHANGED held
           /\ IF Len(Parts(w)) = 1 THEN Return(p)
              ELSE call' = [call EXCEPT ![p] = start(Tail(Parts(w)))]
  <2>1. CASE Len(Parts(w)) = 1
    BY <1>1, <1>2, <1>5, <2>1, IdleWhole DEF Return, After, h
  <2>2. CASE Len(Parts(w)) # 1
    <3> DEFINE c == start(Tail(Parts(w)))
    <3>1. w.kind = "all" /\ op = "all" /\ c = call'[p]
      BY <1>1, <1>4, <1>5, <2>2
    <3>2. /\ c.op = "all" /\ c.data = w.data /\ c.got = <<>>
          /\ c.todo = <<LT!Target("memo", w.data), LT!Target("index", w.data)>>
          /\ c.todo # Parts(all)
      BY <1>3, <1>4, <3>1
    <3> HIDE DEF c
    <3>3. LT!Held(h, LT!Target("file", w.data))
      BY <1>4, <1>5, <3>1
    <3>4. Shape(h, s, c, q)
      <4>1. LT!Target("all", c.data) = all
        BY <3>2 DEF all
      <4>2. TodoFits(h, c.todo, all)
        BY <1>4, <3>1, <3>2, <3>3 DEF TodoFits
      <4> QED BY <3>2, <4>1, <4>2 DEF Shape
    <3>5. NotShared => Waiting(h, s, c)
      BY <1>1, <3>2, <3>3, HeldFile DEF Waiting, all
    <3>6. NotShared => IndexFits(h, s, c)
      BY <1>2, <3>2 DEF IndexFits, Under
    <3>7. NoAll => Simple(q) /\ Simple(c.got) /\ Covered(h, c)
      BY <1>2, <3>2 DEF Simple, Covered
    <3> QED BY <1>1, <1>5, <3>1, <3>4, <3>5, <3>6, <3>7 DEF Whole, After, h
  <2> QED BY <2>1, <2>2
<1>6. CASE auto(p) # "ALL" /\ Refuse(p)
  BY <1>1, <1>2, <1>6, IdleWhole DEF Refuse, Return, After
<1>7. CASE /\ held' = [held EXCEPT ![p] = AutoUnlock(p, t)]
           /\ call' = [call EXCEPT ![p] = start(Parts(w))]
  <2> DEFINE c == start(Parts(w))
             g == held'[p]
  <2>1. c = call'[p] /\ c.op = op /\ c.todo = Parts(w) /\ c.data = w.data /\ c.got = <<>>
    BY <1>1, <1>3, <1>7
  <2>2. s.auto = "ALL" => g = LT!UnlockAll(h, FALSE)
    BY <1>1, <1>7 DEF AutoUnlock, h
  <2> HIDE DEF c, g
  <2>3. s.auto = "ALL" => g.bytes = {} /\ g.index = None
    BY <1>1, <2>2, UnlockAllFrees, NoBytesNothing DEF g
  <2>4. Shape(g, s, c, q)
    <3>1. CASE w.kind = "all"
      <4>1. LT!Target("all", c.data) = all /\ TodoFits(g, c.todo, all)
        BY <1>4, <2>1, <3>1 DEF TodoFits, all
      <4> QED BY <2>1, <3>1, <4>1 DEF Shape
    <3>2. CASE w.kind # "all"
      BY <2>1, <3>2 DEF Shape
    <3> QED BY <3>1, <3>2
  <2>5. Waiting(g, s, c)
    BY <2>3 DEF Waiting
  <2>6. IndexFits(g, s, c)
    BY <2>1, <2>3 DEF IndexFits
  <2>7. NoAll => Simple(q) /\ Simple(c.got) /\ Covered(g, c)
    BY <1>2, <2>1 DEF Simple, Covered
  <2> QED BY <1>1, <2>1, <2>4, <2>5, <2>6, <2>7 DEF Whole, After, g
<1> QED BY <1>5, <1>6, <1>7 DEF Ask, start, t, h, s, q, all

LEMMA KeysWhole ==
  ASSUME IInv, IInv', Wholes, NEW p \in Procs, WriteKeys(p) \/ KeysWritten(p)
  PROVE  After(p)
<1> DEFINE h == held[p]
           s == set[p]
           q == queue[p]
<1>1. /\ Good(h) /\ set'[p] = s /\ queue'[p] = q
      /\ call \in [Procs -> Calls] /\ held \in [Procs -> LT!Locks]
      /\ CallFits(call[p], q) /\ Whole(h, s, call[p], q)
  BY Mine DEF WriteKeys, KeysWritten, Wholes
<1> HIDE DEF h, s, q
<1>2. CASE WriteKeys(p)
  <2>1. PICK d \in DataOf(p) : call' = [call EXCEPT ![p] =
          [Idle EXCEPT !.op = "keys", !.todo = <<LT!Target("index", d)>>,
                       !.left = attempts(p), !.data = d]]
    BY <1>2 DEF WriteKeys
  <2> DEFINE c == [Idle EXCEPT !.op = "keys", !.todo = <<LT!Target("index", d)>>,
                               !.left = attempts(p), !.data = d]
  <2>2. /\ c.op = "keys" /\ c.data = d /\ c.todo = <<LT!Target("index", d)>> /\ c.got = <<>>
        /\ call'[p] = c /\ held'[p] = h /\ call[p].op = "idle"
    BY <1>1, <1>2, <2>1 DEF Idle, WriteKeys, Calling, h
  <2> HIDE DEF c
  <2>3. /\ NotShared => (s.auto = "ALL" => Under(h))
        /\ NoAll => Simple(q)
    BY <1>1, <2>2, WholeIdle
  <2>4. Shape(h, s, c, q) /\ Waiting(h, s, c) /\ Covered(h, c)
    BY <2>2 DEF Shape, Waiting, Covered
  <2>5. NotShared => IndexFits(h, s, c)
    BY <2>2, <2>3 DEF IndexFits, Under
  <2> QED BY <1>1, <2>2, <2>3, <2>4, <2>5 DEF After, Whole, Simple
<1>3. CASE KeysWritten(p)
  <2> DEFINE d == call[p].data
             g == LT!UnlockIndex(h, d)
  <2>1. d \in Data /\ call[p].op = "keys" /\ held'[p] = g /\ call'[p] = Idle
    BY <1>1, <1>3 DEF KeysWritten, CallFits, Return, h
  <2>2. g.file = h.file /\ g.index \in {h.index, None}
    BY <1>1, <2>1, UnlockIndexLess, UnlockLeaves DEF Less
  <2>3. g.index # d
    BY <1>1, <2>1, LocksAssumption DEF LT!UnlockIndex, LT!Release, Good, LT!Locks
  <2> HIDE DEF g
  <2>4. NotShared => (s.auto = "ALL" => Under(g))
    BY <1>1, <2>1, <2>2, <2>3 DEF Whole, IndexFits, Under
  <2> QED BY <1>1, <2>1, <2>4, IdleWhole DEF After, Whole
<1> QED BY <1>2, <1>3

LEMMA ReverseSimple ==
  ASSUME NEW q \in Seq(Wanted), Simple(q)
  PROVE  Simple(Reverse(q))
BY DEF Simple, Reverse

LEMMA QueueWhole ==
  ASSUME IInv, Wholes, NEW p \in Procs, QueueAdd(p) \/ QueueClear(p)
  PROVE  After(p)
<1>1. /\ held'[p] = held[p] /\ set'[p] = set[p] /\ call'[p] = call[p]
      /\ call[p].op = "idle" /\ Whole(held[p], set[p], call[p], queue[p])
      /\ queue \in [Procs -> Seq(Wanted)]
  BY Mine DEF QueueAdd, QueueClear, Calling, Wholes
<1>2. NoAll => Simple(queue'[p])
  <2>1. CASE QueueAdd(p)
    <3>1. PICK q \in Queues : queue'[p] = Reverse(q)
      BY <1>1, <2>1 DEF QueueAdd
    <3>2. q \in Seq(Wanted)
      BY LocksAssumption
    <3> QED BY <3>1, <3>2, ReverseSimple DEF NoAll
  <2>2. CASE QueueClear(p)
    BY <1>1, <2>2 DEF QueueClear, Simple
  <2> QED BY <2>1, <2>2
<1> QED BY <1>1, <1>2, WholeIdle DEF After

LEMMA UnlockWhole ==
  ASSUME IInv, IInv', Wholes, NEW p \in Procs,
         \/ Unlock(p) \/ UnlockMemo(p) \/ UnlockIndex(p) \/ UnlockAll(p)
         \/ UnlockAppend(p) \/ ClearError(p)
  PROVE  After(p)
<1> DEFINE h == held[p]
           s == set[p]
           q == queue[p]
           g == held'[p]
<1>1. /\ Good(h) /\ set'[p] = s /\ queue'[p] = q
      /\ call \in [Procs -> Calls] /\ held \in [Procs -> LT!Locks] /\ call[p] \in Calls
      /\ CallFits(call[p], q) /\ Whole(h, s, call[p], q)
  BY Mine DEF Unlock, UnlockMemo, UnlockIndex, UnlockAll, UnlockAppend, ClearError, Wholes
<1>2. CASE Unlock(p)
  <2>1. PICK d \in DataOf(p) :
          /\ g = IF LT!HasLocks(h, d) THEN LT!UnlockData(h, d) ELSE h
          /\ call'[p] = [Idle EXCEPT !.op = "unlock", !.data = d]
    BY <1>1, <1>2 DEF Unlock
  <2> DEFINE c == [Idle EXCEPT !.op = "unlock", !.data = d]
  <2>2. /\ c.op = "unlock" /\ c.data = d /\ c.todo = <<>> /\ c.got = <<>> /\ d \in Data
        /\ call'[p] = c /\ call[p].op = "idle"
    BY <1>2, <2>1 DEF Idle, DataOf, Unlock, Calling
  <2> HIDE DEF c, h, s, q, g
  <2>3. g.index = h.index /\ (h.file # d => g.file = h.file)
    BY <1>1, <2>1, <2>2, UnlockDataLeaves
  <2>4. /\ NotShared => (s.auto = "ALL" => Under(h))
        /\ NoAll => Simple(q)
    BY <1>1, <2>2, WholeIdle
  <2>5. Shape(g, s, c, q) /\ Waiting(g, s, c) /\ Covered(g, c)
    BY <2>2 DEF Shape, Waiting, Covered
  <2>6. NotShared => IndexFits(g, s, c)
    BY <2>2, <2>3, <2>4 DEF IndexFits, Under
  <2> QED BY <1>1, <2>2, <2>4, <2>5, <2>6 DEF After, Whole, Simple, g
<1>3. CASE UnlockMemo(p)
  <2> DEFINE c == [call[p] EXCEPT !.op = "unlock index"]
  <2>1. /\ c.op = "unlock index" /\ c.data = call[p].data /\ c.todo = call[p].todo
        /\ c.got = call[p].got
    BY <1>1 DEF Calls
  <2> HIDE DEF c
  <2>6. held' = [held EXCEPT ![p] = LT!UnlockMemo(@)] /\ call[p].op = "unlock"
    BY <1>3 DEF UnlockMemo
  <2>7. g = LT!UnlockMemo(h)
    BY <1>1, <2>6
  <2>8. call'[p] = c
    BY <1>1, <1>3 DEF UnlockMemo, c
  <2> HIDE DEF h, s, q, g
  <2>2. g.index = h.index /\ g.file = h.file
    <3>1. call[p].data \in Data
      BY <1>1, <2>6 DEF CallFits
    <3> QED BY <1>1, <2>7, <3>1, UnlockLeaves
  <2>3. Shape(g, s, c, q)
    BY <1>1, <2>1, <2>6 DEF Whole, Shape
  <2>4. Waiting(g, s, c) /\ Covered(g, c)
    BY <2>1 DEF Waiting, Covered
  <2>5. NotShared => IndexFits(g, s, c)
    BY <1>1, <2>1, <2>2, <2>6 DEF Whole, IndexFits
  <2> QED BY <1>1, <2>1, <2>3, <2>4, <2>5, <2>8 DEF After, Whole, g
<1>4. CASE UnlockIndex(p)
  <2> DEFINE d == call[p].data
  <2>4. /\ held' = [held EXCEPT ![p] = LT!UnlockIndex(@, call[p].data)]
        /\ call[p].op = "unlock index" /\ Return(p)
    BY <1>4 DEF UnlockIndex
  <2>5. d \in Data /\ call'[p] = Idle
    BY <1>1, <2>4 DEF CallFits, Return
  <2>6. g = LT!UnlockIndex(h, d)
    BY <1>1, <2>4
  <2>1. d \in Data /\ call[p].op = "unlock index" /\ g = LT!UnlockIndex(h, d) /\ call'[p] = Idle
    BY <2>4, <2>5, <2>6
  <2> HIDE DEF g, h, s, q, d
  <2>2. g.file = h.file /\ g.index \in {h.index, None} /\ g.index # d
    <3>1. Less(g, h) /\ g.file = h.file
      BY <1>1, <2>1, UnlockIndexLess, UnlockLeaves
    <3>2. g.index # d
      BY <1>1, <2>1, LocksAssumption DEF LT!UnlockIndex, LT!Release, Good, LT!Locks
    <3> QED BY <3>1, <3>2 DEF Less
  <2>3. NotShared => (s.auto = "ALL" => Under(g))
    BY <1>1, <2>1, <2>2 DEF Whole, IndexFits, Under, d
  <2> QED BY <1>1, <2>1, <2>3, IdleWhole DEF After, Whole, g
<1>5. ASSUME call'[p] = call[p], call[p].op = "idle", Under(h) => Under(g)
      PROVE  After(p)
  BY <1>1, <1>5, WholeIdle DEF After
<1>6. CASE UnlockAll(p)
  <2>1. /\ call'[p] = call[p] /\ call[p].op = "idle" /\ err[p] \in BOOLEAN
        /\ g = LT!UnlockAll(h, err[p])
    BY <1>1, <1>6 DEF UnlockAll, Calling, IInv, TypeOK
  <2> HIDE DEF g, h
  <2> QED BY <1>1, <1>5, <2>1, UnlockAllUnder
<1>7. CASE UnlockAppend(p)
  <2>1. PICK d \in Data : g = LT!UnlockAppend(h, d)
    BY <1>1, <1>7 DEF UnlockAppend, DataOf
  <2>2. call'[p] = call[p] /\ call[p].op = "idle"
    BY <1>7 DEF UnlockAppend, Calling
  <2> HIDE DEF g, h
  <2>3. g.file = h.file /\ g.index = h.index
    BY <1>1, <2>1, UnlockLeaves
  <2> QED BY <1>5, <2>2, <2>3 DEF Under
<1>8. CASE ClearError(p)
  BY <1>5, <1>8 DEF ClearError, Calling
<1> QED BY <1>2, <1>3, <1>4, <1>6, <1>7, <1>8

(* A group that ends without all its locks gives back what it has.         *)
LEMMA GroupUndoWhole ==
  ASSUME IInv, Wholes, NEW p \in Procs, NEW rc, call[p].op = "group", GroupUndo(p, rc)
  PROVE  After(p)
<1> DEFINE h == held[p]
           s == set[p]
           q == queue[p]
           b == call[p]
           i == IF rc = "error" THEN b.at ELSE 1
           c == [Idle EXCEPT !.op = "undo", !.at = i, !.got = b.got, !.saved = b.saved,
                             !.base = b.base]
<1>1. /\ held'[p] = h /\ set'[p] = s /\ queue'[p] = q /\ call'[p] = c
      /\ Whole(h, s, b, q)
  BY Mine DEF GroupUndo, Wholes
<1>2. c.op = "undo" /\ c.todo = <<>> /\ c.got = b.got /\ c.saved = b.saved /\ c.base = b.base
  BY DEF Idle
<1> HIDE DEF h, s, q, c
<1>3. Shape(h, s, c, q) /\ Waiting(h, s, c)
  BY <1>1, <1>2 DEF Whole, Shape, Waiting
<1>4. NotShared => IndexFits(h, s, c)
  BY <1>1, <1>2 DEF Whole, IndexFits
<1>5. NoAll => Simple(q) /\ Simple(c.got) /\ Covered(h, c)
  BY <1>1, <1>2 DEF Whole, Covered
<1> QED BY <1>1, <1>3, <1>4, <1>5 DEF After, Whole

LEMMA InsertSimple ==
  ASSUME NEW q \in Seq(Wanted), NEW i \in 1 .. Len(q) + 1, NEW w \in Wanted,
         Simple(q), w.kind # "all"
  PROVE  Simple(InsertAt(q, i, w))
<1>1. /\ SubSeq(q, 1, i - 1) \in Seq(Wanted) /\ Len(SubSeq(q, 1, i - 1)) = i - 1
      /\ SubSeq(q, i, Len(q)) \in Seq(Wanted) /\ Len(SubSeq(q, i, Len(q))) = Len(q) - i + 1
      /\ \A j \in 1 .. i - 1 : SubSeq(q, 1, i - 1)[j] = q[j]
      /\ \A j \in 1 .. Len(q) - i + 1 : SubSeq(q, i, Len(q))[j] = q[i + j - 1]
  BY SubSeqProperties
<1>2. InsertAt(q, i, w) = SubSeq(q, 1, i - 1) \o <<w>> \o SubSeq(q, i, Len(q))
  BY DEF InsertAt
<1>3. Simple(SubSeq(q, 1, i - 1)) /\ Simple(SubSeq(q, i, Len(q)))
  BY <1>1 DEF Simple
<1> DEFINE a == SubSeq(q, 1, i - 1)
           b == SubSeq(q, i, Len(q))
<1>4. a \in Seq(Wanted) /\ b \in Seq(Wanted) /\ Simple(a) /\ Simple(b)
  BY <1>1, <1>3
<1> HIDE DEF a, b
<1>5. Simple(a \o <<w>> \o b)
  BY <1>4 DEF Simple
<1> QED BY <1>2, <1>5 DEF a, b

LEMMA UndoWhole ==
  ASSUME IInv, IInv', Wholes, NEW p \in Procs, Undo(p)
  PROVE  After(p)
<1> DEFINE h == held[p]
           s == set[p]
           q == queue[p]
           b == call[p]
           g == held'[p]
           n == Len(b.got)
           w == b.got[n]
           c == [b EXCEPT !.got = SubSeq(b.got, 1, n - 1)]
<1>1. /\ Good(h) /\ b \in Calls /\ b.got \in Seq(Wanted) /\ b.op = "undo" /\ CallFits(b, q)
      /\ call \in [Procs -> Calls] /\ held \in [Procs -> LT!Locks] /\ q \in Seq(Wanted)
      /\ queue \in [Procs -> Seq(Wanted)] /\ Whole(h, s, b, q)
      /\ set \in [Procs -> [auto : Autos, attempts : Tries, single : Tries]]
      /\ n \in Nat
  BY Mine DEF Undo, Wholes, Calls
<1>2. CASE /\ b.got # <<>>
           /\ held' = [held EXCEPT ![p] = GroupUnlock(@, b.got[n])]
           /\ queue' = [queue EXCEPT ![p] = InsertAt(@, b.at, b.got[n])]
           /\ call' = [call EXCEPT ![p].got = SubSeq(b.got, 1, n - 1)]
           /\ UNCHANGED set
  <2>1. n >= 1 /\ w \in Wanted
    BY <1>1, <1>2
  <2>2. /\ g = GroupUnlock(h, w) /\ queue'[p] = InsertAt(q, b.at, w) /\ call'[p] = c
        /\ set'[p] = s
    BY <1>1, <1>2
  <2>3. /\ c.op = "undo" /\ c.todo = b.todo /\ c.saved = b.saved /\ c.base = b.base
        /\ c.got = SubSeq(b.got, 1, n - 1)
    BY <1>1 DEF Calls
  <2>4. /\ DOMAIN c.got = 1 .. n - 1
        /\ \A i \in 1 .. n - 1 : c.got[i] = b.got[i] /\ i \in DOMAIN b.got /\ b.got[i] \in Wanted
        /\ \A i \in DOMAIN b.got : i \in 1 .. n - 1 \/ i = n
    BY <1>1, <2>1, <2>3
  <2> HIDE DEF c, g, h, s, q, n
  <2>5. Less(g, h)
    BY <1>1, <2>1, <2>2, GroupUnlockLess
  <2>6. Shape(g, s, c, queue'[p]) /\ Waiting(g, s, c)
    BY <1>1, <2>3 DEF Whole, Shape, Waiting
  <2>7. NotShared => IndexFits(g, s, c)
    <3> SUFFICES ASSUME NotShared, g.index # None,
                        s.auto = "ALL" \/ c.saved = "ALL"
                 PROVE  \E i \in DOMAIN c.got : c.got[i].kind = "all" /\ c.got[i].data = g.index
      BY <2>3 DEF IndexFits
    <3>1. g.index = h.index
      BY <2>5 DEF Less
    <3>2. s.auto = "OFF"
      BY <1>1 DEF Whole, Shape
    <3>3. PICK i \in DOMAIN b.got : b.got[i].kind = "all" /\ b.got[i].data = h.index
      BY <1>1, <2>3, <3>1, <3>2 DEF Whole, IndexFits
    <3>4. i # n
      BY <1>1, <2>1, <2>2, <3>1, <3>3, AllGoes
    <3> QED BY <2>4, <3>1, <3>3, <3>4
  <2>8. ASSUME NoAll PROVE Simple(queue'[p]) /\ Simple(c.got) /\ Covered(g, c)
    <3>1. Simple(q) /\ Simple(b.got) /\ Covered(h, b)
      BY <1>1, <2>8 DEF Whole
    <3>2. w.kind # "all" /\ b.at \in 1 .. Len(q) + 1
      BY <1>1, <2>1, <3>1 DEF Simple, CallFits, n
    <3>3. Simple(queue'[p])
      BY <1>1, <2>1, <2>2, <3>1, <3>2, InsertSimple
    <3>4. Simple(c.got)
      BY <2>4, <3>1 DEF Simple
    <3>5. ASSUME NEW x \in g.bytes \ c.base
          PROVE  \E i \in DOMAIN c.got : Gives(g, c.got[i], x)
      <4>1. x \in h.bytes \ b.base
        BY <2>3, <2>5 DEF Less
      <4>2. PICK i \in DOMAIN b.got : Gives(h, b.got[i], x)
        BY <1>1, <3>1, <4>1 DEF Covered
      <4>3. i # n
        BY <1>1, <2>1, <2>2, <4>2, GivesGoes
      <4>4. Gives(g, b.got[i], x)
        BY <1>1, <2>4, <2>5, <4>2, <4>3, GivesStays
      <4> QED BY <2>4, <4>3, <4>4
    <3>6. Covered(g, c)
      BY <3>5 DEF Covered
    <3> QED BY <3>3, <3>4, <3>6
  <2> QED BY <2>2, <2>6, <2>7, <2>8 DEF After, Whole, g
<1>3. CASE /\ b.got = <<>>
           /\ set' = [set EXCEPT ![p].auto = call[p].saved]
           /\ Return(p) /\ UNCHANGED <<held, queue>>
  <2>1. g = h /\ queue'[p] = q /\ call'[p] = Idle /\ set'[p].auto = b.saved
    BY <1>1, <1>3 DEF Return
  <2> HIDE DEF g, h, q
  <2>2. NotShared => (set'[p].auto = "ALL" => Under(g))
    BY <1>1, <1>3, <2>1 DEF Whole, IndexFits, Under
  <2> QED BY <1>1, <2>1, <2>2, IdleWhole DEF After, Whole, g
<1> QED BY <1>2, <1>3 DEF Undo

LEMMA GroupWhole ==
  ASSUME IInv, IInv', Wholes, NEW p \in Procs, GroupStart(p) \/ GroupRound(p)
  PROVE  After(p)
<1> DEFINE h == held[p]
           s == set[p]
           q == queue[p]
           b == call[p]
           g == held'[p]
<1>1. /\ Good(h) /\ b \in Calls /\ CallFits(b, q) /\ auto(p) = s.auto
      /\ call \in [Procs -> Calls] /\ held \in [Procs -> LT!Locks] /\ q \in Seq(Wanted)
      /\ queue \in [Procs -> Seq(Wanted)] /\ Whole(h, s, b, q)
      /\ set \in [Procs -> [auto : Autos, attempts : Tries, single : Tries]]
  BY Mine DEF Wholes
<1>2. CASE GroupStart(p)
  <2> DEFINE B == IF auto(p) = "ALL" THEN LT!UnlockAll(h, FALSE) ELSE h
             k == Len(q) + 1
             c == [Idle EXCEPT !.op = "group", !.at = k, !.round = -1,
                               !.saved = auto(p), !.base = B.bytes]
  <2>1. g = B /\ call'[p] = c /\ set'[p].auto = "OFF" /\ queue'[p] = q /\ b.op = "idle"
    BY <1>1, <1>2 DEF GroupStart, Calling
  <2>2. c.op = "group" /\ c.todo = <<>> /\ c.got = <<>> /\ c.saved = s.auto /\ c.base = B.bytes
    BY <1>1 DEF Idle
  <2> HIDE DEF c, g, h, s, q, b
  <2>3. s.auto = "ALL" => g.index = None
    <3>1. s.auto = "ALL" => g = LT!UnlockAll(h, FALSE) /\ Less(g, h)
      BY <1>1, <2>1, UnlockAllLess
    <3>2. CASE Data = {}
      BY <3>1, <3>2 DEF Less, Good, LT!Locks
    <3>3. CASE Data # {}
      BY <1>1, <3>1, <3>3, UnlockAllFrees, NoBytesNothing DEF Less
    <3> QED BY <3>2, <3>3
  <2> HIDE DEF B
  <2>4. Shape(g, set'[p], c, q) /\ Waiting(g, set'[p], c)
    BY <2>1, <2>2 DEF Shape, Waiting
  <2>5. IndexFits(g, set'[p], c)
    BY <2>1, <2>2, <2>3 DEF IndexFits
  <2>6. Simple(c.got) /\ Covered(g, c)
    <3>1. g.bytes \ c.base = {}
      BY <2>1, <2>2
    <3> QED BY <2>2, <3>1 DEF Covered, Simple
  <2> QED BY <1>1, <2>1, <2>4, <2>5, <2>6 DEF After, Whole, g
<1>3. CASE GroupRound(p)
  <2>1. CASE /\ set' = [set EXCEPT ![p].auto = call[p].saved]
             /\ Return(p) /\ UNCHANGED <<held, queue>>
    <3>1. g = h /\ queue'[p] = q /\ call'[p] = Idle /\ set'[p].auto = b.saved /\ b.op = "group"
      BY <1>1, <1>3, <2>1 DEF Return, GroupRound
    <3> HIDE DEF g, h, q, b
    <3>2. NotShared => (set'[p].auto = "ALL" => Under(g))
      BY <1>1, <3>1 DEF Whole, IndexFits, Under
    <3> QED BY <1>1, <3>1, <3>2, IdleWhole DEF After, Whole, g
  <2>2. CASE GroupUndo(p, "locked")
    BY <1>3, <2>2, GroupUndoWhole DEF GroupRound
  <2>3. CASE /\ q # <<>>
             /\ call' = [call EXCEPT ![p] =
                  [@ EXCEPT !.round = IF single(p) = WAIT4EVER THEN 0 ELSE b.round + 1,
                            !.at = 1, !.left = attempts(p), !.todo = Parts(q[1])]]
             /\ UNCHANGED <<held, set, queue>>
    <3> DEFINE m == IF single(p) = WAIT4EVER THEN 0 ELSE b.round + 1
               todo == Parts(q[1])
               c == [b EXCEPT !.round = m, !.at = 1, !.left = attempts(p), !.todo = todo]
    <3>1. /\ g = h /\ call'[p] = c /\ set'[p] = s /\ queue'[p] = q /\ b.op = "group"
      BY <1>1, <1>3, <2>3 DEF GroupRound
    <3>2. /\ c.op = "group" /\ c.at = 1 /\ c.todo = todo /\ c.got = b.got /\ c.saved = b.saved
          /\ c.base = b.base
      BY <1>1, <3>1 DEF Calls
    <3> HIDE DEF c, g, h, s, q, b
    <3>3. TodoFits(h, c.todo, q[c.at])
      BY <3>2 DEF TodoFits
    <3>4. Shape(h, s, c, q) /\ Waiting(h, s, c)
      BY <1>1, <3>1, <3>2, <3>3 DEF Whole, Shape, Waiting
    <3>5. NotShared => IndexFits(h, s, c)
      BY <1>1, <3>1, <3>2 DEF Whole, IndexFits
    <3>6. NoAll => Simple(q) /\ Simple(c.got) /\ Covered(h, c)
      BY <1>1, <3>1, <3>2 DEF Whole, Covered
    <3> QED BY <3>1, <3>4, <3>5, <3>6 DEF After, Whole, g
  <2> QED BY <1>3, <2>1, <2>2, <2>3 DEF GroupRound
<1> QED BY <1>2, <1>3

(* What a try asks for: a part of the request, the indexes last and only   *)
(* under the file lock.                                                    *)
Part1(h, t, todo, w) ==
  /\ t.kind = "index" => /\ w.kind = "all" /\ Len(todo) = 1 /\ t.data = w.data
                         /\ LT!Held(h, LT!Target("file", w.data))
  /\ w.kind # "all" => todo = <<w>> /\ Len(todo) = 1 /\ t = w
  /\ Len(todo) # 1 /\ Tail(todo) # <<>> =>
       w.kind = "all" /\ Tail(todo) # Parts(LT!Target("all", w.data))

LEMMA TodoParts ==
  ASSUME NEW h, NEW w \in Wanted, NEW todo, TodoFits(h, todo, w)
  PROVE  Part1(h, todo[1], todo, w)
<1> USE DEF Part1
<1> DEFINE T(k) == LT!Target(k, w.data)
<1>1. CASE w.kind # "all"
  <2>1. todo = <<w>>
    BY <1>1 DEF TodoFits, Parts
  <2>2. Len(todo) = 1 /\ todo[1] = w
    BY <2>1
  <2> QED BY <1>1, <2>1, <2>2 DEF Wanted
<1>2. CASE w.kind = "all"
  <2>1. Parts(w) = <<T("file"), T("memo"), T("index")>>
    BY <1>2 DEF Parts
  <2>2. Parts(LT!Target("all", w.data)) = <<T("file"), T("memo"), T("index")>>
    BY DEF Parts, LT!Target
  <2>3. CASE todo = Parts(w)
    <3>1. Len(todo) = 3 /\ todo[1] = T("file") /\ Tail(todo) = <<T("memo"), T("index")>>
      BY <2>1, <2>3
    <3>2. todo[1].kind = "file"
      BY <3>1 DEF LT!Target
    <3>3. Tail(todo) # Parts(LT!Target("all", w.data))
      BY <2>2, <3>1
    <3> QED BY <1>2, <3>1, <3>2, <3>3
  <2>4. CASE todo = <<T("memo"), T("index")>>
    <3>1. Len(todo) = 2 /\ todo[1] = T("memo") /\ Tail(todo) = <<T("index")>>
      BY <2>4
    <3>2. todo[1].kind = "memo"
      BY <3>1 DEF LT!Target
    <3>3. Tail(todo) # Parts(LT!Target("all", w.data))
      <4>1. Len(Tail(todo)) = 1 /\ Len(Parts(LT!Target("all", w.data))) = 3
        BY <2>2, <3>1
      <4> QED BY <4>1
    <3> QED BY <1>2, <3>1, <3>2, <3>3
  <2>5. CASE LT!Held(h, T("file")) /\ todo = <<T("index")>>
    <3>1. Len(todo) = 1 /\ todo[1] = T("index")
      BY <2>5
    <3>2. todo[1].data = w.data
      BY <3>1 DEF LT!Target
    <3> QED BY <1>2, <2>5, <3>1, <3>2
  <2> QED BY <1>2, <2>3, <2>4, <2>5 DEF TodoFits
<1> QED BY <1>1, <1>2

(* The request a call is at. *)
LEMMA RequestOf ==
  ASSUME NEW h, Good(h), NEW s, NEW c \in Calls, NEW q \in Seq(Wanted), Whole(h, s, c, q),
         CallFits(c, q), c.op \in {"one", "all", "group"}, c.todo # <<>>
  PROVE  \E w \in Wanted : /\ TodoFits(h, c.todo, w)
                           /\ c.op = "one" => w.kind # "all"
                           /\ c.op = "all" => w = LT!Target("all", c.data)
                           /\ c.op = "group" => w = q[c.at]
<1>1. CASE c.op = "one"
  <2>1. PICK w \in Wanted : w.kind # "all" /\ c.todo = Parts(w)
    BY <1>1 DEF Whole, Shape
  <2> QED BY <1>1, <2>1 DEF TodoFits
<1>2. CASE c.op = "all"
  <2>1. LT!Target("all", c.data) \in Wanted
    BY <1>2 DEF CallFits, Wanted, LT!Target
  <2> QED BY <1>2, <2>1 DEF Whole, Shape
<1>3. CASE c.op = "group"
  <2>1. c.at \in 1 .. Len(q)
    BY <1>3 DEF CallFits, Calls
  <2>2. q[c.at] \in Wanted
    BY <2>1
  <2> QED BY <1>3, <2>2 DEF Whole, Shape
<1> QED BY <1>1, <1>2, <1>3

LEMMA RemoveSimple ==
  ASSUME NEW q \in Seq(Wanted), NEW i \in 1 .. Len(q), Simple(q)
  PROVE  Simple(RemoveAt(q, i))
<1> DEFINE a == SubSeq(q, 1, i - 1)
           b == SubSeq(q, i + 1, Len(q))
<1>1. /\ a \in Seq(Wanted) /\ Len(a) = i - 1 /\ \A j \in 1 .. i - 1 : a[j] = q[j]
      /\ b \in Seq(Wanted) /\ Len(b) = Len(q) - i
      /\ \A j \in 1 .. Len(q) - i : b[j] = q[i + j]
  BY SubSeqProperties
<1>2. RemoveAt(q, i) = a \o b
  BY DEF RemoveAt
<1> HIDE DEF a, b
<1>3. Simple(a)
  BY <1>1 DEF Simple
<1>4. Simple(b)
  <2>1. ASSUME NEW j \in DOMAIN b PROVE b[j].kind # "all"
    <3>1. j \in 1 .. Len(q) - i /\ Len(q) \in Nat /\ DOMAIN q = 1 .. Len(q)
      <4>1. DOMAIN b = 1 .. Len(b)
        BY <1>1
      <4> QED BY <1>1, <2>1, <4>1
    <3>2. i + j \in DOMAIN q /\ b[j] = q[i + j]
      BY <1>1, <3>1
    <3> QED BY <3>2 DEF Simple
  <2> QED BY <2>1 DEF Simple
<1> QED BY <1>1, <1>2, <1>3, <1>4 DEF Simple

(* One part more, or one that was there.                                   *)
LEMMA AdvanceWhole ==
  ASSUME IInv, IInv', Wholes, NEW p \in Procs, Calling(p), call[p].todo # <<>>,
         Takes(held[p], call[p].todo[1], held'[p]), Advance(p)
  PROVE  After(p)
<1> DEFINE h == held[p]
           s == set[p]
           q == queue[p]
           b == call[p]
           g == held'[p]
           t == b.todo[1]
<1>1. /\ Good(h) /\ Good(g) /\ b \in Calls /\ CallFits(b, q) /\ q \in Seq(Wanted)
      /\ call \in [Procs -> Calls] /\ queue \in [Procs -> Seq(Wanted)] /\ Whole(h, s, b, q)
      /\ set'[p] = s /\ b.todo \in Seq(Part) /\ b.got \in Seq(Wanted) /\ t \in Part
  <2>1. b \in Calls /\ b.todo \in Seq(Part)
    BY Mine DEF Calls
  <2>2. t \in Part
    BY <2>1
  <2> QED BY <2>1, <2>2, Mine DEF Wholes, Takes, Advance, Calls
<1>2. b.op \in {"one", "all", "keys", "group"}
  BY <1>1 DEF Whole, Shape, Calling, Calls, Ops
<1>3. LT!Held(g, t) /\ Keeps(h, g)
  BY TakesKeeps
<1>4. /\ t.kind # "index" => g.index = h.index
      /\ t.kind = "index" => g.index \in {h.index, t.data} /\ g.file = h.file
  <2>1. CASE g = h
    BY <2>1
  <2>2. CASE g # h
    BY <1>1, <2>2, TakeFields DEF Takes
  <2> QED BY <2>1, <2>2
<1>5. CASE b.op = "keys"
  <2>1. b.todo = <<LT!Target("index", b.data)>>
    BY <1>1, <1>5 DEF Whole, Shape
  <2>2. Len(b.todo) = 1 /\ t = LT!Target("index", b.data)
    BY <2>1
  <2>3. t.kind = "index" /\ t.data = b.data
    BY <2>2 DEF LT!Target
  <2> DEFINE c == [b EXCEPT !.todo = <<>>]
  <2>4. call'[p] = c /\ queue'[p] = q
    BY <1>1, <1>5, <2>2 DEF Advance, Done
  <2>5. c.op = "keys" /\ c.data = b.data /\ c.todo = <<>> /\ c.got = b.got
    BY <1>1, <1>5 DEF Calls
  <2> HIDE DEF h, s, q, b, g, t, c
  <2>6. Shape(g, s, c, q) /\ Waiting(g, s, c) /\ Covered(g, c)
    BY <2>5 DEF Shape, Waiting, Covered
  <2>7. NotShared => IndexFits(g, s, c)
    BY <1>1, <1>4, <1>5, <2>3, <2>5 DEF Whole, IndexFits
  <2> QED BY <1>1, <2>4, <2>5, <2>6, <2>7 DEF Whole, After, g
<1>6. CASE b.op \in {"one", "all", "group"}
  <2>1. PICK w \in Wanted : /\ TodoFits(h, b.todo, w)
                            /\ b.op = "one" => w.kind # "all"
                            /\ b.op = "all" => w = LT!Target("all", b.data)
                            /\ b.op = "group" => w = q[b.at]
    BY <1>1, <1>6, RequestOf
  <2>2. /\ Len(b.todo) # 1 => TodoFits(g, Tail(b.todo), w)
        /\ Len(b.todo) = 1 => \A u \in ToSet(Parts(w)) : LT!Held(g, u)
    BY <1>3, <2>1, TodoGoesOn
  <2>a. Part1(h, t, b.todo, w)
    BY <2>1, TodoParts
  <2>3. NotShared => (Under(h) => Under(g))
    <3>1. t.kind = "index" => t.data = w.data /\ LT!Held(h, LT!Target("file", w.data))
      BY <2>a DEF Part1
    <3> HIDE DEF h, g, t
    <3> QED BY <3>1, TakesUnder DEF h, g, t
  <2>4. CASE Len(b.todo) # 1
    <3> DEFINE c == [b EXCEPT !.todo = Tail(@), !.left = attempts(p)]
    <3>1. call'[p] = c /\ queue'[p] = q
      BY <1>1, <2>4 DEF Advance
    <3>2. /\ c.op = b.op /\ c.data = b.data /\ c.todo = Tail(b.todo) /\ c.got = b.got
          /\ c.at = b.at /\ c.saved = b.saved /\ c.base = b.base
      BY <1>1 DEF Calls
    <3>3. Tail(b.todo) # <<>>
      <4>1. Len(b.todo) \in Nat /\ Len(b.todo) # 0
        BY <1>1
      <4>2. Len(Tail(b.todo)) = Len(b.todo) - 1
        BY <1>1, <4>1
      <4>3. Len(Tail(b.todo)) # 0
        BY <2>4, <4>1, <4>2
      <4> DEFINE r == Tail(b.todo)
      <4>4. Len(r) # 0
        BY <4>3
      <4> HIDE DEF r
      <4>5. r # <<>>
        BY <4>4
      <4> QED BY <4>5 DEF r
    <3>4. /\ w.kind = "all" /\ c.todo # Parts(LT!Target("all", w.data))
          /\ t.kind # "index"
      BY <2>a, <2>4, <3>2, <3>3 DEF Part1
    <3> HIDE DEF c
    <3>5. b.op = "all" => w.data = b.data /\ w = LT!Target("all", c.data)
      BY <2>1, <3>2 DEF LT!Target
    <3>6. Shape(g, s, c, q)
      <4>1. c.op = "all" => TodoFits(g, c.todo, LT!Target("all", c.data))
        BY <2>2, <2>4, <3>2, <3>5
      <4>2. c.op = "group" => TodoFits(g, c.todo, q[c.at])
        BY <2>1, <2>2, <2>4, <3>2
      <4>3. ASSUME c.op = "group", NEW i \in DOMAIN c.got, NEW u \in ToSet(Parts(c.got[i]))
            PROVE  LT!Held(g, u)
        <5>1. c.got[i] \in Wanted
          BY <1>1, <3>2, <4>3
        <5>2. Parts(c.got[i]) \in Seq(Part)
          BY <5>1, PartsOf
        <5>3. u \in Part
          BY <4>3, <5>2 DEF ToSet
        <5>4. LT!Held(h, u)
          BY <1>1, <3>2, <4>3 DEF Whole, Shape
        <5> QED BY <1>3, <5>3, <5>4 DEF Keeps
      <4>4. c.op \in {"group", "undo"} => s.auto = "OFF"
        BY <1>1, <3>2 DEF Whole, Shape
      <4>5. c.op \in {"all", "group"}
        BY <1>6, <2>1, <3>2, <3>4
      <4> QED BY <4>1, <4>2, <4>3, <4>4, <4>5 DEF Shape
    <3>7. NotShared => Waiting(g, s, c)
      <4> SUFFICES ASSUME NotShared, c.op \in {"one", "all"}
                   PROVE  c.op = "all" /\ g.file = c.data /\ c.todo # Parts(LT!Target("all", c.data))
        BY DEF Waiting
      <4>1. c.op = "all" /\ w.data = c.data /\ c.data \in Data
        BY <1>1, <2>1, <3>2, <3>4, <3>5 DEF CallFits
      <4>2. TodoFits(g, c.todo, w) /\ w = LT!Target("all", c.data)
        BY <2>2, <2>4, <3>2, <3>5, <4>1
      <4>3. LT!Held(g, LT!Target("file", c.data))
        BY <3>4, <4>1, <4>2 DEF TodoFits
      <4>4. g.file = c.data
        BY <1>1, <4>1, <4>3, HeldFile
      <4> QED BY <3>4, <4>1, <4>4
    <3>8. NotShared => IndexFits(g, s, c)
      <4>1. NotShared => IndexFits(h, s, b) /\ (Under(h) => Under(g)) /\ g.index = h.index
        BY <1>1, <1>4, <2>3, <3>4 DEF Whole
      <4> HIDE DEF h, g, b, s
      <4> QED BY <1>6, <3>2, <4>1 DEF IndexFits, Under
    <3>9. NoAll => Simple(q) /\ Simple(c.got) /\ Covered(g, c)
      <4>1. NoAll => Simple(q) /\ Simple(c.got)
        BY <1>1, <3>2 DEF Whole
      <4>2. ASSUME NoAll, c.op = "group" PROVE FALSE
        <5>1. b.at \in DOMAIN q
          BY <1>1, <3>2, <4>2 DEF CallFits, Calls
        <5> QED BY <2>1, <3>2, <3>4, <4>1, <4>2, <5>1 DEF Simple
      <4>3. c.op # "undo"
        BY <1>6, <3>2
      <4> QED BY <4>1, <4>2, <4>3 DEF Covered
    <3> HIDE DEF g
    <3> QED BY <1>1, <3>1, <3>6, <3>7, <3>8, <3>9 DEF Whole, After, g
  <2>5. CASE Len(b.todo) = 1 /\ b.op \in {"one", "all"}
    <3>1. call'[p] = Idle /\ queue'[p] = q
      BY <1>1, <2>5 DEF Advance, Done, Return
    <3>2. NotShared => (s.auto = "ALL" => Under(h))
      <4> HIDE DEF h, s, b
      <4> QED BY <1>1, <2>5 DEF Whole, IndexFits, Under
    <3> HIDE DEF h, s, q, b, g
    <3> QED BY <1>1, <2>3, <3>1, <3>2, IdleWhole DEF After, Whole, g
  <2>6. CASE Len(b.todo) = 1 /\ b.op = "group"
    <3> DEFINE got == Append(b.got, w)
               r == RemoveAt(q, b.at)
               todo == IF b.at <= Len(r) THEN Parts(r[b.at]) ELSE <<>>
               c == [b EXCEPT !.at = b.at, !.got = got, !.left = attempts(p), !.todo = todo]
               n == Len(b.got) + 1
    <3>1. call'[p] = c /\ queue'[p] = r
      BY <1>1, <2>1, <2>6 DEF Advance, Done, GroupNext
    <3>2. /\ c.op = "group" /\ c.todo = todo /\ c.got = got /\ c.at = b.at
          /\ c.saved = b.saved /\ c.base = b.base
      BY <1>1, <2>6 DEF Calls
    <3>3. /\ DOMAIN got = 1 .. n /\ got[n] = w /\ n \in DOMAIN got
          /\ \A i \in DOMAIN b.got : got[i] = b.got[i] /\ i \in DOMAIN got
          /\ \A i \in DOMAIN got : i \in DOMAIN b.got \/ i = n
      BY <1>1
    <3> HIDE DEF c, got, r, todo, n
    <3>4. Shape(g, s, c, r)
      <4>1. c.todo = <<>> \/ TodoFits(g, c.todo, r[c.at])
        BY <3>2 DEF todo, TodoFits
      <4>2. ASSUME NEW i \in DOMAIN got, NEW u \in ToSet(Parts(got[i]))
            PROVE  LT!Held(g, u)
        <5>1. CASE i = n
          BY <2>2, <2>6, <3>3, <4>2, <5>1
        <5>2. CASE i \in DOMAIN b.got
          <6>1. b.got[i] \in Wanted /\ got[i] = b.got[i]
            BY <1>1, <3>3, <5>2
          <6>2. Parts(got[i]) \in Seq(Part)
            BY <6>1, PartsOf
          <6>3. u \in Part
            BY <4>2, <6>2 DEF ToSet
          <6>4. LT!Held(h, u)
            BY <1>1, <2>6, <4>2, <5>2, <6>1 DEF Whole, Shape
          <6> QED BY <1>3, <6>3, <6>4 DEF Keeps
        <5> QED BY <3>3, <5>1, <5>2
      <4>3. s.auto = "OFF"
        BY <1>1, <2>6 DEF Whole, Shape
      <4> QED BY <3>2, <4>1, <4>2, <4>3 DEF Shape
    <3>5. Waiting(g, s, c)
      BY <3>2 DEF Waiting
    <3>6. ASSUME NotShared PROVE IndexFits(g, s, c)
      <4> SUFFICES ASSUME g.index # None, c.saved = "ALL"
                   PROVE  /\ g.file = g.index
                          /\ \E i \in DOMAIN c.got : c.got[i].kind = "all" /\ c.got[i].data = g.index
        <5>1. s.auto = "OFF"
          BY <1>1, <2>6 DEF Whole, Shape
        <5> QED BY <3>2, <5>1 DEF IndexFits
      <4>1. IndexFits(h, s, b) /\ (Under(h) => Under(g))
        BY <1>1, <2>3, <3>6 DEF Whole
      <4>2. h.index # None => /\ h.file = h.index
                              /\ \E i \in DOMAIN b.got : b.got[i].kind = "all" /\ b.got[i].data = h.index
        BY <2>6, <3>2, <4>1 DEF IndexFits
      <4>3. g.file = g.index
        BY <4>1, <4>2 DEF Under
      <4>4. CASE g.index = h.index
        BY <3>2, <3>3, <4>2, <4>3, <4>4
      <4>5. CASE g.index # h.index
        <5>1. t.kind = "index" /\ g.index = t.data
          BY <1>4, <4>5
        <5>2. w.kind = "all" /\ w.data = t.data
          BY <2>a, <5>1 DEF Part1
        <5> QED BY <3>2, <3>3, <4>3, <5>1, <5>2
      <4> QED BY <4>3, <4>4, <4>5
    <3>7. ASSUME NoAll PROVE Simple(r) /\ Simple(c.got) /\ Covered(g, c)
      <4>1. Simple(q) /\ Simple(b.got) /\ Covered(h, b) /\ b.at \in 1 .. Len(q)
        BY <1>1, <2>6, <3>7 DEF Whole, CallFits, Calls
      <4>2. w.kind # "all" /\ w = t /\ w.kind \in {"record", "append", "file"}
        <5>1. w.kind # "all"
          BY <1>1, <2>1, <2>6, <4>1 DEF Simple
        <5> QED BY <2>a, <5>1 DEF Part1, Wanted
      <4>3. Simple(r)
        BY <1>1, <4>1, RemoveSimple DEF r
      <4>4. Simple(c.got)
        BY <3>2, <3>3, <4>1, <4>2 DEF Simple
      <4>5. ASSUME NEW x \in g.bytes \ c.base
            PROVE  \E i \in DOMAIN c.got : Gives(g, c.got[i], x)
        <5>1. x \in h.bytes \/ Gives(g, w, x)
          BY <4>2, TakesGives
        <5>2. CASE x \in h.bytes
          <6>1. PICK i \in DOMAIN b.got : Gives(h, b.got[i], x)
            BY <2>6, <3>2, <4>1, <4>5, <5>2 DEF Covered
          <6>2. b.got[i] \in Wanted
            BY <1>1
          <6>3. Gives(g, b.got[i], x)
            BY <6>1, <6>2, TakesGives
          <6> QED BY <3>2, <3>3, <6>3
        <5>3. CASE Gives(g, w, x)
          BY <3>2, <3>3, <5>3
        <5> QED BY <5>1, <5>2, <5>3
      <4> QED BY <4>3, <4>4, <4>5 DEF Covered
    <3> HIDE DEF g, s
    <3> QED BY <1>1, <3>1, <3>4, <3>5, <3>6, <3>7 DEF Whole, After, g
  <2> QED BY <1>6, <2>4, <2>5, <2>6
<1> QED BY <1>2, <1>5, <1>6

(* The same call goes on, or a group with its next lock.                   *)
LEMMA GoesOnWhole ==
  ASSUME NEW h, NEW s, NEW b, NEW c, NEW q, Whole(h, s, b, q),
         c.op = b.op, c.data = b.data, c.got = b.got, c.saved = b.saved, c.base = b.base,
         \/ c.todo = b.todo /\ c.at = b.at
         \/ b.op = "group" /\ (c.todo = <<>> \/ c.todo = Parts(q[c.at]))
  PROVE  Whole(h, s, c, q)
<1>1. Shape(h, s, c, q)
  BY DEF Whole, Shape, TodoFits
<1>2. Waiting(h, s, b) => Waiting(h, s, c)
  BY DEF Waiting
<1>3. IndexFits(h, s, b) => IndexFits(h, s, c)
  BY DEF IndexFits
<1>4. Covered(h, b) => Covered(h, c)
  BY DEF Covered
<1> QED BY <1>1, <1>2, <1>3, <1>4 DEF Whole

LEMMA FailWhole ==
  ASSUME IInv, IInv', Wholes, NEW p \in Procs, NEW rc, Calling(p), call[p].todo # <<>>,
         ~LT!Held(held[p], call[p].todo[1]), Fail(p, rc)
  PROVE  After(p)
<1> DEFINE h == held[p]
           s == set[p]
           q == queue[p]
           b == call[p]
           g == held'[p]
<1>1. /\ Good(h) /\ b \in Calls /\ CallFits(b, q) /\ q \in Seq(Wanted) /\ auto(p) = s.auto
      /\ call \in [Procs -> Calls] /\ held \in [Procs -> LT!Locks] /\ Whole(h, s, b, q)
  BY Mine DEF Wholes
<1>2. CASE /\ b.op # "group"
           /\ held' = [held EXCEPT ![p] = IF b.op = "all" THEN AfterFailure(p, b.data, rc) ELSE @]
           /\ Return(p) /\ UNCHANGED <<set, queue>>
  <2>1. /\ g = (IF b.op = "all" THEN AfterFailure(p, b.data, rc) ELSE h)
        /\ call'[p] = Idle /\ set'[p] = s /\ queue'[p] = q
    BY <1>1, <1>2 DEF Return
  <2>2. ASSUME NotShared, s.auto = "ALL" PROVE Under(g)
    <3>1. CASE b.op = "all"
      <4>1. Under(h)
        BY <1>1, <2>2, <3>1 DEF Whole, IndexFits, Under
      <4>2. g = LT!UnlockAll(h, rc = "error")
        BY <1>1, <2>1, <2>2, <3>1 DEF AfterFailure
      <4> HIDE DEF g, h
      <4> QED BY <1>1, <4>1, <4>2, UnlockAllUnder
    <3>2. CASE b.op = "one"
      BY <1>1, <2>1, <2>2, <3>2 DEF Whole, IndexFits, Under
    <3>3. CASE b.op = "keys"
      <4>1. b.todo = <<LT!Target("index", b.data)>>
        BY <1>1, <3>3 DEF Whole, Shape
      <4>2. b.todo[1] = LT!Target("index", b.data)
        BY <4>1
      <4>3. h.index # b.data
        BY <4>2 DEF LT!Held, LT!Target
      <4> QED BY <1>1, <2>1, <2>2, <3>3, <4>3 DEF Whole, IndexFits, Under
    <3> QED BY <1>1, <1>2, <3>1, <3>2, <3>3 DEF Whole, Shape, Calling, Calls, Ops
  <2> HIDE DEF g, s, q
  <2> QED BY <1>1, <2>1, <2>2, IdleWhole DEF After, Whole, g
<1>3. CASE b.op = "group" /\ GroupUndo(p, rc)
  BY <1>3, GroupUndoWhole
<1>4. CASE /\ b.op = "group"
           /\ GroupNext(p, queue[p], IF single(p) = 1 THEN Len(queue[p]) + 1 ELSE b.at + 1, b.got)
           /\ UNCHANGED <<held, set, queue>>
  <2> DEFINE i == IF single(p) = 1 THEN Len(queue[p]) + 1 ELSE b.at + 1
             todo == IF i <= Len(q) THEN Parts(q[i]) ELSE <<>>
             c == [b EXCEPT !.at = i, !.got = b.got, !.left = attempts(p), !.todo = todo]
  <2>1. g = h /\ set'[p] = s /\ queue'[p] = q /\ call'[p] = c
    BY <1>1, <1>4 DEF GroupNext
  <2>2. /\ c.op = b.op /\ c.data = b.data /\ c.got = b.got /\ c.saved = b.saved
        /\ c.base = b.base /\ c.todo = todo /\ c.at = i
    BY <1>1 DEF Calls
  <2>3. todo = <<>> \/ todo = Parts(q[i])
    OBVIOUS
  <2> HIDE DEF c, todo, i, h, s, q, b, g
  <2> QED BY <1>1, <1>4, <2>1, <2>2, <2>3, GoesOnWhole DEF After, g
<1> QED BY <1>2, <1>3, <1>4 DEF Fail

LEMMA TryWhole ==
  ASSUME IInv, IInv', Wholes, NEW p \in Procs, Try(p)
  PROVE  After(p)
<1> DEFINE t == call[p].todo[1]
           h == held[p]
<1>1. /\ Good(h) /\ Good(held'[p]) /\ call[p] \in Calls /\ held \in [Procs -> LT!Locks]
      /\ call \in [Procs -> Calls] /\ Calling(p) /\ call[p].todo # <<>>
  BY Mine DEF Try, IInv, LocksGood
<1>2. t \in Part
  BY <1>1 DEF Calls
<1>3. CASE LT!Held(h, t) /\ UNCHANGED held /\ Advance(p)
  BY <1>1, <1>2, <1>3, AdvanceWhole DEF Takes
<1>4. ASSUME NEW rc, ~LT!Held(h, t), Fail(p, rc) PROVE After(p)
  BY <1>1, <1>4, FailWhole
<1>5. CASE /\ ~LT!Held(h, t) /\ ~LT!Refused(h, t) /\ Free(t)
           /\ held' = [held EXCEPT ![p] = LT!Take(h, t)]
           /\ Advance(p)
  <2>1. held'[p] = LT!Take(h, t) /\ LT!BytesOf(t) \cap h.bytes = {}
    BY <1>1, <1>5 DEF Free
  <2>2. Takes(h, t, held'[p])
    BY <1>1, <1>2, <1>5, <2>1 DEF Takes
  <2> QED BY <1>1, <1>5, <2>2, AdvanceWhole
<1>6. CASE /\ call' = [call EXCEPT ![p].left = @ - 1]
           /\ UNCHANGED <<set, held, queue>>
  <2> DEFINE b == call[p]
             c == [b EXCEPT !.left = @ - 1]
  <2>1. /\ call'[p] = c /\ c.op = b.op /\ c.data = b.data /\ c.got = b.got
        /\ c.saved = b.saved /\ c.base = b.base /\ c.todo = b.todo /\ c.at = b.at
    BY <1>1, <1>6 DEF Calls
  <2>2. Whole(held[p], set[p], b, queue[p])
    BY DEF Wholes
  <2> HIDE DEF b, c
  <2> QED BY <1>6, <2>1, <2>2, GoesOnWhole DEF After
<1> HIDE DEF t, h
<1> QED BY <1>3, <1>4, <1>5, <1>6 DEF Try, t, h

-----------------------------------------------------------------------------
(* Every reachable state. *)

LEMMA InitWholes == Init => Wholes
<1> SUFFICES ASSUME Init, NEW p \in Procs
             PROVE  Whole(held[p], set[p], call[p], queue[p])
  BY DEF Wholes
<1>1. /\ held[p] = LT!NoLocks /\ call[p] = Idle /\ queue[p] = <<>>
  BY DEF Init
<1>2. Under(LT!NoLocks)
  BY DEF Under, LT!NoLocks
<1> QED BY <1>1, <1>2, IdleWhole DEF Simple

LEMMA StepWhole ==
  ASSUME IInv, IInv', Wholes, NEW p \in Procs, Step(p)
  PROVE  After(p)
<1>1. CASE LockRecord(p) \/ LockAppend(p) \/ LockFile(p) \/ LockAll(p)
  <2>1. \A d \in DataOf(p) :
          /\ \A r \in Recs : LT!Record(d, r) \in Wanted
          /\ LT!Target("append", d) \in Wanted /\ LT!Target("file", d) \in Wanted
          /\ LT!Target("all", d) \in Wanted
    BY DEF DataOf, Wanted, LT!Record, LT!Target
  <2> QED BY <1>1, <2>1, AskWhole DEF LockRecord, LockAppend, LockFile, LockAll
<1> QED BY <1>1, KeysWhole, TryWhole, UndoWhole, QueueWhole, GroupWhole, UnlockWhole DEF Step

LEMMA NextWholes ==
  ASSUME IInv, IInv', Wholes, [Next]_vars
  PROVE  Wholes'
<1>1. CASE UNCHANGED vars
  BY <1>1 DEF vars, Wholes
<1>2. ASSUME NEW p \in Procs, Step(p) PROVE Wholes'
  <2>1. After(p)
    BY <1>2, StepWhole
  <2>2. \A q \in Procs : q # p => Same(q)
    BY <1>2, StepIsMine
  <2> QED BY <2>1, <2>2 DEF Wholes, After, Same
<1> QED BY <1>1, <1>2 DEF Next, Step

(* The second inductive invariant, over the first.                         *)
THEOREM CallsInvariant == Spec => [](IInv /\ Wholes)
<1>1. IInv /\ Wholes /\ IInv' /\ [Next]_vars => Wholes'
  BY NextWholes
<1> QED BY <1>1, InitIInv, NextIInv, InitWholes, PTL DEF Spec

-----------------------------------------------------------------------------
(* Who waits and has something has the file, and waits for the rest.       *)
LEMMA WaiterHasTheFile ==
  ASSUME NotShared, IInv, Wholes,
         NEW r \in Procs, NEW s \in Procs, Waits(r, s), held[r].bytes # {}
  PROVE  /\ call[r].op = "all" /\ call[r].data \in Data /\ held[r].file = call[r].data
         /\ set[r].auto = "ALL" /\ ~LT!Held(held[r], call[r].todo[1])
         /\ call[r].todo # Parts(LT!Target("all", call[r].data))
         /\ Whole(held[r], set[r], call[r], queue[r])
<1>1. Waiting(held[r], set[r], call[r])
  BY DEF Wholes, Whole
<1>2. call[r].op \in {"one", "all"} /\ set[r].auto = "ALL" /\ ~LT!Held(held[r], call[r].todo[1])
  BY DEF Waits, auto
<1>3. /\ call[r].op = "all" /\ held[r].file = call[r].data
      /\ call[r].todo # Parts(LT!Target("all", call[r].data))
  BY <1>1, <1>2 DEF Waiting
<1>4. CallFits(call[r], queue[r])
  BY Mine
<1>5. call[r].data \in Data
  BY <1>3, <1>4 DEF CallFits
<1> QED BY <1>2, <1>3, <1>5 DEF Wholes

(* In a circle everybody is waited for, so has something, and the file:     *)
(* only one has that, and it does not wait for itself.                      *)
LEMMA NoCycle ==
  ASSUME NotShared, IInv, Wholes
  PROVE  NoWaitCycle
<1> SUFFICES ASSUME NEW S \in SUBSET Procs, S # {}, \A x \in S : \E y \in S : Waits(x, y)
             PROVE  FALSE
  BY DEF NoWaitCycle
<1>a. PICK x \in S : TRUE
  OBVIOUS
<1>b. PICK p \in S : Waits(x, p)
  BY <1>a
<1>c. PICK q \in S : Waits(p, q)
  BY <1>b
<1>d. PICK y \in S : Waits(q, y)
  BY <1>c
<1>e. p \in Procs /\ q \in Procs /\ y \in Procs
  OBVIOUS
<1>2. held[p].bytes # {} /\ held[q].bytes # {}
  BY <1>b, <1>c DEF Waits
<1> DEFINE h == held[p]
           g == held[q]
           c == call[p]
<1>3. h.file # None /\ g.file # None /\ Good(h) /\ Good(g)
  <2>1. held[p].file = call[p].data /\ call[p].data \in Data
    BY WaiterHasTheFile, <1>2, <1>c, <1>e
  <2>2. held[q].file = call[q].data /\ call[q].data \in Data
    BY WaiterHasTheFile, <1>2, <1>d, <1>e
  <2>3. Good(held[p]) /\ Good(held[q])
    BY <1>e, Mine
  <2> QED BY <2>1, <2>2, <2>3, LocksAssumption
<1>4. CASE p # q
  <2>1. LT!AppendByte \in Owned(h) /\ LT!AppendByte \in Owned(g)
    BY <1>3, OwnedBytes, BytesApart
  <2>2. h.bytes \cap g.bytes = {}
    BY <1>4, <1>e DEF IInv, Apart
  <2> HIDE DEF h, g
  <2> QED BY <1>3, <2>1, <2>2 DEF Good
<1>5. CASE p = q
  <2>1. /\ c.op = "all" /\ c.data \in Data /\ h.file = c.data /\ set[p].auto = "ALL"
        /\ ~LT!Held(h, c.todo[1]) /\ c.todo # Parts(LT!Target("all", c.data))
        /\ Whole(h, set[p], c, queue[p])
    BY WaiterHasTheFile, <1>2, <1>c, <1>e
  <2>2. LT!BytesOf(c.todo[1]) \cap h.bytes # {}
    BY <1>5, <1>c DEF Waits
  <2> HIDE DEF h, c
  <2>3. TodoFits(h, c.todo, LT!Target("all", c.data)) /\ IndexFits(h, set[p], c)
    BY <2>1 DEF Whole, Shape
  <2>4. CASE c.todo = <<LT!Target("memo", c.data), LT!Target("index", c.data)>>
    <3>1. c.todo[1] = LT!Target("memo", c.data)
      BY <2>4
    <3>2. LT!BytesOf(c.todo[1]) = {LT!MemoByte} /\ ~h.memo
      BY <2>1, <3>1 DEF LT!Held, LT!Target, LT!BytesOf
    <3> QED BY <1>3, <2>2, <3>2, NoBytesNothing DEF h
  <2>5. CASE c.todo = <<LT!Target("index", c.data)>>
    <3>1. c.todo[1] = LT!Target("index", c.data)
      BY <2>5
    <3>2. LT!BytesOf(c.todo[1]) = {LT!IndexByte} /\ h.index # c.data
      BY <2>1, <3>1 DEF LT!Held, LT!Target, LT!BytesOf
    <3>3. h.index # None
      BY <1>3, <2>2, <3>2, NoBytesNothing DEF h
    <3> QED BY <2>1, <2>3, <3>2, <3>3 DEF IndexFits
  <2>6. LT!Target("all", c.data).data = c.data
    BY DEF LT!Target
  <2> QED BY <2>1, <2>3, <2>4, <2>5, <2>6 DEF TodoFits
<1> QED BY <1>4, <1>5

(* With unlockAuto at LOCK4ALL no processes, two or more, wait for each    *)
(* other in a circle for ever, whatever they lock and in what order,       *)
(* unless clones share their locks.                                        *)
THEOREM NobodyWaits == ASSUME NotShared PROVE Spec => []NoWaitCycle
<1>1. IInv /\ Wholes => NoWaitCycle
  BY NoCycle
<1> QED BY <1>1, CallsInvariant, PTL

-----------------------------------------------------------------------------
(* A group loses no lock of its queue. *)

LEMMA ConcatSet ==
  ASSUME NEW a \in Seq(Wanted), NEW b \in Seq(Wanted)
  PROVE  ToSet(a \o b) = ToSet(a) \cup ToSet(b)
<1>1. \A x \in ToSet(a \o b) : x \in ToSet(a) \cup ToSet(b)
  BY DEF ToSet
<1>2. \A x \in ToSet(a) : x \in ToSet(a \o b)
  BY DEF ToSet
<1>3. ASSUME NEW i \in DOMAIN b PROVE b[i] \in ToSet(a \o b)
  <2>1. Len(a) + i \in DOMAIN (a \o b) /\ (a \o b)[Len(a) + i] = b[i]
    OBVIOUS
  <2> QED BY <2>1 DEF ToSet
<1>4. \A x \in ToSet(b) : x \in ToSet(a \o b)
  BY <1>3 DEF ToSet
<1> QED BY <1>1, <1>2, <1>4

LEMMA OneSet == \A w : ToSet(<<w>>) = {w}
BY DEF ToSet

(* A sequence is its front and its rest.                                   *)
LEMMA CutSet ==
  ASSUME NEW q \in Seq(Wanted), NEW i \in 1 .. Len(q) + 1
  PROVE  /\ SubSeq(q, 1, i - 1) \in Seq(Wanted) /\ SubSeq(q, i, Len(q)) \in Seq(Wanted)
         /\ ToSet(q) = ToSet(SubSeq(q, 1, i - 1)) \cup ToSet(SubSeq(q, i, Len(q)))
<1> DEFINE a == SubSeq(q, 1, i - 1)
           b == SubSeq(q, i, Len(q))
<1>1. /\ a \in Seq(Wanted) /\ Len(a) = i - 1 /\ b \in Seq(Wanted) /\ Len(b) = Len(q) - i + 1
      /\ \A j \in 1 .. i - 1 : a[j] = q[j]
      /\ \A j \in 1 .. Len(q) - i + 1 : b[j] = q[i + j - 1]
  BY SubSeqProperties
<1> HIDE DEF a, b
<1>2. a \o b = q
  <2>1. a \o b \in Seq(Wanted) /\ Len(a \o b) = Len(q)
    BY <1>1
  <2>2. ASSUME NEW j \in 1 .. Len(q) PROVE (a \o b)[j] = q[j]
    <3>1. CASE j \in 1 .. i - 1
      BY <1>1, <3>1
    <3>2. CASE j \in i .. Len(q)
      <4>0. j - (i - 1) \in 1 .. Len(q) - i + 1
        BY <3>2
      <4>1. (a \o b)[j] = b[j - (i - 1)]
        BY <1>1, <4>0
      <4>2. b[j - (i - 1)] = q[i + (j - (i - 1)) - 1]
        BY <1>1, <4>0
      <4>3. i + (j - (i - 1)) - 1 = j
        OBVIOUS
      <4> QED BY <4>1, <4>2, <4>3
    <3>3. Len(q) \in Nat /\ j \in 1 .. Len(q)
      BY <2>2, LenProperties
    <3>4. j \in 1 .. i - 1 \/ j \in i .. Len(q)
      BY <3>3
    <3> QED BY <3>1, <3>2, <3>4
  <2> QED BY <2>1, <2>2, SeqEqual
<1>3. ToSet(a \o b) = ToSet(a) \cup ToSet(b)
  BY <1>1, ConcatSet
<1> QED BY <1>1, <1>2, <1>3 DEF a, b

LEMMA TakenSet ==
  ASSUME NEW q \in Seq(Wanted), NEW i \in 1 .. Len(q), NEW got \in Seq(Wanted)
  PROVE  ToSet(RemoveAt(q, i)) \cup ToSet(Append(got, q[i])) = ToSet(q) \cup ToSet(got)
<1> DEFINE a == SubSeq(q, 1, i - 1)
           b == SubSeq(q, i + 1, Len(q))
           c == SubSeq(q, i, Len(q))
<1>1. /\ a \in Seq(Wanted) /\ ToSet(q) = ToSet(a) \cup ToSet(c)
  BY CutSet
<1>2. /\ c \in Seq(Wanted) /\ Len(c) = Len(q) - i + 1 /\ b \in Seq(Wanted) /\ Len(b) = Len(q) - i
      /\ \A j \in 1 .. Len(q) - i + 1 : c[j] = q[i + j - 1]
      /\ \A j \in 1 .. Len(q) - i : b[j] = q[i + 1 + j - 1]
  BY SubSeqProperties
<1>3. q[i] \in Wanted /\ <<q[i]>> \in Seq(Wanted)
  OBVIOUS
<1>4. RemoveAt(q, i) = a \o b
  BY DEF RemoveAt
<1>5. Append(got, q[i]) = got \o <<q[i]>>
  BY <1>3
<1> DEFINE x == q[i]
<1>6. ToSet(c) = {x} \cup ToSet(b)
  <2>1. DOMAIN c = 1 .. Len(q) - i + 1 /\ DOMAIN b = 1 .. Len(q) - i /\ Len(q) \in Nat
    BY <1>2
  <2>2. c[1] = x /\ 1 \in DOMAIN c
    BY <1>2, <2>1
  <2>3. ASSUME NEW j \in DOMAIN b PROVE j + 1 \in DOMAIN c /\ c[j + 1] = b[j]
    <3>1. j + 1 \in 1 .. Len(q) - i + 1 /\ i + (j + 1) - 1 = i + 1 + j - 1
      BY <2>1, <2>3
    <3> HIDE DEF b, c
    <3> QED BY <1>2, <2>1, <2>3, <3>1
  <2>4. ASSUME NEW j \in DOMAIN c, j # 1 PROVE j - 1 \in DOMAIN b /\ c[j] = b[j - 1]
    <3>1. j - 1 \in 1 .. Len(q) - i /\ j - 1 + 1 = j
      BY <2>1, <2>4
    <3> HIDE DEF b, c
    <3> QED BY <2>1, <2>3, <3>1
  <2> HIDE DEF b, c, x
  <2>5. ToSet(c) \subseteq {x} \cup ToSet(b)
    BY <2>2, <2>4 DEF ToSet
  <2>6. {x} \cup ToSet(b) \subseteq ToSet(c)
    BY <2>2, <2>3 DEF ToSet
  <2> QED BY <2>5, <2>6
<1> HIDE DEF a, b, c
<1>7. ToSet(a \o b) = ToSet(a) \cup ToSet(b)
  BY <1>1, <1>2, ConcatSet
<1>8. ToSet(got \o <<x>>) = ToSet(got) \cup ToSet(<<x>>)
  <2> HIDE DEF x
  <2>1. <<x>> \in Seq(Wanted)
    BY <1>3 DEF x
  <2> QED BY <2>1, ConcatSet
<1>9. ToSet(<<x>>) = {x}
  BY OneSet
<1> QED BY <1>1, <1>4, <1>5, <1>6, <1>7, <1>8, <1>9 DEF x

LEMMA UndoneSet ==
  ASSUME NEW q \in Seq(Wanted), NEW i \in 1 .. Len(q) + 1, NEW got \in Seq(Wanted), got # <<>>
  PROVE  ToSet(InsertAt(q, i, got[Len(got)])) \cup ToSet(SubSeq(got, 1, Len(got) - 1))
           = ToSet(q) \cup ToSet(got)
<1> DEFINE a == SubSeq(q, 1, i - 1)
           b == SubSeq(q, i, Len(q))
           n == Len(got)
           x == got[n]
           c == SubSeq(got, 1, n - 1)
           d == SubSeq(got, n, Len(got))
<1>1. n \in 1 .. Len(got) /\ x \in Wanted /\ <<x>> \in Seq(Wanted)
  OBVIOUS
<1>2. a \in Seq(Wanted) /\ b \in Seq(Wanted) /\ ToSet(q) = ToSet(a) \cup ToSet(b)
  BY CutSet
<1>3. ToSet(got) = ToSet(c) \cup ToSet(d)
  BY <1>1, CutSet
<1>4. d = <<x>>
  <2>1. d \in Seq(Wanted) /\ Len(d) = 1 /\ d[1] = x
    BY <1>1, SubSeqProperties
  <2> HIDE DEF d, x
  <2> QED BY <2>1
<1>5. InsertAt(q, i, x) = (a \o <<x>>) \o b
  BY DEF InsertAt
<1> HIDE DEF a, b, c, d, x
<1>6. a \o <<x>> \in Seq(Wanted)
  BY <1>1, <1>2
<1>7. ToSet((a \o <<x>>) \o b) = ToSet(a) \cup {x} \cup ToSet(b)
  <2>1. ToSet((a \o <<x>>) \o b) = ToSet(a \o <<x>>) \cup ToSet(b)
    BY <1>2, <1>6, ConcatSet
  <2>2. ToSet(a \o <<x>>) = ToSet(a) \cup ToSet(<<x>>)
    BY <1>1, <1>2, ConcatSet
  <2> QED BY <2>1, <2>2, OneSet
<1> QED BY <1>2, <1>3, <1>4, <1>5, <1>7, OneSet DEF x, c

(* What a step may do to a group, as GroupAllOrNothing has it.             *)
Kept(p) ==
  /\ call[p].op = "group" /\ call'[p].op = "idle" =>
       /\ queue'[p] = <<>>
       /\ \A i \in DOMAIN call[p].got :
            \A t \in ToSet(Parts(call[p].got[i])) : LT!Held(held'[p], t)
  /\ call[p].op = "undo" /\ call'[p].op = "idle" =>
       held'[p].bytes \subseteq call[p].base
  /\ call[p].op \in {"group", "undo"} /\ call'[p].op # "idle" =>
       ToSet(queue'[p]) \cup ToSet(call'[p].got)
         = ToSet(queue[p]) \cup ToSet(call[p].got)

LEMMA TryKept ==
  ASSUME IInv, Wholes, NEW p \in Procs, Try(p)
  PROVE  Kept(p)
<1> DEFINE q == queue[p]
           b == call[p]
<1>1. /\ b \in Calls /\ CallFits(b, q) /\ q \in Seq(Wanted) /\ b.got \in Seq(Wanted)
      /\ call \in [Procs -> Calls] /\ queue \in [Procs -> Seq(Wanted)] /\ b.todo # <<>>
  BY Mine DEF Try, Calls
<1>2. CASE b.op \notin {"group", "undo"}
  BY <1>2 DEF Kept
<1>3. b.op # "undo"
  BY <1>1 DEF Wholes, Whole, Shape
<1>4. CASE b.op = "group"
  <2>1. ASSUME NEW i, NEW got, NEW r, GroupNext(p, r, i, got)
        PROVE  call'[p].op = "group" /\ call'[p].got = got
    BY <1>1, <1>4, <2>1 DEF GroupNext, Calls
  <2>2. ASSUME NEW rc, Fail(p, rc) PROVE Kept(p)
    <3>1. CASE GroupUndo(p, rc)
      <4>1. call'[p].op = "undo" /\ call'[p].got = b.got /\ queue'[p] = q
        BY <1>1, <3>1 DEF GroupUndo, Idle
      <4> QED BY <1>4, <4>1 DEF Kept
    <3>2. CASE /\ GroupNext(p, q, IF single(p) = 1 THEN Len(q) + 1 ELSE b.at + 1, b.got)
               /\ UNCHANGED queue
      BY <1>4, <2>1, <3>2 DEF Kept
    <3> QED BY <1>4, <2>2, <3>1, <3>2 DEF Fail
  <2>3. ASSUME Advance(p) PROVE Kept(p)
    <3>1. CASE Len(b.todo) # 1
      <4>1. call'[p].op = "group" /\ call'[p].got = b.got /\ queue'[p] = q
        BY <1>1, <1>4, <2>3, <3>1 DEF Advance, Calls
      <4> QED BY <1>4, <4>1 DEF Kept
    <3>2. CASE Len(b.todo) = 1
      <4>1. /\ queue'[p] = RemoveAt(q, b.at)
            /\ GroupNext(p, queue'[p], b.at, Append(b.got, q[b.at]))
        BY <1>1, <1>4, <2>3, <3>2 DEF Advance, Done
      <4>2. call'[p].op = "group" /\ call'[p].got = Append(b.got, q[b.at])
        BY <2>1, <4>1
      <4>3. b.at \in 1 .. Len(q)
        BY <1>1, <1>4 DEF CallFits, Calls
      <4>4. ToSet(queue'[p]) \cup ToSet(call'[p].got) = ToSet(q) \cup ToSet(b.got)
        BY <1>1, <4>1, <4>2, <4>3, TakenSet
      <4> QED BY <1>4, <4>2, <4>4 DEF Kept
    <3> QED BY <3>1, <3>2
  <2>4. CASE /\ call' = [call EXCEPT ![p].left = @ - 1]
             /\ UNCHANGED queue
    <3>1. call'[p].op = "group" /\ call'[p].got = b.got /\ queue'[p] = q
      BY <1>1, <1>4, <2>4 DEF Calls
    <3> QED BY <1>4, <3>1 DEF Kept
  <2> HIDE DEF q, b
  <2> QED BY <2>2, <2>3, <2>4 DEF Try
<1> QED BY <1>2, <1>3, <1>4

LEMMA UndoKept ==
  ASSUME NoAll, IInv, Wholes, NEW p \in Procs, Undo(p)
  PROVE  Kept(p)
<1> DEFINE q == queue[p]
           b == call[p]
           n == Len(b.got)
<1>1. /\ b \in Calls /\ CallFits(b, q) /\ q \in Seq(Wanted) /\ b.got \in Seq(Wanted)
      /\ call \in [Procs -> Calls] /\ queue \in [Procs -> Seq(Wanted)]
      /\ b.op = "undo" /\ Covered(held[p], b)
  BY Mine DEF Undo, Calls, Wholes, Whole
<1>2. CASE /\ b.got # <<>>
           /\ queue' = [queue EXCEPT ![p] = InsertAt(@, b.at, b.got[n])]
           /\ call' = [call EXCEPT ![p].got = SubSeq(b.got, 1, n - 1)]
  <2>1. /\ queue'[p] = InsertAt(q, b.at, b.got[n]) /\ call'[p].op = "undo"
        /\ call'[p].got = SubSeq(b.got, 1, n - 1)
    BY <1>1, <1>2 DEF Calls
  <2>2. b.at \in 1 .. Len(q) + 1
    BY <1>1 DEF CallFits
  <2>3. ToSet(queue'[p]) \cup ToSet(call'[p].got) = ToSet(q) \cup ToSet(b.got)
    BY <1>1, <1>2, <2>1, <2>2, UndoneSet
  <2> QED BY <1>1, <2>1, <2>3 DEF Kept
<1>3. CASE b.got = <<>> /\ Return(p) /\ UNCHANGED held
  <2>1. call'[p].op = "idle"
    BY <1>1, <1>3 DEF Return, Idle
  <2>2. held[p].bytes \subseteq b.base
    <3> HIDE DEF b
    <3> QED BY <1>1, <1>3 DEF Covered
  <2> QED BY <1>1, <1>3, <2>1, <2>2 DEF Kept
<1> QED BY <1>2, <1>3 DEF Undo

LEMMA RoundKept ==
  ASSUME IInv, Wholes, NEW p \in Procs, GroupRound(p)
  PROVE  Kept(p)
<1> DEFINE q == queue[p]
           b == call[p]
<1>1. /\ b \in Calls /\ call \in [Procs -> Calls] /\ b.op = "group"
      /\ Shape(held[p], set[p], b, q)
  BY Mine DEF GroupRound, Wholes, Whole
<1>2. CASE q = <<>> /\ Return(p) /\ UNCHANGED <<held, queue>>
  <2>1. call'[p].op = "idle"
    BY <1>1, <1>2 DEF Return, Idle
  <2>2. \A i \in DOMAIN b.got : \A t \in ToSet(Parts(b.got[i])) : LT!Held(held[p], t)
    <3> HIDE DEF b
    <3> QED BY <1>1 DEF Shape
  <2> QED BY <1>1, <1>2, <2>1, <2>2 DEF Kept
<1>3. CASE GroupUndo(p, "locked")
  <2>1. call'[p].op = "undo" /\ call'[p].got = b.got /\ queue'[p] = q
    BY <1>1, <1>3 DEF GroupUndo, Idle
  <2> QED BY <1>1, <2>1 DEF Kept
<1>4. CASE /\ call' = [call EXCEPT ![p] =
                [@ EXCEPT !.round = IF single(p) = WAIT4EVER THEN 0 ELSE b.round + 1,
                          !.at = 1, !.left = attempts(p), !.todo = Parts(q[1])]]
           /\ UNCHANGED queue
  <2>1. call'[p].op = "group" /\ call'[p].got = b.got /\ queue'[p] = q
    BY <1>1, <1>4 DEF Calls
  <2> QED BY <1>1, <2>1 DEF Kept
<1> QED BY <1>2, <1>3, <1>4 DEF GroupRound

LEMMA StepKept ==
  ASSUME NoAll, IInv, Wholes, NEW p \in Procs, Step(p)
  PROVE  Kept(p)
<1>1. CASE Try(p) \/ Undo(p) \/ GroupRound(p)
  BY <1>1, TryKept, UndoKept, RoundKept
<1>2. ASSUME call[p].op \notin {"group", "undo"} PROVE Kept(p)
  BY <1>2 DEF Kept
<1>3. CASE LockRecord(p) \/ LockAppend(p) \/ LockFile(p) \/ LockAll(p)
  BY <1>2, <1>3 DEF LockRecord, LockAppend, LockFile, LockAll, Ask, Calling
<1>4. CASE \/ WriteKeys(p) \/ KeysWritten(p) \/ QueueAdd(p) \/ QueueClear(p) \/ GroupStart(p)
           \/ Unlock(p) \/ UnlockMemo(p) \/ UnlockIndex(p) \/ UnlockAll(p)
           \/ UnlockAppend(p) \/ ClearError(p)
  BY <1>2, <1>4 DEF WriteKeys, KeysWritten, QueueAdd, QueueClear, GroupStart, Unlock,
     UnlockMemo, UnlockIndex, UnlockAll, UnlockAppend, ClearError, Calling
<1> QED BY <1>1, <1>3, <1>4 DEF Step

LEMMA NextKept ==
  ASSUME NoAll, IInv, Wholes, [Next]_vars
  PROVE  [\A p \in Procs : Kept(p)]_vars
<1>1. CASE UNCHANGED vars
  BY <1>1
<1>2. ASSUME NEW p \in Procs, Step(p) PROVE \A q \in Procs : Kept(q)
  <2>1. Kept(p)
    BY <1>2, StepKept
  <2>2. ASSUME NEW q \in Procs, q # p PROVE Kept(q)
    <3>1. Same(q)
      BY <1>2, <2>2, StepIsMine
    <3> QED BY <3>1 DEF Same, Kept
  <2> QED BY <2>1, <2>2
<1> QED BY <1>1, <1>2 DEF Next, Step

(* code4lock locks the whole queue or leaves the process with no byte more *)
(* than before, and no request is lost on the way: as long as nothing in   *)
(* the queue is the file with its memo and its indexes.                    *)
THEOREM GroupsAllOrNothing == ASSUME NoAll PROVE Spec => GroupAllOrNothing
<1>1. IInv /\ Wholes /\ [Next]_vars => [\A p \in Procs : Kept(p)]_vars
  BY NextKept
<1>2. Spec => [][\A p \in Procs : Kept(p)]_vars
  BY <1>1, CallsInvariant, PTL DEF Spec
<1> QED BY <1>2 DEF GroupAllOrNothing, Kept
=============================================================================
