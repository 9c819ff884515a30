------------------------- MODULE TransactionsProofs -------------------------
(***************************************************************************)
(* For any tags, records and tables, and transactions of any length: the   *)
(* tags are true of the records (TagsStayTrue), a rollback gives back what *)
(* there was at the start (RollbacksRestore), and a change that is refused *)
(* changes nothing (RefusalsChangeNothing).                                *)
(***************************************************************************)
EXTENDS Transactions, WellFoundedInduction, TLAPS

Values == Records \cup UNION {Range(recs) : recs \in Tables0}
Keys   == {v[g] : v \in Values, g \in Tags} \cup {NoKey}
Entry  == (Keys \ {NoKey}) \X Nat
TagType == [keys : SUBSET Entry, removed : Seq(Entry)]

Distinct(s) == \A i, j \in DOMAIN s : s[i] = s[j] => i = j
OnePerKey(S) == \A e, f \in S : e[1] = f[1] => e = f

Lists(x) == Range(x.removed)

(* A tag is true of a set K of entries: it has them, and those on the      *)
(* list; only a tag that refuses has a list, and only one that skips the   *)
(* second entry of a key may have fewer.                                   *)
Fits(g, x, K) ==
  /\ x \in TagType /\ Distinct(x.removed)
  /\ Unique(g) # "r4unique" => x.removed = <<>>
  /\ Unique(g) # "none" => OnePerKey(x.keys)
  /\ Unique(g) # "r4uniqueContinue" =>
       x.keys = K \cup Lists(x) /\ K \cap Lists(x) = {}

(* K with and without record r's entry of a key. *)
Plus(K, key, r) == IF key = NoKey THEN K ELSE K \cup {<<key, r>>}
Less(K, key, r) == IF key = NoKey THEN K ELSE K \ {<<key, r>>}

(* The entries of r in K are those of this key. *)
Owns(K, key, r) == \A k : <<k, r>> \in K <=> k = key /\ key # NoKey

------------------------------------------------------------------------------
(* Lists of entries.                                                       *)

(* A set of positions has a least one. *)
LEMMA LeastOf ==
  ASSUME NEW T, T \subseteq Nat, T # {}
  PROVE  Min(T) \in T /\ \A n \in T : Min(T) <= n
<1>1. PICK m \in T : \A n \in T : ~(<<n, m>> \in OpToRel(<, Nat))
  BY NatLessThanWellFounded, WFMin
<1>2. \A n \in T : ~(n < m)
  BY <1>1 DEF OpToRel
<1>3. \A n \in T : m <= n
  BY <1>2
<1> QED BY <1>3 DEF Min

(* A list without its n-th element. *)
LEMMA Shortened ==
  ASSUME NEW s \in Seq(Entry), NEW n \in DOMAIN s
  PROVE  /\ RemoveAt(s, n) \in Seq(Entry) /\ Len(RemoveAt(s, n)) = Len(s) - 1
         /\ \A i \in 1 .. Len(s) - 1 :
              RemoveAt(s, n)[i] = IF i < n THEN s[i] ELSE s[i + 1]
<1> n \in 1 .. Len(s) /\ Len(s) \in Nat
  OBVIOUS
<1> DEFINE a == SubSeq(s, 1, n - 1)
           z == SubSeq(s, n + 1, Len(s))
<1>1. a \in Seq(Entry) /\ Len(a) = n - 1 /\ \A i \in 1 .. n - 1 : a[i] = s[i]
  OBVIOUS
<1>2. z \in Seq(Entry) /\ Len(z) = Len(s) - n /\ \A i \in 1 .. Len(s) - n : z[i] = s[i + n]
  OBVIOUS
<1>3. RemoveAt(s, n) = a \o z
  BY DEF RemoveAt
<1> HIDE DEF a, z
<1> QED BY <1>1, <1>2, <1>3

LEMMA OffTheList ==
  ASSUME NEW s \in Seq(Entry), NEW n \in DOMAIN s, Distinct(s)
  PROVE  /\ RemoveAt(s, n) \in Seq(Entry) /\ Distinct(RemoveAt(s, n))
         /\ Range(RemoveAt(s, n)) = Range(s) \ {s[n]}
<1> DEFINE u == RemoveAt(s, n)
<1>1. /\ u \in Seq(Entry) /\ Len(u) = Len(s) - 1
      /\ \A i \in 1 .. Len(s) - 1 : u[i] = IF i < n THEN s[i] ELSE s[i + 1]
  BY Shortened
<1>2. n \in Nat /\ 1 <= n /\ n <= Len(s) /\ Len(s) \in Nat /\ DOMAIN s = 1 .. Len(s)
  OBVIOUS
<1> HIDE DEF u
<1>3. DOMAIN u = 1 .. Len(s) - 1
  BY <1>1, <1>2
<1>4. ASSUME NEW i \in DOMAIN u, NEW j \in DOMAIN u, u[i] = u[j]  PROVE i = j
  <2>1. i \in 1 .. Len(s) - 1 /\ j \in 1 .. Len(s) - 1
    BY <1>3
  <2>2. u[i] = (IF i < n THEN s[i] ELSE s[i + 1]) /\ u[j] = (IF j < n THEN s[j] ELSE s[j + 1])
    BY <2>1, <1>1
  <2>3. (IF i < n THEN i ELSE i + 1) = (IF j < n THEN j ELSE j + 1)
    BY <2>1, <2>2, <1>2, <1>4 DEF Distinct
  <2> QED BY <2>1, <2>3, <1>2
<1>5. Distinct(u)
  BY <1>4 DEF Distinct
<1>6. Range(u) \subseteq Range(s) \ {s[n]}
  <2> SUFFICES ASSUME NEW i \in DOMAIN u  PROVE u[i] \in Range(s) \ {s[n]}
    BY DEF Range
  <2>1. i \in 1 .. Len(s) - 1
    BY <1>3
  <2>2. PICK k \in DOMAIN s : k # n /\ u[i] = s[k]
    <3>1. CASE i < n
      BY <3>1, <2>1, <1>1, <1>2
    <3>2. CASE ~(i < n)
      <4>1. u[i] = s[i + 1] /\ i + 1 \in DOMAIN s /\ i + 1 # n
        BY <3>2, <2>1, <1>1, <1>2
      <4> QED BY <4>1
    <3> QED BY <3>1, <3>2
  <2> QED BY <2>2 DEF Range, Distinct
<1>7. Range(s) \ {s[n]} \subseteq Range(u)
  <2> SUFFICES ASSUME NEW k \in DOMAIN s, k # n  PROVE s[k] \in Range(u)
    BY DEF Range
  <2>1. PICK i \in 1 .. Len(s) - 1 : u[i] = s[k]
    <3>1. CASE k < n
      BY <3>1, <1>1, <1>2
    <3>2. CASE k > n
      <4>1. k - 1 \in 1 .. Len(s) - 1 /\ ~(k - 1 < n) /\ (k - 1) + 1 = k
        BY <3>2, <1>2
      <4> QED BY <4>1, <1>1
    <3> QED BY <3>1, <3>2, <1>2
  <2> QED BY <2>1, <1>3 DEF Range
<1> QED BY <1>1, <1>5, <1>6, <1>7 DEF u

LEMMA OntoTheList ==
  ASSUME NEW s \in Seq(Entry), NEW e \in Entry, Distinct(s), e \notin Range(s)
  PROVE  /\ <<e>> \o s \in Seq(Entry) /\ Distinct(<<e>> \o s)
         /\ Range(<<e>> \o s) = Range(s) \cup {e}
         /\ 1 \in DOMAIN (<<e>> \o s) /\ (<<e>> \o s)[1] = e
         /\ RemoveAt(<<e>> \o s, 1) = s
<1> DEFINE u == <<e>> \o s
<1>1. Len(s) \in Nat /\ DOMAIN s = 1 .. Len(s)
  OBVIOUS
<1>2. /\ u \in Seq(Entry) /\ Len(u) = Len(s) + 1 /\ u[1] = e
      /\ \A i \in 1 .. Len(s) : u[i + 1] = s[i]
  BY <1>1
<1>3. RemoveAt(u, 1) = s
  BY DEF RemoveAt
<1> HIDE DEF u
<1>4. DOMAIN u = 1 .. Len(s) + 1
  BY <1>1, <1>2
<1>5. ASSUME NEW i \in DOMAIN u, i # 1  PROVE i - 1 \in DOMAIN s /\ u[i] = s[i - 1]
  <2>1. i - 1 \in 1 .. Len(s) /\ (i - 1) + 1 = i
    BY <1>1, <1>4, <1>5
  <2> QED BY <2>1, <1>1, <1>2
<1>6. Distinct(u)
  <2> SUFFICES ASSUME NEW i \in DOMAIN u, NEW j \in DOMAIN u, u[i] = u[j]  PROVE i = j
    BY DEF Distinct
  <2>1. CASE i = 1 \/ j = 1
    BY <2>1, <1>2, <1>5 DEF Range
  <2>2. CASE i # 1 /\ j # 1
    <3>1. i - 1 = j - 1
      BY <2>2, <1>5 DEF Distinct
    <3> QED BY <3>1, <1>1, <1>4
  <2> QED BY <2>1, <2>2
<1>7. Range(u) = Range(s) \cup {e}
  <2>1. Range(u) \subseteq Range(s) \cup {e}
    BY <1>2, <1>5 DEF Range
  <2>2. \A k \in DOMAIN s : s[k] \in Range(u)
    <3> SUFFICES ASSUME NEW k \in DOMAIN s  PROVE s[k] \in Range(u)
      OBVIOUS
    <3>1. k + 1 \in DOMAIN u /\ u[k + 1] = s[k]
      BY <1>1, <1>2, <1>4
    <3> QED BY <3>1 DEF Range
  <2>3. e \in Range(u)
    BY <1>1, <1>2, <1>4 DEF Range
  <2> QED BY <2>1, <2>2, <2>3 DEF Range
<1> QED BY <1>1, <1>2, <1>3, <1>4, <1>6, <1>7 DEF u

------------------------------------------------------------------------------
(* One tag.                                                                *)

LEMMA Unlisted ==
  ASSUME NEW g, NEW x, NEW K, Fits(g, x, K), Unique(g) # "r4unique"
  PROVE  x.removed = <<>> /\ Lists(x) = {} /\ DOMAIN x.removed = {}
BY DEF Fits, Lists, Range

(* The same entry for a tag, with fewer entries of its key: what stays     *)
(* fits the smaller set.                                                   *)
LEMMA GoneFits ==
  ASSUME NEW g, NEW x, NEW K, Fits(g, x, K), NEW e, e \notin Lists(x)
  PROVE  Fits(g, Gone(x, e), K \ {e}) /\ Gone(x, e).removed = x.removed
<1> DEFINE y == Gone(x, e)
<1>1. x \in TagType
  BY DEF Fits
<1>2. y.keys = x.keys \ {e} /\ y.removed = x.removed /\ y \in TagType
  BY <1>1 DEF Gone, TagType
<1> HIDE DEF y
<1>3. Lists(y) = Lists(x)
  BY <1>2 DEF Lists
<1>4. Unique(g) # "none" => OnePerKey(y.keys)
  BY <1>2 DEF Fits, OnePerKey
<1>5. Unique(g) # "r4uniqueContinue" =>
        y.keys = (K \ {e}) \cup Lists(y) /\ (K \ {e}) \cap Lists(y) = {}
  BY <1>2, <1>3 DEF Fits
<1>6. Distinct(y.removed) /\ (Unique(g) # "r4unique" => y.removed = <<>>)
  BY <1>2 DEF Fits
<1>7. Fits(g, y, K \ {e})
  BY <1>2, <1>4, <1>5, <1>6 DEF Fits
<1> QED BY <1>2, <1>7 DEF y

(* An entry that is taken off the list belongs to its record again.        *)
LEMMA OffListFits ==
  ASSUME NEW g, NEW x, NEW K, Fits(g, x, K), NEW i \in DOMAIN x.removed
  PROVE  /\ Unique(g) = "r4unique"
         /\ x.removed[i] \in Entry /\ x.removed[i] \in Lists(x) /\ x.removed[i] \notin K
         /\ Fits(g, OffList(x, i), K \cup {x.removed[i]})
         /\ OffList(x, i).keys = x.keys
         /\ Lists(OffList(x, i)) = Lists(x) \ {x.removed[i]}
<1> DEFINE y == OffList(x, i)
           e == x.removed[i]
<1>1. x \in TagType /\ x.removed \in Seq(Entry) /\ Distinct(x.removed) /\ Unique(g) = "r4unique"
  BY Unlisted DEF Fits, TagType
<1>2. e \in Entry /\ e \in Lists(x)
  BY <1>1 DEF Lists, Range
<1>3. y.keys = x.keys /\ y.removed = RemoveAt(x.removed, i) /\ y = [keys |-> x.keys, removed |-> RemoveAt(x.removed, i)]
  BY <1>1 DEF OffList, TagType
<1>4. y.removed \in Seq(Entry) /\ Distinct(y.removed) /\ Lists(y) = Lists(x) \ {e}
  BY <1>1, <1>3, OffTheList DEF Lists
<1>5. y \in TagType
  BY <1>1, <1>3, <1>4 DEF TagType
<1> HIDE DEF y, e
<1>6. e \notin K /\ y.keys = (K \cup {e}) \cup Lists(y) /\ (K \cup {e}) \cap Lists(y) = {}
  BY <1>1, <1>2, <1>3, <1>4 DEF Fits
<1>7. OnePerKey(y.keys)
  BY <1>1, <1>3 DEF Fits
<1>8. Fits(g, y, K \cup {e})
  BY <1>1, <1>4, <1>5, <1>6, <1>7 DEF Fits
<1> QED BY <1>1, <1>2, <1>3, <1>4, <1>6, <1>8 DEF y, e

(* An entry that is put on the list belongs to nobody.                     *)
LEMMA OnListFits ==
  ASSUME NEW g, NEW x, NEW K, Fits(g, x, K), NEW e \in K, Unique(g) = "r4unique"
  PROVE  /\ Fits(g, OnList(x, e), K \ {e})
         /\ OnList(x, e).keys = x.keys
         /\ Lists(OnList(x, e)) = Lists(x) \cup {e}
         /\ 1 \in DOMAIN OnList(x, e).removed /\ OnList(x, e).removed[1] = e
         /\ OffList(OnList(x, e), 1) = x
<1> DEFINE y == OnList(x, e)
<1>1. x \in TagType /\ x.removed \in Seq(Entry) /\ Distinct(x.removed)
  BY DEF Fits, TagType
<1>2. e \in Entry /\ e \notin Lists(x)
  BY DEF Fits, TagType
<1>3. /\ y.keys = x.keys /\ y.removed = <<e>> \o x.removed
      /\ y = [keys |-> x.keys, removed |-> <<e>> \o x.removed]
  <2> DEFINE u == <<e>> \o x.removed
  <2>1. y = [x EXCEPT !.removed = u]
    BY DEF OnList
  <2> HIDE DEF u
  <2>2. y = [keys |-> x.keys, removed |-> u]
    BY <2>1, <1>1 DEF TagType
  <2> HIDE DEF y
  <2>3. y.keys = x.keys /\ y.removed = u
    BY <2>2
  <2> QED BY <2>2, <2>3 DEF u
<1>4. /\ y.removed \in Seq(Entry) /\ Distinct(y.removed) /\ Lists(y) = Lists(x) \cup {e}
      /\ 1 \in DOMAIN y.removed /\ y.removed[1] = e /\ RemoveAt(y.removed, 1) = x.removed
  BY <1>1, <1>2, <1>3, OntoTheList DEF Lists
<1>5. y \in TagType
  BY <1>1, <1>3, <1>4 DEF TagType
<1>6. OffList(y, 1) = x
  <2>1. OffList(y, 1) = [keys |-> y.keys, removed |-> RemoveAt(y.removed, 1)]
    BY <1>3 DEF OffList
  <2> QED BY <2>1, <1>1, <1>3, <1>4 DEF TagType
<1> HIDE DEF y
<1>7. y.keys = (K \ {e}) \cup Lists(y) /\ (K \ {e}) \cap Lists(y) = {}
  BY <1>2, <1>3, <1>4 DEF Fits
<1>8. OnePerKey(y.keys)
  BY <1>3 DEF Fits
<1>9. Fits(g, y, K \ {e})
  BY <1>4, <1>5, <1>7, <1>8 DEF Fits
<1> QED BY <1>3, <1>4, <1>6, <1>9 DEF y

(* Adding a key: it is there, or a tag that refuses has it already.        *)
Adds(g, x, K, a, key, r) ==
  \/ a.rc = "ok" /\ Fits(g, a.x, Plus(K, key, r)) /\ a.x.removed = x.removed
  \/ a.rc = "unique" /\ a.x = x /\ Unique(g) = "r4unique" /\ \E e \in x.keys : e[1] = key

LEMMA AddFits ==
  ASSUME NEW g \in Tags, NEW x, NEW K, Fits(g, x, K), NEW key \in Keys \ {NoKey}, NEW r \in Nat
  PROVE  Adds(g, x, K, Add(g, x, key, r), key, r)
<1> DEFINE e == <<key, r>>
           y == [x EXCEPT !.keys = @ \cup {<<key, r>>}]
<1>1. x \in TagType /\ e \in Entry /\ e[1] = key
  BY DEF Fits, Entry
<1>2. Plus(K, key, r) = K \cup {e}
  BY DEF Plus
<1>3. y.keys = x.keys \cup {e} /\ y.removed = x.removed /\ y \in TagType
  BY <1>1 DEF TagType
<1>4. Add(g, x, key, r) = IF Unique(g) # "none" /\ \E f \in x.keys : f[1] = key
                          THEN [x |-> x, rc |-> IF Unique(g) = "r4unique" THEN "unique" ELSE "ok"]
                          ELSE [x |-> y, rc |-> "ok"]
  BY DEF Add, Done
<1> HIDE DEF y, e
<1>5. CASE Unique(g) # "none" /\ \E f \in x.keys : f[1] = key
  <2>1. CASE Unique(g) = "r4unique"
    BY <1>4, <1>5, <2>1 DEF Adds
  <2>2. CASE Unique(g) # "r4unique"
    <3>1. Unique(g) = "r4uniqueContinue"
      BY <1>5, <2>2, TagsAssumption
    <3>2. Fits(g, x, Plus(K, key, r))
      BY <3>1 DEF Fits
    <3> QED BY <1>4, <1>5, <2>2, <3>2 DEF Adds
  <2> QED BY <2>1, <2>2
<1>6. CASE ~(Unique(g) # "none" /\ \E f \in x.keys : f[1] = key)
  <2>1. Unique(g) # "none" => OnePerKey(y.keys)
    BY <1>1, <1>3, <1>6 DEF Fits, OnePerKey
  <2>2. Lists(y) = Lists(x)
    BY <1>3 DEF Lists
  <2>3. Unique(g) # "r4uniqueContinue" =>
          y.keys = (K \cup {e}) \cup Lists(y) /\ (K \cup {e}) \cap Lists(y) = {}
    <3>1. CASE Unique(g) = "none"
      BY <3>1, <1>3, <2>2, Unlisted DEF Fits
    <3>2. CASE Unique(g) # "none"
      <4>1. e \notin x.keys
        BY <3>2, <1>1, <1>6
      <4> QED BY <4>1, <1>3, <2>2 DEF Fits
    <3> QED BY <3>1, <3>2
  <2>4. Distinct(y.removed) /\ (Unique(g) # "r4unique" => y.removed = <<>>)
    BY <1>3 DEF Fits
  <2>5. Fits(g, y, K \cup {e})
    BY <1>3, <2>1, <2>3, <2>4 DEF Fits
  <2> QED BY <1>2, <1>3, <1>4, <1>6, <2>5 DEF Adds
<1> QED BY <1>5, <1>6

------------------------------------------------------------------------------
(* The key is there, or it is refused because a record has it already.     *)
Claims(g, x, K, a, key, r) ==
  \/ a.rc = "ok" /\ Fits(g, a.x, Plus(K, key, r)) /\ Lists(a.x) \subseteq Lists(x)
  \/ a.rc = "unique" /\ a.x = x /\ Unique(g) = "r4unique" /\ \E e \in K : e[1] = key

LEMMA ClaimFits ==
  ASSUME NEW g \in Tags, NEW x, NEW K, Fits(g, x, K), NEW key \in Keys \ {NoKey}, NEW r \in Nat
  PROVE  Claims(g, x, K, Claim(g, x, key, r), key, r)
<1> DEFINE i == Min(ListedFor(x, key))
           e == x.removed[i]
           y == OffList(x, i)
           z == Gone(y, e)
<1>0. x \in TagType /\ x.removed \in Seq(Entry) /\ DOMAIN x.removed \subseteq Nat
  BY DEF Fits, TagType
<1>1. Claim(g, x, key, r) = IF ListedFor(x, key) = {} THEN Add(g, x, key, r)
                            ELSE IF e[2] = r THEN [x |-> y, rc |-> "ok"]
                            ELSE Add(g, z, key, r)
  BY DEF Claim, Done
<1>2. CASE ListedFor(x, key) = {}
  <2>1. Adds(g, x, K, Add(g, x, key, r), key, r)
    BY AddFits
  <2>2. \A f \in Lists(x) : f[1] # key
    BY <1>2 DEF Lists, Range, ListedFor
  <2>3. Unique(g) = "r4unique" => x.keys = K \cup Lists(x)
    BY DEF Fits
  <2> HIDE DEF i, e, y, z
  <2> QED BY <1>1, <1>2, <2>1, <2>2, <2>3 DEF Adds, Claims, Lists
<1>3. CASE ListedFor(x, key) # {}
  <2>1. i \in ListedFor(x, key)
    BY <1>0, <1>3, LeastOf DEF ListedFor
  <2>2. i \in DOMAIN x.removed /\ e[1] = key
    BY <2>1 DEF ListedFor
  <2> HIDE DEF i
  <2>3. /\ Unique(g) = "r4unique" /\ e \in Entry /\ e \in Lists(x) /\ e \notin K
        /\ Fits(g, y, K \cup {e}) /\ y.keys = x.keys /\ Lists(y) = Lists(x) \ {e}
    BY <2>2, OffListFits
  <2> HIDE DEF e, y
  <2>4. CASE e[2] = r
    <3>1. e = <<key, r>>
      BY <2>2, <2>3, <2>4 DEF Entry
    <3>2. K \cup {e} = Plus(K, key, r)
      BY <3>1 DEF Plus
    <3> QED BY <1>1, <1>3, <2>3, <2>4, <3>2 DEF Claims
  <2>5. CASE e[2] # r
    <3>1. Fits(g, z, (K \cup {e}) \ {e}) /\ z.removed = y.removed
      BY <2>3, GoneFits
    <3>2. (K \cup {e}) \ {e} = K
      BY <2>3
    <3>3. z.keys = x.keys \ {e}
      BY <2>3 DEF Gone, Fits, TagType
    <3> HIDE DEF z
    <3>4. Adds(g, z, K, Add(g, z, key, r), key, r)
      BY <3>1, <3>2, AddFits
    <3>5. e \in x.keys /\ OnePerKey(x.keys)
      BY <2>3 DEF Fits
    <3>6. ~\E f \in z.keys : f[1] = key
      BY <3>3, <3>5, <2>2 DEF OnePerKey
    <3> QED BY <1>1, <1>3, <2>3, <2>5, <3>1, <3>4, <3>6 DEF Adds, Claims, Lists
  <2> QED BY <2>4, <2>5
<1> QED BY <1>2, <1>3

(* The record's own entry is on the list.                                  *)
LEMMA OwnIsListed ==
  ASSUME NEW g \in Tags, NEW x, NEW K, Fits(g, x, K), NEW key \in Keys \ {NoKey}, NEW r \in Nat,
         ListedAs(x, key, r) # {}
  PROVE  /\ Fits(g, OffList(x, Min(ListedAs(x, key, r))), Plus(K, key, r))
         /\ Lists(OffList(x, Min(ListedAs(x, key, r)))) \subseteq Lists(x)
<1> DEFINE i == Min(ListedAs(x, key, r))
<1>1. x.removed \in Seq(Entry) /\ DOMAIN x.removed \subseteq Nat
  BY DEF Fits, TagType
<1>2. ListedAs(x, key, r) \subseteq DOMAIN x.removed
  BY DEF ListedAs, ListedFor
<1>3. i \in ListedAs(x, key, r)
  BY <1>1, <1>2, LeastOf
<1>4. i \in DOMAIN x.removed /\ x.removed[i][1] = key /\ x.removed[i][2] = r
  BY <1>3 DEF ListedAs, ListedFor
<1> HIDE DEF i
<1>5. /\ x.removed[i] \in Entry /\ Fits(g, OffList(x, i), K \cup {x.removed[i]})
      /\ Lists(OffList(x, i)) = Lists(x) \ {x.removed[i]}
  BY <1>4, OffListFits
<1>6. x.removed[i] = <<key, r>>
  BY <1>4, <1>5 DEF Entry
<1>7. K \cup {x.removed[i]} = Plus(K, key, r)
  BY <1>6 DEF Plus
<1> QED BY <1>5, <1>7 DEF i

(* Appending: as above, but outside a transaction a key that is listed is  *)
(* refused as well.                                                        *)
Appends(g, x, K, st, a, key, r) ==
  \/ a.rc = "ok" /\ Fits(g, a.x, Plus(K, key, r)) /\ Lists(a.x) \subseteq Lists(x)
  \/ /\ a.rc = "unique" /\ a.x = x /\ Unique(g) = "r4unique" /\ key # NoKey
     /\ \E e \in x.keys : e[1] = key /\ (Keeps(g, st) => e \in K)

LEMMA AppendTag ==
  ASSUME NEW g \in Tags, NEW x, NEW K, Fits(g, x, K), NEW key \in Keys, NEW r \in Nat, NEW st
  PROVE  Appends(g, x, K, st, AddCalc(g, x, st, key, r), key, r)
<1>1. CASE key = NoKey
  <2>1. AddCalc(g, x, st, key, r) = [x |-> x, rc |-> "ok"]
    BY <1>1 DEF AddCalc, Done
  <2> QED BY <1>1, <2>1 DEF Appends, Plus
<1>2. CASE key # NoKey /\ ~Keeps(g, st)
  <2>1. AddCalc(g, x, st, key, r) = Add(g, x, key, r)
    BY <1>2 DEF AddCalc
  <2>2. Adds(g, x, K, Add(g, x, key, r), key, r)
    BY <1>2, AddFits
  <2> QED BY <1>2, <2>1, <2>2 DEF Appends, Adds, Lists
<1>3. CASE key # NoKey /\ Keeps(g, st) /\ ListedAs(x, key, r) # {}
  <2>1. AddCalc(g, x, st, key, r) = [x |-> OffList(x, Min(ListedAs(x, key, r))), rc |-> "ok"]
    BY <1>3 DEF AddCalc, Done
  <2> QED BY <1>3, <2>1, OwnIsListed DEF Appends
<1>4. CASE key # NoKey /\ Keeps(g, st) /\ ListedAs(x, key, r) = {}
  <2>1. AddCalc(g, x, st, key, r) = Claim(g, x, key, r)
    BY <1>4 DEF AddCalc
  <2>2. Claims(g, x, K, Claim(g, x, key, r), key, r)
    BY <1>4, ClaimFits
  <2>3. Unique(g) = "r4unique" => K \subseteq x.keys
    BY DEF Fits
  <2> QED BY <1>4, <2>1, <2>2, <2>3 DEF Appends, Claims
<1> QED BY <1>1, <1>2, <1>3, <1>4

------------------------------------------------------------------------------
(* Writing a record's old and new key into one tag.                        *)
Rewritten(K, r, old, new) == Plus(Less(K, old, r), new, r)

LEMMA RemoveOldFits ==
  ASSUME NEW g \in Tags, NEW x, NEW K, Fits(g, x, K), NEW st, NEW old \in Keys, NEW r \in Nat,
         old # NoKey => <<old, r>> \in K
  PROVE  /\ Fits(g, RemoveOld(g, x, st, old, r), Less(K, old, r))
         /\ Lists(RemoveOld(g, x, st, old, r)) \subseteq
              Lists(x) \cup (IF Keeps(g, st) /\ old # NoKey THEN {<<old, r>>} ELSE {})
<1> DEFINE e == <<old, r>>
<1>1. CASE old = NoKey
  BY <1>1 DEF RemoveOld, Less
<1>2. CASE old # NoKey /\ Keeps(g, st)
  <2>1. RemoveOld(g, x, st, old, r) = OnList(x, e) /\ Less(K, old, r) = K \ {e}
    BY <1>2 DEF RemoveOld, Less
  <2>2. e \in K /\ Unique(g) = "r4unique"
    BY <1>2 DEF Keeps
  <2> HIDE DEF e
  <2>3. Fits(g, OnList(x, e), K \ {e}) /\ Lists(OnList(x, e)) = Lists(x) \cup {e}
    BY <2>2, OnListFits
  <2> QED BY <1>2, <2>1, <2>3 DEF e
<1>3. CASE old # NoKey /\ ~Keeps(g, st)
  <2>1. RemoveOld(g, x, st, old, r) = Gone(x, e) /\ Less(K, old, r) = K \ {e}
    BY <1>3 DEF RemoveOld, Less
  <2>2. e \notin Lists(x)
    <3>1. CASE Unique(g) = "r4unique"
      BY <3>1, <1>3 DEF Fits
    <3>2. CASE Unique(g) # "r4unique"
      BY <3>2, Unlisted
    <3> QED BY <3>1, <3>2
  <2>3. Fits(g, Gone(x, e), K \ {e}) /\ Gone(x, e).removed = x.removed
    BY <2>2, GoneFits
  <2> QED BY <1>3, <2>1, <2>3 DEF Lists
<1> QED BY <1>1, <1>2, <1>3

LEMMA AddNewFits ==
  ASSUME NEW g \in Tags, NEW x, NEW K, Fits(g, x, K), NEW st, NEW new \in Keys, NEW r \in Nat
  PROVE  \/ new = NoKey /\ AddNew(g, x, st, new, r) = [x |-> x, rc |-> "ok"]
         \/ new # NoKey /\ Claims(g, x, K, AddNew(g, x, st, new, r), new, r)
<1>1. CASE new = NoKey
  BY <1>1 DEF AddNew, Done
<1>2. CASE new # NoKey /\ st = "rollback" /\ ListedAs(x, new, r) # {}
  <2>1. AddNew(g, x, st, new, r) = [x |-> OffList(x, Min(ListedAs(x, new, r))), rc |-> "ok"]
    BY <1>2 DEF AddNew, Done
  <2> QED BY <1>2, <2>1, OwnIsListed DEF Claims
<1>3. CASE new # NoKey /\ ~(st = "rollback" /\ ListedAs(x, new, r) # {}) /\ Unique(g) # "none"
  <2>1. AddNew(g, x, st, new, r) = Claim(g, x, new, r)
    BY <1>3 DEF AddNew
  <2> QED BY <1>3, <2>1, ClaimFits
<1>4. CASE new # NoKey /\ ~(st = "rollback" /\ ListedAs(x, new, r) # {}) /\ Unique(g) = "none"
  <2>1. AddNew(g, x, st, new, r) = Add(g, x, new, r)
    BY <1>4 DEF AddNew
  <2>2. Adds(g, x, K, Add(g, x, new, r), new, r)
    BY <1>4, AddFits
  <2> QED BY <1>4, <2>1, <2>2 DEF Adds, Claims, Lists
<1> QED BY <1>1, <1>2, <1>3, <1>4

(* What was taken out of a tag that then refused is put back exactly.      *)
LEMMA PutBackRestores ==
  ASSUME NEW g \in Tags, NEW x, NEW K, Fits(g, x, K), NEW st, NEW old \in Keys, NEW r \in Nat,
         old # NoKey => <<old, r>> \in K, Unique(g) = "r4unique"
  PROVE  PutBackOld(g, RemoveOld(g, x, st, old, r), st, old, r) = x
<1> DEFINE e == <<old, r>>
<1>1. CASE old = NoKey
  BY <1>1 DEF RemoveOld, PutBackOld
<1>2. CASE old # NoKey /\ Keeps(g, st)
  <2>1. e \in K
    BY <1>2
  <2> HIDE DEF e
  <2>2. OffList(OnList(x, e), 1) = x
    BY <2>1, OnListFits
  <2> QED BY <1>2, <2>2 DEF RemoveOld, PutBackOld, e
<1>3. CASE old # NoKey /\ ~Keeps(g, st)
  <2> DEFINE y == Gone(x, e)
  <2>1. PutBackOld(g, RemoveOld(g, x, st, old, r), st, old, r) = Add(g, y, old, r).x
    BY <1>3 DEF RemoveOld, PutBackOld
  <2>2. x \in TagType /\ e \in x.keys /\ OnePerKey(x.keys)
    BY <1>3 DEF Fits
  <2>3. x = [keys |-> x.keys, removed |-> x.removed]
    BY <2>2 DEF TagType
  <2>4. y = [keys |-> x.keys \ {e}, removed |-> x.removed]
    <3> DEFINE S == x.keys \ {e}
    <3>1. y = [x EXCEPT !.keys = S]
      BY DEF Gone
    <3> HIDE DEF S, y
    <3>2. y = [keys |-> S, removed |-> x.removed]
      BY <3>1, <2>2 DEF TagType
    <3> QED BY <3>2 DEF S
  <2> HIDE DEF y
  <2>5. y.keys = x.keys \ {e} /\ y.removed = x.removed
    BY <2>4
  <2>6. ~\E f \in y.keys : f[1] = old
    BY <2>2, <2>5 DEF OnePerKey
  <2>7. Add(g, y, old, r).x = [y EXCEPT !.keys = @ \cup {e}]
    BY <2>6 DEF Add, Done
  <2>8. [y EXCEPT !.keys = @ \cup {e}] = [keys |-> x.keys, removed |-> x.removed]
    <3>1. (x.keys \ {e}) \cup {e} = x.keys
      BY <2>2
    <3> HIDE DEF e
    <3>2. [y EXCEPT !.keys = @ \cup {e}] = [keys |-> (x.keys \ {e}) \cup {e}, removed |-> x.removed]
      BY <2>4
    <3> QED BY <3>1, <3>2
  <2> QED BY <2>1, <2>3, <2>7, <2>8
<1> QED BY <1>1, <1>2, <1>3

Writes(g, x, K, st, a, r, old, new) ==
  \/ /\ a.rc = "ok" /\ Fits(g, a.x, Rewritten(K, r, old, new))
     /\ Lists(a.x) \subseteq
          Lists(x) \cup (IF Keeps(g, st) /\ old # NoKey THEN {<<old, r>>} ELSE {})
  \/ /\ a.rc = "unique" /\ a.x = x /\ Unique(g) = "r4unique" /\ old # new /\ new # NoKey
     /\ \E e \in Less(K, old, r) : e[1] = new

LEMMA WriteTag ==
  ASSUME NEW g \in Tags, NEW x, NEW K, Fits(g, x, K), NEW st, NEW r \in Nat,
         NEW old \in Keys, NEW new \in Keys, old # NoKey => <<old, r>> \in K
  PROVE  Writes(g, x, K, st, WriteKeyOneTag(g, x, st, r, old, new), r, old, new)
<1> DEFINE y == RemoveOld(g, x, st, old, r)
           a == AddNew(g, y, st, new, r)
           L == Less(K, old, r)
<1>1. CASE old = new
  <2>1. WriteKeyOneTag(g, x, st, r, old, new) = [x |-> x, rc |-> "ok"]
    BY <1>1 DEF WriteKeyOneTag, Done
  <2>2. Rewritten(K, r, old, new) = K
    BY <1>1 DEF Rewritten, Plus, Less
  <2> QED BY <2>1, <2>2 DEF Writes
<1>2. CASE old # new
  <2>1. WriteKeyOneTag(g, x, st, r, old, new) =
          IF a.rc = "ok" THEN a ELSE [x |-> PutBackOld(g, a.x, st, old, r), rc |-> a.rc]
    BY <1>2 DEF WriteKeyOneTag, Done
  <2>2. Fits(g, y, L) /\ Lists(y) \subseteq
          Lists(x) \cup (IF Keeps(g, st) /\ old # NoKey THEN {<<old, r>>} ELSE {})
    BY RemoveOldFits
  <2> HIDE DEF L
  <2>3. \/ new = NoKey /\ a = [x |-> y, rc |-> "ok"]
        \/ new # NoKey /\ Claims(g, y, L, a, new, r)
    <3> HIDE DEF y
    <3> QED BY <2>2, AddNewFits
  <2>4. Unique(g) = "r4unique" => PutBackOld(g, y, st, old, r) = x
    BY PutBackRestores
  <2> HIDE DEF y, a
  <2>5. Rewritten(K, r, old, new) = Plus(L, new, r)
    BY DEF Rewritten, L
  <2>6. CASE new = NoKey
    BY <2>1, <2>2, <2>3, <2>5, <2>6 DEF Writes, Plus
  <2>7. CASE new # NoKey /\ a.rc = "ok"
    BY <2>1, <2>2, <2>3, <2>5, <2>7 DEF Writes, Claims
  <2>8. CASE new # NoKey /\ a.rc # "ok"
    <3>1. a.rc = "unique" /\ a.x = y /\ Unique(g) = "r4unique" /\ \E e \in L : e[1] = new
      BY <2>3, <2>8 DEF Claims
    <3> QED BY <1>2, <2>1, <2>4, <2>8, <3>1 DEF Writes, L
  <2> QED BY <2>6, <2>7, <2>8
<1> QED BY <1>1, <1>2

------------------------------------------------------------------------------
(* Back over a tag that was written: its entries are those of before, and  *)
(* at most entries that were on the list before are on it.                 *)
LEMMA UndoneTag ==
  ASSUME NEW g \in Tags, NEW x, NEW K, Fits(g, x, K), NEW st, NEW r \in Nat,
         NEW old \in Keys, NEW new \in Keys, Owns(K, old, r),
         WriteKeyOneTag(g, x, st, r, old, new).rc = "ok"
  PROVE  LET z == UndoTag(g, WriteKeyOneTag(g, x, st, r, old, new).x, st, r, old, new)
         IN  Fits(g, z, K) /\ Lists(z) \subseteq Lists(x)
<1> DEFINE a == WriteKeyOneTag(g, x, st, r, old, new)
           y == a.x
           e == <<new, r>>
           u == IF new = NoKey THEN y ELSE RemoveCalc(y, new, r)
           L == Less(K, old, r)
           b == AddCalc(g, u, st, old, r)
           z == UndoTag(g, y, st, r, old, new)
<1>1. old # NoKey => <<old, r>> \in K
  BY DEF Owns
<1>2. CASE old = new
  BY <1>2 DEF UndoTag, WriteKeyOneTag, Done
<1>3. CASE old # new
  <2>1. z = b.x
    BY <1>3 DEF UndoTag
  <2>2. Writes(g, x, K, st, a, r, old, new)
    BY <1>1, WriteTag
  <2> HIDE DEF a, z
  <2>3. /\ Fits(g, y, Rewritten(K, r, old, new))
        /\ Lists(y) \subseteq
             Lists(x) \cup (IF Keeps(g, st) /\ old # NoKey THEN {<<old, r>>} ELSE {})
    BY <2>2 DEF Writes, a
  <2> HIDE DEF y
  <2>4. e \notin K
    BY <1>3 DEF Owns
  <2>5. Fits(g, u, L) /\ Lists(u) = Lists(y)
    <3>1. CASE new = NoKey
      BY <3>1, <2>3 DEF Rewritten, Plus
    <3>2. CASE new # NoKey
      <4>1. u = Gone(y, e) /\ Rewritten(K, r, old, new) = L \cup {e}
        BY <3>2 DEF RemoveCalc, Rewritten, Plus
      <4>2. (L \cup {e}) \ {e} = L
        BY <2>4 DEF Less
      <4>3. e \notin Lists(y)
        <5>1. CASE Unique(g) = "r4unique"
          BY <5>1, <2>3, <4>1 DEF Fits
        <5>2. CASE Unique(g) # "r4unique"
          BY <5>2, <2>3, Unlisted
        <5> QED BY <5>1, <5>2
      <4> HIDE DEF e, u, L
      <4>4. Fits(g, Gone(y, e), (L \cup {e}) \ {e}) /\ Gone(y, e).removed = y.removed
        BY <2>3, <4>1, <4>3, GoneFits
      <4> QED BY <4>1, <4>2, <4>4 DEF Lists
    <3> QED BY <3>1, <3>2
  <2>6. Appends(g, u, L, st, b, old, r)
    <3> HIDE DEF u, L
    <3> QED BY <2>5, AppendTag
  <2>7. Plus(L, old, r) = K
    BY <1>1 DEF Plus, Less
  <2>8. K \subseteq x.keys \/ Unique(g) # "r4unique"
    BY DEF Fits
  <2> HIDE DEF u, b, L
  <2>9. b.rc = "ok"
    <3> SUFFICES ASSUME b.rc # "ok"  PROVE FALSE
      OBVIOUS
    <3>1. /\ Unique(g) = "r4unique" /\ old # NoKey
          /\ \E f \in u.keys : f[1] = old /\ (Keeps(g, st) => f \in L)
      BY <2>6 DEF Appends
    <3>2. PICK f \in u.keys : f[1] = old /\ (Keeps(g, st) => f \in L)
      BY <3>1
    <3>3. u.keys = L \cup Lists(u) /\ x.keys = K \cup Lists(x) /\ K \cap Lists(x) = {} /\ OnePerKey(x.keys)
      BY <3>1, <2>5 DEF Fits
    <3>4. L \subseteq K /\ <<old, r>> \in K /\ <<old, r>> \notin L
      BY <1>1, <3>1 DEF L, Less
    <3>5. CASE f \in L
      <4>1. f = <<old, r>>
        BY <3>2, <3>3, <3>4, <3>5 DEF OnePerKey
      <4> QED BY <4>1, <3>4, <3>5
    <3>6. CASE f \notin L
      <4>1. f \in Lists(x)
        BY <3>2, <3>3, <3>6, <2>3, <2>5
      <4>2. f = <<old, r>>
        BY <4>1, <3>2, <3>3, <3>4 DEF OnePerKey
      <4> QED BY <4>1, <4>2, <3>3, <3>4
    <3> QED BY <3>5, <3>6
  <2>10. Fits(g, b.x, K) /\ Lists(b.x) \subseteq Lists(y)
    BY <2>5, <2>6, <2>7, <2>9 DEF Appends
  <2>11. Lists(b.x) \subseteq Lists(x)
    <3>1. CASE Unique(g) = "r4unique"
      BY <3>1, <1>1, <2>3, <2>10 DEF Fits
    <3>2. CASE Unique(g) # "r4unique"
      BY <3>2, <2>10, Unlisted
    <3> QED BY <3>1, <3>2
  <2> QED BY <2>1, <2>10, <2>11 DEF z, y, a
<1> QED BY <1>2, <1>3

(* A record that goes takes its entry along.                               *)
LEMMA DroppedTag ==
  ASSUME NEW g \in Tags, NEW x, NEW K, NEW key \in Keys, NEW r \in Nat,
         Fits(g, x, Plus(K, key, r)), <<key, r>> \notin K
  PROVE  Fits(g, RemoveCalc(x, key, r), K) /\ Lists(RemoveCalc(x, key, r)) = Lists(x)
<1> DEFINE e == <<key, r>>
<1>1. Plus(K, key, r) \ {e} = K
  BY DEF Plus
<1>2. e \notin Lists(x)
  <2>1. CASE key = NoKey
    <3>1. Lists(x) \subseteq Entry
      BY DEF Fits, TagType, Lists, Range
    <3> QED BY <3>1, <2>1 DEF Entry
  <2>2. CASE key # NoKey /\ Unique(g) = "r4unique"
    BY <2>2 DEF Fits, Plus
  <2>3. CASE Unique(g) # "r4unique"
    BY <2>3, Unlisted
  <2> QED BY <2>1, <2>2, <2>3
<1> HIDE DEF e
<1>3. Fits(g, Gone(x, e), Plus(K, key, r) \ {e}) /\ Gone(x, e).removed = x.removed
  BY <1>2, GoneFits
<1> QED BY <1>1, <1>3 DEF RemoveCalc, Lists, e

LEMMA EmptyList ==
  ASSUME NEW g, NEW x, NEW K, Fits(g, x, K), Lists(x) = {}
  PROVE  x.removed = <<>>
<1>1. x.removed \in Seq(Entry)
  BY DEF Fits, TagType
<1>2. DOMAIN x.removed = {}
  BY DEF Lists, Range
<1>3. Len(x.removed) = 0
  <2>1. Len(x.removed) \in Nat /\ DOMAIN x.removed = 1 .. Len(x.removed)
    BY <1>1
  <2>2. Len(x.removed) # 0 => 1 \in DOMAIN x.removed
    BY <2>1
  <2> QED BY <1>2, <2>2
<1> QED BY <1>1, <1>3

(* Two states of a tag that fit the same entries and list nothing are one. *)
LEMMA SameTag ==
  ASSUME NEW g, NEW x, NEW y, NEW K, Fits(g, x, K), Fits(g, y, K),
         Unique(g) # "r4uniqueContinue", Lists(x) = {}, Lists(y) = {}
  PROVE  x = y
<1>1. x \in TagType /\ y \in TagType /\ x.keys = y.keys
  BY DEF Fits
<1>2. x.removed = y.removed
  BY EmptyList
<1>3. x = [keys |-> x.keys, removed |-> x.removed] /\ y = [keys |-> y.keys, removed |-> y.removed]
  BY <1>1 DEF TagType
<1> QED BY <1>1, <1>2, <1>3

------------------------------------------------------------------------------
(* The tags in turn.                                                       *)
LEMMA TagsInTurn ==
  ASSUME NEW tags \in [Tags -> TagType], NEW made, NEW undone,
         \A g \in Tags : made[g].x \in TagType,
         \A g \in Tags : made[g].rc = "ok" => undone[g] \in TagType
  PROVE  LET w == InTurn(tags, made, undone) IN
         /\ w.x \in [Tags -> TagType]
         /\ \/ /\ w.rc = "ok"
               /\ \A g \in Tags : made[g].rc = "ok" /\ w.x[g] = made[g].x
            \/ \E at \in Tags :
                 /\ made[at].rc # "ok" /\ w.rc = made[at].rc
                 /\ \A g \in Tags : g < at => made[g].rc = "ok"
                 /\ \A g \in Tags : w.x[g] = IF g < at THEN undone[g]
                                             ELSE IF g = at THEN made[g].x ELSE tags[g]
<1> DEFINE w == InTurn(tags, made, undone)
           refusing == {g \in Tags : made[g].rc # "ok"}
           at == Min(refusing)
<1>1. CASE refusing = {}
  <2>1. w.x = [g \in Tags |-> made[g].x] /\ w.rc = "ok"
    BY <1>1 DEF InTurn, Done
  <2> QED BY <2>1, <1>1
<1>2. CASE refusing # {}
  <2>1. /\ w.x = [g \in Tags |-> IF g < at THEN undone[g]
                                 ELSE IF g = at THEN made[g].x ELSE tags[g]]
        /\ w.rc = made[at].rc
    BY <1>2 DEF InTurn, Done
  <2>2. refusing \subseteq Nat
    BY DEF Tags
  <2>3. at \in refusing /\ \A g \in refusing : at <= g
    <3> HIDE DEF refusing
    <3> QED BY <1>2, <2>2, LeastOf
  <2>4. at \in Tags /\ made[at].rc # "ok"
    BY <2>3
  <2>5. \A g \in Tags : g < at => made[g].rc = "ok"
    BY <2>2, <2>3 DEF Tags
  <2> HIDE DEF at, w
  <2>6. w.x \in [Tags -> TagType]
    BY <2>1, <2>5
  <2> QED BY <2>1, <2>4, <2>5, <2>6 DEF w
<1> QED BY <1>1, <1>2

------------------------------------------------------------------------------
(* The entries that belong to the records.                                 *)
LEMMA KeyOf ==
  ASSUME NEW v \in Values, NEW g \in Tags  PROVE v[g] \in Keys
BY DEF Keys

LEMMA KeysOwned ==
  ASSUME NEW recs \in Seq(Values), NEW g \in Tags, NEW r \in DOMAIN recs
  PROVE  Owns(KeysOf(recs, g), recs[r][g], r)
BY DEF Owns, KeysOf

LEMMA KeysWritten ==
  ASSUME NEW recs \in Seq(Values), NEW g \in Tags, NEW r \in DOMAIN recs, NEW new \in Values
  PROVE  KeysOf([recs EXCEPT ![r] = new], g)
           = Rewritten(KeysOf(recs, g), r, recs[r][g], new[g])
<1> DEFINE s == [recs EXCEPT ![r] = new]
           P == {k \in DOMAIN recs : recs[k][g] # NoKey}
           Q == {k \in DOMAIN recs : s[k][g] # NoKey}
<1>1. DOMAIN s = DOMAIN recs /\ s[r] = new /\ \A k \in DOMAIN recs : k # r => s[k] = recs[k]
  OBVIOUS
<1>2. KeysOf(s, g) = {<<s[k][g], k>> : k \in Q} /\ KeysOf(recs, g) = {<<recs[k][g], k>> : k \in P}
  BY <1>1 DEF KeysOf
<1> HIDE DEF s
<1>3. \A k \in Q : <<s[k][g], k>> \in Rewritten(KeysOf(recs, g), r, recs[r][g], new[g])
  BY <1>1, <1>2 DEF Rewritten, Plus, Less
<1>4. ASSUME NEW e \in Rewritten(KeysOf(recs, g), r, recs[r][g], new[g])
      PROVE  e \in KeysOf(s, g)
  <2>1. CASE new[g] # NoKey /\ e = <<new[g], r>>
    BY <2>1, <1>1, <1>2
  <2>2. CASE e \in Less(KeysOf(recs, g), recs[r][g], r)
    <3>1. PICK k \in P : e = <<recs[k][g], k>>
      BY <2>2, <1>2 DEF Less
    <3>2. k # r
      BY <3>1, <2>2 DEF Less
    <3> QED BY <3>1, <3>2, <1>1, <1>2
  <2> QED BY <1>4, <2>1, <2>2 DEF Rewritten, Plus
<1> QED BY <1>2, <1>3, <1>4 DEF s

LEMMA KeysAppended ==
  ASSUME NEW recs \in Seq(Values), NEW g \in Tags, NEW new \in Values
  PROVE  /\ KeysOf(Append(recs, new), g) = Plus(KeysOf(recs, g), new[g], Len(recs) + 1)
         /\ \A k : <<k, Len(recs) + 1>> \notin KeysOf(recs, g)
<1> DEFINE s == Append(recs, new)
           n == Len(recs) + 1
           P == {k \in DOMAIN recs : recs[k][g] # NoKey}
           Q == {k \in DOMAIN s : s[k][g] # NoKey}
<1>1. /\ n \notin DOMAIN recs /\ DOMAIN s = DOMAIN recs \cup {n}
      /\ s[n] = new /\ \A k \in DOMAIN recs : s[k] = recs[k]
  OBVIOUS
<1>2. KeysOf(s, g) = {<<s[k][g], k>> : k \in Q} /\ KeysOf(recs, g) = {<<recs[k][g], k>> : k \in P}
  BY DEF KeysOf
<1> HIDE DEF s, n
<1>3. \A k : <<k, n>> \notin KeysOf(recs, g)
  BY <1>1, <1>2
<1>4. KeysOf(s, g) = Plus(KeysOf(recs, g), new[g], n)
  <2>1. CASE new[g] = NoKey
    <3>1. P = Q /\ \A k \in P : s[k] = recs[k]
      BY <2>1, <1>1
    <3> QED BY <2>1, <3>1, <1>2 DEF Plus
  <2>2. CASE new[g] # NoKey
    <3>1. Q = P \cup {n} /\ \A k \in P : s[k] = recs[k]
      BY <2>2, <1>1
    <3> QED BY <2>2, <3>1, <1>1, <1>2 DEF Plus
  <2> QED BY <2>1, <2>2
<1> QED BY <1>3, <1>4 DEF s, n

------------------------------------------------------------------------------
(* The table.                                                              *)
TableType == [recs : Seq(Values), tags : [Tags -> TagType]]

Fitting(u) == \A g \in Tags : Fits(g, u.tags[g], KeysOf(u.recs, g))

(* u lists at most what v lists, and the entries of L. *)
Within(u, v, L) == \A g \in Tags : Lists(u.tags[g]) \subseteq Lists(v.tags[g]) \cup L[g]

NoEntries == [g \in Tags |-> {}]
Old(rec, r, st) ==
  [g \in Tags |-> IF Keeps(g, st) /\ rec[g] # NoKey THEN {<<rec[g], r>>} ELSE {}]

(* A record's keys are true for a tag as soon as the tag's are.            *)
LEMMA KeysAreOne ==
  ASSUME NEW u, Fitting(u), NEW g \in Tags, Unique(g) = "r4unique"
  PROVE  OnePerKey(KeysOf(u.recs, g))
BY DEF Fitting, Fits, OnePerKey

(* Writing a record: done, refused or failed.                              *)
WritesTable(u, st, r, new, w) ==
  /\ w.x \in TableType
  /\ \/ /\ w.rc = "ok" /\ w.x.recs = [u.recs EXCEPT ![r] = new]
        /\ Fitting(w.x) /\ Within(w.x, u, Old(u.recs[r], r, st))
     \/ /\ w.rc = "unique" /\ w.x.recs = u.recs
        /\ Fitting(w.x) /\ Within(w.x, u, NoEntries)
        /\ \E g \in Tags : Unique(g) = "r4unique" /\ ~OnePerKey(KeysOf([u.recs EXCEPT ![r] = new], g))
     \/ w.rc = "error"

LEMMA WriteTable ==
  ASSUME NEW u \in TableType, Fitting(u), NEW st, NEW r \in DOMAIN u.recs, NEW new \in Values,
         NEW fails \in BOOLEAN
  PROVE  /\ WritesTable(u, st, r, new, WriteRecord(u, st, r, new, fails))
         /\ ~fails => WriteRecord(u, st, r, new, fails).rc # "error"
<1> DEFINE made == [g \in Tags |-> WriteKeyOneTag(g, u.tags[g], st, r, u.recs[r][g], new[g])]
           undone == [g \in Tags |-> UndoTag(g, made[g].x, st, r, u.recs[r][g], new[g])]
           w == InTurn(u.tags, made, undone)
           s == [u.recs EXCEPT ![r] = new]
           K(g) == KeysOf(u.recs, g)
<1>1. /\ u.recs \in Seq(Values) /\ u.tags \in [Tags -> TagType] /\ r \in Nat
      /\ u = [recs |-> u.recs, tags |-> u.tags] /\ u.recs[r] \in Values
  BY DEF TableType
<1>2. s \in Seq(Values)
  BY <1>1
<1>3. WriteKeys(u.tags, st, r, u.recs[r], new) = w
  BY DEF WriteKeys
<1>4. /\ [u EXCEPT !.tags = w.x] = [recs |-> u.recs, tags |-> w.x]
      /\ \A x : [[recs |-> u.recs, tags |-> x] EXCEPT !.recs[r] = new] = [recs |-> s, tags |-> x]
  <2> HIDE DEF w
  <2>1. [u EXCEPT !.tags = w.x] = [recs |-> u.recs, tags |-> w.x]
    BY <1>1
  <2> QED BY <2>1
<1>5. WriteRecord(u, st, r, new, fails) =
        IF w.rc # "ok" THEN [x |-> [recs |-> u.recs, tags |-> w.x], rc |-> w.rc]
        ELSE IF fails THEN [x |-> [recs |-> u.recs, tags |-> w.x], rc |-> "error"]
        ELSE [x |-> [recs |-> s, tags |-> w.x], rc |-> "ok"]
  <2> HIDE DEF w, s
  <2> QED BY <1>3, <1>4 DEF WriteRecord, Done
<1>6. ASSUME NEW g \in Tags
      PROVE  /\ u.recs[r][g] \in Keys /\ new[g] \in Keys
             /\ Fits(g, u.tags[g], K(g)) /\ Owns(K(g), u.recs[r][g], r)
             /\ Writes(g, u.tags[g], K(g), st, made[g], r, u.recs[r][g], new[g])
             /\ made[g].rc = "ok" =>
                  Fits(g, undone[g], K(g)) /\ Lists(undone[g]) \subseteq Lists(u.tags[g])
             /\ KeysOf(s, g) = Rewritten(K(g), r, u.recs[r][g], new[g])
  <2> DEFINE old == u.recs[r][g]
             key == new[g]
             x == u.tags[g]
             C == KeysOf(u.recs, g)
  <2>1. old \in Keys /\ key \in Keys
    BY <1>1, KeyOf
  <2>2. Fits(g, x, C)
    BY DEF Fitting
  <2>3. Owns(C, old, r) /\ KeysOf(s, g) = Rewritten(C, r, old, key)
    BY <1>1, KeysOwned, KeysWritten
  <2>4. made[g] = WriteKeyOneTag(g, x, st, r, old, key)
    OBVIOUS
  <2>5. undone[g] = UndoTag(g, made[g].x, st, r, old, key)
    <3> HIDE DEF made
    <3> QED OBVIOUS
  <2> HIDE DEF made, undone, s, x, C, old, key
  <2>6. Writes(g, x, C, st, made[g], r, old, key)
    <3>1. old # NoKey => <<old, r>> \in C
      BY <2>3 DEF Owns
    <3> QED BY <1>1, <2>1, <2>2, <2>4, <3>1, WriteTag
  <2>7. made[g].rc = "ok" => Fits(g, undone[g], C) /\ Lists(undone[g]) \subseteq Lists(x)
    BY <1>1, <2>1, <2>2, <2>3, <2>4, <2>5, UndoneTag
  <2> QED BY <2>1, <2>2, <2>3, <2>6, <2>7 DEF x, C, old, key
<1> HIDE DEF made, undone, s, w
<1>7. /\ \A g \in Tags : made[g].x \in TagType
      /\ \A g \in Tags : made[g].rc = "ok" => undone[g] \in TagType
  <2> SUFFICES ASSUME NEW g \in Tags
               PROVE  made[g].x \in TagType /\ (made[g].rc = "ok" => undone[g] \in TagType)
    OBVIOUS
  <2> QED BY <1>1, <1>6 DEF Writes, Fits
<1>8. /\ w.x \in [Tags -> TagType]
      /\ \/ /\ w.rc = "ok"
            /\ \A g \in Tags : made[g].rc = "ok" /\ w.x[g] = made[g].x
         \/ \E at \in Tags :
              /\ made[at].rc # "ok" /\ w.rc = made[at].rc
              /\ \A g \in Tags : g < at => made[g].rc = "ok"
              /\ \A g \in Tags : w.x[g] = IF g < at THEN undone[g]
                                          ELSE IF g = at THEN made[g].x ELSE u.tags[g]
  BY <1>1, <1>7, TagsInTurn DEF w
<1>9. CASE w.rc = "ok" /\ \A g \in Tags : made[g].rc = "ok" /\ w.x[g] = made[g].x
  <2> DEFINE y == [recs |-> s, tags |-> w.x]
  <2>1. y \in TableType /\ y.recs = s /\ y.tags = w.x
    BY <1>2, <1>8 DEF TableType
  <2> HIDE DEF y
  <2>2. Fitting(y)
    <3> SUFFICES ASSUME NEW g \in Tags  PROVE Fits(g, w.x[g], KeysOf(s, g))
      BY <2>1 DEF Fitting
    <3> QED BY <1>6, <1>9 DEF Writes
  <2>3. Within(y, u, Old(u.recs[r], r, st))
    <3> SUFFICES ASSUME NEW g \in Tags
                 PROVE  Lists(w.x[g]) \subseteq Lists(u.tags[g]) \cup Old(u.recs[r], r, st)[g]
      BY <2>1 DEF Within
    <3>1. Old(u.recs[r], r, st)[g] =
            IF Keeps(g, st) /\ u.recs[r][g] # NoKey THEN {<<u.recs[r][g], r>>} ELSE {}
      BY DEF Old
    <3> QED BY <1>6, <1>9, <3>1 DEF Writes
  <2>4. CASE fails
    <3>1. [recs |-> u.recs, tags |-> w.x] \in TableType
      BY <1>1, <1>8 DEF TableType
    <3> QED BY <1>5, <1>9, <2>4, <3>1 DEF WritesTable
  <2>5. CASE ~fails
    <3>1. WriteRecord(u, st, r, new, fails) = [x |-> y, rc |-> "ok"]
      BY <1>5, <1>9, <2>5 DEF y
    <3> QED BY <2>1, <2>2, <2>3, <3>1 DEF WritesTable, s
  <2> QED BY <2>4, <2>5
<1>10. ASSUME NEW at \in Tags, made[at].rc # "ok", w.rc = made[at].rc,
              \A g \in Tags : g < at => made[g].rc = "ok",
              \A g \in Tags : w.x[g] = IF g < at THEN undone[g]
                                       ELSE IF g = at THEN made[g].x ELSE u.tags[g]
       PROVE  /\ WritesTable(u, st, r, new, WriteRecord(u, st, r, new, fails))
              /\ WriteRecord(u, st, r, new, fails).rc # "error"
  <2> DEFINE y == [recs |-> u.recs, tags |-> w.x]
  <2>1. y \in TableType /\ y.recs = u.recs /\ y.tags = w.x
    BY <1>1, <1>8 DEF TableType
  <2> HIDE DEF y
  <2>2. /\ w.rc = "unique" /\ made[at].x = u.tags[at] /\ Unique(at) = "r4unique"
        /\ u.recs[r][at] # new[at] /\ new[at] # NoKey
        /\ \E e \in Less(K(at), u.recs[r][at], r) : e[1] = new[at]
    BY <1>6, <1>10 DEF Writes
  <2>3. ASSUME NEW g \in Tags
        PROVE  Fits(g, w.x[g], K(g)) /\ Lists(w.x[g]) \subseteq Lists(u.tags[g])
    BY <1>6, <1>10, <2>2
  <2>4. Fitting(y) /\ Within(y, u, NoEntries)
    BY <2>1, <2>3 DEF Fitting, Within, NoEntries
  <2>5. ~OnePerKey(KeysOf(s, at))
    <3>1. PICK e \in Less(K(at), u.recs[r][at], r) : e[1] = new[at]
      BY <2>2
    <3>2. KeysOf(s, at) = Less(K(at), u.recs[r][at], r) \cup {<<new[at], r>>}
      BY <1>6, <2>2 DEF Rewritten, Plus
    <3>3. e # <<new[at], r>>
      <4>1. <<new[at], r>> \notin K(at)
        BY <1>6, <2>2 DEF Owns
      <4> QED BY <3>1, <4>1 DEF Less
    <3> QED BY <3>1, <3>2, <3>3 DEF OnePerKey
  <2>6. WriteRecord(u, st, r, new, fails) = [x |-> y, rc |-> "unique"]
    BY <1>5, <2>2 DEF y
  <2> QED BY <2>1, <2>2, <2>4, <2>5, <2>6 DEF WritesTable, s
<1> QED
  <2>1. CASE w.rc = "ok" /\ \A g \in Tags : made[g].rc = "ok" /\ w.x[g] = made[g].x
    BY <2>1, <1>9, <1>5
  <2>2. CASE ~(w.rc = "ok" /\ \A g \in Tags : made[g].rc = "ok" /\ w.x[g] = made[g].x)
    BY <2>2, <1>8, <1>10
  <2> QED BY <2>1, <2>2

------------------------------------------------------------------------------
(* Appending a record: done, refused or failed.                            *)
AppendsTable(u, new, w) ==
  /\ w.x \in TableType
  /\ \/ /\ w.rc = "ok" /\ w.x.recs = Append(u.recs, new)
        /\ Fitting(w.x) /\ Within(w.x, u, NoEntries)
     \/ /\ w.rc = "unique" /\ w.x.recs = u.recs
        /\ Fitting(w.x) /\ Within(w.x, u, NoEntries)
     \/ w.rc = "error"

LEMMA AppendTable ==
  ASSUME NEW u \in TableType, Fitting(u), NEW st, NEW new \in Values, NEW fails \in BOOLEAN
  PROVE  /\ AppendsTable(u, new, AppendRecord(u, st, new, fails))
         /\ ~fails => AppendRecord(u, st, new, fails).rc # "error"
<1> DEFINE r == Len(u.recs) + 1
           made == [g \in Tags |-> AddCalc(g, u.tags[g], st, new[g], r)]
           undone == [g \in Tags |-> RemoveCalc(made[g].x, new[g], r)]
           w == InTurn(u.tags, made, undone)
           s == Append(u.recs, new)
           K(g) == KeysOf(u.recs, g)
<1>1. /\ u.recs \in Seq(Values) /\ u.tags \in [Tags -> TagType] /\ r \in Nat
      /\ u = [recs |-> u.recs, tags |-> u.tags]
  BY DEF TableType
<1>2. s \in Seq(Values)
  BY <1>1
<1>3. [u EXCEPT !.tags = w.x] = [recs |-> u.recs, tags |-> w.x]
  <2> HIDE DEF w
  <2> QED BY <1>1
<1>4. AppendRecord(u, st, new, fails) =
        IF w.rc # "ok" THEN [x |-> [recs |-> u.recs, tags |-> w.x], rc |-> w.rc]
        ELSE IF fails THEN [x |-> [recs |-> u.recs, tags |-> w.x], rc |-> "error"]
        ELSE [x |-> [recs |-> s, tags |-> w.x], rc |-> "ok"]
  <2> DEFINE y == [u EXCEPT !.tags = w.x]
  <2>1. AppendRecord(u, st, new, fails) =
          IF w.rc # "ok" THEN [x |-> y, rc |-> w.rc]
          ELSE IF fails THEN [x |-> y, rc |-> "error"]
          ELSE [x |-> [y EXCEPT !.recs = Append(@, new)], rc |-> "ok"]
    BY DEF AppendRecord, Done
  <2>2. [[recs |-> u.recs, tags |-> w.x] EXCEPT !.recs = Append(@, new)] = [recs |-> s, tags |-> w.x]
    <3> DEFINE z == [recs |-> u.recs, tags |-> w.x]
    <3>1. [z EXCEPT !.recs = Append(@, new)] = [z EXCEPT !.recs = s]
      OBVIOUS
    <3> HIDE DEF w, s
    <3>2. [z EXCEPT !.recs = s] = [recs |-> s, tags |-> w.x]
      OBVIOUS
    <3> QED BY <3>1, <3>2
  <2> HIDE DEF w, s
  <2> QED BY <1>3, <2>1, <2>2
<1>5. ASSUME NEW g \in Tags
      PROVE  /\ Fits(g, u.tags[g], K(g))
             /\ Appends(g, u.tags[g], K(g), st, made[g], new[g], r)
             /\ made[g].rc = "ok" =>
                  Fits(g, undone[g], K(g)) /\ Lists(undone[g]) \subseteq Lists(u.tags[g])
             /\ KeysOf(s, g) = Plus(K(g), new[g], r)
  <2> DEFINE key == new[g]
             x == u.tags[g]
             C == KeysOf(u.recs, g)
  <2>1. key \in Keys
    BY KeyOf
  <2>2. Fits(g, x, C)
    BY DEF Fitting
  <2>3. KeysOf(s, g) = Plus(C, key, r) /\ <<key, r>> \notin C
    BY <1>1, KeysAppended
  <2>4. made[g] = AddCalc(g, x, st, key, r)
    OBVIOUS
  <2>5. undone[g] = RemoveCalc(made[g].x, key, r)
    <3> HIDE DEF made
    <3> QED OBVIOUS
  <2> HIDE DEF made, undone, s, x, C, key, r
  <2>6. Appends(g, x, C, st, made[g], key, r)
    BY <1>1, <2>1, <2>2, <2>4, AppendTag
  <2>7. ASSUME made[g].rc = "ok"
        PROVE  Fits(g, undone[g], C) /\ Lists(undone[g]) \subseteq Lists(x)
    <3>1. Fits(g, made[g].x, Plus(C, key, r)) /\ Lists(made[g].x) \subseteq Lists(x)
      BY <2>6, <2>7 DEF Appends
    <3> QED BY <1>1, <2>1, <2>3, <2>5, <3>1, DroppedTag
  <2> QED BY <2>2, <2>3, <2>6, <2>7 DEF x, C, key
<1> HIDE DEF made, undone, s, w, r
<1>6. /\ \A g \in Tags : made[g].x \in TagType
      /\ \A g \in Tags : made[g].rc = "ok" => undone[g] \in TagType
  <2> SUFFICES ASSUME NEW g \in Tags
               PROVE  made[g].x \in TagType /\ (made[g].rc = "ok" => undone[g] \in TagType)
    OBVIOUS
  <2> QED BY <1>1, <1>5 DEF Appends, Fits
<1>7. /\ w.x \in [Tags -> TagType]
      /\ \/ /\ w.rc = "ok"
            /\ \A g \in Tags : made[g].rc = "ok" /\ w.x[g] = made[g].x
         \/ \E at \in Tags :
              /\ made[at].rc # "ok" /\ w.rc = made[at].rc
              /\ \A g \in Tags : g < at => made[g].rc = "ok"
              /\ \A g \in Tags : w.x[g] = IF g < at THEN undone[g]
                                          ELSE IF g = at THEN made[g].x ELSE u.tags[g]
  BY <1>1, <1>6, TagsInTurn DEF w
<1>8. CASE w.rc = "ok" /\ \A g \in Tags : made[g].rc = "ok" /\ w.x[g] = made[g].x
  <2> DEFINE y == [recs |-> s, tags |-> w.x]
  <2>1. y \in TableType /\ y.recs = s /\ y.tags = w.x
    BY <1>2, <1>7 DEF TableType
  <2> HIDE DEF y
  <2>2. Fitting(y)
    <3> SUFFICES ASSUME NEW g \in Tags  PROVE Fits(g, w.x[g], KeysOf(s, g))
      BY <2>1 DEF Fitting
    <3> QED BY <1>5, <1>8 DEF Appends
  <2>3. Within(y, u, NoEntries)
    <3> SUFFICES ASSUME NEW g \in Tags  PROVE Lists(w.x[g]) \subseteq Lists(u.tags[g])
      BY <2>1 DEF Within, NoEntries
    <3> QED BY <1>5, <1>8 DEF Appends
  <2>4. CASE fails
    <3>1. [recs |-> u.recs, tags |-> w.x] \in TableType
      BY <1>1, <1>7 DEF TableType
    <3> QED BY <1>4, <1>8, <2>4, <3>1 DEF AppendsTable
  <2>5. CASE ~fails
    <3>1. AppendRecord(u, st, new, fails) = [x |-> y, rc |-> "ok"]
      BY <1>4, <1>8, <2>5 DEF y
    <3> QED BY <2>1, <2>2, <2>3, <3>1 DEF AppendsTable, s
  <2> QED BY <2>4, <2>5
<1>9. ASSUME NEW at \in Tags, made[at].rc # "ok", w.rc = made[at].rc,
             \A g \in Tags : g < at => made[g].rc = "ok",
             \A g \in Tags : w.x[g] = IF g < at THEN undone[g]
                                      ELSE IF g = at THEN made[g].x ELSE u.tags[g]
      PROVE  /\ AppendsTable(u, new, AppendRecord(u, st, new, fails))
             /\ AppendRecord(u, st, new, fails).rc # "error"
  <2> DEFINE y == [recs |-> u.recs, tags |-> w.x]
  <2>1. y \in TableType /\ y.recs = u.recs /\ y.tags = w.x
    BY <1>1, <1>7 DEF TableType
  <2> HIDE DEF y
  <2>2. w.rc = "unique" /\ made[at].x = u.tags[at]
    BY <1>5, <1>9 DEF Appends
  <2>3. ASSUME NEW g \in Tags
        PROVE  Fits(g, w.x[g], K(g)) /\ Lists(w.x[g]) \subseteq Lists(u.tags[g])
    BY <1>5, <1>9, <2>2
  <2>4. Fitting(y) /\ Within(y, u, NoEntries)
    BY <2>1, <2>3 DEF Fitting, Within, NoEntries
  <2>5. AppendRecord(u, st, new, fails) = [x |-> y, rc |-> "unique"]
    BY <1>4, <2>2 DEF y
  <2> QED BY <2>1, <2>2, <2>4, <2>5 DEF AppendsTable
<1> QED
  <2>1. CASE w.rc = "ok" /\ \A g \in Tags : made[g].rc = "ok" /\ w.x[g] = made[g].x
    BY <2>1, <1>8, <1>4
  <2>2. CASE ~(w.rc = "ok" /\ \A g \in Tags : made[g].rc = "ok" /\ w.x[g] = made[g].x)
    BY <2>2, <1>7, <1>9
  <2> QED BY <2>1, <2>2

(* An append that is undone.                                               *)
LEMMA UnappendTable ==
  ASSUME NEW u \in TableType, Fitting(u), NEW p \in Seq(Values), NEW new \in Values,
         u.recs = Append(p, new)
  PROVE  LET v == UnappendRecord(u, new) IN
         v \in TableType /\ v.recs = p /\ Fitting(v) /\ Within(v, u, NoEntries)
<1> DEFINE v == UnappendRecord(u, new)
           r == Len(p) + 1
<1>1. Len(u.recs) = r /\ Front(u.recs) = p /\ r \in Nat
  BY DEF Front
<1>2. v = [recs |-> p, tags |-> [g \in Tags |-> RemoveCalc(u.tags[g], new[g], r)]]
  BY <1>1 DEF UnappendRecord
<1>3. v.recs = p /\ \A g \in Tags : v.tags[g] = RemoveCalc(u.tags[g], new[g], r)
  BY <1>2
<1>4. ASSUME NEW g \in Tags
      PROVE  Fits(g, v.tags[g], KeysOf(p, g)) /\ Lists(v.tags[g]) = Lists(u.tags[g])
  <2> DEFINE key == new[g]
             x == u.tags[g]
             C == KeysOf(p, g)
  <2>1. key \in Keys /\ KeysOf(u.recs, g) = Plus(C, key, r) /\ <<key, r>> \notin C
    BY KeyOf, KeysAppended
  <2>2. Fits(g, x, Plus(C, key, r))
    BY <2>1 DEF Fitting
  <2> HIDE DEF r, v, key, x, C
  <2>3. Fits(g, RemoveCalc(x, key, r), C) /\ Lists(RemoveCalc(x, key, r)) = Lists(x)
    BY <1>1, <2>1, <2>2, DroppedTag
  <2> QED BY <1>3, <2>3 DEF x, key, C
<1>5. v \in TableType
  <2>1. \A g \in Tags : RemoveCalc(u.tags[g], new[g], r) \in TagType
    BY <1>3, <1>4 DEF Fits
  <2> QED BY <1>2, <2>1 DEF TableType
<1> HIDE DEF v
<1>6. Fitting(v) /\ Within(v, u, NoEntries)
  BY <1>3, <1>4 DEF Fitting, Within, NoEntries
<1> QED BY <1>3, <1>5, <1>6 DEF v

(* What a commit leaves: the same records, and no lists.                   *)
LEMMA RemoveKeysTable ==
  ASSUME NEW u \in TableType, Fitting(u)
  PROVE  LET v == RemoveKeys(u) IN
         /\ v \in TableType /\ v.recs = u.recs /\ Fitting(v)
         /\ \A g \in Tags : v.tags[g].removed = <<>>
<1> DEFINE v == RemoveKeys(u)
           tags == [g \in Tags |->
                      [keys |-> u.tags[g].keys \ Range(u.tags[g].removed), removed |-> <<>>]]
<1>1. u.recs \in Seq(Values) /\ u.tags \in [Tags -> TagType] /\ u = [recs |-> u.recs, tags |-> u.tags]
  BY DEF TableType
<1>2. v = [recs |-> u.recs, tags |-> tags]
  <2>1. v = [u EXCEPT !.tags = tags]
    BY DEF RemoveKeys
  <2> HIDE DEF tags, v
  <2> QED BY <1>1, <2>1
<1>3. \A g \in Tags : /\ tags[g].keys = u.tags[g].keys \ Lists(u.tags[g])
                      /\ tags[g].removed = <<>>
                      /\ tags[g] = [keys |-> tags[g].keys, removed |-> <<>>]
  BY DEF Lists
<1> HIDE DEF tags, v
<1>4. ASSUME NEW g \in Tags  PROVE Fits(g, tags[g], KeysOf(u.recs, g)) /\ tags[g] \in TagType
  <2>1. Fits(g, u.tags[g], KeysOf(u.recs, g)) /\ u.tags[g].keys \subseteq Entry
    BY <1>1 DEF Fitting, TagType
  <2>2. tags[g].keys \in SUBSET Entry
    BY <1>3, <2>1
  <2>3. tags[g] \in TagType
    <3>1. <<>> \in Seq(Entry)
      OBVIOUS
    <3>2. [keys |-> tags[g].keys, removed |-> <<>>] \in TagType
      BY <2>2, <3>1 DEF TagType
    <3> QED BY <1>3, <3>2
  <2>4. Lists(tags[g]) = {} /\ Distinct(tags[g].removed)
    <3>1. tags[g].removed = <<>>
      BY <1>3
    <3>2. DOMAIN tags[g].removed = {}
      BY <3>1
    <3> QED BY <3>2 DEF Lists, Range, Distinct
  <2>5. Unique(g) # "none" => OnePerKey(tags[g].keys)
    BY <1>3, <2>1 DEF Fits, OnePerKey
  <2>6. Unique(g) # "r4uniqueContinue" => tags[g].keys = KeysOf(u.recs, g)
    BY <1>3, <2>1 DEF Fits
  <2> QED BY <1>3, <2>3, <2>4, <2>5, <2>6 DEF Fits
<1>5. tags \in [Tags -> TagType]
  <2>1. \A g \in Tags : [keys |-> u.tags[g].keys \ Range(u.tags[g].removed), removed |-> <<>>] \in TagType
    BY <1>4 DEF tags
  <2> QED BY <2>1 DEF tags
<1>6. v \in TableType /\ v.recs = u.recs /\ v.tags = tags
  BY <1>1, <1>2, <1>5 DEF TableType
<1>7. Fitting(v)
  BY <1>4, <1>6 DEF Fitting
<1> QED BY <1>3, <1>6, <1>7 DEF v

(* Where no tag skips a second entry, the records and the lists decide     *)
(* about everything.                                                       *)
LEMMA SameTable ==
  ASSUME NEW u \in TableType, NEW v \in TableType, Fitting(u), Fitting(v), u.recs = v.recs,
         Within(u, v, NoEntries), \A g \in Tags : Unique(g) # "r4uniqueContinue"
  PROVE  /\ \A g \in Tags : u.tags[g].keys \subseteq v.tags[g].keys
         /\ (\A g \in Tags : Lists(v.tags[g]) = {}) => u = v
<1>1. \A g \in Tags : Lists(u.tags[g]) \subseteq Lists(v.tags[g])
  BY DEF Within, NoEntries
<1>2. \A g \in Tags : u.tags[g].keys \subseteq v.tags[g].keys
  BY <1>1 DEF Fitting, Fits
<1>3. ASSUME \A g \in Tags : Lists(v.tags[g]) = {}  PROVE u = v
  <2>1. ASSUME NEW g \in Tags  PROVE u.tags[g] = v.tags[g]
    <3>1. Lists(u.tags[g]) = {} /\ Lists(v.tags[g]) = {}
      BY <1>1, <1>3
    <3>2. Fits(g, u.tags[g], KeysOf(u.recs, g)) /\ Fits(g, v.tags[g], KeysOf(u.recs, g))
      BY DEF Fitting
    <3> QED BY <3>1, <3>2, SameTag
  <2>2. u.tags \in [Tags -> TagType] /\ v.tags \in [Tags -> TagType]
    BY DEF TableType
  <2>3. u.tags = v.tags
    BY <2>1, <2>2
  <2>4. u = [recs |-> u.recs, tags |-> u.tags] /\ v = [recs |-> v.recs, tags |-> v.tags]
    BY DEF TableType
  <2> QED BY <2>3, <2>4
<1> QED BY <1>2, <1>3

------------------------------------------------------------------------------
(* The log.                                                                *)
EntryType ==
  [op : {"write"}, rec : Nat, old : Values, new : Values]
    \cup [op : {"append"}, rec : Nat, old : {None}, new : Values]

(* e led from the records p to q: it was done, or refused.                 *)
Led(p, e, q) ==
  \/ /\ e.op = "write" /\ e.rec \in DOMAIN p /\ e.old = p[e.rec]
     /\ q = p \/ q = [p EXCEPT ![e.rec] = e.new]
  \/ /\ e.op = "append" /\ e.rec = Len(p) + 1
     /\ q = p \/ q = Append(p, e.new)

UniqueKeys(recs) == \A g \in Tags : Unique(g) = "r4unique" => OnePerKey(KeysOf(recs, g))

(* The entries lead from p to q through the records of past.               *)
Path(past, es, p, q) ==
  /\ past \in [1 .. Len(es) + 1 -> Seq(Values)]
  /\ past[1] = p /\ past[Len(es) + 1] = q
  /\ \A i \in 1 .. Len(es) + 1 : UniqueKeys(past[i])
  /\ \A i \in 1 .. Len(es) : Led(past[i], es[i], past[i + 1])

(* What is on a list is the old key of a write in the log.                 *)
Witness(e, g, f) == e.op = "write" /\ e.rec = f[2] /\ e.old[g] = f[1]

Witnessed(u, es) ==
  \A g \in Tags : \A f \in Lists(u.tags[g]) : \E i \in DOMAIN es : Witness(es[i], g, f)

LEMMA FittingUnique ==
  ASSUME NEW u, Fitting(u)  PROVE UniqueKeys(u.recs)
BY KeysAreOne DEF UniqueKeys

LEMMA PathStarts ==
  ASSUME NEW p \in Seq(Values), UniqueKeys(p)
  PROVE  Path([i \in 1 .. Len(<<>>) + 1 |-> p], <<>>, p, p)
<1>1. Len(<<>>) = 0
  OBVIOUS
<1> QED BY <1>1 DEF Path

LEMMA PathExtends ==
  ASSUME NEW es \in Seq(EntryType), NEW p, NEW q, NEW past, Path(past, es, p, q),
         NEW e \in EntryType, NEW s \in Seq(Values), Led(q, e, s), UniqueKeys(s)
  PROVE  \E more : Path(more, Append(es, e), p, s)
<1> DEFINE n == Len(es)
           fs == Append(es, e)
           more == [i \in 1 .. Len(fs) + 1 |-> IF i <= n + 1 THEN past[i] ELSE s]
<1>1. n \in Nat /\ Len(fs) = n + 1 /\ fs[n + 1] = e /\ \A i \in 1 .. n : fs[i] = es[i]
  OBVIOUS
<1>2. /\ past \in [1 .. n + 1 -> Seq(Values)] /\ past[1] = p /\ past[n + 1] = q
      /\ \A i \in 1 .. n + 1 : UniqueKeys(past[i])
      /\ \A i \in 1 .. n : Led(past[i], es[i], past[i + 1])
  BY DEF Path
<1> HIDE DEF n, fs
<1>3. /\ more \in [1 .. Len(fs) + 1 -> Seq(Values)]
      /\ \A i \in 1 .. n + 1 : more[i] = past[i]
      /\ more[n + 2] = s
  BY <1>1, <1>2
<1> HIDE DEF more
<1>4. more[1] = p /\ more[Len(fs) + 1] = s
  BY <1>1, <1>2, <1>3
<1>5. \A i \in 1 .. Len(fs) + 1 : UniqueKeys(more[i])
  <2> SUFFICES ASSUME NEW i \in 1 .. Len(fs) + 1  PROVE UniqueKeys(more[i])
    OBVIOUS
  <2>1. CASE i <= n + 1
    BY <2>1, <1>1, <1>2, <1>3
  <2>2. CASE ~(i <= n + 1)
    <3>1. i = n + 2
      BY <2>2, <1>1
    <3> QED BY <3>1, <1>3
  <2> QED BY <2>1, <2>2
<1>6. \A i \in 1 .. Len(fs) : Led(more[i], fs[i], more[i + 1])
  <2> SUFFICES ASSUME NEW i \in 1 .. Len(fs)  PROVE Led(more[i], fs[i], more[i + 1])
    OBVIOUS
  <2>1. CASE i <= n
    <3>1. i \in 1 .. n /\ i \in 1 .. n + 1 /\ i + 1 \in 1 .. n + 1
      BY <2>1, <1>1
    <3> QED BY <3>1, <1>1, <1>2, <1>3
  <2>2. CASE ~(i <= n)
    <3>1. i = n + 1 /\ i + 1 = n + 2 /\ n + 1 \in 1 .. n + 1
      BY <2>2, <1>1
    <3>2. more[i] = q /\ fs[i] = e /\ more[i + 1] = s
      BY <3>1, <1>1, <1>2, <1>3
    <3> QED BY <3>2
  <2> QED BY <2>1, <2>2
<1>7. Path(more, fs, p, s)
  BY <1>3, <1>4, <1>5, <1>6 DEF Path
<1> QED BY <1>7 DEF fs

LEMMA LastEntry ==
  ASSUME NEW es \in Seq(EntryType), es # <<>>
  PROVE  /\ Len(es) \in Nat \ {0} /\ Last(es) = es[Len(es)] /\ Last(es) \in EntryType
         /\ Front(es) \in Seq(EntryType) /\ Len(Front(es)) = Len(es) - 1
         /\ \A i \in 1 .. Len(es) - 1 : Front(es)[i] = es[i]
<1> DEFINE n == Len(es)
<1>1. n \in Nat /\ n # 0 /\ DOMAIN es = 1 .. n
  OBVIOUS
<1>2. es[n] \in EntryType
  BY <1>1
<1>3. /\ SubSeq(es, 1, n - 1) \in Seq(EntryType) /\ Len(SubSeq(es, 1, n - 1)) = n - 1
      /\ \A i \in 1 .. n - 1 : SubSeq(es, 1, n - 1)[i] = es[i]
  BY <1>1
<1> HIDE DEF n
<1> QED BY <1>1, <1>2, <1>3 DEF Last, Front, n

LEMMA PathShrinks ==
  ASSUME NEW es \in Seq(EntryType), es # <<>>, NEW p, NEW q, NEW past, Path(past, es, p, q)
  PROVE  \E s \in Seq(Values) : \E less :
           Led(s, Last(es), q) /\ UniqueKeys(s) /\ Path(less, Front(es), p, s)
<1> DEFINE n == Len(es)
           fs == Front(es)
           s == past[n]
           less == [i \in 1 .. n |-> past[i]]
<1>1. /\ n \in Nat \ {0} /\ Last(es) = es[n] /\ fs \in Seq(EntryType)
      /\ Len(fs) = n - 1 /\ \A i \in 1 .. n - 1 : fs[i] = es[i]
  BY LastEntry
<1>2. /\ past \in [1 .. n + 1 -> Seq(Values)] /\ past[1] = p /\ past[n + 1] = q
      /\ \A i \in 1 .. n + 1 : UniqueKeys(past[i])
      /\ \A i \in 1 .. n : Led(past[i], es[i], past[i + 1])
  BY DEF Path
<1> HIDE DEF n, fs
<1>3. 1 .. Len(fs) + 1 = 1 .. n /\ Len(fs) + 1 = n
  BY <1>1
<1>4. less \in [1 .. n -> Seq(Values)] /\ \A i \in 1 .. n : less[i] = past[i]
  BY <1>1, <1>2
<1> HIDE DEF less
<1>5. less[1] = p /\ less[n] = s /\ s \in Seq(Values) /\ UniqueKeys(s) /\ Led(s, es[n], q)
  BY <1>1, <1>2, <1>4
<1>6. \A i \in 1 .. n : UniqueKeys(less[i])
  BY <1>1, <1>2, <1>4
<1>7. \A i \in 1 .. Len(fs) : Led(less[i], fs[i], less[i + 1])
  <2> SUFFICES ASSUME NEW i \in 1 .. Len(fs)  PROVE Led(less[i], fs[i], less[i + 1])
    OBVIOUS
  <2>1. i \in 1 .. n /\ i + 1 \in 1 .. n /\ i \in 1 .. n - 1
    BY <1>1
  <2> QED BY <2>1, <1>1, <1>2, <1>4
<1>8. Path(less, fs, p, s)
  BY <1>3, <1>4, <1>5, <1>6, <1>7 DEF Path
<1> QED BY <1>1, <1>5, <1>8 DEF fs

(* Undoing an entry gives the records before it, and lists nothing new.    *)
LEMMA UndoneEntry ==
  ASSUME NEW u \in TableType, Fitting(u), NEW e \in EntryType, NEW p \in Seq(Values),
         Led(p, e, u.recs), UniqueKeys(p)
  PROVE  LET w == UndoEntry(u, e) IN
         /\ w.rc = "ok" /\ w.x \in TableType /\ w.x.recs = p
         /\ Fitting(w.x) /\ Within(w.x, u, NoEntries)
<1> DEFINE w == UndoEntry(u, e)
<1>1. u.recs \in Seq(Values) /\ e.new \in Values
  BY DEF TableType, EntryType
<1>2. CASE e.op = "write"
  <2> DEFINE r == e.rec
             d == WriteRecord(u, "rollback", r, e.old, FALSE)
  <2>1. w = d
    BY <1>2 DEF UndoEntry
  <2>2. e.old \in Values
    BY <1>2 DEF EntryType
  <2>3. r \in DOMAIN p /\ e.old = p[r] /\ (u.recs = p \/ u.recs = [p EXCEPT ![r] = e.new])
    BY <1>2 DEF Led
  <2> HIDE DEF r, w
  <2>4. r \in DOMAIN u.recs /\ [u.recs EXCEPT ![r] = e.old] = p
    <3>1. p \in [DOMAIN p -> Values]
      OBVIOUS
    <3>2. CASE u.recs = p
      BY <2>3, <3>2
    <3>3. CASE u.recs = [p EXCEPT ![r] = e.new]
      <4>1. DOMAIN u.recs = DOMAIN p /\ u.recs = [k \in DOMAIN p |-> IF k = r THEN e.new ELSE p[k]]
        BY <2>3, <3>3
      <4>2. [u.recs EXCEPT ![r] = e.old] = [k \in DOMAIN p |-> IF k = r THEN e.old ELSE p[k]]
        BY <4>1, <2>3
      <4>3. [k \in DOMAIN p |-> IF k = r THEN e.old ELSE p[k]] = p
        BY <2>3, <3>1
      <4> QED BY <2>3, <4>1, <4>2, <4>3
    <3> QED BY <2>3, <3>2, <3>3
  <2>5. WritesTable(u, "rollback", r, e.old, d) /\ d.rc # "error"
    BY <2>2, <2>4, WriteTable
  <2> HIDE DEF d
  <2>6. d.rc # "unique"
    <3> SUFFICES ASSUME d.rc = "unique"  PROVE FALSE
      OBVIOUS
    <3>1. \E g \in Tags : Unique(g) = "r4unique" /\ ~OnePerKey(KeysOf([u.recs EXCEPT ![r] = e.old], g))
      BY <2>5 DEF WritesTable
    <3> QED BY <2>4, <3>1 DEF UniqueKeys
  <2>7. Within(d.x, u, Old(u.recs[r], r, "rollback")) => Within(d.x, u, NoEntries)
    BY DEF Within, Old, NoEntries, Keeps
  <2> QED BY <2>1, <2>4, <2>5, <2>6, <2>7 DEF WritesTable, w
<1>3. CASE e.op = "append"
  <2>1. w = [x |-> IF Len(u.recs) = e.rec THEN UnappendRecord(u, e.new) ELSE u, rc |-> "ok"]
    BY <1>3 DEF UndoEntry, Done
  <2>2. e.rec = Len(p) + 1 /\ (u.recs = p \/ u.recs = Append(p, e.new))
    BY <1>3 DEF Led
  <2> HIDE DEF w
  <2>3. CASE u.recs = p
    <3>1. Len(u.recs) # e.rec
      BY <2>2, <2>3
    <3>2. w.rc = "ok" /\ w.x = u
      BY <2>1, <3>1
    <3> QED BY <2>3, <3>2 DEF Within, w
  <2>4. CASE u.recs = Append(p, e.new)
    <3>1. Len(u.recs) = e.rec
      BY <2>2, <2>4
    <3>2. w.rc = "ok" /\ w.x = UnappendRecord(u, e.new)
      BY <2>1, <3>1
    <3> QED BY <1>1, <2>4, <3>2, UnappendTable DEF w
  <2> QED BY <2>2, <2>3, <2>4
<1> QED BY <1>2, <1>3 DEF EntryType

(* A change adds to the lists only what its own entry tells of.            *)
LEMMA WitnessedAfter ==
  ASSUME NEW es \in Seq(EntryType), NEW u, NEW v, NEW L, Witnessed(u, es), Within(v, u, L),
         NEW e \in EntryType, \A g \in Tags : \A f \in L[g] : Witness(e, g, f)
  PROVE  Witnessed(v, Append(es, e))
<1> SUFFICES ASSUME NEW g \in Tags, NEW f \in Lists(v.tags[g])
             PROVE  \E i \in DOMAIN Append(es, e) : Witness(Append(es, e)[i], g, f)
  BY DEF Witnessed
<1> DEFINE fs == Append(es, e)
<1>1. /\ DOMAIN fs = 1 .. Len(es) + 1 /\ Len(es) \in Nat /\ fs[Len(es) + 1] = e
      /\ DOMAIN es = 1 .. Len(es) /\ \A i \in DOMAIN es : fs[i] = es[i]
  OBVIOUS
<1> HIDE DEF fs
<1>2. f \in Lists(u.tags[g]) \/ f \in L[g]
  BY DEF Within
<1>3. CASE f \in Lists(u.tags[g])
  <2>1. PICK i \in DOMAIN es : Witness(es[i], g, f)
    BY <1>3 DEF Witnessed
  <2>2. i \in DOMAIN fs /\ fs[i] = es[i]
    BY <1>1
  <2> QED BY <2>1, <2>2 DEF fs
<1>4. CASE f \in L[g]
  <2>1. Len(es) + 1 \in DOMAIN fs
    BY <1>1
  <2> QED BY <1>1, <1>4, <2>1 DEF fs
<1> QED BY <1>2, <1>3, <1>4

(* What an entry told of is on no list once it is undone.                  *)
LEMMA WitnessedBefore ==
  ASSUME NEW es \in Seq(EntryType), es # <<>>, NEW u, NEW v, Witnessed(u, es), Fitting(v),
         Within(v, u, NoEntries), NEW q, Led(v.recs, Last(es), q)
  PROVE  Witnessed(v, Front(es))
<1> SUFFICES ASSUME NEW g \in Tags, NEW f \in Lists(v.tags[g])
             PROVE  \E i \in DOMAIN Front(es) : Witness(Front(es)[i], g, f)
  BY DEF Witnessed
<1>1. f \in Lists(u.tags[g])
  BY DEF Within, NoEntries
<1>2. PICK i \in DOMAIN es : Witness(es[i], g, f)
  BY <1>1 DEF Witnessed
<1>3. /\ Len(es) \in Nat \ {0} /\ Last(es) = es[Len(es)] /\ DOMAIN es = 1 .. Len(es)
      /\ DOMAIN Front(es) = 1 .. Len(es) - 1 /\ \A k \in 1 .. Len(es) - 1 : Front(es)[k] = es[k]
  BY LastEntry
<1>4. i # Len(es)
  <2> SUFFICES ASSUME i = Len(es)  PROVE FALSE
    OBVIOUS
  <2>1. Witness(Last(es), g, f)
    BY <1>2, <1>3
  <2>2. f[2] \in DOMAIN v.recs /\ v.recs[f[2]][g] = f[1]
    BY <2>1 DEF Witness, Led
  <2>3. Fits(g, v.tags[g], KeysOf(v.recs, g))
    BY DEF Fitting
  <2>4. f \in Entry
    BY <2>3 DEF Fits, TagType, Lists, Range
  <2>5. f = <<f[1], f[2]>> /\ f[1] # NoKey
    BY <2>4 DEF Entry
  <2>6. f \in KeysOf(v.recs, g)
    BY <2>2, <2>5 DEF KeysOf
  <2>7. Unique(g) = "r4unique"
    BY <2>3, Unlisted
  <2> QED BY <2>3, <2>6, <2>7 DEF Fits
<1>5. i \in 1 .. Len(es) - 1
  BY <1>3, <1>4
<1> QED BY <1>2, <1>3, <1>5

------------------------------------------------------------------------------
(***************************************************************************)
(* The invariant: as long as no write to the file failed and no commit     *)
(* stuck, the tags fit the records, nothing is listed outside a            *)
(* transaction, and inside one the log leads from the saved records to     *)
(* those there are and tells of all that is listed.                        *)
(***************************************************************************)
Tidy ==
  /\ t \in TableType /\ Fitting(t)
  /\ status \in {"inactive", "active", "rollback"}
  /\ status = "inactive" => entries = <<>> /\ \A g \in Tags : t.tags[g].removed = <<>>
  /\ status = "rollback" => rc = "ok"

Buffered ==
  buf # None /\ status # "rollback" => buf.rec \in DOMAIN t.recs /\ buf.new \in Values

Kept ==
  /\ saved \in TableType /\ Fitting(saved)
  /\ \A g \in Tags : saved.tags[g].removed = <<>>

Logged ==
  /\ entries \in Seq(EntryType) /\ Witnessed(t, entries) /\ Kept
  /\ \E past : Path(past, entries, saved.recs, t.recs)

Sound == Tidy /\ Buffered /\ (status # "inactive" => Logged)

IInv == broken \in BOOLEAN /\ (~broken => Sound)

(* A step that is refused leaves the records, and tags that fit them.      *)
Refused ==
  rc' = "unique" =>
    t' \in TableType /\ Fitting(t') /\ t'.recs = t.recs /\ Within(t', t, NoEntries)

(* What a step has to show.                                                *)
StepKeeps == broken' \in BOOLEAN /\ (~broken' => Sound') /\ Refused

LEMMA NothingListed ==
  ASSUME NEW x, x.removed = <<>>  PROVE Lists(x) = {}
<1>1. DOMAIN x.removed = {}
  OBVIOUS
<1> QED BY <1>1 DEF Lists, Range

LEMMA InitIInv == Init => IInv
<1> SUFFICES ASSUME Init  PROVE IInv
  OBVIOUS
<1>1. PICK recs \in Tables0 :
        t = [recs |-> recs,
             tags |-> [g \in Tags |-> [keys |-> KeysOf(recs, g), removed |-> <<>>]]]
  BY DEF Init
<1>2. recs \in Seq(Range(recs)) /\ Range(recs) \subseteq Values
  BY TablesAssumption DEF Values
<1>3. recs \in Seq(Values)
  BY <1>2
<1>4. /\ t.recs = recs
      /\ \A g \in Tags : t.tags[g] = [keys |-> KeysOf(recs, g), removed |-> <<>>]
  BY <1>1
<1>5. ASSUME NEW g \in Tags
      PROVE  /\ [keys |-> KeysOf(recs, g), removed |-> <<>>] \in TagType
             /\ Fits(g, [keys |-> KeysOf(recs, g), removed |-> <<>>], KeysOf(recs, g))
  <2> DEFINE x == [keys |-> KeysOf(recs, g), removed |-> <<>>]
             K == KeysOf(recs, g)
  <2>1. K \in SUBSET Entry
    <3> SUFFICES ASSUME NEW r \in DOMAIN recs, recs[r][g] # NoKey
                 PROVE  <<recs[r][g], r>> \in Entry
      BY DEF KeysOf
    <3>1. recs[r] \in Values /\ r \in Nat
      BY <1>3
    <3> QED BY <3>1, KeyOf DEF Entry
  <2>2. Unique(g) # "none" => OnePerKey(K)
    BY TablesAssumption DEF OnePerKey
  <2> HIDE DEF K
  <2>3. x.keys = K /\ x.removed = <<>>
    BY DEF K
  <2>4. <<>> \in Seq(Entry)
    OBVIOUS
  <2>5. x \in TagType
    BY <2>1, <2>4 DEF TagType, K
  <2> HIDE DEF x
  <2>6. Lists(x) = {}
    BY <2>3, NothingListed
  <2>7. Distinct(x.removed)
    <3>1. DOMAIN x.removed = {}
      BY <2>3
    <3> QED BY <3>1 DEF Distinct
  <2>8. Fits(g, x, K)
    BY <2>2, <2>3, <2>5, <2>6, <2>7 DEF Fits
  <2> QED BY <2>5, <2>8 DEF x, K
<1>6. t \in TableType
  BY <1>1, <1>3, <1>5 DEF TableType
<1>7. Fitting(t)
  BY <1>4, <1>5 DEF Fitting
<1>8. \A g \in Tags : t.tags[g].removed = <<>>
  <2> SUFFICES ASSUME NEW g \in Tags  PROVE t.tags[g].removed = <<>>
    OBVIOUS
  <2>1. t.tags[g] = [keys |-> KeysOf(recs, g), removed |-> <<>>]
    BY <1>4
  <2> QED BY <2>1
<1> QED BY <1>6, <1>7, <1>8 DEF Init, IInv, Sound, Tidy, Buffered

------------------------------------------------------------------------------
(* A change, logged or not.                                                *)
Changes(d, e, L) ==
  /\ d.x \in TableType
  /\ \/ d.rc = "ok" /\ Fitting(d.x) /\ Led(t.recs, e, d.x.recs) /\ Within(d.x, t, L)
     \/ /\ d.rc = "unique" /\ Fitting(d.x) /\ Led(t.recs, e, d.x.recs)
        /\ d.x.recs = t.recs /\ Within(d.x, t, NoEntries)
     \/ d.rc = "error"

LEMMA ChangeKeeps ==
  ASSUME broken = FALSE, Tidy, status # "inactive" => Logged, status # "rollback",
         NEW e \in EntryType, NEW d, NEW L, Changes(d, e, L),
         \A g \in Tags : \A f \in L[g] : Witness(e, g, f),
         St # "active" => \A g \in Tags : L[g] = {},
         Change(d, e), UNCHANGED status
  PROVE  /\ broken' \in BOOLEAN /\ Refused /\ rc' = d.rc
         /\ ~broken' => /\ rc' # "error" /\ Tidy' /\ (status' # "inactive" => Logged')
                        /\ t'.recs = d.x.recs
<1>1. /\ broken' = (d.rc = "error") /\ rc' = d.rc /\ saved' = saved /\ status' = status
      /\ entries' = IF status = "active" THEN Append(entries, e) ELSE entries
  BY DEF Change
<1>2. CASE d.rc = "error"
  BY <1>1, <1>2 DEF Refused
<1>3. CASE d.rc # "error" /\ status = "active"
  <2>1. t' = d.x
    BY <1>3 DEF Change, Mini
  <2>2. d.x \in TableType /\ Fitting(d.x) /\ Led(t.recs, e, d.x.recs) /\ Within(d.x, t, L)
    BY <1>3 DEF Changes, Within, NoEntries
  <2>3. Refused
    BY <1>1, <2>1 DEF Refused, Changes
  <2>4. Witnessed(d.x, Append(entries, e))
    BY <1>3, <2>2, WitnessedAfter DEF Logged
  <2>5. PICK past : Path(past, entries, saved.recs, t.recs)
    BY <1>3 DEF Logged
  <2>6. \E more : Path(more, Append(entries, e), saved.recs, d.x.recs)
    <3>1. d.x.recs \in Seq(Values) /\ UniqueKeys(d.x.recs)
      BY <2>2, FittingUnique DEF TableType
    <3> QED BY <1>3, <2>2, <2>5, <3>1, PathExtends DEF Logged
  <2>7. Append(entries, e) \in Seq(EntryType)
    BY <1>3 DEF Logged
  <2>8. Logged'
    BY <1>1, <1>3, <2>1, <2>4, <2>6, <2>7 DEF Logged, Kept
  <2>9. Tidy'
    BY <1>1, <1>3, <2>1, <2>2 DEF Tidy
  <2> QED BY <1>1, <1>3, <2>1, <2>3, <2>8, <2>9
<1>4. CASE d.rc # "error" /\ status # "active"
  <2>1. status = "inactive" /\ entries' = entries /\ entries = <<>>
    BY <1>1, <1>4 DEF Tidy
  <2>2. \A g \in Tags : t.tags[g].removed = <<>> /\ Lists(t.tags[g]) = {}
    BY <2>1, NothingListed DEF Tidy
  <2>3. t \in TableType /\ Fitting(t) /\ t.recs \in Seq(Values) /\ UniqueKeys(t.recs)
    BY FittingUnique DEF Tidy, TableType
  <2>4. /\ t' \in TableType /\ Fitting(t') /\ t'.recs = d.x.recs
        /\ \A g \in Tags : Lists(t'.tags[g]) = {}
    <3>1. CASE ~Mini
      <4>1. t' = d.x /\ \A g \in Tags : L[g] = {}
        BY <3>1, <2>1 DEF Change, St
      <4>2. Fitting(d.x) /\ Within(d.x, t, NoEntries)
        BY <1>4, <4>1 DEF Changes, Within, NoEntries
      <4> QED BY <2>2, <4>1, <4>2 DEF Changes, Within, NoEntries
    <3>2. CASE Mini /\ d.rc = "ok"
      <4>1. t' = RemoveKeys(d.x)
        BY <3>2 DEF Change
      <4>2. d.x \in TableType /\ Fitting(d.x)
        BY <3>2 DEF Changes
      <4> QED BY <4>1, <4>2, RemoveKeysTable, NothingListed
    <3>3. CASE Mini /\ d.rc # "ok"
      <4>1. t' = UndoEntry(d.x, e).x
        BY <3>3 DEF Change
      <4>2. /\ d.x \in TableType /\ Fitting(d.x) /\ Led(t.recs, e, d.x.recs)
            /\ d.x.recs = t.recs /\ Within(d.x, t, NoEntries)
        BY <1>4, <3>3 DEF Changes
      <4>3. /\ t' \in TableType /\ t'.recs = t.recs /\ Fitting(t')
            /\ Within(t', d.x, NoEntries)
        BY <2>3, <4>1, <4>2, UndoneEntry
      <4> QED BY <2>2, <4>2, <4>3 DEF Within, NoEntries
    <3> QED BY <3>1, <3>2, <3>3
  <2>5. \A g \in Tags : t'.tags[g].removed = <<>>
    <3> SUFFICES ASSUME NEW g \in Tags  PROVE t'.tags[g].removed = <<>>
      OBVIOUS
    <3>1. Fits(g, t'.tags[g], KeysOf(t'.recs, g))
      BY <2>4 DEF Fitting
    <3> QED BY <2>4, <3>1, EmptyList
  <2>6. Tidy'
    BY <1>1, <2>1, <2>4, <2>5 DEF Tidy
  <2>7. Refused
    <3>1. d.rc = "unique" => d.x.recs = t.recs
      BY DEF Changes
    <3> QED BY <1>1, <2>4, <3>1 DEF Refused, Within
  <2> QED BY <1>1, <1>4, <2>1, <2>4, <2>6, <2>7
<1> QED BY <1>2, <1>3, <1>4

------------------------------------------------------------------------------
(* The calls.                                                              *)
LEMMA ReplaceKeeps ==
  ASSUME broken = FALSE, Sound, NEW r, NEW new \in Records, Replace(r, new)  PROVE StepKeeps
<1>1. /\ status # "rollback" /\ r \in DOMAIN t.recs /\ buf' = [rec |-> r, new |-> new] /\ rc' = "ok"
      /\ UNCHANGED <<t, logOn, status, entries, changed, saved, broken>>
  BY DEF Replace
<1>2. buf'.rec = r /\ buf'.new \in Values
  BY <1>1 DEF Values
<1>3. Tidy' /\ Buffered'
  BY <1>1, <1>2 DEF Sound, Tidy, Buffered
<1>4. status' # "inactive" => Logged'
  BY <1>1 DEF Sound, Logged, Kept
<1> QED BY <1>1, <1>3, <1>4 DEF StepKeeps, Sound, Refused

LEMMA FlushKeeps ==
  ASSUME broken = FALSE, Sound, NEW fails \in BOOLEAN, Flush(fails)  PROVE StepKeeps
<1> DEFINE r == buf.rec
           new == buf.new
           d == WriteRecord(t, St, r, new, fails)
           e == [op |-> "write", rec |-> r, old |-> t.recs[r], new |-> new]
           L == Old(t.recs[r], r, St)
<1>1. /\ status # "rollback" /\ buf # None /\ Change(d, e) /\ UNCHANGED status
      /\ buf' = IF rc' = "unique" THEN buf ELSE None
  BY DEF Flush
<1>2. r \in DOMAIN t.recs /\ new \in Values
  BY <1>1 DEF Sound, Buffered
<1>3. t \in TableType /\ Fitting(t) /\ t.recs \in Seq(Values)
  BY DEF Sound, Tidy, TableType
<1>4. WritesTable(t, St, r, new, d)
  BY <1>2, <1>3, WriteTable
<1>5. /\ e \in EntryType
      /\ e.op = "write" /\ e.rec = r /\ e.old = t.recs[r] /\ e.new = new
  BY <1>2, <1>3 DEF EntryType
<1>6. /\ \A g \in Tags : \A f \in L[g] : Witness(e, g, f)
      /\ St # "active" => \A g \in Tags : L[g] = {}
  <2> HIDE DEF e, r
  <2> QED BY <1>5 DEF Old, Keeps, Witness
<1> HIDE DEF e, d, L, r, new
<1>7. Changes(d, e, L)
  BY <1>2, <1>4, <1>5 DEF Changes, WritesTable, Led, L
<1>8. /\ broken' \in BOOLEAN /\ Refused /\ rc' = d.rc
      /\ ~broken' => /\ rc' # "error" /\ Tidy' /\ (status' # "inactive" => Logged')
                     /\ t'.recs = d.x.recs
  BY <1>1, <1>5, <1>6, <1>7, ChangeKeeps DEF Sound
<1>9. ~broken' => Buffered'
  <2>1. CASE rc' = "unique"
    <3>1. t'.recs = t.recs /\ buf' = buf
      BY <1>1, <1>8, <2>1 DEF Refused
    <3> QED BY <1>1, <3>1 DEF Sound, Buffered
  <2>2. CASE rc' # "unique"
    BY <1>1, <2>2 DEF Buffered
  <2> QED BY <2>1, <2>2
<1> QED BY <1>8, <1>9 DEF StepKeeps, Sound

LEMMA AppendKeeps ==
  ASSUME broken = FALSE, Sound, NEW new \in Records, NEW fails \in BOOLEAN, AppendNew(new, fails)
  PROVE  StepKeeps
<1> DEFINE d == AppendRecord(t, St, new, fails)
           e == [op |-> "append", rec |-> Len(t.recs) + 1, old |-> None, new |-> new]
<1>1. status # "rollback" /\ buf = None /\ Change(d, e) /\ UNCHANGED <<buf, status>>
  BY DEF AppendNew
<1>2. t \in TableType /\ Fitting(t) /\ t.recs \in Seq(Values) /\ new \in Values
  BY DEF Sound, Tidy, TableType, Values
<1>3. AppendsTable(t, new, d)
  BY <1>2, AppendTable
<1>4. /\ e \in EntryType
      /\ e.op = "append" /\ e.rec = Len(t.recs) + 1 /\ e.new = new
  BY <1>2 DEF EntryType
<1> HIDE DEF e, d
<1>5. Changes(d, e, NoEntries)
  BY <1>3, <1>4 DEF Changes, AppendsTable, Led
<1>6. \A g \in Tags : NoEntries[g] = {}
  BY DEF NoEntries
<1>7. /\ broken' \in BOOLEAN /\ Refused
      /\ ~broken' => Tidy' /\ (status' # "inactive" => Logged')
  BY <1>1, <1>4, <1>5, <1>6, ChangeKeeps DEF Sound
<1>8. Buffered'
  BY <1>1 DEF Buffered
<1> QED BY <1>7, <1>8 DEF StepKeeps, Sound

LEMMA StartKeeps ==
  ASSUME broken = FALSE, Sound, Start  PROVE StepKeeps
<1>1. /\ status = "inactive" /\ status' = "active" /\ entries' = <<>> /\ saved' = t /\ rc' = "ok"
      /\ UNCHANGED <<t, logOn, buf, broken>>
  BY DEF Start, Sound, Tidy
<1>2. t \in TableType /\ Fitting(t) /\ \A g \in Tags : t.tags[g].removed = <<>>
  BY <1>1 DEF Sound, Tidy
<1>3. t.recs \in Seq(Values) /\ UniqueKeys(t.recs) /\ \A g \in Tags : Lists(t.tags[g]) = {}
  BY <1>2, FittingUnique, NothingListed DEF TableType
<1>4. \E past : Path(past, <<>>, t.recs, t.recs)
  BY <1>3, PathStarts
<1>5. <<>> \in Seq(EntryType) /\ Witnessed(t, <<>>)
  BY <1>3 DEF Witnessed
<1>6. Logged'
  BY <1>1, <1>2, <1>4, <1>5 DEF Logged, Kept
<1>7. Tidy' /\ Buffered'
  BY <1>1, <1>2 DEF Sound, Tidy, Buffered
<1> QED BY <1>1, <1>6, <1>7 DEF StepKeeps, Sound, Refused

LEMMA CommitKeeps ==
  ASSUME broken = FALSE, Sound, NEW fails \in BOOLEAN, Commit(fails)  PROVE StepKeeps
<1> DEFINE w == IF buf = None \/ ~changed THEN Done(t, "ok")
                ELSE WriteRecord(t, "partial", buf.rec, buf.new, fails)
<1>1. /\ status = "active" /\ rc' = w.rc /\ broken' = (w.rc # "ok")
      /\ buf' = IF ~changed \/ w.rc = "unique" THEN buf ELSE None
      /\ w.rc = "ok" =>
           status' = "inactive" /\ entries' = <<>> /\ t' = RemoveKeys(w.x)
      /\ w.rc # "ok" => t' = w.x
  BY DEF Commit, End
<1>2. t \in TableType /\ Fitting(t)
  BY DEF Sound, Tidy
<1>3. CASE buf = None \/ ~changed
  <2>1. w.x = t /\ w.rc = "ok"
    BY <1>3 DEF Done
  <2> HIDE DEF w
  <2>2. /\ t' \in TableType /\ t'.recs = t.recs /\ Fitting(t')
        /\ \A g \in Tags : t'.tags[g].removed = <<>>
    BY <1>1, <1>2, <2>1, RemoveKeysTable
  <2>3. Tidy'
    BY <1>1, <2>1, <2>2 DEF Tidy
  <2>4. Buffered'
    BY <1>1, <1>3, <2>1, <2>2 DEF Sound, Buffered
  <2> QED BY <1>1, <2>1, <2>3, <2>4 DEF StepKeeps, Sound, Refused
<1>4. CASE ~(buf = None \/ ~changed)
  <2>1. buf.rec \in DOMAIN t.recs /\ buf.new \in Values
    BY <1>1, <1>4 DEF Sound, Buffered
  <2>2. WritesTable(t, "partial", buf.rec, buf.new, w)
    BY <1>2, <1>4, <2>1, WriteTable
  <2> HIDE DEF w
  <2>3. CASE w.rc = "ok"
    <3>1. w.x \in TableType /\ Fitting(w.x)
      BY <2>2, <2>3 DEF WritesTable
    <3>2. /\ t' \in TableType /\ Fitting(t')
          /\ \A g \in Tags : t'.tags[g].removed = <<>>
      BY <1>1, <2>3, <3>1, RemoveKeysTable
    <3>3. Tidy' /\ Buffered'
      BY <1>1, <1>4, <2>3, <3>2 DEF Tidy, Buffered
    <3> QED BY <1>1, <2>3, <3>3 DEF StepKeeps, Sound, Refused
  <2>4. CASE w.rc # "ok"
    <3>1. Refused
      BY <1>1, <2>2, <2>4 DEF Refused, WritesTable
    <3> QED BY <1>1, <2>4, <3>1 DEF StepKeeps
  <2> QED BY <2>3, <2>4
<1> QED BY <1>3, <1>4

LEMMA RollbackKeeps ==
  ASSUME broken = FALSE, Sound, Rollback  PROVE StepKeeps
<1>1. /\ status = "active" /\ status' = "rollback" /\ rc' = "ok"
      /\ UNCHANGED <<t, logOn, entries, buf, changed, saved, broken>>
  BY DEF Rollback
<1>2. Tidy' /\ Buffered'
  BY <1>1 DEF Sound, Tidy, Buffered
<1>3. Logged'
  BY <1>1 DEF Sound, Logged, Kept
<1> QED BY <1>1, <1>2, <1>3 DEF StepKeeps, Sound, Refused

LEMMA RollbackEntryKeeps ==
  ASSUME broken = FALSE, Sound, RollbackEntry  PROVE StepKeeps
<1> DEFINE e == Last(entries)
           w == UndoEntry(t, e)
<1>1. /\ status = "rollback" /\ entries # <<>> /\ t' = w.x
      /\ entries' = IF w.rc = "ok" THEN Front(entries) ELSE <<>>
      /\ UNCHANGED <<logOn, status, buf, changed, saved, broken, rc>>
  BY DEF RollbackEntry
<1>2. /\ t \in TableType /\ Fitting(t) /\ rc = "ok" /\ Logged
  BY <1>1 DEF Sound, Tidy
<1>3. /\ entries \in Seq(EntryType) /\ Witnessed(t, entries) /\ Kept
      /\ \E past : Path(past, entries, saved.recs, t.recs)
  BY <1>2 DEF Logged
<1>4. e \in EntryType /\ Front(entries) \in Seq(EntryType)
  BY <1>1, <1>3, LastEntry
<1>5. PICK s \in Seq(Values) : \E less :
        Led(s, e, t.recs) /\ UniqueKeys(s) /\ Path(less, Front(entries), saved.recs, s)
  BY <1>1, <1>3, PathShrinks
<1> HIDE DEF w
<1>6. w.rc = "ok" /\ w.x \in TableType /\ w.x.recs = s /\ Fitting(w.x) /\ Within(w.x, t, NoEntries)
  BY <1>2, <1>4, <1>5, UndoneEntry DEF w
<1>7. Witnessed(w.x, Front(entries))
  BY <1>1, <1>3, <1>5, <1>6, WitnessedBefore
<1>8. Logged'
  BY <1>1, <1>3, <1>4, <1>5, <1>6, <1>7 DEF Logged, Kept
<1>9. Tidy' /\ Buffered'
  BY <1>1, <1>2, <1>6 DEF Tidy, Buffered
<1> QED BY <1>1, <1>2, <1>8, <1>9 DEF StepKeeps, Sound, Refused

LEMMA RollbackEndKeeps ==
  ASSUME broken = FALSE, Sound, RollbackEnd
  PROVE  /\ StepKeeps
         /\ t.recs = saved.recs /\ Kept /\ \A g \in Tags : Lists(t.tags[g]) = {}
<1>1. /\ status = "rollback" /\ entries = <<>> /\ status' = "inactive" /\ entries' = <<>>
      /\ buf' = None /\ UNCHANGED <<t, logOn, broken, rc>>
  BY DEF RollbackEnd, End
<1>2. t \in TableType /\ Fitting(t) /\ rc = "ok" /\ Logged
  BY <1>1 DEF Sound, Tidy
<1>3. t.recs = saved.recs
  <2>1. PICK past : Path(past, <<>>, saved.recs, t.recs)
    BY <1>1, <1>2 DEF Logged
  <2>2. Len(<<>>) + 1 = 1
    OBVIOUS
  <2> QED BY <2>1, <2>2 DEF Path
<1>4. \A g \in Tags : Lists(t.tags[g]) = {}
  <2>1. DOMAIN entries = {}
    BY <1>1
  <2> QED BY <1>2, <2>1 DEF Logged, Witnessed
<1>5. \A g \in Tags : t.tags[g].removed = <<>>
  <2> SUFFICES ASSUME NEW g \in Tags  PROVE t.tags[g].removed = <<>>
    OBVIOUS
  <2>1. Fits(g, t.tags[g], KeysOf(t.recs, g))
    BY <1>2 DEF Fitting
  <2> QED BY <1>4, <2>1, EmptyList
<1>6. Tidy' /\ Buffered'
  BY <1>1, <1>2, <1>5 DEF Tidy, Buffered
<1> QED BY <1>1, <1>2, <1>3, <1>4, <1>6 DEF StepKeeps, Sound, Refused, Logged

(* Once something failed nothing more is said.                             *)
LEMMA BrokenStays ==
  ASSUME broken, Next  PROVE broken'
BY DEF Next, Replace, Flush, AppendNew, Change, Commit, Start, Rollback, RollbackEntry, RollbackEnd

LEMMA BrokenTyped ==
  ASSUME broken \in BOOLEAN, Next  PROVE broken' \in BOOLEAN
BY DEF Next, Replace, Flush, AppendNew, Change, Commit, Start, Rollback, RollbackEntry, RollbackEnd

LEMMA NextKeeps ==
  ASSUME broken = FALSE, Sound, Next  PROVE StepKeeps
<1>1. CASE \E r \in 1 .. MaxRecs, new \in Records : Replace(r, new)
  BY <1>1, ReplaceKeeps
<1>2. CASE \E fails \in BOOLEAN : Flush(fails)
  BY <1>2, FlushKeeps
<1>3. CASE \E fails \in BOOLEAN, new \in Records : AppendNew(new, fails)
  BY <1>3, AppendKeeps
<1>4. CASE \E fails \in BOOLEAN : Commit(fails)
  BY <1>4, CommitKeeps
<1>5. CASE Start
  BY <1>5, StartKeeps
<1>6. CASE Rollback
  BY <1>6, RollbackKeeps
<1>7. CASE RollbackEntry
  BY <1>7, RollbackEntryKeeps
<1>8. CASE RollbackEnd
  BY <1>8, RollbackEndKeeps
<1> QED BY <1>1, <1>2, <1>3, <1>4, <1>5, <1>6, <1>7, <1>8 DEF Next

------------------------------------------------------------------------------
(* No tag is of the kind that takes a record and skips its key: what such  *)
(* a tag has depends on the order in which its records came.               *)
NoContinue == \A g \in Tags : Unique(g) # "r4uniqueContinue"

(* The tags are true of the records as long as the invariant holds.        *)
LEMMA SoundIsTrue == ASSUME IInv  PROVE TagsAreTrue
<1>1. ASSUME ~broken, NEW g \in Tags  PROVE Fits(g, t.tags[g], KeysOf(t.recs, g))
  BY <1>1 DEF IInv, Sound, Tidy, Fitting
<1>2. KeysMatchRecords
  BY <1>1 DEF KeysMatchRecords, Fits, Lists, Listed
<1>3. OneEntryPerKey
  BY <1>1 DEF OneEntryPerKey, Fits, OnePerKey
<1> QED BY <1>2, <1>3 DEF TagsAreTrue

LEMMA NextIInv == ASSUME IInv, [Next]_vars  PROVE IInv'
<1>1. CASE Next /\ ~broken
  BY <1>1, NextKeeps DEF IInv, StepKeeps
<1>2. CASE Next /\ broken
  BY <1>2, BrokenStays, BrokenTyped DEF IInv
<1>3. CASE UNCHANGED vars
  <2> USE <1>3 DEF vars
  <2>1. Tidy' = Tidy /\ Buffered' = Buffered /\ Logged' = Logged
    BY DEF Tidy, Buffered, Logged, Kept
  <2> QED BY <2>1 DEF IInv, Sound
<1> QED BY <1>1, <1>2, <1>3 DEF IInv

(* A rollback's last step finds the table that was saved.                  *)
LEMMA RestoresAtTheEnd ==
  ASSUME NoContinue, IInv, ~broken, RollbackEnd  PROVE t = saved
<1>1. /\ t \in TableType /\ Fitting(t) /\ t.recs = saved.recs /\ Kept
      /\ \A g \in Tags : Lists(t.tags[g]) = {}
  BY RollbackEndKeeps DEF IInv, Sound, Tidy
<1>2. saved \in TableType /\ Fitting(saved) /\ \A g \in Tags : Lists(saved.tags[g]) = {}
  BY <1>1, NothingListed DEF Kept
<1>3. Within(t, saved, NoEntries)
  BY <1>1 DEF Within
<1> QED BY <1>1, <1>2, <1>3, SameTable DEF NoContinue

(* A step that is refused changes nothing but what is listed.              *)
LEMMA RefusedStep ==
  ASSUME NoContinue, IInv, ~broken, Next, rc' = "unique"
  PROVE  /\ t'.recs = t.recs
         /\ (\A g \in Tags : Listed(g) = {}) => t' = t
         /\ \A g \in Tags : t'.tags[g].keys \subseteq t.tags[g].keys
<1>1. /\ t \in TableType /\ Fitting(t)
      /\ t' \in TableType /\ Fitting(t') /\ t'.recs = t.recs /\ Within(t', t, NoEntries)
  BY NextKeeps DEF IInv, Sound, Tidy, StepKeeps, Refused
<1>2. /\ \A g \in Tags : t'.tags[g].keys \subseteq t.tags[g].keys
      /\ (\A g \in Tags : Lists(t.tags[g]) = {}) => t' = t
  BY <1>1, SameTable DEF NoContinue
<1> QED BY <1>1, <1>2 DEF Listed, Lists

------------------------------------------------------------------------------
(* Through all calls: the invariant holds in every reachable state.        *)
THEOREM TransactionsInvariant == Spec => []IInv
BY InitIInv, NextIInv, PTL DEF Spec

(* As long as no write to the file failed and no commit stuck, every tag   *)
(* has its records' entries, those that a commit will remove, and no       *)
(* other; and a unique tag has one entry of a key.  Through refusals in    *)
(* any of the tags (d4writeKeys, d4writeKeysRemoveKeys), rollbacks         *)
(* (tran4lowUnwrite, tran4lowUnappend) and changes outside a transaction.  *)
THEOREM TagsStayTrue == Spec => []TagsAreTrue
<1>1. IInv => TagsAreTrue
  BY SoundIsTrue
<1> QED BY <1>1, TransactionsInvariant, PTL

(* A rollback gives back the records and the tags there were at the start, *)
(* and leaves nothing to be removed, whatever the log has, refused changes *)
(* among it (tran4lowRollback).                                            *)
THEOREM RollbacksRestore == ASSUME NoContinue PROVE Spec => RollbackRestores
<1>1. ASSUME IInv, [Next]_vars  PROVE [~broken /\ RollbackEnd => t = saved]_vars
  BY <1>1, RestoresAtTheEnd
<1>2. IInv /\ [Next]_vars => [~broken /\ RollbackEnd => t = saved]_vars
  BY <1>1
<1> QED BY <1>2, TransactionsInvariant, PTL DEF Spec, RollbackRestores

(* A change that is refused leaves the records, takes no new entry, and    *)
(* where nothing is listed outside a transaction leaves the table as it    *)
(* was (d4writeKeysRemoveKeys, d4appendUpdateIndexes).                     *)
THEOREM RefusalsChangeNothing == ASSUME NoContinue PROVE Spec => RefusedChangesNothing
<1> DEFINE P == ~broken /\ rc' = "unique" =>
                  /\ t'.recs = t.recs
                  /\ (status # "active" /\ \A g \in Tags : Listed(g) = {}) => t' = t
                  /\ \A g \in Tags : t'.tags[g].keys \subseteq t.tags[g].keys
<1>1. IInv /\ [Next]_vars => [P]_vars
  <2> SUFFICES ASSUME IInv, Next, ~broken, rc' = "unique"  PROVE P
    OBVIOUS
  <2> QED BY RefusedStep
<1> QED BY <1>1, TransactionsInvariant, PTL DEF Spec, RefusedChangesNothing
=============================================================================
