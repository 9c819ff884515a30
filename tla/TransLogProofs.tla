---------------------------- MODULE TransLogProofs ----------------------------
(***************************************************************************)
(* The log that any number of processes share is true of the tables        *)
(* (LogStaysTrue), and is marked as shut down by the last one in it        *)
(* (LastShutsDown), wherever processes crash.                              *)
(***************************************************************************)
EXTENDS TransLog, TLAPS

Types == {"OPEN", "INIT", "INIT_UNDO", "SHUTDOWN", "START", "WRITE",
          "COMMIT_PHASE_ONE", "COMMIT_PHASE_TWO", "ROLLBACK"}
Ended  == {"COMMIT_PHASE_TWO", "ROLLBACK"}
Inside == {"START", "WRITE", "COMMIT_PHASE_ONE"}
Entries == [type : Types, user : Users, id : Nat]

Opening == {"closed", "probe", "probed", "verify", "create", "add"}
Within  == {"init", "open", "stuck", "write", "commit", "undo", "leave"}
Leaving == {"last", "shutdown"}
Records == [at : Opening \cup Within \cup Leaving, i : Nat, user : Users,
            fileId : Nat, id : Nat, status : {"inactive", "active", "partial"}]

TypeOK ==
  /\ log \in Seq(Entries) /\ exists \in BOOLEAN
  /\ owner \in [Bytes -> Procs \cup {None}]
  /\ proc \in [Procs -> Records]
  /\ data \in SUBSET (1 .. Len(log))

(* Where a process is, and what it has of a transaction.                   *)
Staged(r) ==
  /\ r.at \in Opening => r.user = 0
  /\ r.at \in Opening \cup {"init"} => r.fileId = 0 /\ r.status = "inactive"
  /\ r.at \in {"leave"} \cup Leaving => r.status = "inactive"
  /\ r.at = "write" => r.status = "active"
  /\ r.at \in {"stuck", "commit"} => r.status = "partial"
  /\ r.at = "open" => r.status # "partial"
  /\ r.at = "undo" => r.status # "active"
  /\ r.at \in {"probe", "probed"} => r.i \in Users
  /\ r.at = "add" => r.i \in 1 .. MaxUsers + 1
  /\ r.status = "inactive" <=> r.id = 0
  /\ r.id # 0 => r.id = r.fileId
  /\ r.fileId # 0 => r.fileId % MaxUsers = r.user % MaxUsers

(* The bytes a process must have where it is.                              *)
Owning(p) ==
  LET r == proc[p] IN
  /\ r.at \in Within /\ r.user # 0 => owner[r.user] = p
  /\ r.at = "probed" => owner[r.i] = p
  /\ r.at \in {"probe", "probed", "verify"} => owner[Reserve] = p
  /\ r.at = "shutdown" => \A b \in AllUsers : owner[b] = p
  /\ r.status # "inactive" => owner[Multiple] = p

(* The last START before entry k is entry s. *)
LastStart(s, k) == s \in Starts /\ s < k /\ \A t \in Starts : t < k => t <= s

(* Entry k is the last with an id of remainder u. *)
LastOf(u, k) ==
  /\ k \in 1 .. Len(log) /\ log[k].id % MaxUsers = u
  /\ \A j \in 1 .. Len(log) : log[j].id % MaxUsers = u => j <= k

(* Nothing in the log of the process's user number is newer than its id.   *)
Newest(p) ==
  LET r == proc[p] IN
  r.at \in Within /\ r.fileId # 0 /\ r.user % MaxUsers # 0 =>
    \A k \in 1 .. Len(log) :
      log[k].id % MaxUsers = r.user % MaxUsers => log[k].id <= r.fileId

(* A transaction that is open or stuck is the end of the log, its changes  *)
(* are in the tables but for the one on its way, and its id did not end.   *)
Alone(p) ==
  LET r == proc[p] IN
  r.status # "inactive" =>
    /\ \E s \in Starts :
         /\ LastStart(s, Len(log) + 1)
         /\ \A k \in s .. Len(log) :
              /\ log[k].id = r.id /\ log[k].user = r.user /\ log[k].type \in Inside
              /\ log[k].type = "WRITE" => k \in data \/ (r.at = "write" /\ k = Len(log))
    /\ r.at = "write" => log[Len(log)].type = "WRITE"
    /\ r.id % MaxUsers # 0 =>
         \A k \in Starts : log[k].id = r.id =>
           \A j \in k .. Len(log) :
             /\ log[j].id = r.id => log[j].type \notin Ended
             /\ log[j].type = "INIT" => log[j].user # r.user

(* The ids of a user number grow along the log, and what ended started.    *)
Ordered ==
  /\ \A k \in Starts : log[k].id # 0 /\ log[k].id % MaxUsers = log[k].user % MaxUsers
  /\ \A j, k \in 1 .. Len(log) :
       j < k /\ log[j].id % MaxUsers = log[k].id % MaxUsers /\ log[k].id % MaxUsers # 0
         => log[j].id <= log[k].id
  /\ \A k \in 1 .. Len(log) : log[k].type \in Ended => \E s \in Starts : s < k

(* What there is of has a last one. *)
Lasts ==
  /\ \A k \in 1 .. Len(log) + 1 : (\E s \in Starts : s < k) => \E s \in Starts : LastStart(s, k)
  /\ \A u \in Users : (\E k \in 1 .. Len(log) : log[k].id % MaxUsers = u)
       => \E k \in 1 .. Len(log) : LastOf(u, k)

IInv ==
  /\ TypeOK /\ Ordered /\ Lasts /\ TransIdsUnique /\ LogTellsTheTables
  /\ \A p \in Procs : Staged(proc[p]) /\ Owning(p) /\ Newest(p) /\ Alone(p)

------------------------------------------------------------------------------
(* Remainders.                                                             *)
LEMMA OneQuotient ==
  ASSUME NEW m \in Nat \ {0}, NEW q \in Int, NEW r \in Int, NEW s \in Int,
         0 <= r, r < m, 0 <= s, s < m, m * q = r - s
  PROVE  r = s
<1>1. CASE q >= 1
  <2>1. m * q >= m
    BY <1>1
  <2> QED BY <2>1
<1>2. CASE q <= -1
  <2>1. m * q <= -m
    BY <1>2
  <2> QED BY <2>1
<1>3. CASE q = 0
  BY <1>3
<1> QED BY <1>1, <1>2, <1>3

LEMMA ModStep ==
  ASSUME NEW m \in Nat \ {0}, NEW a \in Nat
  PROVE  (a + m) % m = a % m
<1> DEFINE q == (a + m) \div m
           p == a \div m
           r == (a + m) % m
           s == a % m
<1>1. r \in 0 .. m - 1 /\ s \in 0 .. m - 1 /\ q \in Int /\ p \in Int
  OBVIOUS
<1>2. a = m * p + s /\ a + m = m * q + r
  OBVIOUS
<1> HIDE DEF p, q, r, s
<1>3. m * (p + 1 - q) = r - s
  <2>1. m * (p + 1 - q) = m * p + m - m * q
    BY <1>1
  <2> QED BY <1>1, <1>2, <2>1
<1>4. r = s
  BY <1>1, <1>3, OneQuotient
<1> QED BY <1>4 DEF r, s

LEMMA ModSmall ==
  /\ \A u \in Users : u < MaxUsers => u % MaxUsers = u
  /\ MaxUsers % MaxUsers = 0
<1>1. ASSUME NEW u \in Users, u < MaxUsers PROVE u % MaxUsers = u
  BY <1>1, LogAssumption DEF Users
<1>2. 0 % MaxUsers = 0 /\ (0 + MaxUsers) % MaxUsers = 0 % MaxUsers
  BY LogAssumption, ModStep
<1> QED BY <1>1, <1>2, LogAssumption

(* A user number but the last is told from the others by its remainder.    *)
LEMMA SameUser ==
  ASSUME NEW u \in Users, NEW v \in Users, u % MaxUsers = v % MaxUsers, u % MaxUsers # 0
  PROVE  u = v
<1>1. u # MaxUsers /\ v # MaxUsers
  BY ModSmall
<1> QED BY <1>1, ModSmall, LogAssumption DEF Users

------------------------------------------------------------------------------
(* The log.                                                                *)
LEMMA StartIs ==
  ASSUME NEW k \in Nat, NEW s, log \in Seq(Entries), LastStart(s, k)
  PROVE  StartOf(k) = s
<1>1. Starts \subseteq Nat
  BY DEF Starts
<1>2. s \in Starts /\ s < k /\ ~\E t \in Starts : s < t /\ t < k
  BY <1>1 DEF LastStart
<1>3. \A t \in Starts : t < k /\ ~(\E x \in Starts : t < x /\ x < k) => t = s
  BY <1>1, <1>2 DEF LastStart
<1> QED BY <1>2, <1>3 DEF StartOf

(* What may be added to the log. *)
Fits(e) ==
  /\ e.type = "START" =>
       /\ e.id # 0 /\ e.id % MaxUsers = e.user % MaxUsers
       /\ e.id % MaxUsers # 0 =>
            \A k \in Starts : log[k].id = e.id =>
              \A j \in k .. Len(log) :
                /\ log[j].id = e.id => log[j].type \notin Ended
                /\ log[j].type = "INIT" => log[j].user # log[k].user
  /\ e.id % MaxUsers # 0 =>
       \A k \in 1 .. Len(log) : log[k].id % MaxUsers = e.id % MaxUsers => log[k].id <= e.id
  /\ e.type \in Ended => Starts # {}

LEMMA Longer ==
  ASSUME log \in Seq(Entries), NEW e \in Entries, log' = Append(log, e)
  PROVE  /\ log' \in Seq(Entries) /\ Len(log) \in Nat /\ Len(log') = Len(log) + 1
         /\ \A k \in 1 .. Len(log) : log'[k] = log[k]
         /\ log'[Len(log) + 1] = e
         /\ 1 .. Len(log') = (1 .. Len(log)) \cup {Len(log) + 1}
OBVIOUS

LEMMA StartsGrown ==
  ASSUME log \in Seq(Entries), NEW e \in Entries, log' = Append(log, e)
  PROVE  Starts' = IF e.type = "START" THEN Starts \cup {Len(log) + 1} ELSE Starts
BY Longer DEF Starts

LEMMA OrderedGrown ==
  ASSUME IInv, NEW e \in Entries, log' = Append(log, e), Fits(e)
  PROVE  Ordered'
<1>1. /\ Len(log) \in Nat /\ Len(log') = Len(log) + 1
      /\ \A k \in 1 .. Len(log) : log'[k] = log[k]
      /\ log'[Len(log) + 1] = e
      /\ 1 .. Len(log') = (1 .. Len(log)) \cup {Len(log) + 1}
      /\ Starts' = IF e.type = "START" THEN Starts \cup {Len(log) + 1} ELSE Starts
      /\ Starts \subseteq 1 .. Len(log)
  BY Longer, StartsGrown DEF IInv, TypeOK, Starts
<1>2. \A k \in Starts' : log'[k].id # 0 /\ log'[k].id % MaxUsers = log'[k].user % MaxUsers
  <2>1. \A k \in Starts : log'[k].id # 0 /\ log'[k].id % MaxUsers = log'[k].user % MaxUsers
    BY <1>1 DEF IInv, Ordered
  <2> QED BY <1>1, <2>1 DEF Fits
<1>3. ASSUME NEW j \in 1 .. Len(log'), NEW k \in 1 .. Len(log'), j < k,
             log'[j].id % MaxUsers = log'[k].id % MaxUsers, log'[k].id % MaxUsers # 0
      PROVE  log'[j].id <= log'[k].id
  <2>1. CASE k = Len(log) + 1
    <3>1. j \in 1 .. Len(log)
      BY <1>1, <1>3, <2>1
    <3> QED BY <1>1, <1>3, <2>1, <3>1 DEF Fits
  <2>2. CASE k \in 1 .. Len(log)
    <3>1. j \in 1 .. Len(log)
      BY <1>1, <1>3, <2>2
    <3> QED BY <1>1, <1>3, <2>2, <3>1 DEF IInv, Ordered
  <2> QED BY <1>1, <2>1, <2>2
<1>4. ASSUME NEW k \in 1 .. Len(log'), log'[k].type \in Ended
      PROVE  \E s \in Starts' : s < k
  <2>1. CASE k = Len(log) + 1
    <3>1. PICK s \in Starts : TRUE
      BY <1>1, <1>4, <2>1 DEF Fits
    <3> QED BY <1>1, <2>1, <3>1
  <2>2. CASE k \in 1 .. Len(log)
    <3>1. PICK s \in Starts : s < k
      BY <1>1, <1>4, <2>2 DEF IInv, Ordered
    <3> QED BY <1>1, <3>1
  <2> QED BY <1>1, <2>1, <2>2
<1> QED BY <1>2, <1>3, <1>4 DEF Ordered

LEMMA LastsGrown ==
  ASSUME IInv, NEW e \in Entries, log' = Append(log, e)
  PROVE  Lasts'
<1> PICK n \in Nat : n = Len(log) + 1
  BY DEF IInv, TypeOK
<1>1. /\ Len(log) \in Nat /\ Len(log') = n
      /\ \A k \in 1 .. Len(log) : log'[k] = log[k]
      /\ log'[n] = e
      /\ 1 .. Len(log') = (1 .. Len(log)) \cup {n}
      /\ Starts' = IF e.type = "START" THEN Starts \cup {n} ELSE Starts
      /\ Starts \subseteq 1 .. Len(log)
  BY Longer, StartsGrown DEF IInv, TypeOK, Starts
<1>2. \A k \in 1 .. n : (\E s \in Starts : s < k) => \E s \in Starts : LastStart(s, k)
  BY DEF IInv, Lasts
<1>3. ASSUME NEW k \in 1 .. Len(log') + 1, \E s \in Starts' : s < k
      PROVE  \E s \in Starts' : LastStart(s, k)'
  <2>1. CASE k \in 1 .. n
    <3>1. \E s \in Starts : s < k
      BY <1>1, <1>3, <2>1
    <3>2. PICK s \in Starts : LastStart(s, k)
      BY <1>2, <2>1, <3>1
    <3>3. \A t \in Starts' : t < k => t \in Starts
      BY <1>1, <2>1
    <3> QED BY <1>1, <3>2, <3>3 DEF LastStart
  <2>2. CASE k = n + 1
    <3>1. CASE e.type = "START"
      <4>1. n \in Starts' /\ n < k /\ \A t \in Starts' : t <= n
        BY <1>1, <2>2, <3>1
      <4> QED BY <4>1 DEF LastStart
    <3>2. CASE e.type # "START"
      <4>1. \E s \in Starts : s < n
        BY <1>1, <1>3, <3>2
      <4>2. PICK s \in Starts : LastStart(s, n)
        BY <1>1, <1>2, <4>1
      <4>3. Starts' = Starts /\ \A t \in Starts : t < n
        BY <1>1, <3>2
      <4>4. s \in Nat /\ s < k
        BY <1>1, <2>2, <4>2, <4>3
      <4>5. LastStart(s, k)'
        BY <4>2, <4>3, <4>4 DEF LastStart
      <4> QED BY <4>3, <4>5
    <3> QED BY <3>1, <3>2
  <2>3. k \in 1 .. n + 1
    BY <1>1
  <2>4. k \in 1 .. n \/ k = n + 1
    BY <2>3
  <2> QED BY <2>1, <2>2, <2>4
<1>4. ASSUME NEW u \in Users, \E k \in 1 .. Len(log') : log'[k].id % MaxUsers = u
      PROVE  \E k \in 1 .. Len(log') : LastOf(u, k)'
  <2>1. CASE e.id % MaxUsers = u
    <3>1. LastOf(u, n)'
      BY <1>1, <2>1 DEF LastOf
    <3> QED BY <1>1, <3>1
  <2>2. CASE e.id % MaxUsers # u
    <3>1. \E k \in 1 .. Len(log) : log[k].id % MaxUsers = u
      BY <1>1, <1>4, <2>2
    <3>2. PICK k \in 1 .. Len(log) : LastOf(u, k)
      BY <3>1 DEF IInv, Lasts
    <3>3. LastOf(u, k)'
      BY <1>1, <2>2, <3>2 DEF LastOf
    <3> QED BY <1>1, <3>3
  <2> QED BY <2>1, <2>2
<1> QED BY <1>3, <1>4 DEF Lasts

(* Entry f does not end the transaction entry e started, nor the session.  *)
Unended(f, e) ==
  /\ f.id = e.id => f.type \notin Ended
  /\ f.type = "INIT" => f.user # e.user

LEMMA UniqueGrown ==
  ASSUME IInv, NEW e \in Entries, log' = Append(log, e), Fits(e)
  PROVE  TransIdsUnique'
<1> DEFINE n == Len(log) + 1
<1>1. /\ Len(log) \in Nat /\ Len(log') = n
      /\ \A k \in 1 .. Len(log) : log'[k] = log[k]
      /\ log'[n] = e
      /\ 1 .. Len(log') = (1 .. Len(log)) \cup {n}
      /\ Starts' = IF e.type = "START" THEN Starts \cup {n} ELSE Starts
      /\ Starts \subseteq 1 .. Len(log)
  BY Longer, StartsGrown DEF IInv, TypeOK, Starts
<1>2. ASSUME NEW k \in Starts', NEW l \in Starts', k < l, log'[k].id = log'[l].id
      PROVE  \/ log'[k].id % MaxUsers = 0
             \/ \A j \in k .. l :
                  /\ log'[j].id = log'[k].id =>
                       log'[j].type \notin {"COMMIT_PHASE_TWO", "ROLLBACK"}
                  /\ log'[j].type = "INIT" => log'[j].user # log'[k].user
  <2> SUFFICES ASSUME log'[k].id % MaxUsers # 0, NEW j \in k .. l
               PROVE  Unended(log'[j], log'[k])
    BY Zenon DEF Unended, Ended
  <2>1. k \in Starts /\ k \in 1 .. Len(log)
    BY <1>1, <1>2
  <2>2. CASE l \in Starts
    <3>1. j \in 1 .. Len(log) /\ l \in 1 .. Len(log)
      BY <1>1, <2>1, <2>2
    <3>2. log'[j] = log[j] /\ log'[k] = log[k] /\ log'[l] = log[l]
      BY <1>1, <2>1, <3>1
    <3> QED BY <1>2, <2>1, <2>2, <3>2 DEF IInv, TransIdsUnique, Unended, Ended
  <2>3. CASE l \notin Starts
    <3>1. l = n /\ e.type = "START" /\ e.id = log[k].id /\ log'[k] = log[k]
      BY <1>1, <1>2, <2>1, <2>3
    <3>2. CASE j \in k .. Len(log)
      <4>1. log'[j] = log[j]
        BY <1>1, <2>1, <3>2
      <4> QED BY <2>1, <3>1, <3>2, <4>1 DEF Fits, Unended
    <3>3. CASE j = n
      BY <1>1, <3>1, <3>3 DEF Unended, Ended
    <3> QED BY <1>1, <2>1, <3>1, <3>2, <3>3
  <2> QED BY <2>2, <2>3
<1> QED BY <1>2 DEF TransIdsUnique

(* What the tables have of what came before an entry stays.                *)
OldStays ==
  \A k \in 1 .. Len(log) : log[k].type \in Ended =>
    \A w \in 1 .. k : w \in data' <=> w \in data

(* What an entry that ends a transaction says of the tables.               *)
Tells(e, changes) ==
  /\ e.type = "COMMIT_PHASE_TWO" => changes \subseteq data'
  /\ e.type = "ROLLBACK" => changes \cap data' = {}

LEMMA OldChanges ==
  ASSUME IInv, NEW k \in 1 .. Len(log), log[k].type \in Ended
  PROVE  \E s \in Starts : LastStart(s, k) /\ Changes(k) = {w \in s .. k : log[w].type = "WRITE"}
<1>1. PICK s \in Starts : LastStart(s, k)
  BY DEF IInv, Ordered, Lasts
<1>2. StartOf(k) = s
  BY <1>1, StartIs DEF IInv, TypeOK
<1> QED BY <1>1, <1>2 DEF Changes

LEMMA TellsKept ==
  ASSUME IInv, UNCHANGED log, OldStays
  PROVE  LogTellsTheTables'
<1>1. \A k : Changes(k)' = Changes(k)
  BY DEF Changes, StartOf, Starts
<1> SUFFICES ASSUME NEW k \in 1 .. Len(log), log[k].type \in Ended
             PROVE  Tells(log[k], Changes(k))
  BY <1>1 DEF Tells, LogTellsTheTables, Ended
<1>2. PICK s \in Starts : LastStart(s, k) /\ Changes(k) = {w \in s .. k : log[w].type = "WRITE"}
  BY OldChanges
<1>3. Changes(k) \subseteq 1 .. k
  BY <1>2 DEF Starts
<1> QED BY <1>3 DEF OldStays, Tells, IInv, LogTellsTheTables

LEMMA TellsGrown ==
  ASSUME IInv, NEW e \in Entries, log' = Append(log, e), OldStays, Fits(e),
         \A s \in Starts : LastStart(s, Len(log) + 1) =>
           Tells(e, {w \in s .. Len(log) : log[w].type = "WRITE"})
  PROVE  LogTellsTheTables'
<1> PICK n \in Nat : n = Len(log) + 1
  BY DEF IInv, TypeOK
<1>1. /\ Len(log) \in Nat /\ Len(log') = n
      /\ \A k \in 1 .. Len(log) : log'[k] = log[k]
      /\ log'[n] = e
      /\ 1 .. Len(log') = (1 .. Len(log)) \cup {n}
      /\ Starts' = IF e.type = "START" THEN Starts \cup {n} ELSE Starts
      /\ Starts \subseteq 1 .. Len(log) /\ log' \in Seq(Entries)
  BY Longer, StartsGrown DEF IInv, TypeOK, Starts
<1>2. ASSUME NEW k \in 1 .. n, NEW s \in Starts, LastStart(s, k)
      PROVE  StartOf(k)' = s /\ Changes(k)' = {w \in s .. k : log'[w].type = "WRITE"}
  <2>1. s \in Starts' /\ s < k /\ ~\E t \in Starts' : s < t /\ t < k
    BY <1>1, <1>2 DEF LastStart
  <2>2. \A t \in Starts' : t < k /\ ~(\E x \in Starts' : t < x /\ x < k) => t = s
    BY <1>1, <2>1
  <2>3. StartOf(k)' = s
    BY <2>1, <2>2 DEF StartOf
  <2> QED BY <2>3 DEF Changes
<1> SUFFICES ASSUME NEW k \in 1 .. n, log'[k].type \in Ended
             PROVE  Tells(log'[k], Changes(k)')
  BY <1>1 DEF Tells, LogTellsTheTables, Ended
<1>3. CASE k \in 1 .. Len(log)
  <2>1. log'[k] = log[k]
    BY <1>1, <1>3
  <2>2. PICK s \in Starts : LastStart(s, k) /\ Changes(k) = {w \in s .. k : log[w].type = "WRITE"}
    BY <1>3, <2>1, OldChanges
  <2>3. \A w \in s .. k : log'[w] = log[w]
    BY <1>1, <1>3, <2>2
  <2>4. Changes(k)' = Changes(k)
    <3>1. k \in 1 .. n /\ Changes(k)' = {w \in s .. k : log'[w].type = "WRITE"}
      BY <1>1, <1>2, <1>3, <2>2
    <3> QED BY <2>2, <2>3, <3>1
  <2>5. Changes(k) \subseteq 1 .. k
    BY <1>1, <2>2
  <2> QED BY <1>3, <2>1, <2>4, <2>5 DEF OldStays, Tells, IInv, LogTellsTheTables
<1>4. CASE k = n
  <2>1. e.type \in Ended /\ Starts # {}
    BY <1>1, <1>4 DEF Fits
  <2>2. n \in 1 .. Len(log) + 1
    BY <1>1
  <2>3. \E s \in Starts : s < n
    <3>1. PICK s \in Starts : TRUE
      BY <2>1
    <3>2. s \in 1 .. Len(log) /\ n = Len(log) + 1 /\ Len(log) \in Nat
      BY <1>1
    <3> QED BY <3>1, <3>2
  <2>4. PICK s \in Starts : LastStart(s, n)
    BY <2>2, <2>3 DEF IInv, Lasts
  <2>5. Changes(n)' = {w \in s .. n : log'[w].type = "WRITE"}
    BY <1>2, <2>2, <2>4
  <2>6. {w \in s .. n : log'[w].type = "WRITE"} = {w \in s .. Len(log) : log[w].type = "WRITE"}
    <3>1. log'[n].type # "WRITE"
      BY <1>1, <2>1 DEF Ended
    <3>2. s \in 1 .. Len(log) /\ s .. n = (s .. Len(log)) \cup {n}
          /\ \A w \in s .. Len(log) : log'[w] = log[w]
      BY <1>1
    <3> QED BY <3>1, <3>2
  <2>7. Tells(e, {w \in s .. Len(log) : log[w].type = "WRITE"})
    BY <2>4
  <2> QED BY <1>1, <1>4, <2>5, <2>6, <2>7
<1> QED BY <1>1, <1>3, <1>4

------------------------------------------------------------------------------
(* One process moves, and the others stay as they are.                     *)
Fine(p) == Staged(proc[p]) /\ Owning(p) /\ Newest(p) /\ Alone(p)

(* p takes bytes nobody has and gives back its own. *)
OwnBytes(p) == \A b \in Bytes : owner[b] \notin {p, None} => owner'[b] = owner[b]

OnlyMoves(p) == \A q \in Procs : q # p => proc'[q] = proc[q]

(* An id in p's entry is of p's user number, which p has. *)
Mine(p, e) ==
  e.id % MaxUsers # 0 =>
    e.user # 0 /\ owner[e.user] = p /\ e.id % MaxUsers = e.user % MaxUsers

LEMMA OthersOwn ==
  ASSUME IInv, NEW p \in Procs, NEW q \in Procs, q # p, proc'[q] = proc[q], OwnBytes(p)
  PROVE  Staged(proc'[q]) /\ Owning(q)'
<1>1. q \notin {p, None}
  BY LogAssumption
<1>2. \A b \in Bytes : owner[b] = q => owner'[b] = q
  BY <1>1 DEF OwnBytes
<1>3. /\ proc[q].user \in Bytes /\ AllUsers \subseteq Bytes
      /\ Multiple \in Bytes /\ Reserve \in Bytes
      /\ proc[q].at = "probed" => proc[q].i \in Bytes
  BY LogAssumption DEF IInv, TypeOK, Records, Bytes, AllUsers, Users, Staged
<1> QED BY <1>2, <1>3 DEF IInv, Owning

LEMMA OthersNewest ==
  ASSUME IInv, NEW p \in Procs, NEW q \in Procs, q # p, proc'[q] = proc[q],
         NEW e \in Entries, log' = Append(log, e), Mine(p, e)
  PROVE  Newest(q)'
<1> DEFINE r == proc[q]
<1>1. /\ Len(log) \in Nat /\ Len(log') = Len(log) + 1
      /\ \A k \in 1 .. Len(log) : log'[k] = log[k]
      /\ log'[Len(log) + 1] = e
      /\ 1 .. Len(log') = (1 .. Len(log)) \cup {Len(log) + 1}
  BY Longer DEF IInv, TypeOK
<1>2. r.user \in Users /\ e.user \in Users
  BY DEF IInv, TypeOK, Records, Entries
<1>3. r.at \in Within /\ r.user # 0 => owner[r.user] = q
  BY DEF IInv, Owning
<1> HIDE DEF r
<1>4. ASSUME r.at \in Within, r.user % MaxUsers # 0, e.id % MaxUsers = r.user % MaxUsers
      PROVE  FALSE
  <2>1. r.user = e.user
    BY <1>2, <1>4, SameUser DEF Mine
  <2> QED BY <1>3, <1>4, <2>1 DEF Mine
<1>5. Newest(q)
  BY DEF IInv
<1> QED BY <1>1, <1>4, <1>5 DEF Newest, r

LEMMA OthersFine ==
  ASSUME IInv, NEW p \in Procs, NEW q \in Procs, q # p, proc'[q] = proc[q], OwnBytes(p),
         \/ UNCHANGED <<log, data>>
         \/ /\ CanWrite(p)
            /\ UNCHANGED log \/ \E e \in Entries : log' = Append(log, e) /\ Mine(p, e)
  PROVE  Fine(q)'
<1>1. Newest(q) /\ Alone(q)
  BY DEF IInv
<1>2. Newest(q)'
  <2>1. CASE UNCHANGED log
    BY <1>1, <2>1 DEF Newest
  <2>2. CASE UNCHANGED <<log, data>>
    BY <2>1, <2>2
  <2> QED BY <2>1, <2>2, OthersNewest
<1>3. Alone(q)'
  <2>1. CASE UNCHANGED <<log, data>>
    BY <1>1, <2>1 DEF Alone, LastStart, Starts
  <2>2. CASE CanWrite(p)
    <3>1. proc[q].status = "inactive"
      BY <2>2, LogAssumption DEF CanWrite, IInv, Owning
    <3> QED BY <3>1 DEF Alone
  <2> QED BY <2>1, <2>2
<1> QED BY <1>2, <1>3, OthersOwn DEF Fine

LEMMA SameLog ==
  ASSUME IInv, log' = log
  PROVE  Ordered' /\ Lasts' /\ TransIdsUnique'
<1>1. Starts' = Starts
  BY DEF Starts
<1>2. Ordered' /\ TransIdsUnique'
  BY <1>1 DEF IInv, Ordered, TransIdsUnique
<1>3. Lasts'
  BY <1>1 DEF IInv, Lasts, LastStart, LastOf
<1> QED BY <1>2, <1>3

(* The three kinds of steps: on the bytes, on the tables, and on the log.  *)
LEMMA Quiet ==
  ASSUME IInv, NEW p \in Procs, UNCHANGED <<log, data>>, TypeOK',
         OwnBytes(p), OnlyMoves(p), Fine(p)'
  PROVE  IInv'
<1>1. \A q \in Procs : Fine(q)'
  BY OthersFine DEF OnlyMoves
<1>2. Ordered' /\ Lasts' /\ TransIdsUnique'
  BY SameLog
<1>3. LogTellsTheTables'
  BY TellsKept DEF OldStays
<1> QED BY <1>1, <1>2, <1>3 DEF IInv, Fine

LEMMA Changing ==
  ASSUME IInv, NEW p \in Procs, UNCHANGED log, TypeOK', CanWrite(p), OldStays,
         OwnBytes(p), OnlyMoves(p), Fine(p)'
  PROVE  IInv'
<1>1. \A q \in Procs : Fine(q)'
  BY OthersFine DEF OnlyMoves
<1>2. Ordered' /\ Lasts' /\ TransIdsUnique'
  BY SameLog
<1>3. LogTellsTheTables'
  BY TellsKept
<1> QED BY <1>1, <1>2, <1>3 DEF IInv, Fine

LEMMA Adding ==
  ASSUME IInv, NEW p \in Procs, NEW e \in Entries, log' = Append(log, e), TypeOK',
         CanWrite(p), Mine(p, e), Fits(e), OldStays,
         \A s \in Starts : LastStart(s, Len(log) + 1) =>
           Tells(e, {w \in s .. Len(log) : log[w].type = "WRITE"}),
         OwnBytes(p), OnlyMoves(p), Fine(p)'
  PROVE  IInv'
<1>1. \A q \in Procs : Fine(q)'
  BY OthersFine DEF OnlyMoves
<1>2. Ordered' /\ Lasts' /\ TransIdsUnique'
  BY OrderedGrown, LastsGrown, UniqueGrown
<1>3. LogTellsTheTables'
  BY TellsGrown
<1> QED BY <1>1, <1>2, <1>3 DEF IInv, Fine

------------------------------------------------------------------------------
(* Opening the log, and leaving it.                                        *)
LEMMA ByteFacts ==
  /\ Reserve \in Bytes /\ Multiple \in Bytes /\ Users \subseteq Bytes
  /\ AllUsers \subseteq Users /\ 0 \in Users
  /\ Reserve \notin Users /\ Multiple \notin Users /\ Reserve # Multiple
BY LogAssumption DEF Reserve, Multiple, Bytes, Users, AllUsers

LEMMA Resting ==
  ASSUME NEW p \in Procs, proc'[p].status = "inactive",
         proc'[p].fileId = 0 \/ proc'[p].at \notin Within
  PROVE  Newest(p)' /\ Alone(p)'
BY DEF Newest, Alone

LEMMA ClosedFacts ==
  /\ Closed \in Records /\ Closed.at = "closed" /\ Closed.i = 0 /\ Closed.user = 0
  /\ Closed.fileId = 0 /\ Closed.id = 0 /\ Closed.status = "inactive"
  /\ Staged(Closed)
BY LogAssumption DEF Closed, Records, Opening, Within, Leaving, Users, Staged

LEMMA ClosingFine ==
  ASSUME IInv, NEW p \in Procs, CloseFile(p)
  PROVE  /\ owner' \in [Bytes -> Procs \cup {None}] /\ proc' \in [Procs -> Records]
         /\ OwnBytes(p) /\ OnlyMoves(p) /\ Fine(p)'
<1>1. /\ owner' \in [Bytes -> Procs \cup {None}] /\ proc' \in [Procs -> Records]
      /\ OwnBytes(p) /\ OnlyMoves(p) /\ proc'[p] = Closed
  BY ClosedFacts DEF CloseFile, IInv, TypeOK, OwnBytes, OnlyMoves
<1>2. Newest(p)' /\ Alone(p)'
  BY <1>1, ClosedFacts, Resting
<1>3. Owning(p)'
  BY <1>1, ClosedFacts DEF Owning, Within
<1> QED BY <1>1, <1>2, <1>3, ClosedFacts DEF Fine

LEMMA CrashStep ==
  ASSUME IInv, NEW p \in Procs, Crash(p)
  PROVE  IInv'
<1>1. UNCHANGED <<log, exists, data>>
  BY DEF Crash
<1> QED BY <1>1, ClosingFine, Quiet DEF Crash, TypeOK, IInv

LEMMA OpenStep ==
  ASSUME IInv, NEW p \in Procs, Open(p)
  PROVE  IInv'
<1> DEFINE r == [Closed EXCEPT !.at = "probe"]
<1>1. /\ r \in Records /\ r.at = "probe" /\ r.i = 0 /\ r.user = 0
      /\ r.fileId = 0 /\ r.id = 0 /\ r.status = "inactive"
  BY LogAssumption DEF Closed, Records, Opening, Users
<1>2. proc' = [proc EXCEPT ![p] = r] /\ owner' = [owner EXCEPT ![Reserve] = p]
      /\ owner[Reserve] = None /\ UNCHANGED <<log, exists, data>>
  BY DEF Open
<1> HIDE DEF r
<1>3. TypeOK' /\ proc'[p] = r /\ OwnBytes(p) /\ OnlyMoves(p) /\ owner'[Reserve] = p
  BY <1>1, <1>2, ByteFacts DEF IInv, TypeOK, OwnBytes, OnlyMoves
<1>4. Fine(p)'
  BY <1>1, <1>3, Resting, ByteFacts DEF Fine, Staged, Owning, Opening, Within, Leaving
<1> QED BY <1>2, <1>3, <1>4, Quiet

LEMMA ToAdd ==
  ASSUME IInv, NEW p \in Procs, proc[p].at \in {"probe", "verify", "create"},
         NEW r, r = [proc[p] EXCEPT !.at = "add", !.i = 1]
  PROVE  /\ r \in Records /\ r.at = "add" /\ r.i = 1 /\ r.user = 0
         /\ r.fileId = 0 /\ r.id = 0 /\ r.status = "inactive"
BY DEF IInv, TypeOK, Records, Opening, Staged

LEMMA AddFine ==
  ASSUME IInv, NEW p \in Procs, proc'[p].at = "add", proc'[p].i = 1, proc'[p].user = 0,
         proc'[p].fileId = 0, proc'[p].id = 0, proc'[p].status = "inactive"
  PROVE  Fine(p)'
BY Resting, LogAssumption DEF Fine, Staged, Owning, Opening, Within, Leaving

LEMMA InUseStep ==
  ASSUME IInv, NEW p \in Procs, InUse(p)
  PROVE  IInv'
<1> DEFINE r == [proc[p] EXCEPT !.at = "add", !.i = 1]
<1>1. proc' = [proc EXCEPT ![p] = r] /\ owner' = [owner EXCEPT ![Reserve] = None]
      /\ proc[p].at = "probe" /\ UNCHANGED <<log, exists, data>>
  BY DEF InUse
<1> HIDE DEF r
<1>2. /\ r \in Records /\ r.at = "add" /\ r.i = 1 /\ r.user = 0
      /\ r.fileId = 0 /\ r.id = 0 /\ r.status = "inactive"
  BY <1>1, ToAdd DEF r
<1>3. owner[Reserve] = p
  BY <1>1 DEF IInv, Owning
<1>4. TypeOK' /\ proc'[p] = r /\ OwnBytes(p) /\ OnlyMoves(p)
  BY <1>1, <1>2, <1>3 DEF IInv, TypeOK, OwnBytes, OnlyMoves
<1> QED BY <1>1, <1>2, <1>4, AddFine, Quiet

LEMMA ProbeStep ==
  ASSUME IInv, NEW p \in Procs, Probe(p)
  PROVE  IInv'
<1> DEFINE i == proc[p].i
           r == [proc[p] EXCEPT !.at = "probed"]
<1>1. /\ r \in Records /\ r.at = "probed" /\ r.i = i /\ r.user = 0 /\ i \in Users
      /\ r.fileId = 0 /\ r.id = 0 /\ r.status = "inactive" /\ owner[Reserve] = p
  BY DEF Probe, IInv, TypeOK, Records, Opening, Staged, Owning
<1>2. /\ proc' = [proc EXCEPT ![p] = r] /\ owner' = [owner EXCEPT ![i] = p]
      /\ owner[i] = None /\ UNCHANGED <<log, exists, data>>
  BY DEF Probe, Goto
<1> HIDE DEF r, i
<1>3. /\ TypeOK' /\ proc'[p] = r /\ OwnBytes(p) /\ OnlyMoves(p)
      /\ owner'[i] = p /\ owner'[Reserve] = p
  BY <1>1, <1>2, ByteFacts DEF IInv, TypeOK, OwnBytes, OnlyMoves
<1>4. Fine(p)'
  BY <1>1, <1>3, Resting DEF Fine, Staged, Owning, Opening, Within, Leaving
<1> QED BY <1>2, <1>3, <1>4, Quiet

LEMMA UnprobeStep ==
  ASSUME IInv, NEW p \in Procs, Unprobe(p)
  PROVE  IInv'
<1> DEFINE i == proc[p].i
           a == IF i = MaxUsers THEN "verify" ELSE "probe"
           r == [proc[p] EXCEPT !.at = a, !.i = i + 1]
<1>1. /\ i \in Users /\ owner[i] = p /\ owner[Reserve] = p
      /\ proc[p] \in Records /\ proc[p].user = 0 /\ proc[p].fileId = 0 /\ proc[p].id = 0
      /\ proc[p].status = "inactive"
  BY DEF Unprobe, IInv, TypeOK, Opening, Staged, Owning
<1>2. /\ r \in Records /\ r.i = i + 1 /\ r.user = 0
      /\ r.at \in {"verify", "probe"} /\ (r.at = "probe" => i + 1 \in Users)
      /\ r.fileId = 0 /\ r.id = 0 /\ r.status = "inactive"
  <2>1. i + 1 \in Nat /\ a \in {"verify", "probe"} /\ (a = "probe" => i + 1 \in Users)
    BY <1>1, LogAssumption DEF Users
  <2> HIDE DEF a, i
  <2> QED BY <1>1, <2>1 DEF Records, Opening
<1>3. /\ proc' = [proc EXCEPT ![p] = r] /\ owner' = [owner EXCEPT ![i] = None]
      /\ UNCHANGED <<log, exists, data>>
  BY DEF Unprobe
<1> HIDE DEF r, i, a
<1>4. /\ TypeOK' /\ proc'[p] = r /\ OwnBytes(p) /\ OnlyMoves(p) /\ owner'[Reserve] = p
  BY <1>1, <1>2, <1>3, ByteFacts DEF IInv, TypeOK, OwnBytes, OnlyMoves
<1>5. Fine(p)'
  BY <1>2, <1>4, Resting DEF Fine, Staged, Owning, Opening, Within, Leaving
<1> QED BY <1>3, <1>4, <1>5, Quiet

LEMMA VerifyStep ==
  ASSUME IInv, NEW p \in Procs, Verify(p)
  PROVE  IInv'
<1> DEFINE a == [proc[p] EXCEPT !.at = "add", !.i = 1]
           r == IF WellEnded THEN a ELSE Closed
<1>1. /\ proc' = [proc EXCEPT ![p] = r] /\ owner' = [owner EXCEPT ![Reserve] = None]
      /\ proc[p].at = "verify" /\ UNCHANGED <<log, exists, data>>
  BY DEF Verify
<1>2. owner[Reserve] = p
  BY <1>1 DEF IInv, Owning
<1>3. /\ a \in Records /\ a.at = "add" /\ a.i = 1 /\ a.user = 0
      /\ a.fileId = 0 /\ a.id = 0 /\ a.status = "inactive"
  BY <1>1, ToAdd
<1>4. r \in {a, Closed}
  OBVIOUS
<1> HIDE DEF r, a
<1>5. TypeOK' /\ proc'[p] = r /\ OwnBytes(p) /\ OnlyMoves(p)
  BY <1>1, <1>2, <1>3, <1>4, ClosedFacts DEF IInv, TypeOK, OwnBytes, OnlyMoves
<1>6. CASE r = a
  BY <1>1, <1>3, <1>5, <1>6, AddFine, Quiet
<1>7. CASE r = Closed
  <2>1. Newest(p)' /\ Alone(p)'
    BY <1>5, <1>7, ClosedFacts, Resting
  <2>2. Owning(p)'
    BY <1>5, <1>7, ClosedFacts DEF Owning, Within
  <2>3. Fine(p)'
    BY <1>5, <1>7, <2>1, <2>2, ClosedFacts DEF Fine
  <2> QED BY <1>1, <1>5, <2>3, Quiet
<1> QED BY <1>4, <1>6, <1>7

LEMMA CreateFileStep ==
  ASSUME IInv, NEW p \in Procs, CreateFile(p)
  PROVE  IInv'
<1> DEFINE r == [proc[p] EXCEPT !.at = "create"]
<1>1. /\ r \in Records /\ r.at = "create" /\ r.user = 0
      /\ r.fileId = 0 /\ r.id = 0 /\ r.status = "inactive"
  BY DEF CreateFile, IInv, TypeOK, Records, Opening, Staged
<1>2. /\ proc' = [proc EXCEPT ![p] = r] /\ exists' = TRUE /\ UNCHANGED <<log, owner, data>>
  BY DEF CreateFile, Goto
<1> HIDE DEF r
<1>3. TypeOK' /\ proc'[p] = r /\ OwnBytes(p) /\ OnlyMoves(p)
  BY <1>1, <1>2 DEF IInv, TypeOK, OwnBytes, OnlyMoves
<1>4. Fine(p)'
  BY <1>1, <1>3, Resting DEF Fine, Staged, Owning, Opening, Within, Leaving
<1> QED BY <1>2, <1>3, <1>4, Quiet

LEMMA AddUserStep ==
  ASSUME IInv, NEW p \in Procs, AddUser(p)
  PROVE  IInv'
<1> DEFINE i == proc[p].i
<1>1. /\ i \in 1 .. MaxUsers + 1 /\ i \in Nat
      /\ proc[p] \in Records /\ proc[p].user = 0 /\ proc[p].fileId = 0 /\ proc[p].id = 0
      /\ proc[p].status = "inactive" /\ UNCHANGED <<log, exists, data>>
  BY LogAssumption DEF AddUser, IInv, TypeOK, Opening, Staged
<1>2. CASE i > MaxUsers
  <2> DEFINE r == [proc[p] EXCEPT !.at = "open"]
  <2>1. /\ r \in Records /\ r.at = "open" /\ r.user = 0
        /\ r.fileId = 0 /\ r.id = 0 /\ r.status = "inactive"
    BY <1>1 DEF Records, Within
  <2>2. proc' = [proc EXCEPT ![p] = r] /\ UNCHANGED owner
    BY <1>2 DEF AddUser, Goto
  <2> HIDE DEF r, i
  <2>3. TypeOK' /\ proc'[p] = r /\ OwnBytes(p) /\ OnlyMoves(p)
    BY <1>1, <2>1, <2>2 DEF IInv, TypeOK, OwnBytes, OnlyMoves
  <2>4. Fine(p)'
    BY <2>1, <2>3, Resting DEF Fine, Staged, Owning, Opening, Leaving
  <2> QED BY <1>1, <2>3, <2>4, Quiet
<1>3. CASE i <= MaxUsers /\ owner[i] = None
  <2> DEFINE r == [proc[p] EXCEPT !.at = "init", !.user = i]
  <2>1. i \in Users /\ i # 0
    BY <1>1, <1>3, LogAssumption DEF Users
  <2>2. /\ r \in Records /\ r.at = "init" /\ r.user = i
        /\ r.fileId = 0 /\ r.id = 0 /\ r.status = "inactive"
    BY <1>1, <2>1 DEF Records, Within
  <2>3. proc' = [proc EXCEPT ![p] = r] /\ owner' = [owner EXCEPT ![i] = p]
    <3>1. ~(i > MaxUsers)
      BY <1>1, <1>3, LogAssumption
    <3> QED BY <1>3, <3>1 DEF AddUser
  <2> HIDE DEF r, i
  <2>4. TypeOK' /\ proc'[p] = r /\ OwnBytes(p) /\ OnlyMoves(p) /\ owner'[i] = p
    BY <1>1, <1>3, <2>1, <2>2, <2>3, ByteFacts DEF IInv, TypeOK, OwnBytes, OnlyMoves
  <2>5. Fine(p)'
    BY <2>2, <2>4, Resting DEF Fine, Staged, Owning, Opening, Leaving
  <2> QED BY <1>1, <2>4, <2>5, Quiet
<1>4. CASE i <= MaxUsers /\ owner[i] # None
  <2> DEFINE r == [proc[p] EXCEPT !.i = i + 1]
  <2>1. i + 1 \in 1 .. MaxUsers + 1 /\ i + 1 \in Nat
    BY <1>1, <1>4, LogAssumption
  <2>2. /\ r \in Records /\ r.at = "add" /\ r.user = 0 /\ r.i = i + 1
        /\ r.fileId = 0 /\ r.id = 0 /\ r.status = "inactive"
    BY <1>1, <2>1 DEF Records, AddUser
  <2>3. proc' = [proc EXCEPT ![p] = r] /\ UNCHANGED owner
    <3>1. ~(i > MaxUsers)
      BY <1>1, <1>4, LogAssumption
    <3> QED BY <1>4, <3>1 DEF AddUser
  <2> HIDE DEF r, i
  <2>4. TypeOK' /\ proc'[p] = r /\ OwnBytes(p) /\ OnlyMoves(p)
    BY <1>1, <2>2, <2>3 DEF IInv, TypeOK, OwnBytes, OnlyMoves
  <2>5. Fine(p)'
    BY <2>1, <2>2, <2>4, Resting DEF Fine, Staged, Owning, Opening, Within, Leaving
  <2> QED BY <1>1, <2>4, <2>5, Quiet
<1>5. i > MaxUsers \/ i <= MaxUsers
  BY <1>1, LogAssumption
<1> QED BY <1>2, <1>3, <1>4, <1>5

LEMMA BeginCloseStep ==
  ASSUME IInv, NEW p \in Procs, BeginClose(p)
  PROVE  IInv'
<1> DEFINE q == proc[p]
           r == [q EXCEPT !.at = "undo"]
<1>1. /\ q \in Records /\ q.at \in {"open", "stuck"} /\ q.status # "active"
      /\ Staged(q) /\ Owning(p) /\ Newest(p) /\ Alone(p)
  BY DEF BeginClose, IInv, TypeOK
<1>2. proc' = [proc EXCEPT ![p] = r] /\ UNCHANGED <<log, exists, owner, data>>
  BY DEF BeginClose, Goto
<1>3. /\ r \in Records /\ r.at = "undo" /\ r.user = q.user /\ r.fileId = q.fileId
      /\ r.id = q.id /\ r.status = q.status
  BY <1>1 DEF Records, Within
<1>4. TypeOK' /\ proc'[p] = r /\ OwnBytes(p) /\ OnlyMoves(p)
  <2> HIDE DEF q, r
  <2> QED BY <1>2, <1>3 DEF IInv, TypeOK, OwnBytes, OnlyMoves
<1>5. Staged(r)
  <2> HIDE DEF q, r
  <2> QED BY <1>1, <1>3 DEF Staged, Opening, Leaving
<1>6. Owning(p)' /\ Newest(p)'
  <2> HIDE DEF r
  <2> QED BY <1>1, <1>2, <1>3, <1>4 DEF Owning, Newest, Within
<1>7. Alone(p)'
  <2> HIDE DEF r
  <2> QED BY <1>1, <1>2, <1>3, <1>4 DEF Alone, Starts, LastStart
<1> QED BY <1>2, <1>4, <1>5, <1>6, <1>7, Quiet DEF Fine

------------------------------------------------------------------------------
(* The entries of a session.                                               *)
LEMMA EntryFits ==
  ASSUME IInv, NEW p \in Procs, NEW type \in Types \ {"START"}, proc[p].at \in Within,
         type \in Ended => proc[p].status # "inactive",
         NEW e, e = Entry(p, type)
  PROVE  /\ e \in Entries /\ Fits(e) /\ Mine(p, e) /\ e.type = type
         /\ e.user = proc[p].user
         /\ proc[p].status # "inactive" => e.id = proc[p].id
<1> DEFINE r == proc[p]
<1>1. /\ r \in Records /\ Staged(r) /\ Owning(p) /\ Newest(p) /\ Alone(p)
  BY DEF IInv, TypeOK
<1>2. /\ e \in Entries /\ e.type = type /\ e.user = r.user
      /\ r.status # "inactive" => e.id = r.id
      /\ r.status = "inactive" => e.id = 0
  BY <1>1 DEF Entry, Entries, Records
<1> HIDE DEF r
<1>3. 0 % MaxUsers = 0
  BY ModSmall, LogAssumption DEF Users
<1>4. ASSUME e.id % MaxUsers # 0
      PROVE  /\ e.id = r.fileId /\ r.fileId # 0 /\ r.at \in Within
             /\ r.user # 0 /\ r.user % MaxUsers = e.id % MaxUsers
  <2>1. e.id # 0 /\ r.status # "inactive" /\ e.id = r.id
    BY <1>2, <1>3, <1>4
  <2>2. e.id = r.fileId /\ r.fileId # 0 /\ r.user % MaxUsers = e.id % MaxUsers
    BY <1>1, <2>1 DEF Staged
  <2> QED BY <1>3, <1>4, <2>2 DEF r
<1>5. Mine(p, e)
  BY <1>1, <1>2, <1>4 DEF Mine, Owning, r
<1>6. Fits(e)
  <2>1. e.type \in Ended => Starts # {}
    BY <1>1, <1>2 DEF Alone, r
  <2> QED BY <1>1, <1>2, <1>4, <2>1 DEF Fits, Newest, r
<1> QED BY <1>2, <1>5, <1>6 DEF r

LEMMA AloneGrows ==
  ASSUME IInv, NEW p \in Procs, NEW e \in Entries, log' = Append(log, e),
         data' = data, proc[p].status # "inactive", proc[p].at # "write",
         e.type \in {"WRITE", "COMMIT_PHASE_ONE"},
         e.id = proc[p].id, e.user = proc[p].user,
         proc'[p].id = proc[p].id, proc'[p].user = proc[p].user,
         e.type = "WRITE" <=> proc'[p].at = "write"
  PROVE  Alone(p)'
<1> DEFINE r == proc[p]
<1> PICK n \in Nat : n = Len(log) + 1
  BY DEF IInv, TypeOK
<1>1. /\ Len(log) \in Nat /\ Len(log') = n
      /\ \A k \in 1 .. Len(log) : log'[k] = log[k]
      /\ log'[n] = e
      /\ 1 .. Len(log') = (1 .. Len(log)) \cup {n}
      /\ Starts' = Starts /\ Starts \subseteq 1 .. Len(log)
  BY Longer, StartsGrown DEF IInv, TypeOK, Starts
<1>2. Alone(p)
  BY DEF IInv
<1>3. PICK s \in Starts :
        /\ LastStart(s, Len(log) + 1)
        /\ \A k \in s .. Len(log) :
             /\ log[k].id = r.id /\ log[k].user = r.user /\ log[k].type \in Inside
             /\ log[k].type = "WRITE" => k \in data
  BY <1>2 DEF Alone
<1>4. LastStart(s, Len(log) + 1)'
  BY <1>1, <1>3 DEF LastStart
<1>5. ASSUME NEW k \in s .. Len(log')
      PROVE  /\ log'[k].id = r.id /\ log'[k].user = r.user /\ log'[k].type \in Inside
             /\ log'[k].type = "WRITE" => k \in data \/ (proc'[p].at = "write" /\ k = Len(log'))
  <2>1. k \in s .. Len(log) \/ k = n
    BY <1>1
  <2>2. CASE k \in s .. Len(log)
    <3>1. log'[k] = log[k]
      BY <1>1, <2>2
    <3> QED BY <1>3, <2>2, <3>1
  <2>3. CASE k = n
    BY <1>1, <2>3 DEF Inside
  <2> QED BY <2>1, <2>2, <2>3
<1>6. ASSUME r.id % MaxUsers # 0, NEW k \in Starts, log'[k].id = r.id, NEW j \in k .. Len(log')
      PROVE  /\ log'[j].id = r.id => log'[j].type \notin Ended
             /\ log'[j].type = "INIT" => log'[j].user # r.user
  <2>1. log'[k] = log[k] /\ (j \in k .. Len(log) \/ j = n)
    BY <1>1
  <2>2. CASE j \in k .. Len(log)
    <3>1. log'[j] = log[j]
      BY <1>1, <2>2
    <3> QED BY <1>2, <1>6, <2>1, <2>2, <3>1 DEF Alone
  <2>3. CASE j = n
    BY <1>1, <2>3 DEF Ended
  <2> QED BY <2>1, <2>2, <2>3
<1>7. proc'[p].at = "write" => log'[Len(log')].type = "WRITE"
  BY <1>1
<1> QED BY <1>1, <1>4, <1>5, <1>6, <1>7 DEF Alone

LEMMA NextIdIsNew ==
  ASSUME IInv, NEW p \in Procs, proc[p].at \in Within, NEW id, id = NextId(p)
  PROVE  /\ id \in Nat \ {0} /\ id % MaxUsers = proc[p].user % MaxUsers
         /\ id % MaxUsers # 0 =>
              \A k \in 1 .. Len(log) : log[k].id % MaxUsers = id % MaxUsers => log[k].id < id
<1> DEFINE r == proc[p]
           u == r.user
           last == LastIdOf(u)
           I == {k \in 1 .. Len(log) : log[k].id % MaxUsers = u}
<1>1. r \in Records /\ u \in Users /\ u \in Nat /\ r.fileId \in Nat /\ Len(log) \in Nat
      /\ \A k \in 1 .. Len(log) : log[k].id \in Nat
  <2>1. r \in Records /\ u \in Users /\ r.fileId \in Nat /\ Users \subseteq Nat
    BY LogAssumption DEF IInv, TypeOK, Records, Users
  <2>2. \A k \in 1 .. Len(log) : log[k] \in Entries
    BY DEF IInv, TypeOK
  <2>3. \A f \in Entries : f.id \in Nat
    BY DEF Entries
  <2>4. Len(log) \in Nat
    BY DEF IInv, TypeOK
  <2> HIDE DEF r, u
  <2> QED BY <2>1, <2>2, <2>3, <2>4 DEF u
<1>2. 0 % MaxUsers = 0 /\ MaxUsers % MaxUsers = 0
  BY ModSmall, LogAssumption DEF Users
<1>3. CASE r.fileId > 0
  <2>1. id = r.fileId + MaxUsers
    BY <1>3 DEF NextId
  <2>2. r.fileId % MaxUsers = u % MaxUsers
    BY <1>1, <1>3 DEF IInv, Staged
  <2>3. id % MaxUsers = u % MaxUsers
    BY <1>1, <2>1, <2>2, ModStep, LogAssumption
  <2>4. Newest(p)
    BY DEF IInv
  <2>5. u % MaxUsers # 0 =>
          \A k \in 1 .. Len(log) : log[k].id % MaxUsers = u % MaxUsers => log[k].id <= r.fileId
    BY <1>1, <1>3, <2>4 DEF Newest
  <2>6. id \in Nat \ {0} /\ r.fileId < id
    BY <1>1, <1>3, <2>1, LogAssumption
  <2> HIDE DEF last, I, u
  <2>7. ASSUME u % MaxUsers # 0, NEW k \in 1 .. Len(log), log[k].id % MaxUsers = u % MaxUsers
        PROVE  log[k].id < id
    BY <1>1, <2>5, <2>6, <2>7
  <2> QED BY <2>3, <2>6, <2>7 DEF u
<1>4. last = IF I = {} \/ Max(I) = 0 THEN 0 ELSE log[Max(I)].id
  BY DEF LastIdOf, SelectLastInSeq
<1>5. CASE r.fileId = 0 /\ I = {}
  <2>1. last = 0 /\ \A k \in 1 .. Len(log) : log[k].id % MaxUsers # u
    BY <1>4, <1>5
  <2>2. id = IF u = 0 THEN MaxUsers ELSE u
    <3> HIDE DEF last
    <3>1. ~(r.fileId > 0) /\ ~(last > 0) /\ last + MaxUsers = MaxUsers
      BY <1>5, <2>1, LogAssumption
    <3>2. id = IF u = 0 THEN last + MaxUsers ELSE u
      BY <3>1 DEF NextId, last
    <3> QED BY <3>1, <3>2
  <2>3. u % MaxUsers # 0 => u % MaxUsers = u
    <3>1. u \in Users /\ (u < MaxUsers \/ u = MaxUsers)
      BY <1>1, LogAssumption DEF Users
    <3> HIDE DEF u
    <3> QED BY <1>2, <3>1, ModSmall
  <2> HIDE DEF u, last, I, r
  <2> QED BY <1>1, <1>2, <2>1, <2>2, <2>3, LogAssumption DEF r, u
<1>6. CASE r.fileId = 0 /\ I # {}
  <2>1. PICK k \in 1 .. Len(log) : LastOf(u, k)
    BY <1>1, <1>6 DEF IInv, Lasts
  <2>2. k \in I /\ \A j \in I : j <= k
    BY <2>1 DEF LastOf
  <2>3. Max(I) = k
    <3>1. I \subseteq Nat
      BY <1>1
    <3> HIDE DEF I
    <3>2. \A j \in I : (\A i \in I : j >= i) => j = k
      BY <2>2, <3>1
    <3>3. \A j \in I : k >= j
      BY <2>2, <3>1
    <3> QED BY <2>2, <3>2, <3>3 DEF Max
  <2>4. last = log[k].id /\ last \in Nat /\ last % MaxUsers = u
    <3>1. k # 0 /\ log[k].id \in Nat /\ log[k].id % MaxUsers = u
      BY <1>1, <2>1 DEF LastOf
    <3> HIDE DEF I, u
    <3>2. last = log[k].id
      BY <1>4, <1>6, <2>3, <3>1
    <3> QED BY <3>1, <3>2
  <2>5. u < MaxUsers /\ u % MaxUsers = u
    BY <1>1, <2>4, ModSmall, LogAssumption
  <2>6. id = last + MaxUsers
    BY <1>1, <1>2, <1>6, <2>4 DEF NextId
  <2>7. id % MaxUsers = u
    BY <2>4, <2>6, ModStep, LogAssumption
  <2>8. ASSUME NEW j \in 1 .. Len(log), log[j].id % MaxUsers = u, u # 0
        PROVE  log[j].id <= last
    <3>1. j <= k
      BY <2>2, <2>8
    <3> HIDE DEF u, last, I
    <3>2. CASE j = k
      BY <1>1, <2>4, <3>2
    <3>3. CASE j < k
      BY <2>1, <2>4, <2>8, <3>3 DEF IInv, Ordered, LastOf
    <3> QED BY <2>1, <3>1, <3>2, <3>3
  <2> HIDE DEF last, I, u
  <2>9. /\ id \in Nat \ {0} /\ id % MaxUsers = u % MaxUsers
        /\ id % MaxUsers # 0 =>
             \A j \in 1 .. Len(log) : log[j].id % MaxUsers = id % MaxUsers => log[j].id < id
    <3>1. id \in Nat \ {0} /\ last < id
      BY <2>4, <2>6, LogAssumption
    <3>2. ASSUME NEW j \in 1 .. Len(log), log[j].id % MaxUsers = u, u # 0 PROVE log[j].id < id
      BY <1>1, <2>4, <2>8, <3>1, <3>2
    <3> QED BY <2>5, <2>7, <3>1, <3>2
  <2> QED BY <2>9 DEF u
<1> QED BY <1>1, <1>3, <1>5, <1>6

(* An entry that ends nothing. *)
LEMMA AddingPlain ==
  ASSUME IInv, NEW p \in Procs, NEW e \in Entries, log' = Append(log, e), data' = data,
         e.type \notin Ended, exists' \in BOOLEAN,
         owner' \in [Bytes -> Procs \cup {None}], proc' \in [Procs -> Records],
         CanWrite(p), Mine(p, e), Fits(e), OwnBytes(p), OnlyMoves(p), Fine(p)'
  PROVE  IInv'
<1>1. TypeOK'
  BY Longer DEF IInv, TypeOK
<1>2. OldStays /\ \A c : Tells(e, c)
  BY DEF OldStays, Tells, Ended
<1> QED BY <1>1, <1>2, Adding

(* The entry that marks the log as shut down is nobody's. *)
LEMMA MarkFits ==
  ASSUME IInv, NEW p \in Procs, NEW e, e = [type |-> "SHUTDOWN", user |-> 0, id |-> 0]
  PROVE  e \in Entries /\ e.type \notin Ended /\ Mine(p, e) /\ Fits(e)
<1>1. 0 % MaxUsers = 0
  BY ModSmall, LogAssumption DEF Users
<1>2. e \in Entries /\ e.type = "SHUTDOWN" /\ e.id = 0
  BY ByteFacts DEF Entries, Types
<1> QED BY <1>1, <1>2 DEF Ended, Mine, Fits

LEMMA CreateMarkStep ==
  ASSUME IInv, NEW p \in Procs, CreateMark(p)
  PROVE  IInv'
<1> DEFINE r == [proc[p] EXCEPT !.at = "add", !.i = 1]
           e == [type |-> "SHUTDOWN", user |-> 0, id |-> 0]
<1>1. /\ proc' = [proc EXCEPT ![p] = r] /\ log' = Append(log, e) /\ CanWrite(p)
      /\ proc[p].at = "create" /\ UNCHANGED <<exists, owner, data>>
  BY DEF CreateMark
<1>2. /\ r \in Records /\ r.at = "add" /\ r.i = 1 /\ r.user = 0
      /\ r.fileId = 0 /\ r.id = 0 /\ r.status = "inactive"
  BY <1>1, ToAdd
<1>3. e \in Entries /\ e.type \notin Ended /\ Mine(p, e) /\ Fits(e)
  BY MarkFits
<1> HIDE DEF r, e
<1>4. /\ exists' \in BOOLEAN /\ owner' \in [Bytes -> Procs \cup {None}]
      /\ proc' \in [Procs -> Records] /\ proc'[p] = r /\ OwnBytes(p) /\ OnlyMoves(p)
  BY <1>1, <1>2 DEF IInv, TypeOK, OwnBytes, OnlyMoves
<1> QED BY <1>1, <1>2, <1>3, <1>4, AddFine, AddingPlain

LEMMA ShutdownStep ==
  ASSUME IInv, NEW p \in Procs, Shutdown(p)
  PROVE  IInv'
<1> DEFINE e == [type |-> "SHUTDOWN", user |-> 0, id |-> 0]
<1>1. /\ log' = Append(log, e) /\ CanWrite(p) /\ CloseFile(p) /\ UNCHANGED <<exists, data>>
  BY DEF Shutdown
<1>2. e \in Entries /\ e.type \notin Ended /\ Mine(p, e) /\ Fits(e)
  BY MarkFits
<1> HIDE DEF e
<1>3. exists' \in BOOLEAN
  BY <1>1 DEF IInv, TypeOK
<1> QED BY <1>1, <1>2, <1>3, ClosingFine, AddingPlain

LEMMA InitEntryStep ==
  ASSUME IInv, NEW p \in Procs, InitEntry(p)
  PROVE  IInv'
<1> DEFINE q == proc[p]
           r == [q EXCEPT !.at = "open"]
           e == Entry(p, "INIT")
<1>1. /\ proc' = [proc EXCEPT ![p] = r] /\ log' = Append(log, e) /\ CanWrite(p)
      /\ q.at = "init" /\ UNCHANGED <<exists, owner, data>>
  BY DEF InitEntry, Goto
<1>2. /\ e \in Entries /\ e.type = "INIT" /\ Mine(p, e) /\ Fits(e)
  BY <1>1, EntryFits DEF Types, Within, Ended
<1>3. q \in Records /\ Staged(q) /\ Owning(p)
  BY DEF IInv, TypeOK
<1>4. /\ r \in Records /\ r.at = "open" /\ r.user = q.user
      /\ r.fileId = 0 /\ r.id = 0 /\ r.status = "inactive"
  BY <1>1, <1>3 DEF Records, Within, Staged
<1> HIDE DEF r, e
<1>5. /\ exists' \in BOOLEAN /\ owner' \in [Bytes -> Procs \cup {None}]
      /\ proc' \in [Procs -> Records] /\ proc'[p] = r /\ OwnBytes(p) /\ OnlyMoves(p)
  BY <1>1, <1>4 DEF IInv, TypeOK, OwnBytes, OnlyMoves
<1>6. Fine(p)'
  BY <1>1, <1>3, <1>4, <1>5, Resting DEF Fine, Staged, Owning, Opening, Leaving, Within
<1>7. e.type \notin Ended
  BY <1>2 DEF Ended
<1> QED BY <1>1, <1>2, <1>5, <1>6, <1>7, AddingPlain

LEMMA NoteStep ==
  ASSUME IInv, NEW p \in Procs, Note(p)
  PROVE  IInv'
<1> DEFINE q == proc[p]
           e == Entry(p, "OPEN")
<1>1. /\ log' = Append(log, e) /\ CanWrite(p) /\ q.at = "open" /\ q.status = "inactive"
      /\ UNCHANGED <<exists, owner, proc, data>>
  BY DEF Note
<1>2. /\ e \in Entries /\ e.type = "OPEN" /\ Mine(p, e) /\ Fits(e)
  BY <1>1, EntryFits DEF Types, Within, Ended
<1>3. e.id = 0
  BY <1>1 DEF Entry
<1> HIDE DEF e
<1>4. /\ exists' \in BOOLEAN /\ owner' \in [Bytes -> Procs \cup {None}]
      /\ proc' \in [Procs -> Records] /\ OwnBytes(p) /\ OnlyMoves(p)
  BY <1>1 DEF IInv, TypeOK, OwnBytes, OnlyMoves
<1>5. Newest(p)'
  <2>1. 0 % MaxUsers = 0 /\ Newest(p)
    BY ModSmall, LogAssumption DEF Users, IInv
  <2>2. /\ 1 .. Len(log') = (1 .. Len(log)) \cup {Len(log) + 1} /\ log'[Len(log) + 1] = e
        /\ \A k \in 1 .. Len(log) : log'[k] = log[k]
    BY <1>1, <1>2, Longer DEF IInv, TypeOK
  <2> QED BY <1>1, <1>3, <2>1, <2>2 DEF Newest
<1>6. Alone(p)' /\ Staged(proc'[p]) /\ Owning(p)'
  BY <1>1 DEF Alone, Owning, IInv
<1>7. e.type \notin Ended
  BY <1>2 DEF Ended
<1> QED BY <1>1, <1>2, <1>4, <1>5, <1>6, <1>7, AddingPlain DEF Fine

------------------------------------------------------------------------------
(* A transaction.                                                          *)
LEMMA NewestGrows ==
  ASSUME IInv, NEW p \in Procs, NEW e \in Entries, log' = Append(log, e),
         proc[p].at \in Within, proc'[p].user = proc[p].user,
         proc'[p].fileId = proc[p].fileId, e.id \in {0, proc[p].fileId}
  PROVE  Newest(p)'
<1>1. 0 % MaxUsers = 0 /\ Newest(p) /\ proc[p].fileId \in Nat
  BY ModSmall, LogAssumption DEF Users, IInv, TypeOK, Records
<1>2. /\ 1 .. Len(log') = (1 .. Len(log)) \cup {Len(log) + 1} /\ log'[Len(log) + 1] = e
      /\ \A k \in 1 .. Len(log) : log'[k] = log[k]
  BY Longer DEF IInv, TypeOK
<1> QED BY <1>1, <1>2 DEF Newest

LEMMA StartStep ==
  ASSUME IInv, NEW p \in Procs, Start(p)
  PROVE  IInv'
<1> DEFINE q == proc[p]
           id == IF q.id > 0 THEN q.id ELSE NextId(p)
           fileId == IF q.id > 0 THEN q.fileId ELSE id
           r == [q EXCEPT !.at = "open", !.status = "active", !.id = id, !.fileId = fileId]
           e == [type |-> "START", user |-> q.user, id |-> id]
<1>1. /\ proc' = [proc EXCEPT ![p] = r] /\ log' = Append(log, e) /\ CanWrite(p)
      /\ owner' = [owner EXCEPT ![Multiple] = p]
      /\ q.at \in Within /\ q.at \in {"open", "stuck"} /\ UNCHANGED <<exists, data>>
  BY DEF Start, Within
<1>2. /\ q \in Records /\ Staged(q) /\ Owning(p) /\ Newest(p) /\ Alone(p)
      /\ q.id \in Nat /\ q.fileId \in Nat /\ q.user \in Users
  BY DEF IInv, TypeOK, Records
<1>3. 0 % MaxUsers = 0 /\ id = fileId
  BY <1>2, ModSmall, LogAssumption DEF Users, Staged
<1>4. /\ id \in Nat \ {0} /\ id % MaxUsers = q.user % MaxUsers
      /\ id % MaxUsers # 0 =>
           \A k \in 1 .. Len(log) : log[k].id % MaxUsers = id % MaxUsers => log[k].id <= id
      /\ id % MaxUsers # 0 =>
           \A k \in Starts : log[k].id = id =>
             \A j \in k .. Len(log) :
               /\ log[j].id = id => log[j].type \notin Ended
               /\ log[j].type = "INIT" => log[j].user # q.user
  <2>1. CASE q.id > 0
    <3>1. id = q.id /\ q.id = q.fileId /\ q.status # "inactive"
      BY <1>2, <2>1 DEF Staged
    <3>2. q.fileId % MaxUsers = q.user % MaxUsers
      BY <1>2, <2>1, <3>1 DEF Staged
    <3>3. id \in Nat \ {0}
      BY <1>2, <2>1
    <3> HIDE DEF id, q
    <3>4. id % MaxUsers # 0 =>
           \A k \in 1 .. Len(log) : log[k].id % MaxUsers = id % MaxUsers => log[k].id <= id
      BY <1>1, <1>2, <2>1, <3>1, <3>2, <3>3 DEF Newest, q
    <3>5. id % MaxUsers # 0 =>
            \A k \in Starts : log[k].id = id =>
              \A j \in k .. Len(log) :
                /\ log[j].id = id => log[j].type \notin Ended
                /\ log[j].type = "INIT" => log[j].user # q.user
      BY <1>2, <3>1 DEF Alone, q
    <3> QED BY <3>1, <3>2, <3>3, <3>4, <3>5
  <2>2. CASE ~(q.id > 0)
    <3>1. id = NextId(p)
      BY <2>2
    <3>2. \A k \in 1 .. Len(log) : log[k].id \in Nat
      <4>1. \A k \in 1 .. Len(log) : log[k] \in Entries
        BY DEF IInv, TypeOK
      <4> QED BY <4>1 DEF Entries
    <3>3. Starts \subseteq 1 .. Len(log)
      BY DEF Starts
    <3>4. /\ id \in Nat \ {0} /\ id % MaxUsers = q.user % MaxUsers
          /\ id % MaxUsers # 0 =>
               \A k \in 1 .. Len(log) : log[k].id % MaxUsers = id % MaxUsers => log[k].id < id
      BY <1>1, <3>1, NextIdIsNew
    <3> HIDE DEF id
    <3> QED BY <3>2, <3>3, <3>4
  <2> QED BY <2>1, <2>2
<1>5. /\ r \in Records /\ r.at = "open" /\ r.user = q.user
      /\ r.fileId = id /\ r.id = id /\ r.status = "active"
  <2> HIDE DEF id, fileId
  <2> QED BY <1>2, <1>3, <1>4 DEF Records, Within
<1>6. e \in Entries /\ e.type = "START" /\ e.id = id /\ e.user = q.user /\ e.type \notin Ended
  <2> HIDE DEF id
  <2> QED BY <1>2, <1>4 DEF Entries, Types, Ended
<1> HIDE DEF r, e, id, fileId
<1>7. Mine(p, e)
  BY <1>1, <1>2, <1>3, <1>4, <1>6 DEF Mine, Owning
<1>8. Fits(e)
  <2>1. ASSUME NEW k \in Starts, log[k].id = id, id % MaxUsers # 0
        PROVE  log[k].user = q.user
    <3>1. log[k].id % MaxUsers = log[k].user % MaxUsers /\ log[k] \in Entries
      BY DEF IInv, Ordered, TypeOK, Starts
    <3> QED BY <1>2, <1>4, <2>1, <3>1, SameUser DEF Entries
  <2> QED BY <1>4, <1>6, <2>1 DEF Fits, Ended
<1>9. /\ exists' \in BOOLEAN /\ owner' \in [Bytes -> Procs \cup {None}]
      /\ proc' \in [Procs -> Records] /\ proc'[p] = r /\ OwnBytes(p) /\ OnlyMoves(p)
      /\ owner'[Multiple] = p
  BY <1>1, <1>5, ByteFacts DEF IInv, TypeOK, OwnBytes, OnlyMoves, CanWrite
<1>10. Staged(r)
  BY <1>4, <1>5 DEF Staged, Opening, Leaving
<1>11. Owning(p)'
  <2>1. q.user # 0 => owner'[q.user] = p
    BY <1>1, <1>2, ByteFacts DEF Owning, IInv, TypeOK
  <2> QED BY <1>5, <1>9, <2>1 DEF Owning
<1> PICK n \in Nat : n = Len(log) + 1
  BY DEF IInv, TypeOK
<1>12. /\ Len(log) \in Nat /\ Len(log') = n
       /\ \A k \in 1 .. Len(log) : log'[k] = log[k]
       /\ log'[n] = e
       /\ 1 .. Len(log') = (1 .. Len(log)) \cup {n}
       /\ Starts' = Starts \cup {n} /\ Starts \subseteq 1 .. Len(log)
  BY <1>1, <1>6, Longer, StartsGrown DEF IInv, TypeOK, Starts
<1>13. Newest(p)'
  <2>1. \A k \in 1 .. Len(log') :
          id % MaxUsers # 0 /\ log'[k].id % MaxUsers = id % MaxUsers => log'[k].id <= id
    BY <1>4, <1>6, <1>12
  <2> QED BY <1>4, <1>5, <1>9, <2>1 DEF Newest
<1>14. Alone(p)'
  <2>1. LastStart(n, Len(log) + 1)' /\ n \in Starts'
    BY <1>12 DEF LastStart
  <2>2. \A k \in n .. Len(log') :
          /\ log'[k].id = id /\ log'[k].user = q.user /\ log'[k].type = "START"
    BY <1>6, <1>12
  <2>3. ASSUME id % MaxUsers # 0, NEW k \in Starts', log'[k].id = id, NEW j \in k .. Len(log')
        PROVE  /\ log'[j].id = id => log'[j].type \notin Ended
               /\ log'[j].type = "INIT" => log'[j].user # q.user
    <3>1. CASE j = n
      BY <1>6, <1>12, <3>1 DEF Ended
    <3>2. CASE j # n
      <4>1. k \in Starts /\ j \in k .. Len(log) /\ log'[j] = log[j] /\ log'[k] = log[k]
        BY <1>12, <2>3, <3>2
      <4> QED BY <1>4, <2>3, <4>1
    <3> QED BY <3>1, <3>2
  <2> QED BY <1>5, <1>9, <2>1, <2>2, <2>3 DEF Alone, Inside
<1>15. Fine(p)'
  BY <1>9, <1>10, <1>11, <1>13, <1>14 DEF Fine
<1> QED BY <1>1, <1>6, <1>7, <1>8, <1>9, <1>15, AddingPlain

LEMMA LogWriteStep ==
  ASSUME IInv, NEW p \in Procs, LogWrite(p)
  PROVE  IInv'
<1> DEFINE q == proc[p]
           r == [q EXCEPT !.at = "write"]
           e == Entry(p, "WRITE")
<1>1. /\ proc' = [proc EXCEPT ![p] = r] /\ log' = Append(log, e) /\ CanWrite(p)
      /\ q.at = "open" /\ q.status = "active" /\ UNCHANGED <<exists, owner, data>>
  BY DEF LogWrite, Goto
<1>2. /\ e \in Entries /\ e.type = "WRITE" /\ Mine(p, e) /\ Fits(e)
      /\ e.user = q.user /\ e.id = q.id
  BY <1>1, EntryFits DEF Types, Within, Ended
<1>3. q \in Records /\ Staged(q) /\ Owning(p)
  BY DEF IInv, TypeOK
<1>4. /\ r \in Records /\ r.at = "write" /\ r.user = q.user /\ r.i = q.i
      /\ r.fileId = q.fileId /\ r.id = q.id /\ r.status = "active"
  BY <1>1, <1>3 DEF Records, Within
<1> HIDE DEF r, e
<1>5. /\ exists' \in BOOLEAN /\ owner' \in [Bytes -> Procs \cup {None}]
      /\ proc' \in [Procs -> Records] /\ proc'[p] = r /\ OwnBytes(p) /\ OnlyMoves(p)
  BY <1>1, <1>4 DEF IInv, TypeOK, OwnBytes, OnlyMoves
<1>6. Staged(r) /\ Owning(p)'
  BY <1>1, <1>3, <1>4, <1>5 DEF Staged, Owning, Opening, Leaving, Within
<1>7. Newest(p)'
  BY <1>1, <1>2, <1>3, <1>4, <1>5, NewestGrows DEF Staged, Within
<1>8. Alone(p)'
  BY <1>1, <1>2, <1>4, <1>5, AloneGrows
<1>9. e.type \notin Ended
  BY <1>2 DEF Ended
<1> QED BY <1>1, <1>2, <1>5, <1>6, <1>7, <1>8, <1>9, AddingPlain DEF Fine

LEMMA CommitOneStep ==
  ASSUME IInv, NEW p \in Procs, NEW rc \in {0, -1}, CommitOne(p, rc)
  PROVE  IInv'
<1> DEFINE q == proc[p]
           a == IF rc = 0 THEN "commit" ELSE "stuck"
           r == [q EXCEPT !.status = "partial", !.at = a]
           e == Entry(p, "COMMIT_PHASE_ONE")
<1>1. /\ proc' = [proc EXCEPT ![p] = r] /\ CanWrite(p)
      /\ log' = (IF rc = 0 THEN Append(log, e) ELSE log)
      /\ q.at = "open" /\ q.status = "active" /\ UNCHANGED <<exists, owner, data>>
  BY DEF CommitOne
<1>2. /\ e \in Entries /\ e.type = "COMMIT_PHASE_ONE" /\ Mine(p, e) /\ Fits(e)
      /\ e.user = q.user /\ e.id = q.id
  BY <1>1, EntryFits DEF Types, Within, Ended
<1>3. q \in Records /\ Staged(q) /\ Owning(p) /\ Newest(p) /\ Alone(p)
  BY DEF IInv, TypeOK
<1>4. /\ r \in Records /\ r.at = a /\ a \in {"commit", "stuck"} /\ r.user = q.user
      /\ r.fileId = q.fileId /\ r.id = q.id /\ r.status = "partial"
  <2>1. a \in {"commit", "stuck"}
    OBVIOUS
  <2> HIDE DEF a
  <2> QED BY <1>3, <2>1 DEF Records, Within
<1> HIDE DEF r, e, a
<1>5. /\ exists' \in BOOLEAN /\ owner' \in [Bytes -> Procs \cup {None}]
      /\ proc' \in [Procs -> Records] /\ proc'[p] = r /\ OwnBytes(p) /\ OnlyMoves(p)
  BY <1>1, <1>4 DEF IInv, TypeOK, OwnBytes, OnlyMoves
<1>6. Staged(r) /\ Owning(p)'
  BY <1>1, <1>3, <1>4, <1>5 DEF Staged, Owning, Opening, Leaving, Within
<1>7. CASE rc = 0
  <2>1. Newest(p)'
    BY <1>1, <1>2, <1>3, <1>4, <1>5, <1>7, NewestGrows DEF Staged, Within
  <2>2. Alone(p)'
    BY <1>1, <1>2, <1>4, <1>5, <1>7, AloneGrows
  <2>3. e.type \notin Ended
    BY <1>2 DEF Ended
  <2> QED BY <1>1, <1>2, <1>5, <1>6, <1>7, <2>1, <2>2, <2>3, AddingPlain DEF Fine
<1>8. CASE rc # 0
  <2>1. log' = log
    BY <1>1, <1>8
  <2>2. Newest(p)'
    BY <1>1, <1>3, <1>4, <1>5, <2>1 DEF Newest, Within
  <2>3. Alone(p)'
    <3>1. Starts' = Starts
      BY <2>1 DEF Starts
    <3>2. \A s : LastStart(s, Len(log) + 1)' <=> LastStart(s, Len(log) + 1)
      BY <2>1, <3>1 DEF LastStart
    <3> QED BY <1>1, <1>3, <1>4, <1>5, <2>1, <3>1, <3>2 DEF Alone
  <2>4. TypeOK'
    BY <1>1, <1>5, <2>1 DEF IInv, TypeOK
  <2> QED BY <1>1, <1>5, <1>6, <2>1, <2>2, <2>3, <2>4, Quiet DEF Fine
<1> QED BY <1>7, <1>8

(* The changes of the transaction that is open or stuck, from its START to *)
(* the end of the log, came after all that ended.                          *)
LEMMA OpenPart ==
  ASSUME IInv, NEW p \in Procs, proc[p].status # "inactive"
  PROVE  \E s \in Starts :
           /\ LastStart(s, Len(log) + 1) /\ s \in 1 .. Len(log)
           /\ \A t \in Starts : LastStart(t, Len(log) + 1) => t = s
           /\ \A k \in s .. Len(log) :
                /\ log[k].id = proc[p].id
                /\ log[k].type = "WRITE" =>
                     k \in data \/ (proc[p].at = "write" /\ k = Len(log))
           /\ log[s].type = "START"
           /\ \A k \in 1 .. Len(log) : log[k].type \in Ended => k < s
<1>1. Alone(p) /\ Starts \subseteq 1 .. Len(log) /\ Len(log) \in Nat
  BY DEF IInv, TypeOK, Starts
<1>2. PICK s \in Starts :
        /\ LastStart(s, Len(log) + 1)
        /\ \A k \in s .. Len(log) :
             /\ log[k].id = proc[p].id /\ log[k].user = proc[p].user /\ log[k].type \in Inside
             /\ log[k].type = "WRITE" =>
                  k \in data \/ (proc[p].at = "write" /\ k = Len(log))
  BY <1>1 DEF Alone
<1>3. \A t \in Starts : LastStart(t, Len(log) + 1) => t = s
  BY <1>1, <1>2 DEF LastStart
<1>4. \A k \in 1 .. Len(log) : log[k].type \in Ended => k < s
  <2>1. \A k \in s .. Len(log) : log[k].type \notin Ended
    BY <1>2 DEF Inside, Ended
  <2> QED BY <1>1, <2>1
<1>5. s \in 1 .. Len(log) /\ log[s].type = "START"
  BY DEF Starts
<1> QED BY <1>2, <1>3, <1>4, <1>5

LEMMA UndoneIs ==
  ASSUME IInv, NEW p \in Procs, proc[p].status # "inactive",
         NEW s \in Starts, LastStart(s, Len(log) + 1), log[s].id = proc[p].id,
         \A k \in s .. Len(log) : log[k].id = proc[p].id
  PROVE  Undone(p) = {k \in s .. Len(log) : log[k].type = "WRITE"}
<1> DEFINE I == {i \in 1 .. Len(log) : log[i].id = proc[p].id /\ log[i].type = "START"}
<1>1. s \in I /\ \A i \in I : i <= s
  BY DEF Starts, LastStart
<1>2. I \subseteq Nat
  BY DEF IInv, TypeOK
<1>3. Max(I) = s
  <2> HIDE DEF I
  <2>1. \A j \in I : (\A i \in I : j >= i) => j = s
    BY <1>1, <1>2
  <2>2. \A j \in I : s >= j
    BY <1>1, <1>2
  <2> QED BY <1>1, <2>1, <2>2 DEF Max
<1>4. I # {}
  BY <1>1
<1>5. SelectLastInSeq(log, LAMBDA e : e.id = proc[p].id /\ e.type = "START") = s
  BY <1>3, <1>4 DEF SelectLastInSeq
<1>6. Undone(p) = {k \in s .. Len(log) : log[k].id = proc[p].id /\ log[k].type = "WRITE"}
  BY <1>5 DEF Undone
<1> QED BY <1>6

(* The end of a transaction, with the entry that says so or without it.    *)
LEMMA EndFine ==
  ASSUME IInv, NEW p \in Procs, NEW next \in {"open", "undo"}, End(p, next),
         proc[p].at \in {"open", "commit"},
         \/ UNCHANGED log
         \/ \E e \in Entries : log' = Append(log, e) /\ e.id = proc[p].id,
         proc[p].status # "inactive"
  PROVE  /\ owner' \in [Bytes -> Procs \cup {None}] /\ proc' \in [Procs -> Records]
         /\ OwnBytes(p) /\ OnlyMoves(p) /\ Fine(p)'
<1> DEFINE q == proc[p]
           r == [q EXCEPT !.status = "inactive", !.id = 0, !.at = next]
<1>1. proc' = [proc EXCEPT ![p] = r]
      /\ owner' = [owner EXCEPT ![Multiple] = IF @ = p THEN None ELSE @]
  BY DEF End
<1>2. q \in Records /\ Staged(q) /\ Owning(p) /\ Newest(p)
  BY DEF IInv, TypeOK
<1>3. /\ r \in Records /\ r.at = next /\ r.user = q.user
      /\ r.fileId = q.fileId /\ r.id = 0 /\ r.status = "inactive"
  BY <1>2 DEF Records, Within
<1> HIDE DEF r
<1>4. /\ owner' \in [Bytes -> Procs \cup {None}] /\ proc' \in [Procs -> Records]
      /\ proc'[p] = r /\ OwnBytes(p) /\ OnlyMoves(p)
      /\ \A b \in Users : owner'[b] = owner[b]
  BY <1>1, <1>3, ByteFacts DEF IInv, TypeOK, OwnBytes, OnlyMoves
<1>5. Staged(r)
  BY <1>2, <1>3 DEF Staged, Opening, Leaving
<1>6. Owning(p)'
  <2>1. q.user \in Users /\ q.at \in Within
    BY <1>2 DEF Records, Within
  <2> QED BY <1>2, <1>3, <1>4, <2>1 DEF Owning
<1>7. Alone(p)'
  BY <1>3, <1>4 DEF Alone
<1>8. Newest(p)'
  <2>1. CASE UNCHANGED log
    BY <1>2, <1>3, <1>4, <2>1 DEF Newest, Within
  <2>2. CASE \E e \in Entries : log' = Append(log, e) /\ e.id = q.id
    <3>1. q.id = q.fileId /\ q.at \in Within
      BY <1>2 DEF Staged, Within
    <3> QED BY <1>3, <1>4, <2>2, <3>1, NewestGrows
  <2> QED BY <2>1, <2>2
<1> QED BY <1>4, <1>5, <1>6, <1>7, <1>8 DEF Fine

LEMMA CommitTwoStep ==
  ASSUME IInv, NEW p \in Procs, CommitTwo(p)
  PROVE  IInv'
<1> DEFINE q == proc[p]
           e == Entry(p, "COMMIT_PHASE_TWO")
<1>1. /\ log' = Append(log, e) /\ CanWrite(p) /\ q.at = "commit" /\ End(p, "open")
      /\ UNCHANGED <<exists, data>>
  BY DEF CommitTwo
<1>2. q.status # "inactive"
  BY <1>1 DEF IInv, Staged
<1>3. /\ e \in Entries /\ e.type = "COMMIT_PHASE_TWO" /\ Mine(p, e) /\ Fits(e) /\ e.id = q.id
  BY <1>1, <1>2, EntryFits DEF Types, Within, Ended
<1> HIDE DEF e
<1>4. /\ owner' \in [Bytes -> Procs \cup {None}] /\ proc' \in [Procs -> Records]
      /\ OwnBytes(p) /\ OnlyMoves(p) /\ Fine(p)'
  BY <1>1, <1>2, <1>3, EndFine
<1>5. TypeOK'
  BY <1>1, <1>3, <1>4, Longer DEF IInv, TypeOK
<1>6. OldStays
  BY <1>1 DEF OldStays
<1>7. ASSUME NEW s \in Starts, LastStart(s, Len(log) + 1)
      PROVE  Tells(e, {w \in s .. Len(log) : log[w].type = "WRITE"})
  <2>1. \A w \in s .. Len(log) : log[w].type = "WRITE" => w \in data
    BY <1>1, <1>2, <1>7, OpenPart
  <2> QED BY <1>1, <1>3, <2>1 DEF Tells
<1> QED BY <1>1, <1>3, <1>4, <1>5, <1>6, <1>7, Adding

LEMMA RollbackStep ==
  ASSUME IInv, NEW p \in Procs, NEW next \in {"open", "undo"}, Rollback(p, next)
  PROVE  IInv'
<1> DEFINE q == proc[p]
           e == Entry(p, "ROLLBACK")
<1>1. /\ CanWrite(p) /\ q.at = "open" /\ q.status = "active" /\ End(p, next)
      /\ UNCHANGED exists
  BY DEF Rollback
<1>2. PICK s \in Starts :
        /\ LastStart(s, Len(log) + 1) /\ s \in 1 .. Len(log)
        /\ \A t \in Starts : LastStart(t, Len(log) + 1) => t = s
        /\ \A k \in s .. Len(log) : log[k].id = proc[p].id
        /\ log[s].type = "START"
        /\ \A k \in 1 .. Len(log) : log[k].type \in Ended => k < s
  BY <1>1, OpenPart
<1>3. Len(log) \in Nat /\ data \in SUBSET (1 .. Len(log))
  BY DEF IInv, TypeOK
<1>4. log[s].id = proc[p].id
  BY <1>2, <1>3
<1>5. Undone(p) = {k \in s .. Len(log) : log[k].type = "WRITE"}
  BY <1>1, <1>2, <1>4, UndoneIs
<1>6. ASSUME NEW D \in SUBSET Undone(p), data' = data \ D
      PROVE  OldStays
  <2>1. \A k \in 1 .. Len(log) : log[k].type \in Ended => \A w \in 1 .. k : w \notin D
    BY <1>2, <1>3, <1>5
  <2> QED BY <1>6, <2>1 DEF OldStays
<1>7. CASE data' = data \ Undone(p) /\ log' = Append(log, e)
  <2>1. /\ e \in Entries /\ e.type = "ROLLBACK" /\ Mine(p, e) /\ Fits(e) /\ e.id = q.id
    BY <1>1, EntryFits DEF Types, Within, Ended
  <2> HIDE DEF e
  <2>2. /\ owner' \in [Bytes -> Procs \cup {None}] /\ proc' \in [Procs -> Records]
        /\ OwnBytes(p) /\ OnlyMoves(p) /\ Fine(p)'
    BY <1>1, <1>7, <2>1, EndFine
  <2>3. TypeOK'
    BY <1>1, <1>3, <1>7, <2>1, <2>2, Longer DEF IInv, TypeOK
  <2>4. OldStays
    BY <1>6, <1>7
  <2>5. ASSUME NEW t \in Starts, LastStart(t, Len(log) + 1)
        PROVE  Tells(e, {w \in t .. Len(log) : log[w].type = "WRITE"})
    <3>1. t = s
      BY <1>2, <2>5
    <3> QED BY <1>5, <1>7, <2>1, <3>1 DEF Tells
  <2> QED BY <1>1, <1>7, <2>1, <2>2, <2>3, <2>4, <2>5, Adding
<1>8. ASSUME NEW k \in Undone(p), data' = data \ {j \in Undone(p) : j > k}, UNCHANGED log
      PROVE  IInv'
  <2>1. /\ owner' \in [Bytes -> Procs \cup {None}] /\ proc' \in [Procs -> Records]
        /\ OwnBytes(p) /\ OnlyMoves(p) /\ Fine(p)'
    BY <1>1, <1>8, EndFine
  <2>2. TypeOK'
    BY <1>1, <1>3, <1>8, <2>1 DEF IInv, TypeOK
  <2>3. OldStays
    BY <1>6, <1>8
  <2> QED BY <1>1, <1>8, <2>1, <2>2, <2>3, Changing
<1> QED BY <1>7, <1>8 DEF Rollback

LEMMA WriteStep ==
  ASSUME IInv, NEW p \in Procs, Write(p)
  PROVE  IInv'
<1> DEFINE q == proc[p]
           r == [q EXCEPT !.at = "open"]
<1>1. /\ proc' = [proc EXCEPT ![p] = r] /\ data' = data \cup {Len(log)} /\ q.at = "write"
      /\ UNCHANGED <<log, exists, owner>>
  BY DEF Write, Goto
<1>2. q \in Records /\ Staged(q) /\ Owning(p) /\ Newest(p) /\ Alone(p)
  BY DEF IInv, TypeOK
<1>3. /\ r \in Records /\ r.at = "open" /\ r.user = q.user
      /\ r.fileId = q.fileId /\ r.id = q.id /\ r.status = q.status
  BY <1>2 DEF Records, Within
<1> HIDE DEF r
<1>4. q.status = "active" /\ CanWrite(p)
  BY <1>1, <1>2 DEF Staged, Owning, CanWrite
<1>5. PICK s \in Starts :
        /\ LastStart(s, Len(log) + 1) /\ s \in 1 .. Len(log)
        /\ \A k \in s .. Len(log) :
             /\ log[k].id = q.id /\ log[k].user = q.user /\ log[k].type \in Inside
             /\ log[k].type = "WRITE" => k \in data \/ k = Len(log)
  BY <1>2, <1>4 DEF Alone, Starts
<1>6. Len(log) \in Nat /\ Len(log) \in 1 .. Len(log)
  BY <1>5 DEF IInv, TypeOK
<1>7. log[Len(log)].type = "WRITE"
  BY <1>1, <1>2, <1>4 DEF Alone
<1>8. /\ TypeOK' /\ proc'[p] = r /\ OwnBytes(p) /\ OnlyMoves(p)
  BY <1>1, <1>3, <1>6 DEF IInv, TypeOK, OwnBytes, OnlyMoves
<1>9. OldStays
  <2>1. \A k \in 1 .. Len(log) : log[k].type \in Ended => k # Len(log)
    BY <1>7 DEF Ended
  <2> QED BY <1>1, <1>6, <2>1 DEF OldStays
<1>10. Staged(r) /\ Owning(p)' /\ Newest(p)'
  BY <1>1, <1>2, <1>3, <1>4, <1>8 DEF Staged, Owning, Newest, Opening, Leaving, Within
<1>11. Alone(p)'
  <2>1. \A k \in s .. Len(log) :
          /\ log[k].id = q.id /\ log[k].user = q.user /\ log[k].type \in Inside
          /\ log[k].type = "WRITE" => k \in data'
    BY <1>1, <1>5
  <2>2. LastStart(s, Len(log) + 1)' /\ s \in Starts' /\ Starts' = Starts
    BY <1>1, <1>5 DEF LastStart, Starts
  <2> QED BY <1>1, <1>2, <1>3, <1>4, <1>8, <2>1, <2>2 DEF Alone
<1> QED BY <1>1, <1>4, <1>8, <1>9, <1>10, <1>11, Changing DEF Fine

LEMMA InitUndoStep ==
  ASSUME IInv, NEW p \in Procs, InitUndo(p)
  PROVE  IInv'
<1> DEFINE q == proc[p]
           r == [q EXCEPT !.at = "leave"]
           e == Entry(p, "INIT_UNDO")
<1>1. /\ log' = Append(log, e) /\ CanWrite(p) /\ q.at = "undo" /\ UNCHANGED <<exists, data>>
      /\ q.status = "inactive" => proc' = [proc EXCEPT ![p] = r] /\ UNCHANGED owner
      /\ q.status # "inactive" => CloseFile(p)
  BY DEF InitUndo, Goto
<1>2. /\ e \in Entries /\ e.type = "INIT_UNDO" /\ Mine(p, e) /\ Fits(e)
      /\ q.status # "inactive" => e.id = q.id
  BY <1>1, EntryFits DEF Types, Within, Ended
<1>3. e.type \notin Ended /\ exists' \in BOOLEAN /\ (q.status = "inactive" => e.id = 0)
  <2>1. q.status = "inactive" => e.id = 0
    BY DEF Entry
  <2> HIDE DEF e
  <2> QED BY <1>1, <1>2, <2>1 DEF Ended, IInv, TypeOK
<1>4. q \in Records /\ Staged(q) /\ Owning(p)
  BY DEF IInv, TypeOK
<1>5. /\ r \in Records /\ r.at = "leave" /\ r.user = q.user
      /\ r.fileId = q.fileId /\ r.id = q.id /\ r.status = q.status
  BY <1>4 DEF Records, Within
<1> HIDE DEF r, e
<1>6. CASE q.status # "inactive"
  BY <1>1, <1>2, <1>3, <1>6, ClosingFine, AddingPlain
<1>7. CASE q.status = "inactive"
  <2>1. /\ owner' \in [Bytes -> Procs \cup {None}]
        /\ proc' \in [Procs -> Records] /\ proc'[p] = r /\ OwnBytes(p) /\ OnlyMoves(p)
    BY <1>1, <1>5, <1>7 DEF IInv, TypeOK, OwnBytes, OnlyMoves
  <2>2. Staged(r) /\ Owning(p)' /\ Alone(p)'
    BY <1>1, <1>4, <1>5, <1>7, <2>1
       DEF Staged, Owning, Alone, Opening, Leaving, Within
  <2>3. Newest(p)'
    BY <1>1, <1>2, <1>3, <1>5, <1>7, <2>1, NewestGrows DEF Within
  <2> QED BY <1>1, <1>2, <1>3, <2>1, <2>2, <2>3, AddingPlain DEF Fine
<1> QED BY <1>6, <1>7

LEMMA LeaveStep ==
  ASSUME IInv, NEW p \in Procs, Leave(p)
  PROVE  IInv'
<1> DEFINE q == proc[p]
           r == [q EXCEPT !.at = "last"]
<1>1. /\ proc' = [proc EXCEPT ![p] = r] /\ q.at = "leave" /\ UNCHANGED <<log, exists, data>>
      /\ owner' = [owner EXCEPT ![q.user] = IF @ = p THEN None ELSE @]
  BY DEF Leave, Goto
<1>2. q \in Records /\ Staged(q) /\ q.user \in Bytes
  BY ByteFacts DEF IInv, TypeOK, Records
<1>3. /\ r \in Records /\ r.at = "last" /\ r.user = q.user
      /\ r.fileId = q.fileId /\ r.id = q.id /\ r.status = "inactive"
  BY <1>1, <1>2 DEF Records, Leaving, Staged
<1> HIDE DEF r
<1>4. TypeOK' /\ proc'[p] = r /\ OwnBytes(p) /\ OnlyMoves(p)
  <2> HIDE DEF q
  <2> QED BY <1>1, <1>2, <1>3 DEF IInv, TypeOK, OwnBytes, OnlyMoves
<1>5. Staged(r) /\ Owning(p)' /\ Alone(p)' /\ Newest(p)'
  BY <1>1, <1>2, <1>3, <1>4 DEF Staged, Owning, Alone, Newest, Opening, Leaving, Within
<1> QED BY <1>1, <1>4, <1>5, Quiet DEF Fine

LEMMA LastUserStep ==
  ASSUME IInv, NEW p \in Procs, LastUser(p)
  PROVE  IInv'
<1> DEFINE q == proc[p]
           r == [q EXCEPT !.at = "shutdown"]
<1>1. q \in Records /\ Staged(q) /\ q.at = "last" /\ UNCHANGED <<log, exists, data>>
  BY DEF IInv, TypeOK, LastUser
<1>2. CASE \A b \in AllUsers : owner[b] = None
  <2>1. /\ owner' = [b \in Bytes |-> IF b \in AllUsers THEN p ELSE owner[b]]
        /\ proc' = [proc EXCEPT ![p] = r]
    BY <1>2 DEF LastUser, Goto
  <2>2. /\ r \in Records /\ r.at = "shutdown" /\ r.user = q.user
        /\ r.fileId = q.fileId /\ r.id = q.id /\ r.status = "inactive"
    BY <1>1 DEF Records, Leaving, Staged
  <2> HIDE DEF r
  <2>3. /\ TypeOK' /\ proc'[p] = r /\ OwnBytes(p) /\ OnlyMoves(p)
        /\ \A b \in AllUsers : owner'[b] = p
    BY <1>1, <1>2, <2>1, <2>2, ByteFacts DEF IInv, TypeOK, OwnBytes, OnlyMoves
  <2>4. Staged(r) /\ Owning(p)' /\ Alone(p)' /\ Newest(p)'
    BY <1>1, <2>2, <2>3 DEF Staged, Owning, Alone, Newest, Opening, Leaving, Within
  <2> QED BY <1>1, <2>3, <2>4, Quiet DEF Fine
<1>3. CASE ~\A b \in AllUsers : owner[b] = None
  <2>1. CloseFile(p)
    BY <1>3 DEF LastUser
  <2> QED BY <1>1, <2>1, ClosingFine, Quiet DEF TypeOK, IInv
<1> QED BY <1>2, <1>3

------------------------------------------------------------------------------
(* The log is true of the tables.                                          *)
LEMMA InitIInv == Init => IInv
<1> SUFFICES ASSUME Init PROVE IInv
  OBVIOUS
<1>1. log = <<>> /\ Len(log) = 0 /\ Starts = {} /\ data = {}
  BY DEF Init, Starts
<1>2. TypeOK
  <2>1. log \in Seq(Entries) /\ data \in SUBSET (1 .. Len(log)) /\ exists \in BOOLEAN
    <3>1. exists \in BOOLEAN
      BY DEF Init
    <3>2. log \in Seq(Entries)
      BY <1>1
    <3> QED BY <1>1, <3>1, <3>2
  <2>2. owner \in [Bytes -> Procs \cup {None}] /\ proc \in [Procs -> Records]
    BY ClosedFacts DEF Init
  <2> QED BY <2>1, <2>2 DEF TypeOK
<1>3. Ordered /\ Lasts /\ TransIdsUnique /\ LogTellsTheTables
  BY <1>1 DEF Ordered, Lasts, TransIdsUnique, LogTellsTheTables
<1>4. \A p \in Procs : Staged(proc[p]) /\ Owning(p) /\ Newest(p) /\ Alone(p)
  BY ClosedFacts DEF Init, Owning, Newest, Alone, Within
<1> QED BY <1>2, <1>3, <1>4 DEF IInv

LEMMA NextIInv == IInv /\ [Next]_vars => IInv'
<1> SUFFICES ASSUME IInv, [Next]_vars PROVE IInv'
  OBVIOUS
<1>1. CASE UNCHANGED vars
  <2>1. log' = log /\ exists' = exists /\ owner' = owner /\ proc' = proc /\ data' = data
    BY <1>1 DEF vars
  <2>2. TypeOK' /\ Ordered' /\ Lasts' /\ TransIdsUnique'
    BY <2>1, SameLog DEF IInv, TypeOK
  <2>3. LogTellsTheTables'
    BY <2>1, TellsKept DEF OldStays
  <2>4. ASSUME NEW p \in Procs
        PROVE  Staged(proc'[p]) /\ Owning(p)' /\ Newest(p)' /\ Alone(p)'
    BY <2>1 DEF IInv, Owning, Newest, Alone, Starts, LastStart
  <2> QED BY <2>2, <2>3, <2>4 DEF IInv
<1>2. ASSUME NEW p \in Procs, Continue(p) PROVE IInv'
  BY <1>2, InUseStep, ProbeStep, UnprobeStep, VerifyStep, CreateMarkStep, AddUserStep,
     InitEntryStep, WriteStep, CommitTwoStep, InitUndoStep, LeaveStep, LastUserStep,
     ShutdownStep DEF Continue
<1>3. ASSUME NEW p \in Procs,
             \/ CreateFile(p) \/ Open(p) \/ Note(p) \/ Start(p) \/ LogWrite(p)
             \/ \E rc \in {0, -1} : CommitOne(p, rc)
             \/ Rollback(p, "open") \/ BeginClose(p) \/ CloseActive(p)
             \/ Crash(p)
      PROVE  IInv'
  <2>1. CASE Rollback(p, "open") \/ CloseActive(p)
    BY <2>1, RollbackStep DEF CloseActive
  <2> QED BY <1>3, <2>1, CreateFileStep, OpenStep, NoteStep, StartStep, LogWriteStep,
             CommitOneStep, BeginCloseStep, CrashStep
<1> QED BY <1>1, <1>2, <1>3 DEF Next

(* The inductive invariant of the log.                                     *)
THEOREM LogInvariant == Spec => []IInv
BY InitIInv, NextIInv, PTL DEF Spec

(* Every variable keeps its type. *)
THEOREM LogTyped == Spec => []TypeOK
<1>1. IInv => TypeOK
  BY DEF IInv
<1> QED BY <1>1, LogInvariant, PTL

(* The log is true of the tables, the ids in it are unique and the open    *)
(* transaction is its end, for any number of processes and user numbers,   *)
(* whatever fails and whoever crashes.                                     *)
THEOREM LogStaysTrue == Spec => []LogIsTrue
<1>1. ASSUME IInv, NEW p \in Procs, proc[p].status = "active", proc[p].at # "closed",
             NEW k \in StartOf(Len(log) + 1) .. Len(log)
      PROVE  log[k].id = proc[p].id /\ log[k].user = proc[p].user
  <2>1. PICK s \in Starts :
          /\ LastStart(s, Len(log) + 1)
          /\ \A j \in s .. Len(log) : log[j].id = proc[p].id /\ log[j].user = proc[p].user
    BY <1>1 DEF IInv, Alone
  <2>2. StartOf(Len(log) + 1) = s
    BY <1>1, <2>1, StartIs DEF IInv, TypeOK
  <2> QED BY <1>1, <2>1, <2>2
<1>2. IInv => LogIsTrue
  BY <1>1 DEF IInv, LogIsTrue, OpenIsTheEnd
<1> QED BY <1>2, LogInvariant, PTL

(* Who marks the log as shut down has all the bytes the others would have  *)
(* their user numbers by.                                                  *)
THEOREM LastShutsDown == Spec => ShutdownIsByTheLast
<1> DEFINE Alright(p) == Shutdown(p) =>
             \A q \in Procs \ {p} : proc[q].user % MaxUsers = 0 \/ proc[q].at = "last"
<1>1. ASSUME IInv, NEW p \in Procs, Shutdown(p), NEW q \in Procs \ {p},
             proc[q].user % MaxUsers # 0, proc[q].at # "last"
      PROVE  FALSE
  <2>1. \A b \in AllUsers : owner[b] = p
    BY <1>1 DEF IInv, Owning, Shutdown
  <2>2. 0 % MaxUsers = 0 /\ MaxUsers % MaxUsers = 0
    BY ModSmall, LogAssumption DEF Users
  <2>3. Staged(proc[q]) /\ Owning(q) /\ proc[q] \in Records
    BY <1>1 DEF IInv, TypeOK
  <2>4. proc[q].user \in AllUsers /\ proc[q].user # 0
    BY <1>1, <2>2, <2>3, LogAssumption DEF Records, Users, AllUsers
  <2>5. proc[q].at \in Within \/ proc[q].at = "shutdown"
    BY <1>1, <2>3, <2>4 DEF Records, Staged, Leaving
  <2>6. owner[proc[q].user] = q
    BY <2>3, <2>4, <2>5 DEF Owning
  <2> QED BY <1>1, <2>1, <2>4, <2>6
<1>2. IInv /\ [Next]_vars => [\A p \in Procs : Alright(p)]_vars
  BY <1>1
<1>3. Spec => [][\A p \in Procs : Alright(p)]_vars
  BY <1>2, LogInvariant, PTL DEF Spec
<1> QED BY <1>3 DEF ShutdownIsByTheLast
=============================================================================
