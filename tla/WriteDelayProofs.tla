-------------------------- MODULE WriteDelayProofs --------------------------
(***************************************************************************)
(* For a file of any length and any number of writes: when nothing is      *)
(* queued and no call runs, the file has what the program wrote last       *)
(* (QuietStaysWritten), and the buffer that is filled next is not one that *)
(* a request still needs (BufferStaysFree).                                *)
(***************************************************************************)
EXTENDS WriteDelay, TLAPS

Values   == Nat \cup {Gone}
Requests == [lo : Nat, hi : Nat, buf : Bufs, flag : {"queued", "inUse", "finished"}]
Changing == {"write", "delay", "len"}

Calls ==
  [pc : {"idle", "enter", "list", "scan", "add", "await", "do"},
   op : Changing \cup {"none", "read", "flush"},
   lo : Nat \ {0}, hi : Nat, val : Nat, i : Nat \ {0}]
Threads ==
  [pc : {"rest", "write", "finish", "remove", "complete"}, req : Bufs \cup {None}]

TypeOK ==
  /\ disk \in [DiskBlocks -> Values] /\ wanted \in [DiskBlocks -> Values]
  /\ queue \in Seq(Requests)
  /\ data \in [Bufs -> Nat] /\ avail \in [Bufs -> BOOLEAN] /\ cur \in Bufs
  /\ fileCS \in {"main", None} /\ listCS \in {"main", None}
  /\ main \in Calls /\ writer \in Threads
  /\ lastWrite \in Nat /\ got \in BOOLEAN

(* Where the program's thread is in a call. *)
Staged ==
  /\ (main.op = "none") = (main.pc = "idle") /\ (main.pc = "idle" => main = Idle)
  /\ main.pc \in {"add", "await"} => main.op = "delay"
  /\ main.pc \in {"enter", "do"} => main.op # "delay"
  /\ main.pc \in {"enter", "list"} => main.i = 1
  /\ main.op = "len" => main.hi = LastBlock
  /\ main.pc = "scan" => listCS = "main"

(* What the program wrote that is neither queued nor in the file: the      *)
(* blocks of its call, until the call ends or has queued its request.      *)
Pending(b) == main.op \in Changing /\ main.pc # "await" /\ b \in main.lo .. main.hi

(* The new value of those blocks. *)
PendingIsWanted ==
  \A b \in DiskBlocks : Pending(b) => wanted[b] = IF main.op = "len" THEN Gone ELSE main.val

(* A request that is still to be written. *)
Live(i) == queue[i].flag # "finished" /\ ~(i = 1 /\ writer.pc = "finish")
Has(i, b) == b \in queue[i].lo .. queue[i].hi

(* A block is in the file, or in the buffers of all that are to write it.  *)
Written ==
  \A b \in DiskBlocks : ~Pending(b) =>
    /\ \A i \in DOMAIN queue : Live(i) /\ Has(i, b) => data[queue[i].buf] = wanted[b]
    /\ (\A i \in DOMAIN queue : Live(i) => ~Has(i, b)) => disk[b] = wanted[b]

(* A call that has gone through the queue leaves nothing in it, or behind  *)
(* it, that would be written over what it writes.                          *)
Cleared ==
  main.op \in Changing =>
    \A i \in DOMAIN queue :
      main.pc \in {"add", "do"} \/ (main.pc = "scan" /\ i < main.i) =>
        ~Overlap(queue[i], main.lo, main.hi) \/ queue[i].flag = "finished"

(* The write thread's request is the first, and only it is not "queued".   *)
Taken ==
  /\ writer.pc \in {"write", "finish", "remove"} =>
       /\ queue # <<>> /\ writer.req = queue[1].buf
       /\ queue[1].flag = IF writer.pc = "remove" THEN "finished" ELSE "inUse"
  /\ \A i \in DOMAIN queue :
       i > 1 \/ writer.pc \in {"rest", "complete"} => queue[i].flag = "queued"

(* A buffer is in use by one request, by the write thread that is about to *)
(* give it back, or by nobody.                                             *)
BuffersApart ==
  /\ \A i \in DOMAIN queue : ~avail[queue[i].buf]
  /\ \A i, j \in DOMAIN queue : i # j => queue[i].buf # queue[j].buf
  /\ writer.pc = "complete" =>
       /\ writer.req \in Bufs /\ ~avail[writer.req]
       /\ \A i \in DOMAIN queue : queue[i].buf # writer.req
  /\ main.pc # "await" => avail[cur]

IInv == TypeOK /\ Staged /\ PendingIsWanted /\ Written /\ Cleared /\ Taken /\ BuffersApart

------------------------------------------------------------------------------
LEMMA Elements ==
  ASSUME NEW q \in Seq(Requests)
  PROVE  \A i \in DOMAIN q :
           /\ q[i] \in Requests
           /\ q[i].buf \in Bufs /\ q[i].lo \in Nat /\ q[i].hi \in Nat
           /\ q[i].flag \in {"queued", "inUse", "finished"}
<1>1. \A i \in DOMAIN q : q[i] \in Requests
  OBVIOUS
<1> QED BY <1>1 DEF Requests

(* What is left of a queue when a request goes: the others, closer.        *)
LEMMA Removed ==
  ASSUME NEW q \in Seq(Requests), NEW n \in DOMAIN q
  PROVE  /\ RemoveAt(q, n) \in Seq(Requests) /\ Len(RemoveAt(q, n)) = Len(q) - 1
         /\ \A j \in 1 .. Len(q) - 1 : RemoveAt(q, n)[j] = IF j < n THEN q[j] ELSE q[j + 1]
<1> n \in 1 .. Len(q) /\ Len(q) \in Nat
  OBVIOUS
<1> DEFINE a == SubSeq(q, 1, n - 1)
           z == SubSeq(q, n + 1, Len(q))
<1>1. a \in Seq(Requests) /\ Len(a) = n - 1 /\ \A j \in 1 .. n - 1 : a[j] = q[j]
  OBVIOUS
<1>2. z \in Seq(Requests) /\ Len(z) = Len(q) - n /\ \A j \in 1 .. Len(q) - n : z[j] = q[j + n]
  OBVIOUS
<1>3. RemoveAt(q, n) = a \o z
  BY DEF RemoveAt
<1> HIDE DEF a, z
<1> QED BY <1>1, <1>2, <1>3


(* The initial state. *)
LEMMA InitIInv == DelayInit => IInv
<1> SUFFICES ASSUME DelayInit PROVE IInv
  OBVIOUS
<1>1. TypeOK
  BY DelayAssumption DEF DelayInit, TypeOK, Idle, Resting, Calls, Threads, Changing, Values, Bufs
<1>2. queue = <<>> /\ main = Idle /\ writer = Resting
  BY DEF DelayInit
<1>3. DOMAIN queue = {}
  BY <1>2
<1>4. Staged /\ PendingIsWanted /\ Cleared
  BY <1>2, <1>3 DEF Staged, PendingIsWanted, Cleared, Pending, Idle, Changing
<1>5. Written
  BY <1>3 DEF Written, DelayInit
<1>6. Taken /\ BuffersApart
  BY <1>2, <1>3 DEF Taken, BuffersApart, Resting, DelayInit, Bufs
<1> QED BY <1>1, <1>4, <1>5, <1>6 DEF IInv

------------------------------------------------------------------------------
(* What the program's thread does between the steps that change the queue, *)
(* the buffers or the file.                                                *)
InCall ==
  UNCHANGED <<disk, wanted, queue, data, avail, cur, writer>>

(* Within a call everything stays as it is, if what the call has cleared   *)
(* is clear.                                                               *)
LEMMA StillInCall ==
  ASSUME IInv, InCall, TypeOK', Staged', Cleared',
         main'.op = main.op, main'.lo = main.lo, main'.hi = main.hi, main'.val = main.val,
         main.pc # "await", main'.pc # "await"
  PROVE  IInv'
<1>1. \A b : Pending(b)' = Pending(b)
  BY DEF Pending
<1>2. \A i : Live(i)' = Live(i)
  BY DEF Live, InCall
<1>3. \A i, b : Has(i, b)' = Has(i, b)
  BY DEF Has, InCall
<1>4. PendingIsWanted'
  BY <1>1 DEF IInv, PendingIsWanted, InCall
<1>5. Written'
  BY <1>1, <1>2, <1>3 DEF IInv, Written, InCall
<1>6. Taken' /\ BuffersApart'
  BY DEF IInv, Taken, BuffersApart, InCall
<1> QED BY <1>4, <1>5, <1>6 DEF IInv

(* A call that ends has nothing pending and asks for nothing.              *)
LEMMA AtRest ==
  ASSUME main' = Idle
  PROVE  Staged' /\ PendingIsWanted' /\ Cleared' /\ main' \in Calls /\ \A b : ~Pending(b)'
BY DEF Idle, Staged, PendingIsWanted, Cleared, Pending, Changing, Calls

LEMMA EnterFileStep == ASSUME IInv, EnterFile PROVE IInv'
<1>1. TypeOK /\ Staged /\ main \in Calls
  BY DEF IInv, TypeOK
<1>2. main' = [main EXCEPT !.pc = IF queue = <<>> THEN "do" ELSE "list"] /\ main.pc = "enter"
  BY DEF EnterFile, Go
<1>3. TypeOK'
  BY <1>1, <1>2 DEF TypeOK, EnterFile, Calls
<1>4. Staged'
  BY <1>1, <1>2 DEF Staged, Calls, Idle
<1>5. Cleared'
  BY <1>1, <1>2 DEF Cleared, EnterFile, Calls
<1> QED BY <1>1, <1>2, <1>3, <1>4, <1>5, StillInCall DEF EnterFile, InCall, Calls

LEMMA EnterListStep == ASSUME IInv, EnterList PROVE IInv'
<1>1. TypeOK /\ Staged /\ main \in Calls
  BY DEF IInv, TypeOK
<1>2. PICK pc \in {"add", "do", "scan"} :
        /\ main' = [main EXCEPT !.pc = pc] /\ main.pc = "list"
        /\ pc = "scan" => listCS' = "main"
        /\ pc = "add" => main.op = "delay" /\ queue = <<>>
        /\ pc = "do" => main.op = "flush" /\ queue = <<>>
        /\ listCS' \in {"main", listCS}
  BY DEF EnterList, Go
<1>3. TypeOK'
  BY <1>1, <1>2 DEF TypeOK, EnterList, Calls
<1>4. Staged'
  BY <1>1, <1>2 DEF Staged, Calls, Idle
<1>5. Cleared'
  BY <1>1, <1>2 DEF Cleared, EnterList, Calls, Staged, TypeOK
<1> QED BY <1>1, <1>2, <1>3, <1>4, <1>5, StillInCall DEF EnterList, InCall, Calls

LEMMA PassStep == ASSUME IInv, Pass PROVE IInv'
<1>1. TypeOK /\ Staged /\ Cleared /\ main \in Calls
  BY DEF IInv, TypeOK
<1>2. main' = [main EXCEPT !.i = main.i + 1] /\ main.pc = "scan"
  BY DEF Pass
<1>3. TypeOK'
  <2>1. main.i + 1 \in Nat \ {0}
    BY <1>1 DEF Calls
  <2>2. main' \in Calls
    BY <1>1, <1>2, <2>1 DEF Calls
  <2> QED BY <1>1, <2>2 DEF TypeOK, Pass
<1>4. Staged'
  BY <1>1, <1>2 DEF Staged, Pass, Calls, Idle
<1>5. Cleared'
  <2> SUFFICES ASSUME main.op \in Changing, NEW i \in DOMAIN queue, i < main.i + 1
               PROVE  ~Overlap(queue[i], main.lo, main.hi) \/ queue[i].flag = "finished"
    BY <1>1, <1>2 DEF Cleared, Pass, Calls
  <2>1. CASE i = main.i
    BY <2>1 DEF Pass, Touched, At, Changing
  <2>2. CASE i < main.i
    BY <1>1, <1>2, <2>2 DEF Cleared
  <2> QED BY <1>1, <2>1, <2>2 DEF Calls, TypeOK
<1> QED BY <1>1, <1>2, <1>3, <1>4, <1>5, StillInCall DEF Pass, InCall, Calls

LEMMA LeaveListStep == ASSUME IInv, LeaveList PROVE IInv'
<1>1. TypeOK /\ Staged /\ Cleared /\ main \in Calls
  BY DEF IInv, TypeOK
<1>2. /\ main' = [main EXCEPT !.pc = IF main.op = "delay" THEN "add" ELSE "do"]
      /\ main.pc = "scan"
  BY DEF LeaveList, Go
<1>3. TypeOK'
  BY <1>1, <1>2 DEF TypeOK, LeaveList, Calls
<1>4. Staged'
  BY <1>1, <1>2 DEF Staged, LeaveList, Calls, Idle
<1>5. Cleared'
  <2>1. \A i \in DOMAIN queue : i < main.i
    BY <1>1 DEF LeaveList, TypeOK, Calls
  <2> QED BY <1>1, <1>2, <2>1 DEF Cleared, LeaveList, Calls
<1> QED BY <1>1, <1>2, <1>3, <1>4, <1>5, StillInCall DEF LeaveList, InCall, Calls

------------------------------------------------------------------------------
(* The steps of the program's thread that change the queue, the buffers or *)
(* the file.                                                               *)

(* The new request is the last, its buffer was free, and no other request  *)
(* has any of its blocks: those are now in its buffer.                     *)
LEMMA AddRequestStep == ASSUME IInv, AddRequest PROVE IInv'
<1> DEFINE r == [lo |-> main.lo, hi |-> main.hi, buf |-> cur, flag |-> "queued"]
<1>1. /\ TypeOK /\ Staged /\ PendingIsWanted /\ Written /\ Cleared /\ Taken /\ BuffersApart
      /\ main \in Calls /\ queue \in Seq(Requests)
  BY DEF IInv, TypeOK
<1>n. PICK n \in Nat : n = Len(queue) + 1
  BY <1>1
<1>2. /\ main' = [main EXCEPT !.pc = "await"] /\ main.pc = "add" /\ main.op = "delay"
      /\ main.op' = "delay" /\ main.pc' = "await"
  BY <1>1 DEF AddRequest, Go, Staged, Calls
<1>3. r \in Requests
  BY <1>1 DEF Requests, TypeOK, Calls
<1>4. /\ queue' = Append(queue, r) /\ queue' \in Seq(Requests) /\ DOMAIN queue' = 1 .. n
      /\ queue'[n] = r /\ \A i \in DOMAIN queue : i < n /\ i # n /\ queue'[i] = queue[i]
      /\ \A i \in DOMAIN queue' : i = n \/ i \in DOMAIN queue
  BY <1>1, <1>3, <1>n DEF AddRequest
<1>r. \A i \in DOMAIN queue :
        /\ queue[i].buf \in Bufs /\ queue[i].lo \in Nat /\ queue[i].hi \in Nat
        /\ queue[i].flag \in {"queued", "inUse", "finished"}
  BY <1>1, Elements
<1>5. TypeOK'
  BY <1>1, <1>2, <1>4 DEF TypeOK, AddRequest, Calls
<1>6. Staged'
  BY <1>1, <1>2 DEF Staged, Calls, Idle
<1>7. PendingIsWanted' /\ Cleared'
  BY <1>1, <1>2 DEF PendingIsWanted, Pending, Cleared, Calls
<1>8. BuffersApart'
  <2>1. avail[cur] /\ avail' = [avail EXCEPT ![cur] = FALSE]
    BY <1>1, <1>2 DEF BuffersApart, AddRequest
  <2>2. \A i \in DOMAIN queue : queue[i].buf \in Bufs /\ queue[i].buf # cur
    BY <1>1, <1>r, <2>1 DEF BuffersApart
  <2>3. \A i \in DOMAIN queue' : ~avail'[queue'[i].buf]
    BY <1>1, <1>4, <2>1, <2>2 DEF BuffersApart, TypeOK
  <2>4. \A i, j \in DOMAIN queue' : i # j => queue'[i].buf # queue'[j].buf
    BY <1>1, <1>4, <2>2 DEF BuffersApart
  <2>5. writer.pc = "complete" =>
          /\ writer.req \in Bufs /\ ~avail'[writer.req]
          /\ \A i \in DOMAIN queue' : queue'[i].buf # writer.req
    BY <1>1, <1>4, <2>1, <2>2 DEF BuffersApart, TypeOK
  <2> QED BY <1>2, <2>3, <2>4, <2>5 DEF BuffersApart, AddRequest
<1>9. Taken'
  BY <1>1, <1>4, <1>n DEF Taken, AddRequest
<1>10. Written'
  <2> SUFFICES ASSUME NEW b \in DiskBlocks
               PROVE  /\ \A i \in DOMAIN queue' : Live(i)' /\ Has(i, b)' =>
                             data'[queue'[i].buf] = wanted[b]
                      /\ (\A i \in DOMAIN queue' : Live(i)' => ~Has(i, b)') => disk[b] = wanted[b]
    BY DEF Written, AddRequest
  <2>1. \A i \in DOMAIN queue : (Live(i)' = Live(i)) /\ (Has(i, b)' = Has(i, b))
    BY <1>4 DEF Live, Has, AddRequest
  <2>2. \A i \in DOMAIN queue : data'[queue'[i].buf] = data[queue[i].buf]
    BY <1>1, <1>2, <1>4, <1>r DEF BuffersApart, AddRequest, TypeOK
  <2>3. data'[queue'[n].buf] = main.val /\ n \in DOMAIN queue'
    BY <1>1, <1>4, <1>n DEF AddRequest, TypeOK
  <2>4. Has(n, b)' = Pending(b)
    BY <1>1, <1>2, <1>4 DEF Has, Pending, Changing
  <2>5. Live(n)'
    <3>1. queue'[n].flag = "queued" /\ (n = 1 => queue = <<>>)
      BY <1>1, <1>4, <1>n
    <3>2. writer' = writer /\ (queue = <<>> => writer.pc # "finish")
      BY <1>1 DEF Taken, AddRequest
    <3> QED BY <3>1, <3>2 DEF Live
  <2>6. CASE Pending(b)
    <3>1. wanted[b] = main.val
      BY <1>1, <1>2, <2>6 DEF PendingIsWanted
    <3>2. \A i \in DOMAIN queue : ~(Live(i) /\ Has(i, b))
      BY DelayAssumption, <1>1, <1>2, <1>r, <2>6
      DEF DelayAssumption, Cleared, Pending, Has, Live, Overlap, Calls, DiskBlocks, Changing
    <3> QED BY <1>4, <2>1, <2>2, <2>3, <2>4, <2>5, <2>6, <3>1, <3>2
  <2>7. CASE ~Pending(b)
    <3>1. \A i \in DOMAIN queue : Live(i) /\ Has(i, b) => data[queue[i].buf] = wanted[b]
      BY <1>1, <2>7 DEF Written
    <3>2. (\A i \in DOMAIN queue : Live(i) => ~Has(i, b)) => disk[b] = wanted[b]
      BY <1>1, <2>7 DEF Written
    <3>3. DOMAIN queue \subseteq DOMAIN queue'
      BY <1>1, <1>4, <1>n
    <3> QED BY <1>4, <2>1, <2>2, <2>4, <2>7, <3>1, <3>2, <3>3
  <2> QED BY <2>6, <2>7
<1> QED BY <1>5, <1>6, <1>7, <1>8, <1>9, <1>10 DEF IInv

(* A request goes from the queue: the ones behind it move up.              *)
LEMMA Goes ==
  ASSUME IInv, NEW n \in DOMAIN queue, queue' = RemoveAt(queue, n), queue[n].flag = "queued",
         writer' = writer
  PROVE  /\ queue' \in Seq(Requests)
         /\ \A i \in DOMAIN queue' :
              LET j == IF i < n THEN i ELSE i + 1 IN
              /\ j \in DOMAIN queue /\ queue'[i] = queue[j] /\ j # n
              /\ Live(i)' = Live(j) /\ \A b : Has(i, b)' = Has(j, b)
         /\ \A j \in DOMAIN queue : j # n =>
              LET i == IF j < n THEN j ELSE j - 1 IN
              /\ i \in DOMAIN queue' /\ queue'[i] = queue[j]
              /\ Live(i)' = Live(j) /\ \A b : Has(i, b)' = Has(j, b)
         /\ writer.pc \in {"write", "finish", "remove"} =>
              n > 1 /\ queue' # <<>> /\ queue'[1] = queue[1]
<1>1. /\ queue \in Seq(Requests) /\ n \in 1 .. Len(queue) /\ Len(queue) \in Nat
      /\ DOMAIN queue = 1 .. Len(queue)
  BY DEF IInv, TypeOK
<1>2. /\ queue' \in Seq(Requests) /\ Len(queue') = Len(queue) - 1
      /\ \A j \in 1 .. Len(queue) - 1 : queue'[j] = IF j < n THEN queue[j] ELSE queue[j + 1]
  BY <1>1, Removed
<1>3. DOMAIN queue' = 1 .. Len(queue) - 1
  BY <1>2
<1>4. writer.pc \in {"write", "finish", "remove"} => n > 1
  BY <1>1 DEF IInv, Taken
<1>5. \A i \in DOMAIN queue' :
        LET j == IF i < n THEN i ELSE i + 1 IN
        /\ j \in DOMAIN queue /\ queue'[i] = queue[j] /\ j # n
        /\ Live(i)' = Live(j) /\ \A b : Has(i, b)' = Has(j, b)
  BY <1>1, <1>2, <1>3, <1>4 DEF Live, Has
<1>6. \A j \in DOMAIN queue : j # n =>
        LET i == IF j < n THEN j ELSE j - 1 IN
        /\ i \in DOMAIN queue' /\ queue'[i] = queue[j]
        /\ Live(i)' = Live(j) /\ \A b : Has(i, b)' = Has(j, b)
  BY <1>1, <1>2, <1>3, <1>4 DEF Live, Has
<1>7. writer.pc \in {"write", "finish", "remove"} => queue' # <<>> /\ queue'[1] = queue[1]
  BY <1>1, <1>2, <1>3, <1>4
<1> QED BY <1>2, <1>4, <1>5, <1>6, <1>7

(* The request that the cut of the file shortens is clear of it.           *)
LEMMA CutStep ==
  ASSUME IInv, Settle, main.op = "len", At.lo <= main.lo
  PROVE  IInv'
<1>1. /\ TypeOK /\ Staged /\ PendingIsWanted /\ Written /\ Cleared /\ Taken /\ BuffersApart
      /\ main \in Calls /\ main.pc = "scan" /\ queue \in Seq(Requests) /\ main.hi = LastBlock
      /\ At.flag = "queued" /\ queue' = CutRequest /\ main' = [main EXCEPT !.i = @ + 1]
      /\ UNCHANGED <<disk, avail, wanted, data, cur, fileCS, listCS, writer, lastWrite, got>>
  BY DEF IInv, TypeOK, Settle, Staged
<1>n. PICK n \in DOMAIN queue : n = main.i /\ At = queue[n] /\ n \in 1 .. Len(queue)
  BY <1>1 DEF Settle, At, Calls
<1>2. main.lo \in Nat /\ main.lo - 1 \in Nat /\ main.i + 1 \in Nat \ {0} /\ main.lo > 0
  BY <1>1 DEF Calls
<1>r. queue[n] \in Requests
  BY <1>1
<1>3. [queue[n] EXCEPT !.hi = main.lo - 1] \in Requests
  BY <1>2, <1>r DEF Requests
<1>4. /\ queue' \in Seq(Requests) /\ DOMAIN queue' = DOMAIN queue /\ queue' # <<>>
      /\ \A i \in DOMAIN queue :
           queue'[i] = IF i = n THEN [queue[n] EXCEPT !.hi = main.lo - 1] ELSE queue[i]
  BY <1>1, <1>n, <1>3 DEF CutRequest
<1>5. \A i \in DOMAIN queue :
        /\ queue'[i].lo = queue[i].lo /\ queue'[i].buf = queue[i].buf
        /\ queue'[i].flag = queue[i].flag
        /\ queue'[i].hi = IF i = n THEN main.lo - 1 ELSE queue[i].hi
  BY <1>r, <1>4 DEF Requests
<1>6. /\ main' \in Calls /\ main'.pc = "scan" /\ main'.op = "len" /\ main'.lo = main.lo
      /\ main'.hi = main.hi /\ main'.val = main.val /\ main'.i = n + 1
  BY <1>1, <1>2, <1>n DEF Calls
<1>7. TypeOK' /\ Staged'
  BY <1>1, <1>4, <1>6 DEF TypeOK, Staged
<1>8. \A b : Pending(b)' = Pending(b)
  BY <1>1, <1>6 DEF Pending
<1>9. PendingIsWanted'
  BY <1>1, <1>6, <1>8 DEF PendingIsWanted
<1>10. Written'
  <2> SUFFICES ASSUME NEW b \in DiskBlocks, ~Pending(b)
               PROVE  /\ \A i \in DOMAIN queue' : Live(i)' /\ Has(i, b)' =>
                             data[queue'[i].buf] = wanted[b]
                      /\ (\A i \in DOMAIN queue' : Live(i)' => ~Has(i, b)') => disk[b] = wanted[b]
    BY <1>1, <1>8 DEF Written
  <2>1. b < main.lo /\ b \in Nat
    BY DelayAssumption, <1>1, <1>2 DEF DelayAssumption, Pending, Changing, DiskBlocks
  <2>2. \A i \in DOMAIN queue : Live(i)' = Live(i)
    BY <1>1, <1>5 DEF Live
  <2>3. main.lo <= queue[n].hi /\ queue[n].hi \in Nat /\ queue[n].lo \in Nat
    BY <1>1, <1>n, <1>r DEF Settle, Touched, Overlap, Requests
  <2>4. \A i \in DOMAIN queue : Has(i, b)' = Has(i, b)
    <3> SUFFICES ASSUME NEW i \in DOMAIN queue PROVE Has(i, b)' = Has(i, b)
      OBVIOUS
    <3>1. CASE i = n
      <4>1. b \in queue[n].lo .. main.lo - 1 <=> b \in queue[n].lo .. queue[n].hi
        BY <1>2, <2>1, <2>3
      <4>2. queue'[n].lo = queue[n].lo /\ queue'[n].hi = main.lo - 1
        BY <1>5
      <4> QED BY <3>1, <4>1, <4>2 DEF Has
    <3>2. CASE i # n
      BY <1>4, <3>2 DEF Has
    <3> QED BY <3>1, <3>2
  <2> QED BY <1>1, <1>4, <1>5, <2>2, <2>4 DEF Written
<1>11. Cleared'
  <2> SUFFICES ASSUME NEW i \in DOMAIN queue, i < n + 1
               PROVE  ~Overlap(queue'[i], main.lo, main.hi) \/ queue'[i].flag = "finished"
    BY <1>4, <1>6 DEF Cleared
  <2>1. CASE i = n
    BY <1>2, <1>5, <2>1 DEF Overlap
  <2>2. CASE i < n
    BY <1>1, <1>5, <1>n, <2>2 DEF Cleared, Overlap, Changing
  <2> QED BY <1>1, <1>n, <2>1, <2>2
<1>12. Taken' /\ BuffersApart'
  BY <1>1, <1>4, <1>5, <1>6, <1>n DEF Taken, BuffersApart
<1> QED BY <1>7, <1>9, <1>10, <1>11, <1>12 DEF IInv

(* A request that is covered, or written ahead of its turn, goes.          *)
LEMMA SettleStep == ASSUME IInv, Settle PROVE IInv'
<1>1. /\ TypeOK /\ Staged /\ PendingIsWanted /\ Written /\ Cleared /\ Taken /\ BuffersApart
      /\ main \in Calls /\ main.pc = "scan" /\ main.op # "read" /\ queue \in Seq(Requests)
      /\ At.flag = "queued"
      /\ UNCHANGED <<wanted, data, cur, fileCS, listCS, writer, lastWrite, got>>
  BY DEF IInv, TypeOK, Settle
<1>n. PICK n \in DOMAIN queue : n = main.i /\ At = queue[n] /\ n \in 1 .. Len(queue)
  BY <1>1 DEF Settle, At, Calls
<1>2. CASE main.op = "len" /\ At.lo <= main.lo
  BY <1>2, CutStep
<1>3. CASE ~(main.op = "len" /\ At.lo <= main.lo)
  <2>1. /\ queue' = RemoveAt(queue, n) /\ avail' = [avail EXCEPT ![queue[n].buf] = TRUE]
        /\ main' = main
        /\ IF main.op # "flush" /\ Within(queue[n], main.lo, main.hi) THEN disk' = disk
           ELSE disk' = Fill(disk, queue[n].lo, queue[n].hi, data[queue[n].buf])
    BY <1>3, <1>n DEF Settle
  <2>2. /\ queue' \in Seq(Requests)
        /\ \A i \in DOMAIN queue' :
             LET j == IF i < n THEN i ELSE i + 1 IN
             /\ j \in DOMAIN queue /\ queue'[i] = queue[j] /\ j # n
             /\ Live(i)' = Live(j) /\ \A b : Has(i, b)' = Has(j, b)
        /\ \A j \in DOMAIN queue : j # n =>
             LET i == IF j < n THEN j ELSE j - 1 IN
             /\ i \in DOMAIN queue' /\ queue'[i] = queue[j]
             /\ Live(i)' = Live(j) /\ \A b : Has(i, b)' = Has(j, b)
        /\ writer.pc \in {"write", "finish", "remove"} =>
             n > 1 /\ queue' # <<>> /\ queue'[1] = queue[1]
    BY <1>1, <1>n, <2>1, Goes
  <2>3. /\ queue[n].buf \in Bufs /\ queue[n].lo \in Nat /\ queue[n].hi \in Nat
        /\ main.lo \in Nat /\ main.hi \in Nat
    BY <1>1, Elements DEF Calls
  <2>4. disk' \in [DiskBlocks -> Values]
    BY <1>1, <2>1, <2>3 DEF TypeOK, Fill, Values
  <2>5. TypeOK' /\ Staged' /\ PendingIsWanted' /\ \A b : Pending(b)' = Pending(b)
    BY <1>1, <2>1, <2>2, <2>4 DEF TypeOK, Staged, PendingIsWanted, Pending
  <2>6. Written'
    <3> SUFFICES ASSUME NEW b \in DiskBlocks, ~Pending(b)
                 PROVE  /\ \A i \in DOMAIN queue' : Live(i)' /\ Has(i, b)' =>
                               data[queue'[i].buf] = wanted[b]
                        /\ (\A i \in DOMAIN queue' : Live(i)' => ~Has(i, b)') => disk'[b] = wanted[b]
      BY <1>1, <2>5 DEF Written
    <3>1. \A i \in DOMAIN queue' : Live(i)' /\ Has(i, b)' => data[queue'[i].buf] = wanted[b]
      BY <1>1, <2>2 DEF Written
    <3>2. Live(n)
      BY <1>1, <1>n DEF Live, Taken
    <3>3. (\A i \in DOMAIN queue' : Live(i)' => ~Has(i, b)') =>
          \A j \in DOMAIN queue : j # n /\ Live(j) => ~Has(j, b)
      BY <2>2
    <3>4. CASE Has(n, b)
      <4>1. ~(main.op # "flush" /\ Within(queue[n], main.lo, main.hi))
        BY DelayAssumption, <1>1, <2>3, <3>4
        DEF DelayAssumption, Pending, Within, Has, Changing, Calls, Staged, DiskBlocks, Idle
      <4>2. disk'[b] = data[queue[n].buf]
        BY <1>1, <2>1, <3>4, <4>1 DEF Fill, Has
      <4> QED BY <1>1, <3>1, <3>2, <3>4, <4>2 DEF Written
    <3>5. CASE ~Has(n, b)
      <4>1. disk'[b] = disk[b]
        BY <1>1, <2>1, <3>5 DEF Fill, Has
      <4> QED BY <1>1, <3>1, <3>3, <3>5, <4>1 DEF Written
    <3> QED BY <3>4, <3>5
  <2>7. Cleared'
    <3> SUFFICES ASSUME main.op \in Changing, NEW i \in DOMAIN queue', i < n
                 PROVE  ~Overlap(queue'[i], main.lo, main.hi) \/ queue'[i].flag = "finished"
      BY <1>1, <1>n, <2>1 DEF Cleared
    <3>1. i \in DOMAIN queue /\ queue'[i] = queue[i]
      BY <2>2
    <3> QED BY <1>1, <1>n, <3>1 DEF Cleared
  <2>8. Taken'
    <3>1. ASSUME NEW i \in DOMAIN queue', i > 1 \/ writer.pc \in {"rest", "complete"}
          PROVE  queue'[i].flag = "queued"
      <4>1. PICK j \in DOMAIN queue : queue'[i] = queue[j] /\ (i > 1 => j > 1)
        BY <1>1, <2>2
      <4> QED BY <1>1, <3>1, <4>1 DEF Taken
    <3> QED BY <1>1, <2>2, <3>1 DEF Taken
  <2>9. BuffersApart'
    <3>1. \A i \in DOMAIN queue' : ~avail'[queue'[i].buf]
      BY <1>1, <2>1, <2>2, <2>3, Elements DEF BuffersApart, TypeOK
    <3>2. ASSUME NEW i \in DOMAIN queue', NEW j \in DOMAIN queue', i # j
          PROVE  queue'[i].buf # queue'[j].buf
      <4>1. PICK x \in DOMAIN queue : queue'[i] = queue[x] /\ x = IF i < n THEN i ELSE i + 1
        BY <2>2
      <4>2. PICK y \in DOMAIN queue : queue'[j] = queue[y] /\ y = IF j < n THEN j ELSE j + 1
        BY <2>2
      <4>3. x # y
        BY <1>n, <2>2, <3>2, <4>1, <4>2
      <4> QED BY <1>1, <4>1, <4>2, <4>3 DEF BuffersApart
    <3>3. writer.pc = "complete" =>
            /\ writer.req \in Bufs /\ ~avail'[writer.req]
            /\ \A i \in DOMAIN queue' : queue'[i].buf # writer.req
      <4> SUFFICES ASSUME writer.pc = "complete"
                   PROVE  /\ writer.req \in Bufs /\ ~avail'[writer.req]
                          /\ \A i \in DOMAIN queue' : queue'[i].buf # writer.req
        OBVIOUS
      <4>1. /\ writer.req \in Bufs /\ ~avail[writer.req]
            /\ \A i \in DOMAIN queue : queue[i].buf # writer.req
        BY <1>1 DEF BuffersApart
      <4>2. ~avail'[writer.req]
        BY <1>1, <2>1, <4>1 DEF TypeOK
      <4>3. \A i \in DOMAIN queue' : queue'[i].buf # writer.req
        BY <2>2, <4>1
      <4> QED BY <4>1, <4>2, <4>3
    <3>4. avail'[cur]
      BY <1>1, <2>1, <2>3 DEF BuffersApart, TypeOK
    <3> QED BY <1>1, <2>1, <3>1, <3>2, <3>3, <3>4 DEF BuffersApart
  <2> QED BY <2>5, <2>6, <2>7, <2>8, <2>9 DEF IInv
<1> QED BY <1>2, <1>3

LEMMA AwaitStep == ASSUME IInv, Await PROVE IInv'
<1>1. /\ TypeOK /\ Written /\ Taken /\ BuffersApart
      /\ main' = Idle /\ main.pc = "await" /\ cur' = OtherBuffer(cur) /\ avail[OtherBuffer(cur)]
      /\ UNCHANGED <<disk, wanted, queue, data, avail, fileCS, listCS, writer, lastWrite, got>>
  BY DEF IInv, Await
<1>2. Staged' /\ PendingIsWanted' /\ Cleared' /\ main' \in Calls
  BY <1>1, AtRest
<1>3. TypeOK'
  BY <1>1, <1>2 DEF TypeOK, OtherBuffer, Bufs
<1>4. Written'
  <2>1. \A b : ~Pending(b)
    BY <1>1 DEF Pending
  <2>2. \A i, b : (Live(i)' = Live(i)) /\ (Has(i, b)' = Has(i, b))
    BY <1>1 DEF Live, Has
  <2> QED BY <1>1, <2>1, <2>2 DEF Written
<1>5. Taken' /\ BuffersApart'
  BY <1>1 DEF Taken, BuffersApart
<1> QED BY <1>2, <1>3, <1>4, <1>5 DEF IInv

(* What is written now is in no request that is still to be written.       *)
LEMMA DoStep == ASSUME IInv, Do PROVE IInv'
<1>1. /\ TypeOK /\ Staged /\ PendingIsWanted /\ Written /\ Cleared /\ Taken /\ BuffersApart
      /\ main' = Idle /\ main.pc = "do" /\ main.op # "delay" /\ main \in Calls
      /\ UNCHANGED <<wanted, queue, data, avail, cur, listCS, writer, lastWrite, got>>
      /\ queue \in Seq(Requests)
  BY DEF IInv, Do, Staged, TypeOK
<1>2. Staged' /\ PendingIsWanted' /\ Cleared' /\ main' \in Calls
  BY <1>1, AtRest
<1>3. /\ disk' \in [DiskBlocks -> Values]
      /\ \A b \in DiskBlocks : disk'[b] = IF Pending(b) THEN wanted[b] ELSE disk[b]
  BY <1>1 DEF Do, Fill, Pending, PendingIsWanted, Staged, TypeOK, Calls, Changing, Values
<1>4. TypeOK'
  BY <1>1, <1>2, <1>3 DEF TypeOK, Do
<1>5. Written'
  <2> SUFFICES ASSUME NEW b \in DiskBlocks
               PROVE  /\ \A i \in DOMAIN queue : Live(i) /\ Has(i, b) =>
                             data[queue[i].buf] = wanted[b]
                      /\ (\A i \in DOMAIN queue : Live(i) => ~Has(i, b)) => disk'[b] = wanted[b]
    BY <1>1 DEF Written, Live, Has
  <2>1. CASE Pending(b)
    <3>1. \A i \in DOMAIN queue : ~(Live(i) /\ Has(i, b))
      BY DelayAssumption, <1>1, <2>1, Elements
      DEF DelayAssumption, Cleared, Pending, Has, Live, Overlap, Calls, DiskBlocks, Changing
    <3> QED BY <1>3, <2>1, <3>1
  <2>2. CASE ~Pending(b)
    BY <1>1, <1>3, <2>2 DEF Written
  <2> QED BY <2>1, <2>2
<1>6. Taken' /\ BuffersApart'
  BY <1>1 DEF Taken, BuffersApart, Idle
<1> QED BY <1>2, <1>4, <1>5, <1>6 DEF IInv

LEMMA DoReadStep == ASSUME IInv, DoRead PROVE IInv'
<1>1. /\ TypeOK /\ Staged /\ Written /\ Taken /\ BuffersApart
      /\ main' = Idle /\ main.op = "read"
      /\ UNCHANGED <<disk, wanted, queue, data, avail, cur, writer, lastWrite>>
  BY DEF IInv, DoRead
<1>2. Staged' /\ PendingIsWanted' /\ Cleared' /\ main' \in Calls
  BY <1>1, AtRest
<1>3. TypeOK'
  BY <1>1, <1>2 DEF TypeOK, DoRead
<1>4. Written'
  <2>1. \A b : ~Pending(b)
    BY <1>1 DEF Pending, Changing
  <2>2. \A i, b : (Live(i)' = Live(i)) /\ (Has(i, b)' = Has(i, b))
    BY <1>1 DEF Live, Has
  <2> QED BY <1>1, <2>1, <2>2 DEF Written
<1>5. Taken' /\ BuffersApart'
  BY <1>1 DEF Taken, BuffersApart, Staged
<1> QED BY <1>2, <1>3, <1>4, <1>5 DEF IInv

------------------------------------------------------------------------------
(* The write thread.                                                       *)
Beside == UNCHANGED <<wanted, data, cur, fileCS, listCS, main, lastWrite, got>>

(* It changes nothing of the program's call.                               *)
LEMMA CallStays ==
  ASSUME Beside
  PROVE  /\ Staged => Staged'
         /\ PendingIsWanted => PendingIsWanted'
         /\ \A b : Pending(b)' = Pending(b)
BY DEF Beside, Staged, PendingIsWanted, Pending

(* The flag of the first request is set.                                   *)
LEMMA FlagSet ==
  ASSUME NEW f \in {"queued", "inUse", "finished"}, queue \in Seq(Requests), queue # <<>>,
         queue' = [queue EXCEPT ![1].flag = f]
  PROVE  /\ queue' \in Seq(Requests) /\ DOMAIN queue' = DOMAIN queue /\ queue' # <<>>
         /\ 1 \in DOMAIN queue /\ queue'[1].flag = f
         /\ \A i \in DOMAIN queue :
              /\ i # 1 => queue'[i] = queue[i]
              /\ queue'[i].lo = queue[i].lo /\ queue'[i].hi = queue[i].hi
              /\ queue'[i].buf = queue[i].buf
<1>1. 1 \in DOMAIN queue /\ DOMAIN queue = 1 .. Len(queue) /\ Len(queue) \in Nat
  OBVIOUS
<1>2. queue[1] \in Requests
  BY <1>1
<1>3. [queue[1] EXCEPT !.flag = f] \in Requests
  BY <1>2 DEF Requests
<1>4. queue' = [queue EXCEPT ![1] = [queue[1] EXCEPT !.flag = f]]
  OBVIOUS
<1>5. queue' \in Seq(Requests) /\ DOMAIN queue' = DOMAIN queue /\ queue' # <<>>
  BY <1>1, <1>3, <1>4
<1>6. \A i \in DOMAIN queue : queue'[i] = IF i = 1 THEN [queue[1] EXCEPT !.flag = f] ELSE queue[i]
  BY <1>1, <1>4
<1> QED BY <1>1, <1>2, <1>5, <1>6 DEF Requests

LEMMA TakeStep == ASSUME IInv, Take PROVE IInv'
<1>1. /\ TypeOK /\ Staged /\ PendingIsWanted /\ Written /\ Cleared /\ Taken /\ BuffersApart
      /\ writer.pc = "rest" /\ writer' = [pc |-> "write", req |-> queue[1].buf]
      /\ queue # <<>> /\ queue \in Seq(Requests) /\ queue' = [queue EXCEPT ![1].flag = "inUse"]
      /\ Beside /\ UNCHANGED <<disk, avail>>
  BY DEF IInv, TypeOK, Take, Beside
<1>2. /\ queue' \in Seq(Requests) /\ DOMAIN queue' = DOMAIN queue /\ queue' # <<>>
      /\ 1 \in DOMAIN queue /\ queue'[1].flag = "inUse"
      /\ \A i \in DOMAIN queue :
            /\ i # 1 => queue'[i] = queue[i]
            /\ queue'[i].lo = queue[i].lo /\ queue'[i].hi = queue[i].hi
            /\ queue'[i].buf = queue[i].buf
  BY <1>1, FlagSet
<1>3. Staged' /\ PendingIsWanted' /\ \A b : Pending(b)' = Pending(b)
  BY <1>1, CallStays
<1>4. \A i \in DOMAIN queue : queue[i].flag = "queued"
  BY <1>1 DEF Taken
<1>5. TypeOK'
  BY <1>1, <1>2, Elements DEF TypeOK, Beside, Threads
<1>6. Written'
  <2>1. \A i \in DOMAIN queue : (Live(i)' = Live(i)) /\ \A b : Has(i, b)' = Has(i, b)
    BY <1>1, <1>2, <1>4 DEF Live, Has
  <2> QED BY <1>1, <1>2, <1>3, <2>1 DEF Written, Beside
<1>7. Cleared'
  BY <1>1, <1>2, <1>4 DEF Cleared, Overlap, Beside
<1>8. Taken'
  <2>1. writer'.pc = "write" /\ writer'.req = queue'[1].buf
    BY <1>1, <1>2
  <2> QED BY <1>2, <1>4, <2>1 DEF Taken
<1>9. BuffersApart'
  BY <1>1, <1>2 DEF BuffersApart, Beside
<1> QED BY <1>3, <1>5, <1>6, <1>7, <1>8, <1>9 DEF IInv

(* The request is in the file; it counts as written from here.             *)
LEMMA WriteItStep == ASSUME IInv, WriteIt PROVE IInv'
<1>1. /\ TypeOK /\ Staged /\ PendingIsWanted /\ Written /\ Cleared /\ Taken /\ BuffersApart
      /\ writer.pc = "write" /\ writer' = [writer EXCEPT !.pc = "finish"]
      /\ disk' = Fill(disk, queue[1].lo, queue[1].hi, data[queue[1].buf])
      /\ queue # <<>> /\ queue \in Seq(Requests) /\ writer \in Threads
      /\ Beside /\ UNCHANGED <<queue, avail>>
  BY DEF IInv, TypeOK, WriteIt, Beside, Taken
<1>2. Staged' /\ PendingIsWanted' /\ \A b : Pending(b)' = Pending(b)
  BY <1>1, CallStays
<1>3. 1 \in DOMAIN queue /\ queue[1].buf \in Bufs /\ queue[1].flag = "inUse"
  BY <1>1, Elements DEF Taken
<1>4. /\ disk' \in [DiskBlocks -> Values]
      /\ \A b \in DiskBlocks : disk'[b] = IF Has(1, b) THEN data[queue[1].buf] ELSE disk[b]
  BY <1>1, <1>3 DEF TypeOK, Fill, Has, Values
<1>5. TypeOK'
  BY <1>1, <1>4 DEF TypeOK, Beside, Threads
<1>6. Written'
  <2>1. \A i \in DOMAIN queue : (Live(i)' = (Live(i) /\ i # 1)) /\ \A b : Has(i, b)' = Has(i, b)
    BY <1>1 DEF Live, Has, Threads
  <2>2. Live(1)
    BY <1>1, <1>3 DEF Live
  <2> QED BY <1>1, <1>2, <1>3, <1>4, <2>1, <2>2 DEF Written, Beside
<1>7. Cleared' /\ Taken' /\ BuffersApart'
  BY <1>1 DEF Cleared, Taken, BuffersApart, Beside, Threads
<1> QED BY <1>2, <1>5, <1>6, <1>7 DEF IInv

LEMMA FinishStep == ASSUME IInv, Finish PROVE IInv'
<1>1. /\ TypeOK /\ Staged /\ PendingIsWanted /\ Written /\ Cleared /\ Taken /\ BuffersApart
      /\ writer.pc = "finish" /\ writer' = [writer EXCEPT !.pc = "remove"] /\ writer \in Threads
      /\ queue # <<>> /\ queue \in Seq(Requests) /\ queue' = [queue EXCEPT ![1].flag = "finished"]
      /\ Beside /\ UNCHANGED <<disk, avail>>
  BY DEF IInv, TypeOK, Finish, Beside, Taken
<1>2. /\ queue' \in Seq(Requests) /\ DOMAIN queue' = DOMAIN queue /\ queue' # <<>>
      /\ 1 \in DOMAIN queue /\ queue'[1].flag = "finished"
      /\ \A i \in DOMAIN queue :
            /\ i # 1 => queue'[i] = queue[i]
            /\ queue'[i].lo = queue[i].lo /\ queue'[i].hi = queue[i].hi
            /\ queue'[i].buf = queue[i].buf
  BY <1>1, FlagSet
<1>3. Staged' /\ PendingIsWanted' /\ \A b : Pending(b)' = Pending(b)
  BY <1>1, CallStays
<1>4. writer'.pc = "remove" /\ writer'.req = writer.req /\ writer' \in Threads
  BY <1>1 DEF Threads
<1>5. TypeOK'
  BY <1>1, <1>2, <1>4 DEF TypeOK, Beside
<1>6. Written'
  <2>1. \A i \in DOMAIN queue : (Live(i)' = Live(i)) /\ \A b : Has(i, b)' = Has(i, b)
    BY <1>1, <1>2, <1>4 DEF Live, Has
  <2> QED BY <1>1, <1>2, <1>3, <2>1 DEF Written, Beside
<1>7. Cleared'
  BY <1>1, <1>2 DEF Cleared, Overlap, Beside
<1>8. Taken'
  BY <1>1, <1>2, <1>4 DEF Taken
<1>9. BuffersApart'
  BY <1>1, <1>2, <1>4 DEF BuffersApart, Beside
<1> QED BY <1>3, <1>5, <1>6, <1>7, <1>8, <1>9 DEF IInv

LEMMA UnqueueStep == ASSUME IInv, Unqueue PROVE IInv'
<1>1. /\ TypeOK /\ Staged /\ PendingIsWanted /\ Written /\ Cleared /\ Taken /\ BuffersApart
      /\ writer.pc = "remove" /\ writer' = [writer EXCEPT !.pc = "complete"] /\ writer \in Threads
      /\ queue # <<>> /\ queue \in Seq(Requests) /\ queue' = Tail(queue) /\ listCS = None
      /\ Beside /\ UNCHANGED <<disk, avail>>
  BY DEF IInv, TypeOK, Unqueue, Beside, Taken, Enter
<1>2. /\ queue' \in Seq(Requests) /\ DOMAIN queue' = 1 .. Len(queue) - 1
      /\ 1 \in DOMAIN queue /\ DOMAIN queue = 1 .. Len(queue) /\ Len(queue) \in Nat
      /\ \A i \in DOMAIN queue' : i + 1 \in DOMAIN queue /\ queue'[i] = queue[i + 1]
      /\ \A j \in DOMAIN queue : j # 1 => j - 1 \in DOMAIN queue' /\ queue'[j - 1] = queue[j]
  BY <1>1
<1>3. Staged' /\ PendingIsWanted' /\ \A b : Pending(b)' = Pending(b)
  BY <1>1, CallStays
<1>4. writer'.pc = "complete" /\ writer'.req = writer.req /\ writer' \in Threads
  BY <1>1 DEF Threads
<1>5. queue[1].flag = "finished" /\ writer.req = queue[1].buf /\ queue[1].buf \in Bufs
  BY <1>1, <1>2, Elements DEF Taken
<1>6. TypeOK'
  BY <1>1, <1>2, <1>4 DEF TypeOK, Beside
<1>7. Written'
  <2>1. \A i \in DOMAIN queue' :
          /\ Live(i)' = Live(i + 1) /\ i + 1 \in DOMAIN queue
          /\ \A b : Has(i, b)' = Has(i + 1, b)
    BY <1>1, <1>2, <1>4 DEF Live, Has
  <2>2. \A j \in DOMAIN queue : Live(j) =>
          /\ j - 1 \in DOMAIN queue' /\ Live(j - 1)'
          /\ \A b : Has(j - 1, b)' = Has(j, b)
    BY <1>1, <1>2, <1>4, <1>5 DEF Live, Has
  <2> QED BY <1>1, <1>2, <1>3, <2>1, <2>2 DEF Written, Beside
<1>8. Cleared'
  <2>1. main' = main /\ main.pc # "scan"
    BY DelayAssumption, <1>1 DEF DelayAssumption, Staged, Beside
  <2> QED BY <1>1, <1>2, <2>1 DEF Cleared
<1>9. Taken'
  BY <1>1, <1>2, <1>4 DEF Taken
<1>10. BuffersApart'
  <2>1. \A i \in DOMAIN queue' : ~avail[queue'[i].buf] /\ queue'[i].buf # writer.req
    BY <1>1, <1>2, <1>5 DEF BuffersApart
  <2>2. \A i, j \in DOMAIN queue' : i # j => queue'[i].buf # queue'[j].buf
    BY <1>1, <1>2 DEF BuffersApart
  <2>3. writer.req \in Bufs /\ ~avail[writer.req]
    BY <1>1, <1>2, <1>5 DEF BuffersApart
  <2> QED BY <1>1, <1>4, <2>1, <2>2, <2>3 DEF BuffersApart, Beside
<1> QED BY <1>3, <1>6, <1>7, <1>8, <1>9, <1>10 DEF IInv

LEMMA CompleteStep == ASSUME IInv, Complete PROVE IInv'
<1>1. /\ TypeOK /\ Staged /\ PendingIsWanted /\ Written /\ Cleared /\ Taken /\ BuffersApart
      /\ writer.pc = "complete" /\ writer' = Resting
      /\ avail' = [avail EXCEPT ![writer.req] = TRUE]
      /\ Beside /\ UNCHANGED <<disk, queue>>
  BY DEF IInv, Complete, Beside
<1>2. Staged' /\ PendingIsWanted' /\ \A b : Pending(b)' = Pending(b)
  BY <1>1, CallStays
<1>3. TypeOK'
  BY <1>1 DEF TypeOK, Beside, Threads, Resting
<1>4. Written'
  <2>1. \A i, b : (Live(i)' = Live(i)) /\ (Has(i, b)' = Has(i, b))
    BY <1>1 DEF Live, Has, Resting
  <2> QED BY <1>1, <1>2, <2>1 DEF Written, Beside
<1>5. Cleared' /\ Taken'
  BY <1>1 DEF Cleared, Taken, Beside, Resting
<1>6. BuffersApart'
  BY <1>1, Elements DEF BuffersApart, Beside, Resting, TypeOK
<1> QED BY <1>2, <1>3, <1>4, <1>5, <1>6 DEF IInv

------------------------------------------------------------------------------
(* A call begins: what it writes is wanted, and pending.                   *)
LEMMA BeginStep ==
  ASSUME IInv, NEW op \in Changing \cup {"read", "flush"}, NEW pc \in {"enter", "list"},
         NEW lo \in Nat \ {0}, NEW hi \in Nat, Call(op, pc, lo, hi),
         op = "delay" => pc = "list", op = "len" => hi = LastBlock, lastWrite' \in Nat,
         IF op \in Changing
         THEN wanted' = Fill(wanted, lo, hi, IF op = "len" THEN Gone ELSE lastWrite + 1)
         ELSE wanted' = wanted
  PROVE  IInv'
<1>1. /\ TypeOK /\ Staged /\ PendingIsWanted /\ Written /\ Cleared /\ Taken /\ BuffersApart
      /\ main = Idle /\ lastWrite + 1 \in Nat
      /\ UNCHANGED <<disk, queue, data, avail, cur, fileCS, listCS, writer, got>>
  BY DEF IInv, Call, TypeOK
<1>2. main' = [pc |-> pc, op |-> op, lo |-> lo, hi |-> hi, val |-> lastWrite + 1, i |-> 1]
  BY DEF Call
<1>3. main' \in Calls
  BY <1>1, <1>2 DEF Calls
<1>4. /\ wanted' \in [DiskBlocks -> Values]
      /\ \A b \in DiskBlocks : wanted'[b] = IF op \in Changing /\ b \in lo .. hi
                                     THEN IF op = "len" THEN Gone ELSE lastWrite + 1
                                     ELSE wanted[b]
  BY <1>1 DEF TypeOK, Fill, Values
<1>5. TypeOK' /\ Staged'
  BY <1>1, <1>2, <1>3, <1>4 DEF TypeOK, Staged, Changing
<1>6. \A b : ~Pending(b) /\ Pending(b)' = (op \in Changing /\ b \in lo .. hi)
  BY <1>1, <1>2 DEF Pending, Idle, Changing
<1>7. PendingIsWanted' /\ Cleared'
  BY <1>2, <1>4, <1>6 DEF PendingIsWanted, Cleared
<1>8. Written'
  <2>1. \A i, b : (Live(i)' = Live(i)) /\ (Has(i, b)' = Has(i, b))
    BY <1>1 DEF Live, Has
  <2> QED BY <1>1, <1>4, <1>6, <2>1 DEF Written
<1>9. Taken' /\ BuffersApart'
  BY <1>1, <1>2 DEF Taken, BuffersApart, Idle
<1> QED BY <1>5, <1>7, <1>8, <1>9 DEF IInv

(* Every step keeps the invariant.                                         *)
LEMMA NextIInv == IInv /\ [DelayNext]_delayVars => IInv'
<1> SUFFICES ASSUME IInv, [DelayNext]_delayVars PROVE IInv'
  OBVIOUS
<1>0. LastBlock \in Nat /\ lastWrite \in Nat /\ \A b \in DiskBlocks : b \in Nat \ {0}
  BY DelayAssumption DEF DelayAssumption, IInv, TypeOK, DiskBlocks
<1>1. CASE Main
  BY <1>1, EnterFileStep, EnterListStep, PassStep, SettleStep, LeaveListStep, AddRequestStep,
     AwaitStep, DoStep, DoReadStep DEF Main
<1>2. CASE Thread
  BY <1>2, TakeStep, WriteItStep, FinishStep, UnqueueStep, CompleteStep DEF Thread
<1>3. CASE FlushQueue
  BY <1>0, <1>3, BeginStep DEF FlushQueue, Changing
<1>4. ASSUME NEW lo \in DiskBlocks, NEW hi \in DiskBlocks, WriteBlocks(lo, hi)
      PROVE  IInv'
  <2>1. Call("write", "enter", lo, hi) /\ wanted' = Fill(wanted, lo, hi, lastWrite + 1) /\ lastWrite' \in Nat
    BY <1>0, <1>4 DEF WriteBlocks, Counted
  <2> QED BY <1>0, <2>1, BeginStep DEF Changing
<1>5. ASSUME NEW lo \in DiskBlocks, NEW hi \in DiskBlocks, Delay(lo, hi)
      PROVE  IInv'
  <2>1. Call("delay", "list", lo, hi) /\ wanted' = Fill(wanted, lo, hi, lastWrite + 1) /\ lastWrite' \in Nat
    BY <1>0, <1>5 DEF Delay, Counted
  <2> QED BY <1>0, <2>1, BeginStep DEF Changing
<1>6. ASSUME NEW lo \in DiskBlocks, NEW hi \in DiskBlocks, ReadBlocks(lo, hi)
      PROVE  IInv'
  BY <1>0, <1>6, BeginStep DEF ReadBlocks, Changing
<1>7. ASSUME NEW lo \in DiskBlocks, SetLength(lo)
      PROVE  IInv'
  <2>1. /\ Call("len", "enter", lo, LastBlock)
        /\ wanted' = Fill(wanted, lo, LastBlock, Gone) /\ lastWrite' \in Nat
    BY <1>0, <1>7 DEF SetLength, Counted
  <2> QED BY <1>0, <2>1, BeginStep DEF Changing
<1>8. CASE UNCHANGED delayVars
  <2>1. TypeOK' /\ Staged' /\ Cleared' /\ PendingIsWanted' /\ Taken' /\ BuffersApart'
    BY <1>8 DEF delayVars, IInv, TypeOK, Staged, Cleared, PendingIsWanted, Pending, Taken, BuffersApart
  <2>2. Written'
    BY <1>8 DEF delayVars, IInv, Written, Pending, Live, Has
  <2> QED BY <2>1, <2>2 DEF IInv
<1> QED BY <1>1, <1>2, <1>3, <1>4, <1>5, <1>6, <1>7, <1>8 DEF DelayNext

------------------------------------------------------------------------------
(* Delayed writes: the invariant holds in every reachable state.           *)
THEOREM DelayInvariant == DelaySpec => []IInv
<1>1. IInv /\ [DelayNext]_delayVars => IInv'
  BY NextIInv
<1> QED BY <1>1, InitIInv, PTL DEF DelaySpec

(* Whenever nothing is queued and no call runs the file has what the       *)
(* program wrote last, whatever was queued, dropped, cut, written at once  *)
(* or left to the write thread before (file4writeDelay, file4writeLow,     *)
(* file4lenSetLow, file4writeDelayMain).                                   *)
THEOREM QuietStaysWritten == DelaySpec => []QuietMeansWritten
<1>1. IInv => QuietMeansWritten
  <2> SUFFICES ASSUME IInv, main = Idle, queue = <<>> PROVE disk = wanted
    BY DEF QuietMeansWritten
  <2>1. \A b \in DiskBlocks : disk[b] = wanted[b]
    BY DEF IInv, Written, Pending, Idle, Changing
  <2> QED BY <2>1 DEF IInv, TypeOK
<1> QED BY <1>1, DelayInvariant, PTL

(* The buffer that the program fills next is not one whose request is      *)
(* still to be written (opt4flushWriteBuffer, which waits for the other).  *)
THEOREM BufferStaysFree == DelaySpec => []BufferIsFree
<1>1. IInv => BufferIsFree
  BY DEF IInv, BuffersApart, BufferIsFree, Idle
<1> QED BY <1>1, DelayInvariant, PTL
=============================================================================
