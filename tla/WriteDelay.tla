----------------------------- MODULE WriteDelay -----------------------------
(***************************************************************************)
(* Delayed writes of one file (src/original/source: f4write.c, f4file.c,   *)
(* o4opt.c).  The program's thread collects consecutive blocks in one of   *)
(* two large buffers and queues the buffer; a second thread takes the      *)
(* queue's first request and writes it.  Reads, direct writes and changes  *)
(* of the length look at the queue first.  Two critical sections are       *)
(* used: the file's (critical4file) and the list's                         *)
(* (critical4delayWriteList).                                              *)
(*                                                                         *)
(* The file is a sequence of blocks; what a block holds is the number of   *)
(* the write that filled it, 0 at first, Gone behind the end.              *)
(***************************************************************************)
EXTENDS Integers, Sequences, FiniteSets, SequencesExt

CONSTANTS
  LastBlock,   \* bound: blocks of the file
  WriteBound,  \* bound: writes of the program
  Gone, None

ASSUME DelayAssumption == LastBlock \in Nat /\ None # "main"

VARIABLES
  disk,       \* the file: block -> what it holds
  wanted,     \* what the program wrote last: block -> value
  queue,      \* FILE4.delayWriteFileList: requests [lo, hi, buf, flag]
  data,       \* what the two large buffers hold
  avail,      \* writeBufferActualAvail, delayLargeBufferAvail
  cur,        \* OPT4.writeBuffer: the buffer in use
  fileCS,     \* who is in the file's critical section
  listCS,     \* who is in the list's
  main,       \* the program's thread: [pc, op, lo, hi, val, i]
  writer,     \* the write thread: [pc, req]
  lastWrite,  \* number of the last write
  got         \* the last read: [ok], whether it read what was written last

delayVars == <<disk, wanted, queue, data, avail, cur, fileCS, listCS, main, writer,
               lastWrite, got>>

DiskBlocks == 1 .. LastBlock
Bufs == {1, 2}
OtherBuffer(b) == 3 - b
Idle == [pc |-> "idle", op |-> "none", lo |-> 1, hi |-> 0, val |-> 0, i |-> 1]
Resting == [pc |-> "rest", req |-> None]

DelayInit ==
  /\ disk = [b \in DiskBlocks |-> 0] /\ wanted = disk
  /\ queue = <<>>
  /\ data = [x \in Bufs |-> 0] /\ avail = [x \in Bufs |-> TRUE] /\ cur = 1
  /\ fileCS = None /\ listCS = None
  /\ main = Idle /\ writer = Resting
  /\ lastWrite = 0 /\ got = TRUE

Fill(f, lo, hi, v) == [b \in DiskBlocks |-> IF b \in lo .. hi THEN v ELSE f[b]]
Overlap(r, lo, hi) == r.lo <= hi /\ lo <= r.hi
(* Mutant: it is enough that the end is covered. *)
EndWithin(r, lo, hi) == r.hi <= hi
Within(r, lo, hi) == lo <= r.lo /\ r.hi <= hi

Enter(cs) == cs = None
Go(pc) == main' = [main EXCEPT !.pc = pc]

------------------------------------------------------------------------------
(* Calls of the program's thread.  A write gets a number; lengths shrink.  *)

Call(op, pc, lo, hi) ==
  /\ main = Idle
  /\ main' = [pc |-> pc, op |-> op, lo |-> lo, hi |-> hi, val |-> lastWrite + 1, i |-> 1]
  /\ UNCHANGED <<disk, queue, data, avail, cur, fileCS, listCS, writer, got>>

Counted(lo, hi, v) ==
  /\ lastWrite < WriteBound /\ lastWrite' = lastWrite + 1 /\ wanted' = Fill(wanted, lo, hi, v)

(* file4writeLow; opt4flushWriteBuffer, which copied into the buffer in use. *)
WriteBlocks(lo, hi) ==
  Call("write", "enter", lo, hi) /\ Counted(lo, hi, lastWrite + 1)

Delay(lo, hi) ==
  /\ Call("delay", "list", lo, hi) /\ Counted(lo, hi, lastWrite + 1)

(* file4lenSetLow: the blocks from lo on go. *)
SetLength(lo) ==
  /\ wanted[lo] # Gone
  /\ Call("len", "enter", lo, LastBlock) /\ Counted(lo, LastBlock, Gone)

ReadBlocks(lo, hi) ==
  /\ \A b \in lo .. hi : wanted[b] # Gone
  /\ Call("read", "enter", lo, hi) /\ UNCHANGED <<wanted, lastWrite>>

FlushQueue == Call("flush", "list", 1, LastBlock) /\ UNCHANGED <<wanted, lastWrite>>

------------------------------------------------------------------------------
(* Into the file's section, and into the list's when there are requests.   *)

EnterFile ==
  /\ main.pc = "enter" /\ Enter(fileCS) /\ fileCS' = "main"
  /\ Go(IF queue = <<>> THEN "do" ELSE "list")
  /\ UNCHANGED <<disk, wanted, queue, data, avail, cur, listCS, writer, lastWrite, got>>

EnterList ==
  /\ main.pc = "list"
  /\ IF main.op \in {"delay", "flush"} /\ queue = <<>>
     THEN Go(IF main.op = "delay" THEN "add" ELSE "do") /\ UNCHANGED listCS
     ELSE Enter(listCS) /\ listCS' = "main" /\ Go("scan")
  /\ UNCHANGED <<disk, wanted, queue, data, avail, cur, fileCS, writer, lastWrite, got>>

(* What is asked of each request in turn.  One that is being written is    *)
(* waited for, one that was written is passed over.                        *)
At == queue[main.i]
Touched == IF main.op = "flush" THEN At.flag = "queued" ELSE Overlap(At, main.lo, main.hi)

Pass ==
  /\ main.pc = "scan" /\ main.op # "read" /\ main.i <= Len(queue)
  /\ ~Touched \/ At.flag = "finished"
  /\ main' = [main EXCEPT !.i = @ + 1]
  /\ UNCHANGED <<disk, wanted, queue, data, avail, cur, fileCS, listCS, writer, lastWrite, got>>

(* A request that the new write covers goes, another is written now; when  *)
(* the file is cut, what is left of it stays in the queue.                 *)
CutRequest == [queue EXCEPT ![main.i] = [At EXCEPT !.hi = main.lo - 1]]

Settle ==
  /\ main.pc = "scan" /\ main.op # "read" /\ main.i <= Len(queue)
  /\ Touched /\ At.flag = "queued"
  /\ LET cut  == main.op = "len" /\ At.lo <= main.lo
         gone == main.op # "flush" /\ Within(At, main.lo, main.hi) IN
     IF cut THEN /\ queue' = CutRequest /\ main' = [main EXCEPT !.i = @ + 1]
                 /\ UNCHANGED <<disk, avail>>
     ELSE /\ queue' = RemoveAt(queue, main.i)
          /\ avail' = [avail EXCEPT ![At.buf] = TRUE]
          /\ main' = main
          /\ IF gone THEN disk' = disk
             ELSE fileCS # "writer" /\ disk' = Fill(disk, At.lo, At.hi, data[At.buf])
  /\ UNCHANGED <<wanted, data, cur, fileCS, listCS, writer, lastWrite, got>>

LeaveList ==
  /\ main.pc = "scan" /\ main.op # "read" /\ main.i > Len(queue)
  /\ listCS' = None
  /\ Go(IF main.op = "delay" THEN "add" ELSE "do")
  /\ UNCHANGED <<disk, wanted, queue, data, avail, cur, fileCS, writer, lastWrite, got>>

(* file4writeDelay: the request is queued, and the thread waits for the    *)
(* other buffer.                                                           *)
AddRequest ==
  /\ main.pc = "add" /\ Enter(listCS)
  /\ data' = [data EXCEPT ![cur] = main.val]
  /\ avail' = [avail EXCEPT ![cur] = FALSE]
  /\ queue' = Append(queue, [lo |-> main.lo, hi |-> main.hi, buf |-> cur, flag |-> "queued"])
  /\ Go("await")
  /\ UNCHANGED <<disk, wanted, cur, fileCS, listCS, writer, lastWrite, got>>

Await ==
  /\ main.pc = "await" /\ avail[OtherBuffer(cur)]
  /\ cur' = OtherBuffer(cur) /\ main' = Idle
  /\ UNCHANGED <<disk, wanted, queue, data, avail, fileCS, listCS, writer, lastWrite, got>>

(* The direct write, the new end, the wait for the queue to be empty.      *)
Do ==
  /\ main.pc = "do" /\ main.op # "read"
  /\ main.op = "flush" => queue = <<>>
  /\ disk' = CASE main.op = "write" -> Fill(disk, main.lo, main.hi, main.val)
               [] main.op = "len"   -> Fill(disk, main.lo, LastBlock, Gone)
               [] OTHER             -> disk
  /\ fileCS' = IF main.op = "flush" THEN fileCS ELSE None
  /\ main' = Idle
  /\ UNCHANGED <<wanted, queue, data, avail, cur, listCS, writer, lastWrite, got>>

(* file4readLow: a block is read from the first request that has it.       *)
Seen(b) ==
  LET i == SelectInSeq(queue, LAMBDA r : b \in r.lo .. r.hi) IN
  IF i = 0 THEN disk[b] ELSE data[queue[i].buf]

DoRead ==
  /\ main.op = "read"
  /\ \/ main.pc = "do" /\ got' = \A b \in main.lo .. main.hi : disk[b] = wanted[b]
     \/ main.pc = "scan" /\ got' = \A b \in main.lo .. main.hi : Seen(b) = wanted[b]
  /\ fileCS' = None /\ listCS' = IF listCS = "main" THEN None ELSE listCS
  /\ main' = Idle
  /\ UNCHANGED <<disk, wanted, queue, data, avail, cur, writer, lastWrite>>

------------------------------------------------------------------------------
(* file4writeDelayMain. *)

Take ==
  /\ writer.pc = "rest" /\ queue # <<>> /\ Enter(listCS)
  /\ writer' = [pc |-> "write", req |-> Head(queue).buf]
  /\ queue' = [queue EXCEPT ![1].flag = "inUse"]
  /\ UNCHANGED <<disk, wanted, data, avail, cur, fileCS, listCS, main, lastWrite, got>>

WriteIt ==
  /\ writer.pc = "write" /\ Enter(fileCS)
  /\ disk' = Fill(disk, Head(queue).lo, Head(queue).hi, data[Head(queue).buf])
  /\ writer' = [writer EXCEPT !.pc = "finish"]
  /\ UNCHANGED <<wanted, queue, data, avail, cur, fileCS, listCS, main, lastWrite, got>>

(* Mutant: the flag is set inside of the list's section. *)
FinishInside ==
  /\ writer.pc = "finish" /\ Enter(listCS)
  /\ queue' = [queue EXCEPT ![1].flag = "finished"]
  /\ writer' = [writer EXCEPT !.pc = "remove"]
  /\ UNCHANGED <<disk, wanted, data, avail, cur, fileCS, listCS, main, lastWrite, got>>

Finish ==
  /\ writer.pc = "finish"
  /\ queue' = [queue EXCEPT ![1].flag = "finished"]
  /\ writer' = [writer EXCEPT !.pc = "remove"]
  /\ UNCHANGED <<disk, wanted, data, avail, cur, fileCS, listCS, main, lastWrite, got>>

Unqueue ==
  /\ writer.pc = "remove" /\ Enter(listCS)
  /\ queue' = Tail(queue)
  /\ writer' = [writer EXCEPT !.pc = "complete"]
  /\ UNCHANGED <<disk, wanted, data, avail, cur, fileCS, listCS, main, lastWrite, got>>

Complete ==
  /\ writer.pc = "complete"
  /\ avail' = [avail EXCEPT ![writer.req] = TRUE]
  /\ writer' = Resting
  /\ UNCHANGED <<disk, wanted, queue, data, cur, fileCS, listCS, main, lastWrite, got>>

------------------------------------------------------------------------------
Main == EnterFile \/ EnterList \/ Pass \/ Settle \/ LeaveList \/ AddRequest
        \/ Await \/ Do \/ DoRead
Thread == Take \/ WriteIt \/ Finish \/ Unqueue \/ Complete

DelayNext ==
  \/ Main \/ Thread \/ FlushQueue
  \/ \E lo, hi \in DiskBlocks :
       lo <= hi /\ (WriteBlocks(lo, hi) \/ Delay(lo, hi) \/ ReadBlocks(lo, hi))
  \/ \E lo \in DiskBlocks : SetLength(lo)

DelaySpec == DelayInit /\ [][DelayNext]_delayVars /\ WF_delayVars(Main) /\ WF_delayVars(Thread)

------------------------------------------------------------------------------
(* Whenever nothing is queued and no call runs the file has what the       *)
(* program wrote last: whatever was taken out of the queue, cut or written *)
(* ahead of its turn.                                                      *)
QuietMeansWritten == main = Idle /\ queue = <<>> => disk = wanted

(* A buffer that a request still needs is not the one that is filled.      *)
BufferIsFree ==
  main = Idle => \A i \in DOMAIN queue : queue[i].flag # "finished" => queue[i].buf # cur

(* A delayed write and a flush come to an end: the request they wait for   *)
(* needs no section that they hold.                                        *)
DelaysAndFlushesEnd == (main.op \in {"delay", "flush"}) ~> (main = Idle)

(* A read gives what the program wrote last.                               *)
ReadsTheLastWrite == got

(* The thread that waits for a request to be written does not keep from    *)
(* writing it the one that has to (f4write.c:1550).                        *)
WaitingIsSafe ==
  ~ /\ main.pc = "scan" /\ main.op \in {"write", "len"} /\ fileCS = "main"
    /\ main.i <= Len(queue) /\ Touched /\ At.flag = "inUse"
    /\ writer.pc = "write"
=============================================================================
