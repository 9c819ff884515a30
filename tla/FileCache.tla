----------------------------- MODULE FileCache -----------------------------
(***************************************************************************)
(* The optimizer's blocks of one data file (src/original/source: o4opt.c,  *)
(* D4OPT.C, f4opt.c, f4file.c, f4write.c, F4FLUSH.C, d4go.c).  Reads and   *)
(* writes go through blocks in memory; a changed block is written when it  *)
(* is evicted, through a buffer of consecutive blocks, or when the file is *)
(* flushed.  A file opened exclusively buffers its writes; a shared one    *)
(* writes through, or buffers while the file is locked.                    *)
(*                                                                         *)
(* A byte is the number of the write it comes from; Junk is memory or disk *)
(* nobody wrote, AnyByte what the program may find there.  A call goes     *)
(* block by block, one block a step.  The block to evict is any block: the *)
(* lists that choose it (opt4fileChooseBlock) are left out, and so is      *)
(* reading in advance.  Delayed writes are WriteDelay's.                   *)
(***************************************************************************)
EXTENDS Integers, Sequences, FiniteSets

CONSTANTS
  BlockSize,   \* bytes of a block
  Capacity,    \* blocks in memory this file may have
  MaxBlocks,   \* blocks in the read and in the write buffer
  NBlocks,     \* bound: the file has this many blocks
  MaxWrites,   \* bound: calls that change the file, of everybody
  Modes,       \* bound: how the file is opened: records [shared, writeBuffer]
  Pieces,      \* bound: bytes of a write
  Spans,       \* bound: bytes of a read
  Cuts,        \* bound: lengths the file is cut to
  StartLens,   \* bound: lengths of the file at the start
  Junk, AnyByte, Unknown

VARIABLES
  mode,    \* FILE4.lowAccessMode, FILE4.writeBuffer
  buffers, \* FILE4.bufferWrites
  held,    \* the file is locked by this program
  s,       \* [disk, cache, wbuf, rbuf, flen]: file, blocks, buffers, FILE4.len
  want,    \* the file as everybody wrote it
  writes,  \* number of writes so far
  call,    \* the call in progress
  answer   \* what the last call gave: [op, pos, n, bytes]

vars == <<mode, buffers, held, s, want, writes, call, answer>>

(* Where block b begins, and the block byte p lies in.                     *)
Base(b) == b * BlockSize
BlockOf(p) == p \div BlockSize
FileMax == Base(NBlocks)
Blocks == 0 .. NBlocks - 1
Bytes(n, v) == [i \in 1 .. n |-> v]
Least2(a, b) == IF a < b THEN a ELSE b
Most2(a, b) == IF a > b THEN a ELSE b

(* q with the bytes of d from offset at on; fill stands between.           *)
Put(q, at, d, fill) ==
  [i \in 1 .. Most2(Len(q), at + Len(d)) |->
     IF i > at /\ i <= at + Len(d) THEN d[i - at]
     ELSE IF i <= Len(q) THEN q[i] ELSE fill]
Resize(q, n, fill) == [i \in 1 .. n |-> IF i <= Len(q) THEN q[i] ELSE fill]
From(q, at, n) == SubSeq(q, at + 1, Least2(at + n, Len(q)))

NoCall == [op |-> "none"]
NoBuffer == [on |-> FALSE, start |-> 0, count |-> 0, data |-> <<>>]
NoAnswer == [op |-> "none"]

Init ==
  /\ mode \in Modes
  /\ buffers = (~mode.shared /\ mode.writeBuffer)   \* file4optimizeWrite
  /\ held = FALSE
  /\ \E n \in StartLens :
       s = [disk |-> Bytes(n, 0), cache |-> [b \in {} |-> 0], wbuf |-> NoBuffer,
            rbuf |-> NoBuffer, flen |-> Unknown]
  /\ want = s.disk
  /\ writes = 0 /\ call = NoCall /\ answer = NoAnswer

(* What the theorems ask of the constants: a file that buffers has no      *)
(* other writer, and files are cut at the edge of a block.                 *)
Opened ==
  /\ BlockSize \in Nat \ {0} /\ MaxBlocks \in Nat \ {0} /\ NBlocks \in Nat
  /\ Pieces \subseteq Nat \ {0} /\ Spans \subseteq Nat \ {0} /\ StartLens \subseteq Nat
  /\ Cuts \subseteq Nat /\ \A n \in Cuts : n = Base(BlockOf(n))
  /\ Modes \subseteq [shared : BOOLEAN, writeBuffer : BOOLEAN]
  /\ \A m \in Modes : ~(m.shared /\ m.writeBuffer)
  /\ Junk \notin Nat /\ AnyByte \notin Nat /\ Junk # AnyByte /\ Unknown \notin Nat

------------------------------------------------------------------------------
(* Blocks in memory and the write buffer.                                  *)

(* file4lenLow; a buffering file keeps the length it found.                *)
FileLen(t) == IF t.flen # Unknown THEN t.flen ELSE Len(t.disk)
KnowLen(t) == IF buffers THEN [t EXCEPT !.flen = FileLen(t)] ELSE t

(* opt4flushWriteBuffer *)
FlushWriteBuffer(t) ==
  IF t.wbuf.on
  THEN [t EXCEPT !.disk = Put(@, t.wbuf.start, t.wbuf.data, Junk), !.wbuf = NoBuffer]
  ELSE t

(* opt4blockFlush.  A block that lies in the read buffer is copied there.  *)
(* A block that does not go on where the write buffer ends, or ends within *)
(* one block before it, starts a new buffer.                               *)
(* Mutant: the read buffer keeps what the disk had. *)
NoPatch(t, at, d) == t
Patch(t, at, d) ==
  IF t.rbuf.on /\ at >= t.rbuf.start /\ at < t.rbuf.start + Base(MaxBlocks)
  THEN [t EXCEPT !.rbuf.data = Put(@, at - t.rbuf.start, d, Junk)] ELSE t
GoesOn(w, at) ==
  LET cur == w.start + Len(w.data)
  IN w.on /\ w.count < MaxBlocks /\ cur <= at /\ at - cur < BlockSize
Collect(t, at, d) ==
  LET u == IF GoesOn(t.wbuf, at) THEN t
           ELSE [FlushWriteBuffer(t) EXCEPT !.wbuf = [NoBuffer EXCEPT !.on = TRUE, !.start = at]]
  IN [u EXCEPT !.wbuf.data = Put(@, at - u.wbuf.start, d, Junk), !.wbuf.count = @ + 1]
BlockFlush(t, b) ==
  LET d == SubSeq(t.cache[b].data, 1, t.cache[b].len)
  IN [Collect(Patch(t, Base(b), d), Base(b), d) EXCEPT !.cache[b].changed = FALSE]

Drop(t, B) ==
  [t EXCEPT !.cache = [b \in DOMAIN t.cache \ B |-> t.cache[b]]]

(* opt4fileGetBlock: a free block, another file's, or one of this file,    *)
(* which is written if it is changed.                                      *)
Spare(t) == IF Cardinality(DOMAIN t.cache) < Capacity THEN {t} ELSE {}
(* Mutant: the block is given away unwritten. *)
GetBlockUnwritten(t) == Spare(t) \cup {Drop(t, {b}) : b \in DOMAIN t.cache}
GetBlock(t) ==
  Spare(t) \cup {Drop(IF t.cache[b].changed THEN BlockFlush(t, b) ELSE t, {b}) : b \in DOMAIN t.cache}

(* opt4blockAdd: len bytes of the block are d, the others what was there.  *)
Add(t, b, d) ==
  [t EXCEPT !.cache = [x \in DOMAIN @ \cup {b} |->
     IF x = b THEN [data |-> Resize(d, BlockSize, Junk), len |-> Len(d), changed |-> FALSE]
     ELSE @[x]]]

(* opt4fileReadFile: the write buffer goes first where it is near; no more *)
(* is read than the file has.                                              *)
ReadFile(t, at, n) ==
  LET near == t.wbuf.on /\ at + n >= t.wbuf.start /\ at < t.wbuf.start + Len(t.wbuf.data)
      u == IF near THEN FlushWriteBuffer(t) ELSE t
      m == IF buffers /\ t.flen # Unknown /\ at <= t.flen THEN Least2(n, t.flen - at) ELSE n
  IN [at |-> u, got |-> From(u.disk, at, m)]

------------------------------------------------------------------------------
(* Writing: file4writeInternal, file4writeOpt, opt4fileWrite.              *)

Quiet == call = NoCall
MayWrite == ~mode.shared \/ held \/ ~mode.writeBuffer

Write(pos, n) ==
  /\ Quiet /\ writes < MaxWrites /\ MayWrite
  /\ writes' = writes + 1
  /\ want' = Put(want, pos, Bytes(n, writes + 1), AnyByte)
  /\ call' = [op |-> "write", pos |-> pos, n |-> n, b |-> BlockOf(pos)]
  /\ answer' = NoAnswer /\ UNCHANGED <<mode, buffers, held, s>>

(* The block to write to; it is read unless all of it will be written.     *)
WholeLen(t, at) == IF FileLen(t) >= at + BlockSize THEN BlockSize ELSE 0
Fetched(t, b, at, n, whole) ==
  IF b \in DOMAIN t.cache THEN {t}
  ELSE UNION {LET k == KnowLen(u)
                  r == ReadFile(k, Base(b), BlockSize)
              IN {IF ~whole /\ Base(b) < FileLen(k)
                  THEN Add(r.at, b, r.got)
                  ELSE Add(k, b, Bytes(WholeLen(k, at), Junk))} : u \in GetBlock(t)}

(* How long the block is after the write that ends at end: the file grew,  *)
(* or the block did not know its length.                                   *)
Grown(t, b, pos, end) ==
  LET k == t.cache[b]
      had == Base(b) + k.len
      put == [i \in 1 .. BlockSize |->
                IF i > k.len /\ i <= pos - Base(b) THEN 0 ELSE k.data[i]]
  IN IF end <= had THEN t
     ELSE IF t.flen = Unknown \/ t.flen < end
     THEN [t EXCEPT !.cache[b].data = put, !.cache[b].len = end - Base(b),
                    !.flen = IF buffers THEN end ELSE @]
     ELSE [t EXCEPT !.cache[b].len = Least2(BlockSize, t.flen - Base(b))]

(* One round of the loop: the part of the write that lies in block b.      *)
LastRound(c, b) == c.pos + c.n <= Base(b + 1)
WriteBlock ==
  LET c == call
      b == c.b
      low == Most2(c.pos, Base(b))
      high == Least2(c.pos + c.n, Base(b + 1))
      d == Bytes(high - low, writes)
  IN /\ c.op = "write"
     /\ \E t \in Fetched(s, b, low, high - low, high - low = BlockSize) :
          LET u == [t EXCEPT !.cache[b].data = Put(@, low - Base(b), d, Junk),
                             !.cache[b].changed = @ \/ buffers]
              v == Grown(u, b, c.pos, high)
          IN /\ s' = v
             /\ call' = IF LastRound(c, b) \/ v.cache[b].len # BlockSize
                        THEN IF buffers THEN NoCall ELSE [c EXCEPT !.op = "through"]
                        ELSE [c EXCEPT !.b = b + 1]
     /\ UNCHANGED <<mode, buffers, held, want, writes, answer>>

(* file4writeLow: a file that does not buffer is written at once.          *)
WriteThrough ==
  /\ call.op = "through"
  /\ s' = [s EXCEPT !.disk = Put(@, call.pos, Bytes(call.n, writes), Junk)]
  /\ call' = NoCall
  /\ UNCHANGED <<mode, buffers, held, want, writes, answer>>

------------------------------------------------------------------------------
(* Reading: file4readInternal, opt4fileRead.  A read of several blocks,    *)
(* the second of which is not in memory, fills the read buffer first       *)
(* (opt4fileReadSpBuffer) and places its blocks from the last to the first.*)
(* A forced read (OPT4.forceCurrent) takes clean blocks from disk again.   *)

Read(pos, n, forced) ==
  /\ Quiet
  /\ forced => mode.shared
  /\ call' = [op |-> "read", pos |-> pos, n |-> n, b |-> BlockOf(pos),
              forced |-> forced, sp |-> FALSE, place |-> -1, last |-> 0, got |-> <<>>]
  /\ answer' = NoAnswer
  /\ UNCHANGED <<mode, buffers, held, s, want, writes>>

Reading == call.op = "read" /\ call.place < 0
Rest(c) == c.pos + c.n - Base(c.b)   \* with the bytes before pos
WantsMany(c) ==
  ~c.forced /\ ~c.sp /\ Rest(c) > BlockSize /\ c.b \notin DOMAIN s.cache
  /\ (c.b + 1) \notin DOMAIN s.cache

FillReadBuffer ==
  /\ Reading /\ WantsMany(call)
  /\ LET k == Least2(MaxBlocks, 1 + BlockOf(Rest(call)))
         r == ReadFile(s, Base(call.b), Base(k))
         last == BlockOf(Len(r.got) - 1)
     IN IF r.got = <<>> THEN s' = r.at /\ call' = [call EXCEPT !.sp = TRUE]
        ELSE /\ s' = [r.at EXCEPT !.rbuf = [NoBuffer EXCEPT !.on = TRUE,
                                             !.start = Base(call.b), !.data = r.got]]
             /\ call' = [call EXCEPT !.sp = TRUE, !.place = last, !.last = Len(r.got)]
  /\ UNCHANGED <<mode, buffers, held, want, writes, answer>>

PlaceBlock ==
  LET c == call
      b == c.b + c.place
      off == Base(c.place)
  IN /\ c.op = "read" /\ c.place >= 0
     /\ \E t \in (IF b \in DOMAIN s.cache THEN {s} ELSE
                    {Add(u, b, From(u.rbuf.data, off, Least2(BlockSize, c.last - off))) : u \in GetBlock(s)}) :
          s' = IF c.place = 0 THEN [t EXCEPT !.rbuf = NoBuffer] ELSE t
     /\ call' = [c EXCEPT !.place = @ - 1]
     /\ UNCHANGED <<mode, buffers, held, want, writes, answer>>

(* One round: the part of the read that lies in the block.                 *)
Reread(t, b) ==
  LET r == ReadFile(t, Base(b), BlockSize)
  IN [r.at EXCEPT !.cache[b].data = Put(@, 0, r.got, Junk)]
Present(c) ==
  IF c.b \in DOMAIN s.cache
  THEN {IF c.forced /\ ~s.cache[c.b].changed /\ ~buffers THEN Reread(s, c.b) ELSE s}
  ELSE {LET r == ReadFile(u, Base(c.b), BlockSize) IN Add(r.at, c.b, r.got) : u \in GetBlock(s)}
ReadBlock ==
  LET c == call
      low == Most2(c.pos, Base(c.b)) - Base(c.b)
  IN /\ Reading /\ ~WantsMany(c)
     /\ \E t \in Present(c) :
          LET k == t.cache[c.b]
              n == Most2(Least2(Least2(Rest(c), BlockSize), k.len), low)
              got == c.got \o SubSeq(k.data, low + 1, n)
          IN /\ s' = t
             /\ IF Rest(c) > BlockSize /\ k.len = BlockSize
                THEN /\ call' = [c EXCEPT !.b = @ + 1, !.sp = FALSE, !.got = got]
                     /\ UNCHANGED answer
                ELSE /\ call' = NoCall
                     /\ answer' = [op |-> "read", pos |-> c.pos, n |-> c.n,
                                   forced |-> c.forced, bytes |-> got]
     /\ UNCHANGED <<mode, buffers, held, want, writes>>

------------------------------------------------------------------------------
(* The length: file4lenSetLow, opt4fileDelete, opt4fileExtend.             *)

(* opt4fileDeletePartialStart looks for the block by its number instead of *)
(* its position: it finds block 0 only.  The blocks behind go, with those  *)
(* the end lies in (opt4fileDeleteBlock).                                  *)
Shorten(t, n) ==
  LET b == BlockOf(n)
      u == IF n % BlockSize # 0 /\ b = 0 /\ 0 \in DOMAIN t.cache
           THEN [t EXCEPT !.cache[0].len = n] ELSE t
  IN Drop(u, {x \in DOMAIN t.cache : Base(x) >= n})
Extend(t, n, from) ==
  LET b == BlockOf(from)
  IN IF b \in DOMAIN t.cache
     THEN [t EXCEPT !.cache[b].len = Least2(BlockSize, n - Base(b))] ELSE t

SetLen(n) ==
  /\ Quiet /\ writes < MaxWrites /\ MayWrite
  /\ writes' = writes + 1
  /\ want' = Resize(want, n, AnyByte)
  /\ LET t == KnowLen(s)
         cut == t.flen = Unknown \/ t.flen > n
         u == IF cut THEN Shorten(FlushWriteBuffer(t), n) ELSE Extend(t, n, FileLen(t))
     IN s' = IF buffers THEN [u EXCEPT !.flen = n]
             ELSE [u EXCEPT !.disk = Resize(@, n, Junk)]
  /\ answer' = NoAnswer /\ UNCHANGED <<mode, buffers, held, call>>

------------------------------------------------------------------------------
(* Flushing: opt4fileFlush (file4flush), file4refresh.  The lists give the *)
(* changed blocks in any order; free also forgets all blocks, refresh the  *)
(* length too.                                                             *)

Flush(free, forget) ==
  /\ Quiet
  /\ call' = [op |-> "flush", free |-> free, forget |-> forget, lock |-> FALSE]
  /\ answer' = NoAnswer
  /\ UNCHANGED <<mode, buffers, held, s, want, writes>>

FlushBlock(b) ==
  /\ call.op = "flush" /\ s.cache[b].changed
  /\ s' = BlockFlush(s, b)
  /\ UNCHANGED <<mode, buffers, held, want, writes, call, answer>>

(* The end: the write buffer, the file's real length, the blocks.          *)
(* Mutant: the length of the file is not corrected. *)
SettledAsIs(t) == FlushWriteBuffer(t)
Settled(t) ==
  LET u == FlushWriteBuffer(t)
  IN IF u.flen # Unknown THEN [u EXCEPT !.disk = Resize(@, u.flen, Junk)] ELSE u
FlushEnd ==
  /\ call.op = "flush" /\ \A b \in DOMAIN s.cache : ~s.cache[b].changed
  /\ LET t == Settled(s)
         u == IF call.free THEN Drop(t, DOMAIN t.cache) ELSE t
     IN s' = IF call.forget THEN [u EXCEPT !.flen = Unknown] ELSE u
  /\ call' = NoCall
  /\ answer' = [op |-> "flush"]
  /\ UNCHANGED <<mode, buffers, held, want, writes>>

(* file4refresh, which does nothing for a file nobody else opens.          *)
Refresh == mode.shared /\ Flush(TRUE, TRUE)

(* dfile4lockFile: the file is locked, buffers its writes from now on if   *)
(* it may, and is refreshed.  file4unlockInternal ends that.               *)
Lock ==
  /\ Quiet /\ mode.shared /\ ~held
  /\ held' = TRUE /\ buffers' = mode.writeBuffer
  /\ call' = [op |-> "flush", free |-> TRUE, forget |-> TRUE, lock |-> TRUE]
  /\ answer' = NoAnswer /\ UNCHANGED <<mode, s, want, writes>>
Unlock ==
  /\ Quiet /\ held
  /\ held' = FALSE /\ buffers' = FALSE
  /\ answer' = NoAnswer /\ UNCHANGED <<mode, s, want, writes, call>>

(* Another program, while the file is not locked here.                     *)
Other(pos, n) ==
  /\ Quiet /\ mode.shared /\ ~held /\ writes < MaxWrites
  /\ writes' = writes + 1
  /\ want' = Put(want, pos, Bytes(n, writes + 1), AnyByte)
  /\ s' = [s EXCEPT !.disk = Put(@, pos, Bytes(n, writes + 1), Junk)]
  /\ answer' = NoAnswer /\ UNCHANGED <<mode, buffers, held, call>>

Next ==
  \/ \E pos \in 0 .. Len(want) + 1, n \in Pieces : pos + n <= FileMax /\ Write(pos, n)
  \/ WriteBlock \/ WriteThrough
  \/ \E pos \in 0 .. FileMax - 1, n \in Spans, f \in BOOLEAN :
       pos < Len(want) /\ Read(pos, n, f)
  \/ FillReadBuffer \/ PlaceBlock \/ ReadBlock
  \/ \E n \in 0 .. FileMax : (n \in Cuts \/ n >= Len(want)) /\ SetLen(n)
  \/ \E free \in BOOLEAN : Flush(free, FALSE)
  \/ Refresh \/ FlushEnd \/ Lock \/ Unlock
  \/ \E b \in DOMAIN s.cache : FlushBlock(b)
  \/ \E pos \in 0 .. Len(want), n \in Pieces : pos + n <= FileMax /\ Other(pos, n)

Spec == Init /\ [][Next]_vars

------------------------------------------------------------------------------
Agrees(is, should) == should = AnyByte \/ is = should

(* Nothing that was written is lost: between calls the file, with the      *)
(* write buffer and the changed blocks over it, is what everybody wrote,   *)
(* and its length is theirs (opt4blockFlush, opt4fileGetBlock).            *)
Changed == {b \in DOMAIN s.cache : s.cache[b].changed}
Whole(p) ==
  LET b == BlockOf(p)
      w == s.wbuf
  IN IF b \in Changed /\ p - Base(b) < s.cache[b].len
     THEN s.cache[b].data[p - Base(b) + 1]
     ELSE IF w.on /\ p >= w.start /\ p < w.start + Len(w.data) THEN w.data[p - w.start + 1]
     ELSE IF p < Len(s.disk) THEN s.disk[p + 1] ELSE Junk
NothingIsLost ==
  Quiet => /\ FileLen(s) = Len(want)
           /\ \A p \in 0 .. Len(want) - 1 : Agrees(Whole(p), want[p + 1])

(* A read gives all the bytes the file has there, as they were written     *)
(* last, as long as nobody else may write; it may stop at a byte nobody    *)
(* wrote (opt4fileRead, and opt4fileReadSpBuffer while blocks are evicted).*)
ReadsAreTrue ==
  answer.op = "read" /\ (~mode.shared \/ held) =>
    LET there == From(want, answer.pos, answer.n)
    IN \A i \in 1 .. Len(there) :
         (\A j \in 1 .. i : there[j] # AnyByte) =>
           i <= Len(answer.bytes) /\ answer.bytes[i] = there[i]

(* What a flush leaves on disk is the file, to its length (opt4fileFlush). *)
FlushedIsWritten ==
  answer.op = "flush" =>
    /\ Len(s.disk) = Len(want)
    /\ \A i \in 1 .. Len(want) : Agrees(s.disk[i], want[i])

(* Writes are buffered only while the file is locked or opened exclusively *)
(* (file4setWriteOpt; Memory_Optimizations of the manual).                 *)
BuffersOnlyWhileHeld == Quiet /\ mode.shared /\ ~held => Changed = {} /\ ~s.wbuf.on

(* A read that is forced gives the record as it is on disk (d4go.c).       *)
ForcedReadsAreTrue ==
  answer.op = "read" /\ answer.forced =>
    LET n == Least2(answer.n, Len(s.disk) - answer.pos)
    IN SubSeq(answer.bytes, 1, n) = From(s.disk, answer.pos, n)
=============================================================================
