----------------------------- MODULE BlockCache -----------------------------
(***************************************************************************)
(* The engine's one pool of windows, shared by the sources of every open   *)
(* file, and the threads that read through it: BlockCache under its lock,  *)
(* CachingRandomAccessSource.Read as the loop of claims, copies and        *)
(* releases it is, files that another process may write, sources that are  *)
(* opened, dropped and disposed.                                           *)
(*                                                                         *)
(* TryHold is one step, because the fill runs inside the lock.  The copy   *)
(* out of a claimed window and the release after it are steps of their     *)
(* own: the lock is not held between them.                                 *)
(***************************************************************************)
EXTENDS Residency, Sequences, FiniteSets

CONSTANTS
  Threads,      \* the threads, each using its own tables
  Files,        \* the files on disk
  PriorityOf,   \* the priority the factory gives each file's windows
  NoFile,       \* not a file
  NoSlot,       \* not a slot
  WindowSize,   \* bytes in a window
  MaxOwners,    \* bound: sources opened
  Sizes,        \* bound: how long a file may be, in bytes
  Reads,        \* bound: the reads a thread asks for, as <<offset, length>>
  MaxVersion,   \* bound: times another process writes a file
  EngineCloses  \* whether the engine may be disposed while threads read

ASSUME CacheAssumption ==
  /\ NoFile \notin Files /\ NoSlot \notin Slots
  /\ PriorityOf \in [Files -> Priorities]
  /\ WindowSize \in Nat \ {0}
  /\ MaxOwners \in Nat /\ MaxVersion \in Nat
  /\ Sizes \subseteq Nat /\ Reads \subseteq Nat \X (Nat \ {0})
  /\ EngineCloses \in BOOLEAN
  /\ IsFiniteSet(Threads)
  /\ IsFiniteSet(Slots)

(* A window is known by its owner, numbered from one, and where it starts. *)
Keys  == (Nat \ {0}) \X Nat
NoKey == <<0, 0>>

Entries == [key : Keys, slot : Slots, valid : Nat \ {0}]

(* What a slot's buffer holds: the bytes of a file from start on, as they  *)
(* were at some version of the file.                                       *)
Contents == [file : Files \cup {NoFile}, start : Nat, version : Nat]
NoBytes  == [file |-> NoFile, start |-> 0, version |-> 0]

Bytes == [file : Files \cup {NoFile}, pos : Nat, version : Nat]

VARIABLES
  res,      \* the pool's residency
  held,     \* the dictionary from key to slot, as the set of its entries
  byslot,   \* the key each slot is registered under, or NoKey
  block,    \* the bytes in each slot's buffer
  disk,     \* each file's size, and how often it has been written
  sources,  \* the sources opened so far, numbered as their owners
  pc,       \* where each thread is in Read
  req,      \* the read each thread is in, or was in last
  start,    \* the window its loop is at
  claim,    \* the slot and the valid bytes TryHold gave it
  out,      \* the bytes it has copied
  fence     \* history: each file's version when the engine last dropped all

cacheVars  == <<res, held, byslot, block>>
readerVars == <<pc, req, start, claim, out>>
vars       == <<cacheVars, readerVars, disk, sources, fence>>

(* floor is history: the file's version when the source last dropped its   *)
(* own windows.                                                            *)
Sources  == [file : Files, user : Threads,
             state : {"open", "disposed", "closed"}, floor : Nat]
Requests == [owner : Nat, off : Nat, len : Nat, floor : Nat, fence : Nat]

(* The states in which a thread is not inside Read.                        *)
Resting == {"idle", "done", "failed"}

(* The states in which a thread holds a claim.                             *)
Claiming == {"copy", "advance", "finish"}

TypeOK ==
  /\ res \in Residency
  /\ held \subseteq Entries
  /\ byslot \in [Slots -> Keys \cup {NoKey}]
  /\ block \in [Slots -> Contents]
  /\ disk \in [Files -> [version : Nat, size : Nat]]
  /\ sources \in Seq(Sources)
  /\ pc \in [Threads -> Resting \cup Claiming \cup {"hold", "direct"}]
  /\ req \in [Threads -> Requests]
  /\ start \in [Threads -> Nat]
  /\ claim \in [Threads -> [slot : Slots \cup {NoSlot}, valid : Nat]]
  /\ out \in [Threads -> Seq(Bytes)]
  /\ fence \in [Files -> Nat]

Init ==
  /\ res = AllFree
  /\ held = {}
  /\ byslot = [s \in Slots |-> NoKey]
  /\ block = [s \in Slots |-> NoBytes]
  /\ disk \in [Files -> [version : {0}, size : Sizes]]
  /\ sources = <<>>
  /\ pc = [t \in Threads |-> "idle"]
  /\ req = [t \in Threads |-> [owner |-> 0, off |-> 0, len |-> 0,
                               floor |-> 0, fence |-> 0]]
  /\ start = [t \in Threads |-> 0]
  /\ claim = [t \in Threads |-> [slot |-> NoSlot, valid |-> 0]]
  /\ out = [t \in Threads |-> <<>>]
  /\ fence = [f \in Files |-> 0]

-----------------------------------------------------------------------------
(* Helpers. *)

Smaller(a, b) == IF a < b THEN a ELSE b
Larger(a, b)  == IF a > b THEN a ELSE b

Align(position) == (position \div WindowSize) * WindowSize

LastWindow(r) == Align(r.off + r.len - 1)

(* Read by FileRandomAccessSource: how many of n bytes at off a file gives.*)
Given(f, off, n) == Larger(0, Smaller(n, disk[f].size - off))

FileOf(t) == sources[req[t].owner].file

Key(t) == <<req[t].owner, start[t]>>

(* n bytes of a file from base on, all of one version.                     *)
Run(f, base, n, version) ==
  [i \in 1 .. n |-> [file |-> f, pos |-> base + i - 1, version |-> version]]

(* The n bytes a file holds from off on, now.                              *)
OnDisk(f, off, n) == Run(f, off, n, disk[f].version)

(* The n bytes a slot's buffer holds from its from-th on.                  *)
InSlot(s, from, n) == Run(block[s].file, block[s].start + from, n, block[s].version)

-----------------------------------------------------------------------------
(* Read, one step at a time. *)

(* A read enters Read unless the source is disposed.  One wider than the   *)
(* whole cache goes round it.                                              *)
BeginRead(t, o, off, len) ==
  LET r == [owner |-> o, off |-> off, len |-> len, floor |-> sources[o].floor,
            fence |-> fence[sources[o].file]]
  IN
  /\ pc[t] \in Resting
  /\ sources[o].user = t /\ sources[o].state = "open"
  /\ req' = [req EXCEPT ![t] = r]
  /\ start' = [start EXCEPT ![t] = Align(off)]
  /\ out' = [out EXCEPT ![t] = <<>>]
  /\ pc' = [pc EXCEPT ![t] =
              IF (LastWindow(r) - Align(off)) \div WindowSize + 1 > Cardinality(Slots)
              THEN "direct" ELSE "hold"]
  /\ UNCHANGED <<cacheVars, claim, disk, sources, fence>>

(* Mutant: the window is looked up by where it starts alone.               *)
HoldHitAnyOwner(t) ==
  /\ pc[t] = "hold"
  /\ \E e \in held :
       /\ e.key[2] = start[t]
       /\ res' = Touch(Pin(res, e.slot), e.slot)
       /\ claim' = [claim EXCEPT ![t] = [slot |-> e.slot, valid |-> e.valid]]
  /\ pc' = [pc EXCEPT ![t] = "copy"]
  /\ UNCHANGED <<held, byslot, block, req, start, out, disk, sources, fence>>

(* TryHold finds the window: claim it, and make it the newest of its list. *)
HoldHit(t) ==
  /\ pc[t] = "hold"
  /\ \E e \in held :
       /\ e.key = Key(t)
       /\ res' = Touch(Pin(res, e.slot), e.slot)
       /\ claim' = [claim EXCEPT ![t] = [slot |-> e.slot, valid |-> e.valid]]
  /\ pc' = [pc EXCEPT ![t] = "copy"]
  /\ UNCHANGED <<held, byslot, block, req, start, out, disk, sources, fence>>

Missed(t) == pc[t] = "hold" /\ \A e \in held : e.key # Key(t)

(* Mutant: the reader waits for a slot.                                    *)
HoldFullWaits(t) ==
  /\ Missed(t)
  /\ \A s \in Slots : ~Claimable(res, s)
  /\ UNCHANGED vars

(* TryHold finds every slot claimed: the caller reads round the cache.     *)
HoldFull(t) ==
  /\ Missed(t)
  /\ \A s \in Slots : ~Claimable(res, s)
  /\ pc' = [pc EXCEPT ![t] = "direct"]
  /\ UNCHANGED <<cacheVars, req, start, claim, out, disk, sources, fence>>

(* The dictionary once what a claimed slot held has been evicted.          *)
Evicted(s) == {e \in held : e.key # byslot[s]}

(* TryHold reads the window into a slot it has claimed, and registers it.  *)
HoldFill(t, s) ==
  LET f == FileOf(t)
      read == Given(f, start[t], WindowSize)
  IN
  /\ Missed(t)
  /\ Claimable(res, s)
  /\ sources[req[t].owner].state # "closed"
  /\ read > 0
  /\ res' = Claimed(res, s, PriorityOf[f])
  /\ held' = Evicted(s) \cup {[key |-> Key(t), slot |-> s, valid |-> read]}
  /\ byslot' = [byslot EXCEPT ![s] = Key(t)]
  /\ block' = [block EXCEPT ![s] = [file |-> f, start |-> start[t],
                                    version |-> disk[f].version]]
  /\ claim' = [claim EXCEPT ![t] = [slot |-> s, valid |-> read]]
  /\ pc' = [pc EXCEPT ![t] = "copy"]
  /\ UNCHANGED <<req, start, out, disk, sources, fence>>

(* Mutant: the slot goes back and its old key stays in the dictionary.     *)
AbandonKeepingEntry(t, s) ==
  /\ res' = Forget(Unpin(Claimed(res, s, PriorityOf[FileOf(t)]), s), s)
  /\ held' = held
  /\ byslot' = [byslot EXCEPT ![s] = NoKey]

(* A fetch that gave nothing: the slot goes back, and what it held before  *)
(* is gone from both directions.                                           *)
Abandon(t, s) ==
  /\ res' = Forget(Unpin(Claimed(res, s, PriorityOf[FileOf(t)]), s), s)
  /\ held' = Evicted(s)
  /\ byslot' = [byslot EXCEPT ![s] = NoKey]

(* The file has nothing at the window: the caller asks the file itself.    *)
HoldNothing(t, s) ==
  /\ Missed(t)
  /\ Claimable(res, s)
  /\ sources[req[t].owner].state # "closed"
  /\ Given(FileOf(t), start[t], WindowSize) = 0
  /\ Abandon(t, s)
  /\ pc' = [pc EXCEPT ![t] = "direct"]
  /\ UNCHANGED <<block, req, start, claim, out, disk, sources, fence>>

(* The fetch throws, part of the buffer written or not: the source's file  *)
(* has been closed under it, or the read failed.                           *)
HoldFault(t, s) ==
  /\ Missed(t)
  /\ Claimable(res, s)
  /\ Abandon(t, s)
  /\ block' = [block EXCEPT ![s] = NoBytes]
  /\ pc' = [pc EXCEPT ![t] = "failed"]
  /\ UNCHANGED <<req, start, claim, out, disk, sources, fence>>

(* Mutant: each window is copied up to the length of the whole request.    *)
CopyTooMuch(t) ==
  LET from == Larger(0, req[t].off - start[t])
      take == Smaller(claim[t].valid - from, req[t].len)
  IN
  /\ pc[t] = "copy"
  /\ out' = IF from >= claim[t].valid THEN out
            ELSE [out EXCEPT ![t] = @ \o InSlot(claim[t].slot, from, take)]
  /\ pc' = [pc EXCEPT ![t] =
              IF from >= claim[t].valid \/ claim[t].valid < WindowSize
                 \/ start[t] + WindowSize > LastWindow(req[t])
              THEN "finish" ELSE "advance"]
  /\ UNCHANGED <<cacheVars, req, start, claim, disk, sources, fence>>

(* The copy out of the claimed slot.  A short window is the end of the     *)
(* file, and so is a request that starts past what the window gave.        *)
Copy(t) ==
  LET from == Larger(0, req[t].off - start[t])
      take == Smaller(claim[t].valid - from, req[t].len - Len(out[t]))
  IN
  /\ pc[t] = "copy"
  /\ out' = IF from >= claim[t].valid THEN out
            ELSE [out EXCEPT ![t] = @ \o InSlot(claim[t].slot, from, take)]
  /\ pc' = [pc EXCEPT ![t] =
              IF from >= claim[t].valid \/ claim[t].valid < WindowSize
                 \/ start[t] + WindowSize > LastWindow(req[t])
              THEN "finish" ELSE "advance"]
  /\ UNCHANGED <<cacheVars, req, start, claim, disk, sources, fence>>

(* The finally: the claim is given up, and the loop goes on or is done.    *)
Release(t) ==
  /\ pc[t] \in {"advance", "finish"}
  /\ res' = Unpin(res, claim[t].slot)
  /\ claim' = [claim EXCEPT ![t] = [slot |-> NoSlot, valid |-> 0]]
  /\ start' = IF pc[t] = "advance" THEN [start EXCEPT ![t] = @ + WindowSize] ELSE start
  /\ pc' = [pc EXCEPT ![t] = IF pc[t] = "advance" THEN "hold" ELSE "done"]
  /\ UNCHANGED <<held, byslot, block, req, out, disk, sources, fence>>

(* The rest of the read straight from the file.                            *)
ReadDirect(t) ==
  LET f == FileOf(t)
      n == Given(f, req[t].off + Len(out[t]), req[t].len - Len(out[t]))
  IN
  /\ pc[t] = "direct"
  /\ sources[req[t].owner].state # "closed"
  /\ out' = [out EXCEPT ![t] = @ \o OnDisk(f, req[t].off + Len(@), n)]
  /\ pc' = [pc EXCEPT ![t] = "done"]
  /\ UNCHANGED <<cacheVars, req, start, claim, disk, sources, fence>>

DirectFault(t) ==
  /\ pc[t] = "direct"
  /\ pc' = [pc EXCEPT ![t] = "failed"]
  /\ UNCHANGED <<cacheVars, req, start, claim, out, disk, sources, fence>>

-----------------------------------------------------------------------------
(* Opening, dropping, disposing, and the other process. *)

(* A source is opened over a file and given the next owner's number.       *)
Open(t, f) ==
  /\ pc[t] \in Resting
  /\ Len(sources) < MaxOwners
  /\ sources' = Append(sources, [file |-> f, user |-> t, state |-> "open",
                                 floor |-> disk[f].version])
  /\ UNCHANGED <<cacheVars, readerVars, disk, fence>>

(* Every window in a set of entries is dropped, except those claimed.      *)
Drop(entries) ==
  LET dropped == {e \in entries : res.pins[e.slot] = 0}
      slots   == {e.slot : e \in dropped}
  IN
  /\ held' = held \ dropped
  /\ byslot' = [s \in Slots |-> IF s \in slots THEN NoKey ELSE byslot[s]]
  /\ res' = [res EXCEPT
               !.list  = [s \in Slots |-> IF s \in slots THEN Free ELSE res.list[s]],
               !.older = {p \in @ : p[1] \notin slots /\ p[2] \notin slots}]
  /\ UNCHANGED block

(* Mutant: a file's first window is missed.                                *)
OfOwnerPastFirst(o) == {e \in held : e.key[1] = o /\ e.key[2] > 0}

OfOwner(o) == {e \in held : e.key[1] = o}

(* Invalidate, called by the thread that uses the source.                  *)
Invalidate(o) ==
  /\ sources[o].state = "open" /\ pc[sources[o].user] \in Resting
  /\ Drop(OfOwner(o))
  /\ sources' = [sources EXCEPT ![o].floor = disk[sources[o].file].version]
  /\ UNCHANGED <<readerVars, disk, fence>>

(* InvalidateAll, called by the engine's user on any thread at any time.   *)
InvalidateAll ==
  /\ sources # <<>>
  /\ Drop(held)
  /\ fence' = [f \in Files |-> disk[f].version]
  /\ UNCHANGED <<readerVars, disk, sources>>

(* Dispose refuses reads from now on and drops the source's windows; the   *)
(* file itself is closed after.  The thread that uses the source does it   *)
(* between reads; the engine closes its tables whatever they are doing.    *)
Dispose(o) ==
  /\ sources[o].state = "open"
  /\ EngineCloses \/ pc[sources[o].user] \in Resting
  /\ Drop(OfOwner(o))
  /\ sources' = [sources EXCEPT ![o].state = "disposed"]
  /\ UNCHANGED <<readerVars, disk, fence>>

DisposeInner(o) ==
  /\ sources[o].state = "disposed"
  /\ sources' = [sources EXCEPT ![o].state = "closed"]
  /\ UNCHANGED <<cacheVars, readerVars, disk, fence>>

(* Another process writes the file; it may grow or shrink.                 *)
WriteFile(f, size) ==
  /\ disk[f].version < MaxVersion
  /\ disk' = [disk EXCEPT ![f] = [version |-> @.version + 1, size |-> size]]
  /\ UNCHANGED <<cacheVars, readerVars, sources, fence>>

-----------------------------------------------------------------------------
ReadStep(t) ==
  \/ HoldHit(t) \/ HoldFull(t) \/ Copy(t) \/ Release(t)
  \/ ReadDirect(t) \/ DirectFault(t)
  \/ \E s \in Slots : HoldFill(t, s) \/ HoldNothing(t, s) \/ HoldFault(t, s)

Next ==
  \/ \E t \in Threads : ReadStep(t)
  \/ \E t \in Threads, o \in 1 .. Len(sources), r \in Reads : BeginRead(t, o, r[1], r[2])
  \/ \E t \in Threads, f \in Files : Open(t, f)
  \/ \E o \in 1 .. Len(sources) : Invalidate(o) \/ Dispose(o) \/ DisposeInner(o)
  \/ InvalidateAll
  \/ \E f \in Files, size \in Sizes : WriteFile(f, size)

Spec == Init /\ [][Next]_vars

(* A thread inside Read keeps running: nothing in it waits on another      *)
(* thread except for the lock, which no thread keeps.                      *)
FairSpec == Spec /\ \A t \in Threads : WF_vars(ReadStep(t))

-----------------------------------------------------------------------------
(* Safety. *)

(* The two directions agree: the slots that hold a block are exactly those *)
(* registered under a key, each key is registered once, and its entry is   *)
(* in the dictionary.  (A slot claimed and never registered never comes    *)
(* back; a key that outlives its slot serves another file's bytes.)        *)
Bookkeeping ==
  /\ \A e \in held : byslot[e.slot] = e.key
  /\ \A s \in Slots : byslot[s] # NoKey => \E e \in held : e.slot = s /\ e.key = byslot[s]
  /\ \A e, d \in held : e.key = d.key => e = d
  /\ \A s \in Slots : (byslot[s] # NoKey) <=> (res.list[s] # Free)

Claimants(s) == {t \in Threads : pc[t] \in Claiming /\ claim[t].slot = s}

(* Every claim is some thread's, and every thread's claim is counted: none *)
(* leaks on any path out of Read, none is given up twice.                  *)
ClaimsBalance == \A s \in Slots : res.pins[s] = Cardinality(Claimants(s))

(* While a thread holds a claim, its slot holds its own file's window,     *)
(* whatever the other threads fill, drop or dispose meanwhile.             *)
ClaimedWindowStays ==
  \A t \in Threads : pc[t] \in Claiming =>
    /\ claim[t].slot \in Slots
    /\ block[claim[t].slot].file = FileOf(t)
    /\ block[claim[t].slot].start = start[t]

IsFrom(bytes, f, off) ==
  \A i \in 1 .. Len(bytes) : bytes[i].file = f /\ bytes[i].pos = off + i - 1

(* A read never returns another file's bytes, nor bytes of its own file    *)
(* from anywhere but where it asked.                                       *)
BytesAreMine == \A t \in Threads : IsFrom(out[t], FileOf(t), req[t].off)

(* A read of a file nobody has written since the source was opened or last *)
(* dropped its windows returns all that the file has of what was asked.    *)
ReadIsSlice ==
  \A t \in Threads :
    pc[t] = "done" /\ disk[FileOf(t)].version = req[t].floor =>
      out[t] = OnDisk(FileOf(t), req[t].off, Given(FileOf(t), req[t].off, req[t].len))

(* A read begun after a table dropped its own blocks sees nothing older    *)
(* than the drop.                                                          *)
FreshAfterOwnDrop ==
  \A t \in Threads : \A i \in 1 .. Len(out[t]) : out[t][i].version >= req[t].floor

(* The same for the engine's drop, which its doc states for every window   *)
(* of every file; a window claimed at that instant is left behind, and     *)
(* later reads are served from it.                                         *)
FreshAfterEngineDrop ==
  \A t \in Threads : \A i \in 1 .. Len(out[t]) : out[t][i].version >= req[t].fence

(* Tables that are closed between their own reads leave nothing behind.    *)
ClosedHoldsNothing ==
  \A o \in 1 .. Len(sources) : sources[o].state # "open" => OfOwner(o) = {}

(* A block is displaced only when no slot is free and no list below its    *)
(* own has a block to give up: a scan of data never costs an index block.  *)
ScanSparesTheIndex ==
  [][\A s \in Slots :
       (byslot[s] # NoKey /\ byslot'[s] \notin {NoKey, byslot[s]}) =>
         \A x \in Slots :
           /\ res.list[x] # Free
           /\ Retirable(res, x) => res.list[x] >= res.list[s]]_vars

(* Every read ends, whatever the other threads do to the pool.             *)
ReadsEnd == \A t \in Threads : pc[t] \notin Resting ~> pc[t] \in Resting

-----------------------------------------------------------------------------
(* The strengthening that makes the safety invariants inductive.           *)

(* An entry names a source, and its slot holds that source's window.       *)
EntriesTrue ==
  \A e \in held :
    /\ e.key[1] \in 1 .. Len(sources)
    /\ block[e.slot].file = sources[e.key[1]].file
    /\ block[e.slot].start = e.key[2]
    /\ e.valid <= WindowSize

FreeUnclaimed == \A s \in Slots : res.list[s] = Free => res.pins[s] = 0

(* A claimed slot stays registered under the key it was claimed for.       *)
ClaimRegistered ==
  \A t \in Threads : pc[t] \in Claiming =>
    /\ claim[t].slot \in Slots
    /\ byslot[claim[t].slot] = Key(t)
    /\ claim[t].valid <= WindowSize

ReadsASource ==
  \A t \in Threads :
    IF pc[t] = "idle" THEN out[t] = <<>> ELSE req[t].owner \in 1 .. Len(sources)

(* The window the loop is at and the bytes copied so far go together.      *)
LoopPosition ==
  \A t \in Threads :
    /\ req[t].len > 0 \/ pc[t] = "idle"
    /\ pc[t] \in {"hold", "copy", "advance"} => start[t] + WindowSize > req[t].off
    /\ pc[t] \in {"hold", "copy"} =>
         /\ Len(out[t]) = Larger(0, start[t] - req[t].off)
         /\ start[t] < req[t].off + req[t].len
    /\ pc[t] = "advance" =>
         /\ Len(out[t]) = start[t] + WindowSize - req[t].off
         /\ start[t] + WindowSize < req[t].off + req[t].len

IInv ==
  /\ TypeOK /\ Bookkeeping /\ ClaimsBalance /\ BytesAreMine
  /\ EntriesTrue /\ FreeUnclaimed /\ ClaimRegistered /\ ReadsASource /\ LoopPosition
============================================================================
