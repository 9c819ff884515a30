------------------------------ MODULE IndexTag ------------------------------
(***************************************************************************)
(* Programs that share an index file (src/original/source: i4index.c,      *)
(* I4LOCK.C, I4TAG.C).  One changes the tag under the index lock, in its   *)
(* memory, and writes it when it gives the lock back: the header with the  *)
(* new version first, then the blocks.  The others read without a lock,    *)
(* see from the version when what they remember is old, and from the       *)
(* blocks when they do not fit together.                                   *)
(***************************************************************************)
EXTENDS BTree

CONSTANTS
  Procs,
  Keys, Recs,  \* entries are <<key, record>>
  Unique,      \* the tag is unique
  Starts,      \* bound: what the tag may have at first, as sequences of entries
  MaxVersion,  \* bound: changes of the file's version
  None

VARIABLES
  file,    \* block number -> block
  header,  \* the file's header: version, free list; and its end
  holder,  \* who holds the index lock, or None
  view,    \* what each process has: path, saved, free, eof
  old,     \* INDEX4FILE.versionOld
  seen,    \* INDEX4FILE.versionReadUnlocked
  phase,   \* what giving the lock back has come to
  did,     \* what the holder has done to the tag
  rc       \* the result of the last change

vars == <<file, header, holder, view, old, seen, phase, did, rc>>

Entries == Keys \X Recs
Idle == [op |-> "none", e |-> <<0, 0>>]
NoView == [path |-> <<>>, saved |-> <<>>, free |-> NoNode, eof |-> 2]

NewFile == [f |-> [n \in 1 .. MaxNodes |-> IF n = Root THEN EmptyLeaf ELSE Freed(NoNode)],
            path |-> <<>>, saved |-> <<>>, free |-> NoNode, eof |-> Root + 1]

(* The view of one who has written his blocks and keeps none. *)
Settled(s) == [s EXCEPT !.f = Flush(@, s.saved \o s.path), !.path = <<>>, !.saved = <<>>]

(* The tag as somebody left it who added the entries es. *)
RECURSIVE Built(_, _)
Built(s, es) ==
  IF es = <<>> THEN s ELSE Built(Settled(Add(s, Head(es), FALSE).s), Tail(es))

(* The programs start with a tag that has the entries of one of Starts. *)
Init ==
  /\ \E es \in Starts : \E s \in {Built(NewFile, es)} :
       file = s.f /\ header = [version |-> 0, free |-> s.free, eof |-> s.eof]
  /\ holder = None
  /\ view = [p \in Procs |-> NoView]
  /\ old = [p \in Procs |-> 0] /\ seen = [p \in Procs |-> 0]
  /\ phase = "work" /\ did = Idle /\ rc = "ok"

(* The view of p as the operators of BTree take it. *)
View(p) == [f |-> file, path |-> view[p].path, saved |-> view[p].saved,
            free |-> view[p].free, eof |-> view[p].eof]

(* The blocks as they will be when the holder has written all. *)
Blocks == IF holder = None THEN file
          ELSE Flush(file, view[holder].saved \o view[holder].path)

RECURSIVE Under(_, _)
Under(b, n) == IF b[n].leaf THEN Range(b[n].ents)
               ELSE UNION {Under(b, m) : m \in Range(b[n].kids)}

TagEntries == UNION {Under(b, Root) : b \in {Blocks}}

Forget(s) == [s EXCEPT !.path = <<>>, !.saved = <<>>]

(* A call leaves s. *)
Leave(p, s) ==
  /\ file' = s.f
  /\ view' = [view EXCEPT ![p] = [path |-> s.path, saved |-> s.saved,
                                  free |-> s.free, eof |-> s.eof]]

------------------------------------------------------------------------------
(* index4versionCheck without the lock: the blocks go when the version is  *)
(* one that was not seen; versionOld stays.                                *)
Check(p) ==
  /\ holder # p
  /\ header.version \notin {old[p], seen[p]}
  /\ seen' = [seen EXCEPT ![p] = header.version]
  /\ Leave(p, Forget(View(p)))
  /\ UNCHANGED <<header, holder, old, phase, did, rc>>

(* index4lock: the version is looked at under the lock, the free list and  *)
(* the file's end are the file's; the place in the tag is found again.     *)
Again(s, was) ==
  IF was = <<>> \/ ~Last(was).blk.leaf \/ Last(was).on > Len(Last(was).blk.ents) THEN s
  ELSE Go(s, At(Last(was)), Unique, FALSE).s

Lock(p) ==
  LET s == [View(p) EXCEPT !.free = header.free, !.eof = header.eof] IN
  /\ holder = None /\ holder' = p
  /\ Leave(p, IF header.version = old[p] THEN s ELSE Again(Forget(s), s.path))
  /\ old' = [old EXCEPT ![p] = header.version]
  /\ seen' = [seen EXCEPT ![p] = header.version]
  /\ did' = Idle
  /\ UNCHANGED <<header, phase, rc>>

(* Under the lock what cannot be right is an error (E81607). *)
Result(p, d) ==
  /\ Leave(p, d.s)
  /\ rc' = IF d.rc = "stale" THEN "corrupt" ELSE d.rc

Changing(p) == holder = p /\ phase = "work"

Spare(s) ==
  LET free[i \in 0 .. MaxNodes] ==
        IF i = 0 THEN s.free ELSE IF free[i - 1] = NoNode THEN NoNode
                                  ELSE s.f[free[i - 1]].kids[1] IN
  MaxNodes + 1 - s.eof + Cardinality({i \in 0 .. MaxNodes : free[i] # NoNode})

(* The changes of one record under the lock: its old entry goes, its new   *)
(* one comes, which is taken back when another tag refuses.                *)
AddKey(p, e) ==
  /\ Changing(p) /\ did.op \in {"none", "removed"}
  /\ e \notin TagEntries
  /\ Spare(View(p)) > 6
  /\ \E d \in {Add(View(p), e, Unique)} : Result(p, d)
  /\ did' = [op |-> "added", e |-> e]
  /\ UNCHANGED <<header, holder, old, seen, phase>>

RemoveKey(p, e) ==
  /\ Changing(p) /\ (did.op = "none" \/ (did.op = "added" /\ rc = "ok" /\ did.e = e))
  /\ \E d \in {RemoveEntry(View(p), e, Unique)} : Result(p, d)
  /\ did' = [op |-> IF did.op = "none" THEN "removed" ELSE "done", e |-> e]
  /\ UNCHANGED <<header, holder, old, seen, phase>>

------------------------------------------------------------------------------
(* index4unlock: index4update writes the header, if there is a new         *)
(* version, and each block that was changed; then the lock goes.           *)
Changed(p) == LET es == view[p].saved \o view[p].path
              IN  SelectSeq(es, LAMBDA e : e.changed)

WriteHeader(p) ==
  /\ Changing(p) /\ did # Idle
  /\ header.version < MaxVersion
  /\ header' = [version |-> old[p] + 1, free |-> view[p].free, eof |-> view[p].eof]
  /\ old' = [old EXCEPT ![p] = old[p] + 1]
  /\ seen' = [seen EXCEPT ![p] = old[p] + 1]
  /\ phase' = "write"
  /\ UNCHANGED <<file, holder, view, did, rc>>

Written(es, n) ==
  [i \in DOMAIN es |-> IF es[i].node = n THEN [es[i] EXCEPT !.changed = FALSE] ELSE es[i]]

WriteBlock(p) ==
  /\ holder = p /\ phase = "write" /\ Changed(p) # <<>>
  /\ LET e == Head(Changed(p)) IN
     /\ file' = [file EXCEPT ![e.node] = e.blk]
     /\ view' = [view EXCEPT ![p].path = Written(@, e.node), ![p].saved = Written(@, e.node)]
  /\ UNCHANGED <<header, holder, old, seen, phase, did, rc>>

Unlock(p) ==
  /\ holder = p
  /\ \/ phase = "work" /\ did = Idle
     \/ phase = "write" /\ Changed(p) = <<>>
  /\ holder' = None /\ phase' = "work" /\ did' = Idle
  /\ UNCHANGED <<file, header, view, old, seen, rc>>

------------------------------------------------------------------------------
(* Reading, with the lock or without it.  A read that finds the file       *)
(* changing forgets all blocks and starts again (tfile4outOfDate).         *)
Read(p, d) ==
  Leave(p, IF d.rc = "stale" THEN Forget(d.s) ELSE d.s)

Standing(p) ==
  LET w == view[p].path IN
  w # <<>> /\ Last(w).blk.leaf /\ Last(w).on <= Len(Last(w).blk.ents)

Look(p, e) ==
  /\ phase = "work" => holder # p \/ did = Idle
  /\ \E d \in {Go(View(p), e, Unique, FALSE)} : Read(p, d)
  /\ UNCHANGED <<header, holder, old, seen, phase, did, rc>>

Step(p, forward) ==
  /\ Standing(p)
  /\ \E d \in {Skip(View(p), forward)} : Read(p, d)
  /\ UNCHANGED <<header, holder, old, seen, phase, did, rc>>

Next == \E p \in Procs :
  \/ Check(p) \/ Lock(p) \/ WriteHeader(p) \/ WriteBlock(p) \/ Unlock(p)
  \/ \E e \in Entries : AddKey(p, e) \/ RemoveKey(p, e) \/ Look(p, e)
  \/ \E forward \in BOOLEAN : Step(p, forward)

Spec == Init /\ [][Next]_vars

------------------------------------------------------------------------------
(* Under the lock what a process has in memory is what the file has, but   *)
(* for what it changed itself.                                             *)
HolderIsCurrent ==
  holder # None =>
    LET p == holder es == view[p].saved \o view[p].path IN
    \A i \in DOMAIN es : es[i].changed \/ es[i].blk = file[es[i].node]

(* The blocks are a tree: every level is tied together from left to right, *)
(* a branch names the last entry of each block below it, the leaves have   *)
(* the entries in order, no block but an empty root is without entries,    *)
(* and no block of the tree is on the free list.                           *)
RECURSIVE Levels(_, _)
Levels(b, ns) ==
  IF b[Head(ns)].leaf THEN <<ns>>
  ELSE <<ns>> \o Levels(b, FlattenSeq([i \in DOMAIN ns |-> b[ns[i]].kids]))

Tied(b, ns) ==
  \A i \in DOMAIN ns :
    /\ b[ns[i]].left = IF i = 1 THEN NoNode ELSE ns[i - 1]
    /\ b[ns[i]].right = IF i = Len(ns) THEN NoNode ELSE ns[i + 1]

Named(b, n) ==
  \A i \in DOMAIN b[n].kids : Last(b[b[n].kids[i]].ents) = b[n].ents[i]

FreeList(b) ==
  LET head == IF holder = None THEN header.free ELSE view[holder].free
      next[i \in 1 .. MaxNodes] ==
        IF i = 1 THEN head ELSE IF next[i - 1] = NoNode THEN NoNode
                                ELSE b[next[i - 1]].kids[1]
  IN  {next[i] : i \in 1 .. MaxNodes} \ {NoNode}

TreeIsWhole ==
  LET b      == Blocks
      levels == Levels(b, <<Root>>)
      tree   == Range(FlattenSeq(levels))
      es     == FlattenSeq([i \in DOMAIN Last(levels) |-> b[Last(levels)[i]].ents]) IN
  /\ \A i \in DOMAIN levels : Tied(b, levels[i])
  /\ \A n \in tree : (b[n].ents # <<>> \/ n = Root) /\ Named(b, n)
  /\ \A i \in 2 .. Len(es) : Less(es[i - 1], es[i])
  /\ tree \cap FreeList(b) = {}

(* The blocks are a tree, and who has the lock has it in memory.           *)
TreeIsTrue == HolderIsCurrent /\ TreeIsWhole

(* Whatever its length, a key that is not refused by a unique tag is added. *)
NoKeyIsTooMany == rc # "error"

TagSet == INSTANCE KeySet WITH set <- TagEntries

(* Whatever the blocks do, the tag is the set of its entries: a change     *)
(* adds or removes the one entry, and gives the code that goes with it.    *)
ImplementsKeySet == TagSet!Spec

(* The entry where p stands. *)
Place(p) == At(Last(view[p].path))

(* Under the lock a step goes to the next entry of the tag.                *)
StepIsNext ==
  [][\A p \in Procs :
       (p = holder /\ Standing(p) /\ Step(p, TRUE)) =>
         \/ Place(p)' = Place(p) /\ \A e \in TagEntries : ~Less(Place(p), e)
         \/ Less(Place(p), Place(p)')
            /\ \A e \in TagEntries : ~(Less(Place(p), e) /\ Less(e, Place(p)'))]_view
=============================================================================
