------------------------------- MODULE BTree -------------------------------
(***************************************************************************)
(* A tag of a CDX file as the C engine changes it (src/original/source:    *)
(* I4TAG.C, b4block.c, i4addtag.c, i4remove.c, i4index.c).                 *)
(*                                                                         *)
(* A process sees the tag through the blocks it has in memory: the path    *)
(* from the root to where it stands (TAG4FILE.blocks) and the blocks it    *)
(* left and may need again (saved); all else it reads from the file and    *)
(* some it writes there at once.  The operators change such a view         *)
(*   s = [f: the file's blocks, path, saved, free: the head of the free    *)
(*        list, eof: the next block of the file]                           *)
(* An element of path or saved is [node, on, blk, changed].  Blocks are    *)
(* [leaf, ents, kids, left, right]; an entry is <<key, record>>, in a      *)
(* branch the last one of the block below.                                 *)
(***************************************************************************)
EXTENDS Integers, Sequences, FiniteSets, SequencesExt, FiniteSetsExt

CONSTANTS
  Size(_),    \* bytes an entry of the key takes in a leaf
  LeafRoom,   \* bytes for the entries of a leaf
  MaxBranch,  \* entries of a branch
  MaxNodes,   \* bound: blocks of the file
  NoNode

Root == 1  \* tfile4swap leaves the root where it is

Block(leaf, ents, kids, left, right) ==
  [leaf |-> leaf, ents |-> ents, kids |-> kids, left |-> left, right |-> right]

EmptyLeaf == Block(TRUE, <<>>, <<>>, NoNode, NoNode)

(* index4shrink writes the head of the free list over the block's start:   *)
(* what is read there has no keys.                                         *)
Freed(next) == Block(FALSE, <<>>, <<next>>, NoNode, NoNode)

Top(s) == Last(s.path)
On(n, b) == [node |-> n, on |-> 1, blk |-> b, changed |-> FALSE]
At(e) == e.blk.ents[e.on]
LastOn(e) == e.on = Len(e.blk.ents)

Less(a, b) == a[1] < b[1] \/ (a[1] = b[1] /\ a[2] < b[2])

RECURSIVE Sum(_)
Sum(ents) == IF ents = <<>> THEN 0 ELSE Size(Head(ents)[1]) + Sum(Tail(ents))

SetTop(s, e) == [s EXCEPT !.path[Len(s.path)] = e]

(* b4flush of some blocks. *)
Flush(f, es) ==
  LET last(n) == {i \in DOMAIN es : es[i].changed /\ es[i].node = n}
  IN  [n \in DOMAIN f |-> IF last(n) = {} THEN f[n] ELSE es[Max(last(n))].blk]

------------------------------------------------------------------------------
(* Going through the tree. *)

(* i4readBlock: a block without keys, or one whose last record is not the  *)
(* one its parent names, was changed meanwhile.                            *)
Believable(s, n, b) ==
  /\ b.ents = <<>> => n = Root
  /\ s.path # <<>> => At(Top(s))[2] = Last(b.ents)[2]

(* tfile4down: "leaf" when there is nothing below, "stale" when what was   *)
(* read cannot be right.  The block that was left last may be the one.     *)
Down(s) ==
  LET n    == IF s.path = <<>> THEN Root ELSE Top(s).blk.kids[Top(s).on]
      mine == s.saved # <<>> /\ Last(s.saved).node = n
      f    == Flush(s.f, s.saved)
  IN
  IF s.path # <<>> /\ Top(s).blk.leaf THEN [s |-> s, rc |-> "leaf"]
  ELSE IF mine
  THEN [s |-> [s EXCEPT !.path = Append(@, [Last(s.saved) EXCEPT !.on = 1]),
                        !.saved = Front(@)], rc |-> "ok"]
  ELSE IF Believable(s, n, f[n])
  THEN [s |-> [s EXCEPT !.f = f, !.path = Append(@, On(n, f[n])), !.saved = <<>>],
        rc |-> "ok"]
  ELSE [s |-> [s EXCEPT !.f = f, !.saved = <<>>], rc |-> "stale"]

(* tfile4upToRoot. *)
Up(s) == [s EXCEPT !.saved = @ \o Reverse(s.path), !.path = <<>>]
UpToRoot(s) == Down(Up(s))

(* From where s stands down to a leaf, by the first or the last entry of   *)
(* each branch.                                                            *)
RECURSIVE Descend(_, _)
Descend(d, last) ==
  IF d.rc # "ok" \/ Top(d.s).blk.leaf THEN d
  ELSE Descend(Down(SetTop(d.s, [Top(d.s) EXCEPT !.on = IF last THEN Len(Top(d.s).blk.ents) ELSE 1])),
               last)

Stand(d, on) ==
  IF d.rc # "ok" THEN d ELSE [d EXCEPT !.s = SetTop(@, [Top(@) EXCEPT !.on = on])]

(* tfile4rlTop, tfile4rlBottom. *)
GoTop(s) == Descend(UpToRoot(s), FALSE)

GoBottom(s) ==
  LET d == Descend(UpToRoot(s), TRUE) IN
  IF d.rc # "ok" THEN d
  ELSE Stand(d, IF Top(d.s).blk.ents = <<>> THEN 1 ELSE Len(Top(d.s).blk.ents))

(* Mutant: the block behind an entry that is the same. *)
SeekBehind(b, e) ==
  LET i == SelectInSeq(b.ents, LAMBDA x : Less(e, x)) IN IF i = 0 THEN Len(b.ents) ELSE i

(* b4rBrseek: the first entry that is not before <<key, rec>>, or the last *)
BranchSeek(b, e) ==
  LET i == SelectInSeq(b.ents, LAMBDA x : ~Less(x, e)) IN IF i = 0 THEN Len(b.ents) ELSE i

HasKey(b, key) == \E i \in DOMAIN b.ents : b.ents[i][1] = key

(* tfile4go2: to the entry itself, or to where it belongs.  In a unique    *)
(* tag a branch that names the key with another record ends the search.    *)
RECURSIVE GoDown(_, _, _)
GoDown(d, e, unique) ==
  LET s == d.s
      b == Top(s).blk
      t == SetTop(s, [Top(s) EXCEPT !.on = BranchSeek(b, e)]) IN
  IF d.rc # "ok" \/ b.leaf THEN d
  ELSE IF unique /\ HasKey(b, e[1]) /\ At(Top(t))[2] # e[2]
  THEN [s |-> t, rc |-> "found"]
  ELSE GoDown(Down(t), e, unique)

Go(s, e, unique, adding) ==
  LET d == GoDown(UpToRoot(s), e, unique)
      b == Top(d.s).blk
      i == SelectInSeq(b.ents, LAMBDA x : ~Less(x, e))
      t == Stand(d, IF i = 0 THEN Len(b.ents) + 1 ELSE i).s IN
  IF d.rc # "ok" THEN d
  ELSE IF ~HasKey(b, e[1]) THEN [s |-> t, rc |-> "after"]
  ELSE IF ~adding /\ i # 0 /\ b.ents[i] = e THEN [s |-> t, rc |-> "ok"]
  ELSE [s |-> t, rc |-> "found"]

(* Mutant: a step into a neighbour goes to its far end. *)
SkipToTheEnd(s, forward) ==
  LET e    == Top(s)
      next == IF forward THEN e.blk.right ELSE e.blk.left
      g    == Flush(s.f, <<e>>)[next]
  IN
  IF forward /\ e.on < Len(e.blk.ents) THEN Stand([s |-> s, rc |-> "ok"], e.on + 1)
  ELSE IF ~forward /\ e.on > 1 THEN Stand([s |-> s, rc |-> "ok"], e.on - 1)
  ELSE IF next = NoNode THEN [s |-> (IF forward THEN GoBottom(s) ELSE GoTop(s)).s, rc |-> "end"]
  ELSE IF g.ents = <<>> THEN [s |-> s, rc |-> "stale"]
  ELSE [s |-> SetTop([s EXCEPT !.f = Flush(@, <<e>>)],
                     [On(next, g) EXCEPT !.on = IF forward THEN Len(g.ents) ELSE 1]),
        rc |-> "ok"]

(* tfile4skip by one: over the end of the leaf to its neighbour, which     *)
(* takes its place in the path; at the end of the tag to its bottom.       *)
Skip(s, forward) ==
  LET e    == Top(s)
      next == IF forward THEN e.blk.right ELSE e.blk.left
      g    == Flush(s.f, <<e>>)[next]
  IN
  IF forward /\ e.on < Len(e.blk.ents) THEN Stand([s |-> s, rc |-> "ok"], e.on + 1)
  ELSE IF ~forward /\ e.on > 1 THEN Stand([s |-> s, rc |-> "ok"], e.on - 1)
  ELSE IF next = NoNode THEN [s |-> (IF forward THEN GoBottom(s) ELSE GoTop(s)).s, rc |-> "end"]
  ELSE IF g.ents = <<>> THEN [s |-> s, rc |-> "stale"]
  ELSE [s |-> SetTop([s EXCEPT !.f = Flush(@, <<e>>)],
                     [On(next, g) EXCEPT !.on = IF forward THEN 1 ELSE Len(g.ents)]),
        rc |-> "ok"]

------------------------------------------------------------------------------
(* Blocks of the file. *)

(* index4extend: from the free list, or at the file's end. *)
Extend(s) ==
  IF s.free = NoNode THEN [s |-> [s EXCEPT !.eof = @ + 1], node |-> s.eof]
  ELSE [s |-> [s EXCEPT !.free = s.f[s.free].kids[1]], node |-> s.free]

(* index4shrink. *)
Shrink(s, n) == [s EXCEPT !.f[n] = Freed(s.free), !.free = n]

------------------------------------------------------------------------------
(* Adding: i4addtag.c. *)

Room(b, e) == IF b.leaf THEN Sum(b.ents) + Size(e[1]) <= LeafRoom
              ELSE Len(b.ents) < MaxBranch

(* b4insertLeaf; b4insertBranch puts the entry of the left block before    *)
(* the one that named it, which from now on leads to the right block.      *)
Insert(b, on, e, kid) ==
  [b EXCEPT !.ents = InsertAt(@, on, e),
            !.kids = IF b.leaf THEN @ ELSE InsertAt(@, on + 1, kid)]

Part(b, from, to) ==
  [b EXCEPT !.ents = SubSeq(@, from, to),
            !.kids = IF b.leaf THEN @ ELSE SubSeq(@, from, to)]

(* How many entries go to the right block (tfile4leafSplit,                *)
(* tfile4branchSplit).  A leaf with one entry gives it away or, when the   *)
(* new one comes after it, cannot be split.                                *)
Right(b, on) ==
  LET n == Len(b.ents) IN
  IF b.leaf THEN IF n = 1 THEN 1 ELSE n \div 2
  ELSE IF on - 1 > (n + 1) \div 2 THEN (n + 1) \div 2 - 1 ELSE (n + 1) \div 2

CanSplit(b, on) == b.leaf /\ Len(b.ents) = 1 => on = 1

(* Mutant: the right neighbour still leads to the block that was split.    *)
SplitNotTied(s, e, n) == s

(* tfile4split: the right neighbour's pointer goes to the file at once.    *)
SplitLinks(s, e, n) ==
  IF e.blk.right = NoNode THEN s ELSE [s EXCEPT !.f[e.blk.right].left = n]

(* b4insertBranchBalance, as it works: a branch of two gives its first     *)
(* entry to a left neighbour that has one.                                 *)
CanBalance(s) ==
  LET e == Top(s) up == s.path[Len(s.path) - 1] IN
  /\ ~e.blk.leaf /\ Len(s.path) > 1 /\ Len(e.blk.ents) = 2 /\ e.on > 1
  /\ up.on > 1 /\ Len(s.f[e.blk.left].ents) < 2

Balance(s) ==
  LET e  == Top(s)
      k  == Len(s.path)
      l  == s.f[e.blk.left]
      l2 == [l EXCEPT !.ents = Append(@, e.blk.ents[1]), !.kids = Append(@, e.blk.kids[1])]
      up == s.path[k - 1]
  IN
  [s EXCEPT !.f[e.blk.left] = l2,
            !.path[k] = [e EXCEPT !.blk = Part(@, 2, 2), !.on = @ - 1, !.changed = TRUE],
            !.path[k - 1] = [up EXCEPT !.blk.ents[up.on - 1] = e.blk.ents[1],
                                       !.changed = TRUE]]

(* b4brReplace. *)
Replace(e, last) == [e EXCEPT !.blk.ents[e.on] = last, !.changed = TRUE]

PopTop(s) == [s EXCEPT !.path = Front(@), !.saved = Append(@, Last(s.path))]

(* A new root above the two halves: the halves' left one moves to the new  *)
(* block, so that the root stays where it is (tfile4swap).                 *)
NewRoot(s, todo, last) ==
  LET x    == Extend(s)
      left == Last(s.saved)
      moved == [left EXCEPT !.node = x.node]
      root == [node |-> Root, on |-> 1, changed |-> TRUE,
               blk |-> Block(FALSE, <<todo.e, last>>, <<x.node, todo.kid>>, NoNode, NoNode)]
  IN [x.s EXCEPT !.path = <<root>>, !.saved = Append(Front(@), moved),
                 !.f[left.blk.right].left = x.node]

(* tfile4addDo, from the leaf up.  todo is what to insert in this block;   *)
(* last, if upd, what the parents' last entries become; redo that the      *)
(* entry itself did not fit even after the split.                          *)
Nothing == [e |-> <<0, 0>>, kid |-> NoNode]

RECURSIVE Climb(_, _, _, _, _)
Climb(s, todo, last, upd, redo) ==
  IF s.path = <<>>
  THEN IF todo = Nothing THEN [s |-> s, rc |-> IF redo THEN "again" ELSE "ok"]
       ELSE [s |-> NewRoot(s, todo, last), rc |-> IF redo THEN "again" ELSE "ok"]
  ELSE
  LET e0   == Top(s)
      e    == IF upd THEN Replace(e0, last) ELSE e0
      upd1 == upd /\ LastOn(e)
      t    == SetTop(s, e)
      bal  == ~Room(e.blk, todo.e) /\ CanBalance(t)
      u    == IF bal THEN Balance(t) ELSE t
      w    == Top(u)
      put  == [w EXCEPT !.blk = Insert(@, w.on, todo.e, todo.kid), !.changed = TRUE]
      x    == Extend(u)
      n    == Len(w.blk.ents)
      r    == Right(w.blk, w.on)
      lb   == Part(w.blk, 1, n - r)
      rb   == Part(w.blk, n - r + 1, n)
      inL  == w.on <= n - r \/ n = r
      half == IF inL THEN lb ELSE rb
      on   == IF inL THEN w.on ELSE w.on - (n - r)
      fits == Room(half, todo.e)
      done == IF fits THEN Insert(half, on, todo.e, todo.kid) ELSE half
      l    == [(IF inL THEN done ELSE lb) EXCEPT !.right = x.node]
      rgt  == [(IF inL THEN rb ELSE done) EXCEPT !.left = w.node]
      v    == [SplitLinks(x.s, w, x.node) EXCEPT !.f[x.node] = rgt]
  IN
  IF todo = Nothing THEN Climb(PopTop(t), Nothing, last, upd1, redo)
  ELSE IF bal \/ Room(w.blk, todo.e)
  THEN Climb(PopTop(SetTop(u, put)), Nothing, IF w.blk.leaf THEN todo.e ELSE last,
             upd1 \/ LastOn(put), redo)
  ELSE IF ~CanSplit(w.blk, w.on) THEN [s |-> s, rc |-> "error"]
  ELSE Climb(PopTop(SetTop(v, [w EXCEPT !.blk = l, !.changed = TRUE])),
             [e |-> Last(l.ents), kid |-> x.node], Last(rgt.ents), TRUE,
             redo \/ ~fits)

(* tfile4add: again until the entry fits. *)
RECURSIVE Add(_, _, _)
AddAgain(c, e, unique) == IF c.rc = "again" THEN Add(c.s, e, unique) ELSE c

AddAt(g, e, unique) ==
  IF g.rc = "stale" THEN g
  ELSE IF unique /\ g.rc = "found" THEN [s |-> g.s, rc |-> "unique"]
  ELSE AddAgain(Climb(g.s, [e |-> e, kid |-> NoNode], e, FALSE, FALSE), e, unique)

Add(s, e, unique) == AddAt(Go(s, e, unique, TRUE), e, unique)

------------------------------------------------------------------------------
(* Removing: i4remove.c. *)

(* tfile4removeBranch: the block goes to the free list, and its neighbours *)
(* in the file are tied together; the root becomes an empty leaf.          *)
RemoveBranch(s) ==
  LET e == Top(s)
      t == Shrink(s, e.node)
      f == [n \in DOMAIN t.f |->
              IF n = e.blk.left THEN [t.f[n] EXCEPT !.right = e.blk.right]
              ELSE IF n = e.blk.right THEN [t.f[n] EXCEPT !.left = e.blk.left]
              ELSE t.f[n]] IN
  IF Len(s.path) = 1
  THEN SetTop(s, [e EXCEPT !.blk = EmptyLeaf, !.changed = TRUE])
  ELSE [t EXCEPT !.f = f, !.path = Front(@)]

(* tfile4removeCurrent: the entry, then up while a block is left empty,    *)
(* then the new last entry up while it is the last.  Blocks stay in path.  *)
RECURSIVE Adjust(_, _, _)
Adjust(s, k, last) ==
  IF k = 0 THEN s
  ELSE LET e == Replace(s.path[k], last)
           t == [s EXCEPT !.path[k] = e]
       IN  IF LastOn(e) THEN Adjust(t, k - 1, last) ELSE t

Without(b, on) ==
  [b EXCEPT !.ents = RemoveAt(@, on), !.kids = IF b.leaf THEN @ ELSE RemoveAt(@, on)]

RECURSIVE RemoveCurrent(_)
RemoveCurrent(s) ==
  LET e == Top(s)
      n == Len(e.blk.ents)
      b == Without(e.blk, e.on) IN
  IF n = 1 THEN IF Len(s.path) = 1 THEN RemoveBranch(s) ELSE RemoveCurrent(RemoveBranch(s))
  ELSE IF e.on < n THEN SetTop(s, [e EXCEPT !.blk = b, !.changed = TRUE])
  ELSE Adjust(SetTop(s, [e EXCEPT !.blk = b, !.on = n - 1, !.changed = TRUE]),
              Len(s.path) - 1, Last(b.ents))

(* tfile4remove. *)
RemoveEntry(s, e, unique) ==
  LET g == Go(s, e, unique, FALSE) IN
  IF g.rc = "ok" THEN [s |-> RemoveCurrent(g.s), rc |-> "ok"]
  ELSE IF g.rc = "stale" THEN g ELSE [s |-> g.s, rc |-> "entry"]
=============================================================================
