------------------------------- MODULE Relate -------------------------------
(***************************************************************************)
(* A relation set (RELATION4) of the C engine: a top data file, slaves     *)
(* looked up from the record of their master, and the composite data file  *)
(* that relate4top, relate4bottom, relate4skip and relate4count walk.      *)
(* Each operator is the C function of its name on the state s of the       *)
(* relation and gives [s, rc]; c is the relation as it was set up:         *)
(*                                                                         *)
(*   slaves, master   the tree, Top is its root                            *)
(*   kind, act        relationType and errorAction of each slave           *)
(*   tag              the slave is looked up in a tag, else by record number *)
(*   link             the value of its masterExpr on a record of the master,*)
(*                    0 on a blank one                                     *)
(*   f                the data files, see DataFile; they do not change     *)
(*   query, ok        the data files the query names and the records of    *)
(*                    each that satisfy its part of it, 0 for a blank one  *)
(*   flags            the bitmap of the top file, once it is made          *)
(*   full             the bitmap stands for the whole query                *)
(*   sort             the data file the sort expression names, 0 for none  *)
(***************************************************************************)
EXTENDS DataFile, SequencesExt, TLC

CONSTANT Byte       \* the flags of one byte of a bitmap

Top == 1
Nodes(c) == DOMAIN c.kind
R(s, rc) == [s |-> s, rc |-> rc]
Failed(rc) == rc \in {"error", "terminate", "endless"}
SetD(s, n, d) == [s EXCEPT !.d[n] = d]
Gone(s, n, x) == R(SetD(s, n, x.d), x.rc)

(* A relation as relate4init, relate4createSlave, relate4querySet and
   relate4sortSet leave it. *)
NewRelation(c) ==
  [d |-> [n \in Nodes(c) |-> Start(c.f[n])],
   read |-> {}, scan |-> [n \in Nodes(c) |-> 0], sel |-> [n \in Nodes(c) |-> 0],
   level |-> 0, init |-> FALSE, back |-> FALSE,
   inSort |-> "no", unsorted |-> {}, listed |-> << >>, sorted |-> << >>,
   sortOn |-> 0, sortTo |-> 0, sortEnded |-> FALSE, sortEof |-> FALSE,
   countOnly |-> FALSE, count |-> -1,
   pre |-> [n \in Nodes(c) |-> [rec |-> 0, bof |-> FALSE, eof |-> FALSE]]]

(* relateList: the scan slaves of each data file. *)
ScanList(c, n) == SelectSeq(c.slaves[n], LAMBDA k : c.kind[k] = "scan")

(* The value of the master expression of slave n. *)
Shown(s, n) == IF s.d[n].buf = 0 THEN 0 ELSE s.d[n].rec
Link(c, s, n) == c.link[n][Shown(s, c.master[n])]

RECURSIVE Below(_, _)
Below(c, n) == {n} \cup UNION {Below(c, k) : k \in Range(c.slaves[n])}

RelEof(s) == IF s.inSort = "done" THEN s.sortEof ELSE s.d[Top].eof

(* relate4setNotRead stops at a data file that is not read. *)
RECURSIVE NotRead(_, _, _)
NotRead(c, s, n) ==
  IF n \notin s.read THEN s
  ELSE FoldLeft(LAMBDA t, k : NotRead(c, t, k), [s EXCEPT !.read = @ \ {n}], c.slaves[n])

(* relate4changed: all that was made at the last top or bottom is given up. *)
Changed(s) ==
  [s EXCEPT !.init = FALSE, !.count = -1, !.inSort = "no", !.listed = << >>,
            !.sel = [n \in DOMAIN @ |-> 0]]

----------------------------------------------------------------------------
(* The bitmap of the top data file. *)

IsSet(c, n, r) == n # Top \/ ~c.flags.on \/ (IF r = 0 THEN c.flags.flip ELSE r \in c.flags.set)

NextFlagged(c, from) ==
  LET S == {r \in c.flags.set : r >= from}
      num == c.f[Top].n + 1
  IN  CASE ~c.flags.on \/ from > num -> 0
        [] S = {}                    -> num - from + 1
        [] OTHER                     -> Min(S) - from

(* f4flagGetNextFlip backwards.  When the first byte is reached its stored
   bits are taken for the answer, turned round or not. *)
PrevFlagged(c, from) ==
  LET S == {r \in c.flags.set : r <= from}
      upper == {r \in S : r >= Byte}
      first == {r \in 0..Byte - 1 : IsSet(c, Top, r)}
      stored0 == first = IF c.flags.flip THEN 0..Byte - 1 ELSE {}
  IN  CASE ~c.flags.on \/ from < 0 \/ from > c.f[Top].n + 1 -> 0
        [] from >= Byte /\ upper = {} /\ stored0            -> from
        [] S = {}                                           -> from
        [] OTHER                                            -> from - Max(S)

----------------------------------------------------------------------------
(* Looking up one slave. *)

(* relate4blankSet: n and all below it have no record in this composite. *)
RECURSIVE BlankSet(_, _, _, _)
BlankBelow(c, s, n, dir) ==
  FoldLeft(LAMBDA t, k : BlankSet(c, t, k, dir), [s EXCEPT !.read = @ \cup {n}], c.slaves[n])

(* A slave left blank backwards stands before its first record. *)
BlankAtTop(c, s, n, top, dir) ==
  IF top.rc # "ok" THEN [SetD(s, n, top.d) EXCEPT !.read = @ \cup {n}]
  ELSE BlankBelow(c, SetD(s, n, [DSkipRec(c.f[n], top.d, -1).d EXCEPT !.rec = -1, !.buf = 0]), n, dir)

BlankSet(c, s, n, dir) ==
  IF dir = -1 THEN BlankAtTop(c, s, n, DTop(c.f[n], s.d[n]), dir)
  ELSE BlankBelow(c, SetD(s, n, GoEof(c.f[n], s.d[n]).d), n, dir)

(* Mutant: the first entry of the key, backwards too. *)
StaysOnFirst(f, d, key) == d

(* relate4tagFindLast: the last entry of the key the tag stands on. *)
RECURSIVE FindLast(_, _, _)
FindLast(f, d, key) ==
  LET After(p) == IF p.done = 0 THEN p.d
                  ELSE IF TagKey(f, p.d) = key THEN FindLast(f, p.d, key)
                  ELSE DSkip(f, p.d, -1).d
  IN  After(DSkip(f, d, 1))

(* Mutant: the slave keeps the record it had. *)
NoMatchKeepsRecord(c, s, n) ==
  CASE c.act[n] = "blank" -> R(s, "ok")
    [] c.act[n] = "skip"  -> R(s, "leave")
    [] OTHER              -> R(s, "terminate")

(* relate4lookupError *)
NoMatch(c, s, n) ==
  CASE c.act[n] = "blank" -> R(SetD(s, n, GoEof(c.f[n], s.d[n]).d), "ok")
    [] c.act[n] = "skip"  -> R(s, "leave")
    [] OTHER              -> R(s, "terminate")

LookupRecno(c, s, n) ==
  LET Went(g) == IF g.rc = "ok" THEN R(SetD(s, n, g.d), "ok")
                 ELSE IF c.kind[n] = "approx" THEN R(SetD(s, n, GoEof(c.f[n], g.d).d), "ok")
                 ELSE NoMatch(c, SetD(s, n, g.d), n)
  IN  Went(Go(c.f[n], s.d[n], Link(c, s, n)))

LookupTag(c, s, n, dir) ==
  LET f   == c.f[n]
      key == Link(c, s, n)
      s1  == IF c.kind[n] = "scan" THEN [s EXCEPT !.scan[c.master[n]] = key] ELSE s
      far == s.countOnly /\ c.slaves[n] = << >>
      At(d) == R(SetD(s1, n, IF far THEN d ELSE Go(f, d, TagRec(f, d)).d), "ok")
      Sought(t) ==
        IF t.rc # "ok" /\ c.kind[n] # "approx" THEN NoMatch(c, SetD(s1, n, t.d), n)
        ELSE IF t.rc = "eof" THEN R(SetD(s1, n, GoEof(f, t.d).d), "ok")
        ELSE At(IF dir < 0 /\ t.rc = "ok" /\ c.kind[n] = "scan" THEN FindLast(f, t.d, key) ELSE t.d)
  IN  Sought(TagSeek(f, s.d[n], key))

Lookup(c, s, n, dir) ==
  LET s1 == [s EXCEPT !.read = @ \cup {n}]
  IN  IF n = Top THEN R(s1, "ok")
      ELSE IF c.tag[n] THEN LookupTag(c, s1, n, dir) ELSE LookupRecno(c, s1, n)

----------------------------------------------------------------------------
(* The next record of one data file: the top file, or a scan slave. *)

(* The record is read, unless it is a leaf and only the count is asked for. *)
Reach(c, s, n, r) ==
  LET s1 == [s EXCEPT !.read = @ \cup {n}]
      d  == s.d[n]
      Went(g) == IF g.rc = "ok" THEN R(SetD(s1, n, g.d), "skipped") ELSE R(SetD(s, n, g.d), "eof")
  IN  IF d.rec = r THEN R(s1, "skipped")
      ELSE IF s.countOnly /\ n # Top /\ c.slaves[n] = << >>
      THEN R(SetD(s1, n, [d EXCEPT !.bof = FALSE, !.eof = FALSE,
                                   !.rec = IF @ = -1 THEN 0 ELSE @]), "skipped")
      ELSE Went(Go(c.f[n], d, r))

Matches(c, s, n) == n = Top \/ TagKey(c.f[n], s.d[n]) = s.scan[c.master[n]]

(* On along the tag, past records of the top file whose flag is off. *)
RECURSIVE NextEntry(_, _, _)
NextEntry(c, s, n) ==
  LET Entry(t) == IF IsSet(c, n, TagRec(c.f[n], t.d[n])) THEN Reach(c, t, n, TagRec(c.f[n], t.d[n]))
                  ELSE NextEntry(c, t, n)
      Moved(p) == IF p.done # 1 \/ ~Matches(c, SetD(s, n, p.d), n) THEN R(SetD(s, n, p.d), "eof")
                  ELSE Entry(SetD(s, n, p.d))
  IN  Moved(DSkip(c.f[n], s.d[n], 1))

Past(f, d) == [d EXCEPT !.at = Len(f.ents) + 1]

(* The first entry of the key that slave n is to be scanned for. *)
NextByKey(c, s, n, here) ==
  LET key == Link(c, s, n)
      s1  == [s EXCEPT !.scan[c.master[n]] = key]
      Sought(t) == IF t.rc # "ok" THEN R(SetD(s1, n, t.d), "eof")
                   ELSE Reach(c, SetD(s1, n, t.d), n, TagRec(c.f[n], t.d))
  IN  Sought(TagSeek(c.f[n], here, key))

NextByTag(c, s, n, here) ==
  IF ~s.d[n].bof THEN NextEntry(c, SetD(s, n, here), n)
  ELSE IF c.f[n].n = 0 THEN R(SetD(s, n, here), "eof")
  ELSE IF n = Top THEN R(SetD(s, n, here), "bof")
  ELSE NextByKey(c, s, n, here)

NextByNumber(c, s, from) ==
  LET At(r) == IF r > c.f[Top].n THEN R(s, "eof") ELSE Reach(c, s, Top, r)
  IN  At(from + NextFlagged(c, from))

NextInScan(c, s, n) ==
  LET f == c.f[n]
      d == s.d[n]
  IN  IF (s.inSort = "skip" /\ n \in s.unsorted) \/ d.eof THEN R(s, "eof")
      ELSE IF n = Top /\ ~f.sel THEN NextByNumber(c, s, IF d.bof THEN 1 ELSE d.rec + 1)
      ELSE NextByTag(c, s, n, IF d.rec = -1 THEN Past(f, d)
                              ELSE IF s.countOnly THEN d ELSE TagGo(f, d, d.buf, d.rec).d)

Read(c, s, n, r) ==
  LET Went(g) == IF g.rc = "ok" THEN R([SetD(s, n, g.d) EXCEPT !.read = @ \cup {n}], "skipped")
                 ELSE R(SetD(s, n, g.d), "eof")
  IN  Went(Go(c.f[n], s.d[n], r))

RECURSIVE PrevEntry(_, _, _)
PrevEntry(c, s, n) ==
  LET Entry(t) == IF IsSet(c, n, TagRec(c.f[n], t.d[n])) THEN Read(c, t, n, TagRec(c.f[n], t.d[n]))
                  ELSE PrevEntry(c, t, n)
      Moved(p) == IF p.done # -1 \/ ~Matches(c, SetD(s, n, p.d), n) THEN R(SetD(s, n, p.d), "bof")
                  ELSE Entry(SetD(s, n, p.d))
  IN  IF TagEof(c.f[n], s.d[n]) THEN R(s, "bof") ELSE Moved(DSkip(c.f[n], s.d[n], -1))

(* At the end of the relation the tag is put past its last entry and there
   is nothing before it. *)
PrevFromEof(c, s, n, here) ==
  LET on == SetD(s, n, [here EXCEPT !.eof = FALSE])
  IN  IF TagEof(c.f[n], here) THEN R(SetD(s, n, here), "bof")
      ELSE IF Matches(c, on, n) THEN Read(c, on, n, TagRec(c.f[n], here)) ELSE R(on, "bof")

(* A blank slave goes to its last match. *)
PrevByKey(c, s, n, here) ==
  LET key == Link(c, s, n)
      s1  == [s EXCEPT !.scan[c.master[n]] = key]
      Sought(t) == IF t.rc # "ok" THEN R(SetD(s1, n, t.d), "bof")
                   ELSE Read(c, SetD(s1, n, t.d), n, TagRec(c.f[n], t.d))
  IN  Sought(TagSeek([c.f[n] EXCEPT !.desc = ~@], here, key))

PrevByTag(c, s, n, here) ==
  IF RelEof(s) THEN PrevFromEof(c, s, n, here)
  ELSE IF ~s.d[n].eof THEN PrevEntry(c, SetD(s, n, here), n)
  ELSE IF c.f[n].n = 0 THEN R(SetD(s, n, here), "bof")
  ELSE IF n = Top THEN R(SetD(s, n, here), "eof")
  ELSE PrevByKey(c, s, n, here)

PrevByNumber(c, s, from) ==
  LET At(r) == IF r <= 0 THEN R(s, "bof") ELSE IF r > c.f[Top].n THEN R(s, "eof") ELSE Read(c, s, Top, r)
  IN  At(from - PrevFlagged(c, from))

PrevInScan(c, s, n) ==
  LET f == c.f[n]
      d == s.d[n]
  IN  IF n = Top /\ ~f.sel THEN PrevByNumber(c, s, d.rec - 1)
      ELSE PrevByTag(c, s, n, IF d.rec = -1 \/ d.eof THEN Past(f, d) ELSE TagGo(f, d, d.buf, d.rec).d)

(* relate4nextRecordInScan (by = 1), relate4prevRecordInScan (by = -1). *)
StepInScan(c, s, n, by) == IF by = 1 THEN NextInScan(c, s, n) ELSE PrevInScan(c, s, n)

----------------------------------------------------------------------------
(* The sorted composite file. *)

Rows(s) == Len(s.sorted)

(* relate4sortGetRecord, with the data files moved to the record. *)
SortGet(c, s, num) ==
  LET s1  == [s EXCEPT !.sortEof = FALSE]
      off == num > Rows(s)
      s2  == [s1 EXCEPT !.sortTo = IF num > @ THEN IF off THEN Rows(s) ELSE num ELSE @,
                        !.sortEnded = @ \/ off, !.sortEof = off /\ ~s.sortEnded]
      Put(t, n) == LET r == s.sorted[num][n]
                   IN  [SetD(t, n, IF r = 0 THEN GoEof(c.f[n], t.d[n]).d ELSE Go(c.f[n], t.d[n], r).d)
                        EXCEPT !.read = @ \cup {n}]
  IN  CASE num <= 0                         -> R(s, "bof")
        [] num <= s.sortTo /\ ~s.back       -> R(s1, "error")
        [] off                              -> R(s2, "eof")
        [] OTHER                            -> R(FoldLeft(Put, s2, s.listed), "ok")

SortNext(c, s) ==
  LET Got(g) == IF g.rc = "ok" THEN R([g.s EXCEPT !.sortOn = @ + 1], "ok")
                ELSE IF g.rc = "eof" THEN R([g.s EXCEPT !.sortOn = Rows(s) + 1], "eof")
                ELSE g
  IN  Got(SortGet(c, s, s.sortOn + 1))

SortPrev(c, s) ==
  LET Got(g) == IF g.rc = "ok" THEN R([g.s EXCEPT !.sortOn = @ - 1], "ok") ELSE g
  IN  Got(SortGet(c, s, s.sortOn - 1))

SortStep(c, s, by) == IF by = 1 THEN SortNext(c, s) ELSE SortPrev(c, s)

Sorted(s, n) == s.inSort = "done" /\ n \in Range(s.listed)

(* Off the end of the sort, or of the top file, after a step back. *)
OffTheEnd(c, s) ==
  CASE ~RelEof(s)          -> s
    [] s.inSort = "done"   -> [s EXCEPT !.sortOn = @ - 1, !.sortEof = FALSE]
    [] OTHER               -> SetD(s, Top, Go(c.f[Top], s.d[Top], c.f[Top].n).d)

----------------------------------------------------------------------------
(* Which data file moves: from the level, up the tree. *)

RECURSIVE Leaf(_, _, _)
Leaf(c, n, first) ==
  IF c.slaves[n] = << >> THEN n
  ELSE Leaf(c, IF first THEN Head(c.slaves[n]) ELSE Last(c.slaves[n]), first)

Sibling(c, n, by) ==
  LET sib == c.slaves[c.master[n]]
      i   == (CHOOSE j \in DOMAIN sib : sib[j] = n) + by
  IN  IF i \in DOMAIN sib THEN sib[i] ELSE 0

(* relate4nextRelationList (by = 1) and relate4prevRelationList (by = -1);
   setup only puts the level at the first leaf. *)
RECURSIVE RelationList(_, _, _, _)

Down(c, s, n, by, setup) ==
  LET leaf == Leaf(c, n, by = 1)
      s1   == [s EXCEPT !.level = IF leaf = Top THEN 0 ELSE c.master[leaf]]
  IN  IF setup THEN R(s1, "continue")
      ELSE IF leaf = Top THEN R(s1, IF by = 1 THEN "eof" ELSE "bof")
      ELSE IF c.kind[leaf] = "scan" THEN R(s1, "continue")
      ELSE RelationList(c, s1, by, FALSE)

Up(c, s, by) ==
  LET on == s.level
  IN  IF on = Top THEN R([s EXCEPT !.level = 0], IF by = 1 THEN "eof" ELSE "bof")
      ELSE IF Sibling(c, on, by) = 0 THEN R([s EXCEPT !.level = c.master[on]], "continue")
      ELSE Down(c, s, Sibling(c, on, by), by, FALSE)

Skipped(c, t, by) == R(IF by = 1 THEN t ELSE OffTheEnd(c, t), "ok")

(* The data file of the level has no further record: the next one up. *)
LevelDone(c, none, by) ==
  LET on == none.level
  IN  IF on = Top /\ by = -1 /\ none.d[Top].bof THEN R(none, "bof")
      ELSE IF on = Top /\ none.d[Top].eof THEN R(none, "eof")
      ELSE Up(c, none, by)

LevelMoved(c, step, by) ==
  IF step.rc = "skipped" THEN Skipped(c, step.s, by)
  ELSE LevelDone(c, BlankSet(c, step.s, step.s.level, by), by)

LevelStep(c, s, by) ==
  IF Sorted(s, s.level) THEN SortStep(c, s, by) ELSE LevelMoved(c, StepInScan(c, s, s.level, by), by)

RelationList(c, s, by, setup) ==
  LET on    == s.level
      moves == on = Top \/ c.kind[on] = "scan"
  IN  IF on = 0 \/ setup THEN Down(c, s, IF on = 0 THEN Top ELSE on, by, setup)
      ELSE IF moves THEN LevelStep(c, NotRead(c, s, on), by) ELSE Up(c, s, by)

(* relate4bottom, which a step back at the end of the relation calls. *)
RECURSIVE BottomRun(_, _), SkipInternal(_, _, _)

(* The scan slaves of the level in turn, from the one selected. *)
RECURSIVE TryScans(_, _, _)

(* The scan slave has no further record: the next of them. *)
NextScan(c, none, by) ==
  LET lv == none.level
      to == IF none.sel[lv] + by \in DOMAIN ScanList(c, lv) THEN none.sel[lv] + by ELSE 0
  IN  TryScans(c, [none EXCEPT !.sel[lv] = to], by)

ScanMoved(c, n, step, by) ==
  IF step.rc = "skipped" THEN Skipped(c, step.s, by) ELSE NextScan(c, BlankSet(c, step.s, n, by), by)

ScanStep(c, s, n, by) ==
  IF Sorted(s, n) THEN SortStep(c, s, by) ELSE ScanMoved(c, n, StepInScan(c, s, n, by), by)

TryScans(c, s, by) ==
  LET i == s.sel[s.level]
      n == ScanList(c, s.level)[i]
      AtBottom(b) == IF b.rc = "eof" THEN R(b.s, "bof") ELSE b
  IN  IF i = 0 THEN R(s, "continue")
      ELSE IF by = -1 /\ RelEof(s) /\ s.inSort # "done" THEN AtBottom(BottomRun(c, s))
      ELSE ScanStep(c, NotRead(c, s, n), n, by)

(* relate4nextScanRecord and relate4prevScanRecord *)
RECURSIVE ScanRecord(_, _, _)

NextLevel(c, t, by) == IF t.rc = "continue" THEN ScanRecord(c, t.s, by) ELSE t
Scanned(c, t, by) ==
  IF t.rc = "continue" THEN NextLevel(c, RelationList(c, t.s, by, FALSE), by) ELSE t

ScanRecord(c, s, by) ==
  LET lv  == IF s.level = 0 THEN Top ELSE s.level
      s0  == [s EXCEPT !.level = lv]
      len == Len(ScanList(c, lv))
      try == /\ len > 0
             /\ ~s.d[lv].eof
             /\ lv = Top \/ ~s.d[c.master[lv]].eof
  IN  Scanned(c, IF try
                 THEN TryScans(c, [s0 EXCEPT !.sel[lv] = IF @ # 0 THEN @ ELSE IF by = 1 THEN 1 ELSE len], by)
                 ELSE R(s0, "continue"), by)

----------------------------------------------------------------------------
(* The rest of a composite record. *)

(* relate4lookup, with the record of a relation whose match is to be skipped
   taking the level off everything below it.  Nothing can be scanned in a
   relation that is not initialised: the level then never comes off. *)
RECURSIVE Leave(_, _, _)
Leave(c, s, n) ==
  IF s.level \notin Below(c, n) THEN s
  ELSE Leave(c, RelationList(c, s, 1, FALSE).s, n)

LookedUp(c, k, n) ==
  IF k.rc # "leave" THEN k
  ELSE IF c.kind[n] # "scan" THEN R(k.s, "filter")
  ELSE IF ~k.s.init /\ k.s.level \in Below(c, n) THEN R(k.s, "endless")
  ELSE R(Leave(c, k.s, n), "filter")

LookUp(c, s, n, dir) == LookedUp(c, Lookup(c, s, n, dir), n)

RECURSIVE Ancestor(_, _, _)
Ancestor(c, n, k) == k # Top /\ (c.master[k] = n \/ Ancestor(c, n, c.master[k]))

(* A scan slave not yet read starts at the top, or the bottom, of its tag,
   and the level comes down to its master. *)
StartScan(c, s, n, dir) ==
  LET f   == c.f[n]
      d   == s.d[n]
      far == [d EXCEPT !.bof = FALSE, !.eof = FALSE,
                       !.rec = IF @ # -1 THEN @ ELSE IF dir = 1 THEN 0 ELSE f.n + 1]
      to  == IF s.countOnly THEN far ELSE IF dir = 1 THEN DTop(f, d).d ELSE DBottom(f, d).d
  IN  IF n \in s.read \/ c.kind[n] # "scan" THEN s
      ELSE [SetD(s, n, IF dir = 1 THEN TagTop(f, to) ELSE TagBottom(f, to))
            EXCEPT !.level = IF Ancestor(c, @, c.master[n]) THEN c.master[n] ELSE @]

(* relate4readRest: of several scan slaves one has the record, those after it
   are blank, turned so that they begin when their turn comes. *)
RECURSIVE ReadRest(_, _, _, _)

(* Slave k, after the slaves x tells of. *)
Kept(c, x, k) == x.done /\ c.kind[k] = "scan"
ReadSlave(c, x, k, dir) ==
  IF Kept(c, x, k) /\ k \in x.s.read THEN R(x.s, x.rc)
  ELSE ReadRest(c, IF Kept(c, x, k) THEN BlankSet(c, x.s, k, -dir) ELSE x.s, k, dir)

WithSlave(c, x, k, t, dir) ==
  LET hit == (dir = 1 /\ ~t.s.d[k].eof) \/ (dir = -1 /\ ~t.s.d[k].bof)
  IN  [s |-> t.s, rc |-> t.rc,
       done |-> x.done \/ (~Kept(c, x, k) /\ c.kind[k] = "scan" /\ t.rc = "ok" /\ hit)]

ReadSlaves(c, s, order, dir) ==
  FoldLeft(LAMBDA x, k : IF x.rc # "ok" THEN x ELSE WithSlave(c, x, k, ReadSlave(c, x, k, dir), dir),
           [s |-> FoldLeft(LAMBDA t, k : StartScan(c, t, k, dir), s, order), rc |-> "ok", done |-> FALSE],
           order)

ReadUnder(c, first, n, dir) ==
  LET Slaves(all) == R(all.s, all.rc)
  IN  IF Failed(first.rc) THEN R(Changed(first.s), first.rc)
      ELSE IF first.rc = "filter" THEN first
      ELSE Slaves(ReadSlaves(c, first.s, IF dir = 1 THEN c.slaves[n] ELSE Reverse(c.slaves[n]), dir))

ReadRest(c, s, n, dir) ==
  ReadUnder(c, IF n \in s.read THEN R(s, "ok")
               ELSE IF ~s.countOnly /\ s.d[n].rec > c.f[n].n /\ ~s.d[n].eof THEN R(s, "filter")
               ELSE LookUp(c, s, n, dir), n, dir)

RECURSIVE ReadIn(_, _, _)
ReadUp(c, up, n) == IF up.rc \in {"filter", "terminate"} THEN up ELSE LookUp(c, up.s, n, 1)
ReadIn(c, s, n) ==
  IF n \in s.read THEN R(s, "ok")
  ELSE ReadUp(c, IF n = Top \/ c.master[n] \in s.read THEN R(s, "ok") ELSE ReadIn(c, s, c.master[n]), n)

(* log4true: the parts of the query in turn, until one does not hold. *)
LogTrue(c, s) ==
  LET Holds(k, n) ==
        IF k.rc = "terminate" THEN k
        ELSE R(k.s, IF k.rc # "filter" /\ Shown(k.s, n) \in c.ok[n] THEN "true" ELSE "false")
  IN  FoldLeft(LAMBDA x, n : IF x.rc # "true" THEN x ELSE Holds(ReadIn(c, x.s, n), n),
               R(s, "true"), c.query)

(* relate4doAll: the slaves of the record the top file stands on; a record
   whose slaves cannot be found is an error. *)
DoAll(c, s) ==
  LET Rest(r) == R(Changed(r.s), IF r.rc = "filter" THEN "terminate" ELSE r.rc)
  IN  Rest(ReadRest(c, NotRead(c, s, Top), Top, 0))

----------------------------------------------------------------------------
(* relate4skipInternal *)

RECURSIVE SkipOn(_, _, _, _)

Judged(c, log, left, by) ==
  IF log.rc = "terminate" THEN log
  ELSE IF log.rc = "true" THEN SkipOn(c, log.s, left - 1, by)
  ELSE SkipOn(c, [log.s EXCEPT !.inSort = IF @ = "skip" THEN "no" ELSE @], left, by)

SkippedTo(c, rest, left, by) ==
  IF rest.rc = "filter" THEN SkipOn(c, rest.s, left, by)
  ELSE IF Failed(rest.rc) THEN rest
  ELSE Judged(c, IF c.query = << >> THEN R(rest.s, "true") ELSE LogTrue(c, rest.s), left, by)

SkipMoved(c, step, left, by) ==
  IF Failed(step.rc) \/ step.rc = (IF by = 1 THEN "eof" ELSE "bof") THEN step
  ELSE SkippedTo(c, ReadRest(c, step.s, Top, by), left, by)

SkipOn(c, s, left, by) ==
  IF left = 0 THEN R(s, "ok") ELSE SkipMoved(c, ScanRecord(c, s, by), left, by)

SkipInternal(c, s, by) ==
  LET f == c.f[Top]
      End(t, rc) ==
        IF t.inSort # "done" \/ rc \notin {"eof", "bof"} THEN R(t, rc)
        ELSE IF rc = "eof" THEN R([SetD(t, Top, GoEof(f, t.d[Top]).d) EXCEPT !.sortEof = TRUE], "eof")
        ELSE R(SetD(t, Top, [DTop(f, t.d[Top]).d EXCEPT !.bof = TRUE]), "bof")
      Went(o) == End([o.s EXCEPT !.inSort = IF s.inSort = "skip" /\ o.s.init THEN "skip" ELSE @], o.rc)
  IN  IF by = -1 /\ ~s.back THEN R(s, "error") ELSE Went(SkipOn(c, s, 1, by))

(* The query on the record a top or bottom came to.  A scan that the sort
   leaves alone is walked after all to find a record that satisfies it. *)
RECURSIVE Settle(_, _, _)

(* Off a record that was left out the query is asked again, going back. *)
Walked(c, x, off, by) ==
  IF x.rc = "filter" /\ by = -1 /\ ~Failed(off.rc) THEN Settle(c, off, by) ELSE off

WalkOn(c, x, log, by) ==
  LET off == x.rc # "filter" /\ log.s.inSort = "skip"
      On(o) == R([o.s EXCEPT !.inSort = IF off THEN "skip" ELSE @], o.rc)
  IN  IF log.rc = "terminate" THEN log
      ELSE IF log.rc = "true" THEN R(log.s, x.rc)
      ELSE Walked(c, x, On(SkipInternal(c, [log.s EXCEPT !.inSort = IF off THEN "no" ELSE @], by)), by)

Settle(c, x, by) ==
  WalkOn(c, x, IF x.rc = "filter" THEN R(x.s, "false")
               ELSE IF c.query = << >> THEN R(x.s, "true") ELSE LogTrue(c, x.s), by)

----------------------------------------------------------------------------
(* relate4top and the sort. *)

(* The first flagged record along the selected tag from the present one. *)
RECURSIVE FlaggedEntry(_, _, _)
FlaggedEntry(c, d, by) ==
  LET On(p) == IF p.done = by THEN FlaggedEntry(c, p.d, by) ELSE Res(p.d, "eof")
  IN  IF IsSet(c, Top, TagRec(c.f[Top], d)) THEN Res(d, "ok") ELSE On(DSkip(c.f[Top], d, by))

(* The first flagged record from where the top file stands. *)
ToFlagged(c, s) ==
  LET f == c.f[Top]
      To(d, r) == IF r > f.n THEN Gone(s, Top, GoEof(f, d)) ELSE Gone(s, Top, Go(f, d, r))
      Entry(ent) == IF ent.rc = "eof" THEN Gone(s, Top, GoEof(f, ent.d)) ELSE To(ent.d, TagRec(f, ent.d))
  IN  IF c.query = << >> \/ IsSet(c, Top, s.d[Top].rec) THEN R(s, "ok")
      ELSE IF f.sel THEN Entry(FlaggedEntry(c, s.d[Top], 1))
      ELSE To(s.d[Top], NextFlagged(c, 1) + 1)

(* relate4top once the relation is initialised. *)
TopRead(c, rest) == IF Failed(rest.rc) THEN rest ELSE Settle(c, rest, 1)
TopAt(c, on) == IF on.rc # "ok" THEN on ELSE TopRead(c, ReadRest(c, on.s, Top, 1))
TopFlagged(c, at) == TopAt(c, IF at.rc # "ok" THEN at ELSE ToFlagged(c, at.s))

TopRun(c, s) ==
  LET First(s1) == IF s.inSort = "done" THEN SortNext(c, [s1 EXCEPT !.sortOn = 0])
                   ELSE Gone(s1, Top, DTop(c.f[Top], s1.d[Top]))
  IN  TopFlagged(c, First(RelationList(c, [NotRead(c, s, Top) EXCEPT !.level = 0], 1, TRUE).s))

(* r4dataListBuild: the data files whose records a row of the sort keeps.
   Those under the one the expression names are left to be looked up. *)
RECURSIVE BuildList(_, _, _)
BuildList(c, n, type) ==
  LET named == n = c.sort
      type1 == IF named THEN "exact" ELSE IF c.kind[n] = "scan" THEN "scan" ELSE type
      below == FlattenSeq([i \in DOMAIN c.slaves[n] |-> BuildList(c, c.slaves[n][i], type1)])
  IN  IF named \/ below # << >> \/ (c.kind[n] # "scan" /\ type # "scan")
      THEN Append(below, n) ELSE below

(* r4dataListMassage: all slaves of a listed master that has a listed slave. *)
RECURSIVE Massage(_, _)
Massage(c, list) ==
  LET L    == Range(list)
      add  == {n \in L : Range(c.slaves[n]) \cap L # {} /\ ~(Range(c.slaves[n]) \subseteq L)}
      n    == list[Min({i \in DOMAIN list : list[i] \in add})]
  IN  IF add = {} THEN list
      ELSE Massage(c, list \o SelectSeq(c.slaves[n], LAMBDA k : k \notin L))

Row(c, s) == [n \in Nodes(c) |-> IF s.d[n].eof \/ s.d[n].bof THEN 0 ELSE s.d[n].rec]

RECURSIVE Collect(_, _, _)
Collect(c, x, rows) ==
  IF x.rc # "ok" THEN [s |-> x.s, rc |-> x.rc, rows |-> rows]
  ELSE Collect(c, SkipInternal(c, x.s, 1), Append(rows, Row(c, x.s)))

(* sort4put orders by the key, then by the place of the record in the walk. *)
SortKey(c, row) == IF row[c.sort] = 0 THEN 0 ELSE c.f[c.sort].key[row[c.sort]]
InOrder(c, rows) ==
  LET i == SortSeq([j \in DOMAIN rows |-> j],
                   LAMBDA a, b : LET ka == SortKey(c, rows[a])
                                     kb == SortKey(c, rows[b])
                                 IN  ka < kb \/ (ka = kb /\ a < b))
  IN  [j \in DOMAIN rows |-> rows[i[j]]]

RECURSIVE TopOf(_, _)

(* relate4sort goes to the top itself, a second time when it knows which
   data files' records it is to keep. *)
RECURSIVE Sort(_, _, _)

Made(c, all) ==
  IF Failed(all.rc) THEN R(all.s, all.rc)
  ELSE R([all.s EXCEPT !.sorted = InOrder(c, all.rows), !.inSort = "done",
                       !.sortOn = 0, !.sortTo = 0], "ok")

Listed(c, t) ==
  LET list == Massage(c, BuildList(c, Top, "exact"))
  IN  [t EXCEPT !.listed = list,
                !.unsorted = {n \in Nodes(c) \ Range(list) : c.kind[n] = "scan"}]

SortFrom(c, top, knows) ==
  IF knows THEN Made(c, Collect(c, top, << >>))
  ELSE IF top.rc # "ok" THEN top ELSE Sort(c, Listed(c, top.s), TRUE)

Sort(c, s, knows) == SortFrom(c, TopOf(c, s), knows)

RECURSIVE TopInit(_, _)

Initialise(c, t) ==
  LET s1 == [t EXCEPT !.init = TRUE]
      Done(o) == R([o.s EXCEPT !.countOnly = t.countOnly], IF Failed(o.rc) THEN o.rc ELSE "ok")
  IN  IF t.init THEN R(t, "ok")
      ELSE IF c.sort = 0 THEN R(s1, "ok")
      ELSE Done(Sort(c, [s1 EXCEPT !.countOnly = FALSE, !.inSort = "skip", !.sortEnded = FALSE], FALSE))

TopInit(c, s) == Initialise(c, IF s.inSort = "done" /\ ~s.back THEN Changed(s) ELSE s)

TopFrom(c, t) == IF t.rc # "ok" THEN t ELSE TopRun(c, t.s)
TopOf(c, s) == TopFrom(c, TopInit(c, s))

----------------------------------------------------------------------------
(* relate4bottom *)

SkipEnable(s) == IF s.back THEN s ELSE Changed([s EXCEPT !.back = TRUE])

(* The last flagged record back from end, where the top file came to. *)
BackToFlagged(c, s, end) ==
  LET f == c.f[Top]
      To(d, r) == R(NotRead(c, SetD(s, Top, Go(f, d, r).d), Top), "ok")
      Back(r)  == IF r <= 0 THEN R(SetD(s, Top, end.d), "eof") ELSE To(end.d, r)
      Entry(e) == IF e.rc = "eof" THEN R(SetD(s, Top, e.d), "eof") ELSE To(e.d, TagRec(f, e.d))
  IN  IF end.rc # "ok" \/ c.query = << >> THEN R(NotRead(c, SetD(s, Top, end.d), Top), end.rc)
      ELSE IF f.sel THEN Entry(FlaggedEntry(c, end.d, -1))
      ELSE Back(IF IsSet(c, Top, end.d.rec) THEN end.d.rec
                ELSE end.d.rec - PrevFlagged(c, end.d.rec))

(* relate4bottom once the relation is initialised. *)
BottomMade(c, fin) ==
  IF fin.rc # "bof" THEN fin
  ELSE R(IF fin.s.inSort = "done" THEN fin.s
         ELSE SetD(fin.s, Top, GoEof(c.f[Top], fin.s.d[Top]).d), "eof")
BottomRead(c, rest) == IF Failed(rest.rc) THEN rest ELSE BottomMade(c, Settle(c, rest, -1))
BottomAt(c, at) == IF at.rc # "ok" THEN at ELSE BottomRead(c, ReadRest(c, at.s, Top, -1))

BottomRun(c, s) ==
  LET Row1(get, num) == R([get.s EXCEPT !.sortOn = num], get.rc)
      Final(s1) == IF s1.inSort = "done" THEN Row1(SortGet(c, s1, Rows(s1)), Rows(s1))
                   ELSE BackToFlagged(c, s1, DBottom(c.f[Top], s1.d[Top]))
  IN  BottomAt(c, Final(RelationList(c, [NotRead(c, s, Top) EXCEPT !.level = 0], -1, TRUE).s))

BottomFrom(c, t) == IF t.rc # "ok" THEN t ELSE BottomRun(c, t.s)
Bottom(c, s) == BottomFrom(c, TopInit(c, SkipEnable(s)))

Skip(c, s, by) == IF ~s.init THEN R(s, "error") ELSE SkipInternal(c, s, by)

----------------------------------------------------------------------------
(* relate4count *)

(* Mutant: an exact slave that leaves out records passes. *)
CanApproxUnlessScan(c, n) == \A k \in Range(c.slaves[n]) : c.kind[k] # "scan"

RECURSIVE CanApprox(_, _)
CanApprox(c, n) ==
  \A k \in Range(c.slaves[n]) :
     /\ c.kind[k] = "approx" \/ (c.kind[k] = "exact" /\ c.act[k] = "blank")
     /\ CanApprox(c, k)

RECURSIVE CountOn(_, _, _)
CountOn(c, x, n) ==
  IF x.rc = "ok" THEN CountOn(c, SkipInternal(c, x.s, 1), n + 1)
  ELSE [s |-> x.s, count |-> IF Failed(x.rc) THEN -1 ELSE n]

(* Only the count is asked for, so a slave that the query does not name need
   not be read. *)
CountFrom(c, t) ==
  LET only == [t.s EXCEPT !.countOnly = @ /\ Range(c.query) \subseteq {Top}]
  IN  IF t.rc # "ok" THEN [s |-> t.s, count |-> -1]
      ELSE IF c.query # << >> /\ c.slaves[Top] = << >> /\ c.full
      THEN [s |-> t.s, count |-> Cardinality(c.flags.set)]
      ELSE CountOn(c, TopOf(c, only), 0)

CountDo(c, s) ==
  IF c.query = << >> /\ (c.slaves[Top] = << >> \/ CanApprox(c, Top)) THEN [s |-> s, count |-> c.f[Top].n]
  ELSE CountFrom(c, IF c.query # << >> /\ ~s.init THEN TopInit(c, s) ELSE R(s, "ok"))

RECURSIVE Preorder(_, _)
Preorder(c, n) == <<n>> \o FlattenSeq([i \in DOMAIN c.slaves[n] |-> Preorder(c, c.slaves[n][i])])

(* One data file is put back to the record and the flags it had; off an end
   the buffer keeps the record the count came to, which nothing reads again. *)
PutBack(c, s, n) ==
  LET p  == s.pre[n]
      d  == [s.d[n] EXCEPT !.bof = p.bof, !.eof = p.eof]
      d1 == CASE d.rec = p.rec                        -> d
              [] ~p.bof /\ ~p.eof /\ p.rec > 0        -> Go(c.f[n], d, p.rec).d
              [] OTHER                                -> [d EXCEPT !.rec = p.rec, !.buf = 0]
      s1 == SetD(s, n, d1)
  IN  IF n # Top /\ c.kind[n] = "scan" THEN [s1 EXCEPT !.scan[c.master[n]] = Link(c, s1, n)] ELSE s1

(* garbage: the value the stack has for isInitialized, which is set only when
   the relation is initialised. *)
AfterCount(c, s, o, garbage) ==
  LET InRow(t) == IF s.init /\ c.sort # 0 THEN SortGet(c, [t EXCEPT !.sortOn = s.sortOn], s.sortOn).s ELSE t
      Back(t)  == IF s.init \/ garbage
                  THEN FoldLeft(LAMBDA u, n : PutBack(c, u, n), InRow(t), Preorder(c, Top)) ELSE t
  IN  [s |-> Back([o.s EXCEPT !.countOnly = FALSE, !.count = o.count]), count |-> o.count]

Count(c, s, garbage) ==
  LET before == IF s.init THEN [s EXCEPT !.pre = [n \in Nodes(c) |->
                                 [rec |-> s.d[n].rec, bof |-> s.d[n].bof, eof |-> s.d[n].eof]]] ELSE s
  IN  IF s.count # -1 THEN [s |-> s, count |-> s.count]
      ELSE AfterCount(c, s, CountDo(c, [before EXCEPT !.countOnly = TRUE]), garbage)
=============================================================================
