------------------------------ MODULE DataFile ------------------------------
(***************************************************************************)
(* One DATA4 of the C engine and the tag it moves by: d4go, d4top,         *)
(* d4bottom, d4skip, d4seek, d4seekNext and d4tagSync as operators on a    *)
(* file f and the program's place d in it.                                 *)
(*                                                                         *)
(*   f  n     the record count in the header                               *)
(*      key   the key each record has in the tag, 0 when the tag's filter  *)
(*            leaves the record out                                        *)
(*      ents  the entries of the tag, [key, rec], in ascending order; in a *)
(*            shared file they may run ahead of n                          *)
(*      desc  the tag is a descending one                                  *)
(*      sel   a tag is selected                                            *)
(*   d  rec, bof, eof   recNum, bofFlag, eofFlag                           *)
(*      buf   the key of the record in the buffer, 0 when it is blank      *)
(*      at    the entry the tag stands on, Len(f.ents) + 1 past the last   *)
(*                                                                         *)
(* An operation gives [d, rc].                                             *)
(***************************************************************************)
EXTENDS Integers, Sequences, FiniteSetsExt

Res(d, rc) == [d |-> d, rc |-> rc]

Start(f) == [rec |-> -1, bof |-> FALSE, eof |-> FALSE, buf |-> 0, at |-> 1]

----------------------------------------------------------------------------
(* The tag. *)

AtOrAfter(e, key, rec) == e.key > key \/ (e.key = key /\ e.rec >= rec)
Before(e, g) == e # g /\ AtOrAfter(g, e.key, e.rec)

(* The first entry that P holds of; past the last when there is none. *)
FirstFrom(f, S) == IF S = {} THEN Len(f.ents) + 1 ELSE Min(S)

TagEof(f, d) == d.at > Len(f.ents)
TagRec(f, d) == IF TagEof(f, d) THEN -1 ELSE f.ents[d.at].rec
TagKey(f, d) == f.ents[d.at].key

(* tfile4skip: off either end the tag stays on the last entry it has there. *)
PhysSkip(f, d, k) ==
  LET len == Len(f.ents)
      to  == d.at + k
  IN  CASE k > 0 /\ to > len ->
             [d |-> [d EXCEPT !.at = IF len = 0 THEN 1 ELSE len],
              done |-> IF d.at > len THEN 0 ELSE len - d.at]
        [] k < 0 /\ to < 1   -> [d |-> [d EXCEPT !.at = 1], done |-> 1 - d.at]
        [] OTHER             -> [d |-> [d EXCEPT !.at = to], done |-> k]

(* tfile4dskip: along the order the program sees. *)
DSkip(f, d, k) ==
  IF f.desc THEN LET p == PhysSkip(f, d, -k) IN [p EXCEPT !.done = -@]
            ELSE PhysSkip(f, d, k)

LastOr1(f) == IF f.ents = << >> THEN 1 ELSE Len(f.ents)
TagTop(f, d)    == [d EXCEPT !.at = IF f.desc THEN LastOr1(f) ELSE 1]
TagBottom(f, d) == [d EXCEPT !.at = IF f.desc THEN 1 ELSE LastOr1(f)]

(* tfile4go: the entry itself, or the first after it. *)
TagGo(f, d, key, rec) ==
  LET i == FirstFrom(f, {j \in DOMAIN f.ents : AtOrAfter(f.ents[j], key, rec)})
  IN  Res([d EXCEPT !.at = i],
          IF i <= Len(f.ents) /\ f.ents[i] = [key |-> key, rec |-> rec] THEN "ok" ELSE "after")

(* tfile4seek: the first entry, as the program sees them, that is not
   before the key; on a descending tag the last physical entry not above it. *)
TagSeek(f, d, key) ==
  LET S == {j \in DOMAIN f.ents : IF f.desc THEN f.ents[j].key <= key ELSE f.ents[j].key >= key}
      i == IF S = {} THEN Len(f.ents) + 1 ELSE IF f.desc THEN Max(S) ELSE Min(S)
  IN  Res([d EXCEPT !.at = i],
          IF S = {} THEN "eof" ELSE IF f.ents[i].key = key THEN "ok" ELSE "after")

----------------------------------------------------------------------------
(* The record. *)

(* d4go: a record past the count leaves the place invalid and the flags be. *)
Go(f, d, r) ==
  IF r < 1 \/ r > f.n
  THEN Res([d EXCEPT !.rec = -1, !.buf = 0], "entry")
  ELSE Res([d EXCEPT !.rec = r, !.buf = f.key[r], !.bof = FALSE, !.eof = FALSE], "ok")

GoEof(f, d) ==
  Res([d EXCEPT !.rec = f.n + 1, !.buf = 0, !.eof = TRUE, !.bof = @ \/ f.n = 0], "eof")

BofAndEof(f, d) == GoEof(f, [d EXCEPT !.bof = TRUE])

(* The entries from where the tag stands, one by one in the physical
   direction dir, until one whose record the file has. *)
ToCounted(f, d, dir) ==
  LET S == {j \in DOMAIN f.ents : f.ents[j].rec <= f.n
                                  /\ IF dir > 0 THEN j >= d.at ELSE j <= d.at}
  IN  IF S = {} THEN [d |-> [d EXCEPT !.at = IF dir > 0 THEN LastOr1(f) ELSE 1], found |-> FALSE]
      ELSE [d |-> [d EXCEPT !.at = IF dir > 0 THEN Min(S) ELSE Max(S)], found |-> TRUE]

Counted(f, w) == IF w.found THEN Go(f, w.d, TagRec(f, w.d)) ELSE BofAndEof(f, w.d)
Ended(f, d, dir) == Counted(f, ToCounted(f, d, dir))

(* d4top and d4bottom skip a key without a record along the tree as it is
   stored, on a descending tag too. *)
DTop(f, d) ==
  CASE ~f.sel                    -> IF f.n > 0 THEN Go(f, d, 1) ELSE BofAndEof(f, d)
    [] f.sel /\ f.ents = << >>   -> BofAndEof(f, TagTop(f, d))
    [] OTHER                     -> Ended(f, TagTop(f, d), 1)

DBottom(f, d) ==
  CASE ~f.sel                    -> IF f.n > 0 THEN Go(f, d, f.n) ELSE BofAndEof(f, d)
    [] f.sel /\ f.ents = << >>   -> BofAndEof(f, TagBottom(f, d))
    [] OTHER                     -> Ended(f, TagBottom(f, d), -1)

----------------------------------------------------------------------------
(* d4skip. *)

SkipRecords(f, d, k) ==
  LET to   == d.rec + k
      here == [d EXCEPT !.bof = FALSE]
      gone == IF to > 0 THEN Go(f, here, to).d ELSE here
      none == IF f.n = 0 THEN [GoEof(f, gone).d EXCEPT !.bof = TRUE] ELSE gone
  IN  CASE to > 0 /\ to <= f.n   -> Go(f, here, to)
        [] f.n = 0 \/ to > f.n   -> IF k < 0 THEN Res([none EXCEPT !.bof = TRUE], "bof")
                                    ELSE GoEof(f, none)
        [] OTHER                 -> Res([Go(f, here, 1).d EXCEPT !.bof = TRUE, !.eof = d.eof], "bof")

(* Mutant: a key whose record is not there yet is the end. *)
LandedAtOnce(f, p, n, dir) ==
  IF n > 0 /\ p.done # n THEN GoEof(f, p.d)
  ELSE LET g == Go(f, p.d, TagRec(f, p.d))
       IN  IF g.rc # "ok" THEN GoEof(f, p.d)
           ELSE IF n = p.done THEN g ELSE Res([g.d EXCEPT !.bof = TRUE], "bof")

(* The entry the tag came to, or the next in the stored direction dir whose
   record the file has; short of n it is the first. *)
Landed(f, p, n, dir) ==
  LET short == p.done # n
      At(w) == CASE ~w.found            -> BofAndEof(f, w.d)
                 [] w.found /\ ~short   -> Go(f, w.d, TagRec(f, w.d))
                 [] OTHER               -> Res([Go(f, w.d, TagRec(f, w.d)).d EXCEPT !.bof = TRUE], "bof")
  IN  CASE n > 0 /\ short                         -> GoEof(f, p.d)
        [] (n <= 0 \/ ~short) /\ TagEof(f, p.d)   -> BofAndEof(f, p.d)
        [] OTHER                                 -> At(ToCounted(f, p.d, dir))

(* From an entry of the tag, n entries on; done as many as n when the
   program stood on an entry, one fewer forwards when it stood between two. *)
SkipEntries(f, d, n) == Landed(f, DSkip(f, d, n), n, IF (n < 0) # f.desc THEN -1 ELSE 1)

(* The tag is brought to the record first.  A record that is not in the tag
   lies before the entry found: forwards that entry is the first step. *)
SkipBrought(f, t, n) ==
  LET off == t.rc = "after" /\ (IF f.desc THEN n < 0 ELSE n > 0)
  IN  SkipEntries(f, t.d, IF off THEN n - 1 ELSE n)

SkipFrom(f, d, n) ==
  LET From(read) == IF read.rc # "ok" THEN read
                    ELSE SkipBrought(f, TagGo(f, read.d, f.key[d.rec], d.rec), n)
  IN  CASE n = 0                           -> Res(d, "ok")
        [] n # 0 /\ TagRec(f, d) = d.rec   -> SkipEntries(f, d, n)
        [] OTHER                           -> From(Go(f, d, d.rec))

(* Back from the end: the last record is the first step. *)
SkipFromBottom(f, b, n) ==
  IF b.rc = "eof" THEN Res(GoEof(f, b.d).d, "bof")
  ELSE SkipFrom(f, [b.d EXCEPT !.bof = FALSE, !.rec = TagRec(f, b.d)], n + 1)

SkipTag(f, d, n) ==
  CASE ~d.eof          -> SkipFrom(f, [d EXCEPT !.bof = FALSE], n)
    [] d.eof /\ n >= 0 -> GoEof(f, d)
    [] OTHER           -> SkipFromBottom(f, DBottom(f, d), n)

DSkipRec(f, d, n) ==
  CASE d.rec < 1               -> Res(d, "info")
    [] d.rec >= 1 /\ ~f.sel    -> SkipRecords(f, d, n)
    [] OTHER                   -> SkipTag(f, d, n)

----------------------------------------------------------------------------
(* d4seek, d4seekNext and d4tagSync.  mine: the program holds the file lock. *)

(* Mutant: only the first entry is looked at. *)
SeekCheckFirst(f, d, rc, key, mine) ==
  IF TagEof(f, d) \/ f.ents[d.at].rec > f.n THEN GoEof(f, d)
  ELSE Res(Go(f, d, f.ents[d.at].rec).d, rc)

(* d4seekCheck: an entry counts when its record is there and has its key;
   the entries before it are passed in stored order. *)
SeekCheck(f, d, rc, key, mine) ==
  LET len   == Len(f.ents)
      Good(j) == /\ f.ents[j].rec <= f.n
                 /\ mine \/ f.key[f.ents[j].rec] = f.ents[j].key
                 /\ mine \/ j = d.at \/ f.ents[j].key >= key
      S     == {j \in d.at..len : Good(j)}
      i     == Min(S)
  IN  CASE TagEof(f, d)               -> GoEof(f, d)
        [] ~TagEof(f, d) /\ S = {}    -> GoEof(f, [d EXCEPT !.at = LastOr1(f)])
        [] OTHER                      -> Res(Go(f, [d EXCEPT !.at = i], f.ents[i].rec).d,
                                             IF mine \/ i = d.at THEN rc
                                             ELSE IF f.ents[i].key = key THEN "ok" ELSE "after")

Seek(f, d, key, mine) ==
  LET Check(t) == SeekCheck(f, t.d, t.rc, key, mine) IN Check(TagSeek(f, d, key))

(* Mutant: the place is trusted although the blocks were dropped. *)
StandsBlind(f, d, lost) == TRUE

(* The tag still stands on the program's record.  lost: its place was given
   up at the version check. *)
Stands(f, d, lost) == ~lost /\ TagRec(f, d) = d.rec

NextOfKey(f, next, key, mine) ==
  LET hit == TagKey(f, next.d) = key
      Rated(res) == IF hit THEN res ELSE Res(res.d, "entry")
  IN  IF next.done = 0 THEN GoEof(f, next.d)
      ELSE Rated(SeekCheck(f, next.d, IF hit THEN "ok" ELSE "entry", key, mine))

(* d4seekNextN. *)
SeekNext(f, d, key, mine, lost) ==
  LET Next(on) == IF on.buf # key THEN Seek(f, on, key, mine)
                  ELSE NextOfKey(f, DSkip(f, on, 1), key, mine)
      From(read) == IF read.rc # "ok" THEN Seek(f, read.d, key, mine)
                    ELSE Next(TagGo(f, read.d, read.d.buf, d.rec).d)
  IN  IF Stands(f, d, lost) THEN Next(d)
      ELSE From(IF mine THEN Res(d, "ok") ELSE Go(f, d, d.rec))

(* The tag is brought to the record, or to the first entry after it. *)
TagAt(f, d) == IF TagRec(f, d) = d.rec THEN Res(d, "ok") ELSE TagGo(f, d, d.buf, d.rec)

(* d4tagSync, the tag brought to the record with rc: a record that is not
   in the tag is left for the one of the next entry. *)
TagSync(f, d, rc) ==
  LET gone == d.eof \/ TagEof(f, d)
  IN  CASE gone                             -> GoEof(f, d)
        [] ~gone /\ TagRec(f, d) # d.rec    -> Res(Go(f, d, TagRec(f, d)).d, "after")
        [] OTHER                            -> Res(d, rc)
=============================================================================
