---------------------------- MODULE RecordCursor ----------------------------
(***************************************************************************)
(* A program that moves through a data file by a tag while another user    *)
(* appends records and changes keys (src/original/source: D4TOP.C,         *)
(* D4BOTTOM.C, d4skip.c, D4SEEK.C, d4go.c, D4POSITI.C, i4index.c).  The    *)
(* other user's record and its entry reach the disk one after the other,   *)
(* in either order; the program keeps the blocks of the tag it has read    *)
(* until i4versionCheck finds that the index was changed.                  *)
(***************************************************************************)
EXTENDS DataFile, SequencesExt

CONSTANTS
  MaxRec,     \* bound: records the file may grow to
  Keys,       \* keys of records
  Files,      \* the files a run begins with, without sel
  Changes,    \* bound: records the other user appends or changes
  Steps,      \* the lengths of the program's skips
  Jumps       \* d4positionSet is called while blocks are out of date, too

(* A file to begin with has an entry of every record, in order, and no
   other. *)
TrueFile(f) ==
  /\ f \in [n : 0..MaxRec, key : [1..MaxRec -> Nat], ents : Seq([key : Nat, rec : 1..MaxRec]),
            desc : BOOLEAN, sel : BOOLEAN]
  /\ \A i, j \in DOMAIN f.ents : i < j => Before(f.ents[i], f.ents[j])
  /\ \A i \in DOMAIN f.ents : f.ents[i].rec <= f.n /\ f.ents[i].key = f.key[f.ents[i].rec]
  /\ \A r \in 1..f.n : \E i \in DOMAIN f.ents : f.ents[i].rec = r

ASSUME BoundAssumption == MaxRec \in Nat /\ Changes \in Nat /\ Keys \subseteq Nat /\ Steps \subseteq Int
ASSUME FilesAssumption == \A f \in Files : TrueFile(f)

VARIABLES
  file,     \* the file as it is on the disk
  tag,      \* the entries of the tag in the program's blocks
  stale,    \* the index was changed since they were read
  d,        \* the program's place
  mine,     \* the program holds the lock of the whole file
  half,     \* what the other user has begun: [rec, key, left]
  changes,  \* how many it has begun
  call,     \* the program's last call: [op, arg, rc]
  walk      \* of a walk by single steps: [dir, met, steady, over]

vars == <<file, tag, stale, d, mine, half, changes, call, walk>>

NoHalf == [rec |-> 0, key |-> 0, left |-> {}]
NoWalk == [dir |-> 0, met |-> << >>, steady |-> {}, over |-> FALSE]

Init == /\ file \in {[g EXCEPT !.sel = s] : g \in Files, s \in BOOLEAN}
        /\ tag = file.ents /\ stale = FALSE
        /\ d = Start(file)
        /\ mine = FALSE
        /\ half = NoHalf /\ changes = 0
        /\ call = [op |-> "none", arg |-> 0, rc |-> "ok"]
        /\ walk = NoWalk

----------------------------------------------------------------------------
(* What the program sees of the tag. *)

Seen(ents) == [file EXCEPT !.ents = ents]
Blocks(ents, e, lost) == [ents |-> ents, d |-> e, lost |-> lost]
AsIs == Blocks(tag, d, FALSE)

(* i4versionCheck: changed blocks are dropped, and the entry the tag stood
   on is sought again if the caller asks for it. *)
Checked(e, seek) ==
  LET past == [e EXCEPT !.at = Len(file.ents) + 1]
  IN  CASE ~stale                                  -> Blocks(tag, e, FALSE)
        [] stale /\ ~seek                          -> Blocks(file.ents, past, TRUE)
        [] stale /\ seek /\ TagEof(Seen(tag), e)   -> Blocks(file.ents, past, FALSE)
        [] OTHER -> Blocks(file.ents, TagGo(file, e, tag[e.at].key, tag[e.at].rec).d, FALSE)

View(seek) == IF file.sel THEN Checked(d, seek) ELSE AsIs

(* A walk begins at an end, goes on with steps of one, and tells who was in
   the file all the time: steady. *)
Begun(dir, r) ==
  [dir |-> dir, met |-> IF r.rc = "ok" THEN <<r.d.rec>> ELSE << >>,
   steady |-> (1..file.n) \ {half.rec}, over |-> r.rc # "ok"]
Stepped(r) ==
  CASE walk.over                   -> NoWalk
    [] ~walk.over /\ r.rc = "ok"   -> [walk EXCEPT !.met = Append(@, r.d.rec)]
    [] OTHER                       -> [walk EXCEPT !.over = TRUE]
Walked(op, arg, r) ==
  IF r.d.rec = half.rec /\ ~r.d.eof THEN NoWalk
  ELSE CASE op = "top"                      -> Begun(1, r)
         [] op = "bottom"                   -> Begun(-1, r)
         [] op = "skip" /\ arg = walk.dir   -> Stepped(r)
         [] OTHER                           -> NoWalk

Calls(op, arg, ents, r) ==
  /\ d' = r.d
  /\ tag' = ents
  /\ stale' = (stale /\ ents = tag /\ (op # "set" \/ ~file.sel))
  /\ call' = [op |-> op, arg |-> arg, rc |-> r.rc]
  /\ walk' = Walked(op, arg, r)
  /\ UNCHANGED <<file, mine, half, changes>>

----------------------------------------------------------------------------
(* The program's calls. *)

Top    == \E c \in {View(FALSE)} : Calls("top", 0, c.ents, DTop(Seen(c.ents), c.d))
Bottom == \E c \in {View(FALSE)} : Calls("bottom", 0, c.ents, DBottom(Seen(c.ents), c.d))
DoGo   == \E r \in 1..MaxRec : Calls("go", r, tag, Go(file, d, r))

(* d4skip: nothing is read of the tag at a place that is not valid, nor past
   the end forwards; from there backwards d4bottom does the check. *)
Skipping(n) == IF d.rec < 1 \/ (d.eof /\ n >= 0) THEN AsIs ELSE View(~d.eof)
DoSkip == \E n \in Steps : \E c \in {Skipping(n)} :
            Calls("skip", n, c.ents, DSkipRec(Seen(c.ents), c.d, n))

DoSeek == /\ file.sel
          /\ \E k \in Keys, c \in {Checked(d, FALSE)} :
               Calls("seek", k, c.ents, Seek(Seen(c.ents), c.d, k, mine))

DoSeekNext == /\ file.sel
              /\ \E k \in Keys, c \in {Checked(d, FALSE)} :
                   Calls("next", k, c.ents, SeekNext(Seen(c.ents), c.d, k, mine, c.lost))

(* d4tagSync seeks the record in the blocks it has, and checks them then. *)
DoTagSync == /\ file.sel /\ d.rec >= 1
             /\ \E t \in {TagAt(Seen(tag), d)} :
                  \E c \in {IF d.eof THEN Blocks(tag, t.d, FALSE) ELSE Checked(t.d, TRUE)} :
                     Calls("sync", 0, c.ents, TagSync(Seen(c.ents), c.d, t.rc))

(* d4position brings the tag to the record; d4goBof is d4top with a flag. *)
DoPosition == /\ file.sel /\ d.rec >= 1 /\ ~d.eof
              /\ \E c \in {Checked(d, FALSE)} :
                   Calls("position", 0, c.ents, Res(TagGo(Seen(c.ents), c.d, d.buf, d.rec).d, "ok"))
GoBof == \E c \in {View(FALSE)} :
           \E t \in {DTop(Seen(c.ents), c.d)} :
             Calls("gobof", 0, c.ents, Res([t.d EXCEPT !.bof = TRUE], "bof"))

(* d4positionSet: the tag's version is looked at and counts as seen, but
   the blocks that are out of date stay. *)
Jumped(i) ==
  LET g == Go(Seen(tag), [d EXCEPT !.at = i], tag[i].rec)
      s == TagSync(Seen(tag), TagAt(Seen(tag), g.d).d, "ok")
  IN  IF g.rc # "ok" THEN g ELSE IF s.rc = "ok" THEN s ELSE Go(Seen(tag), s.d, tag[i].rec)
DoPositionSet ==
  /\ IF file.sel THEN tag # << >> /\ (Jumps \/ ~stale) ELSE TRUE
  /\ IF file.sel
     THEN \E i \in DOMAIN tag : Calls("set", i, tag, Jumped(i))
     ELSE IF file.n = 0 THEN Calls("set", 0, tag, GoEof(file, d))
     ELSE \E r \in 1..file.n : Calls("set", r, tag, Go(file, d, r))

LockFile == /\ ~mine /\ half = NoHalf
            /\ mine' = TRUE
            /\ call' = [call EXCEPT !.op = "lock"]
            /\ UNCHANGED <<file, tag, stale, d, half, changes, walk>>
UnlockFile == /\ mine
              /\ mine' = FALSE
              /\ call' = [call EXCEPT !.op = "unlock"]
              /\ UNCHANGED <<file, tag, stale, d, half, changes, walk>>

----------------------------------------------------------------------------
(* The other user: d4append and d4write, as the disk shows them. *)

Forget(r) == IF r = d.rec /\ ~d.eof THEN NoWalk ELSE [walk EXCEPT !.steady = @ \ {r}]
Begin(r, k) ==
  /\ ~mine /\ half = NoHalf /\ changes < Changes
  /\ half' = [rec |-> r, key |-> k, left |-> {"data", "tag"}]
  /\ changes' = changes + 1
  /\ walk' = Forget(r)
  /\ call' = [call EXCEPT !.op = "none"]
  /\ UNCHANGED <<file, tag, stale, d, mine>>

Appends == file.n < MaxRec /\ \E k \in Keys : Begin(file.n + 1, k)
Rekeys  == \E r \in 1..file.n, k \in Keys : k # file.key[r] /\ Begin(r, k)

Publish(part) ==
  /\ part \in half.left
  /\ half' = IF half.left = {part} THEN NoHalf ELSE [half EXCEPT !.left = @ \ {part}]
  /\ call' = [call EXCEPT !.op = "none"]
  /\ UNCHANGED <<tag, d, mine, changes, walk>>

WriteRecord ==
  /\ Publish("data")
  /\ file' = [file EXCEPT !.n = IF half.rec > @ THEN half.rec ELSE @, !.key[half.rec] = half.key]
  /\ UNCHANGED stale

(* On a descending tag a new key does not come ahead of its record here:
   d4top, d4bottom and d4seek then pass it by in the wrong direction. *)
WithEntry(ents, e) ==
  LET old  == {i \in DOMAIN ents : ents[i].rec = e.rec}
      rest == IF old = {} THEN ents ELSE RemoveAt(ents, Min(old))
  IN  InsertAt(rest, Min({i \in DOMAIN rest : Before(e, rest[i])} \cup {Len(rest) + 1}), e)
WriteEntry ==
  /\ Publish("tag")
  /\ file.desc => half.rec <= file.n
  /\ file' = [file EXCEPT !.ents = WithEntry(@, [key |-> half.key, rec |-> half.rec])]
  /\ stale' = TRUE

Next == \/ Top \/ Bottom \/ DoGo \/ DoSkip \/ DoSeek \/ DoSeekNext \/ DoTagSync
        \/ DoPosition \/ DoPositionSet \/ GoBof
        \/ LockFile \/ UnlockFile
        \/ Appends \/ Rekeys \/ WriteRecord \/ WriteEntry

Spec == Init /\ [][Next]_vars

----------------------------------------------------------------------------
(* Properties. *)

(* Sound entries: of a record that is there and has the key. *)
Sound(i) == file.ents[i].rec <= file.n /\ file.key[file.ents[i].rec] = file.ents[i].key
SoundFor(k) == {i \in DOMAIN file.ents : Sound(i) /\ file.ents[i].key = k}

(* The order the program walks in. *)
Ahead(a, b) ==
  LET key(x) == IF file.sel THEN file.key[x] ELSE 0
      asc    == key(a) < key(b) \/ (key(a) = key(b) /\ a < b)
  IN  a # b /\ (IF file.sel /\ file.desc THEN ~asc ELSE asc)

(* A walk from d4top by d4skip(1), or from d4bottom by d4skip(-1), to the
   first that gives no record meets every record that was there throughout
   and that nobody changed, once and in order, whatever the other user wrote
   meanwhile and however far it had got (d4skip.c: d4skip; i4index.c:
   i4versionCheck). *)
WalkMeetsEveryone ==
  LET met == walk.met
  IN  /\ \A i, j \in DOMAIN met :
           i < j /\ {met[i], met[j]} \subseteq walk.steady =>
             IF walk.dir > 0 THEN Ahead(met[i], met[j]) ELSE Ahead(met[j], met[i])
      /\ walk.over => walk.steady \subseteq {met[i] : i \in DOMAIN met}

(* d4seek finds a record with the key whenever the tag has one for a record
   that is there and has the key, and the first of them in the program's
   order; with entries that are ahead of their records, or behind them, on
   an ascending tag (D4SEEK.C: d4seekCheck). *)
SeekMissesNothing ==
  (call.op = "seek" /\ (file.desc => half = NoHalf)) =>
     LET S == SoundFor(call.arg) IN
     IF S = {} THEN call.rc # "ok"
     ELSE /\ call.rc = "ok"
          /\ d.buf = call.arg
          /\ d.rec = file.ents[IF file.desc THEN Max(S) ELSE Min(S)].rec

(* d4seekNext from a record whose entry has the key goes to the next of the
   run in the program's order, and says so when there is none; it steps over
   entries whose records are not there or have other keys (D4SEEK.C:
   d4seekNextN, d4seekCheck). *)
SeekNextIsTheNext ==
  [][(call'.op = "next" /\ (file.desc => half = NoHalf)
      /\ \E i \in SoundFor(call'.arg) : file.ents[i].rec = d.rec) =>
     LET k    == call'.arg
         rest == {i \in SoundFor(k) : Ahead(d.rec, file.ents[i].rec)}
     IN  IF d.buf # k THEN TRUE
         ELSE IF rest = {} THEN call'.rc # "ok"
         ELSE /\ call'.rc = "ok"
              /\ d'.rec = file.ents[IF file.desc THEN Max(rest) ELSE Min(rest)].rec]_vars
=============================================================================
