------------------------------- MODULE MCTable -------------------------------
(***************************************************************************)
(* Small tables with an ascending tag "up" and a descending tag "down":    *)
(* tags that list every record, that leave one out, and that name a record *)
(* the table does not have, in one leaf or two.                            *)
(***************************************************************************)
EXTENDS Table

CONSTANTS MaxSkip,
          Omitted,   \* the records a tag may leave out
          Ghosts,    \* keys of an entry naming a record the table does not have
          Short      \* records the file is too short for

TwoTags == {"up", "down"}

Skips == -MaxSkip..MaxSkip

\* The keys of the records: of three, two alike; of two, with a gap between; of none.
KeyLists == {<<2, 1, 2>>, <<1, 3>>, <<>>}

\* One key, several keys as a prefix has, and the empty value.
Sought == {[lo |-> 2, hi |-> 2], [lo |-> 3, hi |-> 3], [lo |-> 1, hi |-> 2], [lo |-> 1, hi |-> MaxKey]}

Sorted(entries) ==
    SetToSortSeq(entries, LAMBDA a, b : a.key < b.key \/ (a.key = b.key /\ a.rec < b.rec))

\* The entries in one leaf, or cut after the first.
TreesOf(entries, descending) ==
    LET s == Sorted(entries)
    IN  {[leaves |-> <<s>>, separators |-> <<MaxKey>>, descending |-> descending]}
        \cup IF Len(s) < 2 THEN {}
             ELSE {[leaves |-> <<<<s[1]>>, Tail(s)>>, separators |-> <<s[1].key, MaxKey>>,
                    descending |-> descending]}

EntriesOf(keys, out, ghosts) ==
    {[key |-> keys[r], rec |-> r] : r \in DOMAIN keys \ out}
    \cup {[key |-> k, rec |-> Len(keys) + 1] : k \in ghosts}

TablesOf(ks, outs, ghosts, short) ==
    { [count |-> Len(ks), keys |-> [g \in TwoTags |-> ks], short |-> short,
       trees |-> [g \in TwoTags |-> IF g = "up" THEN p[1] ELSE p[2]]] :
      p \in UNION { TreesOf(EntriesOf(ks, out, gh), FALSE) \X TreesOf(EntriesOf(ks, out, gh), TRUE) :
                    out \in outs, gh \in ghosts } }

SmallTables ==
    UNION { TablesOf(ks, {{}} \cup {{r} : r \in Omitted}, {{}} \cup {{k} : k \in Ghosts}, {}) : ks \in KeyLists }
    \cup TablesOf(<<1, 3>>, {{}}, {{}}, Short)

(* Neither the answer nor the history decides what a call does, so two     *)
(* states that differ in nothing else are one.                             *)
View == <<table, [at EXCEPT !.answer = "Nothing"], selected, parked>>
=============================================================================
