------------------------------- MODULE MCQuery -------------------------------
(***************************************************************************)
(* Small instances of Query for TLC.  Text is two bytes of 2 and 3, with 1 *)
(* the blank; numbers are bytes in halves, so that 3 is one and a half.    *)
(* Column "name" has text tags, one of them filtered and so of no use,     *)
(* "num" an integer tag, "free" none.                                      *)
(***************************************************************************)
EXTENDS Query

Row(name, num, free) == [name |-> name, num |-> num, free |-> free]

Rows == <<Row(<<3, 2>>, <<2>>, <<2>>), Row(<<2, 3>>, <<4>>, <<3>>),
          Row(<<2, 1>>, <<2>>, <<2>>), Row(<<3, 3>>, <<4>>, <<2>>), Row(<<3, 1>>, <<4>>, <<3>>)>>

EntryLess(a, b) == Less(a.key, b.key) \/ (a.key = b.key /\ a.rec < b.rec)

\* The entries of a column, and of a record that the table does not have.
Entries(rows, column, records, ghosts) ==
    SetToSortSeq({[key |-> rows[r][column], rec |-> r] : r \in records} \cup ghosts, EntryLess)

Tag(column, kind, length, filtered, descending, entries) ==
    [column |-> column, kind |-> kind, length |-> length, filtered |-> filtered, unique |-> FALSE,
     collated |-> FALSE, descending |-> descending, entries |-> entries]

\* Keys that may be absent are a byte longer.
Database(rows, ghosts, keyLength) ==
    [rows |-> rows,
     tags |-> <<Tag("name", "Character", keyLength, TRUE, FALSE, Entries(rows, "name", {1} \cap DOMAIN rows, {})),
                Tag("name", "Character", keyLength, FALSE, FALSE, Entries(rows, "name", DOMAIN rows, ghosts)),
                Tag("num", "Int32", 1, FALSE, TRUE, Entries(rows, "num", DOMAIN rows, {}))>>]

NullRows == <<Row(Absent, <<2>>, <<2>>), Row(<<2, 3>>, <<4>>, <<3>>)>>

MCDatabases == {Database(Rows, {[key |-> <<3, 2>>, rec |-> 6]}, 2), Database(<<>>, {}, 2)}
NullDatabases == {Database(NullRows, {}, 3)}

-----------------------------------------------------------------------------
\* None of these is a prefix of another.
Texts == {<<2>>, <<3, 1>>, <<3, 3>>}

Names(constants, reflected) == {Term(op, "name", c, s) : op \in Operators, c \in constants, s \in reflected}
Nums(operators) == {Term(op, "num", c, FALSE) : op \in operators, c \in {<<2>>, <<3>>, <<4>>}}
Free == {Term("=", "free", <<2>>, FALSE)}

Of(kind, filters) == IF kind = "and" THEN Both(filters) ELSE Either(filters)

Connect(firsts, seconds) == {Of(kind, <<x, y>>) : kind \in {"and", "or"}, x \in firsts, y \in seconds}

Ranges == {Term(">", "name", <<2>>, FALSE), Term("<", "name", <<3, 3>>, FALSE), Term("<>", "name", <<3, 1>>, FALSE),
           Term("=", "name", <<3, 3>>, FALSE)}

Mixed == Ranges \cup Free \cup {Term(">=", "num", <<4>>, FALSE), Term("<", "num", <<3>>, FALSE)}

Three == {Of(kind, <<x, y, z>>) : kind \in {"and", "or"}, x \in Ranges, y \in Ranges, z \in Ranges}

MCFilters ==
    Names(Texts, BOOLEAN) \cup Nums(Operators) \cup Free
    \cup {Not(f) : f \in Mixed}
    \cup Connect(Names(Texts, {FALSE}), Names(Texts, {FALSE}))
    \cup Connect(Nums({"<>", ">="}), Mixed) \cup Connect(Mixed, Free \cup {Not(f) : f \in Free})
    \cup Three
    \cup Connect(Connect(Mixed, Mixed), Mixed)
    \cup Connect(Mixed, Connect(Mixed, Mixed))

\* One constant a prefix of the other, and columns that may be absent.
PrefixFilters == Connect(Names({<<3>>, <<3, 3>>}, {FALSE}), Names({<<3>>, <<3, 3>>}, {FALSE}))
NullFilters   == Names(Texts, BOOLEAN)

\* What the next steps and the properties depend on of a query.
View == <<db, prepared, Scan, MergeKeepsTheRecords, selected, at, eof, bof, JustRanOff>>
=============================================================================
