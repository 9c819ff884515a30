--------------------------- MODULE MCRecordCursor ---------------------------
EXTENDS RecordCursor, TLC

Entries(keys) == \* of records 1..Len(keys), in ascending order
  SortSeq([r \in DOMAIN keys |-> [key |-> keys[r], rec |-> r]], LAMBDA a, b : Before(a, b))
OfKeys(keys, down) ==
  [n |-> Len(keys), key |-> [r \in 1..MaxRec |-> IF r <= Len(keys) THEN keys[r] ELSE 0],
   ents |-> Entries(keys), desc |-> down, sel |-> TRUE]

MCFiles == {OfKeys(keys, down) : keys \in {<< >>, <<2, 1, 1>>}, down \in BOOLEAN}
MCSteps == {-1, 1, 2}
=============================================================================
