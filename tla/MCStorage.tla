----------------------------- MODULE MCStorage -----------------------------
(* The storage layer in one run: a behaviour is one of the optimizer's      *)
(* blocks (FileCache) or one of the delayed writes below it (WriteDelay),   *)
(* part says which; the other one stands still.                             *)
EXTENDS FileCache, WriteDelay

VARIABLE part

Exclusive == [shared |-> FALSE, writeBuffer |-> TRUE]
Through == [shared |-> TRUE, writeBuffer |-> FALSE]
BufferedWhenLocked == [shared |-> TRUE, writeBuffer |-> TRUE]

TwoModes == {Exclusive, Through}
LockedMode == {BufferedWhenLocked}

\* The blocks of the run are those FileCacheProofs is about.
ASSUME FileIsOpened == Modes # LockedMode => Opened

MCInit ==
  /\ Init /\ DelayInit
  /\ part \in {"blocks", "delay"}
  /\ part = "delay" => mode = Exclusive

MCNext ==
  \/ part = "blocks" /\ Next /\ UNCHANGED <<part, delayVars>>
  \/ part = "delay" /\ DelayNext /\ UNCHANGED <<part, vars>>

MCSpec ==
  MCInit /\ [][MCNext]_<<part, vars, delayVars>>
  /\ WF_delayVars(part = "delay" /\ Main /\ UNCHANGED <<part, vars>>)
  /\ WF_delayVars(part = "delay" /\ Thread /\ UNCHANGED <<part, vars>>)
=============================================================================
