--------------------------- MODULE MCCommandAudit ---------------------------
(* A batch of three writes with a command of the legacy proxy beside it.     *)
EXTENDS CommandAudit

BatchAndCommand == {"batch", "command"}
KindOf == [r \in BatchAndCommand |-> r]
ThreeWrites ==
    [r \in BatchAndCommand |-> IF r = "batch" THEN <<TRUE, TRUE, TRUE>> ELSE <<TRUE>>]
Known == [r \in BatchAndCommand |-> TRUE]
=============================================================================
