----------------------------- MODULE HistoryLog -----------------------------
(***************************************************************************)
(* What the batched writer promises to the rest of the backend: a FIFO,    *)
(* at-least-once log from the ingestion worker to ems_telemetry_samples.   *)
(* Rows are recorded at one end and stored from the other; a row leaves    *)
(* the log only by being stored, unless the worker is closing down.        *)
(***************************************************************************)
EXTENDS Naturals, Sequences, SequencesExt

VARIABLES
    pending,   \* rows recorded and not yet known to be stored, oldest first
    stored,    \* the rows of ems_telemetry_samples in the order of insertion
    closing    \* the worker has been told to stop

vars == <<pending, stored, closing>>

Init == pending = <<>> /\ stored = <<>> /\ closing = FALSE

\* New rows join at the back.
Record ==
    /\ ~closing
    /\ pending # pending' /\ IsPrefix(pending, pending')
    /\ UNCHANGED <<stored, closing>>

\* A front segment of the log is stored. The acknowledgement may be lost, and
\* then the segment stays pending and will be stored again.
Store ==
    /\ \E n \in 1..Len(pending) :
          /\ stored' = stored \o SubSeq(pending, 1, n)
          /\ pending' \in {pending, SubSeq(pending, n + 1, Len(pending))}
    /\ UNCHANGED closing

Close == closing' = TRUE /\ UNCHANGED <<pending, stored>>

\* Only a worker that is closing may forget a segment.
Abandon ==
    /\ closing
    /\ \E i \in 1..Len(pending) : \E j \in i..Len(pending) :
          pending' = SubSeq(pending, 1, i - 1) \o SubSeq(pending, j + 1, Len(pending))
    /\ UNCHANGED <<stored, closing>>

Next == Record \/ Store \/ Close \/ Abandon

Spec == Init /\ [][Next]_vars
=============================================================================
