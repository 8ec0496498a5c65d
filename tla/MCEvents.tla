------------------------------ MODULE MCEvents ------------------------------
(* A small instance of Events: an entry in two versions, one that differs   *)
(* from it in the message alone, and one of another time.                   *)
EXTENDS Events, TLC

CONSTANTS s1, s2

Entry(ts, message, status) ==
    [ts |-> ts, type |-> "command", command |-> "start", message |-> message, status |-> status]

TwoSyncs == {s1, s2}
SomeEntries == {Entry(2, "sent", "pending"), Entry(2, "sent", "ok"), Entry(2, "done", "ok"),
                Entry(0, "boot", "ok")}
TwoAlarms == {[ts |-> 1, code |-> "OVP", message |-> "over voltage"],
             [ts |-> 1, code |-> "DOOR", message |-> "door open"]}
Symmetry == Permutations(TwoSyncs)
=============================================================================
