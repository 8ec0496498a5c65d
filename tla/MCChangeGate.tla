---------------------------- MODULE MCChangeGate ----------------------------
(* Small instances of ChangeGate: the same field key of two assets. Values  *)
(* are in quarters, so TRUE is 4.                                           *)
EXTENDS ChangeGate, TLC

CONSTANTS bms_soc, pcs_soc

Num(n) == [kind |-> "num", v |-> n]
Bool(b) == [kind |-> "bool", v |-> IF b THEN 4 ELSE 0]
Text(s) == [kind |-> "text", v |-> s]
Json(j) == [kind |-> "json", v |-> j]

TwoAssets == {bms_soc, pcs_soc}
EitherAsset == Permutations(TwoAssets)

\* Both booleans, and numbers that drift in steps within a deadband of 1/4.
MixedReadings == {Bool(FALSE), Bool(TRUE), Num(6), Num(7), Num(8), Text(0), Json(0)}
=============================================================================
