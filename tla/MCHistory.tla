----------------------------- MODULE MCHistory ------------------------------
(* A small instance of History: one field whose value is a number or a      *)
(* text.                                                                    *)
EXTENDS History

OneField == {<<"bms_1", "soc">>}
SomeReadings == {[kind |-> "num", v |-> 0], [kind |-> "text", v |-> 0]}
=============================================================================
