--------------------------- MODULE MCNorthIngest ----------------------------
(* Two assets, one of them with two signals, and an alarm of each.           *)
EXTENDS NorthIngest

TwoAssets == <<"bms_1", "pcs_1">>
ThreeSignals == [a \in {"bms_1", "pcs_1"} |-> IF a = "bms_1" THEN <<"soc", "soh">> ELSE <<"power">>]
OneAlarm == {"low_soc"}
OneAlarmAsset == [al \in OneAlarm |-> "bms_1"]
=============================================================================
