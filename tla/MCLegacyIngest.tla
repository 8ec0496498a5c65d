--------------------------- MODULE MCLegacyIngest ---------------------------
(* A battery and a converter, and the packet shapes of _handle_packet.       *)
EXTENDS LegacyIngest

TwoAssets == <<"bms_1", "pcs_1">>
ThreeFields == [a \in {"bms_1", "pcs_1"} |->
                   IF a = "bms_1" THEN {"last_error", "extra"} ELSE {"power"}]
SpecFields == {"last_error", "power"}
SpecLiveOnly == {"last_error"}

Obj(id, of, body) == [id |-> id, of |-> of, body |-> body, typed |-> TRUE]
Untyped(obj) == [obj EXCEPT !.typed = FALSE]
Bms(body) == Obj("bms_1", "bms_1", body)
Pcs(body) == Obj("pcs_1", "pcs_1", body)
Envelope == Obj(NoId, "bms_1", "empty")

\* The event of one asset, with a copy under `assets` that names it as well.
Event(short, obj) ==
    [self |-> obj, dataDict |-> TRUE, siblings |-> <<>>, assets |-> <<<<short, obj>>>>]
PcsEvent == Event("pcs", Pcs("data"))
\* The same with an empty "data" at the top and the readings under `assets`.
NestedEvent == [Event("bms", Bms("data")) EXCEPT !.self = Bms("empty")]
\* The combined packet: siblings with data, placeholders under `assets`.
Combined ==
    [self |-> Envelope, dataDict |-> FALSE,
     siblings |-> <<<<"pcs", Pcs("data")>>, <<"bms", Bms("data")>>>>,
     assets |-> <<<<"bms", Envelope>>, <<"pcs", Obj(NoId, "pcs_1", "empty")>>>>]
\* An asset without a sibling shows as a placeholder only.
PcsAlone ==
    [Combined EXCEPT !.siblings = <<<<"pcs", Pcs("data")>>>>, !.assets = <<<<"bms_1", Envelope>>>>]
\* The mock: readings spread or under "telemetry", the id only as the key, no type.
Mock == [self |-> Envelope, dataDict |-> FALSE, siblings |-> <<>>,
         assets |-> <<<<"bms_1", Untyped(Obj(NoId, "bms_1", "spread"))>>,
                      <<"pcs_1", Untyped(Obj(NoId, "pcs_1", "data"))>>>>]
\* A list under `assets`, and a bare packet.
Listed == [Mock EXCEPT !.assets = <<<<NoId, Envelope>>, <<NoId, Pcs("spread")>>>>]
Bare == [self |-> Bms("spread"), dataDict |-> FALSE, siblings |-> <<>>, assets |-> <<>>]

AllShapes == {PcsEvent, NestedEvent, Combined, PcsAlone, Mock, Listed, Bare}
=============================================================================
