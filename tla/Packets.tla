------------------------------- MODULE Packets -------------------------------
(***************************************************************************)
(* The packet normaliser of app/ingestion.py (`_handle_packet`): from the  *)
(* shapes the legacy gateway has used to one object per asset.             *)
(*                                                                         *)
(* An object is a record of its inner asset_id (or NoId), the asset whose  *)
(* readings it holds, how it holds them ("data" under "data" or            *)
(* "telemetry", "spread" as further keys of its own, "empty" not at all)   *)
(* and whether it has an asset_type (typed).                               *)
(* A packet is an object itself and may hold others.                       *)
(***************************************************************************)
EXTENDS Naturals, Sequences, SequencesExt

NoId == ""

\* `obj.get("asset_id") or asset_id or ...`: the dict key counts as an id whatever
\* it is; the map of the short keys only sees keys that are missing.
IdOf(key, obj) == IF obj.id # NoId THEN obj.id ELSE key

HasData(obj) == obj.body # "empty"

\* Mutation: the first object of an asset is kept.
BetterNever(new, old) == FALSE
Better(new, old) == HasData(new) /\ old.body # "data"

Skipped(aid) == aid = NoId

\* `consider`: collected is a dict in the order of insertion.
Consider(collected, offer) ==
    LET aid == IdOf(offer[1], offer[2])
        at == {i \in DOMAIN collected : collected[i].id = aid}
    IN  IF Skipped(aid) THEN collected
        ELSE IF at = {} THEN Append(collected, [id |-> aid, obj |-> offer[2]])
        ELSE [i \in DOMAIN collected |->
                 IF i \in at /\ Better(offer[2], collected[i].obj)
                   THEN [id |-> aid, obj |-> offer[2]] ELSE collected[i]]

\* The objects in the order in which they are considered: the siblings, the packet
\* itself if it has an id and a "data" dict, the members of `assets`.
Offers(p) ==
    p.siblings
    \o (IF p.self.id # NoId /\ p.dataDict THEN <<<<p.self.id, p.self>>>> ELSE <<>>)
    \o p.assets

\* A bare packet counts only when nothing else has been collected.
Normalised(p) ==
    LET collected == FoldLeft(Consider, <<>>, Offers(p)) IN
    IF collected = <<>> /\ p.self.id # NoId
      THEN Consider(<<>>, <<p.self.id, p.self>>)
      ELSE collected
=============================================================================
