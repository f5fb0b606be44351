---------------------------- MODULE MCIngestGate ----------------------------
(* A small instance of IngestGate: one replica, and a page whose text      *)
(* changes.                                                                *)
EXTENDS IngestGate, TLC

MCReplicaOf == [w \in Tasks |-> CHOOSE p \in Replicas : TRUE]

MCSourceOf == [d \in Ids |-> <<"s">>]
MCPlaceOf == [d \in Ids |-> d]

Piece(x) == [tenant |-> <<"a">>, section |-> <<"h">>, text |-> <<x>>]

MCHistory == <<<<Piece("x")>>, <<Piece("y")>>>>
=============================================================================
