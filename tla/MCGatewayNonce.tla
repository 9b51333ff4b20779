--------------------------- MODULE MCGatewayNonce ---------------------------
(* Small instances of GatewayNonce for TLC; the unit of time is 5s. *)
EXTENDS GatewayNonce, TLC

CONSTANTS w1, w2, i1

(* A request the gateway signs at its time 6, two altered copies of it and *)
(* a signed request without an id.                                         *)
Original == [id |-> i1, ts |-> 6, content |-> "a", signature |-> <<Secret, i1, 6, "a">>]

MCRequests ==
    {Original, [Original EXCEPT !.ts = 12], [Original EXCEPT !.content = "b"],
     [id |-> NoRequestId, ts |-> 6, content |-> "a",
      signature |-> <<Secret, NoRequestId, 6, "a">>]}

WorkerSymmetry == Permutations({w1, w2})
=============================================================================
