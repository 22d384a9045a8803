--------------------------- MODULE MCCancellation ----------------------------
(* Model checking of Cancellation: the tokens of a request that was made of a  *)
(* transport's token, which is itself an `any`.                                *)
EXTENDS Cancellation, TLC

CONSTANTS caller, slot, transport, request, first, second

MCToken == {caller, slot, transport, request}
MCConstituents ==
    (caller :> {}) @@ (slot :> {}) @@ (transport :> {caller}) @@ (request :> {transport, slot})
MCSubject == (first :> request) @@ (second :> transport)
=============================================================================
