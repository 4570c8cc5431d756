--------------------------- MODULE MCIdempotency ---------------------------
(***************************************************************************)
(* Three requests for one key: a request, its repeat, and the same key     *)
(* used again for another payload.                                         *)
(***************************************************************************)
EXTENDS Idempotency

CONSTANTS a, b, c, theKey

MCRequests == {a, b, c}
MCKeys == {theKey}
MCPrints == {"p", "q"}
MCKeyOf == [r \in MCRequests |-> theKey]
MCPrintOf == [r \in MCRequests |-> IF r = c THEN "q" ELSE "p"]
MCMaxTx == [r \in MCRequests |-> IF r = a THEN 2 ELSE IF r = b THEN 1 ELSE 0]
=============================================================================
