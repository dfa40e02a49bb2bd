----------------------------- MODULE MCDelivery -----------------------------
(* Constant values for checking MessageDelivery with TLC.                  *)
EXTENDS MessageDelivery, TLC

CONSTANTS lead, w1, c1, c2

\* The worker's handle is the longer one.
TwoHandleBytes == (lead :> 2) @@ (w1 :> 3)

AnyFilter == {NoFilter}
WorkFilter == {{"worker_done", "escalation"}}

CallSymmetry == Permutations(Calls)
=============================================================================
