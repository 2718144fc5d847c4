----------------------------- MODULE MCDelivery -----------------------------
(***************************************************************************)
(* Small instances of Delivery: more updates than the breaker's threshold, *)
(* two threads that meet at its lock, and time to recover once.            *)
(***************************************************************************)
EXTENDS Delivery, TLC

CONSTANTS u1, u2, u3

MCUpdates == {u1, u2, u3}
MCBackends == {"http", "kafka"}
MCHttp == {"http"}
MCAccepting == {TRUE, FALSE}
MCRejects == {FALSE}

(* Sound for an invariant: calls are told apart by nothing else. *)
MCSymmetry == Permutations(MCUpdates)

============================================================================
