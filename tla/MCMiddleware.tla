----------------------------- MODULE MCMiddleware -----------------------------
(* Middleware for TLC: requests, contexts and goroutines are interchangeable. *)
EXTENDS Middleware, TLC

Symmetry == Permutations(Reqs) \cup Permutations(Ctxs) \cup Permutations(Goroutines)

=============================================================================
