-------------------------- MODULE MCProviderLimiter --------------------------
(* Model checking of ProviderLimiter.  A request is made once, so the number *)
(* of requests and the retries bound the calls; the clock needs no bound. *)
EXTENDS ProviderLimiter

MCSymmetry == Permutations(Requests)
==============================================================================
