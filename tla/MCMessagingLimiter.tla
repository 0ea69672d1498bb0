------------------------- MODULE MCMessagingLimiter -------------------------
(* Model checking of MessagingLimiter.  MaxCalls bounds the updates; the clock *)
(* needs no bound. *)
EXTENDS MessagingLimiter
=============================================================================
