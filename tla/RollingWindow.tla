---------------------------- MODULE RollingWindow ----------------------------
(***************************************************************************)
(* What a rate limiter with a strict rolling window promises, whatever it  *)
(* remembers of the past and whenever it cleans up: at all times at most   *)
(* Limit grants are less than Window old.  The state is the exact list of  *)
(* those grants; one leaves it as it comes of age, and only then.          *)
(***************************************************************************)
EXTENDS Integers, Sequences

CONSTANTS Limit, Window

VARIABLE recent     \* the ages of the grants of the last Window ticks, oldest first

Init == recent = <<>>

Tick ==
    \E k \in 0..Len(recent) :
        /\ \A i \in 1..Len(recent) : i <= k <=> recent[i] + 1 >= Window
        /\ recent' = [i \in 1..(Len(recent) - k) |-> recent[k + i] + 1]

Grant ==
    /\ Len(recent) < Limit
    /\ recent' = Append(recent, 0)

Next == Tick \/ Grant

Spec == Init /\ [][Next]_recent
=============================================================================
