------------------------------ MODULE MCSelect ------------------------------
(* Two channels.  a selects over both, b over the same two, written in the  *)
(* opposite order and with a send arm, d polls with a default, t selects    *)
(* from *main, twice on one channel; s1 and s2 send, r receives.            *)
EXTENDS Select, TLC

CONSTANTS a, b, d, t, s1, s2, r

MCCases == a :> <<[chan |-> 1, is_send |-> FALSE], [chan |-> 2, is_send |-> FALSE]>>
        @@ b :> <<[chan |-> 2, is_send |-> TRUE], [chan |-> 1, is_send |-> FALSE]>>
        @@ d :> <<[chan |-> 1, is_send |-> TRUE], [chan |-> 2, is_send |-> FALSE]>>
        @@ t :> <<[chan |-> 2, is_send |-> TRUE], [chan |-> 2, is_send |-> TRUE]>>

MCHome == s1 :> 1 @@ s2 :> 2 @@ r :> 1
============================================================================
