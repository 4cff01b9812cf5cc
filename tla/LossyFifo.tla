------------------------------ MODULE LossyFifo ------------------------------
(***************************************************************************)
(* What a signaling connection promises the hub (hub.go relies on it, and  *)
(* Hub.tla takes it for granted): messages it accepts arrive in the order  *)
(* of acceptance, once each and without a gap, until the connection is     *)
(* given up; from then on only a first part of the rest still arrives.     *)
(***************************************************************************)
EXTENDS Naturals, Sequences

CONSTANT Messages

VARIABLES
    pending,  \* accepted and not yet received
    got,      \* received
    up        \* whether the connection has not been given up

vars == <<pending, got, up>>

Init == pending = <<>> /\ got = <<>> /\ up = TRUE

Accept(m) ==
    /\ up
    /\ pending' = Append(pending, m)
    /\ UNCHANGED <<got, up>>

\* Several messages may arrive at once.
Deliver(k) ==
    /\ got' = got \o SubSeq(pending, 1, k)
    /\ pending' = SubSeq(pending, k + 1, Len(pending))
    /\ UNCHANGED up

GiveUp(k) ==
    /\ up' = FALSE
    /\ pending' = SubSeq(pending, 1, k)
    /\ UNCHANGED got

Next ==
    \/ \E m \in Messages : Accept(m)
    \/ \E k \in 1..Len(pending) : Deliver(k)
    \/ \E k \in 0..Len(pending) : GiveUp(k)

Spec == Init /\ [][Next]_vars

\* Nothing stays pending: it arrives or the connection is given up.
Progress ==
    /\ pending # <<>>
    /\ (\E k \in 1..Len(pending) : Deliver(k)) \/ (\E k \in 0..Len(pending) : GiveUp(k))

FairSpec == Spec /\ WF_vars(Progress)
=============================================================================
