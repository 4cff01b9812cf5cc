------------------------------- MODULE MCHub --------------------------------
(* Instances of Hub for TLC: the deployments the runs look at.              *)
EXTENDS Hub, TLC

CONSTANTS h1, h2, c1, c2, c3, p1, p2, p3

\* Three connections of distinct peers over two instances.
Cluster ==
    [conns |-> Conns, hubOf |-> c1 :> h1 @@ c2 :> h2 @@ c3 :> h1,
     peerOf |-> c1 :> p1 @@ c2 :> p2 @@ c3 :> p3,
     cache |-> TRUE, broker |-> TRUE, faults |-> {}, signals |-> 0]

\* One instance, c3 is c1's peer with the same token, and everything fails.
Faulty ==
    [conns |-> Conns, hubOf |-> c1 :> h1 @@ c2 :> h1 @@ c3 :> h1,
     peerOf |-> c1 :> p1 @@ c2 :> p2 @@ c3 :> p1,
     cache |-> TRUE, broker |-> TRUE,
     faults |-> {"redis", "subscribe", "shutdown"}, signals |-> 0]

\* The same without a fault.
Reconnect == [Faulty EXCEPT !.faults = {}]
HubReconnectSites == {Reconnect}

\* c3 is c2's peer, who comes back on the other instance while Redis fails.
Roaming == [Cluster EXCEPT !.peerOf = c1 :> p1 @@ c2 :> p2 @@ c3 :> p2,
                           !.faults = {"redis"}]

\* Two of the connections and a signaling message between the instances.
Signaling == [Cluster EXCEPT !.conns = {c1, c2}, !.signals = 1]

\* One instance on its own, without Redis and NATS.
Plain == [Cluster EXCEPT !.conns = {c1, c3}, !.signals = 1,
                         !.cache = FALSE, !.broker = FALSE]

HubSites == {Cluster, Faulty, Roaming, Signaling, Plain}
=============================================================================
