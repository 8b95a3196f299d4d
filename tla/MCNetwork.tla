----------------------------- MODULE MCNetwork -----------------------------
(***************************************************************************)
(* src/networking, core/bridge.js, core/light_client.js and core/merkle.js *)
(* side by side: they do not call each other, and a behaviour is one of    *)
(* `part`, the others staying as they start.                               *)
(***************************************************************************)
EXTENDS Bridge, LightClient, Peers, Nodes, Requests, TransactionPool

VARIABLE part

allVars == <<part, bridgeVars, lightClientVars, data, peersVars, nodesVars,
             requestsVars, poolVars>>

NetworkInit ==
    /\ part \in {"bridge", "headers", "merkle", "peers", "nodes", "requests", "pool"}
    /\ BridgeInit /\ LightClientInit /\ MerkleInit /\ PeersInit /\ NodesInit
    /\ RequestsInit /\ PoolInit
    /\ part # "bridge" => relayer_threshold = 1
    /\ part # "headers" => blockHeaders[0] = 0
    /\ part # "peers" => \A p \in PeerIds : ~is_connected[p]

NetworkNext ==
    \/ /\ part = "bridge" /\ BridgeNext
       /\ UNCHANGED <<part, lightClientVars, data, peersVars, nodesVars, requestsVars, poolVars>>
    \/ /\ part = "headers" /\ LightClientNext
       /\ UNCHANGED <<part, bridgeVars, data, peersVars, nodesVars, requestsVars, poolVars>>
    \/ /\ part = "merkle" /\ MerkleNext
       /\ UNCHANGED <<part, bridgeVars, lightClientVars, peersVars, nodesVars, requestsVars, poolVars>>
    \/ /\ part = "peers" /\ PeersNext
       /\ UNCHANGED <<part, bridgeVars, lightClientVars, data, nodesVars, requestsVars, poolVars>>
    \/ /\ part = "nodes" /\ NodesNext
       /\ UNCHANGED <<part, bridgeVars, lightClientVars, data, peersVars, requestsVars, poolVars>>
    \/ /\ part = "requests" /\ RequestsNext
       /\ UNCHANGED <<part, bridgeVars, lightClientVars, data, peersVars, nodesVars, poolVars>>
    \/ /\ part = "pool" /\ PoolNext
       /\ UNCHANGED <<part, bridgeVars, lightClientVars, data, peersVars, nodesVars, requestsVars>>

\* Outside its part nothing of Requests moves, and its fairness asks for nothing.
NetworkSpec == NetworkInit /\ [][NetworkNext]_allVars /\ RequestsFairness

-----------------------------------------------------------------------------
(* Properties *)

\* What is counted beside a set or kept in two maps agrees with it, through awaits,
\* removals and repeated calls, in the three places that do so (PeerManager,
\* Node and NodeManager, TransactionPool).
CountsAgree == EveryPeerCountsOnce /\ PeersAreMutual /\ PoolMapsAgree
=============================================================================
