------------------------------- MODULE Nodes -------------------------------
(***************************************************************************)
(* networking/node.js: Node, its peers and the count of its connections,   *)
(* and NodeManager, the nodes by role.                                     *)
(*                                                                         *)
(* There is one Node object for each node id.  Left out: statistics of     *)
(* blocks and votes, which are only set and read, and messages, which are  *)
(* placeholders.                                                           *)
(***************************************************************************)
EXTENDS Integers, FiniteSets

CONSTANTS
    NodeIds,      \* ids of nodes
    Roles,        \* roles nodes are added with
    MaxNodeCount  \* bound on node_count

ASSUME NodesAssumption == IsFiniteSet(NodeIds) /\ MaxNodeCount \in Nat

VARIABLES
    node_peers,   \* Node.peers
    connections,  \* Node.stats.connections
    is_active,    \* Node.is_active
    restarted,    \* nodes that were restarted while they had peers
    nodes,        \* the keys of NodeManager.nodes
    node_count,   \* NodeManager.node_count
    with_role     \* validator_nodes, miner_nodes and full_nodes

nodeVars == <<node_peers, connections, is_active, restarted>>
nodesVars == <<nodeVars, nodes, node_count, with_role>>

NodesInit ==
    /\ node_peers = [n \in NodeIds |-> {}]
    /\ connections = [n \in NodeIds |-> 0]
    /\ is_active = [n \in NodeIds |-> TRUE]
    /\ restarted = {}
    /\ nodes = {} /\ node_count = 0
    /\ with_role = [r \in Roles |-> {}]

\* The nodes that do not have the other one as a peer yet take it as one.
Node_add_peer(n, m) ==
    /\ node_peers' = [k \in NodeIds |->
           CASE k = n -> node_peers[n] \cup {m}
             [] k = m -> node_peers[m] \cup {n}
             [] OTHER -> node_peers[k]]
    /\ connections' = [k \in NodeIds |->
           connections[k] + Cardinality(node_peers'[k] \ node_peers[k])]
    /\ UNCHANGED <<is_active, restarted, nodes, node_count, with_role>>

\* Mutant: the other node is not told.
Node_remove_peer_OneWay(n, m) ==
    /\ node_peers' = [node_peers EXCEPT ![n] = @ \ {m}]
    /\ connections' = [k \in NodeIds |->
           connections[k] - Cardinality(node_peers[k] \ node_peers'[k])]
    /\ UNCHANGED <<is_active, restarted, nodes, node_count, with_role>>

Node_remove_peer(n, m) ==
    /\ node_peers' = [k \in NodeIds |->
           CASE k = n -> node_peers[n] \ {m}
             [] k = m -> node_peers[m] \ {n}
             [] OTHER -> node_peers[k]]
    /\ connections' = [k \in NodeIds |->
           connections[k] - Cardinality(node_peers[k] \ node_peers'[k])]
    /\ UNCHANGED <<is_active, restarted, nodes, node_count, with_role>>

\* Also start and stop.
Node_update_status(n, active) ==
    /\ is_active' = [is_active EXCEPT ![n] = active]
    /\ UNCHANGED <<node_peers, connections, restarted, nodes, node_count, with_role>>

\* restart: the count of connections starts again, the peers stay.
Node_restart(n) ==
    /\ connections' = [connections EXCEPT ![n] = 0]
    /\ is_active' = [is_active EXCEPT ![n] = TRUE]
    /\ restarted' = IF node_peers[n] = {} THEN restarted ELSE restarted \cup {n}
    /\ UNCHANGED <<node_peers, nodes, node_count, with_role>>

\* A node that is there already counts again, and may get a second role.
NodeManager_add_node(n, r) ==
    /\ node_count < MaxNodeCount
    /\ nodes' = nodes \cup {n}
    /\ node_count' = node_count + 1
    /\ with_role' = [with_role EXCEPT ![r] = @ \cup {n}]
    /\ UNCHANGED nodeVars

RolesInOrder == <<"validator", "miner", "full_node">>

\* The first role that has the node loses it; another role keeps it.
NodeManager_remove_node(n) ==
    /\ n \in nodes
    /\ nodes' = nodes \ {n}
    /\ node_count' = node_count - 1
    /\ LET first == CHOOSE i \in 1 .. 3 :
                        /\ n \in with_role[RolesInOrder[i]]
                        /\ \A j \in 1 .. i - 1 : n \notin with_role[RolesInOrder[j]]
       IN with_role' = [with_role EXCEPT ![RolesInOrder[first]] = @ \ {n}]
    /\ UNCHANGED nodeVars

NodesNext ==
    \E n \in NodeIds :
        \/ \E m \in NodeIds : Node_add_peer(n, m) \/ Node_remove_peer(n, m)
        \/ Node_restart(n) \/ \E active \in BOOLEAN : Node_update_status(n, active)
        \/ \E r \in Roles : NodeManager_add_node(n, r)
        \/ NodeManager_remove_node(n)

NodesSpec == NodesInit /\ [][NodesNext]_nodesVars

-----------------------------------------------------------------------------
(* Properties *)

\* Peers are mutual, and each node counts as many connections as it has peers,
\* unless it was restarted with some (add_peer, remove_peer); a managed node has a
\* role, and no fewer nodes are counted than managed (add_node, remove_node).
PeersAreMutual ==
    /\ \A n, m \in NodeIds : m \in node_peers[n] <=> n \in node_peers[m]
    /\ \A n \in NodeIds \ restarted : connections[n] = Cardinality(node_peers[n])
    /\ nodes \subseteq UNION {with_role[r] : r \in Roles}
    /\ node_count >= Cardinality(nodes)
=============================================================================
