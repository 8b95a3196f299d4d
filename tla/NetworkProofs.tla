--------------------------- MODULE NetworkProofs ---------------------------
(***************************************************************************)
(* What holds of the bridge, the light client, the Merkle trees, the       *)
(* peers, the nodes and the transaction pool for every set of relayers,    *)
(* headers, data, peers, nodes and transactions, and every bound.          *)
(***************************************************************************)
EXTENDS MCNetwork, Induction, TLAPS

\* A step of the network is one of each part, or leaves it alone.
LEMMA PartsMove ==
    ASSUME [NetworkNext]_allVars
    PROVE  /\ [PoolNext]_poolVars /\ [NodesNext]_nodesVars /\ [PeersNext]_peersVars
           /\ [BridgeNext]_bridgeVars /\ [LightClientNext]_lightClientVars
           /\ [MerkleNext]_data
BY DEF NetworkNext, allVars

-----------------------------------------------------------------------------
(* The transaction pool *)

PoolInv ==
    /\ IsFiniteSet(transactions) /\ transaction_count \in Int
    /\ PoolMapsAgree

LEMMA PoolInitial ==
    ASSUME PoolInit PROVE PoolInv
BY FS_EmptySet DEF PoolInit, PoolInv, PoolMapsAgree

LEMMA PoolStep ==
    ASSUME PoolInv, [PoolNext]_poolVars PROVE PoolInv'
<1> USE DEF PoolInv, PoolMapsAgree
<1>0. Cardinality(transactions) \in Nat BY FS_CardinalityType
<1>1. ASSUME NEW t \in PoolTransactions, Pool_add_transaction(t) PROVE PoolInv'
  <2>1. /\ IsFiniteSet(transactions \cup {t})
        /\ Cardinality(transactions \cup {t}) = Cardinality(transactions) + 1
    BY <1>1, FS_AddElement DEF Pool_add_transaction
  <2>2. /\ transactions' = transactions \cup {t}
        /\ transaction_count' = transaction_count + 1 /\ miscounted' = miscounted
        /\ transaction_map' \subseteq transaction_map \cup {t}
        /\ transaction_map \ Nameless \subseteq transaction_map' /\ t \in transaction_map'
    BY <1>1 DEF Pool_add_transaction
  <2> QED BY <1>0, <2>1, <2>2
<1>2. ASSUME NEW t \in PoolTransactions, Pool_remove_transaction(t) PROVE PoolInv'
  <2>1. /\ IsFiniteSet(transactions \ {t})
        /\ Cardinality(transactions \ {t}) = Cardinality(transactions) - 1
    BY <1>2, FS_RemoveElement DEF Pool_remove_transaction
  <2>2. /\ transactions' = transactions \ {t}
        /\ transaction_count' = transaction_count - 1 /\ miscounted' = miscounted
        /\ transaction_map' \subseteq transaction_map \ {t}
        /\ transaction_map \ (Nameless \cup {t}) \subseteq transaction_map'
    BY <1>2 DEF Pool_remove_transaction, TakenOut
  <2> QED BY <1>0, <2>1, <2>2
<1>3. ASSUME RemoveUndefined PROVE PoolInv'
  BY <1>3 DEF RemoveUndefined
<1>4. ASSUME remove_expired_transactions PROVE PoolInv'
  <2> DEFINE out == transactions \cap expired
  <2>1. transactions \cap out = out OBVIOUS
  <2>2. /\ IsFiniteSet(transactions \ out)
        /\ Cardinality(transactions \ out) = Cardinality(transactions) - Cardinality(out)
    BY <2>1, FS_Difference
  <2>3. /\ transactions' = transactions \ out
        /\ transaction_count' = transaction_count - Cardinality(out)
        /\ miscounted' = miscounted
        /\ transaction_map' \subseteq transaction_map \ out
        /\ transaction_map \ (Nameless \cup out) \subseteq transaction_map'
    BY <1>4 DEF remove_expired_transactions
  <2>4. Cardinality(out) \in Nat
    BY FS_Intersection, FS_CardinalityType
  <2> HIDE DEF out
  <2> QED BY <1>0, <2>2, <2>3, <2>4
<1>5. ASSUME NEW t \in PoolTransactions, Expires(t) \/ handle_fee_claim(t) PROVE PoolInv'
  BY <1>5 DEF Expires, handle_fee_claim
<1>6. ASSUME Pool_clear PROVE PoolInv'
  BY <1>6, FS_EmptySet DEF Pool_clear
<1>7. ASSUME UNCHANGED poolVars PROVE PoolInv'
  BY <1>7 DEF poolVars
<1> QED BY <1>1, <1>2, <1>3, <1>4, <1>5, <1>6, <1>7 DEF PoolNext

-----------------------------------------------------------------------------
(* Nodes *)

NodesInv ==
    /\ node_peers \in [NodeIds -> SUBSET NodeIds]
    /\ connections \in [NodeIds -> Int]
    /\ nodes \subseteq NodeIds /\ node_count \in Int
    /\ with_role \in [Roles -> SUBSET NodeIds]
    /\ PeersAreMutual

LEMMA NodesInitial ==
    ASSUME NodesInit PROVE NodesInv
BY FS_EmptySet DEF NodesInit, NodesInv, PeersAreMutual

\* A set of nodes that grows or shrinks counts as many more or fewer.
LEMMA PeersCounted ==
    ASSUME NEW S \in SUBSET NodeIds, NEW T \in SUBSET NodeIds
    PROVE  /\ Cardinality(S) \in Nat /\ Cardinality(T) \in Nat
           /\ Cardinality(S \ T) \in Nat
           /\ S \subseteq T => Cardinality(T) = Cardinality(S) + Cardinality(T \ S)
<1>1. IsFiniteSet(S) /\ IsFiniteSet(T) /\ IsFiniteSet(S \ T)
  BY NodesAssumption, FS_Subset
<1>2. Cardinality(T \ S) = Cardinality(T) - Cardinality(T \cap S)
  BY <1>1, FS_Difference
<1>3. ASSUME S \subseteq T PROVE Cardinality(T \cap S) = Cardinality(S)
  <2>1. T \cap S = S BY <1>3
  <2> QED BY <2>1
<1>4. Cardinality(S) \in Nat /\ Cardinality(T) \in Nat /\ Cardinality(S \ T) \in Nat
  BY <1>1, FS_CardinalityType
<1> QED BY <1>2, <1>3, <1>4

LEMMA NodesStep ==
    ASSUME NodesInv, [NodesNext]_nodesVars PROVE NodesInv'
<1> USE DEF NodesInv, PeersAreMutual
<1>1. ASSUME NEW n \in NodeIds, NEW m \in NodeIds, Node_add_peer(n, m) PROVE NodesInv'
  <2>1. /\ node_peers' \in [NodeIds -> SUBSET NodeIds]
        /\ \A k \in NodeIds : node_peers[k] \subseteq node_peers'[k]
    BY <1>1 DEF Node_add_peer
  <2>2. \A k \in NodeIds : connections'[k]
             = connections[k] + Cardinality(node_peers'[k] \ node_peers[k])
    BY <1>1 DEF Node_add_peer
  <2>3. \A k \in NodeIds :
             /\ Cardinality(node_peers'[k]) \in Nat /\ Cardinality(node_peers[k]) \in Nat
             /\ Cardinality(node_peers'[k] \ node_peers[k]) \in Nat
             /\ Cardinality(node_peers'[k])
                    = Cardinality(node_peers[k]) + Cardinality(node_peers'[k] \ node_peers[k])
    BY <2>1, PeersCounted
  <2>4. connections' \in [NodeIds -> Int]
    BY <1>1, <2>3 DEF Node_add_peer
  <2>7. UNCHANGED <<restarted, nodes, node_count, with_role>>
    BY <1>1 DEF Node_add_peer
  <2>5. \A k \in NodeIds \ restarted' : connections'[k] = Cardinality(node_peers'[k])
    <3> SUFFICES ASSUME NEW k \in NodeIds \ restarted
                 PROVE  connections'[k] = Cardinality(node_peers'[k])
      BY <2>7
    <3>1. connections[k] = Cardinality(node_peers[k]) OBVIOUS
    <3> QED BY <2>2, <2>3, <3>1
  <2>6. \A j, k \in NodeIds : k \in node_peers'[j] <=> j \in node_peers'[k]
    BY <1>1 DEF Node_add_peer
  <2> QED BY <2>1, <2>4, <2>5, <2>6, <2>7
<1>2. ASSUME NEW n \in NodeIds, NEW m \in NodeIds, Node_remove_peer(n, m) PROVE NodesInv'
  <2>1. /\ node_peers' \in [NodeIds -> SUBSET NodeIds]
        /\ \A k \in NodeIds : node_peers'[k] \subseteq node_peers[k]
    BY <1>2 DEF Node_remove_peer
  <2>2. \A k \in NodeIds : connections'[k]
             = connections[k] - Cardinality(node_peers[k] \ node_peers'[k])
    BY <1>2 DEF Node_remove_peer
  <2>3. \A k \in NodeIds :
             /\ Cardinality(node_peers'[k]) \in Nat /\ Cardinality(node_peers[k]) \in Nat
             /\ Cardinality(node_peers[k] \ node_peers'[k]) \in Nat
             /\ Cardinality(node_peers[k])
                    = Cardinality(node_peers'[k]) + Cardinality(node_peers[k] \ node_peers'[k])
    BY <2>1, PeersCounted
  <2>4. connections' \in [NodeIds -> Int]
    BY <1>2, <2>3 DEF Node_remove_peer
  <2>7. UNCHANGED <<restarted, nodes, node_count, with_role>>
    BY <1>2 DEF Node_remove_peer
  <2>8. \A k \in NodeIds \ restarted : connections[k] = Cardinality(node_peers[k])
    OBVIOUS
  <2>5. \A k \in NodeIds \ restarted' : connections'[k] = Cardinality(node_peers'[k])
    <3> SUFFICES ASSUME NEW k \in NodeIds \ restarted
                 PROVE  connections'[k] = Cardinality(node_peers'[k])
      BY <2>7
    <3> DEFINE gone == Cardinality(node_peers[k] \ node_peers'[k])
    <3>1. /\ connections'[k] = connections[k] - gone
          /\ Cardinality(node_peers[k]) = Cardinality(node_peers'[k]) + gone
          /\ gone \in Nat /\ Cardinality(node_peers'[k]) \in Nat
          /\ connections[k] = Cardinality(node_peers[k])
      BY <2>2, <2>3, <2>8
    <3> HIDE DEF gone
    <3> QED BY <3>1
  <2>6. \A j, k \in NodeIds : k \in node_peers'[j] <=> j \in node_peers'[k]
    BY <1>2 DEF Node_remove_peer
  <2> QED BY <2>1, <2>4, <2>5, <2>6, <2>7
<1>3. ASSUME NEW n \in NodeIds, Node_restart(n) PROVE NodesInv'
  BY <1>3, FS_EmptySet DEF Node_restart
<1>4. ASSUME NEW n \in NodeIds, NEW active, Node_update_status(n, active) PROVE NodesInv'
  BY <1>4 DEF Node_update_status
<1>5. ASSUME NEW n \in NodeIds, NEW r \in Roles, NodeManager_add_node(n, r) PROVE NodesInv'
  <2>0. IsFiniteSet(nodes) /\ Cardinality(nodes) \in Nat
    BY NodesAssumption, FS_Subset, FS_CardinalityType
  <2>1. Cardinality(nodes \cup {n}) <= Cardinality(nodes) + 1
    <3>1. Cardinality(nodes \cup {n})
              = IF n \in nodes THEN Cardinality(nodes) ELSE Cardinality(nodes) + 1
      BY <2>0, FS_AddElement, Zenon
    <3> QED BY <2>0, <3>1
  <2>2. /\ with_role' \in [Roles -> SUBSET NodeIds]
        /\ \A q \in Roles : with_role[q] \subseteq with_role'[q]
        /\ n \in with_role'[r]
    BY <1>5 DEF NodeManager_add_node
  <2>3. /\ nodes' = nodes \cup {n} /\ node_count' = node_count + 1
        /\ UNCHANGED <<node_peers, connections, restarted>>
    BY <1>5 DEF NodeManager_add_node, nodeVars
  <2>4. nodes' \subseteq UNION {with_role'[q] : q \in Roles}
    <3>1. \A x \in nodes : \E q \in Roles : x \in with_role[q] OBVIOUS
    <3>2. \A x \in nodes' : \E q \in Roles : x \in with_role'[q] BY <2>2, <2>3, <3>1
    <3> QED BY <3>2
  <2>5. node_count' >= Cardinality(nodes')
    <3>1. node_count >= Cardinality(nodes) /\ node_count \in Int OBVIOUS
    <3>2. Cardinality(nodes') <= Cardinality(nodes) + 1 BY <2>1, <2>3
    <3>3. Cardinality(nodes') \in Nat
      BY <2>0, <2>3, FS_AddElement, FS_CardinalityType
    <3> HIDE DEF NodesInv, PeersAreMutual
    <3> QED BY <2>0, <2>3, <3>1, <3>2, <3>3
  <2> QED BY <2>2, <2>3, <2>4, <2>5
<1>6. ASSUME NEW n \in NodeIds, NodeManager_remove_node(n) PROVE NodesInv'
  <2>1. Cardinality(nodes \ {n}) = Cardinality(nodes) - 1 /\ Cardinality(nodes) \in Nat
    BY <1>6, NodesAssumption, FS_Subset, FS_RemoveElement, FS_CardinalityType
       DEF NodeManager_remove_node
  <2>2. PICK role : with_role' = [with_role EXCEPT ![role] = @ \ {n}]
    BY <1>6 DEF NodeManager_remove_node
  <2>3. /\ with_role' \in [Roles -> SUBSET NodeIds]
        /\ \A q \in Roles : with_role[q] \ {n} \subseteq with_role'[q]
    BY <2>2
  <2>4. /\ nodes' = nodes \ {n} /\ node_count' = node_count - 1
        /\ UNCHANGED <<node_peers, connections, restarted>>
    BY <1>6 DEF NodeManager_remove_node, nodeVars
  <2>5. nodes' \subseteq UNION {with_role'[q] : q \in Roles} BY <2>3, <2>4
  <2>6. node_count' >= Cardinality(nodes') BY <2>1, <2>4
  <2> QED BY <2>3, <2>4, <2>5, <2>6
<1>7. ASSUME UNCHANGED nodesVars PROVE NodesInv'
  BY <1>7 DEF nodesVars, nodeVars
<1> QED BY <1>1, <1>2, <1>3, <1>4, <1>5, <1>6, <1>7 DEF NodesNext

-----------------------------------------------------------------------------
(* Peers *)

PeersInv ==
    /\ peers \in Seq(PeerIds)
    /\ \A i, j \in DOMAIN peers : peers[i] = peers[j] => i = j
    /\ is_connected \in [PeerIds -> BOOLEAN]
    /\ peer_stats \in [total : Int, connected : Int, disconnected : Int]
    /\ zeroed \in BOOLEAN
    /\ EveryPeerCountsOnce

LEMMA PeersInitial ==
    ASSUME PeersInit PROVE PeersInv
<1>1. peers = <<>> /\ DOMAIN peers = {} /\ Len(peers) = 0 BY DEF PeersInit
<1>2. peers \in Seq(PeerIds) BY <1>1
<1>3. /\ peer_stats \in [total : Int, connected : Int, disconnected : Int]
      /\ peer_stats.total = 0 /\ peer_stats.connected + peer_stats.disconnected = 0
  BY DEF PeersInit, NoPeers
<1>4. is_connected \in [PeerIds -> BOOLEAN] /\ zeroed \in BOOLEAN BY DEF PeersInit
<1> QED BY <1>1, <1>2, <1>3, <1>4 DEF PeersInv, EveryPeerCountsOnce

LEMMA PeersStep ==
    ASSUME PeersInv, [PeersNext]_peersVars PROVE PeersInv'
<1> USE DEF PeersInv, EveryPeerCountsOnce
<1>0. Len(peers) \in Nat OBVIOUS
<1>1. ASSUME NEW p \in PeerIds, NEW k \in Int
      PROVE  /\ Counted(p, k) \in [total : Int, connected : Int, disconnected : Int]
             /\ Counted(p, k).total = peer_stats.total + k
             /\ Counted(p, k).connected + Counted(p, k).disconnected
                    = peer_stats.connected + peer_stats.disconnected + k
  BY DEF Counted
<1>2. ASSUME NEW p \in PeerIds, PeerManager_add_peer(p) PROVE PeersInv'
  <2>1. /\ Append(peers, p) \in Seq(PeerIds) /\ Len(Append(peers, p)) = Len(peers) + 1
        /\ \A k \in DOMAIN peers : Append(peers, p)[k] = peers[k]
        /\ Append(peers, p)[Len(peers) + 1] = p
        /\ DOMAIN Append(peers, p) = DOMAIN peers \cup {Len(peers) + 1}
    OBVIOUS
  <2>2. /\ peers' = Append(peers, p) /\ peer_stats' = Counted(p, 1)
        /\ \A i \in DOMAIN peers : peers[i] # p
        /\ UNCHANGED <<is_connected, zeroed>>
    BY <1>2 DEF PeerManager_add_peer, Registered
  <2>3. \A i, j \in DOMAIN peers' : peers'[i] = peers'[j] => i = j
    BY <2>1, <2>2
  <2>4. /\ peer_stats' \in [total : Int, connected : Int, disconnected : Int]
        /\ peer_stats'.total = peer_stats.total + 1
        /\ peer_stats'.connected + peer_stats'.disconnected
               = peer_stats.connected + peer_stats.disconnected + 1
    <3>1. /\ Counted(p, 1) \in [total : Int, connected : Int, disconnected : Int]
          /\ Counted(p, 1).total = peer_stats.total + 1
          /\ Counted(p, 1).connected + Counted(p, 1).disconnected
                 = peer_stats.connected + peer_stats.disconnected + 1
      BY <1>1
    <3> QED BY <2>2, <3>1, Zenon
  <2>5. peers' \in Seq(PeerIds) /\ Len(peers') = Len(peers) + 1 BY <2>1, <2>2
  <2> QED BY <1>0, <2>2, <2>3, <2>4, <2>5
<1>3. ASSUME NEW p \in PeerIds, PeerManager_remove_peer(p) PROVE PeersInv'
  <2>1. PICK i \in DOMAIN peers : peers' = RemoveAt(peers, i)
    BY <1>3 DEF PeerManager_remove_peer
  <2>2. peer_stats' = Counted(p, -1) /\ UNCHANGED <<is_connected, zeroed>>
    BY <1>3 DEF PeerManager_remove_peer
  <2>3. /\ peers' \in Seq(PeerIds) /\ Len(peers') = Len(peers) - 1
        /\ \A k \in DOMAIN peers' : /\ k \in DOMAIN peers /\ k + 1 \in DOMAIN peers
                                    /\ peers'[k] = IF k < i THEN peers[k] ELSE peers[k + 1]
    <3>1. i \in 1 .. Len(peers) /\ peers \in Seq(PeerIds) BY <2>1
    <3>2. /\ RemoveAt(peers, i) \in Seq(PeerIds) /\ Len(RemoveAt(peers, i)) = Len(peers) - 1
          /\ \A k \in 1 .. Len(peers) - 1 :
                RemoveAt(peers, i)[k] = IF k < i THEN peers[k] ELSE peers[k + 1]
      BY ONLY <3>1, RemovedAt
    <3>3. DOMAIN peers' = 1 .. Len(peers) - 1 /\ DOMAIN peers = 1 .. Len(peers) BY <2>1, <3>2
    <3> QED BY <1>0, <2>1, <3>2, <3>3
  <2>4. ASSUME NEW j \in DOMAIN peers', NEW k \in DOMAIN peers', peers'[j] = peers'[k]
        PROVE  j = k
    <3>1. \A x, y \in DOMAIN peers : peers[x] = peers[y] => x = y BY <1>0
    <3>2. j \in Int /\ k \in Int /\ i \in Int BY <2>1, <2>3
    <3>3. ASSUME NEW x \in DOMAIN peers'
          PROVE  /\ peers'[x] = peers[IF x < i THEN x ELSE x + 1]
                 /\ (IF x < i THEN x ELSE x + 1) \in DOMAIN peers
      BY <2>3
    <3>4. (IF j < i THEN j ELSE j + 1) = (IF k < i THEN k ELSE k + 1) BY <2>4, <3>1, <3>3
    <3> QED BY ONLY <3>2, <3>4
  <2>5. /\ peer_stats' \in [total : Int, connected : Int, disconnected : Int]
        /\ peer_stats'.total = peer_stats.total - 1
        /\ peer_stats'.connected + peer_stats'.disconnected
               = peer_stats.connected + peer_stats.disconnected - 1
    <3>1. /\ Counted(p, -1) \in [total : Int, connected : Int, disconnected : Int]
          /\ Counted(p, -1).total = peer_stats.total - 1
          /\ Counted(p, -1).connected + Counted(p, -1).disconnected
                 = peer_stats.connected + peer_stats.disconnected - 1
      <4>1. /\ Counted(p, -1).total = peer_stats.total + (-1)
            /\ Counted(p, -1).connected + Counted(p, -1).disconnected
                   = peer_stats.connected + peer_stats.disconnected + (-1)
            /\ Counted(p, -1) \in [total : Int, connected : Int, disconnected : Int]
        BY DEF Counted
      <4>2. /\ peer_stats.total \in Int /\ peer_stats.connected \in Int
            /\ peer_stats.disconnected \in Int
        OBVIOUS
      <4> HIDE DEF PeersInv, EveryPeerCountsOnce
      <4>3. Counted(p, -1).total = peer_stats.total - 1 BY ONLY <4>1, <4>2
      <4>4. Counted(p, -1).connected + Counted(p, -1).disconnected
                = peer_stats.connected + peer_stats.disconnected - 1
        BY ONLY <4>1, <4>2
      <4> QED BY ONLY <4>1, <4>3, <4>4
    <3> QED BY <2>2, <3>1, Zenon
  <2>6. EveryPeerCountsOnce'
    <3> SUFFICES ASSUME ~zeroed'
                 PROVE  /\ peer_stats'.total = Len(peers')
                        /\ peer_stats'.connected + peer_stats'.disconnected = peer_stats'.total
      OBVIOUS
    <3>0. ~zeroed BY <2>2
    <3>1. /\ peer_stats.total = Len(peers)
          /\ peer_stats.connected + peer_stats.disconnected = peer_stats.total
      BY <3>0
    <3>2. Len(peers') = Len(peers) - 1 BY <2>3
    <3>3. /\ peer_stats'.total = peer_stats.total - 1
          /\ peer_stats'.connected + peer_stats'.disconnected
                 = peer_stats.connected + peer_stats.disconnected - 1
      BY <2>5
    <3>4. /\ peer_stats.total \in Int /\ peer_stats.connected \in Int
          /\ peer_stats.disconnected \in Int /\ peer_stats'.connected \in Int
          /\ peer_stats'.disconnected \in Int
      BY <2>5
    <3>5. peer_stats'.total = Len(peers') BY <3>1, <3>2, <3>3
    <3>6. peer_stats'.connected + peer_stats'.disconnected = peer_stats.total - 1
      BY ONLY <3>1, <3>3, <3>4
    <3> QED BY <3>3, <3>5, <3>6
  <2>7. is_connected' \in [PeerIds -> BOOLEAN] /\ zeroed' \in BOOLEAN BY <2>2
  <2> HIDE DEF EveryPeerCountsOnce
  <2> QED BY <2>3, <2>4, <2>5, <2>6, <2>7
<1>4. ASSUME PeerManager_initialize PROVE PeersInv'
  <2>1. /\ peer_stats' = [total |-> 0, connected |-> 0, disconnected |-> 0]
        /\ UNCHANGED <<is_connected, peers>>
    BY <1>4 DEF PeerManager_initialize, NoPeers
  <2>2. zeroed' \in BOOLEAN /\ (~zeroed' => peers = <<>>)
    BY <1>4 DEF PeerManager_initialize
  <2>3. ~zeroed' => Len(peers) = 0 BY <2>2
  <2> QED BY <2>1, <2>2, <2>3
<1>5. ASSUME NEW p \in PeerIds,
             connect_peer(p) \/ _establish_connection(p) \/ disconnect_peer(p)
      PROVE  PeersInv'
  BY <1>5 DEF connect_peer, _establish_connection, disconnect_peer
<1>6. ASSUME ping_peers PROVE PeersInv' BY <1>6 DEF ping_peers
<1>7. ASSUME NEW ok \in BOOLEAN, _send_ping(ok) PROVE PeersInv'
  BY <1>7 DEF _send_ping
<1>8. ASSUME update_statistics PROVE PeersInv'
  <2> DEFINE on == Cardinality({i \in DOMAIN peers : is_connected[peers[i]]})
  <2>1. on \in Nat
    <3>0. DOMAIN peers = 1 .. Len(peers) OBVIOUS
    <3> DEFINE Up == {i \in DOMAIN peers : is_connected[peers[i]]}
    <3>1. Up \in SUBSET DOMAIN peers OBVIOUS
    <3> HIDE DEF Up
    <3>2. IsFiniteSet(DOMAIN peers) BY <1>0, <3>0, FS_Interval
    <3>3. IsFiniteSet(Up) BY <3>1, <3>2, FS_Subset
    <3> QED BY <3>3, FS_CardinalityType DEF Up
  <2>2. /\ peer_stats' = [peer_stats EXCEPT !.connected = on, !.disconnected = Len(peers) - on]
        /\ UNCHANGED <<is_connected, peers, zeroed>>
    BY <1>8 DEF update_statistics
  <2> HIDE DEF on
  <2>3. /\ peer_stats' \in [total : Int, connected : Int, disconnected : Int]
        /\ peer_stats'.total = peer_stats.total
        /\ peer_stats'.connected + peer_stats'.disconnected = Len(peers)
    <3>1. peer_stats' = [total |-> peer_stats.total, connected |-> on,
                         disconnected |-> Len(peers) - on]
      BY <2>2
    <3>2. peer_stats.total \in Int OBVIOUS
    <3> HIDE DEF PeersInv, EveryPeerCountsOnce
    <3> QED BY <1>0, <2>1, <3>1, <3>2
  <2> QED BY <2>2, <2>3
<1>9. ASSUME UNCHANGED peersVars PROVE PeersInv'
  BY <1>9 DEF peersVars
<1> QED BY <1>2, <1>3, <1>4, <1>5, <1>6, <1>7, <1>8, <1>9 DEF PeersNext

-----------------------------------------------------------------------------
(* The bridge *)

Confirmations == [relayer : Relayers, nth : Nat]
Transfers ==
    [id : TransferIds, status : {"initiated", "completed", "failed"},
     relayer_confirmations : SUBSET Confirmations]

\* The maps lead to transfers of that id, among the pending ones to the last.
BridgeTypes ==
    /\ relayers \subseteq Relayers /\ relayer_threshold \in Nat \ {0}
    /\ transfer_history \in Seq(Transfers)
    /\ pending_transfers \in [TransferIds -> {0} \cup DOMAIN transfer_history]
    /\ completed_transfers \in [TransferIds -> {0} \cup DOMAIN transfer_history]
    /\ failed_transfers \in Seq(DOMAIN transfer_history)
    /\ overdue \subseteq DOMAIN transfer_history

MapsLead ==
    \A id \in TransferIds :
        /\ pending_transfers[id] # 0 =>
              /\ transfer_history[pending_transfers[id]].id = id
              /\ \A t \in DOMAIN transfer_history :
                    transfer_history[t].id = id => t <= pending_transfers[id]
        /\ completed_transfers[id] # 0 =>
              transfer_history[completed_transfers[id]].id = id

\* A transfer has one confirmation of each relayer.
ConfirmedOnce ==
    \A t \in DOMAIN transfer_history :
        LET given == transfer_history[t].relayer_confirmations
        IN /\ IsFiniteSet(given)
           /\ \A c, d \in given : c.relayer = d.relayer => c = d

BridgeInv == BridgeTypes /\ MapsLead /\ ConfirmedOnce /\ BridgeBooks

LEMMA BridgeInitial ==
    ASSUME BridgeInit PROVE BridgeInv
<1>1. transfer_history = <<>> /\ DOMAIN transfer_history = {} BY DEF BridgeInit
<1>2. failed_transfers \in Seq(DOMAIN transfer_history)
      /\ transfer_history \in Seq(Transfers)
  BY <1>1 DEF BridgeInit
<1>3. BridgeTypes BY <1>1, <1>2 DEF BridgeInit, BridgeTypes
<1>4. MapsLead BY DEF BridgeInit, MapsLead
<1> QED BY <1>1, <1>3, <1>4 DEF BridgeInv, ConfirmedOnce, BridgeBooks

\* The transfers of a set are listed, each of them and no other.
LEMMA ListedInOrder ==
    ASSUME NEW N \in Nat, NEW T \in SUBSET (1 .. N)
    PROVE  /\ InOrder(T) \in Seq(T)
           /\ \A t : t \in T <=> \E i \in DOMAIN InOrder(T) : InOrder(T)[i] = t
<1> DEFINE k == Cardinality(T)
<1>1. IsFiniteSet(T) /\ T \subseteq Nat
  <2>1. IsFiniteSet(1 .. N) BY FS_Interval
  <2>2. IsFiniteSet(T) BY <2>1, FS_Subset
  <2> QED BY <2>2
<1>2. k \in Nat BY <1>1, FS_CardinalityType
<1>3. \E s \in [1 .. k -> T] : \A i, j \in DOMAIN s : i < j => s[i] < s[j]
  <2>1. PICK s \in IncreasingLists(T) : TRUE BY Listed
  <2>2. s \in [1 .. k -> T] /\ \A i, j \in 1 .. k : i < j => s[i] < s[j]
    BY <2>1 DEF IncreasingLists
  <2>3. DOMAIN s = 1 .. k BY <2>2
  <2> QED BY <2>2, <2>3
<1>4. /\ InOrder(T) \in [1 .. k -> T]
      /\ \A i, j \in DOMAIN InOrder(T) : InOrder(T)[i] < InOrder(T)[j] \/ ~(i < j)
  BY <1>3 DEF InOrder
<1>5. DOMAIN InOrder(T) = 1 .. k BY <1>4
<1>6. InOrder(T) \in IncreasingLists(T) BY <1>4, <1>5 DEF IncreasingLists
<1>7. \A t : t \in T <=> \E i \in 1 .. k : InOrder(T)[i] = t
  BY <1>1, <1>6, AllListed
<1>8. InOrder(T) \in Seq(T)
  <2> HIDE DEF k
  <2> QED BY <1>2, <1>4
<1> QED BY <1>5, <1>7, <1>8

\* Relayers come and go, the clock runs, and no transfer moves.
LEMMA TransfersKept ==
    ASSUME BridgeInv, UNCHANGED transferVars,
           relayers' \subseteq Relayers, relayer_threshold' \in Nat \ {0},
           overdue' \subseteq DOMAIN transfer_history
    PROVE  BridgeInv'
BY DEF BridgeInv, BridgeTypes, MapsLead, ConfirmedOnce, BridgeBooks, transferVars

\* A transfer that begins takes over its id.
LEMMA InitiateStep ==
    ASSUME BridgeInv, NEW id \in TransferIds, initiate_transfer(id)
    PROVE  BridgeInv'
<1> DEFINE new == [id |-> id, status |-> "initiated", relayer_confirmations |-> {}]
           n == Len(transfer_history) + 1
           h == Append(transfer_history, new)
<1>0. /\ transfer_history \in Seq(Transfers)
      /\ pending_transfers \in [TransferIds -> {0} \cup DOMAIN transfer_history]
      /\ completed_transfers \in [TransferIds -> {0} \cup DOMAIN transfer_history]
      /\ failed_transfers \in Seq(DOMAIN transfer_history)
      /\ Len(transfer_history) \in Nat
  BY DEF BridgeInv, BridgeTypes
<1>1. new \in Transfers /\ new.id = id /\ new.status = "initiated"
      /\ new.relayer_confirmations = {}
  BY DEF Transfers
<1> HIDE DEF new
<1>2. /\ h \in Seq(Transfers) /\ DOMAIN h = DOMAIN transfer_history \cup {n}
      /\ h[n] = new /\ n \notin DOMAIN transfer_history /\ n # 0
      /\ \A t \in DOMAIN transfer_history : h[t] = transfer_history[t] /\ t < n /\ t # 0
  BY <1>0, <1>1
<1> HIDE DEF h
<1>3. /\ transfer_history' = h
      /\ pending_transfers' = [pending_transfers EXCEPT ![id] = n]
      /\ UNCHANGED <<relayers, relayer_threshold, completed_transfers, failed_transfers, overdue>>
  BY DEF initiate_transfer, h, new
<1> HIDE DEF n
<1>4. BridgeTypes'
  <2>1. failed_transfers \in Seq(DOMAIN h) BY <1>0, <1>2
  <2>2. pending_transfers' \in [TransferIds -> {0} \cup DOMAIN h] BY <1>0, <1>2, <1>3
  <2>3. completed_transfers' \in [TransferIds -> {0} \cup DOMAIN h] BY <1>0, <1>2, <1>3
  <2> QED BY <1>2, <1>3, <2>1, <2>2, <2>3 DEF BridgeInv, BridgeTypes
<1>5. MapsLead'
  BY <1>0, <1>1, <1>2, <1>3 DEF BridgeInv, MapsLead
<1>6. ConfirmedOnce'
  <2>1. new.relayer_confirmations = {} /\ IsFiniteSet(new.relayer_confirmations)
    BY <1>1, FS_EmptySet
  <2>2. \A t \in DOMAIN h : (t \in DOMAIN transfer_history /\ h[t] = transfer_history[t]) \/ h[t] = new
    BY <1>2
  <2>3. ConfirmedOnce BY DEF BridgeInv
  <2> QED BY <1>3, <2>1, <2>2, <2>3 DEF ConfirmedOnce
<1>7. BridgeBooks'
  <2> SUFFICES ASSUME NEW t \in DOMAIN h
               PROVE  LET key == h[t].id
                          st  == h[t].status
                          listed == \E i \in DOMAIN failed_transfers : failed_transfers[i] = t
                      IN /\ pending_transfers'[key] = t => st = "initiated"
                         /\ st = "initiated" => \/ pending_transfers'[key] = t
                                                \/ \E u \in DOMAIN h : u > t /\ h[u].id = key
                         /\ st = "failed" <=> listed
                         /\ completed_transfers[key] = t => st \in {"completed", "failed"}
                         /\ st = "completed" => completed_transfers[key] >= t
    BY <1>3 DEF BridgeBooks
  <2>1. CASE t = n
    <3>1. ~ \E i \in DOMAIN failed_transfers : failed_transfers[i] = t
      BY <1>0, <1>2, <2>1
    <3>2. completed_transfers[id] # t BY <1>0, <1>2, <2>1
    <3> QED BY <1>0, <1>1, <1>2, <1>3, <2>1, <3>1, <3>2
  <2>2. CASE t \in DOMAIN transfer_history
    <3>1. h[t] = transfer_history[t] /\ t < n BY <1>2, <2>2
    <3>2. transfer_history[t].id \in TransferIds
      <4>1. transfer_history[t] \in Transfers BY <1>0, <2>2
      <4> QED BY <4>1 DEF Transfers
    <3>3. CASE transfer_history[t].id # id
      <4>1. pending_transfers'[h[t].id] = pending_transfers[h[t].id]
        BY <1>0, <1>3, <3>1, <3>2, <3>3
      <4> QED BY <1>2, <2>2, <3>1, <4>1 DEF BridgeInv, BridgeBooks
    <3>4. CASE transfer_history[t].id = id
      <4>1. pending_transfers'[h[t].id] = n /\ n # t BY <1>0, <1>2, <1>3, <2>2, <3>1, <3>4
      <4>2. n \in DOMAIN h /\ n > t /\ h[n].id = h[t].id
        BY <1>0, <1>1, <1>2, <2>2, <3>1, <3>4
      <4> QED BY <1>2, <2>2, <3>1, <4>1, <4>2 DEF BridgeInv, BridgeBooks
    <3> QED BY <3>3, <3>4
  <2> QED BY <1>2, <2>1, <2>2
<1> QED BY <1>4, <1>5, <1>6, <1>7 DEF BridgeInv

\* What confirm_transfer makes of the transfer t.
Confirmation(r, t) ==
    [relayer |-> r,
     nth |-> Cardinality(transfer_history[t].relayer_confirmations) + 1]
Confirmed(r, t) ==
    transfer_history[t].relayer_confirmations \cup {Confirmation(r, t)}

\* A confirmation is one more, of a relayer that had given none.
LEMMA OneMoreConfirms ==
    ASSUME BridgeInv, NEW r \in Relayers, NEW id \in TransferIds, Confirmable(r, id),
           NEW t, t = pending_transfers[id]
    PROVE  /\ t \in DOMAIN transfer_history /\ transfer_history[t].id = id
           /\ transfer_history[t] \in Transfers /\ transfer_history[t].status = "initiated"
           /\ Confirmed(r, t) \subseteq Confirmations /\ IsFiniteSet(Confirmed(r, t))
           /\ Cardinality(Confirmed(r, t)) = Confirmation(r, t).nth
           /\ \A c, d \in Confirmed(r, t) : c.relayer = d.relayer => c = d
<1> DEFINE given == transfer_history[t].relayer_confirmations
           new == Confirmation(r, t)
<1>1. t \in DOMAIN transfer_history /\ t # 0
  BY DEF Confirmable, BridgeInv, BridgeTypes
<1>2. /\ transfer_history[t] \in Transfers /\ transfer_history[t].id = id
      /\ transfer_history[t].status = "initiated"
  BY <1>1 DEF BridgeInv, BridgeTypes, MapsLead, BridgeBooks
<1>3. /\ IsFiniteSet(given) /\ Cardinality(given) \in Nat /\ given \subseteq Confirmations
      /\ \A c, d \in given : c.relayer = d.relayer => c = d
  BY <1>1, <1>2, FS_CardinalityType DEF BridgeInv, ConfirmedOnce, Transfers
<1>4. \A c \in given : c.relayer # r BY DEF Confirmable
<1>5. new.relayer = r /\ new.nth = Cardinality(given) + 1 /\ new \in Confirmations
  BY <1>3 DEF Confirmation, Confirmations
<1>6. Confirmed(r, t) = given \cup {new} BY DEF Confirmed
<1> HIDE DEF given, new
<1>7. new \notin given BY <1>4, <1>5
<1>8. /\ IsFiniteSet(given \cup {new})
      /\ Cardinality(given \cup {new}) = Cardinality(given) + 1
  BY <1>3, <1>7, FS_AddElement
<1>9. \A c, d \in given \cup {new} : c.relayer = d.relayer => c = d
  BY <1>3, <1>4, <1>5
<1> QED BY <1>1, <1>2, <1>3, <1>5, <1>6, <1>8, <1>9 DEF new

\* A confirmation changes its own transfer; the last one that was missing moves
\* it from the pending ones to the completed ones.
LEMMA ConfirmEffect ==
    ASSUME BridgeInv, NEW r \in Relayers, NEW id \in TransferIds, confirm_transfer(r, id),
           NEW t, t = pending_transfers[id]
    PROVE  /\ DOMAIN transfer_history' = DOMAIN transfer_history
           /\ transfer_history' \in Seq(Transfers)
           /\ \A u \in DOMAIN transfer_history \ {t} :
                 transfer_history'[u] = transfer_history[u]
           /\ transfer_history'[t].id = id
           /\ transfer_history'[t].relayer_confirmations = Confirmed(r, t)
           /\ UNCHANGED <<relayers, relayer_threshold, failed_transfers, overdue>>
           /\ \/ /\ Cardinality(Confirmed(r, t)) >= relayer_threshold
                 /\ transfer_history'[t].status = "completed"
                 /\ completed_transfers' = [completed_transfers EXCEPT ![id] = t]
                 /\ pending_transfers' = [pending_transfers EXCEPT ![id] = 0]
              \/ /\ transfer_history'[t].status = "initiated"
                 /\ UNCHANGED <<pending_transfers, completed_transfers>>
<1> DEFINE now == Confirmed(r, t)
           done == Cardinality(now) >= relayer_threshold
           old == transfer_history[t]
           rec == [old EXCEPT !.relayer_confirmations = now,
                              !.status = IF done THEN "completed" ELSE old.status]
<1>0. Confirmable(r, id) BY DEF confirm_transfer
<1>1. /\ t \in DOMAIN transfer_history /\ old \in Transfers /\ old.id = id
      /\ old.status = "initiated" /\ now \subseteq Confirmations
  BY <1>0, OneMoreConfirms
<1>2. transfer_history' = [transfer_history EXCEPT
          ![t].relayer_confirmations = now,
          ![t].status = IF done THEN "completed" ELSE @]
  BY DEF confirm_transfer, Confirmed, Confirmation
<1>3. IF done THEN Completes(id) ELSE UNCHANGED <<pending_transfers, completed_transfers>>
  BY DEF confirm_transfer, Confirmed, Confirmation
<1>4. UNCHANGED <<relayers, relayer_threshold, failed_transfers, overdue>>
  BY DEF confirm_transfer
<1>5. transfer_history \in Seq(Transfers) BY DEF BridgeInv, BridgeTypes
<1> HIDE DEF now, done
<1>6. /\ rec \in Transfers /\ rec.id = id /\ rec.relayer_confirmations = now
      /\ rec.status = IF done THEN "completed" ELSE "initiated"
  BY <1>1 DEF Transfers
<1>7. transfer_history' = [transfer_history EXCEPT ![t] = rec]
  BY <1>2
<1> HIDE DEF rec, old
<1>8. /\ DOMAIN transfer_history' = DOMAIN transfer_history
      /\ transfer_history' \in Seq(Transfers)
      /\ transfer_history'[t] = rec
      /\ \A u \in DOMAIN transfer_history \ {t} :
            transfer_history'[u] = transfer_history[u]
  BY <1>1, <1>5, <1>6, <1>7
<1>9. CASE done
  BY <1>3, <1>4, <1>6, <1>8, <1>9 DEF Completes, done, now
<1>10. CASE ~done
  BY <1>3, <1>4, <1>6, <1>8, <1>10 DEF now
<1> QED BY <1>9, <1>10

LEMMA ConfirmStep ==
    ASSUME BridgeInv, NEW r \in Relayers, NEW id \in TransferIds, confirm_transfer(r, id)
    PROVE  BridgeInv'
<1> DEFINE t == pending_transfers[id]
           h == transfer_history'
<1>0. Confirmable(r, id) BY DEF confirm_transfer
<1>1. /\ t \in DOMAIN transfer_history /\ transfer_history[t].id = id
      /\ transfer_history[t].status = "initiated"
      /\ IsFiniteSet(Confirmed(r, t))
      /\ \A c, d \in Confirmed(r, t) : c.relayer = d.relayer => c = d
  BY <1>0, OneMoreConfirms
<1>2. /\ DOMAIN h = DOMAIN transfer_history /\ h \in Seq(Transfers)
      /\ \A u \in DOMAIN transfer_history \ {t} : h[u] = transfer_history[u]
      /\ h[t].id = id /\ h[t].relayer_confirmations = Confirmed(r, t)
      /\ UNCHANGED <<relayers, relayer_threshold, failed_transfers, overdue>>
      /\ \/ /\ h[t].status = "completed"
            /\ completed_transfers' = [completed_transfers EXCEPT ![id] = t]
            /\ pending_transfers' = [pending_transfers EXCEPT ![id] = 0]
         \/ /\ h[t].status = "initiated"
            /\ UNCHANGED <<pending_transfers, completed_transfers>>
  BY ConfirmEffect
<1>3. /\ transfer_history \in Seq(Transfers)
      /\ pending_transfers \in [TransferIds -> {0} \cup DOMAIN transfer_history]
      /\ completed_transfers \in [TransferIds -> {0} \cup DOMAIN transfer_history]
      /\ failed_transfers \in Seq(DOMAIN transfer_history)
  BY DEF BridgeInv, BridgeTypes
<1>4. \A u \in DOMAIN transfer_history :
         /\ u \in Nat /\ u # 0 /\ transfer_history[u].id \in TransferIds
         /\ h[u].id = transfer_history[u].id
  <2> SUFFICES ASSUME NEW u \in DOMAIN transfer_history
               PROVE  /\ u \in Nat /\ u # 0 /\ transfer_history[u].id \in TransferIds
                      /\ h[u].id = transfer_history[u].id
    OBVIOUS
  <2>1. u \in Nat /\ u # 0 /\ transfer_history[u] \in Transfers BY <1>3
  <2> QED BY <1>1, <1>2, <2>1 DEF Transfers
<1>5. BridgeTypes'
  BY <1>1, <1>2, <1>3 DEF BridgeInv, BridgeTypes
<1>6. MapsLead'
  <2> SUFFICES ASSUME NEW key \in TransferIds
               PROVE  /\ pending_transfers'[key] # 0 =>
                            /\ h[pending_transfers'[key]].id = key
                            /\ \A u \in DOMAIN transfer_history :
                                  h[u].id = key => u <= pending_transfers'[key]
                      /\ completed_transfers'[key] # 0 =>
                            h[completed_transfers'[key]].id = key
    BY <1>2 DEF MapsLead
  <2>1. /\ pending_transfers[key] # 0 =>
              /\ transfer_history[pending_transfers[key]].id = key
              /\ \A u \in DOMAIN transfer_history :
                    transfer_history[u].id = key => u <= pending_transfers[key]
        /\ completed_transfers[key] # 0 =>
              transfer_history[completed_transfers[key]].id = key
    BY DEF BridgeInv, MapsLead
  <2>2. pending_transfers'[key] \in {0, pending_transfers[key]} BY <1>2, <1>3
  <2>3. \/ completed_transfers'[key] = completed_transfers[key]
        \/ key = id /\ completed_transfers'[key] = t
    BY <1>2, <1>3
  <2>4. /\ pending_transfers[key] # 0 => pending_transfers[key] \in DOMAIN transfer_history
        /\ completed_transfers[key] # 0 => completed_transfers[key] \in DOMAIN transfer_history
    BY <1>3
  <2>5. pending_transfers'[key] # 0 =>
              /\ h[pending_transfers'[key]].id = key
              /\ \A u \in DOMAIN transfer_history :
                    h[u].id = key => u <= pending_transfers'[key]
    BY <1>4, <2>1, <2>2, <2>4
  <2>6. completed_transfers'[key] # 0 => h[completed_transfers'[key]].id = key
    BY <1>2, <1>4, <2>1, <2>3, <2>4
  <2> QED BY <2>5, <2>6
<1>7. ConfirmedOnce'
  BY <1>1, <1>2 DEF BridgeInv, ConfirmedOnce
<1>8. ASSUME NEW u \in DOMAIN transfer_history
      PROVE  LET key == h[u].id
                 st  == h[u].status
                 listed == \E i \in DOMAIN failed_transfers : failed_transfers[i] = u
             IN /\ pending_transfers'[key] = u => st = "initiated"
                /\ st = "initiated" => \/ pending_transfers'[key] = u
                                       \/ \E v \in DOMAIN transfer_history : v > u /\ h[v].id = key
                /\ st = "failed" <=> listed
                /\ completed_transfers'[key] = u => st \in {"completed", "failed"}
                /\ st = "completed" => completed_transfers'[key] >= u
  <2> DEFINE key == transfer_history[u].id
             st == transfer_history[u].status
             listed == \E i \in DOMAIN failed_transfers : failed_transfers[i] = u
  <2>1. /\ pending_transfers[key] = u => st = "initiated"
        /\ st = "initiated" => \/ pending_transfers[key] = u
                               \/ \E v \in DOMAIN transfer_history :
                                     v > u /\ transfer_history[v].id = key
        /\ st = "failed" <=> listed
        /\ completed_transfers[key] = u => st \in {"completed", "failed"}
        /\ st = "completed" => completed_transfers[key] >= u
    BY DEF BridgeInv, BridgeBooks
  <2>2. key \in TransferIds /\ h[u].id = key /\ u \in Nat /\ u # 0 BY <1>4
  <2>3. st = "initiated" => \/ pending_transfers[key] = u
                            \/ \E v \in DOMAIN transfer_history : v > u /\ h[v].id = key
    BY <1>4, <2>1
  <2>4. key = id => u <= t
    <3>1. t # 0 BY <1>1, <1>4
    <3>2. \A v \in DOMAIN transfer_history : transfer_history[v].id = id => v <= t
      BY <3>1 DEF BridgeInv, MapsLead
    <3> QED BY <3>2
  <2>5. u = t => key = id /\ st = "initiated" BY <1>1
  <2> HIDE DEF listed
  <2>6. CASE UNCHANGED <<pending_transfers, completed_transfers>> /\ h[t].status = "initiated"
    <3>1. h[u].status = st BY <1>2, <2>5, <2>6
    <3> QED BY <2>1, <2>2, <2>3, <2>6, <3>1 DEF listed
  <2>7. CASE /\ h[t].status = "completed"
             /\ completed_transfers' = [completed_transfers EXCEPT ![id] = t]
             /\ pending_transfers' = [pending_transfers EXCEPT ![id] = 0]
    <3>1. CASE key # id
      <4>1. u # t /\ h[u].status = st BY <1>2, <2>5, <3>1
      <4>2. pending_transfers'[key] = pending_transfers[key]
            /\ completed_transfers'[key] = completed_transfers[key]
        BY <1>3, <2>2, <2>7, <3>1
      <4> QED BY <2>1, <2>2, <2>3, <4>1, <4>2 DEF listed
    <3>2. CASE key = id
      <4>1. pending_transfers'[key] = 0 /\ completed_transfers'[key] = t
        BY <1>3, <2>2, <2>7, <3>2
      <4>2. CASE u = t
        <5>1. ~listed BY <2>1, <2>5, <4>2
        <5> QED BY <2>2, <2>4, <2>7, <3>2, <4>1, <4>2, <5>1 DEF listed
      <4>3. CASE u # t
        <5>1. h[u].status = st BY <1>2, <4>3
        <5>2. t \in Nat /\ u <= t BY <1>1, <1>4, <2>4, <3>2
        <5>3. pending_transfers[key] # u BY <3>2, <4>3
        <5> QED BY <2>1, <2>2, <2>3, <3>2, <4>1, <4>3, <5>1, <5>2, <5>3 DEF listed
      <4> QED BY <4>2, <4>3
    <3> QED BY <3>1, <3>2
  <2> QED BY <1>2, <2>6, <2>7
<1>9. BridgeBooks' BY <1>2, <1>8 DEF BridgeBooks
<1> QED BY <1>5, <1>6, <1>7, <1>9 DEF BridgeInv

\* Transfers that fail leave the pending ones and are listed.
LEMMA FailStep ==
    ASSUME BridgeInv, NEW T \in SUBSET DOMAIN transfer_history, NEW failed \in Seq(T),
           \A t : t \in T <=> \E i \in DOMAIN failed : failed[i] = t,
           Fail(T, failed)
    PROVE  BridgeInv'
<1> DEFINE h == transfer_history'
           all == failed_transfers \o failed
<1>1. /\ transfer_history \in Seq(Transfers)
      /\ pending_transfers \in [TransferIds -> {0} \cup DOMAIN transfer_history]
      /\ completed_transfers \in [TransferIds -> {0} \cup DOMAIN transfer_history]
      /\ failed_transfers \in Seq(DOMAIN transfer_history)
  BY DEF BridgeInv, BridgeTypes
<1>2. /\ h = [t \in DOMAIN transfer_history |->
                 IF t \in T THEN [transfer_history[t] EXCEPT !.status = "failed"]
                            ELSE transfer_history[t]]
      /\ failed_transfers' = all
      /\ pending_transfers' = [id \in TransferIds |->
                IF pending_transfers[id] \in T THEN 0 ELSE pending_transfers[id]]
      /\ UNCHANGED <<relayers, relayer_threshold, completed_transfers, overdue>>
  BY DEF Fail
<1>3. \A t \in DOMAIN transfer_history :
         /\ t \in Nat /\ t # 0 /\ transfer_history[t] \in Transfers
         /\ h[t] \in Transfers /\ h[t].id = transfer_history[t].id
         /\ h[t].relayer_confirmations = transfer_history[t].relayer_confirmations
         /\ h[t].status = IF t \in T THEN "failed" ELSE transfer_history[t].status
  <2> SUFFICES ASSUME NEW t \in DOMAIN transfer_history
               PROVE  /\ t \in Nat /\ t # 0 /\ transfer_history[t] \in Transfers
                      /\ h[t] \in Transfers /\ h[t].id = transfer_history[t].id
                      /\ h[t].relayer_confirmations = transfer_history[t].relayer_confirmations
                      /\ h[t].status = IF t \in T THEN "failed" ELSE transfer_history[t].status
    OBVIOUS
  <2>1. t \in Nat /\ t # 0 /\ transfer_history[t] \in Transfers BY <1>1
  <2> QED BY <1>2, <2>1 DEF Transfers
<1>4. DOMAIN h = DOMAIN transfer_history /\ h \in Seq(Transfers)
  <2>1. DOMAIN h = DOMAIN transfer_history BY <1>2
  <2>2. DOMAIN transfer_history = 1 .. Len(transfer_history)
        /\ Len(transfer_history) \in Nat
    BY <1>1
  <2>3. h = [t \in 1 .. Len(transfer_history) |-> h[t]]
    BY <1>2, <2>2
  <2>4. \A t \in 1 .. Len(transfer_history) : h[t] \in Transfers BY <1>3, <2>2
  <2> HIDE DEF h
  <2>5. h \in [1 .. Len(transfer_history) -> Transfers] BY <2>3, <2>4
  <2>6. h \in Seq(Transfers) BY <2>2, <2>5
  <2> QED BY <2>1, <2>6
<1>5. all \in Seq(DOMAIN transfer_history)
      /\ \A t : (\E i \in DOMAIN all : all[i] = t)
                  <=> t \in T \/ \E i \in DOMAIN failed_transfers : failed_transfers[i] = t
  <2>1. failed \in Seq(DOMAIN transfer_history) OBVIOUS
  <2>2. /\ Len(failed_transfers) \in Nat /\ Len(failed) \in Nat
        /\ DOMAIN failed_transfers = 1 .. Len(failed_transfers)
        /\ DOMAIN failed = 1 .. Len(failed)
    BY <1>1
  <2>3. /\ all \in Seq(DOMAIN transfer_history)
        /\ DOMAIN all = 1 .. (Len(failed_transfers) + Len(failed))
        /\ \A i \in DOMAIN failed_transfers : all[i] = failed_transfers[i]
        /\ \A i \in DOMAIN failed : all[Len(failed_transfers) + i] = failed[i]
        /\ \A i \in DOMAIN all : \/ i \in DOMAIN failed_transfers
                                 \/ /\ i - Len(failed_transfers) \in DOMAIN failed
                                    /\ Len(failed_transfers) + (i - Len(failed_transfers)) = i
    <3> DEFINE m == Len(failed_transfers)
               n == Len(failed)
    <3>1. all \in Seq(DOMAIN transfer_history) BY <1>1, <2>1
    <3>2. Len(all) = m + n BY <1>1, <2>1
    <3>3. DOMAIN all = 1 .. (m + n) BY <3>1, <3>2
    <3>4. \A i \in 1 .. (m + n) :
             all[i] = IF i <= m THEN failed_transfers[i] ELSE failed[i - m]
      BY <1>1, <2>1
    <3> HIDE DEF all, m, n
    <3>5. m \in Nat /\ n \in Nat /\ DOMAIN failed_transfers = 1 .. m /\ DOMAIN failed = 1 .. n
      BY <2>2 DEF m, n
    <3>6. \A i \in DOMAIN failed_transfers : all[i] = failed_transfers[i] BY <3>4, <3>5
    <3>7. ASSUME NEW i \in DOMAIN failed PROVE all[m + i] = failed[i]
      <4>1. m + i \in 1 .. (m + n) /\ ~(m + i <= m) /\ (m + i) - m = i BY <3>5
      <4> QED BY <3>4, <4>1
    <3>8. ASSUME NEW i \in DOMAIN all, i \notin DOMAIN failed_transfers
          PROVE  i - m \in DOMAIN failed /\ m + (i - m) = i
      BY <3>3, <3>5, <3>8
    <3> QED BY <3>1, <3>3, <3>6, <3>7, <3>8 DEF m, n
  <2> HIDE DEF all
  <2>4. ASSUME NEW t
        PROVE  (\E i \in DOMAIN all : all[i] = t)
                  <=> t \in T \/ \E i \in DOMAIN failed_transfers : failed_transfers[i] = t
    <3>1. ASSUME NEW i \in DOMAIN all, all[i] = t
          PROVE  t \in T \/ \E j \in DOMAIN failed_transfers : failed_transfers[j] = t
      <4>1. CASE i \in DOMAIN failed_transfers BY <2>3, <3>1, <4>1
      <4>2. CASE i \notin DOMAIN failed_transfers
        <5>1. i - Len(failed_transfers) \in DOMAIN failed
              /\ failed[i - Len(failed_transfers)] = t
          BY <2>3, <3>1, <4>2
        <5> QED BY <5>1
      <4> QED BY <4>1, <4>2
    <3>2. ASSUME NEW i \in DOMAIN failed_transfers, failed_transfers[i] = t
          PROVE  \E j \in DOMAIN all : all[j] = t
      BY <2>2, <2>3, <3>2
    <3>3. ASSUME t \in T PROVE \E j \in DOMAIN all : all[j] = t
      <4>1. PICK i \in DOMAIN failed : failed[i] = t BY <3>3
      <4>2. Len(failed_transfers) + i \in DOMAIN all BY <2>2, <2>3
      <4> QED BY <2>3, <4>1, <4>2
    <3> QED BY <3>1, <3>2, <3>3
  <2> QED BY <2>3, <2>4
<1> HIDE DEF h, all
<1>6. \A id \in TransferIds : pending_transfers'[id] \in {0, pending_transfers[id]}
  BY <1>2
<1>7. BridgeTypes'
  <2>1. pending_transfers' \in [TransferIds -> {0} \cup DOMAIN h]
    BY <1>1, <1>2, <1>4
  <2> QED BY <1>1, <1>2, <1>4, <1>5, <2>1 DEF BridgeInv, BridgeTypes, h
<1>8. MapsLead'
  BY <1>2, <1>3, <1>4, <1>6 DEF BridgeInv, BridgeTypes, MapsLead, h
<1>9. ConfirmedOnce'
  BY <1>3, <1>4 DEF BridgeInv, ConfirmedOnce, h
<1>10. ASSUME NEW u \in DOMAIN transfer_history
       PROVE  LET key == h[u].id
                  st  == h[u].status
                  listed == \E i \in DOMAIN all : all[i] = u
              IN /\ pending_transfers'[key] = u => st = "initiated"
                 /\ st = "initiated" => \/ pending_transfers'[key] = u
                                        \/ \E v \in DOMAIN transfer_history : v > u /\ h[v].id = key
                 /\ st = "failed" <=> listed
                 /\ completed_transfers[key] = u => st \in {"completed", "failed"}
                 /\ st = "completed" => completed_transfers[key] >= u
  <2> DEFINE key == transfer_history[u].id
             st == transfer_history[u].status
             old == \E i \in DOMAIN failed_transfers : failed_transfers[i] = u
             listed == \E i \in DOMAIN all : all[i] = u
  <2>1. /\ pending_transfers[key] = u => st = "initiated"
        /\ st = "initiated" => \/ pending_transfers[key] = u
                               \/ \E v \in DOMAIN transfer_history : v > u /\ h[v].id = key
        /\ st = "failed" <=> old
        /\ completed_transfers[key] = u => st \in {"completed", "failed"}
        /\ st = "completed" => completed_transfers[key] >= u
    BY <1>3 DEF BridgeInv, BridgeBooks
  <2>2. key \in TransferIds /\ h[u].id = key /\ u \in Nat /\ u # 0
        /\ h[u].status = IF u \in T THEN "failed" ELSE st
    BY <1>3 DEF Transfers
  <2>3. listed <=> u \in T \/ old BY <1>5
  <2>4. pending_transfers'[key] = u <=> pending_transfers[key] = u /\ u \notin T
    BY <1>2, <2>2
  <2> HIDE DEF listed, old
  <2>5. CASE u \in T
    <3>1. h[u].status = "failed" /\ pending_transfers'[key] # u BY <2>2, <2>4, <2>5
    <3> QED BY <2>2, <2>3, <2>5, <3>1 DEF listed
  <2>6. CASE u \notin T
    <3>1. h[u].status = st BY <2>2, <2>6
    <3> QED BY <2>1, <2>2, <2>3, <2>4, <2>6, <3>1 DEF listed
  <2> QED BY <2>5, <2>6
<1>11. BridgeBooks' BY <1>2, <1>4, <1>10 DEF BridgeBooks, h
<1> QED BY <1>7, <1>8, <1>9, <1>11 DEF BridgeInv

LEMMA BridgeStep ==
    ASSUME BridgeInv, [BridgeNext]_bridgeVars PROVE BridgeInv'
<1>0. /\ relayers \subseteq Relayers /\ relayer_threshold \in Nat \ {0}
      /\ overdue \subseteq DOMAIN transfer_history
      /\ transfer_history \in Seq(Transfers) /\ Len(transfer_history) \in Nat
      /\ DOMAIN transfer_history = 1 .. Len(transfer_history)
  BY DEF BridgeInv, BridgeTypes
<1>1. ASSUME NEW r \in Relayers, add_relayer(r) \/ remove_relayer(r) PROVE BridgeInv'
  BY <1>0, <1>1, TransfersKept DEF add_relayer, remove_relayer
<1>2. ASSUME NEW n \in 1 .. MaxThreshold, set_relayer_threshold(n) PROVE BridgeInv'
  <2>1. n \in Nat \ {0} BY BridgeAssumption
  <2> QED BY <1>0, <1>2, <2>1, TransfersKept DEF set_relayer_threshold
<1>3. ASSUME NEW id \in TransferIds, initiate_transfer(id) PROVE BridgeInv'
  BY <1>3, InitiateStep
<1>4. ASSUME NEW id \in TransferIds, NEW r \in Relayers, confirm_transfer(r, id)
      PROVE  BridgeInv'
  BY <1>4, ConfirmStep
<1>5. ASSUME NEW id \in TransferIds, fail_transfer(id) PROVE BridgeInv'
  <2> DEFINE named == {t \in DOMAIN transfer_history : transfer_history[t].id = id}
             found == IF pending_transfers[id] # 0 THEN pending_transfers[id]
                      ELSE CHOOSE t \in named : \A u \in named : t <= u
  <2>1. named # {} /\ Fail({found}, <<found>>) BY <1>5 DEF fail_transfer
  <2>2. \E t \in named : \A u \in named : t <= u
    <3>1. named \subseteq Nat BY <1>0
    <3> HIDE DEF named
    <3> QED BY <2>1, <3>1, Least
  <2>3. found \in DOMAIN transfer_history
    BY <2>2 DEF BridgeInv, BridgeTypes
  <2> HIDE DEF found
  <2>4. {found} \in SUBSET DOMAIN transfer_history /\ <<found>> \in Seq({found})
        /\ \A t : t \in {found} <=> \E i \in DOMAIN <<found>> : <<found>>[i] = t
    BY <2>3
  <2> QED BY <2>1, <2>4, FailStep
<1>6. ASSUME process_transfer_timeout PROVE BridgeInv'
  <2> DEFINE late == {t \in overdue : pending_transfers[transfer_history[t].id] = t}
  <2>1. Fail(late, InOrder(late)) BY <1>6 DEF process_transfer_timeout
  <2>2. late \in SUBSET DOMAIN transfer_history BY <1>0
  <2> HIDE DEF late
  <2>3. InOrder(late) \in Seq(late)
        /\ \A t : t \in late <=> \E i \in DOMAIN InOrder(late) : InOrder(late)[i] = t
    BY <1>0, <2>2, ListedInOrder
  <2> QED BY <2>1, <2>2, <2>3, FailStep
<1>7. ASSUME Later \/ UNCHANGED bridgeVars PROVE BridgeInv'
  BY <1>0, <1>7, TransfersKept DEF Later, bridgeVars
<1>8. ASSUME TimeoutPasses PROVE BridgeInv'
  <2>1. PICK n \in DOMAIN transfer_history \ overdue : overdue' = overdue \cup 1 .. n
    BY <1>8 DEF TimeoutPasses
  <2>2. overdue' \subseteq DOMAIN transfer_history BY <1>0, <2>1
  <2> QED BY <1>0, <1>8, <2>2, TransfersKept DEF TimeoutPasses
<1> QED BY <1>1, <1>2, <1>3, <1>4, <1>5, <1>6, <1>7, <1>8 DEF BridgeNext

\* Whatever relayers come and go, however often a transfer fails, times out or
\* shares its id with another, each is under way, completed or failed in the books
\* as it is itself (CrossChainBridge).
THEOREM BooksKept == NetworkSpec => []BridgeBooks
<1>1. NetworkInit => BridgeInv BY BridgeInitial DEF NetworkInit
<1>2. BridgeInv /\ [NetworkNext]_allVars => BridgeInv' BY PartsMove, BridgeStep
<1>3. BridgeInv => BridgeBooks BY DEF BridgeInv
<1> QED BY <1>1, <1>2, <1>3, PTL DEF NetworkSpec

\* Only a confirmation completes a transfer.
LEMMA CompletionStep ==
    ASSUME BridgeInv, [BridgeNext]_bridgeVars, NEW t \in DOMAIN transfer_history,
           transfer_history'[t].status = "completed",
           transfer_history[t].status # "completed"
    PROVE  \E id \in TransferIds, r \in Relayers :
              confirm_transfer(r, id) /\ t = pending_transfers[id]
<1>1. ASSUME UNCHANGED transfer_history PROVE FALSE BY <1>1
<1>2. ASSUME NEW T, NEW failed, Fail(T, failed) PROVE FALSE
  <2>1. transfer_history'[t] = IF t \in T THEN [transfer_history[t] EXCEPT !.status = "failed"]
                               ELSE transfer_history[t]
    BY <1>2 DEF Fail
  <2>2. transfer_history[t] \in Transfers BY DEF BridgeInv, BridgeTypes
  <2>3. t \in T => transfer_history'[t].status = "failed" BY <2>1, <2>2 DEF Transfers
  <2> QED BY <2>1, <2>3
<1>3. ASSUME NEW id \in TransferIds, initiate_transfer(id) PROVE FALSE
  <2> DEFINE new == [id |-> id, status |-> "initiated", relayer_confirmations |-> {}]
  <2>1. transfer_history' = Append(transfer_history, new) BY <1>3 DEF initiate_transfer
  <2>2. transfer_history \in Seq(Transfers) BY DEF BridgeInv, BridgeTypes
  <2> HIDE DEF new
  <2>3. transfer_history'[t] = transfer_history[t] BY <2>1, <2>2
  <2> QED BY <2>3
<1>4. ASSUME NEW id \in TransferIds, NEW r \in Relayers, confirm_transfer(r, id)
      PROVE  t = pending_transfers[id]
  <2>1. \A u \in DOMAIN transfer_history \ {pending_transfers[id]} :
           transfer_history'[u] = transfer_history[u]
    BY <1>4, ConfirmEffect
  <2> QED BY <2>1
<1>5. ASSUME \/ \E r \in Relayers : add_relayer(r) \/ remove_relayer(r)
             \/ \E n \in 1 .. MaxThreshold : set_relayer_threshold(n)
             \/ Later \/ TimeoutPasses \/ UNCHANGED bridgeVars
      PROVE  UNCHANGED transfer_history
  BY <1>5 DEF add_relayer, remove_relayer, set_relayer_threshold, Later, TimeoutPasses,
              bridgeVars, transferVars
<1>6. ASSUME NEW id \in TransferIds, fail_transfer(id) PROVE FALSE
  BY <1>2, <1>6 DEF fail_transfer
<1>7. ASSUME process_transfer_timeout PROVE FALSE
  BY <1>2, <1>7 DEF process_transfer_timeout
<1> QED BY <1>1, <1>3, <1>4, <1>5, <1>6, <1>7 DEF BridgeNext

\* As many relayers as confirmations.
LEMMA RelayersCounted ==
    ASSUME NEW G, IsFiniteSet(G), \A c, d \in G : c.relayer = d.relayer => c = d
    PROVE  Cardinality({c.relayer : c \in G}) = Cardinality(G)
<1> DEFINE who == {c.relayer : c \in G}
           f == [c \in G |-> c.relayer]
<1>1. f \in Bijection(G, who)
  BY DEF Bijection, Injection, IsInjective, Surjection
<1> HIDE DEF who, f
<1>2. ExistsBijection(G, who) BY <1>1 DEF ExistsBijection
<1>3. Cardinality(who) = Cardinality(G) BY <1>2, FS_Bijection
<1> QED BY <1>3 DEF who

LEMMA CompletionByRelayers ==
    ASSUME BridgeInv, [BridgeNext]_bridgeVars
    PROVE  \A t \in DOMAIN transfer_history :
              transfer_history'[t].status = "completed" /\ transfer_history[t].status # "completed"
                => LET given == transfer_history'[t].relayer_confirmations
                       who   == {c.relayer : c \in given}
                   IN /\ transfer_history[t].status = "initiated"
                      /\ Cardinality(who) >= relayer_threshold
                      /\ \E c \in given : c.nth = Cardinality(given) /\ c.relayer \in relayers
<1> SUFFICES ASSUME NEW t \in DOMAIN transfer_history,
                    transfer_history'[t].status = "completed",
                    transfer_history[t].status # "completed"
             PROVE  LET given == transfer_history'[t].relayer_confirmations
                        who   == {c.relayer : c \in given}
                    IN /\ transfer_history[t].status = "initiated"
                       /\ Cardinality(who) >= relayer_threshold
                       /\ \E c \in given : c.nth = Cardinality(given) /\ c.relayer \in relayers
  OBVIOUS
<1>1. PICK id \in TransferIds, r \in Relayers :
         confirm_transfer(r, id) /\ t = pending_transfers[id]
  BY CompletionStep
<1>2. Confirmable(r, id) BY <1>1 DEF confirm_transfer
<1> DEFINE now == Confirmed(r, t)
<1>3. /\ transfer_history[t].status = "initiated" /\ IsFiniteSet(now)
      /\ Cardinality(now) = Confirmation(r, t).nth
      /\ \A c, d \in now : c.relayer = d.relayer => c = d
  BY <1>1, <1>2, OneMoreConfirms
<1>4. transfer_history'[t].relayer_confirmations = now
      /\ Cardinality(now) >= relayer_threshold
  BY <1>1, ConfirmEffect
<1>5. Confirmation(r, t) \in now /\ Confirmation(r, t).relayer = r
  BY DEF Confirmed, Confirmation
<1>6. r \in relayers BY <1>2 DEF Confirmable
<1> HIDE DEF now
<1>7. Cardinality({c.relayer : c \in now}) = Cardinality(now) BY <1>3, RelayersCounted
<1> QED BY <1>3, <1>4, <1>5, <1>6, <1>7

\* A transfer completes out of the pending state alone, and by as many different
\* relayers as are needed at that moment, although relayers and the threshold
\* change between confirmations (confirm_transfer).
THEOREM RelayersComplete == NetworkSpec => CompletedByRelayers
<1>1. NetworkInit => BridgeInv BY BridgeInitial DEF NetworkInit
<1>2. BridgeInv /\ [NetworkNext]_allVars => BridgeInv' BY PartsMove, BridgeStep
<1>3. BridgeInv /\ [NetworkNext]_allVars
        => [\A t \in DOMAIN transfer_history :
               transfer_history'[t].status = "completed" /\ transfer_history[t].status # "completed"
                 => LET given == transfer_history'[t].relayer_confirmations
                        who   == {c.relayer : c \in given}
                    IN /\ transfer_history[t].status = "initiated"
                       /\ Cardinality(who) >= relayer_threshold
                       /\ \E c \in given : c.nth = Cardinality(given) /\ c.relayer \in relayers]_bridgeVars
  BY PartsMove, CompletionByRelayers
<1> QED BY <1>1, <1>2, <1>3, PTL DEF NetworkSpec, CompletedByRelayers

-----------------------------------------------------------------------------
(* Counts beside sets *)

\* Counts agree with what they count in the three places that keep them apart:
\* through awaits and repeated calls no peer is counted twice, the peers of nodes
\* are mutual, and the maps of the pool hold the same transactions (PeerManager,
\* Node, NodeManager, TransactionPool).
THEOREM CountsKept == NetworkSpec => []CountsAgree
<1> DEFINE Inv == PoolInv /\ NodesInv /\ PeersInv
<1>1. NetworkInit => Inv
  BY PoolInitial, NodesInitial, PeersInitial DEF NetworkInit
<1>2. Inv /\ [NetworkNext]_allVars => Inv'
  BY PartsMove, PoolStep, NodesStep, PeersStep
<1>3. Inv => CountsAgree
  BY DEF PoolInv, NodesInv, PeersInv, CountsAgree
<1> QED BY <1>1, <1>2, <1>3, PTL DEF NetworkSpec

-----------------------------------------------------------------------------
(* The light client *)

HeaderRecords ==
    [index : 0 .. MaxHeight, previousHash : Nat, timestamp : Nat, sealed : BOOLEAN]

\* There are headers exactly up to the client's height, but for the one it may
\* begin without.
HeadersInv ==
    /\ headers \in Seq(HeaderRecords)
    /\ blockHeaders \in [0 .. MaxHeight -> {0} \cup DOMAIN headers]
    /\ currentBlockHeight \in 0 .. MaxHeight
    /\ \A h \in 0 .. MaxHeight : h > currentBlockHeight => blockHeaders[h] = 0
    /\ currentBlockHeight > 0 => blockHeaders[0] # 0
    /\ OutOfSyncWhereReplaced

LEMMA HeadersInitial ==
    ASSUME LightClientInit PROVE HeadersInv
<1>1. headers \in Seq(HeaderRecords) /\ DOMAIN headers = {1}
  BY LightClientAssumption DEF LightClientInit, HeaderRecords
<1> QED
  BY <1>1, LightClientAssumption DEF LightClientInit, HeadersInv, OutOfSyncWhereReplaced

\* A new header that nobody sent changes nothing for the client.
LEMMA MakeHeaderStep ==
    ASSUME HeadersInv, NEW i \in 0 .. MaxHeight, NEW p \in 0 .. Len(headers),
           NEW t \in Timestamps, NEW s \in BOOLEAN, MakeHeader(i, p, t, s)
    PROVE  HeadersInv'
<1> DEFINE new == [index |-> i, previousHash |-> p, timestamp |-> t, sealed |-> s]
           longer == Append(headers, new)
<1>1. headers \in Seq(HeaderRecords) /\ Len(headers) \in Nat BY DEF HeadersInv
<1>2. new \in HeaderRecords BY <1>1, LightClientAssumption DEF HeaderRecords
<1> HIDE DEF new
<1>3. /\ longer \in Seq(HeaderRecords) /\ DOMAIN headers \subseteq DOMAIN longer
      /\ 0 \notin DOMAIN headers
      /\ \A n \in DOMAIN headers : longer[n] = headers[n]
  BY <1>1, <1>2
<1> HIDE DEF longer
<1>4. headers' = longer /\ UNCHANGED <<blockHeaders, currentBlockHeight, replaced>>
  BY DEF MakeHeader, longer, new
<1>5. ASSUME NEW k \in 1 .. currentBlockHeight
      PROVE  blockHeaders[k] # 0 /\ (SyncError(k)' => k - 1 \in replaced)
  <2>1. k \in 0 .. MaxHeight /\ k - 1 \in 0 .. MaxHeight
    BY LightClientAssumption DEF HeadersInv
  <2>2. /\ blockHeaders[k] \in {0} \cup DOMAIN headers
        /\ blockHeaders[k - 1] \in {0} \cup DOMAIN headers
    BY <2>1 DEF HeadersInv
  <2>3. SyncError(k)' => SyncError(k) BY <1>3, <1>4, <2>2 DEF SyncError
  <2> QED BY <2>3 DEF HeadersInv, OutOfSyncWhereReplaced
<1>6. OutOfSyncWhereReplaced' BY <1>4, <1>5 DEF OutOfSyncWhereReplaced
<1> QED BY <1>3, <1>4, <1>6 DEF HeadersInv

\* A header taken follows the one below; the one above was there only if it took
\* the place of another.
LEMMA ProcessHeaderStep ==
    ASSUME HeadersInv, NEW n \in DOMAIN headers, processBlockHeader(n)
    PROVE  HeadersInv'
<1> DEFINE h == headers[n].index
<1>1. /\ headers[n] \in HeaderRecords /\ n # 0
      /\ blockHeaders \in [0 .. MaxHeight -> {0} \cup DOMAIN headers]
      /\ currentBlockHeight \in 0 .. MaxHeight /\ MaxHeight \in Nat
  BY LightClientAssumption DEF HeadersInv
<1>2. h \in 0 .. MaxHeight /\ headers[n].timestamp \in Nat BY <1>1 DEF HeaderRecords
<1>3. /\ h > 0 => /\ blockHeaders[h - 1] # 0
                  /\ headers[n].previousHash = blockHeaders[h - 1]
                  /\ headers[n].timestamp > headers[blockHeaders[h - 1]].timestamp
      /\ blockHeaders' = [blockHeaders EXCEPT ![h] = n]
      /\ currentBlockHeight' = IF h > currentBlockHeight THEN h ELSE currentBlockHeight
      /\ replaced' = IF blockHeaders[h] \in {0, n} THEN replaced ELSE replaced \cup {h}
      /\ headers' = headers
  BY DEF processBlockHeader, verifyBlockHeader
<1> HIDE DEF h
<1>4. /\ blockHeaders' \in [0 .. MaxHeight -> {0} \cup DOMAIN headers]
      /\ blockHeaders'[h] = n
      /\ \A k \in 0 .. MaxHeight : k # h => blockHeaders'[k] = blockHeaders[k]
  BY <1>1, <1>2, <1>3
<1>5. h <= currentBlockHeight + 1
  <2> SUFFICES ASSUME h > currentBlockHeight + 1 PROVE FALSE BY <1>1, <1>2
  <2>1. h > 0 /\ h - 1 \in 0 .. MaxHeight /\ h - 1 > currentBlockHeight BY <1>1, <1>2
  <2> QED BY <1>3, <2>1 DEF HeadersInv
<1>6. \A k \in 0 .. MaxHeight : k > currentBlockHeight' => blockHeaders'[k] = 0
  BY <1>1, <1>2, <1>3, <1>4 DEF HeadersInv
<1>7. currentBlockHeight' > 0 => blockHeaders'[0] # 0
  <2>1. CASE h = 0 BY <1>1, <1>4, <2>1
  <2>2. CASE h # 0
    <3>1. blockHeaders'[0] = blockHeaders[0] BY <1>1, <1>4, <2>2
    <3>2. CASE currentBlockHeight > 0 BY <3>1, <3>2 DEF HeadersInv
    <3>3. CASE currentBlockHeight = 0
      <4>1. h = 1 BY <1>2, <1>5, <2>2, <3>3
      <4>2. h > 0 /\ h - 1 = 0 BY <4>1
      <4> QED BY <1>3, <3>1, <4>2
    <3> QED BY <1>1, <3>2, <3>3
  <2> QED BY <2>1, <2>2
<1>8. ASSUME NEW k \in 1 .. currentBlockHeight'
      PROVE  blockHeaders'[k] # 0 /\ (SyncError(k)' => k - 1 \in replaced')
  <2>1. k \in 0 .. MaxHeight /\ k - 1 \in 0 .. MaxHeight /\ k > 0 /\ k - 1 # k
        /\ currentBlockHeight' \in 0 .. MaxHeight
    BY <1>1, <1>2, <1>3
  <2>2. CASE k = h
    <3>1. blockHeaders'[k] = n /\ blockHeaders'[k - 1] = blockHeaders[h - 1]
      BY <1>4, <2>1, <2>2
    <3>2. /\ blockHeaders[h - 1] # 0
          /\ headers[n].previousHash = blockHeaders[h - 1]
          /\ headers[n].timestamp > headers[blockHeaders[h - 1]].timestamp
      BY <1>3, <2>1, <2>2
    <3>3. headers[blockHeaders[h - 1]].timestamp \in Nat
      <4>1. blockHeaders[h - 1] \in DOMAIN headers BY <1>1, <2>1, <2>2, <3>2
      <4>2. headers[blockHeaders[h - 1]] \in HeaderRecords BY <4>1 DEF HeadersInv
      <4> QED BY <4>2 DEF HeaderRecords
    <3>4. ~ SyncError(k)' BY <1>1, <1>2, <1>3, <3>1, <3>2, <3>3 DEF SyncError
    <3> QED BY <1>1, <3>1, <3>4
  <2>3. CASE k # h
    <3>1. blockHeaders'[k] = blockHeaders[k] BY <1>4, <2>1, <2>3
    <3>2. k \in 1 .. currentBlockHeight BY <1>1, <1>2, <1>3, <1>5, <2>1, <2>3
    <3>3. blockHeaders[k] # 0 /\ (SyncError(k) => k - 1 \in replaced)
      BY <3>2 DEF HeadersInv, OutOfSyncWhereReplaced
    <3>4. CASE k - 1 # h
      <4>1. blockHeaders'[k - 1] = blockHeaders[k - 1] BY <1>4, <2>1, <3>4
      <4>2. SyncError(k)' => SyncError(k) BY <1>3, <3>1, <4>1 DEF SyncError
      <4> QED BY <1>3, <3>1, <3>3, <4>2
    <3>5. CASE k - 1 = h
      <4>1. blockHeaders[h] # 0
        <5>1. CASE h = 0
          <6>1. currentBlockHeight > 0 BY <1>1, <3>2
          <6> QED BY <5>1, <6>1 DEF HeadersInv
        <5>2. CASE h # 0
          <6>1. h \in 1 .. currentBlockHeight BY <1>1, <1>2, <3>2, <3>5, <5>2
          <6> QED BY <6>1 DEF HeadersInv, OutOfSyncWhereReplaced
        <5> QED BY <5>1, <5>2
      <4>2. CASE blockHeaders[h] = n
        <5>1. blockHeaders'[k - 1] = blockHeaders[k - 1] BY <1>4, <3>5, <4>2
        <5>2. SyncError(k)' => SyncError(k) BY <1>3, <3>1, <5>1 DEF SyncError
        <5> QED BY <1>3, <3>1, <3>3, <5>2
      <4>3. CASE blockHeaders[h] # n
        <5>1. h \in replaced' BY <1>3, <4>1, <4>3
        <5> QED BY <3>1, <3>3, <3>5, <5>1
      <4> QED BY <4>2, <4>3
    <3> QED BY <3>4, <3>5
  <2> QED BY <2>2, <2>3
<1>9. OutOfSyncWhereReplaced' BY <1>8 DEF OutOfSyncWhereReplaced
<1>10. currentBlockHeight' \in 0 .. MaxHeight BY <1>1, <1>2, <1>3
<1>11. headers \in Seq(HeaderRecords) BY DEF HeadersInv
<1> QED BY <1>3, <1>4, <1>6, <1>7, <1>9, <1>10, <1>11 DEF HeadersInv

LEMMA HeadersStep ==
    ASSUME HeadersInv, [LightClientNext]_lightClientVars PROVE HeadersInv'
<1>1. ASSUME NEW i \in 0 .. MaxHeight, NEW p \in 0 .. Len(headers), NEW t \in Timestamps,
             NEW s \in BOOLEAN, MakeHeader(i, p, t, s)
      PROVE  HeadersInv'
  BY <1>1, MakeHeaderStep
<1>2. ASSUME NEW n \in DOMAIN headers, processBlockHeader(n) PROVE HeadersInv'
  BY <1>2, ProcessHeaderStep
<1>3. ASSUME UNCHANGED lightClientVars PROVE HeadersInv'
  BY <1>3 DEF lightClientVars, HeadersInv, OutOfSyncWhereReplaced, SyncError
<1> QED BY <1>1, <1>2, <1>3 DEF LightClientNext

\* Headers that come in any order, twice or in place of others leave no gap, and
\* the client out of sync only above a header that was replaced (processBlockHeader,
\* verifySync).
THEOREM SyncedUnlessReplaced == NetworkSpec => []OutOfSyncWhereReplaced
<1>1. NetworkInit => HeadersInv BY HeadersInitial DEF NetworkInit
<1>2. HeadersInv /\ [NetworkNext]_allVars => HeadersInv' BY PartsMove, HeadersStep
<1>3. HeadersInv => OutOfSyncWhereReplaced BY DEF HeadersInv
<1> QED BY <1>1, <1>2, <1>3, PTL DEF NetworkSpec

-----------------------------------------------------------------------------
(* The Merkle tree *)

\* Hashes of different things differ.
LEMMA Hashes ==
    /\ \A d, l, r : Leaf(d) # Node(l, r)
    /\ \A d, e : Leaf(d) = Leaf(e) => d = e
    /\ \A a, b, l, r : Node(a, b) = Node(l, r) => a = l /\ b = r
<1>1. ASSUME NEW d, NEW l, NEW r PROVE Leaf(d) # Node(l, r) BY DEF Leaf, Node
<1>2. ASSUME NEW d, NEW e, Leaf(d) = Leaf(e) PROVE d = e
  <2>1. [datum |-> d].datum = [datum |-> e].datum BY <1>2 DEF Leaf
  <2> QED BY <2>1
<1>3. ASSUME NEW a, NEW b, NEW l, NEW r, Node(a, b) = Node(l, r) PROVE a = l /\ b = r
  <2>1. /\ [left |-> a, right |-> b].left = [left |-> l, right |-> r].left
        /\ [left |-> a, right |-> b].right = [left |-> l, right |-> r].right
    BY <1>3 DEF Node
  <2> QED BY <2>1
<1> QED BY <1>1, <1>2, <1>3

\* What has a value for each of the first n numbers is a list of that length.
LEMMA ListLength ==
    ASSUME NEW n \in Nat, NEW f, f = [i \in 1 .. n |-> f[i]]
    PROVE  Len(f) = n /\ DOMAIN f = 1 .. n
<1>1. DOMAIN f = 1 .. n OBVIOUS
<1>2. f \in Seq({f[i] : i \in 1 .. n})
  <2>1. f \in [1 .. n -> {f[i] : i \in 1 .. n}] OBVIOUS
  <2> QED BY <2>1, SeqDef
<1> QED BY <1>1, <1>2, LenProperties

LeavesOf(d) == [i \in DOMAIN d |-> Leaf(d[i])]

\* The first n levels over d, the same one repeated once it has a single hash.
Grows(full, d, n) ==
    full = [k \in 1 .. n |-> IF k = 1 THEN LeavesOf(d) ELSE NextLevel(full[k - 1])]

LEMMA FullExists ==
    ASSUME NEW d, NEW n \in Nat \ {0}
    PROVE  \E full : Grows(full, d, n)
<1> DEFINE Good == {m \in 0 .. n : m = 0 \/ \E full : Grows(full, d, m)}
<1>1. 0 \in Good OBVIOUS
<1>2. ASSUME NEW m \in 0 .. n, m \in Good, m < n PROVE m + 1 \in Good
  <2>0. m \in Nat /\ m + 1 \in 0 .. n BY <1>2
  <2>1. CASE m = 0
    <3> DEFINE f == [k \in 1 .. 1 |-> LeavesOf(d)]
    <3>1. \A k \in 1 .. 1 : k = 1 OBVIOUS
    <3>2. Grows(f, d, 1) BY <3>1 DEF Grows
    <3> HIDE DEF f
    <3> QED BY <2>0, <2>1, <3>2
  <2>2. CASE m # 0
    <3>1. PICK g : Grows(g, d, m) BY <1>2, <2>2
    <3> DEFINE f == [k \in 1 .. m + 1 |-> IF k = 1 THEN LeavesOf(d) ELSE NextLevel(g[k - 1])]
    <3>2. \A k \in 1 .. m : f[k] = g[k]
      <4>1. \A k \in 1 .. m : k \in 1 .. m + 1 BY <2>0
      <4> QED BY <3>1, <4>1 DEF Grows
    <3>3. \A k \in 1 .. m + 1 : k # 1 => f[k - 1] = g[k - 1]
      <4>1. \A k \in 1 .. m + 1 : k # 1 => k - 1 \in 1 .. m BY <2>0
      <4> HIDE DEF f
      <4> QED BY <3>2, <4>1
    <3>4. \A k \in 1 .. m + 1 : f[k] = IF k = 1 THEN LeavesOf(d) ELSE NextLevel(f[k - 1])
      <4>1. \A k \in 1 .. m + 1 : f[k] = IF k = 1 THEN LeavesOf(d) ELSE NextLevel(g[k - 1])
        OBVIOUS
      <4> HIDE DEF f
      <4> QED BY <3>3, <4>1
    <3>5. f = [k \in 1 .. m + 1 |-> f[k]] OBVIOUS
    <3> HIDE DEF f
    <3>6. Grows(f, d, m + 1) BY <3>4, <3>5 DEF Grows
    <3> QED BY <2>0, <3>6
  <2> QED BY <2>1, <2>2
<1>3. n \in Good
  <2> HIDE DEF Good
  <2>1. \A m \in 0 .. n : m \in Good /\ m < n => m + 1 \in Good BY <1>2
  <2>2. 0 .. n \subseteq Good BY <1>1, <2>1, UpTo
  <2> QED BY <2>2
<1> QED BY <1>3

\* The levels over d, as buildTree makes them: leaves, and upwards pairs, until
\* one hash is left.
TreeOver(tree, d) ==
    /\ Len(tree) \in 1 .. MaxLeaves /\ DOMAIN tree = 1 .. Len(tree)
    /\ tree[1] = LeavesOf(d)
    /\ \A k \in 1 .. Len(tree) : Len(tree[k]) \in Nat /\ DOMAIN tree[k] = 1 .. Len(tree[k])
    /\ \A k \in 1 .. Len(tree) - 1 :
          Len(tree[k]) > 1 /\ tree[k + 1] = NextLevel(tree[k])
          /\ Len(tree[k + 1]) = (Len(tree[k]) + 1) \div 2
    /\ Len(tree[Len(tree)]) = 1

LEMMA NextLength ==
    ASSUME NEW level, Len(level) \in Nat
    PROVE  /\ Len(NextLevel(level)) = (Len(level) + 1) \div 2
           /\ DOMAIN NextLevel(level) = 1 .. (Len(level) + 1) \div 2
<1> DEFINE n == (Len(level) + 1) \div 2
           f == NextLevel(level)
<1>1. n \in Nat OBVIOUS
<1>2. f = [i \in 1 .. n |-> f[i]] BY DEF NextLevel
<1> HIDE DEF f, n
<1>3. Len(f) = n /\ DOMAIN f = 1 .. n BY <1>1, <1>2, ListLength
<1> QED BY <1>3 DEF f, n

LEMMA LevelsAre ==
    ASSUME NEW d, Len(d) \in 1 .. MaxLeaves, DOMAIN d = 1 .. Len(d)
    PROVE  TreeOver(Levels(d), d)
<1>0. MaxLeaves \in Nat \ {0} BY LightClientAssumption
<1> DEFINE body(f) == [k \in 1 .. MaxLeaves |->
               IF k = 1 THEN [i \in DOMAIN d |-> Leaf(d[i])] ELSE NextLevel(f[k - 1])]
           full == CHOOSE f : f = body(f)
           top == CHOOSE k \in 1 .. MaxLeaves :
                      Len(full[k]) = 1 /\ \A j \in 1 .. k - 1 : Len(full[j]) > 1
           tree == [k \in 1 .. top |-> full[k]]
<1>1. Levels(d) = tree BY DEF Levels
<1>2. Grows(full, d, MaxLeaves)
  <2>1. PICK g : Grows(g, d, MaxLeaves) BY <1>0, FullExists
  <2>2. g = body(g) BY <2>1 DEF Grows, LeavesOf
  <2>3. full = body(full) BY <2>2
  <2> QED BY <2>3 DEF Grows, LeavesOf
<1> HIDE DEF full
<1>3. /\ full[1] = LeavesOf(d)
      /\ \A k \in 1 .. MaxLeaves : k # 1 => full[k] = NextLevel(full[k - 1])
  <2>1. 1 \in 1 .. MaxLeaves BY <1>0
  <2> QED BY <1>2, <2>1 DEF Grows
<1>4. Len(full[1]) = Len(d) /\ DOMAIN full[1] = 1 .. Len(d)
  <2> DEFINE f == LeavesOf(d)
  <2>1. f = [i \in 1 .. Len(d) |-> f[i]] BY DEF LeavesOf
  <2>2. Len(d) \in Nat BY <1>0
  <2> HIDE DEF f
  <2>3. Len(f) = Len(d) /\ DOMAIN f = 1 .. Len(d) BY <2>1, <2>2, ListLength
  <2> QED BY <1>3, <2>3 DEF f
\* A level is shorter by one at least than the one below it, or has one hash.
<1> DEFINE Shorter(k) ==
        /\ Len(full[k]) \in Nat \ {0} /\ DOMAIN full[k] = 1 .. Len(full[k])
        /\ Len(full[k]) = 1 \/ Len(full[k]) <= MaxLeaves - (k - 1)
        /\ k # 1 => Len(full[k]) = (Len(full[k - 1]) + 1) \div 2
<1>5. ASSUME NEW k \in 1 .. MaxLeaves PROVE Shorter(k)
  <2> DEFINE Good == {m \in 0 .. MaxLeaves : m = 0 \/ Shorter(m)}
  <2>1. 0 \in Good BY <1>0
  <2>2. ASSUME NEW m \in 0 .. MaxLeaves, m \in Good, m < MaxLeaves PROVE m + 1 \in Good
    <3>0. m \in Nat /\ m + 1 \in 1 .. MaxLeaves /\ m + 1 \in 0 .. MaxLeaves /\ (m + 1) - 1 = m
      BY <1>0, <2>2
    <3>1. CASE m = 0 BY <1>0, <1>4, <3>0, <3>1
    <3>2. CASE m # 0
      <4>1. Shorter(m) BY <2>2, <3>2
      <4>2. full[m + 1] = NextLevel(full[m]) BY <1>3, <3>0, <3>2
      <4>3. /\ Len(full[m + 1]) = (Len(full[m]) + 1) \div 2
            /\ DOMAIN full[m + 1] = 1 .. (Len(full[m]) + 1) \div 2
        BY <4>1, <4>2, NextLength
      <4>4. Shorter(m + 1)
        <5> DEFINE a == Len(full[m])
                   b == Len(full[m + 1])
        <5>1. /\ a \in Nat \ {0} /\ b = (a + 1) \div 2
              /\ a = 1 \/ a <= MaxLeaves - (m - 1)
          BY <4>1, <4>3
        <5> HIDE DEF a, b
        <5>2. b \in Nat \ {0} /\ (b = 1 \/ b <= MaxLeaves - m) BY <1>0, <3>0, <5>1
        <5> QED BY <3>0, <4>3, <5>1, <5>2 DEF a, b
      <4> QED BY <3>0, <4>4
    <3> QED BY <3>1, <3>2
  <2> HIDE DEF Good
  <2>3. \A m \in 0 .. MaxLeaves : m \in Good /\ m < MaxLeaves => m + 1 \in Good BY <2>2
  <2>4. 0 .. MaxLeaves \subseteq Good BY <1>0, <2>1, <2>3, UpTo
  <2>5. k \in 0 .. MaxLeaves /\ k # 0 BY <1>0
  <2>6. k \in Good BY <2>4, <2>5
  <2> QED BY <2>5, <2>6 DEF Good
<1>6. top \in 1 .. MaxLeaves /\ Len(full[top]) = 1 /\ \A j \in 1 .. top - 1 : Len(full[j]) > 1
  <2> DEFINE T == {k \in 1 .. MaxLeaves : Len(full[k]) = 1}
  <2>1. MaxLeaves \in T
    <3>1. MaxLeaves \in 1 .. MaxLeaves BY <1>0
    <3> DEFINE a == Len(full[MaxLeaves])
    <3>2. a \in Nat \ {0} /\ (a = 1 \/ a <= MaxLeaves - (MaxLeaves - 1))
      BY <1>5, <3>1
    <3>3. a = 1
      <4> HIDE DEF a
      <4> QED BY <1>0, <3>2
    <3> QED BY <3>1, <3>3
  <2>2. PICK k \in T : \A j \in T : k <= j
    <3>1. T \subseteq Nat /\ T # {} BY <1>0, <2>1
    <3> HIDE DEF T
    <3> QED BY <3>1, Least
  <2>3. ASSUME NEW j \in 1 .. k - 1 PROVE Len(full[j]) > 1
    <3>1. j \in 1 .. MaxLeaves /\ ~(k <= j) BY <1>0
    <3>2. j \notin T
      <4> HIDE DEF T
      <4> QED BY <2>2, <3>1
    <3> DEFINE a == Len(full[j])
    <3>3. a \in Nat \ {0} BY <1>5, <3>1
    <3>4. a # 1 BY <3>1, <3>2
    <3>5. a > 1
      <4> HIDE DEF a
      <4> QED BY <3>3, <3>4
    <3> QED BY <3>5
  <2>4. k \in 1 .. MaxLeaves /\ Len(full[k]) = 1 OBVIOUS
  <2>5. \E x \in 1 .. MaxLeaves : Len(full[x]) = 1 /\ \A j \in 1 .. x - 1 : Len(full[j]) > 1
    <3> HIDE DEF T
    <3> QED BY <2>3, <2>4
  <2> QED BY <2>5
<1> HIDE DEF top
<1>7. Len(tree) = top /\ DOMAIN tree = 1 .. top
  <2>1. top \in Nat /\ tree = [k \in 1 .. top |-> tree[k]] BY <1>0, <1>6
  <2> HIDE DEF tree
  <2> QED BY <2>1, ListLength
<1>8. /\ tree[1] = full[1] /\ tree[top] = full[top]
      /\ \A k \in 1 .. top : tree[k] = full[k] /\ k \in 1 .. MaxLeaves
      /\ \A k \in 1 .. top - 1 : tree[k + 1] = full[k + 1] /\ k + 1 \in 1 .. MaxLeaves /\ k + 1 # 1
                                 /\ (k + 1) - 1 = k /\ k \in 1 .. top
  BY <1>0, <1>6
<1> HIDE DEF tree
<1>9. \A k \in 1 .. top : Len(tree[k]) \in Nat /\ DOMAIN tree[k] = 1 .. Len(tree[k])
  BY <1>5, <1>8
<1>10. ASSUME NEW k \in 1 .. top - 1
       PROVE  Len(tree[k]) > 1 /\ tree[k + 1] = NextLevel(tree[k])
              /\ Len(tree[k + 1]) = (Len(tree[k]) + 1) \div 2
  <2>1. Shorter(k + 1) BY <1>5, <1>8
  <2>2. full[k + 1] = NextLevel(full[k]) BY <1>3, <1>8
  <2> QED BY <1>6, <1>8, <2>1, <2>2
<1>11. TreeOver(tree, d)
  <2> HIDE DEF Shorter
  <2> QED BY <1>3, <1>6, <1>7, <1>8, <1>9, <1>10 DEF TreeOver
<1> QED BY <1>1, <1>11

LevelsBelow == Front(Levels(data))

LEMMA BelowAre ==
    ASSUME TreeOver(Levels(data), data)
    PROVE  /\ LevelsBelow \in Seq(Range(Levels(data)))
           /\ Len(LevelsBelow) = Len(Levels(data)) - 1
           /\ DOMAIN LevelsBelow = 1 .. Len(Levels(data)) - 1
           /\ \A k \in 1 .. Len(LevelsBelow) : LevelsBelow[k] = Levels(data)[k]
<1> DEFINE tree == Levels(data)
           R == Range(tree)
<1>1. Len(tree) \in Nat \ {0} /\ DOMAIN tree = 1 .. Len(tree)
  BY LightClientAssumption DEF TreeOver
<1>2. tree \in Seq(R)
  <2>1. tree = [k \in 1 .. Len(tree) |-> tree[k]]
    <3> DEFINE f == [k \in 1 .. Len(tree) |-> tree[k]]
    <3>0. Levels(data) = [k \in DOMAIN Levels(data) |-> Levels(data)[k]] BY DEF Levels
    <3> QED BY <1>1, <3>0
  <2>2. tree \in [1 .. Len(tree) -> R] BY <1>1, <2>1 DEF Range
  <2> QED BY <1>1, <2>2, SeqDef
<1>3. LevelsBelow = SubSeq(tree, 1, Len(tree) - 1) BY DEF LevelsBelow, Front
<1> HIDE DEF tree, R
<1>4. /\ SubSeq(tree, 1, Len(tree) - 1) \in Seq(R)
      /\ Len(SubSeq(tree, 1, Len(tree) - 1)) = Len(tree) - 1
      /\ DOMAIN SubSeq(tree, 1, Len(tree) - 1) = 1 .. Len(tree) - 1
      /\ \A k \in 1 .. Len(tree) - 1 : SubSeq(tree, 1, Len(tree) - 1)[k] = tree[k]
  BY <1>1, <1>2
<1> QED BY <1>3, <1>4 DEF tree, R

\* The place on the way up, at each level.
LEMMA PositionIs ==
    ASSUME NEW index \in Nat
    PROVE  /\ Position(index)[1] = index
           /\ \A k \in 1 .. MaxLeaves : Position(index)[k] \in Nat
           /\ \A k \in 1 .. MaxLeaves - 1 :
                 Position(index)[k + 1] = Position(index)[k] \div 2
<1>0. MaxLeaves \in Nat \ {0} BY LightClientAssumption
<1> DEFINE S == 1 .. MaxLeaves
           rank == [k \in S |-> k]
           H == [k \in S |-> [g \in [S -> Nat] |-> IF k = 1 THEN index ELSE g[k - 1] \div 2]]
           body(f) == [k \in 1 .. MaxLeaves |-> IF k = 1 THEN index ELSE f[k - 1] \div 2]
           f == CHOOSE f : f = body(f)
<1>1. ASSUME NEW k \in S, k # 1 PROVE k - 1 \in S /\ rank[k - 1] < rank[k]
  <2>1. k - 1 \in S BY <1>0, <1>1
  <2> QED BY <2>1
<1>2. \A k \in S : \A g \in [S -> Nat] : H[k][g] = IF k = 1 THEN index ELSE g[k - 1] \div 2
  OBVIOUS
<1>3. rank \in [S -> Nat] BY <1>0
<1> HIDE DEF H, rank
<1>4. ASSUME NEW k \in S, NEW g \in [S -> Nat] PROVE H[k][g] \in Nat
  <2> HIDE DEF S
  <2>1. k # 1 => g[k - 1] \in Nat BY <1>1
  <2> QED BY <1>2, <2>1
<1>5. Determined(S, Nat, rank, H)
  <2> HIDE DEF S
  <2> QED BY <1>1, <1>2 DEF Determined
<1>6. PICK g \in [S -> Nat] : \A k \in S : g[k] = H[k][g]
  <2> HIDE DEF S
  <2> DEFINE V == Nat
  <2>1. 0 \in V /\ \A k \in S : \A g \in [S -> V] : H[k][g] \in V BY <1>4
  <2>2. Determined(S, V, rank, H) BY <1>5
  <2> HIDE DEF V
  <2>3. \E g \in [S -> V] : \A k \in S : g[k] = H[k][g] BY <1>3, <2>1, <2>2, Recursion
  <2> QED BY <2>3 DEF V
<1>7. g = body(g) BY <1>2, <1>6
<1>8. f = body(f) BY <1>7
<1>9. Position(index) = f BY DEF Position
<1> HIDE DEF f
<1>10. \A k \in S : f[k] = IF k = 1 THEN index ELSE f[k - 1] \div 2 BY <1>8
<1>11. \A k \in 1 .. MaxLeaves : f[k] \in Nat
  <2> DEFINE Good == {m \in 0 .. MaxLeaves : m = 0 \/ f[m] \in Nat}
  <2>1. 0 \in Good BY <1>0
  <2>2. ASSUME NEW m \in 0 .. MaxLeaves, m \in Good, m < MaxLeaves PROVE m + 1 \in Good
    <3>1. m \in Nat /\ m + 1 \in 1 .. MaxLeaves /\ (m + 1) - 1 = m /\ m + 1 \in 0 .. MaxLeaves
          /\ (m + 1 = 1 <=> m = 0)
      BY <1>0, <2>2
    <3>2. f[m + 1] = IF m = 0 THEN index ELSE f[m] \div 2 BY <1>10, <3>1
    <3>3. m # 0 => f[m] \in Nat BY <2>2
    <3>4. f[m + 1] \in Nat BY <3>2, <3>3
    <3> QED BY <3>1, <3>4
  <2> HIDE DEF Good
  <2>3. 0 .. MaxLeaves \subseteq Good BY <1>0, <2>1, <2>2, UpTo
  <2>4. \A k \in 1 .. MaxLeaves : k \in 0 .. MaxLeaves /\ k # 0 BY <1>0
  <2> QED BY <2>3, <2>4 DEF Good
<1>12. f[1] = index
  <2>1. 1 \in S BY <1>0
  <2> QED BY <1>10, <2>1
<1>13. \A k \in 1 .. MaxLeaves - 1 : f[k + 1] = f[k] \div 2
  <2>1. \A k \in 1 .. MaxLeaves - 1 : k + 1 \in S /\ k + 1 # 1 /\ (k + 1) - 1 = k BY <1>0
  <2> QED BY <1>10, <2>1
<1> QED BY <1>9, <1>11, <1>12, <1>13

\* What a step of a proof makes of a hash.
Joined(hash, step) ==
    IF step.side = "left" THEN Node(step.hash, hash) ELSE Node(hash, step.hash)

ClimbsTo(f, d, proof, n) ==
    f = [k \in 0 .. n |-> IF k = 0 THEN Leaf(d) ELSE Joined(f[k - 1], proof[k])]

LEMMA ClimbExists ==
    ASSUME NEW d, NEW proof, NEW n \in Nat
    PROVE  \E f : ClimbsTo(f, d, proof, n)
<1> DEFINE Good == {m \in 0 .. n : \E f : ClimbsTo(f, d, proof, m)}
<1>1. 0 \in Good
  <2> DEFINE f == [k \in 0 .. 0 |-> Leaf(d)]
  <2>1. \A k \in 0 .. 0 : k = 0 OBVIOUS
  <2>2. ClimbsTo(f, d, proof, 0) BY <2>1 DEF ClimbsTo
  <2> HIDE DEF f
  <2>3. \E h : ClimbsTo(h, d, proof, 0) BY <2>2
  <2> QED BY <2>3
<1>2. ASSUME NEW m \in 0 .. n, m \in Good, m < n PROVE m + 1 \in Good
  <2>0. m \in Nat /\ m + 1 \in 0 .. n BY <1>2
  <2>1. PICK g : ClimbsTo(g, d, proof, m) BY <1>2
  <2> DEFINE f == [k \in 0 .. m + 1 |-> IF k = 0 THEN Leaf(d) ELSE Joined(g[k - 1], proof[k])]
  <2>2. \A k \in 0 .. m : f[k] = g[k]
    <3>1. \A k \in 0 .. m : k \in 0 .. m + 1 BY <2>0
    <3> QED BY <2>1, <3>1 DEF ClimbsTo
  <2>3. \A k \in 0 .. m + 1 : k # 0 => f[k - 1] = g[k - 1]
    <3>1. \A k \in 0 .. m + 1 : k # 0 => k - 1 \in 0 .. m BY <2>0
    <3> HIDE DEF f
    <3> QED BY <2>2, <3>1
  <2>4. \A k \in 0 .. m + 1 : f[k] = IF k = 0 THEN Leaf(d) ELSE Joined(f[k - 1], proof[k])
    <3>1. \A k \in 0 .. m + 1 : f[k] = IF k = 0 THEN Leaf(d) ELSE Joined(g[k - 1], proof[k])
      OBVIOUS
    <3> HIDE DEF f
    <3> QED BY <2>3, <3>1
  <2>5. f = [k \in 0 .. m + 1 |-> f[k]] OBVIOUS
  <2> HIDE DEF f
  <2>6. ClimbsTo(f, d, proof, m + 1) BY <2>4, <2>5 DEF ClimbsTo
  <2> QED BY <2>0, <2>6
<1>3. n \in Good
  <2> HIDE DEF Good
  <2>1. \A m \in 0 .. n : m \in Good /\ m < n => m + 1 \in Good BY <1>2
  <2>2. 0 .. n \subseteq Good BY <1>1, <2>1, UpTo
  <2> QED BY <2>2
<1> QED BY <1>3

LEMMA ClimbedIs ==
    ASSUME NEW d, NEW proof, Len(proof) \in Nat
    PROVE  \E f : ClimbsTo(f, d, proof, Len(proof)) /\ Climbed(d, proof) = f[Len(proof)]
<1> DEFINE body(f) == [k \in 0 .. Len(proof) |->
               IF k = 0 THEN Leaf(d)
               ELSE IF proof[k].side = "left" THEN Node(proof[k].hash, f[k - 1])
               ELSE Node(f[k - 1], proof[k].hash)]
           f == CHOOSE f : f = body(f)
<1>1. Climbed(d, proof) = f[Len(proof)] BY DEF Climbed
<1>2. PICK g : ClimbsTo(g, d, proof, Len(proof)) BY ClimbExists
<1>3. g = body(g) BY <1>2 DEF ClimbsTo, Joined
<1>4. f = body(f) BY <1>3
<1> HIDE DEF f
<1>5. ClimbsTo(f, d, proof, Len(proof)) BY <1>4 DEF ClimbsTo, Joined
<1> QED BY <1>1, <1>5

LEMMA ClimbedNone ==
    ASSUME NEW d PROVE Climbed(d, <<>>) = Leaf(d)
<1>1. Len(<<>>) = 0 OBVIOUS
<1>2. PICK f : ClimbsTo(f, d, <<>>, Len(<<>>)) /\ Climbed(d, <<>>) = f[Len(<<>>)]
  BY <1>1, ClimbedIs
<1> QED BY <1>1, <1>2 DEF ClimbsTo

\* A step more joins one hash more to what was climbed.
LEMMA ClimbedMore ==
    ASSUME NEW d, NEW S, NEW proof \in Seq(S), NEW s \in S
    PROVE  Climbed(d, Append(proof, s)) = Joined(Climbed(d, proof), s)
<1> DEFINE n == Len(proof)
           more == Append(proof, s)
<1>1. n \in Nat /\ Len(more) = n + 1 /\ more[n + 1] = s /\ \A k \in 1 .. n : more[k] = proof[k]
  OBVIOUS
<1>2. PICK f : ClimbsTo(f, d, proof, n) /\ Climbed(d, proof) = f[n] BY <1>1, ClimbedIs
<1>3. PICK g : ClimbsTo(g, d, more, n + 1) /\ Climbed(d, more) = g[n + 1]
  <2>1. Len(more) \in Nat BY <1>1
  <2> QED BY <1>1, <2>1, ClimbedIs
<1> HIDE DEF n, more
<1>4. /\ \A k \in 0 .. n : f[k] = IF k = 0 THEN Leaf(d) ELSE Joined(f[k - 1], proof[k])
      /\ \A k \in 0 .. n + 1 : g[k] = IF k = 0 THEN Leaf(d) ELSE Joined(g[k - 1], more[k])
  BY <1>2, <1>3 DEF ClimbsTo
<1>5. f[n] = g[n]
  <2> DEFINE Good == {k \in 0 .. n : f[k] = g[k]}
  <2>1. 0 \in Good
    <3>1. 0 \in 0 .. n /\ 0 \in 0 .. n + 1 BY <1>1
    <3> QED BY <1>4, <3>1
  <2>2. ASSUME NEW k \in 0 .. n, k \in Good, k < n PROVE k + 1 \in Good
    <3>1. k + 1 \in 0 .. n /\ k + 1 \in 0 .. n + 1 /\ k + 1 # 0 /\ (k + 1) - 1 = k /\ k + 1 \in 1 .. n
      BY <1>1, <2>2
    <3>2. f[k + 1] = Joined(f[k], proof[k + 1]) /\ g[k + 1] = Joined(g[k], more[k + 1])
      BY <1>4, <3>1
    <3>3. f[k] = g[k] /\ more[k + 1] = proof[k + 1] BY <1>1, <2>2, <3>1
    <3> QED BY <3>1, <3>2, <3>3
  <2> HIDE DEF Good
  <2>3. 0 .. n \subseteq Good BY <1>1, <2>1, <2>2, UpTo
  <2>4. n \in 0 .. n BY <1>1
  <2> QED BY <2>3, <2>4 DEF Good
<1>6. g[n + 1] = Joined(g[n], s)
  <2>1. n + 1 \in 0 .. n + 1 /\ n + 1 # 0 /\ (n + 1) - 1 = n BY <1>1
  <2> QED BY <1>1, <1>4, <2>1
<1> QED BY <1>2, <1>3, <1>5, <1>6 DEF more

\* The proof after a level, and the place on the next one.
Stepped(acc, level) ==
    [proof |-> acc.proof \o Step(level, acc.at, IF acc.at % 2 = 0 THEN "right" ELSE "left"),
     at |-> acc.at \div 2]

\* The steps there are over a tree, and the proofs on the way.
StepsOf(levels) ==
    [side : {"left", "right"},
     hash : UNION {{levels[k][j] : j \in 1 .. Len(levels[k])} : k \in DOMAIN levels}]
Partial == [proof : Seq(StepsOf(LevelsBelow)), at : Nat]

LEMMA SteppedIs ==
    ASSUME NEW acc, NEW level, NEW side, side = IF acc.at % 2 = 0 THEN "right" ELSE "left"
    PROVE  /\ Stepped(acc, level).proof = acc.proof \o Step(level, acc.at, side)
           /\ Stepped(acc, level).at = acc.at \div 2
<1> DEFINE more == acc.proof \o Step(level, acc.at, side)
           above == acc.at \div 2
<1>1. Stepped(acc, level) = [proof |-> more, at |-> above] BY DEF Stepped
<1> HIDE DEF more, above
<1>2. Stepped(acc, level).proof = more /\ Stepped(acc, level).at = above BY <1>1
<1> QED BY <1>2 DEF more, above

LEMMA SteppedType ==
    ASSUME TreeOver(Levels(data), data), NEW k \in 1 .. Len(LevelsBelow), NEW acc \in Partial
    PROVE  Stepped(acc, LevelsBelow[k]) \in Partial
<1> DEFINE level == LevelsBelow[k]
           side == IF acc.at % 2 = 0 THEN "right" ELSE "left"
           added == Step(level, acc.at, side)
<1>1. k \in DOMAIN LevelsBelow /\ k \in 1 .. Len(Levels(data)) /\ level = Levels(data)[k]
  <2>1. Len(Levels(data)) \in Nat BY LightClientAssumption DEF TreeOver
  <2> QED BY <2>1, BelowAre
<1>2. Len(level) \in Nat BY <1>1 DEF TreeOver
<1>3. acc.at \in Nat /\ acc.proof \in Seq(StepsOf(LevelsBelow)) BY DEF Partial
<1>4. side \in {"left", "right"} OBVIOUS
<1>5. Sibling(acc.at) \in Nat BY <1>3 DEF Sibling
<1> HIDE DEF side
<1>6. ASSUME Sibling(acc.at) < Len(level)
      PROVE  [side |-> side, hash |-> level[Sibling(acc.at) + 1]] \in StepsOf(LevelsBelow)
  <2>1. Sibling(acc.at) + 1 \in 1 .. Len(level) BY <1>2, <1>5, <1>6
  <2> QED BY <1>1, <1>4, <2>1 DEF StepsOf
<1> HIDE DEF level
<1>7. added \in Seq(StepsOf(LevelsBelow)) BY <1>6 DEF Step
<1> HIDE DEF added
<1>8. acc.proof \o added \in Seq(StepsOf(LevelsBelow)) BY <1>3, <1>7, ConcatProperties
<1>9. acc.at \div 2 \in Nat BY <1>3
<1>10. Stepped(acc, level) = [proof |-> acc.proof \o added, at |-> acc.at \div 2]
  BY DEF Stepped, added, side
<1> QED BY <1>8, <1>9, <1>10 DEF Partial, level

\* What the proof comes to after each level.
StepsTo(index, f) ==
    /\ f[0] = [proof |-> <<>>, at |-> index] /\ f[Len(LevelsBelow)].proof = ProofOf(index)
    /\ \A k \in 1 .. Len(LevelsBelow) :
          f[k] = Stepped(f[k - 1], LevelsBelow[k]) /\ f[k - 1] \in Partial

LEMMA ProofSteps ==
    ASSUME TreeOver(Levels(data), data), NEW index \in Nat
    PROVE  \E f : StepsTo(index, f)
<1> DEFINE n == Len(LevelsBelow)
           B == Partial
           step == [i \in 1 .. n |-> [b \in B |-> Stepped(b, LevelsBelow[i])]]
           D == SUBSET DOMAIN LevelsBelow
           body(g) == [d \in D |->
               IF d = {} THEN [proof |-> <<>>, at |-> index]
               ELSE Stepped(g[d \ {Max(d)}], LevelsBelow[Max(d)])]
           I == CHOOSE g : g = body(g)
           f == [k \in 0 .. n |-> I[1 .. k]]
<1>1. ProofOf(index) = I[DOMAIN LevelsBelow].proof
  BY DEF ProofOf, LevelsBelow, Stepped, FoldLeft, MapThenFoldSet
<1>2. n \in Nat /\ DOMAIN LevelsBelow = 1 .. n
  <2> HIDE DEF f, I, step, D, body
  <2>1. LevelsBelow \in Seq(Range(Levels(data))) BY BelowAre
  <2> QED BY <2>1
<1>3. \A i \in 1 .. n : \A b \in B : step[i][b] = Stepped(b, LevelsBelow[i])
  BY Zenon
<1> HIDE DEF n, step
<1>4. ASSUME NEW i \in 1 .. n, NEW b \in B PROVE step[i][b] \in B
  BY <1>3, SteppedType DEF n
<1>5. [proof |-> <<>>, at |-> index] \in B BY DEF Partial
<1> HIDE DEF B
<1>6. PICK g \in [SUBSET (1 .. n) -> B] : FoldsTo(1 .. n, [proof |-> <<>>, at |-> index], step, g)
  BY <1>2, <1>4, <1>5, FoldExists
<1>7. g = body(g)
  <2>1. D = SUBSET (1 .. n) BY <1>2
  <2>2. ASSUME NEW d \in D, d # {}
        PROVE  g[d] = Stepped(g[d \ {Max(d)}], LevelsBelow[Max(d)])
    <3>1. Max(d) = Greatest(d) /\ Max(d) \in 1 .. n BY <1>2, <2>1, <2>2, MaxIs
    <3>2. d \ {Max(d)} \in SUBSET (1 .. n) BY <2>1
    <3>3. g[d] = step[Max(d)][g[d \ {Max(d)}]] BY <1>6, <2>1, <2>2, <3>1 DEF FoldsTo
    <3> QED BY <1>3, <1>6, <3>1, <3>2, <3>3
  <2>3. g[{}] = [proof |-> <<>>, at |-> index] BY <1>6 DEF FoldsTo
  <2> QED BY <1>6, <2>1, <2>2, <2>3
<1>8. I = body(I) BY <1>7
<1> HIDE DEF I
<1>9. ASSUME NEW k \in 1 .. n
      PROVE  I[1 .. k] = Stepped(I[1 .. (k - 1)], LevelsBelow[k])
  <2>1. 1 .. k \in D /\ 1 .. k # {} /\ Max(1 .. k) = k
        /\ (1 .. k) \ {Max(1 .. k)} = 1 .. (k - 1)
    BY <1>2, FirstParts
  <2> HIDE DEF D
  <2> QED BY <1>8, <2>1
<1>10. I[{}] = [proof |-> <<>>, at |-> index] /\ 1 .. 0 = {}
  <2>1. {} \in D OBVIOUS
  <2> HIDE DEF D
  <2> QED BY <1>8, <2>1
<1>11. /\ f[0] = [proof |-> <<>>, at |-> index] /\ f[n].proof = ProofOf(index)
       /\ \A k \in 1 .. n : f[k] = I[1 .. k] /\ f[k - 1] = I[1 .. (k - 1)]
  BY <1>1, <1>2, <1>10
<1> HIDE DEF f
<1>12. ASSUME NEW k \in 1 .. n
       PROVE  f[k] = Stepped(f[k - 1], LevelsBelow[k])
  <2>1. f[k] = I[1 .. k] /\ f[k - 1] = I[1 .. (k - 1)] BY <1>11
  <2> QED BY <1>9, <2>1
<1> HIDE DEF I
<1>13. \A k \in 1 .. n : f[k] = Stepped(f[k - 1], LevelsBelow[k])
  BY <1>12
<1>14. ASSUME NEW k \in 0 .. n PROVE f[k] \in Partial
  <2> DEFINE Good == {m \in 0 .. n : f[m] \in Partial}
  <2>1. 0 \in Good BY <1>2, <1>5, <1>11 DEF B
  <2>2. ASSUME NEW m \in 0 .. n, m \in Good, m < n PROVE m + 1 \in Good
    <3>1. m + 1 \in 1 .. n /\ m + 1 \in 0 .. n /\ (m + 1) - 1 = m BY <1>2, <2>2
    <3>2. f[m + 1] = Stepped(f[m], LevelsBelow[m + 1]) BY <1>13, <3>1
    <3>3. f[m] \in Partial BY <2>2
    <3>4. f[m + 1] \in Partial BY <3>1, <3>2, <3>3, SteppedType DEF n
    <3> QED BY <3>1, <3>4
  <2> HIDE DEF Good
  <2>3. 0 .. n \subseteq Good BY <1>2, <2>1, <2>2, UpTo
  <2> QED BY <2>3 DEF Good
<1>15. \A k \in 1 .. n : k - 1 \in 0 .. n BY <1>2
<1>16. StepsTo(index, f) BY <1>11, <1>13, <1>14, <1>15 DEF n, StepsTo
<1> QED BY <1>16

-----------------------------------------------------------------------------
(* What a proof makes of a datum, level by level *)

\* No sibling: the last hash of an odd level.
Alone(levels, index, k) ==
    Position(index)[k] = Len(levels[k]) - 1 /\ Len(levels[k]) % 2 = 1

\* What is climbed of d before level k + 1 (c[k]), beside the hash on the way up
\* from the index (h[k + 1]): they are joined to the same sibling, or the proof has
\* no step and the hash above is a pair with itself.
ClimbsBeside(levels, index, d, c) ==
    /\ c[0] = Leaf(d) /\ c[Len(levels) - 1] = Climbed(d, ProofOf(index))
    /\ \A k \in 1 .. Len(levels) - 1 :
          LET here  == levels[k][Position(index)[k] + 1]
              above == levels[k + 1][Position(index)[k + 1] + 1]
          IN IF Alone(levels, index, k) THEN c[k] = c[k - 1]
             ELSE \/ \E s : c[k] = Node(c[k - 1], s) /\ above = Node(here, s)
                  \/ \E s : c[k] = Node(s, c[k - 1]) /\ above = Node(s, here)
    /\ \A k \in 1 .. Len(levels) : Position(index)[k] \in 0 .. Len(levels[k]) - 1

\* The place on the way up is one of the level.
LEMMA OnTheLevel ==
    ASSUME NEW levels, NEW d, TreeOver(levels, d), NEW index \in 0 .. Len(d) - 1, Len(d) \in Nat,
           DOMAIN d = 1 .. Len(d)
    PROVE  \A k \in 1 .. Len(levels) : Position(index)[k] \in 0 .. Len(levels[k]) - 1
<1>0. /\ MaxLeaves \in Nat \ {0} /\ Len(levels) \in 1 .. MaxLeaves /\ Len(levels) \in Nat
      /\ index \in Nat
  BY LightClientAssumption DEF TreeOver
<1>1. Len(levels[1]) = Len(d)
  <2> DEFINE f == LeavesOf(d)
  <2>1. f = [i \in 1 .. Len(d) |-> f[i]] BY DEF LeavesOf
  <2> HIDE DEF f
  <2>2. Len(f) = Len(d) BY <2>1, ListLength
  <2> QED BY <2>2 DEF TreeOver, f
<1> DEFINE n == Len(levels)
           Good == {m \in 0 .. n : m = 0 \/ Position(index)[m] \in 0 .. Len(levels[m]) - 1}
<1>2. 0 \in Good BY <1>0
<1>3. ASSUME NEW m \in 0 .. n, m \in Good, m < n PROVE m + 1 \in Good
  <2>1. m + 1 \in 0 .. n /\ m \in Nat /\ m + 1 \in 1 .. n BY <1>0, <1>3
  <2>2. CASE m = 0
    <3>1. Position(index)[1] = index BY <1>0, PositionIs
    <3> QED BY <1>0, <1>1, <2>1, <2>2, <3>1
  <2>3. CASE m # 0
    <3> DEFINE p == Position(index)[m]
               q == Position(index)[m + 1]
               a == Len(levels[m])
               b == Len(levels[m + 1])
    <3>1. m \in 1 .. Len(levels) - 1 /\ m \in 1 .. MaxLeaves - 1 /\ m \in 1 .. Len(levels)
      BY <1>0, <1>3, <2>1, <2>3
    <3>2. q = p \div 2 BY <1>0, <3>1, PositionIs
    <3>3. b = (a + 1) \div 2 /\ a > 1 /\ a \in Nat BY <3>1 DEF TreeOver
    <3>4. p \in 0 .. a - 1 BY <1>3, <2>3
    <3> HIDE DEF p, q, a, b
    <3>5. q \in 0 .. b - 1 BY <3>2, <3>3, <3>4
    <3> QED BY <2>1, <3>5 DEF q, b
  <2> QED BY <2>2, <2>3
<1>4. \A k \in 1 .. n : k \in Good
  <2> HIDE DEF Good
  <2>1. n \in Nat BY <1>0
  <2>2. 0 .. n \subseteq Good BY <1>2, <1>3, <2>1, UpTo
  <2> QED BY <2>1, <2>2
<1>5. \A k \in 1 .. n : k # 0 BY <1>0
<1> QED BY <1>4, <1>5

\* The hash above is the pair of the hash here and its sibling, or of itself.
LEMMA HashAbove ==
    ASSUME NEW level, Len(level) \in Nat, Len(level) > 1, NEW at \in 0 .. Len(level) - 1
    PROVE  LET above == NextLevel(level)[at \div 2 + 1]
               here  == level[at + 1]
           IN /\ at = Len(level) - 1 /\ Len(level) % 2 = 1 =>
                    above = Node(here, here) /\ ~ (Sibling(at) < Len(level))
              /\ ~ (at = Len(level) - 1 /\ Len(level) % 2 = 1) =>
                    /\ Sibling(at) < Len(level)
                    /\ above = IF at % 2 = 0 THEN Node(here, level[Sibling(at) + 1])
                               ELSE Node(level[Sibling(at) + 1], here)
<1> DEFINE n == Len(level)
           i == at \div 2 + 1
<1>1. at \in Nat /\ n \in Nat /\ i \in 1 .. (n + 1) \div 2 BY DEF n, i
<1>2. NextLevel(level)[i] = Node(level[2 * i - 1], IF 2 * i <= n THEN level[2 * i] ELSE level[2 * i - 1])
  <2> HIDE DEF i
  <2> QED BY <1>1 DEF NextLevel, n
<1> HIDE DEF n
<1>3. ASSUME at % 2 = 0 PROVE 2 * i - 1 = at + 1 /\ 2 * i = at + 2 /\ Sibling(at) = at + 1
  BY <1>1, <1>3 DEF Sibling
<1>4. ASSUME at % 2 # 0 PROVE 2 * i - 1 = at /\ 2 * i = at + 1 /\ Sibling(at) = at - 1
  BY <1>1, <1>4 DEF Sibling
<1> HIDE DEF i
<1>5. at < n BY DEF n
<1>6. ASSUME at = n - 1, n % 2 = 1
      PROVE  NextLevel(level)[i] = Node(level[at + 1], level[at + 1]) /\ ~ (Sibling(at) < n)
  <2>1. at % 2 = 0 BY <1>1, <1>6
  <2>2. ~ (2 * i <= n) /\ 2 * i - 1 = at + 1 /\ Sibling(at) = at + 1 BY <1>1, <1>3, <1>6, <2>1
  <2> QED BY <1>1, <1>2, <1>6, <2>2
<1>7. ASSUME ~ (at = n - 1 /\ n % 2 = 1)
      PROVE  /\ Sibling(at) < n
             /\ NextLevel(level)[i] = IF at % 2 = 0 THEN Node(level[at + 1], level[Sibling(at) + 1])
                                      ELSE Node(level[Sibling(at) + 1], level[at + 1])
  <2>1. CASE at % 2 = 0
    <3>1. at # n - 1 BY <1>1, <1>7, <2>1
    <3>2. 2 * i <= n /\ 2 * i - 1 = at + 1 /\ 2 * i = at + 2 /\ Sibling(at) = at + 1 /\ at + 1 < n
      BY <1>1, <1>3, <1>5, <2>1, <3>1
    <3>3. Sibling(at) + 1 = 2 * i BY <1>1, <3>2
    <3> QED BY <1>2, <2>1, <3>2, <3>3
  <2>2. CASE at % 2 # 0
    <3>1. 2 * i - 1 = at /\ 2 * i = at + 1 /\ Sibling(at) = at - 1 BY <1>4, <2>2
    <3>2. 2 * i <= n /\ Sibling(at) + 1 = 2 * i - 1 /\ Sibling(at) < n BY <1>1, <1>5, <3>1
    <3> QED BY <1>2, <2>2, <3>1, <3>2
  <2> QED BY <2>1, <2>2
<1> QED BY <1>6, <1>7 DEF n, i

LEMMA BesideEachOther ==
    ASSUME data \in Seq(Data), Len(data) \in 1 .. MaxLeaves,
           NEW index \in 0 .. Len(data) - 1, NEW d
    PROVE  \E c : ClimbsBeside(Levels(data), index, d, c)
<1> DEFINE tree == Levels(data)
           n == Len(tree)
<1>0. DOMAIN data = 1 .. Len(data) /\ Len(data) \in Nat /\ index \in Nat OBVIOUS
<1>1. TreeOver(Levels(data), data) BY <1>0, LevelsAre
<1>2. PICK f : StepsTo(index, f) BY <1>0, <1>1, ProofSteps
<1>3. /\ Len(LevelsBelow) = n - 1 /\ \A k \in 1 .. n - 1 : LevelsBelow[k] = tree[k]
  BY <1>1, BelowAre
<1>4. /\ n \in 1 .. MaxLeaves /\ n \in Nat /\ MaxLeaves \in Nat
      /\ \A k \in 1 .. n - 1 : Len(tree[k]) \in Nat /\ Len(tree[k]) > 1
                               /\ tree[k + 1] = NextLevel(tree[k])
  <2>1. n \in 1 .. MaxLeaves /\ n \in Nat /\ MaxLeaves \in Nat
    BY <1>1, LightClientAssumption DEF TreeOver
  <2>2. \A k \in 1 .. n - 1 : k \in 1 .. n BY <2>1
  <2> QED BY <1>1, <2>1, <2>2 DEF TreeOver
<1>5. \A k \in 1 .. n : Position(index)[k] \in 0 .. Len(tree[k]) - 1
  BY <1>0, <1>1, OnTheLevel
<1> DEFINE c == [k \in 0 .. n - 1 |-> Climbed(d, f[k].proof)]
<1>6. /\ f[0] = [proof |-> <<>>, at |-> index] /\ f[n - 1].proof = ProofOf(index)
      /\ \A k \in 1 .. n - 1 : f[k] = Stepped(f[k - 1], tree[k]) /\ f[k - 1] \in Partial
  BY <1>2, <1>3 DEF StepsTo
<1> HIDE DEF n, tree
<1>7. \A k \in 0 .. n - 1 : f[k].at = Position(index)[k + 1]
  <2> DEFINE Good == {k \in 0 .. n - 1 : f[k].at = Position(index)[k + 1]}
  <2>1. 0 \in Good BY <1>0, <1>4, <1>6, PositionIs
  <2>2. ASSUME NEW k \in 0 .. n - 1, k \in Good, k < n - 1 PROVE k + 1 \in Good
    <3>1. /\ k + 1 \in 0 .. n - 1 /\ k + 1 \in 1 .. n - 1 /\ (k + 1) - 1 = k
          /\ k + 1 \in 1 .. MaxLeaves - 1
      BY <1>4, <2>2
    <3>2. f[k + 1].at = f[k].at \div 2
      <4>1. f[k + 1] = Stepped(f[k], tree[k + 1]) BY <1>6, <3>1
      <4> QED BY <4>1 DEF Stepped
    <3>3. Position(index)[(k + 1) + 1] = Position(index)[k + 1] \div 2
      BY <1>0, <3>1, PositionIs
    <3> QED BY <2>2, <3>1, <3>2, <3>3
  <2>3. n - 1 \in Nat BY <1>4
  <2> HIDE DEF Good
  <2>4. 0 .. n - 1 \subseteq Good BY <2>1, <2>2, <2>3, UpTo
  <2> QED BY <2>4 DEF Good
<1>8. \A k \in 0 .. n - 1 : c[k] = Climbed(d, f[k].proof) OBVIOUS
<1> HIDE DEF c
<1>9. c[0] = Leaf(d)
  <2>1. 0 \in 0 .. n - 1 BY <1>4
  <2> QED BY <1>6, <1>8, <2>1, ClimbedNone
<1>10. c[n - 1] = Climbed(d, ProofOf(index))
  <2>1. n - 1 \in 0 .. n - 1 BY <1>4
  <2> QED BY <1>6, <1>8, <2>1
<1>11. ASSUME NEW k \in 1 .. n - 1
       PROVE  LET here  == tree[k][Position(index)[k] + 1]
                  above == tree[k + 1][Position(index)[k + 1] + 1]
              IN IF Alone(tree, index, k) THEN c[k] = c[k - 1]
                 ELSE \/ \E s : c[k] = Node(c[k - 1], s) /\ above = Node(here, s)
                      \/ \E s : c[k] = Node(s, c[k - 1]) /\ above = Node(s, here)
  <2> DEFINE at == Position(index)[k]
             here == tree[k][at + 1]
             above == tree[k + 1][Position(index)[k + 1] + 1]
             side == IF at % 2 = 0 THEN "right" ELSE "left"
             acc == f[k - 1]
             sib == tree[k][Sibling(at) + 1]
             s == [side |-> side, hash |-> sib]
  <2>0. k \in 1 .. n /\ k \in 1 .. MaxLeaves - 1 /\ k \in 0 .. n - 1 /\ k - 1 \in 0 .. n - 1
        /\ (k - 1) + 1 = k
    BY <1>4
  <2>1. Position(index)[k + 1] = at \div 2 BY <1>0, <2>0, PositionIs
  <2>2. acc \in Partial /\ acc.at = at /\ acc.proof \in Seq(StepsOf(LevelsBelow))
    BY <1>6, <1>7, <2>0 DEF Partial
  <2>3. f[k].proof = acc.proof \o Step(tree[k], at, side)
    <3>1. f[k] = Stepped(acc, tree[k]) BY <1>6
    <3> HIDE DEF acc
    <3>2. acc.at = at /\ side = IF acc.at % 2 = 0 THEN "right" ELSE "left" BY <2>2
    <3> HIDE DEF at, side
    <3>3. Stepped(acc, tree[k]).proof = acc.proof \o Step(tree[k], acc.at, side)
      BY <3>2, SteppedIs
    <3> QED BY <3>1, <3>2, <3>3
  <2>4. c[k] = Climbed(d, f[k].proof) /\ c[k - 1] = Climbed(d, acc.proof) BY <1>8, <2>0
  <2>5. /\ at \in 0 .. Len(tree[k]) - 1 /\ Len(tree[k]) \in Nat /\ Len(tree[k]) > 1
        /\ tree[k + 1] = NextLevel(tree[k])
    BY <1>4, <1>5, <2>0
  <2>6. /\ Alone(tree, index, k) => ~ (Sibling(at) < Len(tree[k]))
        /\ ~ Alone(tree, index, k) =>
              /\ Sibling(at) < Len(tree[k])
              /\ above = IF at % 2 = 0 THEN Node(here, sib) ELSE Node(sib, here)
    BY <2>1, <2>5, HashAbove DEF Alone
  <2>7. CASE Alone(tree, index, k)
    <3>1. Step(tree[k], at, side) = <<>> BY <2>6, <2>7 DEF Step
    <3>2. f[k].proof = acc.proof
      <4> HIDE DEF acc
      <4> QED BY <2>2, <2>3, <3>1, ConcatEmptySeq
    <3> QED BY <2>4, <2>7, <3>2
  <2>8. CASE ~ Alone(tree, index, k)
    <3>1. Step(tree[k], at, side) = <<s>> BY <2>6, <2>8 DEF Step
    <3>2. s \in StepsOf(LevelsBelow)
      <4>1. f[k] \in Partial
        <5>1. f[k] = Stepped(acc, LevelsBelow[k]) /\ k \in 1 .. Len(LevelsBelow)
          BY <1>3, <1>6 DEF n, tree
        <5> QED BY <1>1, <2>2, <5>1, SteppedType
      <4>2. f[k].proof \in Seq(StepsOf(LevelsBelow)) BY <4>1 DEF Partial
      <4> HIDE DEF acc, s
      <4>3. /\ Len(acc.proof \o <<s>>) = Len(acc.proof) + 1
            /\ (acc.proof \o <<s>>)[Len(acc.proof) + 1] = s
            /\ Len(acc.proof) \in Nat
        BY <2>2
      <4> QED BY <2>3, <3>1, <4>2, <4>3
    <3>3. acc.proof \o <<s>> = Append(acc.proof, s)
      <4> HIDE DEF acc, s
      <4> QED BY <2>2, <3>2
    <3>4. c[k] = Joined(c[k - 1], s)
      <4> HIDE DEF acc, s
      <4>1. Climbed(d, Append(acc.proof, s)) = Joined(Climbed(d, acc.proof), s)
        BY <2>2, <3>2, ClimbedMore
      <4>2. f[k].proof = Append(acc.proof, s) BY <2>3, <3>1, <3>3
      <4> QED BY <2>4, <4>1, <4>2
    <3>5. CASE at % 2 = 0
      <4>1. c[k] = Node(c[k - 1], sib) BY <3>4, <3>5 DEF Joined
      <4>2. above = Node(here, sib) BY <2>6, <2>8, <3>5
      <4> HIDE DEF sib, above, here
      <4> QED BY <2>8, <4>1, <4>2 DEF above, here
    <3>6. CASE at % 2 # 0
      <4>1. c[k] = Node(sib, c[k - 1]) BY <3>4, <3>6 DEF Joined
      <4>2. above = Node(sib, here) BY <2>6, <2>8, <3>6
      <4> HIDE DEF sib, above, here
      <4> QED BY <2>8, <4>1, <4>2 DEF above, here
    <3> QED BY <3>5, <3>6
  <2> QED BY <2>7, <2>8
<1>12. ClimbsBeside(Levels(data), index, d, c)
  BY <1>5, <1>9, <1>10, <1>11 DEF ClimbsBeside, tree, n
<1> QED BY <1>12

\* A proof climbs to the root from the datum it is for, and from that alone, when
\* every hash on the way up has a sibling; then and only then.
LEMMA ClimbsToRoot ==
    ASSUME data \in Seq(Data), Len(data) \in 1 .. MaxLeaves,
           NEW index \in 0 .. Len(data) - 1, NEW d
    PROVE  Climbed(d, ProofOf(index)) = root
             <=> /\ d = data[index + 1]
                 /\ \A k \in 1 .. Len(Levels(data)) - 1 : ~ Alone(Levels(data), index, k)
<1> DEFINE tree == Levels(data)
           n == Len(tree)
           h(k) == tree[k][Position(index)[k] + 1]
<1>0. DOMAIN data = 1 .. Len(data) /\ Len(data) \in Nat /\ index \in Nat
      /\ index + 1 \in DOMAIN data
  OBVIOUS
<1>1. TreeOver(tree, data) BY <1>0, LevelsAre
<1>2. n \in 1 .. MaxLeaves /\ n \in Nat /\ MaxLeaves \in Nat \ {0}
  BY <1>1, LightClientAssumption DEF TreeOver
<1>3. PICK c : ClimbsBeside(tree, index, d, c) BY BesideEachOther
<1>4. /\ c[0] = Leaf(d) /\ c[n - 1] = Climbed(d, ProofOf(index))
      /\ \A k \in 1 .. n : Position(index)[k] \in 0 .. Len(tree[k]) - 1
  BY <1>3 DEF ClimbsBeside
<1>5. ASSUME NEW k \in 1 .. n - 1
      PROVE  IF Alone(tree, index, k) THEN c[k] = c[k - 1]
             ELSE \/ \E s : c[k] = Node(c[k - 1], s) /\ h(k + 1) = Node(h(k), s)
                  \/ \E s : c[k] = Node(s, c[k - 1]) /\ h(k + 1) = Node(s, h(k))
  BY <1>3 DEF ClimbsBeside
<1>6. root = h(n)
  <2>1. Len(tree[n]) = 1 /\ n \in 1 .. n BY <1>1, <1>2 DEF TreeOver
  <2>2. Position(index)[n] = 0
    <3>1. Position(index)[n] \in 0 .. Len(tree[n]) - 1 BY <1>4, <2>1
    <3>2. Position(index)[n] \in 0 .. 1 - 1 BY <2>1, <3>1
    <3> QED BY <3>2
  <2>3. root = tree[n][1] BY DEF root, Last
  <2> QED BY <2>2, <2>3
<1>7. h(1) = Leaf(data[index + 1])
  <2>1. tree[1] = LeavesOf(data) BY <1>1 DEF TreeOver
  <2>2. Position(index)[1] = index BY <1>0, PositionIs
  <2> QED BY <1>0, <2>1, <2>2 DEF LeavesOf
\* Every hash but those of the leaves is a pair of hashes of the level below.
<1>8. ASSUME NEW m \in 2 .. n, NEW j \in 1 .. Len(tree[m])
      PROVE  \E x, y \in 1 .. Len(tree[m - 1]) : tree[m][j] = Node(tree[m - 1][x], tree[m - 1][y])
  <2> DEFINE a == Len(tree[m - 1])
             y == IF 2 * j <= a THEN 2 * j ELSE 2 * j - 1
  <2>1. m - 1 \in 1 .. n - 1 /\ (m - 1) + 1 = m /\ m - 1 \in 1 .. n BY <1>2
  <2>2. tree[m] = NextLevel(tree[m - 1]) /\ Len(tree[m]) = (a + 1) \div 2 /\ a \in Nat
    BY <1>1, <2>1 DEF TreeOver
  <2>3. tree[m][j] = Node(tree[m - 1][2 * j - 1], tree[m - 1][y])
    <3>1. j \in 1 .. (a + 1) \div 2 BY <2>2
    <3> QED BY <2>2, <3>1 DEF NextLevel
  <2>4. 2 * j - 1 \in 1 .. a /\ y \in 1 .. a
    <3>1. j \in 1 .. (a + 1) \div 2 /\ a \in Nat BY <2>2
    <3> HIDE DEF a
    <3> QED BY <3>1
  <2> HIDE DEF y, a
  <2> QED BY <2>3, <2>4 DEF a
<1> DEFINE InTree(x, k) == \E m \in k .. n : \E j \in 1 .. Len(tree[m]) : x = tree[m][j]
           Clear(k) == \A i \in k .. n - 1 : ~ Alone(tree, index, i)
<1>9. \A k \in 1 .. n : InTree(h(k), k)
  <2> SUFFICES ASSUME NEW k \in 1 .. n PROVE InTree(h(k), k) OBVIOUS
  <2>1. k \in k .. n BY <1>2
  <2>2. Position(index)[k] + 1 \in 1 .. Len(tree[k])
    <3>1. Len(tree[k]) \in Nat BY <1>1 DEF TreeOver
    <3> QED BY <1>4, <3>1
  <2> HIDE DEF tree, n
  <2> QED BY <2>1, <2>2
<1>10. ASSUME NEW x, NEW y, NEW k \in 1 .. n, InTree(Node(x, y), k + 1)
       PROVE  InTree(x, k) /\ InTree(y, k)
  <2>1. PICK m \in k + 1 .. n : \E j \in 1 .. Len(tree[m]) : Node(x, y) = tree[m][j]
    BY <1>10
  <2>2. PICK j \in 1 .. Len(tree[m]) : Node(x, y) = tree[m][j] BY <2>1
  <2>3. m \in 2 .. n /\ m - 1 \in k .. n BY <1>2
  <2>4. PICK u, v \in 1 .. Len(tree[m - 1]) : tree[m][j] = Node(tree[m - 1][u], tree[m - 1][v])
    BY <1>8, <2>3
  <2>5. x = tree[m - 1][u] /\ y = tree[m - 1][v] BY <2>2, <2>4, Hashes
  <2> HIDE DEF tree, n
  <2> QED BY <2>3, <2>5
<1>11. ASSUME NEW x, InTree(Leaf(x), 2) PROVE FALSE
  <2>1. PICK m \in 2 .. n : \E j \in 1 .. Len(tree[m]) : Leaf(x) = tree[m][j] BY <1>11
  <2>2. PICK j \in 1 .. Len(tree[m]) : Leaf(x) = tree[m][j] BY <2>1
  <2> HIDE DEF tree, n
  <2> QED BY <1>8, <2>2, Hashes
<1>12. \A k \in 1 .. n : c[k - 1] = h(k) /\ Clear(k) => c[n - 1] = h(n)
  <2> DEFINE Good == {i \in 0 .. n - 1 : c[n - i - 1] = h(n - i) /\ Clear(n - i) => c[n - 1] = h(n)}
  <2>1. 0 \in Good
    <3>1. n - 0 - 1 = n - 1 /\ n - 0 = n /\ 0 \in 0 .. n - 1 BY <1>2
    <3> HIDE DEF n, tree, h
    <3> QED BY <3>1
  <2>2. ASSUME NEW i \in 0 .. n - 1, i \in Good, i < n - 1 PROVE i + 1 \in Good
    <3> DEFINE k == n - i - 1
    <3>1. /\ k \in 1 .. n - 1 /\ n - (i + 1) - 1 = k - 1 /\ n - (i + 1) = k /\ n - i - 1 = k
          /\ n - i = k + 1 /\ i + 1 \in 0 .. n - 1
      BY <1>2, <2>2
    <3> HIDE DEF k
    <3>2. SUFFICES ASSUME c[k - 1] = h(k), Clear(k) PROVE c[n - 1] = h(n)
      <4> HIDE DEF h, n, Clear, tree
      <4> QED BY <3>1
    <3>3. ~ Alone(tree, index, k)
      <4>1. k \in k .. n - 1 BY <1>2, <3>1
      <4> HIDE DEF tree, n
      <4> QED BY <3>2, <4>1
    <3>4. c[k] = h(k + 1)
      <4> HIDE DEF tree, n, h
      <4> QED BY <1>5, <3>1, <3>2, <3>3
    <3>5. Clear(k + 1)
      <4>1. \A j \in k + 1 .. n - 1 : j \in k .. n - 1 BY <1>2, <3>1
      <4> HIDE DEF tree, n
      <4> QED BY <3>2, <4>1
    <3>6. c[n - i - 1] = h(n - i) /\ Clear(n - i) => c[n - 1] = h(n) BY <2>2
    <3> HIDE DEF tree, n, h, Clear
    <3> QED BY <3>1, <3>4, <3>5, <3>6
  <2>3. n - 1 \in Nat BY <1>2
  <2>4. 0 .. n - 1 \subseteq Good
    <3> HIDE DEF Good, n
    <3> QED BY <2>1, <2>2, <2>3, UpTo
  <2> SUFFICES ASSUME NEW k \in 1 .. n PROVE c[k - 1] = h(k) /\ Clear(k) => c[n - 1] = h(n)
    OBVIOUS
  <2>5. n - k \in 0 .. n - 1 /\ n - (n - k) - 1 = k - 1 /\ n - (n - k) = k BY <1>2
  <2>6. n - k \in Good BY <2>4, <2>5
  <2> HIDE DEF tree, n, h, Clear
  <2> QED BY <2>5, <2>6
<1>13. ASSUME c[n - 1] = h(n), NEW k \in 1 .. n
       PROVE  (c[k - 1] = h(k) /\ Clear(k)) \/ InTree(c[k - 1], k + 1)
  <2> DEFINE Holds(j) == (c[j - 1] = h(j) /\ Clear(j)) \/ InTree(c[j - 1], j + 1)
             Good == {i \in 0 .. n - 1 : Holds(n - i)}
  <2>1. 0 \in Good
    <3>1. n - 0 = n /\ 0 \in 0 .. n - 1 BY <1>2
    <3>2. Clear(n)
      <4>1. n .. n - 1 = {} BY <1>2
      <4> HIDE DEF tree, n
      <4> QED BY <4>1
    <3>3. Holds(n) BY <1>13, <3>2
    <3> HIDE DEF n, tree, h, Holds
    <3> QED BY <3>1, <3>3
  <2>2. ASSUME NEW i \in 0 .. n - 1, i \in Good, i < n - 1 PROVE i + 1 \in Good
    <3> DEFINE j == n - i - 1
    <3>1. /\ j \in 1 .. n - 1 /\ n - (i + 1) = j /\ n - i = j + 1 /\ i + 1 \in 0 .. n - 1
          /\ (j + 1) - 1 = j /\ j + 1 \in 1 .. n /\ j \in 1 .. n
      BY <1>2, <2>2
    <3> HIDE DEF j
    <3>2. (c[j] = h(j + 1) /\ Clear(j + 1)) \/ InTree(c[j], j + 2)
      <4>1. Holds(j + 1)
        <5> HIDE DEF Holds, n
        <5> QED BY <2>2, <3>1
      <4>2. (j + 1) + 1 = j + 2 BY <3>1
      <4> HIDE DEF h, Clear, InTree, tree, n
      <4> QED BY <3>1, <4>1, <4>2
    <3>3. Holds(j)
      <4>1. CASE Alone(tree, index, j)
        <5>1. c[j] = c[j - 1]
          <6> HIDE DEF tree, n, h
          <6> QED BY <1>5, <3>1, <4>1
        <5>2. InTree(h(j + 1), j + 1)
          <6> HIDE DEF tree, n, h, InTree
          <6> QED BY <1>9, <3>1
        <5>3. InTree(c[j], j + 2) => InTree(c[j], j + 1)
          <6>1. \A m \in j + 2 .. n : m \in j + 1 .. n BY <1>2, <3>1
          <6> HIDE DEF tree, n
          <6> QED BY <6>1
        <5>4. InTree(c[j], j + 1)
          <6> HIDE DEF tree, n, h, InTree, Clear
          <6> QED BY <3>2, <5>2, <5>3
        <5> HIDE DEF tree, n, h, InTree, Clear
        <5> QED BY <5>1, <5>4
      <4>2. CASE ~ Alone(tree, index, j)
        <5>1. \/ \E s : c[j] = Node(c[j - 1], s) /\ h(j + 1) = Node(h(j), s)
              \/ \E s : c[j] = Node(s, c[j - 1]) /\ h(j + 1) = Node(s, h(j))
          <6> HIDE DEF tree, n, h
          <6> QED BY <1>5, <3>1, <4>2
        <5>2. CASE c[j] = h(j + 1) /\ Clear(j + 1)
          <6>1. c[j - 1] = h(j)
            <7> HIDE DEF tree, n, h
            <7> QED BY <5>1, <5>2, Hashes
          <6>2. Clear(j)
            <7>1. \A i2 \in j .. n - 1 : i2 = j \/ i2 \in j + 1 .. n - 1 BY <1>2, <3>1
            <7> HIDE DEF tree, n
            <7> QED BY <4>2, <5>2, <7>1
          <6> HIDE DEF tree, n, h, InTree, Clear
          <6> QED BY <6>1, <6>2
        <5>3. CASE InTree(c[j], j + 2)
          <6>1. \E s : c[j] = Node(c[j - 1], s) \/ c[j] = Node(s, c[j - 1])
            <7> HIDE DEF tree, n, h
            <7> QED BY <5>1
          <6>2. PICK s : c[j] = Node(c[j - 1], s) \/ c[j] = Node(s, c[j - 1]) BY <6>1
          <6>3. (j + 1) + 1 = j + 2 /\ j + 1 \in 1 .. n BY <3>1
          <6>4. InTree(c[j - 1], j + 1)
            <7> HIDE DEF tree, n, h, InTree, Clear
            <7> QED BY <1>10, <5>3, <6>2, <6>3
          <6> HIDE DEF tree, n, h, InTree, Clear
          <6> QED BY <6>4
        <5> HIDE DEF tree, n, h, InTree, Clear, Holds
        <5> QED BY <3>2, <5>2, <5>3
      <4> QED BY <4>1, <4>2
    <3> HIDE DEF Holds, n
    <3> QED BY <3>1, <3>3
  <2>3. n - 1 \in Nat BY <1>2
  <2>4. 0 .. n - 1 \subseteq Good
    <3> HIDE DEF Good, n
    <3> QED BY <2>1, <2>2, <2>3, UpTo
  <2>5. n - k \in 0 .. n - 1 /\ n - (n - k) = k BY <1>2
  <2>6. Holds(k)
    <3> HIDE DEF Holds, n
    <3> QED BY <2>4, <2>5
  <2> QED BY <2>6
<1>14. 1 \in 1 .. n /\ 1 - 1 = 0 /\ 1 + 1 = 2 BY <1>2
<1>15. d = data[index + 1] /\ Clear(1) => c[n - 1] = h(n)
  <2>1. d = data[index + 1] => c[0] = h(1) BY <1>4, <1>7
  <2>2. c[1 - 1] = h(1) /\ Clear(1) => c[n - 1] = h(n) BY <1>12, <1>14
  <2> HIDE DEF tree, n, h, Clear
  <2> QED BY <1>14, <2>1, <2>2
<1>16. c[n - 1] = h(n) => d = data[index + 1] /\ Clear(1)
  <2> SUFFICES ASSUME c[n - 1] = h(n) PROVE d = data[index + 1] /\ Clear(1) OBVIOUS
  <2>1. (c[1 - 1] = h(1) /\ Clear(1)) \/ InTree(c[1 - 1], 1 + 1) BY <1>13, <1>14
  <2>2. ~ InTree(c[0], 2) BY <1>4, <1>11
  <2>3. c[0] = h(1) /\ Clear(1)
    <3> HIDE DEF tree, n, h, Clear, InTree
    <3> QED BY <1>14, <2>1, <2>2
  <2> QED BY <1>4, <1>7, <2>3, Hashes
<1>17. Climbed(d, ProofOf(index)) = root <=> c[n - 1] = h(n) BY <1>4, <1>6
<1> HIDE DEF h
<1> QED BY <1>15, <1>16, <1>17

MerkleInv == data \in Seq(Data) /\ Len(data) <= MaxLeaves

LEMMA MerkleStep ==
    ASSUME MerkleInv, [MerkleNext]_data PROVE MerkleInv'
<1>1. ASSUME NEW d \in Data, add(d) PROVE MerkleInv'
  <2>1. Len(data) < MaxLeaves /\ data' = Append(data, d) BY <1>1 DEF add
  <2>2. Append(data, d) \in Seq(Data) /\ Len(Append(data, d)) = Len(data) + 1 /\ Len(data) \in Nat
    BY DEF MerkleInv
  <2> QED BY <2>1, <2>2, LightClientAssumption DEF MerkleInv
<1>2. ASSUME clear PROVE MerkleInv'
  BY <1>2, LightClientAssumption DEF clear, MerkleInv
<1>3. ASSUME UNCHANGED data PROVE MerkleInv'
  BY <1>3 DEF MerkleInv
<1> QED BY <1>1, <1>2, <1>3 DEF MerkleNext

\* The index found is one where the datum is.
LEMMA IndexIs ==
    ASSUME MerkleInv, NEW i \in DOMAIN data
    PROVE  IndexOf(data[i]) \in 0 .. Len(data) - 1 /\ data[IndexOf(data[i]) + 1] = data[i]
<1> DEFINE T == {j \in 0 .. Len(data) - 1 : data[j + 1] = data[i]}
<1>0. Len(data) \in Nat /\ DOMAIN data = 1 .. Len(data) BY DEF MerkleInv
<1>1. i - 1 \in T /\ T \subseteq Nat BY <1>0
<1>2. PICK j \in T : \A m \in T : j <= m
  <2> HIDE DEF T
  <2> QED BY <1>1, Least
<1>3. j \in 0 .. Len(data) - 1 /\ data[j + 1] = data[i] OBVIOUS
<1>4. ASSUME NEW m \in 1 .. j PROVE data[m] # data[i]
  <2>1. m - 1 \in 0 .. Len(data) - 1 /\ (m - 1) + 1 = m /\ ~ (j <= m - 1) BY <1>0, <1>3
  <2>2. m - 1 \notin T
    <3> HIDE DEF T
    <3> QED BY <1>2, <2>1
  <2> QED BY <2>1, <2>2
<1> HIDE DEF T
<1>5. \E k \in 0 .. Len(data) - 1 :
         data[k + 1] = data[i] /\ \A m \in 1 .. k : data[m] # data[i]
  BY <1>3, <1>4
<1> QED BY <1>5 DEF IndexOf

LEMMA ProofsShowIt ==
    ASSUME MerkleInv PROVE ProofsShowTheirDatum
<1> SUFFICES ASSUME NEW i \in DOMAIN data
             PROVE  /\ verify(data[i], getProof(data[i])) <=> ~ Unpaired(IndexOf(data[i]))
                    /\ \A d \in Data \ {data[i]} : ~ verify(d, getProof(data[i]))
  BY DEF ProofsShowTheirDatum
<1> DEFINE index == IndexOf(data[i])
<1>1. index \in 0 .. Len(data) - 1 /\ data[index + 1] = data[i] BY IndexIs
<1>2. data \in Seq(Data) /\ Len(data) \in 1 .. MaxLeaves
  <2>1. Len(data) \in Nat /\ i \in 1 .. Len(data) BY DEF MerkleInv
  <2> QED BY <2>1, LightClientAssumption DEF MerkleInv
<1> HIDE DEF index
<1>3. ASSUME NEW d
      PROVE  verify(d, ProofOf(index)) <=> d = data[i] /\ ~ Unpaired(index)
  <2>1. Climbed(d, ProofOf(index)) = root
          <=> /\ d = data[i]
              /\ \A k \in 1 .. Len(Levels(data)) - 1 : ~ Alone(Levels(data), index, k)
    BY <1>1, <1>2, ClimbsToRoot
  <2>2. ~ Unpaired(index) <=> \A k \in 1 .. Len(Levels(data)) - 1 : ~ Alone(Levels(data), index, k)
    BY DEF Unpaired, Alone
  <2> QED BY <2>1, <2>2 DEF verify
<1>4. getProof(data[i]) = ProofOf(index) BY DEF getProof, index
<1>5. verify(data[i], ProofOf(index)) <=> ~ Unpaired(index) BY <1>3
<1>6. \A d \in Data \ {data[i]} : ~ verify(d, ProofOf(index)) BY <1>3
<1> QED BY <1>4, <1>5, <1>6 DEF index

\* The proof a tree gives for a datum shows that datum and no other, exactly when
\* no hash on the way up was paired with itself: for trees of any size
\* (getProof, verify).
THEOREM ProofsShow == NetworkSpec => []ProofsShowTheirDatum
<1>1. NetworkInit => MerkleInv
  BY LightClientAssumption DEF NetworkInit, MerkleInit, MerkleInv
<1>2. MerkleInv /\ [NetworkNext]_allVars => MerkleInv' BY PartsMove, MerkleStep
<1>3. MerkleInv => ProofsShowTheirDatum BY ProofsShowIt
<1> QED BY <1>1, <1>2, <1>3, PTL DEF NetworkSpec
=============================================================================
