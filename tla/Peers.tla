------------------------------- MODULE Peers -------------------------------
(***************************************************************************)
(* networking/peer.js (PeerManager): peers, their connections, and the     *)
(* counters kept beside them.  connect_peer and ping_peers await; what     *)
(* follows the await acts on the Peer object, which may have been removed  *)
(* meanwhile.                                                              *)
(*                                                                         *)
(* There is one Peer object for each node id, which the caller may add     *)
(* again.  Left out: latency, times and failure reasons, discovery (a      *)
(* placeholder), and the lists nothing consults.  The callbacks do not     *)
(* throw.                                                                  *)
(***************************************************************************)
EXTENDS Integers, Sequences, FiniteSets, SequencesExt

CONSTANTS
    PeerIds,      \* node ids of the peers
    MaxConnects,  \* bound on the calls of connect_peer in flight for a peer
    MaxDrift      \* bound on how far a counter falls below zero

ASSUME PeersAssumption ==
    IsFiniteSet(PeerIds) /\ MaxConnects \in Nat /\ MaxDrift \in Nat

VARIABLES
    is_connected,       \* Peer.is_connected
    peers,              \* PeerManager.peers: node ids, in the order they were added
    active_connections, \* node ids
    peer_stats,         \* stats.total_peers, connected_peers, disconnected_peers
    connecting,         \* calls of connect_peer that await, for each peer
    pinging,            \* peers that the run of ping_peers has still to ping
    zeroed              \* initialize was called while there were peers

peersVars == <<is_connected, peers, active_connections, peer_stats, connecting,
               pinging, zeroed>>

NoPeers == [total |-> 0, connected |-> 0, disconnected |-> 0]
Registered(p) == \E i \in DOMAIN peers : peers[i] = p

PeersInit ==
    /\ is_connected \in [PeerIds -> BOOLEAN]
    /\ peers = <<>> /\ active_connections = {} /\ peer_stats = NoPeers
    /\ connecting = [p \in PeerIds |-> 0] /\ pinging = <<>> /\ zeroed = FALSE

\* The counters start again, the peers stay.
PeerManager_initialize ==
    /\ peer_stats' = NoPeers
    /\ zeroed' = (zeroed \/ peers # <<>>)
    /\ UNCHANGED <<is_connected, peers, active_connections, connecting, pinging>>

\* The counters change by n for a peer in its present state.
Counted(p, n) ==
    [total |-> peer_stats.total + n,
     connected |-> peer_stats.connected + IF is_connected[p] THEN n ELSE 0,
     disconnected |-> peer_stats.disconnected + IF is_connected[p] THEN 0 ELSE n]

WithinDrift(stats) == stats.connected >= -MaxDrift /\ stats.disconnected >= -MaxDrift

\* A peer that comes connected gets no active connection.
PeerManager_add_peer(p) ==
    /\ ~Registered(p)
    /\ peers' = Append(peers, p)
    /\ peer_stats' = Counted(p, 1)
    /\ UNCHANGED <<is_connected, active_connections, connecting, pinging, zeroed>>

\* Mutant: only connected peers are counted out.
PeerManager_remove_peer_Keeps(p) ==
    /\ WithinDrift(Counted(p, -1))
    /\ \E i \in DOMAIN peers : peers[i] = p /\ peers' = RemoveAt(peers, i)
    /\ peer_stats' = [Counted(p, -1) EXCEPT !.disconnected = peer_stats.disconnected]
    /\ active_connections' =
           IF is_connected[p] THEN active_connections \ {p} ELSE active_connections
    /\ UNCHANGED <<is_connected, connecting, pinging, zeroed>>

\* The removed peer stays connected, if it is.
PeerManager_remove_peer(p) ==
    /\ WithinDrift(Counted(p, -1))
    /\ \E i \in DOMAIN peers : peers[i] = p /\ peers' = RemoveAt(peers, i)
    /\ peer_stats' = Counted(p, -1)
    /\ active_connections' =
           IF is_connected[p] THEN active_connections \ {p} ELSE active_connections
    /\ UNCHANGED <<is_connected, connecting, pinging, zeroed>>

connect_peer(p) ==
    /\ Registered(p) /\ ~is_connected[p]
    /\ connecting[p] < MaxConnects
    /\ connecting' = [connecting EXCEPT ![p] = @ + 1]
    /\ UNCHANGED <<is_connected, peers, active_connections, peer_stats, pinging, zeroed>>

\* After the await nothing asks whether the peer is still there, or connected.
_establish_connection(p) ==
    /\ connecting[p] > 0
    /\ connecting' = [connecting EXCEPT ![p] = @ - 1]
    /\ is_connected' = [is_connected EXCEPT ![p] = TRUE]
    /\ active_connections' = active_connections \cup {p}
    /\ UNCHANGED <<peers, peer_stats, pinging, zeroed>>

disconnect_peer(p) ==
    /\ Registered(p) /\ is_connected[p]
    /\ is_connected' = [is_connected EXCEPT ![p] = FALSE]
    /\ active_connections' = active_connections \ {p}
    /\ UNCHANGED <<peers, peer_stats, connecting, pinging, zeroed>>

\* The peers of the moment are pinged one after the other.
ping_peers ==
    /\ pinging = <<>> /\ peers # <<>>
    /\ pinging' = peers
    /\ UNCHANGED <<is_connected, peers, active_connections, peer_stats, connecting, zeroed>>

_send_ping(ok) ==
    /\ pinging # <<>>
    /\ LET p == Head(pinging) IN
       /\ is_connected' = [is_connected EXCEPT ![p] = ok]
       /\ active_connections' =
              IF ~ok THEN active_connections \ {p}
              ELSE IF is_connected[p] THEN active_connections
              ELSE active_connections \cup {p}
    /\ pinging' = Tail(pinging)
    /\ UNCHANGED <<peers, peer_stats, connecting, zeroed>>

\* The total is not counted again.
update_statistics ==
    /\ LET on == Cardinality({i \in DOMAIN peers : is_connected[peers[i]]})
       IN peer_stats' = [peer_stats EXCEPT !.connected = on, !.disconnected = Len(peers) - on]
    /\ UNCHANGED <<is_connected, peers, active_connections, connecting, pinging, zeroed>>

PeersNext ==
    \/ \E p \in PeerIds :
          \/ PeerManager_add_peer(p) \/ PeerManager_remove_peer(p)
          \/ connect_peer(p) \/ _establish_connection(p) \/ disconnect_peer(p)
    \/ PeerManager_initialize \/ ping_peers \/ update_statistics
    \/ \E ok \in BOOLEAN : _send_ping(ok)

PeersSpec == PeersInit /\ [][PeersNext]_peersVars

-----------------------------------------------------------------------------
(* Properties *)

\* However connections come and go between the awaits, and although the connected
\* ones are counted late and may even be counted negative, every peer counts once:
\* as connected or as disconnected, and in the total (add_peer, remove_peer,
\* update_statistics), unless initialize forgot some.
EveryPeerCountsOnce ==
    ~zeroed => /\ peer_stats.total = Len(peers)
               /\ peer_stats.connected + peer_stats.disconnected = peer_stats.total
=============================================================================
