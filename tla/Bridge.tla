------------------------------- MODULE Bridge -------------------------------
(***************************************************************************)
(* core/bridge.js (CrossChainBridge): transfers, the confirmations of the  *)
(* relayers, failure and timeout.                                          *)
(*                                                                         *)
(* A transfer is an object, numbered in the order of transfer_history.     *)
(* Its id is a hash of parties, amount and millisecond: two of the same    *)
(* kind in one millisecond share an id, and the maps hold the later one.   *)
(*                                                                         *)
(* Left out: amounts, fees and limits (no later decision reads them), the  *)
(* contract addresses, and confirmations with a bad signature, which throw *)
(* before anything changes.                                                *)
(***************************************************************************)
EXTENDS Integers, Sequences, FiniteSets

CONSTANTS
    Relayers,       \* addresses of relayers
    TransferIds,    \* ids of transfers
    MaxThreshold,   \* bound on relayer_threshold
    MaxTransfers,   \* bound on the transfers
    MaxFailures     \* bound on the entries of failed_transfers

ASSUME BridgeAssumption ==
    /\ IsFiniteSet(Relayers) /\ MaxThreshold \in Nat \ {0}
    /\ MaxTransfers \in Nat /\ MaxFailures \in Nat

VARIABLES
    relayers,
    relayer_threshold,
    transfer_history,    \* the transfers: id, status, relayer_confirmations
    pending_transfers,   \* of each id, the number of its transfer, or 0
    completed_transfers, \* likewise
    failed_transfers,    \* numbers of transfers, one may be there twice
    overdue,             \* transfers whose timeout has passed
    this_ms              \* ids given out in the current millisecond

transferVars == <<transfer_history, pending_transfers, completed_transfers, failed_transfers>>
bridgeVars == <<relayers, relayer_threshold, transferVars, overdue, this_ms>>

BridgeInit ==
    /\ relayers = {} /\ relayer_threshold \in 1 .. MaxThreshold
    /\ transfer_history = <<>>
    /\ pending_transfers = [id \in TransferIds |-> 0]
    /\ completed_transfers = [id \in TransferIds |-> 0]
    /\ failed_transfers = <<>> /\ overdue = {} /\ this_ms = {}

add_relayer(r) ==
    /\ relayers' = relayers \cup {r}
    /\ UNCHANGED <<relayer_threshold, transferVars, overdue, this_ms>>

\* Its confirmations stay, and the threshold may now be out of reach.
remove_relayer(r) ==
    /\ relayers' = relayers \ {r}
    /\ UNCHANGED <<relayer_threshold, transferVars, overdue, this_ms>>

\* Nothing completes that has enough confirmations for a lower threshold.
set_relayer_threshold(n) ==
    /\ n >= 1 /\ n <= Cardinality(relayers)
    /\ relayer_threshold' = n
    /\ UNCHANGED <<relayers, transferVars, overdue, this_ms>>

initiate_transfer(id) ==
    /\ Len(transfer_history) < MaxTransfers
    /\ Cardinality(relayers) >= relayer_threshold
    /\ id \in this_ms \/ \A t \in DOMAIN transfer_history : transfer_history[t].id # id
    /\ transfer_history' = Append(transfer_history,
           [id |-> id, status |-> "initiated", relayer_confirmations |-> {}])
    /\ pending_transfers' = [pending_transfers EXCEPT ![id] = Len(transfer_history) + 1]
    /\ this_ms' = this_ms \cup {id}
    /\ UNCHANGED <<relayers, relayer_threshold, completed_transfers, failed_transfers, overdue>>

\* Mutant: a relayer that has confirmed may confirm again.
Confirmable_Again(r, id) == pending_transfers[id] # 0 /\ r \in relayers

Confirmable(r, id) ==
    /\ pending_transfers[id] # 0 /\ r \in relayers
    /\ \A c \in transfer_history[pending_transfers[id]].relayer_confirmations : c.relayer # r

\* Mutant: completed without being taken from the pending ones.
Completes_Pending(id) ==
    /\ completed_transfers' = [completed_transfers EXCEPT ![id] = pending_transfers[id]]
    /\ UNCHANGED pending_transfers

\* _complete_transfer, but for the status.
Completes(id) ==
    /\ completed_transfers' = [completed_transfers EXCEPT ![id] = pending_transfers[id]]
    /\ pending_transfers' = [pending_transfers EXCEPT ![id] = 0]

\* A confirmation is numbered, as the code's list of them does.
confirm_transfer(r, id) ==
    /\ Confirmable(r, id)
    /\ LET t     == pending_transfers[id]
           given == transfer_history[t].relayer_confirmations
           now   == given \cup {[relayer |-> r, nth |-> Cardinality(given) + 1]}
           done  == Cardinality(now) >= relayer_threshold
       IN /\ transfer_history' = [transfer_history EXCEPT
                 ![t].relayer_confirmations = now,
                 ![t].status = IF done THEN "completed" ELSE @]
          /\ IF done THEN Completes(id)
                     ELSE UNCHANGED <<pending_transfers, completed_transfers>>
    /\ UNCHANGED <<relayers, relayer_threshold, failed_transfers, overdue, this_ms>>

\* A set of numbers from the least to the greatest.
InOrder(T) ==
    CHOOSE s \in [1 .. Cardinality(T) -> T] : \A i, j \in DOMAIN s : i < j => s[i] < s[j]

\* The transfers T fail, and are listed in the order of their numbers.
Fail(T, failed) ==
    /\ Len(failed_transfers) + Len(failed) <= MaxFailures
    /\ transfer_history' = [t \in DOMAIN transfer_history |->
           IF t \in T THEN [transfer_history[t] EXCEPT !.status = "failed"]
                      ELSE transfer_history[t]]
    /\ failed_transfers' = failed_transfers \o failed
    /\ pending_transfers' = [id \in TransferIds |->
           IF pending_transfers[id] \in T THEN 0 ELSE pending_transfers[id]]
    /\ UNCHANGED <<relayers, relayer_threshold, completed_transfers, overdue, this_ms>>

\* One that has ended already is looked up in the history, where the first one
\* with the id is found; it may have been completed.
fail_transfer(id) ==
    LET named == {t \in DOMAIN transfer_history : transfer_history[t].id = id}
        found == IF pending_transfers[id] # 0 THEN pending_transfers[id]
                 ELSE CHOOSE t \in named : \A u \in named : t <= u
    IN named # {} /\ Fail({found}, <<found>>)

process_transfer_timeout ==
    LET late == {t \in overdue : pending_transfers[transfer_history[t].id] = t}
    IN /\ late # {}
       /\ Fail(late, InOrder(late))

\* The clock: a millisecond passes, or the timeout of some transfers.
Later ==
    /\ this_ms # {} /\ this_ms' = {}
    /\ UNCHANGED <<relayers, relayer_threshold, transferVars, overdue>>

TimeoutPasses ==
    /\ \E n \in DOMAIN transfer_history \ overdue :
          overdue' = overdue \cup 1 .. n
    /\ this_ms' = {}
    /\ UNCHANGED <<relayers, relayer_threshold, transferVars>>

BridgeNext ==
    \/ \E r \in Relayers : add_relayer(r) \/ remove_relayer(r)
    \/ \E n \in 1 .. MaxThreshold : set_relayer_threshold(n)
    \/ \E id \in TransferIds :
          \/ initiate_transfer(id) \/ fail_transfer(id)
          \/ \E r \in Relayers : confirm_transfer(r, id)
    \/ process_transfer_timeout \/ Later \/ TimeoutPasses

BridgeSpec == BridgeInit /\ [][BridgeNext]_bridgeVars

-----------------------------------------------------------------------------
(* Properties *)

\* A transfer is under way exactly while its id leads to it among the pending
\* ones, or it lost its id to a later one; what has failed is listed as failed,
\* and what is listed as completed was completed, if it did not fail since
\* (confirm_transfer, fail_transfer, process_transfer_timeout).
BridgeBooks ==
    \A t \in DOMAIN transfer_history :
        LET id == transfer_history[t].id
            st == transfer_history[t].status
            listed == \E i \in DOMAIN failed_transfers : failed_transfers[i] = t
        IN /\ pending_transfers[id] = t => st = "initiated"
           /\ st = "initiated" => \/ pending_transfers[id] = t
                                  \/ \E u \in DOMAIN transfer_history :
                                        u > t /\ transfer_history[u].id = id
           /\ st = "failed" <=> listed
           /\ completed_transfers[id] = t => st \in {"completed", "failed"}
           /\ st = "completed" => completed_transfers[id] >= t

\* A transfer completes once, out of the pending state, by as many different
\* relayers as the threshold asks for at that moment, the last of them still a
\* relayer (confirm_transfer); one that failed never completes.
CompletedByRelayers ==
    [][\A t \in DOMAIN transfer_history :
          transfer_history'[t].status = "completed" /\ transfer_history[t].status # "completed"
            => LET given == transfer_history'[t].relayer_confirmations
                   who   == {c.relayer : c \in given}
               IN /\ transfer_history[t].status = "initiated"
                  /\ Cardinality(who) >= relayer_threshold
                  /\ \E c \in given : c.nth = Cardinality(given) /\ c.relayer \in relayers]_bridgeVars
=============================================================================
