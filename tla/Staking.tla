------------------------------ MODULE Staking ------------------------------
(***************************************************************************)
(* runtime/staking.js (StakingManager): stakes, delegations, the registry  *)
(* of validators and the requests to unstake.                              *)
(*                                                                         *)
(* A request is told by its number.  Left out: rewards, which are          *)
(* fractions nothing but queries reads, and the setters of the parameters. *)
(***************************************************************************)
EXTENDS Integers, Sequences, FiniteSets, Functions

CONSTANTS
    Stakers,              \* validator addresses
    Delegators,           \* delegator addresses
    StakeAmounts,         \* amounts of a call
    minimum_stake, validator_requirement,
    MaxStaked,            \* bound on the total
    MaxRequests           \* bound on the requests to unstake

ASSUME StakingAssumption ==
    /\ IsFiniteSet(Stakers) /\ StakeAmounts \subseteq Nat
    /\ minimum_stake \in Nat \ {0} /\ validator_requirement \in Nat \ {0}
    /\ MaxStaked \in Nat /\ MaxRequests \in Nat

VARIABLES
    staked_amount,       \* of each validator
    total_staked,
    delegations,         \* of each validator, by delegator
    validator_registry,  \* the registered validators
    unstaking_requests,  \* validator, amount and completed of each
    stake_requests,      \* of each validator, the numbers of its open requests
    undelegated          \* validators that lost a delegation while registered

stakingVars == <<staked_amount, total_staked, delegations, validator_registry,
                 unstaking_requests, stake_requests, undelegated>>

StakingInit ==
    /\ staked_amount = [v \in Stakers |-> 0] /\ total_staked = 0
    /\ delegations = [v \in Stakers |-> [d \in Delegators |-> 0]]
    /\ validator_registry = {}
    /\ unstaking_requests = <<>> /\ stake_requests = [v \in Stakers |-> {}]
    /\ undelegated = {}

stake(v, n) ==
    /\ n >= minimum_stake /\ total_staked + n <= MaxStaked
    /\ staked_amount' = [staked_amount EXCEPT ![v] = @ + n]
    /\ total_staked' = total_staked + n
    /\ validator_registry' = IF staked_amount'[v] >= validator_requirement
                             THEN validator_registry \cup {v} ELSE validator_registry
    /\ UNCHANGED <<delegations, unstaking_requests, stake_requests, undelegated>>

\* Mutant: the validator stays registered whatever it has left.
Unregistered_Never(v, left) == validator_registry

\* The registry once `left` is what the validator has.
Unregistered(v, left) ==
    IF left < validator_requirement THEN validator_registry \ {v} ELSE validator_registry

\* Anyone may ask, for what others delegated too.
unstake(v, n) ==
    /\ staked_amount[v] >= n /\ Len(unstaking_requests) < MaxRequests
    /\ staked_amount' = [staked_amount EXCEPT ![v] = @ - n]
    /\ total_staked' = total_staked - n
    /\ validator_registry' = Unregistered(v, staked_amount[v] - n)
    /\ undelegated' = undelegated \cap validator_registry'
    /\ unstaking_requests' = Append(unstaking_requests,
           [validator_address |-> v, amount |-> n, completed |-> FALSE])
    /\ stake_requests' = [stake_requests EXCEPT ![v] = @ \cup {Len(unstaking_requests) + 1}]
    /\ UNCHANGED delegations

\* The requests whose time has come are those up to the n-th: they are asked for
\* in the order of time.
process_unstaking_requests(n) ==
    /\ n \in DOMAIN unstaking_requests
    /\ unstaking_requests' = [i \in DOMAIN unstaking_requests |->
           [unstaking_requests[i] EXCEPT !.completed = @ \/ i <= n]]
    /\ stake_requests' = [v \in Stakers |-> {i \in stake_requests[v] : i > n}]
    /\ UNCHANGED <<staked_amount, total_staked, delegations, validator_registry, undelegated>>

delegate(v, d, n) ==
    /\ n >= minimum_stake /\ v \in validator_registry /\ total_staked + n <= MaxStaked
    /\ delegations' = [delegations EXCEPT ![v][d] = @ + n]
    /\ staked_amount' = [staked_amount EXCEPT ![v] = @ + n]
    /\ total_staked' = total_staked + n
    /\ UNCHANGED <<validator_registry, unstaking_requests, stake_requests, undelegated>>

\* The registry is not asked, and the stake may fall below zero when what was
\* delegated has been unstaked.
undelegate(v, d, n) ==
    /\ delegations[v][d] > 0 /\ delegations[v][d] >= n
    /\ delegations' = [delegations EXCEPT ![v][d] = @ - n]
    /\ staked_amount' = [staked_amount EXCEPT ![v] = @ - n]
    /\ total_staked' = total_staked - n
    /\ undelegated' = IF v \in validator_registry THEN undelegated \cup {v} ELSE undelegated
    /\ UNCHANGED <<validator_registry, unstaking_requests, stake_requests>>

StakingNext ==
    \/ \E v \in Stakers, n \in StakeAmounts :
          \/ stake(v, n) \/ unstake(v, n)
          \/ \E d \in Delegators : delegate(v, d, n) \/ undelegate(v, d, n)
    \/ \E n \in DOMAIN unstaking_requests : process_unstaking_requests(n)

StakingSpec == StakingInit /\ [][StakingNext]_stakingVars

-----------------------------------------------------------------------------
(* Properties *)

\* The total is the sum of the stakes; whoever has the required stake is
\* registered, and of the registered only one that lost a delegation has less
\* (stake, unstake, delegate, undelegate); the open requests of a stake are those of
\* the common list that are not completed (process_unstaking_requests).
StakingBooks ==
    /\ total_staked = SumFunctionOnSet(staked_amount, Stakers)
    /\ \A v \in Stakers :
          /\ staked_amount[v] >= validator_requirement => v \in validator_registry
          /\ v \in validator_registry \ undelegated => staked_amount[v] >= validator_requirement
          /\ stake_requests[v] = {i \in DOMAIN unstaking_requests :
                                     /\ unstaking_requests[i].validator_address = v
                                     /\ ~unstaking_requests[i].completed}
=============================================================================
