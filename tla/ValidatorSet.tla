---------------------------- MODULE ValidatorSet ----------------------------
(***************************************************************************)
(* consensus/validator.js (Validator, ValidatorManager) and the slashing   *)
(* of consensus/slashing.js that works on it: who is registered, in which  *)
(* of the four sets, and with how much stake.                              *)
(*                                                                         *)
(* A Validator object belongs to its caller: it keeps stake, status and    *)
(* jail time when it is unregistered, and may be registered again.  The    *)
(* clock ends a jail time.  Of the slash events their number is kept.      *)
(*                                                                         *)
(* The check for inactivity asks the blockchain it was given for           *)
(* get_height(), a method that core/blockchain.js does not have.  With     *)
(* that blockchain, or none, it throws before the first slash.             *)
(*                                                                         *)
(* Left out: rewards and scores, which nothing here reads, and the list of *)
(* penalties of SlashingManager, which only queries read.                  *)
(***************************************************************************)
EXTENDS Integers, Sequences, FiniteSets

CONSTANTS
    Addresses,        \* addresses of validators
    Stakes,           \* stakes a validator is given, in units of the slashing
    MinimumStake,     \* minimum_stake, of both managers
    Penalties,        \* penalties that are added to a validator
    MaximumPenalties, \* validator_requirements.maximum_penalties
    InactivityWindow, \* inactivity_window, in blocks
    TellsHeight,      \* the blockchain given to set_blockchain has a get_height
    MaxEvents,        \* bound on the slash events of a validator
    MaxTracked        \* bound on the blocks tracked of a validator

ASSUME ValidatorSetAssumption ==
    /\ Stakes \subseteq Nat /\ Penalties \subseteq Nat \ {0}
    /\ MinimumStake \in Nat /\ MaximumPenalties \in Nat
    /\ InactivityWindow \in Nat \ {0} /\ TellsHeight \in BOOLEAN
    /\ MaxEvents \in Nat /\ MaxTracked \in Nat

VARIABLES
    object,              \* the Validator object of each address
    registered,          \* the keys of ValidatorManager.validators
    active_validators,
    pending_validators,
    inactive_validators,
    jailed_validators,
    slash_events,        \* how many of SlashingManager.slash_events are about each
    activity             \* SlashingManager.validator_activity

objectVars == <<object, registered, active_validators, pending_validators,
                inactive_validators, jailed_validators>>
validatorSetVars == <<objectVars, slash_events, activity>>

Validator_new(s) == [stake |-> s, status |-> "pending", is_jailed |-> FALSE, penalties |-> 0]

ValidatorSetInit ==
    /\ object \in [Addresses -> {Validator_new(s) : s \in Stakes}]
    /\ registered = {} /\ active_validators = {} /\ pending_validators = {}
    /\ inactive_validators = {} /\ jailed_validators = {}
    /\ slash_events = [a \in Addresses |-> 0]
    /\ activity = [a \in Addresses |-> <<>>]

-----------------------------------------------------------------------------
(* ValidatorManager *)

\* Mutant: a validator leaves the set it is expected in only.
_move_Pending(a, set) ==
    /\ active_validators' = IF set = "active" THEN active_validators \cup {a}
                                              ELSE active_validators
    /\ pending_validators' = IF set = "pending" THEN pending_validators \cup {a}
                                                ELSE pending_validators \ {a}
    /\ inactive_validators' = IF set = "inactive" THEN inactive_validators \cup {a}
                                                  ELSE inactive_validators
    /\ jailed_validators' = IF set = "jailed" THEN jailed_validators \cup {a}
                                              ELSE jailed_validators

\* _remove_from_sets, and the addition to one set that follows it.
_move(a, set) ==
    /\ active_validators' = (active_validators \ {a}) \cup (IF set = "active" THEN {a} ELSE {})
    /\ pending_validators' = (pending_validators \ {a}) \cup (IF set = "pending" THEN {a} ELSE {})
    /\ inactive_validators' =
           (inactive_validators \ {a}) \cup (IF set = "inactive" THEN {a} ELSE {})
    /\ jailed_validators' = (jailed_validators \ {a}) \cup (IF set = "jailed" THEN {a} ELSE {})

\* A new object for an address; the registered ones are not replaced by it.
NewValidator(a, s) ==
    /\ a \notin registered
    /\ object' = [object EXCEPT ![a] = Validator_new(s)]
    /\ UNCHANGED <<registered, active_validators, pending_validators, inactive_validators,
                   jailed_validators, slash_events, activity>>

\* The object goes to the pending ones, whatever its status says.
register_validator(a) ==
    /\ a \notin registered
    /\ registered' = registered \cup {a}
    /\ pending_validators' = pending_validators \cup {a}
    /\ UNCHANGED <<object, active_validators, inactive_validators, jailed_validators,
                   slash_events, activity>>

unregister_validator(a) ==
    /\ a \in registered
    /\ registered' = registered \ {a}
    /\ _move(a, "none")
    /\ UNCHANGED <<object, slash_events, activity>>

\* A jail time that has not run out stays.
promote_validator(a) ==
    /\ a \in registered /\ object[a].stake >= MinimumStake
    /\ _move(a, "active")
    /\ object' = [object EXCEPT ![a].status = "active"]
    /\ UNCHANGED <<registered, slash_events, activity>>

demote_validator(a) ==
    /\ a \in registered
    /\ _move(a, "inactive")
    /\ object' = [object EXCEPT ![a].status = "inactive"]
    /\ UNCHANGED <<registered, slash_events, activity>>

jail_validator(a) ==
    /\ a \in registered
    /\ _move(a, "jailed")
    /\ object' = [object EXCEPT ![a].status = "jailed", ![a].is_jailed = TRUE]
    /\ UNCHANGED <<registered, slash_events, activity>>

\* Nothing asks whether the time is over.
unjail_validator(a) ==
    /\ a \in registered
    /\ _move(a, "pending")
    /\ object' = [object EXCEPT ![a].status = "pending", ![a].is_jailed = FALSE]
    /\ UNCHANGED <<registered, slash_events, activity>>

\* The stake of an active validator may be set below the minimum.
update_validator(a, s) ==
    /\ a \in registered /\ object[a].stake # s
    /\ object' = [object EXCEPT ![a].stake = s]
    /\ UNCHANGED <<registered, active_validators, pending_validators, inactive_validators,
                   jailed_validators, slash_events, activity>>

\* Penalties are counted up to the first one above the maximum.
apply_penalty(a, p) ==
    /\ a \in registered
    /\ LET total == object[a].penalties + p
           over  == total > MaximumPenalties
       IN IF over
          THEN /\ _move(a, "jailed")
               /\ object' = [object EXCEPT
                      ![a] = [@ EXCEPT !.penalties = MaximumPenalties + 1,
                                       !.status = "jailed", !.is_jailed = TRUE]]
          ELSE /\ object' = [object EXCEPT ![a].penalties = total]
               /\ UNCHANGED <<active_validators, pending_validators, inactive_validators,
                              jailed_validators>>
    /\ UNCHANGED <<registered, slash_events, activity>>

\* The jail time of a validator runs out.
JailEnds(a) ==
    /\ object[a].is_jailed
    /\ object' = [object EXCEPT ![a].is_jailed = FALSE]
    /\ UNCHANGED <<registered, active_validators, pending_validators, inactive_validators,
                   jailed_validators, slash_events, activity>>

get_active_validators == {a \in active_validators \cap registered : ~object[a].is_jailed}

-----------------------------------------------------------------------------
(* SlashingManager *)

Slashed(a, rate) == object[a].stake - (object[a].stake * rate) \div 100

Slash(S, rate) ==
    /\ \A a \in S : slash_events[a] < MaxEvents
    /\ object' = [a \in Addresses |->
           IF a \in S THEN [object[a] EXCEPT !.stake = Slashed(a, rate)] ELSE object[a]]
    /\ slash_events' = [a \in Addresses |-> slash_events[a] + IF a \in S THEN 1 ELSE 0]

\* Mutant: the validator stays registered, however little is left.
SlashAll_Keeps(S, rate) ==
    /\ Slash(S, rate)
    /\ UNCHANGED <<registered, active_validators, pending_validators, inactive_validators,
                   jailed_validators, activity>>

\* apply_slashing_penalty for each of S: what falls below the minimum is
\* unregistered, its object kept by whoever has it.
SlashAll(S, rate) ==
    /\ Slash(S, rate)
    /\ LET out == {a \in S : Slashed(a, rate) < MinimumStake} IN
       /\ registered' = registered \ out
       /\ active_validators' = active_validators \ out
       /\ pending_validators' = pending_validators \ out
       /\ inactive_validators' = inactive_validators \ out
       /\ jailed_validators' = jailed_validators \ out
    /\ UNCHANGED activity

handle_double_signing(a) == a \in registered /\ SlashAll({a}, 10)
handle_downtime(a) == a \in registered /\ SlashAll({a}, 5)

track_validator_activity(a, on) ==
    /\ Len(activity[a]) < MaxTracked
    /\ activity' = [activity EXCEPT ![a] = Append(@, on)]
    /\ UNCHANGED <<objectVars, slash_events>>

\* Active in less than a fifth of the window, even if fewer blocks were tracked.
Inactive(a) ==
    LET first == Len(activity[a]) - InactivityWindow + 1 IN
    /\ activity[a] # <<>>
    /\ 5 * Cardinality({i \in DOMAIN activity[a] : i >= first /\ activity[a][i]})
          < InactivityWindow

\* Without a height the first penalty throws, and nobody is slashed.
check_validator_inactivity ==
    LET found == {a \in get_active_validators : Inactive(a)}
    IN found # {} /\ TellsHeight /\ SlashAll(found, 5)

ValidatorSetNext ==
    \/ \E a \in Addresses :
          \/ \E s \in Stakes : NewValidator(a, s) \/ update_validator(a, s)
          \/ register_validator(a) \/ unregister_validator(a)
          \/ promote_validator(a) \/ demote_validator(a)
          \/ jail_validator(a) \/ unjail_validator(a) \/ JailEnds(a)
          \/ \E p \in Penalties : apply_penalty(a, p)
          \/ handle_double_signing(a) \/ handle_downtime(a)
          \/ \E on \in BOOLEAN : track_validator_activity(a, on)
    \/ check_validator_inactivity

ValidatorSetSpec == ValidatorSetInit /\ [][ValidatorSetNext]_validatorSetVars

-----------------------------------------------------------------------------
(* Properties *)

\* Every registered validator is in exactly one of the four sets, and nobody
\* else is in any, through jail, penalties and unregistration by slashing
\* (_remove_from_sets, apply_slashing_penalty).
OneSetEach ==
    /\ active_validators \cup pending_validators \cup inactive_validators
           \cup jailed_validators = registered
    /\ active_validators \cap (pending_validators \cup inactive_validators
                                   \cup jailed_validators) = {}
    /\ pending_validators \cap (inactive_validators \cup jailed_validators) = {}
    /\ inactive_validators \cap jailed_validators = {}

\* Whoever a slashing leaves active has the minimum stake, whether the slashing
\* took the stake below it or an update had set it lower while the validator was
\* active (update_validator, apply_slashing_penalty).
SlashedActiveHasStake ==
    [][\A a \in active_validators' : slash_events'[a] > slash_events[a]
             => object'[a].stake >= MinimumStake]_validatorSetVars
=============================================================================
