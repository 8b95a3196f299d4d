---------------------------- MODULE RateLimiter ----------------------------
(***************************************************************************)
(* networking/rate_limiter.js: token buckets that are filled with time,    *)
(* and users blocked for a while when theirs is empty.                     *)
(*                                                                         *)
(* Time is counted in ticks, tokens_per_second is per tick.  A user with   *)
(* no entry has NoBucket, and gets a full one.  `spent` is kept for the    *)
(* property.  Left out: the history of requests, which only queries read.  *)
(***************************************************************************)
EXTENDS Integers

CONSTANTS
    Users,              \* user ids
    Whitelist, Blacklist,
    Costs,              \* costs of messages, transactions and blocks
    tokens_per_second, token_max_balance, cost_per_request, block_duration,
    MaxTime             \* bound on the clock

ASSUME RateLimiterAssumption ==
    /\ Costs \subseteq Nat /\ tokens_per_second \in Nat /\ token_max_balance \in Nat
    /\ cost_per_request \in Nat /\ block_duration \in Nat /\ MaxTime \in Nat

VARIABLES
    clock,              \* Date.now()
    last_refill_time,
    user_tokens,        \* tokens of each user, or NoBucket
    user_blocked_until, \* end of each user's block, 0 for none
    started,            \* when the buckets were last emptied by initialize
    spent               \* what each user has spent since

rateLimiterVars == <<clock, last_refill_time, user_tokens, user_blocked_until, started, spent>>

NoBucket == -1

RateLimiterInit ==
    /\ clock = 0 /\ last_refill_time = 0 /\ started = 0
    /\ user_tokens = [u \in Users |-> NoBucket]
    /\ user_blocked_until = [u \in Users |-> 0]
    /\ spent = [u \in Users |-> 0]

RateLimiter_initialize ==
    /\ last_refill_time' = clock /\ started' = clock
    /\ user_tokens' = [u \in Users |-> NoBucket]
    /\ user_blocked_until' = [u \in Users |-> 0]
    /\ spent' = [u \in Users |-> 0]
    /\ UNCHANGED clock

\* Mutant: the time of the refill is not kept.
Refilled_Again ==
    [u \in Users |->
        LET filled == user_tokens[u] + (clock - started) * tokens_per_second
        IN IF user_tokens[u] = NoBucket THEN NoBucket
           ELSE IF filled < token_max_balance THEN filled ELSE token_max_balance]

\* refill_tokens: every bucket there is, up to the maximum.
Refilled ==
    [u \in Users |->
        LET filled == user_tokens[u] + (clock - last_refill_time) * tokens_per_second
        IN IF user_tokens[u] = NoBucket THEN NoBucket
           ELSE IF filled < token_max_balance THEN filled ELSE token_max_balance]

is_blocked(u) == user_blocked_until[u] > clock

Available(tokens, u) == IF tokens[u] = NoBucket THEN token_max_balance ELSE tokens[u]

\* is_blocked forgets a block that is over.
Block(u, blocked) ==
    user_blocked_until' = [user_blocked_until EXCEPT
        ![u] = IF blocked THEN clock + block_duration ELSE IF @ > clock THEN @ ELSE 0]

block_user(u, duration) ==
    /\ user_blocked_until' = [user_blocked_until EXCEPT ![u] = clock + duration]
    /\ UNCHANGED <<clock, last_refill_time, user_tokens, started, spent>>

unblock_user(u) ==
    /\ user_blocked_until' = [user_blocked_until EXCEPT ![u] = 0]
    /\ UNCHANGED <<clock, last_refill_time, user_tokens, started, spent>>

\* check_rate_limit and the consumption after it, which are one step: a user on the
\* whitelist is not refilled or blocked here, but pays all the same.
try_consume_tokens(u, cost) ==
    /\ u \notin Blacklist
    /\ u \in Whitelist \/ ~is_blocked(u)
    /\ LET tokens  == IF u \in Whitelist THEN user_tokens ELSE Refilled
           left    == Available(tokens, u)
           checked == u \in Whitelist \/ left >= cost_per_request
           paid    == checked /\ left >= cost
       IN /\ user_tokens' = [tokens EXCEPT ![u] = IF paid THEN left - cost ELSE left]
          /\ IF u \in Whitelist /\ paid THEN UNCHANGED user_blocked_until ELSE Block(u, ~paid)
          /\ spent' = [spent EXCEPT ![u] = IF paid THEN @ + cost ELSE @]
          /\ last_refill_time' = IF u \in Whitelist THEN last_refill_time ELSE clock
    /\ UNCHANGED <<clock, started>>

\* check_rate_limit by itself.
check_rate_limit(u) ==
    /\ u \notin Blacklist \cup Whitelist /\ ~is_blocked(u)
    /\ user_tokens' = [Refilled EXCEPT ![u] = Available(Refilled, u)]
    /\ Block(u, Available(Refilled, u) < cost_per_request)
    /\ last_refill_time' = clock
    /\ UNCHANGED <<clock, started, spent>>

Tick ==
    /\ clock < MaxTime /\ clock' = clock + 1
    /\ UNCHANGED <<last_refill_time, user_tokens, user_blocked_until, started, spent>>

RateLimiterNext ==
    \/ RateLimiter_initialize \/ Tick
    \/ \E u \in Users :
          \/ \E cost \in Costs : try_consume_tokens(u, cost)
          \/ check_rate_limit(u) \/ unblock_user(u)
          \/ block_user(u, block_duration)

RateLimiterSpec == RateLimiterInit /\ [][RateLimiterNext]_rateLimiterVars

-----------------------------------------------------------------------------
(* Properties *)

\* What a user has spent, with what is left, is never more than one full bucket and
\* what flowed in since the start, whoever caused the refills and whatever users came
\* late, were blocked or are on the whitelist (refill_tokens, try_consume_tokens).
SpendingIsLimited ==
    \A u \in Users : user_tokens[u] # NoBucket =>
        /\ user_tokens[u] \in 0 .. token_max_balance
        /\ spent[u] + user_tokens[u]
              <= token_max_balance + (last_refill_time - started) * tokens_per_second
=============================================================================
