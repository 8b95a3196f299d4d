----------------------------- MODULE Governance -----------------------------
(***************************************************************************)
(* governance/dao.js (DAO): members, their tokens and voting power, and    *)
(* proposals voted with the power of the moment; governance/voting.js      *)
(* (VotingSystem) and governance/proposal.js (ProposalManager): one        *)
(* proposal of each.  The voting system counts votes by method as they are *)
(* cast, the manager from the votes it holds; both keep the results of the *)
(* first time they are asked for.  The three do not use each other.        *)
(*                                                                         *)
(* `gone` is kept for the property: the voting power that left with        *)
(* removed members over what they had in tokens.  Left out: statistics,    *)
(* scores and percentages, computed from the counts; comments, stakes and  *)
(* rewards, which are only set and read; the periods of the voting system, *)
(* which it never looks at when votes are cast; and DAOManager, whose      *)
(* constructor throws: it mints for a creator who is no member yet.        *)
(***************************************************************************)
EXTENDS Integers, Sequences, FiniteSets, FiniteSetsExt, Functions, SequencesExt

CONSTANTS
    DaoAddresses,
    VoteTypes,           \* "for", "against"
    TokenAmounts,        \* amounts of a call
    proposal_threshold,
    MaxTokens,           \* bound on the tokens of the organization
    MaxGone,             \* bound on the power that is gone, or too much
    MaxProposals,        \* bound on its proposals
    Voters,
    Methods,    \* vote methods
    Powers,     \* voting power the caller passes
    MaxCasts    \* bound on the votes cast in the voting system

ASSUME DaoAssumption ==
    /\ IsFiniteSet(DaoAddresses) /\ TokenAmounts \subseteq Nat
    /\ proposal_threshold \in Nat /\ MaxTokens \in Nat
    /\ MaxGone \in Nat /\ MaxProposals \in Nat

ASSUME VotingAssumption ==
    /\ IsFiniteSet(Voters) /\ IsFiniteSet(Methods) /\ "none" \notin Methods
    /\ Powers \subseteq Nat /\ MaxCasts \in Nat

VARIABLES
    members,             \* addresses
    tokens, voting_power,  \* of each member, 0 for others
    total_voting_power,
    proposals,           \* status, votes and results of each
    gone

powerVars == <<members, tokens, voting_power, total_voting_power, gone>>
daoVars == <<powerVars, proposals>>

VARIABLES
    vs_systems,     \* VotingSystem: names of the systems it has
    vs_status,      \* of its proposal, "none" before
    vs_votes,       \* method and power of each voter, or NoVote
    vote_count,     \* of each method
    vs_order,       \* the methods, in the order first cast
    vs_power,       \* total_voting_power
    vs_results,     \* NotCalculated, or the results of the time
    phase,          \* of the manager's proposal: before, open or over
    status,         \* of the manager's proposal
    pm_votes,       \* as vs_votes
    pm_results,
    proposal_count, \* of the manager
    present         \* the manager still has the proposal

systemVars == <<vs_systems, vs_status, vs_votes, vote_count, vs_order, vs_power, vs_results>>
managerVars == <<phase, status, pm_votes, pm_results, proposal_count, present>>
votingVars == <<systemVars, managerVars>>

NoVote == [method |-> "none", power |-> 0]
NoResults == [m \in Methods |-> -1]
NoWinner == "nobody"
NotCalculated == [votes |-> NoResults, power |-> 0, status |-> "", winner |-> NoWinner]

-----------------------------------------------------------------------------
(* DAO *)

DaoInit ==
    /\ members = {} /\ total_voting_power = 0 /\ gone = 0
    /\ tokens = [a \in DaoAddresses |-> 0] /\ voting_power = tokens
    /\ proposals = <<>>

\* With the tokens minted for the member, who may be one already.
add_member(a, n) ==
    /\ total_voting_power + n <= MaxTokens
    /\ members' = members \cup {a}
    /\ tokens' = [tokens EXCEPT ![a] = @ + n]
    /\ voting_power' = [voting_power EXCEPT ![a] = @ + n]
    /\ total_voting_power' = total_voting_power + n
    /\ UNCHANGED <<gone, proposals>>

\* Burns the member's tokens; the power delegated to it is gone, and the power it
\* delegated stays with the delegate.
remove_member(a) ==
    /\ a \in members
    /\ members' = members \ {a}
    /\ tokens' = [tokens EXCEPT ![a] = 0]
    /\ voting_power' = [voting_power EXCEPT ![a] = 0]
    /\ total_voting_power' = total_voting_power - tokens[a]
    /\ gone' = gone + voting_power[a] - tokens[a] /\ gone' \in -MaxGone .. MaxGone
    /\ UNCHANGED proposals

Moves(f, from, to, n) ==
    LET paid == [f EXCEPT ![from] = @ - n] IN [paid EXCEPT ![to] = @ + n]

\* Mutant: the sender keeps the power.
TransferPower_Kept(from, to, n) == [voting_power EXCEPT ![to] = @ + n]

\* The power moves with the tokens; below zero when it was delegated before.
TransferPower(from, to, n) == Moves(voting_power, from, to, n)

transfer_tokens(from, to, n) ==
    /\ from \in members /\ to \in members /\ tokens[from] >= n
    /\ tokens' = Moves(tokens, from, to, n)
    /\ voting_power' = TransferPower(from, to, n)
    /\ UNCHANGED <<members, total_voting_power, gone, proposals>>

\* Nothing takes a delegation back.
delegate_voting(from, to, n) ==
    /\ from \in members /\ to \in members /\ from # to
    /\ voting_power[from] >= n
    /\ voting_power' = Moves(voting_power, from, to, n)
    /\ UNCHANGED <<members, tokens, total_voting_power, gone, proposals>>

create_proposal(a) ==
    /\ a \in members /\ tokens[a] >= proposal_threshold
    /\ Len(proposals) < MaxProposals
    /\ proposals' = Append(proposals,
           [status |-> "active", votes |-> {}, results |-> <<>>])
    /\ UNCHANGED powerVars

\* Whatever the proposal's status, with the power of now; a second vote takes the
\* place of the first.
vote_on_proposal(p, a, type) ==
    /\ p \in DOMAIN proposals /\ a \in members
    /\ proposals' = [proposals EXCEPT ![p].votes =
           {v \in @ : v.address # a} \cup
               {[address |-> a, type |-> type, amount |-> voting_power[a]]}]
    /\ UNCHANGED powerVars

Power(p, types) ==
    MapThenSumSet(LAMBDA v : IF v.type \in types THEN v.amount ELSE 0, proposals[p].votes)

Results(p) == <<[vote_power    |-> Power(p, VoteTypes),
                 for_votes     |-> Power(p, {"for"}),
                 against_votes |-> Power(p, {"against"})]>>

calculate_proposal_result(p) ==
    /\ p \in DOMAIN proposals
    /\ proposals' = [proposals EXCEPT ![p].results = Results(p)]
    /\ UNCHANGED powerVars

\* The results there are, however old; they are calculated when there are none.
has_proposal_passed(p) ==
    /\ p \in DOMAIN proposals /\ proposals[p].results = <<>>
    /\ proposals' = [proposals EXCEPT ![p].results = Results(p)]
    /\ UNCHANGED powerVars

update_proposal_status(p, s) ==
    /\ p \in DOMAIN proposals
    /\ proposals' = [proposals EXCEPT ![p].status = s]
    /\ UNCHANGED powerVars

DaoNext ==
    \/ \E a \in DaoAddresses :
          \/ \E n \in TokenAmounts \cup {0} : add_member(a, n)
          \/ remove_member(a) \/ create_proposal(a)
          \/ \E b \in DaoAddresses, n \in TokenAmounts :
                transfer_tokens(a, b, n) \/ delegate_voting(a, b, n)
          \/ \E p \in DOMAIN proposals, type \in VoteTypes : vote_on_proposal(p, a, type)
    \/ \E p \in DOMAIN proposals :
          \/ calculate_proposal_result(p) \/ has_proposal_passed(p)
          \/ update_proposal_status(p, "closed")

DaoSpec == DaoInit /\ [][DaoNext]_daoVars

-----------------------------------------------------------------------------
(* Votes *)

VotingInit ==
    /\ vs_systems = {"chainforgeledger"} /\ vs_status = "none"
    /\ vs_votes = [a \in Voters |-> NoVote]
    /\ vote_count = [m \in Methods |-> 0] /\ vs_order = <<>>
    /\ vs_power = 0 /\ vs_results = NotCalculated

ManagerInit ==
    /\ phase = "before" /\ status = "draft"
    /\ pm_votes = [a \in Voters |-> NoVote] /\ pm_results = NoResults
    /\ proposal_count = 1 /\ present = TRUE

PowerOf(votes) == SumFunction([a \in Voters |-> votes[a].power])

\* Mutant: only the first vote of a voter is counted.
Counts_First(a, m) ==
    IF vs_votes[a] = NoVote THEN [vote_count EXCEPT ![m] = @ + 1] ELSE vote_count

\* A vote that replaces another counts again; the other stays counted.
Counts(a, m) == [vote_count EXCEPT ![m] = @ + 1]

\* Whoever asks for a system that is not there makes it.
_get_system_config(system) == vs_systems' = vs_systems \cup {system}

\* A question about the other system, which does not have the proposal.
AskElsewhere(system) ==
    /\ _get_system_config(system)
    /\ UNCHANGED <<vs_status, vs_votes, vote_count, vs_order, vs_power, vs_results>>

VotingSystem_create_proposal ==
    /\ vs_status = "none" /\ vs_status' = "active"
    /\ _get_system_config("chainforgeledger")
    /\ UNCHANGED <<vs_votes, vote_count, vs_order, vs_power, vs_results>>

\* Neither status nor period is asked for.
VotingSystem_cast_vote(a, m, n) ==
    /\ vs_status # "none" /\ SumFunctionOnSet(vote_count, Methods) < MaxCasts
    /\ vs_votes' = [vs_votes EXCEPT ![a] = [method |-> m, power |-> n]]
    /\ vs_power' = PowerOf(vs_votes')
    /\ vote_count' = Counts(a, m)
    /\ vs_order' = IF m \in ToSet(vs_order) THEN vs_order ELSE Append(vs_order, m)
    /\ UNCHANGED <<vs_systems, vs_status, vs_results>>

\* The first method cast of those with the most votes.
_determine_winner ==
    LET best == SelectInSeq(vs_order,
            LAMBDA m : m # "abstain" /\ \A k \in Methods \ {"abstain"} : vote_count[k] <= vote_count[m])
    IN  IF best = 0 THEN NoWinner ELSE vs_order[best]

\* What votes were replaced counts with the others; the power has reached the quorum
\* when there is any.
_calculate_results ==
    [votes |-> vote_count, power |-> vs_power, status |-> vs_status, winner |-> _determine_winner]

get_proposal_result ==
    /\ vs_status # "none" /\ vs_results = NotCalculated /\ vs_results' = _calculate_results
    /\ UNCHANGED <<vs_systems, vs_status, vs_votes, vote_count, vs_order, vs_power>>

\* Whatever the caller says.
VotingSystem_update_proposal_status(s) ==
    /\ vs_status # "none" /\ vs_status' = s
    /\ UNCHANGED <<vs_systems, vs_votes, vote_count, vs_order, vs_power, vs_results>>

\* set_vote_period lets a day pass before the voting opens.
TimePasses ==
    /\ phase # "over" /\ phase' = IF phase = "before" THEN "open" ELSE "over"
    /\ UNCHANGED <<status, pm_votes, pm_results, proposal_count, present>>

update_status(s) ==
    /\ status' = s
    /\ UNCHANGED <<phase, pm_votes, pm_results, proposal_count, present>>

\* Mutant: the period is not looked at.
is_voting_phase_Always == status = "active"

is_voting_phase == phase = "open" /\ status = "active"

ProposalManager_cast_vote(a, m, n) ==
    /\ present /\ is_voting_phase
    /\ pm_votes' = [pm_votes EXCEPT ![a] = [method |-> m, power |-> n]]
    /\ UNCHANGED <<phase, status, pm_results, proposal_count, present>>

Tally == [m \in Methods |-> Cardinality({a \in Voters : pm_votes[a].method = m})]

get_proposal_results ==
    /\ present /\ pm_results = NoResults /\ pm_results' = Tally
    /\ UNCHANGED <<phase, status, pm_votes, proposal_count, present>>

calculate_final_results ==
    /\ present /\ pm_results' = Tally
    /\ UNCHANGED <<phase, status, pm_votes, proposal_count, present>>

\* One that is not there is counted out too, once here.
remove_proposal ==
    /\ proposal_count >= 0
    /\ present' = FALSE /\ proposal_count' = proposal_count - 1
    /\ UNCHANGED <<phase, status, pm_votes, pm_results>>

VotingNext ==
    \/ AskElsewhere("other") \/ VotingSystem_create_proposal \/ get_proposal_result
    \/ \E a \in Voters, m \in Methods, n \in Powers : VotingSystem_cast_vote(a, m, n)
    \/ VotingSystem_update_proposal_status("closed")

ManagerNext ==
    \/ \E a \in Voters, m \in Methods, n \in Powers : ProposalManager_cast_vote(a, m, n)
    \/ get_proposal_results \/ calculate_final_results
    \/ TimePasses \/ remove_proposal
    \/ \E s \in {"active", "closed"} : update_status(s)

VotingSpec == VotingInit /\ [][VotingNext]_systemVars
ManagerSpec == ManagerInit /\ [][ManagerNext]_managerVars

-----------------------------------------------------------------------------
(* Properties *)

\* The total voting power is the number of tokens, and the sum of what the members
\* may vote with but for what left with removed members, whatever was minted,
\* transferred, delegated and burned in between, and even while single members are
\* below zero (add_member, remove_member, transfer_tokens, delegate_voting).
PowerAddsUp ==
    /\ total_voting_power = SumFunctionOnSet(tokens, DaoAddresses)
    /\ total_voting_power = gone + SumFunctionOnSet(voting_power, DaoAddresses)
    /\ \A a \in DaoAddresses : tokens[a] >= 0

\* In the voting system every vote that stands is counted under its method, next to
\* those it replaced, and its power once; the results it gives never have more votes
\* than there are, and their winner has the most, abstentions aside (cast_vote and
\* get_proposal_result of VotingSystem).  The manager has results and votes of an open
\* voting only (ProposalManager.cast_vote).
VotesStand ==
    /\ \A m \in Methods :
          /\ vote_count[m] >= Cardinality({a \in Voters : vs_votes[a].method = m})
          /\ vs_results.votes[m] <= vote_count[m]
          /\ m # "abstain" /\ vs_results.votes[m] > 0 =>
                 /\ vs_results.winner \in Methods \ {"abstain"}
                 /\ vs_results.votes[m] <= vs_results.votes[vs_results.winner]
    /\ vs_power = PowerOf(vs_votes)
    /\ phase = "before" => \A m \in Methods : Tally[m] = 0 /\ pm_results[m] <= 0
=============================================================================
