----------------------------- MODULE Tokenomics ------------------------------
(***************************************************************************)
(* tokenomics/standards.js (TokenStandards): the ERC20, ERC721 and ERC1155 *)
(* contracts it makes.  Whoever calls, the sender is '0x123' (Sender).     *)
(* Nothing in the code gives anyone a token: the balances and owners are   *)
(* filled by whoever holds the contract (Give).  `given` is kept for the   *)
(* property.  Left out: interface definitions, and approvals of ERC721 and *)
(* operators, which are set and read and decide nothing.                   *)
(*                                                                         *)
(* tokenomics/tokenomics.js (Tokenomics: supply and pools) and             *)
(* tokenomics/supply.js (SupplyManager: lockups of a category's tokens,    *)
(* released block by block).  `burned` is kept for the property.  Left     *)
(* out: prices, percentages, inflation, schedules and histories, which are *)
(* figures of these, and the pools one by one where they act alike.        *)
(***************************************************************************)
EXTENDS Integers, Sequences, FiniteSets, Functions

CONSTANTS
    Holders, Sender,   \* addresses, and the one of the mock sender
    TokenIds,          \* ids of ERC721 and ERC1155 tokens
    Values,            \* values of a transfer
    MaxGiven           \* bound on what is given out of each token

ASSUME TokensAssumption ==
    IsFiniteSet(Holders) /\ Sender \in Holders /\ Values \subseteq Nat /\ MaxGiven \in Nat

VARIABLES
    erc20,        \* balances, by holder
    allowances,   \* allowances of Sender, by spender
    owners,       \* owner of each ERC721 token, or Nobody
    erc1155,      \* balances, by token and holder
    given         \* what was given out, of ERC20 and of each ERC1155 token

tokenVars == <<erc20, allowances, owners, erc1155, given>>

Nobody == "nobody"

TokensInit ==
    /\ erc20 = [a \in Holders |-> 0] /\ allowances = erc20
    /\ owners = [t \in TokenIds |-> Nobody]
    /\ erc1155 = [t \in TokenIds |-> [a \in Holders |-> 0]]
    /\ given = [erc20 |-> 0, erc1155 |-> [t \in TokenIds |-> 0]]

Give(a, n) ==
    /\ given.erc20 + n <= MaxGiven
    /\ erc20' = [erc20 EXCEPT ![a] = @ + n]
    /\ given' = [given EXCEPT !.erc20 = @ + n]
    /\ UNCHANGED <<allowances, owners, erc1155>>

GiveToken(a, t, n) ==
    /\ given.erc1155[t] + n <= MaxGiven
    /\ owners' = [owners EXCEPT ![t] = IF @ = Nobody THEN a ELSE @]
    /\ erc1155' = [erc1155 EXCEPT ![t][a] = @ + n]
    /\ given' = [given EXCEPT !.erc1155[t] = @ + n]
    /\ UNCHANGED <<erc20, allowances>>

\* Mutant: both balances are read before either is written.
Moved_ReadBefore(balances, from, to, n) ==
    [balances EXCEPT ![from] = balances[from] - n, ![to] = balances[to] + n]

\* The balance of `from` is written before that of `to` is read.
Moved(balances, from, to, n) ==
    LET paid == [balances EXCEPT ![from] = @ - n] IN [paid EXCEPT ![to] = @ + n]

transfer(to, n) ==
    /\ n <= erc20[Sender]
    /\ erc20' = Moved(erc20, Sender, to, n)
    /\ UNCHANGED <<allowances, owners, erc1155, given>>

approve(spender, n) ==
    /\ allowances' = [allowances EXCEPT ![spender] = n]
    /\ UNCHANGED <<erc20, owners, erc1155, given>>

\* The allowance is that of `from` to Sender, and only Sender's are ever set: what
\* Sender may move is its own.
transferFrom(from, to, n) ==
    /\ n <= IF from = Sender THEN allowances[Sender] ELSE 0
    /\ n <= erc20[from]
    /\ erc20' = Moved(erc20, from, to, n)
    /\ allowances' = IF from = Sender THEN [allowances EXCEPT ![Sender] = @ - n] ELSE allowances
    /\ UNCHANGED <<owners, erc1155, given>>

\* transferFrom and safeTransferFrom of ERC721.
transferToken(from, to, t) ==
    /\ owners[t] = from
    /\ owners' = [owners EXCEPT ![t] = to]
    /\ UNCHANGED <<erc20, allowances, erc1155, given>>

safeTransferFrom(from, to, t, n) ==
    /\ n <= erc1155[t][from]
    /\ erc1155' = [erc1155 EXCEPT ![t] = Moved(erc1155[t], from, to, n)]
    /\ UNCHANGED <<erc20, allowances, owners, given>>

\* Two items, the same token perhaps; when the second one is refused the first one
\* stays moved, and the answer is false.
safeBatchTransferFrom(from, to, ids, n) ==
    /\ n <= erc1155[ids[1]][from]
    /\ LET first == [erc1155 EXCEPT ![ids[1]] = Moved(erc1155[ids[1]], from, to, n)]
       IN erc1155' = IF n > first[ids[2]][from] THEN first
                     ELSE [first EXCEPT ![ids[2]] = Moved(first[ids[2]], from, to, n)]
    /\ UNCHANGED <<erc20, allowances, owners, given>>

TokensNext ==
    \E to \in Holders, n \in Values :
        \/ Give(to, n) \/ transfer(to, n) \/ approve(to, n)
        \/ \E from \in Holders : transferFrom(from, to, n)
        \/ \E t \in TokenIds :
              \/ GiveToken(to, t, n)
              \/ \E from \in Holders :
                    \/ transferToken(from, to, t) \/ safeTransferFrom(from, to, t, n)
                    \/ \E s \in TokenIds : safeBatchTransferFrom(from, to, <<t, s>>, n)

TokensSpec == TokensInit /\ [][TokensNext]_tokenVars

-----------------------------------------------------------------------------
(* Properties *)

\* No transfer, to oneself or in a batch that stops half-way, makes or loses tokens or
\* takes a balance below zero (transfer, transferFrom, safeBatchTransferFrom).
TokensConserved ==
    /\ SumFunctionOnSet(erc20, Holders) = given.erc20
    /\ \A t \in TokenIds : SumFunctionOnSet(erc1155[t], Holders) = given.erc1155[t]
    /\ \A a \in Holders : erc20[a] >= 0 /\ \A t \in TokenIds : erc1155[t][a] >= 0

-----------------------------------------------------------------------------
(* Supply *)

CONSTANTS
    InitialSupply,    \* totalSupply at first
    TokenSums,        \* amounts minted, burned or paid out
    LockupBlocks,     \* blocks at which a lockup starts or ends
    MaxSupplyBlock    \* bound on the block number

ASSUME SupplyAssumption ==
    /\ InitialSupply \in Nat /\ TokenSums \subseteq Nat \ {0}
    /\ LockupBlocks \subseteq Nat /\ MaxSupplyBlock \in Nat

VARIABLES
    totalSupply, circulatingSupply,
    stakingRewardsPool, treasury,
    reserved,           \* vestingPool, developmentFund and communityPool
    burned,             \* tokens burned so far
    distribution_lockup, \* start and end block of the category, or NoLockup
    supplyBlock         \* the block number

supplyVars == <<totalSupply, circulatingSupply, stakingRewardsPool, treasury, reserved, burned,
                distribution_lockup, supplyBlock>>
tokenomicsVars == <<totalSupply, circulatingSupply, stakingRewardsPool, treasury, reserved, burned>>

NoLockup == [start |-> 0, end |-> -1]

SupplyInit ==
    /\ totalSupply = InitialSupply /\ circulatingSupply = 0
    /\ stakingRewardsPool = 0 /\ treasury = 0 /\ reserved = 0 /\ burned = 0
    /\ distribution_lockup = NoLockup /\ supplyBlock = 0

\* Only what circulates is held against the supply: the reserved pools are
\* not, and may come to more than there is.
mintTokens(amount, destination) ==
    /\ circulatingSupply + amount <= totalSupply
    /\ reserved + amount <= 2 * InitialSupply
    /\ circulatingSupply' = circulatingSupply + IF destination = "reserved" THEN 0 ELSE amount
    /\ stakingRewardsPool' = stakingRewardsPool + IF destination = "staking_rewards" THEN amount ELSE 0
    /\ treasury' = treasury + IF destination = "treasury" THEN amount ELSE 0
    /\ reserved' = reserved + IF destination = "reserved" THEN amount ELSE 0
    /\ UNCHANGED <<totalSupply, burned, distribution_lockup, supplyBlock>>

\* Mutant: the supply is not lowered.
SupplyAfterBurn_Same(amount) == totalSupply

SupplyAfterBurn(amount) == totalSupply - amount

burnTokens(amount) ==
    /\ amount <= circulatingSupply
    /\ circulatingSupply' = circulatingSupply - amount
    /\ totalSupply' = SupplyAfterBurn(amount)
    /\ burned' = burned + amount
    /\ UNCHANGED <<stakingRewardsPool, treasury, reserved, distribution_lockup, supplyBlock>>

\* The rewards leave the pool; that they circulate was counted at minting.
distributeStakingRewards(amount) ==
    /\ amount <= stakingRewardsPool
    /\ stakingRewardsPool' = stakingRewardsPool - amount
    /\ UNCHANGED <<totalSupply, circulatingSupply, treasury, reserved, burned,
                   distribution_lockup, supplyBlock>>

set_distribution_lockup(start, end) ==
    /\ distribution_lockup' = [start |-> start, end |-> end]
    /\ UNCHANGED <<tokenomicsVars, supplyBlock>>

NextSupplyBlock ==
    /\ supplyBlock < MaxSupplyBlock /\ supplyBlock' = supplyBlock + 1
    /\ UNCHANGED <<tokenomicsVars, distribution_lockup>>

\* What of `amount` is released at a block: nothing before the start, all from
\* the end on, in between in proportion.  As a fraction of two numbers; the
\* start comes first, so one that starts after its end holds all back.
calculate_distribution_lockup(amount, block) ==
    LET lockup == distribution_lockup IN
    IF lockup = NoLockup THEN [part |-> amount, of |-> 1]
    ELSE IF block < lockup.start THEN [part |-> 0, of |-> 1]
    ELSE IF block >= lockup.end THEN [part |-> amount, of |-> 1]
    ELSE [part |-> amount * (block - lockup.start), of |-> lockup.end - lockup.start]

SupplyNext ==
    \/ \E amount \in TokenSums :
           \/ \E d \in {"circulating", "staking_rewards", "treasury", "reserved"} :
                  mintTokens(amount, d)
           \/ burnTokens(amount) \/ distributeStakingRewards(amount)
    \/ \E start, end \in LockupBlocks : set_distribution_lockup(start, end)
    \/ NextSupplyBlock

SupplySpec == SupplyInit /\ [][SupplyNext]_supplyVars

-----------------------------------------------------------------------------

\* No more circulates than there is, burned tokens are gone for good, and the
\* pools that count as circulating are covered by what circulates and what was
\* burned, through any sequence of minting, burning and paying out.  A lockup
\* never releases more than the amount, nor less at a later block (mintTokens,
\* burnTokens, calculate_distribution_lockup).
SupplyCovered ==
    /\ circulatingSupply <= totalSupply /\ totalSupply + burned = InitialSupply
    /\ stakingRewardsPool + treasury <= circulatingSupply + burned
    /\ LET now == calculate_distribution_lockup(3, supplyBlock)
           later == calculate_distribution_lockup(3, supplyBlock + 1)
       IN  now.part * later.of <= later.part * now.of /\ later.part <= 3 * later.of
=============================================================================
