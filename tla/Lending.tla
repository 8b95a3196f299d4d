------------------------------ MODULE Lending ------------------------------
(***************************************************************************)
(* runtime/lending.js (LendingProtocol): what users deposit, borrow and    *)
(* pledge, beside the totals of each market.                               *)
(*                                                                         *)
(* Every price is 1 (_get_price) and a market asks 3/2 in collateral (the  *)
(* default).  `liquidated` and `refused` are kept for the properties.      *)
(* Left out: interest, which is answered and not booked, and the           *)
(* utilization rate, which only statistics read.                           *)
(***************************************************************************)
EXTENDS Integers, Sequences, FiniteSets, Functions, SequencesExt

CONSTANTS
    Borrowers,     \* users
    Assets,
    Amounts,       \* amounts of a call
    MaxSupply,     \* bound on what is deposited in a market
    MaxCollateral  \* bound on the collateral of a user

ASSUME LendingAssumption ==
    /\ IsFiniteSet(Borrowers) /\ IsFiniteSet(Assets) /\ Amounts \subseteq Nat
    /\ MaxSupply \in Nat /\ MaxCollateral \in Nat

VARIABLES
    markets,          \* the assets that have a market
    total_supply, total_borrowed, reserves,
    deposits, borrows, collateral, \* of each user, in each asset
    pledged,          \* the assets a user has given as collateral, in order
    liquidated,       \* what was repaid by liquidation, of each asset
    refused           \* users a withdrawal of collateral was refused to

marketVars == <<markets, total_supply, total_borrowed, reserves>>
lendingVars == <<marketVars, deposits, borrows, collateral, pledged, liquidated, refused>>

LendingInit ==
    /\ markets = {}
    /\ total_supply = [a \in Assets |-> 0] /\ total_borrowed = total_supply
    /\ reserves = total_supply /\ liquidated = total_supply
    /\ deposits = [u \in Borrowers |-> [a \in Assets |-> 0]]
    /\ borrows = deposits /\ collateral = deposits
    /\ pledged = [u \in Borrowers |-> <<>>] /\ refused = {}

create_market(a) ==
    /\ a \notin markets /\ markets' = markets \cup {a}
    /\ UNCHANGED <<total_supply, total_borrowed, reserves, deposits, borrows,
                   collateral, pledged, liquidated, refused>>

add_liquidity(u, a, n) ==
    /\ a \in markets /\ total_supply[a] + n <= MaxSupply
    /\ total_supply' = [total_supply EXCEPT ![a] = @ + n]
    /\ reserves' = [reserves EXCEPT ![a] = @ + n]
    /\ deposits' = [deposits EXCEPT ![u][a] = @ + n]
    /\ UNCHANGED <<markets, total_borrowed, borrows, collateral, pledged, liquidated, refused>>

\* Whether the market still has as much is not asked.
remove_liquidity(u, a, n) ==
    /\ a \in markets /\ deposits[u][a] >= n
    /\ total_supply' = [total_supply EXCEPT ![a] = @ - n]
    /\ reserves' = [reserves EXCEPT ![a] = @ - n]
    /\ deposits' = [deposits EXCEPT ![u][a] = @ - n]
    /\ UNCHANGED <<markets, total_borrowed, borrows, collateral, pledged, liquidated, refused>>

Worth(of) == SumFunctionOnSet(of, Assets)

borrow(u, a, n, c, m) ==
    /\ a \in markets /\ c \in markets
    /\ reserves[a] >= n /\ 2 * m >= 3 * n
    /\ Worth(collateral[u]) + m <= MaxCollateral
    /\ total_borrowed' = [total_borrowed EXCEPT ![a] = @ + n]
    /\ reserves' = [reserves EXCEPT ![a] = @ - n]
    /\ borrows' = [borrows EXCEPT ![u][a] = @ + n]
    /\ collateral' = [collateral EXCEPT ![u][c] = @ + m]
    /\ pledged' = [pledged EXCEPT ![u] = IF Contains(@, c) THEN @ ELSE Append(@, c)]
    /\ UNCHANGED <<markets, total_supply, deposits, liquidated, refused>>

repay(u, a, n) ==
    /\ a \in markets /\ borrows[u][a] >= n
    /\ total_borrowed' = [total_borrowed EXCEPT ![a] = @ - n]
    /\ reserves' = [reserves EXCEPT ![a] = @ + n]
    /\ borrows' = [borrows EXCEPT ![u][a] = @ - n]
    /\ UNCHANGED <<markets, total_supply, deposits, collateral, pledged, liquidated, refused>>

\* Mutant: the collateral is compared as it was before.
Sufficient_Before(u) == Worth(collateral[u]) >= Worth(borrows[u])

\* _is_collateral_sufficient, once the collateral was taken: a health factor of 1.
Sufficient(u) == Worth(collateral'[u]) >= Worth(borrows[u])

\* The refusal is thrown after the collateral was taken, and does not undo it.
withdraw_collateral(u, c, n) ==
    /\ collateral[u][c] >= n
    /\ collateral' = [collateral EXCEPT ![u][c] = @ - n]
    /\ refused' = IF Sufficient(u) THEN refused ELSE refused \cup {u}
    /\ UNCHANGED <<marketVars, deposits, borrows, pledged, liquidated>>

\* The market gets nothing back.  All of it is taken from the first collateral the
\* user gave, which may not be enough.
liquidate(u, a, n) ==
    /\ Worth(borrows[u]) > 0 /\ Worth(collateral[u]) <= Worth(borrows[u])
    /\ borrows[u][a] >= n
    /\ borrows' = [borrows EXCEPT ![u][a] = @ - n]
    /\ total_borrowed' = [total_borrowed EXCEPT ![a] = @ - n]
    /\ collateral' = [collateral EXCEPT ![u][Head(pledged[u])] = @ - n]
    /\ liquidated' = [liquidated EXCEPT ![a] = @ + n]
    /\ UNCHANGED <<markets, total_supply, reserves, deposits, pledged, refused>>

LendingNext ==
    \/ \E a \in Assets : create_market(a)
    \/ \E u \in Borrowers, a \in Assets, n \in Amounts :
          \/ add_liquidity(u, a, n) \/ remove_liquidity(u, a, n)
          \/ repay(u, a, n) \/ withdraw_collateral(u, a, n) \/ liquidate(u, a, n)
          \/ \E c \in Assets, m \in Amounts : borrow(u, a, n, c, m)

LendingSpec == LendingInit /\ [][LendingNext]_lendingVars

-----------------------------------------------------------------------------
(* Properties *)

\* The totals of a market are the sums of what its users have, and its reserves
\* are what is deposited and not lent, short of what liquidations took without
\* giving it back (add_liquidity, remove_liquidity, borrow, repay, liquidate).
LendingBooks ==
    \A a \in Assets :
        /\ total_supply[a] = SumFunction([u \in Borrowers |-> deposits[u][a]])
        /\ total_borrowed[a] = SumFunction([u \in Borrowers |-> borrows[u][a]])
        /\ reserves[a] = total_supply[a] - total_borrowed[a] - liquidated[a]

\* Whoever owes more than the collateral is worth was refused a withdrawal, which
\* took the collateral all the same: nothing else gets a position there, neither
\* withdrawing nor being liquidated (borrow, withdraw_collateral, liquidate).
DebtIsCovered ==
    \A u \in Borrowers \ refused : Worth(collateral[u]) >= Worth(borrows[u])
=============================================================================
