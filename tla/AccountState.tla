---------------------------- MODULE AccountState ----------------------------
(***************************************************************************)
(* core/state.js (State): balances and the list of transactions, changed   *)
(* by blocks, saved with a height and taken back.                          *)
(*                                                                         *)
(* revertToBlockHeight makes the saved object itself the state, so that    *)
(* later changes are changes of the snapshot: `alias` says which.  `base`  *)
(* is kept for the property, what a balance has from setBalance.  Left     *)
(* out: the generic keys and setState, which replace whatever is there.    *)
(***************************************************************************)
EXTENDS Integers, Sequences, FiniteSets, FiniteSetsExt, SequencesExt

CONSTANTS
    Accounts,
    Transfers,     \* amounts of a transaction
    Balances,      \* what a balance is set to
    MaxBlockIndex, \* bound on the index of a block
    MaxRecorded,   \* bound on the transactions of a state
    MaxSnapshots   \* bound on the history

ASSUME AccountStateAssumption ==
    /\ IsFiniteSet(Accounts) /\ Transfers \subseteq Nat \ {0} /\ Balances \subseteq Nat
    /\ MaxBlockIndex \in Nat /\ MaxRecorded \in Nat /\ MaxSnapshots \in Nat

VARIABLES
    state,        \* balance, transactions and base
    blockHeight,
    history,      \* height and state of each snapshot
    alias         \* the snapshot that is the state, or 0

accountVars == <<state, blockHeight, history, alias>>

Empty == [balance |-> [a \in Accounts |-> 0], transactions |-> <<>>,
          base |-> [a \in Accounts |-> 0]]

AccountStateInit == state = Empty /\ blockHeight = 0 /\ history = <<>> /\ alias = 0

\* The state becomes s, and so does the snapshot it is.
Write(s) ==
    /\ state' = s
    /\ history' = IF alias = 0 THEN history ELSE [history EXCEPT ![alias].state = s]

Tx(from, to, n) == [sender |-> from, receiver |-> to, amount |-> n]

\* The receiver's balance is read after the sender's was written.
Paid(balance, tx) ==
    LET paid == [balance EXCEPT ![tx.sender] = @ - tx.amount]
    IN [paid EXCEPT ![tx.receiver] = @ + tx.amount]

\* Mutant: recorded whether the sender could pay or not.
AppliedOne_RecordsAll(s, tx) ==
    [s EXCEPT !.balance = IF s.balance[tx.sender] < tx.amount THEN @ ELSE Paid(s.balance, tx),
              !.transactions = Append(s.transactions, tx)]

\* A transaction its sender cannot pay is passed over.
AppliedOne(s, tx) ==
    IF s.balance[tx.sender] < tx.amount THEN s
    ELSE [s EXCEPT !.balance = Paid(s.balance, tx),
                   !.transactions = Append(s.transactions, tx)]

applyTransactions(s, txs) == FoldLeft(AppliedOne, s, txs)

\* Of any index: the height is the block's.
applyBlock(index, txs) ==
    /\ Len(state.transactions) + Len(txs) <= MaxRecorded
    /\ Write(applyTransactions(state, txs))
    /\ blockHeight' = index
    /\ UNCHANGED alias

setBalance(a, n) ==
    /\ Write([state EXCEPT !.balance[a] = n,
                           !.base[a] = @ + n - state.balance[a]])
    /\ UNCHANGED <<blockHeight, alias>>

saveHistory ==
    /\ Len(history) < MaxSnapshots
    /\ history' = Append(history, [blockHeight |-> blockHeight, state |-> state])
    /\ UNCHANGED <<state, blockHeight, alias>>

\* The first snapshot of the height, which may be of a chain reverted since.
revertToBlockHeight(h) ==
    LET at == {i \in DOMAIN history : history[i].blockHeight = h} IN
    /\ h \in 0 .. blockHeight /\ at # {}
    /\ alias' = Min(at)
    /\ state' = history[Min(at)].state
    /\ blockHeight' = h
    /\ UNCHANGED history

\* A new object takes the place of the state.
State_clear ==
    /\ state' = Empty /\ alias' = 0
    /\ UNCHANGED <<blockHeight, history>>

Blocks == {<<Tx(f, t, n)>> : f \in Accounts, t \in Accounts, n \in Transfers}
          \cup {<<Tx(f, t, n), Tx(t, f, n)>> : f \in Accounts, t \in Accounts, n \in Transfers}

AccountStateNext ==
    \/ \E index \in 1 .. MaxBlockIndex, txs \in Blocks : applyBlock(index, txs)
    \/ \E a \in Accounts, n \in Balances : setBalance(a, n)
    \/ \E h \in 0 .. MaxBlockIndex : revertToBlockHeight(h)
    \/ saveHistory \/ State_clear

AccountStateSpec == AccountStateInit /\ [][AccountStateNext]_accountVars

-----------------------------------------------------------------------------
(* Properties *)

Through(s, a, end) ==
    FoldLeft(LAMBDA sum, tx : sum + IF tx[end] = a THEN tx.amount ELSE 0, 0, s.transactions)

\* What an account has follows from the recorded transactions, in the state and in
\* every snapshot, whichever of them a revert made the state and later blocks
\* changed; nobody has less than nothing (applyTransactions, revertToBlockHeight).
BalancesFollowTransactions ==
    \A s \in {state} \cup {history[i].state : i \in DOMAIN history}, a \in Accounts :
        /\ s.balance[a] = s.base[a] + Through(s, a, "receiver") - Through(s, a, "sender")
        /\ s.balance[a] >= 0
=============================================================================
