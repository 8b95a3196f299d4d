------------------------------ MODULE Multisig ------------------------------
(***************************************************************************)
(* crypto/multisig.js (MultisigWallet): a wallet whose keys and number of  *)
(* required signatures change while signatures are collected.              *)
(*                                                                         *)
(* Signatures are not verified by the code and stand for their signers.    *)
(* Left out: balance, addresses and amounts, which decide nothing.         *)
(***************************************************************************)
EXTENDS Integers, Sequences, FiniteSets

CONSTANTS
    Keys,           \* public keys
    FirstKeys,      \* those a wallet is made with, at least two
    MaxWalletTxs    \* bound on the transactions of the wallet

ASSUME MultisigAssumption ==
    /\ IsFiniteSet(Keys) /\ FirstKeys \subseteq Keys
    /\ Cardinality(FirstKeys) >= 2 /\ MaxWalletTxs \in Nat

VARIABLES
    public_keys,
    required,
    transactions,    \* signers, confirmed and executed of each, in order of id
    pending_transactions,    \* numbers of transactions
    completed_transactions   \* likewise, in the order of execution

multisigVars == <<public_keys, required, transactions, pending_transactions,
                  completed_transactions>>

\* MultisigWalletFactory.create_wallet
MultisigInit ==
    /\ public_keys = FirstKeys
    /\ required \in 1 .. Cardinality(FirstKeys)
    /\ transactions = <<>> /\ pending_transactions = {} /\ completed_transactions = <<>>

add_public_key(k) ==
    /\ public_keys' = public_keys \cup {k}
    /\ UNCHANGED <<required, transactions, pending_transactions, completed_transactions>>

\* The signatures of the key stay, and fewer keys may be left than are required.
remove_public_key(k) ==
    /\ public_keys' = public_keys \ {k}
    /\ UNCHANGED <<required, transactions, pending_transactions, completed_transactions>>

\* No transaction is looked at that has enough signatures now.
set_required_signatures(n) ==
    /\ n >= 1 /\ n <= Cardinality(public_keys)
    /\ required' = n
    /\ UNCHANGED <<public_keys, transactions, pending_transactions, completed_transactions>>

create_transaction ==
    /\ Len(transactions) < MaxWalletTxs
    /\ transactions' = Append(transactions,
           [signatures |-> {}, confirmed |-> FALSE, executed |-> FALSE])
    /\ pending_transactions' = pending_transactions \cup {Len(transactions) + 1}
    /\ UNCHANGED <<public_keys, required, completed_transactions>>

\* With _check_transaction_confirmation: once confirmed it stays so.
Signed(t, signers) ==
    LET now == transactions[t].signatures \cup signers
    IN [transactions EXCEPT ![t].signatures = now,
                            ![t].confirmed = @ \/ Cardinality(now) >= required]

sign_transaction(t, k) ==
    /\ t \in pending_transactions /\ k \in public_keys
    /\ transactions' = Signed(t, {k})
    /\ UNCHANGED <<public_keys, required, pending_transactions, completed_transactions>>

\* Whoever is not authorized is passed over.
add_multiple_signatures(t, signers) ==
    /\ t \in pending_transactions
    /\ transactions' = Signed(t, signers \cap public_keys)
    /\ UNCHANGED <<public_keys, required, pending_transactions, completed_transactions>>

\* Mutant: that it was confirmed once is enough.
is_transaction_confirmed_Once(t) == transactions[t].confirmed

is_transaction_confirmed(t) ==
    transactions[t].confirmed /\ Cardinality(transactions[t].signatures) >= required

execute_transaction(t) ==
    /\ t \in pending_transactions
    /\ is_transaction_confirmed(t) /\ ~transactions[t].executed
    /\ transactions' = [transactions EXCEPT ![t].executed = TRUE]
    /\ pending_transactions' = pending_transactions \ {t}
    /\ completed_transactions' = Append(completed_transactions, t)
    /\ UNCHANGED <<public_keys, required>>

MultisigNext ==
    \/ create_transaction
    \/ \E k \in Keys : add_public_key(k) \/ remove_public_key(k)
    \/ \E n \in 1 .. Cardinality(Keys) : set_required_signatures(n)
    \/ \E t \in DOMAIN transactions :
          \/ execute_transaction(t)
          \/ \E k \in Keys : sign_transaction(t, k)
          \/ \E S \in SUBSET Keys : add_multiple_signatures(t, S)

MultisigSpec == MultisigInit /\ [][MultisigNext]_multisigVars

-----------------------------------------------------------------------------
(* Properties *)

\* A transaction leaves the pending ones exactly when it is executed, with as many
\* different signers as are required then, although keys and the requirement have
\* changed since it was confirmed; what is executed takes no further signature and
\* is completed once (sign_transaction, execute_transaction).
ExecutedBySigners ==
    [][\A t \in DOMAIN transactions :
          /\ t \in pending_transactions \ pending_transactions' =>
                /\ Cardinality(transactions[t].signatures) >= required
                /\ completed_transactions' = Append(completed_transactions, t)
          /\ t \notin pending_transactions =>
                /\ transactions'[t] = transactions[t] /\ transactions[t].executed
                /\ Cardinality({i \in DOMAIN completed_transactions' :
                                   completed_transactions'[i] = t}) = 1]_multisigVars
=============================================================================
