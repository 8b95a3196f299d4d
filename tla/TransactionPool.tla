-------------------------- MODULE TransactionPool --------------------------
(***************************************************************************)
(* networking/mempool.js (TransactionPool): two maps of transactions and   *)
(* a count.  A transaction without an id is given a key of its own in the  *)
(* first map and the key `undefined` in the second.                        *)
(*                                                                         *)
(* Left out: the maps nothing fills (fees, valid transactions, cache,      *)
(* pending claims) and the statistics taken of them.                       *)
(***************************************************************************)
EXTENDS Integers, FiniteSets

CONSTANTS
    PoolTransactions,  \* transactions
    Nameless,          \* those without an id
    MinPoolCount       \* bound on how far the count falls

ASSUME TransactionPoolAssumption ==
    Nameless \subseteq PoolTransactions /\ MinPoolCount \in Int

VARIABLES
    transactions,      \* the transactions in the map by key
    transaction_map,   \* those in the map by id
    transaction_count,
    expired,           \* transactions older than transaction_lifetime
    fee_claims,        \* the keys of transaction_fee_claims
    miscounted         \* a nameless one was taken out by its id

poolVars == <<transactions, transaction_map, transaction_count, expired, fee_claims, miscounted>>

PoolInit ==
    /\ transactions = {} /\ transaction_map = {} /\ transaction_count = 0
    /\ expired = {} /\ fee_claims = {} /\ miscounted = FALSE

\* The next nameless transaction takes the place of the one before in the second map.
Pool_add_transaction(t) ==
    /\ t \notin transactions
    /\ transactions' = transactions \cup {t}
    /\ transaction_map' = {t} \cup IF t \in Nameless THEN transaction_map \ Nameless
                                                   ELSE transaction_map
    /\ transaction_count' = transaction_count + 1
    /\ expired' = expired \ {t}
    /\ UNCHANGED <<fee_claims, miscounted>>

\* Mutant: the second map keeps the transaction.
TakenOut_ByKey(t) == transaction_map

\* What is left of the second map: the transaction is deleted by its id, which
\* all the nameless ones share.
TakenOut(t) == IF t \in Nameless THEN transaction_map \ Nameless ELSE transaction_map \ {t}

\* By the key in the first map.
Pool_remove_transaction(t) ==
    /\ t \in transactions /\ transaction_count > MinPoolCount
    /\ transactions' = transactions \ {t}
    /\ transaction_map' = TakenOut(t)
    /\ transaction_count' = transaction_count - 1
    /\ UNCHANGED <<expired, fee_claims, miscounted>>

\* By an id that is undefined: the nameless transaction of the second map is found
\* and counted out, and stays in the first.
RemoveUndefined ==
    /\ transaction_map \cap Nameless # {} /\ transaction_count > MinPoolCount
    /\ transaction_map' = transaction_map \ Nameless
    /\ transaction_count' = transaction_count - 1
    /\ miscounted' = TRUE
    /\ UNCHANGED <<transactions, expired, fee_claims>>

remove_expired_transactions ==
    LET out == transactions \cap expired IN
    /\ out # {} /\ transaction_count - Cardinality(out) >= MinPoolCount
    /\ transactions' = transactions \ out
    /\ transaction_map' = IF out \cap Nameless = {} THEN transaction_map \ out
                                                    ELSE transaction_map \ (out \cup Nameless)
    /\ transaction_count' = transaction_count - Cardinality(out)
    /\ fee_claims' = fee_claims \cup out
    /\ UNCHANGED <<expired, miscounted>>

Expires(t) ==
    /\ t \in transactions /\ expired' = expired \cup {t}
    /\ UNCHANGED <<transactions, transaction_map, transaction_count, fee_claims, miscounted>>

handle_fee_claim(t) ==
    /\ fee_claims' = fee_claims \cup {t}
    /\ UNCHANGED <<transactions, transaction_map, transaction_count, expired, miscounted>>

Pool_clear ==
    /\ transactions' = {} /\ transaction_map' = {} /\ transaction_count' = 0
    /\ fee_claims' = {} /\ miscounted' = FALSE
    /\ UNCHANGED expired

PoolNext ==
    \/ \E t \in PoolTransactions :
          \/ Pool_add_transaction(t) \/ Pool_remove_transaction(t)
          \/ Expires(t) \/ handle_fee_claim(t)
    \/ RemoveUndefined \/ remove_expired_transactions \/ Pool_clear

PoolSpec == PoolInit /\ [][PoolNext]_poolVars

-----------------------------------------------------------------------------
(* Properties *)

\* A transaction with an id is in both maps or in none, and the count is that of the
\* first map until a transaction without one was taken out by its id
\* (add_transaction, remove_transaction, remove_expired_transactions).
PoolMapsAgree ==
    /\ transaction_map \subseteq transactions
    /\ transactions \ Nameless \subseteq transaction_map
    /\ ~miscounted => transaction_count = Cardinality(transactions)
=============================================================================
