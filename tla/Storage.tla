------------------------------- MODULE Storage -------------------------------
(***************************************************************************)
(* storage/models.js: the records of blocks, transactions, contracts,      *)
(* accounts and metadata, made from data, validated and kept in the lists  *)
(* of StorageManager.                                                      *)
(*                                                                         *)
(* A field's value is NULL, a falsy value such as 0 or the empty string,   *)
(* or any other.  Falsy values do not survive the conversion: a block      *)
(* number, a difficulty or a balance of 0 is NULL in the record.  Only the *)
(* fields that validate() always looks at are told apart, not token_type,  *)
(* which it asks for in transactions of the type `token`.                  *)
(*                                                                         *)
(* storage/database.js: the connection of DatabaseManager, whose calls     *)
(* wait for timers.  Time is counted in tenths of a second.  `called` is   *)
(* kept for the property.  Left out: operations, which answer made-up data *)
(* and change nothing, the errors, and the retries of a connect, which     *)
(* does not fail.                                                          *)
(***************************************************************************)
EXTENDS Integers, Sequences, SequencesExt

CONSTANTS
    RecordKeys,   \* truthy values of the field a record is looked up by
    MaxRecords,   \* bound on the records of a list
    MaxDbCalls    \* bound on the calls of connect, disconnect and test_connection

ASSUME StorageAssumption ==
    MaxRecords \in Nat /\ RecordKeys \subseteq Nat \ {0} /\ MaxDbCalls \in Nat

NULL == -1
Falsy == 0

\* Each kind: the field records are looked up by, and whether validate() asks
\* for it; the fields it asks for besides; and a condition on those.
BlockStorage ==
    [key |-> "block_number",
     needs |-> {"block_hash", "previous_block_hash", "timestamp", "difficulty", "miner",
                "total_reward", "merkle_root_hash", "block_size", "transaction_count"},
     either |-> {}, keyed |-> TRUE]

TransactionStorage ==
    [key |-> "block_number",
     needs |-> {"transaction_hash", "sender_address", "recipient_address", "fee", "timestamp", "status"},
     either |-> {"amount", "token_amount"}, keyed |-> FALSE]

ContractStorage ==
    [key |-> "contract_address",
     needs |-> {"contract_id", "contract_name", "bytecode", "abi", "creator", "deployment_time",
                "deployment_block", "address"},
     either |-> {}, keyed |-> TRUE]

AccountStorage ==
    [key |-> "address", needs |-> {"balance", "transaction_count"}, either |-> {}, keyed |-> TRUE]

MetadataStorage ==
    [key |-> "metadata_type", needs |-> {"data"}, either |-> {}, keyed |-> TRUE]

Models == {BlockStorage, TransactionStorage, ContractStorage, AccountStorage, MetadataStorage}

VARIABLES
    model,    \* the kind of record, one per behaviour
    kept,     \* StorageManager's list of that kind
    sources   \* the data each of its records was made from

storageVars == <<model, kept, sources>>

\* Data: all fields are set but one at most, which is NULL or falsy.
Fields(m) == m.needs \cup m.either \cup {m.key}
DataOf(m) ==
    {[f \in Fields(m) |-> IF f \in gone THEN v ELSE IF f = m.key THEN k ELSE 1] :
        gone \in {{f} : f \in Fields(m)} \cup {{}, m.either}, v \in {NULL, Falsy}, k \in RecordKeys}

\* Mutant: only what is missing becomes NULL.
FromData_Nullish(data) == data

\* from_..._data: `data.field || null` for every field.
FromData(data) == [f \in DOMAIN data |-> IF data[f] = Falsy THEN NULL ELSE data[f]]

\* The fields validate() complains about.
Errors(m, record) ==
    {f \in m.needs \cup IF m.keyed THEN {m.key} ELSE {} : record[f] = NULL}
        \cup {f \in m.either : \A g \in m.either : record[g] = NULL}

StorageInit ==
    /\ model \in Models
    /\ kept = <<>> /\ sources = <<>>

\* add_block and the like keep what they are given; records are validated, or
\* not, by the caller.
Add(data) ==
    /\ Len(kept) < MaxRecords
    /\ kept' = Append(kept, FromData(data)) /\ sources' = Append(sources, data)
    /\ UNCHANGED model

StorageManager_clear ==
    /\ kept' = <<>> /\ sources' = <<>>
    /\ UNCHANGED model

\* get_block_by_number, get_contract and get_account: the first with the key.
Find(k) ==
    LET i == SelectInSeq(kept, LAMBDA r : r[model.key] = k) IN IF i = 0 THEN NULL ELSE i

StorageNext == StorageManager_clear \/ \E data \in DataOf(model) : Add(data)

StorageSpec == StorageInit /\ [][StorageNext]_storageVars

-----------------------------------------------------------------------------
(* The connection *)

VARIABLES
    is_connected,
    timers,       \* what waits, in the order it was called, and for how long still
    dbCalls,      \* number of calls so far
    called        \* the last call that was not ignored

databaseVars == <<is_connected, timers, dbCalls, called>>

DatabaseInit == is_connected = FALSE /\ timers = <<>> /\ dbCalls = 0 /\ called = "none"

CONNECT_DELAY == 5   \* _connect_internal

\* Mutant: it takes longer to disconnect than to connect.
DISCONNECT_DELAY_Long == 8

DISCONNECT_DELAY == 2   \* _disconnect_internal

Waits(what) == Append(timers, [what |-> what,
    left |-> IF what = "disconnect" THEN DISCONNECT_DELAY ELSE CONNECT_DELAY])
AnotherCall == dbCalls < MaxDbCalls /\ dbCalls' = dbCalls + 1

\* Connected already or not.
connect ==
    /\ AnotherCall /\ timers' = Waits("connect") /\ called' = "connect"
    /\ UNCHANGED is_connected

\* Ignored while a first connect is still waiting.
disconnect ==
    /\ AnotherCall /\ is_connected
    /\ timers' = Waits("disconnect") /\ called' = "disconnect"
    /\ UNCHANGED is_connected

\* Connects and then disconnects whoever was connected.
test_connection ==
    /\ AnotherCall /\ timers' = Waits("test") /\ called' = "connect"
    /\ UNCHANGED is_connected

TimeGoesOn ==
    /\ timers # <<>> /\ \A i \in DOMAIN timers : timers[i].left > 0
    /\ timers' = [i \in DOMAIN timers |-> [timers[i] EXCEPT !.left = @ - 1]]
    /\ UNCHANGED <<is_connected, dbCalls, called>>

\* Of those that are due the first called.
TimerEnds ==
    \E i \in DOMAIN timers :
        LET rest == RemoveAt(timers, i) IN
        /\ timers[i].left = 0 /\ \A j \in 1 .. i - 1 : timers[j].left > 0
        /\ is_connected' = (timers[i].what # "disconnect")
        /\ IF timers[i].what = "test"
           THEN /\ timers' = Append(rest, [what |-> "disconnect", left |-> DISCONNECT_DELAY])
                /\ called' = "disconnect"
           ELSE timers' = rest /\ UNCHANGED called
        /\ UNCHANGED dbCalls

DatabaseNext == connect \/ disconnect \/ test_connection \/ TimeGoesOn \/ TimerEnds

DatabaseSpec == DatabaseInit /\ [][DatabaseNext]_databaseVars

-----------------------------------------------------------------------------
(* Properties *)

\* A record that validates has lost nothing that is asked for between data and
\* record, and every record is found by the key of its data, the first one of
\* a key shadowing the others; only a falsy key, such as the number of the
\* genesis block, finds nothing (from_..._data, validate, get_block_by_number).
StoredIsFound ==
    \A i \in DOMAIN kept :
        /\ Errors(model, kept[i]) = {} =>
               \A f \in model.needs : sources[i][f] = kept[i][f] /\ kept[i][f] # NULL
        /\ LET k == sources[i][model.key]
           IN  IF k \in {NULL, Falsy} THEN Find(Falsy) = NULL
               ELSE Find(k) # NULL /\ Find(k) <= i /\ sources[Find(k)][model.key] = k

\* Who connects after all others disconnected stays connected, although connecting
\* and disconnecting overlap and each sets the flag when its timer ends (connect,
\* disconnect, test_connection).
LastConnectStands == timers = <<>> /\ called = "connect" => is_connected
=============================================================================
