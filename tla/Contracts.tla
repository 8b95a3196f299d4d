----------------------------- MODULE Contracts -----------------------------
(***************************************************************************)
(* smartcontracts/compiler.js (ContractDeployer), executor.js and vm.js    *)
(* over the one VMContext of runtime/vm_context.js.  Deployments, actions  *)
(* and executions await.  All draw ids, addresses and hashes from the      *)
(* context's pseudo-random sequence; executions share the registers of the *)
(* virtual machine as well, which are a specification of their own.        *)
(*                                                                         *)
(* A drawn value is its position in the sequence, which is one position    *)
(* per name; the period of the generator is not reached.  The machine runs *)
(* the same operations whatever the code is, and every execution succeeds. *)
(* Left out: libraries, event handlers, options, the compiler, whose       *)
(* answer is fixed, and the sandbox, in which every execution fails.       *)
(***************************************************************************)
EXTENDS Integers, Sequences, FiniteSets, FiniteSetsExt, Functions

CONSTANTS
    ContractNames,
    Addresses,      \* addresses used with the executor
    Executions,     \* calls of execute_code, each made once
    MaxContexts,    \* bound on the calls of resetVMContext
    MaxDraws        \* bound on the names drawn from one context

ASSUME ContractsAssumption == {MaxContexts, MaxDraws} \subseteq Nat

VARIABLES
    random_state,        \* position in the sequence
    contexts,            \* number of resets so far
    compiler_cache,      \* contracts the compiler knows
    deployment_status,   \* function from ids to status
    deployment_history,  \* sequence of id and status
    deploying,           \* history entries whose timer runs
    deployed_contracts,  \* function from addresses to the history entry deployed
    contract_storage,    \* addresses with a contract, for the executor
    acting,              \* number of actions that await, per address
    interaction_logs,    \* transaction hash of each action
    created,             \* addresses execute_contract_creation has answered with
    gas_used,            \* register of the machine
    executing,           \* per call: none, waiting or what it reports
    alone                \* calls during which no other was waiting

contractsVars == <<random_state, contexts, compiler_cache, deployment_status, deployment_history,
                   deploying, deployed_contracts, contract_storage, acting, interaction_logs,
                   created>>

deployerVars == <<compiler_cache, deployment_status, deployment_history, deploying, deployed_contracts>>
executorVars == <<contract_storage, acting, interaction_logs>>
machineVars == <<gas_used, executing, alone>>

NotCalled == -1
Waiting == -2

\* The operations that are run and their gas, which is all they do: the handlers only
\* log their names.
operations == [STOP |-> 0, ADD |-> 3, MUL |-> 5, LT |-> 3, EQ |-> 3, ADDRESS |-> 2]
CodeGas == SumFunction(operations)

ContractsInit ==
    /\ random_state = 0 /\ contexts = 0
    /\ compiler_cache = {} /\ deployment_status = <<>> /\ deployment_history = <<>>
    /\ deploying = {} /\ deployed_contracts = <<>>
    /\ contract_storage = {} /\ acting = [a \in Addresses |-> 0] /\ interaction_logs = <<>>
    /\ created = {}

\* Mutant: a name is read without going on in the sequence.
AfterDraws_Same(n) == random_state

AfterDraws(n) == random_state + n

Draws(n) ==
    /\ random_state + n <= MaxDraws
    /\ random_state' = AfterDraws(n)
    /\ UNCHANGED contexts

Set(f, x, v) == [y \in DOMAIN f \cup {x} |-> IF y = x THEN v ELSE f[y]]

\* The sequence starts again from its seed.
resetVMContext ==
    /\ contexts < MaxContexts /\ contexts' = contexts + 1
    /\ random_state' = 0
    /\ UNCHANGED <<deployerVars, executorVars, created>>

add_contract_to_cache(n) ==
    /\ compiler_cache' = compiler_cache \cup {n}
    /\ UNCHANGED <<random_state, contexts, deployment_status, deployment_history, deploying,
                   deployed_contracts, executorVars, created>>

FirstWithId(id) == Min({i \in DOMAIN deployment_history : deployment_history[i].id = id})

HasId(id) == \E i \in DOMAIN deployment_history : deployment_history[i].id = id

\* Unknown to the compiler: the deployment fails, with it the first entry that had its
\* id (since a reset one may), and deploy answers with an address all the same, at
\* which there is nothing.
DeployUnknown(n) ==
    /\ n \notin compiler_cache /\ Draws(2)
    /\ deployment_status' = Set(deployment_status, random_state, "failed")
    /\ deployment_history' = IF HasId(random_state)
                             THEN [deployment_history EXCEPT ![FirstWithId(random_state)].status = "failed"]
                             ELSE deployment_history
    /\ UNCHANGED <<compiler_cache, deploying, deployed_contracts, executorVars, created>>

deploy_contract(n) ==
    /\ n \in compiler_cache /\ Draws(1)
    /\ deployment_status' = Set(deployment_status, random_state, "deploying")
    /\ deployment_history' = Append(deployment_history, [id |-> random_state, status |-> "deploying"])
    /\ deploying' = deploying \cup {Len(deployment_history')}
    /\ UNCHANGED <<compiler_cache, deployed_contracts, executorVars, created>>

\* The address is drawn after the wait; the first entry with the id counts
\* as completed.
_execute_deployment(i) ==
    LET id == deployment_history[i].id IN
    /\ i \in deploying /\ Draws(1)
    /\ deploying' = deploying \ {i}
    /\ deployed_contracts' = Set(deployed_contracts, random_state, i)
    /\ deployment_status' = Set(deployment_status, id, "completed")
    /\ deployment_history' = [deployment_history EXCEPT ![FirstWithId(id)].status = "completed"]
    /\ UNCHANGED <<compiler_cache, executorVars, created>>

SmartContractExecutor_initialize ==
    /\ contract_storage' = {} /\ interaction_logs' = <<>>
    /\ UNCHANGED <<random_state, contexts, deployerVars, acting, created>>

create_contract(a) ==
    /\ contract_storage' = contract_storage \cup {a}
    /\ UNCHANGED <<random_state, contexts, deployerVars, acting, interaction_logs, created>>

delete_contract(a) ==
    /\ contract_storage' = contract_storage \ {a}
    /\ UNCHANGED <<random_state, contexts, deployerVars, acting, interaction_logs, created>>

execute_action(a) ==
    /\ a \in contract_storage /\ acting' = [acting EXCEPT ![a] = @ + 1]
    /\ random_state + SumFunctionOnSet(acting', Addresses) <= MaxDraws
    /\ UNCHANGED <<random_state, contexts, deployerVars, contract_storage, interaction_logs, created>>

\* The contract may be gone by now; the action succeeds.
_execute_internal(a) ==
    /\ acting[a] > 0 /\ Draws(1)
    /\ acting' = [acting EXCEPT ![a] = @ - 1]
    /\ interaction_logs' = Append(interaction_logs, random_state)
    /\ UNCHANGED <<deployerVars, contract_storage, created>>

\* What is left to do when the execution, one of the machine's below, has succeeded.
execute_contract_creation ==
    /\ Draws(1)
    /\ created' = created \cup {random_state}
    /\ UNCHANGED <<deployerVars, executorVars>>

ContractsNext ==
    \/ resetVMContext \/ SmartContractExecutor_initialize \/ execute_contract_creation
    \/ \E n \in ContractNames : add_contract_to_cache(n) \/ DeployUnknown(n) \/ deploy_contract(n)
    \/ \E i \in deploying : _execute_deployment(i)
    \/ \E a \in Addresses :
           create_contract(a) \/ delete_contract(a) \/ execute_action(a) \/ _execute_internal(a)

ContractsSpec == ContractsInit /\ [][ContractsNext]_contractsVars

-----------------------------------------------------------------------------
(* The virtual machine *)

MachineInit == gas_used = 0 /\ executing = [e \in Executions |-> NotCalled] /\ alone = {}

\* Mutant: the registers are left as the last execution left them.
AtStart_Kept(gas) == gas

\* initialize().
AtStart(gas) == 0

WaitingNow == {e \in Executions : executing[e] = Waiting}

execute_code(e) ==
    /\ executing[e] = NotCalled
    /\ gas_used' = AtStart(gas_used)
    /\ executing' = [executing EXCEPT ![e] = Waiting]
    /\ alone' = IF WaitingNow = {} THEN {e} \cup alone ELSE alone \ WaitingNow

\* Every execution adds to the register that the last start has cleared.
_execute_contract_code(e) ==
    /\ executing[e] = Waiting
    /\ gas_used' = gas_used + CodeGas
    /\ executing' = [executing EXCEPT ![e] = gas_used']
    /\ UNCHANGED alone

MachineNext == \E e \in Executions : execute_code(e) \/ _execute_contract_code(e)

MachineSpec == MachineInit /\ [][MachineNext]_machineVars

-----------------------------------------------------------------------------

\* Until the context is reset no name is drawn twice, however deployments, actions
\* and creations overlap: every deployment has its own entry and address, each entry
\* is completed once it is not waited for, no hash is an address or an id, and no
\* contract the machine creates has the address of one that was deployed, the id of a
\* deployment or a hash (deploy_contract, _execute_internal, execute_contract_creation).
DeploymentsKeepApart ==
    contexts = 0 =>
        /\ \A i, j \in DOMAIN deployment_history :
               i # j => deployment_history[i].id # deployment_history[j].id
        /\ \A i \in DOMAIN deployment_history :
               \/ i \in deploying /\ deployment_history[i].status = "deploying"
               \/ /\ deployment_history[i].status = "completed"
                  /\ \E a \in DOMAIN deployed_contracts : deployed_contracts[a] = i
        /\ \A k \in DOMAIN interaction_logs :
               interaction_logs[k] \notin DOMAIN deployed_contracts \cup DOMAIN deployment_status
        /\ created \cap (DOMAIN deployed_contracts \cup DOMAIN deployment_status
                              \cup Range(interaction_logs)) = {}

\* An execution during which no other waited reports its own gas, whatever the
\* executions before it left in the registers (execute_code).
ExecutionsPayAlone == \A e \in alone : executing[e] \in {Waiting, CodeGas}
=============================================================================
