-------------------------------- MODULE Api --------------------------------
(***************************************************************************)
(* api/server.js (APIServer): servers that are started and stopped, and    *)
(* requests that are routed, read, handled and answered, several at a time *)
(* wherever a handler awaits.                                              *)
(*                                                                         *)
(* A path is its segments, "" after a trailing slash.  A block of the      *)
(* chain is the request that made it, which built on as many blocks as     *)
(* `built` says.  The consensus is the caller's and may fail; blocks and   *)
(* transactions out of a body are no instances, so the chain throws.       *)
(* Left out: what the answers carry beside their status, and headers.      *)
(***************************************************************************)
EXTENDS Integers, Sequences, FiniteSetsExt, SequencesExt, TLC

CONSTANTS
    ApiRequests,
    ApiPaths,     \* method and segments of the requests that come
    Mintable,     \* what may be minted in all: the token supply
    MaxServers    \* bound on the calls of start

ASSUME ApiAssumption == IsFiniteSet(ApiRequests) /\ Mintable \in Nat /\ MaxServers \in Nat

VARIABLES
    servers,      \* state of each server made
    server,       \* the last of them, 0 for none
    chain,        \* requests, in the order of their blocks
    minted,
    requests      \* path, stage, status and built of each request

serverVars == <<servers, server>>
apiVars == <<serverVars, chain, minted, requests>>

Route(method, path, handler) == [method |-> method, path |-> path, handler |-> handler]
Index == ":index"   \* any name of a parameter

\* In the order of the map.
initializeRoutes ==
    << Route("GET",  <<"api", "blocks">>, "getBlocks"),
       Route("GET",  <<"api", "blocks", Index>>, "getBlockByIndex"),
       Route("GET",  <<"api", "blocks", "hash", Index>>, "getBlockByHash"),
       Route("POST", <<"api", "blocks">>, "addBlock"),
       Route("GET",  <<"api", "transactions">>, "getTransactions"),
       Route("GET",  <<"api", "transactions", Index>>, "getTransactionById"),
       Route("POST", <<"api", "transactions">>, "addTransaction"),
       Route("GET",  <<"api", "wallets">>, "getWallets"),
       Route("GET",  <<"api", "wallets", Index>>, "getWallet"),
       Route("POST", <<"api", "wallets">>, "createWallet"),
       Route("GET",  <<"api", "tokenomics">>, "getTokenomics"),
       Route("GET",  <<"api", "tokenomics", "supply">>, "getTokenSupply"),
       Route("POST", <<"api", "tokenomics", "mint">>, "mintTokens"),
       Route("GET",  <<"api", "consensus">>, "getConsensusInfo"),
       Route("POST", <<"api", "consensus", "mine">>, "mineBlock"),
       Route("POST", <<"api", "consensus", "forge">>, "forgeBlock"),
       Route("GET",  <<"api", "health">>, "getHealth") >>

\* The key is split at every colon and its second part is the pattern: the
\* parameter, and what is behind it, is gone.
PatternOf(path) ==
    IF Index \in ToSet(path)
    THEN SubSeq(path, 1, SelectInSeq(path, LAMBDA s : s = Index) - 1) \o <<"">> ELSE path

\* The first route that fits, or 0.
RouteOf(p) ==
    SelectInSeq(initializeRoutes,
        LAMBDA route : route.method = p.method /\ PatternOf(route.path) = p.path)

HandlerOf(p) == IF RouteOf(p) = 0 THEN "none" ELSE initializeRoutes[RouteOf(p)].handler

\* The segments of the path where the pattern has a parameter.
extractParams(pattern, path) == {path[i] : i \in {j \in DOMAIN pattern : pattern[j] = Index}}
ParamsOf(p) == extractParams(PatternOf(initializeRoutes[RouteOf(p)].path), p.path)

\* Blocks are found by their index and by their hash, the genesis block among them;
\* the blocks made here have no transactions.
Found(params, things) == IF params \cap things # {} THEN 200 ELSE 500
HashOf(i) == "0x" \o ToString(i)
getBlockByIndex(params) == Found(params, {ToString(i) : i \in 0 .. Len(chain)})
getBlockByHash(params) == Found(params, {HashOf(i) : i \in 0 .. Len(chain)})
getTransactionById(params) == Found(params, {})

Finders == {"getBlockByIndex", "getBlockByHash", "getTransactionById"}
Readers == {"getBlocks", "getTransactions", "getWallets", "getWallet", "getTokenomics",
            "getTokenSupply", "getConsensusInfo", "getHealth"}

\* The status of the answer to a GET.
Answer(p) ==
    CASE HandlerOf(p) = "none" -> 404
      [] HandlerOf(p) \in Readers -> 200
      [] HandlerOf(p) = "getBlockByIndex" -> getBlockByIndex(ParamsOf(p))
      [] HandlerOf(p) = "getBlockByHash" -> getBlockByHash(ParamsOf(p))
      [] HandlerOf(p) = "getTransactionById" -> getTransactionById(ParamsOf(p))

NoRequest == [method |-> "", path |-> <<>>, at |-> "none", status |-> 0, built |-> 0]

ApiInit ==
    /\ servers = <<>> /\ server = 0 /\ chain = <<>> /\ minted = 0
    /\ requests = [r \in ApiRequests |-> NoRequest]

Listening == \E s \in DOMAIN servers : servers[s] = "listening"

\* The server before, listening or not, is forgotten.
start ==
    /\ Len(servers) < MaxServers
    /\ servers' = Append(servers, "binding") /\ server' = Len(servers) + 1
    /\ UNCHANGED <<chain, minted, requests>>

\* One server has the port; the others fail.
Bound(s) ==
    /\ servers[s] = "binding"
    /\ servers' = [servers EXCEPT ![s] = IF Listening THEN "failed" ELSE "listening"]
    /\ UNCHANGED <<server, chain, minted, requests>>

\* Any other is refused with an error, none is answered at once.
stop ==
    /\ server # 0 /\ servers[server] = "listening"
    /\ servers' = [servers EXCEPT ![server] = "closed"]
    /\ UNCHANGED <<server, chain, minted, requests>>

Sent(r, status) == requests' = [requests EXCEPT ![r].at = "sent", ![r].status = status]

\* No await before the answer to a GET, or where no route fits.
handleRequest(r, p) ==
    /\ Listening /\ requests[r].at = "none"
    /\ LET answered == p.method = "GET" \/ HandlerOf(p) = "none"
       IN  requests' = [requests EXCEPT ![r] =
               [method |-> p.method, path |-> p.path, built |-> 0,
                at |-> IF answered THEN "sent" ELSE "body",
                status |-> IF answered THEN Answer(p) ELSE 0]]
    /\ UNCHANGED <<serverVars, chain, minted>>

\* It cannot be read: the error is the answer.
parseRequestBody(r) ==
    /\ requests[r].at = "body" /\ Sent(r, 500)
    /\ UNCHANGED <<serverVars, chain, minted>>

ToHandle(r, handlers) == requests[r].at = "body" /\ HandlerOf(requests[r]) \in handlers

\* Also addTransaction.
addBlock(r) ==
    /\ ToHandle(r, {"addBlock", "addTransaction"}) /\ Sent(r, 500)
    /\ UNCHANGED <<serverVars, chain, minted>>

\* Always the same wallet.
createWallet(r) ==
    /\ ToHandle(r, {"createWallet"}) /\ Sent(r, 200)
    /\ UNCHANGED <<serverVars, chain, minted>>

mintTokensFor(r) ==
    /\ ToHandle(r, {"mintTokens"})
    /\ minted' = IF minted < Mintable THEN minted + 1 ELSE minted
    /\ Sent(r, IF minted < Mintable THEN 200 ELSE 500)
    /\ UNCHANGED <<serverVars, chain>>

\* mineBlock and forgeBlock alike: the consensus builds on the latest block.
mineBlock(r) ==
    /\ ToHandle(r, {"mineBlock", "forgeBlock"})
    /\ requests' = [requests EXCEPT ![r].at = "making", ![r].built = Len(chain)]
    /\ UNCHANGED <<serverVars, chain, minted>>

\* Mutant: on whatever block it was built.
Linked_Any(r) == TRUE

Linked(r) == requests[r].built = Len(chain)

\* Whether the chain took the block or not is not looked at.
Made(r) ==
    /\ requests[r].at = "making"
    /\ chain' = IF Linked(r) THEN Append(chain, r) ELSE chain
    /\ Sent(r, 200)
    /\ UNCHANGED <<serverVars, minted>>

\* There is no consensus of the kind, it fails, or the block has transactions,
\* which are no instances.
NotMade(r) ==
    /\ requests[r].at = "making" /\ Sent(r, 500)
    /\ UNCHANGED <<serverVars, chain, minted>>

ApiNext ==
    \/ start \/ stop \/ \E s \in DOMAIN servers : Bound(s)
    \/ \E r \in ApiRequests :
          \/ \E p \in ApiPaths : handleRequest(r, p)
          \/ parseRequestBody(r) \/ addBlock(r) \/ createWallet(r) \/ mintTokensFor(r)
          \/ mineBlock(r) \/ Made(r) \/ NotMade(r)

ApiSpec == ApiInit /\ [][ApiNext]_apiVars

-----------------------------------------------------------------------------
(* Properties *)

\* What is answered is what was done: a block in the chain stands on those it was
\* built on and its request succeeded, a request for a block that succeeded without
\* one lost its place to another (mineBlock), as much is minted as was answered with
\* success, nothing is found by a parameter (handleRequest), and of all servers
\* one listens at most (start).
AnswersAreTrue ==
    /\ \A i \in DOMAIN chain :
          requests[chain[i]].built = i - 1 /\ requests[chain[i]].status = 200
    /\ \A r \in ApiRequests :
          requests[r].status = 200 =>
              LET handler == HandlerOf(requests[r]) IN
              /\ handler \notin Finders \cup {"addBlock", "addTransaction"}
              /\ handler \in {"mineBlock", "forgeBlock"} => r \in ToSet(chain) \/ requests[r].built < Len(chain)
    /\ minted = Cardinality({r \in ApiRequests :
                    requests[r].status = 200 /\ HandlerOf(requests[r]) = "mintTokens"})
    /\ \A s, t \in DOMAIN servers :
          servers[s] = "listening" /\ servers[t] = "listening" => s = t
=============================================================================
