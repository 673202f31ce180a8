------------------------------ MODULE Execution -----------------------------
(***************************************************************************)
(* Executing and simulating transactions (client/execution.go) on clients  *)
(* that share a connection of the caller's or own one (client/client.go):  *)
(* ExecuteTransactionBlock, DryRunTransaction, DevInspectTransactionBlock  *)
(* and Close.  Meanwhile the chain goes on: what a transaction does        *)
(* depends on the state it is executed in, and the reference gas price     *)
(* changes with the epoch.  A request whose deadline passes may still      *)
(* reach the node later, and the caller may submit it again.               *)
(*                                                                         *)
(* What a pointer points to is <<value>>, <<>> if it is nil; a slice that  *)
(* is nil is empty.                                                        *)
(***************************************************************************)
EXTENDS ResponseOps, ClientOptions

CONSTANTS
  Clients,        \* clients a program makes
  OptionLists,    \* options each is made with
  Endpoints,      \* endpoints they are given
  Txs,            \* transactions; "system" stands for bytes that do not decode
  Outcomes,       \* what a transaction does, by the state it runs in: a sequence
                  \* of [success, description, owner, events, outputs]
  Signers,        \* the signatures each transaction needs, its sponsor's too
  SignatureLists, \* lists of signatures given to ExecuteTransactionBlock
  ExecuteOptions, \* options given to it
  Prices,         \* reference gas prices, and prices given to DevInspect
  NodeMay,        \* ways the node may fail
  MaxVersion      \* bound: state changes of the chain

ASSUME ExecutionAssumptions ==
  /\ DOMAIN OptionLists = Clients
  /\ Outcomes \in Seq(ToSet(Outcomes)) /\ Outcomes # <<>>
  /\ MaxVersion \in Nat
  /\ Prices \subseteq Nat \ {0}
  /\ NodeMay \subseteq {"timeout", "empty"}

ASSUME ConnectionAssumptions ==
  /\ \A c \in Clients : OptionLists[c] \subseteq Seq(Options)
  /\ Endpoints \subseteq [scheme : {"none", "grpc", "https"}, rest : {"", "host/path", "host", "host:443"}]

VARIABLES
  client,    \* the clients: the connection each uses, Unset before New, or "error"
  asked,     \* the last New before any call: [endpoint, options, dialled, made], or Unset
  open,      \* connections that are open: <<"caller">> and <<"ownedConn", c>>
  version,   \* state changes of the chain so far
  price,     \* the reference gas price
  done,      \* executed transactions: <<[at, signatures, given]>>, or <<>>; given
             \* is history: what the caller of the request that arrived gave
  late,      \* requests the caller gave up that may still reach the node
  call,      \* the call in progress, or the last one
  pc,        \* "idle", or the request it is at
  result,    \* "none", "ok" or "error"
  resp,      \* what it returned, a pointer
  sim,       \* the last simulation: [data, checks, at], or Unset
  dry,       \* the last dry run: [tx, at, resp], or Unset
  quoted,    \* history: reference prices during the call
  trouble    \* history: the call met a failure

vars == <<client, asked, open, version, price, done, late, call, pc, result, resp, sim, dry,
          quoted, trouble>>
chainVars == <<version, price, done, late>>
clientVars == <<client, asked, open>>

CallerConn == <<"caller">>
ConnOf(c) == IF client[c] = "ownedConn" THEN <<"ownedConn", c>> ELSE CallerConn
Made(c) == client[c] \notin {Unset, "error"}

-----------------------------------------------------------------------------
(***************************************************************************)
(* EXTERNAL: the node.                                                     *)
(***************************************************************************)
OutcomeAt(at) == Outcomes[(at % Len(Outcomes)) + 1]

WriteOf(id, owner, op, at) ==
  [id |-> id, input |-> IF op = "CREATED" THEN "DOES_NOT_EXIST" ELSE "EXISTS",
   output |-> "OBJECT_WRITE", op |-> op, version |-> at + 1, inputVersion |-> at,
   owner |-> owner, write |-> Unset]

Entries ==
  [id : {"gas", "new"}, input : {"DOES_NOT_EXIST", "EXISTS"}, output : {"OBJECT_WRITE"},
   op : {"CREATED", "NONE"}, version : Nat, inputVersion : Nat,
   owner : {"ADDRESS"} \cup {o.owner : o \in ToSet(Outcomes)}, write : {Unset}]

EffectsOfOutcomes ==
  [lamport : Nat,
   status : [success : {o.success : o \in ToSet(Outcomes)},
             description : {o.description : o \in ToSet(Outcomes)}],
   gasObject : Entries, changed : Seq(Entries)]

(* What the node sends is not nil, and the arguments whose values a command *)
(* changed are of the kinds the bindings know.                              *)
ASSUME NodeAssumptions ==
  /\ Unset \notin Txs /\ Unset \notin Entries /\ Unset \notin EffectsOfOutcomes
  /\ \A o \in ToSet(Outcomes) : \A i \in DOMAIN o.outputs : \A j \in DOMAIN o.outputs[i].mutated :
       o.outputs[i].mutated[j].argument.kind \in {"GAS", "INPUT", "RESULT"}

(* A transaction that fails changes its gas coin only. *)
ExecutedTransaction(tx, signatures, at) ==
  LET o == OutcomeAt(at)
      gas == WriteOf("gas", "ADDRESS", "NONE", at)
      ok == o.success = "yes"
  IN [p \in Fields |->
        CASE p = "transaction.bcs" -> tx
          [] p = "signatures" -> signatures
          [] p = "effects" ->
               [lamport |-> at + 1, status |-> [success |-> o.success, description |-> o.description],
                gasObject |-> gas,
                changed |-> IF ok THEN <<gas, WriteOf("new", o.owner, "CREATED", at)>> ELSE <<gas>>]
          [] p = "events" -> IF ok THEN o.events ELSE <<>>
          [] p = "balance_changes" -> <<"ok">>
          [] OTHER -> at]

(* Each signer has signed once, in whatever order. *)
Signed(tx, signatures) == IsInjective(signatures) /\ ToSet(signatures) = Signers[tx]

(* A transaction is executed once, however often it arrives. *)
Arrives(request) ==
  IF done[request.tx] = <<>>
    THEN /\ done' = [done EXCEPT ![request.tx] =
                       <<[at |-> version, signatures |-> request.signatures, given |-> request.given]>>]
         /\ version' = version + 1
    ELSE UNCHANGED <<done, version>>

(* Somebody else's transaction, or a new epoch. *)
ChainGoesOn(newPrice) ==
  /\ version < MaxVersion
  /\ version' = version + 1
  /\ price' = newPrice
  /\ quoted' = IF pc = "idle" THEN quoted ELSE quoted \cup {newPrice}
  /\ UNCHANGED <<clientVars, done, late, call, pc, result, resp, sim, dry, trouble>>

LateArrival(request) ==
  /\ Arrives(request)
  /\ late' = late \ {request}
  /\ UNCHANGED <<clientVars, price, call, pc, result, resp, sim, dry, quoted, trouble>>

(* The answer to a simulation: transaction if some path leads there. *)
SimulateTransactionResponse(tx, at, paths) ==
  LET masked == {p \in Fields : <<"transaction", p>> \in paths}
  IN [transaction |-> IF masked = {} THEN <<>> ELSE <<Masked(ExecutedTransaction(tx, <<>>, at), masked)>>,
      command_outputs |-> IF <<"command_outputs">> \in paths /\ OutcomeAt(at).success = "yes"
                            THEN OutcomeAt(at).outputs ELSE <<>>]

-----------------------------------------------------------------------------
(***************************************************************************)
(* The client.                                                             *)
(***************************************************************************)
Init ==
  /\ client = [c \in Clients |-> Unset] /\ asked = Unset
  /\ open = {CallerConn}
  /\ version = 0 /\ price \in Prices /\ late = {}
  /\ done = [t \in Txs |-> <<>>]
  /\ call = [name |-> "none"] /\ pc = "idle" /\ result = "none" /\ resp = <<>>
  /\ sim = Unset /\ dry = Unset /\ quoted = {} /\ trouble = "no"

(* The program makes its clients before its first call. *)
NewFor(c, endpoint, options, dialled) ==
  LET made == New(endpoint, options, dialled)
  IN /\ client[c] = Unset /\ call.name = "none"
     /\ client' = [client EXCEPT ![c] = IF made.err = "none" THEN made.uses ELSE "error"]
     /\ asked' = [endpoint |-> endpoint, options |-> options, dialled |-> dialled, made |-> made]
     /\ open' = IF made.uses = "ownedConn" THEN open \cup {<<"ownedConn", c>>} ELSE open
     /\ UNCHANGED <<chainVars, call, pc, result, resp, sim, dry, quoted, trouble>>

(* Mutant: the connection is closed whosever it is. *)
Close_any(c) ==
  /\ Made(c) /\ ConnOf(c) \in open
  /\ open' = open \ {ConnOf(c)}
  /\ UNCHANGED <<chainVars, client, asked, call, pc, result, resp, sim, dry, quoted, trouble>>

(* Only a connection of its own is closed; calls may be in progress. *)
Close(c) ==
  /\ Made(c) /\ ConnOf(c) \in open
  /\ open' = IF client[c] = "ownedConn" THEN open \ {ConnOf(c)} ELSE open
  /\ UNCHANGED <<chainVars, client, asked, call, pc, result, resp, sim, dry, quoted, trouble>>

Begin(newCall, at) ==
  /\ pc = "idle" /\ Made(newCall.client)
  /\ call' = newCall /\ pc' = at
  /\ result' = "none" /\ resp' = <<>> /\ sim' = Unset
  /\ quoted' = {price} /\ trouble' = "no" /\ asked' = Unset
  /\ UNCHANGED <<client, open, chainVars, dry>>

Fail == pc' = "idle" /\ result' = "error" /\ resp' = <<>>
Return(response) == pc' = "idle" /\ result' = "ok" /\ resp' = response

(* A nil response is "node returned no transaction". *)
ReturnAnswer(response) == IF response = <<>> THEN Fail ELSE Return(response)

(* The serialized signature of each form, or an error. *)
SignatureBytes(signature) ==
  CASE signature[1] \in {"Ed25519", "Secp256k1", "Secp256r1", "Base64Data", "bytes"} -> signature[2]
    [] signature[1] = "text" /\ signature[2] # "not base64" -> signature[2]
    [] OTHER -> "error"

(* Mutant: each signature is put in front of those before it. *)
UserSignatures_reversed(signatures) ==
  Reverse([i \in DOMAIN signatures |-> SignatureBytes(signatures[i])])

UserSignatures(signatures) == [i \in DOMAIN signatures |-> SignatureBytes(signatures[i])]

(* All signatures convert before anything is sent. *)
ExecuteTransactionBlock(c, tx, signatures, options) ==
  LET bytes == UserSignatures(signatures)
      this == [name |-> "Execute", client |-> c, tx |-> tx, given |-> signatures,
               signatures |-> bytes, options |-> options]
  IN IF "error" \in ToSet(bytes)
       THEN /\ pc = "idle" /\ Made(c)
            /\ call' = this /\ Fail /\ trouble' = "yes" /\ asked' = Unset
            /\ UNCHANGED <<client, open, chainVars, sim, dry, quoted>>
       ELSE Begin(this, "execute")

(* What is sent, and what the caller gave. *)
Request == [tx |-> call.tx, signatures |-> call.signatures, given |-> call.given]

(* The node executes the transaction and answers; empty is an answer        *)
(* without one.                                                             *)
ExecuteTransaction(empty) ==
  LET executed == done'[call.tx][1]
      answer == Masked(ExecutedTransaction(call.tx, executed.signatures, executed.at),
                       ResponseReadMaskPaths(call.options))
  IN /\ pc = "execute" /\ ConnOf(call.client) \in open
     /\ Signed(call.tx, call.signatures)
     /\ Arrives(Request)
     /\ IF empty THEN ReturnAnswer(<<>>) /\ trouble' = "yes"
        ELSE ReturnAnswer(<<ToInternalType(answer, call.options)>>) /\ UNCHANGED trouble
     /\ UNCHANGED <<clientVars, price, late, call, sim, dry, quoted>>

(* The node refuses a transaction that not every signer has signed. *)
ExecuteTransactionRefused ==
  /\ pc = "execute" /\ ConnOf(call.client) \in open
  /\ ~ Signed(call.tx, call.signatures)
  /\ Fail /\ trouble' = "yes"
  /\ UNCHANGED <<clientVars, chainVars, call, sim, dry, quoted>>

SimulateOptions == {"Effects", "Events", "BalanceChanges"}

(* Mutant: object changes are not asked for. *)
DryRunOptions_simulate == SimulateOptions

DryRunOptions == {"Effects", "Events", "ObjectChanges", "BalanceChanges"}

PrefixPaths(prefix, paths) == {<<prefix, p>> : p \in paths}

DryRunTransaction(c, tx) ==
  Begin([name |-> "DryRun", client |-> c, tx |-> tx, options |-> DryRunOptions, extra |-> {},
         checks |-> "ENABLED", data |-> [kind |-> tx]], "simulate")

(* DevInspectTransactionData: the kind wrapped without decoding it. *)
DevInspectTransactionData(tx, sender, gasPrice) ==
  [kind |-> tx, sender |-> sender, payment |-> <<>>, owner |-> sender, price |-> gasPrice,
   budget |-> "devInspectGasBudget", expiration |-> "None"]

(* Mutants: only a nil price is replaced; command_outputs is not asked for. *)
NeedsReferencePrice_nil(gasPrice) == gasPrice = -1

DevInspectPaths_none == {}

(* A nil price, here -1, is 0, and 0 stands for the reference gas price. *)
NeedsReferencePrice(gasPrice) == gasPrice <= 0

DevInspectPaths == {<<"command_outputs">>}

DevInspectTransactionBlock(c, tx, gasPrice) ==
  Begin([name |-> "DevInspect", client |-> c, tx |-> tx, options |-> SimulateOptions,
         extra |-> DevInspectPaths, checks |-> "DISABLED", asked |-> gasPrice,
         data |-> DevInspectTransactionData(tx, "sender", gasPrice)],
        IF NeedsReferencePrice(gasPrice) THEN "price" ELSE "simulate")

(* GetReferenceGasPrice; an answer without an epoch is a price of 0. *)
GetReferenceGasPrice(empty) ==
  /\ pc = "price" /\ ConnOf(call.client) \in open
  /\ call' = [call EXCEPT !.data.price = IF empty THEN 0 ELSE price]
  /\ trouble' = IF empty THEN "yes" ELSE trouble
  /\ pc' = "simulate"
  /\ UNCHANGED <<clientVars, chainVars, result, resp, sim, dry, quoted>>

(* Argument.ToInternalType; a RESULT with a subresult is a NestedResult. *)
ArgumentToInternal(x) ==
  CASE x.kind = "GAS" -> <<"GasCoin">>
    [] x.kind = "INPUT" -> <<"Input", x.index>>
    [] x.kind = "RESULT" /\ x.subresult = Unset -> <<"Result", x.index>>
    [] x.kind = "RESULT" /\ x.subresult # Unset -> <<"NestedResult", x.index, x.subresult>>
    [] OTHER -> <<>>

(* CommandResult.ToInternalType: the values mutated by reference with the   *)
(* Argument they stand in, and the values returned.                         *)
ToInternalExecutionResults(outputs) ==
  [i \in DOMAIN outputs |->
     [mutableReferenceOutputs |->
        [j \in DOMAIN outputs[i].mutated |->
           [argument |-> ArgumentToInternal(outputs[i].mutated[j].argument),
            bytes |-> outputs[i].mutated[j].value]],
      returnValues |-> outputs[i].returned]]

DryRunResponse(tx, response) ==
  [effects |-> response.effects, events |-> response.events,
   objectChanges |-> response.objectChanges, balanceChanges |-> response.balanceChanges,
   input |-> IF tx = "system" THEN Unset ELSE tx]

(* Error is set to the description of a failure, if there is one. *)
DevInspectResults(response, outputs) ==
  LET error == response.effects["Status"].error
  IN [effects |-> response.effects, events |-> response.events,
      results |-> ToInternalExecutionResults(outputs),
      error |-> IF error = "" THEN <<>> ELSE <<error>>]

(* simulate, and what the caller makes of its answer. *)
Simulate(empty) ==
  LET paths == PrefixPaths("transaction", ResponseReadMaskPaths(call.options)) \cup call.extra
      answer == SimulateTransactionResponse(call.tx, version, paths)
      transaction == IF empty THEN <<>> ELSE answer.transaction
      response == ToInternalType(transaction[1], call.options)
      returned == CASE transaction = <<>> -> <<>>
                    [] transaction # <<>> /\ call.name = "DryRun" -> <<DryRunResponse(call.tx, response)>>
                    [] transaction # <<>> /\ call.name = "DevInspect" ->
                         <<DevInspectResults(response, answer.command_outputs)>>
  IN /\ pc = "simulate" /\ ConnOf(call.client) \in open
     /\ sim' = [data |-> call.data, checks |-> call.checks, at |-> version]
     /\ ReturnAnswer(returned)
     /\ trouble' = IF empty THEN "yes" ELSE trouble
     /\ dry' = IF call.name = "DryRun" /\ result' = "ok"
                 THEN [tx |-> call.tx, at |-> version, resp |-> resp'[1]] ELSE dry
     /\ UNCHANGED <<clientVars, chainVars, call, quoted>>

(* A closed connection, a gRPC error or the context's deadline; the request *)
(* may be on its way.                                                       *)
RequestFails ==
  /\ pc # "idle"
  /\ Fail
  /\ \/ /\ ConnOf(call.client) \notin open
        /\ trouble' = IF ConnOf(call.client) = CallerConn THEN trouble ELSE "yes"
        /\ UNCHANGED late
     \/ /\ "timeout" \in NodeMay /\ trouble' = "yes"
        /\ \/ UNCHANGED late
           \/ /\ pc = "execute" /\ Signed(call.tx, call.signatures)
              /\ late' = late \cup {Request}
  /\ UNCHANGED <<clientVars, version, price, done, call, sim, dry, quoted>>

Call ==
  \/ \E c \in Clients, tx \in Txs, signatures \in SignatureLists, options \in ExecuteOptions :
       ExecuteTransactionBlock(c, tx, signatures, options)
  \/ \E c \in Clients, tx \in Txs : DryRunTransaction(c, tx)
  \/ \E c \in Clients, tx \in Txs, gasPrice \in {-1, 0} \cup Prices :
       DevInspectTransactionBlock(c, tx, gasPrice)

Answer ==
  \E empty \in {FALSE} \cup {TRUE : f \in NodeMay \cap {"empty"}} :
    \/ ExecuteTransaction(empty)
    \/ GetReferenceGasPrice(empty)
    \/ Simulate(empty)

Next ==
  \/ \E c \in Clients, endpoint \in Endpoints, dialled \in {"ok", "error"} :
       \E options \in OptionLists[c] : NewFor(c, endpoint, options, dialled)
  \/ \E c \in Clients : Close(c)
  \/ Call
  \/ Answer
  \/ ExecuteTransactionRefused
  \/ RequestFails
  \/ \E newPrice \in Prices : ChainGoesOn(newPrice)
  \/ \E request \in late : LateArrival(request)

Spec == Init /\ [][Next]_vars

-----------------------------------------------------------------------------
LastOf(list) == list[Len(list)]

(* Where options of a name were given, those that set credentials, and the  *)
(* headers with a key.                                                      *)
Given(name) == {i \in DOMAIN asked.options : asked.options[i][1] = name}
GivenCreds == {i \in Given("WithGRPCDialOptions") : asked.options[i][2] # <<>>}
GivenFor(key) == {i \in Given("WithHeader") : ToLower(asked.options[i][2]) = key}
LastGiven(places) == asked.options[Max(places)]

ReservedKeys == {"", ":path", "grpc-timeout", "two words"}
Malformed(endpoint) == endpoint.scheme = "https" \/ endpoint.rest \in {"", "host/path"}

(* The options of a client mean what they say in whatever order they are    *)
(* given.  A connection of the caller's is used as it is, whatever the      *)
(* endpoint, or the call fails where dial options or headers would be       *)
(* ignored silently.  Otherwise reserved headers, malformed endpoints and   *)
(* what gRPC does not dial are errors, the caller's last credentials count, *)
(* then WithInsecure, and TLS is the default; each header is sent with the  *)
(* last value given for its key in any case, and no other is sent.          *)
ConnectionAsAsked ==
  asked # Unset =>
    LET made == asked.made
        conns == Given("WithGRPCConn")
        headers == Given("WithHeader")
    IN IF conns # {} /\ LastGiven(conns)[2] # "nil"
         THEN IF GivenCreds \cup headers # {} THEN made.err # "none"
              ELSE made.err = "none" /\ made.uses = LastGiven(conns)[2]
       ELSE IF \/ \E i \in headers : asked.options[i][2] \in ReservedKeys
               \/ Malformed(asked.endpoint) \/ asked.dialled = "error"
         THEN made.err # "none"
       ELSE /\ made.err = "none" /\ made.uses = "ownedConn"
            /\ made.ownedConn.target = "host:443"
            /\ made.ownedConn.security =
                 (IF GivenCreds # {} THEN LastOf(LastGiven(GivenCreds)[2])[2]
                  ELSE IF Given("WithInsecure") # {} THEN "plaintext" ELSE "TLS")
            /\ DOMAIN made.ownedConn.headers = {ToLower(asked.options[i][2]) : i \in headers}
            /\ \A key \in DOMAIN made.ownedConn.headers :
                 made.ownedConn.headers[key] = LastGiven(GivenFor(key))[3]

(* ExecuteTransactionBlock succeeds only if the transaction has been        *)
(* executed, and tells what it did then and who signed it, however often it *)
(* was submitted, by which client, and though an earlier request arrived    *)
(* after its caller had given it up: with every signature the caller of the *)
(* request that arrived gave, converted, in the order given, even if this   *)
(* call gave them in another order.                                         *)
SuccessMeansExecuted ==
  call.name = "Execute" /\ result = "ok" =>
    /\ done[call.tx] # <<>> /\ resp # <<>>
    /\ LET run == done[call.tx][1]
           given == [i \in DOMAIN run.given |-> run.given[i][2]]
           executed == ExecutedTransaction(call.tx, given, run.at)
       IN /\ run.signatures = given
          /\ "Effects" \in call.options =>
               resp[1].effects = EffectsToInternalType(executed["effects"]).effects
          /\ "RawInput" \in call.options => resp[1].rawTransaction = <<call.tx, executed["signatures"]>>

(* A dry run tells what executing does: if the transaction is executed in   *)
(* the state in which it was dry run, effects, events, object changes and   *)
(* balance changes are the ones the dry run told.                           *)
DryRunForetells ==
  (/\ call.name = "Execute" /\ result = "ok"
   /\ dry # Unset /\ dry.tx = call.tx /\ dry.at = done[call.tx][1].at) =>
      /\ "Effects" \in call.options => resp[1].effects = dry.resp.effects
      /\ "ObjectChanges" \in call.options => resp[1].objectChanges = dry.resp.objectChanges
      /\ "Events" \in call.options => resp[1].events = dry.resp.events
      /\ "BalanceChanges" \in call.options => resp[1].balanceChanges = dry.resp.balanceChanges

(* DevInspect simulates, with checks disabled, at the price asked for; if   *)
(* none or 0 was, at a reference gas price in force at some time of the     *)
(* call, though the epoch may change between its two requests, and never at *)
(* 0 unless the node's answer had no price.                                 *)
InspectionPriced ==
  call.name = "DevInspect" /\ sim # Unset =>
    /\ sim.checks = "DISABLED"
    /\ IF call.asked > 0 THEN sim.data.price = call.asked
       ELSE sim.data.price \in quoted \/ (sim.data.price = 0 /\ trouble = "yes")

(* A DevInspect that returns tells whether the execution succeeded, the     *)
(* description of a failure as Error if the node gives one, and the outputs *)
(* of every command of a successful one, in their order.                    *)
InspectionTold ==
  call.name = "DevInspect" /\ result = "ok" =>
    LET o == OutcomeAt(sim.at)
        ok == o.success = "yes"
        told == resp[1]
    IN /\ told.effects["Status"].status = "success" <=> ok
       /\ told.error = IF ok \/ o.description = "" THEN <<>> ELSE <<o.description>>
       /\ IF ok
            THEN /\ DOMAIN told.results = DOMAIN o.outputs
                 /\ \A i \in DOMAIN o.outputs :
                      /\ told.results[i].returnValues = o.outputs[i].returned
                      /\ \A m \in ToSet(o.outputs[i].mutated) :
                           \E r \in ToSet(told.results[i].mutableReferenceOutputs) :
                             r.bytes = m.value /\ r.argument # <<>>
            ELSE told.results = <<>>

(* A call fails only if a signature was not one, the node failed or         *)
(* answered without a transaction, or the client's own connection was       *)
(* closed: not because another client on the same connection of the         *)
(* caller's was closed, and not for want of a field in the mask.            *)
NoSpuriousError == result = "error" => trouble = "yes"
=============================================================================
