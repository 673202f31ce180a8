-------------------------- MODULE Execution_proofs --------------------------
(***************************************************************************)
(* Proofs about Execution, for every number of clients, transactions,      *)
(* outcomes, signatures and options, and for an unbounded chain.           *)
(***************************************************************************)
EXTENDS Execution, SequenceTheorems, WellFoundedInduction, TLAPS

(* A set of natural numbers that has 0 and with a number the next one has   *)
(* all of them: a least number outside it would be neither.                 *)
LEMMA SetInduction ==
  ASSUME NEW S, 0 \in S, \A n \in Nat : n \in S => n + 1 \in S
  PROVE  Nat \subseteq S
<1> DEFINE R == {ss \in Nat \X Nat : ss[1] < ss[2]}
<1> SUFFICES ASSUME Nat \ S # {} PROVE FALSE
  OBVIOUS
<1>1. IsWellFoundedOn(R, Nat)
  BY NatLessThanWellFounded DEF OpToRel
<1> HIDE DEF R
<1>2. PICK m \in Nat \ S : \A n \in Nat \ S : ~ (<<n, m>> \in R)
  BY <1>1, WFMin
<1>3. m # 0 /\ m - 1 \in Nat /\ m - 1 < m
  BY <1>2
<1>4. <<m - 1, m>> \in R
  BY <1>3 DEF R
<1>5. m - 1 \in S
  BY <1>2, <1>3, <1>4
<1> QED BY <1>2, <1>3, <1>5

(* The fold of EffectsToInternalType over the changed objects. *)
F == INSTANCE SeqFolds WITH op <- ApplyToInternalEffects

(* Induction, the hypothesis of F. *)
LEMMA FInduction == F!Induction
BY SetInduction DEF F!Induction

-----------------------------------------------------------------------------
(***************************************************************************)
(* The inductive invariant.                                                *)
(***************************************************************************)
(* Nobody closes the caller's connection. *)
Connected == CallerConn \in open

(* The signatures a caller gave, converted. *)
Converted(given) == [i \in DOMAIN given |-> given[i][2]]

(* What is executed or on its way is signed by what its caller gave. *)
Asked(x) == x.signatures = Converted(x.given)

(* Executed transactions and those on their way are the callers'. *)
Chain ==
  /\ version \in Nat /\ price \in Prices
  /\ DOMAIN done = Txs
  /\ \A t \in Txs : done[t] # <<>> => done[t] = <<done[t][1]>> /\ done[t][1].at \in Nat /\ Asked(done[t][1])
  /\ \A request \in late : request.tx \in Txs /\ Asked(request)

Inspection(client_, tx, gasPrice, dataPrice) ==
  [name |-> "DevInspect", client |-> client_, tx |-> tx, options |-> SimulateOptions,
   extra |-> DevInspectPaths, checks |-> "DISABLED", asked |-> gasPrice,
   data |-> DevInspectTransactionData(tx, "sender", dataPrice)]

Priced(dataPrice) ==
  IF call.asked > 0 THEN dataPrice = call.asked
  ELSE dataPrice \in quoted \/ (dataPrice = 0 /\ trouble = "yes")

(* A call in progress has no result yet, has seen the current price, and is *)
(* at a request of its own.                                                 *)
Waiting ==
  /\ pc \in {"idle", "execute", "price", "simulate"}
  /\ pc # "idle" => result = "none" /\ price \in quoted /\ call.tx \in Txs
  /\ pc = "execute" =>
       /\ call.name = "Execute"
       /\ call.signatures = Converted(call.given)
  /\ pc = "price" =>
       /\ call = Inspection(call.client, call.tx, call.asked, call.data.price)
       /\ call.asked \in Int /\ call.asked <= 0
  /\ pc = "simulate" =>
       \/ call.name = "DryRun" /\ call.options = DryRunOptions /\ call.extra = {}
       \/ /\ call = Inspection(call.client, call.tx, call.asked, call.data.price)
          /\ Priced(call.data.price)

Answered(tx, signatures, at, options) ==
  ToInternalType(Masked(ExecutedTransaction(tx, signatures, at), ResponseReadMaskPaths(options)), options)

(* A successful execution returned what the transaction did when it ran. *)
Executed ==
  call.name = "Execute" /\ result = "ok" =>
    /\ call.tx \in Txs /\ done[call.tx] # <<>>
    /\ resp = <<Answered(call.tx, done[call.tx][1].signatures, done[call.tx][1].at, call.options)>>

(* A dry run returned what the transaction would have done. *)
DryRan ==
  dry # Unset =>
    dry.resp = DryRunResponse(dry.tx, Answered(dry.tx, <<>>, dry.at, DryRunOptions))

OutputsAt(at) == IF OutcomeAt(at).success = "yes" THEN OutcomeAt(at).outputs ELSE <<>>

(* An inspection ran at its price, and returned what it did. *)
Inspected ==
  call.name = "DevInspect" =>
    /\ sim # Unset => sim.checks = "DISABLED" /\ Priced(sim.data.price)
    /\ result = "ok" =>
         /\ call.tx \in Txs /\ sim.at \in Nat
         /\ resp = <<DevInspectResults(Answered(call.tx, <<>>, sim.at, SimulateOptions), OutputsAt(sim.at))>>

IInv ==
  /\ Connected /\ Chain /\ Waiting /\ Executed /\ DryRan /\ Inspected
  /\ NoSpuriousError

-----------------------------------------------------------------------------
(***************************************************************************)
(* Lemmas about masks and answers.                                         *)
(***************************************************************************)
(* A connection dialled for a client is not the caller's. *)
LEMMA OwnConnection ==
  ASSUME NEW c PROVE <<"ownedConn", c>> # CallerConn
<1>1. Len(<<"ownedConn", c>>) = 2 /\ Len(CallerConn) = 1
  BY DEF CallerConn
<1> QED BY <1>1

(* The paths of a simulation lead to the fields the options ask for,        *)
(* whatever is asked for besides.                                           *)
LEMMA SimulatedPaths ==
  ASSUME NEW options, NEW extra, extra \subseteq DevInspectPaths
  PROVE  {p \in Fields : <<"transaction", p>> \in PrefixPaths("transaction", ResponseReadMaskPaths(options)) \cup extra}
           = ResponseReadMaskPaths(options)
<1> DEFINE M == ResponseReadMaskPaths(options)
<1>1. M \subseteq Fields
  BY DEF ResponseReadMaskPaths, Fields
<1> HIDE DEF M
<1>2. \A p : <<"transaction", p>> \notin extra
  <2> TAKE p
  <2>1. Len(<<"transaction", p>>) = 2 /\ Len(<<"command_outputs">>) = 1
    OBVIOUS
  <2>2. <<"transaction", p>> # <<"command_outputs">>
    BY <2>1
  <2> QED BY <2>2 DEF DevInspectPaths
<1>3. \A p : <<"transaction", p>> \in PrefixPaths("transaction", M) <=> p \in M
  BY DEF PrefixPaths
<1>4. {p \in Fields : <<"transaction", p>> \in PrefixPaths("transaction", M) \cup extra} = M
  BY <1>1, <1>2, <1>3
<1> QED BY <1>4 DEF M

SimulationAnswer(tx, at, options, extra) ==
  SimulateTransactionResponse(tx, at, PrefixPaths("transaction", ResponseReadMaskPaths(options)) \cup extra)

(* A simulation is answered with these fields, so never without a           *)
(* transaction, and with the outputs of the commands if they are asked for. *)
LEMMA SimulationAnswered ==
  ASSUME NEW tx, NEW at, NEW options, NEW extra, extra \subseteq DevInspectPaths
  PROVE  LET answer == SimulationAnswer(tx, at, options, extra)
         IN /\ answer.transaction = <<Masked(ExecutedTransaction(tx, <<>>, at), ResponseReadMaskPaths(options))>>
            /\ extra = DevInspectPaths => answer.command_outputs = OutputsAt(at)
<1> DEFINE M == ResponseReadMaskPaths(options)
           paths == PrefixPaths("transaction", M) \cup extra
           answer == SimulateTransactionResponse(tx, at, paths)
<1>1. {p \in Fields : <<"transaction", p>> \in paths} = M
  BY SimulatedPaths
<1>2. M # {}
  BY DEF ResponseReadMaskPaths
<1>3. extra = DevInspectPaths => <<"command_outputs">> \in paths
  BY DEF DevInspectPaths
<1> HIDE DEF M, paths
<1>4. answer.transaction = <<Masked(ExecutedTransaction(tx, <<>>, at), M)>>
  BY <1>1, <1>2 DEF SimulateTransactionResponse
<1>5. extra = DevInspectPaths => answer.command_outputs = OutputsAt(at)
  BY <1>3 DEF SimulateTransactionResponse, OutputsAt
<1> QED BY <1>4, <1>5 DEF M, paths, SimulationAnswer

(* The answer tells of x, what a transaction does, all that is asked for. *)
Tells(answer, x, tx, signatures, options) ==
  LET sender == IF tx # "system" THEN tx ELSE "zero"
  IN /\ "Effects" \in options => answer.effects = EffectsToInternalType(x["effects"]).effects
     /\ "ObjectChanges" \in options => answer.objectChanges = ToInternalObjectChanges(x["effects"], sender).changes
     /\ "Events" \in options => answer.events = EventsToInternalType(x["events"]).out
     /\ "BalanceChanges" \in options => answer.balanceChanges = BalanceChangesToInternal(x["balance_changes"]).out
     /\ "RawInput" \in options => answer.rawTransaction = <<tx, signatures>>

(* What is asked for is in the response, the same whether the transaction   *)
(* is executed or simulated.                                                *)
LEMMA AskedAndAnswered ==
  ASSUME NEW tx, tx # Unset, NEW signatures, NEW at, NEW options
  PROVE  Tells(Answered(tx, signatures, at, options), ExecutedTransaction(tx, <<>>, at), tx, signatures, options)
<1> DEFINE y == ExecutedTransaction(tx, signatures, at)
           x == ExecutedTransaction(tx, <<>>, at)
           M == ResponseReadMaskPaths(options)
           masked == Masked(y, M)
           sender == IF tx # "system" THEN tx ELSE "zero"
           answer == Answered(tx, signatures, at, options)
<1>1. /\ y["effects"] = x["effects"] /\ y["events"] = x["events"]
      /\ y["balance_changes"] = x["balance_changes"]
      /\ y["transaction.bcs"] = tx /\ y["signatures"] = signatures
  BY DEF ExecutedTransaction, Fields
<1>2. /\ "Effects" \in options => "effects" \in M
      /\ "ObjectChanges" \in options => "effects" \in M /\ "transaction.bcs" \in M
      /\ "Events" \in options => "events" \in M
      /\ "BalanceChanges" \in options => "balance_changes" \in M
      /\ "RawInput" \in options => "transaction.bcs" \in M /\ "signatures" \in M
  BY DEF ResponseReadMaskPaths
<1> HIDE DEF y, x, M
<1>3. \A p \in M : Get(masked, p) = y[p]
  BY DEF Get, Masked
<1> HIDE DEF masked
<1>4. answer = ToInternalType(masked, options)
  BY DEF Answered, masked, y, M
<1> HIDE DEF answer, sender
<1>5. "Effects" \in options => answer.effects = EffectsToInternalType(x["effects"]).effects
  BY <1>1, <1>2, <1>3, <1>4 DEF ToInternalType
<1>6. "ObjectChanges" \in options => answer.objectChanges = ToInternalObjectChanges(x["effects"], sender).changes
  BY <1>1, <1>2, <1>3, <1>4 DEF ToInternalType, sender
<1>7. "Events" \in options => answer.events = EventsToInternalType(x["events"]).out
  BY <1>1, <1>2, <1>3, <1>4 DEF ToInternalType
<1>8. "BalanceChanges" \in options => answer.balanceChanges = BalanceChangesToInternal(x["balance_changes"]).out
  BY <1>1, <1>2, <1>3, <1>4 DEF ToInternalType
<1>9. "RawInput" \in options => answer.rawTransaction = <<tx, signatures>>
  BY <1>1, <1>2, <1>3, <1>4 DEF ToInternalType
<1> QED BY <1>5, <1>6, <1>7, <1>8, <1>9 DEF Tells, x, sender, answer

-----------------------------------------------------------------------------
(***************************************************************************)
(* The status of effects goes through their conversion.                    *)
(***************************************************************************)
(* A value of the fold whose status is st. *)
HasStatus(v, st) ==
  /\ v = [effects |-> v.effects, errs |-> v.errs]
  /\ v.effects = [k \in Buckets \cup {"Status"} |-> v.effects[k]]
  /\ v.effects["Status"] = st

(* A change to another bucket leaves the status alone. *)
LEMMA OtherChangesKeepStatus ==
  ASSUME NEW v, NEW st, HasStatus(v, st)
  PROVE  /\ \A errs : HasStatus([v EXCEPT !.errs = errs], st)
         /\ \A k, x : k # "Status" => HasStatus([v EXCEPT !.effects[k] = x], st)
<1>1. ASSUME NEW errs PROVE HasStatus([v EXCEPT !.errs = errs], st)
  BY DEF HasStatus
<1>2. ASSUME NEW k, NEW x, k # "Status" PROVE HasStatus([v EXCEPT !.effects[k] = x], st)
  <2> DEFINE g == [v.effects EXCEPT ![k] = x]
             w == [v EXCEPT !.effects[k] = x]
  <2>1. w = [v EXCEPT !.effects = g]
    OBVIOUS
  <2>2. g = [j \in Buckets \cup {"Status"} |-> g[j]] /\ g["Status"] = st
    BY <1>2 DEF HasStatus
  <2> HIDE DEF g, w
  <2>3. w = [effects |-> g, errs |-> v.errs]
    BY <2>1 DEF HasStatus
  <2>4. HasStatus(w, st)
    BY <2>2, <2>3 DEF HasStatus
  <2> QED BY <2>4 DEF w
<1> QED BY <1>1, <1>2

(* An entry of changed_objects leaves the status alone. *)
LEMMA ApplyKeepsStatus ==
  ASSUME NEW v, NEW e, NEW lamport, NEW st, HasStatus(v, st)
  PROVE  HasStatus(ApplyToInternalEffects(v, e, lamport), st)
<1>1. BucketOf(e) # "Status"
  BY DEF BucketOf
<1> QED BY <1>1, OtherChangesKeepStatus DEF ApplyToInternalEffects

(* The converted effects tell the status of the node. *)
LEMMA StatusTold ==
  ASSUME NEW effects, NEW T, effects # Unset, effects.changed \in Seq(T)
  PROVE  EffectsToInternalType(effects).effects["Status"] = ToInternalStatus(effects.status)
<1> DEFINE st == ToInternalStatus(effects.status)
           gas == effects.gasObject
           none == [effects |-> [k \in Buckets \cup {"Status"} |->
                                   IF k = "Status" THEN ToInternalStatus(effects.status) ELSE <<>>],
                    errs |-> {}]
           start == CASE gas = Unset -> none
                      [] gas # Unset /\ OwnedObjectRef(gas).owner = "error" ->
                           [none EXCEPT !.errs = {<<"gas", gas.id>>}]
                      [] gas # Unset /\ OwnedObjectRef(gas).owner # "error" ->
                           [none EXCEPT !.effects["GasObject"] = <<OwnedObjectRef(gas)>>]
           s == effects.changed
           after(n) == F!Fold(start, effects.lamport, SubSeq(s, 1, n))
           K == {n \in Nat : n <= Len(s) => HasStatus(after(n), st)}
<1>1. EffectsToInternalType(effects) = F!Fold(start, effects.lamport, s)
  BY DEF EffectsToInternalType, F!Fold, FoldLeft, MapThenFoldSet, F!MapThenFoldSet, Max, F!Max
<1>2. HasStatus(none, st)
  BY DEF HasStatus
<1> HIDE DEF none, st
<1>3. HasStatus(start, st)
  <2>1. HasStatus([none EXCEPT !.errs = {<<"gas", gas.id>>}], st)
    BY <1>2, OtherChangesKeepStatus
  <2>2. HasStatus([none EXCEPT !.effects["GasObject"] = <<OwnedObjectRef(gas)>>], st)
    BY <1>2, OtherChangesKeepStatus
  <2> QED BY <1>2, <2>1, <2>2
<1> HIDE DEF start
<1>4. 0 \in K
  <2>1. SubSeq(s, 1, 0) = <<>>
    OBVIOUS
  <2> QED BY <1>3, <2>1, FInduction, F!FoldEmpty
<1>5. ASSUME NEW n \in Nat, n \in K PROVE n + 1 \in K
  <2> SUFFICES ASSUME n + 1 <= Len(s) PROVE HasStatus(after(n + 1), st)
    OBVIOUS
  <2>1. HasStatus(after(n), st)
    BY <1>5
  <2>2. after(n + 1) = ApplyToInternalEffects(after(n), s[n + 1], effects.lamport)
    BY FInduction, F!FoldPrefix
  <2> HIDE DEF after
  <2> QED BY <2>1, <2>2, ApplyKeepsStatus
<1> HIDE DEF K
<1>6. Nat \subseteq K
  BY <1>4, <1>5, SetInduction
<1>7. SubSeq(s, 1, Len(s)) = s /\ Len(s) \in Nat
  OBVIOUS
<1>8. HasStatus(after(Len(s)), st)
  BY <1>6, <1>7 DEF K
<1> QED BY <1>1, <1>7, <1>8 DEF HasStatus, st

(* The outcomes are those of the chain. *)
LEMMA OutcomeKnown ==
  ASSUME NEW at \in Nat PROVE OutcomeAt(at) \in ToSet(Outcomes)
<1>1. Outcomes \in Seq(ToSet(Outcomes)) /\ Len(Outcomes) \in Nat /\ Len(Outcomes) # 0
  BY ExecutionAssumptions
<1>2. (at % Len(Outcomes)) + 1 \in 1..Len(Outcomes)
  BY <1>1
<1> QED BY <1>1, <1>2, ElementOfSeq DEF OutcomeAt

(* The effects of an outcome are set. *)
LEMMA EffectsKnown ==
  ASSUME NEW tx, NEW at \in Nat
  PROVE  LET e == ExecutedTransaction(tx, <<>>, at)["effects"]
         IN /\ e # Unset /\ e.changed \in Seq(Entries)
            /\ e.status = [success |-> OutcomeAt(at).success, description |-> OutcomeAt(at).description]
<1> DEFINE o == OutcomeAt(at)
           gas == WriteOf("gas", "ADDRESS", "NONE", at)
           new == WriteOf("new", o.owner, "CREATED", at)
           status == [success |-> o.success, description |-> o.description]
           changed == IF o.success = "yes" THEN <<gas, new>> ELSE <<gas>>
           e == ExecutedTransaction(tx, <<>>, at)["effects"]
<1>1. o \in ToSet(Outcomes)
  BY OutcomeKnown
<1>2. e = [lamport |-> at + 1, status |-> status, gasObject |-> gas, changed |-> changed]
  BY DEF ExecutedTransaction, Fields
<1> HIDE DEF o
<1>3. gas \in Entries /\ new \in Entries
  BY <1>1 DEF WriteOf, Entries
<1> HIDE DEF gas, new, e
<1>4. changed \in Seq(Entries)
  BY <1>3
<1>5. status \in [success : {x.success : x \in ToSet(Outcomes)}, description : {x.description : x \in ToSet(Outcomes)}]
  BY <1>1
<1> HIDE DEF changed
<1>6. e \in EffectsOfOutcomes
  BY <1>2, <1>3, <1>4, <1>5 DEF EffectsOfOutcomes
<1>7. e # Unset
  BY <1>6, NodeAssumptions
<1> QED BY <1>2, <1>4, <1>7 DEF e, o

-----------------------------------------------------------------------------
(***************************************************************************)
(* The invariant is inductive.                                             *)
(***************************************************************************)
LEMMA InitIInv ==
  Init => IInv
<1> SUFFICES ASSUME Init PROVE IInv
  OBVIOUS
<1>1. Connected /\ Chain
  BY DEF Init, Connected, Chain
<1>2. Waiting /\ Executed /\ DryRan /\ Inspected /\ NoSpuriousError
  BY DEF Init, Waiting, Executed, DryRan, Inspected, NoSpuriousError
<1> QED BY <1>1, <1>2 DEF IInv

(* A part stays true as long as what it is about does not change. *)
LEMMA Frames ==
  /\ Connected /\ UNCHANGED open => Connected'
  /\ Chain /\ UNCHANGED <<version, price, done, late>> => Chain'
  /\ Waiting /\ UNCHANGED <<pc, result, price, quoted, call, trouble>> => Waiting'
  /\ Executed /\ UNCHANGED <<call, result, resp, done>> => Executed'
  /\ DryRan /\ UNCHANGED dry => DryRan'
  /\ Inspected /\ UNCHANGED <<call, sim, quoted, trouble, result, resp>> => Inspected'
  /\ NoSpuriousError /\ UNCHANGED <<result, trouble>> => NoSpuriousError'
<1>1. Connected /\ UNCHANGED open => Connected'
  BY DEF Connected, CallerConn
<1>2. Chain /\ UNCHANGED <<version, price, done, late>> => Chain'
  BY DEF Chain
<1>3. Waiting /\ UNCHANGED <<pc, result, price, quoted, call, trouble>> => Waiting'
  BY DEF Waiting, Priced
<1>4. Executed /\ UNCHANGED <<call, result, resp, done>> => Executed'
  BY DEF Executed
<1>5. DryRan /\ UNCHANGED dry => DryRan'
  BY DEF DryRan
<1>6. Inspected /\ UNCHANGED <<call, sim, quoted, trouble, result, resp>> => Inspected'
  BY DEF Inspected, Priced
<1>7. NoSpuriousError /\ UNCHANGED <<result, trouble>> => NoSpuriousError'
  BY DEF NoSpuriousError
<1> QED BY <1>1, <1>2, <1>3, <1>4, <1>5, <1>6, <1>7

(* Executing a transaction keeps what was executed before. *)
LEMMA ArrivesKeeps ==
  ASSUME Chain, NEW request, request.tx \in Txs, Asked(request), Arrives(request)
  PROVE  /\ version' \in Nat /\ DOMAIN done' = Txs
         /\ \A t \in Txs : done'[t] # <<>> =>
              done'[t] = <<done'[t][1]>> /\ done'[t][1].at \in Nat /\ Asked(done'[t][1])
         /\ \A t \in Txs : done[t] # <<>> => done'[t] = done[t]
         /\ done'[request.tx] # <<>>
<1> DEFINE tx == request.tx
<1>1. CASE done[tx] # <<>>
  BY <1>1 DEF Chain, Arrives
<1>2. CASE done[tx] = <<>>
  <2> DEFINE x == [at |-> version, signatures |-> request.signatures, given |-> request.given]
  <2>1. x.at \in Nat /\ Asked(x)
    BY DEF Chain, Asked
  <2>2. done' = [done EXCEPT ![tx] = <<x>>] /\ version' = version + 1
    BY <1>2 DEF Arrives
  <2> HIDE DEF x
  <2>3. <<x>> # <<>> /\ <<x>>[1] = x
    OBVIOUS
  <2>4. \A t \in Txs : done'[t] = IF t = tx THEN <<x>> ELSE done[t]
    BY <2>2 DEF Chain
  <2> QED BY <1>2, <2>1, <2>2, <2>3, <2>4 DEF Chain
<1> QED BY <1>1, <1>2

(* Opening and closing clients keeps the invariant. *)
LEMMA ClientsKeepIInv ==
  ASSUME IInv, NEW c, NEW endpoint, NEW options, NEW dialled, NewFor(c, endpoint, options, dialled) \/ Close(c)
  PROVE  IInv'
<1>1. Connected'
  BY OwnConnection DEF IInv, Connected, NewFor, Close, ConnOf, CallerConn
<1>2. UNCHANGED <<chainVars, call, pc, result, resp, sim, dry, quoted, trouble>>
  BY DEF NewFor, Close
<1> QED BY <1>1, <1>2, Frames DEF IInv, chainVars

(* The chain going on keeps the invariant. *)
LEMMA ChainGoesOnKeepsIInv ==
  ASSUME IInv, NEW newPrice \in Prices, ChainGoesOn(newPrice)
  PROVE  IInv'
<1> USE DEF IInv, ChainGoesOn
<1>1. Connected' /\ Executed' /\ DryRan' /\ NoSpuriousError'
  BY Frames DEF clientVars
<1>2. Chain'
  BY DEF Chain
<1>3. \A p : Priced(p) => Priced(p)'
  BY DEF Priced
<1>4. Waiting'
  BY <1>3 DEF Waiting
<1>5. Inspected'
  BY <1>3 DEF Inspected
<1> QED BY <1>1, <1>2, <1>4, <1>5

(* A transaction that arrives late keeps the invariant. *)
LEMMA LateArrivalKeepsIInv ==
  ASSUME IInv, NEW request \in late, LateArrival(request)
  PROVE  IInv'
<1> USE DEF IInv, LateArrival
<1>1. Connected' /\ Waiting' /\ DryRan' /\ Inspected' /\ NoSpuriousError'
  BY Frames DEF clientVars
<1>2. request.tx \in Txs /\ Asked(request)
  BY DEF Chain
<1>3. Arrives(request)
  OBVIOUS
<1>4. Chain'
  BY <1>2, <1>3, ArrivesKeeps DEF Chain
<1>5. Executed'
  <2>1. \A t \in Txs : done[t] # <<>> => done'[t] = done[t]
    BY <1>2, <1>3, ArrivesKeeps
  <2> QED BY <2>1 DEF Executed
<1> QED BY <1>1, <1>4, <1>5

(* A call that begins. *)
LEMMA BeginKeepsIInv ==
  ASSUME IInv, NEW newCall, NEW at, Begin(newCall, at), Waiting'
  PROVE  IInv'
<1> USE DEF IInv, Begin
<1>1. Connected' /\ Chain' /\ DryRan'
  BY Frames DEF chainVars
<1>2. Executed' /\ Inspected' /\ NoSpuriousError'
  BY DEF Executed, Inspected, NoSpuriousError
<1> QED BY <1>1, <1>2

(* ExecuteTransactionBlock keeps the invariant. *)
LEMMA ExecuteTransactionBlockKeepsIInv ==
  ASSUME IInv, NEW c, NEW tx \in Txs, NEW signatures, NEW options,
         ExecuteTransactionBlock(c, tx, signatures, options)
  PROVE  IInv'
<1> DEFINE bytes == UserSignatures(signatures)
           this == [name |-> "Execute", client |-> c, tx |-> tx, given |-> signatures,
                    signatures |-> bytes, options |-> options]
<1>1. CASE "error" \in ToSet(bytes)
  <2>1. /\ call' = this /\ Fail /\ trouble' = "yes"
        /\ UNCHANGED <<client, open, chainVars, sim, dry, quoted>>
    BY <1>1 DEF ExecuteTransactionBlock
  <2>2. Connected' /\ Chain' /\ DryRan'
    BY <2>1, Frames DEF IInv, chainVars
  <2>3. Waiting' /\ Executed' /\ Inspected' /\ NoSpuriousError'
    BY <2>1 DEF Fail, Waiting, Executed, Inspected, NoSpuriousError
  <2> QED BY <2>2, <2>3 DEF IInv
<1>2. CASE "error" \notin ToSet(bytes)
  <2>1. Begin(this, "execute")
    BY <1>2 DEF ExecuteTransactionBlock
  <2>2. \A i \in DOMAIN signatures : bytes[i] = signatures[i][2]
    <3> TAKE i \in DOMAIN signatures
    <3>1. bytes[i] \in ToSet(bytes)
      BY DEF ToSet, UserSignatures
    <3>2. bytes[i] = SignatureBytes(signatures[i])
      BY DEF UserSignatures
    <3> QED BY <1>2, <3>1, <3>2 DEF SignatureBytes
  <2>3. bytes = Converted(signatures)
    BY <2>2 DEF UserSignatures, Converted
  <2> HIDE DEF bytes
  <2>4. Waiting'
    BY <2>1, <2>3 DEF Begin, Waiting, IInv, Chain, chainVars
  <2> QED BY <2>1, <2>4, BeginKeepsIInv
<1> QED BY <1>1, <1>2

(* DryRunTransaction keeps the invariant. *)
LEMMA DryRunKeepsIInv ==
  ASSUME IInv, NEW c, NEW tx \in Txs, DryRunTransaction(c, tx)
  PROVE  IInv'
<1>1. Waiting'
  BY DEF DryRunTransaction, Begin, Waiting, IInv, Chain, chainVars
<1> QED BY <1>1, BeginKeepsIInv DEF DryRunTransaction

(* DevInspectTransactionBlock keeps the invariant. *)
LEMMA DevInspectKeepsIInv ==
  ASSUME IInv, NEW c, NEW tx \in Txs, NEW gasPrice \in {-1, 0} \cup Prices,
         DevInspectTransactionBlock(c, tx, gasPrice)
  PROVE  IInv'
<1>1. gasPrice \in Int
  BY ExecutionAssumptions
<1> DEFINE this == Inspection(c, tx, gasPrice, gasPrice)
           at == IF gasPrice <= 0 THEN "price" ELSE "simulate"
<1>2. Begin(this, at)
  BY DEF DevInspectTransactionBlock, Inspection, NeedsReferencePrice
<1>3. call' = this /\ pc' = at /\ result' = "none" /\ quoted' = {price} /\ UNCHANGED price
  BY <1>2 DEF Begin, chainVars
<1>4. /\ this.tx = tx /\ this.asked = gasPrice /\ this.data.price = gasPrice /\ this.client = c
  BY DEF Inspection, DevInspectTransactionData
<1>5. this = Inspection(this.client, this.tx, this.asked, this.data.price)
  BY <1>4
<1> HIDE DEF this
<1>6. gasPrice > 0 => Priced(call.data.price)'
  BY <1>1, <1>3, <1>4 DEF Priced
<1>7. Waiting'
  BY <1>1, <1>3, <1>4, <1>5, <1>6 DEF Waiting
<1> QED BY <1>2, <1>7, BeginKeepsIInv

(* The answer to an execution keeps the invariant. *)
LEMMA ExecuteTransactionKeepsIInv ==
  ASSUME IInv, NEW empty \in BOOLEAN, ExecuteTransaction(empty)
  PROVE  IInv'
<1> DEFINE executed == done'[call.tx][1]
           answer == Masked(ExecutedTransaction(call.tx, executed.signatures, executed.at),
                            ResponseReadMaskPaths(call.options))
           returned == <<ToInternalType(answer, call.options)>>
<1>1. /\ call.name = "Execute" /\ call.tx \in Txs
      /\ Arrives(Request) /\ Asked(Request) /\ Request.tx = call.tx
      /\ UNCHANGED <<clientVars, price, late, call, sim, dry, quoted>>
  BY DEF IInv, Waiting, ExecuteTransaction, Request, Asked
<1>2. /\ version' \in Nat /\ DOMAIN done' = Txs
      /\ \A t \in Txs : done'[t] # <<>> =>
           done'[t] = <<done'[t][1]>> /\ done'[t][1].at \in Nat /\ Asked(done'[t][1])
      /\ done'[call.tx] # <<>>
  BY <1>1, ArrivesKeeps DEF IInv
<1>4. returned = <<Answered(call.tx, executed.signatures, executed.at, call.options)>>
  BY DEF Answered
<1>5. \/ Fail /\ trouble' = "yes"
      \/ pc' = "idle" /\ result' = "ok" /\ resp' = returned
  <2>1. CASE empty = TRUE
    BY <2>1 DEF ExecuteTransaction, ReturnAnswer
  <2>2. CASE empty = FALSE
    <3>1. ReturnAnswer(returned)
      BY <2>2 DEF ExecuteTransaction
    <3> HIDE DEF answer
    <3>2. returned # <<>>
      OBVIOUS
    <3> QED BY <3>1, <3>2 DEF ReturnAnswer, Return
  <2> QED BY <2>1, <2>2
<1> HIDE DEF executed, returned
<1>6. Connected' /\ DryRan'
  BY <1>1, Frames DEF IInv, clientVars
<1>7. Chain'
  BY <1>1, <1>2 DEF IInv, Chain
<1>8. Waiting' /\ Inspected' /\ NoSpuriousError'
  BY <1>1, <1>5 DEF Fail, Waiting, Inspected, NoSpuriousError
<1>9. Executed'
  BY <1>1, <1>2, <1>4, <1>5 DEF Executed, Fail, executed
<1> QED BY <1>6, <1>7, <1>8, <1>9 DEF IInv

(* A call that fails. *)
LEMMA FailKeepsIInv ==
  ASSUME IInv, Fail, trouble' = "yes", Chain', UNCHANGED <<clientVars, call, sim, dry, quoted>>
  PROVE  IInv'
<1>1. Connected' /\ DryRan'
  BY Frames DEF IInv, clientVars
<1>2. Waiting' /\ Executed' /\ NoSpuriousError'
  BY DEF Fail, Waiting, Executed, NoSpuriousError
<1>3. Inspected'
  BY DEF Fail, IInv, Inspected, Priced
<1> QED BY <1>1, <1>2, <1>3 DEF IInv

(* A refused transaction keeps the invariant. *)
LEMMA RefusedKeepsIInv ==
  ASSUME IInv, ExecuteTransactionRefused PROVE IInv'
<1>1. Chain'
  BY Frames DEF IInv, ExecuteTransactionRefused, chainVars
<1> QED BY <1>1, FailKeepsIInv DEF ExecuteTransactionRefused

(* A request that fails keeps the invariant. *)
LEMMA RequestFailsKeepsIInv ==
  ASSUME IInv, RequestFails PROVE IInv'
<1>1. trouble' = "yes"
  BY DEF IInv, Connected, RequestFails
<1>2. \A request \in late' : request.tx \in Txs /\ Asked(request)
  <2>1. pc = "execute" => Request.tx \in Txs /\ Asked(Request)
    BY DEF IInv, Waiting, Request, Asked
  <2>2. late' = late \/ (pc = "execute" /\ late' = late \cup {Request})
    BY DEF RequestFails
  <2> QED BY <2>1, <2>2 DEF IInv, Chain
<1>3. Chain'
  BY <1>2 DEF IInv, Chain, RequestFails
<1> QED BY <1>1, <1>3, FailKeepsIInv DEF RequestFails

(* GetReferenceGasPrice keeps the invariant. *)
LEMMA GetReferenceGasPriceKeepsIInv ==
  ASSUME IInv, NEW empty \in BOOLEAN, GetReferenceGasPrice(empty)
  PROVE  IInv'
<1> DEFINE told == IF empty THEN 0 ELSE price
<1>1. /\ pc' = "simulate"
      /\ trouble' = IF empty THEN "yes" ELSE trouble
      /\ UNCHANGED <<clientVars, chainVars, result, resp, sim, dry, quoted>>
  BY DEF GetReferenceGasPrice
<1>2. /\ result = "none" /\ price \in quoted /\ call.tx \in Txs /\ call.asked \in Int /\ call.asked <= 0
      /\ call = Inspection(call.client, call.tx, call.asked, call.data.price)
  BY DEF IInv, Waiting, GetReferenceGasPrice
<1>3. call' = Inspection(call.client, call.tx, call.asked, told)
  <2> HIDE DEF told
  <2>1. call.data = DevInspectTransactionData(call.tx, "sender", call.data.price)
    BY <1>2 DEF Inspection
  <2> DEFINE d == [call.data EXCEPT !.price = told]
  <2>2. d = DevInspectTransactionData(call.tx, "sender", told)
    BY <2>1 DEF DevInspectTransactionData
  <2>3. call' = [call EXCEPT !.data = d]
    BY DEF GetReferenceGasPrice, told
  <2> HIDE DEF d
  <2>4. call' = [name |-> "DevInspect", client |-> call.client, tx |-> call.tx, options |-> SimulateOptions,
                 extra |-> DevInspectPaths, checks |-> "DISABLED", asked |-> call.asked, data |-> d]
    BY <1>2, <2>3 DEF Inspection
  <2> QED BY <2>2, <2>4 DEF Inspection
<1>4. /\ call'.name = "DevInspect" /\ call'.tx = call.tx /\ call'.asked = call.asked
      /\ call'.client = call.client /\ call'.data.price = told
  BY <1>3 DEF Inspection, DevInspectTransactionData
<1>5. call.name = "DevInspect"
  BY <1>2 DEF Inspection
<1>6. \A p : Priced(p) => Priced(p)'
  BY <1>1, <1>4 DEF Priced
<1>7. ~ (call'.asked > 0) /\ (told \in quoted' \/ (told = 0 /\ trouble' = "yes"))
  BY <1>1, <1>2, <1>4
<1> HIDE DEF told
<1>8. Waiting'
  <2>1. call' = Inspection(call'.client, call'.tx, call'.asked, call'.data.price)
    BY <1>3, <1>4
  <2>2. Priced(call.data.price)'
    BY <1>4, <1>7 DEF Priced
  <2> QED BY <1>1, <1>2, <1>4, <2>1, <2>2 DEF Waiting, chainVars
<1>9. Inspected'
  BY <1>1, <1>2, <1>4, <1>5, <1>6 DEF IInv, Inspected
<1>10. Connected' /\ Chain' /\ DryRan'
  BY <1>1, Frames DEF IInv, clientVars, chainVars
<1>11. Executed' /\ NoSpuriousError'
  BY <1>1, <1>2 DEF Executed, NoSpuriousError
<1> QED BY <1>8, <1>9, <1>10, <1>11 DEF IInv

(* The answer to a simulation keeps the invariant. *)
LEMMA SimulateKeepsIInv ==
  ASSUME IInv, NEW empty \in BOOLEAN, Simulate(empty)
  PROVE  IInv'
<1> DEFINE paths == PrefixPaths("transaction", ResponseReadMaskPaths(call.options)) \cup call.extra
           answer == SimulateTransactionResponse(call.tx, version, paths)
           transaction == IF empty THEN <<>> ELSE answer.transaction
           response == ToInternalType(transaction[1], call.options)
           dryRun == <<DryRunResponse(call.tx, response)>>
           inspection == <<DevInspectResults(response, answer.command_outputs)>>
           returned == CASE transaction = <<>> -> <<>>
                         [] transaction # <<>> /\ call.name = "DryRun" -> dryRun
                         [] transaction # <<>> /\ call.name = "DevInspect" -> inspection
           simulated == Answered(call.tx, <<>>, version, call.options)
<1>1. /\ pc = "simulate"
      /\ sim' = [data |-> call.data, checks |-> call.checks, at |-> version]
      /\ ReturnAnswer(returned)
      /\ trouble' = IF empty THEN "yes" ELSE trouble
      /\ dry' = IF call.name = "DryRun" /\ result' = "ok"
                  THEN [tx |-> call.tx, at |-> version, resp |-> resp'[1]] ELSE dry
      /\ UNCHANGED <<clientVars, chainVars, call, quoted>>
  BY DEF Simulate
<1>2. result = "none" /\ version \in Nat /\ call.tx \in Txs
  BY <1>1 DEF IInv, Waiting, Chain
<1>3. \/ call.name = "DryRun" /\ call.options = DryRunOptions /\ call.extra = {}
      \/ /\ call.name = "DevInspect" /\ call.options = SimulateOptions /\ call.extra = DevInspectPaths
         /\ call.checks = "DISABLED" /\ Priced(call.data.price)
  BY <1>1 DEF IInv, Waiting, Inspection
<1>4. /\ answer.transaction = <<Masked(ExecutedTransaction(call.tx, <<>>, version), ResponseReadMaskPaths(call.options))>>
      /\ call.name = "DevInspect" => answer.command_outputs = OutputsAt(version)
  <2>1. call.extra \subseteq DevInspectPaths /\ (call.name = "DevInspect" => call.extra = DevInspectPaths)
    BY <1>3
  <2>3. answer = SimulationAnswer(call.tx, version, call.options, call.extra)
    BY DEF SimulationAnswer
  <2> HIDE DEF answer
  <2>2. /\ answer.transaction = <<Masked(ExecutedTransaction(call.tx, <<>>, version), ResponseReadMaskPaths(call.options))>>
        /\ call.extra = DevInspectPaths => answer.command_outputs = OutputsAt(version)
    BY <2>1, <2>3, SimulationAnswered
  <2> QED BY <2>1, <2>2
<1>5. empty \/ response = simulated
  <2> DEFINE m == Masked(ExecutedTransaction(call.tx, <<>>, version), ResponseReadMaskPaths(call.options))
  <2> SUFFICES ASSUME ~ empty PROVE response = simulated
    OBVIOUS
  <2>1. transaction = <<m>>
    BY <1>4
  <2> HIDE DEF m, transaction
  <2>2. transaction[1] = m
    BY <2>1
  <2> QED BY <2>2 DEF Answered, m
<1>6. \/ Fail /\ trouble' = "yes"
      \/ /\ call.name = "DryRun" /\ pc' = "idle" /\ result' = "ok" /\ trouble' = trouble
         /\ resp' = <<DryRunResponse(call.tx, simulated)>>
      \/ /\ call.name = "DevInspect" /\ pc' = "idle" /\ result' = "ok" /\ trouble' = trouble
         /\ resp' = <<DevInspectResults(simulated, OutputsAt(version))>>
  <2>1. CASE empty
    <3>1. returned = <<>>
      BY <2>1
    <3> HIDE DEF returned
    <3> QED BY <1>1, <2>1, <3>1 DEF ReturnAnswer
  <2>2. CASE ~ empty
    <3>5. transaction = answer.transaction
      BY <2>2
    <3> HIDE DEF answer, transaction
    <3>6. transaction # <<>>
      BY <1>4, <3>5
    <3> HIDE DEF response, returned
    <3>1. transaction # <<>> /\ response = simulated /\ trouble' = trouble
      BY <1>1, <1>5, <2>2, <3>6
    <3>2. dryRun # <<>> /\ inspection # <<>>
      OBVIOUS
    <3>3. \/ call.name = "DryRun" /\ returned = dryRun
          \/ call.name = "DevInspect" /\ returned = inspection
      BY <1>3, <3>1 DEF returned
    <3>4. ReturnAnswer(returned)
      BY <1>1
    <3> QED BY <1>4, <3>1, <3>2, <3>3, <3>4 DEF ReturnAnswer, Return
  <2> QED BY <2>1, <2>2
<1> HIDE DEF paths, answer, transaction, response, dryRun, inspection, returned
<1>7. Connected' /\ Chain'
  BY <1>1, Frames DEF IInv, clientVars, chainVars
<1>8. Waiting' /\ Executed'
  BY <1>1, <1>3, <1>6 DEF Fail, Waiting, Executed
<1>9. NoSpuriousError'
  BY <1>6 DEF Fail, NoSpuriousError
<1>10. DryRan'
  <2>1. CASE dry' = dry
    BY <2>1, Frames DEF IInv
  <2>2. CASE call.name = "DryRun" /\ result' = "ok" /\ dry' # dry
    <3>1. dry' = [tx |-> call.tx, at |-> version, resp |-> resp'[1]]
      BY <1>1, <2>2
    <3>2. resp' = <<DryRunResponse(call.tx, simulated)>> /\ call.options = DryRunOptions
      BY <1>3, <1>6, <2>2 DEF Fail
    <3>3. resp'[1] = DryRunResponse(call.tx, Answered(call.tx, <<>>, version, DryRunOptions))
      BY <3>2
    <3>4. dry'.tx = call.tx /\ dry'.at = version /\ dry'.resp = resp'[1]
      BY <3>1
    <3> QED BY <3>3, <3>4 DEF DryRan
  <2> QED BY <1>1, <2>1, <2>2
<1>11. Inspected'
  <2> SUFFICES ASSUME call'.name = "DevInspect" PROVE Inspected'
    BY DEF Inspected
  <2>1. call' = call /\ call.name = "DevInspect"
    BY <1>1
  <2>2. sim'.checks = call.checks /\ sim'.data = call.data /\ sim'.at = version
    BY <1>1
  <2>3. sim'.checks = "DISABLED" /\ Priced(call.data.price) /\ call.options = SimulateOptions
    BY <1>3, <2>1, <2>2
  <2>4. Priced(sim.data.price)'
    BY <1>1, <2>1, <2>2, <2>3 DEF Priced
  <2>5. result' = "ok" =>
          resp' = <<DevInspectResults(Answered(call.tx, <<>>, version, SimulateOptions), OutputsAt(version))>>
    BY <1>6, <2>1, <2>3 DEF Fail
  <2> QED BY <1>2, <2>1, <2>2, <2>3, <2>4, <2>5 DEF Inspected
<1> QED BY <1>7, <1>8, <1>9, <1>10, <1>11 DEF IInv

(* Every step keeps the invariant. *)
LEMMA NextIInv ==
  IInv /\ [Next]_vars => IInv'
<1> SUFFICES ASSUME IInv, [Next]_vars PROVE IInv'
  OBVIOUS
<1>1. ASSUME NEW c \in Clients, NEW endpoint \in Endpoints, NEW dialled, NEW options \in OptionLists[c],
             NewFor(c, endpoint, options, dialled)
      PROVE  IInv'
  BY <1>1, ClientsKeepIInv
<1>2. ASSUME NEW c \in Clients, Close(c) PROVE IInv'
  BY <1>2, ClientsKeepIInv
<1>3. CASE Call
  BY <1>3, ExecuteTransactionBlockKeepsIInv, DryRunKeepsIInv, DevInspectKeepsIInv DEF Call
<1>4. CASE Answer
  <2>1. PICK empty \in BOOLEAN : ExecuteTransaction(empty) \/ GetReferenceGasPrice(empty) \/ Simulate(empty)
    BY <1>4 DEF Answer
  <2> QED BY <2>1, ExecuteTransactionKeepsIInv, GetReferenceGasPriceKeepsIInv, SimulateKeepsIInv
<1>5. CASE ExecuteTransactionRefused
  BY <1>5, RefusedKeepsIInv
<1>6. CASE RequestFails
  BY <1>6, RequestFailsKeepsIInv
<1>7. ASSUME NEW newPrice \in Prices, ChainGoesOn(newPrice) PROVE IInv'
  BY <1>7, ChainGoesOnKeepsIInv
<1>8. ASSUME NEW request \in late, LateArrival(request) PROVE IInv'
  BY <1>8, LateArrivalKeepsIInv
<1>9. CASE UNCHANGED vars
  BY <1>9, Frames DEF IInv, vars
<1> QED BY <1>1, <1>2, <1>3, <1>4, <1>5, <1>6, <1>7, <1>8, <1>9 DEF Next

-----------------------------------------------------------------------------
(***************************************************************************)
(* What the invariant says.                                                *)
(***************************************************************************)
LEMMA ExecutedTold ==
  IInv => SuccessMeansExecuted
<1> SUFFICES ASSUME IInv, call.name = "Execute", result = "ok" PROVE SuccessMeansExecuted
  BY DEF SuccessMeansExecuted
<1> DEFINE at == done[call.tx][1].at
           given == Converted(done[call.tx][1].given)
           answer == Answered(call.tx, given, at, call.options)
           executed == ExecutedTransaction(call.tx, given, at)
<1>1. call.tx \in Txs /\ done[call.tx] # <<>> /\ done[call.tx][1].signatures = given
  BY DEF IInv, Executed, Chain, Asked
<1>2. resp = <<answer>>
  BY <1>1 DEF IInv, Executed
<1>3. call.tx # Unset
  BY <1>1, NodeAssumptions
<1> HIDE DEF given
<1>4. /\ executed["effects"] = ExecutedTransaction(call.tx, <<>>, at)["effects"]
      /\ executed["signatures"] = given
  BY DEF ExecutedTransaction, Fields
<1>5. /\ "Effects" \in call.options => answer.effects = EffectsToInternalType(executed["effects"]).effects
      /\ "RawInput" \in call.options => answer.rawTransaction = <<call.tx, executed["signatures"]>>
  <2> HIDE DEF executed, at
  <2> DEFINE x == ExecutedTransaction(call.tx, <<>>, at)
  <2>1. Tells(answer, x, call.tx, given, call.options)
    BY <1>3, AskedAndAnswered
  <2> HIDE DEF answer, x
  <2> QED BY <1>4, <2>1 DEF Tells, x
<1> HIDE DEF answer
<1>6. resp # <<>> /\ resp[1] = answer
  BY <1>2
<1>7. given = [i \in DOMAIN done[call.tx][1].given |-> done[call.tx][1].given[i][2]]
  BY DEF given, Converted
<1>8. executed = ExecutedTransaction(call.tx, given, done[call.tx][1].at)
  OBVIOUS
<1> HIDE DEF executed
<1> QED BY <1>1, <1>5, <1>6, <1>7, <1>8 DEF SuccessMeansExecuted

(* What the answer to a dry run tells. *)
LEMMA DryRunTold ==
  IInv => DryRunForetells
<1> SUFFICES ASSUME IInv, call.name = "Execute", result = "ok",
                    dry # Unset, dry.tx = call.tx, dry.at = done[call.tx][1].at
             PROVE  DryRunForetells
  BY DEF DryRunForetells
<1> DEFINE at == done[call.tx][1].at
           signatures == done[call.tx][1].signatures
           answer == Answered(call.tx, signatures, at, call.options)
           simulated == Answered(call.tx, <<>>, at, DryRunOptions)
<1>1. call.tx \in Txs /\ resp = <<answer>>
  BY DEF IInv, Executed
<1>2. dry.resp = DryRunResponse(call.tx, simulated)
  BY DEF IInv, DryRan
<1>3. call.tx # Unset
  BY <1>1, NodeAssumptions
<1> HIDE DEF at, signatures
<1> DEFINE x == ExecutedTransaction(call.tx, <<>>, at)
<1>4. Tells(answer, x, call.tx, signatures, call.options)
  BY <1>3, AskedAndAnswered
<1>5. Tells(simulated, x, call.tx, <<>>, DryRunOptions)
  BY <1>3, AskedAndAnswered
<1> HIDE DEF answer, simulated, x
<1>6. resp[1] = answer
  BY <1>1
<1>7. /\ dry.resp.effects = simulated.effects /\ dry.resp.events = simulated.events
      /\ dry.resp.objectChanges = simulated.objectChanges
      /\ dry.resp.balanceChanges = simulated.balanceChanges
  BY <1>2 DEF DryRunResponse
<1> QED BY <1>4, <1>5, <1>6, <1>7 DEF Tells, DryRunOptions, DryRunForetells

(* Every value changed by reference is told with an argument. *)
LEMMA OutputsTold ==
  ASSUME NEW at \in Nat, OutcomeAt(at).success = "yes"
  PROVE  LET outputs == OutcomeAt(at).outputs
             results == ToInternalExecutionResults(outputs)
         IN /\ DOMAIN results = DOMAIN outputs
            /\ \A i \in DOMAIN outputs :
                 /\ results[i].returnValues = outputs[i].returned
                 /\ \A m \in ToSet(outputs[i].mutated) :
                      \E r \in ToSet(results[i].mutableReferenceOutputs) :
                        r.bytes = m.value /\ r.argument # <<>>
<1> DEFINE outputs == OutcomeAt(at).outputs
           results == ToInternalExecutionResults(outputs)
           told(i) == [j \in DOMAIN outputs[i].mutated |->
                         [argument |-> ArgumentToInternal(outputs[i].mutated[j].argument),
                          bytes |-> outputs[i].mutated[j].value]]
<1>1. \A i \in DOMAIN outputs : \A j \in DOMAIN outputs[i].mutated :
        outputs[i].mutated[j].argument.kind \in {"GAS", "INPUT", "RESULT"}
  BY OutcomeKnown, NodeAssumptions
<1>2. results = [i \in DOMAIN outputs |->
                   [mutableReferenceOutputs |-> told(i), returnValues |-> outputs[i].returned]]
  BY DEF ToInternalExecutionResults
<1> HIDE DEF outputs, results
<1>3. ASSUME NEW x, x.kind \in {"GAS", "INPUT", "RESULT"} PROVE ArgumentToInternal(x) # <<>>
  BY <1>3 DEF ArgumentToInternal
<1>4. ASSUME NEW i \in DOMAIN outputs, NEW m \in ToSet(outputs[i].mutated)
      PROVE  \E r \in ToSet(told(i)) : r.bytes = m.value /\ r.argument # <<>>
  <2>1. PICK j \in DOMAIN outputs[i].mutated : m = outputs[i].mutated[j]
    BY <1>4 DEF ToSet
  <2> DEFINE r == [argument |-> ArgumentToInternal(outputs[i].mutated[j].argument),
                   bytes |-> outputs[i].mutated[j].value]
  <2>2. told(i)[j] = r /\ DOMAIN told(i) = DOMAIN outputs[i].mutated
    OBVIOUS
  <2>3. r.bytes = m.value /\ r.argument # <<>>
    BY <1>1, <1>3, <2>1
  <2> HIDE DEF r, told
  <2>4. r \in ToSet(told(i))
    BY <2>2 DEF ToSet
  <2> QED BY <2>3, <2>4
<1> HIDE DEF told
<1>5. \A i \in DOMAIN outputs : results[i].mutableReferenceOutputs = told(i) /\ results[i].returnValues = outputs[i].returned
  BY <1>2
<1>6. DOMAIN results = DOMAIN outputs
  BY <1>2
<1> QED BY <1>4, <1>5, <1>6 DEF results, outputs

(* What the answer to an inspection tells. *)
LEMMA InspectedTold ==
  IInv => InspectionTold
<1> SUFFICES ASSUME IInv, call.name = "DevInspect", result = "ok" PROVE InspectionTold
  BY DEF InspectionTold
<1> DEFINE at == sim.at
           o == OutcomeAt(at)
           answer == Answered(call.tx, <<>>, at, SimulateOptions)
           told == DevInspectResults(answer, OutputsAt(at))
           x == ExecutedTransaction(call.tx, <<>>, at)
           e == x["effects"]
           status == answer.effects["Status"]
<1>1. at \in Nat /\ resp = <<told>>
  BY DEF IInv, Inspected
<1>2. resp[1] = told
  <2> HIDE DEF told
  <2> QED BY <1>1
<1>3. answer.effects = EffectsToInternalType(e).effects
  <2>1. "Effects" \in SimulateOptions /\ call.tx # Unset
    BY NodeAssumptions DEF SimulateOptions, IInv, Inspected
  <2>2. Tells(answer, x, call.tx, <<>>, SimulateOptions)
    BY <2>1, AskedAndAnswered
  <2> HIDE DEF answer, x
  <2> QED BY <2>1, <2>2 DEF Tells
<1>4. status = ToInternalStatus([success |-> o.success, description |-> o.description])
  <2>1. /\ e # Unset /\ e.changed \in Seq(Entries)
        /\ e.status = [success |-> o.success, description |-> o.description]
    BY <1>1, EffectsKnown
  <2> HIDE DEF e, answer
  <2> QED BY <1>3, <2>1, StatusTold
<1>5. status = IF o.success = "yes" THEN [status |-> "success", error |-> ""]
               ELSE [status |-> "failure", error |-> o.description]
  BY <1>4 DEF ToInternalStatus
<1> HIDE DEF answer
<1>6. /\ told.effects = answer.effects /\ told.results = ToInternalExecutionResults(OutputsAt(at))
      /\ told.error = IF status.error = "" THEN <<>> ELSE <<status.error>>
  BY DEF DevInspectResults
<1> HIDE DEF told, status
<1>12. told.effects["Status"] = status
  BY <1>6 DEF status
<1>7. told.effects["Status"].status = "success" <=> o.success = "yes"
  <2> HIDE DEF o
  <2>1. CASE o.success = "yes"
    <3>1. status.status = "success"
      BY <1>5, <2>1
    <3> QED BY <1>12, <2>1, <3>1
  <2>2. CASE o.success # "yes"
    <3>1. status.status = "failure"
      BY <1>5, <2>2
    <3> QED BY <1>12, <2>2, <3>1
  <2> QED BY <2>1, <2>2
<1>8. told.error = IF o.success = "yes" \/ o.description = "" THEN <<>> ELSE <<o.description>>
  <2> HIDE DEF o
  <2>1. CASE o.success = "yes"
    BY <1>5, <1>6, <2>1
  <2>2. CASE o.success # "yes"
    <3>1. status.error = o.description
      BY <1>5, <2>2
    <3> QED BY <1>6, <2>2, <3>1
  <2> QED BY <2>1, <2>2
<1>9. o.success # "yes" => told.results = <<>>
  <2> SUFFICES ASSUME o.success # "yes" PROVE told.results = <<>>
    OBVIOUS
  <2>1. told.results = ToInternalExecutionResults(<<>>)
    BY <1>6 DEF OutputsAt
  <2> QED BY <2>1 DEF ToInternalExecutionResults
<1>10. o.success = "yes" =>
         /\ DOMAIN told.results = DOMAIN o.outputs
         /\ \A i \in DOMAIN o.outputs :
              /\ told.results[i].returnValues = o.outputs[i].returned
              /\ \A m \in ToSet(o.outputs[i].mutated) :
                   \E r \in ToSet(told.results[i].mutableReferenceOutputs) :
                     r.bytes = m.value /\ r.argument # <<>>
  <2> SUFFICES ASSUME o.success = "yes"
               PROVE  /\ DOMAIN told.results = DOMAIN o.outputs
                      /\ \A i \in DOMAIN o.outputs :
                           /\ told.results[i].returnValues = o.outputs[i].returned
                           /\ \A m \in ToSet(o.outputs[i].mutated) :
                                \E r \in ToSet(told.results[i].mutableReferenceOutputs) :
                                  r.bytes = m.value /\ r.argument # <<>>
    OBVIOUS
  <2>1. told.results = ToInternalExecutionResults(o.outputs)
    BY <1>6 DEF OutputsAt
  <2> QED BY <1>1, <2>1, OutputsTold
<1> HIDE DEF o, at
<1>11. o = OutcomeAt(sim.at)
  BY DEF o, at
<1> QED BY <1>2, <1>7, <1>8, <1>9, <1>10, <1>11 DEF InspectionTold

-----------------------------------------------------------------------------
(***************************************************************************)
(* The theorems.                                                           *)
(***************************************************************************)
(* What is invariant of calls, the chain and the connections. *)
THEOREM Inductive == Spec => []IInv
<1>1. Init => IInv
  BY InitIInv
<1>2. IInv /\ [Next]_vars => IInv'
  BY NextIInv
<1> QED BY <1>1, <1>2, PTL DEF Spec

(* A call fails only if a signature was not one, the node failed or         *)
(* answered without a transaction, or the client's own connection was       *)
(* closed (client/execution.go, Close of client/client.go).                 *)
THEOREM ErrorsHaveACause == Spec => []NoSpuriousError
<1>1. IInv => NoSpuriousError
  BY DEF IInv
<1> QED BY <1>1, Inductive, PTL

(* ExecuteTransactionBlock succeeds only if the transaction was executed,   *)
(* and tells what it did then, however often it was submitted and though a  *)
(* request given up arrives later; it is signed as the caller of the        *)
(* request that arrived signed it, in the order given.                      *)
THEOREM SuccessIsExecution == Spec => []SuccessMeansExecuted
BY ExecutedTold, Inductive, PTL

(* DryRunTransaction tells what ExecuteTransactionBlock returns if the      *)
(* transaction is executed in the same state.                               *)
THEOREM DryRunsForetell == Spec => []DryRunForetells
BY DryRunTold, Inductive, PTL

(* DevInspectTransactionBlock simulates at the price asked for, or at a     *)
(* reference price in force during the call.                                *)
THEOREM InspectionsPriced == Spec => []InspectionPriced
<1>1. IInv => InspectionPriced
  BY DEF IInv, Inspected, Priced, InspectionPriced
<1> QED BY <1>1, Inductive, PTL

(* What DevInspectTransactionBlock returns tells success, the description   *)
(* of a failure, and the outputs of every command.                          *)
THEOREM InspectionsTold == Spec => []InspectionTold
BY InspectedTold, Inductive, PTL

-----------------------------------------------------------------------------
(***************************************************************************)
(* New: what the options of a client mean.                                 *)
(***************************************************************************)
(* Apply as the step of a fold. *)
ApplyOption(cfg, option, p) == Apply(cfg, option)
FA == INSTANCE SeqFolds WITH op <- ApplyOption

(* Induction, the hypothesis of FA. *)
LEMMA FAInduction == FA!Induction
BY SetInduction DEF FA!Induction

Creds == {"creds"} \X {"TLS", "plaintext", "mTLS"}

(* Places up to k of the options of a name, of those that set credentials   *)
(* and of the headers with a key.                                           *)
Placed(s, k, name) == {i \in 1..k : s[i][1] = name}
CredsTo(s, k) == {i \in Placed(s, k, "WithGRPCDialOptions") : s[i][2] # <<>>}
KeyedTo(s, k, key) == {i \in Placed(s, k, "WithHeader") : ToLower(s[i][2]) = key}

(* The configuration is what the first k options mean. *)
Means(cfg, s, k) ==
  /\ cfg = [dial |-> cfg.dial, conn |-> cfg.conn, headers |-> cfg.headers, insecure |-> cfg.insecure]
  /\ cfg.conn = IF Placed(s, k, "WithGRPCConn") = {} THEN "nil" ELSE s[Max(Placed(s, k, "WithGRPCConn"))][2]
  /\ cfg.dial \in Seq(Creds)
  /\ CredsTo(s, k) = {} => cfg.dial = <<>>
  /\ CredsTo(s, k) # {} => cfg.dial # <<>> /\ LastOf(cfg.dial) = LastOf(s[Max(CredsTo(s, k))][2])
  /\ cfg.insecure = IF Placed(s, k, "WithInsecure") = {} THEN "no" ELSE "yes"
  /\ cfg.headers = [key \in {ToLower(s[i][2]) : i \in Placed(s, k, "WithHeader")} |-> s[Max(KeyedTo(s, k, key))][3]]

(* A set of places up to k + 1. *)
LEMMA OneMorePlace ==
  ASSUME NEW s, NEW k \in Nat, NEW name
  PROVE  /\ s[k + 1][1] # name => Placed(s, k + 1, name) = Placed(s, k, name)
         /\ s[k + 1][1] = name => /\ Placed(s, k + 1, name) = Placed(s, k, name) \cup {k + 1}
                                  /\ Max(Placed(s, k + 1, name)) = k + 1
<1>1. 1..(k + 1) = (1..k) \cup {k + 1}
  OBVIOUS
<1>2. s[k + 1][1] # name => Placed(s, k + 1, name) = Placed(s, k, name)
  BY <1>1 DEF Placed
<1>3. s[k + 1][1] = name => Placed(s, k + 1, name) = Placed(s, k, name) \cup {k + 1}
  BY <1>1 DEF Placed
<1>4. Placed(s, k + 1, name) \in SUBSET (1..(k + 1))
  BY DEF Placed
<1>5. s[k + 1][1] = name => Max(Placed(s, k + 1, name)) = k + 1
  BY <1>3, <1>4, FA!MaxAtEnd DEF Max, FA!Max
<1> QED BY <1>2, <1>3, <1>5

(* The greatest place of a set that has k + 1. *)
LEMMA GreatestPlace ==
  ASSUME NEW s, NEW k \in Nat, NEW name, NEW S \in SUBSET Placed(s, k + 1, name), k + 1 \in S
  PROVE  Max(S) = k + 1
<1>1. S \in SUBSET (1..(k + 1))
  BY DEF Placed
<1> QED BY <1>1, FA!MaxAtEnd DEF Max, FA!Max

(* The forms of an option. *)
LEMMA OptionForms ==
  ASSUME NEW o \in Options
  PROVE  \/ o[1] = "WithGRPCDialOptions" /\ o[2] \in Seq(Creds)
         \/ o[1] = "WithGRPCConn"
         \/ o[1] = "WithInsecure"
         \/ o[1] = "WithHeader"
BY DEF Options, Creds

(* The last of two lists put together. *)
LEMMA LastOfBoth ==
  ASSUME NEW T, NEW d \in Seq(T), NEW e \in Seq(T), e # <<>>
  PROVE  d \o e \in Seq(T) /\ d \o e # <<>> /\ LastOf(d \o e) = LastOf(e)
<1>1. Len(d) \in Nat /\ Len(e) \in Nat /\ Len(e) >= 1
  OBVIOUS
<1>2. d \o e \in Seq(T) /\ Len(d \o e) = Len(d) + Len(e)
  OBVIOUS
<1>3. (d \o e)[Len(d) + Len(e)] = e[Len(e)]
  BY <1>1
<1> QED BY <1>1, <1>2, <1>3 DEF LastOf

(* Lists put behind a list one after the other. *)
LEMMA JoinLists ==
  ASSUME NEW T, NEW U, NEW a \in Seq(T), NEW b \in Seq(T), NEW c \in Seq(T), NEW d \in Seq(U)
  PROVE  a \o ((b \o c) \o d) = (a \o (b \o c)) \o d
<1> DEFINE V == T \cup U
           m == b \o c
<1>1. a \in Seq(V) /\ m \in Seq(T) /\ m \in Seq(V) /\ d \in Seq(V)
  OBVIOUS
<1> HIDE DEF V, m
<1>2. (a \o m) \o d = a \o (m \o d)
  BY <1>1, ConcatAssociative
<1> QED BY <1>2 DEF m

(* One more option. *)
LEMMA ApplyMeans ==
  ASSUME NEW s, NEW k \in Nat, s[k + 1] \in Options, NEW cfg, Means(cfg, s, k)
  PROVE  Means(Apply(cfg, s[k + 1]), s, k + 1)
<1> DEFINE o == s[k + 1]
           new == Apply(cfg, o)
           same(name) == Placed(s, k + 1, name) = Placed(s, k, name)
<1>1. \A name : o[1] # name => same(name)
  BY OneMorePlace
<1>2. same("WithGRPCDialOptions") => CredsTo(s, k + 1) = CredsTo(s, k)
  BY DEF CredsTo
<1>3. same("WithHeader") => \A key : KeyedTo(s, k + 1, key) = KeyedTo(s, k, key)
  BY DEF KeyedTo
<1>4. CASE o[1] = "WithGRPCDialOptions"
  <2>1. same("WithGRPCConn") /\ same("WithInsecure") /\ same("WithHeader")
    BY <1>1, <1>4
  <2>2. new = [cfg EXCEPT !.dial = cfg.dial \o o[2]] /\ o[2] \in Seq(Creds)
    BY <1>4, OptionForms DEF Apply
  <2>3. Placed(s, k + 1, "WithGRPCDialOptions") = Placed(s, k, "WithGRPCDialOptions") \cup {k + 1}
    BY <1>4, OneMorePlace
  <2>4. /\ new.conn = cfg.conn /\ new.headers = cfg.headers /\ new.insecure = cfg.insecure
        /\ new.dial = cfg.dial \o o[2] /\ cfg.dial \in Seq(Creds)
        /\ new = [dial |-> new.dial, conn |-> new.conn, headers |-> new.headers, insecure |-> new.insecure]
    BY <2>2 DEF Means
  <2>5. CASE o[2] = <<>>
    <3>1. CredsTo(s, k + 1) = CredsTo(s, k) /\ new.dial = cfg.dial
      BY <2>3, <2>4, <2>5 DEF CredsTo
    <3> QED BY <1>3, <2>1, <2>4, <3>1 DEF Means
  <2>6. CASE o[2] # <<>>
    <3>1. k + 1 \in CredsTo(s, k + 1) /\ CredsTo(s, k + 1) \in SUBSET Placed(s, k + 1, "WithGRPCDialOptions")
      BY <2>3, <2>6 DEF CredsTo
    <3>2. Max(CredsTo(s, k + 1)) = k + 1
      BY <3>1, GreatestPlace
    <3>3. new.dial \in Seq(Creds) /\ new.dial # <<>> /\ LastOf(new.dial) = LastOf(o[2])
      BY <2>2, <2>4, <2>6, LastOfBoth
    <3> QED BY <1>3, <2>1, <2>4, <3>1, <3>2, <3>3 DEF Means
  <2> QED BY <2>5, <2>6
<1>5. CASE o[1] = "WithGRPCConn"
  <2>1. same("WithGRPCDialOptions") /\ same("WithInsecure") /\ same("WithHeader")
    BY <1>1, <1>5
  <2>2. new = [cfg EXCEPT !.conn = o[2]]
    BY <1>5 DEF Apply
  <2>3. /\ Placed(s, k + 1, "WithGRPCConn") = Placed(s, k, "WithGRPCConn") \cup {k + 1}
        /\ Max(Placed(s, k + 1, "WithGRPCConn")) = k + 1
    BY <1>5, OneMorePlace
  <2>4. /\ new.conn = o[2] /\ new.headers = cfg.headers /\ new.insecure = cfg.insecure /\ new.dial = cfg.dial
        /\ new = [dial |-> new.dial, conn |-> new.conn, headers |-> new.headers, insecure |-> new.insecure]
    BY <2>2 DEF Means
  <2> QED BY <1>2, <1>3, <2>1, <2>3, <2>4 DEF Means
<1>6. CASE o[1] = "WithInsecure"
  <2>1. same("WithGRPCDialOptions") /\ same("WithGRPCConn") /\ same("WithHeader")
    BY <1>1, <1>6
  <2>2. new = [cfg EXCEPT !.insecure = "yes"]
    BY <1>6 DEF Apply
  <2>3. Placed(s, k + 1, "WithInsecure") = Placed(s, k, "WithInsecure") \cup {k + 1}
    BY <1>6, OneMorePlace
  <2>4. /\ new.conn = cfg.conn /\ new.headers = cfg.headers /\ new.insecure = "yes" /\ new.dial = cfg.dial
        /\ new = [dial |-> new.dial, conn |-> new.conn, headers |-> new.headers, insecure |-> new.insecure]
    BY <2>2 DEF Means
  <2> QED BY <1>2, <1>3, <2>1, <2>3, <2>4 DEF Means
<1>7. CASE o[1] = "WithHeader"
  <2> DEFINE low == ToLower(o[2])
             headers == [key \in {ToLower(s[i][2]) : i \in Placed(s, k + 1, "WithHeader")} |->
                           s[Max(KeyedTo(s, k + 1, key))][3]]
  <2>1. same("WithGRPCDialOptions") /\ same("WithGRPCConn") /\ same("WithInsecure")
    BY <1>1, <1>7
  <2>2. new = [cfg EXCEPT !.headers = Over([key \in {low} |-> o[3]], cfg.headers)]
    BY <1>7 DEF Apply
  <2>3. Placed(s, k + 1, "WithHeader") = Placed(s, k, "WithHeader") \cup {k + 1}
    BY <1>7, OneMorePlace
  <2>4. /\ new.conn = cfg.conn /\ new.insecure = cfg.insecure /\ new.dial = cfg.dial
        /\ new.headers = Over([key \in {low} |-> o[3]], cfg.headers)
        /\ new = [dial |-> new.dial, conn |-> new.conn, headers |-> new.headers, insecure |-> new.insecure]
    BY <2>2 DEF Means
  <2>5. k + 1 \in KeyedTo(s, k + 1, low) /\ KeyedTo(s, k + 1, low) \in SUBSET Placed(s, k + 1, "WithHeader")
    BY <2>3 DEF KeyedTo
  <2>6. Max(KeyedTo(s, k + 1, low)) = k + 1
    BY <2>5, GreatestPlace
  <2>7. \A key : key # low => KeyedTo(s, k + 1, key) = KeyedTo(s, k, key)
    BY <2>3 DEF KeyedTo
  <2>8. {ToLower(s[i][2]) : i \in Placed(s, k + 1, "WithHeader")}
          = {low} \cup {ToLower(s[i][2]) : i \in Placed(s, k, "WithHeader")}
    BY <2>3
  <2>9. new.headers = headers
    <3> DEFINE old == {ToLower(s[i][2]) : i \in Placed(s, k, "WithHeader")}
    <3>1. cfg.headers = [key \in old |-> s[Max(KeyedTo(s, k, key))][3]]
      BY DEF Means
    <3>2. new.headers = [key \in {low} \cup old |-> IF key = low THEN o[3] ELSE cfg.headers[key]]
      BY <2>4, <3>1 DEF Over
    <3>3. \A key \in {low} \cup old :
            (IF key = low THEN o[3] ELSE cfg.headers[key]) = s[Max(KeyedTo(s, k + 1, key))][3]
      BY <2>6, <2>7, <3>1
    <3> QED BY <2>8, <3>2, <3>3
  <2> QED BY <1>2, <2>1, <2>4, <2>9 DEF Means
<1> QED BY <1>4, <1>5, <1>6, <1>7, OptionForms

(* The configuration is what the options mean. *)
LEMMA ConfigMeans ==
  ASSUME NEW options \in Seq(Options)
  PROVE  Means(FoldLeft(Apply, EmptyConfig, options), options, Len(options))
<1> DEFINE cfg(k) == FA!Fold(EmptyConfig, 0, SubSeq(options, 1, k))
           K == {k \in Nat : k <= Len(options) => Means(cfg(k), options, k)}
<1>1. 0 \in K
  <2>1. SubSeq(options, 1, 0) = <<>>
    OBVIOUS
  <2>2. cfg(0) = EmptyConfig
    BY <2>1, FAInduction, FA!FoldEmpty
  <2>3. \A name : Placed(options, 0, name) = {}
    BY DEF Placed
  <2>4. CredsTo(options, 0) = {}
    BY <2>3 DEF CredsTo
  <2>5. Means(EmptyConfig, options, 0)
    BY <2>3, <2>4 DEF Means, EmptyConfig
  <2> QED BY <2>2, <2>5
<1>2. ASSUME NEW k \in Nat, k \in K PROVE k + 1 \in K
  <2> SUFFICES ASSUME k + 1 <= Len(options) PROVE Means(cfg(k + 1), options, k + 1)
    OBVIOUS
  <2>1. cfg(k + 1) = Apply(cfg(k), options[k + 1])
    BY FAInduction, FA!FoldPrefix DEF ApplyOption
  <2>2. options[k + 1] \in Options /\ Means(cfg(k), options, k)
    BY <1>2
  <2> QED BY <2>1, <2>2, ApplyMeans
<1>3. Nat \subseteq K
  BY <1>1, <1>2, SetInduction
<1>4. Len(options) \in Nat /\ SubSeq(options, 1, Len(options)) = options
  OBVIOUS
<1>5. FoldLeft(Apply, EmptyConfig, options) = FA!Fold(EmptyConfig, 0, options)
  BY DEF FA!Fold, ApplyOption, FA!MapThenFoldSet, FA!Max, FoldLeft, MapThenFoldSet, Max
<1>6. Means(cfg(Len(options)), options, Len(options))
  BY <1>3, <1>4
<1> QED BY <1>4, <1>5, <1>6

-----------------------------------------------------------------------------
(* GrpcDial as a fold. *)
DialOption(conn, o, p) ==
  IF o[1] = "creds" THEN [conn EXCEPT !.security = o[2]] ELSE [conn EXCEPT !.headers = Over(o[2], @)]
FD == INSTANCE SeqFolds WITH op <- DialOption

(* Induction, the hypothesis of FD. *)
LEMMA FDInduction == FD!Induction
BY SetInduction DEF FD!Induction

Connection(target, security, headers) == [target |-> target, security |-> security, headers |-> headers]

(* Of credentials the last count. *)
LEMMA LastCredentials ==
  ASSUME NEW target, NEW T, NEW list \in Seq(T), NEW n \in 1..Len(list), \A i \in 1..n : list[i] \in Creds
  PROVE  FD!Fold(Connection(target, "none", <<>>), 0, SubSeq(list, 1, n)) = Connection(target, list[n][2], <<>>)
<1> DEFINE conn(k) == FD!Fold(Connection(target, "none", <<>>), 0, SubSeq(list, 1, k))
           K == {k \in Nat : k <= n => conn(k) = Connection(target, IF k = 0 THEN "none" ELSE list[k][2], <<>>)}
<1>1. 0 \in K
  <2>1. SubSeq(list, 1, 0) = <<>>
    OBVIOUS
  <2>2. conn(0) = Connection(target, "none", <<>>)
    BY <2>1, FDInduction, FD!FoldEmpty
  <2> QED BY <2>2
<1>2. ASSUME NEW k \in Nat, k \in K PROVE k + 1 \in K
  <2> SUFFICES ASSUME k + 1 <= n PROVE conn(k + 1) = Connection(target, list[k + 1][2], <<>>)
    OBVIOUS
  <2>1. k + 1 <= Len(list) /\ k <= n
    OBVIOUS
  <2>2. conn(k + 1) = DialOption(conn(k), list[k + 1], 0)
    BY <2>1, FDInduction, FD!FoldPrefix
  <2>3. conn(k) = Connection(target, IF k = 0 THEN "none" ELSE list[k][2], <<>>)
    BY <1>2, <2>1
  <2>4. list[k + 1][1] = "creds"
    BY DEF Creds
  <2> HIDE DEF conn
  <2> QED BY <2>2, <2>3, <2>4 DEF DialOption, Connection
<1>3. n \in Nat /\ n # 0 /\ n <= n
  OBVIOUS
<1>4. n \in K
  BY <1>1, <1>2, <1>3, SetInduction
<1> QED BY <1>3, <1>4

(* Credentials, and then headers or nothing. *)
LEMMA DialMeans ==
  ASSUME NEW target, NEW list \in Seq(Creds), list # <<>>, NEW D, NEW h, h = [key \in D |-> h[key]]
  PROVE  /\ GrpcDial(target, list) = Connection(target, LastOf(list)[2], <<>>)
         /\ GrpcDial(target, list \o <<<<"headers", h>>>>) = Connection(target, LastOf(list)[2], h)
<1> DEFINE base == Connection(target, "none", <<>>)
           n == Len(list)
           o == <<"headers", h>>
           all == list \o <<o>>
           T == Creds \cup {o}
<1>1. \A l : GrpcDial(target, l) = FD!Fold(base, 0, l)
  BY DEF GrpcDial, Connection, FD!Fold, DialOption, FD!MapThenFoldSet, FD!Max, FoldLeft, MapThenFoldSet, Max
<1>2. n \in 1..Len(list) /\ SubSeq(list, 1, n) = list /\ \A i \in 1..n : list[i] \in Creds
  OBVIOUS
<1>3. FD!Fold(base, 0, list) = Connection(target, list[n][2], <<>>)
  BY <1>2, LastCredentials
<1>4. list \in Seq(T) /\ o \in T /\ all = Append(list, o)
  OBVIOUS
<1>5. FD!Fold(base, 0, Append(list, o)) = DialOption(FD!Fold(base, 0, list), o, 0)
  BY <1>4, FDInduction, FD!FoldAppend
<1>6. Over(h, <<>>) = h
  <2>1. DOMAIN h = D /\ DOMAIN <<>> = {} /\ h = [key \in D |-> h[key]]
    OBVIOUS
  <2> HIDE DEF all, T
  <2> QED BY <2>1 DEF Over
<1>7. DialOption(Connection(target, list[n][2], <<>>), o, 0) = Connection(target, list[n][2], h)
  <2>1. o[1] = "headers" /\ o[2] = h
    OBVIOUS
  <2> HIDE DEF o
  <2> QED BY <1>6, <2>1 DEF DialOption, Connection
<1> QED BY <1>1, <1>3, <1>4, <1>5, <1>7 DEF LastOf

(* New gives the connection that the options mean. *)
LEMMA NewAsAsked ==
  ASSUME NEW endpoint \in Endpoints, NEW options \in Seq(Options), NEW dialled \in {"ok", "error"},
         asked = [endpoint |-> endpoint, options |-> options, dialled |-> dialled,
                  made |-> New(endpoint, options, dialled)]
  PROVE  ConnectionAsAsked
<1> DEFINE n == Len(options)
           cfg == FoldLeft(Apply, EmptyConfig, options)
           conns == Placed(options, n, "WithGRPCConn")
           creds == CredsTo(options, n)
           headers == Placed(options, n, "WithHeader")
           insecures == Placed(options, n, "WithInsecure")
           keys == {ToLower(options[i][2]) : i \in headers}
           value(key) == options[Max(KeyedTo(options, n, key))][3]
           reserved == ReservedKeys
           made == New(endpoint, options, dialled)
           bad == \E i \in headers : options[i][2] \in reserved
           security == IF creds # {} THEN LastOf(options[Max(creds)][2])[2]
                       ELSE IF insecures # {} THEN "plaintext" ELSE "TLS"
<1>1. Means(cfg, options, n)
  BY ConfigMeans
<1>2. /\ cfg.conn = IF conns = {} THEN "nil" ELSE options[Max(conns)][2]
      /\ cfg.dial \in Seq(Creds) /\ (cfg.dial = <<>> <=> creds = {})
      /\ creds # {} => LastOf(cfg.dial) = LastOf(options[Max(creds)][2])
      /\ cfg.insecure = IF insecures = {} THEN "no" ELSE "yes"
      /\ cfg.headers = [key \in keys |-> value(key)]
  <2> HIDE DEF cfg
  <2> QED BY <1>1 DEF Means
<1>3. DOMAIN cfg.headers = keys /\ (cfg.headers = <<>> <=> headers = {})
  <2>1. DOMAIN cfg.headers = keys /\ (keys = {} <=> headers = {})
    BY <1>2
  <2>2. DOMAIN <<>> = {} /\ <<>> = [key \in {} |-> value(key)]
    OBVIOUS
  <2> HIDE DEF cfg
  <2> QED BY <1>2, <2>1, <2>2
<1>4. (\E key \in DOMAIN cfg.headers : ~ ValidHeaderKey(key)) <=> bad
  <2>1. \A key : ToLower(ToLower(key)) = ToLower(key)
    BY DEF ToLower
  <2>2. \A key : ValidHeaderKey(ToLower(key)) <=> key \notin reserved
    BY <2>1 DEF ValidHeaderKey, ToLower, ReservedKeys
  <2> QED BY <1>3, <2>2
<1>5. made = IF bad THEN NewClientError("header")
             ELSE IF cfg.conn # "nil" /\ cfg.dial # <<>> THEN NewClientError("dial options")
             ELSE IF cfg.conn # "nil" /\ cfg.headers # <<>> THEN NewClientError("headers")
             ELSE IF cfg.conn # "nil" THEN NewClientWithConn(cfg.conn)
             ELSE NewClient(endpoint, DialOptions(cfg), dialled)
  <2> DEFINE wrong == \E key \in DOMAIN cfg.headers : ~ ValidHeaderKey(key)
  <2>1. made = IF wrong THEN NewClientError("header")
             ELSE IF cfg.conn # "nil" /\ cfg.dial # <<>> THEN NewClientError("dial options")
             ELSE IF cfg.conn # "nil" /\ cfg.headers # <<>> THEN NewClientError("headers")
             ELSE IF cfg.conn # "nil" THEN NewClientWithConn(cfg.conn)
             ELSE NewClient(endpoint, DialOptions(cfg), dialled)
    BY DEF New
  <2>2. wrong <=> bad
    BY <1>4
  <2> HIDE DEF wrong, bad, made, cfg
  <2> QED BY <2>1, <2>2
<1>6. /\ Malformed(endpoint) => ParseEndpoint(endpoint) = "invalid"
      /\ ~ Malformed(endpoint) => ParseEndpoint(endpoint) = "host:443"
  BY ConnectionAssumptions DEF ParseEndpoint, Malformed
<1>7. Malformed(endpoint) \/ dialled = "error" =>
        NewClient(endpoint, DialOptions(cfg), dialled) \in {NewClientError("endpoint"), NewClientError("dial")}
  BY <1>6 DEF NewClient
<1>8. ~ Malformed(endpoint) /\ dialled # "error" =>
        NewClient(endpoint, DialOptions(cfg), dialled) =
          [err |-> "none", uses |-> "ownedConn", ownedConn |-> Connection("host:443", security, cfg.headers)]
  <2> DEFINE tls == <<<<"creds", "TLS">>>>
             plain == IF cfg.insecure = "yes" THEN <<<<"creds", "plaintext">>>> ELSE <<>>
             list == tls \o (plain \o cfg.dial)
             last == IF cfg.headers # <<>> THEN <<<<"headers", cfg.headers>>>> ELSE <<>>
  <2>1. tls \in Seq(Creds) /\ tls # <<>> /\ LastOf(tls)[2] = "TLS"
    BY DEF Creds, LastOf
  <2>2. /\ plain \in Seq(Creds) /\ (plain = <<>> <=> insecures = {})
        /\ plain # <<>> => LastOf(plain)[2] = "plaintext"
    BY <1>2 DEF Creds, LastOf
  <2>3. cfg.dial \in Seq(Creds)
    BY <1>2
  <2>4. list \in Seq(Creds) /\ list # <<>> /\ LastOf(list)[2] = security
    <3>1. CASE creds # {}
      <4>1. cfg.dial # <<>>
        BY <1>2, <3>1
      <4> HIDE DEF plain, tls, cfg, creds
      <4>2. plain \o cfg.dial \in Seq(Creds) /\ plain \o cfg.dial # <<>> /\ LastOf(plain \o cfg.dial) = LastOf(cfg.dial)
        BY <2>2, <2>3, <4>1, LastOfBoth
      <4>3. list \in Seq(Creds) /\ list # <<>> /\ LastOf(list) = LastOf(cfg.dial)
        BY <2>1, <4>2, LastOfBoth
      <4> QED BY <1>2, <3>1, <4>3
    <3>2. CASE creds = {} /\ insecures # {}
      <4>1. plain \o cfg.dial = plain /\ plain # <<>>
        <5>1. cfg.dial = <<>> /\ plain # <<>>
          BY <1>2, <2>2, <3>2
        <5> HIDE DEF plain, cfg
        <5> QED BY <2>2, <5>1
      <4> HIDE DEF plain, tls, cfg
      <4>2. list \in Seq(Creds) /\ list # <<>> /\ LastOf(list) = LastOf(plain)
        BY <2>1, <2>2, <4>1, LastOfBoth
      <4> QED BY <2>2, <3>2, <4>1, <4>2
    <3>3. CASE creds = {} /\ insecures = {}
      <4>1. cfg.dial = <<>> /\ plain = <<>>
        BY <1>2, <2>2, <3>3
      <4> HIDE DEF plain, tls, cfg
      <4>2. list = tls
        BY <2>1, <4>1
      <4> QED BY <2>1, <3>3, <4>2
    <3> QED BY <3>1, <3>2, <3>3
  <2>5. tls \o DialOptions(cfg) = list \o last
    <3>1. last \in Seq({<<"headers", cfg.headers>>})
      <4> DEFINE option == <<"headers", cfg.headers>>
      <4>1. last \in {<<option>>, <<>>}
        OBVIOUS
      <4> HIDE DEF last, option, cfg
      <4>2. <<option>> \in Seq({option}) /\ <<>> \in Seq({option})
        OBVIOUS
      <4>3. last \in Seq({option})
        BY <4>1, <4>2
      <4> QED BY <4>3 DEF option
    <3>2. DialOptions(cfg) = (plain \o cfg.dial) \o last
      BY DEF DialOptions
    <3> DEFINE dial == cfg.dial
               dialOptions == DialOptions(cfg)
               T == {<<"headers", cfg.headers>>}
    <3>3. tls \in Seq(Creds) /\ plain \in Seq(Creds) /\ dial \in Seq(Creds) /\ last \in Seq(T)
      BY <2>1, <2>2, <2>3, <3>1
    <3>4. dialOptions = (plain \o dial) \o last
      BY <3>2
    <3> HIDE DEF tls, plain, last, dial, dialOptions, T
    <3>5. tls \o ((plain \o dial) \o last) = (tls \o (plain \o dial)) \o last
      BY <3>3, JoinLists
    <3> QED BY <3>4, <3>5 DEF dialOptions, dial
  <2>6. GrpcDial("host:443", list \o last) = Connection("host:443", security, cfg.headers)
    <3> DEFINE h == cfg.headers
    <3>1. h = [key \in keys |-> h[key]]
      <4> HIDE DEF cfg
      <4> QED BY <1>2
    <3> HIDE DEF list, cfg, security, keys
    <3>2. /\ GrpcDial("host:443", list) = Connection("host:443", security, <<>>)
          /\ GrpcDial("host:443", list \o <<<<"headers", h>>>>) = Connection("host:443", security, h)
      BY <2>4, <3>1, DialMeans
    <3>3. list \o <<>> = list
      BY <2>4
    <3> QED BY <3>2, <3>3
  <2> HIDE DEF list, last, cfg, security, tls
  <2>7. ~ Malformed(endpoint) /\ dialled # "error" =>
          NewClient(endpoint, DialOptions(cfg), dialled) =
            [err |-> "none", uses |-> "ownedConn", ownedConn |-> GrpcDial("host:443", tls \o DialOptions(cfg))]
    BY <1>6 DEF NewClient, tls
  <2> QED BY <2>5, <2>6, <2>7
<1>9. /\ asked.made = made /\ asked.options = options /\ asked.endpoint = endpoint
      /\ asked.dialled = dialled
      /\ DOMAIN options = 1..n
  OBVIOUS
<1>10. /\ Given("WithGRPCConn") = conns /\ GivenCreds = creds
       /\ Given("WithHeader") = headers /\ Given("WithInsecure") = insecures
       /\ \A key : GivenFor(key) = KeyedTo(options, n, key)
       /\ \A places : LastGiven(places) = options[Max(places)]
  BY <1>9 DEF Placed, CredsTo, KeyedTo, Given, GivenCreds, GivenFor, LastGiven
<1>11. \A why : NewClientError(why).err = why
  BY DEF NewClientError
<1> HIDE DEF cfg, conns, creds, headers, insecures, made, bad, keys
<1>12. CASE conns # {} /\ options[Max(conns)][2] # "nil"
  <2>1. cfg.conn = options[Max(conns)][2]
    BY <1>2, <1>12
  <2>2. IF creds \cup headers # {} THEN made.err # "none"
        ELSE made.err = "none" /\ made.uses = options[Max(conns)][2]
    <3>1. headers = {} => ~ bad
      BY DEF bad
    <3> QED BY <1>2, <1>3, <1>5, <1>11, <1>12, <2>1, <3>1 DEF NewClientWithConn
  <2> QED BY <1>9, <1>10, <1>12, <2>2 DEF ConnectionAsAsked
<1>13. CASE ~ (conns # {} /\ options[Max(conns)][2] # "nil")
  <2>1. cfg.conn = "nil"
    BY <1>2, <1>13
  <2>2. bad \/ Malformed(endpoint) \/ dialled = "error" => made.err # "none"
    BY <1>5, <1>7, <1>11, <2>1
  <2>3. ~ bad /\ ~ Malformed(endpoint) /\ dialled # "error" =>
          made = [err |-> "none", uses |-> "ownedConn", ownedConn |-> Connection("host:443", security, cfg.headers)]
    BY <1>5, <1>8, <2>1
  <2> HIDE DEF security
  <2>4. ~ bad /\ ~ Malformed(endpoint) /\ dialled # "error" =>
          /\ made.err = "none" /\ made.uses = "ownedConn"
          /\ made.ownedConn.target = "host:443" /\ made.ownedConn.security = security
          /\ made.ownedConn.headers = cfg.headers
    BY <2>3 DEF Connection
  <2>5. DOMAIN cfg.headers = keys /\ \A key \in keys : cfg.headers[key] = value(key)
    BY <1>2
  <2>6. bad <=> \E i \in headers : options[i][2] \in reserved
    BY DEF bad
  <2>7. keys = {ToLower(options[i][2]) : i \in headers}
    BY DEF keys
  <2>8. bad \/ Malformed(endpoint) \/ dialled = "error" => ConnectionAsAsked
    BY <1>9, <1>10, <1>13, <2>2, <2>6 DEF ConnectionAsAsked
  <2>9. /\ DOMAIN cfg.headers = {ToLower(asked.options[i][2]) : i \in headers}
        /\ \A key \in DOMAIN cfg.headers : cfg.headers[key] = LastGiven(GivenFor(key))[3]
    <3>1. keys = {ToLower(asked.options[i][2]) : i \in headers}
      BY <1>9 DEF keys
    <3>2. \A key \in DOMAIN cfg.headers : cfg.headers[key] = LastGiven(GivenFor(key))[3]
      BY <1>10, <2>5
    <3> QED BY <2>5, <3>1, <3>2
  <2>10. ASSUME ~ bad, ~ Malformed(endpoint), dialled # "error" PROVE ConnectionAsAsked
    <3>1. ~ \E i \in headers : asked.options[i][2] \in ReservedKeys
      BY <1>9, <2>6, <2>10
    <3>2. security = IF GivenCreds # {} THEN LastOf(LastGiven(GivenCreds)[2])[2]
                     ELSE IF Given("WithInsecure") # {} THEN "plaintext" ELSE "TLS"
      BY <1>10 DEF security
    <3>3. ~ (Given("WithGRPCConn") # {} /\ LastGiven(Given("WithGRPCConn"))[2] # "nil")
      BY <1>10, <1>13
    <3> HIDE DEF headers
    <3> QED BY <1>9, <1>10, <2>4, <2>9, <2>10, <3>1, <3>2, <3>3 DEF ConnectionAsAsked
  <2> QED BY <2>8, <2>10
<1> QED BY <1>12, <1>13

(* What was asked of the last New, and what New made of it. *)
MadeAsAsked ==
  asked # Unset =>
    \E endpoint \in Endpoints, options \in Seq(Options), dialled \in {"ok", "error"} :
      asked = [endpoint |-> endpoint, options |-> options, dialled |-> dialled,
               made |-> New(endpoint, options, dialled)]

(* A client has the connection, credentials and headers its options ask     *)
(* for, in whatever order they are given and however often.                 *)
THEOREM ConnectionsAsAsked == Spec => []ConnectionAsAsked
<1>1. Init => MadeAsAsked
  BY DEF Init, MadeAsAsked
<1>2. MadeAsAsked /\ [Next]_vars => MadeAsAsked'
  <2> SUFFICES ASSUME MadeAsAsked, [Next]_vars PROVE MadeAsAsked'
    OBVIOUS
  <2>1. CASE UNCHANGED asked
    BY <2>1 DEF MadeAsAsked
  <2>2. ASSUME NEW c \in Clients, NEW endpoint \in Endpoints, NEW options \in OptionLists[c],
               NEW dialled \in {"ok", "error"}, NewFor(c, endpoint, options, dialled)
        PROVE  MadeAsAsked'
    <3>1. options \in Seq(Options)
      BY ConnectionAssumptions
    <3> QED BY <2>2, <3>1 DEF NewFor, MadeAsAsked
  <2>3. CASE asked' = Unset
    BY <2>3 DEF MadeAsAsked
  <2>4. CASE UNCHANGED vars
    BY <2>1, <2>4 DEF vars
  <2>5. CASE \E c \in Clients : Close(c)
    BY <2>1, <2>5 DEF Close
  <2>6. CASE Call
    BY <2>1, <2>3, <2>6 DEF Call, ExecuteTransactionBlock, DryRunTransaction, DevInspectTransactionBlock, Begin, Fail, clientVars
  <2>7. CASE Answer
    BY <2>1, <2>7 DEF Answer, ExecuteTransaction, GetReferenceGasPrice, Simulate, clientVars
  <2>8. CASE ExecuteTransactionRefused \/ RequestFails
    BY <2>1, <2>8 DEF ExecuteTransactionRefused, RequestFails, clientVars
  <2>9. CASE \E newPrice \in Prices : ChainGoesOn(newPrice)
    BY <2>1, <2>9 DEF ChainGoesOn, clientVars
  <2>10. CASE \E request \in late : LateArrival(request)
    BY <2>1, <2>10 DEF LateArrival, clientVars
  <2> QED BY <2>2, <2>4, <2>5, <2>6, <2>7, <2>8, <2>9, <2>10 DEF Next
<1>3. MadeAsAsked => ConnectionAsAsked
  <2>1. asked = Unset => ConnectionAsAsked
    BY DEF ConnectionAsAsked
  <2> QED BY <2>1, NewAsAsked DEF MadeAsAsked
<1> QED BY <1>1, <1>2, <1>3, PTL DEF Spec
=============================================================================
