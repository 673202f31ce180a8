----------------------------- MODULE TxResponse -----------------------------
(***************************************************************************)
(* What a caller is told about an executed transaction, by the read masks  *)
(* and conversions of ResponseOps.  The chain here is a store of objects   *)
(* that transactions change.  A reader fetches every transaction in turn   *)
(* and keeps its own picture of the objects from the effects it is given.  *)
(***************************************************************************)
EXTENDS ResponseOps

CONSTANTS
  Objects,       \* objects that are not packages
  Packages,      \* Move packages
  Owners,        \* kinds of owner the node reports
  OptionSets,    \* sets of options callers use
  EventLists,    \* events of a transaction, "ok" or "bad" each
  MaxTx          \* bound: transactions executed

ASSUME ResponseAssumptions ==
  /\ Owners \subseteq {"ADDRESS", "CONSENSUS_ADDRESS", "OBJECT", "SHARED", "IMMUTABLE",
                       "UNKNOWN", "BAD_ADDRESS"}
  /\ OptionSets \subseteq SUBSET {"Input", "RawInput", "Effects", "Events", "ObjectChanges",
                                  "BalanceChanges"}
  /\ MaxTx \in Nat
  /\ IsFiniteSet(Objects) /\ IsFiniteSet(Packages) /\ Objects \cap Packages = {}
  /\ EventLists \subseteq Seq({"ok", "bad"})

VARIABLES
  store,      \* the chain: [life, version, owner] of every object
  funds,      \* an address balance, changed by accumulator writes
  before,     \* store before the last transaction
  tx,         \* the last transaction as the node holds it, or Unset
  lamport,    \* its version, the number of transactions so far
  resp,       \* the last response, or Unset
  opts,       \* the options it was asked with
  view,       \* the reader's picture of the objects: [life, version]
  fundsView,  \* and of the address balance
  seen        \* the last transaction the reader has taken into its picture

vars == <<store, funds, before, tx, lamport, resp, opts, view, fundsView, seen>>

Ids == Objects \cup Packages

-----------------------------------------------------------------------------
(***************************************************************************)
(* EXTERNAL: the chain.  An object is absent, live, wrapped in another     *)
(* object or deleted; a transaction moves some of them and the node        *)
(* describes each move by a changed_objects entry.                         *)
(***************************************************************************)
Moves ==
  {<<"absent", "live">>, <<"absent", "wrapped">>, <<"live", "live">>, <<"live", "wrapped">>,
   <<"live", "deleted">>, <<"wrapped", "live">>, <<"wrapped", "deleted">>}

MayMove(o, to) ==
  /\ <<store[o].life, to>> \in Moves
  /\ o \in Packages => to = "live"

Entry(o, to, owner, n) ==
  [id |-> o,
   input |-> IF store[o].life = "live" THEN "EXISTS" ELSE "DOES_NOT_EXIST",
   output |-> CASE to # "live" -> "DOES_NOT_EXIST"
                [] to = "live" /\ o \in Packages -> "PACKAGE_WRITE"
                [] to = "live" /\ o \in Objects -> "OBJECT_WRITE",
   op |-> CASE store[o].life = "absent" -> "CREATED"
            [] to = "deleted" -> "DELETED"
            [] OTHER -> "NONE",
   version |-> n, inputVersion |-> store[o].version, owner |-> owner, write |-> Unset]

(* An accumulator write adds to or takes from an address balance; the node  *)
(* may leave its payload out.                                               *)
AccumulatorEntry(write) ==
  [id |-> "accumulator", input |-> "EXISTS", output |-> "ACCUMULATOR_WRITE", op |-> "NONE",
   version |-> 0, inputVersion |-> 0, owner |-> "UNKNOWN", write |-> write]

Writes ==
  {[operation |-> "Merge", value |-> 1], [operation |-> "Split", value |-> 1],
   [operation |-> "", value |-> 0]}

(* What the node tells of a transaction's effects. *)
Entries ==
  [id : Ids \cup {"accumulator"}, input : {"EXISTS", "DOES_NOT_EXIST"},
   output : {"DOES_NOT_EXIST", "PACKAGE_WRITE", "OBJECT_WRITE", "ACCUMULATOR_WRITE"},
   op : {"CREATED", "DELETED", "NONE"}, version : Nat, inputVersion : Nat,
   owner : Owners \cup {"UNKNOWN"}, write : Writes \cup {Unset}]

Effects ==
  [lamport : Nat, status : [success : {"yes"}, description : {""}],
   gasObject : Entries \cup {Unset}, changed : Seq(Entries)]

(* What a response tells of them, and of events. *)
References ==
  [id : Ids \cup {"accumulator"}, version : Nat,
   owner : {"AddressOwner", "ObjectOwner", "Shared", "Immutable", "zero"}]
    \cup [id : Ids \cup {"accumulator"}, version : Nat]
    \cup [id : Ids \cup {"accumulator"}, operation : {"Merge", "Split", ""}, value : Nat]

ToldEffects ==
  [Buckets \cup {"Status"} -> Seq(References) \cup [status : {"success"}, error : {""}]]

ToldEvents == Seq([seq : Nat, entry : {"ok"}])

(* None of it is nil. *)
ASSUME NilAssumption ==
  /\ Unset \notin Effects /\ Unset \notin {"user", "system"} /\ Unset \notin Seq({"ok", "bad"})
  /\ Unset \notin ToldEffects /\ Unset \notin ToldEvents

FundsAfter(f, write) ==
  CASE write.operation = "Merge" -> f + write.value
    [] write.operation = "Split" -> f - write.value
    [] OTHER -> f

(* The reader starts from a picture that is right. *)
Init ==
  /\ store \in [Ids -> [life : {"absent", "live", "wrapped"}, version : {0}, owner : {"ADDRESS"}]]
  /\ \A o \in Packages : store[o].life # "wrapped"
  /\ before = store
  /\ funds = 0 /\ fundsView = 0
  /\ tx = Unset /\ resp = Unset /\ opts = {}
  /\ lamport = 0 /\ seen = 0
  /\ view = [o \in Ids |-> [life |-> IF store[o].life = "live" THEN "live" ELSE "gone",
                            version |-> 0]]

(* A transaction of kind bcs, which stands for its sender too, moves the    *)
(* objects of moves, gives those it writes to owner and makes at most one   *)
(* accumulator write.                                                       *)
Execute(bcs, moves, owner, writes, events) ==
  LET n == lamport + 1
      order == SetToSeq(DOMAIN moves)
      changed == [i \in DOMAIN order |-> Entry(order[i], moves[order[i]], owner, n)]
      gasCoins == {e \in ToSet(changed) : e.input = "EXISTS" /\ e.output = "OBJECT_WRITE"}
  IN /\ lamport < MaxTx /\ seen = lamport
     /\ \A o \in DOMAIN moves : MayMove(o, moves[o])
     /\ lamport' = n
     /\ before' = store
     /\ store' = [o \in Ids |->
                    IF o \in DOMAIN moves
                      THEN [life |-> moves[o], version |-> n, owner |-> owner]
                      ELSE store[o]]
     /\ funds' = IF writes = <<>> THEN funds ELSE FundsAfter(funds, writes[1])
     /\ funds' >= 0
     /\ tx' = [p \in Fields |->
                 CASE p = "transaction.bcs" -> bcs
                   [] p = "signatures" -> "signatures"
                   [] p = "effects" ->
                        [lamport |-> n, status |-> [success |-> "yes", description |-> ""],
                         gasObject |-> IF bcs = "system" \/ gasCoins = {} THEN Unset
                                       ELSE CHOOSE e \in gasCoins : TRUE,
                         changed |-> changed \o [i \in DOMAIN writes |-> AccumulatorEntry(writes[i])]]
                   [] p \in {"events", "balance_changes"} -> events
                   [] p \in {"digest", "checkpoint", "timestamp"} -> n]
     /\ resp' = Unset /\ opts' = {}
     /\ UNCHANGED <<view, fundsView, seen>>

-----------------------------------------------------------------------------
(***************************************************************************)
(* The reader.  It takes the effects of a transaction into its picture     *)
(* once, and gives up on an object that the response says it left out.     *)
(***************************************************************************)
LiveRefs(effects) == effects["Created"] \o effects["Mutated"] \o effects["Unwrapped"]
GoneRefs(effects) == effects["Deleted"] \o effects["UnwrappedThenDeleted"] \o effects["Wrapped"]

Replay(r) ==
  [o \in Ids |->
     IF <<"effects", o>> \in r.errors THEN [life |-> "lost", version |-> 0]
     ELSE IF \E ref \in ToSet(GoneRefs(r.effects)) : ref.id = o
       THEN [life |-> "gone", version |-> 0]
     ELSE IF \E ref \in ToSet(LiveRefs(r.effects)) : ref.id = o
       THEN [life |-> "live",
             version |-> (CHOOSE ref \in ToSet(LiveRefs(r.effects)) : ref.id = o).version]
     ELSE view[o]]

(* GetTransactionBlock *)
GetTransactionBlock(options) ==
  LET r == ToInternalType(Masked(tx, ResponseReadMaskPaths(options)), options)
      first == "Effects" \in options /\ seen # lamport
  IN /\ tx # Unset
     /\ resp' = r
     /\ opts' = options
     /\ view' = IF first THEN Replay(r) ELSE view
     /\ fundsView' = IF first
                       THEN FoldLeft(FundsAfter, fundsView, r.effects["AccumulatorEvents"])
                       ELSE fundsView
     /\ seen' = IF first THEN lamport ELSE seen
     /\ UNCHANGED <<store, funds, before, tx, lamport>>

(* The node fails, or answers without a transaction: the call is an error. *)
GetTransactionBlockFails ==
  /\ tx # Unset
  /\ resp' = Unset
  /\ opts' = {}
  /\ UNCHANGED <<store, funds, before, tx, lamport, view, fundsView, seen>>

Next ==
  \/ \E S \in SUBSET Ids : \E moves \in [S -> {"live", "wrapped", "deleted"}],
        bcs \in {"user", "system"}, owner \in Owners,
        writes \in {<<>>} \cup {<<w>> : w \in Writes}, events \in EventLists :
          Execute(bcs, moves, owner, writes, events)
  \/ \E options \in OptionSets : GetTransactionBlock(options)
  \/ GetTransactionBlockFails

Spec == Init /\ [][Next]_vars

-----------------------------------------------------------------------------
(* A reader that replays the effects of every transaction knows which       *)
(* objects are live, at which version, and the address balance; only an     *)
(* object whose owner has a malformed address is lost, and the response     *)
(* said so.                                                                 *)
ViewFollowsChain ==
  seen = lamport =>
    /\ fundsView = funds
    /\ \A o \in Ids :
         IF view[o].life = "lost" THEN store[o].owner = "BAD_ADDRESS"
         ELSE IF store[o].life = "live" THEN view[o] = [life |-> "live", version |-> store[o].version]
         ELSE view[o].life = "gone"

Moved(o, from) == before[o].life = from /\ store[o] # before[o] /\ store[o].life = "live"
Sender == IF tx["transaction.bcs"] = "system" THEN "zero" ELSE "user"

Unrenderable(o) ==
  ~ ParsesAsAddress(o) \/ (o \in Objects /\ store[o].owner \in {"UNKNOWN", "BAD_ADDRESS"})

(* The object changes are the objects created and mutated and the packages  *)
(* published by the transaction, each once, with the transaction's sender   *)
(* and the versions before and after; no deletion, wrap, unwrap or upgrade  *)
(* in place.  Those whose id does not parse, or whose owner cannot be       *)
(* rendered, are reported instead, and they alone.                          *)
ChangesTellWrites ==
  resp # Unset /\ "ObjectChanges" \in opts =>
    LET told == ToSet(resp.objectChanges)
        reported == {o \in Ids : <<"change", o>> \in resp.errors}
        written == {o \in Objects : Moved(o, "absent") \/ Moved(o, "live")}
        published == {o \in Packages : Moved(o, "absent")}
    IN /\ \A i, j \in DOMAIN resp.objectChanges :
            resp.objectChanges[i].id = resp.objectChanges[j].id => i = j
       /\ {c.id : c \in told} = {o \in written \cup published : ~ Unrenderable(o)}
       /\ reported = {o \in written \cup published : Unrenderable(o)}
       /\ \A c \in told :
            /\ c.version = store[c.id].version
            /\ c.kind = "Created" <=> c.id \in Objects /\ before[c.id].life = "absent"
            /\ c.kind = "Mutated" => c.previousVersion = before[c.id].version
            /\ c.kind # "Published" => c.sender = Sender

(* The read mask fetches what the conversion needs: each part of the        *)
(* response that was asked for is complete, with the signatures of the      *)
(* input, and the parts not asked for are unset.  What cannot be rendered   *)
(* is in the errors, and the events that are keep their number in the       *)
(* transaction.                                                             *)
AskedIsAnswered ==
  resp # Unset =>
    LET signed == <<tx["transaction.bcs"], tx["signatures"]>>
        complete(list, what, asked) ==
          \A i \in DOMAIN asked :
            IF asked[i] = "ok" THEN \E x \in ToSet(list) : x.seq = i - 1
            ELSE <<what, i - 1>> \in resp.errors
    IN /\ resp.digest = lamport /\ resp.checkpoint = lamport /\ resp.timestamp = lamport
       /\ resp.rawTransaction = IF "RawInput" \in opts THEN signed ELSE Unset
       /\ \/ resp.transaction = IF "Input" \in opts THEN signed ELSE Unset
          \/ Sender = "zero" /\ <<"decode", 0>> \in resp.errors
       /\ resp.effects # Unset <=> "Effects" \in opts
       /\ resp.objectChanges # <<>> => "ObjectChanges" \in opts
       /\ resp.events # Unset <=> "Events" \in opts
       /\ "Events" \in opts => complete(resp.events, "event", tx["events"])
       /\ resp.balanceChanges # Unset <=> "BalanceChanges" \in opts /\ tx["events"] # <<>>
       /\ resp.balanceChanges # Unset =>
            complete(resp.balanceChanges, "balance", tx["balance_changes"])
=============================================================================
