----------------------------- MODULE BatchReads -----------------------------
(***************************************************************************)
(* The client's reads of transactions, objects, coins, balances and single *)
(* checkpoints (client/transactions.go, client/checkpoints.go,             *)
(* client/objects.go, client/coins.go, client/balances.go): transactions are fetched in       *)
(* chunks, balances in pages, objects one by one or in a batch, coins in   *)
(* pages whose cursor the caller carries from call to call.  Between two   *)
(* requests the node goes on: it executes and prunes transactions, and     *)
(* what the account holds changes.                                         *)
(***************************************************************************)
EXTENDS ObjectView

CONSTANTS
  Digests,       \* transaction digests
  DigestLists,   \* lists given to MultiGetTransactionBlocks
  Contents,      \* the transactions of the checkpoint read
  Items,         \* coin types an account can hold, and objects that can exist,
                 \* in the order in which the node lists them: 1..n
  ItemObject,    \* the object of each item, as the node holds it
  Checkpoints,   \* checkpoints the node can serve
  CoinInfo,      \* the metadata of each coin type, Unset if it has none
  ObjectLists,   \* lists given to MultiGetObjects
  OptionSets,    \* options given to the object reads
  Limits,        \* limits given to GetCoins, 0 for none
  ChunkSize,     \* batchTransactionsChunkSize, 50 in the code
  PageSize,      \* balancesPageSize, 1000 in the code
  DefaultPage,   \* the node's page size if none is asked for, 50
  U32,           \* the number of uint32 values
  NodeMay,       \* ways the node may fail
  MaxChanges     \* bound: changes of the node's state during a call

ASSUME ReadAssumptions ==
  /\ IsFiniteSet(Items) /\ Items = 1..Cardinality(Items)
  /\ DigestLists \subseteq Seq(Digests) /\ Contents \in Seq(Digests) /\ ObjectLists \subseteq Seq(Items)
  /\ DOMAIN ItemObject = Items /\ \A k \in Items : DOMAIN ItemObject[k] = ObjectFields
  /\ DOMAIN CoinInfo = Items
  /\ \A x \in Checkpoints : CheckpointReadMaskPaths \subseteq DOMAIN x
  /\ OptionSets \subseteq SUBSET Options
  /\ Limits \subseteq Nat /\ U32 \in Nat /\ DefaultPage \in 1..U32
  /\ ChunkSize \in Nat \ {0} /\ PageSize \in Nat \ {0} /\ MaxChanges \in Nat
  /\ NodeMay \subseteq {"fail", "short", "INTERNAL", "nothing", "malformed", "empty"}

(* What the node holds is well formed: an object has its own id and one of  *)
(* the kinds of owner, metadata that names an object has an id that parses, *)
(* and no object or type is nil.                                            *)
ASSUME NodeAssumptions ==
  /\ Unset # "package"
  /\ \A k \in Items :
       /\ ItemObject[k]["object_id"] = k
       /\ ItemObject[k]["owner"] \in {"ADDRESS", "CONSENSUS_ADDRESS", "OBJECT", "SHARED", "IMMUTABLE",
                                      "UNKNOWN", "BAD_ADDRESS"}
       /\ CoinInfo[k] # Unset => CoinInfo[k].id # Malformed
       /\ ItemObject[k] # Unset
       /\ \A options \in OptionSets : Masked(ItemObject[k], ObjectReadMaskPaths(options)) # Unset

(* The items and the checkpoints are enough to tell the fields apart: one   *)
(* object and one checkpoint have them all.                                 *)
ASSUME WitnessAssumption ==
  /\ \E k \in Items :
       /\ \A f \in ObjectFields : ItemObject[k][f] # Unset
       /\ ItemObject[k]["object_type"] # "package"
       /\ ToInternalObjectOwner(ItemObject[k]["owner"]) \notin {"error", Unset}
  /\ \E x \in Checkpoints :
       /\ \A p \in CheckpointReadMaskPaths : x[p] # Unset
       /\ Get(x["summary"], "epoch") # Unset

VARIABLES
  known,     \* transactions the node can serve
  held,      \* items the account holds, or that exist
  changes,   \* changes since the call began
  call,      \* the call in progress, or the last one
  pc,        \* "idle", or the request it is at
  todo,      \* digests or objects asked for
  opts,      \* options of an object read
  start,     \* start, the digests done so far
  token,     \* pageToken, 0 is empty
  cursor,    \* the caller's cursor into its coins
  paged,     \* the last page of coins, [limit, size]
  out,       \* what the call has collected
  result,    \* "none", "ok" or "error"
  chunk,     \* the digests of the last batch request
  trouble,   \* history: the node failed, or lacked something asked for
  always,    \* history: items held throughout the call
  ever       \* history: items held at some time of the call

nodeVars == <<known, held>>
callVars == <<call, todo, opts>>
coinVars == <<cursor, paged>>
histVars == <<changes, always, ever>>
vars == <<known, held, changes, call, pc, todo, opts, start, token, cursor, paged, out, result,
          chunk, trouble, always, ever>>

-----------------------------------------------------------------------------
(***************************************************************************)
(* EXTERNAL: the node.                                                     *)
(***************************************************************************)
Change(newKnown, newHeld) ==
  /\ changes < MaxChanges /\ pc # "idle"
  /\ known' = newKnown
  /\ held' = newHeld
  /\ changes' = changes + 1
  /\ always' = always \cap newHeld
  /\ ever' = ever \cup newHeld
  /\ UNCHANGED <<callVars, coinVars, pc, start, token, out, result, chunk, trouble>>

(* Only what the call in progress can notice. *)
ReadsTransactions == pc \in {"checkpoint", "chunk"}
ReadsItems == pc \in {"objects", "object", "page", "balance", "coins"}
ExecuteTx(d) == ReadsTransactions /\ d \notin known /\ Change(known \cup {d}, held)
PruneTx(d) == ReadsTransactions /\ d \in known /\ Change(known \ {d}, held)
Receive(k) == ReadsItems /\ k \notin held /\ Change(known, held \cup {k})
Spend(k) == ReadsItems /\ k \in held /\ Change(known, held \ {k})

(* Answers to a batch request: a result for each entry, OK or NOT_FOUND; a  *)
(* failing node may cut the list short, or put an error, nothing at all or  *)
(* something malformed in the place of one result.                          *)
Honest(list, has) ==
  [i \in DOMAIN list |->
     [code |-> IF list[i] \in has THEN "OK" ELSE "NOT_FOUND", item |-> list[i]]]

Answers(list, has, faults) ==
  LET full == Honest(list, has)
  IN {full}
       \cup {Front(full) : f \in NodeMay \cap faults \cap {"short"}}
       \cup {[full EXCEPT ![i].code = c] : i \in DOMAIN full, c \in (NodeMay \cap faults) \ {"short"}}

(* A page holds up to size of what comes after the token, at least one if   *)
(* there is any; its token is the last it lists, and empty if there is      *)
(* nothing left, though a node may only find that out at the next request.  *)
Pages(after, size) ==
  LET rest == {k \in held : k > after}
      first(n) == {l \in [1..n -> rest] :
                     /\ \A i, j \in 1..n : i < j => l[i] < l[j]
                     /\ \A k \in rest \ ToSet(l), i \in 1..n : l[i] < k}
      lists == UNION {first(n) : n \in 0..(IF size = 0 THEN DefaultPage ELSE size)}
  IN {page \in [list : lists, next : {0} \cup rest] :
        /\ page.list = <<>> => rest = {}
        /\ IF page.next = 0 THEN rest \subseteq ToSet(page.list)
           ELSE page.list # <<>> /\ page.next = Last(page.list)}

-----------------------------------------------------------------------------
(***************************************************************************)
(* The client.                                                             *)
(***************************************************************************)
(* A cursor of GetCoins: none, the empty string, a page token in base64, or *)
(* text that is not base64.                                                 *)
NilCursor == <<"nil">>
Cursor(pageToken) == <<"base64", pageToken>>

PageToken(c) == IF c[1] = "base64" THEN c[2] ELSE 0

Init ==
  /\ known \in SUBSET Digests
  /\ held \in SUBSET Items
  /\ changes = 0 /\ always = {} /\ ever = {}
  /\ call = "none" /\ pc = "idle" /\ todo = <<>> /\ opts = {} /\ start = 0 /\ token = 0
  /\ cursor = NilCursor /\ paged = [limit |-> 0, size |-> 0]
  /\ out = <<>> /\ result = "none" /\ chunk = <<>> /\ trouble = "no"

Begin(name, at, list, options) ==
  /\ pc = "idle"
  /\ call' = name /\ pc' = at /\ todo' = list /\ opts' = options
  /\ start' = 0 /\ token' = 0 /\ out' = <<>> /\ result' = "none"
  /\ cursor' = NilCursor /\ paged' = [limit |-> 0, size |-> 0]
  /\ chunk' = <<>> /\ trouble' = "no"
  /\ changes' = 0 /\ always' = held /\ ever' = held
  /\ UNCHANGED nodeVars

(* Mutant: the error is swallowed and the same request made again. *)
Fail_retry == UNCHANGED <<pc, result, out>>

(* An error returns nothing of what was collected. *)
Fail ==
  /\ pc' = "idle" /\ result' = "error" /\ out' = <<>>

Return(list) ==
  /\ pc' = "idle" /\ result' = "ok" /\ out' = list

MultiGetTransactionBlocks(digests) == Begin("MultiGetTransactionBlocks", "chunk", digests, {})

GetCheckpointTransactions == Begin("GetCheckpointTransactions", "checkpoint", <<>>, {})

(* The first request is for the digests of the checkpoint.  An answer       *)
(* without a checkpoint has none.                                           *)
CheckpointDigests ==
  /\ pc = "checkpoint"
  /\ pc' = "chunk"
  /\ \/ todo' = Contents /\ UNCHANGED trouble
     \/ "empty" \in NodeMay /\ todo' = <<>> /\ trouble' = "yes"
  /\ UNCHANGED <<nodeVars, histVars, coinVars, call, opts, start, token, out, result, chunk>>

(* Mutant: one digest too many in a chunk. *)
ChunkEnd_inclusive ==
  IF start + ChunkSize + 1 < Len(todo) THEN start + ChunkSize + 1 ELSE Len(todo)

ChunkEnd == IF start + ChunkSize < Len(todo) THEN start + ChunkSize ELSE Len(todo)

(* Mutants: the number of results is not compared, or compared with the     *)
(* size of a full chunk.                                                    *)
ChunkComplete_uncounted(results) == \A i \in DOMAIN results : results[i].code = "OK"

ChunkComplete_full(results) ==
  /\ Len(results) = ChunkSize
  /\ \A i \in DOMAIN results : results[i].code = "OK"

(* The results of a chunk: all there, each a transaction. *)
ChunkComplete(results) ==
  /\ Len(results) = ChunkEnd - start
  /\ \A i \in DOMAIN results : results[i].code = "OK"

(* One turn of the loop of batchGetTransactions. *)
BatchGetTransactions ==
  /\ pc = "chunk" /\ start < Len(todo)
  /\ chunk' = SubSeq(todo, start + 1, ChunkEnd)
  /\ \E results \in Answers(chunk', known, {"short", "INTERNAL", "nothing"}) :
       /\ trouble' = IF results = [i \in DOMAIN chunk' |-> [code |-> "OK", item |-> chunk'[i]]]
                       THEN trouble ELSE "yes"
       /\ IF ChunkComplete(results)
            THEN /\ out' = out \o [i \in DOMAIN results |-> results[i].item]
                 /\ start' = start + ChunkSize
                 /\ UNCHANGED <<pc, result>>
            ELSE Fail /\ UNCHANGED start
  /\ UNCHANGED <<nodeVars, histVars, callVars, coinVars, token>>

ReturnTransactions ==
  /\ pc = "chunk" /\ start >= Len(todo)
  /\ Return(out)
  /\ UNCHANGED <<nodeVars, histVars, callVars, coinVars, start, token, chunk, trouble>>

MultiGetObjects(ids, options) == Begin("MultiGetObjects", "objects", ids, options)

GetObject(id, options) == Begin("GetObject", "object", <<id>>, options)

(* Mutant: objects that are not found are left out. *)
ObjectResponses_found(results) ==
  LET found == SelectSeq(results, LAMBDA r : r.code = "OK")
      converted(r) == ObjectToInternalType(Masked(ItemObject[r.item], ObjectReadMaskPaths(opts)), opts)
  IN [i \in DOMAIN found |-> [id |-> found[i].item] @@ converted(found[i])]

(* NOT_FOUND becomes a notExists entry; any other error, or a result that   *)
(* does not convert, is an error.                                           *)
ObjectResponses(results) ==
  LET object(r) == CASE r.code = "OK" -> Masked(ItemObject[r.item], ObjectReadMaskPaths(opts))
                     [] r.code = "malformed" ->
                          [Masked(ItemObject[r.item], ObjectReadMaskPaths(opts)) EXCEPT !["object_id"] = Malformed]
                     [] r.code = "nothing" -> Unset
      response(r) == CASE r.code = "NOT_FOUND" -> [err |-> "notExists", data |-> Unset]
                       [] r.code = "INTERNAL" -> ObjectError("INTERNAL")
                       [] OTHER -> ObjectToInternalType(object(r), opts)
      placed(id, outcome) == [id |-> id, err |-> outcome.err, data |-> outcome.data]
  IN [i \in DOMAIN results |-> placed(todo[i], response(results[i]))]

(* One error fails the call, too few results too. *)
ReturnObjects(results) ==
  LET responses == ObjectResponses(results)
      good == /\ Len(results) = Len(todo)
              /\ \A i \in DOMAIN responses : responses[i].err \in {"none", "notExists"}
      badOwner == \E i \in DOMAIN results :
                    /\ "Owner" \in opts /\ results[i].code = "OK"
                    /\ ItemObject[results[i].item]["owner"] \in {"UNKNOWN", "BAD_ADDRESS"}
  IN /\ IF good THEN Return(responses) ELSE Fail
     /\ trouble' = IF results = Honest(todo, held) /\ ~ badOwner THEN trouble ELSE "yes"
     /\ UNCHANGED <<nodeVars, histVars, callVars, coinVars, start, token, chunk>>

(* The node is not asked for an empty list. *)
BatchGetObjects ==
  /\ pc = "objects"
  /\ \E results \in IF todo = <<>> THEN {<<>>}
                    ELSE Answers(todo, held, {"short", "INTERNAL", "nothing", "malformed"}) :
       ReturnObjects(results)

FetchObject ==
  /\ pc = "object"
  /\ \E results \in Answers(todo, held, {"INTERNAL", "nothing", "malformed"}) :
       ReturnObjects(results)

GetAllBalances == Begin("GetAllBalances", "page", <<>>, {})

(* Mutant: a page that is not full is taken for the last one. *)
ListBalances_shortpage ==
  /\ pc = "page"
  /\ \E page \in Pages(token, PageSize) :
       /\ token' = page.next
       /\ IF page.next = 0 \/ Len(page.list) < PageSize
            THEN Return(out \o page.list)
            ELSE out' = out \o page.list /\ UNCHANGED <<pc, result>>
  /\ UNCHANGED <<nodeVars, histVars, callVars, coinVars, start, chunk, trouble>>

(* One turn of the loop of GetAllBalances. *)
ListBalances ==
  /\ pc = "page"
  /\ \E page \in Pages(token, PageSize) :
       /\ token' = page.next
       /\ IF page.next = 0
            THEN Return(out \o page.list)
            ELSE out' = out \o page.list /\ UNCHANGED <<pc, result>>
  /\ UNCHANGED <<nodeVars, histVars, callVars, coinVars, start, chunk, trouble>>

GetBalance(coinType) ==
  Begin("GetBalance", "balance", <<IF coinType = 0 THEN 1 ELSE coinType>>, {})

(* A balance that the account does not hold, or that is not in the answer,  *)
(* is zero; held items have a balance.                                      *)
FetchBalance ==
  /\ pc = "balance"
  /\ \/ /\ Return(<<[of |-> todo[1], zero |-> IF todo[1] \in held THEN "no" ELSE "yes"]>>)
        /\ UNCHANGED trouble
     \/ /\ "empty" \in NodeMay
        /\ Return(<<[of |-> 0, zero |-> "yes"]>>)
        /\ trouble' = "yes"
  /\ UNCHANGED <<nodeVars, histVars, callVars, coinVars, start, token, chunk>>

GetCheckpoint(x) == Begin("GetCheckpoint", "summary", <<x>>, {})

(* An answer without a checkpoint is converted as well. *)
FetchCheckpoint ==
  /\ pc = "summary"
  /\ \/ Return(<<CheckpointToInternalType(Masked(todo[1], CheckpointReadMaskPaths))>>) /\ UNCHANGED trouble
     \/ "empty" \in NodeMay /\ Return(<<CheckpointToInternalType(<<>>)>>) /\ trouble' = "yes"
  /\ UNCHANGED <<nodeVars, histVars, callVars, coinVars, start, token, chunk>>

GetCoinMetadata(coinType) == Begin("GetCoinMetadata", "metadata", <<coinType>>, {})

FetchCoinInfo ==
  /\ pc = "metadata"
  /\ \E info \in {CoinInfo[todo[1]]}
                  \cup {Unset : f \in NodeMay \cap {"nothing"}}
                  \cup {[id |-> Malformed] : f \in NodeMay \cap {"malformed"}} :
       LET metadata == CoinInfoToInternalType(info)
       IN /\ IF metadata.err = "none" THEN Return(<<metadata.data>>) ELSE Fail
          /\ trouble' = IF info = CoinInfo[todo[1]] /\ info # Unset THEN trouble ELSE "yes"
  /\ UNCHANGED <<nodeVars, histVars, callVars, coinVars, start, token, chunk>>

(* The caller lists its coins: it calls GetCoins with no cursor and then    *)
(* with the cursor of the page before, with any limits, as long as there is *)
(* a next page.                                                             *)
ListAllCoins == Begin("GetCoins", "coins", <<>>, {})

(* A cursor that does not decode is an error before any request. *)
GetCoinsInvalidCursor ==
  /\ pc = "idle"
  /\ call' = "GetCoins, invalid cursor" /\ cursor' = <<"garbled">>
  /\ Fail
  /\ trouble' = "yes"
  /\ UNCHANGED <<nodeVars, histVars, todo, opts, start, token, paged, chunk>>

(* Mutant: the limit is not sent. *)
RequestedPageSize_unset(limit) == 0

(* uint32(limit), and no page size for no limit. *)
RequestedPageSize(limit) == limit % U32

(* HasNextPage is set with the cursor. *)
NextCursor(page) == IF page.next = 0 THEN NilCursor ELSE Cursor(page.next)

(* One call of GetCoins, which converts every object of the page. *)
GetCoins(limit) ==
  /\ pc = "coins"
  /\ \E page \in Pages(PageToken(cursor), RequestedPageSize(limit)) :
       LET coins == [i \in DOMAIN page.list |->
                       ToInternalCoin(Masked(ItemObject[page.list[i]], CoinReadMaskPaths))]
       IN /\ \A i \in DOMAIN coins : coins[i].err = "none"
          /\ paged' = [limit |-> limit, size |-> Len(coins)]
          /\ cursor' = NextCursor(page)
          /\ LET all == out \o [i \in DOMAIN coins |-> coins[i].data]
             IN IF cursor' = NilCursor THEN Return(all) ELSE out' = all /\ UNCHANGED <<pc, result>>
  /\ UNCHANGED <<nodeVars, histVars, callVars, start, token, chunk, trouble>>

(* A page that fails, by the request or by an object that does not convert, *)
(* leaves the caller with its cursor: it may ask for the page again.        *)
GetCoinsFails ==
  /\ pc = "coins" /\ NodeMay \cap {"fail", "malformed"} # {}
  /\ trouble' = "yes"
  /\ UNCHANGED <<nodeVars, histVars, callVars, coinVars, pc, start, token, out, result, chunk>>

(* A gRPC error, the context's deadline among them, at any request. *)
RequestFails ==
  /\ pc # "idle" /\ "fail" \in NodeMay
  /\ pc \in {"chunk", "objects"} => start < Len(todo)
  /\ Fail
  /\ trouble' = "yes"
  /\ UNCHANGED <<nodeVars, histVars, callVars, coinVars, start, token, chunk>>

Call ==
  \/ \E digests \in DigestLists : MultiGetTransactionBlocks(digests)
  \/ GetCheckpointTransactions
  \/ \E ids \in ObjectLists, options \in OptionSets : MultiGetObjects(ids, options)
  \/ \E id \in Items, options \in OptionSets : GetObject(id, options)
  \/ GetAllBalances
  \/ \E coinType \in {0} \cup Items : GetBalance(coinType)
  \/ \E x \in Checkpoints : GetCheckpoint(x)
  \/ \E coinType \in Items : GetCoinMetadata(coinType)
  \/ ListAllCoins
  \/ GetCoinsInvalidCursor

ClientStep ==
  \/ CheckpointDigests
  \/ BatchGetTransactions
  \/ ReturnTransactions
  \/ BatchGetObjects
  \/ FetchObject
  \/ ListBalances
  \/ FetchBalance
  \/ FetchCheckpoint
  \/ FetchCoinInfo
  \/ \E limit \in Limits : GetCoins(limit)
  \/ GetCoinsFails
  \/ RequestFails

NodeStep ==
  \/ \E d \in Digests : ExecuteTx(d) \/ PruneTx(d)
  \/ \E k \in Items : Receive(k) \/ Spend(k)

Next == Call \/ ClientStep \/ NodeStep

Spec == Init /\ [][Next]_vars

(* The client goes on as long as the node answers; the node may change its  *)
(* state meanwhile.                                                         *)
FairSpec == Spec /\ WF_vars(ClientStep)

-----------------------------------------------------------------------------
(* The call is at one of its requests or returned, and a batch request asks *)
(* for at most ChunkSize transactions, the node's limit.                    *)
TypeOK ==
  /\ known \subseteq Digests /\ held \subseteq Items
  /\ pc \in {"idle", "checkpoint", "chunk", "objects", "object", "page", "balance", "summary",
            "metadata", "coins"}
  /\ result \in {"none", "ok", "error"}
  /\ token \in {0} \cup Items
  /\ cursor \in {NilCursor, <<"garbled">>} \cup {Cursor(k) : k \in Items}
  /\ Len(chunk) <= ChunkSize
  /\ always \subseteq ever /\ ever \subseteq Items

Succeeded(names) == call \in names /\ result = "ok"

(* MultiGetTransactionBlocks and GetCheckpointTransactions return every     *)
(* transaction asked for, in the order of the digests, or an error and      *)
(* nothing: never a part, although the node prunes or fails between two     *)
(* chunks.  A checkpoint that is not in the node's answer reads as an empty *)
(* one.                                                                     *)
AllOrNothing ==
  /\ Succeeded({"MultiGetTransactionBlocks", "GetCheckpointTransactions"}) =>
       out = todo
  /\ Succeeded({"GetCheckpointTransactions"}) =>
       out = Contents \/ (out = <<>> /\ trouble = "yes")
  /\ result = "error" => out = <<>>

(* GetObject and MultiGetObjects answer every request in its place, and an  *)
(* object that exists during the call is not said to be missing.            *)
ObjectsInPlace ==
  Succeeded({"MultiGetObjects", "GetObject"}) =>
    /\ DOMAIN out = DOMAIN todo
    /\ \A i \in DOMAIN out :
         /\ out[i].id = todo[i]
         /\ out[i].err = "none" => out[i].data.objectId = todo[i] /\ todo[i] \in ever
         /\ out[i].err # "none" => todo[i] \notin always

(* The read masks are written apart from the conversions: what is shown of  *)
(* an object, a coin or a checkpoint is what the conversion makes of all of *)
(* it, so no field it uses is left out of the mask; and the mask of an      *)
(* object or checkpoint asks for no field that changes nothing.  A          *)
(* checkpoint that is not in the node's answer reads as one of zeros.       *)
MaskFits ==
  /\ Succeeded({"MultiGetObjects", "GetObject"}) =>
       /\ \A i \in DOMAIN out :
            out[i].err = "none" => out[i].data = ObjectToInternalType(ItemObject[todo[i]], opts).data
       /\ LET mask == ObjectReadMaskPaths(opts)
          IN \A p \in mask : \E k \in Items :
               ObjectToInternalType(Masked(ItemObject[k], mask \ {p}), opts)
                 # ObjectToInternalType(ItemObject[k], opts)
  /\ Succeeded({"GetCheckpoint"}) =>
       /\ out[1] = CheckpointToInternalType(IF trouble = "no" THEN todo[1] ELSE <<>>)
       /\ \A p \in CheckpointReadMaskPaths : \E x \in Checkpoints :
            CheckpointToInternalType(Masked(x, CheckpointReadMaskPaths \ {p})) # CheckpointToInternalType(x)
  /\ call = "GetCoins" =>
       \A i \in DOMAIN out : out[i] = ToInternalCoin(ItemObject[out[i].coinObjectId]).data

Listed == IF call = "GetCoins" THEN [i \in DOMAIN out |-> out[i].coinObjectId] ELSE out

(* GetAllBalances, and a caller that follows the cursors of GetCoins, list  *)
(* nothing twice, everything the account held throughout, and nothing it    *)
(* did not hold at some time of it, whatever comes and goes between the     *)
(* pages, whatever the limits, and although failed pages are asked for      *)
(* again.  GetBalance says the same of the one coin type it is asked for.   *)
ListingComplete ==
  /\ Succeeded({"GetAllBalances", "GetCoins"}) =>
       /\ IsInjective(Listed)
       /\ always \subseteq ToSet(Listed) /\ ToSet(Listed) \subseteq ever
  /\ Succeeded({"GetBalance"}) /\ trouble = "no" =>
       /\ out[1].of = todo[1]
       /\ IF out[1].zero = "no" THEN todo[1] \in ever ELSE todo[1] \notin always

(* A page of GetCoins holds no more coins than the limit asked for, also    *)
(* where the limit does not fit a uint32.                                   *)
PageWithinLimit == paged.limit > 0 => paged.size <= paged.limit

(* A call fails only if the node failed or lacked something asked for, an   *)
(* owner asked for cannot be rendered, or the cursor was malformed.  The    *)
(* metadata of a coin type that has some is not missed.                     *)
ErrorsJustified == result = "error" => trouble = "yes"

(* Every call returns, with a result or an error. *)
CallReturns == pc # "idle" ~> pc = "idle"
=============================================================================
