-------------------------- MODULE BatchReads_proofs --------------------------
(***************************************************************************)
(* Proofs about BatchReads: for any lists, any sizes of chunks and pages,  *)
(* any limits, and any changes and failures of the node.                   *)
(***************************************************************************)
EXTENDS BatchReads, FiniteSetTheorems, SequenceTheorems, TLAPS

(* L lists, in order and once each, items up to t that the account held at  *)
(* some time of the call, all it held throughout among them.                *)
Ascending(L) == \A i, j \in DOMAIN L : i < j => L[i] < L[j]

ListedUpTo(L, t) ==
  /\ L \in Seq(Items) /\ Ascending(L)
  /\ \A i \in DOMAIN L : L[i] \in ever /\ L[i] <= t
  /\ \A k \in always : k <= t => \E i \in DOMAIN L : L[i] = k

(* The same of a listing that is complete. *)
ListedAll(L) ==
  /\ L \in Seq(Items) /\ Ascending(L)
  /\ \A i \in DOMAIN L : L[i] \in ever
  /\ \A k \in always : \E i \in DOMAIN L : L[i] = k

(* A call in progress has not returned, and remembers what was held. *)
InProgress ==
  pc # "idle" => /\ result = "none"
                 /\ always \subseteq held /\ held \subseteq ever

(* What was collected at each request of a call. *)
CollectedChunks ==
  /\ pc = "checkpoint" => call = "GetCheckpointTransactions" /\ start = 0 /\ out = <<>>
  /\ pc = "chunk" =>
       /\ call \in {"MultiGetTransactionBlocks", "GetCheckpointTransactions"}
       /\ call = "GetCheckpointTransactions" => todo = Contents \/ (todo = <<>> /\ trouble = "yes")
       /\ todo \in Seq(Digests) /\ start \in Nat
       /\ out = IF start < Len(todo) THEN SubSeq(todo, 1, start) ELSE todo

AtOneRequest ==
  /\ pc \in {"objects", "object"} =>
       /\ call \in {"MultiGetObjects", "GetObject"}
       /\ todo \in Seq(Items) /\ opts \in OptionSets
       /\ pc = "object" => Len(todo) = 1
  /\ pc = "balance" => call = "GetBalance"
  /\ pc = "summary" => call = "GetCheckpoint" /\ trouble = "no" /\ \E x \in Checkpoints : todo = <<x>>
  /\ pc = "metadata" => call = "GetCoinMetadata" /\ \E k \in Items : todo = <<k>>

CollectedPages ==
  pc = "page" => call = "GetAllBalances" /\ ListedUpTo(out, token)

(* What can be shown of the items that are coins. *)
CoinsShown ==
  {ToInternalCoin(ItemObject[k]).data : k \in {j \in Items : ToInternalCoin(ItemObject[j]).err = "none"}}

CollectedCoins ==
  /\ pc = "coins" => call = "GetCoins" /\ cursor # <<"garbled">> /\ ListedUpTo(Listed, PageToken(cursor))
  /\ call = "GetCoins" => out \in Seq(CoinsShown)

Returned ==
  /\ AllOrNothing /\ ObjectsInPlace /\ MaskFits /\ ListingComplete /\ PageWithinLimit /\ ErrorsJustified

IInv ==
  /\ TypeOK
  /\ InProgress
  /\ CollectedChunks
  /\ AtOneRequest
  /\ CollectedPages
  /\ CollectedCoins
  /\ Returned

-----------------------------------------------------------------------------
(***************************************************************************)
(* The read masks and the conversions.                                     *)
(***************************************************************************)
(* Items are positive numbers: none is the empty token or a malformed id. *)
LEMMA ItemsPositive ==
  Items \subseteq Nat \ {0}
<1>1. Cardinality(Items) \in Nat
  BY ReadAssumptions, FS_CardinalityType
<1> QED BY <1>1, ReadAssumptions

(* The mask of an object read has the paths of its options. *)
LEMMA MaskHasPaths ==
  ASSUME NEW options, NEW o \in options
  PROVE  PathsOf(o) \subseteq ObjectReadMaskPaths(options)
BY DEF ObjectReadMaskPaths

(* What a masked object shows of a field in the mask. *)
LEMMA MaskedField ==
  ASSUME NEW x, NEW paths, NEW f \in paths, f \in DOMAIN x
  PROVE  Get(Masked(x, paths), f) = Get(x, f)
BY DEF Get, Masked

(* Each field that a conversion of an object looks at is in the mask of its *)
(* options: the masked object converts to what the whole one does.          *)
LEMMA ObjectMaskFits ==
  ASSUME NEW k \in Items, NEW options \in OptionSets
  PROVE  ObjectToInternalType(Masked(ItemObject[k], ObjectReadMaskPaths(options)), options)
           = ObjectToInternalType(ItemObject[k], options)
<1> DEFINE x == ItemObject[k]
           mask == ObjectReadMaskPaths(options)
           m == Masked(x, mask)
<1>1. x # Unset /\ m # Unset /\ DOMAIN x = ObjectFields
  BY NodeAssumptions, ReadAssumptions
<1>2. \A f \in mask \cap ObjectFields : Get(m, f) = Get(x, f)
  BY <1>1, MaskedField
<1>3. \A o \in options : PathsOf(o) \subseteq mask
  BY MaskHasPaths
<1>4. Get(m, "object_id") = Get(x, "object_id") /\ Get(m, "version") = Get(x, "version")
        /\ Get(m, "digest") = Get(x, "digest")
  BY <1>2 DEF ObjectReadMaskPaths, ObjectFields
<1>5. "Type" \in options => Get(m, "object_type") = Get(x, "object_type")
  BY <1>2, <1>3 DEF PathsOf, ObjectFields
<1>6. "Content" \in options => ToInternalParsedData(m) = ToInternalParsedData(x)
  <2>1. "Content" \in options => {"object_type", "json", "has_public_transfer"} \subseteq mask
    BY <1>3 DEF PathsOf
  <2> HIDE DEF m, x, mask
  <2> QED BY <1>2, <2>1 DEF ToInternalParsedData, ObjectFields
<1>7. "Bcs" \in options => ToInternalRawData(m) = ToInternalRawData(x)
  <2>1. "Bcs" \in options => {"object_type", "contents", "has_public_transfer"} \subseteq mask
    BY <1>3 DEF PathsOf
  <2> HIDE DEF m, x, mask
  <2> QED BY <1>2, <1>4, <2>1 DEF ToInternalRawData, ObjectFields
<1>8. /\ "Owner" \in options => Get(m, "owner") = Get(x, "owner")
      /\ "PreviousTransaction" \in options => Get(m, "previous_transaction") = Get(x, "previous_transaction")
      /\ "StorageRebate" \in options => Get(m, "storage_rebate") = Get(x, "storage_rebate")
      /\ "Display" \in options => Get(m, "display") = Get(x, "display")
  BY <1>2, <1>3 DEF PathsOf, ObjectFields
<1> HIDE DEF m, x, mask
<1>9. ObjectToInternalType(m, options) = ObjectToInternalType(x, options)
  BY <1>1, <1>4, <1>5, <1>6, <1>7, <1>8 DEF ObjectToInternalType
<1> QED BY <1>9 DEF m, x, mask

(* And no path of the mask is idle: an object with all its fields shows the *)
(* difference.                                                              *)
LEMMA ObjectMaskTight ==
  ASSUME NEW options \in OptionSets, NEW p \in ObjectReadMaskPaths(options)
  PROVE  \E k \in Items :
           ObjectToInternalType(Masked(ItemObject[k], ObjectReadMaskPaths(options) \ {p}), options)
             # ObjectToInternalType(ItemObject[k], options)
<1>1. PICK k \in Items :
        /\ \A f \in ObjectFields : ItemObject[k][f] # Unset
        /\ ItemObject[k]["object_type"] # "package"
        /\ ToInternalObjectOwner(ItemObject[k]["owner"]) \notin {"error", Unset}
  BY WitnessAssumption
<1> DEFINE x == ItemObject[k]
           m == Masked(x, ObjectReadMaskPaths(options) \ {p})
           whole == ObjectToInternalType(x, options)
           part == ObjectToInternalType(m, options)
<1>2. SUFFICES ASSUME part = whole PROVE FALSE
  OBVIOUS
<1>3. x # Unset /\ DOMAIN x = ObjectFields /\ x["object_id"] = k /\ k # Malformed /\ Unset # "package"
  BY NodeAssumptions, ReadAssumptions, ItemsPositive DEF Malformed
<1>4. Get(m, p) = Unset
  BY DEF Get, Masked
<1>5. \A f \in ObjectFields : Get(x, f) = x[f] /\ Get(x, f) # Unset
  BY <1>1, <1>3 DEF Get
<1> HIDE DEF m, x
<1>6. whole.err = "none" /\ part.err = "none"
  <2>1. Get(x, "object_id") # Malformed /\ ToInternalObjectOwner(Get(x, "owner")) # "error"
    BY <1>1, <1>3, <1>5 DEF ObjectFields, x
  <2>2. whole.err = "none"
    BY <1>3, <2>1 DEF ObjectToInternalType
  <2> QED BY <1>2, <2>2
<1>7. /\ m # Unset /\ Get(m, "object_id") # Malformed
      /\ "Owner" \in options /\ Get(m, "owner") # Unset => ToInternalObjectOwner(Get(m, "owner")) # "error"
  BY <1>6 DEF ObjectToInternalType, ObjectError
<1>8. /\ Get(m, "object_id") = Get(x, "object_id")
      /\ Get(m, "version") = Get(x, "version")
      /\ Get(m, "digest") = Get(x, "digest")
      /\ "Type" \in options => Get(m, "object_type") = Get(x, "object_type")
      /\ "Content" \in options => ToInternalParsedData(m) = ToInternalParsedData(x)
      /\ "Bcs" \in options => ToInternalRawData(m) = ToInternalRawData(x)
      /\ "PreviousTransaction" \in options => Get(m, "previous_transaction") = Get(x, "previous_transaction")
      /\ "StorageRebate" \in options => Get(m, "storage_rebate") = Get(x, "storage_rebate")
      /\ "Display" \in options => Get(m, "display") = Get(x, "display")
  <2>1. whole.data = part.data
    BY <1>2
  <2>2. Get(x, "object_id") # Malformed /\ ToInternalObjectOwner(Get(x, "owner")) # "error"
    BY <1>1, <1>3, <1>5 DEF ObjectFields, x
  <2> QED BY <1>3, <1>7, <2>1, <2>2 DEF ObjectToInternalType
<1>9. "Owner" \in options => Get(m, "owner") # Unset
  <2>1. whole.data.owner = part.data.owner
    BY <1>2
  <2>2. /\ Get(x, "object_id") # Malformed
        /\ ToInternalObjectOwner(Get(x, "owner")) \notin {"error", Unset}
        /\ Get(x, "owner") # Unset
    BY <1>1, <1>3, <1>5 DEF ObjectFields, x
  <2> QED BY <1>3, <1>7, <2>1, <2>2 DEF ObjectToInternalType
<1>10. /\ "Content" \in options => {"object_type", "json", "has_public_transfer"} \cap {p} = {}
       /\ "Bcs" \in options => {"object_type", "contents", "has_public_transfer"} \cap {p} = {}
  <2>1. Get(x, "object_type") # "package" /\ Get(x, "object_type") # Unset /\ Get(x, "json") # Unset
          /\ Get(x, "has_public_transfer") # Unset /\ Get(x, "contents") # Unset
    BY <1>1, <1>5 DEF ObjectFields, x
  <2>2. "Content" \in options =>
          /\ Get(m, "object_type") = Get(x, "object_type")
          /\ Get(m, "json") = Get(x, "json")
          /\ Get(m, "has_public_transfer") = Get(x, "has_public_transfer")
    BY <1>8, <2>1 DEF ToInternalParsedData
  <2>3. "Bcs" \in options => Get(m, "object_type") # "package"
    <3>1. "Bcs" \in options /\ p # "object_type" => "object_type" \in ObjectReadMaskPaths(options) \ {p}
      BY MaskHasPaths DEF PathsOf
    <3>2. "Bcs" \in options /\ p # "object_type" => Get(m, "object_type") = Get(x, "object_type")
      BY <1>3, <3>1, MaskedField DEF m, ObjectFields
    <3> QED BY <1>3, <1>4, <2>1, <3>2
  <2>4. "Bcs" \in options =>
          /\ Get(m, "object_type") = Get(x, "object_type")
          /\ Get(m, "contents") = Get(x, "contents")
          /\ Get(m, "has_public_transfer") = Get(x, "has_public_transfer")
    BY <1>8, <2>1, <2>3 DEF ToInternalRawData
  <2> QED BY <1>4, <2>1, <2>2, <2>4
<1>11. p \notin {"object_id", "version", "digest"}
  BY <1>4, <1>5, <1>8 DEF ObjectFields
<1>12. PICK o \in options : p \in PathsOf(o)
  BY <1>11 DEF ObjectReadMaskPaths
<1>13. o \in Options
  BY ReadAssumptions
<1>14. "Type" \in options => p # "object_type"
  BY <1>4, <1>5, <1>8 DEF ObjectFields
<1>15. /\ "PreviousTransaction" \in options => p # "previous_transaction"
       /\ "StorageRebate" \in options => p # "storage_rebate"
       /\ "Display" \in options => p # "display"
       /\ "Owner" \in options => p # "owner"
  BY <1>4, <1>5, <1>8, <1>9 DEF ObjectFields
<1> QED BY <1>10, <1>12, <1>13, <1>14, <1>15 DEF Options, PathsOf

(* The same of coins and checkpoints. *)
LEMMA CoinMaskFits ==
  ASSUME NEW k \in Items
  PROVE  ToInternalCoin(Masked(ItemObject[k], CoinReadMaskPaths)) = ToInternalCoin(ItemObject[k])
<1> DEFINE x == ItemObject[k]
           m == Masked(x, CoinReadMaskPaths)
<1>1. DOMAIN x = ObjectFields
  BY ReadAssumptions
<1>2. \A f \in CoinReadMaskPaths : Get(m, f) = Get(x, f)
  BY <1>1, MaskedField DEF CoinReadMaskPaths, ObjectFields
<1> HIDE DEF m, x
<1>3. ToInternalCoin(m) = ToInternalCoin(x)
  BY <1>2 DEF ToInternalCoin, CoinReadMaskPaths
<1> QED BY <1>3 DEF m, x

(* A checkpoint is answered in full. *)
LEMMA CheckpointMaskFits ==
  ASSUME NEW x \in Checkpoints
  PROVE  CheckpointToInternalType(Masked(x, CheckpointReadMaskPaths)) = CheckpointToInternalType(x)
<1> DEFINE m == Masked(x, CheckpointReadMaskPaths)
<1>1. CheckpointReadMaskPaths \subseteq DOMAIN x
  BY ReadAssumptions
<1>2. \A f \in CheckpointReadMaskPaths : Get(m, f) = Get(x, f)
  BY <1>1, MaskedField
<1>3. m["summary"] = x["summary"]
  BY DEF Masked, CheckpointReadMaskPaths
<1> HIDE DEF m
<1>4. CheckpointToInternalType(m) = CheckpointToInternalType(x)
  BY <1>2, <1>3 DEF CheckpointToInternalType, CheckpointReadMaskPaths
<1> QED BY <1>4 DEF m

(* Nothing of a checkpoint is asked for in vain. *)
LEMMA CheckpointMaskTight ==
  ASSUME NEW p \in CheckpointReadMaskPaths
  PROVE  \E x \in Checkpoints :
           CheckpointToInternalType(Masked(x, CheckpointReadMaskPaths \ {p})) # CheckpointToInternalType(x)
<1>1. PICK x \in Checkpoints :
        /\ \A f \in CheckpointReadMaskPaths : x[f] # Unset
        /\ Get(x["summary"], "epoch") # Unset
  BY WitnessAssumption
<1> DEFINE m == Masked(x, CheckpointReadMaskPaths \ {p})
           whole == CheckpointToInternalType(x)
           part == CheckpointToInternalType(m)
<1>2. SUFFICES ASSUME part = whole PROVE FALSE
  OBVIOUS
<1>3. Get(m, p) = Unset
  BY DEF Get, Masked
<1>4. \A f \in CheckpointReadMaskPaths : Get(x, f) = x[f] /\ Get(x, f) # Unset
  BY <1>1, ReadAssumptions DEF Get
<1> HIDE DEF m
<1>5. /\ whole.sequenceNumber = part.sequenceNumber /\ whole.digest = part.digest
      /\ whole.transactions = part.transactions /\ whole.validatorSignature = part.validatorSignature
      /\ whole.epoch = part.epoch
  BY <1>2
<1>6. p # "summary"
  <2>1. SUFFICES ASSUME p = "summary" PROVE FALSE
    OBVIOUS
  <2>2. part.epoch = Get(<<>>, "epoch")
    BY <1>3, <2>1 DEF CheckpointToInternalType
  <2>3. Get(<<>>, "epoch") = Unset
    BY DEF Get
  <2>4. whole.epoch = Get(x["summary"], "epoch")
    BY <1>4 DEF CheckpointToInternalType, CheckpointReadMaskPaths
  <2> QED BY <1>1, <1>5, <2>2, <2>3, <2>4
<1>7. p \notin {"sequence_number", "digest", "transactions.digest", "signature"}
  <2>1. /\ Get(m, "sequence_number") = Get(x, "sequence_number") /\ Get(m, "digest") = Get(x, "digest")
        /\ Get(m, "transactions.digest") = Get(x, "transactions.digest")
        /\ Get(m, "signature") = Get(x, "signature")
    BY <1>5 DEF CheckpointToInternalType
  <2> QED BY <1>3, <1>4, <2>1 DEF CheckpointReadMaskPaths
<1> QED BY <1>6, <1>7 DEF CheckpointReadMaskPaths

-----------------------------------------------------------------------------
(***************************************************************************)
(* The node's answers.                                                     *)
(***************************************************************************)
(* A page lists what is held after the token in order, up to its own token  *)
(* or, without one, to the end, and no more than asked for.                 *)
LEMMA PageListing ==
  ASSUME held \subseteq Items, NEW after \in Nat, NEW size \in Nat, NEW page \in Pages(after, size)
  PROVE  /\ page.list \in Seq(Items) /\ Ascending(page.list)
         /\ \A i \in DOMAIN page.list : page.list[i] \in held /\ page.list[i] > after
         /\ Len(page.list) <= IF size = 0 THEN DefaultPage ELSE size
         /\ page.next \in {0} \cup Items
         /\ page.next = 0 => \A k \in held : k > after => \E i \in DOMAIN page.list : page.list[i] = k
         /\ page.next # 0 =>
              /\ page.next > after
              /\ \A i \in DOMAIN page.list : page.list[i] <= page.next
              /\ \A k \in held : k > after /\ k <= page.next => \E i \in DOMAIN page.list : page.list[i] = k
<1> DEFINE rest == {k \in held : k > after}
           most == IF size = 0 THEN DefaultPage ELSE size
           P == page.list
<1>1. most \in Nat /\ rest \subseteq Items /\ Items \subseteq Nat \ {0}
  <2>1. DefaultPage \in Nat
    BY ReadAssumptions
  <2> QED BY <2>1, ItemsPositive
<1>2. PICK n \in 0..most :
        /\ P \in [1..n -> rest]
        /\ \A i, j \in 1..n : i < j => P[i] < P[j]
        /\ \A k \in rest \ ToSet(P), i \in 1..n : P[i] < k
  BY DEF Pages
<1>3. /\ page.next \in {0} \cup rest
      /\ page.next = 0 => rest \subseteq ToSet(P)
      /\ page.next # 0 => P # <<>> /\ page.next = Last(P)
  BY DEF Pages
<1> HIDE DEF rest, most, P
<1>4. n \in Nat /\ P \in Seq(Items) /\ Len(P) = n /\ DOMAIN P = 1..n
  <2>1. n \in Nat
    BY <1>1
  <2>2. P \in [1..n -> Items]
    BY <1>1, <1>2
  <2> QED BY <2>1, <2>2
<1>5. Ascending(P)
  BY <1>2, <1>4 DEF Ascending
<1>6. \A k : k \in ToSet(P) <=> \E i \in DOMAIN P : P[i] = k
  BY <1>4 DEF ToSet
<1>7. ASSUME page.next # 0
      PROVE  /\ page.next > after
             /\ \A i \in DOMAIN P : P[i] <= page.next
             /\ \A k \in held : k > after /\ k <= page.next => \E i \in DOMAIN P : P[i] = k
  <2>1. page.next = P[n] /\ n \in 1..n
    BY <1>3, <1>4, <1>7 DEF Last
  <2>2. page.next > after
    BY <1>3, <1>7 DEF rest
  <2>3. \A i \in DOMAIN P : P[i] <= page.next
    <3>1. \A i \in 1..n : P[i] \in Nat
      BY <1>1, <1>2
    <3>2. \A i \in 1..n : i < n \/ i = n
      BY <1>4
    <3> QED BY <1>2, <1>4, <2>1, <3>1, <3>2
  <2>4. ASSUME NEW k \in held, k > after, k <= page.next
        PROVE  \E i \in DOMAIN P : P[i] = k
    <3>1. k \in rest
      BY <2>4 DEF rest
    <3>2. k \notin ToSet(P) => P[n] < k
      BY <1>2, <2>1, <3>1
    <3>3. k \in Nat /\ P[n] \in Nat
      BY <1>1, <1>2, <2>1, <3>1
    <3> QED BY <1>6, <2>1, <2>4, <3>2, <3>3
  <2> QED BY <2>2, <2>3, <2>4
<1>8. \A i \in DOMAIN P : P[i] \in held /\ P[i] > after
  BY <1>2, <1>4 DEF rest
<1>9. page.next = 0 => \A k \in held : k > after => \E i \in DOMAIN P : P[i] = k
  BY <1>3, <1>6 DEF rest
<1>10. Len(P) <= most
  BY <1>1, <1>4
<1>11. page.next \in {0} \cup Items
  BY <1>1, <1>3
<1> QED BY <1>4, <1>5, <1>7, <1>8, <1>9, <1>10, <1>11 DEF most, P

(* A page extends the listing so far, or completes it. *)
LEMMA ListingGrows ==
  ASSUME always \subseteq held, held \subseteq ever, ever \subseteq Items,
         NEW t \in Nat, NEW L, ListedUpTo(L, t),
         NEW size \in Nat, NEW page \in Pages(t, size)
  PROVE  /\ page.next # 0 => ListedUpTo(L \o page.list, page.next)
         /\ page.next = 0 => ListedAll(L \o page.list)
<1> DEFINE P == page.list
           LP == L \o P
<1>1. /\ P \in Seq(Items) /\ Ascending(P)
      /\ \A i \in DOMAIN P : P[i] \in held /\ P[i] > t
      /\ page.next \in {0} \cup Items
      /\ page.next = 0 => \A k \in held : k > t => \E i \in DOMAIN P : P[i] = k
      /\ page.next # 0 =>
           /\ page.next > t
           /\ \A i \in DOMAIN P : P[i] <= page.next
           /\ \A k \in held : k > t /\ k <= page.next => \E i \in DOMAIN P : P[i] = k
  BY PageListing
<1>2. /\ L \in Seq(Items) /\ Ascending(L)
      /\ \A i \in DOMAIN L : L[i] \in ever /\ L[i] <= t
      /\ \A k \in always : k <= t => \E i \in DOMAIN L : L[i] = k
  BY DEF ListedUpTo
<1> HIDE DEF P
<1>3. /\ LP \in Seq(Items) /\ Len(LP) = Len(L) + Len(P)
      /\ \A i \in 1..Len(LP) : LP[i] = IF i <= Len(L) THEN L[i] ELSE P[i - Len(L)]
  BY <1>1, <1>2
<1>4. /\ \A i \in DOMAIN L : i \in DOMAIN LP /\ LP[i] = L[i]
      /\ \A i \in DOMAIN P : i + Len(L) \in DOMAIN LP /\ LP[i + Len(L)] = P[i]
      /\ \A i \in DOMAIN LP : i \in DOMAIN L \/ (i - Len(L) \in DOMAIN P /\ LP[i] = P[i - Len(L)])
  BY <1>1, <1>2, <1>3
<1>5. Items \subseteq Nat
  BY ItemsPositive
<1> HIDE DEF LP
<1>6. Ascending(LP)
  <2>1. SUFFICES ASSUME NEW i \in DOMAIN LP, NEW j \in DOMAIN LP, i < j PROVE LP[i] < LP[j]
    BY DEF Ascending
  <2>2. i \in Nat /\ j \in Nat /\ Len(L) \in Nat
    BY <1>2, <1>3
  <2>3. CASE i \in DOMAIN L /\ j \in DOMAIN L
    BY <1>2, <1>4, <2>1, <2>3 DEF Ascending
  <2>4. CASE i \in DOMAIN L /\ j \notin DOMAIN L
    <3>1. LP[i] <= t /\ LP[j] > t /\ LP[i] \in Nat /\ LP[j] \in Nat
      BY <1>1, <1>2, <1>3, <1>4, <1>5, <2>4
    <3> QED BY <3>1
  <2>5. CASE i \notin DOMAIN L
    <3>1. i > Len(L) /\ j > Len(L) /\ j \notin DOMAIN L
      BY <1>2, <1>3, <2>1, <2>2, <2>5
    <3>2. i - Len(L) \in DOMAIN P /\ j - Len(L) \in DOMAIN P /\ i - Len(L) < j - Len(L)
      BY <1>4, <2>1, <2>2, <2>5, <3>1
    <3> QED BY <1>1, <1>4, <2>5, <3>1, <3>2 DEF Ascending
  <2> QED BY <2>3, <2>4, <2>5
<1>7. \A i \in DOMAIN LP : LP[i] \in ever
  BY <1>1, <1>2, <1>4
<1>8. ASSUME page.next # 0 PROVE ListedUpTo(LP, page.next)
  <2>1. \A i \in DOMAIN LP : LP[i] <= page.next
    <3>1. \A i \in DOMAIN L : L[i] \in Nat /\ L[i] <= t /\ t < page.next /\ page.next \in Nat
      BY <1>1, <1>2, <1>5, <1>8
    <3> QED BY <1>1, <1>4, <1>8, <3>1
  <2>2. \A k \in always : k <= page.next => \E i \in DOMAIN LP : LP[i] = k
    <3> TAKE k \in always
    <3>1. k \in Nat /\ k \in held
      BY <1>5
    <3>2. CASE k <= t
      BY <1>2, <1>4, <3>2
    <3>3. CASE k > t
      BY <1>1, <1>4, <1>8, <3>1, <3>3
    <3> QED BY <3>1, <3>2, <3>3
  <2> QED BY <1>3, <1>6, <1>7, <2>1, <2>2 DEF ListedUpTo
<1>9. ASSUME page.next = 0 PROVE ListedAll(LP)
  <2>1. \A k \in always : \E i \in DOMAIN LP : LP[i] = k
    <3> TAKE k \in always
    <3>1. k \in Nat /\ k \in held
      BY <1>5
    <3>2. CASE k <= t
      BY <1>2, <1>4, <3>2
    <3>3. CASE k > t
      BY <1>1, <1>4, <1>9, <3>1, <3>3
    <3> QED BY <3>1, <3>2, <3>3
  <2> QED BY <1>3, <1>6, <1>7, <2>1 DEF ListedAll
<1> QED BY <1>8, <1>9 DEF LP, P

(* A batch request is answered in its order, and what the node says of an   *)
(* item is so.                                                              *)
LEMMA AnswersInOrder ==
  ASSUME NEW S, NEW list \in Seq(S), list # <<>>, NEW has, NEW faults, NEW r \in Answers(list, has, faults)
  PROVE  /\ Len(r) \in Nat /\ Len(r) <= Len(list) /\ DOMAIN r = 1..Len(r)
         /\ \A i \in DOMAIN r :
              /\ i \in DOMAIN list
              /\ r[i].item = list[i]
              /\ r[i].code = "OK" => list[i] \in has
              /\ r[i].code = "NOT_FOUND" => list[i] \notin has
              /\ r[i].code \in {"OK", "NOT_FOUND"} \cup (faults \ {"short"})
<1> DEFINE full == Honest(list, has)
<1>1. /\ full \in Seq([code : {"OK", "NOT_FOUND"}, item : S]) /\ Len(full) = Len(list) /\ DOMAIN full = DOMAIN list
      /\ \A i \in DOMAIN list :
           full[i] = [code |-> IF list[i] \in has THEN "OK" ELSE "NOT_FOUND", item |-> list[i]]
  <2>1. DOMAIN list = 1..Len(list) /\ Len(list) \in Nat /\ \A i \in 1..Len(list) : list[i] \in S
    OBVIOUS
  <2>2. full = [i \in 1..Len(list) |->
                  [code |-> IF list[i] \in has THEN "OK" ELSE "NOT_FOUND", item |-> list[i]]]
    BY <2>1 DEF Honest
  <2> HIDE DEF full
  <2>3. \A i \in 1..Len(list) : full[i] \in [code : {"OK", "NOT_FOUND"}, item : S]
    BY <2>1, <2>2
  <2>4. full \in [1..Len(list) -> [code : {"OK", "NOT_FOUND"}, item : S]]
    BY <2>2, <2>3
  <2> QED BY <2>1, <2>2, <2>4
<1> HIDE DEF full
<1>2. CASE r = full
  BY <1>1, <1>2
<1>3. CASE r = Front(full)
  BY <1>1, <1>3 DEF Front
<1>4. ASSUME NEW i \in DOMAIN full, NEW c \in (NodeMay \cap faults) \ {"short"}, r = [full EXCEPT ![i].code = c]
      PROVE  /\ Len(r) \in Nat /\ Len(r) <= Len(list) /\ DOMAIN r = 1..Len(r)
             /\ \A j \in DOMAIN r :
                  /\ j \in DOMAIN list
                  /\ r[j].item = list[j]
                  /\ r[j].code = "OK" => list[j] \in has
                  /\ r[j].code = "NOT_FOUND" => list[j] \notin has
                  /\ r[j].code \in {"OK", "NOT_FOUND"} \cup (faults \ {"short"})
  <2>1. c \notin {"OK", "NOT_FOUND"}
    BY ReadAssumptions
  <2>2. DOMAIN r = 1..Len(full) /\ Len(full) \in Nat
    BY <1>1, <1>4
  <2>3. Len(r) = Len(full)
    BY <1>1, <1>4
  <2>4. \A j \in DOMAIN r : j # i => r[j] = full[j]
    BY <1>4
  <2>5. r[i].code = c /\ r[i].item = full[i].item
    BY <1>1, <1>4
  <2> QED BY <1>1, <2>1, <2>2, <2>3, <2>4, <2>5
<1>5. \/ r = full \/ r = Front(full)
      \/ \E i \in DOMAIN full, c \in (NodeMay \cap faults) \ {"short"} : r = [full EXCEPT ![i].code = c]
  BY DEF Answers, full
<1> QED BY <1>2, <1>3, <1>4, <1>5

-----------------------------------------------------------------------------
(***************************************************************************)
(* The steps.                                                              *)
(***************************************************************************)
(* As long as a call has not returned, only what it listed says anything. *)
LEMMA NotReturned ==
  ASSUME result' = "none", PageWithinLimit',
         call' = "GetCoins" =>
           \A i \in DOMAIN out' : out'[i] = ToInternalCoin(ItemObject[out'[i].coinObjectId]).data
  PROVE  Returned'
BY DEF Returned, AllOrNothing, ObjectsInPlace, MaskFits, ListingComplete, ErrorsJustified, Succeeded

(* A call that is being made has nothing yet. *)
LEMMA BeginSafe ==
  ASSUME IInv, NEW name, NEW at, NEW list, NEW options, Begin(name, at, list, options),
         at \in {"checkpoint", "chunk", "objects", "object", "page", "balance", "summary", "metadata", "coins"}
  PROVE  TypeOK' /\ InProgress' /\ Returned' /\ (at = "page" => ListedUpTo(out, token)')
           /\ (at = "coins" /\ name = "GetCoins" => ListedUpTo(Listed, PageToken(cursor))' /\ cursor' # <<"garbled">>)
<1>1. TypeOK'
  <2>1. TypeOK /\ Len(<<>>) <= ChunkSize
    BY ReadAssumptions DEF IInv
  <2> QED BY <2>1 DEF Begin, TypeOK, nodeVars
<1>2. InProgress'
  BY DEF Begin, InProgress, nodeVars
<1>3. Returned'
  <2>1. result' = "none" /\ PageWithinLimit' /\ DOMAIN out' = {}
    BY DEF Begin, PageWithinLimit
  <2> QED BY <2>1, NotReturned
<1>4. \A k \in held : ~ (k <= 0)
  BY ItemsPositive DEF IInv, TypeOK
<1>5. out' = <<>> /\ always' = held /\ token' = 0 /\ PageToken(cursor)' = 0 /\ cursor' # <<"garbled">>
  BY DEF Begin, PageToken, NilCursor
<1>6. ListedUpTo(out, token)'
  BY <1>4, <1>5 DEF ListedUpTo, Ascending
<1>7. name = "GetCoins" => Listed' = <<>>
  BY <1>5 DEF Begin, Listed
<1>8. name = "GetCoins" => ListedUpTo(Listed, PageToken(cursor))'
  BY <1>4, <1>5, <1>7 DEF ListedUpTo, Ascending
<1> QED BY <1>1, <1>2, <1>3, <1>5, <1>6, <1>8

(* Every call that begins. *)
LEMMA CallSafe ==
  ASSUME IInv, Call
  PROVE  IInv'
<1>1. ASSUME NEW digests \in DigestLists, MultiGetTransactionBlocks(digests)
      PROVE  IInv'
  <2>1. TypeOK' /\ InProgress' /\ Returned'
    BY <1>1, BeginSafe DEF MultiGetTransactionBlocks
  <2>2. digests \in Seq(Digests) /\ SubSeq(digests, 1, 0) = <<>> /\ (0 >= Len(digests) => digests = <<>>)
    BY ReadAssumptions
  <2>3. CollectedChunks'
    BY <1>1, <2>2 DEF MultiGetTransactionBlocks, Begin, CollectedChunks
  <2>4. AtOneRequest' /\ CollectedPages' /\ CollectedCoins'
    BY <1>1 DEF MultiGetTransactionBlocks, Begin, AtOneRequest, CollectedPages, CollectedCoins
  <2> QED BY <2>1, <2>3, <2>4 DEF IInv
<1>2. ASSUME GetCheckpointTransactions
      PROVE  IInv'
  <2>1. TypeOK' /\ InProgress' /\ Returned'
    BY <1>2, BeginSafe DEF GetCheckpointTransactions
  <2>2. CollectedChunks' /\ AtOneRequest' /\ CollectedPages' /\ CollectedCoins'
    BY <1>2 DEF GetCheckpointTransactions, Begin, CollectedChunks, AtOneRequest, CollectedPages, CollectedCoins
  <2> QED BY <2>1, <2>2 DEF IInv
<1>3. ASSUME NEW ids \in ObjectLists, NEW options \in OptionSets, MultiGetObjects(ids, options)
      PROVE  IInv'
  <2>1. TypeOK' /\ InProgress' /\ Returned'
    BY <1>3, BeginSafe DEF MultiGetObjects
  <2>2. ids \in Seq(Items)
    BY ReadAssumptions
  <2>3. CollectedChunks' /\ AtOneRequest' /\ CollectedPages' /\ CollectedCoins'
    BY <1>3, <2>2 DEF MultiGetObjects, Begin, CollectedChunks, AtOneRequest, CollectedPages, CollectedCoins
  <2> QED BY <2>1, <2>3 DEF IInv
<1>4. ASSUME NEW id \in Items, NEW options \in OptionSets, GetObject(id, options)
      PROVE  IInv'
  <2>1. TypeOK' /\ InProgress' /\ Returned'
    BY <1>4, BeginSafe DEF GetObject
  <2>2. CollectedChunks' /\ AtOneRequest' /\ CollectedPages' /\ CollectedCoins'
    BY <1>4 DEF GetObject, Begin, CollectedChunks, AtOneRequest, CollectedPages, CollectedCoins
  <2> QED BY <2>1, <2>2 DEF IInv
<1>5. ASSUME GetAllBalances
      PROVE  IInv'
  <2>1. TypeOK' /\ InProgress' /\ Returned' /\ ListedUpTo(out, token)'
    BY <1>5, BeginSafe DEF GetAllBalances
  <2>2. CollectedChunks' /\ AtOneRequest' /\ CollectedPages' /\ CollectedCoins'
    BY <1>5, <2>1 DEF GetAllBalances, Begin, CollectedChunks, AtOneRequest, CollectedPages, CollectedCoins
  <2> QED BY <2>1, <2>2 DEF IInv
<1>6. ASSUME NEW coinType \in {0} \cup Items, GetBalance(coinType)
      PROVE  IInv'
  <2>1. TypeOK' /\ InProgress' /\ Returned'
    BY <1>6, BeginSafe DEF GetBalance
  <2>2. CollectedChunks' /\ AtOneRequest' /\ CollectedPages' /\ CollectedCoins'
    BY <1>6 DEF GetBalance, Begin, CollectedChunks, AtOneRequest, CollectedPages, CollectedCoins
  <2> QED BY <2>1, <2>2 DEF IInv
<1>7. ASSUME NEW x \in Checkpoints, GetCheckpoint(x)
      PROVE  IInv'
  <2>1. TypeOK' /\ InProgress' /\ Returned'
    BY <1>7, BeginSafe DEF GetCheckpoint
  <2>2. CollectedChunks' /\ AtOneRequest' /\ CollectedPages' /\ CollectedCoins'
    BY <1>7 DEF GetCheckpoint, Begin, CollectedChunks, AtOneRequest, CollectedPages, CollectedCoins
  <2> QED BY <2>1, <2>2 DEF IInv
<1>8. ASSUME NEW coinType \in Items, GetCoinMetadata(coinType)
      PROVE  IInv'
  <2>1. TypeOK' /\ InProgress' /\ Returned'
    BY <1>8, BeginSafe DEF GetCoinMetadata
  <2>2. CollectedChunks' /\ AtOneRequest' /\ CollectedPages' /\ CollectedCoins'
    BY <1>8 DEF GetCoinMetadata, Begin, CollectedChunks, AtOneRequest, CollectedPages, CollectedCoins
  <2> QED BY <2>1, <2>2 DEF IInv
<1>9. ASSUME ListAllCoins
      PROVE  IInv'
  <2>1. TypeOK' /\ InProgress' /\ Returned' /\ ListedUpTo(Listed, PageToken(cursor))' /\ cursor' # <<"garbled">>
    BY <1>9, BeginSafe DEF ListAllCoins
  <2>2. CollectedChunks' /\ AtOneRequest' /\ CollectedPages' /\ CollectedCoins'
    BY <1>9, <2>1 DEF ListAllCoins, Begin, CollectedChunks, AtOneRequest, CollectedPages, CollectedCoins
  <2> QED BY <2>1, <2>2 DEF IInv
<1>10. ASSUME GetCoinsInvalidCursor
       PROVE  IInv'
  <2>1. TypeOK' /\ InProgress'
    BY <1>10 DEF IInv, GetCoinsInvalidCursor, Fail, TypeOK, InProgress, nodeVars, histVars
  <2>2. CollectedChunks' /\ AtOneRequest' /\ CollectedPages' /\ CollectedCoins'
    BY <1>10 DEF GetCoinsInvalidCursor, Fail, CollectedChunks, AtOneRequest, CollectedPages, CollectedCoins
  <2>3. Returned'
    BY <1>10 DEF IInv, GetCoinsInvalidCursor, Fail, Returned, AllOrNothing, ObjectsInPlace, MaskFits,
       ListingComplete, PageWithinLimit, ErrorsJustified, Succeeded
  <2> QED BY <2>1, <2>2, <2>3 DEF IInv
<1> QED BY <1>1, <1>2, <1>3, <1>4, <1>5, <1>6, <1>7, <1>8, <1>9, <1>10 DEF Call

(* An error leaves nothing behind, and is safe if the node is to blame. *)
LEMMA FailSafe ==
  ASSUME IInv, Fail, trouble' = "yes", UNCHANGED <<nodeVars, always, ever, token, coinVars>>,
         Len(chunk') <= ChunkSize
  PROVE  IInv'
<1>1. TypeOK' /\ InProgress'
  BY DEF IInv, Fail, TypeOK, InProgress, nodeVars, coinVars
<1>2. CollectedChunks' /\ AtOneRequest' /\ CollectedPages' /\ CollectedCoins'
  BY DEF Fail, CollectedChunks, AtOneRequest, CollectedPages, CollectedCoins
<1>3. Returned'
  BY DEF IInv, Fail, Returned, AllOrNothing, ObjectsInPlace, MaskFits, ListingComplete, PageWithinLimit,
     ErrorsJustified, Succeeded, coinVars
<1> QED BY <1>1, <1>2, <1>3 DEF IInv

(* CheckpointDigests keeps the invariant. *)
LEMMA CheckpointDigestsSafe ==
  ASSUME IInv, CheckpointDigests
  PROVE  IInv'
<1>1. /\ pc' = "chunk" /\ call' = "GetCheckpointTransactions" /\ start' = 0 /\ out' = <<>> /\ result' = "none"
      /\ todo' = Contents \/ (todo' = <<>> /\ trouble' = "yes")
  BY DEF IInv, CheckpointDigests, CollectedChunks, InProgress
<1>2. TypeOK' /\ InProgress'
  BY <1>1 DEF IInv, CheckpointDigests, TypeOK, InProgress, nodeVars, histVars, coinVars
<1>3. todo' \in Seq(Digests)
  <2>1. Contents \in Seq(Digests) /\ <<>> \in Seq(Digests)
    BY ReadAssumptions
  <2> QED BY <1>1, <2>1
<1>4. CollectedChunks'
  <2>1. SubSeq(todo', 1, 0) = <<>> /\ Len(todo') \in Nat /\ (Len(todo') = 0 => todo' = <<>>)
    BY <1>3
  <2> QED BY <1>1, <1>3, <2>1 DEF CollectedChunks
<1>5. AtOneRequest' /\ CollectedPages' /\ CollectedCoins'
  BY <1>1 DEF AtOneRequest, CollectedPages, CollectedCoins
<1>6. Returned'
  <2>1. PageWithinLimit'
    BY DEF IInv, Returned, PageWithinLimit, CheckpointDigests, coinVars
  <2> QED BY <1>1, <2>1, NotReturned
<1> QED BY <1>2, <1>4, <1>5, <1>6 DEF IInv

(* One chunk is the next part of the list, and joins what went before it. *)
LEMMA ChunkJoins ==
  ASSUME NEW S, todo \in Seq(S), start \in Nat, start < Len(todo)
  PROVE  LET c == SubSeq(todo, start + 1, ChunkEnd)
         IN /\ c \in Seq(S) /\ c # <<>>
            /\ Len(c) = ChunkEnd - start /\ Len(c) <= ChunkSize
            /\ SubSeq(todo, 1, start) \o c
                 = IF start + ChunkSize < Len(todo) THEN SubSeq(todo, 1, start + ChunkSize) ELSE todo
<1> DEFINE c == SubSeq(todo, start + 1, ChunkEnd)
<1>1. ChunkSize \in Nat \ {0} /\ Len(todo) \in Nat
  BY ReadAssumptions
<1>2. ChunkEnd \in Nat /\ start < ChunkEnd /\ ChunkEnd <= Len(todo) /\ ChunkEnd - start <= ChunkSize
  BY <1>1 DEF ChunkEnd
<1>3. c \in Seq(S) /\ Len(c) = ChunkEnd - start /\ \A i \in 1..Len(c) : c[i] = todo[start + i]
  BY <1>1, <1>2
<1>4. SubSeq(todo, 1, start) \o c = SubSeq(todo, 1, ChunkEnd)
  <2> DEFINE a == SubSeq(todo, 1, start)
             b == SubSeq(todo, 1, ChunkEnd)
  <2>1. a \in Seq(S) /\ Len(a) = start /\ \A i \in 1..start : a[i] = todo[i]
    BY <1>1, <1>2
  <2>2. b \in Seq(S) /\ Len(b) = ChunkEnd /\ \A i \in 1..ChunkEnd : b[i] = todo[i]
    BY <1>1, <1>2
  <2> HIDE DEF a, b, c
  <2>3. /\ a \o c \in Seq(S) /\ Len(a \o c) = ChunkEnd
        /\ \A i \in 1..ChunkEnd : (a \o c)[i] = IF i <= start THEN a[i] ELSE c[i - start]
    <3>1. Len(a) + Len(c) = ChunkEnd
      BY <1>2, <1>3, <2>1
    <3> QED BY <1>3, <2>1, <3>1, ConcatProperties
  <2>4. \A i \in 1..ChunkEnd : (a \o c)[i] = b[i]
    <3> TAKE i \in 1..ChunkEnd
    <3>0. i \in Nat /\ (i <= start => i \in 1..start) /\ (i <= start \/ i > start)
      BY <1>2
    <3>1. CASE i <= start
      <4>1. (a \o c)[i] = a[i]
        BY <2>3, <3>1
      <4>2. a[i] = todo[i] /\ b[i] = todo[i]
        BY <2>1, <2>2, <3>0, <3>1
      <4> QED BY <4>1, <4>2
    <3>2. CASE i > start
      <4>1. i - start \in 1..Len(c) /\ start + (i - start) = i
        BY <1>2, <1>3, <3>2
      <4>2. c[i - start] = todo[i]
        BY <1>3, <4>1
      <4>3. ~ (i <= start)
        BY <1>2, <3>0, <3>2
      <4>4. (a \o c)[i] = c[i - start]
        BY <2>3, <4>3
      <4>5. b[i] = todo[i]
        BY <2>2
      <4> QED BY <4>2, <4>4, <4>5
    <3> QED BY <3>0, <3>1, <3>2
  <2>5. a \o c = b
    BY <1>2, <2>2, <2>3, <2>4, SeqEqual
  <2> QED BY <2>5 DEF a, b
<1>5. SubSeq(todo, 1, Len(todo)) = todo
  BY <1>1
<1>6. c # <<>>
  BY <1>2, <1>3
<1> QED BY <1>1, <1>2, <1>3, <1>4, <1>5, <1>6 DEF ChunkEnd

(* BatchGetTransactions keeps the invariant. *)
LEMMA BatchGetTransactionsSafe ==
  ASSUME IInv, BatchGetTransactions
  PROVE  IInv'
<1> DEFINE allOK == [i \in DOMAIN chunk' |-> [code |-> "OK", item |-> chunk'[i]]]
<1>1. /\ pc = "chunk" /\ start < Len(todo) /\ todo \in Seq(Digests) /\ start \in Nat
      /\ call \in {"MultiGetTransactionBlocks", "GetCheckpointTransactions"}
      /\ call = "GetCheckpointTransactions" => todo = Contents \/ (todo = <<>> /\ trouble = "yes")
      /\ out = SubSeq(todo, 1, start) /\ chunk' = SubSeq(todo, start + 1, ChunkEnd)
      /\ result = "none"
  BY DEF BatchGetTransactions, IInv, CollectedChunks, InProgress
<1>2. /\ chunk' \in Seq(Digests) /\ chunk' # <<>> /\ Len(chunk') = ChunkEnd - start /\ Len(chunk') <= ChunkSize
      /\ out \o chunk'
           = IF start + ChunkSize < Len(todo) THEN SubSeq(todo, 1, start + ChunkSize) ELSE todo
  BY <1>1, ChunkJoins
<1>3. PICK results \in Answers(chunk', known, {"short", "INTERNAL", "nothing"}) :
        /\ trouble' = IF results = allOK THEN trouble ELSE "yes"
        /\ IF ChunkComplete(results)
             THEN /\ out' = out \o [i \in DOMAIN results |-> results[i].item]
                  /\ start' = start + ChunkSize
                  /\ UNCHANGED <<pc, result>>
             ELSE Fail /\ UNCHANGED start
  BY DEF BatchGetTransactions
<1>4. UNCHANGED <<nodeVars, histVars, callVars, coinVars, token>>
  BY DEF BatchGetTransactions
<1>5. CASE ~ ChunkComplete(results)
  <2>1. results # allOK
    <3>1. SUFFICES ASSUME results = allOK PROVE FALSE
      OBVIOUS
    <3>2. DOMAIN chunk' = 1..Len(chunk') /\ Len(chunk') \in Nat
      BY <1>2
    <3>3. DOMAIN allOK = 1..Len(chunk') /\ \A i \in DOMAIN allOK : allOK[i].code = "OK"
      BY <3>2
    <3>4. Len(results) \in Nat /\ DOMAIN results = 1..Len(results)
      BY <1>2, AnswersInOrder
    <3>5. Len(results) = Len(chunk')
      BY <3>1, <3>2, <3>3, <3>4
    <3> QED BY <1>2, <1>5, <3>1, <3>3, <3>5 DEF ChunkComplete
  <2>2. Fail /\ trouble' = "yes"
    BY <1>3, <1>5, <2>1
  <2> QED BY <1>2, <1>4, <2>2, FailSafe DEF histVars
<1>6. CASE ChunkComplete(results)
  <2>1. [i \in DOMAIN results |-> results[i].item] = chunk'
    <3>1. /\ Len(results) \in Nat /\ DOMAIN results = 1..Len(results)
          /\ \A i \in DOMAIN results : results[i].item = chunk'[i]
      BY <1>2, AnswersInOrder
    <3>2. Len(results) = Len(chunk')
      BY <1>2, <1>6 DEF ChunkComplete
    <3> QED BY <1>2, <3>1, <3>2
  <2>2. out' = out \o chunk' /\ start' = start + ChunkSize /\ pc' = pc /\ result' = result
    BY <1>3, <1>6, <2>1
  <2>3. TypeOK' /\ InProgress'
    BY <1>1, <1>2, <1>4, <2>2 DEF IInv, TypeOK, InProgress, nodeVars, histVars, coinVars
  <2>4. CollectedChunks'
    <3>1. start' \in Nat
      BY <1>1, <2>2, ReadAssumptions
    <3>2. trouble = "yes" => trouble' = "yes"
      BY <1>3
    <3> QED BY <1>1, <1>2, <1>4, <2>2, <3>1, <3>2 DEF CollectedChunks, callVars
  <2>5. AtOneRequest' /\ CollectedPages' /\ CollectedCoins'
    BY <1>1, <1>4, <2>2 DEF AtOneRequest, CollectedPages, CollectedCoins, callVars
  <2>6. Returned'
    <3>1. PageWithinLimit'
      BY <1>4 DEF IInv, Returned, PageWithinLimit, coinVars
    <3>2. call' # "GetCoins" /\ result' = "none"
      BY <1>1, <1>4, <2>2 DEF callVars
    <3> QED BY <3>1, <3>2, NotReturned
  <2> QED BY <2>3, <2>4, <2>5, <2>6 DEF IInv
<1> QED BY <1>5, <1>6

(* A call that returned has no request left. *)
LEMMA ReturnSafe ==
  ASSUME IInv, NEW list, Return(list), UNCHANGED <<nodeVars, histVars, coinVars, token, chunk>>,
         CollectedCoins', AllOrNothing', ObjectsInPlace', MaskFits', ListingComplete'
  PROVE  IInv'
<1>1. TypeOK' /\ InProgress'
  BY DEF IInv, Return, TypeOK, InProgress, nodeVars, histVars, coinVars
<1>2. CollectedChunks' /\ AtOneRequest' /\ CollectedPages'
  BY DEF Return, CollectedChunks, AtOneRequest, CollectedPages
<1>3. Returned'
  BY DEF IInv, Return, Returned, PageWithinLimit, ErrorsJustified, coinVars
<1> QED BY <1>1, <1>2, <1>3 DEF IInv

(* ReturnTransactions keeps the invariant. *)
LEMMA ReturnTransactionsSafe ==
  ASSUME IInv, ReturnTransactions
  PROVE  IInv'
<1>1. /\ call \in {"MultiGetTransactionBlocks", "GetCheckpointTransactions"}
      /\ call = "GetCheckpointTransactions" => todo = Contents \/ (todo = <<>> /\ trouble = "yes")
      /\ out = todo /\ out' = out
  BY DEF ReturnTransactions, IInv, CollectedChunks, Return
<1>2. AllOrNothing' /\ ObjectsInPlace' /\ MaskFits' /\ ListingComplete' /\ CollectedCoins'
  BY <1>1 DEF ReturnTransactions, Return, callVars, AllOrNothing, ObjectsInPlace, MaskFits, ListingComplete,
     Succeeded, CollectedCoins
<1> QED BY <1>2, ReturnSafe DEF ReturnTransactions

(* What the answers of an object read become: a result in each place, which *)
(* is the conversion of the object if the node sent it whole.               *)
LEMMA ObjectResponsesInPlace ==
  ASSUME todo \in Seq(Items), opts \in OptionSets,
         NEW r, Len(r) \in Nat, Len(r) <= Len(todo), DOMAIN r = 1..Len(r),
         \A i \in DOMAIN r :
           /\ r[i].item = todo[i]
           /\ r[i].code \in {"OK", "NOT_FOUND", "INTERNAL", "nothing", "malformed"}
  PROVE  /\ DOMAIN ObjectResponses(r) = DOMAIN r
         /\ \A i \in DOMAIN r :
              LET e == ObjectResponses(r)[i]
              IN /\ e.id = todo[i]
                 /\ r[i].code = "OK" =>
                      /\ e.err = ObjectToInternalType(ItemObject[todo[i]], opts).err
                      /\ e.data = ObjectToInternalType(ItemObject[todo[i]], opts).data
                 /\ r[i].code = "NOT_FOUND" => e.err = "notExists"
                 /\ r[i].code \notin {"OK", "NOT_FOUND"} => e.err \notin {"none", "notExists"}
<1> DEFINE masked(k) == Masked(ItemObject[k], ObjectReadMaskPaths(opts))
           object(a) == CASE a.code = "OK" -> masked(a.item)
                          [] a.code = "malformed" -> [masked(a.item) EXCEPT !["object_id"] = Malformed]
                          [] a.code = "nothing" -> Unset
           response(a) == CASE a.code = "NOT_FOUND" -> [err |-> "notExists", data |-> Unset]
                            [] a.code = "INTERNAL" -> ObjectError("INTERNAL")
                            [] OTHER -> ObjectToInternalType(object(a), opts)
<1>1. ObjectResponses(r) =
        [i \in DOMAIN r |-> [id |-> todo[i], err |-> response(r[i]).err, data |-> response(r[i]).data]]
  BY DEF ObjectResponses
<1>2. ASSUME NEW i \in DOMAIN r
      PROVE  /\ todo[i] \in Items /\ r[i].item = todo[i]
             /\ r[i].code \in {"OK", "NOT_FOUND", "INTERNAL", "nothing", "malformed"}
  BY <1>2
<1>3. ASSUME NEW i \in DOMAIN r, r[i].code = "OK"
      PROVE  response(r[i]) = ObjectToInternalType(ItemObject[todo[i]], opts)
  <2>1. response(r[i]) = ObjectToInternalType(masked(todo[i]), opts)
    BY <1>2, <1>3
  <2> QED BY <1>2, <2>1, ObjectMaskFits
<1>4. ASSUME NEW i \in DOMAIN r, r[i].code = "malformed"
      PROVE  response(r[i]).err \notin {"none", "notExists"}
  <2> DEFINE x == [masked(todo[i]) EXCEPT !["object_id"] = Malformed]
  <2>1. response(r[i]) = ObjectToInternalType(x, opts)
    BY <1>2, <1>4
  <2>2. Get(x, "object_id") = Malformed
    BY DEF Get, Masked, ObjectReadMaskPaths
  <2> HIDE DEF x
  <2>3. ObjectToInternalType(x, opts).err \in {"no object in response", "address"}
    BY <2>2 DEF ObjectToInternalType, ObjectError
  <2> QED BY <2>1, <2>3
<1>5. ASSUME NEW i \in DOMAIN r, r[i].code = "nothing"
      PROVE  response(r[i]).err \notin {"none", "notExists"}
  <2>1. response(r[i]) = ObjectToInternalType(Unset, opts)
    BY <1>5
  <2>2. ObjectToInternalType(Unset, opts).err = "no object in response"
    BY DEF ObjectToInternalType, ObjectError
  <2> HIDE DEF response
  <2> QED BY <2>1, <2>2
<1>6. ASSUME NEW i \in DOMAIN r, r[i].code = "INTERNAL"
      PROVE  response(r[i]).err \notin {"none", "notExists"}
  BY <1>6 DEF ObjectError
<1>7. ASSUME NEW i \in DOMAIN r, r[i].code = "NOT_FOUND"
      PROVE  response(r[i]).err = "notExists"
  BY <1>7
<1> HIDE DEF response
<1> QED BY <1>1, <1>2, <1>3, <1>4, <1>5, <1>6, <1>7

(* Whether the conversion of an object that the node holds succeeds. *)
LEMMA ConversionOutcome ==
  ASSUME NEW k \in Items, NEW options \in OptionSets
  PROVE  LET x == ObjectToInternalType(ItemObject[k], options)
         IN /\ x.err \in {"none", "owner"}
            /\ x.err = "none" => x.data.objectId = k
            /\ x.err = "owner" => "Owner" \in options /\ ItemObject[k]["owner"] \in {"UNKNOWN", "BAD_ADDRESS"}
<1> DEFINE x == ItemObject[k]
<1>1. x # Unset /\ Get(x, "object_id") = k /\ k # Malformed /\ Get(x, "owner") = x["owner"]
  BY NodeAssumptions, ReadAssumptions, ItemsPositive DEF Get, ObjectFields, Malformed
<1>2. ToInternalObjectOwner(x["owner"]) = "error" => x["owner"] \in {"UNKNOWN", "BAD_ADDRESS"}
  BY NodeAssumptions DEF ToInternalObjectOwner, ToInternalOwner
<1> HIDE DEF x
<1>3. /\ ObjectToInternalType(x, options).err \in {"none", "owner"}
      /\ ObjectToInternalType(x, options).err = "none" => ObjectToInternalType(x, options).data.objectId = k
      /\ ObjectToInternalType(x, options).err = "owner" =>
           "Owner" \in options /\ x["owner"] \in {"UNKNOWN", "BAD_ADDRESS"}
  BY <1>1, <1>2 DEF ObjectToInternalType, ObjectError
<1> QED BY <1>3 DEF x

(* An object read returns. *)
LEMMA ReturnObjectsSafe ==
  ASSUME IInv, pc \in {"objects", "object"}, NEW r, ReturnObjects(r),
         NEW faults \in SUBSET {"short", "INTERNAL", "nothing", "malformed"},
         \/ todo = <<>> /\ r = <<>>
         \/ todo # <<>> /\ r \in Answers(todo, held, faults)
  PROVE  IInv'
<1> DEFINE responses == ObjectResponses(r)
           good == /\ Len(r) = Len(todo)
                   /\ \A i \in DOMAIN responses : responses[i].err \in {"none", "notExists"}
           badOwner == \E i \in DOMAIN r :
                         /\ "Owner" \in opts /\ r[i].code = "OK"
                         /\ ItemObject[r[i].item]["owner"] \in {"UNKNOWN", "BAD_ADDRESS"}
<1>1. /\ call \in {"MultiGetObjects", "GetObject"} /\ todo \in Seq(Items) /\ opts \in OptionSets
      /\ result = "none" /\ always \subseteq held /\ held \subseteq ever
  BY DEF IInv, AtOneRequest, InProgress
<1>2. /\ Len(r) \in Nat /\ Len(r) <= Len(todo) /\ DOMAIN r = 1..Len(r)
      /\ \A i \in DOMAIN r :
           /\ i \in DOMAIN todo
           /\ r[i].item = todo[i]
           /\ r[i].code = "OK" => todo[i] \in held
           /\ r[i].code = "NOT_FOUND" => todo[i] \notin held
           /\ r[i].code \in {"OK", "NOT_FOUND", "INTERNAL", "nothing", "malformed"}
  <2>1. CASE todo = <<>> /\ r = <<>>
    BY <2>1
  <2>2. CASE todo # <<>> /\ r \in Answers(todo, held, faults)
    <3>1. faults \ {"short"} \subseteq {"INTERNAL", "nothing", "malformed"}
      OBVIOUS
    <3>2. /\ Len(r) \in Nat /\ Len(r) <= Len(todo) /\ DOMAIN r = 1..Len(r)
          /\ \A i \in DOMAIN r :
               /\ i \in DOMAIN todo
               /\ r[i].item = todo[i]
               /\ r[i].code = "OK" => todo[i] \in held
               /\ r[i].code = "NOT_FOUND" => todo[i] \notin held
               /\ r[i].code \in {"OK", "NOT_FOUND"} \cup (faults \ {"short"})
      BY <1>1, <2>2, AnswersInOrder
    <3> QED BY <3>1, <3>2
  <2> QED BY <2>1, <2>2
<1>3. /\ IF good THEN Return(responses) ELSE Fail
      /\ trouble' = IF r = Honest(todo, held) /\ ~ badOwner THEN trouble ELSE "yes"
      /\ UNCHANGED <<nodeVars, histVars, callVars, coinVars, start, token, chunk>>
  BY DEF ReturnObjects
<1>4. /\ DOMAIN responses = DOMAIN r
      /\ \A i \in DOMAIN r :
           /\ responses[i].id = todo[i]
           /\ r[i].code = "OK" =>
                /\ responses[i].err = ObjectToInternalType(ItemObject[todo[i]], opts).err
                /\ responses[i].data = ObjectToInternalType(ItemObject[todo[i]], opts).data
           /\ r[i].code = "NOT_FOUND" => responses[i].err = "notExists"
           /\ r[i].code \notin {"OK", "NOT_FOUND"} => responses[i].err \notin {"none", "notExists"}
  BY <1>1, <1>2, ObjectResponsesInPlace
<1>5. ASSUME NEW i \in DOMAIN r
      PROVE  LET x == ObjectToInternalType(ItemObject[todo[i]], opts)
             IN /\ x.err \in {"none", "owner"}
                /\ x.err = "none" => x.data.objectId = todo[i]
                /\ x.err = "owner" =>
                     "Owner" \in opts /\ ItemObject[todo[i]]["owner"] \in {"UNKNOWN", "BAD_ADDRESS"}
  <2>1. todo[i] \in Items
    BY <1>1, <1>2
  <2> QED BY <1>1, <2>1, ConversionOutcome
<1> HIDE DEF responses
<1>6. CASE good
  <2>1. Return(responses) /\ UNCHANGED <<nodeVars, histVars, coinVars, token, chunk>> /\ UNCHANGED callVars
    BY <1>3, <1>6
  <2>2. out' = responses /\ result' = "ok" /\ call' = call /\ todo' = todo /\ opts' = opts /\ ever' = ever /\ always' = always
    BY <2>1 DEF Return, callVars, histVars
  <2>3. DOMAIN responses = DOMAIN todo
    BY <1>1, <1>2, <1>4, <1>6
  <2>4. ASSUME NEW i \in DOMAIN responses
        PROVE  /\ responses[i].id = todo[i]
               /\ responses[i].err = "none" =>
                    /\ responses[i].data = ObjectToInternalType(ItemObject[todo[i]], opts).data
                    /\ responses[i].data.objectId = todo[i] /\ todo[i] \in ever
               /\ responses[i].err # "none" => todo[i] \notin always
    BY <1>1, <1>2, <1>4, <1>5, <1>6
  <2>5. ObjectsInPlace'
    BY <2>2, <2>3, <2>4 DEF ObjectsInPlace
  <2>6. MaskFits'
    <3>1. \A p \in ObjectReadMaskPaths(opts) : \E k \in Items :
            ObjectToInternalType(Masked(ItemObject[k], ObjectReadMaskPaths(opts) \ {p}), opts)
              # ObjectToInternalType(ItemObject[k], opts)
      BY <1>1, ObjectMaskTight
    <3> QED BY <1>1, <2>2, <2>4, <3>1 DEF MaskFits, Succeeded
  <2>7. AllOrNothing' /\ ListingComplete' /\ CollectedCoins'
    BY <1>1, <2>1, <2>2 DEF AllOrNothing, ListingComplete, CollectedCoins, Succeeded, Return
  <2> QED BY <2>1, <2>5, <2>6, <2>7, ReturnSafe
<1>7. CASE ~ good
  <2>1. ~ (r = Honest(todo, held) /\ ~ badOwner)
    <3>1. SUFFICES ASSUME r = Honest(todo, held), ~ badOwner PROVE FALSE
      OBVIOUS
    <3>2. DOMAIN r = DOMAIN todo /\ \A i \in DOMAIN r : r[i].code \in {"OK", "NOT_FOUND"}
      BY <3>1 DEF Honest
    <3>3. Len(r) = Len(todo)
      BY <1>1, <1>2, <3>2
    <3>4. ASSUME NEW i \in DOMAIN responses PROVE responses[i].err \in {"none", "notExists"}
      BY <1>2, <1>4, <1>5, <3>1, <3>2, <3>4
    <3> QED BY <1>7, <3>3, <3>4
  <2>2. Fail /\ trouble' = "yes"
    BY <1>3, <1>7, <2>1
  <2>3. Len(chunk') <= ChunkSize
    BY <1>3 DEF IInv, TypeOK
  <2> QED BY <1>3, <2>2, <2>3, FailSafe DEF histVars
<1> QED BY <1>6, <1>7

(* BatchGetObjects keeps the invariant. *)
LEMMA BatchGetObjectsSafe ==
  ASSUME IInv, BatchGetObjects
  PROVE  IInv'
<1> DEFINE faults == {"short", "INTERNAL", "nothing", "malformed"}
<1>1. pc = "objects" /\ faults \in SUBSET {"short", "INTERNAL", "nothing", "malformed"}
  BY DEF BatchGetObjects
<1>2. PICK r : /\ ReturnObjects(r)
               /\ r \in IF todo = <<>> THEN {<<>>} ELSE Answers(todo, held, faults)
  BY DEF BatchGetObjects
<1> HIDE DEF faults
<1> QED BY <1>1, <1>2, ReturnObjectsSafe

(* GetObject has no list to be cut short. *)
LEMMA FetchObjectSafe ==
  ASSUME IInv, FetchObject
  PROVE  IInv'
<1> DEFINE faults == {"INTERNAL", "nothing", "malformed"}
<1>1. PICK r \in Answers(todo, held, faults) : ReturnObjects(r)
  BY DEF FetchObject
<1>2. pc = "object" /\ faults \in SUBSET {"short", "INTERNAL", "nothing", "malformed"}
  BY DEF FetchObject
<1>3. todo # <<>>
  <2>1. Len(todo) = 1 /\ Len(<<>>) = 0
    BY <1>2 DEF IInv, AtOneRequest
  <2> QED BY <2>1
<1> HIDE DEF faults
<1> QED BY <1>1, <1>2, <1>3, ReturnObjectsSafe

(* A listing that is in order lists nothing twice. *)
LEMMA AscendingInjective ==
  ASSUME NEW L \in Seq(Items), Ascending(L)
  PROVE  IsInjective(L)
<1>1. SUFFICES ASSUME NEW i \in DOMAIN L, NEW j \in DOMAIN L, L[i] = L[j] PROVE i = j
  BY DEF IsInjective
<1>2. i \in Nat /\ j \in Nat /\ L[i] \in Nat
  <2>1. DOMAIN L = 1..Len(L) /\ Len(L) \in Nat /\ L[i] \in Items
    OBVIOUS
  <2>2. i \in Nat /\ j \in Nat
    BY <2>1
  <2> QED BY <2>1, <2>2, ItemsPositive
<1>3. ~ (i < j) /\ ~ (j < i)
  BY <1>1, <1>2 DEF Ascending
<1> QED BY <1>2, <1>3

(* A listing that has ended holds what was there all along. *)
LEMMA ListedAllComplete ==
  ASSUME NEW L, ListedAll(L)
  PROVE  IsInjective(L) /\ always \subseteq ToSet(L) /\ ToSet(L) \subseteq ever
BY AscendingInjective DEF ListedAll, ToSet

(* ListBalances keeps the invariant. *)
LEMMA ListBalancesSafe ==
  ASSUME IInv, ListBalances
  PROVE  IInv'
<1>1. /\ pc = "page" /\ call = "GetAllBalances" /\ ListedUpTo(out, token) /\ result = "none"
      /\ always \subseteq held /\ held \subseteq ever /\ ever \subseteq Items
  BY DEF IInv, ListBalances, CollectedPages, InProgress, TypeOK
<1>2. token \in Nat /\ PageSize \in Nat
  BY ItemsPositive, ReadAssumptions DEF IInv, TypeOK
<1>3. PICK page \in Pages(token, PageSize) :
        /\ token' = page.next
        /\ IF page.next = 0
             THEN Return(out \o page.list)
             ELSE out' = out \o page.list /\ UNCHANGED <<pc, result>>
  BY DEF ListBalances
<1>4. UNCHANGED <<nodeVars, histVars, callVars, coinVars, start, chunk, trouble>>
  BY DEF ListBalances
<1>5. page.next \in {0} \cup Items
  BY <1>1, <1>2, PageListing
<1>6. /\ page.next # 0 => ListedUpTo(out \o page.list, page.next)
      /\ page.next = 0 => ListedAll(out \o page.list)
  BY <1>1, <1>2, ListingGrows
<1>7. out' = out \o page.list /\ call' = "GetAllBalances"
  BY <1>1, <1>3, <1>4 DEF Return, callVars
<1>8. TypeOK' /\ InProgress'
  BY <1>1, <1>3, <1>4, <1>5 DEF IInv, TypeOK, InProgress, Return, nodeVars, histVars, coinVars
<1>9. CollectedChunks' /\ AtOneRequest' /\ CollectedCoins'
  BY <1>1, <1>3, <1>7 DEF CollectedChunks, AtOneRequest, CollectedCoins, Return
<1>10. CollectedPages'
  <2>1. CASE page.next = 0
    BY <1>3, <2>1 DEF CollectedPages, Return
  <2>2. CASE page.next # 0
    <3>1. ListedUpTo(out, token)'
      BY <1>3, <1>4, <1>6, <1>7, <2>2 DEF ListedUpTo, histVars
    <3> QED BY <1>7, <3>1 DEF CollectedPages
  <2> QED BY <2>1, <2>2
<1>11. Returned'
  <2>1. PageWithinLimit'
    BY <1>4 DEF IInv, Returned, PageWithinLimit, coinVars
  <2>2. CASE page.next # 0
    <3>1. result' = "none"
      BY <1>1, <1>3, <2>2
    <3> QED BY <1>7, <2>1, <3>1, NotReturned
  <2>3. CASE page.next = 0
    <3>1. result' = "ok" /\ always' = always /\ ever' = ever
      BY <1>3, <1>4, <2>3 DEF Return, histVars
    <3>2. IsInjective(out') /\ always \subseteq ToSet(out') /\ ToSet(out') \subseteq ever
      BY <1>6, <1>7, <2>3, ListedAllComplete
    <3>3. ListingComplete'
      BY <1>7, <3>1, <3>2 DEF ListingComplete, Succeeded, Listed
    <3> QED BY <1>7, <2>1, <3>1, <3>3 DEF Returned, AllOrNothing, ObjectsInPlace, MaskFits, ErrorsJustified, Succeeded
  <2> QED BY <2>2, <2>3
<1> QED BY <1>8, <1>9, <1>10, <1>11 DEF IInv

(* FetchBalance keeps the invariant. *)
LEMMA FetchBalanceSafe ==
  ASSUME IInv, FetchBalance
  PROVE  IInv'
<1>1. call = "GetBalance" /\ always \subseteq held /\ held \subseteq ever
  BY DEF IInv, FetchBalance, AtOneRequest, InProgress
<1>2. /\ call' = "GetBalance" /\ todo' = todo /\ always' = always /\ ever' = ever /\ result' = "ok"
      /\ UNCHANGED <<nodeVars, histVars, coinVars, token, chunk>>
      /\ Return(out')
  BY <1>1 DEF FetchBalance, Return, callVars, histVars
<1>3. \/ trouble' = "yes"
      \/ out' = <<[of |-> todo[1], zero |-> IF todo[1] \in held THEN "no" ELSE "yes"]>>
  BY DEF FetchBalance, Return
<1>4. trouble' = "no" => out'[1].of = todo[1] /\ out'[1].zero = IF todo[1] \in held THEN "no" ELSE "yes"
  BY <1>3
<1>5. ListingComplete'
  BY <1>1, <1>2, <1>4 DEF ListingComplete, Succeeded
<1>6. AllOrNothing' /\ ObjectsInPlace' /\ MaskFits' /\ CollectedCoins'
  BY <1>2 DEF AllOrNothing, ObjectsInPlace, MaskFits, CollectedCoins, Succeeded, Return
<1> QED BY <1>2, <1>5, <1>6, ReturnSafe

(* FetchCheckpoint keeps the invariant. *)
LEMMA FetchCheckpointSafe ==
  ASSUME IInv, FetchCheckpoint
  PROVE  IInv'
<1>1. PICK x \in Checkpoints : call = "GetCheckpoint" /\ trouble = "no" /\ todo = <<x>>
  BY DEF IInv, FetchCheckpoint, AtOneRequest
<1>2. /\ call' = "GetCheckpoint" /\ todo' = todo /\ result' = "ok"
      /\ UNCHANGED <<nodeVars, histVars, coinVars, token, chunk>>
      /\ Return(out')
  BY <1>1 DEF FetchCheckpoint, Return, callVars
<1>3. \/ trouble' = "no" /\ out' = <<CheckpointToInternalType(Masked(x, CheckpointReadMaskPaths))>>
      \/ trouble' = "yes" /\ out' = <<CheckpointToInternalType(<<>>)>>
  BY <1>1 DEF FetchCheckpoint, Return
<1>4. out'[1] = CheckpointToInternalType(IF trouble' = "no" THEN x ELSE <<>>)
  BY <1>3, CheckpointMaskFits
<1>5. \A p \in CheckpointReadMaskPaths : \E y \in Checkpoints :
        CheckpointToInternalType(Masked(y, CheckpointReadMaskPaths \ {p})) # CheckpointToInternalType(y)
  BY CheckpointMaskTight
<1>6. MaskFits'
  <2>1. todo'[1] = x
    BY <1>1, <1>2
  <2> QED BY <1>2, <1>4, <1>5, <2>1 DEF MaskFits, Succeeded
<1>7. AllOrNothing' /\ ObjectsInPlace' /\ ListingComplete' /\ CollectedCoins'
  BY <1>2 DEF AllOrNothing, ObjectsInPlace, ListingComplete, CollectedCoins, Succeeded, Return
<1> QED BY <1>2, <1>6, <1>7, ReturnSafe

(* FetchCoinInfo keeps the invariant. *)
LEMMA FetchCoinInfoSafe ==
  ASSUME IInv, FetchCoinInfo
  PROVE  IInv'
<1>1. PICK k \in Items : call = "GetCoinMetadata" /\ todo = <<k>>
  BY DEF IInv, FetchCoinInfo, AtOneRequest
<1>2. PICK info :
        /\ IF CoinInfoToInternalType(info).err = "none"
             THEN Return(<<CoinInfoToInternalType(info).data>>) ELSE Fail
        /\ trouble' = IF info = CoinInfo[k] /\ info # Unset THEN trouble ELSE "yes"
  BY <1>1 DEF FetchCoinInfo
<1>3. UNCHANGED <<nodeVars, histVars, callVars, coinVars, start, token, chunk>>
  BY DEF FetchCoinInfo
<1>4. CASE CoinInfoToInternalType(info).err = "none"
  <2>1. Return(out') /\ result' = "ok" /\ call' = "GetCoinMetadata"
    BY <1>1, <1>2, <1>3, <1>4 DEF Return, callVars
  <2>2. AllOrNothing' /\ ObjectsInPlace' /\ ListingComplete' /\ MaskFits' /\ CollectedCoins'
    BY <2>1 DEF AllOrNothing, ObjectsInPlace, ListingComplete, MaskFits, CollectedCoins, Succeeded, Return
  <2> QED BY <1>3, <2>1, <2>2, ReturnSafe
<1>5. CASE CoinInfoToInternalType(info).err # "none"
  <2>1. ~ (info = CoinInfo[k] /\ info # Unset)
    BY <1>5, NodeAssumptions DEF CoinInfoToInternalType
  <2>2. Fail /\ trouble' = "yes"
    BY <1>2, <1>5, <2>1
  <2>3. Len(chunk') <= ChunkSize
    BY <1>3 DEF IInv, TypeOK
  <2> QED BY <1>3, <2>2, <2>3, FailSafe DEF histVars
<1> QED BY <1>4, <1>5

(* The limit of a page of coins is kept, also when it wraps to no page size *)
(* at all: the node's own page size is a uint32.                            *)
LEMMA PageSizeWithinLimit ==
  ASSUME NEW limit \in Nat, limit > 0, NEW n \in Nat,
         n <= IF RequestedPageSize(limit) = 0 THEN DefaultPage ELSE RequestedPageSize(limit)
  PROVE  n <= limit
<1>1. U32 \in Nat \ {0} /\ DefaultPage <= U32 /\ DefaultPage \in Nat
  BY ReadAssumptions
<1>2. limit % U32 <= limit /\ (limit % U32 = 0 => limit >= U32)
  BY <1>1
<1> QED BY <1>1, <1>2 DEF RequestedPageSize

(* A coin that is shown tells its item. *)
LEMMA CoinTells ==
  /\ \A k \in Items : ToInternalCoin(ItemObject[k]).err = "none" =>
       ToInternalCoin(ItemObject[k]).data \in CoinsShown /\ ToInternalCoin(ItemObject[k]).data.coinObjectId = k
  /\ \A c \in CoinsShown : c = ToInternalCoin(ItemObject[c.coinObjectId]).data
<1>1. ASSUME NEW k \in Items, ToInternalCoin(ItemObject[k]).err = "none"
      PROVE  ToInternalCoin(ItemObject[k]).data.coinObjectId = k
  <2>1. Get(ItemObject[k], "object_id") = k
    BY NodeAssumptions, ReadAssumptions DEF Get, ObjectFields
  <2> QED BY <1>1, <2>1 DEF ToInternalCoin, ObjectError
<1> QED BY <1>1 DEF CoinsShown

(* One page of coins joins the listing. *)
LEMMA GetCoinsSafe ==
  ASSUME IInv, NEW limit \in Limits, GetCoins(limit)
  PROVE  IInv'
<1> DEFINE t == PageToken(cursor)
           coin(k) == ToInternalCoin(ItemObject[k])
<1>1. /\ pc = "coins" /\ call = "GetCoins" /\ ListedUpTo(Listed, t) /\ result = "none"
      /\ always \subseteq held /\ held \subseteq ever /\ ever \subseteq Items /\ held \subseteq Items
      /\ out \in Seq(CoinsShown)
  BY DEF IInv, GetCoins, CollectedCoins, InProgress, TypeOK
<1>2. t \in Nat /\ limit \in Nat /\ RequestedPageSize(limit) \in Nat
  BY ItemsPositive, ReadAssumptions DEF IInv, TypeOK, PageToken, Cursor, NilCursor, RequestedPageSize
<1>3. PICK page \in Pages(t, RequestedPageSize(limit)) :
        LET coins == [i \in DOMAIN page.list |-> ToInternalCoin(Masked(ItemObject[page.list[i]], CoinReadMaskPaths))]
        IN /\ \A i \in DOMAIN coins : coins[i].err = "none"
           /\ paged' = [limit |-> limit, size |-> Len(coins)]
           /\ cursor' = NextCursor(page)
           /\ LET all == out \o [i \in DOMAIN coins |-> coins[i].data]
              IN IF cursor' = NilCursor THEN Return(all) ELSE out' = all /\ UNCHANGED <<pc, result>>
  BY DEF GetCoins
<1>4. UNCHANGED <<nodeVars, histVars, callVars, start, token, chunk, trouble>>
  BY DEF GetCoins
<1> DEFINE P == page.list
           n == Len(P)
           shown == [i \in 1..n |-> coin(P[i]).data]
<1>5. /\ P \in Seq(Items) /\ n <= IF RequestedPageSize(limit) = 0 THEN DefaultPage ELSE RequestedPageSize(limit)
      /\ page.next \in {0} \cup Items
  BY <1>1, <1>2, PageListing
<1>6. n \in Nat /\ DOMAIN P = 1..n /\ \A i \in 1..n : P[i] \in Items
  BY <1>5
<1>7. /\ page.next # 0 => ListedUpTo(Listed \o P, page.next)
      /\ page.next = 0 => ListedAll(Listed \o P)
  BY <1>1, <1>2, ListingGrows
<1> HIDE DEF P, n
<1>8. /\ \A i \in 1..n : coin(P[i]).err = "none"
      /\ paged' = [limit |-> limit, size |-> n]
      /\ IF cursor' = NilCursor THEN Return(out \o shown) ELSE out' = out \o shown /\ UNCHANGED <<pc, result>>
  <2> DEFINE coins == [i \in DOMAIN P |-> ToInternalCoin(Masked(ItemObject[P[i]], CoinReadMaskPaths))]
  <2>1. coins = [i \in 1..n |-> coin(P[i])]
    BY <1>6, CoinMaskFits
  <2>2. DOMAIN coins = 1..n /\ Len(coins) = n /\ \A i \in 1..n : coins[i] = coin(P[i])
    <3> HIDE DEF coin
    <3> QED BY <1>6, <2>1
  <2>3. [i \in DOMAIN coins |-> coins[i].data] = shown
    BY <2>2
  <2>4. /\ \A i \in DOMAIN coins : coins[i].err = "none"
        /\ paged' = [limit |-> limit, size |-> Len(coins)]
        /\ LET all == out \o [i \in DOMAIN coins |-> coins[i].data]
           IN IF cursor' = NilCursor THEN Return(all) ELSE out' = all /\ UNCHANGED <<pc, result>>
    BY <1>3 DEF P
  <2> HIDE DEF coins, shown
  <2> QED BY <2>2, <2>3, <2>4
<1>9. cursor' = (IF page.next = 0 THEN NilCursor ELSE Cursor(page.next)) /\ (cursor' = NilCursor <=> page.next = 0)
  BY <1>3 DEF NextCursor, Cursor, NilCursor
<1>10. /\ shown \in Seq(CoinsShown) /\ Len(shown) = n
       /\ \A i \in 1..n : shown[i].coinObjectId = P[i]
  <2>1. \A i \in 1..n : coin(P[i]).data \in CoinsShown /\ coin(P[i]).data.coinObjectId = P[i]
    BY <1>6, <1>8, CoinTells
  <2> HIDE DEF coin
  <2>2. shown \in [1..n -> CoinsShown]
    BY <2>1
  <2> QED BY <1>6, <2>1, <2>2
<1>11. out' = out \o shown /\ call' = "GetCoins"
  BY <1>1, <1>4, <1>8 DEF Return, callVars
<1> HIDE DEF shown, t, coin
<1>12. out' \in Seq(CoinsShown) /\ Len(out') = Len(out) + n
  <2>1. /\ out \o shown \in Seq(CoinsShown)
        /\ Len(out \o shown) = Len(out) + Len(shown)
    BY <1>1, <1>10, ConcatProperties
  <2> QED BY <1>10, <1>11, <2>1
<1>13. Listed' = Listed \o P
  <2>1. Listed = [i \in 1..Len(out) |-> out[i].coinObjectId] /\ Len(out) \in Nat
    BY <1>1 DEF Listed
  <2>2. Listed' = [i \in 1..(Len(out) + n) |-> out'[i].coinObjectId]
    BY <1>11, <1>12 DEF Listed
  <2>3. Listed \in Seq(Items) /\ Len(Listed) = Len(out)
    BY <1>1, <2>1 DEF ListedUpTo
  <2>4. Listed \o P = [i \in 1..(Len(out) + n) |-> IF i <= Len(out) THEN Listed[i] ELSE P[i - Len(out)]]
    BY <1>5, <1>6, <2>1, <2>3 DEF n
  <2>5. ASSUME NEW i \in 1..(Len(out) + n)
        PROVE  out'[i].coinObjectId = IF i <= Len(out) THEN Listed[i] ELSE P[i - Len(out)]
    <3>1. out'[i] = IF i <= Len(out) THEN out[i] ELSE shown[i - Len(out)]
      BY <1>1, <1>6, <1>10, <1>11, <2>1
    <3>2. i > Len(out) => i - Len(out) \in 1..n
      BY <1>6, <2>1
    <3>3. i <= Len(out) => i \in 1..Len(out)
      BY <1>6, <2>1
    <3>4. i <= Len(out) \/ i > Len(out)
      BY <1>6, <2>1
    <3> QED BY <1>10, <2>1, <3>1, <3>2, <3>3, <3>4
  <2> QED BY <2>2, <2>4, <2>5
<1>14. TypeOK' /\ InProgress'
  BY <1>1, <1>4, <1>5, <1>8, <1>9 DEF IInv, TypeOK, InProgress, Return, nodeVars, histVars
<1>15. CollectedChunks' /\ AtOneRequest' /\ CollectedPages'
  BY <1>1, <1>8 DEF CollectedChunks, AtOneRequest, CollectedPages, Return
<1>16. CollectedCoins'
  <2>1. CASE page.next = 0
    BY <1>8, <1>9, <1>12, <2>1 DEF CollectedCoins, Return
  <2>2. CASE page.next # 0
    <3>1. PageToken(cursor)' = page.next /\ cursor' # <<"garbled">>
      BY <1>9, <2>2 DEF PageToken, Cursor
    <3>2. ListedUpTo(Listed, PageToken(cursor))'
      BY <1>4, <1>7, <1>13, <2>2, <3>1 DEF ListedUpTo, histVars
    <3> QED BY <1>11, <1>12, <3>1, <3>2 DEF CollectedCoins
  <2> QED BY <2>1, <2>2
<1>17. PageWithinLimit'
  BY <1>2, <1>5, <1>6, <1>8, PageSizeWithinLimit DEF PageWithinLimit
<1>18. \A i \in DOMAIN out' : out'[i] = ToInternalCoin(ItemObject[out'[i].coinObjectId]).data
  <2>1. \A i \in DOMAIN out' : out'[i] \in CoinsShown
    BY <1>12
  <2> QED BY <2>1, CoinTells
<1>19. Returned'
  <2>1. CASE page.next # 0
    BY <1>1, <1>8, <1>9, <1>17, <1>18, <2>1, NotReturned
  <2>2. CASE page.next = 0
    <3>1. result' = "ok" /\ always' = always /\ ever' = ever
      BY <1>4, <1>8, <1>9, <2>2 DEF Return, histVars
    <3>2. IsInjective(Listed') /\ always \subseteq ToSet(Listed') /\ ToSet(Listed') \subseteq ever
      BY <1>7, <1>13, <2>2, ListedAllComplete
    <3>3. ListingComplete'
      BY <1>11, <3>1, <3>2 DEF ListingComplete, Succeeded
    <3>4. MaskFits'
      BY <1>11, <1>18 DEF MaskFits, Succeeded
    <3> QED BY <1>11, <1>17, <3>1, <3>3, <3>4 DEF Returned, AllOrNothing, ObjectsInPlace, ErrorsJustified, Succeeded
  <2> QED BY <2>1, <2>2
<1> QED BY <1>14, <1>15, <1>16, <1>19 DEF IInv

(* GetCoinsFails keeps the invariant. *)
LEMMA GetCoinsFailsSafe ==
  ASSUME IInv, GetCoinsFails
  PROVE  IInv'
<1>1. /\ pc = "coins" /\ result = "none" /\ trouble' = "yes"
      /\ UNCHANGED <<nodeVars, histVars, callVars, coinVars, pc, start, token, out, result, chunk>>
  BY DEF IInv, GetCoinsFails, InProgress
<1>2. TypeOK' /\ InProgress'
  BY <1>1 DEF IInv, TypeOK, InProgress, nodeVars, histVars, coinVars
<1>3. CollectedChunks' /\ AtOneRequest' /\ CollectedPages'
  BY <1>1 DEF CollectedChunks, AtOneRequest, CollectedPages
<1>4. CollectedCoins'
  BY <1>1 DEF IInv, CollectedCoins, ListedUpTo, Listed, PageToken, coinVars, callVars, histVars
<1>5. Returned'
  <2>1. PageWithinLimit'
    BY <1>1 DEF IInv, Returned, PageWithinLimit, coinVars
  <2>2. call' = "GetCoins" =>
          \A i \in DOMAIN out' : out'[i] = ToInternalCoin(ItemObject[out'[i].coinObjectId]).data
    BY <1>1 DEF IInv, Returned, MaskFits, callVars
  <2> QED BY <1>1, <2>1, <2>2, NotReturned
<1> QED BY <1>2, <1>3, <1>4, <1>5 DEF IInv

(* RequestFails keeps the invariant. *)
LEMMA RequestFailsSafe ==
  ASSUME IInv, RequestFails
  PROVE  IInv'
<1>1. Fail /\ trouble' = "yes" /\ UNCHANGED <<nodeVars, histVars, callVars, coinVars, start, token, chunk>>
  BY DEF RequestFails
<1>2. Len(chunk') <= ChunkSize
  BY <1>1 DEF IInv, TypeOK
<1> QED BY <1>1, <1>2, FailSafe DEF histVars

(* The node goes on: the history keeps up with it. *)
LEMMA ChangeSafe ==
  ASSUME IInv, NEW newKnown \in SUBSET Digests, NEW newHeld \in SUBSET Items, Change(newKnown, newHeld)
  PROVE  IInv'
<1>1. /\ pc # "idle" /\ result = "none" /\ held' = newHeld /\ known' = newKnown
      /\ always' = always \cap newHeld /\ ever' = ever \cup newHeld
      /\ UNCHANGED <<callVars, coinVars, pc, start, token, out, result, chunk, trouble>>
  BY DEF IInv, Change, InProgress
<1>2. TypeOK' /\ InProgress'
  BY <1>1 DEF IInv, TypeOK, InProgress, coinVars
<1>3. CollectedChunks' /\ AtOneRequest'
  BY <1>1 DEF IInv, CollectedChunks, AtOneRequest, callVars
<1>4. \A L, t : ListedUpTo(L, t) =>
         /\ L \in Seq(Items) /\ Ascending(L)
         /\ \A i \in DOMAIN L : L[i] \in ever' /\ L[i] <= t
         /\ \A k \in always' : k <= t => \E i \in DOMAIN L : L[i] = k
  BY <1>1 DEF ListedUpTo
<1>5. CollectedPages'
  BY <1>1, <1>4 DEF IInv, CollectedPages, ListedUpTo, Ascending, callVars
<1>6. CollectedCoins'
  BY <1>1, <1>4 DEF IInv, CollectedCoins, ListedUpTo, Ascending, Listed, PageToken, callVars, coinVars
<1>7. Returned'
  <2>1. PageWithinLimit'
    BY <1>1 DEF IInv, Returned, PageWithinLimit, coinVars
  <2>2. call' = "GetCoins" =>
          \A i \in DOMAIN out' : out'[i] = ToInternalCoin(ItemObject[out'[i].coinObjectId]).data
    BY <1>1 DEF IInv, Returned, MaskFits, callVars
  <2> QED BY <1>1, <2>1, <2>2, NotReturned
<1> QED BY <1>2, <1>3, <1>5, <1>6, <1>7 DEF IInv

(* What the node does on its own keeps the invariant. *)
LEMMA NodeStepSafe ==
  ASSUME IInv, NodeStep
  PROVE  IInv'
<1>1. known \subseteq Digests /\ held \subseteq Items
  BY DEF IInv, TypeOK
<1>2. \E newKnown \in SUBSET Digests, newHeld \in SUBSET Items : Change(newKnown, newHeld)
  BY <1>1 DEF NodeStep, ExecuteTx, PruneTx, Receive, Spend
<1> QED BY <1>2, ChangeSafe

(* Every step of a call keeps the invariant. *)
LEMMA ClientStepSafe ==
  ASSUME IInv, ClientStep
  PROVE  IInv'
BY CheckpointDigestsSafe, BatchGetTransactionsSafe, ReturnTransactionsSafe, BatchGetObjectsSafe, FetchObjectSafe,
   ListBalancesSafe, FetchBalanceSafe, FetchCheckpointSafe, FetchCoinInfoSafe, GetCoinsSafe, GetCoinsFailsSafe,
   RequestFailsSafe
   DEF ClientStep

-----------------------------------------------------------------------------
(***************************************************************************)
(* The results.                                                            *)
(***************************************************************************)
(* The inductive invariant: what a call has collected at each of its        *)
(* requests, and what it may return.                                        *)
THEOREM Inductive ==
  Spec => []IInv
<1>1. ASSUME Init PROVE IInv
  <2>1. TypeOK /\ InProgress
    BY <1>1, ReadAssumptions DEF Init, TypeOK, InProgress
  <2>2. CollectedChunks /\ AtOneRequest /\ CollectedPages /\ CollectedCoins
    BY <1>1 DEF Init, CollectedChunks, AtOneRequest, CollectedPages, CollectedCoins
  <2>3. Returned
    BY <1>1 DEF Init, Returned, AllOrNothing, ObjectsInPlace, MaskFits, ListingComplete, PageWithinLimit,
       ErrorsJustified, Succeeded
  <2> QED BY <2>1, <2>2, <2>3 DEF IInv
<1>2. ASSUME IInv, [Next]_vars PROVE IInv'
  <2>1. CASE Next
    BY <1>2, <2>1, CallSafe, ClientStepSafe, NodeStepSafe DEF Next
  <2>2. CASE UNCHANGED vars
    <3>1. UNCHANGED <<known, held, changes, call, pc, todo, opts, start, token, cursor, paged, out, result,
                      chunk, trouble, always, ever>>
      BY <2>2 DEF vars
    <3>2. TypeOK' /\ InProgress' /\ CollectedChunks' /\ AtOneRequest'
      BY <1>2, <3>1 DEF IInv, TypeOK, InProgress, CollectedChunks, AtOneRequest
    <3>3. CollectedPages' /\ CollectedCoins'
      BY <1>2, <3>1 DEF IInv, CollectedPages, CollectedCoins, ListedUpTo, Listed, PageToken
    <3>4. Returned'
      BY <1>2, <3>1 DEF IInv, Returned, AllOrNothing, ObjectsInPlace, MaskFits, ListingComplete, Listed,
         PageWithinLimit, ErrorsJustified, Succeeded
    <3> QED BY <3>2, <3>3, <3>4 DEF IInv
  <2> QED BY <1>2, <2>1, <2>2
<1> QED BY <1>1, <1>2, PTL DEF Spec

(* A read is at one of its requests, and no batch request is larger than    *)
(* batchTransactionsChunkSize, for every such size and every list.          *)
THEOREM TypeCorrect ==
  Spec => []TypeOK
<1>1. IInv => TypeOK
  BY DEF IInv
<1> QED BY <1>1, Inductive, PTL

(* The chunks of batchGetTransactions add up to the list asked for, or to   *)
(* nothing, however the node fails or prunes between them.                  *)
THEOREM ChunksAllOrNothing ==
  Spec => []AllOrNothing
<1>1. IInv => AllOrNothing
  BY DEF IInv, Returned
<1> QED BY <1>1, Inductive, PTL

(* GetObject and MultiGetObjects answer every request in its place.         *)
THEOREM AnswersInPlace ==
  Spec => []ObjectsInPlace
<1>1. IInv => ObjectsInPlace
  BY DEF IInv, Returned
<1> QED BY <1>1, Inductive, PTL

(* ObjectReadMaskPaths, CoinReadMaskPaths and CheckpointReadMaskPaths ask   *)
(* for what the conversions use, and those of objects and checkpoints for   *)
(* nothing else, for all options and objects.                               *)
THEOREM MasksFit ==
  Spec => []MaskFits
<1>1. IInv => MaskFits
  BY DEF IInv, Returned
<1> QED BY <1>1, Inductive, PTL

(* GetAllBalances and a caller that follows the cursors of GetCoins list    *)
(* what the account held throughout, once each, whatever changes between    *)
(* the pages, for all page sizes and limits.                                *)
THEOREM ListingsComplete ==
  Spec => []ListingComplete
<1>1. IInv => ListingComplete
  BY DEF IInv, Returned
<1> QED BY <1>1, Inductive, PTL

(* GetCoins returns no more than its limit, for every width of the page     *)
(* size it is cast to.                                                      *)
THEOREM PagesWithinLimit ==
  Spec => []PageWithinLimit
<1>1. IInv => PageWithinLimit
  BY DEF IInv, Returned
<1> QED BY <1>1, Inductive, PTL

(* No read fails without a reason that lies with the node or the caller.    *)
THEOREM ReadErrorsJustified ==
  Spec => []ErrorsJustified
<1>1. IInv => ErrorsJustified
  BY DEF IInv, Returned
<1> QED BY <1>1, Inductive, PTL
=============================================================================
