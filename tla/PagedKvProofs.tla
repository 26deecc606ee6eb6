--------------------------- MODULE PagedKvProofs ----------------------------
(***************************************************************************)
(* Proofs about PagedKv, for any number of caches, layers, blocks and any   *)
(* block size.                                                              *)
(*                                                                          *)
(* RefcountsExact is not inductive alone: a freeze that allocates an id     *)
(* already in a table would raise a count without adding a holder.  PoolInv *)
(* adds what rules that out: tables and offers name no id twice, dead caches*)
(* hold nothing, and every counted id has been minted.                      *)
(*                                                                          *)
(* SharedOnlyAsPrefix needs of an offer what it says of tables: the ids a   *)
(* caller was handed agree with every table and are still allocated.  This  *)
(* is SharingInv; it holds when a caller forgets an offer as soon as one of *)
(* its blocks is freed (~StaleOffers), and only then.                       *)
(***************************************************************************)
EXTENDS PagedKv, SequenceTheorems, FiniteSetTheorems, TLAPS

Distinct(s) == \A i, j \in DOMAIN s : s[i] = s[j] => i = j

PoolType ==
  /\ live \subseteq Caches
  /\ ids \in [Caches -> Seq(Ids)]
  /\ tailLen \in [Caches -> Nat]
  /\ refs \in [Ids -> Nat]
  /\ minted \in Nat
  /\ offer \in Seq(Ids)

TablesDistinct ==
  /\ \A c \in Caches : Distinct(ids[c])
  /\ Distinct(offer)

DeadHoldNothing == \A c \in Caches \ live : ids[c] = <<>>

CountedAreMinted == \A id \in Ids : refs[id] > 0 => id < minted

PoolInv ==
  /\ PoolType
  /\ TablesDistinct
  /\ DeadHoldNothing
  /\ CountedAreMinted
  /\ RefcountsExact

-----------------------------------------------------------------------------
(* Sequences of ids *)

LEMMA ToSetConcat ==
  ASSUME NEW S, NEW s \in Seq(S), NEW t \in Seq(S)
  PROVE  ToSet(s \o t) = ToSet(s) \cup ToSet(t)
<1>1. /\ s \o t \in Seq(S)
      /\ Len(s \o t) = Len(s) + Len(t)
      /\ \A i \in 1 .. Len(s) + Len(t) :
           (s \o t)[i] = IF i <= Len(s) THEN s[i] ELSE t[i - Len(s)]
  BY ConcatProperties
<1>2. /\ DOMAIN (s \o t) = 1 .. Len(s) + Len(t)
      /\ DOMAIN s = 1 .. Len(s)
      /\ DOMAIN t = 1 .. Len(t)
      /\ Len(s) \in Nat /\ Len(t) \in Nat
  BY <1>1, LenProperties
<1>3. ASSUME NEW x \in ToSet(s \o t) PROVE x \in ToSet(s) \cup ToSet(t)
  BY <1>1, <1>2 DEF ToSet
<1>4. ASSUME NEW x \in ToSet(s) PROVE x \in ToSet(s \o t)
  BY <1>1, <1>2 DEF ToSet
<1>5. ASSUME NEW x \in ToSet(t) PROVE x \in ToSet(s \o t)
  <2>1. PICK j \in 1 .. Len(t) : x = t[j]
    BY <1>2 DEF ToSet
  <2>2. j + Len(s) \in DOMAIN (s \o t) /\ (s \o t)[j + Len(s)] = x
    BY <1>1, <1>2, <2>1
  <2>3. QED BY <2>2 DEF ToSet
<1>6. QED BY <1>3, <1>4, <1>5

LEMMA DistinctConcat ==
  ASSUME NEW S, NEW s \in Seq(S), NEW t \in Seq(S),
         Distinct(s), Distinct(t), ToSet(s) \cap ToSet(t) = {}
  PROVE  Distinct(s \o t)
<1>1. /\ Len(s \o t) = Len(s) + Len(t)
      /\ s \o t \in Seq(S)
      /\ \A i \in 1 .. Len(s) + Len(t) :
           (s \o t)[i] = IF i <= Len(s) THEN s[i] ELSE t[i - Len(s)]
  BY ConcatProperties
<1>2. /\ DOMAIN (s \o t) = 1 .. Len(s) + Len(t)
      /\ DOMAIN s = 1 .. Len(s)
      /\ DOMAIN t = 1 .. Len(t)
      /\ Len(s) \in Nat /\ Len(t) \in Nat
  BY <1>1, LenProperties
<1>3. \A i \in DOMAIN s, j \in DOMAIN t : s[i] # t[j]
  BY DEF ToSet
<1>4. QED
  BY <1>1, <1>2, <1>3 DEF Distinct

(* Cutting a table splits what it names into the kept and the released ids. *)
LEMMA CutTable ==
  ASSUME NEW S, NEW s \in Seq(S), Distinct(s), NEW k \in 0 .. Len(s)
  PROVE  /\ SubSeq(s, 1, k) \in Seq(S)
         /\ SubSeq(s, k + 1, Len(s)) \in Seq(S)
         /\ Distinct(SubSeq(s, 1, k))
         /\ ToSet(SubSeq(s, k + 1, Len(s))) \subseteq ToSet(s)
         /\ ToSet(SubSeq(s, 1, k)) = ToSet(s) \ ToSet(SubSeq(s, k + 1, Len(s)))
<1> DEFINE a == SubSeq(s, 1, k)
           b == SubSeq(s, k + 1, Len(s))
<1>1. /\ Len(s) \in Nat
      /\ DOMAIN s = 1 .. Len(s)
      /\ \A i \in 1 .. Len(s) : s[i] \in S
  BY LenProperties, ElementOfSeq
<1>2. /\ a \in Seq(S)
      /\ Len(a) = k
      /\ \A i \in 1 .. k : a[i] = s[i]
  BY <1>1, SubSeqProperties
<1>3. /\ b \in Seq(S)
      /\ Len(b) = Len(s) - k
      /\ \A i \in 1 .. Len(s) - k : b[i] = s[i + k]
  <2>1. k + 1 \in Int /\ \A i \in k + 1 .. Len(s) : s[i] \in S
    BY <1>1
  <2>2. /\ b \in Seq(S)
        /\ Len(b) = IF k + 1 <= Len(s) THEN Len(s) - (k + 1) + 1 ELSE 0
        /\ \A i \in 1 .. Len(s) - (k + 1) + 1 : b[i] = s[(k + 1) + i - 1]
    BY <1>1, <2>1, SubSeqProperties
  <2> HIDE DEF b
  <2>3. Len(s) \in Nat /\ Len(b) = IF k + 1 <= Len(s) THEN Len(s) - (k + 1) + 1 ELSE 0
    BY <1>1, <2>2
  <2>4. Len(b) = Len(s) - k
    BY <2>3
  <2>5. ASSUME NEW i \in 1 .. Len(s) - k PROVE b[i] = s[i + k]
    <3>1. i \in 1 .. Len(s) - (k + 1) + 1 /\ (k + 1) + i - 1 = i + k
      BY <1>1
    <3>2. QED BY <2>2, <3>1
  <2>6. QED BY <2>2, <2>4, <2>5
<1> HIDE DEF a, b
<1>4. DOMAIN a = 1 .. k /\ DOMAIN b = 1 .. Len(s) - k
  BY <1>2, <1>3, LenProperties
<1>5. Distinct(a)
  BY <1>1, <1>2, <1>4 DEF Distinct
<1>6. ToSet(b) \subseteq ToSet(s)
  <2> SUFFICES ASSUME NEW i \in 1 .. Len(s) - k
               PROVE  b[i] \in ToSet(s)
    BY <1>4 DEF ToSet
  <2>1. i + k \in DOMAIN s /\ b[i] = s[i + k]
    BY <1>1, <1>3
  <2>2. QED BY <2>1 DEF ToSet
<1>7. ToSet(a) \subseteq ToSet(s) \ ToSet(b)
  <2> SUFFICES ASSUME NEW i \in 1 .. k
               PROVE  a[i] \in ToSet(s) /\ a[i] \notin ToSet(b)
    BY <1>4 DEF ToSet
  <2>1. a[i] = s[i] /\ i \in DOMAIN s
    BY <1>1, <1>2
  <2>2. ASSUME NEW j \in 1 .. Len(s) - k PROVE b[j] # s[i]
    <3>1. j + k \in DOMAIN s /\ j + k # i /\ b[j] = s[j + k]
      BY <1>1, <1>3
    <3>2. QED BY <2>1, <3>1 DEF Distinct
  <2>3. QED BY <1>4, <2>1, <2>2 DEF ToSet
<1>8. ToSet(s) \ ToSet(b) \subseteq ToSet(a)
  <2> SUFFICES ASSUME NEW i \in 1 .. Len(s), s[i] \notin ToSet(b)
               PROVE  s[i] \in ToSet(a)
    BY <1>1 DEF ToSet
  <2>1. CASE i <= k
    BY <1>2, <1>4, <2>1 DEF ToSet
  <2>2. CASE i > k
    <3>1. i - k \in DOMAIN b /\ b[i - k] = s[i]
      BY <1>1, <1>3, <1>4, <2>2
    <3>2. QED BY <3>1 DEF ToSet
  <2>3. QED BY <1>1, <2>1, <2>2
<1>9. QED
  BY <1>2, <1>3, <1>5, <1>6, <1>7, <1>8 DEF a, b

-----------------------------------------------------------------------------
(* Counting holders *)

LEMMA HoldersFinite ==
  ASSUME NEW id
  PROVE  IsFiniteSet(Holders(id)) /\ Cardinality(Holders(id)) \in Nat
<1>1. Holders(id) \in SUBSET Caches
  BY DEF Holders
<1>2. IsFiniteSet(Holders(id))
  BY <1>1, CachesAssumption, FS_Subset
<1>3. QED BY <1>2, FS_CardinalityType

(* One cache comes to name the ids of S: their counts go up by one. *)
LEMMA RetainExact ==
  ASSUME NEW c \in Caches, NEW S \in SUBSET Ids,
         RefcountsExact,
         S \cap ToSet(ids[c]) = {},
         \A d \in Caches \ {c} : ids'[d] = ids[d],
         ToSet(ids'[c]) = ToSet(ids[c]) \cup S,
         refs' = Retain(S)
  PROVE  RefcountsExact'
<1> SUFFICES ASSUME NEW id \in Ids
             PROVE  refs'[id] = Cardinality(Holders(id)')
  BY DEF RefcountsExact
<1>1. refs[id] = Cardinality(Holders(id))
  BY DEF RefcountsExact
<1>2. CASE id \in S
  <2>1. c \notin Holders(id) /\ Holders(id)' = Holders(id) \cup {c}
    BY <1>2 DEF Holders
  <2>2. Cardinality(Holders(id) \cup {c}) = Cardinality(Holders(id)) + 1
    BY <2>1, HoldersFinite, FS_AddElement
  <2>3. refs'[id] = refs[id] + 1
    BY <1>2 DEF Retain
  <2>4. QED BY <1>1, <2>1, <2>2, <2>3
<1>3. CASE id \notin S
  <2>1. Holders(id)' = Holders(id)
    BY <1>3 DEF Holders
  <2>2. refs'[id] = refs[id]
    BY <1>3 DEF Retain
  <2>3. QED BY <1>1, <2>1, <2>2
<1>4. QED BY <1>2, <1>3

(* One cache stops naming the ids of S: their counts go down by one. *)
LEMMA ReleaseExact ==
  ASSUME NEW c \in Caches, NEW S \in SUBSET Ids,
         RefcountsExact,
         S \subseteq ToSet(ids[c]),
         \A d \in Caches \ {c} : ids'[d] = ids[d],
         ToSet(ids'[c]) = ToSet(ids[c]) \ S,
         refs' = Release(S)
  PROVE  RefcountsExact' /\ refs' \in [Ids -> Nat]
<1>1. ASSUME NEW id \in Ids
      PROVE  refs'[id] = Cardinality(Holders(id)') /\ refs'[id] \in Nat
  <2>1. refs[id] = Cardinality(Holders(id)) /\ refs[id] \in Nat
    BY HoldersFinite DEF RefcountsExact
  <2>2. CASE id \in S
    <3>1. c \in Holders(id) /\ Holders(id)' = Holders(id) \ {c}
      BY <2>2 DEF Holders
    <3>2. /\ Cardinality(Holders(id) \ {c}) = Cardinality(Holders(id)) - 1
          /\ IsFiniteSet(Holders(id) \ {c})
      BY <3>1, HoldersFinite, FS_RemoveElement
    <3>3. Cardinality(Holders(id) \ {c}) \in Nat
      BY <3>2, FS_CardinalityType
    <3>4. refs'[id] = refs[id] - 1
      BY <2>2 DEF Release
    <3>5. QED BY <2>1, <3>1, <3>2, <3>3, <3>4
  <2>3. CASE id \notin S
    <3>1. Holders(id)' = Holders(id)
      BY <2>3 DEF Holders
    <3>2. refs'[id] = refs[id]
      BY <2>3 DEF Release
    <3>3. QED BY <2>1, <3>1, <3>2
  <2>4. QED BY <2>2, <2>3
<1>2. refs' \in [Ids -> Nat]
  BY <1>1 DEF Release
<1>3. QED BY <1>1, <1>2 DEF RefcountsExact

(* No count above zero, no holder. *)
LEMMA UncountedUnheld ==
  ASSUME NEW id \in Ids, RefcountsExact, refs[id] = 0, NEW c \in Caches
  PROVE  id \notin ToSet(ids[c])
<1>1. Holders(id) = {}
  BY HoldersFinite, FS_EmptySet DEF RefcountsExact
<1>2. QED BY <1>1 DEF Holders

(* Fresh ids: distinct, uncounted, and numbered below the new mint mark. *)
LEMMA AllocFresh ==
  ASSUME PoolInv, NEW n \in Nat, NEW s \in AllocIds(n), ToSet(s) \subseteq Ids
  PROVE  /\ s \in Seq(Ids)
         /\ Distinct(s)
         /\ \A id \in ToSet(s) : refs[id] = 0
         /\ Reused(n) \in 0 .. n
         /\ \A id \in ToSet(s) : id < minted + n - Reused(n)
<1>0. Reused(n) \in 0 .. n
  <2>1. FreeIds \in SUBSET (0 .. minted - 1) /\ minted \in Nat
    BY DEF FreeIds, PoolInv, PoolType
  <2>2. IsFiniteSet(0 .. minted - 1)
    BY <2>1, FS_Interval
  <2>3. IsFiniteSet(FreeIds)
    BY <2>1, <2>2, FS_Subset
  <2>4. Cardinality(FreeIds) \in Nat
    BY <2>3, FS_CardinalityType
  <2>5. QED BY <2>4 DEF Reused
<1>1. /\ s \in [1 .. n -> FreeIds \cup (minted .. minted + n - Reused(n) - 1)]
      /\ \A i, j \in 1 .. n : s[i] = s[j] => i = j
  BY DEF AllocIds
<1>2. DOMAIN s = 1 .. n
  BY <1>1
<1>3. \A i \in 1 .. n : s[i] \in Ids
  BY <1>2 DEF ToSet
<1>4. s \in [1 .. n -> Ids]
  BY <1>1, <1>3
<1>5. s \in Seq(Ids)
  BY <1>4, SeqDef
<1>6. Distinct(s)
  BY <1>1, <1>2 DEF Distinct
<1>7. ASSUME NEW id \in ToSet(s) PROVE refs[id] = 0
  <2>1. PICK i \in 1 .. n : s[i] = id
    BY <1>2 DEF ToSet
  <2>2. id \in FreeIds \/ id \in minted .. minted + n - Reused(n) - 1
    BY <1>1, <2>1
  <2>3. CASE id \in FreeIds
    BY <2>3 DEF FreeIds
  <2>4. CASE id \in minted .. minted + n - Reused(n) - 1
    <3>1. id \in Ids /\ minted \in Nat /\ id >= minted
      BY <1>3, <2>1, <2>4 DEF PoolInv, PoolType
    <3>2. refs[id] \in Nat /\ ~(refs[id] > 0)
      BY <3>1 DEF PoolInv, PoolType, CountedAreMinted, Ids
    <3>3. QED BY <3>2
  <2>5. QED BY <2>2, <2>3, <2>4
<1>8. ASSUME NEW id \in ToSet(s) PROVE id < minted + n - Reused(n)
  <2>1. PICK i \in 1 .. n : s[i] = id
    BY <1>2 DEF ToSet
  <2>2. id \in FreeIds \/ id \in minted .. minted + n - Reused(n) - 1
    BY <1>1, <2>1
  <2>3. minted \in Nat
    BY DEF PoolInv, PoolType
  <2>4. QED BY <1>0, <2>2, <2>3 DEF FreeIds
<1>9. QED BY <1>0, <1>5, <1>6, <1>7, <1>8

-----------------------------------------------------------------------------
(* The inductive invariant *)

LEMMA PoolInit == Init => PoolInv
<1> SUFFICES ASSUME Init PROVE PoolInv
  OBVIOUS
<1>1. PoolType
  BY EmptySeq DEF Init, PoolType
<1>2. TablesDistinct /\ DeadHoldNothing /\ CountedAreMinted
  BY DEF Init, TablesDistinct, Distinct, DeadHoldNothing, CountedAreMinted
<1>3. \A id \in Ids : Holders(id) = {} /\ refs[id] = 0
  BY DEF Init, Holders, ToSet
<1>4. RefcountsExact
  BY <1>3, FS_EmptySet DEF RefcountsExact
<1>5. QED BY <1>1, <1>2, <1>4 DEF PoolInv

(* A step that touches no table, no count and no offer. *)
LEMMA PoolUnchanged ==
  ASSUME PoolInv, UNCHANGED <<ids, refs, minted, offer>>,
         live \subseteq live', live' \subseteq Caches, tailLen' \in [Caches -> Nat]
  PROVE  PoolInv'
<1>1. PoolType' /\ TablesDistinct' /\ DeadHoldNothing' /\ CountedAreMinted'
  BY DEF PoolInv, PoolType, TablesDistinct, DeadHoldNothing, CountedAreMinted, Distinct
<1>2. RefcountsExact'
  BY DEF PoolInv, RefcountsExact, Holders
<1>3. QED BY <1>1, <1>2 DEF PoolInv

(* A table is cut to its first k ids and the others are released. *)
LEMMA PoolRelease ==
  ASSUME PoolInv, NEW c \in Caches, NEW k \in 0 .. Len(ids[c]),
         ids' = [ids EXCEPT ![c] = SubSeq(ids[c], 1, k)],
         ReleaseBlocks(ToSet(SubSeq(ids[c], k + 1, Len(ids[c])))),
         tailLen' \in [Caches -> Nat],
         live' = live \/ (live' = live \ {c} /\ k = 0)
  PROVE  PoolInv'
<1> DEFINE S == ToSet(SubSeq(ids[c], k + 1, Len(ids[c])))
<1>1. ids[c] \in Seq(Ids) /\ Distinct(ids[c])
  BY DEF PoolInv, PoolType, TablesDistinct
<1>2. /\ SubSeq(ids[c], 1, k) \in Seq(Ids)
      /\ Distinct(SubSeq(ids[c], 1, k))
      /\ S \subseteq ToSet(ids[c])
      /\ ToSet(SubSeq(ids[c], 1, k)) = ToSet(ids[c]) \ S
  BY <1>1, CutTable
<1>3. S \in SUBSET Ids
  BY <1>1, <1>2, LenProperties, ElementOfSeq DEF ToSet
<1> HIDE DEF S
<1>4. /\ ids' \in [Caches -> Seq(Ids)]
      /\ ids'[c] = SubSeq(ids[c], 1, k)
      /\ \A d \in Caches \ {c} : ids'[d] = ids[d]
  BY <1>2 DEF PoolInv, PoolType
<1>5. /\ refs' = Release(S)
      /\ offer' \in {<<>>, offer}
      /\ minted' = minted
  BY DEF S, ReleaseBlocks, OfferAfterRelease
<1>6. RefcountsExact' /\ refs' \in [Ids -> Nat]
  <2>1. ToSet(ids'[c]) = ToSet(ids[c]) \ S
    BY <1>2, <1>4
  <2>2. \A d \in Caches \ {c} : ids'[d] = ids[d]
    BY <1>4
  <2>3. S \subseteq ToSet(ids[c]) /\ refs' = Release(S) /\ RefcountsExact
    BY <1>2, <1>5 DEF PoolInv
  <2>4. QED BY <1>3, <2>1, <2>2, <2>3, ReleaseExact
<1>7. offer' \in Seq(Ids) /\ Distinct(offer')
  <2>1. offer \in Seq(Ids) /\ Distinct(offer)
    BY DEF PoolInv, PoolType, TablesDistinct
  <2>2. <<>> \in Seq(Ids) /\ Distinct(<<>>)
    BY EmptySeq DEF Distinct
  <2>3. QED BY <1>5, <2>1, <2>2
<1>8. PoolType'
  BY <1>4, <1>5, <1>6, <1>7 DEF PoolInv, PoolType
<1>9. TablesDistinct'
  BY <1>2, <1>4, <1>7 DEF PoolInv, TablesDistinct
<1>10. DeadHoldNothing'
  <2>1. k = 0 => ids'[c] = <<>>
    BY <1>4, SubSeqEmpty
  <2>2. QED BY <1>4, <2>1 DEF PoolInv, DeadHoldNothing
<1>11. CountedAreMinted'
  <2> SUFFICES ASSUME NEW id \in Ids, refs'[id] > 0 PROVE id < minted
    BY <1>5 DEF CountedAreMinted
  <2>1. refs[id] \in Nat /\ refs'[id] \in {refs[id], refs[id] - 1}
    BY <1>5 DEF Release, PoolInv, PoolType
  <2>2. refs[id] > 0
    BY <2>1
  <2>3. QED BY <2>2 DEF PoolInv, CountedAreMinted
<1>12. QED BY <1>6, <1>8, <1>9, <1>10, <1>11 DEF PoolInv

(* A table grows by ids no table names and no offer is made. *)
LEMMA PoolRetain ==
  ASSUME PoolInv, NEW c \in live', NEW s \in Seq(Ids),
         Distinct(s), ToSet(s) \cap ToSet(ids[c]) = {},
         ids' = [ids EXCEPT ![c] = ids[c] \o s],
         refs' = Retain(ToSet(s)),
         offer' = offer,
         minted' \in Nat, minted <= minted',
         \A id \in ToSet(s) : id < minted',
         live \subseteq live', live' \subseteq Caches,
         tailLen' \in [Caches -> Nat]
  PROVE  PoolInv'
<1>1. c \in Caches /\ ids[c] \in Seq(Ids) /\ Distinct(ids[c])
  BY DEF PoolInv, PoolType, TablesDistinct
<1>2. /\ ids[c] \o s \in Seq(Ids)
      /\ ToSet(ids[c] \o s) = ToSet(ids[c]) \cup ToSet(s)
      /\ Distinct(ids[c] \o s)
  BY <1>1, ConcatProperties, ToSetConcat, DistinctConcat
<1>3. ToSet(s) \in SUBSET Ids
  BY LenProperties, ElementOfSeq DEF ToSet
<1>4. /\ ids' \in [Caches -> Seq(Ids)]
      /\ ids'[c] = ids[c] \o s
      /\ \A d \in Caches \ {c} : ids'[d] = ids[d]
  BY <1>1, <1>2 DEF PoolInv, PoolType
<1>5. RefcountsExact'
  <2>1. RefcountsExact
    BY DEF PoolInv
  <2>2. ToSet(ids'[c]) = ToSet(ids[c]) \cup ToSet(s)
    BY <1>2, <1>4
  <2>3. \A d \in Caches \ {c} : ids'[d] = ids[d]
    BY <1>4
  <2>4. QED BY <1>1, <1>3, <2>1, <2>2, <2>3, RetainExact
<1>6. refs' \in [Ids -> Nat]
  BY DEF Retain, PoolInv, PoolType
<1>7. PoolType'
  BY <1>4, <1>6 DEF PoolInv, PoolType
<1>8. TablesDistinct'
  <2>1. \A d \in Caches : Distinct(ids'[d])
    BY <1>2, <1>4 DEF PoolInv, TablesDistinct
  <2>2. QED BY <2>1 DEF PoolInv, TablesDistinct
<1>9. DeadHoldNothing'
  BY <1>4 DEF PoolInv, DeadHoldNothing
<1>10. CountedAreMinted'
  <2> SUFFICES ASSUME NEW id \in Ids, refs'[id] > 0 PROVE id < minted'
    BY DEF CountedAreMinted
  <2>1. CASE id \in ToSet(s)
    BY <2>1
  <2>2. CASE id \notin ToSet(s)
    <3>1. refs[id] > 0
      BY <2>2 DEF Retain
    <3>2. id < minted /\ minted \in Nat /\ id \in Int
      BY <3>1 DEF PoolInv, PoolType, CountedAreMinted, Ids
    <3>3. QED BY <3>2
  <2>3. QED BY <2>1, <2>2
<1>11. QED BY <1>5, <1>7, <1>8, <1>9, <1>10 DEF PoolInv

LEMMA WholeBlocks ==
  ASSUME NEW n \in Nat
  PROVE  /\ n \div BlockSize \in Nat
         /\ n - (n \div BlockSize) * BlockSize \in 0 .. BlockSize - 1
BY BlockSizeAssumption

-----------------------------------------------------------------------------
(* Each operation preserves PoolInv *)

LEMMA PoolNewSeeded ==
  ASSUME PoolInv, NEW c \in Caches, NewSeeded(c)
  PROVE  PoolInv'
<1>1. ids[c] = <<>> /\ offer \in Seq(Ids) /\ Distinct(offer)
  BY DEF PoolInv, PoolType, TablesDistinct, DeadHoldNothing, NewSeeded
<1>2. ids[c] \o offer = offer
  BY <1>1, ConcatEmptySeq
<1>3. ToSet(offer) \cap ToSet(ids[c]) = {}
  BY <1>1 DEF ToSet
<1>4. minted' \in Nat /\ minted <= minted' /\ minted' = minted
  BY DEF PoolInv, PoolType, NewSeeded
<1>5. \A id \in ToSet(offer) : id < minted'
  <2>1. \A id \in ToSet(offer) : id \in Ids
    BY <1>1, LenProperties, ElementOfSeq DEF ToSet
  <2>2. QED BY <1>4, <2>1 DEF PoolInv, CountedAreMinted, NewSeeded
<1>6. /\ c \in live' /\ live \subseteq live' /\ live' \subseteq Caches
      /\ tailLen' \in [Caches -> Nat]
      /\ offer' = offer
      /\ refs' = Retain(ToSet(offer))
  BY DEF NewSeeded, PoolInv, PoolType
<1>7. ids' = [ids EXCEPT ![c] = ids[c] \o offer]
  BY <1>2 DEF NewSeeded
<1>8. QED BY <1>1, <1>3, <1>4, <1>5, <1>6, <1>7, PoolRetain

LEMMA PoolUpdateTail ==
  ASSUME PoolInv, NEW c \in live, NEW new \in Chunks, NEW l, UpdateTail(c, l, new)
  PROVE  PoolInv'
<1>1. Len(new) \in Nat /\ c \in Caches
  BY ChunksAssumption, LenProperties DEF PoolInv, PoolType
<1>2. tailLen' \in [Caches -> Nat]
  <2>1. tailLen \in [Caches -> Nat] /\ tailLen[c] + Len(new) \in Nat
    BY <1>1 DEF PoolInv, PoolType
  <2>2. tailLen' = [tailLen EXCEPT ![c] = tailLen[c] + Len(new)] \/ tailLen' = tailLen
    BY DEF UpdateTail
  <2>3. QED BY <2>1, <2>2
<1>3. UNCHANGED <<ids, refs, minted, offer, live>>
  BY DEF UpdateTail, poolVars
<1>4. live \subseteq live' /\ live' \subseteq Caches
  BY <1>3 DEF PoolInv, PoolType
<1>5. QED BY <1>2, <1>3, <1>4, PoolUnchanged

LEMMA PoolUpdateFreeze ==
  ASSUME PoolInv, NEW c \in live, NEW new \in Chunks, NEW l, UpdateFreeze(c, l, new)
  PROVE  PoolInv'
<1> DEFINE newLen == tailLen[c] + Len(new)
           full == newLen \div BlockSize
<1>1. /\ c \in Caches
      /\ newLen \in Nat
  BY ChunksAssumption, LenProperties DEF PoolInv, PoolType
<1>2. full \in Nat /\ newLen - full * BlockSize \in Nat
  <2> HIDE DEF newLen
  <2>1. QED BY <1>1, WholeBlocks, BlockSizeAssumption
<1>3. /\ tailLen' = [tailLen EXCEPT ![c] = newLen - full * BlockSize]
      /\ live' = live
      /\ offer' = offer
  BY DEF UpdateFreeze
<1>4. PICK s \in AllocIds(full) :
        /\ ToSet(s) \subseteq Ids
        /\ ids' = [ids EXCEPT ![c] = ids[c] \o s]
        /\ refs' = Retain(ToSet(s))
        /\ minted' = minted + full - Reused(full)
  BY DEF UpdateFreeze
<1> HIDE DEF full, newLen
<1>5. /\ s \in Seq(Ids)
      /\ Distinct(s)
      /\ \A id \in ToSet(s) : refs[id] = 0
      /\ Reused(full) \in 0 .. full
      /\ \A id \in ToSet(s) : id < minted + full - Reused(full)
  BY <1>2, <1>4, AllocFresh
<1>6. ToSet(s) \cap ToSet(ids[c]) = {}
  BY <1>1, <1>4, <1>5, UncountedUnheld DEF PoolInv
<1>7. minted' \in Nat /\ minted <= minted'
  <2>1. minted \in Nat
    BY DEF PoolInv, PoolType
  <2>2. QED BY <1>2, <1>4, <1>5, <2>1
<1>8. tailLen' \in [Caches -> Nat]
  BY <1>1, <1>2, <1>3 DEF PoolInv, PoolType
<1>9. c \in live' /\ live \subseteq live' /\ live' \subseteq Caches
  BY <1>3 DEF PoolInv, PoolType
<1>10. \A id \in ToSet(s) : id < minted'
  BY <1>4, <1>5
<1>11. QED BY <1>3, <1>4, <1>5, <1>6, <1>7, <1>8, <1>9, <1>10, PoolRetain

LEMMA PoolTruncateTail ==
  ASSUME PoolInv, NEW c \in live, NEW len \in 0 .. MaxLen, TruncateTail(c, len)
  PROVE  PoolInv'
<1> DEFINE rem == len - Len(ids[c]) * BlockSize
<1>1. Len(ids[c]) \in Nat
  BY LenProperties DEF PoolInv, PoolType
<1>2. rem \in Nat
  BY <1>1, BlockSizeAssumption, BoundsAssumption DEF TruncateTail
<1> HIDE DEF rem
<1>3. tailLen' \in [Caches -> Nat]
  BY <1>2 DEF TruncateTail, PoolInv, PoolType, rem
<1>4. UNCHANGED <<ids, refs, minted, offer>> /\ live \subseteq live' /\ live' \subseteq Caches
  BY DEF TruncateTail, poolVars, PoolInv, PoolType
<1>5. QED BY <1>3, <1>4, PoolUnchanged

LEMMA PoolTruncateBlocks ==
  ASSUME PoolInv, NEW c \in live, NEW len \in 0 .. MaxLen, TruncateBlocks(c, len)
  PROVE  PoolInv'
<1> DEFINE keep == len \div BlockSize
<1>1. Len(ids[c]) \in Nat /\ c \in Caches
  BY LenProperties DEF PoolInv, PoolType
<1>2. keep \in Nat /\ len - keep * BlockSize \in Nat
  BY WholeBlocks, BoundsAssumption, BlockSizeAssumption
<1>3. /\ keep < Len(ids[c])
      /\ tailLen' = [tailLen EXCEPT ![c] = len - keep * BlockSize]
      /\ ids' = [ids EXCEPT ![c] = SubSeq(ids[c], 1, keep)]
      /\ ReleaseBlocks(ToSet(SubSeq(ids[c], keep + 1, Len(ids[c]))))
      /\ live' = live
  BY DEF TruncateBlocks
<1> HIDE DEF keep
<1>4. keep \in 0 .. Len(ids[c])
  BY <1>1, <1>2, <1>3
<1>5. tailLen' \in [Caches -> Nat]
  BY <1>2, <1>3 DEF PoolInv, PoolType
<1>6. QED BY <1>1, <1>3, <1>4, <1>5, PoolRelease

(* Reset and Drop release the whole table. *)
LEMMA PoolReleaseAll ==
  ASSUME PoolInv, NEW c \in Caches,
         ids' = [ids EXCEPT ![c] = <<>>],
         tailLen' = [tailLen EXCEPT ![c] = 0],
         live' = live \/ live' = live \ {c},
         ReleaseBlocks(ToSet(ids[c]))
  PROVE  PoolInv'
<1>1. ids[c] \in Seq(Ids) /\ Len(ids[c]) \in Nat
  BY LenProperties DEF PoolInv, PoolType
<1>2. SubSeq(ids[c], 1, 0) = <<>> /\ SubSeq(ids[c], 0 + 1, Len(ids[c])) = ids[c]
  BY <1>1, SubSeqEmpty, SubSeqFull
<1>3. 0 \in 0 .. Len(ids[c])
  BY <1>1
<1>4. tailLen' \in [Caches -> Nat]
  BY DEF PoolInv, PoolType
<1>5. QED BY <1>2, <1>3, <1>4, PoolRelease

LEMMA PoolShareable ==
  ASSUME PoolInv, NEW c \in live, NEW n \in 1 .. MaxBlocks, ShareablePrefixBlocks(c, n)
  PROVE  PoolInv'
<1>1. c \in Caches /\ ids[c] \in Seq(Ids) /\ Distinct(ids[c]) /\ Len(ids[c]) \in Nat
  BY LenProperties DEF PoolInv, PoolType, TablesDistinct
<1>2. n \in 0 .. Len(ids[c])
  BY <1>1 DEF ShareablePrefixBlocks
<1>3. offer' \in Seq(Ids) /\ Distinct(offer')
  BY <1>1, <1>2, CutTable DEF ShareablePrefixBlocks
<1>4. UNCHANGED <<live, ids, tailLen, refs, minted>>
  BY DEF ShareablePrefixBlocks
<1>5. PoolType' /\ TablesDistinct'
  BY <1>3, <1>4 DEF PoolInv, PoolType, TablesDistinct, Distinct
<1>6. DeadHoldNothing' /\ CountedAreMinted' /\ RefcountsExact'
  BY <1>4 DEF PoolInv, DeadHoldNothing, CountedAreMinted, RefcountsExact, Holders
<1>7. QED BY <1>5, <1>6 DEF PoolInv

LEMMA PoolNext == PoolInv /\ [Next]_vars => PoolInv'
<1> SUFFICES ASSUME PoolInv, [Next]_vars PROVE PoolInv'
  OBVIOUS
<1>1. CASE UNCHANGED vars
  BY <1>1, PoolUnchanged DEF vars, PoolInv, PoolType
<1>2. CASE Next
  <2>1. PICK c \in Caches :
          \/ NewCache(c)
          \/ NewSeeded(c)
          \/ \E new \in Chunks : Update(c, new)
          \/ \E len \in 0 .. MaxLen : Truncate(c, len)
          \/ Reset(c)
          \/ \E n \in 1 .. MaxBlocks : ShareablePrefixBlocks(c, n)
          \/ Drop(c)
    BY <1>2 DEF Next
  <2>2. CASE NewCache(c)
    BY <2>2, PoolUnchanged DEF NewCache, PoolInv, PoolType
  <2>3. CASE NewSeeded(c)
    BY <2>3, PoolNewSeeded
  <2>4. ASSUME NEW new \in Chunks, Update(c, new) PROVE PoolInv'
    BY <2>4, PoolUpdateTail, PoolUpdateFreeze DEF Update
  <2>5. ASSUME NEW len \in 0 .. MaxLen, Truncate(c, len) PROVE PoolInv'
    BY <2>5, PoolTruncateTail, PoolTruncateBlocks DEF Truncate
  <2>6. CASE Reset(c)
    BY <2>6, PoolReleaseAll DEF Reset
  <2>7. ASSUME NEW n \in 1 .. MaxBlocks, ShareablePrefixBlocks(c, n) PROVE PoolInv'
    BY <2>7, PoolShareable DEF ShareablePrefixBlocks
  <2>8. CASE Drop(c)
    BY <2>8, PoolReleaseAll DEF Drop
  <2>9. QED BY <2>1, <2>2, <2>3, <2>4, <2>5, <2>6, <2>7, <2>8
<1>3. QED BY <1>1, <1>2

(* The count of every block is the number of caches that hold it, for any    *)
(* number of caches and blocks and any block size: no block is recycled      *)
(* under a reader and none leaks.                                            *)
THEOREM SpecRefcountsExact == Spec => []RefcountsExact
<1>1. PoolInv => RefcountsExact
  BY DEF PoolInv
<1>2. QED BY <1>1, PoolInit, PoolNext, PTL DEF Spec

-----------------------------------------------------------------------------
(* Sharing is by prefix *)

(* Two tables that share a block share it where it is, with all before it.   *)
Agree(s, t) ==
  \A i \in DOMAIN s, j \in DOMAIN t :
    s[i] = t[j] => i = j /\ \A k \in 1 .. i : s[k] = t[k]

(* An offer is a table without a reference: it must agree with the tables    *)
(* too, and stay allocated, so that no later block takes over one of its ids.*)
OfferLive == \A id \in ToSet(offer) : refs[id] > 0

SharingInv ==
  /\ \A c, d \in Caches : Agree(ids[c], ids[d])
  /\ \A d \in Caches : Agree(offer, ids[d])
  /\ OfferLive

LEMMA AgreeSymmetric ==
  ASSUME NEW S, NEW s \in Seq(S), NEW t \in Seq(S), Agree(s, t)
  PROVE  Agree(t, s)
BY DEF Agree

LEMMA AgreeWithItself ==
  ASSUME NEW s, Distinct(s)
  PROVE  Agree(s, s)
BY DEF Agree, Distinct

LEMMA AgreeCut ==
  ASSUME NEW S, NEW s \in Seq(S), NEW t \in Seq(S), Agree(s, t), NEW k \in 0 .. Len(s)
  PROVE  Agree(SubSeq(s, 1, k), t)
<1> DEFINE a == SubSeq(s, 1, k)
<1>1. Len(s) \in Nat /\ DOMAIN s = 1 .. Len(s) /\ \A i \in 1 .. Len(s) : s[i] \in S
  BY LenProperties, ElementOfSeq
<1>2. a \in Seq(S) /\ Len(a) = k /\ \A i \in 1 .. k : a[i] = s[i]
  BY <1>1, SubSeqProperties
<1>3. DOMAIN a = 1 .. k
  BY <1>2, LenProperties
<1> HIDE DEF a
<1>4. ASSUME NEW i \in 1 .. k, NEW j \in DOMAIN t, a[i] = t[j]
      PROVE  i = j /\ \A n \in 1 .. i : a[n] = t[n]
  <2>1. i \in DOMAIN s /\ s[i] = t[j]
    BY <1>1, <1>2, <1>4
  <2>2. i = j /\ \A n \in 1 .. i : s[n] = t[n]
    BY <2>1 DEF Agree
  <2>3. \A n \in 1 .. i : n \in 1 .. k
    BY <1>1
  <2>4. QED BY <1>2, <2>2, <2>3
<1>5. Agree(a, t)
  BY <1>3, <1>4 DEF Agree
<1>6. QED BY <1>5 DEF a

LEMMA AgreeGrown ==
  ASSUME NEW S, NEW s \in Seq(S), NEW t \in Seq(S), NEW f \in Seq(S),
         Agree(s, t), ToSet(f) \cap ToSet(t) = {}
  PROVE  Agree(s \o f, t)
<1> DEFINE a == s \o f
<1>1. /\ Len(s) \in Nat /\ DOMAIN s = 1 .. Len(s)
      /\ Len(f) \in Nat /\ DOMAIN f = 1 .. Len(f)
  BY LenProperties
<1>2. /\ a \in Seq(S) /\ Len(a) = Len(s) + Len(f)
      /\ \A i \in 1 .. Len(s) + Len(f) : a[i] = IF i <= Len(s) THEN s[i] ELSE f[i - Len(s)]
  BY ConcatProperties
<1>3. DOMAIN a = 1 .. Len(s) + Len(f)
  BY <1>2, LenProperties
<1> HIDE DEF a
<1>4. ASSUME NEW i \in 1 .. Len(s) + Len(f), NEW j \in DOMAIN t, a[i] = t[j]
      PROVE  i = j /\ \A n \in 1 .. i : a[n] = t[n]
  <2>1. CASE i <= Len(s)
    <3>1. i \in DOMAIN s /\ s[i] = t[j]
      BY <1>1, <1>2, <1>4, <2>1
    <3>2. i = j /\ \A n \in 1 .. i : s[n] = t[n]
      BY <3>1 DEF Agree
    <3>3. \A n \in 1 .. i : n \in 1 .. Len(s) + Len(f) /\ n <= Len(s)
      BY <1>1, <2>1
    <3>4. QED BY <1>2, <3>2, <3>3
  <2>2. CASE i > Len(s)
    <3>1. i - Len(s) \in DOMAIN f /\ a[i] = f[i - Len(s)]
      BY <1>1, <1>2, <2>2
    <3>2. a[i] \in ToSet(f) /\ t[j] \in ToSet(t)
      BY <3>1 DEF ToSet
    <3>3. QED BY <1>4, <3>2
  <2>3. QED BY <1>1, <2>1, <2>2
<1>5. Agree(a, t)
  BY <1>3, <1>4 DEF Agree
<1>6. QED BY <1>5 DEF a

-----------------------------------------------------------------------------
(* Each operation preserves SharingInv *)

LEMMA PoolFacts ==
  ASSUME PoolInv
  PROVE  /\ \A c \in Caches : ids[c] \in Seq(Ids) /\ Distinct(ids[c])
         /\ offer \in Seq(Ids) /\ Distinct(offer)
         /\ \A id \in Ids : refs[id] \in Nat
         /\ \A c \in Caches : \A id \in ToSet(ids[c]) : id \in Ids /\ refs[id] > 0
         /\ \A id \in ToSet(offer) : id \in Ids
<1>1. /\ \A c \in Caches : ids[c] \in Seq(Ids) /\ Distinct(ids[c])
      /\ offer \in Seq(Ids) /\ Distinct(offer)
      /\ \A id \in Ids : refs[id] \in Nat
  BY DEF PoolInv, PoolType, TablesDistinct
<1>2. ASSUME NEW c \in Caches, NEW id \in ToSet(ids[c]) PROVE id \in Ids /\ refs[id] > 0
  <2>1. id \in Ids
    BY <1>1, LenProperties, ElementOfSeq DEF ToSet
  <2>2. refs[id] # 0
    BY <2>1, UncountedUnheld DEF PoolInv
  <2>3. QED BY <1>1, <2>1, <2>2
<1>3. \A id \in ToSet(offer) : id \in Ids
  BY <1>1, LenProperties, ElementOfSeq DEF ToSet
<1>4. QED BY <1>1, <1>2, <1>3

(* Only the table of one cache changes. *)
LEMMA SharingOneTable ==
  ASSUME PoolInv', SharingInv, NEW c \in Caches,
         \A d \in Caches \ {c} : ids'[d] = ids[d],
         \A d \in Caches \ {c} : Agree(ids'[c], ids[d]),
         Agree(offer', ids'[c]), \A d \in Caches \ {c} : Agree(offer', ids[d]),
         OfferLive'
  PROVE  SharingInv'
<1>1. ASSUME NEW a \in Caches, NEW b \in Caches PROVE Agree(ids'[a], ids'[b])
  <2>1. ids'[a] \in Seq(Ids) /\ ids'[b] \in Seq(Ids) /\ Distinct(ids'[a])
    BY DEF PoolInv, PoolType, TablesDistinct
  <2>2. CASE a = c /\ b = c
    BY <2>1, <2>2, AgreeWithItself
  <2>3. CASE a = c /\ b # c
    BY <2>3
  <2>4. CASE a # c /\ b = c
    <3>1. Agree(ids'[b], ids'[a])
      BY <2>4
    <3>2. QED BY <2>1, <3>1, AgreeSymmetric
  <2>5. CASE a # c /\ b # c
    BY <2>5 DEF SharingInv
  <2>6. QED BY <2>2, <2>3, <2>4, <2>5
<1>2. \A d \in Caches : Agree(offer', ids'[d])
  OBVIOUS
<1>3. QED BY <1>1, <1>2 DEF SharingInv

LEMMA SharingUnchanged ==
  ASSUME SharingInv, UNCHANGED <<ids, refs, offer>>
  PROVE  SharingInv'
BY DEF SharingInv, Agree, OfferLive

(* A table is cut; the offer is forgotten when a block of it is freed. *)
LEMMA SharingRelease ==
  ASSUME PoolInv, PoolInv', SharingInv, ~StaleOffers,
         NEW c \in Caches, NEW k \in 0 .. Len(ids[c]),
         ids' = [ids EXCEPT ![c] = SubSeq(ids[c], 1, k)],
         ReleaseBlocks(ToSet(SubSeq(ids[c], k + 1, Len(ids[c]))))
  PROVE  SharingInv'
<1> DEFINE S == ToSet(SubSeq(ids[c], k + 1, Len(ids[c])))
<1>1. /\ \A d \in Caches : ids[d] \in Seq(Ids)
      /\ offer \in Seq(Ids) /\ \A id \in ToSet(offer) : id \in Ids /\ refs[id] \in Nat
  BY PoolFacts
<1>2. /\ ids'[c] = SubSeq(ids[c], 1, k)
      /\ \A d \in Caches \ {c} : ids'[d] = ids[d]
      /\ ids'[c] \in Seq(Ids)
  BY DEF PoolInv, PoolType
<1>3. /\ refs' = Release(S)
      /\ offer' = IF \E id \in S : id \in ToSet(offer) /\ refs[id] = 1 THEN <<>> ELSE offer
  BY DEF ReleaseBlocks, OfferAfterRelease
<1> HIDE DEF S
<1>4. \A d \in Caches \ {c} : Agree(ids'[c], ids[d])
  BY <1>1, <1>2, AgreeCut DEF SharingInv
<1>5. CASE offer' = <<>>
  <2>1. ToSet(offer') = {} /\ DOMAIN offer' = {}
    BY <1>5 DEF ToSet
  <2>2. OfferLive' /\ Agree(offer', ids'[c]) /\ \A d \in Caches \ {c} : Agree(offer', ids[d])
    BY <2>1 DEF OfferLive, Agree
  <2>3. QED BY <1>2, <1>4, <2>2, SharingOneTable
<1>6. CASE offer' = offer /\ \A id \in S : ~(id \in ToSet(offer) /\ refs[id] = 1)
  <2>1. Agree(offer, ids'[c])
    <3>1. Agree(ids[c], offer)
      BY <1>1, AgreeSymmetric DEF SharingInv
    <3>2. Agree(ids'[c], offer)
      BY <1>1, <1>2, <3>1, AgreeCut
    <3>3. QED BY <1>1, <1>2, <3>2, AgreeSymmetric
  <2>2. OfferLive'
    <3>1. SUFFICES ASSUME NEW id \in ToSet(offer) PROVE refs'[id] > 0
      BY <1>6 DEF OfferLive
    <3>2. id \in Ids /\ refs[id] \in Nat /\ refs[id] > 0
      BY <1>1 DEF SharingInv, OfferLive
    <3>3. id \in S => refs[id] # 1
      BY <1>6
    <3>4. refs'[id] = IF id \in S THEN refs[id] - 1 ELSE refs[id]
      BY <1>3, <3>2 DEF Release
    <3>5. QED BY <3>2, <3>3, <3>4
  <2>3. \A d \in Caches \ {c} : Agree(offer', ids[d])
    BY <1>6 DEF SharingInv
  <2>4. QED BY <1>2, <1>4, <1>6, <2>1, <2>2, <2>3, SharingOneTable
<1>7. QED BY <1>3, <1>5, <1>6

LEMMA SharingReleaseAll ==
  ASSUME PoolInv, PoolInv', SharingInv, ~StaleOffers, NEW c \in Caches,
         ids' = [ids EXCEPT ![c] = <<>>], ReleaseBlocks(ToSet(ids[c]))
  PROVE  SharingInv'
<1>1. ids[c] \in Seq(Ids) /\ Len(ids[c]) \in Nat
  BY PoolFacts, LenProperties
<1>2. SubSeq(ids[c], 1, 0) = <<>> /\ SubSeq(ids[c], 0 + 1, Len(ids[c])) = ids[c]
  BY <1>1, SubSeqEmpty, SubSeqFull
<1>3. 0 \in 0 .. Len(ids[c])
  BY <1>1
<1>4. QED BY <1>2, <1>3, SharingRelease

LEMMA SharingTruncateBlocks ==
  ASSUME PoolInv, PoolInv', SharingInv, ~StaleOffers, NEW c \in live, NEW len \in 0 .. MaxLen,
         TruncateBlocks(c, len)
  PROVE  SharingInv'
<1> DEFINE keep == len \div BlockSize
<1>1. Len(ids[c]) \in Nat /\ c \in Caches
  BY LenProperties DEF PoolInv, PoolType
<1>2. keep \in Nat
  BY WholeBlocks, BoundsAssumption
<1>3. /\ keep < Len(ids[c])
      /\ ids' = [ids EXCEPT ![c] = SubSeq(ids[c], 1, keep)]
      /\ ReleaseBlocks(ToSet(SubSeq(ids[c], keep + 1, Len(ids[c]))))
  BY DEF TruncateBlocks
<1> HIDE DEF keep
<1>4. keep \in 0 .. Len(ids[c])
  BY <1>1, <1>2, <1>3
<1>5. QED BY <1>1, <1>3, <1>4, SharingRelease

(* A freeze extends a table by blocks that nobody holds and nobody offers. *)
LEMMA SharingUpdateFreeze ==
  ASSUME PoolInv, PoolInv', SharingInv, NEW c \in live, NEW new \in Chunks, NEW l,
         UpdateFreeze(c, l, new)
  PROVE  SharingInv'
<1> DEFINE full == (tailLen[c] + Len(new)) \div BlockSize
<1>1. c \in Caches /\ tailLen[c] + Len(new) \in Nat
  BY ChunksAssumption, LenProperties DEF PoolInv, PoolType
<1>2. full \in Nat
  BY <1>1, WholeBlocks
<1>3. offer' = offer
  BY DEF UpdateFreeze
<1>4. PICK s \in AllocIds(full) :
        /\ ToSet(s) \subseteq Ids
        /\ ids' = [ids EXCEPT ![c] = ids[c] \o s]
        /\ refs' = Retain(ToSet(s))
  BY DEF UpdateFreeze
<1> HIDE DEF full
<1>5. s \in Seq(Ids) /\ \A id \in ToSet(s) : refs[id] = 0
  BY <1>2, <1>4, AllocFresh
<1>6. /\ \A d \in Caches : ids[d] \in Seq(Ids)
      /\ offer \in Seq(Ids)
      /\ \A id \in ToSet(offer) : id \in Ids /\ refs[id] \in Nat /\ refs[id] > 0
      /\ \A d \in Caches : \A id \in ToSet(ids[d]) : refs[id] \in Nat /\ refs[id] > 0
  BY PoolFacts DEF SharingInv, OfferLive
<1>7. ToSet(s) \cap ToSet(offer) = {} /\ \A d \in Caches : ToSet(s) \cap ToSet(ids[d]) = {}
  BY <1>5, <1>6
<1>8. ids'[c] = ids[c] \o s /\ \A d \in Caches \ {c} : ids'[d] = ids[d]
  BY <1>1, <1>4 DEF PoolInv, PoolType
<1>9. \A d \in Caches \ {c} : Agree(ids'[c], ids[d])
  <2>1. SUFFICES ASSUME NEW d \in Caches \ {c} PROVE Agree(ids[c] \o s, ids[d])
    BY <1>8
  <2>2. Agree(ids[c], ids[d]) /\ ToSet(s) \cap ToSet(ids[d]) = {}
    BY <1>1, <1>7 DEF SharingInv
  <2>3. QED BY <1>1, <1>5, <1>6, <2>2, AgreeGrown
<1>10. Agree(offer', ids'[c])
  <2>1. Agree(ids[c], offer)
    BY <1>1, <1>6, AgreeSymmetric DEF SharingInv
  <2>2. Agree(ids[c] \o s, offer) /\ ids[c] \o s \in Seq(Ids)
    BY <1>1, <1>5, <1>6, <1>7, <2>1, AgreeGrown, ConcatProperties
  <2>3. Agree(offer, ids[c] \o s)
    BY <1>6, <2>2, AgreeSymmetric
  <2>4. QED BY <1>3, <1>8, <2>3
<1>11. \A d \in Caches \ {c} : Agree(offer', ids[d])
  BY <1>3 DEF SharingInv
<1>12. OfferLive'
  <2>1. SUFFICES ASSUME NEW id \in ToSet(offer) PROVE refs'[id] > 0
    BY <1>3 DEF OfferLive
  <2>2. id \in Ids /\ refs[id] \in Nat /\ refs[id] > 0
    BY <1>6
  <2>3. refs'[id] \in {refs[id], refs[id] + 1}
    BY <1>4, <2>2 DEF Retain
  <2>4. QED BY <2>2, <2>3
<1>13. QED BY <1>1, <1>8, <1>9, <1>10, <1>11, <1>12, SharingOneTable

(* An adopted table is the offer. *)
LEMMA SharingNewSeeded ==
  ASSUME PoolInv, PoolInv', SharingInv, NEW c \in Caches, NewSeeded(c)
  PROVE  SharingInv'
<1>1. offer' = offer /\ refs' = Retain(ToSet(offer)) /\ ids' = [ids EXCEPT ![c] = offer]
  BY DEF NewSeeded
<1>2. ids'[c] = offer /\ \A d \in Caches \ {c} : ids'[d] = ids[d]
  BY <1>1 DEF PoolInv, PoolType
<1>3. Agree(offer, offer)
  BY PoolFacts, AgreeWithItself
<1>4. OfferLive'
  <2>1. SUFFICES ASSUME NEW id \in ToSet(offer) PROVE refs'[id] > 0
    BY <1>1 DEF OfferLive
  <2>2. id \in Ids /\ refs[id] \in Nat /\ refs'[id] = refs[id] + 1
    BY <1>1, PoolFacts DEF Retain
  <2>3. QED BY <2>2
<1>5. \A d \in Caches \ {c} : Agree(offer, ids[d])
  BY DEF SharingInv
<1>6. QED BY <1>1, <1>2, <1>3, <1>4, <1>5, SharingOneTable

(* The offer is the front of a table. *)
LEMMA SharingShareable ==
  ASSUME PoolInv, SharingInv, NEW c \in live, NEW n, ShareablePrefixBlocks(c, n)
  PROVE  SharingInv'
<1>1. /\ c \in Caches /\ ids[c] \in Seq(Ids) /\ Distinct(ids[c]) /\ Len(ids[c]) \in Nat
      /\ \A d \in Caches : ids[d] \in Seq(Ids)
  BY PoolFacts, LenProperties DEF PoolInv, PoolType
<1>2. /\ n \in 0 .. Len(ids[c]) /\ offer' = SubSeq(ids[c], 1, n)
      /\ UNCHANGED <<ids, refs>>
  BY <1>1 DEF ShareablePrefixBlocks
<1>3. \A d \in Caches : Agree(offer', ids[d])
  BY <1>1, <1>2, AgreeCut DEF SharingInv
<1>4. OfferLive'
  <2>1. ToSet(offer') \subseteq ToSet(ids[c])
    BY <1>1, <1>2, CutTable
  <2>2. \A id \in ToSet(ids[c]) : refs[id] > 0
    BY <1>1, PoolFacts
  <2>3. QED BY <1>2, <2>1, <2>2 DEF OfferLive
<1>5. QED BY <1>2, <1>3, <1>4 DEF SharingInv

LEMMA SharingNext ==
  ASSUME ~StaleOffers, PoolInv, PoolInv', SharingInv, [Next]_vars
  PROVE  SharingInv'
<1>1. CASE UNCHANGED vars
  BY <1>1, SharingUnchanged DEF vars
<1>2. CASE Next
  <2>1. PICK c \in Caches :
          \/ NewCache(c)
          \/ NewSeeded(c)
          \/ \E new \in Chunks : Update(c, new)
          \/ \E len \in 0 .. MaxLen : Truncate(c, len)
          \/ Reset(c)
          \/ \E n \in 1 .. MaxBlocks : ShareablePrefixBlocks(c, n)
          \/ Drop(c)
    BY <1>2 DEF Next
  <2>2. CASE NewCache(c)
    BY <2>2, SharingUnchanged DEF NewCache
  <2>3. CASE NewSeeded(c)
    BY <2>3, SharingNewSeeded
  <2>4. ASSUME NEW new \in Chunks, Update(c, new) PROVE SharingInv'
    <3>1. c \in live /\ (UpdateTail(c, layer[c], new) \/ UpdateFreeze(c, layer[c], new))
      BY <2>4 DEF Update
    <3>2. CASE UpdateTail(c, layer[c], new)
      BY <3>2, SharingUnchanged DEF UpdateTail, poolVars
    <3>3. CASE UpdateFreeze(c, layer[c], new)
      BY <3>1, <3>3, SharingUpdateFreeze
    <3>4. QED BY <3>1, <3>2, <3>3
  <2>5. ASSUME NEW len \in 0 .. MaxLen, Truncate(c, len) PROVE SharingInv'
    <3>1. c \in live /\ (TruncateTail(c, len) \/ TruncateBlocks(c, len))
      BY <2>5 DEF Truncate
    <3>2. CASE TruncateTail(c, len)
      BY <3>2, SharingUnchanged DEF TruncateTail, poolVars
    <3>3. CASE TruncateBlocks(c, len)
      BY <3>1, <3>3, SharingTruncateBlocks
    <3>4. QED BY <3>1, <3>2, <3>3
  <2>6. CASE Reset(c)
    BY <2>6, SharingReleaseAll DEF Reset
  <2>7. ASSUME NEW n \in 1 .. MaxBlocks, ShareablePrefixBlocks(c, n) PROVE SharingInv'
    BY <2>7, SharingShareable DEF ShareablePrefixBlocks
  <2>8. CASE Drop(c)
    BY <2>8, SharingReleaseAll DEF Drop
  <2>9. QED BY <2>1, <2>2, <2>3, <2>4, <2>5, <2>6, <2>7, <2>8
<1>3. QED BY <1>1, <1>2

LEMMA SharingInit == Init => SharingInv
<1> SUFFICES ASSUME Init PROVE SharingInv
  OBVIOUS
<1>1. offer = <<>> /\ \A c \in Caches : ids[c] = <<>>
  BY DEF Init
<1>2. QED BY <1>1 DEF SharingInv, Agree, OfferLive, ToSet

(* For any number of caches and blocks and any block size, as long as a      *)
(* caller forgets an offer when one of its blocks is freed: two block tables *)
(* that share a block share it at the same position, with every block before *)
(* it, through any freezes, adoptions, roll-backs and drops.                 *)
THEOREM SpecSharedOnlyAsPrefix == ~StaleOffers => (Spec => []SharedOnlyAsPrefix)
<1> SUFFICES ASSUME ~StaleOffers PROVE Spec => []SharedOnlyAsPrefix
  OBVIOUS
<1>1. ASSUME PoolInv, SharingInv, NEW c \in live, NEW d \in live,
             NEW i \in DOMAIN ids[c], NEW j \in DOMAIN ids[d], ids[c][i] = ids[d][j]
      PROVE  i = j /\ SubSeq(ids[c], 1, i) = SubSeq(ids[d], 1, j)
  <2>1. c \in Caches /\ d \in Caches
    BY <1>1 DEF PoolInv, PoolType
  <2>2. /\ ids[c] \in Seq(Ids) /\ DOMAIN ids[c] = 1 .. Len(ids[c]) /\ Len(ids[c]) \in Nat
        /\ ids[d] \in Seq(Ids) /\ DOMAIN ids[d] = 1 .. Len(ids[d]) /\ Len(ids[d]) \in Nat
    BY <1>1, <2>1, PoolFacts, LenProperties
  <2>3. i = j /\ \A k \in 1 .. i : ids[c][k] = ids[d][k]
    BY <1>1, <2>1 DEF SharingInv, Agree
  <2>4. SubSeq(ids[c], 1, i) = SubSeq(ids[d], 1, j)
    <3> DEFINE a == SubSeq(ids[c], 1, i)
               b == SubSeq(ids[d], 1, j)
    <3>1. /\ a \in Seq(Ids) /\ Len(a) = i /\ \A k \in 1 .. i : a[k] = ids[c][k]
          /\ i \in Nat
      BY <1>1, <2>2, ElementOfSeq, SubSeqProperties
    <3>2. /\ b \in Seq(Ids) /\ Len(b) = j /\ \A k \in 1 .. j : b[k] = ids[d][k]
      BY <1>1, <2>2, ElementOfSeq, SubSeqProperties
    <3> HIDE DEF a, b
    <3>3. a = b
      BY <2>3, <3>1, <3>2, SeqEqual
    <3>4. QED BY <3>3 DEF a, b
  <2>5. QED BY <2>3, <2>4
<1>2. PoolInv /\ SharingInv => SharedOnlyAsPrefix
  BY <1>1 DEF SharedOnlyAsPrefix
<1>3. Init => PoolInv /\ SharingInv
  BY PoolInit, SharingInit
<1>4. PoolInv /\ SharingInv /\ [Next]_vars => PoolInv' /\ SharingInv'
  BY PoolNext, SharingNext
<1>5. QED BY <1>2, <1>3, <1>4, PTL DEF Spec

-----------------------------------------------------------------------------
(***************************************************************************)
(* Proofs about the tensors of PagedKv: how many positions each layer of a  *)
(* cache holds, and that the pool has the bytes of every block a cache may  *)
(* have to rebuild.                                                         *)
(*                                                                          *)
(* The two depend on each other.  A block is published with the slice every *)
(* layer has of it, so that it is not empty only when every layer holds it; *)
(* and a layer that was never built holds what the pool has.                *)
(***************************************************************************)

-----------------------------------------------------------------------------
(* Blocks and positions *)

LEMMA PositionInBlock ==
  ASSUME NEW B \in Nat \ {0}, NEW n \in Nat, NEW q \in Nat, q < n * B
  PROVE  q \div B \in 0 .. n - 1 /\ q % B \in 0 .. B - 1
<1>1. /\ q \div B \in Nat /\ q % B \in 0 .. B - 1
      /\ q = B * (q \div B) + (q % B)
  OBVIOUS
<1> DEFINE d == q \div B
           m == q % B
<1> HIDE DEF d, m
<1>2. d \in Nat /\ m \in Nat /\ q = B * d + m
  BY <1>1 DEF d, m
<1>3. ASSUME d >= n PROVE FALSE
  <2>1. PICK e \in Nat : d = n + e
    <3>1. d - n \in Nat /\ d = n + (d - n)
      BY <1>2, <1>3
    <3>2. QED BY <3>1
  <2>2. B * d = n * B + B * e /\ B * e \in Nat /\ n * B \in Nat
    BY <2>1
  <2>3. QED BY <1>2, <2>2
<1>4. d \in 0 .. n - 1
  BY <1>2, <1>3
<1>5. QED BY <1>1, <1>4 DEF d

LEMMA BlockBounds ==
  ASSUME NEW B \in Nat \ {0}, NEW n \in Nat, NEW i \in 1 .. n
  PROVE  /\ (i - 1) * B \in Nat /\ i * B = (i - 1) * B + B /\ i * B <= n * B /\ n * B \in Nat
<1>1. PICK e \in Nat : n = i + e
  <2>1. n - i \in Nat /\ n = i + (n - i)
    OBVIOUS
  <2>2. QED BY <2>1
<1>2. PICK k \in Nat : i = k + 1 /\ i - 1 = k
  <2>1. i - 1 \in Nat /\ i = (i - 1) + 1
    OBVIOUS
  <2>2. QED BY <2>1
<1>3. k * B \in Nat /\ e * B \in Nat /\ i * B = k * B + B /\ n * B = i * B + e * B
  BY <1>1, <1>2
<1>4. QED BY <1>2, <1>3

LEMMA FunctionIsSeq ==
  ASSUME NEW S, NEW n \in Nat, NEW f \in [1 .. n -> S]
  PROVE  f \in Seq(S) /\ Len(f) = n
<1>1. f \in Seq(S)
  BY SeqDef
<1>2. DOMAIN f = 1 .. n /\ DOMAIN f = 1 .. Len(f) /\ Len(f) \in Nat
  BY <1>1, LenProperties
<1>3. Len(f) = n
  BY <1>2
<1>4. QED BY <1>1, <1>3

LEMMA Joined ==
  ASSUME NEW S, NEW s \in Seq(S), NEW t \in Seq(S)
  PROVE  s \o t \in Seq(S) /\ Len(s \o t) = Len(s) + Len(t) /\ Len(s) \in Nat /\ Len(t) \in Nat
BY ConcatProperties, LenProperties

LEMMA Distributes ==
  ASSUME NEW a \in Nat, NEW b \in Nat, NEW B \in Nat
  PROVE  a * B + b * B = (a + b) * B /\ a * B \in Nat /\ b * B \in Nat
OBVIOUS

(* A slice that lies within the sequence *)
LEMMA Slice ==
  ASSUME NEW S, NEW s \in Seq(S), NEW m \in Nat, NEW n \in Nat, m <= n, n <= Len(s)
  PROVE  SubSeq(s, m + 1, n) \in Seq(S) /\ Len(SubSeq(s, m + 1, n)) = n - m
<1>1. Len(s) \in Nat /\ \A i \in 1 .. Len(s) : s[i] \in S
  BY LenProperties, ElementOfSeq
<1>2. \A i \in m + 1 .. n : s[i] \in S
  BY <1>1
<1>3. m + 1 \in Int /\ n \in Int
  OBVIOUS
<1>4. /\ SubSeq(s, m + 1, n) \in Seq(S)
      /\ Len(SubSeq(s, m + 1, n)) = IF m + 1 <= n THEN n - (m + 1) + 1 ELSE 0
  BY <1>2, <1>3, SubSeqProperties
<1> DEFINE k == Len(SubSeq(s, m + 1, n))
<1> HIDE DEF k
<1>5. k = IF m + 1 <= n THEN n - (m + 1) + 1 ELSE 0
  BY <1>4 DEF k
<1>6. k = n - m
  BY <1>5
<1>7. QED BY <1>4, <1>6 DEF k

-----------------------------------------------------------------------------
(* The invariant *)

(* A layer without its copy of the blocks can build it from the pool; one    *)
(* with it holds all blocks of the table.                                    *)
FrozenWhole(c, l) ==
  /\ frozen[c][l] = <<>> => \A id \in ToSet(ids[c]) : IsMaterialized(id)
  /\ frozen[c][l] # <<>> => Len(frozen[c][l]) = Len(ids[c]) * BlockSize

(* The layers the running pass has updated are ahead by its chunk. *)
TailWhole(c, l) ==
  Len(tail[c][l]) = tailLen[c] + IF l < layer[c] THEN Len(chunk[c]) ELSE 0

DeadClean ==
  \A c \in Caches \ live :
    frozen[c] = EmptySlots /\ tail[c] = EmptySlots /\ tailLen[c] = 0 /\ layer[c] = 0

OfferMaterialized == \A id \in ToSet(offer) : IsMaterialized(id)

LayerInv ==
  /\ TypeOK
  /\ \A c \in Caches, l \in Layers : FrozenWhole(c, l) /\ TailWhole(c, l)
  /\ DeadClean
  /\ OfferMaterialized

LEMMA LayerFacts ==
  ASSUME LayerInv, NEW c \in Caches
  PROVE  /\ ids[c] \in Seq(Ids) /\ Len(ids[c]) \in Nat /\ Len(ids[c]) * BlockSize \in Nat
         /\ tailLen[c] \in 0 .. BlockSize - 1 /\ tailLen[c] \in Nat
         /\ layer[c] \in Layers /\ chunk[c] \in Seq(Content) /\ Len(chunk[c]) \in Nat
         /\ BlockSize \in Nat \ {0} /\ NumLayers \in Nat \ {0}
         /\ \A l \in Layers :
              /\ frozen[c][l] \in Seq(Content) /\ tail[c][l] \in Seq(Content)
              /\ Len(tail[c][l]) \in Nat
<1>1. ids[c] \in Seq(Ids) /\ Len(ids[c]) \in Nat
  BY LenProperties DEF LayerInv, TypeOK
<1>2. BlockSize \in Nat \ {0} /\ NumLayers \in Nat \ {0}
  BY BlockSizeAssumption, NumLayersAssumption
<1>3. tailLen[c] \in 0 .. BlockSize - 1 /\ layer[c] \in Layers
  BY DEF LayerInv, TypeOK
<1>4. chunk[c] \in Seq(Content) /\ Len(chunk[c]) \in Nat
  BY LenProperties DEF LayerInv, TypeOK
<1>5. \A l \in Layers : frozen[c][l] \in Seq(Content) /\ tail[c][l] \in Seq(Content)
  BY DEF LayerInv, TypeOK
<1>6. Len(ids[c]) * BlockSize \in Nat
  BY <1>1, <1>2
<1>7. QED BY <1>1, <1>2, <1>3, <1>4, <1>5, <1>6, LenProperties

(* What the pool gives, or the copy there is: all blocks of the table. *)
LEMMA EnsuredWhole ==
  ASSUME LayerInv, NEW c \in Caches, NEW l \in Layers
  PROVE  /\ EnsureFrozen(c, l) \in Seq(Content)
         /\ Len(EnsureFrozen(c, l)) = Len(ids[c]) * BlockSize
<1> DEFINE n == Len(ids[c])
<1>1. /\ ids[c] \in Seq(Ids) /\ n \in Nat /\ n * BlockSize \in Nat /\ BlockSize \in Nat \ {0}
      /\ frozen[c][l] \in Seq(Content) /\ FrozenWhole(c, l)
  BY LayerFacts DEF LayerInv
<1>2. CASE frozen[c][l] # <<>>
  BY <1>1, <1>2 DEF EnsureFrozen, FrozenWhole
<1>3. CASE frozen[c][l] = <<>>
  <2>1. \A id \in ToSet(ids[c]) : IsMaterialized(id)
    BY <1>1, <1>3 DEF FrozenWhole
  <2>2. ASSUME NEW p \in 1 .. n * BlockSize
        PROVE  bytes[ids[c][((p - 1) \div BlockSize) + 1]][l][((p - 1) % BlockSize) + 1] \in Content
    <3> DEFINE i == ((p - 1) \div BlockSize) + 1
               j == ((p - 1) % BlockSize) + 1
    <3>1. p - 1 \in Nat /\ p - 1 < n * BlockSize
      BY <1>1
    <3>2. (p - 1) \div BlockSize \in 0 .. n - 1 /\ (p - 1) % BlockSize \in 0 .. BlockSize - 1
      BY <1>1, <3>1, PositionInBlock
    <3>3. i \in 1 .. n /\ j \in 1 .. BlockSize
      BY <1>1, <3>2
    <3> HIDE DEF i, j
    <3>4. ids[c][i] \in Ids /\ ids[c][i] \in ToSet(ids[c])
      BY <1>1, <3>3, ElementOfSeq, LenProperties DEF ToSet
    <3>5. bytes[ids[c][i]] \in [Layers -> [1 .. BlockSize -> Content]]
      BY <2>1, <3>4 DEF LayerInv, TypeOK, IsMaterialized
    <3>6. bytes[ids[c][i]][l][j] \in Content
      BY <3>3, <3>5
    <3>7. QED BY <3>6 DEF i, j
  <2>3. EnsureFrozen(c, l) =
          [p \in 1 .. n * BlockSize |->
             bytes[ids[c][((p - 1) \div BlockSize) + 1]][l][((p - 1) % BlockSize) + 1]]
    BY <1>3, <2>1 DEF EnsureFrozen, FromPool
  <2>4. EnsureFrozen(c, l) \in [1 .. n * BlockSize -> Content]
    BY <2>2, <2>3
  <2>5. QED BY <1>1, <2>4, FunctionIsSeq
<1>4. QED BY <1>2, <1>3

-----------------------------------------------------------------------------
(* The beginning, and steps that touch no tensor *)

LEMMA NoSlots ==
  /\ EmptySlots \in [Layers -> Seq(Content)]
  /\ \A l \in Layers : EmptySlots[l] = <<>>
BY DEF EmptySlots

LEMMA LayerInit == Init => LayerInv
<1> SUFFICES ASSUME Init PROVE LayerInv
  OBVIOUS
<1>1. BlockSize \in Nat \ {0} /\ NumLayers \in Nat \ {0} /\ 0 \in Layers /\ 0 \in 0 .. BlockSize - 1
  BY BlockSizeAssumption, NumLayersAssumption DEF Layers
<1>2. MaxBlocks \in Nat
  BY BoundsAssumption
<1>3. /\ live = {} /\ ids = [c \in Caches |-> <<>>]
      /\ frozen = [c \in Caches |-> EmptySlots] /\ tail = [c \in Caches |-> EmptySlots]
      /\ tailLen = [c \in Caches |-> 0] /\ layer = [c \in Caches |-> 0]
      /\ chunk = [c \in Caches |-> <<>>] /\ refs = [id \in Ids |-> 0] /\ minted = 0
      /\ bytes = [id \in Ids |-> EmptySlots] /\ offer = <<>>
  BY DEF Init
<1>4. TypeOK
  <2>1. live \subseteq Caches /\ ids \in [Caches -> Seq(Ids)] /\ chunk \in [Caches -> Seq(Content)]
        /\ offer \in Seq(Ids)
    BY <1>3
  <2>2. frozen \in [Caches -> [Layers -> Seq(Content)]] /\ tail \in [Caches -> [Layers -> Seq(Content)]]
    BY <1>3, NoSlots
  <2>3. tailLen \in [Caches -> 0 .. BlockSize - 1] /\ layer \in [Caches -> Layers]
    BY <1>1, <1>3
  <2>4. refs \in [Ids -> Nat] /\ minted \in 0 .. MaxBlocks
    BY <1>2, <1>3
  <2>5. bytes \in [Ids -> {EmptySlots} \cup [Layers -> [1 .. BlockSize -> Content]]]
    BY <1>3
  <2>6. QED BY <2>1, <2>2, <2>3, <2>4, <2>5 DEF TypeOK
<1>5. ASSUME NEW c \in Caches, NEW l \in Layers PROVE FrozenWhole(c, l) /\ TailWhole(c, l)
  <2>1. frozen[c][l] = <<>> /\ tail[c][l] = <<>> /\ ids[c] = <<>> /\ tailLen[c] = 0 /\ layer[c] = 0
    BY <1>3, NoSlots
  <2>2. ToSet(<<>>) = {} /\ Len(<<>>) = 0 /\ ~(l < 0)
    BY <1>1 DEF ToSet, Layers
  <2>3. QED BY <2>1, <2>2 DEF FrozenWhole, TailWhole
<1>6. DeadClean /\ OfferMaterialized
  BY <1>3 DEF DeadClean, OfferMaterialized, ToSet
<1>7. QED BY <1>4, <1>5, <1>6 DEF LayerInv

(* A cache the step leaves alone, if the pool keeps the bytes it may need. *)
LEMMA LayerKept ==
  ASSUME LayerInv, NEW d \in Caches, NEW l \in Layers,
         ids'[d] = ids[d], frozen'[d] = frozen[d], tail'[d] = tail[d], tailLen'[d] = tailLen[d],
         layer'[d] = layer[d], chunk'[d] = chunk[d],
         \A id \in ToSet(ids[d]) : IsMaterialized(id) => IsMaterialized(id)'
  PROVE  FrozenWhole(d, l)' /\ TailWhole(d, l)'
<1>1. FrozenWhole(d, l) /\ TailWhole(d, l)
  BY DEF LayerInv
<1>2. FrozenWhole(d, l)'
  BY <1>1 DEF FrozenWhole
<1>3. TailWhole(d, l)'
  BY <1>1 DEF TailWhole
<1>4. QED BY <1>2, <1>3

LEMMA LayerUnchanged ==
  ASSUME LayerInv, UNCHANGED <<ids, frozen, tail, tailLen, layer, chunk, refs, minted, bytes, offer>>,
         live \subseteq live', live' \subseteq Caches
  PROVE  LayerInv'
<1>1. TypeOK'
  BY DEF LayerInv, TypeOK
<1>2. \A d \in Caches, l \in Layers : FrozenWhole(d, l)' /\ TailWhole(d, l)'
  BY LayerKept DEF IsMaterialized
<1>3. DeadClean' /\ OfferMaterialized'
  BY DEF LayerInv, DeadClean, OfferMaterialized, IsMaterialized
<1>4. QED BY <1>1, <1>2, <1>3 DEF LayerInv

(* An adopted cache builds its copies from the pool. *)
LEMMA LayerNewSeeded ==
  ASSUME LayerInv, PoolInv, NEW c \in Caches, NewSeeded(c)
  PROVE  LayerInv'
<1>1. /\ c \notin live /\ live' = live \cup {c} /\ ids' = [ids EXCEPT ![c] = offer]
      /\ refs' = Retain(ToSet(offer))
      /\ UNCHANGED <<frozen, tail, tailLen, layer, chunk, minted, bytes, offer>>
  BY DEF NewSeeded
<1>2. /\ ids' \in [Caches -> Seq(Ids)] /\ ids'[c] = offer
      /\ \A d \in Caches \ {c} : ids'[d] = ids[d]
  BY <1>1 DEF LayerInv, TypeOK
<1>3. TypeOK'
  <2>1. refs' \in [Ids -> Nat]
    BY <1>1 DEF Retain, LayerInv, TypeOK
  <2>2. QED BY <1>1, <1>2, <2>1 DEF LayerInv, TypeOK
<1>4. \A id : IsMaterialized(id)' = IsMaterialized(id)
  BY <1>1 DEF IsMaterialized
<1>5. ASSUME NEW l \in Layers PROVE FrozenWhole(c, l)' /\ TailWhole(c, l)'
  <2>1. frozen'[c][l] = <<>>
    BY <1>1, NoSlots DEF LayerInv, DeadClean
  <2>2. \A id \in ToSet(offer) : IsMaterialized(id)'
    BY <1>4 DEF LayerInv, OfferMaterialized
  <2>3. TailWhole(c, l)'
    BY <1>1 DEF LayerInv, TailWhole
  <2>4. QED BY <1>2, <2>1, <2>2, <2>3 DEF FrozenWhole
<1>6. ASSUME NEW d \in Caches \ {c}, NEW l \in Layers PROVE FrozenWhole(d, l)' /\ TailWhole(d, l)'
  BY <1>1, <1>2, <1>4, LayerKept
<1>7. DeadClean' /\ OfferMaterialized'
  BY <1>1, <1>4 DEF LayerInv, DeadClean, OfferMaterialized
<1>8. QED BY <1>3, <1>5, <1>6, <1>7 DEF LayerInv

-----------------------------------------------------------------------------
(* A forward pass *)

(* The chunk of a pass: chosen at its first layer, the same at all others. *)
Pass(c, new) ==
  /\ c \in live
  /\ new \in Chunks
  /\ layer[c] # 0 => new = chunk[c]

LEMMA PassFacts ==
  ASSUME LayerInv, NEW c \in Caches, NEW new, Pass(c, new)
  PROVE  /\ new \in Seq(Content) /\ Len(new) \in Nat
         /\ \A k \in Layers : TailWhole(c, k)
         /\ \A k \in Layers : k < layer[c] => Len(tail[c][k]) = tailLen[c] + Len(new)
         /\ \A k \in Layers : ~(k < layer[c]) => Len(tail[c][k]) = tailLen[c]
<1>1. new \in Seq(Content) /\ Len(new) \in Nat
  BY ChunksAssumption, LenProperties DEF Pass
<1>2. \A k \in Layers : TailWhole(c, k)
  BY DEF LayerInv
<1>3. tailLen[c] \in Nat /\ layer[c] \in Layers /\ Len(chunk[c]) \in Nat
  BY LayerFacts
<1>4. ASSUME NEW k \in Layers
      PROVE  /\ k < layer[c] => Len(tail[c][k]) = tailLen[c] + Len(new)
             /\ ~(k < layer[c]) => Len(tail[c][k]) = tailLen[c]
  <2>1. k < layer[c] => layer[c] # 0
    BY <1>3, NumLayersAssumption DEF Layers
  <2>2. k < layer[c] => new = chunk[c]
    BY <2>1 DEF Pass
  <2>3. QED BY <1>2, <1>3, <2>2 DEF TailWhole
<1>5. QED BY <1>1, <1>2, <1>4

LEMMA LayerUpdateTail ==
  ASSUME LayerInv, NEW c \in Caches, NEW new, Pass(c, new), NEW l, l = layer[c],
         UpdateTail(c, l, new)
  PROVE  LayerInv'
<1> DEFINE last == l + 1 = NumLayers
<1>1. /\ last => tailLen[c] + Len(new) < BlockSize
      /\ tail' = [tail EXCEPT ![c][l] = @ \o new]
      /\ frozen' = [frozen EXCEPT ![c][l] = EnsureFrozen(c, l)]
      /\ tailLen' = IF last THEN [tailLen EXCEPT ![c] = @ + Len(new)] ELSE tailLen
      /\ layer' = [layer EXCEPT ![c] = NextLayer(l)]
      /\ chunk' = [chunk EXCEPT ![c] = IF last THEN <<>> ELSE new]
      /\ UNCHANGED <<live, ids, refs, minted, bytes, offer>>
  BY DEF UpdateTail, poolVars
<1>2. /\ new \in Seq(Content) /\ Len(new) \in Nat
      /\ \A k \in Layers : k < l => Len(tail[c][k]) = tailLen[c] + Len(new)
      /\ \A k \in Layers : ~(k < l) => Len(tail[c][k]) = tailLen[c]
  BY PassFacts
<1>3. /\ l \in Layers /\ tailLen[c] \in 0 .. BlockSize - 1 /\ tailLen[c] \in Nat
      /\ BlockSize \in Nat \ {0} /\ NumLayers \in Nat \ {0} /\ l \in Nat /\ l <= NumLayers - 1
      /\ \A k \in Layers : k \in Nat /\ k <= NumLayers - 1
      /\ \A k \in Layers : tail[c][k] \in Seq(Content) /\ frozen[c][k] \in Seq(Content)
  BY LayerFacts DEF Layers
<1>4. /\ EnsureFrozen(c, l) \in Seq(Content)
      /\ Len(EnsureFrozen(c, l)) = Len(ids[c]) * BlockSize
  BY <1>3, EnsuredWhole
<1>5. tail[c][l] \o new \in Seq(Content) /\ Len(tail[c][l] \o new) = tailLen[c] + Len(new)
  <2>1. ~(l < l) /\ tail[c][l] \in Seq(Content)
    BY <1>3
  <2>2. Len(tail[c][l]) = tailLen[c]
    BY <1>2, <1>3, <2>1
  <2>3. /\ tail[c][l] \o new \in Seq(Content)
        /\ Len(tail[c][l] \o new) = Len(tail[c][l]) + Len(new)
    BY <1>2, <2>1, Joined
  <2>4. QED BY <2>2, <2>3
<1> HIDE DEF last
<1>6. /\ tail' \in [Caches -> [Layers -> Seq(Content)]]
      /\ tail'[c][l] = tail[c][l] \o new
      /\ \A k \in Layers \ {l} : tail'[c][k] = tail[c][k]
      /\ \A d \in Caches \ {c} : tail'[d] = tail[d]
  BY <1>1, <1>3, <1>5 DEF LayerInv, TypeOK
<1>7. /\ frozen' \in [Caches -> [Layers -> Seq(Content)]]
      /\ frozen'[c][l] = EnsureFrozen(c, l)
      /\ \A k \in Layers \ {l} : frozen'[c][k] = frozen[c][k]
      /\ \A d \in Caches \ {c} : frozen'[d] = frozen[d]
  BY <1>1, <1>3, <1>4 DEF LayerInv, TypeOK
<1>8. /\ tailLen' \in [Caches -> 0 .. BlockSize - 1]
      /\ tailLen'[c] = IF last THEN tailLen[c] + Len(new) ELSE tailLen[c]
      /\ \A d \in Caches \ {c} : tailLen'[d] = tailLen[d]
  <2>1. CASE last
    <3>1. tailLen[c] + Len(new) \in 0 .. BlockSize - 1
      BY <1>1, <1>2, <1>3, <2>1
    <3>2. QED BY <1>1, <2>1, <3>1 DEF LayerInv, TypeOK
  <2>2. CASE ~last
    BY <1>1, <2>2 DEF LayerInv, TypeOK
  <2>3. QED BY <2>1, <2>2
<1>9. /\ layer' \in [Caches -> Layers]
      /\ layer'[c] = IF last THEN 0 ELSE l + 1
      /\ \A d \in Caches \ {c} : layer'[d] = layer[d]
  <2>1. NextLayer(l) \in Layers /\ NextLayer(l) = IF last THEN 0 ELSE l + 1
    BY <1>3 DEF NextLayer, Layers, last
  <2>2. QED BY <1>1, <2>1 DEF LayerInv, TypeOK
<1>10. /\ chunk' \in [Caches -> Seq(Content)]
       /\ chunk'[c] = IF last THEN <<>> ELSE new
       /\ \A d \in Caches \ {c} : chunk'[d] = chunk[d]
  BY <1>1, <1>2 DEF LayerInv, TypeOK
<1>11. TypeOK'
  BY <1>1, <1>6, <1>7, <1>8, <1>9, <1>10 DEF LayerInv, TypeOK
<1>12. \A id : IsMaterialized(id)' = IsMaterialized(id)
  BY <1>1 DEF IsMaterialized
<1>13. ASSUME NEW k \in Layers PROVE FrozenWhole(c, k)'
  <2>1. FrozenWhole(c, k) /\ ids' = ids
    BY <1>1 DEF LayerInv
  <2>2. CASE k # l
    BY <1>7, <1>12, <2>1, <2>2 DEF FrozenWhole
  <2>3. CASE k = l
    <3>1. CASE frozen'[c][l] # <<>>
      BY <1>4, <1>7, <2>1, <2>3, <3>1 DEF FrozenWhole
    <3>2. CASE frozen'[c][l] = <<>>
      <4>1. Len(ids[c]) * BlockSize = 0 /\ Len(ids[c]) \in Nat
        BY <1>4, <1>7, <3>2, LayerFacts
      <4>2. Len(ids[c]) = 0
        BY <1>3, <4>1
      <4>3. ids[c] = <<>>
        BY <4>2, LayerFacts, EmptySeq
      <4>4. QED BY <2>1, <2>3, <3>2, <4>3 DEF FrozenWhole, ToSet
    <3>3. QED BY <3>1, <3>2
  <2>4. QED BY <2>2, <2>3
<1>14. ASSUME NEW k \in Layers PROVE TailWhole(c, k)'
  <2>1. Len(tail'[c][k]) = IF k < l \/ k = l THEN tailLen[c] + Len(new) ELSE tailLen[c]
    BY <1>2, <1>3, <1>5, <1>6
  <2>2. CASE last
    <3>1. (k < l \/ k = l) /\ ~(k < 0)
      BY <1>3, <2>2 DEF last
    <3>2. QED BY <1>2, <1>3, <1>8, <1>9, <2>1, <2>2, <3>1 DEF TailWhole
  <2>3. CASE ~last
    <3>1. k < l + 1 <=> k < l \/ k = l
      BY <1>3
    <3>2. QED BY <1>2, <1>3, <1>8, <1>9, <1>10, <2>1, <2>3, <3>1 DEF TailWhole
  <2>4. QED BY <2>2, <2>3
<1>15. ASSUME NEW d \in Caches \ {c}, NEW k \in Layers PROVE FrozenWhole(d, k)' /\ TailWhole(d, k)'
  BY <1>1, <1>6, <1>7, <1>8, <1>9, <1>10, <1>12, LayerKept
<1>16. DeadClean' /\ OfferMaterialized'
  <2>1. \A d \in Caches \ live : d # c
    BY DEF Pass
  <2>2. DeadClean'
    BY <1>1, <1>6, <1>7, <1>8, <1>9, <2>1 DEF LayerInv, DeadClean
  <2>3. QED BY <1>1, <1>12, <2>2 DEF LayerInv, OfferMaterialized
<1>17. QED BY <1>11, <1>13, <1>14, <1>15, <1>16 DEF LayerInv

(* The last layer of a pass that fills blocks: how long the tails are with   *)
(* the chunk, how many blocks they fill, and the tail of each layer.         *)
NewLen(c, new) == tailLen[c] + Len(new)
Full(c, new) == NewLen(c, new) \div BlockSize
Whole(c, l, new, k) == IF k = l THEN tail[c][k] \o new ELSE tail[c][k]

LEMMA FreezeFacts ==
  ASSUME LayerInv, NEW c \in Caches, NEW new, Pass(c, new), NEW l, l = layer[c],
         UpdateFreeze(c, l, new)
  PROVE  /\ l + 1 = NumLayers /\ l \in Layers /\ NewLen(c, new) \in Nat
         /\ Full(c, new) \in Nat \ {0}
         /\ Full(c, new) * BlockSize \in Nat \ {0}
         /\ Full(c, new) * BlockSize <= NewLen(c, new)
         /\ NewLen(c, new) - Full(c, new) * BlockSize \in 0 .. BlockSize - 1
         /\ \A k \in Layers :
              /\ Whole(c, l, new, k) \in Seq(Content)
              /\ Len(Whole(c, l, new, k)) = NewLen(c, new)
<1> DEFINE newLen == NewLen(c, new)
           full == Full(c, new)
           cut == full * BlockSize
           whole(k) == Whole(c, l, new, k)
<1>1. l + 1 = NumLayers /\ newLen >= BlockSize
  BY DEF UpdateFreeze, NewLen
<1>2. /\ new \in Seq(Content) /\ Len(new) \in Nat
      /\ \A k \in Layers : k < l => Len(tail[c][k]) = tailLen[c] + Len(new)
      /\ \A k \in Layers : ~(k < l) => Len(tail[c][k]) = tailLen[c]
  BY PassFacts
<1>3. /\ l \in Layers /\ tailLen[c] \in Nat
      /\ BlockSize \in Nat \ {0} /\ NumLayers \in Nat \ {0} /\ l \in Nat
      /\ \A k \in Layers : k \in Nat /\ k <= NumLayers - 1
      /\ \A k \in Layers : tail[c][k] \in Seq(Content)
  BY LayerFacts DEF Layers
<1>4. newLen \in Nat
  BY <1>2, <1>3 DEF NewLen
<1>5. ASSUME NEW k \in Layers PROVE whole(k) \in Seq(Content) /\ Len(whole(k)) = newLen
  <2>1. CASE k = l
    <3>1. ~(l < l) /\ tail[c][l] \in Seq(Content)
      BY <1>3
    <3>2. Len(tail[c][l]) = tailLen[c]
      BY <1>2, <1>3, <3>1
    <3>3. /\ tail[c][l] \o new \in Seq(Content)
          /\ Len(tail[c][l] \o new) = Len(tail[c][l]) + Len(new)
      BY <1>2, <3>1, Joined
    <3>4. whole(k) = tail[c][l] \o new
      BY <2>1 DEF Whole
    <3>5. QED BY <3>2, <3>3, <3>4 DEF NewLen
  <2>2. CASE k # l
    <3>1. k < l
      BY <1>1, <1>3, <2>2
    <3>2. whole(k) = tail[c][k]
      BY <2>2 DEF Whole
    <3>3. QED BY <1>2, <1>3, <3>1, <3>2 DEF NewLen
  <2>3. QED BY <2>1, <2>2
<1> HIDE DEF newLen, whole
<1>6. /\ full \in Nat \ {0} /\ cut \in Nat \ {0} /\ cut <= newLen
      /\ newLen - cut \in 0 .. BlockSize - 1
  <2>1. full \in Nat /\ newLen - full * BlockSize \in 0 .. BlockSize - 1
    <3>1. full = newLen \div BlockSize
      BY DEF Full, newLen
    <3>2. QED BY <1>4, <3>1, WholeBlocks
  <2>2. full # 0
    <3>1. ASSUME full = 0 PROVE FALSE
      <4>1. full * BlockSize = 0
        BY <1>3, <3>1
      <4>2. QED BY <1>1, <1>3, <1>4, <2>1, <4>1
    <3>2. QED BY <3>1
  <2> HIDE DEF full
  <2>3. cut \in Nat /\ cut # 0
    BY <1>3, <2>1, <2>2
  <2>4. cut <= newLen
    BY <1>3, <1>4, <2>1, <2>3
  <2>5. QED BY <2>1, <2>2, <2>3, <2>4 DEF full
<1> HIDE DEF full, cut
<1>7. QED
  <2>1. cut = full * BlockSize
    BY DEF cut
  <2>2. QED BY <1>1, <1>3, <1>4, <1>5, <1>6, <2>1 DEF newLen, full, whole

(* Every layer freezes the blocks that its tail fills. *)
LEMMA LayerUpdateFreeze ==
  ASSUME LayerInv, PoolInv, NEW c \in Caches, NEW new, Pass(c, new), NEW l, l = layer[c],
         UpdateFreeze(c, l, new)
  PROVE  LayerInv'
<1> DEFINE newLen == NewLen(c, new)
           full == Full(c, new)
           cut == full * BlockSize
           whole(k) == Whole(c, l, new, k)
<1>1. /\ l + 1 = NumLayers /\ newLen >= BlockSize
      /\ frozen' = [frozen EXCEPT ![c] =
           [k \in Layers |-> EnsureFrozen(c, k) \o SubSeq(whole(k), 1, cut)]]
      /\ tail' = [tail EXCEPT ![c] =
           [k \in Layers |-> SubSeq(whole(k), cut + 1, Len(whole(k)))]]
      /\ tailLen' = [tailLen EXCEPT ![c] = newLen - cut]
      /\ layer' = [layer EXCEPT ![c] = 0]
      /\ chunk' = [chunk EXCEPT ![c] = <<>>]
      /\ \E s \in AllocIds(full) :
          /\ ToSet(s) \subseteq Ids
          /\ ids' = [ids EXCEPT ![c] = @ \o s]
          /\ refs' = Retain(ToSet(s))
          /\ minted' = minted + full - Reused(full)
      /\ UNCHANGED <<live, bytes, offer>>
  BY DEF UpdateFreeze, NewLen, Full, Whole
<1>2. /\ l \in Layers /\ newLen \in Nat
      /\ full \in Nat \ {0} /\ cut \in Nat \ {0} /\ cut <= newLen
      /\ newLen - cut \in 0 .. BlockSize - 1
      /\ \A k \in Layers : whole(k) \in Seq(Content) /\ Len(whole(k)) = newLen
  BY FreezeFacts
<1>3. /\ BlockSize \in Nat \ {0} /\ NumLayers \in Nat \ {0}
      /\ \A k \in Layers : k \in Nat /\ k <= NumLayers - 1
  BY LayerFacts DEF Layers
<1>4. newLen \in Nat
  BY <1>2
<1>5. ASSUME NEW k \in Layers PROVE whole(k) \in Seq(Content) /\ Len(whole(k)) = newLen
  BY <1>2
<1> HIDE DEF newLen, whole
<1>6. /\ full \in Nat \ {0} /\ cut \in Nat \ {0} /\ cut <= newLen
      /\ newLen - cut \in 0 .. BlockSize - 1
  BY <1>2
<1>7. PICK s \in AllocIds(full) :
        /\ ToSet(s) \subseteq Ids
        /\ ids' = [ids EXCEPT ![c] = ids[c] \o s]
        /\ refs' = Retain(ToSet(s))
        /\ minted' = minted + full - Reused(full)
  BY <1>1
<1>8. /\ s \in Seq(Ids) /\ Reused(full) \in 0 .. full
      /\ Len(s) = full
  <2>1. s \in [1 .. full -> FreeIds \cup (minted .. minted + full - Reused(full) - 1)]
    BY DEF AllocIds
  <2>2. s \in Seq(Ids) /\ Reused(full) \in 0 .. full
    BY <1>6, <1>7, AllocFresh
  <2>3. Len(s) = full
    BY <1>6, <2>1, FunctionIsSeq
  <2>4. QED BY <2>2, <2>3
<1>9. minted' \in 0 .. MaxBlocks
  <2>1. minted \in 0 .. MaxBlocks /\ MaxBlocks \in Nat
    BY BoundsAssumption DEF LayerInv, TypeOK
  <2>2. CASE Reused(full) = full
    BY <1>6, <1>7, <2>1, <2>2
  <2>3. CASE Reused(full) # full
    <3>1. full \in Reused(full) + 1 .. full /\ full \in 1 .. full
      BY <1>6, <1>8, <2>3
    <3>2. s[full] = minted + full - Reused(full) - 1
      BY <3>1 DEF AllocIds
    <3>3. s[full] \in Ids
      BY <1>8, <3>1, ElementOfSeq
    <3> DEFINE r == Reused(full)
               f == full
    <3> HIDE DEF r, f
    <3>4. minted + f - r - 1 \in 0 .. MaxBlocks - 1 /\ f \in Nat /\ r \in 0 .. f
      BY <1>6, <1>8, <3>2, <3>3 DEF Ids, r, f
    <3>5. minted + f - r \in 0 .. MaxBlocks
      BY <2>1, <3>4
    <3>6. QED BY <1>7, <3>5 DEF r, f
  <2>4. QED BY <2>2, <2>3
<1> HIDE DEF full, cut
<1>10. ASSUME NEW k \in Layers
       PROVE  /\ SubSeq(whole(k), 1, cut) \in Seq(Content) /\ Len(SubSeq(whole(k), 1, cut)) = cut
              /\ SubSeq(whole(k), cut + 1, Len(whole(k))) \in Seq(Content)
              /\ Len(SubSeq(whole(k), cut + 1, Len(whole(k)))) = newLen - cut
  <2>1. whole(k) \in Seq(Content) /\ Len(whole(k)) = newLen /\ 0 \in Nat /\ 0 <= cut
    BY <1>5, <1>6
  <2>2. /\ SubSeq(whole(k), 0 + 1, cut) \in Seq(Content)
        /\ Len(SubSeq(whole(k), 0 + 1, cut)) = cut - 0
    BY <1>4, <1>6, <2>1, Slice
  <2>3. /\ SubSeq(whole(k), cut + 1, newLen) \in Seq(Content)
        /\ Len(SubSeq(whole(k), cut + 1, newLen)) = newLen - cut
    BY <1>4, <1>6, <2>1, Slice
  <2>4. 0 + 1 = 1 /\ cut - 0 = cut
    BY <1>6
  <2>5. QED BY <2>1, <2>2, <2>3, <2>4
<1>11. ASSUME NEW k \in Layers
       PROVE  /\ EnsureFrozen(c, k) \o SubSeq(whole(k), 1, cut) \in Seq(Content)
              /\ Len(EnsureFrozen(c, k) \o SubSeq(whole(k), 1, cut)) = Len(ids[c]) * BlockSize + cut
  BY <1>10, EnsuredWhole, ConcatProperties
<1>12. /\ frozen' \in [Caches -> [Layers -> Seq(Content)]]
       /\ \A k \in Layers : frozen'[c][k] = EnsureFrozen(c, k) \o SubSeq(whole(k), 1, cut)
       /\ \A d \in Caches \ {c} : frozen'[d] = frozen[d]
  BY <1>1, <1>11 DEF LayerInv, TypeOK
<1>13. /\ tail' \in [Caches -> [Layers -> Seq(Content)]]
       /\ \A k \in Layers : tail'[c][k] = SubSeq(whole(k), cut + 1, Len(whole(k)))
       /\ \A d \in Caches \ {c} : tail'[d] = tail[d]
  BY <1>1, <1>10 DEF LayerInv, TypeOK
<1>14. /\ tailLen' \in [Caches -> 0 .. BlockSize - 1] /\ tailLen'[c] = newLen - cut
       /\ \A d \in Caches \ {c} : tailLen'[d] = tailLen[d]
  BY <1>1, <1>6 DEF LayerInv, TypeOK
<1>15. /\ layer' \in [Caches -> Layers] /\ layer'[c] = 0
       /\ chunk' \in [Caches -> Seq(Content)]
       /\ \A d \in Caches \ {c} : layer'[d] = layer[d] /\ chunk'[d] = chunk[d]
  <2>1. 0 \in Layers
    BY <1>3 DEF Layers
  <2>2. QED BY <1>1, <2>1 DEF LayerInv, TypeOK
<1>16. /\ ids' \in [Caches -> Seq(Ids)] /\ ids'[c] = ids[c] \o s
       /\ Len(ids'[c]) = Len(ids[c]) + full
       /\ \A d \in Caches \ {c} : ids'[d] = ids[d]
  <2>1. ids[c] \in Seq(Ids) /\ ids \in [Caches -> Seq(Ids)]
    BY DEF LayerInv, TypeOK
  <2>2. ids[c] \o s \in Seq(Ids) /\ Len(ids[c] \o s) = Len(ids[c]) + full
    BY <1>8, <2>1, ConcatProperties
  <2>3. QED BY <1>7, <2>1, <2>2
<1>17. TypeOK'
  <2>1. refs' \in [Ids -> Nat]
    BY <1>7 DEF Retain, LayerInv, TypeOK
  <2>2. QED BY <1>1, <1>9, <1>12, <1>13, <1>14, <1>15, <1>16, <2>1 DEF LayerInv, TypeOK
<1>18. \A id : IsMaterialized(id)' = IsMaterialized(id)
  BY <1>1 DEF IsMaterialized
<1>19. ASSUME NEW k \in Layers PROVE FrozenWhole(c, k)'
  <2>1. Len(frozen'[c][k]) = Len(ids[c]) * BlockSize + cut
    BY <1>11, <1>12
  <2>2. Len(ids[c]) * BlockSize + cut = (Len(ids[c]) + full) * BlockSize
        /\ Len(ids[c]) * BlockSize \in Nat
    <3>1. Len(ids[c]) \in Nat /\ full \in Nat /\ BlockSize \in Nat
      BY <1>3, <1>6, LayerFacts
    <3>2. PICK a : a = Len(ids[c])
      OBVIOUS
    <3>3. a \in Nat /\ full \in Nat /\ BlockSize \in Nat
      BY <3>1, <3>2
    <3>4. a * BlockSize + full * BlockSize = (a + full) * BlockSize /\ a * BlockSize \in Nat
      BY <3>3, Distributes
    <3>5. QED BY <3>2, <3>4 DEF cut
  <2>3. frozen'[c][k] # <<>>
    <3>1. Len(frozen'[c][k]) # 0
      BY <1>6, <2>1, <2>2
    <3>2. QED BY <3>1, EmptySeq
  <2>4. QED BY <1>16, <2>1, <2>2, <2>3 DEF FrozenWhole
<1>20. ASSUME NEW k \in Layers PROVE TailWhole(c, k)'
  <2>1. Len(tail'[c][k]) = newLen - cut /\ ~(k < 0)
    BY <1>3, <1>10, <1>13
  <2>2. QED BY <1>6, <1>14, <1>15, <2>1 DEF TailWhole
<1>21. ASSUME NEW d \in Caches \ {c}, NEW k \in Layers PROVE FrozenWhole(d, k)' /\ TailWhole(d, k)'
  BY <1>12, <1>13, <1>14, <1>15, <1>16, <1>18, LayerKept
<1>22. DeadClean' /\ OfferMaterialized'
  <2>1. \A d \in Caches \ live : d # c
    BY DEF Pass
  <2>2. DeadClean'
    BY <1>1, <1>12, <1>13, <1>14, <1>15, <2>1 DEF LayerInv, DeadClean
  <2>3. QED BY <1>1, <1>18, <2>2 DEF LayerInv, OfferMaterialized
<1>23. QED BY <1>17, <1>19, <1>20, <1>21, <1>22 DEF LayerInv

-----------------------------------------------------------------------------
(* Between passes *)

LEMMA TailsAlike ==
  ASSUME LayerInv, NEW c \in Caches, layer[c] = 0, NEW l \in Layers
  PROVE  tail[c][l] \in Seq(Content) /\ Len(tail[c][l]) = tailLen[c] /\ ~(l < layer[c])
<1>1. l \in Nat /\ tailLen[c] \in Nat /\ tail[c][l] \in Seq(Content) /\ TailWhole(c, l)
  BY LayerFacts DEF Layers, LayerInv
<1>2. QED BY <1>1 DEF TailWhole

LEMMA LayerTruncateTail ==
  ASSUME LayerInv, NEW c \in live, layer[c] = 0, NEW len \in 0 .. MaxLen, len < Length(c),
         TruncateTail(c, len)
  PROVE  LayerInv'
<1> DEFINE n == Len(ids[c]) * BlockSize
           rem == len - n
<1>1. /\ rem >= 0
      /\ tail' = [tail EXCEPT ![c] = [l \in Layers |-> SubSeq(tail[c][l], 1, rem)]]
      /\ tailLen' = [tailLen EXCEPT ![c] = rem]
      /\ UNCHANGED <<live, ids, frozen, layer, chunk, refs, minted, bytes, offer>>
  <2>1. tail \in [Caches -> [Layers -> Seq(Content)]] /\ c \in Caches
    BY DEF LayerInv, TypeOK
  <2>2. QED BY <2>1 DEF TruncateTail, poolVars
<1>2. c \in Caches /\ n \in Nat /\ tailLen[c] \in 0 .. BlockSize - 1 /\ BlockSize \in Nat /\ len \in Nat
  <2>1. c \in Caches
    BY DEF LayerInv, TypeOK
  <2>2. QED BY <2>1, LayerFacts, BoundsAssumption
<1>3. len < n + tailLen[c]
  BY DEF Length
<1> HIDE DEF n
<1>4. rem \in Nat /\ rem <= tailLen[c] /\ rem \in 0 .. BlockSize - 1
  BY <1>1, <1>2, <1>3
<1> HIDE DEF rem
<1>5. ASSUME NEW l \in Layers
      PROVE  SubSeq(tail[c][l], 1, rem) \in Seq(Content) /\ Len(SubSeq(tail[c][l], 1, rem)) = rem
  <2>1. tail[c][l] \in Seq(Content) /\ rem <= Len(tail[c][l]) /\ 0 \in Nat /\ 0 <= rem
    BY <1>2, <1>4, TailsAlike
  <2>2. /\ SubSeq(tail[c][l], 0 + 1, rem) \in Seq(Content)
        /\ Len(SubSeq(tail[c][l], 0 + 1, rem)) = rem - 0
    BY <1>4, <2>1, Slice
  <2>3. 0 + 1 = 1 /\ rem - 0 = rem
    BY <1>4
  <2>4. QED BY <2>2, <2>3
<1>6. /\ tail' \in [Caches -> [Layers -> Seq(Content)]]
      /\ \A l \in Layers : tail'[c][l] = SubSeq(tail[c][l], 1, rem)
      /\ \A d \in Caches \ {c} : tail'[d] = tail[d]
  BY <1>1, <1>2, <1>5 DEF LayerInv, TypeOK
<1>7. /\ tailLen' \in [Caches -> 0 .. BlockSize - 1] /\ tailLen'[c] = rem
      /\ \A d \in Caches \ {c} : tailLen'[d] = tailLen[d]
  BY <1>1, <1>2, <1>4 DEF LayerInv, TypeOK
<1>8. TypeOK'
  BY <1>1, <1>6, <1>7 DEF LayerInv, TypeOK
<1>9. \A id : IsMaterialized(id)' = IsMaterialized(id)
  BY <1>1 DEF IsMaterialized
<1>10. ASSUME NEW l \in Layers PROVE FrozenWhole(c, l)' /\ TailWhole(c, l)'
  <2>1. FrozenWhole(c, l)'
    BY <1>1, <1>2, <1>9 DEF LayerInv, FrozenWhole
  <2>2. Len(tail'[c][l]) = rem /\ ~(l < layer'[c])
    BY <1>1, <1>2, <1>5, <1>6, TailsAlike
  <2>3. TailWhole(c, l)'
    BY <1>4, <1>7, <2>2 DEF TailWhole
  <2>4. QED BY <2>1, <2>3
<1>11. ASSUME NEW d \in Caches \ {c}, NEW l \in Layers PROVE FrozenWhole(d, l)' /\ TailWhole(d, l)'
  BY <1>1, <1>6, <1>7, <1>9, LayerKept
<1>12. DeadClean'
  BY <1>1, <1>6, <1>7 DEF LayerInv, DeadClean
<1>13. OfferMaterialized'
  BY <1>1, <1>9 DEF LayerInv, OfferMaterialized
<1>14. QED BY <1>8, <1>10, <1>11, <1>12, <1>13 DEF LayerInv

(* Blocks let go: a block that another cache holds keeps its bytes, for its  *)
(* count is not one; a block of the offer keeps them or the offer is         *)
(* forgotten.                                                                *)
LEMMA ReleasedKept ==
  ASSUME PoolInv, LayerInv, ~StaleOffers, NEW c \in Caches, NEW S \in SUBSET Ids,
         S \subseteq ToSet(ids[c]), ReleaseBlocks(S)
  PROVE  /\ refs' \in [Ids -> Nat] /\ minted' = minted /\ offer' \in Seq(Ids)
         /\ bytes' \in [Ids -> {EmptySlots} \cup [Layers -> [1 .. BlockSize -> Content]]]
         /\ \A id \in Ids : ~(id \in S /\ refs[id] = 1) => bytes'[id] = bytes[id]
         /\ \A d \in Caches \ {c} : \A id \in ToSet(ids[d]) : bytes'[id] = bytes[id]
         /\ OfferMaterialized'
<1>1. /\ refs' = [id \in Ids |-> IF id \in S THEN refs[id] - 1 ELSE refs[id]]
      /\ bytes' = [id \in Ids |-> IF id \in S /\ refs[id] = 1 THEN EmptySlots ELSE bytes[id]]
      /\ offer' = IF ~StaleOffers /\ \E id \in S : id \in ToSet(offer) /\ refs[id] = 1
                  THEN <<>> ELSE offer
      /\ minted' = minted
  BY DEF ReleaseBlocks, Release, FreedBytes, OfferAfterRelease
<1>2. /\ \A id \in Ids : refs[id] \in Nat
      /\ \A d \in Caches : \A id \in ToSet(ids[d]) : id \in Ids /\ refs[id] > 0
      /\ offer \in Seq(Ids) /\ \A id \in ToSet(offer) : id \in Ids
  BY PoolFacts
<1>3. refs' \in [Ids -> Nat]
  BY <1>1, <1>2
<1>4. bytes' \in [Ids -> {EmptySlots} \cup [Layers -> [1 .. BlockSize -> Content]]]
  BY <1>1 DEF LayerInv, TypeOK
<1>5. offer' \in Seq(Ids)
  BY <1>1, <1>2
<1>6. \A id \in Ids : ~(id \in S /\ refs[id] = 1) => bytes'[id] = bytes[id]
  BY <1>1
<1>7. ASSUME NEW d \in Caches \ {c}, NEW id \in ToSet(ids[d]), id \in S PROVE refs[id] # 1
  <2>1. {c, d} \subseteq Holders(id) /\ id \in Ids
    BY <1>2, <1>7 DEF Holders
  <2>2. Cardinality({c, d}) <= Cardinality(Holders(id))
    BY <2>1, HoldersFinite, FS_Subset
  <2>3. Cardinality({c, d}) = 2
    <3>1. IsFiniteSet({c}) /\ Cardinality({c}) = 1 /\ d \notin {c} /\ {c} \cup {d} = {c, d}
      BY FS_Singleton
    <3>2. Cardinality({c} \cup {d}) = Cardinality({c}) + 1
      BY <3>1, FS_AddElement
    <3>3. QED BY <3>1, <3>2
  <2>4. refs[id] = Cardinality(Holders(id)) /\ Cardinality(Holders(id)) \in Nat
    BY <2>1, HoldersFinite DEF PoolInv, RefcountsExact
  <2>5. QED BY <2>2, <2>3, <2>4
<1>8. \A d \in Caches \ {c} : \A id \in ToSet(ids[d]) : bytes'[id] = bytes[id]
  BY <1>2, <1>6, <1>7
<1>9. OfferMaterialized'
  <2>1. CASE \E id \in S : id \in ToSet(offer) /\ refs[id] = 1
    BY <1>1, <2>1 DEF OfferMaterialized, ToSet
  <2>2. CASE ~\E id \in S : id \in ToSet(offer) /\ refs[id] = 1
    <3>1. offer' = offer /\ \A id \in ToSet(offer) : bytes'[id] = bytes[id]
      BY <1>1, <1>2, <1>6, <2>2
    <3>2. QED BY <3>1 DEF LayerInv, OfferMaterialized, IsMaterialized
  <2>3. QED BY <2>1, <2>2
<1>10. QED BY <1>1, <1>3, <1>4, <1>5, <1>6, <1>8, <1>9

(* The cut of a roll-back that drops blocks lies within the blocks. *)
Keep(len) == len \div BlockSize

LEMMA CutFacts ==
  ASSUME LayerInv, NEW c \in Caches, NEW len \in 0 .. MaxLen, TruncateBlocks(c, len)
  PROVE  /\ Keep(len) \in Nat /\ Keep(len) < Len(ids[c])
         /\ Keep(len) * BlockSize \in Nat /\ Keep(len) * BlockSize <= len
         /\ len <= Len(ids[c]) * BlockSize /\ Keep(len) * BlockSize <= Len(ids[c]) * BlockSize
         /\ Keep(len) * BlockSize = 0 => Keep(len) = 0
         /\ len - Keep(len) * BlockSize \in 0 .. BlockSize - 1
<1> DEFINE keep == Keep(len)
           boundary == keep * BlockSize
           n == Len(ids[c])
<1>1. keep < n
  BY DEF TruncateBlocks, Keep
<1>2. BlockSize \in Nat \ {0} /\ len \in Nat /\ n \in Nat /\ n * BlockSize \in Nat
  BY LayerFacts, BoundsAssumption
<1>3. keep \in Nat /\ len - boundary \in 0 .. BlockSize - 1
  BY <1>2, WholeBlocks DEF Keep
<1> HIDE DEF keep, n
<1>4. keep + 1 \in 1 .. n
  BY <1>1, <1>2, <1>3
<1>5. /\ (keep + 1) * BlockSize = ((keep + 1) - 1) * BlockSize + BlockSize
      /\ (keep + 1) * BlockSize <= n * BlockSize
      /\ ((keep + 1) - 1) * BlockSize \in Nat
  BY <1>2, <1>4, BlockBounds
<1>6. (keep + 1) - 1 = keep
  BY <1>3
<1>7. boundary = 0 => keep = 0
  BY <1>2, <1>3
<1>8. (keep + 1) * BlockSize = boundary + BlockSize /\ boundary \in Nat
  BY <1>5, <1>6
<1> DEFINE top == (keep + 1) * BlockSize
           end == n * BlockSize
<1>9. top = boundary + BlockSize /\ top <= end /\ end \in Nat
  BY <1>2, <1>5, <1>8
<1> HIDE DEF top, end, boundary
<1>10. boundary <= len /\ len <= end /\ boundary <= end
  BY <1>2, <1>3, <1>8, <1>9
<1>11. QED BY <1>1, <1>3, <1>7, <1>8, <1>10 DEF keep, n, end, boundary

(* Whole blocks are dropped and the rest of one becomes the tail. *)
LEMMA LayerTruncateBlocks ==
  ASSUME PoolInv, LayerInv, ~StaleOffers, NEW c \in live, layer[c] = 0, NEW len \in 0 .. MaxLen,
         TruncateBlocks(c, len)
  PROVE  LayerInv'
<1> DEFINE keep == Keep(len)
           boundary == keep * BlockSize
           n == Len(ids[c])
           S == ToSet(SubSeq(ids[c], keep + 1, n))
<1>1. /\ keep < n
      /\ tail' = [tail EXCEPT ![c] = [l \in Layers |-> SubSeq(EnsureFrozen(c, l), boundary + 1, len)]]
      /\ frozen' = [frozen EXCEPT ![c] = [l \in Layers |-> SubSeq(EnsureFrozen(c, l), 1, boundary)]]
      /\ tailLen' = [tailLen EXCEPT ![c] = len - boundary]
      /\ ids' = [ids EXCEPT ![c] = SubSeq(ids[c], 1, keep)]
      /\ ReleaseBlocks(S)
      /\ UNCHANGED <<live, layer, chunk>>
  BY DEF TruncateBlocks, Unfrozen, KeptFrozen, Keep
<1>2. /\ c \in Caches /\ BlockSize \in Nat \ {0} /\ len \in Nat
      /\ ids[c] \in Seq(Ids) /\ n \in Nat /\ n * BlockSize \in Nat
  <2>1. c \in Caches
    BY DEF LayerInv, TypeOK
  <2>2. QED BY <2>1, LayerFacts, BoundsAssumption
<1>3. keep \in Nat /\ len - boundary \in 0 .. BlockSize - 1
  BY <1>2, CutFacts
<1>4. /\ boundary \in Nat /\ boundary <= len /\ len <= n * BlockSize /\ boundary <= n * BlockSize
      /\ boundary = 0 => keep = 0
  BY <1>2, CutFacts
<1> HIDE DEF keep, n
<1> HIDE DEF boundary
<1>5. ASSUME NEW l \in Layers
      PROVE  /\ SubSeq(EnsureFrozen(c, l), 1, boundary) \in Seq(Content)
             /\ Len(SubSeq(EnsureFrozen(c, l), 1, boundary)) = boundary
             /\ SubSeq(EnsureFrozen(c, l), boundary + 1, len) \in Seq(Content)
             /\ Len(SubSeq(EnsureFrozen(c, l), boundary + 1, len)) = len - boundary
  <2>1. EnsureFrozen(c, l) \in Seq(Content) /\ Len(EnsureFrozen(c, l)) = n * BlockSize
    BY <1>2, EnsuredWhole DEF n
  <2>2. 0 \in Nat /\ 0 <= boundary
    BY <1>4
  <2>3. /\ SubSeq(EnsureFrozen(c, l), 0 + 1, boundary) \in Seq(Content)
        /\ Len(SubSeq(EnsureFrozen(c, l), 0 + 1, boundary)) = boundary - 0
    BY <1>4, <2>1, <2>2, Slice
  <2>4. /\ SubSeq(EnsureFrozen(c, l), boundary + 1, len) \in Seq(Content)
        /\ Len(SubSeq(EnsureFrozen(c, l), boundary + 1, len)) = len - boundary
    BY <1>2, <1>4, <2>1, Slice
  <2>5. 0 + 1 = 1 /\ boundary - 0 = boundary
    BY <1>4
  <2>6. QED BY <2>3, <2>4, <2>5
<1>6. /\ tail' \in [Caches -> [Layers -> Seq(Content)]]
      /\ \A l \in Layers : tail'[c][l] = SubSeq(EnsureFrozen(c, l), boundary + 1, len)
      /\ \A d \in Caches \ {c} : tail'[d] = tail[d]
  BY <1>1, <1>2, <1>5 DEF LayerInv, TypeOK
<1>7. /\ frozen' \in [Caches -> [Layers -> Seq(Content)]]
      /\ \A l \in Layers : frozen'[c][l] = SubSeq(EnsureFrozen(c, l), 1, boundary)
      /\ \A d \in Caches \ {c} : frozen'[d] = frozen[d]
  BY <1>1, <1>2, <1>5 DEF LayerInv, TypeOK
<1>8. /\ tailLen' \in [Caches -> 0 .. BlockSize - 1] /\ tailLen'[c] = len - boundary
      /\ \A d \in Caches \ {c} : tailLen'[d] = tailLen[d]
  BY <1>1, <1>2, <1>3 DEF LayerInv, TypeOK
<1>9. /\ ids' \in [Caches -> Seq(Ids)] /\ Len(ids'[c]) = keep
      /\ ids'[c] = SubSeq(ids[c], 1, keep)
      /\ \A d \in Caches \ {c} : ids'[d] = ids[d]
  <2>1. SubSeq(ids[c], 1, keep) \in Seq(Ids) /\ Len(SubSeq(ids[c], 1, keep)) = keep
    <3>1. 0 \in Nat /\ 0 <= keep /\ keep <= Len(ids[c]) /\ 0 + 1 = 1 /\ keep - 0 = keep
      BY <1>1, <1>2, <1>3 DEF n
    <3>2. /\ SubSeq(ids[c], 0 + 1, keep) \in Seq(Ids)
          /\ Len(SubSeq(ids[c], 0 + 1, keep)) = keep - 0
      BY <1>2, <1>3, <3>1, Slice
    <3>3. QED BY <3>1, <3>2
  <2>2. QED BY <1>1, <1>2, <2>1 DEF LayerInv, TypeOK
<1>10. S \in SUBSET Ids /\ S \subseteq ToSet(ids[c])
  <2>1. Distinct(ids[c]) /\ keep \in 0 .. Len(ids[c])
    BY <1>1, <1>2, <1>3, PoolFacts DEF n
  <2>2. S \subseteq ToSet(ids[c])
    BY <1>2, <2>1, CutTable DEF n
  <2>3. QED BY <1>2, <2>2, PoolFacts
<1> HIDE DEF S
<1>11. /\ refs' \in [Ids -> Nat] /\ minted' = minted /\ offer' \in Seq(Ids)
       /\ bytes' \in [Ids -> {EmptySlots} \cup [Layers -> [1 .. BlockSize -> Content]]]
       /\ \A d \in Caches \ {c} : \A id \in ToSet(ids[d]) : IsMaterialized(id) => IsMaterialized(id)'
       /\ OfferMaterialized'
  BY <1>1, <1>2, <1>10, ReleasedKept DEF IsMaterialized
<1>12. TypeOK'
  BY <1>1, <1>6, <1>7, <1>8, <1>9, <1>11 DEF LayerInv, TypeOK
<1>13. ASSUME NEW l \in Layers PROVE FrozenWhole(c, l)' /\ TailWhole(c, l)'
  <2>1. Len(frozen'[c][l]) = Len(ids'[c]) * BlockSize /\ Len(frozen'[c][l]) = boundary
    BY <1>5, <1>7, <1>9 DEF boundary
  <2>2. ASSUME frozen'[c][l] = <<>> PROVE ToSet(ids'[c]) = {}
    <3>1. Len(ids'[c]) = 0
      BY <1>4, <1>9, <2>1, <2>2
    <3>2. ids'[c] = <<>>
      BY <1>2, <1>9, <3>1, EmptySeq
    <3>3. QED BY <3>2 DEF ToSet
  <2>3. FrozenWhole(c, l)'
    BY <2>1, <2>2 DEF FrozenWhole
  <2>4. Len(tail'[c][l]) = tailLen'[c] /\ tailLen'[c] \in Nat /\ ~(l < layer'[c])
    BY <1>1, <1>2, <1>3, <1>5, <1>6, <1>8, TailsAlike
  <2>5. TailWhole(c, l)'
    BY <2>4 DEF TailWhole
  <2>6. QED BY <2>3, <2>5
<1>14. ASSUME NEW d \in Caches \ {c}, NEW l \in Layers PROVE FrozenWhole(d, l)' /\ TailWhole(d, l)'
  BY <1>1, <1>6, <1>7, <1>8, <1>9, <1>11, LayerKept
<1>15. DeadClean'
  BY <1>1, <1>6, <1>7, <1>8 DEF LayerInv, DeadClean
<1>16. QED BY <1>11, <1>12, <1>13, <1>14, <1>15 DEF LayerInv

(* reset and Drop: nothing is left of the cache. *)
LEMMA LayerCleared ==
  ASSUME PoolInv, LayerInv, ~StaleOffers, NEW c \in Caches,
         ids' = [ids EXCEPT ![c] = <<>>],
         frozen' = [frozen EXCEPT ![c] = EmptySlots],
         tail' = [tail EXCEPT ![c] = EmptySlots],
         tailLen' = [tailLen EXCEPT ![c] = 0],
         layer' \in [Caches -> Layers], layer'[c] = 0,
         chunk' \in [Caches -> Seq(Content)],
         \A d \in Caches \ {c} : layer'[d] = layer[d] /\ chunk'[d] = chunk[d],
         live' \subseteq live, live \ {c} \subseteq live',
         ReleaseBlocks(ToSet(ids[c]))
  PROVE  LayerInv'
<1>1. 0 \in 0 .. BlockSize - 1 /\ ToSet(ids[c]) \in SUBSET Ids
  BY BlockSizeAssumption, PoolFacts
<1>2. /\ ids' \in [Caches -> Seq(Ids)] /\ ids'[c] = <<>>
      /\ \A d \in Caches \ {c} : ids'[d] = ids[d]
  BY DEF LayerInv, TypeOK
<1>3. /\ frozen' \in [Caches -> [Layers -> Seq(Content)]] /\ frozen'[c] = EmptySlots
      /\ \A d \in Caches \ {c} : frozen'[d] = frozen[d]
  BY NoSlots DEF LayerInv, TypeOK
<1>4. /\ tail' \in [Caches -> [Layers -> Seq(Content)]] /\ tail'[c] = EmptySlots
      /\ \A d \in Caches \ {c} : tail'[d] = tail[d]
  BY NoSlots DEF LayerInv, TypeOK
<1>5. /\ tailLen' \in [Caches -> 0 .. BlockSize - 1] /\ tailLen'[c] = 0
      /\ \A d \in Caches \ {c} : tailLen'[d] = tailLen[d]
  BY <1>1 DEF LayerInv, TypeOK
<1>6. /\ refs' \in [Ids -> Nat] /\ minted' = minted /\ offer' \in Seq(Ids)
      /\ bytes' \in [Ids -> {EmptySlots} \cup [Layers -> [1 .. BlockSize -> Content]]]
      /\ \A d \in Caches \ {c} : \A id \in ToSet(ids[d]) : IsMaterialized(id) => IsMaterialized(id)'
      /\ OfferMaterialized'
  BY <1>1, ReleasedKept DEF IsMaterialized
<1>7. TypeOK'
  BY <1>2, <1>3, <1>4, <1>5, <1>6 DEF LayerInv, TypeOK
<1>8. ASSUME NEW l \in Layers PROVE FrozenWhole(c, l)' /\ TailWhole(c, l)'
  <2>1. frozen'[c][l] = <<>> /\ tail'[c][l] = <<>> /\ ~(l < layer'[c])
    BY <1>3, <1>4, NoSlots, NumLayersAssumption DEF Layers
  <2>2. ToSet(<<>>) = {} /\ Len(<<>>) = 0
    BY DEF ToSet
  <2>3. QED BY <1>2, <1>5, <2>1, <2>2 DEF FrozenWhole, TailWhole
<1>9. ASSUME NEW d \in Caches \ {c}, NEW l \in Layers PROVE FrozenWhole(d, l)' /\ TailWhole(d, l)'
  BY <1>2, <1>3, <1>4, <1>5, <1>6, LayerKept
<1>10. DeadClean'
  <2>1. ASSUME NEW d \in Caches \ live'
        PROVE  frozen'[d] = EmptySlots /\ tail'[d] = EmptySlots /\ tailLen'[d] = 0 /\ layer'[d] = 0
    <3>1. CASE d = c
      BY <1>3, <1>4, <1>5, <3>1
    <3>2. CASE d # c
      BY <1>3, <1>4, <1>5, <3>2 DEF LayerInv, DeadClean
    <3>3. QED BY <3>1, <3>2
  <2>2. QED BY <2>1 DEF DeadClean
<1>11. QED BY <1>6, <1>7, <1>8, <1>9, <1>10 DEF LayerInv

(* One block of a layer's copy, a whole one *)
LEMMA BlockWhole ==
  ASSUME LayerInv, NEW c \in Caches, NEW l \in Layers, NEW i \in 1 .. Len(ids[c])
  PROVE  /\ BlockSlice(c, l, i) \in [1 .. BlockSize -> Content]
         /\ BlockSlice(c, l, i) # <<>>
<1> DEFINE n == Len(ids[c])
           m == (i - 1) * BlockSize
           s == EnsureFrozen(c, l)
           b == BlockSlice(c, l, i)
<1>1. n \in Nat /\ BlockSize \in Nat \ {0} /\ s \in Seq(Content) /\ Len(s) = n * BlockSize
  BY LayerFacts, EnsuredWhole
<1>2. m \in Nat /\ i * BlockSize = m + BlockSize /\ i * BlockSize <= Len(s) /\ Len(s) \in Nat
  BY <1>1, BlockBounds
<1>3. b = SubSeq(s, m + 1, i * BlockSize)
  BY DEF BlockSlice
<1> HIDE DEF m, s, n
<1>4. PICK e : e = i * BlockSize
  OBVIOUS
<1>5. e \in Nat /\ e = m + BlockSize /\ m <= e /\ e <= Len(s)
  BY <1>1, <1>2, <1>4
<1> HIDE DEF b
<1>6. b \in Seq(Content) /\ Len(b) = e - m
  <2>1. SubSeq(s, m + 1, e) \in Seq(Content) /\ Len(SubSeq(s, m + 1, e)) = e - m
    BY <1>1, <1>2, <1>5, Slice
  <2>2. b = SubSeq(s, m + 1, e)
    BY <1>3, <1>4
  <2>3. QED BY <2>1, <2>2
<1>7. Len(b) = BlockSize
  BY <1>1, <1>2, <1>5, <1>6
<1>8. b \in [1 .. Len(b) -> Content]
  BY <1>6, LenProperties, ElementOfSeq
<1>9. b # <<>>
  BY <1>1, <1>7
<1>10. QED BY <1>7, <1>8, <1>9 DEF b

LEMMA LayerShareable ==
  ASSUME PoolInv, LayerInv, NEW c \in live, NEW n, ShareablePrefixBlocks(c, n)
  PROVE  LayerInv'
<1>1. /\ n \in 1 .. Len(ids[c])
      /\ frozen' = [frozen EXCEPT ![c] = [l \in Layers |-> EnsureFrozen(c, l)]]
      /\ bytes' = [id \in Ids |->
           IF ~IsMaterialized(id) /\ \E i \in 1 .. n : ids[c][i] = id
           THEN [l \in Layers |-> BlockSlice(c, l, CHOOSE j \in 1 .. n : ids[c][j] = id)]
           ELSE bytes[id]]
      /\ offer' = SubSeq(ids[c], 1, n)
      /\ UNCHANGED <<live, ids, tail, tailLen, layer, chunk, refs, minted>>
  BY DEF ShareablePrefixBlocks
<1>2. /\ c \in Caches /\ ids[c] \in Seq(Ids) /\ Len(ids[c]) \in Nat /\ n \in Nat /\ n <= Len(ids[c])
  <2>1. c \in Caches
    BY DEF LayerInv, TypeOK
  <2>2. QED BY <1>1, <2>1, LayerFacts
<1>3. ASSUME NEW id \in Ids, ~IsMaterialized(id), NEW i \in 1 .. n, ids[c][i] = id
      PROVE  /\ bytes'[id] \in [Layers -> [1 .. BlockSize -> Content]]
             /\ bytes'[id] # EmptySlots
  <2>1. PICK k : k = CHOOSE j \in 1 .. n : ids[c][j] = id
    OBVIOUS
  <2>2. k \in 1 .. Len(ids[c])
    BY <1>2, <1>3, <2>1
  <2>3. bytes'[id] = [l \in Layers |-> BlockSlice(c, l, k)]
    BY <1>1, <1>3, <2>1
  <2>4. /\ \A l \in Layers : BlockSlice(c, l, k) \in [1 .. BlockSize -> Content]
        /\ \A l \in Layers : BlockSlice(c, l, k) # <<>>
    BY <1>2, <2>2, BlockWhole
  <2>5. 0 \in Layers
    BY NumLayersAssumption DEF Layers
  <2>6. bytes'[id][0] # EmptySlots[0]
    BY <2>3, <2>4, <2>5, NoSlots
  <2>7. QED BY <2>3, <2>4, <2>6
<1>4. \A id \in Ids : (IsMaterialized(id) \/ ~\E i \in 1 .. n : ids[c][i] = id) => bytes'[id] = bytes[id]
  BY <1>1
<1>5. bytes' \in [Ids -> {EmptySlots} \cup [Layers -> [1 .. BlockSize -> Content]]]
  <2>1. ASSUME NEW id \in Ids
        PROVE  bytes'[id] \in {EmptySlots} \cup [Layers -> [1 .. BlockSize -> Content]]
    <3>1. CASE ~IsMaterialized(id) /\ \E i \in 1 .. n : ids[c][i] = id
      BY <1>3, <3>1
    <3>2. CASE IsMaterialized(id) \/ ~\E i \in 1 .. n : ids[c][i] = id
      BY <1>4, <3>2 DEF LayerInv, TypeOK
    <3>3. QED BY <3>1, <3>2
  <2>2. QED BY <1>1, <2>1
<1>6. \A id \in Ids : IsMaterialized(id) => IsMaterialized(id)'
  BY <1>4 DEF IsMaterialized
<1>7. /\ frozen' \in [Caches -> [Layers -> Seq(Content)]]
      /\ \A l \in Layers : frozen'[c][l] = EnsureFrozen(c, l)
      /\ \A d \in Caches \ {c} : frozen'[d] = frozen[d]
  BY <1>1, <1>2, EnsuredWhole DEF LayerInv, TypeOK
<1>8. /\ offer' \in Seq(Ids)
      /\ \A id \in ToSet(offer') : id \in Ids /\ \E i \in 1 .. n : ids[c][i] = id
  <2>1. 1 \in Int /\ n \in Int /\ \A i \in 1 .. n : ids[c][i] \in Ids
    BY <1>2, ElementOfSeq
  <2>2. /\ SubSeq(ids[c], 1, n) \in Seq(Ids) /\ Len(SubSeq(ids[c], 1, n)) = n
        /\ \A i \in 1 .. n : SubSeq(ids[c], 1, n)[i] = ids[c][i]
    BY <1>1, <1>2, <2>1, SubSeqProperties
  <2>3. DOMAIN offer' = 1 .. n /\ \A i \in 1 .. n : offer'[i] = ids[c][i]
    BY <1>1, <2>2, LenProperties
  <2>4. QED BY <1>1, <2>1, <2>2, <2>3 DEF ToSet
<1>9. OfferMaterialized'
  <2>1. ASSUME NEW id \in ToSet(offer') PROVE bytes'[id] # EmptySlots
    <3>1. id \in Ids /\ \E i \in 1 .. n : ids[c][i] = id
      BY <1>8
    <3>2. CASE IsMaterialized(id)
      BY <1>4, <3>1, <3>2 DEF IsMaterialized
    <3>3. CASE ~IsMaterialized(id)
      BY <1>3, <3>1, <3>3
    <3>4. QED BY <3>2, <3>3
  <2>2. QED BY <2>1 DEF OfferMaterialized, IsMaterialized
<1>10. TypeOK'
  BY <1>1, <1>5, <1>7, <1>8 DEF LayerInv, TypeOK
<1>11. ASSUME NEW l \in Layers PROVE FrozenWhole(c, l)' /\ TailWhole(c, l)'
  <2>1. Len(frozen'[c][l]) = Len(ids[c]) * BlockSize
    BY <1>2, <1>7, EnsuredWhole
  <2>2. Len(frozen'[c][l]) # 0
    BY <1>1, <1>2, <2>1, BlockSizeAssumption
  <2>3. FrozenWhole(c, l)'
    BY <1>1, <2>1, <2>2 DEF FrozenWhole
  <2>4. TailWhole(c, l)'
    BY <1>1, <1>2 DEF LayerInv, TailWhole
  <2>5. QED BY <2>3, <2>4
<1>12. ASSUME NEW d \in Caches \ {c}, NEW l \in Layers PROVE FrozenWhole(d, l)' /\ TailWhole(d, l)'
  <2>1. \A id \in ToSet(ids[d]) : IsMaterialized(id) => IsMaterialized(id)'
    BY <1>6, PoolFacts
  <2>2. QED BY <1>1, <1>7, <2>1, LayerKept
<1>13. DeadClean'
  BY <1>1, <1>7 DEF LayerInv, DeadClean
<1>14. QED BY <1>9, <1>10, <1>11, <1>12, <1>13 DEF LayerInv

-----------------------------------------------------------------------------
(* The invariant and what follows from it *)

LEMMA LayerNext ==
  ASSUME ~StaleOffers, PoolInv, LayerInv, [Next]_vars
  PROVE  LayerInv'
<1>1. CASE UNCHANGED vars
  BY <1>1, LayerUnchanged DEF vars, LayerInv, TypeOK
<1>2. CASE Next
  <2>1. PICK c \in Caches :
          \/ NewCache(c)
          \/ NewSeeded(c)
          \/ \E new \in Chunks : Update(c, new)
          \/ \E len \in 0 .. MaxLen : Truncate(c, len)
          \/ Reset(c)
          \/ \E n \in 1 .. MaxBlocks : ShareablePrefixBlocks(c, n)
          \/ Drop(c)
    BY <1>2 DEF Next
  <2>2. CASE NewCache(c)
    BY <2>2, LayerUnchanged DEF NewCache, LayerInv, TypeOK
  <2>3. CASE NewSeeded(c)
    BY <2>3, LayerNewSeeded
  <2>4. ASSUME NEW new \in Chunks, Update(c, new) PROVE LayerInv'
    <3>1. Pass(c, new) /\ (UpdateTail(c, layer[c], new) \/ UpdateFreeze(c, layer[c], new))
      BY <2>4 DEF Update, Pass
    <3>2. CASE UpdateTail(c, layer[c], new)
      BY <3>1, <3>2, LayerUpdateTail
    <3>3. CASE UpdateFreeze(c, layer[c], new)
      BY <3>1, <3>3, LayerUpdateFreeze
    <3>4. QED BY <3>1, <3>2, <3>3
  <2>5. ASSUME NEW len \in 0 .. MaxLen, Truncate(c, len) PROVE LayerInv'
    <3>1. /\ c \in live /\ layer[c] = 0 /\ len < Length(c)
          /\ TruncateTail(c, len) \/ TruncateBlocks(c, len)
      BY <2>5 DEF Truncate
    <3>2. CASE TruncateTail(c, len)
      BY <3>1, <3>2, LayerTruncateTail
    <3>3. CASE TruncateBlocks(c, len)
      BY <3>1, <3>3, LayerTruncateBlocks
    <3>4. QED BY <3>1, <3>2, <3>3
  <2>6. CASE Reset(c)
    <3>1. /\ ids' = [ids EXCEPT ![c] = <<>>] /\ frozen' = [frozen EXCEPT ![c] = EmptySlots]
          /\ tail' = [tail EXCEPT ![c] = EmptySlots] /\ tailLen' = [tailLen EXCEPT ![c] = 0]
          /\ layer' = layer /\ layer[c] = 0 /\ chunk' = chunk /\ live' = live
          /\ ReleaseBlocks(ToSet(ids[c]))
      BY <2>6 DEF Reset
    <3>2. layer' \in [Caches -> Layers] /\ chunk' \in [Caches -> Seq(Content)]
      BY <3>1 DEF LayerInv, TypeOK
    <3>3. QED BY <3>1, <3>2, LayerCleared
  <2>7. ASSUME NEW n \in 1 .. MaxBlocks, ShareablePrefixBlocks(c, n) PROVE LayerInv'
    <3>1. c \in live
      BY <2>7 DEF ShareablePrefixBlocks
    <3>2. QED BY <2>7, <3>1, LayerShareable
  <2>8. CASE Drop(c)
    <3>1. /\ ids' = [ids EXCEPT ![c] = <<>>] /\ frozen' = [frozen EXCEPT ![c] = EmptySlots]
          /\ tail' = [tail EXCEPT ![c] = EmptySlots] /\ tailLen' = [tailLen EXCEPT ![c] = 0]
          /\ layer' = [layer EXCEPT ![c] = 0] /\ chunk' = [chunk EXCEPT ![c] = <<>>]
          /\ live' = live \ {c}
          /\ ReleaseBlocks(ToSet(ids[c]))
      BY <2>8 DEF Drop
    <3>2. 0 \in Layers
      BY NumLayersAssumption DEF Layers
    <3>3. /\ layer' \in [Caches -> Layers] /\ layer'[c] = 0
          /\ chunk' \in [Caches -> Seq(Content)]
          /\ \A d \in Caches \ {c} : layer'[d] = layer[d] /\ chunk'[d] = chunk[d]
      BY <3>1, <3>2 DEF LayerInv, TypeOK
    <3>4. QED BY <3>1, <3>3, LayerCleared
  <2>9. QED BY <2>1, <2>2, <2>3, <2>4, <2>5, <2>6, <2>7, <2>8
<1>3. QED BY <1>1, <1>2

LEMMA SpecLayerInv == ~StaleOffers => (Spec => [](PoolInv /\ LayerInv))
<1> SUFFICES ASSUME ~StaleOffers PROVE Spec => [](PoolInv /\ LayerInv)
  OBVIOUS
<1>1. Init => PoolInv /\ LayerInv
  BY PoolInit, LayerInit
<1>2. PoolInv /\ LayerInv /\ [Next]_vars => PoolInv' /\ LayerInv'
  BY PoolNext, LayerNext
<1>3. QED BY <1>1, <1>2, PTL DEF Spec

(* For any number of caches, layers and blocks and any block size, as long   *)
(* as a caller forgets an offer when one of its blocks is freed: a cache     *)
(* without its contiguous copy finds each of its blocks in the pool, so the  *)
(* assert! of ensure_frozen never fires.                                     *)
THEOREM SpecUnbuiltBlocksMaterialized == ~StaleOffers => (Spec => []UnbuiltBlocksMaterialized)
<1> SUFFICES ASSUME ~StaleOffers PROVE Spec => []UnbuiltBlocksMaterialized
  OBVIOUS
<1>1. LayerInv => UnbuiltBlocksMaterialized
  BY DEF LayerInv, TypeOK, FrozenWhole, UnbuiltBlocksMaterialized
<1>2. QED BY <1>1, SpecLayerInv, PTL

(* Under the same hypothesis, between two forward passes what every layer of *)
(* a cache attends over is exactly offset() positions long, whatever was     *)
(* frozen, rolled back, adopted or interleaved before.                       *)
THEOREM SpecLayersInStep == ~StaleOffers => (Spec => []LayersInStep)
<1> SUFFICES ASSUME ~StaleOffers PROVE Spec => []LayersInStep
  OBVIOUS
<1>1. ASSUME LayerInv, NEW c \in live, layer[c] = 0, NEW l \in Layers
      PROVE  Len(Gather(c, l)) = Length(c)
  <2>1. c \in Caches
    BY <1>1 DEF LayerInv, TypeOK
  <2>2. EnsureFrozen(c, l) \in Seq(Content) /\ Len(EnsureFrozen(c, l)) = Len(ids[c]) * BlockSize
    BY <1>1, <2>1, EnsuredWhole
  <2>3. tail[c][l] \in Seq(Content) /\ Len(tail[c][l]) = tailLen[c]
    BY <1>1, <2>1, TailsAlike
  <2>4. Len(EnsureFrozen(c, l) \o tail[c][l]) = Len(EnsureFrozen(c, l)) + Len(tail[c][l])
    BY <2>2, <2>3, Joined
  <2>5. QED BY <2>2, <2>3, <2>4 DEF Gather, Length
<1>2. LayerInv => LayersInStep
  BY <1>1 DEF LayersInStep, LayerInv
<1>3. QED BY <1>2, SpecLayerInv, PTL

(* Under the same hypothesis, the state of the caches and the pool keeps its *)
(* type: a tail is shorter than a block, a block that is materialized has    *)
(* its full size at every layer, and the pool never mints past its bound.    *)
THEOREM SpecPagedTypeOK == ~StaleOffers => (Spec => []TypeOK)
<1> SUFFICES ASSUME ~StaleOffers PROVE Spec => []TypeOK
  OBVIOUS
<1>1. LayerInv => TypeOK
  BY DEF LayerInv
<1>2. QED BY <1>1, SpecLayerInv, PTL

-----------------------------------------------------------------------------
(***************************************************************************)
(* Proofs about the bytes of PagedKv: what the pool keeps of a block is     *)
(* what each of its holders has there.                                      *)
(*                                                                          *)
(* The contiguous copy a layer has, or would build, is EnsureFrozen; most   *)
(* lemmas say what a step does to it.  Publishing a block overwrites        *)
(* nothing a second holder reads, because a block with two holders has been *)
(* published already: SharedMaterialized, a part of BytesInv.               *)
(***************************************************************************)

-----------------------------------------------------------------------------
(* Sequences *)

LEMMA ConcatElements ==
  ASSUME NEW S, NEW s \in Seq(S), NEW t \in Seq(S)
  PROVE  /\ s \o t \in Seq(S) /\ Len(s \o t) = Len(s) + Len(t) /\ Len(s) \in Nat /\ Len(t) \in Nat
         /\ \A i \in 1 .. Len(s) : (s \o t)[i] = s[i]
         /\ \A i \in Len(s) + 1 .. Len(s) + Len(t) : (s \o t)[i] = t[i - Len(s)]
BY ConcatProperties, LenProperties

LEMMA SameFunction ==
  ASSUME NEW S, NEW T, NEW f \in [S -> T], NEW g \in [S -> T], \A x \in S : f[x] = g[x]
  PROVE  f = g
OBVIOUS

LEMMA SliceElements ==
  ASSUME NEW S, NEW s \in Seq(S), NEW m \in Nat, NEW n \in Nat, m <= n, n <= Len(s)
  PROVE  /\ SubSeq(s, m + 1, n) \in Seq(S) /\ Len(SubSeq(s, m + 1, n)) = n - m
         /\ \A i \in 1 .. n - m : SubSeq(s, m + 1, n)[i] = s[m + i]
<1>1. Len(s) \in Nat /\ \A i \in 1 .. Len(s) : s[i] \in S
  BY LenProperties, ElementOfSeq
<1>2. \A i \in m + 1 .. n : s[i] \in S
  BY <1>1
<1>3. m + 1 \in Int /\ n \in Int
  OBVIOUS
<1> DEFINE u == SubSeq(s, m + 1, n)
<1>4. \A i \in 1 .. Len(u) : u[i] = s[m + 1 + i - 1]
  BY <1>2, <1>3, SubSeqProperties
<1>5. u \in Seq(S) /\ Len(u) = n - m
  BY Slice
<1> HIDE DEF u
<1>6. \A i \in 1 .. n - m : u[i] = s[m + i]
  BY <1>4, <1>5
<1>7. QED BY <1>5, <1>6 DEF u

LEMMA FirstElements ==
  ASSUME NEW S, NEW s \in Seq(S), NEW n \in Nat, n <= Len(s)
  PROVE  /\ SubSeq(s, 1, n) \in Seq(S) /\ Len(SubSeq(s, 1, n)) = n
         /\ \A i \in 1 .. n : SubSeq(s, 1, n)[i] = s[i]
<1>1. 0 \in Nat /\ 0 <= n /\ 0 + 1 = 1 /\ n - 0 = n
  OBVIOUS
<1>2. /\ SubSeq(s, 0 + 1, n) \in Seq(S) /\ Len(SubSeq(s, 0 + 1, n)) = n - 0
      /\ \A i \in 1 .. n - 0 : SubSeq(s, 0 + 1, n)[i] = s[0 + i]
  BY <1>1, SliceElements
<1>3. QED BY <1>1, <1>2

(* A sequence is its two parts. *)
LEMMA Rejoined ==
  ASSUME NEW S, NEW s \in Seq(S), NEW m \in Nat, NEW n \in Nat, m <= n, n <= Len(s)
  PROVE  SubSeq(s, 1, m) \o SubSeq(s, m + 1, n) = SubSeq(s, 1, n)
<1>1. Len(s) \in Nat
  BY LenProperties
<1>2. 1 \in 1 .. Len(s) + 1 /\ m \in 1 - 1 .. Len(s) /\ n \in m .. Len(s)
  BY <1>1
<1>3. QED BY <1>2, ConcatAdjacentSubSeq

(* A cut within the first part, and one after it *)
LEMMA CutFirst ==
  ASSUME NEW S, NEW s \in Seq(S), NEW t \in Seq(S), NEW n \in Nat, n <= Len(s)
  PROVE  SubSeq(s \o t, 1, n) = SubSeq(s, 1, n)
<1>1. Len(s) \in Nat
  BY LenProperties
<1>2. CASE n = 0
  BY <1>2, SubSeqEmpty
<1>3. CASE n # 0
  <2>1. 1 \in 1 .. Len(s) /\ n \in 1 .. Len(s)
    BY <1>1, <1>3
  <2>2. QED BY <2>1, SubSeqOfConcat1
<1>4. QED BY <1>2, <1>3

LEMMA CutSecond ==
  ASSUME NEW S, NEW s \in Seq(S), NEW t \in Seq(S), NEW r \in Nat, r <= Len(t)
  PROVE  SubSeq(s \o t, 1, Len(s) + r) = s \o SubSeq(t, 1, r)
<1> DEFINE w == s \o t
           v == SubSeq(t, 1, r)
           a == SubSeq(w, 1, Len(s) + r)
           b == s \o v
<1>1. /\ w \in Seq(S) /\ Len(w) = Len(s) + Len(t) /\ Len(s) \in Nat /\ Len(t) \in Nat
      /\ \A i \in 1 .. Len(s) : w[i] = s[i]
      /\ \A i \in Len(s) + 1 .. Len(s) + Len(t) : w[i] = t[i - Len(s)]
  BY ConcatElements
<1>2. v \in Seq(S) /\ Len(v) = r /\ \A i \in 1 .. r : v[i] = t[i]
  BY FirstElements
<1> HIDE DEF w, v
<1>3. Len(s) + r \in Nat /\ Len(s) + r <= Len(w)
  BY <1>1
<1>4. a \in Seq(S) /\ Len(a) = Len(s) + r /\ \A i \in 1 .. Len(s) + r : a[i] = w[i]
  BY <1>1, <1>3, FirstElements
<1>5. /\ b \in Seq(S) /\ Len(b) = Len(s) + r
      /\ \A i \in 1 .. Len(s) : b[i] = s[i]
      /\ \A i \in Len(s) + 1 .. Len(s) + r : b[i] = v[i - Len(s)]
  <2>1. v \in Seq(S)
    BY <1>2
  <2> HIDE DEF a
  <2>2. /\ s \o v \in Seq(S) /\ Len(s \o v) = Len(s) + Len(v)
        /\ \A i \in 1 .. Len(s) : (s \o v)[i] = s[i]
        /\ \A i \in Len(s) + 1 .. Len(s) + Len(v) : (s \o v)[i] = v[i - Len(s)]
    BY <2>1, ConcatElements
  <2> HIDE DEF b
  <2>3. b = s \o v /\ Len(v) = r
    BY <1>2 DEF b
  <2>4. QED BY <2>2, <2>3
<1> HIDE DEF a, b
<1>6. ASSUME NEW i \in 1 .. Len(s) + r PROVE a[i] = b[i]
  <2>1. CASE i <= Len(s)
    BY <1>1, <1>4, <1>5, <2>1
  <2>2. CASE i > Len(s)
    <3>1. a[i] = t[i - Len(s)] /\ b[i] = v[i - Len(s)] /\ i - Len(s) \in 1 .. r
      BY <1>1, <1>4, <1>5, <2>2
    <3>2. QED BY <1>2, <3>1
  <2>3. QED BY <1>1, <2>1, <2>2
<1>7. a = b
  BY <1>4, <1>5, <1>6, SeqEqual
<1>8. QED BY <1>7 DEF a, b, w, v

-----------------------------------------------------------------------------
(* What a layer has of the blocks, before and after a step *)

LEMMA BlockOfPosition ==
  ASSUME NEW B \in Nat \ {0}, NEW i \in Nat \ {0}, NEW q \in 1 .. B,
         NEW p, p = (i - 1) * B + q
  PROVE  p \in Nat \ {0} /\ (p - 1) \div B = i - 1 /\ (p - 1) % B = q - 1
<1>1. PICK k \in Nat : i = k + 1
  <2>1. i - 1 \in Nat /\ i = (i - 1) + 1
    OBVIOUS
  <2>2. QED BY <2>1
<1>2. i - 1 = k /\ k * B \in Nat
  BY <1>1
<1> DEFINE x == k * B + q - 1
           d == x \div B
           m == x % B
<1>3. x \in Nat /\ p - 1 = x /\ p \in Nat \ {0}
  BY <1>2
<1>4. x = k * B + (q - 1) /\ q - 1 \in 0 .. B - 1
  BY <1>2
<1> HIDE DEF x
<1>5. d \in Nat /\ m \in 0 .. B - 1 /\ x = B * d + m
  BY <1>3
<1> HIDE DEF d, m
<1>6. ASSUME d > k PROVE FALSE
  <2>1. PICK e \in Nat : d = k + 1 + e
    <3>1. d - (k + 1) \in Nat /\ d = k + 1 + (d - (k + 1))
      BY <1>5, <1>6
    <3>2. QED BY <3>1
  <2>2. B * d = k * B + B + B * e /\ B * e \in Nat
    BY <2>1
  <2>3. QED BY <1>2, <1>4, <1>5, <2>2
<1>7. ASSUME d < k PROVE FALSE
  <2>1. PICK e \in Nat : k = d + 1 + e
    <3>1. k - (d + 1) \in Nat /\ k = d + 1 + (k - (d + 1))
      BY <1>5, <1>7
    <3>2. QED BY <3>1
  <2>2. k * B = B * d + B + B * e /\ B * e \in Nat /\ B * d \in Nat
    BY <1>5, <2>1
  <2>3. QED BY <1>4, <1>5, <2>2
<1>8. d = k
  BY <1>5, <1>6, <1>7
<1>9. B * d = k * B
  BY <1>5, <1>8
<1>10. m = q - 1
  BY <1>2, <1>4, <1>5, <1>9
<1>11. QED BY <1>2, <1>3, <1>8, <1>10 DEF d, m

(* Position q of block i, among the positions of a table of n blocks *)
LEMMA PositionOfBlock ==
  ASSUME NEW B \in Nat \ {0}, NEW n \in Nat, NEW i \in 1 .. n, NEW q \in 1 .. B
  PROVE  (i - 1) * B + q \in 1 .. n * B
<1>1. (i - 1) * B \in Nat /\ i * B = (i - 1) * B + B /\ i * B <= n * B /\ n * B \in Nat
  BY BlockBounds
<1> DEFINE x == (i - 1) * B
           y == i * B
           z == n * B
<1>2. x \in Nat /\ y = x + B /\ y <= z /\ z \in Nat
  BY <1>1
<1> HIDE DEF x, y, z
<1>3. x + q \in 1 .. z
  BY <1>2
<1>4. QED BY <1>3 DEF x, z

LEMMA PoolElements ==
  ASSUME LayerInv, NEW c \in Caches, NEW l \in Layers, frozen[c][l] = <<>>,
         NEW i \in 1 .. Len(ids[c]), NEW q \in 1 .. BlockSize
  PROVE  EnsureFrozen(c, l)[(i - 1) * BlockSize + q] = bytes[ids[c][i]][l][q]
<1> DEFINE p == (i - 1) * BlockSize + q
           n == Len(ids[c])
<1>1. BlockSize \in Nat \ {0} /\ n \in Nat /\ i \in Nat \ {0}
  BY LayerFacts
<1>2. (p - 1) \div BlockSize = i - 1 /\ (p - 1) % BlockSize = q - 1
  <2>1. PICK r : r = p
    OBVIOUS
  <2>2. r = (i - 1) * BlockSize + q
    BY <2>1
  <2> HIDE DEF p
  <2>3. (r - 1) \div BlockSize = i - 1 /\ (r - 1) % BlockSize = q - 1
    BY <1>1, <2>2, BlockOfPosition
  <2>4. QED BY <2>1, <2>3
<1>3. p \in 1 .. n * BlockSize
  BY <1>1, PositionOfBlock
<1>4. (i - 1) + 1 = i /\ (q - 1) + 1 = q
  BY <1>1
<1>5. \A id \in ToSet(ids[c]) : IsMaterialized(id)
  BY DEF LayerInv, FrozenWhole
<1> DEFINE Of(r) == bytes[ids[c][((r - 1) \div BlockSize) + 1]][l][((r - 1) % BlockSize) + 1]
<1>6. EnsureFrozen(c, l) = [r \in 1 .. n * BlockSize |-> Of(r)]
  BY <1>5 DEF EnsureFrozen, FromPool
<1> HIDE DEF p, n
<1>7. Of(p) = bytes[ids[c][i]][l][q]
  BY <1>2, <1>4
<1> HIDE DEF Of
<1>8. EnsureFrozen(c, l)[p] = bytes[ids[c][i]][l][q]
  BY <1>3, <1>6, <1>7
<1>9. QED BY <1>8 DEF p

(* A step that leaves the table of a cache, builds a layer's copy or leaves  *)
(* it, and does not touch the bytes of blocks a layer has yet to build.      *)
LEMMA EnsureKept ==
  ASSUME LayerInv, NEW d \in Caches, NEW k \in Layers, ids'[d] = ids[d],
         (frozen'[d][k] = frozen[d][k] \/ frozen'[d][k] = EnsureFrozen(d, k)),
         frozen[d][k] = <<>> => \A id \in ToSet(ids[d]) : bytes'[id] = bytes[id]
  PROVE  EnsureFrozen(d, k)' = EnsureFrozen(d, k)
<1>1. CASE frozen[d][k] # <<>>
  BY <1>1 DEF EnsureFrozen
<1>2. CASE frozen[d][k] = <<>>
  <2> DEFINE n == Len(ids[d])
  <2>1. ids[d] \in Seq(Ids) /\ n \in Nat /\ BlockSize \in Nat \ {0} /\ n * BlockSize \in Nat
    BY LayerFacts
  <2>2. EnsureFrozen(d, k) = FromPool(d, k)
    BY <1>2 DEF EnsureFrozen
  <2>3. \A id \in ToSet(ids[d]) : IsMaterialized(id)
    BY <1>2 DEF LayerInv, FrozenWhole
  <2>4. FromPool(d, k) =
          [p \in 1 .. n * BlockSize |->
             bytes[ids[d][((p - 1) \div BlockSize) + 1]][k][((p - 1) % BlockSize) + 1]]
    BY <2>3 DEF FromPool
  <2>5. \A id \in ToSet(ids[d]) : IsMaterialized(id)'
    BY <1>2, <2>3 DEF IsMaterialized
  <2>6. FromPool(d, k)' =
          [p \in 1 .. n * BlockSize |->
             bytes'[ids[d][((p - 1) \div BlockSize) + 1]][k][((p - 1) % BlockSize) + 1]]
    BY <2>5 DEF FromPool
  <2>7. ASSUME NEW p \in 1 .. n * BlockSize
        PROVE  bytes'[ids[d][((p - 1) \div BlockSize) + 1]]
                 = bytes[ids[d][((p - 1) \div BlockSize) + 1]]
    <3> DEFINE i == ((p - 1) \div BlockSize) + 1
    <3>1. p - 1 \in Nat /\ p - 1 < n * BlockSize
      BY <2>1
    <3>2. (p - 1) \div BlockSize \in 0 .. n - 1
      BY <2>1, <3>1, PositionInBlock
    <3>3. i \in 1 .. n
      BY <2>1, <3>2
    <3> HIDE DEF i
    <3>4. ids[d][i] \in ToSet(ids[d])
      BY <2>1, <3>3, LenProperties DEF ToSet
    <3>5. QED BY <1>2, <3>4 DEF i
  <2>8. FromPool(d, k)' = FromPool(d, k)
    BY <2>4, <2>6, <2>7
  <2>9. CASE frozen'[d][k] = <<>>
    BY <2>2, <2>8, <2>9 DEF EnsureFrozen
  <2>10. CASE frozen'[d][k] # <<>>
    BY <1>2, <2>10 DEF EnsureFrozen
  <2>11. QED BY <2>9, <2>10
<1>3. QED BY <1>1, <1>2

LEMMA EnsureUpdateTail ==
  ASSUME LayerInv, NEW c \in Caches, NEW l \in Layers, NEW new, UpdateTail(c, l, new),
         NEW d \in Caches, NEW k \in Layers
  PROVE  EnsureFrozen(d, k)' = EnsureFrozen(d, k)
<1>1. frozen' = [frozen EXCEPT ![c][l] = EnsureFrozen(c, l)] /\ ids' = ids /\ bytes' = bytes
  BY DEF UpdateTail, poolVars
<1>2. frozen \in [Caches -> [Layers -> Seq(Content)]]
  BY DEF LayerInv, TypeOK
<1>3. frozen'[d][k] = frozen[d][k] \/ frozen'[d][k] = EnsureFrozen(d, k)
  <2>1. CASE d = c /\ k = l
    BY <1>1, <1>2, <2>1
  <2>2. CASE ~(d = c /\ k = l)
    BY <1>1, <1>2, <2>2
  <2>3. QED BY <2>1, <2>2
<1>4. QED BY <1>1, <1>3, EnsureKept

LEMMA EnsureUpdateFreeze ==
  ASSUME LayerInv, NEW c \in Caches, NEW new, Pass(c, new), NEW l, l = layer[c],
         UpdateFreeze(c, l, new), NEW k \in Layers
  PROVE  /\ EnsureFrozen(c, k)' =
              EnsureFrozen(c, k) \o SubSeq(Whole(c, l, new, k), 1, Full(c, new) * BlockSize)
         /\ \A d \in Caches \ {c} : EnsureFrozen(d, k)' = EnsureFrozen(d, k)
<1> DEFINE cut == Full(c, new) * BlockSize
           w == Whole(c, l, new, k)
           e == EnsureFrozen(c, k)
<1>1. frozen' = [frozen EXCEPT ![c] =
        [j \in Layers |-> EnsureFrozen(c, j) \o SubSeq(Whole(c, l, new, j), 1, cut)]]
  BY DEF UpdateFreeze, NewLen, Full, Whole
<1>2. frozen \in [Caches -> [Layers -> Seq(Content)]]
  BY DEF LayerInv, TypeOK
<1>3. frozen'[c][k] = e \o SubSeq(w, 1, cut)
  BY <1>1, <1>2
<1>4. w \in Seq(Content) /\ Len(w) = NewLen(c, new) /\ cut \in Nat \ {0} /\ cut <= NewLen(c, new)
  BY FreezeFacts
<1>5. e \in Seq(Content)
  BY EnsuredWhole
<1> HIDE DEF w, cut, e
<1>6. SubSeq(w, 1, cut) \in Seq(Content) /\ Len(SubSeq(w, 1, cut)) = cut
  BY <1>4, FirstElements
<1>7. Len(e \o SubSeq(w, 1, cut)) = Len(e) + cut /\ Len(e) \in Nat
  BY <1>5, <1>6, ConcatElements
<1>8. Len(e \o SubSeq(w, 1, cut)) # 0
  BY <1>4, <1>7
<1>9. frozen'[c][k] # <<>>
  <2>1. Len(frozen'[c][k]) # 0
    BY <1>3, <1>8
  <2>2. QED BY <2>1
<1>10. EnsureFrozen(c, k)' = e \o SubSeq(w, 1, cut)
  BY <1>3, <1>9 DEF EnsureFrozen
<1>11. ASSUME NEW d \in Caches \ {c} PROVE EnsureFrozen(d, k)' = EnsureFrozen(d, k)
  <2>1. frozen'[d] = frozen[d]
    BY <1>1, <1>2
  <2>2. bytes' = bytes
    BY DEF UpdateFreeze
  <2>3. ids'[d] = ids[d]
    <3>1. \E s : ids' = [ids EXCEPT ![c] = ids[c] \o s]
      BY DEF UpdateFreeze
    <3>2. QED BY <3>1 DEF LayerInv, TypeOK
  <2>4. QED BY <2>1, <2>2, <2>3, EnsureKept
<1>12. QED BY <1>10, <1>11 DEF w, cut, e

LEMMA EnsureEmpty ==
  ASSUME NEW c \in Caches, NEW k \in Layers, ids'[c] = <<>>, frozen'[c][k] = <<>>
  PROVE  EnsureFrozen(c, k)' = <<>>
<1>1. EnsureFrozen(c, k)' = FromPool(c, k)'
  BY DEF EnsureFrozen
<1>2. Len(ids'[c]) * BlockSize = 0 /\ \A id \in ToSet(ids'[c]) : IsMaterialized(id)'
  BY BlockSizeAssumption DEF ToSet
<1> DEFINE Of(p) == bytes'[ids'[c][((p - 1) \div BlockSize) + 1]][k][((p - 1) % BlockSize) + 1]
<1>3. FromPool(c, k)' = [p \in 1 .. Len(ids'[c]) * BlockSize |-> Of(p)]
  BY <1>2 DEF FromPool
<1> HIDE DEF Of
<1>4. FromPool(c, k)' = [p \in 1 .. 0 |-> Of(p)]
  BY <1>2, <1>3
<1>5. [p \in 1 .. 0 |-> Of(p)] \in [1 .. 0 -> {}]
  OBVIOUS
<1>6. FromPool(c, k)' \in Seq({}) /\ Len(FromPool(c, k)') = 0
  BY <1>4, <1>5, FunctionIsSeq
<1>7. QED BY <1>1, <1>6, EmptySeq

LEMMA EnsureTruncateBlocks ==
  ASSUME PoolInv, LayerInv, ~StaleOffers, NEW c \in Caches, NEW len \in 0 .. MaxLen,
         TruncateBlocks(c, len), NEW k \in Layers
  PROVE  /\ EnsureFrozen(c, k)' = SubSeq(EnsureFrozen(c, k), 1, Keep(len) * BlockSize)
         /\ \A d \in Caches \ {c} : EnsureFrozen(d, k)' = EnsureFrozen(d, k)
<1> DEFINE boundary == Keep(len) * BlockSize
           S == ToSet(SubSeq(ids[c], Keep(len) + 1, Len(ids[c])))
           e == EnsureFrozen(c, k)
<1>1. /\ frozen' = [frozen EXCEPT ![c] = [l \in Layers |-> SubSeq(EnsureFrozen(c, l), 1, boundary)]]
      /\ ids' = [ids EXCEPT ![c] = SubSeq(ids[c], 1, Keep(len))]
      /\ ReleaseBlocks(S)
  BY DEF TruncateBlocks, KeptFrozen, Keep
<1>2. /\ frozen \in [Caches -> [Layers -> Seq(Content)]] /\ ids \in [Caches -> Seq(Ids)]
      /\ ids[c] \in Seq(Ids) /\ Len(ids[c]) \in Nat /\ Distinct(ids[c])
  BY LayerFacts, PoolFacts DEF LayerInv, TypeOK
<1>3. /\ Keep(len) \in Nat /\ Keep(len) < Len(ids[c]) /\ boundary \in Nat
      /\ boundary = 0 => Keep(len) = 0
      /\ e \in Seq(Content) /\ boundary <= Len(e)
  BY CutFacts, EnsuredWhole
<1>4. frozen'[c][k] = SubSeq(e, 1, boundary)
  BY <1>1, <1>2
<1> HIDE DEF boundary, e
<1>5. SubSeq(e, 1, boundary) \in Seq(Content) /\ Len(SubSeq(e, 1, boundary)) = boundary
  BY <1>3, FirstElements
<1>6. ASSUME boundary = 0 PROVE EnsureFrozen(c, k)' = SubSeq(e, 1, boundary)
  <2>1. SubSeq(e, 1, boundary) = <<>>
    BY <1>5, <1>6, EmptySeq
  <2>2. 0 \in Nat /\ 0 <= Len(ids[c])
    BY <1>2
  <2>3. SubSeq(ids[c], 1, 0) \in Seq(Ids) /\ Len(SubSeq(ids[c], 1, 0)) = 0
    BY <1>2, <2>2, FirstElements
  <2>4. ids'[c] = <<>>
    BY <1>1, <1>2, <1>3, <1>6, <2>3, EmptySeq
  <2>5. EnsureFrozen(c, k)' = <<>>
    BY <1>4, <2>1, <2>4, EnsureEmpty
  <2>6. QED BY <2>1, <2>5
<1>7. ASSUME boundary # 0 PROVE EnsureFrozen(c, k)' = SubSeq(e, 1, boundary)
  <2>1. frozen'[c][k] # <<>>
    <3>1. Len(frozen'[c][k]) # 0
      BY <1>4, <1>5, <1>7
    <3>2. QED BY <3>1
  <2>2. QED BY <1>4, <2>1 DEF EnsureFrozen
<1>8. S \in SUBSET Ids /\ S \subseteq ToSet(ids[c])
  <2>1. Keep(len) \in 0 .. Len(ids[c])
    BY <1>2, <1>3
  <2>2. S \subseteq ToSet(ids[c])
    BY <1>2, <2>1, CutTable
  <2>3. QED BY <2>2, PoolFacts
<1> HIDE DEF S
<1>9. ASSUME NEW d \in Caches \ {c} PROVE EnsureFrozen(d, k)' = EnsureFrozen(d, k)
  <2>1. frozen'[d] = frozen[d] /\ ids'[d] = ids[d]
    BY <1>1, <1>2
  <2>2. \A id \in ToSet(ids[d]) : bytes'[id] = bytes[id]
    BY <1>1, <1>8, ReleasedKept
  <2>3. QED BY <2>1, <2>2, EnsureKept
<1>10. EnsureFrozen(c, k)' = SubSeq(e, 1, boundary)
  BY <1>6, <1>7
<1>11. QED BY <1>9, <1>10 DEF e, boundary

LEMMA EnsureCleared ==
  ASSUME PoolInv, LayerInv, ~StaleOffers, NEW c \in Caches,
         ids' = [ids EXCEPT ![c] = <<>>], frozen' = [frozen EXCEPT ![c] = EmptySlots],
         ReleaseBlocks(ToSet(ids[c])), NEW k \in Layers
  PROVE  /\ EnsureFrozen(c, k)' = <<>>
         /\ \A d \in Caches \ {c} : EnsureFrozen(d, k)' = EnsureFrozen(d, k)
<1>1. frozen \in [Caches -> [Layers -> Seq(Content)]] /\ ids \in [Caches -> Seq(Ids)]
  BY DEF LayerInv, TypeOK
<1>2. ids'[c] = <<>> /\ frozen'[c][k] = <<>>
  BY <1>1, NoSlots
<1>3. ToSet(ids[c]) \in SUBSET Ids
  BY PoolFacts
<1>4. ASSUME NEW d \in Caches \ {c} PROVE EnsureFrozen(d, k)' = EnsureFrozen(d, k)
  <2>1. frozen'[d] = frozen[d] /\ ids'[d] = ids[d]
    BY <1>1
  <2>2. \A id \in ToSet(ids[d]) : bytes'[id] = bytes[id]
    BY <1>3, ReleasedKept
  <2>3. QED BY <2>1, <2>2, EnsureKept
<1>5. QED BY <1>2, <1>4, EnsureEmpty

LEMMA EnsureShareable ==
  ASSUME LayerInv, NEW c \in Caches, NEW n, ShareablePrefixBlocks(c, n),
         NEW d \in Caches, NEW k \in Layers
  PROVE  EnsureFrozen(d, k)' = EnsureFrozen(d, k)
<1>1. /\ frozen' = [frozen EXCEPT ![c] = [l \in Layers |-> EnsureFrozen(c, l)]]
      /\ ids' = ids
      /\ \A id \in Ids : IsMaterialized(id) => bytes'[id] = bytes[id]
  BY DEF ShareablePrefixBlocks
<1>2. frozen \in [Caches -> [Layers -> Seq(Content)]]
  BY DEF LayerInv, TypeOK
<1>3. frozen'[d][k] = frozen[d][k] \/ frozen'[d][k] = EnsureFrozen(d, k)
  <2>1. CASE d = c
    BY <1>1, <1>2, <2>1
  <2>2. CASE d # c
    BY <1>1, <1>2, <2>2
  <2>3. QED BY <2>1, <2>2
<1>4. ASSUME frozen[d][k] = <<>>, NEW id \in ToSet(ids[d]) PROVE bytes'[id] = bytes[id]
  <2>1. IsMaterialized(id)
    BY <1>4 DEF LayerInv, FrozenWhole
  <2>2. id \in Ids
    BY LayerFacts, LenProperties, ElementOfSeq DEF ToSet
  <2>3. QED BY <1>1, <2>1, <2>2
<1>5. QED BY <1>1, <1>3, <1>4, EnsureKept

-----------------------------------------------------------------------------
(* The bytes of a block *)

(* What the pool has of block i is what a layer has there. *)
BlockIntact(c, l, i) ==
  IsMaterialized(ids[c][i]) =>
    \A q \in 1 .. BlockSize :
      EnsureFrozen(c, l)[(i - 1) * BlockSize + q] = bytes[ids[c][i]][l][q]

BlocksIntact ==
  \A c \in Caches, l \in Layers :
    frozen[c][l] # <<>> => \A i \in 1 .. Len(ids[c]) : BlockIntact(c, l, i)

FreeKeepNothing == \A id \in Ids : IsMaterialized(id) => refs[id] > 0

(* Blocks are shared through the pool only: when a block is materialized for *)
(* the first time, no cache but the one that does it holds the block.        *)
SharedMaterialized ==
  \A c, d \in Caches : c # d =>
    \A id \in ToSet(ids[c]) : id \in ToSet(ids[d]) => IsMaterialized(id)

BytesInv ==
  /\ BlocksIntact
  /\ FreeKeepNothing
  /\ SharedMaterialized

(* It holds of a layer that is yet to be built, too. *)
LEMMA AllIntact ==
  ASSUME LayerInv, BytesInv, NEW c \in Caches, NEW l \in Layers, NEW i \in 1 .. Len(ids[c])
  PROVE  BlockIntact(c, l, i)
<1>1. CASE frozen[c][l] # <<>>
  BY <1>1 DEF BytesInv, BlocksIntact
<1>2. CASE frozen[c][l] = <<>>
  BY <1>2, PoolElements DEF BlockIntact
<1>3. QED BY <1>1, <1>2

LEMMA IntactKept ==
  ASSUME LayerInv, BytesInv, NEW d \in Caches, NEW k \in Layers,
         ids'[d] = ids[d], EnsureFrozen(d, k)' = EnsureFrozen(d, k),
         NEW i \in 1 .. Len(ids[d]), bytes'[ids[d][i]] = bytes[ids[d][i]]
  PROVE  BlockIntact(d, k, i)'
<1>1. BlockIntact(d, k, i)
  BY AllIntact
<1>2. QED BY <1>1 DEF BlockIntact, IsMaterialized

LEMMA BytesInit == Init => BytesInv
<1> SUFFICES ASSUME Init PROVE BytesInv
  OBVIOUS
<1>1. /\ \A c \in Caches : ids[c] = <<>> /\ frozen[c] = EmptySlots
      /\ \A id \in Ids : bytes[id] = EmptySlots
  BY DEF Init
<1>2. BlocksIntact
  BY <1>1, NoSlots DEF BlocksIntact
<1>3. FreeKeepNothing
  BY <1>1 DEF FreeKeepNothing, IsMaterialized
<1>4. SharedMaterialized
  BY <1>1 DEF SharedMaterialized, ToSet
<1>5. QED BY <1>2, <1>3, <1>4 DEF BytesInv

(* A step that changes neither the pool nor a table nor what a layer has *)
LEMMA BytesUnchanged ==
  ASSUME LayerInv, BytesInv, UNCHANGED <<ids, refs, bytes>>,
         \A d \in Caches, k \in Layers : EnsureFrozen(d, k)' = EnsureFrozen(d, k)
  PROVE  BytesInv'
<1>1. \A d \in Caches, k \in Layers : \A i \in 1 .. Len(ids[d]) : BlockIntact(d, k, i)'
  BY IntactKept
<1>2. BlocksIntact'
  BY <1>1 DEF BlocksIntact
<1>3. FreeKeepNothing' /\ SharedMaterialized'
  BY DEF BytesInv, FreeKeepNothing, SharedMaterialized, IsMaterialized
<1>4. QED BY <1>2, <1>3 DEF BytesInv

LEMMA BytesNewSeeded ==
  ASSUME PoolInv, LayerInv, BytesInv, NEW c \in Caches, NewSeeded(c)
  PROVE  BytesInv'
<1>1. /\ c \notin live /\ ids' = [ids EXCEPT ![c] = offer] /\ refs' = Retain(ToSet(offer))
      /\ UNCHANGED <<frozen, bytes>>
  BY DEF NewSeeded
<1>2. ids'[c] = offer /\ \A d \in Caches \ {c} : ids'[d] = ids[d]
  BY <1>1 DEF LayerInv, TypeOK
<1>3. \A id : IsMaterialized(id)' = IsMaterialized(id)
  BY <1>1 DEF IsMaterialized
<1>4. \A d \in Caches \ {c}, k \in Layers : EnsureFrozen(d, k)' = EnsureFrozen(d, k)
  BY <1>1, <1>2, EnsureKept
<1>5. \A d \in Caches \ {c}, k \in Layers : \A i \in 1 .. Len(ids[d]) : BlockIntact(d, k, i)'
  BY <1>1, <1>2, <1>4, IntactKept
<1>6. \A l \in Layers : frozen'[c][l] = <<>>
  BY <1>1, NoSlots DEF LayerInv, DeadClean
<1>7. BlocksIntact'
  <2>1. ASSUME NEW d \in Caches, NEW k \in Layers, frozen'[d][k] # <<>>,
               NEW i \in 1 .. Len(ids'[d])
        PROVE  BlockIntact(d, k, i)'
    <3>1. d # c
      BY <1>6, <2>1
    <3>2. QED BY <1>2, <1>5, <3>1
  <2>2. QED BY <2>1 DEF BlocksIntact
<1>8. FreeKeepNothing'
  BY <1>1, <1>3, PoolFacts DEF BytesInv, FreeKeepNothing, Retain
<1>9. SharedMaterialized'
  <2>1. \A id \in ToSet(offer) : IsMaterialized(id)
    BY DEF LayerInv, OfferMaterialized
  <2>2. ASSUME NEW a \in Caches, NEW d \in Caches, a # d, NEW id,
               id \in ToSet(ids'[a]), id \in ToSet(ids'[d])
        PROVE  IsMaterialized(id)
    <3>1. CASE a = c \/ d = c
      BY <1>2, <2>1, <2>2, <3>1
    <3>2. CASE a # c /\ d # c
      BY <1>2, <2>2, <3>2 DEF BytesInv, SharedMaterialized
    <3>3. QED BY <3>1, <3>2
  <2>3. QED BY <1>3, <2>2 DEF SharedMaterialized
<1>10. QED BY <1>7, <1>8, <1>9 DEF BytesInv

LEMMA BytesUpdateFreeze ==
  ASSUME PoolInv, LayerInv, BytesInv, NEW c \in Caches, NEW new, Pass(c, new),
         NEW l, l = layer[c], UpdateFreeze(c, l, new)
  PROVE  BytesInv'
<1> DEFINE full == Full(c, new)
           n == Len(ids[c])
<1>1. PICK s \in AllocIds(full) :
        /\ ToSet(s) \subseteq Ids
        /\ ids' = [ids EXCEPT ![c] = ids[c] \o s]
        /\ refs' = Retain(ToSet(s))
  BY DEF UpdateFreeze, Full, NewLen
<1>2. bytes' = bytes
  BY DEF UpdateFreeze
<1>3. \A id : IsMaterialized(id)' = IsMaterialized(id)
  BY <1>2 DEF IsMaterialized
<1>4. full \in Nat
  BY FreezeFacts
<1> HIDE DEF full
<1>5. s \in Seq(Ids) /\ \A id \in ToSet(s) : refs[id] = 0
  BY <1>1, <1>4, AllocFresh
<1>6. ids[c] \in Seq(Ids) /\ n \in Nat /\ BlockSize \in Nat \ {0} /\ n * BlockSize \in Nat
  BY LayerFacts
<1>7. ids'[c] = ids[c] \o s /\ \A d \in Caches \ {c} : ids'[d] = ids[d]
  BY <1>1 DEF LayerInv, TypeOK
<1>8. /\ Len(ids'[c]) = n + Len(s) /\ Len(s) \in Nat
      /\ \A i \in 1 .. n : ids'[c][i] = ids[c][i]
      /\ \A i \in n + 1 .. n + Len(s) : ids'[c][i] = s[i - n]
      /\ ToSet(ids'[c]) = ToSet(ids[c]) \cup ToSet(s)
  BY <1>5, <1>6, <1>7, ConcatElements, ToSetConcat
<1>9. \A id \in ToSet(s) : id \in Ids /\ ~IsMaterialized(id)
  BY <1>1, <1>5 DEF BytesInv, FreeKeepNothing
<1>10. \A d \in Caches \ {c}, k \in Layers : EnsureFrozen(d, k)' = EnsureFrozen(d, k)
  BY EnsureUpdateFreeze
<1>11. \A d \in Caches \ {c}, k \in Layers : \A i \in 1 .. Len(ids[d]) : BlockIntact(d, k, i)'
  BY <1>2, <1>7, <1>10, IntactKept
<1>12. ASSUME NEW k \in Layers, NEW i \in 1 .. n PROVE BlockIntact(c, k, i)'
  <2> DEFINE e == EnsureFrozen(c, k)
             x == SubSeq(Whole(c, l, new, k), 1, full * BlockSize)
  <2>1. EnsureFrozen(c, k)' = e \o x
    BY EnsureUpdateFreeze DEF full
  <2>2. e \in Seq(Content) /\ Len(e) = n * BlockSize
    BY EnsuredWhole
  <2>3. x \in Seq(Content)
    <3>1. /\ Whole(c, l, new, k) \in Seq(Content) /\ full * BlockSize \in Nat
          /\ full * BlockSize <= Len(Whole(c, l, new, k))
      BY FreezeFacts DEF full
    <3>2. QED BY <3>1, FirstElements
  <2> HIDE DEF e, x
  <2>4. \A p \in 1 .. Len(e) : (e \o x)[p] = e[p]
    BY <2>2, <2>3, ConcatElements
  <2>5. ASSUME NEW q \in 1 .. BlockSize
        PROVE  EnsureFrozen(c, k)'[(i - 1) * BlockSize + q] = e[(i - 1) * BlockSize + q]
    <3>1. (i - 1) * BlockSize + q \in 1 .. n * BlockSize
      BY <1>6, PositionOfBlock
    <3>2. QED BY <2>1, <2>2, <2>4, <3>1
  <2>6. BlockIntact(c, k, i) /\ ids'[c][i] = ids[c][i]
    BY <1>8, AllIntact
  <2>7. QED BY <1>2, <1>3, <2>5, <2>6 DEF BlockIntact, e
<1>13. ASSUME NEW k \in Layers, NEW i \in 1 .. Len(ids'[c]), ~(i \in 1 .. n)
       PROVE  BlockIntact(c, k, i)'
  <2>1. i \in n + 1 .. n + Len(s) /\ i - n \in 1 .. Len(s)
    BY <1>6, <1>8, <1>13
  <2>2. ids'[c][i] = s[i - n] /\ s[i - n] \in ToSet(s)
    BY <1>5, <1>8, <2>1, LenProperties DEF ToSet
  <2>3. ~IsMaterialized(ids'[c][i])
    BY <1>9, <2>2
  <2>4. ~IsMaterialized(ids[c][i])'
    BY <1>3, <2>3
  <2>5. QED BY <2>4 DEF BlockIntact
<1>14. BlocksIntact'
  <2>1. ASSUME NEW d \in Caches, NEW k \in Layers, NEW i \in 1 .. Len(ids'[d])
        PROVE  BlockIntact(d, k, i)'
    BY <1>7, <1>11, <1>12, <1>13
  <2>2. QED BY <2>1 DEF BlocksIntact
<1>15. FreeKeepNothing'
  BY <1>1, <1>3, PoolFacts DEF BytesInv, FreeKeepNothing, Retain
<1>16. SharedMaterialized'
  <2>1. ASSUME NEW a \in Caches, NEW d \in Caches, a # d, NEW id,
               id \in ToSet(ids'[a]), id \in ToSet(ids'[d])
        PROVE  IsMaterialized(id)
    <3>1. \A f \in Caches : id \in ToSet(ids[f]) => id \notin ToSet(s)
      BY <1>5, PoolFacts
    <3>2. id \in ToSet(ids[a]) /\ id \in ToSet(ids[d])
      BY <1>7, <1>8, <2>1, <3>1
    <3>3. QED BY <2>1, <3>2 DEF BytesInv, SharedMaterialized
  <2>2. QED BY <1>3, <2>1 DEF SharedMaterialized
<1>17. QED BY <1>14, <1>15, <1>16 DEF BytesInv

LEMMA BytesReleased ==
  ASSUME PoolInv, LayerInv, BytesInv, ~StaleOffers, NEW c \in Caches, NEW S \in SUBSET Ids,
         S \subseteq ToSet(ids[c]), ReleaseBlocks(S),
         ToSet(ids'[c]) \subseteq ToSet(ids[c]), \A d \in Caches \ {c} : ids'[d] = ids[d]
  PROVE  FreeKeepNothing' /\ SharedMaterialized'
<1>1. /\ refs' = [id \in Ids |-> IF id \in S THEN refs[id] - 1 ELSE refs[id]]
      /\ bytes' = [id \in Ids |-> IF id \in S /\ refs[id] = 1 THEN EmptySlots ELSE bytes[id]]
  BY DEF ReleaseBlocks, Release, FreedBytes
<1>2. \A id \in Ids : refs[id] \in Nat
  BY PoolFacts
<1>3. FreeKeepNothing'
  <2>1. ASSUME NEW id \in Ids, bytes'[id] # EmptySlots PROVE refs'[id] > 0
    <3>1. ~(id \in S /\ refs[id] = 1) /\ bytes[id] # EmptySlots
      BY <1>1, <2>1
    <3>2. refs[id] > 0
      BY <3>1 DEF BytesInv, FreeKeepNothing, IsMaterialized
    <3>3. QED BY <1>1, <1>2, <3>1, <3>2
  <2>2. QED BY <2>1 DEF FreeKeepNothing, IsMaterialized
<1>4. SharedMaterialized'
  <2>1. ASSUME NEW a \in Caches, NEW d \in Caches, a # d, NEW id,
               id \in ToSet(ids'[a]), id \in ToSet(ids'[d])
        PROVE  bytes'[id] # EmptySlots
    <3>1. id \in ToSet(ids[a]) /\ id \in ToSet(ids[d])
      BY <2>1
    <3>2. bytes[id] # EmptySlots
      BY <2>1, <3>1 DEF BytesInv, SharedMaterialized, IsMaterialized
    <3>3. \A f \in Caches \ {c} : \A x \in ToSet(ids[f]) : bytes'[x] = bytes[x]
      BY ReleasedKept
    <3>4. bytes'[id] = bytes[id]
      BY <2>1, <3>1, <3>3
    <3>5. QED BY <3>2, <3>4
  <2>2. QED BY <2>1 DEF SharedMaterialized, IsMaterialized
<1>5. QED BY <1>3, <1>4

LEMMA BytesTruncateBlocks ==
  ASSUME PoolInv, LayerInv, BytesInv, ~StaleOffers, NEW c \in Caches, NEW len \in 0 .. MaxLen,
         TruncateBlocks(c, len)
  PROVE  BytesInv'
<1> DEFINE keep == Keep(len)
           n == Len(ids[c])
           S == ToSet(SubSeq(ids[c], keep + 1, n))
<1>1. ids' = [ids EXCEPT ![c] = SubSeq(ids[c], 1, keep)] /\ ReleaseBlocks(S)
  BY DEF TruncateBlocks, Keep
<1>2. ids[c] \in Seq(Ids) /\ n \in Nat /\ Distinct(ids[c]) /\ BlockSize \in Nat \ {0}
  BY LayerFacts, PoolFacts
<1>3. /\ keep \in Nat /\ keep < n /\ keep \in 0 .. n
      /\ keep * BlockSize \in Nat /\ keep * BlockSize <= n * BlockSize
  BY <1>2, CutFacts
<1> HIDE DEF keep
<1>4. /\ S \in SUBSET Ids /\ S \subseteq ToSet(ids[c])
      /\ ToSet(SubSeq(ids[c], 1, keep)) = ToSet(ids[c]) \ S
  <2>1. /\ S \subseteq ToSet(ids[c])
        /\ ToSet(SubSeq(ids[c], 1, keep)) = ToSet(ids[c]) \ S
    BY <1>2, <1>3, CutTable
  <2>2. QED BY <2>1, PoolFacts
<1>5. ids'[c] = SubSeq(ids[c], 1, keep) /\ \A d \in Caches \ {c} : ids'[d] = ids[d]
  BY <1>1 DEF LayerInv, TypeOK
<1>6. Len(ids'[c]) = keep /\ \A i \in 1 .. keep : ids'[c][i] = ids[c][i]
  <2>1. keep <= Len(ids[c])
    BY <1>2, <1>3
  <2>2. QED BY <1>2, <1>3, <1>5, <2>1, FirstElements
<1> HIDE DEF S
<1>7. FreeKeepNothing' /\ SharedMaterialized'
  BY <1>1, <1>4, <1>5, BytesReleased
<1>8. /\ \A id \in Ids : ~(id \in S /\ refs[id] = 1) => bytes'[id] = bytes[id]
      /\ \A d \in Caches \ {c} : \A id \in ToSet(ids[d]) : bytes'[id] = bytes[id]
  BY <1>1, <1>4, ReleasedKept
<1>9. ASSUME NEW d \in Caches \ {c}, NEW k \in Layers, NEW i \in 1 .. Len(ids[d])
      PROVE  BlockIntact(d, k, i)'
  <2>1. EnsureFrozen(d, k)' = EnsureFrozen(d, k)
    BY EnsureTruncateBlocks
  <2>2. ids[d][i] \in ToSet(ids[d])
    BY LayerFacts, LenProperties DEF ToSet
  <2>3. QED BY <1>5, <1>8, <2>1, <2>2, IntactKept
<1>10. ASSUME NEW k \in Layers, NEW i \in 1 .. keep PROVE BlockIntact(c, k, i)'
  <2> DEFINE e == EnsureFrozen(c, k)
             b == keep * BlockSize
  <2>1. EnsureFrozen(c, k)' = SubSeq(e, 1, b)
    BY EnsureTruncateBlocks DEF keep
  <2>2. e \in Seq(Content) /\ Len(e) = n * BlockSize
    BY EnsuredWhole
  <2>3. b \in Nat /\ b <= Len(e)
    BY <1>3, <2>2
  <2> HIDE DEF e
  <2>4. \A p \in 1 .. b : SubSeq(e, 1, b)[p] = e[p]
    BY <2>2, <2>3, FirstElements
  <2>5. \A q \in 1 .. BlockSize : (i - 1) * BlockSize + q \in 1 .. b
    BY <1>2, <1>3, PositionOfBlock
  <2> HIDE DEF b
  <2>6. \A q \in 1 .. BlockSize :
          EnsureFrozen(c, k)'[(i - 1) * BlockSize + q] = e[(i - 1) * BlockSize + q]
    BY <2>1, <2>4, <2>5
  <2>7. i \in 1 .. n
    BY <1>2, <1>3
  <2>8. BlockIntact(c, k, i) /\ ids'[c][i] = ids[c][i]
    BY <1>6, <2>7, AllIntact
  <2>9. bytes'[ids[c][i]] = bytes[ids[c][i]]
    <3>1. ids'[c][i] \in ToSet(ids'[c])
      BY <1>3, <1>6, <1>5, <1>2, LenProperties DEF ToSet
    <3>2. ids[c][i] \in Ids /\ ids[c][i] \notin S
      BY <1>4, <1>5, <2>8, <3>1, PoolFacts
    <3>3. QED BY <1>8, <3>2
  <2>10. QED BY <2>6, <2>8, <2>9 DEF BlockIntact, IsMaterialized, e
<1>11. BlocksIntact'
  <2>1. ASSUME NEW d \in Caches, NEW k \in Layers, NEW i \in 1 .. Len(ids'[d])
        PROVE  BlockIntact(d, k, i)'
    BY <1>5, <1>6, <1>9, <1>10
  <2>2. QED BY <2>1 DEF BlocksIntact
<1>12. QED BY <1>7, <1>11 DEF BytesInv

LEMMA BytesCleared ==
  ASSUME PoolInv, LayerInv, BytesInv, ~StaleOffers, NEW c \in Caches,
         ids' = [ids EXCEPT ![c] = <<>>], frozen' = [frozen EXCEPT ![c] = EmptySlots],
         ReleaseBlocks(ToSet(ids[c]))
  PROVE  BytesInv'
<1>1. ids'[c] = <<>> /\ \A d \in Caches \ {c} : ids'[d] = ids[d]
  BY DEF LayerInv, TypeOK
<1>2. ToSet(ids[c]) \in SUBSET Ids /\ ToSet(ids'[c]) = {}
  BY <1>1, PoolFacts DEF ToSet
<1>3. FreeKeepNothing' /\ SharedMaterialized'
  BY <1>1, <1>2, BytesReleased
<1>4. \A d \in Caches \ {c} : \A id \in ToSet(ids[d]) : bytes'[id] = bytes[id]
  BY <1>2, ReleasedKept
<1>5. ASSUME NEW d \in Caches \ {c}, NEW k \in Layers, NEW i \in 1 .. Len(ids[d])
      PROVE  BlockIntact(d, k, i)'
  <2>1. EnsureFrozen(d, k)' = EnsureFrozen(d, k)
    BY EnsureCleared
  <2>2. ids[d][i] \in ToSet(ids[d])
    BY LayerFacts, LenProperties DEF ToSet
  <2>3. QED BY <1>1, <1>4, <2>1, <2>2, IntactKept
<1>6. BlocksIntact'
  <2>1. ASSUME NEW d \in Caches, NEW k \in Layers, NEW i \in 1 .. Len(ids'[d])
        PROVE  BlockIntact(d, k, i)'
    <3>1. d # c
      BY <1>1, <2>1
    <3>2. QED BY <1>1, <1>5, <2>1, <3>1
  <2>2. QED BY <2>1 DEF BlocksIntact
<1>7. QED BY <1>3, <1>6 DEF BytesInv

LEMMA SliceOfBlock ==
  ASSUME LayerInv, NEW c \in Caches, NEW l \in Layers, NEW i \in 1 .. Len(ids[c]),
         NEW q \in 1 .. BlockSize
  PROVE  BlockSlice(c, l, i)[q] = EnsureFrozen(c, l)[(i - 1) * BlockSize + q]
<1> DEFINE e == EnsureFrozen(c, l)
           m == (i - 1) * BlockSize
           u == i * BlockSize
<1>1. BlockSize \in Nat \ {0} /\ Len(ids[c]) \in Nat
  BY LayerFacts
<1>2. m \in Nat /\ u = m + BlockSize /\ u <= Len(ids[c]) * BlockSize
  BY <1>1, BlockBounds
<1>3. e \in Seq(Content) /\ Len(e) = Len(ids[c]) * BlockSize
  BY EnsuredWhole
<1>4. BlockSlice(c, l, i) = SubSeq(e, m + 1, u)
  BY DEF BlockSlice
<1> HIDE DEF e, m, u
<1>5. m \in Nat /\ u \in Nat /\ m <= u /\ u <= Len(e) /\ u - m = BlockSize
  BY <1>1, <1>2, <1>3
<1>6. \A r \in 1 .. u - m : SubSeq(e, m + 1, u)[r] = e[m + r]
  BY <1>3, <1>5, SliceElements
<1>7. BlockSlice(c, l, i)[q] = e[m + q]
  BY <1>4, <1>5, <1>6
<1>8. QED BY <1>7 DEF e, m

(* What is published of a block is the slice of the layer's copy. *)
LEMMA BytesShareable ==
  ASSUME PoolInv, LayerInv, BytesInv, NEW c \in Caches, NEW n, ShareablePrefixBlocks(c, n)
  PROVE  BytesInv'
<1>1. /\ n \in 1 .. Len(ids[c]) /\ ids' = ids /\ refs' = refs
      /\ bytes' = [id \in Ids |->
           IF ~IsMaterialized(id) /\ \E i \in 1 .. n : ids[c][i] = id
           THEN [l \in Layers |-> BlockSlice(c, l, CHOOSE j \in 1 .. n : ids[c][j] = id)]
           ELSE bytes[id]]
  BY DEF ShareablePrefixBlocks
<1>2. /\ ids[c] \in Seq(Ids) /\ Len(ids[c]) \in Nat /\ Distinct(ids[c])
      /\ BlockSize \in Nat \ {0} /\ DOMAIN ids[c] = 1 .. Len(ids[c])
      /\ \A i \in 1 .. Len(ids[c]) : ids[c][i] \in Ids /\ ids[c][i] \in ToSet(ids[c])
  BY LayerFacts, PoolFacts, LenProperties, ElementOfSeq DEF ToSet
<1>3. /\ \A id \in Ids : IsMaterialized(id) => bytes'[id] = bytes[id]
      /\ \A id \in Ids : (~\E i \in 1 .. n : ids[c][i] = id) => bytes'[id] = bytes[id]
  BY <1>1
<1>4. \A d \in Caches, k \in Layers : EnsureFrozen(d, k)' = EnsureFrozen(d, k)
  BY EnsureShareable
<1>5. ASSUME NEW k \in Layers, NEW i \in 1 .. Len(ids[c]),
             bytes'[ids[c][i]] # bytes[ids[c][i]]
      PROVE  BlockIntact(c, k, i)'
  <2>1. PICK id : id = ids[c][i]
    OBVIOUS
  <2>2. id \in Ids /\ ~IsMaterialized(id) /\ \E j \in 1 .. n : ids[c][j] = id
    BY <1>2, <1>3, <1>5, <2>1
  <2>3. PICK j : j = CHOOSE m \in 1 .. n : ids[c][m] = id
    OBVIOUS
  <2>4. j \in 1 .. n /\ ids[c][j] = id
    BY <2>2, <2>3
  <2>5. j = i
    BY <1>1, <1>2, <2>1, <2>4 DEF Distinct
  <2>6. bytes'[id] = [l \in Layers |-> BlockSlice(c, l, i)]
    BY <1>1, <2>2, <2>3, <2>5
  <2>7. bytes'[id][k] = BlockSlice(c, k, i)
    BY <2>6
  <2>8. \A q \in 1 .. BlockSize :
          BlockSlice(c, k, i)[q] = EnsureFrozen(c, k)[(i - 1) * BlockSize + q]
    BY SliceOfBlock
  <2>9. QED BY <1>1, <1>4, <2>1, <2>7, <2>8 DEF BlockIntact
<1>6. ASSUME NEW d \in Caches, NEW k \in Layers, NEW i \in 1 .. Len(ids[d])
      PROVE  BlockIntact(d, k, i)'
  <2>1. ids[d][i] \in Ids /\ ids[d][i] \in ToSet(ids[d])
    BY LayerFacts, LenProperties, ElementOfSeq DEF ToSet
  <2>2. CASE bytes'[ids[d][i]] = bytes[ids[d][i]]
    BY <1>1, <1>4, <2>2, IntactKept
  <2>3. CASE bytes'[ids[d][i]] # bytes[ids[d][i]]
    <3>1. ~IsMaterialized(ids[d][i]) /\ ids[d][i] \in ToSet(ids[c])
      BY <1>1, <1>2, <1>3, <2>1, <2>3
    <3>2. d = c
      BY <2>1, <3>1 DEF BytesInv, SharedMaterialized
    <3>3. QED BY <1>5, <2>3, <3>2
  <2>4. QED BY <2>2, <2>3
<1>7. BlocksIntact'
  BY <1>1, <1>6 DEF BlocksIntact
<1>8. FreeKeepNothing'
  <2>1. ASSUME NEW id \in Ids, bytes'[id] # EmptySlots PROVE refs[id] > 0
    <3>1. CASE bytes[id] # EmptySlots
      BY <3>1 DEF BytesInv, FreeKeepNothing, IsMaterialized
    <3>2. CASE bytes[id] = EmptySlots
      <4>1. \E i \in 1 .. n : ids[c][i] = id
        BY <1>3, <2>1, <3>2
      <4>2. id \in ToSet(ids[c])
        BY <1>1, <1>2, <4>1
      <4>3. QED BY <4>2, PoolFacts
    <3>3. QED BY <3>1, <3>2
  <2>2. QED BY <1>1, <2>1 DEF FreeKeepNothing, IsMaterialized
<1>9. SharedMaterialized'
  <2>1. ASSUME NEW a \in Caches, NEW d \in Caches, a # d, NEW id,
               id \in ToSet(ids[a]), id \in ToSet(ids[d])
        PROVE  bytes'[id] # EmptySlots
    <3>1. IsMaterialized(id) /\ id \in Ids
      BY <2>1, PoolFacts DEF BytesInv, SharedMaterialized
    <3>2. QED BY <1>3, <3>1 DEF IsMaterialized
  <2>2. QED BY <1>1, <2>1 DEF SharedMaterialized, IsMaterialized
<1>10. QED BY <1>7, <1>8, <1>9 DEF BytesInv

LEMMA BytesNext ==
  ASSUME ~StaleOffers, PoolInv, LayerInv, BytesInv, [Next]_vars
  PROVE  BytesInv'
<1>1. CASE UNCHANGED vars
  <2>1. \A d \in Caches, k \in Layers : EnsureFrozen(d, k)' = EnsureFrozen(d, k)
    BY <1>1, EnsureKept DEF vars
  <2>2. QED BY <1>1, <2>1, BytesUnchanged DEF vars
<1>2. CASE Next
  <2>1. PICK c \in Caches :
          \/ NewCache(c)
          \/ NewSeeded(c)
          \/ \E new \in Chunks : Update(c, new)
          \/ \E len \in 0 .. MaxLen : Truncate(c, len)
          \/ Reset(c)
          \/ \E n \in 1 .. MaxBlocks : ShareablePrefixBlocks(c, n)
          \/ Drop(c)
    BY <1>2 DEF Next
  <2>2. CASE NewCache(c)
    <3>1. \A d \in Caches, k \in Layers : EnsureFrozen(d, k)' = EnsureFrozen(d, k)
      BY <2>2, EnsureKept DEF NewCache
    <3>2. QED BY <2>2, <3>1, BytesUnchanged DEF NewCache
  <2>3. CASE NewSeeded(c)
    BY <2>3, BytesNewSeeded
  <2>4. ASSUME NEW new \in Chunks, Update(c, new) PROVE BytesInv'
    <3>1. Pass(c, new) /\ (UpdateTail(c, layer[c], new) \/ UpdateFreeze(c, layer[c], new))
      BY <2>4 DEF Update, Pass
    <3>2. CASE UpdateTail(c, layer[c], new)
      <4>1. layer[c] \in Layers
        BY LayerFacts
      <4>2. \A d \in Caches, k \in Layers : EnsureFrozen(d, k)' = EnsureFrozen(d, k)
        BY <3>2, <4>1, EnsureUpdateTail
      <4>3. UNCHANGED <<ids, refs, bytes>>
        BY <3>2 DEF UpdateTail, poolVars
      <4>4. QED BY <4>2, <4>3, BytesUnchanged
    <3>3. CASE UpdateFreeze(c, layer[c], new)
      BY <3>1, <3>3, BytesUpdateFreeze
    <3>4. QED BY <3>1, <3>2, <3>3
  <2>5. ASSUME NEW len \in 0 .. MaxLen, Truncate(c, len) PROVE BytesInv'
    <3>1. TruncateTail(c, len) \/ TruncateBlocks(c, len)
      BY <2>5 DEF Truncate
    <3>2. CASE TruncateTail(c, len)
      <4>1. UNCHANGED <<ids, frozen, refs, bytes>>
        BY <3>2 DEF TruncateTail, poolVars
      <4>2. \A d \in Caches, k \in Layers : EnsureFrozen(d, k)' = EnsureFrozen(d, k)
        BY <4>1, EnsureKept
      <4>3. QED BY <4>1, <4>2, BytesUnchanged
    <3>3. CASE TruncateBlocks(c, len)
      BY <3>3, BytesTruncateBlocks
    <3>4. QED BY <3>1, <3>2, <3>3
  <2>6. CASE Reset(c)
    BY <2>6, BytesCleared DEF Reset
  <2>7. ASSUME NEW n \in 1 .. MaxBlocks, ShareablePrefixBlocks(c, n) PROVE BytesInv'
    BY <2>7, BytesShareable
  <2>8. CASE Drop(c)
    BY <2>8, BytesCleared DEF Drop
  <2>9. QED BY <2>1, <2>2, <2>3, <2>4, <2>5, <2>6, <2>7, <2>8
<1>3. QED BY <1>1, <1>2

(* For any number of caches, layers and blocks and any block size, as long   *)
(* as a caller forgets an offer when one of its blocks is freed: the pool's  *)
(* bytes of a block are, at every layer, the slice that each of its holders  *)
(* has there, whatever the others freeze, roll back or drop; and a block     *)
(* that nobody holds keeps no bytes.                                         *)
THEOREM SpecSharedBytesIntact == ~StaleOffers => (Spec => []SharedBytesIntact)
<1> SUFFICES ASSUME ~StaleOffers PROVE Spec => []SharedBytesIntact
  OBVIOUS
<1>1. ASSUME LayerInv, BytesInv, NEW c \in live, NEW l \in Layers, NEW i \in DOMAIN ids[c],
             IsMaterialized(ids[c][i])
      PROVE  bytes[ids[c][i]][l] = BlockSlice(c, l, i)
  <2>1. c \in Caches
    BY <1>1 DEF LayerInv, TypeOK
  <2>2. i \in 1 .. Len(ids[c]) /\ ids[c][i] \in Ids
    BY <1>1, <2>1, LayerFacts, LenProperties, ElementOfSeq
  <2>3. bytes[ids[c][i]][l] \in [1 .. BlockSize -> Content]
    BY <1>1, <2>2 DEF LayerInv, TypeOK, IsMaterialized
  <2>4. BlockSlice(c, l, i) \in [1 .. BlockSize -> Content]
    BY <1>1, <2>1, <2>2, BlockWhole
  <2>5. BlockIntact(c, l, i)
    BY <1>1, <2>1, <2>2, AllIntact
  <2>6. \A q \in 1 .. BlockSize : bytes[ids[c][i]][l][q] = BlockSlice(c, l, i)[q]
    BY <1>1, <2>1, <2>2, <2>5, SliceOfBlock DEF BlockIntact
  <2>7. PICK f, g, Q : f = bytes[ids[c][i]][l] /\ g = BlockSlice(c, l, i) /\ Q = 1 .. BlockSize
    OBVIOUS
  <2>8. f \in [Q -> Content] /\ g \in [Q -> Content] /\ \A q \in Q : f[q] = g[q]
    BY <2>3, <2>4, <2>6, <2>7
  <2>9. f = g
    BY <2>8, SameFunction
  <2>10. QED BY <2>7, <2>9
<1>2. LayerInv /\ BytesInv => SharedBytesIntact
  BY <1>1 DEF SharedBytesIntact, BytesInv, FreeKeepNothing
<1>3. Init => PoolInv /\ LayerInv /\ BytesInv
  BY PoolInit, LayerInit, BytesInit
<1>4. PoolInv /\ LayerInv /\ BytesInv /\ [Next]_vars => PoolInv' /\ LayerInv' /\ BytesInv'
  BY PoolNext, LayerNext, BytesNext
<1>5. QED BY <1>2, <1>3, <1>4, PTL DEF Spec

-----------------------------------------------------------------------------
(***************************************************************************)
(* The proof that PagedKv implements ContiguousKv: under the mapping of kv  *)
(* to what gather returns, every step of the paged caches is a step of the  *)
(* contiguous ones or changes nothing they show.                            *)
(*                                                                          *)
(* Seeding is the hard case.  The contiguous specification copies a prefix  *)
(* of a live cache; the pool hands over ids.  Donor finds a cache that still*)
(* holds all of them, and the elements agree because the pool has the bytes *)
(* of each block (LayerInv) and they are the donor's (BytesInv).  LengthInv *)
(* bounds the prefix by MaxLen, as the specification does.                  *)
(***************************************************************************)

-----------------------------------------------------------------------------
(* A cache that holds the whole offer, and the length of every cache *)

LEMMA Donor ==
  ASSUME PoolInv, SharingInv, offer # <<>>
  PROVE  \E d \in live : /\ Len(offer) \in 1 .. Len(ids[d])
                         /\ \A i \in 1 .. Len(offer) : offer[i] = ids[d][i]
<1> DEFINE n == Len(offer)
<1>1. /\ offer \in Seq(Ids) /\ n \in Nat /\ DOMAIN offer = 1 .. n
      /\ \A i \in 1 .. n : offer[i] \in Ids /\ offer[i] \in ToSet(offer)
  BY PoolFacts, LenProperties, ElementOfSeq DEF ToSet
<1>2. n # 0
  BY <1>1, EmptySeq
<1>3. n \in 1 .. n
  BY <1>1, <1>2
<1>4. refs[offer[n]] > 0 /\ refs[offer[n]] = Cardinality(Holders(offer[n]))
  BY <1>1, <1>3 DEF SharingInv, OfferLive, PoolInv, RefcountsExact
<1>5. Holders(offer[n]) # {}
  <2>1. PICK H, r : H = Holders(offer[n]) /\ r = refs[offer[n]]
    OBVIOUS
  <2>2. r > 0 /\ r = Cardinality(H)
    BY <1>4, <2>1
  <2>3. H # {}
    BY <2>2, FS_EmptySet
  <2>4. QED BY <2>1, <2>3
<1>6. PICK d \in Caches : offer[n] \in ToSet(ids[d])
  BY <1>5 DEF Holders
<1>7. ids[d] \in Seq(Ids) /\ DOMAIN ids[d] = 1 .. Len(ids[d])
  BY PoolFacts, LenProperties
<1>8. PICK j \in DOMAIN ids[d] : ids[d][j] = offer[n]
  BY <1>6 DEF ToSet
<1>9. n = j /\ \A i \in 1 .. n : offer[i] = ids[d][i]
  BY <1>1, <1>3, <1>8 DEF SharingInv, Agree
<1>10. d \in live
  <2>1. ids[d] # <<>>
    BY <1>8
  <2>2. QED BY <2>1 DEF PoolInv, DeadHoldNothing
<1>11. QED BY <1>7, <1>8, <1>9, <1>10

(* No cache outgrows the bound, the running pass included. *)
LengthInv ==
  \A c \in Caches :
    Len(ids[c]) * BlockSize + tailLen[c] + (IF layer[c] # 0 THEN Len(chunk[c]) ELSE 0) <= MaxLen

LEMMA LengthFacts ==
  ASSUME LayerInv, LengthInv, NEW c \in Caches
  PROVE  Len(ids[c]) * BlockSize <= MaxLen /\ Len(ids[c]) * BlockSize + tailLen[c] <= MaxLen
<1>1. /\ Len(ids[c]) * BlockSize \in Nat /\ tailLen[c] \in Nat /\ Len(chunk[c]) \in Nat
      /\ MaxLen \in Nat
  BY LayerFacts, BoundsAssumption
<1> DEFINE n == Len(ids[c]) * BlockSize
<1>2. n + tailLen[c] + (IF layer[c] # 0 THEN Len(chunk[c]) ELSE 0) <= MaxLen
  BY DEF LengthInv
<1> HIDE DEF n
<1>3. n <= MaxLen /\ n + tailLen[c] <= MaxLen
  BY <1>1, <1>2 DEF n
<1>4. QED BY <1>3 DEF n

LEMMA LengthInit == Init => LengthInv
<1> SUFFICES ASSUME Init, NEW c \in Caches
             PROVE  Len(ids[c]) * BlockSize + tailLen[c]
                      + (IF layer[c] # 0 THEN Len(chunk[c]) ELSE 0) <= MaxLen
  BY DEF LengthInv
<1>1. ids[c] = <<>> /\ tailLen[c] = 0 /\ layer[c] = 0 /\ MaxLen \in Nat /\ BlockSize \in Nat
  BY BoundsAssumption, BlockSizeAssumption DEF Init
<1>2. Len(<<>>) = 0
  OBVIOUS
<1>3. QED BY <1>1, <1>2

(* A step that leaves a cache alone, or cuts it between passes *)
LEMMA LengthKept ==
  ASSUME LayerInv, LayerInv', LengthInv, NEW c \in Caches,
         \A d \in Caches \ {c} :
           /\ ids'[d] = ids[d] /\ tailLen'[d] = tailLen[d]
           /\ layer'[d] = layer[d] /\ chunk'[d] = chunk[d],
         layer'[c] = 0,
         Len(ids'[c]) * BlockSize + tailLen'[c] <= MaxLen
  PROVE  LengthInv'
<1>1. ASSUME NEW d \in Caches
      PROVE  Len(ids'[d]) * BlockSize + tailLen'[d]
               + (IF layer'[d] # 0 THEN Len(chunk'[d]) ELSE 0) <= MaxLen
  <2>1. CASE d # c
    BY <2>1 DEF LengthInv
  <2>2. CASE d = c
    <3>1. Len(ids'[c]) \in Nat /\ tailLen'[c] \in Nat /\ BlockSize \in Nat
      <4>1. ids'[c] \in Seq(Ids) /\ tailLen'[c] \in 0 .. BlockSize - 1
        BY DEF LayerInv, TypeOK
      <4>2. QED BY <4>1, BlockSizeAssumption, LenProperties
    <3>2. Len(ids'[c]) * BlockSize \in Nat
      BY <3>1
    <3> DEFINE n == Len(ids'[c]) * BlockSize
    <3>3. n \in Nat /\ n + tailLen'[c] <= MaxLen
      BY <3>2
    <3> HIDE DEF n
    <3>4. n + tailLen'[c] + 0 <= MaxLen
      BY <3>1, <3>3
    <3>5. QED BY <2>2, <3>4 DEF n
  <2>3. QED BY <2>1, <2>2
<1>2. QED BY <1>1 DEF LengthInv

LEMMA LengthNewSeeded ==
  ASSUME PoolInv, SharingInv, LayerInv, LayerInv', LengthInv, NEW c \in Caches, NewSeeded(c)
  PROVE  LengthInv'
<1>1. /\ ids' = [ids EXCEPT ![c] = offer] /\ offer # <<>> /\ c \notin live
      /\ UNCHANGED <<tailLen, layer, chunk>>
  BY DEF NewSeeded
<1>2. /\ ids'[c] = offer
      /\ \A d \in Caches \ {c} : ids'[d] = ids[d]
  BY <1>1 DEF LayerInv, TypeOK
<1>3. tailLen[c] = 0 /\ layer[c] = 0
  BY <1>1 DEF LayerInv, DeadClean
<1>4. PICK d \in live : Len(offer) \in 1 .. Len(ids[d])
  BY <1>1, Donor
<1>5. d \in Caches
  BY DEF LayerInv, TypeOK
<1>6. /\ Len(ids[d]) \in Nat /\ Len(ids[d]) * BlockSize <= MaxLen
      /\ BlockSize \in Nat \ {0} /\ Len(ids[d]) * BlockSize \in Nat
  BY <1>5, LayerFacts, LengthFacts
<1>7. (Len(offer) - 1) * BlockSize \in Nat
      /\ Len(offer) * BlockSize = (Len(offer) - 1) * BlockSize + BlockSize
      /\ Len(offer) * BlockSize <= Len(ids[d]) * BlockSize
  BY <1>4, <1>6, BlockBounds
<1> DEFINE n == Len(offer) * BlockSize
           m == Len(ids[d]) * BlockSize
           x == (Len(offer) - 1) * BlockSize
<1>8. x \in Nat /\ n = x + BlockSize /\ n <= m /\ m \in Nat /\ m <= MaxLen
  BY <1>6, <1>7
<1> HIDE DEF n, m, x
<1>9. n + 0 <= MaxLen
  BY <1>6, <1>8, BoundsAssumption
<1>10. Len(ids'[c]) * BlockSize + tailLen'[c] <= MaxLen
  BY <1>1, <1>2, <1>3, <1>9 DEF n
<1>11. QED BY <1>1, <1>2, <1>3, <1>10, LengthKept

(* The chunk of the running pass fits, at every layer. *)
LEMMA ChunkFits ==
  ASSUME LayerInv, LengthInv, NEW c \in Caches, NEW new \in Chunks, Update(c, new)
  PROVE  Len(ids[c]) * BlockSize + tailLen[c] + Len(new) <= MaxLen
<1>1. CASE layer[c] = 0
  BY <1>1 DEF Update, Length
<1>2. CASE layer[c] # 0
  BY <1>2 DEF Update, LengthInv
<1>3. QED BY <1>1, <1>2

LEMMA LengthUpdateTail ==
  ASSUME LayerInv, LayerInv', LengthInv, NEW c \in Caches, NEW new \in Chunks, Update(c, new),
         UpdateTail(c, layer[c], new)
  PROVE  LengthInv'
<1> DEFINE n == Len(ids[c]) * BlockSize
           l == layer[c]
           last == l + 1 = NumLayers
<1>1. /\ tailLen' = IF last THEN [tailLen EXCEPT ![c] = @ + Len(new)] ELSE tailLen
      /\ layer' = [layer EXCEPT ![c] = NextLayer(l)]
      /\ chunk' = [chunk EXCEPT ![c] = IF last THEN <<>> ELSE new]
      /\ ids' = ids
  BY DEF UpdateTail
<1>2. n \in Nat /\ tailLen[c] \in Nat /\ l \in Layers /\ l \in Nat /\ BlockSize \in Nat
  BY LayerFacts DEF Layers
<1>3. Len(new) \in Nat /\ MaxLen \in Nat
  BY ChunksAssumption, LenProperties, BoundsAssumption
<1>4. n + tailLen[c] + Len(new) <= MaxLen
  BY ChunkFits
<1> HIDE DEF n, l
<1>5. \A d \in Caches \ {c} :
        /\ ids'[d] = ids[d] /\ tailLen'[d] = tailLen[d]
        /\ layer'[d] = layer[d] /\ chunk'[d] = chunk[d]
  BY <1>1 DEF LayerInv, TypeOK
<1>6. CASE last
  <2>1. layer'[c] = 0 /\ tailLen'[c] = tailLen[c] + Len(new)
    BY <1>1, <1>6 DEF NextLayer, LayerInv, TypeOK
  <2>2. n + (tailLen[c] + Len(new)) <= MaxLen
    BY <1>2, <1>3, <1>4
  <2>3. QED BY <1>1, <1>5, <2>1, <2>2, LengthKept DEF n
<1>7. CASE ~last
  <2>1. layer'[c] = l + 1 /\ tailLen'[c] = tailLen[c] /\ chunk'[c] = new
    BY <1>1, <1>7 DEF NextLayer, LayerInv, TypeOK
  <2>2. n + tailLen'[c] + (IF layer'[c] # 0 THEN Len(chunk'[c]) ELSE 0) <= MaxLen
    BY <1>2, <1>4, <2>1
  <2>3. ASSUME NEW d \in Caches
        PROVE  Len(ids'[d]) * BlockSize + tailLen'[d]
                 + (IF layer'[d] # 0 THEN Len(chunk'[d]) ELSE 0) <= MaxLen
    <3>1. CASE d # c
      BY <1>5, <3>1 DEF LengthInv
    <3>2. CASE d = c
      BY <1>1, <2>2, <3>2 DEF n
    <3>3. QED BY <3>1, <3>2
  <2>4. QED BY <2>3 DEF LengthInv
<1>8. QED BY <1>6, <1>7

LEMMA LengthUpdateFreeze ==
  ASSUME PoolInv, LayerInv, LayerInv', LengthInv, NEW c \in Caches, NEW new \in Chunks,
         Update(c, new), UpdateFreeze(c, layer[c], new)
  PROVE  LengthInv'
<1> DEFINE n == Len(ids[c])
           full == Full(c, new)
<1>1. /\ tailLen' = [tailLen EXCEPT ![c] = NewLen(c, new) - full * BlockSize]
      /\ layer' = [layer EXCEPT ![c] = 0]
      /\ chunk' = [chunk EXCEPT ![c] = <<>>]
  BY DEF UpdateFreeze, Full, NewLen
<1>2. PICK s \in AllocIds(full) :
        ToSet(s) \subseteq Ids /\ ids' = [ids EXCEPT ![c] = ids[c] \o s]
  BY DEF UpdateFreeze, Full, NewLen
<1>3. Pass(c, new)
  BY DEF Update, Pass
<1>4. /\ NewLen(c, new) \in Nat /\ full \in Nat /\ full * BlockSize \in Nat
      /\ full * BlockSize <= NewLen(c, new)
  BY <1>3, FreezeFacts
<1> HIDE DEF full
<1>5. s \in Seq(Ids)
  BY <1>2, <1>4, AllocFresh
<1>6. Len(s) = full
  BY <1>4, FunctionIsSeq DEF AllocIds
<1>7. ids[c] \in Seq(Ids) /\ n \in Nat /\ BlockSize \in Nat /\ n * BlockSize \in Nat
      /\ tailLen[c] \in Nat /\ MaxLen \in Nat
  BY LayerFacts, BoundsAssumption
<1>8. Len(ids[c] \o s) = n + full
  BY <1>5, <1>6, <1>7, Joined
<1>9. /\ ids'[c] = ids[c] \o s /\ tailLen'[c] = NewLen(c, new) - full * BlockSize
      /\ layer'[c] = 0
      /\ \A d \in Caches \ {c} :
           /\ ids'[d] = ids[d] /\ tailLen'[d] = tailLen[d]
           /\ layer'[d] = layer[d] /\ chunk'[d] = chunk[d]
  BY <1>1, <1>2 DEF LayerInv, TypeOK
<1>10. n * BlockSize + tailLen[c] + Len(new) <= MaxLen /\ NewLen(c, new) = tailLen[c] + Len(new)
       /\ Len(new) \in Nat
  BY ChunkFits, ChunksAssumption, LenProperties DEF NewLen
<1>11. n * BlockSize + full * BlockSize = (n + full) * BlockSize
  <2>1. n \in Nat /\ full \in Nat /\ BlockSize \in Nat
    BY <1>4, <1>7
  <2> HIDE DEF n
  <2>2. QED BY <2>1, Distributes
<1> DEFINE a == n * BlockSize
           b == full * BlockSize
           w == NewLen(c, new)
           ab == (n + full) * BlockSize
<1>12. a \in Nat /\ b \in Nat /\ w \in Nat /\ ab = a + b /\ w = tailLen[c] + Len(new)
       /\ a + tailLen[c] + Len(new) <= MaxLen
  BY <1>4, <1>7, <1>10, <1>11
<1>13. tailLen[c] \in Nat /\ Len(new) \in Nat /\ MaxLen \in Nat
  BY <1>7, <1>10
<1> HIDE DEF a, b, w, ab
<1>14. ab + (w - b) <= MaxLen
  <2>1. PICK u, v : u = tailLen[c] /\ v = Len(new)
    OBVIOUS
  <2>2. u \in Nat /\ v \in Nat /\ w = u + v /\ a + u + v <= MaxLen
    BY <1>12, <1>13, <2>1
  <2>3. ab + (w - b) = a + w
    BY <1>12
  <2>4. QED BY <1>12, <1>13, <2>2, <2>3
<1>15. Len(ids'[c]) * BlockSize + tailLen'[c] <= MaxLen
  BY <1>8, <1>9, <1>14 DEF ab, w, b
<1>16. QED BY <1>9, <1>15, LengthKept

LEMMA LengthUnchanged ==
  ASSUME LengthInv, UNCHANGED <<ids, tailLen, layer, chunk>>
  PROVE  LengthInv'
BY DEF LengthInv

(* A roll-back to len leaves len positions, whether it cuts the tail or      *)
(* drops blocks.                                                             *)
LEMMA LengthTruncate ==
  ASSUME LayerInv, LayerInv', LengthInv, NEW c \in Caches, NEW len \in 0 .. MaxLen,
         Truncate(c, len)
  PROVE  LengthInv'
<1>1. layer[c] = 0 /\ len \in Nat /\ len <= MaxLen /\ MaxLen \in Nat
  BY BoundsAssumption DEF Truncate
<1>2. layer' = layer /\ chunk' = chunk /\ tailLen' = [tailLen EXCEPT ![c] = tailLen'[c]]
      /\ ids' = [ids EXCEPT ![c] = ids'[c]]
      /\ Len(ids'[c]) * BlockSize + tailLen'[c] = len
  <2>1. CASE TruncateTail(c, len)
    <3>1. /\ layer' = layer /\ chunk' = chunk /\ ids' = ids
          /\ tailLen' = [tailLen EXCEPT ![c] = len - Len(ids[c]) * BlockSize]
      BY <2>1 DEF TruncateTail
    <3>2. tailLen'[c] = len - Len(ids[c]) * BlockSize
      BY <3>1 DEF LayerInv, TypeOK
    <3>3. Len(ids[c]) * BlockSize \in Nat
      BY LayerFacts
    <3> DEFINE n == Len(ids[c]) * BlockSize
    <3>4. n \in Nat /\ tailLen'[c] = len - n
      BY <3>2, <3>3
    <3> HIDE DEF n
    <3>5. n + tailLen'[c] = len
      BY <1>1, <3>4
    <3>6. Len(ids'[c]) * BlockSize + tailLen'[c] = len
      BY <3>1, <3>5 DEF n
    <3>7. ids = [ids EXCEPT ![c] = ids[c]]
      BY DEF LayerInv, TypeOK
    <3>8. QED BY <3>1, <3>2, <3>6, <3>7
  <2>2. CASE TruncateBlocks(c, len)
    <3>1. /\ layer' = layer /\ chunk' = chunk /\ ids' = [ids EXCEPT ![c] = SubSeq(ids[c], 1, Keep(len))]
          /\ tailLen' = [tailLen EXCEPT ![c] = len - Keep(len) * BlockSize]
      BY <2>2 DEF TruncateBlocks, Keep
    <3>2. /\ tailLen'[c] = len - Keep(len) * BlockSize
          /\ ids'[c] = SubSeq(ids[c], 1, Keep(len))
      BY <3>1 DEF LayerInv, TypeOK
    <3>3. /\ Keep(len) \in Nat /\ Keep(len) <= Len(ids[c]) /\ Keep(len) * BlockSize \in Nat
      <4>1. Keep(len) \in Nat /\ Keep(len) < Len(ids[c]) /\ Keep(len) * BlockSize \in Nat
        BY <2>2, CutFacts
      <4>2. QED BY <4>1, LayerFacts
    <3>4. Len(ids'[c]) = Keep(len)
      BY <3>2, <3>3, LayerFacts, FirstElements
    <3> DEFINE n == Keep(len) * BlockSize
    <3>5. n \in Nat /\ tailLen'[c] = len - n
      BY <3>2, <3>3
    <3> HIDE DEF n
    <3>6. n + tailLen'[c] = len
      BY <1>1, <3>5
    <3>7. Len(ids'[c]) * BlockSize + tailLen'[c] = len
      BY <3>4, <3>6 DEF n
    <3>8. QED BY <3>1, <3>2, <3>7
  <2>3. QED BY <2>1, <2>2 DEF Truncate
<1>3. \A d \in Caches \ {c} :
        /\ ids'[d] = ids[d] /\ tailLen'[d] = tailLen[d]
        /\ layer'[d] = layer[d] /\ chunk'[d] = chunk[d]
  BY <1>2 DEF LayerInv, TypeOK
<1>4. QED BY <1>1, <1>2, <1>3, LengthKept

LEMMA LengthCleared ==
  ASSUME LayerInv, LayerInv', LengthInv, NEW c \in Caches,
         ids' = [ids EXCEPT ![c] = <<>>], tailLen' = [tailLen EXCEPT ![c] = 0],
         layer'[c] = 0,
         \A d \in Caches \ {c} : layer'[d] = layer[d] /\ chunk'[d] = chunk[d]
  PROVE  LengthInv'
<1>1. /\ ids'[c] = <<>> /\ tailLen'[c] = 0
      /\ \A d \in Caches \ {c} : ids'[d] = ids[d] /\ tailLen'[d] = tailLen[d]
  BY DEF LayerInv, TypeOK
<1>2. Len(ids'[c]) * BlockSize + tailLen'[c] <= MaxLen
  BY <1>1, BlockSizeAssumption, BoundsAssumption
<1>3. QED BY <1>1, <1>2, LengthKept

LEMMA LengthNext ==
  ASSUME PoolInv, SharingInv, LayerInv, LayerInv', LengthInv, [Next]_vars
  PROVE  LengthInv'
<1>1. CASE UNCHANGED vars
  BY <1>1, LengthUnchanged DEF vars
<1>2. CASE Next
  <2>1. PICK c \in Caches :
          \/ NewCache(c)
          \/ NewSeeded(c)
          \/ \E new \in Chunks : Update(c, new)
          \/ \E len \in 0 .. MaxLen : Truncate(c, len)
          \/ Reset(c)
          \/ \E n \in 1 .. MaxBlocks : ShareablePrefixBlocks(c, n)
          \/ Drop(c)
    BY <1>2 DEF Next
  <2>2. CASE NewCache(c)
    BY <2>2, LengthUnchanged DEF NewCache
  <2>3. CASE NewSeeded(c)
    BY <2>3, LengthNewSeeded
  <2>4. ASSUME NEW new \in Chunks, Update(c, new) PROVE LengthInv'
    BY <2>4, LengthUpdateTail, LengthUpdateFreeze DEF Update
  <2>5. ASSUME NEW len \in 0 .. MaxLen, Truncate(c, len) PROVE LengthInv'
    BY <2>5, LengthTruncate
  <2>6. CASE Reset(c)
    BY <2>6, LengthCleared DEF Reset
  <2>7. ASSUME NEW n \in 1 .. MaxBlocks, ShareablePrefixBlocks(c, n) PROVE LengthInv'
    BY <2>7, LengthUnchanged DEF ShareablePrefixBlocks
  <2>8. CASE Drop(c)
    <3>1. /\ ids' = [ids EXCEPT ![c] = <<>>] /\ tailLen' = [tailLen EXCEPT ![c] = 0]
          /\ layer' = [layer EXCEPT ![c] = 0] /\ chunk' = [chunk EXCEPT ![c] = <<>>]
      BY <2>8 DEF Drop
    <3>2. layer'[c] = 0 /\ \A d \in Caches \ {c} : layer'[d] = layer[d] /\ chunk'[d] = chunk[d]
      BY <3>1 DEF LayerInv, TypeOK
    <3>3. QED BY <3>1, <3>2, LengthCleared
  <2>9. QED BY <2>1, <2>2, <2>3, <2>4, <2>5, <2>6, <2>7, <2>8
<1>3. QED BY <1>1, <1>2

-----------------------------------------------------------------------------
(* What a layer attends over, before and after a step *)

LEMMA GatherParts ==
  ASSUME LayerInv, NEW c \in Caches, NEW l \in Layers
  PROVE  /\ Gather(c, l) = EnsureFrozen(c, l) \o tail[c][l] /\ Gather(c, l) \in Seq(Content)
         /\ EnsureFrozen(c, l) \in Seq(Content) /\ tail[c][l] \in Seq(Content)
         /\ Len(EnsureFrozen(c, l)) = Len(ids[c]) * BlockSize
         /\ Len(Gather(c, l)) = Len(EnsureFrozen(c, l)) + Len(tail[c][l])
         /\ Len(EnsureFrozen(c, l)) \in Nat /\ Len(tail[c][l]) \in Nat
<1>1. /\ EnsureFrozen(c, l) \in Seq(Content)
      /\ Len(EnsureFrozen(c, l)) = Len(ids[c]) * BlockSize
  BY EnsuredWhole
<1>2. tail[c][l] \in Seq(Content)
  BY LayerFacts
<1>3. PICK e, t : e = EnsureFrozen(c, l) /\ t = tail[c][l]
  OBVIOUS
<1>4. e \in Seq(Content) /\ t \in Seq(Content)
  BY <1>1, <1>2, <1>3
<1>5. e \o t \in Seq(Content) /\ Len(e \o t) = Len(e) + Len(t) /\ Len(e) \in Nat /\ Len(t) \in Nat
  BY <1>4, Joined
<1>6. Gather(c, l) = e \o t
  BY <1>3 DEF Gather
<1>7. QED BY <1>1, <1>2, <1>3, <1>5, <1>6

LEMMA GatherUpdateTail ==
  ASSUME LayerInv, NEW c \in Caches, NEW new \in Chunks, NEW l \in Layers,
         UpdateTail(c, l, new)
  PROVE  /\ Gather(c, l)' = Gather(c, l) \o new
         /\ \A d \in Caches, k \in Layers :
              (d # c \/ k # l) => Gather(d, k)' = Gather(d, k)
<1>1. tail' = [tail EXCEPT ![c][l] = tail[c][l] \o new]
  BY DEF UpdateTail, LayerInv, TypeOK
<1>2. /\ tail'[c][l] = tail[c][l] \o new
      /\ \A d \in Caches, k \in Layers : (d # c \/ k # l) => tail'[d][k] = tail[d][k]
  BY <1>1 DEF LayerInv, TypeOK
<1>3. \A d \in Caches, k \in Layers : EnsureFrozen(d, k)' = EnsureFrozen(d, k)
  BY EnsureUpdateTail
<1>4. new \in Seq(Content)
  BY ChunksAssumption
<1>5. (EnsureFrozen(c, l) \o tail[c][l]) \o new = EnsureFrozen(c, l) \o (tail[c][l] \o new)
  <2>1. PICK e, t : e = EnsureFrozen(c, l) /\ t = tail[c][l]
    OBVIOUS
  <2>2. e \in Seq(Content) /\ t \in Seq(Content)
    BY <2>1, GatherParts
  <2>3. (e \o t) \o new = e \o (t \o new)
    BY <1>4, <2>2, ConcatAssociative
  <2>4. QED BY <2>1, <2>3
<1>6. Gather(c, l)' = EnsureFrozen(c, l) \o (tail[c][l] \o new)
  BY <1>2, <1>3 DEF Gather
<1>7. \A d \in Caches, k \in Layers : (d # c \/ k # l) => Gather(d, k)' = Gather(d, k)
  BY <1>2, <1>3 DEF Gather
<1>8. QED BY <1>5, <1>6, <1>7 DEF Gather

LEMMA GatherUpdateFreeze ==
  ASSUME LayerInv, NEW c \in Caches, NEW new, Pass(c, new), NEW l, l = layer[c],
         UpdateFreeze(c, l, new)
  PROVE  /\ Gather(c, l)' = Gather(c, l) \o new
         /\ \A d \in Caches, k \in Layers :
              (d # c \/ k # l) => Gather(d, k)' = Gather(d, k)
<1> DEFINE cut == Full(c, new) * BlockSize
<1>1. tail' = [tail EXCEPT ![c] =
        [k \in Layers |-> SubSeq(Whole(c, l, new, k), cut + 1, Len(Whole(c, l, new, k)))]]
  BY DEF UpdateFreeze, Full, NewLen, Whole
<1>2. /\ \A k \in Layers :
           tail'[c][k] = SubSeq(Whole(c, l, new, k), cut + 1, Len(Whole(c, l, new, k)))
      /\ \A d \in Caches \ {c} : tail'[d] = tail[d]
  BY <1>1 DEF LayerInv, TypeOK
<1>3. ASSUME NEW k \in Layers PROVE Gather(c, k)' = EnsureFrozen(c, k) \o Whole(c, l, new, k)
  <2>1. PICK e, w, m : e = EnsureFrozen(c, k) /\ w = Whole(c, l, new, k) /\ m = cut
    OBVIOUS
  <2>2. EnsureFrozen(c, k)' = e \o SubSeq(w, 1, m)
    BY <2>1, EnsureUpdateFreeze
  <2>3. Gather(c, k)' = (e \o SubSeq(w, 1, m)) \o SubSeq(w, m + 1, Len(w))
    BY <1>2, <2>1, <2>2 DEF Gather
  <2>4. e \in Seq(Content)
    BY <2>1, EnsuredWhole
  <2>5. w \in Seq(Content) /\ m \in Nat /\ m <= Len(w)
    BY <2>1, FreezeFacts
  <2> HIDE DEF cut
  <2>6. Len(w) \in Nat /\ Len(w) <= Len(w)
    BY <2>5, LenProperties
  <2>7. SubSeq(w, 1, m) \in Seq(Content)
    BY <2>5, FirstElements
  <2>8. SubSeq(w, m + 1, Len(w)) \in Seq(Content)
    BY <2>5, <2>6, SliceElements
  <2>9. (e \o SubSeq(w, 1, m)) \o SubSeq(w, m + 1, Len(w))
          = e \o (SubSeq(w, 1, m) \o SubSeq(w, m + 1, Len(w)))
    <3>1. PICK a, b : a = SubSeq(w, 1, m) /\ b = SubSeq(w, m + 1, Len(w))
      OBVIOUS
    <3>2. a \in Seq(Content) /\ b \in Seq(Content)
      BY <2>7, <2>8, <3>1
    <3>3. (e \o a) \o b = e \o (a \o b)
      BY <2>4, <3>2, ConcatAssociative
    <3>4. QED BY <3>1, <3>3
  <2>10. SubSeq(w, 1, m) \o SubSeq(w, m + 1, Len(w)) = w
    <3>1. SubSeq(w, 1, m) \o SubSeq(w, m + 1, Len(w)) = SubSeq(w, 1, Len(w))
      BY <2>5, <2>6, Rejoined
    <3>2. QED BY <2>5, <3>1, SubSeqFull
  <2>11. QED BY <2>1, <2>3, <2>9, <2>10
<1>4. l \in Layers
  BY LayerFacts
<1>5. Gather(c, l)' = Gather(c, l) \o new
  <2>1. PICK e, t : e = EnsureFrozen(c, l) /\ t = tail[c][l]
    OBVIOUS
  <2>2. e \in Seq(Content) /\ t \in Seq(Content)
    BY <1>4, <2>1, GatherParts
  <2>3. new \in Seq(Content)
    BY ChunksAssumption DEF Pass
  <2>4. Gather(c, l)' = e \o (t \o new)
    BY <1>3, <1>4, <2>1 DEF Whole
  <2>5. (e \o t) \o new = e \o (t \o new)
    BY <2>2, <2>3, ConcatAssociative
  <2>6. Gather(c, l) = e \o t
    BY <2>1 DEF Gather
  <2>7. QED BY <2>4, <2>5, <2>6
<1>6. ASSUME NEW k \in Layers, k # l PROVE Gather(c, k)' = Gather(c, k)
  BY <1>3, <1>6 DEF Whole, Gather
<1>7. ASSUME NEW d \in Caches, d # c, NEW k \in Layers PROVE Gather(d, k)' = Gather(d, k)
  <2>1. EnsureFrozen(d, k)' = EnsureFrozen(d, k)
    BY <1>7, EnsureUpdateFreeze
  <2>2. QED BY <1>2, <1>7, <2>1 DEF Gather
<1>8. QED BY <1>5, <1>6, <1>7

LEMMA GatherTruncateTail ==
  ASSUME LayerInv, NEW c \in live, layer[c] = 0, NEW len \in 0 .. MaxLen, len < Length(c),
         TruncateTail(c, len)
  PROVE  /\ \A k \in Layers : Gather(c, k)' = SubSeq(Gather(c, k), 1, len)
         /\ \A d \in Caches \ {c}, k \in Layers : Gather(d, k)' = Gather(d, k)
<1> DEFINE rem == len - Len(ids[c]) * BlockSize
<1>1. /\ rem >= 0 /\ UNCHANGED <<ids, frozen, bytes>>
      /\ tail' = [tail EXCEPT ![c] = [l \in Layers |-> SubSeq(tail[c][l], 1, rem)]]
  <2>1. tail \in [Caches -> [Layers -> Seq(Content)]] /\ c \in Caches
    BY DEF LayerInv, TypeOK
  <2>2. QED BY <2>1 DEF TruncateTail, poolVars
<1>2. c \in Caches /\ \A d \in Caches, k \in Layers : EnsureFrozen(d, k)' = EnsureFrozen(d, k)
  BY <1>1, EnsureKept DEF LayerInv, TypeOK
<1>3. /\ \A k \in Layers : tail'[c][k] = SubSeq(tail[c][k], 1, rem)
      /\ \A d \in Caches \ {c} : tail'[d] = tail[d]
  BY <1>1 DEF LayerInv, TypeOK
<1>4. ASSUME NEW k \in Layers PROVE Gather(c, k)' = SubSeq(Gather(c, k), 1, len)
  <2>1. PICK e, t, r : e = EnsureFrozen(c, k) /\ t = tail[c][k] /\ r = rem
    OBVIOUS
  <2>2. /\ e \in Seq(Content) /\ t \in Seq(Content) /\ Len(e) \in Nat /\ Len(t) \in Nat
        /\ Len(e) = Len(ids[c]) * BlockSize
    BY <1>2, <2>1, GatherParts
  <2>3. Len(t) = tailLen[c] /\ len \in Nat
    BY <1>2, <2>1, TailsAlike, BoundsAssumption
  <2>4. r = len - Len(e) /\ len < Len(e) + Len(t) /\ r >= 0
    BY <1>1, <2>1, <2>2, <2>3 DEF Length
  <2> HIDE DEF rem
  <2>5. r \in Nat /\ r <= Len(t) /\ Len(e) + r = len
    BY <2>2, <2>3, <2>4
  <2>6. SubSeq(e \o t, 1, Len(e) + r) = e \o SubSeq(t, 1, r)
    BY <2>2, <2>5, CutSecond
  <2>7. Gather(c, k)' = e \o SubSeq(t, 1, r)
    BY <1>2, <1>3, <2>1 DEF Gather
  <2>8. QED BY <2>1, <2>5, <2>6, <2>7 DEF Gather
<1>5. \A d \in Caches \ {c}, k \in Layers : Gather(d, k)' = Gather(d, k)
  BY <1>2, <1>3 DEF Gather
<1>6. QED BY <1>4, <1>5

LEMMA GatherTruncateBlocks ==
  ASSUME PoolInv, LayerInv, ~StaleOffers, NEW c \in Caches, NEW len \in 0 .. MaxLen,
         TruncateBlocks(c, len)
  PROVE  /\ \A k \in Layers : Gather(c, k)' = SubSeq(Gather(c, k), 1, len)
         /\ \A d \in Caches \ {c}, k \in Layers : Gather(d, k)' = Gather(d, k)
<1> DEFINE boundary == Keep(len) * BlockSize
<1>1. tail' = [tail EXCEPT ![c] =
        [l \in Layers |-> SubSeq(EnsureFrozen(c, l), boundary + 1, len)]]
  BY DEF TruncateBlocks, Unfrozen, Keep
<1>2. /\ \A k \in Layers : tail'[c][k] = SubSeq(EnsureFrozen(c, k), boundary + 1, len)
      /\ \A d \in Caches \ {c} : tail'[d] = tail[d]
  BY <1>1 DEF LayerInv, TypeOK
<1>3. boundary \in Nat /\ boundary <= len /\ len <= Len(ids[c]) * BlockSize /\ len \in Nat
  BY CutFacts, BoundsAssumption
<1>4. ASSUME NEW k \in Layers PROVE Gather(c, k)' = SubSeq(Gather(c, k), 1, len)
  <2>1. PICK e, t, b : e = EnsureFrozen(c, k) /\ t = tail[c][k] /\ b = boundary
    OBVIOUS
  <2>2. e \in Seq(Content) /\ t \in Seq(Content) /\ Len(e) = Len(ids[c]) * BlockSize
    BY <2>1, GatherParts
  <2>3. EnsureFrozen(c, k)' = SubSeq(e, 1, b)
    BY <2>1, EnsureTruncateBlocks
  <2>4. Gather(c, k)' = SubSeq(e, 1, b) \o SubSeq(e, b + 1, len)
    BY <1>2, <2>1, <2>3 DEF Gather
  <2>5. b \in Nat /\ b <= len /\ len <= Len(e)
    BY <1>3, <2>1, <2>2
  <2> HIDE DEF boundary
  <2>6. SubSeq(e, 1, b) \o SubSeq(e, b + 1, len) = SubSeq(e, 1, len)
    BY <1>3, <2>2, <2>5, Rejoined
  <2>7. SubSeq(e \o t, 1, len) = SubSeq(e, 1, len)
    BY <1>3, <2>2, <2>5, CutFirst
  <2>8. QED BY <2>1, <2>4, <2>6, <2>7 DEF Gather
<1>5. ASSUME NEW d \in Caches \ {c}, NEW k \in Layers PROVE Gather(d, k)' = Gather(d, k)
  <2>1. EnsureFrozen(d, k)' = EnsureFrozen(d, k)
    BY EnsureTruncateBlocks
  <2>2. QED BY <1>2, <2>1 DEF Gather
<1>6. QED BY <1>4, <1>5

LEMMA GatherCleared ==
  ASSUME PoolInv, LayerInv, ~StaleOffers, NEW c \in Caches,
         ids' = [ids EXCEPT ![c] = <<>>], frozen' = [frozen EXCEPT ![c] = EmptySlots],
         tail' = [tail EXCEPT ![c] = EmptySlots],
         ReleaseBlocks(ToSet(ids[c]))
  PROVE  /\ \A k \in Layers : Gather(c, k)' = <<>>
         /\ \A d \in Caches \ {c}, k \in Layers : Gather(d, k)' = Gather(d, k)
<1>1. /\ tail'[c] = EmptySlots /\ \A k \in Layers : EmptySlots[k] = <<>>
      /\ \A d \in Caches \ {c} : tail'[d] = tail[d]
  BY NoSlots DEF LayerInv, TypeOK
<1>2. /\ \A k \in Layers : EnsureFrozen(c, k)' = <<>>
      /\ \A d \in Caches \ {c}, k \in Layers : EnsureFrozen(d, k)' = EnsureFrozen(d, k)
  BY EnsureCleared
<1>3. <<>> \o <<>> = <<>>
  BY ConcatEmptySeq
<1>4. \A k \in Layers : Gather(c, k)' = <<>>
  BY <1>1, <1>2, <1>3 DEF Gather
<1>5. \A d \in Caches \ {c}, k \in Layers : Gather(d, k)' = Gather(d, k)
  BY <1>1, <1>2 DEF Gather
<1>6. QED BY <1>4, <1>5

LEMMA GatherKept ==
  ASSUME LayerInv, NEW d \in Caches, NEW k \in Layers, tail'[d] = tail[d],
         EnsureFrozen(d, k)' = EnsureFrozen(d, k)
  PROVE  Gather(d, k)' = Gather(d, k)
BY DEF Gather

(* The position of a block's element, and back *)
LEMMA Decomposed ==
  ASSUME NEW B \in Nat \ {0}, NEW n \in Nat, NEW r \in 1 .. n * B
  PROVE  /\ ((r - 1) \div B) + 1 \in 1 .. n /\ ((r - 1) % B) + 1 \in 1 .. B
         /\ (((r - 1) \div B) + 1 - 1) * B + (((r - 1) % B) + 1) = r
<1>1. n * B \in Nat
  OBVIOUS
<1>2. r \in Nat /\ r - 1 \in Nat /\ r - 1 < n * B
  BY <1>1
<1>3. PICK x, i, q : x = r - 1 /\ i = x \div B /\ q = x % B
  OBVIOUS
<1>4. x \in Nat /\ x < n * B
  BY <1>2, <1>3
<1>5. i \in 0 .. n - 1 /\ q \in 0 .. B - 1
  BY <1>3, <1>4, PositionInBlock
<1>6. i * B + q = x
  BY <1>3, <1>4
<1>7. (i + 1) - 1 = i
  BY <1>5
<1>8. i * B + (q + 1) = r
  <2>1. PICK m : m = i * B
    OBVIOUS
  <2>2. m \in Nat
    BY <1>5, <2>1
  <2>3. m + q = x
    BY <1>6, <2>1
  <2>4. m + (q + 1) = r
    BY <1>2, <1>3, <1>5, <2>2, <2>3
  <2>5. QED BY <2>1, <2>4
<1>9. i + 1 \in 1 .. n /\ q + 1 \in 1 .. B
  BY <1>5
<1>10. QED BY <1>3, <1>7, <1>8, <1>9

(* The elements of a contiguous copy, position by position *)
LEMMA EnsuredElements ==
  ASSUME LayerInv, BytesInv, NEW d \in Caches, NEW k \in Layers, NEW n \in Nat, n <= Len(ids[d]),
         \A i \in 1 .. n : IsMaterialized(ids[d][i]), NEW r \in 1 .. n * BlockSize
  PROVE  EnsureFrozen(d, k)[r] =
           bytes[ids[d][((r - 1) \div BlockSize) + 1]][k][((r - 1) % BlockSize) + 1]
<1>1. PICK i, q : i = ((r - 1) \div BlockSize) + 1 /\ q = ((r - 1) % BlockSize) + 1
  OBVIOUS
<1>2. i \in 1 .. n /\ q \in 1 .. BlockSize /\ (i - 1) * BlockSize + q = r
  BY <1>1, Decomposed, BlockSizeAssumption
<1>3. i \in 1 .. Len(ids[d])
  BY <1>2, LayerFacts
<1>4. IsMaterialized(ids[d][i])
  BY <1>2
<1>5. BlockIntact(d, k, i)
  BY <1>3, AllIntact
<1>6. EnsureFrozen(d, k)[(i - 1) * BlockSize + q] = bytes[ids[d][i]][k][q]
  BY <1>2, <1>4, <1>5 DEF BlockIntact
<1>7. QED BY <1>1, <1>2, <1>6

(* A seeded cache starts with what the donor holds in the offered blocks. *)
LEMMA EnsureNewSeeded ==
  ASSUME PoolInv, LayerInv, LayerInv', BytesInv, NEW c \in Caches, NewSeeded(c),
         NEW d \in live, Len(offer) \in 1 .. Len(ids[d]),
         \A i \in 1 .. Len(offer) : offer[i] = ids[d][i], NEW k \in Layers
  PROVE  EnsureFrozen(c, k)' = SubSeq(EnsureFrozen(d, k), 1, Len(offer) * BlockSize)
<1> DEFINE n == Len(offer)
           m == n * BlockSize
<1>1. /\ ids' = [ids EXCEPT ![c] = offer] /\ c \notin live /\ UNCHANGED <<frozen, bytes>>
  BY DEF NewSeeded
<1>2. ids'[c] = offer /\ c # d /\ d \in Caches
  BY <1>1 DEF LayerInv, TypeOK
<1>3. frozen'[c][k] = <<>>
  BY <1>1, NoSlots DEF LayerInv, DeadClean
<1>4. n \in Nat /\ n <= Len(ids[d]) /\ Len(ids[d]) \in Nat /\ BlockSize \in Nat /\ m \in Nat
  <2>1. Len(ids[d]) \in Nat /\ BlockSize \in Nat
    BY <1>2, LayerFacts
  <2>2. n \in Nat /\ n <= Len(ids[d])
    BY <2>1
  <2> HIDE DEF n
  <2>3. QED BY <2>1, <2>2
<1>5. \A i \in 1 .. n : IsMaterialized(ids[d][i])
  <2>1. ASSUME NEW i \in 1 .. n PROVE IsMaterialized(offer[i])
    <3>1. offer \in Seq(Ids) /\ DOMAIN offer = 1 .. n
      BY PoolFacts, LenProperties
    <3>2. offer[i] \in ToSet(offer)
      BY <2>1, <3>1 DEF ToSet
    <3>3. QED BY <3>2 DEF LayerInv, OfferMaterialized
  <2>2. QED BY <2>1
<1>6. \A id \in ToSet(ids'[c]) : IsMaterialized(id)'
  BY <1>1, <1>2 DEF LayerInv, OfferMaterialized, IsMaterialized
<1> DEFINE Of(r) == bytes[offer[((r - 1) \div BlockSize) + 1]][k][((r - 1) % BlockSize) + 1]
<1>7. EnsureFrozen(c, k)' = [r \in 1 .. m |-> Of(r)]
  <2>1. EnsureFrozen(c, k)' = FromPool(c, k)'
    BY <1>3 DEF EnsureFrozen
  <2> DEFINE To(r) ==
        bytes'[ids'[c][((r - 1) \div BlockSize) + 1]][k][((r - 1) % BlockSize) + 1]
  <2>2. FromPool(c, k)' = [r \in 1 .. Len(ids'[c]) * BlockSize |-> To(r)]
    BY <1>6 DEF FromPool
  <2>3. \A r : To(r) = Of(r)
    BY <1>1, <1>2
  <2> HIDE DEF To, Of
  <2>4. [r \in 1 .. m |-> To(r)] = [r \in 1 .. m |-> Of(r)]
    BY <2>3
  <2>5. QED BY <1>2, <2>1, <2>2, <2>4
<1>8. EnsureFrozen(d, k) \in Seq(Content) /\ Len(EnsureFrozen(d, k)) = Len(ids[d]) * BlockSize
  BY <1>2, EnsuredWhole
<1>9. m <= Len(ids[d]) * BlockSize
  BY <1>4, BlockBounds, BlockSizeAssumption
<1>10. ASSUME NEW r \in 1 .. m PROVE EnsureFrozen(d, k)[r] = Of(r)
  <2>1. EnsureFrozen(d, k)[r] =
          bytes[ids[d][((r - 1) \div BlockSize) + 1]][k][((r - 1) % BlockSize) + 1]
    BY <1>2, <1>4, <1>5, <1>10, EnsuredElements
  <2>2. ((r - 1) \div BlockSize) + 1 \in 1 .. n
    BY <1>4, <1>10, Decomposed, BlockSizeAssumption
  <2>3. offer[((r - 1) \div BlockSize) + 1] = ids[d][((r - 1) \div BlockSize) + 1]
    BY <2>2
  <2>4. QED BY <2>1, <2>3
<1> HIDE DEF Of, m, n
<1>11. PICK e, f, g : e = EnsureFrozen(d, k) /\ f = SubSeq(e, 1, m) /\ g = EnsureFrozen(c, k)'
  OBVIOUS
<1>12. f \in Seq(Content) /\ Len(f) = m /\ \A r \in 1 .. m : f[r] = e[r]
  BY <1>4, <1>8, <1>9, <1>11, FirstElements
<1>13. f = [r \in 1 .. m |-> f[r]]
  <2>1. DOMAIN f = 1 .. m /\ f \in [1 .. m -> Content]
    BY <1>12, LenProperties
  <2>2. QED BY <2>1
<1>14. \A r \in 1 .. m : f[r] = Of(r)
  BY <1>10, <1>11, <1>12
<1>15. f = g
  BY <1>7, <1>11, <1>13, <1>14
<1>16. QED BY <1>11, <1>15 DEF m, n

LEMMA GatherNewSeeded ==
  ASSUME PoolInv, LayerInv, LayerInv', BytesInv, NEW c \in Caches, NewSeeded(c),
         NEW d \in live, Len(offer) \in 1 .. Len(ids[d]),
         \A i \in 1 .. Len(offer) : offer[i] = ids[d][i],
         NEW n, n = Len(offer) * BlockSize
  PROVE  /\ \A k \in Layers :
              Gather(c, k)' = IF n < Len(Gather(d, k)) THEN SubSeq(Gather(d, k), 1, n)
                              ELSE Gather(d, k)
         /\ \A b \in Caches \ {c}, k \in Layers : Gather(b, k)' = Gather(b, k)
<1>1. /\ ids' = [ids EXCEPT ![c] = offer] /\ c \notin live /\ UNCHANGED <<frozen, tail, bytes>>
  BY DEF NewSeeded
<1>2. d \in Caches /\ \A b \in Caches \ {c} : ids'[b] = ids[b]
  BY <1>1 DEF LayerInv, TypeOK
<1>3. \A b \in Caches \ {c}, k \in Layers : EnsureFrozen(b, k)' = EnsureFrozen(b, k)
  BY <1>1, <1>2, EnsureKept
<1>4. \A b \in Caches \ {c}, k \in Layers : Gather(b, k)' = Gather(b, k)
  BY <1>1, <1>3, GatherKept
<1>5. ASSUME NEW k \in Layers
      PROVE  Gather(c, k)' = IF n < Len(Gather(d, k)) THEN SubSeq(Gather(d, k), 1, n)
                             ELSE Gather(d, k)
  <2>1. PICK e, t, g : e = EnsureFrozen(d, k) /\ t = tail[d][k] /\ g = Gather(d, k)
    OBVIOUS
  <2>2. /\ g = e \o t /\ g \in Seq(Content) /\ e \in Seq(Content) /\ t \in Seq(Content)
        /\ Len(e) = Len(ids[d]) * BlockSize /\ Len(g) = Len(e) + Len(t)
        /\ Len(e) \in Nat /\ Len(t) \in Nat
    BY <1>2, <2>1, GatherParts
  <2>3. n \in Nat /\ n <= Len(e)
    <3>1. PICK a, b : a = Len(offer) /\ b = Len(ids[d])
      OBVIOUS
    <3>2. b \in Nat /\ a \in 1 .. b
      BY <1>2, <3>1, LayerFacts
    <3>3. n = a * BlockSize /\ Len(e) = b * BlockSize
      BY <2>2, <3>1
    <3>4. n \in Nat
      BY <3>2, <3>3, BlockSizeAssumption
    <3>5. a * BlockSize <= b * BlockSize
      BY <3>2, BlockBounds, BlockSizeAssumption
    <3>6. QED BY <3>3, <3>4, <3>5
  <2>4. EnsureFrozen(c, k)' = SubSeq(e, 1, n)
    BY <2>1, EnsureNewSeeded
  <2>5. tail'[c][k] = <<>>
    BY <1>1, NoSlots DEF LayerInv, DeadClean
  <2>6. Gather(c, k)' = SubSeq(e, 1, n) \o <<>>
    BY <2>4, <2>5 DEF Gather
  <2>7. SubSeq(e, 1, n) \in Seq(Content)
    BY <2>2, <2>3, FirstElements
  <2>8. Gather(c, k)' = SubSeq(e, 1, n)
    BY <2>6, <2>7, ConcatEmptySeq
  <2>9. Gather(c, k)' = SubSeq(g, 1, n)
    BY <2>2, <2>3, <2>8, CutFirst
  <2>10. n < Len(g) \/ n = Len(g)
    BY <2>2, <2>3
  <2>11. SubSeq(g, 1, Len(g)) = g
    BY <2>2, SubSeqFull
  <2>12. QED BY <2>1, <2>9, <2>10, <2>11
<1>6. QED BY <1>4, <1>5

LEMMA GatherShareable ==
  ASSUME LayerInv, NEW c \in Caches, NEW n, ShareablePrefixBlocks(c, n)
  PROVE  \A d \in Caches, k \in Layers : Gather(d, k)' = Gather(d, k)
<1>1. tail' = tail
  BY DEF ShareablePrefixBlocks
<1>2. \A d \in Caches, k \in Layers : EnsureFrozen(d, k)' = EnsureFrozen(d, k)
  BY EnsureShareable
<1>3. QED BY <1>1, <1>2, GatherKept

LEMMA GatherUnchanged ==
  ASSUME LayerInv, UNCHANGED <<ids, frozen, tail, bytes>>
  PROVE  \A d \in Caches, k \in Layers : Gather(d, k)' = Gather(d, k)
<1>1. \A d \in Caches, k \in Layers : EnsureFrozen(d, k)' = EnsureFrozen(d, k)
  BY EnsureKept
<1>2. QED BY <1>1, GatherKept

-----------------------------------------------------------------------------
(* Every step is a step of the contiguous caches, or leaves them alone. *)

Kv == [c \in Caches |-> [l \in Layers |-> Gather(c, l)]]

LEMMA OneCacheMoves ==
  ASSUME NEW c \in Caches, NEW s, s = [k \in Layers |-> s[k]],
         \A k \in Layers : Gather(c, k)' = s[k],
         \A d \in Caches \ {c}, k \in Layers : Gather(d, k)' = Gather(d, k)
  PROVE  Kv' = [Kv EXCEPT ![c] = s]
<1>1. ASSUME NEW d \in Caches, d # c
      PROVE  [k \in Layers |-> Gather(d, k)]' = [k \in Layers |-> Gather(d, k)]
  BY <1>1
<1>2. [k \in Layers |-> Gather(c, k)]' = [k \in Layers |-> s[k]]
  OBVIOUS
<1>3. QED BY <1>1, <1>2 DEF Kv

LEMMA NoCacheMoves ==
  ASSUME \A d \in Caches, k \in Layers : Gather(d, k)' = Gather(d, k)
  PROVE  Kv' = Kv
BY DEF Kv

LEMMA ContiguousInit == Init => Contiguous!Init
<1> SUFFICES ASSUME Init PROVE Contiguous!Init
  OBVIOUS
<1>1. ASSUME NEW c \in Caches, NEW l \in Layers PROVE Gather(c, l) = <<>>
  <2>1. /\ tail[c][l] = <<>> /\ frozen[c][l] = <<>> /\ ids[c] = <<>>
    BY <1>1 DEF Init, EmptySlots
  <2>2. LayerInv
    BY LayerInit
  <2>3. EnsureFrozen(c, l) \in Seq(Content) /\ Len(EnsureFrozen(c, l)) = Len(ids[c]) * BlockSize
    BY <2>2, EnsuredWhole
  <2>4. Len(EnsureFrozen(c, l)) = 0
    BY <2>1, <2>3, BlockSizeAssumption
  <2>5. EnsureFrozen(c, l) = <<>>
    BY <2>3, <2>4, EmptySeq
  <2>6. <<>> \o <<>> = <<>>
    BY ConcatEmptySeq
  <2>7. QED BY <2>1, <2>5, <2>6 DEF Gather
<1>2. Kv = [c \in Caches |-> [l \in Layers |-> <<>>]]
  BY <1>1 DEF Kv
<1>3. live = {}
  BY DEF Init
<1>4. QED BY <1>2, <1>3 DEF Contiguous!Init, Contiguous!EmptySlots, Contiguous!Layers, Layers, Kv

LEMMA ContiguousNewSeeded ==
  ASSUME PoolInv, SharingInv, LayerInv, LayerInv', BytesInv, LengthInv, NEW c \in Caches,
         NewSeeded(c)
  PROVE  Contiguous!Next
<1>1. c \notin live /\ live' = live \cup {c} /\ offer # <<>>
  BY DEF NewSeeded
<1>2. PICK d \in live : /\ Len(offer) \in 1 .. Len(ids[d])
                        /\ \A i \in 1 .. Len(offer) : offer[i] = ids[d][i]
  BY <1>1, Donor
<1>3. PICK n : n = Len(offer) * BlockSize
  OBVIOUS
<1>4. d \in Caches
  BY DEF LayerInv, TypeOK
<1>5. n \in 0 .. MaxLen
  <2>1. PICK a, b : a = Len(offer) /\ b = Len(ids[d])
    OBVIOUS
  <2>2. b \in Nat /\ a \in 1 .. b /\ b * BlockSize <= MaxLen
    BY <1>2, <1>4, <2>1, LayerFacts, LengthFacts
  <2>3. a * BlockSize <= b * BlockSize /\ b * BlockSize \in Nat
    BY <2>2, BlockBounds, BlockSizeAssumption
  <2>4. n \in Nat /\ n <= b * BlockSize
    BY <1>3, <2>1, <2>2, <2>3, BlockSizeAssumption
  <2>5. QED BY <2>2, <2>3, <2>4, BoundsAssumption
<1> DEFINE s == [l \in Layers |-> IF n < Len(Gather(d, l)) THEN SubSeq(Gather(d, l), 1, n)
                                  ELSE Gather(d, l)]
<1>6. Kv' = [Kv EXCEPT ![c] = s]
  <2>1. /\ \A k \in Layers : Gather(c, k)' = s[k]
        /\ \A b \in Caches \ {c}, k \in Layers : Gather(b, k)' = Gather(b, k)
    BY <1>2, <1>3, GatherNewSeeded
  <2>2. s = [k \in Layers |-> s[k]]
    OBVIOUS
  <2> HIDE DEF s
  <2>3. QED BY <2>1, <2>2, OneCacheMoves
<1>7. s = [l \in Layers |-> IF n < Len(Kv[d][l]) THEN SubSeq(Kv[d][l], 1, n) ELSE Kv[d][l]]
  BY <1>4 DEF Kv
<1>8. Contiguous!Seeded(c, d, n)
  BY <1>1, <1>2, <1>5, <1>6, <1>7
     DEF Contiguous!Seeded, Contiguous!Prefix, Contiguous!Layers, Layers, Kv
<1>9. QED BY <1>2, <1>5, <1>8 DEF Contiguous!Next

LEMMA ContiguousUpdate ==
  ASSUME LayerInv, NEW c \in Caches, NEW new \in Chunks, Update(c, new)
  PROVE  Contiguous!Next
<1>1. PICK l : l = layer[c]
  OBVIOUS
<1>2. l \in Layers /\ c \in live
  BY <1>1, LayerFacts DEF Update
<1>3. Pass(c, new)
  BY DEF Update, Pass
<1>4. live' = live
  BY DEF Update, UpdateTail, UpdateFreeze
<1>5. /\ Gather(c, l)' = Gather(c, l) \o new
      /\ \A d \in Caches, k \in Layers : (d # c \/ k # l) => Gather(d, k)' = Gather(d, k)
  <2>1. UpdateTail(c, l, new) \/ UpdateFreeze(c, l, new)
    BY <1>1 DEF Update
  <2>2. CASE UpdateTail(c, l, new)
    BY <1>2, <2>2, GatherUpdateTail
  <2>3. CASE UpdateFreeze(c, l, new)
    BY <1>1, <1>3, <2>3, GatherUpdateFreeze
  <2>4. QED BY <2>1, <2>2, <2>3
<1> DEFINE s == [k \in Layers |-> IF k = l THEN Gather(c, l) \o new ELSE Gather(c, k)]
<1>6. Kv' = [Kv EXCEPT ![c] = s]
  <2>1. /\ \A k \in Layers : Gather(c, k)' = s[k]
        /\ \A b \in Caches \ {c}, k \in Layers : Gather(b, k)' = Gather(b, k)
    BY <1>5
  <2>2. s = [k \in Layers |-> s[k]]
    OBVIOUS
  <2> HIDE DEF s
  <2>3. QED BY <2>1, <2>2, OneCacheMoves
<1>7. s = [Kv[c] EXCEPT ![l] = Kv[c][l] \o new]
  BY <1>2 DEF Kv
<1> HIDE DEF s
<1>8. Kv' = [Kv EXCEPT ![c][l] = Kv[c][l] \o new]
  BY <1>6, <1>7 DEF Kv
<1>9. Contiguous!Update(c, l, new)
  BY <1>2, <1>4, <1>8 DEF Contiguous!Update, Kv
<1>10. l \in Contiguous!Layers
  BY <1>2 DEF Contiguous!Layers, Layers
<1>11. QED BY <1>9, <1>10 DEF Contiguous!Next

LEMMA ContiguousTruncate ==
  ASSUME PoolInv, LayerInv, ~StaleOffers, NEW c \in Caches, NEW len \in 0 .. MaxLen,
         Truncate(c, len)
  PROVE  Contiguous!Next
<1>1. c \in live /\ layer[c] = 0 /\ len < Length(c)
  BY DEF Truncate
<1>2. live' = live
  BY DEF Truncate, TruncateTail, TruncateBlocks
<1>3. /\ \A k \in Layers : Gather(c, k)' = SubSeq(Gather(c, k), 1, len)
      /\ \A d \in Caches \ {c}, k \in Layers : Gather(d, k)' = Gather(d, k)
  <2>1. TruncateTail(c, len) \/ TruncateBlocks(c, len)
    BY DEF Truncate
  <2>2. CASE TruncateTail(c, len)
    BY <1>1, <2>2, GatherTruncateTail
  <2>3. CASE TruncateBlocks(c, len)
    BY <2>3, GatherTruncateBlocks
  <2>4. QED BY <2>1, <2>2, <2>3
<1>4. ASSUME NEW k \in Layers PROVE len < Len(Gather(c, k))
  <2>1. Len(Gather(c, k)) = Length(c)
    BY <1>1, GatherParts, TailsAlike DEF Length
  <2>2. QED BY <1>1, <2>1
<1> DEFINE s == [k \in Layers |-> SubSeq(Gather(c, k), 1, len)]
<1>5. Kv' = [Kv EXCEPT ![c] = s]
  <2>1. /\ \A k \in Layers : Gather(c, k)' = s[k]
        /\ \A b \in Caches \ {c}, k \in Layers : Gather(b, k)' = Gather(b, k)
    BY <1>3
  <2>2. s = [k \in Layers |-> s[k]]
    OBVIOUS
  <2> HIDE DEF s
  <2>3. QED BY <2>1, <2>2, OneCacheMoves
<1>6. s = [l \in Layers |-> IF len < Len(Kv[c][l]) THEN SubSeq(Kv[c][l], 1, len) ELSE Kv[c][l]]
  BY <1>4 DEF Kv
<1>7. Contiguous!Truncate(c, len)
  BY <1>1, <1>2, <1>5, <1>6
     DEF Contiguous!Truncate, Contiguous!Prefix, Contiguous!Layers, Layers, Kv
<1>8. QED BY <1>7 DEF Contiguous!Next

(* Reset and Drop both empty one cache. *)
LEMMA ContiguousCleared ==
  ASSUME PoolInv, LayerInv, ~StaleOffers, NEW c \in Caches,
         ids' = [ids EXCEPT ![c] = <<>>], frozen' = [frozen EXCEPT ![c] = EmptySlots],
         tail' = [tail EXCEPT ![c] = EmptySlots], ReleaseBlocks(ToSet(ids[c]))
  PROVE  Kv' = [Kv EXCEPT ![c] = EmptySlots]
<1>1. /\ \A k \in Layers : Gather(c, k)' = EmptySlots[k]
      /\ \A d \in Caches \ {c}, k \in Layers : Gather(d, k)' = Gather(d, k)
  BY GatherCleared, NoSlots
<1>2. EmptySlots = [k \in Layers |-> EmptySlots[k]]
  BY DEF EmptySlots
<1>3. QED BY <1>1, <1>2, OneCacheMoves

LEMMA ContiguousNext ==
  ASSUME PoolInv, SharingInv, LayerInv, LayerInv', BytesInv, LengthInv, ~StaleOffers, [Next]_vars
  PROVE  [Contiguous!Next]_(Contiguous!vars)
<1>1. CASE UNCHANGED vars
  <2>1. Kv' = Kv /\ live' = live
    BY <1>1, GatherUnchanged, NoCacheMoves DEF vars
  <2>2. QED BY <2>1 DEF Contiguous!vars, Kv
<1>2. CASE Next
  <2>1. PICK c \in Caches :
          \/ NewCache(c)
          \/ NewSeeded(c)
          \/ \E new \in Chunks : Update(c, new)
          \/ \E len \in 0 .. MaxLen : Truncate(c, len)
          \/ Reset(c)
          \/ \E n \in 1 .. MaxBlocks : ShareablePrefixBlocks(c, n)
          \/ Drop(c)
    BY <1>2 DEF Next
  <2>2. CASE NewCache(c)
    <3>1. c \notin live /\ live' = live \cup {c} /\ UNCHANGED <<ids, frozen, tail, bytes>>
      BY <2>2 DEF NewCache
    <3>2. Kv' = Kv
      BY <3>1, GatherUnchanged, NoCacheMoves
    <3>3. Contiguous!NewCache(c)
      BY <3>1, <3>2 DEF Contiguous!NewCache, Kv
    <3>4. QED BY <3>3 DEF Contiguous!Next
  <2>3. CASE NewSeeded(c)
    BY <2>3, ContiguousNewSeeded
  <2>4. ASSUME NEW new \in Chunks, Update(c, new) PROVE Contiguous!Next
    BY <2>4, ContiguousUpdate
  <2>5. ASSUME NEW len \in 0 .. MaxLen, Truncate(c, len) PROVE Contiguous!Next
    BY <2>5, ContiguousTruncate
  <2>6. CASE Reset(c)
    <3>1. c \in live /\ live' = live
      BY <2>6 DEF Reset
    <3>2. Kv' = [Kv EXCEPT ![c] = EmptySlots]
      BY <2>6, ContiguousCleared DEF Reset
    <3>3. Contiguous!Reset(c)
      BY <3>1, <3>2
         DEF Contiguous!Reset, Contiguous!EmptySlots, Contiguous!Layers, EmptySlots, Layers, Kv
    <3>4. QED BY <3>3 DEF Contiguous!Next
  <2>7. ASSUME NEW n \in 1 .. MaxBlocks, ShareablePrefixBlocks(c, n)
        PROVE  UNCHANGED Contiguous!vars
    <3>1. Kv' = Kv
      BY <2>7, GatherShareable, NoCacheMoves
    <3>2. live' = live
      BY <2>7 DEF ShareablePrefixBlocks
    <3>3. QED BY <3>1, <3>2 DEF Contiguous!vars, Kv
  <2>8. CASE Drop(c)
    <3>1. c \in live /\ live' = live \ {c}
      BY <2>8 DEF Drop
    <3>2. Kv' = [Kv EXCEPT ![c] = EmptySlots]
      BY <2>8, ContiguousCleared DEF Drop
    <3>3. Contiguous!Drop(c)
      BY <3>1, <3>2
         DEF Contiguous!Drop, Contiguous!EmptySlots, Contiguous!Layers, EmptySlots, Layers, Kv
    <3>4. QED BY <3>3 DEF Contiguous!Next
  <2>9. QED BY <2>1, <2>2, <2>3, <2>4, <2>5, <2>6, <2>7, <2>8
<1>3. QED BY <1>1, <1>2

(* For any number of caches, layers and blocks and any block size, as long   *)
(* as a caller forgets an offer when one of its blocks is freed: a paged     *)
(* cache is a contiguous one.  Whatever the interleaving of forward passes,  *)
(* adoptions of another cache's blocks, roll-backs, resets and drops, each   *)
(* layer attends over exactly the keys and values the growing-concat cache   *)
(* would hold, and a cache seeded by reference is one seeded with a copy of  *)
(* a prefix of some live cache.                                              *)
THEOREM PagedImplementsContiguous == ~StaleOffers => (Spec => ContiguousSpec)
<1> SUFFICES ASSUME ~StaleOffers PROVE Spec => ContiguousSpec
  OBVIOUS
<1> DEFINE Inv == PoolInv /\ SharingInv /\ LayerInv /\ BytesInv /\ LengthInv
<1>1. Init => Inv
  BY PoolInit, SharingInit, LayerInit, BytesInit, LengthInit
<1>2. Inv /\ [Next]_vars => Inv'
  BY PoolNext, SharingNext, LayerNext, BytesNext, LengthNext
<1>3. Init => Contiguous!Init
  BY ContiguousInit
<1>4. Inv /\ Inv' /\ [Next]_vars => [Contiguous!Next]_(Contiguous!vars)
  BY ContiguousNext
<1> HIDE DEF Inv
<1>5. QED BY <1>1, <1>2, <1>3, <1>4, PTL DEF Spec, ContiguousSpec, Contiguous!Spec
=============================================================================
