------------------------------ MODULE PagedKv -------------------------------
(***************************************************************************)
(* The paged KV cache of src/primitives/paged_kv_cache.rs: a BlockPool of   *)
(* fixed-size physical blocks and the PagedKvCaches that draw from it.      *)
(*                                                                          *)
(* A decoder forward pass calls update once per layer, in layer order; the  *)
(* block layout advances on the last layer only.  Between two layers of one *)
(* cache other caches of the same pool may run (forward_per_seq steps every *)
(* sequence through a layer before the next layer), so each update is a     *)
(* step.  A pass that fails half-way leaves a torn cache, whose owner drops *)
(* it: Drop is enabled between any two steps.                               *)
(*                                                                          *)
(* Block ids and reference counts are the external core_llm BlockAllocator, *)
(* modelled from its use here: alloc hands out a freed id when there is     *)
(* one and the next unused number otherwise, with a count of one.           *)
(*                                                                          *)
(* Keys and values move together, so one element of Content stands for both *)
(* at one position of one layer.  A None tensor is the empty sequence: every*)
(* tensor the code keeps in an Option is non-empty (keep_nonempty).         *)
(***************************************************************************)
EXTENDS Integers, Sequences, FiniteSets, SequencesExt

CONSTANTS
  Caches,      \* handles of the caches a program may hold
  NumLayers,   \* decoder layers
  BlockSize,   \* positions in a block
  Content,     \* the distinguishable (key, value) pairs of a position
  MaxLen,      \* bound: positions of one cache
  Chunks,      \* the runs of positions one forward pass may append
  MaxBlocks,   \* bound: ids the allocator may mint
  StaleOffers  \* may a caller seed from offered ids after a block of them was freed?

ASSUME CachesAssumption == IsFiniteSet(Caches)
ASSUME NumLayersAssumption == NumLayers \in Nat \ {0}
ASSUME BlockSizeAssumption == BlockSize \in Nat \ {0}
ASSUME ChunksAssumption == Chunks \subseteq Seq(Content) \ {<<>>}
ASSUME BoundsAssumption == MaxLen \in Nat /\ MaxBlocks \in Nat
ASSUME StaleOffersAssumption == StaleOffers \in BOOLEAN

VARIABLES
  live,     \* the caches that exist
  ids,      \* ids[c]: block table, the frozen blocks in position order
  frozen,   \* frozen[c][l]: contiguous copy of all frozen blocks, <<>> = not built
  tail,     \* tail[c][l]: the positions after the last full block
  tailLen,  \* tailLen[c]: the length of the tail, authoritative between steps
  layer,    \* layer[c]: the layer the running forward pass updates next
  chunk,    \* chunk[c]: the positions the running forward pass appends
  refs,     \* refs[id]: the allocator's count, 0 = free
  minted,   \* number of ids ever created: the length of BlockPool::blocks
  bytes,    \* bytes[id][l]: the tensors of a materialized block
  offer     \* ids last returned by shareable_prefix_blocks and still with the caller

cacheVars == <<live, ids, frozen, tail, tailLen, layer, chunk>>
poolVars == <<refs, minted, bytes, offer>>
vars == <<live, ids, frozen, tail, tailLen, layer, chunk, refs, minted, bytes, offer>>

Layers == 0 .. NumLayers - 1
Ids == 0 .. MaxBlocks - 1

EmptySlots == [l \in Layers |-> <<>>]

-----------------------------------------------------------------------------
(* The pool *)

FreeIds == {id \in 0 .. minted - 1 : refs[id] = 0}
IsMaterialized(id) == bytes[id] # EmptySlots

(* How many of n consecutive calls of alloc are served by freed ids. *)
Reused(n) == IF n < Cardinality(FreeIds) THEN n ELSE Cardinality(FreeIds)

(* The ids n consecutive calls of alloc may return: freed ids first. *)
AllocIds(n) ==
  {s \in [1 .. n -> FreeIds \cup (minted .. minted + n - Reused(n) - 1)] :
     /\ \A i \in 1 .. Reused(n) : s[i] \in FreeIds
     /\ \A i \in Reused(n) + 1 .. n : s[i] = minted + i - Reused(n) - 1
     /\ \A i, j \in 1 .. n : s[i] = s[j] => i = j}

Retain(S) == [id \in Ids |-> IF id \in S THEN refs[id] + 1 ELSE refs[id]]

(* Mutant: release frees the block whatever its count. *)
Release_IgnoresSharers(S) == [id \in Ids |-> IF id \in S THEN 0 ELSE refs[id]]

Release(S) == [id \in Ids |-> IF id \in S THEN refs[id] - 1 ELSE refs[id]]

(* Mutant: the tensors of a freed block are left in place. *)
FreedBytes_Kept(S) == bytes

(* BlockPool::release drops the tensors with the last reference. *)
FreedBytes(S) ==
  [id \in Ids |-> IF id \in S /\ refs[id] = 1 THEN EmptySlots ELSE bytes[id]]

(* Offered ids carry no reference.  A caller that keeps to the intended use  *)
(* forgets them when it lets the blocks go.                                  *)
OfferAfterRelease(S) ==
  IF ~StaleOffers /\ \E id \in S : id \in ToSet(offer) /\ refs[id] = 1 THEN <<>> ELSE offer

ReleaseBlocks(S) ==
  /\ refs' = Release(S)
  /\ bytes' = FreedBytes(S)
  /\ offer' = OfferAfterRelease(S)
  /\ UNCHANGED minted

-----------------------------------------------------------------------------
(* Reading a cache *)

(* PagedKvCache::len, the RoPE offset of the next step *)
Length(c) == Len(ids[c]) * BlockSize + tailLen[c]

(* The blocks of the table, concatenated.  The code asserts that each is     *)
(* materialized; past a failed assert there is no value, <<>> stands for it. *)
FromPool(c, l) ==
  IF \A id \in ToSet(ids[c]) : IsMaterialized(id)
  THEN [p \in 1 .. Len(ids[c]) * BlockSize |->
          bytes[ids[c][((p - 1) \div BlockSize) + 1]][l][((p - 1) % BlockSize) + 1]]
  ELSE <<>>

(* ensure_frozen: build the contiguous copy from the pool when missing *)
EnsureFrozen(c, l) == IF frozen[c][l] = <<>> THEN FromPool(c, l) ELSE frozen[c][l]

(* What gather returns: the keys and values the layer attends over *)
Gather(c, l) == EnsureFrozen(c, l) \o tail[c][l]

-----------------------------------------------------------------------------
(* Creating and dropping caches *)

Init ==
  /\ live = {}
  /\ ids = [c \in Caches |-> <<>>]
  /\ frozen = [c \in Caches |-> EmptySlots]
  /\ tail = [c \in Caches |-> EmptySlots]
  /\ tailLen = [c \in Caches |-> 0]
  /\ layer = [c \in Caches |-> 0]
  /\ chunk = [c \in Caches |-> <<>>]
  /\ refs = [id \in Ids |-> 0]
  /\ minted = 0
  /\ bytes = [id \in Ids |-> EmptySlots]
  /\ offer = <<>>

(* PagedKvCache::with_pool *)
NewCache(c) ==
  /\ c \notin live
  /\ live' = live \cup {c}
  /\ UNCHANGED <<ids, frozen, tail, tailLen, layer, chunk, refs, minted, bytes, offer>>

(* Mutant: new_seeded adopts the ids without a reference. *)
NewSeeded_NoRetain(c) ==
  /\ c \notin live
  /\ offer # <<>>
  /\ \A id \in ToSet(offer) : refs[id] > 0
  /\ live' = live \cup {c}
  /\ ids' = [ids EXCEPT ![c] = offer]
  /\ UNCHANGED <<frozen, tail, tailLen, layer, chunk, refs, minted, bytes, offer>>

(* PagedKvCache::new_seeded from the ids the caller was offered.  What the   *)
(* allocator does when asked to retain a free id is not visible here, so the *)
(* ids are required to be live, though perhaps under a new owner.            *)
NewSeeded(c) ==
  /\ c \notin live
  /\ offer # <<>>
  /\ \A id \in ToSet(offer) : refs[id] > 0
  /\ live' = live \cup {c}
  /\ ids' = [ids EXCEPT ![c] = offer]
  /\ refs' = Retain(ToSet(offer))
  /\ UNCHANGED <<frozen, tail, tailLen, layer, chunk, minted, bytes, offer>>

(* Drop for PagedKvCache, at any point of a forward pass *)
Drop(c) ==
  /\ c \in live
  /\ live' = live \ {c}
  /\ ids' = [ids EXCEPT ![c] = <<>>]
  /\ frozen' = [frozen EXCEPT ![c] = EmptySlots]
  /\ tail' = [tail EXCEPT ![c] = EmptySlots]
  /\ tailLen' = [tailLen EXCEPT ![c] = 0]
  /\ layer' = [layer EXCEPT ![c] = 0]
  /\ chunk' = [chunk EXCEPT ![c] = <<>>]
  /\ ReleaseBlocks(ToSet(ids[c]))

-----------------------------------------------------------------------------
(* KvCache::update of one layer of the running forward pass *)

NextLayer(l) == IF l + 1 = NumLayers THEN 0 ELSE l + 1

(* Mutant: a tail of exactly one block is not frozen. *)
UpdateTail_LateFreeze(c, l, new) ==
  LET last == l + 1 = NumLayers
  IN /\ last => tailLen[c] + Len(new) <= BlockSize
     /\ tail' = [tail EXCEPT ![c][l] = @ \o new]
     /\ frozen' = [frozen EXCEPT ![c][l] = EnsureFrozen(c, l)]
     /\ tailLen' = IF last THEN [tailLen EXCEPT ![c] = @ + Len(new)] ELSE tailLen
     /\ layer' = [layer EXCEPT ![c] = NextLayer(l)]
     /\ chunk' = [chunk EXCEPT ![c] = IF last THEN <<>> ELSE new]
     /\ UNCHANGED <<live, ids>>
     /\ UNCHANGED poolVars

(* append_tail, then gather; also the last layer when no block fills up *)
UpdateTail(c, l, new) ==
  LET last == l + 1 = NumLayers
  IN /\ last => tailLen[c] + Len(new) < BlockSize
     /\ tail' = [tail EXCEPT ![c][l] = @ \o new]
     /\ frozen' = [frozen EXCEPT ![c][l] = EnsureFrozen(c, l)]
     /\ tailLen' = IF last THEN [tailLen EXCEPT ![c] = @ + Len(new)] ELSE tailLen
     /\ layer' = [layer EXCEPT ![c] = NextLayer(l)]
     /\ chunk' = [chunk EXCEPT ![c] = IF last THEN <<>> ELSE new]
     /\ UNCHANGED <<live, ids>>
     /\ UNCHANGED poolVars

(* append_tail on the last layer, then freeze_full_blocks moves every full   *)
(* block of every layer's tail into the frozen copy and allocates its id.    *)
UpdateFreeze(c, l, new) ==
  LET newLen == tailLen[c] + Len(new)
      full   == newLen \div BlockSize
      cut    == full * BlockSize
      whole(k) == IF k = l THEN tail[c][k] \o new ELSE tail[c][k]
  IN /\ l + 1 = NumLayers
     /\ newLen >= BlockSize
     /\ frozen' = [frozen EXCEPT ![c] =
          [k \in Layers |-> EnsureFrozen(c, k) \o SubSeq(whole(k), 1, cut)]]
     /\ tail' = [tail EXCEPT ![c] =
          [k \in Layers |-> SubSeq(whole(k), cut + 1, Len(whole(k)))]]
     /\ tailLen' = [tailLen EXCEPT ![c] = newLen - cut]
     /\ layer' = [layer EXCEPT ![c] = 0]
     /\ chunk' = [chunk EXCEPT ![c] = <<>>]
     /\ \E s \in AllocIds(full) :
          /\ ToSet(s) \subseteq Ids
          /\ ids' = [ids EXCEPT ![c] = @ \o s]
          /\ refs' = Retain(ToSet(s))
          /\ minted' = minted + full - Reused(full)
     /\ UNCHANGED <<live, bytes, offer>>

Update(c, new) ==
  /\ c \in live
  /\ IF layer[c] = 0 THEN Length(c) + Len(new) <= MaxLen ELSE new = chunk[c]
  /\ UpdateTail(c, layer[c], new) \/ UpdateFreeze(c, layer[c], new)

-----------------------------------------------------------------------------
(* KvCache::truncate and reset, between forward passes *)

(* Mutant: the tensors of the tail are not sliced, only its length is set. *)
TruncateTail_LengthOnly(c, len) ==
  LET rem == len - Len(ids[c]) * BlockSize
  IN /\ rem >= 0
     /\ tailLen' = [tailLen EXCEPT ![c] = rem]
     /\ UNCHANGED <<live, ids, frozen, tail, layer, chunk>>
     /\ UNCHANGED poolVars

(* The cut falls in the partial tail. *)
TruncateTail(c, len) ==
  LET rem == len - Len(ids[c]) * BlockSize
  IN /\ rem >= 0
     /\ tail' = [tail EXCEPT ![c] = [l \in Layers |-> SubSeq(@[l], 1, rem)]]
     /\ tailLen' = [tailLen EXCEPT ![c] = rem]
     /\ UNCHANGED <<live, ids, frozen, layer, chunk>>
     /\ UNCHANGED poolVars

(* Mutant: the contiguous copy is discarded, to be rebuilt on next use. *)
KeptFrozen_Discarded(c, l, boundary) == <<>>

(* What is kept of the contiguous copy and what becomes the tail. *)
KeptFrozen(c, l, boundary) == SubSeq(EnsureFrozen(c, l), 1, boundary)

(* Mutant: the new tail is read from the front of the sequence. *)
Unfrozen_FromStart(c, l, boundary, len) == SubSeq(EnsureFrozen(c, l), 1, len - boundary)

Unfrozen(c, l, boundary, len) == SubSeq(EnsureFrozen(c, l), boundary + 1, len)

(* The cut drops whole blocks; the kept part of the block it falls in is     *)
(* unfrozen into a fresh private tail.                                       *)
TruncateBlocks(c, len) ==
  LET keep     == len \div BlockSize
      boundary == keep * BlockSize
  IN /\ keep < Len(ids[c])
     /\ tail' = [tail EXCEPT ![c] =
          [l \in Layers |-> Unfrozen(c, l, boundary, len)]]
     /\ frozen' = [frozen EXCEPT ![c] =
          [l \in Layers |-> KeptFrozen(c, l, boundary)]]
     /\ tailLen' = [tailLen EXCEPT ![c] = len - boundary]
     /\ ids' = [ids EXCEPT ![c] = SubSeq(@, 1, keep)]
     /\ ReleaseBlocks(ToSet(SubSeq(ids[c], keep + 1, Len(ids[c]))))
     /\ UNCHANGED <<live, layer, chunk>>

Truncate(c, len) ==
  /\ c \in live
  /\ layer[c] = 0
  /\ len < Length(c)
  /\ TruncateTail(c, len) \/ TruncateBlocks(c, len)

(* KvCache::reset, which is also retain_sequences with nothing to keep *)
Reset(c) ==
  /\ c \in live
  /\ layer[c] = 0
  /\ ids' = [ids EXCEPT ![c] = <<>>]
  /\ frozen' = [frozen EXCEPT ![c] = EmptySlots]
  /\ tail' = [tail EXCEPT ![c] = EmptySlots]
  /\ tailLen' = [tailLen EXCEPT ![c] = 0]
  /\ ReleaseBlocks(ToSet(ids[c]))
  /\ UNCHANGED <<live, layer, chunk>>

-----------------------------------------------------------------------------
(* shareable_prefix_blocks: materialize the full blocks that cover the first *)
(* tokens positions and hand out their ids, without a reference.             *)

BlockSlice(c, l, i) == SubSeq(EnsureFrozen(c, l), (i - 1) * BlockSize + 1, i * BlockSize)

ShareablePrefixBlocks(c, n) ==
  /\ c \in live
  /\ layer[c] = 0
  /\ n \in 1 .. Len(ids[c])
  /\ frozen' = [frozen EXCEPT ![c] = [l \in Layers |-> EnsureFrozen(c, l)]]
  /\ bytes' = [id \in Ids |->
       IF ~IsMaterialized(id) /\ \E i \in 1 .. n : ids[c][i] = id
       THEN LET i == CHOOSE j \in 1 .. n : ids[c][j] = id
            IN [l \in Layers |-> BlockSlice(c, l, i)]
       ELSE bytes[id]]
  /\ offer' = SubSeq(ids[c], 1, n)
  /\ UNCHANGED <<live, ids, tail, tailLen, layer, chunk, refs, minted>>

-----------------------------------------------------------------------------

Next ==
  \E c \in Caches :
    \/ NewCache(c)
    \/ NewSeeded(c)
    \/ \E new \in Chunks : Update(c, new)
    \/ \E len \in 0 .. MaxLen : Truncate(c, len)
    \/ Reset(c)
    \/ \E n \in 1 .. MaxBlocks : ShareablePrefixBlocks(c, n)
    \/ Drop(c)

Spec == Init /\ [][Next]_vars

-----------------------------------------------------------------------------
(* Properties *)

TypeOK ==
  /\ live \subseteq Caches
  /\ ids \in [Caches -> Seq(Ids)]
  /\ frozen \in [Caches -> [Layers -> Seq(Content)]]
  /\ tail \in [Caches -> [Layers -> Seq(Content)]]
  /\ tailLen \in [Caches -> 0 .. BlockSize - 1]
  /\ layer \in [Caches -> Layers]
  /\ chunk \in [Caches -> Seq(Content)]
  /\ refs \in [Ids -> Nat]
  /\ minted \in 0 .. MaxBlocks
  /\ bytes \in [Ids -> {EmptySlots} \cup [Layers -> [1 .. BlockSize -> Content]]]
  /\ offer \in Seq(Ids)

Holders(id) == {c \in Caches : id \in ToSet(ids[c])}

(* The allocator's count of a block is the number of caches whose table      *)
(* names it, through any order of freezes, adoptions, roll-backs and drops   *)
(* of sharers: no block is recycled under a reader and none leaks.           *)
RefcountsExact == \A id \in Ids : refs[id] = Cardinality(Holders(id))

(* Copy-on-write sharing is by prefix only: two tables that name the same    *)
(* block name it at the same position and agree on everything before it.     *)
SharedOnlyAsPrefix ==
  \A c, d \in live : \A i \in DOMAIN ids[c], j \in DOMAIN ids[d] :
    ids[c][i] = ids[d][j] => i = j /\ SubSeq(ids[c], 1, i) = SubSeq(ids[d], 1, j)

(* The assert! of ensure_frozen: a cache without its contiguous copy finds   *)
(* the bytes of each of its blocks in the pool.                              *)
UnbuiltBlocksMaterialized ==
  \A c \in live, l \in Layers :
    frozen[c][l] = <<>> => \A id \in ToSet(ids[c]) : IsMaterialized(id)

(* A full block is immutable once frozen: whatever its sharers do, its pool  *)
(* bytes stay the slice every holder's own contiguous copy has there; a free *)
(* block keeps no bytes.                                                     *)
SharedBytesIntact ==
  /\ \A c \in live, l \in Layers : frozen[c][l] # <<>> =>
       \A i \in DOMAIN ids[c] :
         IsMaterialized(ids[c][i]) => bytes[ids[c][i]][l] = BlockSlice(c, l, i)
  /\ \A id \in Ids : IsMaterialized(id) => refs[id] > 0

(* Between forward passes every layer holds exactly offset() positions.      *)
LayersInStep ==
  /\ TypeOK
  /\ \A c \in live : layer[c] = 0 =>
      \A l \in Layers : Len(Gather(c, l)) = Length(c)

(* Each paged cache behaves as a contiguous one: token for token the same    *)
(* keys and values at every layer.                                           *)
Contiguous == INSTANCE ContiguousKv WITH
  kv <- [c \in Caches |-> [l \in Layers |-> Gather(c, l)]]

ContiguousSpec == Contiguous!Spec

=============================================================================
