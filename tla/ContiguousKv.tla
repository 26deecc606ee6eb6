---------------------------- MODULE ContiguousKv ----------------------------
(***************************************************************************)
(* The growing-concat KV cache of src/primitives/kv_cache.rs, for a family  *)
(* of single-sequence caches.  Per cache and layer it keeps the keys and    *)
(* values of every position, in order.  One element of Content stands for   *)
(* the (key, value) pair of one position: what is computed from one token.  *)
(* An empty sequence is the Rust slot None.                                 *)
(*                                                                          *)
(* The module is the contract of the KvCache trait as well as a model of    *)
(* its simplest implementation: PagedKv is checked to implement it.         *)
(***************************************************************************)
EXTENDS Integers, Sequences, SequencesExt

CONSTANTS
  Caches,    \* handles of the caches a program may hold
  NumLayers, \* decoder layers, one slot each
  Content,   \* the distinguishable (key, value) pairs of a position
  Chunks,    \* the runs of positions one forward pass may append
  MaxLen     \* bound: positions of one cache

VARIABLES
  live,      \* the caches that exist
  kv         \* kv[c][l]: the cached positions of layer l of cache c

vars == <<live, kv>>

Layers == 0 .. NumLayers - 1

(* The first n positions of every layer. *)
Prefix(layers, n) ==
  [l \in Layers |-> IF n < Len(layers[l]) THEN SubSeq(layers[l], 1, n) ELSE layers[l]]

EmptySlots == [l \in Layers |-> <<>>]

Init ==
  /\ live = {}
  /\ kv = [c \in Caches |-> EmptySlots]

(* ContiguousKvCache::new *)
NewCache(c) ==
  /\ c \notin live
  /\ live' = live \cup {c}
  /\ UNCHANGED kv

(* ContiguousKvCache::seeded over a prefix of what another cache exports *)
Seeded(c, d, n) ==
  /\ c \notin live
  /\ d \in live
  /\ n \in 0 .. MaxLen
  /\ live' = live \cup {c}
  /\ kv' = [kv EXCEPT ![c] = Prefix(kv[d], n)]

(* KvCache::update: the step's keys and values go at the end of the layer *)
Update(c, l, chunk) ==
  /\ c \in live
  /\ kv' = [kv EXCEPT ![c][l] = @ \o chunk]
  /\ UNCHANGED live

(* KvCache::truncate: the speculative roll-back *)
Truncate(c, len) ==
  /\ c \in live
  /\ kv' = [kv EXCEPT ![c] = Prefix(@, len)]
  /\ UNCHANGED live

(* KvCache::reset *)
Reset(c) ==
  /\ c \in live
  /\ kv' = [kv EXCEPT ![c] = EmptySlots]
  /\ UNCHANGED live

(* The owner lets the cache go. *)
Drop(c) ==
  /\ c \in live
  /\ live' = live \ {c}
  /\ kv' = [kv EXCEPT ![c] = EmptySlots]

Next ==
  \E c \in Caches :
    \/ NewCache(c)
    \/ \E d \in live, n \in 0 .. MaxLen : Seeded(c, d, n)
    \/ \E l \in Layers, chunk \in Chunks : Update(c, l, chunk)
    \/ \E len \in 0 .. MaxLen : Truncate(c, len)
    \/ Reset(c)
    \/ Drop(c)

Spec == Init /\ [][Next]_vars
=============================================================================
