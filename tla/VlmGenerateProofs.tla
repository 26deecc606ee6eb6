--------------------------- MODULE VlmGenerateProofs ---------------------------
(***************************************************************************)
(* Proofs about VlmGenerate and the Decoder under it, for any decoder, any *)
(* number of layers and any way to cut a prompt into forwards.             *)
(***************************************************************************)
EXTENDS VlmGenerate, SequenceTheorems, FiniteSetTheorems, WellFoundedInduction, TLAPS

-----------------------------------------------------------------------------
(* Sequences of anything: what the rows of a layer are is never looked at. *)

IsSeq(s) == s \in Seq(ToSet(s))

LEMMA TypedIsSeq ==
  ASSUME NEW S, NEW s \in Seq(S)
  PROVE  IsSeq(s)
BY DEF IsSeq, ToSet

LEMMA MappedIsSeq ==
  ASSUME NEW n \in Nat, NEW s, DOMAIN s = 1 .. n, s = [i \in 1 .. n |-> s[i]]
  PROVE  IsSeq(s) /\ Len(s) = n
<1>1. s \in [1 .. n -> ToSet(s)]
  BY DEF ToSet
<1>2. QED BY <1>1 DEF IsSeq

LEMMA SeqFacts ==
  ASSUME NEW s, IsSeq(s)
  PROVE  /\ Len(s) \in Nat /\ DOMAIN s = 1 .. Len(s)
         /\ s = [i \in 1 .. Len(s) |-> s[i]]
BY DEF IsSeq

LEMMA SameSeq ==
  ASSUME NEW s, NEW t, IsSeq(s), IsSeq(t), Len(s) = Len(t),
         \A i \in 1 .. Len(s) : s[i] = t[i]
  PROVE  s = t
BY SeqFacts

LEMMA JoinFacts ==
  ASSUME NEW s, NEW t, IsSeq(s), IsSeq(t)
  PROVE  /\ IsSeq(s \o t) /\ Len(s \o t) = Len(s) + Len(t)
         /\ \A i \in 1 .. Len(s) : (s \o t)[i] = s[i]
         /\ \A i \in 1 .. Len(t) : (s \o t)[Len(s) + i] = t[i]
<1> DEFINE S == ToSet(s) \cup ToSet(t)
<1>1. s \in Seq(S) /\ t \in Seq(S)
  BY DEF IsSeq
<1> HIDE DEF S
<1>2. s \o t \in Seq(S)
  BY <1>1
<1>3. Len(s) \in Nat /\ Len(t) \in Nat
  BY SeqFacts
<1>4. IsSeq(s \o t)
  BY <1>2, TypedIsSeq
<1>5. QED BY <1>1, <1>3, <1>4

LEMMA PartFacts ==
  ASSUME NEW s, IsSeq(s), NEW a \in Nat \ {0}, NEW b \in Int, b <= Len(s), a <= b + 1
  PROVE  /\ IsSeq(SubSeq(s, a, b)) /\ Len(SubSeq(s, a, b)) = b - a + 1
         /\ \A i \in 1 .. b - a + 1 : SubSeq(s, a, b)[i] = s[a + i - 1]
<1> DEFINE S == ToSet(s)
<1>1. s \in Seq(S)
  BY DEF IsSeq
<1> HIDE DEF S
<1>2. b \in Nat /\ a \in Nat /\ Len(s) \in Nat
  BY SeqFacts
<1>3. SubSeq(s, a, b) = [i \in 1 .. b - a + 1 |-> s[a + i - 1]]
  BY <1>1, <1>2
<1>4. b - a + 1 \in Nat
  BY <1>2
<1>5. QED BY <1>3, <1>4, MappedIsSeq

Associates(r, s, t) == (r \o s) \o t = r \o (s \o t)

LEMMA JoinAssociative ==
  ASSUME NEW r, NEW s, NEW t, IsSeq(r), IsSeq(s), IsSeq(t)
  PROVE  Associates(r, s, t)
<1> DEFINE S == ToSet(r) \cup ToSet(s) \cup ToSet(t)
<1>1. r \in Seq(S) /\ s \in Seq(S) /\ t \in Seq(S)
  BY DEF IsSeq
<1> HIDE DEF S
<1>2. QED BY <1>1 DEF Associates

LEMMA StrictIs ==
  ASSUME NEW s, IsSeq(s)
  PROVE  Strict(s) = s
<1>1. s \in Seq(ToSet(s))
  BY DEF IsSeq
<1>2. QED BY <1>1 DEF Strict

Parts(all, one, two) ==
  /\ IsSeq(all) /\ IsSeq(one) /\ IsSeq(two)
  /\ Len(all) = Len(one) + Len(two)
  /\ \A i \in 1 .. Len(one) : all[i] = one[i]
  /\ \A i \in 1 .. Len(two) : all[Len(one) + i] = two[i]

LEMMA PairParts ==
  ASSUME NEW p, NEW q
  PROVE  <<p, q>>[1] = p /\ <<p, q>>[2] = q
OBVIOUS

LEMMA JoinedBy ==
  ASSUME NEW all, NEW one, NEW two, Parts(all, one, two)
  PROVE  all = one \o two
<1> USE DEF Parts
<1>1. Len(one) \in Nat /\ Len(two) \in Nat
  BY SeqFacts
<1>2. /\ IsSeq(one \o two) /\ Len(one \o two) = Len(one) + Len(two)
      /\ \A i \in 1 .. Len(one) : (one \o two)[i] = one[i]
      /\ \A i \in 1 .. Len(two) : (one \o two)[Len(one) + i] = two[i]
  BY JoinFacts
<1>3. ASSUME NEW i \in 1 .. Len(all)
      PROVE  all[i] = (one \o two)[i]
  <2>1. CASE i <= Len(one)
    BY <1>1, <1>2, <2>1
  <2>2. CASE ~ (i <= Len(one))
    <3>1. i - Len(one) \in 1 .. Len(two) /\ Len(one) + (i - Len(one)) = i
      BY <1>1, <2>2
    <3>2. QED BY <3>1, <1>2
  <2>3. QED BY <2>1, <2>2
<1>4. QED BY <1>2, <1>3, SameSeq

LEMMA JoinParts ==
  ASSUME NEW one, NEW two, IsSeq(one), IsSeq(two)
  PROVE  Parts(one \o two, one, two)
BY JoinFacts DEF Parts

-----------------------------------------------------------------------------
(* Attention.  A layer that has run over some rows and is then run over more *)
(* gives for the latter what one run over all of them gives.                 *)

(* What a layer adds for the rows of one, then of another run is what it adds *)
(* for all of them, and the second leaves the cache that one run leaves.      *)
Continues(first, second, whole) ==
  /\ whole.cache = second.cache
  /\ whole.out = first.out \o second.out

LEMMA TurnedFacts ==
  ASSUME NEW h, NEW at, IsSeq(h)
  PROVE  /\ IsSeq(Turned(h, at)) /\ Len(Turned(h, at)) = Len(h)
         /\ \A r \in 1 .. Len(h) : Turned(h, at)[r] = [row |-> h[r], at |-> at[r]]
<1>1. Len(h) \in Nat /\ DOMAIN h = 1 .. Len(h)
  BY SeqFacts
<1>2. Turned(h, at) = [r \in 1 .. Len(h) |-> [row |-> h[r], at |-> at[r]]]
  BY <1>1 DEF Turned
<1>3. QED BY <1>1, <1>2, MappedIsSeq

LEMMA TurnedJoined ==
  ASSUME NEW h, NEW g, NEW at, NEW bt, IsSeq(h), IsSeq(g), IsSeq(at), IsSeq(bt),
         Len(at) = Len(h), Len(bt) = Len(g)
  PROVE  Turned(h \o g, at \o bt) = Turned(h, at) \o Turned(g, bt)
<1> DEFINE rows == h \o g
           places == at \o bt
           all == Turned(rows, places)
           one == Turned(h, at)
           two == Turned(g, bt)
<1>1. /\ IsSeq(rows) /\ Len(rows) = Len(h) + Len(g)
      /\ \A i \in 1 .. Len(h) : rows[i] = h[i]
      /\ \A i \in 1 .. Len(g) : rows[Len(h) + i] = g[i]
  BY JoinFacts
<1>2. /\ \A i \in 1 .. Len(h) : places[i] = at[i]
      /\ \A i \in 1 .. Len(g) : places[Len(h) + i] = bt[i]
  BY JoinFacts
<1> HIDE DEF rows, places
<1>3. /\ IsSeq(all) /\ Len(all) = Len(h) + Len(g)
      /\ \A r \in 1 .. Len(h) + Len(g) : all[r] = [row |-> rows[r], at |-> places[r]]
  BY <1>1, TurnedFacts
<1>4. /\ IsSeq(one) /\ Len(one) = Len(h)
      /\ \A r \in 1 .. Len(h) : one[r] = [row |-> h[r], at |-> at[r]]
  BY TurnedFacts
<1>5. /\ IsSeq(two) /\ Len(two) = Len(g)
      /\ \A r \in 1 .. Len(g) : two[r] = [row |-> g[r], at |-> bt[r]]
  BY TurnedFacts
<1>6. Len(h) \in Nat /\ Len(g) \in Nat
  BY SeqFacts
<1> HIDE DEF all, one, two
<1>7. ASSUME NEW i \in 1 .. Len(one)
      PROVE  all[i] = one[i]
  <2>1. i \in 1 .. Len(h) /\ i \in 1 .. Len(h) + Len(g)
    BY <1>4, <1>6
  <2>2. all[i] = [row |-> rows[i], at |-> places[i]]
    BY <1>3, <2>1
  <2>3. rows[i] = h[i] /\ places[i] = at[i]
    BY <1>1, <1>2, <2>1
  <2>4. one[i] = [row |-> h[i], at |-> at[i]]
    BY <1>4, <2>1
  <2>5. QED BY <2>2, <2>3, <2>4
<1>8. ASSUME NEW i \in 1 .. Len(two)
      PROVE  all[Len(one) + i] = two[i]
  <2>1. PICK n \in Nat : n = Len(h) /\ Len(one) = n
    BY <1>4, <1>6
  <2>2. n + i \in 1 .. Len(h) + Len(g) /\ i \in 1 .. Len(g)
    BY <1>5, <1>6, <2>1
  <2>3. all[n + i] = [row |-> rows[n + i], at |-> places[n + i]]
    BY <1>3, <2>2
  <2>4. rows[n + i] = g[i] /\ places[n + i] = bt[i]
    BY <1>1, <1>2, <2>1, <2>2
  <2>5. two[i] = [row |-> g[i], at |-> bt[i]]
    BY <1>5, <2>2
  <2>6. QED BY <2>1, <2>3, <2>4, <2>5
<1>9. Len(all) = Len(one) + Len(two)
  BY <1>3, <1>4, <1>5
<1>10. Parts(all, one, two)
  BY <1>3, <1>4, <1>5, <1>7, <1>8, <1>9 DEF Parts
<1>11. QED BY <1>10, JoinedBy DEF all, one, two, rows, places

(* What a row sees: its query, over the first n keys. *)
Looks(query, keys, n) == [query |-> query, over |-> [j \in 1 .. n |-> keys[j]]]

LEMMA LooksSame ==
  ASSUME NEW query, NEW keys, NEW more, NEW n \in Int, \A j \in 1 .. n : keys[j] = more[j]
  PROVE  Looks(query, keys, n) = Looks(query, more, n)
<1>1. [j \in 1 .. n |-> keys[j]] = [j \in 1 .. n |-> more[j]]
  OBVIOUS
<1>2. QED BY <1>1 DEF Looks

(* Every row sees the keys up to its own. *)
SeeUpTo(out, queries, keys) ==
  /\ IsSeq(out) /\ Len(out) = Len(queries)
  /\ \A r \in 1 .. Len(queries) : out[r] = Looks(queries[r], keys, Len(keys) - Len(queries) + r)

(* Chunked or not. *)
LEMMA SdpaRow ==
  ASSUME NEW m, m.fused \in Nat, NEW eager, NEW queries, NEW keys, IsSeq(queries), IsSeq(keys)
  PROVE  SeeUpTo(SdpaCapped(m, eager, queries, keys), queries, keys)
<1> DEFINE out == SdpaCapped(m, eager, queries, keys)
           nq == Len(queries)
           nk == Len(keys)
<1>1. nq \in Nat /\ nk \in Nat
  BY SeqFacts
<1>2. ASSUME NEW r \in 1 .. nq, m.fused # 0
      PROVE  ChunkedCausal(m, nq, nk, r) = Causal(nq, nk, r)
  <2>1. PICK first \in Int : first = ((r - 1) \div m.fused) * m.fused
    BY <1>1, <1>2
  <2>2. PICK last \in Int : last = AtMost(first + m.fused, nq)
    BY <1>1, <2>1 DEF AtMost
  <2>3. ChunkedCausal(m, nq, nk, r) = Causal(last - first, nk - nq + last, r - first)
    BY <2>1, <2>2 DEF ChunkedCausal
  <2>4. (nk - nq + last) - (last - first) + (r - first) = nk - nq + r
    BY <1>1, <2>1, <2>2
  <2>5. QED BY <2>3, <2>4 DEF Causal
<1>3. out = [r \in 1 .. nq |-> Looks(queries[r], keys, nk - nq + r)]
  <2>1. CASE ~eager /\ m.fused # 0 /\ nq > m.fused
    <3>1. out = [r \in 1 .. nq |-> [query |-> queries[r],
                                    over |-> [j \in ChunkedCausal(m, nq, nk, r) |-> keys[j]]]]
      BY <2>1 DEF SdpaCapped
    <3>2. QED BY <3>1, <2>1, <1>2 DEF Causal, Looks
  <2>2. CASE ~ (~eager /\ m.fused # 0 /\ nq > m.fused)
    BY <2>2 DEF SdpaCapped, Causal, Looks
  <2>3. QED BY <2>1, <2>2
<1> HIDE DEF out
<1>4. /\ IsSeq(out) /\ Len(out) = nq
      /\ \A r \in 1 .. nq : out[r] = Looks(queries[r], keys, nk - nq + r)
  BY <1>1, <1>3, MappedIsSeq
<1>5. QED BY <1>4 DEF out, SeeUpTo

(* Queries and the keys they bring after held ones, in two runs and in one. *)
LEMMA SdpaJoined ==
  ASSUME NEW m, m.fused \in Nat, NEW eager, NEW held, NEW q, NEW p,
         IsSeq(held), IsSeq(q), IsSeq(p)
  PROVE  SdpaCapped(m, eager, q \o p, held \o (q \o p))
           = SdpaCapped(m, eager, q, held \o q) \o SdpaCapped(m, eager, p, (held \o q) \o p)
<1> DEFINE queries == q \o p
           first == held \o q
           keys == first \o p
           all == SdpaCapped(m, eager, queries, keys)
           one == SdpaCapped(m, eager, q, first)
           two == SdpaCapped(m, eager, p, keys)
<1>1. Len(held) \in Nat /\ Len(q) \in Nat /\ Len(p) \in Nat
  BY SeqFacts
<1>2. /\ IsSeq(queries) /\ Len(queries) = Len(q) + Len(p)
      /\ \A i \in 1 .. Len(q) : queries[i] = q[i]
      /\ \A i \in 1 .. Len(p) : queries[Len(q) + i] = p[i]
  BY JoinFacts
<1>3. IsSeq(first) /\ Len(first) = Len(held) + Len(q)
  BY JoinFacts
<1>4. held \o queries = keys
  BY JoinAssociative DEF Associates
<1> HIDE DEF first, queries
<1>5. /\ IsSeq(keys) /\ Len(keys) = Len(first) + Len(p)
      /\ \A j \in 1 .. Len(first) : keys[j] = first[j]
  BY <1>3, JoinFacts
<1> HIDE DEF keys
<1>6a. SeeUpTo(all, queries, keys) /\ SeeUpTo(one, q, first) /\ SeeUpTo(two, p, keys)
  BY <1>2, <1>3, <1>5, SdpaRow, Zenon
<1> HIDE DEF all, one, two
<1>6. /\ IsSeq(all) /\ Len(all) = Len(queries)
      /\ \A r \in 1 .. Len(queries) :
           all[r] = Looks(queries[r], keys, Len(keys) - Len(queries) + r)
  BY <1>6a DEF SeeUpTo
<1>7. /\ IsSeq(one) /\ Len(one) = Len(q)
      /\ \A r \in 1 .. Len(q) : one[r] = Looks(q[r], first, Len(first) - Len(q) + r)
  BY <1>6a DEF SeeUpTo
<1>8. /\ IsSeq(two) /\ Len(two) = Len(p)
      /\ \A r \in 1 .. Len(p) : two[r] = Looks(p[r], keys, Len(keys) - Len(p) + r)
  BY <1>6a DEF SeeUpTo
<1>9. ASSUME NEW i \in 1 .. Len(one)
      PROVE  all[i] = one[i]
  <2>1. i \in 1 .. Len(queries) /\ i \in 1 .. Len(q)
    BY <1>1, <1>2, <1>7
  <2>2. /\ Len(keys) - Len(queries) + i = Len(held) + i
        /\ Len(first) - Len(q) + i = Len(held) + i
    BY <1>1, <1>2, <1>3, <1>5
  <2>3. \A j \in 1 .. Len(held) + i : first[j] = keys[j]
    BY <2>1, <1>1, <1>3, <1>5
  <2>4. Looks(q[i], first, Len(held) + i) = Looks(q[i], keys, Len(held) + i)
    BY <1>1, <2>3, LooksSame
  <2>5. QED BY <2>1, <2>2, <2>4, <1>2, <1>6, <1>7
<1>10. ASSUME NEW i \in 1 .. Len(two)
       PROVE  all[Len(one) + i] = two[i]
  <2>1. Len(q) + i \in 1 .. Len(queries) /\ i \in 1 .. Len(p)
    BY <1>1, <1>2, <1>8
  <2>2. Len(keys) - Len(queries) + (Len(q) + i) = Len(keys) - Len(p) + i
    BY <1>1, <1>2, <1>3, <1>5
  <2>3. all[Len(q) + i] = Looks(queries[Len(q) + i], keys, Len(keys) - Len(p) + i)
    BY <2>1, <2>2, <1>6
  <2>4. QED BY <2>1, <2>3, <1>2, <1>7, <1>8
<1>11. Len(all) = Len(one) + Len(two)
  BY <1>2, <1>6, <1>7, <1>8
<1>12. Parts(all, one, two)
  BY <1>6, <1>7, <1>8, <1>9, <1>10, <1>11 DEF Parts
<1>13. QED BY <1>4, <1>12, JoinedBy DEF all, one, two, keys, first, queries

(* The hypotheses on two runs of rows that follow each other. *)
TwoRuns(h, g, at, bt) ==
  /\ IsSeq(h) /\ IsSeq(g) /\ IsSeq(at) /\ IsSeq(bt)
  /\ Len(at) = Len(h) /\ Len(bt) = Len(g)
  /\ Len(h) > 0 /\ Len(g) > 0

AddsRows(mixed, h) == IsSeq(mixed.out) /\ Len(mixed.out) = Len(h)

LEMMA AttentionAdds ==
  ASSUME NEW m, m.fused \in Nat, NEW h, NEW at, NEW held, IsSeq(h), IsSeq(held)
  PROVE  /\ AddsRows(GroupedAttention(m, h, at, held), h)
         /\ AddsRows(LatentAttention(m, h, at, held), h)
         /\ AddsRows(GatedAttention(m, h, at, held), h)
         /\ GroupedAttention(m, h, at, held).cache = held \o Turned(h, at)
         /\ LatentAttention(m, h, at, held).cache = held \o Turned(h, at)
         /\ GatedAttention(m, h, at, held).cache = held \o Turned(h, at)
         /\ IsSeq(held \o Turned(h, at))
<1> DEFINE turned == Turned(h, at)
           keys == held \o turned
<1>1. IsSeq(turned) /\ Len(turned) = Len(h)
  BY TurnedFacts
<1>2. IsSeq(keys)
  BY <1>1, JoinFacts
<1>3. ASSUME NEW eager
      PROVE  IsSeq(SdpaCapped(m, eager, turned, keys)) /\ Len(SdpaCapped(m, eager, turned, keys)) = Len(h)
  <2> HIDE DEF turned, keys
  <2>1. SeeUpTo(SdpaCapped(m, eager, turned, keys), turned, keys)
    BY <1>1, <1>2, SdpaRow
  <2>2. QED BY <1>1, <2>1 DEF SeeUpTo
<1>4. Len(h) \in Nat /\ DOMAIN h = 1 .. Len(h)
  BY SeqFacts
<1>5. AddsRows(GroupedAttention(m, h, at, held), h)
  BY <1>3 DEF GroupedAttention, AddsRows
<1>6. AddsRows(LatentAttention(m, h, at, held), h)
  BY <1>3 DEF LatentAttention, AddsRows
<1>7. AddsRows(GatedAttention(m, h, at, held), h)
  <2> DEFINE out == GatedAttention(m, h, at, held).out
             sdpa == SdpaCapped(m, FALSE, turned, keys)
  <2>1. out = [r \in 1 .. Len(h) |-> [gate |-> h[r], gated |-> sdpa[r]]]
    BY <1>4 DEF GatedAttention
  <2> HIDE DEF out, sdpa
  <2>2. IsSeq(out) /\ Len(out) = Len(h)
    BY <1>4, <2>1, MappedIsSeq
  <2>3. QED BY <2>2 DEF AddsRows, out
<1>8. /\ GroupedAttention(m, h, at, held).cache = keys
      /\ LatentAttention(m, h, at, held).cache = keys
      /\ GatedAttention(m, h, at, held).cache = keys
  BY DEF GroupedAttention, LatentAttention, GatedAttention
<1>9. QED BY <1>2, <1>5, <1>6, <1>7, <1>8

SdpaAsOne(m, eager, held, h, g, at, bt) ==
  /\ held \o Turned(h \o g, at \o bt) = (held \o Turned(h, at)) \o Turned(g, bt)
  /\ SdpaCapped(m, eager, Turned(h \o g, at \o bt), held \o Turned(h \o g, at \o bt))
       = SdpaCapped(m, eager, Turned(h, at), held \o Turned(h, at))
         \o SdpaCapped(m, eager, Turned(g, bt), (held \o Turned(h, at)) \o Turned(g, bt))

LEMMA SdpaContinues ==
  ASSUME NEW m, m.fused \in Nat, NEW eager, NEW held, IsSeq(held),
         NEW h, NEW g, NEW at, NEW bt, TwoRuns(h, g, at, bt)
  PROVE  SdpaAsOne(m, eager, held, h, g, at, bt)
<1> DEFINE q == Turned(h, at)
           p == Turned(g, bt)
<1>1. Turned(h \o g, at \o bt) = q \o p
  BY TurnedJoined DEF TwoRuns
<1>2. IsSeq(q) /\ IsSeq(p)
  BY TurnedFacts DEF TwoRuns
<1> HIDE DEF q, p
<1>3. held \o (q \o p) = (held \o q) \o p
  BY <1>2, JoinAssociative DEF Associates
<1>4. SdpaCapped(m, eager, q \o p, held \o (q \o p))
        = SdpaCapped(m, eager, q, held \o q) \o SdpaCapped(m, eager, p, (held \o q) \o p)
  BY <1>2, SdpaJoined
<1>5. QED BY <1>1, <1>3, <1>4 DEF SdpaAsOne, q, p

LEMMA GroupedContinues ==
  ASSUME NEW m, m.fused \in Nat, NEW held, IsSeq(held),
         NEW h, NEW g, NEW at, NEW bt, TwoRuns(h, g, at, bt)
  PROVE  Continues(GroupedAttention(m, h, at, held),
                   GroupedAttention(m, g, bt, held \o Turned(h, at)),
                   GroupedAttention(m, h \o g, at \o bt, held))
<1>1. SdpaAsOne(m, m.softcap, held, h, g, at, bt)
  BY SdpaContinues
<1>2. QED BY <1>1 DEF SdpaAsOne, GroupedAttention, Continues

LEMMA LatentContinues ==
  ASSUME NEW m, m.fused \in Nat, NEW held, IsSeq(held),
         NEW h, NEW g, NEW at, NEW bt, TwoRuns(h, g, at, bt)
  PROVE  Continues(LatentAttention(m, h, at, held),
                   LatentAttention(m, g, bt, held \o Turned(h, at)),
                   LatentAttention(m, h \o g, at \o bt, held))
<1>1. SdpaAsOne(m, TRUE, held, h, g, at, bt)
  BY SdpaContinues
<1>2. QED BY <1>1 DEF SdpaAsOne, LatentAttention, Continues

(* What was added for a row, gated by the row. *)
Gated(h, s) == [r \in DOMAIN h |-> [gate |-> h[r], gated |-> s[r]]]

LEMMA GateJoined ==
  ASSUME NEW h, NEW g, NEW s, NEW t, IsSeq(h), IsSeq(g), IsSeq(s), IsSeq(t),
         Len(s) = Len(h), Len(t) = Len(g)
  PROVE  Gated(h \o g, s \o t) = Gated(h, s) \o Gated(g, t)
<1> DEFINE rows == h \o g
           adds == s \o t
           all == Gated(rows, adds)
           one == Gated(h, s)
           two == Gated(g, t)
<1>1. /\ IsSeq(rows) /\ Len(rows) = Len(h) + Len(g)
      /\ \A i \in 1 .. Len(h) : rows[i] = h[i]
      /\ \A i \in 1 .. Len(g) : rows[Len(h) + i] = g[i]
  BY JoinFacts
<1>2. /\ \A i \in 1 .. Len(h) : adds[i] = s[i]
      /\ \A i \in 1 .. Len(g) : adds[Len(h) + i] = t[i]
  BY JoinFacts
<1> HIDE DEF rows, adds
<1>3. /\ Len(h) \in Nat /\ Len(g) \in Nat /\ DOMAIN h = 1 .. Len(h) /\ DOMAIN g = 1 .. Len(g)
      /\ Len(rows) \in Nat /\ DOMAIN rows = 1 .. Len(rows)
  BY <1>1, SeqFacts
<1>4. /\ IsSeq(all) /\ Len(all) = Len(rows)
      /\ \A i \in 1 .. Len(rows) : all[i] = [gate |-> rows[i], gated |-> adds[i]]
  BY <1>3, MappedIsSeq DEF Gated
<1>5. /\ IsSeq(one) /\ Len(one) = Len(h)
      /\ \A i \in 1 .. Len(h) : one[i] = [gate |-> h[i], gated |-> s[i]]
  BY <1>3, MappedIsSeq DEF Gated
<1>6. /\ IsSeq(two) /\ Len(two) = Len(g)
      /\ \A i \in 1 .. Len(g) : two[i] = [gate |-> g[i], gated |-> t[i]]
  BY <1>3, MappedIsSeq DEF Gated
<1> HIDE DEF all, one, two
<1>7. ASSUME NEW i \in 1 .. Len(one)
      PROVE  all[i] = one[i]
  <2>1. i \in 1 .. Len(h) /\ i \in 1 .. Len(rows)
    BY <1>1, <1>3, <1>5
  <2>2. all[i] = [gate |-> rows[i], gated |-> adds[i]]
    BY <1>4, <2>1
  <2>3. rows[i] = h[i] /\ adds[i] = s[i]
    BY <1>1, <1>2, <2>1
  <2>4. one[i] = [gate |-> h[i], gated |-> s[i]]
    BY <1>5, <2>1
  <2>5. QED BY <2>2, <2>3, <2>4
<1>8. ASSUME NEW i \in 1 .. Len(two)
      PROVE  all[Len(one) + i] = two[i]
  <2>1. PICK n \in Nat : n = Len(h) /\ Len(one) = n
    BY <1>3, <1>5
  <2>2. n + i \in 1 .. Len(rows) /\ i \in 1 .. Len(g)
    BY <1>1, <1>3, <1>6, <2>1
  <2>3. all[n + i] = [gate |-> rows[n + i], gated |-> adds[n + i]]
    BY <1>4, <2>2
  <2>4. rows[n + i] = g[i] /\ adds[n + i] = t[i]
    BY <1>1, <1>2, <2>1, <2>2
  <2>5. two[i] = [gate |-> g[i], gated |-> t[i]]
    BY <1>6, <2>2
  <2>6. QED BY <2>1, <2>3, <2>4, <2>5
<1>9. Parts(all, one, two)
  BY <1>1, <1>4, <1>5, <1>6, <1>7, <1>8 DEF Parts
<1>10. QED BY <1>9, JoinedBy DEF all, one, two, rows, adds

LEMMA GatedContinues ==
  ASSUME NEW m, m.fused \in Nat, NEW held, IsSeq(held),
         NEW h, NEW g, NEW at, NEW bt, TwoRuns(h, g, at, bt)
  PROVE  Continues(GatedAttention(m, h, at, held),
                   GatedAttention(m, g, bt, held \o Turned(h, at)),
                   GatedAttention(m, h \o g, at \o bt, held))
<1> DEFINE q == Turned(h, at)
           p == Turned(g, bt)
           one == SdpaCapped(m, FALSE, q, held \o q)
           two == SdpaCapped(m, FALSE, p, (held \o q) \o p)
           w == Turned(h \o g, at \o bt)
           all == SdpaCapped(m, FALSE, w, held \o w)
<1>1. held \o w = (held \o q) \o p /\ all = one \o two
  <2>1. SdpaAsOne(m, FALSE, held, h, g, at, bt)
    BY SdpaContinues
  <2>2. QED BY <2>1 DEF SdpaAsOne
<1>2. IsSeq(q) /\ Len(q) = Len(h) /\ IsSeq(p) /\ Len(p) = Len(g) /\ IsSeq(h) /\ IsSeq(g)
  BY TurnedFacts DEF TwoRuns
<1>3. IsSeq(one) /\ Len(one) = Len(h) /\ IsSeq(two) /\ Len(two) = Len(g)
  <2> HIDE DEF q, p
  <2>1. IsSeq(held \o q)
    BY <1>2, JoinFacts
  <2>2. IsSeq((held \o q) \o p)
    BY <1>2, <2>1, JoinFacts
  <2>3. SeeUpTo(one, q, held \o q) /\ SeeUpTo(two, p, (held \o q) \o p)
    BY <1>2, <2>1, <2>2, SdpaRow
  <2>4. QED BY <1>2, <2>3 DEF SeeUpTo
<1>4. /\ GatedAttention(m, h, at, held).out = Gated(h, one)
      /\ GatedAttention(m, g, bt, held \o q).out = Gated(g, two)
      /\ GatedAttention(m, h \o g, at \o bt, held).out = Gated(h \o g, all)
      /\ GatedAttention(m, g, bt, held \o q).cache = (held \o q) \o p
      /\ GatedAttention(m, h \o g, at \o bt, held).cache = held \o w
  BY DEF GatedAttention, Gated
<1> HIDE DEF one, two, all, q, p, w
<1>5. Gated(h \o g, one \o two) = Gated(h, one) \o Gated(g, two)
  BY <1>2, <1>3, GateJoined
<1>6. QED BY <1>1, <1>4, <1>5 DEF Continues, q

-----------------------------------------------------------------------------
(* The linear layers: the convolution's tail and the recurrent state.        *)

DeltaHeld(m, held) ==
  /\ IsSeq(held.conv) /\ Len(held.conv) = m.kernel - 1
  /\ IsSeq(held.ssm) /\ held.offset \in Int

ConvIs(m, conv, h, state) ==
  /\ IsSeq(conv.out) /\ Len(conv.out) = Len(h)
  /\ \A r \in 1 .. Len(h) : conv.out[r] = SubSeq(state \o h, r, r + m.kernel - 1)
  /\ IsSeq(conv.state) /\ Len(conv.state) = m.kernel - 1
  /\ \A j \in 1 .. m.kernel - 1 : conv.state[j] = (state \o h)[Len(h) + j]

LEMMA ConvFacts ==
  ASSUME NEW m, m.kernel \in Nat \ {0}, NEW h, NEW state, IsSeq(h), IsSeq(state),
         Len(state) = m.kernel - 1
  PROVE  ConvIs(m, CausalConv(m, h, state), h, state)
<1> DEFINE cat == state \o h
           K == m.kernel
           out == [r \in DOMAIN h |-> SubSeq(cat, r, r + K - 1)]
           left == SubSeq(cat, Len(h) + 1, Len(h) + K - 1)
<1>1. K \in Nat \ {0} /\ Len(h) \in Nat /\ DOMAIN h = 1 .. Len(h)
  BY SeqFacts
<1>2. IsSeq(cat) /\ Len(cat) = (K - 1) + Len(h)
  BY JoinFacts
<1>3. CausalConv(m, h, state).out = out /\ CausalConv(m, h, state).state = left
  BY DEF CausalConv
<1> HIDE DEF cat, K
<1>4. /\ IsSeq(out) /\ Len(out) = Len(h)
      /\ \A r \in 1 .. Len(h) : out[r] = SubSeq(cat, r, r + K - 1)
  BY <1>1, MappedIsSeq
<1>5. /\ IsSeq(left) /\ Len(left) = K - 1
      /\ \A j \in 1 .. K - 1 : left[j] = cat[Len(h) + j]
  <2> DEFINE a == Len(h) + 1
             b == Len(h) + K - 1
  <2>1. a \in Nat \ {0} /\ b \in Int /\ b <= Len(cat) /\ a <= b + 1 /\ b - a + 1 = K - 1
    BY <1>1, <1>2
  <2>2. \A j \in 1 .. K - 1 : a + j - 1 = Len(h) + j
    BY <1>1
  <2>3. left = SubSeq(cat, a, b)
    OBVIOUS
  <2> HIDE DEF a, b, left
  <2>4. /\ IsSeq(left) /\ Len(left) = b - a + 1
        /\ \A j \in 1 .. b - a + 1 : left[j] = cat[a + j - 1]
    BY <1>2, <2>1, <2>3, PartFacts
  <2>5. QED BY <2>1, <2>2, <2>4
<1> HIDE DEF out, left
<1>6. QED
  <2> DEFINE conv == CausalConv(m, h, state)
  <2>1. conv.out = out /\ conv.state = left
    BY <1>3
  <2> HIDE DEF conv
  <2>2. ConvIs(m, conv, h, state)
    BY <2>1, <1>4, <1>5 DEF ConvIs, cat, K
  <2>3. QED BY <2>2 DEF conv

Shifted(a, b, d) == \A j \in 1 .. Len(a) : a[j] = b[d + j]

WindowsAgree(a, b, r, d, K) == SubSeq(a, r, r + K - 1) = SubSeq(b, d + r, d + r + K - 1)

LEMMA SameWindow ==
  ASSUME NEW a, NEW b, IsSeq(a), IsSeq(b), NEW r \in Nat \ {0}, NEW d \in Nat, NEW K \in Nat,
         r + K - 1 <= Len(a), d + r + K - 1 <= Len(b), Shifted(a, b, d)
  PROVE  WindowsAgree(a, b, r, d, K)
<1> DEFINE x == SubSeq(a, r, r + K - 1)
           y == SubSeq(b, d + r, d + r + K - 1)
<1>1. Len(a) \in Nat /\ Len(b) \in Nat
  BY SeqFacts
<1>2. IsSeq(x) /\ Len(x) = K /\ \A i \in 1 .. K : x[i] = a[r + i - 1]
  <2>1. PICK e \in Int : e = r + K - 1
    OBVIOUS
  <2>2. r <= e + 1 /\ e - r + 1 = K /\ e <= Len(a)
    BY <2>1
  <2>3. /\ IsSeq(SubSeq(a, r, e)) /\ Len(SubSeq(a, r, e)) = e - r + 1
        /\ \A i \in 1 .. e - r + 1 : SubSeq(a, r, e)[i] = a[r + i - 1]
    BY <2>2, PartFacts
  <2>4. QED BY <2>1, <2>2, <2>3
<1>3. IsSeq(y) /\ Len(y) = K /\ \A i \in 1 .. K : y[i] = b[d + r + i - 1]
  <2>1. PICK f \in Nat \ {0} : f = d + r
    OBVIOUS
  <2>2. PICK e \in Int : e = d + r + K - 1
    OBVIOUS
  <2>3. f <= e + 1 /\ e - f + 1 = K /\ e <= Len(b)
    BY <2>1, <2>2
  <2>4. /\ IsSeq(SubSeq(b, f, e)) /\ Len(SubSeq(b, f, e)) = e - f + 1
        /\ \A i \in 1 .. e - f + 1 : SubSeq(b, f, e)[i] = b[f + i - 1]
    BY <2>3, PartFacts
  <2>5. QED BY <2>1, <2>2, <2>3, <2>4
<1> HIDE DEF x, y
<1>4. ASSUME NEW i \in 1 .. K
      PROVE  x[i] = y[i]
  <2>1. r + i - 1 \in 1 .. Len(a) /\ d + (r + i - 1) = d + r + i - 1
    BY <1>1
  <2>2. QED BY <2>1, <1>2, <1>3 DEF Shifted
<1>5. x = y
  BY <1>2, <1>3, <1>4, SameSeq
<1>6. QED BY <1>5 DEF WindowsAgree, x, y

ConvAsOne(m, h, g, state) ==
  LET first == CausalConv(m, h, state)
      second == CausalConv(m, g, first.state)
      whole == CausalConv(m, h \o g, state)
  IN  whole.out = first.out \o second.out /\ whole.state = second.state

LEMMA ConvContinues ==
  ASSUME NEW m, m.kernel \in Nat \ {0}, NEW h, NEW g, NEW state,
         IsSeq(h), IsSeq(g), IsSeq(state), Len(state) = m.kernel - 1
  PROVE  ConvAsOne(m, h, g, state)
<1> DEFINE rows == h \o g
           first == CausalConv(m, h, state)
           left == first.state
           second == CausalConv(m, g, left)
           whole == CausalConv(m, rows, state)
           K == m.kernel
           near == state \o h
           next == left \o g
           far == state \o rows
<1>1. K \in Nat \ {0} /\ Len(h) \in Nat /\ Len(g) \in Nat
  BY SeqFacts
<1>2. IsSeq(rows) /\ Len(rows) = Len(h) + Len(g)
  BY JoinFacts
<1>3. ConvIs(m, first, h, state)
  BY ConvFacts
<1>4. /\ IsSeq(first.out) /\ Len(first.out) = Len(h)
      /\ \A r \in 1 .. Len(h) : first.out[r] = SubSeq(near, r, r + K - 1)
      /\ IsSeq(left) /\ Len(left) = K - 1
      /\ \A j \in 1 .. K - 1 : left[j] = near[Len(h) + j]
  BY <1>3 DEF ConvIs
<1>5. IsSeq(near) /\ Len(near) = (K - 1) + Len(h)
  BY JoinFacts
<1>6. far = near \o g
  <2>1. Associates(state, h, g)
    BY JoinAssociative
  <2>2. QED BY <2>1 DEF Associates
<1> HIDE DEF first, near, left, rows, far
<1>7. /\ IsSeq(far) /\ Len(far) = (K - 1) + Len(h) + Len(g)
      /\ \A j \in 1 .. (K - 1) + Len(h) : far[j] = near[j]
      /\ \A j \in 1 .. Len(g) : far[(K - 1) + Len(h) + j] = g[j]
  <2>1. Parts(near \o g, near, g)
    BY <1>5, JoinParts
  <2>2. QED BY <2>1, <1>5, <1>6 DEF Parts
<1>8. /\ IsSeq(next) /\ Len(next) = (K - 1) + Len(g)
      /\ \A j \in 1 .. K - 1 : next[j] = left[j]
      /\ \A j \in 1 .. Len(g) : next[(K - 1) + j] = g[j]
  <2>1. Parts(left \o g, left, g)
    BY <1>4, JoinParts
  <2>2. QED BY <2>1, <1>4 DEF Parts
<1>9. ConvIs(m, second, g, left)
  BY <1>4, ConvFacts
<1>10. ConvIs(m, whole, rows, state)
  BY <1>2, ConvFacts
<1> HIDE DEF second, whole, next
<1>11. /\ IsSeq(second.out) /\ Len(second.out) = Len(g)
       /\ \A r \in 1 .. Len(g) : second.out[r] = SubSeq(next, r, r + K - 1)
       /\ IsSeq(second.state) /\ Len(second.state) = K - 1
       /\ \A j \in 1 .. K - 1 : second.state[j] = next[Len(g) + j]
  BY <1>9 DEF ConvIs, next
<1>12. /\ IsSeq(whole.out) /\ Len(whole.out) = Len(rows)
       /\ \A r \in 1 .. Len(rows) : whole.out[r] = SubSeq(far, r, r + K - 1)
       /\ IsSeq(whole.state) /\ Len(whole.state) = K - 1
       /\ \A j \in 1 .. K - 1 : whole.state[j] = far[Len(rows) + j]
  BY <1>10 DEF ConvIs, far
<1> HIDE DEF K
<1>13. \A j \in 1 .. (K - 1) + Len(g) : next[j] = far[Len(h) + j]
  <2>1. TAKE j \in 1 .. (K - 1) + Len(g)
  <2>2. CASE j <= K - 1
    <3>1. j \in 1 .. K - 1 /\ Len(h) + j \in 1 .. (K - 1) + Len(h)
      BY <1>1, <2>2
    <3>2. QED BY <3>1, <1>4, <1>7, <1>8
  <2>3. CASE ~ (j <= K - 1)
    <3>1. /\ j - (K - 1) \in 1 .. Len(g) /\ (K - 1) + (j - (K - 1)) = j
          /\ (K - 1) + Len(h) + (j - (K - 1)) = Len(h) + j
      BY <1>1, <2>3
    <3>2. QED BY <3>1, <1>7, <1>8
  <2>4. QED BY <2>2, <2>3
<1>14. \A i \in 1 .. Len(first.out) : whole.out[i] = first.out[i]
  <2>1. TAKE i \in 1 .. Len(first.out)
  <2>2. /\ i \in 1 .. Len(h) /\ i \in 1 .. Len(rows) /\ i \in Nat \ {0} /\ 0 \in Nat
        /\ i + K - 1 <= Len(near) /\ 0 + i + K - 1 <= Len(far)
        /\ 0 + i = i /\ 0 + i + K - 1 = i + K - 1
    BY <1>1, <1>2, <1>4, <1>5, <1>7
  <2>3. Shifted(near, far, 0)
    BY <1>1, <1>5, <1>7 DEF Shifted
  <2>4. SubSeq(near, i, i + K - 1) = SubSeq(far, 0 + i, 0 + i + K - 1)
    <3>1. WindowsAgree(near, far, i, 0, K)
      BY <2>2, <2>3, <1>1, <1>5, <1>7, SameWindow
    <3>2. QED BY <3>1 DEF WindowsAgree
  <2>5. QED BY <2>2, <2>4, <1>4, <1>12
<1>15. \A i \in 1 .. Len(second.out) : whole.out[Len(first.out) + i] = second.out[i]
  <2>1. TAKE i \in 1 .. Len(second.out)
  <2>2. /\ i \in 1 .. Len(g) /\ Len(h) + i \in 1 .. Len(rows) /\ i \in Nat \ {0} /\ Len(h) \in Nat
        /\ i + K - 1 <= Len(next) /\ Len(h) + i + K - 1 <= Len(far)
    <3>1. PICK a \in Nat, b \in Nat : a = Len(h) /\ b = Len(g)
      BY <1>1
    <3>2. /\ Len(rows) = a + b /\ Len(far) = (K - 1) + a + b /\ Len(next) = (K - 1) + b
          /\ i \in 1 .. b
      BY <1>2, <1>7, <1>8, <1>11, <3>1
    <3>3. /\ i \in Nat \ {0} /\ a + i \in 1 .. a + b
          /\ i + K - 1 <= (K - 1) + b /\ a + i + K - 1 <= (K - 1) + a + b
      BY <1>1, <3>2
    <3>4. QED BY <3>1, <3>2, <3>3
  <2>3. Shifted(next, far, Len(h))
    BY <1>8, <1>13 DEF Shifted
  <2>4. SubSeq(next, i, i + K - 1) = SubSeq(far, Len(h) + i, Len(h) + i + K - 1)
    <3>1. PICK d \in Nat : d = Len(h)
      BY <1>1
    <3>2. d + i + K - 1 <= Len(far) /\ Shifted(next, far, d)
      BY <3>1, <2>2, <2>3
    <3>3. WindowsAgree(next, far, i, d, K)
      BY <3>2, <2>2, <1>1, <1>7, <1>8, SameWindow
    <3>4. QED BY <3>1, <3>3 DEF WindowsAgree
  <2>5. QED BY <2>2, <2>4, <1>4, <1>11, <1>12
<1>16. whole.out = first.out \o second.out
  <2>1. Parts(whole.out, first.out, second.out)
    BY <1>2, <1>4, <1>11, <1>12, <1>14, <1>15 DEF Parts
  <2>2. QED BY <2>1, JoinedBy
<1>17. whole.state = second.state
  <2>1. ASSUME NEW j \in 1 .. K - 1
        PROVE  whole.state[j] = second.state[j]
    <3>1. Len(g) + j \in 1 .. (K - 1) + Len(g) /\ Len(h) + (Len(g) + j) = Len(rows) + j
      BY <1>1, <1>2
    <3>2. QED BY <3>1, <1>11, <1>12, <1>13
  <2>2. QED BY <1>11, <1>12, <2>1, SameSeq
<1>18. QED BY <1>16, <1>17 DEF ConvAsOne, first, second, whole, left, rows

(* The states are those of the writes so far. *)
LEMMA RecurrenceFacts ==
  ASSUME NEW state, NEW writes, IsSeq(writes)
  PROVE  /\ IsSeq(Recurrence(state, writes)) /\ Len(Recurrence(state, writes)) = Len(writes)
         /\ \A t \in 1 .. Len(writes) :
              Recurrence(state, writes)[t] = state \o SubSeq(writes, 1, t)
<1>1. Len(writes) \in Nat
  BY SeqFacts
<1>2. QED BY <1>1, MappedIsSeq DEF Recurrence

LEMMA WholePart ==
  ASSUME NEW s, IsSeq(s)
  PROVE  SubSeq(s, 1, Len(s)) = s
<1>1. s \in Seq(ToSet(s))
  BY DEF IsSeq
<1>2. QED BY <1>1

(* The parts from the start of s and t joined: parts of s, then s with parts of t. *)
PartsJoin(all, s, t) ==
  /\ \A n \in 1 .. Len(s) : SubSeq(all, 1, n) = SubSeq(s, 1, n)
  /\ \A n \in 1 .. Len(t) : SubSeq(all, 1, Len(s) + n) = s \o SubSeq(t, 1, n)

LEMMA PartsOfJoin ==
  ASSUME NEW s, NEW t, IsSeq(s), IsSeq(t)
  PROVE  PartsJoin(s \o t, s, t)
<1> DEFINE S == ToSet(s) \cup ToSet(t)
<1>1. s \in Seq(S) /\ t \in Seq(S)
  BY DEF IsSeq
<1> HIDE DEF S
<1>2. Len(s) \in Nat /\ Len(t) \in Nat
  BY <1>1
<1>3. ASSUME NEW n \in 1 .. Len(s)
      PROVE  SubSeq(s \o t, 1, n) = SubSeq(s, 1, n)
  BY <1>1, <1>2
<1>4. ASSUME NEW n \in 1 .. Len(t)
      PROVE  SubSeq(s \o t, 1, Len(s) + n) = s \o SubSeq(t, 1, n)
  BY <1>1, <1>2
<1>5. QED BY <1>3, <1>4 DEF PartsJoin

RecurrenceAsOne(state, first, second) ==
  LET one == Recurrence(state, first)
      two == Recurrence(one[Len(one)], second)
      all == Recurrence(state, first \o second)
  IN  all = one \o two /\ all[Len(all)] = two[Len(two)] /\ IsSeq(one[Len(one)])

LEMMA RecurrenceContinues ==
  ASSUME NEW state, NEW first, NEW second, IsSeq(state), IsSeq(first), IsSeq(second),
         Len(first) > 0, Len(second) > 0
  PROVE  RecurrenceAsOne(state, first, second)
<1> DEFINE writes == first \o second
           one == Recurrence(state, first)
           now == one[Len(one)]
           two == Recurrence(now, second)
           all == Recurrence(state, writes)
<1>1. Len(first) \in Nat \ {0} /\ Len(second) \in Nat \ {0}
  BY SeqFacts
<1>2. IsSeq(writes) /\ Len(writes) = Len(first) + Len(second)
  BY JoinFacts
<1>3. PartsJoin(writes, first, second)
  BY PartsOfJoin
<1> HIDE DEF writes
<1>4. /\ IsSeq(one) /\ Len(one) = Len(first)
      /\ \A t \in 1 .. Len(first) : one[t] = state \o SubSeq(first, 1, t)
  BY RecurrenceFacts
<1> HIDE DEF one
<1>5. now = state \o first
  <2>1. PICK n \in Nat \ {0} : n = Len(first) /\ Len(one) = n
    BY <1>1, <1>4
  <2>2. n \in 1 .. Len(first)
    BY <2>1
  <2>3. one[n] = state \o SubSeq(first, 1, n)
    BY <1>4, <2>2
  <2>4. SubSeq(first, 1, n) = first
    BY <2>1, WholePart
  <2>5. QED BY <2>1, <2>3, <2>4
<1> HIDE DEF now
<1>6. /\ IsSeq(two) /\ Len(two) = Len(second)
      /\ \A t \in 1 .. Len(second) : two[t] = now \o SubSeq(second, 1, t)
  BY RecurrenceFacts
<1>7. /\ IsSeq(all) /\ Len(all) = Len(writes)
      /\ \A t \in 1 .. Len(writes) : all[t] = state \o SubSeq(writes, 1, t)
  BY <1>2, RecurrenceFacts
<1> HIDE DEF two, all
<1>8. ASSUME NEW i \in 1 .. Len(one)
      PROVE  all[i] = one[i]
  <2>1. i \in 1 .. Len(first) /\ i \in 1 .. Len(writes)
    BY <1>1, <1>2, <1>4
  <2>2. all[i] = state \o SubSeq(writes, 1, i)
    BY <1>7, <2>1
  <2>3. SubSeq(writes, 1, i) = SubSeq(first, 1, i)
    BY <1>3, <2>1 DEF PartsJoin
  <2>4. one[i] = state \o SubSeq(first, 1, i)
    BY <1>4, <2>1
  <2>5. QED BY <2>2, <2>3, <2>4
<1>9. ASSUME NEW i \in 1 .. Len(two)
      PROVE  all[Len(one) + i] = two[i]
  <2>1. i \in 1 .. Len(second) /\ Len(first) + i \in 1 .. Len(writes)
    BY <1>1, <1>2, <1>6
  <2>2. IsSeq(SubSeq(second, 1, i))
    <3>1. i \in Int /\ 1 \in Nat \ {0} /\ i <= Len(second) /\ 1 <= i + 1
      BY <1>1, <2>1
    <3>2. QED BY <3>1, PartFacts
  <2>3. (state \o first) \o SubSeq(second, 1, i) = state \o (first \o SubSeq(second, 1, i))
    <3>1. PICK u : u = SubSeq(second, 1, i)
      OBVIOUS
    <3>2. IsSeq(state) /\ IsSeq(first) /\ IsSeq(u)
      BY <2>2, <3>1
    <3>3. (state \o first) \o u = state \o (first \o u)
      BY <3>2, JoinAssociative DEF Associates
    <3>4. QED BY <3>1, <3>3
  <2>4. PICK n \in Nat : n = Len(first) /\ Len(one) = n
    BY <1>1, <1>4
  <2>5. n + i \in 1 .. Len(writes)
    BY <2>1, <2>4
  <2>6. all[n + i] = state \o SubSeq(writes, 1, n + i)
    BY <1>7, <2>5
  <2>7. SubSeq(writes, 1, n + i) = first \o SubSeq(second, 1, i)
    BY <1>3, <2>1, <2>4 DEF PartsJoin
  <2>8. two[i] = (state \o first) \o SubSeq(second, 1, i)
    BY <1>5, <1>6, <2>1
  <2>9. QED BY <2>3, <2>4, <2>6, <2>7, <2>8
<1>10. all = one \o two
  <2>1. Parts(all, one, two)
    BY <1>2, <1>4, <1>6, <1>7, <1>8, <1>9 DEF Parts
  <2>2. QED BY <2>1, JoinedBy
<1>11. all[Len(all)] = two[Len(two)]
  <2>1. Len(two) \in 1 .. Len(two) /\ Len(all) = Len(one) + Len(two)
    BY <1>1, <1>2, <1>4, <1>6, <1>7
  <2>2. QED BY <2>1, <1>9
<1>12. IsSeq(now)
  BY <1>5, JoinFacts
<1>13. QED BY <1>10, <1>11, <1>12 DEF RecurrenceAsOne, one, two, all, now, writes

(* What is written for a row. *)
Written(h, windows) == [t \in DOMAIN h |-> [window |-> windows[t], gate |-> h[t]]]

LEMMA WrittenFacts ==
  ASSUME NEW h, NEW windows, IsSeq(h)
  PROVE  IsSeq(Written(h, windows)) /\ Len(Written(h, windows)) = Len(h)
<1>1. Len(h) \in Nat /\ DOMAIN h = 1 .. Len(h)
  BY SeqFacts
<1>2. QED BY <1>1, MappedIsSeq DEF Written

LEMMA WrittenJoined ==
  ASSUME NEW h, NEW g, NEW s, NEW t, IsSeq(h), IsSeq(g), IsSeq(s), IsSeq(t),
         Len(s) = Len(h), Len(t) = Len(g)
  PROVE  Written(h \o g, s \o t) = Written(h, s) \o Written(g, t)
<1> DEFINE rows == h \o g
           adds == s \o t
           all == Written(rows, adds)
           one == Written(h, s)
           two == Written(g, t)
<1>1. /\ IsSeq(rows) /\ Len(rows) = Len(h) + Len(g)
      /\ \A i \in 1 .. Len(h) : rows[i] = h[i]
      /\ \A i \in 1 .. Len(g) : rows[Len(h) + i] = g[i]
  BY JoinFacts
<1>2. /\ \A i \in 1 .. Len(h) : adds[i] = s[i]
      /\ \A i \in 1 .. Len(g) : adds[Len(h) + i] = t[i]
  BY JoinFacts
<1> HIDE DEF rows, adds
<1>3. /\ Len(h) \in Nat /\ Len(g) \in Nat /\ DOMAIN h = 1 .. Len(h) /\ DOMAIN g = 1 .. Len(g)
      /\ Len(rows) \in Nat /\ DOMAIN rows = 1 .. Len(rows)
  BY <1>1, SeqFacts
<1>4. /\ IsSeq(all) /\ Len(all) = Len(rows)
      /\ \A i \in 1 .. Len(rows) : all[i] = [window |-> adds[i], gate |-> rows[i]]
  BY <1>3, MappedIsSeq DEF Written
<1>5. /\ IsSeq(one) /\ Len(one) = Len(h)
      /\ \A i \in 1 .. Len(h) : one[i] = [window |-> s[i], gate |-> h[i]]
  BY <1>3, MappedIsSeq DEF Written
<1>6. /\ IsSeq(two) /\ Len(two) = Len(g)
      /\ \A i \in 1 .. Len(g) : two[i] = [window |-> t[i], gate |-> g[i]]
  BY <1>3, MappedIsSeq DEF Written
<1> HIDE DEF all, one, two
<1>7. ASSUME NEW i \in 1 .. Len(one)
      PROVE  all[i] = one[i]
  <2>1. i \in 1 .. Len(h) /\ i \in 1 .. Len(rows)
    BY <1>1, <1>3, <1>5
  <2>2. all[i] = [window |-> adds[i], gate |-> rows[i]]
    BY <1>4, <2>1
  <2>3. rows[i] = h[i] /\ adds[i] = s[i]
    BY <1>1, <1>2, <2>1
  <2>4. one[i] = [window |-> s[i], gate |-> h[i]]
    BY <1>5, <2>1
  <2>5. QED BY <2>2, <2>3, <2>4
<1>8. ASSUME NEW i \in 1 .. Len(two)
      PROVE  all[Len(one) + i] = two[i]
  <2>1. PICK n \in Nat : n = Len(h) /\ Len(one) = n
    BY <1>3, <1>5
  <2>2. n + i \in 1 .. Len(rows) /\ i \in 1 .. Len(g)
    BY <1>1, <1>3, <1>6, <2>1
  <2>3. all[n + i] = [window |-> adds[n + i], gate |-> rows[n + i]]
    BY <1>4, <2>2
  <2>4. rows[n + i] = g[i] /\ adds[n + i] = t[i]
    BY <1>1, <1>2, <2>1, <2>2
  <2>5. two[i] = [window |-> t[i], gate |-> g[i]]
    BY <1>6, <2>2
  <2>6. QED BY <2>1, <2>3, <2>4, <2>5
<1>9. Parts(all, one, two)
  BY <1>1, <1>4, <1>5, <1>6, <1>7, <1>8 DEF Parts
<1>10. QED BY <1>9, JoinedBy DEF all, one, two, rows, adds

(* A row of a linear layer carries the state after its own write. *)
Carried(states) == [t \in 1 .. Len(states) |-> [state |-> states[t]]]

LEMMA CarriedJoined ==
  ASSUME NEW s, NEW t, IsSeq(s), IsSeq(t)
  PROVE  /\ Carried(s \o t) = Carried(s) \o Carried(t)
         /\ IsSeq(Carried(s)) /\ Len(Carried(s)) = Len(s)
<1> DEFINE states == s \o t
           all == Carried(states)
           one == Carried(s)
           two == Carried(t)
<1>1. /\ IsSeq(states) /\ Len(states) = Len(s) + Len(t)
      /\ \A i \in 1 .. Len(s) : states[i] = s[i]
      /\ \A i \in 1 .. Len(t) : states[Len(s) + i] = t[i]
  BY JoinFacts
<1> HIDE DEF states
<1>2. Len(s) \in Nat /\ Len(t) \in Nat /\ Len(states) \in Nat
  BY <1>1, SeqFacts
<1>3. /\ IsSeq(all) /\ Len(all) = Len(states)
      /\ \A i \in 1 .. Len(states) : all[i] = [state |-> states[i]]
  BY <1>2, MappedIsSeq DEF Carried
<1>4. IsSeq(one) /\ Len(one) = Len(s) /\ \A i \in 1 .. Len(s) : one[i] = [state |-> s[i]]
  BY <1>2, MappedIsSeq DEF Carried
<1>5. IsSeq(two) /\ Len(two) = Len(t) /\ \A i \in 1 .. Len(t) : two[i] = [state |-> t[i]]
  BY <1>2, MappedIsSeq DEF Carried
<1> HIDE DEF all, one, two
<1>6. ASSUME NEW i \in 1 .. Len(one)
      PROVE  all[i] = one[i]
  <2>1. i \in 1 .. Len(s) /\ i \in 1 .. Len(states)
    BY <1>1, <1>2, <1>4
  <2>2. QED BY <2>1, <1>1, <1>3, <1>4
<1>7. ASSUME NEW i \in 1 .. Len(two)
      PROVE  all[Len(one) + i] = two[i]
  <2>1. PICK n \in Nat : n = Len(s) /\ Len(one) = n
    BY <1>2, <1>4
  <2>2. n + i \in 1 .. Len(states) /\ i \in 1 .. Len(t)
    BY <1>1, <1>2, <1>5, <2>1
  <2>3. all[n + i] = [state |-> states[n + i]]
    BY <1>3, <2>2
  <2>4. states[n + i] = t[i]
    BY <1>1, <2>1, <2>2
  <2>5. two[i] = [state |-> t[i]]
    BY <1>5, <2>2
  <2>6. QED BY <2>1, <2>3, <2>4, <2>5
<1>8. Parts(all, one, two)
  BY <1>1, <1>3, <1>4, <1>5, <1>6, <1>7 DEF Parts
<1>9. QED BY <1>4, <1>8, JoinedBy DEF all, one, two, states

(* GatedDeltaNet::forward, in parts. *)
DeltaIs(m, delta, h, held) ==
  LET conv == CausalConv(m, h, held.conv)
      states == Recurrence(held.ssm, Written(h, conv.out))
  IN  /\ delta.out = Carried(states)
      /\ delta.cache.conv = conv.state
      /\ delta.cache.ssm = states[Len(states)]
      /\ delta.cache.offset = held.offset + Len(h)
      /\ delta.cache = [conv |-> conv.state, ssm |-> states[Len(states)],
                        offset |-> held.offset + Len(h)]
      /\ AddsRows(delta, h)

LEMMA DeltaParts ==
  ASSUME NEW m, NEW h, NEW held, m.kernel \in Nat \ {0}, IsSeq(h), DeltaHeld(m, held)
  PROVE  DeltaIs(m, DeltaNet(m, h, held), h, held)
<1> DEFINE conv == CausalConv(m, h, held.conv)
           writes == Written(h, conv.out)
           states == Recurrence(held.ssm, writes)
           delta == DeltaNet(m, h, held)
<1>1. Len(h) \in Nat /\ DOMAIN h = 1 .. Len(h)
  BY SeqFacts
<1>2. IsSeq(writes) /\ Len(writes) = Len(h)
  BY WrittenFacts
<1>3. IsSeq(states) /\ Len(states) = Len(h)
  BY <1>2, RecurrenceFacts
<1>4. /\ delta.out = [t \in DOMAIN h |-> [state |-> states[t]]]
      /\ delta.cache = [conv |-> conv.state, ssm |-> states[Len(states)],
                        offset |-> held.offset + Len(h)]
  BY DEF DeltaNet, Written
<1> HIDE DEF states, conv, delta
<1>5. delta.out = Carried(states)
  BY <1>1, <1>3, <1>4 DEF Carried
<1>6. IsSeq(Carried(states)) /\ Len(Carried(states)) = Len(h)
  BY <1>3, CarriedJoined
<1>7. AddsRows(delta, h)
  BY <1>5, <1>6 DEF AddsRows
<1>8. /\ delta.cache.conv = conv.state
      /\ delta.cache.ssm = states[Len(states)]
      /\ delta.cache.offset = held.offset + Len(h)
  BY <1>4
<1>9. QED BY <1>4, <1>5, <1>7, <1>8 DEF DeltaIs, states, conv, delta, writes

LEMMA DeltaContinues ==
  ASSUME NEW m, m.kernel \in Nat \ {0}, NEW held, DeltaHeld(m, held), NEW h, NEW g,
         IsSeq(h), IsSeq(g), Len(h) > 0, Len(g) > 0
  PROVE  /\ Continues(DeltaNet(m, h, held), DeltaNet(m, g, DeltaNet(m, h, held).cache),
                      DeltaNet(m, h \o g, held))
         /\ DeltaHeld(m, DeltaNet(m, h, held).cache)
<1> DEFINE rows == h \o g
           one == DeltaNet(m, h, held)
           left == one.cache
           two == DeltaNet(m, g, left)
           all == DeltaNet(m, rows, held)
           c1 == CausalConv(m, h, held.conv)
           c2 == CausalConv(m, g, left.conv)
           c3 == CausalConv(m, rows, held.conv)
           w1 == Written(h, c1.out)
           w2 == Written(g, c2.out)
           w3 == Written(rows, c3.out)
           s1 == Recurrence(held.ssm, w1)
           s2 == Recurrence(left.ssm, w2)
           s3 == Recurrence(held.ssm, w3)
<1>1. /\ IsSeq(held.conv) /\ Len(held.conv) = m.kernel - 1
      /\ IsSeq(held.ssm) /\ held.offset \in Int
  BY DEF DeltaHeld
<1>2. IsSeq(rows) /\ Len(rows) = Len(h) + Len(g) /\ Len(h) \in Nat /\ Len(g) \in Nat
  BY JoinFacts, SeqFacts
<1>3. /\ one.out = Carried(s1) /\ left.conv = c1.state /\ left.ssm = s1[Len(s1)]
      /\ left.offset = held.offset + Len(h)
  <2>1. DeltaIs(m, one, h, held)
    BY DeltaParts
  <2> HIDE DEF one
  <2>2. QED BY <2>1 DEF DeltaIs
<1>4. ConvIs(m, c1, h, held.conv)
  BY <1>1, ConvFacts
<1>5. IsSeq(c1.out) /\ Len(c1.out) = Len(h) /\ IsSeq(c1.state) /\ Len(c1.state) = m.kernel - 1
  BY <1>4 DEF ConvIs
<1>6. IsSeq(w1) /\ Len(w1) = Len(h)
  BY WrittenFacts
<1>7. c3.out = c1.out \o c2.out /\ c3.state = c2.state
  <2>1. ConvAsOne(m, h, g, held.conv)
    BY <1>1, ConvContinues
  <2>2. QED BY <2>1, <1>3 DEF ConvAsOne
<1>8. IsSeq(c2.out) /\ Len(c2.out) = Len(g)
  <2>1. IsSeq(left.conv) /\ Len(left.conv) = m.kernel - 1
    BY <1>3, <1>5
  <2> HIDE DEF left
  <2>2. ConvIs(m, c2, g, left.conv)
    BY <2>1, ConvFacts
  <2>3. QED BY <2>2 DEF ConvIs
<1>9. w3 = w1 \o w2
  <2> HIDE DEF c1, c2, c3
  <2>1. PICK s, t : s = c1.out /\ t = c2.out
    OBVIOUS
  <2>2. IsSeq(s) /\ Len(s) = Len(h) /\ IsSeq(t) /\ Len(t) = Len(g)
    BY <1>5, <1>8, <2>1
  <2>3. Written(h \o g, s \o t) = Written(h, s) \o Written(g, t)
    BY <2>2, WrittenJoined
  <2>4. QED BY <1>7, <2>1, <2>3
<1>10. IsSeq(w2) /\ Len(w2) = Len(g)
  BY WrittenFacts
<1>11. s3 = s1 \o s2 /\ s3[Len(s3)] = s2[Len(s2)] /\ IsSeq(s1[Len(s1)])
  <2> HIDE DEF w1, w2, w3, left
  <2>1. RecurrenceAsOne(held.ssm, w1, w2)
    BY <1>1, <1>6, <1>10, RecurrenceContinues
  <2>2. QED BY <2>1, <1>3, <1>9 DEF RecurrenceAsOne
<1>12. DeltaHeld(m, left)
  <2> HIDE DEF left, s1, c1
  <2>1. QED BY <1>1, <1>2, <1>3, <1>5, <1>11 DEF DeltaHeld
<1>13. /\ two.out = Carried(s2)
       /\ two.cache = [conv |-> c2.state, ssm |-> s2[Len(s2)], offset |-> left.offset + Len(g)]
  <2> HIDE DEF left
  <2>1. DeltaIs(m, two, g, left)
    BY <1>12, DeltaParts
  <2> HIDE DEF two
  <2>2. QED BY <2>1 DEF DeltaIs
<1>14. /\ all.out = Carried(s3)
       /\ all.cache = [conv |-> c3.state, ssm |-> s3[Len(s3)], offset |-> held.offset + Len(rows)]
  <2> HIDE DEF rows
  <2>1. DeltaIs(m, all, rows, held)
    BY <1>2, DeltaParts
  <2> HIDE DEF all
  <2>2. QED BY <2>1 DEF DeltaIs
<1>15. IsSeq(s1) /\ IsSeq(s2)
  <2> HIDE DEF w1, w2, left
  <2>1. QED BY <1>6, <1>10, RecurrenceFacts
<1> HIDE DEF s1, s2, s3, one, two, all, left, rows, c1, c2, c3
<1>16. Carried(s1 \o s2) = Carried(s1) \o Carried(s2)
  BY <1>15, CarriedJoined
<1>17. all.out = one.out \o two.out
  BY <1>3, <1>11, <1>13, <1>14, <1>16
<1>18. all.cache = two.cache
  <2>1. held.offset + Len(rows) = left.offset + Len(g)
    BY <1>1, <1>2, <1>3
  <2>2. QED BY <2>1, <1>7, <1>11, <1>13, <1>14
<1>19. QED BY <1>12, <1>17, <1>18 DEF Continues, one, two, all, left, rows

-----------------------------------------------------------------------------
(* Feed-forward: what it adds to a row depends on that row alone, although    *)
(* the experts gather the rows of a whole forward.                            *)

RowExperts(m, row, norm_topk) ==
  {<<e, row.src, IF norm_topk THEN TopExperts(m, row) ELSE {}>> :
     e \in {x \in 1 .. m.experts : x \in TopExperts(m, row)}}

RowFfn(m, i, row) ==
  IF ~ m.moe[i] THEN {<<0, row.src, {}>>}
  ELSE IF IsHybrid(m) THEN RowExperts(m, row, TRUE) \cup {Shared(row, TRUE)}
  ELSE RowExperts(m, row, m.norm_topk) \cup {Shared(row, m.shared_gate)}

Ffn(m, i, h) ==
  IF ~ m.moe[i] THEN Dense(h) ELSE IF IsHybrid(m) THEN MoeFfn(m, h) ELSE MoeMlp(m, h)

LEMMA RoutedRow ==
  ASSUME NEW m, NEW h, NEW norm_topk, NEW t \in DOMAIN h
  PROVE  RoutedExperts(m, h, norm_topk)[t] = RowExperts(m, h[t], norm_topk)
<1> DEFINE routed == [e \in 1 .. m.experts |-> {s \in DOMAIN h : e \in TopExperts(m, h[s])}]
<1>1. {x \in 1 .. m.experts : t \in routed[x]} = {x \in 1 .. m.experts : x \in TopExperts(m, h[t])}
  OBVIOUS
<1>2. RoutedExperts(m, h, norm_topk)[t]
        = {<<e, h[t].src, IF norm_topk THEN TopExperts(m, h[t]) ELSE {}>> :
             e \in {x \in 1 .. m.experts : t \in routed[x]}}
  BY DEF RoutedExperts
<1>3. QED BY <1>1, <1>2 DEF RowExperts

LEMMA FfnRows ==
  ASSUME NEW m, NEW i, NEW h, IsSeq(h)
  PROVE  /\ IsSeq(Ffn(m, i, h)) /\ Len(Ffn(m, i, h)) = Len(h)
         /\ \A t \in 1 .. Len(h) : Ffn(m, i, h)[t] = RowFfn(m, i, h[t])
<1>1. Len(h) \in Nat /\ DOMAIN h = 1 .. Len(h)
  BY SeqFacts
<1>2. CASE ~ m.moe[i]
  <2>1. Ffn(m, i, h) = [t \in 1 .. Len(h) |-> RowFfn(m, i, h[t])]
    BY <1>1, <1>2 DEF Ffn, Dense, RowFfn
  <2>2. QED BY <1>1, <2>1, MappedIsSeq
<1>3. CASE m.moe[i] /\ IsHybrid(m)
  <2> DEFINE f == [t \in 1 .. Len(h) |-> RoutedExperts(m, h, TRUE)[t] \cup {Shared(h[t], TRUE)}]
  <2>1. IsSeq(f) /\ Len(f) = Len(h)
    BY <1>1, MappedIsSeq
  <2>2. Ffn(m, i, h) = f
    <3>1. Ffn(m, i, h) = Strict(f)
      BY <1>1, <1>3 DEF Ffn, MoeFfn
    <3>2. QED BY <2>1, <3>1, StrictIs
  <2>3. ASSUME NEW t \in 1 .. Len(h)
        PROVE  f[t] = RowFfn(m, i, h[t])
    <3>1. \A yes : RoutedExperts(m, h, yes)[t] = RowExperts(m, h[t], yes)
      BY <1>1, RoutedRow
    <3>2. f[t] = RoutedExperts(m, h, TRUE)[t] \cup {Shared(h[t], TRUE)}
      OBVIOUS
    <3>3. RoutedExperts(m, h, TRUE)[t] = RowExperts(m, h[t], TRUE)
      BY <3>1, Zenon
    <3>4. QED BY <1>3, <3>2, <3>3 DEF RowFfn
  <2>4. QED BY <2>1, <2>2, <2>3
<1>4. CASE m.moe[i] /\ ~ IsHybrid(m)
  <2> DEFINE f == [t \in 1 .. Len(h) |->
                     RoutedExperts(m, h, m.norm_topk)[t] \cup {Shared(h[t], m.shared_gate)}]
  <2>1. IsSeq(f) /\ Len(f) = Len(h)
    BY <1>1, MappedIsSeq
  <2>2. Ffn(m, i, h) = f
    <3>1. Ffn(m, i, h) = Strict(f)
      BY <1>1, <1>4 DEF Ffn, MoeMlp
    <3>2. QED BY <2>1, <3>1, StrictIs
  <2>3. ASSUME NEW t \in 1 .. Len(h)
        PROVE  f[t] = RowFfn(m, i, h[t])
    <3>1. RoutedExperts(m, h, m.norm_topk)[t] = RowExperts(m, h[t], m.norm_topk)
      BY <1>1, RoutedRow
    <3>2. f[t] = RoutedExperts(m, h, m.norm_topk)[t] \cup {Shared(h[t], m.shared_gate)}
      OBVIOUS
    <3>3. QED BY <1>4, <3>1, <3>2 DEF RowFfn
  <2>4. QED BY <2>1, <2>2, <2>3
<1>5. QED BY <1>2, <1>3, <1>4

LEMMA FfnJoined ==
  ASSUME NEW m, NEW i, NEW h, NEW g, IsSeq(h), IsSeq(g)
  PROVE  Ffn(m, i, h \o g) = Ffn(m, i, h) \o Ffn(m, i, g)
<1> DEFINE rows == h \o g
           all == Ffn(m, i, rows)
           one == Ffn(m, i, h)
           two == Ffn(m, i, g)
<1>1. /\ IsSeq(rows) /\ Len(rows) = Len(h) + Len(g)
      /\ \A k \in 1 .. Len(h) : rows[k] = h[k]
      /\ \A k \in 1 .. Len(g) : rows[Len(h) + k] = g[k]
  BY JoinFacts
<1>2. Len(h) \in Nat /\ Len(g) \in Nat
  BY SeqFacts
<1> HIDE DEF rows
<1>3. IsSeq(all) /\ Len(all) = Len(rows) /\ \A t \in 1 .. Len(rows) : all[t] = RowFfn(m, i, rows[t])
  BY <1>1, FfnRows
<1>4. IsSeq(one) /\ Len(one) = Len(h) /\ \A t \in 1 .. Len(h) : one[t] = RowFfn(m, i, h[t])
  BY FfnRows
<1>5. IsSeq(two) /\ Len(two) = Len(g) /\ \A t \in 1 .. Len(g) : two[t] = RowFfn(m, i, g[t])
  BY FfnRows
<1> HIDE DEF all, one, two
<1>6. ASSUME NEW k \in 1 .. Len(one)
      PROVE  all[k] = one[k]
  <2>1. k \in 1 .. Len(h) /\ k \in 1 .. Len(rows)
    BY <1>1, <1>2, <1>4
  <2>2. QED BY <2>1, <1>1, <1>3, <1>4
<1>7. ASSUME NEW k \in 1 .. Len(two)
      PROVE  all[Len(one) + k] = two[k]
  <2>1. Len(h) + k \in 1 .. Len(rows)
    BY <1>1, <1>2, <1>5
  <2>2. QED BY <2>1, <1>1, <1>3, <1>4, <1>5
<1>8. Parts(all, one, two)
  BY <1>1, <1>3, <1>4, <1>5, <1>6, <1>7 DEF Parts
<1>9. QED BY <1>8, JoinedBy DEF all, one, two, rows

Combined(row, mix, ffn) ==
  [row EXCEPT !.out = Append(@, [mix |-> mix, ffn |-> ffn, visual |-> 0])]

RowsCombined(out, h, mixed, ffn) ==
  /\ IsSeq(out) /\ Len(out) = Len(h)
  /\ \A t \in 1 .. Len(h) : out[t] = Combined(h[t], mixed[t], ffn[t])

LEMMA CombineRows ==
  ASSUME NEW h, NEW mixed, NEW ffn, IsSeq(h)
  PROVE  RowsCombined(CombineFfn(h, mixed, ffn), h, mixed, ffn)
<1> DEFINE f == [r \in 1 .. Len(h) |-> Combined(h[r], mixed[r], ffn[r])]
<1>1. Len(h) \in Nat /\ DOMAIN h = 1 .. Len(h)
  BY SeqFacts
<1>2. CombineFfn(h, mixed, ffn) = Strict(f)
  BY <1>1 DEF CombineFfn, Combined
<1>3. IsSeq(f) /\ Len(f) = Len(h) /\ \A t \in 1 .. Len(h) : f[t] = Combined(h[t], mixed[t], ffn[t])
  BY <1>1, MappedIsSeq
<1>4. CombineFfn(h, mixed, ffn) = f
  BY <1>2, <1>3, StrictIs
<1> HIDE DEF f
<1>5. QED BY <1>3, <1>4 DEF RowsCombined

LEMMA CombineJoined ==
  ASSUME NEW h, NEW g, NEW s, NEW t, NEW e, NEW f, IsSeq(h), IsSeq(g), IsSeq(s), IsSeq(t),
         IsSeq(e), IsSeq(f), Len(s) = Len(h), Len(t) = Len(g), Len(e) = Len(h), Len(f) = Len(g)
  PROVE  CombineFfn(h \o g, s \o t, e \o f) = CombineFfn(h, s, e) \o CombineFfn(g, t, f)
<1> DEFINE rows == h \o g
           adds == s \o t
           more == e \o f
           all == CombineFfn(rows, adds, more)
           one == CombineFfn(h, s, e)
           two == CombineFfn(g, t, f)
<1>1. /\ IsSeq(rows) /\ Len(rows) = Len(h) + Len(g)
      /\ \A k \in 1 .. Len(h) : rows[k] = h[k]
      /\ \A k \in 1 .. Len(g) : rows[Len(h) + k] = g[k]
  BY JoinFacts
<1>2. /\ \A k \in 1 .. Len(h) : adds[k] = s[k] /\ more[k] = e[k]
      /\ \A k \in 1 .. Len(g) : adds[Len(h) + k] = t[k] /\ more[Len(h) + k] = f[k]
  BY JoinFacts
<1>3. Len(h) \in Nat /\ Len(g) \in Nat
  BY SeqFacts
<1> HIDE DEF rows, adds, more
<1>4a. RowsCombined(all, rows, adds, more) /\ RowsCombined(one, h, s, e) /\ RowsCombined(two, g, t, f)
  BY <1>1, CombineRows
<1> HIDE DEF all, one, two
<1>4. /\ IsSeq(all) /\ Len(all) = Len(rows)
      /\ \A k \in 1 .. Len(rows) : all[k] = Combined(rows[k], adds[k], more[k])
  BY <1>4a DEF RowsCombined
<1>5. /\ IsSeq(one) /\ Len(one) = Len(h)
      /\ \A k \in 1 .. Len(h) : one[k] = Combined(h[k], s[k], e[k])
  BY <1>4a DEF RowsCombined
<1>6. /\ IsSeq(two) /\ Len(two) = Len(g)
      /\ \A k \in 1 .. Len(g) : two[k] = Combined(g[k], t[k], f[k])
  BY <1>4a DEF RowsCombined
<1>7. ASSUME NEW k \in 1 .. Len(one)
      PROVE  all[k] = one[k]
  <2>1. k \in 1 .. Len(h) /\ k \in 1 .. Len(rows)
    BY <1>1, <1>3, <1>5
  <2>2. QED BY <2>1, <1>1, <1>2, <1>4, <1>5
<1>8. ASSUME NEW k \in 1 .. Len(two)
      PROVE  all[Len(one) + k] = two[k]
  <2>1. PICK n \in Nat : n = Len(h) /\ Len(one) = n
    BY <1>3, <1>5
  <2>2. n + k \in 1 .. Len(rows) /\ k \in 1 .. Len(g)
    BY <1>1, <1>3, <1>6, <2>1
  <2>3. all[n + k] = Combined(rows[n + k], adds[n + k], more[n + k])
    BY <1>4, <2>2
  <2>4. rows[n + k] = g[k] /\ adds[n + k] = t[k] /\ more[n + k] = f[k]
    BY <1>1, <1>2, <2>1, <2>2
  <2>5. two[k] = Combined(g[k], t[k], f[k])
    BY <1>6, <2>2
  <2>6. QED BY <2>1, <2>3, <2>4, <2>5
<1>9. Parts(all, one, two)
  BY <1>1, <1>4, <1>5, <1>6, <1>7, <1>8 DEF Parts
<1>10. QED BY <1>9, JoinedBy DEF all, one, two, rows, adds, more

LEMMA CombineFacts ==
  ASSUME NEW h, NEW mixed, NEW ffn, IsSeq(h)
  PROVE  IsSeq(CombineFfn(h, mixed, ffn)) /\ Len(CombineFfn(h, mixed, ffn)) = Len(h)
BY CombineRows DEF RowsCombined

-----------------------------------------------------------------------------
(* A layer of either decoder.                                                *)

DecoderShape(m) ==
  /\ m.fused \in Nat /\ m.kernel \in Nat \ {0} /\ IsSeq(m.mixer)

(* What the layer mixes in, before the feed-forward. *)
Mixer(m, i, h, at, held) ==
  IF IsHybrid(m)
  THEN IF m.mixer[i] = "delta" THEN DeltaNet(m, h, held) ELSE GatedAttention(m, h, at, held)
  ELSE IF m.mixer[i] = "gqa" THEN GroupedAttention(m, h, at, held)
       ELSE LatentAttention(m, h, at, held)

(* What a layer may find in its cache. *)
Held(m, i, held) == IF IsHybrid(m) /\ m.mixer[i] = "delta" THEN DeltaHeld(m, held) ELSE IsSeq(held)

LEMMA LayerIs ==
  ASSUME NEW m, NEW i, NEW h, NEW at, NEW held
  PROVE  /\ Layer(m, i, h, at, held).cache = Mixer(m, i, h, at, held).cache
         /\ Layer(m, i, h, at, held).h
              = CombineFfn(h, Mixer(m, i, h, at, held).out, Ffn(m, i, h))
<1>1. CASE IsHybrid(m)
  <2>1. Mixer(m, i, h, at, held) = IF m.mixer[i] = "delta" THEN DeltaNet(m, h, held)
                                   ELSE GatedAttention(m, h, at, held)
    BY <1>1 DEF Mixer
  <2>2. Ffn(m, i, h) = IF m.moe[i] THEN MoeFfn(m, h) ELSE Dense(h)
    BY <1>1 DEF Ffn
  <2>3. Layer(m, i, h, at, held) = DecoderLayer(m, i, h, at, held)
    BY <1>1 DEF Layer
  <2>4. QED BY <2>1, <2>2, <2>3 DEF DecoderLayer
<1>2. CASE ~ IsHybrid(m)
  <2>1. Mixer(m, i, h, at, held) = IF m.mixer[i] = "gqa" THEN GroupedAttention(m, h, at, held)
                                   ELSE LatentAttention(m, h, at, held)
    BY <1>2 DEF Mixer
  <2>2. Ffn(m, i, h) = IF m.moe[i] THEN MoeMlp(m, h) ELSE Dense(h)
    BY <1>2 DEF Ffn
  <2>3. Layer(m, i, h, at, held) = LlamaLayer(m, i, h, at, held)
    BY <1>2 DEF Layer
  <2>4. QED BY <2>1, <2>2, <2>3 DEF LlamaLayer
<1>3. QED BY <1>1, <1>2

LEMMA MixerAdds ==
  ASSUME NEW m, DecoderShape(m), NEW i, NEW h, NEW at, NEW held, Held(m, i, held), IsSeq(h)
  PROVE  AddsRows(Mixer(m, i, h, at, held), h)
<1>1. CASE IsHybrid(m) /\ m.mixer[i] = "delta"
  <2>1. DeltaHeld(m, held)
    BY <1>1 DEF Held
  <2>2. AddsRows(DeltaNet(m, h, held), h)
    BY <2>1, DeltaParts DEF DecoderShape, DeltaIs
  <2>3. QED BY <1>1, <2>2 DEF Mixer
<1>2. CASE ~ (IsHybrid(m) /\ m.mixer[i] = "delta")
  <2>1. IsSeq(held)
    BY <1>2 DEF Held
  <2>2. QED BY <1>2, <2>1, AttentionAdds DEF Mixer, DecoderShape
<1>3. QED BY <1>1, <1>2

LEMMA MixerContinues ==
  ASSUME NEW m, DecoderShape(m), NEW i, NEW held, Held(m, i, held),
         NEW h, NEW g, NEW at, NEW bt, TwoRuns(h, g, at, bt)
  PROVE  /\ Continues(Mixer(m, i, h, at, held),
                      Mixer(m, i, g, bt, Mixer(m, i, h, at, held).cache),
                      Mixer(m, i, h \o g, at \o bt, held))
         /\ Held(m, i, Mixer(m, i, h, at, held).cache)
<1>1. CASE IsHybrid(m) /\ m.mixer[i] = "delta"
  <2>1. DeltaHeld(m, held)
    BY <1>1 DEF Held
  <2>2. /\ Continues(DeltaNet(m, h, held), DeltaNet(m, g, DeltaNet(m, h, held).cache),
                     DeltaNet(m, h \o g, held))
        /\ DeltaHeld(m, DeltaNet(m, h, held).cache)
    BY <2>1, DeltaContinues DEF DecoderShape, TwoRuns
  <2>3. \A x, y, z : Mixer(m, i, x, y, z) = DeltaNet(m, x, z)
    BY <1>1 DEF Mixer
  <2>4. \A z : Held(m, i, z) = DeltaHeld(m, z)
    BY <1>1 DEF Held
  <2>5. QED BY <2>2, <2>3, <2>4
<1>2. CASE ~ (IsHybrid(m) /\ m.mixer[i] = "delta")
  <2>1. IsSeq(held) /\ \A z : IsSeq(z) => Held(m, i, z)
    BY <1>2 DEF Held
  <2>2. IsSeq(held \o Turned(h, at))
    BY <2>1, AttentionAdds DEF DecoderShape, TwoRuns
  <2>3. CASE IsHybrid(m)
    <3>1. \A x, y, z : Mixer(m, i, x, y, z) = GatedAttention(m, x, y, z)
      BY <1>2, <2>3 DEF Mixer
    <3>2. GatedAttention(m, h, at, held).cache = held \o Turned(h, at)
      BY <2>1, AttentionAdds DEF DecoderShape, TwoRuns
    <3>3. Continues(GatedAttention(m, h, at, held),
                    GatedAttention(m, g, bt, held \o Turned(h, at)),
                    GatedAttention(m, h \o g, at \o bt, held))
      BY <2>1, GatedContinues DEF DecoderShape
    <3>4. Held(m, i, Mixer(m, i, h, at, held).cache)
      BY <2>1, <2>2, <3>1, <3>2
    <3>5. QED BY <3>1, <3>2, <3>3, <3>4
  <2>4. CASE ~ IsHybrid(m) /\ m.mixer[i] = "gqa"
    <3>1. \A x, y, z : Mixer(m, i, x, y, z) = GroupedAttention(m, x, y, z)
      BY <2>4 DEF Mixer
    <3>2. GroupedAttention(m, h, at, held).cache = held \o Turned(h, at)
      BY <2>1, AttentionAdds DEF DecoderShape, TwoRuns
    <3>3. Continues(GroupedAttention(m, h, at, held),
                    GroupedAttention(m, g, bt, held \o Turned(h, at)),
                    GroupedAttention(m, h \o g, at \o bt, held))
      BY <2>1, GroupedContinues DEF DecoderShape
    <3>4. Held(m, i, Mixer(m, i, h, at, held).cache)
      BY <2>1, <2>2, <3>1, <3>2
    <3>5. QED BY <3>1, <3>2, <3>3, <3>4
  <2>5. CASE ~ IsHybrid(m) /\ m.mixer[i] # "gqa"
    <3>1. \A x, y, z : Mixer(m, i, x, y, z) = LatentAttention(m, x, y, z)
      BY <2>5 DEF Mixer
    <3>2. LatentAttention(m, h, at, held).cache = held \o Turned(h, at)
      BY <2>1, AttentionAdds DEF DecoderShape, TwoRuns
    <3>3. Continues(LatentAttention(m, h, at, held),
                    LatentAttention(m, g, bt, held \o Turned(h, at)),
                    LatentAttention(m, h \o g, at \o bt, held))
      BY <2>1, LatentContinues DEF DecoderShape
    <3>4. Held(m, i, Mixer(m, i, h, at, held).cache)
      BY <2>1, <2>2, <3>1, <3>2
    <3>5. QED BY <3>1, <3>2, <3>3, <3>4
  <2>6. QED BY <2>3, <2>4, <2>5
<1>3. QED BY <1>1, <1>2

(* A layer run over h from what it held and then over g leaves the cache of one *)
(* run over both, and their rows.                                              *)
LayerAsOne(m, first, second, whole, h, g) ==
  /\ whole.cache = second.cache
  /\ whole.h = first.h \o second.h
  /\ IsSeq(first.h) /\ Len(first.h) = Len(h)
  /\ IsSeq(second.h) /\ Len(second.h) = Len(g)

LEMMA LayerContinues ==
  ASSUME NEW m, DecoderShape(m), NEW i, NEW held, Held(m, i, held),
         NEW h, NEW g, NEW at, NEW bt, TwoRuns(h, g, at, bt)
  PROVE  /\ LayerAsOne(m, Layer(m, i, h, at, held),
                       Layer(m, i, g, bt, Layer(m, i, h, at, held).cache),
                       Layer(m, i, h \o g, at \o bt, held), h, g)
         /\ Held(m, i, Layer(m, i, h, at, held).cache)
<1> DEFINE first == Layer(m, i, h, at, held)
           second == Layer(m, i, g, bt, first.cache)
           whole == Layer(m, i, h \o g, at \o bt, held)
           one == Mixer(m, i, h, at, held)
           two == Mixer(m, i, g, bt, one.cache)
           all == Mixer(m, i, h \o g, at \o bt, held)
<1>1. first.cache = one.cache /\ first.h = CombineFfn(h, one.out, Ffn(m, i, h))
  BY LayerIs
<1>2. second.cache = two.cache /\ second.h = CombineFfn(g, two.out, Ffn(m, i, g))
  BY <1>1, LayerIs
<1>3. whole.cache = all.cache /\ whole.h = CombineFfn(h \o g, all.out, Ffn(m, i, h \o g))
  BY LayerIs
<1>4. Continues(one, two, all) /\ Held(m, i, one.cache)
  BY MixerContinues
<1>5. IsSeq(h) /\ IsSeq(g)
  BY DEF TwoRuns
<1>6. AddsRows(one, h) /\ AddsRows(two, g)
  BY <1>4, <1>5, MixerAdds
<1> HIDE DEF first, second, whole, one, two, all
<1>7. Ffn(m, i, h \o g) = Ffn(m, i, h) \o Ffn(m, i, g)
  BY <1>5, FfnJoined
<1>8. /\ IsSeq(Ffn(m, i, h)) /\ Len(Ffn(m, i, h)) = Len(h)
      /\ IsSeq(Ffn(m, i, g)) /\ Len(Ffn(m, i, g)) = Len(g)
  BY <1>5, FfnRows
<1>9. CombineFfn(h \o g, one.out \o two.out, Ffn(m, i, h) \o Ffn(m, i, g))
        = CombineFfn(h, one.out, Ffn(m, i, h)) \o CombineFfn(g, two.out, Ffn(m, i, g))
  <2>1. PICK s, t, e, f : /\ s = one.out /\ t = two.out
                          /\ e = Ffn(m, i, h) /\ f = Ffn(m, i, g)
    OBVIOUS
  <2>2. IsSeq(s) /\ IsSeq(t) /\ Len(s) = Len(h) /\ Len(t) = Len(g)
    BY <1>6, <2>1 DEF AddsRows
  <2>3. IsSeq(e) /\ IsSeq(f) /\ Len(e) = Len(h) /\ Len(f) = Len(g)
    BY <1>8, <2>1
  <2>4. CombineFfn(h \o g, s \o t, e \o f) = CombineFfn(h, s, e) \o CombineFfn(g, t, f)
    BY <1>5, <2>2, <2>3, CombineJoined
  <2>5. QED BY <2>1, <2>4
<1>10. whole.cache = second.cache /\ whole.h = first.h \o second.h
  BY <1>1, <1>2, <1>3, <1>4, <1>7, <1>9 DEF Continues
<1>11. /\ IsSeq(first.h) /\ Len(first.h) = Len(h)
       /\ IsSeq(second.h) /\ Len(second.h) = Len(g)
  BY <1>1, <1>2, <1>5, CombineFacts
<1>12. QED BY <1>1, <1>4, <1>10, <1>11 DEF LayerAsOne, first, second, whole

-----------------------------------------------------------------------------
(* The stack, layer by layer.                                                *)

LEMMA LeastOfNonEmpty ==
  ASSUME NEW N \in SUBSET Nat, N # {}
  PROVE  \E x \in N : \A y \in N : x <= y
<1> DEFINE R == OpToRel(<, Nat)
<1>1. IsWellFoundedOn(R, Nat)
  BY NatLessThanWellFounded
<1>2. \A x, y \in Nat : y < x => <<y, x>> \in R
  BY DEF OpToRel
<1> HIDE DEF R
<1>3. PICK x \in N : \A y \in N : ~ (<<y, x>> \in R)
  BY <1>1, WFMin
<1>4. \A y \in N : ~ (y < x)
  BY <1>2, <1>3
<1>5. QED BY <1>4

(* What holds of 0 and passes from each number to the next holds up to N. *)
LEMMA Climb ==
  ASSUME NEW N \in Nat, NEW P, 0 \in P, \A i \in 1 .. N : i - 1 \in P => i \in P
  PROVE  \A i \in 0 .. N : i \in P
<1> DEFINE Bad == {i \in 0 .. N : i \notin P}
<1>1. SUFFICES ASSUME Bad # {} PROVE FALSE
  OBVIOUS
<1>2. PICK k \in Bad : \A j \in Bad : k <= j
  <2>1. Bad \in SUBSET Nat
    OBVIOUS
  <2> HIDE DEF Bad
  <2>2. QED BY <1>1, <2>1, LeastOfNonEmpty
<1>3. k \in 1 .. N /\ k - 1 \in 0 .. N /\ ~ (k <= k - 1)
  BY <1>2
<1>4. k - 1 \in P
  BY <1>2, <1>3
<1>5. QED BY <1>2, <1>3, <1>4

StackStart(kv, embeds) == [h |-> Rows(embeds), cache |-> kv]

StackStep(m, s, at, mask, taps, i) ==
  LET l == Layer(m, i, s.h, at, s.cache[i])
  IN  [h |-> IF i <= taps THEN AddVisualFeatures(l.h, mask) ELSE l.h,
       cache |-> [s.cache EXCEPT ![i] = l.cache]]

(* f[i] is what has been through the first i layers. *)
IsStack(f, m, kv, embeds, at, mask, taps) ==
  /\ f[0] = StackStart(kv, embeds)
  /\ \A i \in 1 .. Len(m.mixer) : f[i] = StackStep(m, f[i - 1], at, mask, taps, i)

LEMMA StackRuns ==
  ASSUME NEW m, DecoderShape(m), NEW kv, NEW embeds, NEW at, NEW mask, NEW taps
  PROVE  \E f : /\ IsStack(f, m, kv, embeds, at, mask, taps)
                /\ RunFusedStack(m, kv, embeds, at, mask, taps) = f[Len(m.mixer)]
<1>1. PICK N \in Nat : N = Len(m.mixer)
  BY SeqFacts DEF DecoderShape
<1> DEFINE start == StackStart(kv, embeds)
           Step(s, i) == StackStep(m, s, at, mask, taps, i)
           Upto(f, k) == f = [i \in 0 .. k |-> IF i = 0 THEN start ELSE Step(f[i - 1], i)]
           P == {k \in 0 .. N : \E f : Upto(f, k)}
<1>2. 0 \in P
  <2> HIDE DEF start, Step
  <2> DEFINE f == [i \in 0 .. 0 |-> start]
  <2>1. f = [i \in 0 .. 0 |-> IF i = 0 THEN start ELSE Step(f[i - 1], i)]
    OBVIOUS
  <2> HIDE DEF f
  <2>2. Upto(f, 0)
    BY <2>1
  <2>3. \E x : Upto(x, 0)
    BY <2>2
  <2> HIDE DEF Upto
  <2>4. QED BY <2>3
<1>3. ASSUME NEW k \in 1 .. N, k - 1 \in P
      PROVE  k \in P
  <2> HIDE DEF start, Step
  <2>1. PICK g : g = [i \in 0 .. k - 1 |-> IF i = 0 THEN start ELSE Step(g[i - 1], i)]
    BY <1>3
  <2> DEFINE f == [i \in 0 .. k |-> IF i = k THEN Step(g[k - 1], k) ELSE g[i]]
  <2>2. ASSUME NEW i \in 0 .. k
        PROVE  f[i] = IF i = 0 THEN start ELSE Step(f[i - 1], i)
    <3>1. CASE i = 0
      <4>1. f[i] = g[0] /\ 0 \in 0 .. k - 1
        BY <3>1
      <4>2. QED BY <2>1, <3>1, <4>1
    <3>2. CASE i # 0
      <4>1. i - 1 \in 0 .. k - 1 /\ f[i - 1] = g[i - 1]
        BY <3>2
      <4>2. CASE i = k
        BY <3>2, <4>1, <4>2
      <4>3. CASE i # k
        <5>1. i \in 0 .. k - 1 /\ f[i] = g[i]
          BY <4>3
        <5>2. g[i] = Step(g[i - 1], i)
          BY <2>1, <3>2, <5>1
        <5>3. QED BY <3>2, <4>1, <5>1, <5>2
      <4>4. QED BY <4>2, <4>3
    <3>3. QED BY <3>1, <3>2
  <2>3. DOMAIN f = 0 .. k /\ f = [i \in 0 .. k |-> f[i]]
    OBVIOUS
  <2> HIDE DEF f
  <2>4. Upto(f, k)
    BY <2>2, <2>3
  <2>5. QED BY <2>4
<1>4. N \in P
  <2> HIDE DEF P
  <2>1. QED BY <1>2, <1>3, Climb
<1>5. PICK a : a = (CHOOSE f : Upto(f, N)) /\ Upto(a, N)
  <2>1. \E f : Upto(f, N)
    BY <1>4
  <2> HIDE DEF Upto
  <2>2. QED BY <2>1
<1>6. RunFusedStack(m, kv, embeds, at, mask, taps) = a[N]
  BY <1>1, <1>5 DEF RunFusedStack, StackStep, StackStart
<1>7. IsStack(a, m, kv, embeds, at, mask, taps)
  <2> HIDE DEF start, Step
  <2>1. a[0] = start
    <3>1. 0 \in 0 .. N
      OBVIOUS
    <3>2. a[0] = IF 0 = 0 THEN start ELSE Step(a[0 - 1], 0)
      BY <1>5, <3>1
    <3>3. QED BY <3>2
  <2>2. ASSUME NEW i \in 1 .. N
        PROVE  a[i] = Step(a[i - 1], i)
    <3>1. i \in 0 .. N /\ i # 0
      OBVIOUS
    <3>2. QED BY <1>5, <3>1
  <2> USE DEF start, Step
  <2>3. QED BY <1>1, <2>1, <2>2 DEF IsStack
<1>8. QED BY <1>1, <1>6, <1>7

IsCache(m, kv) ==
  /\ IsSeq(kv) /\ Len(kv) = Len(m.mixer)
  /\ \A i \in 1 .. Len(m.mixer) : Held(m, i, kv[i])

Updated(t, s, i, x) ==
  /\ IsSeq(t) /\ Len(t) = Len(s)
  /\ \A j \in 1 .. Len(s) : t[j] = IF j = i THEN x ELSE s[j]

LEMMA UpdatedSeq ==
  ASSUME NEW s, IsSeq(s), NEW i \in 1 .. Len(s), NEW x
  PROVE  Updated([s EXCEPT ![i] = x], s, i, x)
<1>1. Len(s) \in Nat /\ DOMAIN s = 1 .. Len(s)
  BY SeqFacts
<1> DEFINE t == [s EXCEPT ![i] = x]
<1>2. t = [j \in 1 .. Len(s) |-> IF j = i THEN x ELSE s[j]]
  BY <1>1
<1>3. IsSeq(t) /\ Len(t) = Len(s)
  <2>1. DOMAIN t = 1 .. Len(s) /\ t = [j \in 1 .. Len(s) |-> t[j]]
    BY <1>2
  <2> HIDE DEF t
  <2>2. QED BY <1>1, <2>1, MappedIsSeq
<1>4. \A j \in 1 .. Len(s) : t[j] = IF j = i THEN x ELSE s[j]
  BY <1>2
<1> HIDE DEF t
<1>5. Updated(t, s, i, x)
  BY <1>3, <1>4 DEF Updated
<1>6. QED BY <1>5 DEF t

(* Layer i of the stack f: what its own, yet unchanged kv gives. *)
LayerOf(m, f, kv, at, i) == Layer(m, i, f[i - 1].h, at, kv[i])

(* After i layers only their caches have changed. *)
CachesUpTo(m, f, kv, at, i) ==
  /\ IsSeq(f[i].cache) /\ Len(f[i].cache) = Len(m.mixer)
  /\ \A j \in 1 .. Len(m.mixer) :
       f[i].cache[j] = IF j <= i THEN LayerOf(m, f, kv, at, j).cache ELSE kv[j]

LEMMA StackCaches ==
  ASSUME NEW m, DecoderShape(m), NEW kv, NEW embeds, NEW at, NEW mask, NEW taps, NEW f,
         IsStack(f, m, kv, embeds, at, mask, taps), IsSeq(kv), Len(kv) = Len(m.mixer)
  PROVE  \A i \in 0 .. Len(m.mixer) : CachesUpTo(m, f, kv, at, i)
<1>1. PICK N \in Nat : N = Len(m.mixer)
  BY SeqFacts DEF DecoderShape
<1> DEFINE P == {i \in 0 .. N : CachesUpTo(m, f, kv, at, i)}
<1>2. 0 \in P
  <2>1. f[0].cache = kv
    BY DEF IsStack, StackStart
  <2>2. CachesUpTo(m, f, kv, at, 0)
    BY <1>1, <2>1 DEF CachesUpTo
  <2>3. QED BY <2>2
<1>3. ASSUME NEW i \in 1 .. N, i - 1 \in P
      PROVE  i \in P
  <2>1. CachesUpTo(m, f, kv, at, i - 1)
    BY <1>3
  <2>2. f[i] = StackStep(m, f[i - 1], at, mask, taps, i)
    BY <1>1 DEF IsStack
  <2> DEFINE before == f[i - 1].cache
             l == Layer(m, i, f[i - 1].h, at, before[i])
  <2>3. f[i].cache = [before EXCEPT ![i] = l.cache]
    BY <2>2 DEF StackStep
  <2>4. /\ IsSeq(before) /\ Len(before) = N
        /\ \A j \in 1 .. N : before[j] = IF j <= i - 1 THEN LayerOf(m, f, kv, at, j).cache
                                         ELSE kv[j]
    BY <1>1, <2>1 DEF CachesUpTo
  <2>5. l = LayerOf(m, f, kv, at, i)
    BY <2>4 DEF LayerOf
  <2>6a. Updated([before EXCEPT ![i] = l.cache], before, i, l.cache)
    BY <2>4, UpdatedSeq
  <2> HIDE DEF before, l
  <2>6. /\ IsSeq(f[i].cache) /\ Len(f[i].cache) = N
        /\ \A j \in 1 .. N : f[i].cache[j] = IF j = i THEN l.cache ELSE before[j]
    BY <2>3, <2>4, <2>6a DEF Updated
  <2>7. \A j \in 1 .. N : f[i].cache[j] = IF j <= i THEN LayerOf(m, f, kv, at, j).cache
                                          ELSE kv[j]
    BY <2>4, <2>5, <2>6
  <2>8. QED BY <1>1, <2>6, <2>7 DEF CachesUpTo
<1> HIDE DEF P
<1>4. \A i \in 0 .. N : i \in P
  BY <1>2, <1>3, Climb
<1>5. QED BY <1>1, <1>4 DEF P

(* The rows after layer i, and the caches after all. *)
StackLayers(m, f, kv, at, mask, taps) ==
  /\ \A i \in 1 .. Len(m.mixer) :
       f[i].h = IF i <= taps THEN AddVisualFeatures(LayerOf(m, f, kv, at, i).h, mask)
                ELSE LayerOf(m, f, kv, at, i).h
  /\ IsSeq(f[Len(m.mixer)].cache) /\ Len(f[Len(m.mixer)].cache) = Len(m.mixer)
  /\ \A i \in 1 .. Len(m.mixer) : f[Len(m.mixer)].cache[i] = LayerOf(m, f, kv, at, i).cache

LEMMA StackIsLayers ==
  ASSUME NEW m, DecoderShape(m), NEW kv, NEW embeds, NEW at, NEW mask, NEW taps, NEW f,
         IsStack(f, m, kv, embeds, at, mask, taps), IsSeq(kv), Len(kv) = Len(m.mixer)
  PROVE  StackLayers(m, f, kv, at, mask, taps)
<1>1. PICK N \in Nat : N = Len(m.mixer)
  BY SeqFacts DEF DecoderShape
<1>2. \A i \in 0 .. N : CachesUpTo(m, f, kv, at, i)
  BY <1>1, StackCaches
<1>3. ASSUME NEW i \in 1 .. N
      PROVE  f[i].h = IF i <= taps THEN AddVisualFeatures(LayerOf(m, f, kv, at, i).h, mask)
                      ELSE LayerOf(m, f, kv, at, i).h
  <2>1. f[i] = StackStep(m, f[i - 1], at, mask, taps, i)
    BY <1>1 DEF IsStack
  <2>2. i - 1 \in 0 .. N /\ ~ (i <= i - 1)
    OBVIOUS
  <2>3. f[i - 1].cache[i] = kv[i]
    BY <1>1, <1>2, <2>2 DEF CachesUpTo
  <2>4. QED BY <2>1, <2>3 DEF StackStep, LayerOf
<1>4. CachesUpTo(m, f, kv, at, N)
  BY <1>2
<1>5. \A i \in 1 .. N : f[N].cache[i] = LayerOf(m, f, kv, at, i).cache
  BY <1>1, <1>4 DEF CachesUpTo
<1>6. QED BY <1>1, <1>3, <1>4, <1>5 DEF StackLayers, CachesUpTo

-----------------------------------------------------------------------------
(* The stack run over some rows and then over more, against one run.         *)

LEMMA RowsFacts ==
  ASSUME NEW e, IsSeq(e)
  PROVE  /\ IsSeq(Rows(e)) /\ Len(Rows(e)) = Len(e)
         /\ \A r \in 1 .. Len(e) : Rows(e)[r] = [src |-> e[r], out |-> <<>>]
<1>1. Len(e) \in Nat /\ DOMAIN e = 1 .. Len(e)
  BY SeqFacts
<1> DEFINE f == [r \in 1 .. Len(e) |-> [src |-> e[r], out |-> <<>>]]
<1>2. IsSeq(f) /\ Len(f) = Len(e)
  BY <1>1, MappedIsSeq
<1>3. Rows(e) = Strict(f)
  BY <1>1 DEF Rows
<1>4. Rows(e) = f
  BY <1>2, <1>3, StrictIs
<1>5. QED BY <1>2, <1>4

LEMMA RowsJoined ==
  ASSUME NEW d, NEW e, IsSeq(d), IsSeq(e)
  PROVE  Rows(d \o e) = Rows(d) \o Rows(e)
<1> DEFINE both == d \o e
           all == Rows(both)
           one == Rows(d)
           two == Rows(e)
<1>1. /\ IsSeq(both) /\ Len(both) = Len(d) + Len(e)
      /\ \A k \in 1 .. Len(d) : both[k] = d[k]
      /\ \A k \in 1 .. Len(e) : both[Len(d) + k] = e[k]
  BY JoinFacts
<1>2. Len(d) \in Nat /\ Len(e) \in Nat
  BY SeqFacts
<1> HIDE DEF both
<1>3. /\ IsSeq(all) /\ Len(all) = Len(both)
      /\ \A r \in 1 .. Len(both) : all[r] = [src |-> both[r], out |-> <<>>]
  BY <1>1, RowsFacts
<1>4. /\ IsSeq(one) /\ Len(one) = Len(d)
      /\ \A r \in 1 .. Len(d) : one[r] = [src |-> d[r], out |-> <<>>]
  BY RowsFacts
<1>5. /\ IsSeq(two) /\ Len(two) = Len(e)
      /\ \A r \in 1 .. Len(e) : two[r] = [src |-> e[r], out |-> <<>>]
  BY RowsFacts
<1> HIDE DEF all, one, two
<1>6. ASSUME NEW k \in 1 .. Len(one)
      PROVE  all[k] = one[k]
  <2>1. k \in 1 .. Len(d) /\ k \in 1 .. Len(both)
    BY <1>1, <1>2, <1>4
  <2>2. QED BY <2>1, <1>1, <1>3, <1>4
<1>7. ASSUME NEW k \in 1 .. Len(two)
      PROVE  all[Len(one) + k] = two[k]
  <2>1. Len(d) + k \in 1 .. Len(both) /\ k \in 1 .. Len(e)
    BY <1>1, <1>2, <1>5
  <2>2. QED BY <2>1, <1>1, <1>3, <1>4, <1>5
<1>8. Parts(all, one, two)
  BY <1>1, <1>3, <1>4, <1>5, <1>6, <1>7 DEF Parts
<1>9. QED BY <1>8, JoinedBy DEF all, one, two, both

VisualRow(row, mask, r) ==
  IF mask[r]
  THEN [row EXCEPT !.out[Len(row.out)].visual = Cardinality({q \in 1 .. r : mask[q]})]
  ELSE row

VisualRows(out, h, mask) ==
  /\ IsSeq(out) /\ Len(out) = Len(h)
  /\ \A r \in 1 .. Len(h) : out[r] = VisualRow(h[r], mask, r)

LEMMA VisualFacts ==
  ASSUME NEW h, NEW mask, IsSeq(h)
  PROVE  VisualRows(AddVisualFeatures(h, mask), h, mask)
<1>1. Len(h) \in Nat /\ DOMAIN h = 1 .. Len(h)
  BY SeqFacts
<1> DEFINE f == [r \in 1 .. Len(h) |-> VisualRow(h[r], mask, r)]
<1>2. IsSeq(f) /\ Len(f) = Len(h)
  BY <1>1, MappedIsSeq
<1>3. AddVisualFeatures(h, mask) = Strict(f)
  BY <1>1 DEF AddVisualFeatures, VisualRow
<1>4. AddVisualFeatures(h, mask) = f
  BY <1>2, <1>3, StrictIs
<1>5. \A r \in 1 .. Len(h) : f[r] = VisualRow(h[r], mask, r)
  OBVIOUS
<1> HIDE DEF f
<1>6. QED BY <1>2, <1>4, <1>5 DEF VisualRows

(* The marks of a prompt and of n rows after it, none of them marked. *)
Unmarked(n) == [k \in 1 .. n |-> FALSE]

LEMMA VisualJoined ==
  ASSUME NEW h, NEW g, NEW mask, IsSeq(h), IsSeq(g), IsSeq(mask), Len(mask) = Len(h)
  PROVE  AddVisualFeatures(h \o g, mask \o Unmarked(Len(g))) = AddVisualFeatures(h, mask) \o g
<1>1. PICK n \in Nat : n = Len(h)
  BY SeqFacts
<1>2. PICK k \in Nat : k = Len(g)
  BY SeqFacts
<1> DEFINE rows == h \o g
           more == Unmarked(k)
           marks == mask \o more
           all == AddVisualFeatures(rows, marks)
           one == AddVisualFeatures(h, mask)
<1>3. /\ IsSeq(rows) /\ Len(rows) = n + k
      /\ \A r \in 1 .. n : rows[r] = h[r]
      /\ \A r \in 1 .. k : rows[n + r] = g[r]
  BY <1>1, <1>2, JoinFacts
<1>4. IsSeq(more) /\ Len(more) = k /\ \A r \in 1 .. k : more[r] = FALSE
  BY <1>2, MappedIsSeq DEF Unmarked
<1> HIDE DEF more
<1>5. /\ \A r \in 1 .. n : marks[r] = mask[r]
      /\ \A r \in 1 .. k : marks[n + r] = more[r]
  BY <1>1, <1>4, JoinFacts
<1> HIDE DEF rows, marks
<1>6. VisualRows(all, rows, marks) /\ VisualRows(one, h, mask)
  BY <1>3, VisualFacts
<1> HIDE DEF all, one
<1>7. /\ IsSeq(all) /\ Len(all) = n + k
      /\ \A r \in 1 .. n + k : all[r] = VisualRow(rows[r], marks, r)
      /\ IsSeq(one) /\ Len(one) = n
      /\ \A r \in 1 .. n : one[r] = VisualRow(h[r], mask, r)
  BY <1>1, <1>3, <1>6 DEF VisualRows
<1>8. ASSUME NEW r \in 1 .. n
      PROVE  all[r] = one[r]
  <2>1. r \in 1 .. n + k
    OBVIOUS
  <2>2. {q \in 1 .. r : marks[q]} = {q \in 1 .. r : mask[q]}
    BY <1>5
  <2>3. marks[r] = mask[r] /\ rows[r] = h[r]
    BY <1>3, <1>5
  <2>4. all[r] = VisualRow(rows[r], marks, r) /\ one[r] = VisualRow(h[r], mask, r)
    BY <1>7, <2>1
  <2>5. VisualRow(rows[r], marks, r) = VisualRow(h[r], mask, r)
    BY <2>2, <2>3 DEF VisualRow
  <2>6. QED BY <2>4, <2>5
<1>9. ASSUME NEW r \in 1 .. k
      PROVE  all[n + r] = g[r]
  <2>1. n + r \in 1 .. n + k
    OBVIOUS
  <2>2. marks[n + r] = FALSE /\ rows[n + r] = g[r]
    BY <1>3, <1>4, <1>5
  <2>3. QED BY <1>7, <2>1, <2>2 DEF VisualRow
<1>10. Parts(all, one, g)
  BY <1>1, <1>2, <1>7, <1>8, <1>9 DEF Parts
<1>11. QED BY <1>2, <1>10, JoinedBy DEF all, one, rows, marks, more

(* all marks the rows mask marks, and none of the n after them. *)
MarksGoOn(mask, all, len, n, taps) ==
  taps > 0 => IsSeq(mask) /\ Len(mask) = len /\ all = mask \o Unmarked(n)

RowsAsOne(w, f, g, n, k) ==
  /\ w = f \o g
  /\ IsSeq(f) /\ Len(f) = n /\ IsSeq(g) /\ Len(g) = k

StackAsOne(m, first, second, whole, n, k) ==
  /\ whole.cache = second.cache
  /\ RowsAsOne(whole.h, first.h, second.h, n, k)
  /\ IsCache(m, first.cache)

LEMMA StackContinues ==
  ASSUME NEW m, DecoderShape(m), NEW kv, IsCache(m, kv),
         NEW d, NEW e, NEW at, NEW bt, TwoRuns(d, e, at, bt),
         NEW mask, NEW all, NEW taps \in Nat, MarksGoOn(mask, all, Len(d), Len(e), taps)
  PROVE  StackAsOne(m, RunFusedStack(m, kv, d, at, mask, taps),
                    RunStack(m, RunFusedStack(m, kv, d, at, mask, taps).cache, e, bt),
                    RunFusedStack(m, kv, d \o e, at \o bt, all, taps), Len(d), Len(e))
<1> DEFINE first == RunFusedStack(m, kv, d, at, mask, taps)
           second == RunStack(m, first.cache, e, bt)
           whole == RunFusedStack(m, kv, d \o e, at \o bt, all, taps)
<1>1. PICK N \in Nat : N = Len(m.mixer)
  BY SeqFacts DEF DecoderShape
<1>2. PICK n \in Nat : n = Len(d) /\ n > 0
  BY SeqFacts DEF TwoRuns
<1>3. PICK k \in Nat : k = Len(e) /\ k > 0
  BY SeqFacts DEF TwoRuns
<1>4. PICK f : IsStack(f, m, kv, d, at, mask, taps) /\ first = f[N]
  BY <1>1, StackRuns
<1>5. PICK g : IsStack(g, m, first.cache, e, bt, <<>>, 0) /\ second = g[N]
  BY <1>1, StackRuns DEF RunStack
<1>6. PICK w : IsStack(w, m, kv, d \o e, at \o bt, all, taps) /\ whole = w[N]
  BY <1>1, StackRuns
<1> HIDE DEF first, second, whole
<1>7. IsSeq(kv) /\ Len(kv) = N /\ \A i \in 1 .. N : Held(m, i, kv[i])
  BY <1>1 DEF IsCache
<1>8. StackLayers(m, f, kv, at, mask, taps)
  BY <1>1, <1>4, <1>7, StackIsLayers
<1>9. IsSeq(first.cache) /\ Len(first.cache) = N
      /\ \A i \in 1 .. N : first.cache[i] = LayerOf(m, f, kv, at, i).cache
  BY <1>1, <1>4, <1>8 DEF StackLayers
<1>10. StackLayers(m, g, first.cache, bt, <<>>, 0)
  BY <1>1, <1>5, <1>9, StackIsLayers
<1>11. StackLayers(m, w, kv, at \o bt, all, taps)
  BY <1>1, <1>6, <1>7, StackIsLayers
<1>12. IsSeq(d) /\ IsSeq(e) /\ IsSeq(at) /\ IsSeq(bt) /\ Len(at) = n /\ Len(bt) = k
  BY <1>2, <1>3 DEF TwoRuns
<1> DEFINE AsOne(i) == RowsAsOne(w[i].h, f[i].h, g[i].h, n, k)
<1>13. AsOne(0)
  <2>1. w[0].h = Rows(d \o e) /\ f[0].h = Rows(d) /\ g[0].h = Rows(e)
    BY <1>4, <1>5, <1>6 DEF IsStack, StackStart
  <2>2. Rows(d \o e) = Rows(d) \o Rows(e)
    BY <1>12, RowsJoined
  <2>3. IsSeq(Rows(d)) /\ Len(Rows(d)) = n /\ IsSeq(Rows(e)) /\ Len(Rows(e)) = k
    BY <1>2, <1>3, <1>12, RowsFacts
  <2>4. QED BY <2>1, <2>2, <2>3 DEF RowsAsOne
(* What one layer does to rows that are still those of one run. *)
<1>14. ASSUME NEW i \in 1 .. N, AsOne(i - 1)
       PROVE  /\ LayerAsOne(m, LayerOf(m, f, kv, at, i), LayerOf(m, g, first.cache, bt, i),
                            LayerOf(m, w, kv, at \o bt, i), f[i - 1].h, g[i - 1].h)
              /\ Held(m, i, LayerOf(m, f, kv, at, i).cache)
  <2> DEFINE h == f[i - 1].h
             p == g[i - 1].h
  <2>1. /\ w[i - 1].h = h \o p
        /\ IsSeq(h) /\ Len(h) = n /\ IsSeq(p) /\ Len(p) = k
    BY <1>14 DEF RowsAsOne
  <2>2. TwoRuns(h, p, at, bt)
    BY <1>2, <1>3, <1>12, <2>1 DEF TwoRuns
  <2>3. first.cache[i] = Layer(m, i, h, at, kv[i]).cache
    BY <1>9 DEF LayerOf
  <2>4. Held(m, i, kv[i])
    BY <1>7
  <2> HIDE DEF h, p
  <2>5. /\ LayerAsOne(m, Layer(m, i, h, at, kv[i]),
                      Layer(m, i, p, bt, Layer(m, i, h, at, kv[i]).cache),
                      Layer(m, i, h \o p, at \o bt, kv[i]), h, p)
        /\ Held(m, i, Layer(m, i, h, at, kv[i]).cache)
    BY <2>2, <2>4, LayerContinues
  <2>6. QED BY <2>1, <2>3, <2>5 DEF LayerOf, h, p
<1>15. ASSUME NEW i \in 1 .. N, AsOne(i - 1)
       PROVE  AsOne(i)
  <2> DEFINE one == LayerOf(m, f, kv, at, i).h
             two == LayerOf(m, g, first.cache, bt, i).h
             both == LayerOf(m, w, kv, at \o bt, i).h
  <2>1. IsSeq(one) /\ Len(one) = n /\ IsSeq(two) /\ Len(two) = k /\ both = one \o two
    <3>1. /\ LayerAsOne(m, LayerOf(m, f, kv, at, i), LayerOf(m, g, first.cache, bt, i),
                        LayerOf(m, w, kv, at \o bt, i), f[i - 1].h, g[i - 1].h)
      BY <1>14, <1>15
    <3>2. Len(f[i - 1].h) = n /\ Len(g[i - 1].h) = k
      BY <1>15 DEF RowsAsOne
    <3>3. QED BY <3>1, <3>2 DEF LayerAsOne
  <2>2. f[i].h = IF i <= taps THEN AddVisualFeatures(one, mask) ELSE one
    BY <1>1, <1>8 DEF StackLayers
  <2>3. w[i].h = IF i <= taps THEN AddVisualFeatures(both, all) ELSE both
    BY <1>1, <1>11 DEF StackLayers
  <2>4. g[i].h = two
    <3>1. ~ (i <= 0)
      OBVIOUS
    <3>2. g[i].h = IF i <= 0 THEN AddVisualFeatures(two, <<>>) ELSE two
      BY <1>1, <1>10 DEF StackLayers
    <3>3. QED BY <3>1, <3>2
  <2> HIDE DEF one, two, both
  <2>5. CASE i <= taps
    <3>1. taps > 0
      BY <2>5
    <3>2. IsSeq(mask) /\ Len(mask) = n /\ all = mask \o Unmarked(k)
      BY <1>2, <1>3, <3>1 DEF MarksGoOn
    <3>3. AddVisualFeatures(both, all) = AddVisualFeatures(one, mask) \o two
      BY <2>1, <3>2, VisualJoined
    <3>4. IsSeq(AddVisualFeatures(one, mask)) /\ Len(AddVisualFeatures(one, mask)) = n
      BY <2>1, VisualFacts DEF VisualRows
    <3>5. QED BY <2>1, <2>2, <2>3, <2>4, <2>5, <3>3, <3>4 DEF RowsAsOne
  <2>6. CASE ~ (i <= taps)
    BY <2>1, <2>2, <2>3, <2>4, <2>6 DEF RowsAsOne
  <2>7. QED BY <2>5, <2>6
<1>16. \A i \in 0 .. N : AsOne(i)
  <2> DEFINE P == {i \in 0 .. N : AsOne(i)}
  <2> HIDE DEF AsOne
  <2>1. 0 \in P
    BY <1>13
  <2>2. ASSUME NEW i \in 1 .. N, i - 1 \in P
        PROVE  i \in P
    BY <1>15, <2>2
  <2> HIDE DEF P
  <2>3. \A i \in 0 .. N : i \in P
    BY <2>1, <2>2, Climb
  <2>4. QED BY <2>3 DEF P
<1>17. ASSUME NEW i \in 1 .. N
       PROVE  /\ LayerOf(m, w, kv, at \o bt, i).cache = LayerOf(m, g, first.cache, bt, i).cache
              /\ Held(m, i, LayerOf(m, f, kv, at, i).cache)
  <2>1. i - 1 \in 0 .. N
    OBVIOUS
  <2>2. AsOne(i - 1)
    BY <1>16, <2>1
  <2>3. QED BY <1>14, <2>2 DEF LayerAsOne
<1>18. IsCache(m, first.cache)
  BY <1>1, <1>9, <1>17 DEF IsCache
<1>19. whole.cache = second.cache
  <2>1. /\ IsSeq(whole.cache) /\ Len(whole.cache) = N
        /\ \A i \in 1 .. N : whole.cache[i] = LayerOf(m, w, kv, at \o bt, i).cache
    BY <1>1, <1>6, <1>11 DEF StackLayers
  <2>2. /\ IsSeq(second.cache) /\ Len(second.cache) = N
        /\ \A i \in 1 .. N : second.cache[i] = LayerOf(m, g, first.cache, bt, i).cache
    BY <1>1, <1>5, <1>10 DEF StackLayers
  <2>3. QED BY <1>17, <2>1, <2>2, SameSeq
<1>20. RowsAsOne(whole.h, first.h, second.h, n, k)
  BY <1>4, <1>5, <1>6, <1>16
<1>21. QED BY <1>2, <1>3, <1>18, <1>19, <1>20 DEF StackAsOne, first, second, whole

-----------------------------------------------------------------------------
(* What the providers hand to the decoder.                                   *)

LEMMA NewCacheIsCache ==
  ASSUME NEW m, DecoderShape(m)
  PROVE  IsCache(m, NewCache(m))
<1>1. PICK N \in Nat : N = Len(m.mixer) /\ DOMAIN m.mixer = 1 .. N
  BY SeqFacts DEF DecoderShape
<1> DEFINE f == [i \in 1 .. N |-> IF m.mixer[i] = "delta" THEN NewDelta(m) ELSE <<>>]
<1>2. IsSeq(f) /\ Len(f) = N
  BY MappedIsSeq
<1>3. NewCache(m) = Strict(f)
  BY <1>1 DEF NewCache
<1>4. NewCache(m) = f
  BY <1>2, <1>3, StrictIs
<1>5. IsSeq(<<>>)
  BY DEF IsSeq
<1>6. DeltaHeld(m, NewDelta(m))
  <2>1. PICK k \in Nat : k = m.kernel - 1
    BY DEF DecoderShape
  <2> DEFINE tail == [j \in 1 .. k |-> ZeroRow]
  <2>2. IsSeq(tail) /\ Len(tail) = k
    BY MappedIsSeq
  <2>3. /\ NewDelta(m).conv = tail /\ NewDelta(m).ssm = <<>> /\ NewDelta(m).offset = 0
    BY <2>1 DEF NewDelta
  <2> HIDE DEF tail
  <2>4. QED BY <1>5, <2>1, <2>2, <2>3 DEF DeltaHeld
<1>7. ASSUME NEW i \in 1 .. N
      PROVE  Held(m, i, f[i])
  <2>1. CASE m.mixer[i] = "delta"
    <3>1. IsHybrid(m)
      BY <1>1, <2>1 DEF IsHybrid
    <3>2. f[i] = NewDelta(m)
      BY <2>1
    <3>3. QED BY <1>6, <2>1, <3>1, <3>2 DEF Held
  <2>2. CASE m.mixer[i] # "delta"
    BY <1>5, <2>2 DEF Held
  <2>3. QED BY <2>1, <2>2
<1> HIDE DEF f
<1>8. QED BY <1>1, <1>2, <1>4, <1>7 DEF IsCache

Channels(m, p) == [c \in 1 .. m.half |-> p]

LEMMA CosSinFacts ==
  ASSUME NEW m, NEW n \in Nat, NEW offset
  PROVE  /\ IsSeq(CosSin(m, n, offset)) /\ Len(CosSin(m, n, offset)) = n
         /\ \A s \in 1 .. n : CosSin(m, n, offset)[s] = Channels(m, offset + s - 1)
<1> DEFINE p == [s \in 1 .. n |-> offset + s - 1]
<1>1. CosSin(m, n, offset) = [s \in 1 .. n |-> Channels(m, p[s])]
  BY DEF CosSin, CosSinAt, Channels
<1>2. QED BY <1>1, MappedIsSeq

(* The positions of a rows from offset on, of n rows after them, and of all b. *)
PlacesGoOn(m, a, n, b, offset, next) ==
  CosSin(m, a, offset) \o CosSin(m, n, next) = CosSin(m, b, offset)

LEMMA CosSinJoined ==
  ASSUME NEW m, NEW a \in Nat, NEW n \in Nat, NEW offset \in Int, NEW next \in Int,
         next = offset + a, NEW b \in Int, b = a + n
  PROVE  PlacesGoOn(m, a, n, b, offset, next)
<1> DEFINE one == CosSin(m, a, offset)
           two == CosSin(m, n, next)
           all == CosSin(m, b, offset)
<1>1. IsSeq(one) /\ Len(one) = a /\ \A s \in 1 .. a : one[s] = Channels(m, offset + s - 1)
  BY CosSinFacts
<1>2. IsSeq(two) /\ Len(two) = n /\ \A s \in 1 .. n : two[s] = Channels(m, next + s - 1)
  BY CosSinFacts
<1>3. b \in Nat /\ b = a + n
  OBVIOUS
<1>4. IsSeq(all) /\ Len(all) = b /\ \A s \in 1 .. b : all[s] = Channels(m, offset + s - 1)
  BY <1>3, CosSinFacts
<1> HIDE DEF one, two, all
<1>5. \A s \in 1 .. Len(one) : all[s] = one[s]
  BY <1>1, <1>3, <1>4
<1>6. ASSUME NEW s \in 1 .. Len(two)
      PROVE  all[Len(one) + s] = two[s]
  <2>1. a + s \in 1 .. b /\ offset + (a + s) - 1 = next + s - 1
    BY <1>2, <1>3
  <2>2. all[a + s] = Channels(m, offset + (a + s) - 1)
    BY <1>4, <2>1
  <2>3. two[s] = Channels(m, next + s - 1)
    BY <1>2
  <2>4. QED BY <1>1, <2>1, <2>2, <2>3
<1>7. Parts(all, one, two)
  BY <1>1, <1>2, <1>3, <1>4, <1>5, <1>6 DEF Parts
<1>8. QED BY <1>7, JoinedBy DEF one, two, all, PlacesGoOn

LEMMA CosSinFromZero ==
  ASSUME NEW m, NEW a \in Nat, NEW n \in Nat, NEW b, b = a + n
  PROVE  CosSin(m, a, 0) \o CosSin(m, n, a) = CosSin(m, b, 0)
<1>1. \A offset, next \in Int : next = offset + a => PlacesGoOn(m, a, n, b, offset, next)
  <2>1. b \in Int
    OBVIOUS
  <2>2. QED BY <2>1, CosSinJoined
<1>2. 0 \in Int /\ a \in Int /\ a = 0 + a
  OBVIOUS
<1>3. PlacesGoOn(m, a, n, b, 0, a)
  BY <1>1, <1>2
<1>4. QED BY <1>3 DEF PlacesGoOn

Row(id) == [feature |-> 0, id |-> id]

LEMMA EmbedFacts ==
  ASSUME NEW ids, IsSeq(ids)
  PROVE  /\ IsSeq(Embed(ids)) /\ Len(Embed(ids)) = Len(ids)
         /\ \A p \in 1 .. Len(ids) : Embed(ids)[p] = Row(ids[p])
<1>1. Len(ids) \in Nat /\ DOMAIN ids = 1 .. Len(ids)
  BY SeqFacts
<1>2. Embed(ids) = [p \in 1 .. Len(ids) |-> Row(ids[p])]
  BY <1>1 DEF Embed, Row
<1>3. QED BY <1>1, <1>2, MappedIsSeq

LEMMA EmbedJoined ==
  ASSUME NEW s, NEW t, IsSeq(s), IsSeq(t)
  PROVE  Embed(s \o t) = Embed(s) \o Embed(t)
<1> DEFINE both == s \o t
           all == Embed(both)
           one == Embed(s)
           two == Embed(t)
<1>1. /\ IsSeq(both) /\ Len(both) = Len(s) + Len(t)
      /\ \A k \in 1 .. Len(s) : both[k] = s[k]
      /\ \A k \in 1 .. Len(t) : both[Len(s) + k] = t[k]
  BY JoinFacts
<1>2. Len(s) \in Nat /\ Len(t) \in Nat
  BY SeqFacts
<1> HIDE DEF both
<1>3. IsSeq(all) /\ Len(all) = Len(both) /\ \A r \in 1 .. Len(both) : all[r] = Row(both[r])
  BY <1>1, EmbedFacts
<1>4. IsSeq(one) /\ Len(one) = Len(s) /\ \A r \in 1 .. Len(s) : one[r] = Row(s[r])
  BY EmbedFacts
<1>5. IsSeq(two) /\ Len(two) = Len(t) /\ \A r \in 1 .. Len(t) : two[r] = Row(t[r])
  BY EmbedFacts
<1> HIDE DEF all, one, two
<1>6. ASSUME NEW k \in 1 .. Len(one)
      PROVE  all[k] = one[k]
  <2>1. k \in 1 .. Len(s) /\ k \in 1 .. Len(both)
    BY <1>1, <1>2, <1>4
  <2>2. QED BY <2>1, <1>1, <1>3, <1>4
<1>7. ASSUME NEW k \in 1 .. Len(two)
      PROVE  all[Len(one) + k] = two[k]
  <2>1. Len(s) + k \in 1 .. Len(both) /\ k \in 1 .. Len(t)
    BY <1>1, <1>2, <1>5
  <2>2. QED BY <2>1, <1>1, <1>3, <1>4, <1>5
<1>8. Parts(all, one, two)
  BY <1>1, <1>3, <1>4, <1>5, <1>6, <1>7 DEF Parts
<1>9. QED BY <1>8, JoinedBy DEF all, one, two, both

(* The rows run so far, from an empty cache, as one pass. *)
OnePass(m, rows) == DecodeLogitsFromEmbeds(m, rows, NewCache(m), 0)

LEMMA OnePassGoesOn ==
  ASSUME NEW m, DecoderShape(m), NEW rows, NEW more, IsSeq(rows), IsSeq(more), Len(more) > 0,
         NEW kv, kv = IF Len(rows) = 0 THEN NewCache(m) ELSE OnePass(m, rows).cache
  PROVE  DecodeLogitsFromEmbeds(m, more, kv, Len(rows)) = OnePass(m, rows \o more)
<1>1. PICK n \in Nat : n = Len(rows)
  BY SeqFacts
<1>2. PICK k \in Nat : k = Len(more) /\ k > 0
  BY SeqFacts
<1>3. CASE n = 0
  <2>1. rows = <<>>
    <3>1. IsSeq(<<>>) /\ Len(<<>>) = 0
      BY DEF IsSeq
    <3>2. Len(rows) = 0 /\ \A i \in 1 .. 0 : rows[i] = <<>>[i]
      BY <1>1, <1>3
    <3>3. QED BY <3>1, <3>2, SameSeq
  <2>2. rows \o more = more
    BY <2>1 DEF IsSeq
  <2>3. QED BY <1>1, <1>3, <2>2 DEF OnePass
<1>4. CASE n # 0
  <2> DEFINE at == CosSin(m, n, 0)
             bt == CosSin(m, k, n)
             first == RunFusedStack(m, NewCache(m), rows, at, <<>>, 0)
             second == RunStack(m, first.cache, more, bt)
             whole == RunFusedStack(m, NewCache(m), rows \o more, at \o bt, <<>>, 0)
  <2>1. TwoRuns(rows, more, at, bt)
    BY <1>1, <1>2, <1>4, CosSinFacts DEF TwoRuns
  <2>2. IsCache(m, NewCache(m))
    BY NewCacheIsCache
  <2>3. MarksGoOn(<<>>, <<>>, n, k, 0)
    BY DEF MarksGoOn
  <2>4. at \o bt = CosSin(m, n + k, 0)
    <3>1. PICK b : b = n + k
      OBVIOUS
    <3>2. CosSin(m, n, 0) \o CosSin(m, k, n) = CosSin(m, b, 0)
      BY <3>1, CosSinFromZero
    <3>3. QED BY <3>1, <3>2
  <2> HIDE DEF at, bt
  <2>5. StackAsOne(m, first, second, whole, n, k)
    BY <1>1, <1>2, <2>1, <2>2, <2>3, StackContinues
  <2>6. Len(rows \o more) = n + k
    BY <1>1, <1>2, JoinFacts
  <2>7. OnePass(m, rows) = LastRow(first)
    BY <1>1 DEF OnePass, DecodeLogitsFromEmbeds, RunStack, at
  <2>8. OnePass(m, rows \o more) = LastRow(whole)
    BY <2>4, <2>6 DEF OnePass, DecodeLogitsFromEmbeds, RunStack
  <2>9. kv = first.cache
    BY <1>1, <1>4, <2>7 DEF LastRow
  <2>10. DecodeLogitsFromEmbeds(m, more, kv, Len(rows)) = LastRow(second)
    BY <1>1, <1>2, <2>9 DEF DecodeLogitsFromEmbeds, bt
  <2> HIDE DEF first, second, whole
  <2>11. whole.cache = second.cache /\ whole.h[Len(whole.h)] = second.h[Len(second.h)]
    <3>1. /\ whole.h = first.h \o second.h
          /\ IsSeq(first.h) /\ Len(first.h) = n /\ IsSeq(second.h) /\ Len(second.h) = k
      BY <2>5 DEF StackAsOne, RowsAsOne
    <3>2. Len(whole.h) = n + k /\ whole.h[n + k] = second.h[k]
      <4>1. Parts(whole.h, first.h, second.h)
        BY <3>1, JoinParts
      <4>2. k \in 1 .. k
        BY <1>2
      <4>3. QED BY <3>1, <4>1, <4>2 DEF Parts
    <3>3. QED BY <2>5, <3>1, <3>2 DEF StackAsOne
  <2>12. QED BY <2>8, <2>10, <2>11 DEF LastRow
<1>5. QED BY <1>3, <1>4

LEMMA OnePassCache ==
  ASSUME NEW m, DecoderShape(m), NEW rows, IsSeq(rows), Len(rows) > 0
  PROVE  IsCache(m, OnePass(m, rows).cache)
<1>1. PICK n \in Nat : n = Len(rows) /\ n > 0
  BY SeqFacts
<1> DEFINE at == CosSin(m, n, 0)
           more == <<Row(0)>>
           bt == CosSin(m, 1, n)
           first == RunFusedStack(m, NewCache(m), rows, at, <<>>, 0)
<1>2. IsSeq(more) /\ Len(more) = 1
  BY DEF IsSeq, ToSet
<1> HIDE DEF more
<1>3. TwoRuns(rows, more, at, bt)
  <2>1. IsSeq(at) /\ Len(at) = n
    BY CosSinFacts
  <2>2. IsSeq(bt) /\ Len(bt) = 1
    <3>1. PICK one \in Nat : one = 1
      OBVIOUS
    <3>2. IsSeq(CosSin(m, one, n)) /\ Len(CosSin(m, one, n)) = one
      BY CosSinFacts
    <3>3. QED BY <3>1, <3>2
  <2> HIDE DEF at, bt
  <2>3. QED BY <1>1, <1>2, <2>1, <2>2 DEF TwoRuns
<1>4. IsCache(m, NewCache(m))
  BY NewCacheIsCache
<1>5. MarksGoOn(<<>>, <<>>, n, 1, 0)
  BY DEF MarksGoOn
<1>6. OnePass(m, rows) = LastRow(first)
  BY <1>1 DEF OnePass, DecodeLogitsFromEmbeds, RunStack
<1> HIDE DEF at, bt
<1>7. StackAsOne(m, first, RunStack(m, first.cache, more, bt),
                 RunFusedStack(m, NewCache(m), rows \o more, at \o bt, <<>>, 0), n, 1)
  BY <1>1, <1>2, <1>3, <1>4, <1>5, StackContinues
<1>8. QED BY <1>6, <1>7 DEF StackAsOne, LastRow

-----------------------------------------------------------------------------
(* The prompts are sequences of tokens, and none is empty.                   *)

LEMMA ShortSeqs ==
  /\ IsSeq(<<>>) /\ Len(<<>>) = 0
  /\ \A x : IsSeq(<<x>>) /\ Len(<<x>>) = 1 /\ <<x>>[1] = x
BY DEF IsSeq, ToSet

(* The function by which FlattenSeq joins the sequences, one after another. *)
FlattenedBy(a, seqs) ==
  /\ FlattenSeq(seqs) = a[Len(seqs)]
  /\ \A i \in 1 .. Len(seqs) : a[i] = IF i = 1 THEN seqs[i] ELSE a[i - 1] \o seqs[i]

LEMMA FlattenRuns ==
  ASSUME NEW seqs, IsSeq(seqs), Len(seqs) # 0
  PROVE  \E a : FlattenedBy(a, seqs)
<1>1. PICK N \in Nat : N = Len(seqs) /\ N # 0
  BY SeqFacts
<1> DEFINE Upto(f, k) == f = [i \in 1 .. k |-> IF i = 1 THEN seqs[i] ELSE f[i - 1] \o seqs[i]]
           P == {k \in 0 .. N : \E f : Upto(f, k)}
<1>2. 0 \in P
  <2> DEFINE f == [i \in 1 .. 0 |-> seqs[i]]
  <2>1. f = [i \in 1 .. 0 |-> IF i = 1 THEN seqs[i] ELSE f[i - 1] \o seqs[i]]
    OBVIOUS
  <2> HIDE DEF f
  <2>2. Upto(f, 0)
    BY <2>1
  <2>3. \E x : Upto(x, 0)
    BY <2>2
  <2> HIDE DEF Upto
  <2>4. QED BY <2>3
<1>3. ASSUME NEW k \in 1 .. N, k - 1 \in P
      PROVE  k \in P
  <2>1. PICK g : g = [i \in 1 .. k - 1 |-> IF i = 1 THEN seqs[i] ELSE g[i - 1] \o seqs[i]]
    BY <1>3
  <2> DEFINE f == [i \in 1 .. k |-> IF i # k THEN g[i]
                                    ELSE IF k = 1 THEN seqs[1] ELSE g[k - 1] \o seqs[k]]
  <2>2. ASSUME NEW i \in 1 .. k
        PROVE  f[i] = IF i = 1 THEN seqs[i] ELSE f[i - 1] \o seqs[i]
    <3>1. i # 1 => i - 1 \in 1 .. k /\ f[i - 1] = g[i - 1]
      OBVIOUS
    <3>2. CASE i = k
      BY <3>1, <3>2
    <3>3. CASE i # k
      <4>1. i \in 1 .. k - 1 /\ f[i] = g[i]
        BY <3>3
      <4>2. g[i] = IF i = 1 THEN seqs[i] ELSE g[i - 1] \o seqs[i]
        BY <2>1, <4>1
      <4>3. QED BY <3>1, <4>1, <4>2
    <3>4. QED BY <3>2, <3>3
  <2>3. DOMAIN f = 1 .. k /\ f = [i \in 1 .. k |-> f[i]]
    OBVIOUS
  <2> HIDE DEF f
  <2>4. Upto(f, k)
    BY <2>2, <2>3
  <2>5. \E x : Upto(x, k)
    BY <2>4
  <2> HIDE DEF Upto
  <2>6. QED BY <2>5
<1>4. N \in P
  <2> HIDE DEF P
  <2>1. \A k \in 0 .. N : k \in P
    BY <1>2, <1>3, Climb
  <2>2. N \in 0 .. N
    OBVIOUS
  <2>3. QED BY <2>1, <2>2
<1>5. PICK a : a = (CHOOSE f : Upto(f, N)) /\ Upto(a, N)
  <2>1. \E f : Upto(f, N)
    BY <1>4
  <2> HIDE DEF Upto
  <2>2. QED BY <2>1
<1>6. FlattenSeq(seqs) = a[N]
  BY <1>1, <1>5 DEF FlattenSeq
<1>7. \A i \in 1 .. N : a[i] = IF i = 1 THEN seqs[i] ELSE a[i - 1] \o seqs[i]
  BY <1>5
<1> HIDE DEF P, Upto
<1>8. FlattenedBy(a, seqs)
  BY <1>1, <1>6, <1>7 DEF FlattenedBy
<1>9. QED BY <1>8

LEMMA FlattenIsSeq ==
  ASSUME NEW seqs, IsSeq(seqs), \A i \in 1 .. Len(seqs) : IsSeq(seqs[i])
  PROVE  /\ IsSeq(FlattenSeq(seqs))
         /\ Len(seqs) > 0 => Len(FlattenSeq(seqs)) >= Len(seqs[1])
<1>1. PICK N \in Nat : N = Len(seqs)
  BY SeqFacts
<1>2. CASE N = 0
  BY <1>1, <1>2 DEF FlattenSeq
<1>3. CASE N # 0
  <2>1. PICK a : FlattenedBy(a, seqs)
    BY <1>1, <1>3, FlattenRuns
  <2>2. FlattenSeq(seqs) = a[N]
    BY <1>1, <2>1 DEF FlattenedBy
  <2>3. \A i \in 1 .. N : a[i] = IF i = 1 THEN seqs[i] ELSE a[i - 1] \o seqs[i]
    BY <1>1, <2>1 DEF FlattenedBy
  <2>4. PICK n \in Nat : n = Len(seqs[1])
    <3>1. 1 \in 1 .. Len(seqs)
      BY <1>1, <1>3
    <3>2. QED BY <3>1, SeqFacts
  <2> DEFINE Q == {i \in 0 .. N : i = 0 \/ (IsSeq(a[i]) /\ Len(a[i]) >= n)}
  <2>5. 0 \in Q
    OBVIOUS
  <2>6. ASSUME NEW i \in 1 .. N, i - 1 \in Q
        PROVE  i \in Q
    <3>1. IsSeq(seqs[i])
      BY <1>1
    <3>2. CASE i = 1
      BY <2>3, <2>4, <3>1, <3>2
    <3>3. CASE i # 1
      <4>1. IsSeq(a[i - 1]) /\ Len(a[i - 1]) >= n
        BY <2>6, <3>3
      <4>2. PICK s : s = a[i - 1]
        OBVIOUS
      <4>3. PICK t : t = seqs[i]
        OBVIOUS
      <4>4. a[i] = s \o t
        BY <2>3, <3>3, <4>2, <4>3
      <4>5. IsSeq(s \o t) /\ Len(s \o t) = Len(s) + Len(t)
        BY <3>1, <4>1, <4>2, <4>3, JoinFacts
      <4>6. Len(s) \in Nat /\ Len(t) \in Nat
        BY <3>1, <4>1, <4>2, <4>3, SeqFacts
      <4>7. IsSeq(a[i]) /\ Len(a[i]) = Len(s) + Len(t)
        BY <4>4, <4>5
      <4>8. Len(s) >= n
        BY <4>1, <4>2
      <4>9. Len(a[i]) >= n
        BY <4>6, <4>7, <4>8
      <4>10. QED BY <4>7, <4>9
    <3>4. QED BY <3>2, <3>3
  <2> HIDE DEF Q
  <2>7. \A i \in 0 .. N : i \in Q
    BY <2>5, <2>6, Climb
  <2>8. IsSeq(a[N]) /\ Len(a[N]) >= n
    BY <1>3, <2>7 DEF Q
  <2>9. QED BY <2>2, <2>4, <2>8
<1>4. QED BY <1>2, <1>3

Filled(s) == IsSeq(s) /\ Len(s) > 0

LEMMA FilledJoined ==
  ASSUME NEW s, NEW t, IsSeq(s), IsSeq(t)
  PROVE  /\ IsSeq(s \o t)
         /\ Filled(s) => Filled(s \o t) /\ (s \o t)[1] = s[1]
         /\ Filled(t) => Filled(s \o t)
<1>1. Len(s) \in Nat /\ Len(t) \in Nat
  BY SeqFacts
<1>2. Parts(s \o t, s, t)
  BY JoinParts
<1>3. ASSUME Filled(s)
      PROVE  (s \o t)[1] = s[1]
  <2>1. 1 \in 1 .. Len(s)
    BY <1>1, <1>3 DEF Filled
  <2>2. QED BY <1>2, <2>1 DEF Parts
<1>4. QED BY <1>1, <1>2, <1>3 DEF Parts, Filled

(* A function on the positions of a sequence is a sequence. *)
LEMMA OverIsSeq ==
  ASSUME NEW s, IsSeq(s), NEW f, f = [p \in DOMAIN s |-> f[p]]
  PROVE  IsSeq(f) /\ Len(f) = Len(s)
<1>1. Len(s) \in Nat /\ DOMAIN s = 1 .. Len(s)
  BY SeqFacts
<1>2. f = [p \in 1 .. Len(s) |-> f[p]]
  BY <1>1
<1>3. DOMAIN f = 1 .. Len(s)
  BY <1>2
<1>4. QED BY <1>1, <1>2, <1>3, MappedIsSeq

BlockOk(block) ==
  \/ block.kind = "text" /\ IsSeq(block.tokens)
  \/ block.kind = "image"
  \/ block.kind = "video" /\ IsSeq(block.timestamps)

Conversation(messages) ==
  /\ IsSeq(messages)
  /\ \A m \in DOMAIN messages :
        /\ IsSeq(messages[m].content)
        /\ \A c \in DOMAIN messages[m].content : BlockOk(messages[m].content[c])

LEMMA RequestFacts ==
  ASSUME NEW r \in Requests
  PROVE  /\ r.provider \in {"llama", "joycaption"}
         /\ Conversation(r.messages)
         /\ DecoderShape(Models[r.model])
<1>1. /\ r.provider \in {"llama", "joycaption"}
      /\ r.messages \in Seq(ToSet(r.messages))
  BY RequestsAssumption
<1>2. ASSUME NEW m \in DOMAIN r.messages
      PROVE  /\ IsSeq(r.messages[m].content)
             /\ \A c \in DOMAIN r.messages[m].content : BlockOk(r.messages[m].content[c])
  <2> DEFINE content == r.messages[m].content
  <2>1. /\ content \in Seq(ToSet(content))
        /\ \A c \in DOMAIN content :
              \/ content[c].kind = "text" /\ content[c].tokens \in Seq(ToSet(content[c].tokens))
              \/ content[c].kind = "image"
              \/ content[c].kind = "video" /\ content[c].timestamps \in Seq(Nat)
    BY RequestsAssumption
  <2> HIDE DEF content
  <2>2. IsSeq(content)
    BY <2>1 DEF IsSeq
  <2>3. ASSUME NEW c \in DOMAIN content
        PROVE  BlockOk(content[c])
    <3>1. CASE content[c].kind = "text" /\ content[c].tokens \in Seq(ToSet(content[c].tokens))
      BY <3>1 DEF BlockOk, IsSeq
    <3>2. CASE content[c].kind = "image"
      BY <3>2 DEF BlockOk
    <3>3. CASE content[c].kind = "video" /\ content[c].timestamps \in Seq(Nat)
      <4>1. IsSeq(content[c].timestamps)
        BY <3>3, TypedIsSeq
      <4>2. QED BY <3>3, <4>1 DEF BlockOk
    <3>4. QED BY <2>1, <3>1, <3>2, <3>3
  <2>4. QED BY <2>2, <2>3 DEF content
<1>3. DecoderShape(Models[r.model])
  <2> DEFINE m == Models[r.model]
  <2>1. /\ m.mixer \in Seq({"gqa", "mla", "delta", "gated"})
        /\ m.kernel \in Nat \ {0} /\ m.fused \in Nat
    BY ModelsAssumption
  <2>2. IsSeq(m.mixer)
    BY <2>1, TypedIsSeq
  <2> HIDE DEF m
  <2>3. DecoderShape(m)
    BY <2>1, <2>2 DEF DecoderShape
  <2>4. QED BY <2>3 DEF m
<1>4. QED BY <1>1, <1>2, <1>3 DEF Conversation, IsSeq

LEMMA SubstitutedIsSeq ==
  ASSUME NEW block, BlockOk(block), NEW tps \in Nat \ {0}
  PROVE  IsSeq(Substituted(block, tps))
<1>1. CASE block.kind = "text" /\ IsSeq(block.tokens)
  BY <1>1 DEF Substituted
<1>2. CASE block.kind = "image"
  <2> DEFINE s == <<Token("vision_start"), ImagePad, Token("vision_end")>>
  <2>1. s \in Seq({Token("vision_start"), ImagePad, Token("vision_end")})
    OBVIOUS
  <2> HIDE DEF s
  <2>2. IsSeq(s)
    BY <2>1, TypedIsSeq
  <2>3. QED BY <1>2, <2>2 DEF Substituted, s
<1>3. CASE block.kind = "video" /\ IsSeq(block.timestamps)
  <2> DEFINE merged == MergedFrameTimestamps(block.timestamps, tps)
             Frame(f) == <<<<"seconds", merged[f]>>, Token("vision_start"), VideoPad,
                           Token("vision_end")>>
             parts == [f \in DOMAIN merged |-> Frame(f)]
  <2>1. PICK len \in Nat : len = Len(block.timestamps)
    BY <1>3, SeqFacts
  <2>2. PICK n \in Nat : 1 .. (len + tps - 1) \div tps = 1 .. n
    <3>1. (len + tps - 1) \div tps \in Int
      BY <2>1
    <3>2. PICK k \in Int : k = (len + tps - 1) \div tps
      BY <3>1
    <3>3. CASE k >= 0
      BY <3>2, <3>3
    <3>4. CASE k < 0
      <4>1. 1 .. k = 1 .. 0
        BY <3>4
      <4>2. QED BY <3>2, <4>1
    <3>5. QED BY <3>3, <3>4
  <2>3. DOMAIN merged = 1 .. n
    BY <2>1, <2>2 DEF MergedFrameTimestamps
  <2> HIDE DEF merged
  <2>4. \A f : IsSeq(Frame(f))
    <3>1. ASSUME NEW f PROVE IsSeq(Frame(f))
      <4> DEFINE s == Frame(f)
                 S == {<<"seconds", merged[f]>>, Token("vision_start"), VideoPad,
                       Token("vision_end")}
      <4>1. s \in Seq(S)
        OBVIOUS
      <4> HIDE DEF s, S
      <4>2. IsSeq(s)
        BY <4>1, TypedIsSeq
      <4>3. QED BY <4>2 DEF s
    <3>2. QED BY <3>1
  <2>5. Substituted(block, tps) = FlattenSeq(parts)
    BY <1>3 DEF Substituted, VideoPlaceholder, merged
  <2> HIDE DEF Frame
  <2>6. IsSeq(parts) /\ Len(parts) = n /\ \A f \in 1 .. n : IsSeq(parts[f])
    <3>1. parts = [f \in 1 .. n |-> Frame(f)]
      BY <2>3
    <3>2. QED BY <2>4, <3>1, MappedIsSeq
  <2> HIDE DEF parts
  <2>7. QED BY <2>5, <2>6, FlattenIsSeq
<1>4. QED BY <1>1, <1>2, <1>3 DEF BlockOk

(* What each message becomes, flattened. *)
LEMMA FlattenOver ==
  ASSUME NEW s, IsSeq(s), NEW f, f = [p \in DOMAIN s |-> f[p]], \A p \in DOMAIN s : IsSeq(f[p])
  PROVE  IsSeq(FlattenSeq(f))
<1>1. IsSeq(f) /\ Len(f) = Len(s)
  BY OverIsSeq
<1>2. DOMAIN s = 1 .. Len(s)
  BY SeqFacts
<1>3. QED BY <1>1, <1>2, FlattenIsSeq

(* The token that asks for the answer. *)
Asked == <<"assistant", 0>>

LEMMA RenderFramed ==
  ASSUME NEW messages, Conversation(messages), NEW tps \in Nat \ {0}
  PROVE  \E framed : IsSeq(framed) /\ Render(messages, tps) = framed \o <<Asked>>
<1> DEFINE Blocked(m) == [c \in DOMAIN messages[m].content |->
                            Substituted(messages[m].content[c], tps)]
           Framed(m) == <<<<messages[m].role, 0>>>> \o FlattenSeq(Blocked(m)) \o <<Token("end")>>
           all == [m \in DOMAIN messages |-> Framed(m)]
<1>1. ASSUME NEW m \in DOMAIN messages
      PROVE  IsSeq(Framed(m))
  <2> DEFINE blocked == Blocked(m)
  <2>1. /\ IsSeq(messages[m].content)
        /\ \A c \in DOMAIN messages[m].content : BlockOk(messages[m].content[c])
    BY DEF Conversation
  <2>2. \A c \in DOMAIN messages[m].content : IsSeq(blocked[c])
    BY <2>1, SubstitutedIsSeq
  <2>3. blocked = [c \in DOMAIN messages[m].content |-> blocked[c]]
    OBVIOUS
  <2> HIDE DEF blocked
  <2>4. IsSeq(FlattenSeq(blocked))
    BY <2>1, <2>2, <2>3, FlattenOver
  <2> DEFINE flat == FlattenSeq(blocked)
             start == <<<<messages[m].role, 0>>>>
             stop == <<Token("end")>>
  <2>5. IsSeq(start) /\ IsSeq(stop)
    BY ShortSeqs
  <2> HIDE DEF flat, start, stop
  <2>6. IsSeq(start \o flat)
    BY <2>4, <2>5, FilledJoined DEF flat
  <2>7. IsSeq((start \o flat) \o stop)
    BY <2>5, <2>6, FilledJoined
  <2>8. QED BY <2>7 DEF start, stop, flat, blocked
<1>2. IsSeq(messages)
  BY DEF Conversation
<1> HIDE DEF Framed
<1>3. all = [m \in DOMAIN messages |-> all[m]] /\ \A m \in DOMAIN messages : IsSeq(all[m])
  BY <1>1
<1>4. Render(messages, tps) = FlattenSeq(all) \o <<Asked>>
  BY DEF Render, Framed, Asked
<1> HIDE DEF all
<1>5. IsSeq(FlattenSeq(all))
  BY <1>2, <1>3, FlattenOver
<1>6. QED BY <1>4, <1>5

LEMMA RenderFilled ==
  ASSUME NEW messages, Conversation(messages), NEW tps \in Nat \ {0}
  PROVE  Filled(Render(messages, tps))
<1>1. PICK framed : IsSeq(framed) /\ Render(messages, tps) = framed \o <<Asked>>
  BY RenderFramed
<1>2. PICK last : last = <<Asked>>
  OBVIOUS
<1>3. Filled(last)
  BY <1>2, ShortSeqs DEF Filled
<1>4. QED BY <1>1, <1>2, <1>3, FilledJoined DEF Filled

LEMMA LargestIn ==
  ASSUME NEW n \in Nat, NEW S \in SUBSET (1 .. n), S # {}
  PROVE  \E k \in S : \A j \in S : j <= k
<1> DEFINE T == {n - k : k \in S}
<1>1. T \in SUBSET Nat /\ T # {}
  <2>1. \A k \in S : n - k \in Nat
    OBVIOUS
  <2>2. PICK k \in S : TRUE
    OBVIOUS
  <2>3. n - k \in T
    OBVIOUS
  <2>4. T \in SUBSET Nat
    BY <2>1
  <2>5. QED BY <2>3, <2>4
<1> HIDE DEF T
<1>2. PICK t \in T : \A u \in T : t <= u
  BY <1>1, LeastOfNonEmpty
<1>3. PICK k \in S : t = n - k
  BY <1>2 DEF T
<1>4. ASSUME NEW j \in S
      PROVE  j <= k
  <2>1. n - j \in T
    BY DEF T
  <2>2. n - k <= n - j
    BY <1>2, <1>3, <2>1
  <2>3. j \in 1 .. n /\ k \in 1 .. n
    OBVIOUS
  <2>4. QED BY <2>2, <2>3
<1>5. QED BY <1>4

(* A prompt that begins with the token of the system's turn. *)
Opened(s) == Filled(s) /\ s[1] = Token("system")

LEMMA CaptionPrompt ==
  ASSUME NEW messages, Conversation(messages), BuildInputs(messages) # None
  PROVE  Opened(BuildInputs(messages).some.prompt)
<1> DEFINE Said(m) == [c \in DOMAIN messages[m].content |->
                         IF messages[m].content[c].kind = "text"
                         THEN messages[m].content[c].tokens ELSE <<>>]
           system == {m \in DOMAIN messages : messages[m].role = "system"}
           turns == [m \in DOMAIN messages |-> IF m \in system THEN <<>> ELSE FlattenSeq(Said(m))]
           user == FlattenSeq(turns)
           kept == [p \in DOMAIN user |-> IF user[p] = JoyImage THEN <<>> ELSE <<user[p]>>]
           chosen == CHOOSE m \in system : \A k \in system : k <= m
           a == <<Token("system")>>
           b == IF system = {} THEN <<Token("default_system")>> ELSE FlattenSeq(Said(chosen))
           c == <<Token("user"), Token("joy_start"), JoyImage, Token("joy_end")>>
           d == FlattenSeq(kept)
           e == <<Token("assistant")>>
<1>1. ASSUME NEW m \in DOMAIN messages
      PROVE  IsSeq(FlattenSeq(Said(m)))
  <2> DEFINE said == Said(m)
             content == messages[m].content
  <2>1. /\ IsSeq(content)
        /\ \A x \in DOMAIN content : BlockOk(content[x])
    BY DEF Conversation
  <2>2. said = [x \in DOMAIN content |-> said[x]]
    OBVIOUS
  <2>3. ASSUME NEW x \in DOMAIN content
        PROVE  IsSeq(said[x])
    <3>1. CASE content[x].kind = "text"
      <4>1. IsSeq(content[x].tokens)
        BY <2>1, <3>1 DEF BlockOk
      <4>2. QED BY <3>1, <4>1
    <3>2. CASE content[x].kind # "text"
      BY <3>2, ShortSeqs
    <3>3. QED BY <3>1, <3>2
  <2> HIDE DEF said, content
  <2>4. IsSeq(FlattenSeq(said))
    BY <2>1, <2>2, <2>3, FlattenOver
  <2>5. QED BY <2>4 DEF said
<1>2. IsSeq(messages)
  BY DEF Conversation
<1>3. BuildInputs(messages).some.prompt = a \o b \o c \o d \o e
  BY DEF BuildInputs, Some
<1> HIDE DEF Said
<1>4. IsSeq(user)
  <2>1. turns = [m \in DOMAIN messages |-> turns[m]]
    OBVIOUS
  <2>2. \A m \in DOMAIN messages : IsSeq(turns[m])
    BY <1>1, ShortSeqs
  <2> HIDE DEF turns
  <2>3. QED BY <1>2, <2>1, <2>2, FlattenOver
<1>5. IsSeq(b)
  <2>1. CASE system = {}
    BY <2>1, ShortSeqs
  <2>2. CASE system # {}
    <3>1. PICK n \in Nat : DOMAIN messages = 1 .. n
      BY <1>2, SeqFacts
    <3>2. system \in SUBSET (1 .. n)
      BY <3>1
    <3>3. chosen \in system
      <4> HIDE DEF system
      <4>1. \E m \in system : \A k \in system : k <= m
        BY <2>2, <3>2, LargestIn
      <4>2. QED BY <4>1
    <3>4. chosen \in DOMAIN messages
      BY <3>3
    <3> HIDE DEF chosen, system
    <3>5. QED BY <1>1, <2>2, <3>4
  <2>3. QED BY <2>1, <2>2
<1>6. IsSeq(c)
  <2>1. c \in Seq({Token("user"), Token("joy_start"), JoyImage, Token("joy_end")})
    OBVIOUS
  <2> HIDE DEF c
  <2>2. QED BY <2>1, TypedIsSeq
<1> HIDE DEF user
<1>7. IsSeq(d)
  <2>1. kept = [p \in DOMAIN user |-> kept[p]]
    OBVIOUS
  <2>2. \A p \in DOMAIN user : IsSeq(kept[p])
    BY ShortSeqs
  <2> HIDE DEF kept
  <2>3. QED BY <1>4, <2>1, <2>2, FlattenOver
<1>8. Opened(a) /\ IsSeq(e)
  BY ShortSeqs DEF Opened, Filled
<1> HIDE DEF a, b, c, d, e
<1>9. \A s, t : Opened(s) /\ IsSeq(t) => Opened(s \o t)
  <2>1. ASSUME NEW s, NEW t, Opened(s), IsSeq(t)
        PROVE  Opened(s \o t)
    BY <2>1, FilledJoined DEF Opened, Filled
  <2>2. QED BY <2>1
<1>10. Opened(a \o b \o c \o d \o e)
  BY <1>5, <1>6, <1>7, <1>8, <1>9
<1>11. QED BY <1>3, <1>10

(* A prompt the decoder can be run over. *)
PromptIs(p) ==
  /\ Filled(p.ids) /\ IsSeq(p.embeds) /\ Len(p.embeds) = Len(p.ids)
  /\ p.delta = 0

LEMMA CaptionFilled ==
  ASSUME NEW inputs, Opened(inputs.prompt), PrepareCaption(Geometry, inputs) # None
  PROVE  PromptIs(PrepareCaption(Geometry, inputs).some)
<1> DEFINE n == Geometry.image_seq_length
           prompt == inputs.prompt
           parts == [p \in DOMAIN prompt |-> IF prompt[p] = JoyImage THEN [i \in 1 .. n |-> JoyImage]
                                             ELSE <<prompt[p]>>]
           ids == FlattenSeq(parts)
           features == ImageFeatures(Geometry, inputs.image)
           spliced == IF features = None THEN None ELSE SpliceImageFeatures(ids, features.some)
           out == PrepareCaption(Geometry, inputs)
<1>1. n \in Nat
  BY GeometryAssumption
<1>2. out = IF spliced = None THEN None
            ELSE Some([ids |-> ids, embeds |-> spliced.some, delta |-> 0, feats |-> features.some])
  BY DEF PrepareCaption, ExpandImageTokens
<1>3. Filled(ids)
  <2>1. IsSeq(prompt) /\ Len(prompt) > 0 /\ prompt[1] = Token("system")
    BY DEF Opened, Filled
  <2>2. parts = [p \in DOMAIN prompt |-> parts[p]]
    OBVIOUS
  <2>3. IsSeq([i \in 1 .. n |-> JoyImage])
    BY <1>1, MappedIsSeq
  <2>4. \A p \in DOMAIN prompt : IsSeq(parts[p])
    BY <2>3, ShortSeqs
  <2>5. 1 \in DOMAIN prompt /\ DOMAIN prompt = 1 .. Len(prompt)
    BY <2>1, SeqFacts
  <2>6. Token("system") # JoyImage
    BY DEF JoyImage, Token
  <2>7. Len(parts[1]) = 1
    BY <2>1, <2>5, <2>6, ShortSeqs
  <2> HIDE DEF prompt, parts
  <2>8. IsSeq(parts) /\ Len(parts) = Len(prompt)
    BY <2>1, <2>2, OverIsSeq
  <2>9. IsSeq(ids) /\ Len(ids) >= 1
    BY <2>1, <2>4, <2>5, <2>7, <2>8, FlattenIsSeq
  <2>10. QED BY <2>9, SeqFacts DEF Filled
<1> HIDE DEF ids, features
<1>4. spliced # None
  BY <1>2
<1>5. IsSeq(spliced.some) /\ Len(spliced.some) = Len(ids)
  <2>1. spliced = SpliceImageFeatures(ids, features.some)
    BY <1>4
  <2> DEFINE gather == ImageGatherIndex(ids, Len(features.some))
             source == Embed(ids) \o [k \in DOMAIN features.some |-> [feature |-> k, id |-> JoyImage]]
             f == [p \in DOMAIN ids |-> source[gather.some[p]]]
  <2>2. spliced = Some(f)
    BY <1>4, <2>1 DEF SpliceImageFeatures
  <2>3. spliced.some = f
    <3> HIDE DEF spliced, f
    <3>1. QED BY <2>2 DEF Some
  <2>4. f = [p \in DOMAIN ids |-> f[p]]
    OBVIOUS
  <2> HIDE DEF f
  <2>5. IsSeq(f) /\ Len(f) = Len(ids)
    BY <1>3, <2>4, OverIsSeq DEF Filled
  <2>6. QED BY <2>3, <2>5
<1> HIDE DEF spliced
<1>6. out.some = [ids |-> ids, embeds |-> spliced.some, delta |-> 0, feats |-> features.some]
  BY <1>2, <1>4 DEF Some
<1>7. PromptIs(out.some)
  BY <1>3, <1>5, <1>6 DEF PromptIs
<1>8. QED BY <1>7

-----------------------------------------------------------------------------
(* Without visuals, and with JoyCaption's image: the inductive invariant.    *)

(* The rows run so far. *)
Fed == SubSeq(input.some.embeds \o Embed(generated), 1, fed)

Ready == phase \in {"prefill", "decode", "done"}

RunInv ==
  /\ phase \in {"encode", "prefill", "decode", "done", "refused"}
  /\ IsSeq(generated) /\ fed \in Nat
  /\ ~ Ready => fed = 0
  /\ Ready => /\ PromptIs(input.some)
              /\ request.provider = "llama" => input.some.embeds = Embed(input.some.ids)
              /\ fed <= Len(input.some.ids) + Len(generated)
  /\ phase \in {"encode", "prefill"} => generated = <<>>
  /\ phase = "prefill" => /\ fed < Len(input.some.ids)
                          /\ request.provider = "joycaption" => fed = 0
  /\ phase = "decode" => fed = Len(input.some.ids) + Len(generated)
  /\ fed = 0 => cache = NewCache(Model)
  /\ fed > 0 => logits = OnePass(Model, Fed).logits /\ cache = OnePass(Model, Fed).cache

TextInv == request \in Requests /\ (~Multimodal => RunInv)

LEMMA FedFacts ==
  ASSUME RunInv, Ready
  PROVE  IsSeq(Fed) /\ Len(Fed) = fed
<1> DEFINE e == input.some.embeds
           g == Embed(generated)
           all == e \o g
<1>1. IsSeq(e) /\ Len(e) = Len(input.some.ids)
  BY DEF RunInv, PromptIs
<1>2. IsSeq(g) /\ Len(g) = Len(generated)
  BY EmbedFacts DEF RunInv
<1>3. IsSeq(all) /\ Len(all) = Len(e) + Len(g)
  BY <1>1, <1>2, JoinFacts
<1>4. fed \in Nat /\ fed <= Len(all)
  BY <1>1, <1>2, <1>3 DEF RunInv
<1> HIDE DEF all
<1>5. IsSeq(SubSeq(all, 1, fed)) /\ Len(SubSeq(all, 1, fed)) = fed
  <2>1. 1 \in Nat \ {0} /\ fed \in Int /\ 1 <= fed + 1 /\ fed - 1 + 1 = fed
    BY <1>4
  <2>2. QED BY <1>3, <1>4, <2>1, PartFacts
<1>6. QED BY <1>5 DEF Fed, all

LEMMA GoesOn ==
  ASSUME RunInv, Ready, DecoderShape(Model), NEW more, Filled(more)
  PROVE  DecodeLogitsFromEmbeds(Model, more, cache, fed) = OnePass(Model, Fed \o more)
<1>1. IsSeq(Fed) /\ Len(Fed) = fed
  BY FedFacts
<1>2. cache = IF Len(Fed) = 0 THEN NewCache(Model) ELSE OnePass(Model, Fed).cache
  BY <1>1 DEF RunInv
<1>3. IsSeq(more) /\ Len(more) > 0
  BY DEF Filled
<1>4. QED BY <1>1, <1>2, <1>3, OnePassGoesOn

LEMMA EmbedEmpty ==
  ASSUME NEW e, IsSeq(e)
  PROVE  e \o Embed(<<>>) = e
<1>1. IsSeq(Embed(<<>>)) /\ Len(Embed(<<>>)) = 0
  BY ShortSeqs, EmbedFacts
<1>2. /\ IsSeq(e \o Embed(<<>>)) /\ Len(e \o Embed(<<>>)) = Len(e) + 0
      /\ \A i \in 1 .. Len(e) : (e \o Embed(<<>>))[i] = e[i]
  BY <1>1, JoinFacts
<1>3. Len(e) \in Nat
  BY SeqFacts
<1>4. Len(e \o Embed(<<>>)) = Len(e)
  BY <1>2, <1>3
<1>5. QED BY <1>2, <1>4, SameSeq

(* A prompt cut after k, and after n tokens. *)
LEMMA CutPrompt ==
  ASSUME NEW ids, IsSeq(ids), NEW k \in Nat, NEW n \in Nat, k < n, n <= Len(ids)
  PROVE  /\ SubSeq(Embed(ids), 1, n) = SubSeq(Embed(ids), 1, k) \o Embed(SubSeq(ids, k + 1, n))
         /\ Filled(Embed(SubSeq(ids, k + 1, n)))
         /\ Len(SubSeq(ids, k + 1, n)) = n - k
<1> DEFINE rows == Embed(ids)
           part == SubSeq(ids, k + 1, n)
           all == SubSeq(rows, 1, n)
           one == SubSeq(rows, 1, k)
           two == Embed(part)
<1>1. IsSeq(rows) /\ Len(rows) = Len(ids) /\ \A p \in 1 .. Len(ids) : rows[p] = Row(ids[p])
  BY EmbedFacts
<1>2. PICK d \in Nat : d = n - k
  OBVIOUS
<1>3. PICK a \in Nat \ {0} : a = k + 1
  OBVIOUS
<1>4. IsSeq(part) /\ Len(part) = d /\ \A i \in 1 .. d : part[i] = ids[k + i]
  <2>1. /\ IsSeq(SubSeq(ids, a, n)) /\ Len(SubSeq(ids, a, n)) = n - a + 1
        /\ \A i \in 1 .. n - a + 1 : SubSeq(ids, a, n)[i] = ids[a + i - 1]
    BY <1>3, PartFacts
  <2>2. n - a + 1 = d /\ \A i \in 1 .. d : a + i - 1 = k + i
    BY <1>2, <1>3
  <2>3. QED BY <1>3, <2>1, <2>2
<1> HIDE DEF part
<1>5. IsSeq(two) /\ Len(two) = d /\ \A i \in 1 .. d : two[i] = Row(part[i])
  BY <1>4, EmbedFacts
<1> HIDE DEF rows, two
<1>6. IsSeq(one) /\ Len(one) = k /\ \A i \in 1 .. k : one[i] = rows[i]
  <2>1. /\ IsSeq(one) /\ Len(one) = k - 1 + 1
        /\ \A i \in 1 .. k - 1 + 1 : one[i] = rows[1 + i - 1]
    BY <1>1, PartFacts
  <2>2. k - 1 + 1 = k /\ \A i \in 1 .. k : 1 + i - 1 = i
    OBVIOUS
  <2>3. QED BY <2>1, <2>2
<1>7. IsSeq(all) /\ Len(all) = n /\ \A i \in 1 .. n : all[i] = rows[i]
  <2>1. /\ IsSeq(all) /\ Len(all) = n - 1 + 1
        /\ \A i \in 1 .. n - 1 + 1 : all[i] = rows[1 + i - 1]
    BY <1>1, PartFacts
  <2>2. n - 1 + 1 = n /\ \A i \in 1 .. n : 1 + i - 1 = i
    OBVIOUS
  <2>3. QED BY <2>1, <2>2
<1> HIDE DEF one, all
<1>8. \A i \in 1 .. Len(one) : all[i] = one[i]
  BY <1>6, <1>7
<1>9. ASSUME NEW i \in 1 .. Len(two)
      PROVE  all[Len(one) + i] = two[i]
  <2>1. i \in 1 .. d /\ k + i \in 1 .. n /\ k + i \in 1 .. Len(ids)
    BY <1>2, <1>5
  <2>2. all[k + i] = Row(ids[k + i])
    BY <1>1, <1>7, <2>1
  <2>3. two[i] = Row(ids[k + i])
    BY <1>4, <1>5, <2>1
  <2>4. QED BY <1>6, <2>2, <2>3
<1>10. Parts(all, one, two)
  BY <1>2, <1>5, <1>6, <1>7, <1>8, <1>9 DEF Parts
<1>11. all = one \o two
  BY <1>10, JoinedBy
<1>12. QED BY <1>2, <1>4, <1>5, <1>11 DEF all, one, two, part, rows, Filled

LEMMA FirstPart ==
  ASSUME NEW s, NEW t, IsSeq(s), IsSeq(t), NEW n, n = Len(s)
  PROVE  SubSeq(s \o t, 1, n) = s
<1>1. n \in Nat
  BY SeqFacts
<1>2. CASE n > 0
  <2>1. n \in 1 .. Len(s)
    BY <1>1, <1>2
  <2>2. SubSeq(s \o t, 1, n) = SubSeq(s, 1, n)
    BY <2>1, PartsOfJoin
  <2>3. SubSeq(s, 1, n) = s
    BY WholePart
  <2>4. QED BY <2>2, <2>3
<1>3. CASE n = 0
  <2> DEFINE all == s \o t
  <2>1. IsSeq(all)
    BY FilledJoined
  <2> HIDE DEF all
  <2>2. PICK a \in Nat \ {0} : a = 1
    OBVIOUS
  <2>3. PICK b \in Int : b = 0
    OBVIOUS
  <2>4. b <= Len(all) /\ a <= b + 1 /\ b - a + 1 = 0
    BY <2>1, <2>2, <2>3, SeqFacts
  <2>5. IsSeq(SubSeq(all, a, b)) /\ Len(SubSeq(all, a, b)) = 0
    BY <2>1, <2>4, PartFacts
  <2>6. IsSeq(SubSeq(all, 1, n)) /\ Len(SubSeq(all, 1, n)) = 0
    BY <1>3, <2>2, <2>3, <2>5
  <2> DEFINE part == SubSeq(all, 1, n)
  <2> HIDE DEF part
  <2>7. \A i \in 1 .. Len(part) : part[i] = s[i]
    BY <2>6 DEF part
  <2>8. part = s
    BY <1>3, <2>6, <2>7, SameSeq DEF part
  <2>9. QED BY <2>8 DEF part, all
<1>4. QED BY <1>1, <1>2, <1>3

(* What a pushed token does to the rows the sequence holds.                    *)
PushedAs(e, g, x, n, next, after) ==
  /\ SubSeq(e \o Embed(after), 1, n) = SubSeq(e \o Embed(g), 1, n)
  /\ SubSeq(e \o Embed(after), 1, next) = SubSeq(e \o Embed(g), 1, n) \o Embed(<<x>>)
  /\ IsSeq(after)

(* A token is pushed, and may be fed back. *)
LEMMA Pushed ==
  ASSUME NEW e, NEW g, NEW x, IsSeq(e), IsSeq(g), NEW n \in Nat, n = Len(e) + Len(g),
         NEW next \in Nat, next = n + 1
  PROVE  PushedAs(e, g, x, n, next, Append(g, x))
<1> DEFINE before == e \o Embed(g)
           more == Embed(<<x>>)
           after == e \o Embed(Append(g, x))
<1>1. /\ IsSeq(<<x>>) /\ Len(<<x>>) = 1
  BY ShortSeqs
<1>2. Append(g, x) = g \o <<x>>
  <2>1. g \in Seq(ToSet(g) \cup {x})
    BY DEF IsSeq
  <2> DEFINE S == ToSet(g) \cup {x}
  <2>2. x \in S /\ g \in Seq(S)
    BY <2>1
  <2> HIDE DEF S
  <2>3. QED BY <2>2
<1>3. IsSeq(g \o <<x>>) /\ Len(g \o <<x>>) = Len(g) + 1
  BY <1>1, JoinFacts
<1>4. Embed(Append(g, x)) = Embed(g) \o more
  BY <1>1, <1>2, EmbedJoined
<1>5. IsSeq(Embed(g)) /\ Len(Embed(g)) = Len(g) /\ IsSeq(more) /\ Len(more) = 1
  BY <1>1, EmbedFacts
<1> HIDE DEF more
<1>6. after = before \o more
  <2>1. (e \o Embed(g)) \o more = e \o (Embed(g) \o more)
    <3>1. PICK y : y = Embed(g)
      OBVIOUS
    <3>2. IsSeq(y) /\ IsSeq(more)
      BY <1>5, <3>1
    <3>3. Associates(e, y, more)
      BY <3>2, JoinAssociative
    <3>4. QED BY <3>1, <3>3 DEF Associates
  <2>2. QED BY <1>4, <2>1
<1>7. IsSeq(before) /\ Len(before) = n
  BY <1>5, JoinFacts
<1> HIDE DEF before
<1>8. SubSeq(before, 1, n) = before
  BY <1>7, WholePart
<1>9. IsSeq(before \o more) /\ Len(before \o more) = next
  <2>1. Parts(before \o more, before, more)
    BY <1>5, <1>7, JoinParts
  <2>2. QED BY <1>5, <1>7, <2>1 DEF Parts
<1> DEFINE both == before \o more
<1>10. SubSeq(both, 1, next) = both
  <2> HIDE DEF both
  <2>1. IsSeq(both) /\ Len(both) = next
    BY <1>9 DEF both
  <2>2. QED BY <2>1, WholePart
<1>11. SubSeq(both, 1, n) = before
  BY <1>5, <1>7, FirstPart
<1>12. PICK all : all = after /\ all = both
  BY <1>6
<1>13. SubSeq(all, 1, n) = before /\ SubSeq(all, 1, next) = both
  BY <1>10, <1>11, <1>12
<1>14. SubSeq(after, 1, n) = before /\ SubSeq(after, 1, next) = both
  BY <1>12, <1>13
<1>15. IsSeq(Append(g, x))
  BY <1>2, <1>3
<1>16. QED BY <1>8, <1>14, <1>15 DEF before, more, PushedAs

LEMMA TextInit ==
  ASSUME Init
  PROVE  TextInv
<1>1. request \in Requests /\ phase = "encode" /\ fed = 0 /\ generated = <<>>
      /\ cache = NewCache(Model)
  BY DEF Init, Model
<1>2. IsSeq(generated)
  BY <1>1, ShortSeqs
<1>3. RunInv
  BY <1>1, <1>2 DEF RunInv, Ready
<1>4. QED BY <1>1, <1>3 DEF TextInv

(* What a step that runs no row leaves. *)
SameRun == UNCHANGED <<cache, fed, logits, generated>>

LEMMA EncodeText ==
  ASSUME RunInv, EncodeNext
  PROVE  RunInv'
<1>1. UNCHANGED <<request, cache, fed, logits, generated, input>> /\ phase = "encode"
      /\ phase' \in {"encode", "refused"}
  BY DEF EncodeNext, Refused
<1>2. fed = 0 /\ ~ Ready'
  BY <1>1 DEF RunInv, Ready
<1>3. Model' = Model
  BY <1>1 DEF Model
<1>4. QED BY <1>1, <1>2, <1>3 DEF RunInv, Ready

(* The prompt is ready, or an error. *)
LEMMA PlacedText ==
  ASSUME RunInv, NEW prepared, PlaceAs(prepared), phase = "encode",
         UNCHANGED <<request, cache, fed, logits, generated, draw>>,
         prepared # None =>
           /\ PromptIs(prepared.some)
           /\ request.provider = "llama" => prepared.some.embeds = Embed(prepared.some.ids)
  PROVE  RunInv'
<1>1. fed = 0 /\ generated = <<>>
  BY DEF RunInv, Ready
<1>2. Model' = Model
  BY DEF Model
<1>3. CASE prepared = None
  <2>1. phase' = "refused"
    BY <1>3 DEF PlaceAs, Refused
  <2>2. ~ Ready'
    BY <2>1 DEF Ready
  <2>3. QED BY <1>1, <1>2, <2>1, <2>2 DEF RunInv
<1>4. CASE prepared # None
  <2>1. phase' = "prefill" /\ input' = prepared
    BY <1>4 DEF PlaceAs
  <2>2. PromptIs(input'.some) /\ (request.provider = "llama" => input'.some.embeds = Embed(input'.some.ids))
    BY <1>4, <2>1
  <2>3. Len(input'.some.ids) \in Nat /\ Len(input'.some.ids) > 0
    BY <2>2, SeqFacts DEF PromptIs, Filled
  <2>4. Len(generated) = 0
    BY <1>1, ShortSeqs
  <2>5. QED BY <1>1, <1>2, <2>1, <2>2, <2>3, <2>4 DEF RunInv, Ready
<1>5. QED BY <1>3, <1>4

LEMMA PlaceText ==
  ASSUME RunInv, request \in Requests, Place, ~ Multimodal
  PROVE  RunInv'
<1> DEFINE prompt == Render(request.messages, Geometry.temporal)
           prepared == Some([ids |-> prompt, embeds |-> Embed(prompt), delta |-> 0])
<1>1. phase = "encode" /\ request.provider = "llama"
      /\ UNCHANGED <<request, cache, fed, logits, generated, draw>>
  BY DEF Place
<1>2. Blocks = <<>>
  BY <1>1 DEF Multimodal
<1>3. PlaceAs(prepared)
  BY <1>2 DEF Place
<1>4. Filled(prompt)
  BY GeometryAssumption, RequestFacts, RenderFilled
<1> HIDE DEF prompt
<1>5. IsSeq(Embed(prompt)) /\ Len(Embed(prompt)) = Len(prompt)
  BY <1>4, EmbedFacts DEF Filled
<1>6. prepared.some = [ids |-> prompt, embeds |-> Embed(prompt), delta |-> 0]
  BY DEF Some
<1> HIDE DEF prepared
<1>7. PromptIs(prepared.some) /\ prepared.some.embeds = Embed(prepared.some.ids)
  BY <1>4, <1>5, <1>6 DEF PromptIs
<1>8. QED BY <1>1, <1>3, <1>7, PlacedText

LEMMA PlaceCaptionText ==
  ASSUME RunInv, request \in Requests, PlaceCaption
  PROVE  RunInv'
<1> DEFINE inputs == BuildInputs(request.messages)
           prepared == IF inputs = None THEN None ELSE PrepareCaption(Geometry, inputs.some)
<1>1. phase = "encode" /\ request.provider = "joycaption"
      /\ UNCHANGED <<request, cache, fed, logits, generated, draw>>
      /\ PlaceAs(prepared)
  BY DEF PlaceCaption
<1>2. ASSUME prepared # None
      PROVE  PromptIs(prepared.some)
  <2>1. inputs # None /\ prepared = PrepareCaption(Geometry, inputs.some)
    BY <1>2
  <2>2. Opened(inputs.some.prompt)
    BY <2>1, RequestFacts, CaptionPrompt
  <2> HIDE DEF inputs, prepared
  <2>3. QED BY <1>2, <2>1, <2>2, CaptionFilled
<1>3. request.provider # "llama"
  BY <1>1
<1> HIDE DEF prepared
<1>4. QED BY <1>1, <1>2, <1>3, PlacedText

LEMMA PrefillCaptionText ==
  ASSUME RunInv, request \in Requests, PrefillCaption
  PROVE  RunInv'
<1> DEFINE ids == input.some.ids
           embeds == input.some.embeds
           run == DecodeLogitsFromEmbeds(Model, embeds, cache, 0)
<1>1. /\ phase = "prefill" /\ request.provider = "joycaption" /\ phase' = "decode"
      /\ cache' = run.cache /\ logits' = run.logits /\ fed' = fed + Len(ids)
      /\ UNCHANGED <<request, enc, input, generated, draw>>
  BY DEF PrefillCaption, Ran
<1>2. /\ PromptIs(input.some) /\ generated = <<>> /\ fed = 0 /\ cache = NewCache(Model)
  BY <1>1 DEF RunInv, Ready
<1>3. Filled(ids) /\ IsSeq(embeds) /\ Len(embeds) = Len(ids)
  BY <1>2 DEF PromptIs
<1>4. PICK n \in Nat : n = Len(ids) /\ n > 0
  BY <1>3, SeqFacts DEF Filled
<1>5. fed' = n
  BY <1>1, <1>2, <1>4
<1>6. run = OnePass(Model, embeds)
  BY <1>2 DEF OnePass
<1>7. Fed' = embeds
  <2>1. Fed' = SubSeq(embeds \o Embed(<<>>), 1, n)
    BY <1>1, <1>2, <1>5 DEF Fed
  <2>2. embeds \o Embed(<<>>) = embeds
    BY <1>3, EmbedEmpty
  <2>3. SubSeq(embeds, 1, n) = embeds
    BY <1>3, <1>4, WholePart
  <2>4. QED BY <2>1, <2>2, <2>3
<1>8. Model' = Model /\ Len(generated) = 0
  BY <1>1, <1>2, ShortSeqs DEF Model
<1> HIDE DEF run
<1>9. logits' = OnePass(Model', Fed').logits /\ cache' = OnePass(Model', Fed').cache
  BY <1>1, <1>6, <1>7, <1>8
<1>10. QED BY <1>1, <1>2, <1>4, <1>5, <1>8, <1>9 DEF RunInv, Ready

LEMMA PrefillTextText ==
  ASSUME RunInv, request \in Requests, NEW n \in Nat, PrefillText(n)
  PROVE  RunInv'
<1> DEFINE ids == input.some.ids
           embeds == input.some.embeds
           part == SubSeq(ids, fed + 1, n)
           run == DecodeLogits(Model, part, cache, fed)
<1>1. /\ phase = "prefill" /\ request.provider = "llama" /\ fed < n /\ n <= Len(ids)
      /\ cache' = run.cache /\ logits' = run.logits /\ fed' = fed + (n - fed)
      /\ phase' = IF n = Len(ids) THEN "decode" ELSE "prefill"
      /\ UNCHANGED <<request, enc, input, generated, draw>>
  BY DEF PrefillText, Ran
<1>2. /\ Ready /\ PromptIs(input.some) /\ generated = <<>> /\ fed \in Nat /\ embeds = Embed(ids)
  BY <1>1 DEF RunInv, Ready
<1>3. Filled(ids) /\ IsSeq(ids) /\ IsSeq(embeds) /\ Len(embeds) = Len(ids)
  BY <1>2 DEF PromptIs, Filled
<1>4. Len(ids) \in Nat /\ fed' = n
  BY <1>1, <1>2, <1>3, SeqFacts
<1>5. /\ SubSeq(embeds, 1, n) = SubSeq(embeds, 1, fed) \o Embed(part)
      /\ Filled(Embed(part))
  BY <1>1, <1>2, <1>3, CutPrompt
<1>6. Fed = SubSeq(embeds, 1, fed) /\ Fed' = SubSeq(embeds, 1, n)
  <2>1. embeds \o Embed(<<>>) = embeds
    BY <1>3, EmbedEmpty
  <2>2. Fed = SubSeq(embeds \o Embed(<<>>), 1, fed)
    BY <1>2 DEF Fed
  <2>3. Fed' = SubSeq(embeds \o Embed(<<>>), 1, n)
    BY <1>1, <1>2, <1>4 DEF Fed
  <2>4. QED BY <2>1, <2>2, <2>3
<1>7. DecoderShape(Model)
  BY RequestFacts DEF Model
<1> HIDE DEF part, ids, embeds
<1>8. run = OnePass(Model, Fed \o Embed(part))
  <2>1. DecodeLogitsFromEmbeds(Model, Embed(part), cache, fed) = OnePass(Model, Fed \o Embed(part))
    BY <1>2, <1>5, <1>7, GoesOn
  <2>2. QED BY <2>1 DEF DecodeLogits
<1>9. Model' = Model /\ Len(generated) = 0
  BY <1>1, <1>2, ShortSeqs DEF Model
<1> HIDE DEF run
<1>10. logits' = OnePass(Model', Fed').logits /\ cache' = OnePass(Model', Fed').cache
  BY <1>1, <1>5, <1>6, <1>8, <1>9
<1>11. Len(ids) \in Nat /\ n <= Len(ids) /\ n > 0
  BY <1>1, <1>2, <1>4
<1>12. QED
  <2>1. CASE n = Len(ids)
    BY <1>1, <1>2, <1>4, <1>9, <1>10, <1>11, <2>1 DEF RunInv, Ready, ids, embeds
  <2>2. CASE n # Len(ids)
    BY <1>1, <1>2, <1>4, <1>9, <1>10, <1>11, <2>2 DEF RunInv, Ready, ids, embeds
  <2>3. QED BY <2>1, <2>2

LEMMA DecodeText ==
  ASSUME RunInv, request \in Requests, Decode
  PROVE  RunInv'
<1> DEFINE ids == input.some.ids
           embeds == input.some.embeds
<1>1. phase = "decode" /\ UNCHANGED <<request, enc, input>>
  BY DEF Decode
<1>2. /\ Ready /\ PromptIs(input.some) /\ IsSeq(generated) /\ fed \in Nat
      /\ fed = Len(ids) + Len(generated)
      /\ request.provider = "llama" => embeds = Embed(ids)
  BY <1>1 DEF RunInv, Ready
<1>3. IsSeq(ids) /\ Len(ids) > 0 /\ IsSeq(embeds) /\ Len(embeds) = Len(ids) /\ input.some.delta = 0
  BY <1>2 DEF PromptIs, Filled
<1>4. Len(ids) \in Nat /\ Len(generated) \in Nat
  BY <1>2, <1>3, SeqFacts
<1>5. DecoderShape(Model) /\ Model' = Model
  BY <1>1, RequestFacts DEF Model
<1>6. PICK token :
        IF Vocabulary[token + 1] \in Stops
        THEN phase' = "done" /\ UNCHANGED <<cache, fed, logits, generated>>
        ELSE /\ generated' = Append(generated, Vocabulary[token + 1])
             /\ IF Len(generated') = MaxNew
                THEN phase' = "done" /\ UNCHANGED <<cache, fed, logits>>
                ELSE /\ Ran(DecodeLogits(Model, <<Vocabulary[token + 1]>>, cache,
                                         fed + input.some.delta), 1)
                     /\ UNCHANGED phase
  BY DEF Decode
<1>7. CASE phase' = "done" /\ UNCHANGED <<cache, fed, logits, generated>>
  <2>1. Fed' = Fed
    BY <1>1, <1>7 DEF Fed
  <2>2. QED BY <1>1, <1>2, <1>4, <1>5, <1>7, <2>1 DEF RunInv, Ready
<1>8. ASSUME NEW x, generated' = Append(generated, x)
      PROVE  /\ SubSeq(embeds \o Embed(generated'), 1, fed) = Fed
             /\ SubSeq(embeds \o Embed(generated'), 1, fed + 1) = Fed \o Embed(<<x>>)
             /\ IsSeq(generated')
  <2>1. PICK next \in Nat : next = fed + 1
    BY <1>2
  <2>2. Fed = SubSeq(embeds \o Embed(generated), 1, fed)
    BY DEF Fed
  <2>3. PICK e : e = embeds
    OBVIOUS
  <2>4. IsSeq(e) /\ fed = Len(e) + Len(generated) /\ fed \in Nat /\ IsSeq(generated)
    BY <1>2, <1>3, <2>3
  <2> HIDE DEF embeds, ids
  <2>5. PICK n \in Nat : n = fed
    BY <2>4
  <2>6. n = Len(e) + Len(generated) /\ next = n + 1
    BY <2>1, <2>4, <2>5
  <2>7. PICK g : g = generated
    OBVIOUS
  <2>8. PushedAs(e, g, x, n, next, Append(g, x))
    BY <2>4, <2>6, <2>7, Pushed
  <2>9. PushedAs(embeds, generated, x, fed, fed + 1, generated')
    BY <1>8, <2>1, <2>3, <2>5, <2>7, <2>8
  <2>10. QED BY <2>2, <2>9 DEF PushedAs
<1>9. ASSUME NEW x, generated' = Append(generated, x)
      PROVE  \E k \in Nat : k = Len(generated) /\ Len(generated') = k + 1
  <2>1. PICK k \in Nat : k = Len(generated)
    BY <1>4
  <2>2. generated \in Seq(ToSet(generated) \cup {x})
    BY <1>2 DEF IsSeq
  <2>3. x \in ToSet(generated) \cup {x}
    OBVIOUS
  <2>4. PICK S : S = ToSet(generated) \cup {x}
    OBVIOUS
  <2>5. Len(Append(generated, x)) = Len(generated) + 1
    BY <2>2, <2>3, <2>4
  <2>6. QED BY <1>9, <2>1, <2>5
<1>10. input.some.ids = ids /\ PromptIs(input.some) /\ IsSeq(generated)
       /\ (request.provider = "llama" => input.some.embeds = Embed(input.some.ids))
       /\ Ready
  BY <1>2
<1> HIDE DEF ids
<1>11. ASSUME NEW x, generated' = Append(generated, x), phase' = "done", UNCHANGED <<cache, fed, logits>>
      PROVE  RunInv'
  <2>1. Fed' = Fed
    BY <1>1, <1>8, <1>11 DEF Fed
  <2>2. IsSeq(generated')
    BY <1>8, <1>11
  <2>3. fed' = fed /\ fed' <= Len(ids) + Len(generated') /\ fed' > 0
    <3>1. PICK k \in Nat : k = Len(generated) /\ Len(generated') = k + 1
      BY <1>9, <1>11
    <3>2. PICK i \in Nat : i = Len(ids) /\ i > 0
      BY <1>3, <1>4
    <3>3. fed = i + k /\ fed' = fed
      BY <1>2, <1>11, <3>1, <3>2
    <3>4. QED BY <3>1, <3>2, <3>3
  <2>4. input' = input /\ request' = request /\ cache' = cache /\ logits' = logits
    BY <1>1, <1>11
  <2>5. logits' = OnePass(Model', Fed').logits /\ cache' = OnePass(Model', Fed').cache
    BY <1>2, <1>5, <2>1, <2>3, <2>4 DEF RunInv
  <2>6. Ready' /\ phase' = "done"
    BY <1>11 DEF Ready
  <2>7. /\ PromptIs(input'.some)
        /\ request'.provider = "llama" => input'.some.embeds = Embed(input'.some.ids)
        /\ input'.some.ids = ids
    BY <1>10, <2>4
  <2>8. fed' \in Nat /\ fed' # 0
    BY <1>2, <2>3
  <2>9. QED BY <2>2, <2>3, <2>5, <2>6, <2>7, <2>8 DEF RunInv
<1>12. ASSUME NEW x, generated' = Append(generated, x), UNCHANGED phase,
              Ran(DecodeLogits(Model, <<x>>, cache, fed + input.some.delta), 1)
       PROVE  RunInv'
  <2> DEFINE run == DecodeLogits(Model, <<x>>, cache, fed)
             more == Embed(<<x>>)
  <2>1. fed + input.some.delta = fed
    BY <1>2, <1>3
  <2>2. cache' = run.cache /\ logits' = run.logits /\ fed' = fed + 1
    BY <1>12, <2>1 DEF Ran
  <2>3. Filled(more)
    <3>1. PICK s : s = <<x>>
      OBVIOUS
    <3>2. IsSeq(s) /\ Len(s) = 1
      BY <3>1, ShortSeqs
    <3>3. IsSeq(Embed(s)) /\ Len(Embed(s)) = 1
      BY <3>2, EmbedFacts
    <3>4. QED BY <3>1, <3>3 DEF Filled
  <2> HIDE DEF more
  <2>4. run = OnePass(Model, Fed \o more)
    <3>1. DecodeLogitsFromEmbeds(Model, more, cache, fed) = OnePass(Model, Fed \o more)
      BY <1>2, <1>5, <2>3, GoesOn
    <3>2. QED BY <3>1 DEF DecodeLogits, more
  <2> HIDE DEF run
  <2>5. Fed' = Fed \o more
    <3>1. SubSeq(embeds \o Embed(generated'), 1, fed + 1) = Fed \o more
      BY <1>8, <1>12 DEF more
    <3>2. Fed' = SubSeq(embeds \o Embed(generated'), 1, fed + 1)
      BY <1>1, <2>2 DEF Fed
    <3>3. QED BY <3>1, <3>2
  <2>6. IsSeq(generated')
    BY <1>8, <1>12
  <2>7. logits' = OnePass(Model', Fed').logits /\ cache' = OnePass(Model', Fed').cache
    BY <1>5, <2>2, <2>4, <2>5
  <2>8. fed' = Len(ids) + Len(generated') /\ fed' \in Nat /\ fed' > 0
    <3>1. PICK k \in Nat : k = Len(generated) /\ Len(generated') = k + 1
      BY <1>9, <1>12
    <3>2. PICK i \in Nat : i = Len(ids)
      BY <1>4
    <3>3. fed = i + k /\ fed' = fed + 1
      BY <1>2, <2>2, <3>1, <3>2
    <3>4. QED BY <3>1, <3>2, <3>3
  <2>9. phase' = "decode"
    BY <1>1, <1>12
  <2>10. input' = input /\ request' = request /\ fed' <= Len(ids) + Len(generated')
    BY <1>1, <2>8
  <2>11. QED BY <1>10, <2>6, <2>7, <2>8, <2>9, <2>10 DEF RunInv, Ready
<1>13. QED BY <1>6, <1>7, <1>11, <1>12

LEMMA TextNext ==
  ASSUME TextInv, [Next]_vars
  PROVE  TextInv'
<1>1. request' = request
  BY DEF Next, vars, EncodeNext, Place, PlaceCaption, PrefillMultimodal, PrefillCaption,
         PrefillText, Decode
<1>2. request' \in Requests /\ Multimodal' = Multimodal
  BY <1>1 DEF TextInv, Multimodal, Blocks
<1>3. SUFFICES ASSUME ~ Multimodal PROVE RunInv'
  BY <1>2 DEF TextInv
<1>4. RunInv /\ request \in Requests
  BY <1>3 DEF TextInv
<1>5. CASE EncodeNext
  BY <1>4, <1>5, EncodeText
<1>6. CASE Place
  BY <1>3, <1>4, <1>6, PlaceText
<1>7. CASE PlaceCaption
  BY <1>4, <1>7, PlaceCaptionText
<1>8. CASE PrefillMultimodal
  BY <1>3, <1>8 DEF PrefillMultimodal, Multimodal
<1>9. CASE PrefillCaption
  BY <1>4, <1>9, PrefillCaptionText
<1>10. CASE \E n \in 1 .. (IF Placed THEN Len(input.some.ids) ELSE 0) : PrefillText(n)
  <2>1. PICK n \in 1 .. (IF Placed THEN Len(input.some.ids) ELSE 0) : PrefillText(n)
    BY <1>10
  <2>2. n \in Nat
    OBVIOUS
  <2>3. QED BY <1>4, <2>1, <2>2, PrefillTextText
<1>11. CASE Decode
  BY <1>4, <1>11, DecodeText
<1>12. CASE UNCHANGED vars
  <2>1. Fed' = Fed /\ Model' = Model
    BY <1>12 DEF vars, Fed, Model
  <2>2. QED BY <1>4, <1>12, <2>1 DEF vars, RunInv, Ready
<1>13. QED BY <1>5, <1>6, <1>7, <1>8, <1>9, <1>10, <1>11, <1>12 DEF Next

(* What is in each sequence is in all of them joined. *)
LEMMA FlattenTyped ==
  ASSUME NEW S, NEW seqs, IsSeq(seqs), \A i \in 1 .. Len(seqs) : seqs[i] \in Seq(S)
  PROVE  FlattenSeq(seqs) \in Seq(S)
<1>1. PICK N \in Nat : N = Len(seqs)
  BY SeqFacts
<1>2. CASE N = 0
  <2>1. FlattenSeq(seqs) = seqs /\ Len(seqs) = 0
    BY <1>1, <1>2 DEF FlattenSeq
  <2>2. seqs \in Seq(S)
    BY <2>1, SeqFacts
  <2>3. QED BY <2>1, <2>2
<1>3. CASE N # 0
  <2>1. PICK a : FlattenedBy(a, seqs)
    BY <1>1, <1>3, FlattenRuns
  <2>2. FlattenSeq(seqs) = a[N]
    BY <1>1, <2>1 DEF FlattenedBy
  <2>3. \A i \in 1 .. N : a[i] = IF i = 1 THEN seqs[i] ELSE a[i - 1] \o seqs[i]
    BY <1>1, <2>1 DEF FlattenedBy
  <2> DEFINE P == {i \in 0 .. N : i = 0 \/ a[i] \in Seq(S)}
  <2>4. 0 \in P
    OBVIOUS
  <2>5. ASSUME NEW i \in 1 .. N, i - 1 \in P
        PROVE  i \in P
    <3>1. seqs[i] \in Seq(S)
      BY <1>1
    <3>2. CASE i = 1
      BY <2>3, <3>1, <3>2
    <3>3. CASE i # 1
      <4>1. a[i - 1] \in Seq(S)
        BY <2>5, <3>3
      <4>2. PICK s, t : s = a[i - 1] /\ t = seqs[i]
        OBVIOUS
      <4>3. s \o t \in Seq(S)
        BY <3>1, <4>1, <4>2
      <4>4. a[i] \in Seq(S)
        BY <2>3, <3>3, <4>2, <4>3
      <4>5. QED BY <4>4
    <3>4. QED BY <3>2, <3>3
  <2> HIDE DEF P
  <2>6. \A i \in 0 .. N : i \in P
    BY <2>4, <2>5, Climb
  <2>7. a[N] \in Seq(S)
    BY <1>3, <2>6 DEF P
  <2>8. QED BY <2>2, <2>7
<1>4. QED BY <1>2, <1>3

(* They end with the last of them. *)
LEMMA FlattenEnds ==
  ASSUME NEW seqs, IsSeq(seqs), Len(seqs) # 0, \A i \in 1 .. Len(seqs) : IsSeq(seqs[i])
  PROVE  \E before : IsSeq(before) /\ FlattenSeq(seqs) = before \o seqs[Len(seqs)]
<1>1. PICK N \in Nat : N = Len(seqs) /\ N # 0
  BY SeqFacts
<1>2. PICK last : last = seqs[N] /\ IsSeq(last)
  BY <1>1
<1>3. PICK a : FlattenedBy(a, seqs)
  BY <1>1, FlattenRuns
<1>4. FlattenSeq(seqs) = a[N]
  BY <1>1, <1>3 DEF FlattenedBy
<1>5. a[N] = IF N = 1 THEN last ELSE a[N - 1] \o last
  BY <1>1, <1>2, <1>3 DEF FlattenedBy
<1>6. CASE N = 1
  <2>1. IsSeq(<<>>) /\ <<>> \o last = last
    BY <1>2 DEF IsSeq, ToSet
  <2>2. QED BY <1>1, <1>2, <1>4, <1>5, <1>6, <2>1
<1>7. CASE N # 1
  <2> DEFINE first == [i \in 1 .. N - 1 |-> seqs[i]]
  <2>1. first = [i \in 1 .. N - 1 |-> first[i]] /\ N - 1 \in Nat
    BY <1>1
  <2>2. \A i \in 1 .. N - 1 : first[i] = seqs[i] /\ IsSeq(first[i])
    BY <1>1
  <2> HIDE DEF first
  <2>3. PICK M \in Nat : M = N - 1
    BY <2>1
  <2>4. IsSeq(first) /\ Len(first) = M
    BY <2>1, <2>3, MappedIsSeq
  <2> DEFINE P == {i \in 0 .. M : i = 0 \/ IsSeq(a[i])}
  <2>5. 0 \in P
    OBVIOUS
  <2>6. ASSUME NEW i \in 1 .. M, i - 1 \in P
        PROVE  i \in P
    <3>1. i \in 1 .. N /\ IsSeq(seqs[i])
      BY <1>1, <2>3
    <3>2. a[i] = IF i = 1 THEN seqs[i] ELSE a[i - 1] \o seqs[i]
      BY <1>1, <1>3, <3>1 DEF FlattenedBy
    <3>3. CASE i = 1
      BY <3>1, <3>2, <3>3
    <3>4. CASE i # 1
      <4>1. PICK s : s = a[i - 1] /\ IsSeq(s)
        BY <2>6, <3>4
      <4>2. PICK t : t = seqs[i] /\ IsSeq(t)
        BY <3>1
      <4>3. IsSeq(s \o t)
        BY <4>1, <4>2, JoinFacts
      <4>4. IsSeq(a[i])
        BY <3>2, <3>4, <4>1, <4>2, <4>3
      <4>5. QED BY <4>4
    <3>5. QED BY <3>3, <3>4
  <2> HIDE DEF P
  <2>7. \A i \in 0 .. M : i \in P
    BY <2>5, <2>6, Climb
  <2>8. IsSeq(a[M])
    <3>1. M \in 0 .. M /\ M # 0
      BY <1>1, <1>7, <2>3
    <3>2. QED BY <2>7, <3>1 DEF P
  <2>9. FlattenSeq(seqs) = a[M] \o seqs[Len(seqs)]
    BY <1>1, <1>2, <1>4, <1>5, <1>7, <2>3
  <2>10. QED BY <2>8, <2>9
<1>8. QED BY <1>6, <1>7

-----------------------------------------------------------------------------
(* What the processor and the tower give for a visual: whole numbers of rows. *)

LEMMA DivFacts ==
  ASSUME NEW n \in Nat, NEW d \in Nat \ {0}
  PROVE  n \div d \in Nat /\ n % d \in 0 .. d - 1 /\ n = d * (n \div d) + (n % d)
OBVIOUS

\* n is divided by d.
Divided(n, d, q, r) ==
  q \in Nat /\ r \in 0 .. d - 1 /\ q = n \div d /\ r = n % d /\ n = d * q + r

LEMMA Division ==
  ASSUME NEW n \in Nat, NEW d \in Nat \ {0}
  PROVE  \E q, r : Divided(n, d, q, r)
<1>1. Divided(n, d, n \div d, n % d)
  BY DivFacts DEF Divided
<1>2. QED BY <1>1

LEMMA ProductNat ==
  ASSUME NEW a \in Nat, NEW b \in Nat
  PROVE  a * b \in Nat
OBVIOUS

LEMMA QuotientBelow ==
  ASSUME NEW n \in Nat, NEW d \in Nat \ {0}, NEW m \in Nat, n < m * d
  PROVE  n \div d \in Nat /\ n \div d < m
<1>1. PICK q \in Nat : q = n \div d
  BY DivFacts
<1>2. PICK r \in 0 .. d - 1 : r = n % d
  BY DivFacts
<1>3. n = d * q + r
  BY <1>1, <1>2, DivFacts
<1>4. SUFFICES ASSUME q >= m PROVE FALSE
  BY <1>1
<1>5. PICK e \in Nat : q = m + e
  BY <1>4
<1>6. d * q = m * d + d * e
  BY <1>5
<1>7. d * e \in Nat /\ m * d \in Nat
  BY ProductNat
<1>8. QED BY <1>2, <1>3, <1>6, <1>7

LEMMA TimesBelow ==
  ASSUME NEW a \in Int, NEW b \in Int, a <= b, NEW c \in Nat
  PROVE  a * c <= b * c
OBVIOUS

(* Number n is the j-th of the i-th L. *)
InCell(n, T, L) == \E i \in 1 .. T, j \in 1 .. L : n = (i - 1) * L + j

LEMMA CellOf ==
  ASSUME NEW T \in Nat, NEW L \in Nat, NEW n \in 1 .. T * L
  PROVE  InCell(n, T, L)
<1>1. L # 0
  <2>1. L = 0 => T * L = 0
    OBVIOUS
  <2>2. QED BY <2>1
<1>2. n - 1 \in Nat /\ n - 1 < T * L
  <2>1. T * L \in Nat
    BY ProductNat
  <2>2. QED BY <2>1
<1>3. PICK q \in Nat : q = (n - 1) \div L /\ q < T
  BY <1>1, <1>2, QuotientBelow
<1>4. PICK r \in 0 .. L - 1 : n - 1 = L * q + r
  BY <1>1, <1>2, <1>3, DivFacts
<1>5. q + 1 \in 1 .. T /\ r + 1 \in 1 .. L
  BY <1>1, <1>3
<1>6. L * q = q * L /\ L * q \in Nat
  BY ProductNat
<1>7. n = ((q + 1) - 1) * L + (r + 1)
  BY <1>4, <1>6
<1>8. QED BY <1>5, <1>7 DEF InCell

(* Pieces of one length, one after another. *)
PiecesOf(all, seqs, T, L) ==
  /\ IsSeq(all) /\ Len(all) = T * L
  /\ \A i \in 1 .. T, j \in 1 .. L : (i - 1) * L + j \in 1 .. T * L /\ all[(i - 1) * L + j] = seqs[i][j]

LEMMA PieceAdded ==
  ASSUME NEW k \in Nat, NEW L \in Nat, NEW all, NEW piece, NEW seqs,
         PiecesOf(all, seqs, k, L), IsSeq(piece), Len(piece) = L, seqs[k + 1] = piece
  PROVE  PiecesOf(all \o piece, seqs, k + 1, L)
<1>1. IsSeq(all) /\ Len(all) = k * L
  BY DEF PiecesOf
<1>2. PICK n \in Nat : n = k * L
  BY ProductNat
<1>3. (k + 1) * L = n + L
  BY <1>2
<1>4. /\ IsSeq(all \o piece) /\ Len(all \o piece) = n + L
      /\ \A i \in 1 .. n : (all \o piece)[i] = all[i]
      /\ \A i \in 1 .. L : (all \o piece)[n + i] = piece[i]
  <2>1. /\ IsSeq(all \o piece) /\ Len(all \o piece) = Len(all) + Len(piece)
        /\ \A i \in 1 .. Len(all) : (all \o piece)[i] = all[i]
        /\ \A i \in 1 .. Len(piece) : (all \o piece)[Len(all) + i] = piece[i]
    <3>1. Parts(all \o piece, all, piece)
      BY <1>1, JoinParts
    <3>2. IsSeq(all \o piece)
      BY <3>1 DEF Parts
    <3>3. QED BY <3>1, <3>2 DEF Parts
  <2>2. Len(all) = n /\ Len(piece) = L
    BY <1>1, <1>2
  <2>3. QED BY <2>1, <2>2
<1>5. ASSUME NEW i \in 1 .. k + 1, NEW j \in 1 .. L
      PROVE  (i - 1) * L + j \in 1 .. n + L /\ (all \o piece)[(i - 1) * L + j] = seqs[i][j]
  <2>1. CASE i = k + 1
    <3>1. (i - 1) * L + j = n + j /\ n + j \in 1 .. n + L
      BY <1>2, <2>1
    <3>2. QED BY <1>4, <2>1, <3>1
  <2>2. CASE i # k + 1
    <3>1. i \in 1 .. k
      BY <2>2
    <3>2. (i - 1) * L + j \in 1 .. n /\ all[(i - 1) * L + j] = seqs[i][j]
      BY <1>2, <3>1 DEF PiecesOf
    <3>3. QED BY <1>4, <3>2
  <2>3. QED BY <2>1, <2>2
<1>6. QED BY <1>3, <1>4, <1>5 DEF PiecesOf

LEMMA FlattenPieces ==
  ASSUME NEW T \in Nat, NEW L \in Nat, NEW seqs, IsSeq(seqs), Len(seqs) = T,
         \A i \in 1 .. T : IsSeq(seqs[i]) /\ Len(seqs[i]) = L
  PROVE  PiecesOf(FlattenSeq(seqs), seqs, T, L)
<1>1. CASE T = 0
  <2>1. FlattenSeq(seqs) = seqs /\ T * L = 0
    BY <1>1 DEF FlattenSeq
  <2>2. QED BY <1>1, <2>1 DEF PiecesOf
<1>2. CASE T # 0
  <2>1. PICK a : FlattenedBy(a, seqs)
    BY <1>2, FlattenRuns
  <2>2. FlattenSeq(seqs) = a[T]
    BY <2>1 DEF FlattenedBy
  <2>3. \A i \in 1 .. T : a[i] = IF i = 1 THEN seqs[i] ELSE a[i - 1] \o seqs[i]
    BY <2>1 DEF FlattenedBy
  <2> DEFINE P == {i \in 0 .. T : i = 0 \/ PiecesOf(a[i], seqs, i, L)}
  <2>4. 0 \in P
    OBVIOUS
  <2>5. ASSUME NEW i \in 1 .. T, i - 1 \in P
        PROVE  i \in P
    <3>1. IsSeq(seqs[i]) /\ Len(seqs[i]) = L
      OBVIOUS
    <3>2. CASE i = 1
      <4>1. a[i] = seqs[1] /\ i * L = L
        BY <2>3, <3>2
      <4>2. \A k \in 1 .. i, j \in 1 .. L : (k - 1) * L + j = j /\ seqs[k] = seqs[1]
        BY <3>2
      <4>3. PiecesOf(a[i], seqs, i, L)
        BY <3>1, <3>2, <4>1, <4>2 DEF PiecesOf
      <4>4. QED BY <4>3
    <3>3. CASE i # 1
      <4>1. PICK k \in Nat : k = i - 1
        OBVIOUS
      <4>2. PiecesOf(a[k], seqs, k, L) /\ seqs[k + 1] = seqs[i] /\ k + 1 = i
        BY <2>5, <3>3, <4>1
      <4>3. a[i] = a[k] \o seqs[i]
        BY <2>3, <3>3, <4>1
      <4> HIDE DEF P
      <4>4. PiecesOf(a[k] \o seqs[i], seqs, k + 1, L)
        BY <3>1, <4>2, PieceAdded
      <4>5. PiecesOf(a[i], seqs, i, L)
        BY <4>2, <4>3, <4>4
      <4>6. QED BY <4>5 DEF P
    <3>4. QED BY <3>2, <3>3
  <2> HIDE DEF P
  <2>6. \A i \in 0 .. T : i \in P
    BY <2>4, <2>5, Climb
  <2>7. PiecesOf(a[T], seqs, T, L)
    BY <1>2, <2>6 DEF P
  <2>8. QED BY <2>2, <2>7
<1>3. QED BY <1>1, <1>2

(* One piece alone. *)
LEMMA FlattenOne ==
  ASSUME NEW x, IsSeq(x)
  PROVE  FlattenSeq(<<x>>) = x
<1>1. IsSeq(<<x>>) /\ Len(<<x>>) = 1 /\ <<x>>[1] = x
  BY ShortSeqs
<1>2. PICK a : FlattenedBy(a, <<x>>)
  BY <1>1, FlattenRuns
<1>3. QED BY <1>1, <1>2 DEF FlattenedBy

LEMMA RepeatPieces ==
  ASSUME NEW T \in Nat, NEW rows, IsSeq(rows)
  PROVE  PiecesOf(RepeatRows(rows, T), [i \in 1 .. T |-> rows], T, Len(rows))
<1> DEFINE seqs == [i \in 1 .. T |-> rows]
<1>1. seqs = [i \in 1 .. T |-> seqs[i]] /\ \A i \in 1 .. T : seqs[i] = rows
  OBVIOUS
<1>2. Len(rows) \in Nat
  BY SeqFacts
<1>3. RepeatRows(rows, T) = FlattenSeq(seqs)
  BY DEF RepeatRows
<1> HIDE DEF seqs
<1>4. IsSeq(seqs) /\ Len(seqs) = T
  BY <1>1, MappedIsSeq
<1>5. PiecesOf(FlattenSeq(seqs), seqs, T, Len(rows))
  BY <1>1, <1>2, <1>4, FlattenPieces
<1>6. QED BY <1>3, <1>5 DEF seqs

-----------------------------------------------------------------------------
(* Where a cell falls on a side of the learned grid. *)
LinOk(l, k, len, side) ==
  /\ l.floor \in 0 .. side - 1 /\ l.ceil \in 0 .. side - 1
  /\ l.frac \in Nat /\ l.unit \in Nat /\ l.unit = AtLeast(1, len - 1)
  /\ l.floor * (l.unit - l.frac) + l.ceil * l.frac = IF len = 1 THEN 0 ELSE (side - 1) * k

LEMMA LinFacts ==
  ASSUME NEW len \in Nat, NEW k \in 0 .. len - 1, NEW side \in Nat \ {0}
  PROVE  LinOk(Lin(k, len, side), k, len, side)
<1>1. PICK u \in Nat \ {0} : u = AtLeast(len - 1, 1) /\ u = AtLeast(1, len - 1)
  BY DEF AtLeast
<1>2. PICK s \in Nat : s = side - 1
  OBVIOUS
<1>3. PICK at \in Nat : at = (IF len = 1 THEN 0 ELSE (side - 1) * k) /\ at <= s * u
  <2>1. CASE len = 1
    BY <1>1, <1>2, <2>1, ProductNat
  <2>2. CASE len # 1
    <3>1. u = len - 1 /\ k <= u
      BY <1>1, <2>2 DEF AtLeast
    <3>2. k * s <= u * s /\ s * k = k * s /\ s * u = u * s
      BY <1>1, <1>2, <3>1, TimesBelow
    <3>3. s * k \in Nat
      BY <1>2, ProductNat
    <3>4. QED BY <1>2, <2>2, <3>2, <3>3
  <2>3. QED BY <2>1, <2>2
<1>4. at < side * u
  <2>1. side * u = s * u + u
    BY <1>2
  <2>2. s * u \in Nat
    BY <1>2, ProductNat
  <2>3. QED BY <1>3, <2>1, <2>2
<1>5. PICK f \in Nat : f = at \div u /\ f < side
  BY <1>4, QuotientBelow
<1>6. PICK r \in 0 .. u - 1 : r = at % u /\ at = u * f + r
  <2>1. PICK q, r : Divided(at, u, q, r)
    BY Division
  <2>2. QED BY <1>5, <2>1 DEF Divided
<1>7. PICK c \in Nat : c = AtMost(f + 1, side - 1) /\ c <= s
  BY <1>2, <1>5 DEF AtMost
<1>8. f * (u - r) + c * r = at
  <2>1. f * (u - r) = u * f - f * r
    OBVIOUS
  <2>2. CASE f + 1 <= s
    <3>1. c = f + 1
      BY <1>2, <1>7, <2>2 DEF AtMost
    <3>2. c * r = f * r + r
      BY <3>1
    <3>3. f * r \in Int /\ u * f \in Int
      OBVIOUS
    <3>4. QED BY <1>6, <2>1, <3>2, <3>3
  <2>3. CASE f = s
    <3>1. r = 0
      <4>1. u * f = s * u /\ s * u \in Nat
        BY <2>3, ProductNat
      <4>2. QED BY <1>3, <1>6, <4>1
    <3>2. f * (u - r) = u * f /\ c * r = 0 /\ u * f \in Int
      BY <3>1
    <3>3. QED BY <1>6, <3>1, <3>2
  <2>4. QED BY <1>2, <1>5, <2>2, <2>3
<1>9. Lin(k, len, side) = [floor |-> f, ceil |-> c, frac |-> r, unit |-> u]
  <2>1. PICK a, v : a = (IF len = 1 THEN 0 ELSE (side - 1) * k) /\ v = AtLeast(len - 1, 1)
    OBVIOUS
  <2>2. Lin(k, len, side) = [floor |-> a \div v, ceil |-> AtMost(a \div v + 1, side - 1),
                             frac |-> a % v, unit |-> v]
    BY <2>1 DEF Lin
  <2>3. QED BY <1>1, <1>3, <1>5, <1>6, <1>7, <2>1, <2>2
<1>10. f \in 0 .. side - 1 /\ c \in 0 .. side - 1
  BY <1>2, <1>5, <1>7
<1>11. QED BY <1>1, <1>3, <1>6, <1>8, <1>9, <1>10 DEF LinOk

(* The weights of the four corners, taken along one side. *)
LEMMA WholeWeight ==
  ASSUME NEW u \in Int, NEW f \in Int, NEW v \in Int, NEW e \in Int
  PROVE  (u - f) * (v - e) + (u - f) * e + f * (v - e) + f * e = u * v
<1>1. (u - f) * (v - e) + (u - f) * e = (u - f) * v
  OBVIOUS
<1>2. f * (v - e) + f * e = f * v
  OBVIOUS
<1>3. (u - f) * v + f * v = u * v
  OBVIOUS
<1>4. PICK w \in Int, x \in Int, y \in Int, z \in Int :
        /\ w = (u - f) * (v - e) /\ x = (u - f) * e /\ y = f * (v - e) /\ z = f * e
  OBVIOUS
<1>5. w + x + y + z = u * v
  BY <1>1, <1>2, <1>3, <1>4
<1>6. QED BY <1>4, <1>5

LEMMA MeanOfCorners ==
  ASSUME NEW p \in Int, NEW q \in Int, NEW u \in Int, NEW f \in Int, NEW v \in Int, NEW e \in Int,
         NEW at \in Int, p * (u - f) + q * f = at
  PROVE  (p * ((u - f) * (v - e)) + p * ((u - f) * e) + q * (f * (v - e)) + q * (f * e)) * u
           = at * ((u - f) * (v - e) + (u - f) * e + f * (v - e) + f * e)
<1>1. (u - f) * (v - e) + (u - f) * e + f * (v - e) + f * e = u * v
  BY WholeWeight
<1>2. p * ((u - f) * (v - e)) + p * ((u - f) * e) = (p * (u - f)) * v
  OBVIOUS
<1>3. q * (f * (v - e)) + q * (f * e) = (q * f) * v
  OBVIOUS
<1>4. (p * (u - f)) * v + (q * f) * v = at * v
  <2>1. (p * (u - f) + q * f) * v = (p * (u - f)) * v + (q * f) * v
    OBVIOUS
  <2>2. QED BY <2>1
<1>5. (at * v) * u = at * (u * v)
  OBVIOUS
<1>6. PICK a \in Int, b \in Int, c \in Int, d \in Int :
        /\ a = p * ((u - f) * (v - e)) /\ b = p * ((u - f) * e)
        /\ c = q * (f * (v - e)) /\ d = q * (f * e)
  OBVIOUS
<1>7. a + b + c + d = at * v
  BY <1>2, <1>3, <1>4, <1>6
<1>8. PICK w \in Int, x \in Int, y \in Int, z \in Int :
        /\ w = (u - f) * (v - e) /\ x = (u - f) * e /\ y = f * (v - e) /\ z = f * e
  OBVIOUS
<1>9. w + x + y + z = u * v
  BY <1>1, <1>8
<1>10. (a + b + c + d) * u = at * (w + x + y + z)
  BY <1>5, <1>7, <1>9
<1>11. QED BY <1>6, <1>8, <1>10

LEMMA QuotientOf ==
  ASSUME NEW d \in Nat \ {0}, NEW q \in Nat, NEW r \in 0 .. d - 1
  PROVE  q * d + r \in Nat /\ (q * d + r) \div d = q /\ (q * d + r) % d = r
<1>1. PICK n \in Nat : n = q * d + r
  BY ProductNat
<1>2. PICK a \in Nat : a = n \div d
  BY DivFacts
<1>3. PICK b \in 0 .. d - 1 : b = n % d /\ n = d * a + b
  BY <1>2, DivFacts
<1>4. a = q
  <2>1. CASE a > q
    <3>1. PICK e \in Nat : a = q + 1 + e
      BY <2>1
    <3>2. d * a = q * d + d + d * e
      BY <3>1
    <3>3. d * e \in Nat /\ q * d \in Nat
      BY ProductNat
    <3>4. QED BY <1>1, <1>3, <3>2, <3>3
  <2>2. CASE a < q
    <3>1. PICK e \in Nat : q = a + 1 + e
      BY <2>2
    <3>2. q * d = d * a + d + e * d
      BY <3>1
    <3>3. e * d \in Nat /\ d * a \in Nat
      BY ProductNat
    <3>4. QED BY <1>1, <1>3, <3>2, <3>3
  <2>3. QED BY <2>1, <2>2
<1>5. b = r
  <2>1. d * a = q * d /\ q * d \in Nat
    BY <1>4, ProductNat
  <2>2. QED BY <1>1, <1>3, <2>1
<1>6. QED BY <1>1, <1>2, <1>3, <1>4, <1>5

(* The corners of a cell of a grid meet at the place of the cell. *)
PlacedByCorners(corners, row, col, h, w) ==
  LET side == Geometry.side
  IN  /\ Centred(corners, row, h, <<corners[1][1] \div side, corners[2][1] \div side,
                                   corners[3][1] \div side, corners[4][1] \div side>>)
      /\ Centred(corners, col, w, <<corners[1][1] % side, corners[2][1] % side,
                                   corners[3][1] % side, corners[4][1] % side>>)
      /\ Weighed(corners, <<1, 1, 1, 1>>) = AtLeast(1, h - 1) * AtLeast(1, w - 1)

LEMMA CornersMeet ==
  ASSUME NEW h \in Nat, NEW w \in Nat, NEW row \in 0 .. h - 1, NEW col \in 0 .. w - 1,
         Geometry.side \in Nat \ {0}
  PROVE  PlacedByCorners(Corners(row * w + col, h, w, Geometry.side), row, col, h, w)
<1>1. PICK side \in Nat \ {0} : side = Geometry.side
  OBVIOUS
<1>2. PICK y, x : y = Lin(row, h, side) /\ x = Lin(col, w, side)
  OBVIOUS
<1>3. LinOk(y, row, h, side) /\ LinOk(x, col, w, side)
  BY <1>2, LinFacts
<1>4. Corners(row * w + col, h, w, Geometry.side) = CornersAt(y, x, side)
  <2>1. w \in Nat \ {0} /\ row \in Nat
    OBVIOUS
  <2>2. (row * w + col) \div w = row /\ (row * w + col) % w = col
    BY <2>1, QuotientOf
  <2>3. QED BY <1>1, <1>2, <2>2 DEF Corners
<1>5. PICK y0 \in 0 .. side - 1, y1 \in 0 .. side - 1, f \in Nat, u \in Nat :
        /\ y0 = y.floor /\ y1 = y.ceil /\ f = y.frac /\ u = y.unit
        /\ u = AtLeast(1, h - 1)
        /\ y0 * (u - f) + y1 * f = IF h = 1 THEN 0 ELSE (side - 1) * row
  BY <1>3 DEF LinOk
<1>6. PICK x0 \in 0 .. side - 1, x1 \in 0 .. side - 1, e \in Nat, v \in Nat :
        /\ x0 = x.floor /\ x1 = x.ceil /\ e = x.frac /\ v = x.unit
        /\ v = AtLeast(1, w - 1)
        /\ x0 * (v - e) + x1 * e = IF w = 1 THEN 0 ELSE (side - 1) * col
  BY <1>3 DEF LinOk
<1>7. PICK corners : corners = CornersAt(y, x, side)
  OBVIOUS
<1>8. /\ corners[1] = <<y0 * side + x0, (u - f) * (v - e)>>
      /\ corners[2] = <<y0 * side + x1, (u - f) * e>>
      /\ corners[3] = <<y1 * side + x0, f * (v - e)>>
      /\ corners[4] = <<y1 * side + x1, f * e>>
  BY <1>5, <1>6, <1>7 DEF CornersAt
<1>9. /\ corners[1][1] \div side = y0 /\ corners[1][1] % side = x0
      /\ corners[2][1] \div side = y0 /\ corners[2][1] % side = x1
      /\ corners[3][1] \div side = y1 /\ corners[3][1] % side = x0
      /\ corners[4][1] \div side = y1 /\ corners[4][1] % side = x1
  <2>1. \A a, b \in 0 .. side - 1 : (a * side + b) \div side = a /\ (a * side + b) % side = b
    BY QuotientOf
  <2>2. /\ corners[1][1] = y0 * side + x0 /\ corners[2][1] = y0 * side + x1
        /\ corners[3][1] = y1 * side + x0 /\ corners[4][1] = y1 * side + x1
    BY <1>8
  <2>3. QED BY <2>1, <2>2
<1>10. PICK a \in Int, b \in Int, c \in Int, d \in Int :
         /\ a = (u - f) * (v - e) /\ b = (u - f) * e /\ c = f * (v - e) /\ d = f * e
  OBVIOUS
<1>11. \A p, q : Weighed(corners, <<p, p, q, q>>) = p * a + p * b + q * c + q * d
  BY <1>8, <1>10 DEF Weighed
<1>12. \A p, q : Weighed(corners, <<p, q, p, q>>) = p * a + q * b + p * c + q * d
  BY <1>8, <1>10 DEF Weighed
<1>13. Weighed(corners, <<1, 1, 1, 1>>) = a + b + c + d
  BY <1>11
<1>14. PICK at \in Int : at = IF h = 1 THEN 0 ELSE (side - 1) * row
  OBVIOUS
<1>15. PICK to \in Int : to = IF w = 1 THEN 0 ELSE (side - 1) * col
  OBVIOUS
<1>16. (y0 * a + y0 * b + y1 * c + y1 * d) * u = at * (a + b + c + d)
  <2>1. y0 * (u - f) + y1 * f = at
    BY <1>5, <1>14
  <2>2. (y0 * ((u - f) * (v - e)) + y0 * ((u - f) * e) + y1 * (f * (v - e)) + y1 * (f * e)) * u
          = at * ((u - f) * (v - e) + (u - f) * e + f * (v - e) + f * e)
    BY <2>1, MeanOfCorners
  <2>3. QED BY <1>10, <2>2
<1>17. (x0 * a + x1 * b + x0 * c + x1 * d) * v = to * (a + b + c + d)
  <2>1. x0 * (v - e) + x1 * e = to
    BY <1>6, <1>15
  <2>2. (x0 * ((v - e) * (u - f)) + x0 * ((v - e) * f) + x1 * (e * (u - f)) + x1 * (e * f)) * v
          = to * ((v - e) * (u - f) + (v - e) * f + e * (u - f) + e * f)
    BY <2>1, MeanOfCorners
  <2>3. a = (v - e) * (u - f) /\ b = e * (u - f) /\ c = (v - e) * f /\ d = e * f
    BY <1>10
  <2>4. (x0 * a + x0 * c + x1 * b + x1 * d) * v = to * (a + c + b + d)
    BY <2>2, <2>3
  <2>5. x0 * a + x0 * c + x1 * b + x1 * d = x0 * a + x1 * b + x0 * c + x1 * d
        /\ a + c + b + d = a + b + c + d
    OBVIOUS
  <2>6. QED BY <2>4, <2>5
<1>18. Centred(corners, row, h, <<y0, y0, y1, y1>>)
  BY <1>1, <1>5, <1>11, <1>13, <1>14, <1>16 DEF Centred
<1>19. Centred(corners, col, w, <<x0, x1, x0, x1>>)
  BY <1>1, <1>6, <1>12, <1>13, <1>15, <1>17 DEF Centred
<1>20. Weighed(corners, <<1, 1, 1, 1>>) = AtLeast(1, h - 1) * AtLeast(1, w - 1)
  <2>1. (u - f) * (v - e) + (u - f) * e + f * (v - e) + f * e = u * v
    BY WholeWeight
  <2>2. a + b + c + d = u * v
    BY <1>10, <2>1
  <2>3. QED BY <1>5, <1>6, <1>13, <2>2
<1>21. PlacedByCorners(corners, row, col, h, w)
  BY <1>1, <1>9, <1>18, <1>19, <1>20 DEF PlacedByCorners
<1>22. QED BY <1>4, <1>7, <1>21

-----------------------------------------------------------------------------
(* vision_cu_seqlens of one grid, and what a row of it may attend to. *)
Cumulates(cu, T, L) ==
  /\ cu = [k \in 1 .. T + 1 |-> cu[k]]
  /\ \A k \in 1 .. T + 1 : cu[k] = (k - 1) * L

LEMMA CuFacts ==
  ASSUME NEW T \in Nat, NEW h \in Nat, NEW w \in Nat, NEW L \in Nat, L = h * w
  PROVE  Cumulates(CuSeqlens(<<<<T, h, w>>>>), T, L)
<1> DEFINE frames == [f \in 1 .. T |-> L]
           Is(cu) == cu = [k \in 1 .. T + 1 |-> IF k = 1 THEN 0 ELSE cu[k - 1] + frames[k - 1]]
<1>1. IsSeq(frames) /\ Len(frames) = T
  <2>1. frames = [f \in 1 .. T |-> frames[f]]
    OBVIOUS
  <2> HIDE DEF frames
  <2>2. QED BY <2>1, MappedIsSeq
<1>2. CuSeqlens(<<<<T, h, w>>>>) = CHOOSE cu : Is(cu)
  <2> DEFINE grids == <<<<T, h, w>>>>
             parts == [i \in DOMAIN grids |-> [f \in 1 .. grids[i][1] |-> grids[i][2] * grids[i][3]]]
  <2>1. parts = <<frames>>
    OBVIOUS
  <2> HIDE DEF frames
  <2>2. FlattenSeq(parts) = frames
    BY <1>1, <2>1, FlattenOne
  <2>3. PICK all : all = FlattenSeq(parts)
    OBVIOUS
  <2>4. CuSeqlens(grids) =
          CHOOSE cu : cu = [k \in 1 .. Len(all) + 1 |-> IF k = 1 THEN 0 ELSE cu[k - 1] + all[k - 1]]
    BY <2>3 DEF CuSeqlens
  <2>5. all = frames /\ Len(all) = T
    BY <1>1, <2>2, <2>3
  <2>6. QED BY <2>4, <2>5
<1>3. \E cu : Is(cu)
  <2> DEFINE cu == [k \in 1 .. T + 1 |-> (k - 1) * L]
  <2>1. ASSUME NEW k \in 1 .. T + 1
        PROVE  cu[k] = IF k = 1 THEN 0 ELSE cu[k - 1] + frames[k - 1]
    <3>1. CASE k = 1
      BY <3>1
    <3>2. CASE k # 1
      <4>1. k - 1 \in 1 .. T
        BY <3>2
      <4>2. cu[k - 1] = (k - 2) * L /\ frames[k - 1] = L /\ cu[k] = (k - 1) * L
        BY <4>1
      <4>3. (k - 1) * L = (k - 2) * L + L
        OBVIOUS
      <4>4. QED BY <3>2, <4>2, <4>3
    <3>3. QED BY <3>1, <3>2
  <2>2. cu = [k \in 1 .. T + 1 |-> cu[k]]
    OBVIOUS
  <2> HIDE DEF cu, frames
  <2>3. Is(cu)
    BY <2>1, <2>2
  <2>4. QED BY <2>3
<1>4. PICK cu : cu = CuSeqlens(<<<<T, h, w>>>>) /\ Is(cu)
  <2> HIDE DEF Is
  <2>1. QED BY <1>2, <1>3
<1>5. \A k \in 1 .. T + 1 : cu[k] = IF k = 1 THEN 0 ELSE cu[k - 1] + L
  <2>1. ASSUME NEW k \in 1 .. T + 1
        PROVE  cu[k] = IF k = 1 THEN 0 ELSE cu[k - 1] + L
    <3>1. k # 1 => frames[k - 1] = L
      OBVIOUS
    <3> HIDE DEF frames
    <3>2. cu[k] = IF k = 1 THEN 0 ELSE cu[k - 1] + frames[k - 1]
      BY <1>4
    <3>3. QED BY <3>1, <3>2
  <2>2. QED BY <2>1
<1>6. cu = [k \in 1 .. T + 1 |-> cu[k]]
  BY <1>4
<1> DEFINE P == {k \in 0 .. T : cu[k + 1] = k * L}
<1>7. \A k \in 0 .. T : k \in P
  <2>1. 0 \in P
    BY <1>5
  <2>2. ASSUME NEW k \in 1 .. T, k - 1 \in P
        PROVE  k \in P
    <3>1. cu[(k - 1) + 1] = (k - 1) * L /\ k + 1 \in 1 .. T + 1 /\ (k + 1) - 1 = (k - 1) + 1
      BY <2>2
    <3>2. cu[k + 1] = (k - 1) * L + L
      BY <1>5, <3>1
    <3>3. (k - 1) * L + L = k * L
      OBVIOUS
    <3>4. QED BY <3>2, <3>3
  <2> HIDE DEF P
  <2>3. QED BY <2>1, <2>2, Climb
<1>8. ASSUME NEW k \in 1 .. T + 1
      PROVE  cu[k] = (k - 1) * L
  <2>1. k - 1 \in P /\ (k - 1) + 1 = k
    BY <1>7
  <2>2. QED BY <2>1
<1>9. QED BY <1>4, <1>6, <1>8 DEF Cumulates

LEMMA StepEnds ==
  ASSUME NEW k \in Nat \ {0}, NEW L \in Nat
  PROVE  (k - 1) * L \in Nat /\ k * L \in Nat /\ (k - 1) * L + L = k * L
<1>1. PICK e \in Nat : e = k - 1
  OBVIOUS
<1>2. e * L \in Nat /\ k * L \in Nat
  BY ProductNat
<1>3. k * L = e * L + L
  BY <1>1
<1>4. QED BY <1>1, <1>2, <1>3

LEMMA StepsApart ==
  ASSUME NEW k \in Nat, NEW d \in Nat, d < k, NEW L \in Nat
  PROVE  d * L <= (k - 1) * L
<1>1. PICK e \in Nat : e = k - 1 /\ d <= e
  OBVIOUS
<1>2. d * L <= e * L
  BY <1>1, TimesBelow
<1>3. QED BY <1>1, <1>2

LEMMA CellIn ==
  ASSUME NEW T \in Nat, NEW L \in Nat, NEW k \in 1 .. T, NEW c \in 1 .. L
  PROVE  (k - 1) * L + c \in 1 .. T * L
<1>1. PICK x \in Nat, y \in Nat : x = (k - 1) * L /\ y = k * L /\ x + L = y
  BY StepEnds
<1>2. PICK z \in Nat : z = T * L
  BY ProductNat
<1>3. k * L <= T * L
  BY TimesBelow
<1>4. y <= z
  BY <1>1, <1>2, <1>3
<1>5. x + c \in 1 .. z
  BY <1>1, <1>4
<1>6. QED BY <1>1, <1>2, <1>5

LEMMA InOneStep ==
  ASSUME NEW k \in Nat \ {0}, NEW d \in Nat \ {0}, NEW L \in Nat, NEW x \in Nat,
         (k - 1) * L < x, x <= k * L, (d - 1) * L < x, x <= d * L
  PROVE  d = k
<1>1. CASE d < k
  <2>1. d * L <= (k - 1) * L
    BY <1>1, StepsApart
  <2>2. d * L \in Nat /\ (k - 1) * L \in Nat
    BY StepEnds
  <2>3. QED BY <2>1, <2>2
<1>2. CASE k < d
  <2>1. k * L <= (d - 1) * L
    BY <1>2, StepsApart
  <2>2. k * L \in Nat /\ (d - 1) * L \in Nat
    BY StepEnds
  <2>3. QED BY <2>1, <2>2
<1>3. QED BY <1>1, <1>2

LEMMA CumulatesAt ==
  ASSUME NEW T \in Nat, NEW L \in Nat, NEW cu, Cumulates(cu, T, L), NEW k \in 1 .. T
  PROVE  cu[k] = (k - 1) * L /\ cu[k + 1] = k * L
<1>1. k \in 1 .. T + 1 /\ k + 1 \in 1 .. T + 1 /\ (k + 1) - 1 = k
  OBVIOUS
<1>2. cu[k] = (k - 1) * L
  BY <1>1 DEF Cumulates
<1>3. cu[k + 1] = ((k + 1) - 1) * L
  BY <1>1 DEF Cumulates
<1>4. QED BY <1>1, <1>2, <1>3

(* A row attends to rows of its own time step, itself among them. *)
LEMMA AttendsOwn ==
  ASSUME NEW T \in Nat, NEW L \in Nat, NEW cu, Cumulates(cu, T, L),
         NEW i \in 1 .. T, NEW b \in 1 .. L
  PROVE  LET r == (i - 1) * L + b
         IN  /\ r \in Attends(cu, T * L, r)
             /\ \A j \in Attends(cu, T * L, r) : j \in 1 .. T * L
             /\ \A k \in 1 .. T, c \in 1 .. L : (k - 1) * L + c \in Attends(cu, T * L, r) => k = i
<1> DEFINE Block(j) == CHOOSE k \in 1 .. Len(cu) - 1 : cu[k] < j /\ j <= cu[k + 1]
           r == (i - 1) * L + b
<1>1. Len(cu) = T + 1
  <2>1. PICK n \in Nat : n = T + 1
    OBVIOUS
  <2>2. cu = [k \in 1 .. n |-> cu[k]]
    BY <2>1 DEF Cumulates
  <2>3. QED BY <2>1, <2>2, MappedIsSeq
<1>2. \A k \in 1 .. T, c \in 1 .. L : (k - 1) * L + c \in 1 .. T * L
  BY CellIn
<1>3. ASSUME NEW k \in 1 .. T, NEW c \in 1 .. L
      PROVE  Block((k - 1) * L + c) = k
  <2>1. PICK x \in Nat : x = (k - 1) * L + c
    BY <1>2
  <2>2. cu[k] < x /\ x <= cu[k + 1]
    <3>1. cu[k] = (k - 1) * L /\ cu[k + 1] = k * L
      BY CumulatesAt
    <3>2. PICK y \in Nat, z \in Nat : y = (k - 1) * L /\ z = k * L /\ y + L = z
      BY StepEnds
    <3>3. QED BY <2>1, <3>1, <3>2
  <2>3. ASSUME NEW d \in 1 .. T, cu[d] < x, x <= cu[d + 1]
        PROVE  d = k
    <3>1. /\ cu[k] = (k - 1) * L /\ cu[k + 1] = k * L
          /\ cu[d] = (d - 1) * L /\ cu[d + 1] = d * L
      BY CumulatesAt
    <3>2. (k - 1) * L < x /\ x <= k * L /\ (d - 1) * L < x /\ x <= d * L
      BY <2>2, <2>3, <3>1
    <3>3. k \in Nat \ {0} /\ d \in Nat \ {0}
      OBVIOUS
    <3>4. QED BY <3>2, <3>3, InOneStep
  <2>4. Block(x) = k
    BY <1>1, <2>2, <2>3
  <2>5. QED BY <2>1, <2>4
<1>4. PICK n \in Nat : n = T * L
  BY ProductNat
<1>5. r \in 1 .. n
  BY <1>2, <1>4
<1>6. CASE T = 1
  <2>1. Attends(cu, n, r) = 1 .. n
    BY <1>1, <1>6 DEF Attends
  <2>2. QED BY <1>4, <1>5, <1>6, <2>1
<1>7. CASE T # 1
  <2>1. Attends(cu, n, r) = {j \in 1 .. n : Block(j) = Block(r)}
    <3>1. ~ (Len(cu) <= 2)
      BY <1>1, <1>7
    <3> HIDE DEF r
    <3>2. QED BY <3>1 DEF Attends
  <2> HIDE DEF Block
  <2>2. ASSUME NEW k \in 1 .. T, NEW c \in 1 .. L, (k - 1) * L + c \in Attends(cu, n, r)
        PROVE  k = i
    <3>1. Block(r) = i /\ Block((k - 1) * L + c) = k
      BY <1>3
    <3>2. Block((k - 1) * L + c) = Block(r)
      <4> HIDE DEF r
      <4>1. QED BY <2>1, <2>2
    <3>3. QED BY <3>1, <3>2
  <2>3. r \in Attends(cu, n, r) /\ \A j \in Attends(cu, n, r) : j \in 1 .. n
    BY <1>5, <2>1
  <2>4. QED BY <1>4, <2>2, <2>3
<1>8. QED BY <1>6, <1>7

-----------------------------------------------------------------------------
(* The cells of a grid of a by b merged blocks, in the order of the blocks. *)
LEMMA CellBelow ==
  ASSUME NEW a \in Nat, NEW m \in Nat \ {0}, NEW i \in 0 .. a - 1, NEW j \in 0 .. m - 1
  PROVE  i * m + j \in 0 .. a * m - 1
<1>1. PICK k \in Nat \ {0} : k = i + 1 /\ k <= a
  OBVIOUS
<1>2. (k - 1) * m \in Nat /\ k * m \in Nat /\ (k - 1) * m + m = k * m
  BY StepEnds
<1>3. k * m <= a * m /\ a * m \in Nat
  BY <1>1, TimesBelow, ProductNat
<1>4. k - 1 = i
  BY <1>1
<1>5. PICK x \in Nat, y \in Nat, z \in Nat :
        x = (k - 1) * m /\ y = k * m /\ z = a * m /\ x + m = y /\ y <= z
  BY <1>2, <1>3
<1>6. x + j \in 0 .. z - 1
  BY <1>5
<1>7. QED BY <1>4, <1>5, <1>6

(* How many cells there are, counted in rows or in merged blocks. *)
LEMMA CellCount ==
  ASSUME NEW a \in Nat, NEW b \in Nat, NEW m \in Nat \ {0}
  PROVE  /\ a * b * m * m \in Nat /\ b * m * m \in Nat /\ m * m \in Nat \ {0}
         /\ a * m \in Nat /\ b * m \in Nat
         /\ a * b * m * m = a * (b * m * m)
         /\ a * b * m * m = (a * m) * (b * m)
         /\ a * b * m * m = (a * b) * (m * m)
         /\ (a * m) \div m = a /\ (b * m) \div m = b
<1>1. a * m \in Nat /\ b * m \in Nat /\ a * b \in Nat /\ m * m \in Nat \ {0}
  BY ProductNat
<1>2. (b * m) * m \in Nat /\ (a * b) * m \in Nat
  BY <1>1, ProductNat
<1>3. ((a * b) * m) * m \in Nat
  BY <1>2, ProductNat
<1>4. ((a * b) * m) * m = a * ((b * m) * m)
  OBVIOUS
<1>5. ((a * b) * m) * m = (a * m) * (b * m)
  OBVIOUS
<1>6. ((a * b) * m) * m = (a * b) * (m * m)
  OBVIOUS
<1>7. ASSUME NEW x \in Nat
      PROVE  (x * m) \div m = x
  <2>1. x * m \in Nat /\ 0 \in 0 .. m - 1 /\ x * m + 0 = x * m
    BY ProductNat
  <2>2. (x * m + 0) \div m = x
    BY QuotientOf, <2>1
  <2>3. QED BY <2>1, <2>2
<1>8. QED BY <1>1, <1>2, <1>3, <1>4, <1>5, <1>6, <1>7

(* The n cells of such a grid in order. *)
Blocked(order, n, a, b, m) ==
  /\ n = a * b * m * m
  /\ order = BlockOrder(a * m, b * m, m)
OfBlocks(grid, T, a, b, m) == grid = <<T, a * m, b * m>>

Cell(order, m, j) == <<order[j].a * m + order[j].b, order[j].c * m + order[j].d>>

LEMMA OrderDomain ==
  ASSUME NEW a \in Nat, NEW b \in Nat, NEW m \in Nat \ {0}, NEW n, NEW order, Blocked(order, n, a, b, m)
  PROVE  n \in Nat /\ DOMAIN order = 1 .. n
<1>1. (a * m) \div m = a /\ (b * m) \div m = b /\ a * b * m * m \in Nat
  BY CellCount
<1>2. QED BY <1>1 DEF Blocked, BlockOrder

LEMMA OrderCells ==
  ASSUME NEW a \in Nat, NEW b \in Nat, NEW m \in Nat \ {0}, NEW n, NEW order, Blocked(order, n, a, b, m),
         NEW j \in 1 .. n
  PROVE  /\ {order[j].a, order[j].b, order[j].c, order[j].d} \subseteq Nat
         /\ Cell(order, m, j)[1] \in 0 .. a * m - 1
         /\ Cell(order, m, j)[2] \in 0 .. b * m - 1
<1>1. PICK d \in Nat, s \in Nat \ {0} : d = b * m * m /\ s = m * m /\ n = a * d
  BY CellCount DEF Blocked
<1>2. (a * m) \div m = a /\ (b * m) \div m = b
  BY CellCount
<1>3. order = [k \in 1 .. n |-> [a |-> (k - 1) \div d, c |-> ((k - 1) \div s) % b,
                                 b |-> ((k - 1) \div m) % m, d |-> (k - 1) % m]]
  BY <1>1, <1>2 DEF Blocked, BlockOrder
<1>4. PICK k \in Nat : k = j - 1 /\ k < n
  BY OrderDomain
<1>5. d # 0
  <2>1. d = 0 => a * d = 0
    OBVIOUS
  <2>2. QED BY <1>1, <1>4, <2>1
<1>6. b # 0
  <2>1. b = 0 => b * m * m = 0
    OBVIOUS
  <2>2. QED BY <1>1, <1>5, <2>1
<1>7. PICK x \in 0 .. a - 1 : x = k \div d
  <2>1. k \div d \in Nat /\ k \div d < a
    BY <1>1, <1>4, <1>5, QuotientBelow
  <2>2. QED BY <2>1
<1>8. k \div s \in Nat /\ k \div m \in Nat
  BY DivFacts
<1>9. PICK y \in 0 .. b - 1 : y = (k \div s) % b
  BY <1>6, <1>8, DivFacts
<1>10. PICK u \in 0 .. m - 1 : u = (k \div m) % m
  BY <1>8, DivFacts
<1>11. PICK v \in 0 .. m - 1 : v = k % m
  BY DivFacts
<1>12. order[j] = [a |-> x, c |-> y, b |-> u, d |-> v]
  BY <1>3, <1>4, <1>7, <1>9, <1>10, <1>11
<1>13. x * m + u \in 0 .. a * m - 1 /\ y * m + v \in 0 .. b * m - 1
  BY CellBelow
<1>14. QED BY <1>12, <1>13 DEF Cell

-----------------------------------------------------------------------------
(* One grid in the tower: the rows the processor cut, and what vision_bilinear *)
(* and vision_position_ids give for them.                                      *)
PatchAt(frames, cell) == [frames |-> frames, row |-> cell[1], col |-> cell[2]]

IsStep(rows, g, m, grid, frames) == m = g.merge /\ rows = StepRows(g, grid, frames)

CutInto(rows, n, m, order, frames) ==
  /\ IsSeq(rows) /\ Len(rows) = n
  /\ \A j \in 1 .. n : rows[j] = PatchAt(frames, Cell(order, m, j))

LEMMA StepCells ==
  ASSUME NEW g, NEW m \in Nat \ {0}, NEW T, NEW a \in Nat, NEW b \in Nat,
         NEW n, NEW order, Blocked(order, n, a, b, m), NEW grid, OfBlocks(grid, T, a, b, m),
         NEW frames, NEW rows, IsStep(rows, g, m, grid, frames)
  PROVE  CutInto(rows, n, m, order, frames)
<1>1. n \in Nat /\ DOMAIN order = 1 .. n
  BY OrderDomain
<1>2. grid[2] = a * m /\ grid[3] = b * m
  BY DEF OfBlocks
<1>3. order = BlockOrder(grid[2], grid[3], g.merge)
  BY <1>2 DEF Blocked, IsStep
<1>4. rows = [j \in DOMAIN order |-> [frames |-> frames, row |-> order[j].a * m + order[j].b,
                                      col |-> order[j].c * m + order[j].d]]
  BY <1>3 DEF IsStep, StepRows
<1>5. \A j : PatchAt(frames, Cell(order, m, j))
               = [frames |-> frames, row |-> order[j].a * m + order[j].b,
                  col |-> order[j].c * m + order[j].d]
  BY DEF PatchAt, Cell
<1>6. rows = [j \in 1 .. n |-> rows[j]]
  BY <1>1, <1>4
<1>7. IsSeq(rows) /\ Len(rows) = n
  BY <1>1, <1>6, MappedIsSeq
<1>8. QED BY <1>1, <1>4, <1>5, <1>7 DEF CutInto

(* The rows of T time steps, each the frames F[i] cut into cells. *)
CutBy(rows, g, grid, T, F) == rows = FlattenSeq([i \in 1 .. T |-> StepRows(g, grid, F[i])])

LEMMA CutRows ==
  ASSUME NEW g, NEW m \in Nat \ {0}, m = g.merge, NEW T \in Nat, NEW a \in Nat, NEW b \in Nat,
         NEW n, NEW order, Blocked(order, n, a, b, m), NEW grid, OfBlocks(grid, T, a, b, m),
         NEW F, NEW rows, CutBy(rows, g, grid, T, F)
  PROVE  /\ IsSeq(rows) /\ Len(rows) = T * n
         /\ \A i \in 1 .. T, j \in 1 .. n :
              rows[(i - 1) * n + j] = PatchAt(F[i], Cell(order, m, j))
<1> DEFINE steps == [i \in 1 .. T |-> StepRows(g, grid, F[i])]
<1>1. steps = [i \in 1 .. T |-> steps[i]] /\ rows = FlattenSeq(steps)
  BY DEF CutBy
<1>2. n \in Nat
  BY OrderDomain
<1>3. ASSUME NEW i \in 1 .. T
      PROVE  /\ IsSeq(steps[i]) /\ Len(steps[i]) = n
             /\ \A j \in 1 .. n : steps[i][j] = PatchAt(F[i], Cell(order, m, j))
  <2>1. PICK frames, part : frames = F[i] /\ part = StepRows(g, grid, frames)
    OBVIOUS
  <2>2. CutInto(part, n, m, order, frames)
    <3>1. IsStep(part, g, m, grid, frames)
      BY <2>1 DEF IsStep
    <3>2. QED BY <3>1, StepCells
  <2>3. steps[i] = part
    BY <2>1
  <2>4. QED BY <2>1, <2>2, <2>3 DEF CutInto
<1> HIDE DEF steps
<1>4. IsSeq(steps) /\ Len(steps) = T
  BY <1>1, MappedIsSeq
<1>5. PiecesOf(rows, steps, T, n)
  BY <1>1, <1>2, <1>3, <1>4, FlattenPieces
<1>6. IsSeq(rows) /\ Len(rows) = T * n
  BY <1>5 DEF PiecesOf
<1>7. ASSUME NEW i \in 1 .. T, NEW j \in 1 .. n
      PROVE  rows[(i - 1) * n + j] = PatchAt(F[i], Cell(order, m, j))
  <2>1. rows[(i - 1) * n + j] = steps[i][j]
    BY <1>5 DEF PiecesOf
  <2>2. QED BY <1>3, <2>1
<1>8. QED BY <1>6, <1>7

(* The corners of every cell of an h by w grid, in order. *)
CornerRows(order, h, w, m, side) ==
  [j \in DOMAIN order |->
     Corners((order[j].a * m + order[j].b) * w + order[j].c * m + order[j].d, h, w, side)]
CellRows(order, m) == [j \in DOMAIN order |-> <<order[j].a * m + order[j].b, order[j].c * m + order[j].d>>]

LEMMA TableRows ==
  ASSUME NEW T \in Nat, NEW a \in Nat, NEW b \in Nat, NEW m \in Nat \ {0}, NEW side,
         NEW n, NEW order, Blocked(order, n, a, b, m), NEW grid, OfBlocks(grid, T, a, b, m)
  PROVE  /\ PiecesOf(PositionIds(<<grid>>, m), [i \in 1 .. T |-> CellRows(order, m)], T, n)
         /\ PiecesOf(Bilinear(<<grid>>, side, m),
                     [i \in 1 .. T |-> CornerRows(order, grid[2], grid[3], m, side)], T, n)
<1>1. n \in Nat /\ DOMAIN order = 1 .. n
  BY OrderDomain
<1>2. PICK cells, corners :
        cells = CellRows(order, m) /\ corners = CornerRows(order, grid[2], grid[3], m, side)
  OBVIOUS
<1>3. cells = [j \in 1 .. n |-> cells[j]] /\ corners = [j \in 1 .. n |-> corners[j]]
  BY <1>1, <1>2 DEF CellRows, CornerRows
<1>4. IsSeq(cells) /\ Len(cells) = n /\ IsSeq(corners) /\ Len(corners) = n
  BY <1>1, <1>3, MappedIsSeq
<1>5. grid[1] = T /\ order = BlockOrder(grid[2], grid[3], m)
  BY DEF OfBlocks, Blocked
<1>6. PositionIds(<<grid>>, m) = RepeatRows(cells, T)
  <2> DEFINE all == [i \in DOMAIN <<grid>> |->
                       LET o == BlockOrder(<<grid>>[i][2], <<grid>>[i][3], m)
                       IN  RepeatRows([j \in DOMAIN o |-> <<o[j].a * m + o[j].b, o[j].c * m + o[j].d>>],
                                      <<grid>>[i][1])]
  <2>1. all = <<RepeatRows(cells, T)>>
    BY <1>2, <1>5 DEF CellRows
  <2>2. PositionIds(<<grid>>, m) = FlattenSeq(all)
    BY DEF PositionIds
  <2>3. IsSeq(RepeatRows(cells, T))
    BY <1>4, RepeatPieces DEF PiecesOf
  <2>4. QED BY <2>1, <2>2, <2>3, FlattenOne
<1>7. Bilinear(<<grid>>, side, m) = RepeatRows(corners, T)
  <2> DEFINE all == [i \in DOMAIN <<grid>> |->
                       LET h == <<grid>>[i][2]
                           w == <<grid>>[i][3]
                           o == BlockOrder(h, w, m)
                       IN  RepeatRows([j \in DOMAIN o |->
                             Corners((o[j].a * m + o[j].b) * w + o[j].c * m + o[j].d, h, w, side)],
                             <<grid>>[i][1])]
  <2>1. all = <<RepeatRows(corners, T)>>
    BY <1>2, <1>5 DEF CornerRows
  <2>2. Bilinear(<<grid>>, side, m) = FlattenSeq(all)
    BY DEF Bilinear
  <2>3. IsSeq(RepeatRows(corners, T))
    BY <1>4, RepeatPieces DEF PiecesOf
  <2>4. QED BY <2>1, <2>2, <2>3, FlattenOne
<1>8. /\ PiecesOf(RepeatRows(cells, T), [i \in 1 .. T |-> cells], T, n)
      /\ PiecesOf(RepeatRows(corners, T), [i \in 1 .. T |-> corners], T, n)
  BY <1>4, RepeatPieces
<1>9. QED BY <1>2, <1>6, <1>7, <1>8

(* Row x is rotated by the cell, and gets its place in the picture. *)
TablesHold(x, cell, grid, m, side) ==
  /\ PositionIds(<<grid>>, m)[x] = cell
  /\ Bilinear(<<grid>>, side, m)[x]
       = Corners(cell[1] * grid[3] + cell[2], grid[2], grid[3], side)

LEMMA TablesAt ==
  ASSUME NEW T \in Nat, NEW a \in Nat, NEW b \in Nat, NEW m \in Nat \ {0}, NEW side,
         NEW n, NEW order, Blocked(order, n, a, b, m), NEW grid, OfBlocks(grid, T, a, b, m),
         NEW i \in 1 .. T, NEW j \in 1 .. n
  PROVE  TablesHold((i - 1) * n + j, Cell(order, m, j), grid, m, side)
<1>1. n \in Nat /\ DOMAIN order = 1 .. n
  BY OrderDomain
<1>2. PICK cells, corners :
        cells = CellRows(order, m) /\ corners = CornerRows(order, grid[2], grid[3], m, side)
  OBVIOUS
<1>3. /\ PiecesOf(PositionIds(<<grid>>, m), [k \in 1 .. T |-> cells], T, n)
      /\ PiecesOf(Bilinear(<<grid>>, side, m), [k \in 1 .. T |-> corners], T, n)
  BY <1>2, TableRows
<1>4. /\ PositionIds(<<grid>>, m)[(i - 1) * n + j] = cells[j]
      /\ Bilinear(<<grid>>, side, m)[(i - 1) * n + j] = corners[j]
  BY <1>3 DEF PiecesOf
<1>5. cells[j] = Cell(order, m, j)
  BY <1>1, <1>2 DEF CellRows, Cell
<1>6. PICK w \in Nat : w = grid[3]
  BY CellCount DEF OfBlocks
<1>7. PICK p \in Nat, q \in Nat, c \in Nat, d \in Nat :
        /\ p = order[j].a /\ q = order[j].b /\ c = order[j].c /\ d = order[j].d
  BY OrderCells
<1>8. corners[j] = Corners((p * m + q) * w + c * m + d, grid[2], w, side)
  BY <1>1, <1>2, <1>6, <1>7 DEF CornerRows
<1>9. Cell(order, m, j)[1] = p * m + q /\ Cell(order, m, j)[2] = c * m + d
  BY <1>7 DEF Cell
<1>10. (p * m + q) * w + c * m + d = (p * m + q) * w + (c * m + d)
  OBVIOUS
<1>11. QED BY <1>4, <1>5, <1>6, <1>8, <1>9, <1>10 DEF TablesHold

(* A row of the tower is made of one cell of one time step, and agrees with it. *)
HiddenAt(row, frames, cell, grid) == row.patch = PatchAt(frames, cell) /\ CellAgrees(row, grid)

LEMMA HiddenAgrees ==
  ASSUME Geometry.side \in Nat \ {0}, NEW m \in Nat \ {0}, m = Geometry.merge,
         NEW T \in Nat, NEW a \in Nat, NEW b \in Nat,
         NEW n, NEW order, Blocked(order, n, a, b, m), NEW grid, OfBlocks(grid, T, a, b, m),
         NEW F, NEW rows, CutBy(rows, Geometry, grid, T, F), NEW layers,
         NEW i \in 1 .. T, NEW j \in 1 .. n
  PROVE  HiddenAt(Hidden(Geometry, rows, <<grid>>, layers)[(i - 1) * n + j], F[i],
                  Cell(order, m, j), grid)
<1> DEFINE cu == CuSeqlens(<<grid>>)
           ids == PositionIds(<<grid>>, m)
           pos == Bilinear(<<grid>>, Geometry.side, m)
<1>1. n \in Nat
  BY OrderDomain
<1>2. /\ IsSeq(rows) /\ Len(rows) = T * n
      /\ \A k \in 1 .. T, c \in 1 .. n : rows[(k - 1) * n + c] = PatchAt(F[k], Cell(order, m, c))
  <2>1. PICK g : g = Geometry
    OBVIOUS
  <2>2. m = g.merge /\ CutBy(rows, g, grid, T, F)
    BY <2>1
  <2> HIDE <2>1
  <2>3. QED BY <2>2, CutRows
<1>3. PICK x \in 1 .. T * n : x = (i - 1) * n + j
  BY <1>1, CellIn
<1>4. DOMAIN rows = 1 .. T * n
  BY <1>2, SeqFacts
<1>5. PICK row : row = Hidden(Geometry, rows, <<grid>>, layers)[x]
  OBVIOUS
<1>6. row = [patch |-> rows[x], position |-> ids[x], corners |-> pos[x], layers |-> layers,
             sees |-> {rows[k].frames : k \in Attends(cu, T * n, x)}]
  BY <1>2, <1>3, <1>4, <1>5 DEF Hidden
<1>7. PICK cell : cell = Cell(order, m, j)
  OBVIOUS
<1>8. rows[x] = PatchAt(F[i], cell)
  BY <1>2, <1>3, <1>7
<1>9. ids[x] = cell /\ pos[x] = Corners(cell[1] * grid[3] + cell[2], grid[2], grid[3], Geometry.side)
  <2>1. TablesHold((i - 1) * n + j, Cell(order, m, j), grid, m, Geometry.side)
    BY TablesAt
  <2>2. TablesHold(x, cell, grid, m, Geometry.side)
    BY <1>3, <1>7, <2>1
  <2>3. QED BY <2>2 DEF TablesHold
<1>10. PICK h \in Nat, w \in Nat : h = grid[2] /\ w = grid[3] /\ n = h * w /\ grid = <<T, h, w>>
  <2>1. PICK h \in Nat, w \in Nat : h = a * m /\ w = b * m
    BY ProductNat
  <2>2. n = h * w
    <3>1. a * b * m * m = (a * m) * (b * m)
      BY CellCount
    <3>2. n = a * b * m * m
      BY DEF Blocked
    <3>3. QED BY <2>1, <3>1, <3>2
  <2>3. grid = <<T, h, w>> /\ grid[2] = h /\ grid[3] = w
    BY <2>1 DEF OfBlocks
  <2>4. QED BY <2>2, <2>3
<1>11. PICK p \in 0 .. h - 1, q \in 0 .. w - 1 : cell = <<p, q>>
  <2>1. cell[1] \in 0 .. a * m - 1 /\ cell[2] \in 0 .. b * m - 1
    BY <1>7, OrderCells
  <2>2. h = a * m /\ w = b * m
    BY <1>10 DEF OfBlocks
  <2>3. cell = <<cell[1], cell[2]>>
    BY <1>7 DEF Cell
  <2>4. QED BY <2>1, <2>2, <2>3
<1>12. PlacedByCorners(pos[x], p, q, h, w)
  <2>1. pos[x] = Corners(p * w + q, h, w, Geometry.side)
    BY <1>9, <1>10, <1>11
  <2>2. QED BY <2>1, CornersMeet
<1>13. Cumulates(cu, T, n)
  BY <1>1, <1>10, CuFacts
<1> HIDE DEF cu, ids, pos
<1>14. /\ x \in Attends(cu, T * n, x)
       /\ \A k \in Attends(cu, T * n, x) : k \in 1 .. T * n
       /\ \A k \in 1 .. T, c \in 1 .. n : (k - 1) * n + c \in Attends(cu, T * n, x) => k = i
  BY <1>1, <1>3, <1>13, AttendsOwn
<1>15. {rows[k].frames : k \in Attends(cu, T * n, x)} = {F[i]}
  <2>1. rows[x].frames = F[i]
    BY <1>8 DEF PatchAt
  <2>2. ASSUME NEW y \in Attends(cu, T * n, x)
        PROVE  rows[y].frames = F[i]
    <3>1. y \in 1 .. T * n
      BY <1>14
    <3>2. PICK k \in 1 .. T, c \in 1 .. n : y = (k - 1) * n + c
      <4>1. InCell(y, T, n)
        BY <1>1, <3>1, CellOf
      <4>2. QED BY <4>1 DEF InCell
    <3>3. k = i
      BY <1>14, <3>2
    <3>4. rows[y] = PatchAt(F[k], Cell(order, m, c))
      BY <1>2, <3>2
    <3>5. QED BY <3>3, <3>4 DEF PatchAt
  <2>3. QED BY <1>14, <2>1, <2>2
<1>16. /\ row.patch = PatchAt(F[i], cell) /\ row.position = <<p, q>> /\ row.corners = pos[x]
       /\ row.sees = {F[i]}
  BY <1>6, <1>8, <1>9, <1>11, <1>15
<1>17. row.patch.row = p /\ row.patch.col = q /\ row.patch.frames = F[i]
  BY <1>11, <1>16 DEF PatchAt
<1>18. CellAgrees(row, grid)
  BY <1>10, <1>12, <1>16, <1>17 DEF CellAgrees, PlacedByCorners
<1>19. HiddenAt(row, F[i], cell, grid)
  BY <1>16, <1>18 DEF HiddenAt
<1>20. QED BY <1>3, <1>5, <1>7, <1>19

-----------------------------------------------------------------------------
(* The size a picture is resized to, and its grid. *)

LEMMA CountNat ==
  ASSUME NEW n \in Nat, NEW S, S \subseteq 1 .. n
  PROVE  Cardinality(S) \in Nat /\ Cardinality(S) <= n
<1>1. IsFiniteSet(1 .. n) /\ Cardinality(1 .. n) = n
  BY FS_Interval
<1>2. IsFiniteSet(S) /\ Cardinality(S) <= Cardinality(1 .. n)
  BY <1>1, FS_Subset
<1>3. QED BY <1>1, <1>2, FS_CardinalityType

LEMMA RoundNat ==
  ASSUME NEW x \in Nat, NEW factor \in Nat \ {0}
  PROVE  \E n \in Nat : RoundFactor(x, factor) = factor * n
<1>1. x \div factor \in Nat
  BY DivFacts
<1>2. PICK n \in Nat : n = IF \/ 2 * (x % factor) > factor
                              \/ 2 * (x % factor) = factor /\ (x \div factor) % 2 = 1
                           THEN x \div factor + 1 ELSE x \div factor
  BY <1>1
<1>3. RoundFactor(x, factor) = factor * n
  BY <1>2 DEF RoundFactor
<1>4. QED BY <1>3

(* smart_resize_with gives sides of whole merged blocks, or refuses. *)
WholeBlocks(size, factor) ==
  /\ size = <<size[1], size[2]>>
  /\ \E x \in Nat : size[1] = factor * x
  /\ \E y \in Nat : size[2] = factor * y

LEMMA ResizeNat ==
  ASSUME NEW g, g.patch \in Nat \ {0}, g.merge \in Nat \ {0},
         NEW h \in Nat, NEW w \in Nat, NEW temporal, NEW min \in Nat, NEW max,
         SmartResize(g, h, w, temporal, min, max) # None
  PROVE  WholeBlocks(SmartResize(g, h, w, temporal, min, max).some, g.patch * g.merge)
<1> DEFINE factor == g.patch * g.merge
           t == AtLeast(temporal, 1)
           budget == t * RoundFactor(h, factor) * RoundFactor(w, factor)
           Fit(side, other) ==
             IF budget > max THEN AtLeast(factor, factor * LargestWithin(side, other, factor, t, max))
             ELSE IF budget < min THEN factor * SmallestReaching(side, other, factor, t, min)
             ELSE RoundFactor(side, factor)
<1>1. factor \in Nat \ {0}
  OBVIOUS
<1> HIDE DEF factor
<1>2. SmartResize(g, h, w, temporal, min, max).some = <<Fit(h, w), Fit(w, h)>>
  BY DEF SmartResize, Some, factor
<1> HIDE DEF t, budget
<1>3. ASSUME NEW side \in Nat, NEW other \in Nat
      PROVE  \E n \in Nat : Fit(side, other) = factor * n
  <2>1. LargestWithin(side, other, factor, t, max) \in Nat
    BY CountNat DEF LargestWithin
  <2>2. SmallestReaching(side, other, factor, t, min) \in Nat
    <3> DEFINE S == {n \in 1 .. min : n * n * factor * factor * t * other < side * min}
    <3>1. S \subseteq 1 .. min
      OBVIOUS
    <3>2. SmallestReaching(side, other, factor, t, min) = 1 + Cardinality(S)
      BY DEF SmallestReaching
    <3> HIDE DEF S
    <3>3. Cardinality(S) \in Nat
      BY <3>1, CountNat
    <3>4. QED BY <3>2, <3>3
  <2>3. PICK c \in Nat : RoundFactor(side, factor) = factor * c
    BY <1>1, RoundNat
  <2>4. PICK a \in Nat : a = LargestWithin(side, other, factor, t, max)
    BY <2>1
  <2>5. PICK b \in Nat : b = SmallestReaching(side, other, factor, t, min)
    BY <2>2
  <2>6. AtLeast(factor, factor * a) = factor * 1 \/ AtLeast(factor, factor * a) = factor * a
    BY <1>1 DEF AtLeast
  <2>7. 1 \in Nat
    OBVIOUS
  <2>8. QED BY <2>3, <2>4, <2>5, <2>6, <2>7
<1> HIDE DEF Fit
<1>4. PICK p, q : p = Fit(h, w) /\ q = Fit(w, h)
  OBVIOUS
<1>5. PICK size : size = <<p, q>> /\ size[1] = p /\ size[2] = q
  <2>1. <<p, q>>[1] = p /\ <<p, q>>[2] = q
    BY PairParts
  <2>2. QED BY <2>1
<1>6. (\E n \in Nat : p = factor * n) /\ (\E n \in Nat : q = factor * n)
  BY <1>3, <1>4
<1>7. WholeBlocks(size, factor)
  BY <1>5, <1>6 DEF WholeBlocks
<1>8. QED BY <1>2, <1>4, <1>5, <1>7 DEF factor

(* A grid: time steps, rows and columns of patches. *)
Grids == Nat \X Nat \X Nat

LEMMA GridIs ==
  ASSUME NEW g, g.patch \in Nat \ {0}, g.merge \in Nat \ {0}, NEW times, NEW size,
         WholeBlocks(size, g.patch * g.merge)
  PROVE  \E a, b \in Nat : OfBlocks(GridOf(g, times, size), times, a, b, g.merge)
<1>1. PICK p \in Nat \ {0}, m \in Nat \ {0} : p = g.patch /\ m = g.merge
  OBVIOUS
<1>2. PICK a \in Nat, b \in Nat : size[1] = (p * m) * a /\ size[2] = (p * m) * b
  BY <1>1 DEF WholeBlocks
<1>3. ASSUME NEW x \in Nat
      PROVE  ((p * m) * x) \div p = x * m
  <2>1. PICK y \in Nat : y = x * m
    BY ProductNat
  <2>2. (p * m) * x = y * p + 0
    BY <2>1
  <2>3. 0 \in 0 .. p - 1
    OBVIOUS
  <2>4. (y * p + 0) \div p = y
    BY <2>3, QuotientOf
  <2>5. QED BY <2>1, <2>2, <2>4
<1>4. size[1] \div p = a * m /\ size[2] \div p = b * m
  BY <1>2, <1>3
<1>5. OfBlocks(GridOf(g, times, size), times, a, b, m)
  BY <1>1, <1>4 DEF OfBlocks, GridOf
<1>6. QED BY <1>1, <1>5

LEMMA BlocksAreGrid ==
  ASSUME NEW grid, NEW times \in Nat, NEW a \in Nat, NEW b \in Nat, NEW m \in Nat,
         OfBlocks(grid, times, a, b, m)
  PROVE  grid \in Grids
<1>1. a * m \in Nat /\ b * m \in Nat
  BY ProductNat
<1>2. QED BY <1>1 DEF OfBlocks, Grids

LEMMA GridParts ==
  ASSUME NEW grid \in Grids
  PROVE  grid[1] \in Nat /\ grid[2] \in Nat /\ grid[3] \in Nat
BY DEF Grids

Machine(g) ==
  /\ g.patch \in Nat \ {0} /\ g.merge \in Nat \ {0} /\ g.temporal \in Nat \ {0}
  /\ g.side \in Nat \ {0}
  /\ g.min \in Nat /\ g.video_min \in Nat /\ g.depth \in Nat

ImageOk(image) == image.height \in Nat /\ image.width \in Nat
VideoOk(video) ==
  /\ IsSeq(video.frames)
  /\ \A f \in DOMAIN video.frames : ImageOk(video.frames[f])

(* The time steps of a visual, and the frames a step is cut from. *)
TimeSteps(g, block) ==
  IF block.kind = "image" THEN 1 ELSE (Len(block.frames) + g.temporal - 1) \div g.temporal
StepFrames(g, block) ==
  [gt \in 1 .. TimeSteps(g, block) |->
     [tt \in 1 .. g.temporal |->
        <<block.id, IF block.kind = "image" THEN 1
                    ELSE AtMost((gt - 1) * g.temporal + tt, Len(block.frames))>>]]

(* Pixels cut into the rows of these frames, on a grid of whole merged blocks. *)
PixelsOf(p, g, block) ==
  /\ \E a, b \in Nat : OfBlocks(p.grid, TimeSteps(g, block), a, b, g.merge)
  /\ CutBy(p.rows, g, p.grid, TimeSteps(g, block), StepFrames(g, block))

LEMMA OnlyOneAt ==
  ASSUME NEW x
  PROVE  \A i \in 1 .. 1 : <<x>>[i] = x
OBVIOUS

LEMMA OnlyOne ==
  ASSUME NEW x
  PROVE  [i \in 1 .. 1 |-> x] = <<x>>
OBVIOUS

LEMMA ImagePixels ==
  ASSUME NEW g, Machine(g), NEW image, image.kind = "image", ImageOk(image),
         Preprocess(g, image) # None
  PROVE  PixelsOf(Preprocess(g, image).some, g, image)
<1> DEFINE size == SmartResize(g, image.height, image.width, 1, g.min, g.max)
           grid == GridOf(g, 1, size.some)
           frames == [tt \in 1 .. g.temporal |-> <<image.id, 1>>]
           rows == StepRows(g, grid, frames)
<1>1. size # None /\ Preprocess(g, image).some = [grid |-> grid, rows |-> rows]
  <2> HIDE DEF size
  <2>1. QED BY DEF Preprocess, ImagePatches, Some, size
<1>2. WholeBlocks(size.some, g.patch * g.merge)
  <2>1. PICK h, w, t, a, b : h = image.height /\ w = image.width /\ t = 1 /\ a = g.min /\ b = g.max
    OBVIOUS
  <2>2. h \in Nat /\ w \in Nat /\ a \in Nat /\ g.patch \in Nat \ {0} /\ g.merge \in Nat \ {0}
    BY <2>1 DEF Machine, ImageOk
  <2>3. SmartResize(g, h, w, t, a, b) # None
    BY <1>1, <2>1
  <2>4. WholeBlocks(SmartResize(g, h, w, t, a, b).some, g.patch * g.merge)
    BY <2>2, <2>3, ResizeNat
  <2>5. QED BY <2>1, <2>4
<1> HIDE DEF size
<1>3. g.patch \in Nat \ {0} /\ g.merge \in Nat \ {0}
  BY DEF Machine
<1>4. \E a, b \in Nat : OfBlocks(grid, 1, a, b, g.merge)
  BY <1>2, <1>3, GridIs
<1> HIDE DEF grid
<1>5. TimeSteps(g, image) = 1 /\ StepFrames(g, image) = <<frames>>
  <2>1. TimeSteps(g, image) = 1
    BY DEF TimeSteps
  <2>2. PICK x : x = frames
    OBVIOUS
  <2>3. StepFrames(g, image) = [gt \in 1 .. 1 |-> x]
    BY <2>1, <2>2 DEF StepFrames
  <2>4. [gt \in 1 .. 1 |-> x] = <<x>>
    BY OnlyOne
  <2>5. QED BY <2>1, <2>2, <2>3, <2>4
<1>6. IsSeq(rows)
  <2>1. PICK a \in Nat, b \in Nat : OfBlocks(grid, 1, a, b, g.merge)
    BY <1>4
  <2>2. PICK m \in Nat \ {0} : m = g.merge
    BY <1>3
  <2>3. PICK n, order : Blocked(order, n, a, b, m)
    BY DEF Blocked
  <2>4. IsStep(rows, g, m, grid, frames) /\ OfBlocks(grid, 1, a, b, m)
    BY <2>1, <2>2 DEF IsStep
  <2>5. CutInto(rows, n, m, order, frames)
    BY <2>3, <2>4, StepCells
  <2>6. QED BY <2>5 DEF CutInto
<1>7. CutBy(rows, g, grid, TimeSteps(g, image), StepFrames(g, image))
  <2>1. [i \in 1 .. 1 |-> StepRows(g, grid, <<frames>>[i])] = <<rows>>
    <3>1. PICK x : x = frames
      OBVIOUS
    <3>2. PICK y : y = StepRows(g, grid, x)
      OBVIOUS
    <3>3. \A i \in 1 .. 1 : <<x>>[i] = x
      BY OnlyOneAt
    <3>4. [i \in 1 .. 1 |-> StepRows(g, grid, <<x>>[i])] = [i \in 1 .. 1 |-> y]
      BY <3>2, <3>3
    <3>5. [i \in 1 .. 1 |-> y] = <<y>>
      BY OnlyOne
    <3>6. QED BY <3>1, <3>2, <3>4, <3>5
  <2>2. FlattenSeq(<<rows>>) = rows
    BY <1>6, FlattenOne
  <2>3. QED BY <1>5, <2>1, <2>2 DEF CutBy
<1> HIDE DEF rows
<1>8. QED BY <1>1, <1>4, <1>5, <1>7 DEF PixelsOf

LEMMA TimeStepsNat ==
  ASSUME NEW g, Machine(g), NEW block, block.kind = "video" => VideoOk(block),
         block.kind \in {"image", "video"}
  PROVE  TimeSteps(g, block) \in Nat
<1>1. CASE block.kind = "image"
  BY <1>1 DEF TimeSteps
<1>2. CASE block.kind = "video"
  <2>1. PICK d \in Nat \ {0} : d = g.temporal
    BY DEF Machine
  <2>2. PICK len \in Nat : len = Len(block.frames)
    BY <1>2, SeqFacts DEF VideoOk
  <2>3. len + d - 1 \in Nat
    OBVIOUS
  <2>4. (len + d - 1) \div d \in Nat
    BY <2>3, DivFacts
  <2>5. QED BY <1>2, <2>1, <2>2, <2>4 DEF TimeSteps
<1>3. QED BY <1>1, <1>2

LEMMA VideoPixels ==
  ASSUME NEW g, Machine(g), NEW video, video.kind = "video", VideoOk(video),
         PreprocessVideo(g, video) # None
  PROVE  PixelsOf(PreprocessVideo(g, video).some, g, video)
<1> DEFINE frames == video.frames
           steps == (Len(frames) + g.temporal - 1) \div g.temporal
           size == SmartResize(g, frames[1].height, frames[1].width, steps * g.temporal,
                               g.video_min, g.video_max)
           grid == GridOf(g, steps, size.some)
           Frame(i) == <<video.id, AtMost(i, Len(frames))>>
           parts == [gt \in 1 .. steps |->
                       StepRows(g, grid, [tt \in 1 .. g.temporal |->
                                            Frame((gt - 1) * g.temporal + tt)])]
<1>1. steps = TimeSteps(g, video)
  BY DEF TimeSteps
<1>2. /\ frames # <<>> /\ size # None
      /\ PreprocessVideo(g, video).some = [grid |-> grid, rows |-> FlattenSeq(parts)]
  <2> HIDE DEF steps, size
  <2>1. QED BY DEF PreprocessVideo, VideoPatches, Some, steps, size
<1>3. WholeBlocks(size.some, g.patch * g.merge)
  <2>1. ImageOk(frames[1])
    <3>1. 1 \in DOMAIN frames
      <4>1. PICK s : s = frames /\ IsSeq(s) /\ s # <<>>
        BY <1>2 DEF VideoOk
      <4>2. PICK len \in Nat : len = Len(s) /\ DOMAIN s = 1 .. len
        BY <4>1, SeqFacts
      <4>3. len # 0
        BY <4>1, <4>2, ShortSeqs, SameSeq
      <4>4. QED BY <4>1, <4>2, <4>3
    <3>2. QED BY <3>1 DEF VideoOk
  <2>2. PICK h, w, t, a, b : /\ h = frames[1].height /\ w = frames[1].width
                             /\ t = steps * g.temporal /\ a = g.video_min /\ b = g.video_max
    OBVIOUS
  <2>3. h \in Nat /\ w \in Nat /\ a \in Nat /\ g.patch \in Nat \ {0} /\ g.merge \in Nat \ {0}
    BY <2>1, <2>2 DEF Machine, ImageOk
  <2>4. SmartResize(g, h, w, t, a, b) # None
    BY <1>2, <2>2
  <2>5. WholeBlocks(SmartResize(g, h, w, t, a, b).some, g.patch * g.merge)
    BY <2>3, <2>4, ResizeNat
  <2>6. QED BY <2>2, <2>5
<1> HIDE DEF size, steps
<1>4. \E a, b \in Nat : OfBlocks(grid, steps, a, b, g.merge)
  BY <1>3, GridIs DEF Machine
<1> HIDE DEF grid
<1>5. CutBy(FlattenSeq(parts), g, grid, TimeSteps(g, video), StepFrames(g, video))
  <2>1. parts = [gt \in 1 .. TimeSteps(g, video) |-> StepRows(g, grid, StepFrames(g, video)[gt])]
    <3>1. \A gt \in 1 .. TimeSteps(g, video) :
            StepFrames(g, video)[gt]
              = [tt \in 1 .. g.temporal |-> Frame((gt - 1) * g.temporal + tt)]
      BY DEF StepFrames
    <3>2. QED BY <1>1, <3>1
  <2> HIDE DEF parts
  <2>2. QED BY <2>1 DEF CutBy
<1> HIDE DEF parts
<1>6. QED BY <1>1, <1>2, <1>4, <1>5 DEF PixelsOf

(* How many rows there are of a visual. *)
LEMMA PixelsFacts ==
  ASSUME NEW g, Machine(g), NEW block, TimeSteps(g, block) \in Nat, NEW p, PixelsOf(p, g, block)
  PROVE  p.grid \in Grids /\ IsSeq(p.rows)
<1>1. PICK a \in Nat, b \in Nat : OfBlocks(p.grid, TimeSteps(g, block), a, b, g.merge)
  BY DEF PixelsOf
<1>2. PICK m \in Nat \ {0}, T \in Nat : m = g.merge /\ T = TimeSteps(g, block)
  BY DEF Machine
<1>3. OfBlocks(p.grid, T, a, b, m)
  BY <1>1, <1>2
<1>4. p.grid \in Grids
  BY <1>3, BlocksAreGrid
<1>5. PICK n, order : Blocked(order, n, a, b, m)
  BY DEF Blocked
<1>6. PICK F, rows, grid : F = StepFrames(g, block) /\ rows = p.rows /\ grid = p.grid
  OBVIOUS
<1>7. CutBy(rows, g, grid, T, F)
  BY <1>2, <1>6 DEF PixelsOf
<1>8. IsSeq(rows)
  BY <1>2, <1>3, <1>5, <1>6, <1>7, CutRows
<1>9. QED BY <1>4, <1>6, <1>8

LEMMA MergedIsSeq ==
  ASSUME NEW g, Machine(g), NEW rows, IsSeq(rows)
  PROVE  IsSeq(Merged(g, rows))
<1>1. PICK d \in Nat \ {0} : d = g.merge * g.merge
  <2>1. PICK m \in Nat \ {0} : m = g.merge
    BY DEF Machine
  <2>2. m * m \in Nat \ {0}
    OBVIOUS
  <2>3. QED BY <2>1, <2>2
<1>2. PICK len \in Nat : len = Len(rows)
  BY SeqFacts
<1>3. PICK n \in Nat : n = len \div d
  BY DivFacts
<1>4. PICK out : out = Merged(g, rows)
  OBVIOUS
<1>5. DOMAIN out = 1 .. n
  BY <1>1, <1>2, <1>3, <1>4 DEF Merged
<1>6. out = [k \in 1 .. n |-> out[k]]
  BY <1>4, <1>5 DEF Merged
<1>7. QED BY <1>4, <1>5, <1>6, MappedIsSeq

(* The tower gives rows, and a list of taps. *)
LEMMA TowerFacts ==
  ASSUME NEW g, Machine(g), NEW rows, IsSeq(rows), NEW grids, Tower(g, rows, grids) # None
  PROVE  IsSeq(Tower(g, rows, grids).some.pooler) /\ IsSeq(Tower(g, rows, grids).some.deepstack)
<1> DEFINE Tapped(i) == \E tap \in DOMAIN g.taps : g.taps[tap] = i - 1
           parts == [i \in 1 .. g.depth |-> IF Tapped(i) THEN <<i>> ELSE <<>>]
           tapped == FlattenSeq(parts)
           hidden == Hidden(g, rows, grids, g.depth)
           out == Tower(g, rows, grids).some
<1>1. IsSeq(tapped)
  <2>1. PICK n \in Nat : n = g.depth
    BY DEF Machine
  <2>2. DOMAIN parts = 1 .. n /\ parts = [i \in 1 .. n |-> parts[i]]
    BY <2>1
  <2>3. \A i \in 1 .. n : IsSeq(parts[i])
    BY <2>1, ShortSeqs
  <2> HIDE DEF parts
  <2>4. IsSeq(parts) /\ Len(parts) = n
    BY <2>2, MappedIsSeq
  <2>5. QED BY <2>3, <2>4, FlattenIsSeq
<1>2. out.pooler = Merged(g, hidden)
  BY DEF Tower, Some
<1>3. DOMAIN out.deepstack = DOMAIN tapped /\ out.deepstack = [i \in DOMAIN tapped |-> out.deepstack[i]]
  BY DEF Tower, Some
<1>4. IsSeq(hidden)
  <2>1. hidden = [n \in DOMAIN rows |-> hidden[n]]
    BY DEF Hidden
  <2> HIDE DEF hidden
  <2>2. QED BY <2>1, OverIsSeq
<1> HIDE DEF tapped, hidden, out
<1>5. IsSeq(out.pooler)
  BY <1>2, <1>4, MergedIsSeq
<1>6. IsSeq(out.deepstack)
  <2>1. PICK d : d = out.deepstack
    OBVIOUS
  <2>2. d = [i \in DOMAIN tapped |-> d[i]]
    BY <1>3, <2>1
  <2>3. QED BY <1>1, <2>1, <2>2, OverIsSeq
<1>7. QED BY <1>5, <1>6 DEF out

-----------------------------------------------------------------------------
(* What is kept of the visuals encoded so far.                                 *)

EncodedOk(out) == out.grid \in Grids /\ IsSeq(out.pooler) /\ IsSeq(out.deepstack)

VisualOk(block) ==
  \/ block.kind = "image" /\ ImageOk(block)
  \/ block.kind = "video" /\ VideoOk(block)

LEMMA EncodeFacts ==
  ASSUME NEW g, Machine(g), NEW block, VisualOk(block), Encode(g, block) # None
  PROVE  EncodedOk(Encode(g, block).some)
<1> DEFINE pixels == IF block.kind = "image" THEN Preprocess(g, block) ELSE PreprocessVideo(g, block)
           grid == pixels.some.grid
           tower == Tower(g, pixels.some.rows, <<grid>>)
<1>1. Encode(g, block) = EncodePixels(g, pixels)
  BY DEF Encode
<1>2. pixels # None => PixelsOf(pixels.some, g, block)
  <2>1. CASE block.kind = "image" /\ ImageOk(block)
    BY <2>1, ImagePixels
  <2>2. CASE block.kind = "video" /\ VideoOk(block)
    BY <2>2, VideoPixels
  <2>3. QED BY <2>1, <2>2 DEF VisualOk
<1> HIDE DEF pixels
<1>3. pixels # None
  BY <1>1 DEF EncodePixels
<1>4. Encode(g, block) = WithGrid(grid, tower)
  BY <1>1, <1>3 DEF EncodePixels
<1>5. grid \in Grids /\ IsSeq(pixels.some.rows)
  <2>1. TimeSteps(g, block) \in Nat
    BY TimeStepsNat DEF VisualOk
  <2>2. QED BY <1>2, <1>3, <2>1, PixelsFacts
<1>6. tower # None
  BY <1>4 DEF WithGrid
<1>7. IsSeq(tower.some.pooler) /\ IsSeq(tower.some.deepstack)
  BY <1>5, <1>6, TowerFacts
<1> HIDE DEF grid, tower
<1>8. Encode(g, block).some = [grid |-> grid, pooler |-> tower.some.pooler,
                               deepstack |-> tower.some.deepstack]
  BY <1>4, <1>6 DEF WithGrid, Some
<1>9. QED BY <1>5, <1>7, <1>8 DEF EncodedOk

(* PatchMerger takes the rows of one merged block. *)
MergedAt(merged, k, hidden, s) ==
  /\ IsSeq(merged[k]) /\ Len(merged[k]) = s
  /\ \A c \in 1 .. s : /\ (k - 1) * s + c \in 1 .. Len(hidden)
                       /\ merged[k][c] = hidden[(k - 1) * s + c]

Square(s, g) == s = g.merge * g.merge

LEMMA MergedRows ==
  ASSUME NEW g, NEW m \in Nat \ {0}, m = g.merge, NEW s, Square(s, g),
         NEW hidden, IsSeq(hidden), NEW k \in DOMAIN Merged(g, hidden)
  PROVE  k \in 1 .. Len(hidden) \div s /\ MergedAt(Merged(g, hidden), k, hidden, s)
<1>1. s \in Nat \ {0}
  BY CellCount DEF Square
<1>2. PICK len \in Nat : len = Len(hidden)
  BY SeqFacts
<1>3. PICK n \in Nat : n = len \div s /\ s * n <= len
  <2>1. PICK n, r : Divided(len, s, n, r)
    BY <1>1, Division
  <2>2. n \in Nat /\ r \in Nat /\ n = len \div s /\ len = s * n + r
    BY <1>1, <2>1 DEF Divided
  <2>3. s * n \in Nat
    BY <1>1, <2>2, ProductNat
  <2>4. QED BY <2>2, <2>3
<1>4. k \in 1 .. n
  BY <1>2, <1>3 DEF Merged, Square
<1>5. PICK x \in Nat, y \in Nat : x = (k - 1) * s /\ y = k * s /\ x + s = y
  BY <1>1, <1>4, StepEnds
<1>6. y <= len
  <2>1. k * s <= n * s
    BY <1>1, <1>4, TimesBelow
  <2>2. n * s = s * n
    BY <1>1
  <2>3. s * n \in Nat
    BY <1>1, ProductNat
  <2>4. QED BY <1>3, <1>5, <2>1, <2>2, <2>3
<1>7. (k - 1) * g.merge * g.merge = x /\ k * g.merge * g.merge = y
  <2>1. PICK i \in Int : i = k - 1
    BY <1>4
  <2>2. i * m * m = i * (m * m) /\ k * m * m = k * (m * m)
    BY <1>4
  <2>3. QED BY <1>5, <2>1, <2>2 DEF Square
<1>8. Merged(g, hidden)[k] = SubSeq(hidden, x + 1, y)
  BY <1>2, <1>3, <1>4, <1>7 DEF Merged, Square
<1>9. PICK part : part = SubSeq(hidden, x + 1, y)
  OBVIOUS
<1>10. /\ IsSeq(part) /\ Len(part) = s
       /\ \A c \in 1 .. s : part[c] = hidden[x + c]
  <2>1. PICK i \in Nat \ {0} : i = x + 1
    OBVIOUS
  <2>2. y <= Len(hidden) /\ i <= y + 1 /\ y - i + 1 = s /\ y \in Int
    BY <1>1, <1>2, <1>5, <1>6, <2>1
  <2>3. /\ IsSeq(SubSeq(hidden, i, y)) /\ Len(SubSeq(hidden, i, y)) = y - i + 1
        /\ \A c \in 1 .. y - i + 1 : SubSeq(hidden, i, y)[c] = hidden[i + c - 1]
    BY <2>2, PartFacts
  <2>4. \A c \in 1 .. s : i + c - 1 = x + c
    BY <2>1
  <2>5. QED BY <1>9, <2>1, <2>2, <2>3, <2>4
<1>11. \A c \in 1 .. s : x + c \in 1 .. len
  BY <1>1, <1>5, <1>6
<1>12. Merged(g, hidden)[k] = part
  BY <1>8, <1>9
<1>13. \A c \in 1 .. s : (k - 1) * s + c = x + c
  BY <1>5
<1>14. MergedAt(Merged(g, hidden), k, hidden, s)
  BY <1>2, <1>10, <1>11, <1>12, <1>13 DEF MergedAt
<1>15. QED BY <1>2, <1>3, <1>4, <1>14

(* Every row of the tower, in every merged block of it, agrees with its cell. *)
PooledAgrees(pooler, grid, id) ==
  \A k \in DOMAIN pooler : \A c \in DOMAIN pooler[k] :
    pooler[k][c].patch.frames[1][1] = id /\ CellAgrees(pooler[k][c], grid)

LEMMA HiddenFacts ==
  ASSUME NEW g, NEW rows, IsSeq(rows), NEW grids, NEW layers
  PROVE  IsSeq(Hidden(g, rows, grids, layers)) /\ Len(Hidden(g, rows, grids, layers)) = Len(rows)
<1> DEFINE hidden == Hidden(g, rows, grids, layers)
<1>1. hidden = [n \in DOMAIN rows |-> hidden[n]]
  BY DEF Hidden
<1> HIDE DEF hidden
<1>2. IsSeq(hidden) /\ Len(hidden) = Len(rows)
  BY <1>1, OverIsSeq
<1>3. QED BY <1>2 DEF hidden

LEMMA PixelsAgree ==
  ASSUME Machine(Geometry), NEW block, TimeSteps(Geometry, block) \in Nat,
         NEW p, PixelsOf(p, Geometry, block), NEW layers
  PROVE  PooledAgrees(Merged(Geometry, Hidden(Geometry, p.rows, <<p.grid>>, layers)), p.grid, block.id)
<1>1. PICK m \in Nat \ {0}, T \in Nat : m = Geometry.merge /\ T = TimeSteps(Geometry, block)
  BY DEF Machine
<1>2. PICK F, rows, grid : F = StepFrames(Geometry, block) /\ rows = p.rows /\ grid = p.grid
  OBVIOUS
<1>3. PICK a \in Nat, b \in Nat : OfBlocks(grid, T, a, b, m)
  BY <1>1, <1>2 DEF PixelsOf
<1>4. CutBy(rows, Geometry, grid, T, F)
  BY <1>1, <1>2 DEF PixelsOf
<1>5. PICK n, order : Blocked(order, n, a, b, m)
  BY DEF Blocked
<1>6. n \in Nat
  BY <1>5, OrderDomain
<1>7. IsSeq(rows) /\ Len(rows) = T * n
  BY <1>1, <1>3, <1>4, <1>5, CutRows
<1>8. PICK hidden : hidden = Hidden(Geometry, rows, <<grid>>, layers)
  OBVIOUS
<1>9. IsSeq(hidden) /\ Len(hidden) = T * n
  BY <1>7, <1>8, HiddenFacts
<1>10. ASSUME NEW i \in 1 .. T
       PROVE  F[i][1][1] = block.id
  <2>1. 1 \in 1 .. Geometry.temporal
    BY DEF Machine
  <2>2. QED BY <1>1, <1>2, <2>1 DEF StepFrames
<1>11. ASSUME NEW x \in 1 .. T * n
       PROVE  hidden[x].patch.frames[1][1] = block.id /\ CellAgrees(hidden[x], grid)
  <2>1. InCell(x, T, n)
    BY <1>6, CellOf
  <2>2. PICK i \in 1 .. T, j \in 1 .. n : x = (i - 1) * n + j
    BY <2>1 DEF InCell
  <2>3. Geometry.side \in Nat \ {0}
    BY DEF Machine
  <2>4. HiddenAt(Hidden(Geometry, rows, <<grid>>, layers)[(i - 1) * n + j], F[i],
                 Cell(order, m, j), grid)
    BY <1>1, <1>3, <1>4, <1>5, <2>3, HiddenAgrees
  <2>5. hidden[x].patch = PatchAt(F[i], Cell(order, m, j)) /\ CellAgrees(hidden[x], grid)
    BY <1>8, <2>2, <2>4 DEF HiddenAt
  <2>6. hidden[x].patch.frames = F[i]
    BY <2>5 DEF PatchAt
  <2>7. QED BY <1>10, <2>5, <2>6
<1>12. PICK s, merged : Square(s, Geometry) /\ merged = Merged(Geometry, hidden)
  BY DEF Square
<1>13. ASSUME NEW k \in DOMAIN merged, NEW c \in DOMAIN merged[k]
       PROVE  merged[k][c].patch.frames[1][1] = block.id /\ CellAgrees(merged[k][c], grid)
  <2>1. MergedAt(merged, k, hidden, s)
    BY <1>1, <1>9, <1>12, MergedRows
  <2>2. c \in 1 .. s
    <3>1. IsSeq(merged[k]) /\ Len(merged[k]) = s
      BY <2>1 DEF MergedAt
    <3>2. QED BY <3>1, SeqFacts
  <2>3. PICK x \in 1 .. T * n : merged[k][c] = hidden[x]
    BY <1>9, <2>1, <2>2 DEF MergedAt
  <2>4. QED BY <1>11, <2>3
<1>14. PooledAgrees(merged, grid, block.id)
  BY <1>13 DEF PooledAgrees
<1>15. QED BY <1>2, <1>8, <1>12, <1>14
(* encode, with the processor before it. *)
GridOfVisual(block) ==
  (IF block.kind = "image" THEN Preprocess(Geometry, block)
   ELSE PreprocessVideo(Geometry, block)).some.grid

LEMMA EncodeAgrees ==
  ASSUME Machine(Geometry), NEW block, VisualOk(block), Encode(Geometry, block) # None
  PROVE  LET out == Encode(Geometry, block).some
         IN  out.grid = GridOfVisual(block) /\ PooledAgrees(out.pooler, GridOfVisual(block), block.id)
<1> DEFINE pixels == IF block.kind = "image" THEN Preprocess(Geometry, block)
                     ELSE PreprocessVideo(Geometry, block)
           grid == pixels.some.grid
           tower == Tower(Geometry, pixels.some.rows, <<grid>>)
<1>1. Encode(Geometry, block) = EncodePixels(Geometry, pixels)
  BY DEF Encode
<1>2. pixels # None => PixelsOf(pixels.some, Geometry, block)
  <2>1. CASE block.kind = "image" /\ ImageOk(block)
    BY <2>1, ImagePixels
  <2>2. CASE block.kind = "video" /\ VideoOk(block)
    BY <2>2, VideoPixels
  <2>3. QED BY <2>1, <2>2 DEF VisualOk
<1>3. grid = GridOfVisual(block)
  BY DEF GridOfVisual
<1> HIDE DEF pixels
<1>4. pixels # None
  BY <1>1 DEF EncodePixels
<1>5. Encode(Geometry, block) = WithGrid(grid, tower)
  BY <1>1, <1>4 DEF EncodePixels
<1>6. tower # None
  BY <1>5 DEF WithGrid
<1>7. tower.some.pooler
        = Merged(Geometry, Hidden(Geometry, pixels.some.rows, <<grid>>, Geometry.depth))
  BY <1>6 DEF Tower, Some
<1>8. TimeSteps(Geometry, block) \in Nat
  BY TimeStepsNat DEF VisualOk
<1>9. PooledAgrees(tower.some.pooler, grid, block.id)
  <2>1. PICK p : p = pixels.some /\ PixelsOf(p, Geometry, block)
    BY <1>2, <1>4
  <2>2. PooledAgrees(Merged(Geometry, Hidden(Geometry, p.rows, <<p.grid>>, Geometry.depth)),
                     p.grid, block.id)
    BY <1>8, <2>1, PixelsAgree
  <2>3. QED BY <1>7, <2>1, <2>2
<1> HIDE DEF grid, tower
<1>10. Encode(Geometry, block).some = [grid |-> grid, pooler |-> tower.some.pooler,
                                       deepstack |-> tower.some.deepstack]
  BY <1>5, <1>6 DEF WithGrid, Some
<1>11. QED BY <1>3, <1>9, <1>10

EncIs(e) ==
  /\ IsSeq(e.deepstack)
  /\ e.image_counts \in Seq(Nat) /\ e.video_counts \in Seq(Nat)
  /\ e.image_grids \in Seq(Grids) /\ e.video_grids \in Seq(Grids)

LEMMA NothingIs == EncIs(NothingEncoded)
BY ShortSeqs DEF EncIs, NothingEncoded

LEMMA WithVisualIs ==
  ASSUME NEW g, Machine(g), NEW e, EncIs(e), NEW block, NEW out, EncodedOk(out)
  PROVE  EncIs(WithVisual(g, e, block, out))
<1> DEFINE rows == [i \in DOMAIN out.deepstack |-> out.deepstack[i].rows]
           frame == (out.grid[2] \div g.merge) * (out.grid[3] \div g.merge)
           deepstack == [i \in DOMAIN rows |->
                          IF e.deepstack = <<>> THEN rows[i] ELSE e.deepstack[i] \o rows[i]]
           frames == [f \in 1 .. out.grid[1] |-> frame]
           image == block.kind = "image"
           new == WithVisual(g, e, block, out)
<1>1. IsSeq(deepstack)
  <2>1. DOMAIN deepstack = DOMAIN out.deepstack
    OBVIOUS
  <2>2. PICK d : d = deepstack /\ d = [i \in DOMAIN out.deepstack |-> d[i]]
    OBVIOUS
  <2>3. IsSeq(d)
    <3>1. IsSeq(out.deepstack)
      BY DEF EncodedOk
    <3>2. PICK s : s = out.deepstack
      OBVIOUS
    <3>3. IsSeq(s) /\ d = [i \in DOMAIN s |-> d[i]]
      BY <2>2, <3>1, <3>2
    <3>4. QED BY <3>3, OverIsSeq
  <2>4. QED BY <2>2, <2>3
<1>2. frame \in Nat
  <2>1. PICK a \in Nat : a = out.grid[2] \div g.merge
    BY GridParts, DivFacts DEF EncodedOk, Machine
  <2>2. PICK b \in Nat : b = out.grid[3] \div g.merge
    BY GridParts, DivFacts DEF EncodedOk, Machine
  <2>3. QED BY <2>1, <2>2, ProductNat
<1>3. frames \in Seq(Nat)
  <2> HIDE DEF frame
  <2>1. PICK n \in Nat : n = out.grid[1]
    BY GridParts DEF EncodedOk
  <2>2. [f \in 1 .. n |-> frame] \in [1 .. n -> Nat]
    BY <1>2
  <2>3. QED BY <2>1, <2>2
<1>4. <<Len(out.pooler)>> \in Seq(Nat) /\ <<out.grid>> \in Seq(Grids)
  <2>1. Len(out.pooler) \in Nat /\ out.grid \in Grids
    BY SeqFacts DEF EncodedOk
  <2>2. QED BY <2>1
<1>5. /\ new.deepstack = deepstack
      /\ new.image_counts = IF image THEN e.image_counts \o <<Len(out.pooler)>> ELSE e.image_counts
      /\ new.video_counts = IF ~image THEN e.video_counts \o frames ELSE e.video_counts
      /\ new.image_grids = IF image THEN e.image_grids \o <<out.grid>> ELSE e.image_grids
      /\ new.video_grids = IF ~image THEN e.video_grids \o <<out.grid>> ELSE e.video_grids
  BY DEF WithVisual
<1> HIDE DEF deepstack, frames, image, new
<1>6. \A S : \A s, t \in Seq(S) : s \o t \in Seq(S)
  OBVIOUS
<1>7. /\ e.image_counts \in Seq(Nat) /\ e.video_counts \in Seq(Nat)
      /\ e.image_grids \in Seq(Grids) /\ e.video_grids \in Seq(Grids)
  BY DEF EncIs
<1>8. new.image_counts \in Seq(Nat)
  <2>1. PICK s, t : s = e.image_counts /\ t = <<Len(out.pooler)>>
    OBVIOUS
  <2>2. s \o t \in Seq(Nat)
    BY <1>4, <1>7, <2>1
  <2>3. QED BY <1>5, <1>7, <2>1, <2>2
<1>9. new.video_counts \in Seq(Nat)
  BY <1>3, <1>5, <1>6, <1>7
<1>10. new.image_grids \in Seq(Grids)
  <2>1. PICK s, t : s = e.image_grids /\ t = <<out.grid>>
    OBVIOUS
  <2>2. s \o t \in Seq(Grids)
    BY <1>4, <1>7, <2>1
  <2>3. QED BY <1>5, <1>7, <2>1, <2>2
<1>11. new.video_grids \in Seq(Grids)
  <2>1. PICK s, t : s = e.video_grids /\ t = <<out.grid>>
    OBVIOUS
  <2>2. s \o t \in Seq(Grids)
    BY <1>4, <1>7, <2>1
  <2>3. QED BY <1>5, <1>7, <2>1, <2>2
<1>12. EncIs(new)
  BY <1>1, <1>5, <1>8, <1>9, <1>10, <1>11 DEF EncIs
<1>13. QED BY <1>12 DEF new

LEMMA ShortTyped ==
  ASSUME NEW S
  PROVE  <<>> \in Seq(S) /\ \A x \in S : <<x>> \in Seq(S)
OBVIOUS

(* The blocks of a conversation that are not text. *)
LEMMA BlocksOk ==
  ASSUME NEW r \in Requests
  PROVE  IsSeq(Visuals(r.messages)) /\ \A v \in DOMAIN Visuals(r.messages) : VisualOk(Visuals(r.messages)[v])
<1> DEFINE messages == r.messages
           Kept(m) == [c \in DOMAIN messages[m].content |->
                         IF messages[m].content[c].kind = "text" THEN <<>>
                         ELSE <<messages[m].content[c]>>]
           turns == [m \in DOMAIN messages |-> FlattenSeq(Kept(m))]
           All == UNION {ToSet(messages[m].content) : m \in DOMAIN messages}
           S == {b \in All : VisualOk(b)}
<1>1. IsSeq(messages) /\ \A m \in DOMAIN messages : IsSeq(messages[m].content)
  BY RequestFacts DEF Conversation
<1>2. ASSUME NEW m \in DOMAIN messages, NEW c \in DOMAIN messages[m].content,
             messages[m].content[c].kind # "text"
      PROVE  messages[m].content[c] \in S
  <2> DEFINE content == messages[m].content
             block == content[c]
  <2>1. \/ block.kind = "text"
        \/ block.kind = "image" /\ block.height \in Nat /\ block.width \in Nat
        \/ /\ block.kind = "video" /\ block.frames \in Seq(ToSet(block.frames))
           /\ \A f \in DOMAIN block.frames :
                 block.frames[f].height \in Nat /\ block.frames[f].width \in Nat
    BY RequestsAssumption
  <2>2. block \in All
    BY DEF ToSet
  <2> HIDE DEF block, All
  <2>3. VisualOk(block)
    <3>1. CASE block.kind = "image" /\ block.height \in Nat /\ block.width \in Nat
      BY <3>1 DEF VisualOk, ImageOk
    <3>2. CASE /\ block.kind = "video" /\ block.frames \in Seq(ToSet(block.frames))
               /\ \A f \in DOMAIN block.frames :
                     block.frames[f].height \in Nat /\ block.frames[f].width \in Nat
      BY <3>2 DEF VisualOk, VideoOk, ImageOk, IsSeq
    <3>3. block.kind # "text"
      BY <1>2 DEF block
    <3>4. QED BY <2>1, <3>1, <3>2, <3>3
  <2>4. QED BY <2>2, <2>3 DEF block
<1> HIDE DEF S
<1>3. ASSUME NEW m \in DOMAIN messages
      PROVE  FlattenSeq(Kept(m)) \in Seq(S)
  <2>1. PICK content : content = messages[m].content
    OBVIOUS
  <2> DEFINE kept == Kept(m)
  <2>2. \A c \in DOMAIN content : kept[c] \in Seq(S)
    <3>1. ASSUME NEW c \in DOMAIN content PROVE kept[c] \in Seq(S)
      <4>1. CASE content[c].kind = "text"
        <5>1. kept[c] = <<>>
          BY <2>1, <4>1
        <5>2. QED BY <5>1, ShortTyped
      <4>2. CASE content[c].kind # "text"
        <5>1. content[c] \in S /\ kept[c] = <<content[c]>>
          BY <1>2, <2>1, <4>2
        <5>2. QED BY <5>1, ShortTyped
      <4>3. QED BY <4>1, <4>2
    <3>2. QED BY <3>1
  <2>3. kept = [c \in DOMAIN content |-> kept[c]]
    BY <2>1
  <2> HIDE DEF kept
  <2>4. IsSeq(content)
    BY <1>1, <2>1
  <2>5. IsSeq(kept) /\ Len(kept) = Len(content) /\ DOMAIN content = 1 .. Len(content)
    BY <2>3, <2>4, OverIsSeq, SeqFacts
  <2>6. \A c \in 1 .. Len(kept) : kept[c] \in Seq(S)
    BY <2>2, <2>5
  <2>7. FlattenSeq(kept) \in Seq(S)
    BY <2>5, <2>6, FlattenTyped
  <2>8. QED BY <2>7 DEF kept
<1>4. FlattenSeq(turns) \in Seq(S)
  <2>1. PICK s : s = messages
    OBVIOUS
  <2> HIDE DEF Kept
  <2>2. turns = [m \in DOMAIN s |-> turns[m]] /\ \A m \in DOMAIN s : turns[m] \in Seq(S)
    BY <1>3, <2>1
  <2> HIDE DEF turns
  <2>3. IsSeq(s)
    BY <1>1, <2>1
  <2>4. IsSeq(turns) /\ Len(turns) = Len(s) /\ DOMAIN s = 1 .. Len(s)
    BY <2>2, <2>3, OverIsSeq, SeqFacts
  <2>5. \A m \in 1 .. Len(turns) : turns[m] \in Seq(S)
    BY <2>2, <2>4
  <2>6. QED BY <2>4, <2>5, FlattenTyped
<1>5. Visuals(messages) = FlattenSeq(turns)
  BY DEF Visuals
<1>6. PICK v : v = Visuals(messages) /\ v \in Seq(S)
  BY <1>4, <1>5
<1>7. \A k \in DOMAIN v : v[k] \in S
  BY <1>6
<1>8. IsSeq(v)
  BY <1>6, TypedIsSeq
<1>9. QED BY <1>6, <1>7, <1>8 DEF S

-----------------------------------------------------------------------------
(* The prompt with its placeholders expanded still ends with its text.         *)

EndsWith(ids, x) == Filled(ids) /\ ids[Len(ids)] = x

LEMMA JoinedEnds ==
  ASSUME NEW s, IsSeq(s), NEW x
  PROVE  EndsWith(s \o <<x>>, x)
<1>1. PICK t : t = <<x>> /\ IsSeq(t) /\ Len(t) = 1 /\ t[1] = x
  BY ShortSeqs
<1>2. PICK n \in Nat : n = Len(s)
  BY SeqFacts
<1>3. /\ IsSeq(s \o t) /\ Len(s \o t) = n + 1
      /\ \A i \in 1 .. 1 : (s \o t)[n + i] = t[i]
  BY <1>1, <1>2, JoinFacts
<1>4. (s \o t)[n + 1] = x
  BY <1>1, <1>3
<1>5. QED BY <1>1, <1>2, <1>3, <1>4 DEF EndsWith, Filled

LEMMA OrdinalIn ==
  ASSUME NEW ids, IsSeq(ids), NEW tokens, NEW p \in 1 .. Len(ids), ids[p] \in tokens
  PROVE  Ordinal(ids, tokens, p) \in 1 .. Ordinal(ids, tokens, Len(ids))
<1>1. PICK n \in Nat : n = Len(ids)
  BY SeqFacts
<1> DEFINE S == {q \in 1 .. p : ids[q] \in tokens}
           T == {q \in 1 .. n : ids[q] \in tokens}
<1>2. S \subseteq 1 .. p /\ T \subseteq 1 .. n /\ S \subseteq T /\ p \in S
  BY <1>1
<1>3. Ordinal(ids, tokens, p) = Cardinality(S) /\ Ordinal(ids, tokens, Len(ids)) = Cardinality(T)
  BY <1>1 DEF Ordinal
<1> HIDE DEF S, T
<1>4. IsFiniteSet(T) /\ IsFiniteSet(S)
  <2>1. IsFiniteSet(1 .. n) /\ IsFiniteSet(1 .. p)
    BY FS_Interval
  <2>2. QED BY <1>2, <2>1, FS_Subset
<1>5. Cardinality(S) \in Nat /\ Cardinality(T) \in Nat /\ Cardinality(S) <= Cardinality(T)
  BY <1>2, <1>4, FS_Subset, FS_CardinalityType
<1>6. Cardinality(S) # 0
  BY <1>2, <1>4, FS_EmptySet
<1>7. QED BY <1>3, <1>5, <1>6

LEMMA ExpandEnds ==
  ASSUME NEW ids, NEW x, EndsWith(ids, x), NEW token, x # token, NEW counts \in Seq(Nat),
         ExpandVisionPlaceholders(ids, token, counts) # None
  PROVE  EndsWith(ExpandVisionPlaceholders(ids, token, counts).some, x)
<1> DEFINE Expansion(p) == IF ids[p] = token
                           THEN [i \in 1 .. counts[Ordinal(ids, {token}, p)] |-> token]
                           ELSE <<ids[p]>>
           parts == [p \in DOMAIN ids |-> Expansion(p)]
<1>1. PICK n \in Nat : n = Len(ids) /\ n > 0 /\ DOMAIN ids = 1 .. n /\ IsSeq(ids) /\ ids[n] = x
  BY SeqFacts DEF EndsWith, Filled
<1>2. /\ Ordinal(ids, {token}, n) = Len(counts)
      /\ ExpandVisionPlaceholders(ids, token, counts).some = FlattenSeq(parts)
  BY <1>1 DEF ExpandVisionPlaceholders, Some
<1>3. ASSUME NEW p \in 1 .. n
      PROVE  IsSeq(Expansion(p))
  <2>1. CASE ids[p] = token
    <3>1. Ordinal(ids, {token}, p) \in 1 .. Len(counts)
      <4>1. ids[p] \in {token}
        BY <2>1
      <4>2. QED BY <1>1, <1>2, <4>1, OrdinalIn
    <3>2. PICK k \in Nat : k = counts[Ordinal(ids, {token}, p)]
      BY <3>1
    <3> DEFINE run == [i \in 1 .. k |-> token]
    <3>3. DOMAIN run = 1 .. k /\ run = [i \in 1 .. k |-> run[i]]
      OBVIOUS
    <3>4. Expansion(p) = run
      BY <2>1, <3>2
    <3> HIDE DEF run
    <3>5. IsSeq(run)
      BY <3>3, MappedIsSeq
    <3>6. QED BY <3>4, <3>5
  <2>2. CASE ids[p] # token
    BY <2>2, ShortSeqs
  <2>3. QED BY <2>1, <2>2
<1>4. Expansion(n) = <<x>>
  BY <1>1
<1>5. parts = [p \in 1 .. n |-> Expansion(p)]
  BY <1>1
<1> HIDE DEF Expansion
<1>6. /\ DOMAIN parts = 1 .. n /\ parts = [p \in 1 .. n |-> parts[p]]
      /\ (\A p \in 1 .. n : IsSeq(parts[p])) /\ parts[n] = <<x>>
  BY <1>1, <1>3, <1>4, <1>5
<1> HIDE DEF parts
<1>7. IsSeq(parts) /\ Len(parts) = n
  BY <1>6, MappedIsSeq
<1>8. PICK before : IsSeq(before) /\ FlattenSeq(parts) = before \o parts[n]
  <2>1. Len(parts) # 0 /\ \A p \in 1 .. Len(parts) : IsSeq(parts[p])
    BY <1>1, <1>6, <1>7
  <2>2. \E before : IsSeq(before) /\ FlattenSeq(parts) = before \o parts[Len(parts)]
    BY <1>7, <2>1, FlattenEnds
  <2>3. QED BY <1>7, <2>2
<1>9. EndsWith(before \o <<x>>, x)
  BY <1>8, JoinedEnds
<1>10. FlattenSeq(parts) = before \o <<x>>
  BY <1>6, <1>8
<1>11. QED BY <1>2, <1>9, <1>10

LEMMA RenderEnds ==
  ASSUME NEW messages, Conversation(messages), NEW tps \in Nat \ {0}
  PROVE  EndsWith(Render(messages, tps), Asked)
<1>1. PICK framed : IsSeq(framed) /\ Render(messages, tps) = framed \o <<Asked>>
  BY RenderFramed
<1>2. QED BY <1>1, JoinedEnds

(* prepare_multimodal's prompt. *)
LEMMA ExpandedEnds ==
  ASSUME NEW messages, Conversation(messages), NEW tps \in Nat \ {0}, NEW e, EncIs(e),
         Expanded(Render(messages, tps), e) # None
  PROVE  EndsWith(Expanded(Render(messages, tps), e).some, Asked)
<1> DEFINE prompt == Render(messages, tps)
           images == ExpandVisionPlaceholders(prompt, ImagePad, e.image_counts)
           all == ExpandVisionPlaceholders(images.some, VideoPad, e.video_counts)
<1>1. EndsWith(prompt, Asked)
  BY RenderEnds
<1> HIDE DEF prompt
<1>2. Asked # ImagePad /\ Asked # VideoPad
  BY DEF Asked, ImagePad, VideoPad, Token
<1>3. images # None /\ all # None /\ Expanded(prompt, e) = all
  BY DEF Expanded, prompt
<1>4. e.image_counts \in Seq(Nat) /\ e.video_counts \in Seq(Nat)
  BY DEF EncIs
<1>5. EndsWith(images.some, Asked)
  BY <1>1, <1>2, <1>3, <1>4, ExpandEnds
<1> HIDE DEF images
<1>6. EndsWith(all.some, Asked)
  BY <1>2, <1>3, <1>4, <1>5, ExpandEnds
<1>7. QED BY <1>3, <1>6 DEF prompt

-----------------------------------------------------------------------------
(* The walk of mrope_positions_mm over the tokens of a prompt.                 *)

Pads == {ImagePad, VideoPad}

(* f[p] is what the loop has after the first p tokens. *)
IsWalk(f, ids, images, frames, merge, start) ==
  /\ f[0] = start
  /\ \A p \in 1 .. Len(ids) : f[p] = MropeVisit(f[p - 1], ids, p, images, frames, merge)

LEMMA WalkRuns ==
  ASSUME NEW ids, IsSeq(ids), NEW images, NEW frames, NEW merge, NEW start
  PROVE  \E f : /\ IsWalk(f, ids, images, frames, merge, start)
                /\ MropeWalk(ids, images, frames, merge, start) = f[Len(ids)]
<1>1. PICK N \in Nat : N = Len(ids)
  BY SeqFacts
<1> DEFINE Step(s, i) == MropeVisit(s, ids, i, images, frames, merge)
           Upto(f, k) == f = [i \in 0 .. k |-> IF i = 0 THEN start ELSE Step(f[i - 1], i)]
           P == {k \in 0 .. N : \E f : Upto(f, k)}
<1>2. 0 \in P
  <2> HIDE DEF Step
  <2> DEFINE f == [i \in 0 .. 0 |-> start]
  <2>1. f = [i \in 0 .. 0 |-> IF i = 0 THEN start ELSE Step(f[i - 1], i)]
    OBVIOUS
  <2> HIDE DEF f
  <2>2. Upto(f, 0)
    BY <2>1
  <2>3. \E x : Upto(x, 0)
    BY <2>2
  <2> HIDE DEF Upto
  <2>4. QED BY <2>3
<1>3. ASSUME NEW k \in 1 .. N, k - 1 \in P
      PROVE  k \in P
  <2> HIDE DEF Step
  <2>1. PICK g : g = [i \in 0 .. k - 1 |-> IF i = 0 THEN start ELSE Step(g[i - 1], i)]
    BY <1>3
  <2> DEFINE f == [i \in 0 .. k |-> IF i = k THEN Step(g[k - 1], k) ELSE g[i]]
  <2>2. ASSUME NEW i \in 0 .. k
        PROVE  f[i] = IF i = 0 THEN start ELSE Step(f[i - 1], i)
    <3>1. CASE i = 0
      <4>1. f[i] = g[0] /\ 0 \in 0 .. k - 1
        BY <3>1
      <4>2. QED BY <2>1, <3>1, <4>1
    <3>2. CASE i # 0
      <4>1. i - 1 \in 0 .. k - 1 /\ f[i - 1] = g[i - 1]
        BY <3>2
      <4>2. CASE i = k
        BY <3>2, <4>1, <4>2
      <4>3. CASE i # k
        <5>1. i \in 0 .. k - 1 /\ f[i] = g[i]
          BY <4>3
        <5>2. g[i] = Step(g[i - 1], i)
          BY <2>1, <3>2, <5>1
        <5>3. QED BY <3>2, <4>1, <5>1, <5>2
      <4>4. QED BY <4>2, <4>3
    <3>3. QED BY <3>1, <3>2
  <2>3. DOMAIN f = 0 .. k /\ f = [i \in 0 .. k |-> f[i]]
    OBVIOUS
  <2> HIDE DEF f
  <2>4. Upto(f, k)
    BY <2>2, <2>3
  <2>5. \E x : Upto(x, k)
    BY <2>4
  <2> HIDE DEF Upto
  <2>6. QED BY <2>5
<1>4. N \in P
  <2> HIDE DEF P
  <2>1. \A k \in 0 .. N : k \in P
    BY <1>2, <1>3, Climb
  <2>2. N \in 0 .. N
    OBVIOUS
  <2>3. QED BY <2>1, <2>2
<1>5. PICK a : a = (CHOOSE f : Upto(f, N)) /\ Upto(a, N)
  <2>1. \E f : Upto(f, N)
    BY <1>4
  <2> HIDE DEF Upto
  <2>2. QED BY <2>1
<1>6. MropeWalk(ids, images, frames, merge, start) = a[N]
  BY <1>1, <1>5 DEF MropeWalk
<1>7. IsWalk(a, ids, images, frames, merge, start)
  <2> HIDE DEF Step
  <2>1. a[0] = start
    <3>1. 0 \in 0 .. N
      OBVIOUS
    <3>2. a[0] = IF 0 = 0 THEN start ELSE Step(a[0 - 1], 0)
      BY <1>5, <3>1
    <3>3. QED BY <3>2
  <2>2. ASSUME NEW i \in 1 .. N
        PROVE  a[i] = Step(a[i - 1], i)
    <3>1. i \in 0 .. N /\ i # 0
      OBVIOUS
    <3>2. QED BY <1>5, <3>1
  <2> USE DEF Step
  <2>3. QED BY <1>1, <2>1, <2>2 DEF IsWalk
<1>8. QED BY <1>1, <1>6, <1>7

(* A run of placeholders ends before the text that the prompt ends with. *)
LEMMA RunEnds ==
  ASSUME NEW ids, NEW x, EndsWith(ids, x), NEW p \in 1 .. Len(ids), ids[p] # x
  PROVE  RunLength(ids, p) \in 0 .. Len(ids) - p
<1>1. PICK n \in Nat : n = Len(ids)
  BY SeqFacts DEF EndsWith, Filled
<1> DEFINE S == {q \in p .. n : \A k \in p .. q : ids[k] = ids[p]}
<1>2. S \subseteq p .. n - 1
  <2>1. ASSUME NEW q \in S
        PROVE  q # n
    <3>1. q \in p .. n /\ \A k \in p .. q : ids[k] = ids[p]
      OBVIOUS
    <3>2. q \in p .. q
      BY <3>1
    <3>3. ids[q] = ids[p]
      BY <3>1, <3>2
    <3>4. QED BY <1>1, <3>3 DEF EndsWith
  <2>2. QED BY <2>1
<1>3. RunLength(ids, p) = Cardinality(S)
  BY <1>1 DEF RunLength
<1> HIDE DEF S
<1>4. p <= n - 1 + 1
  BY <1>1
<1>5. IsFiniteSet(p .. n - 1) /\ Cardinality(p .. n - 1) = n - p
  <2>1. PICK m \in Int : m = n - 1
    OBVIOUS
  <2>2. /\ IsFiniteSet(p .. m)
        /\ Cardinality(p .. m) = IF p > m THEN 0 ELSE m - p + 1
    BY FS_Interval
  <2>3. QED BY <1>1, <2>1, <2>2
<1>6. IsFiniteSet(S) /\ Cardinality(S) <= n - p
  <2>1. IsFiniteSet(S) /\ Cardinality(S) <= Cardinality(p .. n - 1)
    BY <1>2, <1>5, FS_Subset
  <2>2. QED BY <1>5, <2>1
<1>7. Cardinality(S) \in Nat
  BY <1>6, FS_CardinalityType
<1>8. QED BY <1>1, <1>3, <1>6, <1>7

(* A text token after them changes nothing that the loop has done before it. *)
LEMMA VisitSame ==
  ASSUME NEW ids, IsSeq(ids), NEW x, x \notin Pads, NEW p \in 1 .. Len(ids), NEW s,
         NEW images, NEW frames, NEW merge
  PROVE  MropeVisit(s, ids \o <<x>>, p, images, frames, merge)
           = MropeVisit(s, ids, p, images, frames, merge)
<1>1. PICK n \in Nat : n = Len(ids)
  BY SeqFacts
<1>2. PICK t : t = <<x>> /\ IsSeq(t) /\ Len(t) = 1 /\ t[1] = x
  BY ShortSeqs
<1> DEFINE more == ids \o t
<1>3. /\ IsSeq(more) /\ Len(more) = n + 1
      /\ \A i \in 1 .. n : more[i] = ids[i]
      /\ \A i \in 1 .. 1 : more[n + i] = t[i]
  BY <1>1, <1>2, JoinFacts
<1>4. more[n + 1] = x /\ more[p] = ids[p]
  BY <1>1, <1>2, <1>3
<1> HIDE DEF more
<1>5. ASSUME ids[p] \in Pads
      PROVE  RunLength(more, p) = RunLength(ids, p)
  <2> DEFINE S == {q \in p .. n + 1 : \A k \in p .. q : more[k] = more[p]}
             T == {q \in p .. n : \A k \in p .. q : ids[k] = ids[p]}
  <2>1. ASSUME NEW q \in S
        PROVE  q \in T
    <3>1. q \in p .. n + 1 /\ \A k \in p .. q : more[k] = ids[p]
      BY <1>4
    <3>2. q # n + 1
      <4>1. q \in p .. q
        BY <3>1
      <4>2. more[q] = ids[p]
        BY <3>1, <4>1
      <4>3. x # ids[p]
        BY <1>5
      <4>4. QED BY <1>4, <4>2, <4>3
    <3>3. q \in p .. n
      BY <3>1, <3>2
    <3>4. \A k \in p .. q : ids[k] = ids[p]
      BY <1>1, <1>3, <3>1, <3>3
    <3>5. QED BY <3>3, <3>4
  <2>2. ASSUME NEW q \in T
        PROVE  q \in S
    <3>1. q \in p .. n /\ \A k \in p .. q : ids[k] = ids[p]
      OBVIOUS
    <3>2. q \in p .. n + 1
      BY <3>1
    <3>3. \A k \in p .. q : more[k] = more[p]
      BY <1>1, <1>3, <1>4, <3>1
    <3>4. QED BY <3>2, <3>3
  <2>3. RunLength(more, p) = Cardinality(S) /\ RunLength(ids, p) = Cardinality(T)
    BY <1>1, <1>3 DEF RunLength
  <2> HIDE DEF S, T
  <2>4. S = T
    BY <2>1, <2>2
  <2>5. QED BY <2>3, <2>4
<1>6. MropeVisit(s, more, p, images, frames, merge) = MropeVisit(s, ids, p, images, frames, merge)
  <2>1. CASE ids[p] \in Pads
    BY <1>4, <1>5, <2>1 DEF MropeVisit
  <2>2. CASE ids[p] \notin Pads
    BY <1>4, <2>2 DEF MropeVisit, Pads
  <2>3. QED BY <2>1, <2>2
<1>7. QED BY <1>2, <1>6 DEF more

(* A position (t, h, w). *)
Positions == Nat \X Nat \X Nat

LEMMA LargestFacts ==
  ASSUME NEW a \in Nat, NEW b \in Nat, NEW c \in Nat
  PROVE  /\ Largest(a, b, c) \in Nat
         /\ a <= Largest(a, b, c) /\ b <= Largest(a, b, c) /\ c <= Largest(a, b, c)
<1>1. \E x \in {a, b, c} : \A y \in {a, b, c} : y <= x
  <2>1. CASE a >= b /\ a >= c
    BY <2>1
  <2>2. CASE b >= a /\ b >= c
    BY <2>2
  <2>3. CASE c >= a /\ c >= b
    BY <2>3
  <2>4. QED BY <2>1, <2>2, <2>3
<1>2. Largest(a, b, c) \in {a, b, c} /\ \A y \in {a, b, c} : y <= Largest(a, b, c)
  BY <1>1 DEF Largest
<1>3. QED BY <1>2

(* Every position in rows is below c. *)
Below(rows, c) == \A r \in DOMAIN rows : \A axis \in 1 .. 3 : rows[r][axis] < c

(* A block laid out from cur on. *)
LaidOutOk(rows, n, c) == rows \in Seq(Positions) /\ Len(rows) = n /\ Below(rows, c)

LEMMA LaidOutFacts ==
  ASSUME NEW gt \in Nat \ {0}, NEW gh \in Nat \ {0}, NEW gw \in Nat \ {0}, NEW cur \in Nat,
         NEW c \in Nat, c = cur + Advance(gt, gh, gw), NEW n \in Nat, n = gt * gh * gw
  PROVE  LaidOutOk(LaidOut(gt, gh, gw, cur), n, c)
<1>1. PICK f \in Nat \ {0} : f = gh * gw
  OBVIOUS
<1>2. n = gt * f
  BY <1>1
<1>3. PICK most \in Nat : most = Advance(gt, gh, gw) /\ gt <= most /\ gh <= most /\ gw <= most
  BY LargestFacts DEF Advance
<1> DEFINE rows == LaidOut(gt, gh, gw, cur)
           rem(k) == (k - 1) % f
           row(k) == <<(k - 1) \div f + cur, rem(k) \div gw + cur, (rem(k) % gw) + cur>>
<1>4. rows = [k \in 1 .. n |-> row(k)]
  BY <1>1 DEF LaidOut
<1>5. ASSUME NEW k \in 1 .. n
      PROVE  row(k) \in Positions /\ \A axis \in 1 .. 3 : row(k)[axis] < c
  <2>1. PICK j \in Nat : j = k - 1 /\ j < gt * f
    BY <1>2
  <2>2. PICK a \in Nat : a = j \div f /\ a < gt
    BY <2>1, QuotientBelow
  <2>3. PICK i \in Nat : i = j % f /\ i < gh * gw
    <3>1. j % f \in 0 .. f - 1
      BY DivFacts
    <3>2. QED BY <1>1, <3>1
  <2>4. PICK b \in Nat : b = i \div gw /\ b < gh
    BY <2>3, QuotientBelow
  <2>5. PICK d \in Nat : d = i % gw /\ d < gw
    <3>1. i % gw \in 0 .. gw - 1
      BY DivFacts
    <3>2. QED BY <3>1
  <2>6. row(k) = <<a + cur, b + cur, d + cur>>
    BY <2>1, <2>2, <2>3, <2>4, <2>5
  <2> HIDE DEF row
  <2>7. a + cur < c /\ b + cur < c /\ d + cur < c
    BY <1>3, <2>2, <2>4, <2>5
  <2>8. PICK t : t = <<a + cur, b + cur, d + cur>> /\ t \in Positions
    <3>1. <<a + cur, b + cur, d + cur>> \in Positions
      BY DEF Positions
    <3>2. QED BY <3>1
  <2>9. t[1] = a + cur /\ t[2] = b + cur /\ t[3] = d + cur
    BY <2>8
  <2>10. \A axis \in 1 .. 3 : axis = 1 \/ axis = 2 \/ axis = 3
    OBVIOUS
  <2>11. \A axis \in 1 .. 3 : t[axis] < c
    BY <2>7, <2>9, <2>10
  <2>12. QED BY <2>6, <2>8, <2>11
<1> HIDE DEF row
<1>6. rows \in [1 .. n -> Positions]
  BY <1>4, <1>5
<1>7. rows \in Seq(Positions) /\ Len(rows) = n /\ DOMAIN rows = 1 .. n
  BY <1>6
<1>8. Below(rows, c)
  BY <1>4, <1>5, <1>7 DEF Below
<1>9. QED BY <1>7, <1>8 DEF LaidOutOk

LEMMA BelowJoined ==
  ASSUME NEW n \in Nat, NEW k \in Nat, NEW low \in Nat, NEW c \in Nat, low <= c,
         NEW rows, NEW more, LaidOutOk(rows, n, low), LaidOutOk(more, k, c)
  PROVE  LaidOutOk(rows \o more, n + k, c)
<1>1. rows \in Seq(Positions) /\ more \in Seq(Positions) /\ Len(rows) = n /\ Len(more) = k
  BY DEF LaidOutOk
<1>2. rows \o more \in Seq(Positions) /\ Len(rows \o more) = n + k
  BY <1>1
<1>3. IsSeq(rows) /\ IsSeq(more)
  BY <1>1, TypedIsSeq
<1>4. Parts(rows \o more, rows, more)
  BY <1>3, JoinParts
<1> DEFINE all == rows \o more
<1>5. DOMAIN all = 1 .. n + k /\ DOMAIN rows = 1 .. n /\ DOMAIN more = 1 .. k
  BY <1>1, <1>2
<1>6. /\ \A i \in 1 .. n : all[i] = rows[i]
      /\ \A i \in 1 .. k : all[n + i] = more[i]
  BY <1>1, <1>4 DEF Parts
<1> HIDE DEF all
<1>7. ASSUME NEW r \in 1 .. n + k, NEW axis \in 1 .. 3
      PROVE  all[r][axis] < c
  <2>1. CASE r <= n
    <3>1. r \in 1 .. n
      BY <2>1
    <3>2. PICK t \in Positions : t = rows[r]
      BY <1>1, <1>5, <3>1
    <3>3. t[axis] < low
      BY <1>5, <3>1, <3>2 DEF LaidOutOk, Below
    <3>4. t[axis] \in Nat
      BY DEF Positions
    <3>5. all[r] = t
      BY <1>6, <3>1, <3>2
    <3>6. t[axis] < c
      BY <3>3, <3>4
    <3>7. QED BY <3>5, <3>6
  <2>2. CASE ~ (r <= n)
    <3>1. PICK i \in 1 .. k : r = n + i
      BY <2>2
    <3>2. all[r] = more[i]
      BY <1>6, <3>1
    <3>3. more[i][axis] < c
      BY <1>5, <3>1 DEF LaidOutOk, Below
    <3>4. QED BY <3>2, <3>3
  <2>3. QED BY <2>1, <2>2
<1>8. Below(all, c)
  BY <1>5, <1>7 DEF Below
<1>9. QED BY <1>2, <1>8 DEF LaidOutOk, all

(* What the loop has after the first p of n tokens, the last of which is text. *)
WalkStates ==
  [ok : BOOLEAN, next : Nat, cur : Nat, img : Nat, vid : Nat, rows : Seq(Positions)]

WalkAt(s, p, n) ==
  /\ s \in WalkStates
  /\ s.ok => p < s.next /\ s.next <= n /\ LaidOutOk(s.rows, s.next - 1, s.cur)

LEMMA AppendIsJoin ==
  ASSUME NEW S, NEW s \in Seq(S), NEW x \in S
  PROVE  Append(s, x) = s \o <<x>>
OBVIOUS

MovedTo(s, t, rows, c, next) ==
  /\ t \in WalkStates /\ t.ok = s.ok
  /\ t.next = next /\ t.cur = c /\ t.rows = rows

LEMMA Moved ==
  ASSUME NEW s \in WalkStates, NEW rows \in Seq(Positions), NEW c \in Nat, NEW next \in Nat
  PROVE  MovedTo(s, [s EXCEPT !.rows = rows, !.cur = c, !.next = next], rows, c, next)
<1> DEFINE t == [s EXCEPT !.rows = rows, !.cur = c, !.next = next]
<1>1. PICK a, b, d, i, v, r : s = [ok |-> a, next |-> b, cur |-> d, img |-> i, vid |-> v, rows |-> r]
                            /\ a \in BOOLEAN /\ i \in Nat /\ v \in Nat
  <2>1. PICK a, b, d, i, v, r : /\ a = s.ok /\ b = s.next /\ d = s.cur /\ i = s.img
                                /\ v = s.vid /\ r = s.rows
    OBVIOUS
  <2>2. s = [ok |-> a, next |-> b, cur |-> d, img |-> i, vid |-> v, rows |-> r]
    BY <2>1 DEF WalkStates
  <2>3. a \in BOOLEAN /\ i \in Nat /\ v \in Nat
    BY <2>1 DEF WalkStates
  <2>4. QED BY <2>2, <2>3
<1>2. t = [ok |-> a, next |-> next, cur |-> c, img |-> i, vid |-> v, rows |-> rows] /\ s.ok = a
  <2>1. PICK u : u = [s EXCEPT !.rows = rows]
    OBVIOUS
  <2>2. u = [ok |-> a, next |-> b, cur |-> d, img |-> i, vid |-> v, rows |-> rows]
    BY <1>1, <2>1
  <2>3. PICK w : w = [u EXCEPT !.cur = c]
    OBVIOUS
  <2>4. w = [ok |-> a, next |-> b, cur |-> c, img |-> i, vid |-> v, rows |-> rows]
    BY <2>2, <2>3
  <2>5. t = [w EXCEPT !.next = next]
    BY <1>1, <2>1, <2>3
  <2>6. t = [ok |-> a, next |-> next, cur |-> c, img |-> i, vid |-> v, rows |-> rows]
    BY <2>4, <2>5
  <2>7. QED BY <1>1, <2>6
<1> HIDE DEF t
<1>3. t \in WalkStates
  BY <1>1, <1>2 DEF WalkStates
<1>4. t.ok = s.ok /\ t.next = next /\ t.cur = c /\ t.rows = rows
  BY <1>2
<1>5. QED BY <1>3, <1>4 DEF MovedTo, t

(* The loop meets text: the next position on every axis. *)
TextVisited(s, t) ==
  /\ t \in WalkStates /\ t.ok = s.ok
  /\ t.next = s.next + 1 /\ t.cur = s.cur + 1
  /\ t.rows = s.rows \o <<<<s.cur, s.cur, s.cur>>>>
  /\ LaidOutOk(t.rows, s.next, t.cur)

LEMMA TextVisit ==
  ASSUME NEW s \in WalkStates, s.next > 0, LaidOutOk(s.rows, s.next - 1, s.cur)
  PROVE  TextVisited(s, MropeText(s))
<1> DEFINE t == MropeText(s)
           row == <<s.cur, s.cur, s.cur>>
           one == <<row>>
<1>1. s.cur \in Nat /\ s.next \in Nat /\ s.rows \in Seq(Positions)
  BY DEF WalkStates
<1>2. row \in Positions
  BY <1>1 DEF Positions
<1>3. PICK c \in Nat : c = s.cur + 1
  BY <1>1
<1>4. LaidOutOk(one, 1, c)
  <2>1. one \in Seq(Positions) /\ Len(one) = 1 /\ DOMAIN one = {1} /\ one[1] = row
    BY <1>2
  <2>2. \A axis \in 1 .. 3 : axis = 1 \/ axis = 2 \/ axis = 3
    OBVIOUS
  <2>3. \A axis \in 1 .. 3 : row[axis] = s.cur
    BY <2>2
  <2>4. s.cur < c
    BY <1>1, <1>3
  <2>5. Below(one, c)
    BY <2>1, <2>3, <2>4 DEF Below
  <2>6. QED BY <2>1, <2>5 DEF LaidOutOk
<1>5. Append(s.rows, row) = s.rows \o one
  BY <1>1, <1>2, AppendIsJoin
<1>6. PICK n \in Nat : n = s.next - 1
  BY <1>1
<1>7. LaidOutOk(s.rows \o one, n + 1, c)
  <2>1. PICK k \in Nat : k = 1
    OBVIOUS
  <2>2. s.cur <= c /\ LaidOutOk(s.rows, n, s.cur) /\ LaidOutOk(one, k, c)
    BY <1>1, <1>3, <1>4, <1>6, <2>1
  <2> HIDE DEF one
  <2>3. LaidOutOk(s.rows \o one, n + k, c)
    BY <1>1, <2>2, BelowJoined
  <2>4. QED BY <2>1, <2>3
<1>8. t = [s EXCEPT !.rows = s.rows \o one, !.cur = c, !.next = s.next + 1]
  BY <1>3, <1>5 DEF MropeText
<1>9. s.rows \o one \in Seq(Positions)
  BY <1>7 DEF LaidOutOk
<1> HIDE DEF one, t
<1>10. t \in WalkStates /\ t.ok = s.ok /\ t.next = s.next + 1 /\ t.cur = c /\ t.rows = s.rows \o one
  <2>1. s.next + 1 \in Nat
    BY <1>1
  <2>2. MovedTo(s, t, s.rows \o one, c, s.next + 1)
    BY <1>8, <1>9, <2>1, Moved
  <2>3. QED BY <2>2 DEF MovedTo
<1>11. n + 1 = s.next
  BY <1>1, <1>6
<1>12. QED BY <1>3, <1>7, <1>10, <1>11 DEF TextVisited, t, one

(* It meets a run of a visual: laid out on its grid, or an error. *)
LEMMA BlockVisit ==
  ASSUME NEW n \in Nat, NEW s \in WalkStates, s.next > 0, LaidOutOk(s.rows, s.next - 1, s.cur),
         NEW run \in Nat, run <= n - s.next,
         NEW gt \in Nat, NEW gh \in Nat, NEW gw \in Nat
  PROVE  WalkAt(MropeBlock(s, run, gt, gh, gw), s.next, n)
<1> DEFINE t == MropeBlock(s, run, gt, gh, gw)
<1>1. s.cur \in Nat /\ s.next \in Nat /\ s.rows \in Seq(Positions)
  BY DEF WalkStates
<1>2. CASE gt <= 0 \/ gh <= 0 \/ gw <= 0 \/ run # gt * gh * gw
  <2>1. t = [s EXCEPT !.ok = FALSE]
    BY <1>2 DEF MropeBlock
  <2>2. t \in WalkStates /\ t.ok = FALSE
    BY <2>1 DEF WalkStates
  <2>3. QED BY <2>2 DEF WalkAt
<1>3. CASE ~ (gt <= 0 \/ gh <= 0 \/ gw <= 0 \/ run # gt * gh * gw)
  <2>1. gt \in Nat \ {0} /\ gh \in Nat \ {0} /\ gw \in Nat \ {0} /\ run = gt * gh * gw
    BY <1>3
  <2>2. run > 0
    <3>1. PICK f \in Nat \ {0} : f = gt * gh
      BY <2>1
    <3>2. f * gw \in Nat \ {0}
      BY <2>1
    <3>3. QED BY <2>1, <3>1, <3>2
  <2>3. PICK most \in Nat : most = Advance(gt, gh, gw)
    BY <2>1, LargestFacts DEF Advance
  <2>4. PICK c \in Nat : c = s.cur + Advance(gt, gh, gw) /\ s.cur <= c
    <3>1. PICK cur \in Nat : cur = s.cur
      BY <1>1
    <3>2. cur + most \in Nat /\ cur <= cur + most
      OBVIOUS
    <3>3. QED BY <2>3, <3>1, <3>2
  <2> DEFINE more == LaidOut(gt, gh, gw, s.cur)
  <2>5. LaidOutOk(more, run, c)
    BY <1>1, <2>1, <2>4, LaidOutFacts
  <2> HIDE DEF more
  <2>6. PICK k \in Nat : k = s.next - 1
    BY <1>1
  <2>7. LaidOutOk(s.rows \o more, k + run, c)
    BY <1>1, <2>4, <2>5, <2>6, BelowJoined
  <2>8. t = [s EXCEPT !.rows = s.rows \o more, !.cur = c, !.next = s.next + run]
    BY <1>3, <2>1, <2>4 DEF MropeBlock, more
  <2>9. s.rows \o more \in Seq(Positions)
    BY <2>7 DEF LaidOutOk
  <2> HIDE DEF t
  <2>10. t \in WalkStates /\ t.next = s.next + run /\ t.cur = c /\ t.rows = s.rows \o more
    <3>1. s.next + run \in Nat
      BY <1>1
    <3>2. MovedTo(s, t, s.rows \o more, c, s.next + run)
      BY <2>8, <2>9, <3>1, Moved
    <3>3. QED BY <3>2 DEF MovedTo
  <2>11. t.next - 1 = k + run /\ s.next < t.next /\ t.next <= n
    <3>1. PICK next \in Nat : next = s.next
      BY <1>1
    <3>2. PICK after : after = t.next
      OBVIOUS
    <3>3. after = next + run /\ next - 1 = k
      BY <2>6, <2>10, <3>1, <3>2
    <3>4. after - 1 = k + run /\ next < after /\ after <= n
      BY <2>2, <3>1, <3>3
    <3>5. QED BY <3>1, <3>2, <3>4
  <2>12. QED BY <2>7, <2>10, <2>11 DEF WalkAt, t
<1>4. QED BY <1>2, <1>3

LEMMA StoppedIs ==
  ASSUME NEW s \in WalkStates, NEW p, NEW n
  PROVE  WalkAt([s EXCEPT !.ok = FALSE], p, n)
<1> DEFINE t == [s EXCEPT !.ok = FALSE]
<1>1. t \in WalkStates /\ t.ok = FALSE
  BY DEF WalkStates
<1>2. QED BY <1>1 DEF WalkAt

(* Which image, or frame of a video, a run is of changes nothing else. *)
Renumbered(s, t) ==
  /\ t \in WalkStates
  /\ t.ok = s.ok /\ t.next = s.next /\ t.cur = s.cur /\ t.rows = s.rows

LEMMA RenumberedIs ==
  ASSUME NEW s \in WalkStates
  PROVE  Renumbered(s, [s EXCEPT !.img = @ + 1]) /\ Renumbered(s, [s EXCEPT !.vid = @ + 1])
<1> DEFINE t == [s EXCEPT !.img = @ + 1]
           u == [s EXCEPT !.vid = @ + 1]
<1>1. s.img + 1 \in Nat /\ s.vid + 1 \in Nat
  BY DEF WalkStates
<1>2. t \in WalkStates /\ t.ok = s.ok /\ t.next = s.next /\ t.cur = s.cur /\ t.rows = s.rows
  BY <1>1 DEF WalkStates
<1>3. u \in WalkStates /\ u.ok = s.ok /\ u.next = s.next /\ u.cur = s.cur /\ u.rows = s.rows
  BY <1>1 DEF WalkStates
<1>4. QED BY <1>2, <1>3 DEF Renumbered

GridsAre(images, frames, merge) ==
  images \in Seq(Grids) /\ frames \in Seq(Grids) /\ merge \in Nat \ {0}

LEMMA BlockKeeps ==
  ASSUME NEW n \in Nat, NEW s \in WalkStates, s.next > 0, LaidOutOk(s.rows, s.next - 1, s.cur),
         NEW t, Renumbered(s, t), NEW run \in Nat, run <= n - s.next,
         NEW grid \in Grids, NEW merge \in Nat \ {0}
  PROVE  WalkAt(MropeBlock(t, run, grid[1], grid[2] \div merge, grid[3] \div merge), s.next, n)
<1>1. /\ t \in WalkStates /\ t.next > 0 /\ run <= n - t.next /\ t.next = s.next
      /\ LaidOutOk(t.rows, t.next - 1, t.cur)
  BY DEF Renumbered
<1>2. PICK gt \in Nat : gt = grid[1]
  BY GridParts
<1>3. PICK gh \in Nat : gh = grid[2] \div merge
  BY GridParts, DivFacts
<1>4. PICK gw \in Nat : gw = grid[3] \div merge
  BY GridParts, DivFacts
<1>5. WalkAt(MropeBlock(t, run, gt, gh, gw), t.next, n)
  BY <1>1, BlockVisit
<1>6. QED BY <1>1, <1>2, <1>3, <1>4, <1>5

LEMMA VisitKeeps ==
  ASSUME NEW ids, NEW x, EndsWith(ids, x), x \notin Pads, NEW n \in Nat, n = Len(ids),
         NEW images, NEW frames, NEW merge, GridsAre(images, frames, merge),
         NEW p \in 1 .. n - 1, NEW s, WalkAt(s, p - 1, n)
  PROVE  WalkAt(MropeVisit(s, ids, p, images, frames, merge), p, n)
<1> DEFINE t == MropeVisit(s, ids, p, images, frames, merge)
           run == RunLength(ids, p)
<1>1. s \in WalkStates /\ s.next \in Nat /\ s.img \in Nat /\ s.vid \in Nat /\ s.cur \in Nat
  BY DEF WalkAt, WalkStates
<1>2. CASE ~ s.ok \/ p < s.next
  <2>1. t = s
    BY <1>2 DEF MropeVisit
  <2>2. QED BY <1>2, <2>1 DEF WalkAt
<1>3. CASE s.ok /\ ~ (p < s.next)
  <2>1. s.next = p /\ s.next > 0 /\ LaidOutOk(s.rows, s.next - 1, s.cur)
    BY <1>1, <1>3 DEF WalkAt
  <2>2. ASSUME ids[p] \in Pads
        PROVE  run \in Nat /\ run <= n - s.next
    <3>1. run \in 0 .. n - p
      BY <2>2, RunEnds
    <3>2. QED BY <2>1, <3>1
  <2> HIDE DEF run
  <2>3. images \in Seq(Grids) /\ frames \in Seq(Grids) /\ merge \in Nat \ {0}
    BY DEF GridsAre
  <2>4. CASE ids[p] = ImagePad
    <3>1. CASE s.img >= Len(images)
      <4>1. t = [s EXCEPT !.ok = FALSE]
        BY <1>3, <2>4, <3>1 DEF MropeVisit
      <4>2. QED BY <1>1, <4>1, StoppedIs
    <3>2. CASE ~ (s.img >= Len(images))
      <4>1. PICK grid \in Grids : grid = images[s.img + 1]
        BY <1>1, <2>3, <3>2
      <4>2. t = MropeBlock([s EXCEPT !.img = @ + 1], run,
                           grid[1], grid[2] \div merge, grid[3] \div merge)
        BY <1>3, <2>4, <3>2, <4>1 DEF MropeVisit, run
      <4>3. Renumbered(s, [s EXCEPT !.img = @ + 1])
        BY <1>1, RenumberedIs
      <4>4. PICK u : u = [s EXCEPT !.img = @ + 1]
        OBVIOUS
      <4>5. run \in Nat /\ run <= n - s.next /\ Renumbered(s, u)
        BY <2>2, <2>4, <4>3, <4>4 DEF Pads
      <4>6. WalkAt(MropeBlock(u, run, grid[1], grid[2] \div merge, grid[3] \div merge), s.next, n)
        BY <1>1, <2>1, <2>3, <4>5, BlockKeeps
      <4>7. QED BY <2>1, <4>2, <4>4, <4>6
    <3>3. QED BY <3>1, <3>2
  <2>5. CASE ids[p] = VideoPad
    <3> ImagePad # VideoPad
      BY DEF ImagePad, VideoPad, Token
    <3>1. CASE s.vid >= Len(frames)
      <4>1. t = [s EXCEPT !.ok = FALSE]
        BY <1>3, <2>5, <3>1 DEF MropeVisit
      <4>2. QED BY <1>1, <4>1, StoppedIs
    <3>2. CASE ~ (s.vid >= Len(frames))
      <4>1. PICK grid \in Grids : grid = frames[s.vid + 1]
        BY <1>1, <2>3, <3>2
      <4>2. t = MropeBlock([s EXCEPT !.vid = @ + 1], run,
                           grid[1], grid[2] \div merge, grid[3] \div merge)
        BY <1>3, <2>5, <3>2, <4>1 DEF MropeVisit, run
      <4>3. Renumbered(s, [s EXCEPT !.vid = @ + 1])
        BY <1>1, RenumberedIs
      <4>4. PICK u : u = [s EXCEPT !.vid = @ + 1]
        OBVIOUS
      <4>5. run \in Nat /\ run <= n - s.next /\ Renumbered(s, u)
        BY <2>2, <2>5, <4>3, <4>4 DEF Pads
      <4>6. WalkAt(MropeBlock(u, run, grid[1], grid[2] \div merge, grid[3] \div merge), s.next, n)
        BY <1>1, <2>1, <2>3, <4>5, BlockKeeps
      <4>7. QED BY <2>1, <4>2, <4>4, <4>6
    <3>3. QED BY <3>1, <3>2
  <2>6. CASE ids[p] \notin Pads
    <3>1. t = MropeText(s)
      BY <1>3, <2>6 DEF MropeVisit, Pads
    <3>2. TextVisited(s, t)
      BY <1>1, <2>1, <3>1, TextVisit
    <3>3. t.next - 1 = s.next /\ p < t.next /\ t.next <= n
      BY <2>1, <3>2 DEF TextVisited
    <3> HIDE DEF t
    <3>4. QED BY <3>2, <3>3 DEF WalkAt, TextVisited, t
  <2>7. QED BY <2>4, <2>5, <2>6 DEF Pads
<1>4. QED BY <1>2, <1>3

StartIs(start) ==
  start \in WalkStates /\ start.next = 1 /\ start.cur = 0 /\ start.rows = <<>>

(* The last token is text, and the loop takes it up. *)
WalkEnds(f, n) ==
  /\ WalkAt(f[n - 1], n - 1, n)
  /\ f[n].ok => f[n - 1].ok /\ f[n - 1].next = n /\ f[n] = MropeText(f[n - 1])

LEMMA WalkToEnd ==
  ASSUME NEW ids, NEW x, EndsWith(ids, x), x \notin Pads, NEW n \in Nat, n = Len(ids),
         NEW images, NEW frames, NEW merge, GridsAre(images, frames, merge),
         NEW start, StartIs(start), NEW f, IsWalk(f, ids, images, frames, merge, start)
  PROVE  WalkEnds(f, n)
<1>1. n > 0
  BY DEF EndsWith, Filled
<1>2. PICK m \in Nat : m = n - 1
  BY <1>1
<1> DEFINE P == {p \in 0 .. m : WalkAt(f[p], p, n)}
<1>3. 0 \in P
  <2>1. f[0] = start
    BY DEF IsWalk
  <2>2. PICK zero \in Nat : zero = 0
    OBVIOUS
  <2>3. LaidOutOk(<<>>, 0, 0)
    BY DEF LaidOutOk, Below
  <2>4. start.next - 1 = 0 /\ 0 < start.next /\ start.next <= n
    BY <1>1 DEF StartIs
  <2>5. WalkAt(start, 0, n)
    BY <2>3, <2>4 DEF StartIs, WalkAt
  <2>6. QED BY <2>1, <2>5
<1>4. ASSUME NEW p \in 1 .. m, p - 1 \in P
      PROVE  p \in P
  <2>1. WalkAt(f[p - 1], p - 1, n) /\ p \in 1 .. n - 1 /\ p \in 1 .. Len(ids)
    BY <1>2, <1>4
  <2>2. f[p] = MropeVisit(f[p - 1], ids, p, images, frames, merge)
    BY <2>1 DEF IsWalk
  <2>3. PICK s : s = f[p - 1]
    OBVIOUS
  <2>4. WalkAt(MropeVisit(s, ids, p, images, frames, merge), p, n)
    BY <2>1, <2>3, VisitKeeps
  <2>5. WalkAt(f[p], p, n)
    BY <2>2, <2>3, <2>4
  <2>6. QED BY <2>5
<1> HIDE DEF P
<1>5. \A p \in 0 .. m : p \in P
  BY <1>3, <1>4, Climb
<1>6. WalkAt(f[m], m, n)
  <2>1. m \in 0 .. m
    OBVIOUS
  <2>2. QED BY <1>5, <2>1 DEF P
<1>7. ASSUME f[n].ok
      PROVE  f[m].ok /\ f[m].next = n /\ f[n] = MropeText(f[m])
  <2>1. f[n] = MropeVisit(f[m], ids, n, images, frames, merge)
    <3>1. n \in 1 .. Len(ids) /\ n - 1 = m
      BY <1>1, <1>2
    <3>2. QED BY <3>1 DEF IsWalk
  <2>2. f[m].ok
    <3>1. SUFFICES ASSUME ~ f[m].ok PROVE FALSE
      OBVIOUS
    <3>2. f[n] = f[m]
      BY <2>1, <3>1 DEF MropeVisit
    <3>3. QED BY <1>7, <3>1, <3>2
  <2>3. m < f[m].next /\ f[m].next <= n /\ f[m].next \in Nat
    BY <1>6, <2>2 DEF WalkAt, WalkStates
  <2>4. f[m].next = n
    BY <1>2, <2>3
  <2>5. ids[n] \notin Pads /\ ~ (n < f[m].next)
    BY <2>3, <2>4 DEF EndsWith
  <2>6. f[n] = MropeText(f[m])
    BY <2>1, <2>2, <2>5 DEF MropeVisit, Pads
  <2>7. QED BY <2>2, <2>4, <2>6
<1>8. WalkEnds(f, n)
  <2>1. n - 1 = m
    BY <1>2
  <2>2. QED BY <1>6, <1>7, <2>1 DEF WalkEnds
<1>9. QED BY <1>8

(* The highest position is the one before the next. *)
LEMMA HighestIs ==
  ASSUME NEW rows, NEW n \in Nat, NEW c \in Nat, LaidOutOk(rows, n, c)
  PROVE  HighestPosition(rows \o <<<<c, c, c>>>>) = c
<1> DEFINE one == <<<<c, c, c>>>>
           more == rows \o one
           all == {more[r][axis] : r \in DOMAIN more, axis \in 1 .. 3} \cup {-1}
<1>1. rows \in Seq(Positions) /\ Len(rows) = n
  BY DEF LaidOutOk
<1>2. one \in Seq(Positions) /\ Len(one) = 1 /\ one[1] = <<c, c, c>>
  BY DEF Positions
<1>3. /\ more \in Seq(Positions) /\ Len(more) = n + 1
      /\ \A r \in 1 .. n : more[r] = rows[r]
      /\ more[n + 1] = <<c, c, c>>
  <2> HIDE DEF one
  <2>1. IsSeq(rows) /\ IsSeq(one)
    BY <1>1, <1>2, TypedIsSeq
  <2>2. Parts(more, rows, one)
    BY <2>1, JoinParts
  <2>3. more \in Seq(Positions)
    BY <1>1, <1>2
  <2>4. 1 \in 1 .. Len(one) /\ Len(rows) + 1 = n + 1
    BY <1>1, <1>2
  <2>5. more[Len(rows) + 1] = one[1]
    BY <2>2, <2>4 DEF Parts
  <2>6. QED BY <1>1, <1>2, <2>2, <2>3, <2>5 DEF Parts
<1>4. DOMAIN more = 1 .. n + 1 /\ DOMAIN rows = 1 .. n
  BY <1>1, <1>3
<1> HIDE DEF one, more
<1>5. ASSUME NEW y \in all
      PROVE  y \in Int /\ y <= c
  <2>1. CASE y = -1
    BY <2>1
  <2>2. CASE y # -1
    <3>1. PICK r \in DOMAIN more, axis \in 1 .. 3 : y = more[r][axis]
      BY <2>2
    <3>2. PICK t \in Positions : t = more[r]
      BY <1>3, <1>4, <3>1
    <3>3. t[axis] \in Nat
      BY DEF Positions
    <3>4. CASE r = n + 1
      <4>1. axis = 1 \/ axis = 2 \/ axis = 3
        OBVIOUS
      <4>2. t = <<c, c, c>>
        BY <1>3, <3>2, <3>4
      <4>3. t[axis] = c
        BY <4>1, <4>2
      <4>4. QED BY <3>1, <3>2, <4>3
    <3>5. CASE r # n + 1
      <4>1. r \in 1 .. n
        BY <1>4, <3>5
      <4>2. t = rows[r]
        BY <1>3, <3>2, <4>1
      <4>3. t[axis] < c
        BY <1>4, <4>1, <4>2 DEF LaidOutOk, Below
      <4>4. QED BY <3>1, <3>2, <3>3, <4>3
    <3>6. QED BY <3>4, <3>5
  <2>3. QED BY <2>1, <2>2
<1>6. c \in all
  <2>1. n + 1 \in DOMAIN more /\ 1 \in 1 .. 3 /\ more[n + 1][1] = c
    BY <1>3, <1>4
  <2>2. QED BY <2>1
<1> HIDE DEF all
<1>7. \E h \in all : \A y \in all : y <= h
  BY <1>5, <1>6
<1>8. PICK h : h = (CHOOSE x \in all : \A y \in all : y <= x)
  OBVIOUS
<1>9. h \in all /\ \A y \in all : y <= h
  BY <1>7, <1>8
<1>10. h = c
  BY <1>5, <1>6, <1>9
<1>11. HighestPosition(more) = h
  BY <1>8 DEF HighestPosition, all
<1>12. QED BY <1>10, <1>11 DEF more, one

(* What the walk over a prompt that ends with text comes to. *)
WalkDone(t, n) ==
  /\ t \in WalkStates /\ t.next = n + 1 /\ LaidOutOk(t.rows, n, t.cur)
  /\ HighestPosition(t.rows) = t.cur - 1

LEMMA WalkComesTo ==
  ASSUME NEW n \in Nat, n > 0, NEW f, WalkEnds(f, n), f[n].ok
  PROVE  WalkDone(f[n], n)
<1>1. PICK s : s = f[n - 1]
  OBVIOUS
<1>2. PICK t : t = f[n] /\ t = MropeText(s)
  BY <1>1 DEF WalkEnds
<1>3. s.ok /\ s.next = n /\ s \in WalkStates /\ LaidOutOk(s.rows, s.next - 1, s.cur)
  BY <1>1 DEF WalkEnds, WalkAt
<1>4. s.next > 0
  BY <1>3
<1>5. TextVisited(s, t)
  BY <1>2, <1>3, <1>4, TextVisit
<1>6. PICK m \in Nat : m = n - 1
  OBVIOUS
<1>7. PICK c \in Nat : c = s.cur
  BY <1>3 DEF WalkStates
<1>8. LaidOutOk(s.rows, m, c)
  BY <1>3, <1>6, <1>7
<1>9. PICK rows : rows = s.rows
  OBVIOUS
<1>10. HighestPosition(rows \o <<<<c, c, c>>>>) = c
  BY <1>8, <1>9, HighestIs
<1>11. t.rows = rows \o <<<<c, c, c>>>> /\ t.cur = c + 1 /\ t.next = n + 1 /\ LaidOutOk(t.rows, n, t.cur)
       /\ t \in WalkStates
  BY <1>3, <1>5, <1>7, <1>9 DEF TextVisited
<1>12. t.cur - 1 = c
  BY <1>11
<1>13. HighestPosition(t.rows) = t.cur - 1
  BY <1>10, <1>11, <1>12
<1>14. WalkDone(t, n)
  BY <1>11, <1>13 DEF WalkDone
<1>15. QED BY <1>2, <1>14

(* One text token more: the walk goes on from where it was. *)
LEMMA WalkGoesOn ==
  ASSUME NEW ids, NEW y, EndsWith(ids, y), y \notin Pads, NEW x, x \notin Pads,
         NEW n \in Nat, n = Len(ids),
         NEW images, NEW frames, NEW merge, GridsAre(images, frames, merge),
         NEW start, StartIs(start), NEW f, IsWalk(f, ids, images, frames, merge, start),
         NEW g, IsWalk(g, ids \o <<x>>, images, frames, merge, start), f[n].ok
  PROVE  g[n + 1] = MropeText(f[n])
<1>1. PICK t : t = <<x>> /\ IsSeq(t) /\ Len(t) = 1 /\ t[1] = x
  BY ShortSeqs
<1> DEFINE more == ids \o t
<1>2. IsSeq(ids) /\ n > 0
  BY DEF EndsWith, Filled
<1>3. IsSeq(more) /\ Len(more) = n + 1 /\ more[n + 1] = x
  <2>1. Parts(more, ids, t)
    BY <1>1, <1>2, JoinParts
  <2>2. 1 \in 1 .. Len(t)
    BY <1>1
  <2>3. QED BY <1>1, <2>1, <2>2 DEF Parts
<1>4. IsWalk(g, more, images, frames, merge, start)
  BY <1>1
<1> HIDE DEF more
<1> DEFINE P == {p \in 0 .. n : g[p] = f[p]}
<1>5. 0 \in P
  BY <1>4 DEF IsWalk
<1>6. ASSUME NEW p \in 1 .. n, p - 1 \in P
      PROVE  p \in P
  <2>1. f[p] = MropeVisit(f[p - 1], ids, p, images, frames, merge)
    BY DEF IsWalk
  <2>2. p \in 1 .. Len(more)
    BY <1>3
  <2>3. g[p] = MropeVisit(g[p - 1], more, p, images, frames, merge)
    BY <1>4, <2>2 DEF IsWalk
  <2>4. PICK s : s = f[p - 1] /\ s = g[p - 1]
    BY <1>6
  <2>5. MropeVisit(s, ids \o <<x>>, p, images, frames, merge)
          = MropeVisit(s, ids, p, images, frames, merge)
    BY <1>2, VisitSame
  <2>6. g[p] = f[p]
    BY <1>1, <2>1, <2>3, <2>4, <2>5 DEF more
  <2>7. QED BY <2>6
<1> HIDE DEF P
<1>7. \A p \in 0 .. n : p \in P
  BY <1>5, <1>6, Climb
<1>8. g[n] = f[n]
  <2>1. n \in 0 .. n
    OBVIOUS
  <2>2. QED BY <1>7, <2>1 DEF P
<1>9. g[n + 1] = MropeVisit(g[n], more, n + 1, images, frames, merge)
  <2>1. n + 1 \in 1 .. Len(more) /\ n + 1 - 1 = n
    BY <1>3
  <2>2. QED BY <1>4, <2>1 DEF IsWalk
<1>10. f[n].next = n + 1
  <2>1. WalkEnds(f, n)
    BY WalkToEnd
  <2>2. WalkDone(f[n], n)
    BY <1>2, <2>1, WalkComesTo
  <2>3. QED BY <2>2 DEF WalkDone
<1>11. ~ (n + 1 < f[n].next) /\ more[n + 1] \notin Pads
  BY <1>3, <1>10
<1>12. QED BY <1>8, <1>9, <1>11 DEF MropeVisit, Pads

LEMMA VideoFramesAre ==
  ASSUME NEW grids \in Seq(Grids)
  PROVE  VideoFrames(grids) \in Seq(Grids)
<1> DEFINE Frames(v) == [f \in 1 .. grids[v][1] |-> <<1, grids[v][2], grids[v][3]>>]
           parts == [v \in DOMAIN grids |-> Frames(v)]
<1>1. IsSeq(grids)
  BY TypedIsSeq
<1>2. ASSUME NEW v \in DOMAIN grids
      PROVE  Frames(v) \in Seq(Grids)
  <2>1. PICK grid \in Grids : grid = grids[v]
    OBVIOUS
  <2>2. PICK n \in Nat : n = grid[1]
    BY GridParts
  <2>3. PICK frame : frame = <<1, grid[2], grid[3]>>
    OBVIOUS
  <2>4. frame \in Grids
    BY <2>3, GridParts DEF Grids
  <2>5. [f \in 1 .. n |-> frame] \in [1 .. n -> Grids]
    BY <2>4
  <2>6. [f \in 1 .. n |-> frame] \in Seq(Grids)
    BY <2>5
  <2>7. QED BY <2>1, <2>2, <2>3, <2>6
<1> HIDE DEF Frames
<1>3. parts = [v \in DOMAIN grids |-> parts[v]] /\ \A v \in DOMAIN grids : parts[v] \in Seq(Grids)
  BY <1>2
<1>4. VideoFrames(grids) = FlattenSeq(parts)
  BY DEF VideoFrames, Frames
<1> HIDE DEF parts
<1>5. IsSeq(parts) /\ Len(parts) = Len(grids) /\ DOMAIN grids = 1 .. Len(grids)
  BY <1>1, <1>3, OverIsSeq, SeqFacts
<1>6. QED BY <1>3, <1>4, <1>5, FlattenTyped

(* The positions of a prompt that ends with text, and of one text token more. *)
RowsAre(positions, n) == IsSeq(positions.some.rows) /\ Len(positions.some.rows) = n

PositionsGo(old, new, n) ==
  /\ RowsAre(old, n)
  /\ \E c \in Nat :
       /\ c = n + old.some.delta
       /\ new.some.rows = old.some.rows \o <<<<c, c, c>>>>
  /\ new # None /\ new.some.delta = old.some.delta /\ old.some.delta \in Int

LEMMA MropeGoesOn ==
  ASSUME NEW ids, NEW y, EndsWith(ids, y), y \notin Pads, NEW x, x \notin Pads,
         NEW images \in Seq(Grids), NEW videos \in Seq(Grids), NEW merge \in Nat \ {0},
         MropePositions(ids, images, videos, merge) # None
  PROVE  PositionsGo(MropePositions(ids, images, videos, merge),
                     MropePositions(ids \o <<x>>, images, videos, merge), Len(ids))
<1> DEFINE frames == VideoFrames(videos)
           start == [ok |-> \A v \in DOMAIN videos : videos[v][1] > 0,
                     next |-> 1, cur |-> 0, img |-> 0, vid |-> 0, rows |-> <<>>]
           more == ids \o <<x>>
           old == MropePositions(ids, images, videos, merge)
           new == MropePositions(more, images, videos, merge)
           one == MropeWalk(ids, images, frames, merge, start)
           two == MropeWalk(more, images, frames, merge, start)
<1>1. PICK n \in Nat : n = Len(ids) /\ n > 0 /\ IsSeq(ids)
  BY SeqFacts DEF EndsWith, Filled
<1>2. EndsWith(more, x)
  BY <1>1, JoinedEnds
<1>3. IsSeq(more) /\ Len(more) = n + 1
  <2>1. PICK t : t = <<x>> /\ IsSeq(t) /\ Len(t) = 1
    BY ShortSeqs
  <2>2. IsSeq(ids \o t) /\ Len(ids \o t) = Len(ids) + 1
    BY <1>1, <2>1, JoinFacts
  <2>3. QED BY <1>1, <2>1, <2>2
<1>4. GridsAre(images, frames, merge)
  BY VideoFramesAre DEF GridsAre
<1>5. StartIs(start)
  <2>1. <<>> \in Seq(Positions)
    BY ShortTyped
  <2>2. (\A v \in DOMAIN videos : videos[v][1] > 0) \in BOOLEAN
    OBVIOUS
  <2>3. start \in WalkStates
    BY <2>1, <2>2 DEF WalkStates
  <2>4. QED BY <2>3 DEF StartIs
<1>6. merge = IF merge < 1 THEN 1 ELSE merge
  OBVIOUS
<1>7. /\ old = IF ~one.ok THEN None
               ELSE Some([rows |-> one.rows, delta |-> HighestPosition(one.rows) + 1 - Len(ids)])
      /\ new = IF ~two.ok THEN None
               ELSE Some([rows |-> two.rows, delta |-> HighestPosition(two.rows) + 1 - Len(more)])
  BY <1>6 DEF MropePositions
<1> HIDE DEF frames, start, more
<1>8. PICK f : IsWalk(f, ids, images, frames, merge, start) /\ one = f[n]
  BY <1>1, WalkRuns
<1>9. PICK g : IsWalk(g, more, images, frames, merge, start) /\ two = g[n + 1]
  BY <1>3, WalkRuns
<1> HIDE DEF one, two, old, new
<1>10. f[n].ok
  BY <1>7, <1>8 DEF old
<1>11. WalkDone(f[n], n)
  <2>1. WalkEnds(f, n)
    BY <1>1, <1>4, <1>5, <1>8, WalkToEnd
  <2>2. QED BY <1>1, <1>10, <2>1, WalkComesTo
<1>12. g[n + 1] = MropeText(f[n])
  <2>1. IsWalk(g, ids \o <<x>>, images, frames, merge, start)
    BY <1>9 DEF more
  <2>2. QED BY <1>1, <1>4, <1>5, <1>8, <1>10, <2>1, WalkGoesOn
<1>13. TextVisited(f[n], g[n + 1])
  <2>1. PICK s : s = f[n]
    OBVIOUS
  <2>2. s \in WalkStates /\ s.next = n + 1 /\ LaidOutOk(s.rows, n, s.cur)
    BY <1>11, <2>1 DEF WalkDone
  <2>3. s.next > 0 /\ s.next - 1 = n
    BY <2>2
  <2>4. TextVisited(s, MropeText(s))
    BY <2>2, <2>3, TextVisit
  <2>5. QED BY <1>12, <2>1, <2>4
<1>14. g[n + 1].ok
  BY <1>10, <1>13 DEF TextVisited
<1>15. WalkDone(g[n + 1], n + 1)
  <2>1. PICK k \in Nat : k = n + 1 /\ k > 0
    OBVIOUS
  <2>2. k = Len(more)
    BY <1>3, <2>1
  <2>3. WalkEnds(g, k)
    BY <1>2, <1>4, <1>5, <1>9, <2>2, WalkToEnd
  <2>4. WalkDone(g[k], k)
    BY <1>14, <2>1, <2>3, WalkComesTo
  <2>5. QED BY <2>1, <2>4
<1>16. PICK c \in Nat : c = f[n].cur
  BY <1>11 DEF WalkDone, WalkStates
<1>17. old.some.rows = f[n].rows /\ old.some.delta = c - n
  <2>1. old = Some([rows |-> one.rows, delta |-> HighestPosition(one.rows) + 1 - Len(ids)])
    BY <1>7, <1>8, <1>10
  <2>2. HighestPosition(one.rows) = c - 1
    BY <1>8, <1>11, <1>16 DEF WalkDone
  <2>3. HighestPosition(one.rows) + 1 - Len(ids) = c - n
    BY <1>1, <2>2
  <2>4. QED BY <1>8, <2>1, <2>3 DEF Some
<1>18. new # None /\ new.some.rows = f[n].rows \o <<<<c, c, c>>>> /\ new.some.delta = c - n
  <2>1. new = Some([rows |-> two.rows, delta |-> HighestPosition(two.rows) + 1 - Len(more)])
    BY <1>7, <1>9, <1>14
  <2>2. g[n + 1].cur = c + 1
    BY <1>13, <1>16 DEF TextVisited
  <2>3. HighestPosition(two.rows) = c
    BY <1>9, <1>15, <2>2 DEF WalkDone
  <2>4. HighestPosition(two.rows) + 1 - Len(more) = c - n
    BY <1>3, <2>3
  <2>5. two.rows = f[n].rows \o <<<<c, c, c>>>>
    BY <1>9, <1>13, <1>16 DEF TextVisited
  <2>6. new # None
    BY <2>1 DEF Some, None
  <2>7. QED BY <2>1, <2>4, <2>5, <2>6 DEF Some
<1>19. RowsAre(old, n)
  <2>1. f[n].rows \in Seq(Positions) /\ Len(f[n].rows) = n
    BY <1>11 DEF WalkDone, LaidOutOk
  <2>2. IsSeq(f[n].rows)
    BY <2>1, TypedIsSeq
  <2>3. QED BY <1>17, <2>1, <2>2 DEF RowsAre
<1>20. c = n + old.some.delta /\ old.some.delta \in Int
  BY <1>17
<1>21. PositionsGo(old, new, n)
  BY <1>17, <1>18, <1>19, <1>20 DEF PositionsGo
<1>22. QED BY <1>1, <1>21 DEF old, new, more

-----------------------------------------------------------------------------
(* The prefill of a prompt with visuals, and a token fed after it.             *)

MropeRow(m, row) == [c \in 1 .. m.half |-> row[AxisOf(m, c)]]

InterleavedIs(m, at, rows) ==
  /\ IsSeq(at) /\ Len(at) = Len(rows)
  /\ \A s \in 1 .. Len(rows) : at[s] = MropeRow(m, rows[s])

LEMMA InterleavedFacts ==
  ASSUME NEW m, NEW rows, IsSeq(rows), MropeInterleaved(m, rows) # None
  PROVE  InterleavedIs(m, MropeInterleaved(m, rows).some, rows)
<1>1. PICK n \in Nat : n = Len(rows) /\ DOMAIN rows = 1 .. n
  BY SeqFacts
<1> DEFINE at == [s \in 1 .. n |-> MropeRow(m, rows[s])]
<1>2. MropeInterleaved(m, rows) = Some(at)
  BY <1>1 DEF MropeInterleaved, MropeRow
<1>3. IsSeq(at) /\ Len(at) = n
  BY MappedIsSeq
<1>4. \A s \in 1 .. n : at[s] = MropeRow(m, rows[s])
  OBVIOUS
<1> HIDE DEF at
<1>5. QED BY <1>1, <1>2, <1>3, <1>4 DEF InterleavedIs, Some

LEMMA SameOnEveryAxis ==
  ASSUME NEW m, NEW c
  PROVE  MropeRow(m, <<c, c, c>>) = Channels(m, c)
<1>1. \A ch : AxisOf(m, ch) \in {1, 2, 3}
  BY DEF AxisOf
<1>2. \A axis \in {1, 2, 3} : <<c, c, c>>[axis] = c
  OBVIOUS
<1>3. QED BY <1>1, <1>2 DEF MropeRow, Channels

(* The channels of one row more, the same on every axis. *)
ChannelsGoOn(m, rows, c) ==
  /\ MropeInterleaved(m, rows \o <<<<c, c, c>>>>) # None
  /\ MropeInterleaved(m, rows \o <<<<c, c, c>>>>).some
       = MropeInterleaved(m, rows).some \o CosSin(m, 1, c)

LEMMA InterleavedGoesOn ==
  ASSUME NEW m, NEW rows, IsSeq(rows), NEW c \in Int, MropeInterleaved(m, rows) # None
  PROVE  ChannelsGoOn(m, rows, c)
<1>1. PICK n \in Nat : n = Len(rows)
  BY SeqFacts
<1>2. PICK one : one = <<<<c, c, c>>>> /\ IsSeq(one) /\ Len(one) = 1 /\ one[1] = <<c, c, c>>
  <2>1. PICK row : row = <<c, c, c>>
    OBVIOUS
  <2>2. IsSeq(<<row>>) /\ Len(<<row>>) = 1 /\ <<row>>[1] = row
    BY ShortSeqs
  <2>3. QED BY <2>1, <2>2
<1> DEFINE more == rows \o one
           at == MropeInterleaved(m, rows).some
           bt == CosSin(m, 1, c)
           all == MropeInterleaved(m, more).some
<1>3. /\ IsSeq(more) /\ Len(more) = n + 1
      /\ \A i \in 1 .. n : more[i] = rows[i]
      /\ more[n + 1] = <<c, c, c>>
  <2>1. Parts(more, rows, one)
    BY <1>2, JoinParts
  <2>2. 1 \in 1 .. Len(one)
    BY <1>2
  <2>3. QED BY <1>1, <1>2, <2>1, <2>2 DEF Parts
<1> HIDE DEF more
<1>4. MropeInterleaved(m, more) # None
  BY DEF MropeInterleaved, Some, None
<1>5. InterleavedIs(m, at, rows) /\ InterleavedIs(m, all, more)
  BY <1>3, <1>4, InterleavedFacts
<1>6. IsSeq(bt) /\ Len(bt) = 1 /\ bt[1] = Channels(m, c)
  <2>1. PICK k \in Nat : k = 1
    OBVIOUS
  <2>2. /\ IsSeq(CosSin(m, k, c)) /\ Len(CosSin(m, k, c)) = k
        /\ \A s \in 1 .. k : CosSin(m, k, c)[s] = Channels(m, c + s - 1)
    BY CosSinFacts
  <2>3. 1 \in 1 .. k /\ c + 1 - 1 = c
    BY <2>1
  <2>4. QED BY <2>1, <2>2, <2>3
<1> HIDE DEF at, bt, all
<1>7. /\ IsSeq(at) /\ Len(at) = n /\ IsSeq(all) /\ Len(all) = n + 1
      /\ \A s \in 1 .. n : at[s] = MropeRow(m, rows[s])
      /\ \A s \in 1 .. n + 1 : all[s] = MropeRow(m, more[s])
  BY <1>1, <1>3, <1>5 DEF InterleavedIs
<1>8. \A s \in 1 .. n : all[s] = at[s]
  BY <1>3, <1>7
<1>9. all[n + 1] = bt[1]
  <2>1. n + 1 \in 1 .. n + 1
    OBVIOUS
  <2>2. all[n + 1] = MropeRow(m, <<c, c, c>>)
    BY <1>3, <1>7, <2>1
  <2>3. QED BY <1>6, <2>2, SameOnEveryAxis
<1>10. Parts(all, at, bt)
  <2>1. \A i \in 1 .. 1 : all[n + i] = bt[i]
    BY <1>9
  <2>2. QED BY <1>6, <1>7, <1>8, <2>1 DEF Parts
<1>11. all = at \o bt
  BY <1>10, JoinedBy
<1>12. QED BY <1>2, <1>4, <1>11 DEF ChannelsGoOn, all, at, bt, more

LEMMA OneMore ==
  ASSUME NEW s, NEW t, IsSeq(s), IsSeq(t), Len(t) = 1
  PROVE  IsSeq(s \o t) /\ Len(s \o t) = Len(s) + 1
<1>1. Parts(s \o t, s, t)
  BY JoinParts
<1>2. QED BY <1>1 DEF Parts

(* Rows that are not marked. *)
LEMMA UnmarkedFacts ==
  ASSUME NEW k \in Nat
  PROVE  /\ IsSeq(Unmarked(k)) /\ Len(Unmarked(k)) = k
         /\ \A i \in 1 .. k : Unmarked(k)[i] = FALSE
<1>1. PICK f : f = Unmarked(k)
  OBVIOUS
<1>2. f = [i \in 1 .. k |-> FALSE]
  BY <1>1 DEF Unmarked
<1>3. DOMAIN f = 1 .. k /\ \A i \in 1 .. k : f[i] = FALSE
  BY <1>2
<1>4. f = [i \in 1 .. k |-> f[i]]
  BY <1>2, <1>3
<1>5. IsSeq(f) /\ Len(f) = k
  BY <1>3, <1>4, MappedIsSeq
<1>6. QED BY <1>1, <1>3, <1>5

LEMMA OneUnmarked ==
  ASSUME NEW mask, IsSeq(mask)
  PROVE  /\ IsSeq(Unmarked(1)) /\ Len(Unmarked(1)) = 1 /\ Unmarked(1)[1] = FALSE
         /\ IsSeq(mask \o Unmarked(1)) /\ Len(mask \o Unmarked(1)) = Len(mask) + 1
<1>1. PICK k \in Nat : k = 1
  OBVIOUS
<1>2. IsSeq(Unmarked(k)) /\ Len(Unmarked(k)) = k /\ \A i \in 1 .. k : Unmarked(k)[i] = FALSE
  BY UnmarkedFacts
<1>3. PICK u : u = Unmarked(1)
  OBVIOUS
<1>4. IsSeq(u) /\ Len(u) = 1 /\ u[1] = FALSE
  BY <1>1, <1>2, <1>3
<1>5. IsSeq(mask \o u) /\ Len(mask \o u) = Len(mask) + 1
  BY <1>4, OneMore
<1>6. QED BY <1>3, <1>4, <1>5

(* As many positions are marked as before. *)
LEMMA MarkedSame ==
  ASSUME NEW mask, IsSeq(mask)
  PROVE  Cardinality({p \in DOMAIN (mask \o Unmarked(1)) : (mask \o Unmarked(1))[p]})
           = Cardinality({p \in DOMAIN mask : mask[p]})
<1>1. PICK n \in Nat : n = Len(mask) /\ DOMAIN mask = 1 .. n
  BY SeqFacts
<1>2. PICK one : one = Unmarked(1) /\ IsSeq(one) /\ Len(one) = 1 /\ one[1] = FALSE
  BY OneUnmarked
<1> DEFINE more == mask \o one
<1>3. /\ IsSeq(more) /\ Len(more) = n + 1
      /\ \A i \in 1 .. n : more[i] = mask[i]
      /\ more[n + 1] = FALSE
  <2>1. Parts(more, mask, one)
    BY <1>2, JoinParts
  <2>2. 1 \in 1 .. Len(one)
    BY <1>2
  <2>3. QED BY <1>1, <1>2, <2>1, <2>2 DEF Parts
<1>4. DOMAIN more = 1 .. n + 1
  BY <1>3, SeqFacts
<1> HIDE DEF more
<1>5. {p \in DOMAIN more : more[p]} = {p \in DOMAIN mask : mask[p]}
  <2>1. ASSUME NEW p \in 1 .. n + 1, more[p]
        PROVE  p \in 1 .. n /\ mask[p]
    <3>1. p # n + 1
      BY <1>3, <2>1
    <3>2. p \in 1 .. n
      BY <3>1
    <3>3. QED BY <1>3, <2>1, <3>2
  <2>2. ASSUME NEW p \in 1 .. n, mask[p]
        PROVE  p \in 1 .. n + 1 /\ more[p]
    BY <1>3, <2>2
  <2>3. QED BY <1>1, <1>4, <2>1, <2>2
<1>6. QED BY <1>2, <1>5 DEF more

LEMMA LastOfJoined ==
  ASSUME NEW m, NEW first, NEW second, NEW whole, NEW n \in Nat, NEW k \in Nat, k > 0,
         StackAsOne(m, first, second, whole, n, k)
  PROVE  LastRow(whole) = LastRow(second)
<1>1. /\ whole.h = first.h \o second.h
      /\ IsSeq(first.h) /\ Len(first.h) = n /\ IsSeq(second.h) /\ Len(second.h) = k
      /\ whole.cache = second.cache
  BY DEF StackAsOne, RowsAsOne
<1>2. Parts(whole.h, first.h, second.h)
  BY <1>1, JoinParts
<1>3. k \in 1 .. k
  OBVIOUS
<1>4. Len(whole.h) = n + k /\ whole.h[n + k] = second.h[k]
  BY <1>1, <1>2, <1>3 DEF Parts
<1>5. QED BY <1>1, <1>4 DEF LastRow

(* prefill_with_deepstack over one token more is decode_logits after it. *)
PrefilledOnce(old, new, step) ==
  new # None /\ new.some = step

LEMMA PrefillGoesOn ==
  ASSUME NEW m, DecoderShape(m), NEW d, Filled(d), NEW rows, RowsAre(rows, Len(d)),
         NEW mask, IsSeq(mask), NEW deepstack, IsSeq(deepstack), NEW x, NEW c \in Int,
         PrefillWithDeepstack(m, d, rows.some.rows, NewCache(m), mask, deepstack) # None
  PROVE  PrefilledOnce(
           PrefillWithDeepstack(m, d, rows.some.rows, NewCache(m), mask, deepstack),
           PrefillWithDeepstack(m, d \o Embed(<<x>>), rows.some.rows \o <<<<c, c, c>>>>,
                                NewCache(m), mask \o Unmarked(1), deepstack),
           DecodeLogits(m, <<x>>,
             PrefillWithDeepstack(m, d, rows.some.rows, NewCache(m), mask, deepstack).some.cache, c))
<1>1. PICK places : places = rows.some.rows /\ IsSeq(places) /\ Len(places) = Len(d)
  BY DEF RowsAre
<1>2. PICK n \in Nat : n = Len(d) /\ n > 0 /\ IsSeq(d)
  BY SeqFacts DEF Filled
<1>3. PICK one : one = <<x>> /\ IsSeq(one) /\ Len(one) = 1
  BY ShortSeqs
<1>4. PICK e : e = Embed(one) /\ IsSeq(e) /\ Len(e) = 1
  BY <1>3, EmbedFacts
<1>5. IsSeq(mask \o Unmarked(1)) /\ Len(mask \o Unmarked(1)) = Len(mask) + 1
  BY OneUnmarked
<1>6. Len(d \o e) = n + 1
  BY <1>2, <1>4, OneMore
<1>7. PICK taps \in Nat : taps = Len(deepstack)
  BY SeqFacts
<1> DEFINE kv == NewCache(m)
           old == PrefillWithDeepstack(m, d, places, kv, mask, deepstack)
           next == places \o <<<<c, c, c>>>>
           marks == mask \o Unmarked(1)
           new == PrefillWithDeepstack(m, d \o e, next, kv, marks, deepstack)
           at == MropeInterleaved(m, places).some
           bt == CosSin(m, 1, c)
           first == RunFusedStack(m, kv, d, at, mask, taps)
           second == RunStack(m, first.cache, e, bt)
           whole == RunFusedStack(m, kv, d \o e, at \o bt, marks, taps)
           marked == Cardinality({p \in DOMAIN mask : mask[p]})
<1>8. /\ MropeInterleaved(m, places) # None /\ Len(mask) = n
      /\ ~ \E tap \in DOMAIN deepstack : tap <= Len(m.mixer) /\ Len(deepstack[tap]) # marked
      /\ old.some = LastRow(first)
  <2>1. old # None
    BY <1>1
  <2>2. QED BY <1>2, <1>7, <2>1 DEF PrefillWithDeepstack, Some
<1>9. ChannelsGoOn(m, places, c)
  BY <1>1, <1>8, InterleavedGoesOn
<1>10. MropeInterleaved(m, next) # None /\ MropeInterleaved(m, next).some = at \o bt
  BY <1>9 DEF ChannelsGoOn
<1>11. IsSeq(marks) /\ Len(marks) = n + 1
  BY <1>5, <1>8
<1>12. Len(d \o e) = n + 1
  BY <1>6
<1>13. Cardinality({p \in DOMAIN marks : marks[p]}) = marked
  BY MarkedSame
<1>14. IsSeq(at) /\ Len(at) = n /\ IsSeq(bt) /\ Len(bt) = 1
  <2>1. InterleavedIs(m, at, places)
    BY <1>1, <1>8, InterleavedFacts
  <2>2. PICK k \in Nat : k = 1
    OBVIOUS
  <2>3. IsSeq(CosSin(m, k, c)) /\ Len(CosSin(m, k, c)) = k
    BY CosSinFacts
  <2>4. QED BY <1>1, <1>2, <2>1, <2>2, <2>3 DEF InterleavedIs
<1> HIDE DEF next, marked, at, bt
<1>15. new # None /\ new.some = LastRow(whole)
  <2> HIDE DEF marks
  <2>1. new = Some(LastRow(RunFusedStack(m, kv, d \o e, MropeInterleaved(m, next).some, marks,
                                         Len(deepstack))))
    BY <1>8, <1>10, <1>11, <1>12, <1>13 DEF PrefillWithDeepstack
  <2>2. new = Some(LastRow(whole))
    BY <1>7, <1>10, <2>1
  <2>3. QED BY <2>2 DEF Some, None
<1>16. StackAsOne(m, first, second, whole, n, 1)
  <2>1. TwoRuns(d, e, at, bt)
    BY <1>2, <1>4, <1>14 DEF TwoRuns
  <2>2. IsCache(m, kv)
    BY NewCacheIsCache
  <2>3. MarksGoOn(mask, marks, n, 1, taps)
    BY <1>8 DEF MarksGoOn
  <2> HIDE DEF marks, kv
  <2>4. QED BY <1>2, <1>4, <2>1, <2>2, <2>3, StackContinues
<1> HIDE DEF first, second, whole
<1>17. LastRow(whole) = LastRow(second)
  <2>1. PICK k \in Nat : k = 1 /\ k > 0
    OBVIOUS
  <2>2. StackAsOne(m, first, second, whole, n, k)
    BY <1>16, <2>1
  <2>3. QED BY <2>1, <2>2, LastOfJoined
<1>18. DecodeLogits(m, one, old.some.cache, c) = LastRow(second)
  BY <1>4, <1>8 DEF DecodeLogits, DecodeLogitsFromEmbeds, LastRow, second, bt
<1> HIDE DEF old, new
<1>19. PrefilledOnce(old, new, DecodeLogits(m, one, old.some.cache, c))
  BY <1>15, <1>17, <1>18 DEF PrefilledOnce
<1>20. QED BY <1>1, <1>3, <1>4, <1>19 DEF old, new, next

-----------------------------------------------------------------------------
(* A prompt with visuals and the tokens fed after it: the invariant.           *)

IdsOf(d) == [p \in DOMAIN d |-> d[p].id]

PositionsOf(g, e, d) == MropePositions(IdsOf(d), e.image_grids, e.video_grids, g.merge)

(* Everything in one forward from an empty cache. *)
VisualPass(m, g, e, d, marks) ==
  PrefillWithDeepstack(m, d, PositionsOf(g, e, d).some.rows, NewCache(m), marks, e.deepstack)

(* Having run d leaves this row and this cache, and the next text token takes *)
(* a position delta past the number of rows.                                  *)
Running(m, g, e, d, marks, delta, row, kept) ==
  /\ \E y : y \notin Pads /\ EndsWith(IdsOf(d), y)
  /\ Filled(d) /\ IsSeq(marks)
  /\ PositionsOf(g, e, d) # None /\ PositionsOf(g, e, d).some.delta = delta
  /\ VisualPass(m, g, e, d, marks) # None
  /\ row = VisualPass(m, g, e, d, marks).some.logits
  /\ kept = VisualPass(m, g, e, d, marks).some.cache

LEMMA IdsJoined ==
  ASSUME NEW d, IsSeq(d), NEW x
  PROVE  IdsOf(d \o Embed(<<x>>)) = IdsOf(d) \o <<x>>
<1>1. PICK t : t = <<x>> /\ IsSeq(t) /\ Len(t) = 1 /\ t[1] = x
  BY ShortSeqs
<1>2. PICK e : e = Embed(t) /\ IsSeq(e) /\ Len(e) = 1 /\ e[1].id = x
  <2>1. PICK e : e = Embed(t)
    OBVIOUS
  <2>2. IsSeq(e) /\ Len(e) = 1
    BY <1>1, <2>1, EmbedFacts
  <2>3. DOMAIN t = 1 .. 1
    BY <1>1, SeqFacts
  <2>4. e[1] = [feature |-> 0, id |-> x]
    BY <1>1, <2>1, <2>3 DEF Embed
  <2>5. QED BY <2>1, <2>2, <2>4
<1>3. PICK n \in Nat : n = Len(d)
  BY SeqFacts
<1>4. PICK all : all = d \o e
  OBVIOUS
<1>5. /\ IsSeq(all) /\ Len(all) = n + 1
      /\ \A i \in 1 .. n : all[i] = d[i]
      /\ all[n + 1] = e[1]
  <2>1. Parts(all, d, e)
    BY <1>2, <1>4, JoinParts
  <2>2. 1 \in 1 .. Len(e)
    BY <1>2
  <2>3. QED BY <1>2, <1>3, <2>1, <2>2 DEF Parts
<1>6. PICK one : one = IdsOf(d)
  OBVIOUS
<1>7. IsSeq(one) /\ Len(one) = n /\ \A i \in 1 .. n : one[i] = d[i].id
  <2>1. one = [p \in DOMAIN d |-> d[p].id]
    BY <1>6 DEF IdsOf
  <2>2. DOMAIN d = 1 .. n
    BY <1>3, SeqFacts
  <2>3. one = [p \in DOMAIN d |-> one[p]] /\ \A i \in 1 .. n : one[i] = d[i].id
    BY <2>1, <2>2
  <2>4. QED BY <1>3, <2>3, OverIsSeq
<1>8. PICK more : more = IdsOf(all)
  OBVIOUS
<1>9. IsSeq(more) /\ Len(more) = n + 1 /\ \A i \in 1 .. n + 1 : more[i] = all[i].id
  <2>1. more = [p \in DOMAIN all |-> all[p].id]
    BY <1>8 DEF IdsOf
  <2>2. DOMAIN all = 1 .. n + 1
    BY <1>5, SeqFacts
  <2>3. more = [p \in DOMAIN all |-> more[p]] /\ \A i \in 1 .. n + 1 : more[i] = all[i].id
    BY <2>1, <2>2
  <2>4. QED BY <1>5, <2>3, OverIsSeq
<1>10. Parts(more, one, t)
  <2>1. \A i \in 1 .. n : more[i] = one[i]
    BY <1>5, <1>7, <1>9
  <2>2. more[n + 1] = t[1]
    <3>1. n + 1 \in 1 .. n + 1
      OBVIOUS
    <3>2. QED BY <1>1, <1>2, <1>5, <1>9, <3>1
  <2>3. \A i \in 1 .. 1 : more[n + i] = t[i]
    BY <2>2
  <2>4. QED BY <1>1, <1>7, <1>9, <2>1, <2>3 DEF Parts
<1>11. more = one \o t
  BY <1>10, JoinedBy
<1>12. QED BY <1>1, <1>2, <1>4, <1>6, <1>8, <1>11

LEMMA RunningGoesOn ==
  ASSUME NEW m, DecoderShape(m), NEW g, g.merge \in Nat \ {0}, NEW e, EncIs(e),
         NEW d, NEW marks, NEW delta, NEW row, NEW kept,
         Running(m, g, e, d, marks, delta, row, kept),
         NEW x, x \notin Pads, NEW n, n = Len(d)
  PROVE  Running(m, g, e, d \o Embed(<<x>>), marks \o Unmarked(1), delta,
                 DecodeLogits(m, <<x>>, kept, n + delta).logits,
                 DecodeLogits(m, <<x>>, kept, n + delta).cache)
<1>1. PICK ids : ids = IdsOf(d)
  OBVIOUS
<1>2. PICK y : y \notin Pads /\ EndsWith(ids, y)
  BY <1>1 DEF Running
<1>3. Filled(d) /\ IsSeq(d) /\ IsSeq(marks) /\ Len(d) \in Nat
  BY SeqFacts DEF Running, Filled
<1>4. PICK old : old = MropePositions(ids, e.image_grids, e.video_grids, g.merge)
  OBVIOUS
<1>5. old = PositionsOf(g, e, d) /\ old # None /\ old.some.delta = delta
  BY <1>1, <1>4 DEF PositionsOf, Running
<1>6. PICK longer : longer = d \o Embed(<<x>>)
  OBVIOUS
<1>7. PICK new : new = MropePositions(ids \o <<x>>, e.image_grids, e.video_grids, g.merge)
  OBVIOUS
<1>8. new = PositionsOf(g, e, longer) /\ IdsOf(longer) = ids \o <<x>>
  <2>1. IdsOf(longer) = ids \o <<x>>
    BY <1>1, <1>3, <1>6, IdsJoined
  <2>2. QED BY <1>7, <2>1 DEF PositionsOf
<1>9. PositionsGo(old, new, n)
  <2>1. e.image_grids \in Seq(Grids) /\ e.video_grids \in Seq(Grids)
    BY DEF EncIs
  <2>2. PICK im, vi, me : im = e.image_grids /\ vi = e.video_grids /\ me = g.merge
    OBVIOUS
  <2>3. /\ im \in Seq(Grids) /\ vi \in Seq(Grids) /\ me \in Nat \ {0}
        /\ MropePositions(ids, im, vi, me) # None
    BY <1>4, <1>5, <2>1, <2>2
  <2>4. PositionsGo(MropePositions(ids, im, vi, me), MropePositions(ids \o <<x>>, im, vi, me), Len(ids))
    BY <1>2, <2>3, MropeGoesOn
  <2>5. Len(ids) = n
    <3>1. ids = [p \in DOMAIN d |-> ids[p]]
      BY <1>1 DEF IdsOf
    <3>2. QED BY <1>3, <3>1, OverIsSeq
  <2>6. QED BY <1>4, <1>7, <2>2, <2>4, <2>5
<1>10. PICK c \in Nat : c = n + delta /\ new.some.rows = old.some.rows \o <<<<c, c, c>>>>
  BY <1>5, <1>9 DEF PositionsGo
<1>11. RowsAre(old, Len(d)) /\ new # None /\ new.some.delta = delta
  BY <1>5, <1>9 DEF PositionsGo
<1> DEFINE before == PrefillWithDeepstack(m, d, old.some.rows, NewCache(m), marks, e.deepstack)
           after == PrefillWithDeepstack(m, longer, new.some.rows, NewCache(m), marks \o Unmarked(1),
                                         e.deepstack)
           step == DecodeLogits(m, <<x>>, kept, c)
<1>12. /\ before = VisualPass(m, g, e, d, marks)
       /\ before # None /\ kept = before.some.cache
  BY <1>5 DEF VisualPass, Running
<1>13. PrefilledOnce(before, after, step)
  <2>1. IsSeq(e.deepstack)
    BY DEF EncIs
  <2>2. PICK taps : taps = e.deepstack
    OBVIOUS
  <2>3. IsSeq(taps) /\ PrefillWithDeepstack(m, d, old.some.rows, NewCache(m), marks, taps) # None
    BY <1>12, <2>1, <2>2
  <2>4. c \in Int
    OBVIOUS
  <2> HIDE DEF before, after, step
  <2>5. PrefilledOnce(
          PrefillWithDeepstack(m, d, old.some.rows, NewCache(m), marks, taps),
          PrefillWithDeepstack(m, d \o Embed(<<x>>), old.some.rows \o <<<<c, c, c>>>>,
                               NewCache(m), marks \o Unmarked(1), taps),
          DecodeLogits(m, <<x>>,
            PrefillWithDeepstack(m, d, old.some.rows, NewCache(m), marks, taps).some.cache, c))
    BY <1>3, <1>11, <2>3, <2>4, PrefillGoesOn
  <2>6. QED BY <1>6, <1>10, <1>12, <2>2, <2>5 DEF before, after, step
<1> HIDE DEF before, step
<1>14. after = VisualPass(m, g, e, longer, marks \o Unmarked(1))
  BY <1>8 DEF VisualPass
<1> HIDE DEF after
<1>15. after # None /\ after.some = step
  BY <1>13 DEF PrefilledOnce
<1>16. EndsWith(IdsOf(longer), x)
  <2>1. IsSeq(ids)
    BY <1>2 DEF EndsWith, Filled
  <2>2. QED BY <1>8, <2>1, JoinedEnds
<1>17. Filled(longer) /\ IsSeq(marks \o Unmarked(1))
  <2>1. PICK t : t = <<x>> /\ IsSeq(t) /\ Len(t) = 1
    BY ShortSeqs
  <2>2. PICK one : one = Embed(t) /\ IsSeq(one) /\ Len(one) = 1
    BY <2>1, EmbedFacts
  <2>3. IsSeq(d \o one) /\ Len(d \o one) = Len(d) + 1
    BY <1>3, <2>2, OneMore
  <2>4. IsSeq(marks \o Unmarked(1))
    BY <1>3, OneUnmarked
  <2>5. QED BY <1>3, <1>6, <2>1, <2>2, <2>3, <2>4 DEF Filled
<1>18. Running(m, g, e, longer, marks \o Unmarked(1), delta, step.logits, step.cache)
  BY <1>8, <1>11, <1>14, <1>15, <1>16, <1>17 DEF Running
<1>19. QED BY <1>6, <1>10, <1>18 DEF step

LEMMA UnmarkedGoesOn ==
  ASSUME NEW mask, IsSeq(mask), NEW k \in Nat
  PROVE  (mask \o Unmarked(k)) \o Unmarked(1) = mask \o Unmarked(k + 1)
<1>1. PICK no : no = FALSE
  OBVIOUS
<1>2. PICK one : one = Unmarked(1) /\ IsSeq(one) /\ Len(one) = 1 /\ one[1] = no
  BY <1>1, OneUnmarked
<1>3. PICK u : u = Unmarked(k)
  OBVIOUS
<1>4. IsSeq(u) /\ Len(u) = k /\ \A i \in 1 .. k : u[i] = no
  BY <1>1, <1>3, UnmarkedFacts
<1>5. PICK n \in Nat : n = k + 1
  OBVIOUS
<1>6. PICK w : w = Unmarked(n)
  OBVIOUS
<1>7. IsSeq(w) /\ Len(w) = n /\ \A i \in 1 .. n : w[i] = no
  BY <1>1, <1>6, UnmarkedFacts
<1>8. Parts(w, u, one)
  <2>1. ASSUME NEW i \in 1 .. k
        PROVE  w[i] = u[i]
    BY <1>4, <1>5, <1>7
  <2>2. ASSUME NEW i \in 1 .. 1
        PROVE  w[k + i] = one[i]
    <3>1. i = 1 /\ k + i = n /\ n \in 1 .. n
      BY <1>5
    <3>2. QED BY <1>2, <1>7, <3>1
  <2>3. QED BY <1>2, <1>4, <1>5, <1>7, <2>1, <2>2 DEF Parts
<1>9. w = u \o one
  BY <1>8, JoinedBy
<1>10. Associates(mask, u, one)
  BY <1>2, <1>4, JoinAssociative
<1>11. QED BY <1>2, <1>3, <1>5, <1>6, <1>9, <1>10 DEF Associates

LEMMA NoneUnmarked ==
  ASSUME NEW mask, IsSeq(mask)
  PROVE  mask \o Unmarked(0) = mask
<1>1. PICK k \in Nat : k = 0
  OBVIOUS
<1>2. PICK u : u = Unmarked(k)
  OBVIOUS
<1>3. IsSeq(u) /\ Len(u) = 0
  BY <1>1, <1>2, UnmarkedFacts
<1>4. Parts(mask, mask, u)
  <2>1. Len(mask) = Len(mask) + 0
    BY SeqFacts
  <2>2. QED BY <1>3, <2>1 DEF Parts
<1>5. mask = mask \o u
  BY <1>4, JoinedBy
<1>6. QED BY <1>1, <1>2, <1>5

(* What prepare_multimodal makes of an encoded conversation. *)
PlacedIs(g, e, placed) ==
  /\ EndsWith(placed.ids, Asked)
  /\ IsSeq(placed.embeds) /\ Len(placed.embeds) = Len(placed.ids)
  /\ IsSeq(placed.mask) /\ IdsOf(placed.embeds) = placed.ids
  /\ PositionsOf(g, e, placed.embeds) # None
  /\ placed.rows = PositionsOf(g, e, placed.embeds).some.rows
  /\ placed.delta = PositionsOf(g, e, placed.embeds).some.delta

LEMMA PreparedIs ==
  ASSUME NEW g, NEW ids, EndsWith(ids, Asked), NEW e, PrepareIds(g, ids, e) # None
  PROVE  PlacedIs(g, e, PrepareIds(g, ids, e).some)
<1> DEFINE tokens == {ImagePad, VideoPad}
           rows == [p \in DOMAIN ids |->
                      [feature |-> IF ids[p] \in tokens THEN Ordinal(ids, tokens, p) ELSE 0,
                       id |-> ids[p]]]
           marks == [p \in DOMAIN ids |-> ids[p] \in tokens]
           embeds == SpliceVisionFeatures(ids, e.feats, tokens)
           positions == MropePositions(ids, e.image_grids, e.video_grids, g.merge)
           placed == [ids |-> ids, embeds |-> embeds.some, rows |-> positions.some.rows,
                      delta |-> positions.some.delta, mask |-> marks]
<1>1. IsSeq(ids) /\ DOMAIN ids = 1 .. Len(ids)
  BY SeqFacts DEF EndsWith, Filled
<1>2. PrepareIds(g, ids, e) = Prepared(ids, embeds, positions)
  BY DEF PrepareIds
<1>3. embeds # None => embeds = Some(rows)
  BY DEF SpliceVisionFeatures
<1> HIDE DEF embeds, positions
<1>4. Prepared(ids, embeds, positions)
        = IF embeds = None \/ positions = None THEN None ELSE Some(placed)
  BY DEF Prepared
<1>5. embeds # None /\ positions # None /\ PrepareIds(g, ids, e) = Some(placed)
  BY <1>2, <1>4
<1>6. embeds.some = rows
  <2> HIDE DEF rows
  <2>1. QED BY <1>3, <1>5 DEF Some
<1>7. rows = [p \in DOMAIN ids |-> rows[p]] /\ marks = [p \in DOMAIN ids |-> marks[p]]
      /\ \A p \in DOMAIN ids : rows[p].id = ids[p]
  OBVIOUS
<1> HIDE DEF rows, marks
<1>8. IsSeq(rows) /\ Len(rows) = Len(ids) /\ IsSeq(marks)
  BY <1>1, <1>7, OverIsSeq
<1>9. IdsOf(rows) = ids
  <2>1. PICK f : f = IdsOf(rows)
    OBVIOUS
  <2>2. DOMAIN rows = DOMAIN ids
    BY <1>1, <1>8, SeqFacts
  <2>3. f = [p \in DOMAIN ids |-> rows[p].id]
    BY <2>1, <2>2 DEF IdsOf
  <2>4. f = [p \in DOMAIN ids |-> f[p]] /\ \A p \in DOMAIN ids : f[p] = ids[p]
    BY <1>7, <2>3
  <2>5. IsSeq(f) /\ Len(f) = Len(ids)
    BY <1>1, <2>4, OverIsSeq
  <2>6. f = ids
    BY <1>1, <2>4, <2>5, SameSeq
  <2>7. QED BY <2>1, <2>6
<1>10. PositionsOf(g, e, rows) = positions
  BY <1>9 DEF PositionsOf, positions
<1>11. /\ placed.ids = ids /\ placed.embeds = rows /\ placed.mask = marks
       /\ placed.rows = positions.some.rows /\ placed.delta = positions.some.delta
  BY <1>6
<1> HIDE DEF placed
<1>12. PlacedIs(g, e, placed)
  BY <1>5, <1>8, <1>9, <1>10, <1>11 DEF PlacedIs
<1>13. QED BY <1>5, <1>12 DEF Some

(* The rows that are not visual have no feature in the buffer. *)
Marks == input.some.mask \o Unmarked(fed - Len(input.some.ids))

GeneratedIsText == \A k \in DOMAIN generated : generated[k] \notin {ImagePad, VideoPad}

VisualInv ==
  /\ phase \in {"encode", "prefill", "decode", "done", "refused"}
  /\ EncIs(enc)
  /\ ~ Ready => fed = 0
  /\ Ready => PlacedIs(Geometry, enc, input.some)
  /\ phase \in {"encode", "prefill"} => fed = 0 /\ generated = <<>> /\ cache = NewCache(Model)
  /\ phase \in {"decode", "done"} =>
       /\ IsSeq(generated)
       /\ fed \in Nat /\ fed >= Len(input.some.ids)
       /\ fed <= Len(input.some.ids) + Len(generated)
       /\ GeneratedIsText =>
            Running(Model, Geometry, enc, Fed, Marks, input.some.delta, logits, cache)
  /\ phase = "decode" => fed = Len(input.some.ids) + Len(generated)

(* The visual that comes next. *)
LEMMA NextVisual ==
  ASSUME EncIs(enc), request \in Requests, Encoded < Len(Blocks)
  PROVE  /\ Encoded \in Nat /\ Encoded + 1 \in DOMAIN Blocks
         /\ VisualOk(Blocks[Encoded + 1]) /\ Machine(Geometry)
<1>1. Encoded \in Nat
  <2>1. PICK images, videos : images = enc.image_grids /\ videos = enc.video_grids
    OBVIOUS
  <2>2. images \in Seq(Grids) /\ videos \in Seq(Grids)
    BY <2>1 DEF EncIs
  <2>3. Len(images) \in Nat /\ Len(videos) \in Nat
    BY <2>2
  <2>4. PICK a \in Nat, b \in Nat : a = Len(images) /\ b = Len(videos)
    BY <2>3
  <2>5. Encoded = a + b
    BY <2>1, <2>4 DEF Encoded
  <2>6. QED BY <2>5
<1>2. IsSeq(Blocks) /\ \A v \in DOMAIN Blocks : VisualOk(Blocks[v])
  BY BlocksOk DEF Blocks
<1>3. Encoded + 1 \in DOMAIN Blocks
  BY <1>1, <1>2, SeqFacts
<1>4. Machine(Geometry)
  BY GeometryAssumption DEF Machine
<1>5. QED BY <1>1, <1>2, <1>3, <1>4

LEMMA EncodeVisual ==
  ASSUME VisualInv, request \in Requests, EncodeNext
  PROVE  VisualInv'
<1> DEFINE block == Blocks[Encoded + 1]
           out == Encode(Geometry, block)
<1>1. /\ phase = "encode" /\ Encoded < Len(Blocks)
      /\ UNCHANGED <<request, cache, fed, logits, generated, draw, input>>
      /\ \/ out = None /\ phase' = "refused" /\ UNCHANGED enc
         \/ out # None /\ phase' = phase /\ enc' = WithVisual(Geometry, enc, block, out.some)
  BY DEF EncodeNext, Refused
<1>2. EncIs(enc)
  BY DEF VisualInv
<1>3. Encoded \in Nat /\ VisualOk(block) /\ Machine(Geometry)
  BY <1>1, <1>2, NextVisual
<1>4. EncIs(enc')
  <2>1. CASE UNCHANGED enc
    BY <1>2, <2>1
  <2>2. CASE out # None /\ enc' = WithVisual(Geometry, enc, block, out.some)
    <3>1. EncodedOk(out.some)
      BY <1>3, <2>2, EncodeFacts
    <3> HIDE DEF block, out
    <3>2. EncIs(WithVisual(Geometry, enc, block, out.some))
      BY <1>2, <1>3, <3>1, WithVisualIs
    <3>3. QED BY <2>2, <3>2
  <2>3. QED BY <1>1, <2>1, <2>2
<1> HIDE DEF block, out
<1>5. phase' \in {"encode", "refused"} /\ Model' = Model /\ fed = 0 /\ generated = <<>>
      /\ cache = NewCache(Model)
  BY <1>1 DEF VisualInv, Model
<1>6. ~ Ready' /\ phase' # "prefill" /\ phase' # "decode" /\ phase' # "done"
  BY <1>5 DEF Ready
<1>7. QED BY <1>1, <1>4, <1>5, <1>6 DEF VisualInv

LEMMA PlaceVisual ==
  ASSUME VisualInv, request \in Requests, Multimodal, Place
  PROVE  VisualInv'
<1> DEFINE prompt == Render(request.messages, Geometry.temporal)
           ids == Expanded(prompt, enc)
           prepared == PrepareMultimodal(Geometry, prompt, enc)
<1>1. /\ phase = "encode"
      /\ UNCHANGED <<request, cache, fed, logits, generated, draw>>
      /\ PlaceAs(prepared)
  BY DEF Place, Multimodal
<1>2. EncIs(enc) /\ fed = 0 /\ generated = <<>> /\ cache = NewCache(Model) /\ Model' = Model
  BY <1>1 DEF VisualInv, Model
<1>3. ASSUME prepared # None
      PROVE  PlacedIs(Geometry, enc, prepared.some)
  <2>1. ids # None /\ prepared = PrepareIds(Geometry, ids.some, enc)
    BY <1>3 DEF PrepareMultimodal
  <2>2. Conversation(request.messages) /\ Geometry.temporal \in Nat \ {0}
    BY RequestFacts, GeometryAssumption
  <2>3. EndsWith(ids.some, Asked)
    BY <1>2, <2>1, <2>2, ExpandedEnds
  <2> HIDE DEF ids, prompt
  <2>4. QED BY <1>3, <2>1, <2>3, PreparedIs
<1> HIDE DEF prepared
<1>4. CASE prepared = None
  <2>1. phase' = "refused" /\ enc' = enc
    BY <1>1, <1>4 DEF PlaceAs, Refused
  <2>2. ~ Ready'
    BY <2>1 DEF Ready
  <2>3. QED BY <1>1, <1>2, <2>1, <2>2 DEF VisualInv
<1>5. CASE prepared # None
  <2>1. phase' = "prefill" /\ input' = prepared /\ enc' = enc
    BY <1>1, <1>5 DEF PlaceAs
  <2>2. PlacedIs(Geometry, enc', input'.some)
    BY <1>3, <1>5, <2>1
  <2>3. QED BY <1>1, <1>2, <2>1, <2>2 DEF VisualInv, Ready
<1>6. QED BY <1>4, <1>5

LEMMA PrefillVisual ==
  ASSUME VisualInv, request \in Requests, PrefillMultimodal
  PROVE  VisualInv'
<1> DEFINE ids == input.some.ids
           embeds == input.some.embeds
           run == PrefillWithDeepstack(Model, embeds, input.some.rows, cache, input.some.mask,
                                       enc.deepstack)
<1>1. /\ phase = "prefill"
      /\ UNCHANGED <<request, generated, draw, enc, input>>
      /\ \/ run = None /\ phase' = "refused" /\ UNCHANGED <<cache, fed, logits>>
         \/ run # None /\ Ran(run.some, Len(ids)) /\ phase' = "decode"
  BY DEF PrefillMultimodal, Refused
<1>2. /\ EncIs(enc) /\ PlacedIs(Geometry, enc, input.some)
      /\ fed = 0 /\ generated = <<>> /\ cache = NewCache(Model)
  BY <1>1 DEF VisualInv, Ready
<1>3. Model' = Model
  BY <1>1 DEF Model
<1>4. CASE run = None
  <2>1. ~ Ready' /\ phase' = "refused"
    BY <1>1, <1>4 DEF Ready
  <2>2. QED BY <1>1, <1>2, <1>4, <2>1 DEF VisualInv
<1>5. CASE run # None
  <2>1. /\ run # None /\ phase' = "decode" /\ cache' = run.some.cache
        /\ logits' = run.some.logits /\ fed' = fed + Len(ids)
    BY <1>1, <1>5 DEF Ran
  <2>2. /\ IsSeq(ids) /\ Len(ids) > 0 /\ ids[Len(ids)] = Asked
        /\ IsSeq(embeds) /\ Len(embeds) = Len(ids) /\ IdsOf(embeds) = ids
        /\ IsSeq(input.some.mask) /\ input.some.rows = PositionsOf(Geometry, enc, embeds).some.rows
        /\ input.some.delta = PositionsOf(Geometry, enc, embeds).some.delta
        /\ PositionsOf(Geometry, enc, embeds) # None /\ EndsWith(ids, Asked)
    BY <1>2 DEF PlacedIs, EndsWith, Filled
  <2>3. PICK n \in Nat : n = Len(ids) /\ n > 0
    BY <2>2, SeqFacts
  <2>4. fed' = n
    BY <1>2, <2>1, <2>3
  <2>5. Fed' = embeds
    <3>1. Fed' = SubSeq(embeds \o Embed(<<>>), 1, n)
      BY <1>1, <1>2, <2>4 DEF Fed
    <3>2. embeds \o Embed(<<>>) = embeds
      BY <2>2, EmbedEmpty
    <3>3. SubSeq(embeds, 1, n) = embeds
      BY <2>2, <2>3, WholePart
    <3>4. QED BY <3>1, <3>2, <3>3
  <2>6. Marks' = input.some.mask
    <3>1. fed' - Len(input'.some.ids) = 0
      BY <1>1, <2>3, <2>4
    <3>2. Marks' = input.some.mask \o Unmarked(0)
      BY <1>1, <3>1 DEF Marks
    <3>3. QED BY <2>2, <3>2, NoneUnmarked
  <2>7. run = VisualPass(Model, Geometry, enc, embeds, input.some.mask)
    BY <1>2, <2>2 DEF VisualPass
  <2>8. Asked \notin Pads
    BY DEF Asked, Pads, ImagePad, VideoPad, Token
  <2> HIDE DEF run
  <2>9. Running(Model, Geometry, enc, embeds, input.some.mask, input.some.delta, logits', cache')
    <3>1. \E y : y \notin Pads /\ EndsWith(IdsOf(embeds), y)
      BY <2>2, <2>8
    <3>2. Filled(embeds)
      BY <2>2 DEF Filled
    <3>3. QED BY <2>1, <2>2, <2>7, <3>1, <3>2 DEF Running
  <2>10. Running(Model, Geometry, enc, Fed, Marks, input.some.delta, logits, cache)'
    BY <1>1, <1>3, <2>5, <2>6, <2>9
  <2>11. Len(generated) = 0 /\ IsSeq(generated)
    BY <1>2, ShortSeqs
  <2>12. Ready' /\ PlacedIs(Geometry, enc', input'.some) /\ EncIs(enc')
    BY <1>1, <1>2, <2>1 DEF Ready
  <2>13. fed' \in Nat /\ fed' = Len(input'.some.ids) /\ Len(generated') = 0 /\ IsSeq(generated')
    BY <1>1, <2>3, <2>4, <2>11
  <2>14. QED BY <2>1, <2>3, <2>4, <2>10, <2>12, <2>13 DEF VisualInv
<1>6. QED BY <1>4, <1>5

(* A token more. *)
AppendedTo(g, x, more) ==
  /\ IsSeq(more) /\ Len(more) = Len(g) + 1
  /\ \A k \in 1 .. Len(g) : more[k] = g[k]
  /\ more[Len(g) + 1] = x

LEMMA AppendFacts ==
  ASSUME NEW g, IsSeq(g), NEW x
  PROVE  AppendedTo(g, x, Append(g, x))
<1>1. PICK t : t = <<x>> /\ IsSeq(t) /\ Len(t) = 1 /\ t[1] = x
  BY ShortSeqs
<1>2. Append(g, x) = g \o t
  BY <1>1, AppendIsJoin
<1>3. Parts(g \o t, g, t)
  BY <1>1, JoinParts
<1>4. 1 \in 1 .. Len(t)
  BY <1>1
<1>5. QED BY <1>1, <1>2, <1>3, <1>4 DEF Parts, AppendedTo

LEMMA TextBefore ==
  ASSUME NEW x, IsSeq(generated), generated' = Append(generated, x), GeneratedIsText'
  PROVE  GeneratedIsText /\ x \notin Pads
<1>1. PICK g, more : g = generated /\ more = generated'
  OBVIOUS
<1>2. AppendedTo(g, x, more)
  BY <1>1, AppendFacts
<1>3. PICK n \in Nat : n = Len(g) /\ DOMAIN g = 1 .. n
  BY <1>1, SeqFacts
<1>4. DOMAIN more = 1 .. n + 1 /\ (\A k \in 1 .. n : more[k] = g[k]) /\ more[n + 1] = x
  BY <1>2, <1>3, SeqFacts DEF AppendedTo
<1>5. \A k \in 1 .. n + 1 : more[k] \notin {ImagePad, VideoPad}
  BY <1>1, <1>4 DEF GeneratedIsText
<1>6. ASSUME NEW k \in 1 .. n
      PROVE  g[k] \notin {ImagePad, VideoPad}
  BY <1>4, <1>5
<1>7. x \notin {ImagePad, VideoPad}
  BY <1>4, <1>5
<1>8. QED BY <1>1, <1>3, <1>6, <1>7 DEF GeneratedIsText, Pads

LEMMA DecodeVisual ==
  ASSUME VisualInv, request \in Requests, Decode
  PROVE  VisualInv'
<1> DEFINE ids == input.some.ids
           embeds == input.some.embeds
           delta == input.some.delta
<1>1. phase = "decode" /\ UNCHANGED <<request, enc, input>>
  BY DEF Decode
<1>2. /\ EncIs(enc) /\ PlacedIs(Geometry, enc, input.some) /\ IsSeq(generated)
      /\ fed \in Nat /\ fed = Len(ids) + Len(generated)
      /\ GeneratedIsText => Running(Model, Geometry, enc, Fed, Marks, delta, logits, cache)
  BY <1>1 DEF VisualInv, Ready
<1>3. IsSeq(ids) /\ IsSeq(embeds) /\ Len(embeds) = Len(ids) /\ IsSeq(input.some.mask)
  BY <1>2 DEF PlacedIs, EndsWith, Filled
<1>4. PICK n \in Nat : n = Len(ids)
  BY <1>3, SeqFacts
<1>5. PICK k \in Nat : k = Len(generated)
  BY <1>2, SeqFacts
<1>6. DecoderShape(Model) /\ Model' = Model
  BY <1>1, RequestFacts DEF Model
<1>7. PICK token :
        IF Vocabulary[token + 1] \in Stops
        THEN phase' = "done" /\ UNCHANGED <<cache, fed, logits, generated>>
        ELSE /\ generated' = Append(generated, Vocabulary[token + 1])
             /\ IF Len(generated') = MaxNew
                THEN phase' = "done" /\ UNCHANGED <<cache, fed, logits>>
                ELSE /\ Ran(DecodeLogits(Model, <<Vocabulary[token + 1]>>, cache,
                                         fed + input.some.delta), 1)
                     /\ UNCHANGED phase
  BY DEF Decode
<1>8. fed = n + k /\ fed >= n
  BY <1>2, <1>4, <1>5
<1>9. ASSUME phase' \in {"decode", "done"}
      PROVE  Ready' /\ PlacedIs(Geometry, enc', input'.some) /\ EncIs(enc')
  BY <1>1, <1>2, <1>9 DEF Ready
<1>10. CASE phase' = "done" /\ UNCHANGED <<cache, fed, logits, generated>>
  <2>1. Fed' = Fed /\ Marks' = Marks /\ GeneratedIsText' = GeneratedIsText
    BY <1>1, <1>10 DEF Fed, Marks, GeneratedIsText
  <2>2. GeneratedIsText' => Running(Model, Geometry, enc, Fed, Marks, input.some.delta, logits, cache)'
    BY <1>1, <1>2, <1>6, <1>10, <2>1
  <2>3. IsSeq(generated') /\ fed' \in Nat /\ fed' >= Len(input'.some.ids)
        /\ fed' <= Len(input'.some.ids) + Len(generated')
    BY <1>1, <1>2, <1>4, <1>5, <1>8, <1>10
  <2>4. QED BY <1>9, <1>10, <2>2, <2>3 DEF VisualInv
<1>11. ASSUME NEW x, generated' = Append(generated, x)
       PROVE  /\ SubSeq(embeds \o Embed(generated'), 1, fed) = Fed
              /\ SubSeq(embeds \o Embed(generated'), 1, fed + 1) = Fed \o Embed(<<x>>)
              /\ IsSeq(generated') /\ Len(generated') = k + 1
  <2>1. PICK e, g : e = embeds /\ g = generated
    OBVIOUS
  <2>2. PICK all, next \in Nat : all = fed /\ next = fed + 1
    BY <1>2
  <2>3. IsSeq(e) /\ IsSeq(g) /\ all \in Nat /\ all = Len(e) + Len(g) /\ next = all + 1
    BY <1>2, <1>3, <2>1, <2>2
  <2> HIDE DEF embeds, ids, delta
  <2>4. PushedAs(e, g, x, all, next, Append(g, x)) /\ AppendedTo(g, x, Append(g, x))
    BY <2>3, Pushed, AppendFacts
  <2>5. PushedAs(embeds, generated, x, fed, fed + 1, generated')
    BY <1>11, <2>1, <2>2, <2>4
  <2>6. Fed = SubSeq(embeds \o Embed(generated), 1, fed)
    BY DEF Fed, embeds
  <2>7. Len(generated') = k + 1
    BY <1>5, <1>11, <2>1, <2>4 DEF AppendedTo
  <2>8. QED BY <2>5, <2>6, <2>7 DEF PushedAs
<1>12. ASSUME NEW x, generated' = Append(generated, x), GeneratedIsText'
       PROVE  x \notin Pads /\ Running(Model, Geometry, enc, Fed, Marks, delta, logits, cache)
  BY <1>2, <1>12, TextBefore
<1>13. ASSUME NEW x, generated' = Append(generated, x), phase' = "done",
              UNCHANGED <<cache, fed, logits>>
       PROVE  VisualInv'
  <2>1. Fed' = Fed /\ Marks' = Marks
    BY <1>1, <1>11, <1>13 DEF Fed, Marks
  <2>2. GeneratedIsText' => Running(Model, Geometry, enc, Fed, Marks, input.some.delta, logits, cache)'
    BY <1>1, <1>6, <1>12, <1>13, <2>1
  <2>3. IsSeq(generated') /\ Len(generated') = k + 1
    BY <1>11, <1>13
  <2>4. fed' \in Nat /\ fed' >= Len(input'.some.ids)
        /\ fed' <= Len(input'.some.ids) + Len(generated')
    BY <1>1, <1>2, <1>4, <1>8, <1>13, <2>3
  <2>5. QED BY <1>9, <1>13, <2>2, <2>3, <2>4 DEF VisualInv
<1>14. ASSUME NEW x, generated' = Append(generated, x), UNCHANGED phase,
              Ran(DecodeLogits(Model, <<x>>, cache, fed + input.some.delta), 1)
       PROVE  VisualInv'
  <2> DEFINE run == DecodeLogits(Model, <<x>>, cache, fed + delta)
  <2>1. cache' = run.cache /\ logits' = run.logits /\ fed' = fed + 1
    BY <1>14 DEF Ran
  <2> HIDE DEF run
  <2>2. Len(input'.some.ids) = n /\ fed' = n + k + 1
    <3>1. input'.some.ids = ids
      BY <1>1
    <3> HIDE DEF ids, embeds, delta
    <3>2. QED BY <1>4, <1>8, <2>1, <3>1
  <2>3. Fed' = Fed \o Embed(<<x>>)
    BY <1>1, <1>11, <1>14, <2>1 DEF Fed
  <2>4. Marks = input.some.mask \o Unmarked(k)
    <3>1. fed - Len(input.some.ids) = k
      BY <1>4, <1>8
    <3>2. QED BY <3>1 DEF Marks
  <2>5. Marks' = Marks \o Unmarked(1)
    <3>1. fed' - Len(input'.some.ids) = k + 1
      BY <2>2
    <3>2. Marks' = input.some.mask \o Unmarked(k + 1)
      BY <1>1, <3>1 DEF Marks
    <3>3. QED BY <1>3, <2>4, <3>2, UnmarkedGoesOn
  <2>6. Len(Fed) = fed
    <3>1. PICK e, s : e = Embed(generated) /\ s = embeds \o e
      OBVIOUS
    <3>2. IsSeq(e) /\ Len(e) = k
      BY <1>2, <1>5, <3>1, EmbedFacts
    <3>3. IsSeq(s) /\ Len(s) = n + k
      <4>1. Parts(s, embeds, e)
        BY <1>3, <3>1, <3>2, JoinParts
      <4>2. QED BY <1>3, <1>4, <3>2, <4>1 DEF Parts
    <3>4. PICK all \in Nat : all = n + k
      OBVIOUS
    <3>5. SubSeq(s, 1, all) = s
      BY <3>3, <3>4, WholePart
    <3>6. Fed = s
      BY <1>8, <3>1, <3>4, <3>5 DEF Fed
    <3>7. QED BY <1>8, <3>3, <3>6
  <2>7. ASSUME GeneratedIsText'
        PROVE  Running(Model, Geometry, enc, Fed', Marks', delta, logits', cache')
    <3>1. x \notin Pads /\ Running(Model, Geometry, enc, Fed, Marks, delta, logits, cache)
      BY <1>12, <1>14, <2>7
    <3>2. Geometry.merge \in Nat \ {0}
      BY GeometryAssumption
    <3>3. PICK m, d, u, v, l, c, all : m = Model /\ d = Fed /\ u = Marks /\ v = delta /\ l = logits
                                       /\ c = cache /\ all = fed
      OBVIOUS
    <3>4. DecoderShape(m) /\ Running(m, Geometry, enc, d, u, v, l, c) /\ all = Len(d)
      BY <1>6, <2>6, <3>1, <3>3
    <3>5. Running(m, Geometry, enc, d \o Embed(<<x>>), u \o Unmarked(1), v,
                  DecodeLogits(m, <<x>>, c, all + v).logits, DecodeLogits(m, <<x>>, c, all + v).cache)
      BY <1>2, <3>1, <3>2, <3>4, RunningGoesOn
    <3>6. run = DecodeLogits(m, <<x>>, c, all + v)
      BY <3>3 DEF run
    <3>7. QED BY <2>1, <2>3, <2>5, <3>3, <3>5, <3>6
  <2>8. GeneratedIsText' => Running(Model, Geometry, enc, Fed, Marks, input.some.delta, logits, cache)'
    BY <1>1, <1>6, <2>7
  <2>9. IsSeq(generated') /\ Len(generated') = k + 1
    BY <1>11, <1>14
  <2>10. fed' \in Nat /\ fed' >= Len(input'.some.ids)
        /\ fed' = Len(input'.some.ids) + Len(generated')
    BY <2>9, <2>2
  <2>11. phase' = "decode" /\ fed' <= Len(input'.some.ids) + Len(generated')
    BY <1>1, <1>4, <1>14, <2>10
  <2>12. QED BY <1>9, <2>8, <2>9, <2>10, <2>11 DEF VisualInv
<1>15. QED BY <1>7, <1>10, <1>13, <1>14

MultimodalInv == request \in Requests /\ (Multimodal => VisualInv)

LEMMA VisualInit ==
  ASSUME Init
  PROVE  MultimodalInv
<1>1. request \in Requests /\ phase = "encode" /\ fed = 0 /\ generated = <<>>
      /\ cache = NewCache(Model) /\ enc = NothingEncoded
  BY DEF Init, Model
<1>2. EncIs(enc) /\ ~ Ready
  BY <1>1, NothingIs DEF Ready
<1>3. VisualInv
  BY <1>1, <1>2 DEF VisualInv
<1>4. QED BY <1>1, <1>3 DEF MultimodalInv

LEMMA VisualNext ==
  ASSUME MultimodalInv, [Next]_vars
  PROVE  MultimodalInv'
<1>1. request' = request
  BY DEF Next, vars, EncodeNext, Place, PlaceCaption, PrefillMultimodal, PrefillCaption,
         PrefillText, Decode
<1>2. request' \in Requests /\ Multimodal' = Multimodal
  BY <1>1 DEF MultimodalInv, Multimodal, Blocks
<1>3. SUFFICES ASSUME Multimodal PROVE VisualInv'
  BY <1>2 DEF MultimodalInv
<1>4. VisualInv /\ request \in Requests /\ request.provider = "llama" /\ Blocks # <<>>
  BY <1>3 DEF MultimodalInv, Multimodal
<1>5. CASE EncodeNext
  BY <1>4, <1>5, EncodeVisual
<1>6. CASE Place
  BY <1>3, <1>4, <1>6, PlaceVisual
<1>7. CASE PlaceCaption \/ PrefillCaption
  BY <1>4, <1>7 DEF PlaceCaption, PrefillCaption
<1>8. CASE PrefillMultimodal
  BY <1>4, <1>8, PrefillVisual
<1>9. CASE \E n \in 1 .. (IF Placed THEN Len(input.some.ids) ELSE 0) : PrefillText(n)
  BY <1>4, <1>9 DEF PrefillText
<1>10. CASE Decode
  BY <1>4, <1>10, DecodeVisual
<1>11. CASE UNCHANGED vars
  <2>1. Fed' = Fed /\ Model' = Model /\ Marks' = Marks /\ GeneratedIsText' = GeneratedIsText
    BY <1>11 DEF vars, Fed, Model, Marks, GeneratedIsText
  <2>2. Running(Model, Geometry, enc, Fed, Marks, input.some.delta, logits, cache)'
        = Running(Model, Geometry, enc, Fed, Marks, input.some.delta, logits, cache)
    BY <1>11, <2>1 DEF vars
  <2>3. QED BY <1>4, <1>11, <2>1, <2>2 DEF vars, VisualInv, Ready
<1>12. QED BY <1>5, <1>6, <1>7, <1>8, <1>9, <1>10, <1>11 DEF Next

(* Whatever parts a text was run in, with visuals or without, and however many *)
(* tokens were fed back, the last row is that of one forward over everything   *)
(* (decode_logits, prefill_with_deepstack, decode_logits_from_embeds), as long *)
(* as the tokens generated after visuals are text.                             *)
THEOREM SpecCachedEqualsRecomputed ==
  Spec => []((Multimodal => GeneratedIsText) => CachedEqualsRecomputed)
<1>1. Init => TextInv /\ MultimodalInv
  BY TextInit, VisualInit
<1>2. TextInv /\ MultimodalInv /\ [Next]_vars => (TextInv /\ MultimodalInv)'
  BY TextNext, VisualNext
<1>3. TextInv /\ MultimodalInv => ((Multimodal => GeneratedIsText) => CachedEqualsRecomputed)
  <2>1. ASSUME TextInv, ~ Multimodal, fed > 0
        PROVE  CachedEqualsRecomputed
    <3>1. logits = OnePass(Model, Fed).logits
      BY <2>1 DEF TextInv, RunInv
    <3>2. QED BY <2>1, <3>1 DEF CachedEqualsRecomputed, OnePass, Fed
  <2>2. ASSUME MultimodalInv, Multimodal, GeneratedIsText, fed > 0
        PROVE  CachedEqualsRecomputed
    <3>1. VisualInv
      BY <2>2 DEF MultimodalInv
    <3>2. phase \in {"decode", "done"}
      BY <2>2, <3>1 DEF VisualInv, Ready
    <3>3. Running(Model, Geometry, enc, Fed, Marks, input.some.delta, logits, cache)
      BY <2>2, <3>1, <3>2 DEF VisualInv
    <3>4. logits = VisualPass(Model, Geometry, enc, Fed, Marks).some.logits
      BY <3>3 DEF Running
    <3>5. QED BY <2>2, <3>4
          DEF CachedEqualsRecomputed, VisualPass, PositionsOf, IdsOf, Marks, Unmarked, Fed
  <2>3. ASSUME ~ (fed > 0)
        PROVE  CachedEqualsRecomputed
    BY <2>3 DEF CachedEqualsRecomputed
  <2>4. QED BY <2>1, <2>2, <2>3
<1>4. QED BY <1>1, <1>2, <1>3, PTL DEF Spec

-----------------------------------------------------------------------------
(* Two lanes of one batched step.                                            *)

AllGrouped(m) == \A i \in DOMAIN m.mixer : m.mixer[i] = "gqa"

(* What one row attends to. *)
Attended(m, row, p, held) == GroupedAttention(m, <<row>>, <<Channels(m, p)>>, held)

OneRow(h) == IsSeq(h) /\ Len(h) = 1

(* Layer i takes the one row of a to c. *)
SteppedAlone(m, a, c, p, i) ==
  /\ OneRow(c.h)
  /\ c.h[1] = Combined(a.h[1], Attended(m, a.h[1], p, a.cache[i]).out[1], RowFfn(m, i, a.h[1]))
  /\ c.cache = [a.cache EXCEPT ![i] = Attended(m, a.h[1], p, a.cache[i]).cache]

(* The batch s is the lanes a and b side by side. *)
SideBySide(s, a, b) ==
  /\ OneRow(a.h) /\ OneRow(b.h)
  /\ s = [h |-> <<a.h[1], b.h[1]>>, caches |-> <<a.cache, b.cache>>]

LEMMA TwoFacts ==
  /\ \A x, y : IsSeq(<<x, y>>) /\ Len(<<x, y>>) = 2 /\ DOMAIN <<x, y>> = 1 .. 2
  /\ \A x, y : <<x, y>>[1] = x /\ <<x, y>>[2] = y
BY DEF IsSeq, ToSet

LEMMA TwoIs ==
  ASSUME NEW s, IsSeq(s), Len(s) = 2
  PROVE  s = <<s[1], s[2]>>
<1>1. s = [i \in 1 .. 2 |-> s[i]]
  BY SeqFacts
<1>2. QED BY <1>1, TwoFacts, SameSeq

LEMMA OneIs ==
  ASSUME NEW s, OneRow(s)
  PROVE  s = <<s[1]>>
<1>1. s = [i \in 1 .. 1 |-> s[i]]
  BY SeqFacts DEF OneRow
<1>2. QED BY <1>1, ShortSeqs, SameSeq DEF OneRow

(* Two values in order, forced to a sequence. *)
LEMMA StrictTwo ==
  ASSUME NEW f, f = [l \in 1 .. 2 |-> f[l]]
  PROVE  f = <<f[1], f[2]>> /\ Strict(f) = f
<1>1. DOMAIN f = 1 .. 2
  OBVIOUS
<1>2. IsSeq(f) /\ Len(f) = 2
  BY <1>1, MappedIsSeq
<1>3. QED BY <1>2, TwoIs, StrictIs

LEMMA PlaceAlone ==
  ASSUME NEW m, NEW p \in Int
  PROVE  CosSin(m, 1, p) = <<Channels(m, p)>>
<1> DEFINE at == [s \in 1 .. 1 |-> Channels(m, p + s - 1)]
<1>1. CosSin(m, 1, p) = at
  BY DEF CosSin, CosSinAt, Channels
<1>2. p + 1 - 1 = p /\ at[1] = Channels(m, p + 1 - 1)
  OBVIOUS
<1>3. at[1] = Channels(m, p)
  BY <1>2
<1>4. at = [s \in 1 .. 1 |-> at[s]] /\ DOMAIN at = 1 .. 1
  OBVIOUS
<1> HIDE DEF at
<1>5. OneRow(at)
  BY <1>4, MappedIsSeq DEF OneRow
<1>6. QED BY <1>1, <1>3, <1>5, OneIs

LEMMA PlacesBeside ==
  ASSUME NEW m, NEW p, NEW q
  PROVE  /\ CosSinAt(m, <<p, q>>)[1] = Channels(m, p)
         /\ CosSinAt(m, <<p, q>>)[2] = Channels(m, q)
BY DEF CosSinAt, Channels

LEMMA LayerAlone ==
  ASSUME NEW m, DecoderShape(m), AllGrouped(m), NEW i \in DOMAIN m.mixer, NEW a, OneRow(a.h),
         NEW p \in Int, NEW c, c = StackStep(m, a, CosSin(m, 1, p), <<>>, 0, i)
  PROVE  SteppedAlone(m, a, c, p, i)
<1> DEFINE at == CosSin(m, 1, p)
           g == Attended(m, a.h[1], p, a.cache[i])
           l == Layer(m, i, a.h, at, a.cache[i])
           ffn == Ffn(m, i, a.h)
<1>1. i \in Nat \ {0} /\ ~ (i <= 0)
  BY SeqFacts DEF DecoderShape
<1>2. ~ IsHybrid(m) /\ m.mixer[i] = "gqa"
  BY DEF AllGrouped, IsHybrid
<1>3. a.h = <<a.h[1]>> /\ at = <<Channels(m, p)>>
  BY OneIs, PlaceAlone
<1>4. Mixer(m, i, a.h, at, a.cache[i]) = g
  <2>1. Mixer(m, i, a.h, at, a.cache[i]) = GroupedAttention(m, a.h, at, a.cache[i])
    BY <1>2 DEF Mixer
  <2>2. QED BY <1>3, <2>1 DEF Attended
<1>5. l.cache = g.cache /\ l.h = CombineFfn(a.h, g.out, ffn)
  BY <1>4, LayerIs
<1>6. c.h = l.h /\ c.cache = [a.cache EXCEPT ![i] = l.cache]
  BY <1>1 DEF StackStep
<1>7. ffn[1] = RowFfn(m, i, a.h[1])
  BY FfnRows DEF OneRow
<1> HIDE DEF l, g, ffn, at
<1>8. RowsCombined(CombineFfn(a.h, g.out, ffn), a.h, g.out, ffn)
  BY CombineRows DEF OneRow
<1>9. OneRow(c.h) /\ c.h[1] = Combined(a.h[1], g.out[1], ffn[1])
  BY <1>5, <1>6, <1>8 DEF RowsCombined, OneRow
<1>10. QED BY <1>5, <1>6, <1>7, <1>9 DEF SteppedAlone, g

LEMMA LayerBeside ==
  ASSUME NEW m, DecoderShape(m), AllGrouped(m), NEW i \in DOMAIN m.mixer,
         NEW s, NEW a, NEW b, SideBySide(s, a, b), NEW p \in Int, NEW q \in Int,
         NEW c, c = StackStep(m, a, CosSin(m, 1, p), <<>>, 0, i),
         NEW d, d = StackStep(m, b, CosSin(m, 1, q), <<>>, 0, i)
  PROVE  SideBySide(ForwardPerSeq(m, s.h, CosSinAt(m, <<p, q>>), s.caches, i), c, d)
<1> DEFINE at == CosSinAt(m, <<p, q>>)
           h == s.h
           kvs == s.caches
           ga == Attended(m, a.h[1], p, a.cache[i])
           gb == Attended(m, b.h[1], q, b.cache[i])
           lanes == [l \in DOMAIN h |-> GroupedAttention(m, <<h[l]>>, <<at[l]>>, kvs[l][i])]
           ffn == Ffn(m, i, h)
           mixed == [l \in DOMAIN h |-> lanes[l].out[1]]
           held == [l \in DOMAIN h |-> [kvs[l] EXCEPT ![i] = lanes[l].cache]]
           t == ForwardPerSeq(m, h, at, kvs, i)
<1>1. SteppedAlone(m, a, c, p, i) /\ SteppedAlone(m, b, d, q, i)
  BY LayerAlone DEF SideBySide
<1>2. h = <<a.h[1], b.h[1]>> /\ kvs = <<a.cache, b.cache>>
  BY DEF SideBySide
<1>3. /\ IsSeq(h) /\ Len(h) = 2 /\ DOMAIN h = 1 .. 2 /\ h[1] = a.h[1] /\ h[2] = b.h[1]
      /\ kvs[1] = a.cache /\ kvs[2] = b.cache
  BY <1>2, TwoFacts
<1>4. at[1] = Channels(m, p) /\ at[2] = Channels(m, q)
  BY PlacesBeside
<1> HIDE DEF h, kvs, at
<1>5. lanes[1] = ga /\ lanes[2] = gb
  BY <1>3, <1>4 DEF Attended
<1>6. ffn = IF m.moe[i] THEN MoeMlp(m, h) ELSE Dense(h)
  <2>1. ~ IsHybrid(m)
    BY DEF AllGrouped, IsHybrid
  <2>2. QED BY <2>1 DEF Ffn
<1>7. t = [h |-> CombineFfn(h, mixed, ffn), caches |-> Strict(held)]
  BY <1>6 DEF ForwardPerSeq
<1>8. ffn[1] = RowFfn(m, i, h[1]) /\ ffn[2] = RowFfn(m, i, h[2])
  BY <1>3, FfnRows
<1>9. mixed[1] = ga.out[1] /\ mixed[2] = gb.out[1]
  BY <1>3, <1>5
<1>10. held[1] = c.cache /\ held[2] = d.cache
  BY <1>1, <1>3, <1>5 DEF SteppedAlone
<1>11. Strict(held) = <<c.cache, d.cache>>
  <2>1. held = [l \in 1 .. 2 |-> held[l]]
    BY <1>3
  <2> HIDE DEF held
  <2>2. QED BY <1>10, <2>1, StrictTwo
<1> HIDE DEF ffn, mixed, ga, gb, t, held, lanes
<1>12. CombineFfn(h, mixed, ffn) = <<c.h[1], d.h[1]>>
  <2>1. PICK out : out = CombineFfn(h, mixed, ffn)
    OBVIOUS
  <2>2. RowsCombined(out, h, mixed, ffn)
    BY <1>3, <2>1, CombineRows
  <2>3. /\ IsSeq(out) /\ Len(out) = 2
        /\ out[1] = Combined(h[1], mixed[1], ffn[1]) /\ out[2] = Combined(h[2], mixed[2], ffn[2])
    BY <1>3, <2>2 DEF RowsCombined
  <2>4. out[1] = c.h[1] /\ out[2] = d.h[1]
    BY <1>1, <1>3, <1>8, <1>9, <2>3 DEF SteppedAlone, ga, gb
  <2>5. QED BY <2>1, <2>3, <2>4, TwoIs
<1>13. t = [h |-> <<c.h[1], d.h[1]>>, caches |-> <<c.cache, d.cache>>]
  BY <1>7, <1>11, <1>12
<1>14. SideBySide(t, c, d)
  BY <1>1, <1>13 DEF SideBySide, SteppedAlone
<1>15. QED BY <1>14 DEF t, h, kvs, at

(* What the batched step gives for two lanes is what each gives alone. *)
AsAlone(m, x, y, kx, ky, p, q) ==
  DecodeLogitsPerSeq(m, <<x, y>>, <<kx, ky>>, <<p, q>>)
    = Some([h |-> <<DecodeLogits(m, <<x>>, kx, p).logits, DecodeLogits(m, <<y>>, ky, q).logits>>,
            caches |-> <<DecodeLogits(m, <<x>>, kx, p).cache, DecodeLogits(m, <<y>>, ky, q).cache>>])

(* A token run alone, through the layers. *)
RunAlone(f, m, x, kv, p) ==
  /\ IsStack(f, m, kv, Embed(<<x>>), CosSin(m, 1, p), <<>>, 0)
  /\ DecodeLogits(m, <<x>>, kv, p) = LastRow(f[Len(m.mixer)])

LEMMA AloneRuns ==
  ASSUME NEW m, DecoderShape(m), NEW x, NEW kv, NEW p
  PROVE  \E f : RunAlone(f, m, x, kv, p)
<1> DEFINE at == CosSin(m, 1, p)
           e == Embed(<<x>>)
<1>1. Len(e) = 1
  BY ShortSeqs, EmbedFacts
<1>2. DecodeLogits(m, <<x>>, kv, p) = LastRow(RunFusedStack(m, kv, e, at, <<>>, 0))
  BY <1>1 DEF DecodeLogits, DecodeLogitsFromEmbeds, RunStack
<1> HIDE DEF at, e
<1>3. PICK f : /\ IsStack(f, m, kv, e, at, <<>>, 0)
               /\ RunFusedStack(m, kv, e, at, <<>>, 0) = f[Len(m.mixer)]
  BY StackRuns
<1>4. RunAlone(f, m, x, kv, p)
  BY <1>2, <1>3 DEF RunAlone, at, e
<1>5. QED BY <1>4

LEMMA StartBeside ==
  ASSUME NEW x, NEW y, NEW kx, NEW ky
  PROVE  SideBySide([h |-> Rows(Embed(<<x, y>>)), caches |-> <<kx, ky>>],
                    StackStart(kx, Embed(<<x>>)), StackStart(ky, Embed(<<y>>)))
<1> DEFINE First(id) == [src |-> Row(id), out |-> <<>>]
           ex == Embed(<<x>>)
           ey == Embed(<<y>>)
           both == Embed(<<x, y>>)
           rows == Rows(both)
<1>1. IsSeq(ex) /\ Len(ex) = 1 /\ ex[1] = Row(x) /\ IsSeq(ey) /\ Len(ey) = 1 /\ ey[1] = Row(y)
  BY ShortSeqs, EmbedFacts
<1>2. IsSeq(both) /\ Len(both) = 2 /\ both[1] = Row(x) /\ both[2] = Row(y)
  BY TwoFacts, EmbedFacts
<1> HIDE DEF ex, ey, both
<1>3. OneRow(Rows(ex)) /\ Rows(ex)[1] = First(x) /\ OneRow(Rows(ey)) /\ Rows(ey)[1] = First(y)
  BY <1>1, RowsFacts DEF OneRow
<1>4. IsSeq(rows) /\ Len(rows) = 2 /\ rows[1] = First(x) /\ rows[2] = First(y)
  BY <1>2, RowsFacts
<1> HIDE DEF rows, First
<1>5. rows = <<First(x), First(y)>>
  BY <1>4, TwoIs
<1>6. QED BY <1>3, <1>5 DEF SideBySide, StackStart, rows, ex, ey, both

LEMMA LanesBeside ==
  ASSUME NEW m, DecoderShape(m), AllGrouped(m), NEW x, NEW y, NEW kx, NEW ky,
         NEW p \in Int, NEW q \in Int
  PROVE  AsAlone(m, x, y, kx, ky, p, q)
<1>1. PICK N \in Nat : N = Len(m.mixer) /\ DOMAIN m.mixer = 1 .. N
  BY SeqFacts DEF DecoderShape
<1>2. PICK a : RunAlone(a, m, x, kx, p)
  BY AloneRuns
<1>3. PICK b : RunAlone(b, m, y, ky, q)
  BY AloneRuns
<1> DEFINE at == CosSinAt(m, <<p, q>>)
           start == [h |-> Rows(Embed(<<x, y>>)), caches |-> <<kx, ky>>]
           Step(s, i) == ForwardPerSeq(m, s.h, at, s.caches, i)
           Upto(f) == f = [i \in 0 .. N |-> IF i = 0 THEN start ELSE Step(f[i - 1], i)]
           Beside(i) == [h |-> <<a[i].h[1], b[i].h[1]>>, caches |-> <<a[i].cache, b[i].cache>>]
           P == {i \in 0 .. N : OneRow(a[i].h) /\ OneRow(b[i].h)}
           g == [i \in 0 .. N |-> Beside(i)]
<1>4. SideBySide(start, a[0], b[0])
  BY <1>2, <1>3, StartBeside DEF RunAlone, IsStack
<1>5. ASSUME NEW i \in 1 .. N, SideBySide(Beside(i - 1), a[i - 1], b[i - 1])
      PROVE  SideBySide(Step(Beside(i - 1), i), a[i], b[i])
  <2>1. /\ a[i] = StackStep(m, a[i - 1], CosSin(m, 1, p), <<>>, 0, i)
        /\ b[i] = StackStep(m, b[i - 1], CosSin(m, 1, q), <<>>, 0, i)
    BY <1>1, <1>2, <1>3 DEF RunAlone, IsStack
  <2>2. PICK s, c, d : s = Beside(i - 1) /\ c = a[i - 1] /\ d = b[i - 1]
    OBVIOUS
  <2>3. SideBySide(s, c, d)
    BY <1>5, <2>2
  <2> HIDE DEF Beside
  <2>4. SideBySide(ForwardPerSeq(m, s.h, CosSinAt(m, <<p, q>>), s.caches, i), a[i], b[i])
    BY <1>1, <2>1, <2>2, <2>3, LayerBeside
  <2>5. QED BY <2>2, <2>4
<1> HIDE DEF start, Step
<1>6. ASSUME NEW i \in 0 .. N, i \in P
      PROVE  SideBySide(Beside(i), a[i], b[i])
  BY <1>6 DEF SideBySide
<1>7. Beside(0) = start /\ 0 \in P
  BY <1>4 DEF SideBySide
<1>8. ASSUME NEW i \in 1 .. N, i - 1 \in P
      PROVE  i \in P
  <2>1. i - 1 \in 0 .. N
    OBVIOUS
  <2>2. SideBySide(Beside(i - 1), a[i - 1], b[i - 1])
    BY <1>6, <1>8, <2>1
  <2> HIDE DEF Beside
  <2>3. SideBySide(Step(Beside(i - 1), i), a[i], b[i])
    BY <1>5, <2>2
  <2>4. QED BY <2>3 DEF SideBySide
<1>9. \A i \in 0 .. N : i \in P
  <2> HIDE DEF P
  <2>1. QED BY <1>7, <1>8, Climb
<1>10. ASSUME NEW i \in 1 .. N
       PROVE  Beside(i) = Step(Beside(i - 1), i)
  <2>1. i - 1 \in 0 .. N
    OBVIOUS
  <2>2. SideBySide(Beside(i - 1), a[i - 1], b[i - 1])
    BY <1>6, <1>9, <2>1
  <2>3. SideBySide(Step(Beside(i - 1), i), a[i], b[i])
    BY <1>5, <2>2
  <2>4. QED BY <2>3 DEF SideBySide
<1> HIDE DEF P
<1>11. Upto(g)
  <2> HIDE DEF Beside
  <2>1. ASSUME NEW i \in 0 .. N
        PROVE  g[i] = IF i = 0 THEN start ELSE Step(g[i - 1], i)
    <3>1. CASE i = 0
      BY <1>7, <3>1
    <3>2. CASE i # 0
      <4>1. i \in 1 .. N /\ i - 1 \in 0 .. N
        BY <3>2
      <4>2. g[i] = Beside(i) /\ g[i - 1] = Beside(i - 1)
        BY <4>1
      <4>3. QED BY <1>10, <3>2, <4>1, <4>2
    <3>3. QED BY <3>1, <3>2
  <2>2. g = [i \in 0 .. N |-> g[i]]
    OBVIOUS
  <2> HIDE DEF g
  <2>3. QED BY <2>1, <2>2
<1> HIDE DEF g
<1>12. PICK f : f = (CHOOSE through : Upto(through)) /\ Upto(f)
  <2>1. \E through : Upto(through)
    BY <1>11
  <2> HIDE DEF Upto
  <2>2. QED BY <2>1
<1> DEFINE Q == {i \in 0 .. N : f[i] = Beside(i)}
<1>13. 0 \in Q
  <2> HIDE DEF Beside
  <2>1. 0 \in 0 .. N
    OBVIOUS
  <2>2. f[0] = IF 0 = 0 THEN start ELSE Step(f[0 - 1], 0)
    BY <1>12, <2>1
  <2>3. QED BY <1>7, <2>1, <2>2
<1>14. ASSUME NEW i \in 1 .. N, i - 1 \in Q
       PROVE  i \in Q
  <2> HIDE DEF Beside
  <2>1. i \in 0 .. N /\ i # 0
    OBVIOUS
  <2>2. f[i] = Step(f[i - 1], i)
    BY <1>12, <2>1
  <2>3. QED BY <1>10, <1>14, <2>2
<1>15. f[N] = Beside(N)
  <2> HIDE DEF Q
  <2>1. N \in Q
    BY <1>13, <1>14, Climb
  <2> USE DEF Q
  <2> HIDE DEF Beside
  <2>2. QED BY <2>1
<1>16. DecodeLogitsPerSeq(m, <<x, y>>, <<kx, ky>>, <<p, q>>) = Some(f[N])
  <2>1. /\ Len(<<x, y>>) = 2 /\ Len(<<kx, ky>>) = 2 /\ Len(<<p, q>>) = 2
        /\ ~ \E i \in DOMAIN m.mixer : m.mixer[i] # "gqa"
    BY DEF AllGrouped
  <2>2. QED BY <1>1, <1>12, <2>1 DEF DecodeLogitsPerSeq, start, Step
<1>17. DecodeLogits(m, <<x>>, kx, p) = [logits |-> a[N].h[1], cache |-> a[N].cache]
  <2>1. DecodeLogits(m, <<x>>, kx, p) = LastRow(a[N]) /\ Len(a[N].h) = 1
    BY <1>1, <1>2, <1>9 DEF RunAlone, P, OneRow
  <2>2. QED BY <2>1 DEF LastRow
<1>18. DecodeLogits(m, <<y>>, ky, q) = [logits |-> b[N].h[1], cache |-> b[N].cache]
  <2>1. DecodeLogits(m, <<y>>, ky, q) = LastRow(b[N]) /\ Len(b[N].h) = 1
    BY <1>1, <1>3, <1>9 DEF RunAlone, P, OneRow
  <2>2. QED BY <2>1 DEF LastRow
<1>19. QED BY <1>15, <1>16, <1>17, <1>18 DEF AsAlone

(* For any decoder of grouped-query attention, a token fed beside another      *)
(* sequence in either order of the lanes gives what it gives alone, and leaves *)
(* the same cache; so does the other's (decode_logits_per_seq).                *)
THEOREM SpecBatchedEqualsAlone == Spec => []BatchedEqualsAlone
<1>1. Init => TextInv
  BY TextInit
<1>2. TextInv /\ [Next]_vars => TextInv'
  BY TextNext
<1>3. TextInv => BatchedEqualsAlone
  <2> DEFINE next == Vocabulary[1]
             theirs == Vocabulary[2]
             other == DecodeLogits(Model, <<theirs, next>>, NewCache(Model), 0).cache
  <2>1. SUFFICES ASSUME TextInv, ~ Multimodal, AllGrouped(Model)
                 PROVE  /\ AsAlone(Model, next, theirs, cache, other, fed, 2)
                        /\ AsAlone(Model, theirs, next, other, cache, 2, fed)
    BY DEF BatchedEqualsAlone, AllGrouped, AsAlone
  <2>2. fed \in Int /\ 2 \in Int /\ DecoderShape(Model)
    BY <2>1, RequestFacts DEF TextInv, RunInv, Model
  <2> HIDE DEF other, next, theirs
  <2>3. QED BY <2>1, <2>2, LanesBeside
<1>4. QED BY <1>1, <1>2, <1>3, PTL DEF Spec

-----------------------------------------------------------------------------
(* The rows of the tower that are kept.                                      *)
RowAgrees(row, block) ==
  \A n \in DOMAIN row : /\ block.id = row[n].patch.frames[1][1]
                        /\ CellAgrees(row[n], GridOfVisual(block))

VisionInv ==
  /\ request \in Requests /\ EncIs(enc) /\ IsSeq(enc.feats)
  /\ \A k \in DOMAIN enc.feats : \E v \in 1 .. Encoded : RowAgrees(enc.feats[k], Blocks[v])

LEMMA OneMoreEncoded ==
  ASSUME NEW e, EncIs(e), NEW block, NEW out, EncodedOk(out)
  PROVE  LET new == WithVisual(Geometry, e, block, out)
         IN  /\ new.feats = e.feats \o out.pooler
             /\ Len(new.image_grids) + Len(new.video_grids)
                  = Len(e.image_grids) + Len(e.video_grids) + 1
<1>1. PICK new : new = WithVisual(Geometry, e, block, out)
  OBVIOUS
<1>2. /\ new.feats = e.feats \o out.pooler
      /\ new.image_grids = IF block.kind = "image" THEN e.image_grids \o <<out.grid>> ELSE e.image_grids
      /\ new.video_grids = IF block.kind # "image" THEN e.video_grids \o <<out.grid>> ELSE e.video_grids
  BY <1>1 DEF WithVisual
<1>3. PICK a \in Seq(Grids), b \in Seq(Grids), x \in Grids :
        a = e.image_grids /\ b = e.video_grids /\ x = out.grid
  BY DEF EncIs, EncodedOk
<1>4. Len(a) \in Nat /\ Len(b) \in Nat
  OBVIOUS
<1>5. Len(a \o <<x>>) = Len(a) + 1 /\ Len(b \o <<x>>) = Len(b) + 1
  OBVIOUS
<1>6. Len(new.image_grids) + Len(new.video_grids) = Len(a) + Len(b) + 1
  <2>1. CASE block.kind = "image"
    <3>1. new.image_grids = a \o <<x>> /\ new.video_grids = b
      BY <1>2, <1>3, <2>1
    <3>2. QED BY <1>4, <1>5, <3>1
  <2>2. CASE block.kind # "image"
    <3>1. new.video_grids = b \o <<x>> /\ new.image_grids = a
      BY <1>2, <1>3, <2>2
    <3>2. QED BY <1>4, <1>5, <3>1
  <2>3. QED BY <2>1, <2>2
<1>7. QED BY <1>1, <1>2, <1>3, <1>6

LEMMA BehindTheFirst ==
  ASSUME NEW n \in Nat, NEW p \in Nat, NEW k \in 1 .. n + p, k \notin 1 .. n
  PROVE  \E i \in 1 .. p : k = n + i
<1>1. k - n \in 1 .. p /\ k = n + (k - n)
  OBVIOUS
<1>2. QED BY <1>1

LEMMA EncodeVision ==
  ASSUME VisionInv, EncodeNext
  PROVE  VisionInv'
<1> DEFINE block == Blocks[Encoded + 1]
           out == Encode(Geometry, block)
<1>1. /\ Encoded < Len(Blocks) /\ request' = request
      /\ \/ UNCHANGED enc
         \/ out # None /\ enc' = WithVisual(Geometry, enc, block, out.some)
  BY DEF EncodeNext, Refused
<1>2. request \in Requests /\ EncIs(enc) /\ IsSeq(enc.feats)
      /\ \A k \in DOMAIN enc.feats : \E v \in 1 .. Encoded : RowAgrees(enc.feats[k], Blocks[v])
  BY DEF VisionInv
<1>3. Encoded \in Nat /\ VisualOk(block) /\ Machine(Geometry)
  BY <1>1, <1>2, NextVisual
<1>4. Blocks' = Blocks
  BY <1>1 DEF Blocks
<1>5. CASE UNCHANGED enc
  BY <1>1, <1>2, <1>4, <1>5 DEF VisionInv, Encoded
<1>6. CASE out # None /\ enc' = WithVisual(Geometry, enc, block, out.some)
  <2>1. EncodedOk(out.some)
    BY <1>3, <1>6, EncodeFacts
  <2>2. out.some.grid = GridOfVisual(block)
        /\ PooledAgrees(out.some.pooler, GridOfVisual(block), block.id)
    BY <1>3, <1>6, EncodeAgrees
  <2>3. PICK b, o : b = block /\ o = out.some
    OBVIOUS
  <2> HIDE DEF block, out
  <2>4. EncIs(WithVisual(Geometry, enc, b, o))
    BY <1>2, <1>3, <2>1, <2>3, WithVisualIs
  <2>5. /\ enc'.feats = enc.feats \o o.pooler
        /\ Encoded' = Encoded + 1
    <3>1. LET new == WithVisual(Geometry, enc, b, o)
          IN  /\ new.feats = enc.feats \o o.pooler
              /\ Len(new.image_grids) + Len(new.video_grids)
                   = Len(enc.image_grids) + Len(enc.video_grids) + 1
      BY <1>2, <2>1, <2>3, OneMoreEncoded
    <3>2. QED BY <1>6, <2>3, <3>1 DEF Encoded
  <2>6. IsSeq(o.pooler)
    BY <2>1, <2>3 DEF EncodedOk
  <2>7. PICK n \in Nat, p \in Nat : n = Len(enc.feats) /\ p = Len(o.pooler)
    BY <1>2, <2>6, SeqFacts
  <2>8. /\ IsSeq(enc'.feats) /\ Len(enc'.feats) = n + p
        /\ \A i \in 1 .. n : enc'.feats[i] = enc.feats[i]
        /\ \A i \in 1 .. p : enc'.feats[n + i] = o.pooler[i]
    <3>1. PICK s, t : s = enc.feats /\ t = o.pooler
      OBVIOUS
    <3>2. IsSeq(s) /\ IsSeq(t)
      BY <1>2, <2>6, <3>1
    <3>3. /\ IsSeq(s \o t) /\ Len(s \o t) = Len(s) + Len(t)
          /\ \A i \in 1 .. Len(s) : (s \o t)[i] = s[i]
          /\ \A i \in 1 .. Len(t) : (s \o t)[Len(s) + i] = t[i]
      BY <3>2, JoinFacts
    <3>4. enc'.feats = s \o t /\ Len(s) = n /\ Len(t) = p
      BY <2>5, <2>7, <3>1
    <3>5. PICK joined : joined = s \o t
      OBVIOUS
    <3>6. /\ IsSeq(joined) /\ Len(joined) = n + p
          /\ \A i \in 1 .. n : joined[i] = s[i]
          /\ \A i \in 1 .. p : joined[n + i] = t[i]
      BY <3>3, <3>4, <3>5
    <3>7. enc'.feats = joined
      BY <3>4, <3>5
    <3>8. QED BY <3>1, <3>6, <3>7
  <2>9. ASSUME NEW k \in DOMAIN enc'.feats
        PROVE  \E v \in 1 .. Encoded' : RowAgrees(enc'.feats[k], Blocks[v])
    <3>1. k \in 1 .. n + p
      BY <2>8, SeqFacts
    <3>2. CASE k \in 1 .. n
      <4>1. k \in DOMAIN enc.feats
        BY <1>2, <2>7, <3>2, SeqFacts
      <4>2. PICK v \in 1 .. Encoded : RowAgrees(enc.feats[k], Blocks[v])
        BY <1>2, <4>1
      <4>3. v \in 1 .. Encoded'
        BY <1>3, <2>5
      <4>4. QED BY <2>8, <3>2, <4>2, <4>3
    <3>3. CASE k \notin 1 .. n
      <4>1. PICK i \in 1 .. p : k = n + i
        <5>1. n \in Nat /\ p \in Nat
          BY <2>7
        <5>2. QED BY <3>1, <3>3, <5>1, BehindTheFirst
      <4>2. i \in DOMAIN o.pooler
        BY <2>6, <2>7, SeqFacts
      <4>3. RowAgrees(o.pooler[i], b)
        BY <2>2, <2>3, <4>2 DEF RowAgrees, PooledAgrees
      <4>4. enc'.feats[k] = o.pooler[i]
        BY <2>8, <4>1
      <4>5. Encoded + 1 \in 1 .. Encoded' /\ Blocks[Encoded + 1] = b
        BY <1>3, <2>3, <2>5 DEF block
      <4>6. QED BY <4>3, <4>4, <4>5
    <3>4. QED BY <3>2, <3>3
  <2>10. EncIs(enc')
    BY <1>6, <2>3, <2>4
  <2>11. QED BY <1>1, <1>2, <1>4, <2>8, <2>9, <2>10 DEF VisionInv
<1>7. QED BY <1>1, <1>5, <1>6

(* In the tower every patch is rotated by its own cell, takes its own place in *)
(* the picture from the four corners of the learned grid, and attends to its   *)
(* own frame only (vision_position_ids, vision_bilinear, vision_cu_seqlens).   *)
THEOREM SpecVisionRowsAgree == Spec => []VisionRowsAgree
<1>1. Init => VisionInv
  <2>1. SUFFICES ASSUME Init PROVE VisionInv
    OBVIOUS
  <2>2. request \in Requests /\ enc = NothingEncoded
    BY <2>1 DEF Init
  <2>3. IsSeq(enc.feats) /\ DOMAIN enc.feats = {}
    <3>1. enc.feats = <<>>
      BY <2>2 DEF NothingEncoded
    <3>2. QED BY <3>1, ShortSeqs
  <2>4. EncIs(enc)
    BY <2>2, NothingIs
  <2>5. QED BY <2>2, <2>3, <2>4 DEF VisionInv
<1>2. VisionInv /\ [Next]_vars => VisionInv'
  <2>1. SUFFICES ASSUME VisionInv, [Next]_vars PROVE VisionInv'
    OBVIOUS
  <2>2. CASE EncodeNext
    BY <2>1, <2>2, EncodeVision
  <2>3. CASE request' = request /\ enc' = enc
    <3>1. Blocks' = Blocks /\ Encoded' = Encoded
      BY <2>3 DEF Blocks, Encoded
    <3>2. QED BY <2>1, <2>3, <3>1 DEF VisionInv
  <2>4. ~ EncodeNext => request' = request /\ enc' = enc
    BY <2>1 DEF Next, vars, Place, PlaceCaption, PlaceAs, Refused, PrefillMultimodal, PrefillCaption,
                PrefillText, Decode
  <2>5. QED BY <2>2, <2>3, <2>4
<1>3. VisionInv => VisionRowsAgree
  BY DEF VisionInv, RowAgrees, VisionRowsAgree, Grid, GridOfVisual
<1>4. QED BY <1>1, <1>2, <1>3, PTL DEF Spec

=============================================================================
