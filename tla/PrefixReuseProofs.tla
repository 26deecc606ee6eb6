-------------------------- MODULE PrefixReuseProofs --------------------------
(***************************************************************************)
(* Proofs about PrefixReuse, for any requests, vocabulary, model, prompts,  *)
(* budgets and capacity.                                                    *)
(*                                                                          *)
(* That the tensors follow the index (IndexInv) needs no hypothesis.  That  *)
(* a call with a seeded cache streams what a cold one does needs more:      *)
(* CacheInv says at each point of the loop which tokens the cache holds,    *)
(* CallInv what the call has streamed, and KvBelongsToKey what the next     *)
(* call may find.  They hold as long as no prompt continues the whole of a  *)
(* stored sequence whose last token was not fed (NoOverrun).                *)
(***************************************************************************)
EXTENDS PrefixReuse, SequenceTheorems, FiniteSetTheorems, WellFoundedInduction, TLAPS

Said == Tokens \cup {Junk}
Held == Tokens \cup {Junk, Garbage}
Reasons == {"StopToken", "MaxTokens", "Cancelled", "Stopped"}
DoneEvents == [reason : Reasons, generated : Nat]

Distinct(list) == \A i, j \in DOMAIN list : list[i] = list[j] => i = j

(* The running call; a token is fed only after one was generated. *)
CallType ==
  /\ LoopTypeOK
  /\ cache \in Seq(Held)
  /\ pc = "feed" => generated[current] # <<>>

IndexInv ==
  /\ stream \in Models
  /\ TypeOK
  /\ CallType
  /\ DOMAIN kv = ToSet(index)
  /\ Distinct(index)
  /\ Len(index) <= Capacity

(* The prompt and the output of the running call. *)
Sequence == Prompt[current] \o generated[current]

(* What request r has streamed follows the model. *)
Follows(r) ==
  /\ Len(generated[r]) <= Budget[r]
  /\ \A i \in 1 .. Len(generated[r]) : generated[r][i] = stream[r][i]

CallInv ==
  /\ \A r \in Requests : Follows(r)
  /\ \A r \in Requests \ called : generated[r] = <<>> /\ done[r] = <<>>
  /\ pc # "idle" => current \in called
  /\ pc \in {"prefill", "loop", "feed"} => done[current] = <<>>

CacheInv ==
  /\ pc = "prefill" => /\ generated[current] = <<>>
                       /\ Len(cache) < Len(Prompt[current])
                       /\ cache = SubSeq(Prompt[current], 1, Len(cache))
  /\ pc = "loop" => /\ cache = Sequence
                    /\ Len(generated[current]) < Budget[current]
                         => logits = stream[current][Len(generated[current]) + 1]
  /\ pc = "feed" => /\ generated[current] # <<>>
                    /\ Len(generated[current]) < Budget[current]
                    /\ Append(cache, Last(generated[current])) = Sequence
  /\ pc = "ended" => IsPrefix(cache, Sequence) /\ Len(Sequence) - Len(cache) <= 1

ReuseInv == CallInv /\ CacheInv /\ KvBelongsToKey

-----------------------------------------------------------------------------
(* Sequences without repetition *)

LEMMA DistinctCardinality ==
  ASSUME NEW S, NEW list \in Seq(S), Distinct(list)
  PROVE  IsFiniteSet(ToSet(list)) /\ Cardinality(ToSet(list)) = Len(list)
<1>1. Len(list) \in Nat /\ DOMAIN list = 1 .. Len(list)
  BY LenProperties
<1>2. list \in Bijection(1 .. Len(list), ToSet(list))
  <2>1. list \in [1 .. Len(list) -> ToSet(list)]
    BY <1>1, SeqDef DEF ToSet
  <2>2. QED BY <1>1, <2>1 DEF Distinct, ToSet, Bijection, Injection, Surjection, IsInjective
<1>3. IsFiniteSet(1 .. Len(list)) /\ Cardinality(1 .. Len(list)) = Len(list)
  BY <1>1, FS_Interval
<1>4. QED BY <1>2, <1>3, FS_Bijection DEF ExistsBijection

LEMMA SuffixDistinct ==
  ASSUME NEW S, NEW list \in Seq(S), Distinct(list), NEW a \in 1 .. Len(list) + 1
  PROVE  /\ SubSeq(list, a, Len(list)) \in Seq(S)
         /\ Len(SubSeq(list, a, Len(list))) = Len(list) - a + 1
         /\ Distinct(SubSeq(list, a, Len(list)))
         /\ ToSet(SubSeq(list, a, Len(list))) \subseteq ToSet(list)
<1> DEFINE tail == SubSeq(list, a, Len(list))
<1>1. Len(list) \in Nat /\ DOMAIN list = 1 .. Len(list)
  BY LenProperties
<1>2. /\ tail \in Seq(S) /\ Len(tail) = Len(list) - a + 1
      /\ \A i \in 1 .. Len(list) - a + 1 : tail[i] = list[a + i - 1]
  BY <1>1, SubSeqProperties
<1>3. DOMAIN tail = 1 .. Len(list) - a + 1
  BY <1>2, LenProperties
<1> HIDE DEF tail
<1>4. \A i \in 1 .. Len(list) - a + 1 : a + i - 1 \in 1 .. Len(list)
  BY <1>1
<1>5. Distinct(tail)
  <2>1. \A i, j \in 1 .. Len(list) - a + 1 : tail[i] = tail[j] => a + i - 1 = a + j - 1
    BY <1>1, <1>2, <1>4 DEF Distinct
  <2>2. \A i, j \in 1 .. Len(list) - a + 1 : tail[i] = tail[j] => i = j
    BY <1>1, <2>1
  <2>3. QED BY <1>3, <2>2 DEF Distinct
<1>6. ToSet(tail) \subseteq ToSet(list)
  BY <1>1, <1>2, <1>3, <1>4 DEF ToSet
<1>7. QED BY <1>2, <1>5, <1>6 DEF tail

-----------------------------------------------------------------------------
(* The index *)

(* The place of a sequence in a list that holds it once. *)
LEMMA RemovedAt ==
  ASSUME NEW S, NEW list \in Seq(S), Distinct(list), NEW p \in DOMAIN list
  PROVE  RemoveFirst(list, list[p]) = RemoveAt(list, p)
<1>1. Len(list) \in Nat /\ DOMAIN list = 1 .. Len(list)
  BY LenProperties
<1>2. PICK e : e = list[p]
  OBVIOUS
<1>3. {i \in 1 .. Len(list) : list[i] = e} = {p}
  BY <1>1, <1>2 DEF Distinct
<1>4. p \in Nat
  BY <1>1
<1>5. Min({p}) = p
  BY <1>4 DEF Min
<1>6. SelectInSeq(list, LAMBDA v : v = e) = p
  BY <1>3, <1>5 DEF SelectInSeq
<1>7. \E i \in 1 .. Len(list) : list[i] = e
  BY <1>1, <1>2
<1>8. RemoveFirst(list, e) = RemoveAt(list, p)
  BY <1>6, <1>7 DEF RemoveFirst
<1>9. QED BY <1>2, <1>8

LEMMA RemoveAtFacts ==
  ASSUME NEW S, NEW list \in Seq(S), Distinct(list), NEW p \in DOMAIN list
  PROVE  /\ RemoveAt(list, p) \in Seq(S)
         /\ Len(RemoveAt(list, p)) = Len(list) - 1
         /\ Distinct(RemoveAt(list, p))
         /\ ToSet(RemoveAt(list, p)) = ToSet(list) \ {list[p]}
<1> DEFINE n == Len(list)
           before == SubSeq(list, 1, p - 1)
           after == SubSeq(list, p + 1, n)
           rest == before \o after
           from == [i \in 1 .. n - 1 |-> IF i < p THEN i ELSE i + 1]
<1>1. n \in Nat /\ DOMAIN list = 1 .. n /\ p \in 1 .. n
  BY LenProperties
<1>2. /\ before \in Seq(S) /\ Len(before) = p - 1
      /\ \A i \in 1 .. p - 1 : before[i] = list[i]
  <2>1. 1 \in 1 .. n + 1 /\ p - 1 \in 1 - 1 .. n
    BY <1>1
  <2>2. QED BY <1>1, <2>1, SubSeqProperties
<1>3. /\ after \in Seq(S) /\ Len(after) = n - p
      /\ \A i \in 1 .. n - p : after[i] = list[p + i]
  <2>1. p + 1 \in 1 .. n + 1 /\ n \in (p + 1) - 1 .. n
    BY <1>1
  <2>2. /\ after \in Seq(S) /\ Len(after) = n - (p + 1) + 1
        /\ \A i \in 1 .. n - (p + 1) + 1 : after[i] = list[(p + 1) + i - 1]
    BY <1>1, <2>1, SubSeqProperties
  <2>3. n - (p + 1) + 1 = n - p /\ \A i \in 1 .. n - p : (p + 1) + i - 1 = p + i
    BY <1>1
  <2>4. QED BY <2>2, <2>3
<1> HIDE DEF before, after
<1>4. /\ rest \in Seq(S) /\ Len(rest) = n - 1
      /\ \A i \in 1 .. n - 1 : rest[i] = IF i <= p - 1 THEN before[i] ELSE after[i - (p - 1)]
  <2>1. /\ rest \in Seq(S) /\ Len(rest) = Len(before) + Len(after)
        /\ \A i \in 1 .. Len(before) + Len(after) :
             rest[i] = IF i <= Len(before) THEN before[i] ELSE after[i - Len(before)]
    BY <1>2, <1>3, ConcatProperties
  <2>2. Len(before) + Len(after) = n - 1
    BY <1>1, <1>2, <1>3
  <2>3. QED BY <1>2, <2>1, <2>2
<1> HIDE DEF rest
<1>5. \A i \in 1 .. n - 1 : rest[i] = list[from[i]] /\ from[i] \in 1 .. n /\ from[i] # p
  <2>1. TAKE i \in 1 .. n - 1
  <2>2. CASE i < p
    BY <1>1, <1>2, <1>4, <2>1, <2>2
  <2>3. CASE ~ (i < p)
    <3>1. i - (p - 1) \in 1 .. n - p /\ p + (i - (p - 1)) = i + 1 /\ ~ (i <= p - 1)
      BY <1>1, <2>1, <2>3
    <3>2. rest[i] = list[i + 1]
      BY <1>3, <1>4, <2>1, <3>1
    <3>3. from[i] = i + 1 /\ i + 1 \in 1 .. n /\ i + 1 # p
      BY <1>1, <2>1, <2>3
    <3>4. QED BY <3>2, <3>3
  <2>4. QED BY <2>2, <2>3
<1>6. \A i, j \in 1 .. n - 1 : from[i] = from[j] => i = j
  BY <1>1
<1>7. \A q \in 1 .. n : q # p => \E i \in 1 .. n - 1 : from[i] = q
  <2>1. TAKE q \in 1 .. n
  <2>2. HAVE q # p
  <2>3. CASE q < p
    <3>1. q \in 1 .. n - 1 /\ from[q] = q
      BY <1>1, <2>1, <2>3
    <3>2. QED BY <3>1
  <2>4. CASE q > p
    <3>1. q - 1 \in 1 .. n - 1 /\ from[q - 1] = q
      BY <1>1, <2>1, <2>4
    <3>2. QED BY <3>1
  <2>5. QED BY <1>1, <2>1, <2>2, <2>3, <2>4
<1> HIDE DEF from
<1>8. DOMAIN rest = 1 .. n - 1
  BY <1>4, LenProperties
<1>9. Distinct(rest)
  BY <1>1, <1>5, <1>6, <1>8 DEF Distinct
<1>10. ToSet(rest) = ToSet(list) \ {list[p]}
  <2>1. \A x : x \in ToSet(rest) <=> \E i \in 1 .. n - 1 : x = rest[i]
    BY <1>8 DEF ToSet
  <2>2. \A x : x \in ToSet(list) <=> \E q \in 1 .. n : x = list[q]
    BY <1>1 DEF ToSet
  <2>3. \A q \in 1 .. n : q # p => list[q] # list[p]
    BY <1>1 DEF Distinct
  <2>4. \A x : x \in ToSet(rest) => x \in ToSet(list) /\ x # list[p]
    BY <1>5, <2>1, <2>2, <2>3
  <2>5. ASSUME NEW x, x \in ToSet(list), x # list[p] PROVE x \in ToSet(rest)
    <3>1. PICK q \in 1 .. n : x = list[q]
      BY <2>2, <2>5
    <3>2. PICK i \in 1 .. n - 1 : from[i] = q
      BY <1>7, <2>5, <3>1
    <3>3. QED BY <1>5, <2>1, <3>1, <3>2
  <2>6. QED BY <2>4, <2>5
<1>11. RemoveAt(list, p) = rest
  BY DEF RemoveAt, rest, before, after
<1>12. QED BY <1>4, <1>9, <1>10, <1>11

LEMMA AppendDistinct ==
  ASSUME NEW S, NEW list \in Seq(S), NEW e \in S, Distinct(list), e \notin ToSet(list)
  PROVE  /\ Append(list, e) \in Seq(S)
         /\ Len(Append(list, e)) = Len(list) + 1
         /\ Distinct(Append(list, e))
         /\ ToSet(Append(list, e)) = ToSet(list) \cup {e}
<1> DEFINE longer == Append(list, e)
           n == Len(list)
<1>1. /\ longer \in Seq(S) /\ Len(longer) = n + 1
      /\ \A i \in 1 .. n : longer[i] = list[i]
      /\ longer[n + 1] = e
  BY AppendProperties
<1>2. n \in Nat /\ DOMAIN list = 1 .. n /\ DOMAIN longer = 1 .. n + 1
  BY <1>1, LenProperties
<1> HIDE DEF longer
<1>3. \A i \in 1 .. n : list[i] # e
  BY <1>2 DEF ToSet
<1>4. \A i \in 1 .. n + 1 : i \in 1 .. n \/ i = n + 1
  BY <1>2
<1>5. Distinct(longer)
  BY <1>1, <1>2, <1>3, <1>4 DEF Distinct
<1>6. ToSet(longer) = ToSet(list) \cup {e}
  <2>1. \A x : x \in ToSet(longer) <=> \E i \in 1 .. n + 1 : x = longer[i]
    BY <1>2 DEF ToSet
  <2>2. \A x : x \in ToSet(list) <=> \E i \in 1 .. n : x = list[i]
    BY <1>2 DEF ToSet
  <2>3. n + 1 \in 1 .. n + 1 /\ \A i \in 1 .. n : i \in 1 .. n + 1
    BY <1>2
  <2>4. QED BY <1>1, <1>4, <2>1, <2>2, <2>3
<1>7. QED BY <1>1, <1>5, <1>6 DEF longer

(* Touching a sequence moves it, or adds it, and repeats none. *)
LEMMA TouchFacts ==
  ASSUME IndexInv, NEW s \in Seq(Said)
  PROVE  /\ Touch(s) \in Seq(Seq(Said))
         /\ Distinct(Touch(s))
         /\ ToSet(Touch(s)) = ToSet(index) \cup {s}
         /\ Len(Touch(s)) = IF s \in ToSet(index) THEN Len(index) ELSE Len(index) + 1
<1>1. index \in Seq(Seq(Said)) /\ Distinct(index)
  BY DEF IndexInv, TypeOK, Said
<1>2. Len(index) \in Nat /\ DOMAIN index = 1 .. Len(index)
  BY <1>1, LenProperties
<1>3. CASE s \in ToSet(index)
  <2>1. PICK p \in DOMAIN index : index[p] = s
    BY <1>3 DEF ToSet
  <2>2. PICK rest : rest = RemoveAt(index, p)
    OBVIOUS
  <2>3. RemoveFirst(index, s) = rest
    BY <1>1, <2>1, <2>2, RemovedAt
  <2>4. /\ rest \in Seq(Seq(Said)) /\ Len(rest) = Len(index) - 1
        /\ Distinct(rest) /\ ToSet(rest) = ToSet(index) \ {s}
    BY <1>1, <2>1, <2>2, RemoveAtFacts
  <2>5. /\ Append(rest, s) \in Seq(Seq(Said)) /\ Len(Append(rest, s)) = Len(rest) + 1
        /\ Distinct(Append(rest, s)) /\ ToSet(Append(rest, s)) = ToSet(rest) \cup {s}
    BY <2>4, AppendDistinct
  <2>6. QED BY <1>2, <1>3, <2>3, <2>4, <2>5 DEF Touch
<1>4. CASE s \notin ToSet(index)
  <2>1. RemoveFirst(index, s) = index
    BY <1>2, <1>4 DEF RemoveFirst, ToSet
  <2>2. QED BY <1>1, <1>4, <2>1, AppendDistinct DEF Touch
<1>5. QED BY <1>3, <1>4

-----------------------------------------------------------------------------
(* The longest common prefix *)

LEMMA LeastOfNonEmpty ==
  ASSUME NEW N \in SUBSET Nat, N # {}
  PROVE  \E x \in N : \A y \in N : x <= y
<1> DEFINE R == OpToRel(<, Nat)
<1>1. IsWellFoundedOn(R, Nat)
  BY NatLessThanWellFounded
<1>2. \A x, y \in Nat : y < x => <<y, x>> \in R
  BY DEF OpToRel
<1> HIDE DEF R
<1>3. PICK x \in N : \A y \in N : ~ (<<y, x>> \in R)
  BY <1>1, WFMin
<1>4. \A y \in N : ~ (y < x)
  BY <1>2, <1>3
<1>5. QED BY <1>4

LEMMA PrefixFacts ==
  ASSUME NEW S, NEW p \in Seq(S), NEW s \in Seq(S), IsPrefix(p, s)
  PROVE  /\ Len(p) \in 0 .. Len(s)
         /\ p = SubSeq(s, 1, Len(p))
         /\ \A i \in 1 .. Len(p) : p[i] = s[i]
<1>1. Len(p) \in 0 .. Len(s)
  BY LenProperties DEF IsPrefix
<1>2. p = SubSeq(s, 1, Len(p))
  BY SubSeqFull DEF IsPrefix
<1>3. \A i \in 1 .. Len(p) : SubSeq(s, 1, Len(p))[i] = s[i]
  <2>1. PICK n : n = Len(p)
    OBVIOUS
  <2>2. \A i \in 1 .. n : s[i] \in S
    BY <1>1, <2>1, ElementOfSeq
  <2>3. n \in Int /\ n - 1 + 1 = n /\ \A i \in 1 .. n : 1 + i - 1 = i
    BY <1>1, <2>1
  <2>4. \A i \in 1 .. n - 1 + 1 : SubSeq(s, 1, n)[i] = s[1 + i - 1]
    BY <2>2, <2>3, SubSeqProperties
  <2>5. QED BY <2>1, <2>3, <2>4
<1>4. QED BY <1>1, <1>2, <1>3

LEMMA PrefixIff ==
  ASSUME NEW S, NEW p \in Seq(S), NEW s \in Seq(S), Len(p) <= Len(s),
         \A i \in 1 .. Len(p) : p[i] = s[i]
  PROVE  IsPrefix(p, s) /\ p = SubSeq(s, 1, Len(p))
<1> DEFINE n == Len(p)
           q == SubSeq(s, 1, n)
<1>1. n \in Nat /\ Len(s) \in Nat /\ DOMAIN p = 1 .. n
  BY LenProperties
<1>2. \A i \in 1 .. n : s[i] \in S
  BY <1>1, ElementOfSeq
<1>3. /\ q \in Seq(S) /\ Len(q) = IF 1 <= n THEN n - 1 + 1 ELSE 0
      /\ \A i \in 1 .. n - 1 + 1 : q[i] = s[1 + i - 1]
  BY <1>1, <1>2, SubSeqProperties
<1>4. Len(q) = n /\ \A i \in 1 .. n : q[i] = s[i]
  <2>1. n - 1 + 1 = n /\ \A i \in 1 .. n : 1 + i - 1 = i
    BY <1>1
  <2>2. QED BY <1>1, <1>3, <2>1
<1> HIDE DEF q
<1>5. p = q
  BY <1>1, <1>3, <1>4, SeqEqual
<1>6. SubSeq(p, 1, n) = p
  BY SubSeqFull
<1>7. QED BY <1>5, <1>6 DEF IsPrefix, q

(* What longest_match says of a stored sequence: that many tokens agree. *)
LEMMA SharedFacts ==
  ASSUME NEW S, NEW s \in Seq(S), NEW t \in Seq(S)
  PROVE  /\ Shared(s, t) \in 0 .. Len(s)
         /\ Shared(s, t) \in 0 .. Len(t)
         /\ \A i \in 1 .. Shared(s, t) : s[i] = t[i]
<1> DEFINE P == CommonPrefixes({s, t})
           N == {Len(s) - Len(p) : p \in P}
<1>1. Len(s) \in Nat /\ Len(t) \in Nat
  BY LenProperties
<1>2. \A p \in P : /\ p \in Seq(S)
                   /\ IsPrefix(p, s) /\ IsPrefix(p, t)
  <2>1. TAKE p \in P
  <2>2. PICK u \in {s, t} : p \in Prefixes(u)
    BY <2>1 DEF CommonPrefixes
  <2>3. PICK l \in 0 .. Len(u) : p = SubSeq(u, 1, l)
    BY <2>2 DEF Prefixes
  <2>4. \A i \in 1 .. l : u[i] \in S
    BY <1>1, <2>2, <2>3, ElementOfSeq
  <2>5. p \in Seq(S)
    BY <1>1, <2>2, <2>3, <2>4, SubSeqProperties
  <2>6. QED BY <2>1, <2>5 DEF CommonPrefixes
<1>3. <<>> \in P
  <2>1. \A u : SubSeq(u, 1, 0) = <<>>
    BY SubSeqEmpty
  <2>2. <<>> \in Prefixes(s)
    <3>1. 0 \in 0 .. Len(s) /\ SubSeq(s, 1, 0) = <<>>
      BY <1>1, <2>1
    <3>2. QED BY <3>1 DEF Prefixes
  <2>3. \A u \in {s, t} : IsPrefix(<<>>, u)
    BY <1>1, <2>1 DEF IsPrefix
  <2>4. QED BY <2>2, <2>3 DEF CommonPrefixes
<1> HIDE DEF P
<1>4. \A p \in P : Len(p) \in 0 .. Len(s) /\ Len(p) \in 0 .. Len(t)
  BY <1>2, PrefixFacts
<1>5. N \in SUBSET Nat /\ N # {}
  BY <1>1, <1>3, <1>4
<1>6. PICK x \in N : \A y \in N : x <= y
  BY <1>5, LeastOfNonEmpty
<1>7. PICK q \in P : x = Len(s) - Len(q)
  BY <1>6
<1>8. \A p \in P : Len(p) <= Len(q)
  <2>1. TAKE p \in P
  <2>2. x <= Len(s) - Len(p)
    BY <1>6, <2>1
  <2>3. Len(p) \in Nat /\ Len(q) \in Nat
    BY <1>4, <2>1
  <2>4. QED BY <1>1, <1>7, <2>2, <2>3
<1> DEFINE longest == LongestCommonPrefix({s, t})
<1>9. longest \in P
  BY <1>7, <1>8 DEF LongestCommonPrefix, P
<1> HIDE DEF longest
<1>10. /\ longest \in Seq(S) /\ Len(longest) \in 0 .. Len(s) /\ Len(longest) \in 0 .. Len(t)
       /\ IsPrefix(longest, s) /\ IsPrefix(longest, t)
  BY <1>2, <1>4, <1>9
<1>11. /\ \A i \in 1 .. Len(longest) : longest[i] = s[i]
       /\ \A i \in 1 .. Len(longest) : longest[i] = t[i]
  BY <1>10, PrefixFacts
<1>12. QED BY <1>10, <1>11 DEF Shared, longest

-----------------------------------------------------------------------------
(* The tensors follow the index *)

LEMMA RequestFacts ==
  ASSUME NEW r \in Requests
  PROVE  /\ Prompt[r] \in Seq(Tokens) /\ Prompt[r] \in Seq(Said) /\ Prompt[r] \in Seq(Held)
         /\ Len(Prompt[r]) \in Nat \ {0}
         /\ Budget[r] \in Nat
<1>1. Prompt[r] \in Seq(Tokens) /\ Prompt[r] # <<>>
  BY PromptAssumption
<1>2. Seq(Tokens) \subseteq Seq(Said) /\ Seq(Tokens) \subseteq Seq(Held)
  BY DEF Said, Held
<1>3. Len(Prompt[r]) \in Nat
  BY <1>1, LenProperties
<1>4. Len(Prompt[r]) # 0
  BY <1>1, EmptySeq
<1>5. QED BY <1>1, <1>2, <1>3, <1>4, BudgetAssumption

LEMMA SampledType ==
  ASSUME stream \in Models, NEW r \in Requests, NEW context
  PROVE  Sampled(r, context) \in Said
<1>1. stream[r] \in Seq(Tokens) /\ Len(stream[r]) = Budget[r] /\ Budget[r] \in Nat
  BY ModelsAssumption, BudgetAssumption
<1>2. PICK k : k = Len(context) - Len(Prompt[r])
  OBVIOUS
<1>3. CASE k \in 0 .. Budget[r] - 1
  <2>1. k + 1 \in 1 .. Len(stream[r])
    BY <1>1, <1>3
  <2>2. stream[r][k + 1] \in Tokens
    BY <1>1, <2>1, ElementOfSeq
  <2>3. QED BY <1>2, <2>2 DEF Sampled, Said
<1>4. CASE k \notin 0 .. Budget[r] - 1
  BY <1>2, <1>4 DEF Sampled, Said
<1>5. QED BY <1>3, <1>4

LEMMA ReusedFacts ==
  ASSUME NEW S, NEW s \in Seq(S), NEW prompt \in Seq(S), Len(prompt) # 0
  PROVE  /\ ReusedLen(s, prompt) \in 0 .. Len(s)
         /\ ReusedLen(s, prompt) < Len(prompt)
         /\ \A i \in 1 .. ReusedLen(s, prompt) : s[i] = prompt[i]
         /\ ReusedLen(s, prompt) = Len(s) => Shared(s, prompt) = Len(s)
<1>1. PICK n : n = Shared(s, prompt)
  OBVIOUS
<1>2. n \in 0 .. Len(s) /\ n \in 0 .. Len(prompt) /\ \A i \in 1 .. n : s[i] = prompt[i]
  BY <1>1, SharedFacts
<1>3. Len(s) \in Nat /\ Len(prompt) \in Nat
  BY LenProperties
<1>4. ReusedLen(s, prompt) = IF n < Len(prompt) THEN n ELSE Len(prompt) - 1
  BY <1>1 DEF ReusedLen
<1>5. ReusedLen(s, prompt) \in 0 .. n /\ ReusedLen(s, prompt) < Len(prompt)
  BY <1>2, <1>3, <1>4
<1>6. QED BY <1>1, <1>2, <1>3, <1>5

LEMMA SlicedType ==
  ASSUME NEW layers \in Seq(Held), NEW n \in Nat
  PROVE  SliceLayers(layers, n) \in Seq(Held)
<1>1. \A i \in 1 .. n : (IF i <= Len(layers) THEN layers[i] ELSE Garbage) \in Held
  <2>1. TAKE i \in 1 .. n
  <2>2. CASE i <= Len(layers)
    <3>1. i \in 1 .. Len(layers)
      BY <2>1, <2>2, LenProperties
    <3>2. QED BY <2>2, <3>1, ElementOfSeq
  <2>3. CASE ~ (i <= Len(layers))
    BY <2>3 DEF Held
  <2>4. QED BY <2>2, <2>3
<1>2. QED BY <1>1, IsASeq DEF SliceLayers

LEMMA IndexInit ==
  ASSUME Init PROVE IndexInv
<1>1. current \in Requests
  BY RequestsAssumption DEF Init, LoopInit
<1>2. <<>> \in Seq(Held) /\ <<>> \in Seq(Said) /\ <<>> \in Seq(Seq(Said)) /\ <<>> \in Seq(DoneEvents)
  BY EmptySeq
<1>3. LoopTypeOK
  BY <1>1, <1>2 DEF Init, LoopInit, LoopTypeOK, Said, DoneEvents, Reasons
<1>4. DOMAIN kv = {} /\ ToSet(index) = {} /\ Distinct(index) /\ Len(index) = 0
  BY DEF Init, ToSet, Distinct
<1>5. TypeOK
  BY <1>2, <1>3, <1>4 DEF TypeOK, Init, LoopInit, Held, Said
<1>6. CallType
  BY <1>2, <1>3 DEF CallType, Init, LoopInit
<1>7. QED BY <1>4, <1>5, <1>6, CapacityAssumption DEF IndexInv, Init, LoopInit

(* A step that leaves the index and the tensors alone keeps them in step.    *)
LEMMA IndexKept ==
  ASSUME IndexInv, UNCHANGED <<stream, index, kv>>, CallType'
  PROVE  IndexInv'
BY DEF IndexInv, TypeOK, CallType, Distinct, Held

(* A call begins: what it is given is a cache. *)
LEMMA BeginType ==
  ASSUME IndexInv, NEW r \in Requests, NEW held \in Seq(Held), BeginWith(r, held)
  PROVE  CallType' /\ UNCHANGED stream
BY DEF BeginWith, MayCall, IndexInv, CallType, LoopTypeOK

LEMMA RefuseType ==
  ASSUME IndexInv, NEW r \in Requests, Refuse(r) \/ Cancel(r)
  PROVE  CallType' /\ UNCHANGED stream
<1>1. cancel' = [cancel EXCEPT ![r] = TRUE]
  BY DEF Refuse, Cancel
<1>2. cancel' \in [Requests -> BOOLEAN]
  BY <1>1 DEF IndexInv, TypeOK, LoopTypeOK
<1>3. called' \subseteq Requests /\ UNCHANGED <<stream, current, pc, cache, logits, generated, out, done>>
  BY DEF Refuse, Cancel, IndexInv, TypeOK, LoopTypeOK
<1>4. QED BY <1>2, <1>3 DEF IndexInv, CallType, LoopTypeOK

LEMMA LeaveType ==
  ASSUME IndexInv, Leave, UNCHANGED <<stream, cancel, called, current, generated, out, done>>
  PROVE  CallType' /\ UNCHANGED stream
<1>1. cache' = <<>> /\ pc' = "idle" /\ logits' = Junk
  BY DEF Leave
<1>2. cache' \in Seq(Held)
  BY <1>1, EmptySeq
<1>3. QED BY <1>1, <1>2 DEF IndexInv, CallType, LoopTypeOK

LEMMA EndType ==
  ASSUME IndexInv, NEW why \in Reasons, LoopEnd(why), generated' \in [Requests -> Seq(Said)],
         UNCHANGED current
  PROVE  done' \in [Requests -> Seq(DoneEvents)] /\ pc' = "ended"
<1>1. current \in Requests /\ done \in [Requests -> Seq(DoneEvents)]
  BY DEF IndexInv, TypeOK, LoopTypeOK, DoneEvents, Reasons
<1>2. PICK event : event = [reason |-> why, generated |-> Len(generated'[current])]
  OBVIOUS
<1>3. event \in DoneEvents
  <2>1. generated'[current] \in Seq(Said)
    BY <1>1
  <2>2. Len(generated'[current]) \in Nat
    BY <2>1, LenProperties
  <2>3. QED BY <1>2, <2>2 DEF DoneEvents
<1>4. done' = [done EXCEPT ![current] = Append(@, event)]
  BY <1>2 DEF LoopEnd
<1>5. Append(done[current], event) \in Seq(DoneEvents)
  BY <1>1, <1>3, AppendProperties
<1>6. QED BY <1>1, <1>4, <1>5 DEF LoopEnd

LEMMA LoopType ==
  ASSUME IndexInv, Loop
  PROVE  CallType' /\ UNCHANGED stream
<1>1. /\ stream \in Models /\ current \in Requests /\ cache \in Seq(Held)
      /\ logits \in Said /\ generated \in [Requests -> Seq(Said)] /\ out = generated
      /\ cancel \in [Requests -> BOOLEAN] /\ called \subseteq Requests
      /\ done \in [Requests -> Seq(DoneEvents)]
  BY DEF IndexInv, CallType, LoopTypeOK, DoneEvents, Reasons, Said
<1>2. Said \subseteq Held
  BY DEF Said, Held
<1>3. /\ Prompt[current] \in Seq(Held) /\ Len(Prompt[current]) \in Nat
      /\ generated[current] \in Seq(Said)
  BY <1>1, RequestFacts
<1>4. CASE Prefill
  <2>1. PICK rest : rest = SubSeq(Prompt[current], Len(cache) + 1, Len(Prompt[current]))
    OBVIOUS
  <2>2. rest \in Seq(Held)
    <3>1. Len(cache) \in Nat
      BY <1>1, LenProperties
    <3>2. \A i \in Len(cache) + 1 .. Len(Prompt[current]) : Prompt[current][i] \in Held
      BY <1>3, <3>1, ElementOfSeq
    <3>3. Len(cache) + 1 \in Int /\ Len(Prompt[current]) \in Int
      BY <1>3, <3>1
    <3>4. QED BY <2>1, <3>2, <3>3, SubSeqProperties
  <2>3. cache' = cache \o rest
    BY <1>4, <2>1 DEF Prefill
  <2>4. cache' \in Seq(Held)
    BY <1>1, <2>2, <2>3, ConcatProperties
  <2>5. logits' \in Said
    <3>1. Sampled(current, cache') \in Said /\ Junk \in Said
      BY <1>1, SampledType DEF Said
    <3>2. QED BY <1>4, <3>1 DEF Prefill
  <2>6. pc' = "loop" /\ UNCHANGED <<stream, cancel, called, current, generated, out, done>>
    BY <1>4 DEF Prefill
  <2>7. QED BY <1>1, <2>4, <2>5, <2>6 DEF CallType, LoopTypeOK, DoneEvents, Reasons, Said
<1>5. CASE Fail
  BY <1>5, LeaveType DEF Fail
<1>6. CASE Exhausted \/ Cancelled \/ StopToken
  <2>1. /\ UNCHANGED <<stream, cancel, called, current, cache, logits, generated, out>>
        /\ \E why \in Reasons : LoopEnd(why)
    BY <1>6 DEF Exhausted, Cancelled, StopToken, Reasons
  <2>2. PICK why \in Reasons : LoopEnd(why)
    BY <2>1
  <2>3. generated' \in [Requests -> Seq(Said)] /\ UNCHANGED current
    BY <1>1, <2>1
  <2>4. done' \in [Requests -> Seq(DoneEvents)] /\ pc' = "ended"
    BY <2>2, <2>3, EndType
  <2>5. QED BY <1>1, <2>1, <2>4 DEF CallType, LoopTypeOK, DoneEvents, Reasons, Said
<1>7. CASE TokenStep
  <2>1. /\ UNCHANGED <<stream, cancel, called, current, cache, logits>>
        /\ out' = [out EXCEPT ![current] = Append(@, logits)]
        /\ generated' = [generated EXCEPT ![current] = Append(@, logits)]
    BY <1>7 DEF TokenStep
  <2>2. Append(generated[current], logits) \in Seq(Said)
    BY <1>1, <1>3, AppendProperties
  <2>3. generated' \in [Requests -> Seq(Said)] /\ out' = generated'
    BY <1>1, <2>1, <2>2
  <2>4. done' \in [Requests -> Seq(DoneEvents)] /\ pc' \in {"feed", "ended"}
    <3>1. ASSUME NEW why \in Reasons, LoopEnd(why)
          PROVE  done' \in [Requests -> Seq(DoneEvents)] /\ pc' \in {"feed", "ended"}
      BY <2>1, <2>3, <3>1, EndType
    <3>2. "Stopped" \in Reasons /\ "MaxTokens" \in Reasons
      BY DEF Reasons
    <3>3. LoopEnd("Stopped") \/ LoopEnd("MaxTokens") \/ (pc' = "feed" /\ UNCHANGED done)
      BY <1>7 DEF TokenStep
    <3>4. QED BY <1>1, <3>1, <3>2, <3>3
  <2>5. generated'[current'] # <<>>
    <3>1. generated'[current] = Append(generated[current], logits)
      BY <1>1, <2>1
    <3>2. Append(generated[current], logits) # <<>>
      BY <1>1, <1>3, AppendProperties
    <3>3. QED BY <2>1, <3>1, <3>2
  <2>6. QED BY <1>1, <2>1, <2>3, <2>4, <2>5 DEF CallType, LoopTypeOK, DoneEvents, Reasons, Said
<1>8. CASE Feed
  <2>1. PICK e : e = Last(generated[current])
    OBVIOUS
  <2>2. cache' = Append(cache, e)
    BY <1>8, <2>1 DEF Feed
  <2>3. e \in Held
    <3>1. generated[current] # <<>>
      BY <1>8 DEF Feed, IndexInv, CallType
    <3>2. Len(generated[current]) \in Nat /\ Len(generated[current]) # 0
      BY <1>3, <3>1, EmptySeq, LenProperties
    <3>3. Len(generated[current]) \in 1 .. Len(generated[current])
      BY <3>2
    <3>4. QED BY <1>2, <1>3, <2>1, <3>3, ElementOfSeq DEF Last
  <2>4. cache' \in Seq(Held)
    BY <1>1, <2>2, <2>3, AppendProperties
  <2>5. logits' \in Said
    BY <1>1, <1>8, SampledType DEF Feed
  <2>6. pc' = "loop" /\ UNCHANGED <<stream, cancel, called, current, generated, out, done>>
    BY <1>8 DEF Feed
  <2>7. QED BY <1>1, <2>4, <2>5, <2>6 DEF CallType, LoopTypeOK, DoneEvents, Reasons, Said
<1>9. QED BY <1>4, <1>5, <1>6, <1>7, <1>8 DEF Loop

(* A stored sequence is one of the vocabulary, and its tensors are a cache.  *)
LEMMA StoredType ==
  ASSUME IndexInv, NEW s \in DOMAIN kv
  PROVE  s \in Seq(Said) /\ kv[s] \in Seq(Held) /\ s \in ToSet(index)
<1>1. /\ index \in Seq(Seq(Said)) /\ kv[s] \in Seq(Held) /\ s \in ToSet(index)
  BY DEF IndexInv, TypeOK, Said, Held
<1>2. DOMAIN index = 1 .. Len(index)
  BY <1>1, LenProperties
<1>3. PICK i \in 1 .. Len(index) : s = index[i]
  BY <1>1, <1>2 DEF ToSet
<1>4. index[i] \in Seq(Said)
  BY <1>1, ElementOfSeq
<1>5. QED BY <1>1, <1>3, <1>4

LEMMA IndexHit ==
  ASSUME IndexInv, NEW r \in Requests, Hit(r)
  PROVE  IndexInv'
<1>1. PICK s \in Matches(Prompt[r]) :
        /\ s \in DOMAIN kv
        /\ BeginWith(r, SliceLayers(kv[s], ReusedLen(s, Prompt[r])))
        /\ index' = Touch(s)
  BY DEF Hit
<1>2. UNCHANGED kv
  BY DEF Hit
<1>3. s \in Seq(Said) /\ kv[s] \in Seq(Held) /\ s \in ToSet(index)
  BY <1>1, StoredType
<1>4. Prompt[r] \in Seq(Said) /\ Len(Prompt[r]) # 0
  BY RequestFacts
<1>5. PICK held : held = SliceLayers(kv[s], ReusedLen(s, Prompt[r]))
  OBVIOUS
<1>6. held \in Seq(Held)
  <2>1. ReusedLen(s, Prompt[r]) \in 0 .. Len(s)
    BY <1>3, <1>4, ReusedFacts
  <2>2. ReusedLen(s, Prompt[r]) \in Nat
    BY <2>1
  <2>3. QED BY <1>3, <1>5, <2>2, SlicedType
<1>7. CallType' /\ UNCHANGED stream
  <2>1. BeginWith(r, held)
    BY <1>1, <1>5
  <2>2. QED BY <1>6, <2>1, BeginType
<1>8. /\ index' \in Seq(Seq(Said)) /\ Distinct(index')
      /\ ToSet(index') = ToSet(index) /\ Len(index') = Len(index)
  <2>1. ToSet(index) \cup {s} = ToSet(index)
    BY <1>3
  <2>2. QED BY <1>1, <1>3, <2>1, TouchFacts
<1>9. QED BY <1>2, <1>7, <1>8 DEF IndexInv, TypeOK, CallType, Distinct, Said, Held

LEMMA IndexStore ==
  ASSUME IndexInv, Store
  PROVE  IndexInv'
<1> DEFINE s == StoredTokens(current)
           all == Touch(s)
           from == IF Len(all) > Capacity THEN Len(all) - Capacity + 1 ELSE 1
           kept == SubSeq(all, from, Len(all))
<1>1. index' = kept /\ kv' = Evict(ToSet(kept), s)
  BY DEF Store
<1>2. s \in Seq(Said)
  <2>1. current \in Requests /\ generated[current] \in Seq(Said)
    BY DEF IndexInv, CallType, LoopTypeOK, Said
  <2>2. Prompt[current] \in Seq(Said)
    BY <2>1, RequestFacts
  <2>3. QED BY <2>1, <2>2, ConcatProperties DEF StoredTokens
<1> HIDE DEF s
<1>3. /\ all \in Seq(Seq(Said)) /\ Distinct(all)
      /\ ToSet(all) = ToSet(index) \cup {s}
  BY <1>2, TouchFacts
<1> HIDE DEF all
<1>4. Len(all) \in Nat /\ Capacity \in Nat
  BY <1>3, CapacityAssumption, LenProperties
<1>5. from \in 1 .. Len(all) + 1 /\ Len(all) - from + 1 <= Capacity
  BY <1>4
<1> HIDE DEF from
<1>6. /\ kept \in Seq(Seq(Said)) /\ Len(kept) = Len(all) - from + 1
      /\ Distinct(kept) /\ ToSet(kept) \subseteq ToSet(all)
  BY <1>3, <1>5, SuffixDistinct
<1> HIDE DEF kept
<1>7. /\ DOMAIN kv' = ToSet(kept)
      /\ \A t \in DOMAIN kv' : kv'[t] \in Seq(Held)
  <2>1. DOMAIN kv = ToSet(index) /\ cache \in Seq(Held) /\ \A t \in DOMAIN kv : kv[t] \in Seq(Held)
    BY DEF IndexInv, TypeOK, Held
  <2>2. kv' = [t \in ToSet(kept) \cap ({s} \cup DOMAIN kv) |-> IF t = s THEN cache ELSE kv[t]]
    BY <1>1 DEF Evict
  <2>3. ToSet(kept) \cap ({s} \cup DOMAIN kv) = ToSet(kept)
    BY <1>3, <1>6, <2>1
  <2>4. QED BY <2>1, <2>2, <2>3
<1>8. CallType' /\ UNCHANGED stream
  BY LeaveType DEF Store
<1>9. Len(index') <= Capacity
  BY <1>1, <1>5, <1>6
<1>10. QED
  BY <1>1, <1>6, <1>7, <1>8, <1>9 DEF IndexInv, TypeOK, CallType, Distinct, Said, Held

(* The caller's own cache, and the empty one, are caches. *)
LEMMA ColdType ==
  ASSUME NEW r \in Requests, NEW n \in 0 .. Len(Prompt[r])
  PROVE  /\ SubSeq(Prompt[r], 1, n) \in Seq(Held)
         /\ Len(SubSeq(Prompt[r], 1, n)) = n
         /\ \A i \in 1 .. n : SubSeq(Prompt[r], 1, n)[i] = Prompt[r][i]
<1>1. Prompt[r] \in Seq(Held) /\ Len(Prompt[r]) \in Nat
  BY RequestFacts
<1>2. n \in Int /\ n - 1 + 1 = n /\ (\A i \in 1 .. n : 1 + i - 1 = i)
      /\ (IF 1 <= n THEN n - 1 + 1 ELSE 0) = n
  BY <1>1
<1>3. \A i \in 1 .. n : Prompt[r][i] \in Held
  BY <1>1, ElementOfSeq
<1>4. PICK p : p = Prompt[r]
  OBVIOUS
<1>5. /\ SubSeq(p, 1, n) \in Seq(Held)
      /\ Len(SubSeq(p, 1, n)) = IF 1 <= n THEN n - 1 + 1 ELSE 0
      /\ \A i \in 1 .. n - 1 + 1 : SubSeq(p, 1, n)[i] = p[1 + i - 1]
  BY <1>2, <1>3, <1>4, SubSeqProperties
<1>6. QED BY <1>2, <1>4, <1>5

(* A call begins outside the prefix cache, or with nothing found in it.      *)
LEMMA IndexBegin ==
  ASSUME IndexInv, NEW r \in Requests,
         Miss(r) \/ GenerateWith(r) \/ \E n \in 0 .. Len(Prompt[r]) : GenerateWithCache(r, n)
  PROVE  IndexInv'
<1>1. UNCHANGED <<index, kv>>
  BY DEF Miss, GenerateWith, GenerateWithCache
<1>2. \E held \in Seq(Held) : BeginWith(r, held)
  <2>1. CASE Miss(r) \/ GenerateWith(r)
    <3>1. <<>> \in Seq(Held)
      BY EmptySeq
    <3>2. BeginWith(r, <<>>)
      BY <2>1 DEF Miss, GenerateWith
    <3>3. QED BY <3>1, <3>2
  <2>2. CASE \E n \in 0 .. Len(Prompt[r]) : GenerateWithCache(r, n)
    <3>1. PICK n \in 0 .. Len(Prompt[r]) : GenerateWithCache(r, n)
      BY <2>2
    <3>2. SubSeq(Prompt[r], 1, n) \in Seq(Held)
      BY ColdType
    <3>3. QED BY <3>1, <3>2 DEF GenerateWithCache
  <2>3. QED BY <2>1, <2>2
<1>3. CallType' /\ UNCHANGED stream
  BY <1>2, BeginType
<1>4. QED BY <1>1, <1>3, IndexKept

LEMMA IndexNext ==
  ASSUME IndexInv, [Next]_vars
  PROVE  IndexInv'
<1>1. CASE UNCHANGED vars
  BY <1>1 DEF vars, IndexInv, TypeOK, CallType, LoopTypeOK, Distinct
<1>2. CASE Store
  BY <1>2, IndexStore
<1>3. CASE Return
  <2>1. CallType' /\ UNCHANGED stream
    BY <1>3, LeaveType DEF Return
  <2>2. UNCHANGED <<index, kv>>
    BY <1>3 DEF Return
  <2>3. QED BY <2>1, <2>2, IndexKept
<1>4. CASE Loop /\ UNCHANGED <<index, kv>>
  BY <1>4, LoopType, IndexKept
<1>5. ASSUME NEW r \in Requests, Call(r) PROVE IndexInv'
  <2>1. CASE Hit(r)
    BY <2>1, IndexHit
  <2>2. CASE Miss(r) \/ GenerateWith(r) \/ \E n \in 0 .. Len(Prompt[r]) : GenerateWithCache(r, n)
    BY <2>2, IndexBegin
  <2>3. CASE \E n \in 0 .. Len(Prompt[r]) : NoSuffix(r, n)
    <3>1. /\ called' = called \cup {r}
          /\ UNCHANGED <<stream, cancel, current, pc, cache, logits, generated, out, done, index, kv>>
      BY <2>3 DEF NoSuffix
    <3>2. CallType'
      BY <3>1 DEF IndexInv, CallType, LoopTypeOK
    <3>3. QED BY <3>1, <3>2, IndexKept
  <2>4. CASE Refuse(r) /\ UNCHANGED <<index, kv>>
    BY <2>4, RefuseType, IndexKept
  <2>5. QED BY <1>5, <2>1, <2>2, <2>3, <2>4 DEF Call
<1>6. ASSUME NEW r \in Requests, Cancel(r) /\ UNCHANGED <<index, kv>> PROVE IndexInv'
  BY <1>6, RefuseType, IndexKept
<1>7. QED BY <1>1, <1>2, <1>3, <1>4, <1>5, <1>6 DEF Next

LEMMA SpecIndexInv == Spec => []IndexInv
<1>1. Init => IndexInv
  BY IndexInit
<1>2. IndexInv /\ [Next]_vars => IndexInv'
  BY IndexNext
<1>3. QED BY <1>1, <1>2, PTL DEF Spec

(* The prefix cache holds tensors for exactly the sequences the index names, *)
(* each once and at most Capacity, whatever the prompts continue and however *)
(* calls end: what is evicted is freed, and no orphan is left.               *)
THEOREM SpecKvMatchesIndex == Spec => []KvMatchesIndex
<1>1. IndexInv => KvMatchesIndex
  <2>1. SUFFICES ASSUME IndexInv PROVE KvMatchesIndex
    OBVIOUS
  <2>2. index \in Seq(Seq(Said)) /\ Distinct(index)
    BY <2>1 DEF IndexInv, TypeOK, Said
  <2>3. Cardinality(ToSet(index)) = Len(index)
    BY <2>2, DistinctCardinality
  <2>4. QED BY <2>1, <2>3 DEF IndexInv, KvMatchesIndex
<1>2. QED BY <1>1, SpecIndexInv, PTL

-----------------------------------------------------------------------------
(* The running call *)

LEMMA CurrentFacts ==
  ASSUME IndexInv, NEW r \in Requests
  PROVE  /\ stream[r] \in Seq(Tokens) /\ Len(stream[r]) = Budget[r] /\ Budget[r] \in Nat
         /\ generated[r] \in Seq(Said) /\ Len(generated[r]) \in Nat
         /\ Prompt[r] \o generated[r] \in Seq(Said)
         /\ Len(Prompt[r] \o generated[r]) = Len(Prompt[r]) + Len(generated[r])
<1>1. stream[r] \in Seq(Tokens) /\ Len(stream[r]) = Budget[r] /\ Budget[r] \in Nat
  BY ModelsAssumption, BudgetAssumption DEF IndexInv
<1>2. generated[r] \in Seq(Said)
  BY DEF IndexInv, CallType, LoopTypeOK, Said
<1>3. Prompt[r] \in Seq(Said)
  BY RequestFacts
<1>4. QED BY <1>1, <1>2, <1>3, LenProperties, ConcatProperties

(* A forward over the prompt and what was generated yields the next token.   *)
LEMMA SampledNext ==
  ASSUME IndexInv, NEW r \in Requests, Follows(r), Len(generated[r]) < Budget[r]
  PROVE  Sampled(r, Prompt[r] \o generated[r]) = stream[r][Len(generated[r]) + 1]
<1> DEFINE context == Prompt[r] \o generated[r]
           k == Len(context) - Len(Prompt[r])
           n == Len(generated[r])
<1>1. /\ stream[r] \in Seq(Tokens) /\ Len(stream[r]) = Budget[r] /\ Budget[r] \in Nat
      /\ generated[r] \in Seq(Said) /\ n \in Nat
      /\ Len(context) = Len(Prompt[r]) + n
  BY CurrentFacts
<1>2. Len(Prompt[r]) \in Nat
  BY RequestFacts
<1>3. k = n /\ k \in 0 .. Budget[r] - 1
  BY <1>1, <1>2
<1>4. generated[r] = SubSeq(stream[r], 1, n)
  <2>1. stream[r] \in Seq(Said)
    BY <1>1 DEF Said
  <2>2. n <= Len(stream[r]) /\ \A i \in 1 .. n : generated[r][i] = stream[r][i]
    BY <1>1 DEF Follows
  <2>3. QED BY <1>1, <2>1, <2>2, PrefixIff
<1>5. context = Prompt[r] \o SubSeq(stream[r], 1, k)
  BY <1>3, <1>4
<1> HIDE DEF context
<1>6. Sampled(r, context) = stream[r][k + 1]
  BY <1>3, <1>5 DEF Sampled
<1>7. QED BY <1>3, <1>6 DEF context

(* A step that touches neither the running call nor what is stored. *)
LEMMA ReuseKept ==
  ASSUME ReuseInv, called \subseteq called',
         UNCHANGED <<stream, current, pc, cache, logits, generated, done, kv>>
  PROVE  ReuseInv'
<1>1. (\A r \in Requests : Follows(r))'
  BY DEF ReuseInv, CallInv, Follows
<1>2. CallInv'
  BY <1>1 DEF ReuseInv, CallInv
<1>3. CacheInv'
  BY DEF ReuseInv, CacheInv, Sequence
<1>4. KvBelongsToKey'
  BY DEF ReuseInv, KvBelongsToKey
<1>5. QED BY <1>2, <1>3, <1>4 DEF ReuseInv

(* A call begins with a proper prefix of its prompt in the cache. *)
LEMMA ReuseBegin ==
  ASSUME ReuseInv, NEW r \in Requests, NEW held, BeginWith(r, held), UNCHANGED kv,
         Len(held) < Len(Prompt[r]), held = SubSeq(Prompt[r], 1, Len(held))
  PROVE  ReuseInv'
<1>1. /\ called' = called \cup {r} /\ current' = r /\ cache' = held /\ pc' = "prefill"
      /\ UNCHANGED <<stream, cancel, logits, generated, out, done>>
      /\ r \notin called
  BY DEF BeginWith, MayCall
<1>2. generated[r] = <<>> /\ done[r] = <<>>
  BY <1>1 DEF ReuseInv, CallInv
<1>3. (\A q \in Requests : Follows(q))'
  BY <1>1 DEF ReuseInv, CallInv, Follows
<1>4. CallInv'
  BY <1>1, <1>2, <1>3 DEF ReuseInv, CallInv
<1>5. CacheInv'
  BY <1>1, <1>2 DEF CacheInv
<1>6. KvBelongsToKey'
  BY DEF ReuseInv, KvBelongsToKey
<1>7. QED BY <1>4, <1>5, <1>6 DEF ReuseInv

LEMMA ReuseLeave ==
  ASSUME ReuseInv, Leave, UNCHANGED <<stream, cancel, called, current, generated, out, done>>
  PROVE  CallInv' /\ CacheInv'
<1>1. pc' = "idle"
  BY DEF Leave
<1>2. (\A q \in Requests : Follows(q))'
  BY DEF ReuseInv, CallInv, Follows
<1>3. CallInv'
  BY <1>1, <1>2 DEF ReuseInv, CallInv
<1>4. CacheInv'
  BY <1>1 DEF CacheInv
<1>5. QED BY <1>3, <1>4

(* The seed of a hit is a prefix of the prompt: no position of it is past    *)
(* the end of the stored tensors.                                            *)
LEMMA HitSeed ==
  ASSUME IndexInv, KvBelongsToKey, NoOverrun, NEW r \in Requests, NEW s \in DOMAIN kv,
         Entry[r] = "generate_cached", MayCall(r)
  PROVE  LET held == SliceLayers(kv[s], ReusedLen(s, Prompt[r]))
         IN Len(held) < Len(Prompt[r]) /\ held = SubSeq(Prompt[r], 1, Len(held))
<1> DEFINE n == ReusedLen(s, Prompt[r])
           held == SliceLayers(kv[s], n)
<1>1. /\ Prompt[r] \in Seq(Said) /\ Prompt[r] \in Seq(Held)
      /\ Len(Prompt[r]) \in Nat /\ Len(Prompt[r]) # 0
  BY RequestFacts
<1>2. s \in Seq(Said) /\ s \in Seq(Held) /\ kv[s] \in Seq(Held)
  <2>1. s \in Seq(Said) /\ kv[s] \in Seq(Held)
    BY StoredType
  <2>2. Seq(Said) \subseteq Seq(Held)
    BY DEF Said, Held
  <2>3. QED BY <2>1, <2>2
<1>3. /\ n \in 0 .. Len(s) /\ n < Len(Prompt[r])
      /\ \A i \in 1 .. n : s[i] = Prompt[r][i]
      /\ n = Len(s) => Shared(s, Prompt[r]) = Len(s)
  BY <1>1, <1>2, ReusedFacts
<1> HIDE DEF n
<1>4. /\ Len(kv[s]) \in 0 .. Len(s) /\ Len(s) - Len(kv[s]) <= 1
      /\ \A i \in 1 .. Len(kv[s]) : kv[s][i] = s[i]
  <2>1. IsPrefix(kv[s], s) /\ Len(s) - Len(kv[s]) <= 1
    BY DEF KvBelongsToKey
  <2>2. QED BY <1>2, <2>1, PrefixFacts
<1>5. Len(s) \in Nat
  BY <1>2, LenProperties
<1>6. n <= Len(kv[s])
  <2>1. SUFFICES ASSUME ~ (n <= Len(kv[s])) PROVE FALSE
    OBVIOUS
  <2>2. n = Len(s) /\ Len(kv[s]) < Len(s)
    BY <1>3, <1>4, <1>5, <2>1
  <2>3. IsPrefix(s, Prompt[r])
    <3>1. Len(s) <= Len(Prompt[r]) /\ \A i \in 1 .. Len(s) : s[i] = Prompt[r][i]
      BY <1>1, <1>3, <1>5, <2>2
    <3>2. QED BY <1>1, <1>2, <3>1, PrefixIff
  <2>4. s # Prompt[r]
    BY <1>3, <2>2
  <2>5. Len(kv[s]) >= Len(s)
    BY <2>3, <2>4 DEF NoOverrun, IsStrictPrefix
  <2>6. QED BY <1>4, <1>5, <2>2, <2>5
<1>7. held \in Seq(Held) /\ held = [i \in 1 .. n |-> IF i <= Len(kv[s]) THEN kv[s][i] ELSE Garbage]
  <2>1. n \in Nat
    BY <1>3
  <2>2. QED BY <1>2, <2>1, SlicedType DEF SliceLayers
<1>8. Len(held) = n
  <2>1. n \in Nat
    BY <1>3
  <2>2. DOMAIN held = 1 .. Len(held) /\ Len(held) \in Nat
    BY <1>7, LenProperties
  <2>3. DOMAIN held = 1 .. n
    BY <1>7
  <2>4. \A a, b \in Nat : 1 .. a = 1 .. b => a = b
    OBVIOUS
  <2> HIDE DEF held
  <2>5. QED BY <2>1, <2>2, <2>3, <2>4
<1>9. \A i \in 1 .. n : held[i] = Prompt[r][i]
  <2>1. TAKE i \in 1 .. n
  <2>2. i <= Len(kv[s]) /\ i \in 1 .. Len(kv[s])
    BY <1>3, <1>4, <1>6, <2>1
  <2>3. held[i] = kv[s][i]
    BY <1>7, <2>1, <2>2
  <2>4. QED BY <1>3, <1>4, <2>1, <2>2, <2>3
<1> HIDE DEF held
<1>10. Len(held) <= Len(Prompt[r])
  BY <1>1, <1>3, <1>8
<1>11. held = SubSeq(Prompt[r], 1, Len(held))
  BY <1>1, <1>7, <1>8, <1>9, <1>10, PrefixIff
<1>12. QED BY <1>3, <1>8, <1>11 DEF held, n

LEMMA ReuseHit ==
  ASSUME IndexInv, ReuseInv, NoOverrun, NEW r \in Requests, Hit(r)
  PROVE  ReuseInv'
<1>1. PICK s \in DOMAIN kv : BeginWith(r, SliceLayers(kv[s], ReusedLen(s, Prompt[r])))
  BY DEF Hit
<1>2. Entry[r] = "generate_cached" /\ MayCall(r) /\ UNCHANGED kv
  BY <1>1 DEF Hit, BeginWith
<1>3. PICK held : held = SliceLayers(kv[s], ReusedLen(s, Prompt[r]))
  OBVIOUS
<1>4. Len(held) < Len(Prompt[r]) /\ held = SubSeq(Prompt[r], 1, Len(held))
  BY <1>2, <1>3, HitSeed DEF ReuseInv
<1>5. BeginWith(r, held)
  BY <1>1, <1>3
<1>6. QED BY <1>2, <1>4, <1>5, ReuseBegin

LEMMA ReuseCold ==
  ASSUME IndexInv, ReuseInv, NEW r \in Requests,
         Miss(r) \/ GenerateWith(r) \/ \E n \in 0 .. Len(Prompt[r]) : GenerateWithCache(r, n)
  PROVE  ReuseInv'
<1>1. Len(Prompt[r]) \in Nat \ {0}
  BY RequestFacts
<1>2. UNCHANGED kv
  BY DEF Miss, GenerateWith, GenerateWithCache
<1>3. PICK n \in 0 .. Len(Prompt[r]) : n < Len(Prompt[r]) /\ BeginWith(r, SubSeq(Prompt[r], 1, n))
  <2>1. CASE Miss(r) \/ GenerateWith(r)
    <3>1. BeginWith(r, <<>>)
      BY <2>1 DEF Miss, GenerateWith
    <3>2. SubSeq(Prompt[r], 1, 0) = <<>>
      BY SubSeqEmpty
    <3>3. 0 \in 0 .. Len(Prompt[r]) /\ 0 < Len(Prompt[r])
      BY <1>1
    <3>4. QED BY <3>1, <3>2, <3>3
  <2>2. CASE \E n \in 0 .. Len(Prompt[r]) : GenerateWithCache(r, n)
    BY <2>2 DEF GenerateWithCache
  <2>3. QED BY <2>1, <2>2
<1>4. PICK held : held = SubSeq(Prompt[r], 1, n)
  OBVIOUS
<1>5. Len(held) = n
  BY <1>4, ColdType
<1>6. Len(held) < Len(Prompt[r]) /\ held = SubSeq(Prompt[r], 1, Len(held)) /\ BeginWith(r, held)
  BY <1>3, <1>4, <1>5
<1>7. QED BY <1>2, <1>6, ReuseBegin

LEMMA AppendOfConcat ==
  ASSUME NEW s \in Seq(Said), NEW t \in Seq(Said), NEW e \in Said
  PROVE  Append(s \o t, e) = s \o Append(t, e)
<1>1. /\ Append(t, e) = t \o <<e>> /\ Append(s \o t, e) = (s \o t) \o <<e>>
      /\ <<e>> \in Seq(Said)
  BY AppendIsConcat, ConcatProperties
<1>2. QED BY <1>1, ConcatAssociative

(* What the loop has before the step. *)
LEMMA LoopFacts ==
  ASSUME IndexInv, ReuseInv
  PROVE  /\ current \in Requests /\ Follows(current)
         /\ Prompt[current] \in Seq(Said) /\ Len(Prompt[current]) \in Nat
         /\ generated[current] \in Seq(Said) /\ Len(generated[current]) \in Nat
         /\ Budget[current] \in Nat
         /\ Sequence \in Seq(Said) /\ Len(Sequence) = Len(Prompt[current]) + Len(generated[current])
<1>1. current \in Requests
  BY DEF IndexInv, CallType, LoopTypeOK
<1>2. QED BY <1>1, CurrentFacts, RequestFacts DEF ReuseInv, CallInv, Sequence

LEMMA ReusePrefill ==
  ASSUME IndexInv, ReuseInv, Prefill, UNCHANGED kv
  PROVE  ReuseInv'
<1> DEFINE r == current
           rest == SubSeq(Prompt[r], Len(cache) + 1, Len(Prompt[r]))
<1>1. /\ pc = "prefill" /\ cache' = cache \o rest /\ pc' = "loop"
      /\ logits' = IF cache' = cache THEN Junk ELSE Sampled(r, cache')
      /\ UNCHANGED <<stream, cancel, called, current, generated, out, done>>
  BY DEF Prefill
<1>2. /\ generated[r] = <<>> /\ Len(cache) < Len(Prompt[r])
      /\ cache = SubSeq(Prompt[r], 1, Len(cache))
  BY <1>1 DEF ReuseInv, CacheInv
<1>3. /\ Prompt[r] \in Seq(Said) /\ Len(Prompt[r]) \in Nat /\ r \in Requests /\ Follows(r)
  BY LoopFacts
<1>4. cache' = Prompt[r]
  <2>1. Len(cache) \in 0 .. Len(Prompt[r])
    <3>1. Len(cache) \in Nat
      BY LenProperties DEF IndexInv, CallType
    <3>2. QED BY <1>2, <1>3, <3>1
  <2>2. PICK k \in 0 .. Len(Prompt[r]) : k = Len(cache)
    BY <2>1
  <2>3. SubSeq(Prompt[r], 1, k) \o SubSeq(Prompt[r], k + 1, Len(Prompt[r]))
          = SubSeq(Prompt[r], 1, Len(Prompt[r]))
    <3>1. 1 \in 1 .. Len(Prompt[r]) + 1 /\ k \in 1 - 1 .. Len(Prompt[r])
          /\ Len(Prompt[r]) \in k .. Len(Prompt[r])
      BY <1>3
    <3>2. QED BY <1>3, <3>1, ConcatAdjacentSubSeq
  <2>4. SubSeq(Prompt[r], 1, Len(Prompt[r])) = Prompt[r]
    BY <1>3, SubSeqFull
  <2>5. QED BY <1>1, <1>2, <2>2, <2>3, <2>4
<1>5. Prompt[r] \o generated[r] = Prompt[r]
  BY <1>2, <1>3, ConcatEmptySeq
<1>6. cache' # cache
  BY <1>2, <1>4
<1>7. Len(generated[r]) < Budget[r] => logits' = stream[r][Len(generated[r]) + 1]
  BY <1>1, <1>3, <1>4, <1>5, <1>6, SampledNext
<1>8. CacheInv'
  BY <1>1, <1>4, <1>5, <1>7 DEF CacheInv, Sequence
<1>9. (\A q \in Requests : Follows(q))'
  BY <1>1 DEF ReuseInv, CallInv, Follows
<1>10. CallInv'
  BY <1>1, <1>9 DEF ReuseInv, CallInv
<1>11. KvBelongsToKey'
  BY DEF ReuseInv, KvBelongsToKey
<1>12. QED BY <1>8, <1>10, <1>11 DEF ReuseInv

LEMMA ReuseFeed ==
  ASSUME IndexInv, ReuseInv, Feed, UNCHANGED kv
  PROVE  ReuseInv'
<1>1. /\ pc = "feed" /\ cache' = Append(cache, Last(generated[current])) /\ pc' = "loop"
      /\ logits' = Sampled(current, cache')
      /\ UNCHANGED <<stream, cancel, called, current, generated, out, done>>
  BY DEF Feed
<1>2. Len(generated[current]) < Budget[current] /\ cache' = Sequence
  BY <1>1 DEF ReuseInv, CacheInv
<1>3. logits' = stream[current][Len(generated[current]) + 1]
  <2>1. current \in Requests /\ Follows(current)
    BY LoopFacts
  <2>2. Sampled(current, Sequence) = stream[current][Len(generated[current]) + 1]
    BY <1>2, <2>1, SampledNext DEF Sequence
  <2>3. QED BY <1>1, <1>2, <2>2
<1>4. Sequence' = Sequence
  BY <1>1 DEF Sequence
<1>5. CacheInv'
  BY <1>1, <1>2, <1>3, <1>4 DEF CacheInv
<1>6. (\A q \in Requests : Follows(q))'
  BY <1>1 DEF ReuseInv, CallInv, Follows
<1>7. CallInv'
  BY <1>1, <1>6 DEF ReuseInv, CallInv
<1>8. KvBelongsToKey'
  BY DEF ReuseInv, KvBelongsToKey
<1>9. QED BY <1>5, <1>7, <1>8 DEF ReuseInv

LEMMA ReuseEnd ==
  ASSUME IndexInv, ReuseInv, Exhausted \/ Cancelled \/ StopToken, UNCHANGED kv
  PROVE  ReuseInv'
<1>1. /\ pc = "loop" /\ pc' = "ended"
      /\ UNCHANGED <<stream, cancel, called, current, cache, logits, generated, out>>
      /\ \A q \in Requests : q # current => done'[q] = done[q]
  <2>1. done \in [Requests -> Seq(DoneEvents)]
    BY DEF IndexInv, CallType, LoopTypeOK, DoneEvents, Reasons
  <2>2. QED BY <2>1 DEF Exhausted, Cancelled, StopToken, LoopEnd
<1>2. cache = Sequence /\ Sequence' = Sequence
  BY <1>1 DEF ReuseInv, CacheInv, Sequence
<1>3. IsPrefix(Sequence, Sequence) /\ Len(Sequence) - Len(Sequence) <= 1
  <2>1. Sequence \in Seq(Said)
    BY LoopFacts
  <2>2. Len(Sequence) \in Nat
    BY <2>1, LenProperties
  <2>3. QED BY <2>2 DEF IsPrefix
<1>4. CacheInv'
  BY <1>1, <1>2, <1>3 DEF CacheInv
<1>5. current \in called
  BY <1>1 DEF ReuseInv, CallInv
<1>6. (\A q \in Requests : Follows(q))'
  BY <1>1 DEF ReuseInv, CallInv, Follows
<1>7. CallInv'
  BY <1>1, <1>5, <1>6 DEF ReuseInv, CallInv
<1>8. KvBelongsToKey'
  BY DEF ReuseInv, KvBelongsToKey
<1>9. QED BY <1>4, <1>7, <1>8 DEF ReuseInv

(* The token of a step is the next one of the stream. *)
LEMMA TokenFollows ==
  ASSUME IndexInv, ReuseInv, TokenStep
  PROVE  /\ logits = stream[current][Len(generated[current]) + 1] /\ logits \in Tokens
         /\ generated'[current] = Append(generated[current], logits)
         /\ \A q \in Requests : q # current => generated'[q] = generated[q]
         /\ Len(generated'[current]) = Len(generated[current]) + 1
         /\ Last(generated'[current]) = logits
         /\ Append(cache, logits) = Prompt[current] \o generated'[current]
<1> DEFINE r == current
           g == generated[r]
           n == Len(g)
<1>1. /\ pc = "loop" /\ n < Budget[r]
      /\ generated' = [generated EXCEPT ![current] = Append(@, logits)]
  BY DEF TokenStep
<1>2. logits = stream[r][n + 1] /\ cache = Prompt[r] \o g
  BY <1>1 DEF ReuseInv, CacheInv, Sequence
<1>3. /\ r \in Requests /\ Prompt[r] \in Seq(Said) /\ g \in Seq(Said) /\ n \in Nat
      /\ Budget[r] \in Nat
  BY LoopFacts
<1>4. logits \in Tokens
  <2>1. stream[r] \in Seq(Tokens) /\ Len(stream[r]) = Budget[r]
    BY <1>3, CurrentFacts
  <2>2. n + 1 \in 1 .. Len(stream[r])
    BY <1>1, <1>3, <2>1
  <2>3. QED BY <1>2, <2>1, <2>2, ElementOfSeq
<1>5. generated \in [Requests -> Seq(Said)]
  BY DEF IndexInv, CallType, LoopTypeOK, Said
<1>6. /\ generated'[r] = Append(g, logits)
      /\ \A q \in Requests : q # r => generated'[q] = generated[q]
  BY <1>1, <1>3, <1>5
<1>7. logits \in Said
  BY <1>4 DEF Said
<1>8. Len(Append(g, logits)) = n + 1 /\ Append(g, logits)[n + 1] = logits
  BY <1>3, <1>7, AppendProperties
<1>9. Append(Prompt[r] \o g, logits) = Prompt[r] \o Append(g, logits)
  <2>1. PICK s \in Seq(Said), t \in Seq(Said), e \in Said : s = Prompt[r] /\ t = g /\ e = logits
    BY <1>3, <1>7
  <2>2. Append(s \o t, e) = s \o Append(t, e)
    BY AppendOfConcat
  <2>3. QED BY <2>1, <2>2
<1>10. Last(Append(g, logits)) = logits
  BY <1>8 DEF Last
<1>11. QED BY <1>2, <1>4, <1>6, <1>8, <1>9, <1>10

LEMMA FollowsOneMore ==
  ASSUME IndexInv, ReuseInv, TokenStep
  PROVE  (\A q \in Requests : Follows(q))'
<1>1. /\ UNCHANGED stream /\ Len(generated[current]) < Budget[current]
  BY DEF TokenStep
<1>2. /\ current \in Requests /\ generated[current] \in Seq(Said)
      /\ Len(generated[current]) \in Nat /\ Budget[current] \in Nat
  BY LoopFacts
<1>3. \A q \in Requests : Follows(q)
  BY DEF ReuseInv, CallInv
<1>4. ASSUME NEW q \in Requests, q # current PROVE Follows(q)'
  <2>1. generated'[q] = generated[q]
    BY <1>4, TokenFollows
  <2>2. QED BY <1>1, <1>3, <2>1 DEF Follows
<1>5. ASSUME NEW q \in Requests, q = current PROVE Follows(q)'
  <2>1. PICK n \in Nat : n = Len(generated[current])
    BY <1>2
  <2>2. PICK g : g = generated'[current]
    OBVIOUS
  <2>3. /\ g = Append(generated[current], logits) /\ Len(g) = n + 1
        /\ logits = stream[current][n + 1] /\ logits \in Said
    BY <2>1, <2>2, TokenFollows DEF Said
  <2>4. /\ \A i \in 1 .. n : g[i] = generated[current][i]
        /\ g[n + 1] = logits
    BY <1>2, <2>1, <2>3, AppendProperties
  <2>5. \A i \in 1 .. n : g[i] = stream[current][i]
    BY <1>2, <1>3, <2>1, <2>4 DEF Follows
  <2>6. \A i \in 1 .. n + 1 : g[i] = stream[current][i]
    BY <2>3, <2>4, <2>5
  <2>7. n + 1 <= Budget[current]
    BY <1>1, <1>2, <2>1
  <2>8. QED BY <1>1, <1>5, <2>2, <2>3, <2>6, <2>7 DEF Follows
<1>6. QED BY <1>4, <1>5

LEMMA ReuseToken ==
  ASSUME IndexInv, ReuseInv, TokenStep, UNCHANGED kv
  PROVE  ReuseInv'
<1>1. /\ pc = "loop" /\ UNCHANGED <<stream, cancel, called, current, cache, logits>>
      /\ Len(generated[current]) < Budget[current]
      /\ pc' \in {"feed", "ended"}
      /\ pc' = "feed" => UNCHANGED done /\ ~LastToken(Len(generated[current]))
      /\ \A q \in Requests : q # current => done'[q] = done[q]
  <2>1. done \in [Requests -> Seq(DoneEvents)]
    BY DEF IndexInv, CallType, LoopTypeOK, DoneEvents, Reasons
  <2>2. QED BY <2>1 DEF TokenStep, LoopEnd
<1>2. /\ current \in Requests /\ Len(generated[current]) \in Nat /\ Budget[current] \in Nat
      /\ generated[current] \in Seq(Said)
  BY LoopFacts
<1>3. /\ logits \in Said /\ generated'[current] = Append(generated[current], logits)
      /\ \A q \in Requests : q # current => generated'[q] = generated[q]
      /\ Len(generated'[current]) = Len(generated[current]) + 1
      /\ Last(generated'[current]) = logits
      /\ Append(cache, logits) = Prompt[current] \o generated'[current]
  BY TokenFollows DEF Said
<1>4. Sequence' = Append(cache, logits)
  BY <1>1, <1>3 DEF Sequence
<1>5. pc' = "feed" => /\ generated'[current] # <<>>
                      /\ Len(generated'[current]) < Budget[current]
  <2>1. generated'[current] # <<>>
    BY <1>2, <1>3, AppendProperties
  <2>2. pc' = "feed" => Len(generated[current]) + 1 # Budget[current]
    BY <1>1 DEF LastToken
  <2>3. QED BY <1>1, <1>2, <1>3, <2>1, <2>2
<1>6. IsPrefix(cache, Append(cache, logits)) /\ Len(Append(cache, logits)) - Len(cache) <= 1
  <2>1. cache \in Seq(Said)
    BY <1>1, LoopFacts DEF ReuseInv, CacheInv
  <2>2. PICK c \in Seq(Said), e \in Said : c = cache /\ e = logits
    BY <1>3, <2>1
  <2>3. PICK longer : longer = Append(c, e)
    OBVIOUS
  <2>4. /\ longer \in Seq(Said) /\ Len(longer) = Len(c) + 1
        /\ \A i \in 1 .. Len(c) : longer[i] = c[i]
    BY <2>3, AppendProperties
  <2>5. Len(c) \in Nat
    BY LenProperties
  <2>6. Len(c) <= Len(longer) /\ Len(longer) - Len(c) <= 1
    BY <2>4, <2>5
  <2>7. IsPrefix(c, longer)
    BY <2>4, <2>6, PrefixIff
  <2>8. QED BY <2>2, <2>3, <2>6, <2>7
<1>7. CacheInv'
  BY <1>1, <1>3, <1>4, <1>5, <1>6 DEF CacheInv
<1>8. current \in called /\ done[current] = <<>>
  BY <1>1 DEF ReuseInv, CallInv
<1>9. CallInv'
  BY <1>1, <1>3, <1>8, FollowsOneMore DEF ReuseInv, CallInv
<1>10. KvBelongsToKey'
  BY DEF ReuseInv, KvBelongsToKey
<1>11. QED BY <1>7, <1>9, <1>10 DEF ReuseInv

LEMMA ReuseStore ==
  ASSUME IndexInv, ReuseInv, Store
  PROVE  ReuseInv'
<1> DEFINE s == StoredTokens(current)
<1>1. pc = "ended" /\ Leave /\ UNCHANGED <<stream, cancel, called, current, generated, out, done>>
  BY DEF Store
<1>2. CallInv' /\ CacheInv'
  BY <1>1, ReuseLeave
<1>3. IsPrefix(cache, s) /\ Len(s) - Len(cache) <= 1
  BY <1>1 DEF ReuseInv, CacheInv, Sequence, StoredTokens
<1> HIDE DEF s
<1>4. PICK kept : kv' = Evict(kept, s)
  BY DEF Store, s
<1>5. kv' = [t \in kept \cap ({s} \cup DOMAIN kv) |-> IF t = s THEN cache ELSE kv[t]]
  BY <1>4 DEF Evict
<1>6. \A t \in DOMAIN kv : IsPrefix(kv[t], t) /\ Len(t) - Len(kv[t]) <= 1
  BY DEF ReuseInv, KvBelongsToKey
<1>7. ASSUME NEW t \in DOMAIN kv' PROVE IsPrefix(kv'[t], t) /\ Len(t) - Len(kv'[t]) <= 1
  <2>1. kv'[t] = IF t = s THEN cache ELSE kv[t]
    BY <1>5, <1>7
  <2>2. t = s \/ t \in DOMAIN kv
    BY <1>5, <1>7
  <2>3. CASE t = s
    BY <1>3, <2>1, <2>3
  <2>4. CASE t # s
    BY <1>6, <2>1, <2>2, <2>4
  <2>5. QED BY <2>3, <2>4
<1>8. KvBelongsToKey'
  BY <1>7 DEF KvBelongsToKey
<1>9. QED BY <1>2, <1>8 DEF ReuseInv

LEMMA ReuseInit ==
  ASSUME Init PROVE ReuseInv
<1>1. /\ pc = "idle" /\ called = {} /\ kv = <<>>
      /\ \A r \in Requests : generated[r] = <<>> /\ done[r] = <<>>
  BY DEF Init, LoopInit
<1>2. \A r \in Requests : Follows(r)
  BY <1>1, BudgetAssumption DEF Follows
<1>3. QED BY <1>1, <1>2 DEF ReuseInv, CallInv, CacheInv, KvBelongsToKey

LEMMA ReuseNext ==
  ASSUME IndexInv, ReuseInv, NoOverrun, [Next]_vars
  PROVE  ReuseInv'
<1>1. CASE UNCHANGED vars
  BY <1>1, ReuseKept DEF vars
<1>2. CASE Store
  BY <1>2, ReuseStore
<1>3. CASE Return
  <2>1. CallInv' /\ CacheInv'
    BY <1>3, ReuseLeave DEF Return
  <2>2. KvBelongsToKey'
    BY <1>3 DEF Return, ReuseInv, KvBelongsToKey
  <2>3. QED BY <2>1, <2>2 DEF ReuseInv
<1>4. CASE Loop /\ UNCHANGED <<index, kv>>
  <2>1. UNCHANGED kv
    BY <1>4
  <2>2. CASE Prefill
    BY <2>1, <2>2, ReusePrefill
  <2>3. CASE Fail
    <3>1. CallInv' /\ CacheInv'
      BY <2>3, ReuseLeave DEF Fail
    <3>2. KvBelongsToKey'
      BY <2>1 DEF ReuseInv, KvBelongsToKey
    <3>3. QED BY <3>1, <3>2 DEF ReuseInv
  <2>4. CASE Exhausted \/ Cancelled \/ StopToken
    BY <2>1, <2>4, ReuseEnd
  <2>5. CASE TokenStep
    BY <2>1, <2>5, ReuseToken
  <2>6. CASE Feed
    BY <2>1, <2>6, ReuseFeed
  <2>7. QED BY <1>4, <2>2, <2>3, <2>4, <2>5, <2>6 DEF Loop
<1>5. ASSUME NEW r \in Requests, Call(r) PROVE ReuseInv'
  <2>1. CASE Hit(r)
    BY <2>1, ReuseHit
  <2>2. CASE Miss(r) \/ GenerateWith(r) \/ \E n \in 0 .. Len(Prompt[r]) : GenerateWithCache(r, n)
    BY <2>2, ReuseCold
  <2>3. CASE (\E n \in 0 .. Len(Prompt[r]) : NoSuffix(r, n)) \/ (Refuse(r) /\ UNCHANGED <<index, kv>>)
    <3>1. /\ called' = called \cup {r}
          /\ UNCHANGED <<stream, current, pc, cache, logits, generated, done, kv>>
      BY <2>3 DEF NoSuffix, Refuse
    <3>2. QED BY <3>1, ReuseKept
  <2>4. QED BY <1>5, <2>1, <2>2, <2>3 DEF Call
<1>6. ASSUME NEW r \in Requests, Cancel(r) /\ UNCHANGED <<index, kv>> PROVE ReuseInv'
  <2>1. called' = called /\ UNCHANGED <<stream, current, pc, cache, logits, generated, done, kv>>
    BY <1>6 DEF Cancel
  <2>2. QED BY <2>1, ReuseKept
<1>7. QED BY <1>1, <1>2, <1>3, <1>4, <1>5, <1>6 DEF Next

LEMMA SpecReuseInv == Spec /\ []NoOverrun => [](IndexInv /\ ReuseInv)
<1>1. Init => IndexInv /\ ReuseInv
  BY IndexInit, ReuseInit
<1>2. (IndexInv /\ ReuseInv) /\ NoOverrun /\ [Next]_vars => (IndexInv /\ ReuseInv)'
  BY IndexNext, ReuseNext
<1>3. QED BY <1>1, <1>2, PTL DEF Spec

(* What is held for a stored sequence was computed from it, and is short of  *)
(* it by at most the one token no forward was run over, however calls are    *)
(* seeded from each other, as long as none continues such a sequence whole.  *)
THEOREM SpecKvBelongsToKey == Spec /\ []NoOverrun => []KvBelongsToKey
<1>1. IndexInv /\ ReuseInv => KvBelongsToKey
  BY DEF ReuseInv
<1>2. QED BY <1>1, SpecReuseInv, PTL

-----------------------------------------------------------------------------
(* A call over a seeded cache is a call alone and cold *)

reasonBar == [r \in Requests |-> IF done[r] = <<>> THEN "None" ELSE Head(done[r]).reason]

LEMMA AloneInit ==
  ASSUME Init PROVE Alone!Init
<1>1. /\ stream \in Models
      /\ out = [r \in Requests |-> <<>>] /\ done = [r \in Requests |-> <<>>]
      /\ cancel = [r \in Requests |-> FALSE]
  BY DEF Init, LoopInit
<1>2. reasonBar = [r \in Requests |-> "None"]
  BY <1>1 DEF reasonBar
<1>3. QED BY <1>1, <1>2 DEF Alone!Init, reasonBar

(* The flag of one call is set. *)
LEMMA AloneCancel ==
  ASSUME IndexInv, NEW r \in Requests, cancel' = [cancel EXCEPT ![r] = TRUE],
         UNCHANGED <<stream, done, out>>
  PROVE  Alone!Next \/ UNCHANGED <<stream, out, reasonBar, cancel>>
<1>1. cancel \in [Requests -> BOOLEAN]
  BY DEF IndexInv, CallType, LoopTypeOK
<1>2. UNCHANGED reasonBar
  BY DEF reasonBar
<1>3. CASE cancel[r]
  <2>1. cancel' = cancel
    BY <1>1, <1>3
  <2>2. QED BY <1>2, <2>1
<1>4. CASE ~cancel[r]
  <2>1. PICK S \in SUBSET Requests : S = {r}
    OBVIOUS
  <2>2. \A q \in S : ~cancel[q]
    BY <1>4, <2>1
  <2>3. cancel' = [q \in Requests |-> cancel[q] \/ q \in S]
    <3> DEFINE Of(q) == cancel[q] \/ q \in S
    <3>1. \A q \in Requests : cancel'[q] = Of(q)
      BY <1>1, <2>1
    <3>2. cancel' \in [Requests -> BOOLEAN]
      BY <1>1
    <3> HIDE DEF Of
    <3>3. cancel' = [q \in Requests |-> Of(q)]
      BY <3>1, <3>2
    <3>4. QED BY <3>3 DEF Of
  <2>4. Alone!Cancel(S)
    BY <1>2, <2>2, <2>3 DEF Alone!Cancel, reasonBar
  <2>5. QED BY <2>4 DEF Alone!Next
<1>5. QED BY <1>3, <1>4

(* The Done event of the running call is the finish of its request. *)
LEMMA EndIsFinish ==
  ASSUME IndexInv, current \in Requests, done[current] = <<>>, NEW why, LoopEnd(why)
  PROVE  /\ reasonBar[current] = "None"
         /\ reasonBar' = [reasonBar EXCEPT ![current] = why]
<1>1. done \in [Requests -> Seq(DoneEvents)]
  BY DEF IndexInv, CallType, LoopTypeOK, DoneEvents, Reasons
<1>2. PICK event : event = [reason |-> why, generated |-> Len(generated'[current])]
  OBVIOUS
<1>3. event.reason = why
  BY <1>2
<1> HIDE <1>2
<1>4. done' = [done EXCEPT ![current] = <<event>>]
  <2>1. done' = [done EXCEPT ![current] = Append(@, event)]
    BY <1>2 DEF LoopEnd
  <2>2. Append(<<>>, event) = <<event>>
    OBVIOUS
  <2>3. QED BY <1>1, <2>1, <2>2
<1>5. Head(<<event>>) = event /\ <<event>> # <<>>
  OBVIOUS
<1>6. /\ done'[current] = <<event>>
      /\ \A q \in Requests : q # current => done'[q] = done[q]
  BY <1>1, <1>4
<1> DEFINE Was(q) == IF done[q] = <<>> THEN "None" ELSE Head(done[q]).reason
           Is(q) == IF done'[q] = <<>> THEN "None" ELSE Head(done'[q]).reason
<1>7. \A q \in Requests : Is(q) = IF q = current THEN why ELSE Was(q)
  <2>1. Is(current) = why
    BY <1>3, <1>5, <1>6
  <2>2. \A q \in Requests : q # current => Is(q) = Was(q)
    BY <1>6
  <2>3. QED BY <2>1, <2>2
<1>8. reasonBar = [q \in Requests |-> Was(q)] /\ reasonBar' = [q \in Requests |-> Is(q)]
  BY DEF reasonBar
<1>9. Was(current) = "None"
  OBVIOUS
<1> HIDE DEF Was, Is
<1>10. reasonBar' = [q \in Requests |-> IF q = current THEN why ELSE Was(q)]
  BY <1>7, <1>8
<1>11. QED BY <1>8, <1>9, <1>10

(* The call ends without a token. *)
LEMMA AloneEnd ==
  ASSUME IndexInv, ReuseInv, Exhausted \/ Cancelled \/ StopToken
  PROVE  Alone!Next
<1>0. PICK r \in Requests : r = current
  BY LoopFacts
<1>1. /\ pc = "loop" /\ UNCHANGED <<stream, cancel, out>>
  BY DEF Exhausted, Cancelled, StopToken
<1>2. /\ Len(generated[r]) <= Budget[r]
      /\ Len(generated[r]) \in Nat /\ Budget[r] \in Nat /\ out = generated
  BY <1>0, LoopFacts DEF Follows, IndexInv, CallType, LoopTypeOK
<1>3. done[r] = <<>>
  BY <1>0, <1>1 DEF ReuseInv, CallInv
<1>4. ASSUME NEW why, LoopEnd(why) PROVE Alone!Finish(r, why)
  <2>1. reasonBar[r] = "None" /\ reasonBar' = [reasonBar EXCEPT ![r] = why]
    BY <1>0, <1>3, <1>4, EndIsFinish
  <2>2. QED BY <1>1, <2>1 DEF Alone!Finish, reasonBar
<1>5. CASE Exhausted
  <2>1. Len(out[r]) = Budget[r] /\ LoopEnd("MaxTokens")
    BY <1>0, <1>2, <1>5 DEF Exhausted
  <2>2. Alone!Exhaust(r)
    BY <1>4, <2>1 DEF Alone!Exhaust
  <2>3. QED BY <2>2 DEF Alone!Next
<1>6. CASE Cancelled
  <2>1. Len(out[r]) < Budget[r] /\ cancel[r] /\ LoopEnd("Cancelled")
    BY <1>0, <1>2, <1>6 DEF Cancelled
  <2>2. Alone!Abandon(r)
    BY <1>4, <2>1 DEF Alone!Abandon
  <2>3. QED BY <2>2 DEF Alone!Next
<1>7. CASE StopToken
  <2>1. Len(out[r]) < Budget[r] /\ logits \in StopTokens[r] /\ LoopEnd("StopToken")
    BY <1>0, <1>2, <1>7 DEF StopToken
  <2>2. logits = Alone!Next1(r)
    BY <1>0, <1>1, <1>2, <2>1 DEF ReuseInv, CacheInv, Alone!Next1
  <2>3. Alone!Stop(r)
    BY <1>4, <2>1, <2>2 DEF Alone!Stop
  <2>4. QED BY <2>3 DEF Alone!Next
<1>8. QED BY <1>5, <1>6, <1>7

LEMMA AloneToken ==
  ASSUME IndexInv, ReuseInv, TokenStep
  PROVE  Alone!Next
<1>0. PICK r \in Requests : r = current
  BY LoopFacts
<1>1. /\ pc = "loop" /\ UNCHANGED <<stream, cancel>>
      /\ Len(generated[r]) < Budget[r] /\ logits \notin StopTokens[r]
      /\ out' = [out EXCEPT ![r] = Append(@, logits)]
  BY <1>0 DEF TokenStep
<1>2. out = generated
  BY DEF IndexInv, CallType, LoopTypeOK
<1>3. done[r] = <<>>
  BY <1>0, <1>1 DEF ReuseInv, CallInv
<1>4. logits = Alone!Next1(r)
  BY <1>0, <1>2, TokenFollows DEF Alone!Next1
<1>5. reasonBar[r] = "None"
  BY <1>3 DEF reasonBar
<1>6. \/ UNCHANGED reasonBar
      \/ Len(out[r]) + 1 = Budget[r] /\ reasonBar' = [reasonBar EXCEPT ![r] = "MaxTokens"]
      \/ r \in Hosted /\ reasonBar' = [reasonBar EXCEPT ![r] = "Stopped"]
  <2>1. CASE r \in Hosted /\ LoopEnd("Stopped")
    BY <1>0, <1>2, <1>3, <2>1, EndIsFinish
  <2>2. CASE LastToken(Len(generated[r])) /\ LoopEnd("MaxTokens")
    BY <1>0, <1>2, <1>3, <2>2, EndIsFinish DEF LastToken
  <2>3. CASE UNCHANGED done
    BY <2>3 DEF reasonBar
  <2>4. QED BY <1>0, <2>1, <2>2, <2>3 DEF TokenStep
<1>7. Alone!Token(r)
  BY <1>1, <1>2, <1>4, <1>5, <1>6 DEF Alone!Token, reasonBar
<1>8. QED BY <1>7 DEF Alone!Next

LEMMA AloneNext ==
  ASSUME IndexInv, ReuseInv, [Next]_vars
  PROVE  Alone!Next \/ UNCHANGED <<stream, out, reasonBar, cancel>>
<1>1. ASSUME UNCHANGED <<stream, out, done, cancel>>
      PROVE  UNCHANGED <<stream, out, reasonBar, cancel>>
  BY <1>1 DEF reasonBar
<1>2. CASE UNCHANGED vars
  BY <1>1, <1>2 DEF vars
<1>3. CASE Store \/ Return
  BY <1>1, <1>3 DEF Store, Return
<1>4. CASE Loop
  <2>1. CASE Prefill \/ Fail \/ Feed
    BY <1>1, <2>1 DEF Prefill, Fail, Feed
  <2>2. CASE Exhausted \/ Cancelled \/ StopToken
    BY <2>2, AloneEnd
  <2>3. CASE TokenStep
    BY <2>3, AloneToken
  <2>4. QED BY <1>4, <2>1, <2>2, <2>3 DEF Loop
<1>5. ASSUME NEW r \in Requests, Call(r) \/ Cancel(r)
      PROVE  Alone!Next \/ UNCHANGED <<stream, out, reasonBar, cancel>>
  <2>1. CASE Refuse(r) \/ Cancel(r)
    BY <2>1, AloneCancel DEF Refuse, Cancel
  <2>2. CASE \/ Hit(r) \/ Miss(r) \/ GenerateWith(r)
             \/ \E n \in 0 .. Len(Prompt[r]) : GenerateWithCache(r, n) \/ NoSuffix(r, n)
    BY <1>1, <2>2 DEF Hit, Miss, GenerateWith, GenerateWithCache, NoSuffix, BeginWith
  <2>3. QED BY <1>5, <2>1, <2>2 DEF Call
<1>6. QED BY <1>2, <1>3, <1>4, <1>5 DEF Next

(* The promise of prefix.rs, token for token the same as a cold run, for any *)
(* order of calls, capacity and model: it holds as long as no prompt         *)
(* continues the whole of a stored sequence whose last token was not fed.    *)
THEOREM SpecImplementsGeneration == Spec /\ []NoOverrun => GenerationSpec
<1>1. Init => Alone!Init
  BY AloneInit
<1>2. (IndexInv /\ ReuseInv) /\ [Next]_vars => [Alone!Next]_(Alone!vars)
  <2>1. SUFFICES ASSUME IndexInv, ReuseInv, [Next]_vars PROVE [Alone!Next]_(Alone!vars)
    OBVIOUS
  <2>2. Alone!Next \/ UNCHANGED <<stream, out, reasonBar, cancel>>
    BY <2>1, AloneNext
  <2>3. QED BY <2>2 DEF Alone!vars, reasonBar
<1>3. QED BY <1>1, <1>2, SpecReuseInv, PTL DEF Spec, GenerationSpec, Alone!Spec

-----------------------------------------------------------------------------
(* Prompts that share what comes first, and do not continue each other *)

(* Every call is a conversation of its own: no prompt of the prefix cache    *)
(* begins with the whole of another one.                                     *)
SingleTurns ==
  \A q, r \in Requests :
    Entry[q] = "generate_cached" /\ Entry[r] = "generate_cached" => ~IsStrictPrefix(Prompt[q], Prompt[r])

StoredBegins ==
  \A s \in DOMAIN kv : \E q \in Requests : Entry[q] = "generate_cached" /\ IsPrefix(Prompt[q], s)

LEMMA PrefixOfPrefix ==
  ASSUME NEW a \in Seq(Said), NEW b \in Seq(Said), NEW c \in Seq(Said),
         IsPrefix(a, b), IsStrictPrefix(b, c)
  PROVE  IsStrictPrefix(a, c)
<1>1. IsPrefix(b, c) /\ b # c
  BY DEF IsStrictPrefix
<1>2. /\ Len(a) \in 0 .. Len(b) /\ \A i \in 1 .. Len(a) : a[i] = b[i]
      /\ Len(b) \in 0 .. Len(c) /\ b = SubSeq(c, 1, Len(b)) /\ \A i \in 1 .. Len(b) : b[i] = c[i]
  BY <1>1, PrefixFacts
<1>3. Len(a) \in Nat /\ Len(b) \in Nat /\ Len(c) \in Nat
  BY LenProperties
<1>4. Len(b) # Len(c)
  BY <1>1, <1>2, SubSeqFull
<1>5. Len(a) <= Len(c) /\ Len(a) # Len(c)
  BY <1>2, <1>3, <1>4
<1>6. \A i \in 1 .. Len(a) : a[i] = c[i]
  BY <1>2, <1>3
<1>7. IsPrefix(a, c)
  BY <1>5, <1>6, PrefixIff
<1>8. QED BY <1>5, <1>7 DEF IsStrictPrefix

LEMMA BeginsNoOverrun ==
  ASSUME SingleTurns, IndexInv, StoredBegins
  PROVE  NoOverrun
<1>1. SUFFICES ASSUME NEW r \in Requests, NEW s \in DOMAIN kv,
                      Entry[r] = "generate_cached", IsStrictPrefix(s, Prompt[r])
               PROVE  FALSE
  BY DEF NoOverrun
<1>2. PICK q \in Requests : Entry[q] = "generate_cached" /\ IsPrefix(Prompt[q], s)
  BY DEF StoredBegins
<1>3. Prompt[q] \in Seq(Said) /\ Prompt[r] \in Seq(Said) /\ s \in Seq(Said)
  BY RequestFacts, StoredType
<1>4. IsStrictPrefix(Prompt[q], Prompt[r])
  BY <1>1, <1>2, <1>3, PrefixOfPrefix
<1>5. QED BY <1>1, <1>2, <1>4 DEF SingleTurns

LEMMA BeginsNext ==
  ASSUME IndexInv, StoredBegins, [Next]_vars
  PROVE  StoredBegins'
<1>1. CASE UNCHANGED kv
  BY <1>1 DEF StoredBegins
<1>2. CASE Store
  <2>1. current \in Requests /\ Entry[current] = "generate_cached"
    BY <1>2 DEF Store, IndexInv, CallType, LoopTypeOK
  <2>2. PICK s, kept : s = StoredTokens(current) /\ kv' = Evict(kept, s)
    BY <1>2 DEF Store
  <2>3. IsPrefix(Prompt[current], s)
    <3>1. PICK p \in Seq(Said), g \in Seq(Said) : p = Prompt[current] /\ g = generated[current]
      BY <2>1, RequestFacts DEF IndexInv, CallType, LoopTypeOK, Said
    <3>2. Len(p) \in Nat /\ Len(g) \in Nat
      BY LenProperties
    <3>3. PICK t : t = p \o g
      OBVIOUS
    <3>4. /\ t \in Seq(Said) /\ Len(t) = Len(p) + Len(g)
          /\ \A i \in 1 .. Len(p) + Len(g) : t[i] = IF i <= Len(p) THEN p[i] ELSE g[i - Len(p)]
      BY <3>3, ConcatProperties
    <3>5. Len(p) <= Len(t) /\ \A i \in 1 .. Len(p) : p[i] = t[i]
      BY <3>2, <3>4
    <3>6. IsPrefix(p, t)
      BY <3>4, <3>5, PrefixIff
    <3>7. QED BY <2>2, <3>1, <3>3, <3>6 DEF StoredTokens
  <2>4. DOMAIN kv' \subseteq {s} \cup DOMAIN kv
    BY <2>2 DEF Evict
  <2>5. QED BY <2>1, <2>3, <2>4 DEF StoredBegins
<1>3. UNCHANGED kv \/ Store
  BY DEF vars, Next, Call, Hit, Miss, GenerateWith, GenerateWithCache, NoSuffix, Return
<1>4. QED BY <1>1, <1>2, <1>3

(* A fixed system prompt, a few-shot preamble: requests that share a leading *)
(* run of tokens but do not continue each other get, from any prefix cache,  *)
(* exactly what they get cold, however their calls end.                      *)
THEOREM SingleTurnsImplementGeneration == SingleTurns => (Spec => GenerationSpec)
<1> SUFFICES ASSUME SingleTurns PROVE Spec => GenerationSpec
  OBVIOUS
<1>1. Init => IndexInv /\ StoredBegins
  <2>1. Init => StoredBegins
    BY DEF Init, StoredBegins
  <2>2. QED BY <2>1, IndexInit
<1>2. (IndexInv /\ StoredBegins) /\ [Next]_vars => (IndexInv /\ StoredBegins)'
  BY IndexNext, BeginsNext
<1>3. IndexInv /\ StoredBegins => NoOverrun
  BY BeginsNoOverrun
<1>4. Spec => []NoOverrun
  BY <1>1, <1>2, <1>3, PTL DEF Spec
<1>5. QED BY <1>4, SpecImplementsGeneration, PTL

=============================================================================
