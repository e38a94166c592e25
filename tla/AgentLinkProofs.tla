---------------------------- MODULE AgentLinkProofs ----------------------------
(***************************************************************************)
(* Proofs about AgentLink: its types, the agreement of the server's queues *)
(* with the registry, the target of the voice, the order of what the       *)
(* terminals write, the debounced focus, and that the link implements the  *)
(* channel of MessageChannel.                                              *)
(***************************************************************************)
EXTENDS AgentLink, FiniteSetTheorems, SequenceTheorems, TLAPS

-----------------------------------------------------------------------------
(***************************************************************************)
(* What a selection of a sequence's elements consists of, and what it      *)
(* becomes when the sequence grows at its end or loses its head.           *)
(***************************************************************************)

LEMMA PlacesFinite ==
  ASSUME NEW n \in Nat, NEW P \in SUBSET (1..n)
  PROVE  /\ IsFiniteSet(P) /\ Cardinality(P) \in Nat
         /\ \A Q \in SUBSET P : IsFiniteSet(Q) /\ Cardinality(Q) \in Nat /\ Cardinality(Q) <= Cardinality(P)
                                /\ (Cardinality(Q) = Cardinality(P) => Q = P)
<1>1. IsFiniteSet(1..n)
  BY FS_Interval
<1>2. IsFiniteSet(P)
  BY <1>1, FS_Subset
<1> QED BY <1>2, FS_Subset, FS_CardinalityType

\* Ranks grow with the places, so that they are the numbers from 1 on.
LEMMA RanksGrow ==
  ASSUME NEW n \in Nat, NEW P \in SUBSET (1..n)
  PROVE  \A i, j \in P : i < j => Rank(P, i) < Rank(P, j)
<1> SUFFICES ASSUME NEW i \in P, NEW j \in P, i < j
             PROVE  Rank(P, i) < Rank(P, j)
  OBVIOUS
<1> DEFINE Below(x) == {y \in P : y <= x}
<1>0. i \in Nat /\ j \in Nat /\ \A y \in P : y \in Nat
  OBVIOUS
<1>1. Below(j) \in SUBSET (1..n) /\ Below(i) \in SUBSET Below(j) /\ j \in Below(j) /\ j \notin Below(i)
  <2>1. Below(j) \subseteq P /\ j \in Below(j) /\ j \notin Below(i)
    BY <1>0
  <2>2. \A y \in P : y <= i => y <= j
    BY <1>0
  <2>3. Below(i) \subseteq Below(j)
    BY <2>2
  <2> QED BY <2>1, <2>3
<1>2. /\ Cardinality(Below(i)) \in Nat /\ Cardinality(Below(j)) \in Nat
      /\ Cardinality(Below(i)) <= Cardinality(Below(j))
      /\ Cardinality(Below(i)) # Cardinality(Below(j))
  <2> HIDE DEF Below
  <2> QED BY <1>1, PlacesFinite
<1>3. Cardinality(Below(i)) < Cardinality(Below(j))
  <2> HIDE DEF Below
  <2> QED BY <1>2
<1> QED BY <1>3 DEF Rank

LEMMA RankIsSound ==
  ASSUME NEW n \in Nat, NEW P \in SUBSET (1..n)
  PROVE  /\ \A i \in P : Rank(P, i) \in 1..Cardinality(P)
         /\ \A i, j \in P : Rank(P, i) = Rank(P, j) => i = j
         /\ \A k \in 1..Cardinality(P) : \E i \in P : Rank(P, i) = k
<1>1. \A i \in P : Rank(P, i) \in 1..Cardinality(P)
  <2> SUFFICES ASSUME NEW i \in P PROVE Rank(P, i) \in 1..Cardinality(P)
    OBVIOUS
  <2> DEFINE Below == {y \in P : y <= i}
  <2>1. Below \in SUBSET P /\ i \in Below
    OBVIOUS
  <2>2. /\ IsFiniteSet(Below) /\ Cardinality(Below) \in Nat /\ Cardinality(Below) <= Cardinality(P)
        /\ Cardinality(P) \in Nat
    <3> HIDE DEF Below
    <3> QED BY <2>1, PlacesFinite
  <2>3. Cardinality(Below) # 0
    <3> HIDE DEF Below
    <3> QED BY <2>1, <2>2, FS_EmptySet
  <2> QED
    <3>1. Cardinality(Below) \in 1..Cardinality(P)
      <4> HIDE DEF Below
      <4> QED BY <2>2, <2>3
    <3> QED BY <3>1 DEF Rank
<1>2. ASSUME NEW i \in P, NEW j \in P, Rank(P, i) = Rank(P, j) PROVE i = j
  <2>1. ~(i < j) /\ ~(j < i)
    <3>1. Rank(P, i) \in Nat /\ Rank(P, j) \in Nat
      BY <1>1, PlacesFinite
    <3>2. \A a, b \in P : a < b => Rank(P, a) < Rank(P, b)
      BY RanksGrow
    <3> QED BY <1>2, <3>1, <3>2
  <2> QED BY <2>1
<1> DEFINE f == [i \in P |-> Rank(P, i)]
           N == Cardinality(P)
<1>3. f \in Injection(P, 1..N)
  <2>1. f \in [P -> 1..N]
    BY <1>1
  <2>2. \A i, j \in P : f[i] = f[j] => i = j
    BY <1>2
  <2>3. DOMAIN f = P
    OBVIOUS
  <2> HIDE DEF f
  <2> QED BY <2>1, <2>2, <2>3, Zenon DEF Injection, IsInjective
<1>4. N \in Nat /\ IsFiniteSet(1..N) /\ Cardinality(1..N) = N
  <2>1. N \in Nat
    BY PlacesFinite
  <2> HIDE DEF N
  <2> QED BY <2>1, FS_Interval
<1>5. f \in Surjection(P, 1..N)
  <2> HIDE DEF f
  <2> QED BY <1>3, <1>4, FS_Injection DEF N
<1>6. \A k \in 1..N : \E i \in P : f[i] = k
  <2> HIDE DEF f
  <2> QED BY <1>5, Zenon DEF Surjection
<1> QED BY <1>1, <1>2, <1>6

LEMMA NthIsPlace ==
  ASSUME NEW n \in Nat, NEW P \in SUBSET (1..n)
  PROVE  /\ \A k \in 1..Cardinality(P) : Nth(P, k) \in P /\ Rank(P, Nth(P, k)) = k
         /\ \A i \in P : Rank(P, i) \in 1..Cardinality(P) /\ Nth(P, Rank(P, i)) = i
<1>1. ASSUME NEW k \in 1..Cardinality(P)
      PROVE  Nth(P, k) \in P /\ Rank(P, Nth(P, k)) = k
  <2>1. \E i \in P : Rank(P, i) = k
    BY RankIsSound
  <2> QED BY <2>1 DEF Nth
<1>2. ASSUME NEW i \in P
      PROVE  Rank(P, i) \in 1..Cardinality(P) /\ Nth(P, Rank(P, i)) = i
  <2>1. Rank(P, i) \in 1..Cardinality(P)
    BY RankIsSound
  <2>2. Nth(P, Rank(P, i)) \in P /\ Rank(P, Nth(P, Rank(P, i))) = Rank(P, i)
    BY <2>1, <1>1
  <2> QED BY <2>1, <2>2, RankIsSound
<1> QED BY <1>1, <1>2

\* A place beyond the others is the last.
LEMMA NthAppend ==
  ASSUME NEW n \in Nat, NEW P \in SUBSET (1..n)
  PROVE  LET Q == P \cup {n + 1} IN
         /\ Cardinality(Q) = Cardinality(P) + 1
         /\ \A k \in 1..Cardinality(P) : Nth(Q, k) = Nth(P, k)
         /\ Nth(Q, Cardinality(P) + 1) = n + 1
<1> DEFINE Q == P \cup {n + 1}
<1>1. Q \in SUBSET (1..(n + 1)) /\ n + 1 \in Nat /\ n + 1 \notin P
  OBVIOUS
<1>2. Cardinality(P) \in Nat /\ Cardinality(Q) = Cardinality(P) + 1
  BY <1>1, PlacesFinite, FS_AddElement
<1>3. ASSUME NEW k \in 1..Cardinality(P) PROVE Nth(Q, k) = Nth(P, k)
  <2>1. Nth(P, k) \in P /\ Rank(P, Nth(P, k)) = k
    BY NthIsPlace
  <2>2. {j \in P : j <= Nth(P, k)} = {j \in Q : j <= Nth(P, k)}
    <3>1. \A c \in 1..n : ~(n + 1 <= c)
      OBVIOUS
    <3>2. ~(n + 1 <= Nth(P, k))
      BY <2>1, <3>1
    <3> QED BY <3>2
  <2>3. Rank(Q, Nth(P, k)) = k
    BY <2>1, <2>2 DEF Rank
  <2>4. \A i \in Q : Nth(Q, Rank(Q, i)) = i
    <3> HIDE DEF Q
    <3> QED BY <1>1, NthIsPlace
  <2> QED BY <2>1, <2>3, <2>4
<1>4. Nth(Q, Cardinality(P) + 1) = n + 1
  <2>1. {j \in Q : j <= n + 1} = Q
    <3>1. \A j \in 1..(n + 1) : j <= n + 1
      OBVIOUS
    <3>2. \A j \in Q : j <= n + 1
      BY <1>1, <3>1
    <3> QED BY <3>2
  <2>2. Rank(Q, n + 1) = Cardinality(P) + 1
    BY <1>2, <2>1 DEF Rank
  <2>4. \A i \in Q : Nth(Q, Rank(Q, i)) = i
    <3> HIDE DEF Q
    <3> QED BY <1>1, NthIsPlace
  <2> QED BY <2>2, <2>4
<1> QED BY <1>2, <1>3, <1>4

LEMMA PlacesType ==
  ASSUME NEW S, NEW s \in Seq(S), NEW T
  PROVE  /\ Len(s) \in Nat /\ Places(s, T) \in SUBSET (1..Len(s))
         /\ IsFiniteSet(Places(s, T)) /\ Cardinality(Places(s, T)) \in Nat
         /\ \A k \in 1..Cardinality(Places(s, T)) :
              /\ Nth(Places(s, T), k) \in 1..Len(s)
              /\ s[Nth(Places(s, T), k)] \in S \cap T
<1>1. Len(s) \in Nat /\ Places(s, T) \in SUBSET (1..Len(s))
  BY DEF Places
<1>2. IsFiniteSet(Places(s, T)) /\ Cardinality(Places(s, T)) \in Nat
  BY <1>1, PlacesFinite
<1>3. ASSUME NEW k \in 1..Cardinality(Places(s, T))
      PROVE  Nth(Places(s, T), k) \in 1..Len(s) /\ s[Nth(Places(s, T), k)] \in S \cap T
  <2>1. Nth(Places(s, T), k) \in Places(s, T)
    BY <1>1, NthIsPlace
  <2> QED BY <2>1, <1>1 DEF Places
<1> QED BY <1>1, <1>2, <1>3

\* A filtered list has what the list has of T, and nothing else.
LEMMA OnlyIsSeq ==
  ASSUME NEW S, NEW s \in Seq(S), NEW T
  PROVE  /\ Only(s, T) \in Seq(S \cap T) /\ Only(s, T) \in Seq(S)
         /\ DOMAIN Only(s, T) = 1..Cardinality(Places(s, T))
         /\ Len(Only(s, T)) = Cardinality(Places(s, T))
<1> DEFINE N == Cardinality(Places(s, T))
<1>1. N \in Nat /\ \A k \in 1..N : s[Nth(Places(s, T), k)] \in S \cap T
  BY PlacesType
<1>2. Only(s, T) = [k \in 1..N |-> s[Nth(Places(s, T), k)]]
  BY DEF Only, AtPlaces
<1> HIDE DEF N
<1>3. Only(s, T) \in Seq(S \cap T)
  BY <1>1, <1>2, IsASeq
<1>4. Len(Only(s, T)) = N
  BY <1>1, <1>2, <1>3, LenProperties
<1>5. \A k \in 1..N : Only(s, T)[k] = s[Nth(Places(s, T), k)]
  BY <1>2
<1>6. Only(s, T) \in Seq(S)
  BY <1>3, SeqMonotonic
<1>7. DOMAIN Only(s, T) = 1..N
  BY <1>2
<1> QED BY <1>3, <1>4, <1>5, <1>6, <1>7 DEF N

LEMMA OnlyAt ==
  \A s, T : /\ DOMAIN Only(s, T) = 1..Cardinality(Places(s, T))
            /\ \A k \in 1..Cardinality(Places(s, T)) : Only(s, T)[k] = s[Nth(Places(s, T), k)]
BY DEF Only, AtPlaces

LEMMA OnlyMembers ==
  ASSUME NEW S, NEW s \in Seq(S), NEW T
  PROVE  ToSet(Only(s, T)) = ToSet(s) \cap T
<1> DEFINE P == Places(s, T)
<1>1. /\ Len(s) \in Nat /\ P \in SUBSET (1..Len(s))
      /\ \A k \in 1..Cardinality(P) : Nth(P, k) \in 1..Len(s) /\ s[Nth(P, k)] \in S \cap T
  BY PlacesType
<1>2. /\ DOMAIN Only(s, T) = 1..Cardinality(P) /\ DOMAIN s = 1..Len(s)
      /\ \A k \in 1..Cardinality(P) : Only(s, T)[k] = s[Nth(P, k)]
  <2>1. DOMAIN s = 1..Len(s)
    BY LenProperties
  <2>2. /\ DOMAIN Only(s, T) = 1..Cardinality(Places(s, T))
        /\ \A k \in 1..Cardinality(Places(s, T)) : Only(s, T)[k] = s[Nth(Places(s, T), k)]
    BY OnlyAt, Zenon
  <2> QED BY <2>1, <2>2
<1>3. \A i \in P : Rank(P, i) \in 1..Cardinality(P) /\ Nth(P, Rank(P, i)) = i
  <2> HIDE DEF P
  <2> QED BY <1>1, NthIsPlace
<1>4. ASSUME NEW x \in ToSet(Only(s, T)) PROVE x \in ToSet(s) \cap T
  <2>1. PICK k \in 1..Cardinality(P) : x = s[Nth(P, k)]
    <3>1. PICK k \in DOMAIN Only(s, T) : x = Only(s, T)[k]
      BY <1>4 DEF ToSet
    <3> QED BY <1>2, <3>1
  <2> HIDE DEF P
  <2> QED BY <1>1, <1>2, <2>1 DEF ToSet
<1>5. ASSUME NEW x \in ToSet(s) \cap T PROVE x \in ToSet(Only(s, T))
  <2>1. PICK i \in 1..Len(s) : x = s[i]
    BY <1>2 DEF ToSet
  <2>2. i \in P
    BY <1>5, <2>1 DEF Places
  <2>3. Rank(P, i) \in DOMAIN Only(s, T) /\ Only(s, T)[Rank(P, i)] = x
    <3> HIDE DEF P
    <3> QED BY <1>2, <1>3, <2>1, <2>2
  <2> QED BY <2>3 DEF ToSet
<1> QED BY <1>4, <1>5

LEMMA OnlyEmpty == \A T : Only(<<>>, T) = <<>>
<1> TAKE T
<1>1. Places(<<>>, T) = {}
  BY EmptySeq DEF Places
<1>2. <<>> \in Seq({})
  BY EmptySeq
<1>3. Only(<<>>, T) \in Seq({} \cap T) /\ Len(Only(<<>>, T)) = 0
  BY <1>1, <1>2, OnlyIsSeq, FS_EmptySet
<1> QED BY <1>3, EmptySeq

LEMMA OnlyAppend ==
  ASSUME NEW S, NEW s \in Seq(S), NEW x \in S, NEW T
  PROVE  Only(Append(s, x), T) = IF x \in T THEN Append(Only(s, T), x) ELSE Only(s, T)
<1> DEFINE a == Append(s, x)
           P == Places(s, T)
           Q == Places(a, T)
           n == Len(s)
<1>1. /\ a \in Seq(S) /\ Len(a) = n + 1 /\ n \in Nat
      /\ \A i \in 1..n : a[i] = s[i]
      /\ a[n + 1] = x
  BY AppendProperties
<1>2. /\ P \in SUBSET (1..n) /\ Cardinality(P) \in Nat
      /\ \A k \in 1..Cardinality(P) : Nth(P, k) \in 1..n
  BY PlacesType
<1>3. Only(a, T) = [k \in 1..Cardinality(Q) |-> a[Nth(Q, k)]]
  BY DEF Only, AtPlaces
<1>4. Only(s, T) = [k \in 1..Cardinality(P) |-> s[Nth(P, k)]]
  BY DEF Only, AtPlaces
<1>5. CASE x \notin T
  <2>1. Q = P
    <3>1. \A i \in 1..(n + 1) : a[i] \in T <=> i \in 1..n /\ s[i] \in T
      BY <1>1, <1>5
    <3> QED BY <1>1, <3>1 DEF Places
  <2> HIDE DEF a, P, Q, n
  <2>2. Only(a, T) = Only(s, T)
    BY <1>1, <1>2, <1>3, <1>4, <2>1
  <2> QED BY <1>5, <2>2 DEF a
<1>6. CASE x \in T
  <2>1. Q = P \cup {n + 1}
    <3>1. \A i \in 1..(n + 1) : a[i] \in T <=> i = n + 1 \/ (i \in 1..n /\ s[i] \in T)
      BY <1>1, <1>6
    <3> QED BY <1>1, <3>1 DEF Places
  <2>2. /\ Cardinality(Q) = Cardinality(P) + 1
        /\ \A k \in 1..Cardinality(P) : Nth(Q, k) = Nth(P, k)
        /\ Nth(Q, Cardinality(P) + 1) = n + 1
    <3> HIDE DEF P, Q, n
    <3> QED BY <1>1, <1>2, <2>1, NthAppend
  <2>3. Only(s, T) \in Seq(S) /\ Len(Only(s, T)) = Cardinality(P)
    BY OnlyIsSeq
  <2>4. /\ Append(Only(s, T), x) \in Seq(S)
        /\ Len(Append(Only(s, T), x)) = Cardinality(P) + 1
        /\ \A k \in 1..Cardinality(P) : Append(Only(s, T), x)[k] = Only(s, T)[k]
        /\ Append(Only(s, T), x)[Cardinality(P) + 1] = x
    <3> HIDE DEF P
    <3> QED BY <2>3, AppendProperties
  <2>5. Only(a, T) \in Seq(S) /\ Len(Only(a, T)) = Cardinality(P) + 1
    <3>1. Only(a, T) \in Seq(S) /\ Len(Only(a, T)) = Cardinality(Q)
      <4> HIDE DEF a
      <4> QED BY <1>1, OnlyIsSeq
    <3> QED BY <3>1, <2>2
  <2>6. \A k \in 1..(Cardinality(P) + 1) : Only(a, T)[k] = Append(Only(s, T), x)[k]
    <3> HIDE DEF a, P, Q, n
    <3> QED BY <1>1, <1>2, <1>3, <1>4, <2>2, <2>4
  <2>7. Only(a, T) = Append(Only(s, T), x)
    <3> HIDE DEF a, P, Q
    <3> QED BY <2>4, <2>5, <2>6, SeqEqual
  <2> QED BY <1>6, <2>7 DEF a
<1> QED BY <1>5, <1>6

\* Places move down by one when a sequence loses its head.
LEMMA ShiftCounts ==
  ASSUME NEW n \in Nat, NEW P \in SUBSET (1..(n + 1))
  PROVE  Cardinality(P) =
           Cardinality({i \in 1..n : i + 1 \in P}) + (IF 1 \in P THEN 1 ELSE 0)
<1> DEFINE D == {i \in 1..n : i + 1 \in P}
           f == [i \in D |-> i + 1]
<1>1. n + 1 \in Nat /\ D \in SUBSET (1..n)
  OBVIOUS
<1>2. IsFiniteSet(D) /\ IsFiniteSet(P) /\ Cardinality(D) \in Nat /\ Cardinality(P) \in Nat
  <2> HIDE DEF D
  <2> QED BY <1>1, PlacesFinite
<1>3. f \in Bijection(D, P \ {1})
  <2>1. f \in [D -> P \ {1}]
    <3>1. \A i \in D : i + 1 \in P \ {1}
      OBVIOUS
    <3> QED BY <3>1
  <2>2. \A i, j \in D : f[i] = f[j] => i = j
    OBVIOUS
  <2>3. \A k \in P \ {1} : \E i \in D : f[i] = k
    <3> SUFFICES ASSUME NEW k \in P \ {1} PROVE \E i \in D : f[i] = k
      OBVIOUS
    <3>1. k - 1 \in 1..n /\ (k - 1) + 1 = k
      OBVIOUS
    <3>2. k - 1 \in D
      BY <3>1
    <3> QED BY <3>1, <3>2
  <2>4. DOMAIN f = D
    OBVIOUS
  <2> HIDE DEF f
  <2> QED BY <2>1, <2>2, <2>3, <2>4, Zenon DEF Bijection, Injection, Surjection, IsInjective
<1>4. Cardinality(P \ {1}) = Cardinality(D)
  <2> HIDE DEF f, D
  <2>1. ExistsBijection(D, P \ {1})
    BY <1>3, Zenon DEF ExistsBijection
  <2> QED BY <1>2, <2>1, FS_Bijection
<1>5. Cardinality(P \ {1}) = IF 1 \in P THEN Cardinality(P) - 1 ELSE Cardinality(P)
  BY <1>2, FS_RemoveElement
<1> QED
  <2> HIDE DEF D, f
  <2>1. Cardinality(P) = Cardinality(D) + (IF 1 \in P THEN 1 ELSE 0)
    BY <1>2, <1>4, <1>5
  <2> QED BY <2>1 DEF D

LEMMA NthTail ==
  ASSUME NEW n \in Nat, NEW P \in SUBSET (1..(n + 1))
  PROVE  LET D == {i \in 1..n : i + 1 \in P}
             d == IF 1 \in P THEN 1 ELSE 0
         IN  /\ Cardinality(P) = Cardinality(D) + d
             /\ \A k \in 1..Cardinality(D) : Nth(D, k) \in 1..n /\ Nth(P, k + d) = Nth(D, k) + 1
             /\ 1 \in P => Nth(P, 1) = 1
<1> DEFINE D == {i \in 1..n : i + 1 \in P}
           d == IF 1 \in P THEN 1 ELSE 0
<1>1. n + 1 \in Nat /\ D \in SUBSET (1..n)
  OBVIOUS
<1>2. Cardinality(P) = Cardinality(D) + d
  BY ShiftCounts
<1>3. ASSUME NEW i \in D PROVE Rank(P, i + 1) = Rank(D, i) + d
  <2> DEFINE B == {j \in P : j <= i + 1}
             C == {j \in 1..n : j + 1 \in B}
  <2>1. B \in SUBSET (1..(n + 1)) /\ (1 \in B <=> 1 \in P)
    <3>1. \A j \in 1..n : 1 <= j + 1
      OBVIOUS
    <3>2. 1 <= i + 1
      BY <1>1, <3>1
    <3>3. B \subseteq P /\ (1 \in B <=> 1 \in P)
      BY <3>2
    <3> QED BY <3>3
  <2>2. C = {j \in D : j <= i}
    OBVIOUS
  <2>3. Cardinality(B) = Cardinality(C) + (IF 1 \in B THEN 1 ELSE 0)
    <3> HIDE DEF B
    <3> QED BY <2>1, ShiftCounts
  <2>4. Cardinality(B) = Cardinality({j \in D : j <= i}) + d
    <3> HIDE DEF B, C
    <3> QED BY <2>1, <2>2, <2>3
  <2> QED BY <2>4 DEF Rank
<1>4. ASSUME NEW k \in 1..Cardinality(D)
      PROVE  Nth(D, k) \in 1..n /\ Nth(P, k + d) = Nth(D, k) + 1
  <2>1. Nth(D, k) \in D /\ Rank(D, Nth(D, k)) = k
    <3> HIDE DEF D
    <3> QED BY <1>1, NthIsPlace
  <2>2. Nth(D, k) + 1 \in P /\ Rank(P, Nth(D, k) + 1) = k + d
    BY <1>3, <2>1
  <2>3. \A i \in P : Nth(P, Rank(P, i)) = i
    BY <1>1, NthIsPlace
  <2> QED BY <1>1, <2>1, <2>2, <2>3
<1>5. ASSUME 1 \in P PROVE Nth(P, 1) = 1
  <2>1. {j \in P : j <= 1} = {1}
    <3>1. \A j \in 1..(n + 1) : j <= 1 <=> j = 1
      OBVIOUS
    <3>2. \A j \in P : j <= 1 <=> j = 1
      BY <3>1
    <3> QED BY <1>5, <3>2
  <2>2. Rank(P, 1) = 1
    BY <2>1, FS_Singleton DEF Rank
  <2>3. \A i \in P : Nth(P, Rank(P, i)) = i
    BY <1>1, NthIsPlace
  <2> QED BY <1>5, <2>2, <2>3
<1> QED BY <1>2, <1>4, <1>5

LEMMA OnlyTail ==
  ASSUME NEW S, NEW s \in Seq(S), s # <<>>, NEW T
  PROVE  /\ Head(s) \notin T => Only(Tail(s), T) = Only(s, T)
         /\ Head(s) \in T => /\ Only(s, T) # <<>>
                             /\ Head(Only(s, T)) = Head(s)
                             /\ Only(Tail(s), T) = Tail(Only(s, T))
<1> DEFINE r == Tail(s)
           n == Len(r)
           P == Places(s, T)
           D == Places(r, T)
           d == IF 1 \in P THEN 1 ELSE 0
<1>1. /\ r \in Seq(S) /\ n \in Nat /\ Len(s) = n + 1
      /\ \A i \in 1..n : r[i] = s[i + 1]
      /\ Head(s) = s[1]
  BY HeadTailProperties
<1>2. /\ P \in SUBSET (1..(n + 1)) /\ Cardinality(P) \in Nat /\ Cardinality(D) \in Nat
      /\ (1 \in P <=> Head(s) \in T)
  <2>1. P \in SUBSET (1..Len(s)) /\ Cardinality(P) \in Nat
    BY PlacesType
  <2>2. Cardinality(D) \in Nat
    <3> HIDE DEF r
    <3> QED BY <1>1, PlacesType
  <2>3. 1 \in P <=> Head(s) \in T
    BY <1>1 DEF Places
  <2> HIDE DEF P, D, r
  <2> QED BY <1>1, <2>1, <2>2, <2>3
<1>3. D = {i \in 1..n : i + 1 \in P}
  BY <1>1 DEF Places
<1>4. /\ Cardinality(P) = Cardinality(D) + d
      /\ \A k \in 1..Cardinality(D) : Nth(D, k) \in 1..n /\ Nth(P, k + d) = Nth(D, k) + 1
      /\ 1 \in P => Nth(P, 1) = 1
  <2> DEFINE E == {i \in 1..n : i + 1 \in P}
  <2>1. /\ Cardinality(P) = Cardinality(E) + d
        /\ \A k \in 1..Cardinality(E) : Nth(E, k) \in 1..n /\ Nth(P, k + d) = Nth(E, k) + 1
        /\ 1 \in P => Nth(P, 1) = 1
    <3> HIDE DEF P, n
    <3> QED BY <1>1, <1>2, NthTail
  <2> HIDE DEF P, D, n, d, E
  <2> QED BY <1>3, <2>1 DEF E
<1>5. /\ Only(s, T) \in Seq(S) /\ Len(Only(s, T)) = Cardinality(P)
      /\ \A k \in 1..Cardinality(P) : Only(s, T)[k] = s[Nth(P, k)]
  <2>1. /\ Only(s, T) \in Seq(S) /\ Len(Only(s, T)) = Cardinality(Places(s, T))
        /\ \A k \in 1..Cardinality(Places(s, T)) : Only(s, T)[k] = s[Nth(Places(s, T), k)]
    <3>1. Only(s, T) \in Seq(S) /\ Len(Only(s, T)) = Cardinality(Places(s, T))
      BY OnlyIsSeq
    <3> QED BY <3>1, OnlyAt, Zenon
  <2> QED BY <2>1
<1>6. /\ Only(r, T) \in Seq(S) /\ Len(Only(r, T)) = Cardinality(D)
      /\ \A k \in 1..Cardinality(D) : Only(r, T)[k] = r[Nth(D, k)]
  <2> HIDE DEF r
  <2>1. /\ Only(r, T) \in Seq(S) /\ Len(Only(r, T)) = Cardinality(Places(r, T))
        /\ \A k \in 1..Cardinality(Places(r, T)) : Only(r, T)[k] = r[Nth(Places(r, T), k)]
    <3>1. Only(r, T) \in Seq(S) /\ Len(Only(r, T)) = Cardinality(Places(r, T))
      BY <1>1, OnlyIsSeq
    <3> QED BY <3>1, OnlyAt, Zenon
  <2> QED BY <2>1
<1>7. \A k \in 1..Cardinality(D) : Only(r, T)[k] = Only(s, T)[k + d]
  <2> SUFFICES ASSUME NEW k \in 1..Cardinality(D) PROVE Only(r, T)[k] = Only(s, T)[k + d]
    OBVIOUS
  <2>1. k + d \in 1..Cardinality(P)
    <3> HIDE DEF P, D
    <3> QED BY <1>2, <1>4
  <2> HIDE DEF P, D, r, n, d
  <2>2. Only(r, T)[k] = s[Nth(D, k) + 1]
    BY <1>1, <1>4, <1>6
  <2> QED BY <1>4, <1>5, <2>1, <2>2
<1> HIDE DEF P, D, r, n
<1>8. CASE Head(s) \notin T
  <2>1. d = 0 /\ Cardinality(P) = Cardinality(D)
    BY <1>2, <1>4, <1>8
  <2>2. \A k \in 1..Cardinality(D) : Only(r, T)[k] = Only(s, T)[k]
    BY <1>2, <1>7, <2>1
  <2>3. Only(r, T) = Only(s, T)
    BY <1>5, <1>6, <2>1, <2>2, SeqEqual
  <2> QED BY <1>8, <2>3 DEF r
<1>9. CASE Head(s) \in T
  <2>1. d = 1 /\ Cardinality(P) = Cardinality(D) + 1
    BY <1>2, <1>4, <1>9
  <2>2. Only(s, T) # <<>>
    BY <1>2, <1>5, <2>1, EmptySeq
  <2>3. /\ Tail(Only(s, T)) \in Seq(S) /\ Len(Tail(Only(s, T))) = Cardinality(D)
        /\ \A k \in 1..Cardinality(D) : Tail(Only(s, T))[k] = Only(s, T)[k + 1]
        /\ Head(Only(s, T)) = Only(s, T)[1]
    BY <1>2, <1>5, <2>1, <2>2, HeadTailProperties
  <2>4. Only(r, T) = Tail(Only(s, T))
    <3>1. \A k \in 1..Cardinality(D) : Only(r, T)[k] = Tail(Only(s, T))[k]
      BY <1>7, <2>1, <2>3
    <3> QED BY <1>6, <2>3, <3>1, SeqEqual
  <2>5. Head(Only(s, T)) = Head(s)
    <3>1. 1 \in 1..Cardinality(P)
      BY <1>2, <2>1
    <3>2. Only(s, T)[1] = s[1]
      BY <1>2, <1>4, <1>5, <1>9, <3>1
    <3> QED BY <1>1, <2>3, <3>2
  <2> QED BY <1>9, <2>2, <2>4, <2>5 DEF r
<1> QED BY <1>8, <1>9

(***************************************************************************)
(* The registry.                                                           *)
(***************************************************************************)
Switchable(id) == id \in Agents \cup {Tts}

\* The voice can go there: a registered agent, or nowhere when there is no agent.
Fits(c) == c \in Registered \cup {NoAgent} /\ (c = NoAgent => Registered \cap Agents = {})

\* What a switch or a mode change has found stays good while nothing races with it.
RegistryInv ==
  /\ Keyboard \in Registered
  /\ picked # Idle /\ "switch" \notin raced => picked \in Registered
  /\ mode # Idle /\ "mode" \notin raced => Fits(mode)
  /\ ~stale => Fits(current)

LEMMA Names ==
  /\ Keyboard \notin Agents /\ Tts \notin Agents /\ Keyboard # Tts
  /\ NoAgent \notin Agents /\ NoAgent # Keyboard /\ NoAgent # Tts
  /\ Ids \ Reserved = Agents
  /\ Idle \notin Targets
  /\ Configured \in {Keyboard, NoAgent}
BY NamesAssumption DEF Ids, Reserved, Keyboard, Tts

LEMMA SetOfEmpty ==
  ASSUME NEW S, NEW s \in Seq(S)
  PROVE  /\ s = <<>> <=> ToSet(s) = {}
         /\ s # <<>> => Head(s) \in ToSet(s)
         /\ ToSet(s) \subseteq S
<1>1. DOMAIN s = 1..Len(s) /\ Len(s) \in Nat /\ \A i \in 1..Len(s) : s[i] \in S
  BY LenProperties, ElementOfSeq
<1>2. s = <<>> => ToSet(s) = {}
  BY EmptySeq DEF ToSet
<1>3. s # <<>> => 1 \in 1..Len(s) /\ Head(s) = s[1]
  BY <1>1, EmptySeq
<1> QED BY <1>1, <1>2, <1>3 DEF ToSet

LEMMA SetOfAppend ==
  ASSUME NEW S, NEW s \in Seq(S), NEW x \in S
  PROVE  Append(s, x) \in Seq(S) /\ ToSet(Append(s, x)) = ToSet(s) \cup {x}
<1> DEFINE a == Append(s, x)
<1>1. /\ a \in Seq(S) /\ Len(s) \in Nat /\ DOMAIN s = 1..Len(s) /\ DOMAIN a = 1..(Len(s) + 1)
      /\ \A i \in 1..Len(s) : a[i] = s[i]
      /\ a[Len(s) + 1] = x
  BY LenProperties
<1>2. ToSet(a) \subseteq ToSet(s) \cup {x}
  <2> SUFFICES ASSUME NEW i \in DOMAIN a PROVE a[i] \in ToSet(s) \cup {x}
    BY DEF ToSet
  <2> HIDE DEF a
  <2>1. i \in 1..Len(s) \/ i = Len(s) + 1
    BY <1>1
  <2> QED BY <1>1, <2>1 DEF ToSet
<1>3. ToSet(s) \cup {x} \subseteq ToSet(a)
  <2> HIDE DEF a
  <2>1. \A i \in DOMAIN s : i \in DOMAIN a /\ a[i] = s[i]
    BY <1>1
  <2>2. Len(s) + 1 \in DOMAIN a
    BY <1>1
  <2> QED BY <1>1, <2>1, <2>2 DEF ToSet
<1> QED BY <1>1, <1>2, <1>3

LEMMA SetOfTail ==
  ASSUME NEW S, NEW s \in Seq(S), s # <<>>
  PROVE  ToSet(s) = {Head(s)} \cup ToSet(Tail(s)) /\ Tail(s) \in Seq(S) /\ Head(s) \in S
<1> DEFINE r == Tail(s)
<1>1. /\ r \in Seq(S) /\ Head(s) \in S /\ Head(s) = s[1] /\ Len(s) = Len(r) + 1 /\ Len(r) \in Nat
      /\ DOMAIN s = 1..Len(s) /\ DOMAIN r = 1..Len(r)
      /\ \A i \in 1..Len(r) : r[i] = s[i + 1]
  BY HeadTailProperties, LenProperties
<1>2. ToSet(s) \subseteq {Head(s)} \cup ToSet(r)
  <2> SUFFICES ASSUME NEW i \in DOMAIN s PROVE s[i] \in {Head(s)} \cup ToSet(r)
    BY DEF ToSet
  <2> HIDE DEF r
  <2>1. CASE i = 1
    BY <1>1, <2>1
  <2>2. CASE i # 1
    <3>1. i - 1 \in 1..Len(r) /\ r[i - 1] = s[(i - 1) + 1] /\ (i - 1) + 1 = i
      BY <1>1, <2>2
    <3> QED BY <1>1, <3>1 DEF ToSet
  <2> QED BY <2>1, <2>2
<1>3. {Head(s)} \cup ToSet(r) \subseteq ToSet(s)
  <2> HIDE DEF r
  <2>1. \A i \in DOMAIN r : i + 1 \in DOMAIN s /\ r[i] = s[i + 1]
    BY <1>1
  <2>2. 1 \in DOMAIN s
    BY <1>1
  <2> QED BY <1>1, <2>1, <2>2 DEF ToSet
<1> QED BY <1>1, <1>2, <1>3

\* The visible agents are the registered ones that are not reserved.
LEMMA VisibleAgents ==
  ASSUME NEW o \in Seq(Ids)
  PROVE  /\ VisibleIn(o) = <<>> <=> ToSet(o) \cap Agents = {}
         /\ VisibleIn(o) # <<>> => Head(VisibleIn(o)) \in ToSet(o) \cap Agents
         /\ \A c : GraceEnds(o, c) => Head(VisibleIn(o)) \in ToSet(o) \cap Agents
<1>1. VisibleIn(o) = Only(o, Agents)
  BY Names DEF VisibleIn
<1>2. Only(o, Agents) \in Seq(Ids)
  BY OnlyIsSeq
<1>3. ToSet(Only(o, Agents)) = ToSet(o) \cap Agents
  BY OnlyMembers
<1>4. /\ Only(o, Agents) = <<>> <=> ToSet(Only(o, Agents)) = {}
      /\ Only(o, Agents) # <<>> => Head(Only(o, Agents)) \in ToSet(Only(o, Agents))
  BY <1>2, SetOfEmpty
<1> QED BY <1>1, <1>3, <1>4 DEF GraceEnds

\* The place of the current agent, or the first, is a place of the order.
LEMMA IndexInOrder ==
  ASSUME order \in Seq(Ids), order # <<>>
  PROVE  CurrentIndex \in 1..Len(order)
<1> DEFINE P == {i \in 1..Len(order) : order[i] = current}
<1>1. Len(order) \in Nat /\ 1 \in 1..Len(order)
  BY EmptySeq, LenProperties
<1>2. CASE current \in Registered
  <2>1. P # {}
    BY <1>2, LenProperties DEF Registered, ToSet
  <2>2. IsFiniteSet(P) /\ Cardinality(P) \in Nat /\ Cardinality(P) # 0
    BY <1>1, <2>1, PlacesFinite, FS_EmptySet
  <2>3. PICK i \in P : Rank(P, i) = 1
    <3> HIDE DEF P
    <3>1. P \in SUBSET (1..Len(order))
      BY DEF P
    <3>2. 1 \in 1..Cardinality(P)
      BY <2>2
    <3> QED BY <1>1, <3>1, <3>2, RankIsSound
  <2>4. \A j \in P : i <= j
    <3> SUFFICES ASSUME NEW j \in P, ~(i <= j) PROVE FALSE
      OBVIOUS
    <3> DEFINE B == {k \in P : k <= i}
    <3>1. B \in SUBSET (1..Len(order)) /\ j \in B /\ i \in B /\ i # j
      OBVIOUS
    <3>2. IsFiniteSet(B) /\ Cardinality(B) = 1
      BY <1>1, <2>3, <3>1, PlacesFinite DEF Rank
    <3> HIDE DEF B
    <3> QED BY <3>1, <3>2, FS_CardinalityType, FS_Singleton
  <2>5. SelectInSeq(order, LAMBDA a : a = current) = Min(P)
    BY <2>1 DEF SelectInSeq
  <2>6. Min(P) \in P
    BY <2>3, <2>4 DEF Min
  <2> QED BY <1>2, <2>5, <2>6 DEF CurrentIndex
<1>3. CASE current \notin Registered
  BY <1>1, <1>3 DEF CurrentIndex
<1> QED BY <1>2, <1>3

LEMMA DirectionInOrder ==
  ASSUME order \in Seq(Ids), order # <<>>, NEW d \in {-1, 1}
  PROVE  ByDirection(d) \in Registered
<1> DEFINE n == Len(order)
           x == CurrentIndex - 1 + d
<1>1. n \in Nat /\ n > 0 /\ x \in Int /\ DOMAIN order = 1..n
  BY IndexInOrder, EmptySeq, LenProperties
<1>2. (x % n) + 1 \in 1..n
  <2> HIDE DEF n, x
  <2> QED BY <1>1
<1> QED BY <1>1, <1>2 DEF ByDirection, Registered, ToSet

RegistryGood == RegistryTypeOK /\ RegistryInv

\* What every notification leaves, on the registry as it is then.
LEMMA Notified ==
  ASSUME NEW o \in Seq(Ids), NEW c \in Targets, RegistryTypeOK, Notify(o, c)
  PROVE  /\ current' \in Targets /\ saved' \in Targets
         /\ grace' \in {"none", "waiting", "elapsed"}
         /\ current' = c \/ current' \in ToSet(o) \cap Agents
<1>1. GraceEnds(o, c) => Head(VisibleIn(o)) \in ToSet(o) \cap Agents
  BY VisibleAgents
<1>2. ToSet(o) \cap Agents \subseteq Targets
  BY DEF Ids, Targets
<1> QED BY <1>1, <1>2 DEF Notify, RegistryTypeOK

LEMMA RegisterKeeps ==
  ASSUME RegistryGood, NEW id, Switchable(id), Register(id)
  PROVE  RegistryGood' /\ Registered' = Registered \cup {id}
<1>1. CASE id \in Registered
  <2>1. UNCHANGED registryVars
    BY <1>1 DEF Register
  <2> QED BY <1>1, <2>1 DEF registryVars, registry, switching, RegistryGood, RegistryTypeOK, RegistryInv,
                            Registered, Fits
<1>2. CASE id \notin Registered
  <2> DEFINE c == IF id \in Reserved THEN current ELSE Activated(id)
  <2>1. /\ order' = Append(order, id) /\ Notify(order', c) /\ Races
        /\ UNCHANGED <<preferred, picked, mode, stale>>
    BY <1>2 DEF Register
  <2>2. /\ id \in Ids /\ order \in Seq(Ids) /\ Registered = ToSet(order)
    BY DEF Switchable, Ids, Reserved, RegistryGood, RegistryTypeOK, Registered
  <2>3. order' \in Seq(Ids) /\ Registered' = Registered \cup {id}
    BY <2>1, <2>2, SetOfAppend DEF Registered
  <2>4. c \in {current, id} /\ c \in Targets
    BY <2>2 DEF Activated, RegistryGood, RegistryTypeOK, Targets
  <2>5. id \in Agents /\ current = NoAgent => c = id
    BY Names DEF Activated, Reserved
  <2>6. /\ current' \in Targets /\ saved' \in Targets
        /\ grace' \in {"none", "waiting", "elapsed"}
        /\ current' = c \/ current' \in ToSet(order') \cap Agents
    <3>1. ASSUME NEW o \in Seq(Ids), o = order'
          PROVE  /\ current' \in Targets /\ saved' \in Targets
                 /\ grace' \in {"none", "waiting", "elapsed"}
                 /\ current' = c \/ current' \in ToSet(o) \cap Agents
      <4>1. Notify(o, c)
        BY <2>1, <3>1
      <4> HIDE DEF c
      <4> QED BY <4>1, <2>4, Notified DEF RegistryGood
    <3> QED BY <2>3, <3>1
  <2> HIDE DEF c
  <2>7. RegistryTypeOK'
    BY <2>1, <2>3, <2>6 DEF RegistryGood, RegistryTypeOK, Races
  <2>8. ~stale => Fits(current)'
    <3> SUFFICES ASSUME ~stale PROVE Fits(current)'
      OBVIOUS
    <3>1. current \in Registered \cup {NoAgent} /\ (current = NoAgent => Registered \cap Agents = {})
      BY DEF RegistryGood, RegistryInv, Fits
    <3>2. current' \in Registered' \cup {NoAgent}
      BY <2>3, <2>4, <2>6, <3>1 DEF Registered
    <3>3. current' = NoAgent => Registered' \cap Agents = {}
      BY <2>2, <2>3, <2>4, <2>5, <2>6, <3>1, Names DEF Switchable, Registered
    <3> QED BY <3>2, <3>3 DEF Fits
  <2>9. RegistryInv'
    BY <2>1, <2>3, <2>8 DEF RegistryGood, RegistryInv, Races
  <2> QED BY <2>3, <2>7, <2>9 DEF RegistryGood
<1> QED BY <1>1, <1>2

LEMMA UnregisterKeeps ==
  ASSUME RegistryGood, NEW id, Switchable(id), Unregister(id)
  PROVE  RegistryGood' /\ Registered' = Registered \ {id}
<1> DEFINE rest == Only(order, Ids \ {id})
<1>0. /\ id \in Ids /\ order \in Seq(Ids) /\ Registered = ToSet(order) /\ Registered \subseteq Ids
  BY SetOfEmpty DEF Switchable, Ids, Reserved, RegistryGood, RegistryTypeOK, Registered
<1>1. CASE id \notin Registered
  <2>1. UNCHANGED registryVars
    BY <1>1 DEF Unregister
  <2> QED BY <1>1, <2>1 DEF registryVars, registry, switching, RegistryGood, RegistryTypeOK, RegistryInv,
                            Registered, Fits
<1>2. CASE id \in Registered
  <2> DEFINE c == IF current = id THEN Successor(id, rest) ELSE current
  <2>1. /\ order' = rest /\ Notify(rest, c) /\ Races
        /\ UNCHANGED <<preferred, picked, mode, stale>>
    BY <1>2 DEF Unregister
  <2>2. rest \in Seq(Ids) /\ ToSet(rest) = Registered \ {id}
    BY <1>0, OnlyIsSeq, OnlyMembers
  <2> HIDE DEF rest
  <2>3. Registered' = Registered \ {id}
    BY <2>1, <2>2 DEF Registered
  <2>4. /\ c \in Targets
        /\ current = id => c \in ToSet(rest) \cup {NoAgent} /\ (c = NoAgent => ToSet(rest) \cap Agents = {})
        /\ current # id => c = current
    <3>1. /\ VisibleIn(rest) = <<>> <=> ToSet(rest) \cap Agents = {}
          /\ VisibleIn(rest) # <<>> => Head(VisibleIn(rest)) \in ToSet(rest) \cap Agents
      BY <2>2, VisibleAgents
    <3>2. current \in Targets /\ Agents \subseteq Targets /\ NoAgent \in Targets
      BY DEF RegistryGood, RegistryTypeOK, Targets, Ids
    <3> QED BY <3>1, <3>2, Names DEF Successor
  <2> HIDE DEF c
  <2>5. /\ current' \in Targets /\ saved' \in Targets
        /\ grace' \in {"none", "waiting", "elapsed"}
        /\ current' = c \/ current' \in ToSet(rest) \cap Agents
    BY <2>1, <2>2, <2>4, Notified DEF RegistryGood
  <2>6. RegistryTypeOK'
    BY <2>1, <2>2, <2>5 DEF RegistryGood, RegistryTypeOK, Races
  <2>7. ~stale => Fits(current)'
    <3> SUFFICES ASSUME ~stale PROVE Fits(current)'
      OBVIOUS
    <3>1. current \in Registered \cup {NoAgent} /\ (current = NoAgent => Registered \cap Agents = {})
      BY DEF RegistryGood, RegistryInv, Fits
    <3>2. current' \in Registered' \cup {NoAgent}
      BY <2>2, <2>3, <2>4, <2>5, <3>1
    <3>3. current' = NoAgent => Registered' \cap Agents = {}
      BY <2>2, <2>3, <2>4, <2>5, <3>1, Names
    <3> QED BY <3>2, <3>3 DEF Fits
  <2>8. Keyboard \in Registered'
    BY <2>3, Names DEF RegistryGood, RegistryInv, Switchable
  <2>9. RegistryInv'
    BY <2>1, <2>3, <2>7, <2>8 DEF RegistryGood, RegistryInv, Races
  <2> QED BY <2>3, <2>6, <2>9 DEF RegistryGood
<1> QED BY <1>1, <1>2

\* The operations in progress: what they have found is there, and stays so until
\* the registry changes.
LEMMA TargetsKept ==
  ASSUME RegistryGood, SwitchPicks \/ SwitchSets \/ ModePicks \/ ModeSets \/ OtherNotify \/ GraceElapses
  PROVE  RegistryGood' /\ Registered' = Registered
<1>1. /\ order \in Seq(Ids) /\ Registered = ToSet(order) /\ Registered \subseteq Ids
      /\ Ids \subseteq Targets /\ NoAgent \in Targets /\ Keyboard \in Registered
      /\ Agents \subseteq Ids
  BY SetOfEmpty DEF RegistryGood, RegistryTypeOK, RegistryInv, Registered, Targets, Ids
<1>2. order' = order /\ Registered' = Registered
  BY DEF SwitchPicks, SwitchSets, ModePicks, ModeSets, OtherNotify, GraceElapses, registry, Registered
<1>3. CASE SwitchPicks
  <2>1. picked' \in Registered
    <3>1. ByDirection(1) \in Registered /\ ByDirection(-1) \in Registered
      BY <1>1, <1>3, DirectionInOrder DEF SwitchPicks
    <3> QED BY <1>3, <3>1 DEF SwitchPicks
  <2>2. RegistryTypeOK'
    BY <1>1, <1>3, <2>1 DEF SwitchPicks, RegistryGood, RegistryTypeOK, registry
  <2>3. RegistryInv'
    BY <1>2, <1>3, <2>1 DEF SwitchPicks, RegistryGood, RegistryInv, registry, Fits
  <2> QED BY <1>2, <2>2, <2>3 DEF RegistryGood
<1>4. CASE SwitchSets
  <2>1. picked \in Targets /\ picked # Idle
    BY <1>4 DEF SwitchSets, RegistryGood, RegistryTypeOK
  <2>2. /\ current' \in Targets /\ saved' \in Targets
        /\ grace' \in {"none", "waiting", "elapsed"}
        /\ current' = picked \/ current' \in ToSet(order) \cap Agents
    <3>1. CASE picked = current
      BY <1>4, <3>1 DEF SwitchSets, Quiet, RegistryGood, RegistryTypeOK
    <3>2. CASE picked # current
      BY <1>1, <1>4, <2>1, <3>2, Notified DEF SwitchSets, RegistryGood
    <3> QED BY <3>1, <3>2
  <2>3. RegistryTypeOK'
    BY <1>2, <1>4, <2>1, <2>2 DEF SwitchSets, RegistryGood, RegistryTypeOK
  <2>4. ~stale' => Fits(current)'
    <3>1. ~stale' => picked \in Registered
      BY <1>4 DEF SwitchSets, RegistryGood, RegistryInv
    <3>2. NoAgent \notin Registered
      BY <1>1, NamesAssumption
    <3> QED BY <1>1, <1>2, <2>2, <3>1, <3>2 DEF Fits
  <2>5. RegistryInv'
    BY <1>2, <1>4, <2>4 DEF SwitchSets, RegistryGood, RegistryInv, Fits
  <2> QED BY <1>2, <2>3, <2>5 DEF RegistryGood
<1>5. CASE ModePicks
  <2>1. Fits(mode') /\ mode' \in Targets
    <3>1. /\ VisibleIn(order) = <<>> <=> ToSet(order) \cap Agents = {}
          /\ VisibleIn(order) # <<>> => Head(VisibleIn(order)) \in ToSet(order) \cap Agents
      BY <1>1, VisibleAgents
    <3>2. AgentsTarget \in Registered \cup {NoAgent} /\ (AgentsTarget = NoAgent => Registered \cap Agents = {})
      <4>1. AgentsTarget \in Registered \/ (AgentsTarget = NoAgent /\ Registered \cap Agents = {})
        BY <1>1, <3>1 DEF AgentsTarget, Visible
      <4> QED BY <1>1, <4>1, NamesAssumption
    <3>3. mode' \in {Keyboard, AgentsTarget}
      BY <1>5 DEF ModePicks
    <3> QED BY <1>1, <3>2, <3>3, Names DEF Fits
  <2>2. preferred' \in Agents \cup {Tts, NoAgent}
    BY <1>5 DEF ModePicks, AgentMode, RegistryGood, RegistryTypeOK, Targets, Ids, Reserved
  <2>3. RegistryTypeOK'
    BY <1>2, <1>5, <2>1, <2>2 DEF ModePicks, RegistryGood, RegistryTypeOK
  <2>4. RegistryInv'
    BY <1>2, <1>5, <2>1 DEF ModePicks, RegistryGood, RegistryInv, Fits
  <2> QED BY <1>2, <2>3, <2>4 DEF RegistryGood
<1>6. CASE ModeSets
  <2>1. mode \in Targets /\ mode # Idle
    BY <1>6 DEF ModeSets, RegistryGood, RegistryTypeOK
  <2>2. /\ current' \in Targets /\ saved' \in Targets
        /\ grace' \in {"none", "waiting", "elapsed"}
        /\ current' = mode \/ current' \in ToSet(order) \cap Agents
    BY <1>1, <1>6, <2>1, Notified DEF ModeSets, RegistryGood
  <2>3. RegistryTypeOK'
    BY <1>2, <1>6, <2>1, <2>2 DEF ModeSets, RegistryGood, RegistryTypeOK
  <2>4. ~stale' => Fits(current)'
    BY <1>1, <1>2, <1>6, <2>1, <2>2, Names DEF ModeSets, RegistryGood, RegistryInv, Fits
  <2>5. RegistryInv'
    BY <1>2, <1>6, <2>4 DEF ModeSets, RegistryGood, RegistryInv, Fits
  <2> QED BY <1>2, <2>3, <2>5 DEF RegistryGood
<1>7. CASE OtherNotify
  <2>1. /\ current' \in Targets /\ saved' \in Targets
        /\ grace' \in {"none", "waiting", "elapsed"}
        /\ current' = current \/ current' \in ToSet(order) \cap Agents
    BY <1>1, <1>7, Notified DEF OtherNotify, RegistryGood, RegistryTypeOK
  <2>2. RegistryTypeOK'
    BY <1>2, <1>7, <2>1 DEF OtherNotify, switching, RegistryGood, RegistryTypeOK
  <2>3. ~stale' => Fits(current)'
    BY <1>1, <1>2, <1>7, <2>1, Names DEF OtherNotify, switching, RegistryGood, RegistryInv, Fits
  <2>4. RegistryInv'
    BY <1>2, <1>7, <2>3 DEF OtherNotify, switching, RegistryGood, RegistryInv, Fits
  <2> QED BY <1>2, <2>2, <2>4 DEF RegistryGood
<1>8. CASE GraceElapses
  <2>1. RegistryTypeOK'
    BY <1>2, <1>8 DEF GraceElapses, switching, RegistryGood, RegistryTypeOK
  <2>2. RegistryInv'
    BY <1>2, <1>8 DEF GraceElapses, switching, RegistryGood, RegistryInv, Fits
  <2> QED BY <1>2, <2>1, <2>2 DEF RegistryGood
<1> QED BY <1>3, <1>4, <1>5, <1>6, <1>7, <1>8

LEMMA FreshRegistry ==
  /\ <<Keyboard>> \in Seq(Ids)
  /\ ToSet(<<Keyboard>>) = {Keyboard}
<1> Keyboard \in Ids
  BY DEF Ids, Reserved
<1> QED BY DEF ToSet

LEMMA RegistryStarts ==
  ASSUME RegistryInit
  PROVE  RegistryGood /\ Registered \cap Agents = {}
<1>1. Registered = {Keyboard}
  BY FreshRegistry DEF RegistryInit, Registered
<1> QED BY <1>1, FreshRegistry, Names DEF RegistryInit, RegistryGood, RegistryTypeOK, RegistryInv, Fits,
                                         Targets, Ids, Reserved

LEMMA RegistryComesBack ==
  ASSUME RegistryGood, RegistryRestarts
  PROVE  RegistryGood' /\ Registered' = {Keyboard}
<1>1. Registered' = {Keyboard}
  BY FreshRegistry DEF RegistryRestarts, Registered
<1>2. saved \in Targets
  BY DEF RegistryGood, RegistryTypeOK
<1>3. RegistryTypeOK'
  BY <1>2, FreshRegistry, Names DEF RegistryRestarts, Restored, RegistryTypeOK, Targets, Ids, Reserved
<1>4. RegistryInv'
  BY <1>1, Names DEF RegistryRestarts, Restored, RegistryInv, Fits
<1> QED BY <1>1, <1>3, <1>4 DEF RegistryGood

LEMMA RegistryUntouched ==
  ASSUME RegistryGood, UNCHANGED registryVars
  PROVE  RegistryGood' /\ Registered' = Registered
BY DEF registryVars, registry, switching, RegistryGood, RegistryTypeOK, RegistryInv, Registered, Fits

LEMMA RegistryIsSound ==
  ASSUME RegistryGood
  PROVE  TargetIsSound
<1>1. VisibleIn(order) = <<>> <=> ToSet(order) \cap Agents = {}
  BY VisibleAgents DEF RegistryGood, RegistryTypeOK
<1> QED BY <1>1 DEF RegistryGood, RegistryInv, TargetIsSound, Fits, Visible, Registered

(***************************************************************************)
(* The focus policy.                                                       *)
(***************************************************************************)
\* As long as no report is handled while an elapsed timer waits for the lock, the
\* only timer that counts is the one in the slot, and a timer that has elapsed is
\* the only one there is.
OneTimer(a) ==
  ~crossed[a] =>
    /\ counting[a] \subseteq {slot[a]}
    /\ elapsed[a] # {} => counting[a] = {}
    /\ told[a] = "in" => focus[a] = "in" /\ counting[a] = {} /\ elapsed[a] = {}

FocusGood == FocusTypeOK /\ \A a \in Watched : OneTimer(a)

LEMMA FocusCaught == FocusGood => FlickerIsCaught
BY DEF FocusGood, OneTimer, FlickerIsCaught

LEMMA FocusUntouched == FocusGood /\ UNCHANGED focusVars => FocusGood'
BY DEF focusVars, FocusGood, FocusTypeOK, OneTimer

LEMMA FocusStarts == FocusInit => FocusGood
BY TimersAssumption DEF FocusInit, FocusGood, FocusTypeOK, OneTimer, Reported

LEMMA FocusComesBack ==
  ASSUME FocusGood, NEW kept, FocusRestored(kept)
  PROVE  FocusGood'
BY DEF FocusRestored, FocusGood, FocusTypeOK, OneTimer, Reported

\* One agent's entries change; those of the others do not.
LEMMA OthersKeepTimer ==
  ASSUME FocusGood, NEW a \in Watched,
         FocusIn(a) \/ FocusOut(a) \/ RemoveAgent(a) \/ TimerElapses(a) \/ ApplyUnfocus(a),
         NEW b \in Watched, b # a
  PROVE  OneTimer(b)'
<1>1. /\ focus'[b] = focus[b] /\ slot'[b] = slot[b] /\ counting'[b] = counting[b]
      /\ elapsed'[b] = elapsed[b] /\ told'[b] = told[b] /\ crossed'[b] = crossed[b]
  BY DEF FocusIn, FocusOut, RemoveAgent, TimerElapses, ApplyUnfocus, Crosses, FocusGood, FocusTypeOK
<1> QED BY <1>1 DEF FocusGood, OneTimer

LEMMA FocusStep ==
  ASSUME FocusGood, NEW a \in Watched,
         FocusIn(a) \/ FocusOut(a) \/ RemoveAgent(a) \/ TimerElapses(a) \/ ApplyUnfocus(a)
  PROVE  FocusGood'
<1>1. /\ counting[a] \subseteq Timer /\ elapsed[a] \subseteq Timer /\ CancelSlot(a) \subseteq counting[a]
      /\ OneTimer(a) /\ crossed[a] \in BOOLEAN
  BY DEF FocusGood, FocusTypeOK, CancelSlot
<1>2. CASE FocusIn(a)
  <2>1. FocusTypeOK'
    BY <1>1, <1>2 DEF FocusIn, Crosses, FocusGood, FocusTypeOK, Reported
  <2>2. OneTimer(a)'
    <3>1. /\ focus'[a] = "in" /\ slot'[a] = 0 /\ counting'[a] = counting[a] \ {slot[a]}
          /\ elapsed'[a] = elapsed[a] /\ crossed'[a] = (crossed[a] \/ elapsed[a] # {})
      BY <1>2 DEF FocusIn, Crosses, CancelSlot, FocusGood, FocusTypeOK
    <3>2. ~crossed'[a] => ~crossed[a] /\ elapsed[a] = {}
      BY <3>1
    <3> QED BY <1>1, <3>1, <3>2 DEF OneTimer
  <2> QED BY <1>2, <2>1, <2>2, OthersKeepTimer DEF FocusGood
<1>3. CASE FocusOut(a)
  <2> DEFINE t == started[a] + 1
  <2>1. FocusTypeOK'
    <3>1. t \in Timer /\ t \in 0..MaxTimers
      BY <1>3, TimersAssumption DEF FocusOut, Timer
    <3> HIDE DEF t
    <3>2. /\ started' = [started EXCEPT ![a] = t]
          /\ counting' = [counting EXCEPT ![a] = CancelSlot(a) \cup {t}]
          /\ slot' = [slot EXCEPT ![a] = t]
          /\ told' = [told EXCEPT ![a] = "out"]
          /\ crossed' = [crossed EXCEPT ![a] = @ \/ elapsed[a] # {}]
          /\ UNCHANGED <<focus, elapsed>>
      BY <1>3 DEF FocusOut, Crosses, t
    <3> QED BY <1>1, <3>1, <3>2 DEF FocusGood, FocusTypeOK, Reported
  <2>2. OneTimer(a)'
    <3> HIDE DEF t
    <3>1. /\ told'[a] = "out" /\ slot'[a] = t /\ counting'[a] = (counting[a] \ {slot[a]}) \cup {t}
          /\ elapsed'[a] = elapsed[a] /\ crossed'[a] = (crossed[a] \/ elapsed[a] # {})
      BY <1>3 DEF FocusOut, Crosses, CancelSlot, FocusGood, FocusTypeOK, t
    <3>2. ~crossed'[a] => ~crossed[a] /\ elapsed[a] = {}
      BY <3>1
    <3> QED BY <1>1, <3>1, <3>2 DEF OneTimer
  <2> QED BY <1>3, <2>1, <2>2, OthersKeepTimer DEF FocusGood
<1>4. CASE RemoveAgent(a)
  <2>1. FocusTypeOK'
    BY <1>1, <1>4 DEF RemoveAgent, Crosses, FocusGood, FocusTypeOK, Reported
  <2>2. OneTimer(a)'
    <3>1. /\ told'[a] = "none" /\ slot'[a] = 0 /\ counting'[a] = counting[a] \ {slot[a]}
          /\ elapsed'[a] = elapsed[a] /\ crossed'[a] = (crossed[a] \/ elapsed[a] # {})
      BY <1>4 DEF RemoveAgent, Crosses, CancelSlot, FocusGood, FocusTypeOK
    <3>2. ~crossed'[a] => ~crossed[a] /\ elapsed[a] = {}
      BY <3>1
    <3> QED BY <1>1, <3>1, <3>2 DEF OneTimer
  <2> QED BY <1>4, <2>1, <2>2, OthersKeepTimer DEF FocusGood
<1>5. CASE TimerElapses(a)
  <2> PICK t \in counting[a] :
        /\ counting' = [counting EXCEPT ![a] = @ \ {t}]
        /\ elapsed' = [elapsed EXCEPT ![a] = @ \cup {t}]
        /\ UNCHANGED <<focus, slot, started, told, crossed>>
    BY <1>5 DEF TimerElapses
  <2>1. FocusTypeOK'
    BY <1>1 DEF FocusGood, FocusTypeOK
  <2>2. OneTimer(a)'
    <3>1. counting'[a] = counting[a] \ {t} /\ elapsed'[a] = elapsed[a] \cup {t}
      BY DEF FocusGood, FocusTypeOK
    <3> QED BY <1>1, <3>1 DEF OneTimer
  <2> QED BY <1>5, <2>1, <2>2, OthersKeepTimer DEF FocusGood
<1>6. CASE ApplyUnfocus(a)
  <2> PICK t \in elapsed[a] :
        /\ elapsed' = [elapsed EXCEPT ![a] = @ \ {t}]
        /\ focus' = [focus EXCEPT ![a] = "out"]
        /\ slot' = [slot EXCEPT ![a] = 0]
        /\ UNCHANGED <<counting, started, told, crossed>>
    BY <1>6 DEF ApplyUnfocus
  <2>1. FocusTypeOK'
    BY <1>1 DEF FocusGood, FocusTypeOK, Reported
  <2>2. OneTimer(a)'
    <3>1. elapsed'[a] = elapsed[a] \ {t} /\ slot'[a] = 0
      BY DEF FocusGood, FocusTypeOK
    <3> QED BY <1>1, <3>1 DEF OneTimer
  <2> QED BY <1>6, <2>1, <2>2, OthersKeepTimer DEF FocusGood
<1> QED BY <1>2, <1>3, <1>4, <1>5, <1>6

(***************************************************************************)
(* The terminals.                                                          *)
(***************************************************************************)
Ends == {"submit", "newline"}

\* What EnterFollowsText says of one screen.
Follows(s) ==
  \A i \in 1..Len(s) : s[i][1] \in Ends => i > 1 /\ s[i - 1] = Text(s[i][2])

\* While the writer waits to write the Enter of a message, the text of that message
\* is what it has written last.
TextWritten(w, s) ==
  w \notin {Free, Done} =>
    \E m \in Messages : /\ w = Enter(m) /\ Operation[m] \in Ends
                        /\ s # <<>> /\ s[Len(s)] = Text(m)

ScreenGood(t) == Follows(screen[t]) /\ TextWritten(writer[t], screen[t])
TerminalGood == TerminalTypeOK /\ \A t \in Terminals : ScreenGood(t)

LEMMA TextsFollow == TerminalGood => EnterFollowsText
BY DEF TerminalGood, ScreenGood, Follows, EnterFollowsText, Ends

LEMMA TerminalUntouched == TerminalGood /\ UNCHANGED terminalVars => TerminalGood'
BY DEF terminalVars, TerminalGood, TerminalTypeOK, ScreenGood

LEMMA TerminalStarts == TerminalInit => TerminalGood
<1> SUFFICES ASSUME TerminalInit PROVE TerminalGood
  OBVIOUS
<1>1. <<>> \in Seq(Item) /\ <<>> \in Seq(Unit) /\ Len(<<>>) = 0
  BY EmptySeq
<1>2. TerminalTypeOK
  BY <1>1 DEF TerminalInit, TerminalTypeOK
<1>3. \A t \in Terminals : screen[t] = <<>> /\ writer[t] = Free
  BY DEF TerminalInit
<1> QED BY <1>1, <1>2, <1>3 DEF TerminalGood, ScreenGood, Follows, TextWritten

LEMMA Units ==
  /\ Key \in Item /\ Error \in Item /\ Key \in Unit /\ Key # Error
  /\ Key[1] \notin Ends
  /\ Free # Done
  /\ \A m \in Messages :
       /\ Operation[m] \in {"submit", "newline", "none", "enter"}
       /\ Msg(m) \in Item /\ Msg(m)[2] = m /\ Msg(m) # Key /\ Msg(m) # Error
       /\ Text(m) \in Unit /\ Text(m)[1] \notin Ends
       /\ Enter(m) \in Unit /\ Enter(m)[1] = Operation[m] /\ Enter(m)[2] = m
       /\ Enter(m) # Free /\ Enter(m) # Done
BY OperationAssumption DEF Key, Error, Item, Unit, Ends, Free, Done, Msg, Text, Enter

LEMMA ItemIsMessage ==
  ASSUME NEW item \in Item, item # Key, item # Error
  PROVE  item[2] \in Messages /\ item = Msg(item[2])
BY Units DEF Item

\* A unit printed leaves every Enter behind its text, if it is behind its own.
LEMMA FollowsAppend ==
  ASSUME NEW s \in Seq(Unit), Follows(s), NEW u \in Unit,
         u[1] \in Ends => s # <<>> /\ s[Len(s)] = Text(u[2])
  PROVE  /\ Append(s, u) \in Seq(Unit) /\ Follows(Append(s, u))
         /\ Append(s, u) # <<>> /\ Append(s, u)[Len(Append(s, u))] = u
<1> DEFINE a == Append(s, u)
           n == Len(s)
<1>1. /\ a \in Seq(Unit) /\ n \in Nat /\ Len(a) = n + 1
      /\ \A i \in 1..n : a[i] = s[i]
      /\ a[n + 1] = u
      /\ a # <<>>
      /\ s # <<>> => n > 0
  BY EmptySeq, LenProperties
<1>2. Follows(a)
  <2> HIDE DEF a
  <2> SUFFICES ASSUME NEW i \in 1..Len(a), a[i][1] \in Ends
               PROVE  i > 1 /\ a[i - 1] = Text(a[i][2])
    BY DEF Follows
  <2>1. CASE i = n + 1
    <3>1. a[i] = u /\ s # <<>> /\ s[n] = Text(u[2])
      BY <1>1, <2>1
    <3> HIDE DEF n
    <3>2. n > 0 /\ i - 1 = n /\ n \in 1..n
      BY <1>1, <2>1, <3>1
    <3> QED BY <1>1, <3>1, <3>2
  <2>2. CASE i # n + 1
    <3> HIDE DEF n
    <3>1. i \in 1..n /\ a[i] = s[i]
      BY <1>1, <2>2
    <3>2. i > 1 /\ s[i - 1] = Text(s[i][2])
      BY <3>1 DEF Follows, n
    <3>3. i - 1 \in 1..n
      BY <1>1, <3>1, <3>2
    <3> QED BY <1>1, <3>1, <3>2, <3>3
  <2> QED BY <2>1, <2>2
<1> QED BY <1>1, <1>2

\* One terminal's entries change; those of the others do not.
LEMMA OthersKeepScreen ==
  ASSUME TerminalGood, NEW t \in Terminals, NEW x, NEW y,
         screen' = [screen EXCEPT ![t] = x] \/ screen' = screen,
         writer' = [writer EXCEPT ![t] = y] \/ writer' = writer,
         NEW q \in Terminals, q # t
  PROVE  ScreenGood(q)'
<1>1. screen'[q] = screen[q] /\ writer'[q] = writer[q]
  BY DEF TerminalGood, TerminalTypeOK
<1> QED BY <1>1 DEF TerminalGood, ScreenGood

LEMMA QueueTyped ==
  ASSUME TerminalTypeOK, NEW t \in Terminals, NEW item \in Item, Queue(t, item)
  PROVE  writes' \in [Terminals -> Seq(Item)]
<1>1. Append(writes[t], item) \in Seq(Item)
  BY AppendProperties DEF TerminalTypeOK
<1> QED BY <1>1 DEF Queue, TerminalTypeOK

\* The writes queue, the threads and the link: nothing is printed.
LEMMA NothingPrinted ==
  ASSUME TerminalGood, NEW t \in Terminals,
         \/ Preflight(t) \/ Launch(t) \/ TypeKey(t) \/ Connects(t) \/ IsRefused(t) \/ LinkEnds(t)
         \/ ProgramExits(t) \/ LinksLost
         \/ \E m \in Messages : Receives(t, m)
  PROVE  TerminalGood'
<1>1. screen' = screen
  BY DEF Preflight, Launch, TypeKey, Connects, IsRefused, LinkEnds, ProgramExits, LinksLost, Receives
<1>2. writer' = writer \/ writer' = [writer EXCEPT ![t] = Done]
  BY DEF Preflight, Launch, TypeKey, Connects, IsRefused, LinkEnds, ProgramExits, LinksLost, Receives
<1>3. writes' \in [Terminals -> Seq(Item)]
  <2>1. CASE UNCHANGED writes
    BY <2>1 DEF TerminalGood, TerminalTypeOK
  <2>2. CASE \E item \in Item : Queue(t, item)
    BY <2>2, QueueTyped DEF TerminalGood
  <2>3. UNCHANGED writes \/ \E item \in Item : Queue(t, item)
    BY Units DEF Preflight, Launch, TypeKey, Connects, IsRefused, LinkEnds, ProgramExits, LinksLost, Receives
  <2> QED BY <2>1, <2>2, <2>3
<1>4. TerminalTypeOK'
  <2>1. /\ mux' \in [Terminals -> {"off", "checked", "running", "ended"}]
        /\ stop' \in [Terminals -> BOOLEAN]
    BY DEF Preflight, Launch, TypeKey, Connects, IsRefused, LinkEnds, ProgramExits, LinksLost, Receives,
           TerminalGood, TerminalTypeOK
  <2>2. link' \in [Terminals -> {"none", "up", "refused"}]
    BY DEF Preflight, Launch, TypeKey, Connects, IsRefused, LinkEnds, ProgramExits, LinksLost, Receives,
           TerminalGood, TerminalTypeOK
  <2> QED BY <1>1, <1>2, <1>3, <2>1, <2>2 DEF TerminalGood, TerminalTypeOK
<1>5. ScreenGood(t)'
  <2>1. writer'[t] = writer[t] \/ writer'[t] = Done
    BY <1>2 DEF TerminalGood, TerminalTypeOK
  <2> QED BY <1>1, <2>1 DEF TerminalGood, ScreenGood, TextWritten
<1>6. \A q \in Terminals : q # t => ScreenGood(q)'
  BY <1>1, <1>2, OthersKeepScreen
<1> QED BY <1>4, <1>5, <1>6 DEF TerminalGood

LEMMA EnterPrinted ==
  ASSUME TerminalGood, NEW t \in Terminals, WriteEnter(t)
  PROVE  TerminalGood'
<1> DEFINE s == screen[t]
           w == writer[t]
<1>1. PICK m \in Messages : w = Enter(m) /\ Operation[m] \in Ends /\ s # <<>> /\ s[Len(s)] = Text(m)
  BY DEF WriteEnter, TerminalGood, ScreenGood, TextWritten
<1>2. s \in Seq(Unit) /\ Follows(s) /\ w \in Unit /\ w[2] = m
  BY <1>1, Units DEF TerminalGood, TerminalTypeOK, ScreenGood
<1>3. Append(s, w) \in Seq(Unit) /\ Follows(Append(s, w))
  <2> HIDE DEF s, w
  <2> QED BY <1>1, <1>2, FollowsAppend
<1>4. /\ screen' = [screen EXCEPT ![t] = Append(s, w)]
      /\ writer' = [writer EXCEPT ![t] = Free]
      /\ UNCHANGED <<mux, stop, link, writes>>
  BY DEF WriteEnter, Prints
<1> HIDE DEF s, w
<1>5. TerminalTypeOK'
  BY <1>3, <1>4 DEF TerminalGood, TerminalTypeOK
<1>6. ScreenGood(t)'
  <2>1. screen'[t] = Append(s, w) /\ writer'[t] = Free
    BY <1>4 DEF TerminalGood, TerminalTypeOK
  <2> QED BY <1>3, <2>1 DEF ScreenGood, TextWritten
<1>7. \A q \in Terminals : q # t => ScreenGood(q)'
  BY <1>4, OthersKeepScreen
<1> QED BY <1>5, <1>6, <1>7 DEF TerminalGood

LEMMA FirstPrinted ==
  ASSUME NEW m \in Messages
  PROVE  /\ FirstUnit(m) \in Unit /\ FirstUnit(m)[1] \notin Ends
         /\ Rest(m) \in {Free, Done} \cup {Enter(n) : n \in Messages}
         /\ Rest(m) # Free => Rest(m) = Enter(m) /\ Operation[m] \in Ends /\ FirstUnit(m) = Text(m)
BY Units DEF FirstUnit, Rest, Ends

LEMMA ItemPrinted ==
  ASSUME TerminalGood, NEW t \in Terminals, WriteItem(t)
  PROVE  TerminalGood'
<1>1. /\ writer[t] = Free /\ writes[t] # <<>> /\ writes' = [writes EXCEPT ![t] = Tail(@)]
      /\ UNCHANGED <<mux, link>>
  BY DEF WriteItem
<1> DEFINE item == Head(writes[t])
           s == screen[t]
<1>2. writes[t] \in Seq(Item) /\ s \in Seq(Unit) /\ Follows(s)
  BY DEF TerminalGood, TerminalTypeOK, ScreenGood
<1>3. item \in Item /\ Tail(writes[t]) \in Seq(Item)
  BY <1>1, <1>2, HeadTailProperties
<1>4. writes' \in [Terminals -> Seq(Item)]
  BY <1>1, <1>3 DEF TerminalGood, TerminalTypeOK
<1> HIDE DEF item, s
<1>5. CASE item = Error
  <2>1. /\ stop' = [stop EXCEPT ![t] = TRUE] /\ writer' = [writer EXCEPT ![t] = Done]
        /\ UNCHANGED screen
    BY <1>5, Units DEF WriteItem, item
  <2>2. TerminalTypeOK'
    BY <1>1, <1>4, <2>1 DEF TerminalGood, TerminalTypeOK
  <2>3. ScreenGood(t)'
    <3>1. writer'[t] = Done /\ screen'[t] = screen[t]
      BY <2>1 DEF TerminalGood, TerminalTypeOK
    <3> QED BY <1>2, <3>1 DEF ScreenGood, TextWritten, s
  <2>4. \A q \in Terminals : q # t => ScreenGood(q)'
    BY <2>1, OthersKeepScreen
  <2> QED BY <2>2, <2>3, <2>4 DEF TerminalGood
<1>6. CASE item = Key
  <2>1. screen' = [screen EXCEPT ![t] = Append(s, Key)] /\ UNCHANGED <<stop, writer>>
    BY <1>6, Units DEF WriteItem, Prints, item, s
  <2>2. Append(s, Key) \in Seq(Unit) /\ Follows(Append(s, Key))
    BY <1>2, Units, FollowsAppend
  <2>3. TerminalTypeOK'
    BY <1>1, <1>4, <2>1, <2>2 DEF TerminalGood, TerminalTypeOK
  <2>4. ScreenGood(t)'
    <3>1. writer'[t] = Free /\ screen'[t] = Append(s, Key)
      BY <1>1, <2>1 DEF TerminalGood, TerminalTypeOK
    <3> QED BY <2>2, <3>1 DEF ScreenGood, TextWritten
  <2>5. \A q \in Terminals : q # t => ScreenGood(q)'
    BY <2>1, OthersKeepScreen
  <2> QED BY <2>3, <2>4, <2>5 DEF TerminalGood
<1>7. CASE item # Key /\ item # Error
  <2> DEFINE m == item[2]
             u == FirstUnit(m)
  <2>1. m \in Messages
    BY <1>3, <1>7, ItemIsMessage
  <2>2. /\ screen' = [screen EXCEPT ![t] = Append(s, u)]
        /\ writer' = [writer EXCEPT ![t] = Rest(m)] /\ UNCHANGED stop
    BY <1>7 DEF WriteItem, Prints, item, s
  <2> HIDE DEF m
  <2>3. /\ u \in Unit /\ u[1] \notin Ends
        /\ Rest(m) \in {Free, Done} \cup {Enter(n) : n \in Messages}
        /\ Rest(m) # Free => Rest(m) = Enter(m) /\ Operation[m] \in Ends /\ u = Text(m)
    BY <2>1, FirstPrinted
  <2> HIDE DEF u
  <2>4. /\ Append(s, u) \in Seq(Unit) /\ Follows(Append(s, u))
        /\ Append(s, u) # <<>> /\ Append(s, u)[Len(Append(s, u))] = u
    BY <1>2, <2>3, FollowsAppend
  <2>5. TerminalTypeOK'
    BY <1>1, <1>4, <2>2, <2>3, <2>4 DEF TerminalGood, TerminalTypeOK
  <2>6. ScreenGood(t)'
    <3>1. writer'[t] = Rest(m) /\ screen'[t] = Append(s, u)
      BY <2>2 DEF TerminalGood, TerminalTypeOK
    <3> QED BY <2>1, <2>3, <2>4, <3>1 DEF ScreenGood, TextWritten
  <2>7. \A q \in Terminals : q # t => ScreenGood(q)'
    BY <2>2, OthersKeepScreen
  <2> QED BY <2>5, <2>6, <2>7 DEF TerminalGood
<1> QED BY <1>5, <1>6, <1>7

(***************************************************************************)
(* The sessions.                                                           *)
(***************************************************************************)
Carried(s) == inHand[s].msg

SessionsTyped ==
  /\ owner \in [Agents -> Terminals \cup {Nobody}]
  /\ stream \in [Agents -> Seq(Messages)]
  /\ soon \in [Agents -> Seq(Messages)]
  /\ inHand \in [Sender -> {NotHolding} \cup [to : Agents, msg : Messages, live : BOOLEAN]]
  /\ used \subseteq Messages

\* A queue without a connection holds nothing, a connection has the name of its
\* terminal, and what a sender still holds alive has a connection.
QueuesOwned ==
  /\ \A a \in Agents : owner[a] = Nobody => stream[a] = <<>> /\ soon[a] = <<>>
  /\ \A a \in Agents : owner[a] # Nobody => NameOf[owner[a]] = a
  /\ \A s \in Sender : inHand[s].live => owner[inHand[s].to] # Nobody

\* A message that is not accepted yet is in one place: with one sender, or once
\* among the callbacks of the loop.
OnePlace ==
  /\ \A s \in Sender : Carried(s) # Nobody =>
       Carried(s) \in used /\ \A a \in Agents : Carried(s) \notin ToSet(soon[a])
  /\ \A s, r \in Sender : s # r /\ Carried(s) = Carried(r) => Carried(s) = Nobody
  /\ \A a \in Agents : ToSet(soon[a]) \subseteq used /\ IsInjective(soon[a])
  /\ \A a, b \in Agents : a # b => ToSet(soon[a]) \cap ToSet(soon[b]) = {}

SessionsGood == SessionsTyped /\ QueuesOwned /\ OnePlace

LEMMA Hands ==
  ASSUME SessionsTyped, NEW s \in Sender
  PROVE  /\ inHand[s] = NotHolding <=> Carried(s) = Nobody
         /\ Carried(s) \in Messages \cup {Nobody}
         /\ inHand[s] # NotHolding =>
              inHand[s].to \in Agents /\ Carried(s) \in Messages /\ inHand[s].live \in BOOLEAN
         /\ inHand[s].live => inHand[s] # NotHolding
         /\ inHand[s].live \in BOOLEAN
<1>1. inHand[s] \in {NotHolding} \cup [to : Agents, msg : Messages, live : BOOLEAN]
  BY DEF SessionsTyped
<1>2. CASE inHand[s] = NotHolding
  BY <1>2 DEF NotHolding, Carried
<1>3. CASE inHand[s] \in [to : Agents, msg : Messages, live : BOOLEAN]
  <2>1. Carried(s) \in Messages /\ Carried(s) # Nobody /\ inHand[s] # NotHolding
    BY <1>3, NameAssumption DEF NotHolding, Carried
  <2> QED BY <1>3, <2>1
<1> QED BY <1>1, <1>2, <1>3

LEMMA NothingStaysNothing == [NotHolding EXCEPT !.live = FALSE] = NotHolding
<1>1. NotHolding \in [to : {Nobody}, msg : {Nobody}, live : {FALSE}]
  BY DEF NotHolding
<1>2. \A h \in [to : {Nobody}, msg : {Nobody}, live : {FALSE}] : [h EXCEPT !.live = FALSE] = h
  OBVIOUS
<1> QED BY <1>1, <1>2

LEMMA InjectiveTail ==
  ASSUME NEW S, NEW s \in Seq(S), s # <<>>, IsInjective(s)
  PROVE  IsInjective(Tail(s)) /\ Head(s) \notin ToSet(Tail(s))
<1> DEFINE r == Tail(s)
<1>1. /\ Len(s) = Len(r) + 1 /\ Len(r) \in Nat /\ Head(s) = s[1]
      /\ DOMAIN s = 1..Len(s) /\ DOMAIN r = 1..Len(r)
      /\ \A i \in 1..Len(r) : r[i] = s[i + 1]
  BY HeadTailProperties, LenProperties
<1> HIDE DEF r
<1>2. \A i \in DOMAIN r : i \in Nat /\ i + 1 \in DOMAIN s /\ i + 1 # 1 /\ r[i] = s[i + 1]
  BY <1>1
<1>3. 1 \in DOMAIN s
  BY <1>1
<1>4. IsInjective(r)
  <2> SUFFICES ASSUME NEW i \in DOMAIN r, NEW j \in DOMAIN r, r[i] = r[j] PROVE i = j
    BY DEF IsInjective
  <2>1. i + 1 = j + 1
    BY <1>2 DEF IsInjective
  <2> QED BY <1>2, <2>1
<1>5. Head(s) \notin ToSet(r)
  BY <1>1, <1>2, <1>3 DEF IsInjective, ToSet
<1> QED BY <1>4, <1>5 DEF r

LEMMA InjectiveAppend ==
  ASSUME NEW S, NEW s \in Seq(S), IsInjective(s), NEW x \in S, x \notin ToSet(s)
  PROVE  IsInjective(Append(s, x))
<1> DEFINE a == Append(s, x)
           n == Len(s)
<1>1. /\ n \in Nat /\ DOMAIN s = 1..n /\ DOMAIN a = 1..(n + 1)
      /\ \A i \in 1..n : a[i] = s[i]
      /\ a[n + 1] = x
  BY LenProperties
<1>2. \A i \in 1..n : s[i] # x
  BY <1>1 DEF ToSet
<1> HIDE DEF a, n
<1>3. ASSUME NEW i \in DOMAIN a, NEW j \in DOMAIN a, a[i] = a[j] PROVE i = j
  <2>1. CASE i \in 1..n /\ j \in 1..n
    BY <1>1, <1>3, <2>1 DEF IsInjective
  <2>2. CASE i = n + 1
    BY <1>1, <1>2, <1>3, <2>2
  <2>3. CASE j = n + 1
    BY <1>1, <1>2, <1>3, <2>3
  <2> QED BY <1>1, <2>1, <2>2, <2>3
<1> QED BY <1>3 DEF IsInjective, a

LEMMA EmptyQueue == <<>> \in Seq(Messages) /\ ToSet(<<>>) = {} /\ IsInjective(<<>>)
BY EmptySeq DEF ToSet, IsInjective

\* Callbacks that go, without the message of any sender, leave each message in one place.
LEMMA FewerSoon ==
  ASSUME OnePlace, UNCHANGED used,
         \A b \in Agents : ToSet(soon'[b]) \subseteq ToSet(soon[b]) /\ IsInjective(soon'[b]),
         \A s \in Sender : Carried(s)' = Carried(s)
  PROVE  OnePlace'
<1>1. \A s \in Sender : Carried(s)' # Nobody =>
        Carried(s)' \in used' /\ \A b \in Agents : Carried(s)' \notin ToSet(soon'[b])
  BY DEF OnePlace
<1>2. \A s, r \in Sender : s # r /\ Carried(s)' = Carried(r)' => Carried(s)' = Nobody
  BY DEF OnePlace
<1>3. \A b \in Agents : ToSet(soon'[b]) \subseteq used' /\ IsInjective(soon'[b])
  BY DEF OnePlace
<1>4. \A b, c \in Agents : b # c => ToSet(soon'[b]) \cap ToSet(soon'[c]) = {}
  BY DEF OnePlace
<1> QED BY <1>1, <1>2, <1>3, <1>4 DEF OnePlace

LEMMA SessionsUntouched ==
  ASSUME SessionsGood, UNCHANGED serverVars
  PROVE  SessionsGood'
BY DEF serverVars, SessionsGood, SessionsTyped, QueuesOwned, OnePlace, Carried

LEMMA SessionsStart ==
  ASSUME Init
  PROVE  SessionsGood
<1>1. SessionsTyped
  BY EmptyQueue DEF Init, SessionsTyped
<1>2. QueuesOwned
  BY DEF Init, QueuesOwned, NotHolding
<1>3. OnePlace
  BY EmptyQueue DEF Init, OnePlace, Carried, NotHolding
<1> QED BY <1>1, <1>2, <1>3 DEF SessionsGood

LEMMA ReadsKeep ==
  ASSUME SessionsGood, NEW t \in Terminals, Reads(t)
  PROVE  SessionsGood'
<1> DEFINE a == NameOf[t]
<1>1. /\ a \in Agents /\ owner[a] = t /\ stream[a] # <<>>
      /\ stream' = [stream EXCEPT ![a] = Tail(@)]
      /\ UNCHANGED <<owner, soon, inHand, used>>
  BY NameAssumption DEF Reads
<1> HIDE DEF a
<1>2. Tail(stream[a]) \in Seq(Messages)
  BY <1>1, HeadTailProperties DEF SessionsGood, SessionsTyped
<1>3. SessionsTyped'
  BY <1>1, <1>2 DEF SessionsGood, SessionsTyped
<1>4. QueuesOwned'
  <2>1. t # Nobody
    BY NameAssumption
  <2>2. \A b \in Agents : b # a => stream'[b] = stream[b]
    BY <1>1 DEF SessionsGood, SessionsTyped
  <2> QED BY <1>1, <2>1, <2>2 DEF SessionsGood, QueuesOwned
<1>5. OnePlace'
  BY <1>1 DEF SessionsGood, OnePlace, Carried
<1> QED BY <1>3, <1>4, <1>5 DEF SessionsGood

LEMMA ConnectKeeps ==
  ASSUME SessionsGood, NEW t \in Terminals,
         owner[NameOf[t]] = Nobody, owner' = [owner EXCEPT ![NameOf[t]] = t],
         UNCHANGED <<stream, soon, inHand, used>>
  PROVE  SessionsGood'
<1> DEFINE a == NameOf[t]
<1>1. a \in Agents /\ t # Nobody
  BY NameAssumption
<1>2. SessionsTyped'
  BY <1>1 DEF SessionsGood, SessionsTyped
<1>3. owner'[a] = t /\ \A b \in Agents : b # a => owner'[b] = owner[b]
  BY <1>1 DEF SessionsGood, SessionsTyped
<1>4. QueuesOwned'
  <2>1. \A b \in Agents : owner'[b] = Nobody => stream'[b] = <<>> /\ soon'[b] = <<>>
    BY <1>1, <1>3 DEF SessionsGood, QueuesOwned
  <2>2. \A b \in Agents : owner'[b] # Nobody => NameOf[owner'[b]] = b
    BY <1>1, <1>3 DEF SessionsGood, QueuesOwned
  <2>3. \A s \in Sender : inHand'[s].live => owner'[inHand'[s].to] # Nobody
    BY <1>1, <1>3, Hands DEF SessionsGood, QueuesOwned
  <2> QED BY <2>1, <2>2, <2>3 DEF QueuesOwned
<1>5. OnePlace'
  BY DEF SessionsGood, OnePlace, Carried
<1> QED BY <1>2, <1>4, <1>5 DEF SessionsGood

\* Orphans keep their message.
LEMMA Orphans ==
  ASSUME SessionsTyped, NEW a \in Agents, NEW s \in Sender
  PROVE  /\ Orphan(inHand[s], a).msg = Carried(s) /\ Orphan(inHand[s], a).to = inHand[s].to
         /\ Orphan(inHand[s], a).live => inHand[s].live /\ inHand[s].to # a
         /\ Orphan(inHand[s], a) \in {NotHolding} \cup [to : Agents, msg : Messages, live : BOOLEAN]
<1>1. inHand[s] \in {NotHolding} \cup [to : Agents, msg : Messages, live : BOOLEAN]
  BY DEF SessionsTyped
<1>2. CASE inHand[s].to # a
  BY <1>1, <1>2 DEF Carried, Orphan
<1>3. CASE inHand[s].to = a
  <2> DEFINE o == Orphan(inHand[s], a)
  <2>1. o = [inHand[s] EXCEPT !.live = FALSE]
    BY <1>3 DEF Orphan
  <2>2. CASE inHand[s] = NotHolding
    <3>1. o = NotHolding
      BY <2>1, <2>2, NothingStaysNothing
    <3> QED BY <2>2, <3>1 DEF NotHolding, Carried
  <2>3. CASE inHand[s] \in [to : Agents, msg : Messages, live : BOOLEAN]
    <3>1. o \in [to : Agents, msg : Messages, live : BOOLEAN] /\ o.live = FALSE
          /\ o.to = inHand[s].to /\ o.msg = inHand[s].msg
      BY <2>1, <2>3
    <3> QED BY <3>1 DEF Carried
  <2> QED BY <1>1, <2>2, <2>3
<1> QED BY <1>2, <1>3

LEMMA DisconnectKeeps ==
  ASSUME SessionsGood, NEW t \in Terminals, Disconnect(t)
  PROVE  SessionsGood'
<1> DEFINE a == NameOf[t]
<1>1. /\ a \in Agents /\ owner[a] = t
      /\ owner' = [owner EXCEPT ![a] = Nobody]
      /\ stream' = [stream EXCEPT ![a] = <<>>]
      /\ soon' = [soon EXCEPT ![a] = <<>>]
      /\ inHand' = [s \in Sender |-> Orphan(inHand[s], a)]
      /\ UNCHANGED used
  BY NameAssumption DEF Disconnect
<1> HIDE DEF a
<1>2. SessionsTyped'
  <2>1. inHand' \in [Sender -> {NotHolding} \cup
                       [to : Agents, msg : Messages, live : BOOLEAN]]
    BY <1>1, Orphans DEF SessionsGood
  <2>2. /\ owner' \in [Agents -> Terminals \cup {Nobody}]
        /\ stream' \in [Agents -> Seq(Messages)] /\ soon' \in [Agents -> Seq(Messages)]
        /\ used' \subseteq Messages
    BY <1>1, EmptyQueue DEF SessionsGood, SessionsTyped
  <2> QED BY <2>1, <2>2 DEF SessionsTyped
<1>3. /\ owner'[a] = Nobody /\ stream'[a] = <<>> /\ soon'[a] = <<>>
      /\ \A b \in Agents : b # a => owner'[b] = owner[b] /\ stream'[b] = stream[b] /\ soon'[b] = soon[b]
  BY <1>1 DEF SessionsGood, SessionsTyped
<1>4. \A s \in Sender : /\ inHand'[s].msg = Carried(s) /\ inHand'[s].to = inHand[s].to
                        /\ inHand'[s].live => inHand[s].live /\ inHand[s].to # a
  BY <1>1, Orphans DEF SessionsGood
<1>5. QueuesOwned'
  <2>1. \A b \in Agents : owner'[b] = Nobody => stream'[b] = <<>> /\ soon'[b] = <<>>
    BY <1>3 DEF SessionsGood, QueuesOwned
  <2>2. \A b \in Agents : owner'[b] # Nobody => NameOf[owner'[b]] = b
    BY <1>3 DEF SessionsGood, QueuesOwned
  <2>3. \A s \in Sender : inHand'[s].live => owner'[inHand'[s].to] # Nobody
    BY <1>3, <1>4, Hands DEF SessionsGood, QueuesOwned
  <2> QED BY <2>1, <2>2, <2>3 DEF QueuesOwned
<1>6. OnePlace'
  <2>1. \A b \in Agents : ToSet(soon'[b]) \subseteq ToSet(soon[b]) /\ IsInjective(soon'[b])
    BY <1>3, EmptyQueue DEF SessionsGood, OnePlace
  <2>2. \A s \in Sender : Carried(s)' = Carried(s)
    BY <1>4 DEF Carried
  <2> QED BY <1>1, <2>1, <2>2, FewerSoon DEF SessionsGood
<1> QED BY <1>2, <1>5, <1>6 DEF SessionsGood

LEMMA LooksUpKeeps ==
  ASSUME SessionsGood, NEW s \in Sender, NEW a \in Agents, NEW m \in Messages, LooksUp(s, a, m)
  PROVE  SessionsGood'
<1> DEFINE h == Holding(a, m, TRUE)
<1>1. /\ inHand[s] = NotHolding /\ m \notin used /\ owner[a] # Nobody
      /\ inHand' = [inHand EXCEPT ![s] = h]
      /\ used' = used \cup {m}
      /\ UNCHANGED <<owner, stream, soon>>
  BY DEF LooksUp
<1>2. h.to = a /\ h.msg = m /\ h.live = TRUE
  BY DEF Holding
<1>3. h \in {NotHolding} \cup [to : Agents, msg : Messages, live : BOOLEAN]
  BY DEF Holding
<1> HIDE DEF h
<1>4. SessionsTyped'
  BY <1>1, <1>3 DEF SessionsGood, SessionsTyped
<1>5. inHand'[s] = h /\ \A r \in Sender : r # s => inHand'[r] = inHand[r]
  BY <1>1 DEF SessionsGood, SessionsTyped
<1>6. QueuesOwned'
  BY <1>1, <1>2, <1>5 DEF SessionsGood, QueuesOwned
<1>7. OnePlace'
  <2>1. /\ inHand'[s].msg = m
        /\ \A r \in Sender : r # s => inHand'[r].msg = Carried(r) /\ Carried(r) # m
    BY <1>1, <1>2, <1>5, NameAssumption DEF SessionsGood, OnePlace, Carried
  <2>2. \A b \in Agents : m \notin ToSet(soon[b])
    BY <1>1 DEF SessionsGood, OnePlace
  <2> QED BY <1>1, <2>1, <2>2 DEF SessionsGood, OnePlace, Carried
<1> QED BY <1>4, <1>6, <1>7 DEF SessionsGood

LEMMA HandsOverKeeps ==
  ASSUME SessionsGood, NEW s \in Sender, HandsOver(s)
  PROVE  SessionsGood'
<1> DEFINE a == inHand[s].to
           m == Carried(s)
           live == inHand[s].live
<1>1. /\ a \in Agents /\ m \in Messages /\ m # Nobody /\ live \in BOOLEAN
      /\ live => owner[a] # Nobody
  BY Hands, NameAssumption DEF HandsOver, SessionsGood, QueuesOwned
<1>2. /\ inHand' = [inHand EXCEPT ![s] = NotHolding]
      /\ UNCHANGED <<owner, used>>
      /\ \/ soon' = [soon EXCEPT ![a] = Append(@, m)] /\ live
         \/ UNCHANGED soon
      /\ \/ stream' = [stream EXCEPT ![a] = Append(@, m)] /\ live
         \/ UNCHANGED stream
  BY DEF HandsOver, Carried
<1>3. /\ soon[a] \in Seq(Messages) /\ Append(soon[a], m) \in Seq(Messages)
      /\ Append(stream[a], m) \in Seq(Messages)
      /\ ToSet(Append(soon[a], m)) = ToSet(soon[a]) \cup {m}
  BY <1>1, AppendProperties, SetOfAppend DEF SessionsGood, SessionsTyped
<1>4. \A b \in Agents : m \notin ToSet(soon[b])
  BY <1>1 DEF SessionsGood, OnePlace
<1>5. m \in used
  BY <1>1 DEF SessionsGood, OnePlace
<1>6. \A r \in Sender : r # s => Carried(r) # m
  BY <1>1 DEF SessionsGood, OnePlace
<1> HIDE DEF a, m, live
<1>7. SessionsTyped'
  <2>1. stream' \in [Agents -> Seq(Messages)] /\ soon' \in [Agents -> Seq(Messages)]
    <3>1. /\ stream \in [Agents -> Seq(Messages)] /\ soon \in [Agents -> Seq(Messages)]
      BY DEF SessionsGood, SessionsTyped
    <3>2. soon' \in [Agents -> Seq(Messages)]
      BY <1>2, <1>3, <3>1
    <3>3. stream' \in [Agents -> Seq(Messages)]
      BY <1>2, <1>3, <3>1
    <3> QED BY <3>2, <3>3
  <2> QED BY <1>2, <2>1 DEF SessionsGood, SessionsTyped
<1>8. /\ inHand'[s] = NotHolding /\ \A r \in Sender : r # s => inHand'[r] = inHand[r]
      /\ \A b \in Agents : b # a => soon'[b] = soon[b] /\ stream'[b] = stream[b]
      /\ soon'[a] = Append(soon[a], m) \/ soon'[a] = soon[a]
      /\ ~live => soon'[a] = soon[a] /\ stream'[a] = stream[a]
  BY <1>2 DEF SessionsGood, SessionsTyped
<1>9. QueuesOwned'
  <2>1. \A b \in Agents : owner[b] = Nobody => soon'[b] = soon[b] /\ stream'[b] = stream[b]
    BY <1>1, <1>8
  <2> QED BY <1>2, <1>8, <2>1 DEF SessionsGood, QueuesOwned, NotHolding
<1>10. OnePlace'
  <2>1. /\ Carried(s)' = Nobody /\ \A r \in Sender : r # s => Carried(r)' = Carried(r)
    BY <1>8 DEF Carried, NotHolding
  <2>2. IsInjective(soon'[a])
    <3>1. IsInjective(soon[a])
      BY <1>1 DEF SessionsGood, OnePlace
    <3>2. IsInjective(Append(soon[a], m))
      BY <1>1, <1>3, <1>4, <3>1, InjectiveAppend
    <3> QED BY <1>8, <3>1, <3>2
  <2>3. ToSet(soon'[a]) \subseteq ToSet(soon[a]) \cup {m}
    BY <1>3, <1>8
  <2>4. \A r \in Sender : Carried(r)' # Nobody =>
          Carried(r)' \in used' /\ \A b \in Agents : Carried(r)' \notin ToSet(soon'[b])
    BY <1>2, <1>6, <1>8, <2>1, <2>3 DEF SessionsGood, OnePlace
  <2>5. \A r, q \in Sender : r # q /\ Carried(r)' = Carried(q)' => Carried(r)' = Nobody
    BY <2>1 DEF SessionsGood, OnePlace
  <2>6. \A b \in Agents : ToSet(soon'[b]) \subseteq used' /\ IsInjective(soon'[b])
    BY <1>2, <1>5, <1>8, <2>2, <2>3 DEF SessionsGood, OnePlace
  <2>7. \A b, c \in Agents : b # c => ToSet(soon'[b]) \cap ToSet(soon'[c]) = {}
    BY <1>4, <1>8, <2>3 DEF SessionsGood, OnePlace
  <2> QED BY <2>4, <2>5, <2>6, <2>7 DEF OnePlace
<1> QED BY <1>7, <1>9, <1>10 DEF SessionsGood

LEMMA LoopPutsKeeps ==
  ASSUME SessionsGood, NEW a \in Agents, LoopPuts(a)
  PROVE  SessionsGood'
<1> DEFINE m == Head(soon[a])
           q == soon[a]
<1>1. /\ q # <<>>
      /\ soon' = [soon EXCEPT ![a] = Tail(q)]
      /\ stream' = [stream EXCEPT ![a] = Append(@, m)]
      /\ UNCHANGED <<owner, inHand, used>>
  BY DEF LoopPuts
<1>2. /\ q \in Seq(Messages) /\ IsInjective(q) /\ owner[a] # Nobody
  BY <1>1 DEF SessionsGood, SessionsTyped, QueuesOwned, OnePlace
<1> HIDE DEF q
<1>3. /\ Tail(q) \in Seq(Messages) /\ m \in Messages
      /\ ToSet(Tail(q)) \subseteq ToSet(q) /\ IsInjective(Tail(q))
  BY <1>1, <1>2, SetOfTail, InjectiveTail DEF q
<1>4. Append(stream[a], m) \in Seq(Messages)
  BY <1>3, AppendProperties DEF SessionsGood, SessionsTyped
<1> HIDE DEF m
<1>5. SessionsTyped'
  BY <1>1, <1>3, <1>4 DEF SessionsGood, SessionsTyped
<1>6. /\ soon'[a] = Tail(q)
      /\ \A b \in Agents : b # a => soon'[b] = soon[b] /\ stream'[b] = stream[b]
  BY <1>1 DEF SessionsGood, SessionsTyped
<1>7. QueuesOwned'
  BY <1>1, <1>2, <1>6 DEF SessionsGood, QueuesOwned
<1>8. OnePlace'
  <2>1. \A b \in Agents : ToSet(soon'[b]) \subseteq ToSet(soon[b]) /\ IsInjective(soon'[b])
    BY <1>3, <1>6 DEF SessionsGood, OnePlace, q
  <2>2. \A s \in Sender : Carried(s)' = Carried(s)
    BY <1>1 DEF Carried
  <2> QED BY <1>1, <2>1, <2>2, FewerSoon DEF SessionsGood
<1> QED BY <1>5, <1>7, <1>8 DEF SessionsGood

LEMMA SessionsLost ==
  ASSUME SessionsGood,
         owner' = [a \in Agents |-> Nobody], stream' = [a \in Agents |-> <<>>],
         soon' = [a \in Agents |-> <<>>], inHand' = [s \in Sender |-> NotHolding], UNCHANGED used
  PROVE  SessionsGood'
<1>1. SessionsTyped'
  BY EmptyQueue DEF SessionsGood, SessionsTyped
<1>2. QueuesOwned'
  BY DEF QueuesOwned, NotHolding
<1>3. OnePlace'
  BY EmptyQueue DEF OnePlace, Carried, NotHolding
<1> QED BY <1>1, <1>2, <1>3 DEF SessionsGood

(***************************************************************************)
(* The composition.                                                        *)
(***************************************************************************)
Counted ==
  /\ reports \in [Agents -> [{"in", "out"} -> Nat]]
  /\ left \in [Bounded -> Nat]

IInv ==
  /\ RegistryGood
  /\ FocusGood
  /\ TerminalGood
  /\ SessionsGood
  /\ SessionsAgree
  /\ Counted

LEMMA TypesHold == IInv => TypeOK
BY DEF IInv, TypeOK, RegistryGood, FocusGood, TerminalGood, SessionsGood, SessionsTyped, Counted

LEMMA Starting ==
  ASSUME Init
  PROVE  IInv
<1>1. RegistryGood /\ Registered \cap Agents = {}
  BY RegistryStarts DEF Init
<1>2. FocusGood /\ TerminalGood /\ SessionsGood
  BY FocusStarts, TerminalStarts, SessionsStart DEF Init
<1>3. SessionsAgree
  BY <1>1 DEF Init, SessionsAgree
<1>4. Counted
  BY BudgetsAssumption DEF Init, Counted
<1> QED BY <1>1, <1>2, <1>3, <1>4 DEF IInv

LEMMA Spent ==
  ASSUME Counted, NEW what \in Bounded, Spend(what)
  PROVE  left' \in [Bounded -> Nat]
<1>1. left[what] - 1 \in Nat
  BY DEF Spend, Counted
<1> QED BY <1>1 DEF Spend, Counted

LEMMA Reporting ==
  ASSUME Counted, NEW a \in Agents, NEW r \in {"in", "out"}, Report(a, r)
  PROVE  Counted'
<1>1. CASE UNCHANGED <<left, reports>>
  BY <1>1 DEF Counted
<1>2. CASE Spend("reports") /\ reports' = [reports EXCEPT ![a][r] = @ + 1]
  <2>1. left' \in [Bounded -> Nat]
    BY <1>2, Spent DEF Bounded
  <2>2. reports' \in [Agents -> [{"in", "out"} -> Nat]]
    BY <1>2 DEF Counted
  <2> QED BY <2>1, <2>2 DEF Counted
<1> QED BY <1>1, <1>2 DEF Report

LEMMA SpentOrNot ==
  ASSUME Counted, UNCHANGED reports, UNCHANGED left \/ \E what \in Bounded : Spend(what)
  PROVE  Counted'
BY Spent DEF Counted

\* A step of a terminal that the engine does not see.
LEMMA TerminalAlone ==
  ASSUME IInv, NEW t \in Terminals,
         \/ Starts(t) \/ Launches(t) \/ Types(t) \/ Writes(t) \/ Exits(t) \/ FocusChanges(t) \/ Breaks(t)
  PROVE  IInv'
<1>1. UNCHANGED <<registryVars, focusVars, serverVars>>
  BY DEF Starts, Launches, Types, Writes, Exits, FocusChanges, Breaks
<1>2. RegistryGood' /\ Registered' = Registered /\ FocusGood' /\ SessionsGood' /\ UNCHANGED owner
  BY <1>1, RegistryUntouched, FocusUntouched, SessionsUntouched DEF IInv, serverVars
<1>3. TerminalGood'
  <2>1. CASE UNCHANGED terminalVars
    BY <2>1, TerminalUntouched DEF IInv
  <2>2. CASE WriteItem(t) \/ WriteEnter(t)
    BY <2>2, ItemPrinted, EnterPrinted DEF IInv
  <2>3. CASE Preflight(t) \/ Launch(t) \/ TypeKey(t) \/ ProgramExits(t) \/ LinkEnds(t)
    BY <2>3, NothingPrinted DEF IInv
  <2> QED BY <2>1, <2>2, <2>3 DEF Starts, Launches, Types, Writes, Exits, FocusChanges, Breaks
<1>4. Counted'
  <2>1. NameOf[t] \in Agents
    BY NameAssumption
  <2>2. Counted /\ "starts" \in Bounded /\ "keys" \in Bounded /\ "drops" \in Bounded
    BY DEF IInv, Bounded
  <2>3. CASE Launches(t) \/ Exits(t) \/ FocusChanges(t)
    BY <2>1, <2>2, <2>3, Reporting DEF Launches, Exits, FocusChanges
  <2>4. CASE Starts(t) \/ Types(t) \/ Writes(t) \/ Breaks(t)
    <3>1. UNCHANGED reports /\ (UNCHANGED left \/ \E what \in Bounded : Spend(what))
      BY <2>2, <2>4 DEF Starts, Types, Writes, Breaks
    <3> QED BY <2>2, <3>1, SpentOrNot
  <2> QED BY <2>3, <2>4
<1> QED BY <1>2, <1>3, <1>4 DEF IInv, SessionsAgree

LEMMA ReadsStep ==
  ASSUME IInv, NEW t \in Terminals, Reads(t)
  PROVE  IInv'
<1>1. UNCHANGED <<registryVars, focusVars, owner, reports, left>>
  BY DEF Reads
<1>2. RegistryGood' /\ Registered' = Registered /\ FocusGood' /\ Counted'
  BY <1>1, RegistryUntouched, FocusUntouched, SpentOrNot DEF IInv
<1>3. SessionsGood'
  BY ReadsKeep DEF IInv
<1>4. TerminalGood'
  <2>1. Head(stream[NameOf[t]]) \in Messages
    BY NameAssumption, HeadTailProperties DEF Reads, IInv, SessionsGood, SessionsTyped
  <2>2. \E m \in Messages : Receives(t, m)
    BY <2>1 DEF Reads
  <2> QED BY <2>2, NothingPrinted DEF IInv
<1> QED BY <1>1, <1>2, <1>3, <1>4 DEF IInv, SessionsAgree

LEMMA ConnectStep ==
  ASSUME IInv, NEW t \in Terminals, Connect(t)
  PROVE  IInv'
<1> DEFINE a == NameOf[t]
<1>1. a \in Agents /\ Switchable(a) /\ t # Nobody
  BY NameAssumption DEF Switchable
<1>2. FocusGood' /\ Counted'
  BY FocusUntouched, SpentOrNot DEF Connect, IInv
<1>3. TerminalGood'
  BY NothingPrinted DEF Connect, IInv
<1>4. CASE owner[a] # Nobody
  <2>1. UNCHANGED <<registryVars, serverVars>>
    BY <1>4 DEF Connect
  <2>2. RegistryGood' /\ Registered' = Registered /\ SessionsGood' /\ UNCHANGED owner
    BY <2>1, RegistryUntouched, SessionsUntouched DEF IInv, serverVars
  <2> QED BY <1>2, <1>3, <2>2 DEF IInv, SessionsAgree
<1>5. CASE owner[a] = Nobody
  <2>1. owner' = [owner EXCEPT ![a] = t] /\ Register(a) /\ UNCHANGED <<stream, soon, inHand, used>>
    BY <1>5 DEF Connect
  <2>2. RegistryGood' /\ Registered' = Registered \cup {a}
    BY <1>1, <2>1, RegisterKeeps DEF IInv
  <2>3. SessionsGood'
    BY <1>5, <2>1, ConnectKeeps DEF IInv
  <2>4. SessionsAgree'
    BY <1>1, <2>1, <2>2 DEF IInv, SessionsAgree, SessionsGood, SessionsTyped
  <2> QED BY <1>2, <1>3, <2>2, <2>3, <2>4 DEF IInv
<1> QED BY <1>4, <1>5

LEMMA DisconnectStep ==
  ASSUME IInv, NEW t \in Terminals, Disconnect(t)
  PROVE  IInv'
<1> DEFINE a == NameOf[t]
<1>1. a \in Agents /\ a \in Watched /\ Switchable(a)
  BY NameAssumption DEF Switchable
<1>2. TerminalGood' /\ Counted'
  BY TerminalUntouched, SpentOrNot DEF Disconnect, IInv
<1>3. FocusGood'
  <2>1. RemoveAgent(a)
    BY DEF Disconnect
  <2> QED BY <1>1, <2>1, FocusStep DEF IInv
<1>4. SessionsGood'
  BY DisconnectKeeps DEF IInv
<1>5. owner' = [owner EXCEPT ![a] = Nobody] /\ Unregister(a)
  BY DEF Disconnect
<1>6. RegistryGood' /\ Registered' = Registered \ {a}
  BY <1>1, <1>5, UnregisterKeeps DEF IInv
<1>7. SessionsAgree'
  BY <1>1, <1>5, <1>6 DEF IInv, SessionsAgree, SessionsGood, SessionsTyped
<1> QED BY <1>2, <1>3, <1>4, <1>6, <1>7 DEF IInv

\* A step of the server that only moves messages.
LEMMA MessagesMove ==
  ASSUME IInv,
         \/ \E s \in Sender : HandsOver(s) \/ \E a \in Agents, m \in Messages : LooksUp(s, a, m)
         \/ \E a \in Agents : LoopPuts(a)
  PROVE  IInv'
<1>1. UNCHANGED <<registryVars, focusVars, terminalVars, owner, reports>>
  BY DEF HandsOver, LooksUp, LoopPuts
<1>2. RegistryGood' /\ Registered' = Registered /\ FocusGood' /\ TerminalGood'
  BY <1>1, RegistryUntouched, FocusUntouched, TerminalUntouched DEF IInv
<1>3. SessionsGood'
  BY HandsOverKeeps, LooksUpKeeps, LoopPutsKeeps DEF IInv
<1>4. Counted'
  <2>1. UNCHANGED left \/ \E what \in Bounded : Spend(what)
    BY DEF HandsOver, LooksUp, LoopPuts, Bounded
  <2> QED BY <1>1, <2>1, SpentOrNot DEF IInv
<1> QED BY <1>1, <1>2, <1>3, <1>4 DEF IInv, SessionsAgree

\* The rest of the engine.
LEMMA EngineStep ==
  ASSUME IInv, Switches \/ Policy \/ TtsWorker \/ \E a \in Agents : ReportArrives(a)
  PROVE  IInv'
<1>1. UNCHANGED <<terminalVars, serverVars>>
  BY DEF Switches, Policy, TtsWorker, ReportArrives
<1>2. TerminalGood' /\ SessionsGood' /\ UNCHANGED owner
  BY <1>1, TerminalUntouched, SessionsUntouched DEF IInv, serverVars
<1>3. Counted /\ Watched = Agents /\ "commands" \in Bounded /\ "notices" \in Bounded
  BY NameAssumption DEF IInv, Bounded
<1>4. CASE Switches
  <2>1. RegistryGood' /\ Registered' = Registered
    BY <1>4, TargetsKept DEF Switches, IInv
  <2>2. FocusGood'
    BY <1>4, FocusUntouched DEF Switches, IInv
  <2>3. Counted'
    <3>1. UNCHANGED reports /\ (UNCHANGED left \/ \E what \in Bounded : Spend(what))
      BY <1>3, <1>4 DEF Switches
    <3> QED BY <1>3, <3>1, SpentOrNot
  <2> QED BY <1>2, <2>1, <2>2, <2>3 DEF IInv, SessionsAgree
<1>5. CASE Policy
  <2>1. RegistryGood' /\ Registered' = Registered /\ Counted'
    BY <1>3, <1>5, RegistryUntouched, SpentOrNot DEF Policy, IInv
  <2>2. FocusGood'
    BY <1>3, <1>5, FocusStep DEF Policy, IInv
  <2> QED BY <1>2, <2>1, <2>2 DEF IInv, SessionsAgree
<1>6. CASE TtsWorker
  <2>1. RegistryGood' /\ (Registered' = Registered \cup {Tts} \/ Registered' = Registered \ {Tts})
    <3>1. Switchable(Tts)
      BY DEF Switchable
    <3>2. Register(Tts) \/ Unregister(Tts)
      BY <1>6 DEF TtsWorker
    <3> QED BY <3>1, <3>2, RegisterKeeps, UnregisterKeeps DEF IInv
  <2>2. FocusGood'
    BY <1>6, FocusUntouched DEF TtsWorker, IInv
  <2>3. Counted'
    BY <1>3, <1>6, SpentOrNot DEF TtsWorker
  <2>4. SessionsAgree'
    BY <1>2, <2>1, Names DEF IInv, SessionsAgree
  <2> QED BY <1>2, <2>1, <2>2, <2>3, <2>4 DEF IInv
<1>7. ASSUME NEW a \in Agents, ReportArrives(a) PROVE IInv'
  <2>1. RegistryGood' /\ Registered' = Registered
    BY <1>7, RegistryUntouched DEF ReportArrives, IInv
  <2>2. FocusGood'
    BY <1>3, <1>7, FocusStep DEF ReportArrives, IInv
  <2>3. Counted'
    <3>1. PICK r \in {"in", "out"} : reports[a][r] > 0 /\ reports' = [reports EXCEPT ![a][r] = @ - 1]
      BY <1>7 DEF ReportArrives
    <3>2. reports[a][r] - 1 \in Nat
      BY <1>3, <3>1 DEF Counted
    <3>3. reports' \in [Agents -> [{"in", "out"} -> Nat]]
      BY <1>3, <3>1, <3>2 DEF Counted
    <3> QED BY <1>3, <1>7, <3>3 DEF ReportArrives, Counted
  <2> QED BY <1>2, <2>1, <2>2, <2>3 DEF IInv, SessionsAgree
<1> QED BY <1>4, <1>5, <1>6, <1>7

LEMMA RestartStep ==
  ASSUME IInv, Restart
  PROVE  IInv'
<1>1. RegistryGood' /\ Registered' = {Keyboard}
  BY RegistryComesBack DEF Restart, IInv
<1>2. FocusGood'
  BY FocusComesBack DEF Restart, IInv
<1>3. TerminalGood'
  <2>1. CASE Terminals = {}
    BY <2>1 DEF Restart, LinksLost, IInv, TerminalGood, TerminalTypeOK
  <2>2. CASE Terminals # {}
    BY <2>2, NothingPrinted DEF Restart, IInv
  <2> QED BY <2>1, <2>2
<1>4. SessionsGood'
  BY SessionsLost DEF Restart, IInv
<1>5. Counted'
  BY SpentOrNot DEF Restart, IInv, Bounded
<1>6. SessionsAgree'
  BY <1>1, Names DEF Restart, SessionsAgree
<1> QED BY <1>1, <1>2, <1>3, <1>4, <1>5, <1>6 DEF IInv

LEMMA Stuttering ==
  ASSUME IInv, UNCHANGED vars
  PROVE  IInv'
<1>1. UNCHANGED <<registryVars, focusVars, terminalVars, serverVars, reports, left>>
  BY DEF vars
<1>2. UNCHANGED owner
  BY <1>1 DEF serverVars
<1> QED BY <1>1, <1>2, RegistryUntouched, FocusUntouched, TerminalUntouched, SessionsUntouched, SpentOrNot
        DEF IInv, SessionsAgree

LEMMA Stepping ==
  ASSUME IInv, [Next]_vars
  PROVE  IInv'
<1>1. ASSUME NEW t \in Terminals,
             \/ Starts(t) \/ Launches(t) \/ Types(t) \/ Writes(t) \/ Exits(t) \/ Reads(t)
             \/ FocusChanges(t) \/ Connect(t) \/ Breaks(t) \/ Disconnect(t)
      PROVE  IInv'
  BY <1>1, TerminalAlone, ReadsStep, ConnectStep, DisconnectStep
<1>2. ASSUME NEW a \in Agents, ReportArrives(a) \/ LoopPuts(a) PROVE IInv'
  BY <1>2, EngineStep, MessagesMove
<1>3. ASSUME NEW s \in Sender, HandsOver(s) \/ \E a \in Agents, m \in Messages : LooksUp(s, a, m)
      PROVE  IInv'
  BY <1>3, MessagesMove
<1>4. CASE Switches \/ Policy \/ TtsWorker
  BY <1>4, EngineStep
<1> QED BY <1>1, <1>2, <1>3, <1>4, RestartStep, Stuttering DEF Next

\* The inductive invariant holds in every reachable state.
THEOREM Inductive == Spec => []IInv
<1>1. Init => IInv
  BY Starting
<1>2. IInv /\ [Next]_vars => IInv'
  BY Stepping
<1> QED BY <1>1, <1>2, PTL DEF Spec

\* Every variable keeps its type, for any agents, terminals and messages.
THEOREM TypeCorrect == Spec => []TypeOK
BY Inductive, TypesHold, PTL

\* The server's queues and the engine's registry name the same agents, although the
\* handler and the generator of a connection update one after the other.
THEOREM QueuesAreRegistered == Spec => []SessionsAgree
<1>1. IInv => SessionsAgree
  BY DEF IInv
<1> QED BY <1>1, Inductive, PTL

\* The voice goes to a registered agent and goes nowhere only when there is none,
\* unless the registry changed under the switch or mode change that wrote last.
THEOREM VoiceHasTarget == Spec => []TargetIsSound
<1>1. IInv => TargetIsSound
  BY RegistryIsSound DEF IInv
<1> QED BY <1>1, Inductive, PTL

\* The Enter of a message follows its text directly, whatever is typed meanwhile.
THEOREM SingleWriter == Spec => []EnterFollowsText
<1>1. IInv => EnterFollowsText
  BY TextsFollow DEF IInv
<1> QED BY <1>1, Inductive, PTL

\* A focus that flickers within the 500 ms leaves the terminal silenced.
THEOREM Debounced == Spec => []FlickerIsCaught
<1>1. IInv => FlickerIsCaught
  BY FocusCaught DEF IInv
<1> QED BY <1>1, Inductive, PTL

(***************************************************************************)
(* The link implements the channel.                                        *)
(***************************************************************************)
MsgItems == {Msg(m) : m \in Messages}
FirstUnits == {FirstUnit(m) : m \in Messages}
Seconds(s) == [i \in 1..Len(s) |-> s[i][2]]

\* What is under way to a terminal: first what its queue holds, then its connection.
WrittenOf(w) == Seconds(Only(w, MsgItems))
GivenOf(s) == Seconds(Only(s, FirstUnits))
OnLink(t) == IF owner[NameOf[t]] = t /\ link[t] = "up" THEN stream[NameOf[t]] ELSE <<>>

LEMMA ChannelParts ==
  \A t \in Terminals : /\ UnderWay(t) = WrittenOf(writes[t]) \o OnLink(t)
                       /\ Given(t) = GivenOf(screen[t])
BY DEF UnderWay, Given, WrittenOf, GivenOf, OnLink, Seconds, MsgItems, FirstUnits

LEMMA SecondsType ==
  ASSUME NEW S, \A x \in S : x[2] \in Messages, NEW s \in Seq(S)
  PROVE  /\ Seconds(s) \in Seq(Messages) /\ Len(Seconds(s)) = Len(s)
         /\ \A i \in 1..Len(s) : Seconds(s)[i] = s[i][2]
<1>1. Len(s) \in Nat /\ \A i \in 1..Len(s) : s[i][2] \in Messages
  BY LenProperties, ElementOfSeq
<1>2. Seconds(s) \in Seq(Messages)
  BY <1>1, IsASeq DEF Seconds
<1>3. DOMAIN Seconds(s) = 1..Len(s) /\ \A i \in 1..Len(s) : Seconds(s)[i] = s[i][2]
  BY DEF Seconds
<1> QED BY <1>1, <1>2, <1>3, LenProperties

LEMMA SecondsEmpty == Seconds(<<>>) = <<>>
BY EmptySeq DEF Seconds

LEMMA SecondsAppend ==
  ASSUME NEW S, \A x \in S : x[2] \in Messages, NEW s \in Seq(S), NEW x \in S
  PROVE  Seconds(Append(s, x)) = Append(Seconds(s), x[2])
<1> DEFINE a == Append(s, x)
           n == Len(s)
<1>1. /\ a \in Seq(S) /\ n \in Nat /\ Len(a) = n + 1
      /\ \A i \in 1..n : a[i] = s[i]
      /\ a[n + 1] = x
  BY AppendProperties, LenProperties
<1>2. /\ Seconds(s) \in Seq(Messages) /\ Len(Seconds(s)) = n
      /\ \A i \in 1..n : Seconds(s)[i] = s[i][2]
  BY SecondsType
<1> HIDE DEF a
<1>3. /\ Seconds(a) \in Seq(Messages) /\ Len(Seconds(a)) = n + 1
      /\ \A i \in 1..(n + 1) : Seconds(a)[i] = a[i][2]
  BY <1>1, SecondsType
<1> DEFINE b == Append(Seconds(s), x[2])
<1>4. /\ b \in Seq(Messages) /\ Len(b) = n + 1
      /\ \A i \in 1..n : b[i] = Seconds(s)[i]
      /\ b[n + 1] = x[2]
  BY <1>2, AppendProperties
<1> HIDE DEF b, n
<1>5. \A i \in 1..(n + 1) : Seconds(a)[i] = b[i]
  BY <1>1, <1>2, <1>3, <1>4
<1>6. Seconds(a) = b
  BY <1>3, <1>4, <1>5, SeqEqual
<1> QED BY <1>6 DEF a, b

LEMMA SecondsTail ==
  ASSUME NEW S, \A x \in S : x[2] \in Messages, NEW s \in Seq(S), s # <<>>
  PROVE  /\ Seconds(s) # <<>> /\ Head(Seconds(s)) = Head(s)[2]
         /\ Seconds(Tail(s)) = Tail(Seconds(s))
<1> DEFINE r == Tail(s)
           n == Len(r)
           b == Seconds(s)
<1>1. /\ r \in Seq(S) /\ n \in Nat /\ Len(s) = n + 1 /\ Head(s) = s[1]
      /\ \A i \in 1..n : r[i] = s[i + 1]
  BY HeadTailProperties, LenProperties
<1>2. /\ b \in Seq(Messages) /\ Len(b) = n + 1
      /\ \A i \in 1..(n + 1) : b[i] = s[i][2]
  BY <1>1, SecondsType
<1> HIDE DEF r, b
<1>3. /\ Seconds(r) \in Seq(Messages) /\ Len(Seconds(r)) = n
      /\ \A i \in 1..n : Seconds(r)[i] = r[i][2]
  BY <1>1, SecondsType
<1> HIDE DEF n
<1>4. b # <<>> /\ Head(b) = b[1]
  BY <1>1, <1>2, EmptySeq
<1>5. /\ Tail(b) \in Seq(Messages) /\ Len(Tail(b)) = n
      /\ \A i \in 1..n : Tail(b)[i] = b[i + 1]
  BY <1>1, <1>2, <1>4, HeadTailProperties
<1>6. \A i \in 1..n : Seconds(r)[i] = Tail(b)[i]
  BY <1>1, <1>2, <1>3, <1>5
<1>7. Seconds(r) = Tail(b)
  BY <1>3, <1>5, <1>6, SeqEqual
<1>8. Head(b) = Head(s)[2]
  BY <1>1, <1>2, <1>4
<1> QED BY <1>4, <1>7, <1>8 DEF r, b

LEMMA MessageItems ==
  /\ \A x \in Item \cap MsgItems : x[2] \in Messages
  /\ \A x \in Unit \cap FirstUnits : x[2] \in Messages
  /\ \A m \in Messages : Msg(m) \in MsgItems /\ FirstUnit(m) \in FirstUnits
                         /\ Msg(m)[2] = m /\ FirstUnit(m)[2] = m
  /\ Key \notin MsgItems /\ Error \notin MsgItems /\ Key \notin FirstUnits
  /\ \A m \in Messages : Operation[m] \in Ends => Enter(m) \notin FirstUnits
<1>1. \A m \in Messages : Msg(m)[2] = m /\ FirstUnit(m)[2] = m
  BY Units DEF FirstUnit, Text
<1>2. \A m \in Messages : FirstUnit(m)[1] \in {"text", "enter"}
  BY Units DEF FirstUnit, Text
<1>3. Key \notin FirstUnits
  BY <1>2 DEF FirstUnits, Key
<1>4. \A m \in Messages : Operation[m] \in Ends => Enter(m) \notin FirstUnits
  BY <1>2, Units DEF FirstUnits, Ends
<1> QED BY <1>1, <1>3, <1>4, Units DEF MsgItems, FirstUnits

LEMMA WrittenType ==
  ASSUME NEW w \in Seq(Item)
  PROVE  WrittenOf(w) \in Seq(Messages)
BY OnlyIsSeq, MessageItems, SecondsType DEF WrittenOf

LEMMA WrittenAppend ==
  ASSUME NEW w \in Seq(Item), NEW item \in Item
  PROVE  /\ item \notin MsgItems => WrittenOf(Append(w, item)) = WrittenOf(w)
         /\ \A m \in Messages : item = Msg(m) => WrittenOf(Append(w, item)) = Append(WrittenOf(w), m)
<1>1. Only(Append(w, item), MsgItems) = IF item \in MsgItems THEN Append(Only(w, MsgItems), item)
                                                               ELSE Only(w, MsgItems)
  BY OnlyAppend
<1>2. Only(w, MsgItems) \in Seq(Item \cap MsgItems)
  BY OnlyIsSeq
<1>3. item \in MsgItems => Seconds(Append(Only(w, MsgItems), item)) = Append(WrittenOf(w), item[2])
  BY <1>2, MessageItems, SecondsAppend DEF WrittenOf
<1> QED BY <1>1, <1>3, MessageItems DEF WrittenOf

LEMMA WrittenTail ==
  ASSUME NEW w \in Seq(Item), w # <<>>
  PROVE  /\ Head(w) \notin MsgItems => WrittenOf(Tail(w)) = WrittenOf(w)
         /\ \A m \in Messages : Head(w) = Msg(m) =>
              /\ WrittenOf(w) # <<>> /\ Head(WrittenOf(w)) = m
              /\ WrittenOf(Tail(w)) = Tail(WrittenOf(w))
<1> DEFINE q == Only(w, MsgItems)
<1>1. /\ Head(w) \notin MsgItems => Only(Tail(w), MsgItems) = q
      /\ Head(w) \in MsgItems => q # <<>> /\ Head(q) = Head(w) /\ Only(Tail(w), MsgItems) = Tail(q)
  BY OnlyTail
<1>2. q \in Seq(Item \cap MsgItems)
  BY OnlyIsSeq
<1>3. q # <<>> => /\ Seconds(q) # <<>> /\ Head(Seconds(q)) = Head(q)[2]
                  /\ Seconds(Tail(q)) = Tail(Seconds(q))
  <2> HIDE DEF q
  <2> QED BY <1>2, MessageItems, SecondsTail
<1> QED BY <1>1, <1>3, MessageItems DEF WrittenOf

LEMMA GivenAppend ==
  ASSUME NEW s \in Seq(Unit), NEW u \in Unit
  PROVE  /\ u \notin FirstUnits => GivenOf(Append(s, u)) = GivenOf(s)
         /\ \A m \in Messages : u = FirstUnit(m) => GivenOf(Append(s, u)) = Append(GivenOf(s), m)
<1>1. Only(Append(s, u), FirstUnits) = IF u \in FirstUnits THEN Append(Only(s, FirstUnits), u)
                                                            ELSE Only(s, FirstUnits)
  BY OnlyAppend
<1>2. Only(s, FirstUnits) \in Seq(Unit \cap FirstUnits)
  BY OnlyIsSeq
<1>3. u \in FirstUnits => Seconds(Append(Only(s, FirstUnits), u)) = Append(GivenOf(s), u[2])
  BY <1>2, MessageItems, SecondsAppend DEF GivenOf
<1> QED BY <1>1, <1>3, MessageItems DEF GivenOf

LEMMA HeadAndTail ==
  ASSUME NEW S, NEW q \in Seq(S), q # <<>>
  PROVE  /\ Head(q) \in S /\ Tail(q) \in Seq(S) /\ <<Head(q)>> \in Seq(S)
         /\ q = <<Head(q)>> \o Tail(q)
<1>1. Head(q) \in S /\ Tail(q) \in Seq(S) /\ Head(q) = q[1]
  BY HeadTailProperties
<1>2. Len(q) \in Nat /\ 1 \in 1..Len(q) /\ Len(q) \in 1..Len(q)
  BY EmptySeq, LenProperties
<1>3. SubSeq(q, 1, Len(q)) = <<q[1]>> \o SubSeq(q, 1 + 1, Len(q))
  BY <1>2, SubSeqRecursiveFirst
<1>4. SubSeq(q, 1, Len(q)) = q /\ SubSeq(q, 2, Len(q)) = Tail(q)
  BY SubSeqFull, TailIsSubSeq
<1>5. <<Head(q)>> \in Seq(S)
  BY <1>1
<1> QED BY <1>1, <1>3, <1>4, <1>5

\* What moves from the connection to the queue stays at its place.
LEMMA MovedAlong ==
  ASSUME NEW S, NEW w \in Seq(S), NEW q \in Seq(S), q # <<>>
  PROVE  Append(w, Head(q)) \o Tail(q) = w \o q
<1>1. /\ Head(q) \in S /\ Tail(q) \in Seq(S) /\ <<Head(q)>> \in Seq(S)
      /\ q = <<Head(q)>> \o Tail(q)
  BY HeadAndTail
<1>2. Append(w, Head(q)) = w \o <<Head(q)>>
  BY <1>1, AppendIsConcat
<1>3. (w \o <<Head(q)>>) \o Tail(q) = w \o (<<Head(q)>> \o Tail(q))
  BY <1>1, ConcatAssociative
<1> QED BY <1>1, <1>2, <1>3

LEMMA ConcatAppend ==
  ASSUME NEW S, NEW w \in Seq(S), NEW q \in Seq(S), NEW x \in S
  PROVE  w \o Append(q, x) = Append(w \o q, x)
<1>1. <<x>> \in Seq(S) /\ w \o q \in Seq(S)
  BY ConcatProperties
<1>2. Append(q, x) = q \o <<x>> /\ Append(w \o q, x) = (w \o q) \o <<x>>
  BY <1>1, AppendIsConcat
<1>3. (w \o q) \o <<x>> = w \o (q \o <<x>>)
  BY <1>1, ConcatAssociative
<1> QED BY <1>2, <1>3

LEMMA ConcatTail ==
  ASSUME NEW S, NEW w \in Seq(S), w # <<>>, NEW q \in Seq(S)
  PROVE  /\ w \o q # <<>> /\ Head(w \o q) = Head(w)
         /\ Tail(w \o q) = Tail(w) \o q
<1> DEFINE h == Head(w)
           r == Tail(w) \o q
           c == <<h>> \o r
<1>1. h \in S /\ Tail(w) \in Seq(S) /\ <<h>> \in Seq(S) /\ w = <<h>> \o Tail(w)
  BY HeadAndTail
<1>2. w \o q = c
  BY <1>1, ConcatAssociative
<1>3. r \in Seq(S) /\ Len(r) \in Nat
  BY <1>1, ConcatProperties, LenProperties
<1> HIDE DEF h, r
<1>4. /\ c \in Seq(S) /\ Len(c) = Len(<<h>>) + Len(r)
      /\ \A i \in 1..(Len(<<h>>) + Len(r)) : c[i] =
           IF i <= Len(<<h>>) THEN <<h>>[i] ELSE r[i - Len(<<h>>)]
  BY <1>1, <1>3, ConcatProperties
<1>5. Len(<<h>>) = 1 /\ <<h>>[1] = h
  OBVIOUS
<1>6. Len(c) = Len(r) + 1 /\ c[1] = h /\ \A i \in 1..Len(r) : c[i + 1] = r[i]
  <2>1. Len(c) = Len(r) + 1 /\ 1 \in 1..(1 + Len(r))
    BY <1>3, <1>4, <1>5
  <2>2. c[1] = h
    BY <1>4, <1>5, <2>1
  <2>3. ASSUME NEW i \in 1..Len(r) PROVE c[i + 1] = r[i]
    <3>1. i + 1 \in 1..(1 + Len(r)) /\ ~(i + 1 <= 1) /\ (i + 1) - 1 = i
      BY <1>3
    <3> HIDE DEF c
    <3> QED BY <1>4, <1>5, <3>1
  <2> QED BY <2>1, <2>2, <2>3
<1> HIDE DEF c
<1>7. c # <<>> /\ Head(c) = h
  <2>1. c # <<>>
    BY <1>3, <1>4, <1>6, EmptySeq
  <2> QED BY <1>4, <1>6, <2>1, HeadTailProperties
<1>8. /\ Tail(c) \in Seq(S) /\ Len(Tail(c)) = Len(r)
      /\ \A i \in 1..Len(r) : Tail(c)[i] = c[i + 1]
  BY <1>3, <1>4, <1>6, <1>7, HeadTailProperties
<1>9. Tail(c) = r
  BY <1>3, <1>6, <1>8, SeqEqual
<1> QED BY <1>2, <1>7, <1>9 DEF h, r

LEMMA PrefixesOf ==
  ASSUME NEW S, NEW w \in Seq(S), NEW q \in Seq(S)
  PROVE  Channel!IsPrefix(w, w \o q) /\ Channel!IsPrefix(w, w)
<1> DEFINE c == w \o q
           n == Len(w)
<1>1. /\ n \in Nat /\ Len(q) \in Nat /\ c \in Seq(S) /\ Len(c) = n + Len(q)
      /\ \A i \in 1..n : c[i] = w[i] /\ w[i] \in S
  <2>1. \A i \in 1..n : w[i] \in S
    BY ElementOfSeq
  <2>2. n \in Nat /\ Len(q) \in Nat /\ c \in Seq(S) /\ Len(c) = n + Len(q)
    BY LenProperties, ConcatProperties
  <2>3. \A i \in 1..(n + Len(q)) : c[i] = IF i <= n THEN w[i] ELSE q[i - n]
    BY ConcatProperties
  <2> HIDE DEF c, n
  <2> QED BY <2>1, <2>2, <2>3
<1> HIDE DEF c
<1>2. SubSeq(w, 1, n) = w
  BY SubSeqFull
<1> HIDE DEF n
<1>3. /\ SubSeq(c, 1, n) \in Seq(S) /\ Len(SubSeq(c, 1, n)) = n
      /\ \A i \in 1..n : SubSeq(c, 1, n)[i] = w[i]
  <2>1. \A i \in 1..n : c[i] \in S
    BY <1>1
  <2>2. /\ SubSeq(c, 1, n) \in Seq(S)
        /\ Len(SubSeq(c, 1, n)) = IF 1 <= n THEN n - 1 + 1 ELSE 0
        /\ \A i \in 1..(n - 1 + 1) : SubSeq(c, 1, n)[i] = c[1 + i - 1]
    BY <1>1, <2>1, SubSeqProperties
  <2>3. n - 1 + 1 = n /\ \A i \in 1..n : 1 + i - 1 = i
    BY <1>1
  <2> QED BY <1>1, <2>2, <2>3
<1>4. SubSeq(c, 1, n) = w
  <2>1. Len(w) = n
    BY DEF n
  <2> QED BY <1>3, <2>1, SeqEqual
<1>5. n <= Len(c)
  BY <1>1
<1> QED BY <1>1, <1>2, <1>4, <1>5 DEF Channel!IsPrefix, c, n

\* What the channel sees of a terminal, and that it is left alone.
KeepsConnection(t) == link'[t] = "up" <=> link[t] = "up"
KeepsBound(t) == Bound(t)' = Bound(t)
KeepsUnderWay(t) == UnderWay(t)' = UnderWay(t)
KeepsGiven(t) == Given(t)' = Given(t)

LEMMA ConnectionsKept ==
  ASSUME \A t \in Terminals : KeepsConnection(t)
  PROVE  [t \in Terminals |-> link[t] = "up"]' = [t \in Terminals |-> link[t] = "up"]
<1>1. \A t \in Terminals : (link'[t] = "up") = (link[t] = "up")
  BY DEF KeepsConnection
<1> QED BY <1>1

LEMMA BoundsKept ==
  ASSUME \A t \in Terminals : KeepsBound(t)
  PROVE  [t \in Terminals |-> Bound(t)]' = [t \in Terminals |-> Bound(t)]
BY DEF KeepsBound

LEMMA WaysKept ==
  ASSUME \A t \in Terminals : KeepsUnderWay(t)
  PROVE  [t \in Terminals |-> UnderWay(t)]' = [t \in Terminals |-> UnderWay(t)]
BY DEF KeepsUnderWay

LEMMA GiftsKept ==
  ASSUME \A t \in Terminals : KeepsGiven(t)
  PROVE  [t \in Terminals |-> Given(t)]' = [t \in Terminals |-> Given(t)]
BY DEF KeepsGiven

LEMMA ChannelStutters ==
  ASSUME UNCHANGED used,
         \A t \in Terminals : /\ KeepsConnection(t) /\ KeepsBound(t)
                              /\ KeepsUnderWay(t) /\ KeepsGiven(t)
  PROVE  UNCHANGED Channel!channelVars
BY ConnectionsKept, BoundsKept, WaysKept, GiftsKept DEF Channel!channelVars

LEMMA ChannelConnects ==
  ASSUME NEW t \in Terminals, link[t] # "up", link'[t] = "up", UNCHANGED used,
         \A q \in Terminals : q # t => KeepsConnection(q),
         \A q \in Terminals : KeepsBound(q) /\ KeepsUnderWay(q) /\ KeepsGiven(q)
  PROVE  Channel!Next
<1>1. [q \in Terminals |-> link[q] = "up"]' =
        [[q \in Terminals |-> link[q] = "up"] EXCEPT ![t] = TRUE]
  <2>1. \A q \in Terminals : q # t => (link'[q] = "up") = (link[q] = "up")
    BY DEF KeepsConnection
  <2>2. (link'[t] = "up") = TRUE
    OBVIOUS
  <2> QED BY <2>1, <2>2
<1>2. Channel!Connect(t)
  BY <1>1, BoundsKept, WaysKept, GiftsKept DEF Channel!Connect
<1> QED BY <1>2 DEF Channel!Next

LEMMA ChannelSends ==
  ASSUME NEW t \in Terminals, NEW m \in Messages, m \notin used, used' = used \cup {m},
         Bound(t)' = IF link[t] = "up" THEN Bound(t) \cup {m} ELSE Bound(t),
         \A q \in Terminals : q # t => KeepsBound(q),
         \A q \in Terminals : KeepsConnection(q) /\ KeepsUnderWay(q) /\ KeepsGiven(q)
  PROVE  Channel!Next
<1>1. CASE link[t] = "up"
  <2>1. [q \in Terminals |-> Bound(q)]' =
          [[q \in Terminals |-> Bound(q)] EXCEPT ![t] = @ \cup {m}]
    BY <1>1 DEF KeepsBound
  <2>2. [q \in Terminals |-> link[q] = "up"][t]
    BY <1>1
  <2>3. Channel!Send(t, m)
    BY <2>1, <2>2, ConnectionsKept, WaysKept, GiftsKept DEF Channel!Send
  <2> QED BY <2>3 DEF Channel!Next
<1>2. CASE link[t] # "up"
  <2>1. [q \in Terminals |-> Bound(q)]' = [q \in Terminals |-> Bound(q)]
    BY <1>2 DEF KeepsBound
  <2>2. ~[q \in Terminals |-> link[q] = "up"][t]
    BY <1>2
  <2>3. Channel!Send(t, m)
    BY <2>1, <2>2, ConnectionsKept, WaysKept, GiftsKept DEF Channel!Send
  <2> QED BY <2>3 DEF Channel!Next
<1> QED BY <1>1, <1>2

LEMMA ChannelAccepts ==
  ASSUME NEW t \in Terminals, NEW m \in Messages, link[t] = "up", m \in Bound(t),
         Bound(t)' = Bound(t) \ {m}, UnderWay(t)' = Append(UnderWay(t), m), UNCHANGED used,
         \A q \in Terminals : q # t => KeepsBound(q) /\ KeepsUnderWay(q),
         \A q \in Terminals : KeepsConnection(q) /\ KeepsGiven(q)
  PROVE  Channel!Next
<1>1. [q \in Terminals |-> UnderWay(q)]' =
        [[q \in Terminals |-> UnderWay(q)] EXCEPT ![t] = Append(@, m)]
  BY DEF KeepsUnderWay
<1>2. [q \in Terminals |-> Bound(q)]' =
        [[q \in Terminals |-> Bound(q)] EXCEPT ![t] = @ \ {m}]
  BY DEF KeepsBound
<1>3. [q \in Terminals |-> link[q] = "up"][t] /\ m \in [q \in Terminals |-> Bound(q)][t]
  OBVIOUS
<1>4. Channel!Accept(t, m)
  BY <1>1, <1>2, <1>3, ConnectionsKept, GiftsKept DEF Channel!Accept
<1> QED BY <1>4 DEF Channel!Next

LEMMA ChannelDelivers ==
  ASSUME NEW t \in Terminals, UnderWay(t) # <<>>, UNCHANGED used,
         UnderWay(t)' = Tail(UnderWay(t)), Given(t)' = Append(Given(t), Head(UnderWay(t))),
         \A q \in Terminals : q # t => KeepsUnderWay(q) /\ KeepsGiven(q),
         \A q \in Terminals : KeepsConnection(q) /\ KeepsBound(q)
  PROVE  Channel!Next
<1>1. [q \in Terminals |-> UnderWay(q)]' =
        [[q \in Terminals |-> UnderWay(q)] EXCEPT ![t] = Tail(@)]
  BY DEF KeepsUnderWay
<1>2. [q \in Terminals |-> Given(q)]' =
        [[q \in Terminals |-> Given(q)] EXCEPT ![t] = Append(@, Head(UnderWay(t)))]
  BY DEF KeepsGiven
<1>3. Channel!Deliver(t)
  BY <1>1, <1>2, ConnectionsKept, BoundsKept DEF Channel!Deliver
<1> QED BY <1>3 DEF Channel!Next

LEMMA ChannelBreaks ==
  ASSUME NEW ended \in SUBSET Terminals, ended # {}, UNCHANGED used,
         \A t \in ended : /\ link[t] = "up" /\ link'[t] # "up" /\ Bound(t)' = {}
                          /\ UnderWay(t)' \in Seq(Messages)
                          /\ Channel!IsPrefix(UnderWay(t)', UnderWay(t)),
         \A t \in Terminals \ ended : /\ KeepsConnection(t) /\ KeepsBound(t) /\ KeepsUnderWay(t)
                                      /\ UnderWay(t) \in Seq(Messages),
         \A t \in Terminals : KeepsGiven(t)
  PROVE  Channel!Next
<1>1. [q \in Terminals |-> UnderWay(q)]' \in [Terminals -> Seq(Messages)]
  BY DEF KeepsUnderWay
<1>2. [q \in Terminals |-> link[q] = "up"]' =
        [q \in Terminals |-> [r \in Terminals |-> link[r] = "up"][q] /\ q \notin ended]
  <2>1. \A q \in Terminals : (link'[q] = "up") = ((link[q] = "up") /\ q \notin ended)
    BY DEF KeepsConnection
  <2> QED BY <2>1
<1>3. [q \in Terminals |-> Bound(q)]' =
        [q \in Terminals |-> IF q \in ended THEN {} ELSE [r \in Terminals |-> Bound(r)][q]]
  BY DEF KeepsBound
<1>4. \A q \in Terminals :
        IF q \in ended THEN Channel!IsPrefix(UnderWay(q)', UnderWay(q)) ELSE UnderWay(q)' = UnderWay(q)
  BY DEF KeepsUnderWay
<1>5. \A q \in ended : [r \in Terminals |-> link[r] = "up"][q]
  OBVIOUS
<1>6. Channel!Break(ended)
  BY <1>1, <1>2, <1>3, <1>4, <1>5, GiftsKept DEF Channel!Break
<1> QED BY <1>6 DEF Channel!Next

ChannelStep == [Channel!Next]_(Channel!channelVars)

LEMMA ChannelPartsNext ==
  \A t \in Terminals : /\ UnderWay(t)' = WrittenOf(writes'[t]) \o OnLink(t)'
                       /\ Given(t)' = GivenOf(screen'[t])
                       /\ OnLink(t)' = IF owner'[NameOf[t]] = t /\ link'[t] = "up"
                                         THEN stream'[NameOf[t]] ELSE <<>>
BY DEF UnderWay, Given, WrittenOf, GivenOf, OnLink, Seconds, MsgItems, FirstUnits

LEMMA PartsTyped ==
  ASSUME IInv, NEW t \in Terminals
  PROVE  /\ NameOf[t] \in Agents /\ t # Nobody
         /\ writes[t] \in Seq(Item) /\ screen[t] \in Seq(Unit)
         /\ WrittenOf(writes[t]) \in Seq(Messages)
         /\ stream[NameOf[t]] \in Seq(Messages) /\ OnLink(t) \in Seq(Messages)
         /\ UnderWay(t) \in Seq(Messages)
         /\ UnderWay(t) = WrittenOf(writes[t]) \o OnLink(t)
         /\ Given(t) = GivenOf(screen[t])
<1>1. /\ NameOf[t] \in Agents /\ t # Nobody
      /\ writes[t] \in Seq(Item) /\ screen[t] \in Seq(Unit) /\ stream[NameOf[t]] \in Seq(Messages)
  BY NameAssumption DEF IInv, TerminalGood, TerminalTypeOK, SessionsGood, SessionsTyped
<1>2. WrittenOf(writes[t]) \in Seq(Messages)
  BY <1>1, WrittenType
<1>3. OnLink(t) \in Seq(Messages)
  BY <1>1, EmptySeq DEF OnLink
<1>4. UnderWay(t) \in Seq(Messages)
  BY <1>2, <1>3, ChannelParts, ConcatProperties
<1> QED BY <1>1, <1>2, <1>3, <1>4, ChannelParts

\* A sender holds a message for an agent's connection.
Holds(s, a, m) == inHand[s].live /\ inHand[s].to = a /\ Carried(s) = m

LEMMA WaitingIs ==
  ASSUME NEW a
  PROVE  /\ \A m : m \in Waiting(a) <=> m \in ToSet(soon[a]) \/ \E s \in Sender : Holds(s, a, m)
         /\ \A m : m \in Waiting(a)' <=> m \in ToSet(soon'[a]) \/ \E s \in Sender : Holds(s, a, m)'
BY DEF Waiting, Holds, Carried

LEMMA BoundIs ==
  \A t \in Terminals :
    /\ Bound(t) = IF owner[NameOf[t]] = t /\ link[t] = "up" THEN Waiting(NameOf[t]) ELSE {}
    /\ Bound(t)' = IF owner'[NameOf[t]] = t /\ link'[t] = "up" THEN Waiting(NameOf[t])' ELSE {}
BY DEF Bound

LEMMA HoldsStays ==
  ASSUME NEW s, inHand'[s] = inHand[s], NEW a, NEW m
  PROVE  Holds(s, a, m)' <=> Holds(s, a, m)
BY DEF Holds, Carried

LEMMA WaitingStays ==
  ASSUME UNCHANGED <<soon, inHand>>, NEW a
  PROVE  Waiting(a)' = Waiting(a)
BY DEF Waiting

LEMMA BoundStays ==
  ASSUME UNCHANGED <<owner, link, soon, inHand>>, NEW t \in Terminals
  PROVE  KeepsBound(t) /\ KeepsConnection(t)
BY BoundIs, WaitingStays DEF KeepsBound, KeepsConnection

LEMMA LinkStays ==
  ASSUME UNCHANGED <<owner, link, stream>>, NEW t \in Terminals
  PROVE  OnLink(t)' = OnLink(t)
BY DEF OnLink

\* Nothing the channel speaks of changes.
LEMMA QuietOnChannel ==
  ASSUME UNCHANGED <<owner, link, stream, writes, screen, used, soon, inHand>>
  PROVE  ChannelStep
<1>1. \A t \in Terminals : KeepsBound(t) /\ KeepsConnection(t)
  BY BoundStays
<1>2. \A t \in Terminals : KeepsUnderWay(t) /\ KeepsGiven(t)
  BY ChannelParts, ChannelPartsNext, LinkStays DEF KeepsUnderWay, KeepsGiven
<1> QED BY <1>1, <1>2, ChannelStutters DEF ChannelStep

\* The keyboard queues what is no message.
LEMMA QueuedNoMessage ==
  ASSUME IInv, NEW t \in Terminals, NEW item \in Item \ MsgItems, Queue(t, item),
         UNCHANGED <<screen, used>>,
         \A q \in Terminals : OnLink(q)' = OnLink(q) /\ KeepsBound(q) /\ KeepsConnection(q)
  PROVE  ChannelStep
<1>1. writes'[t] = Append(writes[t], item) /\ \A q \in Terminals : q # t => writes'[q] = writes[q]
  BY DEF Queue, IInv, TerminalGood, TerminalTypeOK
<1>2. WrittenOf(Append(writes[t], item)) = WrittenOf(writes[t])
  BY PartsTyped, WrittenAppend
<1>3. \A q \in Terminals : KeepsUnderWay(q) /\ KeepsGiven(q)
  BY <1>1, <1>2, ChannelParts, ChannelPartsNext DEF KeepsUnderWay, KeepsGiven
<1> QED BY <1>3, ChannelStutters DEF ChannelStep

LEMMA TypesOnChannel ==
  ASSUME IInv, NEW t \in Terminals, Types(t)
  PROVE  ChannelStep
<1>1. Queue(t, Key) /\ UNCHANGED <<screen, link, owner, stream, used, soon, inHand>>
  BY DEF Types, TypeKey, serverVars
<1>2. \A q \in Terminals : OnLink(q)' = OnLink(q) /\ KeepsBound(q) /\ KeepsConnection(q)
  BY <1>1, LinkStays, BoundStays
<1> QED BY <1>1, <1>2, QueuedNoMessage, Units, MessageItems

LEMMA EnterOnChannel ==
  ASSUME IInv, NEW t \in Terminals, WriteEnter(t), UNCHANGED serverVars
  PROVE  ChannelStep
<1>1. PICK m \in Messages : writer[t] = Enter(m) /\ Operation[m] \in Ends
  BY DEF WriteEnter, IInv, TerminalGood, ScreenGood, TextWritten
<1>2. /\ screen' = [screen EXCEPT ![t] = Append(@, Enter(m))]
      /\ UNCHANGED <<link, writes, owner, stream, used, soon, inHand>>
  BY <1>1 DEF WriteEnter, Prints, serverVars
<1>3. /\ screen'[t] = Append(screen[t], Enter(m))
      /\ \A q \in Terminals : q # t => screen'[q] = screen[q]
  BY <1>2 DEF IInv, TerminalGood, TerminalTypeOK
<1>4. GivenOf(Append(screen[t], Enter(m))) = GivenOf(screen[t])
  BY <1>1, PartsTyped, Units, MessageItems, GivenAppend
<1>5. \A q \in Terminals : KeepsBound(q) /\ KeepsConnection(q)
  BY <1>2, BoundStays
<1>6. \A q \in Terminals : KeepsUnderWay(q) /\ KeepsGiven(q)
  BY <1>2, <1>3, <1>4, ChannelParts, ChannelPartsNext, LinkStays DEF KeepsUnderWay, KeepsGiven
<1> QED BY <1>2, <1>5, <1>6, ChannelStutters DEF ChannelStep

LEMMA ItemOnChannel ==
  ASSUME IInv, NEW t \in Terminals, WriteItem(t), UNCHANGED serverVars
  PROVE  ChannelStep
<1>1. /\ writes[t] # <<>> /\ writes' = [writes EXCEPT ![t] = Tail(@)]
      /\ UNCHANGED <<link, owner, stream, used, soon, inHand>>
  BY DEF WriteItem, serverVars
<1>2. writes[t] \in Seq(Item) /\ screen[t] \in Seq(Unit)
  BY PartsTyped
<1>3. writes'[t] = Tail(writes[t]) /\ \A q \in Terminals : q # t => writes'[q] = writes[q]
  BY <1>1 DEF IInv, TerminalGood, TerminalTypeOK
<1>4. \A q \in Terminals : KeepsBound(q) /\ KeepsConnection(q)
  BY <1>1, BoundStays
<1> DEFINE item == Head(writes[t])
<1>5. item \in Item
  BY <1>1, <1>2, HeadTailProperties
<1>6. CASE item \in {Key, Error}
  <2>1. screen' = screen \/ screen' = [screen EXCEPT ![t] = Append(@, Key)]
    BY <1>6, Units DEF WriteItem, Prints
  <2>2. GivenOf(screen'[t]) = GivenOf(screen[t]) /\ \A q \in Terminals : q # t => screen'[q] = screen[q]
    <3>1. GivenOf(Append(screen[t], Key)) = GivenOf(screen[t])
      BY <1>2, Units, MessageItems, GivenAppend
    <3>2. screen'[t] = screen[t] \/ screen'[t] = Append(screen[t], Key)
      BY <2>1 DEF IInv, TerminalGood, TerminalTypeOK
    <3>3. \A q \in Terminals : q # t => screen'[q] = screen[q]
      BY <2>1 DEF IInv, TerminalGood, TerminalTypeOK
    <3> QED BY <3>1, <3>2, <3>3
  <2>3. WrittenOf(Tail(writes[t])) = WrittenOf(writes[t])
    BY <1>1, <1>2, <1>6, MessageItems, WrittenTail
  <2>4. \A q \in Terminals : KeepsUnderWay(q) /\ KeepsGiven(q)
    <3>1. ASSUME NEW q \in Terminals
          PROVE  WrittenOf(writes'[q]) = WrittenOf(writes[q]) /\ GivenOf(screen'[q]) = GivenOf(screen[q])
      BY <1>3, <2>2, <2>3
    <3>2. ASSUME NEW q \in Terminals PROVE OnLink(q)' = OnLink(q)
      BY <1>1, LinkStays
    <3> QED BY <3>1, <3>2, ChannelParts, ChannelPartsNext DEF KeepsUnderWay, KeepsGiven
  <2> QED BY <1>1, <1>4, <2>4, ChannelStutters DEF ChannelStep
<1>7. CASE item \notin {Key, Error}
  <2> DEFINE m == item[2]
  <2>1. m \in Messages /\ item = Msg(m)
    BY <1>5, <1>7, ItemIsMessage
  <2>2. screen' = [screen EXCEPT ![t] = Append(@, FirstUnit(m))]
    BY <1>7 DEF WriteItem, Prints
  <2> HIDE DEF m
  <2>3. /\ WrittenOf(writes[t]) # <<>> /\ Head(WrittenOf(writes[t])) = m
        /\ WrittenOf(Tail(writes[t])) = Tail(WrittenOf(writes[t]))
    BY <1>1, <1>2, <2>1, WrittenTail
  <2>4. /\ screen'[t] = Append(screen[t], FirstUnit(m))
        /\ \A q \in Terminals : q # t => screen'[q] = screen[q]
    BY <2>2 DEF IInv, TerminalGood, TerminalTypeOK
  <2>5. GivenOf(Append(screen[t], FirstUnit(m))) = Append(GivenOf(screen[t]), m)
    BY <1>2, <2>1, FirstPrinted, GivenAppend
  <2>6. /\ UnderWay(t) # <<>> /\ Head(UnderWay(t)) = m
        /\ Tail(UnderWay(t)) = Tail(WrittenOf(writes[t])) \o OnLink(t)
    <3> DEFINE w == WrittenOf(writes[t])
               q == OnLink(t)
    <3>1. w \in Seq(Messages) /\ q \in Seq(Messages) /\ UnderWay(t) = w \o q
      BY PartsTyped
    <3>2. w # <<>> /\ Head(w) = m
      BY <2>3
    <3> HIDE DEF w, q
    <3>3. w \o q # <<>> /\ Head(w \o q) = Head(w) /\ Tail(w \o q) = Tail(w) \o q
      BY <3>1, <3>2, ConcatTail
    <3> QED BY <3>1, <3>2, <3>3 DEF w, q
  <2>7. UnderWay(t)' = Tail(UnderWay(t)) /\ Given(t)' = Append(Given(t), Head(UnderWay(t)))
    <3>1. OnLink(t)' = OnLink(t)
      BY <1>1, LinkStays
    <3>2. UnderWay(t)' = WrittenOf(Tail(writes[t])) \o OnLink(t)
      BY <1>3, <3>1, ChannelPartsNext
    <3>3. Given(t)' = Append(GivenOf(screen[t]), m) /\ Given(t) = GivenOf(screen[t])
      BY <2>4, <2>5, ChannelParts, ChannelPartsNext
    <3> QED BY <2>3, <2>6, <3>2, <3>3
  <2>8. \A q \in Terminals : q # t => KeepsUnderWay(q) /\ KeepsGiven(q)
    BY <1>1, <1>3, <2>4, ChannelParts, ChannelPartsNext, LinkStays DEF KeepsUnderWay, KeepsGiven
  <2> QED BY <1>1, <1>4, <2>6, <2>7, <2>8, ChannelDelivers DEF ChannelStep
<1> QED BY <1>6, <1>7

LEMMA ReadsOnChannel ==
  ASSUME IInv, NEW t \in Terminals, Reads(t)
  PROVE  ChannelStep
<1> DEFINE a == NameOf[t]
           m == Head(stream[a])
<1>1. /\ a \in Agents /\ owner[a] = t /\ stream[a] # <<>> /\ link[t] = "up"
      /\ Queue(t, Msg(m)) /\ stream' = [stream EXCEPT ![a] = Tail(@)]
      /\ UNCHANGED <<screen, link, owner, used, soon, inHand>>
  BY PartsTyped DEF Reads, Receives
<1>2. stream[a] \in Seq(Messages) /\ m \in Messages
  BY <1>1, PartsTyped, HeadTailProperties
<1>3. /\ writes'[t] = Append(writes[t], Msg(m)) /\ \A q \in Terminals : q # t => writes'[q] = writes[q]
      /\ stream'[a] = Tail(stream[a]) /\ \A b \in Agents : b # a => stream'[b] = stream[b]
  BY <1>1 DEF Queue, IInv, TerminalGood, TerminalTypeOK, SessionsGood, SessionsTyped
<1>4. OnLink(t) = stream[a] /\ OnLink(t)' = Tail(stream[a])
  BY <1>1, <1>3, ChannelPartsNext DEF OnLink
<1>5. \A q \in Terminals : q # t => OnLink(q)' = OnLink(q)
  BY <1>1, <1>3, ChannelPartsNext, PartsTyped DEF OnLink
<1>6. WrittenOf(Append(writes[t], Msg(m))) = Append(WrittenOf(writes[t]), m)
  BY <1>2, PartsTyped, Units, WrittenAppend
<1>7. Append(WrittenOf(writes[t]), m) \o Tail(stream[a]) = WrittenOf(writes[t]) \o stream[a]
  BY <1>1, <1>2, PartsTyped, MovedAlong
<1>8. \A q \in Terminals : KeepsBound(q) /\ KeepsConnection(q)
  BY <1>1, BoundStays
<1> HIDE DEF m, a
<1>9. KeepsUnderWay(t)
  BY <1>3, <1>4, <1>6, <1>7, ChannelParts, ChannelPartsNext DEF KeepsUnderWay
<1>10. \A q \in Terminals : q # t => KeepsUnderWay(q)
  BY <1>3, <1>5, ChannelParts, ChannelPartsNext DEF KeepsUnderWay
<1>11. \A q \in Terminals : KeepsGiven(q)
  BY <1>1, ChannelParts, ChannelPartsNext DEF KeepsGiven
<1> QED BY <1>1, <1>8, <1>9, <1>10, <1>11, ChannelStutters DEF ChannelStep

LEMMA ConnectOnChannel ==
  ASSUME IInv, NEW t \in Terminals, Connect(t)
  PROVE  ChannelStep
<1> DEFINE a == NameOf[t]
<1>1. a \in Agents /\ t # Nobody /\ link[t] = "none"
  BY PartsTyped DEF Connect, Wants
<1>2. CASE owner[a] # Nobody
  <2>1. /\ Queue(t, Error) /\ link' = [link EXCEPT ![t] = "refused"]
        /\ UNCHANGED <<screen, owner, stream, used, soon, inHand>>
    BY <1>2 DEF Connect, IsRefused, serverVars
  <2>2. \A q \in Terminals : KeepsConnection(q)
    BY <1>1, <2>1 DEF KeepsConnection, IInv, TerminalGood, TerminalTypeOK
  <2>3. \A q \in Terminals : OnLink(q)' = OnLink(q)
    BY <2>1, <2>2, ChannelPartsNext DEF OnLink, KeepsConnection
  <2>4. \A q \in Terminals : KeepsBound(q)
    BY <2>1, <2>2, BoundIs, WaitingStays DEF KeepsBound, KeepsConnection
  <2> QED BY <2>1, <2>2, <2>3, <2>4, QueuedNoMessage, Units, MessageItems
<1>3. CASE owner[a] = Nobody
  <2>1. /\ owner' = [owner EXCEPT ![a] = t] /\ link' = [link EXCEPT ![t] = "up"]
        /\ UNCHANGED <<writes, screen, stream, used, soon, inHand>>
    BY <1>3 DEF Connect, Connects
  <2>2. /\ owner'[a] = t /\ \A b \in Agents : b # a => owner'[b] = owner[b]
        /\ link'[t] = "up" /\ \A q \in Terminals : q # t => link'[q] = link[q]
    BY <1>1, <2>1 DEF IInv, TerminalGood, TerminalTypeOK, SessionsGood, SessionsTyped
  <2>3. stream[a] = <<>> /\ Waiting(a) = {}
    <3>1. stream[a] = <<>> /\ soon[a] = <<>> /\ \A s \in Sender : ~(inHand[s].live /\ inHand[s].to = a)
      BY <1>1, <1>3 DEF IInv, SessionsGood, QueuesOwned
    <3> QED BY <3>1, EmptyQueue, WaitingIs DEF Holds
  <2>4. OnLink(t)' = OnLink(t) /\ KeepsBound(t)
    <3>1. OnLink(t)' = OnLink(t)
      BY <1>1, <2>1, <2>3, ChannelPartsNext DEF OnLink
    <3>2. Waiting(a)' = {} /\ Bound(t) = {}
      BY <1>1, <2>1, <2>3, WaitingStays, BoundIs
    <3> QED BY <3>1, <3>2, BoundIs DEF KeepsBound
  <2>5. ASSUME NEW q \in Terminals, q # t PROVE OnLink(q)' = OnLink(q) /\ KeepsBound(q)
    <3>1. CASE NameOf[q] = a
      <4>1. owner[NameOf[q]] # q /\ owner'[NameOf[q]] # q
        BY <1>3, <2>2, <2>5, <3>1, PartsTyped
      <4> QED BY <4>1, ChannelPartsNext, BoundIs DEF OnLink, KeepsBound
    <3>2. CASE NameOf[q] # a
      <4>1. owner'[NameOf[q]] = owner[NameOf[q]] /\ link'[q] = link[q]
        BY <2>2, <2>5, <3>2, PartsTyped
      <4>2. Waiting(NameOf[q])' = Waiting(NameOf[q])
        BY <2>1, WaitingStays
      <4> QED BY <2>1, <4>1, <4>2, ChannelPartsNext, BoundIs DEF OnLink, KeepsBound
    <3> QED BY <3>1, <3>2
  <2>6. \A q \in Terminals : KeepsUnderWay(q) /\ KeepsGiven(q)
    BY <2>1, <2>4, <2>5, ChannelParts, ChannelPartsNext DEF KeepsUnderWay, KeepsGiven
  <2>7. \A q \in Terminals : q # t => KeepsConnection(q)
    BY <2>2 DEF KeepsConnection
  <2> QED BY <1>1, <2>1, <2>2, <2>4, <2>5, <2>6, <2>7, ChannelConnects DEF ChannelStep
<1> QED BY <1>2, <1>3

\* Connections end, for some terminals; what was on them, or bound for them, is lost.
LEMMA LossOnChannel ==
  ASSUME IInv, NEW ended \in SUBSET Terminals, UNCHANGED <<writes, screen, used>>,
         \A t \in ended : link[t] = "up" /\ link'[t] # "up",
         \A t \in Terminals \ ended : OnLink(t)' = OnLink(t) /\ KeepsBound(t) /\ KeepsConnection(t)
  PROVE  ChannelStep
<1>1. \A t \in Terminals : KeepsGiven(t)
  BY ChannelParts, ChannelPartsNext DEF KeepsGiven
<1>2. \A t \in Terminals \ ended : KeepsUnderWay(t)
  BY ChannelParts, ChannelPartsNext DEF KeepsUnderWay
<1>3. CASE ended = {}
  BY <1>1, <1>2, <1>3, ChannelStutters DEF ChannelStep
<1>4. CASE ended # {}
  <2>1. ASSUME NEW t \in ended
        PROVE  /\ UnderWay(t)' \in Seq(Messages) /\ Bound(t)' = {}
               /\ Channel!IsPrefix(UnderWay(t)', UnderWay(t))
    <3> DEFINE w == WrittenOf(writes[t])
    <3>1. w \in Seq(Messages) /\ OnLink(t) \in Seq(Messages) /\ UnderWay(t) = w \o OnLink(t)
      BY <2>1, PartsTyped
    <3>2. w \o <<>> = w
      BY <3>1, ConcatEmptySeq
    <3>3. link'[t] # "up" /\ t \in Terminals
      BY <2>1
    <3>4. UnderWay(t)' = w /\ Bound(t)' = {}
      BY <3>2, <3>3, ChannelPartsNext, BoundIs
    <3> HIDE DEF w
    <3>5. Channel!IsPrefix(w, UnderWay(t))
      BY <3>1, PrefixesOf
    <3> QED BY <3>1, <3>4, <3>5
  <2>2. \A t \in Terminals \ ended : UnderWay(t) \in Seq(Messages)
    BY PartsTyped
  <2> QED BY <1>1, <1>2, <1>4, <2>1, <2>2, ChannelBreaks DEF ChannelStep
<1> QED BY <1>3, <1>4

LEMMA NothingLost ==
  ASSUME IInv, UNCHANGED <<writes, screen, used>>,
         \A t \in Terminals : OnLink(t)' = OnLink(t) /\ KeepsBound(t) /\ KeepsConnection(t)
  PROVE  ChannelStep
<1>1. {} \in SUBSET Terminals /\ \A t \in {} : link[t] = "up" /\ link'[t] # "up"
  OBVIOUS
<1> QED BY <1>1, LossOnChannel

LEMMA BreaksOnChannel ==
  ASSUME IInv, NEW t \in Terminals, Breaks(t)
  PROVE  ChannelStep
<1>1. /\ link[t] = "up" /\ link' = [link EXCEPT ![t] = "none"]
      /\ UNCHANGED <<writes, screen, owner, stream, used, soon, inHand>>
  BY DEF Breaks, LinkEnds, serverVars
<1>2. link'[t] = "none" /\ \A q \in Terminals : q # t => link'[q] = link[q]
  BY <1>1 DEF IInv, TerminalGood, TerminalTypeOK
<1>3. ASSUME NEW q \in Terminals \ {t}
      PROVE  OnLink(q)' = OnLink(q) /\ KeepsBound(q) /\ KeepsConnection(q)
  BY <1>1, <1>2, ChannelPartsNext, BoundIs, WaitingStays DEF OnLink, KeepsBound, KeepsConnection
<1>4. {t} \in SUBSET Terminals /\ \A q \in {t} : link[q] = "up" /\ link'[q] # "up"
  BY <1>1, <1>2
<1> QED BY <1>1, <1>3, <1>4, LossOnChannel

LEMMA DisconnectOnChannel ==
  ASSUME IInv, NEW t \in Terminals, Disconnect(t)
  PROVE  ChannelStep
<1> DEFINE a == NameOf[t]
<1>1. /\ owner' = [owner EXCEPT ![a] = Nobody] /\ stream' = [stream EXCEPT ![a] = <<>>]
      /\ soon' = [soon EXCEPT ![a] = <<>>] /\ inHand' = [s \in Sender |-> Orphan(inHand[s], a)]
      /\ a \in Agents /\ owner[a] = t /\ link[t] # "up"
      /\ UNCHANGED <<writes, screen, link, used>>
  BY PartsTyped DEF Disconnect, terminalVars
<1>2. /\ owner'[a] = Nobody /\ \A b \in Agents : b # a => owner'[b] = owner[b] /\ stream'[b] = stream[b]
      /\ soon'[a] = <<>> /\ \A b \in Agents : b # a => soon'[b] = soon[b]
  BY <1>1 DEF IInv, SessionsGood, SessionsTyped
<1>3. ASSUME NEW b \in Agents, b # a PROVE Waiting(b)' = Waiting(b)
  <2>1. ASSUME NEW s \in Sender, NEW m PROVE Holds(s, b, m)' <=> Holds(s, b, m)
    <3>1. /\ inHand'[s].msg = inHand[s].msg /\ inHand'[s].to = inHand[s].to
      BY <1>1, Orphans DEF IInv, SessionsGood, Carried
    <3>2. inHand[s].to = b => inHand'[s] = inHand[s]
      BY <1>1, <1>3 DEF Orphan
    <3> QED BY <3>1, <3>2 DEF Holds, Carried
  <2>2. soon'[b] = soon[b]
    BY <1>2, <1>3
  <2>3. \A m : m \in Waiting(b)' <=> m \in Waiting(b)
    BY <2>1, <2>2, WaitingIs
  <2> QED BY <2>3
<1>4. ASSUME NEW q \in Terminals PROVE OnLink(q)' = OnLink(q) /\ KeepsBound(q)
  <2>1. CASE NameOf[q] = a
    <3>1. ~(owner[NameOf[q]] = q /\ link[q] = "up") /\ owner'[NameOf[q]] # q
      BY <1>1, <1>2, <2>1, PartsTyped
    <3> QED BY <3>1, ChannelPartsNext, BoundIs DEF OnLink, KeepsBound
  <2>2. CASE NameOf[q] # a
    <3>1. NameOf[q] \in Agents
      BY PartsTyped
    <3> QED BY <1>1, <1>2, <1>3, <2>2, <3>1, ChannelPartsNext, BoundIs DEF OnLink, KeepsBound
  <2> QED BY <2>1, <2>2
<1>5. \A q \in Terminals : KeepsConnection(q)
  BY <1>1 DEF KeepsConnection
<1> QED BY <1>1, <1>4, <1>5, NothingLost

LEMMA LooksUpOnChannel ==
  ASSUME IInv, NEW s \in Sender, NEW a \in Agents, NEW m \in Messages, LooksUp(s, a, m)
  PROVE  ChannelStep
<1>1. /\ inHand[s] = NotHolding /\ m \notin used /\ used' = used \cup {m} /\ owner[a] # Nobody
      /\ inHand' = [inHand EXCEPT ![s] = Holding(a, m, TRUE)]
      /\ UNCHANGED <<owner, link, stream, writes, screen, soon>>
  BY DEF LooksUp, terminalVars
<1>2. PICK t \in Terminals : t = owner[a] /\ NameOf[t] = a
  BY <1>1 DEF IInv, SessionsGood, SessionsTyped, QueuesOwned
<1>3. /\ ~inHand[s].live /\ inHand'[s] = Holding(a, m, TRUE)
      /\ \A r \in Sender : r # s => inHand'[r] = inHand[r]
  BY <1>1 DEF IInv, SessionsGood, SessionsTyped, NotHolding
<1>4. ASSUME NEW b
      PROVE  Waiting(b)' = IF b = a THEN Waiting(b) \cup {m} ELSE Waiting(b)
  <2>1. \A n : Holds(s, b, n)' <=> b = a /\ n = m
    BY <1>3 DEF Holds, Carried, Holding
  <2>2. \A n : ~Holds(s, b, n)
    BY <1>3 DEF Holds
  <2>3. \A r \in Sender : r # s => \A n : Holds(r, b, n)' <=> Holds(r, b, n)
    BY <1>3, HoldsStays
  <2>4. \A n : n \in Waiting(b)' <=> n \in Waiting(b) \/ (b = a /\ n = m)
    BY <1>1, <2>1, <2>2, <2>3, WaitingIs
  <2> QED BY <2>4
<1>5. Bound(t)' = IF link[t] = "up" THEN Bound(t) \cup {m} ELSE Bound(t)
  BY <1>1, <1>2, <1>4, BoundIs
<1>6. \A q \in Terminals : q # t => KeepsBound(q)
  BY <1>1, <1>2, <1>4, BoundIs DEF KeepsBound
<1>7. \A q \in Terminals : KeepsConnection(q) /\ KeepsUnderWay(q) /\ KeepsGiven(q)
  BY <1>1, ChannelParts, ChannelPartsNext, LinkStays DEF KeepsConnection, KeepsUnderWay, KeepsGiven
<1> QED BY <1>1, <1>5, <1>6, <1>7, ChannelSends DEF ChannelStep

\* A message that waits for a's connection is put in its queue: it is accepted if the
\* link is up still, and was lost when the link ended otherwise.
LEMMA PutOnChannel ==
  ASSUME IInv, NEW a \in Agents, owner[a] # Nobody, NEW m \in Messages,
         stream' = [stream EXCEPT ![a] = Append(@, m)],
         m \in Waiting(a), Waiting(a)' = Waiting(a) \ {m},
         \A b \in Agents : b # a => Waiting(b)' = Waiting(b),
         UNCHANGED <<owner, link, writes, screen, used>>
  PROVE  ChannelStep
<1>1. PICK t \in Terminals : t = owner[a] /\ NameOf[t] = a
  BY DEF IInv, SessionsGood, SessionsTyped, QueuesOwned
<1>2. stream'[a] = Append(stream[a], m) /\ \A b \in Agents : b # a => stream'[b] = stream[b]
  BY DEF IInv, SessionsGood, SessionsTyped
<1>3. ASSUME NEW q \in Terminals, q # t PROVE OnLink(q)' = OnLink(q) /\ KeepsBound(q)
  <2>1. CASE NameOf[q] = a
    BY <1>1, <1>3, <2>1, ChannelPartsNext, BoundIs DEF OnLink, KeepsBound
  <2>2. CASE NameOf[q] # a
    BY <1>2, <2>2, PartsTyped, ChannelPartsNext, BoundIs DEF OnLink, KeepsBound
  <2> QED BY <2>1, <2>2
<1>4. \A q \in Terminals : KeepsConnection(q) /\ KeepsGiven(q)
  BY ChannelParts, ChannelPartsNext DEF KeepsConnection, KeepsGiven
<1>5. \A q \in Terminals : q # t => KeepsUnderWay(q) /\ KeepsBound(q)
  BY <1>3, ChannelParts, ChannelPartsNext DEF KeepsUnderWay
<1>6. CASE link[t] = "up"
  <2>1. OnLink(t) = stream[a] /\ OnLink(t)' = Append(stream[a], m)
    BY <1>1, <1>2, <1>6, ChannelPartsNext DEF OnLink
  <2>2. UnderWay(t)' = Append(UnderWay(t), m)
    <3>1. /\ WrittenOf(writes[t]) \in Seq(Messages) /\ stream[a] \in Seq(Messages)
          /\ UnderWay(t) = WrittenOf(writes[t]) \o stream[a]
      BY <1>1, <2>1, PartsTyped
    <3>2. WrittenOf(writes[t]) \o Append(stream[a], m) = Append(WrittenOf(writes[t]) \o stream[a], m)
      <4> DEFINE w == WrittenOf(writes[t])
                 q == stream[a]
      <4>1. w \in Seq(Messages) /\ q \in Seq(Messages)
        BY <3>1
      <4> HIDE DEF w, q
      <4>2. w \o Append(q, m) = Append(w \o q, m)
        BY <4>1, ConcatAppend
      <4> QED BY <4>2 DEF w, q
    <3> QED BY <1>1, <2>1, <3>1, <3>2, ChannelPartsNext
  <2>3. m \in Bound(t) /\ Bound(t)' = Bound(t) \ {m}
    BY <1>1, <1>6, BoundIs
  <2> QED BY <1>1, <1>4, <1>5, <1>6, <2>2, <2>3, ChannelAccepts DEF ChannelStep
<1>7. CASE link[t] # "up"
  <2>1. OnLink(t)' = OnLink(t) /\ KeepsBound(t)
    BY <1>1, <1>7, ChannelPartsNext, BoundIs DEF OnLink, KeepsBound
  <2>2. \A q \in Terminals : OnLink(q)' = OnLink(q) /\ KeepsBound(q) /\ KeepsConnection(q)
    BY <1>3, <1>4, <2>1
  <2> QED BY <2>2, NothingLost
<1> QED BY <1>6, <1>7

LEMMA HandsOverOnChannel ==
  ASSUME IInv, NEW s \in Sender, HandsOver(s)
  PROVE  ChannelStep
<1> DEFINE live == inHand[s].live
<1>0. PICK a \in Agents, m \in Messages : a = inHand[s].to /\ m = Carried(s)
  BY Hands DEF HandsOver, IInv, SessionsGood
<1>1. /\ a \in Agents /\ m \in Messages /\ m # Nobody
      /\ live => owner[a] # Nobody
  BY <1>0, NameAssumption DEF IInv, SessionsGood, QueuesOwned
<1>2. /\ inHand' = [inHand EXCEPT ![s] = NotHolding]
      /\ UNCHANGED <<owner, link, writes, screen, used>>
      /\ live /\ s = "engine" => soon' = [soon EXCEPT ![a] = Append(@, m)] /\ stream' = stream
      /\ live /\ s = "post" => stream' = [stream EXCEPT ![a] = Append(@, m)] /\ soon' = soon
      /\ ~live => soon' = soon /\ stream' = stream
  BY <1>0 DEF HandsOver, Carried, terminalVars
<1>3. /\ \A b \in Agents : m \notin ToSet(soon[b])
      /\ \A r \in Sender : r # s => Carried(r) # m
  BY <1>0, <1>1 DEF IInv, SessionsGood, OnePlace
<1>4. inHand'[s] = NotHolding /\ \A r \in Sender : r # s => inHand'[r] = inHand[r]
  BY <1>2 DEF IInv, SessionsGood, SessionsTyped
<1>5. /\ \A b, n : ~Holds(s, b, n)'
      /\ \A r \in Sender : r # s => \A b, n : Holds(r, b, n)' <=> Holds(r, b, n)
  BY <1>4, HoldsStays DEF Holds, NotHolding
<1>6. \A b, n : Holds(s, b, n) <=> live /\ b = a /\ n = m
  BY <1>0 DEF Holds
<1>7. \A r \in Sender : r # s => \A b : ~Holds(r, b, m)
  BY <1>3 DEF Holds
<1> HIDE DEF live
<1>8. CASE live /\ s = "engine"
  <2>1. /\ soon'[a] = Append(soon[a], m) /\ \A b \in Agents : b # a => soon'[b] = soon[b]
        /\ soon[a] \in Seq(Messages)
    BY <1>1, <1>2, <1>8 DEF IInv, SessionsGood, SessionsTyped
  <2>2. ToSet(soon'[a]) = ToSet(soon[a]) \cup {m}
    BY <1>1, <2>1, SetOfAppend
  <2>3. ASSUME NEW b \in Agents PROVE Waiting(b)' = Waiting(b)
    <3>1. \A n : n \in ToSet(soon'[b]) <=> n \in ToSet(soon[b]) \/ (b = a /\ n = m)
      BY <2>1, <2>2
    <3>2. \A n : n \in Waiting(b)' <=> n \in Waiting(b)
      BY <1>5, <1>6, <1>8, <3>1, WaitingIs
    <3> QED BY <3>2
  <2>4. \A t \in Terminals : KeepsBound(t)
    BY <1>2, <2>3, PartsTyped, BoundIs DEF KeepsBound
  <2>5. \A t \in Terminals : KeepsConnection(t) /\ OnLink(t)' = OnLink(t)
    BY <1>2, <1>8, LinkStays DEF KeepsConnection
  <2> QED BY <1>2, <2>4, <2>5, NothingLost
<1>9. CASE live /\ s = "post"
  <2>1. ASSUME NEW b \in Agents PROVE Waiting(b)' = Waiting(b) \ (IF b = a THEN {m} ELSE {})
    <3>1. \A n : n \in Waiting(b)' <=> n \in Waiting(b) /\ ~(b = a /\ n = m)
      BY <1>2, <1>3, <1>5, <1>6, <1>7, <1>9, WaitingIs
    <3> QED BY <3>1
  <2>2. m \in Waiting(a)
    BY <1>6, <1>9, WaitingIs
  <2>3. Waiting(a)' = Waiting(a) \ {m}
    BY <1>1, <2>1
  <2>4. ASSUME NEW b \in Agents, b # a PROVE Waiting(b)' = Waiting(b)
    <3>1. Waiting(b)' = Waiting(b) \ {}
      BY <2>1, <2>4
    <3> QED BY <3>1
  <2> QED BY <1>1, <1>2, <1>9, <2>2, <2>3, <2>4, PutOnChannel
<1>10. CASE ~live
  <2>1. ASSUME NEW b \in Agents PROVE Waiting(b)' = Waiting(b)
    <3>1. \A n : n \in Waiting(b)' <=> n \in Waiting(b)
      BY <1>2, <1>5, <1>6, <1>10, WaitingIs
    <3> QED BY <3>1
  <2>2. \A t \in Terminals : KeepsBound(t)
    BY <1>2, <2>1, PartsTyped, BoundIs DEF KeepsBound
  <2>3. \A t \in Terminals : KeepsConnection(t) /\ OnLink(t)' = OnLink(t)
    BY <1>2, <1>10, LinkStays DEF KeepsConnection
  <2> QED BY <1>2, <2>2, <2>3, NothingLost
<1> QED BY <1>8, <1>9, <1>10 DEF Sender

LEMMA LoopOnChannel ==
  ASSUME IInv, NEW a \in Agents, LoopPuts(a)
  PROVE  ChannelStep
<1> DEFINE q == soon[a]
           m == Head(q)
<1>1. /\ q # <<>> /\ soon' = [soon EXCEPT ![a] = Tail(q)]
      /\ stream' = [stream EXCEPT ![a] = Append(@, m)]
      /\ UNCHANGED <<owner, link, writes, screen, used, inHand>>
  BY DEF LoopPuts, terminalVars
<1>2. /\ q \in Seq(Messages) /\ IsInjective(q) /\ owner[a] # Nobody
      /\ \A s \in Sender : Carried(s) # Nobody => Carried(s) \notin ToSet(q)
  BY <1>1 DEF IInv, SessionsGood, SessionsTyped, QueuesOwned, OnePlace
<1> HIDE DEF q
<1>3. /\ m \in Messages /\ m \notin ToSet(Tail(q)) /\ ToSet(q) = {m} \cup ToSet(Tail(q))
  BY <1>1, <1>2, SetOfTail, InjectiveTail
<1>4. soon'[a] = Tail(q) /\ \A b \in Agents : b # a => soon'[b] = soon[b]
  BY <1>1 DEF IInv, SessionsGood, SessionsTyped
<1> HIDE DEF m
<1>5. \A s \in Sender, b \in Agents : ~Holds(s, b, m)
  BY <1>2, <1>3, NameAssumption DEF Holds
<1>6. \A s \in Sender : \A b, n : Holds(s, b, n)' <=> Holds(s, b, n)
  BY <1>1, HoldsStays
<1>7. m \in Waiting(a) /\ Waiting(a)' = Waiting(a) \ {m}
  <2>1. \A n : n \in ToSet(soon'[a]) <=> n \in ToSet(q) /\ n # m
    BY <1>3, <1>4
  <2>2. m \in Waiting(a)
    BY <1>3, WaitingIs DEF q
  <2>3. \A n : n \in Waiting(a)' <=> n \in Waiting(a) /\ n # m
    BY <1>5, <1>6, <2>1, WaitingIs DEF q
  <2> QED BY <2>2, <2>3
<1>8. ASSUME NEW b \in Agents, b # a PROVE Waiting(b)' = Waiting(b)
  <2>1. \A n : n \in Waiting(b)' <=> n \in Waiting(b)
    BY <1>4, <1>6, <1>8, WaitingIs
  <2> QED BY <2>1
<1> QED BY <1>1, <1>2, <1>3, <1>7, <1>8, PutOnChannel

LEMMA RestartOnChannel ==
  ASSUME IInv, Restart
  PROVE  ChannelStep
<1> DEFINE ended == {t \in Terminals : link[t] = "up"}
<1>1. /\ \A a \in Agents : owner'[a] = Nobody
      /\ link' = [t \in Terminals |-> IF link[t] = "up" THEN "none" ELSE link[t]]
      /\ UNCHANGED <<writes, screen, used>>
  BY DEF Restart, LinksLost
<1>2. \A t \in ended : link[t] = "up" /\ link'[t] # "up"
  BY <1>1
<1>3. ASSUME NEW t \in Terminals \ ended
      PROVE  OnLink(t)' = OnLink(t) /\ KeepsBound(t) /\ KeepsConnection(t)
  <2>1. link[t] # "up" /\ link'[t] # "up" /\ t \in Terminals
    BY <1>1, <1>3
  <2> QED BY <2>1, ChannelPartsNext, BoundIs DEF OnLink, KeepsBound, KeepsConnection
<1> HIDE DEF ended
<1>4. ended \in SUBSET Terminals
  BY DEF ended
<1> QED BY <1>1, <1>2, <1>3, <1>4, LossOnChannel

LEMMA Implements ==
  ASSUME IInv, [Next]_vars
  PROVE  ChannelStep
<1>1. CASE UNCHANGED vars
  BY <1>1, QuietOnChannel DEF vars, terminalVars, serverVars
<1>2. ASSUME NEW t \in Terminals, Starts(t) \/ Launches(t) \/ Exits(t) \/ FocusChanges(t)
      PROVE  ChannelStep
  <2>1. UNCHANGED <<owner, link, stream, writes, screen, used, soon, inHand>>
    BY <1>2 DEF Starts, Launches, Exits, FocusChanges, Preflight, Launch, ProgramExits, serverVars, terminalVars
  <2> QED BY <2>1, QuietOnChannel
<1>3. ASSUME NEW t \in Terminals, Writes(t) PROVE ChannelStep
  BY <1>3, EnterOnChannel, ItemOnChannel DEF Writes
<1>4. ASSUME NEW t \in Terminals,
             Types(t) \/ Reads(t) \/ Connect(t) \/ Breaks(t) \/ Disconnect(t)
      PROVE  ChannelStep
  BY <1>4, TypesOnChannel, ReadsOnChannel, ConnectOnChannel, BreaksOnChannel, DisconnectOnChannel
<1>5. ASSUME NEW a \in Agents, ReportArrives(a) PROVE ChannelStep
  BY <1>5, QuietOnChannel DEF ReportArrives, terminalVars, serverVars
<1>6. CASE Switches \/ Policy \/ TtsWorker
  BY <1>6, QuietOnChannel DEF Switches, Policy, TtsWorker, terminalVars, serverVars
<1>7. ASSUME NEW s \in Sender, HandsOver(s) \/ \E a \in Agents, m \in Messages : LooksUp(s, a, m)
      PROVE  ChannelStep
  BY <1>7, HandsOverOnChannel, LooksUpOnChannel
<1>8. ASSUME NEW a \in Agents, LoopPuts(a) PROVE ChannelStep
  BY <1>8, LoopOnChannel
<1> QED BY <1>1, <1>2, <1>3, <1>4, <1>5, <1>6, <1>7, <1>8, RestartOnChannel DEF Next

LEMMA StartsAsChannel ==
  ASSUME Init
  PROVE  Channel!Init
<1>1. IInv
  BY Starting
<1>2. used = {} /\ \A t \in Terminals : link[t] # "up" /\ Bound(t) = {}
  BY BoundIs DEF Init, TerminalInit
<1>3. ASSUME NEW t \in Terminals PROVE UnderWay(t) = <<>> /\ Given(t) = <<>>
  <2>1. NameOf[t] \in Agents /\ writes[t] = <<>> /\ screen[t] = <<>>
    BY NameAssumption DEF Init, TerminalInit
  <2>2. WrittenOf(writes[t]) = <<>> /\ GivenOf(screen[t]) = <<>> /\ OnLink(t) = <<>>
    BY <2>1, OnlyEmpty, SecondsEmpty DEF WrittenOf, GivenOf, OnLink, Init
  <2> QED BY <2>2, ChannelParts, EmptySeq, ConcatEmptySeq
<1> QED BY <1>2, <1>3 DEF Channel!Init

\* The sessions, queues and terminals implement the channel: what was sent to the live
\* connection of a terminal reaches its program in the order of acceptance, at most once,
\* and on no other terminal, and only the end of that connection may lose it.
THEOREM LinkImplementsChannel == Spec => ChannelSpec
<1>1. Init => Channel!Init
  BY StartsAsChannel
<1>2. IInv /\ [Next]_vars => [Channel!Next]_(Channel!channelVars)
  BY Implements DEF ChannelStep
<1> QED BY <1>1, <1>2, Inductive, PTL DEF Spec, ChannelSpec, Channel!Spec
=============================================================================
