----------------------------- MODULE ListProofs -----------------------------
(***************************************************************************)
(* Facts about the lists of Lists, for any list and any entries: what stays*)
(* on a list, in which order, and how one step of a list's owner changes   *)
(* what is kept of it.                                                     *)
(***************************************************************************)
EXTENDS Lists, SequencesExt, FiniteSetTheorems, FunctionTheorems, SequenceTheorems, TLAPS

\* g enumerates K from the smallest number to the largest.
Enumerates(g, n, K) ==
    /\ g \in [1 .. n -> K]
    /\ \A i, j \in 1 .. n : i < j => g[i] < g[j]
    /\ \A k \in K : \E i \in 1 .. n : g[i] = k

-----------------------------------------------------------------------------
(* Every finite set of numbers is enumerated by Nth.                       *)

LEMMA RankType ==
    ASSUME NEW K \in SUBSET Nat, IsFiniteSet(K), NEW i \in K
    PROVE  Rank(K, i) \in 1 .. Cardinality(K)
<1>1. IsFiniteSet({j \in K : j <= i}) /\ Cardinality({j \in K : j <= i}) <= Cardinality(K)
  BY FS_Subset
<1>2. {j \in K : j <= i} # {}
  <2>1. i \in Nat
    OBVIOUS
  <2>2. i \in {j \in K : j <= i}
    BY <2>1
  <2> QED
    BY <2>2
<1>3. /\ Cardinality({j \in K : j <= i}) \in Nat
      /\ Cardinality(K) \in Nat
      /\ Cardinality({j \in K : j <= i}) # 0
  BY <1>1, <1>2, FS_CardinalityType, FS_EmptySet
<1> QED
  BY <1>1, <1>3 DEF Rank

LEMMA RankIncreases ==
    ASSUME NEW K \in SUBSET Nat, IsFiniteSet(K), NEW i \in K, NEW j \in K, i < j
    PROVE  Rank(K, i) < Rank(K, j)
<1> DEFINE A == {k \in K : k <= i}
           B == {k \in K : k <= j}
<1>1. A \in SUBSET B /\ j \in B /\ j \notin A
  <2>1. /\ i \in Nat /\ j \in Nat /\ j <= j /\ ~(j <= i)
        /\ \A k \in K : k \in Nat /\ (k <= i => k <= j)
    OBVIOUS
  <2> QED
    BY <2>1
<1>2. IsFiniteSet(B)
  BY FS_Subset
<1>3. Cardinality(A) <= Cardinality(B) /\ Cardinality(A) # Cardinality(B)
  <2> HIDE DEF A, B
  <2> QED
    BY <1>1, <1>2, FS_Subset
<1>4. Cardinality(A) \in Nat /\ Cardinality(B) \in Nat
  <2> HIDE DEF A, B
  <2> QED
    BY <1>1, <1>2, FS_Subset, FS_CardinalityType
<1> QED
  BY <1>3, <1>4 DEF Rank

\* The n-th smallest exists, and there is no other.
LEMMA NthRank ==
    ASSUME NEW K \in SUBSET Nat, IsFiniteSet(K), NEW n \in 1 .. Cardinality(K)
    PROVE  Nth(K, n) \in K /\ Rank(K, Nth(K, n)) = n
<1> DEFINE c == Cardinality(K)
           r == [i \in K |-> Rank(K, i)]
<1>1. c \in Nat
  BY FS_CardinalityType
<1>2. r \in [K -> 1 .. c]
  BY RankType
<1>3. \A i, j \in K : r[i] = r[j] => i = j
  <2> SUFFICES ASSUME NEW i \in K, NEW j \in K, i # j
               PROVE  r[i] # r[j]
    OBVIOUS
  <2>1. i \in Nat /\ j \in Nat /\ r[i] \in Nat /\ r[j] \in Nat
    BY <1>1, <1>2
  <2>2. CASE i < j
    BY <2>1, <2>2, RankIncreases
  <2>3. CASE j < i
    BY <2>1, <2>3, RankIncreases
  <2> QED
    BY <2>1, <2>2, <2>3
<1>4. IsFiniteSet(1 .. c) /\ Cardinality(1 .. c) = c
  BY <1>1, FS_Interval
<1>5. r \in Injection(K, 1 .. c)
  <2> HIDE DEF r, c
  <2> QED
    BY <1>2, <1>3, Fun_IsInj
<1>6. r \in Surjection(K, 1 .. c)
  <2> HIDE DEF r
  <2> QED
    BY <1>4, <1>5, FS_Injection
<1>7. \E i \in K : r[i] = n
  BY <1>6 DEF Surjection
<1> QED
  BY <1>7 DEF Nth

LEMMA NthEnumerates ==
    ASSUME NEW K \in SUBSET Nat, IsFiniteSet(K)
    PROVE  /\ Cardinality(K) \in Nat
           /\ Enumerates([n \in 1 .. Cardinality(K) |-> Nth(K, n)], Cardinality(K), K)
<1> DEFINE c == Cardinality(K)
           g == [n \in 1 .. c |-> Nth(K, n)]
<1>1. c \in Nat
  BY FS_CardinalityType
<1>2. \A n \in 1 .. c : g[n] \in K /\ Rank(K, g[n]) = n
  BY NthRank
<1>3. \A m, n \in 1 .. c : m < n => g[m] < g[n]
  <2> SUFFICES ASSUME NEW m \in 1 .. c, NEW n \in 1 .. c, m < n, ~(g[m] < g[n])
               PROVE  FALSE
    OBVIOUS
  <2> HIDE DEF g
  <2>1. g[m] \in K /\ g[n] \in K /\ Rank(K, g[m]) = m /\ Rank(K, g[n]) = n
    BY <1>2
  <2>2. g[m] = g[n] \/ g[n] < g[m]
    <3>1. g[m] \in Nat /\ g[n] \in Nat
      BY <2>1
    <3> QED
      BY <3>1
  <2>3. CASE g[m] = g[n]
    BY <2>1, <2>3
  <2>4. CASE g[n] < g[m]
    <3>1. Rank(K, g[n]) < Rank(K, g[m])
      BY <2>1, <2>4, RankIncreases
    <3> QED
      BY <2>1, <3>1
  <2> QED
    BY <2>2, <2>3, <2>4
<1>4. \A k \in K : \E n \in 1 .. c : g[n] = k
  <2> SUFFICES ASSUME NEW k \in K
               PROVE  \E n \in 1 .. c : g[n] = k
    OBVIOUS
  <2> DEFINE m == Rank(K, k)
  <2>1. m \in 1 .. c
    BY RankType
  <2> HIDE DEF g
  <2>2. g[m] \in K /\ Rank(K, g[m]) = m
    BY <1>2, <2>1
  <2>3. ~(g[m] < k)
    <3> SUFFICES ASSUME g[m] < k PROVE FALSE
      OBVIOUS
    <3>1. Rank(K, g[m]) < Rank(K, k)
      BY <2>2, RankIncreases
    <3> QED
      BY <2>1, <2>2, <3>1
  <2>4. ~(k < g[m])
    <3> SUFFICES ASSUME k < g[m] PROVE FALSE
      OBVIOUS
    <3>1. Rank(K, k) < Rank(K, g[m])
      BY <2>2, RankIncreases
    <3> QED
      BY <2>1, <2>2, <3>1
  <2>5. g[m] = k
    <3>1. g[m] \in Nat /\ k \in Nat
      BY <2>2
    <3> QED
      BY <2>3, <2>4, <3>1
  <2> QED
    BY <2>1, <2>5
<1>5. g \in [1 .. c -> K]
  BY <1>2
<1> QED
  BY <1>1, <1>3, <1>4, <1>5 DEF Enumerates

\* It is the only enumeration.
LEMMA EnumerationIsNth ==
    ASSUME NEW K \in SUBSET Nat, NEW n \in Nat, NEW g, Enumerates(g, n, K)
    PROVE  /\ IsFiniteSet(K) /\ Cardinality(K) = n
           /\ \A i \in 1 .. n : g[i] = Nth(K, i)
<1>1. g \in Bijection(1 .. n, K)
  <2>1. \A i, j \in 1 .. n : g[i] = g[j] => i = j
    <3> SUFFICES ASSUME NEW i \in 1 .. n, NEW j \in 1 .. n, i # j
                 PROVE  g[i] # g[j]
      OBVIOUS
    <3>1. i < j \/ j < i
      OBVIOUS
    <3>2. g[i] \in Nat /\ g[j] \in Nat /\ (g[i] < g[j] \/ g[j] < g[i])
      BY <3>1 DEF Enumerates
    <3> QED
      BY <3>2
  <2> QED
    BY <2>1, Fun_IsBij DEF Enumerates
<1>2. IsFiniteSet(1 .. n) /\ Cardinality(1 .. n) = n
  BY FS_Interval
<1>3. IsFiniteSet(K) /\ Cardinality(K) = n
  BY <1>1, <1>2, FS_Bijection DEF ExistsBijection
<1>4. ASSUME NEW i \in 1 .. n PROVE Rank(K, g[i]) = i
  <2> DEFINE A == {k \in K : k <= g[i]}
             h == [m \in 1 .. i |-> g[m]]
  <2>1. i \in Nat /\ 1 .. i \subseteq 1 .. n
    OBVIOUS
  <2>2. \A m \in 1 .. i : g[m] \in A
    <3> SUFFICES ASSUME NEW m \in 1 .. i PROVE g[m] \in A
      OBVIOUS
    <3>1. m \in 1 .. n /\ (m = i \/ m < i)
      OBVIOUS
    <3>2. g[m] \in K /\ g[i] \in K /\ (m < i => g[m] < g[i])
      BY <3>1 DEF Enumerates
    <3>3. g[m] \in Nat /\ g[i] \in Nat
      BY <3>2
    <3> QED
      BY <3>1, <3>2, <3>3
  <2>3. \A k \in A : \E m \in 1 .. i : g[m] = k
    <3> SUFFICES ASSUME NEW k \in A PROVE \E m \in 1 .. i : g[m] = k
      OBVIOUS
    <3>1. PICK m \in 1 .. n : g[m] = k
      BY DEF Enumerates
    <3>2. g[m] \in Nat /\ g[i] \in Nat /\ g[m] <= g[i]
      BY <3>1 DEF Enumerates
    <3>3. ~(i < m)
      BY <3>2 DEF Enumerates
    <3> QED
      BY <3>1, <3>3
  <2>4. \A m, p \in 1 .. i : g[m] = g[p] => m = p
    BY <1>1, <2>1 DEF Bijection, Injection, IsInjective
  <2>5. h \in Bijection(1 .. i, A)
    <3>1. h \in [1 .. i -> A] /\ \A m, p \in 1 .. i : h[m] = h[p] => m = p
      BY <2>2, <2>4
    <3>2. \A k \in A : \E m \in 1 .. i : h[m] = k
      BY <2>3
    <3> HIDE DEF h, A
    <3> QED
      BY <3>1, <3>2, Fun_IsBij
  <2>6. Cardinality(A) = i
    <3> HIDE DEF h, A
    <3> QED
      BY <2>1, <2>5, FS_CountingElements DEF ExistsBijection
  <2> QED
    BY <2>6 DEF Rank
<1>5. ASSUME NEW i \in 1 .. n PROVE g[i] = Nth(K, i)
  <2>1. g[i] \in K /\ Rank(K, g[i]) = i
    BY <1>4 DEF Enumerates
  <2>2. Nth(K, i) \in K /\ Rank(K, Nth(K, i)) = i
    BY <2>1 DEF Nth
  <2>3. ~(g[i] < Nth(K, i))
    <3> SUFFICES ASSUME g[i] < Nth(K, i) PROVE FALSE
      OBVIOUS
    <3>1. Rank(K, g[i]) < Rank(K, Nth(K, i))
      BY <1>3, <2>1, <2>2, RankIncreases
    <3> QED
      BY <2>1, <2>2, <3>1
  <2>4. ~(Nth(K, i) < g[i])
    <3> SUFFICES ASSUME Nth(K, i) < g[i] PROVE FALSE
      OBVIOUS
    <3>1. Rank(K, Nth(K, i)) < Rank(K, g[i])
      BY <1>3, <2>1, <2>2, RankIncreases
    <3> QED
      BY <2>1, <2>2, <3>1
  <2>5. g[i] \in Nat /\ Nth(K, i) \in Nat
    BY <2>1, <2>2
  <2> QED
    BY <2>3, <2>4, <2>5
<1> QED
  BY <1>3, <1>5

LEMMA EnumerationInjective ==
    ASSUME NEW K \in SUBSET Nat, NEW n \in Nat, NEW g, Enumerates(g, n, K)
    PROVE  \A i, j \in 1 .. n : g[i] = g[j] => i = j
<1> SUFFICES ASSUME NEW i \in 1 .. n, NEW j \in 1 .. n, i # j
             PROVE  g[i] # g[j]
  OBVIOUS
<1>1. i < j \/ j < i
  OBVIOUS
<1>2. g[i] \in Nat /\ g[j] \in Nat /\ (g[i] < g[j] \/ g[j] < g[i])
  BY <1>1 DEF Enumerates
<1> QED
  BY <1>2

-----------------------------------------------------------------------------
(* What is kept of a list.                                                 *)

LEMMA PlacesFinite ==
    ASSUME NEW S, NEW s \in Seq(S), NEW T
    PROVE  /\ Places(s, T) \in SUBSET (1 .. Len(s)) /\ Places(s, T) \in SUBSET Nat
           /\ IsFiniteSet(Places(s, T)) /\ Cardinality(Places(s, T)) \in Nat
<1>1. Places(s, T) \in SUBSET (1 .. Len(s)) /\ Len(s) \in Nat
  BY DEF Places
<1>2. IsFiniteSet(1 .. Len(s))
  BY <1>1, FS_Interval
<1> QED
  BY <1>1, <1>2, FS_Subset, FS_CardinalityType

LEMMA KeepEnumerates ==
    ASSUME NEW S, NEW s \in Seq(S), NEW T
    PROVE  \E n \in Nat : \E g : /\ Enumerates(g, n, Places(s, T))
                                 /\ Keep(s, T) = [i \in 1 .. n |-> s[g[i]]]
<1> DEFINE K == Places(s, T)
           c == Cardinality(K)
           g == [n \in 1 .. c |-> Nth(K, n)]
<1>1. c \in Nat /\ Enumerates(g, c, K)
  BY PlacesFinite, NthEnumerates
<1>2. Keep(s, T) = [i \in 1 .. c |-> s[g[i]]]
  BY DEF Keep
<1> HIDE DEF K, c, g
<1> QED
  BY <1>1, <1>2 DEF K

LEMMA KeepIs ==
    ASSUME NEW S, NEW s \in Seq(S), NEW T,
           NEW n \in Nat, NEW g, Enumerates(g, n, Places(s, T))
    PROVE  Keep(s, T) = [i \in 1 .. n |-> s[g[i]]]
<1> DEFINE K == Places(s, T)
<1>1. K \in SUBSET Nat
  BY PlacesFinite
<1>2. Cardinality(K) = n /\ \A i \in 1 .. n : g[i] = Nth(K, i)
  BY <1>1, EnumerationIsNth
<1>3. Keep(s, T) = [i \in 1 .. Cardinality(K) |-> s[Nth(K, i)]]
  BY DEF Keep
<1> HIDE DEF K
<1> QED
  BY <1>2, <1>3

\* The entries of the list that are in T stay, the others go.
LEMMA KeepRange ==
    ASSUME NEW S, NEW s \in Seq(S), NEW T
    PROVE  /\ Keep(s, T) \in Seq(S)
           /\ ToSet(Keep(s, T)) = ToSet(s) \cap T
<1>1. PICK n \in Nat : \E g : /\ Enumerates(g, n, Places(s, T))
                              /\ Keep(s, T) = [i \in 1 .. n |-> s[g[i]]]
  BY KeepEnumerates
<1>2. PICK g : /\ Enumerates(g, n, Places(s, T))
               /\ Keep(s, T) = [i \in 1 .. n |-> s[g[i]]]
  BY <1>1
<1>3. \A i \in 1 .. n : g[i] \in 1 .. Len(s) /\ s[g[i]] \in T
  BY <1>2 DEF Enumerates, Places
<1>4. Keep(s, T) \in Seq(S)
  BY <1>2, <1>3
<1>5. ASSUME NEW x \in ToSet(Keep(s, T)) PROVE x \in ToSet(s) \cap T
  <2>1. PICK i \in 1 .. n : x = s[g[i]]
    BY <1>2 DEF ToSet
  <2> QED
    BY <1>3, <2>1 DEF ToSet
<1>6. ASSUME NEW x \in ToSet(s) \cap T PROVE x \in ToSet(Keep(s, T))
  <2>1. PICK k \in DOMAIN s : x = s[k]
    BY DEF ToSet
  <2>2. k \in Places(s, T)
    BY <2>1 DEF Places
  <2>3. PICK i \in 1 .. n : g[i] = k
    BY <1>2, <2>2 DEF Enumerates
  <2> QED
    BY <1>2, <2>1, <2>3 DEF ToSet
<1> QED
  BY <1>4, <1>5, <1>6

LEMMA KeepInjective ==
    ASSUME NEW S, NEW s \in Seq(S), NEW T, IsInjective(s)
    PROVE  IsInjective(Keep(s, T))
<1>1. PICK n \in Nat : \E g : /\ Enumerates(g, n, Places(s, T))
                              /\ Keep(s, T) = [i \in 1 .. n |-> s[g[i]]]
  BY KeepEnumerates
<1>2. PICK g : /\ Enumerates(g, n, Places(s, T))
               /\ Keep(s, T) = [i \in 1 .. n |-> s[g[i]]]
  BY <1>1
<1>3. \A i \in 1 .. n : g[i] \in DOMAIN s /\ g[i] \in Nat
  BY <1>2 DEF Enumerates, Places
<1>4. \A i, j \in 1 .. n : g[i] = g[j] => i = j
  <2>1. Places(s, T) \in SUBSET Nat
    BY PlacesFinite
  <2> QED
    BY <1>2, <2>1, EnumerationInjective
<1> QED
  BY <1>2, <1>3, <1>4 DEF IsInjective

\* Only the places that are kept matter.
LEMMA KeepSame ==
    ASSUME NEW s, NEW T, NEW U, \A i \in DOMAIN s : s[i] \in T <=> s[i] \in U
    PROVE  Keep(s, T) = Keep(s, U)
<1>1. Places(s, T) = Places(s, U)
  BY DEF Places
<1> QED
  BY <1>1 DEF Keep

LEMMA KeepNone ==
    ASSUME NEW S, NEW s \in Seq(S), NEW T, ToSet(s) \cap T = {}
    PROVE  Keep(s, T) = <<>>
<1>1. Places(s, T) = {}
  BY DEF Places, ToSet
<1>2. Cardinality(Places(s, T)) = 0
  BY <1>1, FS_EmptySet
<1> QED
  BY <1>2 DEF Keep

LEMMA KeepAll ==
    ASSUME NEW S, NEW s \in Seq(S), NEW T, ToSet(s) \subseteq T
    PROVE  Keep(s, T) = s
<1> DEFINE g == [i \in 1 .. Len(s) |-> i]
<1>1. Places(s, T) = 1 .. Len(s)
  BY DEF Places, ToSet
<1>2. Enumerates(g, Len(s), Places(s, T))
  BY <1>1 DEF Enumerates
<1>3. Keep(s, T) = [i \in 1 .. Len(s) |-> s[g[i]]]
  <2> HIDE DEF g
  <2> QED
    BY <1>2, KeepIs
<1> QED
  BY <1>3

-----------------------------------------------------------------------------
(* What a list's owner does to it.                                         *)

LEMMA AppendList ==
    ASSUME NEW S, NEW s \in Seq(S), NEW e \in S
    PROVE  /\ Append(s, e) \in Seq(S)
           /\ ToSet(Append(s, e)) = ToSet(s) \cup {e}
           /\ IsInjective(s) /\ e \notin ToSet(s) => IsInjective(Append(s, e))
<1>1. /\ Append(s, e) \in Seq(S) /\ Len(Append(s, e)) = Len(s) + 1
      /\ \A i \in 1 .. Len(s) : Append(s, e)[i] = s[i]
      /\ Append(s, e)[Len(s) + 1] = e
  OBVIOUS
<1>2. DOMAIN Append(s, e) = 1 .. Len(s) + 1 /\ DOMAIN s = 1 .. Len(s) /\ Len(s) \in Nat
  BY <1>1
<1>3. \A i : i \in 1 .. Len(s) + 1 <=> i \in 1 .. Len(s) \/ i = Len(s) + 1
  BY <1>2
<1>4. ToSet(Append(s, e)) = ToSet(s) \cup {e}
  BY <1>1, <1>2, <1>3 DEF ToSet
<1>5. ASSUME IsInjective(s), e \notin ToSet(s) PROVE IsInjective(Append(s, e))
  BY <1>1, <1>2, <1>3, <1>5 DEF IsInjective, ToSet
<1> QED
  BY <1>1, <1>4, <1>5

LEMMA ConcatList ==
    ASSUME NEW S, NEW s \in Seq(S), NEW t \in Seq(S)
    PROVE  /\ s \o t \in Seq(S)
           /\ Len(s \o t) = Len(s) + Len(t)
           /\ ToSet(s \o t) = ToSet(s) \cup ToSet(t)
           /\ IsInjective(s) /\ IsInjective(t) /\ ToSet(s) \cap ToSet(t) = {}
                => IsInjective(s \o t)
<1> DEFINE u == s \o t
<1>1. /\ u \in Seq(S) /\ Len(u) = Len(s) + Len(t)
      /\ \A i \in 1 .. Len(s) : u[i] = s[i]
      /\ \A i \in 1 .. Len(t) : u[Len(s) + i] = t[i]
  OBVIOUS
<1>2. /\ Len(s) \in Nat /\ Len(t) \in Nat
      /\ DOMAIN u = 1 .. Len(s) + Len(t) /\ DOMAIN s = 1 .. Len(s) /\ DOMAIN t = 1 .. Len(t)
  BY <1>1
<1> HIDE DEF u
<1>3. \A i \in DOMAIN u : \/ i \in DOMAIN s /\ u[i] = s[i]
                          \/ i - Len(s) \in DOMAIN t /\ u[i] = t[i - Len(s)]
  <2> SUFFICES ASSUME NEW i \in DOMAIN u, i \notin DOMAIN s
               PROVE  i - Len(s) \in DOMAIN t /\ u[i] = t[i - Len(s)]
    BY <1>1, <1>2
  <2>1. i - Len(s) \in 1 .. Len(t) /\ Len(s) + (i - Len(s)) = i
    BY <1>2
  <2> QED
    BY <1>1, <1>2, <2>1
<1>4. /\ \A i \in DOMAIN s : i \in DOMAIN u /\ u[i] = s[i]
      /\ \A i \in DOMAIN t : Len(s) + i \in DOMAIN u /\ u[Len(s) + i] = t[i]
  BY <1>1, <1>2
<1>5. ToSet(u) = ToSet(s) \cup ToSet(t)
  BY <1>3, <1>4 DEF ToSet
<1>6. ASSUME IsInjective(s), IsInjective(t), ToSet(s) \cap ToSet(t) = {}
      PROVE  IsInjective(u)
  <2> SUFFICES ASSUME NEW i \in DOMAIN u, NEW j \in DOMAIN u, u[i] = u[j]
               PROVE  i = j
    BY DEF IsInjective
  <2>1. i \in Nat /\ j \in Nat
    BY <1>2
  <2>2. CASE i \in DOMAIN s /\ u[i] = s[i]
    <3>1. u[i] \in ToSet(s)
      BY <2>2 DEF ToSet
    <3>2. j \in DOMAIN s /\ u[j] = s[j]
      BY <1>3, <1>6, <3>1 DEF ToSet
    <3> QED
      BY <1>6, <2>2, <3>2 DEF IsInjective
  <2>3. CASE i - Len(s) \in DOMAIN t /\ u[i] = t[i - Len(s)]
    <3>1. u[i] \in ToSet(t)
      BY <2>3 DEF ToSet
    <3>2. j - Len(s) \in DOMAIN t /\ u[j] = t[j - Len(s)]
      BY <1>3, <1>6, <3>1 DEF ToSet
    <3>3. i - Len(s) = j - Len(s)
      BY <1>6, <2>3, <3>2 DEF IsInjective
    <3> QED
      BY <1>2, <2>1, <3>3
  <2> QED
    BY <1>3, <2>2, <2>3
<1> QED
  BY <1>1, <1>5, <1>6 DEF u

LEMMA TailList ==
    ASSUME NEW S, NEW s \in Seq(S), s # <<>>
    PROVE  /\ Head(s) \in S /\ Tail(s) \in Seq(S)
           /\ Head(s) \in ToSet(s)
           /\ ToSet(Tail(s)) \subseteq ToSet(s)
           /\ ToSet(s) \subseteq ToSet(Tail(s)) \cup {Head(s)}
           /\ IsInjective(s) => /\ IsInjective(Tail(s))
                                /\ ToSet(Tail(s)) = ToSet(s) \ {Head(s)}
<1>1. /\ Head(s) = s[1] /\ Tail(s) \in Seq(S) /\ Len(s) \in Nat /\ Len(s) > 0
      /\ Len(Tail(s)) = Len(s) - 1
      /\ \A i \in 1 .. Len(s) - 1 : Tail(s)[i] = s[i + 1]
  OBVIOUS
<1>2. /\ DOMAIN s = 1 .. Len(s) /\ DOMAIN Tail(s) = 1 .. Len(s) - 1
  BY <1>1
<1>3. /\ \A i \in DOMAIN Tail(s) : i + 1 \in DOMAIN s /\ i + 1 # 1 /\ Tail(s)[i] = s[i + 1]
      /\ 1 \in DOMAIN s
  BY <1>1, <1>2
<1>4. \A i \in DOMAIN s : i # 1 => i - 1 \in DOMAIN Tail(s) /\ Tail(s)[i - 1] = s[i]
  <2> SUFFICES ASSUME NEW i \in DOMAIN s, i # 1
               PROVE  i - 1 \in DOMAIN Tail(s) /\ Tail(s)[i - 1] = s[i]
    OBVIOUS
  <2>1. i - 1 \in 1 .. Len(s) - 1 /\ (i - 1) + 1 = i
    BY <1>1, <1>2
  <2> QED
    BY <1>1, <1>2, <2>1
<1>5. Head(s) \in S /\ Head(s) \in ToSet(s)
  BY <1>1, <1>3 DEF ToSet
<1>6. ToSet(Tail(s)) \subseteq ToSet(s) /\ ToSet(s) \subseteq ToSet(Tail(s)) \cup {Head(s)}
  <2>1. ToSet(Tail(s)) \subseteq ToSet(s)
    BY <1>3 DEF ToSet
  <2>2. ASSUME NEW x \in ToSet(s), x # Head(s) PROVE x \in ToSet(Tail(s))
    <3>1. PICK i \in DOMAIN s : x = s[i]
      BY DEF ToSet
    <3>2. i # 1
      BY <1>1, <2>2, <3>1
    <3> QED
      BY <1>4, <3>1, <3>2 DEF ToSet
  <2> QED
    BY <2>1, <2>2
<1>7. ASSUME IsInjective(s)
      PROVE  IsInjective(Tail(s)) /\ ToSet(Tail(s)) = ToSet(s) \ {Head(s)}
  <2>1. \A i, j \in DOMAIN Tail(s) : i + 1 = j + 1 => i = j
    BY <1>1, <1>2
  <2>2. IsInjective(Tail(s))
    BY <1>3, <1>7, <2>1 DEF IsInjective
  <2>3. Head(s) \notin ToSet(Tail(s))
    BY <1>1, <1>3, <1>7 DEF IsInjective, ToSet
  <2> QED
    BY <1>6, <2>2, <2>3
<1> QED
  BY <1>1, <1>5, <1>6, <1>7

\* list_del of the entry at place i.
LEMMA RemoveList ==
    ASSUME NEW S, NEW s \in Seq(S), NEW i \in DOMAIN s
    PROVE  /\ RemoveAt(s, i) \in Seq(S)
           /\ Len(RemoveAt(s, i)) = Len(s) - 1
           /\ \A j \in 1 .. Len(s) - 1 :
                 RemoveAt(s, i)[j] = IF j < i THEN s[j] ELSE s[j + 1]
           /\ ToSet(RemoveAt(s, i)) \subseteq ToSet(s)
           /\ ToSet(s) \subseteq ToSet(RemoveAt(s, i)) \cup {s[i]}
           /\ IsInjective(s) => /\ IsInjective(RemoveAt(s, i))
                                /\ ToSet(RemoveAt(s, i)) = ToSet(s) \ {s[i]}
<1> DEFINE a == SubSeq(s, 1, i - 1)
           b == SubSeq(s, i + 1, Len(s))
           r == RemoveAt(s, i)
<1>1. i \in 1 .. Len(s) /\ Len(s) \in Nat /\ DOMAIN s = 1 .. Len(s)
  OBVIOUS
<1>2. /\ a \in Seq(S) /\ Len(a) = i - 1
      /\ \A j \in 1 .. i - 1 : a[j] = s[j]
  BY <1>1
<1>3. /\ b \in Seq(S) /\ Len(b) = Len(s) - i
      /\ \A j \in 1 .. Len(s) - i : b[j] = s[i + j]
  BY <1>1
<1>4. r = a \o b
  BY DEF RemoveAt
<1> HIDE DEF a, b, r
<1>5. /\ r \in Seq(S) /\ Len(r) = Len(s) - 1
      /\ \A j \in 1 .. i - 1 : r[j] = a[j]
      /\ \A j \in 1 .. Len(s) - i : r[i - 1 + j] = b[j]
  <2>1. /\ r \in Seq(S) /\ Len(r) = Len(a) + Len(b)
        /\ \A j \in 1 .. Len(a) : r[j] = a[j]
        /\ \A j \in 1 .. Len(b) : r[Len(a) + j] = b[j]
    <3>1. a \in Seq(S) /\ b \in Seq(S)
      BY <1>2, <1>3
    <3> QED
      BY <1>4, <3>1
  <2>2. Len(a) + Len(b) = Len(s) - 1
    BY <1>1, <1>2, <1>3
  <2>3. Len(a) = i - 1 /\ Len(b) = Len(s) - i
    BY <1>2, <1>3
  <2> QED
    BY <2>1, <2>2, <2>3
<1>6. ASSUME NEW j \in 1 .. Len(s) - 1
      PROVE  r[j] = IF j < i THEN s[j] ELSE s[j + 1]
  <2>1. CASE j < i
    BY <1>1, <1>2, <1>5, <2>1
  <2>2. CASE ~(j < i)
    <3> DEFINE k == j - i + 1
    <3>1. k \in 1 .. Len(s) - i /\ i - 1 + k = j /\ i + k = j + 1
      BY <1>1, <2>2
    <3> HIDE DEF k
    <3>2. r[j] = b[k] /\ b[k] = s[j + 1]
      <4>1. r[i - 1 + k] = b[k] /\ b[k] = s[i + k]
        BY <1>3, <1>5, <3>1
      <4> QED
        BY <3>1, <4>1
    <3> QED
      BY <2>2, <3>2
  <2> QED
    BY <2>1, <2>2
<1> DEFINE from == [j \in 1 .. Len(s) - 1 |-> IF j < i THEN j ELSE j + 1]
           to == [k \in 1 .. Len(s) |-> IF k < i THEN k ELSE k - 1]
<1>7. /\ DOMAIN r = 1 .. Len(s) - 1
      /\ \A j \in DOMAIN r : from[j] \in DOMAIN s /\ from[j] # i /\ r[j] = s[from[j]]
      /\ \A k \in DOMAIN s : k # i => to[k] \in DOMAIN r /\ from[to[k]] = k
      /\ \A j, k \in DOMAIN r : from[j] = from[k] => j = k
  <2>1. DOMAIN r = 1 .. Len(s) - 1
    BY <1>1, <1>5
  <2>2. \A j \in 1 .. Len(s) - 1 :
           /\ from[j] \in 1 .. Len(s) /\ from[j] # i
           /\ r[j] = s[from[j]]
    BY <1>1, <1>6
  <2>3. \A k \in 1 .. Len(s) :
           k # i => to[k] \in 1 .. Len(s) - 1 /\ from[to[k]] = k
    BY <1>1
  <2>4. \A j, k \in 1 .. Len(s) - 1 : from[j] = from[k] => j = k
    BY <1>1
  <2> HIDE DEF from, to
  <2> QED
    BY <1>1, <2>1, <2>2, <2>3, <2>4
<1> HIDE DEF from, to
<1>8. /\ ToSet(r) \subseteq ToSet(s)
      /\ ToSet(s) \subseteq ToSet(r) \cup {s[i]}
  BY <1>7 DEF ToSet
<1>9. ASSUME IsInjective(s)
      PROVE  IsInjective(r) /\ ToSet(r) = ToSet(s) \ {s[i]}
  <2>1. IsInjective(r)
    BY <1>7, <1>9 DEF IsInjective
  <2>2. s[i] \notin ToSet(r)
    BY <1>7, <1>9 DEF IsInjective, ToSet
  <2> QED
    BY <1>8, <2>1, <2>2
<1> QED
  BY <1>5, <1>6, <1>8, <1>9 DEF r

-----------------------------------------------------------------------------
(* An entry that is on the list at most once, whatever else is.            *)

Once(s, x) == \A i, j \in DOMAIN s : s[i] = x /\ s[j] = x => i = j

LEMMA AppendOnce ==
    ASSUME NEW S, NEW s \in Seq(S), NEW e \in S, NEW x,
           Once(s, x), e = x => x \notin ToSet(s)
    PROVE  Once(Append(s, e), x)
<1>1. /\ DOMAIN Append(s, e) = 1 .. Len(s) + 1 /\ DOMAIN s = 1 .. Len(s)
      /\ \A i \in 1 .. Len(s) : Append(s, e)[i] = s[i]
      /\ Append(s, e)[Len(s) + 1] = e /\ Len(s) \in Nat
  OBVIOUS
<1>2. \A i : i \in 1 .. Len(s) + 1 <=> i \in 1 .. Len(s) \/ i = Len(s) + 1
  BY <1>1
<1> QED
  BY <1>1, <1>2 DEF Once, ToSet

LEMMA KeepOnce ==
    ASSUME NEW S, NEW s \in Seq(S), NEW T, NEW x, Once(s, x)
    PROVE  Once(Keep(s, T), x)
<1>1. PICK n \in Nat : \E g : /\ Enumerates(g, n, Places(s, T))
                              /\ Keep(s, T) = [i \in 1 .. n |-> s[g[i]]]
  BY KeepEnumerates
<1>2. PICK g : /\ Enumerates(g, n, Places(s, T))
               /\ Keep(s, T) = [i \in 1 .. n |-> s[g[i]]]
  BY <1>1
<1>3. \A i \in 1 .. n : g[i] \in DOMAIN s /\ g[i] \in Nat
  BY <1>2 DEF Enumerates, Places
<1>4. \A i, j \in 1 .. n : g[i] = g[j] => i = j
  <2>1. Places(s, T) \in SUBSET Nat
    BY PlacesFinite
  <2> QED
    BY <1>2, <2>1, EnumerationInjective
<1> QED
  BY <1>2, <1>3, <1>4 DEF Once

LEMMA RemoveOnce ==
    ASSUME NEW S, NEW s \in Seq(S), NEW i \in DOMAIN s, NEW x, Once(s, x)
    PROVE  /\ Once(RemoveAt(s, i), x)
           /\ x \in ToSet(RemoveAt(s, i)) <=> x \in ToSet(s) /\ x # s[i]
<1> DEFINE r == RemoveAt(s, i)
<1>1. /\ r \in Seq(S) /\ Len(r) = Len(s) - 1
      /\ \A j \in 1 .. Len(s) - 1 : r[j] = IF j < i THEN s[j] ELSE s[j + 1]
      /\ ToSet(r) \subseteq ToSet(s) /\ ToSet(s) \subseteq ToSet(r) \cup {s[i]}
  BY RemoveList
<1> DEFINE from(j) == IF j < i THEN j ELSE j + 1
<1>2. /\ DOMAIN r = 1 .. Len(s) - 1 /\ DOMAIN s = 1 .. Len(s) /\ Len(s) \in Nat
      /\ i \in 1 .. Len(s)
  <2> HIDE DEF r
  <2> QED
    BY <1>1
<1> HIDE DEF r
<1>3. \A j \in DOMAIN r : from(j) \in DOMAIN s /\ from(j) # i /\ r[j] = s[from(j)]
  BY <1>1, <1>2
<1>4. \A j, k \in DOMAIN r : from(j) = from(k) => j = k
  BY <1>2
<1> HIDE DEF from
<1>5. Once(r, x)
  BY <1>3, <1>4 DEF Once
<1>6. s[i] = x => x \notin ToSet(r)
  BY <1>2, <1>3 DEF Once, ToSet
<1> QED
  BY <1>1, <1>5, <1>6 DEF r

-----------------------------------------------------------------------------
(* How such a step changes what is kept, in order.                         *)

\* An entry added at the tail comes last in what is kept, or is not in it.
LEMMA KeepAppended ==
    ASSUME NEW S, NEW s \in Seq(S), NEW e \in S, NEW T
    PROVE  Keep(Append(s, e), T) = IF e \in T THEN Append(Keep(s, T), e) ELSE Keep(s, T)
<1> DEFINE t == Append(s, e)
<1>1. /\ t \in Seq(S) /\ DOMAIN t = 1 .. Len(s) + 1 /\ DOMAIN s = 1 .. Len(s)
      /\ Len(s) \in Nat /\ t[Len(s) + 1] = e
      /\ \A i \in 1 .. Len(s) : t[i] = s[i]
  OBVIOUS
<1>2. PICK n \in Nat : \E g : /\ Enumerates(g, n, Places(s, T))
                              /\ Keep(s, T) = [i \in 1 .. n |-> s[g[i]]]
  BY KeepEnumerates
<1>3. PICK g : /\ Enumerates(g, n, Places(s, T))
               /\ Keep(s, T) = [i \in 1 .. n |-> s[g[i]]]
  BY <1>2
<1>4. \A i \in 1 .. n : g[i] \in 1 .. Len(s) /\ s[g[i]] \in S
  BY <1>1, <1>3 DEF Enumerates, Places
<1> HIDE DEF t
<1>5. CASE e \in T
  <2> DEFINE h == [i \in 1 .. n + 1 |-> IF i = n + 1 THEN Len(s) + 1 ELSE g[i]]
  <2>1. Places(t, T) = Places(s, T) \cup {Len(s) + 1}
    BY <1>1, <1>5 DEF Places
  <2>2. /\ h[n + 1] = Len(s) + 1
        /\ \A i \in 1 .. n : h[i] = g[i]
        /\ \A i \in 1 .. n + 1 : i \in 1 .. n \/ i = n + 1
    OBVIOUS
  <2>3. h \in [1 .. n + 1 -> Places(t, T)]
    BY <1>3, <2>1 DEF Enumerates
  <2>4. \A i, j \in 1 .. n + 1 : i < j => h[i] < h[j]
    <3> SUFFICES ASSUME NEW i \in 1 .. n + 1, NEW j \in 1 .. n + 1, i < j
                 PROVE  h[i] < h[j]
      OBVIOUS
    <3> HIDE DEF h
    <3>1. i \in 1 .. n
      OBVIOUS
    <3>2. CASE j \in 1 .. n
      BY <1>3, <2>2, <3>1, <3>2 DEF Enumerates
    <3>3. CASE j = n + 1
      BY <1>1, <1>4, <2>2, <3>1, <3>3
    <3> QED
      BY <2>2, <3>2, <3>3
  <2>5. \A k \in Places(t, T) : \E i \in 1 .. n + 1 : h[i] = k
    <3> SUFFICES ASSUME NEW k \in Places(t, T) PROVE \E i \in 1 .. n + 1 : h[i] = k
      OBVIOUS
    <3> HIDE DEF h
    <3>1. CASE k \in Places(s, T)
      <4>1. PICK i \in 1 .. n : g[i] = k
        BY <1>3, <3>1 DEF Enumerates
      <4>2. i \in 1 .. n + 1 /\ h[i] = k
        BY <2>2, <4>1
      <4> QED
        BY <4>2
    <3>2. CASE k = Len(s) + 1
      <4>1. n + 1 \in 1 .. n + 1
        OBVIOUS
      <4> QED
        BY <2>2, <3>2, <4>1
    <3> QED
      BY <2>1, <3>1, <3>2
  <2>6. Enumerates(h, n + 1, Places(t, T))
    BY <2>3, <2>4, <2>5 DEF Enumerates
  <2> HIDE DEF h
  <2>7. Keep(t, T) = [i \in 1 .. n + 1 |-> t[h[i]]]
    BY <1>1, <2>6, KeepIs
  <2>8. Append(Keep(s, T), e) = [i \in 1 .. n + 1 |-> IF i = n + 1 THEN e ELSE s[g[i]]]
    <3>1. Keep(s, T) \in Seq(S) /\ Len(Keep(s, T)) = n
      BY <1>3, <1>4
    <3>2. \A i \in 1 .. n : Keep(s, T)[i] = s[g[i]]
      BY <1>3
    <3> DEFINE q == Keep(s, T)
               u == Append(q, e)
    <3>3. /\ u \in Seq(S) /\ Len(u) = n + 1 /\ u[n + 1] = e
          /\ \A i \in 1 .. n : u[i] = q[i]
      <4> HIDE DEF q
      <4> QED
        BY <3>1 DEF q
    <3>4. u = [i \in 1 .. n + 1 |-> u[i]]
      <4> HIDE DEF u
      <4> QED
        BY <3>3
    <3>5. \A i \in 1 .. n + 1 : u[i] = IF i = n + 1 THEN e ELSE s[g[i]]
      BY <2>2, <3>2, <3>3
    <3> HIDE DEF u
    <3> QED
      BY <3>4, <3>5 DEF u
  <2>9. \A i \in 1 .. n + 1 : t[h[i]] = IF i = n + 1 THEN e ELSE s[g[i]]
    BY <1>1, <1>4, <2>2
  <2> QED
    BY <1>5, <2>7, <2>8, <2>9 DEF t
<1>6. CASE e \notin T
  <2>1. Places(t, T) = Places(s, T)
    BY <1>1, <1>6 DEF Places
  <2>2. Keep(t, T) = [i \in 1 .. n |-> t[g[i]]]
    BY <1>1, <1>3, <2>1, KeepIs
  <2>3. \A i \in 1 .. n : t[g[i]] = s[g[i]]
    BY <1>1, <1>4
  <2> QED
    BY <1>3, <1>6, <2>2, <2>3 DEF t
<1> QED
  BY <1>5, <1>6

\* Taking an entry off that is not kept changes nothing.
LEMMA KeepRemoved ==
    ASSUME NEW S, NEW s \in Seq(S), NEW i \in DOMAIN s, NEW T, s[i] \notin T
    PROVE  Keep(RemoveAt(s, i), T) = Keep(s, T)
<1> DEFINE r == RemoveAt(s, i)
<1>1. /\ r \in Seq(S) /\ DOMAIN r = 1 .. Len(s) - 1 /\ DOMAIN s = 1 .. Len(s)
      /\ Len(s) \in Nat /\ i \in 1 .. Len(s)
      /\ \A j \in 1 .. Len(s) - 1 : r[j] = IF j < i THEN s[j] ELSE s[j + 1]
  <2>1. r \in Seq(S) /\ Len(r) = Len(s) - 1
    BY RemoveList
  <2>2. \A j \in 1 .. Len(s) - 1 : r[j] = IF j < i THEN s[j] ELSE s[j + 1]
    BY RemoveList
  <2> HIDE DEF r
  <2> QED
    BY <2>1, <2>2
<1> HIDE DEF r
<1>2. PICK n \in Nat : \E g : /\ Enumerates(g, n, Places(s, T))
                              /\ Keep(s, T) = [m \in 1 .. n |-> s[g[m]]]
  BY KeepEnumerates
<1>3. PICK g : /\ Enumerates(g, n, Places(s, T))
               /\ Keep(s, T) = [m \in 1 .. n |-> s[g[m]]]
  BY <1>2
<1>4. \A m \in 1 .. n : g[m] \in 1 .. Len(s) /\ g[m] # i /\ s[g[m]] \in T
  BY <1>1, <1>3 DEF Enumerates, Places
<1> DEFINE h == [m \in 1 .. n |-> IF g[m] < i THEN g[m] ELSE g[m] - 1]
<1>5. ASSUME NEW m \in 1 .. n
      PROVE  h[m] \in 1 .. Len(s) - 1 /\ r[h[m]] = s[g[m]]
  <2>1. g[m] \in 1 .. Len(s) /\ g[m] # i
    BY <1>4
  <2>2. CASE g[m] < i
    <3>1. h[m] = g[m] /\ g[m] \in 1 .. Len(s) - 1
      BY <1>1, <2>1, <2>2
    <3> QED
      BY <1>1, <2>2, <3>1
  <2>3. CASE ~(g[m] < i)
    <3>1. /\ h[m] = g[m] - 1 /\ g[m] - 1 \in 1 .. Len(s) - 1 /\ ~(g[m] - 1 < i)
          /\ (g[m] - 1) + 1 = g[m]
      BY <1>1, <2>1, <2>3
    <3> QED
      BY <1>1, <3>1
  <2> QED
    BY <2>2, <2>3
<1>6. h \in [1 .. n -> Places(r, T)]
  <2>1. \A m \in 1 .. n : h[m] \in Places(r, T)
    BY <1>1, <1>4, <1>5 DEF Places
  <2> QED
    BY <2>1
<1>7. \A l, m \in 1 .. n : l < m => h[l] < h[m]
  <2> SUFFICES ASSUME NEW l \in 1 .. n, NEW m \in 1 .. n, l < m
               PROVE  h[l] < h[m]
    OBVIOUS
  <2>1. g[l] < g[m] /\ g[l] \in 1 .. Len(s) /\ g[m] \in 1 .. Len(s) /\ g[l] # i /\ g[m] # i
    BY <1>3, <1>4 DEF Enumerates
  <2> QED
    BY <1>1, <2>1
<1>8. \A k \in Places(r, T) : \E m \in 1 .. n : h[m] = k
  <2> SUFFICES ASSUME NEW k \in Places(r, T) PROVE \E m \in 1 .. n : h[m] = k
    OBVIOUS
  <2>1. k \in 1 .. Len(s) - 1 /\ r[k] \in T
    BY <1>1 DEF Places
  <2> DEFINE p == IF k < i THEN k ELSE k + 1
  <2>2. p \in 1 .. Len(s) /\ s[p] = r[k] /\ (p < i <=> k < i) /\ (~(k < i) => p - 1 = k)
    BY <1>1, <2>1
  <2>3. p \in Places(s, T)
    BY <1>1, <2>1, <2>2 DEF Places
  <2>4. PICK m \in 1 .. n : g[m] = p
    BY <1>3, <2>3 DEF Enumerates
  <2>5. h[m] = k
    BY <2>2, <2>4
  <2> QED
    BY <2>5
<1>9. Enumerates(h, n, Places(r, T))
  BY <1>6, <1>7, <1>8 DEF Enumerates
<1>10. Keep(r, T) = [m \in 1 .. n |-> r[h[m]]]
  <2> HIDE DEF h
  <2>1. r \in Seq(S)
    BY <1>1
  <2> QED
    BY <1>9, <2>1, KeepIs
<1> HIDE DEF h
<1> QED
  BY <1>3, <1>5, <1>10 DEF r

\* Without the first kept entry, the rest is kept.
LEMMA KeepFirst ==
    ASSUME NEW S, NEW s \in Seq(S), NEW T, IsInjective(s),
           NEW i \in DOMAIN s, s[i] \in T, \A j \in 1 .. i - 1 : s[j] \notin T
    PROVE  /\ Keep(s, T) # <<>>
           /\ Head(Keep(s, T)) = s[i]
           /\ Keep(s, T \ {s[i]}) = Tail(Keep(s, T))
<1>1. DOMAIN s = 1 .. Len(s) /\ Len(s) \in Nat /\ i \in 1 .. Len(s)
  OBVIOUS
<1>2. PICK n \in Nat : \E g : /\ Enumerates(g, n, Places(s, T))
                              /\ Keep(s, T) = [m \in 1 .. n |-> s[g[m]]]
  BY KeepEnumerates
<1>3. PICK g : /\ Enumerates(g, n, Places(s, T))
               /\ Keep(s, T) = [m \in 1 .. n |-> s[g[m]]]
  BY <1>2
<1>4. \A m \in 1 .. n : g[m] \in 1 .. Len(s) /\ s[g[m]] \in T /\ s[g[m]] \in S
  BY <1>1, <1>3 DEF Enumerates, Places
<1>5. PICK f \in 1 .. n : g[f] = i
  <2>1. i \in Places(s, T)
    BY <1>1 DEF Places
  <2> QED
    BY <1>3, <2>1 DEF Enumerates
<1>6. 1 \in 1 .. n /\ f = 1
  <2>1. 1 \in 1 .. n
    BY <1>5
  <2>2. ~(g[1] < i)
    BY <1>1, <1>4, <2>1
  <2>3. ~(1 < f)
    BY <1>1, <1>3, <1>4, <1>5, <2>1, <2>2 DEF Enumerates
  <2> QED
    BY <2>1, <2>3
<1>7. /\ Keep(s, T) \in Seq(S) /\ Len(Keep(s, T)) = n
      /\ Keep(s, T)[1] = s[i]
  BY <1>3, <1>4, <1>5, <1>6
<1>8. n - 1 \in Nat /\ n - 1 + 1 = n
  BY <1>6
<1> DEFINE h == [m \in 1 .. n - 1 |-> g[m + 1]]
           U == T \ {s[i]}
<1>9. \A m \in 1 .. n - 1 : m + 1 \in 1 .. n /\ h[m] = g[m + 1] /\ 1 < m + 1
  BY <1>8
<1>10. Places(s, U) = Places(s, T) \ {i}
  BY <1>1 DEF Places, IsInjective
<1>11. h \in [1 .. n - 1 -> Places(s, U)]
  <2>1. ASSUME NEW m \in 1 .. n - 1 PROVE g[m + 1] \in Places(s, U)
    <3>1. g[m + 1] \in Places(s, T)
      BY <1>3, <1>9 DEF Enumerates
    <3>2. g[1] < g[m + 1]
      BY <1>3, <1>6, <1>9 DEF Enumerates
    <3>3. g[m + 1] # i
      BY <1>1, <1>5, <1>6, <3>2
    <3> QED
      BY <1>10, <3>1, <3>3
  <2> QED
    BY <2>1
<1>12. \A l, m \in 1 .. n - 1 : l < m => h[l] < h[m]
  <2> SUFFICES ASSUME NEW l \in 1 .. n - 1, NEW m \in 1 .. n - 1, l < m
               PROVE  h[l] < h[m]
    OBVIOUS
  <2>1. l + 1 \in 1 .. n /\ m + 1 \in 1 .. n /\ l + 1 < m + 1
    BY <1>8
  <2>2. g[l + 1] < g[m + 1]
    BY <1>3, <2>1 DEF Enumerates
  <2> QED
    BY <1>9, <2>2
<1>13. \A k \in Places(s, U) : \E m \in 1 .. n - 1 : h[m] = k
  <2> SUFFICES ASSUME NEW k \in Places(s, U) PROVE \E m \in 1 .. n - 1 : h[m] = k
    OBVIOUS
  <2>1. PICK p \in 1 .. n : g[p] = k
    BY <1>3, <1>10 DEF Enumerates
  <2>2. p # 1
    BY <1>5, <1>6, <1>10, <2>1
  <2>3. p - 1 \in 1 .. n - 1 /\ (p - 1) + 1 = p
    BY <2>2
  <2>4. h[p - 1] = k
    BY <1>9, <2>1, <2>3
  <2> QED
    BY <2>3, <2>4
<1>14. Enumerates(h, n - 1, Places(s, U))
  BY <1>11, <1>12, <1>13 DEF Enumerates
<1>15. Keep(s, U) = [m \in 1 .. n - 1 |-> s[h[m]]]
  <2> HIDE DEF h, U
  <2> QED
    BY <1>8, <1>14, KeepIs
<1>16. Tail(Keep(s, T)) = [m \in 1 .. n - 1 |-> s[g[m + 1]]]
  <2>1. Tail(Keep(s, T)) = [m \in 1 .. n - 1 |-> Keep(s, T)[m + 1]]
    <3> DEFINE q == Keep(s, T)
               u == Tail(q)
    <3>1. /\ u \in Seq(S) /\ Len(u) = n - 1
          /\ \A m \in 1 .. n - 1 : u[m] = q[m + 1]
      <4>1. q \in Seq(S) /\ Len(q) = n /\ q # <<>>
        BY <1>6, <1>7
      <4> HIDE DEF q
      <4> QED
        BY <4>1
    <3>2. u = [m \in 1 .. n - 1 |-> u[m]]
      <4> HIDE DEF u
      <4> QED
        BY <3>1
    <3> HIDE DEF u
    <3> QED
      BY <3>1, <3>2 DEF u
  <2>2. \A m \in 1 .. n - 1 : Keep(s, T)[m + 1] = s[g[m + 1]]
    BY <1>3, <1>9
  <2> QED
    BY <2>1, <2>2
<1>17. Keep(s, T) # <<>> /\ Head(Keep(s, T)) = s[i]
  BY <1>6, <1>7
<1> QED
  BY <1>9, <1>15, <1>16, <1>17

-----------------------------------------------------------------------------
(* Counting in a list without repetitions.                                 *)

LEMMA CountOnce ==
    ASSUME NEW s, NEW m, IsInjective(s)
    PROVE  Cardinality({i \in DOMAIN s : s[i] = m}) = IF m \in ToSet(s) THEN 1 ELSE 0
<1> DEFINE I == {i \in DOMAIN s : s[i] = m}
<1>1. CASE m \in ToSet(s)
  <2>1. PICK i \in DOMAIN s : s[i] = m
    BY <1>1 DEF ToSet
  <2>2. I = {i}
    BY <2>1 DEF IsInjective
  <2> QED
    BY <1>1, <2>2, FS_Singleton
<1>2. CASE m \notin ToSet(s)
  <2>1. I = {}
    BY <1>2 DEF ToSet
  <2> QED
    BY <1>2, <2>1, FS_EmptySet
<1> QED
  BY <1>1, <1>2

\* A list without repetitions has as many elements as places.
LEMMA ListCount ==
    ASSUME NEW S, NEW s \in Seq(S), IsInjective(s)
    PROVE  Cardinality(ToSet(s)) = Len(s)
<1>1. Len(s) \in Nat /\ DOMAIN s = 1 .. Len(s) /\ s \in [1 .. Len(s) -> ToSet(s)]
  BY DEF ToSet
<1>2. s \in Bijection(1 .. Len(s), ToSet(s))
  BY <1>1, Fun_IsBij DEF IsInjective, ToSet
<1> QED
  BY <1>1, <1>2, FS_CountingElements DEF ExistsBijection

\* A list without repetitions is no longer than a set it is drawn from.
LEMMA LengthBound ==
    ASSUME NEW S, IsFiniteSet(S), NEW s \in Seq(S), IsInjective(s)
    PROVE  Len(s) <= Cardinality(S)
<1>1. s \in [1 .. Len(s) -> S] /\ Len(s) \in Nat
  OBVIOUS
<1>2. s \in Injection(1 .. Len(s), S)
  BY <1>1 DEF Injection
<1>3. Cardinality(1 .. Len(s)) <= Cardinality(S)
  BY <1>2, FS_Injection
<1>4. Cardinality(1 .. Len(s)) = Len(s)
  <2> DEFINE n == Len(s)
  <2>1. n \in Nat
    BY <1>1
  <2> HIDE DEF n
  <2>2. Cardinality(1 .. n) = n
    BY <2>1, FS_Interval
  <2> QED
    BY <2>2 DEF n
<1> QED
  BY <1>3, <1>4
-----------------------------------------------------------------------------
(* What a list's entries stand for, in their order.                        *)

Mapped(f, s) == [i \in DOMAIN s |-> f[s[i]]]
Values(f, S) == {f[x] : x \in S}

LEMMA MappedSame ==
    ASSUME NEW s, NEW f, NEW g, \A x \in ToSet(s) : f[x] = g[x]
    PROVE  Mapped(f, s) = Mapped(g, s)
BY DEF Mapped, ToSet

\* What a map does to the elements, whatever their order.
LEMMA MappedElements ==
    ASSUME NEW s, NEW f
    PROVE  ToSet(Mapped(f, s)) = {f[x] : x \in ToSet(s)}
BY DEF Mapped, ToSet

LEMMA MappedList ==
    ASSUME NEW S, NEW s \in Seq(S), NEW f
    PROVE  /\ Mapped(f, s) \in Seq(Values(f, S)) /\ Len(Mapped(f, s)) = Len(s)
           /\ \A i \in 1 .. Len(s) : Mapped(f, s)[i] = f[s[i]]
<1> DEFINE V == Values(f, S)
           m == Mapped(f, s)
<1>1. m = [i \in 1 .. Len(s) |-> f[s[i]]] /\ Len(s) \in Nat
  BY DEF Mapped
<1>2. \A i \in 1 .. Len(s) : f[s[i]] \in V
  BY DEF Values
<1> HIDE DEF m, V
<1>3. m \in Seq(V) /\ Len(m) = Len(s)
  BY <1>1, <1>2
<1>4. \A i \in 1 .. Len(s) : m[i] = f[s[i]]
  BY <1>1
<1> QED
  BY <1>3, <1>4 DEF m, V

LEMMA MappedAppend ==
    ASSUME NEW S, NEW s \in Seq(S), NEW e \in S, NEW f
    PROVE  Mapped(f, Append(s, e)) = Append(Mapped(f, s), f[e])
<1> DEFINE V == Values(f, S)
           m == Mapped(f, s)
           u == Append(s, e)
           v == Append(m, f[e])
           w == Mapped(f, u)
<1>0. Mapped(f, s) \in Seq(Values(f, S)) /\ Len(Mapped(f, s)) = Len(s)
      /\ \A i \in 1 .. Len(s) : Mapped(f, s)[i] = f[s[i]]
  BY MappedList
<1>1. /\ m \in Seq(V) /\ Len(m) = Len(s) /\ f[e] \in V /\ Len(s) \in Nat
      /\ \A i \in 1 .. Len(s) : m[i] = f[s[i]]
  BY <1>0 DEF Values
<1>2. /\ u \in Seq(S) /\ Len(u) = Len(s) + 1 /\ u[Len(s) + 1] = e
      /\ \A i \in 1 .. Len(s) : u[i] = s[i]
  OBVIOUS
<1> HIDE DEF m, u, V
<1>3. /\ v \in Seq(V) /\ Len(v) = Len(s) + 1 /\ v[Len(s) + 1] = f[e]
      /\ \A i \in 1 .. Len(s) : v[i] = m[i]
  BY <1>1
<1>4. /\ w \in Seq(V) /\ Len(w) = Len(s) + 1
      /\ \A i \in 1 .. Len(s) + 1 : w[i] = f[u[i]]
  <2>0. /\ Mapped(f, u) \in Seq(Values(f, S)) /\ Len(Mapped(f, u)) = Len(u)
        /\ \A i \in 1 .. Len(u) : Mapped(f, u)[i] = f[u[i]]
    BY <1>2, MappedList
  <2>1. /\ w \in Seq(V) /\ Len(w) = Len(u)
        /\ \A i \in 1 .. Len(u) : w[i] = f[u[i]]
    BY <2>0 DEF V
  <2> HIDE DEF w
  <2> QED
    BY <1>2, <2>1
<1> HIDE DEF v, w
<1>5. \A i \in 1 .. Len(s) + 1 : v[i] = w[i]
  <2> SUFFICES ASSUME NEW i \in 1 .. Len(s) + 1 PROVE v[i] = w[i]
    OBVIOUS
  <2>1. i \in 1 .. Len(s) \/ i = Len(s) + 1
    BY <1>1
  <2> QED
    BY <1>1, <1>2, <1>3, <1>4, <2>1
<1>6. v = w
  BY <1>3, <1>4, <1>5
<1> QED
  BY <1>6 DEF m, u, v, w

LEMMA MappedTail ==
    ASSUME NEW S, NEW s \in Seq(S), s # <<>>, NEW f
    PROVE  /\ Mapped(f, s) # <<>> /\ Head(Mapped(f, s)) = f[Head(s)]
           /\ Mapped(f, Tail(s)) = Tail(Mapped(f, s))
<1> DEFINE V == Values(f, S)
           m == Mapped(f, s)
           u == Tail(s)
           v == Tail(m)
           w == Mapped(f, u)
<1>0. Mapped(f, s) \in Seq(Values(f, S)) /\ Len(Mapped(f, s)) = Len(s)
      /\ \A i \in 1 .. Len(s) : Mapped(f, s)[i] = f[s[i]]
  BY MappedList
<1>1. /\ m \in Seq(V) /\ Len(m) = Len(s) /\ Len(s) \in Nat \ {0}
      /\ \A i \in 1 .. Len(s) : m[i] = f[s[i]]
  BY <1>0
<1>2. /\ u \in Seq(S) /\ Len(u) = Len(s) - 1 /\ Head(s) = s[1]
      /\ \A i \in 1 .. Len(s) - 1 : u[i] = s[i + 1]
  OBVIOUS
<1> HIDE DEF m, u, V
<1>3. /\ v \in Seq(V) /\ Len(v) = Len(s) - 1 /\ m # <<>> /\ Head(m) = m[1]
      /\ \A i \in 1 .. Len(s) - 1 : v[i] = m[i + 1]
  BY <1>1
<1>4. /\ w \in Seq(V) /\ Len(w) = Len(s) - 1
      /\ \A i \in 1 .. Len(s) - 1 : w[i] = f[u[i]]
  <2>0. /\ Mapped(f, u) \in Seq(Values(f, S)) /\ Len(Mapped(f, u)) = Len(u)
        /\ \A i \in 1 .. Len(u) : Mapped(f, u)[i] = f[u[i]]
    BY <1>2, MappedList
  <2>1. /\ w \in Seq(V) /\ Len(w) = Len(u)
        /\ \A i \in 1 .. Len(u) : w[i] = f[u[i]]
    BY <2>0 DEF V
  <2> HIDE DEF w
  <2> QED
    BY <1>2, <2>1
<1> HIDE DEF v, w
<1>5. \A i \in 1 .. Len(s) - 1 : v[i] = w[i]
  <2> SUFFICES ASSUME NEW i \in 1 .. Len(s) - 1 PROVE v[i] = w[i]
    OBVIOUS
  <2>1. i + 1 \in 1 .. Len(s)
    BY <1>1
  <2> QED
    BY <1>1, <1>2, <1>3, <1>4, <2>1
<1>6. v = w
  BY <1>3, <1>4, <1>5
<1>7. 1 \in 1 .. Len(s)
  BY <1>1
<1> QED
  BY <1>1, <1>2, <1>3, <1>6, <1>7 DEF m, u, v, w
=============================================================================
