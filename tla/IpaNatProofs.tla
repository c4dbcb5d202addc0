---------------------------- MODULE IpaNatProofs ----------------------------
(***************************************************************************)
(* The NAT table of the IPA hardware, for tables of every size, every set  *)
(* of connections and every hash.                                          *)
(***************************************************************************)
EXTENDS IpaNat, FiniteSetTheorems, SequenceTheorems, WellFoundedInduction, TLAPS

-----------------------------------------------------------------------------
(* Chains: Chain(next, e) is the least set that has e and is closed under  *)
(* next.                                                                   *)

Links == [Entries -> Link]

Closed(next, S) == \A x \in S : next[x] # 0 => next[x] \in S

\* Where the links of S lead to.
Onward(next, S) == {next[x] : x \in S} \ {0}

\* The function that Chain computes, up to n links from e.
IsReach(f, next, e, n) ==
  f = [k \in 0 .. n |->
         IF k = 0 THEN {e}
         ELSE LET S == f[k - 1] IN S \cup ({next[x] : x \in S} \ {0})]

\* A set of numbers that has 0, and the next of each, has them all.
LEMMA EveryNumber ==
  ASSUME NEW N, 0 \in N, \A n \in Nat : n \in N => n + 1 \in N
  PROVE  Nat \subseteq N
<1> SUFFICES ASSUME Nat \ N # {} PROVE FALSE
  OBVIOUS
<1>1. PICK m \in Nat \ N : \A k \in Nat \ N : ~(<<k, m>> \in OpToRel(<, Nat))
  BY NatLessThanWellFounded, WFMin, Zenon
<1>2. m # 0 /\ m - 1 \in Nat
  OBVIOUS
<1>3. m - 1 \in N
  <2>1. <<m - 1, m>> \in OpToRel(<, Nat)
    BY <1>2 DEF OpToRel
  <2> QED
    BY <1>1, <1>2, <2>1
<1> QED
  BY <1>2, <1>3

\* The least of a set of numbers.
LEMMA LeastNumber ==
  ASSUME NEW S \in SUBSET Nat, S # {}
  PROVE  Min(S) \in S /\ \A n \in S : Min(S) <= n
<1>1. PICK m \in S : \A k \in S : ~(<<k, m>> \in OpToRel(<, Nat))
  BY NatLessThanWellFounded, WFMin, Zenon
<1>2. \A k \in S : m <= k
  <2> SUFFICES ASSUME NEW k \in S, ~(m <= k) PROVE FALSE
    OBVIOUS
  <2>1. k \in Nat /\ m \in Nat /\ k < m
    OBVIOUS
  <2>2. <<k, m>> \in OpToRel(<, Nat)
    BY <2>1 DEF OpToRel
  <2> QED
    BY <1>1, <2>2
<1> QED
  BY <1>2 DEF Min

LEMMA ReachExists ==
  ASSUME NEW next, NEW e
  PROVE  \A n \in Nat : \E f : IsReach(f, next, e, n)
<1> DEFINE N == {n \in Nat : \E f : IsReach(f, next, e, n)}
<1>1. 0 \in N
  <2> DEFINE f == [k \in 0 .. 0 |-> {e}]
  <2>1. IsReach(f, next, e, 0)
    BY DEF IsReach
  <2> QED
    BY <2>1
<1>2. ASSUME NEW n \in Nat, n \in N
      PROVE  n + 1 \in N
  <2>1. PICK f : IsReach(f, next, e, n)
    BY <1>2
  <2> DEFINE last == f[n] \cup ({next[x] : x \in f[n]} \ {0})
             g == [k \in 0 .. n + 1 |-> IF k = n + 1 THEN last ELSE f[k]]
  <2>2. \A k \in 0 .. n : f[k] = IF k = 0 THEN {e}
             ELSE f[k - 1] \cup ({next[x] : x \in f[k - 1]} \ {0})
    BY <2>1 DEF IsReach
  <2>3. /\ \A k \in 0 .. n : g[k] = f[k]
        /\ g[n + 1] = last
    OBVIOUS
  <2>4. \A k \in 0 .. n + 1 : g[k] = IF k = 0 THEN {e}
             ELSE g[k - 1] \cup ({next[x] : x \in g[k - 1]} \ {0})
    <3> SUFFICES ASSUME NEW k \in 0 .. n + 1
                 PROVE  g[k] = IF k = 0 THEN {e}
                          ELSE g[k - 1] \cup ({next[x] : x \in g[k - 1]} \ {0})
      OBVIOUS
    <3>1. CASE k = n + 1
      <4>1. k # 0 /\ k - 1 = n /\ g[k - 1] = f[n]
        BY <2>3, <3>1
      <4> QED
        BY <2>3, <3>1, <4>1
    <3>2. CASE k # n + 1
      <4>1. k \in 0 .. n /\ (k # 0 => k - 1 \in 0 .. n)
        BY <3>2
      <4> HIDE DEF g
      <4> QED
        BY <2>2, <2>3, <4>1
    <3> QED
      BY <3>1, <3>2
  <2>5. IsReach(g, next, e, n + 1)
    BY <2>4 DEF IsReach
  <2> QED
    BY <2>5
<1> HIDE DEF N
<1>3. Nat \subseteq N
  BY <1>1, <1>2, EveryNumber
<1> QED
  BY <1>3 DEF N

LEMMA EntriesFinite ==
  IsFiniteSet(Entries) /\ Cardinality(Entries) = T + E - 2
<1> USE HashAssumption DEF HashAssumption
<1>1. IsFiniteSet(BaseEntries) /\ Cardinality(BaseEntries) = T - 1
  BY FS_Interval DEF BaseEntries
<1>2. IsFiniteSet(ExpnEntries) /\ Cardinality(ExpnEntries) = E - 1
  BY FS_Interval DEF ExpnEntries
<1>3. BaseEntries \cap ExpnEntries = {}
  BY DEF BaseEntries, ExpnEntries
<1>4. Cardinality(BaseEntries \cap ExpnEntries) = 0
  BY <1>3, FS_EmptySet
<1>5. IsFiniteSet(Entries)
  BY <1>1, <1>2, FS_Union DEF Entries
<1>6. Cardinality(Entries) = Cardinality(BaseEntries) + Cardinality(ExpnEntries)
                               - Cardinality(BaseEntries \cap ExpnEntries)
  BY <1>1, <1>2, FS_Union DEF Entries
<1> QED
  BY <1>1, <1>2, <1>4, <1>5, <1>6

\* It starts from {e}, and takes in the next of each entry.
Spreads(f, next, n) ==
  \A k \in Nat : k + 1 <= n => f[k + 1] = f[k] \cup Onward(next, f[k])

LEMMA ReachSteps ==
  ASSUME NEW next, NEW e, NEW n \in Nat, NEW f, IsReach(f, next, e, n)
  PROVE  f[0] = {e} /\ Spreads(f, next, n)
<1>1. f[0] = {e}
  BY DEF IsReach
<1>2. ASSUME NEW k \in Nat, k + 1 <= n
      PROVE  f[k + 1] = f[k] \cup Onward(next, f[k])
  <2>1. k + 1 \in 0 .. n /\ k + 1 # 0 /\ (k + 1) - 1 = k
    BY <1>2
  <2>2. \A j \in 0 .. n : j # 0 => f[j] = f[j - 1] \cup Onward(next, f[j - 1])
    BY DEF IsReach, Onward
  <2> QED
    BY <2>1, <2>2
<1> QED
  BY <1>1, <1>2 DEF Spreads

LEMMA ChainIsReach ==
  ASSUME NEW next, NEW e
  PROVE  \E f : IsReach(f, next, e, Cardinality(Entries))
                /\ Chain(next, e) = f[Cardinality(Entries)]
<1> DEFINE f == CHOOSE f : IsReach(f, next, e, Cardinality(Entries))
<1>1. Cardinality(Entries) \in Nat
  BY EntriesFinite, FS_CardinalityType
<1>2. IsReach(f, next, e, Cardinality(Entries))
  BY <1>1, ReachExists
<1>3. Chain(next, e) = f[Cardinality(Entries)]
  BY DEF Chain, IsReach
<1> QED
  BY <1>2, <1>3

\* Chain(next, e) has e, is closed under next, and is within every such set.
LEMMA ChainIsLeast ==
  ASSUME NEW next \in Links, NEW e \in Entries
  PROVE  /\ e \in Chain(next, e)
         /\ Chain(next, e) \subseteq Entries
         /\ Closed(next, Chain(next, e))
         /\ \A S : e \in S /\ Closed(next, S) => Chain(next, e) \subseteq S
<1> DEFINE C == Cardinality(Entries)
<1>1. C \in Nat /\ IsFiniteSet(Entries)
  BY EntriesFinite, FS_CardinalityType
<1>0. PICK f : IsReach(f, next, e, C) /\ Chain(next, e) = f[C]
  BY ChainIsReach
<1> HIDE DEF C
<1>2. f[0] = {e}
  BY <1>0, <1>1, ReachSteps
<1>3. \A k \in Nat : k + 1 <= C => f[k + 1] = f[k] \cup ({next[x] : x \in f[k]} \ {0})
  <2>1. Spreads(f, next, C)
    BY <1>0, <1>1, ReachSteps
  <2> QED
    BY <2>1 DEF Onward, Spreads
<1> DEFINE Of(k) == /\ e \in f[k] /\ f[k] \subseteq Entries
                    /\ \A S : e \in S /\ Closed(next, S) => f[k] \subseteq S
                    /\ Closed(next, f[k]) \/ Cardinality(f[k]) >= k + 1
           N == {k \in Nat : k <= C => Of(k)}
<1>4. 0 \in N
  <2>1. Cardinality(f[0]) = 1
    BY <1>2, FS_Singleton
  <2>2. Of(0)
    BY <1>2, <2>1
  <2> HIDE DEF Of
  <2> QED
    BY <2>2
<1>5. ASSUME NEW k \in Nat, k \in N
      PROVE  k + 1 \in N
  <2> SUFFICES ASSUME k + 1 <= C PROVE Of(k + 1)
    OBVIOUS
  <2>1. Of(k)
    <3> HIDE DEF Of
    <3> QED
      BY <1>1, <1>5
  <2>2. f[k + 1] = f[k] \cup ({next[x] : x \in f[k]} \ {0})
    BY <1>3
  <2>3. e \in f[k + 1] /\ f[k] \subseteq f[k + 1]
    BY <2>1, <2>2
  <2>4. f[k + 1] \subseteq Entries
    BY <2>1, <2>2 DEF Links, Link
  <2>5. ASSUME NEW S, e \in S, Closed(next, S)
        PROVE  f[k + 1] \subseteq S
    <3>1. f[k] \subseteq S
      BY <2>1, <2>5
    <3> QED
      BY <2>2, <2>5, <3>1 DEF Closed
  <2>6. Closed(next, f[k + 1]) \/ Cardinality(f[k + 1]) >= k + 2
    <3>1. CASE Closed(next, f[k])
      <4>1. f[k + 1] = f[k]
        BY <2>2, <3>1 DEF Closed
      <4> QED
        BY <3>1, <4>1
    <3>2. CASE ~Closed(next, f[k])
      <4>1. PICK x \in f[k] : next[x] # 0 /\ next[x] \notin f[k]
        BY <3>2 DEF Closed
      <4>2. next[x] \in f[k + 1] /\ next[x] \notin f[k]
        BY <2>2, <4>1
      <4>3. IsFiniteSet(f[k + 1]) /\ IsFiniteSet(f[k])
        BY <1>1, <2>1, <2>4, FS_Subset
      <4>4. Cardinality(f[k]) < Cardinality(f[k + 1])
        <5>1. /\ Cardinality(f[k]) <= Cardinality(f[k + 1])
              /\ Cardinality(f[k + 1]) = Cardinality(f[k]) => f[k + 1] = f[k]
          BY <2>3, <4>3, FS_Subset
        <5> QED
          BY <4>2, <4>3, <5>1, FS_CardinalityType
      <4>5. Cardinality(f[k]) \in Nat /\ Cardinality(f[k + 1]) \in Nat
        BY <4>3, FS_CardinalityType
      <4> QED
        BY <2>1, <3>2, <4>4, <4>5
    <3> QED
      BY <3>1, <3>2
  <2> QED
    BY <2>3, <2>4, <2>5, <2>6
<1>6. Nat \subseteq N
  <2> HIDE DEF N
  <2> QED
    BY <1>4, <1>5, EveryNumber
<1>7. Of(C)
  <2> HIDE DEF Of
  <2> QED
    BY <1>1, <1>6
<1>8. Closed(next, f[C])
  <2>1. Cardinality(f[C]) <= C
    BY <1>1, <1>7, FS_Subset DEF C
  <2>2. Cardinality(f[C]) \in Nat
    BY <1>1, <1>7, FS_Subset, FS_CardinalityType
  <2> QED
    BY <1>1, <1>7, <2>1, <2>2
<1> QED
  BY <1>0, <1>7, <1>8

-----------------------------------------------------------------------------
(* A hash table with chaining: the entries in use, the base entry `key' of *)
(* each, and the links from it.                                            *)

Chained(next, prev, used, key) ==
  /\ next \in Links
  /\ used \subseteq Entries
  /\ \A e \in Entries \ used : next[e] = 0
  /\ \A e \in used : key[e] \in BaseEntries /\ e \in Chain(next, key[e])
  /\ \A e \in Entries : next[e] # 0 =>
       /\ next[e] \in ExpnEntries \cap used
       /\ prev[next[e]] = e
       /\ key[next[e]] = key[e]

LEMMA EntryKinds ==
  /\ BaseEntries \subseteq Entries /\ ExpnEntries \subseteq Entries
  /\ BaseEntries \cap ExpnEntries = {}
  /\ 0 \notin Entries
  /\ \A e \in Entries : e \in Nat /\ (e \in BaseEntries <=> e < T) /\ (e \in ExpnEntries <=> e >= T)
BY HashAssumption DEF HashAssumption, BaseEntries, ExpnEntries, Entries

\* What is behind the head of a chain is in use, in the expansion table, and
\* linked to by the entry that prev names.
LEMMA BehindHead ==
  ASSUME NEW next, NEW prev, NEW used, NEW key, Chained(next, prev, used, key),
         NEW b \in BaseEntries, NEW e \in Chain(next, b), e # b
  PROVE  /\ e \in ExpnEntries \cap used
         /\ prev[e] \in Chain(next, b) /\ next[prev[e]] = e
         /\ key[e] = key[b]
<1> DEFINE C == Chain(next, b)
           Fine(y) == /\ y \in ExpnEntries \cap used
                      /\ prev[y] \in C /\ next[prev[y]] = y
                      /\ key[y] = key[b]
           S == {y \in C : y = b \/ Fine(y)}
<1>1. next \in Links /\ b \in Entries
  BY EntryKinds DEF Chained
<1>2. b \in C /\ C \subseteq Entries /\ Closed(next, C)
  BY <1>1, ChainIsLeast
<1>3. Closed(next, S)
  <2> SUFFICES ASSUME NEW y \in S, next[y] # 0 PROVE next[y] \in S
    BY DEF Closed
  <2>1. y \in Entries /\ next[y] \in C
    BY <1>2 DEF Closed
  <2>2. next[y] \in ExpnEntries \cap used /\ prev[next[y]] = y /\ key[next[y]] = key[y]
    BY <2>1 DEF Chained
  <2>3. key[y] = key[b]
    OBVIOUS
  <2> QED
    BY <2>1, <2>2, <2>3
<1>4. b \in S
  BY <1>2
<1>5. C \subseteq S
  BY <1>1, <1>3, <1>4, ChainIsLeast
<1> QED
  BY <1>5

\* The head of a chain is in use, and its key is itself.
LEMMA HeadOfChain ==
  ASSUME NEW next, NEW prev, NEW used, NEW key, Chained(next, prev, used, key), NEW e \in used
  PROVE  key[e] \in used /\ key[key[e]] = key[e]
<1>1. /\ next \in Links /\ key[e] \in BaseEntries /\ key[e] \in Entries
      /\ e \in Chain(next, key[e])
  BY EntryKinds DEF Chained
<1>2. key[e] \in used
  <2> SUFFICES ASSUME key[e] \notin used PROVE FALSE
    OBVIOUS
  <2>1. next[key[e]] = 0
    BY <1>1 DEF Chained
  <2>2. Closed(next, {key[e]})
    BY <2>1 DEF Closed
  <2>3. Chain(next, key[e]) \subseteq {key[e]}
    BY <1>1, <2>2, ChainIsLeast
  <2> QED
    BY <1>1, <2>3
<1>3. key[key[e]] \in BaseEntries /\ key[e] \in Chain(next, key[key[e]])
  BY <1>2 DEF Chained
<1> QED
  BY <1>1, <1>2, <1>3, BehindHead, EntryKinds

LEMMA KeyOfHead ==
  ASSUME NEW next, NEW prev, NEW used, NEW key, Chained(next, prev, used, key),
         NEW b \in used, b \in BaseEntries
  PROVE  key[b] = b
<1>1. key[b] \in BaseEntries /\ b \in Chain(next, key[b])
  BY DEF Chained
<1> QED
  BY <1>1, BehindHead, EntryKinds

\* An entry of the expansion table has the entry before it, another one.
LEMMA EntryBefore ==
  ASSUME NEW next, NEW prev, NEW used, NEW key, Chained(next, prev, used, key),
         NEW x \in used, x \in ExpnEntries
  PROVE  /\ prev[x] \in used /\ next[prev[x]] = x /\ prev[x] # x
         /\ key[prev[x]] = key[x] /\ next[x] # x
<1> DEFINE k == key[x]
           S == Chain(next, k) \ {x}
<1>1. k \in BaseEntries /\ x \in Chain(next, k) /\ k # x /\ k \in Entries /\ next \in Links
  BY EntryKinds DEF Chained
<1>2. prev[x] \in Chain(next, k) /\ next[prev[x]] = x
  BY <1>1, BehindHead
<1>3. Chain(next, k) \subseteq Entries /\ k \in Chain(next, k) /\ Closed(next, Chain(next, k))
  BY <1>1, ChainIsLeast
<1>4. prev[x] \in Entries /\ x # 0
  BY <1>2, <1>3, EntryKinds DEF Chained
<1>5. prev[x] \in used /\ key[prev[x]] = key[x]
  BY <1>2, <1>4 DEF Chained
<1>6. prev[x] # x
  <2> SUFFICES ASSUME prev[x] = x PROVE FALSE
    OBVIOUS
  <2>1. Closed(next, S)
    <3> SUFFICES ASSUME NEW y \in S, next[y] # 0 PROVE next[y] \in S
      BY DEF Closed
    <3>1. y \in Entries /\ next[y] \in Chain(next, k)
      BY <1>3 DEF Closed
    <3>2. prev[next[y]] = y
      BY <3>1 DEF Chained
    <3> QED
      BY <3>1, <3>2
  <2>2. Chain(next, k) \subseteq S
    <3>1. k \in S
      BY <1>1, <1>3
    <3> QED
      BY <1>1, <2>1, <3>1, ChainIsLeast
  <2> QED
    BY <1>1, <2>2
<1>7. next[x] # x
  <2> SUFFICES ASSUME next[x] = x PROVE FALSE
    OBVIOUS
  <2>1. x \in Entries /\ prev[x] = x
    BY <1>1, <1>3, <1>4 DEF Chained
  <2> QED
    BY <1>6, <2>1
<1> QED
  BY <1>2, <1>5, <1>6, <1>7

\* A chain has an end: as many entries as it has cannot all link to those
\* behind its head.
LEMMA ChainEnds ==
  ASSUME NEW next, NEW prev, NEW used, NEW key, Chained(next, prev, used, key),
         NEW b \in BaseEntries
  PROVE  \E x \in Chain(next, b) : next[x] = 0
<1> DEFINE C == Chain(next, b)
           f == [x \in C |-> next[x]]
<1> SUFFICES ASSUME \A x \in C : next[x] # 0 PROVE FALSE
  OBVIOUS
<1>1. next \in Links /\ b \in Entries
  BY EntryKinds DEF Chained
<1>2. b \in C /\ C \subseteq Entries /\ Closed(next, C)
  BY <1>1, ChainIsLeast
<1>3. IsFiniteSet(C)
  BY <1>2, EntriesFinite, FS_Subset
<1>4. f \in [C -> C \ {b}]
  <2> SUFFICES ASSUME NEW x \in C PROVE next[x] \in C \ {b}
    OBVIOUS
  <2>1. next[x] \in C
    BY <1>2 DEF Closed
  <2>2. next[x] \in ExpnEntries
    BY <1>2 DEF Chained
  <2> QED
    BY <2>1, <2>2, EntryKinds
<1>5. IsFiniteSet(C \ {b}) /\ Cardinality(C \ {b}) < Cardinality(C)
  <2>1. C \ {b} \in SUBSET C /\ C \ {b} # C
    BY <1>2
  <2>2. /\ IsFiniteSet(C \ {b}) /\ Cardinality(C \ {b}) <= Cardinality(C)
        /\ Cardinality(C) = Cardinality(C \ {b}) => C = C \ {b}
    BY <1>3, <2>1, FS_Subset
  <2> QED
    BY <1>3, <2>1, <2>2, FS_CardinalityType
<1>6. PICK x, y \in C : x # y /\ f[x] = f[y]
  <2> DEFINE D == C \ {b}
  <2>1. /\ IsFiniteSet(C) /\ IsFiniteSet(D) /\ Cardinality(D) < Cardinality(C)
        /\ f \in [C -> D]
    BY <1>3, <1>4, <1>5
  <2> HIDE DEF C, D, f
  <2> QED
    BY <2>1, FS_PigeonHole
<1>7. next[x] = next[y] /\ next[x] # 0 /\ x \in Entries /\ y \in Entries
  BY <1>2, <1>6
<1>8. prev[next[x]] = x /\ prev[next[y]] = y
  BY <1>7 DEF Chained
<1> QED
  BY <1>6, <1>7, <1>8

\* ... and only one.
LEMMA OneEnd ==
  ASSUME NEW next \in Links, NEW b \in Entries,
         NEW x \in Chain(next, b), next[x] = 0, NEW y \in Chain(next, b), next[y] = 0
  PROVE  x = y
<1> DEFINE C == Chain(next, b)
           S == {z \in C : x \in Chain(next, z)}
<1>1. b \in C /\ C \subseteq Entries /\ Closed(next, C)
  BY ChainIsLeast
<1>2. ASSUME NEW z \in S, next[z] # 0
      PROVE  next[z] \in S
  <2> DEFINE D == Chain(next, next[z])
  <2>1. z \in Entries /\ next[z] \in C /\ next[z] \in Entries
    BY <1>1, <1>2 DEF Closed
  <2>2. next[z] \in D /\ Closed(next, D)
    BY <2>1, ChainIsLeast
  <2>3. Closed(next, D \cup {z})
    BY <2>2 DEF Closed
  <2>4. Chain(next, z) \subseteq D \cup {z}
    BY <2>1, <2>3, ChainIsLeast
  <2>5. x # z
    BY <1>2
  <2> QED
    BY <1>2, <2>1, <2>4, <2>5
<1>3. b \in S /\ Closed(next, S)
  BY <1>1, <1>2 DEF Closed
<1>4. y \in S
  BY <1>3, ChainIsLeast
<1>5. Chain(next, y) \subseteq {y}
  <2>1. Closed(next, {y})
    BY DEF Closed
  <2> QED
    BY <1>1, <2>1, ChainIsLeast
<1> QED
  BY <1>4, <1>5

\* What a new rule is linked to: the end of the chain, which is in use.
LEMMA LastOfChain ==
  ASSUME NEW next, NEW prev, NEW used, NEW key, Chained(next, prev, used, key),
         NEW b \in BaseEntries, b \in used
  PROVE  /\ LastOf(next, b) \in Chain(next, b) /\ next[LastOf(next, b)] = 0
         /\ LastOf(next, b) \in used /\ key[LastOf(next, b)] = b
<1> DEFINE x == LastOf(next, b)
<1>1. x \in Chain(next, b) /\ next[x] = 0
  BY ChainEnds DEF LastOf
<1>2. key[b] = b
  BY KeyOfHead
<1>3. CASE x = b
  BY <1>1, <1>2, <1>3
<1>4. CASE x # b
  BY <1>1, <1>2, <1>4, BehindHead
<1> QED
  BY <1>1, <1>3, <1>4

-----------------------------------------------------------------------------
(* What becomes of a chain when links are written.                         *)

\* A link from the end of a chain loses nothing.
LEMMA ChainGrows ==
  ASSUME NEW next \in Links, NEW l \in Entries, next[l] = 0, NEW x \in Entries,
         NEW b \in Entries
  PROVE  Chain(next, b) \subseteq Chain([next EXCEPT ![l] = x], b)
<1> DEFINE next2 == [next EXCEPT ![l] = x]
           C == Chain(next2, b)
<1>1. next2 \in Links /\ \A y \in Entries : y # l => next2[y] = next[y]
  BY DEF Links, Link
<1> HIDE DEF next2
<1>2. b \in C /\ C \subseteq Entries /\ Closed(next2, C)
  BY <1>1, ChainIsLeast
<1>3. Closed(next, C)
  <2> SUFFICES ASSUME NEW y \in C, next[y] # 0 PROVE next[y] \in C
    BY DEF Closed
  <2>1. y # l /\ y \in Entries
    BY <1>2
  <2> QED
    BY <1>1, <1>2, <2>1 DEF Closed
<1>4. Chain(next, b) \subseteq C
  BY <1>2, <1>3, ChainIsLeast
<1> QED
  BY <1>4 DEF next2

\* When the entry before x is linked to the one behind it, nothing but x is lost,
\* whatever x itself links to.
LEMMA Bypass ==
  ASSUME NEW next, NEW prev, NEW used, NEW key, Chained(next, prev, used, key),
         NEW x \in used, x \in ExpnEntries, NEW next2 \in Links,
         \A y \in Entries : y # prev[x] /\ y # x => next2[y] = next[y],
         next2[prev[x]] = next[x], NEW b \in BaseEntries
  PROVE  Chain(next, b) \ {x} \subseteq Chain(next2, b)
<1> DEFINE C == Chain(next2, b)
           p == prev[x]
           S == (C \ {x}) \cup {y \in {x} : p \in C}
<1>1. next \in Links /\ b \in Entries /\ b # x
  BY EntryKinds DEF Chained
<1>2. b \in C /\ C \subseteq Entries /\ Closed(next2, C)
  BY <1>1, ChainIsLeast
<1>3. p # x /\ next[p] = x /\ next[x] # x /\ p \in Entries /\ x # 0
  <2>1. p \in used /\ next[p] = x /\ p # x /\ next[x] # x
    BY EntryBefore
  <2> QED
    BY <2>1, EntryKinds DEF Chained
<1>4. ASSUME NEW y \in S, next[y] # 0
      PROVE  next[y] \in S
  <2>1. CASE y = x
    <3>1. p \in C /\ next2[p] = next[x]
      BY <2>1
    <3>2. next[x] \in C
      BY <1>2, <1>4, <2>1, <3>1 DEF Closed
    <3> QED
      BY <1>3, <2>1, <3>2
  <2>2. CASE y = p
    BY <1>3, <1>4, <2>2
  <2>3. CASE y # x /\ y # p
    <3>1. y \in C /\ y \in Entries /\ next2[y] = next[y]
      BY <1>2, <1>4, <2>3
    <3>2. next[y] \in C
      BY <1>2, <1>4, <3>1 DEF Closed
    <3>3. prev[next[y]] = y
      BY <1>4, <3>1 DEF Chained
    <3>4. next[y] # x
      BY <2>3, <3>3
    <3> QED
      BY <3>2, <3>4
  <2> QED
    BY <2>1, <2>2, <2>3
<1>5. b \in S /\ Closed(next, S)
  BY <1>1, <1>2, <1>4 DEF Closed
<1>6. Chain(next, b) \subseteq S
  BY <1>1, <1>5, ChainIsLeast
<1> QED
  BY <1>6

-----------------------------------------------------------------------------
(* Additions and deletions.  The keys and links that do not matter any     *)
(* more, those of entries not in use, may be anything.                     *)

\* What keeps its links, key and place keeps its chain.
LEMMA SameChained ==
  ASSUME NEW next, NEW prev, NEW used, NEW key, Chained(next, prev, used, key),
         NEW prev2, NEW key2,
         \A e \in used : key2[e] = key[e],
         \A e \in used : e \in ExpnEntries => prev2[e] = prev[e]
  PROVE  Chained(next, prev2, used, key2)
BY DEF Chained

LEMMA HeadInserted ==
  ASSUME NEW next, NEW prev, NEW used, NEW key, Chained(next, prev, used, key),
         NEW b \in BaseEntries, b \notin used, NEW key2, key2[b] = b,
         \A e \in used : key2[e] = key[e]
  PROVE  Chained(next, prev, used \cup {b}, key2)
<1>1. b \in Entries /\ next \in Links /\ next[b] = 0 /\ b \notin ExpnEntries
  BY EntryKinds DEF Chained
<1>2. b \in Chain(next, b)
  BY <1>1, ChainIsLeast
<1>3. ASSUME NEW e \in Entries, next[e] # 0
      PROVE  /\ next[e] \in ExpnEntries \cap (used \cup {b}) /\ prev[next[e]] = e
             /\ key2[next[e]] = key2[e]
  <2>1. e \in used /\ next[e] \in ExpnEntries \cap used /\ prev[next[e]] = e
        /\ key[next[e]] = key[e]
    BY <1>3 DEF Chained
  <2> QED
    BY <2>1
<1> QED
  BY <1>1, <1>2, <1>3 DEF Chained

LEMMA TailInserted ==
  ASSUME NEW next, NEW prev, NEW used, NEW key, Chained(next, prev, used, key),
         NEW l \in used, next[l] = 0, NEW x \in ExpnEntries, x \notin used,
         NEW prev2, prev2[x] = l, \A e \in used : e \in ExpnEntries => prev2[e] = prev[e],
         NEW key2, key2[x] = key[l], \A e \in used : key2[e] = key[e]
  PROVE  Chained([next EXCEPT ![l] = x], prev2, used \cup {x}, key2)
<1> DEFINE next2 == [next EXCEPT ![l] = x]
<1>1. next \in Links /\ x \in Entries /\ l \in Entries /\ next[x] = 0 /\ l # x
  BY EntryKinds DEF Chained
<1>2. next2 \in Links /\ next2[l] = x /\ \A y \in Entries : y # l => next2[y] = next[y]
  BY <1>1 DEF Links, Link
<1>3. \A b \in Entries : Chain(next, b) \subseteq Chain(next2, b)
  BY <1>1, ChainGrows
<1> HIDE DEF next2
<1>4. ASSUME NEW e \in used
      PROVE  key2[e] \in BaseEntries /\ e \in Chain(next2, key2[e])
  BY <1>3, EntryKinds DEF Chained
<1>5. x \in Chain(next2, key2[x]) /\ key2[x] \in BaseEntries
  <2>1. key2[l] \in BaseEntries /\ l \in Chain(next2, key2[l]) /\ key2[l] = key2[x]
    BY <1>4
  <2>2. Closed(next2, Chain(next2, key2[l]))
    BY <1>2, <2>1, ChainIsLeast, EntryKinds
  <2>3. x # 0
    BY <1>1, EntryKinds
  <2> QED
    BY <1>2, <2>1, <2>2, <2>3 DEF Closed
<1>6. ASSUME NEW e \in Entries, next2[e] # 0
      PROVE  /\ next2[e] \in ExpnEntries \cap (used \cup {x}) /\ prev2[next2[e]] = e
             /\ key2[next2[e]] = key2[e]
  <2>1. CASE e = l
    BY <1>2, <2>1
  <2>2. CASE e # l
    <3>1. next2[e] = next[e] /\ next[e] # 0
      BY <1>2, <1>6, <2>2
    <3>2. e \in used /\ next[e] \in ExpnEntries /\ next[e] \in used /\ prev[next[e]] = e
          /\ key[next[e]] = key[e]
      BY <3>1 DEF Chained
    <3> QED
      BY <3>1, <3>2
  <2> QED
    BY <2>1, <2>2
<1>7. \A e \in Entries \ (used \cup {x}) : next2[e] = 0
  BY <1>2 DEF Chained
<1>8. used \cup {x} \subseteq Entries
  BY <1>1 DEF Chained
<1>9. Chained(next2, prev2, used \cup {x}, key2)
  BY <1>2, <1>4, <1>5, <1>6, <1>7, <1>8 DEF Chained
<1> QED
  BY <1>9 DEF next2

LEMMA HeadsRemoved ==
  ASSUME NEW next, NEW prev, NEW used, NEW key, Chained(next, prev, used, key),
         NEW D \in SUBSET BaseEntries, \A e \in D : next[e] = 0
  PROVE  Chained(next, prev, used \ D, key)
<1>1. D \cap ExpnEntries = {} /\ D \subseteq Entries
  BY EntryKinds
<1> QED
  BY <1>1 DEF Chained

LEMMA Unlinked ==
  ASSUME NEW next, NEW prev, NEW used, NEW key, Chained(next, prev, used, key),
         NEW x \in used, x \in ExpnEntries,
         NEW next2 \in Links, next2[prev[x]] = next[x], next2[x] = 0,
         \A y \in Entries : y # prev[x] /\ y # x => next2[y] = next[y],
         NEW prev2,
         \A e \in used \ {x} : e \in ExpnEntries =>
             prev2[e] = IF e = next[x] THEN prev[x] ELSE prev[e],
         NEW key2, \A e \in used \ {x} : key2[e] = key[e]
  PROVE  Chained(next2, prev2, used \ {x}, key2)
<1> DEFINE p == prev[x]
<1>1. /\ p \in used /\ next[p] = x /\ p # x /\ key[p] = key[x] /\ next[x] # x
      /\ used \subseteq Entries /\ next \in Links /\ x # 0
  <2>1. p \in used /\ next[p] = x /\ p # x /\ key[p] = key[x] /\ next[x] # x
    BY EntryBefore
  <2> QED
    BY <2>1, EntryKinds DEF Chained
<1>2. ASSUME NEW e \in used \ {x}
      PROVE  key2[e] \in BaseEntries /\ e \in Chain(next2, key2[e])
  <2>1. key[e] \in BaseEntries /\ e \in Chain(next, key[e]) /\ key2[e] = key[e]
    BY DEF Chained
  <2>2. Chain(next, key[e]) \ {x} \subseteq Chain(next2, key[e])
    BY <2>1, Bypass
  <2> QED
    BY <2>1, <2>2
<1>3. ASSUME NEW e \in Entries, next2[e] # 0
      PROVE  /\ next2[e] \in ExpnEntries \cap (used \ {x}) /\ prev2[next2[e]] = e
             /\ key2[next2[e]] = key2[e]
  <2>0. e # x
    BY <1>3
  <2>1. CASE e = p
    <3>1. next2[e] = next[x] /\ next[x] # 0 /\ x \in Entries
      BY <1>1, <1>3, <2>1
    <3>2. next[x] \in ExpnEntries \cap used /\ key[next[x]] = key[x]
      BY <3>1 DEF Chained
    <3>3. next[x] \in used \ {x} /\ p \in used \ {x}
      BY <1>1, <3>2
    <3> QED
      BY <1>1, <2>1, <3>1, <3>2, <3>3
  <2>2. CASE e # p
    <3>1. next2[e] = next[e] /\ next[e] # 0
      BY <1>3, <2>0, <2>2
    <3>2. next[e] \in ExpnEntries \cap used /\ prev[next[e]] = e /\ key[next[e]] = key[e]
      BY <3>1 DEF Chained
    <3>3. next[e] # x
      BY <2>2, <3>2
    <3>4. next[e] # next[x]
      <4> SUFFICES ASSUME next[e] = next[x] PROVE FALSE
        OBVIOUS
      <4>1. x \in Entries /\ next[x] # 0
        BY <1>1, <3>1
      <4>2. prev[next[x]] = x
        BY <4>1 DEF Chained
      <4> QED
        BY <2>0, <3>2, <4>2
    <3>5. e \in used \ {x}
      BY <2>0, <3>1 DEF Chained
    <3>6. next[e] \in used \ {x} /\ next[e] \in ExpnEntries
      BY <3>2, <3>3
    <3>7. prev2[next[e]] = prev[next[e]] /\ key2[next[e]] = key[next[e]] /\ key2[e] = key[e]
      BY <3>4, <3>5, <3>6
    <3> QED
      BY <3>1, <3>2, <3>6, <3>7
  <2> QED
    BY <2>1, <2>2
<1>4. \A e \in Entries \ (used \ {x}) : next2[e] = 0
  <2> SUFFICES ASSUME NEW e \in Entries, e \notin used \ {x} PROVE next2[e] = 0
    OBVIOUS
  <2>1. CASE e = x
    BY <2>1
  <2>2. CASE e # x
    BY <1>1, <2>2 DEF Chained
  <2> QED
    BY <2>1, <2>2
<1> QED
  BY <1>1, <1>2, <1>3, <1>4 DEF Chained

-----------------------------------------------------------------------------
(* Writes.                                                                 *)

\* A write replaces the fields it names.
LEMMA RuleWritten ==
  ASSUME NEW r \in Rule
  PROVE  /\ \A s \in Rule : Written(r, s) = s
         /\ \A n : Written(r, [next |-> n]) = [r EXCEPT !.next = n]
         /\ \A n : Written(r, [prev |-> n]) = [r EXCEPT !.prev = n]
         /\ \A n : Written(r, [indx |-> n]) = [r EXCEPT !.indx = n]
         /\ \A b : Written(r, [enable |-> b]) = [r EXCEPT !.enable = b]
         /\ \A b : Written(r, [dead |-> b]) = [r EXCEPT !.dead = b]
BY DEF Rule, Written

LEMMA IndexWritten ==
  ASSUME NEW x \in Index
  PROVE  /\ \A s \in Index : Written(x, s) = s
         /\ \A n : Written(x, [next |-> n]) = [x EXCEPT !.next = n]
         /\ \A n : Written(x, [rule |-> n]) = [x EXCEPT !.rule = n]
BY DEF Index, Written

-----------------------------------------------------------------------------
(* The tables between operations.                                          *)

NextIn(t) == [e \in Entries |-> t[e].next]
PrevIn(r) == [e \in Entries |-> r[e].prev]

InUse(r)    == {e \in Entries : r[e].enable}
RuleKeys(r) == [e \in Entries |-> Dst[r[e].conn]]
Live(r, e)  == r[e].enable /\ ~r[e].dead

Indexed(x)      == {i \in Entries : x[i].rule # 0}
IndexKeys(x, r) == [i \in Entries |-> Src[r[x[i].rule].conn]]

RulesGood(r) ==
  /\ r \in [Entries -> Rule]
  /\ \A e \in Entries : ~r[e].enable => r[e] = NoRule
  /\ \A e \in Entries : r[e].enable => r[e].conn \in Conns
  /\ \A e \in Entries : r[e].dead => e < T /\ r[e].next # 0
  /\ Chained(NextIn(r), PrevIn(r), InUse(r), RuleKeys(r))

IndexGood(x, p, r) ==
  /\ x \in [Entries -> Index]
  /\ p \in [ExpnEntries -> Link]
  /\ \A i \in Entries : x[i].rule # 0 => Live(r, x[i].rule) /\ r[x[i].rule].indx = i
  /\ \A e \in Entries : Live(r, e) => r[e].indx # 0 /\ x[r[e].indx].rule = e
  /\ Chained(NextIn(x), p, Indexed(x), IndexKeys(x, r))

\* Each handle given stands for a rule that matches, and each such rule has one;
\* no two of them are for one connection.
HandlesGood(h, r) ==
  /\ h \in [Handles -> Link]
  /\ \A k \in Handles : h[k] # 0 => k < T + E /\ Live(r, h[k])
  /\ \A k, l \in Handles : h[k] # 0 /\ h[k] = h[l] => k = l
  /\ \A e \in Entries : Live(r, e) => \E k \in Handles : h[k] = e
  /\ \A e, f \in Entries : Live(r, e) /\ Live(r, f) /\ r[e].conn = r[f].conn => e = f

Good(r, x, p, h) == RulesGood(r) /\ IndexGood(x, p, r) /\ HandlesGood(h, r)

-----------------------------------------------------------------------------
(* An addition under way: the tables it started from, r, x, p and h, the   *)
(* place a of the rule, behind b, and i of its index entry, behind j.      *)

\* The hash k of a new entry, and the entries it may get.
Place(next, used, key, k, at, before) ==
  \/ at = k /\ before = 0 /\ k \notin used
  \/ /\ at \in ExpnEntries \ used
     /\ before \in used /\ next[before] = 0 /\ key[before] = k

AddOf(c, a, b, i, j, k, r, x, p, h) ==
  /\ Good(r, x, p, h)
  /\ c \in Conns /\ \A e \in Entries : Live(r, e) => r[e].conn # c
  /\ Place(NextIn(r), InUse(r), RuleKeys(r), Dst[c], a, b)
  /\ Place(NextIn(x), Indexed(x), IndexKeys(x, r), Src[c], i, j)
  /\ k \in Handles /\ k < T + E /\ h[k] = 0

AddedRule(c, b, i) == [NoRule EXCEPT !.conn = c, !.prev = b, !.indx = i]
RuleCopied(r, c, a, b, i) == [r EXCEPT ![a] = AddedRule(c, b, i)]
RuleLinked(r, c, a, b, i) ==
  LET s == RuleCopied(r, c, a, b, i) IN IF b # 0 THEN [s EXCEPT ![b].next = a] ELSE s
RuleAdded(r, c, a, b, i) == [RuleLinked(r, c, a, b, i) EXCEPT ![a].enable = TRUE]

IndexCopied(x, a, i) == [x EXCEPT ![i] = [rule |-> a, next |-> 0]]
IndexLinked(x, a, i, j) ==
  LET s == IndexCopied(x, a, i) IN IF j # 0 THEN [s EXCEPT ![j].next = i] ELSE s
PrevAdded(p, i, j) == IF i >= T THEN [p EXCEPT ![i] = j] ELSE p

\* The writes that are left, from the last back to the first.
AddWrites6(a, k) == <<Write("rule_id_array", k, a)>>
AddWrites5(a, k) == <<Write("rules", a, [enable |-> TRUE])>> \o AddWrites6(a, k)
AddWrites4(a, i, j, k) ==
  IF j # 0 THEN <<Write("index", j, [next |-> i])>> \o AddWrites5(a, k) ELSE AddWrites5(a, k)
AddWrites3(a, i, j, k) ==
  <<Write("index", i, [rule |-> a, next |-> 0])>> \o AddWrites4(a, i, j, k)
AddWrites2(a, b, i, j, k) ==
  IF b # 0 THEN <<Write("rules", b, [next |-> a])>> \o AddWrites3(a, i, j, k)
  ELSE AddWrites3(a, i, j, k)
AddWrites1(c, a, b, i, j, k) ==
  <<Write("rules", a, AddedRule(c, b, i))>> \o AddWrites2(a, b, i, j, k)

\* Where the addition is.
AddAt(n, c, a, b, i, j, k, r, x) ==
  \/ n = 1 /\ todo = AddWrites1(c, a, b, i, j, k) /\ rules = r /\ index = x
  \/ n = 2 /\ todo = AddWrites2(a, b, i, j, k) /\ rules = RuleCopied(r, c, a, b, i) /\ index = x
  \/ n = 3 /\ todo = AddWrites3(a, i, j, k) /\ rules = RuleLinked(r, c, a, b, i) /\ index = x
  \/ n = 4 /\ todo = AddWrites4(a, i, j, k) /\ rules = RuleLinked(r, c, a, b, i)
     /\ index = IndexCopied(x, a, i)
  \/ n = 5 /\ todo = AddWrites5(a, k) /\ rules = RuleLinked(r, c, a, b, i)
     /\ index = IndexLinked(x, a, i, j)
  \/ n = 6 /\ todo = AddWrites6(a, k) /\ rules = RuleAdded(r, c, a, b, i)
     /\ index = IndexLinked(x, a, i, j)

Adding(c, a, b, i, j, k, r, x, p, h) ==
  /\ AddOf(c, a, b, i, j, k, r, x, p, h)
  /\ valid /\ prev_index = PrevAdded(p, i, j) /\ rule_id_array = h
  /\ \E n \in 1 .. 6 : AddAt(n, c, a, b, i, j, k, r, x)

-----------------------------------------------------------------------------
(* A deletion under way: the rule e of handle k, and its index entry i.    *)

DelOf(e, i, k, r, x, p, h) ==
  /\ Good(r, x, p, h)
  /\ k \in Handles /\ e = h[k] /\ e # 0 /\ i = r[e].indx

RuleCut(r, e) ==
  IF IsHead(NextIn(r), e) THEN [r EXCEPT ![e].dead = TRUE]
  ELSE IF e < T THEN [r EXCEPT ![e].enable = FALSE]
  ELSE [r EXCEPT ![r[e].prev].next = r[e].next]
RuleBackLinked(r, e) ==
  IF e >= T /\ r[e].next # 0 THEN [RuleCut(r, e) EXCEPT ![r[e].next].prev = r[e].prev]
  ELSE RuleCut(r, e)
RuleCleared(r, e) ==
  IF IsHead(NextIn(r), e) THEN RuleBackLinked(r, e)
  ELSE [RuleBackLinked(r, e) EXCEPT ![e] = NoRule]

IndexMoved(x, i) == [x EXCEPT ![i].rule = x[x[i].next].rule]
IndexCut(x, p, i) ==
  IF IsHead(NextIn(x), i) THEN [IndexMoved(x, i) EXCEPT ![i].next = x[x[i].next].next]
  ELSE IF i < T THEN [x EXCEPT ![i].rule = 0]
  ELSE [x EXCEPT ![p[i]].next = x[i].next]
\* The entry that is cleared in the end.
Spare(x, i) == IF IsHead(NextIn(x), i) THEN x[i].next ELSE i
IndexCleared(x, p, i) == [IndexCut(x, p, i) EXCEPT ![Spare(x, i)] = NoIndex]

\* The entry whose link backwards changes, and what it becomes.
Behind(x, i) == x[Spare(x, i)].next
Ahead(x, p, i) == IF IsHead(NextIn(x), i) THEN i ELSE p[i]
BackLinks(x, i) == Spare(x, i) >= T /\ Behind(x, i) # 0
PrevMoved(x, p, i) == IF BackLinks(x, i) THEN [p EXCEPT ![Behind(x, i)] = Ahead(x, p, i)] ELSE p
PrevCleared(x, p, i) ==
  IF BackLinks(x, i) /\ ~IsHead(NextIn(x), i) THEN [PrevMoved(x, p, i) EXCEPT ![i] = 0]
  ELSE PrevMoved(x, p, i)

\* The rule whose index entry moved into the head of the chain.
RuleMoved(r, x, e, i) ==
  IF IsHead(NextIn(x), i) THEN [RuleCleared(r, e) EXCEPT ![x[x[i].next].rule].indx = i]
  ELSE RuleCleared(r, e)
Swept(r) == [e \in Entries |-> IF e < T /\ r[e].dead /\ r[e].next = 0 THEN NoRule ELSE r[e]]

DelWrites11(k) == <<Write("rule_id_array", k, 0)>>
DelWrites10(k) == <<Sweep>> \o DelWrites11(k)
DelWrites9(i, k, x) ==
  IF IsHead(NextIn(x), i)
  THEN <<Write("rules", x[x[i].next].rule, [indx |-> i])>> \o DelWrites10(k)
  ELSE DelWrites10(k)
DelWrites8(i, k, x) == <<Write("index", Spare(x, i), NoIndex)>> \o DelWrites9(i, k, x)
DelWrites7(i, k, x) ==
  IF BackLinks(x, i) /\ ~IsHead(NextIn(x), i)
  THEN <<Write("prev_index", i, 0)>> \o DelWrites8(i, k, x)
  ELSE DelWrites8(i, k, x)
DelWrites6(i, k, x, p) ==
  IF BackLinks(x, i)
  THEN <<Write("prev_index", Behind(x, i), Ahead(x, p, i))>> \o DelWrites7(i, k, x)
  ELSE DelWrites7(i, k, x)
DelWrites5(e, i, k, r, x, p) ==
  IF ~IsHead(NextIn(r), e) THEN <<Write("rules", e, NoRule)>> \o DelWrites6(i, k, x, p)
  ELSE DelWrites6(i, k, x, p)
DelWrites4(e, i, k, r, x, p) ==
  IF e >= T /\ r[e].next # 0
  THEN <<Write("rules", r[e].next, [prev |-> r[e].prev])>> \o DelWrites5(e, i, k, r, x, p)
  ELSE DelWrites5(e, i, k, r, x, p)
RuleCmdOf(r, e) ==
  IF IsHead(NextIn(r), e) THEN Write("rules", e, [dead |-> TRUE])
  ELSE IF e < T THEN Write("rules", e, [enable |-> FALSE])
  ELSE Write("rules", r[e].prev, [next |-> r[e].next])
DelWrites3(e, i, k, r, x, p) == <<RuleCmdOf(r, e)>> \o DelWrites4(e, i, k, r, x, p)
IndexCmdOf(x, p, i) ==
  IF IsHead(NextIn(x), i) THEN Write("index", i, [next |-> x[x[i].next].next])
  ELSE IF i < T THEN Write("index", i, [rule |-> 0])
  ELSE Write("index", p[i], [next |-> x[i].next])
DelWrites2(e, i, k, r, x, p) == <<IndexCmdOf(x, p, i)>> \o DelWrites3(e, i, k, r, x, p)
DelWrites1(e, i, k, r, x, p) ==
  IF IsHead(NextIn(x), i)
  THEN <<Write("index", i, [rule |-> x[x[i].next].rule])>> \o DelWrites2(e, i, k, r, x, p)
  ELSE DelWrites2(e, i, k, r, x, p)
IndexMovedIfHead(x, i) == IF IsHead(NextIn(x), i) THEN IndexMoved(x, i) ELSE x

DelAt(n, e, i, k, r, x, p) ==
  \/ n = 1 /\ todo = DelWrites1(e, i, k, r, x, p) /\ rules = r /\ index = x /\ prev_index = p
  \/ n = 2 /\ todo = DelWrites2(e, i, k, r, x, p) /\ rules = r
     /\ index = IndexMovedIfHead(x, i) /\ prev_index = p
  \/ /\ n >= 3 /\ n <= 8 /\ index = IndexCut(x, p, i)
     /\ \/ n = 3 /\ todo = DelWrites3(e, i, k, r, x, p) /\ rules = r /\ prev_index = p
        \/ n = 4 /\ todo = DelWrites4(e, i, k, r, x, p) /\ rules = RuleCut(r, e) /\ prev_index = p
        \/ n = 5 /\ todo = DelWrites5(e, i, k, r, x, p) /\ rules = RuleBackLinked(r, e)
           /\ prev_index = p
        \/ n = 6 /\ todo = DelWrites6(i, k, x, p) /\ rules = RuleCleared(r, e) /\ prev_index = p
        \/ n = 7 /\ todo = DelWrites7(i, k, x) /\ rules = RuleCleared(r, e)
           /\ prev_index = PrevMoved(x, p, i)
        \/ n = 8 /\ todo = DelWrites8(i, k, x) /\ rules = RuleCleared(r, e)
           /\ prev_index = PrevCleared(x, p, i)
  \/ /\ n >= 9 /\ index = IndexCleared(x, p, i) /\ prev_index = PrevCleared(x, p, i)
     /\ \/ n = 9 /\ todo = DelWrites9(i, k, x) /\ rules = RuleCleared(r, e)
        \/ n = 10 /\ todo = DelWrites10(k) /\ rules = RuleMoved(r, x, e, i)
        \/ n = 11 /\ todo = DelWrites11(k) /\ rules = Swept(RuleMoved(r, x, e, i))

Deleting(e, i, k, r, x, p, h) ==
  /\ DelOf(e, i, k, r, x, p, h)
  /\ valid /\ rule_id_array = h
  /\ \E n \in 1 .. 11 : DelAt(n, e, i, k, r, x, p)

-----------------------------------------------------------------------------
(* The rules an addition or a deletion leaves, as the hardware finds them. *)

\* Of the rules of r that match, all but x0 still match in s, and are on their
\* chains; a rule of s that is not one of r is for a connection without a rule.
RulesServe(s, r, x0) ==
  /\ s \in [Entries -> Rule]
  /\ \A e \in Entries : Live(r, e) /\ e # x0 =>
       Live(s, e) /\ s[e].conn = r[e].conn /\ e \in Chain(NextIn(s), Dst[r[e].conn])
  /\ \A e \in Entries : Live(s, e) =>
       \/ Live(r, e) /\ s[e].conn = r[e].conn
       \/ \A f \in Entries : Live(r, f) => r[f].conn # s[e].conn

\* Each of them but x0 has its index entry on the chain.
IndexServes(s, r, x0) ==
  /\ s \in [Entries -> Index]
  /\ \A e \in Entries : Live(r, e) /\ e # x0 =>
       \E i \in Chain(NextIn(s), Src[r[e].conn]) : s[i].rule = e

LEMMA TableTypes ==
  /\ NoRule \in Rule /\ NoIndex \in Index
  /\ \A e \in Entries : e \in Link
  /\ 0 \in Link
BY DEF NoRule, NoIndex, Rule, Index, Link

LEMMA NextOfRules ==
  ASSUME NEW r \in [Entries -> Rule]
  PROVE  /\ NextIn(r) \in Links
         /\ \A e \in Entries : NextIn(r)[e] = r[e].next /\ r[e].next \in Link
BY DEF NextIn, Links, Rule

LEMMA NextOfIndex ==
  ASSUME NEW x \in [Entries -> Index]
  PROVE  /\ NextIn(x) \in Links
         /\ \A e \in Entries : NextIn(x)[e] = x[e].next /\ x[e].next \in Link
BY DEF NextIn, Links, Index

LEMMA LiveRule ==
  ASSUME NEW r, RulesGood(r), NEW e \in Entries, Live(r, e)
  PROVE  /\ e \in InUse(r) /\ r[e].conn \in Conns /\ Dst[r[e].conn] \in BaseEntries
         /\ RuleKeys(r)[e] = Dst[r[e].conn]
         /\ e \in Chain(NextIn(r), Dst[r[e].conn])
<1>1. e \in InUse(r) /\ r[e].conn \in Conns
  BY DEF Live, InUse, RulesGood
<1>2. RuleKeys(r)[e] = Dst[r[e].conn]
  BY DEF RuleKeys
<1>3. RuleKeys(r)[e] \in BaseEntries /\ e \in Chain(NextIn(r), RuleKeys(r)[e])
  BY <1>1 DEF RulesGood, Chained
<1> QED
  BY <1>1, <1>2, <1>3

LEMMA RulesServeThemselves ==
  ASSUME NEW r, RulesGood(r)
  PROVE  \A x0 : RulesServe(r, r, x0)
<1>1. r \in [Entries -> Rule]
  BY DEF RulesGood
<1> QED
  BY <1>1, LiveRule DEF RulesServe

LEMMA PlaceFacts ==
  ASSUME NEW next, NEW prev, NEW used, NEW key, Chained(next, prev, used, key),
         NEW k \in BaseEntries, NEW at, NEW before, Place(next, used, key, k, at, before)
  PROVE  /\ at \in Entries /\ at \notin used /\ next[at] = 0 /\ at # before
         /\ before # 0 => /\ at \in ExpnEntries /\ before \in used /\ before \in Entries
                          /\ next[before] = 0 /\ key[before] = k
         /\ before = 0 => at = k
         /\ at >= T <=> before # 0
         /\ before \in Link
<1>1. used \subseteq Entries /\ \A e \in Entries : e \notin used => next[e] = 0
  BY DEF Chained
<1> QED
  BY <1>1, EntryKinds DEF Place, Link

\* The rows of the rules while one is added.
IsCopied(s, r, c, a, b, i) ==
  /\ s \in [Entries -> Rule]
  /\ \A e \in Entries : s[e] = IF e = a THEN AddedRule(c, b, i) ELSE r[e]
IsLinked(s, r, c, a, b, i) ==
  /\ s \in [Entries -> Rule]
  /\ \A e \in Entries : s[e] =
       IF e = a THEN AddedRule(c, b, i)
       ELSE IF e = b THEN [r[e] EXCEPT !.next = a] ELSE r[e]
IsAdded(s, r, c, a, b, i) ==
  /\ s \in [Entries -> Rule]
  /\ \A e \in Entries : s[e] =
       IF e = a THEN [AddedRule(c, b, i) EXCEPT !.enable = TRUE]
       ELSE IF e = b THEN [r[e] EXCEPT !.next = a] ELSE r[e]

LEMMA RowsOfAddedRule ==
  ASSUME NEW r \in [Entries -> Rule], NEW c \in Conns, NEW a \in Entries, NEW b \in Link,
         NEW i \in Link, a # b
  PROVE  /\ IsCopied(RuleCopied(r, c, a, b, i), r, c, a, b, i)
         /\ IsLinked(RuleLinked(r, c, a, b, i), r, c, a, b, i)
         /\ IsAdded(RuleAdded(r, c, a, b, i), r, c, a, b, i)
<1>1. AddedRule(c, b, i) \in Rule /\ [AddedRule(c, b, i) EXCEPT !.enable = TRUE] \in Rule
  BY TableTypes DEF AddedRule, Rule, NoRule
<1> DEFINE s == RuleCopied(r, c, a, b, i)
           t == RuleLinked(r, c, a, b, i)
           u == RuleAdded(r, c, a, b, i)
           w == AddedRule(c, b, i)
<1>2. /\ s \in [Entries -> Rule]
      /\ \A e \in Entries : s[e] = IF e = a THEN w ELSE r[e]
  BY <1>1 DEF RuleCopied
<1>3. \A q \in Rule : [q EXCEPT !.next = a] \in Rule
  BY TableTypes DEF Rule
<1>4. t = IF b # 0 THEN [s EXCEPT ![b].next = a] ELSE s
  BY DEF RuleLinked
<1>5. b # 0 => b \in Entries
  BY DEF Link
<1> HIDE DEF s, w
<1>6. /\ t \in [Entries -> Rule]
      /\ \A e \in Entries : t[e] =
           IF e = a THEN w ELSE IF e = b THEN [r[e] EXCEPT !.next = a] ELSE r[e]
  <2>1. CASE b # 0
    <3>1. t = [s EXCEPT ![b] = [s[b] EXCEPT !.next = a]]
      BY <1>4, <2>1
    <3>2. [s[b] EXCEPT !.next = a] \in Rule
      BY <1>2, <1>3, <1>5, <2>1
    <3>3. s[b] = r[b]
      BY <1>2, <1>5, <2>1
    <3> HIDE DEF t
    <3> QED
      BY <1>2, <1>5, <2>1, <3>1, <3>2, <3>3
  <2>2. CASE b = 0
    <3>1. t = s /\ 0 \notin Entries
      BY <1>4, <2>2, EntryKinds
    <3> HIDE DEF t
    <3> QED
      BY <1>2, <2>2, <3>1
  <2> QED
    BY <2>1, <2>2
<1>7. u = [t EXCEPT ![a] = [t[a] EXCEPT !.enable = TRUE]]
  BY DEF RuleAdded
<1> HIDE DEF t, u
<1>8. /\ u \in [Entries -> Rule]
      /\ \A e \in Entries : u[e] =
           IF e = a THEN [w EXCEPT !.enable = TRUE]
           ELSE IF e = b THEN [r[e] EXCEPT !.next = a] ELSE r[e]
  <2>1. t[a] = w /\ [t[a] EXCEPT !.enable = TRUE] \in Rule
    BY <1>1, <1>6 DEF w
  <2> QED
    BY <1>6, <1>7, <2>1
<1> QED
  BY <1>2, <1>6, <1>8 DEF s, t, u, w, IsCopied, IsLinked, IsAdded

\* The places of a new rule and of its index entry.
LEMMA PlacesOfAdded ==
  ASSUME NEW c, NEW a, NEW b, NEW i, NEW j, NEW k, NEW r, NEW x, NEW p, NEW h,
         AddOf(c, a, b, i, j, k, r, x, p, h)
  PROVE  /\ r \in [Entries -> Rule] /\ x \in [Entries -> Index]
         /\ c \in Conns /\ Dst[c] \in BaseEntries /\ Src[c] \in BaseEntries
         /\ a \in Entries /\ a \notin InUse(r) /\ a # b /\ b \in Link /\ r[a].next = 0
         /\ b # 0 => /\ a \in ExpnEntries /\ b \in InUse(r) /\ b \in Entries
                     /\ r[b].next = 0 /\ Dst[r[b].conn] = Dst[c]
         /\ b = 0 => a = Dst[c]
         /\ i \in Entries /\ i \notin Indexed(x) /\ i # j /\ j \in Link /\ x[i].next = 0
         /\ j # 0 => /\ i \in ExpnEntries /\ j \in Indexed(x) /\ j \in Entries
                     /\ x[j].next = 0 /\ Src[r[x[j].rule].conn] = Src[c]
         /\ j = 0 => i = Src[c]
         /\ i >= T <=> j # 0
<1>1. /\ r \in [Entries -> Rule] /\ x \in [Entries -> Index]
      /\ Chained(NextIn(r), PrevIn(r), InUse(r), RuleKeys(r))
      /\ Chained(NextIn(x), p, Indexed(x), IndexKeys(x, r))
  BY DEF AddOf, Good, RulesGood, IndexGood
<1>2. c \in Conns /\ Dst[c] \in BaseEntries /\ Src[c] \in BaseEntries
  BY HashAssumption DEF AddOf, HashAssumption, BaseEntries
<1>3. /\ Place(NextIn(r), InUse(r), RuleKeys(r), Dst[c], a, b)
      /\ Place(NextIn(x), Indexed(x), IndexKeys(x, r), Src[c], i, j)
  BY DEF AddOf
<1>4. /\ a \in Entries /\ a \notin InUse(r) /\ NextIn(r)[a] = 0 /\ a # b
      /\ b # 0 => /\ a \in ExpnEntries /\ b \in InUse(r) /\ b \in Entries
                  /\ NextIn(r)[b] = 0 /\ RuleKeys(r)[b] = Dst[c]
      /\ b = 0 => a = Dst[c]
      /\ b \in Link
  BY <1>1, <1>2, <1>3, PlaceFacts
<1>5. /\ i \in Entries /\ i \notin Indexed(x) /\ NextIn(x)[i] = 0 /\ i # j
      /\ j # 0 => /\ i \in ExpnEntries /\ j \in Indexed(x) /\ j \in Entries
                  /\ NextIn(x)[j] = 0 /\ IndexKeys(x, r)[j] = Src[c]
      /\ j = 0 => i = Src[c]
      /\ i >= T <=> j # 0
      /\ j \in Link
  BY <1>1, <1>2, <1>3, PlaceFacts
<1>6. \A e \in Entries : /\ NextIn(r)[e] = r[e].next /\ NextIn(x)[e] = x[e].next
                         /\ RuleKeys(r)[e] = Dst[r[e].conn]
                         /\ IndexKeys(x, r)[e] = Src[r[x[e].rule].conn]
  BY DEF NextIn, RuleKeys, IndexKeys
<1> QED
  BY <1>1, <1>2, <1>4, <1>5, <1>6

\* The links of the rules while one is added.
LEMMA LinksOfAddedRule ==
  ASSUME NEW c, NEW a, NEW b, NEW i, NEW j, NEW k, NEW r, NEW x, NEW p, NEW h,
         AddOf(c, a, b, i, j, k, r, x, p, h)
  PROVE  /\ NextIn(RuleCopied(r, c, a, b, i)) = NextIn(r)
         /\ NextIn(RuleLinked(r, c, a, b, i)) =
              IF b # 0 THEN [NextIn(r) EXCEPT ![b] = a] ELSE NextIn(r)
         /\ NextIn(RuleAdded(r, c, a, b, i)) = NextIn(RuleLinked(r, c, a, b, i))
<1> DEFINE s == RuleCopied(r, c, a, b, i)
           t == RuleLinked(r, c, a, b, i)
           u == RuleAdded(r, c, a, b, i)
           w == AddedRule(c, b, i)
<1>1. /\ r \in [Entries -> Rule] /\ c \in Conns /\ a \in Entries /\ b \in Link /\ i \in Link
      /\ a # b /\ r[a].next = 0 /\ (b # 0 => b \in Entries)
  BY PlacesOfAdded, TableTypes
<1>2. IsCopied(s, r, c, a, b, i) /\ IsLinked(t, r, c, a, b, i) /\ IsAdded(u, r, c, a, b, i)
  BY <1>1, RowsOfAddedRule
<1>3. w.next = 0 /\ [w EXCEPT !.enable = TRUE].next = 0
  BY DEF AddedRule, NoRule
<1>4. \A e \in Entries : [r[e] EXCEPT !.next = a].next = a
  BY <1>1 DEF Rule
<1> HIDE DEF s, t, u, w
<1>r. /\ s \in [Entries -> Rule] /\ t \in [Entries -> Rule] /\ u \in [Entries -> Rule]
      /\ \A e \in Entries : s[e] = IF e = a THEN w ELSE r[e]
      /\ \A e \in Entries : t[e] =
           IF e = a THEN w ELSE IF e = b THEN [r[e] EXCEPT !.next = a] ELSE r[e]
      /\ \A e \in Entries : u[e] =
           IF e = a THEN [w EXCEPT !.enable = TRUE]
           ELSE IF e = b THEN [r[e] EXCEPT !.next = a] ELSE r[e]
  BY <1>2 DEF IsCopied, IsLinked, IsAdded, w
<1>5. \A e \in Entries : s[e].next = r[e].next
  BY <1>1, <1>r, <1>3
<1>6. \A e \in Entries : t[e].next = IF e = b THEN a ELSE r[e].next
  BY <1>1, <1>r, <1>3, <1>4
<1>7. \A e \in Entries : u[e].next = t[e].next
  BY <1>1, <1>r, <1>3, <1>4
<1>8. NextIn(s) = NextIn(r) /\ NextIn(u) = NextIn(t)
  BY <1>5, <1>7 DEF NextIn
<1>9. NextIn(t) = IF b # 0 THEN [NextIn(r) EXCEPT ![b] = a] ELSE NextIn(r)
  <2>1. CASE b = 0
    <3>1. \A e \in Entries : t[e].next = r[e].next
      BY <1>6, <2>1, EntryKinds
    <3> QED
      BY <2>1, <3>1 DEF NextIn
  <2>2. CASE b # 0
    BY <1>1, <1>6, <2>2 DEF NextIn
  <2> QED
    BY <2>1, <2>2
<1> QED
  BY <1>8, <1>9 DEF s, t, u

\* Neither the new rule nor the link to it hides another rule.
LEMMA AddedRulesServe ==
  ASSUME NEW c, NEW a, NEW b, NEW i, NEW j, NEW k, NEW r, NEW x, NEW p, NEW h,
         AddOf(c, a, b, i, j, k, r, x, p, h)
  PROVE  /\ RulesServe(RuleCopied(r, c, a, b, i), r, 0)
         /\ RulesServe(RuleLinked(r, c, a, b, i), r, 0)
         /\ RulesServe(RuleAdded(r, c, a, b, i), r, 0)
<1> DEFINE s == RuleCopied(r, c, a, b, i)
           t == RuleLinked(r, c, a, b, i)
           u == RuleAdded(r, c, a, b, i)
           w == AddedRule(c, b, i)
<1>1. /\ r \in [Entries -> Rule] /\ c \in Conns /\ a \in Entries /\ b \in Link /\ i \in Link
      /\ a # b /\ r[a].next = 0 /\ (b # 0 => b \in Entries /\ r[b].next = 0)
      /\ a \notin InUse(r)
  BY PlacesOfAdded, TableTypes
<1>2. IsCopied(s, r, c, a, b, i) /\ IsLinked(t, r, c, a, b, i) /\ IsAdded(u, r, c, a, b, i)
  BY <1>1, RowsOfAddedRule
<1>3. w.enable = FALSE /\ [w EXCEPT !.enable = TRUE].conn = c
  BY DEF AddedRule, NoRule
<1>4. \A e \in Entries : LET q == [r[e] EXCEPT !.next = a] IN
        q.enable = r[e].enable /\ q.dead = r[e].dead /\ q.conn = r[e].conn
  BY <1>1 DEF Rule
<1>5. \A e \in Entries : Live(r, e) =>
        /\ e # a /\ Dst[r[e].conn] \in BaseEntries /\ Dst[r[e].conn] \in Entries
        /\ e \in Chain(NextIn(r), Dst[r[e].conn])
  BY <1>1, LiveRule, EntryKinds DEF AddOf, Good
<1>6. /\ NextIn(s) = NextIn(r) /\ NextIn(u) = NextIn(t)
      /\ NextIn(t) = IF b # 0 THEN [NextIn(r) EXCEPT ![b] = a] ELSE NextIn(r)
  BY LinksOfAddedRule
<1>7. ASSUME NEW d \in Entries
      PROVE  Chain(NextIn(r), d) \subseteq Chain(NextIn(t), d)
  <2>1. CASE b = 0
    BY <1>6, <2>1
  <2>2. CASE b # 0
    <3>1. NextIn(r) \in Links /\ NextIn(r)[b] = 0 /\ b \in Entries
      BY <1>1, <2>2, NextOfRules
    <3> QED
      BY <1>1, <1>6, <2>2, <3>1, ChainGrows
  <2> QED
    BY <2>1, <2>2
<1>8. \A e \in Entries : Live(r, e) => r[e].conn # c
  BY DEF AddOf
<1> HIDE DEF s, t, u, w
<1>r. /\ s \in [Entries -> Rule] /\ t \in [Entries -> Rule] /\ u \in [Entries -> Rule]
      /\ \A e \in Entries : s[e] = IF e = a THEN w ELSE r[e]
      /\ \A e \in Entries : t[e] =
           IF e = a THEN w ELSE IF e = b THEN [r[e] EXCEPT !.next = a] ELSE r[e]
      /\ \A e \in Entries : u[e] =
           IF e = a THEN [w EXCEPT !.enable = TRUE]
           ELSE IF e = b THEN [r[e] EXCEPT !.next = a] ELSE r[e]
  BY <1>2 DEF IsCopied, IsLinked, IsAdded, w
<1>9. RulesServe(s, r, 0)
  <2>1. \A e \in Entries : e # a => s[e] = r[e]
    BY <1>r
  <2>2. \A e \in Entries : Live(s, e) => e # a
    BY <1>1, <1>r, <1>3 DEF Live
  <2> QED
    BY <1>r, <1>5, <1>6, <2>1, <2>2 DEF RulesServe, Live
<1>10. \A e \in Entries : e # a =>
         /\ t[e].enable = r[e].enable /\ t[e].dead = r[e].dead /\ t[e].conn = r[e].conn
         /\ u[e].enable = r[e].enable /\ u[e].dead = r[e].dead /\ u[e].conn = r[e].conn
  BY <1>r, <1>4
<1>11. RulesServe(t, r, 0)
  <2>1. \A e \in Entries : Live(t, e) => e # a
    BY <1>1, <1>r, <1>3 DEF Live
  <2> QED
    BY <1>r, <1>5, <1>7, <1>10, <2>1 DEF RulesServe, Live
<1>12. RulesServe(u, r, 0)
  <2>1. u[a].conn = c
    BY <1>1, <1>r, <1>3
  <2>2. ASSUME NEW e \in Entries, Live(u, e)
        PROVE  \/ Live(r, e) /\ u[e].conn = r[e].conn
               \/ \A f \in Entries : Live(r, f) => r[f].conn # u[e].conn
    BY <1>8, <1>10, <2>1, <2>2 DEF Live
  <2>3. ASSUME NEW e \in Entries, Live(r, e)
        PROVE  Live(u, e) /\ u[e].conn = r[e].conn /\ e \in Chain(NextIn(u), Dst[r[e].conn])
    BY <1>5, <1>6, <1>7, <1>10, <2>3 DEF Live
  <2> QED
    BY <1>r, <2>2, <2>3 DEF RulesServe
<1> QED
  BY <1>9, <1>11, <1>12 DEF s, t, u

\* The rules with the new one.
LEMMA AddedRulesGood ==
  ASSUME NEW c, NEW a, NEW b, NEW i, NEW j, NEW k, NEW r, NEW x, NEW p, NEW h,
         AddOf(c, a, b, i, j, k, r, x, p, h)
  PROVE  /\ RulesGood(RuleAdded(r, c, a, b, i))
         /\ \A e \in Entries : Live(RuleAdded(r, c, a, b, i), e) <=> Live(r, e) \/ e = a
         /\ \A e \in Entries : e # a =>
              /\ RuleAdded(r, c, a, b, i)[e].conn = r[e].conn
              /\ RuleAdded(r, c, a, b, i)[e].indx = r[e].indx
         /\ RuleAdded(r, c, a, b, i)[a].conn = c /\ RuleAdded(r, c, a, b, i)[a].indx = i
<1> DEFINE u == RuleAdded(r, c, a, b, i)
           w == [AddedRule(c, b, i) EXCEPT !.enable = TRUE]
<1>1. /\ r \in [Entries -> Rule] /\ c \in Conns /\ a \in Entries /\ b \in Link /\ i \in Link
      /\ a # b /\ r[a].next = 0 /\ Dst[c] \in BaseEntries
      /\ b # 0 => /\ b \in Entries /\ b \in InUse(r) /\ r[b].next = 0 /\ a \in ExpnEntries
                  /\ Dst[r[b].conn] = Dst[c]
      /\ b = 0 => a = Dst[c]
      /\ a \notin InUse(r)
  BY PlacesOfAdded, TableTypes
<1>2. IsAdded(u, r, c, a, b, i)
  BY <1>1, RowsOfAddedRule
<1>3. /\ w.conn = c /\ w.enable = TRUE /\ w.dead = FALSE /\ w.next = 0
      /\ w.prev = b /\ w.indx = i
  BY DEF AddedRule, NoRule
<1>4. \A e \in Entries : LET q == [r[e] EXCEPT !.next = a] IN
        /\ q.enable = r[e].enable /\ q.dead = r[e].dead /\ q.conn = r[e].conn
        /\ q.prev = r[e].prev /\ q.indx = r[e].indx /\ q.next = a
  BY <1>1 DEF Rule
<1>5. /\ NextIn(u) = IF b # 0 THEN [NextIn(r) EXCEPT ![b] = a] ELSE NextIn(r)
  BY LinksOfAddedRule
<1>6. RulesGood(r) /\ b \in Link
  BY <1>1 DEF AddOf, Good
<1> HIDE DEF u, w
<1>7. /\ u \in [Entries -> Rule]
      /\ \A e \in Entries : u[e] = IF e = a THEN w
           ELSE IF e = b THEN [r[e] EXCEPT !.next = a] ELSE r[e]
  BY <1>2 DEF IsAdded, w
<1>8. \A e \in Entries : e # a =>
        /\ u[e].enable = r[e].enable /\ u[e].dead = r[e].dead /\ u[e].conn = r[e].conn
        /\ u[e].prev = r[e].prev /\ u[e].indx = r[e].indx
        /\ e # b => u[e] = r[e]
  BY <1>4, <1>7
<1>9. u[a] = w
  BY <1>1, <1>7
<1>10. InUse(u) = InUse(r) \cup {a}
  BY <1>1, <1>3, <1>8, <1>9 DEF InUse
<1>11. /\ \A e \in InUse(r) : RuleKeys(u)[e] = RuleKeys(r)[e] /\ PrevIn(u)[e] = PrevIn(r)[e]
       /\ RuleKeys(u)[a] = Dst[c] /\ PrevIn(u)[a] = b
  <2>1. InUse(r) \subseteq Entries
    BY DEF InUse
  <2> QED
    BY <1>1, <1>3, <1>8, <1>9, <2>1 DEF RuleKeys, PrevIn
<1>12. Chained(NextIn(r), PrevIn(r), InUse(r), RuleKeys(r))
  BY <1>6 DEF RulesGood
<1>13. Chained(NextIn(u), PrevIn(u), InUse(u), RuleKeys(u))
  <2>1. CASE b = 0
    <3>1. a \in BaseEntries /\ a = Dst[c]
      BY <1>1, <2>1
    <3>2. Chained(NextIn(r), PrevIn(u), InUse(r), RuleKeys(r))
      BY <1>11, <1>12, SameChained
    <3>3. Chained(NextIn(r), PrevIn(u), InUse(r) \cup {a}, RuleKeys(u))
      BY <1>1, <1>11, <3>1, <3>2, HeadInserted
    <3> QED
      BY <1>5, <1>10, <2>1, <3>3
  <2>2. CASE b # 0
    <3>1. NextIn(r)[b] = 0 /\ b \in InUse(r) /\ RuleKeys(r)[b] = Dst[c]
      BY <1>1, <2>2 DEF NextIn, RuleKeys
    <3>2. Chained([NextIn(r) EXCEPT ![b] = a], PrevIn(u), InUse(r) \cup {a}, RuleKeys(u))
      BY <1>1, <1>11, <1>12, <2>2, <3>1, TailInserted
    <3> QED
      BY <1>5, <1>10, <2>2, <3>2
  <2> QED
    BY <2>1, <2>2
<1>14. RulesGood(u)
  <2>1. \A e \in Entries : ~u[e].enable => u[e] = NoRule
    <3> SUFFICES ASSUME NEW e \in Entries, ~u[e].enable PROVE u[e] = NoRule
      OBVIOUS
    <3>1. e # a
      BY <1>3, <1>9
    <3>2. e # b
      BY <1>1, <1>8, <3>1, EntryKinds DEF InUse
    <3> QED
      BY <1>6, <1>8, <3>1, <3>2 DEF RulesGood
  <2>2. \A e \in Entries : u[e].enable => u[e].conn \in Conns
    BY <1>1, <1>3, <1>6, <1>8, <1>9 DEF RulesGood
  <2>3. \A e \in Entries : u[e].dead => e < T /\ u[e].next # 0
    <3> SUFFICES ASSUME NEW e \in Entries, u[e].dead PROVE e < T /\ u[e].next # 0
      OBVIOUS
    <3>1. e # a
      BY <1>3, <1>9
    <3>2. r[e].dead /\ e < T /\ r[e].next # 0
      BY <1>6, <1>8, <3>1 DEF RulesGood
    <3>3. e # b
      BY <1>1, <3>2, EntryKinds
    <3> QED
      BY <1>8, <3>1, <3>2, <3>3
  <2> QED
    BY <1>7, <1>13, <2>1, <2>2, <2>3 DEF RulesGood
<1>15. \A e \in Entries : Live(u, e) <=> Live(r, e) \/ e = a
  BY <1>1, <1>3, <1>8, <1>9 DEF Live
<1> QED
  BY <1>3, <1>8, <1>9, <1>14, <1>15 DEF u

-----------------------------------------------------------------------------
(* The index entries, likewise.                                            *)

\* The index entry of a rule that matches.
LEMMA IndexOfRule ==
  ASSUME NEW r, NEW x, NEW p, RulesGood(r), IndexGood(x, p, r), NEW e \in Entries, Live(r, e)
  PROVE  /\ r[e].indx \in Indexed(x) /\ r[e].indx \in Entries /\ x[r[e].indx].rule = e
         /\ Src[r[e].conn] \in BaseEntries /\ Src[r[e].conn] \in Entries
         /\ r[e].indx \in Chain(NextIn(x), Src[r[e].conn])
<1> DEFINE y == r[e].indx
<1>1. y # 0 /\ x[y].rule = e /\ r \in [Entries -> Rule]
  BY DEF IndexGood, RulesGood
<1>2. y \in Entries
  BY <1>1 DEF Rule, Link
<1>3. y \in Indexed(x)
  BY <1>1, <1>2, EntryKinds DEF Indexed
<1>4. IndexKeys(x, r)[y] = Src[r[e].conn]
  BY <1>1, <1>2 DEF IndexKeys
<1>5. IndexKeys(x, r)[y] \in BaseEntries /\ y \in Chain(NextIn(x), IndexKeys(x, r)[y])
  BY <1>3 DEF IndexGood, Chained
<1> QED
  BY <1>1, <1>2, <1>3, <1>4, <1>5, EntryKinds

LEMMA IndexServesItself ==
  ASSUME NEW r, NEW x, NEW p, RulesGood(r), IndexGood(x, p, r)
  PROVE  \A x0 : IndexServes(x, r, x0)
<1>1. x \in [Entries -> Index]
  BY DEF IndexGood
<1> QED
  BY <1>1, IndexOfRule DEF IndexServes

\* The index table while an entry is added.
LEMMA RowsOfAddedIndex ==
  ASSUME NEW x \in [Entries -> Index], NEW a \in Link, NEW i \in Entries, NEW j \in Link, i # j,
         x[i].next = 0
  PROVE  LET s == IndexCopied(x, a, i)
             t == IndexLinked(x, a, i, j)
         IN /\ s \in [Entries -> Index] /\ t \in [Entries -> Index]
            /\ s[i].rule = a /\ t[i].rule = a
            /\ \A e \in Entries : e # i => s[e].rule = x[e].rule /\ t[e].rule = x[e].rule
            /\ \A e \in Entries : e # i /\ e # j => t[e] = x[e]
            /\ NextIn(s) = NextIn(x)
            /\ NextIn(t) = IF j # 0 THEN [NextIn(x) EXCEPT ![j] = i] ELSE NextIn(x)
<1> DEFINE s == IndexCopied(x, a, i)
           t == IndexLinked(x, a, i, j)
<1>1. [rule |-> a, next |-> 0] \in Index
  BY TableTypes DEF Index
<1>2. /\ s \in [Entries -> Index] /\ s[i] = [rule |-> a, next |-> 0]
      /\ \A e \in Entries : e # i => s[e] = x[e]
  BY <1>1 DEF IndexCopied
<1>3. t = IF j # 0 THEN [s EXCEPT ![j].next = i] ELSE s
  BY DEF IndexLinked
<1>4. j # 0 => j \in Entries
  BY DEF Link
<1> HIDE DEF s, t
<1>5. \A e \in Entries : s[e].next = x[e].next
  BY <1>2
<1>6. NextIn(s) = NextIn(x)
  BY <1>5 DEF NextIn
<1>7. CASE j = 0
  BY <1>2, <1>3, <1>6, <1>7, EntryKinds DEF s, t
<1>8. CASE j # 0
  <2>1. t = [s EXCEPT ![j] = [s[j] EXCEPT !.next = i]] /\ j \in Entries /\ s[j] \in Index
    BY <1>2, <1>3, <1>4, <1>8
  <2>2. /\ [s[j] EXCEPT !.next = i] \in Index
        /\ [s[j] EXCEPT !.next = i].next = i /\ [s[j] EXCEPT !.next = i].rule = s[j].rule
    BY <2>1, TableTypes DEF Index
  <2>3. /\ t \in [Entries -> Index] /\ t[j] = [s[j] EXCEPT !.next = i]
        /\ \A e \in Entries : e # j => t[e] = s[e]
    BY <1>2, <2>1, <2>2
  <2>4. t[j].next = i /\ t[j].rule = x[j].rule
    BY <1>2, <2>1, <2>2, <2>3
  <2>5. \A e \in Entries : t[e].next = IF e = j THEN i ELSE x[e].next
    BY <1>5, <2>3, <2>4
  <2>6. NextIn(t) = [NextIn(x) EXCEPT ![j] = i]
    BY <2>1, <2>5 DEF NextIn
  <2>7. /\ t[i].rule = a /\ s[i].rule = a
        /\ \A e \in Entries : e # i => s[e].rule = x[e].rule /\ t[e].rule = x[e].rule
        /\ \A e \in Entries : e # i /\ e # j => t[e] = x[e]
    BY <1>2, <2>1, <2>3, <2>4
  <2> QED
    BY <1>2, <1>6, <1>8, <2>3, <2>6, <2>7 DEF s, t
<1> QED
  BY <1>7, <1>8

LEMMA AddedIndexServes ==
  ASSUME NEW c, NEW a, NEW b, NEW i, NEW j, NEW k, NEW r, NEW x, NEW p, NEW h,
         AddOf(c, a, b, i, j, k, r, x, p, h)
  PROVE  /\ IndexServes(IndexCopied(x, a, i), r, 0)
         /\ IndexServes(IndexLinked(x, a, i, j), r, 0)
<1> DEFINE s == IndexCopied(x, a, i)
           t == IndexLinked(x, a, i, j)
<1>1. /\ x \in [Entries -> Index] /\ i \in Entries /\ j \in Link /\ i # j /\ x[i].next = 0
      /\ i \notin Indexed(x) /\ a \in Link
      /\ j # 0 => j \in Entries /\ x[j].next = 0
  BY PlacesOfAdded, TableTypes
<1>0. RulesGood(r) /\ IndexGood(x, p, r)
  BY DEF AddOf, Good
<1>2. /\ s \in [Entries -> Index] /\ t \in [Entries -> Index]
      /\ \A e \in Entries : e # i => s[e].rule = x[e].rule /\ t[e].rule = x[e].rule
      /\ NextIn(s) = NextIn(x)
      /\ NextIn(t) = IF j # 0 THEN [NextIn(x) EXCEPT ![j] = i] ELSE NextIn(x)
  BY <1>1, RowsOfAddedIndex
<1> HIDE DEF s, t
<1>3. ASSUME NEW d \in Entries
      PROVE  Chain(NextIn(x), d) \subseteq Chain(NextIn(t), d)
  <2>1. CASE j = 0
    BY <1>2, <2>1
  <2>2. CASE j # 0
    <3>1. NextIn(x) \in Links /\ NextIn(x)[j] = 0 /\ j \in Entries /\ i \in Entries
      BY <1>1, <2>2, NextOfIndex
    <3>2. Chain(NextIn(x), d) \subseteq Chain([NextIn(x) EXCEPT ![j] = i], d)
      BY <3>1, ChainGrows
    <3> QED
      BY <1>2, <2>2, <3>2
  <2> QED
    BY <2>1, <2>2
<1>4. ASSUME NEW e \in Entries, Live(r, e)
      PROVE  /\ \E y \in Chain(NextIn(s), Src[r[e].conn]) : s[y].rule = e
             /\ \E y \in Chain(NextIn(t), Src[r[e].conn]) : t[y].rule = e
  <2> DEFINE y == r[e].indx
  <2>1. /\ y \in Indexed(x) /\ y \in Entries /\ x[y].rule = e /\ Src[r[e].conn] \in Entries
        /\ y \in Chain(NextIn(x), Src[r[e].conn])
    BY <1>0, <1>4, IndexOfRule
  <2>2. y # i
    BY <1>1, <2>1
  <2>3. s[y].rule = e /\ t[y].rule = e
    BY <1>2, <2>1, <2>2
  <2> QED
    BY <1>2, <1>3, <2>1, <2>3
<1>5. IndexServes(s, r, 0) /\ IndexServes(t, r, 0)
  BY <1>2, <1>4 DEF IndexServes
<1> QED
  BY <1>5 DEF s, t

\* The index table with the new entry.
LEMMA AddedIndexGood ==
  ASSUME NEW c, NEW a, NEW b, NEW i, NEW j, NEW k, NEW r, NEW x, NEW p, NEW h,
         AddOf(c, a, b, i, j, k, r, x, p, h)
  PROVE  IndexGood(IndexLinked(x, a, i, j), PrevAdded(p, i, j), RuleAdded(r, c, a, b, i))
<1> DEFINE t == IndexLinked(x, a, i, j)
           q == PrevAdded(p, i, j)
           u == RuleAdded(r, c, a, b, i)
<1>1. /\ x \in [Entries -> Index] /\ i \in Entries /\ j \in Link /\ i # j /\ x[i].next = 0
      /\ i \notin Indexed(x) /\ a \in Link /\ a \in Entries /\ a \notin InUse(r)
      /\ j # 0 => /\ j \in Entries /\ j \in Indexed(x) /\ x[j].next = 0 /\ i \in ExpnEntries
                  /\ Src[r[x[j].rule].conn] = Src[c]
      /\ j = 0 => i = Src[c]
      /\ i >= T <=> j # 0
      /\ Src[c] \in BaseEntries
  BY PlacesOfAdded, TableTypes
<1>0. RulesGood(r) /\ IndexGood(x, p, r)
  BY DEF AddOf, Good
<1>2. /\ t \in [Entries -> Index] /\ t[i].rule = a
      /\ \A e \in Entries : e # i => t[e].rule = x[e].rule
      /\ NextIn(t) = IF j # 0 THEN [NextIn(x) EXCEPT ![j] = i] ELSE NextIn(x)
  BY <1>1, RowsOfAddedIndex
<1>3. /\ \A e \in Entries : Live(u, e) <=> Live(r, e) \/ e = a
      /\ \A e \in Entries : e # a => u[e].conn = r[e].conn /\ u[e].indx = r[e].indx
      /\ u[a].conn = c /\ u[a].indx = i
  BY AddedRulesGood
<1>4. /\ q \in [ExpnEntries -> Link] /\ (j # 0 => q[i] = j)
      /\ \A e \in ExpnEntries : e # i => q[e] = p[e]
  <2>1. p \in [ExpnEntries -> Link]
    BY <1>0 DEF IndexGood
  <2> QED
    BY <1>1, <2>1, EntryKinds DEF PrevAdded
<1> HIDE DEF t, q, u
<1>5. ASSUME NEW y \in Entries, y # i, x[y].rule # 0
      PROVE  /\ x[y].rule \in Entries /\ x[y].rule # a /\ Live(r, x[y].rule)
             /\ r[x[y].rule].indx = y
  <2>1. Live(r, x[y].rule) /\ r[x[y].rule].indx = y
    BY <1>0, <1>5 DEF IndexGood
  <2>2. x[y].rule \in Entries
    BY <1>1, <1>5 DEF Index, Link
  <2> QED
    BY <1>1, <2>1, <2>2 DEF Live, InUse
<1>6. ASSUME NEW y \in Entries, t[y].rule # 0
      PROVE  Live(u, t[y].rule) /\ u[t[y].rule].indx = y
  <2>1. CASE y = i
    BY <1>1, <1>2, <1>3, <2>1
  <2>2. CASE y # i
    BY <1>2, <1>3, <1>5, <1>6, <2>2
  <2> QED
    BY <2>1, <2>2
<1>7. ASSUME NEW e \in Entries, Live(u, e)
      PROVE  u[e].indx # 0 /\ t[u[e].indx].rule = e
  <2>1. CASE e = a
    BY <1>1, <1>2, <1>3, <2>1, EntryKinds
  <2>2. CASE e # a
    <3>1. Live(r, e) /\ u[e].indx = r[e].indx
      BY <1>3, <1>7, <2>2
    <3>2. r[e].indx \in Indexed(x) /\ r[e].indx \in Entries /\ x[r[e].indx].rule = e
      BY <1>0, <3>1, IndexOfRule
    <3>3. r[e].indx # i
      BY <1>1, <3>2
    <3> QED
      BY <1>2, <3>1, <3>2, <3>3, EntryKinds
  <2> QED
    BY <2>1, <2>2
<1>8. Indexed(t) = Indexed(x) \cup {i}
  BY <1>1, <1>2, EntryKinds DEF Indexed
<1>9. \A y \in Indexed(x) : IndexKeys(t, u)[y] = IndexKeys(x, r)[y]
  <2> SUFFICES ASSUME NEW y \in Indexed(x) PROVE IndexKeys(t, u)[y] = IndexKeys(x, r)[y]
    OBVIOUS
  <2>1. y \in Entries /\ x[y].rule # 0 /\ y # i
    BY <1>1 DEF Indexed
  <2>2. t[y].rule = x[y].rule /\ u[x[y].rule].conn = r[x[y].rule].conn
    BY <1>2, <1>3, <1>5, <2>1
  <2> QED
    BY <2>1, <2>2 DEF IndexKeys
<1>10. IndexKeys(t, u)[i] = Src[c]
  BY <1>1, <1>2, <1>3 DEF IndexKeys
<1>11. Chained(NextIn(x), p, Indexed(x), IndexKeys(x, r))
  BY <1>0 DEF IndexGood
<1>12. \A y \in Indexed(x) : y \in ExpnEntries => q[y] = p[y]
  BY <1>1, <1>4
<1>13. Chained(NextIn(t), q, Indexed(t), IndexKeys(t, u))
  <2>1. CASE j = 0
    <3>1. i \in BaseEntries /\ i = Src[c]
      BY <1>1, <2>1
    <3>2. Chained(NextIn(x), q, Indexed(x), IndexKeys(x, r))
      BY <1>11, <1>12, SameChained
    <3>3. Chained(NextIn(x), q, Indexed(x) \cup {i}, IndexKeys(t, u))
      BY <1>1, <1>9, <1>10, <3>1, <3>2, HeadInserted
    <3> QED
      BY <1>2, <1>8, <2>1, <3>3
  <2>2. CASE j # 0
    <3>1. NextIn(x)[j] = 0 /\ j \in Indexed(x) /\ IndexKeys(x, r)[j] = Src[c] /\ q[i] = j
      BY <1>1, <1>4, <2>2 DEF NextIn, IndexKeys
    <3>2. Chained([NextIn(x) EXCEPT ![j] = i], q, Indexed(x) \cup {i}, IndexKeys(t, u))
      BY <1>1, <1>9, <1>10, <1>11, <1>12, <2>2, <3>1, TailInserted
    <3> QED
      BY <1>2, <1>8, <2>2, <3>2
  <2> QED
    BY <2>1, <2>2
<1>14. IndexGood(t, q, u)
  BY <1>2, <1>4, <1>6, <1>7, <1>13 DEF IndexGood
<1> QED
  BY <1>14 DEF t, q, u

\* The handles with the new one.
LEMMA AddedGood ==
  ASSUME NEW c, NEW a, NEW b, NEW i, NEW j, NEW k, NEW r, NEW x, NEW p, NEW h,
         AddOf(c, a, b, i, j, k, r, x, p, h)
  PROVE  Good(RuleAdded(r, c, a, b, i), IndexLinked(x, a, i, j), PrevAdded(p, i, j),
              [h EXCEPT ![k] = a])
<1> DEFINE u == RuleAdded(r, c, a, b, i)
           g == [h EXCEPT ![k] = a]
<1>1. /\ RulesGood(u)
      /\ \A e \in Entries : Live(u, e) <=> Live(r, e) \/ e = a
      /\ \A e \in Entries : e # a => u[e].conn = r[e].conn
      /\ u[a].conn = c
  BY AddedRulesGood
<1>2. IndexGood(IndexLinked(x, a, i, j), PrevAdded(p, i, j), u)
  BY AddedIndexGood
<1>3. /\ HandlesGood(h, r) /\ k \in Handles /\ k < T + E /\ h[k] = 0
      /\ \A e \in Entries : Live(r, e) => r[e].conn # c
  BY DEF AddOf, Good
<1>4. a \in Entries /\ a \in Link /\ ~Live(r, a) /\ a # 0
  BY PlacesOfAdded, TableTypes, EntryKinds DEF InUse, Live
<1>5. /\ g \in [Handles -> Link] /\ g[k] = a
      /\ \A l \in Handles : l # k => g[l] = h[l]
  BY <1>3, <1>4 DEF HandlesGood
<1> HIDE DEF u, g
<1>6. ASSUME NEW l \in Handles, l # k, h[l] # 0
      PROVE  h[l] \in Entries /\ Live(r, h[l]) /\ h[l] # a /\ l < T + E
  BY <1>3, <1>4, <1>6 DEF HandlesGood, Link
<1>7. \A l \in Handles : g[l] # 0 => l < T + E /\ Live(u, g[l])
  BY <1>1, <1>3, <1>4, <1>5, <1>6
<1>8. \A l, m \in Handles : g[l] # 0 /\ g[l] = g[m] => l = m
  BY <1>3, <1>5, <1>6 DEF HandlesGood
<1>9. ASSUME NEW e \in Entries, Live(u, e)
      PROVE  \E l \in Handles : g[l] = e
  <2>1. CASE e = a
    BY <1>3, <1>5, <2>1
  <2>2. CASE e # a
    <3>1. PICK l \in Handles : h[l] = e
      BY <1>1, <1>3, <1>9, <2>2 DEF HandlesGood
    <3>2. l # k
      BY <1>3, <3>1, EntryKinds
    <3> QED
      BY <1>5, <3>1, <3>2
  <2> QED
    BY <2>1, <2>2
<1>10. \A e, f \in Entries : Live(u, e) /\ Live(u, f) /\ u[e].conn = u[f].conn => e = f
  BY <1>1, <1>3 DEF HandlesGood
<1>11. HandlesGood(g, u)
  BY <1>5, <1>7, <1>8, <1>9, <1>10 DEF HandlesGood
<1> QED
  BY <1>1, <1>2, <1>11 DEF Good, u, g

-----------------------------------------------------------------------------
(* A deletion: the rules.                                                  *)

LEMMA DeletedRule ==
  ASSUME NEW e, NEW i, NEW k, NEW r, NEW x, NEW p, NEW h, DelOf(e, i, k, r, x, p, h)
  PROVE  /\ r \in [Entries -> Rule] /\ x \in [Entries -> Index]
         /\ e \in Entries /\ Live(r, e) /\ e \in InUse(r)
         /\ i \in Entries /\ i \in Indexed(x) /\ x[i].rule = e /\ i = r[e].indx
         /\ IsHead(NextIn(r), e) <=> e < T /\ r[e].next # 0
         /\ IsHead(NextIn(x), i) <=> i < T /\ x[i].next # 0
<1>1. Good(r, x, p, h) /\ k \in Handles /\ e = h[k] /\ e # 0 /\ i = r[e].indx
  BY DEF DelOf
<1>2. r \in [Entries -> Rule] /\ x \in [Entries -> Index]
  BY <1>1 DEF Good, RulesGood, IndexGood
<1>3. e \in Entries /\ Live(r, e)
  BY <1>1 DEF Good, HandlesGood, Link
<1>4. i \in Indexed(x) /\ i \in Entries /\ x[i].rule = e
  BY <1>1, <1>3, IndexOfRule DEF Good
<1> QED
  BY <1>1, <1>2, <1>3, <1>4 DEF InUse, Live, IsHead, NextIn

\* All but the links of the rules other than e are the same.
ContentKept(s, r, e) ==
  /\ s \in [Entries -> Rule]
  /\ \A f \in Entries : f # e =>
       /\ s[f].conn = r[f].conn /\ s[f].enable = r[f].enable
       /\ s[f].dead = r[f].dead /\ s[f].indx = r[f].indx

\* A rule in the expansion table, with the entries before and behind it.
LEMMA AroundRule ==
  ASSUME NEW r, RulesGood(r), NEW e \in InUse(r), e >= T
  PROVE  LET b == r[e].prev
             n == r[e].next
         IN /\ e \in ExpnEntries /\ e \in Entries
            /\ b \in Entries /\ b \in InUse(r) /\ r[b].next = e /\ b # e
            /\ n # e /\ n \in Link
            /\ n # 0 => n \in Entries /\ n \in InUse(r) /\ r[n].prev = e /\ n \in ExpnEntries
<1> DEFINE b == r[e].prev
           n == r[e].next
<1>1. r \in [Entries -> Rule] /\ Chained(NextIn(r), PrevIn(r), InUse(r), RuleKeys(r))
  BY DEF RulesGood
<1>2. e \in ExpnEntries /\ e \in Entries
  BY EntryKinds DEF InUse
<1>3. NextIn(r)[e] = n /\ PrevIn(r)[e] = b /\ n \in Link
  BY <1>1, <1>2 DEF NextIn, PrevIn, Rule
<1>4. /\ PrevIn(r)[e] \in InUse(r) /\ NextIn(r)[PrevIn(r)[e]] = e /\ PrevIn(r)[e] # e
      /\ NextIn(r)[e] # e
  BY <1>1, <1>2, EntryBefore
<1>5. b \in InUse(r) /\ b \in Entries
  BY <1>3, <1>4 DEF InUse
<1>6. r[b].next = e
  BY <1>3, <1>4, <1>5 DEF NextIn
<1>7. ASSUME n # 0
      PROVE  n \in Entries /\ n \in InUse(r) /\ r[n].prev = e /\ n \in ExpnEntries
  <2>1. n \in ExpnEntries \cap InUse(r) /\ PrevIn(r)[n] = e
    BY <1>1, <1>2, <1>3, <1>7 DEF Chained
  <2> QED
    BY <2>1, EntryKinds DEF PrevIn
<1> QED
  BY <1>2, <1>3, <1>4, <1>5, <1>6, <1>7

\* The rules while e is unlinked: cut off, linked backwards, cleared.
IsUnlinked(s, t, u, r, e, b, n) ==
  /\ ContentKept(s, r, e) /\ ContentKept(t, r, e) /\ ContentKept(u, r, e)
  /\ s[e].conn = r[e].conn /\ t[e].conn = r[e].conn
  /\ s[e].enable = TRUE /\ t[e].enable = TRUE
  /\ s[e].dead = r[e].dead /\ t[e].dead = r[e].dead
  /\ \A f \in Entries : f # e => s[f].next = IF f = b THEN n ELSE r[f].next
  /\ \A f \in Entries : f # e => t[f].next = IF f = b THEN n ELSE r[f].next
  /\ \A f \in Entries : f # e => u[f].next = IF f = b THEN n ELSE r[f].next
  /\ u[e] = NoRule
  /\ \A f \in Entries : f # e => u[f].prev = IF n # 0 /\ f = n THEN b ELSE r[f].prev
  /\ \A f \in Entries : f # e /\ f # b /\ f # n => u[f] = r[f]

LEMMA RowsOfUnlinkedRule ==
  ASSUME NEW r, RulesGood(r), NEW e \in InUse(r), e >= T
  PROVE  IsUnlinked(RuleCut(r, e), RuleBackLinked(r, e), RuleCleared(r, e),
                    r, e, r[e].prev, r[e].next)
<1> DEFINE b == r[e].prev
           n == r[e].next
           s == RuleCut(r, e)
           t == RuleBackLinked(r, e)
           u == RuleCleared(r, e)
<1>1. /\ r \in [Entries -> Rule] /\ e \in ExpnEntries /\ e \in Entries
      /\ b \in Entries /\ b # e /\ n # e /\ n \in Link /\ (n # 0 => n \in Entries)
  BY AroundRule DEF RulesGood
<1>2. ~(e < T) /\ ~IsHead(NextIn(r), e) /\ r[e].enable = TRUE
  BY <1>1, EntryKinds DEF IsHead, InUse, Rule
<1>3. s = [r EXCEPT ![b] = [r[b] EXCEPT !.next = n]]
  BY <1>2 DEF RuleCut
<1>4. t = IF n # 0 THEN [s EXCEPT ![n] = [s[n] EXCEPT !.prev = b]] ELSE s
  BY <1>2 DEF RuleBackLinked
<1>5. u = [t EXCEPT ![e] = NoRule]
  BY <1>2 DEF RuleCleared
<1> HIDE DEF s, t, u
<1>6. \A q \in Rule : LET w == [q EXCEPT !.next = n] IN
        /\ w \in Rule /\ w.conn = q.conn /\ w.enable = q.enable /\ w.dead = q.dead
        /\ w.next = n /\ w.prev = q.prev /\ w.indx = q.indx
  BY <1>1 DEF Rule
<1>7. \A q \in Rule : LET w == [q EXCEPT !.prev = b] IN
        /\ w \in Rule /\ w.conn = q.conn /\ w.enable = q.enable /\ w.dead = q.dead
        /\ w.next = q.next /\ w.prev = b /\ w.indx = q.indx
  BY <1>1, TableTypes DEF Rule
<1> HIDE DEF b, n
<1>8. /\ s \in [Entries -> Rule] /\ s[b] = [r[b] EXCEPT !.next = n]
      /\ \A f \in Entries : f # b => s[f] = r[f]
  BY <1>1, <1>3, <1>6
<1>9. \A f \in Entries :
        /\ s[f].conn = r[f].conn /\ s[f].enable = r[f].enable /\ s[f].dead = r[f].dead
        /\ s[f].indx = r[f].indx /\ s[f].prev = r[f].prev
        /\ s[f].next = IF f = b THEN n ELSE r[f].next
  <2> SUFFICES ASSUME NEW f \in Entries
               PROVE  /\ s[f].conn = r[f].conn /\ s[f].enable = r[f].enable
                      /\ s[f].dead = r[f].dead
                      /\ s[f].indx = r[f].indx /\ s[f].prev = r[f].prev
                      /\ s[f].next = IF f = b THEN n ELSE r[f].next
    OBVIOUS
  <2>1. CASE f = b
    <3>1. r[f] \in Rule /\ s[f] = [r[f] EXCEPT !.next = n]
      BY <1>1, <1>8, <2>1
    <3> QED
      BY <1>6, <2>1, <3>1
  <2>2. CASE f # b
    BY <1>8, <2>2
  <2> QED
    BY <2>1, <2>2
<1>10. /\ t \in [Entries -> Rule]
       /\ \A f \in Entries : f # n \/ n = 0 => t[f] = s[f]
       /\ n # 0 => t[n] = [s[n] EXCEPT !.prev = b]
  <2>1. CASE n = 0
    BY <1>4, <1>8, <2>1
  <2>2. CASE n # 0
    <3>1. t = [s EXCEPT ![n] = [s[n] EXCEPT !.prev = b]] /\ n \in Entries
      BY <1>1, <1>4, <2>2
    <3>2. s[n] \in Rule
      BY <1>8, <3>1
    <3>3. [s[n] EXCEPT !.prev = b] \in Rule
      BY <1>7, <3>2
    <3> QED
      BY <1>8, <2>2, <3>1, <3>3
  <2> QED
    BY <2>1, <2>2
<1>11. \A f \in Entries :
        /\ t[f].conn = s[f].conn /\ t[f].enable = s[f].enable /\ t[f].dead = s[f].dead
        /\ t[f].indx = s[f].indx /\ t[f].next = s[f].next
        /\ t[f].prev = IF n # 0 /\ f = n THEN b ELSE s[f].prev
  <2> SUFFICES ASSUME NEW f \in Entries
               PROVE  /\ t[f].conn = s[f].conn /\ t[f].enable = s[f].enable
                      /\ t[f].dead = s[f].dead
                      /\ t[f].indx = s[f].indx /\ t[f].next = s[f].next
                      /\ t[f].prev = IF n # 0 /\ f = n THEN b ELSE s[f].prev
    OBVIOUS
  <2>1. CASE n # 0 /\ f = n
    <3>1. s[n] \in Rule /\ t[n] = [s[n] EXCEPT !.prev = b]
      BY <1>8, <1>10, <2>1
    <3> QED
      BY <1>7, <2>1, <3>1
  <2>2. CASE ~(n # 0 /\ f = n)
    BY <1>10, <2>2
  <2> QED
    BY <2>1, <2>2
<1>12. /\ u \in [Entries -> Rule] /\ u[e] = NoRule
       /\ \A f \in Entries : f # e => u[f] = t[f]
  BY <1>1, <1>5, <1>10, TableTypes
<1>13. ContentKept(s, r, e) /\ ContentKept(t, r, e) /\ ContentKept(u, r, e)
  BY <1>8, <1>9, <1>10, <1>11, <1>12 DEF ContentKept
<1>14. /\ s[e].conn = r[e].conn /\ t[e].conn = r[e].conn
       /\ s[e].enable = TRUE /\ t[e].enable = TRUE
       /\ s[e].dead = r[e].dead /\ t[e].dead = r[e].dead
  BY <1>1, <1>2, <1>9, <1>11
<1>15. \A f \in Entries : f # e =>
         /\ s[f].next = IF f = b THEN n ELSE r[f].next
         /\ t[f].next = IF f = b THEN n ELSE r[f].next
         /\ u[f].next = IF f = b THEN n ELSE r[f].next
         /\ u[f].prev = IF n # 0 /\ f = n THEN b ELSE r[f].prev
  BY <1>9, <1>11, <1>12
<1>16. \A f \in Entries : f # e /\ f # b /\ f # n => u[f] = r[f]
  BY <1>8, <1>10, <1>12
<1> QED
  <2>1. IsUnlinked(s, t, u, r, e, b, n)
    BY <1>12, <1>13, <1>14, <1>15, <1>16 DEF IsUnlinked
  <2> QED
    BY <2>1 DEF b, n, s, t, u

LEMMA KeptRulesServe ==
  ASSUME NEW r, RulesGood(r), NEW e \in Entries, NEW v, ContentKept(v, r, e),
         Live(v, e) => Live(r, e) /\ v[e].conn = r[e].conn,
         \A f \in Entries : Live(r, f) /\ f # e => f \in Chain(NextIn(v), Dst[r[f].conn])
  PROVE  RulesServe(v, r, e)
<1>1. v \in [Entries -> Rule] /\ \A f \in Entries : f # e =>
        v[f].conn = r[f].conn /\ v[f].enable = r[f].enable /\ v[f].dead = r[f].dead
  BY DEF ContentKept
<1>2. \A f \in Entries : f # e => (Live(v, f) <=> Live(r, f)) /\ v[f].conn = r[f].conn
  BY <1>1 DEF Live
<1> QED
  BY <1>1, <1>2 DEF RulesServe

\* A rule in the base table.
LEMMA RowsOfCutHead ==
  ASSUME NEW r, RulesGood(r), NEW e \in InUse(r), e < T
  PROVE  LET s == RuleCut(r, e)
             t == RuleBackLinked(r, e)
             u == RuleCleared(r, e)
         IN /\ ContentKept(s, r, e) /\ ContentKept(t, r, e) /\ ContentKept(u, r, e)
            /\ ~Live(s, e) /\ ~Live(t, e) /\ ~Live(u, e)
            /\ NextIn(s) = NextIn(r) /\ NextIn(t) = NextIn(r) /\ NextIn(u) = NextIn(r)
            /\ \A f \in Entries : f # e => u[f] = r[f]
            /\ IF r[e].next # 0
               THEN u[e].conn = r[e].conn /\ u[e].enable = TRUE /\ u[e].dead = TRUE
                    /\ u[e].next = r[e].next /\ u[e].prev = r[e].prev
               ELSE u[e] = NoRule
<1> DEFINE s == RuleCut(r, e)
           t == RuleBackLinked(r, e)
           u == RuleCleared(r, e)
<1>1. r \in [Entries -> Rule] /\ e \in Entries /\ r[e] \in Rule
  BY DEF RulesGood, InUse
<1>2. r[e].enable = TRUE /\ ~(e >= T) /\ (IsHead(NextIn(r), e) <=> r[e].next # 0)
  BY <1>1, EntryKinds DEF IsHead, InUse, Rule, NextIn
<1>3. t = s
  BY <1>2 DEF RuleBackLinked
<1>4. CASE r[e].next # 0
  <2>1. s = [r EXCEPT ![e] = [r[e] EXCEPT !.dead = TRUE]] /\ u = s
    BY <1>2, <1>3, <1>4 DEF RuleCut, RuleCleared
  <2> HIDE DEF s, t, u
  <2>2. LET w == [r[e] EXCEPT !.dead = TRUE] IN
          /\ w \in Rule /\ w.conn = r[e].conn /\ w.enable = TRUE /\ w.dead = TRUE
          /\ w.next = r[e].next /\ w.prev = r[e].prev /\ w.indx = r[e].indx
    BY <1>1, <1>2 DEF Rule
  <2>3. /\ s \in [Entries -> Rule] /\ s[e] = [r[e] EXCEPT !.dead = TRUE]
        /\ \A f \in Entries : f # e => s[f] = r[f]
    BY <1>1, <2>1, <2>2
  <2>4. ContentKept(s, r, e) /\ ~Live(s, e)
    BY <2>2, <2>3 DEF ContentKept, Live
  <2>5. \A f \in Entries : s[f].next = r[f].next
    BY <2>2, <2>3
  <2>6. NextIn(s) = NextIn(r)
    BY <2>5 DEF NextIn
  <2> QED
    BY <1>3, <1>4, <2>1, <2>2, <2>3, <2>4, <2>6 DEF s, t, u
<1>5. CASE r[e].next = 0
  <2>1. s = [r EXCEPT ![e] = [r[e] EXCEPT !.enable = FALSE]] /\ u = [s EXCEPT ![e] = NoRule]
    BY <1>2, <1>3, <1>5 DEF RuleCut, RuleCleared
  <2> HIDE DEF s, t, u
  <2>2. LET w == [r[e] EXCEPT !.enable = FALSE] IN
          w \in Rule /\ w.enable = FALSE /\ w.next = 0
    BY <1>1, <1>5 DEF Rule
  <2>3. /\ s \in [Entries -> Rule] /\ s[e] = [r[e] EXCEPT !.enable = FALSE]
        /\ \A f \in Entries : f # e => s[f] = r[f]
    BY <1>1, <2>1, <2>2
  <2>4. /\ u \in [Entries -> Rule] /\ u[e] = NoRule
        /\ \A f \in Entries : f # e => u[f] = r[f]
    BY <1>1, <2>1, <2>3, TableTypes
  <2>5. NoRule.next = 0 /\ NoRule.enable = FALSE
    BY DEF NoRule
  <2>6. /\ ContentKept(s, r, e) /\ ~Live(s, e)
        /\ ContentKept(u, r, e) /\ ~Live(u, e)
    BY <2>2, <2>3, <2>4, <2>5 DEF ContentKept, Live
  <2>7. \A f \in Entries : s[f].next = r[f].next /\ u[f].next = r[f].next
    BY <1>5, <2>2, <2>3, <2>4, <2>5
  <2>8. NextIn(s) = NextIn(r) /\ NextIn(u) = NextIn(r)
    BY <2>7 DEF NextIn
  <2> QED
    BY <1>3, <1>5, <2>4, <2>6, <2>8 DEF s, t, u
<1> QED
  BY <1>4, <1>5

\* The rules that stay are found while the entry e is taken out.
LEMMA CutRulesServe ==
  ASSUME NEW r, RulesGood(r), NEW e \in Entries, Live(r, e)
  PROVE  /\ RulesServe(RuleCut(r, e), r, e)
         /\ RulesServe(RuleBackLinked(r, e), r, e)
         /\ RulesServe(RuleCleared(r, e), r, e)
         /\ ~Live(RuleCleared(r, e), e)
<1> DEFINE s == RuleCut(r, e)
           t == RuleBackLinked(r, e)
           u == RuleCleared(r, e)
<1>1. e \in InUse(r) /\ r \in [Entries -> Rule]
  BY DEF InUse, Live, RulesGood
<1>2. \A f \in Entries : Live(r, f) =>
        /\ f \in Chain(NextIn(r), Dst[r[f].conn]) /\ Dst[r[f].conn] \in BaseEntries
  BY LiveRule
<1>3. CASE e < T
  <2>1. /\ ContentKept(s, r, e) /\ ContentKept(t, r, e) /\ ContentKept(u, r, e)
        /\ ~Live(s, e) /\ ~Live(t, e) /\ ~Live(u, e)
        /\ NextIn(s) = NextIn(r) /\ NextIn(t) = NextIn(r) /\ NextIn(u) = NextIn(r)
    BY <1>1, <1>3, RowsOfCutHead
  <2> HIDE DEF s, t, u
  <2>2. RulesServe(s, r, e)
    BY <1>2, <2>1, KeptRulesServe
  <2>3. RulesServe(t, r, e)
    BY <1>2, <2>1, KeptRulesServe
  <2>4. RulesServe(u, r, e)
    BY <1>2, <2>1, KeptRulesServe
  <2> QED
    BY <2>1, <2>2, <2>3, <2>4 DEF s, t, u
<1>4. CASE e >= T
  <2> DEFINE b == r[e].prev
             n == r[e].next
  <2>1. /\ ContentKept(s, r, e) /\ ContentKept(t, r, e) /\ ContentKept(u, r, e)
        /\ s[e].conn = r[e].conn /\ t[e].conn = r[e].conn
        /\ \A f \in Entries : f # e => s[f].next = IF f = b THEN n ELSE r[f].next
        /\ \A f \in Entries : f # e => t[f].next = IF f = b THEN n ELSE r[f].next
        /\ \A f \in Entries : f # e => u[f].next = IF f = b THEN n ELSE r[f].next
        /\ u[e] = NoRule
    <3>1. IsUnlinked(s, t, u, r, e, b, n)
      BY <1>1, <1>4, RowsOfUnlinkedRule
    <3> HIDE DEF s, t, u, b, n
    <3> QED
      BY <3>1 DEF IsUnlinked
  <2>2. e \in ExpnEntries /\ b \in Entries /\ b # e
    BY <1>1, <1>4, AroundRule
  <2>3. ~Live(u, e)
    BY <2>1 DEF Live, NoRule
  <2> HIDE DEF s, t, u
  <2>4. PrevIn(r)[e] = b /\ NextIn(r)[e] = n
    BY DEF PrevIn, NextIn
  <2>5. Chained(NextIn(r), PrevIn(r), InUse(r), RuleKeys(r))
    BY DEF RulesGood
  <2>6. ASSUME NEW v, v \in [Entries -> Rule],
               \A f \in Entries : f # e => v[f].next = IF f = b THEN n ELSE r[f].next,
               NEW f \in Entries, Live(r, f), f # e
        PROVE  f \in Chain(NextIn(v), Dst[r[f].conn])
    <3>1. NextIn(v) \in Links
      BY <2>6, NextOfRules
    <3>2. /\ \A y \in Entries : y # PrevIn(r)[e] /\ y # e => NextIn(v)[y] = NextIn(r)[y]
          /\ NextIn(v)[PrevIn(r)[e]] = NextIn(r)[e]
      BY <2>2, <2>4, <2>6 DEF NextIn
    <3>3. \A d \in BaseEntries : Chain(NextIn(r), d) \ {e} \subseteq Chain(NextIn(v), d)
      BY <1>1, <2>2, <2>5, <3>1, <3>2, Bypass
    <3> QED
      BY <1>2, <2>6, <3>3
  <2>7. RulesServe(s, r, e)
    BY <2>1, <2>6, KeptRulesServe DEF ContentKept
  <2>8. RulesServe(t, r, e)
    BY <2>1, <2>6, KeptRulesServe DEF ContentKept
  <2>9. RulesServe(u, r, e)
    BY <2>1, <2>3, <2>6, KeptRulesServe DEF ContentKept
  <2> QED
    BY <2>3, <2>7, <2>8, <2>9 DEF s, t, u
<1> QED
  BY <1>3, <1>4, EntryKinds, HashAssumption DEF HashAssumption

\* RulesGood but for dead heads with nothing behind them.
RulesTidy(r) ==
  /\ r \in [Entries -> Rule]
  /\ \A e \in Entries : ~r[e].enable => r[e] = NoRule
  /\ \A e \in Entries : r[e].enable => r[e].conn \in Conns
  /\ \A e \in Entries : r[e].dead => e < T
  /\ Chained(NextIn(r), PrevIn(r), InUse(r), RuleKeys(r))

\* The rules of v are those of r without e.
Without(v, r, e) ==
  \A f \in Entries : /\ Live(v, f) <=> Live(r, f) /\ f # e
                     /\ Live(v, f) => v[f].conn = r[f].conn

LEMMA TidyRulesServe ==
  ASSUME NEW r, NEW v, NEW e \in Entries, RulesTidy(v), Without(v, r, e)
  PROVE  RulesServe(v, r, e)
<1>1. v \in [Entries -> Rule]
  BY DEF RulesTidy
<1>2. ASSUME NEW f \in Entries, Live(v, f)
      PROVE  f \in Chain(NextIn(v), Dst[v[f].conn])
  <2>1. f \in InUse(v) /\ RuleKeys(v)[f] = Dst[v[f].conn]
    BY <1>2 DEF InUse, Live, RuleKeys
  <2> QED
    BY <2>1 DEF RulesTidy, Chained
<1> QED
  BY <1>1, <1>2 DEF Without, RulesServe

LEMMA ClearedRulesTidy ==
  ASSUME NEW r, RulesGood(r), NEW e \in Entries, Live(r, e)
  PROVE  RulesTidy(RuleCleared(r, e)) /\ ContentKept(RuleCleared(r, e), r, e)
<1> DEFINE u == RuleCleared(r, e)
<1>1. e \in InUse(r) /\ r \in [Entries -> Rule]
  BY DEF InUse, Live, RulesGood
<1>2. Chained(NextIn(r), PrevIn(r), InUse(r), RuleKeys(r))
  BY DEF RulesGood
<1>3. ~NoRule.enable /\ ~NoRule.dead /\ NoRule.next = 0
  BY DEF NoRule
<1>4. CASE e < T /\ r[e].next # 0
  <2>1. /\ ContentKept(u, r, e) /\ NextIn(u) = NextIn(r)
        /\ \A f \in Entries : f # e => u[f] = r[f]
        /\ u[e].conn = r[e].conn /\ u[e].enable = TRUE
        /\ u[e].next = r[e].next /\ u[e].prev = r[e].prev
    BY <1>1, <1>4, RowsOfCutHead
  <2> HIDE DEF u
  <2>2. InUse(u) = InUse(r)
    BY <1>1, <2>1 DEF InUse
  <2>3. \A f \in Entries : u[f].conn = r[f].conn /\ u[f].prev = r[f].prev
    BY <2>1
  <2>4. \A f \in Entries : RuleKeys(u)[f] = RuleKeys(r)[f] /\ PrevIn(u)[f] = PrevIn(r)[f]
    BY <2>3 DEF RuleKeys, PrevIn
  <2>5. Chained(NextIn(u), PrevIn(u), InUse(u), RuleKeys(u))
    <3>1. InUse(r) \subseteq Entries
      BY DEF InUse
    <3>2. Chained(NextIn(r), PrevIn(u), InUse(r), RuleKeys(u))
      BY <1>2, <2>4, <3>1, SameChained
    <3> QED
      BY <2>1, <2>2, <3>2
  <2>6. /\ u \in [Entries -> Rule]
        /\ \A f \in Entries : ~u[f].enable => u[f] = NoRule
        /\ \A f \in Entries : u[f].enable => u[f].conn \in Conns
        /\ \A f \in Entries : u[f].dead => f < T
    BY <1>1, <1>4, <2>1 DEF RulesGood, ContentKept, InUse
  <2> QED
    BY <2>1, <2>5, <2>6 DEF RulesTidy, u
<1>5. CASE e < T /\ r[e].next = 0
  <2>1. /\ ContentKept(u, r, e) /\ NextIn(u) = NextIn(r)
        /\ \A f \in Entries : f # e => u[f] = r[f]
        /\ u[e] = NoRule
    BY <1>1, <1>5, RowsOfCutHead
  <2> HIDE DEF u
  <2>2. InUse(u) = InUse(r) \ {e}
    BY <1>1, <1>3, <2>1 DEF InUse
  <2>3. \A f \in InUse(r) \ {e} : RuleKeys(u)[f] = RuleKeys(r)[f] /\ PrevIn(u)[f] = PrevIn(r)[f]
    BY <2>1 DEF RuleKeys, PrevIn, InUse
  <2>4. {e} \in SUBSET BaseEntries /\ \A f \in {e} : NextIn(r)[f] = 0
    BY <1>5, EntryKinds DEF NextIn
  <2>5. Chained(NextIn(r), PrevIn(r), InUse(r) \ {e}, RuleKeys(r))
    BY <1>2, <2>4, HeadsRemoved
  <2>6. Chained(NextIn(r), PrevIn(u), InUse(r) \ {e}, RuleKeys(u))
    BY <2>3, <2>5, SameChained
  <2>7. /\ u \in [Entries -> Rule]
        /\ \A f \in Entries : ~u[f].enable => u[f] = NoRule
        /\ \A f \in Entries : u[f].enable => u[f].conn \in Conns
        /\ \A f \in Entries : u[f].dead => f < T
    BY <1>3, <2>1 DEF RulesGood, ContentKept
  <2> QED
    BY <2>1, <2>2, <2>6, <2>7 DEF RulesTidy, u
<1>6. CASE e >= T
  <2> DEFINE b == r[e].prev
             n == r[e].next
  <2>1. IsUnlinked(RuleCut(r, e), RuleBackLinked(r, e), u, r, e, b, n)
    BY <1>1, <1>6, RowsOfUnlinkedRule
  <2>2. /\ e \in ExpnEntries /\ b \in Entries /\ b # e /\ n # e
        /\ PrevIn(r)[e] = b /\ NextIn(r)[e] = n
    BY <1>1, <1>6, AroundRule DEF PrevIn, NextIn
  <2> HIDE DEF u, b, n
  <2>3. /\ ContentKept(u, r, e) /\ u[e] = NoRule
        /\ \A f \in Entries : f # e => u[f].next = IF f = b THEN n ELSE r[f].next
        /\ \A f \in Entries : f # e => u[f].prev = IF n # 0 /\ f = n THEN b ELSE r[f].prev
        /\ \A f \in Entries : f # e /\ f # b /\ f # n => u[f] = r[f]
    BY <2>1 DEF IsUnlinked
  <2>4. /\ u \in [Entries -> Rule]
        /\ \A f \in Entries : f # e =>
             /\ u[f].conn = r[f].conn /\ u[f].enable = r[f].enable /\ u[f].dead = r[f].dead
    BY <2>3 DEF ContentKept
  <2>5. InUse(u) = InUse(r) \ {e}
    BY <1>1, <1>3, <2>3, <2>4 DEF InUse
  <2>6. NextIn(u) \in Links
    BY <2>4, NextOfRules
  <2>7. /\ NextIn(u)[b] = n /\ NextIn(u)[e] = 0
        /\ \A y \in Entries : y # b /\ y # e => NextIn(u)[y] = NextIn(r)[y]
    BY <1>3, <2>2, <2>3 DEF NextIn
  <2>8. \A f \in InUse(r) \ {e} : f \in ExpnEntries =>
          PrevIn(u)[f] = IF f = n THEN b ELSE PrevIn(r)[f]
    <3>1. \A f \in InUse(r) \ {e} : f \in Entries /\ f # e /\ f # 0
      BY EntryKinds DEF InUse
    <3> QED
      BY <2>3, <3>1 DEF PrevIn
  <2>9. \A f \in InUse(r) \ {e} : RuleKeys(u)[f] = RuleKeys(r)[f]
    BY <2>4 DEF RuleKeys, InUse
  <2>10. Chained(NextIn(u), PrevIn(u), InUse(r) \ {e}, RuleKeys(u))
    BY <1>1, <1>2, <2>2, <2>6, <2>7, <2>8, <2>9, Unlinked
  <2>11. \A f \in Entries : ~u[f].enable => u[f] = NoRule
    <3> SUFFICES ASSUME NEW f \in Entries, ~u[f].enable, f # e PROVE u[f] = NoRule
      BY <2>3
    <3>1. ~r[f].enable /\ r[f] = NoRule
      BY <2>4 DEF RulesGood
    <3>2. f \notin InUse(r)
      BY <3>1 DEF InUse
    <3>3. f # b /\ f # n
      BY <1>1, <1>6, <3>2, AroundRule, EntryKinds DEF b, n
    <3> QED
      BY <2>3, <3>1, <3>3
  <2>12. /\ \A f \in Entries : u[f].enable => u[f].conn \in Conns
         /\ \A f \in Entries : u[f].dead => f < T
    BY <1>3, <2>3, <2>4 DEF RulesGood
  <2>13. RulesTidy(u)
    BY <2>4, <2>5, <2>10, <2>11, <2>12 DEF RulesTidy
  <2> QED
    BY <2>3, <2>13 DEF u
<1> QED
  BY <1>4, <1>5, <1>6, EntryKinds, HashAssumption DEF HashAssumption

\* A rule whose index entry moved.
LEMMA MovedRuleTidy ==
  ASSUME NEW u, RulesTidy(u), NEW m \in Entries, u[m].enable, NEW i \in Link
  PROVE  LET v == [u EXCEPT ![m].indx = i]
         IN /\ RulesTidy(v)
            /\ \A f \in Entries :
                 /\ v[f].conn = u[f].conn /\ v[f].enable = u[f].enable /\ v[f].dead = u[f].dead
                 /\ v[f].indx = IF f = m THEN i ELSE u[f].indx
<1> DEFINE v == [u EXCEPT ![m].indx = i]
<1>1. u \in [Entries -> Rule] /\ v = [u EXCEPT ![m] = [u[m] EXCEPT !.indx = i]]
  BY DEF RulesTidy
<1> HIDE DEF v
<1>2. LET w == [u[m] EXCEPT !.indx = i] IN
        /\ w \in Rule /\ w.conn = u[m].conn /\ w.enable = u[m].enable /\ w.dead = u[m].dead
        /\ w.next = u[m].next /\ w.prev = u[m].prev /\ w.indx = i
  BY <1>1 DEF Rule
<1>3. /\ v \in [Entries -> Rule] /\ v[m] = [u[m] EXCEPT !.indx = i]
      /\ \A f \in Entries : f # m => v[f] = u[f]
  BY <1>1, <1>2
<1>4. \A f \in Entries :
        /\ v[f].conn = u[f].conn /\ v[f].enable = u[f].enable /\ v[f].dead = u[f].dead
        /\ v[f].next = u[f].next /\ v[f].prev = u[f].prev
        /\ v[f].indx = IF f = m THEN i ELSE u[f].indx
  <2> SUFFICES ASSUME NEW f \in Entries
               PROVE  /\ v[f].conn = u[f].conn /\ v[f].enable = u[f].enable
                      /\ v[f].dead = u[f].dead
                      /\ v[f].next = u[f].next /\ v[f].prev = u[f].prev
                      /\ v[f].indx = IF f = m THEN i ELSE u[f].indx
    OBVIOUS
  <2>1. CASE f = m
    BY <1>2, <1>3, <2>1
  <2>2. CASE f # m
    BY <1>3, <2>2
  <2> QED
    BY <2>1, <2>2
<1>5. /\ NextIn(v) = NextIn(u) /\ PrevIn(v) = PrevIn(u) /\ InUse(v) = InUse(u)
      /\ RuleKeys(v) = RuleKeys(u)
  BY <1>4 DEF NextIn, PrevIn, InUse, RuleKeys
<1>6. \A f \in Entries : ~v[f].enable => v[f] = NoRule
  BY <1>3, <1>4 DEF RulesTidy
<1>7. /\ \A f \in Entries : v[f].enable => v[f].conn \in Conns
      /\ \A f \in Entries : v[f].dead => f < T
      /\ Chained(NextIn(v), PrevIn(v), InUse(v), RuleKeys(v))
  BY <1>4, <1>5 DEF RulesTidy
<1>8. RulesTidy(v)
  BY <1>3, <1>6, <1>7 DEF RulesTidy
<1> QED
  BY <1>4, <1>8 DEF v

\* The sweep of the dead heads with nothing behind them.
LEMMA SweptGood ==
  ASSUME NEW v, RulesTidy(v)
  PROVE  /\ RulesGood(Swept(v))
         /\ \A f \in Entries : Live(Swept(v), f) <=> Live(v, f)
         /\ \A f \in Entries : Live(v, f) => Swept(v)[f] = v[f]
<1> DEFINE w == Swept(v)
           D == {e \in Entries : e < T /\ v[e].dead /\ v[e].next = 0}
<1>1. v \in [Entries -> Rule]
  BY DEF RulesTidy
<1>2. /\ w \in [Entries -> Rule]
      /\ \A e \in Entries : w[e] = IF e \in D THEN NoRule ELSE v[e]
  BY <1>1, TableTypes DEF Swept
<1>3. D \in SUBSET BaseEntries /\ \A e \in D : NextIn(v)[e] = 0 /\ v[e].next = 0
  BY EntryKinds DEF NextIn
<1>4. \A e \in D : v[e].dead
  OBVIOUS
<1>5. \A e \in Entries : v[e].dead => e \in D \/ v[e].next # 0
  BY DEF RulesTidy
<1> HIDE DEF w, D
<1>6. ~NoRule.enable /\ ~NoRule.dead /\ NoRule.next = 0
  BY DEF NoRule
<1>7. InUse(w) = InUse(v) \ D
  BY <1>2, <1>6 DEF InUse
<1>8. \A e \in Entries : w[e].next = v[e].next
  BY <1>2, <1>3, <1>6
<1>9. NextIn(w) = NextIn(v)
  BY <1>8 DEF NextIn
<1>10. \A e \in InUse(v) \ D : RuleKeys(w)[e] = RuleKeys(v)[e] /\ PrevIn(w)[e] = PrevIn(v)[e]
  BY <1>2 DEF RuleKeys, PrevIn, InUse
<1>11. Chained(NextIn(v), PrevIn(v), InUse(v) \ D, RuleKeys(v))
  BY <1>3, HeadsRemoved DEF RulesTidy
<1>12. Chained(NextIn(v), PrevIn(w), InUse(v) \ D, RuleKeys(w))
  BY <1>10, <1>11, SameChained
<1>13. /\ \A e \in Entries : ~w[e].enable => w[e] = NoRule
       /\ \A e \in Entries : w[e].enable => w[e].conn \in Conns
       /\ \A e \in Entries : w[e].dead => e < T /\ w[e].next # 0
  BY <1>2, <1>5, <1>6 DEF RulesTidy
<1>14. RulesGood(w)
  BY <1>2, <1>7, <1>9, <1>12, <1>13 DEF RulesGood
<1>15. \A f \in Entries : (Live(w, f) <=> Live(v, f)) /\ (Live(v, f) => w[f] = v[f])
  BY <1>2, <1>4, <1>6 DEF Live
<1> QED
  BY <1>14, <1>15 DEF w

-----------------------------------------------------------------------------
(* A deletion: the index entries.                                          *)

\* The entry that is cleared, and the one before it.
LEMMA SpareEntry ==
  ASSUME NEW e, NEW i, NEW k, NEW r, NEW x, NEW p, NEW h, DelOf(e, i, k, r, x, p, h),
         NEW sp, sp = Spare(x, i)
  PROVE  /\ sp \in Entries /\ sp \in Indexed(x) /\ x[sp].next \in Link
         /\ sp < T => sp = i /\ x[sp].next = 0 /\ ~IsHead(NextIn(x), i)
         /\ sp >= T => /\ sp \in ExpnEntries /\ Ahead(x, p, i) = p[sp]
                       /\ p[sp] \in Entries /\ p[sp] \in Indexed(x) /\ x[p[sp]].next = sp
                       /\ p[sp] # sp /\ x[sp].next # sp
         /\ IsHead(NextIn(x), i) =>
              /\ sp = x[i].next /\ p[sp] = i /\ sp >= T /\ sp # i
              /\ x[sp].rule \in Entries /\ Live(r, x[sp].rule) /\ r[x[sp].rule].indx = sp
              /\ x[sp].rule # e /\ IndexKeys(x, r)[i] = IndexKeys(x, r)[sp]
         /\ ~IsHead(NextIn(x), i) => sp = i
<1>1. /\ x \in [Entries -> Index] /\ i \in Entries /\ i \in Indexed(x) /\ x[i].rule = e
      /\ i = r[e].indx
      /\ IsHead(NextIn(x), i) <=> i < T /\ x[i].next # 0
  BY DeletedRule
<1>2. IndexGood(x, p, r)
  BY DEF DelOf, Good
<1>3. Chained(NextIn(x), p, Indexed(x), IndexKeys(x, r))
  BY <1>2 DEF IndexGood
<1>4. \A y \in Entries : NextIn(x)[y] = x[y].next /\ x[y].next \in Link /\ x[y].rule \in Link
  BY <1>1 DEF NextIn, Index
<1>5. ASSUME NEW y \in Entries, x[y].next # 0
      PROVE  /\ x[y].next \in ExpnEntries \cap Indexed(x) /\ p[x[y].next] = y
             /\ IndexKeys(x, r)[x[y].next] = IndexKeys(x, r)[y]
  BY <1>3, <1>4, <1>5 DEF Chained
<1>6. ASSUME NEW y \in Indexed(x), y \in ExpnEntries
      PROVE  /\ p[y] \in Entries /\ p[y] \in Indexed(x) /\ x[p[y]].next = y
             /\ p[y] # y /\ x[y].next # y
  <2>1. /\ p[y] \in Indexed(x) /\ NextIn(x)[p[y]] = y /\ p[y] # y /\ NextIn(x)[y] # y
    BY <1>3, <1>6, EntryBefore
  <2>2. p[y] \in Entries /\ y \in Entries
    BY <1>6, <2>1, EntryKinds DEF Indexed
  <2> QED
    BY <1>4, <2>1, <2>2
<1>7. CASE IsHead(NextIn(x), i)
  <2>1. sp = x[i].next /\ Ahead(x, p, i) = i
    BY <1>7 DEF Spare, Ahead
  <2>2. sp \in ExpnEntries /\ sp \in Indexed(x) /\ p[sp] = i /\ IndexKeys(x, r)[sp] = IndexKeys(x, r)[i]
    BY <1>1, <1>5, <1>7, <2>1
  <2>3. sp \in Entries /\ sp >= T /\ ~(sp < T) /\ sp # i
    BY <1>1, <1>7, <2>2, EntryKinds, HashAssumption DEF HashAssumption
  <2>4. x[sp].rule # 0
    BY <2>2 DEF Indexed
  <2>5. x[sp].rule \in Entries /\ Live(r, x[sp].rule) /\ r[x[sp].rule].indx = sp
    BY <1>2, <1>4, <2>3, <2>4 DEF IndexGood, Link
  <2>6. x[sp].rule # e
    BY <1>1, <2>3, <2>5
  <2> QED
    BY <1>4, <1>6, <1>7, <2>1, <2>2, <2>3, <2>5, <2>6
<1>8. CASE ~IsHead(NextIn(x), i)
  <2>1. sp = i /\ Ahead(x, p, i) = p[i]
    BY <1>8 DEF Spare, Ahead
  <2>2. i < T => x[i].next = 0
    BY <1>1, <1>8
  <2>3. i >= T => i \in ExpnEntries
    BY <1>1, EntryKinds
  <2> QED
    BY <1>1, <1>4, <1>6, <1>8, <2>1, <2>2, <2>3
<1> QED
  BY <1>7, <1>8

\* The index entries while the entry sp, behind a, is taken out: s before it is
\* cleared, t after.
IsIndexCut(s, t, x, i, sp, a, hd) ==
  /\ s \in [Entries -> Index] /\ t \in [Entries -> Index]
  /\ \A y \in Entries : y # sp =>
       /\ s[y].rule = IF hd /\ y = i THEN x[sp].rule ELSE x[y].rule
       /\ t[y].rule = IF hd /\ y = i THEN x[sp].rule ELSE x[y].rule
  /\ t[sp] = NoIndex
  /\ sp >= T => \A y \in Entries : y # sp =>
       /\ s[y].next = IF y = a THEN x[sp].next ELSE x[y].next
       /\ t[y].next = IF y = a THEN x[sp].next ELSE x[y].next
  /\ sp < T => \A y \in Entries : s[y].next = x[y].next /\ t[y].next = x[y].next

LEMMA RowsOfCutIndex ==
  ASSUME NEW e, NEW i, NEW k, NEW r, NEW x, NEW p, NEW h, DelOf(e, i, k, r, x, p, h),
         NEW sp, sp = Spare(x, i)
  PROVE  IsIndexCut(IndexCut(x, p, i), IndexCleared(x, p, i), x, i, sp, p[sp],
                    IsHead(NextIn(x), i))
<1> DEFINE hd == IsHead(NextIn(x), i)
           s == IndexCut(x, p, i)
           t == IndexCleared(x, p, i)
           a == p[sp]
           n == x[sp].next
<1>1. x \in [Entries -> Index] /\ i \in Entries /\ sp \in Entries /\ n \in Link
  BY DeletedRule, SpareEntry
<1>2. /\ sp < T => sp = i /\ n = 0 /\ ~hd
      /\ sp >= T => a \in Entries /\ a # sp
      /\ hd => sp = x[i].next /\ a = i /\ sp >= T /\ sp # i /\ x[sp].rule \in Link
      /\ ~hd => sp = i
  BY SpareEntry, TableTypes
<1>3. hd => s = [[x EXCEPT ![i].rule = x[sp].rule] EXCEPT ![i].next = n]
  BY <1>2 DEF IndexCut, IndexMoved
<1>4. ~hd /\ i < T => s = [x EXCEPT ![i].rule = 0]
  BY DEF IndexCut
<1>5. ~hd /\ ~(i < T) => s = [x EXCEPT ![a].next = n]
  BY <1>2 DEF IndexCut
<1>6. t = [s EXCEPT ![sp] = NoIndex]
  BY DEF IndexCleared
<1>7. sp \in Nat /\ T \in Nat /\ (i < T <=> ~(i >= T))
  BY <1>1, EntryKinds, HashAssumption DEF HashAssumption
<1> HIDE DEF hd, s, t, a, n
<1>8. \A q \in Index, l \in Link :
        /\ [q EXCEPT !.next = l] \in Index /\ [q EXCEPT !.rule = l] \in Index
        /\ [q EXCEPT !.next = l].next = l /\ [q EXCEPT !.next = l].rule = q.rule
        /\ [q EXCEPT !.rule = l].rule = l /\ [q EXCEPT !.rule = l].next = q.next
  BY DEF Index
<1>9. NoIndex.next = 0
  BY DEF NoIndex
<1>10. CASE hd
  <2> DEFINE q == [x EXCEPT ![i].rule = x[sp].rule]
  <2>1. /\ q \in [Entries -> Index] /\ q[i] = [x[i] EXCEPT !.rule = x[sp].rule]
        /\ \A y \in Entries : y # i => q[y] = x[y]
    <3>1. x[i] \in Index /\ [x[i] EXCEPT !.rule = x[sp].rule] \in Index
      BY <1>1, <1>2, <1>8, <1>10
    <3> QED
      BY <1>1, <3>1
  <2>2. s = [q EXCEPT ![i] = [q[i] EXCEPT !.next = n]]
    BY <1>3, <1>10
  <2> HIDE DEF q
  <2>3. /\ s \in [Entries -> Index] /\ s[i] = [q[i] EXCEPT !.next = n]
        /\ \A y \in Entries : y # i => s[y] = x[y]
    <3>1. q[i] \in Index /\ [q[i] EXCEPT !.next = n] \in Index
      BY <1>1, <1>8, <2>1
    <3> QED
      BY <1>1, <2>1, <2>2, <3>1
  <2>4. s[i].next = n /\ s[i].rule = x[sp].rule
    <3>1. x[i] \in Index /\ x[sp].rule \in Link /\ q[i] \in Index
      BY <1>1, <1>2, <1>10, <2>1
    <3>2. q[i].rule = x[sp].rule
      BY <1>8, <2>1, <3>1
    <3> QED
      BY <1>1, <1>8, <2>3, <3>1, <3>2
  <2>5. t \in [Entries -> Index] /\ t[sp] = NoIndex /\ \A y \in Entries : y # sp => t[y] = s[y]
    BY <1>1, <1>6, <2>3, TableTypes
  <2>6. a = i /\ sp >= T /\ sp # i /\ ~(sp < T)
    BY <1>2, <1>7, <1>10
  <2>7. \A y \in Entries : y # sp =>
          /\ s[y].rule = IF y = i THEN x[sp].rule ELSE x[y].rule
          /\ s[y].next = IF y = i THEN n ELSE x[y].next
    BY <2>3, <2>4
  <2>8. IsIndexCut(s, t, x, i, sp, a, hd)
    BY <1>10, <2>3, <2>5, <2>6, <2>7 DEF IsIndexCut, n
  <2> QED
    BY <2>8 DEF hd, s, t, a
<1>11. CASE ~hd /\ i < T
  <2>1. sp = i /\ n = 0 /\ ~(sp >= T) /\ s = [x EXCEPT ![i] = [x[i] EXCEPT !.rule = 0]]
    BY <1>2, <1>4, <1>7, <1>11
  <2>2. [x[i] EXCEPT !.rule = 0] \in Index /\ [x[i] EXCEPT !.rule = 0].next = x[i].next
    BY <1>1, <1>8, TableTypes
  <2>3. /\ s \in [Entries -> Index] /\ s[i] = [x[i] EXCEPT !.rule = 0]
        /\ \A y \in Entries : y # i => s[y] = x[y]
    BY <1>1, <2>1, <2>2
  <2>4. t \in [Entries -> Index] /\ t[sp] = NoIndex /\ \A y \in Entries : y # sp => t[y] = s[y]
    BY <1>1, <1>6, <2>3, TableTypes
  <2>5. \A y \in Entries : s[y].next = x[y].next /\ t[y].next = x[y].next
    BY <1>9, <2>1, <2>2, <2>3, <2>4 DEF n
  <2>6. IsIndexCut(s, t, x, i, sp, a, hd)
    BY <1>11, <2>1, <2>3, <2>4, <2>5 DEF IsIndexCut
  <2> QED
    BY <2>6 DEF hd, s, t, a
<1>12. CASE ~hd /\ ~(i < T)
  <2>1. /\ sp = i /\ sp >= T /\ ~(sp < T) /\ a \in Entries /\ a # sp
        /\ s = [x EXCEPT ![a] = [x[a] EXCEPT !.next = n]]
    BY <1>2, <1>5, <1>7, <1>12
  <2>2. LET w == [x[a] EXCEPT !.next = n] IN w \in Index /\ w.rule = x[a].rule /\ w.next = n
    BY <1>1, <1>8, <2>1
  <2>3. /\ s \in [Entries -> Index] /\ s[a] = [x[a] EXCEPT !.next = n]
        /\ \A y \in Entries : y # a => s[y] = x[y]
    BY <1>1, <2>1, <2>2
  <2>4. t \in [Entries -> Index] /\ t[sp] = NoIndex /\ \A y \in Entries : y # sp => t[y] = s[y]
    BY <1>1, <1>6, <2>3, TableTypes
  <2>5. \A y \in Entries :
          s[y].rule = x[y].rule /\ s[y].next = IF y = a THEN n ELSE x[y].next
    BY <2>2, <2>3
  <2>6. IsIndexCut(s, t, x, i, sp, a, hd)
    BY <1>12, <2>1, <2>3, <2>4, <2>5 DEF IsIndexCut, n
  <2> QED
    BY <2>6 DEF hd, s, t, a
<1> QED
  BY <1>10, <1>11, <1>12

\* The index entry of each rule but the one that is deleted.
NewIndx(x, r, i, f) ==
  IF IsHead(NextIn(x), i) /\ f = x[x[i].next].rule THEN i ELSE r[f].indx

LEMMA NewIndxFacts ==
  ASSUME NEW e, NEW i, NEW k, NEW r, NEW x, NEW p, NEW h, DelOf(e, i, k, r, x, p, h),
         NEW f \in Entries, Live(r, f), f # e
  PROVE  LET g  == NewIndx(x, r, i, f)
             sp == Spare(x, i)
         IN /\ g \in Entries /\ g \in Indexed(x) /\ g # sp
            /\ (IF IsHead(NextIn(x), i) /\ g = i THEN x[sp].rule ELSE x[g].rule) = f
            /\ IndexKeys(x, r)[g] = Src[r[f].conn]
            /\ Src[r[f].conn] \in BaseEntries
            /\ g \in Chain(NextIn(x), Src[r[f].conn])
<1> DEFINE g  == NewIndx(x, r, i, f)
           sp == Spare(x, i)
           hd == IsHead(NextIn(x), i)
           y  == r[f].indx
<1>1. /\ RulesGood(r) /\ IndexGood(x, p, r)
      /\ Chained(NextIn(x), p, Indexed(x), IndexKeys(x, r))
  BY DEF DelOf, Good, IndexGood
<1>2. i \in Entries /\ i \in Indexed(x) /\ x[i].rule = e
  BY DeletedRule
<1>3. /\ y \in Indexed(x) /\ y \in Entries /\ x[y].rule = f /\ Src[r[f].conn] \in BaseEntries
      /\ y \in Chain(NextIn(x), Src[r[f].conn])
  BY <1>1, IndexOfRule
<1>4. /\ sp \in Entries
      /\ hd => /\ sp = x[i].next /\ sp # i /\ r[x[sp].rule].indx = sp
               /\ IndexKeys(x, r)[i] = IndexKeys(x, r)[sp]
      /\ ~hd => sp = i
  BY SpareEntry
<1>5. y # i
  BY <1>2, <1>3
<1>6. IndexKeys(x, r)[y] = Src[r[f].conn]
  BY <1>3 DEF IndexKeys
<1>7. IndexKeys(x, r)[i] \in BaseEntries /\ i \in Chain(NextIn(x), IndexKeys(x, r)[i])
  BY <1>1, <1>2 DEF Chained
<1>8. g = IF hd /\ f = x[sp].rule THEN i ELSE y
  BY <1>4 DEF NewIndx
<1> HIDE DEF g, sp, hd, y
<1>9. hd /\ f = x[sp].rule => y = sp
  BY <1>4 DEF y
<1>10. hd /\ f # x[sp].rule => y # sp
  BY <1>3
<1>11. /\ g \in Entries /\ g \in Indexed(x) /\ g # sp
       /\ (IF hd /\ g = i THEN x[sp].rule ELSE x[g].rule) = f
       /\ IndexKeys(x, r)[g] = Src[r[f].conn]
       /\ Src[r[f].conn] \in BaseEntries
       /\ g \in Chain(NextIn(x), Src[r[f].conn])
  <2>1. CASE hd /\ f = x[sp].rule
    BY <1>2, <1>3, <1>4, <1>6, <1>7, <1>8, <1>9, <2>1
  <2>2. CASE ~(hd /\ f = x[sp].rule)
    BY <1>3, <1>4, <1>5, <1>6, <1>8, <1>10, <2>2
  <2> QED
    BY <2>1, <2>2
<1> QED
  BY <1>11 DEF g, sp, hd

\* The index entries that stay are found while the one of e is taken out.
LEMMA CutIndexServes ==
  ASSUME NEW e, NEW i, NEW k, NEW r, NEW x, NEW p, NEW h, DelOf(e, i, k, r, x, p, h)
  PROVE  /\ IndexServes(x, r, e)
         /\ IndexServes(IndexMovedIfHead(x, i), r, e)
         /\ IndexServes(IndexCut(x, p, i), r, e)
         /\ IndexServes(IndexCleared(x, p, i), r, e)
<1> DEFINE hd == IsHead(NextIn(x), i)
           sp == Spare(x, i)
           a  == p[sp]
           s  == IndexCut(x, p, i)
           t  == IndexCleared(x, p, i)
           w  == IndexMovedIfHead(x, i)
<1>1. /\ RulesGood(r) /\ IndexGood(x, p, r) /\ x \in [Entries -> Index]
      /\ Chained(NextIn(x), p, Indexed(x), IndexKeys(x, r))
  BY DEF DelOf, Good, IndexGood
<1>2. IndexServes(x, r, e)
  BY <1>1, IndexServesItself
<1>3. /\ i \in Entries /\ x[i].rule = e
      /\ sp \in Entries /\ sp \in Indexed(x) /\ x[sp].next \in Link
      /\ sp >= T => sp \in ExpnEntries /\ a \in Entries /\ a # sp
      /\ hd => sp = x[i].next /\ sp # i /\ x[sp].rule \in Entries
  BY DeletedRule, SpareEntry
<1>4. IndexServes(w, r, e)
  <2>1. CASE ~hd
    BY <1>2, <2>1 DEF IndexMovedIfHead
  <2>2. CASE hd
    <3>1. w = [x EXCEPT ![i] = [x[i] EXCEPT !.rule = x[sp].rule]]
      BY <1>3, <2>2 DEF IndexMovedIfHead, IndexMoved
    <3> HIDE DEF w
    <3>2. LET q == [x[i] EXCEPT !.rule = x[sp].rule] IN q \in Index /\ q.next = x[i].next
      BY <1>1, <1>3, <2>2 DEF Index, Link
    <3>3. /\ w \in [Entries -> Index] /\ \A y \in Entries : y # i => w[y] = x[y]
          /\ w[i] = [x[i] EXCEPT !.rule = x[sp].rule]
      BY <1>1, <1>3, <3>1, <3>2
    <3>4. \A y \in Entries : w[y].next = x[y].next
      BY <3>2, <3>3
    <3>5. NextIn(w) = NextIn(x)
      BY <3>4 DEF NextIn
    <3>6. ASSUME NEW f \in Entries, Live(r, f), f # e
          PROVE  \E y \in Chain(NextIn(w), Src[r[f].conn]) : w[y].rule = f
      <4>1. /\ r[f].indx \in Entries /\ x[r[f].indx].rule = f
            /\ r[f].indx \in Chain(NextIn(x), Src[r[f].conn])
        BY <1>1, <3>6, IndexOfRule
      <4>2. w[r[f].indx].rule = f
        BY <1>3, <3>3, <3>6, <4>1
      <4> QED
        BY <3>5, <4>1, <4>2
    <3>7. IndexServes(w, r, e)
      BY <3>3, <3>6 DEF IndexServes
    <3> QED
      BY <3>7 DEF w
  <2> QED
    BY <2>1, <2>2
<1>5. IsIndexCut(s, t, x, i, sp, a, hd)
  BY RowsOfCutIndex
<1>6. ASSUME NEW f \in Entries, Live(r, f), f # e
      PROVE  LET g == NewIndx(x, r, i, f) IN
             /\ g \in Entries /\ g # sp /\ Src[r[f].conn] \in BaseEntries
             /\ (IF hd /\ g = i THEN x[sp].rule ELSE x[g].rule) = f
             /\ g \in Chain(NextIn(x), Src[r[f].conn])
  BY <1>6, NewIndxFacts
<1> HIDE DEF hd, sp, a, s, t, w
<1>7. /\ s \in [Entries -> Index] /\ t \in [Entries -> Index]
      /\ \A y \in Entries : y # sp =>
           /\ s[y].rule = IF hd /\ y = i THEN x[sp].rule ELSE x[y].rule
           /\ t[y].rule = IF hd /\ y = i THEN x[sp].rule ELSE x[y].rule
  BY <1>5 DEF IsIndexCut
<1>8. ASSUME NEW v, v \in [Entries -> Index],
             sp >= T => \A y \in Entries : y # sp =>
               v[y].next = IF y = a THEN x[sp].next ELSE x[y].next,
             sp < T => \A y \in Entries : v[y].next = x[y].next,
             NEW b \in BaseEntries
      PROVE  Chain(NextIn(x), b) \ {sp} \subseteq Chain(NextIn(v), b)
  <2>1. CASE sp < T
    <3>1. NextIn(v) = NextIn(x)
      BY <1>8, <2>1 DEF NextIn
    <3> QED
      BY <3>1
  <2>2. CASE sp >= T
    <3>1. NextIn(v) \in Links
      BY <1>8, NextOfIndex
    <3>2. /\ \A y \in Entries : y # a /\ y # sp => NextIn(v)[y] = NextIn(x)[y]
          /\ NextIn(v)[a] = NextIn(x)[sp]
      BY <1>3, <1>8, <2>2 DEF NextIn
    <3>3. sp \in ExpnEntries /\ a = p[sp]
      BY <1>3, <2>2 DEF a
    <3> QED
      BY <1>1, <1>3, <3>1, <3>2, <3>3, Bypass
  <2> QED
    BY <1>3, <2>1, <2>2, EntryKinds, HashAssumption DEF HashAssumption
<1>9. \A b \in BaseEntries : /\ Chain(NextIn(x), b) \ {sp} \subseteq Chain(NextIn(s), b)
                             /\ Chain(NextIn(x), b) \ {sp} \subseteq Chain(NextIn(t), b)
  BY <1>5, <1>8 DEF IsIndexCut
<1>10. ASSUME NEW f \in Entries, Live(r, f), f # e
       PROVE  /\ \E y \in Chain(NextIn(s), Src[r[f].conn]) : s[y].rule = f
              /\ \E y \in Chain(NextIn(t), Src[r[f].conn]) : t[y].rule = f
  <2> DEFINE g == NewIndx(x, r, i, f)
  <2>1. /\ g \in Entries /\ g # sp /\ Src[r[f].conn] \in BaseEntries
        /\ (IF hd /\ g = i THEN x[sp].rule ELSE x[g].rule) = f
        /\ g \in Chain(NextIn(x), Src[r[f].conn])
    BY <1>6, <1>10
  <2> HIDE DEF g
  <2>2. s[g].rule = f /\ t[g].rule = f
    BY <1>7, <2>1
  <2>3. g \in Chain(NextIn(s), Src[r[f].conn]) /\ g \in Chain(NextIn(t), Src[r[f].conn])
    BY <1>9, <2>1
  <2> QED
    BY <2>2, <2>3
<1>11. IndexServes(s, r, e) /\ IndexServes(t, r, e)
  BY <1>7, <1>10 DEF IndexServes
<1> QED
  BY <1>2, <1>4, <1>11 DEF s, t, w

\* The index table without the entry of e, for the rules v that are left.
LEMMA DeletedIndexGood ==
  ASSUME NEW e, NEW i, NEW k, NEW r, NEW x, NEW p, NEW h, DelOf(e, i, k, r, x, p, h),
         NEW v, Without(v, r, e),
         \A f \in Entries : Live(v, f) => v[f].indx = NewIndx(x, r, i, f)
  PROVE  IndexGood(IndexCleared(x, p, i), PrevCleared(x, p, i), v)
<1> DEFINE hd == IsHead(NextIn(x), i)
           sp == Spare(x, i)
           a  == p[sp]
           t  == IndexCleared(x, p, i)
           q  == PrevCleared(x, p, i)
           n  == x[sp].next
<1>1. /\ RulesGood(r) /\ IndexGood(x, p, r) /\ x \in [Entries -> Index]
      /\ p \in [ExpnEntries -> Link]
      /\ Chained(NextIn(x), p, Indexed(x), IndexKeys(x, r))
      /\ \A y \in Entries : x[y].rule # 0 => Live(r, x[y].rule) /\ r[x[y].rule].indx = y
  BY DEF DelOf, Good, IndexGood
<1>2. /\ i \in Entries /\ x[i].rule = e /\ r[e].indx = i /\ i \in Indexed(x)
      /\ sp \in Entries /\ sp \in Indexed(x) /\ n \in Link
      /\ sp < T => sp = i /\ n = 0 /\ ~hd
      /\ sp >= T => /\ sp \in ExpnEntries /\ Ahead(x, p, i) = a
                    /\ a \in Entries /\ a \in Indexed(x) /\ a # sp /\ n # sp
      /\ hd => /\ sp # i /\ x[sp].rule \in Entries /\ x[sp].rule # e /\ Live(r, x[sp].rule)
               /\ r[x[sp].rule].indx = sp /\ IndexKeys(x, r)[i] = IndexKeys(x, r)[sp]
               /\ sp = x[i].next
      /\ ~hd => sp = i
  BY DeletedRule, SpareEntry
<1>3. IsIndexCut(IndexCut(x, p, i), t, x, i, sp, a, hd)
  BY RowsOfCutIndex
<1>4. ASSUME NEW f \in Entries, Live(r, f), f # e
      PROVE  LET g == NewIndx(x, r, i, f) IN
             /\ g \in Entries /\ g # sp
             /\ (IF hd /\ g = i THEN x[sp].rule ELSE x[g].rule) = f
  BY <1>4, NewIndxFacts
<1>5. \A f : NewIndx(x, r, i, f) = IF hd /\ f = x[sp].rule THEN i ELSE r[f].indx
  BY <1>2 DEF NewIndx
<1>6. n # 0 => n \in ExpnEntries /\ n \in Link
  BY <1>1, <1>2, TableTypes, EntryKinds DEF Chained, NextIn
<1>7. /\ q \in [ExpnEntries -> Link]
      /\ sp >= T => \A y \in ExpnEntries : y # sp => q[y] = IF y = n THEN a ELSE p[y]
      /\ sp < T => q = p
  <2>1. Behind(x, i) = n /\ (BackLinks(x, i) <=> sp >= T /\ n # 0)
    BY DEF Behind, BackLinks
  <2>2. 0 \notin ExpnEntries
    BY EntryKinds
  <2>3. CASE ~BackLinks(x, i)
    <3>1. q = p
      BY <2>3 DEF PrevCleared, PrevMoved
    <3> QED
      BY <1>1, <2>1, <2>2, <2>3, <3>1
  <2>4. CASE BackLinks(x, i)
    <3> DEFINE m == PrevMoved(x, p, i)
    <3>1. m = [p EXCEPT ![n] = a] /\ a \in Link /\ n \in ExpnEntries /\ sp >= T /\ ~(sp < T)
      BY <1>2, <1>6, <2>1, <2>4, TableTypes, EntryKinds, HashAssumption
         DEF PrevMoved, HashAssumption
    <3>2. q = IF ~hd THEN [m EXCEPT ![i] = 0] ELSE m
      BY <2>4 DEF PrevCleared
    <3> HIDE DEF m, q, a, n
    <3>3. m \in [ExpnEntries -> Link] /\ \A y \in ExpnEntries : m[y] = IF y = n THEN a ELSE p[y]
      BY <1>1, <3>1
    <3>4. q \in [ExpnEntries -> Link] /\ \A y \in ExpnEntries : y # sp => q[y] = m[y]
      <4>1. CASE hd
        BY <3>2, <3>3, <4>1
      <4>2. CASE ~hd
        BY <1>2, <3>2, <3>3, <4>2, TableTypes
      <4> QED
        BY <4>1, <4>2
    <3> QED
      BY <3>1, <3>3, <3>4
  <2> QED
    BY <2>3, <2>4
<1> HIDE DEF hd, sp, a, t, q, n
<1>8. /\ t \in [Entries -> Index] /\ t[sp] = NoIndex
      /\ \A y \in Entries : y # sp =>
           t[y].rule = IF hd /\ y = i THEN x[sp].rule ELSE x[y].rule
      /\ sp >= T => \A y \in Entries : y # sp =>
           t[y].next = IF y = a THEN n ELSE x[y].next
      /\ sp < T => \A y \in Entries : t[y].next = x[y].next
  BY <1>3 DEF IsIndexCut, n
<1>9. NoIndex.rule = 0 /\ NoIndex.next = 0
  BY DEF NoIndex
<1>10. Indexed(t) = Indexed(x) \ {sp}
  <2>1. hd => x[sp].rule # 0 /\ x[i].rule # 0
    BY <1>2 DEF Indexed
  <2> QED
    BY <1>8, <1>9, <2>1 DEF Indexed
<1>11. ASSUME NEW y \in Entries, t[y].rule # 0
       PROVE  /\ y # sp /\ t[y].rule \in Entries /\ Live(r, t[y].rule) /\ t[y].rule # e
              /\ NewIndx(x, r, i, t[y].rule) = y
              /\ Src[r[t[y].rule].conn] = IndexKeys(x, r)[y]
  <2>1. y # sp
    BY <1>8, <1>9, <1>11
  <2>2. t[y].rule \in Entries
    BY <1>8, <1>11 DEF Index, Link
  <2>3. CASE hd /\ y = i
    <3>1. t[y].rule = x[sp].rule
      BY <1>8, <2>1, <2>3
    <3>2. Src[r[x[sp].rule].conn] = IndexKeys(x, r)[sp]
      BY <1>2 DEF IndexKeys
    <3> QED
      BY <1>2, <1>5, <2>1, <2>2, <2>3, <3>1, <3>2
  <2>4. CASE ~(hd /\ y = i)
    <3>1. t[y].rule = x[y].rule
      BY <1>8, <2>1, <2>4
    <3>2. Live(r, x[y].rule) /\ r[x[y].rule].indx = y
      BY <1>1, <1>11, <3>1
    <3>3. y # i
      BY <1>2, <2>1, <2>4
    <3>4. x[y].rule # e /\ (hd => x[y].rule # x[sp].rule)
      BY <1>2, <2>1, <3>2, <3>3
    <3>5. Src[r[x[y].rule].conn] = IndexKeys(x, r)[y]
      BY DEF IndexKeys
    <3> QED
      BY <1>5, <2>1, <2>2, <3>1, <3>2, <3>4, <3>5
  <2> QED
    BY <2>3, <2>4
<1>12. \A y \in Entries : t[y].rule # 0 => Live(v, t[y].rule) /\ v[t[y].rule].indx = y
  BY <1>11 DEF Without
<1>13. ASSUME NEW f \in Entries, Live(v, f)
       PROVE  v[f].indx # 0 /\ t[v[f].indx].rule = f
  <2> DEFINE g == NewIndx(x, r, i, f)
  <2>1. Live(r, f) /\ f # e /\ v[f].indx = g
    BY <1>13 DEF Without
  <2>2. /\ g \in Entries /\ g # sp
        /\ (IF hd /\ g = i THEN x[sp].rule ELSE x[g].rule) = f
    BY <1>4, <2>1
  <2> HIDE DEF g
  <2>3. t[g].rule = f
    BY <1>8, <2>2
  <2> QED
    BY <2>1, <2>2, <2>3, EntryKinds
<1>14. \A y \in Indexed(x) \ {sp} : IndexKeys(t, v)[y] = IndexKeys(x, r)[y]
  <2> SUFFICES ASSUME NEW y \in Indexed(x) \ {sp} PROVE IndexKeys(t, v)[y] = IndexKeys(x, r)[y]
    OBVIOUS
  <2>1. y \in Entries /\ t[y].rule # 0
    BY <1>10 DEF Indexed
  <2>2. v[t[y].rule].conn = r[t[y].rule].conn
    BY <1>11, <2>1 DEF Without
  <2>3. IndexKeys(t, v)[y] = Src[v[t[y].rule].conn]
    BY <2>1 DEF IndexKeys
  <2> QED
    BY <1>11, <2>1, <2>2, <2>3
<1>15. Chained(NextIn(t), q, Indexed(x) \ {sp}, IndexKeys(t, v))
  <2>1. CASE sp < T
    <3>1. NextIn(t) = NextIn(x)
      BY <1>8, <2>1 DEF NextIn
    <3>2. {sp} \in SUBSET BaseEntries /\ \A y \in {sp} : NextIn(x)[y] = 0
      BY <1>2, <2>1, EntryKinds DEF NextIn, n
    <3>3. Chained(NextIn(x), p, Indexed(x) \ {sp}, IndexKeys(x, r))
      BY <1>1, <3>2, HeadsRemoved
    <3>4. Chained(NextIn(x), p, Indexed(x) \ {sp}, IndexKeys(t, v))
      BY <1>14, <3>3, SameChained
    <3> QED
      BY <1>7, <2>1, <3>1, <3>4
  <2>2. CASE sp >= T
    <3>1. NextIn(t) \in Links
      BY <1>8, NextOfIndex
    <3>2. /\ NextIn(t)[p[sp]] = NextIn(x)[sp] /\ NextIn(t)[sp] = 0
          /\ \A y \in Entries : y # p[sp] /\ y # sp => NextIn(t)[y] = NextIn(x)[y]
      BY <1>2, <1>8, <1>9, <2>2 DEF NextIn, n, a
    <3>3. \A y \in Indexed(x) \ {sp} : y \in ExpnEntries =>
            q[y] = IF y = NextIn(x)[sp] THEN p[sp] ELSE p[y]
      BY <1>2, <1>7, <2>2 DEF NextIn, n, a
    <3>4. sp \in Indexed(x) /\ sp \in ExpnEntries
      BY <1>2, <2>2
    <3>5. Chained(NextIn(x), p, Indexed(x), IndexKeys(x, r))
      BY <1>1
    <3> HIDE DEF Indexed
    <3> QED
      BY <1>14, <3>1, <3>2, <3>3, <3>4, <3>5, Unlinked
  <2> QED
    BY <1>2, <2>1, <2>2, EntryKinds, HashAssumption DEF HashAssumption
<1>16. IndexGood(t, q, v)
  BY <1>7, <1>8, <1>10, <1>12, <1>13, <1>15 DEF IndexGood
<1> QED
  BY <1>16 DEF t, q

\* The rules of a deletion, from the one on that clears the rule.
LEMMA DeletedRules ==
  ASSUME NEW e, NEW i, NEW k, NEW r, NEW x, NEW p, NEW h, DelOf(e, i, k, r, x, p, h)
  PROVE  /\ RulesServe(RuleMoved(r, x, e, i), r, e)
         /\ RulesServe(Swept(RuleMoved(r, x, e, i)), r, e)
         /\ RulesGood(Swept(RuleMoved(r, x, e, i)))
         /\ Without(RuleCleared(r, e), r, e)
         /\ Without(RuleMoved(r, x, e, i), r, e)
         /\ Without(Swept(RuleMoved(r, x, e, i)), r, e)
         /\ \A f \in Entries : Live(Swept(RuleMoved(r, x, e, i)), f) =>
              Swept(RuleMoved(r, x, e, i))[f].indx = NewIndx(x, r, i, f)
<1> DEFINE hd == IsHead(NextIn(x), i)
           u == RuleCleared(r, e)
           w == RuleMoved(r, x, e, i)
           m == x[Spare(x, i)].rule
           v == Swept(w)
<1>0. RulesGood(r)
  BY DEF DelOf, Good
<1>1. e \in Entries /\ Live(r, e) /\ i \in Entries /\ i \in Link /\ RulesGood(r)
  BY <1>0, DeletedRule, TableTypes
<1>2. RulesTidy(u) /\ ContentKept(u, r, e) /\ ~Live(u, e)
  BY <1>1, ClearedRulesTidy, CutRulesServe
<1>3. hd => m \in Entries /\ Live(r, m) /\ m # e /\ Spare(x, i) = x[i].next
  BY SpareEntry
<1>4. Without(u, r, e)
  BY <1>2 DEF Without, ContentKept, Live
<1>5. w = IF hd THEN [u EXCEPT ![m].indx = i] ELSE u
  BY <1>3 DEF RuleMoved
<1>6. \A f : NewIndx(x, r, i, f) = IF hd /\ f = m THEN i ELSE r[f].indx
  BY <1>3 DEF NewIndx
<1> HIDE DEF hd, u, w, m
<1>7. /\ RulesTidy(w)
      /\ \A f \in Entries :
           /\ w[f].conn = u[f].conn /\ w[f].enable = u[f].enable /\ w[f].dead = u[f].dead
           /\ w[f].indx = IF hd /\ f = m THEN i ELSE u[f].indx
  <2>1. CASE ~hd
    BY <1>2, <1>5, <2>1
  <2>2. CASE hd
    <3>1. m \in Entries /\ u[m].enable
      BY <1>2, <1>3, <2>2 DEF ContentKept, Live
    <3>2. LET z == [u EXCEPT ![m].indx = i]
          IN /\ RulesTidy(z)
             /\ \A f \in Entries :
                  /\ z[f].conn = u[f].conn /\ z[f].enable = u[f].enable /\ z[f].dead = u[f].dead
                  /\ z[f].indx = IF f = m THEN i ELSE u[f].indx
      BY <1>1, <1>2, <3>1, MovedRuleTidy
    <3> QED
      BY <1>5, <2>2, <3>2
  <2> QED
    BY <2>1, <2>2
<1>8. Without(w, r, e)
  BY <1>4, <1>7 DEF Without, Live
<1>9. \A f \in Entries : Live(w, f) => w[f].indx = NewIndx(x, r, i, f)
  BY <1>2, <1>6, <1>7, <1>8 DEF Without, ContentKept
<1>10. /\ RulesGood(v)
       /\ \A f \in Entries : Live(v, f) <=> Live(w, f)
       /\ \A f \in Entries : Live(w, f) => v[f] = w[f]
  BY <1>7, SweptGood
<1> HIDE DEF v
<1>11. Without(v, r, e)
  BY <1>8, <1>10 DEF Without
<1>12. \A f \in Entries : Live(v, f) => v[f].indx = NewIndx(x, r, i, f)
  BY <1>9, <1>10
<1>13. RulesTidy(v)
  BY <1>10 DEF RulesGood, RulesTidy
<1>14. RulesServe(w, r, e) /\ RulesServe(v, r, e)
  BY <1>1, <1>7, <1>8, <1>11, <1>13, TidyRulesServe
<1> QED
  BY <1>4, <1>8, <1>10, <1>11, <1>12, <1>14 DEF u, v, w

\* The tables without the rule.
LEMMA DeletedGood ==
  ASSUME NEW e, NEW i, NEW k, NEW r, NEW x, NEW p, NEW h, DelOf(e, i, k, r, x, p, h)
  PROVE  Good(Swept(RuleMoved(r, x, e, i)), IndexCleared(x, p, i), PrevCleared(x, p, i),
              [h EXCEPT ![k] = 0])
<1> DEFINE v == Swept(RuleMoved(r, x, e, i))
           g == [h EXCEPT ![k] = 0]
<1>1. /\ RulesGood(v) /\ Without(v, r, e)
      /\ \A f \in Entries : Live(v, f) => v[f].indx = NewIndx(x, r, i, f)
  BY DeletedRules
<1> HIDE DEF v
<1>2. IndexGood(IndexCleared(x, p, i), PrevCleared(x, p, i), v)
  BY <1>1, DeletedIndexGood
<1>3. /\ h \in [Handles -> Link] /\ k \in Handles /\ h[k] = e /\ e # 0 /\ e \in Entries
      /\ \A l \in Handles : h[l] # 0 => l < T + E /\ Live(r, h[l]) /\ h[l] \in Entries
      /\ \A l, m \in Handles : h[l] # 0 /\ h[l] = h[m] => l = m
      /\ \A f \in Entries : Live(r, f) => \E l \in Handles : h[l] = f
      /\ \A f, f2 \in Entries : Live(r, f) /\ Live(r, f2) /\ r[f].conn = r[f2].conn => f = f2
  BY DeletedRule DEF DelOf, Good, HandlesGood, Link
<1>4. g \in [Handles -> Link] /\ g[k] = 0 /\ \A l \in Handles : l # k => g[l] = h[l]
  BY <1>3, TableTypes
<1> HIDE DEF g
<1>5. \A l \in Handles : g[l] # 0 => l < T + E /\ Live(v, g[l])
  BY <1>1, <1>3, <1>4 DEF Without
<1>6. \A l, m \in Handles : g[l] # 0 /\ g[l] = g[m] => l = m
  BY <1>3, <1>4
<1>7. ASSUME NEW f \in Entries, Live(v, f)
      PROVE  \E l \in Handles : g[l] = f
  <2>1. Live(r, f) /\ f # e
    BY <1>1, <1>7 DEF Without
  <2>2. PICK l \in Handles : h[l] = f
    BY <1>3, <2>1
  <2> QED
    BY <1>3, <1>4, <2>1, <2>2
<1>8. \A f, f2 \in Entries : Live(v, f) /\ Live(v, f2) /\ v[f].conn = v[f2].conn => f = f2
  BY <1>1, <1>3 DEF Without
<1>9. HandlesGood(g, v)
  BY <1>4, <1>5, <1>6, <1>7, <1>8 DEF HandlesGood
<1> QED
  BY <1>1, <1>2, <1>9 DEF Good, g, v

-----------------------------------------------------------------------------
(* The writes an operation has left.                                       *)

TableNames == {"rules", "index", "prev_index", "rule_id_array", "sweep"}

\* Writes to the tables, the last of them to that of the handles, at k.
IsTodo(s, k) ==
  /\ \E W : s \in Seq(W) /\ \A w \in W : w.tbl \in TableNames
  /\ s # <<>> /\ s[Len(s)].at = k

LEMMA LastWrite ==
  ASSUME NEW w, w.tbl \in TableNames
  PROVE  IsTodo(<<w>>, w.at) /\ Head(<<w>>) = w /\ Tail(<<w>>) = <<>>
<1> DEFINE V == {w}
<1>1. <<w>> \in Seq(V) /\ \A v \in V : v.tbl \in TableNames
  OBVIOUS
<1> HIDE DEF V
<1>2. \E W : <<w>> \in Seq(W) /\ \A v \in W : v.tbl \in TableNames
  BY <1>1, Zenon
<1>3. <<w>> # <<>> /\ <<w>>[Len(<<w>>)] = w
  OBVIOUS
<1>4. Head(<<w>>) = w /\ Tail(<<w>>) = <<>>
  OBVIOUS
<1> QED
  BY <1>2, <1>3, <1>4 DEF IsTodo

LEMMA FirstWrite ==
  ASSUME NEW w, w.tbl \in TableNames, NEW s, NEW k, IsTodo(s, k)
  PROVE  /\ IsTodo(<<w>> \o s, k)
         /\ Head(<<w>> \o s) = w /\ Tail(<<w>> \o s) = s
<1>1. PICK W : s \in Seq(W) /\ \A v \in W : v.tbl \in TableNames
  BY DEF IsTodo
<1> DEFINE V == W \cup {w}
           t == <<w>> \o s
<1>2. s \in Seq(V) /\ w \in V /\ <<w>> \in Seq(V) /\ \A v \in V : v.tbl \in TableNames
  BY <1>1
<1> HIDE DEF V
<1>3. t \in Seq(V) /\ t # <<>> /\ Head(t) = w /\ Tail(t) = s
  BY <1>2
<1>4. Len(t) = Len(s) + 1 /\ Len(s) \in Nat /\ Len(s) # 0
  BY <1>2 DEF IsTodo
<1>5. t[Len(t)] = s[Len(s)]
  BY <1>2, <1>4
<1> QED
  BY <1>2, <1>3, <1>5 DEF IsTodo

\* What the write w changes.
Does(w) ==
  /\ valid' = valid
  /\ rules' = IF w.tbl = "rules" THEN [rules EXCEPT ![w.at] = Written(rules[w.at], w.set)]
              ELSE IF w.tbl = "sweep" THEN Swept(rules) ELSE rules
  /\ index' = IF w.tbl = "index" THEN [index EXCEPT ![w.at] = Written(index[w.at], w.set)]
              ELSE index
  /\ prev_index' = IF w.tbl = "prev_index" THEN [prev_index EXCEPT ![w.at] = w.set]
                   ELSE prev_index
  /\ rule_id_array' = IF w.tbl = "rule_id_array" THEN [rule_id_array EXCEPT ![w.at] = w.set]
                      ELSE rule_id_array

LEMMA StepIsWrite ==
  ASSUME Step, NEW w, Head(todo) = w
  PROVE  todo' = Tail(todo) /\ Does(w)
<1>1. CASE WriteRule
  BY <1>1 DEF WriteRule, NextWrite, Does
<1>2. CASE WriteIndex
  BY <1>2 DEF WriteIndex, NextWrite, Does
<1>3. CASE WritePrevIndex
  BY <1>3 DEF WritePrevIndex, NextWrite, Does
<1>4. CASE WriteHandle
  BY <1>4 DEF WriteHandle, NextWrite, Does
<1>5. CASE SweepDeadHeads
  BY <1>5 DEF SweepDeadHeads, NextWrite, Does, Swept
<1> QED
  BY <1>1, <1>2, <1>3, <1>4, <1>5 DEF Step

\* What an addition has left to write.
LEMMA AddTodo ==
  ASSUME NEW c, NEW a, NEW b, NEW i, NEW j, NEW k
  PROVE  /\ IsTodo(AddWrites1(c, a, b, i, j, k), k) /\ IsTodo(AddWrites2(a, b, i, j, k), k)
         /\ IsTodo(AddWrites3(a, i, j, k), k) /\ IsTodo(AddWrites4(a, i, j, k), k)
         /\ IsTodo(AddWrites5(a, k), k) /\ IsTodo(AddWrites6(a, k), k)
<1>1. IsTodo(AddWrites6(a, k), k)
  BY LastWrite DEF AddWrites6, Write, TableNames
<1>2. IsTodo(AddWrites5(a, k), k)
  BY <1>1, FirstWrite DEF AddWrites5, Write, TableNames
<1>3. IsTodo(AddWrites4(a, i, j, k), k)
  BY <1>2, FirstWrite DEF AddWrites4, Write, TableNames
<1>4. IsTodo(AddWrites3(a, i, j, k), k)
  BY <1>3, FirstWrite DEF AddWrites3, Write, TableNames
<1>5. IsTodo(AddWrites2(a, b, i, j, k), k)
  BY <1>4, FirstWrite DEF AddWrites2, Write, TableNames
<1>6. IsTodo(AddWrites1(c, a, b, i, j, k), k)
  BY <1>5, FirstWrite DEF AddWrites1, Write, TableNames
<1> QED
  BY <1>1, <1>2, <1>3, <1>4, <1>5, <1>6

\* ... and a deletion.
LEMMA DelTodo ==
  ASSUME NEW e, NEW i, NEW k, NEW r, NEW x, NEW p
  PROVE  /\ IsTodo(DelWrites1(e, i, k, r, x, p), k) /\ IsTodo(DelWrites2(e, i, k, r, x, p), k)
         /\ IsTodo(DelWrites3(e, i, k, r, x, p), k) /\ IsTodo(DelWrites4(e, i, k, r, x, p), k)
         /\ IsTodo(DelWrites5(e, i, k, r, x, p), k) /\ IsTodo(DelWrites6(i, k, x, p), k)
         /\ IsTodo(DelWrites7(i, k, x), k) /\ IsTodo(DelWrites8(i, k, x), k)
         /\ IsTodo(DelWrites9(i, k, x), k) /\ IsTodo(DelWrites10(k), k)
         /\ IsTodo(DelWrites11(k), k)
<1>1. IsTodo(DelWrites11(k), k)
  BY LastWrite DEF DelWrites11, Write, TableNames
<1>2. IsTodo(DelWrites10(k), k)
  BY <1>1, FirstWrite DEF DelWrites10, Sweep, Write, TableNames
<1>3. IsTodo(DelWrites9(i, k, x), k)
  BY <1>2, FirstWrite DEF DelWrites9, Write, TableNames
<1>4. IsTodo(DelWrites8(i, k, x), k)
  BY <1>3, FirstWrite DEF DelWrites8, Write, TableNames
<1>5. IsTodo(DelWrites7(i, k, x), k)
  BY <1>4, FirstWrite DEF DelWrites7, Write, TableNames
<1>6. IsTodo(DelWrites6(i, k, x, p), k)
  BY <1>5, FirstWrite DEF DelWrites6, Write, TableNames
<1>7. IsTodo(DelWrites5(e, i, k, r, x, p), k)
  BY <1>6, FirstWrite DEF DelWrites5, Write, TableNames
<1>8. IsTodo(DelWrites4(e, i, k, r, x, p), k)
  BY <1>7, FirstWrite DEF DelWrites4, Write, TableNames
<1>9. RuleCmdOf(r, e).tbl \in TableNames /\ IndexCmdOf(x, p, i).tbl \in TableNames
  BY DEF RuleCmdOf, IndexCmdOf, Write, TableNames
<1>10. IsTodo(DelWrites3(e, i, k, r, x, p), k)
  BY <1>8, <1>9, FirstWrite DEF DelWrites3
<1>11. IsTodo(DelWrites2(e, i, k, r, x, p), k)
  BY <1>9, <1>10, FirstWrite DEF DelWrites2
<1>12. IsTodo(DelWrites1(e, i, k, r, x, p), k)
  BY <1>11, FirstWrite DEF DelWrites1, Write, TableNames
<1> QED
  BY <1>1, <1>2, <1>3, <1>4, <1>5, <1>6, <1>7, <1>8, <1>10, <1>11, <1>12

-----------------------------------------------------------------------------
(* The steps of an addition.                                               *)

LEMMA WriteStep ==
  ASSUME NEW w, w.tbl \in TableNames, NEW s, NEW k, IsTodo(s, k), todo = <<w>> \o s, Step
  PROVE  todo' = s /\ Does(w)
<1>1. Head(todo) = w /\ Tail(todo) = s
  BY FirstWrite
<1> QED
  BY <1>1, StepIsWrite

LEMMA RuleStep ==
  ASSUME NEW at, NEW set, NEW s, NEW k, IsTodo(s, k),
         todo = <<Write("rules", at, set)>> \o s, Step
  PROVE  /\ todo' = s /\ UNCHANGED <<valid, index, prev_index, rule_id_array>>
         /\ rules' = [rules EXCEPT ![at] = Written(rules[at], set)]
<1> DEFINE w == Write("rules", at, set)
<1>1. w.tbl = "rules" /\ w.at = at /\ w.set = set /\ w.tbl \in TableNames
  BY DEF Write, TableNames
<1> HIDE DEF w
<1>2. todo = <<w>> \o s
  BY DEF w
<1>3. todo' = s /\ Does(w)
  BY <1>1, <1>2, WriteStep
<1> QED
  BY <1>1, <1>3 DEF Does

LEMMA IndexStep ==
  ASSUME NEW at, NEW set, NEW s, NEW k, IsTodo(s, k),
         todo = <<Write("index", at, set)>> \o s, Step
  PROVE  /\ todo' = s /\ UNCHANGED <<valid, rules, prev_index, rule_id_array>>
         /\ index' = [index EXCEPT ![at] = Written(index[at], set)]
<1> DEFINE w == Write("index", at, set)
<1>1. w.tbl = "index" /\ w.at = at /\ w.set = set /\ w.tbl \in TableNames
  BY DEF Write, TableNames
<1> HIDE DEF w
<1>2. todo = <<w>> \o s
  BY DEF w
<1>3. todo' = s /\ Does(w)
  BY <1>1, <1>2, WriteStep
<1> QED
  BY <1>1, <1>3 DEF Does

LEMMA PrevStep ==
  ASSUME NEW at, NEW set, NEW s, NEW k, IsTodo(s, k),
         todo = <<Write("prev_index", at, set)>> \o s, Step
  PROVE  /\ todo' = s /\ UNCHANGED <<valid, rules, index, rule_id_array>>
         /\ prev_index' = [prev_index EXCEPT ![at] = set]
<1> DEFINE w == Write("prev_index", at, set)
<1>1. w.tbl = "prev_index" /\ w.at = at /\ w.set = set /\ w.tbl \in TableNames
  BY DEF Write, TableNames
<1> HIDE DEF w
<1>2. todo = <<w>> \o s
  BY DEF w
<1>3. todo' = s /\ Does(w)
  BY <1>1, <1>2, WriteStep
<1> QED
  BY <1>1, <1>3 DEF Does

LEMMA SweepStep ==
  ASSUME NEW s, NEW k, IsTodo(s, k), todo = <<Sweep>> \o s, Step
  PROVE  /\ todo' = s /\ UNCHANGED <<valid, index, prev_index, rule_id_array>>
         /\ rules' = Swept(rules)
<1>1. Sweep.tbl = "sweep" /\ Sweep.tbl \in TableNames
  BY DEF Sweep, Write, TableNames
<1>2. todo' = s /\ Does(Sweep)
  BY <1>1, WriteStep
<1> QED
  BY <1>1, <1>2 DEF Does

LEMMA HandleStep ==
  ASSUME NEW at, NEW set, todo = <<Write("rule_id_array", at, set)>>, Step
  PROVE  /\ todo' = <<>> /\ UNCHANGED <<valid, rules, index, prev_index>>
         /\ rule_id_array' = [rule_id_array EXCEPT ![at] = set]
<1> DEFINE w == Write("rule_id_array", at, set)
<1>1. w.tbl = "rule_id_array" /\ w.at = at /\ w.set = set /\ w.tbl \in TableNames
  BY DEF Write, TableNames
<1> HIDE DEF w
<1>2. Head(todo) = w /\ Tail(todo) = <<>>
  BY <1>1, LastWrite DEF w
<1>3. todo' = <<>> /\ Does(w)
  BY <1>2, StepIsWrite
<1> QED
  BY <1>1, <1>3 DEF Does

\* What an addition's step leads to: the next write, or the end.
AddGoes(c, a, b, i, j, k, r, x) ==
  /\ UNCHANGED <<valid, prev_index, rule_id_array>>
  /\ \E m \in 1 .. 6 : AddAt(m, c, a, b, i, j, k, r, x)'
AddEnds(c, a, b, i, j, k, r, x) ==
  /\ UNCHANGED <<valid, prev_index>>
  /\ todo' = <<>>
  /\ rules = RuleAdded(r, c, a, b, i) /\ rules' = rules
  /\ index = IndexLinked(x, a, i, j) /\ index' = index
  /\ rule_id_array' = [rule_id_array EXCEPT ![k] = a]

LEMMA AddStep ==
  ASSUME NEW c, NEW a, NEW b, NEW i, NEW j, NEW k, NEW r, NEW x, NEW p, NEW h,
         AddOf(c, a, b, i, j, k, r, x, p, h),
         NEW n \in 1 .. 6, AddAt(n, c, a, b, i, j, k, r, x), Step
  PROVE  AddGoes(c, a, b, i, j, k, r, x) \/ AddEnds(c, a, b, i, j, k, r, x)
<1> SUFFICES /\ UNCHANGED <<valid, prev_index>>
             /\ \/ /\ \E m \in 1 .. 6 : AddAt(m, c, a, b, i, j, k, r, x)'
                   /\ rule_id_array' = rule_id_array
                \/ /\ todo' = <<>>
                   /\ rules = RuleAdded(r, c, a, b, i) /\ rules' = rules
                   /\ index = IndexLinked(x, a, i, j) /\ index' = index
                   /\ rule_id_array' = [rule_id_array EXCEPT ![k] = a]
  BY DEF AddGoes, AddEnds
<1>1. /\ r \in [Entries -> Rule] /\ x \in [Entries -> Index]
      /\ a \in Entries /\ b \in Link /\ i \in Entries /\ j \in Link /\ i \in Link /\ a \in Link
      /\ c \in Conns /\ a # b
      /\ b # 0 => b \in Entries
      /\ j # 0 => j \in Entries
  BY PlacesOfAdded, TableTypes
<1>2. /\ RuleCopied(r, c, a, b, i) \in [Entries -> Rule]
      /\ RuleLinked(r, c, a, b, i) \in [Entries -> Rule]
  BY AddedRulesServe DEF RulesServe
<1>3. /\ IndexCopied(x, a, i) \in [Entries -> Index]
      /\ IndexLinked(x, a, i, j) \in [Entries -> Index]
  BY AddedIndexServes DEF IndexServes
<1>4. AddedRule(c, b, i) \in Rule /\ [rule |-> a, next |-> 0] \in Index
  BY <1>1, TableTypes DEF AddedRule, Rule, NoRule, Index
<1>5. /\ IsTodo(AddWrites2(a, b, i, j, k), k) /\ IsTodo(AddWrites3(a, i, j, k), k)
      /\ IsTodo(AddWrites4(a, i, j, k), k)
      /\ IsTodo(AddWrites5(a, k), k) /\ IsTodo(AddWrites6(a, k), k)
  BY AddTodo
<1>6. CASE n = 1
  <2>1. todo = AddWrites1(c, a, b, i, j, k) /\ rules = r /\ index = x
    BY <1>6 DEF AddAt
  <2>2. /\ todo' = AddWrites2(a, b, i, j, k)
        /\ UNCHANGED <<valid, index, prev_index, rule_id_array>>
        /\ rules' = [rules EXCEPT ![a] = Written(rules[a], AddedRule(c, b, i))]
    BY <1>5, <2>1, RuleStep DEF AddWrites1
  <2>3. rules' = RuleCopied(r, c, a, b, i)
    <3>1. Written(r[a], AddedRule(c, b, i)) = AddedRule(c, b, i)
      BY <1>1, <1>4, RuleWritten
    <3> QED
      BY <2>1, <2>2, <3>1 DEF RuleCopied
  <2>4. AddAt(2, c, a, b, i, j, k, r, x)'
    BY <2>1, <2>2, <2>3 DEF AddAt
  <2> QED
    BY <2>2, <2>4
<1>7. ASSUME todo = AddWrites3(a, i, j, k), rules = RuleLinked(r, c, a, b, i), index = x
      PROVE  /\ UNCHANGED <<valid, prev_index, rule_id_array>>
             /\ AddAt(4, c, a, b, i, j, k, r, x)'
  <2>1. /\ todo' = AddWrites4(a, i, j, k)
        /\ UNCHANGED <<valid, rules, prev_index, rule_id_array>>
        /\ index' = [index EXCEPT ![i] = Written(index[i], [rule |-> a, next |-> 0])]
    BY <1>5, <1>7, IndexStep DEF AddWrites3
  <2>2. index' = IndexCopied(x, a, i)
    <3>1. Written(x[i], [rule |-> a, next |-> 0]) = [rule |-> a, next |-> 0]
      BY <1>1, <1>4, IndexWritten
    <3> QED
      BY <1>7, <2>1, <3>1 DEF IndexCopied
  <2> QED
    BY <1>7, <2>1, <2>2 DEF AddAt
<1>8. CASE n = 3
  <2>1. todo = AddWrites3(a, i, j, k) /\ rules = RuleLinked(r, c, a, b, i) /\ index = x
    BY <1>8 DEF AddAt
  <2> QED
    BY <1>7, <2>1
<1>9. CASE n = 2 /\ b = 0
  <2>1. todo = AddWrites3(a, i, j, k) /\ rules = RuleLinked(r, c, a, b, i) /\ index = x
    BY <1>9 DEF AddAt, AddWrites2, RuleLinked
  <2> QED
    BY <1>7, <2>1
<1>10. CASE n = 2 /\ b # 0
  <2>1. todo = AddWrites2(a, b, i, j, k) /\ rules = RuleCopied(r, c, a, b, i) /\ index = x
    BY <1>10 DEF AddAt
  <2>2. todo = <<Write("rules", b, [next |-> a])>> \o AddWrites3(a, i, j, k)
    BY <1>10, <2>1 DEF AddWrites2
  <2>3. /\ todo' = AddWrites3(a, i, j, k)
        /\ UNCHANGED <<valid, index, prev_index, rule_id_array>>
        /\ rules' = [rules EXCEPT ![b] = Written(rules[b], [next |-> a])]
    BY <1>5, <2>2, RuleStep
  <2>4. rules' = [RuleCopied(r, c, a, b, i) EXCEPT ![b].next = a]
    <3> DEFINE s == RuleCopied(r, c, a, b, i)
    <3>1. s \in [Entries -> Rule] /\ rules = s /\ b \in Entries
      BY <1>1, <1>2, <1>10, <2>1
    <3> HIDE DEF s
    <3>2. Written(s[b], [next |-> a]) = [s[b] EXCEPT !.next = a]
      BY <3>1, RuleWritten
    <3>3. rules' = [s EXCEPT ![b].next = a]
      BY <2>3, <3>1, <3>2
    <3> QED
      BY <3>3 DEF s
  <2>5. rules' = RuleLinked(r, c, a, b, i)
    BY <1>10, <2>4 DEF RuleLinked
  <2>6. AddAt(3, c, a, b, i, j, k, r, x)'
    BY <2>1, <2>3, <2>5 DEF AddAt
  <2> QED
    BY <2>3, <2>6
<1>11. ASSUME todo = AddWrites5(a, k), rules = RuleLinked(r, c, a, b, i),
              index = IndexLinked(x, a, i, j)
       PROVE  /\ UNCHANGED <<valid, prev_index, rule_id_array>>
              /\ AddAt(6, c, a, b, i, j, k, r, x)'
  <2>1. /\ todo' = AddWrites6(a, k)
        /\ UNCHANGED <<valid, index, prev_index, rule_id_array>>
        /\ rules' = [rules EXCEPT ![a] = Written(rules[a], [enable |-> TRUE])]
    BY <1>5, <1>11, RuleStep DEF AddWrites5
  <2>2. rules' = RuleAdded(r, c, a, b, i)
    <3> DEFINE s == RuleLinked(r, c, a, b, i)
    <3>1. s \in [Entries -> Rule] /\ rules = s
      BY <1>2, <1>11
    <3> HIDE DEF s
    <3>2. Written(s[a], [enable |-> TRUE]) = [s[a] EXCEPT !.enable = TRUE]
      BY <1>1, <3>1, RuleWritten
    <3>3. rules' = [s EXCEPT ![a].enable = TRUE]
      BY <2>1, <3>1, <3>2
    <3> QED
      BY <3>3 DEF s, RuleAdded
  <2> QED
    BY <1>11, <2>1, <2>2 DEF AddAt
<1>12. CASE n = 5
  <2>1. todo = AddWrites5(a, k) /\ rules = RuleLinked(r, c, a, b, i)
        /\ index = IndexLinked(x, a, i, j)
    BY <1>12 DEF AddAt
  <2> QED
    BY <1>11, <2>1
<1>13. CASE n = 4 /\ j = 0
  <2>1. todo = AddWrites5(a, k) /\ rules = RuleLinked(r, c, a, b, i)
        /\ index = IndexLinked(x, a, i, j)
    BY <1>13 DEF AddAt, AddWrites4, IndexLinked
  <2> QED
    BY <1>11, <2>1
<1>14. CASE n = 4 /\ j # 0
  <2>1. todo = AddWrites4(a, i, j, k) /\ rules = RuleLinked(r, c, a, b, i)
        /\ index = IndexCopied(x, a, i)
    BY <1>14 DEF AddAt
  <2>2. todo = <<Write("index", j, [next |-> i])>> \o AddWrites5(a, k)
    BY <1>14, <2>1 DEF AddWrites4
  <2>3. /\ todo' = AddWrites5(a, k)
        /\ UNCHANGED <<valid, rules, prev_index, rule_id_array>>
        /\ index' = [index EXCEPT ![j] = Written(index[j], [next |-> i])]
    BY <1>5, <2>2, IndexStep
  <2>4. index' = [IndexCopied(x, a, i) EXCEPT ![j].next = i]
    <3> DEFINE s == IndexCopied(x, a, i)
    <3>1. s \in [Entries -> Index] /\ index = s /\ j \in Entries
      BY <1>1, <1>3, <1>14, <2>1
    <3> HIDE DEF s
    <3>2. Written(s[j], [next |-> i]) = [s[j] EXCEPT !.next = i]
      BY <3>1, IndexWritten
    <3>3. index' = [s EXCEPT ![j].next = i]
      BY <2>3, <3>1, <3>2
    <3> QED
      BY <3>3 DEF s
  <2>5. index' = IndexLinked(x, a, i, j)
    BY <1>14, <2>4 DEF IndexLinked
  <2>6. AddAt(5, c, a, b, i, j, k, r, x)'
    BY <2>1, <2>3, <2>5 DEF AddAt
  <2> QED
    BY <2>3, <2>6
<1>15. CASE n = 6
  <2>1. todo = AddWrites6(a, k) /\ rules = RuleAdded(r, c, a, b, i)
        /\ index = IndexLinked(x, a, i, j)
    BY <1>15 DEF AddAt
  <2>2. /\ todo' = <<>> /\ UNCHANGED <<valid, rules, index, prev_index>>
        /\ rule_id_array' = [rule_id_array EXCEPT ![k] = a]
    BY <2>1, HandleStep DEF AddWrites6
  <2> QED
    BY <2>1, <2>2
<1>16. n \in {1, 2, 3, 4, 5, 6}
  OBVIOUS
<1> QED
  BY <1>6, <1>7, <1>8, <1>9, <1>10, <1>12, <1>13, <1>14, <1>15, <1>16

-----------------------------------------------------------------------------
(* The steps of a deletion.                                                *)

\* There is a write to do at n.
DelBusy(n, e, i, r, x) ==
  /\ n = 1 => IsHead(NextIn(x), i)
  /\ n = 4 => e >= T /\ r[e].next # 0
  /\ n = 5 => ~IsHead(NextIn(r), e)
  /\ n = 6 => BackLinks(x, i)
  /\ n = 7 => BackLinks(x, i) /\ ~IsHead(NextIn(x), i)
  /\ n = 9 => IsHead(NextIn(x), i)

LEMMA DelSkips ==
  ASSUME NEW e, NEW i, NEW k, NEW r, NEW x, NEW p, NEW n \in 1 .. 11, DelAt(n, e, i, k, r, x, p)
  PROVE  \E m \in 1 .. 11 : DelAt(m, e, i, k, r, x, p) /\ DelBusy(m, e, i, r, x)
<1> DEFINE At(m) == DelAt(m, e, i, k, r, x, p)
           Goal == \E m \in 1 .. 11 : At(m) /\ DelBusy(m, e, i, r, x)
<1>1. At(2) => Goal
  BY DEF DelBusy
<1>2. At(1) => Goal
  <2>1. ASSUME At(1), ~IsHead(NextIn(x), i)
        PROVE  At(2)
    BY <2>1 DEF DelAt, DelWrites1, IndexMovedIfHead
  <2>2. ASSUME At(1), IsHead(NextIn(x), i)
        PROVE  Goal
    BY <2>2 DEF DelBusy
  <2> QED
    BY <1>1, <2>1, <2>2
<1>3. At(3) => Goal
  BY DEF DelBusy
<1>8. At(8) => Goal
  BY DEF DelBusy
<1>7. At(7) => Goal
  <2>1. ASSUME At(7), ~(BackLinks(x, i) /\ ~IsHead(NextIn(x), i))
        PROVE  At(8)
    BY <2>1 DEF DelAt, DelWrites7, PrevCleared
  <2>2. ASSUME At(7), BackLinks(x, i), ~IsHead(NextIn(x), i)
        PROVE  Goal
    BY <2>2 DEF DelBusy
  <2> QED
    BY <1>8, <2>1, <2>2
<1>6. At(6) => Goal
  <2>1. ASSUME At(6), ~BackLinks(x, i)
        PROVE  At(7)
    BY <2>1 DEF DelAt, DelWrites6, PrevMoved
  <2>2. ASSUME At(6), BackLinks(x, i)
        PROVE  Goal
    BY <2>2 DEF DelBusy
  <2> QED
    BY <1>7, <2>1, <2>2
<1>5. At(5) => Goal
  <2>1. ASSUME At(5), IsHead(NextIn(r), e)
        PROVE  At(6)
    BY <2>1 DEF DelAt, DelWrites5, RuleCleared
  <2>2. ASSUME At(5), ~IsHead(NextIn(r), e)
        PROVE  Goal
    BY <2>2 DEF DelBusy
  <2> QED
    BY <1>6, <2>1, <2>2
<1>4. At(4) => Goal
  <2>1. ASSUME At(4), ~(e >= T /\ r[e].next # 0)
        PROVE  At(5)
    BY <2>1 DEF DelAt, DelWrites4, RuleBackLinked
  <2>2. ASSUME At(4), e >= T, r[e].next # 0
        PROVE  Goal
    BY <2>2 DEF DelBusy
  <2> QED
    BY <1>5, <2>1, <2>2
<1>10. (At(10) => Goal) /\ (At(11) => Goal)
  BY DEF DelBusy
<1>9. At(9) => Goal
  <2>1. ASSUME At(9), ~IsHead(NextIn(x), i)
        PROVE  At(10)
    BY <2>1 DEF DelAt, DelWrites9, RuleMoved
  <2>2. ASSUME At(9), IsHead(NextIn(x), i)
        PROVE  Goal
    BY <2>2 DEF DelBusy
  <2> QED
    BY <1>10, <2>1, <2>2
<1>11. n \in {1, 2, 3, 4, 5, 6, 7, 8, 9, 10, 11}
  OBVIOUS
<1>12. At(n)
  OBVIOUS
<1> HIDE DEF At, Goal
<1>13. Goal
  BY <1>1, <1>2, <1>3, <1>4, <1>5, <1>6, <1>7, <1>8, <1>9, <1>10, <1>11, <1>12
<1> QED
  BY <1>13 DEF Goal, At

\* What a deletion's step leads to: the next write, or the end.
DelGoes(m, e, i, k, r, x, p) ==
  UNCHANGED <<valid, rule_id_array>> /\ DelAt(m, e, i, k, r, x, p)'
DelEnds(k, e, i, r, x, p) ==
  /\ UNCHANGED valid
  /\ todo' = <<>>
  /\ rules = Swept(RuleMoved(r, x, e, i)) /\ rules' = rules
  /\ index = IndexCleared(x, p, i) /\ index' = index
  /\ prev_index = PrevCleared(x, p, i) /\ prev_index' = prev_index
  /\ rule_id_array' = [rule_id_array EXCEPT ![k] = 0]

\* The writes to the index at the start, and to the rules.
LEMMA DelStepIndex ==
  ASSUME NEW e, NEW i, NEW k, NEW r, NEW x, NEW p, NEW h, DelOf(e, i, k, r, x, p, h),
         NEW n \in {1, 2}, DelAt(n, e, i, k, r, x, p), DelBusy(n, e, i, r, x), Step
  PROVE  DelGoes(n + 1, e, i, k, r, x, p)
<1>1. /\ x \in [Entries -> Index] /\ i \in Entries
      /\ IndexMovedIfHead(x, i) \in [Entries -> Index]
  BY DeletedRule, CutIndexServes DEF IndexServes
<1>2. IsTodo(DelWrites2(e, i, k, r, x, p), k) /\ IsTodo(DelWrites3(e, i, k, r, x, p), k)
  BY DelTodo
<1>3. CASE n = 1
  <2>1. /\ todo = DelWrites1(e, i, k, r, x, p) /\ rules = r /\ index = x /\ prev_index = p
        /\ IsHead(NextIn(x), i)
    BY <1>3 DEF DelAt, DelBusy
  <2>2. todo = <<Write("index", i, [rule |-> x[x[i].next].rule])>> \o DelWrites2(e, i, k, r, x, p)
    BY <2>1 DEF DelWrites1
  <2>3. /\ todo' = DelWrites2(e, i, k, r, x, p)
        /\ UNCHANGED <<valid, rules, prev_index, rule_id_array>>
        /\ index' = [index EXCEPT ![i] = Written(index[i], [rule |-> x[x[i].next].rule])]
    BY <1>2, <2>2, IndexStep
  <2>4. Written(x[i], [rule |-> x[x[i].next].rule]) = [x[i] EXCEPT !.rule = x[x[i].next].rule]
    BY <1>1, IndexWritten
  <2>5. index' = IndexMoved(x, i)
    BY <2>1, <2>3, <2>4 DEF IndexMoved
  <2>6. DelAt(2, e, i, k, r, x, p)'
    BY <2>1, <2>3, <2>5 DEF DelAt, IndexMovedIfHead
  <2> QED
    BY <1>3, <2>3, <2>6 DEF DelGoes
<1>4. CASE n = 2
  <2> DEFINE w == IndexCmdOf(x, p, i)
             s == IndexMovedIfHead(x, i)
  <2>1. /\ todo = DelWrites2(e, i, k, r, x, p) /\ rules = r /\ index = s /\ prev_index = p
    BY <1>4 DEF DelAt
  <2>2. w.tbl = "index"
    BY DEF IndexCmdOf, Write
  <2>3. todo = <<Write("index", w.at, w.set)>> \o DelWrites3(e, i, k, r, x, p)
    BY <2>1 DEF DelWrites2, IndexCmdOf, Write
  <2> HIDE DEF w, s
  <2>4. /\ todo' = DelWrites3(e, i, k, r, x, p)
        /\ UNCHANGED <<valid, rules, prev_index, rule_id_array>>
        /\ index' = [index EXCEPT ![w.at] = Written(index[w.at], w.set)]
    BY <1>2, <2>3, IndexStep
  <2>5. index' = IndexCut(x, p, i)
    <3>0. s \in [Entries -> Index]
      BY <1>1 DEF s
    <3>1. CASE IsHead(NextIn(x), i)
      <4>1. w.at = i /\ w.set = [next |-> x[x[i].next].next] /\ s = IndexMoved(x, i)
        BY <3>1 DEF w, s, IndexCmdOf, Write, IndexMovedIfHead
      <4>2. Written(s[i], [next |-> x[x[i].next].next]) = [s[i] EXCEPT !.next = x[x[i].next].next]
        BY <1>1, <3>0, IndexWritten
      <4>3. index' = [s EXCEPT ![i].next = x[x[i].next].next]
        BY <2>1, <2>4, <4>1, <4>2
      <4> QED
        BY <3>1, <4>1, <4>3 DEF IndexCut
    <3>2. CASE ~IsHead(NextIn(x), i) /\ i < T
      <4>1. w.at = i /\ w.set = [rule |-> 0] /\ s = x
        BY <3>2 DEF w, s, IndexCmdOf, Write, IndexMovedIfHead
      <4>2. Written(x[i], [rule |-> 0]) = [x[i] EXCEPT !.rule = 0]
        BY <1>1, IndexWritten
      <4>3. index' = [x EXCEPT ![i].rule = 0]
        BY <2>1, <2>4, <4>1, <4>2
      <4> QED
        BY <3>2, <4>3 DEF IndexCut
    <3>3. CASE ~IsHead(NextIn(x), i) /\ ~(i < T)
      <4>0. p[i] \in Entries
        <5>1. i >= T /\ Spare(x, i) = i
          BY <1>1, <3>3, EntryKinds, HashAssumption DEF HashAssumption, Spare
        <5> QED
          BY <5>1, SpareEntry
      <4>1. w.at = p[i] /\ w.set = [next |-> x[i].next] /\ s = x
        BY <3>3 DEF w, s, IndexCmdOf, Write, IndexMovedIfHead
      <4>2. Written(x[p[i]], [next |-> x[i].next]) = [x[p[i]] EXCEPT !.next = x[i].next]
        BY <1>1, <4>0, IndexWritten
      <4>3. index' = [x EXCEPT ![p[i]].next = x[i].next]
        BY <2>1, <2>4, <4>1, <4>2
      <4> QED
        BY <3>3, <4>3 DEF IndexCut
    <3> QED
      BY <3>1, <3>2, <3>3
  <2>6. DelAt(3, e, i, k, r, x, p)'
    BY <2>1, <2>4, <2>5 DEF DelAt
  <2> QED
    BY <1>4, <2>4, <2>6 DEF DelGoes
<1> QED
  BY <1>3, <1>4

LEMMA DelStepRules ==
  ASSUME NEW e, NEW i, NEW k, NEW r, NEW x, NEW p, NEW h, DelOf(e, i, k, r, x, p, h),
         NEW n \in {3, 4, 5}, DelAt(n, e, i, k, r, x, p), DelBusy(n, e, i, r, x), Step
  PROVE  DelGoes(n + 1, e, i, k, r, x, p)
<1>1. RulesGood(r) /\ r \in [Entries -> Rule] /\ e \in Entries /\ Live(r, e) /\ e \in InUse(r)
  BY DeletedRule DEF DelOf, Good
<1>2. RuleCut(r, e) \in [Entries -> Rule] /\ RuleBackLinked(r, e) \in [Entries -> Rule]
  BY <1>1, CutRulesServe DEF RulesServe
<1>3. /\ IsTodo(DelWrites4(e, i, k, r, x, p), k) /\ IsTodo(DelWrites5(e, i, k, r, x, p), k)
      /\ IsTodo(DelWrites6(i, k, x, p), k)
  BY DelTodo
<1>4. e >= T => r[e].prev \in Entries /\ (r[e].next # 0 => r[e].next \in Entries)
  BY <1>1, AroundRule
<1>5. CASE n = 3
  <2> DEFINE w == RuleCmdOf(r, e)
  <2>1. /\ todo = DelWrites3(e, i, k, r, x, p) /\ rules = r /\ prev_index = p
        /\ index = IndexCut(x, p, i)
    BY <1>5 DEF DelAt
  <2>2. todo = <<Write("rules", w.at, w.set)>> \o DelWrites4(e, i, k, r, x, p)
    BY <2>1 DEF DelWrites3, RuleCmdOf, Write
  <2> HIDE DEF w
  <2>3. /\ todo' = DelWrites4(e, i, k, r, x, p)
        /\ UNCHANGED <<valid, index, prev_index, rule_id_array>>
        /\ rules' = [rules EXCEPT ![w.at] = Written(rules[w.at], w.set)]
    BY <1>3, <2>2, RuleStep
  <2>4. rules' = RuleCut(r, e)
    <3>1. CASE IsHead(NextIn(r), e)
      <4>1. w.at = e /\ w.set = [dead |-> TRUE]
        BY <3>1 DEF w, RuleCmdOf, Write
      <4>2. Written(r[e], [dead |-> TRUE]) = [r[e] EXCEPT !.dead = TRUE]
        BY <1>1, RuleWritten
      <4>3. rules' = [r EXCEPT ![e].dead = TRUE]
        BY <2>1, <2>3, <4>1, <4>2
      <4> QED
        BY <3>1, <4>3 DEF RuleCut
    <3>2. CASE ~IsHead(NextIn(r), e) /\ e < T
      <4>1. w.at = e /\ w.set = [enable |-> FALSE]
        BY <3>2 DEF w, RuleCmdOf, Write
      <4>2. Written(r[e], [enable |-> FALSE]) = [r[e] EXCEPT !.enable = FALSE]
        BY <1>1, RuleWritten
      <4>3. rules' = [r EXCEPT ![e].enable = FALSE]
        BY <2>1, <2>3, <4>1, <4>2
      <4> QED
        BY <3>2, <4>3 DEF RuleCut
    <3>3. CASE ~IsHead(NextIn(r), e) /\ ~(e < T)
      <4>0. r[e].prev \in Entries
        BY <1>1, <1>4, <3>3, EntryKinds, HashAssumption DEF HashAssumption
      <4>1. w.at = r[e].prev /\ w.set = [next |-> r[e].next]
        BY <3>3 DEF w, RuleCmdOf, Write
      <4>2. Written(r[r[e].prev], [next |-> r[e].next]) = [r[r[e].prev] EXCEPT !.next = r[e].next]
        BY <1>1, <4>0, RuleWritten
      <4>3. rules' = [r EXCEPT ![r[e].prev].next = r[e].next]
        BY <2>1, <2>3, <4>1, <4>2
      <4> QED
        BY <3>3, <4>3 DEF RuleCut
    <3> QED
      BY <3>1, <3>2, <3>3
  <2>5. DelAt(4, e, i, k, r, x, p)'
    BY <2>1, <2>3, <2>4 DEF DelAt
  <2> QED
    BY <1>5, <2>3, <2>5 DEF DelGoes
<1>6. CASE n = 4
  <2> DEFINE s == RuleCut(r, e)
             nx == r[e].next
  <2>1. /\ todo = DelWrites4(e, i, k, r, x, p) /\ rules = s /\ prev_index = p
        /\ index = IndexCut(x, p, i) /\ e >= T /\ nx # 0
    BY <1>6 DEF DelAt, DelBusy
  <2>2. todo = <<Write("rules", nx, [prev |-> r[e].prev])>> \o DelWrites5(e, i, k, r, x, p)
    BY <2>1 DEF DelWrites4
  <2>3. s \in [Entries -> Rule] /\ nx \in Entries
    BY <1>2, <1>4, <2>1
  <2>4. RuleBackLinked(r, e) = [s EXCEPT ![nx].prev = r[e].prev]
    BY <2>1 DEF RuleBackLinked
  <2> HIDE DEF s, nx
  <2>5. /\ todo' = DelWrites5(e, i, k, r, x, p)
        /\ UNCHANGED <<valid, index, prev_index, rule_id_array>>
        /\ rules' = [rules EXCEPT ![nx] = Written(rules[nx], [prev |-> r[e].prev])]
    BY <1>3, <2>2, RuleStep
  <2>6. Written(s[nx], [prev |-> r[e].prev]) = [s[nx] EXCEPT !.prev = r[e].prev]
    BY <2>3, RuleWritten
  <2>7. rules' = RuleBackLinked(r, e)
    BY <2>1, <2>4, <2>5, <2>6
  <2>8. DelAt(5, e, i, k, r, x, p)'
    BY <2>1, <2>5, <2>7 DEF DelAt
  <2> QED
    BY <1>6, <2>5, <2>8 DEF DelGoes
<1>7. CASE n = 5
  <2> DEFINE s == RuleBackLinked(r, e)
  <2>1. /\ todo = DelWrites5(e, i, k, r, x, p) /\ rules = s /\ prev_index = p
        /\ index = IndexCut(x, p, i) /\ ~IsHead(NextIn(r), e)
    BY <1>7 DEF DelAt, DelBusy
  <2>2. todo = <<Write("rules", e, NoRule)>> \o DelWrites6(i, k, x, p)
    BY <2>1 DEF DelWrites5
  <2>3. s \in [Entries -> Rule] /\ s[e] \in Rule
    BY <1>1, <1>2
  <2>4. RuleCleared(r, e) = [s EXCEPT ![e] = NoRule]
    BY <2>1 DEF RuleCleared
  <2> HIDE DEF s
  <2>5. /\ todo' = DelWrites6(i, k, x, p)
        /\ UNCHANGED <<valid, index, prev_index, rule_id_array>>
        /\ rules' = [rules EXCEPT ![e] = Written(rules[e], NoRule)]
    BY <1>3, <2>2, RuleStep
  <2>6. Written(s[e], NoRule) = NoRule
    BY <2>3, RuleWritten, TableTypes
  <2>7. rules' = RuleCleared(r, e)
    BY <2>1, <2>4, <2>5, <2>6
  <2>8. DelAt(6, e, i, k, r, x, p)'
    BY <2>1, <2>5, <2>7 DEF DelAt
  <2> QED
    BY <1>7, <2>5, <2>8 DEF DelGoes
<1> QED
  BY <1>5, <1>6, <1>7

LEMMA DelStepPrev ==
  ASSUME NEW e, NEW i, NEW k, NEW r, NEW x, NEW p, NEW h, DelOf(e, i, k, r, x, p, h),
         NEW n \in {6, 7, 8}, DelAt(n, e, i, k, r, x, p), DelBusy(n, e, i, r, x), Step
  PROVE  DelGoes(n + 1, e, i, k, r, x, p)
<1>1. /\ IsTodo(DelWrites7(i, k, x), k) /\ IsTodo(DelWrites8(i, k, x), k)
      /\ IsTodo(DelWrites9(i, k, x), k)
  BY DelTodo
<1>2. CASE n = 6
  <2>1. /\ todo = DelWrites6(i, k, x, p) /\ rules = RuleCleared(r, e) /\ prev_index = p
        /\ index = IndexCut(x, p, i) /\ BackLinks(x, i)
    BY <1>2 DEF DelAt, DelBusy
  <2>2. todo = <<Write("prev_index", Behind(x, i), Ahead(x, p, i))>> \o DelWrites7(i, k, x)
    BY <2>1 DEF DelWrites6
  <2>3. /\ todo' = DelWrites7(i, k, x)
        /\ UNCHANGED <<valid, rules, index, rule_id_array>>
        /\ prev_index' = [prev_index EXCEPT ![Behind(x, i)] = Ahead(x, p, i)]
    BY <1>1, <2>2, PrevStep
  <2>4. prev_index' = PrevMoved(x, p, i)
    BY <2>1, <2>3 DEF PrevMoved
  <2>5. DelAt(7, e, i, k, r, x, p)'
    BY <2>1, <2>3, <2>4 DEF DelAt
  <2> QED
    BY <1>2, <2>3, <2>5 DEF DelGoes
<1>3. CASE n = 7
  <2>1. /\ todo = DelWrites7(i, k, x) /\ rules = RuleCleared(r, e)
        /\ prev_index = PrevMoved(x, p, i) /\ index = IndexCut(x, p, i)
        /\ BackLinks(x, i) /\ ~IsHead(NextIn(x), i)
    BY <1>3 DEF DelAt, DelBusy
  <2>2. todo = <<Write("prev_index", i, 0)>> \o DelWrites8(i, k, x)
    BY <2>1 DEF DelWrites7
  <2>3. /\ todo' = DelWrites8(i, k, x)
        /\ UNCHANGED <<valid, rules, index, rule_id_array>>
        /\ prev_index' = [prev_index EXCEPT ![i] = 0]
    BY <1>1, <2>2, PrevStep
  <2>4. prev_index' = PrevCleared(x, p, i)
    BY <2>1, <2>3 DEF PrevCleared
  <2>5. DelAt(8, e, i, k, r, x, p)'
    BY <2>1, <2>3, <2>4 DEF DelAt
  <2> QED
    BY <1>3, <2>3, <2>5 DEF DelGoes
<1>4. CASE n = 8
  <2> DEFINE s == IndexCut(x, p, i)
             sp == Spare(x, i)
  <2>1. /\ todo = DelWrites8(i, k, x) /\ rules = RuleCleared(r, e)
        /\ prev_index = PrevCleared(x, p, i) /\ index = s
    BY <1>4 DEF DelAt
  <2>2. todo = <<Write("index", sp, NoIndex)>> \o DelWrites9(i, k, x)
    BY <2>1 DEF DelWrites8
  <2>3. s \in [Entries -> Index] /\ sp \in Entries
    BY CutIndexServes, SpareEntry DEF IndexServes
  <2>4. IndexCleared(x, p, i) = [s EXCEPT ![sp] = NoIndex]
    BY DEF IndexCleared
  <2> HIDE DEF s, sp
  <2>5. /\ todo' = DelWrites9(i, k, x)
        /\ UNCHANGED <<valid, rules, prev_index, rule_id_array>>
        /\ index' = [index EXCEPT ![sp] = Written(index[sp], NoIndex)]
    BY <1>1, <2>2, IndexStep
  <2>6. Written(s[sp], NoIndex) = NoIndex
    BY <2>3, IndexWritten, TableTypes
  <2>7. index' = IndexCleared(x, p, i)
    BY <2>1, <2>4, <2>5, <2>6
  <2>8. DelAt(9, e, i, k, r, x, p)'
    BY <2>1, <2>5, <2>7 DEF DelAt
  <2> QED
    BY <1>4, <2>5, <2>8 DEF DelGoes
<1> QED
  BY <1>2, <1>3, <1>4

LEMMA DelStepEnd ==
  ASSUME NEW e, NEW i, NEW k, NEW r, NEW x, NEW p, NEW h, DelOf(e, i, k, r, x, p, h),
         NEW n \in {9, 10}, DelAt(n, e, i, k, r, x, p), DelBusy(n, e, i, r, x), Step
  PROVE  DelGoes(n + 1, e, i, k, r, x, p)
<1>1. IsTodo(DelWrites10(k), k) /\ IsTodo(DelWrites11(k), k)
  BY DelTodo
<1>2. CASE n = 9
  <2> DEFINE u == RuleCleared(r, e)
             m == x[x[i].next].rule
  <2>1. /\ todo = DelWrites9(i, k, x) /\ rules = u
        /\ prev_index = PrevCleared(x, p, i) /\ index = IndexCleared(x, p, i)
        /\ IsHead(NextIn(x), i)
    BY <1>2 DEF DelAt, DelBusy
  <2>2. todo = <<Write("rules", m, [indx |-> i])>> \o DelWrites10(k)
    BY <2>1 DEF DelWrites9
  <2>3. m \in Entries
    BY <2>1, SpareEntry
  <2>4. u[m] \in Rule
    <3>1. RulesGood(r) /\ e \in Entries /\ Live(r, e)
      BY DeletedRule DEF DelOf, Good
    <3>2. u \in [Entries -> Rule]
      BY <3>1, CutRulesServe DEF RulesServe
    <3> QED
      BY <2>3, <3>2
  <2>5. RuleMoved(r, x, e, i) = [u EXCEPT ![m].indx = i]
    BY <2>1 DEF RuleMoved
  <2> HIDE DEF u, m
  <2>6. /\ todo' = DelWrites10(k)
        /\ UNCHANGED <<valid, index, prev_index, rule_id_array>>
        /\ rules' = [rules EXCEPT ![m] = Written(rules[m], [indx |-> i])]
    BY <1>1, <2>2, RuleStep
  <2>7. Written(u[m], [indx |-> i]) = [u[m] EXCEPT !.indx = i]
    BY <2>4, RuleWritten
  <2>8. rules' = RuleMoved(r, x, e, i)
    BY <2>1, <2>5, <2>6, <2>7
  <2>9. DelAt(10, e, i, k, r, x, p)'
    BY <2>1, <2>6, <2>8 DEF DelAt
  <2> QED
    BY <1>2, <2>6, <2>9 DEF DelGoes
<1>3. CASE n = 10
  <2>1. /\ todo = DelWrites10(k) /\ rules = RuleMoved(r, x, e, i)
        /\ prev_index = PrevCleared(x, p, i) /\ index = IndexCleared(x, p, i)
    BY <1>3 DEF DelAt
  <2>2. todo = <<Sweep>> \o DelWrites11(k)
    BY <2>1 DEF DelWrites10
  <2>3. /\ todo' = DelWrites11(k)
        /\ UNCHANGED <<valid, index, prev_index, rule_id_array>>
        /\ rules' = Swept(rules)
    BY <1>1, <2>2, SweepStep
  <2>4. DelAt(11, e, i, k, r, x, p)'
    BY <2>1, <2>3 DEF DelAt
  <2> QED
    BY <1>3, <2>3, <2>4 DEF DelGoes
<1> QED
  BY <1>2, <1>3

\* The next step of a deletion is at the next write, or is its last.
LEMMA DelStep ==
  ASSUME NEW e, NEW i, NEW k, NEW r, NEW x, NEW p, NEW h, DelOf(e, i, k, r, x, p, h),
         NEW n \in 1 .. 11, DelAt(n, e, i, k, r, x, p), DelBusy(n, e, i, r, x), Step
  PROVE  \/ n < 11 /\ DelGoes(n + 1, e, i, k, r, x, p)
         \/ n = 11 /\ DelEnds(k, e, i, r, x, p)
<1>1. CASE n = 11
  <2>1. /\ todo = DelWrites11(k) /\ rules = Swept(RuleMoved(r, x, e, i))
        /\ prev_index = PrevCleared(x, p, i) /\ index = IndexCleared(x, p, i)
    BY <1>1 DEF DelAt
  <2>2. todo = <<Write("rule_id_array", k, 0)>>
    BY <2>1 DEF DelWrites11
  <2>3. /\ todo' = <<>> /\ UNCHANGED <<valid, rules, index, prev_index>>
        /\ rule_id_array' = [rule_id_array EXCEPT ![k] = 0]
    BY <2>2, HandleStep
  <2>4. DelEnds(k, e, i, r, x, p)
    BY <2>1, <2>3 DEF DelEnds
  <2> QED
    BY <1>1, <2>4
<1>2. CASE n # 11
  <2>1. n \in {1, 2} \/ n \in {3, 4, 5} \/ n \in {6, 7, 8} \/ n \in {9, 10}
    BY <1>2
  <2> QED
    BY <1>2, <2>1, DelStepIndex, DelStepRules, DelStepPrev, DelStepEnd
<1> QED
  BY <1>1, <1>2

-----------------------------------------------------------------------------
(* The first step of an operation.                                         *)

LEMMA Pair ==
  ASSUME NEW v, NEW w
  PROVE  <<v, w>> = <<v>> \o <<w>>
<1>1. <<v, w>> = Append(<<v>>, w)
  OBVIOUS
<1>2. Append(<<v>>, w) = <<v>> \o <<w>>
  OBVIOUS
<1> QED
  BY <1>1, <1>2, Zenon

IsThree(a, b, c) == (a \o b) \o c = a \o (b \o c)

LEMMA ThreeParts ==
  ASSUME NEW V, NEW a \in Seq(V), NEW b \in Seq(V), NEW c \in Seq(V)
  PROVE  IsThree(a, b, c)
BY DEF IsThree

LEMMA TwoParts ==
  ASSUME NEW V, NEW a \in Seq(V), NEW b \in Seq(V)
  PROVE  a \o b \in Seq(V)
OBVIOUS

LEMMA PairFirst ==
  ASSUME NEW V, NEW v \in V, NEW w \in V, NEW s \in Seq(V)
  PROVE  <<v, w>> \o s = <<v>> \o (<<w>> \o s)
<1> DEFINE a == <<v>>
           b == <<w>>
<1>1. a \in Seq(V) /\ b \in Seq(V)
  OBVIOUS
<1>2. <<v, w>> = a \o b
  BY Pair
<1> HIDE DEF a, b
<1>3. (a \o b) \o s = a \o (b \o s)
  BY <1>1
<1>4. <<v, w>> \o s = a \o (b \o s)
  BY <1>2, <1>3, Zenon
<1> QED
  BY <1>4 DEF a, b

IsFive(a, b, c, d, f) ==
  /\ a \o b \o c \o d \o f = a \o (b \o (c \o (d \o f)))
  /\ ((a \o b) \o (c \o d)) \o f = a \o (b \o (c \o (d \o f)))

LEMMA FiveParts ==
  ASSUME NEW V, NEW a \in Seq(V), NEW b \in Seq(V), NEW c \in Seq(V), NEW d \in Seq(V),
         NEW f \in Seq(V)
  PROVE  IsFive(a, b, c, d, f)
<1> DEFINE p == d \o f
           q == c \o p
           u == a \o b
           v == u \o c
           w == c \o d
<1>1. p \in Seq(V) /\ u \in Seq(V) /\ w \in Seq(V)
  BY TwoParts
<1>2. q \in Seq(V) /\ v \in Seq(V)
  <2> HIDE DEF p, u
  <2> QED
    BY <1>1, TwoParts
<1> HIDE DEF p, q, u, v, w
<1>3. /\ IsThree(v, d, f) /\ IsThree(u, c, p) /\ IsThree(a, b, q)
      /\ IsThree(u, w, f) /\ IsThree(c, d, f)
  BY <1>1, <1>2, ThreeParts
<1> QED
  BY <1>3, Zenon DEF IsThree, IsFive, p, q, u, v, w

\* There is a handle left, and it is not the last one: each of the others is
\* that of a rule, and there are more of them than entries.
LEMMA HandleLeft ==
  ASSUME NEW h, NEW r, HandlesGood(h, r)
  PROVE  \E k \in Handles : k < T + E /\ h[k] = 0
<1> DEFINE H == 1 .. T + E - 1
           f == [k \in H |-> h[k]]
<1> SUFFICES ASSUME \A k \in Handles : k < T + E => h[k] # 0
             PROVE  FALSE
  OBVIOUS
<1>1. IsFiniteSet(H) /\ Cardinality(H) = T + E - 1
  BY HashAssumption, FS_Interval DEF HashAssumption
<1>2. IsFiniteSet(Entries) /\ Cardinality(Entries) = T + E - 2
  BY EntriesFinite
<1>3. \A k \in H : k \in Handles /\ h[k] # 0 /\ h[k] \in Entries
  BY HashAssumption DEF HashAssumption, HandlesGood, Handles, Link
<1>4. f \in [H -> Entries] /\ \A k \in H : f[k] = h[k]
  BY <1>3
<1>5. Cardinality(Entries) < Cardinality(H)
  BY <1>1, <1>2, HashAssumption DEF HashAssumption
<1> HIDE DEF H, f
<1>6. PICK k \in H, l \in H : k # l /\ f[k] = f[l]
  BY <1>1, <1>2, <1>4, <1>5, FS_PigeonHole
<1> QED
  BY <1>3, <1>4, <1>6 DEF HandlesGood

LEMMA FreeHandle ==
  ASSUME NEW r, HandlesGood(rule_id_array, r)
  PROVE  /\ make_rule_hdl \in Handles /\ make_rule_hdl < T + E
         /\ rule_id_array[make_rule_hdl] = 0
<1> DEFINE S == {h \in Handles : rule_id_array[h] = 0}
<1>1. PICK k \in Handles : k < T + E /\ rule_id_array[k] = 0
  BY HandleLeft
<1>2. S \in SUBSET Nat /\ S # {} /\ k \in S /\ T + E \in Nat
  BY <1>1, HashAssumption DEF HashAssumption, Handles
<1>3. Min(S) \in S /\ Min(S) <= k
  BY <1>2, LeastNumber
<1>4. make_rule_hdl = Min(S)
  BY <1>2 DEF make_rule_hdl, FirstOf
<1>5. Min(S) \in Nat /\ k \in Nat
  BY <1>2, <1>3
<1> HIDE DEF S
<1>6. Min(S) < T + E
  BY <1>1, <1>2, <1>3, <1>5
<1> QED
  BY <1>3, <1>4, <1>6 DEF S

\* Where generate_tbl_rule and generate_index_rule put an entry.
LEMMA FreePlace ==
  ASSUME NEW next, NEW prev, NEW used, NEW key, Chained(next, prev, used, key),
         NEW k \in BaseEntries, NEW S, S = {e \in ExpnEntries : e \notin used},
         NEW at, NEW before, at # 0,
         k \notin used => at = k /\ before = 0,
         k \in used => at = FirstOf(S) /\ before = LastOf(next, k)
  PROVE  Place(next, used, key, k, at, before)
<1>1. CASE k \notin used
  BY <1>1 DEF Place
<1>2. CASE k \in used
  <2>1. S # {} /\ at = Min(S)
    BY <1>2 DEF FirstOf
  <2>2. S \in SUBSET Nat
    BY EntryKinds
  <2>3. at \in S
    BY <2>1, <2>2, LeastNumber
  <2>4. before \in used /\ next[before] = 0 /\ key[before] = k
    BY <1>2, LastOfChain
  <2> QED
    BY <2>3, <2>4 DEF Place
<1> QED
  BY <1>1, <1>2

LEMMA AddRuleStarts ==
  ASSUME Good(rules, index, prev_index, rule_id_array), NEW c \in Conns, AddRule(c)
  PROVE  \E a, b, i, j, k :
           /\ AddOf(c, a, b, i, j, k, rules, index, prev_index, rule_id_array)
           /\ valid /\ UNCHANGED <<valid, rules, index, rule_id_array>>
           /\ prev_index' = PrevAdded(prev_index, i, j)
           /\ todo' = AddWrites1(c, a, b, i, j, k)
<1> DEFINE ru == generate_tbl_rule(c)
           ix == generate_index_rule(c)
           a == ru.at
           b == ru.prev
           i == ix.at
           j == ix.prev
           k == make_rule_hdl
<1>1. /\ RulesGood(rules) /\ IndexGood(index, prev_index, rules)
      /\ HandlesGood(rule_id_array, rules)
      /\ rules \in [Entries -> Rule] /\ index \in [Entries -> Index]
  BY DEF Good, RulesGood, IndexGood
<1>2. /\ valid /\ HandlesOf(c) = {} /\ a # 0 /\ i # 0
      /\ prev_index' = IF i >= T THEN [prev_index EXCEPT ![i] = j] ELSE prev_index
      /\ todo' = copy_ipv4_rule_to_hw(c, ru, ix)
                 \o copy_ipv4_index_rule_to_hw(ru, ix)
                 \o <<Write("rules", a, [enable |-> TRUE]), Write("rule_id_array", k, a)>>
      /\ UNCHANGED <<valid, rules, index, rule_id_array>>
  BY DEF AddRule
<1>3. Dst[c] \in BaseEntries /\ Src[c] \in BaseEntries /\ Dst[c] \in Entries /\ Src[c] \in Entries
  BY HashAssumption, EntryKinds DEF HashAssumption, BaseEntries
<1>4. \A e \in Entries : Live(rules, e) => rules[e].conn # c
  <2> SUFFICES ASSUME NEW e \in Entries, Live(rules, e), rules[e].conn = c PROVE FALSE
    OBVIOUS
  <2>1. PICK l \in Handles : rule_id_array[l] = e
    BY <1>1 DEF HandlesGood
  <2>2. l \in HandlesOf(c)
    BY <2>1, EntryKinds DEF HandlesOf
  <2> QED
    BY <1>2, <2>2
<1>5. Place(NextIn(rules), InUse(rules), RuleKeys(rules), Dst[c], a, b)
  <2>1. Chained(NextIn(rules), PrevIn(rules), InUse(rules), RuleKeys(rules))
    BY <1>1 DEF RulesGood
  <2> DEFINE S == {e \in ExpnEntries : ~rules[e].enable}
  <2>2. S = {e \in ExpnEntries : e \notin InUse(rules)}
    BY EntryKinds DEF InUse
  <2>3. Dst[c] \notin InUse(rules) => a = Dst[c] /\ b = 0
    BY <1>3 DEF InUse, generate_tbl_rule
  <2>4. Dst[c] \in InUse(rules) => a = FirstOf(S) /\ b = LastOf(NextIn(rules), Dst[c])
    BY <1>3 DEF InUse, generate_tbl_rule, expn_tbl_free_entry, NextIn, RuleNext
  <2> HIDE DEF S, a, b
  <2> QED
    BY <1>2, <1>3, <2>1, <2>2, <2>3, <2>4, FreePlace
<1>6. Place(NextIn(index), Indexed(index), IndexKeys(index, rules), Src[c], i, j)
  <2>1. Chained(NextIn(index), prev_index, Indexed(index), IndexKeys(index, rules))
    BY <1>1 DEF IndexGood
  <2> DEFINE S == {e \in ExpnEntries : index[e].rule = 0}
  <2>2. S = {e \in ExpnEntries : e \notin Indexed(index)}
    BY EntryKinds DEF Indexed
  <2>3. Src[c] \notin Indexed(index) => i = Src[c] /\ j = 0
    BY <1>3 DEF Indexed, generate_index_rule
  <2>4. Src[c] \in Indexed(index) => i = FirstOf(S) /\ j = LastOf(NextIn(index), Src[c])
    BY <1>3 DEF Indexed, generate_index_rule, index_expn_get_free_entry, NextIn, IndexNext
  <2> HIDE DEF S, i, j
  <2> QED
    BY <1>2, <1>3, <2>1, <2>2, <2>3, <2>4, FreePlace
<1>7. k \in Handles /\ k < T + E /\ rule_id_array[k] = 0
  BY <1>1, FreeHandle
<1>8. AddOf(c, a, b, i, j, k, rules, index, prev_index, rule_id_array)
  BY <1>4, <1>5, <1>6, <1>7 DEF AddOf
<1>9. todo' = AddWrites1(c, a, b, i, j, k)
  <2> DEFINE w1 == Write("rules", a, AddedRule(c, b, i))
             w2 == Write("rules", b, [next |-> a])
             w3 == Write("index", i, [rule |-> a, next |-> 0])
             w4 == Write("index", j, [next |-> i])
             w5 == Write("rules", a, [enable |-> TRUE])
             w6 == Write("rule_id_array", k, a)
             V == {w1, w2, w3, w4, w5, w6}
             s2 == IF b # 0 THEN <<w2>> ELSE <<>>
             s4 == IF j # 0 THEN <<w4>> ELSE <<>>
  <2>1. todo' = ((<<w1>> \o s2) \o (<<w3>> \o s4)) \o <<w5, w6>>
    BY <1>2 DEF copy_ipv4_rule_to_hw, copy_ipv4_index_rule_to_hw, If, AddedRule
  <2>2. AddWrites5(a, k) = <<w5>> \o <<w6>>
    BY DEF AddWrites5, AddWrites6
  <2>3. AddWrites4(a, i, j, k) = IF j # 0 THEN <<w4>> \o AddWrites5(a, k) ELSE AddWrites5(a, k)
    BY DEF AddWrites4
  <2>4. AddWrites3(a, i, j, k) = <<w3>> \o AddWrites4(a, i, j, k)
    BY DEF AddWrites3
  <2>5. AddWrites2(a, b, i, j, k) =
          IF b # 0 THEN <<w2>> \o AddWrites3(a, i, j, k) ELSE AddWrites3(a, i, j, k)
    BY DEF AddWrites2
  <2>6. AddWrites1(c, a, b, i, j, k) = <<w1>> \o AddWrites2(a, b, i, j, k)
    BY DEF AddWrites1
  <2>7. w1 \in V /\ w2 \in V /\ w3 \in V /\ w4 \in V /\ w5 \in V /\ w6 \in V
    OBVIOUS
  <2> HIDE DEF w1, w2, w3, w4, w5, w6, V, a, b, i, j, k
  <2>8. /\ <<w1>> \in Seq(V) /\ <<w2>> \in Seq(V) /\ <<w3>> \in Seq(V) /\ <<w4>> \in Seq(V)
        /\ <<w5>> \in Seq(V) /\ <<w6>> \in Seq(V) /\ <<w5, w6>> \in Seq(V)
        /\ <<>> \in Seq(V)
    BY <2>7
  <2>15. <<w5, w6>> = <<w5>> \o <<w6>>
    BY Pair
  <2>9. s2 \in Seq(V) /\ s4 \in Seq(V)
    BY <2>8
  <2> HIDE DEF s2, s4
  <2>10. todo' = <<w1>> \o (s2 \o (<<w3>> \o (s4 \o <<w5, w6>>)))
    <3> DEFINE s1 == <<w1>>
               s3 == <<w3>>
               s5 == <<w5, w6>>
    <3>1. s1 \in Seq(V) /\ s3 \in Seq(V) /\ s5 \in Seq(V)
      BY <2>8
    <3>2. todo' = ((s1 \o s2) \o (s3 \o s4)) \o s5
      BY <2>1
    <3> HIDE DEF s1, s3, s5
    <3>3. IsFive(s1, s2, s3, s4, s5)
      BY <2>9, <3>1, FiveParts
    <3>4. todo' = s1 \o (s2 \o (s3 \o (s4 \o s5)))
      BY <3>2, <3>3, Zenon DEF IsFive
    <3> QED
      BY <3>4 DEF s1, s3, s5
  <2>11. s4 \o <<w5, w6>> = AddWrites4(a, i, j, k)
    <3>1. <<>> \o <<w5, w6>> = <<w5, w6>>
      BY <2>8, ConcatEmptySeq
    <3> QED
      BY <2>2, <2>3, <2>15, <3>1 DEF s4
  <2>12. AddWrites3(a, i, j, k) \in Seq(V)
    <3>1. s4 \o <<w5, w6>> \in Seq(V)
      BY <2>8, <2>9
    <3>2. <<w3>> \o (s4 \o <<w5, w6>>) \in Seq(V)
      BY <2>8, <3>1
    <3> QED
      BY <2>4, <2>11, <3>2
  <2>13. s2 \o AddWrites3(a, i, j, k) = AddWrites2(a, b, i, j, k)
    <3>1. <<>> \o AddWrites3(a, i, j, k) = AddWrites3(a, i, j, k)
      BY <2>12, ConcatEmptySeq
    <3> QED
      BY <2>5, <3>1 DEF s2
  <2> QED
    BY <2>4, <2>6, <2>10, <2>11, <2>13
<1>10. prev_index' = PrevAdded(prev_index, i, j)
  BY <1>2 DEF PrevAdded
<1> HIDE DEF a, b, i, j, k
<1> QED
  BY <1>2, <1>8, <1>9, <1>10

\* The writes of a deletion, in the order of the code.
LEMMA DelRuleTodo ==
  ASSUME NEW h \in Handles, NEW e, NEW i,
         DelOf(e, i, h, rules, index, prev_index, rule_id_array)
  PROVE  IndexCmds(i) \o <<RuleCmd(e)>> \o RuleUpdates(e) \o IndexUpdates(i)
           \o <<Sweep, Write("rule_id_array", h, 0)>>
         = DelWrites1(e, i, h, rules, index, prev_index)
<1> DEFINE hd == IsHead(NextIn(index), i)
           n == index[i].next
           m == index[n].rule
           bl == BackLinks(index, i)
           ro == ~IsHead(NextIn(rules), e)
           rl == e >= T /\ rules[e].next # 0
           w1 == Write("index", i, [rule |-> m])
           w2 == IndexCmdOf(index, prev_index, i)
           w3 == RuleCmdOf(rules, e)
           w4 == Write("rules", rules[e].next, [prev |-> rules[e].prev])
           w5 == Write("rules", e, NoRule)
           w6 == Write("prev_index", Behind(index, i), Ahead(index, prev_index, i))
           w7 == Write("prev_index", i, 0)
           w8 == Write("index", Spare(index, i), NoIndex)
           w9 == Write("rules", m, [indx |-> i])
           w10 == Sweep
           w11 == Write("rule_id_array", h, 0)
           V == {w1, w2, w3, w4, w5, w6, w7, w8, w9, w10, w11}
           a == IndexCmds(i)
           b == <<RuleCmd(e)>>
           c == RuleUpdates(e)
           d == IndexUpdates(i)
           f == <<w10, w11>>
           t4 == DelWrites4(e, i, h, rules, index, prev_index)
           t6 == DelWrites6(i, h, index, prev_index)
           t8 == DelWrites8(i, h, index)
           t9 == DelWrites9(i, h, index)
<1>1. RuleNext = NextIn(rules) /\ IndexNext = NextIn(index)
  BY DEF RuleNext, IndexNext, NextIn
<1>2. /\ i \in Entries
      /\ hd => Spare(index, i) = n /\ n >= T /\ Behind(index, i) = index[n].next
               /\ Ahead(index, prev_index, i) = i
      /\ ~hd => Spare(index, i) = i /\ Behind(index, i) = n
                /\ Ahead(index, prev_index, i) = prev_index[i]
  BY DeletedRule, SpareEntry DEF Behind, Ahead, Spare
<1>3. /\ hd => (bl <=> index[n].next # 0)
      /\ ~hd => (bl <=> i >= T /\ n # 0)
  BY <1>2 DEF BackLinks
<1>4. a = IF hd THEN <<w1, w2>> ELSE <<w2>>
  <2>1. CASE hd
    BY <1>1, <2>1 DEF IndexCmds, IndexCmdOf
  <2>2. CASE ~hd
    <3>1. ~IsHead(IndexNext, i) /\ ~IsHead(NextIn(index), i)
      BY <1>1, <2>2
    <3>2. CASE i < T
      BY <3>1, <3>2 DEF IndexCmds, IndexCmdOf
    <3>3. CASE ~(i < T)
      BY <3>1, <3>3 DEF IndexCmds, IndexCmdOf
    <3> QED
      BY <3>2, <3>3, <3>1
  <2> QED
    BY <2>1, <2>2
<1>5. b = <<w3>>
  BY <1>1 DEF RuleCmd, RuleCmdOf
<1>6. c = (IF rl THEN <<w4>> ELSE <<>>) \o (IF ro THEN <<w5>> ELSE <<>>)
  BY <1>1 DEF RuleUpdates, If
<1>7. d = IF hd THEN (IF bl THEN <<w6>> ELSE <<>>) \o <<w8, w9>>
          ELSE (IF bl THEN <<w6, w7>> ELSE <<>>) \o <<w8>>
  <2>1. CASE hd
    BY <1>1, <1>2, <1>3, <2>1 DEF IndexUpdates, IndexHeadUpdates, If
  <2>2. CASE ~hd
    BY <1>1, <1>2, <1>3, <2>2 DEF IndexUpdates, IndexRestUpdates, If
  <2> QED
    BY <2>1, <2>2
<1>8. /\ DelWrites10(h) = <<w10>> \o <<w11>>
      /\ t9 = IF hd THEN <<w9>> \o DelWrites10(h) ELSE DelWrites10(h)
      /\ t8 = <<w8>> \o t9
      /\ DelWrites7(i, h, index) = IF bl /\ ~hd THEN <<w7>> \o t8 ELSE t8
      /\ t6 = IF bl THEN <<w6>> \o DelWrites7(i, h, index) ELSE DelWrites7(i, h, index)
  BY DEF DelWrites11, DelWrites10, DelWrites9, DelWrites8, DelWrites7, DelWrites6
<1>9. /\ DelWrites5(e, i, h, rules, index, prev_index) = IF ro THEN <<w5>> \o t6 ELSE t6
      /\ t4 = IF rl THEN <<w4>> \o DelWrites5(e, i, h, rules, index, prev_index)
              ELSE DelWrites5(e, i, h, rules, index, prev_index)
      /\ DelWrites3(e, i, h, rules, index, prev_index) = <<w3>> \o t4
      /\ DelWrites2(e, i, h, rules, index, prev_index)
           = <<w2>> \o DelWrites3(e, i, h, rules, index, prev_index)
      /\ DelWrites1(e, i, h, rules, index, prev_index)
           = IF hd THEN <<w1>> \o DelWrites2(e, i, h, rules, index, prev_index)
             ELSE DelWrites2(e, i, h, rules, index, prev_index)
  BY DEF DelWrites5, DelWrites4, DelWrites3, DelWrites2, DelWrites1
<1>10. /\ w1 \in V /\ w2 \in V /\ w3 \in V /\ w4 \in V /\ w5 \in V /\ w6 \in V /\ w7 \in V
       /\ w8 \in V /\ w9 \in V /\ w10 \in V /\ w11 \in V
  OBVIOUS
<1>11. IndexCmds(i) \o <<RuleCmd(e)>> \o RuleUpdates(e) \o IndexUpdates(i)
           \o <<Sweep, Write("rule_id_array", h, 0)>> = a \o b \o c \o d \o f
  OBVIOUS
<1> HIDE DEF hd, n, m, bl, ro, rl, w1, w2, w3, w4, w5, w6, w7, w8, w9, w10, w11, V,
             a, b, c, d, t4, t6, t8, t9
<1>12. \A v \in V : <<v>> \in Seq(V)
  OBVIOUS
<1>13. \A v, w \in V : <<v, w>> \in Seq(V)
  OBVIOUS
<1>14. <<>> \in Seq(V)
  OBVIOUS
<1>15. f \in Seq(V) /\ f = <<w10>> \o <<w11>>
  BY <1>10, <1>13, Pair
<1> HIDE DEF f
<1>16. f = DelWrites10(h)
  BY <1>8, <1>15
<1>17. \A s \in Seq(V) : <<>> \o s = s
  BY ConcatEmptySeq
<1>18. d \in Seq(V) /\ d \o f = t6
  <2>1. <<w8, w9>> \o f = <<w8>> \o (<<w9>> \o f)
    <3>1. w8 \in V /\ w9 \in V /\ f \in Seq(V)
      BY <1>10, <1>15
    <3> QED
      BY <3>1, PairFirst
  <2>2. hd => <<w8, w9>> \o f = t8
    BY <1>8, <1>16, <2>1
  <2>3. ~hd => <<w8>> \o f = t8
    BY <1>8, <1>16
  <2>4. CASE hd /\ bl
    <3> DEFINE g == <<w6>>
               q == <<w8, w9>>
    <3>1. g \in Seq(V) /\ q \in Seq(V) /\ d = g \o q
      BY <1>7, <1>10, <1>12, <1>13, <2>4
    <3>2. t6 = g \o t8 /\ q \o f = t8
      BY <1>8, <2>2, <2>4
    <3> HIDE DEF g, q
    <3>3. IsThree(g, q, f) /\ g \o q \in Seq(V)
      BY <1>15, <3>1, ThreeParts, TwoParts
    <3> QED
      BY <3>1, <3>2, <3>3, Zenon DEF IsThree
  <2>5. CASE hd /\ ~bl
    <3>1. d = <<w8, w9>> /\ <<w8, w9>> \in Seq(V)
      BY <1>7, <1>10, <1>13, <1>17, <2>5
    <3>2. t6 = t8
      BY <1>8, <2>5
    <3> QED
      BY <2>2, <2>5, <3>1, <3>2
  <2>6. CASE ~hd /\ bl
    <3> DEFINE g == <<w6, w7>>
               q == <<w8>>
    <3>1. g \in Seq(V) /\ q \in Seq(V) /\ d = g \o q
      BY <1>7, <1>10, <1>12, <1>13, <2>6
    <3>2. t6 = <<w6>> \o (<<w7>> \o t8) /\ q \o f = t8
      BY <1>8, <2>3, <2>6
    <3>3. t8 \in Seq(V)
      <4> HIDE DEF q
      <4> QED
        BY <1>15, <3>1, <3>2, TwoParts
    <3>4. g \o t8 = <<w6>> \o (<<w7>> \o t8)
      BY <1>10, <3>3, PairFirst
    <3> HIDE DEF g, q
    <3>5. IsThree(g, q, f) /\ g \o q \in Seq(V)
      BY <1>15, <3>1, ThreeParts, TwoParts
    <3> QED
      BY <3>1, <3>2, <3>4, <3>5, Zenon DEF IsThree
  <2>7. CASE ~hd /\ ~bl
    <3>1. d = <<w8>> /\ <<w8>> \in Seq(V)
      BY <1>7, <1>10, <1>12, <1>17, <2>7
    <3>2. t6 = t8
      BY <1>8, <2>7
    <3> QED
      BY <2>3, <2>7, <3>1, <3>2
  <2> QED
    BY <2>4, <2>5, <2>6, <2>7
<1>19. t6 \in Seq(V)
  BY <1>15, <1>18, TwoParts
<1>20. c \in Seq(V) /\ c \o t6 = t4
  <2> DEFINE g == IF rl THEN <<w4>> ELSE <<>>
             q == IF ro THEN <<w5>> ELSE <<>>
  <2>1. g \in Seq(V) /\ q \in Seq(V) /\ c = g \o q
    BY <1>6, <1>10, <1>12, <1>14
  <2>2. q \o t6 = DelWrites5(e, i, h, rules, index, prev_index)
    BY <1>9, <1>17, <1>19
  <2>3. DelWrites5(e, i, h, rules, index, prev_index) \in Seq(V)
    <3> HIDE DEF q
    <3> QED
      BY <1>19, <2>1, <2>2, TwoParts
  <2>4. g \o DelWrites5(e, i, h, rules, index, prev_index) = t4
    BY <1>9, <1>17, <2>3
  <2> HIDE DEF g, q
  <2>5. IsThree(g, q, t6) /\ g \o q \in Seq(V)
    BY <1>19, <2>1, ThreeParts, TwoParts
  <2> QED
    BY <2>1, <2>2, <2>4, <2>5, Zenon DEF IsThree
<1>21. b \in Seq(V) /\ b \o t4 = DelWrites3(e, i, h, rules, index, prev_index)
  BY <1>5, <1>9, <1>10, <1>12
<1>22. DelWrites3(e, i, h, rules, index, prev_index) \in Seq(V)
  <2>1. t4 \in Seq(V)
    BY <1>19, <1>20, TwoParts
  <2> QED
    BY <1>21, <2>1, TwoParts
<1>23. a \in Seq(V) /\ a \o DelWrites3(e, i, h, rules, index, prev_index)
                         = DelWrites1(e, i, h, rules, index, prev_index)
  <2>1. CASE hd
    <3>1. a = <<w1, w2>> /\ <<w1, w2>> \in Seq(V)
      BY <1>4, <1>10, <1>13, <2>1
    <3>2. <<w1, w2>> \o DelWrites3(e, i, h, rules, index, prev_index)
            = <<w1>> \o (<<w2>> \o DelWrites3(e, i, h, rules, index, prev_index))
      BY <1>10, <1>22, PairFirst
    <3> QED
      BY <1>9, <2>1, <3>1, <3>2
  <2>2. CASE ~hd
    BY <1>4, <1>9, <1>10, <1>12, <2>2
  <2> QED
    BY <2>1, <2>2
<1>24. IsFive(a, b, c, d, f)
  BY <1>15, <1>18, <1>20, <1>21, <1>23, FiveParts
<1>25. a \o b \o c \o d \o f = DelWrites1(e, i, h, rules, index, prev_index)
  BY <1>18, <1>20, <1>21, <1>23, <1>24, Zenon DEF IsFive
<1> QED
  BY <1>11, <1>25, Zenon

LEMMA DelRuleStarts ==
  ASSUME Good(rules, index, prev_index, rule_id_array), NEW h \in Handles, DelRule(h)
  PROVE  \E e, i :
           /\ DelOf(e, i, h, rules, index, prev_index, rule_id_array)
           /\ valid /\ UNCHANGED <<valid, rules, index, prev_index, rule_id_array>>
           /\ todo' = DelWrites1(e, i, h, rules, index, prev_index)
<1> DEFINE e == rule_id_array[h]
           i == rules[e].indx
<1>1. DelOf(e, i, h, rules, index, prev_index, rule_id_array)
  BY DEF DelRule, DelOf
<1>2. /\ valid /\ UNCHANGED <<valid, rules, index, prev_index, rule_id_array>>
      /\ todo' = IndexCmds(i) \o <<RuleCmd(e)>> \o RuleUpdates(e) \o IndexUpdates(i)
                   \o <<Sweep, Write("rule_id_array", h, 0)>>
  BY DEF DelRule
<1> HIDE DEF e, i
<1>3. todo' = DelWrites1(e, i, h, rules, index, prev_index)
  BY <1>1, <1>2, DelRuleTodo, Zenon
<1> QED
  BY <1>1, <1>2, <1>3

-----------------------------------------------------------------------------
(* The inductive invariant: between operations the tables are in order,    *)
(* and during one they are what the writes it has done make of tables that *)
(* were.  The tables it started from are only in the proof, not in the     *)
(* state.                                                                  *)

IsAdding   == \E c, a, b, i, j, k, r, x, p, h : Adding(c, a, b, i, j, k, r, x, p, h)
IsDeleting == \E e, i, k, r, x, p, h : Deleting(e, i, k, r, x, p, h)
IsOrdered  == Idle /\ Good(rules, index, prev_index, rule_id_array)

NatInv == valid \in BOOLEAN /\ (IsOrdered \/ IsAdding \/ IsDeleting)

LEMMA EmptyGood ==
  ASSUME NEW r, NEW x, NEW p, NEW h, IsEmptyTable(r, x, p, h)
  PROVE  Good(r, x, p, h)
<1>1. /\ r \in [Entries -> Rule] /\ x \in [Entries -> Index]
      /\ p \in [ExpnEntries -> Link] /\ h \in [Handles -> Link]
  BY TableTypes DEF IsEmptyTable
<1>2. /\ \A e \in Entries : r[e] = NoRule /\ ~r[e].enable /\ ~r[e].dead /\ r[e].next = 0
      /\ \A i \in Entries : x[i].rule = 0 /\ x[i].next = 0
      /\ \A k \in Handles : h[k] = 0
  BY DEF IsEmptyTable, NoRule, NoIndex
<1>3. InUse(r) = {} /\ Indexed(x) = {} /\ \A e \in Entries : ~Live(r, e)
  BY <1>2 DEF InUse, Indexed, Live
<1>4. /\ NextIn(r) \in Links /\ \A e \in Entries : NextIn(r)[e] = 0
      /\ NextIn(x) \in Links /\ \A e \in Entries : NextIn(x)[e] = 0
  BY <1>1, <1>2, NextOfRules, NextOfIndex
<1>5. /\ Chained(NextIn(r), PrevIn(r), {}, RuleKeys(r))
      /\ Chained(NextIn(x), p, {}, IndexKeys(x, r))
  BY <1>4 DEF Chained
<1>6. RulesGood(r)
  BY <1>1, <1>2, <1>3, <1>5 DEF RulesGood
<1>7. IndexGood(x, p, r)
  BY <1>1, <1>2, <1>3, <1>5 DEF IndexGood
<1>8. HandlesGood(h, r)
  BY <1>1, <1>2, <1>3 DEF HandlesGood
<1> QED
  BY <1>6, <1>7, <1>8 DEF Good

\* An operation has at least its last write left.
LEMMA BusyAdding ==
  ASSUME NEW c, NEW a, NEW b, NEW i, NEW j, NEW k, NEW r, NEW x, NEW p, NEW h,
         Adding(c, a, b, i, j, k, r, x, p, h)
  PROVE  IsTodo(todo, k) /\ ~Idle
<1>1. PICK n \in 1 .. 6 : AddAt(n, c, a, b, i, j, k, r, x)
  BY DEF Adding
<1>2. IsTodo(todo, k)
  BY <1>1, AddTodo DEF AddAt
<1> QED
  BY <1>2 DEF IsTodo, Idle

LEMMA BusyDeleting ==
  ASSUME NEW e, NEW i, NEW k, NEW r, NEW x, NEW p, NEW h, Deleting(e, i, k, r, x, p, h)
  PROVE  IsTodo(todo, k) /\ ~Idle
<1>1. PICK n \in 1 .. 11 : DelAt(n, e, i, k, r, x, p)
  BY DEF Deleting
<1>2. IsTodo(todo, k)
  BY <1>1, DelTodo DEF DelAt
<1> QED
  BY <1>2 DEF IsTodo, Idle

\* An addition starts from tables in order ...
LEMMA StartAdding ==
  ASSUME IsOrdered, NEW c \in Conns, AddRule(c)
  PROVE  valid' = valid /\ IsAdding'
<1>1. PICK a, b, i, j, k :
        /\ AddOf(c, a, b, i, j, k, rules, index, prev_index, rule_id_array)
        /\ valid /\ UNCHANGED <<valid, rules, index, rule_id_array>>
        /\ prev_index' = PrevAdded(prev_index, i, j)
        /\ todo' = AddWrites1(c, a, b, i, j, k)
  BY AddRuleStarts DEF IsOrdered
<1> SUFFICES ASSUME NEW r, NEW x, NEW p, NEW h,
                    r = rules, x = index, p = prev_index, h = rule_id_array
             PROVE  Adding(c, a, b, i, j, k, r, x, p, h)'
  BY <1>1 DEF IsAdding
<1>2. AddOf(c, a, b, i, j, k, r, x, p, h)
  BY <1>1
<1>3. valid' /\ prev_index' = PrevAdded(p, i, j) /\ rule_id_array' = h
  BY <1>1
<1>4. AddAt(1, c, a, b, i, j, k, r, x)'
  BY <1>1 DEF AddAt
<1> QED
  BY <1>2, <1>3, <1>4 DEF Adding

\* ... and so does a deletion.
LEMMA StartDeleting ==
  ASSUME IsOrdered, NEW k \in Handles, DelRule(k)
  PROVE  valid' = valid /\ IsDeleting'
<1>1. PICK e, i :
        /\ DelOf(e, i, k, rules, index, prev_index, rule_id_array)
        /\ valid /\ UNCHANGED <<valid, rules, index, prev_index, rule_id_array>>
        /\ todo' = DelWrites1(e, i, k, rules, index, prev_index)
  BY DelRuleStarts DEF IsOrdered
<1> SUFFICES ASSUME NEW r, NEW x, NEW p, NEW h,
                    r = rules, x = index, p = prev_index, h = rule_id_array
             PROVE  Deleting(e, i, k, r, x, p, h)'
  BY <1>1 DEF IsDeleting
<1>2. DelOf(e, i, k, r, x, p, h)
  BY <1>1
<1>3. valid' /\ rule_id_array' = h
  BY <1>1
<1>4. DelAt(1, e, i, k, r, x, p)'
  BY <1>1 DEF DelAt
<1> QED
  BY <1>2, <1>3, <1>4 DEF Deleting

\* A write of an addition leads to the next, or leaves the tables in order with
\* the rule in them.
LEMMA StepAdding ==
  ASSUME IsAdding, Step
  PROVE  valid' = valid /\ (IsAdding' \/ IsOrdered')
<1>1. PICK c, a, b, i, j, k, r, x, p, h : Adding(c, a, b, i, j, k, r, x, p, h)
  BY DEF IsAdding
<1>2. /\ AddOf(c, a, b, i, j, k, r, x, p, h)
      /\ valid /\ prev_index = PrevAdded(p, i, j) /\ rule_id_array = h
  BY <1>1 DEF Adding
<1>3. PICK n \in 1 .. 6 : AddAt(n, c, a, b, i, j, k, r, x)
  BY <1>1 DEF Adding
<1>4. AddGoes(c, a, b, i, j, k, r, x) \/ AddEnds(c, a, b, i, j, k, r, x)
  BY <1>2, <1>3, AddStep
<1>5. CASE AddGoes(c, a, b, i, j, k, r, x)
  <2>1. Adding(c, a, b, i, j, k, r, x, p, h)'
    BY <1>2, <1>5 DEF Adding, AddGoes
  <2> QED
    BY <1>5, <2>1 DEF IsAdding, AddGoes
<1>6. CASE AddEnds(c, a, b, i, j, k, r, x)
  <2>1. Good(RuleAdded(r, c, a, b, i), IndexLinked(x, a, i, j), PrevAdded(p, i, j),
             [h EXCEPT ![k] = a])
    BY <1>2, AddedGood
  <2>2. Good(rules', index', prev_index', rule_id_array')
    BY <1>2, <1>6, <2>1 DEF AddEnds
  <2> QED
    BY <1>6, <2>2 DEF IsOrdered, Idle, AddEnds
<1> QED
  BY <1>4, <1>5, <1>6

\* ... and of a deletion, without it.
LEMMA StepDeleting ==
  ASSUME IsDeleting, Step
  PROVE  valid' = valid /\ (IsDeleting' \/ IsOrdered')
<1>1. PICK e, i, k, r, x, p, h : Deleting(e, i, k, r, x, p, h)
  BY DEF IsDeleting
<1>2. DelOf(e, i, k, r, x, p, h) /\ valid /\ rule_id_array = h
  BY <1>1 DEF Deleting
<1>3. PICK l \in 1 .. 11 : DelAt(l, e, i, k, r, x, p)
  BY <1>1 DEF Deleting
<1>4. PICK n \in 1 .. 11 : DelAt(n, e, i, k, r, x, p) /\ DelBusy(n, e, i, r, x)
  BY <1>3, DelSkips
<1>5. \/ n < 11 /\ DelGoes(n + 1, e, i, k, r, x, p)
      \/ n = 11 /\ DelEnds(k, e, i, r, x, p)
  BY <1>2, <1>4, DelStep
<1>6. CASE n < 11 /\ DelGoes(n + 1, e, i, k, r, x, p)
  <2>1. n + 1 \in 1 .. 11
    BY <1>6
  <2>2. Deleting(e, i, k, r, x, p, h)'
    BY <1>2, <1>6, <2>1 DEF Deleting, DelGoes
  <2> QED
    BY <1>6, <2>2 DEF IsDeleting, DelGoes
<1>7. CASE DelEnds(k, e, i, r, x, p)
  <2>1. Good(Swept(RuleMoved(r, x, e, i)), IndexCleared(x, p, i), PrevCleared(x, p, i),
             [h EXCEPT ![k] = 0])
    BY <1>2, DeletedGood
  <2>2. Good(rules', index', prev_index', rule_id_array')
    BY <1>2, <1>7, <2>1 DEF DelEnds
  <2> QED
    BY <1>7, <2>2 DEF IsOrdered, Idle, DelEnds
<1> QED
  BY <1>5, <1>6, <1>7

LEMMA NatInvInit ==
  Init => NatInv
BY EmptyGood DEF Init, NatInv, IsOrdered, Idle

LEMMA NatInvNext ==
  NatInv /\ [Next]_vars => NatInv'
<1> SUFFICES ASSUME NatInv, [Next]_vars
             PROVE  NatInv'
  OBVIOUS
<1>1. Idle => IsOrdered
  BY BusyAdding, BusyDeleting DEF NatInv, IsAdding, IsDeleting
<1>2. CASE AddTable
  <2>1. todo' = <<>> /\ valid' = TRUE /\ Good(rules', index', prev_index', rule_id_array')
    BY <1>2, EmptyGood DEF AddTable, Idle
  <2> QED
    BY <2>1 DEF NatInv, IsOrdered, Idle
<1>3. CASE DelTable
  <2>1. todo' = <<>> /\ valid' = FALSE /\ Good(rules', index', prev_index', rule_id_array')
    BY <1>3, EmptyGood DEF DelTable, Idle
  <2> QED
    BY <2>1 DEF NatInv, IsOrdered, Idle
<1>4. CASE \E c \in Conns : AddRule(c)
  BY <1>1, <1>4, StartAdding DEF AddRule, NatInv
<1>5. CASE \E k \in Handles : DelRule(k)
  BY <1>1, <1>5, StartDeleting DEF DelRule, NatInv
<1>6. CASE Step
  <2>1. ~Idle
    BY <1>6 DEF Step, WriteRule, WriteIndex, WritePrevIndex, WriteHandle, SweepDeadHeads,
       NextWrite
  <2> QED
    BY <1>6, <2>1, StepAdding, StepDeleting DEF NatInv, IsOrdered
<1>7. CASE UNCHANGED vars
  <2>1. IsOrdered => IsOrdered'
    BY <1>7 DEF vars, IsOrdered, Idle
  <2>2. IsAdding => IsAdding'
    BY <1>7 DEF vars, IsAdding, Adding, AddAt
  <2>3. IsDeleting => IsDeleting'
    BY <1>7 DEF vars, IsDeleting, Deleting, DelAt
  <2> QED
    BY <1>7, <2>1, <2>2, <2>3 DEF vars, NatInv
<1> QED
  BY <1>2, <1>3, <1>4, <1>5, <1>6, <1>7 DEF Next

\* Of any two tables of any size, and any connections: between operations both hash
\* tables are chained in both directions, each rule in use has one index entry and
\* one handle, and each write of ipa_nat_add_ipv4_rule and ipa_nat_del_ipv4_rule
\* leads from the tables before the operation to such tables after it.
THEOREM NatInvAlways == Spec => []NatInv
BY NatInvInit, NatInvNext, PTL DEF Spec

-----------------------------------------------------------------------------
(* What follows from it: FoundFromBothSides.                               *)

\* A rule of the tables r, other than x0, is found in tables that serve r.
LEMMA ServedIsFound ==
  ASSUME NEW r, NEW x0, RulesGood(r), HandlesGood(rule_id_array, r),
         RulesServe(rules, r, x0), IndexServes(index, r, x0),
         NEW k \in Handles, rule_id_array[k] # 0, rule_id_array[k] # x0
  PROVE  LET e == rule_id_array[k]
             c == rules[e].conn
         IN Inbound(c) = {e} /\ {o \in Outbound(c) : Matches(o, c)} = {e}
<1> DEFINE e == rule_id_array[k]
           c == rules[e].conn
           D == Chain(RuleNext, Dst[c])
           S == Chain(IndexNext, Src[c])
<1>1. e \in Entries /\ e # 0 /\ e # x0 /\ Live(r, e)
  BY DEF HandlesGood, Link
<1>2. Live(rules, e) /\ c = r[e].conn
  BY <1>1 DEF RulesServe
<1>3. RuleNext = NextIn(rules) /\ IndexNext = NextIn(index)
  BY DEF RuleNext, IndexNext, NextIn
<1>4. e \in D /\ \E i \in S : index[i].rule = e
  BY <1>1, <1>2, <1>3 DEF RulesServe, IndexServes
<1>5. D \subseteq Entries /\ S \subseteq Entries
  <2>1. Dst[c] \in BaseEntries /\ Src[c] \in BaseEntries
    BY <1>1, <1>2, LiveRule, HashAssumption DEF HashAssumption, BaseEntries
  <2>2. Dst[c] \in Entries /\ Src[c] \in Entries
    BY <2>1, EntryKinds
  <2>3. NextIn(rules) \in Links /\ NextIn(index) \in Links
    BY NextOfRules, NextOfIndex DEF RulesServe, IndexServes
  <2> QED
    BY <1>3, <2>2, <2>3, ChainIsLeast
<1> HIDE DEF e, c, D, S
<1>6. ASSUME NEW f \in Entries, Matches(f, c)
      PROVE  f = e
  <2>1. Live(rules, f) /\ rules[f].conn = c
    BY <1>6 DEF Matches, Live
  <2>2. Live(r, f) /\ r[f].conn = c
    BY <1>1, <1>2, <2>1 DEF RulesServe
  <2> QED
    BY <1>1, <1>2, <2>2 DEF HandlesGood
<1>7. Matches(e, c)
  BY <1>2 DEF Matches, Live, c
<1>8. Inbound(c) = {f \in D : Matches(f, c)}
  BY DEF Inbound, D
<1>9. Inbound(c) = {e}
  BY <1>4, <1>5, <1>6, <1>7, <1>8
<1>10. Outbound(c) = {index[i].rule : i \in S} \ {0}
  BY DEF Outbound, S
<1>11. \A i \in S : index[i].rule # 0 => index[i].rule \in Entries
  BY <1>5 DEF IndexServes, Index, Link
<1>12. Outbound(c) \subseteq Entries /\ e \in Outbound(c)
  BY <1>1, <1>4, <1>10, <1>11
<1>13. {o \in Outbound(c) : Matches(o, c)} = {e}
  BY <1>6, <1>7, <1>12
<1> QED
  BY <1>9, <1>13 DEF e, c

\* All through an addition, and a deletion, the tables serve the rules there were.
LEMMA AddingServes ==
  ASSUME NEW c, NEW a, NEW b, NEW i, NEW j, NEW k, NEW r, NEW x, NEW p, NEW h,
         Adding(c, a, b, i, j, k, r, x, p, h)
  PROVE  /\ Good(r, x, p, h) /\ rule_id_array = h /\ k \in Handles /\ h[k] = 0
         /\ RulesServe(rules, r, 0) /\ IndexServes(index, r, 0)
         /\ prev_index \in [ExpnEntries -> Link]
<1>1. /\ AddOf(c, a, b, i, j, k, r, x, p, h)
      /\ prev_index = PrevAdded(p, i, j) /\ rule_id_array = h
  BY DEF Adding
<1>2. Good(r, x, p, h) /\ k \in Handles /\ h[k] = 0
  BY <1>1 DEF AddOf
<1>3. RulesServe(r, r, 0) /\ IndexServes(x, r, 0)
  BY <1>2, RulesServeThemselves, IndexServesItself DEF Good
<1>4. /\ RulesServe(RuleCopied(r, c, a, b, i), r, 0)
      /\ RulesServe(RuleLinked(r, c, a, b, i), r, 0)
      /\ RulesServe(RuleAdded(r, c, a, b, i), r, 0)
      /\ IndexServes(IndexCopied(x, a, i), r, 0)
      /\ IndexServes(IndexLinked(x, a, i, j), r, 0)
  BY <1>1, AddedRulesServe, AddedIndexServes
<1>5. PICK n \in 1 .. 6 : AddAt(n, c, a, b, i, j, k, r, x)
  BY DEF Adding
<1>6. /\ rules \in {r, RuleCopied(r, c, a, b, i), RuleLinked(r, c, a, b, i),
                    RuleAdded(r, c, a, b, i)}
      /\ index \in {x, IndexCopied(x, a, i), IndexLinked(x, a, i, j)}
  BY <1>5 DEF AddAt
<1>7. p \in [ExpnEntries -> Link] /\ j \in Link
  BY <1>1, <1>2, PlacesOfAdded DEF Good, IndexGood
<1> QED
  BY <1>1, <1>2, <1>3, <1>4, <1>6, <1>7 DEF PrevAdded

LEMMA DeletingServes ==
  ASSUME NEW e, NEW i, NEW k, NEW r, NEW x, NEW p, NEW h, Deleting(e, i, k, r, x, p, h)
  PROVE  /\ Good(r, x, p, h) /\ rule_id_array = h /\ k \in Handles /\ h[k] = e /\ e # 0
         /\ RulesServe(rules, r, e) /\ IndexServes(index, r, e)
         /\ prev_index \in [ExpnEntries -> Link]
<1>1. DelOf(e, i, k, r, x, p, h) /\ rule_id_array = h
  BY DEF Deleting
<1>2. Good(r, x, p, h) /\ k \in Handles /\ h[k] = e /\ e # 0
  BY <1>1 DEF DelOf
<1>3. e \in Entries /\ Live(r, e)
  BY <1>1, DeletedRule
<1>4. RulesServe(r, r, e)
  BY <1>2, RulesServeThemselves DEF Good
<1>5. /\ RulesServe(RuleCut(r, e), r, e) /\ RulesServe(RuleBackLinked(r, e), r, e)
      /\ RulesServe(RuleCleared(r, e), r, e)
  BY <1>2, <1>3, CutRulesServe DEF Good
<1>6. /\ RulesServe(RuleMoved(r, x, e, i), r, e)
      /\ RulesServe(Swept(RuleMoved(r, x, e, i)), r, e)
  BY <1>1, DeletedRules
<1>7. /\ IndexServes(x, r, e) /\ IndexServes(IndexMovedIfHead(x, i), r, e)
      /\ IndexServes(IndexCut(x, p, i), r, e) /\ IndexServes(IndexCleared(x, p, i), r, e)
  BY <1>1, CutIndexServes
<1>8. PICK n \in 1 .. 11 : DelAt(n, e, i, k, r, x, p)
  BY DEF Deleting
<1>9. /\ rules \in {r, RuleCut(r, e), RuleBackLinked(r, e), RuleCleared(r, e),
                    RuleMoved(r, x, e, i), Swept(RuleMoved(r, x, e, i))}
      /\ index \in {x, IndexMovedIfHead(x, i), IndexCut(x, p, i), IndexCleared(x, p, i)}
      /\ prev_index \in {p, PrevMoved(x, p, i), PrevCleared(x, p, i)}
  BY <1>8 DEF DelAt
<1>10. p \in [ExpnEntries -> Link]
  BY <1>2 DEF Good, IndexGood
<1>11. BackLinks(x, i) => Ahead(x, p, i) \in Link
  <2>1. \A s : s = Spare(x, i) /\ s >= T => Ahead(x, p, i) = p[s] /\ p[s] \in Entries
    BY <1>1, SpareEntry
  <2> QED
    BY <2>1, TableTypes DEF BackLinks
<1>12. PrevMoved(x, p, i) \in [ExpnEntries -> Link]
  BY <1>10, <1>11 DEF PrevMoved
<1>13. PrevCleared(x, p, i) \in [ExpnEntries -> Link]
  BY <1>12, TableTypes DEF PrevCleared
<1> QED
  BY <1>1, <1>2, <1>4, <1>5, <1>6, <1>7, <1>9, <1>10, <1>12, <1>13

LEMMA NatInvFinds ==
  NatInv => FoundFromBothSides
<1> SUFFICES ASSUME NatInv, NEW k \in Handles \ Leaving, rule_id_array[k] # 0
             PROVE  LET e == rule_id_array[k]
                        c == rules[e].conn
                    IN Inbound(c) = {e} /\ {o \in Outbound(c) : Matches(o, c)} = {e}
  BY DEF FoundFromBothSides
<1>1. \E r, x0 : /\ RulesGood(r) /\ HandlesGood(rule_id_array, r)
                 /\ RulesServe(rules, r, x0) /\ IndexServes(index, r, x0)
                 /\ rule_id_array[k] # x0
  <2>1. CASE IsOrdered
    BY <2>1, RulesServeThemselves, IndexServesItself DEF IsOrdered, Good
  <2>2. CASE IsAdding
    <3>1. PICK c, a, b, i, j, l, r, x, p, h : Adding(c, a, b, i, j, l, r, x, p, h)
      BY <2>2 DEF IsAdding
    <3> QED
      BY <3>1, AddingServes DEF Good
  <2>3. CASE IsDeleting
    <3>1. PICK e, i, l, r, x, p, h : Deleting(e, i, l, r, x, p, h)
      BY <2>3 DEF IsDeleting
    <3>2. /\ Good(r, x, p, h) /\ rule_id_array = h /\ l \in Handles /\ h[l] = e /\ e # 0
          /\ RulesServe(rules, r, e) /\ IndexServes(index, r, e)
      BY <3>1, DeletingServes
    <3>3. IsTodo(todo, l) /\ ~Idle
      BY <3>1, BusyDeleting
    <3>4. Leaving = {l}
      BY <3>3 DEF Leaving, IsTodo
    <3>5. rule_id_array[k] # e
      BY <3>2, <3>4 DEF Good, HandlesGood
    <3> QED
      BY <3>2, <3>5 DEF Good
  <2> QED
    BY <2>1, <2>2, <2>3 DEF NatInv
<1> QED
  BY <1>1, ServedIsFound

\* A rule that ipa_nat_add_ipv4_rule has returned a handle for is found by the
\* packets of its connection in both directions, and no other rule is, at each write
\* of every later addition and of every deletion but its own: for tables of every
\* size, whatever the hashes of the connections.
THEOREM RulesAreFound == Spec => []FoundFromBothSides
<1>1. Spec => []NatInv
  BY NatInvAlways
<1> QED
  BY <1>1, NatInvFinds, PTL

-----------------------------------------------------------------------------
(* ... and ChainsIntact.                                                   *)

LEMMA TodoNames ==
  ASSUME NEW s, NEW k, IsTodo(s, k)
  PROVE  \A n \in DOMAIN s : s[n].tbl \in TableNames
<1>1. PICK W : s \in Seq(W) /\ \A w \in W : w.tbl \in TableNames
  BY DEF IsTodo
<1> QED
  BY <1>1

LEMMA NatInvTypes ==
  NatInv => TypeOK /\ HandlesUsable
<1> SUFFICES ASSUME NatInv
             PROVE  TypeOK /\ HandlesUsable
  OBVIOUS
<1>1. CASE IsOrdered
  <2>1. /\ rules \in [Entries -> Rule] /\ index \in [Entries -> Index]
        /\ prev_index \in [ExpnEntries -> Link] /\ rule_id_array \in [Handles -> Link]
        /\ todo = <<>> /\ valid \in BOOLEAN /\ HandlesUsable
    BY <1>1 DEF IsOrdered, Idle, Good, RulesGood, IndexGood, HandlesGood, HandlesUsable, NatInv
  <2> QED
    BY <2>1 DEF TypeOK
<1>2. ASSUME NEW r, NEW x, NEW p, NEW x0, NEW k, IsTodo(todo, k),
             Good(r, x, p, rule_id_array), RulesServe(rules, r, x0), IndexServes(index, r, x0),
             prev_index \in [ExpnEntries -> Link]
      PROVE  TypeOK /\ HandlesUsable
  <2>1. \A n \in DOMAIN todo : todo[n].tbl \in TableNames
    BY <1>2, TodoNames
  <2>2. rule_id_array \in [Handles -> Link] /\ HandlesUsable
    BY <1>2 DEF Good, HandlesGood, HandlesUsable
  <2>3. rules \in [Entries -> Rule] /\ index \in [Entries -> Index] /\ valid \in BOOLEAN
    BY <1>2 DEF RulesServe, IndexServes, NatInv
  <2> QED
    BY <1>2, <2>1, <2>2, <2>3 DEF TypeOK, TableNames
<1>3. CASE IsAdding
  <2>1. PICK c, a, b, i, j, k, r, x, p, h : Adding(c, a, b, i, j, k, r, x, p, h)
    BY <1>3 DEF IsAdding
  <2>2. /\ Good(r, x, p, rule_id_array) /\ RulesServe(rules, r, 0) /\ IndexServes(index, r, 0)
        /\ prev_index \in [ExpnEntries -> Link]
    BY <2>1, AddingServes
  <2>3. IsTodo(todo, k)
    BY <2>1, BusyAdding
  <2> QED
    BY <1>2, <2>2, <2>3
<1>4. CASE IsDeleting
  <2>1. PICK e, i, k, r, x, p, h : Deleting(e, i, k, r, x, p, h)
    BY <1>4 DEF IsDeleting
  <2>2. /\ Good(r, x, p, rule_id_array) /\ RulesServe(rules, r, e) /\ IndexServes(index, r, e)
        /\ prev_index \in [ExpnEntries -> Link]
    BY <2>1, DeletingServes
  <2>3. IsTodo(todo, k)
    BY <2>1, BusyDeleting
  <2> QED
    BY <1>2, <2>2, <2>3
<1> QED
  BY <1>1, <1>3, <1>4 DEF NatInv

LEMMA GoodLeaksNothing ==
  Good(rules, index, prev_index, rule_id_array) => NothingLeaks
<1> SUFFICES ASSUME Good(rules, index, prev_index, rule_id_array)
             PROVE  NothingLeaks
  OBVIOUS
<1>1. /\ RulesGood(rules) /\ IndexGood(index, prev_index, rules)
      /\ rules \in [Entries -> Rule] /\ index \in [Entries -> Index]
      /\ Chained(NextIn(rules), PrevIn(rules), InUse(rules), RuleKeys(rules))
      /\ Chained(NextIn(index), prev_index, Indexed(index), IndexKeys(index, rules))
  BY DEF Good, RulesGood, IndexGood
<1>2. RuleNext = NextIn(rules) /\ IndexNext = NextIn(index)
  BY DEF RuleNext, IndexNext, NextIn
<1>3. ASSUME NEW e \in Entries, rules[e] # NoRule
      PROVE  /\ e \in Chain(RuleNext, Dst[rules[e].conn])
             /\ rules[e].dead => IsHead(RuleNext, e)
  <2>1. e \in InUse(rules)
    BY <1>1, <1>3 DEF RulesGood, InUse
  <2>2. e \in Chain(NextIn(rules), RuleKeys(rules)[e])
    BY <1>1, <2>1 DEF Chained
  <2>3. rules[e].dead => e < T /\ NextIn(rules)[e] # 0
    BY <1>1 DEF RulesGood, NextIn
  <2> QED
    BY <1>2, <2>2, <2>3 DEF RuleKeys, IsHead
<1>4. ASSUME NEW i \in Entries, index[i] # NoIndex
      PROVE  LET e == index[i].rule
             IN /\ e # 0 /\ Matches(e, rules[e].conn) /\ rules[e].indx = i
                /\ i \in Chain(IndexNext, Src[rules[e].conn])
  <2> DEFINE e == index[i].rule
  <2>1. e # 0
    <3> SUFFICES ASSUME e = 0
                 PROVE  FALSE
      OBVIOUS
    <3>1. i \notin Indexed(index)
      BY DEF Indexed
    <3>2. NextIn(index)[i] = 0
      BY <1>1, <3>1 DEF Chained
    <3>3. index[i].next = 0 /\ index[i] \in Index
      BY <1>1, <3>2 DEF NextIn
    <3> QED
      BY <1>4, <3>3 DEF Index, NoIndex
  <2>2. Live(rules, e) /\ rules[e].indx = i
    BY <1>1, <2>1 DEF IndexGood
  <2>3. i \in Indexed(index)
    BY <2>1 DEF Indexed
  <2>4. i \in Chain(NextIn(index), IndexKeys(index, rules)[i])
    BY <1>1, <2>3 DEF Chained
  <2> QED
    BY <1>2, <2>1, <2>2, <2>4 DEF Matches, Live, IndexKeys
<1> QED
  BY <1>3, <1>4 DEF NothingLeaks

LEMMA GoodLinksAgree ==
  Good(rules, index, prev_index, rule_id_array) => LinksAgree
<1> SUFFICES ASSUME Good(rules, index, prev_index, rule_id_array)
             PROVE  LinksAgree
  OBVIOUS
<1>1. /\ RulesGood(rules) /\ IndexGood(index, prev_index, rules)
      /\ rules \in [Entries -> Rule] /\ index \in [Entries -> Index]
      /\ Chained(NextIn(rules), PrevIn(rules), InUse(rules), RuleKeys(rules))
      /\ Chained(NextIn(index), prev_index, Indexed(index), IndexKeys(index, rules))
  BY DEF Good, RulesGood, IndexGood
<1>2. ASSUME NEW e \in Entries, rules[e].next # 0
      PROVE  rules[rules[e].next].prev = e
  <2>1. NextIn(rules)[e] = rules[e].next
    BY DEF NextIn
  <2>2. rules[e].next \in ExpnEntries /\ PrevIn(rules)[rules[e].next] = e
    BY <1>1, <1>2, <2>1 DEF Chained
  <2> QED
    BY <2>2, EntryKinds DEF PrevIn
<1>3. ASSUME NEW i \in Entries, index[i].next # 0
      PROVE  prev_index[index[i].next] = i
  <2>1. NextIn(index)[i] = index[i].next
    BY DEF NextIn
  <2> QED
    BY <1>1, <1>3, <2>1 DEF Chained
<1>4. ASSUME NEW k \in Handles, rule_id_array[k] # 0
      PROVE  index[rules[rule_id_array[k]].indx].rule = rule_id_array[k]
  <2>1. rule_id_array[k] \in Entries /\ Live(rules, rule_id_array[k])
    BY <1>4 DEF Good, HandlesGood, Link
  <2> QED
    BY <1>1, <2>1 DEF IndexGood
<1> QED
  BY <1>2, <1>3, <1>4 DEF LinksAgree

\* Between operations no entry of either table is lost from the chain the hardware
\* finds it by, the links that ipa_nat_del_ipv4_rule reads backwards are those forwards
\* turned round, and make_rule_hdl never gives the handle T + E, for which
\* parse_ipv4_rule_hdl would refuse the deletion.
THEOREM ChainsStayIntact == Spec => []ChainsIntact
<1>1. NatInv => ChainsIntact
  <2> SUFFICES ASSUME NatInv
               PROVE  ChainsIntact
    OBVIOUS
  <2>1. Idle => IsOrdered
    BY BusyAdding, BusyDeleting DEF NatInv, IsAdding, IsDeleting
  <2>2. NothingLeaks /\ LinksAgree
    <3>1. CASE Idle
      BY <2>1, <3>1, GoodLeaksNothing, GoodLinksAgree DEF IsOrdered
    <3>2. CASE ~Idle
      BY <3>2 DEF NothingLeaks, LinksAgree
    <3> QED
      BY <3>1, <3>2
  <2> QED
    BY <2>2, NatInvTypes DEF ChainsIntact
<1> QED
  BY <1>1, NatInvAlways, PTL

-----------------------------------------------------------------------------
(* The driver implements NatTable.                                         *)

Shown == [h \in Handles |-> IF Given(h) THEN rules[rule_id_array[h]].conn ELSE NoConn]

\* The table that rules s and handles h show.
TableOf(s, h) == [k \in Handles |-> IF h[k] # 0 /\ Live(s, h[k]) THEN s[h[k]].conn ELSE NoConn]

LEMMA ShownTable ==
  Shown = TableOf(rules, rule_id_array)
BY DEF Shown, TableOf, Given, Matches, Live

LEMMA ShownNext ==
  Shown' = TableOf(rules', rule_id_array')
BY DEF Shown, TableOf, Given, Matches, Live

\* The handle of a rule is no other's.
LEMMA HandleFacts ==
  ASSUME NEW h, NEW r, HandlesGood(h, r)
  PROVE  /\ \A k \in Handles : h[k] # 0 => h[k] \in Entries /\ Live(r, h[k])
         /\ \A k, l \in Handles : h[k] # 0 /\ h[k] = h[l] => k = l
BY DEF HandlesGood, Link

\* Rules that serve r show what r does.
LEMMA SameTable ==
  ASSUME NEW h, NEW r, NEW s, HandlesGood(h, r), RulesServe(s, r, 0)
  PROVE  TableOf(s, h) = TableOf(r, h)
<1>1. \A k \in Handles : h[k] # 0 => h[k] \in Entries /\ Live(r, h[k])
  BY HandleFacts
<1>2. \A k \in Handles : h[k] # 0 => Live(s, h[k]) /\ s[h[k]].conn = r[h[k]].conn
  BY <1>1 DEF RulesServe
<1> QED
  BY <1>1, <1>2 DEF TableOf

\* ... and but for the one they do not serve.
LEMMA TableBut ==
  ASSUME NEW h, NEW r, NEW s, NEW k \in Handles, NEW e, e = h[k], e # 0,
         HandlesGood(h, r), RulesServe(s, r, e)
  PROVE  /\ Live(s, e) /\ s[e].conn = r[e].conn => TableOf(s, h) = TableOf(r, h)
         /\ ~Live(s, e) => TableOf(s, h) = [TableOf(r, h) EXCEPT ![k] = NoConn]
<1>1. /\ \A l \in Handles : h[l] # 0 => h[l] \in Entries /\ Live(r, h[l])
      /\ \A l \in Handles : h[l] = e => l = k
  BY HandleFacts
<1>2. \A l \in Handles : h[l] # 0 /\ l # k =>
        Live(r, h[l]) /\ Live(s, h[l]) /\ s[h[l]].conn = r[h[l]].conn
  BY <1>1 DEF RulesServe
<1>3. ASSUME Live(s, e), s[e].conn = r[e].conn
      PROVE  TableOf(s, h) = TableOf(r, h)
  BY <1>1, <1>2, <1>3 DEF TableOf
<1>4. ASSUME ~Live(s, e)
      PROVE  TableOf(s, h) = [TableOf(r, h) EXCEPT ![k] = NoConn]
  BY <1>1, <1>2, <1>4 DEF TableOf
<1> QED
  BY <1>3, <1>4

\* u is t with connection c, which it did not have, at handle k, which was free.
ShowsAdded(t, u, k, c) ==
  /\ k \in Handles /\ c \in Conns
  /\ u = [t EXCEPT ![k] = c]
  /\ t[k] = NoConn /\ \A l \in Handles : t[l] # c

\* The last write of an addition shows the connection.
LEMMA TableAdded ==
  ASSUME NEW c, NEW a, NEW b, NEW i, NEW j, NEW k, NEW r, NEW x, NEW p, NEW h,
         AddOf(c, a, b, i, j, k, r, x, p, h)
  PROVE  ShowsAdded(TableOf(r, h), TableOf(RuleAdded(r, c, a, b, i), [h EXCEPT ![k] = a]), k, c)
<1> DEFINE s == RuleAdded(r, c, a, b, i)
           g == [h EXCEPT ![k] = a]
<1>1. /\ HandlesGood(h, r) /\ k \in Handles /\ h[k] = 0 /\ c \in Conns /\ c # NoConn
      /\ \A e \in Entries : Live(r, e) => r[e].conn # c
  BY HashAssumption DEF AddOf, Good, HashAssumption
<1>2. /\ RulesServe(s, r, 0) /\ a \in Entries /\ a # 0
      /\ Live(s, a) /\ s[a].conn = c
  BY AddedRulesServe, AddedRulesGood, PlacesOfAdded, EntryKinds
<1>3. /\ \A l \in Handles : h[l] # 0 => h[l] \in Entries /\ Live(r, h[l])
      /\ h \in [Handles -> Link]
  BY <1>1, HandleFacts DEF HandlesGood
<1>4. g[k] = a /\ \A l \in Handles : l # k => g[l] = h[l]
  BY <1>1, <1>3
<1> HIDE DEF s, g
<1>5. TableOf(s, h) = TableOf(r, h)
  BY <1>1, <1>2, SameTable
<1>6. TableOf(s, g) = [TableOf(s, h) EXCEPT ![k] = c]
  BY <1>1, <1>2, <1>4 DEF TableOf
<1>7. TableOf(r, h)[k] = NoConn /\ \A l \in Handles : TableOf(r, h)[l] # c
  BY <1>1, <1>3 DEF TableOf
<1>8. ShowsAdded(TableOf(r, h), TableOf(s, g), k, c)
  BY <1>1, <1>5, <1>6, <1>7 DEF ShowsAdded
<1> QED
  BY <1>8 DEF s, g

\* The rules at each write of a deletion.
DelRulesAt(n, e, i, r, x) ==
  IF n <= 3 THEN r
  ELSE IF n = 4 THEN RuleCut(r, e)
  ELSE IF n = 5 THEN RuleBackLinked(r, e)
  ELSE IF n <= 9 THEN RuleCleared(r, e)
  ELSE IF n = 10 THEN RuleMoved(r, x, e, i)
  ELSE Swept(RuleMoved(r, x, e, i))

\* The last write before which the rule matches: one in the base table is disabled
\* or marked dead, one in the expansion table is unlinked and then cleared.
LastMatch(e) == IF e < T THEN 3 ELSE 5

LEMMA TableDeleted ==
  ASSUME NEW e, NEW i, NEW k, NEW r, NEW x, NEW p, NEW h, DelOf(e, i, k, r, x, p, h),
         NEW n \in 1 .. 11
  PROVE  TableOf(DelRulesAt(n, e, i, r, x), h) =
           IF n <= LastMatch(e) THEN TableOf(r, h) ELSE [TableOf(r, h) EXCEPT ![k] = NoConn]
<1> DEFINE s == DelRulesAt(n, e, i, r, x)
<1>1. /\ RulesGood(r) /\ HandlesGood(h, r) /\ k \in Handles /\ e = h[k] /\ e # 0
      /\ e \in Entries /\ Live(r, e) /\ e \in InUse(r)
  BY DeletedRule DEF DelOf, Good
<1>2. RulesServe(s, r, e)
  BY <1>1, RulesServeThemselves, CutRulesServe, DeletedRules DEF DelRulesAt
<1>3. ASSUME n >= 6
      PROVE  ~Live(s, e)
  <2>1. Without(s, r, e)
    BY <1>3, DeletedRules DEF DelRulesAt
  <2> QED
    BY <1>1, <2>1 DEF Without
<1>4. CASE e < T
  <2>1. ~Live(RuleCut(r, e), e) /\ ~Live(RuleBackLinked(r, e), e)
    BY <1>1, <1>4, RowsOfCutHead
  <2>2. n <= 3 => s = r
    BY DEF DelRulesAt
  <2>3. n > 3 => ~Live(s, e)
    BY <1>3, <2>1 DEF DelRulesAt
  <2> HIDE DEF s
  <2>4. n <= 3 \/ n > 3
    OBVIOUS
  <2>5. LastMatch(e) = 3
    BY <1>4 DEF LastMatch
  <2> QED
    BY <1>1, <1>2, <2>2, <2>3, <2>4, <2>5, TableBut DEF s
<1>5. CASE e >= T
  <2>1. IsUnlinked(RuleCut(r, e), RuleBackLinked(r, e), RuleCleared(r, e), r, e,
                   r[e].prev, r[e].next)
    BY <1>1, <1>5, RowsOfUnlinkedRule
  <2>2. /\ Live(RuleCut(r, e), e) /\ RuleCut(r, e)[e].conn = r[e].conn
        /\ Live(RuleBackLinked(r, e), e) /\ RuleBackLinked(r, e)[e].conn = r[e].conn
    BY <1>1, <2>1 DEF IsUnlinked, Live
  <2>3. n <= 5 => Live(s, e) /\ s[e].conn = r[e].conn
    BY <1>1, <2>2 DEF DelRulesAt
  <2> HIDE DEF s
  <2>4. n <= 5 \/ n >= 6
    OBVIOUS
  <2>5. LastMatch(e) = 5
    BY <1>1, <1>5, EntryKinds, HashAssumption DEF LastMatch, HashAssumption
  <2>6. n <= 5 => TableOf(s, h) = TableOf(r, h)
    BY <1>1, <1>2, <2>3, TableBut
  <2>7. n >= 6 => TableOf(s, h) = [TableOf(r, h) EXCEPT ![k] = NoConn]
    BY <1>1, <1>2, <1>3, TableBut
  <2> QED
    BY <2>4, <2>5, <2>6, <2>7 DEF s
<1> QED
  BY <1>1, <1>4, <1>5, EntryKinds, HashAssumption DEF HashAssumption

\* What NatTable is told when an addition ends, ...
LEMMA AddingShows ==
  ASSUME IsAdding, Step
  PROVE  Shown' = Shown \/ \E k \in Handles, c \in Conns : Abstract!Add(k, c)
<1>1. PICK c, a, b, i, j, k, r, x, p, h : Adding(c, a, b, i, j, k, r, x, p, h)
  BY DEF IsAdding
<1>2. AddOf(c, a, b, i, j, k, r, x, p, h) /\ rule_id_array = h
  BY <1>1 DEF Adding
<1>3. PICK n \in 1 .. 6 : AddAt(n, c, a, b, i, j, k, r, x)
  BY <1>1 DEF Adding
<1>4. HandlesGood(h, r) /\ RulesGood(r)
  BY <1>2 DEF AddOf, Good
<1>5. \A s \in {r, RuleCopied(r, c, a, b, i), RuleLinked(r, c, a, b, i),
                RuleAdded(r, c, a, b, i)} : TableOf(s, h) = TableOf(r, h)
  BY <1>2, <1>4, AddedRulesServe, SameTable
<1>6. Shown = TableOf(rules, rule_id_array) /\ Shown' = TableOf(rules', rule_id_array')
  BY ShownTable, ShownNext
<1>7. Shown = TableOf(r, h)
  BY <1>2, <1>3, <1>5, <1>6 DEF AddAt
<1>8. AddGoes(c, a, b, i, j, k, r, x) \/ AddEnds(c, a, b, i, j, k, r, x)
  BY <1>2, <1>3, AddStep
<1>9. CASE AddGoes(c, a, b, i, j, k, r, x)
  <2>1. rules' \in {r, RuleCopied(r, c, a, b, i), RuleLinked(r, c, a, b, i),
                    RuleAdded(r, c, a, b, i)}
    BY <1>9 DEF AddGoes, AddAt
  <2>2. rule_id_array' = h
    BY <1>2, <1>9 DEF AddGoes
  <2> QED
    BY <1>5, <1>6, <1>7, <2>1, <2>2
<1>10. CASE AddEnds(c, a, b, i, j, k, r, x)
  <2> DEFINE t == TableOf(r, h)
             s == RuleAdded(r, c, a, b, i)
             g == [h EXCEPT ![k] = a]
  <2>0. AddOf(c, a, b, i, j, k, r, x, p, h)
    BY <1>2
  <2>1. ShowsAdded(t, TableOf(s, g), k, c)
    BY <2>0, TableAdded
  <2>2. rules' = s /\ rule_id_array' = g
    BY <1>2, <1>10 DEF AddEnds
  <2> HIDE DEF t, s, g
  <2>3. Shown = t /\ Shown' = TableOf(s, g)
    BY <1>6, <1>7, <2>2 DEF t
  <2>4. /\ Shown[k] = NoConn /\ k \in Handles /\ c \in Conns
        /\ \A l \in Handles : Shown[l] # c
        /\ Shown' = [Shown EXCEPT ![k] = c]
    BY <2>1, <2>3 DEF ShowsAdded
  <2>5. Abstract!Add(k, c)
    BY <2>4 DEF Abstract!Add, Shown
  <2> QED
    BY <2>4, <2>5
<1> QED
  BY <1>8, <1>9, <1>10

\* ... and when the rule of a deletion stops to match.
LEMMA DeletingShows ==
  ASSUME IsDeleting, Step
  PROVE  Shown' = Shown \/ \E k \in Handles : Abstract!Del(k)
<1>1. PICK e, i, k, r, x, p, h : Deleting(e, i, k, r, x, p, h)
  BY DEF IsDeleting
<1>2. DelOf(e, i, k, r, x, p, h) /\ rule_id_array = h
  BY <1>1 DEF Deleting
<1>3. PICK l \in 1 .. 11 : DelAt(l, e, i, k, r, x, p)
  BY <1>1 DEF Deleting
<1>4. PICK n \in 1 .. 11 : DelAt(n, e, i, k, r, x, p) /\ DelBusy(n, e, i, r, x)
  BY <1>3, DelSkips
<1>5. \/ n < 11 /\ DelGoes(n + 1, e, i, k, r, x, p)
      \/ n = 11 /\ DelEnds(k, e, i, r, x, p)
  BY <1>2, <1>4, DelStep
<1>6. Shown = TableOf(rules, rule_id_array) /\ Shown' = TableOf(rules', rule_id_array')
  BY ShownTable, ShownNext
<1> DEFINE t == TableOf(r, h)
           u == [t EXCEPT ![k] = NoConn]
<1>7. \A m \in 1 .. 11 : TableOf(DelRulesAt(m, e, i, r, x), h)
                           = IF m <= LastMatch(e) THEN t ELSE u
  BY <1>2, TableDeleted
<1>8. rules = DelRulesAt(n, e, i, r, x)
  BY <1>4 DEF DelAt, DelRulesAt
<1>9. Shown = IF n <= LastMatch(e) THEN t ELSE u
  BY <1>2, <1>6, <1>7, <1>8
<1>10. /\ HandlesGood(h, r) /\ k \in Handles /\ h[k] = e /\ e # 0
       /\ h \in [Handles -> Link]
  BY <1>2 DEF DelOf, Good, HandlesGood
<1>11. t[k] # NoConn
  <2>1. e \in Entries /\ Live(r, e) /\ r[e].conn \in Conns
    <3>1. e \in Entries /\ Live(r, e)
      BY <1>2, DeletedRule
    <3>2. RulesGood(r)
      BY <1>2 DEF DelOf, Good
    <3> QED
      BY <3>1, <3>2, LiveRule
  <2> QED
    BY <1>10, <2>1, HashAssumption DEF TableOf, HashAssumption
<1>12. CASE n < 11 /\ DelGoes(n + 1, e, i, k, r, x, p)
  <2>1. rules' = DelRulesAt(n + 1, e, i, r, x)
    BY <1>12 DEF DelGoes, DelAt, DelRulesAt
  <2>2. rule_id_array' = h /\ n + 1 \in 1 .. 11
    BY <1>2, <1>12 DEF DelGoes
  <2>3. Shown' = IF n + 1 <= LastMatch(e) THEN t ELSE u
    BY <1>6, <1>7, <2>1, <2>2
  <2>4. n + 1 <= LastMatch(e) => n <= LastMatch(e)
    BY DEF LastMatch
  <2> HIDE DEF t
  <2>5. Shown' = Shown \/ (Shown = t /\ Shown' = u)
    BY <1>9, <2>3, <2>4
  <2>6. ASSUME Shown = t, Shown' = u
        PROVE  Abstract!Del(k)
    BY <1>11, <2>6 DEF Abstract!Del, Shown
  <2> QED
    BY <1>10, <2>5, <2>6
<1>13. CASE n = 11 /\ DelEnds(k, e, i, r, x, p)
  <2> DEFINE s == DelRulesAt(11, e, i, r, x)
             g == [h EXCEPT ![k] = 0]
  <2>1. Shown = u
    BY <1>9, <1>13 DEF LastMatch
  <2>2. rules' = rules /\ rules = s /\ rule_id_array' = g
    BY <1>2, <1>8, <1>13 DEF DelEnds
  <2>3. g[k] = 0 /\ \A m \in Handles : m # k => g[m] = h[m]
    BY <1>10
  <2>4. TableOf(s, h) = u
    BY <1>2, <1>6, <2>1, <2>2
  <2>5. TableOf(s, h)[k] = NoConn
    BY <1>10, <2>4 DEF TableOf
  <2> HIDE DEF s, g
  <2>6. TableOf(s, g) = TableOf(s, h)
    BY <1>10, <2>3, <2>5 DEF TableOf
  <2> QED
    BY <1>6, <2>1, <2>2, <2>4, <2>6
<1> QED
  BY <1>5, <1>12, <1>13

\* ipa_nat_drvi.c implements the table that ipa_nat_drv.c promises, for tables of every
\* size: a rule that ipa_nat_add_ipv4_rule adds appears whole, at the write of its
\* handle, under a handle nobody has and for a connection that had none; one that
\* ipa_nat_del_ipv4_rule deletes is gone at one write, and no other write of either
\* shows.
THEOREM DriverImplementsTable == Spec => ImplementsNatTable
<1>1. Init => Abstract!Init
  <2>1. ASSUME Init
        PROVE  \A k \in Handles : rule_id_array[k] = 0
    BY <2>1 DEF Init, IsEmptyTable
  <2> QED
    BY <2>1 DEF Abstract!Init, Abstract!Empty, Given
<1>2. NatInv /\ [Next]_vars => [Abstract!Next]_Shown
  <2> SUFFICES ASSUME NatInv, [Next]_vars
               PROVE  Shown' = Shown \/ Abstract!Next
    OBVIOUS
  <2>1. ASSUME \A k \in Handles : rule_id_array'[k] = 0
        PROVE  Abstract!Next
    <3>1. Shown' = Abstract!Empty
      BY <2>1 DEF Shown, Given, Abstract!Empty
    <3> QED
      BY <3>1 DEF Abstract!Next, Abstract!Clear, Shown
  <2>2. CASE AddTable \/ DelTable
    BY <2>1, <2>2 DEF AddTable, DelTable, IsEmptyTable
  <2>3. ASSUME UNCHANGED <<rules, rule_id_array>>
        PROVE  Shown' = Shown
    BY <2>3 DEF Shown, Given, Matches
  <2>4. CASE \E c \in Conns : AddRule(c)
    BY <2>3, <2>4 DEF AddRule
  <2>5. CASE \E k \in Handles : DelRule(k)
    BY <2>3, <2>5 DEF DelRule
  <2>6. CASE UNCHANGED vars
    BY <2>3, <2>6 DEF vars
  <2>7. CASE Step
    <3>1. ~Idle
      BY <2>7 DEF Step, WriteRule, WriteIndex, WritePrevIndex, WriteHandle, SweepDeadHeads,
         NextWrite
    <3>2. CASE IsAdding
      BY <2>7, <3>2, AddingShows DEF Abstract!Next
    <3>3. CASE IsDeleting
      BY <2>7, <3>3, DeletingShows DEF Abstract!Next
    <3> QED
      BY <3>1, <3>2, <3>3 DEF NatInv, IsOrdered
  <2> QED
    BY <2>2, <2>4, <2>5, <2>6, <2>7 DEF Next
<1> QED
  BY <1>1, <1>2, NatInvAlways, PTL DEF Spec, ImplementsNatTable, Abstract!Spec, Shown
=============================================================================
