-------------------------- MODULE Authoring_proofs --------------------------
(***************************************************************************)
(* Proofs about the graphs of MS14 as users edit them, for any nodes, any  *)
(* rules and any requests at once: the structure stays whole, and every    *)
(* rule of it can fire when MS15 runs it; and about the links of their     *)
(* nodes to the agents of MS4.  The scenes of MCAuthoring play both.       *)
(***************************************************************************)
EXTENDS MCAuthoring, FiniteSetTheorems, TLAPS

-----------------------------------------------------------------------------
(* Repeating a step.                                                       *)

\* A set that has 0, and the successor of each natural it has, has all naturals: an infinite
\* descent would go down through the intervals from 0, which are finite sets.
LEMMA NatSetInduction ==
    ASSUME NEW S, 0 \in S, \A n \in Nat : n \in S => n + 1 \in S
    PROVE  Nat \subseteq S
<1> DEFINE T == Nat \ S
           Q == {0..k : k \in T}
<1>1. SUFFICES ASSUME T # {} PROVE FALSE
  OBVIOUS
<1>2. Q \subseteq FiniteSubsetsOf(Nat)
  <2>1. ASSUME NEW k \in T PROVE 0..k \in SUBSET Nat /\ IsFiniteSet(0..k)
    BY FS_Interval
  <2>2. QED BY <2>1 DEF FiniteSubsetsOf
<1>3. Q # {} BY <1>1
<1>4. PICK x \in Q : \A y \in Q : <<y, x>> \notin StrictSubsetOrdering(Nat)
  <2> HIDE DEF Q
  <2>1. IsWellFoundedOn(StrictSubsetOrdering(Nat), FiniteSubsetsOf(Nat))
    BY FS_StrictSubsetOrderingWellFounded
  <2> QED BY <1>2, <1>3, <2>1, WFMin
<1>5. PICK m \in T : x = 0..m OBVIOUS
<1>6. m # 0 /\ m - 1 \in T OBVIOUS
<1>7. 0..(m-1) \in Q BY <1>6
<1>8. <<0..(m-1), 0..m>> \in StrictSubsetOrdering(Nat)
  <2>1. 0..(m-1) \in SUBSET Nat /\ 0..m \in SUBSET Nat OBVIOUS
  <2>2. 0..(m-1) \subseteq 0..m  OBVIOUS
  <2>3. m \in 0..m /\ m \notin 0..(m-1) OBVIOUS
  <2> QED BY <2>1, <2>2, <2>3 DEF StrictSubsetOrdering
<1> QED BY <1>4, <1>5, <1>7, <1>8

\* A function of the naturals exists that repeats the step G from a.
LEMMA Iteration ==
    ASSUME NEW D, NEW a \in D, NEW G \in [D -> D]
    PROVE  \E f \in [Nat -> D] : f[0] = a /\ \A k \in Nat : f[k + 1] = G[f[k]]
<1> DEFINE Good(n, h) == h \in [0..n -> D] /\ h[0] = a /\ \A k \in 0..(n-1) : h[k + 1] = G[h[k]]
           S == {n \in Nat : \E h \in [0..n -> D] : Good(n, h)}
           U == {n \in Nat : \A g, h : Good(n, g) /\ Good(n, h) => g = h}
<1>1. 0 \in S
  <2>1. Good(0, [k \in 0..0 |-> a]) /\ [k \in 0..0 |-> a] \in [0..0 -> D]
    OBVIOUS
  <2> QED BY <2>1
<1>2. ASSUME NEW n \in Nat, n \in S PROVE n + 1 \in S
  <2>1. PICK h : Good(n, h)
    BY <1>2
  <2> DEFINE g == [k \in 0..(n+1) |-> IF k = n + 1 THEN G[h[n]] ELSE h[k]]
  <2>2. h \in [0..n -> D] /\ h[0] = a /\ \A k \in 0..(n-1) : h[k + 1] = G[h[k]]
    BY <2>1
  <2>3. g \in [0..(n+1) -> D]
    BY <2>2
  <2>4. g[0] = a
    BY <2>2
  <2>5. \A k \in 0..n : g[k+1] = G[g[k]]
    BY <2>2
  <2>6. Good(n+1, g)
    BY <2>3, <2>4, <2>5
  <2> HIDE DEF g
  <2> QED BY <2>3, <2>6
<1>3. Nat \subseteq S
  <2> HIDE DEF S
  <2> QED BY <1>1, <1>2, NatSetInduction
<1> DEFINE h == [n \in Nat |-> CHOOSE h \in [0..n -> D] : Good(n, h)]
           f == [n \in Nat |-> h[n][n]]
<1>4. \A n \in Nat : Good(n, h[n])
  BY <1>3
<1>5. ASSUME NEW n \in Nat PROVE \A k \in 0..n : h[n][k] = h[n+1][k]
  <2> DEFINE K == {k \in Nat : k <= n => h[n][k] = h[n+1][k]}
  <2> HIDE DEF h
  <2>0. Good(n, h[n]) /\ Good(n+1, h[n+1])
    BY <1>4
  <2>1. 0 \in K
    BY <2>0
  <2>2. ASSUME NEW k \in Nat, k \in K PROVE k+1 \in K
    BY <2>0, <2>2
  <2>3. Nat \subseteq K
    <3> HIDE DEF K
    <3> QED BY <2>1, <2>2, NatSetInduction
  <2> QED BY <2>3
<1>6. f \in [Nat -> D]
  <2> HIDE DEF h
  <2> QED BY <1>4
<1>7. f[0] = a
  <2> HIDE DEF h
  <2> QED BY <1>4
<1>8. \A k \in Nat : f[k+1] = G[f[k]]
  <2> SUFFICES ASSUME NEW k \in Nat PROVE f[k+1] = G[f[k]]
    OBVIOUS
  <2> HIDE DEF h
  <2>1. h[k+1][k+1] = G[h[k+1][k]]
    BY <1>4
  <2>2. h[k+1][k] = h[k][k]
    BY <1>5
  <2> QED BY <2>1, <2>2
<1> HIDE DEF f
<1> QED BY <1>6, <1>7, <1>8

\* A chain of subsets of a finite set that stops growing once it has not grown is done after
\* as many steps as the set has elements.
LEMMA ChainStops ==
    ASSUME NEW T, IsFiniteSet(T), NEW f \in [Nat -> SUBSET T],
           \A k \in Nat : f[k] \subseteq f[k + 1],
           \A k \in Nat : f[k + 1] = f[k] => f[k + 2] = f[k + 1]
    PROVE  f[Cardinality(T) + 1] = f[Cardinality(T)]
<1> DEFINE K == {k \in Nat : f[k + 1] = f[k] \/ Cardinality(f[k]) >= k}
<1>0. ASSUME NEW X \in SUBSET T
      PROVE  /\ IsFiniteSet(X) /\ Cardinality(X) \in Nat
             /\ \A Y \in SUBSET X : Cardinality(Y) = Cardinality(X) => Y = X
             /\ \A Y \in SUBSET X : Cardinality(Y) \in Nat /\ Cardinality(Y) <= Cardinality(X)
  BY FS_Subset, FS_CardinalityType
<1>1. 0 \in K
  BY <1>0
<1>2. ASSUME NEW k \in Nat, k \in K PROVE k + 1 \in K
  <2>1. CASE f[k + 1] = f[k]
    BY <2>1
  <2>2. CASE f[k + 1] # f[k] /\ Cardinality(f[k]) >= k
    <3>1. f[k] \in SUBSET f[k + 1] /\ f[k + 1] \in SUBSET T
      OBVIOUS
    <3> QED BY <1>0, <2>2, <3>1
  <2> QED BY <1>2, <2>1, <2>2
<1>3. Nat \subseteq K
  <2> HIDE DEF K
  <2> QED BY <1>1, <1>2, NatSetInduction
<1> DEFINE n == Cardinality(T)
<1>4. n \in Nat
  BY FS_CardinalityType
<1>5. CASE Cardinality(f[n]) >= n
  <2>1. f[n] = T
    BY <1>0, <1>4, <1>5
  <2>2. f[n + 1] \subseteq T /\ f[n] \subseteq f[n + 1]
    BY <1>4
  <2> QED BY <2>1, <2>2
<1> QED BY <1>3, <1>4, <1>5

\* From a, f goes on as the step G says, which only adds.
Climbs(T, a, G, f) ==
    /\ IsFiniteSet(T) /\ a \in SUBSET T
    /\ G \in [SUBSET T -> SUBSET T] /\ \A X \in SUBSET T : X \subseteq G[X]
    /\ f \in [Nat -> SUBSET T] /\ f[0] = a /\ \A k \in Nat : f[k + 1] = G[f[k]]

\* So what it comes to is closed under the step, and it is the least such set.
LEMMA Closure ==
    ASSUME NEW T, NEW a, NEW G, NEW f, Climbs(T, a, G, f), NEW R, R = f[Cardinality(T)]
    PROVE  /\ a \subseteq R /\ R \in SUBSET T
           /\ G[R] = R
           /\ \A X : a \subseteq X /\ (\A Y \in SUBSET T : Y \subseteq X => G[Y] \subseteq X) => R \subseteq X
<1> USE DEF Climbs
<1> DEFINE n == Cardinality(T)
<1>1. n \in Nat
  BY FS_CardinalityType
<1>2. f[n + 1] = f[n]
  BY ChainStops
<1>3. a \subseteq f[n]
  <2> DEFINE K == {k \in Nat : a \subseteq f[k]}
  <2>1. 0 \in K /\ \A k \in Nat : k \in K => k + 1 \in K
    OBVIOUS
  <2>2. Nat \subseteq K
    <3> HIDE DEF K
    <3> QED BY <2>1, NatSetInduction
  <2> QED BY <1>1, <2>2
<1>4. ASSUME NEW X, a \subseteq X, \A Y \in SUBSET T : Y \subseteq X => G[Y] \subseteq X
      PROVE  f[n] \subseteq X
  <2> DEFINE K == {k \in Nat : f[k] \subseteq X}
  <2>1. 0 \in K /\ \A k \in Nat : k \in K => k + 1 \in K
    BY <1>4
  <2>2. Nat \subseteq K
    <3> HIDE DEF K
    <3> QED BY <2>1, NatSetInduction
  <2> QED BY <1>1, <2>2
<1> QED BY <1>1, <1>2, <1>3, <1>4

-----------------------------------------------------------------------------
(* What the recursive definitions of the models come to.                   *)

\* X with what one edge of E leads to.
Succ(E, X) == X \cup {e[2] : e \in {e \in E : e[1] \in X}}

\* Reach(E, n) is what can be reached: the least set that has n and follows the edges.
LEMMA ReachFacts ==
    ASSUME NEW E \in SUBSET Edge, NEW n \in GNodes
    PROVE  /\ n \in Reach(E, n) /\ Reach(E, n) \subseteq GNodes
           /\ \A e \in E : e[1] \in Reach(E, n) => e[2] \in Reach(E, n)
           /\ \A X : n \in X /\ (\A e \in E : e[1] \in X => e[2] \in X) => Reach(E, n) \subseteq X
<1> DEFINE within[k \in Nat] ==
              IF k = 0 THEN {n}
              ELSE LET near == within[k - 1] IN near \cup {e[2] : e \in {e \in E : e[1] \in near}}
           D == SUBSET GNodes
           G == [X \in D |-> Succ(E, X)]
<1>1. Reach(E, n) = within[Cardinality(GNodes)]
  BY DEF Reach
<1>2. G \in [D -> D] /\ (\A X \in D : X \subseteq G[X]) /\ {n} \in D
  BY DEF Succ, Edge
<1>4. within = [k \in Nat |-> IF k = 0 THEN {n} ELSE Succ(E, within[k - 1])]
  <2>1. PICK f \in [Nat -> D] : f[0] = {n} /\ \A k \in Nat : f[k + 1] = G[f[k]]
    <3> HIDE DEF G, D
    <3> QED BY <1>2, Iteration
  <2>2. f = [k \in Nat |-> IF k = 0 THEN {n}
              ELSE LET near == f[k - 1] IN near \cup {e[2] : e \in {e \in E : e[1] \in near}}]
    <3>1. ASSUME NEW k \in Nat, k # 0
          PROVE  f[k] = f[k - 1] \cup {e[2] : e \in {e \in E : e[1] \in f[k - 1]}}
      <4>1. k - 1 \in Nat /\ f[k - 1] \in D /\ f[(k - 1) + 1] = f[k]
        BY <3>1
      <4> QED BY <2>1, <4>1 DEF Succ
    <3> QED BY <2>1, <3>1
  <2> QED BY <2>2 DEF Succ
<1> HIDE DEF within
<1>5. within[0] = {n}
  BY <1>4
<1>6. ASSUME NEW k \in Nat PROVE within[k + 1] = Succ(E, within[k])
  <2>1. k + 1 \in Nat /\ k + 1 # 0 /\ (k + 1) - 1 = k
    OBVIOUS
  <2>2. within[k + 1] = IF k + 1 = 0 THEN {n} ELSE Succ(E, within[(k + 1) - 1])
    BY <1>4, <2>1, Zenon
  <2> QED BY <2>1, <2>2
<1>7. within \in [Nat -> D]
  <2> DEFINE K == {k \in Nat : within[k] \in D}
  <2>1. 0 \in K /\ \A k \in Nat : k \in K => k + 1 \in K
    BY <1>5, <1>6 DEF Succ, Edge
  <2>2. Nat \subseteq K
    <3> HIDE DEF K
    <3> QED BY <2>1, NatSetInduction
  <2> QED BY <1>4, <2>2
<1>8. Climbs(GNodes, {n}, G, within)
  <2>1. \A k \in Nat : within[k + 1] = G[within[k]]
    BY <1>6, <1>7
  <2> HIDE DEF G
  <2> QED BY <1>2, <1>5, <1>7, <2>1, AuthoringAssumption DEF Climbs
<1> DEFINE R == Reach(E, n)
<1>9. /\ {n} \subseteq R /\ R \in SUBSET GNodes
      /\ G[R] = R
      /\ \A X : {n} \subseteq X /\ (\A Y \in SUBSET GNodes : Y \subseteq X => G[Y] \subseteq X) => R \subseteq X
  <2> HIDE DEF G, R
  <2>1. R = within[Cardinality(GNodes)]
    BY <1>1 DEF R
  <2> QED BY <1>8, <2>1, Closure
<1> QED BY <1>9 DEF Succ

\* The rules with their consumers.
Grown(rs) == rs \cup Consumers(Generated(rs))

\* WithDownstream(rs) has rs, and the consumers of what its rules produce.
LEMMA DownstreamFacts ==
    ASSUME NEW rs \in SUBSET Rules
    PROVE  /\ rs \subseteq WithDownstream(rs) /\ WithDownstream(rs) \subseteq Rules
           /\ Consumers(Generated(WithDownstream(rs))) \subseteq WithDownstream(rs)
<1> DEFINE within[k \in Nat] ==
              IF k = 0 THEN rs
              ELSE LET near == within[k - 1] IN near \cup Consumers(Generated(near))
           D == SUBSET Rules
           G == [X \in D |-> Grown(X)]
<1>1. WithDownstream(rs) = within[Cardinality(Rules)]
  BY DEF WithDownstream
<1>2. G \in [D -> D] /\ (\A X \in D : X \subseteq G[X]) /\ rs \in D
  BY DEF Grown, Consumers
<1>4. within = [k \in Nat |-> IF k = 0 THEN rs ELSE Grown(within[k - 1])]
  <2>1. PICK f \in [Nat -> D] : f[0] = rs /\ \A k \in Nat : f[k + 1] = G[f[k]]
    <3> HIDE DEF G, D
    <3> QED BY <1>2, Iteration
  <2>2. f = [k \in Nat |-> IF k = 0 THEN rs
              ELSE LET near == f[k - 1] IN near \cup Consumers(Generated(near))]
    <3>1. ASSUME NEW k \in Nat, k # 0
          PROVE  f[k] = f[k - 1] \cup Consumers(Generated(f[k - 1]))
      <4>1. k - 1 \in Nat /\ f[k - 1] \in D /\ f[(k - 1) + 1] = f[k]
        BY <3>1
      <4> QED BY <2>1, <4>1 DEF Grown
    <3> QED BY <2>1, <3>1
  <2> QED BY <2>2 DEF Grown
<1> HIDE DEF within
<1>5. within[0] = rs
  BY <1>4
<1>6. ASSUME NEW k \in Nat PROVE within[k + 1] = Grown(within[k])
  <2>1. k + 1 \in Nat /\ k + 1 # 0 /\ (k + 1) - 1 = k
    OBVIOUS
  <2>2. within[k + 1] = IF k + 1 = 0 THEN rs ELSE Grown(within[(k + 1) - 1])
    BY <1>4, <2>1, Zenon
  <2> QED BY <2>1, <2>2
<1>7. within \in [Nat -> D]
  <2> DEFINE K == {k \in Nat : within[k] \in D}
  <2>1. 0 \in K /\ \A k \in Nat : k \in K => k + 1 \in K
    BY <1>5, <1>6 DEF Grown, Consumers
  <2>2. Nat \subseteq K
    <3> HIDE DEF K
    <3> QED BY <2>1, NatSetInduction
  <2> QED BY <1>4, <2>2
<1>8. Climbs(Rules, rs, G, within)
  <2>1. \A k \in Nat : within[k + 1] = G[within[k]]
    BY <1>6, <1>7
  <2> HIDE DEF G
  <2> QED BY <1>2, <1>5, <1>7, <2>1, AuthoringAssumption DEF Climbs
<1> DEFINE R == WithDownstream(rs)
<1>9. rs \subseteq R /\ R \in SUBSET Rules /\ G[R] = R
  <2> HIDE DEF G, R
  <2>1. R = within[Cardinality(Rules)]
    BY <1>1 DEF R
  <2> QED BY <1>8, <2>1, Closure
<1> QED BY <1>9 DEF Grown

\* The rules that have what they wait for when those of rs have fired.
Fires(snapshot, rs) ==
    {r \in DOMAIN snapshot.rules :
        /\ snapshot.rules[r].inputs # {}
        /\ snapshot.rules[r].placeholders \subseteq
               SeedProjections(snapshot) \cup UNION {Route(snapshot, q) : q \in rs}}

\* What fires is closed: a rule whose placeholders are filled by what fires, fires.
LEMMA FiringFacts ==
    ASSUME NEW snapshot, IsFiniteSet(DOMAIN snapshot.rules)
    PROVE  Fires(snapshot, Firing(snapshot)) = Firing(snapshot)
<1> DEFINE Filled(rs) == SeedProjections(snapshot) \cup UNION {Route(snapshot, r) : r \in rs}
           round[k \in Nat] ==
              IF k = 0 THEN {}
              ELSE {r \in DOMAIN snapshot.rules :
                       /\ snapshot.rules[r].inputs # {}
                       /\ snapshot.rules[r].placeholders \subseteq Filled(round[k - 1])}
           T == DOMAIN snapshot.rules
           D == SUBSET T
           G == [X \in D |-> Fires(snapshot, X)]
<1>1. Firing(snapshot) = round[Cardinality(T)]
  BY DEF Firing
<1>2. G \in [D -> D] /\ {} \in D
  BY DEF Fires
<1>4. round = [k \in Nat |-> IF k = 0 THEN {} ELSE Fires(snapshot, round[k - 1])]
  <2>1. PICK f \in [Nat -> D] : f[0] = {} /\ \A k \in Nat : f[k + 1] = G[f[k]]
    <3> HIDE DEF G, D
    <3> QED BY <1>2, Iteration
  <2>2. f = [k \in Nat |-> IF k = 0 THEN {}
              ELSE {r \in DOMAIN snapshot.rules :
                       /\ snapshot.rules[r].inputs # {}
                       /\ snapshot.rules[r].placeholders \subseteq Filled(f[k - 1])}]
    <3>1. ASSUME NEW k \in Nat, k # 0
          PROVE  f[k] = {r \in DOMAIN snapshot.rules :
                            /\ snapshot.rules[r].inputs # {}
                            /\ snapshot.rules[r].placeholders \subseteq Filled(f[k - 1])}
      <4>1. k - 1 \in Nat /\ f[k - 1] \in D /\ f[(k - 1) + 1] = f[k]
        BY <3>1
      <4> QED BY <2>1, <4>1 DEF Fires
    <3> QED BY <2>1, <3>1
  <2> QED BY <2>2 DEF Fires
<1> HIDE DEF round
<1>5. round[0] = {}
  BY <1>4
<1>6. ASSUME NEW k \in Nat PROVE round[k + 1] = Fires(snapshot, round[k])
  <2>1. k + 1 \in Nat /\ k + 1 # 0 /\ (k + 1) - 1 = k
    OBVIOUS
  <2>2. round[k + 1] = IF k + 1 = 0 THEN {} ELSE Fires(snapshot, round[(k + 1) - 1])
    BY <1>4, <2>1, Zenon
  <2> QED BY <2>1, <2>2
<1>7. round \in [Nat -> SUBSET T]
  <2> DEFINE K == {k \in Nat : round[k] \in SUBSET T}
  <2>1. 0 \in K /\ \A k \in Nat : k \in K => k + 1 \in K
    BY <1>5, <1>6 DEF Fires
  <2>2. Nat \subseteq K
    <3> HIDE DEF K
    <3> QED BY <2>1, NatSetInduction
  <2> QED BY <1>4, <2>2
<1>8. \A k \in Nat : round[k] \subseteq round[k + 1]
  <2> DEFINE K == {k \in Nat : round[k] \subseteq round[k + 1]}
  <2>1. 0 \in K
    BY <1>5
  <2>2. ASSUME NEW k \in Nat, k \in K PROVE k + 1 \in K
    <3>1. round[k + 1] = Fires(snapshot, round[k]) /\ round[(k + 1) + 1] = Fires(snapshot, round[k + 1])
      BY <1>6
    <3>2. Fires(snapshot, round[k]) \subseteq Fires(snapshot, round[k + 1])
      BY <2>2 DEF Fires
    <3> QED BY <3>1, <3>2
  <2>3. Nat \subseteq K
    <3> HIDE DEF K
    <3> QED BY <2>1, <2>2, NatSetInduction
  <2> QED BY <2>3
<1>9. ASSUME NEW k \in Nat, round[k + 1] = round[k] PROVE round[k + 2] = round[k + 1]
  <2>1. round[(k + 1) + 1] = Fires(snapshot, round[k + 1]) /\ (k + 1) + 1 = k + 2
    BY <1>6
  <2> QED BY <1>6, <1>9, <2>1
<1>10. round[Cardinality(T) + 1] = round[Cardinality(T)] /\ Cardinality(T) \in Nat
  <2> HIDE DEF T
  <2>1. IsFiniteSet(T)
    BY DEF T
  <2> QED BY <1>7, <1>8, <1>9, <2>1, ChainStops, FS_CardinalityType
<1> HIDE DEF T
<1> QED BY <1>1, <1>6, <1>10

-----------------------------------------------------------------------------
(* The structure.                                                          *)

\* Searching along fewer edges reaches less.
LEMMA ReachMono ==
    ASSUME NEW E \in SUBSET Edge, NEW F \in SUBSET E, NEW n \in GNodes
    PROVE  Reach(F, n) \subseteq Reach(E, n)
  BY ReachFacts

\* No edge leads back to where it comes from.
Acyclic(E) == \A e \in E : e[1] \notin Reach(E, e[2])

\* Without some of its edges an acyclic graph stays acyclic.
LEMMA AcyclicMono == ASSUME NEW E \in SUBSET Edge, NEW F \in SUBSET E, Acyclic(E) PROVE Acyclic(F)
  BY ReachMono DEF Acyclic, Edge

\* An edge is added whose source is not reached from its destination.
LEMMA AcyclicAdd ==
    ASSUME NEW E \in SUBSET Edge, Acyclic(E), NEW s \in GNodes, NEW d \in GNodes, s \notin Reach(E, d)
    PROVE  Acyclic(E \cup {<<s, d>>})
<1> DEFINE F == E \cup {<<s, d>>}
           B == Reach(E, d)
<1>0. F \in SUBSET Edge
  BY DEF Edge
<1>1. d \in B /\ B \subseteq GNodes /\ \A e \in E : e[1] \in B => e[2] \in B
  BY ReachFacts
<1>2. s \notin Reach(F, d)
  <2>1. \A e \in F : e[1] \in B => e[2] \in B
    BY <1>1
  <2>2. Reach(F, d) \subseteq B
    <3> HIDE DEF B, F
    <3> QED BY <1>0, <1>1, <2>1, ReachFacts
  <2> QED BY <2>2
<1>3. ASSUME NEW u \in GNodes, NEW v \in GNodes, <<u, v>> \in E PROVE u \notin Reach(F, v)
  <2> DEFINE A == Reach(E, v)
             C == IF s \in A THEN A \cup B ELSE A
  <2>1. v \in A /\ A \subseteq GNodes /\ \A g \in E : g[1] \in A => g[2] \in A
    BY ReachFacts
  <2>2. u \notin A
    BY <1>3 DEF Acyclic
  <2>3. \A g \in F : g[1] \in C => g[2] \in C
    BY <1>1, <2>1
  <2>4. Reach(F, v) \subseteq C
    <3> HIDE DEF C, F
    <3>1. v \in C
      BY <2>1 DEF C
    <3> QED BY <1>0, <2>3, <3>1, ReachFacts
  <2>5. CASE u \in C
    <3>1. s \in A /\ u \in B
      BY <2>2, <2>5
    <3>2. v \in B
      BY <1>1, <1>3, <3>1
    <3>3. A \subseteq B
      <4> HIDE DEF B
      <4> QED BY <1>1, <3>2, ReachFacts
    <3> QED BY <3>1, <3>3
  <2> QED BY <2>4, <2>5
<1>4. ASSUME NEW e \in F PROVE e[1] \notin Reach(F, e[2])
  <2>1. CASE e \in E
    <3>1. e[1] \in GNodes /\ e[2] \in GNodes /\ e = <<e[1], e[2]>>
      BY <2>1 DEF Edge
    <3> QED BY <1>3, <2>1, <3>1
  <2>2. CASE e = <<s, d>>
    BY <1>2, <2>2
  <2> QED BY <2>1, <2>2
<1> QED BY <1>4 DEF Acyclic

-----------------------------------------------------------------------------
(* The invariant of a graph under edit.                                    *)

SearchRow == [step: {"idle", "found"}, edge: (GNodes \cup {NoGNode}) \X (GNodes \cup {NoGNode}),
           type: {"none", "forward", "feedback"}]

GraphTyped ==
    /\ gnodes \in [GNodes -> GNode]
    /\ forward \subseteq Edge /\ feedback \subseteq Edge
    /\ projections \subseteq Projection
RulesTyped == rules \in [Rules -> RuleRow] /\ \A r \in Rules : rules[r].inputs \subseteq projections
SearchTyped ==
    /\ search \in [Creators -> SearchRow]
    /\ \A c \in Creators : search[c].step = "found" => search[c].edge \in Edge
HistoryTyped ==
    /\ removals \in 0..MaxRemovals /\ patches \in 0..MaxPatches
    /\ raced \in BOOLEAN
    /\ rewired \subseteq Rules /\ cut \subseteq Rules /\ seedless \subseteq GNodes
Typed == GraphTyped /\ RulesTyped /\ SearchTyped /\ HistoryTyped

\* Edges lead from nodes that are there to nodes that are there; so do outputs, along an edge;
\* a projection has the rule that made it, at the source of its buffer.
Anchored ==
    /\ \A e \in Edges : {e[1], e[2]} \subseteq Present
    /\ \A r \in Defined :
        /\ rules[r].owner \in Present
        /\ rules[r].placeholders # {}
        /\ \A d \in rules[r].outputs : <<rules[r].owner, d>> \in Edges
    /\ \A p \in projections : p.rule \in Rules => p.rule \in Defined /\ p.source = rules[p.rule].owner

\* An input that no rule makes is the seed of a start node.
SeedsConsumed == \A r \in Rules : \A p \in rules[r].inputs : p.rule = NoOwner => IsSeed(p)

\* Among any rules there is one that consumes nothing the others make.
Founded ==
    \A X \in SUBSET Defined : X # {} => \E r \in X : \A q \in X : r \notin Consumers(Generated({q}))

\* What a search found still holds while it is the only one.
Searched ==
    raced \/ \A c \in Creators : search[c].step = "found" /\ search[c].type = "forward"
                => search[c].edge[1] \notin Reach(forward, search[c].edge[2])

AuthoringInv ==
    /\ Typed /\ Anchored /\ SeedsConsumed /\ Founded
    /\ ForwardAcyclic /\ Searched /\ RoutesKept /\ InputsKept /\ StartIsRoot

\* Typed says a little more than AuthoringTypeOK, row by row.
LEMMA TypedEnough == ASSUME Typed PROVE AuthoringTypeOK
  BY DEF Typed, GraphTyped, RulesTyped, SearchTyped, HistoryTyped, AuthoringTypeOK, SearchRow, RuleRow

\* With all that, every rule can fire.
LEMMA FireEnough == ASSUME AuthoringInv PROVE RulesCanFire
<1> DEFINE spoilt == WithDownstream(rewired \cup cut)
           snapshot == GetGraphSnapshot
           F == Firing(snapshot)
           X == (Defined \ spoilt) \ F
<1>0. Typed /\ Anchored /\ SeedsConsumed /\ Founded /\ RoutesKept /\ InputsKept
  BY DEF AuthoringInv
<1>1. /\ rewired \cup cut \subseteq spoilt /\ Consumers(Generated(spoilt)) \subseteq spoilt
  BY <1>0, DownstreamFacts DEF Typed, HistoryTyped
<1>2. DOMAIN snapshot.rules = Defined /\ IsFiniteSet(DOMAIN snapshot.rules)
  BY AuthoringAssumption, FS_Subset DEF GetGraphSnapshot, Defined
<1>3. Fires(snapshot, F) = F
  BY <1>2, FiringFacts
<1>4. SUFFICES ASSUME X # {} PROVE FALSE
  BY DEF RulesCanFire
<1>5. PICK r \in X : \A q \in X : r \notin Consumers(Generated({q}))
  <2>1. X \in SUBSET Defined
    OBVIOUS
  <2> HIDE DEF X
  <2> QED BY <1>0, <1>4, <2>1 DEF Founded
<1>6. /\ r \in Rules /\ r \in Defined /\ r \notin F /\ r \notin spoilt
      /\ rules[r].placeholders = rules[r].inputs /\ rules[r].inputs # {}
      /\ rules[r].inputs \subseteq projections /\ projections \subseteq Projection
  BY <1>0, <1>1 DEF InputsKept, Anchored, Typed, RulesTyped, GraphTyped, Defined
<1>7. ASSUME NEW p \in rules[r].inputs
      PROVE  p \in SeedProjections(snapshot) \cup UNION {Route(snapshot, q) : q \in F}
  <2>0. p \in projections /\ p \in Projection
    BY <1>6
  <2>1. CASE p.rule = NoOwner
    <3>1. p.source = NoGNode /\ p.owner \in Starts
      BY <1>0, <1>6, <2>1 DEF SeedsConsumed, IsSeed
    <3> QED BY <2>0, <3>1 DEF SeedProjections, GetGraphSnapshot
  <2>2. CASE p.rule # NoOwner
    <3> DEFINE q == p.rule
    <3>1. q \in Defined /\ p.source = rules[q].owner /\ q \in Rules
      BY <1>0, <2>0, <2>2 DEF Anchored, Projection
    <3>2. r \in Consumers(Generated({q}))
      BY <1>6, <2>0 DEF Consumers, Generated
    <3>3. q \notin spoilt
      BY <1>1, <1>6, <3>2 DEF Consumers, Generated
    <3>4. q \in F
      BY <1>5, <3>1, <3>2, <3>3
    <3>5. p.owner \in rules[q].outputs
      BY <1>0, <1>1, <2>0, <3>1, <3>3 DEF RoutesKept, Generated
    <3>6. <<p.source, p.owner>> \in Edges
      BY <1>0, <3>1, <3>5 DEF Anchored
    <3>7. p \in Route(snapshot, q)
      BY <2>0, <3>1, <3>5, <3>6 DEF Route, GetGraphSnapshot
    <3> QED BY <3>4, <3>7
  <2> QED BY <2>1, <2>2
<1>8. r \in Fires(snapshot, F)
  <2>1. snapshot.rules[r] = rules[r]
    BY <1>6 DEF GetGraphSnapshot
  <2> HIDE DEF snapshot, F
  <2> QED BY <1>2, <1>6, <1>7, <2>1 DEF Fires
<1> QED BY <1>3, <1>6, <1>8

\* The row of a rule that is not there.
LEMMA NoRuleRow == NoRule \in RuleRow /\ NoRule.inputs = {} /\ NoRule.owner = NoGNode /\ NoRule.outputs = {}
  BY DEF NoRule, RuleRow

\* No rule made a seed.
LEMMA NoOwnerFree == \A m \in GNodes : Seed(m) \in Projection /\ Seed(m).rule \notin Rules
  BY AuthoringAssumption DEF Seed, Projection

\* At the start there is nothing.
LEMMA AuthoringInitInv == AuthoringInit => AuthoringInv
<1> SUFFICES ASSUME AuthoringInit PROVE AuthoringInv
  OBVIOUS
<1> USE DEF AuthoringInit
<1>1. Defined = {} /\ Edges = {} /\ Starts = {}
  BY DEF Defined, Edges, Starts
<1>2. Typed
  <2>1. GraphTyped
    BY DEF GraphTyped, GNode
  <2>4. HistoryTyped
    <3>1. 0 \in 0..MaxRemovals /\ 0 \in 0..MaxPatches
      BY AuthoringAssumption
    <3> QED BY <3>1, Zenon DEF HistoryTyped
  <2>3. RulesTyped
    BY NoRuleRow DEF RulesTyped
  <2>2. SearchTyped
    BY DEF SearchTyped, SearchRow, NoSearch
  <2> QED BY <2>1, <2>2, <2>3, <2>4 DEF Typed
<1>3. Anchored /\ SeedsConsumed /\ Founded /\ RoutesKept /\ InputsKept
  BY <1>1, NoRuleRow DEF Anchored, SeedsConsumed, Founded, RoutesKept, InputsKept
<1>4. ForwardAcyclic /\ Searched /\ StartIsRoot
  BY <1>1 DEF ForwardAcyclic, Searched, StartIsRoot, NoSearch
<1> QED BY <1>2, <1>3, <1>4 DEF AuthoringInv

\* What a cascade leaves, row by row.
LEMMA CascadeRows ==
    ASSUME Typed, Anchored, NEW dead \in SUBSET Rules, NEW gone, NEW lost, Cascade(dead, gone, lost)
    PROVE  /\ projections' \subseteq projections
           /\ \A p \in projections : p \in projections' <=> p \notin gone /\ p.rule \notin dead
           /\ rules' \in [Rules -> RuleRow] /\ \A r \in Rules : rules'[r].inputs \subseteq projections'
           /\ \A r \in Rules : rules'[r].inputs \subseteq rules[r].inputs
           /\ Defined' = Defined \ dead
           /\ \A r \in Defined' :
                /\ rules'[r].owner = rules[r].owner /\ rules'[r].placeholders = rules[r].placeholders
                /\ rules'[r].inputs = rules[r].inputs \cap projections'
                /\ rules'[r].outputs = OutputsLeft(r, lost)
           /\ forward' = forward \ lost /\ feedback' = feedback \ lost /\ Edges' = Edges \ lost
           /\ rewired' = rewired \ dead
<1> DEFINE left == (projections \ gone) \ Generated(dead)
           Left(r) == [rules[r] EXCEPT !.inputs = @ \cap left, !.outputs = OutputsLeft(r, lost)]
<1>1. /\ projections' = left /\ rules' = [r \in Rules |-> IF r \in dead THEN NoRule ELSE Left(r)]
      /\ forward' = forward \ lost /\ feedback' = feedback \ lost /\ rewired' = rewired \ dead
  BY DEF Cascade
<1>2. projections' \subseteq projections
      /\ \A p \in projections : p \in projections' <=> p \notin gone /\ p.rule \notin dead
  BY <1>1 DEF Generated
<1>3. ASSUME NEW r \in Rules, r \notin dead
      PROVE  /\ Left(r) \in RuleRow
             /\ Left(r).owner = rules[r].owner /\ Left(r).placeholders = rules[r].placeholders
             /\ Left(r).inputs = rules[r].inputs \cap left /\ Left(r).outputs = OutputsLeft(r, lost)
  BY DEF Typed, RulesTyped, RuleRow, OutputsLeft
<1>4. ASSUME NEW r \in Rules, r \notin dead PROVE Left(r) = NoRule <=> rules[r] = NoRule
  <2>1. CASE rules[r] = NoRule
    BY <2>1, NoRuleRow DEF NoRule, OutputsLeft
  <2>2. CASE rules[r] # NoRule
    <3>1. rules[r].owner # NoGNode
      BY <2>2, AuthoringAssumption DEF Anchored, Defined, Present
    <3> HIDE DEF Left
    <3>2. Left(r).owner = rules[r].owner
      BY <1>3, <1>4
    <3> QED BY <2>2, <3>1, <3>2, NoRuleRow
  <2> QED BY <2>1, <2>2
<1> HIDE DEF left, Left
<1>5. rules' \in [Rules -> RuleRow]
  BY <1>1, <1>3, NoRuleRow
<1>6. Defined' = Defined \ dead
  BY <1>1, <1>4 DEF Defined
<1>7. Edges' = Edges \ lost
  BY <1>1 DEF Edges
<1>8. ASSUME NEW r \in Rules PROVE rules'[r].inputs \subseteq projections' /\ rules'[r].inputs \subseteq rules[r].inputs
  BY <1>1, <1>3, NoRuleRow
<1>9. ASSUME NEW r \in Defined'
      PROVE  /\ rules'[r].owner = rules[r].owner /\ rules'[r].placeholders = rules[r].placeholders
             /\ rules'[r].inputs = rules[r].inputs \cap projections'
             /\ rules'[r].outputs = OutputsLeft(r, lost)
  <2>1. r \in Rules /\ r \notin dead
    BY <1>6 DEF Defined
  <2> QED BY <1>1, <1>3, <2>1
<1> QED BY <1>1, <1>2, <1>5, <1>6, <1>7, <1>8, <1>9

\* A deletion keeps the structure whole when what it leaves is where it was (a), no output is
\* left without its projection or the other way round (b), nothing that is left consumed what
\* went, unless it is said so (c), and seeds go with the start nodes they are for (d, e).
LEMMA CascadeInv ==
    ASSUME AuthoringInv, NEW dead \in SUBSET Rules, NEW gone, NEW lost, Cascade(dead, gone, lost),
           gnodes' \in [GNodes -> GNode], Starts' \subseteq Starts,
           HistoryTyped', UNCHANGED <<search, raced>>,
           \A e \in Edges \ lost : {e[1], e[2]} \subseteq Present',
           \A r \in Defined \ dead : rules[r].owner \in Present',
           \A r \in Defined \ (dead \cup rewired) : \A d \in rules[r].outputs :
               <<rules[r].owner, d>> \in lost <=> Derived(r, rules[r].owner, d) \in gone,
           \A r \in (Defined \ dead) \ cut' :
               r \notin cut /\ rules[r].inputs \cap (gone \cup Generated(dead)) = {},
           \A m \in GNodes \ seedless' : Seed(m) \in projections \ gone <=> m \in Starts',
           \A p \in projections \ gone : p.owner \in Starts => p.owner \in Starts'
    PROVE  AuthoringInv'
<1>0. Typed /\ Anchored /\ SeedsConsumed /\ Founded
      /\ ForwardAcyclic /\ Searched /\ RoutesKept /\ InputsKept /\ StartIsRoot
  BY DEF AuthoringInv
<1>1. /\ projections' \subseteq projections
      /\ \A p \in projections : p \in projections' <=> p \notin gone /\ p.rule \notin dead
      /\ rules' \in [Rules -> RuleRow] /\ \A r \in Rules : rules'[r].inputs \subseteq projections'
      /\ \A r \in Rules : rules'[r].inputs \subseteq rules[r].inputs
      /\ Defined' = Defined \ dead
      /\ \A r \in Defined' :
           /\ rules'[r].owner = rules[r].owner /\ rules'[r].placeholders = rules[r].placeholders
           /\ rules'[r].inputs = rules[r].inputs \cap projections'
           /\ rules'[r].outputs = OutputsLeft(r, lost)
      /\ forward' = forward \ lost /\ feedback' = feedback \ lost /\ Edges' = Edges \ lost
      /\ rewired' = rewired \ dead
  BY <1>0, CascadeRows
<1>2. Typed'
  <2>1. GraphTyped' /\ RulesTyped'
    BY <1>0, <1>1 DEF Typed, GraphTyped, RulesTyped
  <2>2. SearchTyped'
    BY <1>0 DEF Typed, SearchTyped
  <2> QED BY <2>1, <2>2 DEF Typed
<1>3. Anchored'
  <2>1. ASSUME NEW r \in Defined'
        PROVE  /\ rules'[r].owner \in Present' /\ rules'[r].placeholders # {}
               /\ \A d \in rules'[r].outputs : <<rules'[r].owner, d>> \in Edges'
    BY <1>0, <1>1, <2>1 DEF Anchored, OutputsLeft
  <2>2. ASSUME NEW p \in projections', p.rule \in Rules
        PROVE  p.rule \in Defined' /\ p.source = rules'[p.rule].owner
    BY <1>0, <1>1, <2>2 DEF Anchored
  <2>3. \A e \in Edges' : {e[1], e[2]} \subseteq Present'
    BY <1>1
  <2> QED BY <2>1, <2>2, <2>3 DEF Anchored
<1>4. SeedsConsumed'
  <2> SUFFICES ASSUME NEW r \in Rules, NEW p \in rules'[r].inputs, p.rule = NoOwner PROVE IsSeed(p)'
    BY DEF SeedsConsumed
  <2>1. p \in projections' /\ p \in rules[r].inputs /\ p \in projections /\ p \notin gone
    BY <1>1
  <2> QED BY <1>0, <2>1 DEF SeedsConsumed, IsSeed
<1>5. Founded'
  <2> SUFFICES ASSUME NEW X \in SUBSET Defined', X # {}
               PROVE  \E r \in X : \A q \in X : r \notin Consumers(Generated({q}))'
    BY DEF Founded
  <2>1. PICK r \in X : \A q \in X : r \notin Consumers(Generated({q}))
    BY <1>0, <1>1 DEF Founded
  <2>2. ASSUME NEW q \in X, r \in Consumers(Generated({q}))' PROVE FALSE
    BY <1>1, <2>1, <2>2 DEF Consumers, Generated
  <2> QED BY <2>2
<1>6. ForwardAcyclic' /\ Searched'
  <2>1. forward \in SUBSET Edge /\ forward' \in SUBSET forward
    BY <1>0, <1>1 DEF Typed, GraphTyped
  <2>2. ForwardAcyclic'
    BY <1>0, <2>1, AcyclicMono DEF ForwardAcyclic, Acyclic
  <2>3. Searched'
    <3> SUFFICES ASSUME ~raced, NEW c \in Creators, search[c].step = "found", search[c].type = "forward"
                 PROVE  search[c].edge[1] \notin Reach(forward', search[c].edge[2])
      BY DEF Searched
    <3>1. search[c].edge[2] \in GNodes
      BY <1>0 DEF Typed, SearchTyped, Edge
    <3> QED BY <1>0, <2>1, <3>1, ReachMono DEF Searched
  <2> QED BY <2>2, <2>3
<1>7. RoutesKept'
  <2> SUFFICES ASSUME NEW r \in Defined', r \notin rewired'
               PROVE  {p.owner : p \in Generated({r})'} = rules'[r].outputs
    BY DEF RoutesKept
  <2>1. /\ r \in Rules /\ r \in Defined /\ r \notin dead /\ r \notin rewired
        /\ {p.owner : p \in Generated({r})} = rules[r].outputs
    BY <1>0, <1>1 DEF RoutesKept, Defined
  <2>2. ASSUME NEW p \in projections, p.rule = r
        PROVE  p = Derived(r, rules[r].owner, p.owner) /\ p.owner \in rules[r].outputs
    BY <1>0, <2>1, <2>2 DEF Anchored, Typed, GraphTyped, Projection, Derived, Generated
  <2>3. ASSUME NEW p \in projections, p.rule = r
        PROVE  p \in projections' <=> p.owner \in OutputsLeft(r, lost)
    BY <1>1, <2>1, <2>2, <2>3 DEF OutputsLeft
  <2>4. OutputsLeft(r, lost) \subseteq {p.owner : p \in Generated({r})}
    BY <2>1 DEF OutputsLeft
  <2>5. Generated({r})' = {p \in projections : p.rule = r /\ p \in projections'}
    BY <1>1 DEF Generated
  <2> QED BY <1>1, <2>3, <2>4, <2>5 DEF Generated
<1>8. InputsKept'
  <2> SUFFICES ASSUME NEW r \in Defined', r \notin cut' PROVE rules'[r].placeholders = rules'[r].inputs
    BY DEF InputsKept
  <2>1. r \in Rules /\ r \in Defined /\ r \notin dead /\ r \notin cut
        /\ rules[r].inputs \cap (gone \cup Generated(dead)) = {}
    BY <1>1 DEF Defined
  <2>2. rules[r].inputs \subseteq projections'
    BY <1>0, <1>1, <2>1 DEF Typed, RulesTyped, Generated
  <2>3. rules'[r].placeholders = rules[r].placeholders /\ rules'[r].inputs = rules[r].inputs
    BY <1>1, <2>2
  <2> QED BY <1>0, <2>1, <2>3 DEF InputsKept
<1>9. StartIsRoot'
  <2>1. \A e \in forward' : e[2] \notin Starts'
    BY <1>0, <1>1 DEF StartIsRoot
  <2>2. ASSUME NEW m \in GNodes \ seedless' PROVE Seed(m) \in projections' <=> m \in Starts'
    <3>1. Seed(m).rule \notin dead
      BY NoOwnerFree
    <3> QED BY <1>1, <3>1
  <2> QED BY <2>1, <2>2 DEF StartIsRoot
<1> QED BY <1>2, <1>3, <1>4, <1>5, <1>6, <1>7, <1>8, <1>9 DEF AuthoringInv

-----------------------------------------------------------------------------
(* Nodes and edges: no rule is touched, nor any projection a rule made.    *)

\* A step that leaves the rules and what they made keeps what is said of them.
LEMMA KeptRules ==
    ASSUME AuthoringInv, UNCHANGED <<rules, rewired, cut>>,
           \A p : p.rule \in Rules => (p \in projections' <=> p \in projections)
    PROVE  Founded' /\ RoutesKept' /\ InputsKept' /\ Defined' = Defined
<1>1. Defined' = Defined
  BY DEF Defined
<1>2. \A r \in Defined : Generated({r})' = Generated({r})
  BY DEF Generated, Defined
<1>3. \A r \in Defined : Consumers(Generated({r}))' = Consumers(Generated({r}))
  BY <1>2 DEF Consumers
<1>4. Founded'
  <2> SUFFICES ASSUME NEW X \in SUBSET Defined, X # {}
               PROVE  \E r \in X : \A q \in X : r \notin Consumers(Generated({q}))'
    BY <1>1 DEF Founded
  <2>1. PICK r \in X : \A q \in X : r \notin Consumers(Generated({q}))
    BY DEF AuthoringInv, Founded
  <2> QED BY <1>3, <2>1
<1>5. RoutesKept'
  BY <1>1, <1>2 DEF AuthoringInv, RoutesKept
<1>6. InputsKept'
  BY <1>1 DEF AuthoringInv, InputsKept
<1> QED BY <1>1, <1>4, <1>5, <1>6

\* A step that leaves the edges and the searches keeps what is said of them.
LEMMA KeptEdges ==
    ASSUME AuthoringInv, UNCHANGED <<forward, search, raced>>
    PROVE  ForwardAcyclic' /\ Searched' /\ SearchTyped'
  BY DEF AuthoringInv, ForwardAcyclic, Searched, Typed, SearchTyped

\* Changes are counted up to their bound.
LEMMA PatchType == ASSUME HistoryTyped, Patch PROVE patches' \in 0..MaxPatches
  BY AuthoringAssumption DEF HistoryTyped, Patch

\* So are deletions.
LEMMA RemovalType == ASSUME HistoryTyped, Removal PROVE removals' \in 0..MaxRemovals
  BY AuthoringAssumption DEF HistoryTyped, Removal

\* A new node has no edge, and a seed if and only if it is a start node.
LEMMA CreateNodeInv ==
    ASSUME AuthoringInv, NEW n \in GNodes, NEW start \in BOOLEAN, CreateNode(n, start)
    PROVE  AuthoringInv'
<1>0. Typed /\ Anchored /\ SeedsConsumed /\ StartIsRoot
  BY DEF AuthoringInv
<1>1. /\ gnodes[n] = "new" /\ gnodes' = [gnodes EXCEPT ![n] = IF start THEN "start" ELSE "plain"]
      /\ projections' = projections \cup {Seed(m) : m \in {m \in {n} : start}}
      /\ UNCHANGED <<forward, feedback, rules, search, removals, patches, raced, rewired, cut, seedless>>
  BY DEF CreateNode, NodeRow
<1>2. /\ Present' = Present \cup {n} /\ n \notin Present /\ Edges' = Edges
      /\ Starts' = Starts \cup {m \in {n} : start}
  BY <1>0, <1>1 DEF Present, Starts, Typed, GraphTyped, Edges
<1>3. /\ projections \subseteq projections' /\ projections' \subseteq Projection
      /\ \A p \in projections' : p.rule \in Rules => p \in projections
      /\ \A m \in GNodes : Seed(m) \in projections' <=> Seed(m) \in projections \/ (m = n /\ start)
  BY <1>0, <1>1, NoOwnerFree DEF Typed, GraphTyped, Seed
<1>4. Typed'
  <2>1. GraphTyped'
    BY <1>0, <1>1, <1>3 DEF Typed, GraphTyped, GNode
  <2>2. RulesTyped' /\ SearchTyped' /\ HistoryTyped'
    BY <1>0, <1>1, <1>3 DEF Typed, RulesTyped, SearchTyped, HistoryTyped
  <2> QED BY <2>1, <2>2 DEF Typed
<1>5. Founded' /\ RoutesKept' /\ InputsKept' /\ Defined' = Defined
  BY <1>1, <1>3, KeptRules
<1>6. Anchored'
  BY <1>0, <1>1, <1>2, <1>3, <1>5 DEF Anchored
<1>7. SeedsConsumed'
  BY <1>0, <1>1, <1>2 DEF SeedsConsumed, IsSeed
<1>8. StartIsRoot'
  <2>1. \A e \in forward : e[2] \in Present
    BY <1>0 DEF Anchored, Edges
  <2>2. \A e \in forward' : e[2] \notin Starts'
    BY <1>0, <1>1, <1>2, <2>1 DEF StartIsRoot
  <2>3. ASSUME NEW m \in GNodes \ seedless' PROVE Seed(m) \in projections' <=> m \in Starts'
    BY <1>0, <1>1, <1>2, <1>3 DEF StartIsRoot
  <2> QED BY <2>2, <2>3 DEF StartIsRoot
<1>9. ForwardAcyclic' /\ Searched'
  BY <1>1, KeptEdges
<1> QED BY <1>4, <1>5, <1>6, <1>7, <1>8, <1>9 DEF AuthoringInv

\* No forward edge leads to the node, and it has its seed unless one is taken for it.
LEMMA MakeStartInv ==
    ASSUME AuthoringInv, NEW n \in GNodes, MakeStart(n)
    PROVE  AuthoringInv'
<1>0. Typed /\ Anchored /\ SeedsConsumed /\ StartIsRoot
  BY DEF AuthoringInv
<1>1. /\ gnodes[n] = "plain" /\ gnodes' = [gnodes EXCEPT ![n] = "start"] /\ MayBeStart(n) /\ Patch
      /\ projections' = IF SeedRows(n) = {} THEN projections \cup {Seed(n)} ELSE projections
      /\ seedless' = IF SeedRows(n) = {} THEN seedless ELSE seedless \cup {n}
      /\ UNCHANGED <<forward, feedback, rules, search, removals, raced, rewired, cut>>
  BY DEF MakeStart
<1>2. Present' = Present /\ Edges' = Edges /\ Starts' = Starts \cup {n}
  BY <1>0, <1>1 DEF Present, Starts, Typed, GraphTyped, Edges
<1>3. /\ projections \subseteq projections' /\ projections' \subseteq Projection
      /\ \A p \in projections' : p.rule \in Rules => p \in projections
      /\ \A m \in GNodes : Seed(m) \in projections' => Seed(m) \in projections \/ m = n
      /\ n \in seedless' \/ Seed(n) \in projections'
  BY <1>0, <1>1, NoOwnerFree DEF Typed, GraphTyped, Seed
<1>4. Typed'
  <2>1. GraphTyped'
    BY <1>0, <1>1, <1>3 DEF Typed, GraphTyped, GNode
  <2>2. RulesTyped' /\ SearchTyped'
    BY <1>0, <1>1, <1>3 DEF Typed, RulesTyped, SearchTyped
  <2>3. HistoryTyped'
    <3>1. patches' \in 0..MaxPatches
      BY <1>0, <1>1, PatchType DEF Typed
    <3> QED BY <1>0, <1>1, <3>1 DEF Typed, HistoryTyped
  <2> QED BY <2>1, <2>2, <2>3 DEF Typed
<1>5. Founded' /\ RoutesKept' /\ InputsKept' /\ Defined' = Defined
  BY <1>1, <1>3, KeptRules
<1>6. Anchored'
  BY <1>0, <1>1, <1>2, <1>3, <1>5 DEF Anchored
<1>7. SeedsConsumed'
  BY <1>0, <1>1, <1>2 DEF SeedsConsumed, IsSeed
<1>8. StartIsRoot'
  <2>1. \A e \in forward' : e[2] \notin Starts'
    BY <1>0, <1>1, <1>2 DEF StartIsRoot, MayBeStart
  <2>2. ASSUME NEW m \in GNodes \ seedless' PROVE Seed(m) \in projections' <=> m \in Starts'
    BY <1>0, <1>1, <1>2, <1>3 DEF StartIsRoot
  <2> QED BY <2>1, <2>2 DEF StartIsRoot
<1>9. ForwardAcyclic' /\ Searched'
  BY <1>1, KeptEdges
<1> QED BY <1>4, <1>5, <1>6, <1>7, <1>8, <1>9 DEF AuthoringInv

\* The seed goes only if no rule consumes it.
LEMMA MakePlainInv ==
    ASSUME AuthoringInv, NEW n \in GNodes, MakePlain(n)
    PROVE  AuthoringInv'
<1>0. Typed /\ Anchored /\ SeedsConsumed /\ StartIsRoot
  BY DEF AuthoringInv
<1>1. /\ gnodes[n] = "start" /\ gnodes' = [gnodes EXCEPT ![n] = "plain"] /\ Patch
      /\ Consumers(SeedRows(n)) = {}
      /\ projections' = projections \ SeedRows(n) /\ seedless' = seedless \ {n}
      /\ UNCHANGED <<forward, feedback, rules, search, removals, raced, rewired, cut>>
  BY DEF MakePlain, SeedInUse
<1>2. Present' = Present /\ Edges' = Edges /\ Starts' = Starts \ {n}
  BY <1>0, <1>1 DEF Present, Starts, Typed, GraphTyped, Edges
<1>3. /\ projections' \subseteq projections
      /\ \A p \in projections : p.rule \in Rules => p \in projections'
      /\ \A m \in GNodes : Seed(m) \in projections' <=> Seed(m) \in projections /\ m # n
      /\ \A r \in Rules : rules[r].inputs \subseteq projections'
  <2>1. \A p \in SeedRows(n) : p.rule \notin Rules /\ p.owner = n
    BY AuthoringAssumption DEF SeedRows
  <2>2. Seed(n) \in projections => Seed(n) \in SeedRows(n)
    BY DEF Seed, SeedRows
  <2>3. \A m \in GNodes : Seed(m) \in SeedRows(n) => m = n
    BY <2>1 DEF Seed
  <2>4. \A r \in Rules : rules[r].inputs \cap SeedRows(n) = {}
    BY <1>1 DEF Consumers
  <2> QED BY <1>0, <1>1, <2>1, <2>2, <2>3, <2>4 DEF Typed, RulesTyped
<1>4. Typed'
  <2>1. GraphTyped'
    BY <1>0, <1>1, <1>3 DEF Typed, GraphTyped, GNode
  <2>2. RulesTyped' /\ SearchTyped'
    BY <1>0, <1>1, <1>3 DEF Typed, RulesTyped, SearchTyped
  <2>3. HistoryTyped'
    <3>1. patches' \in 0..MaxPatches
      BY <1>0, <1>1, PatchType DEF Typed
    <3> QED BY <1>0, <1>1, <3>1 DEF Typed, HistoryTyped
  <2> QED BY <2>1, <2>2, <2>3 DEF Typed
<1>5. Founded' /\ RoutesKept' /\ InputsKept' /\ Defined' = Defined
  BY <1>1, <1>3, KeptRules
<1>6. Anchored'
  BY <1>0, <1>1, <1>2, <1>3, <1>5 DEF Anchored
<1>7. SeedsConsumed'
  <2> SUFFICES ASSUME NEW r \in Rules, NEW p \in rules[r].inputs, p.rule = NoOwner PROVE IsSeed(p)'
    BY <1>1 DEF SeedsConsumed
  <2>1. IsSeed(p) /\ p \in projections'
    BY <1>0, <1>3 DEF SeedsConsumed
  <2>2. p.owner # n
    BY <1>1, <1>3, <2>1 DEF IsSeed, SeedRows
  <2> QED BY <1>2, <2>1, <2>2 DEF IsSeed
<1>8. StartIsRoot'
  <2>1. \A e \in forward' : e[2] \notin Starts'
    BY <1>0, <1>1, <1>2 DEF StartIsRoot
  <2>2. ASSUME NEW m \in GNodes \ seedless' PROVE Seed(m) \in projections' <=> m \in Starts'
    BY <1>0, <1>1, <1>2, <1>3 DEF StartIsRoot
  <2> QED BY <2>1, <2>2 DEF StartIsRoot
<1>9. ForwardAcyclic' /\ Searched'
  BY <1>1, KeptEdges
<1> QED BY <1>4, <1>5, <1>6, <1>7, <1>8, <1>9 DEF AuthoringInv

\* The search is done in the graph as it is.
LEMMA FindEdgeTypeInv ==
    ASSUME AuthoringInv, NEW c \in Creators, NEW s \in GNodes, NEW d \in GNodes, FindEdgeType(c, s, d)
    PROVE  AuthoringInv'
<1> DEFINE found == [step |-> "found", edge |-> <<s, d>>, type |-> EdgeType(s, d)]
<1>0. Typed /\ Anchored /\ SeedsConsumed /\ Searched
  BY DEF AuthoringInv
<1>1. /\ search' = [search EXCEPT ![c] = found]
      /\ UNCHANGED <<gnodes, forward, feedback, projections, rules, removals, patches, raced, rewired, cut, seedless>>
  BY DEF FindEdgeType
<1>2. /\ found \in SearchRow /\ found.edge = <<s, d>>
      /\ found.type = "forward" => s \notin Reach(forward, d)
  BY DEF SearchRow, EdgeType
<1> HIDE DEF found
<1>3. SearchTyped'
  <2>1. search \in [Creators -> SearchRow] /\ \A a \in Creators : search[a].step = "found" => search[a].edge \in Edge
    BY <1>0 DEF Typed, SearchTyped
  <2>2. <<s, d>> \in Edge
    BY DEF Edge
  <2>3. search' \in [Creators -> SearchRow]
    BY <1>1, <1>2, <2>1
  <2>4. ASSUME NEW a \in Creators, search'[a].step = "found" PROVE search'[a].edge \in Edge
    BY <1>1, <1>2, <2>1, <2>2, <2>4
  <2> QED BY <2>3, <2>4 DEF SearchTyped
<1>4. Typed'
  BY <1>0, <1>1, <1>3 DEF Typed, GraphTyped, RulesTyped, HistoryTyped
<1>5. Founded' /\ RoutesKept' /\ InputsKept'
  BY <1>1, KeptRules
<1>6. Anchored' /\ SeedsConsumed' /\ StartIsRoot' /\ ForwardAcyclic'
  BY <1>1 DEF AuthoringInv, Anchored, SeedsConsumed, StartIsRoot, ForwardAcyclic,
              IsSeed, Edges, Present, Starts, Defined
<1>7. Searched'
  <2> SUFFICES ASSUME ~raced, NEW a \in Creators, search'[a].step = "found", search'[a].type = "forward"
               PROVE  search'[a].edge[1] \notin Reach(forward, search'[a].edge[2])
    BY <1>1 DEF Searched
  <2>1. CASE a = c
    BY <1>0, <1>1, <1>2, <2>1 DEF Typed, SearchTyped
  <2>2. CASE a # c
    BY <1>0, <1>1, <2>2 DEF Typed, SearchTyped, Searched
  <2> QED BY <2>1, <2>2
<1> QED BY <1>4, <1>5, <1>6, <1>7 DEF AuthoringInv

\* The edge closes no cycle, as nothing was created since its search or two creations overlap.
LEMMA CreateEdgeInv ==
    ASSUME AuthoringInv, NEW c \in Creators, CreateEdge(c)
    PROVE  AuthoringInv'
<1> DEFINE e == search[c].edge
           type == search[c].type
           allowed == ValidEdge(e, type) /\ e \notin Edges
<1>0. Typed /\ Anchored /\ SeedsConsumed /\ StartIsRoot /\ ForwardAcyclic /\ Searched
  BY DEF AuthoringInv
<1>1. /\ search[c].step = "found" /\ search' = [search EXCEPT ![c] = NoSearch]
      /\ forward' = IF allowed /\ type = "forward" THEN forward \cup {e} ELSE forward
      /\ feedback' = IF allowed /\ type = "feedback" THEN feedback \cup {e} ELSE feedback
      /\ projections' = IF allowed THEN projections \cup {Base(e)} ELSE projections
      /\ raced' = (raced \/ \E other \in Creators \ {c} : search[other].step = "found")
      /\ UNCHANGED <<gnodes, rules, removals, patches, rewired, cut, seedless>>
  BY DEF CreateEdge
<1>2. /\ e \in Edge /\ e[1] \in GNodes /\ e[2] \in GNodes /\ e = <<e[1], e[2]>>
      /\ type \in {"none", "forward", "feedback"}
  BY <1>0, <1>1 DEF Typed, SearchTyped, SearchRow, Edge
<1>3. /\ Present' = Present /\ Starts' = Starts /\ Defined' = Defined /\ Edges \subseteq Edges'
      /\ \A g \in Edges' : g \in Edges \/ (g = e /\ allowed)
      /\ allowed => {e[1], e[2]} \subseteq Present /\ (type = "forward" => e[2] \notin Starts)
  BY <1>1 DEF Present, Starts, Defined, Edges, ValidEdge
<1>4. /\ projections \subseteq projections' /\ projections' \subseteq Projection
      /\ \A p \in projections' : p.rule \in Rules => p \in projections
      /\ \A m \in GNodes : Seed(m) \in projections' <=> Seed(m) \in projections
  <2>1. Base(e) \in Projection /\ Base(e).rule \notin Rules /\ Base(e).source # NoGNode
    BY <1>2, AuthoringAssumption DEF Base, Projection
  <2>2. \A m \in GNodes : Seed(m) # Base(e)
    BY <2>1 DEF Seed
  <2> QED BY <1>0, <1>1, <2>1, <2>2 DEF Typed, GraphTyped
<1> HIDE DEF e, type, allowed
<1>5. Typed'
  <2>1. GraphTyped' /\ RulesTyped'
    BY <1>0, <1>1, <1>2, <1>4 DEF Typed, GraphTyped, RulesTyped
  <2>2. SearchTyped'
    <3>1. NoSearch \in SearchRow /\ NoSearch.step = "idle"
      BY DEF NoSearch, SearchRow
    <3> QED BY <1>0, <1>1, <3>1 DEF Typed, SearchTyped
  <2>3. HistoryTyped'
    BY <1>0, <1>1 DEF Typed, HistoryTyped
  <2> QED BY <2>1, <2>2, <2>3 DEF Typed
<1>6. Founded' /\ RoutesKept' /\ InputsKept'
  BY <1>1, <1>4, KeptRules
<1>7. Anchored'
  <2>1. \A g \in Edges' : {g[1], g[2]} \subseteq Present'
    BY <1>0, <1>3 DEF Anchored
  <2> QED BY <1>0, <1>1, <1>3, <1>4, <2>1 DEF Anchored
<1>8. SeedsConsumed'
  BY <1>0, <1>1, <1>3 DEF SeedsConsumed, IsSeed
<1>9. StartIsRoot'
  BY <1>0, <1>1, <1>3, <1>4 DEF StartIsRoot
<1>10. ForwardAcyclic' /\ Searched'
  <2>1. CASE raced'
    BY <2>1 DEF ForwardAcyclic, Searched
  <2>2. CASE ~raced'
    <3>1. ~raced /\ \A a \in Creators : search'[a].step # "found"
      <4>1. \A a \in Creators \ {c} : search'[a].step # "found"
        BY <1>0, <1>1, <2>2 DEF Typed, SearchTyped
      <4>2. search'[c].step # "found"
        BY <1>0, <1>1 DEF Typed, SearchTyped, NoSearch
      <4> QED BY <1>1, <2>2, <4>1, <4>2
    <3>2. Acyclic(forward) /\ forward \in SUBSET Edge
      BY <1>0, <3>1 DEF ForwardAcyclic, Acyclic, Typed, GraphTyped
    <3>3. Acyclic(forward')
      <4>1. CASE forward' = forward
        BY <3>2, <4>1
      <4>2. CASE forward' = forward \cup {e} /\ type = "forward"
        <5>1. e[1] \notin Reach(forward, e[2])
          BY <1>0, <1>1, <3>1, <4>2 DEF Searched, e, type
        <5>2. Acyclic(forward \cup {<<e[1], e[2]>>})
          BY <1>2, <3>2, <5>1, AcyclicAdd
        <5> QED BY <1>2, <4>2, <5>2
      <4> QED BY <1>1, <4>1, <4>2
    <3> QED BY <3>1, <3>3 DEF ForwardAcyclic, Acyclic, Searched
  <2> QED BY <2>1, <2>2
<1> QED BY <1>5, <1>6, <1>7, <1>8, <1>9, <1>10 DEF AuthoringInv

-----------------------------------------------------------------------------
(* Rules.                                                                  *)

\* A rule is made after what it consumes: nothing that is there consumes what it produces.
LEMMA CreateRuleInv ==
    ASSUME AuthoringInv, NEW r \in Rules, NEW n \in GNodes, NEW ps \in SUBSET projections,
           NEW ds \in SUBSET GNodes, CreateRule(r, n, ps, ds)
    PROVE  AuthoringInv'
<1> DEFINE new == NewRule(n, ps, ds)
           made == {Derived(r, n, d) : d \in ds}
<1>0. Typed /\ Anchored /\ SeedsConsumed /\ Founded /\ RoutesKept /\ InputsKept /\ StartIsRoot
  BY DEF AuthoringInv
<1>1. /\ rules[r] = NoRule /\ n \in Present /\ ValidOutputs(n, ds)
      /\ rules' = [rules EXCEPT ![r] = new] /\ projections' = projections \cup made
      /\ UNCHANGED <<gnodes, forward, feedback, search, removals, patches, raced, rewired, cut, seedless>>
  BY DEF CreateRule
<1>2. ps # {} /\ \A p \in ps : IsSeed(p) \/ p.rule # NoOwner
  BY DEF CreateRule, Consumable, IsSelectable
<1>3. /\ new \in RuleRow /\ new.owner = n /\ new.inputs = ps /\ new.outputs = ds /\ new.placeholders = ps
      /\ new # NoRule
  <2>1. ps \subseteq Projection /\ n # NoGNode
    BY <1>0, AuthoringAssumption DEF Typed, GraphTyped
  <2> QED BY <2>1 DEF NewRule, RuleRow, NoRule
<1>4. \A d \in ds : <<n, d>> \in Edges
  BY <1>1 DEF ValidOutputs, OwnOutputs, Destinations, Edges
<1>5. /\ made \subseteq Projection /\ \A p \in made : p.rule = r /\ p.source = n
      /\ {p.owner : p \in made} = ds
      /\ \A m \in GNodes : Seed(m) \notin made
  <2>1. \A d \in ds : /\ Derived(r, n, d) \in Projection /\ Derived(r, n, d).rule = r
                      /\ Derived(r, n, d).source = n /\ Derived(r, n, d).owner = d
    BY DEF Derived, Projection
  <2> QED BY <2>1, NoOwnerFree
<1> HIDE DEF new, made
<1>6. /\ Present' = Present /\ Starts' = Starts /\ Edges' = Edges
      /\ r \notin Defined /\ Defined' = Defined \cup {r} /\ rules'[r] = new
      /\ \A q \in Rules : q # r => rules'[q] = rules[q]
      /\ \A p \in projections : p.rule # r
  <2>1. /\ Present' = Present /\ Starts' = Starts /\ Edges' = Edges
    BY <1>1 DEF Present, Starts, Edges
  <2>2. r \notin Defined /\ rules'[r] = new /\ \A q \in Rules : q # r => rules'[q] = rules[q]
    BY <1>0, <1>1 DEF Typed, RulesTyped, Defined
  <2>3. Defined' = Defined \cup {r}
    BY <1>3, <2>2 DEF Defined
  <2>4. \A p \in projections : p.rule # r
    BY <1>0, <2>2 DEF Anchored
  <2> QED BY <2>1, <2>2, <2>3, <2>4
<1>7. Typed'
  <2>1. GraphTyped' /\ SearchTyped' /\ HistoryTyped'
    BY <1>0, <1>1, <1>5 DEF Typed, GraphTyped, SearchTyped, HistoryTyped
  <2>2. RulesTyped'
    BY <1>0, <1>1, <1>3, <1>6 DEF Typed, RulesTyped
  <2> QED BY <2>1, <2>2 DEF Typed
<1>8. Anchored'
  <2>1. ASSUME NEW q \in Defined'
        PROVE  /\ rules'[q].owner \in Present' /\ rules'[q].placeholders # {}
               /\ \A d \in rules'[q].outputs : <<rules'[q].owner, d>> \in Edges'
    <3>1. CASE q = r
      BY <1>1, <1>2, <1>3, <1>4, <1>6, <3>1
    <3>2. CASE q # r
      BY <1>0, <1>6, <2>1, <3>2 DEF Anchored, Defined
    <3> QED BY <3>1, <3>2
  <2>2. ASSUME NEW p \in projections', p.rule \in Rules
        PROVE  p.rule \in Defined' /\ p.source = rules'[p.rule].owner
    BY <1>0, <1>1, <1>3, <1>5, <1>6, <2>2 DEF Anchored
  <2>3. \A e \in Edges' : {e[1], e[2]} \subseteq Present'
    BY <1>0, <1>6 DEF Anchored
  <2> QED BY <2>1, <2>2, <2>3 DEF Anchored
<1>9. SeedsConsumed'
  <2> SUFFICES ASSUME NEW q \in Rules, NEW p \in rules'[q].inputs, p.rule = NoOwner PROVE IsSeed(p)
    BY <1>6 DEF SeedsConsumed, IsSeed
  <2>1. CASE q = r
    BY <1>2, <1>3, <1>6, <2>1
  <2>2. CASE q # r
    BY <1>0, <1>6, <2>2 DEF SeedsConsumed
  <2> QED BY <2>1, <2>2
<1>10. \A q \in Rules : rules'[q].inputs \subseteq projections
  BY <1>0, <1>3, <1>6 DEF Typed, RulesTyped
<1>11. \A q \in Rules : Consumers(Generated({r}))' \cap {q} = {}
  BY <1>5, <1>6, <1>10, <1>1 DEF Consumers, Generated
<1>12. ASSUME NEW q \in Defined, NEW x \in Defined, x \in Consumers(Generated({q}))'
       PROVE  x \in Consumers(Generated({q}))
  BY <1>6, <1>10, <1>12 DEF Consumers, Generated, Defined
<1>13. Founded'
  <2> SUFFICES ASSUME NEW X \in SUBSET (Defined \cup {r}), X # {}
               PROVE  \E x \in X : \A q \in X : x \notin Consumers(Generated({q}))'
    BY <1>6 DEF Founded
  <2>1. CASE X = {r}
    BY <1>11, <2>1
  <2>2. CASE X # {r}
    <3>1. X \ {r} \in SUBSET Defined /\ X \ {r} # {}
      BY <2>2
    <3>2. PICK x \in X \ {r} : \A q \in X \ {r} : x \notin Consumers(Generated({q}))
      BY <1>0, <3>1 DEF Founded
    <3>3. ASSUME NEW q \in X, x \in Consumers(Generated({q}))' PROVE FALSE
      <4>1. CASE q = r
        BY <1>11, <3>1, <3>3, <4>1 DEF Defined
      <4>2. CASE q # r
        BY <1>12, <3>1, <3>2, <3>3, <4>2
      <4> QED BY <4>1, <4>2
    <3> QED BY <3>3
  <2> QED BY <2>1, <2>2
<1>14. RoutesKept'
  <2> SUFFICES ASSUME NEW q \in Defined', q \notin rewired
               PROVE  {p.owner : p \in Generated({q})'} = rules'[q].outputs
    BY <1>1 DEF RoutesKept
  <2>1. CASE q = r
    <3>1. Generated({r})' = made
      BY <1>1, <1>5, <1>6 DEF Generated
    <3> QED BY <1>3, <1>5, <1>6, <2>1, <3>1
  <2>2. CASE q # r
    <3>1. Generated({q})' = Generated({q})
      BY <1>1, <1>5, <2>2 DEF Generated
    <3>2. q \in Defined /\ rules'[q] = rules[q]
      BY <1>6, <2>2 DEF Defined
    <3> QED BY <1>0, <3>1, <3>2 DEF RoutesKept
  <2> QED BY <2>1, <2>2
<1>15. InputsKept'
  <2> SUFFICES ASSUME NEW q \in Defined', q \notin cut PROVE rules'[q].placeholders = rules'[q].inputs
    BY <1>1 DEF InputsKept
  <2>1. CASE q = r
    BY <1>3, <1>6, <2>1
  <2>2. CASE q # r
    BY <1>0, <1>6, <2>2 DEF InputsKept, Defined
  <2> QED BY <2>1, <2>2
<1>16. StartIsRoot'
  BY <1>0, <1>1, <1>5, <1>6 DEF StartIsRoot
<1>17. ForwardAcyclic' /\ Searched'
  BY <1>1, KeptEdges
<1> QED BY <1>7, <1>8, <1>9, <1>13, <1>14, <1>15, <1>16, <1>17 DEF AuthoringInv

\* Outputs go along edges that are there; a rule whose outputs change is one of rewired.
LEMMA UpdateRuleInv ==
    ASSUME AuthoringInv, NEW r \in Rules, NEW ds \in SUBSET GNodes, NEW terminal \in BOOLEAN,
           UpdateRule(r, ds, terminal)
    PROVE  AuthoringInv'
<1> DEFINE n == rules[r].owner
           row == [rules[r] EXCEPT !.outputs = ds, !.terminal = terminal]
<1>0. Typed /\ Anchored /\ SeedsConsumed /\ Founded /\ RoutesKept /\ InputsKept /\ StartIsRoot
  BY DEF AuthoringInv
<1>1. /\ r \in Defined /\ Patch
      /\ ds \subseteq Destinations(forward, n) \/ ds \subseteq Destinations(feedback, n)
      /\ rules' = [rules EXCEPT ![r] = row]
      /\ rewired' = IF ds = rules[r].outputs THEN rewired ELSE rewired \cup {r}
      /\ UNCHANGED <<gnodes, forward, feedback, projections, search, removals, raced, cut, seedless>>
  <2>1. rules[r] \in RuleRow /\ rules \in [Rules -> RuleRow]
    BY <1>0 DEF Typed, RulesTyped
  <2>2. [rules EXCEPT ![r].outputs = ds, ![r].terminal = terminal] = [rules EXCEPT ![r] = row]
    BY <2>1 DEF RuleRow
  <2> HIDE DEF row
  <2> QED BY <2>2 DEF UpdateRule
<1>2. /\ row \in RuleRow /\ row.owner = n /\ row.inputs = rules[r].inputs /\ row.outputs = ds
      /\ row.placeholders = rules[r].placeholders
  BY <1>0 DEF Typed, RulesTyped, RuleRow
<1>3. n \in Present /\ \A d \in ds : <<n, d>> \in Edges
  BY <1>0, <1>1 DEF Anchored, Destinations, Edges
<1> HIDE DEF row
<1>4. /\ rules'[r] = row /\ \A q \in Rules : q # r => rules'[q] = rules[q]
      /\ \A q \in Rules : /\ rules'[q].owner = rules[q].owner /\ rules'[q].inputs = rules[q].inputs
                          /\ rules'[q].placeholders = rules[q].placeholders
  BY <1>0, <1>1, <1>2 DEF Typed, RulesTyped
<1>5. /\ Present' = Present /\ Starts' = Starts /\ Edges' = Edges
  BY <1>1 DEF Present, Starts, Edges
<1>6. Defined' = Defined
  <2>1. row # NoRule
    BY <1>2, <1>3, NoRuleRow, AuthoringAssumption DEF Present
  <2> QED BY <1>1, <1>4, <2>1 DEF Defined
<1>7. Typed'
  <2>1. GraphTyped' /\ SearchTyped'
    BY <1>0, <1>1 DEF Typed, GraphTyped, SearchTyped
  <2>2. RulesTyped'
    BY <1>0, <1>1, <1>2, <1>4 DEF Typed, RulesTyped
  <2>3. HistoryTyped'
    <3>1. patches' \in 0..MaxPatches
      BY <1>0, <1>1, PatchType DEF Typed
    <3>2. rewired' \subseteq Rules
      BY <1>0, <1>1 DEF Typed, HistoryTyped
    <3> QED BY <1>0, <1>1, <3>1, <3>2 DEF Typed, HistoryTyped
  <2> QED BY <2>1, <2>2, <2>3 DEF Typed
<1>8. Anchored'
  <2>1. ASSUME NEW q \in Defined'
        PROVE  /\ rules'[q].owner \in Present' /\ rules'[q].placeholders # {}
               /\ \A d \in rules'[q].outputs : <<rules'[q].owner, d>> \in Edges'
    <3>1. CASE q = r
      BY <1>0, <1>1, <1>2, <1>3, <1>4, <1>5, <3>1 DEF Anchored
    <3>2. CASE q # r
      BY <1>0, <1>4, <1>5, <1>6, <2>1, <3>2 DEF Anchored, Defined
    <3> QED BY <3>1, <3>2
  <2>2. ASSUME NEW p \in projections', p.rule \in Rules
        PROVE  p.rule \in Defined' /\ p.source = rules'[p.rule].owner
    BY <1>0, <1>1, <1>4, <1>6, <2>2 DEF Anchored
  <2>3. \A e \in Edges' : {e[1], e[2]} \subseteq Present'
    BY <1>0, <1>5 DEF Anchored
  <2> QED BY <2>1, <2>2, <2>3 DEF Anchored
<1>9. SeedsConsumed'
  BY <1>0, <1>4, <1>5 DEF SeedsConsumed, IsSeed
<1>10. \A q \in Rules : Generated({q})' = Generated({q}) /\ Consumers(Generated({q}))' = Consumers(Generated({q}))
  BY <1>1, <1>4 DEF Generated, Consumers
<1>11. Founded'
  <2> SUFFICES ASSUME NEW X \in SUBSET Defined, X # {}
               PROVE  \E x \in X : \A q \in X : x \notin Consumers(Generated({q}))'
    BY <1>6 DEF Founded
  <2>1. PICK x \in X : \A q \in X : x \notin Consumers(Generated({q}))
    BY <1>0 DEF Founded
  <2> QED BY <1>10, <2>1 DEF Defined
<1>12. RoutesKept'
  <2> SUFFICES ASSUME NEW q \in Defined, q \notin rewired'
               PROVE  {p.owner : p \in Generated({q})'} = rules'[q].outputs
    BY <1>6 DEF RoutesKept
  <2>1. q \in Rules /\ q \notin rewired /\ rules'[q].outputs = rules[q].outputs
    BY <1>1, <1>2, <1>4 DEF Defined
  <2> QED BY <1>0, <1>10, <2>1 DEF RoutesKept
<1>13. InputsKept'
  BY <1>0, <1>1, <1>4, <1>6 DEF InputsKept, Defined
<1>14. StartIsRoot'
  BY <1>0, <1>1, <1>5 DEF StartIsRoot
<1>15. ForwardAcyclic' /\ Searched'
  BY <1>1, KeptEdges
<1> QED BY <1>7, <1>8, <1>9, <1>11, <1>12, <1>13, <1>14, <1>15 DEF AuthoringInv

-----------------------------------------------------------------------------
(* Deletions.                                                              *)

\* What a rule whose outputs were never changed writes has a place.
LEMMA OutputRow ==
    ASSUME Typed, Anchored, RoutesKept, NEW r \in Defined, r \notin rewired, NEW d \in rules[r].outputs
    PROVE  Derived(r, rules[r].owner, d) \in projections /\ <<rules[r].owner, d>> \in Edges
<1>1. PICK p \in Generated({r}) : p.owner = d
  BY DEF RoutesKept
<1>2. p \in projections /\ p.rule = r /\ p.source = rules[r].owner
  BY <1>1 DEF Generated, Anchored, Defined
<1>3. p = Derived(r, rules[r].owner, d)
  BY <1>1, <1>2 DEF Typed, GraphTyped, Projection, Derived
<1> QED BY <1>2, <1>3 DEF Anchored

\* The row of a seed.
LEMMA SeedRow == ASSUME NEW m PROVE Seed(m).owner = m /\ Seed(m).source = NoGNode
  BY DEF Seed

\* The rules of the node go, and the edges, outputs and projections at both of its sides; rules
\* that lose an input are those of cut.
LEMMA DeleteNodeInv ==
    ASSUME AuthoringInv, NEW n \in GNodes, DeleteNode(n)
    PROVE  AuthoringInv'
<1> DEFINE dead == {r \in Defined : rules[r].owner = n}
           gone == {p \in projections : n \in {p.owner, p.source}}
           lost == {e \in Edges : n \in {e[1], e[2]}}
<1>0. Typed /\ Anchored /\ RoutesKept /\ StartIsRoot
  BY DEF AuthoringInv
<1>1. /\ n \in Present /\ Removal /\ Cascade(dead, gone, lost)
      /\ gnodes' = [gnodes EXCEPT ![n] = "deleted"]
      /\ cut' = (cut \cup Consumers(gone \cup Generated(dead))) \ dead
      /\ seedless' = seedless \ {n}
      /\ UNCHANGED <<search, patches, raced>>
  BY DEF DeleteNode
<1>2. dead \in SUBSET Rules
  BY DEF Defined
<1>3. gnodes' \in [GNodes -> GNode] /\ Present' = Present \ {n} /\ Starts' = Starts \ {n}
  BY <1>0, <1>1 DEF Typed, GraphTyped, GNode, Present, Starts
<1>4. HistoryTyped'
  <2>1. removals' \in 0..MaxRemovals
    BY <1>0, <1>1, RemovalType DEF Typed
  <2>2. rewired' \subseteq Rules /\ cut' \subseteq Rules /\ seedless' \subseteq GNodes
    BY <1>0, <1>1 DEF Typed, HistoryTyped, Cascade, Consumers
  <2> QED BY <1>0, <1>1, <2>1, <2>2 DEF Typed, HistoryTyped
<1>5. \A e \in Edges \ lost : {e[1], e[2]} \subseteq Present'
  BY <1>0, <1>3 DEF Anchored
<1>6. \A r \in Defined \ dead : rules[r].owner \in Present'
  BY <1>0, <1>3 DEF Anchored
<1>7. ASSUME NEW r \in Defined \ (dead \cup rewired), NEW d \in rules[r].outputs
      PROVE  <<rules[r].owner, d>> \in lost <=> Derived(r, rules[r].owner, d) \in gone
  BY <1>0, OutputRow DEF Derived
<1>8. ASSUME NEW r \in (Defined \ dead) \ cut'
      PROVE  r \notin cut /\ rules[r].inputs \cap (gone \cup Generated(dead)) = {}
  BY <1>1, <1>8 DEF Consumers, Defined
<1>9. ASSUME NEW m \in GNodes \ seedless' PROVE Seed(m) \in projections \ gone <=> m \in Starts'
  BY <1>0, <1>1, <1>3, SeedRow, AuthoringAssumption DEF StartIsRoot
<1>10. \A p \in projections \ gone : p.owner \in Starts => p.owner \in Starts'
  BY <1>3
<1> HIDE DEF dead, gone, lost
<1> QED BY <1>1, <1>2, <1>3, <1>4, <1>5, <1>6, <1>7, <1>8, <1>9, <1>10, CascadeInv

\* Nothing is left.
LEMMA DeleteGraphInv == ASSUME AuthoringInv, DeleteGraph PROVE AuthoringInv'
<1>0. Typed /\ Anchored
  BY DEF AuthoringInv
<1>1. /\ Cascade(Rules, projections, Edges)
      /\ gnodes' = [n \in GNodes |-> "deleted"] /\ cut' = {} /\ seedless' = {}
      /\ UNCHANGED <<search, removals, patches, raced>>
  BY DEF DeleteGraph
<1>2. gnodes' \in [GNodes -> GNode] /\ Starts' = {}
  BY <1>1 DEF GNode, Starts
<1>3. HistoryTyped'
  BY <1>0, <1>1 DEF Typed, HistoryTyped, Cascade
<1>4. Defined \subseteq Rules /\ \A p \in projections \ projections : FALSE
  BY DEF Defined
<1> DEFINE dead == Rules
           gone == projections
           lost == Edges
<1>5. /\ \A e \in Edges \ lost : {e[1], e[2]} \subseteq Present'
      /\ \A r \in Defined \ dead : rules[r].owner \in Present'
      /\ \A r \in Defined \ (dead \cup rewired) : \A d \in rules[r].outputs :
               <<rules[r].owner, d>> \in lost <=> Derived(r, rules[r].owner, d) \in gone
      /\ \A r \in (Defined \ dead) \ cut' :
               r \notin cut /\ rules[r].inputs \cap (gone \cup Generated(dead)) = {}
      /\ \A m \in GNodes \ seedless' : Seed(m) \in projections \ gone <=> m \in Starts'
      /\ \A p \in projections \ gone : p.owner \in Starts => p.owner \in Starts'
  BY <1>2, <1>4
<1>6. dead \in SUBSET Rules /\ Cascade(dead, gone, lost) /\ Starts' \subseteq Starts
  BY <1>1, <1>2
<1> HIDE DEF dead, gone, lost
<1> QED BY <1>1, <1>2, <1>3, <1>5, <1>6, CascadeInv

\* All that consumes what comes over the edge goes, and all downstream.
LEMMA DeleteEdgeInv ==
    ASSUME AuthoringInv, NEW e \in Edges, DeleteEdge(e)
    PROVE  AuthoringInv'
<1> DEFINE gone == {p \in projections : p.source = e[1] /\ p.owner = e[2]}
           dead == WithDownstream(Consumers(gone))
           lost == {e}
<1>0. Typed /\ Anchored /\ RoutesKept /\ StartIsRoot
  BY DEF AuthoringInv
<1>1. /\ Removal /\ Cascade(dead, gone, lost) /\ cut' = cut \ dead
      /\ UNCHANGED <<gnodes, search, patches, raced, seedless>>
  BY DEF DeleteEdge, EdgeRow
<1>2. dead \in SUBSET Rules /\ Consumers(gone) \subseteq dead /\ Consumers(Generated(dead)) \subseteq dead
  <2>1. Consumers(gone) \in SUBSET Rules
    BY DEF Consumers
  <2> QED BY <2>1, DownstreamFacts
<1>3. gnodes' \in [GNodes -> GNode] /\ Present' = Present /\ Starts' = Starts
  BY <1>0, <1>1 DEF Typed, GraphTyped, Present, Starts
<1>4. e = <<e[1], e[2]>> /\ e[1] \in GNodes /\ e[2] \in GNodes
  BY <1>0 DEF Typed, GraphTyped, Edges, Edge
<1>5. HistoryTyped'
  <2>1. removals' \in 0..MaxRemovals
    BY <1>0, <1>1, RemovalType DEF Typed
  <2>2. rewired' \subseteq Rules /\ cut' \subseteq Rules /\ seedless' \subseteq GNodes
    BY <1>0, <1>1 DEF Typed, HistoryTyped, Cascade
  <2> QED BY <1>0, <1>1, <2>1, <2>2 DEF Typed, HistoryTyped
<1>6. /\ \A g \in Edges \ lost : {g[1], g[2]} \subseteq Present'
      /\ \A r \in Defined \ dead : rules[r].owner \in Present'
  BY <1>0, <1>3 DEF Anchored
<1>7. ASSUME NEW r \in Defined \ (dead \cup rewired), NEW d \in rules[r].outputs
      PROVE  <<rules[r].owner, d>> \in lost <=> Derived(r, rules[r].owner, d) \in gone
  BY <1>0, <1>4, OutputRow DEF Derived
<1>8. ASSUME NEW r \in (Defined \ dead) \ cut'
      PROVE  r \notin cut /\ rules[r].inputs \cap (gone \cup Generated(dead)) = {}
  <2>1. r \notin dead /\ r \in Rules /\ r \notin cut
    BY <1>1, <1>8 DEF Defined
  <2> HIDE DEF gone, dead
  <2> QED BY <1>2, <2>1 DEF Consumers
<1>9. ASSUME NEW m \in GNodes \ seedless' PROVE Seed(m) \in projections \ gone <=> m \in Starts'
  BY <1>0, <1>1, <1>3, <1>4, SeedRow, AuthoringAssumption DEF StartIsRoot
<1> HIDE DEF dead, gone, lost
<1> QED BY <1>1, <1>2, <1>3, <1>5, <1>6, <1>7, <1>8, <1>9, CascadeInv

\* All downstream of the rule goes.
LEMMA DeleteRuleInv ==
    ASSUME AuthoringInv, NEW r \in Rules, DeleteRule(r)
    PROVE  AuthoringInv'
<1> DEFINE gone == {}
           dead == WithDownstream({r})
           lost == {}
<1>0. Typed /\ Anchored /\ StartIsRoot
  BY DEF AuthoringInv
<1>1. /\ Removal /\ Cascade(dead, gone, lost) /\ cut' = cut \ dead
      /\ UNCHANGED <<gnodes, search, patches, raced, seedless>>
  BY DEF DeleteRule
<1>2. dead \in SUBSET Rules /\ Consumers(Generated(dead)) \subseteq dead
  BY DownstreamFacts
<1>3. gnodes' \in [GNodes -> GNode] /\ Present' = Present /\ Starts' = Starts
  BY <1>0, <1>1 DEF Typed, GraphTyped, Present, Starts
<1>4. HistoryTyped'
  <2>1. removals' \in 0..MaxRemovals
    BY <1>0, <1>1, RemovalType DEF Typed
  <2>2. rewired' \subseteq Rules /\ cut' \subseteq Rules /\ seedless' \subseteq GNodes
    BY <1>0, <1>1 DEF Typed, HistoryTyped, Cascade
  <2> QED BY <1>0, <1>1, <2>1, <2>2 DEF Typed, HistoryTyped
<1>5. /\ \A g \in Edges \ lost : {g[1], g[2]} \subseteq Present'
      /\ \A q \in Defined \ dead : rules[q].owner \in Present'
      /\ \A q \in Defined \ (dead \cup rewired) : \A d \in rules[q].outputs :
               <<rules[q].owner, d>> \in lost <=> Derived(q, rules[q].owner, d) \in gone
      /\ \A m \in GNodes \ seedless' : Seed(m) \in projections \ gone <=> m \in Starts'
      /\ \A p \in projections \ gone : p.owner \in Starts => p.owner \in Starts'
  BY <1>0, <1>1, <1>3 DEF Anchored, StartIsRoot
<1>6. ASSUME NEW q \in (Defined \ dead) \ cut'
      PROVE  q \notin cut /\ rules[q].inputs \cap (gone \cup Generated(dead)) = {}
  <2>1. q \notin dead /\ q \in Rules /\ q \notin cut
    BY <1>1, <1>6 DEF Defined
  <2> HIDE DEF dead
  <2> QED BY <1>2, <2>1 DEF Consumers
<1> HIDE DEF dead, gone, lost
<1> QED BY <1>1, <1>2, <1>3, <1>4, <1>5, <1>6, CascadeInv

-----------------------------------------------------------------------------
(* Every step, and what follows.                                           *)

\* Every step keeps the structure whole.
LEMMA AuthoringStep == AuthoringInv /\ [AuthoringNext]_authoringVars => AuthoringInv'
<1> SUFFICES ASSUME AuthoringInv, [AuthoringNext]_authoringVars PROVE AuthoringInv'
  OBVIOUS
<1>1. CASE UNCHANGED authoringVars
  BY <1>1 DEF AuthoringInv, authoringVars, Typed, GraphTyped, RulesTyped, SearchTyped, HistoryTyped,
              Anchored, SeedsConsumed, Founded, ForwardAcyclic, Searched, RoutesKept, InputsKept,
              StartIsRoot, Edges, Present, Starts, Defined, IsSeed, Generated, Consumers
<1>2. CASE NodeNext
  BY <1>2, CreateNodeInv, MakeStartInv, MakePlainInv, DeleteNodeInv, DeleteGraphInv DEF NodeNext
<1>3. CASE \E c \in Creators : CreatorNext(c)
  BY <1>3, FindEdgeTypeInv, CreateEdgeInv DEF CreatorNext
<1>4. CASE \E e \in Edges : DeleteEdge(e)
  BY <1>4, DeleteEdgeInv
<1>5. CASE RuleNext
  <2>1. PICK r \in Rules :
          \/ \E n \in Present :
              \E ps \in SUBSET {p \in projections : p.owner = n}, ds \in OutputChoices(n) :
                  CreateRule(r, n, ps, ds)
          \/ \E ds \in OutputChoices(rules[r].owner), terminal \in BOOLEAN : UpdateRule(r, ds, terminal)
          \/ DeleteRule(r)
    BY <1>5 DEF RuleNext
  <2>2. ASSUME NEW n, NEW ds \in OutputChoices(n) PROVE ds \in SUBSET GNodes
    <3>1. ASSUME NEW E PROVE Destinations(E, n) \subseteq GNodes
      BY DEF Destinations
    <3>2. Destinations(forward, n) \subseteq GNodes /\ Destinations(feedback, n) \subseteq GNodes
      BY <3>1
    <3>3. ds \in SUBSET Destinations(forward, n) \/ ds \in SUBSET Destinations(feedback, n)
      BY <2>2, Zenon DEF OutputChoices
    <3> QED BY <3>2, <3>3
  <2>3. CASE \E n \in Present :
              \E ps \in SUBSET {p \in projections : p.owner = n}, ds \in OutputChoices(n) :
                  CreateRule(r, n, ps, ds)
    <3>1. PICK n \in Present :
             \E ps \in SUBSET {p \in projections : p.owner = n}, ds \in OutputChoices(n) :
                 CreateRule(r, n, ps, ds)
      BY <2>3
    <3>2. PICK ps \in SUBSET {p \in projections : p.owner = n}, ds \in OutputChoices(n) :
             CreateRule(r, n, ps, ds)
      BY <3>1
    <3>3. n \in GNodes /\ ps \in SUBSET projections /\ ds \in SUBSET GNodes
      BY <2>2 DEF Present
    <3> QED BY <3>2, <3>3, CreateRuleInv
  <2>4. CASE \E ds \in OutputChoices(rules[r].owner), terminal \in BOOLEAN : UpdateRule(r, ds, terminal)
    <3>1. PICK ds \in OutputChoices(rules[r].owner), terminal \in BOOLEAN : UpdateRule(r, ds, terminal)
      BY <2>4
    <3>2. ds \in SUBSET GNodes
      BY <2>2
    <3> QED BY <3>1, <3>2, UpdateRuleInv
  <2>5. CASE DeleteRule(r)
    BY <2>5, DeleteRuleInv
  <2> QED BY <2>1, <2>3, <2>4, <2>5
<1> QED BY <1>1, <1>2, <1>3, <1>4, <1>5 DEF AuthoringNext

\* So it is whole in every state.
LEMMA AuthoringInvariance == AuthoringSpec => []AuthoringInv
  BY AuthoringInitInv, AuthoringStep, PTL DEF AuthoringSpec

\* Every variable of a graph under edit keeps its type; a rule only consumes what exists.
THEOREM AuthoringTypeCorrect == AuthoringSpec => []AuthoringTypeOK
<1>1. AuthoringInv => AuthoringTypeOK
  BY TypedEnough DEF AuthoringInv
<1> QED BY <1>1, AuthoringInvariance, PTL

\* However a graph is edited, its forward edges have no cycle, unless two creations of edges
\* overlapped.
THEOREM ForwardStaysAcyclic == AuthoringSpec => []ForwardAcyclic
<1>1. AuthoringInv => ForwardAcyclic
  BY DEF AuthoringInv
<1> QED BY <1>1, AuthoringInvariance, PTL

\* A rule has a projection exactly at the nodes its outputs lead to, however edges, nodes and
\* rules come and go, unless its outputs were changed.
THEOREM RoutesAreKept == AuthoringSpec => []RoutesKept
<1>1. AuthoringInv => RoutesKept
  BY DEF AuthoringInv
<1> QED BY <1>1, AuthoringInvariance, PTL

\* A placeholder of a prompt stands for an input the rule still has, unless the node that
\* provided it was deleted.
THEOREM InputsAreKept == AuthoringSpec => []InputsKept
<1>1. AuthoringInv => InputsKept
  BY DEF AuthoringInv
<1> QED BY <1>1, AuthoringInvariance, PTL

\* No forward edge leads to a start node, and a node has its seed if and only if it is a start
\* node, unless it was made one when it had a feedback edge.
THEOREM StartsStayRoots == AuthoringSpec => []StartIsRoot
<1>1. AuthoringInv => StartIsRoot
  BY DEF AuthoringInv
<1> QED BY <1>1, AuthoringInvariance, PTL

\* In a graph of any size, after any edits, every rule that is not spoilt can fire in a run of
\* the snapshot MS15 is given: its inputs lead back to seeds through rules that fire.
THEOREM RulesAlwaysCanFire == AuthoringSpec => []RulesCanFire
  BY FireEnough, AuthoringInvariance, PTL

-----------------------------------------------------------------------------
(* Claims and links.                                                       *)

\* While an operation has still to save its link, the agent it claimed is marked, or another
\* operation released it; what it releases is not what it claims.
ClaimHeld ==
    \A t \in Tasks :
        /\ task[t].new \notin task[t].old
        /\ task[t].step \in {"unclaim", "save"} /\ task[t].new # NoAgent
           /\ agents[task[t].new] = "free"
               => task[t].slots \X {task[t].new} \subseteq undone \cup shared

\* Once nothing but the deletion itself is left, every link to the agent is excused.
LinksExcused ==
    \A x \in Agents :
        removing[x] = "delete" \/ agents[x] = "gone" =>
            \A s \in Linked(x) : <<s, x>> \in unmarked \cup late \/ x \in unheard

ClaimsInv == ClaimsTypeOK /\ ClaimHeld /\ LinkedIsUsed /\ LinksExcused

\* What is excused covers every link to an agent that is gone.
LEMMA LinksEnough == ASSUME ClaimsTypeOK, LinksExcused PROVE NoDanglingLink
  BY DEF ClaimsTypeOK, LinksExcused, NoDanglingLink, Linked

TaskRow == [step: {"idle", "claim", "unclaim", "save"}, slots: SUBSET Slots, old: SUBSET Agents,
            released: SUBSET Agents, new: Agents \cup {NoAgent}]

RowsOK == /\ agents \in [Agents -> Agent] /\ link \in [Slots -> Agents \cup {NoAgent}]
          /\ task \in [Tasks -> TaskRow] /\ removing \in [Agents -> {"idle", "notify", "delete"}]
CountsOK == operations \in 0..MaxOperations /\ losses \in 0..MaxLosses
PairsOK == shared \cup undone \cup late \cup unmarked \subseteq Slots \X Agents /\ unheard \subseteq Agents

\* The type invariant in three parts.
LEMMA ClaimsParts ==
    /\ ClaimsTypeOK <=> RowsOK /\ CountsOK /\ PairsOK
    /\ ClaimsTypeOK' <=> RowsOK' /\ CountsOK' /\ PairsOK'
  BY DEF ClaimsTypeOK, RowsOK, CountsOK, PairsOK, TaskRow

\* The row of no operation.
LEMMA NoTaskRow == NoTask \in TaskRow /\ NoTask.step = "idle" /\ NoTask.new = NoAgent /\ NoTask.old = {}
  BY DEF NoTask, TaskRow

\* Failures are counted up to their bound.
LEMMA LossType == ASSUME CountsOK, Loss \/ UNCHANGED losses PROVE losses' \in 0..MaxLosses
  BY ClaimsAssumption DEF CountsOK, Loss

\* At the start nothing is linked.
LEMMA ClaimsInitInv == ClaimsInit => ClaimsInv
  BY NoTaskRow, ClaimsAssumption
  DEF ClaimsInit, ClaimsInv, ClaimsTypeOK, ClaimHeld, LinkedIsUsed, LinksExcused, Agent, Linked, TaskRow

\* An operation begins: nothing but its own row changes.
Begins(t) ==
    /\ task[t].step = "idle"
    /\ operations < MaxOperations /\ operations' = operations + 1
    /\ \E row \in TaskRow :
        /\ task' = [task EXCEPT ![t] = row]
        /\ row.new \notin row.old
        /\ row.step = "claim" \/ (row.step = "unclaim" /\ row.new = NoAgent)
    /\ UNCHANGED <<agents, link, removing, losses, shared, undone, late, unmarked, unheard>>

\* The agents of nodes are agents.
LEMMA AgentsOfType == ASSUME RowsOK, NEW ss PROVE ss \subseteq Slots => AgentsOf(ss) \subseteq Agents
  BY DEF RowsOK, AgentsOf

\* Every operation begins like that.
LEMMA BeginSteps ==
    ASSUME ClaimsInv, NEW t \in Tasks
    PROVE  /\ \A s \in Slots, x \in Agents : Attach(t, s, x) => Begins(t)
           /\ \A ss \in SUBSET Slots : Release(t, ss) => Begins(t)
<1>0. RowsOK
  BY ClaimsParts DEF ClaimsInv
<1>1. ASSUME NEW s \in Slots, NEW x \in Agents, Attach(t, s, x) PROVE Begins(t)
  <2> DEFINE row == [step |-> "claim", slots |-> {s}, old |-> AgentsOf({s}) \ {x},
                     released |-> {}, new |-> x]
  <2>1. row \in TaskRow
    BY <1>0, AgentsOfType DEF TaskRow
  <2>2. row.new \notin row.old /\ row.step = "claim"
    OBVIOUS
  <2>3. /\ task' = [task EXCEPT ![t] = row]
        /\ task[t].step = "idle" /\ operations < MaxOperations /\ operations' = operations + 1
        /\ UNCHANGED <<agents, link, removing, losses, shared, undone, late, unmarked, unheard>>
    BY <1>1 DEF Attach
  <2> HIDE DEF row
  <2> QED BY <2>1, <2>2, <2>3 DEF Begins
<1>2. ASSUME NEW ss \in SUBSET Slots, Release(t, ss) PROVE Begins(t)
  <2> DEFINE row == [step |-> "unclaim", slots |-> ss, old |-> AgentsOf(ss), released |-> {}, new |-> NoAgent]
  <2>1. row \in TaskRow /\ NoAgent \notin AgentsOf(ss)
    BY <1>0, AgentsOfType DEF TaskRow, AgentsOf
  <2> QED BY <1>2, <2>1 DEF Release, Begins
<1> QED BY <1>1, <1>2

\* An operation that begins has released nothing.
LEMMA BeginInv ==
    ASSUME ClaimsInv, NEW t \in Tasks, Begins(t)
    PROVE  ClaimsInv'
<1>0. RowsOK /\ CountsOK /\ PairsOK
  BY ClaimsParts DEF ClaimsInv
<1>1. PICK row \in TaskRow : /\ task' = [task EXCEPT ![t] = row] /\ row.new \notin row.old
                             /\ row.step = "claim" \/ (row.step = "unclaim" /\ row.new = NoAgent)
  BY DEF Begins
<1>2. UNCHANGED <<agents, link, removing, losses, shared, undone, late, unmarked, unheard>>
      /\ task[t].step = "idle" /\ operations' \in 0..MaxOperations
  BY <1>0, ClaimsAssumption DEF Begins, CountsOK
<1>3. RowsOK' /\ CountsOK' /\ PairsOK'
  BY <1>0, <1>1, <1>2 DEF RowsOK, CountsOK, PairsOK
<1>4. ClaimHeld'
  BY <1>0, <1>1, <1>2 DEF ClaimsInv, ClaimHeld, RowsOK
<1>5. LinkedIsUsed'
  <2>1. ASSUME NEW s \in Slots, Releasing(s) PROVE Releasing(s)'
    BY <1>0, <1>1, <1>2, <2>1 DEF Releasing, Open, RowsOK
  <2> QED BY <1>2, <2>1 DEF ClaimsInv, LinkedIsUsed
<1>6. LinksExcused'
  BY <1>2 DEF ClaimsInv, LinksExcused, Linked
<1> QED BY <1>3, <1>4, <1>5, <1>6, ClaimsParts DEF ClaimsInv

\* What the operation had released and its nodes are still linked to is in undone.
LEMMA RollBackInv ==
    ASSUME ClaimsInv, NEW t \in Tasks, RollBack(t), CountsOK',
           UNCHANGED <<agents, link, removing, shared, late, unmarked, unheard>>
    PROVE  ClaimsInv'
<1>0. RowsOK /\ CountsOK /\ PairsOK /\ task[t] \in TaskRow
  BY ClaimsParts DEF ClaimsInv, RowsOK
<1>1. /\ task' = [task EXCEPT ![t] = NoTask]
      /\ undone \subseteq undone' /\ undone' \subseteq Slots \X Agents
      /\ \A s \in task[t].slots : link[s] \in task[t].released => <<s, link[s]>> \in undone'
  BY <1>0 DEF RollBack, PairsOK, TaskRow
<1>2. RowsOK' /\ PairsOK'
  BY <1>0, <1>1, NoTaskRow DEF RowsOK, PairsOK
<1>3. ClaimHeld'
  BY <1>0, <1>1, NoTaskRow DEF ClaimsInv, ClaimHeld, RowsOK
<1>4. LinkedIsUsed'
  <2>1. ASSUME NEW s \in Slots, Releasing(s) PROVE Releasing(s)' \/ <<s, link[s]>> \in undone'
    BY <1>0, <1>1, <2>1 DEF Releasing, Open, RowsOK
  <2> QED BY <1>1, <2>1 DEF ClaimsInv, LinkedIsUsed
<1>5. LinksExcused'
  BY DEF ClaimsInv, LinksExcused, Linked
<1> QED BY <1>2, <1>3, <1>4, <1>5, ClaimsParts DEF ClaimsInv

\* The agent is marked before the link is saved.
LEMMA ClaimInv ==
    ASSUME ClaimsInv, NEW t \in Tasks, Claim(t)
    PROVE  ClaimsInv'
<1> DEFINE x == task[t].new
           row == [task[t] EXCEPT !.step = Following(task[t].old)]
<1>0. /\ RowsOK /\ CountsOK /\ PairsOK /\ task[t] \in TaskRow
      /\ UNCHANGED <<operations, link, removing, late, unmarked, unheard>>
  BY ClaimsParts DEF ClaimsInv, RowsOK, Claim
<1>1. CASE RollBack(t) /\ UNCHANGED <<agents, shared>> /\ losses' \in 0..MaxLosses
  <2>1. CountsOK'
    BY <1>0, <1>1 DEF CountsOK
  <2> QED BY <1>0, <1>1, <2>1, RollBackInv
<1>2. CASE /\ Exists(x) /\ agents' = Marked(x)
           /\ task' = [task EXCEPT ![t].step = Following(task[t].old)]
           /\ shared' = shared \ (Slots \X {x}) /\ undone' = undone \ (Slots \X {x})
           /\ UNCHANGED losses
  <2>1. /\ agents' \in [Agents -> Agent] /\ (x \in Agents => agents'[x] = "used")
        /\ \A y \in Agents : y # x => agents'[y] = agents[y]
    BY <1>0, <1>2 DEF RowsOK, Marked, Agent
  <2>3. /\ task' = [task EXCEPT ![t] = row] /\ row \in TaskRow /\ row.step \in {"unclaim", "save"}
        /\ row.slots = task[t].slots /\ row.released = task[t].released
        /\ row.new = x /\ row.old = task[t].old
    BY <1>0, <1>2 DEF RowsOK, TaskRow, Following
  <2> HIDE DEF row
  <2>4. RowsOK' /\ CountsOK' /\ PairsOK'
    BY <1>0, <1>2, <2>1, <2>3 DEF RowsOK, CountsOK, PairsOK
  <2>5. ClaimHeld'
    <3> SUFFICES ASSUME NEW u \in Tasks
                 PROVE  /\ task'[u].new \notin task'[u].old
                        /\ task'[u].step \in {"unclaim", "save"} /\ task'[u].new # NoAgent
                           /\ agents'[task'[u].new] = "free"
                           => task'[u].slots \X {task'[u].new} \subseteq undone' \cup shared'
      BY DEF ClaimHeld
    <3>1. task'[u].new \in Agents \cup {NoAgent} /\ task'[u].new = task[u].new /\ task'[u].old = task[u].old
          /\ task'[u].slots = task[u].slots /\ (task[u].new # x => task'[u].step = task[u].step)
      BY <1>0, <2>3, <2>4 DEF RowsOK, TaskRow
    <3> QED BY <1>2, <2>1, <3>1 DEF ClaimsInv, ClaimHeld
  <2>6. ASSUME NEW s \in Slots, Releasing(s) PROVE Releasing(s)'
    BY <1>0, <2>3, <2>6 DEF Releasing, Open, RowsOK
  <2>7. LinkedIsUsed'
    BY <1>0, <1>2, <2>1, <2>6 DEF ClaimsInv, LinkedIsUsed, RowsOK
  <2>8. LinksExcused'
    BY <1>0, <1>2, <2>1 DEF ClaimsInv, LinksExcused, Linked
  <2> QED BY <2>4, <2>5, <2>7, <2>8, ClaimsParts DEF ClaimsInv
<1>3. losses' \in 0..MaxLosses
  BY <1>0, LossType DEF Claim, RollBack
<1> QED BY <1>1, <1>2, <1>3 DEF Claim

\* Whoever else is linked to the agent, or about to be, is in shared.
LEMMA UnclaimInv ==
    ASSUME ClaimsInv, NEW t \in Tasks, NEW x \in Agents, Unclaim(t, x)
    PROVE  ClaimsInv'
<1> DEFINE old == task[t].old \ {x}
<1>0. /\ RowsOK /\ CountsOK /\ PairsOK /\ task[t] \in TaskRow
      /\ UNCHANGED <<operations, link, removing, undone, late, unmarked, unheard>>
      /\ task[t].step = "unclaim" /\ x \in task[t].old /\ task[t].new # x
  BY ClaimsParts DEF ClaimsInv, RowsOK, Unclaim, ClaimHeld
<1>1. PICK row \in TaskRow :
        /\ task' = [task EXCEPT ![t] = row]
        /\ row.step = Following(old) /\ row.slots = task[t].slots
        /\ row.old = old /\ row.new = task[t].new
        /\ \/ /\ agents' = IF Exists(x) THEN [agents EXCEPT ![x] = "free"] ELSE agents
              /\ row.released = task[t].released \cup {x}
              /\ shared' = shared \cup (OthersOf(t, x) \X {x})
              /\ UNCHANGED losses
           \/ Loss /\ row.released = task[t].released /\ UNCHANGED <<agents, shared>>
  <2>1. Following(old) \in {"unclaim", "save"}
    BY DEF Following
  <2>2. CASE /\ agents' = IF Exists(x) THEN [agents EXCEPT ![x] = "free"] ELSE agents
             /\ task' = [task EXCEPT ![t].step = Following(old), ![t].old = old, ![t].released = @ \cup {x}]
             /\ shared' = shared \cup (OthersOf(t, x) \X {x})
             /\ UNCHANGED losses
    <3> DEFINE row == [task[t] EXCEPT !.step = Following(old), !.old = old, !.released = @ \cup {x}]
    <3>1. row \in TaskRow /\ task' = [task EXCEPT ![t] = row]
      BY <1>0, <2>1, <2>2 DEF TaskRow, RowsOK
    <3>2. /\ row.step = Following(old) /\ row.slots = task[t].slots /\ row.old = old
          /\ row.new = task[t].new /\ row.released = task[t].released \cup {x}
      BY <1>0 DEF TaskRow
    <3> HIDE DEF row
    <3> QED BY <2>2, <3>1, <3>2
  <2>3. CASE /\ Loss /\ UNCHANGED <<agents, shared>>
             /\ task' = [task EXCEPT ![t].step = Following(old), ![t].old = old]
    <3> DEFINE row == [task[t] EXCEPT !.step = Following(old), !.old = old]
    <3>1. row \in TaskRow /\ task' = [task EXCEPT ![t] = row]
      BY <1>0, <2>1, <2>3 DEF TaskRow, RowsOK
    <3>2. /\ row.step = Following(old) /\ row.slots = task[t].slots /\ row.old = old
          /\ row.new = task[t].new /\ row.released = task[t].released
      BY <1>0 DEF TaskRow
    <3> HIDE DEF row
    <3> QED BY <2>3, <3>1, <3>2
  <2> QED BY <2>2, <2>3 DEF Unclaim
<1>2. /\ agents' \in [Agents -> Agent] /\ shared \subseteq shared' /\ shared' \subseteq Slots \X Agents
      /\ \A y \in Agents : agents'[y] = "gone" <=> agents[y] = "gone"
      /\ \A y \in Agents : y # x => agents'[y] = agents[y]
  <2>1. OthersOf(t, x) \subseteq Slots
    BY <1>0 DEF OthersOf, Linked, Open, RowsOK, TaskRow
  <2> QED BY <1>0, <1>1, <2>1 DEF RowsOK, PairsOK, Agent, Exists
<1>3. RowsOK' /\ CountsOK' /\ PairsOK'
  <2>1. losses' \in 0..MaxLosses
    BY <1>0, <1>1, LossType
  <2> QED BY <1>0, <1>1, <1>2, <2>1 DEF RowsOK, CountsOK, PairsOK
<1>4. ASSUME NEW u \in Tasks
      PROVE  /\ task'[u].new = task[u].new /\ task'[u].old \subseteq task[u].old /\ task'[u].slots = task[u].slots
             /\ task[u].released \subseteq task'[u].released
             /\ task'[u].step = task[u].step \/ (u = t /\ task'[u].step \in {"unclaim", "save"})
  BY <1>0, <1>1 DEF RowsOK, Following
<1>5. ClaimHeld'
  <2> SUFFICES ASSUME NEW u \in Tasks, task'[u].step \in {"unclaim", "save"}, task'[u].new # NoAgent,
                      agents'[task'[u].new] = "free"
               PROVE  task'[u].slots \X {task'[u].new} \subseteq undone' \cup shared'
    BY <1>4 DEF ClaimsInv, ClaimHeld
  <2>1. task[u].new \in Agents /\ task[u].step \in {"unclaim", "save"}
    BY <1>0, <1>4 DEF RowsOK, TaskRow
  <2>2. CASE agents[task[u].new] = "free"
    BY <1>0, <1>2, <1>4, <2>1, <2>2 DEF ClaimsInv, ClaimHeld
  <2>3. CASE agents[task[u].new] # "free"
    <3>1. task[u].new = x /\ u # t /\ u \in Open
      BY <1>0, <1>2, <1>4, <2>1, <2>3 DEF Open
    <3>2. task[u].slots \subseteq OthersOf(t, x)
      BY <2>1, <3>1 DEF OthersOf
    <3>3. agents' # agents
      BY <1>4, <2>3
    <3> QED BY <1>1, <1>4, <3>1, <3>2, <3>3
  <2> QED BY <2>2, <2>3
<1>6. LinkedIsUsed'
  <2> SUFFICES ASSUME NEW s \in Slots, link[s] # NoAgent, agents'[link[s]] = "free"
               PROVE  Releasing(s)' \/ <<s, link[s]>> \in undone \cup shared'
    BY <1>0 DEF LinkedIsUsed
  <2>0. link[s] \in Agents
    BY <1>0 DEF RowsOK
  <2>1. ASSUME Releasing(s) PROVE Releasing(s)'
    <3>1. PICK u \in Open : s \in task[u].slots /\ link[s] \in task[u].released
      BY <2>1 DEF Releasing
    <3>2. u \in Open'
      BY <1>4 DEF Open
    <3> QED BY <1>0, <1>4, <3>1, <3>2 DEF Releasing, Open
  <2>2. CASE agents[link[s]] = "free"
    BY <1>2, <2>1, <2>2 DEF ClaimsInv, LinkedIsUsed
  <2>3. CASE agents[link[s]] # "free"
    <3>1. link[s] = x /\ agents' # agents
      BY <1>2, <2>0, <2>3
    <3>2. CASE s \in task[t].slots
      <4>1. t \in Open' /\ link[s] \in task'[t].released
        BY <1>0, <1>1, <3>1 DEF Open, RowsOK, Following
      <4> QED BY <1>0, <1>4, <3>2, <4>1 DEF Releasing
    <3>3. CASE s \notin task[t].slots
      <4>1. s \in OthersOf(t, x)
        BY <3>1, <3>3 DEF OthersOf, Linked
      <4> QED BY <1>1, <3>1, <4>1
    <3> QED BY <3>2, <3>3
  <2> QED BY <2>2, <2>3
<1>7. LinksExcused'
  BY <1>0, <1>2 DEF ClaimsInv, LinksExcused, Linked
<1> QED BY <1>3, <1>4, <1>5, <1>6, <1>7, ClaimsParts DEF ClaimsInv

\* The links that are saved lead to the agent the operation claimed.
LEMMA SaveInv ==
    ASSUME ClaimsInv, NEW t \in Tasks, SaveLinks(t)
    PROVE  ClaimsInv'
<1> DEFINE ss == task[t].slots
           x == task[t].new
<1>0. /\ RowsOK /\ CountsOK /\ PairsOK /\ task[t] \in TaskRow /\ task[t].step = "save"
      /\ UNCHANGED <<operations, agents, removing, losses, shared, undone, unmarked, unheard>>
      /\ task' = [task EXCEPT ![t] = NoTask] /\ Open \subseteq {t}
  BY ClaimsParts DEF ClaimsInv, RowsOK, SaveLinks, OnlyOpen
<1>1. /\ link' \in [Slots -> Agents \cup {NoAgent}]
      /\ \A s \in Slots : link'[s] = IF s \in ss THEN x ELSE link[s]
  BY <1>0 DEF SaveLinks, Relink, RowsOK, TaskRow
<1>2. /\ late \subseteq late' /\ late' \subseteq Slots \X Agents
      /\ \A s \in ss : x # NoAgent /\ (agents[x] = "gone" \/ removing[x] # "idle") => <<s, x>> \in late'
  BY <1>0 DEF SaveLinks, PairsOK, TaskRow
<1>3. RowsOK' /\ CountsOK' /\ PairsOK'
  BY <1>0, <1>1, <1>2, NoTaskRow DEF RowsOK, CountsOK, PairsOK
<1>4. ClaimHeld'
  BY <1>0, NoTaskRow DEF ClaimsInv, ClaimHeld, RowsOK
<1>5. LinkedIsUsed'
  <2> SUFFICES ASSUME NEW s \in Slots, link'[s] # NoAgent, agents[link'[s]] = "free"
               PROVE  <<s, link'[s]>> \in undone \cup shared
    BY <1>0 DEF LinkedIsUsed
  <2>1. CASE s \in ss
    BY <1>0, <1>1, <2>1 DEF ClaimsInv, ClaimHeld
  <2>2. CASE s \notin ss
    BY <1>0, <1>1, <2>2 DEF ClaimsInv, LinkedIsUsed, Releasing
  <2> QED BY <2>1, <2>2
<1>6. LinksExcused'
  <2> SUFFICES ASSUME NEW y \in Agents, removing[y] = "delete" \/ agents[y] = "gone",
                      NEW s \in Slots, link'[s] = y
               PROVE  <<s, y>> \in unmarked \cup late' \/ y \in unheard
    BY <1>0 DEF LinksExcused, Linked
  <2>1. CASE s \in ss
    BY <1>1, <1>2, <2>1, ClaimsAssumption
  <2>2. CASE s \notin ss
    BY <1>1, <1>2, <2>2 DEF ClaimsInv, LinksExcused, Linked
  <2> QED BY <2>1, <2>2
<1> QED BY <1>3, <1>4, <1>5, <1>6, ClaimsParts DEF ClaimsInv

\* A transaction that fails is rolled back.
LEMMA FailInv ==
    ASSUME ClaimsInv, NEW t \in Tasks, FailToSave(t)
    PROVE  ClaimsInv'
<1>1. CountsOK
  BY ClaimsParts DEF ClaimsInv
<1>2. losses' \in 0..MaxLosses /\ operations' = operations
  BY <1>1, LossType DEF FailToSave
<1>3. CountsOK'
  BY <1>1, <1>2 DEF CountsOK
<1> QED BY <1>3, RollBackInv DEF FailToSave

\* Links only go: nothing else of MS14 changes.
LEMMA UnlinkInv ==
    ASSUME ClaimsInv, NEW ss, Open = {}, Relink(ss, NoAgent),
           UNCHANGED <<operations, agents, task, removing, losses, shared, undone, late, unmarked, unheard>>
    PROVE  ClaimsInv'
<1>0. RowsOK /\ CountsOK /\ PairsOK
  BY ClaimsParts DEF ClaimsInv
<1>1. /\ link' \in [Slots -> Agents \cup {NoAgent}]
      /\ \A s \in Slots : link'[s] = NoAgent \/ link'[s] = link[s]
  BY <1>0 DEF Relink, RowsOK
<1>2. RowsOK' /\ CountsOK' /\ PairsOK'
  BY <1>0, <1>1 DEF RowsOK, CountsOK, PairsOK
<1>3. ClaimHeld'
  BY DEF ClaimsInv, ClaimHeld
<1>4. LinkedIsUsed'
  BY <1>1 DEF ClaimsInv, LinkedIsUsed, Releasing, Open
<1>5. LinksExcused'
  BY <1>1, ClaimsAssumption DEF ClaimsInv, LinksExcused, Linked
<1> QED BY <1>2, <1>3, <1>4, <1>5, ClaimsParts DEF ClaimsInv

\* An agent that is not marked has its links noted before it is deleted.
LEMMA LoadInv ==
    ASSUME ClaimsInv, NEW x \in Agents, LoadToDelete(x)
    PROVE  ClaimsInv'
<1>0. RowsOK /\ CountsOK /\ PairsOK /\ UNCHANGED <<operations, agents, link, task, losses, shared, undone, late, unheard>>
  BY ClaimsParts DEF ClaimsInv, LoadToDelete
<1>1. /\ removing' \in [Agents -> {"idle", "notify", "delete"}]
      /\ \A y \in Agents : y # x => removing'[y] = removing[y]
      /\ removing'[x] = "delete" => agents[x] = "free"
      /\ agents[x] # "gone"
  BY <1>0 DEF RowsOK, LoadToDelete, MustNotify, Exists, Agent
<1>2. /\ unmarked \subseteq unmarked' /\ unmarked' \subseteq Slots \X Agents
      /\ agents[x] = "free" => Linked(x) \X {x} \subseteq unmarked'
  BY <1>0 DEF PairsOK, LoadToDelete, Linked
<1>3. RowsOK' /\ CountsOK' /\ PairsOK'
  BY <1>0, <1>1, <1>2 DEF RowsOK, CountsOK, PairsOK
<1>4. ClaimHeld' /\ LinkedIsUsed'
  BY <1>0 DEF ClaimsInv, ClaimHeld, LinkedIsUsed, Releasing, Open
<1>5. LinksExcused'
  BY <1>0, <1>1, <1>2 DEF ClaimsInv, LinksExcused, Linked
<1> QED BY <1>3, <1>4, <1>5, ClaimsParts DEF ClaimsInv

\* MS14 removes every link to the agent, or does not hear of the deletion.
LEMMA NotifyInv ==
    ASSUME ClaimsInv, NEW x \in Agents, NotifyDeletion(x)
    PROVE  ClaimsInv'
<1>0. /\ RowsOK /\ CountsOK /\ PairsOK /\ UNCHANGED <<operations, agents, task, shared, undone, late, unmarked>>
      /\ removing' = [removing EXCEPT ![x] = "delete"]
  BY ClaimsParts DEF ClaimsInv, NotifyDeletion
<1>1. losses' \in 0..MaxLosses
  BY <1>0, LossType DEF NotifyDeletion
<1>2. /\ unheard' \in {unheard, unheard \cup {x}} /\ link' \in [Slots -> Agents \cup {NoAgent}]
      /\ \A s \in Slots : link'[s] = NoAgent \/ link'[s] = link[s]
      /\ x \in unheard' \/ \A s \in Slots : link'[s] # x
      /\ UNCHANGED link \/ Open = {}
  <2>1. CASE ClearLinks(x) /\ UNCHANGED unheard
    <3>1. link' = [s \in Slots |-> IF s \in Linked(x) THEN NoAgent ELSE link[s]]
      BY <2>1 DEF ClearLinks, Relink
    <3> QED BY <1>0, <2>1, <3>1, ClaimsAssumption DEF ClearLinks, Linked, RowsOK
  <2>2. CASE unheard' = unheard \cup {x} /\ UNCHANGED link
    BY <1>0, <2>2 DEF RowsOK
  <2> QED BY <2>1, <2>2 DEF NotifyDeletion
<1>3. RowsOK' /\ CountsOK' /\ PairsOK'
  BY <1>0, <1>1, <1>2 DEF RowsOK, CountsOK, PairsOK
<1>4. ClaimHeld'
  BY <1>0 DEF ClaimsInv, ClaimHeld
<1>5. LinkedIsUsed'
  <2>1. CASE UNCHANGED link
    BY <1>0, <2>1 DEF ClaimsInv, LinkedIsUsed, Releasing, Open
  <2>2. CASE Open = {}
    BY <1>0, <1>2, <2>2 DEF ClaimsInv, LinkedIsUsed, Releasing
  <2> QED BY <1>2, <2>1, <2>2
<1>6. LinksExcused'
  BY <1>0, <1>2, ClaimsAssumption DEF ClaimsInv, LinksExcused, Linked, RowsOK
<1> QED BY <1>3, <1>4, <1>5, <1>6, ClaimsParts DEF ClaimsInv

\* The agent goes when only that was left to do, or MS14 is not told.
LEMMA GoneInv ==
    ASSUME ClaimsInv, NEW x \in Agents, DeleteAgent(x) \/ SweepAgent(x)
    PROVE  ClaimsInv'
<1>0. /\ RowsOK /\ CountsOK /\ PairsOK /\ UNCHANGED <<operations, link, task, losses, shared, undone, late, unmarked>>
      /\ agents' = [agents EXCEPT ![x] = "gone"]
      /\ \/ removing[x] = "delete" /\ removing' = [removing EXCEPT ![x] = "idle"] /\ UNCHANGED unheard
         \/ unheard' = unheard \cup {x} /\ UNCHANGED removing
  BY ClaimsParts DEF ClaimsInv, DeleteAgent, SweepAgent
<1>1. RowsOK' /\ CountsOK' /\ PairsOK'
  BY <1>0 DEF RowsOK, CountsOK, PairsOK, Agent
<1>2. \A y \in Agents : agents'[y] = "free" => agents[y] = "free"
  BY <1>0 DEF RowsOK
<1>3. ClaimHeld'
  BY <1>0, <1>2 DEF ClaimsInv, ClaimHeld, RowsOK, TaskRow
<1>4. LinkedIsUsed'
  BY <1>0, <1>2 DEF ClaimsInv, LinkedIsUsed, Releasing, Open, RowsOK
<1>5. LinksExcused'
  BY <1>0 DEF ClaimsInv, LinksExcused, Linked, RowsOK
<1> QED BY <1>1, <1>3, <1>4, <1>5, ClaimsParts DEF ClaimsInv

\* Every step keeps what is said of claims and links.
LEMMA ClaimsStep == ASSUME ClaimsInv, [ClaimsNext]_claimsVars PROVE ClaimsInv'
<1>1. CASE UNCHANGED claimsVars
  BY <1>1 DEF claimsVars, ClaimsInv, ClaimsTypeOK, ClaimHeld, LinkedIsUsed, Releasing, Open, LinksExcused, Linked
<1>2. ASSUME NEW t \in Tasks, TaskNext(t) PROVE ClaimsInv'
  <2>1. ASSUME NEW s \in Slots, NEW x \in Agents, Attach(t, s, x) PROVE ClaimsInv'
    BY <2>1, BeginSteps, BeginInv
  <2>2. ASSUME NEW s \in Slots, Detach(t, s) \/ DeleteLinkedNode(t, s) PROVE ClaimsInv'
    BY <2>2, BeginSteps, BeginInv DEF Detach, DeleteLinkedNode
  <2>3. ASSUME NEW g \in Graphs, DeleteLinkedGraph(t, g) PROVE ClaimsInv'
    BY <2>3, BeginSteps, BeginInv DEF DeleteLinkedGraph
  <2> QED BY <1>2, <2>1, <2>2, <2>3, ClaimInv, UnclaimInv, SaveInv, FailInv DEF TaskNext
<1>3. ASSUME NEW g \in Graphs, SweepGraph(g) PROVE ClaimsInv'
  BY <1>3, UnlinkInv DEF SweepGraph
<1> QED BY <1>1, <1>2, <1>3, LoadInv, NotifyInv, GoneInv DEF ClaimsNext

\* So it holds in every state.
LEMMA ClaimsInvariance == ClaimsSpec => []ClaimsInv
<1>1. ClaimsInv /\ [ClaimsNext]_claimsVars => ClaimsInv'
  BY ClaimsStep
<1> QED BY <1>1, ClaimsInitInv, PTL DEF ClaimsSpec

\* Every variable of the claims keeps its type.
THEOREM ClaimsTypeCorrect == ClaimsSpec => []ClaimsTypeOK
<1>1. ClaimsInv => ClaimsTypeOK
  BY DEF ClaimsInv
<1> QED BY <1>1, ClaimsInvariance, PTL

\* An agent that a node is linked to is marked as used, unless an operation is just releasing
\* it, has done so and failed, or it was released for another node: for any number of graphs,
\* agents and operations under way, and however many calls fail.
THEOREM LinkedAlwaysUsed == ClaimsSpec => []LinkedIsUsed
<1>1. ClaimsInv => LinkedIsUsed
  BY DEF ClaimsInv
<1> QED BY <1>1, ClaimsInvariance, PTL

\* No link leads to an agent that is gone, but those the deletion could not know of.
THEOREM DanglingLinksExcused == ClaimsSpec => []NoDanglingLink
<1>1. ClaimsInv => NoDanglingLink
  BY LinksEnough DEF ClaimsInv
<1> QED BY <1>1, ClaimsInvariance, PTL

-----------------------------------------------------------------------------
(* The scenes of the run.                                                  *)

LEMMA SceneSteps ==
    ASSUME [MCNext]_<<authoringVars, claimsVars, scene>>
    PROVE  [AuthoringNext]_authoringVars /\ [ClaimsNext]_claimsVars
<1>1. CASE SceneNext /\ UNCHANGED <<claimsVars, scene>>
  <2>1. AuthoringNext
    BY <1>1, SceneAssumption DEF SceneNext, AuthoringNext
  <2> QED BY <1>1, <2>1
<1>2. CASE scene = "claims" /\ ClaimsNext /\ UNCHANGED <<authoringVars, scene>>
  BY <1>2
<1>3. CASE UNCHANGED <<authoringVars, claimsVars, scene>>
  BY <1>3
<1> QED BY <1>1, <1>2, <1>3 DEF MCNext

\* Every scene that TLC plays is a behaviour of the editing of graphs (MS14) and of the
\* claims of their nodes (MS14 and MS4): what is proved of these holds in the scenes.
THEOREM ScenesAreAuthoring == MCSpec => AuthoringSpec /\ ClaimsSpec
<1>1. MCInit => AuthoringInit /\ ClaimsInit
  BY DEF MCInit
<1>2. [MCNext]_<<authoringVars, claimsVars, scene>> =>
        [AuthoringNext]_authoringVars /\ [ClaimsNext]_claimsVars
  BY SceneSteps
<1> QED BY <1>1, <1>2, PTL DEF MCSpec, AuthoringSpec, ClaimsSpec

\* The rows of MS14 and of MS4 keep their types in every scene.
THEOREM ScenesTypeCorrect == MCSpec => []MCTypeOK
<1>1. AuthoringTypeOK /\ ClaimsTypeOK => MCTypeOK
  BY DEF MCTypeOK
<1> QED BY <1>1, ScenesAreAuthoring, AuthoringTypeCorrect, ClaimsTypeCorrect, PTL
=============================================================================
