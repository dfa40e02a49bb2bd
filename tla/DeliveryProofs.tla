--------------------------- MODULE DeliveryProofs ---------------------------
(***************************************************************************)
(* Proofs about MessageDelivery, for every value of its constants.  First  *)
(* the waiter registry: what its totals add up to, and that admission and  *)
(* settlement keep the counters exact and within their limits.  The totals *)
(* are folds over finite sets; facts about them are proved by taking a     *)
(* minimal set for which they would fail.  Then the type invariant, the    *)
(* registry's slots, and what becomes of a message.                        *)
(***************************************************************************)
EXTENDS MessageDelivery, TLAPS, FiniteSetTheorems

(***************************************************************************)
(* The fold that BytesOf is defined by, as a function of subsets.          *)
(***************************************************************************)
Chosen(s) == CHOOSE x \in s : TRUE
Turn(g, s) == IF s = {} THEN 0 ELSE HandleBytes[Chosen(s)] + g[s \ {Chosen(s)}]

Sums(g, S) == g = [s \in SUBSET S |-> Turn(g, s)]

LEMMA BytesOfDef == ASSUME NEW S PROVE BytesOf(S) = (CHOOSE g : Sums(g, S))[S]
BY DEF BytesOf, MapThenSumSet, MapThenFoldSet, Sums, Turn, Chosen

LEMMA ChosenIn == ASSUME NEW S, S # {} PROVE Chosen(S) \in S
BY DEF Chosen

\* Finite subsets: a set of finite sets that is not empty has a minimal one.
LEMMA MinimalSet ==
    ASSUME NEW U, IsFiniteSet(U), NEW T, T \subseteq SUBSET U, T # {}
    PROVE  \E m \in T : \A y \in T : y \subseteq m => y = m
<1>1. IsWellFoundedOn(StrictSubsetOrdering(U), SUBSET U)
    BY FS_StrictSubsetOrderingWellFounded, FS_FiniteSubsetsOfFinite
<1>2. PICK m \in T : \A y \in T : <<y, m>> \notin StrictSubsetOrdering(U)
    BY <1>1, WFMin
<1>3. ASSUME NEW y \in T, y \subseteq m, y # m PROVE FALSE
    BY <1>2, <1>3 DEF StrictSubsetOrdering
<1> QED BY <1>2, <1>3

LEMMA SumsUnique ==
    ASSUME NEW S, IsFiniteSet(S), NEW T, NEW g, NEW h, Sums(g, S), Sums(h, T), NEW s, s \subseteq S, s \subseteq T
    PROVE  g[s] = h[s]
<1> DEFINE Bad == {u \in SUBSET s : g[u] # h[u]}
<1>0. IsFiniteSet(s)
    BY FS_Subset
<1> SUFFICES ASSUME Bad # {} PROVE FALSE
    OBVIOUS
<1>1. PICK m \in Bad : \A y \in Bad : y \subseteq m => y = m
  <2>1. Bad \subseteq SUBSET s
    OBVIOUS
  <2> HIDE DEF Bad
  <2> QED BY <2>1, <1>0, MinimalSet
<1>2. g[m] = Turn(g, m) /\ h[m] = Turn(h, m)
    BY DEF Sums
<1>3. m # {} => g[m \ {Chosen(m)}] = h[m \ {Chosen(m)}]
    BY <1>1, ChosenIn
<1> QED BY <1>2, <1>3 DEF Turn

LEMMA SumsExist ==
    ASSUME NEW S, IsFiniteSet(S)
    PROVE  \E g : Sums(g, S)
<1> DEFINE Bad == {U \in SUBSET S : ~\E g : Sums(g, U)}
<1> SUFFICES ASSUME Bad # {} PROVE FALSE
    OBVIOUS
<1>1. PICK U \in Bad : \A V \in Bad : V \subseteq U => V = U
  <2>1. Bad \subseteq SUBSET S
    OBVIOUS
  <2> HIDE DEF Bad
  <2> QED BY <2>1, MinimalSet
<1>2. \A V \in SUBSET U : V # U => Sums(CHOOSE g : Sums(g, V), V)
    BY <1>1
<1>3. \A V \in SUBSET U : IsFiniteSet(V)
    BY FS_Subset
<1> DEFINE B == [s \in SUBSET U |-> BytesOf(s)]
           G == [s \in SUBSET U |-> IF s = U THEN Turn(B, U) ELSE BytesOf(s)]
<1>4. ASSUME NEW s \in SUBSET U PROVE G[s] = Turn(G, s)
  <2>1. CASE s = {} /\ s # U
    <3> DEFINE gs == CHOOSE g : Sums(g, s)
    <3>1. Sums(gs, s)
      BY <1>2, <2>1
    <3>2. gs[s] = 0
      BY <3>1, <2>1 DEF Sums, Turn
    <3>3. BytesOf(s) = 0
      BY <3>2, BytesOfDef
    <3> QED BY <3>3, <2>1 DEF Turn
  <2>2. CASE s = {} /\ s = U
    BY <2>2 DEF Turn
  <2>3. CASE s # {} /\ s = U
    <3>1. s \ {Chosen(s)} \in SUBSET U /\ s \ {Chosen(s)} # U
      BY <2>3, ChosenIn
    <3>2. G[s \ {Chosen(s)}] = B[s \ {Chosen(s)}]
      BY <3>1
    <3> QED BY <3>2, <2>3 DEF Turn
  <2>4. CASE s # {} /\ s # U
    <3> DEFINE t == s \ {Chosen(s)}
               gs == CHOOSE g : Sums(g, s)
               gt == CHOOSE g : Sums(g, t)
    <3>1. t \in SUBSET U /\ t # U /\ t \subseteq s
      BY <2>4, ChosenIn
    <3>2. Sums(gs, s) /\ Sums(gt, t)
      BY <1>2, <2>4, <3>1
    <3>3. BytesOf(s) = gs[s] /\ BytesOf(t) = gt[t]
      BY BytesOfDef
    <3>4. gs[s] = HandleBytes[Chosen(s)] + gs[t]
      BY <3>2, <2>4 DEF Sums, Turn
    <3>5. gs[t] = gt[t]
      BY <3>1, <3>2, <1>3, SumsUnique
    <3>6. G[s] = BytesOf(s) /\ G[t] = BytesOf(t)
      BY <3>1, <2>4
    <3> HIDE DEF G, gs, gt
    <3> QED BY <3>3, <3>4, <3>5, <3>6, <2>4 DEF Turn
  <2> QED BY <2>1, <2>2, <2>3, <2>4
<1>5. G = [s \in SUBSET U |-> Turn(G, s)]
  <2>1. G = [s \in SUBSET U |-> G[s]]
    OBVIOUS
  <2> HIDE DEF G
  <2> QED BY <1>4, <2>1
<1>6. Sums(G, U)
  <2> HIDE DEF G
  <2> QED BY <1>5 DEF Sums
<1> QED BY <1>1, <1>6

LEMMA BytesOfTurn ==
    ASSUME NEW S, IsFiniteSet(S)
    PROVE  BytesOf(S) = IF S = {} THEN 0 ELSE HandleBytes[Chosen(S)] + BytesOf(S \ {Chosen(S)})
<1> DEFINE T == S \ {Chosen(S)}
           g == CHOOSE g : Sums(g, S)
           h == CHOOSE h : Sums(h, T)
<1>1. IsFiniteSet(T)
    BY FS_Subset
<1>2. Sums(g, S) /\ Sums(h, T)
    BY <1>1, SumsExist
<1>3. BytesOf(S) = g[S] /\ BytesOf(T) = h[T]
    BY BytesOfDef
<1>4. g[S] = Turn(g, S)
    BY <1>2 DEF Sums
<1>5. g[T] = h[T]
  <2> HIDE DEF g, h
  <2> QED  BY <1>2, SumsUnique
<1> HIDE DEF g, h
<1> QED BY <1>3, <1>4, <1>5 DEF Turn

LEMMA BytesOfRemove ==
    ASSUME RegistryAssumption, NEW S \in SUBSET Handles, IsFiniteSet(S)
    PROVE  /\ BytesOf(S) \in Nat
           /\ \A h \in S : BytesOf(S) = HandleBytes[h] + BytesOf(S \ {h})
<1> DEFINE Good(U) == /\ BytesOf(U) \in Nat
                      /\ \A h \in U : BytesOf(U) = HandleBytes[h] + BytesOf(U \ {h})
           Bad == {U \in SUBSET S : ~Good(U)}
<1> SUFFICES ASSUME Bad # {} PROVE FALSE
    OBVIOUS
<1>1. PICK U \in Bad : \A V \in Bad : V \subseteq U => V = U
  <2>1. Bad \subseteq SUBSET S
    OBVIOUS
  <2> HIDE DEF Bad
  <2> QED BY <2>1, MinimalSet
<1>2. \A V \in SUBSET U : V # U => Good(V)
    BY <1>1
<1>3. IsFiniteSet(U)
    BY FS_Subset
<1>4. CASE U = {}
  <2>1. BytesOf(U) = 0
    BY <1>3, <1>4, BytesOfTurn
  <2> QED BY <2>1, <1>1, <1>4
<1>5. CASE U # {}
  <2> DEFINE x == Chosen(U)
             T == U \ {x}
  <2>0. x \in U
    BY <1>5, ChosenIn
  <2> HIDE DEF x, Good
  <2>1. BytesOf(U) = HandleBytes[x] + BytesOf(T)
    BY <1>3, <1>5, BytesOfTurn DEF x
  <2>2. Good(T)
    BY <2>0, <1>2
  <2>3. x \in Handles /\ HandleBytes \in [Handles -> Nat]
    BY <2>0 DEF RegistryAssumption
  <2>4. BytesOf(U) \in Nat
    BY <2>1, <2>2, <2>3 DEF Good
  <2>5. ASSUME NEW h \in U PROVE BytesOf(U) = HandleBytes[h] + BytesOf(U \ {h})
    <3>1. CASE h = x
      BY <3>1, <2>1
    <3>2. CASE h # x
      <4>1. BytesOf(T) = HandleBytes[h] + BytesOf(T \ {h})
        BY <2>2, <3>2 DEF Good
      <4>2. Good(U \ {h}) /\ x \in U \ {h}
        BY <1>2, <3>2, <2>0
      <4>3. BytesOf(U \ {h}) = HandleBytes[x] + BytesOf((U \ {h}) \ {x})
        BY <4>2 DEF Good
      <4>4. (U \ {h}) \ {x} = T \ {h}
        OBVIOUS
      <4>5. BytesOf(T \ {h}) \in Nat
        <5>1. T \ {h} # U
          BY <2>0
        <5> QED BY <1>2, <5>1 DEF Good
      <4>6. h \in Handles
        OBVIOUS
      <4>7. HandleBytes[h] \in Nat /\ HandleBytes[x] \in Nat
        BY <4>6, <2>3
      <4>8. BytesOf(U \ {h}) = HandleBytes[x] + BytesOf(T \ {h})
        BY <4>3, <4>4
      <4>9. BytesOf(U) = HandleBytes[x] + (HandleBytes[h] + BytesOf(T \ {h}))
        BY <4>1, <2>1
      <4> HIDE DEF T, Bad
      <4> QED BY <4>5, <4>7, <4>8, <4>9
    <3> QED BY <3>1, <3>2
  <2> QED BY <1>1, <2>4, <2>5 DEF Good
<1> QED BY <1>4, <1>5

LEMMA BytesOfDifference ==
    ASSUME RegistryAssumption, NEW S \in SUBSET Handles, IsFiniteSet(S), NEW T \in SUBSET S
    PROVE  BytesOf(S \ T) = BytesOf(S) - BytesOf(T)
<1> DEFINE Good(U) == BytesOf(S \ U) = BytesOf(S) - BytesOf(U)
           Bad == {U \in SUBSET T : ~Good(U)}
<1> SUFFICES ASSUME Bad # {} PROVE FALSE
    OBVIOUS
<1>0. \A U \in SUBSET S : IsFiniteSet(U) /\ U \in SUBSET Handles
    BY FS_Subset
<1>1. PICK U \in Bad : \A V \in Bad : V \subseteq U => V = U
  <2>1. Bad \subseteq SUBSET T /\ IsFiniteSet(T)
    BY <1>0
  <2> HIDE DEF Bad
  <2> QED BY <2>1, MinimalSet
<1>2. CASE U = {}
  <2>1. BytesOf(U) = 0 /\ S \ U = S /\ BytesOf(S) \in Nat
    BY <1>2, <1>0, BytesOfTurn, BytesOfRemove
  <2> QED BY <2>1, <1>1, <1>2
<1>3. CASE U # {}
  <2>1. PICK x \in U : TRUE
    BY <1>3
  <2>2. BytesOf(S \ (U \ {x})) = BytesOf(S) - BytesOf(U \ {x})
    BY <2>1, <1>1
  <2>3. BytesOf(U) = HandleBytes[x] + BytesOf(U \ {x})
    BY <2>1, <1>0, BytesOfRemove
  <2>4. x \in S \ (U \ {x}) /\ (S \ (U \ {x})) \ {x} = S \ U
    BY <2>1
  <2>5. BytesOf(S \ (U \ {x})) = HandleBytes[x] + BytesOf(S \ U)
    BY <2>4, <1>0, BytesOfRemove
  <2>6. {BytesOf(S), BytesOf(U \ {x}), BytesOf(S \ U), BytesOf(U)} \subseteq Nat
    BY <1>0, BytesOfRemove
  <2>7. HandleBytes[x] \in Nat
    BY <2>1 DEF RegistryAssumption
  <2> QED BY <1>1, <2>2, <2>3, <2>5, <2>6, <2>7
<1> QED BY <1>2, <1>3

-----------------------------------------------------------------------------
(* The counters.                                                           *)

\* The handles that the waiters of W wait on, when H says who waits on which.
Held(W, H) == {h \in Handles : \E c \in W : H[c] = h}

\* The registry R holds exactly the waiters of W, counts them and their handles'
\* bytes, and exceeds no limit.
Exact(R, W, H) ==
    /\ R \in Registry
    /\ \A h \in Handles : R.waiters[h] = {c \in W : H[c] = h}
    /\ R.waiterCount = Cardinality(W)
    /\ R.waiterCount <= maxWaiters
    /\ R.retainedHandleBytes = BytesOf(Held(W, H))
    /\ R.retainedHandleBytes <= maxRetainedHandleBytes
    /\ \A h \in Handles : Cardinality({c \in W : H[c] = h}) <= maxWaitersPerHandle

LEMMA FiniteParts ==
    ASSUME RegistryAssumption
    PROVE  /\ \A W \in SUBSET Calls : IsFiniteSet(W) /\ Cardinality(W) \in Nat
           /\ \A S \in SUBSET Handles : IsFiniteSet(S) /\ BytesOf(S) \in Nat
<1>1. \A W \in SUBSET Calls : IsFiniteSet(W) /\ Cardinality(W) \in Nat
    BY FS_Subset, FS_CardinalityType DEF RegistryAssumption
<1>2. \A S \in SUBSET Handles : IsFiniteSet(S)
    BY FS_Subset DEF RegistryAssumption
<1> QED BY <1>1, <1>2, BytesOfRemove

LEMMA EmptyExact ==
    ASSUME RegistryAssumption, NEW H
    PROVE  Exact(EmptyRegistry, {}, H)
<1>1. Cardinality({}) = 0 /\ BytesOf({}) = 0
    BY FS_EmptySet, BytesOfTurn
<1>2. Held({}, H) = {} /\ \A h : {c \in {} : H[c] = h} = {}
    BY DEF Held
<1>3. EmptyRegistry \in Registry
    BY DEF EmptyRegistry, Registry
<1> QED BY <1>1, <1>2, <1>3 DEF Exact, EmptyRegistry, RegistryAssumption

\* Only the waiters' handles matter.
LEMMA ExactSame ==
    ASSUME NEW R, NEW W, NEW H, NEW G, \A c \in W : G[c] = H[c], Exact(R, W, H)
    PROVE  Exact(R, W, G)
<1>1. Held(W, G) = Held(W, H) /\ \A h : {c \in W : G[c] = h} = {c \in W : H[c] = h}
    BY DEF Held
<1> QED BY <1>1 DEF Exact

\* A settlement frees each waiter's slot once, and a handle's bytes with its last
\* waiter.
LEMMA SettleExact ==
    ASSUME RegistryAssumption, NEW W \in SUBSET Calls, NEW H \in [Calls -> Handles],
           NEW R, Exact(R, W, H), NEW S
    PROVE  Exact(settle(R, S), W \ S, H)
<1> DEFINE Q == settle(R, S)
<1>1. R \in Registry
    BY DEF Exact
<1>2. /\ Q.waiters = [h \in Handles |-> R.waiters[h] \ S]
      /\ Q.waiterCount = R.waiterCount - Cardinality(S \cap UNION {R.waiters[h] : h \in Handles})
      /\ Q.retainedHandleBytes = R.retainedHandleBytes - BytesOf(Emptied(R, S))
    BY <1>1 DEF settle, Registry
<1>3. \A h \in Handles : Q.waiters[h] = {c \in W \ S : H[c] = h}
    BY <1>2 DEF Exact
<1>4. UNION {R.waiters[h] : h \in Handles} = W
    BY DEF Exact
<1>5. Q.waiterCount = Cardinality(W \ S) /\ Q.waiterCount \in Nat /\ Q.waiterCount <= maxWaiters
  <2>1. Cardinality(W \ S) = Cardinality(W) - Cardinality(W \cap S) /\ S \cap W = W \cap S
      BY FiniteParts, FS_Difference
  <2>2. {Cardinality(W), Cardinality(W \cap S), Cardinality(W \ S)} \subseteq Nat
      BY FiniteParts
  <2>3. R.waiterCount = Cardinality(W) /\ R.waiterCount <= maxWaiters
      BY DEF Exact
  <2>4. maxWaiters \in Nat
      BY DEF RegistryAssumption
  <2>5. Q.waiterCount = R.waiterCount - Cardinality(W \cap S)
      BY <1>2, <1>4, <2>1
  <2> HIDE DEF Q
  <2> QED BY <2>1, <2>2, <2>3, <2>4, <2>5
<1>6. Held(W \ S, H) = Held(W, H) \ Emptied(R, S) /\ Emptied(R, S) \subseteq Held(W, H)
    BY DEF Held, Emptied, Exact
<1>7. /\ Q.retainedHandleBytes = BytesOf(Held(W \ S, H))
      /\ Q.retainedHandleBytes \in Nat
      /\ Q.retainedHandleBytes <= maxRetainedHandleBytes
  <2>1. Held(W, H) \in SUBSET Handles
      BY DEF Held
  <2>2. BytesOf(Held(W \ S, H)) = BytesOf(Held(W, H)) - BytesOf(Emptied(R, S))
      BY <1>6, <2>1, FiniteParts, BytesOfDifference
  <2>3. {BytesOf(Held(W \ S, H)), BytesOf(Held(W, H)), BytesOf(Emptied(R, S))} \subseteq Nat
      BY <1>6, <2>1, FiniteParts
  <2>4. R.retainedHandleBytes = BytesOf(Held(W, H)) /\ R.retainedHandleBytes <= maxRetainedHandleBytes
      BY DEF Exact
  <2>5. maxRetainedHandleBytes \in Nat
      BY DEF RegistryAssumption
  <2> HIDE DEF Q
  <2> QED BY <1>2, <2>2, <2>3, <2>4, <2>5
<1>8. ASSUME NEW h \in Handles
      PROVE  Cardinality({c \in W \ S : H[c] = h}) <= maxWaitersPerHandle
  <2> DEFINE A == {c \in W : H[c] = h}
             B == {c \in W \ S : H[c] = h}
  <2>1. IsFiniteSet(A) /\ B \in SUBSET A /\ A \in SUBSET Calls /\ B \in SUBSET Calls
      BY FiniteParts
  <2>2. Cardinality(B) <= Cardinality(A) /\ Cardinality(B) \in Nat /\ Cardinality(A) \in Nat
      BY <2>1, FS_Subset, FiniteParts
  <2>3. Cardinality(A) <= maxWaitersPerHandle /\ maxWaitersPerHandle \in Nat
      BY DEF Exact, RegistryAssumption
  <2> HIDE DEF A, B
  <2> QED BY <2>2, <2>3 DEF B
<1>9. Q \in Registry
  <2>1. [h \in Handles |-> R.waiters[h] \ S] \in [Handles -> SUBSET Calls]
      BY <1>1 DEF Registry
  <2> QED BY <1>1, <1>2, <1>5, <1>7, <2>1 DEF Registry, settle
<1> HIDE DEF Q
<1> QED BY <1>3, <1>5, <1>7, <1>8, <1>9 DEF Exact, Q

\* An admitted waiter takes one slot, and its handle's bytes if it is the first.
LEMMA RetainExact ==
    ASSUME RegistryAssumption, NEW W \in SUBSET Calls, NEW H \in [Calls -> Handles],
           NEW R, Exact(R, W, H), NEW c \in Calls \ W, NEW h \in Handles, admits(R, h)
    PROVE  Exact(retain(R, h, c), W \cup {c}, [H EXCEPT ![c] = h])
<1> DEFINE Q == retain(R, h, c)
           V == W \cup {c}
           G == [H EXCEPT ![c] = h]
<1>1. R \in Registry
    BY DEF Exact
<1>2. /\ Q.waiters = [R.waiters EXCEPT ![h] = @ \cup {c}]
      /\ Q.waiterCount = R.waiterCount + 1
      /\ Q.retainedHandleBytes = IF R.waiters[h] = {} THEN R.retainedHandleBytes + HandleBytes[h]
                                 ELSE R.retainedHandleBytes
    BY <1>1 DEF retain, Registry
<1>3. G[c] = h /\ \A d \in W : G[d] = H[d]
    OBVIOUS
<1>4. \A k \in Handles : Q.waiters[k] = {d \in V : G[d] = k}
    BY <1>1, <1>2, <1>3 DEF Exact, Registry
<1>5. Q.waiterCount = Cardinality(V) /\ Q.waiterCount \in Nat /\ Q.waiterCount <= maxWaiters
  <2>1. Cardinality(V) = Cardinality(W) + 1
      BY FiniteParts, FS_AddElement
  <2>2. R.waiterCount = Cardinality(W) /\ R.waiterCount \in Nat /\ R.waiterCount < maxWaiters
      BY <1>1 DEF Exact, admits, Registry
  <2>3. maxWaiters \in Nat
      BY DEF RegistryAssumption
  <2> HIDE DEF Q, V
  <2> QED BY <1>2, <2>1, <2>2, <2>3
<1>6. R.waiters[h] = {d \in W : H[d] = h}
    BY DEF Exact
<1>7. /\ Q.retainedHandleBytes = BytesOf(Held(V, G))
      /\ Q.retainedHandleBytes \in Nat
      /\ Q.retainedHandleBytes <= maxRetainedHandleBytes
  <2>0. R.retainedHandleBytes = BytesOf(Held(W, H)) /\ R.retainedHandleBytes <= maxRetainedHandleBytes
      BY DEF Exact
  <2>1. R.retainedHandleBytes \in Nat /\ maxRetainedHandleBytes \in Nat /\ HandleBytes[h] \in Nat
      BY <1>1 DEF Registry, RegistryAssumption
  <2>2. CASE R.waiters[h] # {}
    <3>1. Held(V, G) = Held(W, H)
        BY <1>3, <1>6, <2>2 DEF Held
    <3> HIDE DEF Q
    <3> QED BY <1>2, <2>0, <2>1, <2>2, <3>1
  <2>3. CASE R.waiters[h] = {}
    <3>1. Held(V, G) \ {h} = Held(W, H) /\ h \in Held(V, G) /\ Held(V, G) \in SUBSET Handles
        BY <1>3, <1>6, <2>3 DEF Held
    <3>2. BytesOf(Held(V, G)) = HandleBytes[h] + BytesOf(Held(W, H))
        BY <3>1, FiniteParts, BytesOfRemove
    <3>3. HandleBytes[h] <= maxRetainedHandleBytes - R.retainedHandleBytes
        BY <2>3 DEF admits
    <3> HIDE DEF Q, V, G
    <3> QED BY <1>2, <2>0, <2>1, <2>3, <3>2, <3>3
  <2> QED BY <2>2, <2>3
<1>8. ASSUME NEW k \in Handles
      PROVE  Cardinality({d \in V : G[d] = k}) <= maxWaitersPerHandle
  <2> DEFINE A == {d \in W : H[d] = k}
             B == {d \in V : G[d] = k}
  <2>1. maxWaitersPerHandle \in Nat \ {0} /\ Cardinality(A) <= maxWaitersPerHandle
      BY DEF Exact, RegistryAssumption
  <2>2. CASE k # h
    <3>1. A = B
        BY <1>3, <2>2
    <3> QED BY <2>1, <3>1
  <2>3. CASE k = h
    <3>1. B = A \cup {c} /\ c \notin A /\ A \in SUBSET Calls
        BY <1>3, <2>3
    <3>2. Cardinality(B) = Cardinality(A) + 1 /\ Cardinality(A) \in Nat
        BY <3>1, FiniteParts, FS_AddElement
    <3>3. A # {} => Cardinality(A) < maxWaitersPerHandle
        BY <1>6, <2>3 DEF admits
    <3>4. A = {} => Cardinality(A) = 0
        BY FS_EmptySet
    <3> HIDE DEF A, B
    <3> QED BY <2>1, <3>2, <3>3, <3>4 DEF B
  <2> QED BY <2>2, <2>3
<1>9. Q \in Registry
  <2>1. [R.waiters EXCEPT ![h] = @ \cup {c}] \in [Handles -> SUBSET Calls]
      BY <1>1 DEF Registry
  <2> QED BY <1>1, <1>2, <1>5, <1>7, <2>1 DEF Registry, retain
<1> HIDE DEF Q, V, G
<1> QED BY <1>4, <1>5, <1>7, <1>8, <1>9 DEF Exact, Q, V, G

-----------------------------------------------------------------------------
(* The message table.                                                      *)

Table == [MessageIds -> MessageRow]

\* The message table N has the rows of M, with more marks perhaps.
SameRows(M, N) ==
    /\ N \in Table
    /\ \A m \in MessageIds :
          /\ N[m].stored = M[m].stored /\ N[m].from = M[m].from /\ N[m].to = M[m].to
          /\ N[m].type = M[m].type /\ N[m].thread = M[m].thread /\ N[m].hook = M[m].hook
          /\ M[m].read => N[m].read
          /\ M[m].delivered => N[m].delivered

LEMMA SameRowsTransitive ==
    ASSUME NEW M, NEW N, NEW P, SameRows(M, N), SameRows(N, P)
    PROVE  SameRows(M, P)
BY DEF SameRows

LEMMA MarkAsReadRows ==
    ASSUME NEW M \in Table, NEW ids
    PROVE  /\ SameRows(M, markAsRead(M, ids))
           /\ \A m \in MessageIds :
                /\ markAsRead(M, ids)[m].read = (M[m].read \/ (m \in ids /\ M[m].stored))
                /\ markAsRead(M, ids)[m].delivered = M[m].delivered
BY DEF markAsRead, SameRows, Table, MessageRow

LEMMA MarkAsDeliveredRows ==
    ASSUME NEW M \in Table, NEW ids
    PROVE  /\ SameRows(M, markAsDelivered(M, ids))
           /\ \A m \in MessageIds :
                /\ markAsDelivered(M, ids)[m].delivered = (M[m].delivered \/ (m \in ids /\ M[m].stored))
                /\ markAsDelivered(M, ids)[m].read = M[m].read
BY DEF markAsDelivered, SameRows, Table, MessageRow

LEMMA MarkBothRows ==
    ASSUME NEW M \in Table, NEW ids
    PROVE  /\ SameRows(M, markAsReadAndDelivered(M, ids))
           /\ \A m \in MessageIds :
                /\ markAsReadAndDelivered(M, ids)[m].read = (M[m].read \/ (m \in ids /\ M[m].stored))
                /\ markAsReadAndDelivered(M, ids)[m].delivered = (M[m].delivered \/ (m \in ids /\ M[m].stored))
<1> DEFINE N == markAsRead(M, ids)
           P == markAsDelivered(N, ids)
<1>1. /\ SameRows(M, N)
      /\ \A m \in MessageIds : /\ N[m].read = (M[m].read \/ (m \in ids /\ M[m].stored))
                               /\ N[m].delivered = M[m].delivered
    BY MarkAsReadRows
<1>2. N \in Table
    BY <1>1 DEF SameRows
<1>3. /\ SameRows(N, P)
      /\ \A m \in MessageIds : /\ P[m].delivered = (N[m].delivered \/ (m \in ids /\ N[m].stored))
                               /\ P[m].read = N[m].read
    BY <1>2, MarkAsDeliveredRows
<1>4. SameRows(M, P)
    BY <1>1, <1>3, SameRowsTransitive
<1> HIDE DEF N, P
<1>5. \A m \in MessageIds : N[m].stored = M[m].stored
    BY <1>1 DEF SameRows
<1>6. markAsReadAndDelivered(M, ids) = P
    BY DEF markAsReadAndDelivered, N, P
<1> QED BY <1>1, <1>3, <1>4, <1>5, <1>6

LEMMA RowTypes ==
    ASSUME NEW from \in Handles, NEW to \in Handles, NEW type \in MessageTypes, NEW thread \in 0..GroupThread
    PROVE  Row(from, to, type, thread) \in MessageRow
BY DEF Row, MessageRow

LEMMA NoRowType == NoRow \in MessageRow
<1>1. Row(Coord, Coord, "status", 0) \in MessageRow
    BY RowTypes, DeliveryAssumption DEF MessageTypes, GroupThread
<1> QED BY <1>1 DEF NoRow, MessageRow

-----------------------------------------------------------------------------
(* Waiting calls and the registry.                                         *)

Waiting(C) == {c \in Calls : C[c].pc = "waiting"}
HandleOf(C) == [c \in Calls |-> C[c].handle]

\* The calls C are well formed, and the registry R is exact about them.
Slots(R, C) == C \in [Calls -> LongPoll] /\ Exact(R, Waiting(C), HandleOf(C))

LEMMA IdleCallType == IdleCall \in LongPoll
BY DeliveryAssumption DEF IdleCall, LongPoll

LEMMA HandleOfType ==
    ASSUME NEW C \in [Calls -> LongPoll]
    PROVE  HandleOf(C) \in [Calls -> Handles] /\ Waiting(C) \in SUBSET Calls
BY DEF HandleOf, LongPoll, Waiting

\* The waiters of S are settled; nobody else stops waiting.
LEMMA SettledSlots ==
    ASSUME NEW R, NEW C, Slots(R, C), NEW S, NEW D \in [Calls -> LongPoll],
           Waiting(D) = Waiting(C) \ S,
           \A c \in Waiting(D) : D[c].handle = C[c].handle
    PROVE  Slots(settle(R, S), D)
<1>1. Exact(settle(R, S), Waiting(D), HandleOf(C))
    BY HandleOfType, SettleExact, RegistryAssumption DEF Slots
<1>2. \A c \in Waiting(D) : HandleOf(D)[c] = HandleOf(C)[c]
    BY DEF HandleOf, Waiting
<1> QED BY <1>1, <1>2, ExactSame DEF Slots

\* Nobody starts or stops waiting.
LEMMA SameSlots ==
    ASSUME NEW R, NEW C, Slots(R, C), NEW D \in [Calls -> LongPoll],
           Waiting(D) = Waiting(C),
           \A c \in Waiting(D) : D[c].handle = C[c].handle
    PROVE  Slots(R, D)
<1>1. \A c \in Waiting(D) : HandleOf(D)[c] = HandleOf(C)[c]
    BY DEF HandleOf, Waiting
<1> QED BY <1>1, ExactSame DEF Slots

LEMMA EndedSlots ==
    ASSUME NEW R, NEW C, Slots(R, C), NEW c \in Calls, C[c].pc # "waiting"
    PROVE  Slots(R, [C EXCEPT ![c] = IdleCall])
<1> DEFINE D == [C EXCEPT ![c] = IdleCall]
<1>1. D \in [Calls -> LongPoll]
    BY IdleCallType DEF Slots
<1>2. D[c] = IdleCall /\ \A d \in Calls \ {c} : D[d] = C[d]
    BY DEF Slots
<1>3. Waiting(D) = Waiting(C) /\ \A d \in Waiting(D) : D[d].handle = C[d].handle
    BY <1>2 DEF Waiting, IdleCall
<1> HIDE DEF D
<1> QED BY <1>1, <1>3, SameSlots DEF D

LEMMA WaitSlots ==
    ASSUME NEW R, NEW C, Slots(R, C), NEW c \in Calls, C[c].pc # "waiting",
           NEW next \in LongPoll, next.pc = "waiting", WaitForMessage(R, C, c, next)
    PROVE  Slots(reg', call')
<1>1. CASE admits(R, next.handle)
  <2> DEFINE D == [C EXCEPT ![c] = next]
             W == Waiting(C)
  <2>1. D \in [Calls -> LongPoll] /\ next.handle \in Handles
      BY DEF Slots, LongPoll
  <2>2. D[c] = next /\ \A d \in Calls \ {c} : D[d] = C[d]
      BY DEF Slots
  <2>3. Waiting(D) = W \cup {c} /\ c \in Calls \ W
      BY <2>2 DEF Waiting
  <2>4. HandleOf(D) = [HandleOf(C) EXCEPT ![c] = next.handle]
    <3> HIDE DEF D
    <3>1. \A d \in Calls : HandleOf(D)[d] = IF d = c THEN next.handle ELSE HandleOf(C)[d]
        BY <2>2 DEF HandleOf
    <3> QED BY <3>1 DEF HandleOf
  <2>5. W \in SUBSET Calls /\ HandleOf(C) \in [Calls -> Handles] /\ Exact(R, W, HandleOf(C))
      BY HandleOfType DEF Slots
  <2>6. reg' = retain(R, next.handle, c) /\ call' = D
      BY <1>1 DEF WaitForMessage
  <2> HIDE DEF D, W
  <2>7. Exact(retain(R, next.handle, c), W \cup {c}, [HandleOf(C) EXCEPT ![c] = next.handle])
      BY <1>1, <2>1, <2>3, <2>5, RetainExact, RegistryAssumption
  <2> QED BY <2>1, <2>3, <2>4, <2>6, <2>7 DEF Slots
<1>2. CASE ~admits(R, next.handle)
    BY <1>2, EndedSlots DEF WaitForMessage
<1> QED BY <1>1, <1>2

\* Woken calls were waiting for one of the handles.
LEMMA WokenWait ==
    ASSUME Slots(reg, call), NEW handles \in SUBSET Handles, NEW type
    PROVE  Woken(handles, type) =
              {c \in Waiting(call) : call[c].handle \in handles /\ wakes(call[c].filter, type)}
<1>1. \A h \in Handles : reg.waiters[h] = {c \in Waiting(call) : HandleOf(call)[c] = h}
    BY DEF Slots, Exact
<1>2. \A h \in handles : \A c \in Calls :
          c \in reg.waiters[h] <=> c \in Waiting(call) /\ call[c].handle = h
    BY <1>1 DEF HandleOf
<1> QED BY <1>2 DEF Woken, Waiting

LEMMA WakeSlots ==
    ASSUME Slots(reg, call), NEW handles \in SUBSET Handles, NEW type
    PROVE  /\ Slots(settle(reg, Woken(handles, type)), Wake(Woken(handles, type)))
           /\ Waiting(Wake(Woken(handles, type))) = Waiting(call) \ Woken(handles, type)
<1> DEFINE S == Woken(handles, type)
           D == Wake(S)
<1>1. \A c \in Calls : D[c] = IF c \in S THEN [call[c] EXCEPT !.pc = "woken"] ELSE call[c]
    BY DEF Wake
<1>2. D \in [Calls -> LongPoll]
    BY DEF Wake, Slots, LongPoll
<1>3. \A c \in Calls : D[c].pc = IF c \in S THEN "woken" ELSE call[c].pc
    BY <1>1 DEF Slots, LongPoll
<1>4. Waiting(D) = Waiting(call) \ S
    BY <1>3 DEF Waiting
<1>5. \A c \in Waiting(D) : D[c].handle = call[c].handle
    BY <1>1, <1>4 DEF Waiting
<1> HIDE DEF S, D
<1> QED BY <1>2, <1>4, <1>5, SettledSlots DEF S, D

LEMMA NotifySlots ==
    ASSUME Slots(reg, call), NEW handles \in SUBSET Handles, NEW type, Notify(handles, type)
    PROVE  Slots(reg', call')
BY WakeSlots DEF Notify

-----------------------------------------------------------------------------
(* Types and slots: what the parts of the actions do.                      *)

Tables ==
    /\ msg \in Table
    /\ nMsg \in 0..MaxMessages
    /\ agent \in [Handles -> {"idle", "working", "gone"}]
    /\ enter \in [Handles -> Seq(SUBSET MessageIds)]
    /\ shown \in [MessageIds -> 0..2]
    /\ seen \subseteq MessageIds
    /\ excused \subseteq MessageIds

\* Every batch that waits for its Enter key has been written.
Banners(E, S) == \A h \in Handles : \A i \in 1..Len(E[h]) : \A m \in E[h][i] : S[m] > 0

LEMMA InsertRow ==
    ASSUME NEW M \in Table, NEW n \in MessageIds, NEW row \in MessageRow
    PROVE  /\ [M EXCEPT ![n] = row] \in Table
           /\ [M EXCEPT ![n] = row][n] = row
           /\ \A m \in MessageIds \ {n} : [M EXCEPT ![n] = row][m] = M[m]
BY DEF Table

\* A push changes no row but for the stamp, stamps only what it has written, and
\* keeps for the Enter key only what it has written.
LEMMA DeliverEffect ==
    ASSUME Tables, NEW M \in Table, NEW hs \in SUBSET Handles, deliverPendingMessages(M, hs)
    PROVE  /\ SameRows(M, msg')
           /\ \A m \in MessageIds : /\ msg'[m].read = M[m].read
                                    /\ msg'[m].delivered => M[m].delivered \/ shown'[m] > 0
                                    /\ shown[m] > 0 => shown'[m] > 0
           /\ enter' \in [Handles -> Seq(SUBSET MessageIds)]
           /\ shown' \in [MessageIds -> 0..2]
           /\ Banners(enter, shown) => Banners(enter', shown')
<1> DEFINE batch(h) == getUndeliveredUnreadMessages(M, h)
           due == {h \in hs : batch(h) # {}}
<1>1. PICK wrote \in SUBSET due :
          /\ msg' = markAsDelivered(M, UNION {batch(h) : h \in wrote \cap UserOwned})
          /\ enter' = [h \in Handles |-> IF h \in wrote \ UserOwned
                                         THEN Append(enter[h], batch(h)) ELSE enter[h]]
          /\ shown' = [m \in MessageIds |-> IF shown[m] < 2 /\ \E h \in wrote : m \in batch(h)
                                            THEN shown[m] + 1 ELSE shown[m]]
    BY DEF deliverPendingMessages
<1>2. \A h : batch(h) \subseteq MessageIds
    BY DEF getUndeliveredUnreadMessages
<1> HIDE DEF batch, due
<1>3. /\ shown' \in [MessageIds -> 0..2]
      /\ \A m \in MessageIds : /\ shown[m] > 0 => shown'[m] > 0
                               /\ (\E h \in wrote : m \in batch(h)) => shown'[m] > 0
    BY <1>1 DEF Tables
<1>4. /\ SameRows(M, msg')
      /\ \A m \in MessageIds : /\ msg'[m].read = M[m].read
                               /\ msg'[m].delivered => M[m].delivered \/ shown'[m] > 0
  <2> DEFINE stamped == UNION {batch(h) : h \in wrote \cap UserOwned}
  <2>1. \A m \in stamped : \E h \in wrote : m \in batch(h)
      OBVIOUS
  <2>2. msg' = markAsDelivered(M, stamped)
      BY <1>1
  <2> HIDE DEF stamped
  <2> QED BY <1>3, <2>1, <2>2, MarkAsDeliveredRows
<1>5. enter' \in [Handles -> Seq(SUBSET MessageIds)]
  <2>1. \A h \in Handles : Append(enter[h], batch(h)) \in Seq(SUBSET MessageIds)
      BY <1>2 DEF Tables
  <2> QED BY <1>1, <2>1 DEF Tables
<1>6. ASSUME Banners(enter, shown), NEW h \in Handles, NEW i \in 1..Len(enter'[h]), NEW m \in enter'[h][i]
      PROVE  shown'[m] > 0
  <2>1. enter[h] \in Seq(SUBSET MessageIds) /\ enter'[h] \in Seq(SUBSET MessageIds)
      BY <1>5 DEF Tables
  <2>2. m \in MessageIds
      BY <2>1
  <2>3. CASE i <= Len(enter[h]) /\ enter'[h][i] = enter[h][i]
      BY <1>3, <1>6, <2>1, <2>2, <2>3 DEF Banners
  <2>4. CASE enter'[h][i] = batch(h) /\ h \in wrote
      BY <1>3, <2>2, <2>4
  <2>5. \/ i <= Len(enter[h]) /\ enter'[h][i] = enter[h][i]
        \/ enter'[h][i] = batch(h) /\ h \in wrote
    <3>1. CASE h \in wrote \ UserOwned
      <4>1. enter'[h] = Append(enter[h], batch(h))
          BY <1>1, <3>1
      <4>2. i = Len(enter[h]) + 1 \/ i <= Len(enter[h])
          BY <2>1, <4>1, <1>2
      <4> QED BY <2>1, <3>1, <4>1, <4>2, <1>2
    <3>2. CASE h \notin wrote \ UserOwned
        BY <1>1, <2>1, <3>2
    <3> QED BY <3>1, <3>2
  <2> QED BY <2>3, <2>4, <2>5
<1> QED BY <1>3, <1>4, <1>5, <1>6 DEF Banners

LEMMA PushEffect ==
    ASSUME Tables, NEW M \in Table, NEW hs \in SUBSET Handles, PushTo(M, hs)
    PROVE  /\ SameRows(M, msg')
           /\ \A m \in MessageIds : /\ msg'[m].read = M[m].read
                                    /\ msg'[m].delivered => M[m].delivered \/ shown'[m] > 0
                                    /\ shown[m] > 0 => shown'[m] > 0
           /\ enter' \in [Handles -> Seq(SUBSET MessageIds)]
           /\ shown' \in [MessageIds -> 0..2]
           /\ Banners(enter, shown) => Banners(enter', shown')
<1>1. {h \in hs : agent[h] = "idle"} \in SUBSET Handles
    OBVIOUS
<1> QED BY <1>1, DeliverEffect DEF PushTo

\* A read marks what it returns, and possibly heartbeats.
LEMMA ReadEffect ==
    ASSUME Tables, NEW h, NEW filter, NEW mode, ReadAndReturn(h, filter, mode)
    PROVE  /\ SameRows(msg, msg')
           /\ \A m \in MessageIds :
                 /\ msg'[m].read => msg[m].read \/ m \in seen' \cup excused'
                 /\ msg'[m].delivered => msg[m].delivered \/ msg[m].type = "heartbeat"
           /\ seen \subseteq seen' /\ excused \subseteq excused'
           /\ seen' \subseteq MessageIds /\ excused' \subseteq MessageIds
<1> DEFINE batch == CheckResult(msg, h, filter, mode)
           heartbeats == {m \in UnreadHeartbeats(msg, h) :
                             m \in batch \/ \E w \in batch : msg[w].type = "worker_done" /\ m < w}
<1>1. batch \subseteq MessageIds /\ \A m \in heartbeats : m \in MessageIds /\ msg[m].type = "heartbeat"
    BY DEF CheckResult, UnreadHeartbeats
<1>2. seen' = seen \cup batch
    BY DEF ReadAndReturn
<1>3. CASE mode = "unread"
  <2>1. PICK stale \in SUBSET heartbeats :
            /\ msg' = markAsReadAndDelivered(markAsRead(msg, batch), stale)
            /\ excused' = excused \cup (stale \ batch)
      BY <1>3 DEF ReadAndReturn
  <2> DEFINE M == markAsRead(msg, batch)
  <2>2. /\ SameRows(msg, M)
        /\ \A m \in MessageIds : /\ M[m].read => msg[m].read \/ m \in batch
                                 /\ M[m].delivered = msg[m].delivered
      BY MarkAsReadRows DEF Tables
  <2>3. M \in Table
      BY <2>2 DEF SameRows
  <2>4. /\ SameRows(M, msg')
        /\ \A m \in MessageIds : /\ msg'[m].read => M[m].read \/ m \in stale
                                 /\ msg'[m].delivered => M[m].delivered \/ m \in stale
      BY <2>1, <2>3, MarkBothRows
  <2> HIDE DEF M, batch, heartbeats
  <2>5. SameRows(msg, msg')
      BY <2>2, <2>4, SameRowsTransitive
  <2> QED BY <1>1, <1>2, <2>1, <2>2, <2>4, <2>5 DEF Tables
<1>4. CASE mode # "unread"
  <2>1. msg' = msg /\ excused' = excused
      BY <1>4 DEF ReadAndReturn
  <2>2. SameRows(msg, msg)
      BY DEF SameRows, Tables
  <2> QED BY <1>1, <1>2, <2>1, <2>2 DEF Tables
<1> QED BY <1>3, <1>4

-----------------------------------------------------------------------------
(* Types and slots: the actions.                                           *)

Typed == Tables /\ Slots(reg, call)

LEMMA MessageIdTypes ==
    /\ \A m \in MessageIds : m \in Nat /\ m \in 0..MaxMessages
    /\ GroupThread \in Nat /\ 0..MaxMessages \subseteq 0..GroupThread
    /\ "heartbeat" \in MessageTypes /\ "status" \in MessageTypes
    /\ "decision_gate" \in MessageTypes /\ "escalation" \in MessageTypes
    /\ SendTypes \subseteq MessageTypes /\ SendThreads \subseteq 0..GroupThread
BY DeliveryAssumption DEF MessageIds, GroupThread, MessageTypes

LEMMA SendTyped ==
    ASSUME Typed, NEW from \in Handles, NEW to \in Handles, NEW type \in SendTypes,
           NEW thread \in SendThreads, Send(from, to, type, thread)
    PROVE  Typed'
<1> DEFINE m == nMsg + 1
           inserted == [msg EXCEPT ![m] = Row(from, to, type, thread)]
<1>1. m \in MessageIds /\ nMsg' \in 0..MaxMessages
    BY MessageIdTypes DEF Send
<1>2. inserted \in Table
    BY <1>1, InsertRow, RowTypes, MessageIdTypes DEF Typed, Tables
<1>3. CASE /\ msg' = markAsReadAndDelivered(inserted, {m})
           /\ excused' = excused \cup {m}
           /\ UNCHANGED <<call, reg, enter, shown>>
  <2>1. msg' \in Table
      BY <1>2, <1>3, MarkBothRows DEF SameRows
  <2> QED BY <1>1, <1>3, <2>1 DEF Send, Typed, Tables
<1>4. ASSUME NEW stale \in SUBSET IF type = "worker_done" THEN UnreadHeartbeats(msg, to) ELSE {},
             PushTo(markAsReadAndDelivered(inserted, stale), {to}),
             excused' = excused \cup stale,
             Notify({to}, type)
      PROVE  Typed'
  <2>1. stale \subseteq MessageIds
      BY DEF UnreadHeartbeats
  <2>2. markAsReadAndDelivered(inserted, stale) \in Table
      BY <1>2, MarkBothRows DEF SameRows
  <2>3. /\ msg' \in Table
        /\ enter' \in [Handles -> Seq(SUBSET MessageIds)] /\ shown' \in [MessageIds -> 0..2]
      BY <1>4, <2>2, PushEffect DEF Typed, SameRows
  <2>4. Slots(reg', call')
      BY <1>4, NotifySlots DEF Typed
  <2> QED BY <1>1, <1>4, <2>1, <2>3, <2>4 DEF Send, Typed, Tables
<1> QED BY <1>3, <1>4 DEF Send

\* The table with the rows of a group send.
GroupRows(from, order, n, type, thread) ==
    [m \in MessageIds |-> IF m - nMsg \in 1..n
                          THEN Row(from, order[m - nMsg], type,
                                   IF thread = 0 THEN GroupThread ELSE thread)
                          ELSE msg[m]]

LEMMA GroupRowsTable ==
    ASSUME Tables, NEW from \in Handles, NEW n \in Nat, NEW order \in [1..n -> Handles],
           NEW type \in SendTypes, NEW thread \in SendThreads
    PROVE  GroupRows(from, order, n, type, thread) \in Table
<1>1. \A i \in 1..n : Row(from, order[i], type, IF thread = 0 THEN GroupThread ELSE thread) \in MessageRow
  <2>1. (IF thread = 0 THEN GroupThread ELSE thread) \in 0..GroupThread
      BY MessageIdTypes
  <2> QED BY <2>1, RowTypes, MessageIdTypes
<1> QED BY <1>1 DEF GroupRows, Table, Tables

\* What a group send does, with the recipients in an order.
LEMMA GroupSendEffect ==
    ASSUME Typed, NEW from \in Handles, NEW type \in SendTypes, NEW thread \in SendThreads,
           GroupSend(from, type, thread)
    PROVE  \E recipients \in SUBSET Handles, n \in Nat : \E order \in [1..n -> recipients] :
              /\ Served /\ n > 0 /\ nMsg' = nMsg + n /\ nMsg' \in 0..MaxMessages
              /\ GroupRows(from, order, n, type, thread) \in Table
              /\ PushTo(GroupRows(from, order, n, type, thread), recipients)
              /\ Notify(recipients, type)
              /\ UNCHANGED <<agent, seen, excused>>
<1>1. PICK recipients \in SUBSET (Handles \ {from}) :
          /\ Served
          /\ Cardinality(recipients) > 0 /\ nMsg + Cardinality(recipients) <= MaxMessages
          /\ \E order \in [1..Cardinality(recipients) -> recipients] :
                PushTo(GroupRows(from, order, Cardinality(recipients), type, thread), recipients)
          /\ nMsg' = nMsg + Cardinality(recipients)
          /\ Notify(recipients, type)
          /\ UNCHANGED <<agent, seen, excused>>
    BY DEF GroupSend, GroupRows
<1> DEFINE n == Cardinality(recipients)
<1>2. n \in Nat
    BY FS_Subset, FS_CardinalityType, RegistryAssumption DEF RegistryAssumption
<1> HIDE DEF n
<1>3. PICK order \in [1..n -> recipients] : PushTo(GroupRows(from, order, n, type, thread), recipients)
    BY <1>1 DEF n
<1>4. order \in [1..n -> Handles]
    OBVIOUS
<1>5. GroupRows(from, order, n, type, thread) \in Table
    BY <1>2, <1>4, GroupRowsTable DEF Typed
<1>6. nMsg' \in 0..MaxMessages
    BY <1>1, <1>2, DeliveryAssumption DEF n, Typed, Tables
<1> QED BY <1>1, <1>2, <1>3, <1>5, <1>6 DEF n

LEMMA GroupSendTyped ==
    ASSUME Typed, NEW from \in Handles, NEW type \in SendTypes, NEW thread \in SendThreads,
           GroupSend(from, type, thread)
    PROVE  Typed'
<1>1. PICK recipients \in SUBSET Handles, n \in Nat : \E order \in [1..n -> recipients] :
          /\ nMsg' \in 0..MaxMessages
          /\ GroupRows(from, order, n, type, thread) \in Table
          /\ PushTo(GroupRows(from, order, n, type, thread), recipients)
          /\ Notify(recipients, type)
          /\ UNCHANGED <<agent, seen, excused>>
    BY GroupSendEffect
<1>2. Slots(reg', call')
    BY <1>1, NotifySlots DEF Typed
<1>3. /\ msg' \in Table
      /\ enter' \in [Handles -> Seq(SUBSET MessageIds)] /\ shown' \in [MessageIds -> 0..2]
    BY <1>1, PushEffect DEF Typed, SameRows
<1> QED BY <1>1, <1>2, <1>3 DEF Typed, Tables

LEMMA ReplyTyped ==
    ASSUME Typed, NEW m \in MessageIds, Reply(m)
    PROVE  Typed'
<1> DEFINE n == nMsg + 1
           row == Row(msg[m].to, msg[m].from, "status", IF msg[m].thread = 0 THEN m ELSE msg[m].thread)
<1>1. n \in MessageIds /\ nMsg' \in 0..MaxMessages
    BY MessageIdTypes DEF Reply
<1>2. msg[m] \in MessageRow
    BY DEF Typed, Tables, Table
<1>3. row \in MessageRow
  <2>1. (IF msg[m].thread = 0 THEN m ELSE msg[m].thread) \in 0..GroupThread
      BY <1>2, MessageIdTypes DEF MessageRow
  <2> QED BY <1>2, <2>1, RowTypes, MessageIdTypes DEF MessageRow
<1>4. markAsRead(msg, {m}) \in Table
    BY MarkAsReadRows DEF Typed, Tables, SameRows
<1>5. msg' \in Table
    BY <1>1, <1>3, <1>4, InsertRow DEF Reply
<1>6. {msg[m].from} \in SUBSET Handles
    BY <1>2 DEF MessageRow
<1>7. Slots(reg', call')
    BY <1>6, NotifySlots DEF Typed, Reply
<1> QED BY <1>1, <1>5, <1>7 DEF Reply, Typed, Tables

LEMMA CheckStartTyped ==
    ASSUME Typed, NEW c \in Calls, NEW h \in Handles, NEW filter \in FilterChoices, NEW mode \in Modes,
           CheckStart(c, h, filter, mode)
    PROVE  Typed'
<1>1. CASE CheckResult(msg, h, filter, mode) # {}
    BY <1>1, ReadEffect DEF CheckStart, Typed, Tables, SameRows
<1>2. CASE CheckResult(msg, h, filter, mode) = {}
  <2> DEFINE next == [IdleCall EXCEPT !.pc = "waiting", !.handle = h, !.filter = filter, !.mode = mode]
  <2>1. next \in LongPoll /\ next.pc = "waiting"
      BY IdleCallType, DeliveryAssumption DEF LongPoll
  <2>2. WaitForMessage(reg, call, c, next) /\ call[c].pc = "idle"
      BY <1>2 DEF CheckStart
  <2>3. Slots(reg', call')
    <3> HIDE DEF next
    <3> QED BY <2>1, <2>2, WaitSlots DEF Typed
  <2> QED BY <1>2, <2>3 DEF CheckStart, Typed, Tables
<1> QED BY <1>1, <1>2

LEMMA AskTyped ==
    ASSUME Typed, NEW c \in Calls, NEW from \in Handles, NEW to \in Handles, Ask(c, from, to)
    PROVE  Typed'
<1> DEFINE m == nMsg + 1
           woken == Woken({to}, "decision_gate")
           inserted == [msg EXCEPT ![m] = Row(from, to, "decision_gate", 0)]
           next == [IdleCall EXCEPT !.pc = "waiting", !.kind = "ask", !.handle = from, !.thread = m]
<1>1. m \in MessageIds /\ nMsg' \in 0..MaxMessages
    BY MessageIdTypes DEF Ask
<1>2. inserted \in Table
    BY <1>1, InsertRow, RowTypes, MessageIdTypes DEF Typed, Tables
<1>3. /\ msg' \in Table
      /\ enter' \in [Handles -> Seq(SUBSET MessageIds)] /\ shown' \in [MessageIds -> 0..2]
    BY <1>2, PushEffect DEF Ask, Typed, SameRows
<1>4. /\ Slots(settle(reg, woken), Wake(woken))
      /\ Waiting(Wake(woken)) = Waiting(call) \ woken
    BY WakeSlots DEF Typed
<1>5. Wake(woken)[c].pc # "waiting"
    BY <1>4 DEF Waiting, Ask
<1>6. next \in LongPoll /\ next.pc = "waiting"
    BY <1>1, IdleCallType, MessageIdTypes DEF LongPoll
<1>7. Slots(reg', call')
  <2>1. CASE WaitForMessage(settle(reg, woken), Wake(woken), c, next)
    <3> HIDE DEF next, woken
    <3> QED BY <1>4, <1>5, <1>6, <2>1, WaitSlots
  <2>2. CASE reg' = settle(reg, woken) /\ call' = Wake(woken)
      BY <1>4, <2>2
  <2> QED BY <2>1, <2>2 DEF Ask
<1> QED BY <1>1, <1>3, <1>7 DEF Ask, Typed, Tables

LEMMA ResumeTyped ==
    ASSUME Typed, NEW c \in Calls, Resume(c)
    PROVE  Typed'
<1>1. CASE CheckResume(c)
  <2>1. Slots(reg', call')
      BY <1>1, EndedSlots DEF CheckResume, Typed
  <2>2. CASE call[c].gone
      BY <1>1, <2>1, <2>2 DEF CheckResume, Typed, Tables
  <2>3. CASE ~call[c].gone
      BY <1>1, <2>1, <2>3, ReadEffect DEF CheckResume, Typed, Tables, SameRows
  <2> QED BY <2>2, <2>3
<1>2. CASE AskResume(c)
  <2>1. call[c] \in LongPoll /\ call[c].pc = "woken"
      BY <1>2 DEF AskResume, Typed, Slots
  <2> DEFINE next == [call[c] EXCEPT !.pc = "waiting", !.late = FALSE]
  <2>2. next \in LongPoll /\ next.pc = "waiting"
      BY <2>1 DEF LongPoll
  <2>3. /\ msg' \in Table
        /\ seen' \subseteq MessageIds
    <3>1. \A ids : markAsRead(msg, ids) \in Table
        BY MarkAsReadRows DEF Typed, Tables, SameRows
    <3>2. Replies(msg, call[c].handle, call[c].thread) \subseteq MessageIds
        BY DEF Replies
    <3> QED BY <1>2, <3>1, <3>2 DEF AskResume, Typed, Tables
  <2>4. \/ reg' = reg /\ call' = [call EXCEPT ![c] = IdleCall]
        \/ WaitForMessage(reg, call, c, next)
      BY <1>2 DEF AskResume
  <2>5. Slots(reg', call')
    <3> HIDE DEF next
    <3> QED BY <2>1, <2>2, <2>4, EndedSlots, WaitSlots DEF Typed
  <2> QED BY <1>2, <2>3, <2>5 DEF AskResume, Typed, Tables
<1> QED BY <1>1, <1>2 DEF Resume

LEMMA WaitEndedTyped ==
    ASSUME Typed, NEW c \in Calls, Timeout(c) \/ Abort(c)
    PROVE  Typed'
<1>1. call' \in [Calls -> LongPoll]
    BY DEF Timeout, Abort, Typed, Slots, LongPoll
<1>2. \A d \in Calls : d # c => call'[d] = call[d]
    BY DEF Timeout, Abort, Typed, Slots
<1>3. call'[c].pc = "woken"
    BY DEF Timeout, Abort, Typed, Slots, LongPoll
<1>4. Waiting(call') = Waiting(call) \ {c}
    BY <1>2, <1>3 DEF Waiting
<1>5. \A d \in Waiting(call') : call'[d].handle = call[d].handle
    BY <1>2, <1>4 DEF Waiting
<1>6. Slots(settle(reg, {c}), call')
    BY <1>1, <1>4, <1>5, SettledSlots DEF Typed
<1> QED BY <1>6 DEF Timeout, Abort, Typed, Tables

LEMMA TerminalTyped ==
    ASSUME Typed, NEW h \in Handles, BecomeIdle(h) \/ BecomeBusy(h) \/ EnterKey(h) \/ Exit(h)
    PROVE  Typed'
<1>1. CASE BecomeIdle(h)
    BY <1>1, DeliverEffect DEF BecomeIdle, Typed, Tables, SameRows
<1>2. CASE BecomeBusy(h)
    BY <1>2 DEF BecomeBusy, Typed, Tables
<1>3. CASE EnterKey(h)
  <2>1. Tail(enter[h]) \in Seq(SUBSET MessageIds)
      BY <1>3 DEF EnterKey, Typed, Tables
  <2>2. enter' \in [Handles -> Seq(SUBSET MessageIds)]
      BY <1>3, <2>1 DEF EnterKey, Typed, Tables
  <2>3. msg' \in Table
      BY <1>3, MarkAsDeliveredRows DEF EnterKey, Typed, Tables, SameRows
  <2> QED BY <1>3, <2>2, <2>3 DEF EnterKey, Typed, Tables
<1>4. CASE Exit(h)
  <2> DEFINE row == [Row(h, Coord, "escalation", 0) EXCEPT !.hook = TRUE]
  <2>1. row \in MessageRow
    <3>1. Row(h, Coord, "escalation", 0) \in MessageRow
        BY RowTypes, DeliveryAssumption, MessageIdTypes
    <3> QED BY <3>1 DEF MessageRow
  <2>2. nMsg < MaxMessages => nMsg + 1 \in MessageIds /\ nMsg + 1 \in 0..MaxMessages
      BY DeliveryAssumption DEF MessageIds, Typed, Tables
  <2>3. msg' \in Table /\ nMsg' \in 0..MaxMessages
    <3> HIDE DEF row
    <3> QED BY <1>4, <2>1, <2>2, InsertRow DEF Exit, Typed, Tables, row
  <2> QED BY <1>4, <2>3 DEF Exit, Typed, Tables
<1> QED BY <1>1, <1>2, <1>3, <1>4

LEMMA NextTyped == Typed /\ [Next]_vars => Typed'
<1> SUFFICES ASSUME Typed, [Next]_vars PROVE Typed'
    OBVIOUS
<1>1. CASE ResetMessages
    BY <1>1, NoRowType DEF ResetMessages, Typed, Tables, Table
<1>2. CASE UNCHANGED vars
    BY <1>2 DEF vars, Typed, Tables
<1>3. ASSUME Next, ~ResetMessages PROVE Typed'
    BY <1>3, SendTyped, GroupSendTyped, ReplyTyped, CheckStartTyped, AskTyped, ResumeTyped,
       WaitEndedTyped, TerminalTyped DEF Next
<1> QED BY <1>1, <1>2, <1>3

LEMMA InitTyped == Init => Typed
<1> SUFFICES ASSUME Init PROVE Typed
    OBVIOUS
<1>1. call \in [Calls -> LongPoll] /\ Waiting(call) = {}
    BY IdleCallType DEF Init, Waiting, IdleCall
<1>2. Exact(reg, {}, HandleOf(call))
    BY EmptyExact, RegistryAssumption DEF Init
<1>3. Tables
    BY NoRowType, DeliveryAssumption DEF Init, Tables, Table
<1> QED BY <1>1, <1>2, <1>3 DEF Typed, Slots

LEMMA AlwaysTyped == Spec => []Typed
BY InitTyped, NextTyped, PTL DEF Spec

\* Messages, calls, the registry and the terminals keep their shapes, whatever the
\* limits and however many calls and handles there are.
THEOREM DeliveryTypeCorrect == Spec => []TypeOK
<1>1. Typed => TypeOK
    BY DEF Typed, Tables, Slots, Exact, Table, TypeOK
<1> QED BY <1>1, AlwaysTyped, PTL

\* Whichever of a message, a timer and a lost client ends a wait, its slot and its
\* handle's bytes are freed exactly once: for any handles, calls and limits the
\* counters of the registry are those of the calls that wait, and within the limits.
THEOREM SlotsHold == Spec => []SlotsAreExact
<1>1. Typed => SlotsAreExact
  <2> SUFFICES ASSUME Typed PROVE SlotsAreExact
      OBVIOUS
  <2> DEFINE held(h) == {c \in {d \in Calls : call[d].pc = "waiting"} : call[c].handle = h}
  <2>1. \A h \in Handles : {c \in Waiting(call) : HandleOf(call)[c] = h} = held(h)
      BY DEF Waiting, HandleOf
  <2>2. Held(Waiting(call), HandleOf(call)) = {h \in Handles : held(h) # {}}
      BY DEF Held, Waiting, HandleOf
  <2>3. Exact(reg, Waiting(call), HandleOf(call))
      BY DEF Typed, Slots
  <2> HIDE DEF held
  <2> QED BY <2>1, <2>2, <2>3 DEF Exact, SlotsAreExact, Waiting, held
<1> QED BY <1>1, AlwaysTyped, PTL

-----------------------------------------------------------------------------
(* No lost wake-up.                                                        *)

\* A call that waits, or one that was woken because its client left, has nothing
\* to return but what is exempt.  (A filter of no types sleeps beside mail.)
Quiet(M, p, X) ==
    IF p.kind = "ask"
    THEN Replies(M, p.handle, p.thread) \subseteq X
    ELSE p.filter = NoFilter \/ p.filter # {} =>
            \A m \in CheckResult(M, p.handle, p.filter, p.mode) : M[m].hook \/ m \in X

\* What the calls were started with.
Proper(p) ==
    /\ p.kind = "ask" => p.filter = NoFilter /\ p.thread # 0
    /\ p.filter \in FilterChoices \cup {NoFilter}
    /\ p.pc = "waiting" => ~p.gone

LeftAlone(p) == p.pc = "woken" /\ p.gone /\ p.kind = "ask"

\* Rows beyond the counter do not exist.
Allocated(M, n) == \A m \in MessageIds : M[m].stored => m <= n

Awake ==
    /\ \A c \in Calls : Proper(call[c])
    /\ Allocated(msg, nMsg)
    /\ \A c \in Calls : call[c].pc = "waiting" \/ LeftAlone(call[c]) => Quiet(msg, call[c], excused)

\* The parameters of a call that its turns do not change.
SameCall(p, q) ==
    /\ q.kind = p.kind /\ q.handle = p.handle /\ q.filter = p.filter
    /\ q.mode = p.mode /\ q.thread = p.thread

\* The row m of N was there in M, with no more to return.
Old(M, N, m) ==
    /\ M[m].stored /\ N[m].to = M[m].to /\ N[m].type = M[m].type
    /\ N[m].thread = M[m].thread /\ N[m].hook = M[m].hook
    /\ M[m].read => N[m].read

\* The row m of N does not concern the waiting call p.
Foreign(N, m, p) == N[m].to # p.handle \/ ~wakes(p.filter, N[m].type)

LEMMA QuietStays ==
    ASSUME NEW M, NEW N, NEW p, NEW q, NEW X, NEW Y, X \subseteq Y, Quiet(M, p, X), SameCall(p, q),
           Proper(q),
           \A m \in MessageIds : N[m].stored =>
               Old(M, N, m) \/ m \in Y \/ (N[m].hook /\ N[m].thread = 0) \/ Foreign(N, m, q)
    PROVE  Quiet(N, q, Y)
<1>1. CASE q.kind = "ask"
  <2>1. q.filter = NoFilter /\ q.thread # 0 /\ p.kind = "ask"
      BY <1>1 DEF Proper, SameCall
  <2>2. ASSUME NEW m \in Replies(N, q.handle, q.thread) PROVE m \in Y
    <3>1. m \in MessageIds /\ N[m].stored /\ N[m].to = q.handle /\ N[m].thread = q.thread /\ m > q.thread
        BY DEF Replies
    <3>2. ~Foreign(N, m, q)
        BY <2>1, <3>1 DEF Foreign, wakes
    <3>3. Old(M, N, m) => m \in Replies(M, p.handle, p.thread)
        BY <3>1 DEF Old, Replies, SameCall
    <3> QED BY <2>1, <3>1, <3>2, <3>3 DEF Quiet
  <2> QED BY <1>1, <2>2 DEF Quiet
<1>2. CASE q.kind # "ask"
  <2>1. p.kind # "ask" /\ p.filter = q.filter
      BY <1>2 DEF SameCall
  <2>2. ASSUME q.filter = NoFilter \/ q.filter # {},
               NEW m \in CheckResult(N, q.handle, q.filter, q.mode)
        PROVE  N[m].hook \/ m \in Y
    <3>1. /\ m \in MessageIds /\ N[m].stored /\ N[m].to = q.handle
          /\ q.mode = "all" \/ ~N[m].read
          /\ Selects(q.filter, N[m].type)
        BY DEF CheckResult
    <3>2. ~Foreign(N, m, q)
        BY <2>2, <3>1 DEF Foreign, wakes, Selects
    <3>3. Old(M, N, m) => m \in CheckResult(M, p.handle, p.filter, p.mode)
        BY <3>1 DEF Old, CheckResult, SameCall
    <3> QED BY <2>1, <2>2, <3>1, <3>2, <3>3 DEF Quiet, Old
  <2> QED BY <1>2, <2>2 DEF Quiet
<1> QED BY <1>1, <1>2

\* A step that adds no rows.
LEMMA QuietSame ==
    ASSUME NEW M, NEW N, NEW p, NEW q, NEW X, NEW Y, X \subseteq Y, Quiet(M, p, X), SameCall(p, q),
           Proper(q), SameRows(M, N)
    PROVE  Quiet(N, q, Y)
<1>1. \A m \in MessageIds : N[m].stored => Old(M, N, m)
    BY DEF SameRows, Old
<1> QED BY <1>1, QuietStays

LEMMA SameRowsReflexive ==
    ASSUME NEW M \in Table
    PROVE  SameRows(M, M)
BY DEF SameRows

LEMMA SameRowsAllocated ==
    ASSUME NEW M, NEW N, NEW n, SameRows(M, N), Allocated(M, n)
    PROVE  Allocated(N, n)
BY DEF SameRows, Allocated

\* Rows are inserted and whom they concern is woken.  Nobody is there whose
\* client has left.
LEMMA ArrivalQuiet ==
    ASSUME Typed, Awake, Served, NEW handles \in SUBSET Handles, NEW type,
           excused \subseteq excused',
           \A m \in MessageIds : msg'[m].stored =>
               \/ Old(msg, msg', m)
               \/ msg'[m].to \in handles /\ msg'[m].type = type
    PROVE  \A c \in Calls :
               LET p == Wake(Woken(handles, type))[c]
               IN  Proper(p) /\ ~LeftAlone(p) /\ (p.pc = "waiting" => Quiet(msg', p, excused'))
<1> DEFINE S == Woken(handles, type)
           D == Wake(S)
<1>1. \A c \in Calls : D[c] = IF c \in S THEN [call[c] EXCEPT !.pc = "woken"] ELSE call[c]
    BY DEF Wake
<1>2. S = {c \in Waiting(call) : call[c].handle \in handles /\ wakes(call[c].filter, type)}
    BY WokenWait DEF Typed
<1> HIDE DEF S, D
<1>3. \A c \in S : call[c].pc = "waiting" /\ ~call[c].gone
    BY <1>2 DEF Waiting, Awake, Proper
<1>4. ASSUME NEW c \in Calls
      PROVE  /\ SameCall(call[c], D[c]) /\ D[c].gone = call[c].gone
             /\ D[c].pc = IF c \in S THEN "woken" ELSE call[c].pc
    BY <1>1 DEF SameCall, Typed, Slots, LongPoll
<1>5. \A c \in Calls : Proper(D[c])
    BY <1>4 DEF Awake, Proper, SameCall
<1>6. \A c \in Calls : ~LeftAlone(D[c])
    BY <1>3, <1>4 DEF LeftAlone, Served
<1>7. ASSUME NEW c \in Calls, D[c].pc = "waiting"
      PROVE  Quiet(msg', D[c], excused')
  <2>1. c \notin S /\ call[c].pc = "waiting"
      BY <1>4, <1>7
  <2>2. Quiet(msg, call[c], excused)
      BY <2>1 DEF Awake
  <2>3. ~(D[c].handle \in handles /\ wakes(D[c].filter, type))
      BY <1>2, <1>4, <2>1 DEF Waiting, SameCall
  <2>4. \A m \in MessageIds : msg'[m].stored => Old(msg, msg', m) \/ Foreign(msg', m, D[c])
      BY <2>3 DEF Foreign
  <2> QED BY <1>4, <1>5, <2>2, <2>4, QuietStays
<1> QED BY <1>5, <1>6, <1>7 DEF S, D

LEMMA ArrivalAwake ==
    ASSUME Typed, Awake, Served, NEW handles \in SUBSET Handles, NEW type, Notify(handles, type),
           excused \subseteq excused', Allocated(msg', nMsg'),
           \A m \in MessageIds : msg'[m].stored =>
               \/ Old(msg, msg', m)
               \/ msg'[m].to \in handles /\ msg'[m].type = type
    PROVE  Awake'
<1>1. \A c \in Calls : /\ Proper(call'[c]) /\ ~LeftAlone(call'[c])
                       /\ call'[c].pc = "waiting" => Quiet(msg', call'[c], excused')
  <2> DEFINE D == Wake(Woken(handles, type))
  <2>1. \A c \in Calls : Proper(D[c]) /\ ~LeftAlone(D[c]) /\ (D[c].pc = "waiting" => Quiet(msg', D[c], excused'))
      BY ArrivalQuiet
  <2>2. call' = D
      BY DEF Notify
  <2> HIDE DEF D
  <2> QED BY <2>1, <2>2
<1> QED BY <1>1 DEF Awake

\* A step that changes no call and inserts at most rows that are exempt.
LEMMA IdleAwake ==
    ASSUME Awake, call' = call, excused \subseteq excused', Allocated(msg', nMsg'),
           \/ SameRows(msg, msg')
           \/ /\ Served
              /\ \A m \in MessageIds : msg'[m].stored =>
                    Old(msg, msg', m) \/ m \in excused' \/ (msg'[m].hook /\ msg'[m].thread = 0)
    PROVE  Awake'
<1>1. \A c \in Calls : SameCall(call[c], call'[c]) /\ Proper(call'[c])
    BY DEF SameCall, Awake
<1>2. CASE SameRows(msg, msg')
    BY <1>1, <1>2, QuietSame DEF Awake
<1>3. CASE /\ Served
           /\ \A m \in MessageIds : msg'[m].stored =>
                 Old(msg, msg', m) \/ m \in excused' \/ (msg'[m].hook /\ msg'[m].thread = 0)
    BY <1>1, <1>3, QuietStays DEF Awake
<1> QED BY <1>2, <1>3

\* A step that adds no rows, ends or continues one call, and leaves the others alone.
LEMMA OneCallAwake ==
    ASSUME Typed, Awake, NEW c \in Calls, SameRows(msg, msg'), excused \subseteq excused', nMsg' = nMsg,
           \A d \in Calls : d # c => call'[d] = call[d],
           Proper(call'[c]),
           call'[c].pc = "waiting" \/ LeftAlone(call'[c]) => Quiet(msg', call'[c], excused')
    PROVE  Awake'
<1>1. Allocated(msg', nMsg')
    BY SameRowsAllocated DEF Awake
<1>2. ASSUME NEW d \in Calls, d # c, call[d].pc = "waiting" \/ LeftAlone(call[d])
      PROVE  Quiet(msg', call[d], excused')
    BY <1>2, QuietSame DEF Awake, SameCall
<1> QED BY <1>1, <1>2 DEF Awake

-----------------------------------------------------------------------------
(* No lost wake-up: the actions.                                           *)

\* One row is inserted; the others keep what they have, with more marks perhaps.
LEMMA InsertedOld ==
    ASSUME Typed, NEW M \in Table, SameRows(msg, M), NEW n \in MessageIds, NEW row \in MessageRow,
           NEW N, SameRows([M EXCEPT ![n] = row], N), Allocated(msg, nMsg), n = nMsg + 1
    PROVE  /\ Allocated(N, n)
           /\ \A m \in MessageIds : N[m].stored => m = n \/ Old(msg, N, m)
           /\ N[n].to = row.to /\ N[n].type = row.type /\ N[n].hook = row.hook
           /\ N[n].thread = row.thread
<1> DEFINE P == [M EXCEPT ![n] = row]
<1>1. P \in Table /\ P[n] = row /\ \A m \in MessageIds \ {n} : P[m] = M[m]
    BY InsertRow
<1>2. \A m \in MessageIds : m \in Nat
    BY MessageIdTypes
<1> HIDE DEF P
<1>3. \A m \in MessageIds : N[m].stored => m = n \/ Old(msg, N, m)
    BY <1>1 DEF SameRows, Old, P
<1>4. Allocated(N, n)
    BY <1>2, <1>3, DeliveryAssumption DEF Allocated, Old, Typed, Tables
<1> QED BY <1>1, <1>3, <1>4 DEF SameRows, P

LEMMA SendAwake ==
    ASSUME Typed, Awake, NEW from \in Handles, NEW to \in Handles, NEW type \in SendTypes,
           NEW thread \in SendThreads, Send(from, to, type, thread)
    PROVE  Awake'
<1> DEFINE n == nMsg + 1
           row == Row(from, to, type, thread)
           inserted == [msg EXCEPT ![n] = row]
<1>1. n \in MessageIds /\ nMsg' = n /\ Served
    BY DEF Send
<1>2. row \in MessageRow /\ row.to = to /\ row.type = type
    BY RowTypes, MessageIdTypes DEF Row
<1>3. msg \in Table /\ SameRows(msg, msg) /\ inserted \in Table
    BY <1>1, <1>2, InsertRow, SameRowsReflexive DEF Typed, Tables
<1> HIDE DEF row
<1>4. CASE /\ msg' = markAsReadAndDelivered(inserted, {n})
           /\ excused' = excused \cup {n}
           /\ UNCHANGED <<call, reg, enter, shown>>
  <2>1. SameRows(inserted, msg')
      BY <1>3, <1>4, MarkBothRows
  <2>2. Allocated(msg', n) /\ \A m \in MessageIds : msg'[m].stored => m = n \/ Old(msg, msg', m)
      BY <1>1, <1>2, <1>3, <2>1, InsertedOld DEF Awake
  <2> QED BY <1>1, <1>4, <2>2, IdleAwake
<1>5. ASSUME NEW stale \in SUBSET IF type = "worker_done" THEN UnreadHeartbeats(msg, to) ELSE {},
             PushTo(markAsReadAndDelivered(inserted, stale), {to}),
             excused' = excused \cup stale,
             Notify({to}, type)
      PROVE  Awake'
  <2> DEFINE M == markAsReadAndDelivered(inserted, stale)
  <2>1. SameRows(inserted, M)
      BY <1>3, MarkBothRows
  <2>2. M \in Table
      BY <2>1 DEF SameRows
  <2>3. SameRows(M, msg')
      BY <1>5, <2>2, PushEffect DEF Typed
  <2> HIDE DEF M
  <2>4. SameRows(inserted, msg')
      BY <2>1, <2>3, SameRowsTransitive
  <2>5. /\ Allocated(msg', n) /\ msg'[n].to = to /\ msg'[n].type = type
        /\ \A m \in MessageIds : msg'[m].stored => m = n \/ Old(msg, msg', m)
      BY <1>1, <1>2, <1>3, <2>4, InsertedOld DEF Awake
  <2> QED BY <1>1, <1>5, <2>5, ArrivalAwake
<1> QED BY <1>4, <1>5 DEF Send, row

LEMMA GroupSendAwake ==
    ASSUME Typed, Awake, NEW from \in Handles, NEW type \in SendTypes, NEW thread \in SendThreads,
           GroupSend(from, type, thread)
    PROVE  Awake'
<1>1. PICK recipients \in SUBSET Handles, n \in Nat : \E order \in [1..n -> recipients] :
          /\ Served /\ n > 0 /\ nMsg' = nMsg + n /\ nMsg' \in 0..MaxMessages
          /\ GroupRows(from, order, n, type, thread) \in Table
          /\ PushTo(GroupRows(from, order, n, type, thread), recipients)
          /\ Notify(recipients, type)
          /\ UNCHANGED <<agent, seen, excused>>
    BY GroupSendEffect
<1>2. PICK order \in [1..n -> recipients] :
          /\ GroupRows(from, order, n, type, thread) \in Table
          /\ PushTo(GroupRows(from, order, n, type, thread), recipients)
    BY <1>1
<1> DEFINE M == GroupRows(from, order, n, type, thread)
<1>3. \A m \in MessageIds : M[m] = IF m - nMsg \in 1..n
                                   THEN Row(from, order[m - nMsg], type,
                                            IF thread = 0 THEN GroupThread ELSE thread)
                                   ELSE msg[m]
    BY DEF GroupRows
<1>4. SameRows(M, msg')
    BY <1>2, PushEffect DEF Typed
<1> HIDE DEF M
<1>5. nMsg \in Nat /\ \A m \in MessageIds : m \in Nat
    BY MessageIdTypes, DeliveryAssumption DEF Typed, Tables
<1>6. ASSUME NEW m \in MessageIds, msg'[m].stored, m - nMsg \in 1..n
      PROVE  msg'[m].to \in recipients /\ msg'[m].type = type /\ m <= nMsg'
  <2>1. M[m] = Row(from, order[m - nMsg], type, IF thread = 0 THEN GroupThread ELSE thread)
      BY <1>3, <1>6
  <2>2. M[m].to = order[m - nMsg] /\ M[m].type = type
      BY <2>1 DEF Row
  <2> QED BY <1>1, <1>4, <1>5, <1>6, <2>2 DEF SameRows
<1>7. ASSUME NEW m \in MessageIds, msg'[m].stored, m - nMsg \notin 1..n
      PROVE  Old(msg, msg', m) /\ m <= nMsg'
  <2>1. M[m] = msg[m]
      BY <1>3, <1>7
  <2>2. Old(msg, msg', m)
      BY <1>4, <1>7, <2>1 DEF SameRows, Old
  <2> QED BY <1>1, <1>5, <2>2 DEF Old, Awake, Allocated
<1>8. Allocated(msg', nMsg')
    BY <1>6, <1>7 DEF Allocated
<1> QED BY <1>1, <1>6, <1>7, <1>8, ArrivalAwake

LEMMA ReplyAwake ==
    ASSUME Typed, Awake, NEW m \in MessageIds, Reply(m)
    PROVE  Awake'
<1> DEFINE n == nMsg + 1
           row == Row(msg[m].to, msg[m].from, "status", IF msg[m].thread = 0 THEN m ELSE msg[m].thread)
           M == markAsRead(msg, {m})
<1>1. n \in MessageIds /\ nMsg' = n /\ Served
    BY DEF Reply
<1>2. msg[m] \in MessageRow
    BY DEF Typed, Tables, Table
<1>3. row \in MessageRow /\ row.to = msg[m].from /\ row.type = "status"
  <2>1. (IF msg[m].thread = 0 THEN m ELSE msg[m].thread) \in 0..GroupThread
      BY <1>2, MessageIdTypes DEF MessageRow
  <2>2. row.to = msg[m].from /\ row.type = "status"
      BY DEF Row
  <2> QED BY <1>2, <2>1, <2>2, RowTypes, MessageIdTypes DEF MessageRow
<1>4. SameRows(msg, M) /\ M \in Table
    BY MarkAsReadRows DEF Typed, Tables, SameRows
<1>5. msg' = [M EXCEPT ![n] = row] /\ msg' \in Table
    BY <1>1, <1>3, <1>4, InsertRow DEF Reply
<1>6. SameRows([M EXCEPT ![n] = row], msg')
    BY <1>5, SameRowsReflexive
<1> HIDE DEF M, row
<1>7. /\ Allocated(msg', n) /\ msg'[n].to = msg[m].from /\ msg'[n].type = "status"
      /\ \A q \in MessageIds : msg'[q].stored => q = n \/ Old(msg, msg', q)
    BY <1>1, <1>3, <1>4, <1>6, InsertedOld DEF Awake
<1>8. {msg[m].from} \in SUBSET Handles /\ Notify({msg[m].from}, "status") /\ excused \subseteq excused'
    BY <1>2 DEF Reply, MessageRow
<1> QED BY <1>1, <1>7, <1>8, ArrivalAwake

LEMMA ResetAwake ==
    ASSUME Typed, Awake, ResetMessages
    PROVE  Awake'
<1>1. \A m \in MessageIds : ~msg'[m].stored
    BY NoRowType DEF ResetMessages, NoRow, Row
<1>2. Served /\ call' = call /\ excused' = excused
    BY DEF ResetMessages
<1> QED BY <1>1, <1>2, IdleAwake DEF Allocated

\* A call that starts to wait, if it does, has nothing to return.
LEMMA StartAwake ==
    ASSUME Typed, Awake, NEW c \in Calls, SameRows(msg, msg'), excused' = excused, nMsg' = nMsg,
           NEW R, NEW next, WaitForMessage(R, call, c, next),
           Proper(next), next.pc = "waiting", Quiet(msg', next, excused)
    PROVE  Awake'
<1>1. Proper(IdleCall) /\ IdleCall.pc = "idle"
    BY DEF IdleCall, Proper
<1>2. \A d \in Calls : d # c => call'[d] = call[d]
    BY DEF WaitForMessage, Typed, Slots
<1>3. call'[c] = next \/ call'[c] = IdleCall
    BY DEF WaitForMessage, Typed, Slots
<1>4. ~LeftAlone(IdleCall)
    BY <1>1 DEF LeftAlone
<1> QED BY <1>1, <1>2, <1>3, <1>4, OneCallAwake

LEMMA CheckStartAwake ==
    ASSUME Typed, Awake, NEW c \in Calls, NEW h \in Handles, NEW filter \in FilterChoices, NEW mode \in Modes,
           CheckStart(c, h, filter, mode)
    PROVE  Awake'
<1>1. CASE CheckResult(msg, h, filter, mode) # {}
  <2>1. SameRows(msg, msg') /\ excused \subseteq excused'
      BY <1>1, ReadEffect DEF CheckStart, Typed
  <2>2. Allocated(msg', nMsg') /\ call' = call
      BY <1>1, <2>1, SameRowsAllocated DEF CheckStart, Awake
  <2> QED BY <2>1, <2>2, IdleAwake
<1>2. CASE CheckResult(msg, h, filter, mode) = {}
  <2> DEFINE next == [IdleCall EXCEPT !.pc = "waiting", !.handle = h, !.filter = filter, !.mode = mode]
  <2>1. /\ next.pc = "waiting" /\ next.kind = "check" /\ ~next.gone
        /\ next.handle = h /\ next.filter = filter /\ next.mode = mode
      BY DEF IdleCall
  <2>2. WaitForMessage(reg, call, c, next) /\ msg' = msg /\ excused' = excused /\ nMsg' = nMsg
      BY <1>2 DEF CheckStart
  <2>3. SameRows(msg, msg')
      BY <2>2, SameRowsReflexive DEF Typed, Tables
  <2> HIDE DEF next
  <2>4. Proper(next) /\ Quiet(msg', next, excused)
      BY <1>2, <2>1, <2>2 DEF Proper, Quiet
  <2> QED BY <2>1, <2>2, <2>3, <2>4, StartAwake
<1> QED BY <1>1, <1>2

LEMMA AskAwake ==
    ASSUME Typed, Awake, NEW c \in Calls, NEW from \in Handles, NEW to \in Handles, Ask(c, from, to)
    PROVE  Awake'
<1> DEFINE n == nMsg + 1
           row == Row(from, to, "decision_gate", 0)
           D == Wake(Woken({to}, "decision_gate"))
           next == [IdleCall EXCEPT !.pc = "waiting", !.kind = "ask", !.handle = from, !.thread = n]
<1>1. n \in MessageIds /\ nMsg' = n /\ Served /\ excused' = excused
    BY DEF Ask
<1>2. row \in MessageRow /\ row.to = to /\ row.type = "decision_gate"
    BY RowTypes, MessageIdTypes DEF Row
<1>3. msg \in Table /\ SameRows(msg, msg) /\ [msg EXCEPT ![n] = row] \in Table
    BY <1>1, <1>2, InsertRow, SameRowsReflexive DEF Typed, Tables
<1>4. SameRows([msg EXCEPT ![n] = row], msg')
    BY <1>3, PushEffect DEF Ask, Typed
<1>5. /\ next.pc = "waiting" /\ next.kind = "ask" /\ ~next.gone
      /\ next.handle = from /\ next.filter = NoFilter /\ next.thread = n
    BY DEF IdleCall
<1>6. \/ WaitForMessage(settle(reg, Woken({to}, "decision_gate")), D, c, next)
      \/ call' = D
    BY DEF Ask
<1> HIDE DEF row, next
<1>7. /\ Allocated(msg', n) /\ msg'[n].to = to /\ msg'[n].type = "decision_gate"
      /\ \A m \in MessageIds : msg'[m].stored => m = n \/ Old(msg, msg', m)
    BY <1>1, <1>2, <1>3, <1>4, InsertedOld DEF Awake
<1>8. \A d \in Calls : Proper(D[d]) /\ ~LeftAlone(D[d]) /\ (D[d].pc = "waiting" => Quiet(msg', D[d], excused'))
    BY <1>1, <1>7, ArrivalQuiet
<1>9. n \in Nat /\ n # 0 /\ \A m \in MessageIds : m \in Nat
    BY <1>1, MessageIdTypes DEF MessageIds
<1>10. Replies(msg', from, n) = {}
    BY <1>7, <1>9 DEF Allocated, Replies
<1>11. Proper(next) /\ Quiet(msg', next, excused')
    BY <1>5, <1>9, <1>10 DEF Proper, Quiet
<1>12. Proper(IdleCall) /\ IdleCall.pc = "idle"
    BY DEF IdleCall, Proper
<1>13. D \in [Calls -> LongPoll]
    BY WakeSlots DEF Typed, Slots
<1> HIDE DEF D
<1>14. \A d \in Calls : call'[d] = D[d] \/ (d = c /\ call'[d] \in {next, IdleCall})
    BY <1>6, <1>13 DEF WaitForMessage
<1>15. ~LeftAlone(next) /\ ~LeftAlone(IdleCall)
    BY <1>5, <1>12 DEF LeftAlone
<1> QED BY <1>1, <1>5, <1>7, <1>8, <1>11, <1>12, <1>14, <1>15 DEF Awake

LEMMA ResumeAwake ==
    ASSUME Typed, Awake, NEW c \in Calls, Resume(c)
    PROVE  Awake'
<1>1. Proper(IdleCall) /\ IdleCall.pc = "idle" /\ ~LeftAlone(IdleCall)
    BY DEF IdleCall, Proper, LeftAlone
<1>2. msg \in Table /\ SameRows(msg, msg)
    BY SameRowsReflexive DEF Typed, Tables
<1>3. ASSUME call' = [call EXCEPT ![c] = IdleCall], SameRows(msg, msg'), excused \subseteq excused', nMsg' = nMsg
      PROVE  Awake'
  <2>1. call'[c] = IdleCall /\ \A d \in Calls : d # c => call'[d] = call[d]
      BY <1>3 DEF Typed, Slots
  <2> QED BY <1>1, <1>3, <2>1, OneCallAwake
<1>4. CASE CheckResume(c)
  <2>1. call' = [call EXCEPT ![c] = IdleCall] /\ nMsg' = nMsg
      BY <1>4 DEF CheckResume
  <2>2. SameRows(msg, msg') /\ excused \subseteq excused'
    <3>1. CASE call[c].gone
        BY <1>2, <1>4, <3>1 DEF CheckResume
    <3>2. CASE ~call[c].gone
        BY <1>4, <3>2, ReadEffect DEF CheckResume, Typed
    <3> QED BY <3>1, <3>2
  <2> QED BY <1>3, <2>1, <2>2
<1>5. CASE AskResume(c)
  <2> DEFINE next == [call[c] EXCEPT !.pc = "waiting", !.late = FALSE]
  <2>1. nMsg' = nMsg /\ excused' = excused
      BY <1>5 DEF AskResume
  <2>2. SameRows(msg, msg')
      BY <1>2, <1>5, MarkAsReadRows DEF AskResume
  <2>3. \/ call' = [call EXCEPT ![c] = IdleCall]
        \/ /\ Replies(msg, call[c].handle, call[c].thread) = {} /\ msg' = msg
           /\ ~call[c].gone
           /\ WaitForMessage(reg, call, c, next)
      BY <1>5 DEF AskResume
  <2>4. CASE /\ Replies(msg, call[c].handle, call[c].thread) = {} /\ msg' = msg
             /\ ~call[c].gone
             /\ WaitForMessage(reg, call, c, next)
    <3>1. call[c] \in LongPoll /\ call[c].kind = "ask" /\ Proper(call[c])
        BY <1>5 DEF AskResume, Typed, Slots, Awake
    <3>2. SameCall(call[c], next) /\ next.pc = "waiting" /\ next.gone = call[c].gone
        BY <3>1 DEF SameCall, LongPoll
    <3> HIDE DEF next
    <3>3. Proper(next) /\ Quiet(msg', next, excused)
        BY <2>4, <3>1, <3>2 DEF Proper, Quiet, SameCall
    <3> QED BY <2>1, <2>2, <2>4, <3>2, <3>3, StartAwake
  <2> HIDE DEF next
  <2> QED BY <1>3, <2>1, <2>2, <2>3, <2>4 DEF next
<1> QED BY <1>4, <1>5 DEF Resume

LEMMA WaitEndedAwake ==
    ASSUME Typed, Awake, NEW c \in Calls, Timeout(c) \/ Abort(c)
    PROVE  Awake'
<1>1. call[c].pc = "waiting" /\ msg' = msg /\ excused' = excused /\ nMsg' = nMsg
    BY DEF Timeout, Abort
<1>2. Quiet(msg, call[c], excused) /\ Proper(call[c])
    BY <1>1 DEF Awake
<1>3. SameCall(call[c], call'[c]) /\ call'[c].pc = "woken"
    BY DEF Timeout, Abort, SameCall, Typed, Slots, LongPoll
<1>4. \A d \in Calls : d # c => call'[d] = call[d]
    BY DEF Timeout, Abort, Typed, Slots
<1>5. SameRows(msg, msg')
    BY <1>1, SameRowsReflexive DEF Typed, Tables
<1>6. Proper(call'[c]) /\ Quiet(msg', call'[c], excused')
    BY <1>1, <1>2, <1>3 DEF Proper, SameCall, Quiet
<1> QED BY <1>1, <1>4, <1>5, <1>6, OneCallAwake

LEMMA TerminalAwake ==
    ASSUME Typed, Awake, NEW h \in Handles, BecomeIdle(h) \/ BecomeBusy(h) \/ EnterKey(h) \/ Exit(h)
    PROVE  Awake'
<1>1. msg \in Table /\ SameRows(msg, msg) /\ call' = call /\ excused' = excused
    BY SameRowsReflexive DEF Typed, Tables, BecomeIdle, BecomeBusy, EnterKey, Exit
<1>2. ASSUME SameRows(msg, msg'), nMsg' = nMsg PROVE Awake'
    BY <1>1, <1>2, SameRowsAllocated, IdleAwake DEF Awake
<1>3. CASE BecomeIdle(h)
    BY <1>1, <1>2, <1>3, DeliverEffect DEF BecomeIdle, Typed
<1>4. CASE BecomeBusy(h)
    BY <1>1, <1>2, <1>4 DEF BecomeBusy
<1>5. CASE EnterKey(h)
    BY <1>1, <1>2, <1>5, MarkAsDeliveredRows DEF EnterKey
<1>6. CASE Exit(h)
  <2> DEFINE n == nMsg + 1
             row == [Row(h, Coord, "escalation", 0) EXCEPT !.hook = TRUE]
  <2>1. CASE UNCHANGED <<msg, nMsg>>
      BY <1>1, <1>2, <2>1
  <2>2. CASE nMsg < MaxMessages /\ nMsg' = n /\ msg' = [msg EXCEPT ![n] = row]
    <3>1. n \in MessageIds
        BY <2>2, DeliveryAssumption DEF MessageIds, Typed, Tables
    <3>2. row \in MessageRow /\ row.hook /\ row.thread = 0
      <4>1. Row(h, Coord, "escalation", 0) \in MessageRow
          BY RowTypes, DeliveryAssumption, MessageIdTypes
      <4> QED BY <4>1 DEF MessageRow, Row
    <3> HIDE DEF row
    <3>3. SameRows([msg EXCEPT ![n] = row], msg')
        BY <1>1, <2>2, <3>1, <3>2, InsertRow, SameRowsReflexive
    <3>4. /\ Allocated(msg', n) /\ msg'[n].hook /\ msg'[n].thread = 0
          /\ \A m \in MessageIds : msg'[m].stored => m = n \/ Old(msg, msg', m)
        BY <1>1, <3>1, <3>2, <3>3, InsertedOld DEF Awake
    <3> QED BY <1>1, <1>6, <2>2, <3>4, IdleAwake DEF Exit
  <2> QED BY <1>6, <2>1, <2>2 DEF Exit
<1> QED BY <1>3, <1>4, <1>5, <1>6

LEMMA NextAwake == Typed /\ Awake /\ [Next]_vars => Awake'
<1> SUFFICES ASSUME Typed, Awake, [Next]_vars PROVE Awake'
    OBVIOUS
<1>1. CASE UNCHANGED vars
    BY <1>1 DEF vars, Awake
<1>2. CASE Next
    BY <1>2, SendAwake, GroupSendAwake, ReplyAwake, ResetAwake, CheckStartAwake, AskAwake, ResumeAwake,
       WaitEndedAwake, TerminalAwake DEF Next
<1> QED BY <1>1, <1>2

LEMMA InitAwake == Init => Awake
<1> SUFFICES ASSUME Init PROVE Awake
    OBVIOUS
<1>1. \A c \in Calls : Proper(call[c]) /\ call[c].pc = "idle"
    BY DEF Init, IdleCall, Proper
<1>2. Allocated(msg, nMsg)
    BY DEF Init, Allocated, NoRow, Row
<1> QED BY <1>1, <1>2 DEF Awake, LeftAlone

LEMMA AlwaysAwake == Spec => []Awake
BY InitTyped, NextTyped, InitAwake, NextAwake, PTL DEF Spec

\* A long poll never sleeps beside what it would return: whoever inserts a message
\* wakes those it concerns, a call starts to wait only after it found nothing, and
\* between the two no other call runs.  The hypothesis is needed: a check --wait with
\* an empty list of types selects every message and is woken by none.
THEOREM WakeupsAreNotLost ==
    ASSUME {} \notin FilterChoices
    PROVE  Spec => []NoLostWakeup
<1>1. ASSUME Awake PROVE NoLostWakeup
  <2>1. ASSUME NEW c \in Calls, call[c].pc = "waiting"
        PROVE  call[c].filter = NoFilter \/ call[c].filter # {}
      BY <1>1 DEF Awake, Proper
  <2> QED BY <1>1, <2>1 DEF Awake, Quiet, NoLostWakeup
<1> QED BY <1>1, AlwaysAwake, PTL

-----------------------------------------------------------------------------
(* What a mark on a message means.                                         *)

\* The marks are accounted for, and so is what the Enter keys have yet to stamp.
Accounted == ReadWasSeen /\ DeliveredWasShown /\ Banners(enter, shown)

\* The marks of row m in N are those it had in M, or have a reason in this step.
Marked(M, N, m) ==
    /\ N[m].stored /\ N[m].read => (M[m].stored /\ M[m].read) \/ m \in excused' \cup seen'
    /\ N[m].delivered => \/ M[m].delivered /\ M[m].type = N[m].type
                         \/ shown'[m] > 0 \/ m \in excused' \/ N[m].type = "heartbeat"

\* The terminals show no less than before, and their keys stamp what was shown.
BannersGrow ==
    /\ \A m \in MessageIds : shown[m] > 0 => shown'[m] > 0
    /\ Banners(enter, shown) => Banners(enter', shown')

LEMMA MarkedAccounted ==
    ASSUME Accounted, BannersGrow, seen \subseteq seen', excused \subseteq excused',
           \A m \in MessageIds : Marked(msg, msg', m)
    PROVE  Accounted'
BY DEF Accounted, BannersGrow, ReadWasSeen, DeliveredWasShown, Marked

LEMMA PushedMarks ==
    ASSUME Tables, NEW M \in Table, NEW hs \in SUBSET Handles, PushTo(M, hs),
           \A m \in MessageIds : Marked(msg, M, m)
    PROVE  BannersGrow /\ \A m \in MessageIds : Marked(msg, msg', m)
<1>1. /\ SameRows(M, msg')
      /\ \A m \in MessageIds : /\ msg'[m].read = M[m].read
                               /\ msg'[m].delivered => M[m].delivered \/ shown'[m] > 0
                               /\ shown[m] > 0 => shown'[m] > 0
      /\ Banners(enter, shown) => Banners(enter', shown')
    BY PushEffect
<1> QED BY <1>1 DEF BannersGrow, SameRows, Marked

LEMMA InsertedMarks ==
    ASSUME Typed, NEW M \in Table, NEW n \in MessageIds, NEW row \in MessageRow,
           ~row.read, ~row.delivered, \A m \in MessageIds : Marked(msg, M, m)
    PROVE  \A m \in MessageIds : Marked(msg, [M EXCEPT ![n] = row], m)
<1> DEFINE P == [M EXCEPT ![n] = row]
<1>1. P \in Table /\ P[n] = row /\ \A m \in MessageIds \ {n} : P[m] = M[m]
    BY InsertRow
<1> HIDE DEF P
<1> QED BY <1>1 DEF Marked, P

LEMMA ReadMarks ==
    ASSUME Tables, NEW ids, ids \subseteq excused' \cup seen'
    PROVE  /\ markAsRead(msg, ids) \in Table
           /\ \A m \in MessageIds : Marked(msg, markAsRead(msg, ids), m)
<1> DEFINE N == markAsRead(msg, ids)
<1>1. /\ SameRows(msg, N)
      /\ \A m \in MessageIds : /\ N[m].read = (msg[m].read \/ (m \in ids /\ msg[m].stored))
                               /\ N[m].delivered = msg[m].delivered
    BY MarkAsReadRows DEF Tables
<1> HIDE DEF N
<1>2. N \in Table /\ \A m \in MessageIds : Marked(msg, N, m)
    BY <1>1 DEF SameRows, Marked
<1> QED BY <1>2 DEF N

LEMMA StampedMarks ==
    ASSUME Tables, NEW ids, \A m \in ids : shown'[m] > 0
    PROVE  \A m \in MessageIds : Marked(msg, markAsDelivered(msg, ids), m)
<1> DEFINE N == markAsDelivered(msg, ids)
<1>1. /\ SameRows(msg, N)
      /\ \A m \in MessageIds : /\ N[m].delivered = (msg[m].delivered \/ (m \in ids /\ msg[m].stored))
                               /\ N[m].read = msg[m].read
    BY MarkAsDeliveredRows DEF Tables
<1> HIDE DEF N
<1>2. \A m \in MessageIds : Marked(msg, N, m)
    BY <1>1 DEF SameRows, Marked
<1> QED BY <1>2 DEF N

LEMMA KeptMarks ==
    ASSUME Typed
    PROVE  /\ \A m \in MessageIds : Marked(msg, msg, m)
           /\ UNCHANGED <<enter, shown>> => BannersGrow
BY DEF Marked, BannersGrow

LEMMA SendAccounted ==
    ASSUME Typed, Accounted, NEW from \in Handles, NEW to \in Handles, NEW type \in SendTypes,
           NEW thread \in SendThreads, Send(from, to, type, thread)
    PROVE  Accounted'
<1> DEFINE n == nMsg + 1
           row == Row(from, to, type, thread)
           inserted == [msg EXCEPT ![n] = row]
<1>1. n \in MessageIds /\ seen' = seen
    BY DEF Send
<1>2. row \in MessageRow /\ ~row.read /\ ~row.delivered
    BY RowTypes, MessageIdTypes DEF Row
<1>3. inserted \in Table /\ \A m \in MessageIds : Marked(msg, inserted, m)
    BY <1>1, <1>2, InsertRow, InsertedMarks, KeptMarks DEF Typed, Tables
<1> HIDE DEF row, inserted
<1>4. ASSUME NEW stale, stale \subseteq excused'
      PROVE  LET M == markAsReadAndDelivered(inserted, stale)
             IN  M \in Table /\ \A m \in MessageIds : Marked(msg, M, m)
  <2> DEFINE M == markAsReadAndDelivered(inserted, stale)
  <2>1. /\ SameRows(inserted, M)
        /\ \A m \in MessageIds :
              /\ M[m].read = (inserted[m].read \/ (m \in stale /\ inserted[m].stored))
              /\ M[m].delivered = (inserted[m].delivered \/ (m \in stale /\ inserted[m].stored))
      BY <1>3, MarkBothRows
  <2> HIDE DEF M
  <2>2. M \in Table
      BY <2>1 DEF SameRows
  <2>3. ASSUME NEW m \in MessageIds PROVE Marked(msg, M, m)
    <3>1. Marked(msg, inserted, m)
        BY <1>3
    <3> QED BY <1>4, <2>1, <3>1 DEF Marked, SameRows
  <2> QED BY <2>2, <2>3 DEF M
<1>5. CASE /\ msg' = markAsReadAndDelivered(inserted, {n})
           /\ excused' = excused \cup {n}
           /\ UNCHANGED <<call, reg, enter, shown>>
  <2>1. BannersGrow
      BY <1>5, KeptMarks
  <2>2. \A m \in MessageIds : Marked(msg, msg', m)
      BY <1>4, <1>5
  <2> QED BY <1>1, <1>5, <2>1, <2>2, MarkedAccounted
<1>6. ASSUME NEW stale \in SUBSET IF type = "worker_done" THEN UnreadHeartbeats(msg, to) ELSE {},
             PushTo(markAsReadAndDelivered(inserted, stale), {to}),
             excused' = excused \cup stale
      PROVE  Accounted'
  <2>1. stale \subseteq excused' /\ excused \subseteq excused'
      BY <1>6
  <2> DEFINE M == markAsReadAndDelivered(inserted, stale)
  <2>2. M \in Table /\ \A m \in MessageIds : Marked(msg, M, m)
      BY <1>4, <2>1
  <2>3. PushTo(M, {to})
      BY <1>6
  <2> HIDE DEF M
  <2>4. BannersGrow /\ \A m \in MessageIds : Marked(msg, msg', m)
      BY <2>2, <2>3, PushedMarks DEF Typed
  <2> QED BY <1>1, <2>1, <2>4, MarkedAccounted
<1> QED BY <1>5, <1>6 DEF Send, inserted, row

LEMMA GroupSendAccounted ==
    ASSUME Typed, Accounted, NEW from \in Handles, NEW type \in SendTypes, NEW thread \in SendThreads,
           GroupSend(from, type, thread)
    PROVE  Accounted'
<1>1. PICK recipients \in SUBSET Handles, n \in Nat : \E order \in [1..n -> recipients] :
          /\ GroupRows(from, order, n, type, thread) \in Table
          /\ PushTo(GroupRows(from, order, n, type, thread), recipients)
          /\ UNCHANGED <<agent, seen, excused>>
    BY GroupSendEffect
<1>2. PICK order \in [1..n -> recipients] :
          /\ GroupRows(from, order, n, type, thread) \in Table
          /\ PushTo(GroupRows(from, order, n, type, thread), recipients)
    BY <1>1
<1> DEFINE M == GroupRows(from, order, n, type, thread)
<1>3. \A m \in MessageIds : M[m] = msg[m] \/ (~M[m].read /\ ~M[m].delivered)
    BY DEF GroupRows, Row
<1> HIDE DEF M
<1>4. \A m \in MessageIds : Marked(msg, M, m)
    BY <1>3 DEF Marked
<1>5. BannersGrow /\ \A m \in MessageIds : Marked(msg, msg', m)
    BY <1>2, <1>4, PushedMarks DEF Typed, M
<1> QED BY <1>1, <1>5, MarkedAccounted

LEMMA ReplyAccounted ==
    ASSUME Typed, Accounted, NEW m \in MessageIds, Reply(m)
    PROVE  Accounted'
<1> DEFINE n == nMsg + 1
           row == Row(msg[m].to, msg[m].from, "status", IF msg[m].thread = 0 THEN m ELSE msg[m].thread)
           M == markAsRead(msg, {m})
<1>1. /\ n \in MessageIds /\ excused' = excused \cup {m}
      /\ msg' = [M EXCEPT ![n] = row] /\ UNCHANGED <<enter, shown, seen>>
    BY DEF Reply
<1>2. msg[m] \in MessageRow
    BY DEF Typed, Tables, Table
<1>3. row \in MessageRow /\ ~row.read /\ ~row.delivered
  <2>1. (IF msg[m].thread = 0 THEN m ELSE msg[m].thread) \in 0..GroupThread
      BY <1>2, MessageIdTypes DEF MessageRow
  <2>2. ~row.read /\ ~row.delivered
      BY DEF Row
  <2> QED BY <1>2, <2>1, <2>2, RowTypes, MessageIdTypes DEF MessageRow
<1>4. M \in Table /\ \A q \in MessageIds : Marked(msg, M, q)
    BY <1>1, ReadMarks DEF Typed
<1> HIDE DEF M, row
<1>5. \A q \in MessageIds : Marked(msg, msg', q)
    BY <1>1, <1>3, <1>4, InsertedMarks
<1> QED BY <1>1, <1>5, KeptMarks, MarkedAccounted

LEMMA ReadAccounted ==
    ASSUME Typed, Accounted, UNCHANGED <<enter, shown>>, NEW h, NEW filter, NEW mode,
           ReadAndReturn(h, filter, mode)
    PROVE  Accounted'
<1>1. /\ SameRows(msg, msg')
      /\ \A m \in MessageIds :
            /\ msg'[m].read => msg[m].read \/ m \in seen' \cup excused'
            /\ msg'[m].delivered => msg[m].delivered \/ msg[m].type = "heartbeat"
      /\ seen \subseteq seen' /\ excused \subseteq excused'
    BY ReadEffect DEF Typed
<1>2. \A m \in MessageIds : Marked(msg, msg', m)
    BY <1>1 DEF Marked, SameRows
<1> QED BY <1>1, <1>2, KeptMarks, MarkedAccounted

LEMMA AskAccounted ==
    ASSUME Typed, Accounted, NEW c \in Calls, NEW from \in Handles, NEW to \in Handles, Ask(c, from, to)
    PROVE  Accounted'
<1> DEFINE n == nMsg + 1
           row == Row(from, to, "decision_gate", 0)
           M == [msg EXCEPT ![n] = row]
<1>1. n \in MessageIds /\ seen' = seen /\ excused' = excused /\ PushTo(M, {to})
    BY DEF Ask
<1>2. row \in MessageRow /\ ~row.read /\ ~row.delivered
    BY RowTypes, MessageIdTypes DEF Row
<1>3. M \in Table /\ \A m \in MessageIds : Marked(msg, M, m)
    BY <1>1, <1>2, InsertRow, InsertedMarks, KeptMarks DEF Typed, Tables
<1> HIDE DEF row, M
<1>4. BannersGrow /\ \A m \in MessageIds : Marked(msg, msg', m)
    BY <1>1, <1>3, PushedMarks DEF Typed
<1> QED BY <1>1, <1>4, MarkedAccounted

\* A reply is marked read for a client that has gone only if it came back to be
\* exempt: had it come before the client left, the call would have been woken by it.
LEMMA AskResumeAccounted ==
    ASSUME Typed, Awake, Accounted, NEW c \in Calls, AskResume(c)
    PROVE  Accounted'
<1> DEFINE replies == Replies(msg, call[c].handle, call[c].thread)
<1>1. UNCHANGED <<enter, shown, excused>> /\ call[c].pc = "woken" /\ call[c].kind = "ask"
    BY DEF AskResume
<1>2. CASE UNCHANGED <<msg, seen>>
    BY <1>1, <1>2, KeptMarks, MarkedAccounted
<1>3. ASSUME NEW r \in replies, msg' = markAsRead(msg, {r}),
             seen' = IF call[c].gone THEN seen ELSE seen \cup {r}
      PROVE  Accounted'
  <2>1. r \in excused' \cup seen'
    <3>1. CASE call[c].gone
      <4>1. Quiet(msg, call[c], excused)
          BY <1>1, <3>1 DEF Awake, LeftAlone
      <4> QED BY <1>1, <1>3, <4>1 DEF Quiet
    <3>2. CASE ~call[c].gone
        BY <1>3, <3>2
    <3> QED BY <3>1, <3>2
  <2>2. \A m \in MessageIds : Marked(msg, msg', m)
      BY <1>3, <2>1, ReadMarks DEF Typed
  <2> QED BY <1>1, <1>3, <2>2, KeptMarks, MarkedAccounted
<1> QED BY <1>2, <1>3 DEF AskResume

\* The key stamps the batch it was written for.
LEMMA EnterKeyAccounted ==
    ASSUME Typed, Accounted, NEW h \in Handles, EnterKey(h)
    PROVE  Accounted'
<1>1. UNCHANGED <<shown, seen, excused>> /\ enter[h] # <<>> /\ enter' = [enter EXCEPT ![h] = Tail(@)]
    BY DEF EnterKey
<1>2. enter[h] \in Seq(SUBSET MessageIds) /\ Len(enter[h]) \in Nat \ {0}
    BY <1>1 DEF Typed, Tables
<1>3. BannersGrow
  <2> SUFFICES ASSUME Banners(enter, shown), NEW g \in Handles, NEW i \in 1..Len(enter'[g]),
                      NEW m \in enter'[g][i]
               PROVE  shown[m] > 0
      BY <1>1 DEF BannersGrow, Banners
  <2>1. CASE g = h
    <3>1. enter'[h] = Tail(enter[h])
        BY <1>1 DEF Typed, Tables
    <3>2. i + 1 \in 1..Len(enter[h]) /\ enter'[h][i] = enter[h][i + 1]
        BY <1>2, <2>1, <3>1
    <3> QED BY <2>1, <3>2 DEF Banners
  <2>2. CASE g # h
      BY <1>1, <2>2 DEF Banners, Typed, Tables
  <2> QED BY <2>1, <2>2
<1>4. \A m \in Head(enter[h]) : shown[m] > 0
  <2>1. Head(enter[h]) = enter[h][1] /\ 1 \in 1..Len(enter[h])
      BY <1>2
  <2> QED BY <2>1 DEF Accounted, Banners
<1>5. \A m \in MessageIds : Marked(msg, msg', m)
  <2>1. CASE msg' = msg
      BY <2>1, KeptMarks
  <2>2. CASE msg' = markAsDelivered(msg, Head(enter[h]))
      BY <1>1, <1>4, <2>2, StampedMarks DEF Typed
  <2> QED BY <2>1, <2>2 DEF EnterKey
<1> QED BY <1>1, <1>3, <1>5, MarkedAccounted

LEMMA BecomeIdleAccounted ==
    ASSUME Typed, Accounted, NEW h \in Handles, BecomeIdle(h)
    PROVE  Accounted'
<1>1. UNCHANGED <<seen, excused>> /\ deliverPendingMessages(msg, {h})
    BY DEF BecomeIdle
<1>2. /\ SameRows(msg, msg')
      /\ \A m \in MessageIds : /\ msg'[m].read = msg[m].read
                               /\ msg'[m].delivered => msg[m].delivered \/ shown'[m] > 0
                               /\ shown[m] > 0 => shown'[m] > 0
      /\ Banners(enter, shown) => Banners(enter', shown')
    BY <1>1, DeliverEffect DEF Typed, Tables
<1>3. BannersGrow /\ \A m \in MessageIds : Marked(msg, msg', m)
    BY <1>2 DEF BannersGrow, SameRows, Marked
<1> QED BY <1>1, <1>3, MarkedAccounted

LEMMA ExitAccounted ==
    ASSUME Typed, Accounted, NEW h \in Handles, Exit(h)
    PROVE  Accounted'
<1> DEFINE row == [Row(h, Coord, "escalation", 0) EXCEPT !.hook = TRUE]
<1>1. row \in MessageRow /\ ~row.read /\ ~row.delivered
  <2>1. Row(h, Coord, "escalation", 0) \in MessageRow
      BY RowTypes, DeliveryAssumption, MessageIdTypes
  <2> QED BY <2>1 DEF MessageRow, Row
<1>2. nMsg < MaxMessages => nMsg + 1 \in MessageIds
    BY DeliveryAssumption DEF MessageIds, Typed, Tables
<1>3. \/ msg' = msg
      \/ nMsg < MaxMessages /\ msg' = [msg EXCEPT ![nMsg + 1] = row]
    BY DEF Exit
<1> HIDE DEF row
<1>4. \A m \in MessageIds : Marked(msg, msg', m)
    BY <1>1, <1>2, <1>3, KeptMarks, InsertedMarks DEF Typed, Tables
<1>5. UNCHANGED <<enter, shown, seen, excused>>
    BY DEF Exit
<1> QED BY <1>4, <1>5, KeptMarks, MarkedAccounted

LEMMA NextAccounted == Typed /\ Awake /\ Accounted /\ [Next]_vars => Accounted'
<1> SUFFICES ASSUME Typed, Awake, Accounted, [Next]_vars PROVE Accounted'
    OBVIOUS
<1>1. ASSUME UNCHANGED <<msg, enter, shown, seen, excused>> PROVE Accounted'
    BY <1>1, KeptMarks, MarkedAccounted
<1>2. CASE ResetMessages
  <2>1. \A m \in MessageIds : ~msg'[m].stored /\ ~msg'[m].delivered
      BY <1>2 DEF ResetMessages, NoRow, Row
  <2> QED BY <1>2, <2>1 DEF ResetMessages, Accounted, ReadWasSeen, DeliveredWasShown
<1>3. ASSUME NEW c \in Calls, NEW h \in Handles, NEW filter \in FilterChoices, NEW mode \in Modes,
             CheckStart(c, h, filter, mode)
      PROVE  Accounted'
    BY <1>1, <1>3, ReadAccounted DEF CheckStart
<1>4. ASSUME NEW c \in Calls, Resume(c) PROVE Accounted'
    BY <1>1, <1>4, ReadAccounted, AskResumeAccounted DEF Resume, CheckResume
<1>5. ASSUME NEW c \in Calls, Timeout(c) \/ Abort(c) PROVE Accounted'
    BY <1>1, <1>5 DEF Timeout, Abort
<1>6. ASSUME NEW h \in Handles, BecomeBusy(h) PROVE Accounted'
    BY <1>1, <1>6 DEF BecomeBusy
<1>7. CASE UNCHANGED vars
    BY <1>1, <1>7 DEF vars
<1> QED BY <1>2, <1>3, <1>4, <1>5, <1>6, <1>7, SendAccounted, GroupSendAccounted, ReplyAccounted,
           AskAccounted, BecomeIdleAccounted, EnterKeyAccounted, ExitAccounted DEF Next

LEMMA InitAccounted == Init => Accounted
BY DEF Init, NoRow, Row, Accounted, ReadWasSeen, DeliveredWasShown, Banners

LEMMA AlwaysAccounted == Spec => []Accounted
BY InitTyped, NextTyped, InitAwake, NextAwake, InitAccounted, NextAccounted, PTL DEF Spec

\* A disconnect never swallows mail: whatever is marked read was returned to a
\* client that was still there, answered, or suppressed.  A reply that ask marks
\* read after its client left rests on the invariant of the wake-ups.
THEOREM ReadMailWasReturned == Spec => []ReadWasSeen
BY AlwaysAccounted, PTL DEF Accounted

\* A failed write never hides mail: the stamp "delivered", set at once or by the
\* late Enter key, is only on messages whose banner was written or that were
\* suppressed.
THEOREM StampedMailWasShown == Spec => []DeliveredWasShown
BY AlwaysAccounted, PTL DEF Accounted
=============================================================================
