-------------------------- MODULE CommutingProofs --------------------------
(***************************************************************************)
(* NothingLostOrDoubled: clients that share their keys and send commands   *)
(* that commute.  A command counts in what is in flight from the write of  *)
(* its record to its operation on the maps.                                *)
(***************************************************************************)
EXTENDS RecoveryProofs, FiniteSetTheorems

-----------------------------------------------------------------------------
(***************************************************************************)
(* Sums over a finite set: they take its elements in any order.            *)
(***************************************************************************)
\* A set of sets, by the number of their elements.
UpTo(U, n) == {T \in SUBSET U : Cardinality(T) <= n}

Pick(T) == CHOOSE x \in T : TRUE

\* g[T] is the sum of f over T, for the sets T of a family.
SumsOf(f, F) ==
  {g \in [F -> Int] :
     \A T \in F : g[T] = IF T = {} THEN 0 ELSE f[Pick(T)] + g[T \ {Pick(T)}]}

\* What holds of a subset when it holds of all smaller ones holds of all.
LEMMA CardinalityInduction ==
  ASSUME NEW U, IsFiniteSet(U), NEW P \in SUBSET SUBSET U,
         \A T \in SUBSET U :
           (\A R \in SUBSET U : Cardinality(R) < Cardinality(T) => R \in P) => T \in P
  PROVE  P = SUBSET U
<1> DEFINE S == {n \in Nat : \A T \in UpTo(U, n) : T \in P}
<1>1. \A T \in SUBSET U : IsFiniteSet(T) /\ Cardinality(T) \in Nat
  BY FS_Subset, FS_CardinalityType
<1>2. 0 \in S
  <2> SUFFICES ASSUME NEW T \in UpTo(U, 0) PROVE T \in P
    OBVIOUS
  <2>1. \A R \in SUBSET U : ~ (Cardinality(R) < Cardinality(T))
    BY <1>1 DEF UpTo
  <2> QED
    BY <2>1 DEF UpTo
<1>3. \A n \in S : n + 1 \in S
  <2> SUFFICES ASSUME NEW n \in S, NEW T \in UpTo(U, n + 1) PROVE T \in P
    OBVIOUS
  <2>1. \A R \in SUBSET U : Cardinality(R) < Cardinality(T) => R \in UpTo(U, n)
    BY <1>1 DEF UpTo
  <2> QED
    BY <2>1 DEF UpTo
<1>4. S = Nat
  <2> HIDE DEF S
  <2>1. S \in SUBSET Nat
    BY DEF S
  <2> QED
    BY <1>2, <1>3, <2>1, NatInductionOnSets
<1>5. ASSUME NEW T \in SUBSET U PROVE T \in P
  <2>1. Cardinality(T) \in S /\ T \in UpTo(U, Cardinality(T))
    BY <1>1, <1>4 DEF UpTo
  <2> QED
    BY <2>1
<1> QED
  BY <1>5

\* Taking its element from a set leaves a smaller one.
LEMMA Smaller ==
  ASSUME NEW U, IsFiniteSet(U), NEW T \in SUBSET U, NEW x \in T
  PROVE  /\ T \ {x} \in SUBSET U
         /\ Cardinality(T \ {x}) = Cardinality(T) - 1
         /\ Cardinality(T) \in Nat /\ Cardinality(T \ {x}) < Cardinality(T)
<1>1. IsFiniteSet(T) /\ Cardinality(T) \in Nat
  BY FS_Subset, FS_CardinalityType
<1>2. Cardinality(T \ {x}) = Cardinality(T) - 1
  BY <1>1, FS_RemoveElement
<1> QED
  BY <1>1, <1>2

\* There are functions from the subsets of a finite set to their sums.
LEMMA SumsExist ==
  ASSUME NEW U, IsFiniteSet(U), NEW f \in [U -> Int]
  PROVE  SumsOf(f, SUBSET U) # {}
<1> DEFINE S == {n \in Nat : SumsOf(f, UpTo(U, n)) # {}}
<1>1. \A T \in SUBSET U : IsFiniteSet(T) /\ Cardinality(T) \in Nat
  BY FS_Subset, FS_CardinalityType
<1>2. \A T \in SUBSET U : T # {} => Pick(T) \in T
  BY DEF Pick
<1>3. \A T \in SUBSET U : Cardinality(T) = 0 <=> T = {}
  BY <1>1, FS_EmptySet
<1>4. 0 \in S
  <2> DEFINE g == [T \in UpTo(U, 0) |-> 0]
  <2>1. \A T \in UpTo(U, 0) : T = {}
    BY <1>1, <1>3 DEF UpTo
  <2>2. g \in SumsOf(f, UpTo(U, 0))
    BY <2>1 DEF SumsOf
  <2> QED
    BY <2>2
<1>5. \A n \in S : n + 1 \in S
  <2> SUFFICES ASSUME NEW n \in S PROVE SumsOf(f, UpTo(U, n + 1)) # {}
    OBVIOUS
  <2>1. PICK g : g \in SumsOf(f, UpTo(U, n))
    OBVIOUS
  <2> DEFINE value(T) == IF T = {} THEN 0 ELSE f[Pick(T)] + g[T \ {Pick(T)}]
             h == [T \in UpTo(U, n + 1) |-> value(T)]
  <2>2. g \in [UpTo(U, n) -> Int] /\ n \in Nat
    BY <2>1 DEF SumsOf
  <2>3. ASSUME NEW T \in UpTo(U, n + 1), T # {}
        PROVE  T \ {Pick(T)} \in UpTo(U, n) /\ T \ {Pick(T)} \in UpTo(U, n + 1)
    <3>1. T \in SUBSET U /\ Pick(T) \in T /\ Cardinality(T) <= n + 1
      BY <1>2, <2>3 DEF UpTo
    <3>2. T \ {Pick(T)} \in SUBSET U
          /\ Cardinality(T \ {Pick(T)}) = Cardinality(T) - 1
          /\ Cardinality(T) \in Nat
      BY <3>1, Smaller
    <3> QED
      BY <2>2, <3>1, <3>2 DEF UpTo
  <2>4. ASSUME NEW T \in UpTo(U, n + 1) PROVE value(T) \in Int
    <3>1. CASE T = {}
      BY <3>1
    <3>2. CASE T # {}
      <4>1. Pick(T) \in U
        BY <1>2, <3>2 DEF UpTo
      <4>2. g[T \ {Pick(T)}] \in Int
        BY <2>2, <2>3, <3>2
      <4> QED
        BY <3>2, <4>1, <4>2
    <3> QED
      BY <3>1, <3>2
  <2>5. ASSUME NEW T \in UpTo(U, n) PROVE h[T] = g[T]
    <3>1. T \in UpTo(U, n + 1)
      BY <1>1, <2>2 DEF UpTo
    <3> QED
      BY <2>1, <3>1 DEF SumsOf
  <2>6. h \in [UpTo(U, n + 1) -> Int]
    BY <2>4
  <2>7. ASSUME NEW T \in UpTo(U, n + 1)
        PROVE  h[T] = IF T = {} THEN 0 ELSE f[Pick(T)] + h[T \ {Pick(T)}]
    BY <2>3, <2>5
  <2> HIDE DEF h
  <2>8. h \in SumsOf(f, UpTo(U, n + 1))
    BY <2>6, <2>7 DEF SumsOf
  <2> QED
    BY <2>8
<1>6. S = Nat
  <2> HIDE DEF S
  <2>1. S \in SUBSET Nat
    BY DEF S
  <2> QED
    BY <1>4, <1>5, <2>1, NatInductionOnSets
<1>7. SUBSET U = UpTo(U, Cardinality(U)) /\ Cardinality(U) \in Nat
  BY <1>1, FS_Subset DEF UpTo
<1> QED
  BY <1>6, <1>7

\* Sums over a set that lies in two families are the same in both.
LEMMA SumsAgree ==
  ASSUME NEW U, IsFiniteSet(U), NEW f, NEW e, NEW V, U \subseteq V,
         \A x \in U : f[x] = e[x],
         NEW g \in SumsOf(f, SUBSET U), NEW h \in SumsOf(e, SUBSET V)
  PROVE  \A T \in SUBSET U : g[T] = h[T]
<1> DEFINE P == {T \in SUBSET U : g[T] = h[T]}
<1>1. ASSUME NEW T \in SUBSET U,
             \A R \in SUBSET U : Cardinality(R) < Cardinality(T) => R \in P
      PROVE  g[T] = h[T]
  <2>1. CASE T = {}
    BY <2>1 DEF SumsOf
  <2>2. CASE T # {}
    <3>1. Pick(T) \in T
      BY <2>2 DEF Pick
    <3>2. T \ {Pick(T)} \in P
      BY <1>1, <3>1, Smaller
    <3>3. f[Pick(T)] = e[Pick(T)] /\ T \in SUBSET V
      BY <3>1
    <3>4. g[T] = f[Pick(T)] + g[T \ {Pick(T)}]
      BY <2>2 DEF SumsOf
    <3>5. h[T] = e[Pick(T)] + h[T \ {Pick(T)}]
      BY <2>2, <3>3 DEF SumsOf
    <3> QED
      BY <3>2, <3>3, <3>4, <3>5
  <2> QED
    BY <2>1, <2>2
<1>2. P = SUBSET U
  <2>1. \A T \in SUBSET U :
          (\A R \in SUBSET U : Cardinality(R) < Cardinality(T) => R \in P) => T \in P
    BY <1>1
  <2>2. P \in SUBSET SUBSET U
    OBVIOUS
  <2> HIDE DEF P
  <2> QED
    BY <2>1, <2>2, CardinalityInduction
<1> QED
  BY <1>2

\* It does not matter which element is added first.
LEMMA SumsTakeAny ==
  ASSUME NEW U, IsFiniteSet(U), NEW f \in [U -> Int],
         NEW g \in SumsOf(f, SUBSET U)
  PROVE  \A T \in SUBSET U : \A x \in T : g[T] = f[x] + g[T \ {x}]
<1> DEFINE P == {T \in SUBSET U : \A x \in T : g[T] = f[x] + g[T \ {x}]}
<1>1. ASSUME NEW T \in SUBSET U,
             \A R \in SUBSET U : Cardinality(R) < Cardinality(T) => R \in P,
             NEW x \in T
      PROVE  g[T] = f[x] + g[T \ {x}]
  <2> DEFINE y == Pick(T)
  <2>1. y \in T
    BY DEF Pick
  <2>2. g[T] = f[y] + g[T \ {y}]
    BY DEF SumsOf
  <2> HIDE DEF y
  <2>3. CASE x = y
    BY <2>2, <2>3
  <2>4. CASE x # y
    <3> DEFINE R == (T \ {x}) \ {y}
    <3>1. T \ {y} \in P /\ T \ {x} \in P
      BY <1>1, <2>1, Smaller
    <3>2. (T \ {y}) \ {x} = R /\ R \in SUBSET U
      OBVIOUS
    <3>3. g[T \ {y}] = f[x] + g[R]
      BY <2>4, <3>1, <3>2
    <3>4. g[T \ {x}] = f[y] + g[R]
      BY <2>1, <2>4, <3>1
    <3>5. f[x] \in Int /\ f[y] \in Int /\ g[R] \in Int
      BY <2>1, <3>2 DEF SumsOf
    <3> HIDE DEF R
    <3> QED
      BY <2>2, <3>3, <3>4, <3>5
  <2> QED
    BY <2>3, <2>4
<1>2. P = SUBSET U
  <2>1. \A T \in SUBSET U :
          (\A R \in SUBSET U : Cardinality(R) < Cardinality(T) => R \in P) => T \in P
    BY <1>1
  <2>2. P \in SUBSET SUBSET U
    OBVIOUS
  <2> HIDE DEF P
  <2> QED
    BY <2>1, <2>2, CardinalityInduction
<1> QED
  BY <1>2

\* SumFunction is the sum over the domain.
LEMMA SumFunctionIsSum ==
  ASSUME NEW U, IsFiniteSet(U), NEW f \in [U -> Int]
  PROVE  \E g \in SumsOf(f, SUBSET U) : SumFunction(f) = g[U]
<1> DEFINE Eq(h) == h = [T \in SUBSET U |->
                     IF T = {} THEN 0
                     ELSE f[CHOOSE x \in T : TRUE]
                            + h[T \ {CHOOSE x \in T : TRUE}]]
           h == CHOOSE i : Eq(i)
<1>1. PICK g : g \in SumsOf(f, SUBSET U)
  BY SumsExist
<1>2. Eq(g)
  BY <1>1 DEF SumsOf, Pick
<1>3. Eq(h)
  BY <1>2
<1>4. SumFunction(f) = h[U]
  <2>1. DOMAIN f = U
    OBVIOUS
  <2> QED
    BY <2>1 DEF SumFunction, SumFunctionOnSet, FoldFunctionOnSet,
                MapThenFoldSet
<1>5. ASSUME NEW T \in SUBSET U
      PROVE  h[T] = IF T = {} THEN 0 ELSE f[Pick(T)] + h[T \ {Pick(T)}]
  <2> HIDE DEF h
  <2> QED
    BY <1>3 DEF Pick
<1> DEFINE P == {T \in SUBSET U : g[T] = h[T]}
<1>6. ASSUME NEW T \in SUBSET U,
             \A R \in SUBSET U : Cardinality(R) < Cardinality(T) => R \in P
      PROVE  g[T] = h[T]
  <2> HIDE DEF h
  <2>1. CASE T = {}
    BY <1>1, <1>5, <2>1 DEF SumsOf
  <2>2. CASE T # {}
    <3>1. Pick(T) \in T
      BY <2>2 DEF Pick
    <3>2. T \ {Pick(T)} \in P
      BY <1>6, <3>1, Smaller
    <3>3. g[T] = f[Pick(T)] + g[T \ {Pick(T)}]
      BY <1>1, <2>2 DEF SumsOf
    <3> QED
      BY <1>5, <2>2, <3>2, <3>3
  <2> QED
    BY <2>1, <2>2
<1>7. P = SUBSET U
  <2> HIDE DEF h
  <2>1. \A T \in SUBSET U :
          (\A R \in SUBSET U : Cardinality(R) < Cardinality(T) => R \in P) => T \in P
    BY <1>6
  <2>2. P \in SUBSET SUBSET U
    OBVIOUS
  <2> HIDE DEF P
  <2> QED
    BY <2>1, <2>2, CardinalityInduction
<1> QED
  <2> HIDE DEF h
  <2> QED
    BY <1>1, <1>4, <1>7

\* It is an integer, and 0 over nothing.
LEMMA SumFunctionType ==
  ASSUME NEW U, IsFiniteSet(U), NEW f \in [U -> Int]
  PROVE  SumFunction(f) \in Int /\ (U = {} => SumFunction(f) = 0)
<1>1. PICK g \in SumsOf(f, SUBSET U) : SumFunction(f) = g[U]
  BY SumFunctionIsSum
<1> QED
  BY <1>1 DEF SumsOf

\* One element more adds its value.
LEMMA SumFunctionAdds ==
  ASSUME NEW U, IsFiniteSet(U), NEW f \in [U -> Int], NEW x, x \notin U,
         NEW e \in [U \cup {x} -> Int], \A y \in U : f[y] = e[y]
  PROVE  SumFunction(e) = e[x] + SumFunction(f)
<1>1. /\ IsFiniteSet(U \cup {x}) /\ (U \cup {x}) \ {x} = U
      /\ U \subseteq U \cup {x} /\ x \in U \cup {x}
  BY FS_AddElement
<1>2. PICK V : V = U \cup {x}
  OBVIOUS
<1>3. /\ IsFiniteSet(V) /\ V \ {x} = U /\ U \subseteq V /\ x \in V
      /\ e \in [V -> Int] /\ V \in SUBSET V
  BY <1>1, <1>2
<1>4. PICK g \in SumsOf(f, SUBSET U) : SumFunction(f) = g[U]
  BY SumFunctionIsSum
<1>5. PICK h \in SumsOf(e, SUBSET V) : SumFunction(e) = h[V]
  BY <1>3, SumFunctionIsSum
<1>6. h[V] = e[x] + h[V \ {x}]
  BY <1>3, <1>5, SumsTakeAny
<1>7. g[U] = h[U]
  BY <1>3, <1>4, <1>5, SumsAgree
<1> QED
  BY <1>3, <1>4, <1>5, <1>6, <1>7

-----------------------------------------------------------------------------
(***************************************************************************)
(* What is in flight, and the sums of it.                                  *)
(***************************************************************************)
\* What a request r adds to the list and to the counter of k.
Pushed(r, k, e) ==
  IF r.cmd = "PUSH" /\ r.key = k /\ r.value = e THEN 1 ELSE 0

Incremented(r, k) == IF r.cmd = "INCR" /\ r.key = k THEN r.offset ELSE 0

\* What is in flight, with any functions p and q in place of pc and req.
Carried(p, q, cmd, k) ==
  {c \in Conns : /\ p[c] = "logged"
                 /\ q[c].cmd = cmd
                 /\ q[c].key = k}

Pushes(p, q, k, e) ==
  Cardinality({c \in Carried(p, q, "PUSH", k) : q[c].value = e})

Increments(p, q, k) ==
  SumFunction([c \in Carried(p, q, "INCR", k) |-> q[c].offset])

\* In p1 and q1 the goroutine of c is in flight, and all else is as in p and q.
Joins(p, q, p1, q1, c) ==
  /\ p[c] # "logged" /\ p1[c] = "logged"
  /\ \A b \in Conns : b # c => p1[b] = p[b] /\ q1[b] = q[b]

WholeOffsets(p, q, k) ==
  \A b \in Carried(p, q, "INCR", k) : q[b].offset \in Int

\* NothingLostOrDoubled, of one key.
Balanced(k) ==
  /\ \A e \in Element :
       Occurrences(Recovered.lists[k], e)
         = Occurrences(db.lists[k], e) + Pushes(pc, req, k, e)
  /\ Recovered.store[k] =
       IF db.store[k] \in Number
       THEN Wrap(db.store[k] + Increments(pc, req, k))
       ELSE db.store[k]

AllBalanced == phase = "up" => \A k \in Keys : Balanced(k)

NobodyFlushes == \A c \in Conns : pc[c] # "cleared"

-----------------------------------------------------------------------------
(***************************************************************************)
(* One goroutine more, in p1 and q1 than in p and q, adds its own request. *)
(***************************************************************************)
LEMMA OneMorePush ==
  ASSUME IsFiniteSet(Conns), NEW c \in Conns, NEW k, NEW e,
         NEW p, NEW q, NEW p1, NEW q1, Joins(p, q, p1, q1, c)
  PROVE  /\ Pushes(p, q, k, e) \in Nat
         /\ Pushes(p1, q1, k, e) = Pushes(p, q, k, e) + Pushed(q1[c], k, e)
<1> DEFINE S  == {b \in Carried(p, q, "PUSH", k) : q[b].value = e}
           S1 == {b \in Carried(p1, q1, "PUSH", k) : q1[b].value = e}
<1>1. S \subseteq Conns /\ IsFiniteSet(S) /\ c \notin S
  <2>1. S \subseteq Conns /\ c \notin S
    BY DEF Carried, Joins
  <2> QED
    BY <2>1, FS_Subset
<1>2. Cardinality(S) \in Nat
  BY <1>1, FS_CardinalityType
<1>3. S1 = IF Pushed(q1[c], k, e) = 1 THEN S \cup {c} ELSE S
  BY DEF Carried, Joins, Pushed
<1>4. Cardinality(S \cup {c}) = Cardinality(S) + 1
  BY <1>1, FS_AddElement
<1>5. Pushed(q1[c], k, e) \in {0, 1}
  BY DEF Pushed
<1>6. Cardinality(S1) = Cardinality(S) + Pushed(q1[c], k, e)
  <2> HIDE DEF S, S1
  <2> QED
    BY <1>2, <1>3, <1>4, <1>5
<1> QED
  BY <1>2, <1>6 DEF Pushes

LEMMA OneMoreIncr ==
  ASSUME IsFiniteSet(Conns), NEW c \in Conns, NEW k,
         NEW p, NEW q, NEW p1, NEW q1, Joins(p, q, p1, q1, c),
         WholeOffsets(p1, q1, k)
  PROVE  /\ Increments(p, q, k) \in Int
         /\ Increments(p1, q1, k) = Increments(p, q, k) + Incremented(q1[c], k)
<1> DEFINE S  == Carried(p, q, "INCR", k)
           S1 == Carried(p1, q1, "INCR", k)
           f  == [b \in S |-> q[b].offset]
           f1 == [b \in S1 |-> q1[b].offset]
<1>1. IsFiniteSet(S) /\ c \notin S
  <2>1. S \subseteq Conns /\ c \notin S
    BY DEF Carried, Joins
  <2> QED
    BY <2>1, FS_Subset
<1>2. S \subseteq S1 /\ \A b \in S : q[b] = q1[b]
  BY DEF Carried, Joins
<1>3. f \in [S -> Int]
  BY <1>2 DEF WholeOffsets
<1>4. SumFunction(f) \in Int
  BY <1>1, <1>3, SumFunctionType
<1>5. CASE q1[c].cmd = "INCR" /\ q1[c].key = k
  <2>1. S1 = S \cup {c}
    BY <1>5 DEF Carried, Joins
  <2>2. f1 \in [S \cup {c} -> Int] /\ \A b \in S : f[b] = f1[b]
    BY <1>2, <2>1 DEF WholeOffsets
  <2>3. f1[c] = q1[c].offset /\ f1[c] \in Int
    BY <2>1 DEF WholeOffsets
  <2> HIDE DEF f, f1, S, S1
  <2>4. SumFunction(f1) = f1[c] + SumFunction(f)
    BY <1>1, <1>3, <2>2, SumFunctionAdds
  <2> QED
    BY <1>4, <1>5, <2>3, <2>4 DEF Increments, Incremented, f, f1, S, S1
<1>6. CASE ~(q1[c].cmd = "INCR" /\ q1[c].key = k)
  <2>1. S1 = S
    BY <1>6 DEF Carried, Joins
  <2>2. f1 = f
    BY <1>2, <2>1
  <2>3. Incremented(q1[c], k) = 0
    BY <1>6 DEF Incremented
  <2> HIDE DEF f, f1, S, S1
  <2> QED
    BY <1>4, <2>2, <2>3 DEF Increments, f, f1, S, S1
<1> QED
  BY <1>5, <1>6

-----------------------------------------------------------------------------
LEMMA OccurrencesType ==
  ASSUME NEW l \in Seq(Element) \cup {Absent}, NEW e
  PROVE  Occurrences(l, e) \in Nat
<1>1. CASE l = Absent
  BY <1>1 DEF Occurrences
<1>2. CASE l # Absent
  <2>1. {i \in DOMAIN l : l[i] = e} \subseteq 1 .. Len(l) /\ Len(l) \in Nat
    BY <1>2
  <2>2. IsFiniteSet({i \in DOMAIN l : l[i] = e})
    BY <2>1, FS_Interval, FS_Subset
  <2> QED
    BY <1>2, <2>2, FS_CardinalityType DEF Occurrences
<1> QED
  BY <1>1, <1>2

LEMMA OccurrencesOfAppend ==
  ASSUME NEW l \in Seq(Element), NEW v \in Element, NEW e
  PROVE  Occurrences(Append(l, v), e)
           = Occurrences(l, e) + (IF v = e THEN 1 ELSE 0)
<1> DEFINE a  == Append(l, v)
           S  == {i \in DOMAIN l : l[i] = e}
           S1 == {i \in DOMAIN a : a[i] = e}
           n  == Len(l) + 1
<1>1. a # Absent /\ l # Absent
  BY CommandsAssumption DEF Element
<1>2. /\ n \in Nat /\ DOMAIN l = 1 .. n - 1 /\ DOMAIN a = 1 .. n
      /\ a[n] = v /\ \A i \in 1 .. n - 1 : a[i] = l[i]
  OBVIOUS
<1>3. IsFiniteSet(S) /\ n \notin S /\ Cardinality(S) \in Nat
  <2>1. S \subseteq 1 .. n - 1 /\ n \notin S
    BY <1>2
  <2> HIDE DEF S, n
  <2> QED
    <3>1. IsFiniteSet(1 .. n - 1)
      BY <1>2, FS_Interval
    <3> QED
      BY <2>1, <3>1, FS_Subset, FS_CardinalityType
<1>4. S1 = IF v = e THEN S \cup {n} ELSE S
  <2>1. S = {i \in 1 .. n - 1 : a[i] = e} /\ S1 = {i \in 1 .. n : a[i] = e}
    BY <1>2
  <2>2. \A i : i \in 1 .. n <=> (i \in 1 .. n - 1 \/ i = n)
    BY <1>2
  <2> HIDE DEF n, a, S, S1
  <2> QED
    BY <1>2, <2>1, <2>2
<1> HIDE DEF S, S1, n
<1>5. Cardinality(S \cup {n}) = Cardinality(S) + 1
  BY <1>3, FS_AddElement
<1>6. Cardinality(S1) = Cardinality(S) + (IF v = e THEN 1 ELSE 0)
  BY <1>3, <1>4, <1>5
<1> QED
  BY <1>1, <1>6 DEF Occurrences, S, S1

LEMMA OccurrencesOfOne ==
  ASSUME NEW v \in Element, NEW e
  PROVE  Occurrences(<<v>>, e) = IF v = e THEN 1 ELSE 0
<1>1. PICK none : none = <<>>
  OBVIOUS
<1>2. /\ none \in Seq(Element) /\ DOMAIN none = {}
      /\ <<v>> = Append(none, v)
  BY <1>1
<1>3. none # Absent
  BY <1>2, CommandsAssumption DEF Element
<1>4. {i \in DOMAIN none : none[i] = e} = {}
  BY <1>2
<1>5. Occurrences(none, e) = 0
  BY <1>3, <1>4, FS_EmptySet DEF Occurrences
<1>6. Occurrences(Append(none, v), e)
        = Occurrences(none, e) + (IF v = e THEN 1 ELSE 0)
  BY <1>2, OccurrencesOfAppend
<1>7. PICK one : one = <<v>>
  OBVIOUS
<1>8. one = Append(none, v)
  BY <1>2, <1>7
<1>9. Occurrences(one, e) = IF v = e THEN 1 ELSE 0
  BY <1>5, <1>6, <1>8
<1> QED
  BY <1>7, <1>9

\* Adding twice with a wrap is adding once.
LEMMA SumOfTwo ==
  ASSUME NEW n \in Number, NEW a \in Int, NEW b \in Int
  PROVE  /\ Wrap(n + a) \in Number
         /\ Wrap(Wrap(n + a) + b) = Wrap(n + (a + b))
<1>1. n \in Int /\ n + a \in Int /\ (n + a) + b = n + (a + b)
  BY CommandsAssumption DEF Number
<1>2. Wrap(n + a) \in Number
  BY <1>1, WrapType
<1>3. Wrap(Wrap(n + a) + b) = Wrap((n + a) + b)
  BY <1>1, WrapOfSum
<1> QED
  BY <1>1, <1>2, <1>3

\* A record of a command that commutes adds itself to every database alike.
Commutes(rec) ==
  \/ rec.cmd = "PUSH" /\ rec.value \in Text
  \/ rec.cmd = "INCR" /\ rec.offset \in Number

LEMMA ReplayedPushes ==
  ASSUME NEW d \in Database, NEW rec \in Record, Commutes(rec),
         NEW k \in Keys, NEW e
  PROVE  Occurrences(Replayed(d, rec).lists[k], e)
           = Occurrences(d.lists[k], e) + Pushed(rec, k, e)
<1>1. d.lists[k] \in Seq(Element) \cup {Absent}
  BY DEF Database
<1>2. Occurrences(d.lists[k], e) \in Nat
  BY <1>1, OccurrencesType
<1>3. CASE ~(rec.cmd = "PUSH" /\ rec.key = k)
  <2>1. Replayed(d, rec).lists[k] = d.lists[k]
    <3>1. rec.key # k => Replayed(d, rec).lists[k] = d.lists[k]
      BY OtherKeysStay
    <3>2. rec.cmd = "INCR" => Replayed(d, rec).lists[k] = d.lists[k]
      BY DEF Replayed, Incr, Ok, Fail, Database
    <3> QED
      BY <1>3, <3>1, <3>2 DEF Commutes
  <2> QED
    BY <1>2, <1>3, <2>1 DEF Pushed
<1>4. CASE rec.cmd = "PUSH" /\ rec.key = k
  <2>1. rec.value \in Element
    BY <1>4 DEF Commutes, Element
  <2>2. Replayed(d, rec).lists[k]
          = IF d.lists[k] = Absent THEN <<rec.value>>
            ELSE Append(d.lists[k], rec.value)
    BY <1>4 DEF Replayed, Push, Ok, Database
  <2>3. Pushed(rec, k, e) = IF rec.value = e THEN 1 ELSE 0
    BY <1>4 DEF Pushed
  <2>4. CASE d.lists[k] # Absent
    BY <1>1, <2>1, <2>2, <2>3, <2>4, OccurrencesOfAppend
  <2>5. CASE d.lists[k] = Absent
    <3>1. Occurrences(d.lists[k], e) = 0
      BY <2>5 DEF Occurrences
    <3> QED
      BY <2>1, <2>2, <2>3, <2>5, <3>1, OccurrencesOfOne
  <2> QED
    BY <2>4, <2>5
<1> QED
  BY <1>3, <1>4

LEMMA ReplayedIncrements ==
  ASSUME NEW d \in Database, NEW rec \in Record, Commutes(rec), NEW k \in Keys
  PROVE  Replayed(d, rec).store[k]
           = IF d.store[k] \in Number
             THEN Wrap(d.store[k] + Incremented(rec, k))
             ELSE d.store[k]
<1>1. CASE ~(rec.cmd = "INCR" /\ rec.key = k)
  <2>1. Replayed(d, rec).store[k] = d.store[k]
    <3>1. rec.key # k => Replayed(d, rec).store[k] = d.store[k]
      BY OtherKeysStay
    <3>2. rec.cmd = "PUSH" => Replayed(d, rec).store[k] = d.store[k]
      BY DEF Replayed, Push, Ok, Fail, Database
    <3> QED
      BY <1>1, <3>1, <3>2 DEF Commutes
  <2>2. Incremented(rec, k) = 0
    BY <1>1 DEF Incremented
  <2>3. d.store[k] \in Number => d.store[k] + 0 = d.store[k]
    BY DEF Number
  <2> QED
    BY <2>1, <2>2, <2>3, WrapOfNumber
<1>2. CASE rec.cmd = "INCR" /\ rec.key = k
  <2>1. rec.offset \in Number /\ Incremented(rec, k) = rec.offset
    BY <1>2, CommandsAssumption DEF Commutes, Incremented
  <2> QED
    BY <1>2, <2>1 DEF Replayed, Incr, Ok, Fail, Database
<1> QED
  BY <1>1, <1>2

-----------------------------------------------------------------------------
(***************************************************************************)
(* The invariant is NothingLostOrDoubled, with the deadlines that nobody   *)
(* sets.  A record that joins the log joins what is in flight, and leaves  *)
(* it when it joins memory.                                                *)
(***************************************************************************)
LEMMA CommutingFacts ==
  ASSUME SoundLog, CommutingClients, NEW c \in Conns, NEW r \in Requests[c],
         Logged(r)
  PROVE  /\ r \in Request /\ RecordOf(r) \in Record /\ Repeatable(r)
         /\ Commutes(RecordOf(r))
         /\ \A k, e : Pushed(RecordOf(r), k, e) = Pushed(r, k, e)
         /\ \A k : Incremented(RecordOf(r), k) = Incremented(r, k)
         /\ r.cmd = "INCR" => r.offset \in Number
<1>1. r \in Request /\ RecordOf(r) \in Record /\ Repeatable(r)
  BY RequestFacts
<1>2. Absent \notin Text /\ Empty \notin Text
  BY CommandsAssumption
<1>3. r.cmd = "PUSH" \/ (r.cmd = "INCR" /\ r.offset \in Number)
  BY DEF CommutingClients
<1>4. /\ RecordOf(r).cmd = r.cmd /\ RecordOf(r).key = r.key
      /\ r.cmd = "PUSH" => RecordOf(r).value = r.value /\ r.value \in Text
      /\ r.cmd = "INCR" => RecordOf(r).offset = r.offset
  BY <1>1, <1>2, <1>3 DEF RecordOf, Optional, Repeatable, Text
<1> QED
  BY <1>1, <1>3, <1>4 DEF Commutes, Pushed, Incremented

LEMMA FlushesNever ==
  ASSUME CommutingClients
  PROVE  FlushesAreAlone
  BY DEF CommutingClients, FlushesAreAlone

LEMMA OffsetsInFlight ==
  ASSUME CommutingClients, NEW k, NEW p, NEW q,
         \A c \in Conns :
           p[c] = "logged" => q[c] \in Requests[c] /\ Logged(q[c])
  PROVE  WholeOffsets(p, q, k)
<1> SUFFICES ASSUME NEW b \in Carried(p, q, "INCR", k)
             PROVE  q[b].offset \in Int
  BY DEF WholeOffsets
<1>1. /\ q[b] \in Requests[b] /\ Logged(q[b]) /\ b \in Conns
      /\ q[b].cmd = "INCR"
  BY DEF Carried
<1>2. q[b].offset \in Number
  BY <1>1 DEF CommutingClients
<1> QED
  BY <1>2, CommandsAssumption DEF Number

LEMMA BalancedLogged ==
  ASSUME TypeOK, SoundLog, CommutingClients, LogInv, LogInv', AllBalanced,
         NEW c \in Conns, NEW r \in Requests[c], LogRequest(c, r),
         NEW k \in Keys
  PROVE  Balanced(k)'
<1> DEFINE rec == RecordOf(r)
<1>1. /\ Logged(r) /\ phase = "up" /\ pc[c] = "idle" /\ db' = db
      /\ file' = Append(file, rec) /\ pc' = [pc EXCEPT ![c] = "logged"]
      /\ req' = [req EXCEPT ![c] = r]
  BY DEF LogRequest, Received, Handles, Logged
<1>2. /\ rec \in Record /\ Commutes(rec)
      /\ \A e : Pushed(rec, k, e) = Pushed(r, k, e)
      /\ Incremented(rec, k) = Incremented(r, k)
  BY <1>1, CommutingFacts
<1>3. Recovered' = Replayed(Recovered, rec) /\ Recovered \in Database
  BY <1>1, <1>2, RebuildAppend, RebuildType
     DEF Recovered, LogInv, LogIsReplayable
<1> HIDE DEF rec
<1>4. Balanced(k) /\ IsFiniteSet(Conns)
  BY <1>1 DEF AllBalanced, CommutingClients
<1>5. Joins(pc, req, pc', req', c) /\ req'[c] = r
  BY <1>1 DEF Joins, TypeOK
<1>6. ASSUME NEW e \in Element
      PROVE  Occurrences(Recovered'.lists[k], e)
               = Occurrences(db'.lists[k], e) + Pushes(pc', req', k, e)
  <2>1. Occurrences(Recovered'.lists[k], e)
          = Occurrences(Recovered.lists[k], e) + Pushed(r, k, e)
    BY <1>2, <1>3, ReplayedPushes
  <2>2. /\ Pushes(pc, req, k, e) \in Nat
        /\ Pushes(pc', req', k, e) = Pushes(pc, req, k, e) + Pushed(r, k, e)
    BY <1>4, <1>5, OneMorePush
  <2>3. Occurrences(db.lists[k], e) \in Nat /\ Pushed(r, k, e) \in Nat
    BY OccurrencesType DEF TypeOK, Database, Pushed
  <2>4. Occurrences(Recovered.lists[k], e)
          = Occurrences(db.lists[k], e) + Pushes(pc, req, k, e)
    BY <1>4 DEF Balanced
  <2> QED
    BY <1>1, <2>1, <2>2, <2>3, <2>4
<1>7. Recovered'.store[k] =
        IF db'.store[k] \in Number
        THEN Wrap(db'.store[k] + Increments(pc', req', k))
        ELSE db'.store[k]
  <2>1. Recovered'.store[k] = IF Recovered.store[k] \in Number
                              THEN Wrap(Recovered.store[k] + Incremented(r, k))
                              ELSE Recovered.store[k]
    BY <1>2, <1>3, ReplayedIncrements
  <2>2. WholeOffsets(pc', req', k)
    BY OffsetsInFlight DEF LogInv, LoggedIsRequested
  <2>3. /\ Increments(pc, req, k) \in Int
        /\ Increments(pc', req', k)
             = Increments(pc, req, k) + Incremented(r, k)
    BY <1>4, <1>5, <2>2, OneMoreIncr
  <2>4. Incremented(r, k) \in Int
    BY <1>1, CommutingFacts, CommandsAssumption DEF Incremented, Number
  <2>5. Recovered.store[k] = IF db.store[k] \in Number
                             THEN Wrap(db.store[k] + Increments(pc, req, k))
                             ELSE db.store[k]
    BY <1>4 DEF Balanced
  <2>6. CASE db.store[k] \in Number
    <3> DEFINE n   == db.store[k]
               sum == Increments(pc, req, k)
               one == Incremented(r, k)
    <3>1. /\ Wrap(n + sum) \in Number
          /\ Wrap(Wrap(n + sum) + one) = Wrap(n + (sum + one))
      BY <2>3, <2>4, <2>6, SumOfTwo
    <3> QED
      BY <1>1, <2>1, <2>3, <2>5, <2>6, <3>1
  <2>7. CASE db.store[k] \notin Number
    BY <1>1, <2>1, <2>5, <2>7
  <2> QED
    BY <2>6, <2>7
<1> QED
  BY <1>6, <1>7 DEF Balanced

LEMMA BalancedExecuted ==
  ASSUME TypeOK, SoundLog, CommutingClients, LogInv, AllBalanced,
         NEW c \in Conns, Execute(c), phase' = "up", NEW k \in Keys
  PROVE  Balanced(k)'
<1> DEFINE r == req[c]
           rec == RecordOf(r)
           out == HandleCommand(db, r)
<1>1. /\ pc[c] = "logged" /\ r \in Requests[c] /\ Logged(r)
      /\ phase = "up" /\ LoggedIsRequested
  BY DEF Execute, LogInv, LoggedIsRequested, NobodyServedUnlessUp
<1>2. /\ r \in Request /\ rec \in Record /\ Repeatable(r) /\ Commutes(rec)
      /\ \A e : Pushed(rec, k, e) = Pushed(r, k, e)
      /\ Incremented(rec, k) = Incremented(r, k)
  BY <1>1, CommutingFacts
<1>3. out.reply.status # "PANIC"
  BY <1>1 DEF Execute, Die
<1>4. /\ db' = out.db /\ pc' = [pc EXCEPT ![c] = "idle"] /\ req' = req
      /\ file' = file
  BY <1>3 DEF Execute, Answer
<1>5. db \in Database /\ db'.store = Replayed(db, rec).store
      /\ db'.lists = Replayed(db, rec).lists
  BY <1>1, <1>2, <1>3, <1>4, HandledAsReplayed DEF TypeOK
<1>6. Joins(pc', req', pc, req, c)
  BY <1>1, <1>4 DEF Joins, TypeOK
<1>7. Balanced(k) /\ IsFiniteSet(Conns) /\ Recovered' = Recovered
  BY <1>1, <1>4 DEF AllBalanced, CommutingClients, Recovered
<1> HIDE DEF out, rec
<1>8. ASSUME NEW e \in Element
      PROVE  Occurrences(Recovered'.lists[k], e)
               = Occurrences(db'.lists[k], e) + Pushes(pc', req', k, e)
  <2>1. Occurrences(db'.lists[k], e)
          = Occurrences(db.lists[k], e) + Pushed(r, k, e)
    BY <1>2, <1>5, ReplayedPushes
  <2>2. /\ Pushes(pc', req', k, e) \in Nat
        /\ Pushes(pc, req, k, e) = Pushes(pc', req', k, e) + Pushed(r, k, e)
    BY <1>6, <1>7, OneMorePush
  <2>3. Occurrences(db.lists[k], e) \in Nat /\ Pushed(r, k, e) \in Nat
    BY OccurrencesType DEF TypeOK, Database, Pushed
  <2>4. Occurrences(Recovered.lists[k], e)
          = Occurrences(db.lists[k], e) + Pushes(pc, req, k, e)
    BY <1>7 DEF Balanced
  <2> QED
    BY <1>7, <2>1, <2>2, <2>3, <2>4
<1>9. Recovered'.store[k] =
        IF db'.store[k] \in Number
        THEN Wrap(db'.store[k] + Increments(pc', req', k))
        ELSE db'.store[k]
  <2>1. db'.store[k] = IF db.store[k] \in Number
                       THEN Wrap(db.store[k] + Incremented(r, k))
                       ELSE db.store[k]
    BY <1>2, <1>5, ReplayedIncrements
  <2>2. WholeOffsets(pc, req, k)
    BY <1>1, OffsetsInFlight DEF LoggedIsRequested
  <2>3. /\ Increments(pc', req', k) \in Int
        /\ Increments(pc, req, k)
             = Increments(pc', req', k) + Incremented(r, k)
    BY <1>6, <1>7, <2>2, OneMoreIncr
  <2>4. Incremented(r, k) \in Int
    BY <1>1, CommutingFacts, CommandsAssumption DEF Incremented, Number
  <2>5. Recovered.store[k] = IF db.store[k] \in Number
                             THEN Wrap(db.store[k] + Increments(pc, req, k))
                             ELSE db.store[k]
    BY <1>7 DEF Balanced
  <2>6. CASE db.store[k] \in Number
    <3> DEFINE n   == db.store[k]
               sum == Increments(pc', req', k)
               one == Incremented(r, k)
    <3>1. /\ Wrap(n + one) \in Number
          /\ Wrap(Wrap(n + one) + sum) = Wrap(n + (one + sum))
      BY <2>3, <2>4, <2>6, SumOfTwo
    <3>2. one + sum = sum + one
      BY <2>3, <2>4
    <3> QED
      BY <1>7, <2>1, <2>3, <2>5, <2>6, <3>1, <3>2
  <2>7. CASE db.store[k] \notin Number
    BY <1>7, <2>1, <2>5, <2>7
  <2> QED
    BY <2>6, <2>7
<1> QED
  BY <1>8, <1>9 DEF Balanced

\* Nothing is in flight when the server starts to serve.
LEMMA BalancedServed ==
  ASSUME TypeOK, CommutingClients, LogInv, Serve, NEW k \in Keys
  PROVE  Balanced(k)'
<1>1. /\ UNCHANGED <<db, file, pc, req>> /\ db = Recovered /\ db \in Database
      /\ \A c \in Conns : pc[c] = "idle"
  BY ServedFromLog DEF Serve, LogInv, NobodyServedUnlessUp, TypeOK
<1>2. \A cmd : Carried(pc, req, cmd, k) = {}
  BY <1>1 DEF Carried
<1>3. \A e : Pushes(pc, req, k, e) = 0
  BY <1>2, FS_EmptySet DEF Pushes
<1>4. Increments(pc, req, k) = 0
  <2> DEFINE f == [c \in {} |-> req[c].offset]
  <2>1. IsFiniteSet({}) /\ f \in [{} -> Int]
    BY FS_EmptySet
  <2>2. SumFunction(f) = 0
    <3> HIDE DEF f
    <3> QED
      BY <2>1, SumFunctionType
  <2> QED
    BY <1>2, <2>2 DEF Increments
<1>5. \A e : Occurrences(db.lists[k], e) \in Nat
  BY <1>1, OccurrencesType DEF Database
<1>6. \A n \in Number : n + 0 = n /\ Wrap(n) = n
  BY CommandsAssumption, WrapOfNumber DEF Number
<1>7. Balanced(k)
  BY <1>1, <1>3, <1>4, <1>5, <1>6 DEF Balanced
<1> QED
  BY <1>1, <1>7 DEF Balanced, Recovered

LEMMA BalancedNext ==
  ASSUME SoundLog, CommutingClients, TypeOK, LogInv, LogInv',
         NoDeadlineIsSet, NobodyFlushes, AllBalanced, [Next]_vars
  PROVE  AllBalanced'
<1>1. ASSUME NEW c \in Conns, NEW r \in Requests[c], LogRequest(c, r)
      PROVE  AllBalanced'
  BY <1>1, BalancedLogged DEF AllBalanced
<1>2. ASSUME NEW c \in Conns, NEW r \in Requests[c],
             \/ LogRequestFails(c, r) \/ HandleGet(c, r)
             \/ OpenLog(c, r) \/ OpenLogFails(c, r)
      PROVE  AllBalanced'
  <2>1. phase = "up" /\ UNCHANGED <<db, file, pc, req>>
    BY <1>2 DEF LogRequestFails, HandleGet, OpenLog, OpenLogFails, Received,
                Handles, Answer, SoundLog, TypeOK
  <2> QED
    BY <2>1 DEF AllBalanced, Balanced, Recovered
<1>3. ASSUME NEW c \in Conns, NEW r \in Requests[c],
             CrashInWrite(c, r) \/ ClearDisk(c, r) \/ ClearDiskFails(c, r)
      PROVE  AllBalanced'
  BY <1>3 DEF CrashInWrite, ClearDisk, ClearDiskFails, ReadsFlush, Handles,
              SoundLog,
              CommutingClients
<1>4. ASSUME NEW c \in Conns, Execute(c)
      PROVE  AllBalanced'
  BY <1>4, BalancedExecuted DEF AllBalanced
<1>5. ASSUME NEW c \in Conns, ClearMemory(c)
      PROVE  AllBalanced'
  BY <1>5 DEF ClearMemory, NobodyFlushes
<1>6. ~Tick /\ ~Cleanup
  BY DEF Tick, Cleanup, Expired, NoDeadlineIsSet
<1>7. Die \/ Start \/ Replay => AllBalanced'
  BY DEF Die, Start, Replay, AllBalanced
<1>8. CASE Serve
  BY <1>8, BalancedServed DEF AllBalanced
<1>9. CASE UNCHANGED vars
  BY <1>9 DEF vars, AllBalanced, Balanced, Recovered
<1> QED
  BY <1>1, <1>2, <1>3, <1>4, <1>5, <1>6, <1>7, <1>8, <1>9
     DEF Next, KeyMissing, Crash, ReplayPanics, SoundLog, StartWithoutLog,
         ReadFails

\* The deadlines that the two commands leave, and that nobody clears.
LEMMA QuietNext ==
  ASSUME SoundLog, CommutingClients, TypeOK, LogInv,
         NoDeadlineIsSet, NobodyFlushes, [Next]_vars
  PROVE  NoDeadlineIsSet' /\ NobodyFlushes'
<1>1. ASSUME NEW c \in Conns, NEW r \in Requests[c],
             \/ LogRequest(c, r) \/ LogRequestFails(c, r) \/ HandleGet(c, r)
             \/ OpenLog(c, r) \/ OpenLogFails(c, r)
      PROVE  db' = db /\ NobodyFlushes'
  BY <1>1 DEF LogRequest, LogRequestFails, HandleGet, OpenLog, OpenLogFails,
              Answer, NobodyFlushes, TypeOK
<1>2. ASSUME NEW c \in Conns, NEW r \in Requests[c],
             CrashInWrite(c, r) \/ ClearDisk(c, r) \/ ClearDiskFails(c, r)
      PROVE  FALSE
  BY <1>2 DEF CrashInWrite, ClearDisk, ClearDiskFails, ReadsFlush, Handles,
              SoundLog,
              CommutingClients
<1>3. Die => NoDeadlineIsSet' /\ NobodyFlushes'
  BY DEF Die, NoDeadlineIsSet, NobodyFlushes, NewDatabase
<1>4. ASSUME NEW c \in Conns, Execute(c)
      PROVE  NoDeadlineIsSet' /\ NobodyFlushes'
  <2> DEFINE r   == req[c]
             out == HandleCommand(db, r)
  <2>1. r.cmd = "PUSH" \/ r.cmd = "INCR"
    BY <1>4 DEF Execute, LogInv, LoggedIsRequested, CommutingClients
  <2>2. out.db.left = db.left
    <3>1. ToUpper(r.cmd) = r.cmd
      BY <2>1 DEF ToUpper, Capitals
    <3>2. db \in Database
      BY DEF TypeOK
    <3> QED
      BY <2>1, <3>1, <3>2 DEF HandleCommand, Push, Incr, Ok, Fail, Database
  <2>3. CASE out.reply.status = "PANIC"
    BY <1>3, <1>4, <2>3 DEF Execute
  <2>4. CASE out.reply.status # "PANIC"
    <3>1. db' = out.db /\ pc' = [pc EXCEPT ![c] = "idle"]
      BY <1>4, <2>4 DEF Execute, Answer
    <3> HIDE DEF out
    <3> QED
      BY <2>2, <3>1 DEF NoDeadlineIsSet, NobodyFlushes, TypeOK
  <2> QED
    BY <2>3, <2>4
<1>5. ~Tick /\ ~Cleanup
  BY DEF Tick, Cleanup, Expired, NoDeadlineIsSet
<1>6. CASE Start \/ Serve \/ UNCHANGED vars
  BY <1>6 DEF Start, Serve, vars, NoDeadlineIsSet, NobodyFlushes
<1>7. CASE Replay
  <2>1. db \in Database /\ db' = Replayed(db, file[cursor]) /\ pc' = pc
    BY <1>7 DEF Replay, TypeOK
  <2> QED
    BY <2>1, ReplayedKeepsDeadlines DEF NoDeadlineIsSet, NobodyFlushes
<1>8. ASSUME NEW c \in Conns, ClearMemory(c)
      PROVE  FALSE
  BY <1>8 DEF ClearMemory, NobodyFlushes
<1> QED
  BY <1>1, <1>2, <1>3, <1>4, <1>5, <1>6, <1>7, <1>8
     DEF Next, KeyMissing, Crash, ReplayPanics, NoDeadlineIsSet, SoundLog,
         StartWithoutLog, ReadFails

(***************************************************************************)
(* NothingLostOrDoubled, for any number of clients, keys and commands that *)
(* commute: no order in which the goroutines take the lock of the log and  *)
(* that of the maps, no refused write, crash or restart makes the log hold *)
(* an element or an increment that memory does not, but those in flight.   *)
(***************************************************************************)
THEOREM CommutingNeverLostOrDoubled ==
  ASSUME SoundLog, CommutingClients
  PROVE  Spec => []NothingLostOrDoubled
<1>1. Init => NoDeadlineIsSet /\ NobodyFlushes /\ AllBalanced
  BY DEF Init, NoDeadlineIsSet, NobodyFlushes, AllBalanced, NewDatabase
<1>2. TypeOK /\ LogInv /\ NoDeadlineIsSet /\ NobodyFlushes /\ [Next]_vars
        => NoDeadlineIsSet' /\ NobodyFlushes'
  BY QuietNext
<1>3. TypeOK /\ LogInv /\ LogInv' /\ NoDeadlineIsSet /\ NobodyFlushes
        /\ AllBalanced /\ [Next]_vars => AllBalanced'
  BY BalancedNext
<1>4. AllBalanced => NothingLostOrDoubled
  BY DEF AllBalanced, Balanced, NothingLostOrDoubled, Pushes, Increments,
         Carried, Offsets, InFlight
<1> QED
  BY <1>1, <1>2, <1>3, <1>4, TypeCorrect, LogInvHolds, FlushesNever, PTL
     DEF Spec
=============================================================================
