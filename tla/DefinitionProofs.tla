---------------------------- MODULE DefinitionProofs ----------------------------
(***************************************************************************)
(* Proofs about the pure functions on workflow definitions: for every set  *)
(* of nodes, a definition the schema accepts has an order in which the     *)
(* worker can execute it and a layout that the canvas finds.               *)
(*                                                                         *)
(* What a recursive function computes is shown by a least counterexample   *)
(* (Least), after a function with the same equations has been built by     *)
(* iterating a step (Iterated): then the one that CHOOSE finds satisfies   *)
(* them too.                                                               *)
(***************************************************************************)
EXTENDS WorkflowDefinition, FiniteSetTheorems, TLAPS

-----------------------------------------------------------------------------
(* Recursion *)

\* A set of numbers has a least element.
LEMMA Least ==
  ASSUME NEW T \in SUBSET Nat, T # {}
  PROVE  \E n \in T : \A m \in T : n <= m
<1>1. PICK n \in T : \A m \in T : <<m, n>> \notin OpToRel(<, Nat)
  BY NatLessThanWellFounded, WFMin
<1>2. \A m \in T : ~ (m < n)
  BY <1>1 DEF OpToRel
<1> QED  BY <1>2

\* f lists what applying g to a again and again gives, k times.
Iterates(f, S, a, g, k) ==
  f \in [0 .. k -> S] /\ f[0] = a /\ \A i \in 1 .. k : f[i] = g[f[i - 1]]

\* A function can be applied again and again.
LEMMA Iterated ==
  ASSUME NEW S, NEW a \in S, NEW g \in [S -> S], NEW k \in Nat
  PROVE  \E f : Iterates(f, S, a, g, k)
<1> USE DEF Iterates
<1> DEFINE Good(f, n) == f[0] = a /\ \A i \in 1 .. n : f[i] = g[f[i - 1]]
           Bad == {n \in Nat : ~ \E f \in [0 .. n -> S] : Good(f, n)}
<1>1. SUFFICES Bad = {}
  OBVIOUS
<1>2. SUFFICES ASSUME Bad # {} PROVE FALSE
  OBVIOUS
<1>3. PICK n \in Bad : \A m \in Bad : n <= m
  <2> HIDE DEF Good
  <2> QED BY <1>2, Least
<1>4. n # 0
  <2>1. Good([i \in 0 .. 0 |-> a], 0)
    OBVIOUS
  <2> QED BY <2>1
<1>5. n - 1 \in Nat /\ n - 1 \notin Bad
  <2> HIDE DEF Good
  <2> QED BY <1>3, <1>4
<1>6. PICK f \in [0 .. n - 1 -> S] : Good(f, n - 1)
  BY <1>5
<1>7. Good([i \in 0 .. n |-> IF i = n THEN g[f[n - 1]] ELSE f[i]], n)
  BY <1>5, <1>6
<1>8. [i \in 0 .. n |-> IF i = n THEN g[f[n - 1]] ELSE f[i]] \in [0 .. n -> S]
  BY <1>5, <1>6
<1> QED  BY <1>7, <1>8

-----------------------------------------------------------------------------
(* Waves and paths *)

\* f lists the waves of a work list up to the k-th.
IsWave(f, d, starts, k) ==
  /\ f \in [0 .. k -> SUBSET NodeIds]
  /\ f[0] = starts
  /\ \A i \in 1 .. k : f[i] = UNION {outgoingEdges(d, n) : n \in f[i - 1]}

\* After is the last of these waves: its recursive function exists.
LEMMA Waves ==
  ASSUME NEW d, NEW starts \in SUBSET NodeIds, NEW k \in Nat
  PROVE  \E f : IsWave(f, d, starts, k) /\ After(d, starts, k) = f[k]
<1> DEFINE S == SUBSET NodeIds
           Out(W) == UNION {outgoingEdges(d, n) : n \in W}
           g == [W \in S |-> Out(W)]
           F(f) == [i \in 0 .. k |-> IF i = 0 THEN starts ELSE Out(f[i - 1])]
           wave == CHOOSE f : f = F(f)
<1>1. g \in [S -> S]
  BY DEF outgoingEdges
<1>2. PICK f : Iterates(f, S, starts, g, k)
  <2>1. starts \in S
    OBVIOUS
  <2> HIDE DEF g, S
  <2> QED BY <1>1, <2>1, Iterated
<1>3. \A i \in 1 .. k : f[i] = Out(f[i - 1])
  <2>1. \A i \in 1 .. k : f[i - 1] \in S /\ f[i] = g[f[i - 1]]
    <3> HIDE DEF S, g
    <3> QED BY <1>2 DEF Iterates
  <2>2. \A W \in S : g[W] = Out(W)
    <3> HIDE DEF S, Out
    <3> QED OBVIOUS
  <2> HIDE DEF S, Out, g
  <2> QED BY <2>1, <2>2
<1>4. f = F(f)
  <2>1. f \in [0 .. k -> S] /\ f[0] = starts
    BY <1>2 DEF Iterates
  <2> HIDE DEF S, Out
  <2> QED BY <2>1, <1>3
<1>5. wave = F(wave)
  <2> HIDE DEF F
  <2> QED BY <1>4
<1>6. After(d, starts, k) = wave[k]
  BY DEF After
<1>7. ASSUME NEW i \in 0 .. k, wave[i] # f[i] PROVE FALSE
  <2> DEFINE Bad == {j \in 0 .. k : wave[j] # f[j]}
  <2>1. PICK n \in Bad : \A m \in Bad : n <= m
    <3>1. Bad \in SUBSET Nat /\ Bad # {}
      <4> HIDE DEF wave
      <4> QED BY <1>7
    <3> HIDE DEF Bad
    <3> QED BY <3>1, Least
  <2>2. n # 0
    <3> HIDE DEF Out, wave
    <3> QED BY <1>2, <1>5 DEF Iterates
  <2>3. n - 1 \in 0 .. k /\ wave[n - 1] = f[n - 1]
    <3> HIDE DEF wave
    <3> QED BY <2>1, <2>2
  <2>4. wave[n] = Out(wave[n - 1]) /\ f[n] = Out(f[n - 1])
    <3> HIDE DEF wave, Out
    <3> QED BY <1>3, <1>5, <2>2, <2>1
  <2> QED
    <3> HIDE DEF wave, Out
    <3> QED BY <2>1, <2>3, <2>4
<1>8. wave[k] = f[k]
  BY <1>7
<1> QED  BY <1>2, <1>3, <1>6, <1>8 DEF Iterates, IsWave

\* A path along the edges: p[0], ..., p[k].
Path(d, p, k) == \A i \in 1 .. k : <<p[i - 1], p[i]>> \in d.edges

\* The end of a path is in the wave of its length.
LEMMA PathReaches ==
  ASSUME NEW d, NEW k \in Nat, NEW p \in [0 .. k -> NodeIds], Path(d, p, k)
  PROVE  p[k] \in After(d, {p[0]}, k)
<1>a. PICK f : IsWave(f, d, {p[0]}, k) /\ After(d, {p[0]}, k) = f[k]
  <2>1. {p[0]} \in SUBSET NodeIds
    OBVIOUS
  <2> QED BY <2>1, Waves
<1>1. /\ f[0] = {p[0]}
      /\ \A i \in 1 .. k : f[i] = UNION {outgoingEdges(d, n) : n \in f[i - 1]}
  BY <1>a DEF IsWave
<1>2. ASSUME NEW j \in 0 .. k, p[j] \notin f[j] PROVE FALSE
  <2> DEFINE Bad == {i \in 0 .. k : p[i] \notin f[i]}
  <2>1. PICK n \in Bad : \A m \in Bad : n <= m
    <3>1. Bad \in SUBSET Nat /\ Bad # {}
      BY <1>2
    <3> HIDE DEF Bad
    <3> QED BY <3>1, Least
  <2>2. n \in 1 .. k /\ n - 1 \in 0 .. k /\ p[n - 1] \in f[n - 1]
    <3>1. n # 0
      BY <1>1
    <3> QED BY <2>1, <3>1
  <2>3. p[n] \in outgoingEdges(d, p[n - 1])
    BY <2>2 DEF Path, outgoingEdges
  <2>4. f[n] = UNION {outgoingEdges(d, m) : m \in f[n - 1]}
    BY <1>1, <2>2
  <2>5. p[n] \in f[n]
    <3> HIDE DEF Bad
    <3> QED BY <2>2, <2>3, <2>4
  <2> QED BY <2>5
<1> QED  BY <1>a, <1>2

\* A node of a wave is the end of a path from one of the starts.
LEMMA WavePath ==
  ASSUME NEW d, NEW starts \in SUBSET NodeIds, NEW k \in Nat,
         NEW x \in After(d, starts, k)
  PROVE  \E p \in [0 .. k -> NodeIds] : p[0] \in starts /\ p[k] = x /\ Path(d, p, k)
<1>a. PICK f : IsWave(f, d, starts, k) /\ After(d, starts, k) = f[k]
  BY Waves
<1>1. /\ f \in [0 .. k -> SUBSET NodeIds] /\ f[0] = starts
      /\ \A i \in 1 .. k : f[i] = UNION {outgoingEdges(d, n) : n \in f[i - 1]}
  BY <1>a DEF IsWave
<1> DEFINE Leads(p, i, y) == p[0] \in starts /\ p[i] = y /\ Path(d, p, i)
           Bad == {i \in 0 .. k : \E y \in f[i] : \A p \in [0 .. i -> NodeIds] : ~ Leads(p, i, y)}
<1>2. ASSUME Bad # {} PROVE FALSE
  <2>1. PICK n \in Bad : \A m \in Bad : n <= m
    <3>1. Bad \in SUBSET Nat
      OBVIOUS
    <3> HIDE DEF Bad
    <3> QED BY <1>2, <3>1, Least
  <2>2. PICK y \in f[n] : \A p \in [0 .. n -> NodeIds] : ~ Leads(p, n, y)
    OBVIOUS
  <2>3. n # 0
    <3>1. ASSUME n = 0 PROVE FALSE
      <4>1. y \in starts /\ y \in NodeIds
        BY <1>1, <3>1, <2>2
      <4>2. [i \in 0 .. 0 |-> y] \in [0 .. n -> NodeIds]
        BY <4>1, <3>1
      <4>3. Leads([i \in 0 .. 0 |-> y], n, y)
        BY <4>1, <3>1 DEF Path
      <4> QED BY <4>2, <4>3, <2>2
    <3> QED BY <3>1
  <2>4. n \in 1 .. k /\ n - 1 \in 0 .. k /\ n - 1 \notin Bad
    <3>1. n \in 0 .. k
      BY <2>1
    <3> HIDE DEF Bad
    <3> QED BY <2>1, <2>3, <3>1
  <2>5. PICK z \in f[n - 1] : y \in outgoingEdges(d, z)
    <3>1. y \in UNION {outgoingEdges(d, m) : m \in f[n - 1]}
      BY <1>1, <2>2, <2>4
    <3> QED BY <3>1
  <2>6. PICK p \in [0 .. n - 1 -> NodeIds] : Leads(p, n - 1, z)
    BY <2>4, <2>5
  <2> DEFINE q == [i \in 0 .. n |-> IF i = n THEN y ELSE p[i]]
  <2>7. y \in NodeIds /\ <<z, y>> \in d.edges
    BY <2>5 DEF outgoingEdges
  <2>8. q \in [0 .. n -> NodeIds]
    BY <2>4, <2>6, <2>7
  <2>9. Leads(q, n, y)
    <3>1. n \in Nat /\ n - 1 \in 0 .. n /\ n # 0
      BY <2>4
    <3>2. ASSUME NEW i \in 1 .. n PROVE <<q[i - 1], q[i]>> \in d.edges
      <4>1. CASE i = n
        <5>1. q[i] = y /\ q[i - 1] = p[n - 1]
          BY <3>1, <4>1
        <5> QED BY <5>1, <2>6, <2>7
      <4>2. CASE i # n
        <5>1. i \in 1 .. n - 1 /\ q[i] = p[i] /\ q[i - 1] = p[i - 1]
          BY <3>1, <4>2
        <5> HIDE DEF q
        <5> QED BY <5>1, <2>6 DEF Path
      <4> QED BY <4>1, <4>2
    <3>3. q[0] = p[0] /\ q[n] = y
      BY <3>1
    <3> HIDE DEF q
    <3> QED BY <3>2, <3>3, <2>6 DEF Path
  <2> QED
    <3> HIDE DEF q, Leads
    <3> QED BY <2>2, <2>8, <2>9
<1>3. k \notin Bad
  BY <1>2
<1> QED  BY <1>a, <1>3

-----------------------------------------------------------------------------
(* Graphs without cycles *)

\* The number of nodes, and of turns.
Total == Cardinality(NodeIds)

\* There are finitely many nodes.
LEMMA TotalType == Total \in Nat
  BY DefinitionAssumption, FS_CardinalityType DEF Total

\* In a graph without cycles no path has more nodes than there are.
LEMMA NoLongPath ==
  ASSUME NEW d, validateAcyclicGraph(d),
         NEW p \in [0 .. Total -> NodeIds], \A i \in 0 .. Total : p[i] \in d.nodes,
         Path(d, p, Total)
  PROVE  FALSE
<1>1. PICK x, y \in 0 .. Total : x # y /\ p[x] = p[y]
  <2>1. IsFiniteSet(0 .. Total) /\ Cardinality(0 .. Total) = Total + 1
    BY TotalType, FS_Interval
  <2>2. Cardinality(NodeIds) < Cardinality(0 .. Total)
    BY TotalType, <2>1 DEF Total
  <2> QED BY <2>1, <2>2, DefinitionAssumption, FS_PigeonHole
<1>2. PICK i, j \in 0 .. Total : i < j /\ p[i] = p[j]
  <2>1. CASE x < y
    BY <2>1, <1>1
  <2>2. CASE y < x
    BY <2>2, <1>1
  <2> QED BY <1>1, <2>1, <2>2, TotalType
<1> DEFINE k == j - i
           q == [h \in 0 .. k |-> p[i + h]]
<1>3. k \in 1 .. Total /\ k \in Nat
  BY <1>2, TotalType
<1>4. \A h \in 0 .. k : i + h \in 0 .. Total
  BY <1>2, TotalType
<1>5. q \in [0 .. k -> NodeIds]
  BY <1>4
<1>6. Path(d, q, k)
  <2> SUFFICES ASSUME NEW h \in 1 .. k PROVE <<q[h - 1], q[h]>> \in d.edges
    BY DEF Path
  <2>1. i + h \in 1 .. Total /\ h - 1 \in 0 .. k /\ h \in 0 .. k
    BY <1>2, <1>3, TotalType
  <2>2. q[h] = p[i + h] /\ q[h - 1] = p[(i + h) - 1]
    BY <2>1, <1>2
  <2> HIDE DEF q, k
  <2> QED BY <2>1, <2>2 DEF Path
<1>7. q[k] = p[i] /\ q[0] = p[i]
  <2>1. q[k] = p[i + k] /\ q[0] = p[i + 0]
    BY <1>3
  <2>2. i + k = j /\ i + 0 = i
    BY <1>2
  <2> QED BY <2>1, <2>2, <1>2
<1>8. p[i] \in After(d, {p[i]}, k)
  <2> HIDE DEF q, k
  <2> QED BY <1>3, <1>5, <1>6, <1>7, PathReaches
<1> QED
  <2> HIDE DEF k
  <2> QED BY <1>3, <1>8 DEF validateAcyclicGraph, Total

\* Edges join nodes of the definition.
Joined(d) == \A e \in d.edges : e[1] \in d.nodes /\ e[2] \in d.nodes /\ e[1] # e[2]

\* Some node of every set of nodes has no edge from that set.
LEMMA FirstOf ==
  ASSUME NEW d, validateAcyclicGraph(d), NEW U \in SUBSET NodeIds,
         U \subseteq d.nodes, U # {}
  PROVE  \E m \in U : \A n \in U : <<n, m>> \notin d.edges
<1> SUFFICES ASSUME \A m \in U : \E n \in U : <<n, m>> \in d.edges PROVE FALSE
  OBVIOUS
<1> DEFINE g == [m \in U |-> CHOOSE n \in U : <<n, m>> \in d.edges]
<1>1. \A m \in U : g[m] \in U /\ <<g[m], m>> \in d.edges
  OBVIOUS
<1>2. g \in [U -> U]
  BY <1>1
<1>3. PICK a : a \in U
  OBVIOUS
<1>4. PICK f : Iterates(f, U, a, g, Total)
  <2> HIDE DEF g
  <2> QED BY <1>2, <1>3, TotalType, Iterated
<1>5. /\ f \in [0 .. Total -> U]
      /\ \A i \in 1 .. Total : <<f[i], f[i - 1]>> \in d.edges
  <2> HIDE DEF g
  <2>1. f \in [0 .. Total -> U] /\ \A i \in 1 .. Total : f[i] = g[f[i - 1]]
    BY <1>4 DEF Iterates
  <2>2. \A i \in 1 .. Total : f[i - 1] \in U
    BY <2>1, TotalType
  <2> QED BY <2>1, <2>2, <1>1
<1> DEFINE p == [h \in 0 .. Total |-> f[Total - h]]
<1>6. p \in [0 .. Total -> NodeIds] /\ \A i \in 0 .. Total : p[i] \in d.nodes
  <2>1. \A h \in 0 .. Total : Total - h \in 0 .. Total
    BY TotalType
  <2> QED BY <1>5, <2>1
<1>7. Path(d, p, Total)
  <2> SUFFICES ASSUME NEW i \in 1 .. Total PROVE <<p[i - 1], p[i]>> \in d.edges
    BY DEF Path
  <2> DEFINE h == Total - i + 1
  <2>1. /\ h \in 1 .. Total /\ Total - i = h - 1 /\ Total - (i - 1) = h
        /\ i - 1 \in 0 .. Total /\ i \in 0 .. Total
    BY TotalType
  <2>2. p[i] = f[h - 1] /\ p[i - 1] = f[h]
    BY <2>1
  <2> HIDE DEF p, h
  <2> QED BY <2>1, <2>2, <1>5
<1> HIDE DEF p
<1> QED BY <1>6, <1>7, NoLongPath

\* The layout ends.
LEMMA LayoutEnds ==
  ASSUME NEW d, d.nodes \subseteq NodeIds, Joined(d), validateAcyclicGraph(d)
  PROVE  ~ Hangs(d)
<1> DEFINE Sources == {n \in d.nodes : incomingCount(d, n) = 0}
<1> SUFFICES ASSUME NEW x \in After(d, Sources, Total) PROVE FALSE
  BY DEF Hangs, Total
<1>1. Sources \in SUBSET NodeIds
  OBVIOUS
<1>2. PICK p \in [0 .. Total -> NodeIds] : p[0] \in Sources /\ p[Total] = x /\ Path(d, p, Total)
  <2> HIDE DEF Sources
  <2> QED BY <1>1, TotalType, WavePath
<1>3. \A i \in 0 .. Total : p[i] \in d.nodes
  <2> SUFFICES ASSUME NEW i \in 0 .. Total PROVE p[i] \in d.nodes
    OBVIOUS
  <2>1. CASE i = 0
    BY <1>2, <2>1
  <2>2. CASE i # 0
    <3>1. <<p[i - 1], p[i]>> \in d.edges
      BY <1>2, <2>2, TotalType DEF Path
    <3> QED BY <3>1 DEF Joined
  <2> QED BY <2>1, <2>2
<1> QED BY <1>2, <1>3, NoLongPath

-----------------------------------------------------------------------------
(* Sequences without repetitions *)

\* What a sequence lists, and that it lists nothing twice.
Elems(q) == {q[i] : i \in 1 .. Len(q)}
Distinct(q) == \A i, j \in 1 .. Len(q) : q[i] = q[j] => i = j

\* SetToSeq lists each element of a finite set once.
LEMMA Listed ==
  ASSUME NEW T, IsFiniteSet(T)
  PROVE  /\ SetToSeq(T) \in Seq(T)
         /\ Elems(SetToSeq(T)) = T
         /\ Distinct(SetToSeq(T))
<1> DEFINE C == Cardinality(T)
           q == SetToSeq(T)
<1>1. C \in Nat /\ ExistsBijection(1 .. C, T)
  BY FS_CardinalityType
<1>2. \E f \in [1 .. C -> T] : IsInjective(f)
  BY <1>1 DEF ExistsBijection, Bijection, Injection
<1>3. q \in [1 .. C -> T] /\ IsInjective(q)
  BY <1>2 DEF SetToSeq
<1>4. q \in Injection(1 .. C, T)
  BY <1>3 DEF Injection
<1>5. IsFiniteSet(1 .. C) /\ Cardinality(1 .. C) = C
  BY <1>1, FS_Interval
<1>6. q \in Surjection(1 .. C, T)
  <2> HIDE DEF q
  <2> QED BY <1>4, <1>5, FS_Injection
<1>7. q \in Seq(T) /\ Len(q) = C
  <2> HIDE DEF q, C
  <2> QED BY <1>1, <1>3
<1>8. Elems(q) = T
  <2> HIDE DEF q, C
  <2> QED BY <1>3, <1>6, <1>7 DEF Elems, Surjection
<1>9. Distinct(q)
  <2> HIDE DEF q, C
  <2> QED BY <1>3, <1>7 DEF Distinct, IsInjective
<1> QED BY <1>7, <1>8, <1>9

\* Appending something new.
LEMMA AppendElems ==
  ASSUME NEW T, NEW q \in Seq(T), NEW x \in T, Distinct(q), x \notin Elems(q)
  PROVE  /\ Append(q, x) \in Seq(T)
         /\ Elems(Append(q, x)) = Elems(q) \cup {x}
         /\ Distinct(Append(q, x))
<1>1. /\ Append(q, x) \in Seq(T) /\ Len(Append(q, x)) = Len(q) + 1
      /\ Len(q) \in Nat
      /\ \A i \in 1 .. Len(q) : Append(q, x)[i] = q[i]
      /\ Append(q, x)[Len(q) + 1] = x
  OBVIOUS
<1> DEFINE r == Append(q, x)
<1> HIDE DEF r
<1>2. Elems(r) = Elems(q) \cup {x}
  <2>1. ASSUME NEW i \in 1 .. Len(q) + 1 PROVE r[i] \in Elems(q) \cup {x}
    <3>1. CASE i = Len(q) + 1
      BY <3>1, <1>1 DEF r
    <3>2. CASE i # Len(q) + 1
      BY <3>2, <1>1 DEF r, Elems
    <3> QED BY <3>1, <3>2
  <2>2. ASSUME NEW i \in 1 .. Len(q) PROVE q[i] \in Elems(r)
    BY <1>1 DEF r, Elems
  <2>3. x \in Elems(r)
    BY <1>1 DEF r, Elems
  <2>4. Elems(r) \subseteq Elems(q) \cup {x}
    BY <2>1, <1>1 DEF Elems, r
  <2>5. Elems(q) \subseteq Elems(r)
    BY <2>2 DEF Elems
  <2> QED BY <2>3, <2>4, <2>5
<1>3. Distinct(r)
  <2> SUFFICES ASSUME NEW i \in 1 .. Len(q) + 1, NEW j \in 1 .. Len(q) + 1, r[i] = r[j]
               PROVE  i = j
    BY <1>1 DEF Distinct, r
  <2>1. \A h \in 1 .. Len(q) : r[h] # x
    BY <1>1 DEF r, Elems
  <2>2. CASE i = Len(q) + 1 \/ j = Len(q) + 1
    BY <2>1, <2>2, <1>1 DEF r
  <2>3. CASE i \in 1 .. Len(q) /\ j \in 1 .. Len(q)
    BY <2>3, <1>1 DEF r, Distinct
  <2> QED BY <2>2, <2>3, <1>1
<1> QED BY <1>1, <1>2, <1>3 DEF r

\* Taking the first element takes nothing else.
LEMMA TailElems ==
  ASSUME NEW T, NEW q \in Seq(T), Distinct(q), q # <<>>
  PROVE  /\ Head(q) \in T /\ Head(q) \in Elems(q)
         /\ Tail(q) \in Seq(T)
         /\ Elems(Tail(q)) = Elems(q) \ {Head(q)}
         /\ Distinct(Tail(q))
<1>1. /\ Len(q) \in Nat /\ Len(q) >= 1 /\ Tail(q) \in Seq(T) /\ Len(Tail(q)) = Len(q) - 1
      /\ \A i \in 1 .. Len(q) - 1 : Tail(q)[i] = q[i + 1]
      /\ Head(q) = q[1] /\ Head(q) \in T
  OBVIOUS
<1> DEFINE r == Tail(q)
<1> HIDE DEF r
<1>2. Head(q) \in Elems(q)
  BY <1>1 DEF Elems
<1>3. ASSUME NEW x \in Elems(r) PROVE x \in Elems(q) \ {Head(q)}
  <2>1. PICK i \in 1 .. Len(q) - 1 : x = q[i + 1]
    BY <1>1, <1>3 DEF r, Elems
  <2>2. i + 1 \in 1 .. Len(q) /\ i + 1 # 1 /\ 1 \in 1 .. Len(q)
    BY <1>1
  <2>3. q[i + 1] # q[1]
    BY <2>2 DEF Distinct
  <2> QED BY <1>1, <2>1, <2>2, <2>3 DEF Elems
<1>4. ASSUME NEW x \in Elems(q), x # Head(q) PROVE x \in Elems(r)
  <2>1. PICK i \in 1 .. Len(q) : x = q[i]
    BY <1>4 DEF Elems
  <2>2. i - 1 \in 1 .. Len(q) - 1 /\ (i - 1) + 1 = i
    BY <1>1, <1>4, <2>1
  <2>3. r[i - 1] = q[i]
    BY <1>1, <2>2 DEF r
  <2> QED BY <1>1, <2>1, <2>2, <2>3 DEF Elems, r
<1>5. Distinct(r)
  <2> SUFFICES ASSUME NEW i \in 1 .. Len(q) - 1, NEW j \in 1 .. Len(q) - 1, r[i] = r[j]
               PROVE  i = j
    BY <1>1 DEF Distinct, r
  <2>1. q[i + 1] = q[j + 1] /\ i + 1 \in 1 .. Len(q) /\ j + 1 \in 1 .. Len(q)
    BY <1>1 DEF r
  <2>2. i + 1 = j + 1
    BY <2>1 DEF Distinct
  <2> QED BY <2>2
<1>6. Elems(r) = Elems(q) \ {Head(q)}
  BY <1>3, <1>4
<1> QED BY <1>1, <1>2, <1>5, <1>6 DEF r

\* Joining two sequences that have nothing in common.
LEMMA ConcatElems ==
  ASSUME NEW T, NEW q \in Seq(T), NEW r \in Seq(T), Distinct(q), Distinct(r),
         Elems(q) \cap Elems(r) = {}
  PROVE  /\ q \o r \in Seq(T)
         /\ Elems(q \o r) = Elems(q) \cup Elems(r)
         /\ Distinct(q \o r)
<1>1. /\ q \o r \in Seq(T) /\ Len(q \o r) = Len(q) + Len(r)
      /\ Len(q) \in Nat /\ Len(r) \in Nat
      /\ \A i \in 1 .. Len(q) : (q \o r)[i] = q[i]
      /\ \A i \in 1 .. Len(r) : (q \o r)[Len(q) + i] = r[i]
  OBVIOUS
<1> DEFINE t == q \o r
<1> HIDE DEF t
<1>2. ASSUME NEW i \in 1 .. Len(t)
      PROVE  \/ i \in 1 .. Len(q) /\ t[i] = q[i] /\ t[i] \in Elems(q)
             \/ i - Len(q) \in 1 .. Len(r) /\ t[i] = r[i - Len(q)] /\ t[i] \in Elems(r)
  <2>1. CASE i <= Len(q)
    BY <1>1, <2>1 DEF t, Elems
  <2>2. CASE i > Len(q)
    <3>1. i - Len(q) \in 1 .. Len(r) /\ Len(q) + (i - Len(q)) = i
      BY <1>1, <2>2 DEF t
    <3>2. t[i] = r[i - Len(q)]
      BY <1>1, <3>1 DEF t
    <3> QED BY <3>1, <3>2 DEF Elems
  <2> QED BY <2>1, <2>2, <1>1
<1>3. Elems(t) \subseteq Elems(q) \cup Elems(r)
  BY <1>2 DEF Elems
<1>4. Elems(q) \subseteq Elems(t)
  BY <1>1 DEF Elems, t
<1>5. Elems(r) \subseteq Elems(t)
  <2> SUFFICES ASSUME NEW i \in 1 .. Len(r) PROVE r[i] \in Elems(t)
    BY DEF Elems
  <2>1. Len(q) + i \in 1 .. Len(t) /\ t[Len(q) + i] = r[i]
    BY <1>1 DEF t
  <2> QED BY <2>1 DEF Elems
<1>6. Distinct(t)
  <2> SUFFICES ASSUME NEW i \in 1 .. Len(t), NEW j \in 1 .. Len(t), t[i] = t[j]
               PROVE  i = j
    BY DEF Distinct
  <2>1. CASE i \in 1 .. Len(q) /\ t[i] = q[i] /\ j \in 1 .. Len(q) /\ t[j] = q[j]
    BY <2>1 DEF Distinct
  <2>2. CASE /\ i - Len(q) \in 1 .. Len(r) /\ t[i] = r[i - Len(q)]
             /\ j - Len(q) \in 1 .. Len(r) /\ t[j] = r[j - Len(q)]
    <3>1. i - Len(q) = j - Len(q)
      BY <2>2 DEF Distinct
    <3> QED BY <3>1, <1>1
  <2> QED BY <1>2, <2>1, <2>2
<1> QED BY <1>1, <1>3, <1>4, <1>5, <1>6 DEF t

-----------------------------------------------------------------------------
(* The worker's order *)

\* The nodes with an edge to m.
Pred(d, m) == {n \in NodeIds : <<n, m>> \in d.edges}

\* The local variables of the ordering.
OrderStates == [queue : Seq(NodeIds), count : [NodeIds -> Nat], ordered : Seq(NodeIds)]

\* What the turns of the ordering keep: the queue holds the nodes whose last
\* incoming edge is used up, and what is ordered comes after its predecessors.
Ordering(d, s) ==
  /\ Distinct(s.queue) /\ Distinct(s.ordered)
  /\ Elems(s.ordered) \subseteq d.nodes
  /\ Elems(s.queue) = {m \in d.nodes \ Elems(s.ordered) : Pred(d, m) \subseteq Elems(s.ordered)}
  /\ \A m \in NodeIds : s.count[m] = Cardinality(Pred(d, m) \ Elems(s.ordered))
  /\ \A j \in 1 .. Len(s.ordered) : \A n \in Pred(d, s.ordered[j]) :
       \E i \in 1 .. Len(s.ordered) : i < j /\ s.ordered[i] = n

\* The edges into a node can be counted.
LEMMA PredFinite ==
  ASSUME NEW d, NEW m, NEW O
  PROVE  IsFiniteSet(Pred(d, m) \ O) /\ Cardinality(Pred(d, m) \ O) \in Nat
<1>1. Pred(d, m) \ O \in SUBSET NodeIds
  BY DEF Pred
<1>2. IsFiniteSet(Pred(d, m) \ O)
  BY <1>1, DefinitionAssumption, FS_Subset
<1> QED BY <1>2, FS_CardinalityType

\* It starts with the triggers, the only nodes without incoming edges.
LEMMA OrderStart ==
  ASSUME NEW d \in Definitions, workflowDefinitionSchema(d)
  PROVE  startOrder(d) \in OrderStates /\ Ordering(d, startOrder(d))
<1> DEFINE T == TriggersOf(d)
<1>1. T \in SUBSET NodeIds /\ T \subseteq d.nodes
  BY DEF TriggersOf, Definitions
<1>2. IsFiniteSet(T)
  BY <1>1, DefinitionAssumption, FS_Subset
<1>3. /\ SetToSeq(T) \in Seq(T) /\ Elems(SetToSeq(T)) = T /\ Distinct(SetToSeq(T))
  <2> HIDE DEF T
  <2> QED BY <1>2, Listed
<1>4. SetToSeq(T) \in Seq(NodeIds)
  <2> HIDE DEF T
  <2> QED BY <1>1, <1>3
<1>5. \A m : incomingCount(d, m) = Cardinality(Pred(d, m))
  BY DEF incomingCount, Pred
<1>6. \A m : Pred(d, m) \ {} = Pred(d, m)
  OBVIOUS
<1>7. \A m : IsFiniteSet(Pred(d, m)) /\ incomingCount(d, m) \in Nat
  <2> SUFFICES ASSUME NEW m
               PROVE  IsFiniteSet(Pred(d, m)) /\ incomingCount(d, m) \in Nat
    OBVIOUS
  <2>1. IsFiniteSet(Pred(d, m) \ {}) /\ Cardinality(Pred(d, m) \ {}) \in Nat
    BY PredFinite
  <2> QED BY <1>5, <1>6, <2>1
<1>8. startOrder(d) \in OrderStates
  BY <1>4, <1>7 DEF startOrder, OrderStates
<1>9. Elems(<<>>) = {} /\ Distinct(<<>>) /\ Len(<<>>) = 0
  BY DEF Elems, Distinct
<1>10. T = {m \in d.nodes : Pred(d, m) = {}}
  <2>1. ASSUME NEW m \in T PROVE Pred(d, m) = {}
    <3>1. incomingCount(d, m) = 0
      BY DEF workflowDefinitionSchema
    <3> QED BY <3>1, <1>5, <1>7, FS_EmptySet
  <2>2. ASSUME NEW m \in d.nodes, m \notin T PROVE Pred(d, m) # {}
    <3>1. PICK k \in 0 .. Cardinality(NodeIds) : m \in After(d, T, k)
      BY <2>2 DEF workflowDefinitionSchema, validateReachability
    <3>2. k \in Nat
      OBVIOUS
    <3>3. PICK p \in [0 .. k -> NodeIds] : p[0] \in T /\ p[k] = m /\ Path(d, p, k)
      <4> HIDE DEF T
      <4> QED BY <1>1, <3>1, <3>2, WavePath
    <3>4. k # 0
      BY <2>2, <3>3
    <3>5. <<p[k - 1], m>> \in d.edges /\ p[k - 1] \in NodeIds
      BY <3>2, <3>3, <3>4 DEF Path
    <3> QED BY <3>5 DEF Pred
  <2> QED BY <1>1, <2>1, <2>2
<1>11. /\ startOrder(d).queue = SetToSeq(T) /\ startOrder(d).ordered = <<>>
       /\ \A m \in NodeIds : startOrder(d).count[m] = Cardinality(Pred(d, m))
  BY <1>5 DEF startOrder
<1>12. Ordering(d, startOrder(d))
  <2> DEFINE s == startOrder(d)
  <2> HIDE DEF T, s
  <2>1. Elems(s.ordered) = {} /\ Distinct(s.ordered) /\ 1 .. Len(s.ordered) = {}
    BY <1>9, <1>11 DEF s
  <2>2. Elems(s.queue) = T /\ Distinct(s.queue)
    BY <1>3, <1>11 DEF s
  <2>3. T = {m \in d.nodes \ {} : Pred(d, m) \subseteq {}}
    BY <1>10
  <2>4. \A m \in NodeIds : s.count[m] = Cardinality(Pred(d, m) \ {})
    BY <1>6, <1>11 DEF s
  <2>5. Ordering(d, s)
    BY <2>1, <2>2, <2>3, <2>4 DEF Ordering
  <2> QED BY <2>5 DEF s
<1> QED BY <1>8, <1>12

\* Each turn takes one node.
LEMMA OrderTurn ==
  ASSUME NEW d \in Definitions, Joined(d), NEW s \in OrderStates, Ordering(d, s)
  PROVE  /\ takeNext(d, s) \in OrderStates
         /\ Ordering(d, takeNext(d, s))
         /\ s.queue = <<>> => takeNext(d, s) = s
         /\ s.queue # <<>> => Len(takeNext(d, s).ordered) = Len(s.ordered) + 1
<1>1. CASE s.queue = <<>>
  <2>1. takeNext(d, s) = s
    BY <1>1 DEF takeNext
  <2> QED BY <1>1, <2>1
<1>2. CASE s.queue # <<>>
  <2> DEFINE n == Head(s.queue)
             O == Elems(s.ordered)
             Q == Elems(s.queue)
             count == [m \in NodeIds |->
                         IF <<n, m>> \in d.edges THEN s.count[m] - 1 ELSE s.count[m]]
             Free == {m \in outgoingEdges(d, n) : count[m] = 0}
             t == takeNext(d, s)
  <2>1. s.queue \in Seq(NodeIds) /\ s.ordered \in Seq(NodeIds) /\ s.count \in [NodeIds -> Nat]
    BY DEF OrderStates
  <2>2. /\ n \in NodeIds /\ n \in Q /\ Tail(s.queue) \in Seq(NodeIds)
        /\ Elems(Tail(s.queue)) = Q \ {n} /\ Distinct(Tail(s.queue))
    BY <1>2, <2>1, TailElems DEF Ordering
  <2>3. n \in d.nodes /\ n \notin O /\ Pred(d, n) \subseteq O
    BY <2>2 DEF Ordering
  <2>4. /\ t.queue = Tail(s.queue) \o SetToSeq(Free) /\ t.count = count
        /\ t.ordered = Append(s.ordered, n)
        /\ t = [queue |-> Tail(s.queue) \o SetToSeq(Free), count |-> count,
                ordered |-> Append(s.ordered, n)]
    BY <1>2 DEF takeNext
  <2> HIDE DEF t
  <2>5. /\ t.ordered \in Seq(NodeIds) /\ Elems(t.ordered) = O \cup {n} /\ Distinct(t.ordered)
    BY <2>1, <2>2, <2>3, <2>4, AppendElems DEF Ordering
  <2>6. ASSUME NEW m \in NodeIds
        PROVE  /\ count[m] = Cardinality(Pred(d, m) \ (O \cup {n}))
               /\ count[m] \in Nat
               /\ count[m] = 0 <=> Pred(d, m) \subseteq O \cup {n}
    <3> DEFINE P == Pred(d, m) \ O
    <3>1. IsFiniteSet(P) /\ s.count[m] = Cardinality(P)
      BY PredFinite DEF Ordering
    <3>2. Pred(d, m) \ (O \cup {n}) = P \ {n}
      OBVIOUS
    <3>3. Cardinality(P \ {n}) = IF n \in P THEN Cardinality(P) - 1 ELSE Cardinality(P)
      <4> HIDE DEF P
      <4> QED BY <3>1, FS_RemoveElement
    <3>4. n \in P <=> <<n, m>> \in d.edges
      BY <2>2, <2>3 DEF Pred
    <3>5. count[m] = Cardinality(P \ {n})
      BY <3>1, <3>3, <3>4
    <3>6. IsFiniteSet(P \ {n}) /\ Cardinality(P \ {n}) \in Nat
      BY <3>2, PredFinite
    <3>7. Cardinality(P \ {n}) = 0 <=> P \ {n} = {}
      <4> HIDE DEF P
      <4> QED BY <3>6, FS_EmptySet
    <3>8. P \ {n} = {} <=> Pred(d, m) \subseteq O \cup {n}
      OBVIOUS
    <3> QED BY <3>2, <3>5, <3>6, <3>7, <3>8
  <2>7. Free = {m \in NodeIds : <<n, m>> \in d.edges /\ Pred(d, m) \subseteq O \cup {n}}
    <3> HIDE DEF count, O, n
    <3> QED BY <2>6 DEF outgoingEdges
  <2> HIDE DEF Free
  <2>8. IsFiniteSet(Free) /\ Free \subseteq NodeIds
    <3>1. Free \in SUBSET NodeIds
      BY <2>7
    <3> QED BY <3>1, DefinitionAssumption, FS_Subset
  <2>9. /\ SetToSeq(Free) \in Seq(NodeIds) /\ Elems(SetToSeq(Free)) = Free
        /\ Distinct(SetToSeq(Free))
    <3>1. SetToSeq(Free) \in Seq(Free)
      BY <2>8, Listed
    <3> QED BY <2>8, <3>1, Listed
  <2>10. (Q \ {n}) \cap Free = {}
    BY <2>2, <2>3, <2>7 DEF Ordering, Pred
  <2>11. /\ t.queue \in Seq(NodeIds) /\ Elems(t.queue) = (Q \ {n}) \cup Free
         /\ Distinct(t.queue)
    <3> DEFINE q == Tail(s.queue)
               r == SetToSeq(Free)
    <3>1. /\ q \in Seq(NodeIds) /\ r \in Seq(NodeIds) /\ Distinct(q) /\ Distinct(r)
          /\ Elems(q) = Q \ {n} /\ Elems(r) = Free /\ t.queue = q \o r
      BY <2>2, <2>4, <2>9
    <3> HIDE DEF q, r, Q, n
    <3>2. Elems(q) \cap Elems(r) = {}
      BY <2>10, <3>1
    <3>3. q \o r \in Seq(NodeIds) /\ Elems(q \o r) = Elems(q) \cup Elems(r) /\ Distinct(q \o r)
      BY <3>1, <3>2, ConcatElems
    <3> QED BY <3>1, <3>3
  <2>12. (Q \ {n}) \cup Free = {m \in d.nodes \ (O \cup {n}) : Pred(d, m) \subseteq O \cup {n}}
    <3>1. ASSUME NEW m \in Free
          PROVE  m \in d.nodes /\ m \notin O /\ m # n
      <4>1. <<n, m>> \in d.edges /\ n \in Pred(d, m) /\ m \in NodeIds
        BY <2>2, <2>7, <3>1 DEF Pred
      <4>2. m \in d.nodes /\ m # n
        BY <4>1 DEF Joined
      <4>3. ASSUME m \in O PROVE FALSE
        <5>1. PICK j \in 1 .. Len(s.ordered) : s.ordered[j] = m
          BY <4>3 DEF Elems
        <5>2. PICK i \in 1 .. Len(s.ordered) : s.ordered[i] = n
          BY <4>1, <5>1 DEF Ordering
        <5>3. n \in O
          BY <5>2 DEF Elems
        <5> QED BY <5>3, <2>3
      <4> QED BY <4>2, <4>3
    <3>2. ASSUME NEW m \in Q, m # n
          PROVE  m \in d.nodes /\ m \notin O /\ Pred(d, m) \subseteq O
      BY <3>2 DEF Ordering
    <3>3. ASSUME NEW m \in d.nodes, m \notin O, m # n, Pred(d, m) \subseteq O \cup {n}
          PROVE  m \in Q \/ m \in Free
      <4>1. CASE n \in Pred(d, m)
        <5>1. m \in NodeIds
          BY DEF Definitions
        <5> QED BY <2>7, <3>3, <4>1, <5>1 DEF Pred
      <4>2. CASE n \notin Pred(d, m)
        BY <3>3, <4>2 DEF Ordering
      <4> QED BY <4>1, <4>2
    <3> HIDE DEF O, Q, n
    <3> QED BY <2>7, <3>1, <3>2, <3>3
  <2>13. \A j \in 1 .. Len(t.ordered) : \A h \in Pred(d, t.ordered[j]) :
           \E i \in 1 .. Len(t.ordered) : i < j /\ t.ordered[i] = h
    <3> SUFFICES ASSUME NEW j \in 1 .. Len(t.ordered), NEW h \in Pred(d, t.ordered[j])
                 PROVE  \E i \in 1 .. Len(t.ordered) : i < j /\ t.ordered[i] = h
      OBVIOUS
    <3>1. /\ Len(t.ordered) = Len(s.ordered) + 1 /\ Len(s.ordered) \in Nat
          /\ \A i \in 1 .. Len(s.ordered) : t.ordered[i] = s.ordered[i]
          /\ t.ordered[Len(s.ordered) + 1] = n
      BY <2>1, <2>2, <2>4
    <3>2. CASE j = Len(s.ordered) + 1
      <4>1. h \in O
        BY <2>3, <3>1, <3>2
      <4>2. PICK i \in 1 .. Len(s.ordered) : s.ordered[i] = h
        BY <4>1 DEF Elems
      <4>3. i \in 1 .. Len(t.ordered) /\ i < j /\ t.ordered[i] = h
        BY <3>1, <3>2, <4>2
      <4> QED BY <4>3
    <3>3. CASE j # Len(s.ordered) + 1
      <4>1. j \in 1 .. Len(s.ordered) /\ t.ordered[j] = s.ordered[j]
        BY <3>1, <3>3
      <4>2. PICK i \in 1 .. Len(s.ordered) : i < j /\ s.ordered[i] = h
        BY <4>1 DEF Ordering
      <4>3. i \in 1 .. Len(t.ordered) /\ t.ordered[i] = h
        BY <3>1, <4>2
      <4> QED BY <4>2, <4>3
    <3> QED BY <3>2, <3>3
  <2>14. count \in [NodeIds -> Nat]
    <3>1. \A m \in NodeIds : count[m] \in Nat
      BY <2>6
    <3> QED BY <3>1
  <2>15. t \in OrderStates
    <3> HIDE DEF count, n
    <3> QED BY <2>4, <2>5, <2>11, <2>14 DEF OrderStates
  <2>16. Ordering(d, t)
    <3>1. \A m \in NodeIds : t.count[m] = Cardinality(Pred(d, m) \ Elems(t.ordered))
      <4> HIDE DEF count, O, n
      <4> QED BY <2>4, <2>5, <2>6
    <3>2. Elems(t.ordered) \subseteq d.nodes
      BY <2>3, <2>5 DEF Ordering
    <3>3. Elems(t.queue) =
            {m \in d.nodes \ Elems(t.ordered) : Pred(d, m) \subseteq Elems(t.ordered)}
      <4> HIDE DEF O, Q, n
      <4> QED BY <2>5, <2>11, <2>12
    <3> QED BY <2>5, <2>11, <2>13, <3>1, <3>2, <3>3 DEF Ordering
  <2>17. Len(t.ordered) = Len(s.ordered) + 1
    BY <2>1, <2>2, <2>4
  <2> QED BY <1>2, <2>15, <2>16, <2>17 DEF t
<1> QED BY <1>1, <1>2

\* The order of an accepted definition lists each node once, after those it
\* takes its input from.
LEMMA OrderFound ==
  ASSUME NEW d \in Definitions, workflowDefinitionSchema(d)
  PROVE  InOrder(d, orderWorkflowNodes(d))
<1> DEFINE S == {s \in OrderStates : Ordering(d, s)}
           g == [s \in S |-> takeNext(d, s)]
           F(f) == [i \in 0 .. Total |-> IF i = 0 THEN startOrder(d) ELSE takeNext(d, f[i - 1])]
           kahn == CHOOSE f : f = F(f)
<1>a. Joined(d) /\ validateAcyclicGraph(d)
  BY DEF workflowDefinitionSchema, Joined
<1>1. startOrder(d) \in S /\ g \in [S -> S]
  BY <1>a, OrderStart, OrderTurn
<1>2. PICK f : Iterates(f, S, startOrder(d), g, Total)
  <2> HIDE DEF S, g
  <2> QED BY <1>1, TotalType, Iterated
<1>3. /\ f \in [0 .. Total -> S] /\ f[0] = startOrder(d)
      /\ \A i \in 1 .. Total : f[i - 1] \in S /\ f[i] = takeNext(d, f[i - 1])
  <2>1. f \in [0 .. Total -> S] /\ f[0] = startOrder(d) /\ \A i \in 1 .. Total : f[i] = g[f[i - 1]]
    <3> HIDE DEF S, g
    <3> QED BY <1>2 DEF Iterates
  <2>2. \A i \in 1 .. Total : f[i - 1] \in S
    <3> HIDE DEF S, g
    <3> QED BY <2>1, TotalType
  <2>3. \A s \in S : g[s] = takeNext(d, s)
    <3> HIDE DEF S
    <3> QED OBVIOUS
  <2> HIDE DEF S, g
  <2> QED BY <2>1, <2>2, <2>3
<1>4. f = F(f)
  <2> HIDE DEF S
  <2> QED BY <1>3
<1>5. kahn = F(kahn)
  <2> HIDE DEF F
  <2> QED BY <1>4
<1>6. orderWorkflowNodes(d) = kahn[Total].ordered
  BY DEF orderWorkflowNodes, Total
<1>7. kahn[Total] = f[Total]
  <2> HIDE DEF kahn, S
  <2> DEFINE Bad == {j \in 0 .. Total : kahn[j] # f[j]}
  <2>1. ASSUME Bad # {} PROVE FALSE
    <3>1. PICK n \in Bad : \A m \in Bad : n <= m
      <4>1. Bad \in SUBSET Nat
        BY TotalType
      <4> HIDE DEF Bad
      <4> QED BY <2>1, <4>1, Least
    <3>2. n # 0
      BY <1>3, <1>5, TotalType
    <3>3. n \in 1 .. Total /\ n - 1 \in 0 .. Total /\ kahn[n - 1] = f[n - 1]
      BY <3>1, <3>2, TotalType
    <3>4. kahn[n] = takeNext(d, kahn[n - 1]) /\ f[n] = takeNext(d, f[n - 1])
      BY <1>3, <1>5, <3>2, <3>3
    <3> QED BY <3>3, <3>4
  <2> QED BY <2>1, TotalType
<1> HIDE DEF kahn, F, g
<1>8. Len(f[Total].ordered) = Total \/ f[Total].queue = <<>>
  <2> DEFINE Bad == {j \in 0 .. Total : ~ (Len(f[j].ordered) = j \/ f[j].queue = <<>>)}
  <2>1. ASSUME Bad # {} PROVE FALSE
    <3>1. PICK n \in Bad : \A m \in Bad : n <= m
      <4>1. Bad \in SUBSET Nat
        BY TotalType
      <4> HIDE DEF Bad
      <4> QED BY <2>1, <4>1, Least
    <3>2. n # 0
      <4>1. f[0].ordered = <<>> /\ Len(<<>>) = 0
        BY <1>3 DEF startOrder
      <4> QED BY <4>1
    <3>3. n \in 1 .. Total /\ n - 1 \in 0 .. Total /\ n - 1 \notin Bad
      <4>1. n \in 0 .. Total
        OBVIOUS
      <4> HIDE DEF Bad
      <4> QED BY <3>1, <3>2, <4>1, TotalType
    <3>4. /\ f[n - 1].queue = <<>> => f[n] = f[n - 1]
          /\ f[n - 1].queue # <<>> => Len(f[n].ordered) = Len(f[n - 1].ordered) + 1
      <4>1. f[n - 1] \in OrderStates /\ Ordering(d, f[n - 1]) /\ f[n] = takeNext(d, f[n - 1])
        BY <1>3, <3>3
      <4> QED BY <4>1, <1>a, OrderTurn
    <3> QED BY <3>3, <3>4
  <2> QED BY <2>1, TotalType
<1> DEFINE s == f[Total]
           O == Elems(s.ordered)
<1>9. s \in OrderStates /\ Ordering(d, s)
  BY <1>3, TotalType
<1> HIDE DEF s, S
<1>10. s.ordered \in Seq(NodeIds) /\ Len(s.ordered) \in Nat
  BY <1>9 DEF OrderStates
<1>11. IsFiniteSet(d.nodes) /\ d.nodes \in SUBSET NodeIds
  <2>1. d.nodes \in SUBSET NodeIds
    BY DEF Definitions
  <2> QED BY <2>1, DefinitionAssumption, FS_Subset
<1>12. Cardinality(O) = Len(s.ordered) /\ IsFiniteSet(O)
  <2> DEFINE L == Len(s.ordered)
  <2>1. s.ordered \in [1 .. L -> O]
    BY <1>10 DEF Elems
  <2>2. s.ordered \in Surjection(1 .. L, O)
    BY <2>1 DEF Surjection, Elems
  <2>3. s.ordered \in Injection(1 .. L, O)
    BY <1>9, <2>1 DEF Injection, IsInjective, Ordering, Distinct
  <2>4. IsFiniteSet(1 .. L) /\ Cardinality(1 .. L) = L
    BY <1>10, FS_Interval
  <2> HIDE DEF O, L
  <2>5. IsFiniteSet(O) /\ Cardinality(O) = Cardinality(1 .. L)
    BY <2>2, <2>3, <2>4, FS_Surjection
  <2> QED BY <2>4, <2>5 DEF L
<1>13. O = d.nodes
  <2>1. O \subseteq d.nodes
    BY <1>9 DEF Ordering
  <2>2. CASE s.queue = <<>>
    <3>1. Elems(s.queue) = {}
      BY <2>2 DEF Elems
    <3> DEFINE U == d.nodes \ O
    <3>2. ASSUME U # {} PROVE FALSE
      <4>1. U \in SUBSET NodeIds /\ U \subseteq d.nodes
        BY <1>11
      <4>2. PICK m \in U : \A n \in U : <<n, m>> \notin d.edges
        <5> HIDE DEF U
        <5> QED BY <1>a, <3>2, <4>1, FirstOf
      <4>3. Pred(d, m) \subseteq O
        BY <4>2, <1>a DEF Pred, Joined
      <4>4. m \in Elems(s.queue)
        BY <1>9, <4>2, <4>3 DEF Ordering
      <4> QED BY <3>1, <4>4
    <3> QED BY <2>1, <3>2
  <2>3. CASE Len(s.ordered) = Total
    <3>1. O \in SUBSET NodeIds /\ Cardinality(NodeIds) = Cardinality(O)
      BY <1>11, <1>12, <2>1, <2>3 DEF Total
    <3>2. O = NodeIds
      <4> HIDE DEF O
      <4> QED BY <3>1, DefinitionAssumption, FS_Subset
    <3> QED BY <1>11, <2>1, <3>2
  <2> QED BY <1>8, <2>2, <2>3 DEF s
<1>14. \A i, j \in DOMAIN s.ordered : <<s.ordered[i], s.ordered[j]>> \in d.edges => i < j
  <2> SUFFICES ASSUME NEW i \in 1 .. Len(s.ordered), NEW j \in 1 .. Len(s.ordered),
                      <<s.ordered[i], s.ordered[j]>> \in d.edges
               PROVE  i < j
    BY <1>10
  <2>1. s.ordered[i] \in Pred(d, s.ordered[j])
    <3> DEFINE x == s.ordered[i]
               y == s.ordered[j]
    <3>1. x \in NodeIds /\ <<x, y>> \in d.edges
      BY <1>10
    <3> HIDE DEF x, y
    <3>2. x \in Pred(d, y)
      BY <3>1 DEF Pred
    <3> QED BY <3>2 DEF x, y
  <2>2. PICK h \in 1 .. Len(s.ordered) : h < j /\ s.ordered[h] = s.ordered[i]
    BY <1>9, <2>1 DEF Ordering
  <2>3. h = i
    BY <1>9, <2>2 DEF Ordering, Distinct
  <2> QED BY <2>2, <2>3
<1>15. {s.ordered[i] : i \in DOMAIN s.ordered} = O
  BY <1>10 DEF Elems
<1>16. orderWorkflowNodes(d) = s.ordered
  BY <1>6, <1>7 DEF s
<1> QED BY <1>12, <1>13, <1>14, <1>15, <1>16 DEF InOrder

\* The schema accepts only definitions that the worker can execute and the
\* canvas can lay out.
THEOREM OrderingSoundHolds == OrderingSound
<1> SUFFICES ASSUME NEW c \in ValidDefinitions
             PROVE  InOrder(c, orderWorkflowNodes(c)) /\ ~ Hangs(c)
  BY DEF OrderingSound
<1>1. PICK d \in Definitions :
        workflowDefinitionSchema(d) /\ c = [nodes |-> d.nodes, edges |-> d.edges]
  BY DEF ValidDefinitions
<1>2. c = d
  BY <1>1 DEF Definitions
<1>3. Joined(d) /\ validateAcyclicGraph(d) /\ d.nodes \subseteq NodeIds
  BY <1>1 DEF workflowDefinitionSchema, Joined, Definitions
<1> QED BY <1>1, <1>2, <1>3, OrderFound, LayoutEnds

=================================================================================
