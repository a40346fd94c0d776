------------------------------ MODULE DagProofs ------------------------------
(***************************************************************************)
(* Proofs about the way of a DAG from a task list to its verdict.  First   *)
(* DagBuilder, for every set of names and every task list: Kahn's          *)
(* algorithm, as validate() writes it, accepts exactly the lists the       *)
(* executor can run, and what the depth-first search then reports is a     *)
(* cycle.  Then DagExecutor, for every finite set of nodes, every set of   *)
(* acyclic graphs and every limit: the inductive invariant IInv, and from  *)
(* it the safety properties and the refinement of DagRun.  Last, that what *)
(* the builder hands over is what the executor is proved for.              *)
(***************************************************************************)
EXTENDS DagBuilder, DagExecutorInv, FiniteSetTheorems, SequenceTheorems, TLAPS

-----------------------------------------------------------------------------
(* What the operators on a task list are. *)
LEMMA ListFacts ==
  ASSUME specs \in Seq(TaskSpec)
  PROVE  /\ \A i \in DOMAIN specs : /\ specs[i].id \in Name
                                    /\ specs[i].deps \in Seq(Name)
         /\ Ids \subseteq Name
         /\ \A e \in Edges : From(e) \in Name /\ To(e) \in Ids
         /\ IsFiniteSet(Edges)
<1>1. ASSUME NEW i \in DOMAIN specs
      PROVE  specs[i].id \in Name /\ specs[i].deps \in Seq(Name)
  <2>1. specs[i] \in TaskSpec
    OBVIOUS
  <2> QED
    BY <2>1 DEF TaskSpec
<1>2. Ids \subseteq Name
  BY <1>1 DEF Ids
<1>3. ASSUME NEW e \in Edges PROVE From(e) \in Name /\ To(e) \in Ids
  <2>1. PICK i \in DOMAIN specs : e \in {<<i, k>> : k \in DOMAIN specs[i].deps}
    BY DEF Edges
  <2>2. PICK k \in DOMAIN specs[i].deps : e = <<i, k>>
    BY <2>1
  <2>3. e[1] = i /\ e[2] = k
    BY <2>2
  <2>4. specs[i].deps[k] \in Name
    BY <1>1, <2>2
  <2> QED
    BY <2>3, <2>4 DEF From, To, Ids
<1>4. IsFiniteSet(Edges)
  <2> DEFINE Of(i) == {<<i, k>> : k \in DOMAIN specs[i].deps}
             Parts == {Of(i) : i \in DOMAIN specs}
  <2>1. ASSUME NEW i \in DOMAIN specs PROVE IsFiniteSet(Of(i))
    <3>1. DOMAIN specs[i].deps = 1..Len(specs[i].deps) /\ Len(specs[i].deps) \in Nat
      BY <1>1
    <3> DEFINE R == 1..Len(specs[i].deps)
    <3>2. IsFiniteSet(R)
      <4> DEFINE l == Len(specs[i].deps)
      <4>1. l \in Int
        BY <3>1
      <4> HIDE DEF l
      <4>2. IsFiniteSet(1..l)
        BY <4>1, FS_Interval
      <4> QED
        BY <4>2 DEF l
    <3> HIDE DEF R
    <3>3. IsFiniteSet({i} \X R)
      BY <3>2, FS_Singleton, FS_Product
    <3>4. Of(i) \subseteq {i} \X R
      BY <3>1 DEF R
    <3> QED
      BY <3>3, <3>4, FS_Subset
  <2>2. IsFiniteSet(DOMAIN specs)
    <3>1. DOMAIN specs = 1..Len(specs) /\ Len(specs) \in Nat
      OBVIOUS
    <3> QED
      BY <3>1, FS_Interval
  <2>3. IsFiniteSet(Parts)
    <3> DEFINE f == [i \in DOMAIN specs |-> Of(i)]
    <3>1. f \in Surjection(DOMAIN specs, Parts)
      BY Zenon DEF Surjection
    <3> HIDE DEF f, Parts
    <3> QED
      BY <2>2, <3>1, FS_Surjection
  <2>4. \A T \in Parts : IsFiniteSet(T)
    BY <2>1
  <2>5. Edges = UNION Parts
    BY DEF Edges
  <2> HIDE DEF Parts
  <2> QED
    BY <2>3, <2>4, <2>5, FS_UNION
<1> QED
  BY <1>1, <1>2, <1>3, <1>4

(* The sets of edges the algorithm counts are finite. *)
LEMMA EdgeCounts ==
  ASSUME specs \in Seq(TaskSpec), NEW n \in Name
  PROVE  /\ IsFiniteSet(Into(n)) /\ Cardinality(Into(n)) \in Nat
         /\ IsFiniteSet(Open(n)) /\ Cardinality(Open(n)) \in Nat
         /\ Cardinality(Open(n)) = 0 <=> Open(n) = {}
<1>1. IsFiniteSet(Into(n)) /\ Cardinality(Into(n)) \in Nat
  BY ListFacts, FS_Subset, FS_CardinalityType DEF Into
<1>2. IsFiniteSet(Open(n)) /\ Cardinality(Open(n)) \in Nat
  BY <1>1, FS_Subset, FS_CardinalityType DEF Open
<1> QED
  BY <1>1, <1>2, FS_EmptySet

-----------------------------------------------------------------------------
(* The initial states are well typed and satisfy the invariant. *)
LEMMA InitInv == BuilderInit => BuilderTypeOK /\ KahnInv
<1> SUFFICES ASSUME BuilderInit PROVE BuilderTypeOK /\ KahnInv
  OBVIOUS
<1>1. BuilderTypeOK
  <2>1. specs \in Seq(TaskSpec)
    BY ListsAssumption DEF BuilderInit
  <2> QED
    BY <2>1 DEF BuilderInit, BuilderTypeOK
<1>2. KahnInv
  BY DEF BuilderInit, KahnInv, Judged, Refused, Outcome
<1> QED
  BY <1>1, <1>2

(* A step that changes neither the list nor the tables of the algorithm    *)
(* leaves what they say of each other alone.                               *)
LEMMA TablesKept ==
  ASSUME UNCHANGED <<specs, kahnVars>>
  PROVE  /\ OpenCounted => OpenCounted'
         /\ QueueReady => QueueReady'
         /\ PoppedReady => PoppedReady'
         /\ StuckUnpopped => StuckUnpopped'
         /\ Ids' = Ids /\ (DepsKnown' <=> DepsKnown)
<1>1. specs' = specs /\ degree' = degree /\ queue' = queue /\ popped' = popped /\ count' = count
  BY DEF kahnVars
<1>2. Ids' = Ids /\ Edges' = Edges
  BY <1>1 DEF Ids, Edges
<1>3. \A n : Into(n)' = Into(n) /\ Open(n)' = Open(n)
  BY <1>1, <1>2 DEF Into, Open, From, To
<1>4. \A m, n : Between(m, n)' = Between(m, n)
  BY <1>1, <1>2 DEF Between, From, To
<1>5. OpenCounted => OpenCounted'
  BY <1>1, <1>3 DEF OpenCounted
<1>6. QueueReady => QueueReady'
  BY <1>1, <1>2, <1>3 DEF QueueReady
<1>7. PoppedReady => PoppedReady'
  BY <1>1, <1>2, <1>3 DEF PoppedReady
<1>8. StuckUnpopped => StuckUnpopped'
  BY <1>1, <1>2, <1>4 DEF StuckUnpopped, HasSource
<1>9. DepsKnown' <=> DepsKnown
  BY <1>1, <1>2 DEF DepsKnown, From
<1> QED
  BY <1>2, <1>5, <1>6, <1>7, <1>8, <1>9

(* Popping m closes exactly the edges that leave m. *)
LEMMA PopCloses ==
  ASSUME BuilderTypeOK, Judged, KahnInv, NEW m \in Name, Pop(m)
  PROVE  /\ m \in Ids /\ m \notin popped /\ Open(m) = {}
         /\ \A n \in Name : /\ Open(n)' = Open(n) \ Between(m, n)
                            /\ Between(m, n) \subseteq Open(n)
                            /\ degree'[n] = Cardinality(Open(n)')
                            /\ degree'[n] \in Nat
         /\ Ids' = Ids /\ Edges' = Edges
<1>1. specs' = specs /\ popped' = popped \cup {m} /\ specs \in Seq(TaskSpec)
  BY DEF Pop, BuilderTypeOK
<1>2. Ids' = Ids /\ Edges' = Edges
  BY <1>1 DEF Ids, Edges
<1>3. m \in Ids /\ m \notin popped /\ Open(m) = {}
  BY DEF Pop, KahnInv, QueueReady
<1>4. ASSUME NEW n \in Name
      PROVE  /\ Open(n)' = Open(n) \ Between(m, n)
             /\ Between(m, n) \subseteq Open(n)
             /\ degree'[n] = Cardinality(Open(n)')
             /\ degree'[n] \in Nat
  <2>1. Open(n)' = Open(n) \ Between(m, n)
    BY <1>1, <1>2 DEF Open, Into, Between, From, To
  <2>2. Between(m, n) \subseteq Open(n)
    BY <1>3 DEF Open, Into, Between
  <2>3. IsFiniteSet(Open(n)) /\ IsFiniteSet(Between(m, n)) /\ Open(n) \cap Between(m, n) = Between(m, n)
    BY <1>1, <2>2, EdgeCounts, FS_Subset
  <2>4. /\ Cardinality(Open(n) \ Between(m, n)) = Cardinality(Open(n)) - Cardinality(Between(m, n))
        /\ IsFiniteSet(Open(n) \ Between(m, n))
    BY <2>3, FS_Difference
  <2>5. degree'[n] = degree[n] - Cardinality(Between(m, n)) /\ degree[n] = Cardinality(Open(n))
    BY DEF Pop, KahnInv, OpenCounted
  <2> QED
    BY <2>1, <2>2, <2>4, <2>5, FS_CardinalityType
<1> QED
  BY <1>2, <1>3, <1>4

-----------------------------------------------------------------------------
(* Popping m keeps the invariant of the algorithm. *)
LEMMA PopInv ==
  ASSUME BuilderTypeOK, KahnInv, NEW m \in Name, Pop(m)
  PROVE  KahnInv'
<1>1. Judged /\ pc = "kahn" /\ pc' = "kahn"
  BY DEF Pop, Judged
<1>2. /\ OpenCounted /\ QueueReady /\ PoppedReady /\ StuckUnpopped
      /\ specs \in Seq(TaskSpec) /\ Ids \subseteq Name /\ popped \subseteq Name
  BY <1>1, ListFacts DEF KahnInv, BuilderTypeOK
<1>3. /\ m \in Ids /\ m \notin popped /\ Open(m) = {}
      /\ \A n \in Name : Open(n)' = Open(n) \ Between(m, n)
      /\ \A n \in Name : degree'[n] = Cardinality(Open(n)')
      /\ Ids' = Ids /\ Edges' = Edges /\ specs' = specs /\ popped' = popped \cup {m}
  BY <1>1, PopCloses DEF Pop
<1>4. OpenCounted'
  BY <1>3 DEF OpenCounted
<1>5. QueueReady'
  <2>1. \A n \in Name : degree'[n] = 0 <=> Open(n)' = {}
    <3> SUFFICES ASSUME NEW n \in Name PROVE degree'[n] = 0 <=> Open(n)' = {}
      OBVIOUS
    <3>1. IsFiniteSet(Open(n)')
      BY <1>2, <1>3, EdgeCounts, FS_Subset
    <3> QED
      BY <1>3, <3>1, FS_EmptySet
  <2>2. queue' = (queue \ {m}) \cup {n \in Downstream(m) : degree'[n] = 0}
    BY DEF Pop
  <2>3. \A n \in Name : n \in Downstream(m) <=> Between(m, n) # {}
    BY DEF Downstream, Between
  <2>4. Downstream(m) \subseteq Ids
    BY <1>2, ListFacts DEF Downstream
  <2>5. ASSUME NEW n \in Name, n \in queue'
        PROVE  n \in Ids /\ Open(n)' = {} /\ n \notin popped'
    <3>1. CASE n \in queue \ {m}
      BY <1>2, <1>3, <3>1 DEF QueueReady
    <3>2. CASE n \in Downstream(m) /\ degree'[n] = 0
      <4>1. n \in Ids /\ Open(n)' = {}
        BY <2>1, <2>4, <3>2
      <4>2. Between(m, n) # {} /\ Between(m, n) \subseteq Open(n)
        BY <1>1, <2>3, <3>2, PopCloses
      <4>3. n \notin popped /\ n # m
        BY <1>2, <1>3, <4>2 DEF PoppedReady
      <4> QED
        BY <1>3, <4>1, <4>3
    <3> QED
      BY <2>2, <2>5, <3>1, <3>2
  <2>6. ASSUME NEW n \in Ids, Open(n)' = {}, n \notin popped'
        PROVE  n \in queue'
    <3>1. n \in Name /\ n # m /\ n \notin popped
      BY <1>2, <1>3, <2>6
    <3>2. CASE Open(n) = {}
      BY <1>2, <2>2, <3>1, <3>2 DEF QueueReady
    <3>3. CASE Open(n) # {}
      <4>1. Between(m, n) # {}
        BY <1>3, <2>6, <3>1, <3>3
      <4> QED
        BY <2>1, <2>2, <2>3, <2>6, <3>1, <4>1
    <3> QED
      BY <3>2, <3>3
  <2>7. queue' \subseteq Name
    BY <1>2, <2>2, <2>4 DEF QueueReady
  <2> QED
    BY <1>2, <1>3, <2>5, <2>6, <2>7 DEF QueueReady
<1>6. PoppedReady'
  <2>1. popped' \subseteq Ids'
    BY <1>2, <1>3 DEF PoppedReady
  <2>2. count' = Cardinality(popped')
    <3>1. IsFiniteSet(popped)
      BY <1>2, NameAssumption, FS_Subset
    <3>2. Cardinality(popped \cup {m}) = Cardinality(popped) + 1
      BY <1>3, <3>1, FS_AddElement
    <3> QED
      BY <1>2, <1>3, <3>2 DEF PoppedReady, Pop
  <2>3. \A n \in popped' : Open(n)' = {}
    BY <1>2, <1>3 DEF PoppedReady
  <2> QED
    BY <2>1, <2>2, <2>3 DEF PoppedReady
<1>7. StuckUnpopped'
  <2>1. \A s, n : Between(s, n)' = Between(s, n)
    BY <1>3 DEF Between, From, To
  <2>2. \A S : HasSource(S)' <=> HasSource(S)
    BY <2>1 DEF HasSource
  <2>3. ASSUME NEW S \in SUBSET Ids, S # {}, ~HasSource(S) PROVE S \cap popped' = {}
    <3>1. S \cap popped = {}
      BY <1>2, <2>3 DEF StuckUnpopped
    <3>2. m \notin S
      <4> SUFFICES ASSUME m \in S PROVE FALSE
        OBVIOUS
      <4>1. PICK s \in S : Between(s, m) # {}
        BY <2>3 DEF HasSource
      <4>2. PICK e \in Between(s, m) : TRUE
        BY <4>1
      <4>3. e \in Open(m)
        BY <3>1, <4>2 DEF Between, Open, Into
      <4> QED
        BY <1>3, <4>3
    <3> QED
      BY <1>3, <3>1, <3>2
  <2> QED
    BY <1>3, <2>2, <2>3 DEF StuckUnpopped
<1>8. Outcome'
  BY <1>1 DEF Outcome, Refused
<1> QED
  BY <1>4, <1>5, <1>6, <1>7, <1>8 DEF KahnInv

(* So does filling the tables. *)
LEMMA TablesInv ==
  ASSUME BuilderTypeOK, KahnInv, InitTables
  PROVE  KahnInv'
<1>1. /\ specs' = specs /\ popped' = popped /\ popped = {} /\ count' = 0
      /\ pc' = "kahn" /\ specs \in Seq(TaskSpec)
  BY DEF InitTables, KahnInv, Outcome, BuilderTypeOK
<1>2. Ids' = Ids /\ Edges' = Edges
  BY <1>1 DEF Ids, Edges
<1>3. \A n : Into(n)' = Into(n) /\ Open(n)' = Into(n)
  BY <1>1, <1>2 DEF Into, Open, From, To
<1>4. OpenCounted'
  BY <1>3 DEF OpenCounted, InitTables
<1>5. QueueReady'
  BY <1>1, <1>2, <1>3 DEF QueueReady, InitTables
<1>6. PoppedReady'
  BY <1>1, FS_EmptySet DEF PoppedReady
<1>7. StuckUnpopped'
  BY <1>1 DEF StuckUnpopped
<1>8. Outcome'
  BY <1>1 DEF Outcome, Refused
<1> QED
  BY <1>4, <1>5, <1>6, <1>7, <1>8 DEF KahnInv

(* The end of the loop compares the count with the number of ids. *)
LEMMA KahnCountInv ==
  ASSUME BuilderTypeOK, KahnInv, CountVisited
  PROVE  KahnInv'
<1>1. /\ pc = "kahn" /\ Judged /\ queue' = queue /\ queue = {} /\ popped' = popped
      /\ UNCHANGED <<specs, kahnVars>> /\ specs \in Seq(TaskSpec)
  BY DEF CountVisited, Judged, BuilderTypeOK, kahnVars
<1>2. OpenCounted' /\ QueueReady' /\ PoppedReady' /\ StuckUnpopped' /\ Ids' = Ids
  BY <1>1, TablesKept DEF KahnInv
<1>3. count = Cardinality(Ids) <=> popped = Ids
  <2>1. popped \subseteq Ids /\ count = Cardinality(popped)
    BY <1>1 DEF KahnInv, PoppedReady
  <2>2. IsFiniteSet(Ids)
    BY <1>1, ListFacts, NameAssumption, FS_Subset
  <2> QED
    BY <2>1, <2>2, FS_Subset
<1>4. Outcome'
  BY <1>1, <1>2, <1>3 DEF Outcome, Refused, CountVisited
<1> QED
  BY <1>2, <1>4 DEF KahnInv

(* What DfsLeave takes off the stack of active calls. *)
LEMMA StackPop ==
  ASSUME stack \in Seq(Name), stack # <<>>
  PROVE  /\ stack[Len(stack)] \in Name
         /\ Len(stack) # 1 => stack[Len(stack) - 1] \in Name
         /\ SubSeq(stack, 1, Len(stack) - 1) \in Seq(Name)
         /\ Len(SubSeq(stack, 1, Len(stack) - 1)) = Len(stack) - 1
<1>1. Len(stack) \in Nat /\ Len(stack) # 0
  OBVIOUS
<1>2. \A i \in 1..Len(stack) : stack[i] \in Name
  BY ElementOfSeq
<1>3. Len(stack) \in 1..Len(stack) /\ (Len(stack) # 1 => Len(stack) - 1 \in 1..Len(stack))
  <2>1. ASSUME NEW k \in Nat, k # 0 PROVE k \in 1..k /\ (k # 1 => k - 1 \in 1..k)
    BY <2>1
  <2> QED
    BY <1>1, <2>1
<1>4. \A i \in 1..(Len(stack) - 1) : stack[i] \in Name
  BY <1>1, <1>2
<1>5. Len(stack) - 1 \in Int /\ 1 \in Int
  BY <1>1
<1>6. /\ SubSeq(stack, 1, Len(stack) - 1) \in Seq(Name)
      /\ Len(SubSeq(stack, 1, Len(stack) - 1)) =
           IF 1 <= Len(stack) - 1 THEN (Len(stack) - 1) - 1 + 1 ELSE 0
  BY ONLY <1>4, <1>5, SubSeqProperties
<1> QED
  BY <1>1, <1>2, <1>3, <1>6

(* The first check, the search and build() touch no table. *)
LEMMA OtherInv ==
  ASSUME BuilderTypeOK, KahnInv, CheckDeps \/ Dfs \/ Build \/ Finished \/ UNCHANGED builderVars
  PROVE  KahnInv'
<1>1. UNCHANGED <<specs, kahnVars>>
  BY DEF CheckDeps, Dfs, DfsRoot, DfsDescend, DfsPass, DfsFound, DfsLeave, DfsEnd, Build, Finished, builderVars
<1>2. /\ OpenCounted => OpenCounted'
      /\ QueueReady => QueueReady'
      /\ PoppedReady => PoppedReady'
      /\ StuckUnpopped => StuckUnpopped'
      /\ Ids' = Ids /\ (DepsKnown' <=> DepsKnown)
  BY <1>1, TablesKept
<1>3. queue' = queue /\ popped' = popped /\ count' = count
  BY <1>1 DEF kahnVars
<1>4. CASE CheckDeps
  BY <1>2, <1>3, <1>4 DEF CheckDeps, KahnInv, Outcome, Judged, Refused, DepsKnown
<1>5. CASE Build
  BY <1>2, <1>3, <1>5 DEF Build, KahnInv, Outcome, Judged, Refused
<1>6. CASE Finished \/ UNCHANGED builderVars
  BY <1>2, <1>3, <1>6 DEF Finished, builderVars, dfsVars, KahnInv, Outcome, Judged, Refused
<1>7. CASE Dfs
  <2>1. /\ pc \in {"roots", "dfs"} /\ pc' \in {"roots", "dfs", "rejected"}
        /\ error' = error
    BY <1>7 DEF Dfs, DfsRoot, DfsDescend, DfsPass, DfsFound, DfsLeave, DfsEnd, Enter
  <2>2. pc' = "dfs" => stack' # <<>>
    <3>1. CASE \E n \in Name : DfsRoot(n) \/ DfsDescend(n)
      BY <3>1 DEF DfsRoot, DfsDescend, Enter, BuilderTypeOK
    <3>2. CASE \E n \in Name : DfsPass(n) \/ DfsFound(n)
      BY <3>2 DEF DfsPass, DfsFound, KahnInv, Outcome
    <3>3. CASE DfsEnd
      BY <3>3 DEF DfsEnd
    <3>4. CASE DfsLeave
      <4>1. stack \in Seq(Name) /\ stack # <<>> /\ Len(stack) \in Nat /\ Len(stack) # 0
        BY <3>4 DEF DfsLeave, KahnInv, Outcome, BuilderTypeOK
      <4>2. CASE Len(stack) = 1
        BY <3>4, <4>2 DEF DfsLeave
      <4>3. CASE Len(stack) # 1
        <5>1. Len(stack') = Len(stack) - 1
          BY <3>4, <4>1, StackPop DEF DfsLeave
        <5>2. Len(<<>>) = 0
          OBVIOUS
        <5> QED
          BY <4>1, <4>3, <5>1, <5>2
      <4> QED
        BY <4>2, <4>3
    <3> QED
      BY <1>7, <3>1, <3>2, <3>3, <3>4 DEF Dfs
  <2>3. error = "cycle" /\ queue = {} /\ popped # Ids /\ Judged
    BY <2>1 DEF KahnInv, Outcome, Refused, Judged
  <2>4. Outcome'
    BY <1>2, <1>3, <2>1, <2>2, <2>3 DEF Outcome, Refused
  <2> QED
    BY <1>2, <2>3, <2>4 DEF KahnInv
<1> QED
  BY <1>4, <1>5, <1>6, <1>7

-----------------------------------------------------------------------------
(* Types, given the invariant: only Pop and the search need it. *)
LEMMA TypeStep ==
  ASSUME BuilderTypeOK, KahnInv, [BuilderNext]_builderVars
  PROVE  BuilderTypeOK'
<1>1. CASE CheckDeps
  BY <1>1 DEF CheckDeps, BuilderTypeOK, kahnVars, dfsVars, graphVars
<1>2. CASE InitTables
  <2>1. \A n \in Name : Cardinality(Into(n)) \in Nat
    BY EdgeCounts DEF BuilderTypeOK
  <2>2. queue' \subseteq Name
    BY <1>2, ListFacts DEF InitTables, BuilderTypeOK
  <2> QED
    BY <1>2, <2>1, <2>2 DEF InitTables, BuilderTypeOK, dfsVars, graphVars
<1>3. ASSUME NEW m \in Name, Pop(m) PROVE BuilderTypeOK'
  <2>1. Judged
    BY <1>3 DEF Pop, Judged
  <2>2. \A n \in Name : degree'[n] \in Nat
    BY <1>3, <2>1, PopCloses
  <2>3. degree' \in [Name -> Nat]
    BY <1>3, <2>2 DEF Pop
  <2>4. queue' \subseteq Name
    BY <1>3, ListFacts DEF Pop, Downstream, BuilderTypeOK
  <2> QED
    BY <1>3, <2>3, <2>4 DEF Pop, BuilderTypeOK, dfsVars, graphVars
<1>4. CASE CountVisited
  BY <1>4 DEF CountVisited, BuilderTypeOK, kahnVars, dfsVars, graphVars
<1>5. CASE Build
  <2>1. \A n \in Name : Cardinality(Into(n)) \in Nat
    BY EdgeCounts DEF BuilderTypeOK
  <2>2. nodes' \subseteq Name
    BY <1>5, ListFacts DEF Build, BuilderTypeOK
  <2> QED
    BY <1>5, <2>1, <2>2 DEF Build, BuilderTypeOK, kahnVars, dfsVars
<1>6. CASE Dfs
  <2>1. \A n \in Name : Downstream(n) \subseteq Name
    BY ListFacts DEF Downstream, BuilderTypeOK
  <2>2. ASSUME NEW n \in Name, DfsRoot(n) \/ DfsDescend(n) PROVE BuilderTypeOK'
    <3>1. Enter(n) /\ UNCHANGED <<specs, error, kahnVars, graphVars>>
      BY <2>2 DEF DfsRoot, DfsDescend
    <3>2. stack' \in Seq(Name)
      BY <3>1, AppendProperties DEF Enter, BuilderTypeOK
    <3>3. color' \in [Name -> 0..2]
      BY <3>1 DEF Enter, BuilderTypeOK
    <3>4. left' \in [Name -> SUBSET Name]
      BY <2>1, <3>1 DEF Enter, BuilderTypeOK
    <3>5. pc' = "dfs" /\ cycle' = cycle
      BY <3>1 DEF Enter
    <3> QED
      BY <3>1, <3>2, <3>3, <3>4, <3>5 DEF BuilderTypeOK, kahnVars, graphVars
  <2>3. ASSUME NEW n \in Name, DfsPass(n) PROVE BuilderTypeOK'
    BY <2>3 DEF DfsPass, BuilderTypeOK, kahnVars, graphVars
  <2>4. ASSUME NEW n \in Name, DfsFound(n) PROVE BuilderTypeOK'
    <3>1. cycle' \in Seq(Name)
      <4>1. PICK i \in DOMAIN stack : cycle' = SubSeq(stack, i, Len(stack))
        BY <2>4 DEF DfsFound
      <4>2. stack \in Seq(Name)
        BY DEF BuilderTypeOK
      <4>3. DOMAIN stack = 1..Len(stack) /\ Len(stack) \in Nat
        BY ONLY <4>2, LenProperties
      <4>4. \A k \in i..Len(stack) : k \in 1..Len(stack)
        BY ONLY <4>1, <4>3
      <4>5. \A k \in i..Len(stack) : stack[k] \in Name
        BY ONLY <4>2, <4>4, ElementOfSeq
      <4>6. i \in Int /\ Len(stack) \in Int
        BY ONLY <4>1, <4>3
      <4> QED
        BY ONLY <4>1, <4>5, <4>6, SubSeqProperties
    <3> QED
      BY <2>4, <3>1 DEF DfsFound, BuilderTypeOK, kahnVars, graphVars
  <2>5. CASE DfsLeave
    <3>1. stack \in Seq(Name) /\ stack # <<>> /\ Len(stack) \in Nat /\ Len(stack) # 0
      BY <2>5 DEF DfsLeave, KahnInv, Outcome, BuilderTypeOK
    <3>2. stack' \in Seq(Name)
      BY <2>5, <3>1, StackPop DEF DfsLeave
    <3>3. Top \in Name /\ (Len(stack) # 1 => stack[Len(stack) - 1] \in Name)
      BY <3>1, StackPop DEF Top
    <3>4. left' \in [Name -> SUBSET Name] /\ color' \in [Name -> 0..2]
      <4>1. color' \in [Name -> 0..2]
        BY <2>5, <3>3 DEF DfsLeave, BuilderTypeOK
      <4>2. CASE Len(stack) = 1
        BY <2>5, <4>1, <4>2 DEF DfsLeave, BuilderTypeOK
      <4>3. CASE Len(stack) # 1
        <5>1. left' = [left EXCEPT ![stack[Len(stack) - 1]] = @ \ {Top}]
          BY <2>5, <4>3 DEF DfsLeave
        <5> QED
          BY <3>3, <4>1, <4>3, <5>1 DEF BuilderTypeOK
      <4> QED
        BY <4>2, <4>3
    <3> QED
      BY <2>5, <3>2, <3>4 DEF DfsLeave, BuilderTypeOK, kahnVars, graphVars
  <2>6. CASE DfsEnd
    BY <2>6 DEF DfsEnd, BuilderTypeOK, kahnVars, dfsVars, graphVars
  <2> QED
    BY <1>6, <2>2, <2>3, <2>4, <2>5, <2>6 DEF Dfs
<1>7. CASE Finished \/ UNCHANGED builderVars
  BY <1>7 DEF Finished, builderVars, BuilderTypeOK, kahnVars, dfsVars, graphVars
<1> QED
  BY <1>1, <1>2, <1>3, <1>4, <1>5, <1>6, <1>7 DEF BuilderNext

(* The inductive invariant of validate and build. *)
THEOREM BuilderInvariance == BuilderSpec => [](BuilderTypeOK /\ KahnInv)
<1>1. BuilderInit => BuilderTypeOK /\ KahnInv
  BY InitInv
<1>2. BuilderTypeOK /\ KahnInv /\ [BuilderNext]_builderVars => BuilderTypeOK' /\ KahnInv'
  <2> SUFFICES ASSUME BuilderTypeOK, KahnInv, [BuilderNext]_builderVars PROVE BuilderTypeOK' /\ KahnInv'
    OBVIOUS
  <2>1. BuilderTypeOK'
    BY TypeStep
  <2>2. KahnInv'
    BY PopInv, TablesInv, KahnCountInv, OtherInv DEF BuilderNext
  <2> QED
    BY <2>1, <2>2
<1> QED
  BY <1>1, <1>2, PTL DEF BuilderSpec

(* Every reachable state is well typed: no indegree becomes negative. *)
THEOREM BuilderTypeCorrect == BuilderSpec => []BuilderTypeOK
<1> QED
  BY BuilderInvariance, PTL

(* The invariant decides: whatever the state of validate(), a list that is *)
(* past the count has known dependencies and no cycle, or is refused.      *)
LEMMA DagsAccepted ==
  ASSUME BuilderTypeOK, KahnInv
  PROVE  AcceptsExactlyDags
<1>1. specs \in Seq(TaskSpec) /\ Ids \subseteq Name
  BY ListFacts DEF BuilderTypeOK
<1>2. ASSUME pc \in {"build", "built"} PROVE DepsKnown /\ CycleFree
  <2>1. popped = Ids /\ PoppedReady /\ StuckUnpopped
    BY <1>2 DEF KahnInv, Judged, Outcome
  <2>2. DepsKnown
    <3> SUFFICES ASSUME NEW e \in Edges PROVE From(e) \in Ids
      BY DEF DepsKnown
    <3>1. To(e) \in Ids /\ e \in Into(To(e))
      BY <1>1, ListFacts DEF Into
    <3> QED
      BY <2>1, <3>1 DEF PoppedReady, Open
  <2>3. CycleFree
    BY <2>1 DEF CycleFree, StuckUnpopped
  <2> QED
    BY <2>2, <2>3
<1>3. ASSUME pc \in {"roots", "dfs", "rejected"}, DepsKnown, CycleFree PROVE FALSE
  <2>1. Refused /\ queue = {} /\ popped # Ids
    BY <1>3 DEF KahnInv, Outcome, Refused
  <2>2. QueueReady /\ PoppedReady
    BY <2>1 DEF KahnInv, Judged
  <2> DEFINE S == Ids \ popped
  <2>3. S # {} /\ S \in SUBSET Ids
    BY <2>1, <2>2 DEF PoppedReady
  <2>4. PICK n \in S : \A m \in S : Between(m, n) = {}
    BY <1>3, <2>3 DEF CycleFree, HasSource
  <2>5. PICK e \in Open(n) : TRUE
    BY <2>1, <2>2 DEF QueueReady
  <2>6. From(e) \in S /\ e \in Between(From(e), n)
    BY <1>3, <2>5 DEF Open, Into, Between, DepsKnown
  <2> QED
    BY <2>4, <2>6
<1> QED
  BY <1>2, <1>3 DEF AcceptsExactlyDags

(* For every task list, validate() lets exactly those through whose        *)
(* dependencies are all known and have no cycle.                           *)
THEOREM AcceptsExactlyDagsCorrect == BuilderSpec => []AcceptsExactlyDags
<1>1. BuilderTypeOK /\ KahnInv => AcceptsExactlyDags
  BY DagsAccepted
<1> QED
  BY <1>1, BuilderInvariance, PTL

(* The graph that is executed has the tasks of the list as its nodes. *)
THEOREM BuiltFromTasksCorrect == BuilderSpec => []BuiltFromTasks
<1> DEFINE I == BuilderTypeOK /\ KahnInv /\ BuiltFromTasks
<1>1. BuilderInit => BuiltFromTasks
  BY DEF BuilderInit, BuiltFromTasks
<1>2. ASSUME BuilderTypeOK, KahnInv, BuiltFromTasks, [BuilderNext]_builderVars PROVE BuiltFromTasks'
  <2>1. CASE Build
    <3>1. popped = Ids /\ PoppedReady /\ specs' = specs /\ nodes' = Ids \cup {From(e) : e \in Edges}
      BY <1>2, <2>1 DEF Build, KahnInv, Judged, Outcome
    <3>2. \A e \in Edges : From(e) \in Ids
      <4> SUFFICES ASSUME NEW e \in Edges PROVE From(e) \in Ids
        OBVIOUS
      <4>1. To(e) \in Ids /\ e \in Into(To(e))
        BY <1>2, ListFacts DEF Into, BuilderTypeOK
      <4> QED
        BY <3>1, <4>1 DEF PoppedReady, Open
    <3>3. Ids' = Ids
      BY <3>1 DEF Ids
    <3> QED
      BY <3>1, <3>2, <3>3 DEF BuiltFromTasks
  <2>2. CASE Finished \/ UNCHANGED builderVars
    BY <1>2, <2>2 DEF Finished, builderVars, graphVars, BuiltFromTasks, Ids
  <2>3. CASE CheckDeps \/ InitTables \/ (\E m \in Name : Pop(m)) \/ CountVisited \/ Dfs
    <3>1. pc' # "built"
      BY <2>3 DEF CheckDeps, InitTables, Pop, CountVisited, Dfs, DfsRoot, DfsDescend, DfsPass,
                  DfsFound, DfsLeave, DfsEnd, Enter
    <3> QED
      BY <3>1 DEF BuiltFromTasks
  <2> QED
    BY <1>2, <2>1, <2>2, <2>3 DEF BuilderNext
<1> QED
  BY <1>1, <1>2, BuilderInvariance, PTL DEF BuilderSpec

-----------------------------------------------------------------------------
(***************************************************************************)
(* The depth-first search.                                                 *)
(***************************************************************************)
(* The types the steps of the search use, and the stack as a function. *)
LEMMA SearchTypes ==
  ASSUME BuilderTypeOK
  PROVE  /\ specs \in Seq(TaskSpec)
         /\ color \in [Name -> 0..2]
         /\ left \in [Name -> SUBSET Name]
         /\ stack \in Seq(Name)
         /\ Len(stack) \in Nat /\ DOMAIN stack = 1..Len(stack)
         /\ \A i \in 1..Len(stack) : stack[i] \in Name
         /\ stack = <<>> <=> Len(stack) = 0
         /\ stack # <<>> => Top \in Name /\ Len(stack) \in 1..Len(stack)
<1>1. stack \in Seq(Name)
  BY DEF BuilderTypeOK
<1>2. Len(stack) \in Nat /\ DOMAIN stack = 1..Len(stack)
  BY ONLY <1>1, LenProperties
<1>3. \A i \in 1..Len(stack) : stack[i] \in Name
  BY ONLY <1>1, <1>2, ElementOfSeq
<1>4. stack = <<>> <=> Len(stack) = 0
  BY ONLY <1>1, EmptySeq
<1>5. stack # <<>> => Len(stack) \in 1..Len(stack)
  BY <1>2, <1>4
<1> QED
  BY <1>1, <1>2, <1>3, <1>4, <1>5 DEF BuilderTypeOK, Top

(* The edges are those of the list, which no step changes. *)
LEMMA GraphKept ==
  ASSUME specs' = specs
  PROVE  /\ \A m : Downstream(m)' = Downstream(m)
         /\ \A m, n : Between(m, n)' = Between(m, n)
         /\ \A S : HasSource(S)' <=> HasSource(S)
         /\ DepsKnown' <=> DepsKnown
         /\ Ids' = Ids
<1>1. Edges' = Edges /\ Ids' = Ids
  BY DEF Edges, Ids
<1>2. \A e : From(e)' = From(e) /\ To(e)' = To(e)
  BY DEF From, To
<1>3. \A m, n : Between(m, n)' = Between(m, n)
  BY <1>1, <1>2 DEF Between
<1>4. \A m : Downstream(m)' = Downstream(m)
  BY <1>1, <1>2 DEF Downstream
<1> QED
  BY <1>1, <1>2, <1>3, <1>4 DEF HasSource, DepsKnown

LEMMA DownstreamEdge ==
  ASSUME NEW m, NEW n
  PROVE  n \in Downstream(m) <=> Between(m, n) # {}
BY DEF Downstream, Between

(* The search goes down to n, from the node on top or from no node. *)
LEMMA EnterSearch ==
  ASSUME BuilderTypeOK, PathInv, DoneInv, NEW n \in Name, color[n] = 0, Enter(n), specs' = specs,
         stack # <<>> => n \in left[Top]
  PROVE  PathInv' /\ DoneInv'
<1>0. /\ color \in [Name -> 0..2] /\ left \in [Name -> SUBSET Name]
      /\ Len(stack) \in Nat /\ DOMAIN stack = 1..Len(stack) /\ stack \in Seq(Name)
      /\ \A i \in 1..Len(stack) : stack[i] \in Name
      /\ stack = <<>> <=> Len(stack) = 0
  BY SearchTypes
<1>1. /\ color' = [color EXCEPT ![n] = 1] /\ left' = [left EXCEPT ![n] = Downstream(n)]
      /\ pc' = "dfs" /\ stack' = Append(stack, n)
  BY DEF Enter
<1>2. /\ DOMAIN stack' = 1..(Len(stack) + 1) /\ Len(stack') = Len(stack) + 1
      /\ stack'[Len(stack) + 1] = n
      /\ \A i \in 1..Len(stack) : stack'[i] = stack[i]
  BY ONLY <1>0, <1>1, AppendProperties
<1>3. \A i \in 1..Len(stack) : stack[i] # n
  BY <1>0 DEF PathInv, OnStack
<1>4. \A m \in Name : color'[m] = 1 <=> OnStack(m)'
  <2> SUFFICES ASSUME NEW m \in Name PROVE color'[m] = 1 <=> OnStack(m)'
    OBVIOUS
  <2>1. color[m] = 1 <=> \E i \in 1..Len(stack) : stack[i] = m
    BY <1>0 DEF PathInv, OnStack
  <2>2. \A i \in 1..(Len(stack) + 1) : i \in 1..Len(stack) \/ i = Len(stack) + 1
    BY <1>0
  <2>3. \A i \in 1..Len(stack) : i \in 1..(Len(stack) + 1)
    BY <1>0
  <2>4. Len(stack) + 1 \in 1..(Len(stack) + 1)
    BY <1>0
  <2>5. OnStack(m)' <=> m = n \/ \E i \in 1..Len(stack) : stack[i] = m
    BY <1>2, <2>2, <2>3, <2>4 DEF OnStack
  <2> QED
    BY <1>0, <1>1, <2>1, <2>5
<1>5. \A i, j \in DOMAIN stack' : stack'[i] = stack'[j] => i = j
  BY <1>0, <1>2, <1>3 DEF PathInv
<1>6. ASSUME NEW i \in DOMAIN stack', i < Len(stack') PROVE stack'[i + 1] \in left'[stack'[i]]
  <2>1. i \in 1..Len(stack) /\ stack'[i] = stack[i]
    BY <1>0, <1>2, <1>6
  <2>2. left'[stack[i]] = left[stack[i]]
    BY <1>0, <1>1, <1>3, <2>1
  <2>3. CASE i = Len(stack)
    BY <1>0, <1>2, <2>1, <2>2, <2>3 DEF Top
  <2>4. CASE i # Len(stack)
    <3>1. i < Len(stack) /\ i + 1 \in 1..Len(stack)
      BY <1>0, <2>1, <2>4
    <3> QED
      BY <1>0, <1>2, <2>1, <2>2, <3>1 DEF PathInv
  <2> QED
    BY <2>3, <2>4
<1>7. \A m \in Name : left'[m] \subseteq Downstream(m)'
  BY <1>0, <1>1, GraphKept DEF PathInv
<1>8. PathInv'
  BY <1>1, <1>4, <1>5, <1>6, <1>7 DEF PathInv
<1>9. Done' = Done
  BY <1>0, <1>1 DEF Done
<1>10. DoneInv'
  <2>1. \A m \in Name : color'[m] = 1 => Downstream(m) \subseteq Done \cup left'[m]
    BY <1>0, <1>1 DEF DoneInv
  <2> QED
    BY <1>9, <2>1, GraphKept DEF DoneInv
<1> QED
  BY <1>8, <1>10

(* A downstream node that is finished already is taken off the list. *)
LEMMA PassSearch ==
  ASSUME BuilderTypeOK, PathInv, DoneInv, stack # <<>>, NEW t \in Name, DfsPass(t)
  PROVE  PathInv' /\ DoneInv'
<1>0. /\ color \in [Name -> 0..2] /\ left \in [Name -> SUBSET Name]
      /\ Len(stack) \in Nat /\ DOMAIN stack = 1..Len(stack)
      /\ \A i \in 1..Len(stack) : stack[i] \in Name
      /\ Top \in Name /\ Len(stack) \in 1..Len(stack)
  BY SearchTypes
<1>1. /\ left' = [left EXCEPT ![Top] = left[Top] \ {t}] /\ t \in Done
      /\ UNCHANGED <<specs, pc, color, stack>> /\ pc = "dfs"
  BY DEF DfsPass, Done
<1>2. Done' = Done /\ \A m : OnStack(m)' <=> OnStack(m)
  BY <1>1 DEF Done, OnStack
<1>3. ASSUME NEW i \in DOMAIN stack', i < Len(stack') PROVE stack'[i + 1] \in left'[stack'[i]]
  <2>1. i \in 1..Len(stack) /\ i < Len(stack) /\ stack[i + 1] \in left[stack[i]]
    BY <1>0, <1>1, <1>3 DEF PathInv
  <2>2. stack[i] # Top
    BY <1>0, <2>1 DEF PathInv, Top
  <2> QED
    BY <1>0, <1>1, <2>1, <2>2
<1>4. \A m \in Name : left'[m] \subseteq Downstream(m)'
  <2>1. \A m \in Name : left'[m] \subseteq left[m]
    BY <1>0, <1>1
  <2> QED
    BY <1>1, <2>1, GraphKept DEF PathInv
<1>5. PathInv'
  BY <1>1, <1>2, <1>3, <1>4 DEF PathInv
<1>6. DoneInv'
  <2>1. \A m \in Name : color'[m] = 1 => Downstream(m) \subseteq Done \cup left'[m]
    <3>1. \A m \in Name : left[m] \subseteq Done \cup left'[m]
      BY <1>0, <1>1
    <3> QED
      BY <1>1, <3>1 DEF DoneInv
  <2> QED
    BY <1>1, <1>2, <2>1, GraphKept DEF DoneInv
<1> QED
  BY <1>5, <1>6

(* The node on top is finished: it has no way back to a finished node, so  *)
(* in a set of finished nodes that holds it, it is a source.               *)
LEMMA LeaveSearch ==
  ASSUME BuilderTypeOK, PathInv, DoneInv, stack # <<>>, DfsLeave
  PROVE  PathInv' /\ DoneInv'
<1>0. /\ color \in [Name -> 0..2] /\ left \in [Name -> SUBSET Name]
      /\ Len(stack) \in Nat /\ DOMAIN stack = 1..Len(stack) /\ stack \in Seq(Name)
      /\ \A i \in 1..Len(stack) : stack[i] \in Name
      /\ Top \in Name /\ Len(stack) \in 1..Len(stack)
  BY SearchTypes
<1> DEFINE last == Len(stack)
<1>1. /\ color' = [color EXCEPT ![Top] = 2] /\ left[Top] = {} /\ specs' = specs
      /\ stack' = SubSeq(stack, 1, last - 1)
      /\ left' = IF last = 1 THEN left ELSE [left EXCEPT ![stack[last - 1]] = @ \ {Top}]
      /\ pc' = IF last = 1 THEN "roots" ELSE "dfs"
  BY DEF DfsLeave
<1>2. /\ DOMAIN stack' = 1..(last - 1) /\ Len(stack') = last - 1
      /\ \A i \in 1..(last - 1) : stack'[i] = stack[i]
      /\ stack' \in Seq(Name)
  <2>1. \A i \in 1..(last - 1) : stack[i] \in Name
    BY <1>0
  <2>2. last - 1 \in Int /\ 1 \in Int
    BY <1>0
  <2>3. /\ SubSeq(stack, 1, last - 1) \in Seq(Name)
        /\ Len(SubSeq(stack, 1, last - 1)) = IF 1 <= last - 1 THEN (last - 1) - 1 + 1 ELSE 0
        /\ \A i \in 1..((last - 1) - 1 + 1) : SubSeq(stack, 1, last - 1)[i] = stack[1 + i - 1]
    BY ONLY <2>1, <2>2, SubSeqProperties
  <2>4. Len(stack') = last - 1
    BY <1>0, <1>1, <2>3
  <2>5. DOMAIN stack' = 1..(last - 1)
    BY ONLY <1>1, <2>3, <2>4, LenProperties
  <2>6. \A i \in 1..(last - 1) : stack'[i] = stack[i]
    BY <1>0, <1>1, <2>3
  <2> QED
    BY <1>1, <2>3, <2>4, <2>5, <2>6
<1>3. \A i \in 1..(last - 1) : i \in 1..last /\ stack[i] # Top
  BY <1>0 DEF PathInv, Top
<1>4. color[Top] = 1 /\ Top \notin Done
  BY <1>0 DEF PathInv, OnStack, Top, Done
<1>5. Done' = Done \cup {Top}
  BY <1>0, <1>1 DEF Done
<1>6. \A m \in Name : color'[m] = 1 <=> OnStack(m)'
  <2> SUFFICES ASSUME NEW m \in Name PROVE color'[m] = 1 <=> OnStack(m)'
    OBVIOUS
  <2>1. color[m] = 1 <=> \E i \in 1..last : stack[i] = m
    BY <1>0 DEF PathInv, OnStack
  <2>2. \A i \in 1..last : i \in 1..(last - 1) \/ i = last
    <3>1. \A k \in Nat : \A i \in 1..k : i \in 1..(k - 1) \/ i = k
      OBVIOUS
    <3> QED
      BY <1>0, <3>1
  <2>3. OnStack(m)' <=> \E i \in 1..(last - 1) : stack[i] = m
    BY <1>2 DEF OnStack
  <2>4. CASE m = Top
    BY <1>0, <1>1, <1>3, <2>3, <2>4
  <2>5. CASE m # Top
    <3>1. color'[m] = color[m]
      BY <1>0, <1>1, <2>5
    <3>2. \A i \in 1..last : stack[i] = m => i \in 1..(last - 1)
      BY <2>2, <2>5 DEF Top
    <3> QED
      BY <1>3, <2>1, <2>3, <3>1, <3>2
  <2> QED
    BY <2>4, <2>5
<1>7. \A i, j \in DOMAIN stack' : stack'[i] = stack'[j] => i = j
  BY <1>0, <1>2, <1>3 DEF PathInv
<1>8. /\ \A m \in Name : left'[m] \subseteq left[m] /\ left[m] \subseteq left'[m] \cup {Top}
      /\ last # 1 => \A m \in Name : m # stack[last - 1] => left'[m] = left[m]
  <2>1. CASE last = 1
    BY <1>1, <2>1
  <2>2. CASE last # 1
    <3>1. left' = [left EXCEPT ![stack[last - 1]] = @ \ {Top}]
      BY <1>1, <2>2
    <3>2. last - 1 \in 1..last
      BY <1>0, <2>2
    <3>3. stack[last - 1] \in Name
      BY <1>0, <3>2
    <3> QED
      BY <1>0, <2>2, <3>1, <3>3
  <2> QED
    BY <2>1, <2>2
<1>9. ASSUME NEW i \in DOMAIN stack', i < Len(stack') PROVE stack'[i + 1] \in left'[stack'[i]]
  <2>1. /\ i \in 1..last /\ i + 1 \in 1..(last - 1) /\ i \in 1..(last - 1) /\ i < last
        /\ last # 1 /\ last - 1 \in 1..last /\ i # last - 1
    BY <1>0, <1>2, <1>9
  <2>2. stack[i + 1] \in left[stack[i]]
    BY <1>0, <2>1 DEF PathInv
  <2>3. stack[i] # stack[last - 1] /\ stack[i] \in Name
    BY <1>0, <2>1 DEF PathInv
  <2> QED
    BY <1>2, <1>8, <2>1, <2>2, <2>3
<1>10. pc' \notin {"dfs", "rejected"} => stack' = <<>>
  <2>1. ASSUME last = 1 PROVE stack' = <<>>
    <3>1. Len(stack') = 0
      BY <1>2, <2>1
    <3> QED
      BY ONLY <1>2, <3>1, EmptySeq
  <2> QED
    BY <1>1, <2>1
<1>11. PathInv'
  <2>1. \A m \in Name : left'[m] \subseteq Downstream(m)'
    BY <1>1, <1>8, GraphKept DEF PathInv
  <2> QED
    BY <1>6, <1>7, <1>9, <1>10, <2>1 DEF PathInv
<1>12. Downstream(Top) \subseteq Done
  BY <1>0, <1>1, <1>4 DEF DoneInv
<1>13. \A m \in Done' : Downstream(m)' \subseteq Done'
  BY <1>1, <1>5, <1>12, GraphKept DEF DoneInv
<1>14. \A m \in Name : color'[m] = 1 => Downstream(m)' \subseteq Done' \cup left'[m]
  <2> SUFFICES ASSUME NEW m \in Name, color'[m] = 1
               PROVE  Downstream(m) \subseteq Done \cup {Top} \cup left'[m]
    BY <1>1, <1>5, GraphKept
  <2>1. color[m] = 1
    BY <1>0, <1>1
  <2>2. Downstream(m) \subseteq Done \cup left[m]
    BY <2>1 DEF DoneInv
  <2> QED
    BY <1>8, <2>2
<1>15. ASSUME NEW S \in SUBSET Done', S # {} PROVE HasSource(S)'
  <2>1. CASE Top \in S
    <3>1. ASSUME NEW m \in S PROVE Between(m, Top) = {}
      <4>1. Downstream(m) \subseteq Done
        BY <1>5, <1>12, <3>1 DEF DoneInv
      <4> QED
        BY <1>4, <4>1, DownstreamEdge
    <3> QED
      BY <1>1, <2>1, <3>1, GraphKept DEF HasSource
  <2>2. CASE Top \notin S
    BY <1>1, <1>5, <1>15, <2>2, GraphKept DEF DoneInv
  <2> QED
    BY <2>1, <2>2
<1>16. DoneInv'
  BY <1>13, <1>14, <1>15 DEF DoneInv
<1> QED
  BY <1>11, <1>16

(* The part of the path from t to the top, which has an edge back to t, is *)
(* a cycle.                                                                *)
LEMMA FoundCycle ==
  ASSUME BuilderTypeOK, PathInv, stack # <<>>, NEW t \in Name, DfsFound(t)
  PROVE  CycleIsReal'
<1>0. /\ left \in [Name -> SUBSET Name]
      /\ Len(stack) \in Nat /\ DOMAIN stack = 1..Len(stack)
      /\ \A i \in 1..Len(stack) : stack[i] \in Name
      /\ Top \in Name /\ Len(stack) \in 1..Len(stack)
  BY SearchTypes
<1> DEFINE last == Len(stack)
<1>1. PICK i \in 1..last : stack[i] = t /\ cycle' = SubSeq(stack, i, last)
  BY <1>0 DEF DfsFound
<1>2. specs' = specs /\ t \in left[Top]
  BY DEF DfsFound
<1>3. /\ cycle' \in Seq(Name) /\ Len(cycle') = last - i + 1
      /\ DOMAIN cycle' = 1..(last - i + 1)
      /\ \A j \in 1..(last - i + 1) : cycle'[j] = stack[i + j - 1]
  <2>1. \A k \in i..last : stack[k] \in Name
    BY <1>0
  <2>2. i \in Int /\ last \in Int /\ i <= last
    BY <1>0
  <2>3. /\ SubSeq(stack, i, last) \in Seq(Name)
        /\ Len(SubSeq(stack, i, last)) = IF i <= last THEN last - i + 1 ELSE 0
        /\ \A j \in 1..(last - i + 1) : SubSeq(stack, i, last)[j] = stack[i + j - 1]
    BY ONLY <2>1, <2>2, SubSeqProperties
  <2>4. cycle' \in Seq(Name) /\ Len(cycle') = last - i + 1
    BY <1>1, <2>2, <2>3
  <2>5. DOMAIN cycle' = 1..(last - i + 1)
    BY ONLY <2>4, LenProperties
  <2> QED
    BY <1>1, <2>3, <2>4, <2>5
<1>4. cycle' # <<>>
  <2>1. Len(cycle') # 0
    BY <1>0, <1>3
  <2> QED
    BY ONLY <1>3, <2>1, EmptySeq
<1>5. ASSUME NEW j \in DOMAIN cycle'
      PROVE  Between(cycle'[j], cycle'[IF j = Len(cycle') THEN 1 ELSE j + 1]) # {}
  <2>1. /\ j \in 1..(last - i + 1) /\ i + j - 1 \in 1..last
        /\ cycle'[j] = stack[i + j - 1]
    BY <1>0, <1>3
  <2>2. left[stack[i + j - 1]] \subseteq Downstream(stack[i + j - 1])
    BY <1>0, <2>1 DEF PathInv
  <2>3. CASE j = Len(cycle')
    <3>1. i + j - 1 = last /\ 1 \in 1..(last - i + 1) /\ i + 1 - 1 = i
      BY <1>0, <1>3, <2>3
    <3>2. cycle'[1] = t /\ cycle'[j] = Top
      BY <1>1, <1>3, <2>1, <3>1 DEF Top
    <3>3. t \in Downstream(Top)
      BY <1>0, <1>2 DEF PathInv
    <3> QED
      BY <2>3, <3>2, <3>3, DownstreamEdge
  <2>4. CASE j # Len(cycle')
    <3>1. /\ i + j - 1 < last /\ j + 1 \in 1..(last - i + 1)
          /\ i + (j + 1) - 1 = (i + j - 1) + 1
      BY <1>0, <1>3, <2>1, <2>4
    <3>2. cycle'[j + 1] = stack[(i + j - 1) + 1]
      BY <1>3, <3>1
    <3>3. stack[(i + j - 1) + 1] \in left[stack[i + j - 1]]
      BY <1>0, <2>1, <3>1 DEF PathInv
    <3>4. cycle'[j + 1] \in Downstream(cycle'[j])
      BY <2>1, <2>2, <3>2, <3>3
    <3> QED
      BY <2>4, <3>4, DownstreamEdge
  <2> QED
    BY <2>3, <2>4
<1> QED
  BY <1>2, <1>4, <1>5, GraphKept DEF CycleIsReal

(* A search that ends without a report has met every id, so that there is  *)
(* no cycle at all; the count then says that a dependency is unknown.      *)
LEMMA NothingFound ==
  ASSUME BuilderTypeOK, KahnInv, PathInv, DoneInv, DfsEnd
  PROVE  ~DepsKnown'
<1>1. stack = <<>> /\ pc = "roots" /\ specs' = specs /\ \A n \in Ids : color[n] # 0
  BY DEF DfsEnd, PathInv
<1>2. \A n \in Name : ~OnStack(n)
  BY <1>1, SearchTypes DEF OnStack
<1>3. Ids \subseteq Name /\ color \in [Name -> 0..2]
  BY SearchTypes, ListFacts
<1>4. \A n \in Ids : color[n] # 1
  BY <1>2, <1>3 DEF PathInv
<1>5. Ids \subseteq Done
  BY <1>1, <1>3, <1>4 DEF Done
<1>6. CycleFree
  BY <1>5 DEF CycleFree, DoneInv
<1>7. AcceptsExactlyDags
  BY DagsAccepted
<1> QED
  BY <1>1, <1>6, <1>7, GraphKept DEF AcceptsExactlyDags

LEMMA SearchStep ==
  ASSUME BuilderTypeOK, KahnInv, SearchInv, [BuilderNext]_builderVars
  PROVE  SearchInv'
<1> USE DEF SearchInv
<1>1. pc = "dfs" => stack # <<>>
  BY DEF KahnInv, Outcome
<1>2. CASE UNCHANGED <<specs, dfsVars>> /\ pc \notin {"dfs", "rejected"} /\ pc' # "rejected"
  <2>1. PathInv' /\ DoneInv'
    BY <1>2, GraphKept DEF dfsVars, PathInv, DoneInv, Done, OnStack
  <2> QED
    BY <1>2, <2>1 DEF CycleIsReal
<1>3. CASE CheckDeps
  <2>1. /\ UNCHANGED <<specs, dfsVars>> /\ pc = "deps"
        /\ pc' = "rejected" => error' = "missing"
    BY <1>3 DEF CheckDeps
  <2>2. PathInv' /\ DoneInv'
    BY <2>1, GraphKept DEF dfsVars, PathInv, DoneInv, Done, OnStack
  <2> QED
    BY <2>1, <2>2 DEF CycleIsReal
<1>4. ASSUME NEW n \in Name, DfsRoot(n) \/ DfsDescend(n) PROVE SearchInv'
  <2>1. color[n] = 0 /\ Enter(n) /\ specs' = specs /\ (stack # <<>> => n \in left[Top])
    BY <1>4 DEF DfsRoot, DfsDescend, PathInv
  <2>2. pc' = "dfs"
    BY <2>1 DEF Enter
  <2> QED
    BY <2>1, <2>2, EnterSearch DEF CycleIsReal
<1>5. ASSUME NEW n \in Name, DfsPass(n) PROVE SearchInv'
  <2>1. pc = "dfs" /\ pc' = "dfs"
    BY <1>5 DEF DfsPass
  <2> QED
    BY <1>1, <1>5, <2>1, PassSearch DEF CycleIsReal
<1>6. ASSUME NEW n \in Name, DfsFound(n) PROVE SearchInv'
  <2>1. /\ pc = "dfs" /\ pc' = "rejected" /\ UNCHANGED <<specs, color, stack, left>>
    BY <1>6 DEF DfsFound
  <2>2. PathInv' /\ DoneInv'
    BY <2>1, GraphKept DEF PathInv, DoneInv, Done, OnStack
  <2> QED
    BY <1>1, <1>6, <2>1, <2>2, FoundCycle
<1>7. CASE DfsLeave
  <2>1. pc = "dfs" /\ pc' # "rejected"
    BY <1>7 DEF DfsLeave
  <2> QED
    BY <1>1, <1>7, <2>1, LeaveSearch DEF CycleIsReal
<1>8. CASE DfsEnd
  <2>1. pc' = "rejected" /\ UNCHANGED <<specs, dfsVars>>
    BY <1>8 DEF DfsEnd
  <2>2. PathInv' /\ DoneInv'
    BY <2>1, GraphKept DEF dfsVars, PathInv, DoneInv, Done, OnStack
  <2> QED
    BY <1>8, <2>2, NothingFound DEF CycleIsReal
<1>9. CASE Finished \/ UNCHANGED builderVars
  <2>1. UNCHANGED <<specs, pc, error, dfsVars>>
    BY <1>9 DEF Finished, builderVars
  <2>2. PathInv' /\ DoneInv'
    BY <2>1, GraphKept DEF dfsVars, PathInv, DoneInv, Done, OnStack
  <2>3. CycleIsReal'
    BY <2>1, GraphKept DEF dfsVars, CycleIsReal
  <2> QED
    BY <2>2, <2>3
<1>10. CASE InitTables \/ (\E m \in Name : Pop(m)) \/ CountVisited \/ Build
  BY <1>2, <1>10 DEF InitTables, Pop, CountVisited, Build
<1> QED
  BY <1>3, <1>4, <1>5, <1>6, <1>7, <1>8, <1>9, <1>10 DEF BuilderNext, Dfs

(* What validate() reports with a rejected list whose dependencies are     *)
(* known is a cycle of it, from each node to the next and back again; in   *)
(* particular the search always finds one.                                 *)
THEOREM CycleIsRealCorrect == BuilderSpec => []CycleIsReal
<1>1. BuilderInit => SearchInv
  <2> SUFFICES ASSUME BuilderInit PROVE SearchInv
    OBVIOUS
  <2>1. stack = <<>> /\ pc = "deps" /\ \A n \in Name : color[n] = 0 /\ left[n] = {}
    BY DEF BuilderInit
  <2>2. DOMAIN stack = {}
    BY <2>1
  <2>3. Done = {}
    BY <2>1 DEF Done
  <2> QED
    BY <2>1, <2>2, <2>3 DEF SearchInv, PathInv, DoneInv, CycleIsReal, OnStack
<1>2. BuilderTypeOK /\ KahnInv /\ SearchInv /\ [BuilderNext]_builderVars => SearchInv'
  BY SearchStep
<1>3. SearchInv => CycleIsReal
  BY DEF SearchInv
<1> QED
  BY <1>1, <1>2, <1>3, BuilderInvariance, PTL DEF BuilderSpec

-----------------------------------------------------------------------------
(***************************************************************************)
(* The graph.                                                              *)
(***************************************************************************)

(* What a member of Configs looks like. *)
LEMMA ConfigFacts ==
  ASSUME cfg \in Configs
  PROVE  /\ cfg.down \in [Node -> Seq(Node)]
         /\ cfg.policy \in FailPolicy
         /\ cfg.maxParallel \in Int
         /\ cfg.inline \in BOOLEAN
         /\ Acyclic(cfg.down)
         /\ \A p \in Node : Down(p) \in Seq(Node) /\ Children(p) \subseteq Node
         /\ MaxParallel \in Nat \ {0}
<1>1. cfg \in Config /\ Acyclic(cfg.down)
  BY ConfigAssumption
<1>2. /\ cfg.down \in [Node -> Seq(Node)]
      /\ cfg.policy \in FailPolicy
      /\ cfg.maxParallel \in Int
      /\ cfg.inline \in BOOLEAN
  BY <1>1 DEF Config
<1>3. ASSUME NEW p \in Node PROVE Down(p) \in Seq(Node) /\ Children(p) \subseteq Node
  BY <1>2 DEF Down, Children, ChildrenIn
<1>4. MaxParallel \in Nat \ {0}
  BY <1>2 DEF MaxParallel
<1> QED
  BY <1>1, <1>2, <1>3, <1>4

(* The edges into n are the positions at which n is listed; they are       *)
(* finitely many, and n depends on p when one of them is in p's list.      *)
LEMMA EdgeFacts ==
  ASSUME cfg \in Configs, NEW n \in Node
  PROVE  /\ IsFiniteSet(InEdges(n))
         /\ \A e \in InEdges(n) : e = <<e[1], e[2]>> /\ e[1] \in Node /\ e[2] \in Nat
         /\ \A p \in Node, i \in Nat :
               <<p, i>> \in InEdges(n) <=> i \in 1..Len(Down(p)) /\ Down(p)[i] = n
         /\ \A p \in Node : p \in Deps(n) <=> \E i \in 1..Len(Down(p)) : Down(p)[i] = n
<1> DEFINE Pos(p) == {j \in DOMAIN Down(p) : Down(p)[j] = n}
           EdgesOf(p) == {<<p, i>> : i \in Pos(p)}
<1>1. \A p \in Node : DOMAIN Down(p) = 1..Len(Down(p)) /\ Len(Down(p)) \in Nat
  BY ConfigFacts
<1>2. ASSUME NEW p \in Node PROVE IsFiniteSet(EdgesOf(p))
  <2>1. IsFiniteSet(1..Len(Down(p)))
    BY <1>1, FS_Interval
  <2>2. IsFiniteSet({p} \X (1..Len(Down(p))))
    BY <2>1, FS_Singleton, FS_Product
  <2>3. EdgesOf(p) \subseteq {p} \X (1..Len(Down(p)))
    BY <1>1
  <2> QED
    BY <2>2, <2>3, FS_Subset
<1>3. IsFiniteSet({EdgesOf(p) : p \in Node})
  <2> DEFINE f == [p \in Node |-> EdgesOf(p)]
  <2>1. f \in Surjection(Node, {EdgesOf(p) : p \in Node})
    BY Zenon DEF Surjection
  <2> HIDE DEF f
  <2> QED
    BY <2>1, NodeAssumption, FS_Surjection
<1>4. IsFiniteSet(UNION {EdgesOf(p) : p \in Node})
  <2>1. \A T \in {EdgesOf(p) : p \in Node} : IsFiniteSet(T)
    BY <1>2
  <2> QED
    BY <1>3, <2>1, FS_UNION
<1>5. InEdges(n) = UNION {EdgesOf(p) : p \in Node}
  BY DEF InEdges
<1>6. \A p \in Node, i \in Nat :
         <<p, i>> \in InEdges(n) <=> i \in 1..Len(Down(p)) /\ Down(p)[i] = n
  BY <1>1, <1>5
<1>7. \A e \in InEdges(n) : e = <<e[1], e[2]>> /\ e[1] \in Node /\ e[2] \in Nat
  BY <1>1, <1>5
<1>8. \A p \in Node : p \in Deps(n) <=> \E i \in 1..Len(Down(p)) : Down(p)[i] = n
  BY <1>1 DEF Deps, Children, ChildrenIn, Down
<1> QED
  BY <1>4, <1>5, <1>6, <1>7, <1>8

-----------------------------------------------------------------------------
(***************************************************************************)
(* Initial types, and the shape of the steps.                              *)
(***************************************************************************)
LEMMA TypeInit == Init => TypeOK
<1> SUFFICES ASSUME Init PROVE TypeOK
  OBVIOUS
<1>1. cfg \in Configs
  BY DEF Init, RunInit
<1>2. indegree \in [Node -> Nat]
  <2>1. ASSUME NEW n \in Node PROVE Cardinality(InEdges(n)) \in Nat
    BY <1>1, EdgeFacts, FS_CardinalityType
  <2> QED
    BY <2>1 DEF Init
<1>3. /\ status \in [Node -> TaskStatus]
      /\ taskRun \in [Node -> TaskStatus]
      /\ verdict \in Verdict
  BY DEF Init, RunInit, TaskStatus, Verdict
<1>4. /\ readyQueue \in Seq(Node)
      /\ running \in Int
      /\ late \subseteq Node
      /\ mpc \in SchedPcs
      /\ cur \in Node \cup {NoNode}
  BY DEF Init, SchedPcs
<1>5. /\ wpc \in [Node -> JobPcs]
      /\ result \in [Node -> Outcomes \cup {"Pending"}]
      /\ idx \in [Node -> Nat]
      /\ toVisit \in [Node -> SUBSET Node]
      /\ visited \in [Node -> SUBSET Node]
      /\ skipping \in [Node -> Node \cup {NoNode}]
  BY DEF Init, JobPcs
<1>6. failed \in BOOLEAN
  BY DEF Init
<1> QED
  BY <1>1, <1>2, <1>3, <1>4, <1>5, <1>6 DEF TypeOK

(* The scheduler steps that only move the scheduler. *)
Quiet == \/ CheckCapacity \/ FilterStatus \/ FilterFailFast \/ RecheckStatus
         \/ InlineReturn \/ CheckEnd \/ WaitQueue \/ WaitRunning \/ WaitFailed
         \/ Block \/ SpuriousWake

(* They leave everything but mpc alone, and mpc is neither at a step that  *)
(* acts, nor does it get to "post" or "init".                              *)
LEMMA QuietFrame ==
  ASSUME Quiet
  PROVE  /\ UNCHANGED <<cfg, status, verdict, ctxVars, cur, jobVars>>
         /\ mpc \notin {"init", "pop", "start", "post", "verdict", "returned"}
         /\ mpc' \notin {"init", "post", "returned", "inline"}
         /\ mpc' \in SchedPcs
         /\ mpc' \in {"filter", "failfast", "recheck", "start"}
               => mpc \in {"filter", "failfast", "recheck"}
         /\ mpc' = "start" => status[cur] = "Pending"
BY DEF Quiet, CheckCapacity, FilterStatus, FilterFailFast, RecheckStatus, InlineReturn,
       CheckEnd, WaitQueue, WaitRunning, WaitFailed, Block, SpuriousWake, SchedGoto, SchedPcs

(* The shape of a step: quiet, one of the acting steps, or a stutter. *)
LEMMA StepCases ==
  ASSUME [Next]_vars
  PROVE  \/ Quiet \/ InitReadyQueue \/ PopReady \/ SetRunning \/ PostJob \/ ReturnVerdict
         \/ \E n \in Node : Job(n)
         \/ UNCHANGED vars
BY DEF Next, Scheduler, Quiet, Over

LEMMA HeadTail ==
  ASSUME NEW S, NEW q \in Seq(S), q # <<>>
  PROVE  /\ Head(q) \in S /\ Tail(q) \in Seq(S)
         /\ Len(q) \in Nat \ {0}
         /\ Head(q) = q[1]
         /\ Len(Tail(q)) = Len(q) - 1
         /\ \A i \in 1..Len(q) - 1 : Tail(q)[i] = q[i + 1]
OBVIOUS

LEMMA InitialQueue ==
  ASSUME TypeOK, InitReadyQueue
  PROVE  /\ readyQueue' \in Seq(Node)
         /\ \A n \in Node : indegree[n] = 0 <=> \E i \in DOMAIN readyQueue' : readyQueue'[i] = n
<1>1. IsFiniteSet(Roots) /\ Cardinality(Roots) \in Nat
  BY NodeAssumption, FS_Subset, FS_CardinalityType DEF Roots
<1>2. /\ readyQueue' \in [1..Cardinality(Roots) -> Roots]
      /\ \A i, j \in 1..Cardinality(Roots) : readyQueue'[i] = readyQueue'[j] => i = j
  BY DEF InitReadyQueue, Orders
<1>3. readyQueue' \in Seq(Node) /\ DOMAIN readyQueue' = 1..Cardinality(Roots)
  BY <1>1, <1>2 DEF Roots
<1>4. \A n \in Roots : \E i \in DOMAIN readyQueue' : readyQueue'[i] = n
  <2>1. readyQueue' \in Injection(1..Cardinality(Roots), Roots)
    BY <1>2 DEF Injection, IsInjective
  <2>2. Cardinality(1..Cardinality(Roots)) = Cardinality(Roots)
    BY <1>1, FS_Interval
  <2>3. readyQueue' \in Surjection(1..Cardinality(Roots), Roots)
    BY <1>1, <2>1, <2>2, FS_Injection
  <2> QED
    BY <1>3, <2>3 DEF Surjection
<1> QED
  BY <1>2, <1>3, <1>4 DEF Roots

-----------------------------------------------------------------------------
(***************************************************************************)
(* The core of the invariant: jobs, loops, counters, skips.                *)
(***************************************************************************)

(* The types the steps below use, without the rest of TypeOK. *)
LEMMA FunctionTypes ==
  ASSUME TypeOK
  PROVE  /\ status \in [Node -> TaskStatus]
         /\ wpc \in [Node -> JobPcs]
         /\ result \in [Node -> Outcomes \cup {"Pending"}]
         /\ idx \in [Node -> Nat]
         /\ indegree \in [Node -> Nat]
         /\ taskRun \in [Node -> TaskStatus]
         /\ toVisit \in [Node -> SUBSET Node]
         /\ visited \in [Node -> SUBSET Node]
         /\ skipping \in [Node -> Node \cup {NoNode}]
         /\ readyQueue \in Seq(Node)
         /\ running \in Int
BY DEF TypeOK

(* A node below an unsuccessful one has an open edge, so it is not ready   *)
(* and was never started: a traversal meets only unstarted nodes.          *)
LEMMA BelowUnsuccessful ==
  ASSUME TypeOK, LoopInv, CountInv, ReadyInv, NEW n \in Node, HasUnsuccessfulDep(n)
  PROVE  /\ OpenEdges(n) # {}
         /\ status[n] \in Unstarted
         /\ ~Ready(n)
<1>1. PICK p \in Deps(n) : p \in Node /\ status[p] \in Unsuccessful
  BY DEF HasUnsuccessfulDep, NodesIn
<1>2. PICK i \in 1..Len(Down(p)) : Down(p)[i] = n
  BY <1>1, EdgeFacts DEF TypeOK
<1>3. idx[p] = 1
  <2>1. status[p] # "Success" /\ idx[p] \in 1..(Len(Down(p)) + 1)
    BY <1>1 DEF LoopInv, Unsuccessful, FailureLike
  <2>2. Len(Down(p)) \in Nat
    BY <1>1, ConfigFacts DEF TypeOK
  <2> QED
    BY <1>1, <2>1, <2>2 DEF LoopInv
<1>4. <<p, i>> \in OpenEdges(n)
  <2>1. i \in Nat /\ i >= 1
    BY <1>1, <1>2, ConfigFacts DEF TypeOK
  <2>2. <<p, i>> \in InEdges(n)
    BY <1>1, <1>2, <2>1, EdgeFacts DEF TypeOK
  <2> QED
    BY <1>3, <2>1, <2>2 DEF OpenEdges
<1>5. indegree[n] # 0
  <2>1. IsFiniteSet(OpenEdges(n))
    BY EdgeFacts, FS_Subset DEF TypeOK, OpenEdges
  <2>2. Cardinality(OpenEdges(n)) # 0 /\ Cardinality(OpenEdges(n)) \in Nat
    BY <1>4, <2>1, FS_EmptySet, FS_CardinalityType
  <2> QED
    BY <2>2 DEF CountInv, TypeOK
<1> QED
  BY <1>4, <1>5 DEF ReadyInv

LEMMA UnstartedIdle ==
  ASSUME TypeOK, JobInv, NEW n \in Node, status[n] \in Unstarted
  PROVE  wpc[n] = "idle"
BY FunctionTypes, OutcomeAssumption DEF JobInv, Unstarted, FailureLike

LEMMA JobInvNext ==
  ASSUME CoreInv, [Next]_vars
  PROVE  JobInv'
<1> USE FunctionTypes DEF CoreInv
<1>1. CASE Quiet
  BY <1>1, QuietFrame DEF JobInv, jobVars
<1>2. CASE InitReadyQueue
  BY <1>2 DEF InitReadyQueue, JobInv, SchedGoto, jobVars
<1>3. CASE PopReady
  BY <1>3 DEF PopReady, JobInv, SchedGoto, jobVars
<1>4. CASE SetRunning
  <2>1. cur \in Node /\ wpc[cur] = "idle"
    BY <1>4, UnstartedIdle DEF SetRunning, ReadyInv, Unstarted
  <2> QED
    BY <1>4, <2>1 DEF SetRunning, JobInv, SchedGoto, jobVars
<1>5. CASE PostJob
  BY <1>5 DEF PostJob, JobInv, ReadyInv, SchedGoto
<1>6. CASE ReturnVerdict
  BY <1>6 DEF ReturnVerdict, JobInv, SchedGoto, jobVars
<1>7. ASSUME NEW n \in Node, Job(n) PROVE JobInv'
  <2> USE DEF JobInv, JobGoto, ctxVars, schedVars, jobVars
  <2>1. CASE RunNode(n)
    BY <2>1 DEF RunNode
  <2>2. CASE SetFinalStatus(n)
    BY <2>2, OutcomeAssumption DEF SetFinalStatus
  <2>3. CASE ReadChild(n)
    BY <2>3 DEF ReadChild
  <2>4. CASE DecrementIndegree(n)
    BY <2>4 DEF DecrementIndegree
  <2>5. CASE PushReady(n)
    BY <2>5 DEF PushReady
  <2>6. CASE MarkFailed(n)
    BY <2>6 DEF MarkFailed
  <2>7. CASE SkipNext(n)
    <3>1. PICK c \in toVisit[n] : status' = [status EXCEPT ![c] = "Skipped"]
      BY <2>7 DEF SkipNext
    <3>2. c \in Node /\ status[c] \in Unstarted
      BY <1>7, <3>1, BelowUnsuccessful DEF SkipInv
    <3>3. wpc[c] = "idle"
      BY <3>2, UnstartedIdle
    <3> QED
      BY <2>7, <3>1, <3>2, <3>3 DEF SkipNext, Unstarted
  <2>8. CASE SkipExpand(n)
    BY <2>8 DEF SkipExpand
  <2>9. CASE SkipDone(n)
    BY <2>9 DEF SkipDone
  <2>10. CASE DecrementRunning(n)
    BY <2>10 DEF DecrementRunning
  <2>11. CASE Notify(n)
    BY <2>11 DEF Notify, SchedGoto
  <2> QED
    BY <1>7, <2>1, <2>2, <2>3, <2>4, <2>5, <2>6, <2>7, <2>8, <2>9, <2>10, <2>11 DEF Job
<1>8. CASE UNCHANGED vars
  BY <1>8 DEF vars, JobInv, jobVars, schedVars
<1> QED
  BY <1>1, <1>2, <1>3, <1>4, <1>5, <1>6, <1>7, <1>8, StepCases

LEMMA LoopInvNext ==
  ASSUME CoreInv, [Next]_vars
  PROVE  LoopInv'
<1> USE FunctionTypes DEF CoreInv
<1>1. CASE Quiet
  BY <1>1, QuietFrame DEF LoopInv, Down, jobVars
<1>2. CASE InitReadyQueue
  BY <1>2 DEF InitReadyQueue, LoopInv, Down, jobVars
<1>3. CASE PopReady
  BY <1>3 DEF PopReady, LoopInv, Down, jobVars
<1>4. CASE SetRunning
  BY <1>4 DEF SetRunning, LoopInv, Down, ReadyInv, jobVars
<1>5. CASE PostJob
  BY <1>5 DEF PostJob, LoopInv, Down
<1>6. CASE ReturnVerdict
  BY <1>6 DEF ReturnVerdict, LoopInv, Down, jobVars
<1>7. ASSUME NEW n \in Node, Job(n) PROVE LoopInv'
  <2>0. Len(Down(n)) \in Nat
    BY <1>7, ConfigFacts DEF TypeOK
  <2> USE <2>0 DEF LoopInv, JobGoto, Down, ctxVars, schedVars, jobVars
  <2>1. CASE RunNode(n)
    BY <2>1 DEF RunNode
  <2>2. CASE SetFinalStatus(n)
    BY <2>2, OutcomeAssumption DEF SetFinalStatus, JobInv
  <2>3. CASE ReadChild(n)
    BY <2>3, SMTT(30) DEF ReadChild, JobInv
  <2>4. CASE DecrementIndegree(n)
    BY <2>4 DEF DecrementIndegree, JobInv
  <2>5. CASE PushReady(n)
    BY <2>5 DEF PushReady
  <2>6. CASE MarkFailed(n)
    <3>1. status[n] # "Success"
      BY <1>7, <2>6 DEF MarkFailed, JobInv, FailureLike
    <3> QED
      BY <2>6, <3>1 DEF MarkFailed
  <2>7. CASE SkipNext(n)
    <3>1. PICK c \in toVisit[n] : status' = [status EXCEPT ![c] = "Skipped"]
      BY <2>7 DEF SkipNext
    <3>2. c \in Node /\ status[c] \in Unstarted
      BY <1>7, <3>1, BelowUnsuccessful DEF SkipInv
    <3> QED
      BY <2>7, <3>1, <3>2 DEF SkipNext, Unstarted, FailureLike
  <2>8. CASE SkipExpand(n)
    BY <2>8 DEF SkipExpand
  <2>9. CASE SkipDone(n)
    BY <2>9 DEF SkipDone, JobInv, FailureLike
  <2>10. CASE DecrementRunning(n)
    BY <2>10 DEF DecrementRunning
  <2>11. CASE Notify(n)
    BY <2>11 DEF Notify, SchedGoto
  <2> QED
    BY <1>7, <2>1, <2>2, <2>3, <2>4, <2>5, <2>6, <2>7, <2>8, <2>9, <2>10, <2>11 DEF Job
<1>8. CASE UNCHANGED vars
  BY <1>8 DEF vars, LoopInv, Down, jobVars
<1> QED
  BY <1>1, <1>2, <1>3, <1>4, <1>5, <1>6, <1>7, <1>8, StepCases

(* No step changes the configuration or a terminal status. *)
LEMMA StatusStep ==
  ASSUME CoreInv, [Next]_vars
  PROVE  /\ cfg' = cfg
         /\ \A m \in Node : status[m] \in Terminal => status'[m] = status[m]
<1> USE FunctionTypes DEF CoreInv
<1> DEFINE Goal == /\ cfg' = cfg
                   /\ \A m \in Node : status[m] \in Terminal => status'[m] = status[m]
<1>1. CASE Quiet
  BY <1>1, QuietFrame
<1>2. CASE InitReadyQueue \/ PopReady \/ PostJob \/ ReturnVerdict
  BY <1>2 DEF InitReadyQueue, PopReady, PostJob, ReturnVerdict
<1>3. CASE SetRunning
  BY <1>3 DEF SetRunning, ReadyInv, Terminal, FailureLike
<1>4. ASSUME NEW n \in Node, Job(n) PROVE Goal
  <2>1. CASE SetFinalStatus(n)
    BY <2>1 DEF SetFinalStatus, JobInv, Terminal, FailureLike
  <2>2. CASE SkipNext(n)
    <3>1. PICK c \in toVisit[n] : status' = [status EXCEPT ![c] = "Skipped"]
      BY <2>2 DEF SkipNext
    <3>2. c \in Node /\ status[c] \in Unstarted
      BY <1>4, <3>1, BelowUnsuccessful DEF SkipInv
    <3> QED
      BY <2>2, <3>1, <3>2 DEF SkipNext, Unstarted, Terminal, FailureLike
  <2>3. CASE UNCHANGED <<cfg, status>>
    BY <2>3
  <2> QED
    BY <1>4, <2>1, <2>2, <2>3
    DEF Job, RunNode, ReadChild, DecrementIndegree, PushReady, MarkFailed, SkipExpand,
        SkipDone, DecrementRunning, Notify
<1>5. CASE UNCHANGED vars
  BY <1>5 DEF vars
<1> QED
  BY <1>1, <1>2, <1>3, <1>4, <1>5, StepCases

(* An edge is closed by the step of the loop that passes it, and by no     *)
(* other.                                                                  *)
LEMMA OpenFrame ==
  ASSUME UNCHANGED <<cfg, idx>>
  PROVE  \A m \in Node : OpenEdges(m)' = OpenEdges(m)
BY DEF OpenEdges, InEdges, Down

LEMMA OpenFinite ==
  ASSUME TypeOK, NEW m \in Node
  PROVE  /\ IsFiniteSet(OpenEdges(m))
         /\ Cardinality(OpenEdges(m)) \in Nat
         /\ Cardinality(OpenEdges(m)) = 0 <=> OpenEdges(m) = {}
<1>1. IsFiniteSet(OpenEdges(m))
  BY EdgeFacts, FS_Subset DEF TypeOK, OpenEdges
<1> QED
  BY <1>1, FS_CardinalityType, FS_EmptySet

LEMMA OpenStep ==
  ASSUME TypeOK, LoopInv, NEW n \in Node, idx[n] <= Len(Down(n)), cfg' = cfg,
         idx' = [idx EXCEPT ![n] = idx[n] + 1], NEW m \in Node
  PROVE  /\ OpenEdges(m)' = OpenEdges(m) \ {<<n, idx[n]>>}
         /\ <<n, idx[n]>> \in OpenEdges(m) <=> Down(n)[idx[n]] = m
<1>1. /\ idx \in [Node -> Nat]
      /\ idx[n] \in 1..Len(Down(n))
      /\ Len(Down(n)) \in Nat
  <2>1. idx \in [Node -> Nat] /\ cfg \in Configs
    BY DEF TypeOK
  <2>2. Len(Down(n)) \in Nat
    BY <2>1, ConfigFacts
  <2> QED
    BY <2>1, <2>2 DEF LoopInv
<1>2. InEdges(m)' = InEdges(m)
  BY DEF InEdges, Down
<1>3. /\ \A e \in InEdges(m) : e = <<e[1], e[2]>> /\ e[1] \in Node /\ e[2] \in Nat
      /\ <<n, idx[n]>> \in InEdges(m) <=> Down(n)[idx[n]] = m
  BY <1>1, EdgeFacts DEF TypeOK
<1>4. ASSUME NEW e \in InEdges(m)
      PROVE  e[2] >= idx'[e[1]] <=> e[2] >= idx[e[1]] /\ e # <<n, idx[n]>>
  <2>1. e = <<e[1], e[2]>> /\ e[1] \in Node /\ e[2] \in Nat
    BY <1>3
  <2>2. CASE e[1] = n
    BY <1>1, <2>1, <2>2
  <2>3. CASE e[1] # n
    BY <1>1, <2>1, <2>3
  <2> QED
    BY <2>2, <2>3
<1>5. OpenEdges(m)' = {e \in InEdges(m) : e[2] >= idx'[e[1]]}
  BY <1>2 DEF OpenEdges
<1>6. OpenEdges(m)' = OpenEdges(m) \ {<<n, idx[n]>>}
  BY <1>4, <1>5 DEF OpenEdges
<1> QED
  BY <1>1, <1>3, <1>6 DEF OpenEdges

LEMMA TypeNext ==
  ASSUME TypeOK, LoopInv, CountInv, ReadyInv, SkipInv, [Next]_vars
  PROVE  TypeOK'
<1> USE DEF TypeOK, ctxVars, schedVars, jobVars
<1>1. CASE Quiet
  BY <1>1, QuietFrame
<1>2. CASE InitReadyQueue
  BY <1>2, InitialQueue DEF InitReadyQueue, SchedGoto, SchedPcs
<1>3. CASE PopReady
  <2>1. readyQueue' \in Seq(Node) /\ cur' \in Node \cup {NoNode} /\ mpc' \in SchedPcs
    <3>1. CASE readyQueue = <<>>
      BY <1>3, <3>1 DEF PopReady, SchedGoto, SchedPcs
    <3>2. CASE readyQueue # <<>>
      <4>1. Head(readyQueue) \in Node /\ Tail(readyQueue) \in Seq(Node)
        BY <3>2, HeadTail
      <4> QED
        BY <1>3, <3>2, <4>1 DEF PopReady, SchedGoto, SchedPcs
    <3> QED
      BY <3>1, <3>2
  <2> QED
    BY <1>3, <2>1 DEF PopReady
<1>4. CASE SetRunning
  BY <1>4 DEF SetRunning, ReadyInv, SchedGoto, SchedPcs, TaskStatus
<1>5. CASE PostJob
  <2>1. wpc' \in [Node -> JobPcs] /\ taskRun' \in [Node -> TaskStatus]
    BY <1>5 DEF PostJob, JobPcs, TaskStatus
  <2>2. running' \in Int /\ mpc' \in SchedPcs
    BY <1>5 DEF PostJob, SchedGoto, SchedPcs
  <2> QED
    BY <1>5, <2>1, <2>2 DEF PostJob, SchedGoto
<1>6. CASE ReturnVerdict
  BY <1>6 DEF ReturnVerdict, SchedGoto, SchedPcs, Verdict
<1>7. ASSUME NEW n \in Node, Job(n) PROVE TypeOK'
  <2> USE <1>7 DEF JobGoto, JobPcs
  <2>1. CASE RunNode(n)
    <3>1. Outcomes \subseteq TaskStatus
      BY OutcomeAssumption DEF TaskStatus, Terminal
    <3>2. wpc' \in [Node -> JobPcs]
      BY <2>1 DEF RunNode
    <3>3. result' \in [Node -> Outcomes \cup {"Pending"}] /\ taskRun' \in [Node -> TaskStatus]
      BY <2>1, <3>1 DEF RunNode
    <3> QED
      BY <2>1, <3>2, <3>3 DEF RunNode
  <2>2. CASE SetFinalStatus(n)
    <3>1. Outcomes \cup {"Pending"} \subseteq TaskStatus
      BY OutcomeAssumption DEF TaskStatus, Terminal
    <3>2. wpc' \in [Node -> JobPcs] /\ status' \in [Node -> TaskStatus]
      BY <2>2, <3>1 DEF SetFinalStatus
    <3> QED
      BY <2>2, <3>2 DEF SetFinalStatus
  <2>3. CASE ReadChild(n)
    <3>1. wpc' \in [Node -> JobPcs]
      BY <2>3, ZenonT(30) DEF ReadChild
    <3>2. idx' \in [Node -> Nat]
      <4>1. idx' = idx \/ idx' = [idx EXCEPT ![n] = idx[n] + 1]
        BY <2>3 DEF ReadChild
      <4>2. idx \in [Node -> Nat] /\ n \in Node
        BY <1>7
      <4> HIDE DEF TypeOK
      <4> QED
        BY <4>1, <4>2
    <3> QED
      BY <2>3, <3>1, <3>2 DEF ReadChild
  <2>4. CASE DecrementIndegree(n)
    <3>1. wpc' \in [Node -> JobPcs]
      BY <2>4 DEF DecrementIndegree
    <3>2. idx' \in [Node -> Nat] /\ indegree' \in [Node -> Nat]
      <4> DEFINE child == Down(n)[idx[n]]
      <4>1. /\ idx' = [idx EXCEPT ![n] = idx[n] + 1]
            /\ indegree' = [indegree EXCEPT ![child] = indegree[child] - 1]
        BY <2>4 DEF DecrementIndegree
      <4>2. child \in Node /\ idx[n] <= Len(Down(n)) /\ cfg' = cfg
        BY <2>4, ConfigFacts DEF DecrementIndegree, LoopInv
      <4>3. OpenEdges(child) # {}
        BY <1>7, <4>1, <4>2, OpenStep
      <4>4. indegree[child] >= 1
        BY <4>2, <4>3, OpenFinite DEF CountInv
      <4>5. idx \in [Node -> Nat] /\ indegree \in [Node -> Nat] /\ n \in Node
        BY <1>7
      <4> HIDE DEF TypeOK
      <4> QED
        BY <4>1, <4>2, <4>4, <4>5
    <3> QED
      BY <2>4, <3>1, <3>2 DEF DecrementIndegree
  <2>5. CASE PushReady(n)
    <3>1. Down(n)[idx[n] - 1] \in Node
      BY <2>5, ConfigFacts DEF PushReady, LoopInv
    <3>2. readyQueue' \in Seq(Node)
      BY <2>5, <3>1 DEF PushReady
    <3> QED
      BY <2>5, <3>2 DEF PushReady
  <2>6. CASE MarkFailed(n)
    <3>1. wpc' \in [Node -> JobPcs]
      BY <2>6 DEF MarkFailed
    <3>2. toVisit' \in [Node -> SUBSET Node] /\ visited' \in [Node -> SUBSET Node]
      <4>1. Children(n) \subseteq Node
        BY ConfigFacts
      <4>2. /\ toVisit' = toVisit \/ toVisit' = [toVisit EXCEPT ![n] = Children(n)]
            /\ visited' = visited \/ visited' = [visited EXCEPT ![n] = Children(n)]
        BY <2>6 DEF MarkFailed
      <4>3. toVisit \in [Node -> SUBSET Node] /\ visited \in [Node -> SUBSET Node]
        OBVIOUS
      <4> HIDE DEF TypeOK
      <4> QED
        BY <4>1, <4>2, <4>3
    <3>3. failed' \in BOOLEAN
      BY <2>6 DEF MarkFailed
    <3> QED
      BY <2>6, <3>1, <3>2, <3>3 DEF MarkFailed
  <2>7. CASE SkipNext(n)
    BY <2>7 DEF SkipNext, TaskStatus, Terminal
  <2>8. CASE SkipExpand(n)
    <3>1. Children(skipping[n]) \subseteq Node
      BY <2>8, ConfigFacts DEF SkipExpand, SkipInv
    <3> QED
      BY <2>8, <3>1 DEF SkipExpand, TaskStatus, Terminal
  <2>9. CASE SkipDone(n)
    BY <2>9 DEF SkipDone
  <2>10. CASE DecrementRunning(n)
    BY <2>10 DEF DecrementRunning
  <2>11. CASE Notify(n)
    BY <2>11 DEF Notify, SchedGoto, SchedPcs
  <2> QED
    BY <2>1, <2>2, <2>3, <2>4, <2>5, <2>6, <2>7, <2>8, <2>9, <2>10, <2>11 DEF Job
<1>8. CASE UNCHANGED vars
  BY <1>8 DEF vars
<1> QED
  BY <1>1, <1>2, <1>3, <1>4, <1>5, <1>6, <1>7, <1>8, StepCases


LEMMA CountInvNext ==
  ASSUME CoreInv, [Next]_vars
  PROVE  CountInv'
<1> USE FunctionTypes DEF CoreInv
<1>0. ASSUME UNCHANGED <<cfg, idx, indegree>>
      PROVE  CountInv'
  <2> SUFFICES ASSUME NEW m \in Node
               PROVE  /\ indegree[m] >= Cardinality(OpenEdges(m))
                      /\ status'[m] # "Skipped" => indegree[m] = Cardinality(OpenEdges(m))
    BY <1>0, OpenFrame DEF CountInv
  <2>1. status[m] = "Skipped" => status'[m] = "Skipped"
    BY StatusStep DEF Terminal
  <2> QED
    BY <2>1 DEF CountInv
<1>1. CASE Quiet
  BY <1>0, <1>1, QuietFrame DEF ctxVars, jobVars
<1>2. CASE InitReadyQueue \/ PopReady \/ SetRunning \/ PostJob \/ ReturnVerdict
  BY <1>0, <1>2 DEF InitReadyQueue, PopReady, SetRunning, PostJob, ReturnVerdict, ctxVars, jobVars
<1>3. ASSUME NEW n \in Node, Job(n) PROVE CountInv'
  <2> DEFINE child == Down(n)[idx[n]]
  <2>1. CASE ReadChild(n)
    <3>1. CASE UNCHANGED idx
      BY <1>0, <2>1, <3>1 DEF ReadChild, ctxVars
    <3>2. CASE ~UNCHANGED idx
      <4>1. /\ idx[n] <= Len(Down(n))
            /\ status[child] \in FailureLike \cup {"Skipped"}
            /\ idx' = [idx EXCEPT ![n] = idx[n] + 1]
            /\ UNCHANGED <<cfg, status, indegree>>
        <5>1. Len(Down(n)) \in Nat /\ idx[n] \in Nat
          BY <1>3, ConfigFacts DEF TypeOK
        <5> QED
          BY <2>1, <3>2, <5>1 DEF ReadChild, ctxVars
      <4>2. child \in Node
        BY <1>3, <4>1, ConfigFacts DEF LoopInv, TypeOK
      <4>3. <<n, idx[n]>> \in OpenEdges(child)
        BY <1>3, <4>1, <4>2, OpenStep
      <4>4. status[child] = "Skipped"
        BY <4>1, <4>2, <4>3 DEF ReadyInv, Unstarted, FailureLike
      <4>5. ASSUME NEW m \in Node
            PROVE  /\ indegree'[m] >= Cardinality(OpenEdges(m)')
                   /\ status'[m] # "Skipped" => indegree'[m] = Cardinality(OpenEdges(m)')
        <5>1. OpenEdges(m)' = OpenEdges(m) \ {<<n, idx[n]>>}
          BY <1>3, <4>1, OpenStep
        <5>2. <<n, idx[n]>> \in OpenEdges(m) <=> child = m
          BY <1>3, <4>1, OpenStep
        <5>3. Cardinality(OpenEdges(m)') = IF child = m THEN Cardinality(OpenEdges(m)) - 1
                                                         ELSE Cardinality(OpenEdges(m))
          <6>1. Cardinality(OpenEdges(m) \ {<<n, idx[n]>>}) =
                 IF <<n, idx[n]>> \in OpenEdges(m) THEN Cardinality(OpenEdges(m)) - 1
                                                ELSE Cardinality(OpenEdges(m))
            BY OpenFinite, FS_RemoveElement
          <6> QED
            BY <5>1, <5>2, <6>1
        <5> QED
          BY <4>1, <4>4, <5>3, OpenFinite DEF CountInv
      <4> QED
        BY <4>5 DEF CountInv
    <3> QED
      BY <3>1, <3>2
  <2>2. CASE DecrementIndegree(n)
    <3>1. /\ idx[n] <= Len(Down(n))
          /\ idx' = [idx EXCEPT ![n] = idx[n] + 1]
          /\ indegree' = [indegree EXCEPT ![child] = indegree[child] - 1]
          /\ UNCHANGED <<cfg, status>>
      BY <1>3, <2>2 DEF DecrementIndegree, LoopInv
    <3>2. child \in Node
      BY <1>3, <3>1, ConfigFacts DEF LoopInv, TypeOK
    <3>3. ASSUME NEW m \in Node
          PROVE  /\ indegree'[m] >= Cardinality(OpenEdges(m)')
                 /\ status'[m] # "Skipped" => indegree'[m] = Cardinality(OpenEdges(m)')
      <4>1. OpenEdges(m)' = OpenEdges(m) \ {<<n, idx[n]>>}
        BY <1>3, <3>1, OpenStep
      <4>2. <<n, idx[n]>> \in OpenEdges(m) <=> child = m
        BY <1>3, <3>1, OpenStep
      <4>3. Cardinality(OpenEdges(m)') = IF child = m THEN Cardinality(OpenEdges(m)) - 1
                                                       ELSE Cardinality(OpenEdges(m))
        <5>1. Cardinality(OpenEdges(m) \ {<<n, idx[n]>>}) =
               IF <<n, idx[n]>> \in OpenEdges(m) THEN Cardinality(OpenEdges(m)) - 1
                                              ELSE Cardinality(OpenEdges(m))
          BY OpenFinite, FS_RemoveElement
        <5> QED
          BY <4>1, <4>2, <5>1
      <4> QED
        BY <3>1, <3>2, <4>3, OpenFinite DEF CountInv
    <3> QED
      BY <3>3 DEF CountInv
  <2>3. CASE UNCHANGED <<cfg, idx, indegree>>
    BY <1>0, <2>3
  <2> QED
    BY <1>3, <2>1, <2>2, <2>3
    DEF Job, RunNode, SetFinalStatus, PushReady, MarkFailed, SkipNext, SkipExpand,
        SkipDone, DecrementRunning, Notify, ctxVars
<1>4. CASE UNCHANGED vars
  BY <1>0, <1>4 DEF vars, ctxVars, jobVars
<1> QED
  BY <1>1, <1>2, <1>3, <1>4, StepCases

LEMMA OpenShrinks ==
  ASSUME CoreInv, [Next]_vars
  PROVE  \A m \in Node : OpenEdges(m)' \subseteq OpenEdges(m)
<1> USE FunctionTypes DEF CoreInv
<1>1. CASE UNCHANGED idx
  BY <1>1, StatusStep, OpenFrame
<1>2. CASE ~UNCHANGED idx
  <2>1. ~Quiet
    BY <1>2, QuietFrame DEF jobVars
  <2>2. PICK n \in Node : ReadChild(n) \/ DecrementIndegree(n)
    BY <1>2, <2>1, StepCases
    DEF InitReadyQueue, PopReady, SetRunning, PostJob, ReturnVerdict, vars, jobVars, Job, RunNode,
        SetFinalStatus, PushReady, MarkFailed, SkipNext, SkipExpand, SkipDone, DecrementRunning, Notify
  <2>3. Len(Down(n)) \in Nat /\ idx[n] \in Nat
    BY ConfigFacts DEF TypeOK
  <2>4. idx[n] <= Len(Down(n)) /\ idx' = [idx EXCEPT ![n] = idx[n] + 1]
    BY <1>2, <2>2, <2>3 DEF ReadChild, DecrementIndegree, LoopInv
  <2>5. cfg' = cfg
    BY StatusStep
  <2>6. ASSUME NEW m \in Node PROVE OpenEdges(m)' = OpenEdges(m) \ {<<n, idx[n]>>}
    BY <2>4, <2>5, OpenStep
  <2> QED
    BY <2>6
<1> QED
  BY <1>1, <1>2

LEMMA ReadyNotOpen ==
  ASSUME CoreInv, NEW m \in Node, Ready(m)
  PROVE  OpenEdges(m) = {}
<1>1. indegree[m] = 0 /\ indegree[m] >= Cardinality(OpenEdges(m))
  BY DEF CoreInv, ReadyInv, CountInv
<1> QED
  BY <1>1, OpenFinite DEF CoreInv

(* Whatever becomes ready in a step has indegree 0. *)
LEMMA ReadyStep ==
  ASSUME CoreInv, [Next]_vars, NEW m \in Node, Ready(m)'
  PROVE  indegree'[m] = 0
<1> USE FunctionTypes DEF CoreInv
<1>0. Ready(m) => indegree[m] = 0
  BY DEF ReadyInv
<1>1. CASE Quiet
  BY <1>0, <1>1, QuietFrame DEF Ready, Queued, Pushing, Holding, Down, ctxVars, jobVars
<1>2. CASE InitReadyQueue
  BY <1>0, <1>2, InitialQueue
  DEF InitReadyQueue, Ready, Queued, Pushing, Holding, SchedGoto, Down, jobVars
<1>3. CASE PopReady
  <2>1. CASE readyQueue = <<>>
    BY <1>0, <1>3, <2>1 DEF PopReady, Ready, Queued, Pushing, Holding, SchedGoto, Down, jobVars
  <2>2. CASE readyQueue # <<>>
    <3>1. Queued(m)' => Queued(m)
      <4>1. /\ readyQueue' = Tail(readyQueue) /\ Tail(readyQueue) \in Seq(Node)
            /\ Len(readyQueue) \in Nat /\ Len(readyQueue') = Len(readyQueue) - 1
            /\ \A i \in 1..Len(readyQueue) - 1 : readyQueue'[i] = readyQueue[i + 1]
        BY <1>3, <2>2, HeadTail DEF PopReady
      <4>2. DOMAIN readyQueue = 1..Len(readyQueue) /\ DOMAIN readyQueue' = 1..Len(readyQueue) - 1
        BY <4>1
      <4>3. \A i \in DOMAIN readyQueue' : i + 1 \in DOMAIN readyQueue
        BY <4>1, <4>2
      <4> QED
        BY <4>1, <4>2, <4>3 DEF Queued
    <3>2. Holding(m)' => Queued(m)
      BY <1>3, <2>2, HeadTail DEF PopReady, SchedGoto, Queued, Holding
    <3>3. Pushing(m)' => Pushing(m)
      BY <1>3 DEF PopReady, Pushing, Down, jobVars
    <3> QED
      BY <1>0, <1>3, <3>1, <3>2, <3>3 DEF PopReady, Ready
  <2> QED
    BY <2>1, <2>2
<1>4. CASE SetRunning
  BY <1>0, <1>4 DEF SetRunning, Ready, Queued, Pushing, Holding, SchedGoto, Down, jobVars
<1>5. CASE PostJob
  BY <1>0, <1>5 DEF PostJob, Ready, Queued, Pushing, Holding, SchedGoto, Down
<1>6. CASE ReturnVerdict
  BY <1>0, <1>6 DEF ReturnVerdict, Ready, Queued, Pushing, Holding, SchedGoto, Down, ctxVars, jobVars
<1>7. ASSUME NEW n \in Node, Job(n) PROVE indegree'[m] = 0
  <2>1. CASE DecrementIndegree(n)
    <3> DEFINE child == Down(n)[idx[n]]
    <3>1. /\ idx[n] <= Len(Down(n))
          /\ idx' = [idx EXCEPT ![n] = idx[n] + 1]
          /\ indegree' = [indegree EXCEPT ![child] = indegree[child] - 1]
          /\ cfg' = cfg
      BY <1>7, <2>1 DEF DecrementIndegree, LoopInv
    <3>2. child \in Node
      BY <1>7, <3>1, ConfigFacts DEF LoopInv, TypeOK
    <3>3. OpenEdges(child) # {}
      BY <1>7, <3>1, <3>2, OpenStep
    <3>4. ~Ready(child)
      BY <3>2, <3>3, ReadyNotOpen
    <3>5. CASE Ready(m)
      BY <1>0, <3>1, <3>4, <3>5
    <3>6. CASE ~Ready(m)
      <4>1. ~Queued(m)' /\ ~Holding(m)'
        BY <2>1, <3>6 DEF DecrementIndegree, Ready, Queued, Holding, schedVars
      <4>2. PICK p \in Node : wpc'[p] = "push" /\ Down(p)'[idx'[p] - 1] = m
        BY <4>1 DEF Ready, Pushing
      <4>3. p = n
        BY <1>7, <2>1, <3>1, <3>6, <4>2 DEF DecrementIndegree, JobGoto, Ready, Pushing, Down
      <4>4. wpc'[n] = IF indegree[child] = 1 THEN "push" ELSE "release"
        BY <1>7, <2>1 DEF DecrementIndegree, JobGoto
      <4>5. idx'[n] - 1 = idx[n] /\ Down(n)' = Down(n)
        BY <1>7, <3>1 DEF Down
      <4>6. m = child /\ indegree[child] = 1
        BY <4>2, <4>3, <4>4, <4>5
      <4> QED
        BY <3>1, <3>2, <4>6
    <3> QED
      BY <3>5, <3>6
  <2>2. CASE PushReady(n)
    <3>1. /\ Down(n)[idx[n] - 1] \in Node
          /\ readyQueue' = Append(readyQueue, Down(n)[idx[n] - 1])
      BY <1>7, <2>2, ConfigFacts, SMTT(30) DEF PushReady, LoopInv, TypeOK
    <3>2. Queued(m)' => Queued(m) \/ m = Down(n)[idx[n] - 1]
      BY <3>1 DEF Queued
    <3>3. Pushing(Down(n)[idx[n] - 1])
      BY <1>7, <2>2 DEF PushReady, Pushing
    <3>4. (Pushing(m)' => Pushing(m)) /\ (Holding(m)' => Holding(m))
      BY <1>7, <2>2 DEF PushReady, Pushing, Holding, JobGoto, Down, schedVars
    <3> QED
      BY <1>0, <2>2, <3>2, <3>3, <3>4 DEF PushReady, Ready
  <2>3. CASE ReadChild(n)
    <3>1. (Queued(m)' => Queued(m)) /\ (Holding(m)' => Holding(m))
      BY <2>3 DEF ReadChild, Queued, Holding, ctxVars, schedVars
    <3>2. Pushing(m)' => Pushing(m)
      BY <1>7, <2>3 DEF ReadChild, Pushing, JobGoto, Down
    <3> QED
      BY <1>0, <2>3, <3>1, <3>2 DEF ReadChild, Ready, ctxVars
  <2>4. CASE RunNode(n)
    BY <1>0, <1>7, <2>4 DEF RunNode, Ready, Queued, Pushing, Holding, JobGoto, Down, schedVars
  <2>5. CASE SetFinalStatus(n)
    BY <1>0, <1>7, <2>5
    DEF SetFinalStatus, Ready, Queued, Pushing, Holding, JobGoto, Down, ctxVars, schedVars
  <2>6. CASE MarkFailed(n)
    BY <1>0, <1>7, <2>6 DEF MarkFailed, Ready, Queued, Pushing, Holding, JobGoto, Down, schedVars
  <2>7. CASE SkipNext(n)
    BY <1>0, <1>7, <2>7
    DEF SkipNext, Ready, Queued, Pushing, Holding, JobGoto, Down, ctxVars, schedVars
  <2>8. CASE SkipExpand(n)
    BY <1>0, <1>7, <2>8 DEF SkipExpand, Ready, Queued, Pushing, Holding, JobGoto, Down, schedVars
  <2>9. CASE SkipDone(n)
    BY <1>0, <1>7, <2>9
    DEF SkipDone, Ready, Queued, Pushing, Holding, JobGoto, Down, ctxVars, schedVars
  <2>10. CASE DecrementRunning(n)
    BY <1>0, <1>7, <2>10
    DEF DecrementRunning, Ready, Queued, Pushing, Holding, JobGoto, Down, schedVars
  <2>11. CASE Notify(n)
    BY <1>0, <1>7, <2>11
    DEF Notify, Ready, Queued, Pushing, Holding, SchedGoto, JobGoto, Down, ctxVars
  <2> QED
    BY <1>7, <2>1, <2>2, <2>3, <2>4, <2>5, <2>6, <2>7, <2>8, <2>9, <2>10, <2>11 DEF Job
<1>8. CASE UNCHANGED vars
  BY <1>0, <1>8 DEF vars, ctxVars, schedVars, jobVars, Ready, Queued, Pushing, Holding, Down
<1> QED
  BY <1>1, <1>2, <1>3, <1>4, <1>5, <1>6, <1>7, <1>8, StepCases

LEMMA ReadyInvNext ==
  ASSUME CoreInv, [Next]_vars
  PROVE  ReadyInv'
<1> USE FunctionTypes DEF CoreInv
<1>1. \A m \in Node : Ready(m)' => indegree'[m] = 0
  BY ReadyStep
<1>2. ASSUME NEW m \in Node, status'[m] \notin Unstarted PROVE OpenEdges(m)' = {}
  <2>1. CASE status[m] \notin Unstarted
    BY <2>1, OpenShrinks DEF ReadyInv
  <2>2. CASE status[m] \in Unstarted
    <3>1. SetRunning /\ cur = m
      <4>1. status'[m] # status[m]
        BY <1>2, <2>2
      <4>2. wpc[m] = "idle"
        BY <2>2, UnstartedIdle
      <4>3. ~Quiet /\ ~UNCHANGED vars
        BY <4>1, QuietFrame DEF vars
      <4>4. ASSUME NEW n \in Node, Job(n) PROVE FALSE
        <5>1. SetFinalStatus(n) \/ SkipNext(n)
          BY <4>1, <4>4 DEF Job, RunNode, ReadChild, DecrementIndegree, PushReady, MarkFailed,
             SkipExpand, SkipDone, DecrementRunning, Notify
        <5>2. CASE SetFinalStatus(n)
          BY <4>1, <4>2, <4>4, <5>2 DEF SetFinalStatus
        <5>3. CASE SkipNext(n)
          BY <1>2, <4>1, <5>3 DEF SkipNext, Unstarted
        <5> QED
          BY <5>1, <5>2, <5>3
      <4> QED
        BY <4>1, <4>3, <4>4, StepCases
        DEF InitReadyQueue, PopReady, SetRunning, PostJob, ReturnVerdict
    <3>2. Ready(m)
      BY <3>1 DEF SetRunning, Ready, Holding
    <3> QED
      BY <3>2, ReadyNotOpen, OpenShrinks
  <2> QED
    BY <2>1, <2>2
<1> DEFINE Rest == /\ mpc \in {"filter", "failfast", "recheck", "start", "post", "inline"} =>
                          cur \in Node \ cfg.nameless
                   /\ mpc = "start" => status[cur] = "Pending"
                   /\ mpc = "post" => status[cur] = "Running" /\ wpc[cur] = "idle"
<1>3. Rest'
  <2>0. Rest
    BY DEF ReadyInv
  <2> USE StatusStep
  <2>1. CASE Quiet
    BY <2>0, <2>1, QuietFrame DEF jobVars
  <2>2. CASE InitReadyQueue
    BY <2>2 DEF InitReadyQueue, SchedGoto
  <2>3. CASE PopReady
    <3>1. readyQueue # <<>> => Head(readyQueue) \in Node
      BY HeadTail
    <3> QED
      BY <2>3, <3>1 DEF PopReady, SchedGoto
  <2>4. CASE SetRunning
    <3>1. cur \in Node /\ cur \notin cfg.nameless /\ wpc[cur] = "idle"
      BY <2>0, <2>4, UnstartedIdle DEF SetRunning, Unstarted
    <3> QED
      BY <2>4, <3>1 DEF SetRunning, SchedGoto, jobVars
  <2>5. CASE PostJob
    BY <2>0, <2>5 DEF PostJob, SchedGoto
  <2>6. CASE ReturnVerdict
    BY <2>6 DEF ReturnVerdict, SchedGoto
  <2>7. ASSUME NEW n \in Node, Job(n) PROVE Rest'
    <3>1. cur' = cur /\ (mpc' = mpc \/ mpc' = "waitQueue")
      BY <2>7 DEF Job, RunNode, SetFinalStatus, ReadChild, DecrementIndegree, PushReady, MarkFailed,
         SkipNext, SkipExpand, SkipDone, DecrementRunning, Notify, SchedGoto, schedVars
    <3>2. mpc = "start" => status'[cur] = status[cur]
      <4> SUFFICES ASSUME mpc = "start" PROVE status'[cur] = status[cur]
        OBVIOUS
      <4>1. cur \in Node /\ Ready(cur) /\ wpc[cur] = "idle"
        BY <2>0, UnstartedIdle DEF Ready, Holding, Unstarted
      <4>2. CASE SkipNext(n)
        <5>1. PICK c \in toVisit[n] : status' = [status EXCEPT ![c] = "Skipped"]
          BY <4>2 DEF SkipNext
        <5>2. c # cur
          BY <2>7, <4>1, <5>1, BelowUnsuccessful DEF SkipInv
        <5> QED
          BY <4>1, <5>1, <5>2
      <4>3. CASE SetFinalStatus(n)
        BY <2>7, <4>1, <4>3 DEF SetFinalStatus
      <4> QED
        BY <2>7, <4>2, <4>3 DEF Job, RunNode, ReadChild, DecrementIndegree, PushReady, MarkFailed,
           SkipExpand, SkipDone, DecrementRunning, Notify
    <3>3. mpc = "post" => status'[cur] = "Running" /\ wpc'[cur] = "idle"
      <4> SUFFICES ASSUME mpc = "post" PROVE status'[cur] = "Running" /\ wpc'[cur] = "idle"
        OBVIOUS
      <4>1. cur \in Node /\ status[cur] = "Running" /\ wpc[cur] = "idle"
        BY <2>0
      <4>2. n # cur
        BY <2>7, <4>1 DEF Job, RunNode, SetFinalStatus, ReadChild, DecrementIndegree, PushReady,
           MarkFailed, SkipNext, SkipExpand, SkipDone, DecrementRunning, Notify
      <4>3. wpc'[cur] = "idle"
        BY <2>7, <4>1, <4>2 DEF Job, RunNode, SetFinalStatus, ReadChild, DecrementIndegree, PushReady,
           MarkFailed, SkipNext, SkipExpand, SkipDone, DecrementRunning, Notify, JobGoto
      <4>4. CASE SkipNext(n)
        <5>1. PICK c \in toVisit[n] : status' = [status EXCEPT ![c] = "Skipped"]
          BY <4>4 DEF SkipNext
        <5>2. c # cur
          BY <2>7, <4>1, <5>1, BelowUnsuccessful DEF SkipInv, Unstarted
        <5> QED
          BY <4>1, <4>3, <5>1, <5>2
      <4>5. CASE ~SkipNext(n)
        BY <2>7, <4>1, <4>2, <4>3, <4>5 DEF Job, RunNode, SetFinalStatus, ReadChild, DecrementIndegree,
           PushReady, MarkFailed, SkipExpand, SkipDone, DecrementRunning, Notify
      <4> QED
        BY <4>4, <4>5
    <3> QED
      BY <2>0, <3>1, <3>2, <3>3
  <2>8. CASE UNCHANGED vars
    BY <2>0, <2>8 DEF vars, schedVars, jobVars
  <2> QED
    BY <2>1, <2>2, <2>3, <2>4, <2>5, <2>6, <2>7, <2>8, StepCases
<1> QED
  BY <1>1, <1>2, <1>3 DEF ReadyInv

(* A node that lies below an unsuccessful one keeps doing so. *)
LEMMA DepStable ==
  ASSUME CoreInv, [Next]_vars, NEW m \in Node, HasUnsuccessfulDep(m)
  PROVE  HasUnsuccessfulDep(m)'
<1>1. PICK p \in Node : p \in Deps(m) /\ status[p] \in Unsuccessful
  BY DEF HasUnsuccessfulDep, NodesIn
<1>2. status'[p] = status[p] /\ cfg' = cfg
  BY <1>1, StatusStep DEF Unsuccessful, Terminal
<1>3. Deps(m)' = Deps(m)
  BY <1>2 DEF Deps, Children
<1> QED
  BY <1>1, <1>2, <1>3 DEF HasUnsuccessfulDep, NodesIn

(* The children of an unsuccessful node lie below it. *)
LEMMA ChildBelow ==
  ASSUME TypeOK, NEW p \in Node, status[p] \in Unsuccessful, NEW c \in Children(p)
  PROVE  c \in Node /\ HasUnsuccessfulDep(c)
<1>1. c \in Node
  BY ConfigFacts DEF TypeOK
<1>2. p \in Deps(c) /\ p \in NodesIn(Unsuccessful)
  BY DEF Deps, NodesIn
<1> QED
  BY <1>1, <1>2 DEF HasUnsuccessfulDep

LEMMA SkipInvNext ==
  ASSUME CoreInv, [Next]_vars
  PROVE  SkipInv'
<1> USE FunctionTypes DEF CoreInv
<1>0. /\ \A m \in Node : HasUnsuccessfulDep(m) => HasUnsuccessfulDep(m)'
      /\ cfg' = cfg
      /\ \A m \in Node : status[m] = "Skipped" => status'[m] = "Skipped"
  BY DepStable, StatusStep DEF Terminal
<1> USE <1>0
<1>1. CASE Quiet
  BY <1>1, QuietFrame DEF SkipInv, jobVars
<1>2. CASE InitReadyQueue \/ PopReady \/ ReturnVerdict
  BY <1>2 DEF InitReadyQueue, PopReady, ReturnVerdict, SkipInv, jobVars
<1>3. CASE SetRunning
  BY <1>3 DEF SetRunning, SkipInv, ReadyInv, jobVars
<1>4. CASE PostJob
  BY <1>4 DEF PostJob, SkipInv, ReadyInv
<1>5. ASSUME NEW n \in Node, Job(n) PROVE SkipInv'
  <2> USE <1>5 DEF SkipInv, JobGoto, ctxVars, schedVars, jobVars
  <2>1. CASE RunNode(n)
    BY <2>1 DEF RunNode
  <2>2. CASE SetFinalStatus(n)
    <3>1. result[n] # "Skipped"
      BY <2>2, OutcomeAssumption DEF SetFinalStatus, JobInv, FailureLike
    <3> QED
      BY <2>2, <3>1 DEF SetFinalStatus
  <2>3. CASE ReadChild(n)
    BY <2>3 DEF ReadChild
  <2>4. CASE DecrementIndegree(n)
    BY <2>4 DEF DecrementIndegree
  <2>5. CASE PushReady(n)
    BY <2>5 DEF PushReady
  <2>6. CASE MarkFailed(n)
    <3>1. \A c \in Children(n) : c \in Node /\ HasUnsuccessfulDep(c)
      BY <2>6, ChildBelow DEF MarkFailed, JobInv, Unsuccessful
    <3>2. cfg.policy \in FailPolicy
      BY ConfigFacts DEF TypeOK
    <3>3. CASE cfg.policy = "FailFast"
      BY <2>6, <3>3 DEF MarkFailed
    <3>4. CASE cfg.policy = "SkipDownstream"
      <4>1. /\ toVisit' = [toVisit EXCEPT ![n] = Children(n)]
            /\ visited' = [visited EXCEPT ![n] = Children(n)]
            /\ wpc[n] = "fail" /\ wpc' = [wpc EXCEPT ![n] = "skip"]
            /\ UNCHANGED <<status, skipping>>
        BY <2>6, <3>4 DEF MarkFailed
      <4>2. ASSUME NEW p \in Node
            PROVE  /\ \A m \in toVisit'[p] : HasUnsuccessfulDep(m)'
                   /\ \A m \in visited'[p] : m \in toVisit'[p] \/ status'[m] = "Skipped"
        BY <3>1, <4>1
      <4>3. ASSUME NEW p \in Node
            PROVE  /\ wpc'[p] \notin {"skip", "expand"} => toVisit'[p] = {}
                   /\ wpc'[p] = "expand" => skipping'[p] \in Node /\ status'[skipping'[p]] = "Skipped"
        BY <4>1
      <4>4. \A m \in Node : status'[m] = "Skipped" => HasUnsuccessfulDep(m)'
        BY <4>1
      <4> QED
        BY <3>4, <4>2, <4>3, <4>4
    <3> QED
      BY <3>2, <3>3, <3>4 DEF FailPolicy
  <2>7. CASE SkipNext(n)
    BY <2>7 DEF SkipNext
  <2>8. CASE SkipExpand(n)
    <3>1. \A c \in Children(skipping[n]) : c \in Node /\ HasUnsuccessfulDep(c)
      BY <2>8, ChildBelow DEF SkipExpand, Unsuccessful
    <3> QED
      BY <2>8, <3>1 DEF SkipExpand
  <2>9. CASE SkipDone(n)
    BY <2>9 DEF SkipDone
  <2>10. CASE DecrementRunning(n)
    BY <2>10 DEF DecrementRunning
  <2>11. CASE Notify(n)
    BY <2>11 DEF Notify
  <2> QED
    BY <2>1, <2>2, <2>3, <2>4, <2>5, <2>6, <2>7, <2>8, <2>9, <2>10, <2>11 DEF Job
<1>6. CASE UNCHANGED vars
  BY <1>6 DEF vars, SkipInv, jobVars
<1> QED
  BY <1>1, <1>2, <1>3, <1>4, <1>5, <1>6, StepCases

LEMMA CoreInvInit == Init => CoreInv
<1> SUFFICES ASSUME Init PROVE CoreInv
  OBVIOUS
<1>1. TypeOK
  BY TypeInit
<1>2. JobInv
  BY DEF Init, RunInit, JobInv, Unstarted
<1>3. LoopInv
  <2>1. \A n \in Node : Len(Down(n)) \in Nat
    BY <1>1, ConfigFacts DEF TypeOK
  <2> QED
    BY <2>1 DEF Init, RunInit, LoopInv
<1>4. CountInv
  <2>1. ASSUME NEW n \in Node PROVE OpenEdges(n) = InEdges(n)
    <3>1. ASSUME NEW e \in InEdges(n) PROVE e[2] >= idx[e[1]]
      <4>1. e = <<e[1], e[2]>> /\ e[1] \in Node /\ e[2] \in Nat
        BY <1>1, EdgeFacts DEF TypeOK
      <4>2. e[2] \in 1..Len(Down(e[1]))
        BY <1>1, <4>1, EdgeFacts DEF TypeOK
      <4>3. Len(Down(e[1])) \in Nat
        BY <1>1, <4>1, ConfigFacts DEF TypeOK
      <4> QED
        BY <4>1, <4>2, <4>3 DEF Init
    <3> QED
      BY <3>1 DEF OpenEdges
  <2>2. \A n \in Node : indegree[n] = Cardinality(OpenEdges(n)) /\ indegree[n] \in Int
    BY <1>1, <2>1, FunctionTypes DEF Init
  <2> QED
    BY <2>2 DEF CountInv
<1>5. ReadyInv
  BY DEF Init, RunInit, ReadyInv, Ready, Queued, Pushing, Holding, Unstarted
<1>6. SkipInv
  BY DEF Init, RunInit, SkipInv
<1> QED
  BY <1>1, <1>2, <1>3, <1>4, <1>5, <1>6 DEF CoreInv

LEMMA CoreInvNext == CoreInv /\ [Next]_vars => CoreInv'
<1> SUFFICES ASSUME CoreInv, [Next]_vars PROVE CoreInv'
  OBVIOUS
<1>1. TypeOK'
  BY TypeNext DEF CoreInv
<1> QED
  BY <1>1, JobInvNext, LoopInvNext, CountInvNext, ReadyInvNext, SkipInvNext DEF CoreInv

THEOREM CoreCorrect == Spec => []CoreInv
BY CoreInvInit, CoreInvNext, PTL DEF Spec

(* Type correctness of the executor: every value execute() and             *)
(* onNodeFinished() keep in the context stays of its type.                 *)
THEOREM TypeCorrect == Spec => []TypeOK
<1>1. CoreInv => TypeOK
  BY DEF CoreInv
<1> QED
  BY <1>1, CoreCorrect, PTL

(* A started node's dependencies have all succeeded: it has no open edge,  *)
(* and a closed edge leaves a node that succeeded.                         *)
LEMMA StartedDeps ==
  ASSUME CoreInv, NEW n \in Node, OpenEdges(n) = {}
  PROVE  Deps(n) \subseteq NodesIn({"Success"})
<1> USE DEF CoreInv
<1> SUFFICES ASSUME NEW p \in Node, p \in Deps(n) PROVE status[p] = "Success"
  BY DEF NodesIn, Deps
<1>1. PICK i \in 1..Len(Down(p)) : Down(p)[i] = n
  BY EdgeFacts DEF TypeOK
<1>2. i \in Nat /\ i >= 1 /\ idx[p] \in Nat
  BY <1>1, ConfigFacts, FunctionTypes DEF TypeOK
<1>3. <<p, i>> \in InEdges(n)
  BY <1>1, <1>2, EdgeFacts DEF TypeOK
<1>4. ~(i >= idx[p])
  BY <1>3 DEF OpenEdges
<1> QED
  BY <1>2, <1>4 DEF LoopInv

(* A node runs only after everything it depends on has succeeded.          *)
THEOREM DependenciesFirstCorrect == Spec => []DependenciesFirst
<1>1. CoreInv => DependenciesFirst
  <2> SUFFICES ASSUME CoreInv, NEW n \in NodesIn(TaskStatus \ {"Pending", "Skipped"})
               PROVE  Deps(n) \subseteq NodesIn({"Success"})
    BY DEF DependenciesFirst
  <2>1. n \in Node /\ OpenEdges(n) = {}
    BY DEF NodesIn, CoreInv, ReadyInv, Unstarted
  <2> QED
    BY <2>1, StartedDeps
<1> QED
  BY <1>1, CoreCorrect, PTL

(* No step overwrites a terminal status: no node runs twice, and none that *)
(* was skipped runs.                                                       *)
THEOREM TerminalStableCorrect == Spec => TerminalStable
<1>1. CoreInv /\ [Next]_vars => [\A n \in Node : status[n] \in Terminal => status'[n] = status[n]]_vars
  BY StatusStep
<1> QED
  BY <1>1, CoreCorrect, PTL DEF Spec, TerminalStable
-----------------------------------------------------------------------------
(***************************************************************************)
(* The second half of the inductive invariant of DagExecutor, and what it  *)
(* gives: the limit on parallelism, the verdict, the task_run rows, the    *)
(* bound on late starts, and the two refinements of DagRun.                *)
(***************************************************************************)
(* How the quiet steps of the scheduler branch. *)
LEMMA QuietBranches ==
  ASSUME Quiet
  PROVE  /\ mpc' = "pop" => running < MaxParallel
         /\ mpc \in {"filter", "failfast", "recheck"} =>
               \/ mpc' \in {"failfast", "recheck", "start"}
               \/ status[cur] # "Pending"
               \/ cfg.policy = "FailFast" /\ failed
         /\ mpc' = "recheck" => ~(cfg.policy = "FailFast" /\ failed)
         /\ mpc' = "start" => mpc = "recheck"
         /\ mpc' = "verdict" => readyQueue = <<>> /\ running = 0
BY DEF Quiet, CheckCapacity, FilterStatus, FilterFailFast, RecheckStatus, InlineReturn,
       CheckEnd, WaitQueue, WaitRunning, WaitFailed, Block, SpuriousWake, SchedGoto

LEMMA ActiveFinite == IsFiniteSet(Active) /\ Cardinality(Active) \in Nat
BY NodeAssumption, FS_Subset, FS_CardinalityType DEF Active

LEMMA SlotInvNext ==
  ASSUME CoreInv, SlotInv, [Next]_vars
  PROVE  SlotInv'
<1> USE FunctionTypes DEF CoreInv
<1>0. MaxParallel \in Nat \ {0} /\ MaxParallel' = MaxParallel
  BY ConfigFacts, StatusStep DEF TypeOK, MaxParallel
<1>1. CASE Quiet
  <2>1. Active' = Active /\ running' = running
    BY <1>1, QuietFrame DEF Active, ctxVars, jobVars
  <2> QED
    BY <1>0, <1>1, <2>1, QuietFrame, QuietBranches DEF SlotInv, SchedPcs
<1>2. CASE InitReadyQueue \/ PopReady \/ SetRunning \/ ReturnVerdict
  <2>1. Active' = Active /\ running' = running
    BY <1>2 DEF InitReadyQueue, PopReady, SetRunning, ReturnVerdict, Active, ctxVars, jobVars
  <2>2. mpc' \in {"pop", "filter", "failfast", "recheck", "start", "post"} => running < MaxParallel
    BY <1>2 DEF SlotInv, InitReadyQueue, PopReady, SetRunning, ReturnVerdict, SchedGoto
  <2> QED
    BY <1>0, <2>1, <2>2 DEF SlotInv
<1>3. CASE PostJob
  <2>1. cur \in Node /\ wpc[cur] = "idle" /\ running < MaxParallel
    BY <1>3 DEF PostJob, ReadyInv, SlotInv
  <2>2. Active' = Active \cup {cur} /\ cur \notin Active
    BY <1>3, <2>1 DEF PostJob, Active
  <2>3. Cardinality(Active') = Cardinality(Active) + 1
    BY <2>2, ActiveFinite, FS_AddElement
  <2> QED
    BY <1>0, <1>3, <2>1, <2>3 DEF PostJob, SlotInv, SchedGoto
<1>4. ASSUME NEW n \in Node, Job(n) PROVE SlotInv'
  <2>0. mpc' = mpc \/ mpc' = "waitQueue"
    BY <1>4 DEF Job, RunNode, SetFinalStatus, ReadChild, DecrementIndegree, PushReady, MarkFailed,
       SkipNext, SkipExpand, SkipDone, DecrementRunning, Notify, SchedGoto, schedVars
  <2>1. CASE DecrementRunning(n)
    <3>1. Active' = Active \ {n} /\ n \in Active
      BY <1>4, <2>1 DEF DecrementRunning, JobGoto, Active
    <3>2. Cardinality(Active') = Cardinality(Active) - 1
      BY <3>1, ActiveFinite, FS_RemoveElement
    <3> QED
      BY <1>0, <2>0, <2>1, <3>2 DEF DecrementRunning, SlotInv
  <2>2. CASE ~DecrementRunning(n)
    <3>1. Active' = Active
      BY <1>4, <2>2 DEF Job, RunNode, SetFinalStatus, ReadChild, DecrementIndegree, PushReady,
         MarkFailed, SkipNext, SkipExpand, SkipDone, Notify, JobGoto, Active
    <3>2. running' = running
      BY <1>4, <2>2 DEF Job, RunNode, SetFinalStatus, ReadChild, DecrementIndegree, PushReady,
         MarkFailed, SkipNext, SkipExpand, SkipDone, Notify, ctxVars
    <3> QED
      BY <1>0, <2>0, <3>1, <3>2 DEF SlotInv
  <2> QED
    BY <2>1, <2>2
<1>5. CASE UNCHANGED vars
  <2>1. Active' = Active /\ running' = running /\ mpc' = mpc
    BY <1>5 DEF vars, ctxVars, schedVars, jobVars, Active
  <2> QED
    BY <1>0, <2>1 DEF SlotInv
<1> QED
  BY <1>1, <1>2, <1>3, <1>4, <1>5, StepCases

(* failed is never taken back, and only MarkFailed sets it. *)
LEMMA FailedStep ==
  ASSUME CoreInv, [Next]_vars
  PROVE  /\ failed => failed'
         /\ failed' # failed => \E n \in Node : MarkFailed(n)
<1>1. CASE Quiet
  BY <1>1, QuietFrame DEF ctxVars
<1>2. CASE InitReadyQueue \/ PopReady \/ SetRunning \/ PostJob \/ ReturnVerdict
  BY <1>2 DEF InitReadyQueue, PopReady, SetRunning, PostJob, ReturnVerdict, ctxVars
<1>3. ASSUME NEW n \in Node, Job(n)
      PROVE  (failed => failed') /\ (failed' # failed => MarkFailed(n))
  <2>1. CASE MarkFailed(n)
    BY <2>1 DEF MarkFailed
  <2>2. CASE failed' = failed
    BY <2>2
  <2> QED
    BY <1>3, <2>1, <2>2 DEF Job, RunNode, SetFinalStatus, ReadChild, DecrementIndegree, PushReady,
       SkipNext, SkipExpand, SkipDone, DecrementRunning, Notify, ctxVars
<1>4. CASE UNCHANGED vars
  BY <1>4 DEF vars, ctxVars
<1> QED
  BY <1>1, <1>2, <1>3, <1>4, StepCases

LEMMA NoneForgottenNext ==
  ASSUME CoreInv, EndsInv, [Next]_vars
  PROVE  NoneForgotten'
<1> USE FunctionTypes DEF CoreInv, EndsInv
<1> SUFFICES ASSUME mpc' # "init", cfg.policy = "FailFast" => ~failed', NEW m \in Node,
                    m \notin cfg.nameless, status'[m] = "Pending", indegree'[m] = 0
             PROVE  Ready(m)'
  BY StatusStep DEF NoneForgotten
<1>0. status[m] = "Pending" /\ (cfg.policy = "FailFast" => ~failed)
  <2>1. cfg.policy = "FailFast" => ~failed
    BY FailedStep
  <2>2. CASE status[m] = "Running"
    <3>1. CASE Quiet
      BY <2>2, <3>1, QuietFrame
    <3>2. CASE SetRunning
      BY <2>2, <3>2 DEF SetRunning, ReadyInv
    <3>3. ASSUME NEW n \in Node, Job(n) PROVE FALSE
      <4>1. CASE SetFinalStatus(n)
        BY <2>2, <3>3, <4>1, OutcomeAssumption DEF SetFinalStatus, JobInv, FailureLike
      <4>2. CASE SkipNext(n)
        BY <2>2, <3>3, <4>2 DEF SkipNext
      <4> QED
        BY <2>2, <3>3, <4>1, <4>2 DEF Job, RunNode, ReadChild, DecrementIndegree, PushReady,
           MarkFailed, SkipExpand, SkipDone, DecrementRunning, Notify
    <3> QED
      BY <2>2, <3>1, <3>2, <3>3, StepCases
      DEF InitReadyQueue, PopReady, PostJob, ReturnVerdict, vars
  <2>3. CASE status[m] \in Terminal
    BY <2>3, StatusStep DEF Terminal, FailureLike
  <2> QED
    BY <2>1, <2>2, <2>3 DEF TaskStatus
<1>1. mpc # "init" /\ indegree[m] = 0 => Ready(m)
  BY <1>0 DEF NoneForgotten
<1> USE <1>0
<1>2. CASE Quiet
  <2>1. Ready(m)
    BY <1>1, <1>2, QuietFrame DEF ctxVars
  <2>2. Queued(m)' = Queued(m) /\ Pushing(m)' = Pushing(m)
    BY <1>2, QuietFrame DEF Queued, Pushing, Down, ctxVars, jobVars
  <2>3. Holding(m) => Holding(m)'
    BY <1>2, QuietFrame, QuietBranches DEF Holding
  <2> QED
    BY <2>1, <2>2, <2>3 DEF Ready
<1>3. CASE InitReadyQueue
  BY <1>3, InitialQueue DEF InitReadyQueue, Ready, Queued
<1>4. CASE PopReady
  <2>0. Ready(m) /\ (Pushing(m) => Pushing(m)')
    BY <1>1, <1>4 DEF PopReady, Pushing, Down, jobVars
  <2>1. CASE readyQueue = <<>>
    BY <1>4, <2>0, <2>1 DEF PopReady, Ready, Queued, Holding
  <2>2. CASE readyQueue # <<>>
    <3>1. /\ readyQueue' = Tail(readyQueue) /\ Len(readyQueue) \in Nat
          /\ readyQueue[1] \notin cfg.nameless => cur' = readyQueue[1] /\ mpc' = "filter"
          /\ mpc = "pop"
          /\ DOMAIN readyQueue = 1..Len(readyQueue)
          /\ DOMAIN readyQueue' = 1..Len(readyQueue) - 1
          /\ \A i \in 1..Len(readyQueue) - 1 : readyQueue'[i] = readyQueue[i + 1]
      <4>1. /\ Head(readyQueue) = readyQueue[1] /\ Tail(readyQueue) \in Seq(Node)
            /\ Len(readyQueue) \in Nat /\ Len(Tail(readyQueue)) = Len(readyQueue) - 1
            /\ \A i \in 1..Len(readyQueue) - 1 : Tail(readyQueue)[i] = readyQueue[i + 1]
        BY <2>2, HeadTail
      <4>2. /\ Head(readyQueue) \notin cfg.nameless => cur' = Head(readyQueue) /\ mpc' = "filter"
            /\ readyQueue' = Tail(readyQueue) /\ mpc = "pop"
        BY <1>4, <2>2 DEF PopReady
      <4> QED
        BY <4>1, <4>2
    <3>2. ASSUME Queued(m) PROVE Ready(m)'
      <4>1. PICK i \in DOMAIN readyQueue : readyQueue[i] = m
        BY <3>2 DEF Queued
      <4>2. CASE i = 1
        BY <3>1, <4>1, <4>2 DEF Ready, Holding
      <4>3. CASE i # 1
        <5>1. i - 1 \in DOMAIN readyQueue' /\ readyQueue'[i - 1] = m
          BY <3>1, <4>1, <4>3
        <5> QED
          BY <5>1 DEF Ready, Queued
      <4> QED
        BY <4>2, <4>3
    <3> QED
      BY <2>0, <3>1, <3>2 DEF Ready, Holding
  <2> QED
    BY <2>1, <2>2
<1>5. CASE SetRunning
  BY <1>1, <1>5 DEF SetRunning, ReadyInv, Ready, Queued, Pushing, Holding, Down, jobVars
<1>6. CASE PostJob
  BY <1>1, <1>6 DEF PostJob, ReadyInv, Ready, Queued, Pushing, Holding, Down
<1>7. CASE ReturnVerdict
  BY <1>1, <1>7 DEF ReturnVerdict, Ready, Queued, Pushing, Holding, Down, ctxVars, jobVars
<1>8. ASSUME NEW n \in Node, Job(n) PROVE Ready(m)'
  <2>0. mpc # "init"
    BY <1>8 DEF EndInv, Job, RunNode, SetFinalStatus, ReadChild, DecrementIndegree, PushReady,
       MarkFailed, SkipNext, SkipExpand, SkipDone, DecrementRunning, Notify
  <2>1. CASE DecrementIndegree(n)
    <3> DEFINE child == Down(n)[idx[n]]
    <3>1. /\ idx' = [idx EXCEPT ![n] = idx[n] + 1] /\ idx[n] \in Nat
          /\ indegree' = [indegree EXCEPT ![child] = indegree[child] - 1]
          /\ wpc' = [wpc EXCEPT ![n] = IF indegree[child] = 1 THEN "push" ELSE "release"]
          /\ wpc[n] = "decrement"
          /\ UNCHANGED <<cfg, readyQueue, mpc, cur>>
      BY <1>8, <2>1 DEF DecrementIndegree, JobGoto, schedVars
    <3>2. CASE indegree[m] = 0
      <4>1. Ready(m)
        BY <1>1, <2>0, <3>2
      <4>2. (Queued(m) => Queued(m)') /\ (Holding(m) => Holding(m)')
        BY <3>1 DEF Queued, Holding
      <4>3. Pushing(m) => Pushing(m)'
        BY <3>1 DEF Pushing, Down
      <4> QED
        BY <4>1, <4>2, <4>3 DEF Ready
    <3>3. CASE indegree[m] # 0
      <4>1. m = child /\ indegree[child] = 1
        BY <3>1, <3>3
      <4>2. wpc'[n] = "push" /\ idx'[n] - 1 = idx[n] /\ Down(n)' = Down(n)
        BY <1>8, <3>1, <4>1 DEF Down
      <4> QED
        BY <1>8, <4>1, <4>2 DEF Ready, Pushing
    <3> QED
      BY <3>2, <3>3
  <2>2. CASE PushReady(n)
    <3>1. /\ Down(n)[idx[n] - 1] \in Node
          /\ readyQueue' = Append(readyQueue, Down(n)[idx[n] - 1])
      BY <1>8, <2>2, ConfigFacts, SMTT(30) DEF PushReady, LoopInv, TypeOK
    <3>2. Ready(m)
      BY <1>1, <2>0, <2>2 DEF PushReady
    <3>3. Queued(m) \/ m = Down(n)[idx[n] - 1] => Queued(m)'
      <4> DEFINE x == Down(n)[idx[n] - 1]
      <4>1. /\ DOMAIN readyQueue = 1..Len(readyQueue) /\ Len(readyQueue) \in Nat
            /\ DOMAIN readyQueue' = 1..Len(readyQueue) + 1
            /\ readyQueue'[Len(readyQueue) + 1] = x
            /\ \A i \in 1..Len(readyQueue) : readyQueue'[i] = readyQueue[i]
        BY <3>1
      <4>2. /\ \A i \in DOMAIN readyQueue : i \in DOMAIN readyQueue'
            /\ Len(readyQueue) + 1 \in DOMAIN readyQueue'
        BY <4>1
      <4> HIDE DEF x
      <4>3. Queued(m) => Queued(m)'
        BY <4>1, <4>2 DEF Queued
      <4>4. m = x => Queued(m)'
        BY <4>1, <4>2 DEF Queued
      <4> QED
        BY <4>3, <4>4 DEF x
    <3>4. Pushing(m) => Pushing(m)' \/ m = Down(n)[idx[n] - 1]
      BY <1>8, <2>2 DEF PushReady, Pushing, JobGoto, Down
    <3>5. Holding(m) => Holding(m)'
      BY <2>2 DEF PushReady, Holding, schedVars
    <3> QED
      BY <3>2, <3>3, <3>4, <3>5 DEF Ready
  <2>3. CASE ~DecrementIndegree(n) /\ ~PushReady(n)
    <3>1. Ready(m)
      BY <1>1, <1>8, <2>0, <2>3
      DEF Job, RunNode, SetFinalStatus, ReadChild, MarkFailed, SkipNext, SkipExpand, SkipDone,
          DecrementRunning, Notify, ctxVars
    <3>2. (Queued(m) => Queued(m)') /\ (Holding(m) => Holding(m)')
      BY <1>8, <2>3
      DEF Job, RunNode, SetFinalStatus, ReadChild, MarkFailed, SkipNext, SkipExpand, SkipDone,
          DecrementRunning, Notify, SchedGoto, Queued, Holding, ctxVars, schedVars
    <3>3. Pushing(m) => Pushing(m)'
      <4>1. \A p \in Node : wpc[p] = "push" => wpc'[p] = "push" /\ idx'[p] = idx[p]
        BY <1>8, <2>3
        DEF Job, RunNode, SetFinalStatus, ReadChild, MarkFailed, SkipNext, SkipExpand, SkipDone,
            DecrementRunning, Notify, JobGoto
      <4>2. cfg' = cfg
        BY StatusStep
      <4> QED
        BY <4>1, <4>2 DEF Pushing, Down
    <3> QED
      BY <3>1, <3>2, <3>3 DEF Ready
  <2> QED
    BY <2>1, <2>2, <2>3
<1>9. CASE UNCHANGED vars
  BY <1>1, <1>9 DEF vars, ctxVars, schedVars, jobVars, Ready, Queued, Pushing, Holding, Down
<1> QED
  BY <1>2, <1>3, <1>4, <1>5, <1>6, <1>7, <1>8, <1>9, StepCases

LEMMA SkipReachesNext ==
  ASSUME CoreInv, EndsInv, [Next]_vars
  PROVE  SkipReaches'
<1> USE FunctionTypes DEF CoreInv, EndsInv
<1>0. cfg' = cfg /\ \A m \in Node : status[m] = "Skipped" => status'[m] = "Skipped"
  BY StatusStep DEF Terminal
<1> DEFINE Reached(p, m) == \/ status[m] = "Skipped"
                            \/ wpc[p] = "fail"
                            \/ \E q \in Node : m \in toVisit[q]
                            \/ \E q \in Node : wpc[q] = "expand" /\ skipping[q] = p
<1> SUFFICES ASSUME cfg.policy = "SkipDownstream", NEW p \in Node, status'[p] \in Unsuccessful,
                    NEW m \in Children(p)
             PROVE  Reached(p, m)'
  BY <1>0 DEF SkipReaches, Children
<1>1. m \in Node
  BY ConfigFacts DEF TypeOK
<1>2. status[p] \in Unsuccessful => Reached(p, m)
  BY DEF SkipReaches
<1>3. CASE Quiet
  BY <1>0, <1>2, <1>3, QuietFrame DEF jobVars
<1>4. CASE InitReadyQueue \/ PopReady \/ ReturnVerdict
  BY <1>0, <1>2, <1>4 DEF InitReadyQueue, PopReady, ReturnVerdict, jobVars
<1>5. CASE SetRunning
  <2>1. status'[p] = status[p]
    BY <1>5 DEF SetRunning, ReadyInv, Unsuccessful, FailureLike
  <2> QED
    BY <1>0, <1>1, <1>2, <1>5, <2>1 DEF SetRunning, jobVars
<1>6. CASE PostJob
  <2>1. \A q \in Node : wpc[q] \in {"fail", "expand"} => wpc'[q] = wpc[q]
    BY <1>6 DEF PostJob, ReadyInv
  <2> QED
    BY <1>0, <1>1, <1>2, <1>6, <2>1 DEF PostJob
<1>7. ASSUME NEW n \in Node, Job(n) PROVE Reached(p, m)'
  <2>1. CASE SetFinalStatus(n)
    <3>1. CASE p = n
      BY <1>7, <2>1, <3>1 DEF SetFinalStatus, JobGoto, Unsuccessful, FailureLike
    <3>2. CASE p # n
      BY <1>0, <1>1, <1>2, <1>7, <2>1, <3>2 DEF SetFinalStatus, JobGoto
    <3> QED
      BY <3>1, <3>2
  <2>2. CASE MarkFailed(n)
    <3>1. /\ toVisit' = [toVisit EXCEPT ![n] = Children(n)]
          /\ wpc[n] = "fail" /\ wpc' = [wpc EXCEPT ![n] = "skip"]
          /\ UNCHANGED <<status, skipping>>
      BY <2>2 DEF MarkFailed, JobGoto
    <3>2. toVisit[n] = {}
      BY <1>7, <3>1 DEF SkipInv
    <3>3. CASE p = n
      BY <1>7, <3>1, <3>3
    <3>4. CASE p # n
      BY <1>0, <1>1, <1>2, <1>7, <3>1, <3>2, <3>4
    <3> QED
      BY <3>3, <3>4
  <2>3. CASE SkipNext(n)
    <3>1. PICK c \in toVisit[n] : /\ toVisit' = [toVisit EXCEPT ![n] = @ \ {c}]
                                  /\ skipping' = [skipping EXCEPT ![n] = c]
                                  /\ status' = [status EXCEPT ![c] = "Skipped"]
                                  /\ wpc[n] = "skip"
                                  /\ wpc' = [wpc EXCEPT ![n] = "expand"]
      BY <2>3 DEF SkipNext, JobGoto
    <3>2. c \in Node
      BY <1>7, <3>1
    <3>3. CASE p = c
      BY <1>7, <3>1, <3>2, <3>3
    <3>4. CASE p # c
      <4>1. Reached(p, m)
        BY <1>2, <3>1, <3>4
      <4>2. CASE m = c
        BY <3>1, <3>2, <4>2
      <4>3. CASE m # c
        BY <1>0, <1>1, <1>7, <3>1, <4>1, <4>3
      <4> QED
        BY <4>2, <4>3
    <3> QED
      BY <3>3, <3>4
  <2>4. CASE SkipExpand(n)
    <3>1. /\ toVisit' = [toVisit EXCEPT ![n] = toVisit[n] \cup (Children(skipping[n]) \ visited[n])]
          /\ wpc[n] = "expand" /\ wpc' = [wpc EXCEPT ![n] = "skip"]
          /\ UNCHANGED <<status, skipping>>
      BY <2>4 DEF SkipExpand, JobGoto
    <3>2. CASE p = skipping[n]
      <4>1. m \in toVisit'[n] \/ m \in visited[n]
        BY <1>7, <3>1, <3>2
      <4>2. m \in visited[n] => m \in toVisit[n] \/ status[m] = "Skipped"
        BY <1>7 DEF SkipInv
      <4> QED
        BY <1>7, <3>1, <4>1, <4>2
    <3>3. CASE p # skipping[n]
      <4>1. Reached(p, m)
        BY <1>2, <3>1
      <4> QED
        BY <1>7, <3>1, <3>3, <4>1
    <3> QED
      BY <3>2, <3>3
  <2>5. CASE RunNode(n) \/ ReadChild(n) \/ DecrementIndegree(n) \/ PushReady(n) \/ SkipDone(n)
             \/ DecrementRunning(n) \/ Notify(n)
    <3>1. \A q \in Node : wpc[q] \in {"fail", "expand"} => wpc'[q] = wpc[q]
      BY <1>7, <2>5 DEF RunNode, ReadChild, DecrementIndegree, PushReady, SkipDone,
         DecrementRunning, Notify, JobGoto
    <3>2. UNCHANGED <<status, toVisit, skipping>>
      BY <2>5 DEF RunNode, ReadChild, DecrementIndegree, PushReady, SkipDone,
         DecrementRunning, Notify
    <3> QED
      BY <1>2, <3>1, <3>2
  <2> QED
    BY <1>7, <2>1, <2>2, <2>3, <2>4, <2>5 DEF Job
<1>8. CASE UNCHANGED vars
  BY <1>2, <1>8 DEF vars, jobVars
<1> QED
  BY <1>3, <1>4, <1>5, <1>6, <1>7, <1>8, StepCases

LEMMA FailedInvNext ==
  ASSUME CoreInv, EndsInv, [Next]_vars
  PROVE  FailedInv'
<1> USE FunctionTypes DEF CoreInv, EndsInv
<1>1. ASSUME failed' PROVE NodesIn(FailureLike)' # {}
  <2>1. ASSUME NEW n \in Node, status[n] \in FailureLike PROVE NodesIn(FailureLike)' # {}
    <3>1. status'[n] = status[n]
      BY <2>1, StatusStep DEF Terminal
    <3> QED
      BY <2>1, <3>1 DEF NodesIn
  <2>2. CASE failed
    BY <2>1, <2>2 DEF FailedInv, NodesIn
  <2>3. CASE ~failed
    <3>1. PICK n \in Node : MarkFailed(n)
      BY <1>1, <2>3, FailedStep
    <3> QED
      BY <2>1, <3>1 DEF MarkFailed, JobInv
  <2> QED
    BY <2>2, <2>3
<1>2. ASSUME NEW m \in Node, status'[m] \in FailureLike PROVE failed' \/ wpc'[m] = "fail"
  <2>1. CASE status[m] \in FailureLike
    <3>1. CASE failed
      BY <3>1, FailedStep
    <3>2. CASE ~failed
      <4>1. wpc[m] = "fail"
        BY <2>1, <3>2 DEF FailedInv
      <4>2. CASE MarkFailed(m)
        BY <4>2 DEF MarkFailed
      <4>3. CASE ~MarkFailed(m)
        <5>1. CASE Quiet
          BY <4>1, <5>1, QuietFrame DEF jobVars
        <5>2. CASE PostJob
          BY <4>1, <5>2 DEF PostJob, ReadyInv
        <5>3. ASSUME NEW n \in Node, Job(n) PROVE wpc'[m] = "fail"
          <6>1. n # m
            BY <4>1, <4>3, <5>3 DEF Job, RunNode, SetFinalStatus, ReadChild, DecrementIndegree,
               PushReady, SkipNext, SkipExpand, SkipDone, DecrementRunning, Notify
          <6> QED
            BY <4>1, <5>3, <6>1 DEF Job, RunNode, SetFinalStatus, ReadChild, DecrementIndegree,
               PushReady, MarkFailed, SkipNext, SkipExpand, SkipDone, DecrementRunning, Notify, JobGoto
        <5> QED
          BY <4>1, <5>1, <5>2, <5>3, StepCases
          DEF InitReadyQueue, PopReady, SetRunning, ReturnVerdict, vars, jobVars
      <4> QED
        BY <4>2, <4>3
    <3> QED
      BY <3>1, <3>2
  <2>2. CASE status[m] \notin FailureLike
    <3>1. CASE Quiet
      BY <1>2, <2>2, <3>1, QuietFrame
    <3>2. CASE SetRunning
      BY <1>2, <2>2, <3>2 DEF SetRunning, FailureLike
    <3>3. ASSUME NEW n \in Node, Job(n) PROVE wpc'[m] = "fail"
      <4>1. CASE SetFinalStatus(n)
        BY <1>2, <2>2, <3>3, <4>1 DEF SetFinalStatus, JobGoto, FailureLike
      <4>2. CASE SkipNext(n)
        BY <1>2, <2>2, <3>3, <4>2 DEF SkipNext, FailureLike
      <4> QED
        BY <1>2, <2>2, <3>3, <4>1, <4>2 DEF Job, RunNode, ReadChild, DecrementIndegree, PushReady,
           MarkFailed, SkipExpand, SkipDone, DecrementRunning, Notify
    <3> QED
      BY <1>2, <2>2, <3>1, <3>2, <3>3, StepCases
      DEF InitReadyQueue, PopReady, PostJob, ReturnVerdict, vars
  <2> QED
    BY <2>1, <2>2
<1> QED
  BY <1>1, <1>2 DEF FailedInv

(* After the last check of the scheduler no job holds a slot. *)
LEMMA EndQuiet ==
  ASSUME CoreInv, EndsInv, mpc \in {"verdict", "returned"}, NEW n \in Node
  PROVE  wpc[n] \in {"idle", "notify", "done"}
<1>1. Cardinality(Active) = 0
  BY DEF EndsInv, EndInv, SlotInv
<1>2. Active = {}
  BY <1>1, ActiveFinite, FS_EmptySet
<1> QED
  BY <1>2 DEF Active

LEMMA EndInvNext ==
  ASSUME CoreInv, EndsInv, [Next]_vars
  PROVE  EndInv'
<1> USE FunctionTypes DEF CoreInv, EndsInv
<1>1. CASE Quiet
  BY <1>1, QuietFrame, QuietBranches DEF EndInv, ctxVars
<1>2. CASE InitReadyQueue
  BY <1>2 DEF InitReadyQueue, SchedGoto, EndInv
<1>3. CASE PopReady
  BY <1>3 DEF PopReady, SchedGoto, EndInv
<1>4. CASE SetRunning
  BY <1>4 DEF SetRunning, SchedGoto, EndInv
<1>5. CASE PostJob
  BY <1>5 DEF PostJob, SchedGoto, EndInv
<1>6. CASE ReturnVerdict
  BY <1>6 DEF ReturnVerdict, SchedGoto, EndInv, ctxVars
<1>7. ASSUME NEW n \in Node, Job(n) PROVE EndInv'
  <2>1. mpc # "init"
    BY <1>7 DEF EndInv, Job, RunNode, SetFinalStatus, ReadChild, DecrementIndegree, PushReady,
       MarkFailed, SkipNext, SkipExpand, SkipDone, DecrementRunning, Notify
  <2>2. verdict' = verdict /\ (mpc' = mpc \/ (mpc' = "waitQueue" /\ mpc = "waiting"))
    <3>1. CASE Notify(n)
      BY <3>1 DEF Notify, SchedGoto
    <3> QED
      BY <1>7, <3>1 DEF Job, RunNode, SetFinalStatus, ReadChild, DecrementIndegree, PushReady,
         MarkFailed, SkipNext, SkipExpand, SkipDone, DecrementRunning, schedVars
  <2>3. CASE mpc \in {"verdict", "returned"}
    <3>1. Notify(n)
      BY <1>7, <2>3, EndQuiet DEF Job, RunNode, SetFinalStatus, ReadChild, DecrementIndegree, PushReady,
         MarkFailed, SkipNext, SkipExpand, SkipDone, DecrementRunning
    <3> QED
      BY <2>1, <2>3, <3>1 DEF Notify, EndInv, SchedGoto, ctxVars
  <2>4. CASE mpc \notin {"verdict", "returned"}
    BY <2>1, <2>2, <2>4 DEF EndInv
  <2> QED
    BY <2>3, <2>4
<1>8. CASE UNCHANGED vars
  BY <1>8 DEF vars, EndInv, ctxVars, schedVars, jobVars
<1> QED
  BY <1>1, <1>2, <1>3, <1>4, <1>5, <1>6, <1>7, <1>8, StepCases

LEMMA RowInvNext ==
  ASSUME CoreInv, EndsInv, [Next]_vars
  PROVE  RowInv'
<1> USE FunctionTypes DEF CoreInv, EndsInv
<1>1. CASE Quiet
  BY <1>1, QuietFrame DEF RowInv, ctxVars, jobVars
<1>2. CASE InitReadyQueue \/ PopReady \/ ReturnVerdict
  BY <1>2 DEF InitReadyQueue, PopReady, ReturnVerdict, RowInv, ctxVars, jobVars
<1>3. CASE SetRunning
  BY <1>3 DEF SetRunning, RowInv, ReadyInv, jobVars
<1>4. CASE PostJob
  BY <1>4 DEF PostJob, RowInv, ReadyInv
<1>5. ASSUME NEW n \in Node, Job(n) PROVE RowInv'
  <2> USE <1>5 DEF RowInv, JobGoto, ctxVars, schedVars, jobVars
  <2>1. CASE RunNode(n)
    BY <2>1 DEF RunNode, JobInv
  <2>2. CASE SetFinalStatus(n)
    <3>1. result[n] \notin {"Pending", "Skipped"}
      BY <2>2, OutcomeAssumption DEF SetFinalStatus, JobInv, FailureLike
    <3> QED
      BY <2>2, <3>1 DEF SetFinalStatus
  <2>3. CASE ReadChild(n)
    BY <2>3 DEF ReadChild
  <2>4. CASE DecrementIndegree(n)
    BY <2>4 DEF DecrementIndegree
  <2>5. CASE PushReady(n)
    BY <2>5 DEF PushReady
  <2>6. CASE MarkFailed(n)
    BY <2>6 DEF MarkFailed
  <2>7. CASE SkipNext(n)
    BY <2>7 DEF SkipNext
  <2>8. CASE SkipExpand(n)
    <3>1. skipping[n] \in Node /\ status[skipping[n]] = "Skipped" /\ wpc[skipping[n]] = "idle"
      BY <2>8, UnstartedIdle DEF SkipExpand, SkipInv, Unstarted
    <3> QED
      BY <2>8, <3>1 DEF SkipExpand
  <2>9. CASE SkipDone(n)
    BY <2>9 DEF SkipDone
  <2>10. CASE DecrementRunning(n)
    BY <2>10 DEF DecrementRunning
  <2>11. CASE Notify(n)
    BY <2>11 DEF Notify
  <2> QED
    BY <2>1, <2>2, <2>3, <2>4, <2>5, <2>6, <2>7, <2>8, <2>9, <2>10, <2>11 DEF Job
<1>6. CASE UNCHANGED vars
  BY <1>6 DEF vars, RowInv, ctxVars, jobVars
<1> QED
  BY <1>1, <1>2, <1>3, <1>4, <1>5, <1>6, StepCases

LEMMA LateInvNext ==
  ASSUME CoreInv, EndsInv, [Next]_vars
  PROVE  LateInv'
<1> USE DEF CoreInv, EndsInv
<1> SUFFICES ASSUME cfg.policy = "FailFast", late' # {}
             PROVE  failed' /\ mpc' \notin {"recheck", "start"} /\ \E n \in Node : late' = {n}
  BY StatusStep DEF LateInv
<1>1. CASE SetRunning
  <2>1. late = {}
    BY <1>1 DEF SetRunning, LateInv
  <2> QED
    BY <1>1, <2>1 DEF SetRunning, SchedGoto, ReadyInv
<1>2. CASE ~SetRunning
  <2>1. late' = late
    <3>1. CASE Quiet
      BY <3>1, QuietFrame DEF ctxVars
    <3> QED
      BY <1>2, <3>1, StepCases
      DEF InitReadyQueue, PopReady, PostJob, ReturnVerdict, vars, ctxVars, Job, RunNode, SetFinalStatus,
          ReadChild, DecrementIndegree, PushReady, MarkFailed, SkipNext, SkipExpand, SkipDone,
          DecrementRunning, Notify
  <2>2. failed /\ mpc \notin {"recheck", "start"} /\ \E n \in Node : late = {n}
    BY <2>1 DEF LateInv
  <2>3. failed'
    BY <2>2, FailedStep
  <2>4. mpc' \notin {"recheck", "start"}
    <3>1. CASE Quiet
      BY <2>2, <3>1, QuietBranches
    <3> QED
      BY <1>2, <2>2, <3>1, StepCases
      DEF InitReadyQueue, PopReady, PostJob, ReturnVerdict, vars, schedVars, Job, RunNode, SetFinalStatus,
          ReadChild, DecrementIndegree, PushReady, MarkFailed, SkipNext, SkipExpand, SkipDone,
          DecrementRunning, Notify, SchedGoto
  <2> QED
    BY <2>1, <2>2, <2>3, <2>4
<1> QED
  BY <1>1, <1>2

LEMMA IInvInit == Init => IInv
<1> SUFFICES ASSUME Init PROVE EndsInv
  BY CoreInvInit DEF IInv
<1>1. SlotInv
  <2>1. Active = {}
    BY DEF Init, Active
  <2>2. MaxParallel \in Nat \ {0}
    BY ConfigFacts DEF Init, RunInit
  <2> QED
    BY <2>1, <2>2, FS_EmptySet DEF Init, SlotInv
<1>2. NoneForgotten /\ EndInv
  BY DEF Init, RunInit, NoneForgotten, EndInv
<1>3. SkipReaches /\ RowInv
  BY DEF Init, RunInit, SkipReaches, RowInv, Unsuccessful, FailureLike
<1>4. FailedInv
  BY DEF Init, RunInit, FailedInv, FailureLike
<1>5. LateInv
  BY DEF Init, LateInv
<1> QED
  BY <1>1, <1>2, <1>3, <1>4, <1>5 DEF EndsInv

LEMMA IInvNext == IInv /\ [Next]_vars => IInv'
<1> SUFFICES ASSUME CoreInv, EndsInv, [Next]_vars PROVE IInv'
  BY DEF IInv
<1>1. CoreInv'
  BY CoreInvNext
<1>2. SlotInv'
  BY SlotInvNext DEF EndsInv
<1> QED
  BY <1>1, <1>2, NoneForgottenNext, SkipReachesNext, FailedInvNext, EndInvNext, RowInvNext, LateInvNext
  DEF IInv, EndsInv

(* The inductive invariant of the executor. *)
THEOREM Invariance == Spec => []IInv
BY IInvInit, IInvNext, PTL DEF Spec

-----------------------------------------------------------------------------
(***************************************************************************)
(* What the invariant gives.                                               *)
(***************************************************************************)
LEMMA RunningNodes ==
  ASSUME IInv
  PROVE  /\ NodesIn({"Running"}) \subseteq IF mpc = "post" THEN Active \cup {cur} ELSE Active
         /\ Cardinality(NodesIn({"Running"})) <= MaxParallel
         /\ mpc = "start" => Cardinality(NodesIn({"Running"})) < MaxParallel
<1> USE DEF IInv, CoreInv, EndsInv
<1>1. NodesIn({"Running"}) \subseteq IF mpc = "post" THEN Active \cup {cur} ELSE Active
  <2> SUFFICES ASSUME NEW n \in Node, status[n] = "Running"
               PROVE  n \in Active \/ (mpc = "post" /\ cur = n)
    BY DEF NodesIn
  <2>1. CASE wpc[n] = "idle"
    BY <2>1 DEF JobInv, Unstarted
  <2>2. CASE wpc[n] \in {"notify", "done"}
    BY <2>2, OutcomeAssumption DEF JobInv, FailureLike
  <2> QED
    BY <2>1, <2>2 DEF Active
<1>2. /\ MaxParallel \in Nat /\ running = Cardinality(Active) /\ running <= MaxParallel
      /\ mpc \in {"start", "post"} => running < MaxParallel
  BY ConfigFacts DEF TypeOK, SlotInv
<1>3. IsFiniteSet(Active) /\ Cardinality(Active) \in Nat
  BY ActiveFinite
<1>4. CASE mpc = "post"
  <2>1. IsFiniteSet(Active \cup {cur}) /\ Cardinality(Active \cup {cur}) <= Cardinality(Active) + 1
    BY <1>3, FS_AddElement
  <2>2. /\ Cardinality(NodesIn({"Running"})) <= Cardinality(Active \cup {cur})
        /\ Cardinality(NodesIn({"Running"})) \in Nat /\ Cardinality(Active \cup {cur}) \in Nat
    BY <1>1, <1>4, <2>1, FS_Subset, FS_CardinalityType
  <2> QED
    BY <1>1, <1>2, <1>3, <1>4, <2>1, <2>2
<1>5. CASE mpc # "post"
  <2>1. /\ Cardinality(NodesIn({"Running"})) <= Cardinality(Active)
        /\ Cardinality(NodesIn({"Running"})) \in Nat
    BY <1>1, <1>3, <1>5, FS_Subset, FS_CardinalityType
  <2> QED
    BY <1>1, <1>2, <1>3, <1>5, <2>1
<1> QED
  BY <1>4, <1>5

(* At most max_parallel nodes run at a time. *)
THEOREM SlotsRespectedCorrect == Spec => []SlotsRespected
<1>1. IInv => SlotsRespected
  BY RunningNodes DEF SlotsRespected
<1> QED
  BY <1>1, Invariance, PTL

(* Once the scheduler has seen an empty queue and no running node, a run   *)
(* in which FailFast dropped nothing has settled every node that is not    *)
(* stranded: a pending node with a name, none of whose dependencies is     *)
(* pending, would be ready, or skipped.                                    *)
LEMMA AllSettled ==
  ASSUME IInv, mpc \in {"verdict", "returned"}, cfg.policy = "FailFast" => ~failed
  PROVE  NodesIn({"Running"}) = {} /\ OnlyStranded
<1> USE FunctionTypes DEF IInv, CoreInv, EndsInv
<1>1. \A n \in Node : wpc[n] \in {"idle", "notify", "done"}
  BY EndQuiet
<1>2. NodesIn({"Running"}) = {}
  BY <1>1, RunningNodes DEF Active
<1>3. \A n \in Node : ~Ready(n)
  <2>1. readyQueue = <<>>
    BY DEF EndInv
  <2> QED
    <3>1. DOMAIN readyQueue = {}
      BY <2>1
    <3> QED
      BY <1>1, <3>1 DEF Ready, Queued, Pushing, Holding
<1>4. SUFFICES ASSUME NEW n \in NodesIn({"Pending"}), n \notin cfg.nameless,
                      Deps(n) \cap NodesIn({"Pending"}) = {}
               PROVE  FALSE
  BY <1>2 DEF OnlyStranded
<1>6. n \in Node /\ status[n] = "Pending"
  BY DEF NodesIn
<1>7. ASSUME NEW p \in Node, p \in Deps(n) PROVE status[p] = "Success"
  <2>1. n \in Children(p) /\ status[p] \notin {"Pending", "Running"}
    BY <1>2, <1>4, <1>7 DEF Deps, NodesIn
  <2>2. CASE status[p] \in Unsuccessful
    <3>1. cfg.policy = "SkipDownstream"
      <4>1. cfg.policy \in FailPolicy
        BY ConfigFacts DEF TypeOK
      <4>2. CASE status[p] = "Skipped"
        BY <4>2 DEF SkipInv
      <4>3. CASE status[p] \in FailureLike
        BY <1>1, <4>1, <4>3 DEF FailedInv, FailPolicy
      <4> QED
        BY <2>2, <4>2, <4>3 DEF Unsuccessful
    <3>2. \A q \in Node : toVisit[q] = {}
      BY <1>1 DEF SkipInv
    <3> QED
      BY <1>1, <1>6, <2>1, <2>2, <3>1, <3>2 DEF SkipReaches
  <2> QED
    BY <2>1, <2>2 DEF TaskStatus, Terminal, Unsuccessful
<1>8. OpenEdges(n) = {}
  <2> SUFFICES ASSUME NEW e \in OpenEdges(n) PROVE FALSE
    OBVIOUS
  <2>1. /\ e = <<e[1], e[2]>> /\ e[1] \in Node /\ e[2] \in Nat
        /\ e \in InEdges(n) /\ e[2] >= idx[e[1]]
    BY <1>6, EdgeFacts DEF TypeOK, OpenEdges
  <2> DEFINE p == e[1]
             i == e[2]
  <2>2. <<p, i>> \in InEdges(n)
    BY <2>1
  <2>3. i \in 1..Len(Down(p)) /\ Down(p)[i] = n
    BY <1>6, <2>1, <2>2, EdgeFacts DEF TypeOK
  <2>4. p \in Deps(n)
    BY <1>6, <2>1, <2>3, EdgeFacts DEF TypeOK
  <2>5. status[p] = "Success"
    BY <1>7, <2>1, <2>4
  <2>6. wpc[p] \in {"notify", "done"}
    BY <1>1, <2>1, <2>5 DEF JobInv, Unstarted
  <2>7. idx[p] = Len(Down(p)) + 1
    BY <2>1, <2>5, <2>6 DEF LoopInv
  <2>8. Len(Down(p)) \in Nat
    BY <2>1, ConfigFacts DEF TypeOK
  <2> QED
    BY <2>1, <2>3, <2>7, <2>8
<1>9. indegree[n] = 0
  BY <1>6, <1>8, OpenFinite DEF CountInv
<1> QED
  BY <1>3, <1>4, <1>6, <1>9 DEF NoneForgotten

(* When every id is a real one, nothing is stranded. *)
LEMMA NoneStranded ==
  ASSUME cfg \in Configs, OnlyStranded, cfg.nameless = {}
  PROVE  NodesIn({"Pending"}) = {}
<1> SUFFICES ASSUME NodesIn({"Pending"}) # {} PROVE FALSE
  OBVIOUS
<1>1. Acyclic(cfg.down) /\ NodesIn({"Pending"}) \in SUBSET Node
  BY ConfigFacts DEF NodesIn
<1>2. PICK n \in NodesIn({"Pending"}) : \A p \in NodesIn({"Pending"}) : n \notin Children(p)
  BY <1>1 DEF Acyclic, Children
<1> QED
  BY <1>2 DEF OnlyStranded, Deps

LEMMA Settled ==
  ASSUME IInv, mpc \in {"verdict", "returned"}
  PROVE  /\ NodesIn({"Running"}) = {}
         /\ failed <=> NodesIn(FailureLike) # {}
         /\ ~failed => NodesIn({"Success", "Pending"}) = Node /\ OnlyStranded
         /\ cfg.policy = "SkipDownstream" => OnlyStranded
<1> USE DEF IInv, CoreInv, EndsInv
<1>0. \A n \in Node : wpc[n] \in {"idle", "notify", "done"}
  BY EndQuiet
<1>1. NodesIn({"Running"}) = {}
  BY <1>0, RunningNodes DEF Active
<1>2. failed <=> NodesIn(FailureLike) # {}
  BY <1>0 DEF FailedInv, NodesIn
<1>3. ASSUME ~failed PROVE NodesIn({"Success", "Pending"}) = Node /\ OnlyStranded
  <2>1. NodesIn({"Running"}) = {} /\ NodesIn(FailureLike) = {} /\ OnlyStranded
    BY <1>2, <1>3, AllSettled
  <2>2. NodesIn({"Skipped"}) = {}
    <3> SUFFICES ASSUME NodesIn({"Skipped"}) # {} PROVE FALSE
      OBVIOUS
    <3>1. PICK n \in NodesIn({"Skipped"}) : \A p \in NodesIn({"Skipped"}) : n \notin Children(p)
      <4>1. Acyclic(cfg.down)
        BY ConfigFacts DEF TypeOK
      <4>2. NodesIn({"Skipped"}) \in SUBSET Node
        BY DEF NodesIn
      <4> QED
        BY <4>1, <4>2 DEF Acyclic, Children
    <3>2. HasUnsuccessfulDep(n)
      BY DEF SkipInv, NodesIn
    <3> QED
      BY <2>1, <3>1, <3>2 DEF HasUnsuccessfulDep, NodesIn, Unsuccessful, Deps
  <2> QED
    BY <2>1, <2>2, FunctionTypes DEF NodesIn, TaskStatus, Terminal
<1>4. cfg.policy = "SkipDownstream" => OnlyStranded
  BY AllSettled
<1> QED
  BY <1>1, <1>2, <1>3, <1>4

(* execute() returns the right verdict, and unless FailFast has dropped    *)
(* nodes only the one with an empty id and what waits for it are pending.  *)
THEOREM VerdictSoundCorrect == Spec => []VerdictSound
<1>1. IInv => VerdictSound
  <2> SUFFICES ASSUME IInv, mpc = "returned" PROVE VerdictSound
    BY DEF VerdictSound
  <2>1. verdict = IF failed THEN "Failed" ELSE "Success"
    BY DEF IInv, EndsInv, EndInv
  <2>2. cfg \in Configs
    BY DEF IInv, CoreInv, TypeOK
  <2> QED
    BY <2>1, <2>2, Settled, NoneStranded DEF VerdictSound
<1> QED
  BY <1>1, Invariance, PTL

(* At the end of a run every row has caught up with the status. *)
LEMMA RowsEqual ==
  ASSUME IInv, mpc \in {"verdict", "returned"}
  PROVE  taskRun = status
<1> USE DEF IInv, CoreInv, EndsInv
<1>1. ASSUME NEW n \in Node PROVE taskRun[n] = status[n]
  <2>1. \A p \in Node : wpc[p] \in {"idle", "notify", "done"}
    BY EndQuiet
  <2>2. CASE wpc[n] = "idle"
    BY <2>1, <2>2 DEF JobInv, RowInv, Unstarted
  <2>3. CASE wpc[n] \in {"notify", "done"}
    BY <2>3 DEF JobInv, RowInv
  <2> QED
    BY <2>1, <2>2, <2>3
<1> QED
  BY <1>1, FunctionTypes

(* The task_run rows agree with the statuses when execute() returns. *)
THEOREM RowsAgreeCorrect == Spec => []RowsAgree
<1>1. IInv => RowsAgree
  BY RowsEqual DEF RowsAgree
<1> QED
  BY <1>1, Invariance, PTL

(* Under FailFast at most one node starts after the failure is recorded. *)
THEOREM LateStartCorrect == Spec => []AtMostOneLateStart
<1>1. IInv => AtMostOneLateStart
  <2> SUFFICES ASSUME IInv, cfg.policy = "FailFast" PROVE Cardinality(late) <= 1
    BY DEF AtMostOneLateStart
  <2>1. late = {} \/ \E n \in Node : late = {n}
    BY DEF IInv, EndsInv, LateInv
  <2>2. CASE late = {}
    BY <2>2, FS_EmptySet
  <2>3. ASSUME NEW n \in Node, late = {n} PROVE Cardinality(late) = 1
    BY <2>3, FS_Singleton, Zenon
  <2> QED
    BY <2>1, <2>2, <2>3
<1> QED
  BY <1>1, Invariance, PTL

-----------------------------------------------------------------------------
(***************************************************************************)
(* The executor implements the abstract run: starting, finishing and       *)
(* skipping a node and returning are the four steps that DagRun sees.      *)
(***************************************************************************)
LEMMA RefinementStep ==
  ASSUME IInv, [Next]_vars
  PROVE  [RunNext]_runVars
<1> USE FunctionTypes DEF IInv, CoreInv, EndsInv
<1>1. CASE Quiet
  BY <1>1, QuietFrame DEF runVars
<1>2. CASE InitReadyQueue \/ PopReady \/ PostJob
  BY <1>2 DEF InitReadyQueue, PopReady, PostJob, runVars
<1>3. CASE SetRunning
  <2>1. /\ cur \in Node /\ cur \notin cfg.nameless /\ status[cur] = "Pending"
        /\ verdict = "none" /\ mpc = "start"
    BY <1>3 DEF SetRunning, ReadyInv, EndInv
  <2>2. Deps(cur) \subseteq NodesIn({"Success"})
    BY <2>1, ReadyNotOpen, StartedDeps DEF Ready, Holding
  <2>3. Cardinality(NodesIn({"Running"})) < MaxParallel
    BY <2>1, RunningNodes
  <2>4. Start(cur)
    BY <1>3, <2>1, <2>2, <2>3 DEF SetRunning, Start
  <2> QED
    BY <2>1, <2>4 DEF RunNext
<1>4. CASE ReturnVerdict
  <2> DEFINE v == IF failed THEN "Failed" ELSE "Success"
  <2>1. verdict = "none" /\ mpc = "verdict"
    BY <1>4 DEF ReturnVerdict, EndInv
  <2>2. Return(v)
    BY <1>4, <2>1, Settled DEF ReturnVerdict, Return
  <2>3. v \in Verdict
    BY DEF Verdict
  <2> QED
    BY <2>2, <2>3 DEF RunNext
<1>5. ASSUME NEW n \in Node, Job(n) PROVE [RunNext]_runVars
  <2>1. CASE SetFinalStatus(n)
    <3>1. result[n] \in Outcomes /\ Finish(n, result[n])
      BY <1>5, <2>1 DEF SetFinalStatus, JobInv, Finish
    <3> QED
      BY <1>5, <3>1 DEF RunNext
  <2>2. CASE SkipNext(n)
    <3>1. PICK c \in toVisit[n] : status' = [status EXCEPT ![c] = "Skipped"]
      BY <2>2 DEF SkipNext
    <3>2. c \in Node /\ HasUnsuccessfulDep(c) /\ cfg.policy = "SkipDownstream"
      BY <1>5, <2>2, <3>1 DEF SkipNext, SkipInv
    <3>3. status[c] \in Unstarted
      BY <3>2, BelowUnsuccessful
    <3>4. CASE status[c] = "Skipped"
      BY <2>2, <3>1, <3>2, <3>4 DEF SkipNext, runVars
    <3>5. CASE status[c] = "Pending"
      <4>1. verdict = "none"
        <5>1. mpc # "returned"
          BY <1>5, <2>2, EndQuiet DEF SkipNext
        <5> QED
          BY <5>1 DEF EndInv
      <4>2. Skip(c)
        BY <2>2, <3>1, <3>2, <3>5, <4>1 DEF Skip, SkipNext, HasUnsuccessfulDep, Unsuccessful
      <4> QED
        BY <3>2, <4>2 DEF RunNext
    <3> QED
      BY <3>3, <3>4, <3>5 DEF Unstarted
  <2>3. CASE UNCHANGED runVars
    BY <2>3
  <2> QED
    BY <1>5, <2>1, <2>2, <2>3
    DEF runVars, Job, RunNode, ReadChild, DecrementIndegree, PushReady, MarkFailed, SkipExpand,
        SkipDone, DecrementRunning, Notify
<1>6. CASE UNCHANGED vars
  BY <1>6 DEF vars, runVars
<1> QED
  BY <1>1, <1>2, <1>3, <1>4, <1>5, <1>6, StepCases

(* Every behaviour of the executor is, seen through cfg, status and        *)
(* verdict, a behaviour of DagRun.                                         *)
THEOREM Refinement == Spec => ImplementsDagRun
<1>1. Init => RunInit
  BY DEF Init
<1>2. IInv /\ [Next]_vars => [RunNext]_runVars
  BY RefinementStep
<1> QED
  BY <1>1, <1>2, Invariance, PTL DEF Spec, RunSpec, ImplementsDagRun

-----------------------------------------------------------------------------
(***************************************************************************)
(* So do the rows: a poller that reads the task_run table sees a run of    *)
(* the same abstract specification, with its steps taken at other places:  *)
(* a node starts with PostJob, finishes with RunNode, is skipped with      *)
(* SkipExpand.                                                             *)
(***************************************************************************)
LEMMA RowsTrailNext ==
  ASSUME IInv, RowsTrail, [Next]_vars
  PROVE  RowsTrail'
<1> USE FunctionTypes DEF IInv, CoreInv, EndsInv
<1>1. CASE Quiet
  BY <1>1, QuietFrame DEF RowsTrail, ctxVars, jobVars
<1>2. CASE InitReadyQueue \/ PopReady \/ ReturnVerdict
  BY <1>2 DEF InitReadyQueue, PopReady, ReturnVerdict, RowsTrail, ctxVars, jobVars
<1>3. CASE SetRunning
  BY <1>3 DEF SetRunning, RowsTrail, RowInv, ReadyInv, jobVars
<1>4. CASE PostJob
  BY <1>4 DEF PostJob, RowsTrail, ReadyInv
<1>5. ASSUME NEW n \in Node, Job(n) PROVE RowsTrail'
  <2> USE <1>5 DEF RowsTrail, JobGoto, ctxVars, schedVars, jobVars
  <2>1. CASE RunNode(n)
    BY <2>1 DEF RunNode, JobInv
  <2>2. CASE SetFinalStatus(n)
    <3>1. result[n] # "Skipped"
      BY <2>2, OutcomeAssumption DEF SetFinalStatus, JobInv, FailureLike
    <3> QED
      BY <2>2, <3>1 DEF SetFinalStatus
  <2>3. CASE SkipNext(n)
    <3>1. PICK c \in toVisit[n] : status' = [status EXCEPT ![c] = "Skipped"]
      BY <2>3 DEF SkipNext
    <3>2. c \in Node /\ status[c] \in Unstarted
      BY <3>1, BelowUnsuccessful DEF SkipInv
    <3> QED
      BY <2>3, <3>1, <3>2 DEF SkipNext, RowInv, Unstarted
  <2>4. CASE SkipExpand(n)
    <3>1. skipping[n] \in Node /\ status[skipping[n]] = "Skipped"
      BY <2>4 DEF SkipExpand, SkipInv
    <3> QED
      BY <2>4, <3>1 DEF SkipExpand
  <2>5. CASE /\ UNCHANGED <<status, taskRun>>
             /\ wpc[n] # "idle" /\ \E l : l # "idle" /\ wpc' = [wpc EXCEPT ![n] = l]
    BY <2>5
  <2>6. CASE UNCHANGED <<status, taskRun, wpc>>
    BY <2>6
  <2> QED
    BY <2>1, <2>2, <2>3, <2>4, <2>5, <2>6
    DEF Job, ReadChild, DecrementIndegree, PushReady, MarkFailed, SkipDone, DecrementRunning, Notify
<1>6. CASE UNCHANGED vars
  BY <1>6 DEF vars, RowsTrail, ctxVars, jobVars
<1> QED
  BY <1>1, <1>2, <1>3, <1>4, <1>5, <1>6, StepCases

(* A row that says "unsuccessful" keeps saying so, hence a node below one  *)
(* stays below one.                                                        *)
LEMMA RowBelowStable ==
  ASSUME IInv, RowsTrail, [Next]_vars, NEW m, RowBelow(m)
  PROVE  RowBelow(m)'
<1> USE FunctionTypes DEF IInv, CoreInv, EndsInv
<1>1. PICK p \in Deps(m) : p \in Node /\ taskRun[p] \in Unsuccessful
  BY DEF RowBelow, Deps
<1>2. cfg' = cfg
  BY StatusStep
<1>3. taskRun'[p] \in Unsuccessful
  <2>1. CASE Quiet
    BY <1>1, <2>1, QuietFrame DEF ctxVars
  <2>2. CASE PostJob
    <3>1. cur \in Node /\ taskRun[cur] = "Pending"
      BY <2>2 DEF PostJob, ReadyInv, RowsTrail
    <3> QED
      BY <1>1, <2>2, <3>1 DEF PostJob, Unsuccessful, FailureLike
  <2>3. ASSUME NEW n \in Node, Job(n) PROVE taskRun'[p] \in Unsuccessful
    <3>1. CASE RunNode(n)
      <4>1. taskRun[n] = "Running"
        BY <2>3, <3>1 DEF RunNode, RowInv
      <4> QED
        BY <1>1, <2>3, <3>1, <4>1 DEF RunNode, Unsuccessful, FailureLike
    <3>2. CASE SkipExpand(n)
      BY <1>1, <2>3, <3>2 DEF SkipExpand, Unsuccessful
    <3>3. CASE taskRun' = taskRun
      BY <1>1, <3>3
    <3> QED
      BY <2>3, <3>1, <3>2, <3>3
      DEF Job, SetFinalStatus, ReadChild, DecrementIndegree, PushReady, MarkFailed, SkipNext, SkipDone,
          DecrementRunning, Notify, ctxVars
  <2> QED
    BY <1>1, <2>1, <2>2, <2>3, StepCases
    DEF InitReadyQueue, PopReady, SetRunning, ReturnVerdict, vars, ctxVars
<1>4. p \in Deps(m)'
  BY <1>1, <1>2 DEF Deps, Children
<1> QED
  BY <1>3, <1>4 DEF RowBelow

LEMMA RowsSkipNext ==
  ASSUME IInv, RowsTrail, RowsSkip, [Next]_vars
  PROVE  RowsSkip'
<1> USE FunctionTypes DEF IInv, CoreInv, EndsInv
<1>0. /\ \A m : RowBelow(m) => RowBelow(m)'
      /\ cfg' = cfg
  BY RowBelowStable, StatusStep
<1>1. CASE UNCHANGED <<toVisit, skipping>> /\ \A p \in Node : wpc'[p] = "expand" => wpc[p] = "expand"
  BY <1>0, <1>1 DEF RowsSkip
<1>2. CASE Quiet
  BY <1>1, <1>2, QuietFrame DEF jobVars
<1>3. CASE PostJob
  BY <1>1, <1>3 DEF PostJob, ReadyInv
<1>4. ASSUME NEW n \in Node, Job(n) PROVE RowsSkip'
  <2>1. CASE MarkFailed(n)
    <3>1. taskRun'[n] \in Unsuccessful
      <4>1. taskRun' = taskRun /\ wpc[n] = "fail"
        BY <2>1 DEF MarkFailed
      <4>2. taskRun[n] = result[n]
        BY <1>4, <4>1 DEF RowInv
      <4>3. status[n] = result[n] /\ status[n] \in FailureLike
        BY <1>4, <4>1 DEF JobInv
      <4> QED
        BY <4>1, <4>2, <4>3 DEF Unsuccessful
    <3>2. ASSUME NEW c \in Children(n) PROVE RowBelow(c)'
      <4>1. n \in Deps(c)'
        BY <1>0, <1>4, <3>2 DEF Deps, Children
      <4> QED
        BY <3>1, <4>1 DEF RowBelow
    <3> QED
      BY <1>0, <1>4, <2>1, <3>2 DEF MarkFailed, JobGoto, RowsSkip
  <2>2. CASE SkipNext(n)
    BY <1>0, <1>4, <2>2 DEF SkipNext, JobGoto, RowsSkip
  <2>3. CASE SkipExpand(n)
    <3>1. skipping[n] \in Node /\ taskRun'[skipping[n]] \in Unsuccessful
      BY <1>4, <2>3 DEF SkipExpand, SkipInv, Unsuccessful
    <3>2. ASSUME NEW c \in Children(skipping[n]) PROVE RowBelow(c)'
      <4>1. skipping[n] \in Deps(c)'
        BY <1>0, <3>1, <3>2 DEF Deps, Children
      <4> QED
        BY <3>1, <4>1 DEF RowBelow
    <3> QED
      BY <1>0, <1>4, <2>3, <3>2 DEF SkipExpand, JobGoto, RowsSkip
  <2> QED
    BY <1>1, <1>4, <2>1, <2>2, <2>3
    DEF Job, RunNode, SetFinalStatus, ReadChild, DecrementIndegree, PushReady, SkipDone,
        DecrementRunning, Notify, JobGoto
<1> QED
  BY <1>1, <1>2, <1>3, <1>4, StepCases
  DEF InitReadyQueue, PopReady, SetRunning, ReturnVerdict, vars, jobVars

(* Which node a row calls running, and what a success means for its row. *)
LEMMA RowFacts ==
  ASSUME IInv, RowsTrail, NEW n \in Node
  PROVE  /\ taskRun[n] = "Running" => wpc[n] = "run"
         /\ status[n] = "Success" => taskRun[n] = "Success"
<1> USE FunctionTypes DEF IInv, CoreInv, EndsInv
<1>1. CASE wpc[n] = "idle"
  BY <1>1 DEF JobInv, RowInv, RowsTrail, Unstarted
<1>2. CASE wpc[n] \in {"run", "status"}
  BY <1>2, OutcomeAssumption DEF JobInv, RowInv, FailureLike
<1>3. CASE wpc[n] \notin {"idle", "run", "status"}
  BY <1>3, OutcomeAssumption DEF JobInv, RowInv, FailureLike
<1> QED
  BY <1>1, <1>2, <1>3

LEMMA RowsRefinementStep ==
  ASSUME IInv, RowsTrail, RowsSkip, [Next]_vars
  PROVE  [Rows!RunNext]_(Rows!runVars)
<1> USE FunctionTypes DEF IInv, CoreInv, EndsInv
<1>0. CASE UNCHANGED <<cfg, taskRun, verdict>>
  BY <1>0 DEF Rows!runVars
<1>1. CASE Quiet
  BY <1>0, <1>1, QuietFrame DEF ctxVars
<1>2. CASE PostJob
  <2>1. /\ cur \in Node /\ cur \notin cfg.nameless /\ taskRun[cur] = "Pending" /\ verdict = "none"
        /\ status[cur] = "Running" /\ running < MaxParallel
    BY <1>2 DEF PostJob, ReadyInv, RowsTrail, EndInv, SlotInv
  <2>2. Rows!Deps(cur) \subseteq Rows!NodesIn({"Success"})
    <3>1. OpenEdges(cur) = {}
      BY <2>1 DEF ReadyInv, Unstarted
    <3>2. Deps(cur) \subseteq NodesIn({"Success"})
      BY <2>1, <3>1, StartedDeps
    <3>3. \A p \in Deps(cur) : p \in Node /\ taskRun[p] = "Success"
      BY <3>2, RowFacts DEF NodesIn
    <3> QED
      BY <3>3 DEF Rows!Deps, Rows!Children, Rows!ChildrenIn, Rows!NodesIn, Deps, Children, ChildrenIn
  <2>3. Cardinality(Rows!NodesIn({"Running"})) < Rows!MaxParallel
    <3>1. Rows!NodesIn({"Running"}) \subseteq Active
      BY RowFacts DEF Rows!NodesIn, Active
    <3>2. /\ Cardinality(Rows!NodesIn({"Running"})) <= Cardinality(Active)
          /\ Cardinality(Rows!NodesIn({"Running"})) \in Nat
      BY <3>1, ActiveFinite, FS_Subset, FS_CardinalityType
    <3>3. running = Cardinality(Active) /\ MaxParallel \in Nat
      BY ConfigFacts DEF SlotInv, TypeOK
    <3>4. Rows!MaxParallel = MaxParallel
      BY DEF Rows!MaxParallel, MaxParallel
    <3> QED
      BY <2>1, <3>2, <3>3, <3>4, ActiveFinite
  <2>4. Rows!Start(cur)
    <3>1. taskRun' = [taskRun EXCEPT ![cur] = "Running"] /\ UNCHANGED <<cfg, verdict>>
      BY <1>2 DEF PostJob
    <3>2. \A S : Rows!Cardinality(S) = Cardinality(S)
      BY DEF Rows!Cardinality, Cardinality
    <3> QED
      BY <2>1, <2>2, <2>3, <3>1, <3>2 DEF Rows!Start
  <2> QED
    BY <2>1, <2>4 DEF Rows!RunNext
<1>3. CASE ReturnVerdict
  <2> DEFINE v == IF failed THEN "Failed" ELSE "Success"
  <2>1. verdict = "none" /\ mpc = "verdict" /\ taskRun = status
    BY <1>3, RowsEqual DEF ReturnVerdict, EndInv
  <2>2. \A S : Rows!NodesIn(S) = NodesIn(S)
    BY <2>1 DEF Rows!NodesIn, NodesIn
  <2>3. Rows!OnlyStranded <=> OnlyStranded
    BY <2>2 DEF Rows!OnlyStranded, OnlyStranded, Rows!Deps, Deps, Rows!Children, Children,
                Rows!ChildrenIn, ChildrenIn
  <2>4. Rows!Return(v)
    BY <1>3, <2>1, <2>2, <2>3, Settled DEF ReturnVerdict, Rows!Return, ctxVars, Rows!FailureLike, FailureLike
  <2>5. v \in Rows!Verdict
    BY DEF Rows!Verdict
  <2> QED
    BY <2>4, <2>5 DEF Rows!RunNext
<1>4. ASSUME NEW n \in Node, Job(n) PROVE [Rows!RunNext]_(Rows!runVars)
  <2>1. CASE RunNode(n)
    <3>1. taskRun[n] = "Running"
      BY <1>4, <2>1 DEF RunNode, RowInv
    <3>2. PICK r \in Outcomes : Rows!Finish(n, r)
      BY <2>1, <3>1 DEF RunNode, Rows!Finish
    <3> QED
      BY <1>4, <3>2 DEF Rows!RunNext
  <2>2. CASE SkipExpand(n)
    <3> DEFINE c == skipping[n]
    <3>1. /\ c \in Node /\ RowBelow(c) /\ cfg.policy = "SkipDownstream" /\ status[c] = "Skipped"
          /\ taskRun' = [taskRun EXCEPT ![c] = "Skipped"] /\ wpc[n] = "expand"
          /\ UNCHANGED <<cfg, verdict>>
      BY <1>4, <2>2 DEF SkipExpand, SkipInv, RowsSkip
    <3>2. CASE taskRun[c] = "Skipped"
      BY <1>0, <3>1, <3>2
    <3>3. CASE taskRun[c] = "Pending"
      <4>1. verdict = "none"
        <5>1. mpc # "returned"
          BY <1>4, <3>1, EndQuiet
        <5> QED
          BY <5>1 DEF EndInv
      <4>2. Rows!Deps(c) \cap Rows!NodesIn(Rows!FailureLike \cup {"Skipped"}) # {}
        BY <3>1 DEF RowBelow, Unsuccessful, FailureLike, Rows!FailureLike, Rows!Deps, Rows!Children,
           Rows!ChildrenIn, Rows!NodesIn, Deps, Children, ChildrenIn
      <4>3. Rows!Skip(c)
        BY <3>1, <3>3, <4>1, <4>2 DEF Rows!Skip
      <4> QED
        BY <3>1, <4>3 DEF Rows!RunNext
    <3> QED
      BY <3>1, <3>2, <3>3 DEF RowsTrail
  <2> QED
    BY <1>0, <1>4, <2>1, <2>2
    DEF Job, SetFinalStatus, ReadChild, DecrementIndegree, PushReady, MarkFailed, SkipNext, SkipDone,
        DecrementRunning, Notify, ctxVars
<1> QED
  BY <1>0, <1>1, <1>2, <1>3, <1>4, StepCases
  DEF InitReadyQueue, PopReady, SetRunning, vars, ctxVars

(* Every behaviour of the executor is, seen through the task_run rows      *)
(* instead of the statuses, a behaviour of DagRun as well: what a poller   *)
(* reads from the table is at every moment a state of a correct run.       *)
THEOREM RowsRefinement == Spec => RowsImplementDagRun
<1>1. Init => Rows!RunInit /\ RowsTrail /\ RowsSkip
  BY DEF Init, RunInit, Rows!RunInit, RowsTrail, RowsSkip
<1>2. IInv /\ RowsTrail /\ RowsSkip /\ [Next]_vars => RowsTrail' /\ RowsSkip'
  BY RowsTrailNext, RowsSkipNext
<1>3. IInv /\ RowsTrail /\ RowsSkip /\ [Next]_vars => [Rows!RunNext]_(Rows!runVars)
  BY RowsRefinementStep
<1> QED
  BY <1>1, <1>2, <1>3, Invariance, PTL DEF Spec, Rows!RunSpec, RowsImplementDagRun
-----------------------------------------------------------------------------
(***************************************************************************)
(* From the one to the other.  build() appends, for every dependency of    *)
(* every task, the id of the task to the downstream list of what it        *)
(* depends on: each edge has a place of its own in the lists.              *)
(***************************************************************************)
Places == UNION {{<<p, i>> : i \in DOMAIN Down(p)} : p \in Node}

Handed(f) == \A e \in Edges : f[e][1] = From(e) /\ Down(f[e][1])[f[e][2]] = To(e)

(* What the executor may rely on. *)
Runnable == /\ Acyclic(cfg.down)
            /\ cfg.nameless \in {{}} \cup {{n} : n \in Node}
            /\ \A n \in Node : nodeIn[n] = Cardinality(InEdges(n))

HandedOver == /\ pc = "built" /\ nodes = Node /\ cfg.down \in [Node -> Seq(Node)]
              /\ cfg.nameless = Node \cap {Empty}
              /\ \E f \in Bijection(Edges, Places) : Handed(f)

NodeInInv == pc = "built" => nodeIn = [n \in Name |-> Cardinality(Into(n))]

LEMMA PlacesOf ==
  /\ \A x \in Places : x[1] \in Node /\ x[2] \in DOMAIN Down(x[1]) /\ x = <<x[1], x[2]>>
  /\ \A p \in Node : \A i \in DOMAIN Down(p) : <<p, i>> \in Places
BY DEF Places

LEMMA HandedAcyclic ==
  ASSUME NEW f \in Bijection(Edges, Places), Handed(f), CycleFree, Node = Ids
  PROVE  Acyclic(cfg.down)
<1>1. SUFFICES ASSUME NEW S \in SUBSET Node, S # {}
               PROVE  \E n \in S : \A p \in S : n \notin ChildrenIn(cfg.down, p)
  BY DEF Acyclic
<1>2. PICK n \in S : \A m \in S : Between(m, n) = {}
  BY <1>1 DEF CycleFree, HasSource
<1>3. ASSUME NEW p \in S, n \in ChildrenIn(cfg.down, p)
      PROVE  FALSE
  <2>1. PICK i \in DOMAIN Down(p) : Down(p)[i] = n
    BY <1>3 DEF ChildrenIn, Down
  <2>2. <<p, i>> \in Places
    BY <1>1, <1>3, <2>1, PlacesOf
  <2>3. PICK e \in Edges : f[e] = <<p, i>>
    BY <2>2 DEF Bijection, Surjection
  <2>4. From(e) = p /\ To(e) = n
    BY <2>1, <2>3 DEF Handed
  <2>5. e \in Between(p, n)
    BY <2>4 DEF Between
  <2> QED
    BY <1>2, <1>3, <2>5
<1> QED
  BY <1>2, <1>3

LEMMA HandedCount ==
  ASSUME specs \in Seq(TaskSpec), NEW f \in Bijection(Edges, Places), Handed(f), NEW n \in Node
  PROVE  Cardinality(Into(n)) = Cardinality(InEdges(n))
<1> DEFINE g == [e \in Into(n) |-> f[e]]
<1>1. f \in [Edges -> Places] /\ \A a, b \in Edges : f[a] = f[b] => a = b
  BY DEF Bijection, Injection, IsInjective
<1>2. \A x \in Places : \E e \in Edges : f[e] = x
  BY DEF Bijection, Surjection
<1>3. Into(n) \subseteq Edges /\ \A e \in Edges : e \in Into(n) <=> To(e) = n
  BY DEF Into
<1>4. \A x : x \in InEdges(n) <=> x \in Places /\ Down(x[1])[x[2]] = n
  BY PlacesOf DEF InEdges, Places
<1>5. \A e \in Into(n) : g[e] = f[e] /\ f[e] \in InEdges(n)
  BY <1>1, <1>3, <1>4 DEF Handed
<1>6. g \in [Into(n) -> InEdges(n)]
  BY <1>5
<1>7. \A a, b \in Into(n) : g[a] = g[b] => a = b
  BY <1>1, <1>3, <1>5
<1>8. \A x \in InEdges(n) : \E e \in Into(n) : g[e] = x
  <2>1. SUFFICES ASSUME NEW x \in InEdges(n) PROVE \E e \in Into(n) : g[e] = x
    OBVIOUS
  <2>2. PICK e \in Edges : f[e] = x
    BY <1>2, <1>4
  <2>3. To(e) = n
    BY <1>4, <2>2 DEF Handed
  <2> QED
    BY <1>3, <1>5, <2>2, <2>3
<1> HIDE DEF g
<1>9. g \in Bijection(Into(n), InEdges(n))
  BY <1>6, <1>7, <1>8 DEF Bijection, Injection, IsInjective, Surjection
<1>10. IsFiniteSet(Into(n))
  BY <1>3, ListFacts, FS_Subset
<1> QED
  BY <1>9, <1>10, FS_Bijection DEF ExistsBijection

(* What validate() and build() (dag_builder.cpp) hand over is what execute()     *)
(* (dag_executor.cpp) is proved for: the graph has no cycle, whatever ids and    *)
(* dependencies the list repeats, at most one node has the empty id, and the     *)
(* indegree that recomputeIndegree stored is the number of times the downstream  *)
(* loops will lower it.                                                          *)
THEOREM BuiltIsRunnable == BuilderSpec => [](HandedOver => Runnable)
<1>1. BuilderInit => NodeInInv
  BY DEF BuilderInit, NodeInInv
<1>2. NodeInInv /\ [BuilderNext]_builderVars => NodeInInv'
  <2> SUFFICES ASSUME NodeInInv, [BuilderNext]_builderVars PROVE NodeInInv'
    OBVIOUS
  <2>1. CASE Build
    BY <2>1 DEF Build, NodeInInv, Into, Edges, To
  <2>2. CASE ~Build
    <3>1. pc' = "built" => pc = "built" /\ UNCHANGED <<specs, nodeIn>>
      BY <2>2 DEF BuilderNext, builderVars, graphVars, CheckDeps, InitTables, Pop, CountVisited, Dfs,
                  DfsRoot, DfsDescend, DfsPass, DfsFound, DfsLeave, DfsEnd, Enter, Finished
    <3> QED
      BY <3>1 DEF NodeInInv, Into, Edges, To
  <2> QED
    BY <2>1, <2>2
<1>3. BuilderTypeOK /\ AcceptsExactlyDags /\ BuiltFromTasks /\ NodeInInv => (HandedOver => Runnable)
  <2>1. SUFFICES ASSUME BuilderTypeOK, AcceptsExactlyDags, BuiltFromTasks, NodeInInv, HandedOver
                 PROVE  Runnable
    OBVIOUS
  <2>2. specs \in Seq(TaskSpec) /\ CycleFree /\ Node = Ids
    BY <2>1 DEF BuilderTypeOK, AcceptsExactlyDags, BuiltFromTasks, HandedOver
  <2>3. PICK f \in Bijection(Edges, Places) : Handed(f)
    BY <2>1 DEF HandedOver
  <2>4. Acyclic(cfg.down)
    BY <2>2, <2>3, HandedAcyclic
  <2>5. \A n \in Node : n \in Name /\ Cardinality(Into(n)) = Cardinality(InEdges(n))
    BY <2>2, <2>3, HandedCount, ListFacts
  <2>6. \A n \in Node : nodeIn[n] = Cardinality(InEdges(n))
    BY <2>1, <2>5 DEF NodeInInv, HandedOver
  <2>7. cfg.nameless \in {{}} \cup {{n} : n \in Node}
    <3>1. cfg.nameless = Node \cap {Empty}
      BY <2>1 DEF HandedOver
    <3>2. CASE Empty \in Node
      <4>1. cfg.nameless = {Empty}
        BY <3>1, <3>2
      <4> QED
        BY <3>2, <4>1
    <3>3. CASE Empty \notin Node
      <4>1. cfg.nameless = {}
        BY <3>1, <3>3
      <4> QED
        BY <4>1
    <3> QED
      BY <3>2, <3>3
  <2> QED
    BY <2>4, <2>6, <2>7 DEF Runnable
<1> QED
  BY <1>1, <1>2, <1>3, BuilderTypeCorrect, AcceptsExactlyDagsCorrect, BuiltFromTasksCorrect, PTL DEF BuilderSpec
=============================================================================
