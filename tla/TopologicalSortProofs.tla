----------------------- MODULE TopologicalSortProofs -----------------------
(***************************************************************************)
(* Proofs about TopologicalSort, for graphs of any size.                   *)
(***************************************************************************)
EXTENDS TopologicalSort, ListFacts

(* Every dependency a frame has passed was visited. *)
Scanned ==
  \A k \in 1..Len(stack) :
    /\ stack[k].i <= Len(Deps(stack[k].id)) + 1
    /\ \A j \in 1..(stack[k].i - 1) : Deps(stack[k].id)[j] \in visited

(* So was every key the outer loop has passed. *)
RootsSeen == \A k \in 1..(next - 1) : graph.keys[k] \in visited

(* A finished node has no dependency that was not visited. *)
Closed == \A c \in ToSet(order) : ToSet(Deps(c)) \subseteq visited

Referred == ToSet(graph.keys) \cup UNION {ToSet(Deps(c)) : c \in Ids}

(* Nothing is visited but keys and dependencies. *)
OnlyReferred == visited \subseteq Referred

(* The stack is a path of the graph: ranks fall from the bottom to the top. *)
Descends ==
  \A rank \in [Ids -> 0..Cardinality(Ids)] :
    IsRank(rank) =>
      \A j, k \in 1..Len(stack) : j < k => rank[stack[k].id] < rank[stack[j].id]

IndInv ==
  /\ SortTypeOK
  /\ graph \in Graphs
  /\ VisitedOnce
  /\ Scanned
  /\ RootsSeen
  /\ Closed
  /\ OnlyReferred
  /\ Descends
  /\ DependenciesFirst

-----------------------------------------------------------------------------
(* The stack *)

(* The top frame, and the dependencies of its node. *)
LEMMA TopFrame ==
  ASSUME SortTypeOK, stack # <<>>
  PROVE  /\ Len(stack) \in Nat \ {0}
         /\ Top = stack[Len(stack)]
         /\ Top \in Frames
         /\ Top.id \in Ids /\ Top.i \in Nat \ {0}
         /\ Deps(Top.id) \in Seq(Ids)
<1>1. stack \in Seq(Frames) /\ graph.deps \in [Ids -> Seq(Ids)]
  BY DEF SortTypeOK
<1>2. Len(stack) \in Nat \ {0} /\ stack[Len(stack)] \in Frames
  BY <1>1, LenProperties, EmptySeq, ElementOfSeq
<1>. QED
  BY <1>1, <1>2 DEF Top, Deps, Frames

(* Every frame is of a node. *)
LEMMA InStack ==
  ASSUME SortTypeOK
  PROVE  \A k \in 1..Len(stack) : stack[k].id \in Ids /\ stack[k].i \in Nat
<1>1. \A k \in 1..Len(stack) : stack[k] \in Frames
  BY ElementOfSeq DEF SortTypeOK
<1>. QED
  BY <1>1 DEF Frames

(* The top frame moves on. *)
LEMMA Moved ==
  ASSUME SortTypeOK, stack # <<>>
  PROVE  /\ Advanced \in Seq(Frames)
         /\ Len(Advanced) = Len(stack)
         /\ \A k \in 1..Len(stack) :
              /\ Advanced[k].id = stack[k].id
              /\ Advanced[k].i = IF k = Len(stack) THEN stack[k].i + 1 ELSE stack[k].i
<1> DEFINE n == Len(stack)
           f == [stack[n] EXCEPT !.i = stack[n].i + 1]
<1>1. stack \in Seq(Frames) /\ n \in 1..n /\ n \in Nat
  BY TopFrame DEF SortTypeOK
<1>2. stack[n] \in Frames
  BY TopFrame
<1>3. f \in Frames /\ f.id = stack[n].id /\ f.i = stack[n].i + 1
  BY <1>2 DEF Frames
<1>4. Advanced = [stack EXCEPT ![n] = f]
  BY DEF Advanced
<1> HIDE DEF f
<1>5. /\ Advanced \in Seq(Frames) /\ Len(Advanced) = n
      /\ \A k \in 1..n : Advanced[k] = IF k = n THEN f ELSE stack[k]
  BY <1>1, <1>3, <1>4, ExceptSeq
<1>. QED
  BY <1>3, <1>5

(* A node gets a frame. *)
LEMMA Pushed ==
  ASSUME NEW frames \in Seq(Frames), NEW id \in Ids, Visit(frames, id)
  PROVE  /\ stack' \in Seq(Frames)
         /\ Len(frames) \in Nat
         /\ Len(stack') = Len(frames) + 1
         /\ \A k \in 1..Len(frames) : stack'[k] = frames[k]
         /\ stack'[Len(frames) + 1].id = id
         /\ stack'[Len(frames) + 1].i = 1
         /\ visited' = visited \cup {id}
<1> DEFINE f == [id |-> id, i |-> 1]
<1>1. f \in Frames /\ f.id = id /\ f.i = 1
  BY DEF Frames
<1>2. stack' = Append(frames, f) /\ visited' = visited \cup {id}
  BY DEF Visit
<1> HIDE DEF f
<1>. QED
  BY <1>1, <1>2, AppendProperties, LenProperties

(* The top frame goes. *)
LEMMA Popped ==
  ASSUME SortTypeOK, stack # <<>>, stack' = Front(stack)
  PROVE  /\ stack' \in Seq(Frames)
         /\ Len(stack') = Len(stack) - 1
         /\ \A k \in 1..(Len(stack) - 1) : stack'[k] = stack[k]
<1>1. Len(stack) \in Nat \ {0} /\ \A k \in 1..Len(stack) : stack[k] \in Frames
  BY TopFrame, ElementOfSeq DEF SortTypeOK
<1> DEFINE n == Len(stack) - 1
<1>2. stack' = SubSeq(stack, 1, n)
  BY DEF Front
<1>3. n \in Nat /\ \A k \in 1..n : stack[k] \in Frames
  BY <1>1
<1> HIDE DEF n
<1>4. /\ SubSeq(stack, 1, n) \in Seq(Frames)
      /\ Len(SubSeq(stack, 1, n)) = IF 1 <= n THEN n - 1 + 1 ELSE 0
      /\ \A k \in 1..(n - 1 + 1) : SubSeq(stack, 1, n)[k] = stack[1 + k - 1]
  BY <1>3, SubSeqProperties
<1>5. n - 1 + 1 = n /\ \A k \in 1..n : 1 + k - 1 = k
  BY <1>3
<1>6. /\ stack' \in Seq(Frames) /\ Len(stack') = n
      /\ \A k \in 1..n : stack'[k] = stack[k]
  BY <1>2, <1>3, <1>4, <1>5
<1>. QED
  BY <1>6 DEF n

-----------------------------------------------------------------------------
(* The steps *)

(* A node that was not visited is, from the outer or from the inner loop. *)
LEMMA VisitKeeps ==
  ASSUME IndInv, UNCHANGED <<graph, order>>,
         NEW frames \in Seq(Frames), Len(frames) = Len(stack),
         \A k \in 1..Len(stack) : frames[k].id = stack[k].id,
         NEW id \in Referred, id \in Ids, id \notin visited, Visit(frames, id)
  PROVE  VisitedOnce' /\ Closed' /\ OnlyReferred' /\ DependenciesFirst'
<1> DEFINE n == Len(stack)
<1>1. /\ n \in Nat /\ Len(stack') = n + 1 /\ stack'[n + 1].id = id
      /\ \A k \in 1..n : stack'[k].id = stack[k].id
      /\ visited' = visited \cup {id}
  BY Pushed
<1>2. OnStack' = OnStack \cup {id}
  BY <1>1 DEF OnStack
<1>3. VisitedOnce
  BY DEF IndInv
<1>4. \A j, k \in 1..(n + 1) : stack'[j].id = stack'[k].id => j = k
  <2>1. \A k \in 1..n : stack[k].id \in visited
    BY <1>3 DEF VisitedOnce, OnStack
  <2>2. \A j, k \in 1..n : stack[j].id = stack[k].id => j = k
    BY <1>3 DEF VisitedOnce
  <2>. QED
    BY <1>1, <2>1, <2>2
<1>5. VisitedOnce'
  BY <1>1, <1>2, <1>3, <1>4 DEF VisitedOnce
<1>6. Closed' /\ OnlyReferred'
  BY <1>1 DEF IndInv, Closed, OnlyReferred, Referred, Deps
<1>7. DependenciesFirst'
  BY DEF IndInv, DependenciesFirst, Acyclic, IsRank, Deps
<1>. QED
  BY <1>5, <1>6, <1>7

(* What depends on the search alone stays when it does. *)
LEMMA Unchanged ==
  ASSUME UNCHANGED <<graph, visited, stack, order>>
  PROVE  /\ VisitedOnce' = VisitedOnce /\ Scanned' = Scanned /\ Closed' = Closed
         /\ OnlyReferred' = OnlyReferred /\ Descends' = Descends
         /\ DependenciesFirst' = DependenciesFirst
<1>1. VisitedOnce' = VisitedOnce
  BY DEF VisitedOnce, OnStack
<1>2. Scanned' = Scanned
  BY DEF Scanned, Deps
<1>3. Closed' = Closed /\ OnlyReferred' = OnlyReferred
  BY DEF Closed, OnlyReferred, Referred, Deps
<1>4. Descends' = Descends
  BY DEF Descends, IsRank, Deps
<1>5. DependenciesFirst' = DependenciesFirst
  BY DEF DependenciesFirst, Acyclic, IsRank, Deps
<1>. QED
  BY <1>1, <1>2, <1>3, <1>4, <1>5

(* The outer loop. *)
LEMMA NextRootStep ==
  ASSUME IndInv, NextRoot
  PROVE  IndInv'
<1> DEFINE id == graph.keys[next]
<1>1. /\ SortTypeOK /\ VisitedOnce /\ Scanned /\ RootsSeen /\ Closed /\ OnlyReferred
      /\ DependenciesFirst /\ graph \in Graphs
  BY DEF IndInv
<1>2. /\ stack = <<>> /\ next <= Len(graph.keys) /\ next' = next + 1
      /\ UNCHANGED <<graph, order>>
  BY DEF NextRoot
<1>3. /\ Len(graph.keys) \in Nat /\ next \in 1..Len(graph.keys)
      /\ id \in Ids /\ id \in ToSet(graph.keys)
  <2>1. Len(graph.keys) \in Nat /\ next \in 1..Len(graph.keys)
    BY <1>1, <1>2, LenProperties DEF SortTypeOK
  <2>. QED
    BY <1>1, <2>1, ElementOfSeq, LenProperties DEF SortTypeOK, ToSet
<1>4. CASE id \in visited
  <2>1. UNCHANGED <<visited, stack>>
    BY <1>4 DEF NextRoot
  <2>2. SortTypeOK'
    BY <1>1, <1>2, <1>3, <2>1 DEF SortTypeOK
  <2>3. UNCHANGED <<graph, visited, stack, order>>
    BY <1>2, <2>1
  <2>6. VisitedOnce' /\ Scanned' /\ Closed' /\ OnlyReferred' /\ DependenciesFirst'
    BY <1>1, <2>3, Unchanged
  <2>4. RootsSeen'
    BY <1>1, <1>2, <1>3, <1>4, <2>1 DEF RootsSeen
  <2>5. Descends'
    BY <2>3, Unchanged DEF IndInv
  <2>. QED
    BY <1>1, <1>2, <2>2, <2>4, <2>5, <2>6 DEF IndInv
<1>5. CASE id \notin visited
  <2>1. Visit(stack, id) /\ stack \in Seq(Frames) /\ Len(stack) = 0
    BY <1>1, <1>2, <1>5, EmptySeq DEF NextRoot, SortTypeOK
  <2>. /\ stack' \in Seq(Frames) /\ Len(stack') = Len(stack) + 1
       /\ stack'[Len(stack) + 1].id = id /\ stack'[Len(stack) + 1].i = 1
       /\ visited' = visited \cup {id}
    BY <1>3, <2>1, Pushed
  <2>2. /\ stack' \in Seq(Frames) /\ Len(stack') = 1
        /\ stack'[1].id = id /\ stack'[1].i = 1
        /\ visited' = visited \cup {id}
    BY <2>1
  <2>3. SortTypeOK'
    BY <1>1, <1>2, <1>3, <2>2 DEF SortTypeOK
  <2>4. id \in Referred
    BY <1>3 DEF Referred
  <2>5. VisitedOnce' /\ Closed' /\ OnlyReferred' /\ DependenciesFirst'
    BY <1>2, <1>3, <1>5, <2>1, <2>4, VisitKeeps
  <2>6. RootsSeen'
    BY <1>1, <1>2, <1>3, <2>2 DEF RootsSeen
  <2>7. Len(Deps(id)) \in Nat
    BY <1>1, <1>3, LenProperties DEF SortTypeOK, Deps
  <2>8. Scanned'
    BY <1>2, <2>2, <2>7 DEF Scanned, Deps
  <2>9. Descends'
    <3> SUFFICES \A j, k \in 1..Len(stack') : ~(j < k)
      BY DEF Descends
    <3>1. Len(stack') = 1
      BY <2>2
    <3>2. \A j, k \in 1..1 : ~(j < k)
      OBVIOUS
    <3>. QED
      BY <3>1, <3>2
  <2>. QED
    BY <1>1, <1>2, <2>3, <2>5, <2>6, <2>8, <2>9 DEF IndInv
<1>. QED
  BY <1>4, <1>5

(* The inner loop, with a dependency to look at. *)
LEMMA NextDependencyStep ==
  ASSUME IndInv, NextDependency
  PROVE  IndInv'
<1> DEFINE n   == Len(stack)
           dep == Deps(Top.id)[Top.i]
<1>1. /\ SortTypeOK /\ VisitedOnce /\ Scanned /\ RootsSeen /\ Closed /\ OnlyReferred
      /\ Descends /\ DependenciesFirst /\ graph \in Graphs
  BY DEF IndInv
<1>2. /\ stack # <<>> /\ Top.i <= Len(Deps(Top.id))
      /\ UNCHANGED <<graph, next, order>>
  BY DEF NextDependency
<1>3. /\ n \in Nat \ {0} /\ Top = stack[n]
      /\ Top.id \in Ids /\ Top.i \in Nat \ {0}
      /\ Deps(Top.id) \in Seq(Ids) /\ Len(Deps(Top.id)) \in Nat
  BY <1>1, <1>2, TopFrame, LenProperties
<1>4. dep \in Ids /\ dep \in ToSet(Deps(Top.id)) /\ dep \in Referred
  <2>1. Top.i \in 1..Len(Deps(Top.id)) /\ DOMAIN Deps(Top.id) = 1..Len(Deps(Top.id))
    BY <1>2, <1>3, LenProperties
  <2>2. dep \in Ids /\ dep \in ToSet(Deps(Top.id))
    BY <1>3, <2>1, ElementOfSeq DEF ToSet
  <2>. QED
    BY <1>3, <2>2 DEF Referred
<1>5. /\ Advanced \in Seq(Frames) /\ Len(Advanced) = n
      /\ \A k \in 1..n :
           /\ Advanced[k].id = stack[k].id
           /\ Advanced[k].i = IF k = n THEN stack[k].i + 1 ELSE stack[k].i
  BY <1>1, <1>2, Moved
<1>6. \A k \in 1..n : stack[k].id \in Ids /\ stack[k].i \in Nat
  BY <1>1, InStack
<1>7. ASSUME NEW seen, visited \subseteq seen, dep \in seen
      PROVE  \A k \in 1..n :
               /\ Advanced[k].i <= Len(Deps(stack[k].id)) + 1
               /\ \A j \in 1..(Advanced[k].i - 1) : Deps(stack[k].id)[j] \in seen
  <2> TAKE k \in 1..n
  <2>1. /\ stack[k].i <= Len(Deps(stack[k].id)) + 1
        /\ \A j \in 1..(stack[k].i - 1) : Deps(stack[k].id)[j] \in seen
    BY <1>1, <1>7 DEF Scanned
  <2>2. CASE k = n
    BY <1>2, <1>3, <1>5, <1>7, <2>1, <2>2
  <2>3. CASE k # n
    BY <1>5, <2>1, <2>3
  <2>. QED
    BY <2>2, <2>3
<1>8. CASE dep \in visited
  <2>1. stack' = Advanced /\ visited' = visited
    BY <1>8 DEF NextDependency
  <2>2. SortTypeOK'
    BY <1>1, <1>2, <1>5, <2>1 DEF SortTypeOK
  <2>3. OnStack' = OnStack
    BY <1>5, <2>1 DEF OnStack
  <2>4. VisitedOnce'
    BY <1>1, <1>2, <1>5, <2>1, <2>3 DEF VisitedOnce
  <2>5. Scanned'
    BY <1>2, <1>5, <1>7, <1>8, <2>1 DEF Scanned, Deps
  <2>6. RootsSeen' /\ Closed' /\ OnlyReferred' /\ DependenciesFirst'
    BY <1>1, <1>2, <2>1
       DEF RootsSeen, Closed, OnlyReferred, Referred, DependenciesFirst, Acyclic, IsRank, Deps
  <2>7. Descends'
    BY <1>1, <1>2, <1>5, <2>1 DEF Descends, IsRank, Deps
  <2>. QED
    BY <1>1, <1>2, <2>2, <2>4, <2>5, <2>6, <2>7 DEF IndInv
<1>9. CASE dep \notin visited
  <2>1. Visit(Advanced, dep)
    BY <1>9 DEF NextDependency
  <2>2. /\ stack' \in Seq(Frames) /\ Len(stack') = n + 1
        /\ \A k \in 1..n : stack'[k] = Advanced[k]
        /\ stack'[n + 1].id = dep /\ stack'[n + 1].i = 1
        /\ visited' = visited \cup {dep}
    BY <1>4, <1>5, <2>1, Pushed
  <2>3. SortTypeOK'
    BY <1>1, <1>2, <1>4, <2>2 DEF SortTypeOK
  <2>4. VisitedOnce' /\ Closed' /\ OnlyReferred' /\ DependenciesFirst'
    BY <1>2, <1>4, <1>5, <1>9, <2>1, VisitKeeps
  <2>5. RootsSeen'
    BY <1>1, <1>2, <2>2 DEF RootsSeen
  <2>6. Scanned'
    <3>1. \A k \in 1..n :
            /\ stack'[k].i <= Len(Deps(stack'[k].id)) + 1
            /\ \A j \in 1..(stack'[k].i - 1) : Deps(stack'[k].id)[j] \in visited'
      <4>1. visited \subseteq visited' /\ dep \in visited'
        BY <2>2
      <4>2. \A k \in 1..n :
              /\ Advanced[k].i <= Len(Deps(stack[k].id)) + 1
              /\ \A j \in 1..(Advanced[k].i - 1) : Deps(stack[k].id)[j] \in visited'
        BY <1>7, <4>1
      <4>3. \A k \in 1..n : stack'[k] = Advanced[k] /\ Advanced[k].id = stack[k].id
        BY <1>5, <2>2
      <4>. QED
        BY <4>2, <4>3
    <3>2. Len(Deps(dep)) \in Nat
      BY <1>1, <1>4, LenProperties DEF SortTypeOK, Deps
    <3>3. stack'[n + 1].i = 1 /\ stack'[n + 1].id = dep
      BY <2>2
    <3>4. /\ stack'[n + 1].i <= Len(Deps(stack'[n + 1].id)) + 1
          /\ \A j \in 1..(stack'[n + 1].i - 1) : Deps(stack'[n + 1].id)[j] \in visited'
      BY <3>2, <3>3
    <3>5. \A k \in 1..(n + 1) :
            /\ stack'[k].i <= Len(Deps(stack'[k].id)) + 1
            /\ \A j \in 1..(stack'[k].i - 1) : Deps(stack'[k].id)[j] \in visited'
      BY <1>3, <3>1, <3>4
    <3>. QED
      BY <1>2, <2>2, <3>5 DEF Scanned, Deps
  <2>7. Descends'
    <3> SUFFICES ASSUME NEW rank \in [Ids -> 0..Cardinality(Ids)], IsRank(rank)',
                        NEW j \in 1..(n + 1), NEW k \in 1..(n + 1), j < k
                 PROVE  rank[stack'[k].id] < rank[stack'[j].id]
      BY <2>2 DEF Descends
    <3>1. IsRank(rank)
      BY <1>2 DEF IsRank, Deps
    <3>2. \A i \in 1..n : stack'[i].id = stack[i].id
      BY <1>5, <2>2
    <3>3. CASE k \in 1..n
      BY <1>1, <3>1, <3>2, <3>3 DEF Descends
    <3>4. CASE k = n + 1
      <4>1. rank[dep] < rank[stack[n].id]
        BY <1>3, <1>4, <3>1 DEF IsRank
      <4>5. \A i, l \in 1..n : i < l => rank[stack[l].id] < rank[stack[i].id]
        BY <1>1, <3>1 DEF Descends
      <4>6. j \in 1..n /\ n \in 1..n
        BY <1>3, <3>4
      <4>2. j \in 1..n /\ (j = n \/ rank[stack[n].id] < rank[stack[j].id])
        BY <1>3, <4>5, <4>6
      <4>3. rank[dep] \in Int /\ rank[stack[n].id] \in Int /\ rank[stack[j].id] \in Int
        BY <1>3, <1>4, <1>6, <4>2
      <4>. QED
        BY <2>2, <3>2, <3>4, <4>1, <4>2, <4>3
    <3>. QED
      BY <1>3, <3>3, <3>4
  <2>. QED
    BY <1>1, <1>2, <2>3, <2>4, <2>5, <2>6, <2>7 DEF IndInv
<1>. QED
  BY <1>8, <1>9

(* The inner loop, with the top frame's node finished: in an acyclic graph  *)
(* its dependencies are all in the order, for none can be on the path.     *)
LEMMA FinishStep ==
  ASSUME IndInv, Finish
  PROVE  IndInv'
<1> DEFINE n == Len(stack)
           c == Top.id
<1>1. /\ SortTypeOK /\ VisitedOnce /\ Scanned /\ RootsSeen /\ Closed /\ OnlyReferred
      /\ Descends /\ DependenciesFirst /\ graph \in Graphs
  BY DEF IndInv
<1>2. /\ stack # <<>> /\ Top.i > Len(Deps(c))
      /\ order' = Append(order, c) /\ stack' = Front(stack)
      /\ UNCHANGED <<graph, next, visited>>
  BY DEF Finish
<1>3. /\ n \in Nat \ {0} /\ Top = stack[n]
      /\ c \in Ids /\ Top.i \in Nat \ {0}
      /\ Deps(c) \in Seq(Ids) /\ Len(Deps(c)) \in Nat
  BY <1>1, <1>2, TopFrame, LenProperties
<1>4. /\ stack' \in Seq(Frames) /\ Len(stack') = n - 1
      /\ \A k \in 1..(n - 1) : stack'[k] = stack[k]
  BY <1>1, <1>2, Popped
<1>5. c \in OnStack /\ c \notin ToSet(order) /\ c \in visited
  BY <1>1, <1>3 DEF VisitedOnce, OnStack
<1>6. /\ order' \in Seq(Ids) /\ IsInjective(order')
      /\ ToSet(order') = ToSet(order) \cup {c}
  BY <1>1, <1>2, <1>3, <1>5, PushNew DEF SortTypeOK, VisitedOnce
<1>7. OnStack' = OnStack \ {c}
  <2>1. \A k \in 1..(n - 1) : stack[k].id # c
    BY <1>1, <1>3 DEF VisitedOnce
  <2>. QED
    BY <1>3, <1>4, <2>1 DEF OnStack
<1>8. ToSet(Deps(c)) \subseteq visited
  <2>1. \A j \in 1..Len(Deps(c)) : Deps(c)[j] \in visited
    <3>1. n \in 1..Len(stack) /\ stack[n].id = c /\ stack[n].i = Top.i
      BY <1>3
    <3>2. \A j \in 1..(Top.i - 1) : Deps(c)[j] \in visited
      BY <1>1, <3>1 DEF Scanned
    <3>3. \A j \in 1..Len(Deps(c)) : j \in 1..(Top.i - 1)
      BY <1>2, <1>3
    <3>. QED
      BY <3>2, <3>3
  <2>. QED
    BY <1>3, <2>1, LenProperties DEF ToSet
<1>9. SortTypeOK'
  BY <1>1, <1>2, <1>4, <1>6 DEF SortTypeOK
<1>10. VisitedOnce'
  <2>1. \A j, k \in 1..(n - 1) : stack'[j].id = stack'[k].id => j = k
    BY <1>1, <1>3, <1>4 DEF VisitedOnce
  <2>2. ToSet(order') \cap OnStack' = {} /\ visited' = ToSet(order') \cup OnStack'
    BY <1>1, <1>2, <1>5, <1>6, <1>7 DEF VisitedOnce
  <2>. QED
    BY <1>4, <1>6, <2>1, <2>2 DEF VisitedOnce
<1>11. Scanned'
  <2>0. \A k \in 1..n :
          /\ stack[k].i <= Len(Deps(stack[k].id)) + 1
          /\ \A j \in 1..(stack[k].i - 1) : Deps(stack[k].id)[j] \in visited
    BY <1>1 DEF Scanned
  <2>1. \A k \in 1..(n - 1) :
          /\ stack'[k].i <= Len(Deps(stack'[k].id)) + 1
          /\ \A j \in 1..(stack'[k].i - 1) : Deps(stack'[k].id)[j] \in visited'
    <3> SUFFICES ASSUME NEW k \in 1..(n - 1)
                 PROVE  /\ stack'[k].i <= Len(Deps(stack'[k].id)) + 1
                        /\ \A j \in 1..(stack'[k].i - 1) :
                             Deps(stack'[k].id)[j] \in visited'
      OBVIOUS
    <3>1. k \in 1..n /\ stack'[k] = stack[k] /\ visited' = visited
      BY <1>2, <1>3, <1>4
    <3>. QED
      BY <2>0, <3>1
  <2>. QED
    BY <1>2, <1>4, <2>1 DEF Scanned, Deps
<1>12. RootsSeen' /\ OnlyReferred'
  BY <1>1, <1>2 DEF RootsSeen, OnlyReferred, Referred, Deps
<1>13. Closed'
  BY <1>1, <1>2, <1>6, <1>8 DEF Closed, Deps
<1>14. Descends'
  <2> SUFFICES ASSUME NEW rank \in [Ids -> 0..Cardinality(Ids)], IsRank(rank)',
                      NEW j \in 1..(n - 1), NEW k \in 1..(n - 1), j < k
               PROVE  rank[stack'[k].id] < rank[stack'[j].id]
    BY <1>4 DEF Descends
  <2>1. IsRank(rank)
    BY <1>2 DEF IsRank, Deps
  <2>2. \A i, l \in 1..n : i < l => rank[stack[l].id] < rank[stack[i].id]
    BY <1>1, <2>1 DEF Descends
  <2>3. j \in 1..n /\ k \in 1..n
    BY <1>3
  <2>. QED
    BY <1>4, <2>2, <2>3
<1>15. DependenciesFirst'
  <2>1. SUFFICES ASSUME Acyclic',
                        NEW m \in 1..Len(order'), NEW d \in ToSet(graph'.deps[order'[m]])
                 PROVE  \E i \in 1..(m - 1) : order'[i] = d
    BY DEF DependenciesFirst, Deps
  <2>2. PICK rank \in [Ids -> 0..Cardinality(Ids)] : IsRank(rank)
    BY <1>2, <2>1 DEF Acyclic, IsRank, Deps
  <2>3. /\ Len(order) \in Nat /\ Len(order') = Len(order) + 1
        /\ \A i \in 1..Len(order) : order'[i] = order[i]
        /\ order'[Len(order) + 1] = c
    BY <1>1, <1>2, <1>3, AppendProperties, LenProperties DEF SortTypeOK
  <2>4. d \in ToSet(Deps(order'[m]))
    BY <1>2, <2>1 DEF Deps
  <2>5. CASE m \in 1..Len(order)
    <3>1. Acyclic
      BY <2>2 DEF Acyclic
    <3>2. PICK i \in 1..(m - 1) : order[i] = d
      BY <1>1, <2>3, <2>4, <2>5, <3>1 DEF DependenciesFirst
    <3>. QED
      BY <2>3, <2>5, <3>2
  <2>6. CASE m = Len(order) + 1
    <3>1. d \in ToSet(Deps(c)) /\ rank[d] < rank[c] /\ d \in visited
      BY <1>3, <1>8, <2>2, <2>3, <2>4, <2>6 DEF IsRank
    <3>2. d \notin OnStack
      <4>1. SUFFICES ASSUME NEW k \in 1..n, d = stack[k].id PROVE FALSE
        BY DEF OnStack
      <4>4. \A i, l \in 1..n : i < l => rank[stack[l].id] < rank[stack[i].id]
        BY <1>1, <2>2 DEF Descends
      <4>2. k = n \/ rank[c] < rank[d]
        BY <1>3, <4>1, <4>4
      <4>3. rank[c] \in Int /\ rank[d] \in Int
        <5>1. d \in Ids
          BY <1>1, <4>1, InStack
        <5>. QED
          BY <1>3, <5>1
      <4>. QED
        BY <1>3, <3>1, <4>1, <4>2, <4>3
    <3>3. d \in ToSet(order)
      BY <1>1, <3>1, <3>2 DEF VisitedOnce
    <3>4. PICK i \in 1..Len(order) : order[i] = d
      BY <1>1, <3>3, LenProperties DEF ToSet, SortTypeOK
    <3>. QED
      BY <2>3, <2>6, <3>4
  <2>. QED
    BY <2>3, <2>5, <2>6
<1>. QED
  BY <1>1, <1>2, <1>9, <1>10, <1>11, <1>12, <1>13, <1>14, <1>15 DEF IndInv

-----------------------------------------------------------------------------
(* The theorems *)

LEMMA InitIndInv == SortInit => IndInv
<1> SUFFICES ASSUME SortInit PROVE IndInv
  OBVIOUS
<1>1. /\ graph \in Graphs /\ next = 1 /\ visited = {}
      /\ stack = <<>> /\ order = <<>>
  BY DEF SortInit
<1>2. Len(stack) = 0 /\ Len(order) = 0 /\ stack \in Seq(Frames) /\ order \in Seq(Ids)
  BY <1>1, EmptySeq
<1>3. graph.keys \in Seq(Ids) /\ graph.deps \in [Ids -> Seq(Ids)]
  BY <1>1, GraphsAssumption
<1>4. SortTypeOK
  BY <1>1, <1>2, <1>3, LenProperties DEF SortTypeOK
<1>5. OnStack = {} /\ ToSet(order) = {} /\ IsInjective(order)
  BY <1>1, <1>2, EmptyList DEF OnStack
<1>6. VisitedOnce /\ Scanned /\ RootsSeen /\ Closed /\ OnlyReferred
  BY <1>1, <1>2, <1>5 DEF VisitedOnce, Scanned, RootsSeen, Closed, OnlyReferred
<1>7. Descends /\ DependenciesFirst
  BY <1>2 DEF Descends, DependenciesFirst
<1>. QED
  BY <1>1, <1>4, <1>6, <1>7 DEF IndInv

LEMMA NextIndInv == IndInv /\ [SortNext]_sortVars => IndInv'
<1> SUFFICES ASSUME IndInv, [SortNext]_sortVars PROVE IndInv'
  OBVIOUS
<1>1. CASE NextRoot
  BY <1>1, NextRootStep
<1>2. CASE NextDependency
  BY <1>2, NextDependencyStep
<1>3. CASE Finish
  BY <1>3, FinishStep
<1>4. CASE UNCHANGED sortVars
  <2>1. UNCHANGED <<graph, next, visited, stack, order>>
    BY <1>4 DEF sortVars
  <2>2. SortTypeOK' /\ RootsSeen'
    BY <2>1 DEF IndInv, SortTypeOK, RootsSeen
  <2>. QED
    BY <2>1, <2>2, Unchanged DEF IndInv
<1>. QED
  BY <1>1, <1>2, <1>3, <1>4 DEF SortNext

(* The search is well formed in every state. *)
THEOREM SearchInvariance == SortSpec => []IndInv
BY InitIndInv, NextIndInv, PTL DEF SortSpec

(* In an acyclic workbook every cell is executed after all that it depends  *)
(* on, however many cells there are and in whatever order they are written. *)
THEOREM ExecutionOrderIsSound == SortSpec => []DependenciesFirst
<1>1. IndInv => DependenciesFirst
  BY DEF IndInv
<1>. QED
  BY <1>1, SearchInvariance, PTL

(* A visited node is on the stack or in the order, once, with or without   *)
(* cycles.                                                                  *)
THEOREM NothingTwice == SortSpec => []VisitedOnce
<1>1. IndInv => VisitedOnce
  BY DEF IndInv
<1>. QED
  BY <1>1, SearchInvariance, PTL

(* No cell is executed twice, and when the search ends, its order has      *)
(* every cell and every id that a cell refers to, and nothing else.         *)
THEOREM NothingMissing == SortSpec => []Complete
<1>1. IndInv => Complete
  <2> SUFFICES ASSUME IndInv, Done PROVE ToSet(order) = Referred
    BY DEF Complete, Referred, IndInv, VisitedOnce
  <2>1. /\ SortTypeOK /\ VisitedOnce /\ RootsSeen /\ Closed /\ OnlyReferred
        /\ graph \in Graphs
    BY DEF IndInv
  <2>2. Len(graph.keys) \in Nat /\ next - 1 = Len(graph.keys)
    BY <2>1, LenProperties DEF Done, SortTypeOK
  <2>3. Len(stack) = 0
    BY EmptySeq DEF Done
  <2>7. OnStack = {}
    BY <2>3 DEF OnStack
  <2>4. visited = ToSet(order)
    BY <2>1, <2>7 DEF VisitedOnce
  <2>5. ToSet(graph.keys) \subseteq visited
    <3>1. DOMAIN graph.keys = 1..Len(graph.keys)
      BY <2>1, LenProperties DEF SortTypeOK
    <3>. QED
      BY <2>1, <2>2, <3>1 DEF RootsSeen, ToSet
  <2>6. ASSUME NEW c \in Ids PROVE ToSet(Deps(c)) \subseteq visited
    <3>1. CASE c \in ToSet(graph.keys)
      BY <2>1, <2>4, <2>5, <3>1 DEF Closed
    <3>2. CASE c \notin ToSet(graph.keys)
      BY <2>1, <3>2, GraphsAssumption, EmptyList DEF Deps
    <3>. QED
      BY <3>1, <3>2
  <2>. QED
    BY <2>1, <2>4, <2>5, <2>6 DEF OnlyReferred, Referred
<1>. QED
  BY <1>1, SearchInvariance, PTL
=============================================================================
