-------------------------- MODULE TopologicalSort --------------------------
(***************************************************************************)
(* workbook/src/graph.ts, topologicalSort: the order in which a workbook's *)
(* cells are executed, by a depth-first search with an explicit stack.  A  *)
(* step is one round of the outer or of the inner loop.                    *)
(***************************************************************************)
EXTENDS Integers, Sequences, FiniteSets, SequencesExt

CONSTANTS
  Ids,     (* ids of cells, and of what cells refer to                       *)
  Graphs   (* the graphs to sort: keys, the ids of the nodes in the order of *)
           (* the map; deps, the dependencies of each id, none for an id     *)
           (* that is not a node                                             *)

ASSUME GraphsAssumption ==
  \A g \in Graphs :
    /\ g.keys \in Seq(Ids)
    /\ g.deps \in [Ids -> Seq(Ids)]
    /\ \A c \in Ids : c \notin ToSet(g.keys) => g.deps[c] = <<>>

VARIABLES
  graph,     (* the argument                                                 *)
  next,      (* the position in keys of the next root                        *)
  visited,
  stack,     (* frames: a node, and the position of its next dependency      *)
  order      (* result                                                       *)

sortVars == <<graph, next, visited, stack, order>>

Frames == [id : Ids, i : Nat \ {0}]

SortTypeOK ==
  /\ graph.keys \in Seq(Ids) /\ graph.deps \in [Ids -> Seq(Ids)]
  /\ next \in 1..(Len(graph.keys) + 1)
  /\ visited \subseteq Ids
  /\ stack \in Seq(Frames)
  /\ order \in Seq(Ids)

SortInit ==
  /\ graph \in Graphs
  /\ next = 1
  /\ visited = {}
  /\ stack = <<>>
  /\ order = <<>>

-----------------------------------------------------------------------------
Top == stack[Len(stack)]

Deps(id) == graph.deps[id]

(* The stack once the top frame has moved on to its next dependency. *)
Advanced == [stack EXCEPT ![Len(stack)].i = @ + 1]

(* A node that is seen for the first time is marked and gets a frame. *)
Visit(frames, id) ==
  /\ stack' = Append(frames, [id |-> id, i |-> 1])
  /\ visited' = visited \cup {id}

(* The outer loop: the next key is a root unless it was visited. *)
NextRoot ==
  /\ stack = <<>>
  /\ next <= Len(graph.keys)
  /\ next' = next + 1
  /\ IF graph.keys[next] \in visited
     THEN UNCHANGED <<visited, stack>>
     ELSE Visit(stack, graph.keys[next])
  /\ UNCHANGED <<graph, order>>

(* The inner loop: the top frame's next dependency. *)
NextDependency ==
  /\ stack # <<>>
  /\ Top.i <= Len(Deps(Top.id))
  /\ LET dep == Deps(Top.id)[Top.i]
     IN  IF dep \in visited
         THEN stack' = Advanced /\ UNCHANGED visited
         ELSE Visit(Advanced, dep)
  /\ UNCHANGED <<graph, next, order>>

(* Faulty variants of Finish: a node is finished with a dependency to go;   *)
(* dependents come first; the frame stays on the stack.                     *)
FinishEarly ==
  /\ stack # <<>>
  /\ Top.i >= Len(Deps(Top.id))
  /\ order' = Append(order, Top.id)
  /\ stack' = Front(stack)
  /\ UNCHANGED <<graph, next, visited>>
FinishInFront ==
  /\ stack # <<>>
  /\ Top.i > Len(Deps(Top.id))
  /\ order' = <<Top.id>> \o order
  /\ stack' = Front(stack)
  /\ UNCHANGED <<graph, next, visited>>
FinishWithoutPop ==
  /\ stack # <<>>
  /\ Top.i > Len(Deps(Top.id))
  /\ order' = IF Contains(order, Top.id) THEN order ELSE Append(order, Top.id)
  /\ UNCHANGED <<graph, next, visited, stack>>

(* The inner loop: no dependency left, the top frame's node is finished. *)
Finish ==
  /\ stack # <<>>
  /\ Top.i > Len(Deps(Top.id))
  /\ order' = Append(order, Top.id)
  /\ stack' = Front(stack)
  /\ UNCHANGED <<graph, next, visited>>

SortNext == NextRoot \/ NextDependency \/ Finish

SortSpec == SortInit /\ [][SortNext]_sortVars

(* The loops run until they are done. *)
FairSortSpec == SortSpec /\ WF_sortVars(SortNext)

-----------------------------------------------------------------------------
Done == stack = <<>> /\ next > Len(graph.keys)

OnStack == {stack[k].id : k \in 1..Len(stack)}

(* Cells can be ranked so that dependencies rank lower than dependents. *)
IsRank(rank) == \A c \in Ids : \A d \in ToSet(Deps(c)) : rank[d] < rank[c]
Acyclic == \E rank \in [Ids -> 0..Cardinality(Ids)] : IsRank(rank)

(* What a cell depends on is executed before the cell (session.ts:178,      *)
(* executor.ts:274-280), also when the graph is reached from several roots  *)
(* and a dependency is listed twice.  For a cyclic graph nothing is said:   *)
(* runReport refuses it.                                                    *)
DependenciesFirst ==
  Acyclic =>
    \A n \in 1..Len(order) : \A d \in ToSet(Deps(order[n])) :
      \E m \in 1..(n - 1) : order[m] = d

(* Cyclic graph or not, a visited node is on the stack or in the order,     *)
(* and only once (graph.ts:42, 53-63): the reason for Complete.             *)
VisitedOnce ==
  /\ IsInjective(order)
  /\ \A j, k \in 1..Len(stack) : stack[j].id = stack[k].id => j = k
  /\ ToSet(order) \cap OnStack = {}
  /\ visited = ToSet(order) \cup OnStack

(* No cell is executed twice; none is left out when the search is over, and *)
(* nothing else is in the order but ids that a cell refers to               *)
(* (graph-cycles.test.ts:63).                                               *)
Complete ==
  /\ IsInjective(order)
  /\ Done => ToSet(order) = ToSet(graph.keys) \cup UNION {ToSet(Deps(c)) : c \in Ids}

(* The search ends, whatever cycles the graph has.                          *)
Terminates == <>Done
=============================================================================
