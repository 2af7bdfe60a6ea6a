------------------------- MODULE MCWorkbookSession -------------------------
(* WorkbookSession on a small instance: symmetric cell ids. *)
EXTENDS WorkbookSession, TLC

(* An empty workbook, from which edits reach every acyclic one, and cyclic  *)
(* ones with one dependency per cell.                                       *)
CyclicFiles ==
  {d \in UNION {[S -> [content : {"code"}, deps : {{i} : i \in Ids}]] : S \in SUBSET Ids} :
     (\A c \in DOMAIN d : d[c].deps \subseteq DOMAIN d) /\ HasCycle(d)}
SomeFiles == {<<>>} \cup CyclicFiles

Symmetry == Permutations(Ids)
=============================================================================
