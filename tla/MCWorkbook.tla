----------------------------- MODULE MCWorkbook -----------------------------
(***************************************************************************)
(* Two machines of the workbook package in one run, the programs on a      *)
(* workbook file and the sort of its cells: the first state says which one *)
(* moves, the other one rests, so their states add up.                     *)
(***************************************************************************)
EXTENDS MtswFile, TopologicalSort

CONSTANTS
  CliLines,   (* bound: the lines of input where the command is given *)
  MaxDeps     (* bound: the dependencies a cell may list              *)

VARIABLE part   (* "file" or "order" *)

all == <<part, vars, sortVars>>

(* All graphs of up to Cardinality(Ids) cells, one order of the ids being as *)
(* good as another: with cycles, repeated and dangling references.           *)
SomeKeys  == {SubSeq(SetToSeq(Ids), 1, n) : n \in 0..Cardinality(Ids)}
SomeLists == UNION {[1..n -> Ids] : n \in 0..MaxDeps}
SomeGraphs ==
  UNION {{[keys |-> k, deps |-> [c \in Ids |-> IF c \in ToSet(k) THEN f[c] ELSE <<>>]] :
            f \in [ToSet(k) -> SomeLists]} : k \in SomeKeys}

(* The command is given only where it can meet a save: inputs of up to       *)
(* CliLines lines with one; without the command, longer inputs.              *)
CommandMeetsSave ==
  command = "new" => Len(lines) <= CliLines /\ \E i \in DOMAIN lines : lines[i] = "save"

(* Where a machine rests, it has one state. *)
FileRests == lines = <<>> /\ command = "none" /\ pid = [p \in Procs |-> CHOOSE n \in Pids : TRUE]
SortRests == graph.keys = <<>>

MCInit ==
  \/ part = "file"  /\ SortInit /\ SortRests /\ Init /\ CommandMeetsSave
  \/ part = "order" /\ Init /\ FileRests /\ SortInit

MCNext ==
  \/ part = "file" /\ Next /\ UNCHANGED <<part, sortVars>>
  \/ part = "order" /\ SortNext /\ UNCHANGED <<part, vars>>

(* The fairness of both machines, each only where it moves. *)
MCFairness ==
  /\ WF_vars(part = "file" /\ ServeTurn) /\ WF_vars(part = "file" /\ ServeRunEnds)
  /\ WF_vars(part = "file" /\ ServeExits)
  /\ WF_vars(part = "file" /\ SaveBegins) /\ WF_vars(part = "file" /\ ServerWrites)
  /\ WF_vars(part = "file" /\ SaveEnds)
  /\ WF_vars(part = "file" /\ RunnerTurn)
  /\ WF_vars(part = "file" /\ CommandWrites) /\ WF_vars(part = "file" /\ CliWrites)
  /\ WF_vars(part = "file" /\ CommandEnds)
  /\ WF_sortVars(part = "order" /\ SortNext)

MCSpec == MCInit /\ [][MCNext]_all /\ MCFairness
=============================================================================
