-------------------------- MODULE WorkbookSession --------------------------
(***************************************************************************)
(* workbook/src/session.ts with the executor and the edits it calls: one   *)
(* workbook open in `mtsw serve`, the results of its cells, and the cells  *)
(* whose result an edit invalidated.  An action is one JSON-RPC request,   *)
(* but for run, which awaits every cell: its cells are steps of their own. *)
(*                                                                         *)
(* Where a cell stands in the document is left out: it decides nothing but *)
(* the order of cells that do not depend on each other.                    *)
(***************************************************************************)
EXTENDS Naturals, FiniteSets

CONSTANTS
  Ids,        (* cell ids                                                    *)
  Contents,   (* what cells contain, of the kinds of AllContents             *)
  Files,      (* the workbooks that can be opened                            *)
  EmptyOnly   (* may a run request carry only = ""?                          *)

(* code: an expression that uses every dependency; text: a display or data  *)
(* cell; broken: an expression that throws; holds, fails: test cells.       *)
AllContents == {"code", "text", "broken", "holds", "fails"}

ASSUME ContentsAssumption == Contents \subseteq AllContents /\ EmptyOnly \in BOOLEAN

(* What a run request without a cell, and one with an empty string, ask for; *)
(* a cell id is an identifier and is neither.                               *)
AllCells == "all"
Empty    == "empty"

ASSUME IdsAssumption == AllCells \notin Ids /\ Empty \notin Ids

Cells == [content : Contents, deps : SUBSET Ids]

(* parseWorkbook refuses a dangling reference, but not a cycle. *)
ASSUME FilesAssumption ==
  \A d \in Files :
    /\ DOMAIN d \subseteq Ids
    /\ IsFiniteSet(DOMAIN d)
    /\ \A c \in DOMAIN d : d[c] \in Cells /\ d[c].deps \subseteq DOMAIN d

VARIABLES
  opened,  (* is a workbook open?                                            *)
  doc,     (* its cells: cell id -> [content, deps]                           *)
  dirty,   (* are there unsaved edits?                                        *)
  cache,   (* the last result of each cell that has one                       *)
  stale,   (* cells to execute                                                *)
  run      (* the run in progress, as a set of at most one record             *)

vars == <<opened, doc, dirty, cache, stale, run>>

Valid == {"success", "pass"}

-----------------------------------------------------------------------------
(* Evaluation *)

(* A cell's result, given the outputs in its scope: an expression that uses *)
(* a dependency without an output throws.                                   *)
Evaluated(cell, scope) ==
  LET usable == DOMAIN scope = cell.deps
  IN  CASE cell.content = "text"             -> [status |-> "success", output |-> <<"text">>]
        [] cell.content = "code"  /\ usable -> [status |-> "success", output |-> <<"code", scope>>]
        [] cell.content = "holds" /\ usable -> [status |-> "pass", output |-> <<"true">>]
        [] cell.content = "fails" /\ usable -> [status |-> "fail", output |-> <<"false">>]
        [] OTHER                             -> [status |-> "error", output |-> <<>>]

(* buildScope: the outputs of the direct dependencies that have one. *)
Scope(cell, outputs) == [d \in cell.deps \cap DOMAIN outputs |-> outputs[d]]

HasOutput(result) == result.status # "error"

-----------------------------------------------------------------------------
(* The dependency graph *)

(* No cell of S depends on one outside S. *)
Closed(d, S) == \A c \in S \cap DOMAIN d : d[c].deps \subseteq S

(* S and everything it depends on: the least closed set that contains S. *)
DependenciesOf(d, S) ==
  {c \in Ids : \A T \in SUBSET Ids : S \subseteq T /\ Closed(d, T) => c \in T}

(* getDependentsOfMany: S and every cell that depends on it. *)
DependentsOf(d, S) == {c \in DOMAIN d : DependenciesOf(d, {c}) \cap S # {}}

(* getAncestors: the cell and all it depends on, nothing for an unknown id. *)
Ancestors(d, id) == IF id \in DOMAIN d THEN DependenciesOf(d, {id}) \cap DOMAIN d ELSE {}

HasNoCycle(d) == FALSE   (* a fault: cycles go unnoticed *)

(* detectCycles finds one. *)
HasCycle(d) == \E c \in DOMAIN d : c \in DependenciesOf(d, d[c].deps)

-----------------------------------------------------------------------------
TypeOK ==
  /\ opened \in BOOLEAN
  /\ DOMAIN doc \subseteq Ids
  /\ \A c \in DOMAIN doc : doc[c] \in Cells
  /\ dirty \in BOOLEAN
  /\ DOMAIN cache \subseteq DOMAIN doc
  /\ stale \subseteq DOMAIN doc
  /\ Cardinality(run) <= 1
  /\ \A r \in run : r.todo \subseteq r.target /\ DOMAIN r.done \subseteq r.target \ r.todo

Init ==
  /\ opened = FALSE
  /\ doc = <<>>
  /\ dirty = FALSE
  /\ cache = <<>>
  /\ stale = {}
  /\ run = {}

FreeAlways == TRUE   (* a fault: requests are not chained *)

(* The server handles one request after the other. *)
Free == run = {}

(* All requests but open need a workbook. *)
Ready == opened /\ Free

HasValidResult(results, id) == id \in DOMAIN results /\ results[id].status \in Valid

-----------------------------------------------------------------------------
(* Requests that change the workbook *)

(* open; a file that does not parse changes nothing. *)
Open(d, force) ==
  /\ Free
  /\ dirty => force
  /\ opened' = TRUE
  /\ doc' = d
  /\ cache' = <<>>
  /\ stale' = DOMAIN d
  /\ dirty' = FALSE
  /\ UNCHANGED run

(* A fault: only what changed becomes stale.                                *)
CommitMarksChanged(next) ==
  LET changed == {c \in DOMAIN next : c \notin DOMAIN doc \/ doc[c] # next[c]}
      kept    == (DOMAIN cache \cap DOMAIN next) \ (changed \cup DependentsOf(next, changed))
  IN  /\ doc' = next
      /\ cache' = [c \in kept |-> cache[c]]
      /\ stale' = (stale \cup changed) \cap DOMAIN next
      /\ dirty' = TRUE
      /\ UNCHANGED <<opened, run>>

(* commit: what changed, and all that depends on it, loses its result.      *)
Commit(next) ==
  LET changed  == {c \in DOMAIN next : c \notin DOMAIN doc \/ doc[c] # next[c]}
      affected == changed \cup DependentsOf(next, changed)
      kept     == (DOMAIN cache \cap DOMAIN next) \ affected
  IN  /\ doc' = next
      /\ cache' = [c \in kept |-> cache[c]]
      /\ stale' = {c \in DOMAIN next : ~HasValidResult(cache', c)}
      /\ dirty' = TRUE
      /\ UNCHANGED <<opened, run>>

ValidDepsUnchecked(deps, self) == self \notin deps   (* a fault: unknown ids pass *)

(* validateDeps *)
ValidDeps(deps, self) == deps \subseteq DOMAIN doc \ {self}

NeverRefused(next) == FALSE   (* a fault: cycles are not looked for *)

(* assertNoNewCycle: a workbook that is cyclic already stays editable. *)
IntroducesCycle(next) == ~HasCycle(doc) /\ HasCycle(next)

AddCell(id, cell) ==
  /\ Ready
  /\ id \notin DOMAIN doc
  /\ ValidDeps(cell.deps, id)
  /\ LET next == [c \in DOMAIN doc \cup {id} |-> IF c = id THEN cell ELSE doc[c]]
     IN  ~IntroducesCycle(next) /\ Commit(next)

(* cell/edit without dependsOn *)
EditContent(id, content) ==
  /\ Ready
  /\ id \in DOMAIN doc
  /\ Commit([doc EXCEPT ![id].content = content])

EditCell(id, cell) ==
  /\ Ready
  /\ id \in DOMAIN doc
  /\ ValidDeps(cell.deps, id)
  /\ LET next == [doc EXCEPT ![id] = cell]
     IN  ~IntroducesCycle(next) /\ Commit(next)

(* Every dependent is detached, which needs force. *)
RemoveCell(id, force) ==
  /\ Ready
  /\ id \in DOMAIN doc
  /\ (\E c \in DOMAIN doc : id \in doc[c].deps) => force
  /\ Commit([c \in DOMAIN doc \ {id} |-> [doc[c] EXCEPT !.deps = @ \ {id}]])

(* The edges and the references in the contents of dependents follow. *)
RenameCell(old, new) ==
  /\ Ready
  /\ old \in DOMAIN doc
  /\ new \notin DOMAIN doc
  /\ LET renamed(S) == IF old \in S THEN (S \ {old}) \cup {new} ELSE S
         was(c)     == IF c = new THEN old ELSE c
     IN  Commit([c \in renamed(DOMAIN doc) |->
                   [content |-> doc[was(c)].content, deps |-> renamed(doc[was(c)].deps)]])

(* cell/move, meta/set, and a rename to the same id. *)
Touch ==
  /\ Ready
  /\ Commit(doc)

(* save; one that fails, or has nothing new to write, changes nothing here. *)
Save ==
  /\ Ready
  /\ dirty
  /\ dirty' = FALSE
  /\ UNCHANGED <<opened, doc, cache, stale, run>>

-----------------------------------------------------------------------------
(* run *)

(* The cells a run reports on: all, or one and all it depends on.  An empty *)
(* string is not a cell for runReport, but means all cells for Session.run. *)
Target(only)  == IF only \in {AllCells, Empty} THEN DOMAIN doc ELSE Ancestors(doc, only)
Allowed(only) == IF only = Empty THEN {} ELSE Target(only)

(* The outputs that need no execution. *)
Seed == [c \in {i \in DOMAIN cache : cache[i].status \in Valid} |-> cache[c].output]

(* run is refused up front when the workbook has a cycle. *)
RunStarts(only) ==
  /\ Ready
  /\ ~HasCycle(doc)
  /\ run' = {[target  |-> Target(only),
              todo    |-> stale \cap Target(only) \cap Allowed(only),
              wb      |-> doc,
              outputs |-> Seed,
              done    |-> <<>>]}
  /\ UNCHANGED <<opened, doc, dirty, cache, stale>>

(* The next cell in dependency order is executed; an error does not stop    *)
(* the run.                                                                 *)
RunCell(r, id) ==
  /\ r \in run
  /\ id \in r.todo
  /\ Ancestors(r.wb, id) \cap r.todo = {id}
  /\ LET result  == Evaluated(r.wb[id], Scope(r.wb[id], r.outputs))
         outputs == IF HasOutput(result)
                    THEN [c \in DOMAIN r.outputs \cup {id} |->
                            IF c = id THEN result.output ELSE r.outputs[c]]
                    ELSE r.outputs
     IN  run' = {[r EXCEPT !.todo = @ \ {id}, !.outputs = outputs,
                           !.done = [c \in DOMAIN @ \cup {id} |->
                                       IF c = id THEN result ELSE @[c]]]}
  /\ UNCHANGED <<opened, doc, dirty, cache, stale>>

(* A fault: an error clears the stale flag too. *)
SettledByAnything(result) == TRUE

(* Only a valid result clears the stale flag. *)
Settles(result) == result.status \in Valid

(* All results are cached. *)
RunEnds(r) ==
  /\ r \in run
  /\ r.todo = {}
  /\ cache' = [c \in DOMAIN cache \cup DOMAIN r.done |->
                 IF c \in DOMAIN r.done THEN r.done[c] ELSE cache[c]]
  /\ stale' = stale \ {c \in DOMAIN r.done : Settles(r.done[c])}
  /\ run' = {}
  /\ UNCHANGED <<opened, doc, dirty>>

Requested == Ids \cup {AllCells} \cup (IF EmptyOnly THEN {Empty} ELSE {})

Next ==
  \/ \E d \in Files, force \in BOOLEAN : Open(d, force)
  \/ \E id \in Ids, cell \in Cells : AddCell(id, cell) \/ EditCell(id, cell)
  \/ \E id \in Ids, content \in Contents : EditContent(id, content)
  \/ \E id \in Ids, force \in BOOLEAN : RemoveCell(id, force)
  \/ \E old, new \in Ids : RenameCell(old, new)
  \/ Touch
  \/ Save
  \/ \E only \in Requested : RunStarts(only)
  \/ \E r \in run, id \in Ids : RunCell(r, id)
  \/ \E r \in run : RunEnds(r)

Spec == Init /\ [][Next]_vars

-----------------------------------------------------------------------------
(* What a run of a workbook from scratch reports for each cell. *)
FromScratch(d) ==
  LET result[c \in DOMAIN d] ==
        LET scope == {i \in d[c].deps : HasOutput(result[i])}
        IN  Evaluated(d[c], [i \in scope |-> result[i].output])
  IN  result

(* Incremental runs are exact: whatever was edited, renamed, removed or run *)
(* in parts, a result the session keeps is the one a run from scratch of    *)
(* the current workbook would give (session.ts:79-107, 144-184).            *)
CacheIsExact ==
  IF HasCycle(doc) THEN DOMAIN cache = {}
                   ELSE \A c \in DOMAIN cache : c \in DOMAIN doc /\ cache[c] = FromScratch(doc)[c]

(* A cell is stale exactly when it has no valid result: an error or a       *)
(* failed test is tried again (session.ts:101-103, 171-176).                *)
StaleIsExact == stale = {c \in DOMAIN doc : ~HasValidResult(cache, c)}

(* References always lead to a cell of the workbook (edit.ts:63-73,         *)
(* 208-230, 267-296).                                                       *)
RefsExist ==
  /\ TypeOK
  /\ \A c \in DOMAIN doc : doc[c].deps \subseteq DOMAIN doc

(* No edit makes an acyclic workbook cyclic; only a file can be cyclic      *)
(* (edit.ts:75-88).                                                         *)
EditsAddNoCycle == [][~HasCycle(doc) /\ HasCycle(doc') => ~dirty']_vars

(* A run that started comes to an end: some cell can always be executed     *)
(* (executor.ts:262-272, graph.ts:41-68).                                   *)
RunNeverStuck ==
  \A r \in run : r.todo # {} => \E id \in r.todo : Ancestors(r.wb, id) \cap r.todo = {id}

(* The report covers every cell of the target (session.ts:139-143):         *)
(* "execute only stale cells in the target set (`only` + its ancestors, or  *)
(* the whole workbook)".                                                    *)
ReportIsComplete ==
  [][\A r \in run : run' = {} => r.target \subseteq DOMAIN cache']_vars
=============================================================================
