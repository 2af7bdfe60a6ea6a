----------------------- MODULE WorkbookSessionProofs -----------------------
(***************************************************************************)
(* What holds of WorkbookSession for any cell ids and any workbook files:  *)
(* incremental runs are exact, and the invariants this rests on.           *)
(*                                                                         *)
(* Induction over the dependency graph is done with a minimal member of a  *)
(* family of subsets of a finite set: of the sets of dependencies of some  *)
(* cells, one contains no other (MinimalMember), which in a graph without  *)
(* a cycle is that of a cell that depends on none of them (FirstCell).     *)
(***************************************************************************)
EXTENDS WorkbookSession, FiniteSetTheorems, SequenceTheorems, WellFoundedInduction, TLAPS

(* A nonempty family of subsets of a finite set has a minimal member. *)
LEMMA MinimalMember ==
  ASSUME NEW S, IsFiniteSet(S), NEW F, F \subseteq SUBSET S, F # {}
  PROVE  \E m \in F : \A x \in F : x \subseteq m => x = m
<1>1. IsWellFoundedOn(StrictSubsetOrdering(S), SUBSET S)
  BY FS_StrictSubsetOrderingWellFounded, FS_FiniteSubsetsOfFinite
<1>2. PICK m \in F : \A x \in F : ~ (<<x, m>> \in StrictSubsetOrdering(S))
  BY <1>1, WFMin
<1>3. ASSUME NEW x \in F, x \subseteq m, x # m PROVE FALSE
  <2>1. <<x, m>> \in (SUBSET S) \X (SUBSET S)
    OBVIOUS
  <2>. QED
    BY <1>2, <1>3, <2>1 DEF StrictSubsetOrdering
<1>. QED
  BY <1>3

-----------------------------------------------------------------------------
(* Dependencies *)

(* A workbook: every reference leads to one of its finitely many cells. *)
Workbook(d) ==
  /\ DOMAIN d \subseteq Ids
  /\ IsFiniteSet(DOMAIN d)
  /\ \A c \in DOMAIN d : d[c] \in Cells /\ d[c].deps \subseteq DOMAIN d

(* The dependencies of S are a closed set that contains S... *)
LEMMA DependenciesClosed ==
  ASSUME NEW d, \A c \in DOMAIN d : d[c] \in Cells, NEW S \in SUBSET Ids
  PROVE  /\ DependenciesOf(d, S) \in SUBSET Ids
         /\ S \subseteq DependenciesOf(d, S)
         /\ Closed(d, DependenciesOf(d, S))
<1>1. DependenciesOf(d, S) \in SUBSET Ids /\ S \subseteq DependenciesOf(d, S)
  BY DEF DependenciesOf
<1>2. ASSUME NEW c \in DependenciesOf(d, S) \cap DOMAIN d, NEW i \in d[c].deps
      PROVE  i \in DependenciesOf(d, S)
  <2>1. i \in Ids
    BY DEF Cells
  <2>2. ASSUME NEW T \in SUBSET Ids, S \subseteq T, Closed(d, T) PROVE i \in T
    <3>1. c \in T
      BY <2>2 DEF DependenciesOf
    <3>. QED
      BY <2>2, <3>1 DEF Closed
  <2>. QED
    BY <2>1, <2>2 DEF DependenciesOf
<1>. QED
  BY <1>1, <1>2 DEF Closed

(* ... and no larger than any other. *)
LEMMA DependenciesLeast ==
  ASSUME NEW d, NEW S, NEW T \in SUBSET Ids, S \subseteq T, Closed(d, T)
  PROVE  DependenciesOf(d, S) \subseteq T
BY DEF DependenciesOf

(* Dependencies of dependencies are dependencies. *)
LEMMA DependenciesTransitive ==
  ASSUME NEW d, \A c \in DOMAIN d : d[c] \in Cells, NEW S \in SUBSET Ids,
         NEW R \in SUBSET DependenciesOf(d, S)
  PROVE  DependenciesOf(d, R) \subseteq DependenciesOf(d, S)
BY DependenciesClosed, DependenciesLeast

(* A cell's dependencies are the cell, and those of its direct ones. *)
LEMMA DependenciesOfCell ==
  ASSUME NEW d, Workbook(d), NEW c \in DOMAIN d
  PROVE  /\ DependenciesOf(d, {c}) = {c} \cup DependenciesOf(d, d[c].deps)
         /\ d[c].deps \subseteq DependenciesOf(d, d[c].deps)
         /\ DependenciesOf(d, {c}) \subseteq DOMAIN d
<1>. DEFINE D == DependenciesOf(d, d[c].deps)
<1>1. c \in Ids /\ {c} \in SUBSET Ids /\ d[c].deps \in SUBSET Ids /\ DOMAIN d \in SUBSET Ids
  BY DEF Workbook
<1>2. \A x \in DOMAIN d : d[x] \in Cells
  BY DEF Workbook
<1>3. D \in SUBSET Ids /\ d[c].deps \subseteq D /\ Closed(d, D)
  BY <1>1, <1>2, DependenciesClosed
<1>4. DependenciesOf(d, {c}) \subseteq {c} \cup D
  <2>1. Closed(d, {c} \cup D)
    BY <1>3 DEF Closed
  <2>. QED
    BY <1>1, <1>3, <2>1, DependenciesLeast
<1>5. {c} \cup D \subseteq DependenciesOf(d, {c})
  <2>1. {c} \subseteq DependenciesOf(d, {c}) /\ Closed(d, DependenciesOf(d, {c}))
    BY <1>1, <1>2, DependenciesClosed
  <2>2. d[c].deps \in SUBSET DependenciesOf(d, {c})
    BY <2>1 DEF Closed
  <2>. QED
    BY <1>1, <1>2, <2>1, <2>2, DependenciesTransitive
<1>6. DependenciesOf(d, {c}) \subseteq DOMAIN d
  <2>1. Closed(d, DOMAIN d)
    BY DEF Closed, Workbook
  <2>. QED
    BY <1>1, <2>1, DependenciesLeast
<1>. QED
  BY <1>3, <1>4, <1>5, <1>6

(* Without a cycle, some cell of any nonempty set depends on no other. *)
LEMMA FirstCell ==
  ASSUME NEW d, Workbook(d), ~HasCycle(d), NEW T \in SUBSET DOMAIN d, T # {}
  PROVE  \E m \in T : DependenciesOf(d, d[m].deps) \cap T = {}
<1>. DEFINE F == {DependenciesOf(d, {c}) : c \in T}
<1>1. F \subseteq SUBSET DOMAIN d /\ F # {}
  BY DependenciesOfCell
<1>2. PICK M \in F : \A x \in F : x \subseteq M => x = M
  <2>1. IsFiniteSet(DOMAIN d)
    BY DEF Workbook
  <2>. HIDE DEF F
  <2>. QED
    BY <1>1, <2>1, MinimalMember
<1>3. PICK m \in T : M = DependenciesOf(d, {m})
  BY <1>2
<1>4. ASSUME NEW x \in DependenciesOf(d, d[m].deps) \cap T PROVE FALSE
  <2>1. /\ d[m].deps \in SUBSET Ids /\ {x} \in SUBSET Ids
        /\ \A c \in DOMAIN d : d[c] \in Cells
    BY DEF Workbook
  <2>2. DependenciesOf(d, {x}) \subseteq DependenciesOf(d, d[m].deps)
    BY <2>1, DependenciesTransitive
  <2>3. DependenciesOf(d, d[m].deps) \subseteq M /\ m \in M
    BY <1>3, DependenciesOfCell
  <2>4. DependenciesOf(d, {x}) = M
    BY <1>2, <2>2, <2>3
  <2>. QED
    BY <2>2, <2>3, <2>4 DEF HasCycle
<1>. QED
  BY <1>4

(* A cell of a graph without a cycle does not depend on itself. *)
LEMMA NotItsOwn ==
  ASSUME NEW d, ~HasCycle(d), NEW c \in DOMAIN d
  PROVE  c \notin DependenciesOf(d, d[c].deps)
BY DEF HasCycle
-----------------------------------------------------------------------------
(* Results *)

(* The outputs of the direct dependencies, in a table of results. *)
Given(d, f, c) == [i \in {i \in d[c].deps : HasOutput(f[i])} |-> f[i].output]

(* f gives each cell of S the result that follows from those f gives its    *)
(* dependencies.                                                            *)
Exact(d, f, S) == f = [c \in S |-> Evaluated(d[c], Given(d, f, c))]

(* Two such tables agree where the workbooks do. *)
LEMMA ExactAgree ==
  ASSUME NEW d, NEW e, Workbook(d), ~HasCycle(d), NEW U, U \subseteq DOMAIN d,
         NEW S, NEW R, U \subseteq S, U \subseteq R,
         Closed(d, U), \A c \in U : d[c] = e[c],
         NEW f, NEW g, Exact(d, f, S), Exact(e, g, R)
  PROVE  \A c \in U : f[c] = g[c]
<1>. DEFINE T == {c \in U : f[c] # g[c]}
<1>1. ASSUME T # {} PROVE FALSE
  <2>1. PICK m \in T : DependenciesOf(d, d[m].deps) \cap T = {}
    BY <1>1, FirstCell
  <2>2. d[m].deps \subseteq U \ T
    BY <2>1, DependenciesOfCell DEF Closed
  <2>3. d[m] = e[m] /\ \A i \in d[m].deps : f[i] = g[i]
    BY <2>2
  <2>4. Given(d, f, m) = Given(e, g, m)
    BY <2>3 DEF Given
  <2>5. f[m] = Evaluated(d[m], Given(d, f, m)) /\ g[m] = Evaluated(e[m], Given(e, g, m))
    BY DEF Exact
  <2>. QED
    BY <2>3, <2>4, <2>5
<1>. QED
  BY <1>1

(* Such a table exists for a workbook without a cycle: of the closed sets   *)
(* of cells that have one, a largest has them all.                          *)
LEMMA ExactExists ==
  ASSUME NEW d, Workbook(d), ~HasCycle(d)
  PROVE  \E f : Exact(d, f, DOMAIN d)
<1>. DEFINE D == DOMAIN d
            Solved(S) == Closed(d, S) /\ \E f : Exact(d, f, S)
            F == {R \in SUBSET D : Solved(D \ R)}
<1>1. F # {}
  <2>1. Closed(d, {}) /\ Exact(d, [c \in {} |-> {}], {})
    BY DEF Closed, Exact
  <2>2. D \ D = {} /\ D \in SUBSET D
    OBVIOUS
  <2>. QED
    BY <2>1, <2>2
<1>2. PICK R \in F : \A x \in F : x \subseteq R => x = R
  <2>1. IsFiniteSet(D) /\ F \subseteq SUBSET D
    BY DEF Workbook
  <2>. HIDE DEF F, D
  <2>. QED
    BY <1>1, <2>1, MinimalMember
<1>3. R \in SUBSET D /\ Solved(D \ R)
  OBVIOUS
<1>4. ASSUME R # {} PROVE FALSE
  <2>. DEFINE S == D \ R
  <2>1. PICK m \in R : DependenciesOf(d, d[m].deps) \cap R = {}
    BY <1>3, <1>4, FirstCell
  <2>2. d[m].deps \subseteq S /\ m \in D
    BY <1>3, <2>1, DependenciesOfCell DEF Workbook
  <2>3. PICK f : Exact(d, f, S)
    BY <1>3
  <2>. DEFINE g == [c \in S \cup {m} |-> IF c = m THEN Evaluated(d[m], Given(d, f, m)) ELSE f[c]]
  <2>4. \A c \in S : g[c] = f[c] /\ d[c].deps \subseteq S /\ d[c].deps \subseteq D
    BY <1>3 DEF Closed, Workbook
  <2>5. \A c \in S \cup {m} : Given(d, g, c) = Given(d, f, c)
    <3>1. \A c \in S \cup {m} : \A i \in d[c].deps : g[i] = f[i]
      BY <2>2, <2>4
    <3>. HIDE DEF g
    <3>. QED
      BY <3>1 DEF Given
  <2>6. \A c \in S : f[c] = Evaluated(d[c], Given(d, f, c))
    BY <2>3 DEF Exact
  <2>7. Exact(d, g, S \cup {m})
    <3>1. \A c \in S \cup {m} : g[c] = Evaluated(d[c], Given(d, g, c))
      <4>. TAKE c \in S \cup {m}
      <4>1. Given(d, g, c) = Given(d, f, c)
        BY <2>5
      <4>2. CASE c = m
        <5>1. g[m] = Evaluated(d[m], Given(d, f, m))
          OBVIOUS
        <5>. QED
          BY <4>1, <4>2, <5>1
      <4>3. CASE c # m
        BY <2>4, <2>6, <4>1, <4>3
      <4>. QED
        BY <4>2, <4>3
    <3>2. g = [c \in S \cup {m} |-> g[c]]
      OBVIOUS
    <3>. HIDE DEF g
    <3>. QED
      BY <3>1, <3>2 DEF Exact
  <2>8. Closed(d, S \cup {m})
    BY <1>3, <2>2 DEF Closed
  <2>9. S \cup {m} = D \ (R \ {m})
    BY <2>2
  <2>10. R \ {m} \in F
    BY <1>3, <2>7, <2>8, <2>9
  <2>. HIDE DEF F
  <2>. QED
    BY <1>2, <2>10
<1>. QED
  <2>1. D \ R = D
    BY <1>4
  <2>. QED
    BY <1>3, <2>1

(* What a run from scratch gives is such a table. *)
LEMMA FromScratchExact ==
  ASSUME NEW d, Workbook(d), ~HasCycle(d)
  PROVE  Exact(d, FromScratch(d), DOMAIN d)
<1>1. \E f : Exact(d, f, DOMAIN d)
  BY ExactExists
<1>. QED
  BY <1>1 DEF FromScratch, Exact, Given

-----------------------------------------------------------------------------
(* The invariant *)

(* A run in progress works on the workbook as it is; a cell of its target   *)
(* is to do or done exactly when it is stale, unless the run has nothing to *)
(* do; its results are those of a run from scratch, and the outputs it has  *)
(* are those of the cells that are not stale or done.                       *)
RunExact(r) ==
  /\ r = [target |-> r.target, todo |-> r.todo, wb |-> doc, outputs |-> r.outputs, done |-> r.done]
  /\ ~HasCycle(doc)
  /\ r.target \subseteq DOMAIN doc /\ Closed(doc, r.target)
  /\ r.todo \subseteq r.target \cap stale
  /\ DOMAIN r.done \subseteq (r.target \cap stale) \ r.todo
  /\ r.todo # {} \/ ~EmptyOnly => r.target \cap stale \subseteq r.todo \cup DOMAIN r.done
  /\ \A c \in DOMAIN r.done : r.done[c] = FromScratch(doc)[c]
  /\ \A c \in DOMAIN r.outputs :
       c \in DOMAIN doc /\ HasOutput(FromScratch(doc)[c]) /\ r.outputs[c] = FromScratch(doc)[c].output
  /\ \A c \in DOMAIN doc :
       (c \notin stale \/ c \in DOMAIN r.done) /\ HasOutput(FromScratch(doc)[c]) => c \in DOMAIN r.outputs

IInv ==
  /\ opened \in BOOLEAN /\ dirty \in BOOLEAN
  /\ Workbook(doc)
  /\ DOMAIN cache \subseteq DOMAIN doc
  /\ CacheIsExact
  /\ StaleIsExact
  /\ run = {} \/ \E r : run = {r}
  /\ \A r \in run : RunExact(r)

-----------------------------------------------------------------------------
(* Edits *)

(* Fewer cells and fewer dependencies make no cycle. *)
LEMMA FewerEdges ==
  ASSUME NEW d, NEW e, Workbook(d), DOMAIN e \subseteq DOMAIN d,
         \A c \in DOMAIN e : e[c].deps \subseteq d[c].deps,
         HasCycle(e)
  PROVE  HasCycle(d)
<1>1. PICK c \in DOMAIN e : c \in DependenciesOf(e, e[c].deps)
  BY DEF HasCycle
<1>. DEFINE D == DependenciesOf(d, d[c].deps)
<1>2. D \in SUBSET Ids /\ d[c].deps \subseteq D /\ Closed(d, D)
  <2>1. d[c].deps \in SUBSET Ids /\ \A x \in DOMAIN d : d[x] \in Cells
    BY DEF Workbook
  <2>. QED
    BY <2>1, DependenciesClosed
<1>3. e[c].deps \subseteq D /\ Closed(e, D)
  BY <1>2 DEF Closed
<1>4. DependenciesOf(e, e[c].deps) \subseteq D
  BY <1>2, <1>3, DependenciesLeast
<1>. QED
  BY <1>1, <1>4 DEF HasCycle

(* A rename moves the edges along: it neither leaves a reference without a  *)
(* cell nor makes a cycle.                                                  *)
Renamed(old, new, S) == IF old \in S THEN (S \ {old}) \cup {new} ELSE S
Was(old, new, c) == IF c = new THEN old ELSE c
AfterRename(d, old, new) ==
  [c \in Renamed(old, new, DOMAIN d) |->
     [content |-> d[Was(old, new, c)].content, deps |-> Renamed(old, new, d[Was(old, new, c)].deps)]]

LEMMA RenameKeeps ==
  ASSUME NEW d, Workbook(d), NEW old \in DOMAIN d, NEW new \in Ids, new \notin DOMAIN d
  PROVE  /\ Workbook(AfterRename(d, old, new))
         /\ HasCycle(AfterRename(d, old, new)) => HasCycle(d)
<1>. DEFINE e == AfterRename(d, old, new)
            E == (DOMAIN d \ {old}) \cup {new}
            was(c) == Was(old, new, c)
<1>1. DOMAIN e = E /\ \A c \in E : was(c) \in DOMAIN d
  BY DEF AfterRename, Renamed, Was
<1>2. ASSUME NEW c \in E
      PROVE  /\ e[c].deps = Renamed(old, new, d[was(c)].deps)
             /\ e[c].content = d[was(c)].content
             /\ e[c] = [content |-> e[c].content, deps |-> e[c].deps]
             /\ d[was(c)] \in Cells /\ d[was(c)].deps \subseteq DOMAIN d
  BY <1>1 DEF AfterRename, Workbook
<1>3. ASSUME NEW c \in E PROVE e[c] \in Cells /\ e[c].deps \subseteq E
  <2>1. e[c].deps \subseteq E
    BY <1>2 DEF Renamed
  <2>2. E \subseteq Ids
    BY DEF Workbook
  <2>3. e[c].content \in Contents /\ e[c].deps \in SUBSET Ids
    BY <1>2, <2>1, <2>2 DEF Cells
  <2>4. [content |-> e[c].content, deps |-> e[c].deps] \in Cells
    BY <2>3 DEF Cells
  <2>. HIDE DEF e
  <2>. QED
    BY <1>2, <2>1, <2>4
<1>4. IsFiniteSet(E) /\ E \subseteq Ids
  <2>1. IsFiniteSet(DOMAIN d \ {old})
    BY FS_RemoveElement DEF Workbook
  <2>. QED
    BY <2>1, FS_AddElement DEF Workbook
<1>5. Workbook(e)
  BY <1>1, <1>3, <1>4 DEF Workbook
<1>6. ASSUME NEW c \in E, c \in DependenciesOf(e, e[c].deps)
      PROVE  was(c) \in DependenciesOf(d, d[was(c)].deps)
  <2>. DEFINE D == DependenciesOf(d, d[was(c)].deps)
              T == {x \in E : was(x) \in D}
  <2>1. D \in SUBSET Ids /\ d[was(c)].deps \subseteq D /\ Closed(d, D)
    <3>1. d[was(c)].deps \in SUBSET Ids /\ \A x \in DOMAIN d : d[x] \in Cells
      BY <1>2 DEF Workbook
    <3>. QED
      BY <3>1, DependenciesClosed
  <2>2. ASSUME NEW x \in E, d[was(x)].deps \subseteq D PROVE e[x].deps \subseteq T
    <3>. SUFFICES ASSUME NEW y \in e[x].deps PROVE y \in E /\ was(y) \in D
      OBVIOUS
    <3>1. y \in E /\ y \in Renamed(old, new, d[was(x)].deps) /\ d[was(x)].deps \subseteq DOMAIN d
      BY <1>2, <1>3
    <3>2. was(y) \in d[was(x)].deps
      BY <3>1 DEF Renamed, Was
    <3>. QED
      BY <2>2, <3>1, <3>2
  <2>3. Closed(e, T)
    <3>1. \A x \in T : d[was(x)].deps \subseteq D
      BY <1>1, <2>1 DEF Closed
    <3>. QED
      BY <2>2, <3>1 DEF Closed
  <2>4. e[c].deps \subseteq T /\ T \in SUBSET Ids
    BY <1>4, <2>1, <2>2
  <2>5. DependenciesOf(e, e[c].deps) \subseteq T
    BY <2>3, <2>4, DependenciesLeast
  <2>. QED
    BY <1>6, <2>5
<1>7. HasCycle(e) => HasCycle(d)
  BY <1>1, <1>6 DEF HasCycle
<1>. QED
  BY <1>5, <1>7

-----------------------------------------------------------------------------
(* Steps *)

LEMMA EmptyDomain == DOMAIN <<>> = {}
<1>1. <<>> \in Seq({}) /\ Len(<<>>) = 0
  BY EmptySeq
<1>. QED
  BY <1>1, LenProperties

LEMMA InitIInv == Init => IInv
<1>. SUFFICES ASSUME Init PROVE IInv
  OBVIOUS
<1>1. DOMAIN doc = {} /\ DOMAIN cache = {} /\ stale = {} /\ run = {} /\ opened \in BOOLEAN /\ dirty \in BOOLEAN
  <2>1. DOMAIN <<>> = {}
    BY EmptyDomain
  <2>. QED
    BY <2>1 DEF Init
<1>2. Workbook(doc)
  BY <1>1, FS_EmptySet DEF Workbook
<1>. QED
  BY <1>1, <1>2 DEF IInv, CacheIsExact, StaleIsExact

(* A change of the workbook that makes no cycle keeps exact what it keeps.  *)
LEMMA CommitIInv ==
  ASSUME IInv, run = {}, NEW next, Workbook(next), HasCycle(next) => HasCycle(doc), Commit(next)
  PROVE  IInv' /\ doc' = next /\ dirty' = TRUE
<1>. DEFINE changed  == {c \in DOMAIN next : c \notin DOMAIN doc \/ doc[c] # next[c]}
            affected == changed \cup DependentsOf(next, changed)
            kept     == (DOMAIN cache \cap DOMAIN next) \ affected
<1>1. /\ doc' = next
      /\ cache' = [c \in kept |-> cache[c]]
      /\ stale' = {c \in DOMAIN next : ~HasValidResult(cache', c)}
      /\ dirty' = TRUE /\ opened' = opened /\ run' = {}
  BY DEF Commit
<1>2. DOMAIN cache' = kept /\ kept \subseteq DOMAIN next /\ \A c \in kept : cache'[c] = cache[c]
  BY <1>1
<1>3. CacheIsExact'
  <2>1. CASE HasCycle(doc)
    <3>1. kept = {}
      BY <2>1 DEF IInv, CacheIsExact
    <3>. QED
      BY <1>1, <1>2, <3>1 DEF CacheIsExact
  <2>2. CASE ~HasCycle(doc)
    <3>. DEFINE U == {c \in DOMAIN next : DependenciesOf(next, {c}) \cap changed = {}}
    <3>1. \A c \in DOMAIN next : next[c] \in Cells /\ c \in Ids /\ next[c].deps \subseteq DOMAIN next
      BY DEF Workbook
    <3>2. ASSUME NEW c \in U PROVE c \in DOMAIN doc /\ doc[c] = next[c] /\ next[c].deps \subseteq U
      <4>1. c \in DependenciesOf(next, {c})
        BY DependenciesOfCell
      <4>2. ASSUME NEW i \in next[c].deps PROVE i \in U
        <5>1. i \in DependenciesOf(next, {c}) /\ i \in DOMAIN next
          BY <3>1, DependenciesOfCell
        <5>2. DependenciesOf(next, {i}) \subseteq DependenciesOf(next, {c})
          BY <3>1, <5>1, DependenciesTransitive
        <5>. QED
          BY <5>1, <5>2
      <4>. QED
        BY <4>1, <4>2
    <3>3. kept \subseteq U
      BY DEF DependentsOf
    <3>4. /\ Exact(next, FromScratch(next), DOMAIN next)
          /\ Exact(doc, FromScratch(doc), DOMAIN doc)
      BY <2>2, FromScratchExact DEF IInv
    <3>5. \A c \in U : FromScratch(next)[c] = FromScratch(doc)[c]
      <4>1. Closed(next, U) /\ U \subseteq DOMAIN next /\ U \subseteq DOMAIN doc /\ \A c \in U : next[c] = doc[c]
        BY <3>2 DEF Closed
      <4>. HIDE DEF U
      <4>. QED
        BY <2>2, <3>4, <4>1, ExactAgree
    <3>6. \A c \in kept : cache[c] = FromScratch(doc)[c]
      BY <2>2 DEF IInv, CacheIsExact
    <3>7. ~HasCycle(next)
      BY <2>2
    <3>. HIDE DEF kept, U
    <3>. QED
      BY <1>1, <1>2, <3>3, <3>5, <3>6, <3>7 DEF CacheIsExact
  <2>. QED
    BY <2>1, <2>2
<1>4. StaleIsExact'
  BY <1>1 DEF StaleIsExact, HasValidResult
<1>5. Workbook(doc') /\ DOMAIN cache' \subseteq DOMAIN doc'
  BY <1>1, <1>2
<1>. HIDE DEF changed, affected, kept
<1>. QED
  BY <1>1, <1>3, <1>4, <1>5 DEF IInv, Workbook

(* Every edit is such a change. *)
AddNext(id, cell) == [c \in DOMAIN doc \cup {id} |-> IF c = id THEN cell ELSE doc[c]]

LEMMA AddIInv ==
  ASSUME IInv, NEW id \in Ids, NEW cell \in Cells, AddCell(id, cell)
  PROVE  IInv' /\ (HasCycle(doc') => HasCycle(doc)) /\ dirty' = TRUE
<1>. DEFINE next == AddNext(id, cell)
<1>1. /\ run = {} /\ id \notin DOMAIN doc /\ cell.deps \subseteq DOMAIN doc
      /\ ~(~HasCycle(doc) /\ HasCycle(next)) /\ Commit(next)
  BY DEF AddCell, Ready, Free, ValidDeps, IntroducesCycle, AddNext
<1>2. Workbook(next)
  <2>1. DOMAIN next = DOMAIN doc \cup {id} /\ \A c \in DOMAIN next : next[c] = IF c = id THEN cell ELSE doc[c]
    BY DEF AddNext
  <2>2. IsFiniteSet(DOMAIN doc \cup {id})
    BY FS_AddElement DEF IInv, Workbook
  <2>. HIDE DEF next
  <2>. QED
    BY <1>1, <2>1, <2>2 DEF IInv, Workbook
<1>. HIDE DEF next
<1>3. HasCycle(next) => HasCycle(doc)
  BY <1>1
<1>4. IInv' /\ doc' = next /\ dirty' = TRUE
  BY <1>1, <1>2, <1>3, CommitIInv
<1>. QED
  BY <1>3, <1>4

LEMMA EditIInv ==
  ASSUME IInv, NEW id \in Ids, NEW cell \in Cells, EditCell(id, cell)
  PROVE  IInv' /\ (HasCycle(doc') => HasCycle(doc)) /\ dirty' = TRUE
<1>. DEFINE next == [doc EXCEPT ![id] = cell]
<1>1. /\ run = {} /\ id \in DOMAIN doc /\ cell.deps \subseteq DOMAIN doc
      /\ ~(~HasCycle(doc) /\ HasCycle(next)) /\ Commit(next)
  BY DEF EditCell, Ready, Free, ValidDeps, IntroducesCycle
<1>2. Workbook(next)
  <2>1. DOMAIN next = DOMAIN doc /\ \A c \in DOMAIN next : next[c] = IF c = id THEN cell ELSE doc[c]
    OBVIOUS
  <2>. HIDE DEF next
  <2>. QED
    BY <1>1, <2>1 DEF IInv, Workbook
<1>. HIDE DEF next
<1>. QED
  BY <1>1, <1>2, CommitIInv

LEMMA EditContentIInv ==
  ASSUME IInv, NEW id \in Ids, NEW content \in Contents, EditContent(id, content)
  PROVE  IInv' /\ (HasCycle(doc') => HasCycle(doc)) /\ dirty' = TRUE
<1>. DEFINE next == [doc EXCEPT ![id].content = content]
<1>1. run = {} /\ id \in DOMAIN doc /\ Commit(next)
  BY DEF EditContent, Ready, Free
<1>2. /\ DOMAIN next = DOMAIN doc
      /\ \A c \in DOMAIN next : next[c] = IF c = id THEN [doc[id] EXCEPT !.content = content] ELSE doc[c]
  OBVIOUS
<1>3. /\ Workbook(doc) /\ doc[id] \in Cells
      /\ [doc[id] EXCEPT !.content = content] \in Cells
      /\ [doc[id] EXCEPT !.content = content].deps = doc[id].deps
  BY <1>1 DEF IInv, Workbook, Cells
<1>4. \A c \in DOMAIN next : next[c] \in Cells /\ next[c].deps = doc[c].deps
  BY <1>2, <1>3 DEF Workbook
<1>. HIDE DEF next
<1>5. Workbook(next) /\ (HasCycle(next) => HasCycle(doc))
  BY <1>2, <1>3, <1>4, FewerEdges DEF Workbook
<1>. QED
  BY <1>1, <1>5, CommitIInv

LEMMA RemoveIInv ==
  ASSUME IInv, NEW id \in Ids, NEW force \in BOOLEAN, RemoveCell(id, force)
  PROVE  IInv' /\ (HasCycle(doc') => HasCycle(doc)) /\ dirty' = TRUE
<1>. DEFINE next == [c \in DOMAIN doc \ {id} |-> [doc[c] EXCEPT !.deps = @ \ {id}]]
<1>1. run = {} /\ id \in DOMAIN doc /\ Commit(next)
  BY DEF RemoveCell, Ready, Free
<1>2. /\ DOMAIN next = DOMAIN doc \ {id}
      /\ \A c \in DOMAIN next : next[c] = [doc[c] EXCEPT !.deps = @ \ {id}]
  OBVIOUS
<1>. HIDE DEF next
<1>3. \A c \in DOMAIN next : next[c] \in Cells /\ next[c].deps = doc[c].deps \ {id}
  <2>. TAKE c \in DOMAIN next
  <2>1. doc[c] \in [content : Contents, deps : SUBSET Ids]
    BY <1>2 DEF IInv, Workbook, Cells
  <2>2. [doc[c] EXCEPT !.deps = @ \ {id}] = [doc[c] EXCEPT !.deps = doc[c].deps \ {id}]
    BY <2>1
  <2>. QED
    BY <1>2, <2>1, <2>2 DEF Cells
<1>4. IsFiniteSet(DOMAIN next)
  BY <1>2, FS_RemoveElement DEF IInv, Workbook
<1>5. Workbook(doc)
  BY DEF IInv
<1>6. Workbook(next) /\ (HasCycle(next) => HasCycle(doc))
  BY <1>2, <1>3, <1>4, <1>5, FewerEdges DEF Workbook
<1>. QED
  BY <1>1, <1>6, CommitIInv

LEMMA RenameIInv ==
  ASSUME IInv, NEW old \in Ids, NEW new \in Ids, RenameCell(old, new)
  PROVE  IInv' /\ (HasCycle(doc') => HasCycle(doc)) /\ dirty' = TRUE
<1>1. run = {} /\ old \in DOMAIN doc /\ new \notin DOMAIN doc /\ Commit(AfterRename(doc, old, new))
  BY DEF RenameCell, Ready, Free, AfterRename, Renamed, Was
<1>2. /\ Workbook(AfterRename(doc, old, new))
      /\ HasCycle(AfterRename(doc, old, new)) => HasCycle(doc)
  BY <1>1, RenameKeeps DEF IInv
<1>. QED
  BY <1>1, <1>2, CommitIInv

LEMMA TouchIInv ==
  ASSUME IInv, Touch
  PROVE  IInv' /\ doc' = doc /\ dirty' = TRUE
BY CommitIInv DEF Touch, Ready, Free, IInv

LEMMA OpenIInv ==
  ASSUME IInv, NEW d \in Files, NEW force \in BOOLEAN, Open(d, force)
  PROVE  IInv' /\ dirty' = FALSE
<1>1. /\ run' = {} /\ opened' = TRUE /\ dirty' = FALSE
      /\ doc' = d /\ cache' = <<>> /\ stale' = DOMAIN d
  BY DEF Open, Free
<1>2. DOMAIN <<>> = {}
  BY EmptyDomain
<1>3. Workbook(d)
  BY FilesAssumption DEF Workbook
<1>4. CacheIsExact' /\ StaleIsExact'
  BY <1>1, <1>2 DEF CacheIsExact, StaleIsExact, HasValidResult
<1>5. DOMAIN cache' \subseteq DOMAIN doc'
  BY <1>1, <1>2
<1>. QED
  BY <1>1, <1>3, <1>4, <1>5 DEF IInv, Workbook

LEMMA SaveIInv ==
  ASSUME IInv, Save
  PROVE  IInv' /\ doc' = doc /\ run' = {} /\ run = {}
<1>1. dirty' = FALSE /\ UNCHANGED <<opened, doc, cache, stale, run>> /\ run = {}
  BY DEF Save, Ready, Free
<1>. QED
  BY <1>1 DEF IInv, Workbook, CacheIsExact, StaleIsExact

-----------------------------------------------------------------------------
(* A run *)

(* The seed of a run is exact, and misses no cell that is not stale.        *)
LEMMA StartIInv ==
  ASSUME IInv, NEW only \in Requested, RunStarts(only)
  PROVE  IInv' /\ doc' = doc /\ run' # {}
<1>. DEFINE FS == FromScratch(doc)
<1>. PICK r : r = [target  |-> Target(only),
                   todo    |-> stale \cap Target(only) \cap Allowed(only),
                   wb      |-> doc,
                   outputs |-> Seed,
                   done    |-> <<>>]
  OBVIOUS
<1>1. /\ run = {} /\ ~HasCycle(doc) /\ run' = {r}
      /\ UNCHANGED <<opened, doc, dirty, cache, stale>>
  BY DEF RunStarts, Ready, Free
<1>2. Workbook(doc) /\ CacheIsExact /\ StaleIsExact /\ DOMAIN cache \subseteq DOMAIN doc
  BY DEF IInv
<1>3. Target(only) \subseteq DOMAIN doc /\ Closed(doc, Target(only))
  <2>1. CASE Target(only) = DOMAIN doc
    BY <1>2, <2>1 DEF Closed, Workbook
  <2>2. CASE Target(only) = {}
    BY <2>2 DEF Closed
  <2>3. CASE only \in DOMAIN doc /\ Target(only) = DependenciesOf(doc, {only}) \cap DOMAIN doc
    <3>1. only \in Ids /\ \A c \in DOMAIN doc : doc[c] \in Cells
      BY <1>2, <2>3 DEF Workbook
    <3>2. Closed(doc, DependenciesOf(doc, {only}))
      BY <3>1, DependenciesClosed
    <3>. QED
      BY <1>2, <2>3, <3>2 DEF Closed, Workbook
  <2>. QED
    BY <2>1, <2>2, <2>3 DEF Target, Ancestors
<1>4. only # Empty \/ EmptyOnly
  BY IdsAssumption DEF Requested, AllCells, Empty
<1>5. r.todo # {} \/ ~EmptyOnly => r.todo = stale \cap r.target
  BY <1>4 DEF Allowed
<1>6. \A c \in DOMAIN Seed : c \in DOMAIN doc /\ HasOutput(FS[c]) /\ Seed[c] = FS[c].output
  <2>1. \A c \in DOMAIN Seed : c \in DOMAIN cache /\ cache[c].status \in Valid /\ Seed[c] = cache[c].output
    BY DEF Seed
  <2>2. \A c \in DOMAIN cache : c \in DOMAIN doc /\ cache[c] = FS[c]
    BY <1>1, <1>2 DEF CacheIsExact
  <2>. QED
    BY <2>1, <2>2 DEF HasOutput, Valid
<1>7. \A c \in DOMAIN doc : c \notin stale => c \in DOMAIN Seed
  BY <1>2 DEF StaleIsExact, HasValidResult, Seed
<1>8. r = [target |-> r.target, todo |-> r.todo, wb |-> doc, outputs |-> r.outputs, done |-> r.done]
  OBVIOUS
<1>9. r.target = Target(only) /\ r.todo \subseteq r.target \cap stale /\ r.outputs = Seed /\ DOMAIN r.done = {}
  BY EmptyDomain
<1>. HIDE DEF FS
<1>10. RunExact(r)
  BY <1>1, <1>3, <1>5, <1>6, <1>7, <1>8, <1>9 DEF RunExact, FS
<1>11. RunExact(r)'
  BY <1>1, <1>10 DEF RunExact
<1>. QED
  BY <1>1, <1>2, <1>11 DEF IInv, Workbook, CacheIsExact, StaleIsExact

(* When a cell is executed, all its dependencies that ever have an output   *)
(* have it: its result is that of a run from scratch.                       *)
LEMMA RunCellIInv ==
  ASSUME IInv, NEW r \in run, NEW id \in Ids, RunCell(r, id)
  PROVE  IInv' /\ doc' = doc /\ run' # {}
<1>. DEFINE FS == FromScratch(doc)
<1>. PICK result : result = Evaluated(doc[id], Scope(doc[id], r.outputs))
  OBVIOUS
<1>. PICK outputs : outputs = IF HasOutput(result)
                              THEN [c \in DOMAIN r.outputs \cup {id} |->
                                      IF c = id THEN result.output ELSE r.outputs[c]]
                              ELSE r.outputs
  OBVIOUS
<1>. PICK done : done = [c \in DOMAIN r.done \cup {id} |-> IF c = id THEN result ELSE r.done[c]]
  OBVIOUS
<1>. PICK n : n = [target |-> r.target, todo |-> r.todo \ {id}, wb |-> doc,
                   outputs |-> outputs, done |-> done]
  OBVIOUS
<1>1. RunExact(r) /\ run = {r}
  BY DEF IInv
<1>2. r = [target |-> r.target, todo |-> r.todo, wb |-> doc, outputs |-> r.outputs, done |-> r.done]
  BY <1>1 DEF RunExact
<1>3. r.wb = doc
  BY <1>2
<1>4. /\ id \in r.todo /\ Ancestors(doc, id) \cap r.todo = {id}
      /\ UNCHANGED <<opened, doc, dirty, cache, stale>>
  BY <1>3 DEF RunCell
<1>5. run' = {n}
  <2>1. run' = {[r EXCEPT !.todo = r.todo \ {id}, !.outputs = outputs, !.done = done]}
    BY <1>2, <1>3 DEF RunCell
  <2>2. [r EXCEPT !.todo = r.todo \ {id}, !.outputs = outputs, !.done = done] = n
    <3>1. PICK r1 : r1 = [target |-> r.target, todo |-> r.todo \ {id}, wb |-> doc,
                          outputs |-> r.outputs, done |-> r.done]
      OBVIOUS
    <3>2. PICK r2 : r2 = [target |-> r.target, todo |-> r.todo \ {id}, wb |-> doc,
                          outputs |-> outputs, done |-> r.done]
      OBVIOUS
    <3>3. r1 = [r EXCEPT !.todo = r.todo \ {id}]
      <4>1. PICK t, u, o, e : r = [target |-> t, todo |-> u, wb |-> doc, outputs |-> o, done |-> e]
        BY <1>2
      <4>2. PICK x : x = r.todo \ {id}
        OBVIOUS
      <4>3. r1 = [target |-> t, todo |-> x, wb |-> doc, outputs |-> o, done |-> e]
        BY <3>1, <4>1, <4>2
      <4>4. r1 = [r EXCEPT !.todo = x]
        BY <4>1, <4>3
      <4>. QED
        BY <4>2, <4>4
    <3>4. r2 = [r1 EXCEPT !.outputs = outputs]
      BY <3>1, <3>2
    <3>5. n = [r2 EXCEPT !.done = done]
      BY <3>2
    <3>6. [r EXCEPT !.todo = r.todo \ {id}, !.outputs = outputs, !.done = done]
          = [[[r EXCEPT !.todo = r.todo \ {id}] EXCEPT !.outputs = outputs] EXCEPT !.done = done]
      OBVIOUS
    <3>. QED
      BY <3>3, <3>4, <3>5, <3>6
  <2>. QED
    BY <2>1, <2>2
<1>6. Workbook(doc) /\ ~HasCycle(doc) /\ id \in DOMAIN doc /\ id \in r.target /\ id \in stale
  BY <1>1, <1>4 DEF RunExact, IInv
<1>7. result = FS[id]
  <2>1. ASSUME NEW i \in doc[id].deps
        PROVE  /\ i \in DOMAIN doc
               /\ i \in DOMAIN r.outputs <=> HasOutput(FS[i])
               /\ i \in DOMAIN r.outputs => r.outputs[i] = FS[i].output
    <3>1. i \in DependenciesOf(doc, {id}) /\ i # id /\ i \in DOMAIN doc
      <4>1. doc[id].deps \subseteq DependenciesOf(doc, doc[id].deps)
        BY <1>6, DependenciesOfCell
      <4>2. DependenciesOf(doc, {id}) = {id} \cup DependenciesOf(doc, doc[id].deps)
        BY <1>6, DependenciesOfCell
      <4>3. DependenciesOf(doc, {id}) \subseteq DOMAIN doc
        BY <1>6, DependenciesOfCell
      <4>4. id \notin DependenciesOf(doc, doc[id].deps)
        BY <1>6, NotItsOwn
      <4>. QED
        BY <4>1, <4>2, <4>3, <4>4
    <3>2. i \notin r.todo
      BY <1>4, <1>6, <3>1 DEF Ancestors
    <3>3. i \in r.target
      BY <1>1, <1>6 DEF RunExact, Closed
    <3>4. i \notin stale \/ i \in DOMAIN r.done
      BY <1>1, <1>4, <3>2, <3>3 DEF RunExact
    <3>. QED
      BY <1>1, <3>1, <3>4 DEF RunExact
  <2>2. doc[id].deps \cap DOMAIN r.outputs = {i \in doc[id].deps : HasOutput(FS[i])}
    BY <2>1
  <2>3. Scope(doc[id], r.outputs) = Given(doc, FS, id)
    <3>. HIDE DEF FS
    <3>. QED
      BY <2>1, <2>2 DEF Scope, Given
  <2>4. Exact(doc, FS, DOMAIN doc)
    BY <1>6, FromScratchExact
  <2>. HIDE DEF FS
  <2>5. FS[id] = Evaluated(doc[id], Given(doc, FS, id))
    BY <1>6, <2>4 DEF Exact
  <2>. QED
    BY <2>3, <2>5
<1>. HIDE DEF FS
<1>8. /\ DOMAIN done = DOMAIN r.done \cup {id}
      /\ \A c \in DOMAIN done : done[c] = FS[c]
  BY <1>1, <1>7 DEF RunExact, FS
<1>9. \A c \in DOMAIN outputs : c \in DOMAIN doc /\ HasOutput(FS[c]) /\ outputs[c] = FS[c].output
  <2>1. \A c \in DOMAIN r.outputs : c \in DOMAIN doc /\ HasOutput(FS[c]) /\ r.outputs[c] = FS[c].output
    BY <1>1 DEF RunExact, FS
  <2>. QED
    BY <1>6, <1>7, <2>1
<1>10. ASSUME NEW c \in DOMAIN doc, c \notin stale \/ c \in DOMAIN done, HasOutput(FS[c])
       PROVE  c \in DOMAIN outputs
  <2>1. DOMAIN r.outputs \subseteq DOMAIN outputs
    OBVIOUS
  <2>2. CASE c = id
    BY <1>7, <1>10, <2>2
  <2>3. CASE c # id
    <3>1. c \notin stale \/ c \in DOMAIN r.done
      BY <1>8, <1>10, <2>3
    <3>. QED
      BY <1>1, <1>10, <2>1, <3>1 DEF RunExact, FS
  <2>. QED
    BY <2>2, <2>3
<1>11. /\ n = [target |-> n.target, todo |-> n.todo, wb |-> doc, outputs |-> n.outputs, done |-> n.done]
       /\ n.target = r.target /\ n.todo = r.todo \ {id} /\ n.outputs = outputs /\ n.done = done
  OBVIOUS
<1>12. /\ r.target \subseteq DOMAIN doc /\ Closed(doc, r.target)
       /\ n.todo \subseteq r.target \cap stale
       /\ DOMAIN done \subseteq (r.target \cap stale) \ n.todo
       /\ n.todo # {} \/ ~EmptyOnly => r.target \cap stale \subseteq n.todo \cup DOMAIN done
  <2>1. /\ r.target \subseteq DOMAIN doc /\ Closed(doc, r.target)
        /\ r.todo \subseteq r.target \cap stale
        /\ DOMAIN r.done \subseteq (r.target \cap stale) \ r.todo
        /\ r.target \cap stale \subseteq r.todo \cup DOMAIN r.done
    BY <1>1, <1>4 DEF RunExact
  <2>. QED
    BY <1>4, <1>6, <1>8, <1>11, <2>1
<1>13. RunExact(n)
  BY <1>6, <1>8, <1>9, <1>10, <1>11, <1>12 DEF RunExact, FS
<1>14. RunExact(n)'
  BY <1>4, <1>13 DEF RunExact
<1>. QED
  BY <1>4, <1>5, <1>14 DEF IInv, Workbook, CacheIsExact, StaleIsExact

(* The results of a run are as exact as those it leaves. *)
LEMMA RunEndsIInv ==
  ASSUME IInv, NEW r \in run, RunEnds(r)
  PROVE  /\ IInv' /\ doc' = doc
         /\ ~EmptyOnly => r.target \subseteq DOMAIN cache'
<1>1. RunExact(r) /\ Workbook(doc) /\ DOMAIN cache \subseteq DOMAIN doc
  BY DEF IInv
<1>2. /\ r.todo = {} /\ run' = {} /\ UNCHANGED <<opened, doc, dirty>>
      /\ stale' = stale \ {c \in DOMAIN r.done : r.done[c].status \in Valid}
      /\ DOMAIN cache' = DOMAIN cache \cup DOMAIN r.done
      /\ \A c \in DOMAIN cache' : cache'[c] = IF c \in DOMAIN r.done THEN r.done[c] ELSE cache[c]
  BY DEF RunEnds, Settles
<1>3. DOMAIN r.done \subseteq stale /\ DOMAIN r.done \subseteq DOMAIN doc /\ ~HasCycle(doc)
  BY <1>1 DEF RunExact
<1>4. CacheIsExact'
  <2>1. \A c \in DOMAIN r.done : r.done[c] = FromScratch(doc)[c]
    BY <1>1 DEF RunExact
  <2>2. \A c \in DOMAIN cache : c \in DOMAIN doc /\ cache[c] = FromScratch(doc)[c]
    BY <1>3 DEF IInv, CacheIsExact
  <2>3. \A c \in DOMAIN cache' : c \in DOMAIN doc /\ cache'[c] = FromScratch(doc)[c]
    BY <1>2, <1>3, <2>1, <2>2
  <2>. QED
    BY <1>2, <1>3, <2>3 DEF CacheIsExact
<1>5. StaleIsExact'
  <2>1. stale = {c \in DOMAIN doc : ~HasValidResult(cache, c)}
    BY DEF IInv, StaleIsExact
  <2>. QED
    BY <1>2, <1>3, <2>1 DEF StaleIsExact, HasValidResult
<1>6. ASSUME ~EmptyOnly PROVE r.target \subseteq DOMAIN cache'
  <2>1. r.target \cap stale \subseteq DOMAIN r.done /\ r.target \subseteq DOMAIN doc
    BY <1>1, <1>2, <1>6 DEF RunExact
  <2>2. DOMAIN doc \ stale \subseteq DOMAIN cache
    BY DEF IInv, StaleIsExact, HasValidResult
  <2>. QED
    BY <1>2, <2>1, <2>2
<1>7. DOMAIN cache' \subseteq DOMAIN doc'
  BY <1>1, <1>2, <1>3
<1>. QED
  BY <1>1, <1>2, <1>4, <1>5, <1>6, <1>7 DEF IInv, Workbook

-----------------------------------------------------------------------------
(* What holds in every behaviour *)

LEMMA NextIInv ==
  ASSUME IInv, [Next]_vars
  PROVE  IInv'
<1>1. CASE UNCHANGED vars
  BY <1>1 DEF vars, IInv, Workbook, CacheIsExact, StaleIsExact, RunExact
<1>2. ASSUME NEW d \in Files, NEW force \in BOOLEAN, Open(d, force) PROVE IInv'
  BY <1>2, OpenIInv
<1>3. ASSUME NEW id \in Ids, NEW cell \in Cells, AddCell(id, cell) PROVE IInv'
  BY <1>3, AddIInv
<1>4. ASSUME NEW id \in Ids, NEW cell \in Cells, EditCell(id, cell) PROVE IInv'
  BY <1>4, EditIInv
<1>5. ASSUME NEW id \in Ids, NEW content \in Contents, EditContent(id, content) PROVE IInv'
  BY <1>5, EditContentIInv
<1>6. ASSUME NEW id \in Ids, NEW force \in BOOLEAN, RemoveCell(id, force) PROVE IInv'
  BY <1>6, RemoveIInv
<1>7. ASSUME NEW old \in Ids, NEW new \in Ids, RenameCell(old, new) PROVE IInv'
  BY <1>7, RenameIInv
<1>8. CASE Touch
  BY <1>8, TouchIInv
<1>9. CASE Save
  BY <1>9, SaveIInv
<1>10. ASSUME NEW only \in Requested, RunStarts(only) PROVE IInv'
  BY <1>10, StartIInv
<1>11. ASSUME NEW r \in run, NEW id \in Ids, RunCell(r, id) PROVE IInv'
  BY <1>11, RunCellIInv
<1>12. ASSUME NEW r \in run, RunEnds(r) PROVE IInv'
  BY <1>12, RunEndsIInv
<1>. QED
  BY <1>1, <1>2, <1>3, <1>4, <1>5, <1>6, <1>7, <1>8, <1>9, <1>10, <1>11, <1>12 DEF Next

(* The strengthened invariant of the session, for every set of documents    *)
(* and requests, however edits and the steps of a run interleave.           *)
THEOREM Invariance == Spec => []IInv
<1>1. Init => IInv
  BY InitIInv
<1>2. IInv /\ [Next]_vars => IInv'
  BY NextIInv
<1>. QED
  BY <1>1, <1>2, PTL DEF Spec

(* Whatever was edited, renamed, removed or run in parts, a result that the *)
(* session keeps is that of a run from scratch (session.ts:79-107).         *)
THEOREM CacheExact == Spec => []CacheIsExact
<1>1. IInv => CacheIsExact
  BY DEF IInv
<1>. QED
  BY <1>1, Invariance, PTL

(* The stale cells are those without a valid result.                        *)
THEOREM StaleExact == Spec => []StaleIsExact
<1>1. IInv => StaleIsExact
  BY DEF IInv
<1>. QED
  BY <1>1, Invariance, PTL

(* No edit leaves a reference without a cell (edit.ts:63-73).               *)
THEOREM ReferencesExist == Spec => []RefsExist
<1>1. IInv => RefsExist
  <2>. SUFFICES ASSUME IInv PROVE RefsExist
    OBVIOUS
  <2>1. stale \subseteq DOMAIN doc
    BY DEF IInv, StaleIsExact
  <2>2. \A r \in run : r.todo \subseteq r.target /\ DOMAIN r.done \subseteq r.target \ r.todo
    BY DEF IInv, RunExact
  <2>3. Cardinality(run) <= 1
    BY FS_EmptySet, FS_Singleton DEF IInv
  <2>. QED
    BY <2>1, <2>2, <2>3 DEF IInv, Workbook, RefsExist, TypeOK
<1>. QED
  BY <1>1, Invariance, PTL

(* A run that has cells to do can execute one of them (graph.ts:41-68).     *)
THEOREM RunsAreNeverStuck == Spec => []RunNeverStuck
<1>1. IInv => RunNeverStuck
  <2>. SUFFICES ASSUME IInv, NEW r \in run, r.todo # {}
                PROVE  \E id \in r.todo : Ancestors(r.wb, id) \cap r.todo = {id}
    BY DEF RunNeverStuck
  <2>1. Workbook(doc) /\ ~HasCycle(doc) /\ r.wb = doc /\ r.todo \in SUBSET DOMAIN doc
    BY DEF IInv, RunExact
  <2>2. PICK id \in r.todo : DependenciesOf(doc, doc[id].deps) \cap r.todo = {}
    BY <2>1, FirstCell
  <2>3. Ancestors(doc, id) = {id} \cup DependenciesOf(doc, doc[id].deps)
    BY <2>1, DependenciesOfCell DEF Ancestors
  <2>. QED
    BY <2>1, <2>2, <2>3
<1>. QED
  BY <1>1, Invariance, PTL

(* Only a file brings in a cycle, never an edit (edit.ts:75-88).            *)
THEOREM EditsMakeNoCycle == Spec => EditsAddNoCycle
<1>1. IInv /\ [Next]_vars => [~HasCycle(doc) /\ HasCycle(doc') => ~dirty']_vars
  <2>. SUFFICES ASSUME IInv, Next, ~HasCycle(doc), HasCycle(doc') PROVE ~dirty'
    OBVIOUS
  <2>1. ASSUME NEW id \in Ids, NEW cell \in Cells, AddCell(id, cell) \/ EditCell(id, cell) PROVE FALSE
    BY <2>1, AddIInv, EditIInv
  <2>2. ASSUME NEW id \in Ids, NEW content \in Contents, EditContent(id, content) PROVE FALSE
    BY <2>2, EditContentIInv
  <2>3. ASSUME NEW id \in Ids, NEW force \in BOOLEAN, RemoveCell(id, force) PROVE FALSE
    BY <2>3, RemoveIInv
  <2>4. ASSUME NEW old \in Ids, NEW new \in Ids, RenameCell(old, new) PROVE FALSE
    BY <2>4, RenameIInv
  <2>5. ASSUME Touch \/ Save PROVE FALSE
    BY <2>5, TouchIInv, SaveIInv
  <2>6. ASSUME NEW only \in Requested, RunStarts(only) PROVE FALSE
    BY <2>6, StartIInv
  <2>7. ASSUME NEW r \in run, NEW id \in Ids, RunCell(r, id) PROVE FALSE
    BY <2>7, RunCellIInv
  <2>8. ASSUME NEW r \in run, RunEnds(r) PROVE FALSE
    BY <2>8, RunEndsIInv
  <2>9. ASSUME NEW d \in Files, NEW force \in BOOLEAN, Open(d, force) PROVE ~dirty'
    BY <2>9, OpenIInv
  <2>. QED
    BY <2>1, <2>2, <2>3, <2>4, <2>5, <2>6, <2>7, <2>8, <2>9 DEF Next
<1>. QED
  BY <1>1, Invariance, PTL DEF Spec, EditsAddNoCycle

(* A run reports on every cell of its target, unless a request may carry an *)
(* empty cell id (session.ts:139-143).                                      *)
THEOREM ReportsAreComplete ==
  ASSUME EmptyOnly = FALSE
  PROVE  Spec => ReportIsComplete
<1>1. IInv /\ [Next]_vars => [\A r \in run : run' = {} => r.target \subseteq DOMAIN cache']_vars
  <2>. SUFFICES ASSUME IInv, Next, NEW r \in run, run' = {} PROVE r.target \subseteq DOMAIN cache'
    OBVIOUS
  <2>1. run = {r}
    BY DEF IInv
  <2>2. ASSUME NEW only \in Requested, RunStarts(only) PROVE FALSE
    BY <2>2, StartIInv
  <2>3. ASSUME NEW q \in run, NEW id \in Ids, RunCell(q, id) PROVE FALSE
    BY <2>3, RunCellIInv
  <2>4. ASSUME NEW q \in run, RunEnds(q) PROVE r.target \subseteq DOMAIN cache'
    BY <2>1, <2>4, RunEndsIInv
  <2>. QED
    BY <2>1, <2>2, <2>3, <2>4
    DEF Next, Open, AddCell, EditCell, EditContent, RemoveCell, RenameCell, Touch, Save, Ready, Free
<1>. QED
  BY <1>1, Invariance, PTL DEF Spec, ReportIsComplete
=============================================================================
