----------------------------- MODULE WasmMemory -----------------------------
(***************************************************************************)
(* matrix/src/backends/WasmLoader.ts over core/src/wasm-loader.ts: the     *)
(* loading of the WebAssembly module, and the pool of typed arrays in its  *)
(* memory.  Released blocks are recycled, because the module's own         *)
(* allocator never frees.  Everything but load is one synchronous call.    *)
(***************************************************************************)
EXTENDS Naturals, Sequences, FiniteSets

CONSTANTS
  Users,         (* callers, each with at most one array at a time           *)
  Arrays,        (* their sizes in bytes                                     *)
  Threshold,     (* poolSizeThreshold                                        *)
  MaxBlocks,     (* bound: blocks allocated in a module's memory             *)
  MaxModules,    (* bound: loads that are begun                              *)
  EarlyResets    (* may reset() come while a load or an array is alive?      *)

VARIABLES
  wasmModule,    (* the module in use, a number, 0 if none                   *)
  loading,       (* the load whose promise later callers share, 0 if none    *)
  loads,         (* the loads that did not settle                            *)
  begun,         (* how many loads began                                     *)
  memory,        (* each module's blocks in allocation order: capacity, the  *)
                 (* length in the header, and whether it is pinned           *)
  entries,       (* float64Pool and int32Pool: PoolEntry by kind             *)
  array          (* what each user holds                                     *)

wasmVars == <<wasmModule, loading, loads, begun, memory, entries, array>>

Kinds   == {"float64", "int32"}
NoArray == [module |-> 0, ptr |-> 0, bytes |-> 0]
Block   == [kind : Kinds, size : Arrays, header : Arrays, pinned : BOOLEAN]

TypeOK ==
  /\ wasmModule \in 0..MaxModules /\ loading \in 0..MaxModules
  /\ loads \subseteq 1..MaxModules /\ begun \in 0..MaxModules
  /\ memory \in [1..MaxModules -> Seq(Block)]
  /\ \A k \in Kinds : entries[k] \subseteq
       [module : 1..MaxModules, ptr : 1..MaxBlocks, size : Arrays, inUse : BOOLEAN]
  /\ \A u \in Users :
       array[u] \in [module : 0..MaxModules, ptr : 0..MaxBlocks, bytes : Arrays \cup {0}]

WasmInit ==
  /\ wasmModule = 0 /\ loading = 0 /\ loads = {} /\ begun = 0
  /\ memory = [g \in 1..MaxModules |-> <<>>]
  /\ entries = [k \in Kinds |-> {}]
  /\ array = [u \in Users |-> NoArray]

Holds(u) == array[u] # NoArray

-----------------------------------------------------------------------------
(* load *)

(* Whoever calls while it is loading shares the promise. *)
Load ==
  /\ wasmModule = 0 /\ loading = 0
  /\ begun < MaxModules
  /\ begun' = begun + 1
  /\ loading' = begun + 1
  /\ loads' = loads \cup {begun + 1}
  /\ UNCHANGED <<wasmModule, memory, entries, array>>

(* After the await: also a load that reset() forgot sets the module. *)
LoadEnds(g) ==
  /\ g \in loads
  /\ loads' = loads \ {g}
  /\ wasmModule' = g /\ loading' = 0
  /\ UNCHANGED <<begun, memory, entries, array>>

(* A failed load is not kept: the next caller tries again. *)
LoadFails(g) ==
  /\ g \in loads
  /\ loads' = loads \ {g}
  /\ loading' = 0
  /\ UNCHANGED <<wasmModule, begun, memory, entries, array>>

-----------------------------------------------------------------------------
(* The allocations, with the module of the moment *)

(* A fault: a block of just the size asked for is passed over. *)
FitsStrictly(kind, bytes) ==
  {e \in entries[kind] : ~e.inUse /\ e.size > bytes /\ e.size <= 2 * bytes}

(* acquireFromAsPool: released, large enough, at most twice as large. *)
Fits(kind, bytes) ==
  {e \in entries[kind] : ~e.inUse /\ e.size >= bytes /\ e.size <= 2 * bytes}

Hands(u, ptr, bytes) ==
  array' = [array EXCEPT ![u] = [module |-> wasmModule, ptr |-> ptr, bytes |-> bytes]]

(* Kernels read the length from the header, so it is rewritten. *)
Recycled(mem, ptr, bytes) == [mem EXCEPT ![ptr].header = bytes]

(* The best fit is recycled. *)
AllocateRecycled(u, kind, bytes) ==
  /\ wasmModule # 0 /\ ~Holds(u)
  /\ bytes <= Threshold
  /\ \E e \in Fits(kind, bytes) :
       /\ \A f \in Fits(kind, bytes) : e.size <= f.size
       /\ entries' = [entries EXCEPT ![kind] = (@ \ {e}) \cup {[e EXCEPT !.inUse = TRUE]}]
       /\ memory' = [memory EXCEPT ![wasmModule] = Recycled(@, e.ptr, bytes)]
       /\ Hands(u, e.ptr, bytes)
  /\ UNCHANGED <<wasmModule, loading, loads, begun>>

(* makeAs, track: a new block, which is an entry unless it is too large. *)
AllocateNew(u, kind, bytes) ==
  /\ wasmModule # 0 /\ ~Holds(u)
  /\ bytes > Threshold \/ Fits(kind, bytes) = {}
  /\ Len(memory[wasmModule]) < MaxBlocks
  /\ LET ptr == Len(memory[wasmModule]) + 1
     IN  /\ memory' = [memory EXCEPT ![wasmModule] = Append(@,
                         [kind |-> kind, size |-> bytes, header |-> bytes, pinned |-> TRUE])]
         /\ entries' = IF bytes > Threshold THEN entries
                       ELSE [entries EXCEPT ![kind] = @ \cup
                              {[module |-> wasmModule, ptr |-> ptr, size |-> bytes, inUse |-> TRUE]}]
         /\ Hands(u, ptr, bytes)
  /\ UNCHANGED <<wasmModule, loading, loads, begun>>

EntriesAt(ptr) == {e \in UNION {entries[k] : k \in Kinds} : e.ptr = ptr}

Unpinned(mem, ptrs) ==
  [i \in DOMAIN mem |-> IF i \in ptrs THEN [mem[i] EXCEPT !.pinned = FALSE] ELSE mem[i]]

(* release, free: back to the pool whose entry has that pointer, or, if none *)
(* has, unpinned.                                                            *)
Release(u) ==
  /\ Holds(u)
  /\ array' = [array EXCEPT ![u] = NoArray]
  /\ LET ptr == array[u].ptr
     IN  IF EntriesAt(ptr) # {}
         THEN /\ entries' = [k \in Kinds |->
                   {IF e.ptr = ptr THEN [e EXCEPT !.inUse = FALSE] ELSE e : e \in entries[k]}]
              /\ UNCHANGED memory
         ELSE /\ memory' = IF wasmModule = 0 THEN memory
                           ELSE [memory EXCEPT ![wasmModule] = Unpinned(@, {ptr})]
              /\ UNCHANGED entries
  /\ UNCHANGED <<wasmModule, loading, loads, begun>>

(* A fault: every block of the pool is unpinned. *)
AllEntries == UNION {entries[k] : k \in Kinds}

(* Only released blocks: one in use is unpinned by its caller's release. *)
Released == {e \in UNION {entries[k] : k \in Kinds} : ~e.inUse}

(* clearPool, which does nothing without a module. *)
ClearPool ==
  /\ wasmModule # 0
  /\ memory' = [memory EXCEPT ![wasmModule] = Unpinned(@, {e.ptr : e \in Released})]
  /\ entries' = [k \in Kinds |-> {}]
  /\ UNCHANGED <<wasmModule, loading, loads, begun, array>>

(* reset, "for testing": expected when nothing is loading or in use.  The    *)
(* module is dropped, and its memory with it unless a user has a view of it. *)
Reset ==
  /\ EarlyResets \/ (loads = {} /\ \A u \in Users : ~Holds(u))
  /\ wasmModule' = 0 /\ loading' = 0
  /\ IF wasmModule = 0
     THEN UNCHANGED <<memory, entries>>
     ELSE /\ memory' = [memory EXCEPT ![wasmModule] =
                 IF \A u \in Users : ~Holds(u) THEN <<>>
                 ELSE Unpinned(@, {e.ptr : e \in Released})]
          /\ entries' = [k \in Kinds |-> {}]
  /\ UNCHANGED <<loads, begun, array>>

WasmNext ==
  \/ Load \/ ClearPool \/ Reset
  \/ \E g \in loads : LoadEnds(g) \/ LoadFails(g)
  \/ \E u \in Users :
       \/ Release(u)
       \/ \E kind \in Kinds, bytes \in Arrays :
            AllocateRecycled(u, kind, bytes) \/ AllocateNew(u, kind, bytes)

-----------------------------------------------------------------------------
Using(g, ptr) == {u \in Users : Holds(u) /\ array[u].module = g /\ array[u].ptr = ptr}

(* An array is its user's alone, in the memory of the module in use, large  *)
(* enough, with the length that was asked for in its header; and a block    *)
(* is pinned exactly while the pool or a user can reach it, so that neither *)
(* a collecting runtime takes it nor clearPool leaks it.                    *)
ArraysOwned ==
  /\ TypeOK
  /\ \A u \in Users : Holds(u) =>
       /\ array[u].module = wasmModule
       /\ LET block == memory[wasmModule][array[u].ptr]
          IN  block.header = array[u].bytes /\ block.size >= array[u].bytes
  /\ \A g \in 1..MaxModules : \A ptr \in DOMAIN memory[g] :
       LET pooled == {e \in EntriesAt(ptr) : e.module = g}
       IN  /\ Cardinality(Using(g, ptr)) <= 1 /\ Cardinality(pooled) <= 1
           /\ \A e \in pooled : e.inUse <=> Using(g, ptr) # {}
           /\ memory[g][ptr].pinned <=>
                pooled # {} \/ Using(g, ptr) # {}
  /\ \A e \in UNION {entries[k] : k \in Kinds} : e.module = wasmModule

(* "Recycling is the only way WASM linear memory stays bounded" (547-548):  *)
(* of the blocks of one kind and size that are pinned, never more exist     *)
(* than users hold arrays at once, for blocks that the pool takes.          *)
MemoryBounded ==
  \A g \in 1..MaxModules, k \in Kinds, s \in Arrays :
    s <= Threshold =>
      Cardinality({ptr \in DOMAIN memory[g] :
        memory[g][ptr].kind = k /\ memory[g][ptr].size = s /\ memory[g][ptr].pinned})
      <= Cardinality(Users)
=============================================================================
