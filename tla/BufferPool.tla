----------------------------- MODULE BufferPool -----------------------------
(***************************************************************************)
(* gpu/src/BufferPool.ts: GPU buffers are kept for reuse, in classes of a  *)
(* rounded size and a usage, and evicted when they have been idle too long *)
(* or on request.  No method awaits, so each is one action.                *)
(***************************************************************************)
EXTENDS Integers, Sequences, FiniteSets, SequencesExt

CONSTANTS
  Buffers,          (* identities of GPUBuffers                              *)
  Callers,          (* whoever acquires; each holds at most one buffer       *)
  Nothing,          (* what a caller without a buffer holds                  *)
  Sizes,            (* the sizes asked for                                   *)
  Usages,
  MaxCacheSize,     (* maxCacheSize                                          *)
  EvictionTimeout,  (* evictionTimeout                                       *)
  MaxAge,           (* bound: idle times beyond it are not told apart        *)
  AutoEvict,        (* autoEvict                                             *)
  Targets,          (* what evictToSize is called with                       *)
  DeepShrinks       (* may evictToSize take two buffers of one class?        *)

ASSUME PoolAssumption ==
  /\ Sizes \subseteq Nat /\ IsFiniteSet(Sizes) /\ IsFiniteSet(Usages)
  /\ MaxCacheSize \in Nat /\ EvictionTimeout \in Nat
  /\ MaxAge \in Nat /\ MaxAge > EvictionTimeout
  /\ AutoEvict \in BOOLEAN /\ Targets \subseteq Int /\ DeepShrinks \in BOOLEAN
  /\ Nothing \notin [buffer : Buffers, size : Sizes]

VARIABLES
  buffers,          (* the entries of each class, <<>> for a class that the  *)
                    (* map has no key for                                    *)
  currentCacheSize,
  evictionTimer,    (* is the interval timer on?                             *)
  memory,           (* the buffers that exist on the device, with their size *)
  held              (* what each caller has acquired and not released        *)

vars == <<buffers, currentCacheSize, evictionTimer, memory, held>>

-----------------------------------------------------------------------------
(* Classes and entries *)

(* The values that the loop of roundUpToPowerOf2 runs through, and more.  A *)
(* size is an integer that a number holds exactly (at most 2^53): the loop  *)
(* stops there, so nothing larger is rounded up.                            *)
PowersOf2(n) ==
  LET power[k \in 0..n] == IF k = 0 THEN 1 ELSE 2 * power[k - 1]
  IN  {power[k] : k \in 0..n}

RoundUpToPowerOf2(n) ==
  IF n <= 0 THEN 1 ELSE CHOOSE p \in PowersOf2(n) : n <= p /\ p < 2 * n

KeyOf(size, usage) == <<RoundUpToPowerOf2(size), usage>>
Keys  == {KeyOf(n, u) : n \in Sizes, u \in Usages}
SizeOf(key) == key[1]

(* age: the time since lastUsed. *)
Entries == [buffer : Buffers, inUse : BOOLEAN, age : 0..MaxAge]

TypeOK ==
  /\ buffers \in [Keys -> Seq(Entries)]
  /\ currentCacheSize \in Nat
  /\ evictionTimer \in BOOLEAN
  /\ DOMAIN memory \subseteq Buffers
  /\ \A b \in DOMAIN memory : memory[b] \in Nat
  /\ held \in [Callers -> [buffer : Buffers, size : Sizes] \cup {Nothing}]

Init ==
  /\ buffers = [k \in Keys |-> <<>>]
  /\ currentCacheSize = 0
  /\ evictionTimer = AutoEvict
  /\ memory = <<>>
  /\ held = [c \in Callers |-> Nothing]

(* A place of an entry in the pool. *)
Slots == UNION {{<<k, i>> : i \in DOMAIN buffers[k]} : k \in Keys}
EntryAt(slot) == buffers[slot[1]][slot[2]]

Pooled == {EntryAt(slot).buffer : slot \in Slots}
Held   == {held[c].buffer : c \in {d \in Callers : held[d] # Nothing}}

(* The bytes of the entries at some places, and of all buffers there are. *)
BytesIn(slots) == MapThenSumSet(LAMBDA slot : SizeOf(slot[1]), slots)
BytesOf(mem)   == MapThenSumSet(LAMBDA b : mem[b], DOMAIN mem)

(* The device's memory once some buffers are destroyed. *)
Without(mem, gone) == [b \in DOMAIN mem \ gone |-> mem[b]]

(* What is left of a list when only some of its places are kept, in order. *)
Sublist(s, places) ==
  LET Rank(i) == Cardinality({j \in places : j <= i})
  IN  [n \in 1..Cardinality(places) |-> s[CHOOSE i \in places : Rank(i) = n]]

-----------------------------------------------------------------------------
(* Eviction by age *)

(* Faulty variants of Evictable: a buffer in use goes too; the comparison   *)
(* is the wrong way round.                                                  *)
EvictableInUse(entry)  == entry.age > EvictionTimeout
EvictableYoung(entry)  == ~entry.inUse /\ entry.age < EvictionTimeout

Evictable(entry) == ~entry.inUse /\ entry.age > EvictionTimeout

Staying(entries) == {i \in DOMAIN entries : ~Evictable(entries[i])}

(* A fault: the size is not brought up to date. *)
EvictOldUncounted(pool, mem, total) ==
  LET gone == UNION {{pool[k][i].buffer : i \in {j \in DOMAIN pool[k] : Evictable(pool[k][j])}} :
                       k \in Keys}
  IN  /\ buffers' = [k \in Keys |-> Sublist(pool[k], Staying(pool[k]))]
      /\ memory' = Without(mem, gone)
      /\ currentCacheSize' = total

(* evictOldBuffers, from the given entries, memory and size. *)
EvictOldBuffers(pool, mem, total) ==
  LET old  == UNION {{<<k, i>> : i \in {j \in DOMAIN pool[k] : Evictable(pool[k][j])}} : k \in Keys}
      gone == {pool[slot[1]][slot[2]].buffer : slot \in old}
  IN  /\ buffers' = [k \in Keys |-> Sublist(pool[k], Staying(pool[k]))]
      /\ memory' = Without(mem, gone)
      /\ currentCacheSize' = total - BytesIn(old)

-----------------------------------------------------------------------------
(* Acquire and release *)

(* A fault: an entry in use is found too. *)
UsableAnyway(key, size) == {i \in DOMAIN buffers[key] : SizeOf(key) >= size}

(* The entries that can be handed out again. *)
Usable(key, size) ==
  {i \in DOMAIN buffers[key] : ~buffers[key][i].inUse /\ SizeOf(key) >= size}

(* acquire finds a buffer in the pool: the first that is usable. *)
AcquireCached(c, size, usage) ==
  LET key == KeyOf(size, usage)
      i   == Min(Usable(key, size))
  IN  /\ held[c] = Nothing
      /\ Usable(key, size) # {}
      /\ buffers' = [buffers EXCEPT ![key][i].inUse = TRUE, ![key][i].age = 0]
      /\ held' = [held EXCEPT ![c] = [buffer |-> buffers[key][i].buffer, size |-> size]]
      /\ UNCHANGED <<currentCacheSize, evictionTimer, memory>>

(* acquire creates a buffer, and evicts if that is too much. *)
AcquireNew(c, size, usage, b) ==
  LET key   == KeyOf(size, usage)
      entry == [buffer |-> b, inUse |-> TRUE, age |-> 0]
      pool  == [buffers EXCEPT ![key] = Append(@, entry)]
      mem   == [x \in DOMAIN memory \cup {b} |-> IF x = b THEN SizeOf(key) ELSE memory[x]]
      total == currentCacheSize + SizeOf(key)
  IN  /\ held[c] = Nothing
      /\ Usable(key, size) = {}
      /\ b \notin DOMAIN memory \cup Pooled \cup Held
      /\ IF total > MaxCacheSize
         THEN EvictOldBuffers(pool, mem, total)
         ELSE buffers' = pool /\ memory' = mem /\ currentCacheSize' = total
      /\ held' = [held EXCEPT ![c] = [buffer |-> b, size |-> size]]
      /\ UNCHANGED evictionTimer

(* release: the entry becomes idle; a buffer that is not in the pool (any   *)
(* more) is ignored.                                                        *)
Release(c) ==
  /\ held[c] # Nothing
  /\ buffers' = [k \in Keys |-> [i \in DOMAIN buffers[k] |->
                   IF buffers[k][i].buffer = held[c].buffer
                   THEN [buffers[k][i] EXCEPT !.inUse = FALSE, !.age = 0]
                   ELSE buffers[k][i]]]
  /\ held' = [held EXCEPT ![c] = Nothing]
  /\ UNCHANGED <<currentCacheSize, evictionTimer, memory>>

-----------------------------------------------------------------------------
(* evictToSize *)

IdleSlots == {slot \in Slots : ~EntryAt(slot).inUse}

(* Oldest first; the sort is stable, and the order of the classes is that   *)
(* of the map, which is left open, as is that of ages no longer counted.     *)
Before(p, q) ==
  \/ EntryAt(p).age > EntryAt(q).age
  \/ /\ EntryAt(p).age = EntryAt(q).age
     /\ p[1] = q[1] /\ EntryAt(p).age < MaxAge => p[2] < q[2]
AllEntries ==
  {order \in SetToSeqs(IdleSlots) :
     \A m, n \in DOMAIN order : m < n => Before(order[m], order[n])}

(* What of order is evicted: a prefix that reaches the target, or all. *)
Victims(order, target) ==
  LET enough == {n \in 0..Len(order) :
                   currentCacheSize - BytesIn(ToSet(SubSeq(order, 1, n))) <= target}
  IN  SubSeq(order, 1, Min(enough \cup {Len(order)}))

(* splice(index, 1): beyond the end it removes nothing. *)
SpliceOut(entries, slot) ==
  IF slot[2] <= Len(entries) THEN RemoveAt(entries, slot[2]) ELSE entries

(* The indices are those before the first splice. *)
EvictToSize(target, order) ==
  LET victims == Victims(order, target)
      gone    == {EntryAt(slot).buffer : slot \in ToSet(victims)}
      Of(k)   == Sublist(victims, {n \in DOMAIN victims : victims[n][1] = k})
  IN  /\ currentCacheSize > target
      /\ ~DeepShrinks => \A k \in Keys : Len(Of(k)) <= 1
      /\ buffers' = [k \in Keys |-> FoldLeft(SpliceOut, buffers[k], Of(k))]
      /\ memory' = Without(memory, gone)
      /\ currentCacheSize' = currentCacheSize - BytesIn(ToSet(victims))
      /\ UNCHANGED <<evictionTimer, held>>

-----------------------------------------------------------------------------
(* The timer, and the end *)

EvictOld ==
  /\ EvictOldBuffers(buffers, memory, currentCacheSize)
  /\ UNCHANGED <<evictionTimer, held>>

TimerFires == evictionTimer /\ EvictOld

StartAutoEviction ==
  evictionTimer' = TRUE /\ UNCHANGED <<buffers, currentCacheSize, memory, held>>
StopAutoEviction ==
  evictionTimer' = FALSE /\ UNCHANGED <<buffers, currentCacheSize, memory, held>>

(* clear, destroy: buffers in use are destroyed too. *)
Clear ==
  /\ evictionTimer' = FALSE
  /\ memory' = Without(memory, Pooled)
  /\ buffers' = [k \in Keys |-> <<>>]
  /\ currentCacheSize' = 0
  /\ UNCHANGED held

(* Time passes. *)
Tick ==
  /\ buffers' = [k \in Keys |-> [i \in DOMAIN buffers[k] |->
                   [buffers[k][i] EXCEPT !.age = IF @ < MaxAge THEN @ + 1 ELSE @]]]
  /\ UNCHANGED <<currentCacheSize, evictionTimer, memory, held>>

Next ==
  \/ \E c \in Callers, n \in Sizes, u \in Usages :
       AcquireCached(c, n, u) \/ \E b \in Buffers : AcquireNew(c, n, u, b)
  \/ \E c \in Callers : Release(c)
  \/ \E target \in Targets : \E order \in AllEntries : EvictToSize(target, order)
  \/ EvictOld
  \/ TimerFires
  \/ StartAutoEviction \/ StopAutoEviction
  \/ Clear
  \/ Tick

Spec == Init /\ [][Next]_vars

(* The clock runs, and the event loop fires the timer while it is on. *)
Fairness == WF_vars(Tick) /\ WF_vars(TimerFires)
FairSpec == Spec /\ Fairness

-----------------------------------------------------------------------------
(* What acquire hands out exists, is large enough and is nobody else's.     *)
HandedOut ==
  [][\A c \in Callers :
       held[c] = Nothing /\ held'[c] # Nothing =>
         /\ held'[c].buffer \in DOMAIN memory'
         /\ memory'[held'[c].buffer] >= held'[c].size
         /\ held'[c].buffer \notin Held]_vars

(* Only clear destroys a buffer that a caller holds: neither age nor the    *)
(* cache limit does, also in the acquire that reaches the limit.            *)
HeldSurvives ==
  [][\A c \in Callers :
       held[c] # Nothing /\ held[c].buffer \in DOMAIN memory =>
         \/ held[c].buffer \in DOMAIN memory'
         \/ \A k \in Keys : buffers'[k] = <<>>]_vars

(* The variables have their types; every buffer that exists is in the pool, *)
(* once, so that it can be evicted;                                         *)
(* it is in use exactly while it is held; and the bytes are those of the    *)
(* buffers that exist.                                                      *)
Accounted ==
  /\ TypeOK
  /\ Pooled = DOMAIN memory
  /\ \A p, q \in Slots : EntryAt(p).buffer = EntryAt(q).buffer => p = q
  /\ \A p \in Slots : EntryAt(p).inUse <=> EntryAt(p).buffer \in Held
  /\ currentCacheSize = BytesOf(memory)

(* While the timer is on no buffer stays idle for ever.                     *)
Idle(b) == \E p \in IdleSlots : EntryAt(p).buffer = b
IdleIsEvicted ==
  \A b \in Buffers : evictionTimer /\ Idle(b) ~> ~evictionTimer \/ ~Idle(b)
=============================================================================
