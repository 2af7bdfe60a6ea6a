----------------------------- MODULE GpuProofs -----------------------------
(***************************************************************************)
(* GpuDispatch for any number of dispatches, contexts and devices: the     *)
(* library has one live device and never hands out one whose loss was      *)
(* reported, and a dispatch that returns data ran its commands or has lost *)
(* its device and read a buffer of another.  BufferPool for any buffers,   *)
(* callers, sizes and limits: an entry and a holder have a buffer to       *)
(* themselves, nothing held is evicted, and the bytes                      *)
(* are right.                                                              *)
(***************************************************************************)
EXTENDS MCGpu, ListFacts, FiniteSetTheorems

-----------------------------------------------------------------------------
(* What the contexts, the devices and the calls have in common *)

AContext == [status : {"uninitialized", "initializing", "ready", "lost", "error"},
             device : Nat, starting : BOOLEAN, asked : BOOLEAN]
ADevice  == [state : {"live", "lost", "told"}, context : Nat]

Lists ==
  /\ context \in Seq(AContext) /\ Len(context) <= MaxContexts
  /\ globalContext \in 0..Len(context)
  /\ device \in Seq(ADevice) /\ Len(device) <= MaxDevices
  /\ watched \subseteq DOMAIN device
  /\ orphaned \in BOOLEAN

(* A context that is ready has a device of its own whose loss nobody has    *)
(* been told of.                                                            *)
ContextOK(g) ==
  /\ context[g].device \in 0..Len(device)
  /\ context[g].status = "ready" =>
       /\ ~context[g].starting /\ context[g].device # 0
       /\ device[context[g].device].state # "told"
       /\ device[context[g].device].context = g

DevicesOK == \A d \in DOMAIN device : device[d].context \in 1..Len(context)

PromiseOK(p) ==
  \/ p = Dispatch!Empty
  \/ \E g \in DOMAIN context : p = Dispatch!Pending(g)
  \/ \E d \in 0..Len(device) : p = Dispatch!Value(d)

(* What is cached is on its way, with a listener, or watched and not told.  *)
CacheOK ==
  /\ PromiseOK(inFlight)
  /\ inFlight.kind = "pending" => context[inFlight.id].starting /\ context[inFlight.id].asked
  /\ inFlight.kind = "value" /\ inFlight.id # 0 =>
       inFlight.id \in watched /\ device[inFlight.id].state # "told"

(* Only the global context starts, and a device that lives is its device.   *)
OneGlobal ==
  /\ \A g \in DOMAIN context : context[g].starting => g = globalContext
  /\ \A d \in DOMAIN device :
       /\ device[d].state = "live" => device[d].context = globalContext
       /\ device[d].state # "told" /\ device[d].context = globalContext =>
            context[globalContext].status = "ready" /\ context[globalContext].device = d

ContextsInv ==
  /\ Lists /\ DevicesOK /\ CacheOK
  /\ \A g \in DOMAIN context : ContextOK(g)
  /\ orphaned \/ OneGlobal

OnePending == \A d, e \in DOMAIN device :
  device[d].state # "told" /\ device[e].state # "told" => d = e

CallStates == {"new", "queued", "waits", "has", "popping", "mapping", "done"}

CallOK(c) ==
  /\ at[c] \in CallStates /\ PromiseOK(promised[c])
  /\ at[c] = "waits" => promised[c].kind = "pending"
  /\ at[c] \in {"has", "popping", "mapping"} => promised[c].kind = "value"
  /\ job[c] \in [ran : BOOLEAN, error : BOOLEAN, staging : 0..Len(device)]
  /\ result[c] \in {"none", "data", "null"}
  /\ result[c] # "none" => at[c] = "done"

ResourceOK(x) ==
  /\ x \in [device : 0..Len(device), via : 0..Len(context), pooled : SUBSET (1..Len(device))]
  /\ x.device # 0 => x.via # 0

(* Nothing is queued twice, or again. *)
QueueOK ==
  /\ gpuQueue \in Seq(Calls) /\ IsInjective(gpuQueue)
  /\ \A c \in ToSet(gpuQueue) : at[c] = "queued"

CallsInv ==
  /\ QueueOK
  /\ at = [c \in Calls |-> at[c]] /\ promised = [c \in Calls |-> promised[c]]
  /\ job = [c \in Calls |-> job[c]] /\ result = [c \in Calls |-> result[c]]
  /\ domain \in [Calls -> Domains]
  /\ resources = [m \in Domains |-> resources[m]]
  /\ \A c \in Calls : CallOK(c)
  /\ \A m \in Domains : ResourceOK(resources[m])

(* Commands that did not run leave no staging buffer that can be read: its  *)
(* device is gone, or the error scope is still to report.                   *)
RanOK(c) ==
  /\ at[c] = "has" /\ promised[c].id # 0 =>
       \A e \in DOMAIN device : device[e].state = "live" => e = promised[c].id
  /\ at[c] \in {"popping", "mapping"} =>
       \/ job[c].ran \/ ~Dispatch!Live(job[c].staging)
       \/ at[c] = "popping" /\ job[c].error /\ job[c].staging = promised[c].id
  /\ result[c] = "data" => job[c].ran

Undisturbed == ~orphaned /\ ~overtaken
RanInv == Undisturbed => OnePending /\ \A c \in Calls : RanOK(c)

(* Whatever happened: commands that did not run have an error to report or  *)
(* a device that is gone, and data of theirs is a buffer of another device. *)
ZerosOK(c) ==
  /\ at[c] \in {"popping", "mapping"} =>
       \/ job[c].ran \/ ~Dispatch!Live(promised[c].id)
       \/ at[c] = "popping" /\ job[c].error
  /\ result[c] = "data" =>
       /\ promised[c].kind = "value"
       /\ job[c].ran \/ (~Dispatch!Live(promised[c].id) /\ job[c].staging # promised[c].id)

ZerosInv == overtaken \in BOOLEAN /\ \A c \in Calls : ZerosOK(c)

-----------------------------------------------------------------------------
(* Lists *)

LEMMA ElementOf ==
  ASSUME NEW R, NEW s \in Seq(R), NEW i \in DOMAIN s
  PROVE  s[i] \in R
  OBVIOUS

LEMMA ListOf ==
  ASSUME NEW R, NEW s \in Seq(R)
  PROVE  Len(s) \in Nat /\ DOMAIN s = 1..Len(s)
  OBVIOUS

LEMMA Replaces ==
  ASSUME NEW R, NEW s \in Seq(R), NEW i \in DOMAIN s, NEW x \in R
  PROVE  /\ [s EXCEPT ![i] = x] \in Seq(R)
         /\ Len([s EXCEPT ![i] = x]) = Len(s)
         /\ DOMAIN [s EXCEPT ![i] = x] = DOMAIN s
         /\ \A j \in DOMAIN s : [s EXCEPT ![i] = x][j] = IF j = i THEN x ELSE s[j]
  OBVIOUS

LEMMA Appends ==
  ASSUME NEW R, NEW s \in Seq(R), NEW x \in R
  PROVE  /\ Append(s, x) \in Seq(R)
         /\ Len(Append(s, x)) = Len(s) + 1
         /\ DOMAIN Append(s, x) = 1..(Len(s) + 1)
         /\ \A j \in DOMAIN s : Append(s, x)[j] = s[j]
         /\ Append(s, x)[Len(s) + 1] = x
  OBVIOUS

-----------------------------------------------------------------------------
(* The contexts *)

LEMMA NumbersOf ==
  ASSUME Lists
  PROVE  /\ Len(context) \in Nat /\ DOMAIN context = 1..Len(context)
         /\ Len(device) \in Nat /\ DOMAIN device = 1..Len(device)
  BY ListOf DEF Lists

LEMMA NewIsContext == Dispatch!NewContext \in AContext
  BY DEF Dispatch!NewContext, AContext

(* getGlobalGPUContext adds a context if there is no global one. *)
LEMMA GlobalMade ==
  ASSUME Lists, Dispatch!CanMakeContext
  PROVE  /\ Dispatch!Contexts \in Seq(AContext)
         /\ Len(Dispatch!Contexts) \in Nat /\ Len(Dispatch!Contexts) <= MaxContexts
         /\ DOMAIN Dispatch!Contexts = 1..Len(Dispatch!Contexts)
         /\ Len(context) <= Len(Dispatch!Contexts)
         /\ Dispatch!Global \in 1..Len(Dispatch!Contexts)
         /\ \A g \in DOMAIN context : Dispatch!Contexts[g] = context[g]
         /\ \A g \in 1..Len(Dispatch!Contexts) :
              \/ g \in DOMAIN context
              \/ g = Dispatch!Global /\ Dispatch!Contexts[g] = Dispatch!NewContext
         /\ globalContext = 0 => Dispatch!Global = Len(context) + 1
         /\ globalContext # 0 => Dispatch!Global = globalContext
  <1>1. Len(context) \in Nat /\ DOMAIN context = 1..Len(context)
    BY NumbersOf
  <1>2. CASE globalContext = 0
    <2>1. /\ Dispatch!Contexts = Append(context, Dispatch!NewContext)
          /\ Dispatch!Global = Len(context) + 1 /\ Len(context) < MaxContexts
      BY <1>2 DEF Dispatch!Contexts, Dispatch!Global, Dispatch!CanMakeContext
    <2>2. context \in Seq(AContext)
      BY DEF Lists
    <2>3. /\ Dispatch!Contexts \in Seq(AContext)
          /\ Len(Dispatch!Contexts) = Len(context) + 1
          /\ DOMAIN Dispatch!Contexts = 1..(Len(context) + 1)
          /\ \A j \in DOMAIN context : Dispatch!Contexts[j] = context[j]
          /\ Dispatch!Contexts[Len(context) + 1] = Dispatch!NewContext
      BY <2>1, <2>2, NewIsContext, Appends
    <2> QED BY <1>1, <1>2, <2>1, <2>3, DispatchAssumption
  <1>3. CASE globalContext # 0
    <2>1. Dispatch!Contexts = context /\ Dispatch!Global = globalContext
      BY <1>3 DEF Dispatch!Contexts, Dispatch!Global
    <2> QED BY <1>1, <1>3, <2>1 DEF Lists
  <1> QED BY <1>2, <1>3

(* initialize changes a context only if it is not ready. *)
LEMMA InitializedOf ==
  ASSUME NEW x \in AContext, NEW asks \in BOOLEAN
  PROVE  /\ Dispatch!Initialized(x, asks) \in AContext
         /\ Dispatch!Initialized(x, asks).device = x.device
         /\ x.status = "ready" => Dispatch!Initialized(x, asks) = x
         /\ x.status # "ready" =>
              /\ Dispatch!Initialized(x, asks).status # "ready"
              /\ Dispatch!Initialized(x, asks).starting
              /\ Dispatch!Initialized(x, asks).asked = (x.asked \/ asks)
  <1>1. x = [status |-> x.status, device |-> x.device, starting |-> x.starting, asked |-> x.asked]
        /\ x.status \in {"uninitialized", "initializing", "ready", "lost", "error"}
        /\ x.device \in Nat /\ x.starting \in BOOLEAN /\ x.asked \in BOOLEAN
    BY DEF AContext
  <1> QED BY <1>1 DEF AContext, Dispatch!Initialized

(* A context that is made, or told to initialize, or neither. *)
LEMMA GlobalKept ==
  ASSUME ContextsInv, Dispatch!CanMakeContext, NEW x, NEW asks \in BOOLEAN,
         \/ x = Dispatch!Contexts[Dispatch!Global]
         \/ x = Dispatch!Initialized(Dispatch!Contexts[Dispatch!Global], asks),
         context' = [Dispatch!Contexts EXCEPT ![Dispatch!Global] = x],
         globalContext' = Dispatch!Global, device' = device, orphaned' = orphaned
  PROVE  /\ context' \in Seq(AContext) /\ Len(context') <= MaxContexts
         /\ globalContext' \in 0..Len(context')
         /\ DevicesOK' /\ (\A g \in DOMAIN context' : ContextOK(g)')
         /\ (orphaned \/ OneGlobal)'
         /\ Dispatch!Global \in DOMAIN context' /\ context'[Dispatch!Global] = x
         /\ \A g \in DOMAIN context :
              /\ g \in DOMAIN context'
              /\ context[g].starting => context'[g].starting
              /\ context[g].asked => context'[g].asked
  <1> USE DEF ContextsInv
  <1>1. /\ Len(context) \in Nat /\ DOMAIN context = 1..Len(context)
        /\ Len(device) \in Nat /\ DOMAIN device = 1..Len(device)
    BY NumbersOf
  <1>2. PICK all2, n : all2 = Dispatch!Contexts /\ n = Dispatch!Global
    OBVIOUS
  <1>3. /\ all2 \in Seq(AContext) /\ Len(all2) \in Nat /\ Len(all2) <= MaxContexts
        /\ DOMAIN all2 = 1..Len(all2) /\ Len(context) <= Len(all2) /\ n \in 1..Len(all2)
        /\ \A g \in DOMAIN context : all2[g] = context[g]
        /\ \A g \in 1..Len(all2) :
             g \in DOMAIN context \/ (g = n /\ all2[g] = Dispatch!NewContext)
        /\ globalContext = 0 => n = Len(context) + 1
        /\ globalContext # 0 => n = globalContext
    BY <1>2, GlobalMade
  <1>4. PICK y : y = all2[n]
    OBVIOUS
  <1>5. y \in AContext
    BY <1>3, <1>4, ElementOf
  <1>6. /\ x \in AContext /\ x.device = y.device
        /\ x.status = "ready" \/ y.status = "ready" => x = y
        /\ x = y \/ x.starting
        /\ y.asked => x.asked
    <2>1. x = y \/ x = Dispatch!Initialized(y, asks)
      BY <1>2, <1>4
    <2>2. y.asked \in BOOLEAN
      BY <1>5 DEF AContext
    <2>3. CASE x = y
      BY <1>5, <2>3
    <2>4. CASE x = Dispatch!Initialized(y, asks)
      BY <1>5, <2>2, <2>4, InitializedOf
    <2> QED BY <2>1, <2>3, <2>4
  <1>7. context' = [all2 EXCEPT ![n] = x] /\ globalContext' = n
    BY <1>2
  <1>8. /\ context' \in Seq(AContext) /\ Len(context') = Len(all2)
        /\ DOMAIN context' = 1..Len(all2)
        /\ \A g \in 1..Len(all2) : context'[g] = IF g = n THEN x ELSE all2[g]
    <2>1. all2 \in Seq(AContext) /\ n \in DOMAIN all2 /\ x \in AContext
      BY <1>3, <1>6
    <2>2. /\ [all2 EXCEPT ![n] = x] \in Seq(AContext)
          /\ Len([all2 EXCEPT ![n] = x]) = Len(all2)
          /\ DOMAIN [all2 EXCEPT ![n] = x] = DOMAIN all2
          /\ \A j \in DOMAIN all2 : [all2 EXCEPT ![n] = x][j] = IF j = n THEN x ELSE all2[j]
      BY <2>1, Replaces
    <2> QED BY <1>3, <1>7, <2>2
  <1>9. \/ y = Dispatch!NewContext /\ globalContext = 0
        \/ y = context[globalContext] /\ globalContext \in DOMAIN context
    <2>1. globalContext \in 0..Len(context)
      BY DEF Lists
    <2> QED BY <1>1, <1>3, <1>4, <2>1
  <1>10. DevicesOK'
    BY <1>1, <1>3, <1>8 DEF DevicesOK
  <1>11. ASSUME NEW g \in DOMAIN context' PROVE ContextOK(g)'
    <2>1. CASE g # n
      <3>1. g \in DOMAIN context /\ context'[g] = context[g]
        BY <1>3, <1>8, <1>11, <2>1
      <3>2. ContextOK(g)
        BY <3>1
      <3> QED BY <3>1, <3>2 DEF ContextOK
    <2>2. CASE g = n
      <3>1. context'[g] = x
        BY <1>3, <1>8, <2>2
      <3>2. CASE y = Dispatch!NewContext
        BY <1>1, <1>6, <3>1, <3>2 DEF ContextOK, Dispatch!NewContext
      <3>3. CASE y = context[globalContext] /\ globalContext \in DOMAIN context
        <4>1. g = globalContext
          BY <1>1, <1>3, <2>2, <3>3
        <4>2. ContextOK(g) /\ y = context[g]
          BY <3>3, <4>1
        <4> QED BY <1>6, <3>1, <4>2 DEF ContextOK
      <3> QED BY <1>9, <3>2, <3>3
    <2> QED BY <2>1, <2>2
  <1>12. ASSUME OneGlobal PROVE OneGlobal'
    <2>1. ASSUME NEW g \in DOMAIN context', context'[g].starting, g # n PROVE FALSE
      <3>1. g \in DOMAIN context /\ context'[g] = context[g]
        BY <1>3, <1>8, <2>1
      <3>2. g = globalContext
        BY <1>12, <2>1, <3>1 DEF OneGlobal
      <3> QED BY <1>1, <1>3, <2>1, <3>1, <3>2
    <2>2. ASSUME NEW d \in DOMAIN device PROVE device[d].context = n => device[d].context = globalContext
      <3>1. device[d].context \in 1..Len(context)
        BY DEF DevicesOK
      <3>2. globalContext = 0 => device[d].context # n
        BY <1>1, <1>3, <3>1
      <3> QED BY <1>3, <3>2
    <2>3. ASSUME NEW d \in DOMAIN device, device[d].state = "live" PROVE device[d].context = n
      <3>1. device[d].context \in 1..Len(context) /\ device[d].context = globalContext
        BY <1>12, <2>3 DEF DevicesOK, OneGlobal
      <3> QED BY <1>1, <1>3, <3>1
    <2>4. ASSUME NEW d \in DOMAIN device, device[d].state # "told", device[d].context = n
          PROVE  context'[n].status = "ready" /\ context'[n].device = d
      <3>1. device[d].context = globalContext /\ device[d].context \in 1..Len(context)
        BY <2>2, <2>4 DEF DevicesOK
      <3>2. context[globalContext].status = "ready" /\ context[globalContext].device = d
        BY <1>12, <2>4, <3>1 DEF OneGlobal
      <3>3. y = context[globalContext]
        BY <1>1, <1>9, <3>1
      <3>4. context'[n] = x
        BY <1>3, <1>8
      <3> QED BY <1>6, <3>2, <3>3, <3>4
    <2> QED BY <1>7, <2>1, <2>3, <2>4 DEF OneGlobal
  <1>13. ASSUME NEW g \in DOMAIN context
         PROVE  /\ g \in DOMAIN context'
                /\ context[g].starting => context'[g].starting
                /\ context[g].asked => context'[g].asked
    <2>1. g \in 1..Len(all2) /\ all2[g] = context[g]
      BY <1>1, <1>3
    <2>2. y.starting => x.starting
      BY <1>6
    <2> QED BY <1>4, <1>6, <1>8, <2>1, <2>2
  <1>14. globalContext' \in 0..Len(context')
    BY <1>3, <1>7, <1>8
  <1> QED BY <1>2, <1>3, <1>8, <1>10, <1>11, <1>12, <1>13, <1>14

(* What is cached stays right as long as no device is lost. *)
LEMMA CacheKept ==
  ASSUME ContextsInv, inFlight' = inFlight, watched' = watched, device' = device,
         \A g \in DOMAIN context :
           /\ g \in DOMAIN context'
           /\ context[g].starting => context'[g].starting
           /\ context[g].asked => context'[g].asked
  PROVE  CacheOK'
  <1>1. PICK p : p = inFlight
    OBVIOUS
  <1>2. CASE p = Dispatch!Empty
    BY <1>1, <1>2 DEF CacheOK, PromiseOK, Dispatch!Empty
  <1>3. CASE \E g \in DOMAIN context : p = Dispatch!Pending(g)
    BY <1>1, <1>3 DEF ContextsInv, CacheOK, PromiseOK, Dispatch!Pending
  <1>4. CASE \E d \in 0..Len(device) : p = Dispatch!Value(d)
    BY <1>1, <1>4 DEF ContextsInv, CacheOK, PromiseOK, Dispatch!Value
  <1> QED BY <1>1, <1>2, <1>3, <1>4 DEF ContextsInv, CacheOK, PromiseOK

LEMMA NothingMoves ==
  ASSUME ContextsInv, UNCHANGED <<context, globalContext, device, watched, inFlight, orphaned>>
  PROVE  ContextsInv'
  BY DEF ContextsInv, Lists, ContextOK, DevicesOK, CacheOK, PromiseOK, OneGlobal

LEMMA InitializeGlobalInv ==
  ASSUME ContextsInv, Dispatch!InitializeGlobal
  PROVE  ContextsInv'
  <1>1. PICK x : x = Dispatch!Initialized(Dispatch!Contexts[Dispatch!Global], FALSE)
    OBVIOUS
  <1>2. /\ Dispatch!CanMakeContext /\ globalContext' = Dispatch!Global
        /\ context' = [Dispatch!Contexts EXCEPT ![Dispatch!Global] = x]
        /\ UNCHANGED <<device, watched, inFlight, orphaned>>
    BY <1>1 DEF Dispatch!InitializeGlobal, Dispatch!history
  <1>3. /\ context' \in Seq(AContext) /\ Len(context') <= MaxContexts
        /\ globalContext' \in 0..Len(context')
        /\ DevicesOK' /\ (\A g \in DOMAIN context' : ContextOK(g)')
        /\ (orphaned \/ OneGlobal)'
        /\ \A g \in DOMAIN context :
              /\ g \in DOMAIN context'
              /\ context[g].starting => context'[g].starting
              /\ context[g].asked => context'[g].asked
    BY <1>1, <1>2, GlobalKept
  <1>4. CacheOK'
    BY <1>2, <1>3, CacheKept
  <1>5. Lists'
    BY <1>2, <1>3 DEF ContextsInv, Lists
  <1> QED BY <1>3, <1>4, <1>5 DEF ContextsInv

(* getResources makes the global context, but does not initialize it. *)
LEMMA DeclinesInv ==
  ASSUME ContextsInv, NEW c \in Calls, Dispatch!Declines(c)
  PROVE  ContextsInv'
  <1>1. UNCHANGED <<device, watched, inFlight, orphaned>>
    BY DEF Dispatch!Declines, Dispatch!history
  <1>2. CASE UNCHANGED <<context, globalContext>>
    BY <1>1, <1>2, NothingMoves
  <1>3. CASE Dispatch!CanMakeContext /\ context' = Dispatch!Contexts
             /\ globalContext' = Dispatch!Global
    <2>1. PICK x : x = Dispatch!Contexts[Dispatch!Global]
      OBVIOUS
    <2>2. PICK s, n : s = Dispatch!Contexts /\ n = Dispatch!Global
      OBVIOUS
    <2>3. s \in Seq(AContext)
      BY <1>3, <2>2, GlobalMade DEF ContextsInv
    <2>4. s = [s EXCEPT ![n] = s[n]]
      BY <2>3
    <2>5. context' = [Dispatch!Contexts EXCEPT ![Dispatch!Global] = x]
      BY <1>3, <2>1, <2>2, <2>4
    <2>6. /\ context' \in Seq(AContext) /\ Len(context') <= MaxContexts
          /\ globalContext' \in 0..Len(context')
          /\ DevicesOK' /\ (\A g \in DOMAIN context' : ContextOK(g)')
          /\ (orphaned \/ OneGlobal)'
          /\ \A g \in DOMAIN context :
                /\ g \in DOMAIN context'
                /\ context[g].starting => context'[g].starting
                /\ context[g].asked => context'[g].asked
      <3>1. FALSE \in BOOLEAN
        OBVIOUS
      <3> QED BY <1>1, <1>3, <2>1, <2>5, <3>1, GlobalKept
    <2>7. CacheOK'
      BY <1>1, <2>6, CacheKept
    <2>8. Lists'
      BY <1>1, <2>6 DEF ContextsInv, Lists
    <2> QED BY <2>6, <2>7, <2>8 DEF ContextsInv
  <1> QED BY <1>2, <1>3 DEF Dispatch!Declines

(* getGpuDevice: the cached device, or the one of the global context, whose *)
(* loss is listened to from now on.                                         *)
LEMMA BeginInv ==
  ASSUME ContextsInv, Dispatch!Begin
  PROVE  ContextsInv'
  <1>1. UNCHANGED <<device, orphaned>>
    BY DEF Dispatch!Begin, Dispatch!history
  <1>2. CASE UNCHANGED <<context, globalContext, watched, inFlight>>
    BY <1>1, <1>2, NothingMoves
  <1>3. CASE inFlight = Dispatch!Empty
    <2>1. PICK ctx, n, x :
            /\ n = Dispatch!Global /\ ctx = Dispatch!Contexts[n]
            /\ x = Dispatch!Initialized(ctx, TRUE)
      OBVIOUS
    <2>2. PICK promise :
            promise = IF ctx.status = "ready" THEN Dispatch!Value(ctx.device) ELSE Dispatch!Pending(n)
      OBVIOUS
    <2>3. /\ Dispatch!CanMakeContext /\ globalContext' = n
          /\ context' = [Dispatch!Contexts EXCEPT ![Dispatch!Global] = x]
          /\ watched' = IF promise.kind = "value" THEN watched \cup {ctx.device} ELSE watched
          /\ inFlight' = promise
      BY <1>3, <2>1, <2>2 DEF Dispatch!Begin
    <2>4. /\ context' \in Seq(AContext) /\ Len(context') <= MaxContexts
          /\ globalContext' \in 0..Len(context')
          /\ DevicesOK' /\ (\A g \in DOMAIN context' : ContextOK(g)')
          /\ (orphaned \/ OneGlobal)'
          /\ n \in DOMAIN context' /\ context'[n] = x
      <3>1. TRUE \in BOOLEAN
        OBVIOUS
      <3>2. globalContext' = Dispatch!Global
            /\ x = Dispatch!Initialized(Dispatch!Contexts[Dispatch!Global], TRUE)
        BY <2>1, <2>3
      <3> QED BY <1>1, <2>1, <2>3, <3>1, <3>2, GlobalKept
    <2>5. ctx \in AContext
      <3>1. PICK s : s = Dispatch!Contexts
        OBVIOUS
      <3>2. s \in Seq(AContext) /\ n \in DOMAIN s
        BY <2>1, <2>3, <3>1, GlobalMade DEF ContextsInv
      <3> QED BY <2>1, <3>1, <3>2, ElementOf
    <2>6. ctx.asked \in BOOLEAN
      BY <2>5 DEF AContext
    <2>7. CASE ctx.status = "ready"
      <3>1. x = ctx
        BY <2>1, <2>5, <2>7, InitializedOf
      <3>2. /\ ctx.device \in 0..Len(device) /\ ctx.device # 0
            /\ device[ctx.device].state # "told"
        BY <1>1, <2>4, <2>7, <3>1 DEF ContextOK
      <3>3. promise = Dispatch!Value(ctx.device) /\ promise.kind = "value" /\ promise.id = ctx.device
        BY <2>2, <2>7 DEF Dispatch!Value
      <3>4. watched' = watched \cup {ctx.device} /\ ctx.device \in DOMAIN device
        BY <2>3, <3>2, <3>3, NumbersOf DEF ContextsInv
      <3>5. CacheOK'
        <4>1. PromiseOK(inFlight)'
          BY <1>1, <2>3, <3>2, <3>3 DEF PromiseOK
        <4> QED BY <1>1, <2>3, <3>2, <3>3, <3>4, <4>1 DEF CacheOK
      <3>6. Lists'
        BY <1>1, <2>4, <3>4 DEF ContextsInv, Lists
      <3> QED BY <2>4, <3>5, <3>6 DEF ContextsInv
    <2>8. CASE ctx.status # "ready"
      <3>1. x.starting /\ x.asked
        BY <2>1, <2>5, <2>6, <2>8, InitializedOf
      <3>2. promise = Dispatch!Pending(n) /\ promise.kind = "pending" /\ promise.id = n
        BY <2>2, <2>8 DEF Dispatch!Pending
      <3>3. watched' = watched
        BY <2>3, <3>2
      <3>4. CacheOK'
        BY <2>3, <2>4, <3>1, <3>2 DEF CacheOK, PromiseOK
      <3>5. Lists'
        BY <1>1, <2>4, <3>3 DEF ContextsInv, Lists
      <3> QED BY <2>4, <3>4, <3>5 DEF ContextsInv
    <2> QED BY <2>7, <2>8
  <1> QED BY <1>2, <1>3 DEF Dispatch!Begin

-----------------------------------------------------------------------------
(* The devices *)

(* A new device is its context's, and the only one that lives: the context  *)
(* was not ready, and is the global one.                                    *)
LEMMA GrantedInv ==
  ASSUME ContextsInv, NEW g \in DOMAIN context, Dispatch!DeviceGranted(g)
  PROVE  /\ ContextsInv'
         /\ Len(device') = Len(device) + 1 /\ DOMAIN context' = DOMAIN context
         /\ Len(context') = Len(context)
         /\ device'[Len(device) + 1] = [state |-> "live", context |-> g]
         /\ \A e \in DOMAIN device : device'[e] = device[e]
         /\ orphaned \/ \A e \in DOMAIN device : device[e].state # "live"
  <1> USE DEF ContextsInv
  <1>1. /\ Len(context) \in Nat /\ DOMAIN context = 1..Len(context)
        /\ Len(device) \in Nat /\ DOMAIN device = 1..Len(device)
    BY NumbersOf
  <1>2. PICK d, made, x :
          /\ d = Len(device) + 1 /\ made = [state |-> "live", context |-> g]
          /\ x = [status |-> "ready", device |-> d, starting |-> FALSE, asked |-> FALSE]
    OBVIOUS
  <1>3. /\ context[g].starting /\ d <= MaxDevices
        /\ device' = Append(device, made) /\ context' = [context EXCEPT ![g] = x]
        /\ watched' = IF context[g].asked THEN watched \cup {d} ELSE watched
        /\ inFlight' = IF inFlight = Dispatch!Pending(g) THEN Dispatch!Value(d) ELSE inFlight
        /\ globalContext' = globalContext /\ orphaned' = orphaned
    BY <1>2 DEF Dispatch!DeviceGranted, Dispatch!Resolve
  <1>4. d \in Nat /\ d # 0
    BY <1>1, <1>2
  <1>5. made \in ADevice /\ x \in AContext /\ made.state = "live" /\ made.context = g
    BY <1>1, <1>2, <1>4 DEF ADevice, AContext
  <1>6. /\ device' \in Seq(ADevice) /\ Len(device') = d /\ DOMAIN device' = 1..d
        /\ device'[d] = made /\ \A e \in DOMAIN device : device'[e] = device[e]
    <2>1. device \in Seq(ADevice)
      BY DEF Lists
    <2> QED BY <1>2, <1>3, <1>5, <2>1, Appends
  <1>7. /\ context' \in Seq(AContext) /\ Len(context') = Len(context)
        /\ DOMAIN context' = DOMAIN context
        /\ \A h \in DOMAIN context : context'[h] = IF h = g THEN x ELSE context[h]
    <2>1. context \in Seq(AContext)
      BY DEF Lists
    <2>2. /\ [context EXCEPT ![g] = x] \in Seq(AContext)
          /\ Len([context EXCEPT ![g] = x]) = Len(context)
          /\ DOMAIN [context EXCEPT ![g] = x] = DOMAIN context
          /\ \A h \in DOMAIN context : [context EXCEPT ![g] = x][h] = IF h = g THEN x ELSE context[h]
      BY <1>5, <2>1, Replaces
    <2> QED BY <1>3, <2>2
  <1>8. /\ x.status = "ready" /\ x.device = d /\ ~x.starting
    BY <1>2
  <1>9. Lists'
    BY <1>1, <1>2, <1>3, <1>6, <1>7 DEF Lists
  <1>10. DevicesOK'
    BY <1>1, <1>2, <1>5, <1>6, <1>7 DEF DevicesOK
  <1>11. ASSUME NEW h \in DOMAIN context' PROVE ContextOK(h)'
    <2>1. CASE h = g
      BY <1>4, <1>5, <1>6, <1>7, <1>8, <2>1 DEF ContextOK
    <2>2. CASE h # g
      <3>1. context'[h] = context[h] /\ ContextOK(h)
        BY <1>7, <1>11, <2>2
      <3>2. context[h].device \in 0..Len(device)
        BY <3>1 DEF ContextOK
      <3>3. context[h].device # 0 => device'[context[h].device] = device[context[h].device]
        BY <1>1, <1>6, <3>2
      <3> QED BY <1>1, <1>2, <1>6, <3>1, <3>2, <3>3 DEF ContextOK
    <2> QED BY <2>1, <2>2
  <1>12. CacheOK'
    <2>1. CASE inFlight = Dispatch!Pending(g)
      <3>1. inFlight' = Dispatch!Value(d) /\ d \in 0..Len(device')
        BY <1>3, <1>4, <1>6, <2>1
      <3>2. inFlight'.kind = "value" /\ inFlight'.id = d
        BY <3>1 DEF Dispatch!Value
      <3>3. inFlight.kind = "pending" /\ inFlight.id = g
        BY <2>1 DEF Dispatch!Pending
      <3>4. d \in watched'
        BY <1>3, <3>3 DEF CacheOK
      <3>5. PromiseOK(inFlight)'
        BY <3>1 DEF PromiseOK
      <3> QED BY <1>5, <1>6, <3>2, <3>4, <3>5 DEF CacheOK
    <2>2. CASE inFlight # Dispatch!Pending(g)
      <3>1. PICK p : p = inFlight /\ inFlight' = p
        BY <1>3, <2>2
      <3>2. PromiseOK(inFlight)' /\ (p.kind = "pending" => p.id \in DOMAIN context /\ p.id # g)
            /\ (p.kind = "value" /\ p.id # 0 => p.id \in DOMAIN device)
        <4>1. CASE p = Dispatch!Empty
          BY <3>1, <4>1 DEF PromiseOK, Dispatch!Empty
        <4>2. ASSUME NEW h \in DOMAIN context, p = Dispatch!Pending(h)
              PROVE  PromiseOK(inFlight)' /\ p.kind = "pending" /\ p.id \in DOMAIN context /\ p.id # g
          BY <1>7, <2>2, <3>1, <4>2 DEF PromiseOK, Dispatch!Pending
        <4>3. ASSUME NEW e \in 0..Len(device), p = Dispatch!Value(e)
              PROVE  PromiseOK(inFlight)' /\ p.kind = "value" /\ (p.id # 0 => p.id \in DOMAIN device)
          <5>1. e \in 0..Len(device')
            BY <1>1, <1>2, <1>6
          <5> QED BY <1>1, <3>1, <4>3, <5>1 DEF PromiseOK, Dispatch!Value
        <4>4. PromiseOK(p)
          BY <3>1 DEF CacheOK
        <4> QED BY <4>1, <4>2, <4>3, <4>4 DEF PromiseOK
      <3>3. p.kind = "pending" => context'[p.id].starting /\ context'[p.id].asked
        BY <1>7, <3>1, <3>2 DEF CacheOK
      <3>4. p.kind = "value" /\ p.id # 0 => p.id \in watched' /\ device'[p.id].state # "told"
        BY <1>3, <1>6, <3>1, <3>2 DEF CacheOK
      <3> QED BY <3>1, <3>2, <3>3, <3>4 DEF CacheOK
    <2> QED BY <2>1, <2>2
  <1>13. ASSUME OneGlobal
         PROVE  OneGlobal' /\ \A e \in DOMAIN device : device[e].state # "live"
    <2>1. g = globalContext /\ context[g].status # "ready"
      BY <1>3, <1>13 DEF OneGlobal, ContextOK
    <2>2. \A e \in DOMAIN device :
            device[e].state # "live" /\ ~(device[e].state # "told" /\ device[e].context = g)
      BY <1>13, <2>1 DEF OneGlobal
    <2>3. \A e \in DOMAIN device' : e = d \/ e \in DOMAIN device
      BY <1>1, <1>2, <1>6
    <2>4. \A h \in DOMAIN context' : ~context'[h].starting \/ h = g
      BY <1>7, <1>13, <2>1 DEF OneGlobal
    <2>5. context'[g] = x
      BY <1>7
    <2>6. OneGlobal'
      BY <1>3, <1>5, <1>6, <1>8, <2>1, <2>2, <2>3, <2>4, <2>5 DEF OneGlobal
    <2> QED BY <2>2, <2>6
  <1>14. orphaned \/ \A e \in DOMAIN device : device[e].state # "live"
    BY <1>13
  <1>15. ContextsInv'
    BY <1>3, <1>9, <1>10, <1>11, <1>12, <1>13
  <1> HIDE DEF ContextsInv
  <1> QED BY <1>2, <1>6, <1>7, <1>14, <1>15

(* A cached promise that is not of context g outlives what happens to g.    *)
LEMMA CacheApart ==
  ASSUME ContextsInv, NEW g, inFlight # Dispatch!Pending(g), inFlight' = inFlight,
         watched' = watched, device' = device, DOMAIN context' = DOMAIN context,
         \A h \in DOMAIN context : h # g => context'[h] = context[h]
  PROVE  CacheOK'
  <1>1. PICK p : p = inFlight
    OBVIOUS
  <1>2. CASE p = Dispatch!Empty
    BY <1>1, <1>2 DEF CacheOK, PromiseOK, Dispatch!Empty
  <1>3. ASSUME NEW h \in DOMAIN context, p = Dispatch!Pending(h) PROVE CacheOK'
    <2>1. h # g /\ p.kind = "pending" /\ p.id = h
      BY <1>1, <1>3 DEF Dispatch!Pending
    <2>2. context[h].starting /\ context[h].asked
      BY <1>1, <2>1 DEF ContextsInv, CacheOK
    <2> QED BY <1>1, <1>3, <2>1, <2>2 DEF CacheOK, PromiseOK
  <1>4. CASE \E d \in 0..Len(device) : p = Dispatch!Value(d)
    BY <1>1, <1>4 DEF ContextsInv, CacheOK, PromiseOK, Dispatch!Value
  <1> QED BY <1>1, <1>2, <1>3, <1>4 DEF ContextsInv, CacheOK, PromiseOK

LEMMA InitializeFailsInv ==
  ASSUME ContextsInv, NEW g \in DOMAIN context, Dispatch!InitializeFails(g)
  PROVE  ContextsInv' /\ DOMAIN context' = DOMAIN context /\ Len(context') = Len(context)
  <1> USE DEF ContextsInv
  <1>1. PICK x : x = [context[g] EXCEPT !.status = "error", !.starting = FALSE, !.asked = FALSE]
    OBVIOUS
  <1>2. context[g] \in AContext /\ context \in Seq(AContext)
    BY ElementOf DEF Lists
  <1>3. x \in AContext /\ x.device = context[g].device /\ x.status = "error" /\ ~x.starting
    BY <1>1, <1>2 DEF AContext
  <1>4. /\ context[g].starting /\ UNCHANGED <<globalContext, device, watched, orphaned>>
        /\ context' = [context EXCEPT ![g].status = "error", ![g].starting = FALSE, ![g].asked = FALSE]
        /\ inFlight' = IF inFlight = Dispatch!Pending(g) THEN Dispatch!Value(0) ELSE inFlight
    BY DEF Dispatch!InitializeFails, Dispatch!Resolve, Dispatch!history
  <1>5. context' = [context EXCEPT ![g] = x]
    BY <1>1, <1>2, <1>4
  <1>6. /\ context' \in Seq(AContext) /\ Len(context') = Len(context)
        /\ DOMAIN context' = DOMAIN context
        /\ \A h \in DOMAIN context : context'[h] = IF h = g THEN x ELSE context[h]
    <2>1. /\ [context EXCEPT ![g] = x] \in Seq(AContext)
          /\ Len([context EXCEPT ![g] = x]) = Len(context)
          /\ DOMAIN [context EXCEPT ![g] = x] = DOMAIN context
          /\ \A h \in DOMAIN context : [context EXCEPT ![g] = x][h] = IF h = g THEN x ELSE context[h]
      BY <1>2, <1>3, Replaces
    <2> QED BY <1>5, <2>1
  <1>7. Lists' /\ DevicesOK'
    BY <1>4, <1>6 DEF Lists, DevicesOK
  <1>8. ASSUME NEW h \in DOMAIN context' PROVE ContextOK(h)'
    <2>1. ContextOK(h) /\ ContextOK(g)
      BY <1>6
    <2> QED BY <1>3, <1>4, <1>6, <1>8, <2>1 DEF ContextOK
  <1>9. CacheOK'
    <2>1. CASE inFlight = Dispatch!Pending(g)
      <3>1. inFlight' = Dispatch!Value(0) /\ 0 \in 0..Len(device')
        BY <1>4, <2>1, NumbersOf
      <3> QED BY <3>1 DEF CacheOK, PromiseOK, Dispatch!Value
    <2>2. CASE inFlight # Dispatch!Pending(g)
      BY <1>4, <1>6, <2>2, CacheApart
    <2> QED BY <2>1, <2>2
  <1>10. ASSUME OneGlobal PROVE OneGlobal'
    <2>1. g = globalContext /\ context[g].status # "ready"
      BY <1>4, <1>10 DEF OneGlobal, ContextOK
    <2>2. \A e \in DOMAIN device :
            device[e].state # "live" /\ ~(device[e].state # "told" /\ device[e].context = g)
      BY <1>10, <2>1 DEF OneGlobal
    <2> QED BY <1>3, <1>4, <1>6, <1>10, <2>1, <2>2 DEF OneGlobal
  <1>11. (orphaned \/ OneGlobal)'
    BY <1>4, <1>10
  <1> QED BY <1>6, <1>7, <1>8, <1>9, <1>11

(* A device that changes only its state. *)
LEMMA StateOf ==
  ASSUME device \in Seq(ADevice), NEW d \in DOMAIN device, NEW st \in {"live", "lost", "told"}
  PROVE  /\ [device EXCEPT ![d].state = st] \in Seq(ADevice)
         /\ Len([device EXCEPT ![d].state = st]) = Len(device)
         /\ DOMAIN [device EXCEPT ![d].state = st] = DOMAIN device
         /\ \A e \in DOMAIN device :
              /\ [device EXCEPT ![d].state = st][e].context = device[e].context
              /\ [device EXCEPT ![d].state = st][e].state = IF e = d THEN st ELSE device[e].state
  <1>1. PICK x : x = [device[d] EXCEPT !.state = st]
    OBVIOUS
  <1>2. device[d] \in ADevice
    BY ElementOf
  <1>3. x \in ADevice /\ x.state = st /\ x.context = device[d].context
    BY <1>1, <1>2 DEF ADevice
  <1>4. [device EXCEPT ![d].state = st] = [device EXCEPT ![d] = x]
    BY <1>1, <1>2
  <1>5. /\ [device EXCEPT ![d] = x] \in Seq(ADevice)
        /\ Len([device EXCEPT ![d] = x]) = Len(device)
        /\ DOMAIN [device EXCEPT ![d] = x] = DOMAIN device
        /\ \A e \in DOMAIN device : [device EXCEPT ![d] = x][e] = IF e = d THEN x ELSE device[e]
    BY <1>3, Replaces
  <1> QED BY <1>3, <1>4, <1>5

(* No device is told of, and none comes alive. *)
Fades ==
  /\ device' \in Seq(ADevice) /\ Len(device') = Len(device) /\ DOMAIN device' = DOMAIN device
  /\ \A e \in DOMAIN device :
       /\ device'[e].context = device[e].context
       /\ device'[e].state = "told" <=> device[e].state = "told"
       /\ device'[e].state = "live" => device[e].state = "live"

LEMMA LostFades ==
  ASSUME Lists, NEW d \in DOMAIN device, device[d].state = "live",
         device' = [device EXCEPT ![d].state = "lost"]
  PROVE  Fades /\ device'[d].state = "lost"
  <1>1. PICK new : new = device'
    OBVIOUS
  <1>2. device \in Seq(ADevice)
    BY DEF Lists
  <1>3. /\ new \in Seq(ADevice) /\ Len(new) = Len(device) /\ DOMAIN new = DOMAIN device
        /\ \A e \in DOMAIN device :
             /\ new[e].context = device[e].context
             /\ new[e].state = IF e = d THEN "lost" ELSE device[e].state
    <2>1. new = [device EXCEPT ![d].state = "lost"]
      BY <1>1
    <2> QED BY <1>2, <2>1, StateOf
  <1>4. new[d].state = "lost"
    BY <1>3
  <1>5. \A e \in DOMAIN device :
          /\ new[e].state = "told" <=> device[e].state = "told"
          /\ new[e].state = "live" => device[e].state = "live"
    BY <1>3
  <1> QED BY <1>1, <1>3, <1>4, <1>5 DEF Fades

LEMMA NothingFades ==
  ASSUME Lists, device' = device
  PROVE  Fades
  BY DEF Lists, Fades

LEMMA DeviceLostInv ==
  ASSUME ContextsInv, NEW d \in DOMAIN device, Dispatch!DeviceLost(d)
  PROVE  ContextsInv' /\ Fades
  <1>1. /\ device[d].state = "live" /\ device' = [device EXCEPT ![d].state = "lost"]
        /\ UNCHANGED <<context, globalContext, watched, inFlight, orphaned>>
    BY DEF Dispatch!DeviceLost, Dispatch!Live, Dispatch!history
  <1>2. Fades
    BY <1>1, LostFades DEF ContextsInv
  <1>3. /\ Len(device) \in Nat /\ DOMAIN device = 1..Len(device)
    BY NumbersOf DEF ContextsInv
  <1>4. Lists' /\ DevicesOK'
    BY <1>1, <1>2 DEF ContextsInv, Lists, DevicesOK, Fades
  <1>5. ASSUME NEW g \in DOMAIN context' PROVE ContextOK(g)'
    <2>1. ContextOK(g)
      BY <1>1 DEF ContextsInv
    <2> QED BY <1>1, <1>2, <1>3, <2>1 DEF ContextOK, Fades
  <1>6. CacheOK'
    <2>1. PromiseOK(inFlight)'
      BY <1>1, <1>2 DEF ContextsInv, CacheOK, PromiseOK, Fades
    <2> QED BY <1>1, <1>2, <2>1 DEF ContextsInv, CacheOK, Fades, Lists
  <1>7. (orphaned \/ OneGlobal)'
    BY <1>1, <1>2 DEF ContextsInv, OneGlobal, Fades
  <1> QED BY <1>2, <1>4, <1>5, <1>6, <1>7 DEF ContextsInv

(* With the context that is destroyed its device dies, so none is left.     *)
LEMMA DestroyInv ==
  ASSUME ContextsInv, Dispatch!DestroyGlobal
  PROVE  /\ ContextsInv' /\ Fades
         /\ DOMAIN context' = DOMAIN context /\ Len(context') = Len(context)
  <1> USE DEF ContextsInv
  <1>1. /\ Len(context) \in Nat /\ DOMAIN context = 1..Len(context)
        /\ Len(device) \in Nat /\ DOMAIN device = 1..Len(device)
    BY NumbersOf
  <1>2. PICK d, n : d = context[globalContext].device /\ n = globalContext
    OBVIOUS
  <1>3. PICK x : x = [context[n] EXCEPT !.device = 0, !.status = "uninitialized"]
    OBVIOUS
  <1>4. /\ n # 0 /\ globalContext' = 0
        /\ device' = IF Dispatch!Live(d) THEN [device EXCEPT ![d].state = "lost"] ELSE device
        /\ context' = [context EXCEPT ![n].device = 0, ![n].status = "uninitialized"]
        /\ orphaned' = (orphaned \/ context[n].starting)
        /\ UNCHANGED <<watched, inFlight>>
    BY <1>2 DEF Dispatch!DestroyGlobal
  <1>5. n \in DOMAIN context
    BY <1>1, <1>2, <1>4 DEF Lists
  <1>6. context \in Seq(AContext) /\ context[n] \in AContext
    BY <1>5, ElementOf DEF Lists
  <1>7. /\ x \in AContext /\ x.device = 0 /\ x.status = "uninitialized"
        /\ x.starting = context[n].starting /\ x.asked = context[n].asked
    BY <1>3, <1>6 DEF AContext
  <1>8. context' = [context EXCEPT ![n] = x]
    BY <1>3, <1>4, <1>5, <1>6
  <1>9. /\ context' \in Seq(AContext) /\ Len(context') = Len(context)
        /\ DOMAIN context' = DOMAIN context
        /\ \A h \in DOMAIN context : context'[h] = IF h = n THEN x ELSE context[h]
    <2>1. /\ [context EXCEPT ![n] = x] \in Seq(AContext)
          /\ Len([context EXCEPT ![n] = x]) = Len(context)
          /\ DOMAIN [context EXCEPT ![n] = x] = DOMAIN context
          /\ \A h \in DOMAIN context : [context EXCEPT ![n] = x][h] = IF h = n THEN x ELSE context[h]
      BY <1>5, <1>6, <1>7, Replaces
    <2> QED BY <1>8, <2>1
  <1>10. ContextOK(n)
    BY <1>5
  <1>11. Dispatch!Live(d) => d \in DOMAIN device
    BY <1>1, <1>2, <1>10 DEF ContextOK, Dispatch!Live
  <1>12. Fades /\ (Dispatch!Live(d) => device'[d].state = "lost")
    <2>1. CASE Dispatch!Live(d)
      BY <1>4, <1>11, <2>1, LostFades DEF Dispatch!Live
    <2>2. CASE ~Dispatch!Live(d)
      BY <1>4, <2>2, NothingFades
    <2> QED BY <2>1, <2>2
  <1>13. orphaned' \in BOOLEAN
    BY <1>4, <1>6 DEF Lists, AContext
  <1>14. Lists' /\ DevicesOK'
    BY <1>1, <1>4, <1>9, <1>12, <1>13 DEF Lists, DevicesOK, Fades
  <1>15. ASSUME NEW h \in DOMAIN context' PROVE ContextOK(h)'
    <2>1. CASE h = n
      BY <1>1, <1>7, <1>9, <1>12, <2>1 DEF ContextOK, Fades
    <2>2. CASE h # n
      <3>1. context'[h] = context[h] /\ ContextOK(h)
        BY <1>9, <1>15, <2>2
      <3> QED BY <1>1, <1>12, <3>1 DEF ContextOK, Fades
    <2> QED BY <2>1, <2>2
  <1>16. CacheOK'
    <2>1. PICK p : p = inFlight /\ inFlight' = p
      BY <1>4
    <2>2. CASE p = Dispatch!Empty
      BY <2>1, <2>2 DEF CacheOK, PromiseOK, Dispatch!Empty
    <2>3. ASSUME NEW g \in DOMAIN context, p = Dispatch!Pending(g) PROVE CacheOK'
      <3>1. context[g].starting /\ context[g].asked /\ p.kind = "pending" /\ p.id = g
        BY <2>1, <2>3 DEF CacheOK, Dispatch!Pending
      <3>2. context'[g].starting /\ context'[g].asked
        BY <1>7, <1>9, <3>1
      <3> QED BY <1>9, <2>1, <2>3, <3>1, <3>2 DEF CacheOK, PromiseOK
    <2>4. ASSUME NEW e \in 0..Len(device), p = Dispatch!Value(e) PROVE CacheOK'
      <3>1. p.kind = "value" /\ p.id = e
        BY <2>4 DEF Dispatch!Value
      <3>2. e # 0 => e \in DOMAIN device /\ e \in watched /\ device[e].state # "told"
        BY <1>1, <2>1, <3>1 DEF CacheOK
      <3>3. Len(device') = Len(device)
        BY <1>12 DEF Fades
      <3>4. PromiseOK(inFlight)'
        BY <2>1, <2>4, <3>3 DEF PromiseOK
      <3> QED BY <1>4, <1>12, <2>1, <3>1, <3>2, <3>4 DEF CacheOK, Fades
    <2> QED BY <2>1, <2>2, <2>3, <2>4 DEF CacheOK, PromiseOK
  <1>17. ASSUME ~orphaned' PROVE OneGlobal'
    <2>1. OneGlobal /\ ~context[n].starting
      BY <1>4, <1>17
    <2>2. \A h \in DOMAIN context' : ~context'[h].starting
      BY <1>2, <1>7, <1>9, <2>1 DEF OneGlobal
    <2>3. ASSUME NEW e \in DOMAIN device', device'[e].state = "live" PROVE FALSE
      <3>1. e \in DOMAIN device /\ device[e].state = "live"
        BY <1>12, <2>3 DEF Fades
      <3>2. e = d /\ e # 0
        BY <1>1, <1>2, <2>1, <3>1 DEF OneGlobal
      <3> QED BY <1>12, <2>3, <3>1, <3>2 DEF Dispatch!Live
    <2>4. \A e \in DOMAIN device' : device'[e].context # 0
      BY <1>1, <1>14 DEF DevicesOK
    <2> QED BY <1>4, <2>2, <2>3, <2>4 DEF OneGlobal
  <1>18. (orphaned \/ OneGlobal)'
    BY <1>17
  <1>19. ContextsInv'
    BY <1>14, <1>15, <1>16, <1>18
  <1> HIDE DEF ContextsInv
  <1> QED BY <1>9, <1>12, <1>19

(* The listeners of the context and of device.ts hear of the same loss.     *)
LEMMA LossReportedInv ==
  ASSUME ContextsInv, NEW d \in DOMAIN device, Dispatch!LossReported(d)
  PROVE  /\ ContextsInv'
         /\ DOMAIN context' = DOMAIN context /\ Len(context') = Len(context)
         /\ device' \in Seq(ADevice) /\ Len(device') = Len(device) /\ DOMAIN device' = DOMAIN device
         /\ \A e \in DOMAIN device :
              device'[e].state = IF e = d THEN "told" ELSE device[e].state
  <1> USE DEF ContextsInv
  <1>1. /\ Len(context) \in Nat /\ DOMAIN context = 1..Len(context)
        /\ Len(device) \in Nat /\ DOMAIN device = 1..Len(device)
    BY NumbersOf
  <1>2. PICK g, new : g = device[d].context /\ new = device'
    OBVIOUS
  <1>3. /\ device[d].state = "lost" /\ device' = [device EXCEPT ![d].state = "told"]
        /\ context' = [context EXCEPT ![g].status = "lost"]
        /\ inFlight' = IF d \in watched THEN Dispatch!Empty ELSE inFlight
        /\ UNCHANGED <<globalContext, watched, orphaned>>
    BY <1>2 DEF Dispatch!LossReported, Dispatch!LostDropsDevice, Dispatch!history
  <1>4. /\ new \in Seq(ADevice) /\ Len(new) = Len(device) /\ DOMAIN new = DOMAIN device
        /\ \A e \in DOMAIN device :
             /\ new[e].context = device[e].context
             /\ new[e].state = IF e = d THEN "told" ELSE device[e].state
    <2>1. device \in Seq(ADevice)
      BY DEF Lists
    <2> QED BY <1>2, <1>3, <2>1, StateOf
  <1>5. g \in DOMAIN context
    BY <1>1, <1>2 DEF DevicesOK
  <1>6. context \in Seq(AContext) /\ context[g] \in AContext
    BY <1>5, ElementOf DEF Lists
  <1>7. PICK x : x = [context[g] EXCEPT !.status = "lost"]
    OBVIOUS
  <1>8. /\ x \in AContext /\ x.device = context[g].device /\ x.status = "lost"
        /\ x.starting = context[g].starting /\ x.asked = context[g].asked
    BY <1>6, <1>7 DEF AContext
  <1>9. /\ context' \in Seq(AContext) /\ Len(context') = Len(context)
        /\ DOMAIN context' = DOMAIN context
        /\ \A h \in DOMAIN context : context'[h] = IF h = g THEN x ELSE context[h]
    <2>1. /\ [context EXCEPT ![g] = x] \in Seq(AContext)
          /\ Len([context EXCEPT ![g] = x]) = Len(context)
          /\ DOMAIN [context EXCEPT ![g] = x] = DOMAIN context
          /\ \A h \in DOMAIN context : [context EXCEPT ![g] = x][h] = IF h = g THEN x ELSE context[h]
      BY <1>5, <1>6, <1>8, Replaces
    <2>2. context' = [context EXCEPT ![g] = x]
      BY <1>3, <1>5, <1>6, <1>7
    <2> QED BY <2>1, <2>2
  <1>10. Lists' /\ DevicesOK'
    BY <1>2, <1>3, <1>4, <1>9 DEF Lists, DevicesOK
  <1>11. ASSUME NEW h \in DOMAIN context' PROVE ContextOK(h)'
    <2>1. CASE h = g
      <3>1. ContextOK(g)
        BY <1>5
      <3> QED BY <1>2, <1>4, <1>5, <1>8, <1>9, <2>1, <3>1 DEF ContextOK
    <2>2. CASE h # g
      <3>1. context'[h] = context[h] /\ ContextOK(h) /\ context[h].device \in 0..Len(device)
        BY <1>9, <1>11, <2>2 DEF ContextOK
      <3>2. CASE context[h].status # "ready"
        BY <1>2, <1>4, <3>1, <3>2 DEF ContextOK
      <3>3. CASE context[h].status = "ready"
        <4>1. context[h].device \in DOMAIN device /\ context[h].device # d
          BY <1>1, <1>2, <2>2, <3>1, <3>3 DEF ContextOK
        <4> QED BY <1>2, <1>4, <3>1, <3>3, <4>1 DEF ContextOK
      <3> QED BY <3>2, <3>3
    <2> QED BY <2>1, <2>2
  <1>12. CacheOK'
    <2>1. CASE d \in watched
      BY <1>3, <2>1 DEF CacheOK, PromiseOK, Dispatch!Empty
    <2>2. CASE d \notin watched
      <3>1. PICK p : p = inFlight /\ inFlight' = p
        BY <1>3, <2>2
      <3>2. CASE p = Dispatch!Empty
        BY <3>1, <3>2 DEF CacheOK, PromiseOK, Dispatch!Empty
      <3>3. ASSUME NEW h \in DOMAIN context, p = Dispatch!Pending(h) PROVE CacheOK'
        <4>1. context[h].starting /\ context[h].asked /\ p.kind = "pending" /\ p.id = h
          BY <3>1, <3>3 DEF CacheOK, Dispatch!Pending
        <4>2. context'[h].starting /\ context'[h].asked
          BY <1>8, <1>9, <4>1
        <4> QED BY <1>9, <3>1, <3>3, <4>1, <4>2 DEF CacheOK, PromiseOK
      <3>4. ASSUME NEW e \in 0..Len(device), p = Dispatch!Value(e) PROVE CacheOK'
        <4>1. p.kind = "value" /\ p.id = e
          BY <3>4 DEF Dispatch!Value
        <4>2. e # 0 => e \in DOMAIN device /\ e \in watched /\ e # d /\ device[e].state # "told"
          BY <1>1, <2>2, <3>1, <4>1 DEF CacheOK
        <4>3. PromiseOK(inFlight)'
          BY <1>2, <1>4, <3>1, <3>4 DEF PromiseOK
        <4> QED BY <1>2, <1>3, <1>4, <3>1, <4>1, <4>2, <4>3 DEF CacheOK
      <3> QED BY <3>1, <3>2, <3>3, <3>4 DEF CacheOK, PromiseOK
    <2> QED BY <2>1, <2>2
  <1>13. ASSUME OneGlobal PROVE OneGlobal'
    <2>1. \A h \in DOMAIN context' : context'[h].starting => h = globalContext
      BY <1>8, <1>9, <1>13 DEF OneGlobal
    <2>2. ASSUME NEW e \in DOMAIN device', device'[e].state = "live"
          PROVE  device'[e].context = globalContext
      BY <1>2, <1>4, <1>13, <2>2 DEF OneGlobal
    <2>3. ASSUME NEW e \in DOMAIN device', device'[e].state # "told", device'[e].context = globalContext
          PROVE  context'[globalContext].status = "ready" /\ context'[globalContext].device = e
      <3>1. /\ e \in DOMAIN device /\ e # d /\ device[e].state # "told"
            /\ device[e].context = globalContext
        BY <1>2, <1>4, <2>3
      <3>2. context[globalContext].status = "ready" /\ context[globalContext].device = e
        BY <1>13, <3>1 DEF OneGlobal
      <3>3. g # globalContext
        BY <1>2, <1>3, <1>13, <3>1, <3>2 DEF OneGlobal
      <3>4. globalContext \in DOMAIN context
        BY <1>1, <3>1 DEF DevicesOK
      <3> QED BY <1>9, <3>2, <3>3, <3>4
    <2> QED BY <1>3, <2>1, <2>2, <2>3 DEF OneGlobal
  <1>14. (orphaned \/ OneGlobal)'
    BY <1>3, <1>13
  <1>15. ContextsInv'
    BY <1>10, <1>11, <1>12, <1>14
  <1> HIDE DEF ContextsInv
  <1> QED BY <1>2, <1>4, <1>9, <1>15

LEMMA ResetDeviceInv ==
  ASSUME ContextsInv, Dispatch!ResetDevice
  PROVE  ContextsInv'
  <1>1. inFlight' = Dispatch!Empty /\ UNCHANGED <<context, globalContext, device, watched, orphaned>>
    BY DEF Dispatch!ResetDevice, Dispatch!history
  <1>2. CacheOK'
    BY <1>1 DEF CacheOK, PromiseOK, Dispatch!Empty
  <1> QED BY <1>1, <1>2 DEF ContextsInv, Lists, ContextOK, DevicesOK, OneGlobal

-----------------------------------------------------------------------------
(* All of them together: what a step does to the contexts and devices *)

Grows ==
  /\ Len(context) \in Nat /\ Len(context') \in Nat /\ Len(context) <= Len(context')
  /\ DOMAIN context = 1..Len(context) /\ DOMAIN context' = 1..Len(context')
  /\ Len(device) \in Nat /\ Len(device') \in Nat /\ Len(device) <= Len(device')
  /\ DOMAIN device = 1..Len(device) /\ DOMAIN device' = 1..Len(device')

NoneNew ==
  /\ DOMAIN device' = DOMAIN device
  /\ \A e \in DOMAIN device :
       /\ device'[e].state = "live" => device[e].state = "live"
       /\ device'[e].state # "told" => device[e].state # "told"

LEMMA NoneNewIf ==
  ASSUME device' = device \/ Fades
  PROVE  NoneNew
  BY DEF NoneNew, Fades

LEMMA GrowsIf ==
  ASSUME Lists, Lists',
         context' = context \/ Len(context) <= Len(context'),
         device' = device \/ Len(device) <= Len(device')
  PROVE  Grows
  <1>1. context \in Seq(AContext) /\ context' \in Seq(AContext)
    BY DEF Lists
  <1>2. device \in Seq(ADevice) /\ device' \in Seq(ADevice)
    BY DEF Lists
  <1>3. PICK s, t, u, v : s = context /\ t = context' /\ u = device /\ v = device'
    OBVIOUS
  <1>4. /\ Len(s) \in Nat /\ DOMAIN s = 1..Len(s) /\ Len(t) \in Nat /\ DOMAIN t = 1..Len(t)
        /\ Len(u) \in Nat /\ DOMAIN u = 1..Len(u) /\ Len(v) \in Nat /\ DOMAIN v = 1..Len(v)
    BY <1>1, <1>2, <1>3, ListOf
  <1>5. Len(s) <= Len(t) /\ Len(u) <= Len(v)
    BY <1>3, <1>4
  <1> QED BY <1>3, <1>4, <1>5 DEF Grows

LEMMA ContextsStep ==
  ASSUME ContextsInv, [Dispatch!Next]_dispatchVars
  PROVE  /\ ContextsInv' /\ Grows /\ (orphaned => orphaned')
         /\ NoneNew \/ \E g \in DOMAIN context : Dispatch!DeviceGranted(g)
  <1>1. Len(context) \in Nat /\ Len(device) \in Nat
    BY NumbersOf DEF ContextsInv
  <1>2. CASE UNCHANGED <<context, globalContext, device, watched, inFlight, orphaned>>
    <2>1. ContextsInv'
      BY <1>2, NothingMoves
    <2>2. Grows
      BY <1>2, <2>1, GrowsIf DEF ContextsInv
    <2> QED BY <1>2, <2>1, <2>2, NoneNewIf
  <1>3. CASE Dispatch!InitializeGlobal \/ Dispatch!Begin \/ \E c \in Calls : Dispatch!Declines(c)
    <2>1. ContextsInv'
      BY <1>3, InitializeGlobalInv, BeginInv, DeclinesInv
    <2>2. device' = device /\ orphaned' = orphaned
      BY <1>3 DEF Dispatch!InitializeGlobal, Dispatch!Begin, Dispatch!Declines,
         Dispatch!history
    <2>3. context' = context \/ Len(context) <= Len(context')
      <3>1. PICK s : s = Dispatch!Contexts
        OBVIOUS
      <3>2. \/ context' = context
            \/ Dispatch!CanMakeContext /\ \E i, x : context' = [s EXCEPT ![i] = x]
            \/ Dispatch!CanMakeContext /\ context' = s
        BY <1>3, <3>1 DEF Dispatch!InitializeGlobal, Dispatch!Begin, Dispatch!Declines
      <3>3. Dispatch!CanMakeContext => /\ Len(s) \in Nat /\ DOMAIN s = 1..Len(s)
                                       /\ Len(context) <= Len(s)
        BY <3>1, GlobalMade DEF ContextsInv
      <3>4. PICK t : t = context'
        OBVIOUS
      <3>5. ASSUME Dispatch!CanMakeContext, NEW i, NEW x, t = [s EXCEPT ![i] = x]
            PROVE  Len(t) = Len(s)
        <4>1. t \in Seq(AContext) /\ DOMAIN t = DOMAIN s
          BY <2>1, <3>4, <3>5 DEF ContextsInv, Lists
        <4>2. DOMAIN t = 1..Len(t) /\ Len(t) \in Nat
          BY <4>1
        <4> QED BY <3>3, <3>5, <4>1, <4>2
      <3> QED BY <3>2, <3>3, <3>4, <3>5
    <2>4. Grows
      BY <2>1, <2>2, <2>3, GrowsIf DEF ContextsInv
    <2> QED BY <2>1, <2>2, <2>4, NoneNewIf
  <1>4. ASSUME NEW g \in DOMAIN context, Dispatch!DeviceGranted(g)
        PROVE  ContextsInv' /\ Grows /\ orphaned' = orphaned
    <2>1. ContextsInv' /\ Len(device') = Len(device) + 1 /\ Len(context') = Len(context)
      BY <1>4, GrantedInv
    <2>2. Grows
      BY <1>1, <2>1, GrowsIf DEF ContextsInv
    <2> QED BY <1>4, <2>1, <2>2 DEF Dispatch!DeviceGranted
  <1>5. ASSUME NEW g \in DOMAIN context, Dispatch!InitializeFails(g)
        PROVE  ContextsInv' /\ Grows /\ orphaned' = orphaned /\ NoneNew
    <2>1. ContextsInv' /\ Len(context') = Len(context)
      BY <1>5, InitializeFailsInv
    <2>2. device' = device /\ orphaned' = orphaned
      BY <1>5 DEF Dispatch!InitializeFails, Dispatch!history
    <2>3. Grows
      BY <1>1, <2>1, <2>2, GrowsIf DEF ContextsInv
    <2> QED BY <2>1, <2>2, <2>3, NoneNewIf
  <1>6. CASE Dispatch!DestroyGlobal
    <2>1. ContextsInv' /\ Fades /\ Len(context') = Len(context)
      BY <1>6, DestroyInv
    <2>2. Len(device') = Len(device) /\ NoneNew
      BY <2>1, NoneNewIf DEF Fades
    <2>3. Grows
      BY <1>1, <2>1, <2>2, GrowsIf DEF ContextsInv
    <2>4. orphaned => orphaned'
      BY <1>6 DEF Dispatch!DestroyGlobal
    <2> QED BY <2>1, <2>2, <2>3, <2>4
  <1>7. ASSUME NEW d \in DOMAIN device, Dispatch!DeviceLost(d)
        PROVE  ContextsInv' /\ Grows /\ orphaned' = orphaned /\ NoneNew
    <2>1. ContextsInv' /\ Fades
      BY <1>7, DeviceLostInv
    <2>2. Len(device') = Len(device) /\ NoneNew
      BY <2>1, NoneNewIf DEF Fades
    <2>3. context' = context /\ orphaned' = orphaned
      BY <1>7 DEF Dispatch!DeviceLost, Dispatch!history
    <2>4. Grows
      BY <1>1, <2>1, <2>2, <2>3, GrowsIf DEF ContextsInv
    <2> QED BY <2>1, <2>2, <2>3, <2>4
  <1>8. ASSUME NEW d \in DOMAIN device, Dispatch!LossReported(d)
        PROVE  ContextsInv' /\ Grows /\ orphaned' = orphaned /\ NoneNew
    <2>1. /\ ContextsInv' /\ Len(context') = Len(context) /\ Len(device') = Len(device)
          /\ DOMAIN device' = DOMAIN device
          /\ \A e \in DOMAIN device : device'[e].state = IF e = d THEN "told" ELSE device[e].state
      BY <1>8, LossReportedInv
    <2>2. NoneNew
      BY <2>1 DEF NoneNew
    <2>3. Grows
      BY <1>1, <2>1, GrowsIf DEF ContextsInv
    <2> QED BY <1>8, <2>1, <2>2, <2>3 DEF Dispatch!LossReported, Dispatch!history
  <1>9. CASE Dispatch!ResetDevice
    <2>1. ContextsInv'
      BY <1>9, ResetDeviceInv
    <2>2. context' = context /\ device' = device /\ orphaned' = orphaned
      BY <1>9 DEF Dispatch!ResetDevice, Dispatch!history
    <2>3. Grows
      BY <2>1, <2>2, GrowsIf DEF ContextsInv
    <2> QED BY <2>1, <2>2, <2>3, NoneNewIf
  <1>10. ASSUME \/ \E c \in Calls : \/ Dispatch!Queue(c) \/ Dispatch!Submit(c, TRUE)
                                    \/ Dispatch!Submit(c, FALSE)
                                    \/ Dispatch!PopsError(c) \/ Dispatch!PopsNothing(c)
                                    \/ Dispatch!Maps(c) \/ Dispatch!MapFails(c)
                \/ \E m \in Domains : Dispatch!ResetResources(m)
                \/ UNCHANGED dispatchVars
         PROVE  UNCHANGED <<context, globalContext, device, watched, inFlight, orphaned>>
    <2>1. UNCHANGED Dispatch!deviceVars \/ UNCHANGED dispatchVars
      BY <1>10, Zenon DEF Dispatch!Queue, Dispatch!Submit, Dispatch!PopsError, Dispatch!PopsNothing,
         Dispatch!Maps, Dispatch!MapFails, Dispatch!ResetResources
    <2> QED BY <2>1 DEF Dispatch!deviceVars, Dispatch!history, dispatchVars
  <1> QED BY <1>2, <1>3, <1>4, <1>5, <1>6, <1>7, <1>8, <1>9, <1>10 DEF Dispatch!Next

-----------------------------------------------------------------------------
(* The calls *)

LEMMA PromiseKept ==
  ASSUME Grows, NEW p, PromiseOK(p)
  PROVE  PromiseOK(p)'
  BY DEF Grows, PromiseOK

LEMMA CallKept ==
  ASSUME Grows, NEW c, CallOK(c), at'[c] = at[c], promised'[c] = promised[c],
         job'[c] = job[c], result'[c] = result[c]
  PROVE  CallOK(c)'
  <1>1. PICK p : p = promised[c]
    OBVIOUS
  <1>2. PromiseOK(p) /\ p = promised'[c]
    BY <1>1 DEF CallOK
  <1>3. PromiseOK(promised[c])'
    BY <1>2, PromiseKept DEF PromiseOK
  <1> QED BY <1>3 DEF CallOK, Grows

LEMMA ResourceKept ==
  ASSUME Grows, NEW x, ResourceOK(x)
  PROVE  ResourceOK(x)'
  BY DEF Grows, ResourceOK

(* A step of the devices alone. *)
LEMMA CallsRest ==
  ASSUME CallsInv, Grows,
         UNCHANGED <<gpuQueue, at, domain, promised, resources, job, result>>
  PROVE  CallsInv'
  <1>1. \A c \in Calls : CallOK(c)'
    BY CallKept DEF CallsInv
  <1>2. ASSUME NEW m \in Domains PROVE ResourceOK(resources[m])'
    <2>1. PICK x : x = resources[m] /\ x = resources'[m]
      OBVIOUS
    <2>2. ResourceOK(x)'
      BY <2>1, ResourceKept DEF CallsInv
    <2> QED BY <2>1, <2>2 DEF ResourceOK
  <1> QED BY <1>1, <1>2 DEF CallsInv, QueueOK

(* A call that asks for a device, gets it, or goes on. *)
LEMMA QueueInv ==
  ASSUME CallsInv, Grows, NEW c \in Calls, Dispatch!Queue(c)
  PROVE  CallsInv'
  <1>1. /\ at[c] = "new" /\ at' = [at EXCEPT ![c] = "queued"] /\ gpuQueue' = Append(gpuQueue, c)
        /\ UNCHANGED <<domain, promised, resources, job, result>>
    BY DEF Dispatch!Queue
  <1>2. at' = [d \in Calls |-> at'[d]] /\ at'[c] = "queued"
        /\ \A d \in Calls : d # c => at'[d] = at[d]
    BY <1>1 DEF CallsInv
  <1>3. c \notin ToSet(gpuQueue)
    BY <1>1 DEF CallsInv, QueueOK
  <1>4. /\ gpuQueue' \in Seq(Calls) /\ IsInjective(gpuQueue')
        /\ ToSet(gpuQueue') = ToSet(gpuQueue) \cup {c}
    BY <1>1, <1>3, PushNew DEF CallsInv, QueueOK
  <1>5. ToSet(gpuQueue) \subseteq Calls
    BY NoElement DEF CallsInv, QueueOK
  <1>6. QueueOK'
    BY <1>2, <1>4, <1>5 DEF CallsInv, QueueOK
  <1>7. ASSUME NEW d \in Calls PROVE CallOK(d)'
    <2>1. CASE d # c
      BY <1>1, <1>2, <2>1, CallKept DEF CallsInv
    <2>2. CASE d = c
      <3>1. PICK p : p = promised[c] /\ p = promised'[c]
        BY <1>1
      <3>2. PromiseOK(promised[c])'
        <4>1. PromiseOK(p)
          BY <3>1 DEF CallsInv, CallOK
        <4>2. PromiseOK(p)'
          BY <4>1, PromiseKept
        <4> QED BY <3>1, <4>2 DEF PromiseOK
      <3>3. job'[c] \in [ran : BOOLEAN, error : BOOLEAN, staging : 0..Len(device')]
        BY <1>1 DEF CallsInv, CallOK, Grows
      <3> QED BY <1>1, <1>2, <2>2, <3>2, <3>3 DEF CallsInv, CallOK, CallStates
    <2> QED BY <2>1, <2>2
  <1>8. ASSUME NEW m \in Domains PROVE ResourceOK(resources[m])'
    <2>1. PICK x : x = resources[m] /\ x = resources'[m]
      BY <1>1
    <2>2. ResourceOK(x)'
      BY <2>1, ResourceKept DEF CallsInv
    <2> QED BY <2>1, <2>2 DEF ResourceOK
  <1> QED BY <1>1, <1>2, <1>6, <1>7, <1>8 DEF CallsInv

(* Resolve gives the calls that wait for a context a device, or null. *)
LEMMA ResolveInv ==
  ASSUME CallsInv, Grows, NEW g, NEW d \in 0..Len(device'), Dispatch!Resolve(g, d)
  PROVE  CallsInv'
  <1>1. /\ promised' = [c \in Calls |-> IF promised[c] = Dispatch!Pending(g) THEN Dispatch!Value(d)
                                        ELSE promised[c]]
        /\ at' = [c \in Calls |-> IF at[c] = "waits" /\ promised[c] = Dispatch!Pending(g) THEN "has"
                                  ELSE at[c]]
        /\ UNCHANGED <<gpuQueue, domain, resources, job, result>>
    BY DEF Dispatch!Resolve
  <1>2. ASSUME NEW c \in Calls PROVE CallOK(c)'
    <2>1. CASE promised[c] # Dispatch!Pending(g)
      BY <1>1, <2>1, CallKept DEF CallsInv
    <2>2. CASE promised[c] = Dispatch!Pending(g)
      <3>1. promised[c].kind = "pending"
        BY <2>2 DEF Dispatch!Pending
      <3>2. promised'[c] = Dispatch!Value(d) /\ promised'[c].kind = "value"
        BY <1>1, <2>2 DEF Dispatch!Value
      <3>3. PromiseOK(promised[c])'
        BY <3>2 DEF PromiseOK
      <3>4. at'[c] \in CallStates /\ at'[c] # "waits" /\ (result[c] # "none" => at'[c] = "done")
        BY <1>1, <2>2, <3>1 DEF CallsInv, CallOK, CallStates
      <3>5. job'[c] \in [ran : BOOLEAN, error : BOOLEAN, staging : 0..Len(device')]
        BY <1>1 DEF CallsInv, CallOK, Grows
      <3> QED BY <1>1, <3>2, <3>3, <3>4, <3>5 DEF CallsInv, CallOK
    <2> QED BY <2>1, <2>2
  <1>3. ASSUME NEW m \in Domains PROVE ResourceOK(resources[m])'
    <2>1. PICK x : x = resources[m] /\ x = resources'[m]
      BY <1>1
    <2>2. ResourceOK(x)'
      BY <2>1, ResourceKept DEF CallsInv
    <2> QED BY <2>1, <2>2 DEF ResourceOK
  <1>4. QueueOK'
    <2>1. ToSet(gpuQueue) \subseteq Calls
      BY NoElement DEF CallsInv, QueueOK
    <2>2. \A c \in ToSet(gpuQueue) : at'[c] = "queued"
      BY <1>1, <2>1 DEF CallsInv, QueueOK
    <2> QED BY <1>1, <2>2 DEF CallsInv, QueueOK
  <1>5. at' = [c \in Calls |-> at'[c]] /\ promised' = [c \in Calls |-> promised'[c]]
    BY <1>1
  <1> QED BY <1>1, <1>2, <1>3, <1>4, <1>5 DEF CallsInv

(* The promise that a call gets when it begins. *)
LEMMA BeginGets ==
  ASSUME ContextsInv, ContextsInv', Dispatch!Begin
  PROVE  \E p : /\ PromiseOK(p)' /\ p.kind \in {"pending", "value"} /\ p = inFlight'
                /\ Dispatch!Gets(Head(gpuQueue), p)
  <1>1. CASE inFlight # Dispatch!Empty
    <2>1. PICK p : p = inFlight
      OBVIOUS
    <2>2. Dispatch!Gets(Head(gpuQueue), p) /\ inFlight' = p
      BY <1>1, <2>1 DEF Dispatch!Begin
    <2>3. PromiseOK(p)'
      <3>1. PromiseOK(inFlight)'
        BY DEF ContextsInv, CacheOK
      <3> QED BY <2>2, <3>1 DEF PromiseOK
    <2>4. p.kind \in {"pending", "value"}
      BY <1>1, <2>1 DEF ContextsInv, CacheOK, PromiseOK, Dispatch!Pending, Dispatch!Value
    <2> QED BY <2>2, <2>3, <2>4
  <1>2. CASE inFlight = Dispatch!Empty
    <2>1. PICK ctx, n : n = Dispatch!Global /\ ctx = Dispatch!Contexts[n]
      OBVIOUS
    <2>2. PICK p : p = IF ctx.status = "ready" THEN Dispatch!Value(ctx.device)
                       ELSE Dispatch!Pending(n)
      OBVIOUS
    <2>3. inFlight' = p /\ Dispatch!Gets(Head(gpuQueue), p)
      BY <1>2, <2>1, <2>2 DEF Dispatch!Begin
    <2>4. PromiseOK(p)'
      <3>1. PromiseOK(inFlight)'
        BY DEF ContextsInv, CacheOK
      <3> QED BY <2>3, <3>1 DEF PromiseOK
    <2>5. p.kind \in {"pending", "value"}
      BY <2>2 DEF Dispatch!Pending, Dispatch!Value
    <2> QED BY <2>3, <2>4, <2>5
  <1> QED BY <1>1, <1>2

LEMMA BeginCalls ==
  ASSUME ContextsInv, ContextsInv', CallsInv, Grows, Dispatch!Begin
  PROVE  CallsInv'
  <1>1. PICK p : /\ PromiseOK(p)' /\ p.kind \in {"pending", "value"}
                 /\ Dispatch!Gets(Head(gpuQueue), p)
    BY BeginGets
  <1>2. PICK c : c = Head(gpuQueue)
    OBVIOUS
  <1>3. gpuQueue # <<>> /\ gpuQueue' = Tail(gpuQueue) /\ UNCHANGED <<domain, resources, job, result>>
    BY DEF Dispatch!Begin
  <1>4. /\ c \in Calls /\ c \in ToSet(gpuQueue) /\ gpuQueue' \in Seq(Calls) /\ IsInjective(gpuQueue')
        /\ ToSet(gpuQueue') = ToSet(gpuQueue) \ {c}
    BY <1>2, <1>3, ShiftFirst DEF CallsInv, QueueOK
  <1>5. /\ promised' = [promised EXCEPT ![c] = p]
        /\ at' = [at EXCEPT ![c] = IF p.kind = "pending" THEN "waits" ELSE "has"]
    BY <1>1, <1>2 DEF Dispatch!Gets
  <1>6. /\ at' = [d \in Calls |-> at'[d]] /\ promised' = [d \in Calls |-> promised'[d]]
        /\ at'[c] = (IF p.kind = "pending" THEN "waits" ELSE "has") /\ promised'[c] = p
        /\ \A d \in Calls : d # c => at'[d] = at[d] /\ promised'[d] = promised[d]
    BY <1>4, <1>5 DEF CallsInv
  <1>7. QueueOK'
    <2>1. ToSet(gpuQueue) \subseteq Calls
      BY NoElement DEF CallsInv, QueueOK
    <2> QED BY <1>4, <1>6, <2>1 DEF CallsInv, QueueOK
  <1>8. at[c] = "queued" /\ result[c] = "none"
    BY <1>4 DEF CallsInv, QueueOK, CallOK
  <1>9. ASSUME NEW d \in Calls PROVE CallOK(d)'
    <2>1. CASE d # c
      BY <1>3, <1>6, <2>1, CallKept DEF CallsInv
    <2>2. CASE d = c
      <3>1. job'[c] \in [ran : BOOLEAN, error : BOOLEAN, staging : 0..Len(device')]
        BY <1>3, <1>4 DEF CallsInv, CallOK, Grows
      <3>2. PromiseOK(promised[c])'
        BY <1>1, <1>6 DEF PromiseOK
      <3> QED BY <1>1, <1>3, <1>6, <1>8, <2>2, <3>1, <3>2 DEF CallOK, CallStates
    <2> QED BY <2>1, <2>2
  <1>10. ASSUME NEW m \in Domains PROVE ResourceOK(resources[m])'
    <2>1. PICK x : x = resources[m] /\ x = resources'[m]
      BY <1>3
    <2>2. ResourceOK(x)'
      BY <2>1, ResourceKept DEF CallsInv
    <2> QED BY <2>1, <2>2 DEF ResourceOK
  <1> QED BY <1>3, <1>6, <1>7, <1>9, <1>10 DEF CallsInv

(* What getResources returns is of the device that was asked for, and goes  *)
(* through a context that exists.                                           *)
LEMMA UsedOK ==
  ASSUME ContextsInv, CallsInv, NEW m \in Domains, NEW d \in 1..Len(device),
         Dispatch!HasResources(m, d)
  PROVE  /\ ResourceOK(Dispatch!ResourcesFor(m, d))
         /\ Dispatch!ResourcesFor(m, d).device = d /\ Dispatch!ResourcesFor(m, d).via \in DOMAIN context
         /\ \A b \in Dispatch!Obtainable(Dispatch!ResourcesFor(m, d)) : b \in 1..Len(device)
  <1>1. /\ Len(context) \in Nat /\ DOMAIN context = 1..Len(context)
        /\ Len(device) \in Nat /\ DOMAIN device = 1..Len(device)
    BY NumbersOf DEF ContextsInv
  <1>2. PICK used : used = Dispatch!ResourcesFor(m, d)
    OBVIOUS
  <1>3. ResourceOK(used) /\ used.device = d /\ used.via # 0
    <2>1. CASE resources[m].device = d
      <3>1. used = resources[m] /\ ResourceOK(resources[m])
        BY <1>2, <2>1 DEF CallsInv, Dispatch!ResourcesFor
      <3> QED BY <1>1, <2>1, <3>1 DEF ResourceOK
    <2>2. CASE resources[m].device # d
      <3>1. used = [device |-> d, via |-> globalContext, pooled |-> {}] /\ globalContext # 0
        BY <1>2, <2>2 DEF Dispatch!ResourcesFor, Dispatch!HasResources
      <3>2. globalContext \in 0..Len(context)
        BY DEF ContextsInv, Lists
      <3> QED BY <1>1, <3>1, <3>2 DEF ResourceOK
    <2> QED BY <2>1, <2>2
  <1>4. used.via \in DOMAIN context
    BY <1>1, <1>3 DEF ResourceOK
  <1>5. context[used.via].device \in 0..Len(device)
    BY <1>4 DEF ContextsInv, ContextOK
  <1>6. \A b \in Dispatch!Obtainable(used) : b \in 1..Len(device)
    BY <1>1, <1>3, <1>5 DEF ResourceOK, Dispatch!Obtainable
  <1> QED BY <1>2, <1>3, <1>4, <1>6

(* The parts of a submit. *)
LEMMA SubmitParts ==
  ASSUME ContextsInv, CallsInv, NEW c \in Calls, NEW fits \in BOOLEAN, Dispatch!Submit(c, fits)
  PROVE  \E b, ran, error, x :
           /\ b \in 1..Len(device) /\ ran \in BOOLEAN /\ error \in BOOLEAN /\ ResourceOK(x)
           /\ resources' = [resources EXCEPT ![domain[c]] = x]
           /\ job' = [job EXCEPT ![c] = [ran |-> ran, error |-> error, staging |-> b]]
           /\ promised[c].id \in 1..Len(device)
           /\ ~ran => ~Dispatch!Live(promised[c].id) \/ error
  <1>1. /\ Len(device) \in Nat /\ DOMAIN device = 1..Len(device)
    BY NumbersOf DEF ContextsInv
  <1>2. PICK d, used : d = promised[c].id /\ used = Dispatch!ResourcesFor(domain[c], d)
    OBVIOUS
  <1>3. /\ at[c] = "has" /\ d # 0 /\ Dispatch!HasResources(domain[c], d)
        /\ \E b \in Dispatch!Obtainable(used) :
             /\ resources' = [resources EXCEPT ![domain[c]] = [used EXCEPT !.pooled = @ \cup {b}]]
             /\ job' = [job EXCEPT ![c] =
                          [ran     |-> Dispatch!Live(d) /\ fits /\ b = d,
                           error   |-> Dispatch!ScopeError(d, fits /\ b = d),
                           staging |-> b]]
    BY <1>2 DEF Dispatch!Submit
  <1>4. d \in 1..Len(device)
    <2>1. PromiseOK(promised[c]) /\ promised[c].kind = "value"
      BY <1>3 DEF CallsInv, CallOK
    <2>2. PICK p : p = promised[c]
      OBVIOUS
    <2>3. PromiseOK(p) /\ p.kind = "value"
      BY <2>1, <2>2
    <2>4. p # Dispatch!Empty /\ \A g : p # Dispatch!Pending(g)
      BY <2>3 DEF Dispatch!Empty, Dispatch!Pending
    <2>5. \E e \in 0..Len(device) : p = Dispatch!Value(e)
      BY <2>3, <2>4 DEF PromiseOK
    <2>6. p.id \in 0..Len(device)
      BY <2>5 DEF Dispatch!Value
    <2> QED BY <1>1, <1>2, <1>3, <2>2, <2>6
  <1>5. domain[c] \in Domains
    BY DEF CallsInv
  <1>6. PICK b \in Dispatch!Obtainable(used) :
             /\ resources' = [resources EXCEPT ![domain[c]] = [used EXCEPT !.pooled = @ \cup {b}]]
             /\ job' = [job EXCEPT ![c] =
                          [ran     |-> Dispatch!Live(d) /\ fits /\ b = d,
                           error   |-> Dispatch!ScopeError(d, fits /\ b = d),
                           staging |-> b]]
    BY <1>3
  <1>7. ResourceOK(used) /\ used.via # 0 /\ b \in 1..Len(device)
    <2>1. /\ ResourceOK(used) /\ used.via \in DOMAIN context
          /\ \A e \in Dispatch!Obtainable(used) : e \in 1..Len(device)
      BY <1>2, <1>3, <1>4, <1>5, UsedOK
    <2> QED BY <1>6, <2>1, NumbersOf DEF ContextsInv
  <1>8. PICK x : x = [used EXCEPT !.pooled = @ \cup {b}]
    OBVIOUS
  <1>9. ResourceOK(x)
    BY <1>7, <1>8 DEF ResourceOK
  <1>10. PICK ran, error : /\ ran = (Dispatch!Live(d) /\ fits /\ b = d)
                           /\ error = (Dispatch!Live(d) /\ ~(fits /\ b = d))
    OBVIOUS
  <1>11. ran \in BOOLEAN /\ error \in BOOLEAN
    BY <1>10, Zenon
  <1>12. ~ran => ~Dispatch!Live(d) \/ error
    BY <1>10, Zenon
  <1>13. job' = [job EXCEPT ![c] = [ran |-> ran, error |-> error, staging |-> b]]
    BY <1>6, <1>10, Zenon DEF Dispatch!ScopeError
  <1>14. resources' = [resources EXCEPT ![domain[c]] = x]
    BY <1>6, <1>8
  <1> WITNESS b, ran, error, x
  <1> QED BY <1>2, <1>4, <1>7, <1>9, <1>11, <1>12, <1>13, <1>14

LEMMA SubmitCalls ==
  ASSUME ContextsInv, CallsInv, Grows, NEW c \in Calls, NEW fits \in BOOLEAN,
         Dispatch!Submit(c, fits)
  PROVE  CallsInv'
  <1>1. PICK b, ran, error, x :
           /\ b \in 1..Len(device) /\ ran \in BOOLEAN /\ error \in BOOLEAN /\ ResourceOK(x)
           /\ resources' = [resources EXCEPT ![domain[c]] = x]
           /\ job' = [job EXCEPT ![c] = [ran |-> ran, error |-> error, staging |-> b]]
    BY SubmitParts
  <1>2. /\ at[c] = "has" /\ at' = [at EXCEPT ![c] = "popping"]
        /\ UNCHANGED <<gpuQueue, domain, promised, result>>
    BY DEF Dispatch!Submit
  <1>3. PICK y : y = [ran |-> ran, error |-> error, staging |-> b]
    OBVIOUS
  <1>4. y \in [ran : BOOLEAN, error : BOOLEAN, staging : 0..Len(device')]
    BY <1>1, <1>3 DEF Grows
  <1>5. /\ at' = [d \in Calls |-> at'[d]] /\ job' = [d \in Calls |-> job'[d]]
        /\ at'[c] = "popping" /\ job'[c] = y
        /\ \A d \in Calls : d # c => at'[d] = at[d] /\ job'[d] = job[d]
    <2>1. job' = [job EXCEPT ![c] = y]
      BY <1>1, <1>3
    <2> QED BY <1>2, <2>1 DEF CallsInv
  <1>6. ASSUME NEW d \in Calls PROVE CallOK(d)'
    <2>1. CASE d # c
      BY <1>2, <1>5, <2>1, CallKept DEF CallsInv
    <2>2. CASE d = c
      <3>1. PICK p : p = promised[c] /\ p = promised'[c]
        BY <1>2
      <3>2. PromiseOK(promised[c])'
        <4>1. PromiseOK(p)
          BY <3>1 DEF CallsInv, CallOK
        <4>2. PromiseOK(p)'
          BY <4>1, PromiseKept
        <4> QED BY <3>1, <4>2 DEF PromiseOK
      <3>3. promised'[c].kind = "value" /\ result'[c] = "none"
        BY <1>2 DEF CallsInv, CallOK
      <3> QED BY <1>4, <1>5, <2>2, <3>2, <3>3 DEF CallOK, CallStates
    <2> QED BY <2>1, <2>2
  <1>7. resources' = [m \in Domains |-> resources'[m]]
        /\ \A m \in Domains : resources'[m] = IF m = domain[c] THEN x ELSE resources[m]
    BY <1>1 DEF CallsInv
  <1>8. ASSUME NEW m \in Domains PROVE ResourceOK(resources[m])'
    <2>1. PICK z : z = IF m = domain[c] THEN x ELSE resources[m]
      OBVIOUS
    <2>2. ResourceOK(z)
      BY <1>1, <2>1 DEF CallsInv
    <2>3. ResourceOK(z)'
      BY <2>2, ResourceKept
    <2> QED BY <1>7, <2>1, <2>3 DEF ResourceOK
  <1>9. QueueOK'
    <2>1. ToSet(gpuQueue) \subseteq Calls
      BY NoElement DEF CallsInv, QueueOK
    <2> QED BY <1>2, <1>5, <2>1 DEF CallsInv, QueueOK
  <1> QED BY <1>2, <1>5, <1>6, <1>7, <1>8, <1>9 DEF CallsInv

(* A call moves on, or returns; its commands are what they were.            *)
LEMMA CallMoves ==
  ASSUME CallsInv, Grows, NEW c \in Calls, NEW place \in {"mapping", "done"},
         NEW answer \in {"none", "data", "null"}, answer # "none" => place = "done",
         at[c] \in {"has", "popping", "mapping"},
         at' = [at EXCEPT ![c] = place],
         result' = [result EXCEPT ![c] = answer],
         UNCHANGED <<gpuQueue, domain, promised, job>>,
         resources' = [m \in Domains |-> resources'[m]],
         \A m \in Domains : ResourceOK(resources[m])'
  PROVE  CallsInv'
  <1>1. /\ at' = [d \in Calls |-> at'[d]] /\ result' = [d \in Calls |-> result'[d]]
        /\ at'[c] = place /\ result'[c] = answer
        /\ \A d \in Calls : d # c => at'[d] = at[d] /\ result'[d] = result[d]
    BY DEF CallsInv
  <1>2. ASSUME NEW d \in Calls PROVE CallOK(d)'
    <2>1. CASE d # c
      BY <1>1, <2>1, CallKept DEF CallsInv
    <2>2. CASE d = c
      <3>1. PICK p : p = promised[c] /\ p = promised'[c]
        OBVIOUS
      <3>2. PromiseOK(promised[c])'
        <4>1. PromiseOK(p)
          BY <3>1 DEF CallsInv, CallOK
        <4>2. PromiseOK(p)'
          BY <4>1, PromiseKept
        <4> QED BY <3>1, <4>2 DEF PromiseOK
      <3>3. promised'[c].kind = "value"
        BY DEF CallsInv, CallOK
      <3>4. job'[c] \in [ran : BOOLEAN, error : BOOLEAN, staging : 0..Len(device')]
        BY DEF CallsInv, CallOK, Grows
      <3> QED BY <1>1, <2>2, <3>2, <3>3, <3>4 DEF CallOK, CallStates
    <2> QED BY <2>1, <2>2
  <1>3. QueueOK'
    <2>1. ToSet(gpuQueue) \subseteq Calls
      BY NoElement DEF CallsInv, QueueOK
    <2> QED BY <1>1, <2>1 DEF CallsInv, QueueOK
  <1> QED BY <1>1, <1>2, <1>3 DEF CallsInv

LEMMA DeclinesCalls ==
  ASSUME ContextsInv, CallsInv, Grows, NEW c \in Calls, Dispatch!Declines(c)
  PROVE  CallsInv'
  <1>1. PICK d, m : d = promised[c].id /\ m = domain[c]
    OBVIOUS
  <1>2. /\ at[c] = "has" /\ at' = [at EXCEPT ![c] = "done"] /\ result' = [result EXCEPT ![c] = "null"]
        /\ UNCHANGED <<gpuQueue, domain, promised, job>>
        /\ \/ resources' = resources
           \/ /\ d # 0 /\ Dispatch!HasResources(m, d)
              /\ resources' = [resources EXCEPT ![m] = Dispatch!ResourcesFor(m, d)]
    BY <1>1 DEF Dispatch!Declines, Dispatch!Return
  <1>3. m \in Domains
    BY <1>1 DEF CallsInv
  <1>4. /\ resources' = [k \in Domains |-> resources'[k]]
        /\ \A k \in Domains : ResourceOK(resources[k])'
    <2>1. CASE resources' = resources
      <3>1. ASSUME NEW k \in Domains PROVE ResourceOK(resources[k])'
        <4>1. PICK x : x = resources[k] /\ x = resources'[k]
          BY <2>1
        <4>2. ResourceOK(x)'
          BY <4>1, ResourceKept DEF CallsInv
        <4> QED BY <4>1, <4>2 DEF ResourceOK
      <3> QED BY <2>1, <3>1 DEF CallsInv
    <2>2. CASE /\ d # 0 /\ Dispatch!HasResources(m, d)
               /\ resources' = [resources EXCEPT ![m] = Dispatch!ResourcesFor(m, d)]
      <3>1. d \in 1..Len(device)
        <4>1. PromiseOK(promised[c]) /\ promised[c].kind = "value"
          BY <1>2 DEF CallsInv, CallOK
        <4>2. PICK p : p = promised[c]
          OBVIOUS
        <4>3. PromiseOK(p) /\ p.kind = "value"
          BY <4>1, <4>2
        <4>4. p # Dispatch!Empty /\ \A g : p # Dispatch!Pending(g)
          BY <4>3 DEF Dispatch!Empty, Dispatch!Pending
        <4>5. \E e \in 0..Len(device) : p = Dispatch!Value(e)
          BY <4>3, <4>4 DEF PromiseOK
        <4>6. p.id \in 0..Len(device) /\ Len(device) \in Nat
          BY <4>5, NumbersOf DEF Dispatch!Value, ContextsInv
        <4> QED BY <1>1, <2>2, <4>2, <4>6
      <3>2. PICK x : x = Dispatch!ResourcesFor(m, d)
        OBVIOUS
      <3>3. ResourceOK(x)
        BY <1>3, <2>2, <3>1, <3>2, UsedOK
      <3>4. resources' = [k \in Domains |-> resources'[k]]
            /\ \A k \in Domains : resources'[k] = IF k = m THEN x ELSE resources[k]
        BY <2>2, <3>2 DEF CallsInv
      <3>5. ASSUME NEW k \in Domains PROVE ResourceOK(resources[k])'
        <4>1. PICK z : z = IF k = m THEN x ELSE resources[k]
          OBVIOUS
        <4>2. ResourceOK(z)
          BY <3>3, <4>1 DEF CallsInv
        <4>3. ResourceOK(z)'
          BY <4>2, ResourceKept
        <4> QED BY <3>4, <4>1, <4>3 DEF ResourceOK
      <3> QED BY <3>4, <3>5
    <2> QED BY <1>2, <2>1, <2>2
  <1>5. "done" \in {"mapping", "done"} /\ "null" \in {"none", "data", "null"}
    OBVIOUS
  <1> QED BY <1>2, <1>4, <1>5, CallMoves

LEMMA AnswersCalls ==
  ASSUME CallsInv, Grows, NEW c \in Calls,
         \/ Dispatch!PopsError(c) \/ Dispatch!PopsNothing(c)
         \/ Dispatch!Maps(c) \/ Dispatch!MapFails(c)
  PROVE  CallsInv'
  <1>1. at[c] \in {"popping", "mapping"} /\ UNCHANGED <<gpuQueue, domain, promised, job, resources>>
    BY DEF Dispatch!PopsError, Dispatch!PopsNothing, Dispatch!Maps, Dispatch!MapFails, Dispatch!Return
  <1>2. \E place \in {"mapping", "done"}, answer \in {"none", "data", "null"} :
          /\ answer # "none" => place = "done"
          /\ at' = [at EXCEPT ![c] = place] /\ result' = [result EXCEPT ![c] = answer]
    <2>1. CASE Dispatch!PopsNothing(c)
      <3>1. at' = [at EXCEPT ![c] = "mapping"] /\ result' = result
        BY <2>1 DEF Dispatch!PopsNothing
      <3>2. result[c] = "none"
        BY <1>1 DEF CallsInv, CallOK
      <3>3. result = [result EXCEPT ![c] = "none"]
        BY <3>2 DEF CallsInv
      <3> QED BY <3>1, <3>3
    <2>2. CASE Dispatch!PopsError(c) \/ Dispatch!Maps(c) \/ Dispatch!MapFails(c)
      BY <2>2 DEF Dispatch!PopsError, Dispatch!Maps, Dispatch!MapFails, Dispatch!Return
    <2> QED BY <2>1, <2>2
  <1>3. ASSUME NEW m \in Domains PROVE ResourceOK(resources[m])'
    <2>1. PICK x : x = resources[m] /\ x = resources'[m]
      BY <1>1
    <2>2. ResourceOK(x)'
      BY <2>1, ResourceKept DEF CallsInv
    <2> QED BY <2>1, <2>2 DEF ResourceOK
  <1>4. resources' = [m \in Domains |-> resources'[m]]
    BY <1>1 DEF CallsInv
  <1> QED BY <1>1, <1>2, <1>3, <1>4, CallMoves

LEMMA ResetCalls ==
  ASSUME CallsInv, Grows, NEW m \in Domains, Dispatch!ResetResources(m)
  PROVE  CallsInv'
  <1>1. /\ resources' = [resources EXCEPT ![m] = Dispatch!NoResources]
        /\ job' = [c \in Calls |-> IF c \in Dispatch!Running /\ domain[c] = m
                                   THEN [job[c] EXCEPT !.staging = 0] ELSE job[c]]
        /\ UNCHANGED <<gpuQueue, at, domain, promised, result>>
    BY DEF Dispatch!ResetResources
  <1>2. ASSUME NEW c \in Calls PROVE CallOK(c)'
    <2>1. PICK p : p = promised[c] /\ p = promised'[c]
      BY <1>1
    <2>2. PromiseOK(promised[c])'
      <3>1. PromiseOK(p)
        BY <2>1 DEF CallsInv, CallOK
      <3>2. PromiseOK(p)'
        BY <3>1, PromiseKept
      <3> QED BY <2>1, <3>2 DEF PromiseOK
    <2>3. job'[c] \in [ran : BOOLEAN, error : BOOLEAN, staging : 0..Len(device')]
      <3>1. job[c] \in [ran : BOOLEAN, error : BOOLEAN, staging : 0..Len(device)]
        BY DEF CallsInv, CallOK
      <3>2. PICK y : y = job[c]
        OBVIOUS
      <3>3. /\ y \in [ran : BOOLEAN, error : BOOLEAN, staging : 0..Len(device')]
            /\ [y EXCEPT !.staging = 0] \in [ran : BOOLEAN, error : BOOLEAN, staging : 0..Len(device')]
        BY <3>1, <3>2 DEF Grows
      <3>4. job'[c] = y \/ job'[c] = [y EXCEPT !.staging = 0]
        BY <1>1, <3>2
      <3> QED BY <3>3, <3>4
    <2> QED BY <1>1, <2>2, <2>3 DEF CallsInv, CallOK
  <1>3. Dispatch!NoResources.device = 0 /\ ResourceOK(Dispatch!NoResources)'
    BY DEF Grows, ResourceOK, Dispatch!NoResources
  <1>4. ASSUME NEW k \in Domains PROVE ResourceOK(resources[k])'
    <2>1. CASE k = m
      <3>1. resources'[k] = Dispatch!NoResources
        BY <1>1, <2>1 DEF CallsInv
      <3> QED BY <1>3, <3>1 DEF ResourceOK
    <2>2. CASE k # m
      <3>1. PICK x : x = resources[k] /\ x = resources'[k]
        BY <1>1, <2>2 DEF CallsInv
      <3>2. ResourceOK(x)'
        BY <3>1, ResourceKept DEF CallsInv
      <3> QED BY <3>1, <3>2 DEF ResourceOK
    <2> QED BY <2>1, <2>2
  <1>5. resources' = [k \in Domains |-> resources'[k]] /\ job' = [c \in Calls |-> job'[c]]
    BY <1>1 DEF CallsInv
  <1> QED BY <1>1, <1>2, <1>4, <1>5 DEF CallsInv, QueueOK

LEMMA CallsStep ==
  ASSUME ContextsInv, CallsInv, [Dispatch!Next]_dispatchVars
  PROVE  CallsInv'
  <1>1. ContextsInv' /\ Grows
    BY ContextsStep
  <1>2. ASSUME \/ UNCHANGED Dispatch!callVars \/ UNCHANGED dispatchVars PROVE CallsInv'
    <2>1. UNCHANGED <<gpuQueue, at, domain, promised, resources, job, result>>
      BY <1>2 DEF Dispatch!callVars, dispatchVars
    <2> QED BY <1>1, <2>1, CallsRest
  <1>3. CASE \/ Dispatch!InitializeGlobal \/ Dispatch!DestroyGlobal \/ Dispatch!ResetDevice
             \/ \E d \in DOMAIN device : Dispatch!DeviceLost(d) \/ Dispatch!LossReported(d)
    BY <1>2, <1>3, Zenon DEF Dispatch!InitializeGlobal, Dispatch!DestroyGlobal, Dispatch!ResetDevice,
       Dispatch!DeviceLost, Dispatch!LossReported
  <1>4. ASSUME NEW g \in DOMAIN context, Dispatch!DeviceGranted(g) PROVE CallsInv'
    <2>1. Dispatch!Resolve(g, Len(device) + 1)
      BY <1>4 DEF Dispatch!DeviceGranted
    <2>2. PICK d : d = Len(device) + 1
      OBVIOUS
    <2>3. Len(device') = Len(device) + 1 /\ Len(device) \in Nat /\ Len(device') \in Nat
      BY <1>1, <1>4, GrantedInv DEF Grows
    <2>4. d \in 0..Len(device')
      BY <2>2, <2>3
    <2>5. Dispatch!Resolve(g, d)
      BY <2>1, <2>2
    <2> QED BY <1>1, <2>4, <2>5, ResolveInv
  <1>5. ASSUME NEW g \in DOMAIN context, Dispatch!InitializeFails(g) PROVE CallsInv'
    <2>1. Dispatch!Resolve(g, 0) /\ 0 \in 0..Len(device')
      BY <1>1, <1>5 DEF Dispatch!InitializeFails, Grows
    <2> QED BY <1>1, <2>1, ResolveInv
  <1>6. CASE Dispatch!Begin
    BY <1>1, <1>6, BeginCalls
  <1>7. ASSUME NEW c \in Calls, Dispatch!Queue(c) PROVE CallsInv'
    BY <1>1, <1>7, QueueInv
  <1>8. ASSUME NEW c \in Calls, Dispatch!Submit(c, TRUE) \/ Dispatch!Submit(c, FALSE) PROVE CallsInv'
    BY <1>1, <1>8, SubmitCalls
  <1>9. ASSUME NEW c \in Calls, Dispatch!Declines(c) PROVE CallsInv'
    BY <1>1, <1>9, DeclinesCalls
  <1>10. ASSUME NEW c \in Calls, \/ Dispatch!PopsError(c) \/ Dispatch!PopsNothing(c)
                                 \/ Dispatch!Maps(c) \/ Dispatch!MapFails(c)
         PROVE  CallsInv'
    BY <1>1, <1>10, AnswersCalls
  <1>11. ASSUME NEW m \in Domains, Dispatch!ResetResources(m) PROVE CallsInv'
    BY <1>1, <1>11, ResetCalls
  <1> QED BY <1>2, <1>3, <1>4, <1>5, <1>6, <1>7, <1>8, <1>9, <1>10, <1>11 DEF Dispatch!Next

-----------------------------------------------------------------------------
(* Whatever happened *)

LEMMA OvertakenStep ==
  ASSUME [Dispatch!Next]_dispatchVars
  PROVE  /\ overtaken \in BOOLEAN => overtaken' \in BOOLEAN
         /\ overtaken => overtaken'
  <1>1. ASSUME NEW g \in DOMAIN context, Dispatch!DeviceGranted(g)
        PROVE  overtaken' \in BOOLEAN /\ (overtaken => overtaken')
    <2>1. overtaken' = (overtaken \/ \E e \in DOMAIN device : device[e].state = "lost")
      BY <1>1 DEF Dispatch!DeviceGranted
    <2>2. CASE overtaken \/ \E e \in DOMAIN device : device[e].state = "lost"
      <3>1. overtaken' = TRUE
        BY <2>1, <2>2
      <3> QED BY <3>1
    <2>3. CASE ~(overtaken \/ \E e \in DOMAIN device : device[e].state = "lost")
      <3>1. overtaken' = FALSE /\ ~overtaken
        BY <2>1, <2>3
      <3> QED BY <3>1
    <2> QED BY <2>2, <2>3
  <1>2. (\E g \in DOMAIN context : Dispatch!DeviceGranted(g)) \/ overtaken' = overtaken
    <2>1. CASE Dispatch!InitializeGlobal \/ Dispatch!ResetDevice \/ Dispatch!Begin
      BY <2>1 DEF Dispatch!InitializeGlobal, Dispatch!ResetDevice, Dispatch!Begin, Dispatch!history
    <2>2. CASE Dispatch!DestroyGlobal
      BY <2>2 DEF Dispatch!DestroyGlobal
    <2>3. ASSUME NEW g \in DOMAIN context, Dispatch!InitializeFails(g) PROVE overtaken' = overtaken
      BY <2>3 DEF Dispatch!InitializeFails, Dispatch!history
    <2>4. ASSUME NEW d \in DOMAIN device, Dispatch!DeviceLost(d) \/ Dispatch!LossReported(d)
          PROVE  overtaken' = overtaken
      BY <2>4 DEF Dispatch!DeviceLost, Dispatch!LossReported, Dispatch!history
    <2>5. ASSUME NEW c \in Calls, Dispatch!Declines(c) PROVE overtaken' = overtaken
      BY <2>5 DEF Dispatch!Declines, Dispatch!history
    <2>6. ASSUME \/ \E c \in Calls : \/ Dispatch!Queue(c) \/ Dispatch!Submit(c, TRUE)
                                     \/ Dispatch!Submit(c, FALSE)
                                     \/ Dispatch!PopsError(c) \/ Dispatch!PopsNothing(c)
                                     \/ Dispatch!Maps(c) \/ Dispatch!MapFails(c)
                 \/ \E m \in Domains : Dispatch!ResetResources(m)
                 \/ UNCHANGED dispatchVars
          PROVE  overtaken' = overtaken
      <3>1. UNCHANGED Dispatch!deviceVars \/ UNCHANGED dispatchVars
        BY <2>6, Zenon DEF Dispatch!Queue, Dispatch!Submit, Dispatch!PopsError, Dispatch!PopsNothing,
           Dispatch!Maps, Dispatch!MapFails, Dispatch!ResetResources
      <3> QED BY <3>1 DEF Dispatch!deviceVars, Dispatch!history, dispatchVars
    <2> QED BY <2>1, <2>2, <2>3, <2>4, <2>5, <2>6 DEF Dispatch!Next
  <1>3. CASE overtaken' = overtaken
    BY <1>3
  <1> QED BY <1>1, <1>2, <1>3

(* What is lost stays lost. *)
LEMMA NoRevival ==
  ASSUME ContextsInv, [Dispatch!Next]_dispatchVars, NEW d \in 0..Len(device), Dispatch!Live(d)'
  PROVE  Dispatch!Live(d)
  <1>1. Len(device) \in Nat /\ DOMAIN device = 1..Len(device)
    BY NumbersOf DEF ContextsInv
  <1>2. d \in DOMAIN device /\ device'[d].state = "live"
    BY <1>1 DEF Dispatch!Live
  <1>3. CASE NoneNew
    BY <1>2, <1>3 DEF NoneNew, Dispatch!Live
  <1>4. ASSUME NEW g \in DOMAIN context, Dispatch!DeviceGranted(g) PROVE Dispatch!Live(d)
    BY <1>1, <1>2, <1>4, GrantedInv DEF Dispatch!Live
  <1> QED BY <1>3, <1>4, ContextsStep

(* A call that is submitted has a device, which the lost ones never become. *)
LEMMA GoneStays ==
  ASSUME ContextsInv, [Dispatch!Next]_dispatchVars, NEW c \in Calls, CallOK(c),
         promised[c].kind = "value", promised'[c] = promised[c], ~Dispatch!Live(promised[c].id)
  PROVE  ~Dispatch!Live(promised[c].id)'
  <1>1. PICK p : p = promised[c] /\ p = promised'[c]
    OBVIOUS
  <1>2. p.id \in 0..Len(device)
    <2>1. PromiseOK(p) /\ p.kind = "value"
      BY <1>1 DEF CallOK
    <2>2. p # Dispatch!Empty /\ \A g : p # Dispatch!Pending(g)
      BY <2>1 DEF Dispatch!Empty, Dispatch!Pending
    <2>3. \E e \in 0..Len(device) : p = Dispatch!Value(e)
      BY <2>1, <2>2 DEF PromiseOK
    <2> QED BY <2>3 DEF Dispatch!Value
  <1>3. ~Dispatch!Live(p.id)
    BY <1>1
  <1>4. ~Dispatch!Live(p.id)'
    BY <1>2, <1>3, NoRevival
  <1> QED BY <1>1, <1>4 DEF Dispatch!Live

LEMMA ZerosKept ==
  ASSUME ContextsInv, [Dispatch!Next]_dispatchVars, NEW c \in Calls, CallOK(c), ZerosOK(c),
         at'[c] \in {"popping", "mapping"} => at'[c] = at[c] /\ promised'[c] = promised[c],
         result'[c] = "data" =>
           result[c] = "data" /\ promised'[c] = promised[c] /\ job'[c].staging = job[c].staging,
         job'[c].ran = job[c].ran, job'[c].error = job[c].error
  PROVE  ZerosOK(c)'
  <1>1. ASSUME at'[c] \in {"popping", "mapping"}, ~job[c].ran, ~(at[c] = "popping" /\ job[c].error)
        PROVE  ~Dispatch!Live(promised[c].id)'
    <2>1. ~Dispatch!Live(promised[c].id) /\ promised[c].kind = "value"
      BY <1>1 DEF ZerosOK, CallOK
    <2> QED BY <1>1, <2>1, GoneStays
  <1>2. ASSUME result'[c] = "data", ~job[c].ran
        PROVE  ~Dispatch!Live(promised[c].id)' /\ job'[c].staging # promised'[c].id
    <2>1. /\ ~Dispatch!Live(promised[c].id) /\ promised[c].kind = "value"
          /\ job[c].staging # promised[c].id
      BY <1>2 DEF ZerosOK
    <2> QED BY <1>2, <2>1, GoneStays
  <1>3. result'[c] = "data" => promised'[c].kind = "value"
    BY DEF ZerosOK
  <1> QED BY <1>1, <1>2, <1>3 DEF ZerosOK

(* The calls of a turn that answers none, nor submits. *)
LEMMA ZerosElsewhere ==
  ASSUME ContextsInv, CallsInv, [Dispatch!Next]_dispatchVars, ZerosInv, NEW c \in Calls,
         \A d \in Calls : d # c =>
           /\ at'[d] = at[d] /\ promised'[d] = promised[d]
           /\ job'[d] = job[d] /\ result'[d] = result[d],
         ZerosOK(c)'
  PROVE  ZerosInv'
  <1>1. ASSUME NEW d \in Calls, d # c PROVE ZerosOK(d)'
    BY <1>1, ZerosKept DEF ZerosInv, CallsInv
  <1> QED BY <1>1, OvertakenStep DEF ZerosInv

LEMMA ZerosSubmit ==
  ASSUME ContextsInv, CallsInv, [Dispatch!Next]_dispatchVars, ZerosInv,
         NEW c \in Calls, NEW fits \in BOOLEAN, Dispatch!Submit(c, fits)
  PROVE  ZerosInv'
  <1>1. PICK b, ran, error, x :
           /\ b \in 1..Len(device) /\ ran \in BOOLEAN /\ error \in BOOLEAN
           /\ job' = [job EXCEPT ![c] = [ran |-> ran, error |-> error, staging |-> b]]
           /\ ~ran => ~Dispatch!Live(promised[c].id) \/ error
    BY SubmitParts
  <1>2. /\ at[c] = "has" /\ at' = [at EXCEPT ![c] = "popping"]
        /\ promised' = promised /\ result' = result
    BY DEF Dispatch!Submit
  <1>3. PICK y : y = [ran |-> ran, error |-> error, staging |-> b]
    OBVIOUS
  <1>4. /\ at'[c] = "popping" /\ job'[c] = y /\ y.ran = ran /\ y.error = error
        /\ \A d \in Calls : d # c => at'[d] = at[d] /\ job'[d] = job[d]
    <2>1. job' = [job EXCEPT ![c] = y]
      BY <1>1, <1>3
    <2> QED BY <1>2, <1>3, <2>1 DEF CallsInv
  <1>5. promised[c].kind = "value" /\ result'[c] = "none"
    BY <1>2 DEF CallsInv, CallOK
  <1>6. ~ran /\ ~error => ~Dispatch!Live(promised[c].id)'
    BY <1>1, <1>2, <1>5, GoneStays DEF CallsInv
  <1>7. ZerosOK(c)'
    BY <1>4, <1>5, <1>6 DEF ZerosOK
  <1> QED BY <1>2, <1>4, <1>7, ZerosElsewhere

LEMMA ZerosTurns ==
  ASSUME ContextsInv, CallsInv, [Dispatch!Next]_dispatchVars, ZerosInv, NEW c \in Calls,
         \/ Dispatch!Queue(c) \/ Dispatch!Declines(c)
         \/ Dispatch!PopsError(c) \/ Dispatch!PopsNothing(c)
         \/ Dispatch!Maps(c) \/ Dispatch!MapFails(c)
  PROVE  ZerosInv'
  <1>1. promised' = promised /\ job' = job
    BY DEF Dispatch!Queue, Dispatch!Declines, Dispatch!PopsError, Dispatch!PopsNothing,
       Dispatch!Maps, Dispatch!MapFails, Dispatch!Return
  <1>2. \A d \in Calls : d # c => at'[d] = at[d] /\ result'[d] = result[d]
    BY DEF Dispatch!Queue, Dispatch!Declines, Dispatch!PopsError, Dispatch!PopsNothing,
       Dispatch!Maps, Dispatch!MapFails, Dispatch!Return, CallsInv
  <1>3. CASE Dispatch!PopsNothing(c)
    <2>1. at[c] = "popping" /\ at'[c] = "mapping" /\ result' = result
          /\ (job[c].error => ~Dispatch!Live(promised[c].id))
      BY <1>3 DEF Dispatch!PopsNothing, CallsInv
    <2>2. promised[c].kind = "value" /\ result[c] = "none"
      BY <2>1 DEF CallsInv, CallOK
    <2>3. job[c].ran \/ ~Dispatch!Live(promised[c].id)
      BY <2>1 DEF ZerosInv, ZerosOK
    <2>4. job[c].ran \/ ~Dispatch!Live(promised[c].id)'
      BY <1>1, <2>2, <2>3, GoneStays DEF CallsInv
    <2>5. ZerosOK(c)'
      BY <1>1, <2>1, <2>2, <2>4 DEF ZerosOK
    <2> QED BY <1>1, <1>2, <2>5, ZerosElsewhere
  <1>4. CASE Dispatch!Maps(c)
    <2>1. at[c] = "mapping" /\ at'[c] = "done" /\ Dispatch!Live(job[c].staging)
      BY <1>4 DEF Dispatch!Maps, Dispatch!Return, CallsInv
    <2>2. promised[c].kind = "value"
      BY <2>1 DEF CallsInv, CallOK
    <2>3. PICK b : b = job[c].staging
      OBVIOUS
    <2>4. job[c].ran \/ (~Dispatch!Live(promised[c].id) /\ b # promised[c].id)
      <3>1. job[c].ran \/ ~Dispatch!Live(promised[c].id)
        BY <2>1 DEF ZerosInv, ZerosOK
      <3> QED BY <2>1, <2>3, <3>1
    <2>5. job[c].ran \/ (~Dispatch!Live(promised[c].id)' /\ b # promised'[c].id)
      BY <1>1, <2>2, <2>4, GoneStays DEF CallsInv
    <2>6. ZerosOK(c)'
      BY <1>1, <2>1, <2>2, <2>3, <2>5 DEF ZerosOK
    <2> QED BY <1>1, <1>2, <2>6, ZerosElsewhere
  <1>5. CASE Dispatch!Queue(c) \/ Dispatch!Declines(c) \/ Dispatch!PopsError(c) \/ Dispatch!MapFails(c)
    <2>1. at'[c] \in {"queued", "done"} /\ (result'[c] = "null" \/ result' = result)
      BY <1>5 DEF Dispatch!Queue, Dispatch!Declines, Dispatch!PopsError, Dispatch!MapFails,
         Dispatch!Return, CallsInv
    <2>2. ZerosOK(c)'
      BY <1>1, <2>1, ZerosKept DEF ZerosInv, CallsInv
    <2> QED BY <1>1, <1>2, <2>2, ZerosElsewhere
  <1> QED BY <1>3, <1>4, <1>5

LEMMA ZerosStep ==
  ASSUME ContextsInv, CallsInv, ZerosInv, [Dispatch!Next]_dispatchVars
  PROVE  ZerosInv'
  <1> SUFFICES ASSUME ~(\E c \in Calls : \/ Dispatch!Submit(c, TRUE) \/ Dispatch!Submit(c, FALSE)
                                          \/ Dispatch!Queue(c) \/ Dispatch!Declines(c)
                                          \/ Dispatch!PopsError(c) \/ Dispatch!PopsNothing(c)
                                          \/ Dispatch!Maps(c) \/ Dispatch!MapFails(c))
               PROVE  \A c \in Calls : ZerosOK(c)'
    BY OvertakenStep, ZerosSubmit, ZerosTurns DEF ZerosInv
  <1>1. CASE \/ UNCHANGED dispatchVars
             \/ Dispatch!InitializeGlobal \/ Dispatch!DestroyGlobal \/ Dispatch!ResetDevice
             \/ \E d \in DOMAIN device : Dispatch!DeviceLost(d) \/ Dispatch!LossReported(d)
    <2>1. UNCHANGED Dispatch!callVars \/ UNCHANGED dispatchVars
      BY <1>1, Zenon DEF Dispatch!InitializeGlobal, Dispatch!DestroyGlobal, Dispatch!ResetDevice,
         Dispatch!DeviceLost, Dispatch!LossReported
    <2>2. UNCHANGED <<at, promised, job, result>>
      BY <2>1 DEF Dispatch!callVars, dispatchVars
    <2> QED BY <2>2, ZerosKept DEF ZerosInv, CallsInv
  <1>2. ASSUME NEW g, NEW d, Dispatch!Resolve(g, d) PROVE \A c \in Calls : ZerosOK(c)'
    <2>1. /\ promised' = [c \in Calls |-> IF promised[c] = Dispatch!Pending(g) THEN Dispatch!Value(d)
                                          ELSE promised[c]]
          /\ at' = [c \in Calls |-> IF at[c] = "waits" /\ promised[c] = Dispatch!Pending(g) THEN "has"
                                    ELSE at[c]]
          /\ job' = job /\ result' = result
      BY <1>2 DEF Dispatch!Resolve
    <2>2. ASSUME NEW c \in Calls PROVE ZerosOK(c)'
      <3>1. promised'[c] = promised[c] \/ promised[c].kind = "pending"
        BY <2>1 DEF Dispatch!Pending
      <3>2. at'[c] \in {"popping", "mapping"} => at'[c] = at[c] /\ promised'[c] = promised[c]
        BY <2>1, <3>1 DEF CallsInv, CallOK
      <3>3. result'[c] = "data" => result[c] = "data" /\ promised'[c] = promised[c]
        BY <2>1, <3>1 DEF ZerosInv, ZerosOK
      <3> QED BY <2>1, <3>2, <3>3, ZerosKept DEF ZerosInv, CallsInv
    <2> QED BY <2>2
  <1>3. ASSUME NEW g \in DOMAIN context, Dispatch!DeviceGranted(g) \/ Dispatch!InitializeFails(g)
        PROVE  \A c \in Calls : ZerosOK(c)'
    <2>1. Dispatch!Resolve(g, Len(device) + 1) \/ Dispatch!Resolve(g, 0)
      BY <1>3 DEF Dispatch!DeviceGranted, Dispatch!InitializeFails
    <2> QED BY <1>2, <2>1
  <1>4. CASE Dispatch!Begin
    <2>1. PICK p : Dispatch!Gets(Head(gpuQueue), p) /\ p.kind \in {"pending", "value"}
      <3>1. ContextsInv'
        BY ContextsStep
      <3> QED BY <1>4, <3>1, BeginGets
    <2>2. PICK c : c = Head(gpuQueue)
      OBVIOUS
    <2>3. c \in Calls /\ c \in ToSet(gpuQueue)
      BY <1>4, <2>2, ShiftFirst DEF CallsInv, QueueOK, Dispatch!Begin
    <2>4. result' = result /\ job' = job /\ result[c] = "none"
      BY <1>4, <2>3 DEF Dispatch!Begin, CallsInv, QueueOK, CallOK
    <2>5. /\ at'[c] \in {"waits", "has"}
          /\ \A d \in Calls : d # c => at'[d] = at[d] /\ promised'[d] = promised[d]
      BY <2>1, <2>2, <2>3 DEF CallsInv, Dispatch!Gets
    <2>6. ASSUME NEW d \in Calls PROVE ZerosOK(d)'
      BY <2>4, <2>5, ZerosKept DEF ZerosInv, CallsInv
    <2> QED BY <2>6
  <1>5. ASSUME NEW m \in Domains, Dispatch!ResetResources(m) PROVE \A c \in Calls : ZerosOK(c)'
    <2>1. /\ job' = [c \in Calls |-> IF c \in Dispatch!Running /\ domain[c] = m
                                     THEN [job[c] EXCEPT !.staging = 0] ELSE job[c]]
          /\ UNCHANGED <<at, promised, result>>
      BY <1>5 DEF Dispatch!ResetResources
    <2>2. ASSUME NEW c \in Calls PROVE ZerosOK(c)'
      <3>1. job[c] \in [ran : BOOLEAN, error : BOOLEAN, staging : 0..Len(device)]
            /\ (result[c] = "data" => at[c] = "done")
        BY DEF CallsInv, CallOK
      <3>2. job'[c].ran = job[c].ran /\ job'[c].error = job[c].error
        BY <2>1, <3>1
      <3>3. result'[c] = "data" => job'[c] = job[c]
        BY <2>1, <3>1 DEF Dispatch!Running
      <3> QED BY <2>1, <3>2, <3>3, ZerosKept DEF ZerosInv, CallsInv
    <2> QED BY <2>2
  <1> QED BY <1>1, <1>3, <1>4, <1>5, Zenon DEF Dispatch!Next

-----------------------------------------------------------------------------
(* Commands that did not run *)

(* A call that a step leaves alone, while no device comes alive. *)
LEMMA RanKept ==
  ASSUME Grows, NoneNew, NEW c, CallOK(c), RanOK(c), at'[c] = at[c], promised'[c] = promised[c],
         job'[c] = job[c], result'[c] = result[c]
  PROVE  RanOK(c)'
  <1>1. PICK b : b = job[c].staging /\ b = job'[c].staging
    OBVIOUS
  <1>2. b \in 0..Len(device)
    BY <1>1 DEF CallOK
  <1>3. Dispatch!Live(b)' => Dispatch!Live(b)
    BY <1>2 DEF NoneNew, Grows, Dispatch!Live
  <1>4. Dispatch!Live(job[c].staging)' => Dispatch!Live(job[c].staging)
    BY <1>1, <1>3 DEF Dispatch!Live
  <1>5. ASSUME at[c] = "has", promised[c].id # 0, NEW e \in DOMAIN device', device'[e].state = "live"
        PROVE  e = promised[c].id
    BY <1>5 DEF NoneNew, RanOK
  <1> QED BY <1>4, <1>5 DEF RanOK

LEMMA OnePendingStep ==
  ASSUME ContextsInv, [Dispatch!Next]_dispatchVars, OnePending, ~orphaned', ~overtaken'
  PROVE  OnePending'
  <1>1. ContextsInv' /\ Grows /\ ~orphaned
    BY ContextsStep
  <1>2. CASE NoneNew
    BY <1>2 DEF NoneNew, OnePending
  <1>3. ASSUME NEW g \in DOMAIN context, Dispatch!DeviceGranted(g) PROVE OnePending'
    <2>1. /\ Len(device') = Len(device) + 1
          /\ \A e \in DOMAIN device : device'[e] = device[e] /\ device[e].state # "live"
      BY <1>1, <1>3, GrantedInv
    <2>2. \A e \in DOMAIN device : device[e].state # "lost" /\ device[e] \in ADevice
      <3>1. device \in Seq(ADevice)
        BY DEF ContextsInv, Lists
      <3> QED BY <1>3, <3>1, ElementOf DEF Dispatch!DeviceGranted
    <2>3. \A e \in DOMAIN device : device'[e].state = "told"
      BY <2>1, <2>2 DEF ADevice
    <2> QED BY <1>1, <2>1, <2>3 DEF OnePending, Grows
  <1> QED BY <1>2, <1>3, ContextsStep

(* The device a call begins with is the only one that may live.             *)
LEMMA BeginRan ==
  ASSUME ContextsInv, CallsInv, ~orphaned, OnePending, \A c \in Calls : RanOK(c), Dispatch!Begin
  PROVE  \A c \in Calls : RanOK(c)'
  <1>1. ContextsInv' /\ Grows /\ device' = device
    <2>1. [Dispatch!Next]_dispatchVars
      BY DEF Dispatch!Next
    <2> QED BY <2>1, ContextsStep DEF Dispatch!Begin
  <1>2. PICK p : p = inFlight' /\ Dispatch!Gets(Head(gpuQueue), p) /\ p.kind \in {"pending", "value"}
    BY <1>1, BeginGets
  <1>3. PICK c : c = Head(gpuQueue)
    OBVIOUS
  <1>4. c \in Calls /\ c \in ToSet(gpuQueue)
    BY <1>3, ShiftFirst DEF CallsInv, QueueOK, Dispatch!Begin
  <1>5. result' = result /\ job' = job /\ result[c] = "none"
    BY <1>4 DEF Dispatch!Begin, CallsInv, QueueOK, CallOK
  <1>6. /\ at'[c] = (IF p.kind = "pending" THEN "waits" ELSE "has") /\ promised'[c] = p
        /\ \A d \in Calls : d # c => at'[d] = at[d] /\ promised'[d] = promised[d]
    BY <1>2, <1>3, <1>4 DEF CallsInv, Dispatch!Gets
  <1>7. NoneNew
    BY <1>1, NoneNewIf
  <1>8. ASSUME NEW d \in Calls PROVE RanOK(d)'
    <2>1. CASE d # c
      BY <1>1, <1>5, <1>6, <1>7, <2>1, RanKept DEF CallsInv
    <2>2. CASE d = c
      <3>1. ASSUME at'[c] = "has", p.id # 0, NEW e \in DOMAIN device', device'[e].state = "live"
            PROVE  e = p.id
        <4>1. p.kind = "value"
          BY <1>2, <1>6, <3>1
        <4>2. p.id \in DOMAIN device /\ device[p.id].state # "told"
          BY <1>1, <1>2, <3>1, <4>1 DEF ContextsInv, CacheOK, Lists
        <4> QED BY <1>1, <3>1, <4>2 DEF OnePending
      <3> QED BY <1>5, <1>6, <2>2, <3>1 DEF RanOK
    <2> QED BY <2>1, <2>2
  <1> QED BY <1>8

LEMMA GrantedRan ==
  ASSUME ContextsInv, CallsInv, ~orphaned, \A c \in Calls : RanOK(c),
         NEW g \in DOMAIN context, Dispatch!DeviceGranted(g)
  PROVE  \A c \in Calls : RanOK(c)'
  <1>1. Grows
    <2>1. [Dispatch!Next]_dispatchVars
      BY DEF Dispatch!Next
    <2> QED BY <2>1, ContextsStep
  <1>2. /\ Len(device') = Len(device) + 1
        /\ \A e \in DOMAIN device : device'[e] = device[e] /\ device[e].state # "live"
    BY GrantedInv
  <1>3. PICK d : d = Len(device) + 1
    OBVIOUS
  <1>4. \A e \in DOMAIN device' : device'[e].state = "live" => e = d
    BY <1>1, <1>2, <1>3 DEF Grows
  <1>5. /\ promised' = [c \in Calls |-> IF promised[c] = Dispatch!Pending(g) THEN Dispatch!Value(d)
                                        ELSE promised[c]]
        /\ at' = [c \in Calls |-> IF at[c] = "waits" /\ promised[c] = Dispatch!Pending(g) THEN "has"
                                  ELSE at[c]]
        /\ job' = job /\ result' = result
    BY <1>3 DEF Dispatch!DeviceGranted, Dispatch!Resolve
  <1>6. \A c \in Calls : at[c] # "has"
    BY DEF Dispatch!DeviceGranted, Dispatch!NoneHas
  <1>7. ASSUME NEW c \in Calls PROVE RanOK(c)'
    <2>1. ASSUME at'[c] = "has" PROVE promised'[c].id = d
      BY <1>5, <1>6, <2>1 DEF Dispatch!Value
    <2>2. PICK b : b = job[c].staging /\ b = job'[c].staging
      BY <1>5
    <2>3. ~Dispatch!Live(b)'
      <3>1. b \in 0..Len(device)
        BY <2>2 DEF CallsInv, CallOK
      <3> QED BY <1>1, <1>2, <3>1 DEF Grows, Dispatch!Live
    <2>4. ~Dispatch!Live(job[c].staging)'
      BY <2>2, <2>3 DEF Dispatch!Live
    <2> QED BY <1>4, <1>5, <2>1, <2>4 DEF RanOK
  <1> QED BY <1>7

LEMMA FailsRan ==
  ASSUME ContextsInv, CallsInv, \A c \in Calls : RanOK(c),
         NEW g \in DOMAIN context, Dispatch!InitializeFails(g)
  PROVE  \A c \in Calls : RanOK(c)'
  <1>1. Grows /\ device' = device
    <2>1. [Dispatch!Next]_dispatchVars
      BY DEF Dispatch!Next
    <2> QED BY <2>1, ContextsStep DEF Dispatch!InitializeFails, Dispatch!history
  <1>2. /\ promised' = [c \in Calls |-> IF promised[c] = Dispatch!Pending(g) THEN Dispatch!Value(0)
                                        ELSE promised[c]]
        /\ at' = [c \in Calls |-> IF at[c] = "waits" /\ promised[c] = Dispatch!Pending(g) THEN "has"
                                  ELSE at[c]]
        /\ job' = job /\ result' = result
    BY DEF Dispatch!InitializeFails, Dispatch!Resolve
  <1>3. NoneNew
    BY <1>1, NoneNewIf
  <1>4. ASSUME NEW c \in Calls PROVE RanOK(c)'
    <2>1. CASE promised[c] # Dispatch!Pending(g)
      BY <1>1, <1>2, <1>3, <2>1, RanKept DEF CallsInv
    <2>2. CASE promised[c] = Dispatch!Pending(g)
      <3>1. promised[c].kind = "pending"
        BY <2>2 DEF Dispatch!Pending
      <3>2. at[c] \notin {"popping", "mapping"} /\ (result[c] = "data" => job[c].ran)
        BY <3>1 DEF CallsInv, CallOK, RanOK
      <3>3. promised'[c].id = 0 /\ at'[c] \notin {"popping", "mapping"}
        BY <1>2, <2>2, <3>2 DEF Dispatch!Value
      <3> QED BY <1>2, <3>2, <3>3 DEF RanOK
    <2> QED BY <2>1, <2>2
  <1> QED BY <1>4

(* A submit whose commands do not run has an error to report, or a staging  *)
(* buffer on a device that is gone.                                         *)
LEMMA SubmitRan ==
  ASSUME ContextsInv, CallsInv, Grows, \A c \in Calls : RanOK(c),
         NEW c \in Calls, NEW fits \in BOOLEAN, Dispatch!Submit(c, fits)
  PROVE  \A d \in Calls : RanOK(d)'
  <1>1. PICK b, ran, error, x :
           /\ b \in 1..Len(device) /\ ran \in BOOLEAN /\ error \in BOOLEAN
           /\ job' = [job EXCEPT ![c] = [ran |-> ran, error |-> error, staging |-> b]]
           /\ promised[c].id \in 1..Len(device)
           /\ ~ran => ~Dispatch!Live(promised[c].id) \/ error
    BY SubmitParts
  <1>2. /\ at[c] = "has" /\ at' = [at EXCEPT ![c] = "popping"]
        /\ promised' = promised /\ result' = result /\ device' = device
    <2>1. UNCHANGED Dispatch!deviceVars
      BY DEF Dispatch!Submit
    <2> QED BY <2>1 DEF Dispatch!Submit, Dispatch!deviceVars
  <1>3. PICK y : y = [ran |-> ran, error |-> error, staging |-> b]
    OBVIOUS
  <1>4. /\ at'[c] = "popping" /\ job'[c] = y
        /\ \A d \in Calls : d # c => at'[d] = at[d] /\ job'[d] = job[d]
    <2>1. job' = [job EXCEPT ![c] = y]
      BY <1>1, <1>3
    <2> QED BY <1>2, <2>1 DEF CallsInv
  <1>5. NoneNew
    BY <1>2, NoneNewIf
  <1>6. ASSUME NEW d \in Calls PROVE RanOK(d)'
    <2>1. CASE d # c
      BY <1>2, <1>4, <1>5, <2>1, RanKept DEF CallsInv
    <2>2. CASE d = c
      <3>1. Dispatch!Live(b) => b = promised[c].id
        <4>1. \A e \in DOMAIN device : device[e].state = "live" => e = promised[c].id
          <5>1. promised[c].id # 0
            BY <1>1
          <5> QED BY <1>2, <5>1 DEF RanOK
        <4> QED BY <1>1, <4>1 DEF Grows, Dispatch!Live
      <3>2. y.ran = ran /\ y.error = error /\ y.staging = b
        BY <1>3
      <3>3. \/ ran \/ ~Dispatch!Live(b)
            \/ error /\ b = promised[c].id
        BY <1>1, <3>1, Zenon
      <3>4. \/ y.ran \/ ~Dispatch!Live(y.staging)
            \/ y.error /\ y.staging = promised[c].id
        BY <3>2, <3>3, Zenon
      <3>5. PICK s : s = y.staging /\ s = job'[c].staging
        BY <1>4
      <3>6. Dispatch!Live(job[c].staging)' => Dispatch!Live(y.staging)
        BY <1>2, <3>5 DEF Dispatch!Live
      <3>7. result'[c] = "none"
        BY <1>2 DEF CallsInv, CallOK
      <3>8. \/ job'[c].ran \/ ~Dispatch!Live(job[c].staging)'
            \/ job'[c].error /\ job'[c].staging = promised'[c].id
        BY <1>2, <1>4, <3>4, <3>6, Zenon
      <3> QED BY <1>4, <2>2, <3>7, <3>8, Zenon DEF RanOK
    <2> QED BY <2>1, <2>2
  <1> QED BY <1>6

(* The other turns of a call.                                               *)
LEMMA TurnsRan ==
  ASSUME ContextsInv, CallsInv, Grows, \A c \in Calls : RanOK(c), NEW c \in Calls,
         \/ Dispatch!Queue(c) \/ Dispatch!Declines(c)
         \/ Dispatch!PopsError(c) \/ Dispatch!PopsNothing(c)
         \/ Dispatch!Maps(c) \/ Dispatch!MapFails(c)
  PROVE  \A d \in Calls : RanOK(d)'
  <1>1. device' = device
    <2>1. device' = device \/ UNCHANGED Dispatch!deviceVars
      BY DEF Dispatch!Queue, Dispatch!Declines, Dispatch!PopsError, Dispatch!PopsNothing,
         Dispatch!Maps, Dispatch!MapFails
    <2> QED BY <2>1 DEF Dispatch!deviceVars
  <1>2. promised' = promised /\ job' = job
    BY DEF Dispatch!Queue, Dispatch!Declines, Dispatch!PopsError, Dispatch!PopsNothing,
       Dispatch!Maps, Dispatch!MapFails, Dispatch!Return
  <1>3. PICK place, answer :
          /\ at' = [at EXCEPT ![c] = place]
          /\ \/ result' = result /\ answer = result[c]
             \/ result' = [result EXCEPT ![c] = answer]
          /\ \/ place \in {"queued", "done"} /\ answer # "data"
             \/ Dispatch!Maps(c) /\ place = "done"
             \/ Dispatch!PopsNothing(c) /\ place = "mapping" /\ answer = result[c]
    <2>1. CASE Dispatch!Queue(c)
      <3>1. at[c] = "new" /\ at' = [at EXCEPT ![c] = "queued"] /\ result' = result
        BY <2>1 DEF Dispatch!Queue
      <3>2. result[c] = "none"
        BY <3>1 DEF CallsInv, CallOK
      <3> QED BY <3>1, <3>2
    <2>2. CASE Dispatch!PopsNothing(c)
      BY <2>2 DEF Dispatch!PopsNothing
    <2>3. CASE Dispatch!Maps(c)
      BY <2>3 DEF Dispatch!Maps, Dispatch!Return
    <2>4. CASE Dispatch!Declines(c) \/ Dispatch!PopsError(c) \/ Dispatch!MapFails(c)
      BY <2>4 DEF Dispatch!Declines, Dispatch!PopsError, Dispatch!MapFails, Dispatch!Return
    <2> QED BY <2>1, <2>2, <2>3, <2>4
  <1>4. /\ at'[c] = place /\ result'[c] = answer
        /\ \A d \in Calls : d # c => at'[d] = at[d] /\ result'[d] = result[d]
    BY <1>3 DEF CallsInv
  <1>5. NoneNew
    BY <1>1, NoneNewIf
  <1>6. PICK b : b = job[c].staging
    OBVIOUS
  <1>7. Dispatch!Live(b)' => Dispatch!Live(b)
    BY <1>1 DEF Dispatch!Live
  <1>8. Dispatch!Live(job[c].staging)' => Dispatch!Live(job[c].staging)
    BY <1>1, <1>2, <1>6, <1>7 DEF Dispatch!Live
  <1>9. ASSUME NEW d \in Calls PROVE RanOK(d)'
    <2>1. CASE d # c
      BY <1>2, <1>4, <1>5, <2>1, RanKept DEF CallsInv
    <2>2. CASE d = c /\ place \in {"queued", "done"} /\ answer # "data"
      BY <1>4, <2>2 DEF RanOK
    <2>3. CASE d = c /\ Dispatch!Maps(c) /\ place = "done"
      <3>1. at[c] = "mapping" /\ Dispatch!Live(job[c].staging)
        BY <2>3 DEF Dispatch!Maps
      <3>2. job[c].ran
        BY <3>1 DEF RanOK
      <3> QED BY <1>2, <1>4, <2>3, <3>2 DEF RanOK
    <2>4. CASE d = c /\ Dispatch!PopsNothing(c) /\ place = "mapping" /\ answer = result[c]
      <3>1. at[c] = "popping" /\ (job[c].error => ~Dispatch!Live(promised[c].id))
        BY <2>4 DEF Dispatch!PopsNothing
      <3>2. \/ job[c].ran \/ ~Dispatch!Live(job[c].staging)
            \/ job[c].error /\ job[c].staging = promised[c].id
        BY <3>1 DEF RanOK
      <3>3. job[c].ran \/ ~Dispatch!Live(job[c].staging)
        BY <3>1, <3>2
      <3>4. result[c] = "none"
        BY <3>1 DEF CallsInv, CallOK
      <3> QED BY <1>2, <1>4, <1>8, <2>4, <3>3, <3>4 DEF RanOK
    <2> QED BY <1>3, <2>1, <2>2, <2>3, <2>4
  <1> QED BY <1>9

LEMMA ResetRan ==
  ASSUME ContextsInv, CallsInv, Grows, \A c \in Calls : RanOK(c),
         NEW m \in Domains, Dispatch!ResetResources(m)
  PROVE  \A c \in Calls : RanOK(c)'
  <1>1. /\ job' = [c \in Calls |-> IF c \in Dispatch!Running /\ domain[c] = m
                                   THEN [job[c] EXCEPT !.staging = 0] ELSE job[c]]
        /\ UNCHANGED <<at, promised, result>> /\ UNCHANGED Dispatch!deviceVars
    BY DEF Dispatch!ResetResources
  <1>2. device' = device
    BY <1>1 DEF Dispatch!deviceVars
  <1>3. NoneNew
    BY <1>2, NoneNewIf
  <1>4. ASSUME NEW c \in Calls PROVE RanOK(c)'
    <2>1. CASE job'[c] = job[c]
      BY <1>1, <1>3, <2>1, RanKept DEF CallsInv
    <2>2. CASE job'[c] = [job[c] EXCEPT !.staging = 0]
      <3>1. job[c] \in [ran : BOOLEAN, error : BOOLEAN, staging : 0..Len(device)]
        BY DEF CallsInv, CallOK
      <3>2. job'[c].staging = 0 /\ job'[c].ran = job[c].ran
        BY <2>2, <3>1
      <3>3. ~Dispatch!Live(job[c].staging)'
        BY <3>2 DEF Dispatch!Live
      <3>4. (at'[c] = "has" /\ promised'[c].id # 0) =>
               \A e \in DOMAIN device' : device'[e].state = "live" => e = promised'[c].id
        BY <1>1, <1>2 DEF RanOK
      <3>5. result'[c] = "data" => job'[c].ran
        BY <1>1, <3>2, Zenon DEF RanOK
      <3> QED BY <3>3, <3>4, <3>5 DEF RanOK
    <2> QED BY <1>1, <2>1, <2>2
  <1> QED BY <1>4

LEMMA RanStep ==
  ASSUME ContextsInv, CallsInv, RanInv, [Dispatch!Next]_dispatchVars
  PROVE  RanInv'
  <1> SUFFICES ASSUME ~orphaned', ~overtaken' PROVE RanInv'
    BY DEF RanInv, Undisturbed
  <1>1. ContextsInv' /\ Grows /\ ~orphaned /\ ~overtaken
    BY ContextsStep, OvertakenStep
  <1>2. OnePending /\ \A c \in Calls : RanOK(c)
    BY <1>1 DEF RanInv, Undisturbed
  <1>3. OnePending'
    BY <1>2, OnePendingStep
  <1>4. ASSUME UNCHANGED <<at, promised, job, result>>, NoneNew
        PROVE  \A c \in Calls : RanOK(c)'
    BY <1>1, <1>2, <1>4, RanKept DEF CallsInv
  <1>5. CASE \/ UNCHANGED dispatchVars
             \/ Dispatch!InitializeGlobal \/ Dispatch!DestroyGlobal \/ Dispatch!ResetDevice
             \/ \E d \in DOMAIN device : Dispatch!DeviceLost(d) \/ Dispatch!LossReported(d)
    <2>1. UNCHANGED Dispatch!callVars \/ UNCHANGED dispatchVars
      BY <1>5, Zenon DEF Dispatch!InitializeGlobal, Dispatch!DestroyGlobal, Dispatch!ResetDevice,
         Dispatch!DeviceLost, Dispatch!LossReported
    <2>2. UNCHANGED <<at, promised, job, result>>
      BY <2>1 DEF Dispatch!callVars, dispatchVars
    <2>3. NoneNew
      <3>1. CASE UNCHANGED dispatchVars \/ Dispatch!InitializeGlobal \/ Dispatch!ResetDevice
        <4>1. device' = device
          BY <3>1 DEF dispatchVars, Dispatch!InitializeGlobal, Dispatch!ResetDevice
        <4> QED BY <4>1, NoneNewIf
      <3>2. CASE Dispatch!DestroyGlobal
        BY <3>2, DestroyInv, NoneNewIf
      <3>3. ASSUME NEW d \in DOMAIN device, Dispatch!DeviceLost(d) PROVE NoneNew
        BY <3>3, DeviceLostInv, NoneNewIf
      <3>4. ASSUME NEW d \in DOMAIN device, Dispatch!LossReported(d) PROVE NoneNew
        <4>1. /\ DOMAIN device' = DOMAIN device
              /\ \A e \in DOMAIN device :
                   device'[e].state = IF e = d THEN "told" ELSE device[e].state
          BY <3>4, LossReportedInv
        <4> QED BY <4>1 DEF NoneNew
      <3> QED BY <1>5, <3>1, <3>2, <3>3, <3>4
    <2> QED BY <1>3, <1>4, <2>2, <2>3 DEF RanInv
  <1>6. CASE Dispatch!Begin
    BY <1>1, <1>2, <1>3, <1>6, BeginRan DEF RanInv
  <1>7. ASSUME NEW g \in DOMAIN context, Dispatch!DeviceGranted(g) PROVE RanInv'
    BY <1>1, <1>2, <1>3, <1>7, GrantedRan DEF RanInv
  <1>8. ASSUME NEW g \in DOMAIN context, Dispatch!InitializeFails(g) PROVE RanInv'
    BY <1>2, <1>3, <1>8, FailsRan DEF RanInv
  <1>9. ASSUME NEW c \in Calls, Dispatch!Submit(c, TRUE) \/ Dispatch!Submit(c, FALSE) PROVE RanInv'
    BY <1>1, <1>2, <1>3, <1>9, SubmitRan DEF RanInv
  <1>10. ASSUME NEW c \in Calls,
                \/ Dispatch!Queue(c) \/ Dispatch!Declines(c)
                \/ Dispatch!PopsError(c) \/ Dispatch!PopsNothing(c)
                \/ Dispatch!Maps(c) \/ Dispatch!MapFails(c)
         PROVE  RanInv'
    BY <1>1, <1>2, <1>3, <1>10, TurnsRan DEF RanInv
  <1>11. ASSUME NEW m \in Domains, Dispatch!ResetResources(m) PROVE RanInv'
    BY <1>1, <1>2, <1>3, <1>11, ResetRan DEF RanInv
  <1> QED BY <1>5, <1>6, <1>7, <1>8, <1>9, <1>10, <1>11 DEF Dispatch!Next

-----------------------------------------------------------------------------
(* The theorems *)

LEMMA DispatchInit == Dispatch!Init => ContextsInv /\ CallsInv /\ RanInv /\ ZerosInv
  <1> SUFFICES ASSUME Dispatch!Init PROVE ContextsInv /\ CallsInv /\ RanInv /\ ZerosInv
    OBVIOUS
  <1>1. /\ context = <<>> /\ globalContext = 0 /\ device = <<>> /\ watched = {}
        /\ inFlight = Dispatch!Empty /\ orphaned = FALSE /\ overtaken = FALSE
        /\ gpuQueue = <<>> /\ at = [c \in Calls |-> "new"]
        /\ domain \in [Calls -> Domains] /\ promised = [c \in Calls |-> Dispatch!Empty]
        /\ resources = [m \in Domains |-> Dispatch!NoResources]
        /\ job = [c \in Calls |-> Dispatch!NoJob] /\ result = [c \in Calls |-> "none"]
    BY DEF Dispatch!Init
  <1>2. Len(context) = 0 /\ DOMAIN context = {} /\ Len(device) = 0 /\ DOMAIN device = {}
    BY <1>1
  <1>3. ContextsInv
    <2>1. Lists
      <3>1. <<>> \in Seq(AContext) /\ <<>> \in Seq(ADevice)
        OBVIOUS
      <3>2. 0 <= MaxContexts /\ 0 <= MaxDevices /\ 0 \in 0..0
        BY DispatchAssumption
      <3>3. context \in Seq(AContext) /\ device \in Seq(ADevice)
        BY <1>1, <3>1
      <3>4. watched \subseteq DOMAIN device /\ orphaned \in BOOLEAN /\ globalContext \in 0..Len(context)
        BY <1>1, <1>2, <3>2
      <3> QED BY <1>2, <3>2, <3>3, <3>4 DEF Lists
    <2>2. CacheOK
      BY <1>1 DEF CacheOK, PromiseOK, Dispatch!Empty
    <2>3. DevicesOK /\ OneGlobal
      BY <1>1, <1>2 DEF DevicesOK, OneGlobal
    <2> QED BY <1>2, <2>1, <2>2, <2>3 DEF ContextsInv
  <1>4. CallsInv
    <2>1. QueueOK
      <3>1. <<>> \in Seq(Calls)
        OBVIOUS
      <3> QED BY <1>1, <3>1, EmptyList DEF QueueOK
    <2>2. ASSUME NEW c \in Calls PROVE CallOK(c)
      BY <1>1, <1>2 DEF CallOK, CallStates, PromiseOK, Dispatch!Empty, Dispatch!NoJob
    <2>3. ASSUME NEW m \in Domains PROVE ResourceOK(resources[m])
      BY <1>1, <1>2 DEF ResourceOK, Dispatch!NoResources
    <2> QED BY <1>1, <2>1, <2>2, <2>3 DEF CallsInv
  <1>5. RanInv /\ ZerosInv
    BY <1>1, <1>2 DEF RanInv, OnePending, RanOK, ZerosInv, ZerosOK
  <1> QED BY <1>3, <1>4, <1>5

LEMMA ListFrom ==
  ASSUME NEW R, NEW T, NEW s \in Seq(R), \A i \in DOMAIN s : s[i] \in T
  PROVE  s \in Seq(T)
  OBVIOUS

(* The invariants give every part of the state its type. *)
LEMMA DispatchTyped == ContextsInv /\ CallsInv /\ overtaken \in BOOLEAN => Dispatch!TypeOK
  <1> SUFFICES ASSUME ContextsInv, CallsInv, overtaken \in BOOLEAN PROVE Dispatch!TypeOK
    OBVIOUS
  <1> DEFINE Device  == [state : {"live", "lost", "told"}, context : 1..MaxContexts]
             Context == [status : {"uninitialized", "initializing", "ready", "lost", "error"},
                         device : 0..MaxDevices, starting : BOOLEAN, asked : BOOLEAN]
  <1>1. Lists
    BY DEF ContextsInv
  <1>2. /\ Len(context) \in Nat /\ DOMAIN context = 1..Len(context) /\ Len(context) <= MaxContexts
        /\ Len(device) \in Nat /\ DOMAIN device = 1..Len(device) /\ Len(device) <= MaxDevices
        /\ MaxContexts \in Nat /\ MaxDevices \in Nat
    BY <1>1, NumbersOf, DispatchAssumption DEF Lists
  <1>3. /\ 1..Len(context) \subseteq 1..MaxContexts /\ 0..Len(context) \subseteq 0..MaxContexts
        /\ 1..Len(device) \subseteq 1..MaxDevices /\ 0..Len(device) \subseteq 0..MaxDevices
    BY <1>2
  <1>4. context \in Seq(Context)
    <2>1. ASSUME NEW g \in DOMAIN context PROVE context[g] \in Context
      <3>1. context[g] \in AContext
        BY <1>1, ElementOf DEF Lists
      <3>2. context[g].device \in 0..MaxDevices
        BY <1>3 DEF ContextsInv, ContextOK
      <3> QED BY <3>1, <3>2 DEF AContext
    <2>2. context \in Seq(AContext)
      BY <1>1 DEF Lists
    <2> HIDE DEF Context
    <2> QED BY <2>1, <2>2, ListFrom
  <1>5. device \in Seq(Device)
    <2>1. ASSUME NEW d \in DOMAIN device PROVE device[d] \in Device
      <3>1. device[d] \in ADevice
        BY <1>1, ElementOf DEF Lists
      <3>2. device[d].context \in 1..MaxContexts
        BY <1>3 DEF ContextsInv, DevicesOK
      <3> QED BY <3>1, <3>2 DEF ADevice
    <2>2. device \in Seq(ADevice)
      BY <1>1 DEF Lists
    <2> HIDE DEF Device
    <2> QED BY <2>1, <2>2, ListFrom
  <1>6. ASSUME NEW p, PromiseOK(p) PROVE p \in Dispatch!Promises
    BY <1>2, <1>6 DEF PromiseOK, Dispatch!Promises, Dispatch!Empty, Dispatch!Pending, Dispatch!Value
  <1>7. inFlight \in Dispatch!Promises
    BY <1>6 DEF ContextsInv, CacheOK
  <1>8. at \in [Calls -> CallStates]
    <2>1. \A c \in Calls : at[c] \in CallStates
      BY DEF CallsInv, CallOK
    <2>2. at = [c \in Calls |-> at[c]]
      BY DEF CallsInv
    <2> QED BY <2>1, <2>2
  <1>9. promised \in [Calls -> Dispatch!Promises]
    <2>1. \A c \in Calls : promised[c] \in Dispatch!Promises
      BY <1>6 DEF CallsInv, CallOK
    <2>2. promised = [c \in Calls |-> promised[c]]
      BY DEF CallsInv
    <2> QED BY <2>1, <2>2
  <1>10. job \in [Calls -> [ran : BOOLEAN, error : BOOLEAN, staging : 0..MaxDevices]]
    <2>1. ASSUME NEW c \in Calls
          PROVE  job[c] \in [ran : BOOLEAN, error : BOOLEAN, staging : 0..MaxDevices]
      <3>1. job[c] \in [ran : BOOLEAN, error : BOOLEAN, staging : 0..Len(device)]
        BY DEF CallsInv, CallOK
      <3> QED BY <1>3, <3>1
    <2>2. job = [c \in Calls |-> job[c]]
      BY DEF CallsInv
    <2> QED BY <2>1, <2>2
  <1>11. result \in [Calls -> {"none", "data", "null"}]
    <2>1. \A c \in Calls : result[c] \in {"none", "data", "null"}
      BY DEF CallsInv, CallOK
    <2>2. result = [c \in Calls |-> result[c]]
      BY DEF CallsInv
    <2> QED BY <2>1, <2>2
  <1>12. resources \in [Domains -> [device : 0..MaxDevices, via : 0..MaxContexts,
                                    pooled : SUBSET (1..MaxDevices)]]
    <2>1. ASSUME NEW m \in Domains
          PROVE  resources[m] \in [device : 0..MaxDevices, via : 0..MaxContexts,
                                   pooled : SUBSET (1..MaxDevices)]
      <3>1. resources[m] \in [device : 0..Len(device), via : 0..Len(context),
                              pooled : SUBSET (1..Len(device))]
        BY DEF CallsInv, ResourceOK
      <3>2. resources[m].pooled \in SUBSET (1..MaxDevices)
        BY <1>3, <3>1
      <3> QED BY <1>3, <3>1, <3>2
    <2>2. resources = [m \in Domains |-> resources[m]]
      BY DEF CallsInv
    <2> QED BY <2>1, <2>2
  <1>13. gpuQueue \in Seq(Calls)
    BY DEF CallsInv, QueueOK
  <1> QED BY <1>1, <1>4, <1>5, <1>7, <1>8, <1>9, <1>10, <1>11, <1>12, <1>13
          DEF Dispatch!TypeOK, Lists, CallStates

LEMMA SameCardinality == \A S : Dispatch!Cardinality(S) = Cardinality(S)
  BY DEF Dispatch!Cardinality, Cardinality

(* The devices that live are devices of the global context, which has one.  *)
LEMMA DeviceShared == ContextsInv => Dispatch!SharedDevice
  <1> SUFFICES ASSUME ContextsInv PROVE Dispatch!SharedDevice
    OBVIOUS
  <1>1. inFlight.kind = "value" /\ inFlight.id # 0 => device[inFlight.id].state # "told"
    BY DEF ContextsInv, CacheOK
  <1>2. ASSUME OneGlobal
        PROVE  Dispatch!Cardinality({d \in DOMAIN device : Dispatch!Live(d)}) <= 1
    <2>1. PICK S : S = {d \in DOMAIN device : Dispatch!Live(d)}
      OBVIOUS
    <2>2. ASSUME NEW d \in S PROVE d = context[globalContext].device
      <3>1. d \in DOMAIN device /\ device[d].state = "live"
        BY <2>1 DEF Dispatch!Live
      <3> QED BY <1>2, <3>1 DEF OneGlobal
    <2>3. Cardinality(S) <= 1
      <3>1. CASE S = {}
        BY <3>1, FS_EmptySet
      <3>2. CASE S # {}
        <4>1. PICK x : S = {x}
          BY <2>2, <3>2
        <4> QED BY <4>1, FS_Singleton
      <3> QED BY <3>1, <3>2
    <2> QED BY <2>1, <2>3, SameCardinality
  <1> QED BY <1>1, <1>2 DEF Dispatch!SharedDevice, ContextsInv

LEMMA DataRan == RanInv /\ ZerosInv => Dispatch!NoSilentZeros
  <1> SUFFICES ASSUME RanInv, ZerosInv, NEW c \in Calls, result[c] = "data", ~job[c].ran
               PROVE  /\ ~Dispatch!Live(promised[c].id) /\ job[c].staging # promised[c].id
                      /\ orphaned \/ overtaken
    BY DEF Dispatch!NoSilentZeros
  <1>1. ~Dispatch!Live(promised[c].id) /\ job[c].staging # promised[c].id
    BY DEF ZerosInv, ZerosOK
  <1>2. orphaned \/ overtaken
    BY DEF RanInv, Undisturbed, RanOK
  <1> QED BY <1>1, <1>2

(* The specification of the dispatch, in the variables as the run has them. *)
LEMMA DispatchMoves == [Dispatch!Next]_(Dispatch!vars) => [Dispatch!Next]_dispatchVars
  BY DEF Dispatch!vars, Dispatch!deviceVars, Dispatch!callVars, Dispatch!history, dispatchVars

(* The device is one: a device whose loss was reported is not handed out    *)
(* again by the cache of device.ts, and no two devices live, unless a       *)
(* context was destroyed while it initialised; for any number of calls,     *)
(* contexts and devices, whenever the losses are reported.                  *)
THEOREM DeviceIsShared == Dispatch!Spec => []SharedDevice
  <1>1. Dispatch!Init => ContextsInv /\ CallsInv /\ ZerosInv
    BY DispatchInit
  <1>2. ContextsInv /\ CallsInv /\ ZerosInv /\ [Dispatch!Next]_(Dispatch!vars)
          => ContextsInv' /\ CallsInv' /\ ZerosInv'
    BY DispatchMoves, ContextsStep, CallsStep, ZerosStep
  <1>3. ContextsInv /\ CallsInv /\ ZerosInv => SharedDevice
    BY DispatchTyped, DeviceShared DEF SharedDevice, ZerosInv
  <1> QED BY <1>1, <1>2, <1>3, PTL DEF Dispatch!Spec

(* A dispatch that returns data ran its commands, unless its device is lost *)
(* and it read a buffer of another device; and that takes a device granted  *)
(* while the loss of another was unreported, or a context destroyed while   *)
(* it initialised.  For any number of calls, contexts and devices, and      *)
(* whatever is lost, destroyed, reset or invalid, and whenever the losses   *)
(* are reported.                                                            *)
THEOREM NoZerosReturned == Dispatch!Spec => []NoSilentZeros
  <1> DEFINE All == ContextsInv /\ CallsInv /\ RanInv /\ ZerosInv
  <1>1. Dispatch!Init => All
    BY DispatchInit
  <1>2. All /\ [Dispatch!Next]_(Dispatch!vars) => All'
    BY DispatchMoves, ContextsStep, CallsStep, RanStep, ZerosStep
  <1>3. All => NoSilentZeros
    BY DataRan DEF NoSilentZeros
  <1> QED BY <1>1, <1>2, <1>3, PTL DEF Dispatch!Spec

-----------------------------------------------------------------------------
(* The bytes of the pool *)

Memory(mem) == IsFiniteSet(DOMAIN mem) /\ mem \in [DOMAIN mem -> Nat]

(* The bytes of the buffers there are. *)
LEMMA BytesOfIs ==
  ASSUME NEW mem, Memory(mem), NEW total, Sums(total, mem, DOMAIN mem)
  PROVE  BytesOf(mem) = total[DOMAIN mem] /\ BytesOf(mem) \in Nat
<1> DEFINE D == DOMAIN mem
           Iterates(h) == h = [s \in SUBSET D |->
                     IF s = {} THEN 0 ELSE mem[CHOOSE x \in s : TRUE]
                                           + h[s \ {CHOOSE x \in s : TRUE}]]
           iter == CHOOSE h : Iterates(h)
<1>1. BytesOf(mem) = iter[D]
  BY DEF BytesOf, MapThenSumSet, MapThenFoldSet
<1>2. \E h : Iterates(h)
  <2>1. PICK h : Adds(h, mem, D)
    BY TotalExists DEF Memory
  <2>. QED
    BY <2>1 DEF Adds, First
<1>3. Iterates(iter)
  <2> HIDE DEF Iterates
  <2>. QED
    BY <1>2, Zenon
<1> HIDE DEF iter
<1>4. Adds(iter, mem, D)
  BY <1>3 DEF Adds, First
<1>5. total[D] \in Nat
  BY DEF Sums
<1>. QED
  BY <1>1, <1>4, <1>5, SumIs DEF Memory

(* The bytes of the entries at some places. *)
LEMMA BytesInIs ==
  ASSUME NEW slots, IsFiniteSet(slots), NEW f \in [slots -> Nat],
         \A p \in slots : f[p] = SizeOf(p[1]), NEW total, Sums(total, f, slots)
  PROVE  BytesIn(slots) = total[slots]
<1> DEFINE Iterates(h) == h = [s \in SUBSET slots |->
                     IF s = {} THEN 0 ELSE SizeOf((CHOOSE x \in s : TRUE)[1])
                                           + h[s \ {CHOOSE x \in s : TRUE}]]
           iter == CHOOSE h : Iterates(h)
<1>1. BytesIn(slots) = iter[slots]
  BY DEF BytesIn, MapThenSumSet, MapThenFoldSet
<1>2. \A s \in SUBSET slots : s # {} => f[First(s)] = SizeOf((CHOOSE x \in s : TRUE)[1])
  BY DEF First
<1>3. PICK g : Adds(g, f, slots)
  BY TotalExists
<1>4. Iterates(g)
  BY <1>2, <1>3 DEF Adds, First
<1>5. Iterates(iter)
  <2> HIDE DEF Iterates
  <2>. QED
    BY <1>4, Zenon
<1> HIDE DEF iter
<1>6. Adds(iter, f, slots)
  BY <1>2, <1>5 DEF Adds, First
<1>. QED
  BY <1>1, <1>6, SumIs

(* Destroying buffers frees the bytes of their entries. *)
LEMMA BytesFreed ==
  ASSUME NEW mem, Memory(mem), NEW slots, NEW to \in [slots -> DOMAIN mem],
         \A p, q \in slots : to[p] = to[q] => p = q,
         \A p \in slots : mem[to[p]] = SizeOf(p[1]),
         NEW gone, gone = {to[p] : p \in slots}
  PROVE  /\ Memory(Without(mem, gone))
         /\ BytesOf(Without(mem, gone)) = BytesOf(mem) - BytesIn(slots)
<1> DEFINE D == DOMAIN mem
           left == D \ gone
           rest == Without(mem, gone)
           size == [p \in slots |-> SizeOf(p[1])]
<1>0. IsFiniteSet(D) /\ mem \in [D -> Nat] /\ IsFiniteSet(slots) /\ IsFiniteSet(left)
  <2>1. to \in Injection(slots, D)
    BY DEF Injection, IsInjective
  <2>2. IsFiniteSet(slots)
    BY <2>1, FS_Injection DEF Memory
  <2>. QED
    BY <2>2, FS_Subset DEF Memory
<1>1. PICK total : Sums(total, mem, D)
  BY <1>0, SumExists
<1>2. size \in [slots -> Nat]
  <2>1. \A p \in slots : SizeOf(p[1]) \in Nat
    BY <1>0
  <2>. QED
    BY <2>1
<1>3. PICK share : Sums(share, size, slots)
  BY <1>0, <1>2, SumExists
<1>4. BytesIn(slots) = share[slots]
  BY <1>0, <1>2, <1>3, BytesInIs
<1>5. share[slots] = total[gone]
  <2>1. \A p \in slots : mem[to[p]] = size[p]
    OBVIOUS
  <2>2. to \in [slots -> D]
    OBVIOUS
  <2> HIDE DEF size, D
  <2>3. share[slots] = total[{to[p] : p \in slots}]
    BY <1>0, <1>1, <1>2, <1>3, <2>1, <2>2, SumOfImage
  <2>. QED
    BY <2>3
<1>6. DOMAIN rest = left /\ rest \in [left -> Nat] /\ \A b \in left : rest[b] = mem[b]
  BY <1>0 DEF Without
<1>7. Memory(rest)
  BY <1>0, <1>6 DEF Memory
<1>8. BytesOf(rest) = total[left]
  <2>0. left \subseteq D
    OBVIOUS
  <2>9. PICK less : Narrowed(less, total, left)
    BY DEF Narrowed
  <2> HIDE DEF rest, left, D
  <2>1. Sums(less, rest, left)
    BY <1>1, <1>6, <2>0, <2>9, SumOfPart
  <2>2. less[left] = total[left]
    BY <2>9 DEF Narrowed
  <2>. QED
    BY <1>6, <1>7, <2>1, <2>2, BytesOfIs
<1>9. total[D] = total[left] + total[gone] /\ total[left] \in Nat /\ total[gone] \in Nat
  <2>0. gone \in SUBSET D
    <3>1. \A p \in slots : to[p] \in D
      OBVIOUS
    <3>. QED
      BY <3>1
  <2>1. gone \in SUBSET D /\ left \in SUBSET D /\ left \cup gone = D /\ left \cap gone = {}
    BY <2>0
  <2> HIDE DEF left, D
  <2>2. total[left \cup gone] = total[left] + total[gone]
    BY <1>0, <1>1, <2>1, SumOfUnion
  <2>3. total \in [SUBSET D -> Nat]
    BY <1>1 DEF Sums
  <2>. QED
    BY <2>1, <2>2, <2>3
<1>10. BytesOf(mem) = total[D]
  BY <1>1, BytesOfIs
<1> HIDE DEF rest, left, size
<1>11. BytesOf(rest) = BytesOf(mem) - BytesIn(slots)
  BY <1>4, <1>5, <1>8, <1>9, <1>10
<1>. QED
  BY <1>7, <1>11 DEF rest

(* A new buffer takes its bytes. *)
LEMMA BytesTaken ==
  ASSUME NEW mem, Memory(mem), NEW b, b \notin DOMAIN mem, NEW n \in Nat,
         NEW more, more = [x \in DOMAIN mem \cup {b} |-> IF x = b THEN n ELSE mem[x]]
  PROVE  Memory(more) /\ BytesOf(more) = BytesOf(mem) + n
<1> DEFINE D == DOMAIN mem
           E == D \cup {b}
<1>0. /\ IsFiniteSet(D) /\ mem \in [D -> Nat] /\ IsFiniteSet(E)
      /\ DOMAIN more = E /\ more \in [E -> Nat] /\ more[b] = n /\ \A x \in D : mem[x] = more[x]
  BY FS_AddElement DEF Memory
<1>1. Memory(more)
  BY <1>0 DEF Memory
<1>2. PICK total : Sums(total, more, E)
  BY <1>0, SumExists
<1>3. total[E] = n + total[D] /\ total[D] \in Nat
  <2>1. E \ {b} = D /\ b \in E /\ E \in SUBSET E /\ D \in SUBSET E
    OBVIOUS
  <2> HIDE DEF D, E
  <2>2. total[E] = more[b] + total[E \ {b}]
    BY <1>2, <2>1 DEF Sums
  <2>3. total[D] \in Nat
    BY <1>2, <2>1 DEF Sums
  <2>. QED
    BY <1>0, <2>1, <2>2, <2>3
<1>4. BytesOf(more) = total[E]
  BY <1>0, <1>1, <1>2, BytesOfIs
<1>5. BytesOf(mem) = total[D]
  <2>0. D \subseteq E /\ \A x \in D : mem[x] = more[x]
    BY <1>0
  <2>9. PICK less : Narrowed(less, total, D)
    BY DEF Narrowed
  <2> HIDE DEF D, E
  <2>1. Sums(less, mem, D)
    BY <1>2, <2>0, <2>9, SumOfPart
  <2>2. less[D] = total[D]
    BY <2>9 DEF Narrowed
  <2>. QED
    BY <2>1, <2>2, BytesOfIs DEF D
<1>. QED
  BY <1>1, <1>3, <1>4, <1>5

(* No buffer, no bytes. *)
LEMMA NoBytes ==
  ASSUME NEW mem, mem = [b \in {} |-> mem[b]]
  PROVE  Memory(mem) /\ BytesOf(mem) = 0
<1>1. Memory(mem)
  <2>1. IsFiniteSet({})
    BY FS_EmptySet
  <2>2. mem \in [DOMAIN mem -> Nat]
    OBVIOUS
  <2>. QED
    BY <2>1, <2>2 DEF Memory
<1>2. PICK total : Sums(total, mem, DOMAIN mem)
  BY <1>1, SumExists DEF Memory
<1>. QED
  BY <1>1, <1>2, BytesOfIs DEF Sums

(* What filter leaves of a list. *)
LEMMA SublistSelects ==
  ASSUME NEW S, NEW s \in Seq(S), NEW places \in SUBSET DOMAIN s
  PROVE  Sublist(s, places) \in Seq(S) /\ Selects(s, places, Sublist(s, places))
<1> DEFINE Upto(i) == {j \in places : j <= i}
           m == Cardinality(places)
           rank == [i \in places |-> Cardinality(Upto(i))]
           from == [n \in 1..m |-> CHOOSE i \in places : rank[i] = n]
<1>1. /\ DOMAIN s = 1..Len(s) /\ Len(s) \in Nat /\ places \subseteq Nat
      /\ IsFiniteSet(places) /\ m \in Nat
  <2>1. DOMAIN s = 1..Len(s) /\ Len(s) \in Nat
    BY LenProperties
  <2>2. IsFiniteSet(1..Len(s))
    BY <2>1, FS_Interval
  <2>3. IsFiniteSet(places)
    BY <2>1, <2>2, FS_Subset
  <2>. QED
    BY <2>1, <2>3, FS_CardinalityType
<1>2. \A i \in places : IsFiniteSet(Upto(i)) /\ rank[i] \in 1..m
  <2> SUFFICES ASSUME NEW i \in places PROVE IsFiniteSet(Upto(i)) /\ rank[i] \in 1..m
    OBVIOUS
  <2>1. Upto(i) \in SUBSET places /\ i \in Upto(i)
    BY <1>1
  <2> DEFINE U == Upto(i)
  <2>2. rank[i] = Cardinality(U)
    OBVIOUS
  <2> HIDE DEF rank, Upto, U
  <2>3. IsFiniteSet(U) /\ Cardinality(U) \in Nat /\ Cardinality(U) <= m
    BY <1>1, <2>1, FS_Subset, FS_CardinalityType DEF U
  <2>4. Cardinality(U) # 0
    BY <2>1, <2>3, FS_EmptySet DEF U
  <2>. QED
    BY <1>1, <2>2, <2>3, <2>4 DEF U
<1>3. \A i, j \in places : i < j => rank[i] < rank[j]
  <2> SUFFICES ASSUME NEW i \in places, NEW j \in places, i < j PROVE rank[i] < rank[j]
    OBVIOUS
  <2> DEFINE U == Upto(i)
             V == U \cup {j}
  <2>1. j \notin U /\ V \in SUBSET Upto(j)
    BY <1>1
  <2>2. IsFiniteSet(U) /\ IsFiniteSet(Upto(j)) /\ rank[i] = Cardinality(U)
        /\ rank[j] = Cardinality(Upto(j))
    BY <1>2
  <2> HIDE DEF rank, Upto, U, m
  <2>3. rank[i] \in Nat /\ rank[j] \in Nat
    BY <1>1, <1>2
  <2>4. Cardinality(V) = Cardinality(U) + 1
    BY <2>1, <2>2, FS_AddElement
  <2> HIDE DEF V
  <2>5. Cardinality(V) <= Cardinality(Upto(j))
    BY <2>1, <2>2, FS_Subset
  <2>. QED
    BY <2>2, <2>3, <2>4, <2>5
<1>4. \A i, j \in places : rank[i] = rank[j] => i = j
  <2> HIDE DEF rank, m
  <2> HIDE DEF Upto
  <2>1. \A i, j \in places : i \in Int /\ j \in Int /\ rank[i] \in Int /\ rank[j] \in Int
    BY <1>1, <1>2
  <2>. QED
    BY <1>3, <2>1
<1>5. \A n \in 1..m : \E i \in places : rank[i] = n
  <2>1. rank \in [places -> 1..m]
    BY <1>2
  <2> HIDE DEF rank
  <2>2. rank \in Injection(places, 1..m)
    BY <1>4, <2>1 DEF Injection, IsInjective
  <2>3. IsFiniteSet(1..m) /\ Cardinality(1..m) = m
    BY <1>1, FS_Interval
  <2> HIDE DEF m
  <2>4. Cardinality(places) = Cardinality(1..m)
    BY <2>3 DEF m
  <2>5. rank \in Surjection(places, 1..m)
    BY <2>2, <2>3, <2>4, FS_Injection
  <2>. QED
    BY <2>5 DEF Surjection
<1>6. \A n \in 1..m : from[n] \in places /\ rank[from[n]] = n
  <2> HIDE DEF rank, m
  <2>. QED
    BY <1>5
<1>7. Sublist(s, places) = [n \in 1..m |-> s[from[n]]]
  <2>1. \A n \in 1..m : (CHOOSE i \in places : rank[i] = n)
                        = CHOOSE i \in places : Cardinality(Upto(i)) = n
    <3>1. \A i \in places : rank[i] = Cardinality(Upto(i))
      OBVIOUS
    <3> HIDE DEF rank, Upto, m
    <3>. QED
      BY <3>1, Zenon
  <2>2. \A n \in 1..m : from[n] = CHOOSE i \in places : Cardinality(Upto(i)) = n
    <3> HIDE DEF rank, Upto, m
    <3>. QED
      BY <2>1
  <2>3. Sublist(s, places)
        = [n \in 1..m |-> s[CHOOSE i \in places : Cardinality(Upto(i)) = n]]
    BY Zenon DEF Sublist
  <2> HIDE DEF rank, from, Upto, m
  <2>. QED
    BY <2>2, <2>3
<1>8. \A i \in places : s[i] \in S
  BY <1>1, ElementOfSeq
<1>10. from \in [1..m -> places]
  <2> HIDE DEF rank
  <2>. QED
    BY <1>6
<1> HIDE DEF m, rank, Upto, from
<1>9. PICK r : r = Sublist(s, places)
  OBVIOUS
<1>11. DOMAIN r = 1..m /\ \A n \in 1..m : r[n] = s[from[n]]
  BY <1>7, <1>9
<1>12. \A i \in places : rank[i] \in 1..m /\ from[rank[i]] = i
  BY <1>2, <1>4, <1>6
<1>13. Selects(s, places, r)
  <2>1. /\ from \in [DOMAIN r -> places]
        /\ \A k, n \in DOMAIN r : from[k] = from[n] => k = n
        /\ \A i \in places : \E n \in DOMAIN r : from[n] = i
        /\ \A n \in DOMAIN r : r[n] = s[from[n]]
    BY <1>6, <1>10, <1>11, <1>12
  <2>. QED
    BY <2>1 DEF Selects
<1>14. r \in Seq(S)
  BY <1>1, <1>6, <1>7, <1>8, <1>9, IsASeq
<1>. QED
  BY <1>9, <1>13, <1>14

(* A splice takes at most one entry. *)
LEMMA SpliceSelects ==
  ASSUME NEW S, NEW s \in Seq(S), NEW slot, slot[2] \in Nat \ {0}
  PROVE  SpliceOut(s, slot) \in Seq(S) /\ \E R \in SUBSET DOMAIN s : Selects(s, R, SpliceOut(s, slot))
<1>1. CASE slot[2] <= Len(s)
  <2>1. slot[2] \in DOMAIN s /\ SpliceOut(s, slot) = RemoveAt(s, slot[2])
    BY <1>1, LenProperties DEF SpliceOut
  <2>. QED
    BY <2>1, RemoveAtSelects
<1>2. CASE ~(slot[2] <= Len(s))
  <2>1. SpliceOut(s, slot) = s
    BY <1>2 DEF SpliceOut
  <2>. QED
    BY <2>1, SelectsAll
<1>. QED
  BY <1>1, <1>2

(* What FoldLeft runs through. *)
Splicing(h, s, slots) ==
  h = [t \in SUBSET DOMAIN slots |->
        IF t = {} THEN s ELSE SpliceOut(h[t \ {Max(t)}], slots[Max(t)])]

LEMMA SplicesRun ==
  ASSUME NEW S, NEW s \in Seq(S), NEW slots, IsFiniteSet(DOMAIN slots),
         DOMAIN slots \subseteq Int, \A n \in DOMAIN slots : slots[n][2] \in Nat \ {0}
  PROVE  \E h : /\ Splicing(h, s, slots)
                /\ FoldLeft(SpliceOut, s, slots) = h[DOMAIN slots]
                /\ \A t \in SUBSET DOMAIN slots :
                     h[t] \in Seq(S) /\ \E R \in SUBSET DOMAIN s : Selects(s, R, h[t])
<1> DEFINE D == DOMAIN slots
           V == {r \in Seq(S) : \E R \in SUBSET DOMAIN s : Selects(s, R, r)}
<1>1. \A t \in SUBSET D : t # {} => Max(t) \in t
  <2> SUFFICES ASSUME NEW t \in SUBSET D, t # {} PROVE Max(t) \in t
    OBVIOUS
  <2>1. \E x \in t : \A y \in t : x >= y
    <3>1. IsFiniteSet(t) /\ t \in SUBSET Int
      BY FS_Subset
    <3>. QED
      BY <3>1, GreatestOne
  <2>. QED
    BY <2>1 DEF Max
<1>2. s \in V
  BY SelectsAll
<1>3. PICK pick : pick = [t \in SUBSET D |-> Max(t)]
  OBVIOUS
<1>4. PICK step : step = [p \in D \X V |-> SpliceOut(p[2], slots[p[1]])]
  OBVIOUS
<1>5. \A t \in SUBSET D : pick[t] = Max(t) /\ (t # {} => pick[t] \in t)
  BY <1>1, <1>3
<1>6. \A x \in D : \A v \in V : step[<<x, v>>] = SpliceOut(v, slots[x]) /\ step[<<x, v>>] \in V
  <2> SUFFICES ASSUME NEW x \in D, NEW v \in V
               PROVE  step[<<x, v>>] = SpliceOut(v, slots[x]) /\ step[<<x, v>>] \in V
    OBVIOUS
  <2>1. step[<<x, v>>] = SpliceOut(v, slots[x])
    BY <1>4
  <2>2. PICK R \in SUBSET DOMAIN s : Selects(s, R, v)
    OBVIOUS
  <2>3. SpliceOut(v, slots[x]) \in Seq(S)
        /\ \E Q \in SUBSET DOMAIN v : Selects(v, Q, SpliceOut(v, slots[x]))
    BY SpliceSelects
  <2>4. \E Q \in SUBSET R : Selects(s, Q, SpliceOut(v, slots[x]))
    BY <2>2, <2>3, SelectsFrom
  <2>. QED
    BY <2>1, <2>3, <2>4
<1> HIDE DEF V
<1>7. /\ IsFiniteSet(D) /\ s \in V
      /\ \A t \in SUBSET D : t # {} => pick[t] \in t
      /\ \A x \in D : \A v \in V : step[<<x, v>>] \in V
  BY <1>2, <1>5, <1>6
<1> HIDE DEF D
<1>8. PICK g : Recurs(g, D, s, pick, step)
  BY <1>7, Recursion
<1>9. g \in [SUBSET D -> V]
  BY <1>7, <1>8, RecursionStays
<1>10. \A t \in SUBSET D : g[t] = IF t = {} THEN s ELSE SpliceOut(g[t \ {Max(t)}], slots[Max(t)])
  <2>1. \A t \in SUBSET D : g[t] = IF t = {} THEN s ELSE step[<<Max(t), g[t \ {Max(t)}]>>]
    BY <1>5, <1>8 DEF Recurs
  <2>2. \A t \in SUBSET D : t # {} => Max(t) \in D /\ g[t \ {Max(t)}] \in V
    BY <1>1, <1>9 DEF D
  <2>. QED
    BY <1>6, <2>1, <2>2
<1>11. g = [t \in SUBSET D |-> IF t = {} THEN s ELSE SpliceOut(g[t \ {Max(t)}], slots[Max(t)])]
  BY <1>9, <1>10
<1> DEFINE iter == CHOOSE h : h = [t \in SUBSET D |->
                     IF t = {} THEN s ELSE SpliceOut(h[t \ {Max(t)}], slots[Max(t)])]
<1>12. FoldLeft(SpliceOut, s, slots) = iter[D]
  BY Zenon DEF FoldLeft, MapThenFoldSet, D
<1>13. iter = [t \in SUBSET D |->
                 IF t = {} THEN s ELSE SpliceOut(iter[t \ {Max(t)}], slots[Max(t)])]
  BY <1>11
<1> HIDE DEF iter
<1>14. \A t \in SUBSET D :
         iter[t] = IF t = {} THEN s ELSE SpliceOut(iter[t \ {Max(t)}], slots[Max(t)])
  BY <1>13
<1>15. iter \in [SUBSET D -> V]
  <2> DEFINE Good == {t \in SUBSET D : iter[t] \in V}
  <2>1. {} \in Good
    BY <1>2, <1>14
  <2>2. \A t \in SUBSET D : t # {} /\ (\A y \in t : t \ {y} \in Good) => t \in Good
    <3> SUFFICES ASSUME NEW t \in SUBSET D, t # {}, \A y \in t : t \ {y} \in Good
                 PROVE  t \in Good
      OBVIOUS
    <3>1. Max(t) \in t /\ Max(t) \in D
      BY <1>1 DEF D
    <3>2. iter[t \ {Max(t)}] \in V
      BY <3>1
    <3>3. iter[t] = step[<<Max(t), iter[t \ {Max(t)}]>>]
      BY <1>6, <1>14, <3>1, <3>2
    <3>. QED
      BY <1>6, <3>1, <3>2, <3>3
  <2> HIDE DEF Good
  <2>3. Good = SUBSET D
    <3>1. Good \in SUBSET (SUBSET D)
      BY DEF Good
    <3>. QED
      BY <1>7, <2>1, <2>2, <3>1, Enlarging
  <2>. QED
    BY <1>13, <2>3 DEF Good
<1>16. Splicing(iter, s, slots)
  BY <1>13 DEF Splicing, D
<1>17. \A t \in SUBSET D : iter[t] \in Seq(S) /\ \E R \in SUBSET DOMAIN s : Selects(s, R, iter[t])
  BY <1>15 DEF V
<1>. QED
  BY <1>12, <1>16, <1>17 DEF D

LEMMA OneSplice ==
  ASSUME NEW S, NEW s \in Seq(S), NEW slots, DOMAIN slots \subseteq {1},
         \A n \in DOMAIN slots : slots[n][2] \in Nat \ {0}
  PROVE  /\ DOMAIN slots = {} => FoldLeft(SpliceOut, s, slots) = s
         /\ DOMAIN slots = {1} => FoldLeft(SpliceOut, s, slots) = SpliceOut(s, slots[1])
<1>1. IsFiniteSet(DOMAIN slots) /\ DOMAIN slots \subseteq Int
  <2>1. IsFiniteSet({}) /\ IsFiniteSet({1})
    BY FS_EmptySet, FS_Singleton
  <2>2. CASE DOMAIN slots = {}
    BY <2>1, <2>2
  <2>3. CASE DOMAIN slots = {1}
    BY <2>1, <2>3
  <2>. QED
    BY <2>2, <2>3
<1>2. PICK h : /\ Splicing(h, s, slots)
               /\ FoldLeft(SpliceOut, s, slots) = h[DOMAIN slots]
  BY <1>1, SplicesRun
<1>3. \A t \in SUBSET DOMAIN slots :
        h[t] = IF t = {} THEN s ELSE SpliceOut(h[t \ {Max(t)}], slots[Max(t)])
  BY <1>2 DEF Splicing
<1>4. h[{}] = s
  BY <1>3
<1>5. CASE DOMAIN slots = {1}
  <2>1. Max({1}) = 1
    BY DEF Max
  <2>2. h[{1}] = SpliceOut(h[{1} \ {1}], slots[1])
    BY <1>3, <1>5, <2>1
  <2>3. {1} \ {1} = {}
    OBVIOUS
  <2>. QED
    BY <1>2, <1>4, <1>5, <2>2, <2>3
<1>. QED
  BY <1>2, <1>4, <1>5

(* Doubling from 1 reaches every number. *)
LEMMA PowersExist ==
  ASSUME NEW n \in Nat
  PROVE  \E power \in [0..n -> Nat] :
           power = [k \in 0..n |-> IF k = 0 THEN 1 ELSE 2 * power[k - 1]]
<1> DEFINE Solves(f, m) == \A k \in 0..m : f[k] = IF k = 0 THEN 1 ELSE 2 * f[k - 1]
           Good == {m \in Nat : \E f \in [0..m -> Nat] : Solves(f, m)}
<1>1. 0 \in Good
  <2> DEFINE f == [k \in 0..0 |-> 1]
  <2>1. f \in [0..0 -> Nat] /\ Solves(f, 0)
    OBVIOUS
  <2>. QED
    BY <2>1
<1>2. \A m \in Good : m + 1 \in Good
  <2> SUFFICES ASSUME NEW m \in Good PROVE m + 1 \in Good
    OBVIOUS
  <2>1. m \in Nat
    OBVIOUS
  <2>2. PICK f \in [0..m -> Nat] : Solves(f, m)
    OBVIOUS
  <2> DEFINE g == [k \in 0..(m + 1) |-> IF k = 0 THEN 1 ELSE 2 * f[k - 1]]
  <2>3. \A k \in 0..(m + 1) : k # 0 => k - 1 \in 0..m /\ f[k - 1] \in Nat
    BY <2>1
  <2>4. g \in [0..(m + 1) -> Nat]
    BY <2>3
  <2>5. \A k \in 0..m : k \in 0..(m + 1) /\ g[k] = f[k]
    BY <2>1, <2>2
  <2>6. Solves(g, m + 1)
    BY <2>3, <2>5
  <2> HIDE DEF g, Solves
  <2>. QED
    BY <2>1, <2>4, <2>6
<1> HIDE DEF Good
<1>3. Good = Nat
  <2>1. Good \subseteq Nat
    BY DEF Good
  <2>. QED
    BY <1>1, <1>2, <2>1, Counting
<1>4. PICK f \in [0..n -> Nat] : \A k \in 0..n : f[k] = IF k = 0 THEN 1 ELSE 2 * f[k - 1]
  BY <1>3 DEF Good
<1>5. f = [k \in 0..n |-> IF k = 0 THEN 1 ELSE 2 * f[k - 1]]
  BY <1>4
<1>. QED
  BY <1>5

(* Rounding up gives a size that is no smaller. *)
LEMMA RoundsUp ==
  ASSUME NEW n \in Nat
  PROVE  RoundUpToPowerOf2(n) \in Nat /\ n <= RoundUpToPowerOf2(n)
<1> DEFINE power == CHOOSE f : f = [k \in 0..n |-> IF k = 0 THEN 1 ELSE 2 * f[k - 1]]
<1>1. PICK f \in [0..n -> Nat] : f = [k \in 0..n |-> IF k = 0 THEN 1 ELSE 2 * f[k - 1]]
  BY PowersExist
<1>2. power = [k \in 0..n |-> IF k = 0 THEN 1 ELSE 2 * power[k - 1]]
  BY <1>1
<1>3. PowersOf2(n) = {power[k] : k \in 0..n}
  BY Zenon DEF PowersOf2
<1> HIDE DEF power
<1>4. \A k \in 0..n : power[k] = IF k = 0 THEN 1 ELSE 2 * power[k - 1]
  BY <1>2
<1>5. \A k \in 0..n : power[k] \in Nat /\ power[k] > k
  <2> DEFINE Good == {k \in Nat : k <= n => power[k] \in Nat /\ power[k] > k}
  <2>1. 0 \in Good
    BY <1>4
  <2>2. \A k \in Good : k + 1 \in Good
    <3> SUFFICES ASSUME NEW k \in Good, k + 1 <= n
                 PROVE  power[k + 1] \in Nat /\ power[k + 1] > k + 1
      OBVIOUS
    <3>1. k \in Nat /\ k + 1 \in 0..n /\ k + 1 # 0 /\ (k + 1) - 1 = k
      OBVIOUS
    <3>2. power[k + 1] = 2 * power[k]
      BY <1>4, <3>1
    <3>3. power[k] \in Nat /\ power[k] > k
      BY <3>1
    <3>. QED
      BY <3>1, <3>2, <3>3
  <2> HIDE DEF Good
  <2>3. Good = Nat
    <3>1. Good \subseteq Nat
      BY DEF Good
    <3>. QED
      BY <2>1, <2>2, <3>1, Counting
  <2>. QED
    BY <2>3 DEF Good
<1>6. CASE n > 0
  <2> DEFINE Enough == {k \in 0..n : n <= power[k]}
  <2>1. n \in Enough
    BY <1>5
  <2>2. PICK k \in Enough : \A j \in Enough : ~(j < k)
    <3>1. Enough \in SUBSET Nat /\ Enough # {}
      BY <2>1
    <3>2. \A x, y \in Nat : x <= y => ~(y < x)
      OBVIOUS
    <3> HIDE DEF Enough
    <3>. QED
      BY <3>1, <3>2, LeastOne
  <2>3. k \in 0..n /\ n <= power[k] /\ power[k] \in Nat
    BY <1>5, <2>2
  <2>4. power[k] < 2 * n
    <3>1. CASE k = 0
      BY <1>4, <1>6, <2>3, <3>1
    <3>2. CASE k # 0
      <4>1. k - 1 \in 0..n /\ power[k] = 2 * power[k - 1] /\ power[k - 1] \in Nat
        BY <1>4, <1>5, <2>3, <3>2
      <4>2. ~(n <= power[k - 1])
        BY <2>2, <4>1
      <4>. QED
        BY <4>1, <4>2
    <3>. QED
      BY <3>1, <3>2
  <2>5. \E p \in PowersOf2(n) : n <= p /\ p < 2 * n
    BY <1>3, <2>3, <2>4
  <2>6. PICK p \in PowersOf2(n) : p = RoundUpToPowerOf2(n) /\ n <= p
    BY <1>6, <2>5 DEF RoundUpToPowerOf2
  <2>7. p \in Nat
    BY <1>3, <1>5, <2>6
  <2>. QED
    BY <2>6, <2>7
<1>7. CASE n = 0
  BY <1>7 DEF RoundUpToPowerOf2
<1>. QED
  BY <1>6, <1>7

(* The classes have sizes that suffice for what they are asked for. *)
LEMMA KeyFits ==
  ASSUME NEW size \in Sizes, NEW usage \in Usages
  PROVE  /\ KeyOf(size, usage) \in Keys
         /\ SizeOf(KeyOf(size, usage)) \in Nat /\ size \in Nat
         /\ size <= SizeOf(KeyOf(size, usage))
<1>1. size \in Nat
  BY PoolAssumption DEF PoolAssumption
<1>2. KeyOf(size, usage) \in Keys
  BY DEF Keys
<1>. QED
  BY <1>1, <1>2, RoundsUp DEF KeyOf, SizeOf

-----------------------------------------------------------------------------
(* The pool *)

Acquired == [buffer : Buffers, size : Sizes]
Holds(h, b) == \E c \in Callers : h[c] # Nothing /\ h[c].buffer = b

(* Every entry has a buffer of its own and is in use while that is held, by *)
(* one caller.                                                              *)
PoolInv(pool, h) ==
  /\ pool \in [Keys -> Seq(Entries)]
  /\ h \in [Callers -> Acquired \cup {Nothing}]
  /\ \A k, l \in Keys : \A i \in DOMAIN pool[k] : \A j \in DOMAIN pool[l] :
       pool[k][i].buffer = pool[l][j].buffer => k = l /\ i = j
  /\ \A k \in Keys : \A i \in DOMAIN pool[k] :
       pool[k][i].inUse <=> Holds(h, pool[k][i].buffer)
  /\ \A c, d \in Callers :
       h[c] # Nothing /\ h[d] # Nothing /\ h[c].buffer = h[d].buffer => c = d

(* The buffers that exist are those of the entries, with the sizes of their *)
(* classes, and are counted.                                                *)
BytesInv(pool, mem, total) ==
  /\ Memory(mem) /\ DOMAIN mem \subseteq Buffers
  /\ \A k \in Keys : \A i \in DOMAIN pool[k] :
       pool[k][i].buffer \in DOMAIN mem /\ mem[pool[k][i].buffer] = SizeOf(k)
  /\ \A b \in DOMAIN mem : \E k \in Keys : \E i \in DOMAIN pool[k] : pool[k][i].buffer = b
  /\ total = BytesOf(mem)

LEMMA EntryType ==
  ASSUME NEW pool \in [Keys -> Seq(Entries)], NEW k \in Keys, NEW i \in DOMAIN pool[k]
  PROVE  /\ pool[k] \in Seq(Entries) /\ DOMAIN pool[k] = 1..Len(pool[k]) /\ Len(pool[k]) \in Nat
         /\ pool[k][i] \in Entries /\ i \in Nat \ {0}
<1>1. pool[k] \in Seq(Entries)
  OBVIOUS
<1>2. DOMAIN pool[k] = 1..Len(pool[k]) /\ Len(pool[k]) \in Nat
  BY <1>1, LenProperties
<1>. QED
  BY <1>1, <1>2, ElementOfSeq

(* A pool whose lists are taken from those of the pool. *)
LEMMA PoolKept ==
  ASSUME NEW pool, NEW h, PoolInv(pool, h), NEW new \in [Keys -> Seq(Entries)],
         \A k \in Keys : \E R \in SUBSET DOMAIN pool[k] : Selects(pool[k], R, new[k])
  PROVE  PoolInv(new, h)
<1>1. \A k \in Keys : \A n \in DOMAIN new[k] : \E i \in DOMAIN pool[k] : new[k][n] = pool[k][i]
  BY DEF Selects
<1>2. ASSUME NEW k \in Keys, NEW l \in Keys, NEW m \in DOMAIN new[k], NEW n \in DOMAIN new[l],
             new[k][m].buffer = new[l][n].buffer
      PROVE  k = l /\ m = n
  <2>1. k = l
    BY <1>1, <1>2 DEF PoolInv
  <2>2. PICK R \in SUBSET DOMAIN pool[k] : Selects(pool[k], R, new[k])
    OBVIOUS
  <2>3. PICK from \in [DOMAIN new[k] -> R] :
          /\ \A x, y \in DOMAIN new[k] : from[x] = from[y] => x = y
          /\ \A x \in DOMAIN new[k] : new[k][x] = pool[k][from[x]]
    BY <2>2 DEF Selects
  <2>4. n \in DOMAIN new[k] /\ new[k][m].buffer = new[k][n].buffer
    BY <1>2, <2>1
  <2>5. from[m] \in DOMAIN pool[k] /\ from[n] \in DOMAIN pool[k]
    BY <2>4
  <2>6. from[m] = from[n]
    BY <2>3, <2>4, <2>5 DEF PoolInv
  <2>. QED
    BY <2>1, <2>3, <2>4, <2>6
<1>3. \A k \in Keys : \A n \in DOMAIN new[k] : new[k][n].inUse <=> Holds(h, new[k][n].buffer)
  BY <1>1 DEF PoolInv
<1>. QED
  BY <1>2, <1>3 DEF PoolInv

(* A pool with the same buffers in the same places. *)
Shaped(new, pool) == new = [k \in Keys |-> [i \in DOMAIN pool[k] |-> new[k][i]]]

LEMMA PoolSame ==
  ASSUME NEW pool, NEW h, PoolInv(pool, h), NEW g \in [Callers -> Acquired \cup {Nothing}],
         NEW new, Shaped(new, pool),
         \A k \in Keys : \A i \in DOMAIN pool[k] :
           /\ new[k][i] \in Entries /\ new[k][i].buffer = pool[k][i].buffer
           /\ new[k][i].inUse <=> Holds(g, pool[k][i].buffer),
         \A c, d \in Callers :
           g[c] # Nothing /\ g[d] # Nothing /\ g[c].buffer = g[d].buffer => c = d
  PROVE  PoolInv(new, g) /\ \A mem, total : BytesInv(pool, mem, total) => BytesInv(new, mem, total)
<1>1. \A k \in Keys : /\ DOMAIN new[k] = DOMAIN pool[k]
                      /\ new[k] = [i \in DOMAIN pool[k] |-> new[k][i]]
  BY DEF Shaped
<1>0. \A k \in Keys : DOMAIN new[k] = DOMAIN pool[k]
  BY <1>1
<1>2. \A k \in Keys : new[k] \in Seq(Entries)
  <2> SUFFICES ASSUME NEW k \in Keys PROVE new[k] \in Seq(Entries)
    OBVIOUS
  <2>1. /\ DOMAIN pool[k] = 1..Len(pool[k]) /\ Len(pool[k]) \in Nat
        /\ new[k] = [i \in DOMAIN pool[k] |-> new[k][i]]
    BY <1>1, LenProperties DEF PoolInv
  <2>2. PICK s, n : s = new[k] /\ n = Len(pool[k])
    OBVIOUS
  <2>3. s = [i \in 1..n |-> s[i]] /\ \A i \in 1..n : s[i] \in Entries
    BY <2>1, <2>2
  <2>4. s \in [1..n -> Entries] /\ n \in Nat
    BY <2>1, <2>2, <2>3
  <2>. QED
    BY <2>2, <2>4, SeqDef
<1>3. new \in [Keys -> Seq(Entries)]
  BY <1>2 DEF Shaped
<1>4. PoolInv(new, g)
  BY <1>0, <1>3 DEF PoolInv
<1>5. ASSUME NEW mem, NEW total, BytesInv(pool, mem, total) PROVE BytesInv(new, mem, total)
  <2>1. \A k \in Keys : \A i \in DOMAIN new[k] :
          new[k][i].buffer \in DOMAIN mem /\ mem[new[k][i].buffer] = SizeOf(k)
    BY <1>0, <1>5 DEF BytesInv
  <2>2. \A b \in DOMAIN mem : \E k \in Keys : \E i \in DOMAIN new[k] : new[k][i].buffer = b
    <3>1. \A b \in DOMAIN mem : \E k \in Keys : \E i \in DOMAIN pool[k] : pool[k][i].buffer = b
      BY <1>5 DEF BytesInv
    <3>. QED
      BY <1>0, <3>1
  <2>. QED
    BY <1>5, <2>1, <2>2 DEF BytesInv
<1>. QED
  BY <1>4, <1>5

(* The places that are given up, with their buffers. *)
LEMMA BytesKept ==
  ASSUME NEW pool, NEW h, PoolInv(pool, h), NEW mem, NEW total, BytesInv(pool, mem, total),
         NEW new \in [Keys -> Seq(Entries)], NEW keep,
         \A k \in Keys : keep[k] \in SUBSET DOMAIN pool[k] /\ Selects(pool[k], keep[k], new[k]),
         NEW lost,
         \A p \in lost : p = <<p[1], p[2]>> /\ p[1] \in Keys /\ p[2] \in DOMAIN pool[p[1]] \ keep[p[1]],
         \A k \in Keys : \A i \in DOMAIN pool[k] \ keep[k] : <<k, i>> \in lost,
         NEW gone, gone = {pool[p[1]][p[2]].buffer : p \in lost}
  PROVE  BytesInv(new, Without(mem, gone), total - BytesIn(lost))
<1>1. PICK to : to = [p \in lost |-> pool[p[1]][p[2]].buffer]
  OBVIOUS
<1>2. \A p \in lost : /\ to[p] = pool[p[1]][p[2]].buffer /\ to[p] \in DOMAIN mem
                      /\ mem[to[p]] = SizeOf(p[1])
  BY <1>1 DEF BytesInv
<1>3. to \in [lost -> DOMAIN mem] /\ gone = {to[p] : p \in lost}
  BY <1>1, <1>2
<1>4. \A p, q \in lost : to[p] = to[q] => p = q
  BY <1>2 DEF PoolInv
<1>5. PICK rest : rest = Without(mem, gone)
  OBVIOUS
<1>6. Memory(rest) /\ BytesOf(rest) = BytesOf(mem) - BytesIn(lost)
  <2>1. Memory(mem)
    BY DEF BytesInv
  <2>2. \A p \in lost : mem[to[p]] = SizeOf(p[1])
    BY <1>2
  <2>. QED
    BY <1>3, <1>4, <1>5, <2>1, <2>2, BytesFreed
<1>7. DOMAIN rest = DOMAIN mem \ gone /\ \A b \in DOMAIN rest : rest[b] = mem[b]
  BY <1>5 DEF Without
<1>8. ASSUME NEW k \in Keys
      PROVE  /\ \A n \in DOMAIN new[k] : \E i \in keep[k] : new[k][n] = pool[k][i]
             /\ \A i \in keep[k] : \E n \in DOMAIN new[k] : new[k][n] = pool[k][i]
  <2>1. PICK from \in [DOMAIN new[k] -> keep[k]] :
          /\ \A i \in keep[k] : \E n \in DOMAIN new[k] : from[n] = i
          /\ \A n \in DOMAIN new[k] : new[k][n] = pool[k][from[n]]
    BY DEF Selects
  <2>. QED
    BY <2>1
<1>9. \A k \in Keys : \A i \in keep[k] : i \in DOMAIN pool[k]
  OBVIOUS
<1>10. \A k \in Keys : \A i \in keep[k] : pool[k][i].buffer \notin gone
  BY <1>2, <1>3 DEF PoolInv
<1>13. \A k \in Keys : \A i \in keep[k] :
         pool[k][i].buffer \in DOMAIN rest /\ rest[pool[k][i].buffer] = SizeOf(k)
  BY <1>7, <1>9, <1>10 DEF BytesInv
<1>14. \A k \in Keys : \A n \in DOMAIN new[k] : \E i \in keep[k] : new[k][n] = pool[k][i]
  BY <1>8
<1>11. \A k \in Keys : \A n \in DOMAIN new[k] :
         new[k][n].buffer \in DOMAIN rest /\ rest[new[k][n].buffer] = SizeOf(k)
  BY <1>13, <1>14
<1>12. \A b \in DOMAIN rest : \E k \in Keys : \E n \in DOMAIN new[k] : new[k][n].buffer = b
  <2> SUFFICES ASSUME NEW b \in DOMAIN rest
               PROVE  \E k \in Keys : \E n \in DOMAIN new[k] : new[k][n].buffer = b
    OBVIOUS
  <2>1. PICK k \in Keys : \E i \in DOMAIN pool[k] : pool[k][i].buffer = b
    BY <1>7 DEF BytesInv
  <2>2. PICK i \in DOMAIN pool[k] : pool[k][i].buffer = b
    BY <2>1
  <2>3. i \in keep[k]
    <3>1. SUFFICES ASSUME i \notin keep[k] PROVE FALSE
      OBVIOUS
    <3>2. <<k, i>> \in lost
      BY <3>1
    <3>3. to[<<k, i>>] = b
      BY <1>1, <2>2, <3>2
    <3>. QED
      BY <1>3, <1>7, <3>2, <3>3
  <2>. QED
    BY <1>8, <2>2, <2>3
<1>15. BytesInv(new, rest, total - BytesIn(lost))
  BY <1>6, <1>7, <1>11, <1>12 DEF BytesInv
<1>. QED
  BY <1>5, <1>15

(* A new buffer in the pool, and with whom acquired it. *)
Grown(new, pool, key, b) ==
  new = [pool EXCEPT ![key] = Append(@, [buffer |-> b, inUse |-> TRUE, age |-> 0])]
Took(g, h, c, b, size) == g = [h EXCEPT ![c] = [buffer |-> b, size |-> size]]

LEMMA PoolGrown ==
  ASSUME NEW pool, NEW h, PoolInv(pool, h), NEW c \in Callers, h[c] = Nothing,
         NEW key \in Keys, NEW b \in Buffers, NEW size \in Sizes, ~Holds(h, b),
         \A k \in Keys : \A i \in DOMAIN pool[k] : pool[k][i].buffer # b,
         NEW new, Grown(new, pool, key, b), NEW g, Took(g, h, c, b, size)
  PROVE  /\ PoolInv(new, g)
         /\ \A k \in Keys : DOMAIN pool[k] \subseteq DOMAIN new[k]
         /\ \A k \in Keys : \A i \in DOMAIN pool[k] : new[k][i] = pool[k][i]
         /\ \E j \in DOMAIN new[key] : /\ new[key][j].buffer = b
                                       /\ \A i \in DOMAIN new[key] : i = j \/ i \in DOMAIN pool[key]
         /\ \A k \in Keys : k # key => DOMAIN new[k] = DOMAIN pool[k]
<1>0. PICK e : e = [buffer |-> b, inUse |-> TRUE, age |-> 0]
  OBVIOUS
<1>1. e \in Entries /\ e.buffer = b /\ e.inUse = TRUE
  BY <1>0, PoolAssumption DEF PoolAssumption, Entries
<1>2. PICK s : s = pool[key]
  OBVIOUS
<1>3. PICK l : l = Len(s)
  OBVIOUS
<1>4. s \in Seq(Entries) /\ l \in Nat /\ DOMAIN s = 1..l
  BY <1>2, <1>3, LenProperties DEF PoolInv
<1>5. /\ Append(s, e) \in Seq(Entries) /\ DOMAIN Append(s, e) = 1..(l + 1)
      /\ \A i \in 1..l : Append(s, e)[i] = s[i]
      /\ Append(s, e)[l + 1] = e
  BY <1>1, <1>3, <1>4, AppendProperties, LenProperties
<1>6. /\ new \in [Keys -> Seq(Entries)] /\ new[key] = Append(s, e)
      /\ \A k \in Keys : k # key => new[k] = pool[k]
  BY <1>0, <1>2, <1>5 DEF PoolInv, Grown
<1>7. /\ \A k \in Keys : DOMAIN pool[k] \subseteq DOMAIN new[k]
      /\ \A k \in Keys : \A i \in DOMAIN pool[k] : new[k][i] = pool[k][i]
  <2>1. DOMAIN pool[key] \subseteq DOMAIN new[key]
        /\ \A i \in DOMAIN pool[key] : new[key][i] = pool[key][i]
    BY <1>2, <1>4, <1>5, <1>6
  <2>. QED
    BY <1>6, <2>1
<1>8. /\ l + 1 \in DOMAIN new[key] /\ new[key][l + 1] = e
      /\ \A k \in Keys : \A i \in DOMAIN new[k] : i \in DOMAIN pool[k] \/ (k = key /\ i = l + 1)
  BY <1>2, <1>4, <1>5, <1>6
<1>9. PICK a : a = [buffer |-> b, size |-> size]
  OBVIOUS
<1>10. a \in Acquired /\ a.buffer = b /\ a # Nothing
  BY <1>9, PoolAssumption DEF PoolAssumption, Acquired
<1>11. /\ g \in [Callers -> Acquired \cup {Nothing}] /\ g[c] = a
       /\ \A d \in Callers : d # c => g[d] = h[d]
  BY <1>9, <1>10 DEF PoolInv, Took
<1>12. \A x : x # b => (Holds(g, x) <=> Holds(h, x))
  BY <1>10, <1>11 DEF Holds
<1>13. Holds(g, b)
  BY <1>10, <1>11 DEF Holds
<1>14. \A k \in Keys : \A i \in DOMAIN new[k] : new[k][i].inUse <=> Holds(g, new[k][i].buffer)
  <2> SUFFICES ASSUME NEW k \in Keys, NEW i \in DOMAIN new[k]
               PROVE  new[k][i].inUse <=> Holds(g, new[k][i].buffer)
    OBVIOUS
  <2>1. CASE i \in DOMAIN pool[k]
    <3>1. new[k][i] = pool[k][i] /\ pool[k][i].buffer # b
      BY <1>7, <2>1
    <3>2. pool[k][i].inUse <=> Holds(h, pool[k][i].buffer)
      BY <2>1 DEF PoolInv
    <3>. QED
      BY <1>12, <3>1, <3>2
  <2>2. CASE k = key /\ i = l + 1
    BY <1>1, <1>8, <1>13, <2>2
  <2>. QED
    BY <1>8, <2>1, <2>2
<1>15. \A k, m \in Keys : \A i \in DOMAIN new[k] : \A j \in DOMAIN new[m] :
         new[k][i].buffer = new[m][j].buffer => k = m /\ i = j
  <2> SUFFICES ASSUME NEW k \in Keys, NEW m \in Keys, NEW i \in DOMAIN new[k], NEW j \in DOMAIN new[m],
                      new[k][i].buffer = new[m][j].buffer
               PROVE  k = m /\ i = j
    OBVIOUS
  <2>1. CASE i \in DOMAIN pool[k] /\ j \in DOMAIN pool[m]
    BY <1>7, <2>1 DEF PoolInv
  <2>2. CASE i \in DOMAIN pool[k] /\ m = key /\ j = l + 1
    BY <1>1, <1>7, <1>8, <2>2
  <2>3. CASE j \in DOMAIN pool[m] /\ k = key /\ i = l + 1
    BY <1>1, <1>7, <1>8, <2>3
  <2>. QED
    BY <1>8, <2>1, <2>2, <2>3
<1>16. \A d, f \in Callers :
         g[d] # Nothing /\ g[f] # Nothing /\ g[d].buffer = g[f].buffer => d = f
  BY <1>10, <1>11 DEF PoolInv, Holds
<1>17. PoolInv(new, g)
  BY <1>6, <1>11, <1>14, <1>15, <1>16 DEF PoolInv
<1>. QED
  BY <1>1, <1>6, <1>7, <1>8, <1>17

LEMMA BytesGrown ==
  ASSUME NEW pool, NEW mem, NEW total, BytesInv(pool, mem, total),
         NEW key \in Keys, SizeOf(key) \in Nat, NEW b \in Buffers, b \notin DOMAIN mem, NEW new,
         \A k \in Keys : DOMAIN pool[k] \subseteq DOMAIN new[k],
         \A k \in Keys : \A i \in DOMAIN pool[k] : new[k][i] = pool[k][i],
         NEW j \in DOMAIN new[key], new[key][j].buffer = b,
         \A i \in DOMAIN new[key] : i = j \/ i \in DOMAIN pool[key],
         \A k \in Keys : k # key => DOMAIN new[k] = DOMAIN pool[k],
         NEW more, more = [x \in DOMAIN mem \cup {b} |-> IF x = b THEN SizeOf(key) ELSE mem[x]]
  PROVE  BytesInv(new, more, total + SizeOf(key))
<1>1. Memory(more) /\ BytesOf(more) = BytesOf(mem) + SizeOf(key)
  <2>1. Memory(mem)
    BY DEF BytesInv
  <2>. QED
    BY <2>1, BytesTaken
<1>2. DOMAIN more = DOMAIN mem \cup {b} /\ more[b] = SizeOf(key) /\ \A x \in DOMAIN mem : more[x] = mem[x]
  OBVIOUS
<1>3. \A k \in Keys : \A i \in DOMAIN new[k] : i \in DOMAIN pool[k] \/ (k = key /\ i = j)
  OBVIOUS
<1>4. \A k \in Keys : \A i \in DOMAIN pool[k] :
        new[k][i].buffer \in DOMAIN more /\ more[new[k][i].buffer] = SizeOf(k)
  BY <1>2 DEF BytesInv
<1>5. \A k \in Keys : \A i \in DOMAIN new[k] :
        new[k][i].buffer \in DOMAIN more /\ more[new[k][i].buffer] = SizeOf(k)
  BY <1>2, <1>3, <1>4
<1>6. \A x \in DOMAIN more : \E k \in Keys : \E i \in DOMAIN new[k] : new[k][i].buffer = x
  <2>1. \A x \in DOMAIN mem : \E k \in Keys : \E i \in DOMAIN new[k] : new[k][i].buffer = x
    BY DEF BytesInv
  <2>. QED
    BY <1>2, <2>1
<1>. QED
  BY <1>1, <1>2, <1>5, <1>6 DEF BytesInv

(* What is evicted for its age is held by nobody. *)
LEMMA EvictOldStep ==
  ASSUME NEW pool, NEW h, PoolInv(pool, h), NEW mem, NEW total, EvictOldBuffers(pool, mem, total)
  PROVE  /\ PoolInv(buffers', h)
         /\ BytesInv(pool, mem, total) => BytesInv(buffers', memory', currentCacheSize')
         /\ \A b \in DOMAIN mem : Holds(h, b) => b \in DOMAIN memory' /\ memory'[b] = mem[b]
<1> DEFINE old == UNION {{<<k, i>> : i \in {j \in DOMAIN pool[k] : Evictable(pool[k][j])}} : k \in Keys}
           gone == {pool[slot[1]][slot[2]].buffer : slot \in old}
<1>1. PICK lost : lost = old
  OBVIOUS
<1>2. PICK lostBuffers : lostBuffers = gone
  OBVIOUS
<1>3. /\ buffers' = [k \in Keys |-> Sublist(pool[k], Staying(pool[k]))]
      /\ memory' = Without(mem, lostBuffers)
      /\ currentCacheSize' = total - BytesIn(lost)
  BY <1>1, <1>2, Zenon DEF EvictOldBuffers
<1>4. PICK new : new = buffers'
  OBVIOUS
<1>5. PICK keep : keep = [k \in Keys |-> Staying(pool[k])]
  OBVIOUS
<1>6. ASSUME NEW k \in Keys
      PROVE  /\ keep[k] \in SUBSET DOMAIN pool[k]
             /\ new[k] \in Seq(Entries) /\ Selects(pool[k], keep[k], new[k])
  <2>1. keep[k] = Staying(pool[k]) /\ new[k] = Sublist(pool[k], keep[k])
    BY <1>3, <1>4, <1>5
  <2>2. keep[k] \in SUBSET DOMAIN pool[k] /\ pool[k] \in Seq(Entries)
    BY <2>1 DEF Staying, PoolInv
  <2>. QED
    BY <2>1, <2>2, SublistSelects
<1>7. new \in [Keys -> Seq(Entries)]
  BY <1>3, <1>4, <1>6
<1>8. PoolInv(new, h)
  BY <1>6, <1>7, PoolKept
<1>9. /\ \A p \in lost : /\ p = <<p[1], p[2]>> /\ p[1] \in Keys
                         /\ p[2] \in DOMAIN pool[p[1]] \ keep[p[1]]
      /\ \A k \in Keys : \A i \in DOMAIN pool[k] \ keep[k] : <<k, i>> \in lost
  BY <1>1, <1>5 DEF Staying
<1>10. lostBuffers = {pool[p[1]][p[2]].buffer : p \in lost}
  BY <1>1, <1>2
<1>11. ASSUME BytesInv(pool, mem, total) PROVE BytesInv(buffers', memory', currentCacheSize')
  BY <1>3, <1>4, <1>6, <1>7, <1>9, <1>10, <1>11, BytesKept
<1>12. \A b \in lostBuffers : ~Holds(h, b)
  <2> SUFFICES ASSUME NEW p \in lost PROVE ~Holds(h, pool[p[1]][p[2]].buffer)
    BY <1>10
  <2>1. p[1] \in Keys /\ p[2] \in DOMAIN pool[p[1]] /\ ~pool[p[1]][p[2]].inUse
    BY <1>5, <1>9 DEF Staying, Evictable
  <2>. QED
    BY <2>1 DEF PoolInv
<1>13. \A b \in DOMAIN mem : Holds(h, b) => b \in DOMAIN memory' /\ memory'[b] = mem[b]
  BY <1>3, <1>12 DEF Without
<1>. QED
  BY <1>4, <1>8, <1>11, <1>13

(* The steps of the pool. *)
LEMMA FirstUsable ==
  ASSUME PoolInv(buffers, held), NEW key \in Keys, NEW size, Usable(key, size) # {}
  PROVE  /\ Min(Usable(key, size)) \in DOMAIN buffers[key]
         /\ ~buffers[key][Min(Usable(key, size))].inUse /\ SizeOf(key) >= size
<1>1. Usable(key, size) \subseteq DOMAIN buffers[key]
  BY DEF Usable
<1>2. DOMAIN buffers[key] \subseteq Nat
  BY LenProperties DEF PoolInv
<1>3. Min(Usable(key, size)) \in Usable(key, size)
  BY <1>1, <1>2, LeastOne
<1>. QED
  BY <1>3 DEF Usable

LEMMA AcquireCachedStep ==
  ASSUME PoolInv(buffers, held), NEW c \in Callers, NEW size \in Sizes, NEW usage \in Usages,
         AcquireCached(c, size, usage)
  PROVE  /\ PoolInv(buffers', held')
         /\ BytesInv(buffers, memory, currentCacheSize) =>
              BytesInv(buffers', memory', currentCacheSize')
         /\ memory' = memory
         /\ \E key \in Keys : \E i \in DOMAIN buffers[key] :
              /\ held' = [held EXCEPT ![c] = [buffer |-> buffers[key][i].buffer, size |-> size]]
              /\ ~buffers[key][i].inUse /\ SizeOf(key) >= size
<1>1. PICK key \in Keys : key = KeyOf(size, usage)
  BY DEF Keys
<1>2. PICK i : i = Min(Usable(key, size))
  OBVIOUS
<1>3. /\ held[c] = Nothing /\ Usable(key, size) # {}
      /\ buffers' = [buffers EXCEPT ![key][i].inUse = TRUE, ![key][i].age = 0]
      /\ held' = [held EXCEPT ![c] = [buffer |-> buffers[key][i].buffer, size |-> size]]
      /\ UNCHANGED <<currentCacheSize, evictionTimer, memory>>
  BY <1>1, <1>2 DEF AcquireCached
<1>4. i \in DOMAIN buffers[key] /\ ~buffers[key][i].inUse /\ SizeOf(key) >= size
  BY <1>2, <1>3, FirstUsable
<1>5. PICK a : a = [buffer |-> buffers[key][i].buffer, size |-> size]
  OBVIOUS
<1>6. buffers[key][i] \in Entries
  BY <1>4, EntryType DEF PoolInv
<1>7. a \in Acquired /\ a # Nothing /\ a.buffer = buffers[key][i].buffer
  BY <1>5, <1>6, PoolAssumption DEF PoolAssumption, Acquired, Entries
<1>8. /\ held' \in [Callers -> Acquired \cup {Nothing}] /\ held'[c] = a
      /\ \A d \in Callers : d # c => held'[d] = held[d]
  BY <1>3, <1>5, <1>7 DEF PoolInv
<1>9. \A x : Holds(held', x) <=> Holds(held, x) \/ x = buffers[key][i].buffer
  BY <1>3, <1>7, <1>8 DEF Holds
<1>10. PICK new : new = buffers'
  OBVIOUS
<1>11. /\ DOMAIN new = Keys /\ \A k \in Keys : k # key => new[k] = buffers[k]
       /\ DOMAIN new[key] = DOMAIN buffers[key]
       /\ new[key] = [j \in DOMAIN buffers[key] |-> new[key][j]]
       /\ \A j \in DOMAIN buffers[key] : j # i => new[key][j] = buffers[key][j]
       /\ new[key][i] = [buffers[key][i] EXCEPT !.inUse = TRUE, !.age = 0]
  BY <1>3, <1>4, <1>10 DEF PoolInv
<1>12. new[key][i] \in Entries /\ new[key][i].buffer = buffers[key][i].buffer /\ new[key][i].inUse = TRUE
  <2>1. 0 \in 0..MaxAge
    BY PoolAssumption DEF PoolAssumption
  <2>2. PICK old : old = buffers[key][i]
    OBVIOUS
  <2>3. new[key][i] = [old EXCEPT !.inUse = TRUE, !.age = 0]
    BY <1>11, <2>2
  <2>4. old \in Entries
    BY <1>6, <2>2
  <2>5. PICK e : e = new[key][i]
    OBVIOUS
  <2>6. e = [old EXCEPT !.inUse = TRUE, !.age = 0]
    BY <2>3, <2>5
  <2>7. e \in Entries /\ e.buffer = old.buffer /\ e.inUse = TRUE
    BY <2>1, <2>4, <2>6 DEF Entries
  <2>. QED
    BY <2>2, <2>5, <2>7
<1>13. \A k \in Keys : \A j \in DOMAIN buffers[k] :
         /\ new[k][j] \in Entries /\ new[k][j].buffer = buffers[k][j].buffer
         /\ new[k][j].inUse <=> Holds(held', buffers[k][j].buffer)
  <2> SUFFICES ASSUME NEW k \in Keys, NEW j \in DOMAIN buffers[k]
               PROVE  /\ new[k][j] \in Entries /\ new[k][j].buffer = buffers[k][j].buffer
                      /\ new[k][j].inUse <=> Holds(held', buffers[k][j].buffer)
    OBVIOUS
  <2>1. CASE k = key /\ j = i
    BY <1>9, <1>12, <2>1
  <2>2. CASE ~(k = key /\ j = i)
    <3>1. new[k][j] = buffers[k][j] /\ buffers[k][j] \in Entries
      BY <1>11, <2>2, EntryType DEF PoolInv
    <3>2. buffers[k][j].buffer # buffers[key][i].buffer
      BY <1>4, <2>2 DEF PoolInv
    <3>3. buffers[k][j].inUse <=> Holds(held, buffers[k][j].buffer)
      BY DEF PoolInv
    <3>. QED
      BY <1>9, <3>1, <3>2, <3>3
  <2>. QED
    BY <2>1, <2>2
<1>14. Shaped(new, buffers)
  <2>1. \A k \in Keys : new[k] = [j \in DOMAIN buffers[k] |-> new[k][j]]
    <3>1. \A k \in Keys : buffers[k] = [j \in DOMAIN buffers[k] |-> buffers[k][j]]
      BY LenProperties DEF PoolInv
    <3>. QED
      BY <1>11, <3>1
  <2>2. new = [k \in Keys |-> new[k]]
    <3>1. \E one : new = [[buffers EXCEPT ![key] = one] EXCEPT ![key] = new[key]]
      BY <1>3, <1>4, <1>10 DEF PoolInv
    <3>2. PICK one : new = [[buffers EXCEPT ![key] = one] EXCEPT ![key] = new[key]]
      BY <3>1
    <3>. QED
      BY <3>2 DEF PoolInv
  <2>. QED
    BY <2>1, <2>2 DEF Shaped
<1>15. ~Holds(held, buffers[key][i].buffer)
  BY <1>4 DEF PoolInv
<1>16. \A d, e \in Callers :
         held'[d] # Nothing /\ held'[e] # Nothing /\ held'[d].buffer = held'[e].buffer => d = e
  BY <1>7, <1>8, <1>15 DEF PoolInv, Holds
<1>17. PICK pool, h, g : pool = buffers /\ h = held /\ g = held'
  OBVIOUS
<1>18. PoolInv(new, g) /\ \A mem, total : BytesInv(pool, mem, total) => BytesInv(new, mem, total)
  <2>1. PoolInv(pool, h)
    BY <1>17
  <2>. QED
    BY <1>8, <1>13, <1>14, <1>16, <1>17, <2>1, PoolSame
<1>. QED
  BY <1>3, <1>4, <1>10, <1>17, <1>18

LEMMA ReleaseStep ==
  ASSUME PoolInv(buffers, held), NEW c \in Callers, Release(c)
  PROVE  /\ PoolInv(buffers', held')
         /\ BytesInv(buffers, memory, currentCacheSize) =>
              BytesInv(buffers', memory', currentCacheSize')
         /\ memory' = memory /\ held' = [held EXCEPT ![c] = Nothing]
<1>1. PICK b : b = held[c].buffer
  OBVIOUS
<1>2. PICK new : new = buffers'
  OBVIOUS
<1>3. /\ held[c] # Nothing /\ held' = [held EXCEPT ![c] = Nothing]
      /\ new = [k \in Keys |-> [i \in DOMAIN buffers[k] |->
                  IF buffers[k][i].buffer = b
                  THEN [buffers[k][i] EXCEPT !.inUse = FALSE, !.age = 0]
                  ELSE buffers[k][i]]]
      /\ memory' = memory /\ currentCacheSize' = currentCacheSize
  BY <1>1, <1>2 DEF Release
<1>4. Shaped(new, buffers)
  <2>1. \A k \in Keys : new[k] = [i \in DOMAIN buffers[k] |-> new[k][i]]
    BY <1>3
  <2>. QED
    BY <1>3, <2>1 DEF Shaped
<1>5. /\ held' \in [Callers -> Acquired \cup {Nothing}] /\ held'[c] = Nothing
      /\ \A d \in Callers : d # c => held'[d] = held[d]
  BY <1>3 DEF PoolInv
<1>6. \A x : Holds(held', x) <=> Holds(held, x) /\ x # b
  BY <1>1, <1>3, <1>5 DEF Holds, PoolInv
<1>7. 0 \in 0..MaxAge
  BY PoolAssumption DEF PoolAssumption
<1>8. ASSUME NEW k \in Keys, NEW i \in DOMAIN buffers[k]
      PROVE  /\ new[k][i] \in Entries /\ new[k][i].buffer = buffers[k][i].buffer
             /\ new[k][i].inUse <=> Holds(held', buffers[k][i].buffer)
  <2>1. PICK r \in Entries : r = buffers[k][i]
    BY EntryType DEF PoolInv
  <2>2. r.inUse <=> Holds(held, r.buffer)
    BY <2>1 DEF PoolInv
  <2>3. CASE r.buffer = b
    <3>0. PICK v \in BOOLEAN : v = FALSE
      OBVIOUS
    <3>1. PICK e : e = [r EXCEPT !.inUse = v, !.age = 0]
      OBVIOUS
    <3>2. new[k][i] = e
      BY <1>3, <2>1, <2>3, <3>0, <3>1
    <3>3. e \in Entries /\ e.buffer = r.buffer /\ e.inUse = v
      BY <1>7, <2>1, <3>0, <3>1 DEF Entries
    <3>. QED
      BY <1>6, <2>1, <2>3, <3>0, <3>2, <3>3
  <2>4. CASE r.buffer # b
    <3>1. new[k][i] = r
      BY <1>3, <2>1, <2>4
    <3>. QED
      BY <1>6, <2>1, <2>2, <2>4, <3>1
  <2>. QED
    BY <2>3, <2>4
<1>9. \A d, e \in Callers :
        held'[d] # Nothing /\ held'[e] # Nothing /\ held'[d].buffer = held'[e].buffer => d = e
  BY <1>5 DEF PoolInv
<1>10. PICK pool, h, g : pool = buffers /\ h = held /\ g = held'
  OBVIOUS
<1>11. PoolInv(new, g) /\ \A mem, total : BytesInv(pool, mem, total) => BytesInv(new, mem, total)
  <2>1. PoolInv(pool, h)
    BY <1>10
  <2>. QED
    BY <1>4, <1>5, <1>8, <1>9, <1>10, <2>1, PoolSame
<1>. QED
  BY <1>2, <1>3, <1>10, <1>11

LEMMA TickStep ==
  ASSUME PoolInv(buffers, held), Tick
  PROVE  /\ PoolInv(buffers', held')
         /\ BytesInv(buffers, memory, currentCacheSize) =>
              BytesInv(buffers', memory', currentCacheSize')
         /\ memory' = memory /\ held' = held
<1>1. PICK new : new = buffers'
  OBVIOUS
<1>2. /\ new = [k \in Keys |-> [i \in DOMAIN buffers[k] |->
                  [buffers[k][i] EXCEPT !.age = IF @ < MaxAge THEN @ + 1 ELSE @]]]
      /\ memory' = memory /\ currentCacheSize' = currentCacheSize /\ held' = held
  BY <1>1 DEF Tick
<1>3. Shaped(new, buffers)
  <2>1. \A k \in Keys : new[k] = [i \in DOMAIN buffers[k] |-> new[k][i]]
    BY <1>2
  <2>. QED
    BY <1>2, <2>1 DEF Shaped
<1>4. ASSUME NEW k \in Keys, NEW i \in DOMAIN buffers[k]
      PROVE  /\ new[k][i] \in Entries /\ new[k][i].buffer = buffers[k][i].buffer
             /\ new[k][i].inUse <=> Holds(held', buffers[k][i].buffer)
  <2>1. PICK r \in Entries : r = buffers[k][i]
    BY EntryType DEF PoolInv
  <2>2. r.inUse <=> Holds(held, r.buffer)
    BY <2>1 DEF PoolInv
  <2>3. PICK n : n = IF r.age < MaxAge THEN r.age + 1 ELSE r.age
    OBVIOUS
  <2>4. n \in 0..MaxAge
    BY <2>3, PoolAssumption DEF PoolAssumption, Entries
  <2>5. new[k][i] = [r EXCEPT !.age = n]
    BY <1>2, <2>1, <2>3
  <2>6. new[k][i] \in Entries /\ new[k][i].buffer = r.buffer /\ new[k][i].inUse = r.inUse
    BY <2>4, <2>5 DEF Entries
  <2>. QED
    BY <1>2, <2>1, <2>2, <2>6
<1>5. held' \in [Callers -> Acquired \cup {Nothing}]
      /\ \A d, e \in Callers :
           held'[d] # Nothing /\ held'[e] # Nothing /\ held'[d].buffer = held'[e].buffer => d = e
  BY <1>2 DEF PoolInv
<1>6. PICK pool, h, g : pool = buffers /\ h = held /\ g = held'
  OBVIOUS
<1>7. PoolInv(new, g) /\ \A mem, total : BytesInv(pool, mem, total) => BytesInv(new, mem, total)
  <2>1. PoolInv(pool, h)
    BY <1>6
  <2>. QED
    BY <1>3, <1>4, <1>5, <1>6, <2>1, PoolSame
<1>. QED
  BY <1>1, <1>2, <1>6, <1>7

LEMMA AcquireNewStep ==
  ASSUME PoolInv(buffers, held), NEW c \in Callers, NEW size \in Sizes, NEW usage \in Usages,
         NEW b \in Buffers, AcquireNew(c, size, usage, b)
  PROVE  /\ PoolInv(buffers', held')
         /\ BytesInv(buffers, memory, currentCacheSize) =>
              BytesInv(buffers', memory', currentCacheSize')
         /\ \A x \in DOMAIN memory : Holds(held, x) => x \in DOMAIN memory'
         /\ held' = [held EXCEPT ![c] = [buffer |-> b, size |-> size]]
         /\ ~Holds(held, b) /\ b \in DOMAIN memory' /\ memory'[b] >= size
<1>1. PICK key \in Keys : key = KeyOf(size, usage)
  BY DEF Keys
<1>2. SizeOf(key) \in Nat /\ size \in Nat /\ size <= SizeOf(key)
  BY <1>1, KeyFits
<1>3. PICK new : new = [buffers EXCEPT ![key] = Append(@, [buffer |-> b, inUse |-> TRUE, age |-> 0])]
  OBVIOUS
<1>4. PICK more : more = [x \in DOMAIN memory \cup {b} |-> IF x = b THEN SizeOf(key) ELSE memory[x]]
  OBVIOUS
<1>5. PICK total : total = currentCacheSize + SizeOf(key)
  OBVIOUS
<1>6. PICK pool, h, g : pool = buffers /\ h = held /\ g = held'
  OBVIOUS
<1>7. /\ held[c] = Nothing /\ b \notin DOMAIN memory \cup Pooled \cup Held
      /\ IF total > MaxCacheSize
         THEN EvictOldBuffers(new, more, total)
         ELSE buffers' = new /\ memory' = more /\ currentCacheSize' = total
      /\ held' = [held EXCEPT ![c] = [buffer |-> b, size |-> size]]
  BY <1>1, <1>3, <1>4, <1>5 DEF AcquireNew
<1>8. ~Holds(h, b)
  BY <1>6, <1>7 DEF Holds, Held
<1>9. \A k \in Keys : \A i \in DOMAIN pool[k] : pool[k][i].buffer # b
  <2> SUFFICES ASSUME NEW k \in Keys, NEW i \in DOMAIN buffers[k] PROVE buffers[k][i].buffer \in Pooled
    BY <1>6, <1>7
  <2>1. <<k, i>> \in Slots /\ EntryAt(<<k, i>>) = buffers[k][i]
    BY DEF Slots, EntryAt
  <2>. QED
    BY <2>1 DEF Pooled
<1>10. PoolInv(pool, h) /\ h[c] = Nothing
       /\ Grown(new, pool, key, b) /\ Took(g, h, c, b, size)
  BY <1>3, <1>6, <1>7 DEF Grown, Took
<1>11. /\ PoolInv(new, g)
       /\ \A k \in Keys : DOMAIN pool[k] \subseteq DOMAIN new[k]
       /\ \A k \in Keys : \A i \in DOMAIN pool[k] : new[k][i] = pool[k][i]
       /\ \E j \in DOMAIN new[key] : /\ new[key][j].buffer = b
                                     /\ \A i \in DOMAIN new[key] : i = j \/ i \in DOMAIN pool[key]
       /\ \A k \in Keys : k # key => DOMAIN new[k] = DOMAIN pool[k]
  BY <1>8, <1>9, <1>10, PoolGrown
<1>12. PICK mem, bytes : mem = memory /\ bytes = currentCacheSize
  OBVIOUS
<1>13. ASSUME BytesInv(pool, mem, bytes) PROVE BytesInv(new, more, bytes + SizeOf(key))
  <2>1. PICK j \in DOMAIN new[key] : /\ new[key][j].buffer = b
                                     /\ \A i \in DOMAIN new[key] : i = j \/ i \in DOMAIN pool[key]
    BY <1>11
  <2>2. b \notin DOMAIN mem
        /\ more = [x \in DOMAIN mem \cup {b} |-> IF x = b THEN SizeOf(key) ELSE mem[x]]
    BY <1>4, <1>7, <1>12
  <2>. QED
    BY <1>2, <1>11, <1>13, <2>1, <2>2, BytesGrown
<1>14. Holds(g, b) /\ \A x : Holds(h, x) => Holds(g, x)
  <2>1. PICK a : a = [buffer |-> b, size |-> size]
    OBVIOUS
  <2>2. a # Nothing /\ a.buffer = b
    BY <2>1, PoolAssumption DEF PoolAssumption
  <2>3. g[c] = a /\ \A d \in Callers : d # c => g[d] = h[d]
    BY <1>10, <2>1 DEF PoolInv, Took
  <2>. QED
    BY <1>10, <2>2, <2>3 DEF Holds
<1>15. b \in DOMAIN more /\ more[b] = SizeOf(key) /\ DOMAIN memory \subseteq DOMAIN more
  BY <1>4
<1>16. CASE total > MaxCacheSize
  <2>1. EvictOldBuffers(new, more, total)
    BY <1>7, <1>16
  <2>2. /\ PoolInv(buffers', g)
        /\ BytesInv(new, more, total) => BytesInv(buffers', memory', currentCacheSize')
        /\ \A x \in DOMAIN more : Holds(g, x) => x \in DOMAIN memory' /\ memory'[x] = more[x]
    BY <1>11, <2>1, EvictOldStep
  <2>3. b \in DOMAIN memory' /\ memory'[b] >= size
    BY <1>2, <1>14, <1>15, <2>2
  <2>. QED
    BY <1>5, <1>6, <1>7, <1>8, <1>12, <1>13, <1>14, <1>15, <2>2, <2>3
<1>17. CASE ~(total > MaxCacheSize)
  <2>1. buffers' = new /\ memory' = more /\ currentCacheSize' = total
    BY <1>7, <1>17
  <2>2. b \in DOMAIN memory' /\ memory'[b] >= size
    BY <1>2, <1>15, <2>1
  <2>. QED
    BY <1>5, <1>6, <1>7, <1>8, <1>11, <1>12, <1>13, <1>15, <2>1, <2>2
<1>. QED
  BY <1>16, <1>17

LEMMA ImageIsFinite ==
  ASSUME NEW S, IsFiniteSet(S), NEW f
  PROVE  IsFiniteSet({f[x] : x \in S})
<1>1. PICK g : g = [x \in S |-> f[x]]
  OBVIOUS
<1>2. PICK T : T = {f[x] : x \in S}
  OBVIOUS
<1>3. g \in Surjection(S, T)
  BY <1>1, <1>2 DEF Surjection
<1>. QED
  BY <1>2, <1>3, FS_Surjection

LEMMA SlotsAreFinite ==
  ASSUME PoolInv(buffers, held)
  PROVE  IsFiniteSet(Slots)
<1>1. IsFiniteSet(Keys)
  <2>1. PICK f : f = [p \in Sizes \X Usages |-> KeyOf(p[1], p[2])]
    OBVIOUS
  <2>2. Keys = {f[p] : p \in Sizes \X Usages}
    <3>1. \A n \in Sizes : \A u \in Usages :
            <<n, u>> \in Sizes \X Usages /\ f[<<n, u>>] = KeyOf(n, u)
      BY <2>1
    <3>2. \A p \in Sizes \X Usages : p[1] \in Sizes /\ p[2] \in Usages /\ f[p] = KeyOf(p[1], p[2])
      BY <2>1
    <3>3. \A x \in Keys : x \in {f[p] : p \in Sizes \X Usages}
      <4> SUFFICES ASSUME NEW x \in Keys PROVE \E p \in Sizes \X Usages : x = f[p]
        OBVIOUS
      <4>1. PICK n \in Sizes, u \in Usages : x = KeyOf(n, u)
        BY DEF Keys
      <4>. QED
        BY <3>1, <4>1
    <3>4. \A p \in Sizes \X Usages : f[p] \in Keys
      BY <3>2 DEF Keys
    <3>. QED
      BY <3>3, <3>4
  <2>3. IsFiniteSet(Sizes \X Usages)
    BY FS_Product, PoolAssumption DEF PoolAssumption
  <2>. QED
    BY <2>2, <2>3, ImageIsFinite
<1>2. PICK lists : lists = [k \in Keys |-> {<<k, i>> : i \in DOMAIN buffers[k]}]
  OBVIOUS
<1>3. \A k \in Keys : IsFiniteSet(lists[k])
  <2> SUFFICES ASSUME NEW k \in Keys PROVE IsFiniteSet(lists[k])
    OBVIOUS
  <2>1. PICK D : D = DOMAIN buffers[k]
    OBVIOUS
  <2>2. IsFiniteSet(D)
    BY <2>1, LenProperties, FS_Interval DEF PoolInv
  <2>3. PICK f : f = [i \in D |-> <<k, i>>]
    OBVIOUS
  <2>4. lists[k] = {f[i] : i \in D}
    BY <1>2, <2>1, <2>3
  <2>. QED
    BY <2>2, <2>4, ImageIsFinite
<1>4. PICK all_lists : all_lists = {lists[k] : k \in Keys}
  OBVIOUS
<1>5. IsFiniteSet(all_lists) /\ \A T \in all_lists : IsFiniteSet(T)
  BY <1>1, <1>3, <1>4, ImageIsFinite
<1>6. Slots = UNION all_lists
  BY <1>2, <1>4 DEF Slots
<1>. QED
  BY <1>5, <1>6, FS_UNION

LEMMA SlotOf ==
  ASSUME PoolInv(buffers, held), NEW p \in Slots
  PROVE  /\ p = <<p[1], p[2]>> /\ p[1] \in Keys /\ p[2] \in DOMAIN buffers[p[1]]
         /\ p[2] \in Nat \ {0} /\ EntryAt(p) = buffers[p[1]][p[2]]
<1>1. p = <<p[1], p[2]>> /\ p[1] \in Keys /\ p[2] \in DOMAIN buffers[p[1]]
  BY DEF Slots
<1>. QED
  BY <1>1, EntryType DEF PoolInv, EntryAt

(* The victims are a list of idle places, each once. *)
LEMMA VictimsAreIdle ==
  ASSUME PoolInv(buffers, held), NEW order \in AllEntries, NEW target
  PROVE  /\ Victims(order, target) \in Seq(IdleSlots)
         /\ \A m, n \in DOMAIN Victims(order, target) :
              Victims(order, target)[m] = Victims(order, target)[n] => m = n
<1>1. IsFiniteSet(IdleSlots)
  BY SlotsAreFinite, FS_Subset DEF IdleSlots
<1>2. PICK N \in Nat : N = Cardinality(IdleSlots)
  BY <1>1, FS_CardinalityType
<1>3. order \in [1..N -> IdleSlots] /\ \A m, n \in 1..N : m # n => order[m] # order[n]
  BY <1>2 DEF AllEntries, SetToSeqs
<1>4. order \in Seq(IdleSlots) /\ Len(order) = N /\ DOMAIN order = 1..N
  <2>1. order \in Seq(IdleSlots)
    BY <1>2, <1>3, SeqDef
  <2>2. DOMAIN order = 1..N /\ DOMAIN order = 1..Len(order) /\ Len(order) \in Nat
    BY <1>3, <2>1, LenProperties
  <2>. QED
    BY <1>2, <2>1, <2>2
<1>5. PICK enough : /\ enough \subseteq 0..N
                    /\ Victims(order, target) = SubSeq(order, 1, Min(enough \cup {N}))
  <2>1. PICK enough : enough = {n \in 0..Len(order) :
                   currentCacheSize - BytesIn(ToSet(SubSeq(order, 1, n))) <= target}
    OBVIOUS
  <2>2. Victims(order, target) = SubSeq(order, 1, Min(enough \cup {Len(order)}))
    BY <2>1, Zenon DEF Victims
  <2>. QED
    BY <1>4, <2>1, <2>2
<1>6. PICK l \in 0..N : l = Min(enough \cup {N})
  <2>0. enough \subseteq 0..N
    BY <1>5
  <2>1. enough \cup {N} \in SUBSET Nat /\ \A n \in enough \cup {N} : n \in 0..N
    BY <2>0
  <2>2. Min(enough \cup {N}) \in enough \cup {N}
    BY <2>1, LeastOne
  <2>. QED
    BY <2>1, <2>2
<1>7. PICK v : v = Victims(order, target)
  OBVIOUS
<1>8. v \in Seq(IdleSlots) /\ Len(v) = l /\ \A n \in 1..l : v[n] = order[n]
  <2>1. \A n \in 1..l : order[n] \in IdleSlots
    BY <1>2, <1>3, <1>6
  <2>2. /\ SubSeq(order, 1, l) \in Seq(IdleSlots)
        /\ Len(SubSeq(order, 1, l)) = l
        /\ \A n \in 1..l : SubSeq(order, 1, l)[n] = order[n]
    <3>1. l \in Nat
      BY <1>2, <1>6
    <3>. QED
      BY <2>1, <3>1, SubSeqProperties
  <2>3. v = SubSeq(order, 1, l)
    BY <1>5, <1>6, <1>7
  <2>. QED
    BY <2>2, <2>3
<1>9. DOMAIN v = 1..l
  BY <1>8, LenProperties
<1>10. \A m, n \in 1..l : v[m] = v[n] => m = n
  <2>1. \A n \in 1..l : n \in 1..N
    BY <1>2, <1>6
  <2>. QED
    BY <1>3, <1>8, <2>1
<1>. QED
  BY <1>7, <1>8, <1>9, <1>10

(* What one class loses to evictToSize. *)
Own(victims, k) == Sublist(victims, {n \in DOMAIN victims : victims[n][1] = k})

LEMMA ClassVictims ==
  ASSUME PoolInv(buffers, held), NEW victims \in Seq(IdleSlots), NEW k \in Keys,
         NEW own, own = Own(victims, k)
  PROVE  /\ own \in Seq(IdleSlots) /\ IsFiniteSet(DOMAIN own) /\ DOMAIN own \subseteq Int
         /\ \A n \in DOMAIN own : own[n] \in ToSet(victims) /\ own[n][1] = k /\ own[n][2] \in DOMAIN buffers[k]
                                  /\ own[n][2] \in Nat \ {0} /\ own[n] = <<k, own[n][2]>>
         /\ \A p \in ToSet(victims) : p[1] = k => \E n \in DOMAIN own : own[n] = p
<1>1. PICK places : places = {n \in DOMAIN victims : victims[n][1] = k}
  OBVIOUS
<1>2. own \in Seq(IdleSlots) /\ Selects(victims, places, own)
  BY <1>1, SublistSelects DEF Own
<1>3. PICK from \in [DOMAIN own -> places] :
        /\ \A i \in places : \E n \in DOMAIN own : from[n] = i
        /\ \A n \in DOMAIN own : own[n] = victims[from[n]]
  BY <1>2 DEF Selects
<1>4. \A n \in DOMAIN own : own[n] \in ToSet(victims) /\ own[n][1] = k
  <2>1. \A n \in DOMAIN own : from[n] \in places
    BY <1>3
  <2>2. \A i \in places : victims[i] \in ToSet(victims) /\ victims[i][1] = k
    BY <1>1 DEF ToSet
  <2>. QED
    BY <1>3, <2>1, <2>2
<1>5. \A n \in DOMAIN own : own[n] \in Slots
  <2>1. \A n \in DOMAIN own : own[n] \in IdleSlots
    BY <1>2, LenProperties, ElementOfSeq
  <2>. QED
    BY <2>1 DEF IdleSlots
<1>6. \A n \in DOMAIN own : /\ own[n][2] \in DOMAIN buffers[k] /\ own[n][2] \in Nat \ {0}
                            /\ own[n] = <<k, own[n][2]>>
  BY <1>4, <1>5, SlotOf
<1>7. \A p \in ToSet(victims) : p[1] = k => \E n \in DOMAIN own : own[n] = p
  <2> SUFFICES ASSUME NEW p \in ToSet(victims), p[1] = k PROVE \E n \in DOMAIN own : own[n] = p
    OBVIOUS
  <2>1. PICK i \in DOMAIN victims : victims[i] = p
    BY DEF ToSet
  <2>2. i \in places
    BY <1>1, <2>1
  <2>3. PICK n \in DOMAIN own : from[n] = i
    BY <1>3, <2>2
  <2>. QED
    BY <1>3, <2>1, <2>3
<1>8. IsFiniteSet(DOMAIN own) /\ DOMAIN own \subseteq Int
  <2>1. DOMAIN own = 1..Len(own) /\ Len(own) \in Nat
    BY <1>2, LenProperties
  <2>2. IsFiniteSet(1..Len(own))
    BY <2>1, FS_Interval
  <2>. QED
    BY <2>1, <2>2
<1>. QED
  BY <1>2, <1>4, <1>6, <1>7, <1>8

LEMMA EvictToSizeStep ==
  ASSUME PoolInv(buffers, held), NEW target, NEW order \in AllEntries, EvictToSize(target, order)
  PROVE  /\ PoolInv(buffers', held') /\ held' = held
         /\ BytesInv(buffers, memory, currentCacheSize) /\ ~DeepShrinks =>
              BytesInv(buffers', memory', currentCacheSize')
         /\ \A x \in DOMAIN memory : Holds(held, x) => x \in DOMAIN memory'
<1>1. PICK victims : victims = Victims(order, target)
  OBVIOUS
<1>2. /\ victims \in Seq(IdleSlots)
      /\ \A m, n \in DOMAIN victims : victims[m] = victims[n] => m = n
  BY <1>1, VictimsAreIdle
<1>3. PICK own : own = [k \in Keys |-> Own(victims, k)]
  OBVIOUS
<1>4. PICK lost : lost = ToSet(victims)
  OBVIOUS
<1>5. PICK gone : gone = {EntryAt(slot).buffer : slot \in lost}
  OBVIOUS
<1>6. PICK new : new = buffers'
  OBVIOUS
<1>7. /\ ~DeepShrinks => \A k \in Keys : Len(own[k]) <= 1
      /\ new = [k \in Keys |-> FoldLeft(SpliceOut, buffers[k], own[k])]
      /\ memory' = Without(memory, gone)
      /\ currentCacheSize' = currentCacheSize - BytesIn(lost)
      /\ held' = held
  <2>1. /\ ~DeepShrinks => \A k \in Keys : Len(Own(victims, k)) <= 1
        /\ buffers' = [k \in Keys |-> FoldLeft(SpliceOut, buffers[k], Own(victims, k))]
        /\ memory' = Without(memory, gone)
        /\ currentCacheSize' = currentCacheSize - BytesIn(lost)
        /\ UNCHANGED <<evictionTimer, held>>
    BY <1>1, <1>4, <1>5, Zenon DEF EvictToSize, Own
  <2>2. \A k \in Keys : own[k] = Own(victims, k)
    BY <1>3
  <2>3. buffers' = [k \in Keys |-> FoldLeft(SpliceOut, buffers[k], own[k])]
    BY <2>1, <2>2, Zenon
  <2>4. ~DeepShrinks => \A k \in Keys : Len(own[k]) <= 1
    BY <2>1, <2>2
  <2>5. held' = held
    BY <2>1
  <2>6. memory' = Without(memory, gone) /\ currentCacheSize' = currentCacheSize - BytesIn(lost)
    BY <2>1
  <2>. QED
    BY <1>6, <2>3, <2>4, <2>5, <2>6, Zenon
<1>8. ASSUME NEW k \in Keys
      PROVE  /\ own[k] \in Seq(IdleSlots) /\ IsFiniteSet(DOMAIN own[k]) /\ DOMAIN own[k] \subseteq Int
             /\ \A n \in DOMAIN own[k] :
                  /\ own[k][n] \in lost /\ own[k][n][1] = k /\ own[k][n][2] \in DOMAIN buffers[k]
                  /\ own[k][n][2] \in Nat \ {0} /\ own[k][n] = <<k, own[k][n][2]>>
             /\ \A p \in lost : p[1] = k => \E n \in DOMAIN own[k] : own[k][n] = p
  <2>1. PICK o : o = own[k]
    OBVIOUS
  <2>2. o = Own(victims, k)
    BY <1>3, <2>1
  <2>3. /\ o \in Seq(IdleSlots) /\ IsFiniteSet(DOMAIN o) /\ DOMAIN o \subseteq Int
        /\ \A n \in DOMAIN o : /\ o[n] \in ToSet(victims) /\ o[n][1] = k
                              /\ o[n][2] \in DOMAIN buffers[k]
                              /\ o[n][2] \in Nat \ {0} /\ o[n] = <<k, o[n][2]>>
        /\ \A p \in ToSet(victims) : p[1] = k => \E n \in DOMAIN o : o[n] = p
    BY <1>2, <2>2, ClassVictims
  <2>. QED
    BY <1>4, <2>1, <2>3
<1>9. PICK pool, h, mem, total : pool = buffers /\ h = held /\ mem = memory /\ total = currentCacheSize
  OBVIOUS
<1>10. PoolInv(pool, h)
  BY <1>9
<1>11. \A k \in Keys : new[k] \in Seq(Entries) /\ \E R \in SUBSET DOMAIN pool[k] : Selects(pool[k], R, new[k])
  <2> SUFFICES ASSUME NEW k \in Keys
               PROVE  new[k] \in Seq(Entries) /\ \E R \in SUBSET DOMAIN pool[k] : Selects(pool[k], R, new[k])
    OBVIOUS
  <2>1. PICK s \in Seq(Entries) : s = pool[k]
    BY <1>10 DEF PoolInv
  <2>2. PICK slots : slots = own[k]
    OBVIOUS
  <2>3. IsFiniteSet(DOMAIN slots) /\ DOMAIN slots \subseteq Int /\ \A n \in DOMAIN slots : slots[n][2] \in Nat \ {0}
    BY <1>8, <2>2
  <2>4. PICK f : /\ FoldLeft(SpliceOut, s, slots) = f[DOMAIN slots]
                 /\ \A t \in SUBSET DOMAIN slots :
                      f[t] \in Seq(Entries) /\ \E R \in SUBSET DOMAIN s : Selects(s, R, f[t])
    BY <2>1, <2>3, SplicesRun
  <2>5. new[k] = f[DOMAIN slots]
    BY <1>7, <1>9, <2>1, <2>2, <2>4
  <2>. QED
    BY <2>1, <2>4, <2>5
<1>12. new \in [Keys -> Seq(Entries)]
  BY <1>7, <1>11
<1>13. PoolInv(new, h)
  BY <1>10, <1>11, <1>12, PoolKept
<1>14. \A p \in lost : /\ p = <<p[1], p[2]>> /\ p[1] \in Keys /\ p[2] \in DOMAIN buffers[p[1]]
                       /\ EntryAt(p) = buffers[p[1]][p[2]] /\ ~EntryAt(p).inUse
  <2>1. \A p \in lost : p \in IdleSlots
    BY <1>2, <1>4, NoElement
  <2>2. \A p \in lost : p \in Slots /\ ~EntryAt(p).inUse
    BY <2>1 DEF IdleSlots
  <2>. QED
    BY <2>2, SlotOf
<1>15. \A x \in DOMAIN memory : Holds(held, x) => x \in DOMAIN memory'
  <2>1. \A x \in gone : ~Holds(held, x)
    BY <1>5, <1>14 DEF PoolInv
  <2>. QED
    BY <1>7, <2>1 DEF Without
<1>16. ASSUME BytesInv(buffers, memory, currentCacheSize), ~DeepShrinks
       PROVE  BytesInv(buffers', memory', currentCacheSize')
  <2>1. PICK keep : keep = [k \in Keys |-> {i \in DOMAIN buffers[k] : <<k, i>> \notin lost}]
    OBVIOUS
  <2>2. ASSUME NEW k \in Keys
        PROVE  keep[k] \in SUBSET DOMAIN pool[k] /\ Selects(pool[k], keep[k], new[k])
    <3>1. PICK s \in Seq(Entries) : s = pool[k]
      BY <1>10 DEF PoolInv
    <3>2. PICK slots : slots = own[k]
      OBVIOUS
    <3>3. DOMAIN slots = {} \/ DOMAIN slots = {1}
      <4>1. DOMAIN slots = 1..Len(slots) /\ Len(slots) \in Nat /\ Len(slots) <= 1
        BY <1>7, <1>8, <1>16, <3>2, LenProperties
      <4>2. CASE Len(slots) = 0
        BY <4>1, <4>2
      <4>3. CASE Len(slots) = 1
        BY <4>1, <4>3
      <4>. QED
        BY <4>1, <4>2, <4>3
    <3>4. \A n \in DOMAIN slots : slots[n][2] \in Nat \ {0}
      BY <1>8, <3>2
    <3>5. /\ DOMAIN slots = {} => new[k] = s
          /\ DOMAIN slots = {1} => new[k] = SpliceOut(s, slots[1])
      <4>1. new[k] = FoldLeft(SpliceOut, s, slots)
        BY <1>7, <1>9, <3>1, <3>2
      <4>2. DOMAIN slots \subseteq {1}
        BY <3>3
      <4>. QED
        BY <3>1, <3>4, <4>1, <4>2, OneSplice
    <3>6. CASE DOMAIN slots = {}
      <4>1. keep[k] = DOMAIN s
        BY <1>8, <1>9, <2>1, <3>1, <3>2, <3>6
      <4>2. Selects(s, DOMAIN s, s)
        BY SelectsAll
      <4>. QED
        BY <3>1, <3>5, <3>6, <4>1, <4>2
    <3>7. CASE DOMAIN slots = {1}
      <4>1. PICK i : i = slots[1][2]
        OBVIOUS
      <4>2. slots[1] \in lost /\ slots[1] = <<k, i>> /\ i \in DOMAIN s /\ i \in Nat
        BY <1>8, <1>9, <3>1, <3>2, <3>7, <4>1
      <4>3. \A j \in DOMAIN s : <<k, j>> \in lost <=> j = i
        <5>1. \A j \in DOMAIN s : <<k, j>> \in lost => <<k, j>> = slots[1]
          BY <1>8, <3>2, <3>7
        <5>. QED
          BY <4>2, <5>1
      <4>4. keep[k] = DOMAIN s \ {i}
        BY <1>9, <2>1, <3>1, <4>3
      <4>5. SpliceOut(s, slots[1]) = RemoveAt(s, i)
        <5>1. i <= Len(s)
          BY <3>1, <4>2, LenProperties
        <5>. QED
          BY <4>1, <5>1 DEF SpliceOut
      <4>6. Selects(s, DOMAIN s \ {i}, RemoveAt(s, i))
        BY <3>1, <4>2, RemoveAtSelects
      <4>. QED
        BY <3>1, <3>5, <3>7, <4>4, <4>5, <4>6
    <3>. QED
      BY <3>3, <3>6, <3>7
  <2>3. /\ \A p \in lost : p = <<p[1], p[2]>> /\ p[1] \in Keys /\ p[2] \in DOMAIN pool[p[1]] \ keep[p[1]]
        /\ \A k \in Keys : \A i \in DOMAIN pool[k] \ keep[k] : <<k, i>> \in lost
    BY <1>9, <1>14, <2>1
  <2>4. gone = {pool[p[1]][p[2]].buffer : p \in lost}
    BY <1>5, <1>9, <1>14
  <2>5. BytesInv(pool, mem, total)
    BY <1>9, <1>16
  <2>6. BytesInv(new, Without(mem, gone), total - BytesIn(lost))
    BY <1>10, <1>12, <2>2, <2>3, <2>4, <2>5, BytesKept
  <2>. QED
    BY <1>6, <1>7, <1>9, <2>6
<1>. QED
  BY <1>6, <1>7, <1>9, <1>13, <1>15, <1>16

LEMMA ClearStep ==
  ASSUME PoolInv(buffers, held), Clear
  PROVE  /\ PoolInv(buffers', held') /\ held' = held
         /\ BytesInv(buffers, memory, currentCacheSize) =>
              BytesInv(buffers', memory', currentCacheSize')
         /\ \A k \in Keys : buffers'[k] = <<>>
<1>1. /\ buffers' = [k \in Keys |-> <<>>] /\ held' = held
      /\ memory' = Without(memory, Pooled) /\ currentCacheSize' = 0
  BY DEF Clear
<1>2. \A k \in Keys : buffers'[k] = <<>> /\ buffers'[k] \in Seq(Entries) /\ DOMAIN buffers'[k] = {}
  BY <1>1, EmptySeq
<1>3. PoolInv(buffers', held')
  BY <1>1, <1>2 DEF PoolInv
<1>4. ASSUME BytesInv(buffers, memory, currentCacheSize)
      PROVE  BytesInv(buffers', memory', currentCacheSize')
  <2>1. DOMAIN memory \subseteq Pooled
    <3> SUFFICES ASSUME NEW b \in DOMAIN memory PROVE b \in Pooled
      OBVIOUS
    <3>1. PICK k \in Keys : \E i \in DOMAIN buffers[k] : buffers[k][i].buffer = b
      BY <1>4 DEF BytesInv
    <3>2. PICK i \in DOMAIN buffers[k] : buffers[k][i].buffer = b
      BY <3>1
    <3>3. <<k, i>> \in Slots /\ EntryAt(<<k, i>>).buffer = b
      BY <3>2 DEF Slots, EntryAt
    <3>. QED
      BY <3>3 DEF Pooled
  <2>2. PICK mem : mem = memory'
    OBVIOUS
  <2>3. mem = [b \in {} |-> mem[b]]
    BY <1>1, <2>1, <2>2 DEF Without
  <2>4. Memory(mem) /\ BytesOf(mem) = 0 /\ DOMAIN mem = {}
    BY <2>3, NoBytes
  <2>. QED
    BY <1>1, <1>2, <2>2, <2>4 DEF BytesInv
<1>. QED
  BY <1>1, <1>2, <1>3, <1>4

LEMMA PoolInit ==
  ASSUME Init
  PROVE  PoolInv(buffers, held) /\ BytesInv(buffers, memory, currentCacheSize) /\ evictionTimer \in BOOLEAN
<1>1. \A k \in Keys : buffers[k] = <<>> /\ buffers[k] \in Seq(Entries) /\ DOMAIN buffers[k] = {}
  BY EmptySeq DEF Init
<1>2. PoolInv(buffers, held)
  <2>1. buffers \in [Keys -> Seq(Entries)] /\ held \in [Callers -> Acquired \cup {Nothing}]
    BY <1>1 DEF Init
  <2>2. \A c \in Callers : held[c] = Nothing
    BY DEF Init
  <2>. QED
    BY <1>1, <2>1, <2>2 DEF PoolInv
<1>3. PICK mem : mem = memory
  OBVIOUS
<1>4. mem = [b \in {} |-> mem[b]]
  BY <1>3 DEF Init
<1>5. Memory(mem) /\ BytesOf(mem) = 0 /\ DOMAIN mem = {}
  BY <1>4, NoBytes
<1>6. BytesInv(buffers, memory, currentCacheSize)
  BY <1>1, <1>3, <1>5 DEF BytesInv, Init
<1>7. evictionTimer \in BOOLEAN
  BY PoolAssumption DEF PoolAssumption, Init
<1>. QED
  BY <1>2, <1>6, <1>7

(* A step of the age limit alone. *)
LEMMA EvictOldAlone ==
  ASSUME PoolInv(buffers, held), EvictOld
  PROVE  /\ PoolInv(buffers', held') /\ held' = held
         /\ BytesInv(buffers, memory, currentCacheSize) =>
              BytesInv(buffers', memory', currentCacheSize')
         /\ \A x \in DOMAIN memory : Holds(held, x) => x \in DOMAIN memory'
<1>1. PICK pool, h, mem, total : pool = buffers /\ h = held /\ mem = memory /\ total = currentCacheSize
  OBVIOUS
<1>2. PoolInv(pool, h) /\ EvictOldBuffers(pool, mem, total) /\ held' = held
  <2>1. EvictOldBuffers(buffers, memory, currentCacheSize) /\ held' = held
    BY DEF EvictOld
  <2>. QED
    BY <1>1, <2>1
<1>3. /\ PoolInv(buffers', h)
      /\ BytesInv(pool, mem, total) => BytesInv(buffers', memory', currentCacheSize')
      /\ \A b \in DOMAIN mem : Holds(h, b) => b \in DOMAIN memory' /\ memory'[b] = mem[b]
  BY <1>2, EvictOldStep
<1>. QED
  BY <1>1, <1>2, <1>3

(* What a step does: the invariants, whoever acquires and what survives. *)
LEMMA PoolStep ==
  ASSUME PoolInv(buffers, held), evictionTimer \in BOOLEAN, [Next]_vars
  PROVE  /\ PoolInv(buffers', held') /\ evictionTimer' \in BOOLEAN
         /\ BytesInv(buffers, memory, currentCacheSize) /\ ~DeepShrinks =>
              BytesInv(buffers', memory', currentCacheSize')
         /\ \/ \A x \in DOMAIN memory : Holds(held, x) => x \in DOMAIN memory'
            \/ \A k \in Keys : buffers'[k] = <<>>
<1>1. CASE \E c \in Callers, n \in Sizes, u \in Usages : AcquireCached(c, n, u)
  <2>1. PICK c \in Callers, n \in Sizes, u \in Usages : AcquireCached(c, n, u)
    BY <1>1
  <2>2. evictionTimer' = evictionTimer
    BY <2>1 DEF AcquireCached
  <2>. QED
    BY <2>1, <2>2, AcquireCachedStep
<1>2. CASE \E c \in Callers, n \in Sizes, u \in Usages : \E b \in Buffers : AcquireNew(c, n, u, b)
  <2>1. PICK c \in Callers, n \in Sizes, u \in Usages : \E b \in Buffers : AcquireNew(c, n, u, b)
    BY <1>2
  <2>2. PICK b \in Buffers : AcquireNew(c, n, u, b)
    BY <2>1
  <2>3. evictionTimer' = evictionTimer
    BY <2>2 DEF AcquireNew
  <2>. QED
    BY <2>1, <2>2, <2>3, AcquireNewStep
<1>3. CASE \E c \in Callers : Release(c)
  <2>1. PICK c \in Callers : Release(c)
    BY <1>3
  <2>2. evictionTimer' = evictionTimer
    BY <2>1 DEF Release
  <2>. QED
    BY <2>1, <2>2, ReleaseStep
<1>4. CASE \E target \in Targets : \E order \in AllEntries : EvictToSize(target, order)
  <2>1. PICK target \in Targets : \E order \in AllEntries : EvictToSize(target, order)
    BY <1>4
  <2>2. PICK order \in AllEntries : EvictToSize(target, order)
    BY <2>1
  <2>3. evictionTimer' = evictionTimer
    BY <2>2 DEF EvictToSize
  <2>. QED
    BY <2>2, <2>3, EvictToSizeStep
<1>5. CASE EvictOld \/ TimerFires
  <2>1. EvictOld
    BY <1>5 DEF TimerFires
  <2>2. evictionTimer' = evictionTimer
    BY <2>1 DEF EvictOld
  <2>. QED
    BY <2>1, <2>2, EvictOldAlone
<1>6. CASE Clear
  <2>1. evictionTimer' = FALSE
    BY <1>6 DEF Clear
  <2>. QED
    BY <1>6, <2>1, ClearStep
<1>7. CASE Tick
  <2>1. evictionTimer' = evictionTimer
    BY <1>7 DEF Tick
  <2>. QED
    BY <1>7, <2>1, TickStep
<1>8. CASE StartAutoEviction \/ StopAutoEviction \/ UNCHANGED vars
  <2>1. /\ buffers' = buffers /\ held' = held /\ memory' = memory /\ currentCacheSize' = currentCacheSize
        /\ evictionTimer' \in BOOLEAN
    BY <1>8 DEF StartAutoEviction, StopAutoEviction, vars
  <2>. QED
    BY <2>1
<1>. QED
  BY <1>1, <1>2, <1>3, <1>4, <1>5, <1>6, <1>7, <1>8 DEF Next

(* Whoever holds something new was given what nobody held. *)
LEMMA HandsOut ==
  ASSUME PoolInv(buffers, held), BytesInv(buffers, memory, currentCacheSize), Next,
         NEW c \in Callers, held[c] = Nothing, held'[c] # Nothing
  PROVE  /\ held'[c].buffer \in DOMAIN memory' /\ memory'[held'[c].buffer] >= held'[c].size
         /\ ~Holds(held, held'[c].buffer)
<1>1. CASE \E d \in Callers, n \in Sizes, u \in Usages : AcquireCached(d, n, u)
  <2>1. PICK d \in Callers, n \in Sizes, u \in Usages : AcquireCached(d, n, u)
    BY <1>1
  <2>2. memory' = memory
        /\ \E key \in Keys : \E i \in DOMAIN buffers[key] :
              /\ held' = [held EXCEPT ![d] = [buffer |-> buffers[key][i].buffer, size |-> n]]
              /\ ~buffers[key][i].inUse /\ SizeOf(key) >= n
    BY <2>1, AcquireCachedStep
  <2>3. PICK key \in Keys : \E i \in DOMAIN buffers[key] :
              /\ held' = [held EXCEPT ![d] = [buffer |-> buffers[key][i].buffer, size |-> n]]
              /\ ~buffers[key][i].inUse /\ SizeOf(key) >= n
    BY <2>2
  <2>4. PICK i \in DOMAIN buffers[key] :
              /\ held' = [held EXCEPT ![d] = [buffer |-> buffers[key][i].buffer, size |-> n]]
              /\ ~buffers[key][i].inUse /\ SizeOf(key) >= n
    BY <2>3
  <2>5. c = d
    BY <2>4 DEF PoolInv
  <2>6. held'[c].buffer = buffers[key][i].buffer /\ held'[c].size = n
    BY <2>4, <2>5 DEF PoolInv
  <2>7. buffers[key][i].buffer \in DOMAIN memory /\ memory[buffers[key][i].buffer] = SizeOf(key)
    BY DEF BytesInv
  <2>8. ~Holds(held, buffers[key][i].buffer)
    BY <2>4 DEF PoolInv
  <2>. QED
    BY <2>2, <2>4, <2>6, <2>7, <2>8
<1>2. CASE \E d \in Callers, n \in Sizes, u \in Usages : \E b \in Buffers : AcquireNew(d, n, u, b)
  <2>1. PICK d \in Callers, n \in Sizes, u \in Usages : \E b \in Buffers : AcquireNew(d, n, u, b)
    BY <1>2
  <2>2. PICK b \in Buffers : AcquireNew(d, n, u, b)
    BY <2>1
  <2>3. /\ held' = [held EXCEPT ![d] = [buffer |-> b, size |-> n]]
        /\ ~Holds(held, b) /\ b \in DOMAIN memory' /\ memory'[b] >= n
    BY <2>1, <2>2, AcquireNewStep
  <2>4. c = d
    BY <2>3 DEF PoolInv
  <2>5. held'[c].buffer = b /\ held'[c].size = n
    BY <2>3, <2>4 DEF PoolInv
  <2>. QED
    BY <2>3, <2>5
<1>3. CASE \E d \in Callers : Release(d)
  <2>1. PICK d \in Callers : Release(d)
    BY <1>3
  <2>2. held' = [held EXCEPT ![d] = Nothing]
    BY <2>1 DEF Release
  <2>. QED
    BY <2>2 DEF PoolInv
<1>4. CASE \/ \E target \in Targets : \E order \in AllEntries : EvictToSize(target, order)
           \/ EvictOld \/ TimerFires \/ StartAutoEviction \/ StopAutoEviction \/ Clear \/ Tick
  <2>1. held' = held
    <3>1. CASE \E target \in Targets : \E order \in AllEntries : EvictToSize(target, order)
      BY <3>1, EvictToSizeStep
    <3>2. CASE EvictOld \/ TimerFires
      BY <3>2 DEF EvictOld, TimerFires
    <3>3. CASE StartAutoEviction \/ StopAutoEviction \/ Clear \/ Tick
      BY <3>3 DEF StartAutoEviction, StopAutoEviction, Clear, Tick
    <3>. QED
      BY <1>4, <3>1, <3>2, <3>3
  <2>. QED
    BY <2>1
<1>. QED
  BY <1>1, <1>2, <1>3, <1>4 DEF Next

-----------------------------------------------------------------------------
(* The theorems about the pool *)

LEMMA PoolAccounts ==
  ASSUME PoolInv(buffers, held), evictionTimer \in BOOLEAN,
         BytesInv(buffers, memory, currentCacheSize)
  PROVE  Accounted
<1>1. \A b : Holds(held, b) <=> b \in Held
  BY DEF Holds, Held
<1>2. \A p \in Slots : /\ p = <<p[1], p[2]>> /\ p[1] \in Keys /\ p[2] \in DOMAIN buffers[p[1]]
                       /\ EntryAt(p) = buffers[p[1]][p[2]]
  BY SlotOf
<1>3. TypeOK
  <2>1. /\ buffers \in [Keys -> Seq(Entries)] /\ held \in [Callers -> Acquired \cup {Nothing}]
    BY DEF PoolInv
  <2>2. DOMAIN memory \subseteq Buffers /\ \A b \in DOMAIN memory : memory[b] \in Nat
    BY DEF BytesInv, Memory
  <2>3. currentCacheSize \in Nat
    <3>1. PICK mem : mem = memory
      OBVIOUS
    <3>2. Memory(mem) /\ currentCacheSize = BytesOf(mem)
      BY <3>1 DEF BytesInv
    <3>3. PICK total : Sums(total, mem, DOMAIN mem)
      BY <3>2, SumExists DEF Memory
    <3>. QED
      BY <3>2, <3>3, BytesOfIs
  <2>. QED
    BY <2>1, <2>2, <2>3 DEF TypeOK, Acquired
<1>4. Pooled = DOMAIN memory
  <2>1. \A p \in Slots : EntryAt(p).buffer \in DOMAIN memory
    BY <1>2 DEF BytesInv
  <2>2. \A b \in DOMAIN memory : \E p \in Slots : EntryAt(p).buffer = b
    <3> SUFFICES ASSUME NEW b \in DOMAIN memory PROVE \E p \in Slots : EntryAt(p).buffer = b
      OBVIOUS
    <3>1. PICK k \in Keys : \E i \in DOMAIN buffers[k] : buffers[k][i].buffer = b
      BY DEF BytesInv
    <3>2. PICK i \in DOMAIN buffers[k] : buffers[k][i].buffer = b
      BY <3>1
    <3>3. <<k, i>> \in Slots /\ EntryAt(<<k, i>>).buffer = b
      BY <3>2 DEF Slots, EntryAt
    <3>. QED
      BY <3>3
  <2>. QED
    BY <2>1, <2>2 DEF Pooled
<1>5. \A p, q \in Slots : EntryAt(p).buffer = EntryAt(q).buffer => p = q
  BY <1>2 DEF PoolInv
<1>6. \A p \in Slots : EntryAt(p).inUse <=> EntryAt(p).buffer \in Held
  BY <1>1, <1>2 DEF PoolInv
<1>7. currentCacheSize = BytesOf(memory)
  BY DEF BytesInv
<1>. QED
  BY <1>3, <1>4, <1>5, <1>6, <1>7 DEF Accounted

(* The part of the invariant that splices at stale indices leave intact. *)
PoolIsShared == PoolInv(buffers, held) /\ evictionTimer \in BOOLEAN

(* Every entry of the pool (BufferPool.ts) has a buffer of its own, which   *)
(* at most one caller holds, and it is in use exactly as long as that: for  *)
(* every sequence of acquire, release, evictToSize, clear and ticks, also   *)
(* where evictToSize splices by indices that have moved.                    *)
THEOREM PoolInvariance == Spec => []PoolIsShared
<1>1. Init => PoolIsShared
  BY PoolInit DEF PoolIsShared
<1>2. PoolIsShared /\ [Next]_vars => PoolIsShared'
  BY PoolStep DEF PoolIsShared
<1>. QED
  BY <1>1, <1>2, PTL DEF Spec

(* HeldSurvives: neither the age limit, nor evictToSize, nor an acquire     *)
(* that reaches the cache limit destroys a buffer that somebody holds.      *)
THEOREM HeldIsKept == Spec => HeldSurvives
<1>1. ASSUME PoolIsShared, [Next]_vars
      PROVE  [\A c \in Callers :
                held[c] # Nothing /\ held[c].buffer \in DOMAIN memory =>
                  \/ held[c].buffer \in DOMAIN memory'
                  \/ \A k \in Keys : buffers'[k] = <<>>]_vars
  <2>1. \/ \A x \in DOMAIN memory : Holds(held, x) => x \in DOMAIN memory'
        \/ \A k \in Keys : buffers'[k] = <<>>
    BY <1>1, PoolStep DEF PoolIsShared
  <2>2. \A c \in Callers : held[c] # Nothing => Holds(held, held[c].buffer)
    BY DEF Holds
  <2>. QED
    BY <2>1, <2>2
<1>. QED
  BY <1>1, PoolInvariance, PTL DEF Spec, HeldSurvives

(* Accounted: currentCacheSize is the bytes of the buffers that exist, and  *)
(* these are the buffers of the entries, as long as no evictToSize takes    *)
(* two buffers of one class (the run shows what happens when one does).     *)
THEOREM PoolIsAccounted ==
  ASSUME DeepShrinks = FALSE
  PROVE  Spec => []Accounted
<1> DEFINE Counted == PoolIsShared /\ BytesInv(buffers, memory, currentCacheSize)
<1>1. Init => Counted
  BY PoolInit DEF PoolIsShared
<1>2. Counted /\ [Next]_vars => Counted'
  BY PoolStep DEF PoolIsShared
<1>3. Counted => Accounted
  BY PoolAccounts DEF PoolIsShared
<1> HIDE DEF Counted
<1>. QED
  BY <1>1, <1>2, <1>3, PTL DEF Spec

(* HandedOut: what acquire returns exists, is large enough and is held by   *)
(* nobody else, as long as no evictToSize takes two buffers of one class.   *)
THEOREM HandedOutIsFit ==
  ASSUME DeepShrinks = FALSE
  PROVE  Spec => HandedOut
<1> DEFINE Counted == PoolIsShared /\ BytesInv(buffers, memory, currentCacheSize)
<1>1. Init => Counted
  BY PoolInit DEF PoolIsShared
<1>2. Counted /\ [Next]_vars => Counted'
  BY PoolStep DEF PoolIsShared
<1>3. ASSUME Counted, [Next]_vars
      PROVE  [\A c \in Callers :
                held[c] = Nothing /\ held'[c] # Nothing =>
                  /\ held'[c].buffer \in DOMAIN memory'
                  /\ memory'[held'[c].buffer] >= held'[c].size
                  /\ held'[c].buffer \notin Held]_vars
  <2>1. \A b : Holds(held, b) <=> b \in Held
    BY DEF Holds, Held
  <2>2. CASE Next
    BY <1>3, <2>1, <2>2, HandsOut DEF PoolIsShared
  <2>. QED
    BY <1>3, <2>2
<1> HIDE DEF Counted
<1>. QED
  BY <1>1, <1>2, <1>3, PTL DEF Spec, HandedOut
=============================================================================
