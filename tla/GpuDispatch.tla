---------------------------- MODULE GpuDispatch ----------------------------
(***************************************************************************)
(* How every GPU dispatch of the library gets its device and its answer:   *)
(* gpu/src/GPUContext.ts and device.ts (contexts, the shared device and    *)
(* its loss), serialize.ts (one dispatch at a time), and the lifecycle of  *)
(* functions/src/gpu/elementwise-gpu.ts and fft-gpu.ts (error scope,       *)
(* submit, readback).  One action is one turn between two awaits.          *)
(***************************************************************************)
EXTENDS Naturals, Sequences, FiniteSets

CONSTANTS
  Calls,         (* dispatches                                               *)
  Domains,       (* the modules that dispatch, each with its own resources   *)
  MaxContexts,   (* bound: GPUContexts                                       *)
  MaxDevices     (* bound: devices                                           *)

VARIABLES
  context,       (* the GPUContexts made by getGlobalGPUContext              *)
  globalContext, (* the present one, 0 if there is none                      *)
  device,        (* the GPUDevices that were granted                         *)
  watched,       (* the devices whose loss device.ts listens to              *)
  inFlight,      (* inFlightDevice                                           *)
  gpuQueue,      (* calls behind the running one, oldest first               *)
  at,            (* where each call is                                       *)
  domain,        (* the module each call belongs to                          *)
  promised,      (* the promise of getGpuDevice it has                       *)
  resources,     (* the cached shaders and buffers of each module            *)
  job,           (* what became of the commands a call submitted             *)
  result,        (* what each call returned                                  *)
  orphaned,      (* history: was a context destroyed while it initialised?   *)
  overtaken      (* history: was a device granted while the loss of another  *)
                 (* was not yet reported?                                    *)

history    == <<orphaned, overtaken>>
deviceVars == <<context, globalContext, device, watched, inFlight, history>>
callVars   == <<gpuQueue, at, domain, promised, resources, job, result>>
vars == <<deviceVars, callVars>>

-----------------------------------------------------------------------------
(* A promise of getGpuDevice: it waits for a context's initialize, or is a  *)
(* device, 0 for null.                                                      *)
Empty      == [kind |-> "empty",   id |-> 0]
Pending(g) == [kind |-> "pending", id |-> g]
Value(d)   == [kind |-> "value",   id |-> d]
Promises == [kind : {"empty", "pending", "value"}, id : Nat]

NewContext == [status |-> "uninitialized", device |-> 0, starting |-> FALSE, asked |-> FALSE]
NoResources == [device |-> 0, via |-> 0, pooled |-> {}]
NoJob == [ran |-> FALSE, error |-> FALSE, staging |-> 0]

TypeOK ==
  /\ context \in Seq([status : {"uninitialized", "initializing", "ready", "lost", "error"},
                      device : 0..MaxDevices, starting : BOOLEAN, asked : BOOLEAN])
  /\ globalContext \in 0..Len(context)
  /\ device \in Seq([state : {"live", "lost", "told"}, context : 1..MaxContexts])
  /\ watched \subseteq DOMAIN device
  /\ inFlight \in Promises
  /\ gpuQueue \in Seq(Calls)
  /\ at \in [Calls -> {"new", "queued", "waits", "has", "popping", "mapping", "done"}]
  /\ promised \in [Calls -> Promises]
  /\ resources \in [Domains -> [device : 0..MaxDevices, via : 0..MaxContexts,
                                pooled : SUBSET (1..MaxDevices)]]
  /\ job \in [Calls -> [ran : BOOLEAN, error : BOOLEAN, staging : 0..MaxDevices]]
  /\ result \in [Calls -> {"none", "data", "null"}]
  /\ orphaned \in BOOLEAN /\ overtaken \in BOOLEAN

Init ==
  /\ context = <<>> /\ globalContext = 0
  /\ device = <<>> /\ watched = {} /\ inFlight = Empty
  /\ gpuQueue = <<>>
  /\ at = [c \in Calls |-> "new"]
  /\ domain \in [Calls -> Domains]
  /\ promised = [c \in Calls |-> Empty]
  /\ resources = [m \in Domains |-> NoResources]
  /\ job = [c \in Calls |-> NoJob]
  /\ result = [c \in Calls |-> "none"]
  /\ orphaned = FALSE /\ overtaken = FALSE

Live(d) == d # 0 /\ device[d].state = "live"

-----------------------------------------------------------------------------
(* GPUContext *)

(* getGlobalGPUContext: the contexts, and which one is the global one. *)
Contexts == IF globalContext = 0 THEN Append(context, NewContext) ELSE context
Global   == IF globalContext = 0 THEN Len(context) + 1 ELSE globalContext
CanMakeContext == globalContext # 0 \/ Len(context) < MaxContexts

(* initialize, up to its await: nothing to do if the context is ready; a    *)
(* second caller joins the first.  asked: getGpuDevice waits for it.        *)
Initialized(ctx, asks) ==
  IF ctx.status = "ready" THEN ctx
  ELSE IF ctx.starting THEN [ctx EXCEPT !.asked = @ \/ asks]
  ELSE [ctx EXCEPT !.status = "initializing", !.starting = TRUE, !.asked = @ \/ asks]

(* initializeGlobalGPU, and GPUBackend.initialize. *)
InitializeGlobal ==
  /\ CanMakeContext
  /\ context' = [Contexts EXCEPT ![Global] = Initialized(@, FALSE)]
  /\ globalContext' = Global
  /\ UNCHANGED <<device, watched, inFlight, history, callVars>>

(* The promises of getGpuDevice that waited for context g. *)
Resolve(g, d) ==
  /\ inFlight' = IF inFlight = Pending(g) THEN Value(d) ELSE inFlight
  /\ promised' = [c \in Calls |-> IF promised[c] = Pending(g) THEN Value(d) ELSE promised[c]]
  /\ at' = [c \in Calls |-> IF at[c] = "waits" /\ promised[c] = Pending(g) THEN "has" ELSE at[c]]
  /\ UNCHANGED <<gpuQueue, domain, resources, job, result>>

(* From the device to the submit a call takes no turn of the event loop, so *)
(* no request settles meanwhile.                                            *)
NoneHas == \A c \in Calls : at[c] # "has"

(* _doInitialize ends with a device, whatever happened to its context. *)
DeviceGranted(g) ==
  LET d == Len(device) + 1
  IN  /\ context[g].starting /\ NoneHas
      /\ d <= MaxDevices
      /\ device' = Append(device, [state |-> "live", context |-> g])
      /\ context' = [context EXCEPT ![g] = [status |-> "ready", device |-> d,
                                            starting |-> FALSE, asked |-> FALSE]]
      /\ watched' = IF context[g].asked THEN watched \cup {d} ELSE watched
      /\ Resolve(g, d)
      /\ overtaken' = (overtaken \/ \E e \in DOMAIN device : device[e].state = "lost")
      /\ UNCHANGED <<globalContext, orphaned>>

(* A fault: nobody hears of it. *)
InitializeFailsSilently(g) ==
  /\ context[g].starting
  /\ context' = [context EXCEPT ![g].status = "error", ![g].starting = FALSE, ![g].asked = FALSE]
  /\ UNCHANGED <<globalContext, device, watched, inFlight, history, callVars>>

(* No WebGPU, no adapter, no device: null. *)
InitializeFails(g) ==
  /\ context[g].starting /\ NoneHas
  /\ context' = [context EXCEPT ![g].status = "error", ![g].starting = FALSE, ![g].asked = FALSE]
  /\ Resolve(g, 0)
  /\ UNCHANGED <<globalContext, device, watched, history>>

(* destroyGlobalGPU *)
DestroyGlobal ==
  LET d == context[globalContext].device
  IN  /\ globalContext # 0 /\ Len(context) < MaxContexts
      /\ device' = IF Live(d) THEN [device EXCEPT ![d].state = "lost"] ELSE device
      /\ context' = [context EXCEPT ![globalContext].device = 0,
                                    ![globalContext].status = "uninitialized"]
      /\ globalContext' = 0
      /\ orphaned' = (orphaned \/ context[globalContext].starting)
      /\ UNCHANGED <<watched, inFlight, overtaken, callVars>>

(* The GPU fails. *)
DeviceLost(d) ==
  /\ Live(d)
  /\ device' = [device EXCEPT ![d].state = "lost"]
  /\ UNCHANGED <<context, globalContext, watched, inFlight, history, callVars>>

(* A fault: device.ts keeps the cached promise. *)
LostKeepsDevice(d) == inFlight

(* resetGpuDevice, on the loss of any device device.ts ever handed out. *)
LostDropsDevice(d) == IF d \in watched THEN Empty ELSE inFlight

(* device.lost resolves: the handlers of the context and of device.ts. *)
LossReported(d) ==
  /\ device[d].state = "lost"
  /\ device' = [device EXCEPT ![d].state = "told"]
  /\ context' = [context EXCEPT ![device[d].context].status = "lost"]
  /\ inFlight' = LostDropsDevice(d)
  /\ UNCHANGED <<globalContext, watched, history, callVars>>

ResetDevice ==
  /\ inFlight' = Empty
  /\ UNCHANGED <<context, globalContext, device, watched, history, callVars>>

-----------------------------------------------------------------------------
(* The dispatch *)

Queue(c) ==
  /\ at[c] = "new"
  /\ at' = [at EXCEPT ![c] = "queued"]
  /\ gpuQueue' = Append(gpuQueue, c)
  /\ UNCHANGED <<domain, promised, resources, job, result, deviceVars>>

Running == {c \in Calls : at[c] \in {"waits", "has", "popping", "mapping"}}

Gets(c, promise) ==
  /\ promised' = [promised EXCEPT ![c] = promise]
  /\ at' = [at EXCEPT ![c] = IF promise.kind = "pending" THEN "waits" ELSE "has"]

(* serializeGpu starts the next call, which asks for the device. *)
Begin ==
  /\ gpuQueue # <<>> /\ Running = {}
  /\ gpuQueue' = Tail(gpuQueue)
  /\ LET c == Head(gpuQueue)
     IN  IF inFlight # Empty
         THEN Gets(c, inFlight) /\ UNCHANGED <<context, globalContext, watched, inFlight>>
         ELSE LET ctx     == Contexts[Global]
                  promise == IF ctx.status = "ready" THEN Value(ctx.device) ELSE Pending(Global)
              IN  /\ CanMakeContext
                  /\ context' = [Contexts EXCEPT ![Global] = Initialized(@, TRUE)]
                  /\ globalContext' = Global
                  /\ watched' = IF promise.kind = "value" THEN watched \cup {ctx.device} ELSE watched
                  /\ inFlight' = promise
                  /\ Gets(c, promise)
  /\ UNCHANGED <<domain, resources, job, result, device, history>>

Return(c, answer) ==
  /\ at' = [at EXCEPT ![c] = "done"]
  /\ result' = [result EXCEPT ![c] = answer]
  /\ UNCHANGED <<gpuQueue, domain, promised, job>>

(* getResources: the cached ones if they are of this device, otherwise new  *)
(* ones that take what they need from the global context.                   *)
ResourcesFor(m, d) ==
  IF resources[m].device = d THEN resources[m]
  ELSE [device |-> d, via |-> globalContext, pooled |-> {}]

(* New ones compile their shaders at once, which throws without a device. *)
HasResources(m, d) ==
  resources[m].device = d \/ (globalContext # 0 /\ context[globalContext].device # 0)

(* The devices whose buffers a pool can hand out: those it recycles, and the *)
(* one its context has now (BufferPool keeps the context, not the device).   *)
Obtainable(used) == (used.pooled \cup {context[used.via].device}) \ {0}

(* A fault: the outcome of the error scope is not looked at. *)
ScopeUnchecked(d, valid) == FALSE

(* What the error scope catches: a lost device reports nothing. *)
ScopeError(d, valid) == Live(d) /\ ~valid

(* Everything up to the pop of the error scope is one turn.  fits: the      *)
(* commands break no rule of the device.                                    *)
Submit(c, fits) ==
  LET d    == promised[c].id
      used == ResourcesFor(domain[c], d)
  IN  /\ at[c] = "has" /\ d # 0
      /\ HasResources(domain[c], d)
      /\ \E b \in Obtainable(used) :
           /\ resources' = [resources EXCEPT ![domain[c]] =
                              [used EXCEPT !.pooled = @ \cup {b}]]
           /\ job' = [job EXCEPT ![c] =
                        [ran     |-> Live(d) /\ fits /\ b = d,
                         error   |-> ScopeError(d, fits /\ b = d),
                         staging |-> b]]
      /\ at' = [at EXCEPT ![c] = "popping"]
      /\ UNCHANGED <<gpuQueue, domain, promised, result, deviceVars>>

(* No device, over its limits, or something throws before the submit. *)
Declines(c) ==
  LET d == promised[c].id
  IN  /\ at[c] = "has"
      /\ Return(c, "null")
      /\ resources' = IF d # 0 /\ HasResources(domain[c], d)
                      THEN [resources EXCEPT ![domain[c]] = ResourcesFor(domain[c], d)]
                      ELSE resources
      /\ IF d # 0 /\ resources[domain[c]].device # d
         THEN CanMakeContext /\ context' = Contexts /\ globalContext' = Global
         ELSE UNCHANGED <<context, globalContext>>
      /\ UNCHANGED <<device, watched, inFlight, history>>

(* An error of the scope invalidated the commands; a device that is lost    *)
(* meanwhile may keep it to itself.                                         *)
PopsError(c) ==
  /\ at[c] = "popping" /\ job[c].error
  /\ Return(c, "null")
  /\ UNCHANGED <<resources, deviceVars>>
PopsNothing(c) ==
  /\ at[c] = "popping"
  /\ job[c].error => ~Live(promised[c].id)
  /\ at' = [at EXCEPT ![c] = "mapping"]
  /\ UNCHANGED <<gpuQueue, domain, promised, resources, job, result, deviceVars>>

(* mapAsync: the staging buffer is readable as long as its device lives,    *)
(* and holds zeros if the commands did not run.                             *)
Maps(c) ==
  /\ at[c] = "mapping" /\ Live(job[c].staging)
  /\ Return(c, "data")
  /\ UNCHANGED <<resources, deviceVars>>
MapFails(c) ==
  /\ at[c] = "mapping" /\ ~Live(job[c].staging)
  /\ Return(c, "null")
  /\ UNCHANGED <<resources, deviceVars>>

(* resetGpuElementwise, resetGpuFft: the buffers in use are destroyed too. *)
ResetResources(m) ==
  /\ resources' = [resources EXCEPT ![m] = NoResources]
  /\ job' = [c \in Calls |-> IF c \in Running /\ domain[c] = m
                             THEN [job[c] EXCEPT !.staging = 0] ELSE job[c]]
  /\ UNCHANGED <<gpuQueue, at, domain, promised, result, deviceVars>>

-----------------------------------------------------------------------------

Next ==
  \/ InitializeGlobal \/ DestroyGlobal \/ ResetDevice
  \/ \E g \in DOMAIN context : DeviceGranted(g) \/ InitializeFails(g)
  \/ \E d \in DOMAIN device : DeviceLost(d) \/ LossReported(d)
  \/ Begin
  \/ \E c \in Calls :
       \/ Queue(c)
       \/ Submit(c, TRUE) \/ Submit(c, FALSE) \/ Declines(c)
       \/ PopsError(c) \/ PopsNothing(c)
       \/ Maps(c) \/ MapFails(c)
  \/ \E m \in Domains : ResetResources(m)

Spec == Init /\ [][Next]_vars

(* The promises of the GPU settle, and the event loop runs what is due. *)
Settles(g) == g \in DOMAIN context /\ InitializeFails(g)
Goes(c) == Declines(c) \/ PopsError(c) \/ PopsNothing(c) \/ Maps(c) \/ MapFails(c)

Fairness ==
  /\ \A g \in 1..MaxContexts : WF_vars(Settles(g))
  /\ WF_vars(Begin)
  /\ \A c \in Calls : WF_vars(Goes(c))

FairSpec == Spec /\ Fairness

-----------------------------------------------------------------------------
(* A dispatch that returns data ran its commands, whatever was lost,        *)
(* destroyed, reset or invalid meanwhile (the error scope and the limits of *)
(* elementwise-gpu.ts 343-366 are there for it), with one exception: its    *)
(* device is lost, and it read a buffer of another device.  That takes a    *)
(* device granted before the loss of the old one is reported, or a context  *)
(* destroyed while it started.                                              *)
NoSilentZeros ==
  \A c \in Calls : result[c] = "data" /\ ~job[c].ran =>
    /\ ~Live(promised[c].id) /\ job[c].staging # promised[c].id
    /\ orphaned \/ overtaken

(* "refuse rather than produce zeros" (elementwise-gpu.ts 343), without     *)
(* that exception: not what the code does, even if no context is destroyed  *)
(* while it starts.                                                         *)
NeverZeros == orphaned \/ \A c \in Calls : result[c] = "data" => job[c].ran

(* "stop handing out the corpse" (device.ts 33-38): a device whose loss was *)
(* reported is never cached, and the library has "ONE GPU device" (device.ts*)
(* 4), unless a context was destroyed while it was being initialised.       *)
SharedDevice ==
  /\ inFlight.kind = "value" /\ inFlight.id # 0 => device[inFlight.id].state # "told"
  /\ orphaned \/ Cardinality({d \in DOMAIN device : Live(d)}) <= 1

(* Every dispatch settles, whatever became of the ones before it.           *)
DispatchSettles == \A c \in Calls : at[c] = "queued" ~> at[c] = "done"
=============================================================================
