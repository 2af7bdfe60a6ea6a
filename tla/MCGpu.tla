------------------------------- MODULE MCGpu -------------------------------
(***************************************************************************)
(* The two machines of the GPU foundation in one run: the first state says *)
(* which one moves, the other one rests, so their states add up.           *)
(***************************************************************************)
EXTENDS BufferPool

CONSTANTS Calls, Domains, MaxContexts, MaxDevices

(* What GpuDispatch takes for granted of its bounds. *)
ASSUME DispatchAssumption ==
  MaxContexts \in Nat /\ MaxDevices \in Nat

VARIABLES
  part,   (* "pool" or "dispatch" *)
  context, globalContext, device, watched, inFlight, gpuQueue, at, domain,
  promised, resources, job, result, orphaned, overtaken

Dispatch == INSTANCE GpuDispatch

dispatchVars == <<context, globalContext, device, watched, inFlight, gpuQueue, at, domain,
                  promised, resources, job, result, orphaned, overtaken>>
all == <<part, vars, dispatchVars>>

(* The calls are interchangeable, and so are the domains: which call is made *)
(* first, and its domain, can be fixed.                                      *)
FirstCall == CHOOSE c \in Calls : TRUE
FirstIsMade == (\E c \in Calls : at[c] # "new") => at[FirstCall] # "new"
MCInit ==
  /\ part \in {"pool", "dispatch"}
  /\ Init /\ Dispatch!Init
  /\ domain[FirstCall] = CHOOSE m \in Domains : TRUE

MCNext ==
  \/ part = "pool" /\ Next /\ UNCHANGED <<part, dispatchVars>>
  \/ part = "dispatch" /\ Dispatch!Next /\ FirstIsMade' /\ UNCHANGED <<part, vars>>

(* The fairness of both machines, each only where it moves. *)
MCFairness ==
  /\ WF_vars(part = "pool" /\ Tick)
  /\ WF_vars(part = "pool" /\ TimerFires)
  /\ \A g \in 1..MaxContexts : WF_dispatchVars(part = "dispatch" /\ Dispatch!Settles(g))
  /\ WF_dispatchVars(part = "dispatch" /\ Dispatch!Begin)
  /\ \A c \in Calls : WF_dispatchVars(part = "dispatch" /\ Dispatch!Goes(c))

MCSpec == MCInit /\ [][MCNext]_all /\ MCFairness

-----------------------------------------------------------------------------
(* A dispatch that returns data ran its commands.                           *)
NoSilentZeros == Dispatch!NoSilentZeros
(* One live device, and never a lost one in the cache; the state is well    *)
(* formed.                                                                  *)
SharedDevice == Dispatch!TypeOK /\ Dispatch!SharedDevice
(* Every dispatch settles.                                                  *)
DispatchSettles == Dispatch!DispatchSettles
=============================================================================
