---------------------------- MODULE GatherLimited ----------------------------
(***************************************************************************)
(* _gather_limited of app/actions/handlers.py: a set of Redis operations   *)
(* run concurrently under a semaphore.  A failing operation neither stops  *)
(* the others nor keeps its slot, and the caller sees the result, or the   *)
(* failure, only when every operation has ended.  wait_for may cancel it.  *)
(***************************************************************************)
EXTENDS Integers, FiniteSets

CONSTANTS
  Ops,    \* the operations there can be: one per device
  Limit   \* MAX_CONCURRENT_STATE_OPS

ASSUME GatherAssumption ==
  /\ IsFiniteSet(Ops)
  /\ Limit \in Nat \ {0}

VARIABLES
  ops,    \* the state of each operation of this gather
  slots,  \* the value of the semaphore
  gather  \* what the caller sees of it

gatherVars == <<ops, slots, gather>>

Ended == {"done", "failed", "cancelled"}

InState(states) == {k \in DOMAIN ops : ops[k] \in states}

(* The caller hands over a list of coroutines; none has started. *)
Begin(batch) ==
  /\ ops' = [k \in batch |-> "waiting"]
  /\ slots' = Limit
  /\ gather' = "gathering"

(* async with semaphore; a task that is to be cancelled does not get in.     *)
Acquire(k) ==
  /\ gather = "gathering"
  /\ ops[k] = "waiting" /\ slots > 0
  /\ ops' = [ops EXCEPT ![k] = "running"]
  /\ slots' = slots - 1
  /\ UNCHANGED gather

Release(k, state) ==
  /\ ops' = [ops EXCEPT ![k] = state]
  /\ slots' = slots + 1

Succeed(k) ==
  /\ gather = "gathering" /\ ops[k] = "running"
  /\ Release(k, "done")
  /\ UNCHANGED gather

(* Mutant: the slot is given back only after a success. *)
FailKeepingSlot(k) ==
  /\ gather = "gathering" /\ ops[k] = "running"
  /\ ops' = [ops EXCEPT ![k] = "failed"]
  /\ UNCHANGED <<slots, gather>>

Fail(k) ==
  /\ gather = "gathering" /\ ops[k] = "running"
  /\ Release(k, "failed")
  /\ UNCHANGED gather

(* The caller is cancelled, and gather cancels every task. *)
CancelAll ==
  /\ gather = "gathering"
  /\ gather' = "cancelling"
  /\ UNCHANGED <<ops, slots>>

(* CancelledError reaches a task, which leaves the semaphore if it was in.   *)
Unwind(k) ==
  /\ gather = "cancelling"
  /\ \/ ops[k] = "waiting" /\ ops' = [ops EXCEPT ![k] = "cancelled"] /\ UNCHANGED slots
     \/ ops[k] = "running" /\ Release(k, "cancelled")
  /\ UNCHANGED gather

(* Mutant: gather without return_exceptions raises with the first failure.   *)
SettleAtFirstFailure ==
  /\ gather \in {"gathering", "cancelling"}
  /\ InState({"failed"}) # {} \/ DOMAIN ops = InState(Ended)
  /\ gather' = IF gather = "cancelling" THEN "cancelled"
               ELSE IF InState({"failed"}) # {} THEN "raised" ELSE "returned"
  /\ UNCHANGED <<ops, slots>>

Settle ==
  /\ gather \in {"gathering", "cancelling"}
  /\ DOMAIN ops = InState(Ended)
  /\ gather' = IF gather = "cancelling" THEN "cancelled"
               ELSE IF InState({"failed"}) # {} THEN "raised" ELSE "returned"
  /\ UNCHANGED <<ops, slots>>

-----------------------------------------------------------------------------
(* The gather of one batch, from its call on. *)
GatherInit ==
  /\ \E batch \in SUBSET Ops : ops = [k \in batch |-> "waiting"]
  /\ slots = Limit
  /\ gather = "gathering"

GatherProgress ==
  \/ \E k \in DOMAIN ops : Acquire(k) \/ Succeed(k) \/ Fail(k) \/ Unwind(k)
  \/ Settle

GatherNext == GatherProgress \/ CancelAll

GatherSpec == GatherInit /\ [][GatherNext]_gatherVars

-----------------------------------------------------------------------------
GatherTypeOK ==
  /\ DOMAIN ops \subseteq Ops
  /\ ops \in [DOMAIN ops -> Ended \cup {"waiting", "running"}]
  /\ slots \in 0..Limit
  /\ gather \in {"idle", "gathering", "cancelling", "returned", "raised", "cancelled"}

(* Every slot is free or held by a running operation, whatever the           *)
(* operations before it came to: the cap holds and no failure uses it up     *)
(* (handlers.py:47-54).                                                      *)
SlotsAccounted == slots + Cardinality(InState({"running"})) = Limit

(* No orphaned in-flight tasks: whatever the caller sees, and however many   *)
(* operations failed, none is still running or about to (handlers.py:47-48). *)
NoOrphans ==
  gather \in {"returned", "raised", "cancelled"} => InState({"waiting", "running"}) = {}

(* Unless it is cancelled every operation is carried out, also after the     *)
(* failure of another, and the caller hears of a failure exactly if there    *)
(* was one (handlers.py:56-60).                                              *)
EveryOpTried ==
  /\ gather \in {"returned", "raised"} => DOMAIN ops = InState({"done", "failed"})
  /\ gather \in {"returned", "raised"} => (gather = "raised" <=> InState({"failed"}) # {})
=============================================================================
