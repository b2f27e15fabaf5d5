----------------------------- MODULE SkipThrottle -----------------------------
(***************************************************************************)
(* The throttle on "configuration is missing or invalid" warnings:         *)
(* _skip_invalid_config of app/services/action_runner.py over              *)
(* IntegrationStateManager.set_if_absent of app/services/state.py, called  *)
(* by any number of overlapping runs of one integration's pull.            *)
(***************************************************************************)
EXTENDS Integers, FiniteSets

CONSTANTS
  Runs,         \* overlapping runs that find the configuration invalid
  MaxAttempts,  \* attempts stamina makes at one Redis call, or one publish
  MaxFaults     \* bound: failed calls, lost replies and dead processes

ASSUME ThrottleAssumption ==
  /\ IsFiniteSet(Runs)
  /\ MaxAttempts \in Nat \ {0}
  /\ MaxFaults \in Nat

VARIABLES
  key,      \* the throttle key in Redis: absent, or set and whether a run was told
  pc,       \* where a run is
  tries,    \* failed attempts of its current call
  owed,     \* windows opened minus warnings the portal got
  faults

vars == <<key, pc, tries, owed, faults>>

Goto(r, place) ==
  /\ pc' = [pc EXCEPT ![r] = place]
  /\ tries' = [tries EXCEPT ![r] = 0]

Fault == faults < MaxFaults /\ faults' = faults + 1

(* Mutant: stamina never gives up. *)
RetryForever(r, place) == tries' = [tries EXCEPT ![r] = @ + 1] /\ UNCHANGED pc

(* stamina: another attempt, or the exception leaves the call for place. *)
RetryOr(r, place) ==
  IF tries[r] + 1 < MaxAttempts
  THEN tries' = [tries EXCEPT ![r] = @ + 1] /\ UNCHANGED pc
  ELSE Goto(r, place)

(* A scheduled run finds the configuration invalid. *)
Skip(r) ==
  /\ pc[r] = "idle"
  /\ Goto(r, "set")
  /\ UNCHANGED <<key, owed, faults>>

-----------------------------------------------------------------------------
(* Mutant: SET without nx. *)
SetAlways(r) ==
  /\ pc[r] = "set"
  /\ key' = "told"
  /\ owed' = IF key = "absent" THEN owed + 1 ELSE owed
  /\ Goto(r, "warn")
  /\ UNCHANGED faults

(* SET key 1 EX ttl NX and its reply. *)
SetIfAbsent(r) ==
  /\ pc[r] = "set"
  /\ IF key = "absent"
     THEN Goto(r, "warn") /\ key' = "told" /\ owed' = owed + 1
     ELSE Goto(r, "idle") /\ UNCHANGED <<key, owed>>
  /\ UNCHANGED faults

(* The call fails or its reply is lost.  When it keeps failing, the run      *)
(* publishes the warning.                                                    *)
SetRaises(r) ==
  /\ pc[r] = "set" /\ Fault
  /\ \/ UNCHANGED <<key, owed>>
     \/ key = "absent" /\ key' = "untold" /\ owed' = owed + 1
  /\ RetryOr(r, "warn")

(* log_action_activity: the portal gets the warning. *)
Publish(r) ==
  /\ pc[r] = "warn"
  /\ owed' = owed - 1
  /\ Goto(r, "idle")
  /\ UNCHANGED <<key, faults>>

(* The publish raises although the portal may have got the warning. *)
PublishRaises(r) ==
  /\ pc[r] = "warn" /\ Fault
  /\ owed' \in {owed, owed - 1}
  /\ RetryOr(r, "idle")
  /\ UNCHANGED key

(* The process that carries the run dies. *)
Crash(r) ==
  /\ pc[r] # "idle" /\ Fault
  /\ Goto(r, "idle")
  /\ UNCHANGED <<key, owed>>

(* Mutant: the key is stored without a time to live. *)
ExpireNever == FALSE /\ UNCHANGED vars

(* SKIP_WARNING_THROTTLE_SECONDS have passed since the SET with that EX. *)
Expire ==
  /\ key # "absent"
  /\ key' = "absent"
  /\ UNCHANGED <<pc, tries, owed, faults>>

-----------------------------------------------------------------------------
Init ==
  /\ key = "absent"
  /\ pc = [r \in Runs |-> "idle"]
  /\ tries = [r \in Runs |-> 0]
  /\ owed = 0 /\ faults = 0

Proceed(r) == SetIfAbsent(r) \/ Publish(r)

Next ==
  \/ \E r \in Runs :
       Skip(r) \/ Proceed(r) \/ SetRaises(r) \/ PublishRaises(r) \/ Crash(r)
  \/ Expire

Spec == Init /\ [][Next]_vars

(* The portal keeps scheduling the pull, and Redis expires the key. *)
FairSpec ==
  /\ Spec
  /\ WF_vars(\E r \in Runs : Skip(r))
  /\ \A r \in Runs : WF_vars(Proceed(r))
  /\ WF_vars(Expire)

-----------------------------------------------------------------------------
(* Every variable has its type. *)
TypeOK ==
  /\ key \in {"absent", "told", "untold"}
  /\ pc \in [Runs -> {"idle", "set", "warn"}]
  /\ tries \in [Runs -> 0..MaxAttempts-1]
  /\ owed \in Int
  /\ faults \in 0..MaxFaults

(* The runs that have been told, or have had to assume, that they are first. *)
Warning == {r \in Runs : pc[r] = "warn"}

(* One warning per window, "throttled to at most once per                    *)
(* SKIP_WARNING_THROTTLE_SECONDS" (action_runner.py:146-148): of the windows *)
(* opened, those that neither had a warning nor have a run about to give it, *)
(* less the warnings too many, are no more than the calls that failed and    *)
(* processes that died, either way.  An outage fails open but never          *)
(* amplifies, and no other run's overlap silences a window.                  *)
Unwarned == owed - Cardinality(Warning)

OneWarningPerWindow == -faults <= Unwarned /\ Unwarned <= faults

(* A persistently broken source stays noticeable (action_runner.py:256-259): *)
(* the warning is published again and again, whatever failed before.         *)
StaysNoticeable == []<><<\E r \in Runs : Publish(r)>>_vars

(* set_if_absent: "the first caller in each window gets True"                *)
(* (state.py:38-39).                                                         *)
FirstGetsTrue == (\A r \in Runs : pc[r] # "set") => key # "untold"
=============================================================================
