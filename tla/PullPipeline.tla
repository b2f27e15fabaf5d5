---------------------------- MODULE PullPipeline ----------------------------
(***************************************************************************)
(* The part of action_pull_observations (app/actions/handlers.py) that     *)
(* decides what to send, composed in the order in which it runs: the calls *)
(* to TrackIt (TrackitClient), the rows of their answer (CollapseRows),    *)
(* the watermarks of the devices left (GatherLimited), and the decision    *)
(* about each (CollapseRows again).  action_auth makes only the first.     *)
(* wait_for of execute_action cancels it where it awaits: not in the loops.*)
(***************************************************************************)
EXTENDS CollapseRows, TrackitClient, GatherLimited

(* The operations of a gather are named for their devices. *)
ASSUME PipelineAssumption == Ops = Imeis

pipelineVars == <<vars, clientVars, gatherVars>>

Snapshots == UNION {[1..n -> Row] : n \in 0..MaxRows}

-----------------------------------------------------------------------------
Calls ==
  /\ Post \/ AnswerFails \/ TokenArrives \/ RequestFails
  /\ UNCHANGED <<vars, gatherVars>>

(* What TrackIt answers, and what Redis holds, are anything.                 *)
Extract ==
  /\ LiveDataArrives
  /\ rows' \in Snapshots
  /\ stored' \in [Imeis -> Marks]
  /\ UNCHANGED <<offset, i, latest, noFix, skewed, new, pending, pc, gatherVars>>

Read ==
  /\ call = "rows"
  /\ ReadRow
  /\ UNCHANGED <<clientVars, gatherVars>>

(* The watermarks of the devices that have a fix are fetched concurrently.   *)
Prefetch ==
  /\ call = "rows"
  /\ RowsRead
  /\ Begin(pending')
  /\ UNCHANGED clientVars

(* An unusable value is one whose read fails (not JSON), or ends well and     *)
(* fails the decision.                                                       *)
Fetch ==
  /\ \E d \in DOMAIN ops : Acquire(d) \/ Succeed(d) \/ Fail(d) \/ Unwind(d)
  /\ UNCHANGED <<vars, clientVars>>

(* wait_for: during the calls, or while the watermarks are fetched.          *)
Interrupt ==
  /\ \/ TimeOut /\ UNCHANGED gatherVars
     \/ CancelAll /\ UNCHANGED clientVars
  /\ UNCHANGED vars

(* All have ended: the pull goes on, or ends with a Redis error or a timeout.*)
Fetched ==
  /\ Settle
  /\ IF gather' = "returned" THEN UNCHANGED <<call, verdict>>
     ELSE call' = "end" /\ verdict' = Classify(
                             IF gather' = "raised" THEN "RedisError" ELSE "TimeoutError")
  /\ UNCHANGED <<vars, action, inFlight, attempt, open, answer>>

(* Mutant: a failed read counts as no watermark.                             *)
JudgeAnyway ==
  /\ gather \in {"returned", "raised"}
  /\ (\E d \in Imeis : Decide(d) \/ DecisionRaises(d)) \/ Decided
  /\ UNCHANGED <<clientVars, gatherVars>>

Judge ==
  /\ gather = "returned"
  /\ (\E d \in Imeis : Decide(d) \/ DecisionRaises(d)) \/ Decided
  /\ UNCHANGED <<clientVars, gatherVars>>

-----------------------------------------------------------------------------
PipelineInit ==
  /\ ClientInit
  /\ ops = [d \in {} |-> "waiting"] /\ slots = Limit /\ gather = "idle"
  /\ rows = <<>> /\ offset \in Offsets
  /\ stored = [d \in Imeis |-> Absent]
  /\ i = 1 /\ latest = [d \in Imeis |-> 0] /\ noFix = 0
  /\ skewed = {} /\ new = {} /\ pending = {}
  /\ pc = "rows"

PipelineProgress ==
  Calls \/ Extract \/ Read \/ Prefetch \/ Fetch \/ Fetched \/ Judge

PipelineNext == PipelineProgress \/ Interrupt

PipelineSpec == PipelineInit /\ [][PipelineNext]_pipelineVars

(* The event loop keeps running the action.  Its requests and Redis          *)
(* operations end: the former have timeouts, the latter bounded retries.     *)
(* That wait_for interrupts it is not counted on.                            *)
FairPipelineSpec == PipelineSpec /\ WF_pipelineVars(PipelineProgress)

-----------------------------------------------------------------------------
(* The components' type invariants, and that they take turns: TrackIt is     *)
(* called, then rows are read, then watermarks, then decisions made.         *)
PipelineTypeOK ==
  /\ TypeOK /\ ClientTypeOK /\ GatherTypeOK
  /\ rows # <<>> => answer["live"] = "good"
  /\ gather # "idle" => pc # "rows"

(* However an action ends, by success, error or cancellation at any await,   *)
(* nothing of it is left running: no HTTP session is open, no Redis          *)
(* operation waits or runs (handlers.py:47-48, client.py:31-36).             *)
NothingLeftRunning ==
  (call = "end" \/ pc \in {"done", "raised"}) =>
    open = {} /\ \A d \in DOMAIN ops : ops[d] \notin {"waiting", "running"}

(* A device is decided on only by its own watermark: every device of the     *)
(* snapshot that has a fix has been read from Redis, none failed, before the *)
(* first decision; one failed read sends nothing (handlers.py:167-183).      *)
DecidedOnWatermarks ==
  new \cup skewed # {} =>
    \A d \in Imeis : latest[d] # 0 => d \in DOMAIN ops /\ ops[d] = "done"

(* TrackIt is called unreachable on evidence as long as it is being called:  *)
(* a timeout while the watermarks are read is reported in the same words.    *)
CallVerdictHasEvidence == gather = "idle" => VerdictHasEvidence

(* Every action comes to an end, whatever TrackIt answers and whichever      *)
(* reads fail: no operation waits for a slot that is never given back.       *)
EveryActionEnds == <>(call = "end" \/ pc \in {"done", "raised"})

-----------------------------------------------------------------------------
(* The invocation that this is of those of PullObservations, and where it is *)
(* there: posting and recording come after the last decision.                *)
Me == "this pull"

Place ==
  IF action = "auth" THEN "idle"
  ELSE IF call = "end" \/ pc = "raised" THEN "failed"
  ELSE IF pc = "rows" THEN "fetch" ELSE "read"

(* The newest fix that TrackIt reports of a device.                          *)
Fixes(d) == {j \in DOMAIN rows : rows[j].imei = d /\ HasValidPosition(rows[j])}

Newest(d) ==
  CHOOSE t \in {0} \cup {rows[j].time : j \in Fixes(d)} : \A j \in Fixes(d) : rows[j].time <= t

Feed == [d \in Imeis |-> Newest(d)]

(* The fix kept of a device; the devices whose state can be decided on; and  *)
(* which of them new_items will have: it is filled when all have been read,  *)
(* each by what was read of it.                                              *)
Seen(d) == IF pc = "rows" \/ latest[d] = 0 THEN 0 ELSE Kept(d).time

Usable == {d \in InState({"done"}) : stored[d] # Unusable}

Wanted == {d \in Usable : ~Known(d) /\ ~TooFarAhead(Kept(d).time)}

Locals ==
  LET live == Place \in {"fetch", "read"}
  IN [horizon |-> IF live THEN Now + Skew + offset ELSE 0,
      seen    |-> [d \in Imeis |-> IF live THEN Seen(d) ELSE 0],
      waiting |-> IF live THEN DOMAIN ops \ Usable ELSE {},
      todo    |-> IF ~live THEN {} ELSE IF pc = "done" THEN new ELSE Wanted,
      sent |-> {}, batch |-> {}, tries |-> 0, wfail |-> FALSE]

Pull == INSTANCE PullObservations WITH
  Runs <- {Me}, Devices <- Imeis, MaxClock <- Now, BatchSize <- 1, MaxFaults <- 1,
  Serial <- FALSE, Garbled <- -1, Leftovers <- {Absent, Unusable},
  feed <- Feed, watermark <- stored, clock <- Now, delivered <- {},
  pc <- [r \in {Me} |-> Place], run <- [r \in {Me} |-> Locals],
  faults <- IF Place = "failed" THEN 1 ELSE 0

(* It begins as StartPull leaves it, unless it is an action_auth.            *)
Started ==
  IF action = "auth" THEN Place = "idle" /\ Locals = Pull!NoLocals
  ELSE /\ Place = "fetch"
       /\ \E o \in Offsets : Locals = [Pull!NoLocals EXCEPT !.horizon = Now + Skew + o]

(* The devices report fixes, and other invocations record theirs.            *)
Elsewhere == UNCHANGED <<Place, Locals>>

PullStep ==
  \/ Pull!ExtractVehicles(Me)
  \/ \E d \in Imeis : Pull!ReadState(Me, d)
  \/ Pull!CallRaises(Me)
  \/ Elsewhere

(* In detail, one invocation of the pull does what PullObservations says it  *)
(* does: it sees the newest fix of every device; a device is decided on, when*)
(* all have been read, as its own read and the horizon of the start say; and *)
(* a failure or timeout anywhere before the last decision ends it at once,   *)
(* with nothing to send (handlers.py:127-195).  Any value may be stored: an  *)
(* unusable one is never decided on.                                         *)
ImplementsPull == Started /\ [][PullStep]_(Pull!vars)
=============================================================================
