-------------------------- MODULE PullObservations --------------------------
(***************************************************************************)
(* The scheduled pull, action_pull_observations of app/actions/handlers.py,*)
(* as any number of concurrent invocations of the handler for one          *)
(* integration, sharing the per-device watermarks in Redis and sending to  *)
(* Gundi.  Every await of the handler is a step boundary: another          *)
(* invocation, the clock or a device may act in between.                   *)
(***************************************************************************)
EXTENDS Integers, FiniteSets

CONSTANTS
  Runs,         \* concurrent invocations of the handler
  Devices,      \* the devices TrackIt reports (IMEIs)
  MaxTime,      \* bound: naive device timestamps are 1..MaxTime
  MaxClock,     \* bound: the UTC clock runs over 0..MaxClock
  Skew,         \* MAX_FUTURE_SKEW
  Offsets,      \* the gps_utc_offset values the operator configures
  BatchSize,    \* OBSERVATIONS_BATCH_SIZE
  MaxAttempts,  \* attempts stamina makes to post one batch
  MaxFaults,    \* bound: failed calls, lost replies and cancelled runs
  Serial,       \* TRUE: no two invocations are in progress at once
  Absent,       \* no value under a watermark key
  Garbled,      \* a JSON object whose latest_gps_time is not an ISO time
  Unusable,     \* not JSON, no JSON object, or a time with a UTC offset
  Leftovers     \* what the watermark keys may hold before the first run

Times == 1..MaxTime
Marks == Times \cup {Absent, Garbled, Unusable}

ASSUME PullAssumption ==
  /\ IsFiniteSet(Devices)
  /\ {MaxTime, MaxClock, Skew, MaxFaults} \subseteq Nat
  /\ {BatchSize, MaxAttempts} \subseteq Nat \ {0}
  /\ Offsets \subseteq Int /\ Offsets # {}
  /\ Serial \in BOOLEAN
  /\ {Absent, Garbled, Unusable} \cap Nat = {}
  /\ Cardinality({Absent, Garbled, Unusable}) = 3
  /\ Leftovers \subseteq {Absent, Garbled, Unusable}

VARIABLES
  feed,       \* per device, the newest valid fix TrackIt reports (0: none)
  clock,      \* datetime.now(timezone.utc)
  watermark,  \* integration_state.<integration>.pull_observations.<imei>
  delivered,  \* <<imei, time>> pairs Gundi has accepted at least once
  pc,         \* where an invocation is
  run,        \* the local variables of an invocation
  faults      \* faults so far

vars == <<feed, clock, watermark, delivered, pc, run, faults>>

Busy == {"fetch", "read", "send", "save"}

(***************************************************************************)
(* The locals of an invocation: horizon is now + MAX_FUTURE_SKEW read back *)
(* as a device time; seen is latest_by_imei (0: no row); waiting holds the *)
(* devices whose Redis call of the current gather is pending; todo the     *)
(* devices of new_items not yet accepted by Gundi and sent those that are  *)
(* (its size is observations_extracted); batch is being sent or recorded,  *)
(* tries the failed posts of it, and wfail that one of its writes raised.  *)
(***************************************************************************)
Local == [horizon : Int, seen : [Devices -> 0..MaxTime],
          waiting : SUBSET Devices, todo : SUBSET Devices,
          sent : SUBSET Devices, batch : SUBSET Devices,
          tries : 0..MaxAttempts-1, wfail : BOOLEAN]

NoLocals == [horizon |-> 0, seen |-> [d \in Devices |-> 0],
             waiting |-> {}, todo |-> {}, sent |-> {}, batch |-> {},
             tries |-> 0, wfail |-> FALSE]

(* Mutant: an unparseable watermark counts as newer than any fix. *)
ParseWatermarkAsNewest(stored) ==
  IF stored \in Times THEN stored ELSE IF stored = Garbled THEN MaxTime ELSE 0

(* A watermark that is missing or does not parse counts as older than any fix. *)
ParseWatermark(stored) == IF stored \in Times THEN stored ELSE 0

(* Mutants: a fix equal to the watermark counts as new; no dedup at all. *)
IsNewOrSame(time, stored) == time >= ParseWatermark(stored)
AlwaysNew(time, stored) == TRUE

IsNew(time, stored) == time > ParseWatermark(stored)

Items(r, devices) == {<<d, run[r].seen[d]>> : d \in devices}

Vehicles(r) == {d \in Devices : run[r].seen[d] # 0}

-----------------------------------------------------------------------------
(* The environment: a device reports a fix, possibly with a wrong clock; time passes. *)
Report(d, t) ==
  /\ feed' = [feed EXCEPT ![d] = t]
  /\ UNCHANGED <<clock, watermark, delivered, pc, run, faults>>

Tick ==
  /\ clock < MaxClock
  /\ clock' = clock + 1
  /\ UNCHANGED <<feed, watermark, delivered, pc, run, faults>>

Fault == faults < MaxFaults /\ faults' = faults + 1

(* The invocation ends: its locals go with it. *)
Leave(r, outcome) ==
  /\ pc' = [pc EXCEPT ![r] = outcome]
  /\ run' = [run EXCEPT ![r] = NoLocals]

-----------------------------------------------------------------------------
MayStart(r) ==
  /\ pc[r] \notin Busy
  /\ Serial => \A q \in Runs : pc[q] \notin Busy

StartPull(r) ==
  /\ MayStart(r)
  /\ pc' = [pc EXCEPT ![r] = "fetch"]
  /\ \E o \in Offsets :
       run' = [run EXCEPT ![r].horizon = clock + Skew + o]
  /\ UNCHANGED <<feed, clock, watermark, delivered, faults>>

(* The token and live-data calls, then one row per device with a valid fix. *)
ExtractVehicles(r) ==
  /\ pc[r] = "fetch"
  /\ pc' = [pc EXCEPT ![r] = "read"]
  /\ run' = [run EXCEPT ![r].seen = feed,
                        ![r].waiting = {d \in Devices : feed[d] # 0}]
  /\ UNCHANGED <<feed, clock, watermark, delivered, faults>>

(* Mutant: no MAX_FUTURE_SKEW check. *)
ReadStateNoSkew(r, d) ==
  /\ pc[r] = "read" /\ d \in run[r].waiting
  /\ watermark[d] # Unusable
  /\ run' = [run EXCEPT ![r].waiting = @ \ {d},
                        ![r].todo = IF IsNew(run[r].seen[d], watermark[d])
                                    THEN @ \cup {d} ELSE @]
  /\ UNCHANGED <<feed, clock, watermark, delivered, pc, faults>>

(* One get_state of the prefetch settles; the device is new, known or skewed. *)
ReadState(r, d) ==
  /\ pc[r] = "read" /\ d \in run[r].waiting
  /\ watermark[d] # Unusable
  /\ LET time == run[r].seen[d]
         keep == IsNew(time, watermark[d]) /\ time <= run[r].horizon
     IN run' = [run EXCEPT ![r].waiting = @ \ {d},
                           ![r].todo = IF keep THEN @ \cup {d} ELSE @]
  /\ UNCHANGED <<feed, clock, watermark, delivered, pc, faults>>

(* A provider or Redis call raises, and the exception leaves the handler. *)
CallRaises(r) ==
  /\ \/ pc[r] \in {"fetch", "read"} /\ Fault
     \/ /\ pc[r] = "read" /\ UNCHANGED faults
        /\ \E d \in run[r].waiting : watermark[d] = Unusable
  /\ Leave(r, "failed")
  /\ UNCHANGED <<feed, clock, watermark, delivered>>

-----------------------------------------------------------------------------
(* Mutant: the gather swallows the exceptions it collected. *)
AtLoopHeadAnyway(r) ==
  /\ pc[r] \in {"read", "save"}
  /\ run[r].waiting = {}

(* Between two gathers: at the head of the loop over generate_batches. *)
AtLoopHead(r) ==
  /\ pc[r] \in {"read", "save"}
  /\ run[r].waiting = {} /\ ~run[r].wfail

(* Mutant: the watermarks are written before the batch is posted. *)
SaveFirst(r) ==
  /\ AtLoopHead(r)
  /\ \E b \in SUBSET run[r].todo :
       /\ b # {} /\ Cardinality(b) <= BatchSize
       /\ run' = [run EXCEPT ![r].batch = b, ![r].waiting = b]
  /\ pc' = [pc EXCEPT ![r] = "save"]
  /\ UNCHANGED <<feed, clock, watermark, delivered, faults>>

SendBatch(r) ==
  /\ AtLoopHead(r)
  /\ \E b \in SUBSET run[r].todo :
       /\ b # {} /\ Cardinality(b) <= BatchSize
       /\ b # run[r].todo => Cardinality(b) = BatchSize
       /\ run' = [run EXCEPT ![r].batch = b, ![r].tries = 0]
  /\ pc' = [pc EXCEPT ![r] = "send"]
  /\ UNCHANGED <<feed, clock, watermark, delivered, faults>>

Finish(r) ==
  /\ AtLoopHead(r) /\ run[r].todo = {}
  /\ Leave(r, "done")
  /\ UNCHANGED <<feed, clock, watermark, delivered, faults>>

(* Gundi accepts the batch and the reply arrives: its watermarks are due. *)
Accepted(r) ==
  /\ pc[r] = "send"
  /\ delivered' = delivered \cup Items(r, run[r].batch)
  /\ run' = [run EXCEPT ![r].sent = @ \cup run[r].batch,
                        ![r].todo = @ \ run[r].batch,
                        ![r].waiting = run[r].batch]
  /\ pc' = [pc EXCEPT ![r] = "save"]
  /\ UNCHANGED <<feed, clock, watermark, faults>>

(* Mutant: stamina never gives up. *)
PostRaisesForever(r) ==
  /\ pc[r] = "send" /\ Fault
  /\ delivered' \in {delivered, delivered \cup Items(r, run[r].batch)}
  /\ run' = [run EXCEPT ![r].tries = @ + 1]
  /\ UNCHANGED <<feed, clock, watermark, pc>>

(* The post raises, whether or not Gundi accepted it; stamina tries again until it gives up. *)
PostRaises(r) ==
  /\ pc[r] = "send" /\ Fault
  /\ delivered' \in {delivered, delivered \cup Items(r, run[r].batch)}
  /\ IF run[r].tries + 1 < MaxAttempts
     THEN run' = [run EXCEPT ![r].tries = @ + 1] /\ UNCHANGED pc
     ELSE Leave(r, "failed")
  /\ UNCHANGED <<feed, clock, watermark>>

(* One set_state of the batch's gather settles. *)
SaveState(r, d) ==
  /\ pc[r] = "save" /\ d \in run[r].waiting
  /\ watermark' = [watermark EXCEPT ![d] = run[r].seen[d]]
  /\ run' = [run EXCEPT ![r].waiting = @ \ {d}]
  /\ UNCHANGED <<feed, clock, delivered, pc, faults>>

(* One set_state raises, applied or not; the gather goes on with the others. *)
SaveRaises(r, d) ==
  /\ pc[r] = "save" /\ d \in run[r].waiting /\ Fault
  /\ watermark' \in {watermark, [watermark EXCEPT ![d] = run[r].seen[d]]}
  /\ run' = [run EXCEPT ![r].waiting = @ \ {d}, ![r].wfail = TRUE]
  /\ UNCHANGED <<feed, clock, delivered, pc>>

(* Everything has settled: the gather raises the first failure. *)
GatherRaises(r) ==
  /\ pc[r] = "save" /\ run[r].waiting = {} /\ run[r].wfail
  /\ Leave(r, "failed")
  /\ UNCHANGED <<feed, clock, watermark, delivered, faults>>

(* wait_for cancels the handler at MAX_ACTION_EXECUTION_TIME, or the process *)
(* dies; a post in flight may still have been accepted.                      *)
Cancel(r) ==
  /\ pc[r] \in Busy /\ Fault
  /\ delivered' \in {delivered, delivered \cup Items(r, run[r].batch)}
  /\ Leave(r, "failed")
  /\ UNCHANGED <<feed, clock, watermark>>

-----------------------------------------------------------------------------
Init ==
  /\ feed = [d \in Devices |-> 0]
  /\ clock = 0
  /\ watermark \in [Devices -> Leftovers]
  /\ delivered = {}
  /\ pc = [r \in Runs |-> "idle"]
  /\ run = [r \in Runs |-> NoLocals]
  /\ faults = 0

Progress(r) ==
  \/ ExtractVehicles(r)
  \/ \E d \in Devices : ReadState(r, d)
  \/ SendBatch(r)
  \/ Finish(r)
  \/ Accepted(r)
  \/ \E d \in Devices : SaveState(r, d)
  \/ GatherRaises(r)

Next ==
  \/ \E d \in Devices, t \in Times : Report(d, t)
  \/ Tick
  \/ \E r \in Runs :
       \/ StartPull(r)
       \/ Progress(r)
       \/ CallRaises(r)
       \/ PostRaises(r)
       \/ \E d \in Devices : SaveRaises(r, d)
       \/ Cancel(r)

Spec == Init /\ [][Next]_vars

(* The portal keeps scheduling the pull and the event loop keeps running it. *)
FairSpec ==
  /\ Spec
  /\ WF_vars(\E r \in Runs : StartPull(r))
  /\ \A r \in Runs : WF_vars(Progress(r))

-----------------------------------------------------------------------------
(* Every variable has its type, and an invocation that is not busy holds nothing. *)
TypeOK ==
  /\ feed \in [Devices -> 0..MaxTime]
  /\ clock \in 0..MaxClock
  /\ watermark \in [Devices -> Marks]
  /\ delivered \subseteq Devices \X Times
  /\ pc \in [Runs -> Busy \cup {"idle", "done", "failed"}]
  /\ run \in [Runs -> Local]
  /\ faults \in 0..MaxFaults

(* A watermark is only written after Gundi accepted the observation it    *)
(* stands for (handlers.py:205-221), whichever call failed, was retried   *)
(* or was cancelled in between, and whoever else was writing.             *)
WatermarkBacked ==
  \A d \in Devices :
    watermark[d] \in Times => <<d, watermark[d]>> \in delivered

(* Dedup never drops data: a fix that an invocation left out of new_items *)
(* although it was not in the future (handlers.py:175-194) has itself, or *)
(* a newer fix of the same device, been accepted by Gundi.                *)
Examined(r) == Vehicles(r) \ (IF pc[r] = "read" THEN run[r].waiting ELSE {})

NoGap(r) ==
  \A d \in Examined(r) \ (run[r].todo \cup run[r].sent) :
    run[r].seen[d] <= run[r].horizon =>
      \E u \in Times : u >= run[r].seen[d] /\ <<d, u>> \in delivered

NoSilentGap == \A r \in Runs : NoGap(r)

(* A wrong device clock or a changed offset cannot push a watermark out of *)
(* reach: it is never further ahead of the real clock than the skew        *)
(* allowance under some configured offset (handlers.py:35-38, 185-192).    *)
NotPoisoned ==
  \A d \in Devices :
    watermark[d] \in Times =>
      \E o \in Offsets : watermark[d] <= clock + Skew + o

(* With no overlapping invocation, what is about to be posted is newer     *)
(* than what Redis holds now, not only than what it held at the prefetch,  *)
(* so a recorded observation is not sent again; and unless something has   *)
(* failed, Gundi has never accepted it before (handlers.py:175-221).       *)
NoNeedlessResend ==
  Serial => \A r \in Runs : pc[r] = "send" => \A d \in run[r].todo :
    /\ run[r].seen[d] > ParseWatermark(watermark[d])
    /\ faults = 0 => <<d, run[r].seen[d]>> \notin delivered

(* With no overlapping invocation, a batch is sent only when every         *)
(* observation of the batches before it has been recorded, so a failure    *)
(* of this one cannot cause those to be re-delivered (handlers.py:210-212).*)
EarlierBatchesRecorded ==
  Serial => \A r \in Runs : pc[r] = "send" =>
    \A d \in run[r].sent : watermark[d] = run[r].seen[d]

(* With no overlapping invocation a watermark only moves forward: it is    *)
(* the high-watermark of the comment at handlers.py:36-37.                 *)
WatermarkMonotone ==
  [][\A d \in Devices :
       ParseWatermark(watermark[d]) <= ParseWatermark(watermark'[d])]_vars

(* A fix that is acceptable under every configured offset is eventually    *)
(* delivered, or a newer one is, unless the device reports something else  *)
(* first: no failure, overlap or stale watermark blocks a device for good. *)
Acceptable(t) == \A o \in Offsets : t <= clock + Skew + o

FixDelivered ==
  \A d \in Devices, t \in Times :
    feed[d] = t /\ Acceptable(t) ~>
      feed[d] # t \/ \E u \in Times : u >= t /\ <<d, u>> \in delivered

(* What the pull promises: its watermarks, as far as they parse, are the   *)
(* checkpoints of a DeliveryLog, in order when invocations do not overlap. *)
Log == INSTANCE DeliveryLog WITH
         Ordered <- Serial,
         checkpoint <- [d \in Devices |-> ParseWatermark(watermark[d])]

ImplementsDeliveryLog == Log!LogSpec
=============================================================================
