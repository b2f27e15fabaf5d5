----------------------- MODULE PullObservationsProofs -----------------------
(***************************************************************************)
(* Theorems about PullObservations for any number of invocations, devices, *)
(* timestamps, offsets and faults.  IInv is the inductive invariant; each  *)
(* safety property the runs check is a conjunct or a consequence of it.    *)
(***************************************************************************)
EXTENDS PullObservations, TLAPS

(* The bookkeeping of one invocation that the properties above rest on: the *)
(* locals are empty until the snapshot is in, what is due to be recorded has*)
(* been accepted, and nothing beyond the horizon is ever queued.            *)
Kept(r) ==
  LET l == run[r] IN
    /\ pc[r] \notin {"read", "send", "save"} =>
         l.waiting \cup l.todo \cup l.sent \cup l.batch = {} /\ Vehicles(r) = {}
    /\ pc[r] = "read" => l.sent \cup l.batch = {} /\ l.todo \cap l.waiting = {}
    /\ pc[r] = "send" => l.waiting = {} /\ l.batch \subseteq l.todo
    /\ pc[r] = "save" => l.waiting \subseteq l.batch /\ l.batch \subseteq l.sent
    /\ pc[r] # "save" => ~l.wfail
    /\ l.waiting \cup l.todo \cup l.sent \subseteq Vehicles(r)
    /\ l.todo \cap l.sent = {}
    /\ \A d \in l.todo \cup l.sent : l.seen[d] <= l.horizon
    /\ Items(r, l.sent) \subseteq delivered
    /\ pc[r] \in Busy => \E o \in Offsets : l.horizon <= clock + Skew + o

Bookkeeping == \A r \in Runs : Kept(r)

(* Without overlap, at most one invocation is busy, what it has still to    *)
(* send or to record is newer than the watermark, and what it has recorded  *)
(* is the watermark.                                                        *)
Due(r) == IF pc[r] = "save" THEN run[r].waiting ELSE {}

OneBusy == \A r, q \in Runs : pc[r] \in Busy /\ pc[q] \in Busy => r = q

Ahead(r) ==
  /\ \A d \in run[r].todo \cup Due(r) : IsNew(run[r].seen[d], watermark[d])
  /\ ~run[r].wfail =>
       \A d \in run[r].sent \ Due(r) : watermark[d] = run[r].seen[d]

SerialBookkeeping == Serial => OneBusy /\ \A r \in Runs : Ahead(r)

(* The inductive invariant. *)
IInv ==
  /\ TypeOK
  /\ WatermarkBacked
  /\ NoSilentGap
  /\ NotPoisoned
  /\ Bookkeeping
  /\ SerialBookkeeping

-----------------------------------------------------------------------------

(* Every step is a step of one action, or changes nothing. *)
LEMMA StepCases ==
  ASSUME [Next]_vars,
         NEW ACTION P,
         UNCHANGED vars => P,
         ASSUME NEW d \in Devices, NEW t \in Times, Report(d, t) PROVE P,
         Tick => P,
         ASSUME NEW r \in Runs, StartPull(r) PROVE P,
         ASSUME NEW r \in Runs, ExtractVehicles(r) PROVE P,
         ASSUME NEW r \in Runs, NEW d \in Devices, ReadState(r, d) PROVE P,
         ASSUME NEW r \in Runs, CallRaises(r) PROVE P,
         ASSUME NEW r \in Runs, SendBatch(r) PROVE P,
         ASSUME NEW r \in Runs, Finish(r) \/ GatherRaises(r) PROVE P,
         ASSUME NEW r \in Runs, Accepted(r) PROVE P,
         ASSUME NEW r \in Runs, PostRaises(r) PROVE P,
         ASSUME NEW r \in Runs, NEW d \in Devices, SaveState(r, d) PROVE P,
         ASSUME NEW r \in Runs, NEW d \in Devices, SaveRaises(r, d) PROVE P,
         ASSUME NEW r \in Runs, Cancel(r) PROVE P
  PROVE  P
BY Zenon DEF Next, Progress

(* The constants, one by one. *)
LEMMA Constants ==
  /\ MaxTime \in Nat /\ MaxClock \in Nat /\ Skew \in Nat /\ MaxFaults \in Nat
  /\ BatchSize \in Nat \ {0} /\ MaxAttempts \in Nat \ {0}
  /\ Offsets \subseteq Int
  /\ Serial \in BOOLEAN
  /\ Leftovers \subseteq Marks
  /\ Leftovers \cap Times = {}
BY PullAssumption DEF Marks, Times

LEMMA NoLocalsType == NoLocals \in Local
BY Constants DEF NoLocals, Local

(* The locals keep their type when fields of it are assigned. *)
LEMMA LocalUpdate ==
  ASSUME NEW l \in Local,
         NEW S \in SUBSET Devices, NEW T \in SUBSET Devices, NEW U \in SUBSET Devices
  PROVE  /\ \A h \in Int : [l EXCEPT !.horizon = h] \in Local
         /\ \A f \in [Devices -> 0..MaxTime] :
              [l EXCEPT !.seen = f, !.waiting = S] \in Local
         /\ [l EXCEPT !.waiting = S] \in Local
         /\ [l EXCEPT !.waiting = S, !.todo = T] \in Local
         /\ [l EXCEPT !.waiting = S, !.wfail = TRUE] \in Local
         /\ [l EXCEPT !.sent = T, !.todo = U, !.waiting = S] \in Local
         /\ [l EXCEPT !.batch = S, !.tries = 0] \in Local
         /\ \A n \in 0..MaxAttempts-1 : [l EXCEPT !.tries = n] \in Local
<1>1. 0 \in 0..MaxAttempts-1
  BY Constants
<1> QED
  BY <1>1 DEF Local

LEMMA LocalFields ==
  ASSUME TypeOK, NEW r \in Runs
  PROVE  /\ run[r] \in Local
         /\ run[r].horizon \in Int
         /\ run[r].seen \in [Devices -> 0..MaxTime]
         /\ run[r].waiting \in SUBSET Devices
         /\ run[r].todo \in SUBSET Devices
         /\ run[r].sent \in SUBSET Devices
         /\ run[r].batch \in SUBSET Devices
         /\ run[r].tries \in 0..MaxAttempts-1
         /\ run[r].wfail \in BOOLEAN
<1>1. run[r] \in Local
  BY DEF TypeOK
<1> QED
  BY <1>1 DEF Local

-----------------------------------------------------------------------------
LEMMA TypeInit == Init => TypeOK
BY Constants, NoLocalsType DEF Init, TypeOK, Busy

(* What an invocation still owes to Redis or to Gundi has a timestamp. *)
LEMMA DueTimes ==
  ASSUME TypeOK, NEW r \in Runs, Kept(r)
  PROVE  /\ \A d \in run[r].waiting \cup run[r].todo \cup run[r].sent :
              run[r].seen[d] \in Times
         /\ pc[r] \in {"send", "save"} =>
              \A d \in run[r].batch : run[r].seen[d] \in Times
         /\ pc[r] \notin {"send", "save"} => run[r].batch = {}
         /\ Items(r, run[r].batch) \in SUBSET (Devices \X Times)
<1>1. \A d \in Vehicles(r) : run[r].seen[d] \in Times
  BY LocalFields, Constants DEF Vehicles, Times
<1>2. run[r].waiting \cup run[r].todo \cup run[r].sent \subseteq Vehicles(r)
  BY DEF Kept
<1>3. pc[r] = "send" => run[r].batch \subseteq run[r].todo
  BY DEF Kept
<1>4. pc[r] = "save" => run[r].batch \subseteq run[r].sent
  BY DEF Kept
<1>5. pc[r] \notin {"send", "save"} => run[r].batch = {}
  BY DEF Kept
<1>6. \A d \in run[r].batch : d \in Devices /\ run[r].seen[d] \in Times
  BY <1>1, <1>2, <1>3, <1>4, <1>5, LocalFields
<1>7. Items(r, run[r].batch) \in SUBSET (Devices \X Times)
  BY <1>6 DEF Items
<1> QED
  BY <1>1, <1>2, <1>5, <1>6, <1>7

LEMMA TypeStep == TypeOK /\ Bookkeeping /\ [Next]_vars => TypeOK'
<1> SUFFICES ASSUME TypeOK, Bookkeeping, [Next]_vars PROVE TypeOK'
  OBVIOUS
<1> USE Constants DEF TypeOK
<1>1. UNCHANGED vars => TypeOK'
  BY DEF vars
<1>2. ASSUME NEW d \in Devices, NEW t \in Times, Report(d, t) PROVE TypeOK'
  BY <1>2 DEF Report, Times
<1>3. Tick => TypeOK'
  BY DEF Tick
<1>4. ASSUME NEW r \in Runs, StartPull(r) PROVE TypeOK'
  <2>1. PICK o \in Offsets : run' = [run EXCEPT ![r].horizon = clock + Skew + o]
    BY <1>4 DEF StartPull
  <2>2. [run[r] EXCEPT !.horizon = clock + Skew + o] \in Local
    <3>1. clock + Skew + o \in Int
      OBVIOUS
    <3> QED
      BY <3>1, LocalUpdate, LocalFields
  <2> QED
    BY <1>4, <2>1, <2>2 DEF StartPull, Busy
<1>5. ASSUME NEW r \in Runs, ExtractVehicles(r) PROVE TypeOK'
  <2>1. [run[r] EXCEPT !.seen = feed,
                       !.waiting = {d \in Devices : feed[d] # 0}] \in Local
    BY LocalUpdate, LocalFields
  <2> QED
    BY <1>5, <2>1 DEF ExtractVehicles, Busy
<1>6. ASSUME NEW r \in Runs, NEW d \in Devices, ReadState(r, d) PROVE TypeOK'
  <2>1. PICK T \in SUBSET Devices :
          run' = [run EXCEPT ![r].waiting = @ \ {d}, ![r].todo = T]
    BY <1>6, LocalFields DEF ReadState
  <2>2. [run[r] EXCEPT !.waiting = @ \ {d}, !.todo = T] \in Local
    BY LocalUpdate, LocalFields
  <2> QED
    BY <1>6, <2>1, <2>2 DEF ReadState
<1>7. ASSUME NEW r \in Runs, CallRaises(r) PROVE TypeOK'
  BY <1>7, NoLocalsType DEF CallRaises, Leave, Fault
<1>8. ASSUME NEW r \in Runs, SendBatch(r) PROVE TypeOK'
  <2>1. PICK b \in SUBSET run[r].todo :
          run' = [run EXCEPT ![r].batch = b, ![r].tries = 0]
    BY <1>8 DEF SendBatch
  <2>2. [run[r] EXCEPT !.batch = b, !.tries = 0] \in Local
    BY LocalUpdate, LocalFields
  <2> QED
    BY <1>8, <2>1, <2>2 DEF SendBatch, Busy
<1>9. ASSUME NEW r \in Runs, Finish(r) \/ GatherRaises(r) PROVE TypeOK'
  BY <1>9, NoLocalsType DEF Finish, GatherRaises, Leave
<1>0. \A r \in Runs : Kept(r)
  BY DEF Bookkeeping
<1>10. ASSUME NEW r \in Runs, Accepted(r) PROVE TypeOK'
  <2>1. [run[r] EXCEPT !.sent = @ \cup run[r].batch,
                       !.todo = @ \ run[r].batch,
                       !.waiting = run[r].batch] \in Local
    BY LocalUpdate, LocalFields
  <2> QED
    BY <1>10, <2>1, <1>0, DueTimes DEF Accepted, Busy
<1>11. ASSUME NEW r \in Runs, PostRaises(r) PROVE TypeOK'
  <2>1. delivered' \subseteq Devices \X Times
    BY <1>11, <1>0, DueTimes DEF PostRaises
  <2>2. CASE run[r].tries + 1 < MaxAttempts
    <3>1. [run[r] EXCEPT !.tries = @ + 1] \in Local
      <4>1. run[r].tries + 1 \in 0..MaxAttempts-1
        BY <2>2, LocalFields
      <4> QED
        BY <4>1, LocalUpdate, LocalFields
    <3> QED
      BY <1>11, <2>1, <2>2, <3>1 DEF PostRaises, Fault
  <2>3. CASE ~(run[r].tries + 1 < MaxAttempts)
    BY <1>11, <2>1, <2>3, NoLocalsType DEF PostRaises, Leave, Fault
  <2> QED
    BY <2>2, <2>3
<1>12. ASSUME NEW r \in Runs, NEW d \in Devices, SaveState(r, d) PROVE TypeOK'
  <2>1. [run[r] EXCEPT !.waiting = @ \ {d}] \in Local
    BY LocalUpdate, LocalFields
  <2>2. run[r].seen[d] \in Marks
    BY <1>12, <1>0, DueTimes DEF SaveState, Marks
  <2> QED
    BY <1>12, <2>1, <2>2 DEF SaveState
<1>13. ASSUME NEW r \in Runs, NEW d \in Devices, SaveRaises(r, d) PROVE TypeOK'
  <2>1. [run[r] EXCEPT !.waiting = @ \ {d}, !.wfail = TRUE] \in Local
    BY LocalUpdate, LocalFields
  <2>2. run[r].seen[d] \in Marks
    BY <1>13, <1>0, DueTimes DEF SaveRaises, Marks
  <2> QED
    BY <1>13, <2>1, <2>2 DEF SaveRaises, Fault
<1>14. ASSUME NEW r \in Runs, Cancel(r) PROVE TypeOK'
  BY <1>14, <1>0, DueTimes, NoLocalsType DEF Cancel, Leave, Fault
<1> QED
  BY <1>1, <1>2, <1>3, <1>4, <1>5, <1>6, <1>7, <1>8, <1>9, <1>10, <1>11,
     <1>12, <1>13, <1>14, StepCases, Zenon

-----------------------------------------------------------------------------
(* A step moves the clock and the log of deliveries forward, and changes the *)
(* locals of at most the invocation that takes it.                           *)
Onward(r) ==
  /\ clock <= clock'
  /\ delivered \subseteq delivered'
  /\ \A q \in Runs \ {r} : run'[q] = run[q] /\ pc'[q] = pc[q]

LEMMA OthersKept ==
  ASSUME TypeOK, TypeOK', NEW r \in Runs, Onward(r), NEW q \in Runs, q # r, Kept(q)
  PROVE  Kept(q)'
<1>1. run'[q] = run[q] /\ pc'[q] = pc[q]
  BY DEF Onward
<1>2. Vehicles(q)' = Vehicles(q) /\ Items(q, run[q].sent)' = Items(q, run[q].sent)
  BY <1>1 DEF Vehicles, Items
<1>3. delivered \subseteq delivered'
  BY DEF Onward
<1>4. ASSUME NEW o \in Offsets, run[q].horizon <= clock + Skew + o
      PROVE  run[q].horizon <= clock' + Skew + o
  BY <1>4, Constants, LocalFields DEF Onward, TypeOK
<1> QED
  BY <1>1, <1>2, <1>3, <1>4 DEF Kept

(* An invocation that has left holds nothing. *)
LEMMA LeftKept ==
  ASSUME NEW r \in Runs, run'[r] = NoLocals, pc'[r] \in {"done", "failed"}
  PROVE  Kept(r)'
BY DEF Kept, NoLocals, Vehicles, Items, Busy

LEMMA BookkeepingInit == Init => Bookkeeping
BY DEF Init, Bookkeeping, Kept, NoLocals, Vehicles, Items, Busy

(* A step of one invocation keeps everyone's bookkeeping if it keeps its own. *)
LEMMA KeptByAll ==
  ASSUME TypeOK, TypeOK', Bookkeeping, NEW r \in Runs, Onward(r), Kept(r)'
  PROVE  Bookkeeping'
<1>1. ASSUME NEW q \in Runs, q # r PROVE Kept(q)'
  BY <1>1, OthersKept DEF Bookkeeping
<1> QED
  BY <1>1 DEF Bookkeeping

LEMMA BookkeepingStep == TypeOK /\ Bookkeeping /\ [Next]_vars => Bookkeeping'
<1> SUFFICES ASSUME TypeOK, Bookkeeping, [Next]_vars PROVE Bookkeeping'
  OBVIOUS
<1>0. TypeOK' /\ clock \in Nat
  BY TypeStep, Constants DEF TypeOK
<1>0a. \A r \in Runs : Kept(r)
  BY DEF Bookkeeping
<1>1. UNCHANGED vars => Bookkeeping'
  BY DEF vars, Bookkeeping, Kept, Vehicles, Items
<1>2. ASSUME NEW d \in Devices, NEW t \in Times, Report(d, t) PROVE Bookkeeping'
  BY <1>2 DEF Report, Bookkeeping, Kept, Vehicles, Items
<1>3. Tick => Bookkeeping'
  <2> SUFFICES ASSUME Tick, NEW r \in Runs PROVE Kept(r)'
    BY DEF Bookkeeping
  <2>1. \A o \in Offsets : run[r].horizon <= clock + Skew + o
                             => run[r].horizon <= clock' + Skew + o
    BY <1>0, Constants, LocalFields DEF Tick
  <2> QED
    BY <1>0a, <2>1 DEF Tick, Kept, Vehicles, Items
<1>4. ASSUME NEW r \in Runs, StartPull(r) PROVE Bookkeeping'
  <2>1. Onward(r)
    BY <1>0, <1>4, Constants DEF Onward, StartPull, TypeOK
  <2>2. PICK o \in Offsets : run'[r] = [run[r] EXCEPT !.horizon = clock + Skew + o]
    BY <1>4 DEF StartPull, TypeOK
  <2>3. pc'[r] = "fetch" /\ pc[r] \notin Busy /\ clock' = clock /\ delivered' = delivered
    BY <1>4 DEF StartPull, MayStart, TypeOK
  <2>4. run[r] \in Local /\ Kept(r)
    BY <1>0a, LocalFields
  <2>5. run'[r].horizon <= clock' + Skew + o
    BY <1>0, <2>2, <2>3, <2>4, Constants DEF Local
  <2>6. Kept(r)'
    BY <2>2, <2>3, <2>4, <2>5 DEF Kept, Local, Vehicles, Items, Busy
  <2> QED
    BY <1>0, <2>1, <2>6, KeptByAll
<1>5. ASSUME NEW r \in Runs, ExtractVehicles(r) PROVE Bookkeeping'
  <2>1. Onward(r)
    BY <1>0, <1>5 DEF Onward, ExtractVehicles, TypeOK
  <2>2. run'[r] = [run[r] EXCEPT !.seen = feed,
                                 !.waiting = {d \in Devices : feed[d] # 0}]
    BY <1>5 DEF ExtractVehicles, TypeOK
  <2>3. pc'[r] = "read" /\ pc[r] = "fetch" /\ clock' = clock /\ delivered' = delivered
    BY <1>5 DEF ExtractVehicles, TypeOK
  <2>4. run[r] \in Local /\ Kept(r)
    BY <1>0a, LocalFields
  <2>5. Kept(r)'
    BY <2>2, <2>3, <2>4 DEF Kept, Local, Vehicles, Items, Busy
  <2> QED
    BY <1>0, <2>1, <2>5, KeptByAll
<1>6. ASSUME NEW r \in Runs, NEW d \in Devices, ReadState(r, d) PROVE Bookkeeping'
  <2>1. Onward(r)
    BY <1>0, <1>6 DEF Onward, ReadState, TypeOK
  <2>2. PICK T \in SUBSET Devices :
          /\ run'[r] = [run[r] EXCEPT !.waiting = @ \ {d}, !.todo = T]
          /\ \/ T = run[r].todo
             \/ T = run[r].todo \cup {d} /\ run[r].seen[d] <= run[r].horizon
    BY <1>6, LocalFields DEF ReadState, TypeOK
  <2>3. /\ pc'[r] = "read" /\ pc[r] = "read" /\ d \in run[r].waiting
        /\ clock' = clock /\ delivered' = delivered
    BY <1>6 DEF ReadState, TypeOK
  <2>4. run[r] \in Local /\ Kept(r)
    BY <1>0a, LocalFields
  <2>5. Kept(r)'
    BY <2>2, <2>3, <2>4 DEF Kept, Local, Vehicles, Items, Busy
  <2> QED
    BY <1>0, <2>1, <2>5, KeptByAll
<1>7. ASSUME NEW r \in Runs, CallRaises(r) PROVE Bookkeeping'
  <2>1. Onward(r) /\ run'[r] = NoLocals /\ pc'[r] \in {"done", "failed"}
    BY <1>0, <1>7 DEF Onward, CallRaises, Leave, TypeOK
  <2> QED
    BY <1>0, <2>1, LeftKept, KeptByAll
<1>8. ASSUME NEW r \in Runs, SendBatch(r) PROVE Bookkeeping'
  <2>1. Onward(r)
    BY <1>0, <1>8 DEF Onward, SendBatch, TypeOK
  <2>2. PICK b \in SUBSET run[r].todo :
          run'[r] = [run[r] EXCEPT !.batch = b, !.tries = 0]
    BY <1>8 DEF SendBatch, TypeOK
  <2>3. /\ pc'[r] = "send" /\ AtLoopHead(r)
        /\ clock' = clock /\ delivered' = delivered
    BY <1>8 DEF SendBatch, TypeOK
  <2>4. run[r] \in Local /\ Kept(r)
    BY <1>0a, LocalFields
  <2>5. Kept(r)'
    BY <2>2, <2>3, <2>4 DEF Kept, Local, Vehicles, Items, Busy, AtLoopHead
  <2> QED
    BY <1>0, <2>1, <2>5, KeptByAll
<1>9. ASSUME NEW r \in Runs, Finish(r) \/ GatherRaises(r) PROVE Bookkeeping'
  <2>1. Onward(r) /\ run'[r] = NoLocals /\ pc'[r] \in {"done", "failed"}
    BY <1>0, <1>9 DEF Onward, Finish, GatherRaises, Leave, TypeOK
  <2> QED
    BY <1>0, <2>1, LeftKept, KeptByAll
<1>10. ASSUME NEW r \in Runs, Accepted(r) PROVE Bookkeeping'
  <2>1. Onward(r)
    BY <1>0, <1>10 DEF Onward, Accepted, TypeOK
  <2>2. run'[r] = [run[r] EXCEPT !.sent = @ \cup run[r].batch,
                                 !.todo = @ \ run[r].batch,
                                 !.waiting = run[r].batch]
    BY <1>10 DEF Accepted, TypeOK
  <2>3. /\ pc'[r] = "save" /\ pc[r] = "send" /\ clock' = clock
        /\ delivered' = delivered \cup Items(r, run[r].batch)
    BY <1>10 DEF Accepted, TypeOK
  <2>4. run[r] \in Local /\ Kept(r)
    BY <1>0a, LocalFields
  <2>5. Items(r, run[r].sent)' \subseteq delivered'
    BY <2>2, <2>3, <2>4 DEF Kept, Local, Items
  <2>6. /\ run'[r].seen = run[r].seen /\ run'[r].horizon = run[r].horizon
        /\ run'[r].sent = run[r].sent \cup run[r].batch
        /\ run'[r].todo = run[r].todo \ run[r].batch
        /\ run'[r].waiting = run[r].batch /\ run'[r].batch = run[r].batch
        /\ run'[r].wfail = run[r].wfail
    BY <2>2, <2>4 DEF Local
  <2>7. Vehicles(r)' = Vehicles(r)
    BY <2>6 DEF Vehicles
  <2>8. /\ run[r].batch \subseteq run[r].todo
        /\ run[r].todo \cup run[r].sent \subseteq Vehicles(r)
        /\ run[r].todo \cap run[r].sent = {} /\ ~run[r].wfail
        /\ \A d \in run[r].todo \cup run[r].sent : run[r].seen[d] <= run[r].horizon
        /\ \E o \in Offsets : run[r].horizon <= clock + Skew + o
    BY <2>3, <2>4 DEF Kept, Busy
  <2>9. Kept(r)'
    BY <2>3, <2>5, <2>6, <2>7, <2>8 DEF Kept
  <2> QED
    BY <1>0, <2>1, <2>9, KeptByAll
<1>11. ASSUME NEW r \in Runs, PostRaises(r) PROVE Bookkeeping'
  <2>1. Onward(r)
    BY <1>0, <1>11 DEF Onward, PostRaises, Leave, TypeOK
  <2>2. CASE run[r].tries + 1 < MaxAttempts
    <3>1. /\ run'[r] = [run[r] EXCEPT !.tries = @ + 1]
          /\ pc'[r] = pc[r] /\ clock' = clock /\ delivered \subseteq delivered'
      BY <1>11, <2>2 DEF PostRaises, TypeOK
    <3>2. run[r] \in Local /\ Kept(r)
      BY <1>0a, LocalFields
    <3>3. Kept(r)'
      BY <3>1, <3>2 DEF Kept, Local, Vehicles, Items
    <3> QED
      BY <1>0, <2>1, <3>3, KeptByAll
  <2>3. CASE ~(run[r].tries + 1 < MaxAttempts)
    <3>1. run'[r] = NoLocals /\ pc'[r] \in {"done", "failed"}
      BY <1>11, <2>3 DEF PostRaises, Leave, TypeOK
    <3> QED
      BY <1>0, <2>1, <3>1, LeftKept, KeptByAll
  <2> QED
    BY <2>2, <2>3
<1>12. ASSUME NEW r \in Runs, NEW d \in Devices, SaveState(r, d) PROVE Bookkeeping'
  <2>1. Onward(r)
    BY <1>0, <1>12 DEF Onward, SaveState, TypeOK
  <2>2. /\ run'[r] = [run[r] EXCEPT !.waiting = @ \ {d}]
        /\ pc'[r] = pc[r] /\ clock' = clock /\ delivered' = delivered /\ pc[r] = "save"
    BY <1>12 DEF SaveState, TypeOK
  <2>3. run[r] \in Local /\ Kept(r)
    BY <1>0a, LocalFields
  <2>4. Kept(r)'
    BY <2>2, <2>3 DEF Kept, Local, Vehicles, Items
  <2> QED
    BY <1>0, <2>1, <2>4, KeptByAll
<1>13. ASSUME NEW r \in Runs, NEW d \in Devices, SaveRaises(r, d) PROVE Bookkeeping'
  <2>1. Onward(r)
    BY <1>0, <1>13 DEF Onward, SaveRaises, Fault, TypeOK
  <2>2. /\ run'[r] = [run[r] EXCEPT !.waiting = @ \ {d}, !.wfail = TRUE]
        /\ pc'[r] = pc[r] /\ clock' = clock /\ delivered' = delivered /\ pc[r] = "save"
    BY <1>13 DEF SaveRaises, TypeOK
  <2>3. run[r] \in Local /\ Kept(r)
    BY <1>0a, LocalFields
  <2>4. Kept(r)'
    BY <2>2, <2>3 DEF Kept, Local, Vehicles, Items
  <2> QED
    BY <1>0, <2>1, <2>4, KeptByAll
<1>14. ASSUME NEW r \in Runs, Cancel(r) PROVE Bookkeeping'
  <2>1. Onward(r) /\ run'[r] = NoLocals /\ pc'[r] \in {"done", "failed"}
    BY <1>0, <1>14 DEF Onward, Cancel, Leave, TypeOK
  <2> QED
    BY <1>0, <2>1, LeftKept, KeptByAll
<1> QED
  BY <1>1, <1>2, <1>3, <1>4, <1>5, <1>6, <1>7, <1>8, <1>9, <1>10, <1>11,
     <1>12, <1>13, <1>14, StepCases, Zenon

-----------------------------------------------------------------------------
(* The only way a watermark changes: an invocation records a device of the  *)
(* batch Gundi has accepted from it.                                        *)
Recorded(r, d) ==
  /\ pc[r] = "save" /\ d \in run[r].waiting
  /\ watermark' = [watermark EXCEPT ![d] = run[r].seen[d]]
  /\ UNCHANGED <<clock, delivered>>

LEMMA WatermarkMoves ==
  ASSUME TypeOK, [Next]_vars
  PROVE  /\ clock <= clock' /\ delivered \subseteq delivered'
         /\ \/ watermark' = watermark
            \/ \E r \in Runs, d \in Devices : Recorded(r, d)
<1> DEFINE P == /\ clock <= clock' /\ delivered \subseteq delivered'
                /\ \/ watermark' = watermark
                   \/ \E r \in Runs, d \in Devices : Recorded(r, d)
<1>0. clock \in Int
  BY Constants DEF TypeOK
<1>1. UNCHANGED vars => P
  BY <1>0 DEF vars
<1>2. ASSUME NEW d \in Devices, NEW t \in Times, Report(d, t) PROVE P
  BY <1>0, <1>2 DEF Report
<1>3. Tick => P
  BY <1>0 DEF Tick
<1>4. ASSUME NEW r \in Runs, StartPull(r) PROVE P
  BY <1>0, <1>4 DEF StartPull
<1>5. ASSUME NEW r \in Runs, ExtractVehicles(r) PROVE P
  BY <1>0, <1>5 DEF ExtractVehicles
<1>6. ASSUME NEW r \in Runs, NEW d \in Devices, ReadState(r, d) PROVE P
  BY <1>0, <1>6 DEF ReadState
<1>7. ASSUME NEW r \in Runs, CallRaises(r) PROVE P
  BY <1>0, <1>7 DEF CallRaises
<1>8. ASSUME NEW r \in Runs, SendBatch(r) PROVE P
  BY <1>0, <1>8 DEF SendBatch
<1>9. ASSUME NEW r \in Runs, Finish(r) \/ GatherRaises(r) PROVE P
  BY <1>0, <1>9 DEF Finish, GatherRaises
<1>10. ASSUME NEW r \in Runs, Accepted(r) PROVE P
  BY <1>0, <1>10 DEF Accepted
<1>11. ASSUME NEW r \in Runs, PostRaises(r) PROVE P
  BY <1>0, <1>11 DEF PostRaises
<1>12. ASSUME NEW r \in Runs, NEW d \in Devices, SaveState(r, d) PROVE P
  <2>1. Recorded(r, d)
    BY <1>12 DEF SaveState, Recorded
  <2> QED
    BY <1>0, <1>12, <2>1 DEF SaveState
<1>13. ASSUME NEW r \in Runs, NEW d \in Devices, SaveRaises(r, d) PROVE P
  <2>1. /\ pc[r] = "save" /\ d \in run[r].waiting
        /\ clock' = clock /\ delivered' = delivered
        /\ \/ watermark' = watermark
           \/ watermark' = [watermark EXCEPT ![d] = run[r].seen[d]]
    BY <1>13 DEF SaveRaises
  <2> QED
    BY <1>0, <2>1 DEF Recorded
<1>14. ASSUME NEW r \in Runs, Cancel(r) PROVE P
  BY <1>0, <1>14 DEF Cancel
<1> HIDE DEF P
<1>15. P
  BY <1>1, <1>2, <1>3, <1>4, <1>5, <1>6, <1>7, <1>8, <1>9, <1>10, <1>11,
     <1>12, <1>13, <1>14, StepCases, Zenon
<1> QED
  BY <1>15 DEF P

(* What is recorded was accepted, and lay within the horizon. *)
LEMMA RecordedFix ==
  ASSUME TypeOK, Bookkeeping, NEW r \in Runs, NEW d \in Devices, Recorded(r, d)
  PROVE  /\ run[r].seen[d] \in Times
         /\ <<d, run[r].seen[d]>> \in delivered
         /\ \E o \in Offsets : run[r].seen[d] <= clock + Skew + o
<1>1. Kept(r) /\ d \in run[r].sent
  BY DEF Bookkeeping, Kept, Recorded
<1>2. run[r].seen[d] \in Times
  BY <1>1, DueTimes
<1>3. <<d, run[r].seen[d]>> \in delivered
  BY <1>1 DEF Kept, Items
<1>4. PICK o \in Offsets : run[r].horizon <= clock + Skew + o
  BY <1>1 DEF Kept, Recorded, Busy
<1>5. run[r].seen[d] <= run[r].horizon
  BY <1>1 DEF Kept
<1>6. run[r].seen[d] <= clock + Skew + o
  BY <1>2, <1>4, <1>5, Constants, LocalFields DEF TypeOK, Times
<1> QED
  BY <1>2, <1>3, <1>6

LEMMA WatermarkBackedStep ==
  TypeOK /\ Bookkeeping /\ WatermarkBacked /\ [Next]_vars => WatermarkBacked'
<1> SUFFICES ASSUME TypeOK, Bookkeeping, WatermarkBacked, [Next]_vars,
                    NEW d \in Devices, watermark'[d] \in Times
             PROVE  <<d, watermark'[d]>> \in delivered'
  BY DEF WatermarkBacked
<1>1. CASE watermark' = watermark
  BY <1>1, WatermarkMoves DEF WatermarkBacked
<1>2. ASSUME NEW r \in Runs, NEW e \in Devices, Recorded(r, e)
      PROVE  <<d, watermark'[d]>> \in delivered'
  <2>1. /\ <<e, run[r].seen[e]>> \in delivered /\ delivered' = delivered
        /\ watermark' = [watermark EXCEPT ![e] = run[r].seen[e]]
    BY <1>2, RecordedFix DEF Recorded
  <2> QED
    BY <2>1 DEF WatermarkBacked, TypeOK
<1> QED
  BY <1>1, <1>2, WatermarkMoves

LEMMA NotPoisonedStep ==
  TypeOK /\ Bookkeeping /\ NotPoisoned /\ [Next]_vars => NotPoisoned'
<1> SUFFICES ASSUME TypeOK, Bookkeeping, NotPoisoned, [Next]_vars,
                    NEW d \in Devices, watermark'[d] \in Times
             PROVE  \E o \in Offsets : watermark'[d] <= clock' + Skew + o
  BY DEF NotPoisoned
<1>1. CASE watermark' = watermark
  <2>1. PICK o \in Offsets : watermark[d] <= clock + Skew + o
    BY <1>1 DEF NotPoisoned
  <2>2. clock \in Int /\ clock' \in Int /\ clock <= clock' /\ watermark[d] \in Int
    BY <1>1, WatermarkMoves, TypeStep, Constants DEF TypeOK, Times
  <2> QED
    BY <1>1, <2>1, <2>2, Constants
<1>2. ASSUME NEW r \in Runs, NEW e \in Devices, Recorded(r, e)
      PROVE  \E o \in Offsets : watermark'[d] <= clock' + Skew + o
  BY <1>2, RecordedFix DEF NotPoisoned, Recorded, TypeOK
<1> QED
  BY <1>1, <1>2, WatermarkMoves

-----------------------------------------------------------------------------
(* An invocation opens no gap while it examines nothing more and keeps what *)
(* it has queued or sent.                                                   *)
LEMMA GapCarried ==
  ASSUME NEW r \in Runs, NoGap(r), delivered \subseteq delivered',
         run'[r].seen = run[r].seen, run'[r].horizon = run[r].horizon,
         Examined(r)' \subseteq Examined(r),
         run[r].todo \cup run[r].sent \subseteq run'[r].todo \cup run'[r].sent
  PROVE  NoGap(r)'
BY DEF NoGap

LEMMA GapUntouched ==
  ASSUME NEW r \in Runs, NoGap(r), delivered \subseteq delivered',
         run'[r] = run[r], pc'[r] = pc[r]
  PROVE  NoGap(r)'
<1>1. Examined(r)' = Examined(r)
  BY DEF Examined, Vehicles
<1> QED
  BY <1>1, GapCarried

LEMMA GapOthers ==
  ASSUME NoSilentGap, NEW r \in Runs, Onward(r), NoGap(r)'
  PROVE  NoSilentGap'
<1>1. ASSUME NEW q \in Runs, q # r PROVE NoGap(q)'
  BY <1>1, GapUntouched DEF NoSilentGap, Onward
<1> QED
  BY <1>1 DEF NoSilentGap

LEMMA GapEmpty ==
  ASSUME NEW r \in Runs, Vehicles(r)' = {} PROVE NoGap(r)'
BY DEF NoGap, Examined

LEMMA GapLeft ==
  ASSUME NEW r \in Runs, run'[r] = NoLocals PROVE NoGap(r)'
<1>1. Vehicles(r)' = {}
  BY DEF Vehicles, NoLocals
<1> QED
  BY <1>1, GapEmpty

(* The dedup of one device against the watermark it read. *)
LEMMA GapRead ==
  ASSUME TypeOK, WatermarkBacked, NEW r \in Runs, NEW d \in Devices,
         NoGap(r), ReadState(r, d), d \in Vehicles(r)
  PROVE  NoGap(r)'
<1>1. /\ run'[r].seen = run[r].seen /\ run'[r].horizon = run[r].horizon
      /\ run'[r].sent = run[r].sent
      /\ run'[r].waiting = run[r].waiting \ {d}
      /\ run'[r].todo = IF IsNew(run[r].seen[d], watermark[d])
                             /\ run[r].seen[d] <= run[r].horizon
                        THEN run[r].todo \cup {d} ELSE run[r].todo
      /\ pc[r] = "read" /\ pc'[r] = "read" /\ delivered' = delivered
  BY LocalFields DEF ReadState, TypeOK, Local
<1>2. Examined(r)' \subseteq Examined(r) \cup {d}
  BY <1>1 DEF Examined, Vehicles
<1>3. ASSUME NEW e \in Devices, e # d,
             e \in Examined(r)' \ (run'[r].todo \cup run'[r].sent),
             run[r].seen[e] <= run[r].horizon
      PROVE  \E u \in Times : u >= run[r].seen[e] /\ <<e, u>> \in delivered
  <2>1. e \in Examined(r) \ (run[r].todo \cup run[r].sent)
    BY <1>1, <1>2, <1>3
  <2> QED
    BY <1>3, <2>1 DEF NoGap
<1>4. ASSUME d \notin run'[r].todo, run[r].seen[d] <= run[r].horizon
      PROVE  \E u \in Times : u >= run[r].seen[d] /\ <<d, u>> \in delivered
  <2>1. ~IsNew(run[r].seen[d], watermark[d])
    BY <1>1, <1>4
  <2>2. run[r].seen[d] \in Nat \ {0}
    BY Constants, LocalFields DEF Vehicles
  <2>3. watermark[d] \in Times /\ watermark[d] >= run[r].seen[d]
    BY <2>1, <2>2, Constants DEF IsNew, ParseWatermark, Times
  <2> QED
    BY <2>3 DEF WatermarkBacked
<1>5. Examined(r)' \subseteq Devices
  BY DEF Examined, Vehicles
<1> QED
  BY <1>1, <1>3, <1>4, <1>5 DEF NoGap

LEMMA NoSilentGapStep ==
  TypeOK /\ WatermarkBacked /\ Bookkeeping /\ NoSilentGap /\ [Next]_vars => NoSilentGap'
<1> SUFFICES ASSUME TypeOK, WatermarkBacked, Bookkeeping, NoSilentGap, [Next]_vars
             PROVE  NoSilentGap'
  OBVIOUS
<1>0. clock \in Int /\ \A r \in Runs : Kept(r) /\ NoGap(r)
  BY Constants DEF TypeOK, Bookkeeping, NoSilentGap
<1>1. UNCHANGED vars => NoSilentGap'
  BY <1>0, GapUntouched DEF vars, NoSilentGap
<1>2. ASSUME NEW d \in Devices, NEW t \in Times, Report(d, t) PROVE NoSilentGap'
  BY <1>0, <1>2, GapUntouched DEF Report, NoSilentGap
<1>3. Tick => NoSilentGap'
  BY <1>0, GapUntouched DEF Tick, NoSilentGap
<1>4. ASSUME NEW r \in Runs, StartPull(r) PROVE NoSilentGap'
  <2>1. Onward(r) /\ run'[r].seen = run[r].seen
    BY <1>0, <1>4, LocalFields DEF Onward, StartPull, TypeOK, Local
  <2>2. Vehicles(r)' = {}
    BY <1>0, <1>4, <2>1 DEF StartPull, MayStart, Busy, Kept, Vehicles
  <2> QED
    BY <2>1, <2>2, GapEmpty, GapOthers
<1>5. ASSUME NEW r \in Runs, ExtractVehicles(r) PROVE NoSilentGap'
  <2>1. /\ Onward(r) /\ pc'[r] = "read" /\ run'[r].seen = feed
        /\ run'[r].waiting = {d \in Devices : feed[d] # 0}
    BY <1>0, <1>5, LocalFields DEF Onward, ExtractVehicles, TypeOK, Local
  <2>2. Examined(r)' = {}
    BY <2>1 DEF Examined, Vehicles
  <2> QED
    BY <2>1, <2>2, GapOthers DEF NoGap
<1>6. ASSUME NEW r \in Runs, NEW d \in Devices, ReadState(r, d) PROVE NoSilentGap'
  <2>1. Onward(r)
    BY <1>0, <1>6 DEF Onward, ReadState, TypeOK
  <2>2. d \in Vehicles(r)
    BY <1>0, <1>6 DEF ReadState, Kept
  <2> QED
    BY <1>0, <1>6, <2>1, <2>2, GapRead, GapOthers
<1>7. ASSUME NEW r \in Runs, CallRaises(r) PROVE NoSilentGap'
  <2>1. Onward(r) /\ run'[r] = NoLocals
    BY <1>0, <1>7 DEF Onward, CallRaises, Leave, TypeOK
  <2> QED
    BY <2>1, GapLeft, GapOthers
<1>8. ASSUME NEW r \in Runs, SendBatch(r) PROVE NoSilentGap'
  <2>1. Onward(r)
    BY <1>0, <1>8 DEF Onward, SendBatch, TypeOK
  <2>2. /\ run'[r].seen = run[r].seen /\ run'[r].horizon = run[r].horizon
        /\ run'[r].todo = run[r].todo /\ run'[r].sent = run[r].sent
        /\ run[r].waiting = {} /\ delivered' = delivered
    BY <1>8, LocalFields DEF SendBatch, AtLoopHead, TypeOK, Local
  <2>3. Examined(r)' \subseteq Examined(r)
    BY <2>2 DEF Examined, Vehicles
  <2> QED
    BY <1>0, <2>1, <2>2, <2>3, GapCarried, GapOthers
<1>9. ASSUME NEW r \in Runs, Finish(r) \/ GatherRaises(r) PROVE NoSilentGap'
  <2>1. Onward(r) /\ run'[r] = NoLocals
    BY <1>0, <1>9 DEF Onward, Finish, GatherRaises, Leave, TypeOK
  <2> QED
    BY <2>1, GapLeft, GapOthers
<1>10. ASSUME NEW r \in Runs, Accepted(r) PROVE NoSilentGap'
  <2>1. Onward(r)
    BY <1>0, <1>10 DEF Onward, Accepted, TypeOK
  <2>2. /\ run'[r].seen = run[r].seen /\ run'[r].horizon = run[r].horizon
        /\ run'[r].sent = run[r].sent \cup run[r].batch
        /\ run'[r].todo = run[r].todo \ run[r].batch
        /\ pc[r] = "send" /\ pc'[r] = "save" /\ delivered \subseteq delivered'
    BY <1>10, LocalFields DEF Accepted, TypeOK, Local
  <2>3. Examined(r)' \subseteq Examined(r)
    BY <2>2 DEF Examined, Vehicles
  <2> QED
    BY <1>0, <2>1, <2>2, <2>3, GapCarried, GapOthers
<1>11. ASSUME NEW r \in Runs, PostRaises(r) PROVE NoSilentGap'
  <2>1. Onward(r)
    BY <1>0, <1>11 DEF Onward, PostRaises, Leave, TypeOK
  <2>2. CASE run[r].tries + 1 < MaxAttempts
    <3>1. /\ run'[r].seen = run[r].seen /\ run'[r].horizon = run[r].horizon
          /\ run'[r].todo = run[r].todo /\ run'[r].sent = run[r].sent
          /\ pc[r] = "send" /\ pc'[r] = "send" /\ delivered \subseteq delivered'
      BY <1>11, <2>2, LocalFields DEF PostRaises, TypeOK, Local
    <3>2. Examined(r)' \subseteq Examined(r)
      BY <3>1 DEF Examined, Vehicles
    <3> QED
      BY <1>0, <2>1, <3>1, <3>2, GapCarried, GapOthers
  <2>3. CASE ~(run[r].tries + 1 < MaxAttempts)
    <3>1. run'[r] = NoLocals
      BY <1>11, <2>3 DEF PostRaises, Leave, TypeOK
    <3> QED
      BY <2>1, <3>1, GapLeft, GapOthers
  <2> QED
    BY <2>2, <2>3
<1>12. ASSUME NEW r \in Runs, NEW d \in Devices,
              SaveState(r, d) \/ SaveRaises(r, d)
       PROVE  NoSilentGap'
  <2>1. Onward(r)
    BY <1>0, <1>12 DEF Onward, SaveState, SaveRaises, TypeOK
  <2>2. /\ run'[r].seen = run[r].seen /\ run'[r].horizon = run[r].horizon
        /\ run'[r].todo = run[r].todo /\ run'[r].sent = run[r].sent
        /\ pc[r] = "save" /\ pc'[r] = "save" /\ delivered' = delivered
    BY <1>12, LocalFields DEF SaveState, SaveRaises, TypeOK, Local
  <2>3. Examined(r)' \subseteq Examined(r)
    BY <2>2 DEF Examined, Vehicles
  <2> QED
    BY <1>0, <2>1, <2>2, <2>3, GapCarried, GapOthers
<1>14. ASSUME NEW r \in Runs, Cancel(r) PROVE NoSilentGap'
  <2>1. Onward(r) /\ run'[r] = NoLocals
    BY <1>0, <1>14 DEF Onward, Cancel, Leave, TypeOK
  <2> QED
    BY <2>1, GapLeft, GapOthers
<1> QED
  BY <1>1, <1>2, <1>3, <1>4, <1>5, <1>6, <1>7, <1>8, <1>9, <1>10, <1>11,
     <1>12, <1>14, StepCases, Zenon

-----------------------------------------------------------------------------
(* Where invocations do not overlap, the others hold nothing a write of the *)
(* busy one could put behind the watermark.                                 *)
LEMMA SerialOthers ==
  ASSUME Bookkeeping, OneBusy, \A q \in Runs : Ahead(q), NEW r \in Runs, Onward(r),
         watermark' = watermark \/ pc[r] \in Busy,
         pc'[r] \in Busy => pc[r] \in Busy \/ \A q \in Runs : pc[q] \notin Busy,
         Ahead(r)'
  PROVE  OneBusy' /\ \A q \in Runs : Ahead(q)'
<1>1. OneBusy'
  BY DEF OneBusy, Onward
<1>2. ASSUME NEW q \in Runs, q # r PROVE Ahead(q)'
  <2>1. run'[q] = run[q] /\ pc'[q] = pc[q] /\ Due(q)' = Due(q)
    BY <1>2 DEF Onward, Due
  <2>2. CASE watermark' = watermark
    BY <2>1, <2>2 DEF Ahead, IsNew, ParseWatermark
  <2>3. CASE pc[r] \in Busy
    <3>1. pc[q] \notin Busy
      BY <1>2, <2>3 DEF OneBusy
    <3>2. run[q].todo = {} /\ run[q].sent = {} /\ Due(q) = {}
      BY <3>1 DEF Bookkeeping, Kept, Busy, Due
    <3> QED
      BY <2>1, <3>2 DEF Ahead
  <2> QED
    BY <2>2, <2>3
<1> QED
  BY <1>1, <1>2

LEMMA AheadLeft ==
  ASSUME NEW r \in Runs, run'[r] = NoLocals PROVE Ahead(r)'
BY DEF Ahead, NoLocals, Due

(* A step that neither moves a watermark nor the work an invocation has left. *)
LEMMA AheadCarried ==
  ASSUME NEW r \in Runs, Ahead(r), watermark' = watermark,
         run'[r].seen = run[r].seen, run'[r].wfail = run[r].wfail,
         run'[r].todo \cup Due(r)' \subseteq run[r].todo \cup Due(r),
         run'[r].sent \ Due(r)' \subseteq run[r].sent \ Due(r)
  PROVE  Ahead(r)'
BY DEF Ahead, IsNew, ParseWatermark

(* A write makes the watermark equal to what was sent, and touches no other device. *)
LEMMA AheadRecorded ==
  ASSUME TypeOK, NEW r \in Runs, Kept(r), Ahead(r), NEW d \in Devices,
         pc[r] = "save", pc'[r] = "save", d \in run[r].waiting,
         run'[r].seen = run[r].seen, run'[r].todo = run[r].todo,
         run'[r].sent = run[r].sent, run'[r].waiting = run[r].waiting \ {d},
         \/ run'[r].wfail
         \/ /\ run'[r].wfail = run[r].wfail
            /\ watermark' = [watermark EXCEPT ![d] = run[r].seen[d]],
         \/ watermark' = watermark
         \/ watermark' = [watermark EXCEPT ![d] = run[r].seen[d]]
  PROVE  Ahead(r)'
<1>1. d \notin run[r].todo /\ Due(r) = run[r].waiting /\ Due(r)' = Due(r) \ {d}
  BY DEF Kept, Due
<1>2. run[r].todo \subseteq Devices /\ run[r].sent \subseteq Devices
      /\ run[r].waiting \subseteq Devices
  BY LocalFields
<1>3. \A e \in Devices : e # d => watermark'[e] = watermark[e]
  BY DEF TypeOK
<1>4. \A e \in run'[r].todo \cup Due(r)' : IsNew(run'[r].seen[e], watermark'[e])
  BY <1>1, <1>2, <1>3 DEF Ahead, IsNew, ParseWatermark
<1>5. ASSUME ~run'[r].wfail, NEW e \in run'[r].sent \ Due(r)'
      PROVE  watermark'[e] = run'[r].seen[e]
  <2>1. ~run[r].wfail /\ watermark'[d] = run[r].seen[d]
    BY <1>5 DEF TypeOK
  <2>2. CASE e = d
    BY <2>1, <2>2
  <2>3. CASE e # d
    BY <1>1, <1>2, <1>3, <1>5, <2>1, <2>3 DEF Ahead
  <2> QED
    BY <2>2, <2>3
<1>6. Ahead(r)' <=>
        /\ \A e \in run'[r].todo \cup Due(r)' : IsNew(run'[r].seen[e], watermark'[e])
        /\ ~run'[r].wfail => \A e \in run'[r].sent \ Due(r)' : watermark'[e] = run'[r].seen[e]
  BY DEF Ahead, IsNew, ParseWatermark
<1> QED
  BY <1>4, <1>5, <1>6

LEMMA SerialStep ==
  TypeOK /\ Bookkeeping /\ SerialBookkeeping /\ [Next]_vars => SerialBookkeeping'
<1> DEFINE Goal == OneBusy /\ \A q \in Runs : Ahead(q)
<1> SUFFICES ASSUME TypeOK, Bookkeeping, Serial, OneBusy, \A q \in Runs : Ahead(q),
                    [Next]_vars
             PROVE  Goal'
  BY DEF SerialBookkeeping
<1>0. clock \in Int /\ \A r \in Runs : Kept(r) /\ Ahead(r)
  BY Constants DEF TypeOK, Bookkeeping
<1>1. ASSUME UNCHANGED <<watermark, pc, run>> PROVE Goal'
  BY <1>0, <1>1 DEF OneBusy, Ahead, IsNew, ParseWatermark, Due
<1>a. UNCHANGED vars => Goal'
  BY <1>1 DEF vars
<1>2. ASSUME NEW d \in Devices, NEW t \in Times, Report(d, t) PROVE Goal'
  BY <1>1, <1>2 DEF Report
<1>3. Tick => Goal'
  BY <1>1 DEF Tick
<1>4. ASSUME NEW r \in Runs, StartPull(r) PROVE Goal'
  <2>1. /\ Onward(r) /\ watermark' = watermark
        /\ \A q \in Runs : pc[q] \notin Busy
    BY <1>0, <1>4 DEF Onward, StartPull, MayStart, TypeOK
  <2>2. /\ run'[r].seen = run[r].seen /\ run'[r].wfail = run[r].wfail
        /\ run'[r].todo = run[r].todo /\ run'[r].sent = run[r].sent
        /\ pc'[r] = "fetch"
    BY <1>4, LocalFields DEF StartPull, TypeOK, Local
  <2>3. Due(r) = {} /\ Due(r)' = {}
    BY <2>1, <2>2 DEF Due, Busy
  <2>4. Ahead(r)'
    BY <1>0, <2>1, <2>2, <2>3, AheadCarried
  <2> QED
    BY <2>1, <2>4, SerialOthers
<1>5. ASSUME NEW r \in Runs, ExtractVehicles(r) PROVE Goal'
  <2>1. Onward(r) /\ watermark' = watermark /\ pc[r] = "fetch" /\ pc'[r] = "read"
    BY <1>0, <1>5 DEF Onward, ExtractVehicles, TypeOK
  <2>2. run'[r].todo = {} /\ run'[r].sent = {}
    <3>1. run[r].todo = {} /\ run[r].sent = {}
      BY <1>0, <2>1 DEF Kept
    <3> QED
      BY <1>5, <3>1, LocalFields DEF ExtractVehicles, TypeOK, Local
  <2>3. Ahead(r)'
    BY <2>1, <2>2 DEF Ahead, Due
  <2> QED
    BY <2>1, <2>3, SerialOthers DEF Busy
<1>6. ASSUME NEW r \in Runs, NEW d \in Devices, ReadState(r, d) PROVE Goal'
  <2>1. Onward(r) /\ watermark' = watermark /\ pc[r] = "read" /\ pc'[r] = "read"
    BY <1>0, <1>6 DEF Onward, ReadState, TypeOK
  <2>2. /\ run'[r].seen = run[r].seen /\ run'[r].sent = {}
        /\ \/ run'[r].todo = run[r].todo
           \/ /\ run'[r].todo = run[r].todo \cup {d}
              /\ IsNew(run[r].seen[d], watermark[d])
    <3>1. run[r].sent = {}
      BY <1>0, <2>1 DEF Kept
    <3> QED
      BY <1>6, <3>1, LocalFields DEF ReadState, TypeOK, Local
  <2>3. Due(r) = {} /\ Due(r)' = {}
    BY <2>1 DEF Due
  <2>4. Ahead(r)'
    BY <1>0, <2>1, <2>2, <2>3 DEF Ahead, IsNew, ParseWatermark
  <2> QED
    BY <2>1, <2>4, SerialOthers DEF Busy
<1>7. ASSUME NEW r \in Runs, CallRaises(r) PROVE Goal'
  <2>1. Onward(r) /\ run'[r] = NoLocals /\ watermark' = watermark /\ pc'[r] = "failed"
    BY <1>0, <1>7 DEF Onward, CallRaises, Leave, TypeOK
  <2> QED
    BY <2>1, AheadLeft, SerialOthers DEF Busy
<1>8. ASSUME NEW r \in Runs, SendBatch(r) PROVE Goal'
  <2>1. Onward(r) /\ watermark' = watermark /\ pc[r] \in {"read", "save"} /\ pc'[r] = "send"
    BY <1>0, <1>8 DEF Onward, SendBatch, AtLoopHead, TypeOK
  <2>2. /\ run'[r].seen = run[r].seen /\ run'[r].wfail = run[r].wfail
        /\ run'[r].todo = run[r].todo /\ run'[r].sent = run[r].sent
        /\ run[r].waiting = {}
    BY <1>8, LocalFields DEF SendBatch, AtLoopHead, TypeOK, Local
  <2>3. Due(r) = {} /\ Due(r)' = {}
    BY <2>1, <2>2 DEF Due
  <2>4. Ahead(r)'
    BY <1>0, <2>1, <2>2, <2>3, AheadCarried
  <2> QED
    BY <2>1, <2>4, SerialOthers DEF Busy
<1>9. ASSUME NEW r \in Runs, Finish(r) \/ GatherRaises(r) PROVE Goal'
  <2>1. /\ Onward(r) /\ run'[r] = NoLocals /\ watermark' = watermark
        /\ pc'[r] \in {"done", "failed"}
    BY <1>0, <1>9 DEF Onward, Finish, GatherRaises, Leave, TypeOK
  <2> QED
    BY <2>1, AheadLeft, SerialOthers DEF Busy
<1>10. ASSUME NEW r \in Runs, Accepted(r) PROVE Goal'
  <2>1. Onward(r) /\ watermark' = watermark /\ pc[r] = "send" /\ pc'[r] = "save"
    BY <1>0, <1>10 DEF Onward, Accepted, TypeOK
  <2>2. /\ run'[r].seen = run[r].seen /\ run'[r].wfail = run[r].wfail
        /\ run'[r].todo = run[r].todo \ run[r].batch
        /\ run'[r].sent = run[r].sent \cup run[r].batch
        /\ run'[r].waiting = run[r].batch /\ run[r].batch \subseteq run[r].todo
    BY <1>0, <1>10, LocalFields DEF Accepted, TypeOK, Local, Kept
  <2>3. Due(r) = {} /\ Due(r)' = run[r].batch
    BY <2>1, <2>2 DEF Due
  <2>4. Ahead(r)'
    BY <1>0, <2>1, <2>2, <2>3, AheadCarried
  <2> QED
    BY <2>1, <2>4, SerialOthers DEF Busy
<1>11. ASSUME NEW r \in Runs, PostRaises(r) PROVE Goal'
  <2>1. Onward(r) /\ watermark' = watermark /\ pc[r] = "send"
    BY <1>0, <1>11 DEF Onward, PostRaises, Leave, TypeOK
  <2>2. CASE run[r].tries + 1 < MaxAttempts
    <3>1. /\ run'[r].seen = run[r].seen /\ run'[r].wfail = run[r].wfail
          /\ run'[r].todo = run[r].todo /\ run'[r].sent = run[r].sent
          /\ pc'[r] = "send"
      BY <1>11, <2>2, LocalFields DEF PostRaises, TypeOK, Local
    <3>2. Due(r) = {} /\ Due(r)' = {}
      BY <2>1, <3>1 DEF Due
    <3>3. Ahead(r)'
      BY <1>0, <2>1, <3>1, <3>2, AheadCarried
    <3> QED
      BY <2>1, <3>3, SerialOthers DEF Busy
  <2>3. CASE ~(run[r].tries + 1 < MaxAttempts)
    <3>1. run'[r] = NoLocals
      BY <1>11, <2>3 DEF PostRaises, Leave, TypeOK
    <3> QED
      BY <2>1, <3>1, AheadLeft, SerialOthers DEF Busy
  <2> QED
    BY <2>2, <2>3
<1>12. ASSUME NEW r \in Runs, NEW d \in Devices, SaveState(r, d) PROVE Goal'
  <2>1. /\ Onward(r) /\ pc[r] = "save" /\ pc'[r] = "save" /\ d \in run[r].waiting
        /\ watermark' = [watermark EXCEPT ![d] = run[r].seen[d]]
    BY <1>0, <1>12 DEF Onward, SaveState, TypeOK
  <2>2. /\ run'[r].seen = run[r].seen /\ run'[r].wfail = run[r].wfail
        /\ run'[r].todo = run[r].todo /\ run'[r].sent = run[r].sent
        /\ run'[r].waiting = run[r].waiting \ {d}
    BY <1>12, LocalFields DEF SaveState, TypeOK, Local
  <2>3. Ahead(r)'
    BY <1>0, <2>1, <2>2, AheadRecorded
  <2> QED
    BY <2>1, <2>3, SerialOthers DEF Busy
<1>13. ASSUME NEW r \in Runs, NEW d \in Devices, SaveRaises(r, d) PROVE Goal'
  <2>1. /\ Onward(r) /\ pc[r] = "save" /\ pc'[r] = "save" /\ d \in run[r].waiting
        /\ \/ watermark' = watermark
           \/ watermark' = [watermark EXCEPT ![d] = run[r].seen[d]]
    BY <1>0, <1>13 DEF Onward, SaveRaises, TypeOK
  <2>2. /\ run'[r].seen = run[r].seen /\ run'[r].wfail
        /\ run'[r].todo = run[r].todo /\ run'[r].sent = run[r].sent
        /\ run'[r].waiting = run[r].waiting \ {d}
    BY <1>13, LocalFields DEF SaveRaises, TypeOK, Local
  <2>3. Ahead(r)'
    BY <1>0, <2>1, <2>2, AheadRecorded
  <2> QED
    BY <2>1, <2>3, SerialOthers DEF Busy
<1>14. ASSUME NEW r \in Runs, Cancel(r) PROVE Goal'
  <2>1. Onward(r) /\ run'[r] = NoLocals /\ watermark' = watermark /\ pc'[r] = "failed"
    BY <1>0, <1>14 DEF Onward, Cancel, Leave, TypeOK
  <2> QED
    BY <2>1, AheadLeft, SerialOthers DEF Busy
<1> HIDE DEF Goal
<1> QED
  BY <1>a, <1>2, <1>3, <1>4, <1>5, <1>6, <1>7, <1>8, <1>9, <1>10, <1>11,
     <1>12, <1>13, <1>14, StepCases, Zenon

-----------------------------------------------------------------------------
LEMMA IInvInit == Init => IInv
<1> SUFFICES ASSUME Init PROVE IInv
  OBVIOUS
<1>1. TypeOK /\ Bookkeeping
  BY TypeInit, BookkeepingInit
<1>2. \A d \in Devices : watermark[d] \notin Times
  BY Constants DEF Init
<1>3. WatermarkBacked /\ NotPoisoned
  BY <1>2 DEF WatermarkBacked, NotPoisoned
<1>4. NoSilentGap
  BY DEF Init, NoSilentGap, NoGap, Examined, Vehicles, NoLocals
<1>5. SerialBookkeeping
  BY DEF Init, SerialBookkeeping, OneBusy, Ahead, Due, NoLocals, Busy
<1> QED
  BY <1>1, <1>3, <1>4, <1>5 DEF IInv

LEMMA IInvStep == IInv /\ [Next]_vars => IInv'
BY TypeStep, BookkeepingStep, WatermarkBackedStep, NotPoisonedStep, NoSilentGapStep,
   SerialStep DEF IInv

LEMMA Inductive == Spec => []IInv
BY IInvInit, IInvStep, PTL DEF Spec

(* Every variable keeps its type. *)
THEOREM TypeCorrect == Spec => []TypeOK
<1>1. IInv => TypeOK
  BY DEF IInv
<1> QED
  BY <1>1, Inductive, PTL

(* A watermark is written only after Gundi accepted what it stands for, for *)
(* any number of overlapping, failing and cancelled invocations.            *)
THEOREM Backed == Spec => []WatermarkBacked
<1>1. IInv => WatermarkBacked
  BY DEF IInv
<1> QED
  BY <1>1, Inductive, PTL

(* The dedup never leaves out a fix of which Gundi has neither the fix nor a *)
(* newer one of that device (handlers.py:175-194).                           *)
THEOREM NoGapEver == Spec => []NoSilentGap
<1>1. IInv => NoSilentGap
  BY DEF IInv
<1> QED
  BY <1>1, Inductive, PTL

(* No watermark is further ahead of the clock than the skew allowance under  *)
(* some configured offset, whatever the devices report (handlers.py:185-192).*)
THEOREM NeverPoisoned == Spec => []NotPoisoned
<1>1. IInv => NotPoisoned
  BY DEF IInv
<1> QED
  BY <1>1, Inductive, PTL

(* Without overlap, a batch is posted only when the earlier ones have been  *)
(* recorded (handlers.py:210-212).                                          *)
THEOREM RecordedBeforeNextBatch == Spec => []EarlierBatchesRecorded
<1>1. IInv => EarlierBatchesRecorded
  <2> SUFFICES ASSUME IInv, Serial, NEW r \in Runs, pc[r] = "send",
                      NEW d \in run[r].sent
               PROVE  watermark[d] = run[r].seen[d]
    BY DEF EarlierBatchesRecorded
  <2>1. Kept(r) /\ Ahead(r)
    BY DEF IInv, Bookkeeping, SerialBookkeeping
  <2> QED
    BY <2>1 DEF Kept, Ahead, Due
<1> QED
  BY <1>1, Inductive, PTL

(* Without overlap, what an invocation records is newer than the watermark. *)
LEMMA RecordedIsNew ==
  ASSUME IInv, Serial, NEW r \in Runs, NEW d \in Devices, Recorded(r, d)
  PROVE  run[r].seen[d] > ParseWatermark(watermark[d])
<1>1. Ahead(r) /\ d \in Due(r)
  BY DEF IInv, SerialBookkeeping, Recorded, Due
<1> QED
  BY <1>1 DEF Ahead, IsNew

(* Without overlap and without faults, what Gundi has accepted of a device   *)
(* is behind its watermark, or due to be recorded.                           *)
Settled(d, t) ==
  \/ t <= ParseWatermark(watermark[d])
  \/ \E r \in Runs : d \in Due(r) /\ t = run[r].seen[d]

Once ==
  Serial /\ faults = 0 =>
    \A d \in Devices, t \in Times : <<d, t>> \in delivered => Settled(d, t)

(* A step after which what was settled still is, and nothing new is accepted.*)
LEMMA OnceCarried ==
  ASSUME Once, faults' = 0 => faults = 0, delivered' = delivered, watermark' = watermark,
         \A q \in Runs : Due(q)' = Due(q) /\ (Due(q) # {} => run'[q].seen = run[q].seen)
  PROVE  Once'
<1> SUFFICES ASSUME Serial, faults' = 0, NEW d \in Devices, NEW t \in Times,
                    <<d, t>> \in delivered
             PROVE  Settled(d, t)'
  BY DEF Once
<1>1. Settled(d, t)
  BY DEF Once
<1>2. CASE t <= ParseWatermark(watermark[d])
  BY <1>2 DEF Settled, ParseWatermark
<1>3. ASSUME NEW r \in Runs, d \in Due(r), t = run[r].seen[d] PROVE Settled(d, t)'
  BY <1>3 DEF Settled
<1> QED
  BY <1>1, <1>2, <1>3 DEF Settled

(* A step of an invocation that has nothing due, before or after it.         *)
LEMMA OnceIdle ==
  ASSUME Once, faults' = 0 => faults = 0, delivered' = delivered, watermark' = watermark,
         NEW r \in Runs, Onward(r), Due(r) = {}, Due(r)' = {}
  PROVE  Once'
<1>1. ASSUME NEW q \in Runs
      PROVE  Due(q)' = Due(q) /\ (Due(q) # {} => run'[q].seen = run[q].seen)
  BY DEF Onward, Due
<1> QED
  BY <1>1, OnceCarried

LEMMA OnceStep == IInv /\ Once /\ [Next]_vars => Once'
<1> SUFFICES ASSUME IInv, Once, [Next]_vars PROVE Once'
  OBVIOUS
<1>0. TypeOK /\ Bookkeeping /\ clock \in Int /\ faults \in Nat /\ \A r \in Runs : Kept(r)
  BY Constants DEF IInv, TypeOK, Bookkeeping
<1>1. ASSUME UNCHANGED <<delivered, watermark, pc, run, faults>> PROVE Once'
  <2>1. \A q \in Runs : Due(q)' = Due(q)
    BY <1>1 DEF Due
  <2> QED
    BY <1>1, <2>1, OnceCarried
<1>f. ASSUME faults' = faults + 1 PROVE Once'
  BY <1>0, <1>f DEF Once
<1>a. UNCHANGED vars => Once'
  BY <1>1 DEF vars
<1>2. ASSUME NEW d \in Devices, NEW t \in Times, Report(d, t) PROVE Once'
  BY <1>1, <1>2 DEF Report
<1>3. Tick => Once'
  BY <1>1 DEF Tick
<1>4. ASSUME NEW r \in Runs, StartPull(r) PROVE Once'
  <2>1. Onward(r) /\ Due(r) = {} /\ Due(r)' = {}
    BY <1>0, <1>4 DEF Onward, StartPull, MayStart, TypeOK, Due, Busy
  <2> QED
    BY <1>4, <2>1, OnceIdle DEF StartPull
<1>5. ASSUME NEW r \in Runs, ExtractVehicles(r) PROVE Once'
  <2>1. Onward(r) /\ Due(r) = {} /\ Due(r)' = {}
    BY <1>0, <1>5 DEF Onward, ExtractVehicles, TypeOK, Due
  <2> QED
    BY <1>5, <2>1, OnceIdle DEF ExtractVehicles
<1>6. ASSUME NEW r \in Runs, NEW d \in Devices, ReadState(r, d) PROVE Once'
  <2>1. Onward(r) /\ Due(r) = {} /\ Due(r)' = {}
    BY <1>0, <1>6 DEF Onward, ReadState, TypeOK, Due
  <2> QED
    BY <1>6, <2>1, OnceIdle DEF ReadState
<1>7. ASSUME NEW r \in Runs, CallRaises(r) PROVE Once'
  <2>1. Onward(r) /\ Due(r) = {} /\ Due(r)' = {}
    BY <1>0, <1>7 DEF Onward, CallRaises, Leave, TypeOK, Due
  <2>2. faults' = 0 => faults = 0
    BY <1>0, <1>7 DEF CallRaises, Fault
  <2> QED
    BY <1>7, <2>1, <2>2, OnceIdle DEF CallRaises
<1>8. ASSUME NEW r \in Runs, SendBatch(r) PROVE Once'
  <2>1. Onward(r) /\ Due(r) = {} /\ Due(r)' = {}
    BY <1>0, <1>8 DEF Onward, SendBatch, AtLoopHead, TypeOK, Due
  <2> QED
    BY <1>8, <2>1, OnceIdle DEF SendBatch
<1>9. ASSUME NEW r \in Runs, Finish(r) \/ GatherRaises(r) PROVE Once'
  <2>1. Onward(r) /\ Due(r) = {} /\ Due(r)' = {}
    BY <1>0, <1>9 DEF Onward, Finish, GatherRaises, AtLoopHead, Leave, TypeOK, Due
  <2> QED
    BY <1>9, <2>1, OnceIdle DEF Finish, GatherRaises
<1>10. ASSUME NEW r \in Runs, Accepted(r) PROVE Once'
  <2>1. /\ Onward(r) /\ Due(r) = {} /\ pc'[r] = "save" /\ watermark' = watermark
        /\ faults' = faults /\ delivered' = delivered \cup Items(r, run[r].batch)
    BY <1>0, <1>10 DEF Onward, Accepted, TypeOK, Due
  <2>2. run'[r].seen = run[r].seen /\ Due(r)' = run[r].batch
    <3>1. run'[r].seen = run[r].seen /\ run'[r].waiting = run[r].batch
      BY <1>0, <1>10, LocalFields DEF Accepted, TypeOK, Local
    <3> QED
      BY <2>1, <3>1 DEF Due
  <2>3. SUFFICES ASSUME Serial, faults = 0, NEW d \in Devices, NEW t \in Times,
                        <<d, t>> \in delivered'
                 PROVE  Settled(d, t)'
    BY <2>1 DEF Once
  <2>4. CASE <<d, t>> \in Items(r, run[r].batch)
    BY <2>2, <2>4 DEF Items, Settled
  <2>5. CASE Settled(d, t)
    <3>1. CASE t <= ParseWatermark(watermark[d])
      BY <2>1, <3>1 DEF Settled, ParseWatermark
    <3>2. ASSUME NEW q \in Runs, d \in Due(q), t = run[q].seen[d] PROVE Settled(d, t)'
      <4>1. d \in Due(q)' /\ t = run'[q].seen[d]
        BY <2>1, <3>2 DEF Onward, Due
      <4> QED
        BY <4>1 DEF Settled
    <3> QED
      BY <2>5, <3>1, <3>2 DEF Settled
  <2> QED
    BY <2>1, <2>3, <2>4, <2>5 DEF Once
<1>11. ASSUME NEW r \in Runs, PostRaises(r) PROVE Once'
  BY <1>f, <1>11 DEF PostRaises, Fault
<1>12. ASSUME NEW r \in Runs, NEW d \in Devices, SaveState(r, d) PROVE Once'
  <2>1. /\ Onward(r) /\ pc[r] = "save" /\ pc'[r] = "save" /\ d \in run[r].waiting
        /\ watermark' = [watermark EXCEPT ![d] = run[r].seen[d]]
        /\ faults' = faults /\ delivered' = delivered
    BY <1>0, <1>12 DEF Onward, SaveState, TypeOK
  <2>2. run'[r].seen = run[r].seen /\ Due(r) = run[r].waiting /\ Due(r)' = Due(r) \ {d}
    <3>1. run'[r].seen = run[r].seen /\ run'[r].waiting = run[r].waiting \ {d}
      BY <1>0, <1>12, LocalFields DEF SaveState, TypeOK, Local
    <3> QED
      BY <2>1, <3>1 DEF Due
  <2>3. SUFFICES ASSUME Serial, faults = 0, NEW e \in Devices, NEW t \in Times,
                        <<e, t>> \in delivered
                 PROVE  Settled(e, t)'
    BY <2>1 DEF Once
  <2>4. Settled(e, t) /\ \A q \in Runs : q # r => Due(q) = {}
    BY <2>1, <2>3 DEF Once, IInv, SerialBookkeeping, OneBusy, Due, Busy
  <2>5. CASE e # d
    <3>1. watermark'[e] = watermark[e]
      BY <1>0, <2>1, <2>5 DEF TypeOK
    <3> QED
      BY <2>1, <2>2, <2>4, <2>5, <3>1 DEF Settled, ParseWatermark
  <2>6. CASE e = d
    <3>1. run[r].seen[d] \in Times
      BY <1>0, <2>1, DueTimes DEF Kept
    <3>2. run[r].seen[d] > ParseWatermark(watermark[d])
      BY <2>1, <2>3, RecordedIsNew, <1>12 DEF Recorded, SaveState
    <3>3. ParseWatermark(watermark'[d]) = run[r].seen[d]
      BY <1>0, <2>1, <3>1 DEF TypeOK, ParseWatermark
    <3>4. ParseWatermark(watermark[d]) \in Int
      BY <1>0, Constants DEF ParseWatermark, Times
    <3>5. t <= run[r].seen[d]
      BY <2>4, <2>6, <3>1, <3>2, <3>4, Constants DEF Settled, Times
    <3> QED
      BY <2>6, <3>3, <3>5 DEF Settled, ParseWatermark
  <2> QED
    BY <2>5, <2>6
<1>13. ASSUME NEW r \in Runs, NEW d \in Devices, SaveRaises(r, d) PROVE Once'
  BY <1>f, <1>13 DEF SaveRaises, Fault
<1>14. ASSUME NEW r \in Runs, Cancel(r) PROVE Once'
  BY <1>f, <1>14 DEF Cancel, Fault
<1> QED
  BY <1>a, <1>2, <1>3, <1>4, <1>5, <1>6, <1>7, <1>8, <1>9, <1>10, <1>11,
     <1>12, <1>13, <1>14, StepCases, Zenon

(* Without overlap, nothing at or below a watermark is posted, and nothing   *)
(* that Gundi has accepted unless something failed.                          *)
THEOREM NoResend == Spec => []NoNeedlessResend
<1>1. IInv /\ Once => NoNeedlessResend
  <2> SUFFICES ASSUME IInv, Once, Serial, NEW r \in Runs, pc[r] = "send",
                      NEW d \in run[r].todo
               PROVE  /\ run[r].seen[d] > ParseWatermark(watermark[d])
                      /\ faults = 0 => <<d, run[r].seen[d]>> \notin delivered
    BY DEF NoNeedlessResend
  <2>1. Kept(r) /\ Ahead(r) /\ TypeOK
    BY DEF IInv, Bookkeeping, SerialBookkeeping
  <2>2. run[r].seen[d] > ParseWatermark(watermark[d])
    BY <2>1 DEF Ahead, IsNew
  <2>3. run[r].seen[d] \in Times /\ d \in Devices
    BY <2>1, DueTimes, LocalFields DEF Kept
  <2>4. \A q \in Runs : Due(q) = {}
    BY DEF IInv, SerialBookkeeping, OneBusy, Due, Busy
  <2>5. ParseWatermark(watermark[d]) \in Int
    BY Constants DEF ParseWatermark, Times
  <2>6. ~Settled(d, run[r].seen[d])
    BY <2>2, <2>3, <2>4, <2>5, Constants DEF Settled, Times
  <2> QED
    BY <2>2, <2>3, <2>6 DEF Once
<1>2. Init => Once
  BY DEF Init, Once
<1> QED
  BY <1>1, <1>2, OnceStep, Inductive, PTL DEF Spec

(* Without overlap, a watermark only moves forward.                          *)
THEOREM Monotone == ASSUME Serial PROVE Spec => WatermarkMonotone
<1>1. IInv /\ [Next]_vars =>
        [\A d \in Devices :
           ParseWatermark(watermark[d]) <= ParseWatermark(watermark'[d])]_vars
  <2> SUFFICES ASSUME IInv, [Next]_vars, NEW d \in Devices
               PROVE  ParseWatermark(watermark[d]) <= ParseWatermark(watermark'[d])
    OBVIOUS
  <2>1. TypeOK /\ Bookkeeping /\ ParseWatermark(watermark[d]) \in Int
    BY Constants DEF IInv, ParseWatermark, Times
  <2>2. CASE watermark' = watermark
    BY <2>1, <2>2
  <2>3. ASSUME NEW r \in Runs, NEW e \in Devices, Recorded(r, e)
        PROVE  ParseWatermark(watermark[d]) <= ParseWatermark(watermark'[d])
    <3>1. /\ watermark' = [watermark EXCEPT ![e] = run[r].seen[e]]
          /\ run[r].seen[e] \in Times
          /\ run[r].seen[e] > ParseWatermark(watermark[e])
      BY <2>1, <2>3, RecordedFix, RecordedIsNew DEF Recorded
    <3>2. CASE d = e
      BY <2>1, <3>1, <3>2, Constants DEF ParseWatermark, TypeOK, Times
    <3>3. CASE d # e
      BY <2>1, <3>1, <3>3 DEF TypeOK
    <3> QED
      BY <3>2, <3>3
  <2> QED
    BY <2>1, <2>2, <2>3, WatermarkMoves
<1> QED
  BY <1>1, Inductive, PTL DEF Spec, WatermarkMonotone

-----------------------------------------------------------------------------
(* The only way the log of deliveries grows: Gundi accepts a whole batch.   *)
LEMMA DeliveryMoves ==
  ASSUME [Next]_vars
  PROVE  \/ delivered' = delivered
         \/ \E r \in Runs : /\ delivered' = delivered \cup Items(r, run[r].batch)
                            /\ watermark' = watermark
<1> DEFINE P == \/ delivered' = delivered
                \/ \E r \in Runs : /\ delivered' = delivered \cup Items(r, run[r].batch)
                                   /\ watermark' = watermark
<1>1. UNCHANGED vars => P
  BY DEF vars
<1>2. ASSUME NEW d \in Devices, NEW t \in Times, Report(d, t) PROVE P
  BY <1>2 DEF Report
<1>3. Tick => P
  BY DEF Tick
<1>4. ASSUME NEW r \in Runs, StartPull(r) PROVE P
  BY <1>4 DEF StartPull
<1>5. ASSUME NEW r \in Runs, ExtractVehicles(r) PROVE P
  BY <1>5 DEF ExtractVehicles
<1>6. ASSUME NEW r \in Runs, NEW d \in Devices, ReadState(r, d) PROVE P
  BY <1>6 DEF ReadState
<1>7. ASSUME NEW r \in Runs, CallRaises(r) PROVE P
  BY <1>7 DEF CallRaises
<1>8. ASSUME NEW r \in Runs, SendBatch(r) PROVE P
  BY <1>8 DEF SendBatch
<1>9. ASSUME NEW r \in Runs, Finish(r) \/ GatherRaises(r) PROVE P
  BY <1>9 DEF Finish, GatherRaises
<1>10. ASSUME NEW r \in Runs, Accepted(r) PROVE P
  BY <1>10 DEF Accepted
<1>11. ASSUME NEW r \in Runs, PostRaises(r) PROVE P
  BY <1>11 DEF PostRaises
<1>12. ASSUME NEW r \in Runs, NEW d \in Devices, SaveState(r, d) PROVE P
  BY <1>12 DEF SaveState
<1>13. ASSUME NEW r \in Runs, NEW d \in Devices, SaveRaises(r, d) PROVE P
  BY <1>13 DEF SaveRaises
<1>14. ASSUME NEW r \in Runs, Cancel(r) PROVE P
  BY <1>14 DEF Cancel
<1> HIDE DEF P
<1>15. P
  BY <1>1, <1>2, <1>3, <1>4, <1>5, <1>6, <1>7, <1>8, <1>9, <1>10, <1>11,
     <1>12, <1>13, <1>14, StepCases, Zenon
<1> QED
  BY <1>15 DEF P

LEMMA LogStep ==
  ASSUME IInv, IInv', [Next]_vars
  PROVE  [Log!LogNext]_(Log!logVars)
<1> DEFINE mark == [d \in Devices |-> ParseWatermark(watermark[d])]
<1>0. TypeOK /\ TypeOK' /\ Bookkeeping
  BY DEF IInv
<1>1. watermark' = watermark => mark' = mark
  BY DEF ParseWatermark
<1>2. CASE watermark' = watermark /\ delivered' = delivered
  BY <1>1, <1>2 DEF Log!logVars
<1>3. ASSUME NEW r \in Runs, watermark' = watermark,
             delivered' = delivered \cup Items(r, run[r].batch)
      PROVE  [Log!LogNext]_(Log!logVars)
  <2>1. ASSUME Serial, NEW o \in delivered' \ delivered
        PROVE  o[2] > mark[o[1]]
    <3>1. PICK d \in run[r].batch : o = <<d, run[r].seen[d]>>
      BY <1>3, <2>1 DEF Items
    <3>2. Kept(r) /\ Ahead(r)
      BY <2>1 DEF IInv, Bookkeeping, SerialBookkeeping
    <3>3. d \notin run[r].sent
      BY <2>1, <3>1, <3>2 DEF Kept, Items
    <3>4. pc[r] = "send"
      BY <1>0, <3>1, <3>2, <3>3, DueTimes DEF Kept
    <3>5. d \in run[r].todo /\ d \in Devices
      BY <1>0, <3>1, <3>2, <3>4, LocalFields DEF Kept
    <3> QED
      BY <3>1, <3>2, <3>5 DEF Ahead, IsNew
  <2>2. delivered' \subseteq Devices \X Times
    BY <1>0 DEF TypeOK
  <2>3. Log!Deliver
    BY <1>1, <1>3, <2>1, <2>2 DEF Log!Deliver, Log!Ahead
  <2> QED
    BY <2>3 DEF Log!LogNext
<1>4. ASSUME NEW r \in Runs, NEW d \in Devices, Recorded(r, d)
      PROVE  [Log!LogNext]_(Log!logVars)
  <2> DEFINE o == <<d, run[r].seen[d]>>
  <2>1. o \in delivered /\ run[r].seen[d] \in Times
    BY <1>0, <1>4, RecordedFix
  <2>2. Serial => o[2] > mark[o[1]]
    BY <1>4, RecordedIsNew
  <2>3. mark' = [mark EXCEPT ![d] = run[r].seen[d]]
    BY <1>0, <1>4, <2>1 DEF Recorded, ParseWatermark, TypeOK
  <2>4. Log!Record
    BY <1>4, <2>1, <2>2, <2>3 DEF Log!Record, Log!Ahead, Recorded
  <2> QED
    BY <2>4 DEF Log!LogNext
<1> QED
  BY <1>0, <1>2, <1>3, <1>4, WatermarkMoves, DeliveryMoves

(* The pull implements the delivery log: an ordered one when invocations do *)
(* not overlap, and one that never records an undelivered fix when they do. *)
THEOREM Refinement == Spec => ImplementsDeliveryLog
<1>1. Init => Log!LogInit
  BY Constants DEF Init, Log!LogInit, ParseWatermark
<1>2. IInv /\ IInv' /\ [Next]_vars => [Log!LogNext]_(Log!logVars)
  BY LogStep
<1> QED
  BY <1>1, <1>2, Inductive, PTL DEF Spec, ImplementsDeliveryLog, Log!LogSpec

=============================================================================
