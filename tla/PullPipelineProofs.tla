-------------------------- MODULE PullPipelineProofs --------------------------
(***************************************************************************)
(* Theorems about PullPipeline, for any devices, snapshots, offsets, limit *)
(* and number of attempts: PipelineInv is inductive, and what the runs     *)
(* check follows.  The proof rests on the components' own step lemmas; what *)
(* is new here is that they take turns, and the steps that join them.      *)
(***************************************************************************)
EXTENDS PullPipeline, CollapseRowsProofs, PullPartsProofs

(* What the safety properties rest on: the components' invariants, of which  *)
(* TrackitClient's ends with a gather that ends the pull, and their turns.   *)
PipelineInv ==
  /\ IInv /\ GatherInv
  /\ ClientTypeOK /\ RefusalIsToldAsSuch /\ DataOnlyAfterLogin
  /\ IF gather \in {"raised", "cancelled"} THEN call = "end" /\ open = {} /\ ~inFlight
                                           ELSE ClientInv
  /\ call \in Endpoints => rows = <<>> /\ pc = "rows"
  /\ rows # <<>> => answer["live"] = "good"
  /\ gather = "idle" <=> pc = "rows"
  /\ gather \in {"gathering", "cancelling", "returned"} => call = "rows"
  /\ DOMAIN ops = IF gather = "idle" THEN {} ELSE {d \in Imeis : latest[d] # 0}
  /\ gather # "returned" => new = {} /\ skewed = {} /\ pc \in {"rows", "decide"}

-----------------------------------------------------------------------------

(* The conjuncts of PipelineInv that relate one component to another.        *)
Turns ==
  /\ call \in Endpoints => rows = <<>> /\ pc = "rows"
  /\ rows # <<>> => answer["live"] = "good"
  /\ gather = "idle" <=> pc = "rows"
  /\ gather \in {"gathering", "cancelling", "returned"} => call = "rows"
  /\ DOMAIN ops = IF gather = "idle" THEN {} ELSE {d \in Imeis : latest[d] # 0}
  /\ gather # "returned" => new = {} /\ skewed = {} /\ pc \in {"rows", "decide"}

(* Where ClientInv holds it says the rest about the client.                  *)
LEMMA WhileClientHolds ==
  ASSUME IInv', GatherInv', ClientInv', Turns', gather' \notin {"raised", "cancelled"}
  PROVE  PipelineInv'
BY DEF PipelineInv, Turns, ClientInv

LEMMA PipelineInvInit == PipelineInit => PipelineInv
<1> SUFFICES ASSUME PipelineInit PROVE PipelineInv
  OBVIOUS
<1>1. Init
  <2>1. rows \in [1..0 -> Row] /\ 0 \in 0..MaxRows
    BY Constants DEF PipelineInit
  <2> QED
    BY <2>1 DEF PipelineInit, Init, Marks
<1>2. IInv
  BY <1>1, IInvInit
<1>3. ClientInv
  BY ClientInvInit DEF PipelineInit
<1>4. GatherInv
  <2>1. DOMAIN ops = {} /\ ops \in [{} -> Ended \cup {"waiting", "running"}]
        /\ slots = Limit /\ gather = "idle"
    BY DEF PipelineInit
  <2>2. GatherTypeOK
    BY <2>1, GatherAssumption DEF GatherTypeOK
  <2>3. InState({"running"}) = {} /\ InState({"cancelled"}) = {}
    BY <2>1 DEF InState
  <2>4. SlotsAccounted
    BY <2>1, <2>3, FS_EmptySet, GatherAssumption DEF SlotsAccounted
  <2> QED
    BY <2>1, <2>2, <2>3, <2>4 DEF GatherInv, NoOrphans, EveryOpTried
<1>5. Turns /\ gather = "idle"
  BY DEF PipelineInit, Turns
<1> QED
  BY <1>2, <1>3, <1>4, <1>5 DEF PipelineInv, Turns, ClientInv

-----------------------------------------------------------------------------
LEMMA RowsStutter == ASSUME IInv, UNCHANGED vars PROVE IInv'
BY IInvStep

(* While TrackIt is called no row has been read and no gather begun.         *)
LEMMA WhileCalling ==
  ASSUME PipelineInv, call \in Endpoints
  PROVE  /\ rows = <<>> /\ pc = "rows" /\ gather = "idle" /\ ClientInv
         /\ DOMAIN ops = {} /\ new = {} /\ skewed = {}
BY DEF PipelineInv, Endpoints

(* A step of the client alone.                                               *)
LEMMA CallStep ==
  ASSUME PipelineInv, call \in Endpoints, UNCHANGED <<vars, gatherVars>>,
         Post \/ AnswerFails \/ TokenArrives \/ RequestFails \/ TimeOut
  PROVE  PipelineInv'
<1>1. ClientInv'
  BY WhileCalling, PostStep, AnswerFailsStep, TokenArrivesStep, RequestFailsStep, TimeOutStep
<1>2. IInv' /\ GatherInv'
  BY RowsStutter, GatherInvStutter DEF PipelineInv
<1>3. Turns' /\ gather' = "idle"
  BY WhileCalling DEF Turns, vars, gatherVars
<1> QED
  BY <1>1, <1>2, <1>3, WhileClientHolds

LEMMA CallsStep == ASSUME PipelineInv, Calls PROVE PipelineInv'
<1>1. call \in Endpoints
  BY DEF Calls, Post, AnswerFails, Answered, TokenArrives, RequestFails
<1> QED
  BY <1>1, CallStep DEF Calls

(* The answer starts the loop over its rows.                                 *)
LEMMA ExtractStep == ASSUME PipelineInv, Extract PROVE PipelineInv'
<1>1. call \in Endpoints
  BY DEF Extract, LiveDataArrives, Endpoints
<1>2. ClientInv' /\ answer'["live"] = "good" /\ call' = "rows"
  <2>1. answer'[call] = "good" /\ call = "live"
    BY <1>1, WhileCalling, GoodAnswer DEF Extract, LiveDataArrives
  <2> QED
    BY <1>1, <2>1, WhileCalling, LiveDataArrivesStep DEF Extract, LiveDataArrives
<1>3. Init'
  <2>1. i = 1 /\ noFix = 0 /\ latest = [d \in Imeis |-> 0]
    BY <1>1, WhileCalling DEF PipelineInv, IInv, TypeOK
  <2>2. new = {} /\ skewed = {} /\ pending = {} /\ offset \in Offsets
    BY <1>1, WhileCalling DEF PipelineInv, IInv, Undecided, TypeOK
  <2> QED
    BY <1>1, <2>1, <2>2, WhileCalling DEF Extract, Init, Snapshots
<1>4. IInv'
  BY <1>3, IInvInit, PTL
<1>5. GatherInv' /\ gather' = "idle"
  BY <1>1, WhileCalling, GatherInvStutter DEF PipelineInv, Extract, gatherVars
<1>6. Turns'
  BY <1>1, <1>2, <1>5, WhileCalling DEF Turns, Extract, gatherVars, Endpoints
<1> QED
  BY <1>2, <1>4, <1>5, <1>6, WhileClientHolds

LEMMA ReadStep == ASSUME PipelineInv, Read PROVE PipelineInv'
<1>1. pc = "rows" /\ pc' = "rows" /\ rows' = rows /\ new' = new /\ skewed' = skewed
  BY DEF Read, ReadRow
<1>2. gather = "idle" /\ gather' = "idle" /\ ClientInv /\ call = "rows" /\ call' = "rows"
      /\ DOMAIN ops' = {} /\ answer' = answer /\ new = {} /\ skewed = {}
  BY <1>1 DEF PipelineInv, Read, gatherVars, clientVars
<1>3. IInv' /\ GatherInv' /\ ClientInv'
  BY <1>2, ReadRowStep, GatherInvStutter, ClientInvStutter DEF PipelineInv, Read
<1>4. Turns'
  BY <1>1, <1>2 DEF PipelineInv, Turns, Endpoints
<1> QED
  BY <1>2, <1>3, <1>4, WhileClientHolds

(* The gather gets one operation for every device that has a fix.            *)
LEMMA PrefetchStep == ASSUME PipelineInv, Prefetch PROVE PipelineInv'
<1>1. pc = "rows" /\ pc' = "decide" /\ UNCHANGED <<rows, latest, new, skewed>>
      /\ pending' = {d \in Imeis : latest[d] # 0}
  BY DEF Prefetch, RowsRead
<1>2. gather = "idle" /\ ClientInv /\ new = {} /\ skewed = {}
      /\ UNCHANGED <<call, answer>> /\ call = "rows"
  BY <1>1 DEF PipelineInv, Prefetch, clientVars
<1>3. gather' = "gathering" /\ DOMAIN ops' = pending'
  BY DEF Prefetch, Begin
<1>4. GatherInv'
  <2>1. pending' \in SUBSET Ops
    BY <1>1, PipelineAssumption
  <2> QED
    BY <2>1, BeginStep DEF Prefetch
<1>5. IInv' /\ ClientInv'
  BY <1>2, IInvStep, ClientInvStutter DEF PipelineInv, Prefetch, Next
<1>6. Turns'
  BY <1>1, <1>2, <1>3 DEF PipelineInv, Turns, Endpoints
<1> QED
  BY <1>3, <1>4, <1>5, <1>6, WhileClientHolds

(* A step of one fetch, or the cancellation of them all.                     *)
LEMMA GatherStep ==
  ASSUME PipelineInv, UNCHANGED <<vars, clientVars>>,
         \/ \E d \in DOMAIN ops : Acquire(d) \/ Succeed(d) \/ Fail(d) \/ Unwind(d)
         \/ CancelAll
  PROVE  PipelineInv'
<1>1. gather \in {"gathering", "cancelling"} /\ gather' \in {"gathering", "cancelling"}
      /\ DOMAIN ops' = DOMAIN ops
  BY DEF Acquire, Succeed, Fail, Release, Unwind, CancelAll
<1>2. ClientInv /\ ClientInv'
  BY <1>1, ClientInvStutter DEF PipelineInv
<1>3. IInv' /\ GatherInv'
  BY RowsStutter, GatherInvStep DEF PipelineInv, GatherNext, GatherProgress
<1>4. Turns'
  BY <1>1 DEF PipelineInv, Turns, vars, clientVars
<1> QED
  BY <1>1, <1>2, <1>3, <1>4, WhileClientHolds

LEMMA InterruptStep == ASSUME PipelineInv, Interrupt PROVE PipelineInv'
<1>1. CASE TimeOut /\ UNCHANGED gatherVars
  BY <1>1, CallStep DEF Interrupt, TimeOut
<1>2. CASE CancelAll /\ UNCHANGED clientVars
  BY <1>2, GatherStep DEF Interrupt
<1> QED
  BY <1>1, <1>2 DEF Interrupt

(* The fetches have ended: where that ends the pull, its verdict blames no   *)
(* refusal, and TrackIt has refused nothing.                                 *)
LEMMA FetchedStep == ASSUME PipelineInv, Fetched PROVE PipelineInv'
<1>1. gather \in {"gathering", "cancelling"} /\ ClientInv /\ call = "rows"
      /\ gather' \in {"returned", "raised", "cancelled"}
      /\ UNCHANGED <<ops, action, inFlight, attempt, open, answer>> /\ UNCHANGED vars
  BY DEF PipelineInv, Fetched, Settle
<1>2. IInv' /\ GatherInv'
  BY RowsStutter, SettleStep DEF PipelineInv, Fetched
<1>3. Turns'
  <2>1. call' = "rows" \/ (call' = "end" /\ gather' # "returned")
    BY <1>1 DEF Fetched
  <2> QED
    BY <1>1, <2>1 DEF PipelineInv, Turns, vars, Endpoints
<1>4. CASE gather' = "returned"
  <2>1. UNCHANGED clientVars
    BY <1>1, <1>4 DEF Fetched, clientVars
  <2> QED
    BY <1>1, <1>2, <1>3, <1>4, <2>1, ClientInvStutter, WhileClientHolds
<1>5. CASE gather' # "returned"
  <2>1. call' = "end" /\ verdict' \in {"unclassified", "connectivity"}
    BY <1>5 DEF Fetched, Classify
  <2>2. open' = {} /\ ~inFlight' /\ verdict = "none"
    BY <1>1 DEF ClientInv, NoSessionLeft, Endpoints
  <2>3. ClientTypeOK'
    BY <1>1, <2>1, <2>2 DEF ClientInv, ClientTypeOK
  <2>4. RefusalIsToldAsSuch' /\ DataOnlyAfterLogin'
    BY <1>1, <2>1, <2>2 DEF ClientInv, RefusalIsToldAsSuch, DataOnlyAfterLogin
  <2> QED
    BY <1>1, <1>2, <1>3, <1>5, <2>1, <2>2, <2>3, <2>4 DEF PipelineInv, Turns
<1> QED
  BY <1>4, <1>5

LEMMA JudgeStep == ASSUME PipelineInv, Judge PROVE PipelineInv'
<1>1. gather = "returned" /\ call = "rows" /\ ClientInv
      /\ UNCHANGED <<gather, ops, call, answer>>
  BY DEF PipelineInv, Judge, clientVars, gatherVars
<1>2. UNCHANGED <<rows, latest>> /\ pc # "rows" /\ pc' # "rows"
  BY DEF Judge, Decide, DecisionRaises, Decided
<1>3. IInv' /\ GatherInv' /\ ClientInv'
  BY <1>1, IInvStep, GatherInvStutter, ClientInvStutter DEF PipelineInv, Judge, Next
<1>4. Turns'
  BY <1>1, <1>2 DEF PipelineInv, Turns, Endpoints
<1> QED
  BY <1>1, <1>3, <1>4, WhileClientHolds

LEMMA PipelineStutter == ASSUME PipelineInv, UNCHANGED pipelineVars PROVE PipelineInv'
<1>1. IInv' /\ GatherInv' /\ (ClientInv => ClientInv')
  BY RowsStutter, GatherInvStutter, ClientInvStutter DEF PipelineInv, pipelineVars
<1>2. Turns'
  BY DEF PipelineInv, Turns, pipelineVars, vars, clientVars, gatherVars
<1>3. ClientTypeOK' /\ RefusalIsToldAsSuch' /\ DataOnlyAfterLogin'
  BY DEF PipelineInv, ClientTypeOK, RefusalIsToldAsSuch, DataOnlyAfterLogin, pipelineVars,
         clientVars
<1> QED
  BY <1>1, <1>2, <1>3 DEF PipelineInv, Turns, pipelineVars, clientVars, gatherVars

LEMMA PipelineInvAlways == PipelineSpec => []PipelineInv
<1>1. PipelineInv /\ [PipelineNext]_pipelineVars => PipelineInv'
  BY CallsStep, ExtractStep, ReadStep, PrefetchStep, GatherStep, FetchedStep, JudgeStep,
     InterruptStep, PipelineStutter DEF PipelineNext, PipelineProgress, Fetch
<1> QED
  BY <1>1, PipelineInvInit, PTL DEF PipelineSpec

-----------------------------------------------------------------------------
(* Type correctness of the composition, and that its components take turns.  *)
THEOREM PipelineTypeCorrect == PipelineSpec => []PipelineTypeOK
<1>1. PipelineInv => PipelineTypeOK
  BY DEF PipelineInv, PipelineTypeOK, IInv, GatherInv
<1> QED
  BY <1>1, PipelineInvAlways, PTL

(* However an action ends, by success, error or cancellation, no session is  *)
(* open and no Redis operation waits or runs (handlers.py:47-48).            *)
THEOREM ActionsLeaveNothing == PipelineSpec => []NothingLeftRunning
<1>1. PipelineInv => NothingLeftRunning
  <2> SUFFICES ASSUME PipelineInv, call = "end" \/ pc \in {"done", "raised"}
               PROVE  open = {} /\ \A d \in DOMAIN ops : ops[d] \notin {"waiting", "running"}
    BY DEF NothingLeftRunning
  <2>1. gather \in {"idle", "returned", "raised", "cancelled"}
    BY DEF PipelineInv, GatherInv, GatherTypeOK
  <2>2. open = {}
    BY <2>1 DEF PipelineInv, ClientInv, NoSessionLeft
  <2>3. CASE gather = "idle"
    BY <2>2, <2>3 DEF PipelineInv
  <2>4. CASE gather # "idle"
    BY <2>1, <2>2, <2>4 DEF PipelineInv, GatherInv, NoOrphans, InState
  <2> QED
    BY <2>3, <2>4
<1> QED
  BY <1>1, PipelineInvAlways, PTL

(* No device is decided on before the watermark of every device with a fix   *)
(* has been read, none having failed (handlers.py:167-183).                  *)
THEOREM DecisionsFollowReads == PipelineSpec => []DecidedOnWatermarks
<1>1. PipelineInv => DecidedOnWatermarks
  <2> SUFFICES ASSUME PipelineInv, new \cup skewed # {}, NEW d \in Imeis, latest[d] # 0
               PROVE  d \in DOMAIN ops /\ ops[d] = "done"
    BY DEF DecidedOnWatermarks
  <2>1. gather = "returned" /\ d \in DOMAIN ops
    BY DEF PipelineInv
  <2> QED
    BY <2>1 DEF PipelineInv, GatherInv, EveryOpTried, InState
<1> QED
  BY <1>1, PipelineInvAlways, PTL

(* As long as TrackIt is being called, a verdict about it rests on what it   *)
(* answered (errors.py:76-81).                                               *)
THEOREM CallVerdictsHaveEvidence == PipelineSpec => []CallVerdictHasEvidence
<1>1. PipelineInv => CallVerdictHasEvidence
  BY DEF PipelineInv, CallVerdictHasEvidence, ClientInv
<1> QED
  BY <1>1, PipelineInvAlways, PTL

(* What the components promise by themselves survives their composition, and *)
(* the errors of a gather that end the pull (handlers.py:127-221).           *)
THEOREM PromisesCompose ==
  PipelineSpec => [](/\ NewestRowKept /\ NoOffsetGap
                     /\ SlotsAccounted /\ NoOrphans /\ EveryOpTried
                     /\ RefusalIsToldAsSuch /\ AnswerEndsRetries /\ NoSessionLeft)
<1>1. PipelineInv => NewestRowKept /\ SlotsAccounted /\ NoOrphans /\ EveryOpTried
                     /\ RefusalIsToldAsSuch
  BY DEF PipelineInv, IInv, GatherInv
<1>2. PipelineInv => AnswerEndsRetries /\ NoSessionLeft
  BY DEF PipelineInv, ClientInv, AnswerEndsRetries, NoSessionLeft
<1>3. PipelineInv => NoOffsetGap
  BY KeptRowsLeaveNoGap DEF PipelineInv
<1> QED
  BY <1>1, <1>2, <1>3, PipelineInvAlways, PTL
-----------------------------------------------------------------------------
(* Why one invocation in detail is one of PullObservations.  What has been   *)
(* decided is what the reads say, so new_items is, in the end, what they say.*)
Judged ==
  /\ \A d \in new : /\ latest[d] # 0 /\ stored[d] # Unusable
                    /\ ~Known(d) /\ ~TooFarAhead(Kept(d).time)
  /\ \A d \in skewed : TooFarAhead(Kept(d).time)

LEMMA JudgedStep == PipelineInv /\ Judged /\ [PipelineNext]_pipelineVars => Judged'
<1> SUFFICES ASSUME PipelineInv, Judged, [PipelineNext]_pipelineVars PROVE Judged'
  OBVIOUS
<1>1. ASSUME UNCHANGED vars PROVE Judged'
  BY <1>1 DEF Judged, vars, Known, TooFarAhead, RecordedAt, Kept
<1>2. ASSUME new' = {}, skewed' = {} PROVE Judged'
  BY <1>2 DEF Judged
<1>3. CASE Calls \/ Fetch \/ Fetched \/ Interrupt \/ UNCHANGED pipelineVars
  BY <1>1, <1>3 DEF Calls, Fetch, Fetched, Interrupt, pipelineVars
<1>4. CASE Extract
  BY <1>2, <1>4, WhileCalling DEF Extract, LiveDataArrives, Endpoints
<1>5. CASE Read \/ Prefetch
  <2>1. pc = "rows" /\ UNCHANGED <<new, skewed>>
    BY <1>5 DEF Read, ReadRow, Prefetch, RowsRead
  <2> QED
    BY <1>2, <2>1 DEF PipelineInv
<1>6. CASE Judge
  <2>1. \A d \in Imeis : (Known(d))' = Known(d) /\ Kept(d)' = Kept(d)
                         /\ latest'[d] = latest[d] /\ stored'[d] = stored[d]
    BY <1>6 DEF Judge, Decide, DecisionRaises, Decided, Known, Kept
  <2>2. offset' = offset
    BY <1>6 DEF Judge, Decide, DecisionRaises, Decided
  <2>3. new \subseteq Imeis /\ skewed \subseteq Imeis
    BY DEF PipelineInv, IInv, TypeOK
  <2>4. CASE UNCHANGED <<new, skewed>>
    BY <2>1, <2>2, <2>3, <2>4 DEF Judged, TooFarAhead, RecordedAt
  <2>5. ASSUME NEW d \in Imeis, Decide(d) PROVE Judged'
    <3>1. latest[d] # 0 /\ stored[d] # Unusable
      BY <2>5 DEF Decide, PipelineInv, IInv, Decisions
    <3>2. CASE Known(d)
      BY <2>4, <2>5, <3>2 DEF Decide
    <3>3. CASE ~Known(d) /\ TooFarAhead(Kept(d).time)
      BY <2>1, <2>2, <2>3, <2>5, <3>3 DEF Decide, Judged, TooFarAhead, RecordedAt
    <3>4. CASE ~Known(d) /\ ~TooFarAhead(Kept(d).time)
      BY <2>1, <2>2, <2>3, <2>5, <3>1, <3>4 DEF Decide, Judged, TooFarAhead, RecordedAt
    <3> QED
      BY <3>2, <3>3, <3>4
  <2> QED
    BY <1>6, <2>4, <2>5 DEF Judge, DecisionRaises, Decided
<1> QED
  BY <1>3, <1>4, <1>5, <1>6 DEF PipelineNext, PipelineProgress

LEMMA NewIsWanted ==
  ASSUME PipelineInv, Judged, gather = "returned", pc \in {"decide", "done"}, pending = {}
  PROVE  new = Wanted
<1>1. DOMAIN ops = {d \in Imeis : latest[d] # 0} /\ new \subseteq Imeis
  BY DEF PipelineInv, IInv, TypeOK
<1>2. InState({"done"}) = DOMAIN ops
  BY DEF PipelineInv, GatherInv, EveryOpTried, InState
<1>3. \A d \in Imeis : latest[d] # 0 => d \in new \cup skewed \/ Known(d)
  BY DEF PipelineInv, IInv, Decisions
<1> QED
  BY <1>1, <1>2, <1>3 DEF Judged, Wanted, Usable

(* When every row has been read, the row kept is the newest of the snapshot. *)
LEMMA KeptIsNewest ==
  ASSUME PipelineInv, pc = "rows", i = Len(rows) + 1, NEW d \in Imeis
  PROVE  Newest(d) = IF latest[d] = 0 THEN 0 ELSE Kept(d).time
<1>1. NewestRowKept /\ rows \in Seq(Row) /\ Len(rows) \in Nat
  BY DEF PipelineInv, IInv, TypeOK
<1>2. Fixes(d) = ValidRows(d)
  BY <1>1 DEF Fixes, ValidRows
<1>3. \A j \in Fixes(d) : rows[j].time \in Times
  BY DEF Fixes, HasValidPosition
<1>4. CASE latest[d] = 0
  BY <1>1, <1>2, <1>4 DEF NewestRowKept, Newest
<1>5. CASE latest[d] # 0
  <2> DEFINE top == Kept(d).time
             Newer_(t) == \A j \in Fixes(d) : rows[j].time <= t
             all == {0} \cup {rows[j].time : j \in Fixes(d)}
  <2>1. top \in Times /\ top \in all /\ Newer_(top) /\ latest[d] \in Fixes(d)
    BY <1>1, <1>2, <1>3, <1>5 DEF NewestRowKept, Kept
  <2>2. Newest(d) \in all /\ Newer_(Newest(d))
    BY <2>1 DEF Newest
  <2>3. top <= Newest(d)
    BY <2>1, <2>2 DEF Kept
  <2>4. Newest(d) # 0
    BY <2>1, <2>3, Constants DEF Times
  <2>5. Newest(d) \in Times /\ Newest(d) <= top
    BY <1>3, <2>1, <2>2, <2>4
  <2> QED
    BY <1>5, <2>1, <2>3, <2>5, Constants DEF Times
<1> QED
  BY <1>4, <1>5

-----------------------------------------------------------------------------
(* The locals of an invocation that is under way, and how a step sets them.  *)
Packed(h, s, w, t) ==
  [horizon |-> h, seen |-> s, waiting |-> w, todo |-> t, sent |-> {}, batch |-> {},
   tries |-> 0, wfail |-> FALSE]

Names == {"horizon", "seen", "waiting", "todo", "sent", "batch", "tries", "wfail"}

WithSeen(l, s, w) == [l EXCEPT !.seen = s, !.waiting = w]
WithTodo(l, w, t) == [l EXCEPT !.waiting = w, !.todo = t]

LEMMA SetSeen ==
  ASSUME NEW h, NEW s, NEW w, NEW t, NEW s2, NEW w2, NEW l, l = Packed(h, s, w, t)
  PROVE  WithSeen(l, s2, w2) = Packed(h, s2, w2, t)
<1> DEFINE m == [l EXCEPT !.seen = s2, !.waiting = w2]
           n == Packed(h, s2, w2, t)
<1>1. /\ DOMAIN l = Names /\ l = [x \in Names |-> l[x]]
      /\ DOMAIN n = Names /\ n = [x \in Names |-> n[x]]
  BY DEF Packed, Names
<1>2. l.horizon = h /\ l.seen = s /\ l.waiting = w /\ l.todo = t
      /\ l.sent = {} /\ l.batch = {} /\ l.tries = 0 /\ l.wfail = FALSE
  BY DEF Packed
<1>3. n.horizon = h /\ n.seen = s2 /\ n.waiting = w2 /\ n.todo = t
      /\ n.sent = {} /\ n.batch = {} /\ n.tries = 0 /\ n.wfail = FALSE
  BY DEF Packed
<1> HIDE DEF n
<1>4. DOMAIN m = Names /\ m = [x \in Names |-> m[x]]
  BY <1>1
<1>5. \A x \in Names : m[x] = n[x]
  BY <1>1, <1>2, <1>3 DEF Names
<1> HIDE DEF m
<1>6. m = n
  BY <1>1, <1>4, <1>5
<1> QED
  BY <1>6 DEF m, n, WithSeen

LEMMA SetTodo ==
  ASSUME NEW h, NEW s, NEW w, NEW t, NEW w2, NEW t2, NEW l, l = Packed(h, s, w, t)
  PROVE  WithTodo(l, w2, t2) = Packed(h, s, w2, t2)
<1> DEFINE m == [l EXCEPT !.waiting = w2, !.todo = t2]
           n == Packed(h, s, w2, t2)
<1>1. /\ DOMAIN l = Names /\ l = [x \in Names |-> l[x]]
      /\ DOMAIN n = Names /\ n = [x \in Names |-> n[x]]
  BY DEF Packed, Names
<1>2. l.horizon = h /\ l.seen = s /\ l.waiting = w /\ l.todo = t
      /\ l.sent = {} /\ l.batch = {} /\ l.tries = 0 /\ l.wfail = FALSE
  BY DEF Packed
<1>3. n.horizon = h /\ n.seen = s /\ n.waiting = w2 /\ n.todo = t2
      /\ n.sent = {} /\ n.batch = {} /\ n.tries = 0 /\ n.wfail = FALSE
  BY DEF Packed
<1> HIDE DEF n
<1>4. DOMAIN m = Names /\ m = [x \in Names |-> m[x]]
  BY <1>1
<1>5. \A x \in Names : m[x] = n[x]
  BY <1>1, <1>2, <1>3 DEF Names
<1> HIDE DEF m
<1>6. m = n
  BY <1>1, <1>4, <1>5
<1> QED
  BY <1>6 DEF m, n, WithTodo

LEMMA LiveLocals ==
  ASSUME Place \in {"fetch", "read"}
  PROVE  Locals = Packed(Now + Skew + offset, [d \in Imeis |-> Seen(d)],
                         DOMAIN ops \ Usable, IF pc = "done" THEN new ELSE Wanted)
BY DEF Locals, Packed

-----------------------------------------------------------------------------
(* Each kind of step, by what it does to the place and the locals.           *)
LEMMA Raising ==
  ASSUME Place \in {"fetch", "read"}, Place' = "failed", UNCHANGED <<Feed, stored>>
  PROVE  Pull!CallRaises(Me)
<1>1. Locals' = Pull!NoLocals
  BY DEF Locals, Pull!NoLocals
<1>2. [r \in {Me} |-> Place'] = [[r \in {Me} |-> Place] EXCEPT ![Me] = "failed"]
  OBVIOUS
<1>3. [r \in {Me} |-> Locals'] = [[r \in {Me} |-> Locals] EXCEPT ![Me] = Pull!NoLocals]
  BY <1>1
<1>4. Pull!Leave(Me, "failed")
  BY <1>2, <1>3 DEF Pull!Leave
<1>5. Pull!Fault
  BY DEF Pull!Fault
<1> QED
  BY <1>4, <1>5 DEF Pull!CallRaises

LEMMA Extracting ==
  ASSUME Place = "fetch", Place' = "read", UNCHANGED <<Feed, stored>>,
         NEW h, NEW s, NEW t, Locals = Packed(h, s, {}, t),
         Locals' = Packed(h, Feed, {d \in Imeis : Feed[d] # 0}, t)
  PROVE  Pull!ExtractVehicles(Me)
<1> DEFINE w == {d \in Imeis : Feed[d] # 0}
<1>1. [r \in {Me} |-> Place'] = [[r \in {Me} |-> Place] EXCEPT ![Me] = "read"]
  OBVIOUS
<1>2. Locals' = [Locals EXCEPT !.seen = Feed, !.waiting = w]
  <2>1. WithSeen(Locals, Feed, w) = Packed(h, Feed, w, t)
    BY SetSeen
  <2> QED
    BY <2>1 DEF WithSeen
<1>3. [r \in {Me} |-> Locals'] =
        [[r \in {Me} |-> Locals] EXCEPT ![Me].seen = Feed, ![Me].waiting = w]
  <2> HIDE DEF w
  <2> QED
    BY <1>2
<1> QED
  BY <1>1, <1>3 DEF Pull!ExtractVehicles

LEMMA Reading ==
  ASSUME Place = "read", Place' = "read", UNCHANGED <<Feed, stored>>,
         NEW h, NEW s, NEW w, NEW t, Locals = Packed(h, s, w, t),
         NEW d \in w, stored[d] # Unusable,
         NEW keep \in BOOLEAN,
         keep <=> s[d] > Pull!ParseWatermark(stored[d]) /\ s[d] <= h,
         Locals' = Packed(h, s, w \ {d}, IF keep THEN t \cup {d} ELSE t)
  PROVE  Pull!ReadState(Me, d)
<1>1. [r \in {Me} |-> Place'] = [r \in {Me} |-> Place]
  OBVIOUS
<1>2. Locals.seen = s /\ Locals.horizon = h /\ Locals.waiting = w /\ Locals.todo = t
  BY DEF Packed
<1>3. Locals' = [Locals EXCEPT !.waiting = w \ {d}, !.todo = IF keep THEN t \cup {d} ELSE t]
  <2> DEFINE u == IF keep THEN t \cup {d} ELSE t
  <2>1. WithTodo(Locals, w \ {d}, u) = Packed(h, s, w \ {d}, u)
    BY SetTodo
  <2> QED
    BY <2>1 DEF WithTodo
<1>4. [r \in {Me} |-> Locals'] =
        [[r \in {Me} |-> Locals] EXCEPT ![Me].waiting = @ \ {d},
                                        ![Me].todo = IF keep THEN @ \cup {d} ELSE @]
  BY <1>2, <1>3
<1> QED
  BY <1>1, <1>2, <1>4 DEF Pull!ReadState, Pull!IsNew

-----------------------------------------------------------------------------
(* The steps of the pipeline.  An action_auth stays outside the pull.        *)
LEMMA AuthMaps == ASSUME action = "auth", action' = action PROVE Elsewhere
BY DEF Elsewhere, Place, Locals

LEMMA ActionStays == ASSUME [PipelineNext]_pipelineVars PROVE action' = action
<1>1. CASE Calls
  BY <1>1 DEF Calls, Post, AnswerFails, Answered, TokenArrives, RequestFails
<1>2. CASE Extract \/ Interrupt
  BY <1>2 DEF Extract, LiveDataArrives, Answered, Interrupt, TimeOut, clientVars
<1>3. CASE Read \/ Prefetch \/ Fetch \/ Fetched \/ Judge \/ UNCHANGED pipelineVars
  BY <1>3 DEF Read, Prefetch, Fetch, Fetched, Judge, clientVars, pipelineVars
<1> QED
  BY <1>1, <1>2, <1>3 DEF PipelineNext, PipelineProgress

(* Nothing that the place and the locals are made of changes.                *)
LEMMA Staying ==
  ASSUME Place' = Place, UNCHANGED <<rows, offset, stored, latest, new, pc>>,
         DOMAIN ops' = DOMAIN ops, InState({"done"})' = InState({"done"})
  PROVE  Elsewhere
<1>1. \A d \in Imeis : Seen(d)' = Seen(d)
  BY DEF Seen, Kept
<1>2. Wanted' = Wanted
  BY DEF Wanted, Usable, Known, TooFarAhead, RecordedAt, Kept
<1>3. Usable' = Usable
  BY DEF Usable
<1> QED
  BY <1>1, <1>2, <1>3 DEF Elsewhere, Locals

LEMMA CallMaps ==
  ASSUME PipelineInv, action = "pull", action' = action, call \in Endpoints,
         UNCHANGED <<vars, gatherVars>>
  PROVE  PullStep
<1>1. pc = "rows" /\ Place = "fetch" /\ pc' = "rows"
  BY WhileCalling DEF Place, Endpoints, vars
<1>2. UNCHANGED <<rows, offset, stored, latest, new, pc, ops>>
  BY DEF vars, gatherVars
<1>3. CASE call' = "end"
  <2>1. Place' = "failed" /\ UNCHANGED <<Feed, stored>>
    BY <1>1, <1>2, <1>3 DEF Place, Feed, Newest, Fixes
  <2> QED
    BY <1>1, <2>1, Raising DEF PullStep
<1>4. CASE call' # "end"
  <2>1. Place' = Place /\ InState({"done"})' = InState({"done"})
    BY <1>1, <1>2, <1>4 DEF Place, InState
  <2> QED
    BY <1>2, <2>1, Staying DEF PullStep
<1> QED
  BY <1>3, <1>4

(* Until the watermarks are read there is nothing in the locals but the horizon. *)
LEMMA BeforeReads ==
  ASSUME Place = "fetch", pc = "rows", DOMAIN ops = {}
  PROVE  Locals = Packed(Now + Skew + offset, [d \in Imeis |-> 0], {}, {})
BY DEF Locals, Packed, Seen, Wanted, Usable, InState

LEMMA BeforeReadsStay ==
  ASSUME Place = "fetch", Place' = "fetch", pc = "rows", pc' = "rows", offset' = offset,
         DOMAIN ops = {}, DOMAIN ops' = {}
  PROVE  Elsewhere
<1>1. Locals' = Packed(Now + Skew + offset', [d \in Imeis |-> 0], {}, {})
  BY DEF Locals, Packed, Seen, Wanted, Usable, InState
<1> QED
  BY <1>1, BeforeReads DEF Elsewhere

LEMMA ExtractMaps ==
  ASSUME PipelineInv, action = "pull", action' = action, Extract PROVE PullStep
<1>1. call \in Endpoints /\ call' = "rows"
  BY DEF Extract, LiveDataArrives, Endpoints
<1>2. pc = "rows" /\ pc' = "rows" /\ DOMAIN ops = {} /\ DOMAIN ops' = {} /\ offset' = offset
  BY <1>1, WhileCalling DEF Extract, gatherVars
<1>3. Place = "fetch" /\ Place' = "fetch"
  BY <1>1, <1>2 DEF Place, Endpoints
<1> QED
  BY <1>2, <1>3, BeforeReadsStay DEF PullStep

LEMMA ReadMaps ==
  ASSUME PipelineInv, action = "pull", action' = action, Read PROVE PullStep
<1>1. pc = "rows" /\ pc' = "rows" /\ offset' = offset /\ call = "rows" /\ call' = "rows"
  BY DEF Read, ReadRow, clientVars
<1>2. DOMAIN ops = {} /\ DOMAIN ops' = {}
  BY <1>1 DEF PipelineInv, Read, gatherVars
<1>3. Place = "fetch" /\ Place' = "fetch"
  BY <1>1 DEF Place
<1> QED
  BY <1>1, <1>2, <1>3, BeforeReadsStay DEF PullStep

(* The prefetch begins with what the invocation has seen of every device.    *)
LEMMA PrefetchMaps ==
  ASSUME PipelineInv, action = "pull", action' = action, Prefetch PROVE PullStep
<1>1. pc = "rows" /\ i = Len(rows) + 1 /\ pc' = "decide"
      /\ UNCHANGED <<rows, offset, stored, latest>> /\ call = "rows" /\ call' = "rows"
      /\ pending' = {d \in Imeis : latest[d] # 0}
  BY DEF Prefetch, RowsRead, clientVars
<1>2. Place = "fetch" /\ Place' = "read" /\ UNCHANGED <<Feed, stored>>
  BY <1>1 DEF Place, Feed, Newest, Fixes
<1>3. DOMAIN ops = {}
  BY <1>1 DEF PipelineInv
<1>4. DOMAIN ops' = {d \in Imeis : latest[d] # 0} /\ InState({"done"})' = {}
  BY <1>1 DEF Prefetch, Begin, InState
<1>5. \A d \in Imeis : Feed[d] = Seen(d)'
  BY <1>1, KeptIsNewest DEF Feed, Seen, Kept
<1>6. {d \in Imeis : latest[d] # 0} = {d \in Imeis : Feed[d] # 0}
  <2>1. ASSUME NEW d \in Imeis, latest[d] # 0 PROVE Kept(d).time # 0
    <3>1. Kept(d).time \in Times
      BY <2>1 DEF PipelineInv, IInv, NewestRowKept, ValidRows, HasValidPosition, Kept
    <3> QED
      BY <3>1, Constants DEF Times
  <2> QED
    BY <1>1, <2>1, KeptIsNewest DEF Feed
<1>7. Locals' = Packed(Now + Skew + offset, Feed, {d \in Imeis : Feed[d] # 0}, {})
  <2>1. Wanted' = {} /\ Usable' = {}
    BY <1>4 DEF Wanted, Usable
  <2>2. Feed = [d \in Imeis |-> Seen(d)']
    BY <1>5 DEF Feed
  <2> QED
    BY <1>1, <1>2, <1>4, <1>6, <2>1, <2>2 DEF Locals, Packed
<1>8. Locals = Packed(Now + Skew + offset, [d \in Imeis |-> 0], {}, {})
  BY <1>1, <1>2, <1>3, BeforeReads
<1> QED
  BY <1>2, <1>7, <1>8, Extracting DEF PullStep

(* While the watermarks are fetched, and when all have been.                 *)
LEMMA WhileFetching ==
  ASSUME PipelineInv, action = "pull", gather \in {"gathering", "cancelling", "returned"}
  PROVE  /\ call = "rows" /\ pc # "rows"
         /\ pc # "raised" => Place = "read"
         /\ DOMAIN ops = {d \in Imeis : latest[d] # 0}
         /\ gather # "returned" => pc = "decide"
         /\ \A d \in Imeis : latest[d] # 0 =>
              latest[d] \in 1..Len(rows) /\ Kept(d).time \in Times
<1>1. call = "rows" /\ pc # "rows" /\ (gather # "returned" => pc = "decide")
      /\ DOMAIN ops = {d \in Imeis : latest[d] # 0}
  BY DEF PipelineInv
<1>2. \A d \in Imeis : latest[d] # 0 =>
        latest[d] \in 1..Len(rows) /\ Kept(d).time \in Times
  <2> SUFFICES ASSUME NEW d \in Imeis, latest[d] # 0
               PROVE  latest[d] \in 1..Len(rows) /\ Kept(d).time \in Times
    OBVIOUS
  <2>1. latest[d] \in ValidRows(d) /\ i \in 1..Len(rows) + 1 /\ Len(rows) \in Nat
    BY DEF PipelineInv, IInv, NewestRowKept, TypeOK
  <2> QED
    BY <2>1 DEF ValidRows, HasValidPosition, Kept
<1> QED
  BY <1>1, <1>2 DEF Place

(* The read of one watermark decides on its device, unless it is unusable.   *)
LEMMA SucceedMaps ==
  ASSUME PipelineInv, action = "pull", action' = action, UNCHANGED <<vars, clientVars>>,
         NEW d \in DOMAIN ops, Succeed(d)
  PROVE  Pull!ReadState(Me, d) \/ Elsewhere
<1>1. gather = "gathering" /\ ops[d] = "running" /\ ops' = [ops EXCEPT ![d] = "done"]
  BY DEF Succeed, Release
<1>2. Place = "read" /\ pc = "decide" /\ d \in Imeis /\ latest[d] # 0
      /\ Kept(d).time \in Times
  BY <1>1, WhileFetching
<1>3. UNCHANGED <<rows, offset, stored, latest, new, pc, action, call>>
  BY DEF vars, clientVars
<1>4. Place' = "read" /\ UNCHANGED <<Feed, stored>>
  BY <1>2, <1>3 DEF Place, Feed, Newest, Fixes
<1>5. DOMAIN ops' = DOMAIN ops /\ InState({"done"})' = InState({"done"}) \cup {d}
      /\ d \notin InState({"done"})
  BY <1>1 DEF InState
<1>6. /\ d \notin Usable
      /\ Usable' = IF stored[d] = Unusable THEN Usable ELSE Usable \cup {d}
  BY <1>3, <1>5 DEF Usable
<1>7. \A e \in Imeis : /\ (Known(e))' = Known(e) /\ Seen(e)' = Seen(e)
                       /\ (TooFarAhead(Kept(e).time))' = TooFarAhead(Kept(e).time)
  BY <1>3 DEF Known, Kept, TooFarAhead, RecordedAt, Seen
<1>8. Usable \subseteq Imeis
  <2>1. gather \in {"gathering", "cancelling", "returned"}
    BY <1>1
  <2> QED
    BY <2>1, WhileFetching DEF Usable, InState
<1> DEFINE h == Now + Skew + offset
           s == [e \in Imeis |-> Seen(e)]
           w == DOMAIN ops \ Usable
           keep == ~Known(d) /\ ~TooFarAhead(Kept(d).time)
<1>9. Locals = Packed(h, s, w, Wanted) /\ d \in w
  BY <1>2, <1>6, LiveLocals
<1>10. Locals' = Packed(h', [e \in Imeis |-> Seen(e)'], DOMAIN ops' \ Usable', Wanted')
  BY <1>2, <1>3, <1>4 DEF Locals, Packed
<1>11. s = [e \in Imeis |-> Seen(e)'] /\ h' = h
  BY <1>3, <1>7
<1>12. CASE stored[d] = Unusable
  <2>1. Wanted' = Wanted /\ DOMAIN ops' \ Usable' = w
    BY <1>5, <1>6, <1>7, <1>8, <1>12 DEF Wanted
  <2> HIDE DEF h, s, w
  <2> QED
    BY <1>2, <1>4, <1>9, <1>10, <1>11, <2>1 DEF Elsewhere
<1>13. CASE stored[d] # Unusable
  <2>1. Wanted' = IF keep THEN Wanted \cup {d} ELSE Wanted
    BY <1>2, <1>6, <1>7, <1>8, <1>13 DEF Wanted
  <2>2. DOMAIN ops' \ Usable' = w \ {d}
    BY <1>5, <1>6, <1>13
  <2>3. Locals' = Packed(h, s, w \ {d}, IF keep THEN Wanted \cup {d} ELSE Wanted)
    <3> HIDE DEF h, s, w, keep
    <3> QED
      BY <1>10, <1>11, <2>1, <2>2
  <2>4. keep <=> s[d] > Pull!ParseWatermark(stored[d]) /\ s[d] <= h
    <3>1. s[d] = Kept(d).time /\ s[d] \in Int
      BY <1>2, Constants DEF Seen, Times
    <3>2. Pull!ParseWatermark(stored[d]) = ParseWatermark(stored[d])
      BY DEF Pull!ParseWatermark, Pull!Times, ParseWatermark, Times
    <3>3. ParseWatermark(stored[d]) \in Int
      BY <1>2, Parsing DEF PipelineInv, IInv, TypeOK
    <3>4. offset \in Int
      BY Constants DEF PipelineInv, IInv, TypeOK
    <3> QED
      BY <3>1, <3>2, <3>3, <3>4, Constants DEF Known, TooFarAhead, RecordedAt
  <2>5. keep \in BOOLEAN
    BY DEF Known, TooFarAhead
  <2> HIDE DEF h, s, w, keep
  <2> QED
    BY <1>2, <1>4, <1>9, <1>13, <2>3, <2>4, <2>5, Reading
<1> QED
  BY <1>12, <1>13

LEMMA FetchMaps ==
  ASSUME PipelineInv, action = "pull", action' = action, Fetch PROVE PullStep
<1> SUFFICES ASSUME NEW d \in DOMAIN ops, Acquire(d) \/ Succeed(d) \/ Fail(d) \/ Unwind(d)
             PROVE  PullStep
  BY DEF Fetch
<1>1. UNCHANGED <<vars, clientVars>>
  BY DEF Fetch
<1>2. CASE Succeed(d)
  <2>1. gather = "gathering"
    BY <1>2 DEF Succeed
  <2>2. d \in Imeis
    BY <2>1, WhileFetching
  <2> QED
    BY <1>1, <1>2, <2>2, SucceedMaps DEF PullStep
<1>3. CASE Acquire(d) \/ Fail(d) \/ Unwind(d)
  <2>1. DOMAIN ops' = DOMAIN ops /\ InState({"done"})' = InState({"done"})
    BY <1>3 DEF Acquire, Fail, Unwind, Release, InState
  <2>2. Place' = Place /\ UNCHANGED <<rows, offset, stored, latest, new, pc>>
    BY <1>1 DEF Place, vars, clientVars
  <2> QED
    BY <2>1, <2>2, Staying DEF PullStep
<1> QED
  BY <1>2, <1>3

LEMMA FetchedMaps ==
  ASSUME PipelineInv, action = "pull", action' = action, Fetched PROVE PullStep
<1>1. gather \in {"gathering", "cancelling"} /\ ops' = ops
      /\ UNCHANGED <<rows, offset, stored, latest, new, pc>>
  BY DEF Fetched, Settle, vars
<1>2. Place = "read" /\ pc = "decide"
  BY <1>1, WhileFetching
<1>3. CASE call' = call
  BY <1>1, <1>3, Staying DEF PullStep, Place, InState
<1>4. CASE call' = "end"
  <2>1. Place' = "failed" /\ UNCHANGED <<Feed, stored>>
    BY <1>1, <1>4 DEF Place, Feed, Newest, Fixes
  <2> QED
    BY <1>2, <2>1, Raising DEF PullStep
<1> QED
  BY <1>3, <1>4 DEF Fetched

(* The loop that decides adds nothing to what the reads have said.           *)
LEMMA JudgeMaps ==
  ASSUME PipelineInv, PipelineInv', Judged, action = "pull", action' = action, Judge
  PROVE  PullStep
<1>1. gather = "returned" /\ UNCHANGED <<call, ops, gather>>
      /\ pc = "decide" /\ UNCHANGED <<rows, offset, stored, latest>>
  BY DEF Judge, Decide, DecisionRaises, Decided, clientVars, gatherVars
<1>2. Place = "read" /\ call = "rows"
  BY <1>1, WhileFetching
<1>3. CASE pc' = "raised"
  <2>1. Place' = "failed" /\ UNCHANGED <<Feed, stored>>
    BY <1>1, <1>2, <1>3 DEF Place, Feed, Newest, Fixes
  <2> QED
    BY <1>2, <2>1, Raising DEF PullStep
<1>4. CASE pc' # "raised"
  <2>1. Place' = "read" /\ pc' \in {"decide", "done"}
    BY <1>1, <1>2, <1>4 DEF Place, Judge, Decide, DecisionRaises, Decided
  <2>2. Usable' = Usable /\ \A d \in Imeis : Seen(d)' = Seen(d)
    BY <1>1, <2>1 DEF Usable, InState, Seen, Kept
  <2>3. Wanted' = Wanted
    BY <1>1, <2>2 DEF Wanted, Known, TooFarAhead, RecordedAt, Kept
  <2>4. pc' = "done" => new' = Wanted
    <3>1. pc' = "done" => pending = {} /\ new' = new
      BY <1>1 DEF Judge, Decide, DecisionRaises, Decided
    <3> QED
      BY <1>1, <3>1, NewIsWanted
  <2>5. Locals' = Locals
    BY <1>1, <1>2, <2>1, <2>2, <2>3, <2>4 DEF Locals
  <2> QED
    BY <1>2, <2>1, <2>5 DEF PullStep, Elsewhere
<1> QED
  BY <1>3, <1>4

LEMMA InterruptMaps ==
  ASSUME PipelineInv, action = "pull", action' = action, Interrupt PROVE PullStep
<1>1. CASE TimeOut /\ UNCHANGED gatherVars
  BY <1>1, CallMaps DEF Interrupt, TimeOut
<1>2. CASE CancelAll /\ UNCHANGED clientVars
  <2>1. ops' = ops /\ call' = call /\ UNCHANGED <<rows, offset, stored, latest, new, pc>>
    BY <1>2 DEF CancelAll, clientVars, Interrupt, vars
  <2> QED
    BY <2>1, Staying DEF PullStep, Place, InState
<1> QED
  BY <1>1, <1>2 DEF Interrupt

LEMMA PipelineMaps ==
  ASSUME PipelineInv, PipelineInv', Judged, [PipelineNext]_pipelineVars PROVE PullStep
<1>1. action \in {"auth", "pull"} /\ action' = action
  BY ActionStays DEF PipelineInv, ClientTypeOK
<1>2. CASE action = "auth"
  BY <1>1, <1>2, AuthMaps DEF PullStep
<1>3. CASE action = "pull"
  <2>1. CASE Calls
    <3>1. call \in Endpoints /\ UNCHANGED <<vars, gatherVars>>
      BY <2>1 DEF Calls, Post, AnswerFails, Answered, TokenArrives, RequestFails
    <3> QED
      BY <1>1, <1>3, <3>1, CallMaps
  <2>2. CASE UNCHANGED pipelineVars
    BY <2>2, Staying DEF PullStep, Place, InState, pipelineVars, vars, clientVars, gatherVars
  <2> QED
    BY <1>1, <1>3, <2>1, <2>2, ExtractMaps, ReadMaps, PrefetchMaps, FetchMaps, FetchedMaps,
       JudgeMaps, InterruptMaps DEF PipelineNext, PipelineProgress
<1> QED
  BY <1>1, <1>2, <1>3

(* One invocation in detail does what PullObservations says of an invocation *)
(* until it posts: it sees the newest fix of every device, decides on each by*)
(* its own read and the horizon of the start, and any failure or timeout ends*)
(* it with nothing to send (handlers.py:127-195).                            *)
THEOREM PullRefinement == PipelineSpec => ImplementsPull
<1>1. PipelineInit => Started
  <2> SUFFICES ASSUME PipelineInit PROVE Started
    OBVIOUS
  <2>1. action \in {"auth", "pull"} /\ call = "token" /\ pc = "rows" /\ DOMAIN ops = {}
        /\ offset \in Offsets
    BY DEF PipelineInit, ClientInit
  <2>2. CASE action = "auth"
    BY <2>2 DEF Started, Place, Locals, Pull!NoLocals
  <2>3. CASE action = "pull"
    <3>1. Place = "fetch"
      BY <2>1, <2>3 DEF Place
    <3>2. Locals = Packed(Now + Skew + offset, [d \in Imeis |-> 0], {}, {})
      BY <2>1, <3>1, BeforeReads
    <3>3. Locals = [Pull!NoLocals EXCEPT !.horizon = Now + Skew + offset]
      <4> DEFINE h == Now + Skew + offset
                 m == [Pull!NoLocals EXCEPT !.horizon = h]
      <4>1. /\ DOMAIN Pull!NoLocals = Names /\ DOMAIN Locals = Names
            /\ Pull!NoLocals = [x \in Names |-> Pull!NoLocals[x]]
            /\ Locals = [x \in Names |-> Locals[x]]
        BY <3>2 DEF Packed, Pull!NoLocals, Names
      <4>2. /\ Locals.horizon = h /\ Locals.seen = Pull!NoLocals.seen
            /\ Locals.waiting = Pull!NoLocals.waiting /\ Locals.todo = Pull!NoLocals.todo
            /\ Locals.sent = Pull!NoLocals.sent /\ Locals.batch = Pull!NoLocals.batch
            /\ Locals.tries = Pull!NoLocals.tries /\ Locals.wfail = Pull!NoLocals.wfail
        BY <3>2 DEF Packed, Pull!NoLocals
      <4> HIDE DEF h
      <4>3. DOMAIN m = Names /\ m = [x \in Names |-> m[x]]
        BY <4>1
      <4>4. \A x \in Names : m[x] = Locals[x]
        BY <4>1, <4>2 DEF Names
      <4> HIDE DEF m
      <4>5. m = Locals
        BY <4>1, <4>3, <4>4
      <4> QED
        BY <4>5 DEF m, h
    <3> QED
      BY <2>1, <2>3, <3>1, <3>3 DEF Started
  <2> QED
    BY <2>1, <2>2, <2>3
<1>2. PipelineInit => Judged
  BY DEF PipelineInit, Judged
<1>3. PipelineInv /\ PipelineInv' /\ Judged /\ [PipelineNext]_pipelineVars =>
        [PullStep]_(Pull!vars)
  BY PipelineMaps
<1> QED
  BY <1>1, <1>2, <1>3, JudgedStep, PipelineInvAlways, PTL DEF PipelineSpec, ImplementsPull
=============================================================================
