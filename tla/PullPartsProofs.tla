---------------------------- MODULE PullPartsProofs ----------------------------
(***************************************************************************)
(* Theorems about the two parts that PullPipeline puts around the rows:    *)
(* TrackitClient, for any number of attempts, and GatherLimited, for any   *)
(* number of operations and slots.  Each has an inductive invariant,       *)
(* ClientInv and GatherInv, from which what the runs check follows.        *)
(***************************************************************************)
EXTENDS TrackitClient, GatherLimited, FiniteSetTheorems, TLAPS

(* What the properties rest on. *)
ClientInv ==
  /\ ClientTypeOK
  /\ RefusalIsToldAsSuch /\ VerdictHasEvidence
  /\ DataOnlyAfterLogin /\ NoSessionLeft
  /\ (verdict = "none") <=> (call # "end")
  /\ call \in Endpoints => answer[call] = "none"
  /\ call = "token" => answer["live"] = "none"
  /\ call \in {"live", "rows"} => action = "pull"
  /\ inFlight => call \in Endpoints

(* What the properties rest on: only a cancelled gather cancels operations.  *)
GatherInv ==
  /\ GatherTypeOK /\ SlotsAccounted /\ NoOrphans /\ EveryOpTried
  /\ gather = "gathering" => InState({"cancelled"}) = {}

-----------------------------------------------------------------------------

LEMMA Counting ==
  /\ 1 \in 1..MaxAttempts
  /\ \A n \in 1..MaxAttempts : n < MaxAttempts => n + 1 \in 1..MaxAttempts
BY ClientAssumption

LEMMA AnswersOf ==
  ASSUME NEW e \in Endpoints, NEW a \in Answers(e)
  PROVE  /\ a # "none"
         /\ a \in Answers("token") \cup Answers("live")
         /\ ExceptionOf(a) \in Exceptions
         /\ ExceptionOf(a) = "Unauthorized" <=> a \in {"401 or 403", "rejected"}
         /\ ExceptionOf(a) \notin HTTPError \cup {"TimeoutError"}
BY DEF Endpoints, Answers, ExceptionOf, Exceptions, HTTPError

(* What the operator is told of an exception.                                *)
LEMMA ReportTells ==
  ASSUME NEW x \in Exceptions, action \in {"auth", "pull"}
  PROVE  /\ Report(x) \in {"bad credentials", "API error", "unreachable", "auth",
                           "connectivity", "unclassified"}
         /\ Report(x) \in {"bad credentials", "auth"} <=> x = "Unauthorized"
         /\ Report(x) \in {"unreachable", "connectivity"} =>
              x \in HTTPError \cup {"TimeoutError"}
BY DEF Exceptions, Report, Classify, TrackitBaseException, HTTPError

LEMMA ClientInvInit == ClientInit => ClientInv
<1> SUFFICES ASSUME ClientInit PROVE ClientInv
  OBVIOUS
<1>1. ClientTypeOK
  BY Counting DEF ClientInit, ClientTypeOK, Endpoints
<1> QED
  BY <1>1 DEF ClientInit, ClientInv, RefusalIsToldAsSuch, VerdictHasEvidence,
              DataOnlyAfterLogin, NoSessionLeft, Endpoints

(* An exception that ends the action with its verdict.                       *)
LEMMA GiveUpStep ==
  ASSUME ClientInv, call \in Endpoints, UNCHANGED action, inFlight' = FALSE,
         NEW x \in Exceptions, GiveUp(x),
         \/ UNCHANGED answer /\ x # "Unauthorized"
         \/ \E a \in Answers(call) :
              /\ answer' = [answer EXCEPT ![call] = a]
              /\ x = "Unauthorized" <=> a \in {"401 or 403", "rejected"}
              /\ x \notin HTTPError \cup {"TimeoutError"}
  PROVE  ClientInv'
<1> USE DEF ClientInv, ClientTypeOK
<1>1. verdict' = Report(x) /\ call' = "end" /\ open' = {} /\ attempt' = 1
  BY DEF GiveUp
<1>2. answer' \in [Endpoints -> {"none"} \cup Answers("token") \cup Answers("live")]
  BY AnswersOf
<1>3. ClientTypeOK'
  BY <1>1, <1>2, ReportTells, Counting
<1>4. ~\E e \in Endpoints : answer[e] \in {"401 or 403", "rejected"}
  BY DEF RefusalIsToldAsSuch, Endpoints
<1>5. RefusalIsToldAsSuch'
  <2>1. x = "Unauthorized" <=> \E e \in Endpoints : answer'[e] \in {"401 or 403", "rejected"}
    BY <1>4
  <2> QED
    BY <1>1, <2>1, ReportTells DEF RefusalIsToldAsSuch
<1>6. VerdictHasEvidence'
  <2>1. verdict' # "valid"
    BY <1>1, ReportTells
  <2>2. CASE UNCHANGED answer
    BY <1>1, <2>1, <2>2 DEF VerdictHasEvidence, DataOnlyAfterLogin, Endpoints
  <2>3. CASE x \notin HTTPError \cup {"TimeoutError"}
    BY <1>1, <2>1, <2>3, ReportTells DEF VerdictHasEvidence
  <2> QED
    BY <2>2, <2>3
<1>7. verdict' # "none"
  BY <1>1, ReportTells
<1> QED
  BY <1>1, <1>3, <1>5, <1>6, <1>7 DEF DataOnlyAfterLogin, NoSessionLeft, Endpoints

(* An exception, which may be tried again if the endpoint has not answered.  *)
LEMMA RaiseStep ==
  ASSUME ClientInv, call \in Endpoints, UNCHANGED action,
         NEW x \in Exceptions, Raise(x),
         \/ UNCHANGED answer /\ x # "Unauthorized"
         \/ \E a \in Answers(call) :
              /\ answer' = [answer EXCEPT ![call] = a]
              /\ x = "Unauthorized" <=> a \in {"401 or 403", "rejected"}
              /\ x \notin HTTPError \cup {"TimeoutError"}
  PROVE  ClientInv'
<1>1. CASE RetryOnTransport(x)
  <2>1. UNCHANGED <<answer, call, verdict>> /\ inFlight' = FALSE
    BY <1>1 DEF RetryOnTransport, HTTPError, Raise
  <2>2. attempt' \in 1..MaxAttempts
    BY <1>1, Counting DEF Raise, RetryOnTransport, ClientInv, ClientTypeOK
  <2>3. open' \subseteq {action}
    BY <1>1 DEF Raise, ClientInv, ClientTypeOK
  <2> QED
    BY <2>1, <2>2, <2>3 DEF ClientInv, ClientTypeOK, RefusalIsToldAsSuch, VerdictHasEvidence,
                      DataOnlyAfterLogin, NoSessionLeft, Endpoints
<1>2. CASE ~RetryOnTransport(x)
  BY <1>2, GiveUpStep DEF Raise
<1> QED
  BY <1>1, <1>2

LEMMA PostStep == ASSUME ClientInv, Post PROVE ClientInv'
BY DEF Post, AcquireSession, ClientInv, ClientTypeOK, RefusalIsToldAsSuch,
       VerdictHasEvidence, DataOnlyAfterLogin, NoSessionLeft, Endpoints

LEMMA AnswerFailsStep == ASSUME ClientInv, AnswerFails PROVE ClientInv'
<1>1. PICK a \in Answers(call) : Answered(a) /\ ~Success(a) /\ Raise(ExceptionOf(a))
  BY DEF AnswerFails
<1> QED
  BY <1>1, AnswersOf, RaiseStep DEF Answered

LEMMA RequestFailsStep == ASSUME ClientInv, RequestFails PROVE ClientInv'
<1>1. PICK x \in HTTPError \cup {"InvalidURL"} : Raise(x)
  BY DEF RequestFails
<1>2. x \in Exceptions /\ x # "Unauthorized"
  BY DEF HTTPError, Exceptions
<1> QED
  BY <1>1, <1>2, RaiseStep DEF RequestFails

LEMMA TimeOutStep == ASSUME ClientInv, TimeOut PROVE ClientInv'
<1>1. "TimeoutError" \in Exceptions
  BY DEF Exceptions
<1> QED
  BY <1>1, GiveUpStep DEF TimeOut

(* A good answer: it refuses nothing.                                        *)
LEMMA GoodAnswer ==
  ASSUME ClientInv, Answered("good")
  PROVE  /\ answer' \in [Endpoints -> {"none"} \cup Answers("token") \cup Answers("live")]
         /\ answer'[call] = "good"
         /\ \A e \in Endpoints : answer'[e] \notin {"401 or 403", "rejected"}
         /\ \A e \in Endpoints \ {call} : answer'[e] = answer[e]
         /\ call \in Endpoints /\ verdict = "none" /\ UNCHANGED action
BY DEF Answered, Answers, ClientInv, ClientTypeOK, RefusalIsToldAsSuch, Endpoints

LEMMA TokenArrivesStep == ASSUME ClientInv, TokenArrives PROVE ClientInv'
<1>1. Answered("good") /\ call = "token"
  BY DEF TokenArrives, Success
<1>2. attempt' = 1 /\ inFlight' = FALSE /\ open' \subseteq {action}
  BY DEF TokenArrives, ClientInv, ClientTypeOK
<1>3. \/ action = "auth" /\ call' = "end" /\ verdict' = "valid" /\ open' = {}
      \/ action = "pull" /\ call' = "live" /\ verdict' = "none"
  BY <1>1, GoodAnswer DEF TokenArrives, ClientInv, ClientTypeOK
<1>4. ClientTypeOK'
  BY <1>1, <1>2, <1>3, GoodAnswer, Counting DEF ClientTypeOK, ClientInv, Endpoints
<1> QED
  BY <1>1, <1>2, <1>3, <1>4, GoodAnswer
     DEF ClientInv, RefusalIsToldAsSuch, VerdictHasEvidence,
         DataOnlyAfterLogin, NoSessionLeft, Endpoints

LEMMA LiveDataArrivesStep == ASSUME ClientInv, LiveDataArrives PROVE ClientInv'
<1>1. Answered("good") /\ call = "live"
  BY DEF LiveDataArrives
<1>2. attempt' = 1 /\ inFlight' = FALSE /\ open' = {} /\ call' = "rows" /\ verdict' = verdict
  BY DEF LiveDataArrives
<1>3. ClientTypeOK'
  BY <1>1, <1>2, GoodAnswer, Counting DEF ClientTypeOK, ClientInv, Endpoints
<1> QED
  BY <1>1, <1>2, <1>3, GoodAnswer
     DEF ClientInv, RefusalIsToldAsSuch, VerdictHasEvidence,
         DataOnlyAfterLogin, NoSessionLeft, Endpoints

LEMMA ClientInvStep == ASSUME ClientInv, ClientNext PROVE ClientInv'
BY PostStep, AnswerFailsStep, TokenArrivesStep, LiveDataArrivesStep, RequestFailsStep,
   TimeOutStep DEF ClientNext

LEMMA ClientInvStutter == ASSUME ClientInv, UNCHANGED clientVars PROVE ClientInv'
BY DEF clientVars, ClientInv, ClientTypeOK, RefusalIsToldAsSuch, VerdictHasEvidence,
       DataOnlyAfterLogin, NoSessionLeft, Endpoints

LEMMA ClientInvAlways == ClientSpec => []ClientInv
BY ClientInvInit, ClientInvStep, ClientInvStutter, PTL DEF ClientSpec

-----------------------------------------------------------------------------
(* Type correctness, for any number of attempts; no session but the action's *)
(* own is ever open (client.py:25-36).                                       *)
THEOREM ClientTypeCorrect == ClientSpec => []ClientTypeOK
BY ClientInvAlways, PTL DEF ClientInv

(* The operator is told that the credentials are wrong exactly if TrackIt    *)
(* refused them (handlers.py:110-120, client.py:47-48).                      *)
THEOREM RefusalsAreTold == ClientSpec => []RefusalIsToldAsSuch
BY ClientInvAlways, PTL DEF ClientInv

(* A verdict that TrackIt is unreachable, or that the credentials are valid, *)
(* rests on what it answered (handlers.py:110-122, errors.py:76-81).         *)
THEOREM VerdictsHaveEvidence == ClientSpec => []VerdictHasEvidence
BY ClientInvAlways, PTL DEF ClientInv

(* No live data without a login that succeeded (client.py:181-183).          *)
THEOREM LoginFirst == ClientSpec => []DataOnlyAfterLogin
BY ClientInvAlways, PTL DEF ClientInv

(* Once TrackIt has answered a call, no request of it is under way again     *)
(* (client.py:20-22).                                                        *)
THEOREM AnswersEndRetries == ClientSpec => []AnswerEndsRetries
<1>1. ClientInv => AnswerEndsRetries
  BY DEF ClientInv, AnswerEndsRetries
<1> QED
  BY <1>1, ClientInvAlways, PTL

(* However the calls end, no session stays open (client.py:31-36).           *)
THEOREM SessionsClose == ClientSpec => []NoSessionLeft
BY ClientInvAlways, PTL DEF ClientInv

-----------------------------------------------------------------------------
OpStates == Ended \cup {"waiting", "running"}

Running == InState({"running"})

LEMMA RunningIsFinite ==
  ASSUME GatherTypeOK
  PROVE  IsFiniteSet(Running) /\ Cardinality(Running) \in Nat
<1>1. Running \subseteq Ops
  BY DEF Running, InState, GatherTypeOK
<1> QED
  BY <1>1, GatherAssumption, FS_Subset, FS_CardinalityType

(* The caller's list of operations is a subset of those there can be.        *)
LEMMA BeginStep == ASSUME NEW batch \in SUBSET Ops, Begin(batch) PROVE GatherInv'
<1>1. /\ DOMAIN ops' = batch /\ \A k \in batch : ops'[k] = "waiting"
      /\ ops' \in [batch -> {"waiting"}]
      /\ slots' = Limit /\ gather' = "gathering"
  BY DEF Begin
<1>2. GatherTypeOK'
  BY <1>1, GatherAssumption DEF GatherTypeOK
<1>3. Running' = {} /\ InState({"cancelled"})' = {}
  BY <1>1 DEF Running, InState
<1>4. SlotsAccounted'
  BY <1>1, <1>3, FS_EmptySet, GatherAssumption DEF SlotsAccounted, Running
<1> QED
  BY <1>1, <1>2, <1>3, <1>4 DEF GatherInv, NoOrphans, EveryOpTried

LEMMA GatherInvInit == GatherInit => GatherInv
<1> SUFFICES ASSUME GatherInit PROVE GatherInv
  OBVIOUS
<1>1. PICK batch \in SUBSET Ops : ops = [k \in batch |-> "waiting"]
  BY DEF GatherInit
<1>2. GatherTypeOK
  BY <1>1, GatherAssumption DEF GatherInit, GatherTypeOK
<1>3. Running = {} /\ InState({"cancelled"}) = {}
  BY <1>1 DEF Running, InState
<1>4. SlotsAccounted
  BY <1>3, FS_EmptySet, GatherAssumption DEF GatherInit, SlotsAccounted, Running
<1> QED
  BY <1>2, <1>3, <1>4 DEF GatherInit, GatherInv, NoOrphans, EveryOpTried

(* What changes when one operation goes to another state.                    *)
LEMMA OpMoves ==
  ASSUME GatherTypeOK, NEW k \in DOMAIN ops, NEW state \in OpStates,
         ops' = [ops EXCEPT ![k] = state]
  PROVE  /\ DOMAIN ops' = DOMAIN ops
         /\ DOMAIN ops' \subseteq Ops /\ ops' \in [DOMAIN ops' -> OpStates]
         /\ \A j \in DOMAIN ops : ops'[j] = IF j = k THEN state ELSE ops[j]
         /\ Running' = IF state = "running" THEN Running \cup {k} ELSE Running \ {k}
BY DEF GatherTypeOK, OpStates, Running, InState

(* An operation that takes a slot was not running before.                    *)
LEMMA AcquireStep ==
  ASSUME GatherInv, NEW k \in DOMAIN ops, Acquire(k)
  PROVE  GatherInv'
<1>1. GatherTypeOK /\ SlotsAccounted /\ ops[k] = "waiting" /\ slots > 0
      /\ gather = "gathering" /\ gather' = gather /\ slots' = slots - 1
      /\ ops' = [ops EXCEPT ![k] = "running"]
  BY DEF GatherInv, Acquire
<1>2. DOMAIN ops' = DOMAIN ops
      /\ ops' \in [DOMAIN ops' -> OpStates] /\ DOMAIN ops' \subseteq Ops
      /\ (\A j \in DOMAIN ops : ops'[j] = IF j = k THEN "running" ELSE ops[j])
      /\ Running' = Running \cup {k}
  BY <1>1, OpMoves DEF OpStates
<1>3. slots' \in 0..Limit
  BY <1>1, GatherAssumption DEF GatherTypeOK
<1>4. GatherTypeOK'
  BY <1>1, <1>2, <1>3 DEF GatherTypeOK, OpStates
<1>5. SlotsAccounted'
  <2>1. k \notin Running
    BY <1>1 DEF Running, InState
  <2>2. Cardinality(Running') = Cardinality(Running) + 1
    BY <1>1, <1>2, <2>1, RunningIsFinite, FS_AddElement
  <2> QED
    BY <1>1, <2>2, RunningIsFinite, GatherAssumption
       DEF SlotsAccounted, Running, GatherTypeOK
<1>6. InState({"cancelled"})' = {}
  BY <1>1, <1>2 DEF GatherInv, InState
<1> QED
  BY <1>1, <1>4, <1>5, <1>6 DEF GatherInv, NoOrphans, EveryOpTried

(* An operation that ends gives its slot back, whatever it came to.          *)
LEMMA ReleaseKeepsAccount ==
  ASSUME GatherInv, NEW k \in DOMAIN ops, ops[k] = "running",
         NEW state \in Ended, Release(k, state), UNCHANGED gather
  PROVE  GatherTypeOK' /\ SlotsAccounted'
<1>1. GatherTypeOK /\ SlotsAccounted /\ slots' = slots + 1
      /\ ops' = [ops EXCEPT ![k] = state] /\ state # "running" /\ state \in OpStates
  BY DEF GatherInv, Release, Ended, OpStates
<1>2. /\ ops' \in [DOMAIN ops' -> OpStates] /\ DOMAIN ops' \subseteq Ops
      /\ Running' = Running \ {k}
  BY <1>1, OpMoves
<1>3. Cardinality(Running') = Cardinality(Running) - 1 /\ Cardinality(Running') \in Nat
  <2>1. k \in Running
    BY DEF Running, InState
  <2>2. IsFiniteSet(Running')
    BY <1>1, <1>2, RunningIsFinite, FS_RemoveElement
  <2> QED
    BY <1>1, <1>2, <2>1, <2>2, RunningIsFinite, FS_RemoveElement, FS_CardinalityType
<1>4. slots' + Cardinality(Running') = Limit
  BY <1>1, <1>3, RunningIsFinite, GatherAssumption DEF SlotsAccounted, Running, GatherTypeOK
<1>5. slots' \in 0..Limit
  BY <1>1, <1>3, <1>4, GatherAssumption DEF GatherTypeOK
<1> QED
  BY <1>1, <1>2, <1>4, <1>5 DEF GatherTypeOK, SlotsAccounted, Running, OpStates

LEMMA EndStep ==
  ASSUME GatherInv, NEW k \in DOMAIN ops, Succeed(k) \/ Fail(k)
  PROVE  GatherInv'
<1>1. PICK state \in {"done", "failed"} : Release(k, state)
  BY DEF Succeed, Fail
<1>2. ops[k] = "running" /\ gather = "gathering" /\ gather' = gather
  BY DEF Succeed, Fail
<1>3. GatherTypeOK' /\ SlotsAccounted'
  BY <1>1, <1>2, ReleaseKeepsAccount DEF Ended
<1>4. InState({"cancelled"})' = {}
  <2>1. DOMAIN ops' = DOMAIN ops
        /\ \A j \in DOMAIN ops : ops'[j] = IF j = k THEN state ELSE ops[j]
    BY <1>1, OpMoves DEF GatherInv, Release, OpStates, Ended
  <2> QED
    BY <1>2, <2>1 DEF GatherInv, InState
<1> QED
  BY <1>2, <1>3, <1>4 DEF GatherInv, NoOrphans, EveryOpTried

LEMMA UnwindStep ==
  ASSUME GatherInv, NEW k \in DOMAIN ops, Unwind(k)
  PROVE  GatherInv'
<1>1. gather = "cancelling" /\ gather' = gather
  BY DEF Unwind
<1>2. CASE ops[k] = "running" /\ Release(k, "cancelled")
  <2>1. GatherTypeOK' /\ SlotsAccounted'
    BY <1>1, <1>2, ReleaseKeepsAccount DEF Ended
  <2> QED
    BY <1>1, <2>1 DEF GatherInv, NoOrphans, EveryOpTried
<1>3. CASE ops[k] = "waiting" /\ ops' = [ops EXCEPT ![k] = "cancelled"] /\ UNCHANGED slots
  <2>1. /\ ops' \in [DOMAIN ops' -> OpStates] /\ DOMAIN ops' \subseteq Ops
        /\ Running' = Running \ {k}
    BY <1>3, OpMoves DEF GatherInv, OpStates, Ended
  <2>2. Running' = Running
    BY <1>3, <2>1 DEF Running, InState
  <2> QED
    BY <1>1, <1>3, <2>1, <2>2
       DEF GatherInv, GatherTypeOK, SlotsAccounted, Running, OpStates, NoOrphans, EveryOpTried
<1> QED
  BY <1>2, <1>3 DEF Unwind

LEMMA CancelAllStep == ASSUME GatherInv, CancelAll PROVE GatherInv'
BY DEF CancelAll, GatherInv, GatherTypeOK, SlotsAccounted, InState, NoOrphans, EveryOpTried

LEMMA SettleStep == ASSUME GatherInv, Settle PROVE GatherInv'
<1>1. UNCHANGED <<ops, slots>> /\ DOMAIN ops = InState(Ended)
  BY DEF Settle
<1>2. GatherTypeOK' /\ SlotsAccounted'
  BY <1>1 DEF Settle, GatherInv, GatherTypeOK, SlotsAccounted, InState
<1>3. NoOrphans'
  BY <1>1 DEF NoOrphans, InState, Ended
<1>4. EveryOpTried'
  <2>1. CASE gather = "cancelling"
    BY <2>1 DEF Settle, EveryOpTried
  <2>2. CASE gather = "gathering"
    <3>1. DOMAIN ops = InState({"done", "failed"})
      BY <1>1, <2>2 DEF GatherInv, InState, Ended
    <3> QED
      BY <1>1, <2>2, <3>1 DEF Settle, EveryOpTried, InState
  <2> QED
    BY <2>1, <2>2 DEF Settle
<1> QED
  BY <1>2, <1>3, <1>4 DEF Settle, GatherInv

LEMMA GatherInvStutter == ASSUME GatherInv, UNCHANGED gatherVars PROVE GatherInv'
BY DEF gatherVars, GatherInv, GatherTypeOK, SlotsAccounted, InState, NoOrphans, EveryOpTried

LEMMA GatherInvStep == ASSUME GatherInv, GatherNext PROVE GatherInv'
<1>1. CASE \E k \in DOMAIN ops : Acquire(k) \/ Succeed(k) \/ Fail(k) \/ Unwind(k)
  BY <1>1, AcquireStep, EndStep, UnwindStep
<1> QED
  BY <1>1, SettleStep, CancelAllStep DEF GatherNext, GatherProgress

LEMMA GatherInvAlways == GatherSpec => []GatherInv
BY GatherInvInit, GatherInvStep, GatherInvStutter, PTL DEF GatherSpec

-----------------------------------------------------------------------------
(* For any number of operations and any limit, every slot is free or held by *)
(* a running operation, so never more than the limit run (handlers.py:44-54).*)
THEOREM SlotsAreAccounted == GatherSpec => []SlotsAccounted
BY GatherInvAlways, PTL DEF GatherInv

(* Whenever the caller sees the result, no operation is left running or      *)
(* waiting, however many failed (handlers.py:47-48).                         *)
THEOREM NoOrphanedTasks == GatherSpec => []NoOrphans
BY GatherInvAlways, PTL DEF GatherInv

(* A failed operation keeps no other from being tried, and the caller hears  *)
(* of a failure exactly if there was one (handlers.py:56-60).                *)
THEOREM EveryOpIsTried == GatherSpec => []EveryOpTried
BY GatherInvAlways, PTL DEF GatherInv
=============================================================================
