---------------------------- MODULE ActionRunner ----------------------------
(***************************************************************************)
(* How one request to run an action is carried out, reported and           *)
(* acknowledged: the routes of app/main.py and app/routers/actions.py,     *)
(* execute_action of app/services/action_runner.py and the activity_logger *)
(* decorator around the handler.  The handler itself is its outcome (see   *)
(* PullObservations), and the skip throttle is its answer (SkipThrottle).  *)
(* A Pub/Sub message that gets no 2xx answer is delivered again; who asks  *)
(* for a run in the background is answered before it, and learns no more.  *)
(***************************************************************************)
EXTENDS Integers

CONSTANTS
  Routes,     \* of {"pubsub", "push", "api"}: POST /, /push-data, /execute
  Faults,     \* the faults that happen, of FaultKinds
  MaxFaults   \* bound: how many of them happen

FaultKinds == {"details", "config", "store", "publish", "timeout", "crash"}

ASSUME RunnerAssumption ==
  /\ Routes \subseteq {"pubsub", "push", "api"}
  /\ Faults \subseteq FaultKinds
  /\ MaxFaults \in Nat

VARIABLES
  msg,        \* what the request asks for
  pc,         \* where its delivery is
  err,        \* the exception being handled
  published,  \* activity events Pub/Sub accepted during this delivery
  outcome,    \* how this delivery, or the last one, ended
  mishap,     \* the faults of this delivery
  faults      \* number of faults so far

vars == <<msg, pc, err, published, outcome, mishap, faults>>

(* manual: the trigger is the operator; known: there is a handler for the    *)
(* action id or data type; pull: its config model is a pull action's;        *)
(* logged: it has the activity_logger decorator, as action_pull_observations *)
(* does and action_auth does not.                                            *)
(* background: run_in_background of the API, or POST / with                  *)
(* PROCESS_PUBSUB_MESSAGES_IN_BACKGROUND.  body: "unreadable" does not parse *)
(* into the fields that the route reads; "unaddressed" is pushed without a   *)
(* destination_id; "odd" has a field of a type that the run does not expect: *)
(* pushed data without .get, or, through POST /, an id, a trigger or         *)
(* overrides of another type.                                                *)
Request == [route : Routes, manual : BOOLEAN, known : BOOLEAN,
            pull : BOOLEAN, logged : BOOLEAN, background : BOOLEAN,
            body : {"good", "odd", "unreadable", "unaddressed"}]

Parties == {"provider", "portal", "pubsub", "runner", "none"}

(* An exception: whose failure it is, and what classify_error sees in it: an *)
(* IntegrationError, a status code or exception type it knows, or neither.   *)
Error == [who : Parties, form : {"explicit", "signal", "plain"}]

NoError      == [who |-> "none",   form |-> "plain"]
PortalError  == [who |-> "portal", form |-> "signal"]
RunnerError  == [who |-> "runner", form |-> "plain"]
TimeoutError == [who |-> "runner", form |-> "signal"]
PubSubErrors == {[who |-> "pubsub", form |-> f] : f \in {"signal", "plain"}}

(* The handler can raise for TrackIt, for the Gundi API it sends to, or for itself. *)
HandlerErrors ==
  {[who |-> "provider", form |-> f] : f \in {"explicit", "signal", "plain"}}
    \cup {PortalError, RunnerError}

(* An activity event; blamed when its text says that the provider failed. *)
Event == [type : {"Started", "Complete", "Failed", "Warning"},
          who : Parties, blamed : BOOLEAN]

Plain(type) == [type |-> type, who |-> "none", blamed |-> FALSE]

Failed(e, heuristics) ==
  [type |-> "Failed", who |-> e.who,
   blamed |-> e.form = "explicit" \/ (heuristics /\ e.form = "signal")]

Has(type) == \E e \in published : e.type = type

Active == {"details", "lookup", "config", "throttle", "warn", "start", "run",
           "logfail", "logdone", "report_outside", "report_handler"}

Goto(place) == pc' = place
Raise(e, place) == err' = e /\ Goto(place)

Fault(kind) ==
  /\ kind \in Faults /\ faults < MaxFaults
  /\ faults' = faults + 1
  /\ mishap' = mishap \cup {kind}

NoFault == UNCHANGED <<mishap, faults>>

-----------------------------------------------------------------------------
(* Mutants: POST / answers with the status too; /push-data answers 200.      *)
AckedBySuccess(result) == result \in {"ok", "skipped", "dropped"}
AckedAlways(result) == result \in {"ok", "skipped", "dropped", "error"}

(* POST / answers 200 whatever execute_action returned, the other routes     *)
(* answer with its status; an exception that leaves it is a 500 everywhere.  *)
(* A push message that is dropped is acknowledged.                           *)
Acked(result) ==
  \/ result \in {"ok", "skipped", "dropped"}
  \/ result = "error" /\ msg.route = "pubsub"

(* Nobody waits any more for a run in the background, nor asks again for it. *)
Answer(result) ==
  /\ outcome' = result
  /\ err' = NoError
  /\ Goto(IF Acked(result) \/ msg.route = "api" \/ msg.background THEN "done" ELSE "queued")

(* Mutant: a message without a destination is refused, like one that does    *)
(* not parse.                                                                *)
TurnAwayAll ==
  /\ pc = "queued" /\ msg.body \in {"unreadable", "unaddressed"}
  /\ Answer(IF msg.route = "api" THEN "refused" ELSE "raised")
  /\ published' = {} /\ mishap' = {}
  /\ UNCHANGED <<msg, faults>>

(* No run: a body that does not parse is a 422 of the API and a 500 of the   *)
(* other routes; a push message that names no destination is dropped.        *)
TurnAway ==
  /\ pc = "queued" /\ msg.body \in {"unreadable", "unaddressed"}
  /\ Answer(CASE msg.body = "unaddressed" -> "dropped"
               [] msg.route = "api"        -> "refused"
               [] OTHER                    -> "raised")
  /\ published' = {} /\ mishap' = {}
  /\ UNCHANGED <<msg, faults>>

Deliver ==
  /\ pc = "queued" /\ msg.body \in {"good", "odd"}
  /\ Goto("details")
  /\ published' = {} /\ outcome' = "none" /\ mishap' = {}
  /\ UNCHANGED <<msg, err, faults>>

GetDetails ==
  /\ pc = "details"
  /\ \/ Goto("lookup") /\ UNCHANGED err /\ NoFault
     \/ Fault("details") /\ Raise(PortalError, "report_outside")
  /\ UNCHANGED <<msg, published, outcome>>

(* An odd field raises outside any try: where it names the integration, the  *)
(* handler or the trigger, where it overrides the configuration, or in the   *)
(* event that would report another failure.                                  *)
Stumble ==
  /\ msg.body = "odd" /\ pc \in {"details", "lookup", "config", "report_outside"}
  /\ Answer("raised")
  /\ UNCHANGED <<msg, published, mishap, faults>>

FindHandler ==
  /\ pc = "lookup" /\ (msg.body = "odd" => msg.route # "push")
  /\ IF msg.known THEN Goto("config") /\ UNCHANGED err
                  ELSE Raise(RunnerError, "report_outside")
  /\ UNCHANGED <<msg, published, outcome, mishap, faults>>

-----------------------------------------------------------------------------
(* Mutant: the marker of the run is taken the wrong way round. *)
SkippableManual == msg.pull /\ msg.manual

SkippablePull == msg.pull /\ ~msg.manual

(* No configuration and no overrides. *)
ConfigAbsent ==
  /\ pc = "config" /\ msg.body # "odd"
  /\ IF SkippablePull
     THEN Answer("skipped")
     ELSE Raise(RunnerError, "report_outside") /\ UNCHANGED outcome
  /\ UNCHANGED <<msg, published, mishap, faults>>

ConfigInvalid ==
  /\ pc = "config" /\ msg.body # "odd"
  /\ IF SkippablePull THEN Goto("throttle") /\ UNCHANGED err
                      ELSE Raise(RunnerError, "report_outside")
  /\ UNCHANGED <<msg, published, outcome, mishap, faults>>

(* run_on_schedule is off. *)
Paused ==
  /\ pc = "config" /\ msg.body # "odd" /\ SkippablePull
  /\ Answer("skipped")
  /\ UNCHANGED <<msg, published, mishap, faults>>

(* The data of a push action does not validate. *)
DataInvalid ==
  /\ pc = "config" /\ msg.route = "push" /\ msg.body # "odd"
  /\ Raise(RunnerError, "report_outside")
  /\ UNCHANGED <<msg, published, outcome, mishap, faults>>

ConfigUsable ==
  /\ pc = "config" /\ msg.body # "odd"
  /\ Goto(IF msg.logged THEN "start" ELSE "run")
  /\ UNCHANGED <<msg, err, published, outcome, mishap, faults>>

(* get_action_configuration raises; the call is not inside any try. *)
ConfigRaises ==
  /\ pc = "config" /\ Fault("config")
  /\ Answer("raised")
  /\ UNCHANGED <<msg, published>>

(* set_if_absent: first in the window, not the first, or the store is down,  *)
(* which counts as first.                                                    *)
Throttle ==
  /\ pc = "throttle"
  /\ \/ Goto("warn") /\ UNCHANGED <<err, outcome>> /\ NoFault
     \/ Answer("skipped") /\ NoFault
     \/ Goto("warn") /\ UNCHANGED <<err, outcome>> /\ Fault("store")
  /\ UNCHANGED <<msg, published>>

-----------------------------------------------------------------------------
(* publish_event after its retries: Pub/Sub took the event, or it raised,    *)
(* which does not mean that the event was not taken.                         *)
Publish(e) == published' = published \cup {e} /\ NoFault

PublishRaises(e) ==
  /\ Fault("publish")
  /\ published' \in {published, published \cup {e}}

Warn ==
  /\ pc = "warn"
  /\ \/ Publish(Plain("Warning")) /\ Answer("skipped")
     \/ PublishRaises(Plain("Warning")) /\ Answer("raised")
  /\ UNCHANGED msg

(* An exception of activity_logger's own publishing, inside wait_for,        *)
(* replaces whatever was being reported.                                     *)
LoggerRaises(e) ==
  /\ PublishRaises(e) /\ UNCHANGED outcome
  /\ \E x \in PubSubErrors : Raise(x, "report_handler")

LogStarted ==
  /\ pc = "start"
  /\ \/ Publish(Plain("Started")) /\ Goto("run") /\ UNCHANGED <<err, outcome>>
     \/ LoggerRaises(Plain("Started"))
  /\ UNCHANGED msg

RunHandler ==
  /\ pc = "run"
  /\ \/ msg.logged /\ Goto("logdone") /\ UNCHANGED <<err, outcome>>
     \/ ~msg.logged /\ Answer("ok")
     \/ /\ \E x \in HandlerErrors :
             Raise(x, IF msg.logged THEN "logfail" ELSE "report_handler")
        /\ UNCHANGED outcome
  /\ UNCHANGED <<msg, published, mishap, faults>>

LogComplete ==
  /\ pc = "logdone"
  /\ \/ Publish(Plain("Complete")) /\ Answer("ok")
     \/ LoggerRaises(Plain("Complete"))
  /\ UNCHANGED msg

(* Mutant: the exception is not raised again once it is logged. *)
LogFailedAndReturn ==
  /\ pc = "logfail"
  /\ Publish(Failed(err, TRUE)) /\ Goto("logdone")
  /\ UNCHANGED <<msg, err, outcome>>

LogFailed ==
  /\ pc = "logfail"
  /\ \/ Publish(Failed(err, TRUE)) /\ Goto("report_handler") /\ UNCHANGED <<err, outcome>>
     \/ LoggerRaises(Failed(err, TRUE))
  /\ UNCHANGED msg

(* Mutant: the heuristics apply to every failure. *)
AlwaysHeuristics == TRUE

(* Only failures of the handler are classified by heuristics. *)
ClassifyHeuristics == pc = "report_handler"

(* A publish that is cut short may have been accepted. *)
InFlight ==
  {e \in Event :
     \/ pc = "start"   /\ e = Plain("Started")
     \/ pc = "logdone" /\ e = Plain("Complete")
     \/ pc = "logfail" /\ e = Failed(err, TRUE)
     \/ pc = "warn"    /\ e = Plain("Warning")
     \/ pc \in {"report_outside", "report_handler"} /\ e = Failed(err, ClassifyHeuristics)}

(* wait_for cancels the decorated handler, whatever it is awaiting. *)
TimesOut ==
  /\ pc \in {"start", "run", "logdone", "logfail"} /\ Fault("timeout")
  /\ published' \in {published, published \cup InFlight}
  /\ Raise(TimeoutError, "report_handler")
  /\ UNCHANGED <<msg, outcome>>

-----------------------------------------------------------------------------
(* Mutant: a failure to publish the report is swallowed. *)
HandleErrorQuietly ==
  /\ pc \in {"report_outside", "report_handler"}
  /\ LET e == Failed(err, ClassifyHeuristics)
     IN Publish(e) \/ PublishRaises(e)
  /\ Answer("error")
  /\ UNCHANGED msg

(* _handle_error: publish the failure, then answer with an error status. *)
HandleError ==
  /\ pc \in {"report_outside", "report_handler"}
  /\ LET e == Failed(err, ClassifyHeuristics)
     IN \/ Publish(e) /\ Answer("error")
        \/ PublishRaises(e) /\ Answer("raised")
  /\ UNCHANGED msg

(* The process dies: nobody answers the request. *)
Crash ==
  /\ pc \in Active /\ Fault("crash")
  /\ published' \in {published, published \cup InFlight}
  /\ Answer("raised")
  /\ UNCHANGED msg

-----------------------------------------------------------------------------
(* Messages of /push-data carry no trigger, name no pull action and run in   *)
(* the foreground; what is not known is no pull and not logged; the one pull *)
(* is logged; a body without the fields of a run asks for nothing; the API   *)
(* checks the types of its fields.                                           *)
Requests ==
  {q \in Request :
     /\ q.route = "push" => ~q.manual /\ ~q.pull /\ ~q.background
     /\ q.pull => q.known /\ q.logged
     /\ q.logged => q.known
     /\ q.body = "unaddressed" => q.route = "push"
     /\ q.body = "odd" => q.route # "api"
     /\ q.body \in {"unreadable", "unaddressed"} => ~q.manual /\ ~q.known /\ ~q.background
     /\ q.body = "odd" /\ q.route = "push" => ~q.known}

Init ==
  /\ msg \in Requests
  /\ pc = "queued" /\ err = NoError
  /\ published = {} /\ outcome = "none"
  /\ mishap = {} /\ faults = 0

Execute ==
  \/ GetDetails \/ FindHandler \/ Stumble
  \/ ConfigAbsent \/ ConfigInvalid \/ Paused \/ DataInvalid \/ ConfigUsable \/ ConfigRaises
  \/ Throttle \/ Warn
  \/ LogStarted \/ RunHandler \/ LogComplete \/ LogFailed \/ HandleError

Next == Deliver \/ TurnAway \/ Execute \/ TimesOut \/ Crash

Spec == Init /\ [][Next]_vars

(* Pub/Sub keeps delivering, and the event loop keeps running what it started. *)
FairSpec == Spec /\ WF_vars(Deliver \/ TurnAway) /\ WF_vars(Execute)

-----------------------------------------------------------------------------
(* Every variable has its type, and an exception is in flight exactly while  *)
(* it is being logged or reported.                                           *)
TypeOK ==
  /\ msg \in Request
  /\ pc \in Active \cup {"queued", "done"}
  /\ err \in Error
  /\ published \subseteq Event
  /\ outcome \in {"none", "ok", "skipped", "error", "raised", "dropped", "refused"}
  /\ mishap \subseteq Faults /\ faults \in 0..MaxFaults
  /\ err # NoError <=> pc \in {"logfail", "report_outside", "report_handler"}

(* A run that ended in an error answer left a failure in the portal's feed,  *)
(* whichever step failed and whichever publish failed before: POST / then    *)
(* acknowledges the message and nobody looks at it again (main.py:94-101).   *)
AnsweredErrorIsReported == outcome = "error" => Has("Failed")

(* A push message that names a destination is acknowledged only by a run     *)
(* that succeeded: its data is nowhere else (main.py:118-134).               *)
PushAckedOnlyBySuccess ==
  msg.route = "push" /\ msg.body # "unaddressed" /\ pc = "done" => outcome = "ok"

(* A scheduled pull never puts a failure in the feed before its handler     *)
(* started unless something broke, and a manual run, which wants to see its *)
(* misconfiguration, is never answered as skipped (action_runner.py:220-230).*)
SkipsOnlyOnSchedule ==
  /\ msg.pull /\ ~msg.manual /\ mishap = {} /\ Has("Failed") => Has("Started")
  /\ outcome = "skipped" => msg.pull /\ ~msg.manual

(* A run has one verdict: Complete and Failed appear together only when a    *)
(* publish raised or the action timed out in between (activity_logger.py:148-*)
(* 177 publishes Complete inside wait_for).                                  *)
OneVerdict == Has("Complete") /\ Has("Failed") => mishap \cap {"publish", "timeout"} # {}

(* A failure of the runner's own call to the portal never reads as the       *)
(* provider's, whatever else fails or times out (action_runner.py:73-80).    *)
DetailsNotBlamed == "details" \in mishap => \A e \in published : ~e.blamed

(* What a request is to whoever sent it: RequestLedger, without the steps of *)
(* a run.                                                                    *)
Ledger == INSTANCE RequestLedger WITH
  request <- [route |-> msg.route, scheduled |-> msg.pull /\ ~msg.manual,
              logged |-> msg.logged, background |-> msg.background, body |-> msg.body],
  place   <- IF pc = "queued" THEN "waiting" ELSE IF pc = "done" THEN "settled"
             ELSE IF msg.background THEN "detached" ELSE "working",
  feed    <- {e.type : e \in published},
  answer  <- outcome,
  trouble <- mishap # {}

(* A request leaves its queue by one of the ledger's ways, the feed agrees   *)
(* with the answer, and POST / is asked again only for a message that no run *)
(* can take or after something around the handler failed, whichever steps of *)
(* the run fail, and over all its deliveries (main.py:73-134,                *)
(* routers/actions.py:26-48, action_runner.py:114-125, 183-262).             *)
ImplementsLedger == Ledger!LedgerSpec

(* A portal failure never reads as the provider's: the design decision that  *)
(* "portal/config-fetch failures must not render as provider failures".      *)
PortalNeverBlamed == \A e \in published : e.who = "portal" => ~e.blamed

(* Every failed run publishes its event, as the design's decision on         *)
(* throttling says, as long as publishing works and the process lives, for   *)
(* any request that is well formed.                                          *)
FailedRunPublishes ==
  msg.body = "good" /\ outcome \in {"error", "raised"} =>
    Has("Failed") \/ mishap \cap {"publish", "crash"} # {}

(* A well-formed request through POST / is settled: once faults stop it is   *)
(* acknowledged.  One that is not comes back for ever.                       *)
PubSubSettles == msg.route = "pubsub" /\ msg.body = "good" ~> pc = "done"
=============================================================================
