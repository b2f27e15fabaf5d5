------------------------------- MODULE Webhooks -------------------------------
(***************************************************************************)
(* Webhook requests: process_webhook of app/services/webhooks.py with its  *)
(* error branches, webhook_activity_logger around the handler, and the     *)
(* detached task that forwards the payload to the diagnostic URL.  The     *)
(* lookup of the integration is its outcome (see ConfigCache).  The route  *)
(* (app/routers/webhooks.py) answers 200 beforehand when webhooks are      *)
(* processed in the background, and what is said here of the answer is     *)
(* then only logged.                                                       *)
(***************************************************************************)
EXTENDS Lifespan

CONSTANTS
  Hooks  \* the requests

VARIABLES
  stage,       \* where a request is
  bound,       \* the local variables that are assigned
  exception,   \* the exception being handled: for the first or second clause
  events,      \* the activity events Pub/Sub accepted for it
  failed,      \* ghost: where it first went wrong
  trouble,     \* ghost: a publish raised
  forward      \* its forwarding task

hookVars == <<stage, bound, exception, events, failed, trouble, forward>>

(* The first clause of process_webhook catches ImportError, AttributeError   *)
(* and NotImplementedError, the second every other exception.                *)
Clauses == {"attribute", "other"}

Move(w, place) == stage' = [stage EXCEPT ![w] = place]

Blame(w, step) == failed' = [failed EXCEPT ![w] = IF @ = "no" THEN step ELSE @]

RaiseTo(w, clause, step) ==
  /\ Move(w, "except")
  /\ exception' = [exception EXCEPT ![w] = clause]
  /\ Blame(w, step)

Bind(w, name) == bound' = [bound EXCEPT ![w] = @ \cup {name}]

(* publish_event: Pub/Sub took the event, or it raised and may have taken it.*)
Report(w, event) ==
  /\ events' = [events EXCEPT ![w] = @ \cup {event}]
  /\ UNCHANGED trouble

ReportRaises(w, event) ==
  /\ trouble' = [trouble EXCEPT ![w] = TRUE]
  /\ \/ events' = [events EXCEPT ![w] = @ \cup {event}]
     \/ UNCHANGED events

-----------------------------------------------------------------------------
Receive(w) ==
  /\ stage[w] = "new" /\ phase = "serving"
  /\ Move(w, "lookup")
  /\ UNCHANGED <<bound, exception, events, failed, trouble, forward>>

(* get_integration: found; no id in the request; or the lookup raised.       *)
GetIntegration(w) ==
  /\ stage[w] = "lookup"
  /\ \/ Move(w, "handler") /\ Bind(w, "integration") /\ UNCHANGED failed
     \/ Move(w, "answered") /\ Bind(w, "integration") /\ UNCHANGED failed
     \/ Move(w, "report lookup") /\ Blame(w, "lookup") /\ UNCHANGED bound
  /\ UNCHANGED <<exception, events, trouble, forward>>

(* It reports the failure itself, and returns None.                          *)
ReportLookup(w) ==
  /\ stage[w] = "report lookup"
  /\ \/ Report(w, "Failed") /\ Move(w, "answered") /\ UNCHANGED <<exception, failed>>
     \/ ReportRaises(w, "Failed") /\ RaiseTo(w, "other", "lookup")
  /\ UNCHANGED <<bound, forward>>

(* get_webhook_handler, then the body, which may not be JSON.                *)
GetHandler(w) ==
  /\ stage[w] = "handler"
  /\ \/ HandlerFound /\ Move(w, "config") /\ UNCHANGED <<exception, failed>>
     \/ HandlerFound /\ RaiseTo(w, "other", "body")
     \/ ~HandlerFound /\ RaiseTo(w, "attribute", "handler")
  /\ UNCHANGED <<bound, events, trouble, forward>>

(* The configuration does not validate, or the payload, a list, has no get() *)
(* for the hex fields; or the payload is forwarded if there is a URL for it. *)
ParseConfig(w) ==
  /\ stage[w] = "config"
  /\ Bind(w, "webhook_config_data")
  /\ \/ \E clause \in Clauses : RaiseTo(w, clause, "config") /\ UNCHANGED forward
     \/ /\ Move(w, "payload")
        /\ forward' \in {forward, [forward EXCEPT ![w] = "spawned"]}
        /\ UNCHANGED <<exception, failed>>
  /\ UNCHANGED <<events, trouble>>

ParsePayload(w) ==
  /\ stage[w] = "payload"
  /\ \/ Move(w, IF handler = "logged" THEN "start" ELSE "run") /\ UNCHANGED failed
     \/ Move(w, "report payload") /\ Blame(w, "payload")
  /\ UNCHANGED <<bound, exception, events, trouble, forward>>

(* Mutant: a payload that does not parse is refused without a report. *)
RefusePayloadQuietly(w) ==
  /\ stage[w] = "report payload"
  /\ Move(w, "answered")
  /\ UNCHANGED <<bound, exception, events, failed, trouble, forward>>

(* The report needs the webhook of the type, which there may not be.         *)
ReportPayload(w) ==
  /\ stage[w] = "report payload"
  /\ IF typeWebhook
     THEN \/ Report(w, "Failed") /\ Move(w, "answered") /\ UNCHANGED <<exception, failed>>
          \/ ReportRaises(w, "Failed") /\ RaiseTo(w, "other", "payload")
     ELSE RaiseTo(w, "attribute", "payload") /\ UNCHANGED <<events, trouble>>
  /\ UNCHANGED <<bound, forward>>

-----------------------------------------------------------------------------
LogWebhookStarted(w) ==
  /\ stage[w] = "start"
  /\ \/ Report(w, "Started") /\ Move(w, "run") /\ UNCHANGED <<exception, failed>>
     \/ ReportRaises(w, "Started") /\ RaiseTo(w, "other", "start")
  /\ UNCHANGED <<bound, forward>>

RunWebhookHandler(w) ==
  /\ stage[w] = "run"
  /\ \/ /\ Move(w, IF handler = "logged" THEN "log complete" ELSE "answered")
        /\ UNCHANGED <<exception, failed>>
     \/ \E clause \in Clauses :
          /\ exception' = [exception EXCEPT ![w] = clause]
          /\ Blame(w, "run")
          /\ Move(w, IF handler = "logged" THEN "log failed" ELSE "except")
  /\ UNCHANGED <<bound, events, trouble, forward>>

(* Mutant: the exception is not raised again once it is logged. *)
LogAndContinue(w) ==
  /\ stage[w] = "log failed"
  /\ Report(w, "Failed") /\ Move(w, "log complete")
  /\ UNCHANGED <<bound, exception, failed, forward>>

LogWebhookFailed(w) ==
  /\ stage[w] = "log failed"
  /\ \/ Report(w, "Failed") /\ Move(w, "except") /\ UNCHANGED <<exception, failed>>
     \/ ReportRaises(w, "Failed") /\ RaiseTo(w, "other", "run")
  /\ UNCHANGED <<bound, forward>>

LogWebhookComplete(w) ==
  /\ stage[w] = "log complete"
  /\ \/ Report(w, "Complete") /\ Move(w, "answered") /\ UNCHANGED <<exception, failed>>
     \/ ReportRaises(w, "Complete") /\ RaiseTo(w, "other", "complete")
  /\ UNCHANGED <<bound, forward>>

-----------------------------------------------------------------------------
(* What a clause needs for its report; without it, it raises itself.         *)
CanReport(w) ==
  IF exception[w] = "attribute" THEN typeWebhook
                                ELSE {"integration", "webhook_config_data"} \subseteq bound[w]

(* Mutant: an exception of the report is swallowed too. *)
HandleExceptionQuietly(w) ==
  /\ stage[w] = "except"
  /\ \/ CanReport(w) /\ Report(w, "Failed")
     \/ CanReport(w) /\ ReportRaises(w, "Failed")
     \/ ~CanReport(w) /\ UNCHANGED <<events, trouble>>
  /\ Move(w, "answered")
  /\ UNCHANGED <<bound, exception, failed, forward>>

HandleException(w) ==
  /\ stage[w] = "except"
  /\ \/ CanReport(w) /\ Report(w, "Failed") /\ Move(w, "answered")
     \/ CanReport(w) /\ ReportRaises(w, "Failed") /\ Move(w, "raised")
     \/ ~CanReport(w) /\ Move(w, "raised") /\ UNCHANGED <<events, trouble>>
  /\ UNCHANGED <<bound, exception, failed, forward>>

(* forward_payload_to_diagnostic_url: the URL is refused or resolved; then   *)
(* the client is taken and the post begun in one go; whatever it comes to,   *)
(* also with a client that is being closed, the task ends.                   *)
ForwardRefused(w) ==
  /\ forward[w] = "spawned"
  /\ forward' = [forward EXCEPT ![w] = "ended"]
  /\ UNCHANGED <<stage, bound, exception, events, failed, trouble, lifeVars>>

ForwardPosts(w) ==
  /\ forward[w] = "spawned"
  /\ GetDiagnosticClient
  /\ forward' = [forward EXCEPT ![w] = "posting"]
  /\ UNCHANGED <<stage, bound, exception, events, failed, trouble>>

ForwardEnds(w) ==
  /\ forward[w] = "posting"
  /\ forward' = [forward EXCEPT ![w] = "ended"]
  /\ UNCHANGED <<stage, bound, exception, events, failed, trouble, lifeVars>>

-----------------------------------------------------------------------------
HookEnds == {"answered", "raised"}

HookInit ==
  /\ LifeInit
  /\ stage = [w \in Hooks |-> "new"]
  /\ bound = [w \in Hooks |-> {}]
  /\ exception = [w \in Hooks |-> "none"]
  /\ events = [w \in Hooks |-> {}]
  /\ failed = [w \in Hooks |-> "no"]
  /\ trouble = [w \in Hooks |-> FALSE]
  /\ forward = [w \in Hooks |-> "none"]

ProcessWebhook(w) ==
  /\ \/ GetIntegration(w) \/ ReportLookup(w) \/ GetHandler(w) \/ ParseConfig(w)
     \/ ParsePayload(w) \/ ReportPayload(w) \/ LogWebhookStarted(w) \/ RunWebhookHandler(w)
     \/ LogWebhookFailed(w) \/ LogWebhookComplete(w) \/ HandleException(w)
  /\ UNCHANGED lifeVars

ForwardPayload(w) == ForwardRefused(w) \/ ForwardPosts(w) \/ ForwardEnds(w)

StartUp ==
  /\ \/ Register \/ RegisterRaises \/ RegisterInvalid \/ SkipRegistration
     \/ phase = "failed" /\ Restart
  /\ UNCHANGED hookVars

ShutDown(requestsEnded) ==
  /\ \/ Stop(requestsEnded)
     \/ ClosePortal(\E w \in Hooks : forward[w] \in {"spawned", "posting"})
     \/ CloseDiagnosticClient
  /\ UNCHANGED hookVars

HooksEnded == \A w \in Hooks : stage[w] \in HookEnds \cup {"new"}

HookNext ==
  \/ \E w \in Hooks : Receive(w) /\ UNCHANGED lifeVars
  \/ \E w \in Hooks : ProcessWebhook(w) \/ ForwardPayload(w)
  \/ StartUp \/ ShutDown(HooksEnded)

HookSpec == HookInit /\ [][HookNext]_<<lifeVars, hookVars>>

-----------------------------------------------------------------------------
HookTypeOK ==
  /\ LifeTypeOK
  /\ stage \in [Hooks -> HookEnds \cup
       {"new", "lookup", "report lookup", "handler", "config", "payload", "report payload",
        "start", "run", "log failed", "log complete", "except"}]
  /\ bound \in [Hooks -> SUBSET {"integration", "webhook_config_data"}]
  /\ exception \in [Hooks -> Clauses \cup {"none"}]
  /\ events \in [Hooks -> SUBSET {"Started", "Complete", "Failed"}]
  /\ failed \in [Hooks -> {"no", "lookup", "body", "handler", "config", "payload", "start",
                           "run", "complete"}]
  /\ trouble \in [Hooks -> BOOLEAN]
  /\ forward \in [Hooks -> {"none", "spawned", "posting", "ended"}]
  /\ \A w \in Hooks : stage[w] \in {"except", "log failed"} => exception[w] \in Clauses
  /\ \A w \in Hooks : stage[w] \in {"start", "run", "log complete"} => exception[w] = "none"

(* An answer hides no failure: a request that went wrong anywhere and is     *)
(* answered as usual has left a failure in the feed (webhooks.py:212-257).   *)
NoFailureHidden ==
  \A w \in Hooks : stage[w] = "answered" /\ failed[w] # "no" => "Failed" \in events[w]

(* A failure stays out of the feed only for one of these reasons: publishing *)
(* raised; the exception is one taken for a missing handler and the type has *)
(* no webhook to report it under; or it came before the configuration was    *)
(* looked at, which the last clause needs (webhooks.py:230-256).             *)
UnreportedOnlyIf ==
  \A w \in Hooks :
    stage[w] \in HookEnds /\ failed[w] # "no" /\ "Failed" \notin events[w] =>
      \/ trouble[w]
      \/ failed[w] = "body"
      \/ failed[w] \in {"handler", "config", "payload", "run"} /\ ~typeWebhook

(* A handler's run is not reported both complete and failed unless           *)
(* publishing raised in between (activity_logger.py:200-231).                *)
OneHookVerdict ==
  \A w \in Hooks : {"Complete", "Failed"} \subseteq events[w] => trouble[w]
=============================================================================
