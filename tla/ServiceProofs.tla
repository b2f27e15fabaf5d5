----------------------------- MODULE ServiceProofs -----------------------------
(***************************************************************************)
(* Theorems about Webhooks, Lifespan, and the Service they make with       *)
(* ActionRunner, for any webhook requests and any number of attempts to    *)
(* register: HookInv and ServiceInv are inductive, and imply what the runs *)
(* check.                                                                  *)
(***************************************************************************)
EXTENDS Service, ActionRunnerProofs

(* What the properties rest on.  Until it goes wrong, a request is nowhere   *)
(* else; where it is tells what is assigned, published, and raised.          *)
Untroubled == {"new", "lookup", "handler", "config", "payload", "start", "run", "log complete"}

AllBound(w) == bound[w] = {"integration", "webhook_config_data"}

Traced(w) ==
  /\ stage[w] = "new" => events[w] = {}
  /\ stage[w] \in Untroubled => failed[w] = "no" /\ exception[w] = "none"
  /\ stage[w] = "except" => failed[w] # "no"
  /\ "Failed" \in events[w] => failed[w] # "no"
  /\ "Complete" \in events[w] => trouble[w] \/ (stage[w] = "answered" /\ failed[w] = "no")
  /\ stage[w] \in {"payload", "report payload", "start", "run", "log failed", "log complete"} =>
       AllBound(w)
  /\ stage[w] \in {"handler", "config"} => "integration" \in bound[w]
  /\ stage[w] = "report lookup" => failed[w] = "lookup"
  /\ stage[w] = "report payload" => failed[w] = "payload"
  /\ stage[w] = "log failed" => failed[w] = "run"
  /\ stage[w] = "except" /\ exception[w] = "attribute" =>
       failed[w] \in {"handler", "config", "payload", "run"}
  /\ stage[w] = "except" /\ exception[w] = "other" =>
       trouble[w] \/ failed[w] = "body" \/ AllBound(w)
  /\ stage[w] = "answered" /\ failed[w] # "no" => "Failed" \in events[w]
  /\ stage[w] = "raised" /\ "Failed" \notin events[w] =>
       \/ trouble[w] \/ failed[w] = "body"
       \/ failed[w] \in {"handler", "config", "payload", "run"} /\ ~typeWebhook

(* Requests are worked on only while the process serves; a client is closed  *)
(* once, and a quiet shutdown leaves nobody to ask for another.              *)
LifeTells ==
  /\ phase \in {"starting", "failed"} => \A w \in Hooks : stage[w] = "new"
  /\ phase # "serving" => HooksEnded
  /\ diagnostic = "closing" <=> phase = "closing client"
  /\ quiet => /\ phase \in {"closing client", "closed"}
              /\ \A w \in Hooks : forward[w] \notin {"spawned", "posting"}
  /\ quiet /\ phase = "closed" => diagnostic = "none"

HookInv ==
  /\ HookTypeOK /\ LifeTells /\ ServesAsRegistered /\ OneOpenClient
  /\ \A w \in Hooks : Traced(w)

(* What the safety properties rest on: the components' invariants, and that  *)
(* webhooks come only where there is no action request.                      *)
ServiceInv ==
  /\ IInv /\ HookInv
  /\ ~NoAction => \A w \in Hooks : stage[w] = "new"

-----------------------------------------------------------------------------

(* What the properties say follows from the invariant.                       *)
LEMMA HookInvImplies ==
  HookInv => /\ HookTypeOK /\ NoFailureHidden /\ UnreportedOnlyIf /\ OneHookVerdict
             /\ ServesAsRegistered /\ OneOpenClient /\ ClosedAtExit
<1> SUFFICES ASSUME HookInv
             PROVE  /\ HookTypeOK /\ NoFailureHidden /\ UnreportedOnlyIf /\ OneHookVerdict
                    /\ ServesAsRegistered /\ OneOpenClient /\ ClosedAtExit
  OBVIOUS
<1>1. NoFailureHidden
  BY DEF HookInv, Traced, NoFailureHidden
<1>2. UnreportedOnlyIf
  BY DEF HookInv, Traced, UnreportedOnlyIf, HookEnds
<1>3. OneHookVerdict
  BY DEF HookInv, Traced, OneHookVerdict
<1>4. ClosedAtExit
  BY DEF HookInv, LifeTells, OneOpenClient, ClosedAtExit
<1> QED
  BY <1>1, <1>2, <1>3, <1>4 DEF HookInv

LEMMA OneTry == 1 \in 1..MaxTries
BY LifespanAssumption

LEMMA HookInvInit == HookInit => HookInv
<1> SUFFICES ASSUME HookInit PROVE HookInv
  OBVIOUS
<1>1. LifeTypeOK
  BY OneTry DEF HookInit, LifeInit, LifeTypeOK
<1>2. HookTypeOK
  BY <1>1 DEF HookInit, HookTypeOK, HookEnds, Clauses
<1>3. LifeTells /\ ServesAsRegistered /\ OneOpenClient
  BY DEF HookInit, LifeInit, LifeTells, ServesAsRegistered, OneOpenClient, HooksEnded
<1>4. \A w \in Hooks : Traced(w)
  BY DEF HookInit, Traced, Untroubled
<1> QED
  BY <1>2, <1>3, <1>4 DEF HookInv

Stages == HookEnds \cup
  {"new", "lookup", "report lookup", "handler", "config", "payload", "report payload",
   "start", "run", "log failed", "log complete", "except"}

Steps == {"no", "lookup", "body", "handler", "config", "payload", "start", "run", "complete"}

Locals == {"integration", "webhook_config_data"}

Reported == {"Started", "Complete", "Failed"}

Typed ==
  /\ stage \in [Hooks -> Stages] /\ bound \in [Hooks -> SUBSET Locals]
  /\ exception \in [Hooks -> Clauses \cup {"none"}] /\ events \in [Hooks -> SUBSET Reported]
  /\ failed \in [Hooks -> Steps] /\ trouble \in [Hooks -> BOOLEAN]
  /\ forward \in [Hooks -> {"none", "spawned", "posting", "ended"}]

(* A request that is being processed: only its own record changes, soundly.  *)
OnlyOf(w) ==
  \A v \in Hooks \ {w} :
    /\ stage'[v] = stage[v] /\ bound'[v] = bound[v] /\ exception'[v] = exception[v]
    /\ events'[v] = events[v] /\ failed'[v] = failed[v] /\ trouble'[v] = trouble[v]
    /\ forward'[v] = forward[v]

Sound(w) ==
  /\ stage[w] \in {"except", "log failed"} => exception[w] \in Clauses
  /\ stage[w] \in {"start", "run", "log complete"} => exception[w] = "none"
  /\ Traced(w)

LEMMA SoundNow ==
  ASSUME HookInv, NEW w \in Hooks
  PROVE  /\ Typed /\ HookTypeOK /\ Sound(w) /\ Traced(w)
         /\ stage[w] \notin HookEnds \cup {"new"} => phase = "serving" /\ ~quiet
<1>1. Typed
  BY DEF HookInv, HookTypeOK, Typed, Stages, Locals, Reported, Steps
<1>2. Sound(w) /\ Traced(w)
  BY DEF HookInv, HookTypeOK, Sound
<1> QED
  BY <1>1, <1>2 DEF HookInv, LifeTells, HooksEnded

LEMMA RequestStep ==
  ASSUME HookInv, NEW w \in Hooks, stage[w] \notin HookEnds, UNCHANGED lifeVars,
         phase = "serving", Typed', OnlyOf(w), Sound(w)'
  PROVE  HookInv'
<1>1. ASSUME NEW v \in Hooks PROVE Sound(v)'
  <2>1. CASE v = w
    BY <2>1
  <2>2. CASE v # w
    <3>1. /\ stage'[v] = stage[v] /\ bound'[v] = bound[v] /\ exception'[v] = exception[v]
          /\ events'[v] = events[v] /\ failed'[v] = failed[v] /\ trouble'[v] = trouble[v]
          /\ typeWebhook' = typeWebhook
      BY <2>2 DEF OnlyOf, lifeVars
    <3>2. Sound(v)
      BY SoundNow
    <3> QED
      BY <3>1, <3>2 DEF Sound, Traced, AllBound
  <2> QED
    BY <2>1, <2>2
<1>2. LifeTypeOK'
  BY DEF HookInv, HookTypeOK, LifeTypeOK, lifeVars, setting
<1>3. HookTypeOK'
  BY <1>1, <1>2 DEF HookTypeOK, Sound, Typed, Stages, Locals, Reported, Steps
<1>4. LifeTells' /\ ServesAsRegistered' /\ OneOpenClient'
  BY DEF HookInv, LifeTells, ServesAsRegistered, OneOpenClient, HandlerFound, lifeVars, setting
<1> QED
  BY <1>1, <1>3, <1>4 DEF HookInv, Sound

(* What the helpers of Webhooks change.                                      *)
LEMMA Moves ==
  ASSUME HookTypeOK, NEW w \in Hooks, NEW place \in Stages, Move(w, place)
  PROVE  /\ stage' \in [Hooks -> Stages] /\ stage'[w] = place
         /\ \A v \in Hooks \ {w} : stage'[v] = stage[v]
BY DEF HookTypeOK, Move, Stages

LEMMA Blames ==
  ASSUME HookTypeOK, NEW w \in Hooks, NEW step \in Steps, Blame(w, step)
  PROVE  /\ failed' \in [Hooks -> Steps]
         /\ failed'[w] = IF failed[w] = "no" THEN step ELSE failed[w]
         /\ \A v \in Hooks \ {w} : failed'[v] = failed[v]
BY DEF HookTypeOK, Blame, Steps

LEMMA Binds ==
  ASSUME HookTypeOK, NEW w \in Hooks, NEW name \in Locals, Bind(w, name)
  PROVE  /\ bound' \in [Hooks -> SUBSET Locals]
         /\ bound'[w] = bound[w] \cup {name}
         /\ \A v \in Hooks \ {w} : bound'[v] = bound[v]
<1>1. bound[w] \cup {name} \in SUBSET Locals
  BY DEF HookTypeOK, Locals
<1> QED
  BY <1>1 DEF HookTypeOK, Bind, Locals

LEMMA Reports ==
  ASSUME HookTypeOK, NEW w \in Hooks, NEW event \in Reported, Report(w, event)
  PROVE  /\ events' \in [Hooks -> SUBSET Reported]
         /\ events'[w] = events[w] \cup {event}
         /\ \A v \in Hooks \ {w} : events'[v] = events[v]
         /\ trouble' = trouble
<1>1. events[w] \cup {event} \in SUBSET Reported
  BY DEF HookTypeOK, Reported
<1> QED
  BY <1>1 DEF HookTypeOK, Report, Reported

LEMMA ReportsRaise ==
  ASSUME HookTypeOK, NEW w \in Hooks, NEW event \in Reported, ReportRaises(w, event)
  PROVE  /\ events' \in [Hooks -> SUBSET Reported]
         /\ events[w] \subseteq events'[w] /\ events'[w] \subseteq events[w] \cup {event}
         /\ \A v \in Hooks \ {w} : events'[v] = events[v]
         /\ trouble' \in [Hooks -> BOOLEAN] /\ trouble'[w]
         /\ \A v \in Hooks \ {w} : trouble'[v] = trouble[v]
<1>1. events[w] \cup {event} \in SUBSET Reported
  BY DEF HookTypeOK, Reported
<1>2. /\ events' \in [Hooks -> SUBSET Reported]
      /\ events[w] \subseteq events'[w] /\ events'[w] \subseteq events[w] \cup {event}
      /\ \A v \in Hooks \ {w} : events'[v] = events[v]
  <2>1. CASE events' = [events EXCEPT ![w] = @ \cup {event}]
    BY <1>1, <2>1 DEF HookTypeOK, Reported
  <2>2. CASE events' = events
    BY <2>2 DEF HookTypeOK, Reported
  <2> QED
    BY <2>1, <2>2 DEF ReportRaises
<1>3. trouble \in [Hooks -> BOOLEAN] /\ trouble' = [trouble EXCEPT ![w] = TRUE]
  BY DEF HookTypeOK, ReportRaises
<1>4. trouble' \in [Hooks -> BOOLEAN]
  BY <1>3
<1>5. trouble'[w] /\ \A v \in Hooks \ {w} : trouble'[v] = trouble[v]
  BY <1>3, Zenon
<1> QED
  BY <1>2, <1>4, <1>5

LEMMA Raises ==
  ASSUME HookTypeOK, NEW w \in Hooks, NEW clause \in Clauses, NEW step \in Steps,
         RaiseTo(w, clause, step)
  PROVE  /\ stage' \in [Hooks -> Stages] /\ stage'[w] = "except"
         /\ \A v \in Hooks \ {w} : stage'[v] = stage[v]
         /\ exception' \in [Hooks -> Clauses \cup {"none"}] /\ exception'[w] = clause
         /\ \A v \in Hooks \ {w} : exception'[v] = exception[v]
         /\ failed' \in [Hooks -> Steps]
         /\ failed'[w] = IF failed[w] = "no" THEN step ELSE failed[w]
         /\ \A v \in Hooks \ {w} : failed'[v] = failed[v]
<1>1. "except" \in Stages
  BY DEF Stages
<1>2. exception' = [exception EXCEPT ![w] = clause] /\ Move(w, "except") /\ Blame(w, step)
  BY DEF RaiseTo
<1>3. /\ exception' \in [Hooks -> Clauses \cup {"none"}] /\ exception'[w] = clause
      /\ \A v \in Hooks \ {w} : exception'[v] = exception[v]
  BY <1>2 DEF HookTypeOK
<1> QED
  BY <1>1, <1>2, <1>3, Moves, Blames

-----------------------------------------------------------------------------
(* The steps of a request, one lemma per action.                             *)
LEMMA ReceiveStep ==
  ASSUME HookInv, NEW w \in Hooks, Receive(w)
  PROVE  Typed' /\ OnlyOf(w) /\ Sound(w)'
<1>1. /\ stage' \in [Hooks -> Stages] /\ stage'[w] = "lookup"
      /\ \A v \in Hooks \ {w} : stage'[v] = stage[v]
  BY SoundNow, Moves DEF Receive, Stages
<1>2. UNCHANGED <<bound, exception, events, failed, trouble, forward>> /\ stage[w] = "new"
  BY DEF Receive
<1>3. Typed' /\ OnlyOf(w)
  BY <1>1, <1>2, SoundNow DEF Typed, OnlyOf
<1> QED
  BY <1>1, <1>2, <1>3, SoundNow DEF Sound, Traced, Untroubled, AllBound

LEMMA GetIntegrationStep ==
  ASSUME HookInv, NEW w \in Hooks, GetIntegration(w), typeWebhook' = typeWebhook
  PROVE  Typed' /\ OnlyOf(w) /\ Sound(w)'
<1>1. UNCHANGED <<exception, events, trouble, forward>> /\ stage[w] = "lookup"
  BY DEF GetIntegration
<1>2. CASE /\ Move(w, "handler") \/ Move(w, "answered")
           /\ Bind(w, "integration") /\ UNCHANGED failed
  <2>1. /\ stage' \in [Hooks -> Stages] /\ stage'[w] \in {"handler", "answered"}
        /\ \A v \in Hooks \ {w} : stage'[v] = stage[v]
    BY <1>2, SoundNow, Moves DEF Stages, HookEnds
  <2>2. /\ bound' \in [Hooks -> SUBSET Locals] /\ "integration" \in bound'[w]
        /\ \A v \in Hooks \ {w} : bound'[v] = bound[v]
    BY <1>2, SoundNow, Binds DEF Locals
  <2>3. Typed' /\ OnlyOf(w)
    BY <1>1, <1>2, <2>1, <2>2, SoundNow DEF Typed, OnlyOf
  <2> QED
    BY <1>1, <1>2, <2>1, <2>2, <2>3, SoundNow DEF Sound, Traced, Untroubled
<1>3. CASE Move(w, "report lookup") /\ Blame(w, "lookup") /\ UNCHANGED bound
  <2>1. /\ stage' \in [Hooks -> Stages] /\ stage'[w] = "report lookup"
        /\ \A v \in Hooks \ {w} : stage'[v] = stage[v]
    BY <1>3, SoundNow, Moves DEF Stages
  <2>2. /\ failed' \in [Hooks -> Steps] /\ failed'[w] = "lookup"
        /\ \A v \in Hooks \ {w} : failed'[v] = failed[v]
    BY <1>1, <1>3, SoundNow, Blames DEF Steps, Traced, Untroubled
  <2>3. Typed' /\ OnlyOf(w)
    BY <1>1, <1>3, <2>1, <2>2, SoundNow DEF Typed, OnlyOf
  <2> QED
    BY <1>1, <1>3, <2>1, <2>2, <2>3, SoundNow DEF Sound, Traced, Untroubled
<1> QED
  BY <1>2, <1>3 DEF GetIntegration

(* A report that raises goes to the last clause, whatever it was about.      *)
LEMMA ReportFails ==
  ASSUME HookInv, NEW w \in Hooks, NEW event \in Reported, ReportRaises(w, event),
         NEW step \in Steps \ {"no"}, RaiseTo(w, "other", step), UNCHANGED <<bound, forward>>
  PROVE  Typed' /\ OnlyOf(w) /\ Sound(w)'
<1>1. /\ stage' \in [Hooks -> Stages] /\ stage'[w] = "except"
      /\ \A v \in Hooks \ {w} : stage'[v] = stage[v]
      /\ exception' \in [Hooks -> Clauses \cup {"none"}] /\ exception'[w] = "other"
      /\ \A v \in Hooks \ {w} : exception'[v] = exception[v]
      /\ failed' \in [Hooks -> Steps] /\ failed'[w] # "no"
      /\ \A v \in Hooks \ {w} : failed'[v] = failed[v]
  BY SoundNow, Raises DEF Clauses
<1>2. /\ events' \in [Hooks -> SUBSET Reported]
      /\ \A v \in Hooks \ {w} : events'[v] = events[v]
      /\ trouble' \in [Hooks -> BOOLEAN] /\ trouble'[w]
      /\ \A v \in Hooks \ {w} : trouble'[v] = trouble[v]
  BY SoundNow, ReportsRaise
<1>3. Typed' /\ OnlyOf(w)
  BY <1>1, <1>2, SoundNow DEF Typed, OnlyOf
<1> QED
  BY <1>1, <1>2, <1>3 DEF Sound, Traced, Untroubled, Clauses

(* A failure that has been reported may be answered.                         *)
LEMMA ReportEnds ==
  ASSUME HookInv, NEW w \in Hooks, stage[w] \notin HookEnds, failed[w] # "no",
         Report(w, "Failed"), Move(w, "answered"),
         UNCHANGED <<exception, failed, bound, forward>>
  PROVE  Typed' /\ OnlyOf(w) /\ Sound(w)'
<1>1. /\ stage' \in [Hooks -> Stages] /\ stage'[w] = "answered"
      /\ \A v \in Hooks \ {w} : stage'[v] = stage[v]
  BY SoundNow, Moves DEF Stages, HookEnds
<1>2. /\ events' \in [Hooks -> SUBSET Reported] /\ events'[w] = events[w] \cup {"Failed"}
      /\ \A v \in Hooks \ {w} : events'[v] = events[v]
      /\ trouble' = trouble
  BY SoundNow, Reports DEF Reported
<1>3. Typed' /\ OnlyOf(w)
  BY <1>1, <1>2, SoundNow DEF Typed, OnlyOf
<1> QED
  BY <1>1, <1>2, <1>3, SoundNow DEF Sound, Traced, Untroubled, HookEnds

(* An exception that nothing was published about.                            *)
LEMMA RaisesUnreported ==
  ASSUME HookInv, NEW w \in Hooks, stage[w] \notin HookEnds,
         NEW clause \in Clauses, NEW step \in Steps \ {"no"}, RaiseTo(w, clause, step),
         UNCHANGED <<events, trouble, forward>>, failed[w] \in {"no", step},
         bound' \in [Hooks -> SUBSET Locals],
         \A v \in Hooks \ {w} : bound'[v] = bound[v],
         clause = "attribute" => step \in {"handler", "config", "payload", "run"},
         clause = "other" => step = "body" \/ bound'[w] = Locals
  PROVE  Typed' /\ OnlyOf(w) /\ Sound(w)'
<1>1. /\ stage' \in [Hooks -> Stages] /\ stage'[w] = "except"
      /\ \A v \in Hooks \ {w} : stage'[v] = stage[v]
      /\ exception' \in [Hooks -> Clauses \cup {"none"}] /\ exception'[w] = clause
      /\ \A v \in Hooks \ {w} : exception'[v] = exception[v]
      /\ failed' \in [Hooks -> Steps] /\ failed'[w] = step
      /\ \A v \in Hooks \ {w} : failed'[v] = failed[v]
  BY SoundNow, Raises
<1>2. Typed' /\ OnlyOf(w)
  BY <1>1, SoundNow DEF Typed, OnlyOf
<1>3. "Complete" \in events[w] => trouble[w]
  BY SoundNow DEF Traced, HookEnds
<1> QED
  BY <1>1, <1>2, <1>3 DEF Sound, Traced, Untroubled, Clauses, AllBound, Locals

LEMMA ReportLookupStep ==
  ASSUME HookInv, NEW w \in Hooks, ReportLookup(w)
  PROVE  Typed' /\ OnlyOf(w) /\ Sound(w)'
<1>1. UNCHANGED <<bound, forward>> /\ stage[w] = "report lookup" /\ failed[w] = "lookup"
  BY SoundNow DEF ReportLookup, Traced
<1> QED
  BY <1>1, ReportEnds, ReportFails DEF ReportLookup, HookEnds, Reported, Steps

LEMMA GetHandlerStep ==
  ASSUME HookInv, NEW w \in Hooks, GetHandler(w)
  PROVE  Typed' /\ OnlyOf(w) /\ Sound(w)'
<1>1. /\ UNCHANGED <<bound, events, trouble, forward>> /\ stage[w] = "handler"
      /\ failed[w] = "no" /\ "integration" \in bound[w]
  BY SoundNow DEF GetHandler, Traced, Untroubled
<1>2. CASE Move(w, "config") /\ UNCHANGED <<exception, failed>>
  <2>1. /\ stage' \in [Hooks -> Stages] /\ stage'[w] = "config"
        /\ \A v \in Hooks \ {w} : stage'[v] = stage[v]
    BY <1>2, SoundNow, Moves DEF Stages
  <2>2. Typed' /\ OnlyOf(w)
    BY <1>1, <1>2, <2>1, SoundNow DEF Typed, OnlyOf
  <2> QED
    BY <1>1, <1>2, <2>1, <2>2, SoundNow DEF Sound, Traced, Untroubled
<1>3. CASE RaiseTo(w, "other", "body") \/ RaiseTo(w, "attribute", "handler")
  BY <1>1, <1>3, SoundNow, RaisesUnreported DEF Typed, Clauses, Steps, HookEnds
<1> QED
  BY <1>2, <1>3 DEF GetHandler

LEMMA ParseConfigStep ==
  ASSUME HookInv, NEW w \in Hooks, ParseConfig(w)
  PROVE  Typed' /\ OnlyOf(w) /\ Sound(w)'
<1>1. /\ UNCHANGED <<events, trouble>> /\ stage[w] = "config"
      /\ failed[w] = "no" /\ "integration" \in bound[w]
  BY SoundNow DEF ParseConfig, Traced, Untroubled
<1>2. /\ bound' \in [Hooks -> SUBSET Locals] /\ bound'[w] = Locals
      /\ \A v \in Hooks \ {w} : bound'[v] = bound[v]
  BY <1>1, SoundNow, Binds DEF ParseConfig, Locals, Typed
<1>3. ASSUME NEW clause \in Clauses, RaiseTo(w, clause, "config"), UNCHANGED forward
      PROVE  Typed' /\ OnlyOf(w) /\ Sound(w)'
  BY <1>1, <1>2, <1>3, RaisesUnreported DEF Steps, HookEnds
<1>4. CASE /\ Move(w, "payload")
           /\ forward' \in {forward, [forward EXCEPT ![w] = "spawned"]}
           /\ UNCHANGED <<exception, failed>>
  <2>1. /\ stage' \in [Hooks -> Stages] /\ stage'[w] = "payload"
        /\ \A v \in Hooks \ {w} : stage'[v] = stage[v]
    BY <1>4, SoundNow, Moves DEF Stages
  <2>2. /\ forward' \in [Hooks -> {"none", "spawned", "posting", "ended"}]
        /\ \A v \in Hooks \ {w} : forward'[v] = forward[v]
    BY <1>4, SoundNow DEF Typed
  <2>3. Typed' /\ OnlyOf(w)
    BY <1>1, <1>2, <1>4, <2>1, <2>2, SoundNow DEF Typed, OnlyOf
  <2> QED
    BY <1>1, <1>2, <1>4, <2>1, <2>3, SoundNow DEF Sound, Traced, Untroubled, AllBound, Locals
<1> QED
  BY <1>3, <1>4 DEF ParseConfig

LEMMA ParsePayloadStep ==
  ASSUME HookInv, NEW w \in Hooks, ParsePayload(w)
  PROVE  Typed' /\ OnlyOf(w) /\ Sound(w)'
<1>1. /\ UNCHANGED <<bound, exception, events, trouble, forward>> /\ stage[w] = "payload"
      /\ failed[w] = "no" /\ bound[w] = Locals
  BY SoundNow DEF ParsePayload, Traced, Untroubled, AllBound, Locals
<1>2. CASE Move(w, IF handler = "logged" THEN "start" ELSE "run") /\ UNCHANGED failed
  <2>1. /\ stage' \in [Hooks -> Stages] /\ stage'[w] \in {"start", "run"}
        /\ \A v \in Hooks \ {w} : stage'[v] = stage[v]
    BY <1>2, SoundNow, Moves DEF Stages
  <2>2. Typed' /\ OnlyOf(w)
    BY <1>1, <1>2, <2>1, SoundNow DEF Typed, OnlyOf
  <2>3. exception[w] = "none"
    BY <1>1, SoundNow DEF Traced, Untroubled
  <2> QED
    BY <1>1, <1>2, <2>1, <2>2, <2>3, SoundNow DEF Sound, Traced, Untroubled, AllBound, Locals
<1>3. CASE Move(w, "report payload") /\ Blame(w, "payload")
  <2>1. /\ stage' \in [Hooks -> Stages] /\ stage'[w] = "report payload"
        /\ \A v \in Hooks \ {w} : stage'[v] = stage[v]
    BY <1>3, SoundNow, Moves DEF Stages
  <2>2. /\ failed' \in [Hooks -> Steps] /\ failed'[w] = "payload"
        /\ \A v \in Hooks \ {w} : failed'[v] = failed[v]
    BY <1>1, <1>3, SoundNow, Blames DEF Steps
  <2>3. Typed' /\ OnlyOf(w)
    BY <1>1, <2>1, <2>2, SoundNow DEF Typed, OnlyOf
  <2> QED
    BY <1>1, <2>1, <2>2, <2>3, SoundNow DEF Sound, Traced, Untroubled, AllBound, Locals
<1> QED
  BY <1>2, <1>3 DEF ParsePayload

LEMMA ReportPayloadStep ==
  ASSUME HookInv, NEW w \in Hooks, ReportPayload(w)
  PROVE  Typed' /\ OnlyOf(w) /\ Sound(w)'
<1>1. UNCHANGED <<bound, forward>> /\ stage[w] = "report payload" /\ failed[w] = "payload"
  BY SoundNow DEF ReportPayload, Traced
<1>2. CASE RaiseTo(w, "attribute", "payload") /\ UNCHANGED <<events, trouble>>
  BY <1>1, <1>2, SoundNow, RaisesUnreported DEF Typed, Clauses, Steps, HookEnds
<1> QED
  BY <1>1, <1>2, ReportEnds, ReportFails DEF ReportPayload, HookEnds, Reported, Steps

LEMMA LogWebhookStartedStep ==
  ASSUME HookInv, NEW w \in Hooks, LogWebhookStarted(w)
  PROVE  Typed' /\ OnlyOf(w) /\ Sound(w)'
<1>1. UNCHANGED <<bound, forward>> /\ stage[w] = "start"
  BY DEF LogWebhookStarted
<1>2. CASE Report(w, "Started") /\ Move(w, "run") /\ UNCHANGED <<exception, failed>>
  <2>1. /\ stage' \in [Hooks -> Stages] /\ stage'[w] = "run"
        /\ \A v \in Hooks \ {w} : stage'[v] = stage[v]
    BY <1>2, SoundNow, Moves DEF Stages
  <2>2. /\ events' \in [Hooks -> SUBSET Reported] /\ events'[w] = events[w] \cup {"Started"}
        /\ \A v \in Hooks \ {w} : events'[v] = events[v]
        /\ trouble' = trouble
    BY <1>2, SoundNow, Reports DEF Reported
  <2>3. Typed' /\ OnlyOf(w)
    BY <1>1, <1>2, <2>1, <2>2, SoundNow DEF Typed, OnlyOf
  <2> QED
    BY <1>1, <1>2, <2>1, <2>2, <2>3, SoundNow DEF Sound, Traced, Untroubled, AllBound
<1>3. CASE ReportRaises(w, "Started") /\ RaiseTo(w, "other", "start")
  BY <1>1, <1>3, ReportFails DEF Reported, Steps
<1> QED
  BY <1>2, <1>3 DEF LogWebhookStarted

LEMMA RunWebhookHandlerStep ==
  ASSUME HookInv, NEW w \in Hooks, RunWebhookHandler(w)
  PROVE  Typed' /\ OnlyOf(w) /\ Sound(w)'
<1>1. /\ UNCHANGED <<bound, events, trouble, forward>> /\ stage[w] = "run"
      /\ failed[w] = "no" /\ bound[w] = Locals
  BY SoundNow DEF RunWebhookHandler, Traced, Untroubled, AllBound, Locals
<1>2. CASE /\ Move(w, IF handler = "logged" THEN "log complete" ELSE "answered")
           /\ UNCHANGED <<exception, failed>>
  <2>1. /\ stage' \in [Hooks -> Stages] /\ stage'[w] \in {"log complete", "answered"}
        /\ \A v \in Hooks \ {w} : stage'[v] = stage[v]
    BY <1>2, SoundNow, Moves DEF Stages, HookEnds
  <2>2. Typed' /\ OnlyOf(w)
    BY <1>1, <1>2, <2>1, SoundNow DEF Typed, OnlyOf
  <2> QED
    BY <1>1, <1>2, <2>1, <2>2, SoundNow DEF Sound, Traced, Untroubled, AllBound, Locals
<1>3. ASSUME NEW clause \in Clauses,
             exception' = [exception EXCEPT ![w] = clause],
             Blame(w, "run"), NEW place \in {"log failed", "except"}, Move(w, place)
      PROVE  Typed' /\ OnlyOf(w) /\ Sound(w)'
  <2>1. /\ stage' \in [Hooks -> Stages] /\ stage'[w] = place
        /\ \A v \in Hooks \ {w} : stage'[v] = stage[v]
    BY <1>3, SoundNow, Moves DEF Stages
  <2>2. /\ failed' \in [Hooks -> Steps] /\ failed'[w] = "run"
        /\ \A v \in Hooks \ {w} : failed'[v] = failed[v]
    BY <1>1, <1>3, SoundNow, Blames DEF Steps
  <2>3. /\ exception' \in [Hooks -> Clauses \cup {"none"}] /\ exception'[w] = clause
        /\ \A v \in Hooks \ {w} : exception'[v] = exception[v]
    BY <1>3, SoundNow DEF Typed
  <2>4. Typed' /\ OnlyOf(w)
    BY <1>1, <2>1, <2>2, <2>3, SoundNow DEF Typed, OnlyOf
  <2> QED
    BY <1>1, <2>1, <2>2, <2>3, <2>4, SoundNow DEF Sound, Traced, Untroubled, AllBound, Locals
<1> QED
  BY <1>2, <1>3 DEF RunWebhookHandler

LEMMA LogWebhookFailedStep ==
  ASSUME HookInv, NEW w \in Hooks, LogWebhookFailed(w)
  PROVE  Typed' /\ OnlyOf(w) /\ Sound(w)'
<1>1. /\ UNCHANGED <<bound, forward>> /\ stage[w] = "log failed"
      /\ failed[w] = "run" /\ bound[w] = Locals
  BY SoundNow DEF LogWebhookFailed, Traced, AllBound, Locals
<1>2. CASE Report(w, "Failed") /\ Move(w, "except") /\ UNCHANGED <<exception, failed>>
  <2>1. /\ stage' \in [Hooks -> Stages] /\ stage'[w] = "except"
        /\ \A v \in Hooks \ {w} : stage'[v] = stage[v]
    BY <1>2, SoundNow, Moves DEF Stages
  <2>2. /\ events' \in [Hooks -> SUBSET Reported] /\ events'[w] = events[w] \cup {"Failed"}
        /\ \A v \in Hooks \ {w} : events'[v] = events[v]
        /\ trouble' = trouble
    BY <1>2, SoundNow, Reports DEF Reported
  <2>3. Typed' /\ OnlyOf(w)
    BY <1>1, <1>2, <2>1, <2>2, SoundNow DEF Typed, OnlyOf
  <2> QED
    BY <1>1, <1>2, <2>1, <2>2, <2>3, SoundNow DEF Sound, Traced, Untroubled, AllBound, Locals
<1>3. CASE ReportRaises(w, "Failed") /\ RaiseTo(w, "other", "run")
  BY <1>1, <1>3, ReportFails DEF Reported, Steps
<1> QED
  BY <1>2, <1>3 DEF LogWebhookFailed

LEMMA LogWebhookCompleteStep ==
  ASSUME HookInv, NEW w \in Hooks, LogWebhookComplete(w)
  PROVE  Typed' /\ OnlyOf(w) /\ Sound(w)'
<1>1. UNCHANGED <<bound, forward>> /\ stage[w] = "log complete" /\ failed[w] = "no"
  BY SoundNow DEF LogWebhookComplete, Traced, Untroubled
<1>2. CASE Report(w, "Complete") /\ Move(w, "answered") /\ UNCHANGED <<exception, failed>>
  <2>1. /\ stage' \in [Hooks -> Stages] /\ stage'[w] = "answered"
        /\ \A v \in Hooks \ {w} : stage'[v] = stage[v]
    BY <1>2, SoundNow, Moves DEF Stages, HookEnds
  <2>2. /\ events' \in [Hooks -> SUBSET Reported] /\ events'[w] = events[w] \cup {"Complete"}
        /\ \A v \in Hooks \ {w} : events'[v] = events[v]
        /\ trouble' = trouble
    BY <1>2, SoundNow, Reports DEF Reported
  <2>3. Typed' /\ OnlyOf(w)
    BY <1>1, <1>2, <2>1, <2>2, SoundNow DEF Typed, OnlyOf
  <2> QED
    BY <1>1, <1>2, <2>1, <2>2, <2>3, SoundNow DEF Sound, Traced, Untroubled
<1>3. CASE ReportRaises(w, "Complete") /\ RaiseTo(w, "other", "complete")
  BY <1>1, <1>3, ReportFails DEF Reported, Steps
<1> QED
  BY <1>2, <1>3 DEF LogWebhookComplete

(* The clauses of process_webhook: reported, not reported, or unable to.     *)
LEMMA HandleExceptionStep ==
  ASSUME HookInv, NEW w \in Hooks, HandleException(w), typeWebhook' = typeWebhook
  PROVE  Typed' /\ OnlyOf(w) /\ Sound(w)'
<1>1. /\ UNCHANGED <<bound, exception, failed, forward>> /\ stage[w] = "except"
      /\ exception[w] \in Clauses
  BY SoundNow DEF HandleException, Sound
<1>2. failed[w] # "no"
  BY <1>1, SoundNow DEF Traced
<1>3. CASE Report(w, "Failed") /\ Move(w, "answered")
  BY <1>1, <1>2, <1>3, ReportEnds DEF HookEnds
<1>4. ASSUME Move(w, "raised")
      PROVE  /\ stage' \in [Hooks -> Stages] /\ stage'[w] = "raised"
             /\ \A v \in Hooks \ {w} : stage'[v] = stage[v]
  BY <1>4, SoundNow, Moves DEF Stages, HookEnds
<1>5. CASE ReportRaises(w, "Failed") /\ Move(w, "raised")
  <2>1. /\ events' \in [Hooks -> SUBSET Reported]
        /\ \A v \in Hooks \ {w} : events'[v] = events[v]
        /\ trouble' \in [Hooks -> BOOLEAN] /\ trouble'[w]
        /\ \A v \in Hooks \ {w} : trouble'[v] = trouble[v]
    BY <1>5, SoundNow, ReportsRaise DEF Reported
  <2>2. Typed' /\ OnlyOf(w)
    BY <1>1, <1>4, <1>5, <2>1, SoundNow DEF Typed, OnlyOf
  <2> QED
    BY <1>1, <1>2, <1>4, <1>5, <2>1, <2>2, SoundNow DEF Sound, Traced, Untroubled
<1>6. CASE ~CanReport(w) /\ Move(w, "raised") /\ UNCHANGED <<events, trouble>>
  <2>1. Typed' /\ OnlyOf(w)
    BY <1>1, <1>4, <1>6, SoundNow DEF Typed, OnlyOf
  <2> QED
    BY <1>1, <1>2, <1>4, <1>6, <2>1, SoundNow
       DEF Sound, Traced, Untroubled, CanReport, AllBound, Clauses, HookEnds
<1> QED
  BY <1>3, <1>5, <1>6 DEF HandleException

LEMMA ReceiveKeeps ==
  ASSUME HookInv, NEW w \in Hooks, Receive(w), UNCHANGED lifeVars
  PROVE  HookInv'
<1>1. stage[w] \notin HookEnds /\ phase = "serving"
  BY DEF Receive, HookEnds
<1> QED
  BY <1>1, ReceiveStep, RequestStep

LEMMA ProcessKeeps ==
  ASSUME HookInv, NEW w \in Hooks, ProcessWebhook(w)
  PROVE  HookInv'
<1>1. UNCHANGED lifeVars /\ typeWebhook' = typeWebhook
  BY DEF ProcessWebhook, lifeVars
<1>2. stage[w] \notin HookEnds \cup {"new"}
  BY DEF ProcessWebhook, HookEnds, GetIntegration, ReportLookup, GetHandler, ParseConfig,
         ParsePayload, ReportPayload, LogWebhookStarted, RunWebhookHandler,
         LogWebhookFailed, LogWebhookComplete, HandleException
<1>3. phase = "serving"
  BY <1>2, SoundNow
<1>4. Typed' /\ OnlyOf(w) /\ Sound(w)'
  BY <1>1, GetIntegrationStep, ReportLookupStep, GetHandlerStep, ParseConfigStep,
     ParsePayloadStep, ReportPayloadStep, LogWebhookStartedStep, RunWebhookHandlerStep,
     LogWebhookFailedStep, LogWebhookCompleteStep, HandleExceptionStep
     DEF ProcessWebhook
<1> QED
  BY <1>1, <1>2, <1>3, <1>4, RequestStep

LEMMA LifeTyped ==
  ASSUME LifeTypeOK, UNCHANGED setting, typeWebhook' \in BOOLEAN, try' \in 1..MaxTries,
         phase' \in {"starting", "serving", "failed", "closing portal", "closing client",
                     "closed"},
         diagnostic' \in {"none", "open", "closing"}, openClients' \in Nat, quiet' \in BOOLEAN
  PROVE  LifeTypeOK'
<1>1. registerOnStart' = registerOnStart /\ handler' = handler
  BY DEF setting
<1>2. registerOnStart' \in BOOLEAN
  BY <1>1, Zenon DEF LifeTypeOK
<1>3. handler' \in {"missing", "plain", "logged"}
  BY <1>1, Zenon DEF LifeTypeOK
<1> QED
  BY <1>2, <1>3, Zenon DEF LifeTypeOK

(* A forwarding task may make the client, but not after a quiet shutdown.    *)
LEMMA ForwardKeeps ==
  ASSUME HookInv, NEW w \in Hooks, ForwardPayload(w)
  PROVE  HookInv'
<1>1. /\ UNCHANGED <<stage, bound, exception, events, failed, trouble>>
      /\ UNCHANGED <<setting, typeWebhook, phase, try, quiet>>
      /\ forward[w] \in {"spawned", "posting"}
  BY DEF ForwardPayload, ForwardRefused, ForwardPosts, ForwardEnds, GetDiagnosticClient, lifeVars
<1>2. /\ forward' \in [Hooks -> {"none", "spawned", "posting", "ended"}] /\ ~quiet
  BY <1>1 DEF ForwardPayload, ForwardRefused, ForwardPosts, ForwardEnds, HookInv, HookTypeOK,
              LifeTells
<1>3. \/ UNCHANGED <<diagnostic, openClients>>
      \/ diagnostic = "none" /\ diagnostic' = "open" /\ openClients' = openClients + 1
  BY DEF ForwardPayload, ForwardRefused, ForwardPosts, ForwardEnds, GetDiagnosticClient, lifeVars
<1>4. LifeTypeOK' /\ OneOpenClient'
  <2>1. LifeTypeOK /\ OneOpenClient
    BY DEF HookInv, HookTypeOK
  <2>2. /\ diagnostic' \in {"none", "open", "closing"} /\ openClients' \in Nat
        /\ OneOpenClient'
    <3>1. openClients \in Nat /\ diagnostic \in {"none", "open", "closing"}
      BY <2>1 DEF LifeTypeOK
    <3> QED
      BY <1>3, <2>1, <3>1 DEF OneOpenClient
  <2>3. typeWebhook' = typeWebhook /\ phase' = phase /\ try' = try /\ quiet' = quiet
    BY <1>1
  <2>4. typeWebhook' \in BOOLEAN /\ quiet' \in BOOLEAN
    BY <2>1, <2>3, Zenon DEF LifeTypeOK
  <2> QED
    BY <1>1, <2>1, <2>2, <2>3, <2>4, LifeTyped DEF LifeTypeOK
<1>5. HookTypeOK'
  BY <1>1, <1>2, <1>4 DEF HookInv, HookTypeOK
<1>6. LifeTells' /\ ServesAsRegistered'
  BY <1>1, <1>2, <1>3 DEF HookInv, LifeTells, HooksEnded, ServesAsRegistered, HandlerFound, setting
<1>7. \A v \in Hooks : Traced(v)'
  BY <1>1 DEF HookInv, Traced, AllBound
<1> QED
  BY <1>4, <1>5, <1>6, <1>7 DEF HookInv

-----------------------------------------------------------------------------
(* The life of the process.  While nothing is received, the type may change. *)
LEMMA LifeStep ==
  ASSUME HookInv, UNCHANGED hookVars, LifeTypeOK', LifeTells', ServesAsRegistered',
         OneOpenClient', typeWebhook' = typeWebhook \/ \A w \in Hooks : stage[w] = "new"
  PROVE  HookInv'
<1>1. HookTypeOK'
  BY DEF HookInv, HookTypeOK, hookVars
<1>2. \A w \in Hooks : Traced(w)'
  BY DEF HookInv, Traced, AllBound, hookVars
<1> QED
  BY <1>1, <1>2 DEF HookInv

LEMMA TryAgainKeeps ==
  ASSUME HookInv, phase = "starting", TryAgain
  PROVE  try' \in 1..MaxTries /\ phase' \in {"starting", "failed"}
<1>1. try \in 1..MaxTries
  BY DEF HookInv, HookTypeOK, LifeTypeOK
<1>2. CASE try < MaxTries
  BY <1>1, <1>2, LifespanAssumption DEF TryAgain
<1>3. CASE ~(try < MaxTries)
  BY <1>3, OneTry DEF TryAgain
<1> QED
  BY <1>2, <1>3

LEMMA StartUpKeeps ==
  ASSUME HookInv, StartUp
  PROVE  HookInv'
<1>1. UNCHANGED hookVars /\ UNCHANGED setting
  BY DEF StartUp, Register, RegisterRaises, RegisterInvalid, SkipRegistration, Restart
<1>2. phase \in {"starting", "failed"} /\ \A w \in Hooks : stage[w] = "new"
  BY DEF StartUp, Register, RegisterRaises, RegisterInvalid, SkipRegistration, HookInv, LifeTells
<1>3. HooksEnded'
  BY <1>1, <1>2 DEF HooksEnded, hookVars, HookEnds
<1>4. typeWebhook \in BOOLEAN /\ typeWebhook' \in BOOLEAN
  BY DEF StartUp, Register, RegisterRaises, RegisterInvalid, SkipRegistration, Restart,
         Registered, HookInv, HookTypeOK, LifeTypeOK
<1>5. CASE Register
  <2>1. HandlerFound => typeWebhook'
    BY <1>5 DEF Register, Registered
  <2> QED
    BY <1>1, <1>2, <1>3, <1>4, <1>5, <2>1, OneTry, LifeStep
       DEF Register, HookInv, HookTypeOK, LifeTypeOK, LifeTells, ServesAsRegistered,
           OneOpenClient, HandlerFound, setting, hookVars
<1>6. CASE RegisterRaises
  <2>1. try' \in 1..MaxTries /\ phase' \in {"starting", "failed"}
    BY <1>6, TryAgainKeeps DEF RegisterRaises
  <2> QED
    BY <1>1, <1>2, <1>3, <1>4, <1>6, <2>1, LifeStep
       DEF RegisterRaises, HookInv, HookTypeOK, LifeTypeOK, LifeTells, ServesAsRegistered,
           OneOpenClient, HandlerFound, setting, hookVars
<1>7. CASE RegisterInvalid
  BY <1>1, <1>2, <1>3, <1>4, <1>7, OneTry, LifeStep
     DEF RegisterInvalid, HookInv, HookTypeOK, LifeTypeOK, LifeTells,
         ServesAsRegistered, OneOpenClient, HandlerFound, setting, hookVars
<1>8. CASE SkipRegistration
  <2>1. /\ UNCHANGED <<typeWebhook, try, diagnostic, openClients, quiet>>
        /\ phase = "starting" /\ phase' = "serving" /\ ~registerOnStart
    BY <1>8 DEF SkipRegistration
  <2>2. LifeTypeOK
    BY DEF HookInv, HookTypeOK
  <2>3. quiet' \in BOOLEAN
    BY <2>1, <2>2, Zenon DEF LifeTypeOK
  <2>4. LifeTypeOK'
    BY <1>1, <1>4, <2>1, <2>2, <2>3, LifeTyped DEF LifeTypeOK
  <2>5. LifeTells' /\ OneOpenClient' /\ ServesAsRegistered'
    BY <1>1, <1>2, <1>3, <2>1
       DEF HookInv, LifeTells, OneOpenClient, ServesAsRegistered, HandlerFound, setting, hookVars
  <2> QED
    BY <1>1, <2>1, <2>4, <2>5, LifeStep
<1>9. CASE Restart
  BY <1>1, <1>2, <1>3, <1>4, <1>9, OneTry, LifeStep
     DEF Restart, HookInv, HookTypeOK, LifeTypeOK, LifeTells, ServesAsRegistered,
         OneOpenClient, HandlerFound, setting, hookVars
<1> QED
  BY <1>5, <1>6, <1>7, <1>8, <1>9 DEF StartUp

LEMMA ShutDownKeeps ==
  ASSUME HookInv, NEW requestsEnded, requestsEnded => HooksEnded, ShutDown(requestsEnded)
  PROVE  HookInv'
<1> DEFINE forwarding == \E w \in Hooks : forward[w] \in {"spawned", "posting"}
<1>1. UNCHANGED hookVars /\ UNCHANGED <<setting, typeWebhook, try>>
  BY DEF ShutDown, Stop, ClosePortal, CloseDiagnosticClient
<1>2. phase \notin {"starting", "failed"} /\ phase' \notin {"starting", "failed"} /\ HooksEnded
  BY DEF ShutDown, Stop, ClosePortal, CloseDiagnosticClient, HookInv, LifeTells
<1>3. HooksEnded'
  BY <1>1, <1>2 DEF HooksEnded, hookVars
<1>4. ServesAsRegistered'
  BY <1>1, <1>2 DEF HookInv, ServesAsRegistered, HandlerFound, setting
<1>5. CASE Stop(requestsEnded)
  BY <1>1, <1>2, <1>3, <1>4, <1>5, LifeStep
     DEF Stop, HookInv, HookTypeOK, LifeTypeOK, LifeTells, OneOpenClient, setting, hookVars
<1>6. CASE ClosePortal(forwarding)
  <2>1. forwarding \in BOOLEAN
    OBVIOUS
  <2> QED
    BY <1>1, <1>2, <1>3, <1>4, <1>6, <2>1, LifeStep
       DEF ClosePortal, HookInv, HookTypeOK, LifeTypeOK, LifeTells, OneOpenClient, setting,
           hookVars
<1>7. CASE CloseDiagnosticClient
  <2>1. phase = "closing client" /\ phase' = "closed" /\ diagnostic' = "none"
    BY <1>7 DEF CloseDiagnosticClient
  <2>2. openClients = 1
    BY <2>1 DEF HookInv, LifeTells, OneOpenClient
  <2>3. openClients' = 0 /\ quiet' = quiet
    <3>1. openClients' = openClients - 1
      BY <1>7 DEF CloseDiagnosticClient
    <3>2. quiet' = quiet
      BY <1>7, Zenon DEF CloseDiagnosticClient
    <3> QED
      BY <2>2, <3>1, <3>2
  <2>4. typeWebhook' \in BOOLEAN /\ quiet' \in BOOLEAN
    BY <1>1, <2>3, Zenon DEF HookInv, HookTypeOK, LifeTypeOK
  <2>5. LifeTypeOK' /\ OneOpenClient'
    BY <1>1, <2>1, <2>3, <2>4, LifeTyped DEF HookInv, HookTypeOK, LifeTypeOK, OneOpenClient
  <2>6. LifeTells'
    BY <1>1, <1>2, <1>3, <2>1, <2>3 DEF HookInv, LifeTells, hookVars
  <2> QED
    BY <1>1, <1>4, <2>5, <2>6, LifeStep
<1> QED
  BY <1>5, <1>6, <1>7 DEF ShutDown

LEMMA HookInvStep == HookInv /\ [HookNext]_<<lifeVars, hookVars>> => HookInv'
<1> SUFFICES ASSUME HookInv, [HookNext]_<<lifeVars, hookVars>>
             PROVE  HookInv'
  OBVIOUS
<1>1. ASSUME NEW w \in Hooks, Receive(w) /\ UNCHANGED lifeVars PROVE HookInv'
  BY <1>1, ReceiveKeeps
<1>2. ASSUME NEW w \in Hooks, ProcessWebhook(w) \/ ForwardPayload(w) PROVE HookInv'
  BY <1>2, ProcessKeeps, ForwardKeeps
<1>3. CASE StartUp
  BY <1>3, StartUpKeeps
<1>4. CASE ShutDown(HooksEnded)
  BY <1>4, ShutDownKeeps
<1>5. CASE UNCHANGED <<lifeVars, hookVars>>
  BY <1>5 DEF lifeVars, setting, hookVars, HookInv, HookTypeOK, LifeTypeOK, LifeTells,
              HooksEnded, ServesAsRegistered, OneOpenClient, HandlerFound, Traced, AllBound
<1> QED
  BY <1>1, <1>2, <1>3, <1>4, <1>5 DEF HookNext

(* The webhook requests and their process, by themselves.                    *)
LEMMA HookInvAlways == HookSpec => []HookInv
BY HookInvInit, HookInvStep, PTL DEF HookSpec

-----------------------------------------------------------------------------
(* The service.  Where there is no action request, ActionRunner is at rest.  *)
LEMMA NoActionInv ==
  ASSUME msg = NoRequest, pc = "done", err = NoError, published = {}, outcome = "none",
         mishap = {}, faults = 0
  PROVE  IInv
<1>1. NoRequest \in Requests
  BY ServiceAssumption DEF NoRequest, Requests, Request
<1>2. err \in Error /\ ~(err # NoError) /\ faults \in 0..MaxFaults
  BY RunnerAssumption DEF NoError, Error, Parties
<1>3. TypeOK
  BY <1>1, <1>2 DEF TypeOK, Requests, Active
<1>4. \A type : ~Has(type)
  BY DEF Has
<1>5. PlaceTells
  BY <1>1 DEF PlaceTells, Active, Beyond
<1>6. AnsweredErrorIsReported /\ PushAckedOnlyBySuccess /\ SkipsOnlyOnSchedule
  BY <1>4 DEF AnsweredErrorIsReported, PushAckedOnlyBySuccess, SkipsOnlyOnSchedule, NoRequest
<1>7. OneVerdict /\ DetailsNotBlamed
  BY <1>4 DEF OneVerdict, DetailsNotBlamed
<1> QED
  BY <1>3, <1>5, <1>6, <1>7 DEF IInv

LEMMA ServiceInvInit == ServiceInit => ServiceInv
<1> SUFFICES ASSUME ServiceInit PROVE ServiceInv
  OBVIOUS
<1>1. HookInv /\ \A w \in Hooks : stage[w] = "new"
  BY HookInvInit DEF ServiceInit, HookInit
<1>2. IInv
  BY IInvInit, NoActionInv DEF ServiceInit
<1> QED
  BY <1>1, <1>2 DEF ServiceInv

LEMMA Stays ==
  ASSUME HookInv, UNCHANGED <<lifeVars, hookVars>>
  PROVE  HookInv'
BY HookInvStep

(* A process is replaced while no webhook has been received.                 *)
LEMMA RestartKeeps ==
  ASSUME HookInv, Restart, UNCHANGED hookVars, \A w \in Hooks : stage[w] = "new"
  PROVE  HookInv'
<1>1. UNCHANGED setting /\ UNCHANGED typeWebhook
  BY DEF Restart
<1>2. HooksEnded'
  BY DEF HooksEnded, hookVars
<1>3. typeWebhook' \in BOOLEAN
  BY <1>1, Zenon DEF HookInv, HookTypeOK, LifeTypeOK
<1> QED
  BY <1>1, <1>2, <1>3, OneTry, LifeStep
     DEF Restart, HookInv, HookTypeOK, LifeTypeOK, LifeTells, ServesAsRegistered,
         OneOpenClient, HandlerFound, setting, hookVars

LEMMA ServiceInvStep == ServiceInv /\ [ServiceNext]_serviceVars => ServiceInv'
<1> SUFFICES ASSUME ServiceInv, [ServiceNext]_serviceVars
             PROVE  ServiceInv'
  OBVIOUS
<1>0. IInv /\ HookInv /\ (~NoAction => \A w \in Hooks : stage[w] = "new")
  BY DEF ServiceInv
<1>1. CASE DeliverAction \/ ExecuteAction \/ CutShort
  <2>1. Next /\ UNCHANGED <<lifeVars, hookVars>>
    BY <1>1 DEF DeliverAction, ExecuteAction, CutShort, Next
  <2>2. pc # "done"
    BY <1>1 DEF DeliverAction, ExecuteAction, CutShort, Deliver, TurnAway, TimesOut, Execute,
                GetDetails, FindHandler, Stumble, ConfigAbsent, ConfigInvalid, Paused,
                DataInvalid, ConfigUsable, ConfigRaises, Throttle, Warn, LogStarted, RunHandler,
                LogComplete, LogFailed, HandleError
  <2>3. IInv' /\ HookInv'
    BY <1>0, <2>1, IInvStep, Stays
  <2> QED
    BY <1>0, <2>1, <2>2, <2>3 DEF ServiceInv, NoAction, hookVars
<1>2. CASE Die
  <2>1. pc # "done" /\ Next /\ Restart /\ UNCHANGED hookVars
    BY <1>2 DEF Die, Crash, Active, Next
  <2>2. \A w \in Hooks : stage[w] = "new"
    BY <1>0, <2>1 DEF NoAction
  <2>3. IInv' /\ HookInv'
    BY <1>0, <2>1, <2>2, IInvStep, RestartKeeps
  <2> QED
    BY <2>1, <2>2, <2>3 DEF ServiceInv, hookVars
<1>3. CASE ReplaceProcess
  <2>1. pc # "done" /\ Restart /\ UNCHANGED <<vars, hookVars>>
    BY <1>3 DEF ReplaceProcess
  <2>2. \A w \in Hooks : stage[w] = "new"
    BY <1>0, <2>1 DEF NoAction
  <2>3. IInv' /\ HookInv'
    BY <1>0, <2>1, <2>2, IInvStutter, RestartKeeps
  <2> QED
    BY <2>1, <2>2, <2>3 DEF ServiceInv, hookVars
<1>4. CASE ReceiveWebhook
  <2>1. NoAction /\ UNCHANGED vars
    BY <1>4 DEF ReceiveWebhook
  <2>2. HookNext
    BY <1>4 DEF ReceiveWebhook, HookNext
  <2>3. IInv' /\ HookInv' /\ NoAction'
    BY <1>0, <2>1, <2>2, IInvStutter, HookInvStep DEF NoAction, vars
  <2> QED
    BY <2>3 DEF ServiceInv
<1>5. ASSUME NEW w \in Hooks, Webhook(w)
      PROVE  ServiceInv'
  <2>1. UNCHANGED vars /\ ProcessWebhook(w) /\ HookNext
    BY <1>5 DEF Webhook, HookNext
  <2>2. stage[w] # "new"
    BY <2>1 DEF ProcessWebhook, GetIntegration, ReportLookup, GetHandler, ParseConfig,
         ParsePayload, ReportPayload, LogWebhookStarted, RunWebhookHandler,
         LogWebhookFailed, LogWebhookComplete, HandleException
  <2>3. IInv' /\ HookInv' /\ NoAction'
    BY <1>0, <2>1, <2>2, IInvStutter, HookInvStep DEF NoAction, vars
  <2> QED
    BY <2>3 DEF ServiceInv
<1>6. CASE Forwarding \/ StartProcess \/ EndProcess
  <2>1. UNCHANGED vars /\ stage' = stage
    BY <1>6 DEF Forwarding, StartProcess, EndProcess, ForwardPayload, ForwardRefused, ForwardPosts,
                ForwardEnds, StartUp, ShutDown, hookVars
  <2>2. HookInv'
    BY <1>0, <1>6, ForwardKeeps, StartUpKeeps, ShutDownKeeps
       DEF Forwarding, StartProcess, EndProcess
  <2>3. IInv' /\ (NoAction' <=> NoAction)
    BY <1>0, <2>1, IInvStutter DEF NoAction, vars
  <2> QED
    BY <1>0, <2>1, <2>2, <2>3 DEF ServiceInv
<1>7. CASE UNCHANGED serviceVars
  <2>1. UNCHANGED vars /\ UNCHANGED <<lifeVars, hookVars>>
    BY <1>7 DEF serviceVars
  <2>2. IInv' /\ HookInv'
    BY <1>0, <2>1, IInvStutter, Stays
  <2> QED
    BY <1>0, <2>1, <2>2 DEF ServiceInv, NoAction, vars, hookVars
<1> QED
  BY <1>1, <1>2, <1>3, <1>4, <1>5, <1>6, <1>7 DEF ServiceNext

LEMMA ServiceInvAlways == ServiceSpec => []ServiceInv
BY ServiceInvInit, ServiceInvStep, PTL DEF ServiceSpec

-----------------------------------------------------------------------------
(* Type correctness of the webhook requests and the process, for any         *)
(* requests and number of attempts to register.                              *)
THEOREM ServiceTypeCorrect == ServiceSpec => []ServiceTypeOK
<1>1. ServiceInv => ServiceTypeOK
  BY DEF ServiceInv, IInv, HookInv, ServiceTypeOK
<1> QED
  BY <1>1, ServiceInvAlways, PTL

(* A webhook request that went wrong and is answered as usual left a failure *)
(* in the feed (webhooks.py:212-257).                                        *)
THEOREM AnswersHideNothing == ServiceSpec => []NoFailureHidden
<1>1. ServiceInv => NoFailureHidden
  BY HookInvImplies DEF ServiceInv
<1> QED
  BY <1>1, ServiceInvAlways, PTL

(* What keeps a failed webhook request out of the feed: publishing, a body   *)
(* that is not JSON, or a type without a webhook (webhooks.py:230-256).      *)
THEOREM UnreportedForAReason == ServiceSpec => []UnreportedOnlyIf
<1>1. ServiceInv => UnreportedOnlyIf
  BY HookInvImplies DEF ServiceInv
<1> QED
  BY <1>1, ServiceInvAlways, PTL

(* A webhook handler's run has one verdict (activity_logger.py:200-231).     *)
THEOREM HookVerdictsAgree == ServiceSpec => []OneHookVerdict
<1>1. ServiceInv => OneHookVerdict
  BY HookInvImplies DEF ServiceInv
<1> QED
  BY <1>1, ServiceInvAlways, PTL

(* A process that registers on start serves only what the portal knows, for  *)
(* any number of attempts (main.py:26-29, self_registration.py:89-113).      *)
THEOREM RegistersFirst == ServiceSpec => []ServesAsRegistered
<1>1. ServiceInv => ServesAsRegistered
  BY HookInvImplies DEF ServiceInv
<1> QED
  BY <1>1, ServiceInvAlways, PTL

(* At most one diagnostic client is open, and none once a quiet shutdown has *)
(* ended, for any number of forwards (webhooks.py:23-34, main.py:31-32).     *)
THEOREM ClientsAreClosed == ServiceSpec => [](OneOpenClient /\ ClosedAtExit)
<1>1. ServiceInv => OneOpenClient /\ ClosedAtExit
  BY HookInvImplies DEF ServiceInv
<1> QED
  BY <1>1, ServiceInvAlways, PTL

-----------------------------------------------------------------------------
(* The runner in the service.  Whatever else the process does, what becomes  *)
(* of an action request is a behaviour of ActionRunner.                      *)
AtRest == pc = "done" /\ published = {} /\ outcome = "none"

LEMMA RunnerStep == [ServiceNext]_serviceVars => [Next]_vars
<1> SUFFICES ASSUME [ServiceNext]_serviceVars PROVE [Next]_vars
  OBVIOUS
<1>1. CASE DeliverAction \/ ExecuteAction \/ CutShort \/ Die
  BY <1>1 DEF DeliverAction, ExecuteAction, CutShort, Die, Next
<1>2. CASE \/ ReceiveWebhook \/ (\E w \in Hooks : Webhook(w)) \/ Forwarding
           \/ StartProcess \/ ReplaceProcess \/ EndProcess
  <2>1. UNCHANGED vars
    BY <1>2 DEF ReceiveWebhook, Webhook, Forwarding, StartProcess, ReplaceProcess, EndProcess
  <2> QED
    BY <2>1
<1>3. CASE UNCHANGED serviceVars
  BY <1>3 DEF serviceVars
<1> QED
  BY <1>1, <1>2, <1>3 DEF ServiceNext

(* Composing the runner with the process and its webhooks adds nothing to    *)
(* what it does to a request (main.py:60-134).                               *)
THEOREM ServiceRunsTheRunner == ServiceSpec => (Init \/ AtRest) /\ [][Next]_vars
<1>1. ServiceInit => Init \/ AtRest
  BY DEF ServiceInit, AtRest
<1> QED
  BY <1>1, RunnerStep, PTL DEF ServiceSpec

(* So the runner's promises hold in the service, while processes start, fail *)
(* to register, serve webhooks, end and are replaced: failures are reported  *)
(* before they are answered, pushed data that names its destination waits    *)
(* for a run that succeeds, only scheduled pulls are skipped, a run has one  *)
(* verdict, and the portal's failures are told apart.                        *)
THEOREM ServiceKeepsItsWord ==
  ServiceSpec => [](/\ AnsweredErrorIsReported /\ PushAckedOnlyBySuccess
                    /\ SkipsOnlyOnSchedule /\ OneVerdict /\ DetailsNotBlamed)
BY ServiceInvAlways, PTL DEF ServiceInv, IInv

(* The service implements the ledger of the request it was sent.             *)
THEOREM ServiceLedger == ServiceSpec => ImplementsLedger
<1>1. ServiceInit => LedgerInv /\ Ledger!LedgerInit
  <2> SUFFICES ASSUME ServiceInit PROVE LedgerInv /\ Ledger!LedgerInit
    OBVIOUS
  <2>1. IInv
    BY ServiceInvInit DEF ServiceInv
  <2>2. pc \in {"queued", "done"} /\ published = {} /\ outcome = "none" /\ mishap = {}
    BY DEF ServiceInit, Init
  <2> QED
    BY <2>1, <2>2, LedgerStart
<1> QED
  BY <1>1, LedgerStep, RunnerStep, PTL DEF ServiceSpec, ImplementsLedger, Ledger!LedgerSpec
=============================================================================
