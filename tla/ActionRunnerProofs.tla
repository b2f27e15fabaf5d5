-------------------------- MODULE ActionRunnerProofs --------------------------
(***************************************************************************)
(* Theorems about ActionRunner, for any routes and faults: IInv is         *)
(* inductive, and implies what the runs check; and a run implements the    *)
(* RequestLedger.                                                          *)
(***************************************************************************)
EXTENDS ActionRunner, TLAPS

(* What the properties rest on: where a run is tells what can have been      *)
(* published and can have gone wrong until then.                             *)
Disturbed == mishap \cap {"publish", "timeout"} # {}

(* Where only a well-formed request gets.                                    *)
Beyond == {"throttle", "warn", "start", "run", "logfail", "logdone", "report_handler"}

PlaceTells ==
  /\ msg \in Requests
  /\ pc \in Active => outcome = "none" /\ msg.body \in {"good", "odd"}
  /\ pc \in Beyond => msg.body = "good"
  /\ pc \in {"throttle", "warn"} => SkippablePull
  /\ pc = "details" => published = {} /\ mishap = {}
  /\ pc \in {"start", "logfail", "logdone"} => msg.logged
  /\ pc \in {"run", "logfail", "logdone", "report_handler"} /\ msg.logged /\ mishap = {} =>
       Has("Started")
  /\ pc = "report_outside" /\ SkippablePull => mishap # {}
  /\ pc \in Active /\ Has("Complete") => Disturbed
  /\ pc \in Active \ {"report_handler"} /\ Has("Failed") => Disturbed
  /\ pc \in Active /\ "details" \in mishap => pc = "report_outside" /\ err = PortalError

IInv ==
  /\ TypeOK /\ PlaceTells
  /\ AnsweredErrorIsReported /\ PushAckedOnlyBySuccess /\ SkipsOnlyOnSchedule
  /\ OneVerdict /\ DetailsNotBlamed

-----------------------------------------------------------------------------

Types == {"Started", "Complete", "Failed", "Warning"}

LEMMA PlainEvent ==
  ASSUME NEW type \in Types
  PROVE  Plain(type) \in Event /\ Plain(type).type = type /\ Plain(type).blamed = FALSE
BY DEF Types, Plain, Event, Parties

LEMMA FailedEvent ==
  ASSUME NEW e \in Error, NEW heuristics \in BOOLEAN
  PROVE  /\ Failed(e, heuristics) \in Event
         /\ Failed(e, heuristics).type = "Failed"
         /\ ~heuristics /\ e.form # "explicit" => Failed(e, heuristics).blamed = FALSE
BY DEF Failed, Event, Error

(* The exceptions are told apart from none.                                  *)
LEMMA Errors ==
  /\ NoError \in Error
  /\ \A x \in {PortalError, RunnerError, TimeoutError} \cup PubSubErrors \cup HandlerErrors :
       x \in Error /\ x # NoError
  /\ PortalError.form # "explicit"
BY DEF NoError, Error, Parties, PortalError, RunnerError, TimeoutError, PubSubErrors,
       HandlerErrors

(* What a fault adds.                                                        *)
LEMMA FaultCounts ==
  ASSUME TypeOK, NEW kind, Fault(kind)
  PROVE  /\ mishap' \subseteq Faults /\ faults' \in 0..MaxFaults
         /\ mishap' = mishap \cup {kind}
BY RunnerAssumption DEF TypeOK, Fault

(* What publishing an event adds.                                            *)
LEMMA Publishing ==
  ASSUME published \subseteq Event, NEW E \in SUBSET Event, published' = published \cup E
  PROVE  /\ published' \subseteq Event
         /\ \A type \in Types : Has(type)' <=> Has(type) \/ \E e \in E : e.type = type
BY DEF Has

-----------------------------------------------------------------------------
LEMMA IInvInit == Init => IInv
<1> SUFFICES ASSUME Init PROVE IInv
  OBVIOUS
<1>1. TypeOK
  BY RunnerAssumption, Errors DEF Init, Requests, TypeOK
<1>2. PlaceTells
  BY DEF Init, PlaceTells, Active, Beyond, Has
<1> QED
  BY <1>1, <1>2 DEF Init, IInv, AnsweredErrorIsReported, PushAckedOnlyBySuccess,
                    SkipsOnlyOnSchedule, OneVerdict, DetailsNotBlamed, Has

(* A run goes on without publishing anything.                                *)
LEMMA Goes ==
  ASSUME IInv, UNCHANGED <<msg, published, outcome, mishap, faults>>,
         pc \in Active, pc' \in Active,
         err' \in Error, err' # NoError <=> pc' \in {"logfail", "report_outside", "report_handler"},
         pc' # "details",
         pc' \in Beyond => msg.body = "good",
         pc' \in {"throttle", "warn"} => SkippablePull,
         pc' \in {"start", "logfail", "logdone"} => msg.logged,
         pc' \in {"run", "logfail", "logdone", "report_handler"} /\ msg.logged =>
           Has("Started") \/ mishap # {},
         pc' = "report_outside" /\ SkippablePull => mishap # {},
         "details" \notin mishap,
         pc # "report_handler"
  PROVE  IInv'
<1>1. TypeOK'
  BY DEF IInv, TypeOK, Active
<1>2. \A type \in Types : Has(type)' <=> Has(type)
  BY DEF Has
<1>3. PlaceTells'
  BY <1>2 DEF IInv, PlaceTells, SkippablePull, Disturbed, Types
<1> QED
  BY <1>1, <1>2, <1>3 DEF IInv, PlaceTells, AnsweredErrorIsReported, PushAckedOnlyBySuccess,
       SkipsOnlyOnSchedule, OneVerdict, DetailsNotBlamed, Types, Active

LEMMA DeliverStep == ASSUME IInv, Deliver PROVE IInv'
<1>1. /\ msg' = msg /\ pc' = "details" /\ published' = {} /\ outcome' = "none"
      /\ mishap' = {} /\ faults' = faults /\ err' = err /\ err = NoError
  BY DEF Deliver, Goto, IInv, TypeOK
<1>2. TypeOK'
  BY <1>1 DEF IInv, TypeOK, Active
<1>3. \A type \in Types : ~Has(type)'
  BY <1>1 DEF Has
<1>4. PlaceTells'
  BY <1>1, <1>3 DEF IInv, PlaceTells, Types, Beyond, Deliver
<1> QED
  BY <1>1, <1>2, <1>3, <1>4 DEF IInv, AnsweredErrorIsReported, PushAckedOnlyBySuccess,
       SkipsOnlyOnSchedule, OneVerdict, DetailsNotBlamed, Types

(* Whom a request that is turned away is acknowledged to.                    *)
LEMMA TurnAwayStep == ASSUME IInv, TurnAway PROVE IInv'
<1>1. /\ msg' = msg /\ pc' \in {"done", "queued"} /\ published' = {} /\ err' = NoError
      /\ mishap' = {} /\ faults' = faults /\ outcome' \in {"dropped", "refused", "raised"}
  BY DEF TurnAway, Answer, Goto
<1>2. TypeOK'
  BY <1>1, Errors DEF IInv, TypeOK, Active
<1>3. \A type \in Types : ~Has(type)'
  BY <1>1 DEF Has
<1>4. PlaceTells'
  BY <1>1 DEF IInv, PlaceTells, Active, Beyond
<1>5. PushAckedOnlyBySuccess'
  BY <1>1 DEF TurnAway, Answer, Acked, Goto, PushAckedOnlyBySuccess, IInv, PlaceTells, Requests
<1> QED
  BY <1>1, <1>2, <1>3, <1>4, <1>5 DEF IInv, AnsweredErrorIsReported, SkipsOnlyOnSchedule,
       OneVerdict, DetailsNotBlamed, Types

LEMMA FindHandlerStep == ASSUME IInv, FindHandler PROVE IInv'
<1>1. pc = "lookup" /\ "details" \notin mishap /\ err = NoError
  BY DEF FindHandler, IInv, TypeOK, PlaceTells, Active
<1>2. msg.pull => msg.known
  BY DEF IInv, PlaceTells, Requests
<1>3. \/ pc' = "config" /\ err' = NoError
      \/ pc' = "report_outside" /\ err' = RunnerError /\ ~msg.pull
  BY <1>1, <1>2 DEF FindHandler, Goto, Raise
<1> QED
  BY <1>1, <1>3, Errors, Goes DEF FindHandler, Active, Beyond, SkippablePull

LEMMA GetDetailsStep == ASSUME IInv, GetDetails PROVE IInv'
<1>1. /\ pc = "details" /\ published = {} /\ mishap = {} /\ err = NoError
      /\ outcome = "none" /\ UNCHANGED <<msg, published, outcome>>
  BY DEF GetDetails, IInv, TypeOK, PlaceTells, Active
<1>2. CASE Goto("lookup") /\ UNCHANGED err /\ NoFault
  BY <1>1, <1>2, Errors, Goes DEF Goto, NoFault, Active, Beyond
<1>3. CASE Fault("details") /\ Raise(PortalError, "report_outside")
  <2>1. TypeOK'
    BY <1>1, <1>3, FaultCounts, Errors DEF IInv, TypeOK, Raise, Goto, Active
  <2>2. \A type \in Types : ~Has(type)'
    BY <1>1 DEF Has
  <2>3. PlaceTells'
    BY <1>1, <1>3, <2>2 DEF IInv, PlaceTells, Types, Beyond, Active, Fault, Raise, Goto
  <2> QED
    BY <1>1, <1>3, <2>1, <2>2, <2>3 DEF IInv, AnsweredErrorIsReported, PushAckedOnlyBySuccess,
         SkipsOnlyOnSchedule, OneVerdict, DetailsNotBlamed, Types, Raise, Goto
<1> QED
  BY <1>2, <1>3 DEF GetDetails

(* The run ends, having published the events in E.                           *)
LEMMA Settles ==
  ASSUME IInv, msg' = msg, pc \in Active,
         NEW E \in SUBSET Event, published' = published \cup E,
         mishap \subseteq mishap', mishap' \subseteq Faults, faults' \in 0..MaxFaults,
         "details" \in mishap' => "details" \in mishap,
         NEW result \in {"ok", "skipped", "error", "raised"}, Answer(result),
         result = "skipped" => SkippablePull,
         result = "error" => \E e \in E : e.type = "Failed",
         \A e \in E : e.type = "Complete" => pc = "logdone",
         \A e \in E : e.type = "Failed" =>
           pc \in {"report_outside", "report_handler", "logfail"},
         pc = "report_outside" /\ err = PortalError => \A e \in E : ~e.blamed
  PROVE  IInv'
<1>1. pc' \in {"done", "queued"} /\ outcome' = result /\ err' = NoError
  BY DEF Answer, Goto
<1>2. published' \subseteq Event
      /\ \A type \in Types : Has(type)' <=> Has(type) \/ \E e \in E : e.type = type
  BY Publishing DEF IInv, TypeOK
<1>3. TypeOK'
  BY <1>1, <1>2, Errors DEF IInv, TypeOK, Active
<1>4. PlaceTells'
  BY <1>1 DEF IInv, PlaceTells, Active, Beyond
<1>5. AnsweredErrorIsReported'
  BY <1>1, <1>2 DEF AnsweredErrorIsReported, Types
<1>6. PushAckedOnlyBySuccess'
  BY <1>1 DEF IInv, PlaceTells, Requests, SkippablePull, PushAckedOnlyBySuccess, Answer, Acked, Goto
<1>7. SkipsOnlyOnSchedule'
  <2>1. ASSUME msg.pull, ~msg.manual, mishap' = {}, Has("Failed")'
        PROVE  Has("Started")'
    <3>1. mishap = {} /\ msg.logged /\ SkippablePull
      BY <2>1 DEF IInv, PlaceTells, Requests, SkippablePull
    <3>2. CASE Has("Failed")
      BY <1>2, <2>1, <3>1, <3>2 DEF IInv, SkipsOnlyOnSchedule, Types
    <3>3. CASE pc \in {"report_outside", "report_handler", "logfail"}
      BY <1>2, <2>1, <3>1, <3>3 DEF IInv, PlaceTells, Types
    <3> QED
      BY <1>2, <2>1, <3>2, <3>3 DEF Types
  <2> QED
    BY <1>1, <2>1 DEF SkipsOnlyOnSchedule, SkippablePull
<1>8. OneVerdict'
  <2>1. ASSUME Has("Complete")', Has("Failed")' PROVE Disturbed
    BY <1>2, <2>1 DEF IInv, PlaceTells, Types, Active
  <2> QED
    BY <2>1 DEF OneVerdict, Disturbed
<1>9. DetailsNotBlamed'
  BY DEF IInv, PlaceTells, DetailsNotBlamed
<1> QED
  BY <1>3, <1>4, <1>5, <1>6, <1>7, <1>8, <1>9 DEF IInv

(* The run ends without publishing anything.                                 *)
LEMMA Ends ==
  ASSUME IInv, UNCHANGED <<msg, published>>, pc \in Active,
         mishap \subseteq mishap', mishap' \subseteq Faults, faults' \in 0..MaxFaults,
         "details" \in mishap' => "details" \in mishap,
         NEW result \in {"ok", "skipped", "raised"}, Answer(result),
         result = "skipped" => SkippablePull
  PROVE  IInv'
<1>1. {} \in SUBSET Event /\ published' = published \cup {}
  OBVIOUS
<1> QED
  BY <1>1, Settles

LEMMA StumbleStep == ASSUME IInv, Stumble PROVE IInv'
<1>1. pc \in Active /\ UNCHANGED <<msg, published, mishap, faults>> /\ Answer("raised")
  BY DEF Stumble, Active
<1>2. mishap \subseteq Faults /\ faults \in 0..MaxFaults
  BY DEF IInv, TypeOK
<1> QED
  BY <1>1, <1>2, Ends

LEMMA ConfigSteps ==
  ASSUME IInv, \/ ConfigAbsent \/ ConfigInvalid \/ Paused \/ DataInvalid
               \/ ConfigUsable \/ ConfigRaises
  PROVE  IInv'
<1>1. pc = "config" /\ "details" \notin mishap /\ err = NoError /\ UNCHANGED <<msg, published>>
  BY DEF ConfigAbsent, ConfigInvalid, Paused, DataInvalid, ConfigUsable, ConfigRaises,
         IInv, TypeOK, PlaceTells, Active
<1>2. TypeOK
  BY DEF IInv
<1>9. ConfigInvalid \/ ConfigUsable => msg.body = "good"
  BY <1>1 DEF ConfigInvalid, ConfigUsable, IInv, PlaceTells, Active
<1>3. CASE ConfigAbsent
  <2>1. CASE SkippablePull
    BY <1>1, <1>2, <1>3, <2>1, Ends DEF ConfigAbsent, Active, TypeOK
  <2>2. CASE ~SkippablePull
    BY <1>1, <1>3, <2>2, Errors, Goes DEF ConfigAbsent, Active, Beyond, Raise, Goto
  <2> QED
    BY <2>1, <2>2
<1>4. CASE ConfigInvalid
  BY <1>1, <1>4, <1>9, Errors, Goes DEF ConfigInvalid, Active, Raise, Goto
<1>5. CASE Paused
  BY <1>1, <1>2, <1>5, Ends DEF Paused, Active, TypeOK
<1>6. CASE DataInvalid
  <2>1. ~msg.pull
    BY <1>6 DEF DataInvalid, IInv, PlaceTells, Requests
  <2> QED
    BY <1>1, <1>6, <2>1, Errors, Goes DEF DataInvalid, Active, Beyond, Raise, Goto, SkippablePull
<1>7. CASE ConfigUsable
  BY <1>1, <1>7, <1>9, Errors, Goes DEF ConfigUsable, Active, Goto
<1>8. CASE ConfigRaises
  BY <1>1, <1>2, <1>8, FaultCounts, Ends DEF ConfigRaises, Active
<1> QED
  BY <1>3, <1>4, <1>5, <1>6, <1>7, <1>8

(* A message that has been answered is queued again or done.                 *)
LEMMA ThrottleStep == ASSUME IInv, Throttle PROVE IInv'
<1>1. /\ pc = "throttle" /\ "details" \notin mishap /\ err = NoError
      /\ UNCHANGED <<msg, published>> /\ SkippablePull /\ outcome = "none" /\ TypeOK
      /\ msg.body = "good"
  BY DEF Throttle, IInv, TypeOK, PlaceTells, Active, Beyond
<1>2. CASE Goto("warn") /\ UNCHANGED <<err, outcome>> /\ NoFault
  BY <1>1, <1>2, Errors, Goes DEF Goto, NoFault, Active
<1>3. CASE Answer("skipped") /\ NoFault
  BY <1>1, <1>3, Ends DEF NoFault, Active, TypeOK
<1>4. CASE Goto("warn") /\ UNCHANGED <<err, outcome>> /\ Fault("store")
  <2>1. TypeOK'
    BY <1>1, <1>4, FaultCounts DEF Goto, TypeOK, Active
  <2>2. \A type \in Types : Has(type)' <=> Has(type)
    BY <1>1 DEF Has
  <2>3. pc' = "warn" /\ outcome' = "none" /\ mishap' = mishap \cup {"store"}
    BY <1>1, <1>4 DEF Goto, Fault
  <2>4. PlaceTells'
    BY <1>1, <2>2, <2>3 DEF IInv, PlaceTells, SkippablePull, Disturbed, Types, Active
  <2> QED
    BY <1>1, <2>1, <2>2, <2>3, <2>4 DEF IInv, AnsweredErrorIsReported, PushAckedOnlyBySuccess,
         SkipsOnlyOnSchedule, OneVerdict, DetailsNotBlamed, Types
<1> QED
  BY <1>2, <1>3, <1>4 DEF Throttle

-----------------------------------------------------------------------------
(* Inside wait_for the run goes on, having published the events in E.        *)
LEMMA GoesOn ==
  ASSUME IInv, UNCHANGED <<msg, outcome>>,
         pc \in {"start", "run", "logfail", "logdone"}, pc' \in {"run", "report_handler"},
         err' \in Error, err' # NoError <=> pc' = "report_handler",
         NEW E \in SUBSET Event, published' = published \cup E,
         mishap \subseteq mishap', mishap' \subseteq Faults, faults' \in 0..MaxFaults,
         "details" \notin mishap',
         msg.logged => Has("Started")' \/ mishap' # {},
         (\E e \in E : e.type = "Complete") => Disturbed',
         (\E e \in E : e.type = "Failed") => pc' = "report_handler"
  PROVE  IInv'
<1>1. published' \subseteq Event
      /\ \A type \in Types : Has(type)' <=> Has(type) \/ \E e \in E : e.type = type
  BY Publishing DEF IInv, TypeOK
<1>2. TypeOK'
  BY <1>1 DEF IInv, TypeOK, Active
<1>3. Disturbed => Disturbed'
  BY DEF Disturbed
<1>4. outcome' = "none"
  BY DEF IInv, PlaceTells, Active
<1>5. Has("Complete")' => Disturbed'
  BY <1>1, <1>3 DEF IInv, PlaceTells, Types, Active
<1>6. PlaceTells'
  <2>1. pc' # "report_handler" /\ Has("Failed")' => Disturbed'
    BY <1>1, <1>3 DEF IInv, PlaceTells, Types, Active
  <2> QED
    BY <1>4, <1>5, <2>1 DEF IInv, PlaceTells, Active, Beyond
<1>7. SkipsOnlyOnSchedule'
  BY <1>4 DEF IInv, PlaceTells, Requests, SkipsOnlyOnSchedule
<1>8. OneVerdict'
  BY <1>5 DEF OneVerdict, Disturbed
<1> QED
  BY <1>2, <1>4, <1>6, <1>7, <1>8 DEF IInv, AnsweredErrorIsReported, PushAckedOnlyBySuccess,
       DetailsNotBlamed

(* Where an action is cut short nothing has gone wrong with its details.     *)
LEMMA Inside ==
  ASSUME IInv, pc \in Active \ {"report_outside"}
  PROVE  /\ "details" \notin mishap /\ outcome = "none" /\ TypeOK /\ err \in Error
         /\ published \subseteq Event /\ mishap \subseteq Faults /\ faults \in 0..MaxFaults
         /\ pc \notin {"logfail", "report_handler"} => err = NoError
BY DEF IInv, TypeOK, PlaceTells

LEMMA PublishAdds ==
  ASSUME NEW e \in Event, published \subseteq Event, Publish(e)
  PROVE  {e} \in SUBSET Event /\ published' = published \cup {e} /\ UNCHANGED <<mishap, faults>>
BY DEF Publish, NoFault

(* A publish that raises may have been accepted.                             *)
LEMMA PublishRaisesAdds ==
  ASSUME TypeOK, NEW e \in Event, PublishRaises(e)
  PROVE  /\ \E E \in SUBSET {e} : published' = published \cup E
         /\ mishap' = mishap \cup {"publish"} /\ mishap' \subseteq Faults
         /\ faults' \in 0..MaxFaults
         /\ Disturbed'
<1>1. \E E \in SUBSET {e} : published' = published \cup E
  <2>1. CASE published' = published
    BY <2>1, {} \in SUBSET {e}
  <2>2. CASE published' = published \cup {e}
    BY <2>2, {e} \in SUBSET {e}
  <2> QED
    BY <2>1, <2>2 DEF PublishRaises
<1>2. mishap' = mishap \cup {"publish"} /\ mishap' \subseteq Faults /\ faults' \in 0..MaxFaults
  BY FaultCounts DEF PublishRaises
<1> QED
  BY <1>1, <1>2 DEF Disturbed

LEMMA WarnStep == ASSUME IInv, Warn PROVE IInv'
<1> DEFINE e == Plain("Warning")
<1>1. pc = "warn" /\ msg' = msg /\ SkippablePull /\ TypeOK
  BY DEF Warn, IInv, PlaceTells
<1>2. e \in Event /\ e.type = "Warning"
  BY PlainEvent DEF Types
<1>3. CASE Publish(e) /\ Answer("skipped")
  BY <1>1, <1>2, <1>3, PublishAdds, Settles DEF TypeOK, Active
<1>4. CASE PublishRaises(e) /\ Answer("raised")
  <2>1. PICK E \in SUBSET {e} : published' = published \cup E
    BY <1>1, <1>2, <1>4, PublishRaisesAdds
  <2> QED
    BY <1>1, <1>2, <1>4, <2>1, PublishRaisesAdds, Settles DEF Active
<1> QED
  BY <1>1, <1>3, <1>4 DEF Warn

(* activity_logger's publish raises, which the runner handles.               *)
LEMMA LoggerRaisesStep ==
  ASSUME IInv, pc \in {"start", "logdone", "logfail"}, msg' = msg,
         NEW e \in Event, LoggerRaises(e)
  PROVE  IInv'
<1>1. /\ pc' = "report_handler" /\ outcome' = outcome /\ PublishRaises(e)
      /\ err' \in Error /\ err' # NoError
  BY Errors DEF LoggerRaises, Raise, Goto
<1>2. TypeOK /\ "details" \notin mishap
  BY Inside DEF Active
<1>3. PICK E \in SUBSET {e} : published' = published \cup E
  BY <1>1, <1>2, PublishRaisesAdds
<1>4. mishap' # {} /\ "details" \notin mishap' /\ mishap \subseteq mishap'
  BY <1>1, <1>2, PublishRaisesAdds
<1> QED
  BY <1>1, <1>2, <1>3, <1>4, PublishRaisesAdds, GoesOn

LEMMA LogStartedStep == ASSUME IInv, LogStarted PROVE IInv'
<1> DEFINE e == Plain("Started")
<1>1. pc = "start" /\ msg' = msg
  BY DEF LogStarted
<1>2. e \in Event /\ e.type = "Started"
  BY PlainEvent DEF Types
<1>3. CASE Publish(e) /\ Goto("run") /\ UNCHANGED <<err, outcome>>
  <2>1. published' = published \cup {e} /\ UNCHANGED <<mishap, faults>>
    BY <1>1, <1>2, <1>3, Inside, PublishAdds DEF Active
  <2>2. Has("Started")'
    BY <1>2, <2>1 DEF Has
  <2>3. /\ pc' = "run" /\ err' = NoError /\ outcome' = outcome /\ {e} \in SUBSET Event
        /\ "details" \notin mishap' /\ mishap' \subseteq Faults /\ faults' \in 0..MaxFaults
    BY <1>1, <1>2, <1>3, <2>1, Inside DEF Goto, Active
  <2> QED
    BY <1>1, <1>2, <2>1, <2>2, <2>3, Errors, GoesOn
<1> QED
  BY <1>1, <1>2, <1>3, LoggerRaisesStep DEF LogStarted

LEMMA LogCompleteStep == ASSUME IInv, LogComplete PROVE IInv'
<1> DEFINE e == Plain("Complete")
<1>1. pc = "logdone" /\ msg' = msg
  BY DEF LogComplete
<1>2. e \in Event /\ e.type = "Complete"
  BY PlainEvent DEF Types
<1>3. CASE Publish(e) /\ Answer("ok")
  BY <1>1, <1>2, <1>3, Inside, PublishAdds, Settles DEF Active
<1> QED
  BY <1>1, <1>2, <1>3, LoggerRaisesStep DEF LogComplete

LEMMA LogFailedStep == ASSUME IInv, LogFailed PROVE IInv'
<1> DEFINE e == Failed(err, TRUE)
<1>1. pc = "logfail" /\ msg' = msg /\ err \in Error /\ err # NoError /\ msg.logged
  BY DEF LogFailed, IInv, TypeOK, PlaceTells
<1>2. e \in Event /\ e.type = "Failed"
  BY <1>1, FailedEvent
<1>3. CASE Publish(e) /\ Goto("report_handler") /\ UNCHANGED <<err, outcome>>
  <2>1. published' = published \cup {e} /\ UNCHANGED <<mishap, faults>>
    BY <1>1, <1>2, <1>3, Inside, PublishAdds DEF Active
  <2>2. Has("Started")' \/ mishap' # {}
    BY <1>1, <2>1 DEF Has, IInv, PlaceTells
  <2>3. /\ pc' = "report_handler" /\ err' = err /\ outcome' = outcome /\ {e} \in SUBSET Event
        /\ "details" \notin mishap' /\ mishap' \subseteq Faults /\ faults' \in 0..MaxFaults
    BY <1>1, <1>2, <1>3, <2>1, Inside DEF Goto, Active
  <2> QED
    BY <1>1, <1>2, <2>1, <2>2, <2>3, GoesOn
<1> QED
  BY <1>1, <1>2, <1>3, LoggerRaisesStep DEF LogFailed

LEMMA RunHandlerStep == ASSUME IInv, RunHandler PROVE IInv'
<1>1. pc = "run" /\ UNCHANGED <<msg, published, mishap, faults>>
  BY DEF RunHandler
<1>2. /\ "details" \notin mishap /\ err = NoError /\ TypeOK
      /\ mishap \subseteq Faults /\ faults \in 0..MaxFaults
  BY <1>1, Inside DEF Active
<1>3. msg.body = "good" /\ (msg.logged => Has("Started") \/ mishap # {})
  BY <1>1 DEF IInv, PlaceTells, Beyond
<1>4. CASE msg.logged /\ Goto("logdone") /\ UNCHANGED <<err, outcome>>
  BY <1>1, <1>2, <1>3, <1>4, Errors, Goes DEF Goto, Active
<1>5. CASE ~msg.logged /\ Answer("ok")
  BY <1>1, <1>2, <1>5, Ends DEF Active
<1>6. ASSUME NEW x \in HandlerErrors, UNCHANGED outcome,
             Raise(x, IF msg.logged THEN "logfail" ELSE "report_handler")
      PROVE  IInv'
  BY <1>1, <1>2, <1>3, <1>6, Errors, Goes DEF Raise, Goto, Active
<1> QED
  BY <1>4, <1>5, <1>6 DEF RunHandler

-----------------------------------------------------------------------------
(* What a publish that is cut short may leave.                               *)
LEMMA InFlightEvents ==
  ASSUME IInv, pc \in Active, published' \in {published, published \cup InFlight}
  PROVE  \E E \in SUBSET Event :
           /\ published' = published \cup E
           /\ \A e \in E : e.type = "Complete" => pc = "logdone"
           /\ \A e \in E : e.type = "Failed" =>
                pc \in {"report_outside", "report_handler", "logfail"}
           /\ pc = "report_outside" /\ err = PortalError => \A e \in E : ~e.blamed
<1>1. PICK E \in {{}, InFlight} : published' = published \cup E
  BY {} \in {{}, InFlight}
<1>2. E \subseteq InFlight /\ E \in SUBSET Event
  BY DEF InFlight
<1>3. /\ Plain("Started").type = "Started" /\ Plain("Complete").type = "Complete"
      /\ Plain("Warning").type = "Warning"
  BY DEF Plain
<1>4. pc = "report_outside" /\ err = PortalError => ~Failed(err, ClassifyHeuristics).blamed
  BY Errors DEF Failed, ClassifyHeuristics
<1>5. \A h \in BOOLEAN : Failed(err, h).type = "Failed"
  BY DEF Failed
<1>6. \A e \in InFlight :
        /\ e.type = "Complete" => pc = "logdone"
        /\ e.type = "Failed" => pc \in {"report_outside", "report_handler", "logfail"}
        /\ pc = "report_outside" => e = Failed(err, ClassifyHeuristics)
  BY <1>3, <1>5 DEF InFlight, ClassifyHeuristics
<1> QED
  BY <1>1, <1>2, <1>4, <1>6

LEMMA TimesOutStep == ASSUME IInv, TimesOut PROVE IInv'
<1>1. /\ pc \in {"start", "run", "logdone", "logfail"} /\ UNCHANGED <<msg, outcome>>
      /\ pc' = "report_handler" /\ err' = TimeoutError
  BY DEF TimesOut, Raise, Goto
<1>2. /\ mishap' = mishap \cup {"timeout"} /\ mishap' \subseteq Faults
      /\ faults' \in 0..MaxFaults /\ "details" \notin mishap' /\ Disturbed'
  BY <1>1, Inside, FaultCounts DEF TimesOut, Active, Disturbed
<1>3. PICK E \in SUBSET Event : published' = published \cup E
  BY <1>1, InFlightEvents DEF TimesOut, Active
<1> QED
  BY <1>1, <1>2, <1>3, Errors, GoesOn

LEMMA CrashStep == ASSUME IInv, Crash PROVE IInv'
<1>1. pc \in Active /\ msg' = msg /\ Answer("raised")
  BY DEF Crash
<1>2. mishap' = mishap \cup {"crash"} /\ mishap' \subseteq Faults /\ faults' \in 0..MaxFaults
  BY FaultCounts DEF Crash, IInv
<1>3. PICK E \in SUBSET Event :
        /\ published' = published \cup E
        /\ \A e \in E : e.type = "Complete" => pc = "logdone"
        /\ \A e \in E : e.type = "Failed" =>
             pc \in {"report_outside", "report_handler", "logfail"}
        /\ pc = "report_outside" /\ err = PortalError => \A e \in E : ~e.blamed
  BY <1>1, InFlightEvents DEF Crash
<1> QED
  BY <1>1, <1>2, <1>3, Settles

LEMMA HandleErrorStep == ASSUME IInv, HandleError PROVE IInv'
<1> DEFINE e == Failed(err, ClassifyHeuristics)
<1>1. pc \in {"report_outside", "report_handler"} /\ msg' = msg /\ TypeOK /\ err \in Error
  BY DEF HandleError, IInv, TypeOK
<1>2. e \in Event /\ e.type = "Failed"
  BY <1>1, FailedEvent DEF ClassifyHeuristics
<1>3. pc = "report_outside" /\ err = PortalError => ~e.blamed
  BY Errors DEF Failed, ClassifyHeuristics
<1>4. CASE Publish(e) /\ Answer("error")
  BY <1>1, <1>2, <1>3, <1>4, PublishAdds, Settles DEF TypeOK, Active
<1>5. CASE PublishRaises(e) /\ Answer("raised")
  <2>1. PICK E \in SUBSET {e} : published' = published \cup E
    BY <1>1, <1>2, <1>5, PublishRaisesAdds
  <2>2. mishap' = mishap \cup {"publish"} /\ mishap' \subseteq Faults /\ faults' \in 0..MaxFaults
    BY <1>1, <1>2, <1>5, PublishRaisesAdds
  <2> QED
    BY <1>1, <1>2, <1>3, <1>5, <2>1, <2>2, Settles DEF Active
<1> QED
  BY <1>4, <1>5 DEF HandleError

-----------------------------------------------------------------------------
LEMMA IInvStep == ASSUME IInv, Next PROVE IInv'
<1>1. CASE Deliver \/ TurnAway
  BY <1>1, DeliverStep, TurnAwayStep
<1>2. CASE Execute
  BY <1>2, GetDetailsStep, FindHandlerStep, StumbleStep, ConfigSteps, ThrottleStep, WarnStep,
     LogStartedStep, RunHandlerStep, LogCompleteStep, LogFailedStep, HandleErrorStep
     DEF Execute
<1>3. CASE TimesOut \/ Crash
  BY <1>3, TimesOutStep, CrashStep
<1> QED
  BY <1>1, <1>2, <1>3 DEF Next

LEMMA IInvStutter == ASSUME IInv, UNCHANGED vars PROVE IInv'
<1>1. \A type \in Types : Has(type)' <=> Has(type)
  BY DEF vars, Has
<1> QED
  BY <1>1 DEF vars, IInv, TypeOK, PlaceTells, SkippablePull, Disturbed, AnsweredErrorIsReported,
              PushAckedOnlyBySuccess, SkipsOnlyOnSchedule, OneVerdict, DetailsNotBlamed, Types

LEMMA IInvAlways == Spec => []IInv
BY IInvInit, IInvStep, IInvStutter, PTL DEF Spec

-----------------------------------------------------------------------------
(* Type correctness, for any routes, faults and number of faults.            *)
THEOREM TypeCorrect == Spec => []TypeOK
BY IInvAlways, PTL DEF IInv

(* An error answer has left a failure in the feed (action_runner.py:114-125).*)
THEOREM ErrorsAreReported == Spec => []AnsweredErrorIsReported
BY IInvAlways, PTL DEF IInv

(* A push message that names a destination is acknowledged only by a run     *)
(* that succeeded; one that does not is dropped (main.py:118-134).           *)
THEOREM PushDataIsKept == Spec => []PushAckedOnlyBySuccess
BY IInvAlways, PTL DEF IInv

(* Only scheduled pulls are skipped, and they fail silently only before their *)
(* handler started (action_runner.py:220-230).                               *)
THEOREM SkipsAreScheduled == Spec => []SkipsOnlyOnSchedule
BY IInvAlways, PTL DEF IInv

(* A run is reported both complete and failed only if a publish raised or    *)
(* the action timed out (activity_logger.py:148-177).                        *)
THEOREM VerdictsAgree == Spec => []OneVerdict
BY IInvAlways, PTL DEF IInv

(* A failure of the runner's own call to the portal is never blamed on the   *)
(* provider (action_runner.py:73-80).                                        *)
THEOREM PortalIsToldApart == Spec => []DetailsNotBlamed
BY IInvAlways, PTL DEF IInv

-----------------------------------------------------------------------------
(* The ledger.  What the feed holds while a run is at a place, and what the  *)
(* step it takes from there may add to it.                                   *)
Feed == {e.type : e \in published}

Quiet == {"details", "lookup", "config", "throttle", "warn", "start", "report_outside"}

Says ==
  CASE pc = "start"   -> {"Started"}
    [] pc = "logdone" -> {"Complete"}
    [] pc = "warn"    -> {"Warning"}
    [] pc \in {"logfail", "report_outside", "report_handler"} -> {"Failed"}
    [] OTHER          -> {}

Agrees ==
  /\ "Complete" \in Feed => "Started" \in Feed
  /\ "Warning" \in Feed => Feed = {"Warning"} /\ SkippablePull

FeedTells ==
  /\ Agrees
  /\ pc \in Quiet => Feed = {}
  /\ pc = "run" => Feed = IF msg.logged THEN {"Started"} ELSE {}
  /\ pc \in {"logfail", "logdone"} => Feed = {"Started"}
  /\ pc = "report_handler" => "Warning" \notin Feed

LedgerInv == IInv /\ FeedTells

(* What a step may say agrees with what was said.                            *)
LEMMA SaysAgree ==
  ASSUME LedgerInv, pc \in Active, msg' = msg, Feed \subseteq Feed', Feed' \subseteq Feed \cup Says
  PROVE  /\ Agrees'
         /\ "Warning" \in Feed' => pc = "warn"
<1>1. pc = "warn" => SkippablePull
  BY DEF LedgerInv, IInv, PlaceTells
<1>2. SkippablePull' <=> SkippablePull
  BY DEF SkippablePull
<1> HIDE DEF Feed
<1> QED
  BY <1>1, <1>2 DEF LedgerInv, FeedTells, Agrees, Says, Active, Quiet

(* What is published goes on as the ledger has it.                           *)
LEMMA Grows ==
  ASSUME IInv', Agrees', msg' = msg, mishap \subseteq mishap', Feed \subseteq Feed'
  PROVE  Ledger!Goes({e.type : e \in published}', (mishap # {})')
<1>1. {"Complete", "Failed"} \subseteq Feed' => mishap' # {}
  BY DEF IInv, OneVerdict, Has, Feed
<1> QED
  BY <1>1 DEF Ledger!Goes, Ledger!Coherent, Agrees, Feed, SkippablePull

(* The run goes on: work, for the ledger.                                    *)
LEMMA Works ==
  ASSUME LedgerInv, IInv', mishap \subseteq mishap',
         pc \in Active, pc' \in Active, UNCHANGED <<msg, outcome>>,
         Feed \subseteq Feed', Feed' \subseteq Feed \cup Says,
         \/ /\ pc' \in Quiet \cup {"run", "logfail", "logdone", "report_handler"}
            /\ Feed' = Feed
            /\ pc' \in Quiet => pc \in Quiet
            /\ pc' = "run" => pc \in Quiet /\ ~msg.logged
            /\ pc' \in {"logfail", "logdone"} => pc = "run" /\ msg.logged
         \/ pc = "start" /\ pc' = "run" /\ msg.logged /\ Feed' = {"Started"}
         \/ pc # "warn" /\ pc' = "report_handler"
  PROVE  FeedTells' /\ Ledger!Work
<1>1. Agrees' /\ ("Warning" \in Feed' => pc = "warn")
  BY SaysAgree
<1>2. FeedTells'
  <2> HIDE DEF Feed
  <2> QED
    BY <1>1 DEF LedgerInv, FeedTells, Quiet
<1>3. Ledger!Work
  BY <1>1, Grows DEF Ledger!Work, Active
<1> QED
  BY <1>2, <1>3

(* The run ends: an answer, for the ledger.                                  *)
LEMMA Replies ==
  ASSUME LedgerInv, IInv', mishap \subseteq mishap',
         pc \in Active, msg' = msg, Feed \subseteq Feed', Feed' \subseteq Feed \cup Says,
         NEW result \in {"ok", "skipped", "error", "raised"}, Answer(result),
         result = "ok" => /\ Feed' = IF msg.logged THEN {"Started", "Complete"} ELSE {}
                          /\ msg.body = "good",
         result = "skipped" => SkippablePull /\ Feed' \subseteq {"Warning"},
         result = "error" => "Failed" \in Feed',
         result = "raised" => mishap' # {} \/ msg.body = "odd"
  PROVE  FeedTells' /\ Ledger!LedgerNext
<1>1. Agrees'
  BY SaysAgree
<1>2. pc' \in {"queued", "done"} /\ outcome' = result
  BY DEF Answer, Goto
<1>3. FeedTells'
  BY <1>1, <1>2 DEF FeedTells, Quiet
<1>4. /\ msg.route \in {"pubsub", "push", "api"} /\ (SkippablePull => msg.route # "push")
      /\ msg.background \in BOOLEAN
  BY RunnerAssumption DEF LedgerInv, IInv, PlaceTells, Requests, Request, SkippablePull
<1>5. pc' = "done" <=> \/ result \in {"ok", "skipped"}
                       \/ result = "error" /\ msg.route = "pubsub"
                       \/ msg.route = "api"
                       \/ msg.background
  BY DEF Answer, Acked, Goto
<1>6. Ledger!AnswerWith(result)
  BY <1>1, <1>2, <1>4, <1>5, Grows DEF Ledger!AnswerWith, Ledger!Earned, Ledger!Settled,
     Feed, SkippablePull, Active
<1> QED
  BY <1>3, <1>6 DEF Ledger!LedgerNext

(* What publishing adds to the feed.                                         *)
LEMMA PublishFeeds ==
  ASSUME NEW e, Publish(e)
  PROVE  Feed' = Feed \cup {e.type} /\ mishap' = mishap
BY DEF Publish, NoFault, Feed

LEMMA PublishRaisesFeeds ==
  ASSUME NEW e, PublishRaises(e)
  PROVE  /\ Feed \subseteq Feed' /\ Feed' \subseteq Feed \cup {e.type}
         /\ mishap \subseteq mishap' /\ mishap' # {}
BY DEF PublishRaises, Fault, Feed

LEMMA CutFeeds ==
  ASSUME published' \in {published, published \cup InFlight}
  PROVE  Feed \subseteq Feed' /\ Feed' \subseteq Feed \cup Says
<1>1. \A e \in InFlight : e.type \in Says
  BY DEF InFlight, Says, Plain, Failed
<1> QED
  BY <1>1 DEF Feed

LEMMA SaysEvents ==
  /\ \A type : Plain(type).type = type
  /\ \A e, heuristics : Failed(e, heuristics).type = "Failed"
BY DEF Plain, Failed

(* The steps, by what they are for the ledger.                               *)
LEMMA TurnAwayReplies ==
  ASSUME LedgerInv, IInv', TurnAway
  PROVE  FeedTells' /\ Ledger!LedgerNext
<1>1. /\ pc = "queued" /\ pc' \in {"queued", "done"} /\ published' = {} /\ msg' = msg
      /\ mishap' = {}
  BY DEF TurnAway, Answer, Goto
<1>2. Feed' = {}
  BY <1>1 DEF Feed
<1>3. FeedTells'
  <2> HIDE DEF Feed
  <2> QED
    BY <1>1, <1>2 DEF FeedTells, Agrees, Quiet
<1>4. /\ msg.route \in {"pubsub", "push", "api"} /\ ~msg.background
      /\ msg.body \in {"unreadable", "unaddressed"}
      /\ msg.body = "unaddressed" => msg.route = "push"
  BY RunnerAssumption DEF TurnAway, LedgerInv, IInv, PlaceTells, Requests, Request
<1>5. PICK result \in {"dropped", "refused", "raised"} :
        /\ outcome' = result
        /\ pc' = IF result = "dropped" \/ msg.route = "api" THEN "done" ELSE "queued"
        /\ \/ result = "dropped" /\ msg.body = "unaddressed"
           \/ result = "refused" /\ msg.body = "unreadable" /\ msg.route = "api"
           \/ result = "raised" /\ msg.body = "unreadable" /\ msg.route # "api"
  BY <1>4 DEF TurnAway, Answer, Acked, Goto
<1>6. Ledger!TurnAway(result)
  BY <1>1, <1>2, <1>4, <1>5 DEF Ledger!TurnAway, Ledger!Runnable, Ledger!Settled, Feed
<1> QED
  BY <1>3, <1>6 DEF Ledger!LedgerNext

LEMMA TakeStep == ASSUME LedgerInv, IInv', Deliver PROVE FeedTells' /\ Ledger!LedgerNext
<1>1. /\ pc = "queued" /\ pc' = "details" /\ published' = {} /\ outcome' = "none" /\ msg' = msg
      /\ mishap' = {} /\ msg.body \in {"good", "odd"}
  BY DEF Deliver, Goto
<1>2. Feed' = {}
  BY <1>1 DEF Feed
<1>3. FeedTells'
  <2> HIDE DEF Feed
  <2> QED
    BY <1>1, <1>2 DEF FeedTells, Agrees, Quiet
<1>4. Ledger!Take
  BY <1>1, <1>2 DEF Ledger!Take, Ledger!Runnable, Feed
<1> QED
  BY <1>3, <1>4 DEF Ledger!LedgerNext

(* Trouble stays for the rest of the delivery.                               *)
LEMMA MishapGrows ==
  ASSUME Execute \/ TimesOut \/ Crash
  PROVE  mishap \subseteq mishap'
BY DEF Execute, TimesOut, Crash, GetDetails, FindHandler, Stumble, ConfigAbsent, ConfigInvalid, Paused,
       DataInvalid, ConfigUsable, ConfigRaises, Throttle, Warn, LogStarted, RunHandler,
       LogComplete, LogFailed, HandleError, LoggerRaises, Publish, PublishRaises, Fault, NoFault

(* Before the handler nothing is published.                                  *)
LEMMA SilentSteps ==
  ASSUME LedgerInv, IInv',
         \/ GetDetails \/ FindHandler \/ Stumble \/ ConfigAbsent \/ ConfigInvalid \/ Paused
         \/ DataInvalid \/ ConfigUsable \/ ConfigRaises \/ Throttle
  PROVE  FeedTells' /\ Ledger!LedgerNext
<1>0. mishap \subseteq mishap'
  BY MishapGrows DEF Execute
<1>1. /\ pc \in {"details", "lookup", "config", "throttle", "report_outside"}
      /\ UNCHANGED <<msg, published>>
  BY DEF GetDetails, FindHandler, Stumble, ConfigAbsent, ConfigInvalid, Paused, DataInvalid, ConfigUsable,
         ConfigRaises, Throttle
<1>2. Feed = {} /\ Feed' = Feed /\ pc \in Quiet /\ pc \in Active
  <2>1. pc \in Quiet /\ pc \in Active
    BY <1>1 DEF Quiet, Active
  <2>2. Feed' = Feed
    BY <1>1 DEF Feed
  <2> QED
    BY <2>1, <2>2 DEF LedgerInv, FeedTells
<1>3. pc = "throttle" => SkippablePull
  BY DEF LedgerInv, IInv, PlaceTells
<1> HIDE DEF Feed
<1>4. \/ /\ pc' \in (Quiet \cup {"run"}) \cap Active /\ outcome' = outcome
         /\ pc' = "run" => ~msg.logged
      \/ Answer("skipped") /\ SkippablePull
      \/ Answer("raised") /\ (mishap' # {} \/ msg.body = "odd")
  BY <1>1, <1>3 DEF GetDetails, FindHandler, Stumble, ConfigAbsent, ConfigInvalid, Paused, DataInvalid,
     ConfigUsable, ConfigRaises, Throttle, Goto, Raise, Quiet, Active, Fault
<1>5. CASE /\ pc' \in (Quiet \cup {"run"}) \cap Active /\ outcome' = outcome
           /\ pc' = "run" => ~msg.logged
  <2>1. FeedTells' /\ Ledger!Work
    BY <1>0, <1>1, <1>2, <1>5, Works DEF Quiet
  <2> QED
    BY <2>1 DEF Ledger!LedgerNext
<1>6. CASE Answer("skipped") /\ SkippablePull
  BY <1>0, <1>1, <1>2, <1>6, Replies
<1>7. CASE Answer("raised") /\ (mishap' # {} \/ msg.body = "odd")
  BY <1>0, <1>1, <1>2, <1>7, Replies
<1> QED
  BY <1>4, <1>5, <1>6, <1>7

LEMMA WarnReplies == ASSUME LedgerInv, IInv', Warn PROVE FeedTells' /\ Ledger!LedgerNext
<1>0. mishap \subseteq mishap'
  BY MishapGrows DEF Execute
<1>1. pc = "warn" /\ pc \in Active /\ msg' = msg /\ SkippablePull
  BY DEF Warn, LedgerInv, IInv, PlaceTells, Active
<1>2. Feed = {} /\ Says = {"Warning"}
  BY <1>1 DEF LedgerInv, FeedTells, Quiet, Says
<1>3. CASE Publish(Plain("Warning")) /\ Answer("skipped")
  <2>1. Feed' = {"Warning"}
    BY <1>2, <1>3, PublishFeeds, SaysEvents
  <2> HIDE DEF Feed
  <2> QED
    BY <1>0, <1>1, <1>2, <1>3, <2>1, Replies
<1>4. CASE PublishRaises(Plain("Warning")) /\ Answer("raised")
  <2>1. Feed \subseteq Feed' /\ Feed' \subseteq Feed \cup Says /\ mishap' # {}
    BY <1>2, <1>4, PublishRaisesFeeds, SaysEvents
  <2> HIDE DEF Feed
  <2> QED
    BY <1>0, <1>1, <1>4, <2>1, Replies
<1> QED
  BY <1>3, <1>4 DEF Warn

(* A publish of activity_logger that raises goes to the report.              *)
LEMMA LoggerRaisesWorks ==
  ASSUME LedgerInv, IInv', pc \in {"start", "logdone", "logfail"}, msg' = msg,
         NEW e, e.type \in Says, LoggerRaises(e)
  PROVE  FeedTells' /\ Ledger!LedgerNext
<1>1. pc' = "report_handler" /\ outcome' = outcome /\ pc \in Active /\ pc' \in Active
  BY DEF LoggerRaises, Raise, Goto, Active
<1>2. Feed \subseteq Feed' /\ Feed' \subseteq Feed \cup Says /\ mishap \subseteq mishap'
  BY PublishRaisesFeeds DEF LoggerRaises
<1> HIDE DEF Feed
<1>3. FeedTells' /\ Ledger!Work
  BY <1>1, <1>2, Works
<1> QED
  BY <1>3 DEF Ledger!LedgerNext

LEMMA LogSteps ==
  ASSUME LedgerInv, IInv', LogStarted \/ LogComplete \/ LogFailed
  PROVE  FeedTells' /\ Ledger!LedgerNext
<1>0. mishap \subseteq mishap'
  BY MishapGrows DEF Execute
<1>1. /\ pc \in {"start", "logdone", "logfail"} /\ pc \in Active /\ msg' = msg /\ msg.logged
      /\ msg.body = "good"
  BY DEF LogStarted, LogComplete, LogFailed, LedgerInv, IInv, PlaceTells, Active, Beyond
<1>2. Feed = IF pc = "start" THEN {} ELSE {"Started"}
  BY <1>1 DEF LedgerInv, FeedTells, Quiet
<1>3. CASE LogStarted
  <2>1. pc = "start" /\ Says = {"Started"}
    BY <1>3 DEF LogStarted, Says
  <2>2. CASE Publish(Plain("Started")) /\ Goto("run") /\ UNCHANGED <<err, outcome>>
    <3>1. Feed' = {"Started"} /\ pc' = "run" /\ pc' \in Active /\ outcome' = outcome
      BY <1>2, <2>1, <2>2, PublishFeeds, SaysEvents DEF Goto, Active
    <3> HIDE DEF Feed
    <3>2. FeedTells' /\ Ledger!Work
      BY <1>0, <1>1, <1>2, <2>1, <3>1, Works
    <3> QED
      BY <3>2 DEF Ledger!LedgerNext
  <2> QED
    BY <1>0, <1>1, <1>3, <2>1, <2>2, SaysEvents, LoggerRaisesWorks DEF LogStarted
<1>4. CASE LogComplete
  <2>1. pc = "logdone" /\ Says = {"Complete"}
    BY <1>4 DEF LogComplete, Says
  <2>2. CASE Publish(Plain("Complete")) /\ Answer("ok")
    <3>1. Feed' = {"Started", "Complete"}
      BY <1>2, <2>1, <2>2, PublishFeeds, SaysEvents
    <3> HIDE DEF Feed
    <3> QED
      BY <1>0, <1>1, <1>2, <2>1, <2>2, <3>1, Replies
  <2> QED
    BY <1>0, <1>1, <1>4, <2>1, <2>2, SaysEvents, LoggerRaisesWorks DEF LogComplete
<1>5. CASE LogFailed
  <2>1. pc = "logfail" /\ Says = {"Failed"}
    BY <1>5 DEF LogFailed, Says
  <2>2. CASE /\ Publish(Failed(err, TRUE)) /\ Goto("report_handler")
             /\ UNCHANGED <<err, outcome>>
    <3>1. /\ Feed' = Feed \cup {"Failed"} /\ pc' = "report_handler" /\ pc' \in Active
          /\ outcome' = outcome
      BY <2>1, <2>2, PublishFeeds, SaysEvents DEF Goto, Active
    <3> HIDE DEF Feed
    <3>2. FeedTells' /\ Ledger!Work
      BY <1>0, <1>1, <2>1, <3>1, Works
    <3> QED
      BY <3>2 DEF Ledger!LedgerNext
  <2> QED
    BY <1>0, <1>1, <1>5, <2>1, <2>2, SaysEvents, LoggerRaisesWorks DEF LogFailed
<1> QED
  BY <1>3, <1>4, <1>5

LEMMA RunHandlerReplies == ASSUME LedgerInv, IInv', RunHandler PROVE FeedTells' /\ Ledger!LedgerNext
<1>0. mishap \subseteq mishap'
  BY MishapGrows DEF Execute
<1>1. pc = "run" /\ pc \in Active /\ UNCHANGED <<msg, published>> /\ msg.body = "good"
  BY DEF RunHandler, LedgerInv, IInv, PlaceTells, Active, Beyond
<1>2. Feed' = Feed /\ Feed = IF msg.logged THEN {"Started"} ELSE {}
  <2>1. Feed' = Feed
    BY <1>1 DEF Feed
  <2> QED
    BY <1>1, <2>1 DEF LedgerInv, FeedTells
<1> HIDE DEF Feed
<1>3. CASE ~msg.logged /\ Answer("ok")
  BY <1>0, <1>1, <1>2, <1>3, Replies
<1>4. CASE /\ outcome' = outcome
           /\ pc' = IF msg.logged THEN pc' ELSE "report_handler"
           /\ msg.logged => pc' \in {"logdone", "logfail"}
  <2>1. FeedTells' /\ Ledger!Work
    BY <1>0, <1>1, <1>2, <1>4, Works DEF Active, Quiet
  <2> QED
    BY <2>1 DEF Ledger!LedgerNext
<1> QED
  BY <1>3, <1>4 DEF RunHandler, Raise, Goto

LEMMA HandleErrorReplies ==
  ASSUME LedgerInv, IInv', HandleError
  PROVE  FeedTells' /\ Ledger!LedgerNext
<1> DEFINE e == Failed(err, ClassifyHeuristics)
<1>0. mishap \subseteq mishap'
  BY MishapGrows DEF Execute
<1>1. pc \in {"report_outside", "report_handler"} /\ pc \in Active /\ msg' = msg
  BY DEF HandleError, Active
<1>2. Says = {"Failed"} /\ e.type = "Failed"
  BY <1>1, SaysEvents DEF Says
<1>3. CASE Publish(e) /\ Answer("error")
  <2>1. Feed' = Feed \cup {"Failed"}
    BY <1>2, <1>3, PublishFeeds
  <2> HIDE DEF Feed, e
  <2> QED
    BY <1>0, <1>1, <1>2, <1>3, <2>1, Replies
<1>4. CASE PublishRaises(e) /\ Answer("raised")
  <2>1. Feed \subseteq Feed' /\ Feed' \subseteq Feed \cup Says /\ mishap' # {}
    BY <1>2, <1>4, PublishRaisesFeeds
  <2> HIDE DEF Feed, e
  <2> QED
    BY <1>0, <1>1, <1>4, <2>1, Replies
<1> QED
  BY <1>3, <1>4 DEF HandleError

(* A run that is cut short is worked on or answered, whatever it was saying. *)
LEMMA CutSteps ==
  ASSUME LedgerInv, IInv', TimesOut \/ Crash
  PROVE  FeedTells' /\ Ledger!LedgerNext
<1>0. mishap \subseteq mishap'
  BY MishapGrows DEF Execute
<1>1. msg' = msg /\ published' \in {published, published \cup InFlight} /\ pc \in Active
  BY DEF TimesOut, Crash, Active
<1>2. Feed \subseteq Feed' /\ Feed' \subseteq Feed \cup Says
  BY <1>1, CutFeeds
<1> HIDE DEF Feed
<1>3. CASE TimesOut
  <2>1. pc # "warn" /\ pc' = "report_handler" /\ pc' \in Active /\ outcome' = outcome
    BY <1>3 DEF TimesOut, Raise, Goto, Active
  <2>2. FeedTells' /\ Ledger!Work
    BY <1>0, <1>1, <1>2, <2>1, Works
  <2> QED
    BY <2>2 DEF Ledger!LedgerNext
<1>4. CASE Crash
  <2>1. mishap' # {}
    BY <1>4 DEF Crash, Fault
  <2> QED
    BY <1>0, <1>1, <1>2, <1>4, <2>1, Replies DEF Crash
<1> QED
  BY <1>3, <1>4

LEMMA LedgerStep ==
  ASSUME LedgerInv, [Next]_vars
  PROVE  LedgerInv' /\ [Ledger!LedgerNext]_(Ledger!ledgerVars)
<1>1. CASE Next
  <2>1. IInv'
    BY <1>1, IInvStep DEF LedgerInv
  <2>2. FeedTells' /\ Ledger!LedgerNext
    BY <1>1, <2>1, TakeStep, TurnAwayReplies, SilentSteps, WarnReplies, LogSteps, RunHandlerReplies,
       HandleErrorReplies, CutSteps DEF Next, Execute
  <2> QED
    BY <2>1, <2>2 DEF LedgerInv
<1>2. CASE UNCHANGED vars
  <2>1. IInv'
    BY <1>2, IInvStutter DEF LedgerInv
  <2>2. Feed' = Feed /\ UNCHANGED <<msg, pc, outcome>>
    BY <1>2 DEF vars, Feed
  <2>3. FeedTells'
    <3> HIDE DEF Feed
    <3> QED
      BY <2>2 DEF LedgerInv, FeedTells, Agrees, SkippablePull
  <2>4. UNCHANGED Ledger!ledgerVars
    BY <1>2 DEF vars, Ledger!ledgerVars
  <2> QED
    BY <2>1, <2>3, <2>4 DEF LedgerInv
<1> QED
  BY <1>1, <1>2

(* A request that waits, or none.                                            *)
LEMMA LedgerStart ==
  ASSUME IInv, pc \in {"queued", "done"}, published = {}, outcome = "none", mishap = {}
  PROVE  LedgerInv /\ Ledger!LedgerInit
<1>1. Feed = {}
  BY DEF Feed
<1>2. Ledger!LedgerInit
  BY DEF Ledger!LedgerInit
<1> HIDE DEF Feed
<1> QED
  BY <1>1, <1>2 DEF LedgerInv, FeedTells, Agrees, Quiet

(* The run implements the ledger: a request leaves its queue by one of the   *)
(* ledger's ways, the feed agrees with the answer, and a well-formed request *)
(* has an answer without trouble, for any faults and number of deliveries    *)
(* (main.py:73-134, routers/actions.py:26-48, action_runner.py:114-125,      *)
(* 183-262).                                                                 *)
THEOREM LedgerRefinement == Spec => ImplementsLedger
<1>1. Init => LedgerInv /\ Ledger!LedgerInit
  BY IInvInit, LedgerStart DEF Init
<1> QED
  BY <1>1, LedgerStep, PTL DEF Spec, ImplementsLedger, Ledger!LedgerSpec
=============================================================================
