-------------------------------- MODULE Service --------------------------------
(***************************************************************************)
(* The service of app/main.py: one process that starts, registers, serves  *)
(* and shuts down (Lifespan), and the requests that it serves: to run an   *)
(* action (ActionRunner), or webhooks (Webhooks), with the next process    *)
(* that takes over.  A behaviour has one action request or a few webhooks: *)
(* they share nothing but the process that must be serving.                *)
(***************************************************************************)
EXTENDS ActionRunner, Webhooks

(* NoRequest, below, is shaped like a request through the API.               *)
ASSUME ServiceAssumption == "api" \in Routes

serviceVars == <<vars, lifeVars, hookVars>>

NoAction == pc = "done" /\ outcome = "none"

NoRequest == [route |-> "api", manual |-> FALSE, known |-> FALSE,
              pull |-> FALSE, logged |-> FALSE, background |-> FALSE, body |-> "good"]

-----------------------------------------------------------------------------
(* The action request reaches a process that serves, and is run or not.      *)
DeliverAction ==
  /\ phase = "serving"
  /\ Deliver \/ TurnAway
  /\ UNCHANGED <<lifeVars, hookVars>>

ExecuteAction == Execute /\ UNCHANGED <<lifeVars, hookVars>>

CutShort == TimesOut /\ UNCHANGED <<lifeVars, hookVars>>

(* The process dies while it runs an action.                                 *)
Die ==
  /\ Crash
  /\ Restart
  /\ UNCHANGED hookVars

ReceiveWebhook ==
  /\ NoAction
  /\ \E w \in Hooks : Receive(w)
  /\ UNCHANGED <<vars, lifeVars>>

Webhook(w) == ProcessWebhook(w) /\ UNCHANGED vars

Forwarding == (\E w \in Hooks : ForwardPayload(w)) /\ UNCHANGED vars

StartProcess == StartUp /\ UNCHANGED vars

(* A process that was shut down is replaced when a message waits for one.    *)
ReplaceProcess ==
  /\ phase = "closed" /\ pc = "queued"
  /\ Restart
  /\ UNCHANGED <<vars, hookVars>>

EndProcess == ShutDown(HooksEnded /\ pc \notin Active) /\ UNCHANGED vars

-----------------------------------------------------------------------------
(* With an action request, the connector is this repository's: no webhook    *)
(* handler.                                                                  *)
ServiceInit ==
  /\ HookInit
  /\ \/ Init /\ handler = "missing"
     \/ /\ msg = NoRequest /\ pc = "done" /\ err = NoError
        /\ published = {} /\ outcome = "none" /\ mishap = {} /\ faults = 0

ServiceNext ==
  \/ DeliverAction \/ ExecuteAction \/ CutShort \/ Die
  \/ ReceiveWebhook \/ (\E w \in Hooks : Webhook(w)) \/ Forwarding
  \/ StartProcess \/ ReplaceProcess \/ EndProcess

ServiceSpec == ServiceInit /\ [][ServiceNext]_serviceVars

(* The event loop runs what it has accepted; a process that ended is         *)
(* replaced, and one that shuts down ends.  Registration, if it is tried     *)
(* again and again, succeeds; Pub/Sub redelivers again and again, and does   *)
(* not always find the service between two processes.                        *)
FairServiceSpec ==
  /\ ServiceSpec
  /\ WF_serviceVars(ExecuteAction)
  /\ WF_serviceVars(StartProcess \/ ReplaceProcess)
  /\ WF_serviceVars((ClosePortal(FALSE) \/ CloseDiagnosticClient) /\ UNCHANGED <<vars, hookVars>>)
  /\ SF_serviceVars((Register \/ SkipRegistration) /\ UNCHANGED <<vars, hookVars>>)
  /\ SF_serviceVars(DeliverAction)

-----------------------------------------------------------------------------
(* The types of the action's, the webhooks' and the process's variables, and *)
(* that an exception is in flight exactly where one is handled.              *)
ServiceTypeOK == TypeOK /\ HookTypeOK
=============================================================================
