------------------------------- MODULE Lifespan -------------------------------
(***************************************************************************)
(* The life of one process of the service: lifespan of app/main.py, the    *)
(* registration it makes (app/services/self_registration.py), and the      *)
(* diagnostic HTTP client of app/services/webhooks.py, which is created    *)
(* when first needed and closed at shutdown.                               *)
(***************************************************************************)
EXTENDS Integers

CONSTANTS
  MaxTries  \* attempts to register the integration type

ASSUME LifespanAssumption == MaxTries \in Nat \ {0}

VARIABLES
  registerOnStart,  \* the setting REGISTER_ON_START
  handler,      \* webhook_handler of app/webhooks/handlers.py: missing, as in
                \* this repository, with webhook_activity_logger or without
  typeWebhook,  \* the integration type has a webhook in the portal
  phase,        \* where the process is in its life
  try,          \* the attempt to register
  diagnostic,   \* _diagnostic_client
  openClients,  \* number of diagnostic clients that are open
  quiet         \* ghost: no payload was still to be forwarded at shutdown

setting == <<registerOnStart, handler>>

lifeVars == <<setting, typeWebhook, phase, try, diagnostic, openClients, quiet>>

HandlerFound == handler # "missing"

-----------------------------------------------------------------------------
(* The type is created or updated in the portal, with a webhook if there is  *)
(* a handler; without one the portal may keep a webhook it knew.             *)
Registered == typeWebhook' \in IF HandlerFound THEN {TRUE} ELSE {FALSE, typeWebhook}

Register ==
  /\ phase = "starting" /\ registerOnStart
  /\ Registered
  /\ phase' = "serving" /\ try' = 1
  /\ UNCHANGED <<setting, diagnostic, openClients, quiet>>

(* Mutant: the process serves even though it could not register. *)
GiveUpServing == IF try < MaxTries THEN try' = try + 1 /\ UNCHANGED phase
                                   ELSE try' = 1 /\ phase' = "serving"

TryAgain == IF try < MaxTries THEN try' = try + 1 /\ UNCHANGED phase
                              ELSE try' = 1 /\ phase' = "failed"

(* An httpx.HTTPError, whether or not the portal took the request.           *)
RegisterRaises ==
  /\ phase = "starting" /\ registerOnStart
  /\ Registered \/ UNCHANGED typeWebhook
  /\ TryAgain
  /\ UNCHANGED <<setting, diagnostic, openClients, quiet>>

(* Anything else that raises, as a missing slug, is not tried again.         *)
RegisterInvalid ==
  /\ phase = "starting" /\ registerOnStart
  /\ phase' = "failed" /\ try' = 1
  /\ UNCHANGED <<setting, typeWebhook, diagnostic, openClients, quiet>>

SkipRegistration ==
  /\ phase = "starting" /\ ~registerOnStart
  /\ phase' = "serving"
  /\ UNCHANGED <<setting, typeWebhook, try, diagnostic, openClients, quiet>>

(* A process has ended, because start-up raised, after shutdown, or without  *)
(* notice, and another is started.  What it had in memory is gone.           *)
Restart ==
  /\ phase' = "starting" /\ try' = 1
  /\ diagnostic' = "none" /\ openClients' = 0 /\ quiet' = FALSE
  /\ UNCHANGED <<setting, typeWebhook>>

-----------------------------------------------------------------------------
(* The server lets the requests it has accepted end, then closes the portal  *)
(* client; forwarding tasks are nobody's and not waited for.                 *)
Stop(requestsEnded) ==
  /\ phase = "serving" /\ requestsEnded
  /\ phase' = "closing portal"
  /\ UNCHANGED <<setting, typeWebhook, try, diagnostic, openClients, quiet>>

(* When closing the portal client raises, nothing more is closed.            *)
ClosePortal(forwarding) ==
  /\ phase = "closing portal"
  /\ \/ /\ IF diagnostic = "none" THEN phase' = "closed" ELSE phase' = "closing client"
        /\ diagnostic' = IF diagnostic = "none" THEN "none" ELSE "closing"
        /\ quiet' = ~forwarding
     \/ /\ phase' = "closed" /\ quiet' = FALSE
        /\ UNCHANGED diagnostic
  /\ UNCHANGED <<setting, typeWebhook, try, openClients>>

(* Mutant: the process ends without waiting for aclose(). *)
ExitAtOnce ==
  /\ phase = "closing client"
  /\ phase' = "closed"
  /\ UNCHANGED <<setting, typeWebhook, try, diagnostic, openClients, quiet>>

(* aclose() has returned, and the global is reset only then.                 *)
CloseDiagnosticClient ==
  /\ phase = "closing client"
  /\ phase' = "closed"
  /\ diagnostic' = "none"
  /\ openClients' = openClients - 1
  /\ UNCHANGED <<setting, typeWebhook, try, quiet>>

(* The client in the global, whatever its state, or a new one.               *)
GetDiagnosticClient ==
  /\ IF diagnostic = "none" THEN diagnostic' = "open" /\ openClients' = openClients + 1
                            ELSE UNCHANGED <<diagnostic, openClients>>
  /\ UNCHANGED <<setting, typeWebhook, phase, try, quiet>>

-----------------------------------------------------------------------------
(* The portal may know the type from an earlier version of the connector.    *)
LifeInit ==
  /\ registerOnStart \in BOOLEAN
  /\ handler \in {"missing", "plain", "logged"}
  /\ typeWebhook \in BOOLEAN
  /\ phase = "starting" /\ try = 1
  /\ diagnostic = "none" /\ openClients = 0 /\ quiet = FALSE

LifeTypeOK ==
  /\ registerOnStart \in BOOLEAN
  /\ handler \in {"missing", "plain", "logged"} /\ typeWebhook \in BOOLEAN
  /\ phase \in {"starting", "serving", "failed", "closing portal", "closing client", "closed"}
  /\ try \in 1..MaxTries
  /\ diagnostic \in {"none", "open", "closing"}
  /\ openClients \in Nat /\ quiet \in BOOLEAN

(* A process that registers on start serves nothing before the portal knows  *)
(* its integration type, however many attempts raised or took effect without *)
(* an answer: if there is a handler, the type has the webhook that the       *)
(* reports of process_webhook need (main.py:26-29,                           *)
(* self_registration.py:89-113, webhooks.py:237).                            *)
ServesAsRegistered ==
  registerOnStart /\ HandlerFound /\ phase \notin {"starting", "failed"} => typeWebhook

(* There is never more than one open diagnostic client, which would leak     *)
(* connections, however forwards and shutdown interleave (webhooks.py:23-34).*)
OneOpenClient == openClients = IF diagnostic = "none" THEN 0 ELSE 1

(* A shutdown that nothing disturbs leaves no client open (main.py:31-32).   *)
ClosedAtExit == phase = "closed" /\ quiet => openClients = 0
=============================================================================
