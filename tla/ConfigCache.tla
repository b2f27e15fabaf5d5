------------------------------ MODULE ConfigCache ------------------------------
(***************************************************************************)
(* The Redis cache of one integration's portal configuration:              *)
(* IntegrationConfigurationManager of app/services/config_manager.py, read *)
(* by action runs and webhook requests, and written by its own reloads and *)
(* by the portal's events (app/services/config_events_consumer.py).  Every *)
(* Redis or Gundi call is a step of its own.                               *)
(***************************************************************************)
EXTENDS Integers, Sequences

CONSTANTS
  Actions,   \* the actions of the integration's type
  Fields,    \* the fields of a configuration, or of the summary
  Procs,     \* requests and events handled at the same time
  Users,     \* of {"action", "webhook"}: who reads the configuration
  Edited,    \* the keys that change in the portal
  Ordered,   \* TRUE: Pub/Sub delivers events in the order they happened
  MaxEdits,  \* bound: edits in the portal
  Faults,    \* of {"raise", "crash"}: a call raises, a process dies
  MaxFaults, \* bound: how many of them happen
  Missing,   \* no such configuration
  Empty      \* nothing under the key

Summary == "integration"
Webhook == "webhook"
Keys == {Summary, Webhook} \cup Actions

(* A configuration is, per field, the edit it comes from.  That an           *)
(* integration has no webhook configuration is cached too (as the sentinel). *)
Config == [Fields -> 0..MaxEdits]
Value == Config \cup {Missing}

ASSUME CacheAssumption ==
  /\ Actions \cap {Summary, Webhook} = {}
  /\ Users \subseteq {"action", "webhook"} /\ Edited \subseteq Keys
  /\ Ordered \in BOOLEAN
  /\ Faults \subseteq {"raise", "crash"}
  /\ {MaxEdits, MaxFaults} \subseteq Nat
  /\ {Missing, Empty} \cap Config = {} /\ Missing # Empty

(* A portal event: created with a whole configuration, updated in one field  *)
(* (now as of edit n), or deleted.  Webhook configurations have no events.   *)
Event == [key : {Summary} \cup Actions, kind : {"created", "updated", "deleted"},
          config : Value, field : Fields, n : 0..MaxEdits]

VARIABLES
  portal,  \* the configuration in the portal
  edits,   \* number of edits so far
  queue,   \* the events without an answer yet
  cache,   \* the keys in Redis
  mortal,  \* those of them with a time to live
  pc,      \* where a request or event is
  job,     \* its locals
  faults

vars == <<portal, edits, queue, cache, mortal, pc, job, faults>>

Resting == {"idle", "done"}

(* event: the event being handled, if any; ttl: keys are stored with a time  *)
(* to live; look, then: the keys to look up, and to look up again after them;*)
(* key: the one being looked up; got: what was found; fresh: the portal's    *)
(* answer to a reload, and save the keys of it to store.  Ghosts: calm, no   *)
(* event was outstanding at the start and no edit was made since; lacked,    *)
(* the configurations the portal lacked at some time since the start.        *)
Job == [event : Seq(Event), ttl : BOOLEAN, look : SUBSET Keys, then : SUBSET Actions,
        key : Keys, got : [Keys -> Value \cup {Empty}], fresh : [Keys -> Value],
        save : SUBSET Keys, calm : BOOLEAN, lacked : SUBSET Keys]

Lacking == {k \in Keys : portal[k] = Missing}

NewJob == [event |-> <<>>, ttl |-> FALSE, look |-> {}, then |-> {},
           key |-> Summary, got |-> [k \in Keys |-> Empty],
           fresh |-> [k \in Keys |-> Missing], save |-> {},
           calm |-> queue = <<>>, lacked |-> Lacking]

Set(p, j, place) == job' = [job EXCEPT ![p] = j] /\ pc' = [pc EXCEPT ![p] = place]

Put(k, value, ttl) ==
  /\ cache' = [cache EXCEPT ![k] = value]
  /\ mortal' = IF ttl THEN mortal \cup {k} ELSE mortal \ {k}

Delete(k) ==
  /\ cache' = [cache EXCEPT ![k] = Empty]
  /\ mortal' = mortal \ {k}

Fault(kind) == kind \in Faults /\ faults < MaxFaults /\ faults' = faults + 1

-----------------------------------------------------------------------------
(* The operator edits the portal, which publishes an event of the edit.      *)
Edit(values, event) ==
  /\ edits < MaxEdits /\ edits' = edits + 1
  /\ portal' = values
  /\ queue' = IF event.key = Webhook THEN queue ELSE Append(queue, event)
  /\ job' = [p \in Procs |->
               [job[p] EXCEPT !.calm = FALSE,
                  !.lacked = @ \cup {k \in Keys : values[k] = Missing}]]
  /\ UNCHANGED <<cache, mortal, pc, faults>>

Ev(k, kind, config, f) ==
  [key |-> k, kind |-> kind, config |-> config, field |-> f, n |-> edits + 1]

PortalUpdate(k, f) ==
  /\ k \in Edited /\ portal[k] # Missing
  /\ Edit([portal EXCEPT ![k][f] = edits + 1], Ev(k, "updated", Missing, f))

(* An integration is only created once. *)
PortalCreate(k) ==
  /\ k \in Edited /\ portal[k] = Missing
  /\ IF k = Summary THEN edits = 0 ELSE portal[Summary] # Missing
  /\ LET config == [f \in Fields |-> edits + 1]
     IN \E f \in Fields : Edit([portal EXCEPT ![k] = config], Ev(k, "created", config, f))

(* Deleting an integration deletes all that belongs to it. *)
PortalDelete(k) ==
  /\ k \in Edited /\ portal[k] # Missing
  /\ \E f \in Fields :
       Edit([x \in Keys |-> IF x = k \/ k = Summary THEN Missing ELSE portal[x]],
            Ev(k, "deleted", Missing, f))

Expire(k) ==
  /\ k \in mortal
  /\ Delete(k)
  /\ UNCHANGED <<portal, edits, queue, pc, job, faults>>

-----------------------------------------------------------------------------
(* execute_action: get_integration_details, then get_action_configuration;   *)
(* a webhook request: get_integration_details with a time to live.           *)
BeginRun(p, a) ==
  /\ pc[p] \in Resting /\ "action" \in Users
  /\ Set(p, [NewJob EXCEPT !.look = Keys, !.then = {a}], "get")
  /\ UNCHANGED <<portal, edits, queue, cache, mortal, faults>>

BeginWebhook(p) ==
  /\ pc[p] \in Resting /\ "webhook" \in Users
  /\ Set(p, [NewJob EXCEPT !.look = Keys, !.ttl = TRUE], "get")
  /\ UNCHANGED <<portal, edits, queue, cache, mortal, faults>>

(* process_config_event: an update starts by reading what it changes.        *)
BeginEvent(p, i) ==
  /\ pc[p] \in Resting /\ i \in DOMAIN queue /\ (Ordered => i = 1)
  /\ LET e == queue[i] IN
       IF e.kind = "updated" THEN Set(p, [NewJob EXCEPT !.event = <<e>>, !.look = {e.key}], "get")
                             ELSE Set(p, [NewJob EXCEPT !.event = <<e>>], "write")
  /\ UNCHANGED <<portal, edits, queue, cache, mortal, faults>>

(* The order of get_integration_details: summary, actions, webhook.          *)
Turn(look) ==
  IF Summary \in look THEN {Summary}
  ELSE IF look \cap Actions # {} THEN look \cap Actions ELSE look

(* What comes after a key has been looked up. *)
Found(j, k, value) ==
  LET left == j.look \ {k}
      again == IF left = {} THEN j.then ELSE {}
  IN [j EXCEPT !.got[k] = value, !.look = left \cup again, !.then = @ \ again]

Onward(j) == IF j.look # {} THEN "get" ELSE IF j.event # <<>> THEN "write" ELSE "done"

Get(p, k) ==
  /\ pc[p] = "get" /\ k \in Turn(job[p].look)
  /\ IF cache[k] # Empty
     THEN LET j == Found(job[p], k, cache[k]) IN Set(p, j, Onward(j))
     ELSE Set(p, [job[p] EXCEPT !.key = k], "fetch")
  /\ UNCHANGED <<portal, edits, queue, cache, mortal, faults>>

(* Mutant: the absence of an action's configuration is cached as well. *)
FetchAll(p) ==
  /\ pc[p] = "fetch" /\ portal[Summary] # Missing
  /\ Set(p, [job[p] EXCEPT !.fresh = portal, !.save = Keys], "store")
  /\ UNCHANGED <<portal, edits, queue, cache, mortal, faults>>

(* The reload asks the portal, and then stores each thing it got. *)
Fetch(p) ==
  /\ pc[p] = "fetch" /\ portal[Summary] # Missing
  /\ Set(p, [job[p] EXCEPT !.fresh = portal,
                           !.save = Keys \ {a \in Actions : portal[a] = Missing}], "store")
  /\ UNCHANGED <<portal, edits, queue, cache, mortal, faults>>

Store(p, k) ==
  /\ pc[p] = "store" /\ k \in Turn(job[p].save)
  /\ Put(k, job[p].fresh[k], job[p].ttl)
  /\ LET saved == [job[p] EXCEPT !.save = @ \ {k}]
         j == Found(saved, saved.key, saved.fresh[saved.key])
     IN IF saved.save # {} THEN Set(p, saved, "store") ELSE Set(p, j, Onward(j))
  /\ UNCHANGED <<portal, edits, queue, faults>>

-----------------------------------------------------------------------------
(* The event is answered with 200, whatever became of it. *)
Answered(p) ==
  IF job[p].event = <<>> THEN queue
  ELSE LET e == Head(job[p].event) IN
       LET at == {i \in DOMAIN queue : queue[i] = e}
       IN IF at = {} THEN queue
          ELSE LET i == CHOOSE i \in at : TRUE
               IN [j \in 1..Len(queue)-1 |-> IF j < i THEN queue[j] ELSE queue[j + 1]]

Rest(p) == Set(p, [NewJob EXCEPT !.calm = FALSE], "idle")

(* Mutant: an update stores the changes only. *)
WriteChanges(p) ==
  /\ pc[p] = "write"
  /\ LET e == Head(job[p].event) IN
     IF e.kind = "updated"
     THEN Put(e.key, [f \in Fields |-> IF f = e.field THEN e.n ELSE 0], FALSE)
     ELSE IF e.kind = "created" THEN Put(e.key, e.config, FALSE) ELSE Delete(e.key)
  /\ queue' = Answered(p) /\ Rest(p)
  /\ UNCHANGED <<portal, edits, faults>>

(* The handler of the event writes; updating what is not there raises, and   *)
(* that is answered too.                                                     *)
Write(p) ==
  /\ pc[p] = "write"
  /\ LET e == Head(job[p].event)
         old == job[p].got[e.key]
     IN IF e.kind = "created" THEN Put(e.key, e.config, FALSE)
        ELSE IF e.kind = "deleted" THEN Delete(e.key)
        ELSE IF old # Missing THEN Put(e.key, [old EXCEPT ![e.field] = e.n], FALSE)
        ELSE UNCHANGED <<cache, mortal>>
  /\ queue' = Answered(p) /\ Rest(p)
  /\ UNCHANGED <<portal, edits, faults>>

(* A call raises: a run or request fails, an event is answered nevertheless. *)
CallRaises(p) ==
  /\ pc[p] \notin Resting
  /\ \/ Fault("raise")
     \/ pc[p] = "fetch" /\ portal[Summary] = Missing /\ UNCHANGED faults
  /\ queue' = Answered(p) /\ Rest(p)
  /\ UNCHANGED <<portal, edits, cache, mortal>>

(* Mutant: the event is answered first and handled in the background. *)
AnsweredAtOnce(p) == Answered(p)

(* process_request answers an event when it has been handled: one that is    *)
(* being handled when the process dies stays without an answer.              *)
Unanswered(p) == queue

Crash(p) ==
  /\ pc[p] \notin Resting /\ Fault("crash")
  /\ queue' = Unanswered(p) /\ Rest(p)
  /\ UNCHANGED <<portal, edits, cache, mortal>>

-----------------------------------------------------------------------------
Init ==
  /\ portal \in [Keys -> {[f \in Fields |-> 0], Missing}]
  /\ portal[Summary] = Missing => \A k \in Keys : portal[k] = Missing
  /\ edits = 0 /\ queue = <<>>
  /\ cache = [k \in Keys |-> Empty] /\ mortal = {}
  /\ pc = [p \in Procs |-> "idle"]
  /\ job = [p \in Procs |-> [NewJob EXCEPT !.calm = FALSE]]
  /\ faults = 0

Proceed(p) ==
  \/ \E k \in Keys : Get(p, k) \/ Store(p, k)
  \/ Fetch(p)
  \/ Write(p)

Next ==
  \/ \E k \in Keys :
       \/ \E f \in Fields : PortalUpdate(k, f)
       \/ PortalCreate(k)
       \/ PortalDelete(k)
       \/ Expire(k)
  \/ \E p \in Procs :
       \/ \E a \in Actions : BeginRun(p, a)
       \/ BeginWebhook(p)
       \/ \E i \in DOMAIN queue : BeginEvent(p, i)
       \/ Proceed(p)
       \/ CallRaises(p)
       \/ Crash(p)

Spec == Init /\ [][Next]_vars

(* Redis expires keys, and the event loop keeps running what it started. *)
FairSpec ==
  /\ Spec
  /\ \A k \in Keys : WF_vars(Expire(k))
  /\ \A p \in Procs : WF_vars(Proceed(p))

-----------------------------------------------------------------------------
(* Every variable has its type; only a webhook configuration is cached as absent. *)
TypeOK ==
  /\ portal \in [Keys -> Value]
  /\ edits \in 0..MaxEdits
  /\ queue \in Seq(Event)
  /\ cache \in [Keys -> Value \cup {Empty}]
  /\ \A k \in Keys \ {Webhook} : cache[k] # Missing
  /\ mortal \subseteq {k \in Keys : cache[k] # Empty}
  /\ pc \in [Procs -> Resting \cup {"get", "fetch", "store", "write"}]
  /\ job \in [Procs -> Job]
  /\ faults \in 0..MaxFaults

(* With one request or event at a time, and events in order: once every      *)
(* event is answered, what the cache holds is what the portal holds, whatever*)
(* reloads ran ahead of the events and whichever process died handling one.  *)
Fresh ==
  queue = <<>> /\ (\A p \in Procs : pc[p] \in Resting) =>
    \A k \in {Summary} \cup (IF portal[Summary] = Missing THEN {} ELSE Actions) :
      cache[k] \in {Empty, portal[k]}

(* With one request or event at a time, and events in order: a run that      *)
(* starts when every event is answered works with the portal's configuration,*)
(* unless it is edited meanwhile (get_integration_details).                  *)
RunSeesPortal ==
  \A p \in Procs : pc[p] = "done" /\ job[p].calm =>
    \A k \in {Summary} \cup Actions : job[p].got[k] = portal[k]

(* A run is told that an action is not configured, and skips it quietly, only*)
(* if the portal had no configuration for it at some time during the run,    *)
(* whatever overlaps, fails or arrives out of order.                         *)
NoFalseAbsence ==
  \A p \in Procs : \A a \in Actions :
    job[p].got[a] = Missing => a \in job[p].lacked

(* A webhook configuration that has changed is not used for good: it is      *)
(* cached "for 60 seconds" (webhooks.py:145).                                *)
Stale == cache[Webhook] \notin {Empty, portal[Webhook]}

WebhookRefreshed == Stale ~> ~Stale
=============================================================================
