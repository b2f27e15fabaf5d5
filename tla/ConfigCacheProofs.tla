--------------------------- MODULE ConfigCacheProofs ---------------------------
(***************************************************************************)
(* Theorems about ConfigCache, for any actions, fields, processes, faults  *)
(* and order of events: IInv is inductive, and a run never finds an action *)
(* unconfigured that was configured throughout.                            *)
(***************************************************************************)
EXTENDS ConfigCache, SequenceTheorems, TLAPS

(* What NoFalseAbsence rests on, of a job j at its place: what the portal    *)
(* lacks now it has lacked, so what a reload finds lacking, which it stores  *)
(* nowhere, it has lacked too; and an update has read what it changes.       *)
Posted == {e \in Event : e.kind = "created" => e.config # Missing}

JobTells(j, place) ==
  /\ Lacking \subseteq j.lacked
  /\ \A a \in Actions : j.got[a] = Missing => a \in j.lacked
  /\ place = "store" =>
       \A k \in Keys \ {Webhook} : j.fresh[k] = Missing => k \in j.lacked \ j.save
  /\ j.event # <<>> =>
       LET e == Head(j.event) IN
         e \in Posted /\ (e.kind = "updated" => e.key \in j.look \/ j.got[e.key] # Empty)
  /\ place = "write" => j.event # <<>> /\ j.look = {}

IInv ==
  /\ TypeOK
  /\ queue \in Seq(Posted)
  /\ \A p \in Procs : JobTells(job[p], pc[p])

(* What Fresh and RunSeesPortal rest on, where requests and events are       *)
(* handled one at a time and in order.  The events still in the queue tell   *)
(* how the portal differs from what has been read of it: the last event that *)
(* touches a field says what the portal has in it, and a field that none     *)
(* touches is the portal's already.                                          *)
Serial == (\E p : Procs = {p}) /\ Ordered /\ "raise" \notin Faults /\ Fields # {}

Live == {Summary} \cup (IF portal[Summary] = Missing THEN {} ELSE Actions)

(* The events of a queue q that touch the field f of the configuration k.    *)
Touches(q, k, f) ==
  {i \in DOMAIN q : q[i].key = k /\ (q[i].kind = "updated" => q[i].field = f)}

(* What an event says of a field of the portal's configuration c.            *)
Says(e, c, f) ==
  IF e.kind = "deleted" THEN c = Missing
  ELSE c # Missing /\ c[f] = IF e.kind = "created" THEN e.config[f] ELSE e.n

Tells(q, k, c) ==
  \A f \in Fields : \A i \in Touches(q, k, f) :
    (\A j \in Touches(q, k, f) : j <= i) => Says(q[i], c, f)

(* A value v that was read is the portal's c, but for what the queue tells.  *)
Agrees(v, c, k, q) ==
  \A f \in Fields : Touches(q, k, f) = {} =>
    IF v = Missing THEN c = Missing ELSE c # Missing /\ v[f] = c[f]

QueueTells ==
  /\ \A i, j \in DOMAIN queue : i < j => queue[i].n < queue[j].n
  /\ \A i \in DOMAIN queue : queue[i].n <= edits
  /\ \A k \in Live : Tells(queue, k, portal[k])

CacheAgrees == \A k \in Live : cache[k] # Empty => Agrees(cache[k], portal[k], k, queue)

NotYetCreated ==
  portal[Summary] = Missing /\ edits = 0 =>
    /\ queue = <<>> /\ \A k \in Keys : cache[k] = Empty
    /\ \A p \in Procs : pc[p] \notin {"store", "write"}

(* What an event's job has read, and what a run does that nothing disturbs.  *)
EventAgrees(j, place) ==
  LET e == Head(j.event) IN
    /\ queue # <<>> /\ e = queue[1]
    /\ ~j.calm /\ j.then = {} /\ j.look \subseteq {e.key}
    /\ place \in {"fetch", "store"} => j.key = e.key
    /\ place = "write" /\ e.kind = "updated" =>
         IF j.got[e.key] = Missing THEN cache[e.key] = Empty
         ELSE e.key \in Live => Agrees(j.got[e.key], portal[e.key], e.key, queue)

RunAgrees(j, place) ==
  /\ queue = <<>>
  /\ \A k \in {Summary} \cup Actions : k \in j.look \/ j.got[k] = portal[k]
  /\ Summary \in j.look \/ portal[Summary] # Missing
  /\ place = "store" => j.fresh = portal /\ portal[Summary] # Missing
  /\ place = "done" => j.look = {}

JobAgrees(j, place) ==
  /\ place = "fetch" => cache[j.key] = Empty
  /\ place = "store" =>
       /\ \A k \in Live : Agrees(j.fresh[k], portal[k], k, queue)
       /\ j.key # Webhook /\ j.fresh[j.key] = Missing => cache[j.key] = Empty
  /\ j.event # <<>> => EventAgrees(j, place)
  /\ j.calm => RunAgrees(j, place)

SerialInv ==
  QueueTells /\ CacheAgrees /\ NotYetCreated /\ \A p \in Procs : JobAgrees(job[p], pc[p])

-----------------------------------------------------------------------------

Places == Resting \cup {"get", "fetch", "store", "write"}

LEMMA Constants ==
  /\ MaxEdits \in Nat /\ MaxFaults \in Nat
  /\ Actions \subseteq Keys /\ Summary \in Keys /\ Webhook \in Keys
  /\ Summary \notin Actions /\ Webhook \notin Actions /\ Summary # Webhook
  /\ Missing \notin Config /\ Empty \notin Value /\ Missing # Empty
BY CacheAssumption DEF Keys, Summary, Webhook, Value

(* The type of one job, field by field.                                      *)
LEMMA JobFields ==
  ASSUME NEW j \in Job
  PROVE  /\ j.event \in Seq(Event) /\ j.ttl \in BOOLEAN
         /\ j.look \in SUBSET Keys /\ j.then \in SUBSET Actions /\ j.key \in Keys
         /\ j.got \in [Keys -> Value \cup {Empty}] /\ j.fresh \in [Keys -> Value]
         /\ j.save \in SUBSET Keys /\ j.calm \in BOOLEAN /\ j.lacked \in SUBSET Keys
BY DEF Job

LEMMA NewJobType == NewJob \in Job
<1>1. <<>> \in Seq(Event) /\ Lacking \in SUBSET Keys
  BY DEF Lacking
<1>2. (queue = <<>>) \in BOOLEAN
  OBVIOUS
<1> QED
  BY <1>1, <1>2, Constants DEF NewJob, Job, Value

(* A step of one process that leaves the portal alone.                       *)
LEMMA SetStep ==
  ASSUME TypeOK, \A q \in Procs : JobTells(job[q], pc[q]),
         NEW p \in Procs, NEW j \in Job, NEW place \in Places, JobTells(j, place),
         Set(p, j, place), UNCHANGED portal
  PROVE  /\ pc' \in [Procs -> Places] /\ job' \in [Procs -> Job]
         /\ \A q \in Procs : JobTells(job[q], pc[q])'
<1>1. /\ job' = [job EXCEPT ![p] = j] /\ pc' = [pc EXCEPT ![p] = place]
      /\ job \in [Procs -> Job] /\ pc \in [Procs -> Places]
  BY DEF Set, TypeOK, Places
<1>2. pc' \in [Procs -> Places] /\ job' \in [Procs -> Job]
  BY <1>1
<1>3. ASSUME NEW q \in Procs PROVE JobTells(job[q], pc[q])'
  <2>1. Lacking' = Lacking
    BY DEF Lacking
  <2>2. \/ q = p /\ job'[q] = j /\ pc'[q] = place
        \/ job'[q] = job[q] /\ pc'[q] = pc[q]
    BY <1>1
  <2> QED
    BY <2>1, <2>2 DEF JobTells
<1> QED
  BY <1>2, <1>3

(* A step that leaves the portal, the queue and the cache alone too.         *)
LEMMA LocalStep ==
  ASSUME IInv, NEW p \in Procs, NEW j \in Job, NEW place \in Places, JobTells(j, place),
         Set(p, j, place), UNCHANGED <<portal, edits, queue, cache, mortal>>,
         faults' \in 0..MaxFaults
  PROVE  IInv'
<1>1. /\ pc' \in [Procs -> Places] /\ job' \in [Procs -> Job]
      /\ \A q \in Procs : JobTells(job[q], pc[q])'
  BY SetStep DEF IInv
<1> QED
  BY <1>1 DEF IInv, TypeOK, Places

LEMMA RestTells == 
  [NewJob EXCEPT !.calm = FALSE] \in Job /\ JobTells([NewJob EXCEPT !.calm = FALSE], "idle")
<1>1. [NewJob EXCEPT !.calm = FALSE] \in Job
  BY NewJobType DEF Job
<1>2. \A a \in Actions : NewJob.got[a] # Missing
  BY Constants DEF NewJob
<1> QED
  BY <1>1, <1>2 DEF NewJob, JobTells

LEMMA IInvInit == Init => IInv
<1> SUFFICES ASSUME Init PROVE IInv
  OBVIOUS
<1>1. TypeOK
  <2>1. [f \in Fields |-> 0] \in Value /\ Missing \in Value
    BY Constants DEF Value, Config
  <2>2. portal \in [Keys -> Value]
    BY <2>1 DEF Init
  <2>3. cache \in [Keys -> Value \cup {Empty}] /\ \A k \in Keys : cache[k] # Missing
    BY Constants DEF Init
  <2>4. job \in [Procs -> Job] /\ pc \in [Procs -> Places]
    BY RestTells DEF Init, Places, Resting
  <2>5. edits \in 0..MaxEdits /\ faults \in 0..MaxFaults
    BY Constants DEF Init
  <2>6. queue \in Seq(Event) /\ mortal = {}
    BY DEF Init
  <2> QED
    BY <2>2, <2>3, <2>4, <2>5, <2>6 DEF TypeOK, Places
<1>2. queue \in Seq(Posted)
  BY DEF Init
<1>3. \A p \in Procs : JobTells(job[p], pc[p])
  BY RestTells DEF Init
<1> QED
  BY <1>1, <1>2, <1>3 DEF IInv

-----------------------------------------------------------------------------
(* An edit: the portal lacks something more, and every job is told.          *)
LEMMA EditStep ==
  ASSUME IInv, NEW values \in [Keys -> Value], NEW event,
         event.key # Webhook => event \in Posted, Edit(values, event)
  PROVE  IInv'
<1>1. /\ edits < MaxEdits /\ edits' = edits + 1 /\ portal' = values
      /\ job' = [p \in Procs |->
                   [job[p] EXCEPT !.calm = FALSE,
                      !.lacked = @ \cup {k \in Keys : values[k] = Missing}]]
      /\ UNCHANGED <<cache, mortal, pc, faults>>
  BY DEF Edit
<1>2. edits' \in 0..MaxEdits
  <2>1. edits \in 0..MaxEdits
    BY DEF IInv, TypeOK
  <2>2. edits < MaxEdits /\ edits' = edits + 1
    BY <1>1
  <2> QED
    BY <2>1, <2>2, Constants
<1>3. queue' \in Seq(Posted) /\ queue' \in Seq(Event)
  <2>1. queue \in Seq(Posted) /\ queue \in Seq(Event)
    BY DEF IInv, TypeOK
  <2>2. CASE event.key = Webhook
    BY <2>1, <2>2 DEF Edit
  <2>3. CASE event.key # Webhook
    <3>1. event \in Posted /\ event \in Event /\ queue' = Append(queue, event)
      BY <2>3 DEF Edit, Posted
    <3> QED
      BY <2>1, <3>1
  <2> QED
    BY <2>2, <2>3
<1>4. ASSUME NEW p \in Procs
      PROVE  job'[p] \in Job /\ JobTells(job[p], pc[p])'
  <2>1. job[p] \in Job /\ JobTells(job[p], pc[p]) /\ pc'[p] = pc[p]
    BY <1>1 DEF IInv, TypeOK
  <2>2. job'[p] = [job[p] EXCEPT !.calm = FALSE,
                     !.lacked = @ \cup {k \in Keys : values[k] = Missing}]
    BY <1>1
  <2>3. job'[p] \in Job
    BY <2>1, <2>2 DEF Job
  <2>4. /\ job'[p].event = job[p].event /\ job'[p].look = job[p].look
        /\ job'[p].got = job[p].got /\ job'[p].fresh = job[p].fresh
        /\ job'[p].save = job[p].save
        /\ job'[p].lacked = job[p].lacked \cup {k \in Keys : values[k] = Missing}
    BY <2>1, <2>2 DEF Job
  <2>5. Lacking' \subseteq job'[p].lacked
    BY <1>1, <2>4 DEF Lacking
  <2> QED
    BY <2>1, <2>3, <2>4, <2>5 DEF JobTells
<1>5. job' \in [Procs -> Job]
  BY <1>1, <1>4
<1> QED
  BY <1>1, <1>2, <1>3, <1>4, <1>5 DEF IInv, TypeOK

LEMMA EvIsPosted ==
  ASSUME IInv, edits < MaxEdits, NEW k \in Keys \ {Webhook},
         NEW kind \in {"created", "updated", "deleted"}, NEW config \in Value,
         NEW f \in Fields, kind = "created" => config # Missing
  PROVE  Ev(k, kind, config, f) \in Posted
<1>1. edits + 1 \in 0..MaxEdits
  BY Constants DEF IInv, TypeOK
<1> QED
  BY <1>1 DEF Ev, Posted, Event, Keys

LEMMA PortalStep ==
  ASSUME IInv, NEW k \in Keys,
         (\E f \in Fields : PortalUpdate(k, f)) \/ PortalCreate(k) \/ PortalDelete(k)
  PROVE  IInv'
<1>1. portal \in [Keys -> Value] /\ Missing \in Value
  BY DEF IInv, TypeOK, Value
<1>2. ASSUME edits < MaxEdits PROVE edits + 1 \in 0..MaxEdits
  BY <1>2, Constants DEF IInv, TypeOK
<1>3. \A kind, config, f : Ev(k, kind, config, f).key = k
  BY DEF Ev
<1>4. ASSUME NEW f \in Fields, PortalUpdate(k, f) PROVE IInv'
  <2>1. /\ edits < MaxEdits /\ portal[k] \in Config
        /\ Edit([portal EXCEPT ![k][f] = edits + 1], Ev(k, "updated", Missing, f))
    BY <1>1, <1>4 DEF PortalUpdate, Edit, Value
  <2>2. [portal[k] EXCEPT ![f] = edits + 1] \in Value
    BY <1>2, <2>1 DEF Config, Value
  <2>3. [portal EXCEPT ![k][f] = edits + 1] \in [Keys -> Value]
    BY <1>1, <2>2
  <2> QED
    BY <1>1, <1>3, <2>1, <2>3, EvIsPosted, EditStep
<1>5. CASE PortalCreate(k)
  <2> DEFINE config == [f \in Fields |-> edits + 1]
  <2>1. PICK f \in Fields :
          Edit([portal EXCEPT ![k] = config], Ev(k, "created", config, f))
    BY <1>5 DEF PortalCreate
  <2>2. edits < MaxEdits
    BY <2>1 DEF Edit
  <2>3. config \in Config /\ config \in Value /\ config # Missing
    BY <1>2, <2>2, Constants DEF Config, Value
  <2> HIDE DEF config
  <2>4. [portal EXCEPT ![k] = config] \in [Keys -> Value]
    BY <1>1, <2>3
  <2> QED
    BY <1>3, <2>1, <2>2, <2>3, <2>4, EvIsPosted, EditStep
<1>6. CASE PortalDelete(k)
  <2> DEFINE values == [x \in Keys |-> IF x = k \/ k = Summary THEN Missing ELSE portal[x]]
  <2>1. PICK f \in Fields : Edit(values, Ev(k, "deleted", Missing, f))
    BY <1>6 DEF PortalDelete
  <2>2. edits < MaxEdits
    BY <2>1 DEF Edit
  <2>3. values \in [Keys -> Value]
    BY <1>1
  <2> HIDE DEF values
  <2> QED
    BY <1>1, <1>3, <2>1, <2>2, <2>3, EvIsPosted, EditStep
<1> QED
  BY <1>4, <1>5, <1>6

LEMMA ExpireStep == ASSUME IInv, NEW k \in Keys, Expire(k) PROVE IInv'
<1>1. UNCHANGED <<portal, edits, queue, pc, job, faults>>
  BY DEF Expire
<1>2. TypeOK'
  BY <1>1, Constants DEF Expire, Delete, IInv, TypeOK
<1>3. Lacking' = Lacking
  BY <1>1 DEF Lacking
<1> QED
  BY <1>1, <1>2, <1>3 DEF IInv, JobTells

-----------------------------------------------------------------------------
(* A request begins with what the portal lacks now, and nothing found yet.   *)
LEMMA NewJobTells ==
  /\ NewJob \in Job
  /\ Lacking = NewJob.lacked
  /\ \A a \in Actions : NewJob.got[a] # Missing
  /\ NewJob.event = <<>> /\ NewJob.look = {}
BY NewJobType, Constants DEF NewJob

LEMMA BeginRunStep ==
  ASSUME IInv, NEW p \in Procs, NEW a \in Actions, BeginRun(p, a) PROVE IInv'
<1> DEFINE j == [NewJob EXCEPT !.look = Keys, !.then = {a}]
<1>1. j \in Job /\ j.lacked = NewJob.lacked /\ j.got = NewJob.got /\ j.event = <<>>
  BY NewJobTells DEF Job
<1>2. JobTells(j, "get")
  <2> HIDE DEF j
  <2> QED
    BY <1>1, NewJobTells DEF JobTells
<1>3. Set(p, j, "get") /\ UNCHANGED <<portal, edits, queue, cache, mortal, faults>>
  BY DEF BeginRun
<1> HIDE DEF j
<1>4. faults' \in 0..MaxFaults
  BY <1>3 DEF IInv, TypeOK
<1> QED
  BY <1>1, <1>2, <1>3, <1>4, LocalStep DEF Places

LEMMA BeginWebhookStep ==
  ASSUME IInv, NEW p \in Procs, BeginWebhook(p) PROVE IInv'
<1> DEFINE j == [NewJob EXCEPT !.look = Keys, !.ttl = TRUE]
<1>1. j \in Job /\ j.lacked = NewJob.lacked /\ j.got = NewJob.got /\ j.event = <<>>
  BY NewJobTells DEF Job
<1>2. JobTells(j, "get")
  <2> HIDE DEF j
  <2> QED
    BY <1>1, NewJobTells DEF JobTells
<1>3. Set(p, j, "get") /\ UNCHANGED <<portal, edits, queue, cache, mortal, faults>>
  BY DEF BeginWebhook
<1> HIDE DEF j
<1>4. faults' \in 0..MaxFaults
  BY <1>3 DEF IInv, TypeOK
<1> QED
  BY <1>1, <1>2, <1>3, <1>4, LocalStep DEF Places

LEMMA BeginEventStep ==
  ASSUME IInv, NEW p \in Procs, NEW i \in DOMAIN queue, BeginEvent(p, i) PROVE IInv'
<1> DEFINE e == queue[i]
           update == [NewJob EXCEPT !.event = <<e>>, !.look = {e.key}]
           other == [NewJob EXCEPT !.event = <<e>>]
<1>1. e \in Posted /\ e \in Event /\ e.key \in Keys
  BY DEF IInv, Posted, Event, Keys
<1>0. <<e>> \in Seq(Event) /\ {e.key} \in SUBSET Keys
  BY <1>1
<1>2. UNCHANGED <<portal, edits, queue, cache, mortal, faults>> /\ faults' \in 0..MaxFaults
  BY DEF BeginEvent, IInv, TypeOK
<1>3. CASE e.kind = "updated"
  <2>1. /\ update \in Job /\ update.lacked = NewJob.lacked /\ update.got = NewJob.got
        /\ update.event = <<e>> /\ update.look = {e.key}
    <3> HIDE DEF e
    <3> QED
      BY <1>0, NewJobTells DEF Job
  <2>2. Set(p, update, "get")
    BY <1>3 DEF BeginEvent
  <2> HIDE DEF update, e
  <2>3. JobTells(update, "get")
    BY <1>1, <2>1, NewJobTells DEF JobTells
  <2> QED
    BY <1>2, <2>1, <2>2, <2>3, LocalStep DEF Places
<1>4. CASE e.kind # "updated"
  <2>1. /\ other \in Job /\ other.lacked = NewJob.lacked /\ other.got = NewJob.got
        /\ other.event = <<e>> /\ other.look = {}
    <3> HIDE DEF e
    <3> QED
      BY <1>0, NewJobTells DEF Job
  <2>2. Set(p, other, "write")
    BY <1>4 DEF BeginEvent
  <2> HIDE DEF other, e
  <2>3. JobTells(other, "write")
    BY <1>1, <1>4, <2>1, NewJobTells DEF JobTells
  <2> QED
    BY <1>2, <2>1, <2>2, <2>3, LocalStep DEF Places
<1> QED
  BY <1>3, <1>4

-----------------------------------------------------------------------------
LEMMA TurnOf == ASSUME NEW look \in SUBSET Keys, NEW k \in Turn(look) PROVE k \in look
BY DEF Turn

(* A key has been found: in the cache, or in the portal's answer.            *)
LEMMA FoundTells ==
  ASSUME NEW j \in Job, NEW k \in Keys, NEW value \in Value, JobTells(j, "get"),
         k \in Actions /\ value = Missing => k \in j.lacked
  PROVE  /\ Found(j, k, value) \in Job
         /\ JobTells(Found(j, k, value), Onward(Found(j, k, value)))
         /\ Onward(Found(j, k, value)) \in Places
<1> DEFINE left == j.look \ {k}
           again == IF left = {} THEN j.then ELSE {}
           g == Found(j, k, value)
<1>1. left \in SUBSET Keys /\ again \in SUBSET Actions
  BY JobFields
<1>2. g = [j EXCEPT !.got[k] = value, !.look = left \cup again, !.then = @ \ again]
  BY DEF Found
<1>3. [j.got EXCEPT ![k] = value] \in [Keys -> Value \cup {Empty}]
  BY JobFields
<1>4. /\ g.event = j.event /\ g.lacked = j.lacked /\ g.fresh = j.fresh /\ g.save = j.save
      /\ g.look = left \cup again /\ g.got = [j.got EXCEPT ![k] = value]
  BY <1>2 DEF Job
<1>5. g \in Job
  <2> HIDE DEF left, again
  <2>1. left \cup again \in SUBSET Keys /\ j.then \ again \in SUBSET Actions
    BY <1>1, JobFields, Constants
  <2> QED
    BY <1>2, <1>3, <2>1 DEF Job
<1> HIDE DEF g
<1>6. \A a \in Actions : g.got[a] = Missing => a \in g.lacked
  BY <1>4, JobFields, Constants DEF JobTells
<1>7. ASSUME g.event # <<>>, Head(g.event).kind = "updated"
      PROVE  Head(g.event).key \in g.look \/ g.got[Head(g.event).key] # Empty
  <2>1. Head(j.event).key \in j.look \/ j.got[Head(j.event).key] # Empty
    BY <1>4, <1>7 DEF JobTells
  <2>2. Head(j.event).key \in Keys
    BY <1>4, <1>7 DEF JobTells, Posted, Event, Keys
  <2>3. value # Empty
    BY Constants
  <2> QED
    BY <1>4, <2>1, <2>2, <2>3, JobFields
<1>8. Onward(g) # "store" /\ Onward(g) \in Places
      /\ (Onward(g) = "write" => g.event # <<>> /\ g.look = {})
  BY DEF Onward, Places, Resting
<1> QED
  BY <1>4, <1>5, <1>6, <1>7, <1>8 DEF JobTells, g
LEMMA GetStep ==
  ASSUME IInv, NEW p \in Procs, NEW k \in Keys, Get(p, k) PROVE IInv'
<1>1. /\ job[p] \in Job /\ JobTells(job[p], "get") /\ k \in job[p].look
      /\ cache[k] \in Value \cup {Empty} /\ (k # Webhook => cache[k] # Missing)
  <2>1. job[p] \in Job /\ pc[p] = "get" /\ JobTells(job[p], pc[p])
    BY DEF IInv, TypeOK, Get
  <2> QED
    BY <2>1, TurnOf, JobFields DEF Get, IInv, TypeOK
<1>2. UNCHANGED <<portal, edits, queue, cache, mortal, faults>> /\ faults' \in 0..MaxFaults
  BY DEF Get, IInv, TypeOK
<1>3. CASE cache[k] # Empty
  <2> DEFINE j == Found(job[p], k, cache[k])
  <2>1. Set(p, j, Onward(j))
    BY <1>3 DEF Get
  <2>2. j \in Job /\ Onward(j) \in Places /\ JobTells(j, Onward(j))
    BY <1>1, <1>3, FoundTells, Constants
  <2> HIDE DEF j
  <2> QED
    BY <1>2, <2>1, <2>2, LocalStep
<1>4. CASE cache[k] = Empty
  <2> DEFINE j == [job[p] EXCEPT !.key = k]
  <2>1. Set(p, j, "fetch")
    BY <1>4 DEF Get
  <2>2. /\ j \in Job /\ j.event = job[p].event /\ j.look = job[p].look
        /\ j.got = job[p].got /\ j.lacked = job[p].lacked
    BY <1>1 DEF Job
  <2> HIDE DEF j
  <2>3. JobTells(j, "fetch")
    BY <1>1, <2>2 DEF JobTells
  <2> QED
    BY <1>2, <2>1, <2>2, <2>3, LocalStep DEF Places
<1> QED
  BY <1>3, <1>4

(* What the reload finds lacking is lacking now, and is not to be stored.    *)
LEMMA FetchStep == ASSUME IInv, NEW p \in Procs, Fetch(p) PROVE IInv'
<1> DEFINE save == Keys \ {a \in Actions : portal[a] = Missing}
           j == [job[p] EXCEPT !.fresh = portal, !.save = save]
<1>1. job[p] \in Job /\ JobTells(job[p], "fetch") /\ portal \in [Keys -> Value]
      /\ portal[Summary] # Missing
  BY DEF IInv, TypeOK, Fetch
<1>2. UNCHANGED <<portal, edits, queue, cache, mortal, faults>> /\ faults' \in 0..MaxFaults
  BY DEF Fetch, IInv, TypeOK
<1>3. Set(p, j, "store")
  BY DEF Fetch
<1>4. save \in SUBSET Keys
  OBVIOUS
<1>5. \A k \in Keys \ {Webhook} : portal[k] = Missing => k \in Lacking \ save
  BY <1>1 DEF Keys, Lacking
<1> HIDE DEF save
<1>6. /\ j \in Job /\ j.event = job[p].event /\ j.look = job[p].look
      /\ j.got = job[p].got /\ j.lacked = job[p].lacked
      /\ j.fresh = portal /\ j.save = save
  BY <1>1, <1>4 DEF Job
<1> HIDE DEF j
<1>7. JobTells(j, "store")
  BY <1>1, <1>5, <1>6 DEF JobTells
<1> QED
  BY <1>2, <1>3, <1>6, <1>7, LocalStep DEF Places

(* A value is put under a key.                                               *)
LEMMA PutType ==
  ASSUME TypeOK, NEW k \in Keys, NEW value \in Value, NEW ttl \in BOOLEAN,
         k # Webhook => value # Missing, Put(k, value, ttl)
  PROVE  /\ cache' \in [Keys -> Value \cup {Empty}]
         /\ \A x \in Keys \ {Webhook} : cache'[x] # Missing
         /\ mortal' \subseteq {x \in Keys : cache'[x] # Empty}
<1>1. cache' = [cache EXCEPT ![k] = value] /\ mortal' \subseteq mortal \cup {k}
  BY DEF Put
<1> QED
  BY <1>1, Constants DEF TypeOK

LEMMA StoreStep ==
  ASSUME IInv, NEW p \in Procs, NEW k \in Keys, Store(p, k) PROVE IInv'
<1> DEFINE saved == [job[p] EXCEPT !.save = @ \ {k}]
           j == Found(saved, saved.key, saved.fresh[saved.key])
<1>1. job[p] \in Job /\ JobTells(job[p], "store") /\ k \in job[p].save
  <2>1. job[p] \in Job /\ pc[p] = "store" /\ JobTells(job[p], pc[p])
    BY DEF IInv, TypeOK, Store
  <2> QED
    BY <2>1, TurnOf, JobFields DEF Store
<1>2. Put(k, job[p].fresh[k], job[p].ttl) /\ UNCHANGED <<portal, edits, queue, faults>>
  BY DEF Store
<1>3. /\ cache' \in [Keys -> Value \cup {Empty}]
      /\ \A x \in Keys \ {Webhook} : cache'[x] # Missing
      /\ mortal' \subseteq {x \in Keys : cache'[x] # Empty}
  <2>1. k # Webhook => job[p].fresh[k] # Missing
    BY <1>1 DEF JobTells
  <2>2. job[p].fresh[k] \in Value /\ job[p].ttl \in BOOLEAN
    BY <1>1, JobFields
  <2> QED
    BY <1>2, <2>1, <2>2, PutType DEF IInv
<1>4. /\ saved \in Job /\ saved.event = job[p].event /\ saved.look = job[p].look
      /\ saved.got = job[p].got /\ saved.lacked = job[p].lacked
      /\ saved.fresh = job[p].fresh /\ saved.save \subseteq job[p].save
      /\ saved.key \in Keys
  BY <1>1 DEF Job
<1>5. \/ saved.save # {} /\ Set(p, saved, "store")
      \/ saved.save = {} /\ Set(p, j, Onward(j))
  BY DEF Store
<1> HIDE DEF saved
<1>6. JobTells(saved, "store") /\ JobTells(saved, "get")
  BY <1>1, <1>4 DEF JobTells
<1>7. j \in Job /\ Onward(j) \in Places /\ JobTells(j, Onward(j))
  <2>1. saved.fresh[saved.key] \in Value
    BY <1>4, JobFields
  <2>2. saved.key \in Actions /\ saved.fresh[saved.key] = Missing => saved.key \in saved.lacked
    BY <1>4, <1>6, Constants DEF JobTells
  <2> QED
    BY <1>4, <1>6, <2>1, <2>2, FoundTells
<1> HIDE DEF j
<1>8. /\ pc' \in [Procs -> Places] /\ job' \in [Procs -> Job]
      /\ \A q \in Procs : JobTells(job[q], pc[q])'
  <2>1. TypeOK /\ (\A q \in Procs : JobTells(job[q], pc[q])) /\ UNCHANGED portal
    BY <1>2 DEF IInv
  <2>2. CASE Set(p, saved, "store")
    BY <1>4, <1>6, <2>1, <2>2, SetStep DEF Places
  <2>3. CASE Set(p, j, Onward(j))
    BY <1>7, <2>1, <2>3, SetStep
  <2> QED
    BY <1>5, <2>2, <2>3
<1> QED
  BY <1>2, <1>3, <1>8 DEF IInv, TypeOK, Places

-----------------------------------------------------------------------------
(* Without one of its events the queue is a queue.                           *)
LEMMA AnsweredType ==
  ASSUME NEW S, queue \in Seq(S), NEW p \in Procs
  PROVE  Answered(p) \in Seq(S)
<1> DEFINE at == {i \in DOMAIN queue : queue[i] = Head(job[p].event)}
           i == CHOOSE i \in at : TRUE
           shorter == [j \in 1..Len(queue)-1 |-> IF j < i THEN queue[j] ELSE queue[j + 1]]
<1>1. CASE job[p].event = <<>> \/ at = {}
  BY <1>1 DEF Answered
<1>2. CASE job[p].event # <<>> /\ at # {}
  <2>1. Answered(p) = shorter
    BY <1>2 DEF Answered
  <2>2. i \in 1..Len(queue) /\ Len(queue) \in Nat
    BY <1>2
  <2>3. Len(queue)-1 \in Nat
    BY <2>2
  <2> HIDE DEF i
  <2>4. shorter \in [1..Len(queue)-1 -> S]
    BY <2>2, <2>3
  <2> HIDE DEF shorter
  <2>5. shorter \in Seq(S)
    BY <2>3, <2>4
  <2> QED
    BY <2>1, <2>5
<1> QED
  BY <1>1, <1>2

(* A job that ends, with its event answered or left in the queue.            *)
LEMMA RestStep ==
  ASSUME IInv, NEW p \in Procs, Rest(p), queue' \in {queue, Answered(p)},
         UNCHANGED <<portal, edits>>, faults' \in 0..MaxFaults,
         cache' \in [Keys -> Value \cup {Empty}],
         \A x \in Keys \ {Webhook} : cache'[x] # Missing,
         mortal' \subseteq {x \in Keys : cache'[x] # Empty}
  PROVE  IInv'
<1>1. queue' \in Seq(Posted) /\ queue' \in Seq(Event)
  <2>1. queue \in Seq(Posted) /\ queue \in Seq(Event)
    BY DEF IInv, TypeOK
  <2> QED
    BY <2>1, AnsweredType
<1>2. /\ pc' \in [Procs -> Places] /\ job' \in [Procs -> Job]
      /\ \A q \in Procs : JobTells(job[q], pc[q])'
  BY RestTells, SetStep DEF Rest, IInv, Places, Resting
<1> QED
  BY <1>1, <1>2 DEF IInv, TypeOK, Places

LEMMA FaultStep ==
  ASSUME IInv, NEW p \in Procs, CallRaises(p) \/ Crash(p) PROVE IInv'
<1>1. faults' \in 0..MaxFaults
  <2>1. faults \in 0..MaxFaults
    BY DEF IInv, TypeOK
  <2>2. faults' = faults \/ (faults < MaxFaults /\ faults' = faults + 1)
    BY DEF CallRaises, Crash, Fault
  <2> QED
    BY <2>1, <2>2, Constants
<1>2. /\ UNCHANGED <<portal, edits, cache, mortal>> /\ Rest(p)
      /\ queue' \in {queue, Answered(p)}
  BY DEF CallRaises, Crash, Unanswered
<1>3. /\ cache' \in [Keys -> Value \cup {Empty}]
      /\ \A x \in Keys \ {Webhook} : cache'[x] # Missing
      /\ mortal' \subseteq {x \in Keys : cache'[x] # Empty}
  BY <1>2 DEF IInv, TypeOK
<1> QED
  BY <1>1, <1>2, <1>3, RestStep

LEMMA WriteStep == ASSUME IInv, NEW p \in Procs, Write(p) PROVE IInv'
<1> DEFINE e == Head(job[p].event)
           old == job[p].got[e.key]
<1>1. job[p] \in Job /\ JobTells(job[p], "write") /\ TypeOK
  BY DEF IInv, TypeOK, Write
<1>2. e \in Posted /\ e \in Event /\ e.key \in Keys /\ e.key # Webhook
      /\ (e.kind = "updated" => old # Empty)
  <2>1. e \in Posted /\ (e.kind = "updated" => old # Empty)
    BY <1>1 DEF JobTells
  <2> QED
    BY <2>1, Constants DEF Posted, Event, Keys
<1>3. old \in Value \cup {Empty}
  BY <1>1, <1>2, JobFields
<1>4. \/ e.kind = "created" /\ Put(e.key, e.config, FALSE)
      \/ e.kind = "deleted" /\ Delete(e.key)
      \/ /\ e.kind = "updated" /\ old # Missing
         /\ Put(e.key, [old EXCEPT ![e.field] = e.n], FALSE)
      \/ UNCHANGED <<cache, mortal>>
  <2>1. e.kind \in {"created", "updated", "deleted"}
    BY <1>2 DEF Event
  <2> QED
    BY <2>1 DEF Write
<1>5. /\ UNCHANGED <<portal, edits, faults>> /\ Rest(p) /\ queue' = Answered(p)
  BY DEF Write
<1> HIDE DEF e, old
<1>6. /\ cache' \in [Keys -> Value \cup {Empty}]
      /\ \A x \in Keys \ {Webhook} : cache'[x] # Missing
      /\ mortal' \subseteq {x \in Keys : cache'[x] # Empty}
  <2>1. CASE e.kind = "created" /\ Put(e.key, e.config, FALSE)
    <3>1. e.config \in Value /\ e.config # Missing
      BY <1>2, <2>1 DEF Posted, Event
    <3> QED
      BY <1>1, <1>2, <2>1, <3>1, PutType
  <2>2. CASE Delete(e.key)
    BY <1>1, <2>2, Constants DEF Delete, TypeOK
  <2>3. CASE /\ e.kind = "updated" /\ old # Missing
             /\ Put(e.key, [old EXCEPT ![e.field] = e.n], FALSE)
    <3>1. old \in Config /\ e.n \in 0..MaxEdits
      BY <1>2, <1>3, <2>3 DEF Value, Event
    <3>2. [old EXCEPT ![e.field] = e.n] \in Config
      BY <3>1 DEF Config
    <3>3. [old EXCEPT ![e.field] = e.n] \in Value /\ [old EXCEPT ![e.field] = e.n] # Missing
      BY <3>2, Constants DEF Value
    <3> QED
      BY <1>1, <1>2, <2>3, <3>3, PutType
  <2>4. CASE UNCHANGED <<cache, mortal>>
    BY <1>1, <2>4 DEF TypeOK
  <2> QED
    BY <1>4, <2>1, <2>2, <2>3, <2>4
<1>7. faults' \in 0..MaxFaults
  BY <1>1, <1>5 DEF TypeOK
<1> QED
  BY <1>5, <1>6, <1>7, RestStep

LEMMA IInvStep == IInv /\ [Next]_vars => IInv'
<1> SUFFICES ASSUME IInv, [Next]_vars PROVE IInv'
  OBVIOUS
<1>1. ASSUME NEW k \in Keys,
             (\E f \in Fields : PortalUpdate(k, f)) \/ PortalCreate(k) \/ PortalDelete(k)
      PROVE  IInv'
  BY <1>1, PortalStep
<1>2. ASSUME NEW k \in Keys, Expire(k) PROVE IInv'
  BY <1>2, ExpireStep
<1>3. ASSUME NEW p \in Procs,
             \/ \E a \in Actions : BeginRun(p, a)
             \/ BeginWebhook(p)
             \/ \E i \in DOMAIN queue : BeginEvent(p, i)
      PROVE  IInv'
  BY <1>3, BeginRunStep, BeginWebhookStep, BeginEventStep
<1>4. ASSUME NEW p \in Procs, Proceed(p) PROVE IInv'
  BY <1>4, GetStep, StoreStep, FetchStep, WriteStep DEF Proceed
<1>5. ASSUME NEW p \in Procs, CallRaises(p) \/ Crash(p) PROVE IInv'
  BY <1>5, FaultStep
<1>6. CASE UNCHANGED vars
  <2>1. TypeOK' /\ Lacking' = Lacking
    BY <1>6 DEF vars, IInv, TypeOK, Lacking
  <2> QED
    BY <1>6, <2>1 DEF vars, IInv, JobTells
<1> QED
  BY <1>1, <1>2, <1>3, <1>4, <1>5, <1>6 DEF Next

LEMMA Inductive == Spec => []IInv
BY IInvInit, IInvStep, PTL DEF Spec

-----------------------------------------------------------------------------
(* Type correctness, and only a webhook configuration is ever cached as      *)
(* absent (config_manager.py:36-60), whatever overlaps or fails.             *)
THEOREM TypeCorrect == Spec => []TypeOK
BY Inductive, PTL DEF IInv

(* For any number of processes and any order of events, an action is found   *)
(* unconfigured only if the portal had no configuration of it at some time   *)
(* since the run began (action_runner.py:233-245, config_manager.py:62-90).  *)
THEOREM AbsenceIsReal == Spec => []NoFalseAbsence
<1>1. IInv => NoFalseAbsence
  BY DEF IInv, JobTells, NoFalseAbsence
<1> QED
  BY <1>1, Inductive, PTL
-----------------------------------------------------------------------------
(* One request or event at a time: what an event does to what the queue      *)
(* tells.  First, adding an event to a queue q and taking the first off it.  *)
LEMMA TouchesAppend ==
  ASSUME NEW q \in Seq(Event), NEW e \in Event, NEW k, NEW f
  PROVE  Touches(Append(q, e), k, f) =
           Touches(q, k, f) \cup
             (IF e.key = k /\ (e.kind = "updated" => e.field = f) THEN {Len(q) + 1} ELSE {})
<1> DEFINE r == Append(q, e)
<1>1. /\ Len(q) \in Nat /\ DOMAIN q = 1..Len(q) /\ DOMAIN r = 1..Len(q)+1
      /\ r[Len(q)+1] = e /\ \A i \in 1..Len(q) : r[i] = q[i]
  OBVIOUS
<1> HIDE DEF r
<1>2. DOMAIN r = DOMAIN q \cup {Len(q) + 1} /\ Len(q) + 1 \notin DOMAIN q
  BY <1>1
<1>3. Touches(r, k, f) = Touches(q, k, f) \cup
        (IF e.key = k /\ (e.kind = "updated" => e.field = f) THEN {Len(q) + 1} ELSE {})
  BY <1>1, <1>2 DEF Touches
<1> QED
  BY <1>3 DEF r

LEMMA TouchesTail ==
  ASSUME NEW q \in Seq(Event), q # <<>>, NEW k, NEW f
  PROVE  /\ \A i \in Touches(Tail(q), k, f) :
              i \in 1..Len(q)-1 /\ i + 1 \in Touches(q, k, f) /\ Tail(q)[i] = q[i + 1]
         /\ \A i \in Touches(q, k, f) : i # 1 => i \in 2..Len(q) /\ i - 1 \in Touches(Tail(q), k, f)
<1> DEFINE r == Tail(q)
<1>1. /\ Len(q) \in Nat \ {0} /\ DOMAIN q = 1..Len(q) /\ DOMAIN r = 1..Len(q)-1
      /\ \A i \in 1..Len(q)-1 : r[i] = q[i + 1]
  OBVIOUS
<1> HIDE DEF r
<1>2. \A i \in Touches(r, k, f) :
        i \in 1..Len(q)-1 /\ i + 1 \in Touches(q, k, f) /\ r[i] = q[i + 1]
  BY <1>1 DEF Touches
<1>3. \A i \in Touches(q, k, f) : i # 1 => i \in 2..Len(q) /\ i - 1 \in Touches(r, k, f)
  <2> SUFFICES ASSUME NEW i \in Touches(q, k, f), i # 1
               PROVE  i \in 2..Len(q) /\ i - 1 \in Touches(r, k, f)
    OBVIOUS
  <2>1. i \in 2..Len(q) /\ i - 1 \in 1..Len(q)-1 /\ r[i - 1] = q[(i - 1) + 1] /\ (i - 1) + 1 = i
    BY <1>1 DEF Touches
  <2> QED
    BY <1>1, <2>1 DEF Touches
<1> QED
  BY <1>2, <1>3 DEF r

(* An event that happened in the portal, which has c now and had b before.   *)
Happens(e, k, b, c) ==
  IF e.key # k THEN c = b
  ELSE \A f \in Fields :
         IF e.kind = "updated" => e.field = f THEN Says(e, c, f)
         ELSE b # Missing /\ c # Missing /\ c[f] = b[f]

LEMMA AppendTells ==
  ASSUME NEW q \in Seq(Event), NEW e \in Event, NEW k, NEW b, NEW c,
         Happens(e, k, b, c), Tells(q, k, b)
  PROVE  /\ Tells(Append(q, e), k, c)
         /\ \A v : Agrees(v, b, k, q) => Agrees(v, c, k, Append(q, e))
<1> DEFINE r == Append(q, e)
<1>1. /\ Len(q) \in Nat /\ r[Len(q)+1] = e /\ \A i \in 1..Len(q) : r[i] = q[i]
      /\ DOMAIN q = 1..Len(q)
  OBVIOUS
<1>2. \A f : Touches(r, k, f) = Touches(q, k, f) \cup
        (IF e.key = k /\ (e.kind = "updated" => e.field = f) THEN {Len(q) + 1} ELSE {})
  BY TouchesAppend
<1>3. \A f : Touches(q, k, f) \subseteq 1..Len(q)
  BY <1>1 DEF Touches
<1> HIDE DEF r
<1>4. ASSUME NEW f \in Fields, NEW i \in Touches(r, k, f), \A j \in Touches(r, k, f) : j <= i
      PROVE  Says(r[i], c, f)
  <2>1. CASE e.key = k /\ (e.kind = "updated" => e.field = f)
    <3>1. i = Len(q) + 1
      <4>1. Touches(r, k, f) = Touches(q, k, f) \cup {Len(q) + 1}
        BY <1>2, <2>1
      <4>2. i \in 1..Len(q) \cup {Len(q) + 1} /\ Len(q) + 1 <= i
        BY <1>3, <1>4, <4>1
      <4> QED
        BY <1>1, <4>2
    <3> QED
      BY <1>1, <2>1, <3>1 DEF Happens
  <2>2. CASE ~(e.key = k /\ (e.kind = "updated" => e.field = f))
    <3>1. i \in Touches(q, k, f) /\ (\A j \in Touches(q, k, f) : j <= i) /\ r[i] = q[i]
      BY <1>1, <1>2, <1>3, <1>4, <2>2
    <3>2. Says(q[i], b, f)
      BY <3>1 DEF Tells
    <3>3. c = b \/ (b # Missing /\ c # Missing /\ c[f] = b[f])
      BY <2>2 DEF Happens
    <3> QED
      BY <3>1, <3>2, <3>3 DEF Says
  <2> QED
    BY <2>1, <2>2
<1>5. ASSUME NEW v, Agrees(v, b, k, q), NEW f \in Fields, Touches(r, k, f) = {}
      PROVE  IF v = Missing THEN c = Missing ELSE c # Missing /\ v[f] = c[f]
  <2>1. Touches(q, k, f) = {} /\ ~(e.key = k /\ (e.kind = "updated" => e.field = f))
    BY <1>2, <1>5
  <2>2. c = b \/ (b # Missing /\ c # Missing /\ c[f] = b[f])
    BY <2>1 DEF Happens
  <2> QED
    BY <1>5, <2>1, <2>2 DEF Agrees
<1> QED
  BY <1>4, <1>5 DEF Tells, Agrees, r

LEMMA TailTells ==
  ASSUME NEW q \in Seq(Event), q # <<>>, NEW k, NEW c, Tells(q, k, c)
  PROVE  /\ Tells(Tail(q), k, c)
         /\ \A v : q[1].key # k /\ Agrees(v, c, k, q) => Agrees(v, c, k, Tail(q))
<1>1. Len(q) \in Nat \ {0} /\ DOMAIN q = 1..Len(q)
  OBVIOUS
<1>2. ASSUME NEW f \in Fields, NEW i \in Touches(Tail(q), k, f),
             \A j \in Touches(Tail(q), k, f) : j <= i
      PROVE  Says(Tail(q)[i], c, f)
  <2>1. i \in 1..Len(q)-1 /\ i + 1 \in Touches(q, k, f) /\ Tail(q)[i] = q[i + 1]
    BY TouchesTail
  <2>2. \A j \in Touches(q, k, f) : j <= i + 1
    <3> SUFFICES ASSUME NEW j \in Touches(q, k, f), j # 1 PROVE j <= i + 1
      BY <1>1, <2>1
    <3>1. j \in 2..Len(q) /\ j - 1 \in Touches(Tail(q), k, f)
      BY TouchesTail
    <3>2. j - 1 <= i
      BY <1>2, <3>1
    <3> QED
      BY <1>1, <2>1, <3>1, <3>2
  <2> QED
    BY <2>1, <2>2 DEF Tells
<1>3. ASSUME NEW v, q[1].key # k, Agrees(v, c, k, q), NEW f \in Fields,
             Touches(Tail(q), k, f) = {}
      PROVE  IF v = Missing THEN c = Missing ELSE c # Missing /\ v[f] = c[f]
  <2>1. 1 \notin Touches(q, k, f)
    BY <1>3 DEF Touches
  <2>2. Touches(q, k, f) = {}
    BY <1>3, <2>1, TouchesTail
  <2> QED
    BY <1>3, <2>2 DEF Agrees
<1> QED
  BY <1>2, <1>3 DEF Tells, Agrees

(* Where only the first event touches a field, it says what the portal has.  *)
LEMMA FirstSays ==
  ASSUME NEW q \in Seq(Event), q # <<>>, NEW k, NEW c, Tells(q, k, c),
         NEW f \in Fields, Touches(Tail(q), k, f) = {}, Touches(q, k, f) # {}
  PROVE  q[1].key = k /\ (q[1].kind = "updated" => q[1].field = f) /\ Says(q[1], c, f)
<1>1. \A i \in Touches(q, k, f) : i = 1
  BY TouchesTail
<1>2. 1 \in Touches(q, k, f) /\ \A j \in Touches(q, k, f) : j <= 1
  BY <1>1
<1> QED
  BY <1>2 DEF Tells, Touches

(* What a handler writes agrees with the portal once its event is answered.  *)
LEMMA CreatedAgrees ==
  ASSUME NEW q \in Seq(Event), q # <<>>, NEW c, Tells(q, q[1].key, c),
         q[1].kind = "created", q[1].config # Missing
  PROVE  Agrees(q[1].config, c, q[1].key, Tail(q))
<1> SUFFICES ASSUME NEW f \in Fields, Touches(Tail(q), q[1].key, f) = {}
             PROVE  c # Missing /\ q[1].config[f] = c[f]
  BY DEF Agrees
<1>1. 1 \in Touches(q, q[1].key, f)
  BY DEF Touches
<1> QED
  BY <1>1, FirstSays DEF Says

LEMMA UpdatedAgrees ==
  ASSUME NEW q \in Seq(Event), q # <<>>, NEW c, Tells(q, q[1].key, c),
         q[1].kind = "updated", NEW v \in Config, Agrees(v, c, q[1].key, q),
         [v EXCEPT ![q[1].field] = q[1].n] \in Config
  PROVE  Agrees([v EXCEPT ![q[1].field] = q[1].n], c, q[1].key, Tail(q))
<1> DEFINE w == [v EXCEPT ![q[1].field] = q[1].n]
<1>1. w # Missing /\ v # Missing
  BY Constants
<1>2. ASSUME NEW f \in Fields, Touches(Tail(q), q[1].key, f) = {}
      PROVE  c # Missing /\ w[f] = c[f]
  <2>1. CASE Touches(q, q[1].key, f) = {}
    <3>1. c # Missing /\ v[f] = c[f]
      BY <1>1, <2>1 DEF Agrees
    <3>2. 1 \in DOMAIN q
      OBVIOUS
    <3>3. q[1].field # f
      BY <2>1, <3>2 DEF Touches
    <3> QED
      BY <3>1, <3>3 DEF Config
  <2>2. CASE Touches(q, q[1].key, f) # {}
    <3>1. q[1].field = f /\ Says(q[1], c, f)
      BY <1>2, <2>2, FirstSays
    <3> QED
      BY <3>1 DEF Says, Config
  <2> QED
    BY <2>1, <2>2
<1> HIDE DEF w
<1>3. Agrees(w, c, q[1].key, Tail(q))
  BY <1>1, <1>2 DEF Agrees
<1> QED
  BY <1>3 DEF w
-----------------------------------------------------------------------------
(* The steps of the only process, and of the portal.                         *)
LEMMA OnlyOne == ASSUME Serial, NEW p \in Procs, NEW q \in Procs PROVE p = q
BY DEF Serial

LEMMA KeysLive ==
  /\ Live \subseteq Keys \ {Webhook} /\ Summary \in Live
  /\ portal[Summary] # Missing => Live = {Summary} \cup Actions
BY Constants DEF Live

(* A step that touches nothing but the locals of the process.                *)
LEMMA SerialLocal ==
  ASSUME Serial, IInv, SerialInv, NEW p \in Procs, NEW j, NEW place, Set(p, j, place),
         UNCHANGED <<portal, edits, queue, cache>>, JobAgrees(j, place),
         portal[Summary] = Missing /\ edits = 0 => place \notin {"store", "write"}
  PROVE  SerialInv'
<1>1. \A q \in Procs : q = p /\ job'[q] = j /\ pc'[q] = place
  BY OnlyOne DEF Set, IInv, TypeOK
<1>2. QueueTells' /\ CacheAgrees'
  BY DEF SerialInv, QueueTells, CacheAgrees, Live
<1>3. NotYetCreated'
  BY <1>1 DEF SerialInv, NotYetCreated
<1>4. \A q \in Procs : JobAgrees(job[q], pc[q])'
  BY <1>1 DEF JobAgrees, EventAgrees, RunAgrees, Live
<1> QED
  BY <1>2, <1>3, <1>4 DEF SerialInv

(* A run in peace finds what the portal has.                                 *)
LEMMA FoundRun ==
  ASSUME NEW j \in Job, NEW k \in Keys, NEW value \in Value, RunAgrees(j, "get"),
         k # Webhook => value = portal[k], k = Summary => portal[Summary] # Missing
  PROVE  RunAgrees(Found(j, k, value), Onward(Found(j, k, value)))
<1> DEFINE left == j.look \ {k}
           again == IF left = {} THEN j.then ELSE {}
           g == Found(j, k, value)
<1>1. g = [j EXCEPT !.got[k] = value, !.look = left \cup again, !.then = @ \ again]
  BY DEF Found
<1>2. g.look = left \cup again /\ g.got = [j.got EXCEPT ![k] = value]
  BY <1>1 DEF Job
<1> HIDE DEF g
<1>3. \A x \in {Summary} \cup Actions : x \in g.look \/ g.got[x] = portal[x]
  BY <1>2, JobFields, Constants DEF RunAgrees
<1>4. Summary \in g.look \/ portal[Summary] # Missing
  BY <1>2 DEF RunAgrees
<1>5. Onward(g) # "store" /\ (Onward(g) = "done" => g.look = {})
  BY DEF Onward
<1> QED
  BY <1>3, <1>4, <1>5 DEF RunAgrees, g

(* An update finds the one key it has to look up, and goes on to write.      *)
GoesToWrite(g, j, k, value) ==
  /\ g.event = j.event /\ ~g.calm /\ g.then = {} /\ g.look = {}
  /\ g.got[k] = value /\ Onward(g) = "write"

LEMMA FoundEvent ==
  ASSUME NEW j \in Job, j.event # <<>>, NEW value \in Value, NEW k \in Keys,
         k = Head(j.event).key, EventAgrees(j, "get"), NEW g, g = Found(j, k, value)
  PROVE  GoesToWrite(g, j, k, value)
<1> DEFINE left == j.look \ {k}
           again == IF left = {} THEN j.then ELSE {}
<1>1. g = [j EXCEPT !.got[k] = value, !.look = left \cup again, !.then = @ \ again]
  BY DEF Found
<1>2. left = {} /\ again = {} /\ ~j.calm /\ j.then = {}
  BY DEF EventAgrees
<1> HIDE DEF left, again
<1>3. /\ g.look = {} /\ g.got = [j.got EXCEPT ![k] = value] /\ g.event = j.event
      /\ ~g.calm /\ g.then = {}
  BY <1>1, <1>2 DEF Job
<1>4. g.got[k] = value /\ Onward(g) = "write"
  BY <1>3, JobFields DEF Onward
<1> QED
  BY <1>3, <1>4 DEF GoesToWrite

(* With nothing left in the queue, what agrees with the portal is the same.  *)
LEMMA AgreeingIsEqual ==
  ASSUME Serial, NEW v \in Config, NEW c \in Value, NEW k, Agrees(v, c, k, <<>>)
  PROVE  v = c
<1>1. \A f \in Fields : Touches(<<>>, k, f) = {}
  BY DEF Touches
<1>2. v # Missing
  BY Constants
<1>3. \A f \in Fields : c # Missing /\ v[f] = c[f]
  BY <1>1, <1>2 DEF Agrees
<1>4. c \in Config
  BY <1>3 DEF Serial, Value
<1> QED
  BY <1>3, <1>4 DEF Config

(* What is in the cache for a run in peace.                                  *)
LEMMA CachedIsPortal ==
  ASSUME Serial, IInv, SerialInv, queue = <<>>, NEW k \in Live, cache[k] # Empty
  PROVE  cache[k] = portal[k] /\ portal[k] # Missing
<1>1. cache[k] \in Config /\ portal[k] \in Value
  BY KeysLive DEF IInv, TypeOK, Value
<1>2. Agrees(cache[k], portal[k], k, <<>>)
  BY DEF SerialInv, CacheAgrees
<1>3. cache[k] = portal[k]
  BY <1>1, <1>2, AgreeingIsEqual
<1> QED
  BY <1>1, <1>3, Constants

LEMMA SerialGet ==
  ASSUME Serial, IInv, SerialInv, NEW p \in Procs, NEW k \in Keys, Get(p, k)
  PROVE  SerialInv'
<1>1. /\ job[p] \in Job /\ JobTells(job[p], "get") /\ JobAgrees(job[p], "get")
      /\ k \in Turn(job[p].look) /\ k \in job[p].look
      /\ UNCHANGED <<portal, edits, queue, cache>>
  <2>1. job[p] \in Job /\ pc[p] = "get" /\ JobTells(job[p], pc[p]) /\ JobAgrees(job[p], pc[p])
    BY DEF IInv, TypeOK, Get, SerialInv
  <2> QED
    BY <2>1, TurnOf, JobFields DEF Get
<1>2. job[p].event # <<>> => k = Head(job[p].event).key /\ k # Webhook
  <2>1. ASSUME job[p].event # <<>> PROVE job[p].look \subseteq {Head(job[p].event).key}
    BY <1>1, <2>1 DEF JobAgrees, EventAgrees
  <2>2. ASSUME job[p].event # <<>> PROVE Head(job[p].event).key # Webhook
    BY <1>1, <2>2, Constants DEF JobTells, Posted, Event
  <2> QED
    BY <1>1, <2>1, <2>2
<1>3. CASE cache[k] # Empty
  <2> DEFINE j == Found(job[p], k, cache[k])
  <2>1. Set(p, j, Onward(j))
    BY <1>3 DEF Get
  <2>2. cache[k] \in Value /\ (k # Webhook => cache[k] # Missing)
    BY <1>3 DEF IInv, TypeOK
  <2>3. Onward(j) \in {"get", "write", "done"} /\ (Onward(j) = "write" => j.event # <<>>)
    BY DEF Onward
  <2>4. j.event = job[p].event /\ j.calm = job[p].calm
    BY <1>1 DEF Found, Job
  <2>5. ASSUME j.event # <<>> PROVE EventAgrees(j, Onward(j))
    <3>1. /\ j.event = job[p].event /\ ~j.calm /\ j.then = {} /\ j.look = {}
          /\ j.got[k] = cache[k] /\ Onward(j) = "write" /\ EventAgrees(job[p], "get")
      <4>1. job[p].event # <<>> /\ EventAgrees(job[p], "get")
        BY <1>1, <2>4, <2>5 DEF JobAgrees
      <4>2. k = Head(job[p].event).key /\ job[p] \in Job
        BY <1>1, <1>2, <4>1
      <4>3. j = Found(job[p], k, cache[k])
        OBVIOUS
      <4> HIDE DEF j
      <4>4. GoesToWrite(j, job[p], k, cache[k])
        BY <2>2, <4>1, <4>2, <4>3, FoundEvent
      <4> QED
        BY <4>1, <4>4 DEF GoesToWrite
    <3>2. k \in Live => Agrees(cache[k], portal[k], k, queue)
      BY <1>3 DEF SerialInv, CacheAgrees
    <3> HIDE DEF j
    <3> QED
      BY <1>2, <2>2, <2>4, <2>5, <3>1, <3>2 DEF EventAgrees
  <2>6. ASSUME j.calm PROVE RunAgrees(j, Onward(j))
    <3>1. RunAgrees(job[p], "get")
      BY <1>1, <2>4, <2>6 DEF JobAgrees
    <3>2. k # Webhook => k \in Live
      <4>1. CASE k \in Actions
        BY <1>1, <3>1, <4>1, Constants DEF Turn, RunAgrees, Live
      <4> QED
        BY <4>1, KeysLive DEF Keys
    <3>3. k # Webhook => cache[k] = portal[k] /\ portal[k] # Missing
      BY <1>3, <3>1, <3>2, CachedIsPortal DEF RunAgrees
    <3> QED
      BY <1>1, <2>2, <3>1, <3>3, FoundRun, Constants
  <2> HIDE DEF j
  <2>7. JobAgrees(j, Onward(j))
    BY <2>3, <2>5, <2>6 DEF JobAgrees
  <2>8. portal[Summary] = Missing /\ edits = 0 => Onward(j) \notin {"store", "write"}
    BY <1>3, <2>3 DEF SerialInv, NotYetCreated
  <2> QED
    BY <1>1, <2>1, <2>7, <2>8, SerialLocal
<1>4. CASE cache[k] = Empty
  <2> DEFINE j == [job[p] EXCEPT !.key = k]
  <2>1. Set(p, j, "fetch")
    BY <1>4 DEF Get
  <2>2. /\ j.event = job[p].event /\ j.look = job[p].look /\ j.key = k
        /\ j.got = job[p].got /\ j.calm = job[p].calm /\ j.then = job[p].then
    BY <1>1 DEF Job
  <2> HIDE DEF j
  <2>3. JobAgrees(j, "fetch")
    BY <1>1, <1>2, <1>4, <2>2 DEF JobAgrees, EventAgrees, RunAgrees
  <2> QED
    BY <1>1, <2>1, <2>3, SerialLocal
<1> QED
  BY <1>3, <1>4

LEMMA SerialFetch ==
  ASSUME Serial, IInv, SerialInv, NEW p \in Procs, Fetch(p) PROVE SerialInv'
<1> DEFINE save == Keys \ {a \in Actions : portal[a] = Missing}
           j == [job[p] EXCEPT !.fresh = portal, !.save = save]
<1>1. job[p] \in Job /\ JobAgrees(job[p], "fetch") /\ portal[Summary] # Missing
      /\ UNCHANGED <<portal, edits, queue, cache>>
  BY DEF IInv, TypeOK, Fetch, SerialInv
<1>2. Set(p, j, "store")
  BY DEF Fetch
<1> HIDE DEF save
<1>3. /\ j.event = job[p].event /\ j.look = job[p].look /\ j.key = job[p].key
      /\ j.got = job[p].got /\ j.calm = job[p].calm /\ j.then = job[p].then
      /\ j.fresh = portal
  BY <1>1 DEF Job
<1> HIDE DEF j
<1>4. \A k : Agrees(portal[k], portal[k], k, queue)
  BY DEF Agrees
<1>5. JobAgrees(j, "store")
  BY <1>1, <1>3, <1>4 DEF JobAgrees, EventAgrees, RunAgrees
<1> QED
  BY <1>1, <1>2, <1>5, SerialLocal
(* While a reload is stored, the rest of its answer stays as good as it was. *)
LEMMA SerialStore ==
  ASSUME Serial, IInv, SerialInv, NEW p \in Procs, NEW k \in Keys, Store(p, k)
  PROVE  SerialInv'
<1> DEFINE saved == [job[p] EXCEPT !.save = @ \ {k}]
           key == job[p].key
           value == job[p].fresh[key]
           g == Found(saved, key, value)
<1>1. /\ job[p] \in Job /\ JobTells(job[p], "store") /\ JobAgrees(job[p], "store")
      /\ k \in job[p].save /\ pc[p] = "store" /\ key \in Keys /\ value \in Value
  <2>1. job[p] \in Job /\ pc[p] = "store" /\ JobTells(job[p], pc[p]) /\ JobAgrees(job[p], pc[p])
    BY DEF IInv, TypeOK, Store, SerialInv
  <2> QED
    BY <2>1, TurnOf, JobFields DEF Store
<1>2. cache' = [cache EXCEPT ![k] = job[p].fresh[k]] /\ UNCHANGED <<portal, edits, queue>>
      /\ cache \in [Keys -> Value \cup {Empty}]
  BY DEF Store, Put, IInv, TypeOK
<1>3. /\ saved.event = job[p].event /\ saved.look = job[p].look /\ saved.key = key
      /\ saved.got = job[p].got /\ saved.calm = job[p].calm /\ saved.then = job[p].then
      /\ saved.fresh = job[p].fresh /\ saved \in Job
  BY <1>1 DEF Job
<1>4. \A q \in Procs : \/ job'[q] = saved /\ pc'[q] = "store"
                       \/ job'[q] = g /\ pc'[q] = Onward(g)
  <2>1. Set(p, saved, "store")
        \/ Set(p, Found(saved, saved.key, saved.fresh[saved.key]),
                  Onward(Found(saved, saved.key, saved.fresh[saved.key])))
    BY DEF Store
  <2> HIDE DEF saved
  <2>2. \A q \in Procs : q = p
    BY OnlyOne
  <2> QED
    BY <1>3, <2>1, <2>2 DEF Set, IInv, TypeOK
<1>5. QueueTells' /\ CacheAgrees'
  <2>1. QueueTells' /\ Live' = Live
    BY <1>2 DEF SerialInv, QueueTells, Live
  <2>2. ASSUME NEW x \in Live, cache'[x] # Empty
        PROVE  Agrees(cache'[x], portal[x], x, queue)
    <3>1. CASE x = k
      BY <1>1, <1>2, <3>1, KeysLive DEF JobAgrees
    <3>2. CASE x # k
      BY <1>2, <2>2, <3>2 DEF SerialInv, CacheAgrees
    <3> QED
      BY <3>1, <3>2
  <2> QED
    BY <1>2, <2>1, <2>2 DEF CacheAgrees
<1>6. NotYetCreated'
  BY <1>1, <1>2 DEF SerialInv, NotYetCreated
<1>7. key # Webhook /\ value = Missing => cache'[key] = Empty
  BY <1>1, <1>2 DEF JobAgrees, JobTells
<1> HIDE DEF saved
<1>8. ASSUME NEW q \in Procs, job'[q] = saved, pc'[q] = "store"
      PROVE  JobAgrees(job[q], pc[q])'
  BY <1>1, <1>2, <1>3, <1>7, <1>8 DEF JobAgrees, EventAgrees, RunAgrees, Live
<1>9. ASSUME NEW q \in Procs, job'[q] = g, pc'[q] = Onward(g)
      PROVE  JobAgrees(job[q], pc[q])'
  <2>1. Onward(g) \in {"get", "write", "done"}
    BY DEF Onward
  <2>2. g.event = saved.event /\ g.calm = saved.calm
    BY <1>3 DEF Found, Job
  <2>3. ASSUME g.event # <<>> PROVE EventAgrees(job[q], pc[q])'
    <3>1. job[p].event # <<>> /\ EventAgrees(job[p], "store") /\ EventAgrees(saved, "get")
      BY <1>1, <1>3, <2>2, <2>3 DEF JobAgrees, EventAgrees
    <3>2. key = Head(saved.event).key /\ key # Webhook
      <4>1. key = Head(saved.event).key
        BY <1>3, <3>1 DEF EventAgrees
      <4>2. Head(saved.event) \in Posted
        BY <1>1, <1>3, <3>1 DEF JobTells
      <4> QED
        BY <4>1, <4>2, Constants DEF Posted, Event
    <3>3. /\ g.event = saved.event /\ ~g.calm /\ g.then = {} /\ g.look = {}
          /\ g.got[key] = value /\ Onward(g) = "write"
      <4>1. g = Found(saved, key, value) /\ saved.event # <<>>
        BY <1>3, <3>1
      <4> HIDE DEF g, value, key
      <4>2. GoesToWrite(g, saved, key, value)
        BY <1>1, <1>3, <3>1, <3>2, <4>1, FoundEvent
      <4> QED
        BY <4>2 DEF GoesToWrite
    <3>4. key \in Live => Agrees(value, portal[key], key, queue)
      BY <1>1 DEF JobAgrees
    <3> HIDE DEF g, value, key
    <3> QED
      BY <1>2, <1>7, <1>9, <3>1, <3>2, <3>3, <3>4 DEF EventAgrees, Live
  <2>4. ASSUME g.calm PROVE RunAgrees(job[q], pc[q])'
    <3>1. RunAgrees(saved, "get") /\ job[p].fresh = portal /\ portal[Summary] # Missing
      BY <1>1, <1>3, <2>2, <2>4 DEF JobAgrees, RunAgrees
    <3>2. RunAgrees(g, Onward(g))
      BY <1>1, <1>3, <3>1, FoundRun
    <3> HIDE DEF g
    <3> QED
      BY <1>2, <1>9, <3>2 DEF RunAgrees
  <2> HIDE DEF g
  <2> QED
    BY <1>9, <2>1, <2>3, <2>4 DEF JobAgrees
<1> QED
  BY <1>4, <1>5, <1>6, <1>8, <1>9 DEF SerialInv

-----------------------------------------------------------------------------
LEMMA SerialBeginRun ==
  ASSUME Serial, IInv, SerialInv, NEW p \in Procs, NEW a \in Actions, BeginRun(p, a)
  PROVE  SerialInv'
<1> DEFINE j == [NewJob EXCEPT !.look = Keys, !.then = {a}]
<1>1. Set(p, j, "get") /\ UNCHANGED <<portal, edits, queue, cache>>
  BY DEF BeginRun
<1>2. j.event = <<>> /\ j.look = Keys /\ (j.calm => queue = <<>>)
  BY DEF NewJob
<1> HIDE DEF j
<1>3. JobAgrees(j, "get")
  BY <1>2, Constants DEF JobAgrees, RunAgrees
<1> QED
  BY <1>1, <1>3, SerialLocal

LEMMA SerialBeginWebhook ==
  ASSUME Serial, IInv, SerialInv, NEW p \in Procs, BeginWebhook(p) PROVE SerialInv'
<1> DEFINE j == [NewJob EXCEPT !.look = Keys, !.ttl = TRUE]
<1>1. Set(p, j, "get") /\ UNCHANGED <<portal, edits, queue, cache>>
  BY DEF BeginWebhook
<1>2. j.event = <<>> /\ j.look = Keys /\ (j.calm => queue = <<>>)
  BY DEF NewJob
<1> HIDE DEF j
<1>3. JobAgrees(j, "get")
  BY <1>2, Constants DEF JobAgrees, RunAgrees
<1> QED
  BY <1>1, <1>3, SerialLocal

LEMMA SerialBeginEvent ==
  ASSUME Serial, IInv, SerialInv, NEW p \in Procs, NEW i \in DOMAIN queue, BeginEvent(p, i)
  PROVE  SerialInv'
<1> DEFINE e == queue[1]
           update == [NewJob EXCEPT !.event = <<e>>, !.look = {e.key}]
           other == [NewJob EXCEPT !.event = <<e>>]
<1>1. i = 1 /\ UNCHANGED <<portal, edits, queue, cache>>
  BY DEF BeginEvent, Serial
<1>2. queue # <<>>
  OBVIOUS
<1>3. CASE e.kind = "updated"
  <2>1. Set(p, update, "get")
    BY <1>1, <1>3 DEF BeginEvent
  <2>2. /\ update.event = <<e>> /\ Head(<<e>>) = e
        /\ update.look = {e.key} /\ update.then = {} /\ ~update.calm
    <3> HIDE DEF e
    <3>1. update.event = <<e>> /\ update.look = {e.key} /\ update.then = {}
      BY DEF NewJob
    <3>2. update.calm = (queue = <<>>)
      BY DEF NewJob
    <3>3. Head(<<e>>) = e
      OBVIOUS
    <3> HIDE DEF update
    <3> QED
      BY <1>2, <3>1, <3>2, <3>3
  <2> HIDE DEF update
  <2>3. JobAgrees(update, "get")
    BY <1>2, <2>2 DEF JobAgrees, EventAgrees
  <2> QED
    BY <1>1, <2>1, <2>3, SerialLocal
<1>4. CASE e.kind # "updated"
  <2>1. Set(p, other, "write")
    BY <1>1, <1>4 DEF BeginEvent
  <2>2. /\ other.event = <<e>> /\ Head(<<e>>) = e
        /\ other.look = {} /\ other.then = {} /\ ~other.calm
    <3> HIDE DEF e
    <3>1. other.event = <<e>> /\ other.look = {} /\ other.then = {}
      BY DEF NewJob
    <3>2. other.calm = (queue = <<>>)
      BY DEF NewJob
    <3>3. Head(<<e>>) = e
      OBVIOUS
    <3> HIDE DEF other
    <3> QED
      BY <1>2, <3>1, <3>2, <3>3
  <2> HIDE DEF other
  <2>3. JobAgrees(other, "write")
    BY <1>2, <1>4, <2>2 DEF JobAgrees, EventAgrees
  <2>4. ~(portal[Summary] = Missing /\ edits = 0)
    BY <1>2 DEF SerialInv, NotYetCreated
  <2> QED
    BY <1>1, <2>1, <2>3, <2>4, SerialLocal
<1> QED
  BY <1>3, <1>4

-----------------------------------------------------------------------------
(* The process drops what it was doing.                                      *)
LEMMA SerialRest ==
  ASSUME Serial, IInv, NEW p \in Procs, Rest(p), QueueTells', CacheAgrees',
         portal[Summary]' = Missing /\ edits' = 0 =>
           queue' = <<>> /\ \A k \in Keys : cache'[k] = Empty
  PROVE  SerialInv'
<1> DEFINE j == [NewJob EXCEPT !.calm = FALSE]
<1>1. \A q \in Procs : job'[q] = j /\ pc'[q] = "idle"
  BY OnlyOne DEF Rest, Set, IInv, TypeOK
<1>2. j.event = <<>> /\ ~j.calm
  BY DEF NewJob
<1> HIDE DEF j
<1>3. \A q \in Procs : JobAgrees(job[q], pc[q])'
  BY <1>1, <1>2 DEF JobAgrees
<1> QED
  BY <1>1, <1>3 DEF SerialInv, NotYetCreated

LEMMA SerialCrash ==
  ASSUME Serial, IInv, SerialInv, NEW p \in Procs, Crash(p) PROVE SerialInv'
<1>1. Rest(p) /\ UNCHANGED <<portal, edits, queue, cache>>
  BY DEF Crash, Unanswered
<1>2. QueueTells' /\ CacheAgrees'
  BY <1>1 DEF SerialInv, QueueTells, CacheAgrees, Live
<1> QED
  BY <1>1, <1>2, SerialRest DEF SerialInv, NotYetCreated

(* Events come in order, so what is answered is the first of the queue.      *)
LEMMA AnsweredIsTail ==
  ASSUME IInv, QueueTells, NEW p \in Procs, job[p].event # <<>>, queue # <<>>,
         Head(job[p].event) = queue[1]
  PROVE  Answered(p) = Tail(queue)
<1> DEFINE at == {i \in DOMAIN queue : queue[i] = queue[1]}
           i == CHOOSE i \in at : TRUE
           shorter == [j \in 1..Len(queue)-1 |-> IF j < i THEN queue[j] ELSE queue[j + 1]]
<1>1. queue \in Seq(Event) /\ Len(queue) \in Nat \ {0} /\ DOMAIN queue = 1..Len(queue)
  BY DEF IInv, TypeOK
<1>2. at = {1}
  <2>1. 1 \in at
    BY <1>1
  <2>2. ASSUME NEW j \in at PROVE j = 1
    <3>1. j \in 1..Len(queue) /\ 1 \in DOMAIN queue
      BY <1>1
    <3>2. queue[1].n \in Int
      <4>1. queue[1] \in Event
        BY <1>1, <3>1
      <4> QED
        BY <4>1, Constants DEF Event
    <3>3. ~(1 < j)
      BY <1>1, <3>1, <3>2 DEF QueueTells
    <3> QED
      BY <3>1, <3>3
  <2> QED
    BY <2>1, <2>2
<1>3. i = 1
  BY <1>2
<1>4. Answered(p) = shorter
  BY <1>2 DEF Answered
<1> HIDE DEF i
<1>5. shorter = [j \in 1..Len(queue)-1 |-> queue[j + 1]]
  BY <1>3
<1>6. Tail(queue) = [j \in 1..Len(queue)-1 |-> queue[j + 1]]
  <2> DEFINE rest == [j \in 1..Len(queue)-1 |-> queue[j + 1]]
  <2>1. /\ Tail(queue) \in Seq(Event) /\ Len(Tail(queue)) = Len(queue)-1
        /\ \A j \in 1..Len(queue)-1 : Tail(queue)[j] = queue[j + 1]
    BY <1>1
  <2>2. rest \in Seq(Event) /\ Len(rest) = Len(queue)-1
        /\ \A j \in 1..Len(queue)-1 : rest[j] = queue[j + 1]
    BY <1>1
  <2> HIDE DEF rest
  <2>3. Tail(queue) = rest
    BY <2>1, <2>2, SeqEqual
  <2> QED
    BY <2>3 DEF rest
<1> QED
  BY <1>4, <1>5, <1>6

(* The queue without its first event tells what is left to tell.             *)
LEMMA TailQueueTells ==
  ASSUME IInv, QueueTells, queue # <<>>, queue' = Tail(queue), UNCHANGED <<portal, edits>>
  PROVE  QueueTells'
<1>1. /\ queue \in Seq(Event) /\ Len(queue) \in Nat \ {0} /\ DOMAIN queue = 1..Len(queue)
      /\ DOMAIN Tail(queue) = 1..Len(queue)-1
      /\ \A i \in 1..Len(queue)-1 : Tail(queue)[i] = queue[i + 1]
  BY DEF IInv, TypeOK
<1>2. \A i \in DOMAIN Tail(queue) : i \in Int /\ i + 1 \in DOMAIN queue /\ Tail(queue)[i] = queue[i + 1]
  BY <1>1
<1>3. \A i, j \in DOMAIN Tail(queue) : i < j => Tail(queue)[i].n < Tail(queue)[j].n
  <2> SUFFICES ASSUME NEW i \in DOMAIN Tail(queue), NEW j \in DOMAIN Tail(queue), i < j
               PROVE  Tail(queue)[i].n < Tail(queue)[j].n
    OBVIOUS
  <2>1. i + 1 < j + 1
    BY <1>2
  <2> QED
    BY <1>2, <2>1 DEF QueueTells
<1>4. \A i \in DOMAIN Tail(queue) : Tail(queue)[i].n <= edits
  BY <1>2 DEF QueueTells
<1>5. \A k \in Live : Tells(Tail(queue), k, portal[k])
  BY <1>1, TailTells DEF QueueTells
<1>6. Live' = Live
  BY DEF Live
<1> QED
  BY <1>3, <1>4, <1>5, <1>6 DEF QueueTells

LEMMA SerialRaises ==
  ASSUME Serial, IInv, SerialInv, NEW p \in Procs, CallRaises(p) PROVE SerialInv'
<1>1. /\ pc[p] = "fetch" /\ portal[Summary] = Missing /\ Rest(p)
      /\ UNCHANGED <<portal, edits, cache>> /\ queue' = Answered(p)
      /\ JobAgrees(job[p], "fetch") /\ QueueTells /\ Live = {Summary} /\ Live' = Live
  <2>1. pc[p] = "fetch" /\ portal[Summary] = Missing
    BY DEF CallRaises, Fault, Serial
  <2> QED
    BY <2>1 DEF CallRaises, SerialInv, Live
<1>2. CASE job[p].event = <<>>
  <2>1. queue' = queue
    BY <1>1, <1>2 DEF Answered
  <2>2. QueueTells' /\ CacheAgrees'
    BY <1>1, <2>1 DEF SerialInv, QueueTells, CacheAgrees
  <2> QED
    BY <1>1, <2>1, <2>2, SerialRest DEF SerialInv, NotYetCreated
<1>3. CASE job[p].event # <<>>
  <2>1. queue # <<>> /\ Head(job[p].event) = queue[1] /\ cache[queue[1].key] = Empty
    BY <1>1, <1>3 DEF JobAgrees, EventAgrees
  <2>2. queue' = Tail(queue)
    BY <1>1, <1>3, <2>1, AnsweredIsTail
  <2>3. QueueTells'
    BY <1>1, <2>1, <2>2, TailQueueTells
  <2>4. CacheAgrees'
    <3> SUFFICES ASSUME cache[Summary] # Empty
                 PROVE  Agrees(cache[Summary], portal[Summary], Summary, Tail(queue))
      BY <1>1, <2>2 DEF CacheAgrees
    <3>1. queue[1].key # Summary
      BY <2>1
    <3>2. Agrees(cache[Summary], portal[Summary], Summary, queue)
      BY <1>1 DEF SerialInv, CacheAgrees
    <3>3. Tells(queue, Summary, portal[Summary]) /\ queue \in Seq(Event)
      BY <1>1 DEF QueueTells, IInv, TypeOK
    <3> QED
      BY <2>1, <3>1, <3>2, <3>3, TailTells
  <2>5. ~(portal[Summary] = Missing /\ edits = 0)
    BY <2>1 DEF SerialInv, NotYetCreated
  <2> QED
    BY <1>1, <2>3, <2>4, <2>5, SerialRest
<1> QED
  BY <1>2, <1>3

LEMMA SerialWrite ==
  ASSUME Serial, IInv, SerialInv, NEW p \in Procs, Write(p) PROVE SerialInv'
<1> DEFINE e == queue[1]
           old == job[p].got[e.key]
<1>1. /\ pc[p] = "write" /\ JobAgrees(job[p], "write") /\ JobTells(job[p], "write")
      /\ UNCHANGED <<portal, edits>> /\ queue' = Answered(p) /\ Rest(p) /\ job[p] \in Job
      /\ QueueTells /\ queue \in Seq(Event) /\ cache \in [Keys -> Value \cup {Empty}]
  BY DEF Write, SerialInv, IInv, TypeOK
<1>2. job[p].event # <<>> /\ queue # <<>> /\ Head(job[p].event) = e
  BY <1>1 DEF JobTells, JobAgrees, EventAgrees
<1>3. e \in Posted /\ e \in Event /\ e.key \in Keys /\ (e.kind = "updated" => old # Empty)
  <2>1. e \in Posted /\ (e.kind = "updated" => old # Empty)
    BY <1>1, <1>2 DEF JobTells
  <2> QED
    BY <2>1 DEF Posted, Event, Keys
<1>4. queue' = Tail(queue)
  BY <1>1, <1>2, AnsweredIsTail
<1>5. \/ e.kind = "created" /\ cache' = [cache EXCEPT ![e.key] = e.config]
      \/ e.kind = "deleted" /\ cache' = [cache EXCEPT ![e.key] = Empty]
      \/ /\ e.kind = "updated" /\ old # Missing
         /\ cache' = [cache EXCEPT ![e.key] = [old EXCEPT ![e.field] = e.n]]
      \/ e.kind = "updated" /\ old = Missing /\ cache' = cache
  <2>1. e.kind \in {"created", "updated", "deleted"}
    BY <1>3 DEF Event
  <2> HIDE DEF e
  <2> QED
    BY <1>2, <2>1 DEF Write, Put, Delete
<1>6. e.key \in Live /\ cache'[e.key] # Empty =>
        Agrees(cache'[e.key], portal[e.key], e.key, Tail(queue))
  <2> SUFFICES ASSUME e.key \in Live, cache'[e.key] # Empty
               PROVE  Agrees(cache'[e.key], portal[e.key], e.key, Tail(queue))
    OBVIOUS
  <2>1. Tells(queue, e.key, portal[e.key])
    BY <1>1 DEF QueueTells
  <2>2. CASE e.kind = "created" /\ cache' = [cache EXCEPT ![e.key] = e.config]
    <3>1. cache'[e.key] = e.config /\ e.config # Missing
      BY <1>1, <1>3, <2>2 DEF Posted
    <3> QED
      BY <1>1, <1>2, <2>1, <2>2, <3>1, CreatedAgrees
  <2>3. CASE cache' = [cache EXCEPT ![e.key] = Empty]
    BY <1>1, <1>3, <2>3
  <2>4. CASE /\ e.kind = "updated" /\ old # Missing
             /\ cache' = [cache EXCEPT ![e.key] = [old EXCEPT ![e.field] = e.n]]
    <3>1. old \in Config
      BY <1>1, <1>3, <2>4, JobFields DEF Value
    <3>2. [old EXCEPT ![e.field] = e.n] \in Config
      <4>1. e.n \in 0..MaxEdits
        BY <1>3 DEF Event
      <4> HIDE DEF old, e
      <4> QED
        BY <3>1, <4>1 DEF Config
    <3>3. Agrees(old, portal[e.key], e.key, queue)
      BY <1>1, <1>2, <2>4 DEF JobAgrees, EventAgrees
    <3>4. cache'[e.key] = [old EXCEPT ![e.field] = e.n]
      BY <1>1, <1>3, <2>4
    <3>5. queue \in Seq(Event) /\ queue # <<>> /\ e.kind = "updated"
      BY <1>1, <1>2, <2>4
    <3> HIDE DEF old
    <3>6. Agrees([old EXCEPT ![e.field] = e.n], portal[e.key], e.key, Tail(queue))
      BY <2>1, <3>1, <3>2, <3>3, <3>5, UpdatedAgrees
    <3> HIDE DEF e
    <3> QED
      BY <3>4, <3>6
  <2>5. CASE e.kind = "updated" /\ old = Missing /\ cache' = cache
    BY <1>1, <1>2, <2>5 DEF JobAgrees, EventAgrees
  <2> QED
    BY <1>5, <2>2, <2>3, <2>4, <2>5
<1>7. ASSUME NEW k \in Live, k # e.key, cache'[k] # Empty
      PROVE  Agrees(cache'[k], portal[k], k, Tail(queue))
  <2>1. cache'[k] = cache[k]
    <3>1. k \in Keys /\ cache \in [Keys -> Value \cup {Empty}] /\ k # e.key
      BY <1>1, <1>7, KeysLive
    <3> HIDE DEF e, old
    <3> QED
      BY <1>5, <3>1
  <2>2. Agrees(cache[k], portal[k], k, queue) /\ Tells(queue, k, portal[k])
    BY <1>1, <1>7, <2>1 DEF SerialInv, CacheAgrees, QueueTells
  <2> QED
    BY <1>1, <1>2, <1>7, <2>1, <2>2, TailTells
<1>8. QueueTells'
  BY <1>1, <1>2, <1>4, TailQueueTells
<1>9. CacheAgrees'
  <2>1. Live' = Live
    BY <1>1 DEF Live
  <2> HIDE DEF e
  <2> QED
    BY <1>1, <1>4, <1>6, <1>7, <2>1 DEF CacheAgrees
<1>10. ~(portal[Summary] = Missing /\ edits = 0)
  BY <1>2 DEF SerialInv, NotYetCreated
<1> QED
  BY <1>1, <1>8, <1>9, <1>10, SerialRest

LEMMA SerialExpire ==
  ASSUME Serial, IInv, SerialInv, NEW k \in Keys, Expire(k) PROVE SerialInv'
<1>1. /\ UNCHANGED <<portal, edits, queue, pc, job>> /\ Live' = Live
      /\ \A x \in Keys : cache'[x] \in {cache[x], Empty}
  BY DEF Expire, Delete, IInv, TypeOK, Live
<1>2. QueueTells'
  BY <1>1 DEF SerialInv, QueueTells
<1>3. CacheAgrees'
  BY <1>1, KeysLive DEF SerialInv, CacheAgrees
<1>4. NotYetCreated'
  BY <1>1 DEF SerialInv, NotYetCreated
<1>5. ASSUME NEW p \in Procs PROVE JobAgrees(job[p], pc[p])'
  <2>1. JobAgrees(job[p], pc[p]) /\ job[p].key \in Keys /\ JobTells(job[p], pc[p])
    BY JobFields DEF SerialInv, IInv, TypeOK
  <2>2. job[p].event # <<>> => Head(job[p].event).key \in Keys
    BY <2>1 DEF JobTells, Posted, Event, Keys
  <2> QED
    BY <1>1, <2>1, <2>2 DEF JobAgrees, EventAgrees, RunAgrees
<1> QED
  BY <1>2, <1>3, <1>4, <1>5 DEF SerialInv

-----------------------------------------------------------------------------
(* An edit of the portal: the event it publishes keeps the queue telling.    *)
LEMMA EditTells ==
  ASSUME IInv, SerialInv, NEW values, NEW event, Edit(values, event),
         event.key # Webhook => event \in Event,
         NEW k \in Keys \ {Webhook}, Happens(event, k, portal[k], values[k]),
         k \in Live \/ queue = <<>>
  PROVE  /\ Tells(queue', k, portal'[k])
         /\ \A v : Agrees(v, portal[k], k, queue) => Agrees(v, portal'[k], k, queue')
<1>1. queue \in Seq(Event) /\ portal' = values
  BY DEF IInv, TypeOK, Edit
<1>2. Tells(queue, k, portal[k])
  <2>1. CASE k \in Live
    BY <2>1 DEF SerialInv, QueueTells
  <2>2. CASE queue = <<>>
    <3>1. \A f : Touches(<<>>, k, f) = {}
      BY DEF Touches
    <3> QED
      BY <2>2, <3>1 DEF Tells
  <2> QED
    BY <2>1, <2>2
<1>3. CASE event.key = Webhook
  <2>1. queue' = queue
    BY <1>3 DEF Edit
  <2>2. values[k] = portal[k]
    BY <1>3 DEF Happens
  <2> QED
    BY <1>1, <1>2, <2>1, <2>2
<1>4. CASE event.key # Webhook
  <2>1. queue' = Append(queue, event) /\ event \in Event
    BY <1>4 DEF Edit
  <2> QED
    BY <1>1, <1>2, <2>1, AppendTells
<1> QED
  BY <1>3, <1>4

LEMMA SerialEdit ==
  ASSUME Serial, IInv, SerialInv, NEW values, NEW event, Edit(values, event),
         event.key # Webhook => event \in Event /\ event.n = edits + 1,
         \A k \in Live' : Happens(event, k, portal[k], values[k]),
         Live' \subseteq Live \/ (portal[Summary] = Missing /\ edits = 0)
  PROVE  SerialInv'
<1>1. /\ edits' = edits + 1 /\ edits \in Nat /\ portal' = values
      /\ UNCHANGED <<cache, pc>> /\ queue \in Seq(Event)
  <2>1. edits \in 0..MaxEdits /\ queue \in Seq(Event)
    BY DEF IInv, TypeOK
  <2>2. edits \in Nat
    BY <2>1, Constants
  <2> QED
    BY <2>1, <2>2 DEF Edit
<1>2. Live' \subseteq Keys \ {Webhook} /\ Summary \in Live'
  BY Constants DEF Live
<1>3. \A k \in Live' : k \in Live \/ queue = <<>>
  BY DEF SerialInv, NotYetCreated
<1>4. \A k \in Live' :
        /\ Tells(queue', k, portal'[k])
        /\ \A v : Agrees(v, portal[k], k, queue) => Agrees(v, portal'[k], k, queue')
  BY <1>2, <1>3, EditTells
<1>5. queue' = queue \/ (queue' = Append(queue, event) /\ event \in Event /\ event.n = edits + 1)
  BY DEF Edit
<1>6. QueueTells'
  <2>1. /\ \A i, j \in DOMAIN queue : i < j => queue[i].n < queue[j].n
        /\ \A i \in DOMAIN queue : queue[i].n <= edits /\ queue[i].n \in Int
    <3>1. \A i \in DOMAIN queue : queue[i] \in Event
      BY <1>1
    <3> QED
      BY <3>1, Constants DEF SerialInv, QueueTells, Event
  <2>2. CASE queue' = queue
    <3>1. \A i \in DOMAIN queue : queue[i].n <= edits + 1
      BY <1>1, <2>1
    <3> QED
      BY <1>1, <1>4, <2>1, <2>2, <3>1 DEF QueueTells
  <2>3. CASE queue' = Append(queue, event) /\ event.n = edits + 1
    <3>1. /\ Len(queue) \in Nat /\ DOMAIN queue = 1..Len(queue) /\ DOMAIN queue' = 1..Len(queue)+1
          /\ queue'[Len(queue)+1] = event /\ \A i \in 1..Len(queue) : queue'[i] = queue[i]
      BY <1>1, <2>3
    <3>2. \A i \in DOMAIN queue' : queue'[i].n <= edits + 1
      BY <1>1, <2>1, <2>3, <3>1
    <3>3. ASSUME NEW i \in DOMAIN queue', NEW j \in DOMAIN queue', i < j
          PROVE  queue'[i].n < queue'[j].n
      <4>1. i \in 1..Len(queue) /\ queue'[i] = queue[i] /\ queue[i].n <= edits /\ queue[i].n \in Int
        BY <2>1, <3>1, <3>3
      <4>2. CASE j = Len(queue) + 1
        BY <1>1, <2>3, <3>1, <4>1, <4>2
      <4>3. CASE j \in 1..Len(queue)
        BY <2>1, <3>1, <3>3, <4>1, <4>3
      <4> QED
        BY <3>1, <4>2, <4>3
    <3> QED
      BY <1>1, <1>4, <3>2, <3>3 DEF QueueTells
  <2> QED
    BY <1>5, <2>2, <2>3
<1>7. CacheAgrees'
  <2> SUFFICES ASSUME NEW k \in Live', cache[k] # Empty
               PROVE  Agrees(cache[k], portal'[k], k, queue')
    BY <1>1 DEF CacheAgrees
  <2>1. k \in Live
    <3>1. k \in Keys
      BY <1>2
    <3> QED
      BY <3>1 DEF SerialInv, NotYetCreated
  <2>2. Agrees(cache[k], portal[k], k, queue)
    BY <2>1 DEF SerialInv, CacheAgrees
  <2> QED
    BY <1>4, <2>2
<1>8. NotYetCreated'
  BY <1>1 DEF NotYetCreated
<1>9. ASSUME NEW p \in Procs PROVE JobAgrees(job[p], pc[p])'
  <2>1. job[p] \in Job /\ JobAgrees(job[p], pc[p])
    BY DEF SerialInv, IInv, TypeOK
  <2>2. job'[p] = [job[p] EXCEPT !.calm = FALSE,
                     !.lacked = @ \cup {k \in Keys : values[k] = Missing}]
    BY DEF Edit
  <2>3. /\ job'[p].event = job[p].event /\ job'[p].look = job[p].look
        /\ job'[p].got = job[p].got /\ job'[p].fresh = job[p].fresh
        /\ job'[p].key = job[p].key /\ job'[p].then = job[p].then /\ ~job'[p].calm
    BY <2>1, <2>2 DEF Job
  <2>4. pc[p] \in {"store", "write"} => Live' \subseteq Live
    BY DEF SerialInv, NotYetCreated
  <2>5. pc[p] = "store" => \A k \in Live' : Agrees(job[p].fresh[k], portal'[k], k, queue')
    BY <1>4, <2>1, <2>4 DEF JobAgrees
  <2>6. job[p].event # <<>> => EventAgrees(job[p], pc[p])'
    <3> SUFFICES ASSUME job[p].event # <<>> PROVE EventAgrees(job[p], pc[p])'
      OBVIOUS
    <3> DEFINE e == Head(job[p].event)
    <3>1. EventAgrees(job[p], pc[p])
      BY <2>1 DEF JobAgrees
    <3>2. queue' # <<>> /\ e = queue'[1]
      <4>1. queue # <<>> /\ e = queue[1]
        BY <3>1 DEF EventAgrees
      <4> HIDE DEF e
      <4> QED
        BY <1>1, <1>5, <4>1
    <3>3. pc[p] = "write" /\ e.kind = "updated" =>
            IF job[p].got[e.key] = Missing THEN cache[e.key] = Empty
            ELSE e.key \in Live' => Agrees(job[p].got[e.key], portal'[e.key], e.key, queue')
      BY <1>4, <2>4, <3>1 DEF EventAgrees
    <3>4. ~job[p].calm /\ job[p].then = {} /\ job[p].look \subseteq {e.key}
          /\ (pc[p] \in {"fetch", "store"} => job[p].key = e.key)
      BY <3>1 DEF EventAgrees
    <3> HIDE DEF e
    <3>5. Head(job'[p].event) = e /\ pc'[p] = pc[p] /\ cache' = cache
      BY <1>1, <2>3 DEF e
    <3> QED
      BY <2>3, <3>2, <3>3, <3>4, <3>5 DEF EventAgrees
  <2>7. /\ pc[p] = "fetch" => cache[job[p].key] = Empty
        /\ pc[p] = "store" /\ job[p].key # Webhook /\ job[p].fresh[job[p].key] = Missing =>
             cache[job[p].key] = Empty
    BY <2>1 DEF JobAgrees
  <2> QED
    BY <1>1, <2>3, <2>5, <2>6, <2>7 DEF JobAgrees
<1> QED
  BY <1>6, <1>7, <1>8, <1>9 DEF SerialInv

LEMMA SerialPortal ==
  ASSUME Serial, IInv, SerialInv, NEW k \in Keys,
         (\E f \in Fields : PortalUpdate(k, f)) \/ PortalCreate(k) \/ PortalDelete(k)
  PROVE  SerialInv'
<1>1. portal \in [Keys -> Value] /\ edits + 1 \in Int
  BY Constants DEF IInv, TypeOK
<1>2. ASSUME NEW f \in Fields, PortalUpdate(k, f) PROVE SerialInv'
  <2> DEFINE e == Ev(k, "updated", Missing, f)
             values == [portal EXCEPT ![k][f] = edits + 1]
  <2>1. portal[k] # Missing /\ edits < MaxEdits /\ Edit(values, e)
    BY <1>2 DEF PortalUpdate, Edit
  <2>2. e.key # Webhook => e \in Event /\ e.n = edits + 1
    <3>1. k # Webhook => e \in Posted
      BY <2>1, EvIsPosted DEF Value
    <3> QED
      BY <3>1 DEF Ev, Posted
  <2>3. portal[k] \in Config /\ \A x \in Keys : x # k => values[x] = portal[x]
    BY <1>1, <2>1 DEF Value
  <2>4. values[k] = [portal[k] EXCEPT ![f] = edits + 1] /\ values[k] # Missing
    <3>1. values[k] = [portal[k] EXCEPT ![f] = edits + 1]
      BY <1>1
    <3>2. edits + 1 \in 0..MaxEdits
      BY <2>1, Constants DEF IInv, TypeOK
    <3>3. [portal[k] EXCEPT ![f] = edits + 1] \in Config
      BY <2>3, <3>2 DEF Config
    <3> QED
      BY <3>1, <3>3, Constants
  <2>5. e.key = k /\ e.kind = "updated" /\ e.field = f /\ e.n = edits + 1
    BY DEF Ev
  <2>6. portal' = values
    BY <2>1 DEF Edit
  <2> HIDE DEF e, values
  <2>7. Live' = Live
    BY <2>1, <2>3, <2>4, <2>6, Constants DEF Live
  <2>8. ASSUME NEW x \in Live PROVE Happens(e, x, portal[x], values[x])
    <3>1. CASE x = k
      BY <2>1, <2>3, <2>4, <2>5, <3>1 DEF Happens, Says, Config
    <3>2. CASE x # k
      BY <2>3, <2>5, <3>2, KeysLive DEF Happens
    <3> QED
      BY <3>1, <3>2
  <2> QED
    BY <2>1, <2>2, <2>7, <2>8, SerialEdit
<1>3. ASSUME PortalCreate(k) PROVE SerialInv'
  <2> DEFINE config == [x \in Fields |-> edits + 1]
             values == [portal EXCEPT ![k] = config]
  <2>1. PICK f \in Fields : Edit(values, Ev(k, "created", config, f))
    BY <1>3 DEF PortalCreate
  <2> DEFINE e == Ev(k, "created", config, f)
  <2>2. portal[k] = Missing /\ edits < MaxEdits
        /\ IF k = Summary THEN edits = 0 ELSE portal[Summary] # Missing
    BY <1>3, <2>1 DEF PortalCreate, Edit
  <2>3. config \in Config /\ config # Missing
    <3>1. edits + 1 \in 0..MaxEdits
      BY <2>2, Constants DEF IInv, TypeOK
    <3>2. config \in Config
      BY <3>1 DEF Config
    <3> QED
      BY <3>2, Constants
  <2>4. e.key # Webhook => e \in Event /\ e.n = edits + 1
    <3> HIDE DEF config
    <3>1. k # Webhook => e \in Posted
      BY <2>2, <2>3, EvIsPosted DEF Value
    <3> QED
      BY <3>1 DEF Ev, Posted
  <2>5. values[k] = config /\ \A x \in Keys : x # k => values[x] = portal[x]
    BY <1>1
  <2>6. e.key = k /\ e.kind = "created" /\ e.config = config
    BY DEF Ev
  <2>7. portal' = values
    BY <2>1 DEF Edit
  <2>8. Edit(values, e)
    BY <2>1
  <2> HIDE DEF e, values, config
  <2>9. Live' \subseteq Live \/ (portal[Summary] = Missing /\ edits = 0)
    BY <2>2, <2>5, <2>7, Constants DEF Live
  <2>10. ASSUME NEW x \in Live' PROVE Happens(e, x, portal[x], values[x])
    <3>1. x \in Keys
      BY Constants DEF Live
    <3>2. CASE x = k
      BY <2>3, <2>5, <2>6, <3>2 DEF Happens, Says
    <3>3. CASE x # k
      BY <2>5, <2>6, <3>1, <3>3 DEF Happens
    <3> QED
      BY <3>2, <3>3
  <2> QED
    BY <2>4, <2>8, <2>9, <2>10, SerialEdit
<1>4. ASSUME PortalDelete(k) PROVE SerialInv'
  <2> DEFINE values == [x \in Keys |-> IF x = k \/ k = Summary THEN Missing ELSE portal[x]]
  <2>1. PICK f \in Fields : Edit(values, Ev(k, "deleted", Missing, f))
    BY <1>4 DEF PortalDelete
  <2> DEFINE e == Ev(k, "deleted", Missing, f)
  <2>2. edits < MaxEdits
    BY <2>1 DEF Edit
  <2>3. e.key # Webhook => e \in Event /\ e.n = edits + 1
    <3>1. k # Webhook => e \in Posted
      BY <2>2, EvIsPosted DEF Value
    <3> QED
      BY <3>1 DEF Ev, Posted
  <2>4. \A x \in Keys : values[x] = IF x = k \/ k = Summary THEN Missing ELSE portal[x]
    OBVIOUS
  <2>5. e.key = k /\ e.kind = "deleted"
    BY DEF Ev
  <2>6. portal' = values /\ Edit(values, e)
    BY <2>1 DEF Edit
  <2> HIDE DEF e, values
  <2>7. Live' \subseteq Live /\ (k = Summary => Live' = {Summary})
    BY <2>4, <2>6, Constants DEF Live
  <2>8. ASSUME NEW x \in Live' PROVE Happens(e, x, portal[x], values[x])
    <3>1. x \in Keys
      BY Constants DEF Live
    <3>2. CASE x = k
      BY <2>4, <2>5, <3>2 DEF Happens, Says
    <3>3. CASE x # k
      BY <2>4, <2>5, <2>7, <3>1, <3>3 DEF Happens
    <3> QED
      BY <3>2, <3>3
  <2> QED
    BY <2>3, <2>6, <2>7, <2>8, SerialEdit
<1> QED
  BY <1>2, <1>3, <1>4
-----------------------------------------------------------------------------
LEMMA SerialInit == Serial /\ Init => SerialInv
<1> SUFFICES ASSUME Init PROVE SerialInv
  OBVIOUS
<1>1. queue = <<>> /\ \A k \in Keys : cache[k] = Empty
  BY DEF Init
<1>2. \A k, f : Touches(<<>>, k, f) = {}
  BY DEF Touches
<1>3. QueueTells /\ CacheAgrees /\ NotYetCreated
  BY <1>1, <1>2, KeysLive DEF Init, QueueTells, CacheAgrees, NotYetCreated, Tells
<1>4. ASSUME NEW p \in Procs PROVE JobAgrees(job[p], pc[p])
  <2> DEFINE j == [NewJob EXCEPT !.calm = FALSE]
  <2>1. job[p] = j /\ pc[p] = "idle"
    BY DEF Init
  <2>2. j.event = <<>> /\ ~j.calm
    BY DEF NewJob
  <2> QED
    BY <2>1, <2>2 DEF JobAgrees
<1> QED
  BY <1>3, <1>4 DEF SerialInv

LEMMA SerialStep == Serial /\ IInv /\ SerialInv /\ [Next]_vars => SerialInv'
<1> SUFFICES ASSUME Serial, IInv, SerialInv, [Next]_vars PROVE SerialInv'
  OBVIOUS
<1>1. CASE UNCHANGED vars
  BY <1>1 DEF vars, SerialInv, QueueTells, CacheAgrees, NotYetCreated, JobAgrees,
    EventAgrees, RunAgrees, Live
<1>2. ASSUME NEW k \in Keys, Expire(k) PROVE SerialInv'
  BY <1>2, SerialExpire
<1>3. ASSUME NEW k \in Keys,
             (\E f \in Fields : PortalUpdate(k, f)) \/ PortalCreate(k) \/ PortalDelete(k)
      PROVE  SerialInv'
  BY <1>3, SerialPortal
<1>4. ASSUME NEW p \in Procs, NEW k \in Keys, Get(p, k) \/ Store(p, k) PROVE SerialInv'
  BY <1>4, SerialGet, SerialStore
<1>5. ASSUME NEW p \in Procs, Fetch(p) \/ Write(p) \/ CallRaises(p) \/ Crash(p) PROVE SerialInv'
  BY <1>5, SerialFetch, SerialWrite, SerialRaises, SerialCrash
<1>6. ASSUME NEW p \in Procs,
             \/ \E a \in Actions : BeginRun(p, a)
             \/ BeginWebhook(p)
             \/ \E i \in DOMAIN queue : BeginEvent(p, i)
      PROVE  SerialInv'
  BY <1>6, SerialBeginRun, SerialBeginWebhook, SerialBeginEvent
<1> QED
  BY <1>1, <1>2, <1>3, <1>4, <1>5, <1>6 DEF Next, Proceed

LEMMA SerialInductive == Spec => [](Serial => SerialInv)
<1> DEFINE Strong == IInv /\ (Serial => SerialInv)
<1>1. Init => Strong
  BY IInvInit, SerialInit
<1>2. Strong /\ [Next]_vars => Strong'
  <2>1. Serial' <=> Serial
    BY DEF Serial
  <2> QED
    BY <2>1, IInvStep, SerialStep
<1>3. Strong => (Serial => SerialInv)
  OBVIOUS
<1> HIDE DEF Strong
<1> QED
  BY <1>1, <1>2, <1>3, PTL DEF Spec

(* One at a time and in order, for any actions, fields and edits, and with   *)
(* processes that may die: when every event is answered, what the cache holds*)
(* is what the portal holds (config_events_consumer.py, config_manager.py).  *)
THEOREM SerialFresh == Spec => [](Serial => Fresh)
<1>1. IInv /\ (Serial => SerialInv) => (Serial => Fresh)
  <2> SUFFICES ASSUME Serial, IInv, SerialInv, queue = <<>>, NEW k \in Live
               PROVE  cache[k] \in {Empty, portal[k]}
    BY DEF Fresh, Live
  <2> QED
    BY CachedIsPortal
<1> QED
  BY <1>1, Inductive, SerialInductive, PTL

(* One at a time and in order: a run that starts with every event answered   *)
(* works with the portal's configuration, unless it is edited meanwhile      *)
(* (get_integration_details, config_manager.py).                             *)
THEOREM SerialRunSeesPortal == Spec => [](Serial => RunSeesPortal)
<1>1. (Serial => SerialInv) => (Serial => RunSeesPortal)
  BY DEF SerialInv, JobAgrees, RunAgrees, RunSeesPortal
<1> QED
  BY <1>1, SerialInductive, PTL
=============================================================================
