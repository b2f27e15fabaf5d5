---------------------------- MODULE RequestLedger ----------------------------
(***************************************************************************)
(* What the service promises of a request to run an action, without the    *)
(* steps, exceptions and faults of the run: the request waits, is worked   *)
(* on, and is settled or waits again; the feed tells what that work came   *)
(* to.  A request is settled when it ran, when its schedule excuses it,    *)
(* when its failure is in the feed or was answered to who called the API,  *)
(* when it was pushed to nobody, or when its sender does not wait: a run   *)
(* in the background is over however it ends.  How each answer and the     *)
(* feed agree is Earned.                                                   *)
(***************************************************************************)
VARIABLES
  request,   \* its route, whether a schedule asked for it, whether its handler
             \* reports its progress, whether its sender waits, and its body
  place,     \* "waiting", "working", "detached" (at work, its sender answered)
             \* or "settled"
  feed,      \* the types of the events published for the last delivery
  answer,    \* how the last delivery ended
  trouble    \* whether something around the handler failed during it

ledgerVars == <<request, place, feed, answer, trouble>>

Runnable == request.body \in {"good", "odd"}

(* Nothing completes that did not start, or has failed, unless there was     *)
(* trouble; and a warning stands alone, for a schedule that cannot run.      *)
Coherent(f, t) ==
  /\ "Complete" \in f => "Started" \in f
  /\ {"Complete", "Failed"} \subseteq f => t
  /\ "Warning" \in f => f = {"Warning"} /\ request.scheduled

(* What the feed says when the answer is given; a run of a good request goes *)
(* without one only after trouble.                                           *)
Earned(result, f, t) ==
  \/ result = "ok" /\ request.body = "good"
       /\ f = IF request.logged THEN {"Started", "Complete"} ELSE {}
  \/ result = "skipped" /\ request.scheduled /\ f \subseteq {"Warning"}
  \/ result = "error" /\ "Failed" \in f
  \/ result = "raised" /\ (t \/ request.body = "odd")

(* Only POST / settles a request whose failure was reported; what is pushed  *)
(* waits for a run that succeeds; who calls the API has the answer, and who  *)
(* asks for a run in the background had one before.                          *)
Settled(result) ==
  \/ request.background
  \/ request.route = "pubsub" /\ result # "raised"
  \/ request.route = "push" /\ result \in {"ok", "dropped"}
  \/ request.route = "api"

-----------------------------------------------------------------------------
LedgerInit ==
  /\ place \in {"waiting", "settled"}
  /\ feed = {} /\ answer = "none" /\ ~trouble

Take ==
  /\ place = "waiting" /\ Runnable
  /\ place' = IF request.background THEN "detached" ELSE "working"
  /\ feed' = {} /\ answer' = "none" /\ ~trouble'
  /\ UNCHANGED request

(* A request that cannot run leaves nothing in the feed: the API refuses it, *)
(* a message without a destination is dropped, others come back.             *)
TurnAway(result) ==
  /\ place = "waiting" /\ ~Runnable
  /\ \/ result = "dropped" /\ request.body = "unaddressed" /\ request.route = "push"
     \/ result = "refused" /\ request.body = "unreadable" /\ request.route = "api"
     \/ result = "raised" /\ request.body = "unreadable" /\ request.route # "api"
  /\ place' = IF Settled(result) THEN "settled" ELSE "waiting"
  /\ feed' = {} /\ answer' = result /\ ~trouble'
  /\ UNCHANGED request

(* What was published stays so, and so does trouble.                         *)
Goes(f, t) == feed \subseteq f /\ (trouble => t) /\ Coherent(f, t)

(* Work goes on, and may be reported.                                        *)
Work ==
  /\ place \in {"working", "detached"}
  /\ Goes(feed', trouble')
  /\ UNCHANGED <<request, place, answer>>

AnswerWith(result) ==
  /\ place \in {"working", "detached"}
  /\ Goes(feed', trouble')
  /\ Earned(result, feed', trouble')
  /\ place' = IF Settled(result) THEN "settled" ELSE "waiting"
  /\ answer' = result
  /\ UNCHANGED request

LedgerNext ==
  \/ Take \/ Work
  \/ \E result \in {"dropped", "refused", "raised"} : TurnAway(result)
  \/ \E result \in {"ok", "skipped", "error", "raised"} : AnswerWith(result)

LedgerSpec == LedgerInit /\ [][LedgerNext]_ledgerVars
=============================================================================
