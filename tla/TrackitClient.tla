---------------------------- MODULE TrackitClient ----------------------------
(***************************************************************************)
(* The calls to TrackIt of one action: get_token and get_live_data of      *)
(* app/actions/client.py with their transport retries, what they make of   *)
(* TrackIt's answers, and what action_auth and action_pull_observations    *)
(* (app/actions/handlers.py) tell the operator.  wait_for of execute_action *)
(* may cancel the action whenever it awaits.                               *)
(***************************************************************************)
EXTENDS Integers

CONSTANTS
  MaxAttempts  \* attempts of _retry_on_transport

ASSUME ClientAssumption == MaxAttempts \in Nat \ {0}

VARIABLES
  action,    \* the action that calls TrackIt: "auth" or "pull"
  call,      \* the endpoint to call, or where the action went after it
  inFlight,  \* a request of it awaits its answer
  attempt,   \* the attempt of the call
  open,      \* the HTTP sessions that are open
  verdict,   \* what the operator is told in the end
  answer     \* per endpoint, what TrackIt answered

clientVars == <<action, call, inFlight, attempt, open, verdict, answer>>

Endpoints == {"token", "live"}

(* What TrackIt can answer: an error status, a body that is not JSON, not an *)
(* object, without what is asked for or with something of another type in    *)
(* its place, a login without success flag or token, a company that it does  *)
(* not know, or what was asked for.                                          *)
Answers(endpoint) ==
  {"401 or 403", "404", "5xx", "other status", "not JSON", "not an object",
   "misshapen", "good"}
    \cup IF endpoint = "token" THEN {"rejected"} ELSE {"no root", "no company"}

Exceptions == {"Unauthorized", "NotFound", "InternalServer", "Base",
               "AttributeError", "TransportError", "RequestError", "InvalidURL",
               "TimeoutError"}

(* handle_httpx_error, _post, and the checks of the two calls.               *)
ExceptionOf(a) ==
  IF a \in {"401 or 403", "rejected"} THEN "Unauthorized"
  ELSE IF a \in {"404", "no company"} THEN "NotFound"
  ELSE IF a = "5xx"                   THEN "InternalServer"
  ELSE IF a = "misshapen"             THEN "AttributeError" ELSE "Base"

TrackitBaseException == {"Unauthorized", "NotFound", "InternalServer", "Base"}

HTTPError == {"TransportError", "RequestError"}

(* Mutant: TrackIt's server errors count as not reaching it. *)
ClassifyDownAsUnreached(x) ==
  IF x = "Unauthorized" THEN "auth"
  ELSE IF x \in {"InternalServer", "TransportError", "TimeoutError"} THEN "connectivity"
  ELSE "unclassified"

(* classify_error: TrackIt's exceptions have no response attribute, so only  *)
(* the one that is an IntegrationAuthError says what it is.                  *)
Classify(x) ==
  IF x = "Unauthorized" THEN "auth"
  ELSE IF x \in {"TransportError", "TimeoutError"} THEN "connectivity"
  ELSE "unclassified"

(* Mutant: the clauses of action_auth stand in the opposite order. *)
ReportBaseFirst(x) ==
  IF action = "auth" /\ x \in TrackitBaseException THEN "API error"
  ELSE IF action = "auth" /\ x \in HTTPError THEN "unreachable"
  ELSE Classify(x)

(* action_auth's except clauses; every other exception leaves the handler.   *)
Report(x) ==
  IF action = "auth" /\ x = "Unauthorized" THEN "bad credentials"
  ELSE IF action = "auth" /\ x \in TrackitBaseException THEN "API error"
  ELSE IF action = "auth" /\ x \in HTTPError THEN "unreachable"
  ELSE Classify(x)

-----------------------------------------------------------------------------
(* The session is the pull's, open for both calls, or one of this attempt.   *)
AcquireSession == open' = open \cup {action}

Post ==
  /\ call \in Endpoints /\ ~inFlight
  /\ inFlight' = TRUE
  /\ AcquireSession
  /\ UNCHANGED <<action, call, attempt, verdict, answer>>

(* Mutant: the session of an attempt is closed only when it succeeds. *)
GiveUpLeavingSession(x) ==
  /\ call' = "end" /\ attempt' = 1
  /\ verdict' = Report(x)
  /\ UNCHANGED open

(* Leaving the async with blocks closes what is open. *)
GiveUp(x) ==
  /\ call' = "end" /\ attempt' = 1
  /\ verdict' = Report(x)
  /\ open' = {}

(* Mutant: whatever goes wrong is tried again. *)
RetryOnAny(x) == attempt < MaxAttempts

RetryOnTransport(x) == x = "TransportError" /\ attempt < MaxAttempts

Raise(x) ==
  /\ inFlight' = FALSE
  /\ IF RetryOnTransport(x)
     THEN /\ attempt' = attempt + 1
          /\ open' = open \ {"auth"}
          /\ UNCHANGED <<call, verdict>>
     ELSE GiveUp(x)

Answered(a) ==
  /\ call \in Endpoints /\ inFlight
  /\ answer' = [answer EXCEPT ![call] = a]
  /\ UNCHANGED action

(* A token and a result of 1: a token alone is a failed login.               *)
Success(a) == a = "good"

AnswerFails ==
  \E a \in Answers(call) : Answered(a) /\ ~Success(a) /\ Raise(ExceptionOf(a))

(* The token: the end of action_auth, and the pull goes on to the live data. *)
TokenArrives ==
  /\ call = "token"
  /\ \E a \in Answers(call) : Answered(a) /\ Success(a)
  /\ inFlight' = FALSE /\ attempt' = 1
  /\ open' = open \ {"auth"}
  /\ IF action = "auth" THEN call' = "end" /\ verdict' = "valid"
                        ELSE call' = "live" /\ UNCHANGED verdict

LiveDataArrives ==
  /\ call = "live"
  /\ Answered("good")
  /\ inFlight' = FALSE /\ attempt' = 1
  /\ open' = {}
  /\ call' = "rows" /\ UNCHANGED verdict

(* A transport failure, or a failure of httpx that is not retried: one while *)
(* reading the response, or of the base_url, which is not even an HTTPError. *)
RequestFails ==
  /\ call \in Endpoints /\ inFlight
  /\ \E x \in HTTPError \cup {"InvalidURL"} : Raise(x)
  /\ UNCHANGED <<action, answer>>

(* wait_for, during a request or the wait before the next attempt. *)
TimeOut ==
  /\ call \in Endpoints
  /\ inFlight' = FALSE
  /\ GiveUp("TimeoutError")
  /\ UNCHANGED <<action, answer>>

-----------------------------------------------------------------------------
ClientInit ==
  /\ action \in {"auth", "pull"}
  /\ call = "token" /\ inFlight = FALSE /\ attempt = 1
  /\ open = {}
  /\ verdict = "none"
  /\ answer = [e \in Endpoints |-> "none"]

ClientNext ==
  Post \/ AnswerFails \/ TokenArrives \/ LiveDataArrives \/ RequestFails \/ TimeOut

ClientSpec == ClientInit /\ [][ClientNext]_clientVars

-----------------------------------------------------------------------------
(* Every variable has its type, and only the action's own session is open.   *)
ClientTypeOK ==
  /\ action \in {"auth", "pull"}
  /\ call \in Endpoints \cup {"rows", "end"}
  /\ inFlight \in BOOLEAN
  /\ attempt \in 1..MaxAttempts
  /\ open \subseteq {action}
  /\ verdict \in {"none", "valid", "bad credentials", "API error", "unreachable",
                  "auth", "connectivity", "unclassified"}
  /\ answer \in [Endpoints -> {"none"} \cup Answers("token") \cup Answers("live")]

(* The operator is told that the credentials are wrong exactly if TrackIt    *)
(* refused them: no outage, broken answer or timeout reads as a refusal, and *)
(* no refusal as anything else (handlers.py:110-120, client.py:47-48).       *)
RefusalIsToldAsSuch ==
  verdict \in {"bad credentials", "auth"} <=>
    \E e \in Endpoints : answer[e] \in {"401 or 403", "rejected"}

(* When a call ends the action, TrackIt is called unreachable only if it     *)
(* left the last one unanswered, and the credentials are called valid only   *)
(* if a login was accepted (handlers.py:110-122, errors.py:76-81).           *)
VerdictHasEvidence ==
  /\ call = "end" /\ verdict \in {"unreachable", "connectivity"} =>
       answer["token"] = "none" \/ (answer["token"] = "good" /\ answer["live"] = "none")
  /\ verdict = "valid" => answer["token"] = "good"

(* No live data without a login that succeeded: a token alongside a result   *)
(* other than 1 is a failed login (client.py:181-183).                       *)
DataOnlyAfterLogin == call \in {"live", "rows"} => answer["token"] = "good"

(* Once TrackIt has answered a call, retrying won't help: no request of that *)
(* call is under way again (client.py:20-22).                                *)
AnswerEndsRetries == inFlight => answer[call] = "none"

(* However the calls end, by success, error, or cancellation, their session  *)
(* is closed, before rows are read or watermarks fetched (client.py:31-36).  *)
NoSessionLeft == call \in {"rows", "end"} => open = {}
=============================================================================
