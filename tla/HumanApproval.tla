--------------------------- MODULE HumanApproval ---------------------------
(***************************************************************************)
(* Human approval of the arbiter's actions: request_approval and           *)
(* receive_human_feedback of arbiter/human_loop.py, with the       *)
(* responses that arbiter/feedback.py logs for them.                       *)
(*                                                                         *)
(* A request is answered through a future that is found by its decision    *)
(* id, which the caller chooses: two requests may have the same one.  The  *)
(* answers come from people, or from the mock approver when there is no    *)
(* channel to notify anybody; all go through the same handler.  A step is  *)
(* the code between two awaits.  The lock is never held over an await.     *)
(***************************************************************************)
EXTENDS Naturals

CONSTANTS Requests,
          Answers,       \* feedback that passes the schema and the signature
          Ids,           \* decision ids
          IdChoices,     \* which ids the callers may choose for their requests
          None,
          MaxAttempts    \* of the retry decorator

ASSUME ApprovalAssumption ==
    /\ None \notin Requests \cup Answers \cup Ids
    /\ Answers \cap {"none", "open", "cancelled", "pending", "timeout"} = {}
    /\ IdChoices \subseteq [Requests -> Ids]
    /\ MaxAttempts \in Nat \ {0}

VARIABLES
    decision_id,  \* decision_id[r], fixed
    at,           \* at[r]: the await request r is at
    future,       \* future[r]: none, open, cancelled, or the answer set
    registered,   \* _pending_approvals: the request under each id, or None
    mock,         \* mock[r]: the answer its mock approver gives
    result,       \* result[r]: what the call returned
    handling,     \* handling[a]: the await the handler of answer a is at
    about,        \* about[a]: the decision id of answer a
    attempts,     \* attempts[a]: attempts of the handler that raised
    responses,    \* answers with a response in the log
    unlogged      \* history: answers whose response could not be saved

log == <<responses, unlogged>>
asking == <<at, future, registered, mock, result>>
answering == <<handling, about, attempts>>
vars == <<decision_id, asking, answering, log>>

TypeOK ==
    /\ decision_id \in [Requests -> Ids]
    /\ at \in [Requests -> {"new", "logging", "notifying", "mock",
                            "waiting", "timeout", "done", "raised"}]
    /\ future \in [Requests -> {"none", "open", "cancelled"} \cup Answers]
    /\ registered \in [Ids -> Requests \cup {None}]
    /\ mock \in [Requests -> Answers \cup {None}]
    /\ result \in [Requests -> Answers \cup {"none", "timeout"}]
    /\ handling \in [Answers -> {"unsent", "logging", "metrics", "done", "failed"}]
    /\ about \in [Answers -> Ids \cup {None}]
    /\ attempts \in [Answers -> 0 .. MaxAttempts]
    /\ responses \subseteq Answers
    /\ unlogged \subseteq Answers

Init ==
    /\ decision_id \in IdChoices
    /\ at = [r \in Requests |-> "new"]
    /\ future = [r \in Requests |-> "none"]
    /\ registered = [d \in Ids |-> None]
    /\ mock = [r \in Requests |-> None]
    /\ result = [r \in Requests |-> "none"]
    /\ handling = [a \in Answers |-> "unsent"]
    /\ about = [a \in Answers |-> None]
    /\ attempts = [a \in Answers |-> 0]
    /\ responses = {} /\ unlogged = {}

Goes(r, from, to) == at[r] = from /\ at' = [at EXCEPT ![r] = to]
Handles(a, from, to) == handling[a] = from /\ handling' = [handling EXCEPT ![a] = to]

----------------------------------------------------------------------------
(* request_approval *)

\* The request goes to the log and to the audit hook before it can be answered.
Request(r) ==
    /\ Goes(r, "new", "logging")
    /\ UNCHANGED <<decision_id, future, registered, mock, result, answering, log>>

\* Mutant: the future is created, and entered when the notifications are out.
RegisterLate(r) ==
    /\ Goes(r, "logging", "notifying")
    /\ future' = [future EXCEPT ![r] = "open"]
    /\ UNCHANGED <<decision_id, registered, mock, result, answering, log>>

\* After the audit hook.  A request with the same id loses its place.
Register(r) ==
    /\ Goes(r, "logging", "notifying")
    /\ future' = [future EXCEPT ![r] = "open"]
    /\ registered' = [registered EXCEPT ![decision_id[r]] = r]
    /\ UNCHANGED <<decision_id, mock, result, answering, log>>

Notified(r) ==
    /\ Goes(r, "notifying", "waiting")
    /\ UNCHANGED <<decision_id, future, registered, mock, result, answering, log>>

\* No channel: the request's own task answers it, after a delay.
MockStarts(r) ==
    /\ Goes(r, "notifying", "mock")
    /\ \E a \in Answers :
          /\ Handles(a, "unsent", "logging")
          /\ about' = [about EXCEPT ![a] = decision_id[r]]
          /\ mock' = [mock EXCEPT ![r] = a]
    /\ UNCHANGED <<decision_id, future, registered, result, attempts, log>>

MockEnds(r) ==
    /\ Goes(r, "mock", "waiting")
    /\ handling[mock[r]] = "done"
    /\ UNCHANGED <<decision_id, future, registered, mock, result, answering, log>>

\* The retries are used up: the exception leaves the call ahead of its try, so
\* that the future stays registered.
MockRaises(r) ==
    /\ Goes(r, "mock", "raised")
    /\ handling[mock[r]] = "failed"
    /\ UNCHANGED <<decision_id, future, registered, mock, result, answering, log>>

\* finally: whatever is registered under the id is removed.
Return(r, from, value) ==
    /\ Goes(r, from, "done")
    /\ result' = [result EXCEPT ![r] = value]
    /\ registered' = [registered EXCEPT ![decision_id[r]] = None]
    /\ UNCHANGED <<decision_id, mock, answering, log>>

Answered(r) ==
    /\ future[r] \in Answers
    /\ Return(r, "waiting", future[r])
    /\ UNCHANGED future

\* Mutant: no time limit when the mock approver has answered.
TimesOutUnlessMocked(r) ==
    /\ mock[r] = None
    /\ Goes(r, "waiting", "timeout")
    /\ future[r] = "open"
    /\ future' = [future EXCEPT ![r] = "cancelled"]
    /\ UNCHANGED <<decision_id, registered, mock, result, answering, log>>

\* wait_for cancels the future.
TimesOut(r) ==
    /\ Goes(r, "waiting", "timeout")
    /\ future[r] = "open"
    /\ future' = [future EXCEPT ![r] = "cancelled"]
    /\ UNCHANGED <<decision_id, registered, mock, result, answering, log>>

\* The denial it sends itself has no timestamp: the schema refuses it.
TimedOut(r) == Return(r, "timeout", "timeout") /\ UNCHANGED future

----------------------------------------------------------------------------
(* receive_human_feedback *)

\* Mutant: the waiting request is told first, the log afterwards.
ReceiveResolving(a) ==
    /\ Handles(a, "unsent", "logging")
    /\ \E q \in Requests :
          /\ about' = [about EXCEPT ![a] = decision_id[q]]
          /\ LET r == registered[decision_id[q]]
             IN  future' = IF r # None /\ future[r] = "open"
                             THEN [future EXCEPT ![r] = a] ELSE future
    /\ UNCHANGED <<decision_id, at, registered, mock, result, attempts, log>>

\* At any time: a request can be answered as soon as it is in the log.
Receive(a) ==
    /\ Handles(a, "unsent", "logging")
    /\ \E r \in Requests : about' = [about EXCEPT ![a] = decision_id[r]]
    /\ UNCHANGED <<decision_id, asking, attempts, log>>

\* The response is saved, or the failure is only logged.
log_approval_response(a) ==
    /\ Handles(a, "logging", "metrics")
    /\ \/ responses' = responses \cup {a} /\ UNCHANGED unlogged
       \/ unlogged' = unlogged \cup {a} /\ UNCHANGED responses
    /\ UNCHANGED <<decision_id, asking, about, attempts>>

\* A store that raises (the fallback manager), or a metric: tried again from the
\* start, after a wait; the response may be in the log already.
Raises(a) ==
    /\ \E from \in {"logging", "metrics"} :
          Handles(a, from, IF attempts[a] + 1 < MaxAttempts THEN "logging" ELSE "failed")
    /\ attempts' = [attempts EXCEPT ![a] = @ + 1]
    /\ UNCHANGED <<decision_id, asking, about, log>>

\* Mutant: it is not asked whether the future is done.
ResolveAgain(a) ==
    LET r == registered[about[a]]
    IN  future' = IF r # None THEN [future EXCEPT ![r] = a] ELSE future

Resolve(a) ==
    LET r == registered[about[a]]
    IN  future' = IF r # None /\ future[r] = "open"
                    THEN [future EXCEPT ![r] = a] ELSE future

\* The first answer that gets here counts.
Deliver(a) ==
    /\ Handles(a, "metrics", "done")
    /\ Resolve(a)
    /\ UNCHANGED <<decision_id, at, registered, mock, result, about, attempts, log>>

Next == \/ \E r \in Requests :
              \/ Request(r) \/ Register(r) \/ Notified(r)
              \/ MockStarts(r) \/ MockEnds(r) \/ MockRaises(r)
              \/ Answered(r) \/ TimesOut(r) \/ TimedOut(r)
        \/ \E a \in Answers :
              \/ Receive(a) \/ log_approval_response(a) \/ Raises(a) \/ Deliver(a)

Spec == Init /\ [][Next]_vars

Step(r) == \/ Register(r) \/ Notified(r)
           \/ MockEnds(r) \/ MockRaises(r) \/ Answered(r) \/ TimesOut(r) \/ TimedOut(r)
Handler(a) == log_approval_response(a) \/ Deliver(a)

\* The event loop runs what can run; the store and the channels have timeouts.
\* Nobody has to answer.
FairSpec == /\ Spec
            /\ \A r \in Requests : WF_vars(Step(r))
            /\ \A a \in Answers : WF_vars(Handler(a))

----------------------------------------------------------------------------
(* Correctness *)

\* No action is approved that the log knows nothing of: the answer that a call
\* returns is in the log when it returns, unless the log could not be written.
LoggedFirst ==
    \A r \in Requests : result[r] \in Answers => result[r] \in responses \cup unlogged

Waits(r) == at[r] \in {"notifying", "mock", "waiting"} /\ future[r] = "open"

\* A request can be answered as long as it waits: others that come, time out,
\* or leave their future behind do not take its place, unless they use its id.
Answerable ==
    \A r \in Requests :
        /\ Waits(r)
        /\ \A q \in Requests \ {r} : decision_id[q] # decision_id[r]
        => registered[decision_id[r]] = r

\* Whatever times out, raises, is retried or shares its id, asking a human keeps
\* its promise: one decision per call, by one answer about that call or by the
\* deadline, and no answer wasted that a call waits for.
Call == [r \in Requests |-> IF at[r] \in {"new", "logging"} THEN "new"
                            ELSE IF at[r] \in {"done", "raised"} THEN at[r] ELSE "asking"]
Asking == INSTANCE Inquiry
    WITH id <- decision_id, call <- Call, verdict <- future,
         onRecord <- responses \cup unlogged, spent <- {a \in Answers : handling[a] = "done"}
DecidesOnce == Asking!Spec

\* Every call returns or raises, although its future may be replaced, removed
\* by a request with the same id, or never set.
Returns == \A r \in Requests : at[r] # "new" ~> at[r] \in {"done", "raised"}

============================================================================
