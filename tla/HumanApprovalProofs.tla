------------------------ MODULE HumanApprovalProofs ------------------------
(***************************************************************************)
(* What HumanApproval guarantees for any requests, answers, ids and number *)
(* of attempts.                                                            *)
(***************************************************************************)
EXTENDS HumanApproval, TLAPS

\* An attempt is left to a handler that can still raise.
AttemptsLeft ==
    \A a \in Answers : handling[a] # "failed" => attempts[a] < MaxAttempts

TypeInv == TypeOK /\ AttemptsLeft

LEMMA TypeInit == Init => TypeInv
<1> SUFFICES ASSUME Init PROVE TypeInv
  OBVIOUS
<1>1. /\ decision_id \in [Requests -> Ids]
      /\ \A a \in Answers : attempts[a] < MaxAttempts
      /\ attempts \in [Answers -> 0 .. MaxAttempts]
  BY ApprovalAssumption DEF Init
<1> QED
  BY <1>1 DEF Init, TypeInv, TypeOK, AttemptsLeft

\* The steps of a request change no handler but the one its mock starts.
LEMMA RequestTypes ==
    ASSUME TypeInv, NEW r \in Requests,
           \/ Request(r) \/ Register(r) \/ Notified(r) \/ MockStarts(r) \/ MockEnds(r)
           \/ MockRaises(r) \/ Answered(r) \/ TimesOut(r) \/ TimedOut(r)
    PROVE  TypeInv'
<1> USE ApprovalAssumption DEF TypeInv, TypeOK, AttemptsLeft, Goes, Handles, answering, log
<1>1. CASE Request(r) BY <1>1 DEF Request
<1>2. CASE Register(r) BY <1>2 DEF Register
<1>3. CASE Notified(r) BY <1>3 DEF Notified
<1>4. CASE MockStarts(r) BY <1>4 DEF MockStarts
<1>5. CASE MockEnds(r) BY <1>5 DEF MockEnds
<1>6. CASE MockRaises(r) BY <1>6 DEF MockRaises
<1>7. CASE Answered(r) BY <1>7 DEF Answered, Return
<1>8. CASE TimesOut(r) BY <1>8 DEF TimesOut
<1>9. CASE TimedOut(r) BY <1>9 DEF TimedOut, Return
<1> QED
  BY <1>1, <1>2, <1>3, <1>4, <1>5, <1>6, <1>7, <1>8, <1>9

LEMMA TypeStep == TypeInv /\ [Next]_vars => TypeInv'
<1> SUFFICES ASSUME TypeInv, [Next]_vars PROVE TypeInv'
  OBVIOUS
<1> USE ApprovalAssumption DEF TypeInv, TypeOK, AttemptsLeft, Handles, asking, answering, log
<1>1. ASSUME NEW a \in Answers, Receive(a) PROVE TypeInv'
  BY <1>1 DEF Receive
<1>2. ASSUME NEW a \in Answers, log_approval_response(a) PROVE TypeInv'
  BY <1>2 DEF log_approval_response
<1>3. ASSUME NEW a \in Answers, Raises(a) PROVE TypeInv'
  <2>1. /\ handling[a] # "failed" /\ attempts[a] < MaxAttempts
        /\ handling' = [handling EXCEPT ![a] =
                          IF attempts[a] + 1 < MaxAttempts THEN "logging" ELSE "failed"]
        /\ attempts' = [attempts EXCEPT ![a] = @ + 1]
    BY <1>3 DEF Raises
  <2> QED
    BY <1>3, <2>1 DEF Raises
<1>4. ASSUME NEW a \in Answers, Deliver(a) PROVE TypeInv'
  <2>1. future' \in [Requests -> {"none", "open", "cancelled"} \cup Answers]
    BY <1>4 DEF Deliver, Resolve
  <2> QED
    BY <1>4, <2>1 DEF Deliver
<1>5. CASE UNCHANGED vars
  BY <1>5 DEF vars
<1> QED
  BY <1>1, <1>2, <1>3, <1>4, <1>5, RequestTypes DEF Next

\* The type invariant, and no more attempts than the decorator allows.
THEOREM TypeCorrect == Spec => []TypeOK
<1>1. TypeInv => TypeOK
  BY DEF TypeInv
<1> QED
  BY <1>1, TypeInit, TypeStep, PTL DEF Spec

----------------------------------------------------------------------------
(* The log *)

Logged == responses \cup unlogged

\* An answer is in the log, or known to have failed there, before the handler
\* comes to the future and for as long as a future has it.
LogInv ==
    /\ \A a \in Answers : handling[a] = "metrics" => a \in Logged
    /\ \A r \in Requests : future[r] \in Answers => future[r] \in Logged
    /\ LoggedFirst

LEMMA LogInit == Init => LogInv
BY ApprovalAssumption DEF Init, LogInv, LoggedFirst

\* A request takes its result from its future.
LEMMA RequestLogs ==
    ASSUME TypeInv, LogInv, NEW r \in Requests,
           \/ Request(r) \/ Register(r) \/ Notified(r) \/ MockStarts(r) \/ MockEnds(r)
           \/ MockRaises(r) \/ Answered(r) \/ TimesOut(r) \/ TimedOut(r)
    PROVE  LogInv'
<1> USE ApprovalAssumption
    DEF TypeInv, TypeOK, LogInv, LoggedFirst, Logged, Goes, Handles, answering, log
<1>1. CASE Request(r) BY <1>1 DEF Request
<1>2. CASE Register(r) BY <1>2 DEF Register
<1>3. CASE Notified(r) BY <1>3 DEF Notified
<1>4. CASE MockStarts(r) BY <1>4 DEF MockStarts
<1>5. CASE MockEnds(r) BY <1>5 DEF MockEnds
<1>6. CASE MockRaises(r) BY <1>6 DEF MockRaises
<1>7. CASE Answered(r) BY <1>7 DEF Answered, Return
<1>8. CASE TimesOut(r) BY <1>8 DEF TimesOut
<1>9. CASE TimedOut(r) BY <1>9 DEF TimedOut, Return
<1> QED
  BY <1>1, <1>2, <1>3, <1>4, <1>5, <1>6, <1>7, <1>8, <1>9

LEMMA LogStep == TypeInv /\ LogInv /\ [Next]_vars => LogInv'
<1> SUFFICES ASSUME TypeInv, LogInv, [Next]_vars PROVE LogInv'
  OBVIOUS
<1> USE ApprovalAssumption
    DEF TypeInv, TypeOK, LogInv, LoggedFirst, Logged, Handles, asking, answering, log
<1>1. ASSUME NEW a \in Answers, Receive(a) PROVE LogInv'
  BY <1>1 DEF Receive
<1>2. ASSUME NEW a \in Answers, log_approval_response(a) PROVE LogInv'
  BY <1>2 DEF log_approval_response
<1>3. ASSUME NEW a \in Answers, Raises(a) PROVE LogInv'
  BY <1>3 DEF Raises
<1>4. ASSUME NEW a \in Answers, Deliver(a) PROVE LogInv'
  <2>1. a \in Logged /\ UNCHANGED <<result, responses, unlogged>>
    BY <1>4 DEF Deliver
  <2>2. \A r \in Requests : future'[r] = future[r] \/ future'[r] = a
    BY <1>4 DEF Deliver, Resolve
  <2>3. handling' = [handling EXCEPT ![a] = "done"]
    BY <1>4 DEF Deliver
  <2> QED
    BY <2>1, <2>2, <2>3
<1>5. CASE UNCHANGED vars
  BY <1>5 DEF vars
<1> QED
  BY <1>1, <1>2, <1>3, <1>4, <1>5, RequestLogs DEF Next

\* No call returns an answer that the log knows nothing of.
THEOREM NothingUnlogged == Spec => []LoggedFirst
<1>1. LogInv => LoggedFirst
  BY DEF LogInv
<1> QED
  BY <1>1, TypeInit, TypeStep, LogInit, LogStep, PTL DEF Spec

----------------------------------------------------------------------------
(* The place of a request *)

LEMMA PlaceInit == Init => Answerable
BY DEF Init, Answerable, Waits

LEMMA PlaceStep == TypeInv /\ Answerable /\ [Next]_vars => Answerable'
<1> SUFFICES ASSUME TypeInv, Answerable, [Next]_vars,
                    NEW r \in Requests, Waits(r)',
                    \A q \in Requests \ {r} : decision_id'[q] # decision_id'[r]
             PROVE  registered'[decision_id'[r]] = r
  BY DEF Answerable
<1> USE ApprovalAssumption
    DEF TypeInv, TypeOK, Answerable, Waits, Goes, Handles, asking, answering, log
<1>1. ASSUME NEW q \in Requests, Request(q) PROVE registered'[decision_id'[r]] = r
  BY <1>1 DEF Request
<1>2. ASSUME NEW q \in Requests, Register(q) PROVE registered'[decision_id'[r]] = r
  <2>1. CASE q = r BY <1>2, <2>1 DEF Register
  <2>2. CASE q # r BY <1>2, <2>2 DEF Register
  <2> QED BY <2>1, <2>2
<1>3. ASSUME NEW q \in Requests, Notified(q) \/ MockEnds(q) \/ MockRaises(q)
      PROVE  registered'[decision_id'[r]] = r
  BY <1>3 DEF Notified, MockEnds, MockRaises
<1>4. ASSUME NEW q \in Requests, MockStarts(q) PROVE registered'[decision_id'[r]] = r
  BY <1>4 DEF MockStarts
<1>5. ASSUME NEW q \in Requests, Answered(q) \/ TimedOut(q)
      PROVE  registered'[decision_id'[r]] = r
  <2>1. q # r
    BY <1>5 DEF Answered, TimedOut, Return
  <2> QED
    BY <1>5, <2>1 DEF Answered, TimedOut, Return
<1>6. ASSUME NEW q \in Requests, TimesOut(q) PROVE registered'[decision_id'[r]] = r
  BY <1>6 DEF TimesOut
<1>7. ASSUME NEW a \in Answers, Receive(a) \/ log_approval_response(a) \/ Raises(a)
      PROVE  registered'[decision_id'[r]] = r
  BY <1>7 DEF Receive, log_approval_response, Raises
<1>8. ASSUME NEW a \in Answers, Deliver(a) PROVE registered'[decision_id'[r]] = r
  <2>1. UNCHANGED <<decision_id, at, registered>> /\ Resolve(a)
    BY <1>8 DEF Deliver
  <2>2. future[r] = "open"
    BY <2>1 DEF Resolve
  <2> QED
    BY <2>1, <2>2
<1>9. CASE UNCHANGED vars
  BY <1>9 DEF vars
<1> QED
  BY <1>1, <1>2, <1>3, <1>4, <1>5, <1>6, <1>7, <1>8, <1>9 DEF Next

\* A waiting request whose id nobody else uses keeps its place.
THEOREM PlaceKept == Spec => []Answerable
<1> QED
  BY TypeInit, TypeStep, PlaceInit, PlaceStep, PTL DEF Spec

----------------------------------------------------------------------------
(* The promise of an inquiry *)

\* A future is open from its entry in the table on and cancelled by the time
\* limit; the table has a request under its own id; an answer that came is
\* about some id.
AskInv ==
    /\ \A r \in Requests : at[r] \in {"new", "logging"} => future[r] = "none"
    /\ \A r \in Requests : at[r] = "timeout" => future[r] = "cancelled"
    /\ \A d \in Ids : registered[d] # None => decision_id[registered[d]] = d
    /\ \A a \in Answers : handling[a] = "unsent" <=> about[a] = None

InquiryInv == TypeInv /\ LogInv /\ Answerable /\ AskInv

LEMMA InquiryInit == Init => InquiryInv /\ Asking!Init
<1> SUFFICES ASSUME Init PROVE InquiryInv /\ Asking!Init
  OBVIOUS
<1>1. AskInv
  BY DEF Init, AskInv
<1>2. Call = [r \in Requests |-> "new"]
  BY DEF Init, Call
<1>3. Asking!Init
  BY <1>2 DEF Init, Asking!Init
<1> QED
  BY <1>1, <1>3, TypeInit, LogInit, PlaceInit DEF InquiryInv

\* The steps of a request keep it.
LEMMA RequestAsks ==
    ASSUME TypeInv, AskInv, NEW r \in Requests,
           \/ Request(r) \/ Register(r) \/ Notified(r) \/ MockStarts(r) \/ MockEnds(r)
           \/ MockRaises(r) \/ Answered(r) \/ TimesOut(r) \/ TimedOut(r)
    PROVE  AskInv'
<1> USE ApprovalAssumption DEF TypeInv, TypeOK, AskInv, Goes, Handles, answering, log
<1>1. CASE Request(r) BY <1>1 DEF Request
<1>2. CASE Register(r) BY <1>2 DEF Register
<1>3. CASE Notified(r) BY <1>3 DEF Notified
<1>4. CASE MockStarts(r) BY <1>4 DEF MockStarts
<1>5. CASE MockEnds(r) BY <1>5 DEF MockEnds
<1>6. CASE MockRaises(r) BY <1>6 DEF MockRaises
<1>7. CASE Answered(r) BY <1>7 DEF Answered, Return
<1>8. CASE TimesOut(r) BY <1>8 DEF TimesOut
<1>9. CASE TimedOut(r) BY <1>9 DEF TimedOut, Return
<1> QED
  BY <1>1, <1>2, <1>3, <1>4, <1>5, <1>6, <1>7, <1>8, <1>9

LEMMA AskStep == TypeInv /\ AskInv /\ [Next]_vars => AskInv'
<1> SUFFICES ASSUME TypeInv, AskInv, [Next]_vars PROVE AskInv'
  OBVIOUS
<1> USE ApprovalAssumption DEF TypeInv, TypeOK, AskInv, Handles, asking, answering, log
<1>1. ASSUME NEW a \in Answers, Receive(a) PROVE AskInv'
  BY <1>1 DEF Receive
<1>2. ASSUME NEW a \in Answers, log_approval_response(a) PROVE AskInv'
  BY <1>2 DEF log_approval_response
<1>3. ASSUME NEW a \in Answers, Raises(a) PROVE AskInv'
  BY <1>3 DEF Raises
<1>4. ASSUME NEW a \in Answers, Deliver(a) PROVE AskInv'
  <2>1. UNCHANGED <<decision_id, at, registered, about>> /\ handling' = [handling EXCEPT ![a] = "done"]
    BY <1>4 DEF Deliver
  <2>2. handling[a] = "metrics"
    BY <1>4 DEF Deliver
  <2>3. \A r \in Requests : future[r] # "open" => future'[r] = future[r]
    BY <1>4 DEF Deliver, Resolve
  <2> QED
    BY <2>1, <2>2, <2>3
<1>5. CASE UNCHANGED vars
  BY <1>5 DEF vars
<1> QED
  BY <1>1, <1>2, <1>3, <1>4, <1>5, RequestAsks DEF Next

LEMMA InquiryStep == InquiryInv /\ [Next]_vars => InquiryInv'
BY TypeStep, LogStep, PlaceStep, AskStep DEF InquiryInv

\* How far the call is, as its await moves.
LEMMA CallMoves ==
    ASSUME TypeInv, NEW r \in Requests, NEW from, NEW to, Goes(r, from, to)
    PROVE  /\ Call[r] = (IF from \in {"new", "logging"} THEN "new"
                         ELSE IF from \in {"done", "raised"} THEN from ELSE "asking")
           /\ Call' = [Call EXCEPT ![r] = IF to \in {"new", "logging"} THEN "new"
                                          ELSE IF to \in {"done", "raised"} THEN to ELSE "asking"]
BY DEF TypeInv, TypeOK, Goes, Call

\* A step that leaves the call where it was.
LEMMA CallStays ==
    ASSUME TypeInv, NEW r \in Requests, NEW from, NEW to, Goes(r, from, to),
           \/ from = "new" /\ to = "logging"
           \/ from \in {"notifying", "mock"} /\ to \in {"mock", "waiting"}
           \/ from = "waiting" /\ to = "timeout"
    PROVE  Call' = Call
<1>1. at' = [at EXCEPT ![r] = to] /\ at[r] = from
  BY DEF Goes
<1> QED
  BY <1>1 DEF TypeInv, TypeOK, Call

\* The answers that have been delivered.
Delivered == {a \in Answers : handling[a] = "done"}

LEMMA DeliveredKept ==
    ASSUME TypeInv, NEW a \in Answers, NEW from, NEW to, Handles(a, from, to),
           from # "done", to # "done"
    PROVE  Delivered' = Delivered
BY DEF TypeInv, TypeOK, Handles, Delivered

\* Each step of a request is one of its inquiry, or none.
LEMMA RequestPromised ==
    ASSUME InquiryInv, NEW r \in Requests,
           \/ Request(r) \/ Register(r) \/ Notified(r) \/ MockStarts(r) \/ MockEnds(r)
           \/ MockRaises(r) \/ Answered(r) \/ TimesOut(r) \/ TimedOut(r)
    PROVE  Asking!Next \/ UNCHANGED Asking!vars
<1> USE ApprovalAssumption DEF InquiryInv
<1>1. ASSUME UNCHANGED answering PROVE Delivered' = Delivered
  BY <1>1 DEF answering, Delivered
<1>2. ASSUME Request(r) \/ Notified(r) \/ MockEnds(r) PROVE UNCHANGED Asking!vars
  <2>1. UNCHANGED <<decision_id, future, result, answering, log>>
    BY <1>2 DEF Request, Notified, MockEnds
  <2>2. Call' = Call
    BY <1>2, CallStays DEF Request, Notified, MockEnds
  <2> QED
    BY <1>1, <2>1, <2>2 DEF Asking!vars, Delivered, answering, log
<1>3. ASSUME Register(r) PROVE Asking!Ask(r)
  <2>1. /\ Goes(r, "logging", "notifying") /\ future' = [future EXCEPT ![r] = "open"]
        /\ UNCHANGED <<decision_id, result, answering, log>>
    BY <1>3 DEF Register
  <2>2. future[r] = "none"
    BY <2>1 DEF AskInv, Goes
  <2>3. Call[r] = "new" /\ Call' = [Call EXCEPT ![r] = "asking"]
    BY <2>1, CallMoves
  <2> QED
    BY <1>1, <2>1, <2>2, <2>3 DEF Asking!Ask, Delivered, answering, log
<1>4. ASSUME MockStarts(r) PROVE \E a \in Answers : Asking!Come(a)
  <2>1. PICK a \in Answers : /\ Handles(a, "unsent", "logging")
                             /\ about' = [about EXCEPT ![a] = decision_id[r]]
    BY <1>4 DEF MockStarts
  <2>2. Goes(r, "notifying", "mock") /\ UNCHANGED <<decision_id, future, result, log>>
    BY <1>4 DEF MockStarts
  <2>3. about[a] = None
    BY <2>1 DEF AskInv, Handles
  <2>4. Call' = Call /\ Delivered' = Delivered
    BY <2>1, <2>2, CallStays, DeliveredKept
  <2>5. Asking!Come(a)
    BY <2>1, <2>2, <2>3, <2>4 DEF Asking!Come, Delivered, log
  <2> QED
    BY <2>5
<1>5. ASSUME MockRaises(r) PROVE Asking!Raise(r)
  <2>1. Goes(r, "mock", "raised") /\ UNCHANGED <<decision_id, future, result, answering, log>>
    BY <1>5 DEF MockRaises
  <2>2. Call[r] = "asking" /\ Call' = [Call EXCEPT ![r] = "raised"]
    BY <2>1, CallMoves
  <2> QED
    BY <1>1, <2>1, <2>2 DEF Asking!Raise, Delivered, answering, log
<1>6. ASSUME TimesOut(r) PROVE Asking!Expire(r)
  <2>1. /\ Goes(r, "waiting", "timeout") /\ future[r] = "open"
        /\ future' = [future EXCEPT ![r] = "cancelled"]
        /\ UNCHANGED <<decision_id, result, answering, log>>
    BY <1>6 DEF TimesOut
  <2>2. Call[r] = "asking" /\ Call' = Call
    BY <2>1, CallMoves, CallStays
  <2> QED
    BY <1>1, <2>1, <2>2 DEF Asking!Expire, Asking!Waits, Delivered, answering, log
<1>7. ASSUME Answered(r) \/ TimedOut(r) PROVE Asking!Return(r)
  <2>1. \/ Goes(r, "waiting", "done") /\ future[r] \in Answers
           /\ result' = [result EXCEPT ![r] = future[r]]
        \/ Goes(r, "timeout", "done") /\ result' = [result EXCEPT ![r] = "timeout"]
    BY <1>7 DEF Answered, TimedOut, Return
  <2>2. UNCHANGED <<decision_id, future, answering, log>>
    BY <1>7 DEF Answered, TimedOut, Return
  <2>3. Goes(r, "timeout", "done") => future[r] = "cancelled"
    BY DEF AskInv, Goes
  <2>4. Call[r] = "asking" /\ Call' = [Call EXCEPT ![r] = "done"]
    BY <2>1, CallMoves
  <2> QED
    BY <1>1, <2>1, <2>2, <2>3, <2>4 DEF Asking!Return, Delivered, answering, log
<1> QED
  BY <1>2, <1>3, <1>4, <1>5, <1>6, <1>7 DEF Asking!Next

\* Each step of a handler is one of the inquiries, or none.
LEMMA HandlerPromised ==
    ASSUME InquiryInv, NEW a \in Answers,
           Receive(a) \/ log_approval_response(a) \/ Raises(a) \/ Deliver(a)
    PROVE  Asking!Next \/ UNCHANGED Asking!vars
<1> USE ApprovalAssumption DEF InquiryInv
<1>1. UNCHANGED <<decision_id, at, result>> /\ Call' = Call
  BY DEF Receive, log_approval_response, Raises, Deliver, asking, Call
<1>2. ASSUME Receive(a) PROVE Asking!Come(a)
  <2>1. /\ Handles(a, "unsent", "logging")
        /\ \E r \in Requests : about' = [about EXCEPT ![a] = decision_id[r]]
        /\ UNCHANGED <<future, log>>
    BY <1>2 DEF Receive, asking
  <2>2. about[a] = None
    BY <2>1 DEF AskInv, Handles
  <2>3. Delivered' = Delivered
    BY <2>1, DeliveredKept
  <2> QED
    BY <1>1, <2>1, <2>2, <2>3 DEF Asking!Come, Delivered, log
<1>3. ASSUME log_approval_response(a) PROVE Asking!Record(a)
  <2>1. /\ Handles(a, "logging", "metrics") /\ UNCHANGED <<future, about>>
        /\ (responses \cup unlogged)' = (responses \cup unlogged) \cup {a}
    BY <1>3 DEF log_approval_response, asking
  <2>2. about[a] # None
    BY <2>1 DEF AskInv, Handles
  <2>3. Delivered' = Delivered
    BY <2>1, DeliveredKept
  <2> QED
    BY <1>1, <2>1, <2>2, <2>3 DEF Asking!Record, Delivered
<1>4. ASSUME Raises(a) PROVE UNCHANGED Asking!vars
  <2>1. PICK from \in {"logging", "metrics"} :
            Handles(a, from, IF attempts[a] + 1 < MaxAttempts THEN "logging" ELSE "failed")
    BY <1>4 DEF Raises
  <2>2. Delivered' = Delivered
    BY <2>1, DeliveredKept
  <2>3. UNCHANGED <<future, about, log>>
    BY <1>4 DEF Raises, asking
  <2> QED
    BY <1>1, <2>2, <2>3 DEF Asking!vars, Delivered, log
<1>5. ASSUME Deliver(a) PROVE Asking!Waste(a) \/ \E r \in Requests : Asking!Decide(r, a)
  <2> DEFINE r == registered[about[a]]
  <2>1. handling[a] = "metrics" /\ handling' = [handling EXCEPT ![a] = "done"]
        /\ UNCHANGED <<registered, about, log>> /\ Resolve(a)
    BY <1>5 DEF Deliver, Handles
  <2>2. a \in Logged \ Delivered /\ Delivered' = Delivered \cup {a}
    BY <2>1 DEF LogInv, Delivered, TypeInv, TypeOK
  <2>3. Asking!Deliver(a)
    BY <2>2 DEF Asking!Deliver, Delivered, Logged
  <2>4. about[a] \in Ids /\ r \in Requests \cup {None}
    BY <2>1 DEF AskInv, TypeInv, TypeOK
  <2>5. CASE r # None /\ future[r] = "open"
    <3>1. future' = [future EXCEPT ![r] = a]
      BY <2>1, <2>5 DEF Resolve
    <3>2. about[a] = decision_id[r]
      BY <2>4, <2>5 DEF AskInv
    <3>3. Asking!Decide(r, a)
      BY <1>1, <2>1, <2>3, <2>5, <3>1, <3>2 DEF Asking!Decide, log
    <3> QED
      BY <2>4, <2>5, <3>3
  <2>6. CASE ~(r # None /\ future[r] = "open")
    <3>1. future' = future
      BY <2>1, <2>6 DEF Resolve
    <3>2. ASSUME NEW q \in Requests, Asking!Waits(q), about[a] = decision_id[q]
          PROVE  \E p \in Requests \ {q} : decision_id[p] = decision_id[q]
      <4>1. Waits(q)
        BY <3>2 DEF Asking!Waits, Waits, Call, TypeInv, TypeOK, AskInv
      <4>2. registered[decision_id[q]] # q
        BY <2>6, <3>2, <4>1 DEF Waits
      <4> QED
        BY <4>1, <4>2 DEF Answerable
    <3>3. Asking!Waste(a)
      BY <1>1, <2>1, <2>3, <3>1, <3>2 DEF Asking!Waste, log
    <3> QED
      BY <3>3
  <2> QED
    BY <2>5, <2>6
<1> QED
  BY <1>2, <1>3, <1>4, <1>5 DEF Asking!Next

LEMMA InquirySteps == InquiryInv /\ [Next]_vars => [Asking!Next]_Asking!vars
<1> SUFFICES ASSUME InquiryInv, [Next]_vars PROVE Asking!Next \/ UNCHANGED Asking!vars
  OBVIOUS
<1>1. ASSUME UNCHANGED vars PROVE UNCHANGED Asking!vars
  <2>1. Call' = Call
    BY <1>1 DEF vars, asking, Call
  <2> QED
    BY <1>1, <2>1 DEF vars, asking, answering, log, Asking!vars
<1> QED
  BY <1>1, RequestPromised, HandlerPromised DEF Next

\* With its futures, its table, its retries and the mock approver, asking a
\* human keeps the promise of an inquiry.
THEOREM ImplementsInquiry == Spec => DecidesOnce
<1> QED
  BY InquiryInit, InquiryStep, InquirySteps, PTL DEF Spec, DecidesOnce, Asking!Spec

============================================================================
