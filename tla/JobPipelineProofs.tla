------------------------- MODULE JobPipelineProofs -------------------------
(***************************************************************************)
(* The guards of the pipeline, one generation per job and one dispatch per *)
(* job, for any jobs, tasks, slots and outcomes.                           *)
(***************************************************************************)
EXTENDS JobPipeline, TLAPS

\* A job has one registered upload task at most: what lets End forget the job.
OneRegistered ==
    \A t, u \in Tasks : Registered(t) /\ Registered(u) /\ job[t] = job[u] => t = u

StartedMatches ==
    \A j \in Jobs : j \in started <=> \E t \in Tasks : Registered(t) /\ job[t] = j
InPipelineMatches ==
    \A j \in Jobs : j \in inPipeline <=> \E t \in Tasks : InFullPipeline(t) /\ job[t] = j

RegisteredInv == OneRegistered /\ StartedMatches
FullInv == OneGeneration /\ InPipelineMatches

\* A completion is sent only as its job is finalized.
SentInv == \A j \in Jobs : /\ sent[j] \in {0, 1}
                           /\ j \notin finalized => sent[j] = 0

\* Initially there are no tasks.
LEMMA InitInv == Init => TypeOK /\ RegisteredInv /\ FullInv /\ SentInv
<1> SUFFICES ASSUME Init PROVE TypeOK /\ RegisteredInv /\ FullInv /\ SentInv
  OBVIOUS
<1>1. TypeOK
  BY DEF Init, TypeOK, AtAwait, Status
<1>2. RegisteredInv /\ FullInv
  BY DEF Init, RegisteredInv, OneRegistered, StartedMatches, FullInv, OneGeneration,
         InPipelineMatches, Registered, InFullPipeline, AtAwait
<1>3. SentInv
  BY DEF Init, SentInv
<1> QED
  BY <1>1, <1>2, <1>3

\* Every step keeps the types.
LEMMA TypeStep == TypeOK /\ [Next]_vars => TypeOK'
<1> SUFFICES ASSUME TypeOK, [Next]_vars PROVE TypeOK'
  OBVIOUS
<1> USE PipelineAssumption DEF TypeOK, AtAwait, Status
<1>1. ASSUME NEW t \in Tasks, NEW j \in Jobs, Upload(t, j) \/ Respond(t, j) \/ RunDirect(t, j)
      PROVE  TypeOK'
  BY <1>1 DEF Upload, Respond, RunDirect, Spawn, SetStatus, guards, outcomes, shutVars
<1>2. ASSUME NEW j \in Jobs, Cancel(j) \/ Delete(j)
      PROVE  TypeOK'
  BY <1>2 DEF Cancel, Delete, SetStatus, guards, outcomes, shutVars, taskVars
<1>3. ASSUME NEW t \in Tasks, BeginUpload(t) \/ AcquireSlot(t) \/ NoQuestions(t) \/ Interrupted(t)
      PROVE  TypeOK'
  BY <1>3 DEF BeginUpload, AcquireSlot, NoQuestions, Interrupted, End, outcomes, shutVars
<1>4. ASSUME NEW t \in Tasks, Questions(t)
      PROVE  TypeOK'
  BY <1>4 DEF Questions, SetStatus, End, outcomes, shutVars
<1>5. ASSUME NEW t \in Tasks, GiveUp(t)
      PROVE  TypeOK'
  BY <1>5 DEF GiveUp, FinalizeFailure, End, shutVars
<1>6. ASSUME NEW t \in Tasks, AgentsReady(t) \/ BeginDirect(t)
      PROVE  TypeOK'
  BY <1>6 DEF AgentsReady, BeginDirect, EnterFullPipeline, End, outcomes, shutVars
<1>7. ASSUME NEW t \in Tasks, BeginResume(t)
      PROVE  TypeOK'
  BY <1>7 DEF BeginResume, EnterFullPipeline, SetStatus, End, outcomes, shutVars
<1>8. ASSUME NEW t \in Tasks, InnerQuestions(t)
      PROVE  TypeOK'
  BY <1>8 DEF InnerQuestions, LeaveFullPipeline, FinalizeFailure, SetStatus, End, shutVars
<1>9. ASSUME NEW t \in Tasks, InnerClear(t)
      PROVE  TypeOK'
  BY <1>9 DEF InnerClear, guards, outcomes, shutVars
<1>10. ASSUME NEW t \in Tasks, NEW o \in Outcomes, Generated(t, o)
       PROVE  TypeOK'
  <2> DEFINE j == job[t]
             now == IF o \in Rejecting /\ status[j] # "gone" THEN "failed" ELSE status[j]
  <2>1. pc[t] = "generating" /\ j \in Jobs /\ now \in Status
    BY <1>10 DEF Generated
  <2>2. /\ inPipeline' = inPipeline \ {j}
        /\ UNCHANGED <<kind, job, shutVars>>
    BY <1>10, <2>1 DEF Generated, LeaveFullPipeline
  <2>3. ASSUME FinalizeFailure(t, now) PROVE TypeOK'
    BY <2>1, <2>2, <2>3 DEF FinalizeFailure, End, shutVars
  <2>4. ASSUME NEW s \in Succeeded, FinalizeSuccess(t, s, now) PROVE TypeOK'
    BY <2>1, <2>2, <2>4 DEF FinalizeSuccess, End, shutVars, Succeeded
  <2>5. ASSUME status' = [status EXCEPT ![j] = now], End(t), UNCHANGED <<finalized, dispatched, sent>>
        PROVE  TypeOK'
    BY <2>1, <2>2, <2>5 DEF End, shutVars
  <2> QED
    BY <1>10, <2>3, <2>4, <2>5 DEF Generated, Succeeded
<1>11. ASSUME NEW t \in Tasks, Dispatched(t)
       PROVE  TypeOK'
  BY <1>11 DEF Dispatched, End, shutVars
<1>12. CASE Sigterm
  BY <1>12 DEF Sigterm, guards, outcomes, taskVars
<1>13. CASE StopServing
  BY <1>13 DEF StopServing, outcomes, Terminal
<1>14. CASE CancelTasks
  BY <1>14 DEF CancelTasks, outcomes
<1>15. CASE Exit
  BY <1>15 DEF Exit, outcomes
<1>16. ASSUME NEW j \in Jobs, Protect(j)
       PROVE  TypeOK'
  BY <1>16 DEF Protect, guards, outcomes, taskVars
<1>17. CASE UNCHANGED vars
  BY <1>17 DEF vars, guards, outcomes, taskVars, shutVars
<1> QED
  BY <1>1, <1>2, <1>3, <1>4, <1>5, <1>6, <1>7, <1>8, <1>9, <1>10, <1>11, <1>12, <1>13, <1>14,
     <1>15, <1>16, <1>17
     DEF Next, Request, TaskStep, Shutdown

\* The jobs, the tasks and the pipelines are well typed in every behaviour.
THEOREM TypeCorrect == Spec => []TypeOK
  BY InitInv, TypeStep, PTL DEF Spec

----------------------------------------------------------------------------
(* How a step of one task moves the guards *)

\* A registered upload task, or any other task, ends.
LEMMA EndForgets ==
    ASSUME TypeOK, RegisteredInv, NEW t \in Tasks, End(t), UNCHANGED <<kind, job>>,
           kind[t] = "upload" => Registered(t)
    PROVE  RegisteredInv'
  BY DEF TypeOK, RegisteredInv, OneRegistered, StartedMatches, Registered, AtAwait, End

\* A registered upload task, or any other task, goes on to another await.
LEMMA MoveKeeps ==
    ASSUME TypeOK, RegisteredInv, NEW t \in Tasks, NEW a \in AtAwait \ {"spawned"},
           pc' = [pc EXCEPT ![t] = a], UNCHANGED <<started, kind, job>>,
           kind[t] = "upload" => Registered(t)
    PROVE  RegisteredInv'
  BY DEF TypeOK, RegisteredInv, OneRegistered, StartedMatches, Registered, AtAwait

\* A task that is not in the full pipeline ends or moves outside of it.
LEMMA OutsideKeeps ==
    ASSUME TypeOK, FullInv, NEW t \in Tasks, NEW a \in (AtAwait \cup {"done"}) \ {"inner", "generating"},
           pc' = [pc EXCEPT ![t] = a], UNCHANGED <<inPipeline, job>>, ~InFullPipeline(t)
    PROVE  FullInv'
  BY DEF TypeOK, FullInv, OneGeneration, InPipelineMatches, InFullPipeline, AtAwait

\* A task leaves the full pipeline.
LEMMA LeaveForgets ==
    ASSUME TypeOK, FullInv, NEW t \in Tasks, NEW a \in (AtAwait \cup {"done"}) \ {"inner", "generating"},
           pc' = [pc EXCEPT ![t] = a], UNCHANGED job, InFullPipeline(t), LeaveFullPipeline(t)
    PROVE  FullInv'
  BY DEF TypeOK, FullInv, OneGeneration, InPipelineMatches, InFullPipeline, AtAwait, LeaveFullPipeline

\* A task enters the full pipeline, or is sent away as a duplicate.
LEMMA EnterGuarded ==
    ASSUME TypeOK, FullInv, RegisteredInv, NEW t \in Tasks, pc[t] \in {"spawned", "agents"},
           kind[t] = "upload" => Registered(t), UNCHANGED <<kind, job>>, EnterFullPipeline(t)
    PROVE  FullInv' /\ RegisteredInv'
<1>1. CASE job[t] \in inPipeline
  <2>1. End(t) /\ UNCHANGED inPipeline /\ pc' = [pc EXCEPT ![t] = "done"]
    BY <1>1 DEF EnterFullPipeline, End
  <2> QED
    BY <2>1, EndForgets, OutsideKeeps DEF InFullPipeline
<1>2. CASE job[t] \notin inPipeline
  <2>1. PICK a \in {"inner", "generating"} :
            pc' = [pc EXCEPT ![t] = a] /\ inPipeline' = inPipeline \cup {job[t]} /\ UNCHANGED started
    BY <1>2 DEF EnterFullPipeline
  <2>2. RegisteredInv'
    BY <2>1, MoveKeeps DEF AtAwait
  <2>3. FullInv'
    BY <1>2, <2>1 DEF TypeOK, FullInv, OneGeneration, InPipelineMatches, InFullPipeline, AtAwait
  <2> QED
    BY <2>2, <2>3
<1> QED
  BY <1>1, <1>2

----------------------------------------------------------------------------
(* The guards *)

\* Every step keeps the two guards in line with the tasks.
LEMMA GuardStep == TypeOK /\ RegisteredInv /\ FullInv /\ [Next]_vars => RegisteredInv' /\ FullInv'
<1> SUFFICES ASSUME TypeOK, RegisteredInv, FullInv, [Next]_vars
             PROVE  RegisteredInv' /\ FullInv'
  OBVIOUS
<1>1. ASSUME NEW t \in Tasks, NEW j \in Jobs, Upload(t, j) \/ Respond(t, j) \/ RunDirect(t, j)
      PROVE  RegisteredInv' /\ FullInv'
  <2>1. PICK k \in {"upload", "resume", "direct"} : Spawn(t, j, k) /\ UNCHANGED guards
    BY <1>1 DEF Upload, Respond, RunDirect
  <2> QED
    BY <2>1 DEF Spawn, guards, TypeOK, RegisteredInv, OneRegistered, StartedMatches, FullInv,
                OneGeneration, InPipelineMatches, Registered, InFullPipeline, AtAwait
<1>2. ASSUME UNCHANGED <<guards, taskVars>>
      PROVE  RegisteredInv' /\ FullInv'
  BY <1>2 DEF guards, taskVars, RegisteredInv, OneRegistered, StartedMatches, FullInv,
              OneGeneration, InPipelineMatches, Registered, InFullPipeline
<1>3. ASSUME NEW t \in Tasks, BeginUpload(t)
      PROVE  RegisteredInv' /\ FullInv'
  <2>1. PICK a \in {"done", "waiting"} : pc' = [pc EXCEPT ![t] = a]
    BY <1>3 DEF BeginUpload
  <2>2. FullInv'
    BY <1>3, <2>1, OutsideKeeps DEF BeginUpload, InFullPipeline, AtAwait
  <2>3. RegisteredInv'
    BY <1>3 DEF BeginUpload, TypeOK, RegisteredInv, OneRegistered, StartedMatches, Registered, AtAwait
  <2> QED
    BY <2>2, <2>3
\* A task outside of the full pipeline, registered if an upload's, ends ...
<1>4. ASSUME NEW t \in Tasks, pc[t] \in {"waiting", "clarifying", "agents", "dispatching", "spawned"},
             kind[t] = "upload" => Registered(t), End(t), UNCHANGED <<inPipeline, kind, job>>
      PROVE  RegisteredInv' /\ FullInv'
  BY <1>4, EndForgets, OutsideKeeps DEF End, InFullPipeline
\* ... or goes on.
<1>5. ASSUME NEW t \in Tasks, pc[t] \in {"waiting", "clarifying"}, NEW a \in {"clarifying", "agents"},
             kind[t] = "upload" => Registered(t), pc' = [pc EXCEPT ![t] = a],
             UNCHANGED <<started, inPipeline, kind, job>>
      PROVE  RegisteredInv' /\ FullInv'
  BY <1>5, MoveKeeps, OutsideKeeps DEF InFullPipeline, AtAwait
\* A task inside leaves the full pipeline, to end or to dispatch.
<1>6. ASSUME NEW t \in Tasks, InFullPipeline(t), LeaveFullPipeline(t), UNCHANGED <<kind, job>>,
             End(t) \/ (pc' = [pc EXCEPT ![t] = "dispatching"] /\ UNCHANGED started)
      PROVE  RegisteredInv' /\ FullInv'
  <2>1. kind[t] = "upload" => Registered(t)
    BY <1>6 DEF Registered, InFullPipeline, AtAwait
  <2>2. RegisteredInv'
    BY <1>6, <2>1, EndForgets, MoveKeeps DEF AtAwait
  <2>3. FullInv'
    BY <1>6, LeaveForgets DEF End, AtAwait
  <2> QED
    BY <2>2, <2>3
<1>7. ASSUME NEW t \in Tasks, AcquireSlot(t) \/ NoQuestions(t) \/ Interrupted(t) \/ Questions(t)
                               \/ GiveUp(t) \/ Dispatched(t)
      PROVE  RegisteredInv' /\ FullInv'
  <2>1. /\ pc[t] \in {"waiting", "clarifying", "agents", "dispatching"}
        /\ UNCHANGED <<inPipeline, kind, job>>
        /\ End(t) \/ /\ pc[t] \in {"waiting", "clarifying"}
                     /\ \E a \in {"clarifying", "agents"} : pc' = [pc EXCEPT ![t] = a]
                     /\ UNCHANGED started
    BY <1>7 DEF AcquireSlot, NoQuestions, Interrupted, Questions, GiveUp, Dispatched, FinalizeFailure
  <2>2. kind[t] = "upload" => Registered(t)
    BY <2>1 DEF Registered, AtAwait
  <2> QED
    BY <2>1, <2>2, <1>4, <1>5
<1>8. ASSUME NEW t \in Tasks, AgentsReady(t) \/ BeginDirect(t)
      PROVE  RegisteredInv' /\ FullInv'
  <2>1. /\ pc[t] \in {"spawned", "agents"} /\ EnterFullPipeline(t) /\ UNCHANGED <<kind, job>>
        /\ kind[t] = "upload" => Registered(t)
    BY <1>8 DEF AgentsReady, BeginDirect, Registered, AtAwait
  <2> QED
    BY <2>1, EnterGuarded
<1>9. ASSUME NEW t \in Tasks, BeginResume(t)
      PROVE  RegisteredInv' /\ FullInv'
  <2>1. /\ pc[t] = "spawned" /\ kind[t] # "upload" /\ UNCHANGED <<kind, job>>
        /\ EnterFullPipeline(t) \/ (End(t) /\ UNCHANGED inPipeline)
    BY <1>9 DEF BeginResume
  <2> QED
    BY <2>1, EnterGuarded, <1>4
<1>10. ASSUME NEW t \in Tasks, InnerQuestions(t)
       PROVE  RegisteredInv' /\ FullInv'
  <2>1. InFullPipeline(t) /\ LeaveFullPipeline(t) /\ UNCHANGED <<kind, job>> /\ End(t)
    BY <1>10 DEF InnerQuestions, FinalizeFailure, InFullPipeline
  <2> QED
    BY <2>1, <1>6
<1>11. ASSUME NEW t \in Tasks, InnerClear(t)
       PROVE  RegisteredInv' /\ FullInv'
  BY <1>11 DEF InnerClear, guards, TypeOK, RegisteredInv, OneRegistered, StartedMatches, FullInv,
               OneGeneration, InPipelineMatches, Registered, InFullPipeline, AtAwait
<1>12. ASSUME NEW t \in Tasks, NEW o \in Outcomes, Generated(t, o)
       PROVE  RegisteredInv' /\ FullInv'
  <2>1. InFullPipeline(t) /\ LeaveFullPipeline(t) /\ UNCHANGED <<kind, job>>
    BY <1>12 DEF Generated, InFullPipeline
  <2>2. End(t) \/ (pc' = [pc EXCEPT ![t] = "dispatching"] /\ UNCHANGED started)
    BY <1>12 DEF Generated, FinalizeSuccess, FinalizeFailure
  <2> QED
    BY <2>1, <2>2, <1>6
<1>13. CASE StopServing
  BY <1>13 DEF StopServing, TypeOK, RegisteredInv, OneRegistered, StartedMatches, FullInv,
               OneGeneration, InPipelineMatches, Registered, InFullPipeline, AtAwait
<1>14. CASE CancelTasks
  BY <1>14 DEF CancelTasks, TypeOK, RegisteredInv, OneRegistered, StartedMatches, FullInv,
               OneGeneration, InPipelineMatches, Registered, InFullPipeline, AtAwait
<1>15. CASE Exit
  BY <1>15 DEF Exit, TypeOK, RegisteredInv, OneRegistered, StartedMatches, FullInv,
               OneGeneration, InPipelineMatches, Registered, InFullPipeline, AtAwait
<1>16. ASSUME NEW j \in Jobs, Cancel(j) \/ Delete(j) \/ Protect(j)
       PROVE  UNCHANGED <<guards, taskVars>>
  BY <1>16 DEF Cancel, Delete, Protect
<1>17. ASSUME Sigterm \/ UNCHANGED vars
       PROVE  UNCHANGED <<guards, taskVars>>
  BY <1>17 DEF Sigterm, vars
<1> QED
  BY <1>1, <1>2, <1>3, <1>7, <1>8, <1>9, <1>10, <1>11, <1>12, <1>13, <1>14, <1>15, <1>16, <1>17
     DEF Next, Request, TaskStep, Shutdown

\* Any way a pipeline ends, its job leaves the guards: no job is refused
\* for ever as already running.
THEOREM GuardsCorrect == Spec => []GuardsMatchTasks
<1>1. TypeOK /\ RegisteredInv /\ FullInv => GuardsMatchTasks
  BY DEF TypeOK, RegisteredInv, StartedMatches, FullInv, InPipelineMatches, GuardsMatchTasks,
         Registered, InFullPipeline, AtAwait
<1> QED
  BY <1>1, InitInv, TypeStep, GuardStep, PTL DEF Spec

\* However uploads, answers and direct requests race, a job has at most one
\* code generation under way.
THEOREM GenerationExclusive == Spec => []OneGeneration
<1>1. FullInv => OneGeneration
  BY DEF FullInv
<1> QED
  BY <1>1, InitInv, TypeStep, GuardStep, PTL DEF Spec

----------------------------------------------------------------------------
(* Finalization *)

\* Every step sends a completion at most as it finalizes the job, and a
\* finalized job stays finalized.
LEMMA SentStep == TypeOK /\ SentInv /\ [Next]_vars => SentInv'
<1> SUFFICES ASSUME TypeOK, SentInv, [Next]_vars PROVE SentInv'
  OBVIOUS
<1>1. ASSUME finalized \subseteq finalized', UNCHANGED sent
      PROVE  SentInv'
  BY <1>1 DEF SentInv
<1>2. ASSUME NEW t \in Tasks, NEW s, NEW now, job[t] \in Jobs, FinalizeSuccess(t, s, now)
      PROVE  SentInv'
  BY <1>2 DEF FinalizeSuccess, End, SentInv, TypeOK
<1>3. ASSUME NEW t \in Tasks, NEW o \in Outcomes, Generated(t, o)
      PROVE  SentInv'
  <2>1. job[t] \in Jobs
    BY <1>3 DEF Generated, TypeOK, AtAwait
  <2> QED
    BY <1>3, <2>1, <1>1, <1>2 DEF Generated, FinalizeFailure
<1>4. ASSUME NEW t \in Tasks, TaskStep(t), ~ \E o \in Outcomes : Generated(t, o)
      PROVE  finalized \subseteq finalized' /\ UNCHANGED sent
  BY <1>4 DEF TaskStep, BeginUpload, AcquireSlot, Questions, NoQuestions, GiveUp, Interrupted,
              AgentsReady, BeginDirect, BeginResume, InnerQuestions, InnerClear, Dispatched,
              FinalizeFailure, outcomes
<1>5. ASSUME Request \/ Shutdown \/ UNCHANGED vars
      PROVE  finalized \subseteq finalized' /\ UNCHANGED sent
  BY <1>5 DEF Request, Cancel, Delete, Upload, Respond, RunDirect, Shutdown, Sigterm, StopServing,
              Protect, CancelTasks, Exit, outcomes, vars
<1> QED
  BY <1>1, <1>3, <1>4, <1>5 DEF Next

\* A job's completion is dispatched at most once, however often the job is
\* uploaded, resumed or run again.
THEOREM DispatchUnique == Spec => []DispatchedOnce
<1>1. SentInv => DispatchedOnce
  BY DEF SentInv, DispatchedOnce
<1> QED
  BY <1>1, InitInv, TypeStep, SentStep, PTL DEF Spec

\* No later pipeline makes a success of a job that was finalized before.
THEOREM FinalizedOnce == Spec => FinalOnce
<1> DEFINE Kept == \A j \in finalized : status'[j] \in Succeeded => status[j] = status'[j]
<1>1. TypeOK /\ [Next]_vars => [Kept]_vars
  <2> SUFFICES ASSUME TypeOK, Next, NEW i \in finalized, status'[i] \in Succeeded
               PROVE  status[i] = status'[i]
    OBVIOUS
  <2> USE DEF TypeOK, Succeeded, AtAwait
  <2>1. ASSUME NEW j \in Jobs, NEW s, s \notin Succeeded, SetStatus(j, s)
        PROVE  status[i] = status'[i]
    BY <2>1 DEF SetStatus
  <2>2. ASSUME NEW t \in Tasks, NEW now, job[t] \in Jobs, now = status[job[t]] \/ now \notin Succeeded,
               \/ FinalizeFailure(t, now)
               \/ \E s \in Succeeded : FinalizeSuccess(t, s, now)
               \/ status' = [status EXCEPT ![job[t]] = now]
        PROVE  status[i] = status'[i]
    BY <2>2 DEF FinalizeFailure, FinalizeSuccess
  <2>3. ASSUME NEW t \in Tasks, NEW o \in Outcomes, Generated(t, o)
        PROVE  status[i] = status'[i]
    BY <2>3, <2>2 DEF Generated
  <2>4. ASSUME NEW t \in Tasks, GiveUp(t) \/ InnerQuestions(t)
        PROVE  status[i] = status'[i]
    BY <2>4, <2>1, <2>2 DEF GiveUp, InnerQuestions
  <2>5. ASSUME NEW t \in Tasks, TaskStep(t), ~ \E o \in Outcomes : Generated(t, o),
               ~ GiveUp(t), ~ InnerQuestions(t)
        PROVE  status[i] = status'[i]
    BY <2>5, <2>1 DEF TaskStep, BeginUpload, AcquireSlot, Questions, NoQuestions, Interrupted,
                      AgentsReady, BeginDirect, BeginResume, InnerClear, Dispatched
  <2>6. ASSUME Request PROVE status[i] = status'[i]
    BY <2>6, <2>1 DEF Request, Cancel, Delete, Upload, Respond, RunDirect
  <2>7. ASSUME Shutdown PROVE status[i] = status'[i]
    BY <2>7 DEF Shutdown, Sigterm, StopServing, Protect, CancelTasks, Exit
  <2> QED
    BY <2>3, <2>4, <2>5, <2>6, <2>7 DEF Next
<1> QED
  BY <1>1, InitInv, TypeStep, PTL DEF Spec, FinalOnce

----------------------------------------------------------------------------
(* The life of a job *)

\* A completion that is on its way, or has been answered, was sent.
HandingSent == \A t \in Tasks : pc[t] = "dispatching" => sent[job[t]] = 1
OneHanding ==
    \A t, u \in Tasks :
        pc[t] = "dispatching" /\ pc[u] = "dispatching" /\ job[t] = job[u] => t = u
ToldSent == \A j \in dispatched : sent[j] = 1

\* Resumed and direct pipelines run in requests; the jobs that are listed exist;
\* no task outlives the process.
Serving == \A t \in Tasks : kind[t] # "upload" /\ pc[t] \in AtAwait => phase = "serving"
Listed == \A j \in toProtect : status[j] # "gone" /\ phase # "serving"
Ended == phase = "stopped" => \A t \in Tasks : pc[t] \notin AtAwait

SendInv == HandingSent /\ OneHanding /\ ToldSent
StopInv == Serving /\ Listed /\ Ended
LifeInv == TypeOK /\ SentInv /\ FullInv /\ SendInv /\ StopInv

\* Initially nothing is sent or listed.
LEMMA InitLifeInv == Init => LifeInv
<1> SUFFICES ASSUME Init PROVE LifeInv
  OBVIOUS
<1>1. SendInv
  BY DEF Init, SendInv, HandingSent, OneHanding, ToldSent
<1>2. StopInv
  BY DEF Init, StopInv, Serving, Listed, Ended, AtAwait
<1> QED
  BY <1>1, <1>2, InitInv DEF LifeInv

\* A task under way moves to another await than the dispatch, or ends.
LEMMA MoveSends ==
    ASSUME TypeOK, SendInv, NEW t \in Tasks, NEW a, a # "dispatching",
           pc' = [pc EXCEPT ![t] = a], UNCHANGED <<sent, dispatched>>,
           \A u \in Tasks : u # t => job'[u] = job[u]
    PROVE  SendInv'
BY DEF TypeOK, SendInv, HandingSent, OneHanding, ToldSent

\* Only the step that finalizes a success sends, and only the first.
LEMMA SuccessSends ==
    ASSUME TypeOK, SentInv, SendInv, NEW t \in Tasks, NEW s, NEW now,
           pc[t] = "generating", FinalizeSuccess(t, s, now), UNCHANGED job
    PROVE  SendInv'
<1> DEFINE j == job[t]
<1>1. j \in Jobs
  BY DEF TypeOK, AtAwait
<1>2. CASE j \in finalized \/ status[j] = "gone"
  <2>1. pc' = [pc EXCEPT ![t] = "done"] /\ UNCHANGED <<sent, dispatched>>
    BY <1>2 DEF FinalizeSuccess, End
  <2> QED
    BY <2>1, MoveSends
<1>3. CASE j \notin finalized /\ status[j] # "gone"
  <2>1. sent[j] = 0
    BY <1>1, <1>3 DEF SentInv
  <2>2. j \notin dispatched /\ \A u \in Tasks : pc[u] = "dispatching" => job[u] # j
    BY <2>1 DEF SendInv, ToldSent, HandingSent
  <2>3. /\ sent' = [sent EXCEPT ![j] = @ + 1] /\ pc' = [pc EXCEPT ![t] = "dispatching"]
        /\ dispatched' = dispatched /\ job' = job
    BY <1>3, <2>2 DEF FinalizeSuccess
  <2>4. sent'[j] = 1 /\ \A i \in Jobs : i # j => sent'[i] = sent[i]
    BY <1>1, <2>1, <2>3 DEF TypeOK
  <2>5. pc'[t] = "dispatching" /\ \A u \in Tasks : u # t => pc'[u] = pc[u]
    BY <2>3 DEF TypeOK
  <2>6. \A u \in Tasks : pc[u] = "dispatching" => job[u] \in Jobs
    BY DEF TypeOK, AtAwait
  <2> HIDE DEF j
  <2>7. HandingSent'
    BY <2>2, <2>3, <2>4, <2>5, <2>6 DEF SendInv, HandingSent, j
  <2>8. OneHanding'
    BY <2>2, <2>3, <2>5 DEF SendInv, OneHanding, j
  <2>9. ToldSent'
    BY <2>2, <2>3, <2>4 DEF SendInv, ToldSent, TypeOK
  <2> QED
    BY <2>7, <2>8, <2>9 DEF SendInv
<1> QED
  BY <1>2, <1>3

\* Every step keeps what is sent in line with the dispatches.
LEMMA SendStep == TypeOK /\ SentInv /\ SendInv /\ [Next]_vars => SendInv'
<1> SUFFICES ASSUME TypeOK, SentInv, SendInv, [Next]_vars PROVE SendInv'
  OBVIOUS
<1>1. ASSUME NEW t \in Tasks, NEW j \in Jobs, Upload(t, j) \/ Respond(t, j) \/ RunDirect(t, j)
      PROVE  SendInv'
  <2>1. /\ pc' = [pc EXCEPT ![t] = "spawned"] /\ job' = [job EXCEPT ![t] = j]
        /\ UNCHANGED <<sent, dispatched>>
    BY <1>1 DEF Upload, Respond, RunDirect, Spawn, outcomes
  <2>2. \A u \in Tasks : u # t => job'[u] = job[u]
    BY <2>1 DEF TypeOK
  <2> QED
    BY <2>1, <2>2, MoveSends
<1>2. ASSUME NEW t \in Tasks, TaskStep(t), ~ \E o \in Outcomes : Generated(t, o), ~ Dispatched(t)
      PROVE  SendInv'
  <2>1. \E a \in {"done", "waiting", "clarifying", "agents", "inner", "generating"} :
            pc' = [pc EXCEPT ![t] = a]
    BY <1>2 DEF TaskStep, BeginUpload, AcquireSlot, Questions, NoQuestions, GiveUp, Interrupted,
                AgentsReady, BeginDirect, BeginResume, InnerQuestions, InnerClear,
                FinalizeFailure, EnterFullPipeline, End
  <2>2. UNCHANGED <<sent, dispatched, job>>
    BY <1>2 DEF TaskStep, BeginUpload, AcquireSlot, Questions, NoQuestions, GiveUp, Interrupted,
                AgentsReady, BeginDirect, BeginResume, InnerQuestions, InnerClear,
                FinalizeFailure, outcomes
  <2> QED
    BY <2>1, <2>2, MoveSends
<1>3. ASSUME NEW t \in Tasks, NEW o \in Outcomes, Generated(t, o) PROVE SendInv'
  <2>1. pc[t] = "generating" /\ job' = job
    BY <1>3 DEF Generated
  <2>2. ASSUME NEW now, FinalizeFailure(t, now) PROVE SendInv'
    <3>1. pc' = [pc EXCEPT ![t] = "done"] /\ UNCHANGED <<sent, dispatched>>
      BY <2>2 DEF FinalizeFailure, End
    <3> QED
      BY <2>1, <3>1, MoveSends
  <2>3. ASSUME End(t), UNCHANGED <<sent, dispatched>> PROVE SendInv'
    <3>1. pc' = [pc EXCEPT ![t] = "done"]
      BY <2>3 DEF End
    <3> QED
      BY <2>1, <2>3, <3>1, MoveSends
  <2>4. ASSUME NEW s, NEW now, FinalizeSuccess(t, s, now) PROVE SendInv'
    BY <2>1, <2>4, SuccessSends
  <2> QED
    BY <1>3, <2>2, <2>3, <2>4 DEF Generated
<1>4. ASSUME NEW t \in Tasks, Dispatched(t) PROVE SendInv'
  <2>1. /\ pc[t] = "dispatching" /\ pc' = [pc EXCEPT ![t] = "done"]
        /\ UNCHANGED <<sent, job>>
        /\ dispatched' = dispatched \/ dispatched' = dispatched \cup {job[t]}
    BY <1>4 DEF Dispatched, End
  <2>2. HandingSent' /\ OneHanding'
    BY <2>1 DEF TypeOK, SendInv, HandingSent, OneHanding
  <2>3. ToldSent'
    BY <2>1 DEF SendInv, HandingSent, ToldSent
  <2> QED
    BY <2>2, <2>3 DEF SendInv
<1>5. ASSUME UNCHANGED <<sent, dispatched, job>>,
             \A t \in Tasks : pc'[t] = "dispatching" => pc[t] = "dispatching"
      PROVE  SendInv'
  BY <1>5 DEF SendInv, HandingSent, OneHanding, ToldSent
<1>6. CASE Shutdown
  <2>1. UNCHANGED <<sent, dispatched, job>>
    BY <1>6 DEF Shutdown, Sigterm, StopServing, Protect, CancelTasks, Exit, outcomes, taskVars
  <2>2. \A t \in Tasks : pc'[t] = "dispatching" => pc[t] = "dispatching"
    BY <1>6 DEF Shutdown, Sigterm, StopServing, Protect, CancelTasks, Exit, taskVars
  <2> QED
    BY <1>5, <2>1, <2>2
<1>7. CASE (\E j \in Jobs : Cancel(j) \/ Delete(j)) \/ UNCHANGED vars
  <2>1. UNCHANGED <<sent, dispatched, job, pc>>
    BY <1>7 DEF Cancel, Delete, vars, outcomes, taskVars
  <2> QED
    BY <1>5, <2>1
<1> QED
  BY <1>1, <1>2, <1>3, <1>4, <1>6, <1>7 DEF Next, Request

\* Every step keeps what the shutdown relies on.
LEMMA StopStep == TypeOK /\ StopInv /\ [Next]_vars => StopInv'
<1> SUFFICES ASSUME TypeOK, StopInv, [Next]_vars PROVE StopInv'
  OBVIOUS
<1> USE DEF AtAwait
\* A request starts a task at most, while the server serves.
<1>1. ASSUME phase = "serving", UNCHANGED <<phase, toProtect>> PROVE StopInv'
  BY <1>1 DEF StopInv, Serving, Listed, Ended
<1>2. ASSUME Request PROVE StopInv'
  <2>1. phase = "serving" /\ UNCHANGED <<phase, toProtect>>
    BY <1>2 DEF Request, Cancel, Delete, Upload, Respond, RunDirect, shutVars
  <2> QED
    BY <1>1, <2>1
\* A task that was under way ends or goes on, and deletes no job.
<1>3. ASSUME NEW t \in Tasks, TaskStep(t) PROVE StopInv'
  <2>1. /\ pc[t] \in AtAwait /\ UNCHANGED <<kind, phase, toProtect>>
        /\ \E a : pc' = [pc EXCEPT ![t] = a]
    BY <1>3 DEF TaskStep, BeginUpload, AcquireSlot, Questions, NoQuestions, GiveUp, Interrupted,
                AgentsReady, BeginDirect, BeginResume, InnerQuestions, InnerClear, Generated,
                Dispatched, FinalizeFailure, FinalizeSuccess, EnterFullPipeline, End, shutVars
  <2>2. job[t] \in Jobs /\ phase # "stopped"
    BY <2>1 DEF TypeOK, StopInv, Ended
  <2>3. \A u \in Tasks : u # t => pc'[u] = pc[u]
    BY <2>1 DEF TypeOK
  <2>4. Serving' /\ Ended'
    BY <2>1, <2>2, <2>3 DEF StopInv, Serving, Ended
  <2>5. \A j \in Jobs : status[j] # "gone" => status'[j] # "gone"
    <3>1. ASSUME NEW s, s # "gone", SetStatus(job[t], s)
          PROVE  \A j \in Jobs : status[j] # "gone" => status'[j] # "gone"
      BY <2>2, <3>1 DEF SetStatus, TypeOK
    <3>2. ASSUME NEW s, status[job[t]] # "gone" => s # "gone",
                 \/ FinalizeFailure(t, s) \/ status' = [status EXCEPT ![job[t]] = s]
                 \/ \E v \in Succeeded : FinalizeSuccess(t, v, s)
          PROVE  \A j \in Jobs : status[j] # "gone" => status'[j] # "gone"
      BY <2>2, <3>2 DEF FinalizeFailure, FinalizeSuccess, Succeeded, TypeOK
    <3>3. ASSUME NEW o \in Outcomes, Generated(t, o)
          PROVE  \A j \in Jobs : status[j] # "gone" => status'[j] # "gone"
      <4> DEFINE now == IF o \in Rejecting /\ status[job[t]] # "gone" THEN "failed" ELSE status[job[t]]
      <4>1. status[job[t]] # "gone" => now # "gone"
        OBVIOUS
      <4>2. \/ FinalizeFailure(t, now) \/ status' = [status EXCEPT ![job[t]] = now]
            \/ \E v \in Succeeded : FinalizeSuccess(t, v, now)
        BY <3>3 DEF Generated, Succeeded
      <4> HIDE DEF now
      <4> QED
        BY <3>2, <4>1, <4>2
    <3>4. ASSUME InnerQuestions(t)
          PROVE  \A j \in Jobs : status[j] # "gone" => status'[j] # "gone"
      <4> DEFINE asked == IF status[job[t]] = "gone" THEN "gone" ELSE "needs_clarification"
      <4>1. FinalizeFailure(t, asked) \/ SetStatus(job[t], asked)
        BY <3>4 DEF InnerQuestions
      <4>2. status[job[t]] # "gone" => asked # "gone"
        OBVIOUS
      <4> HIDE DEF asked
      <4>3. FinalizeFailure(t, asked) \/ status' = [status EXCEPT ![job[t]] = asked] \/ status' = status
        BY <2>2, <4>1 DEF SetStatus, TypeOK
      <4> QED
        BY <3>2, <4>2, <4>3
    <3>5. ASSUME GiveUp(t)
          PROVE  \A j \in Jobs : status[j] # "gone" => status'[j] # "gone"
      BY <3>2, <3>5 DEF GiveUp
    <3>6. ASSUME Questions(t) \/ BeginResume(t)
          PROVE  \A j \in Jobs : status[j] # "gone" => status'[j] # "gone"
      BY <3>1, <3>6 DEF Questions, BeginResume
    <3>7. ASSUME \/ BeginUpload(t) \/ AcquireSlot(t) \/ NoQuestions(t) \/ Interrupted(t)
                 \/ AgentsReady(t) \/ BeginDirect(t) \/ InnerClear(t) \/ Dispatched(t)
          PROVE  \A j \in Jobs : status[j] # "gone" => status'[j] # "gone"
      BY <3>7 DEF BeginUpload, AcquireSlot, NoQuestions, Interrupted, AgentsReady, BeginDirect,
                  InnerClear, Dispatched
    <3> QED
      BY <1>3, <3>3, <3>4, <3>5, <3>6, <3>7 DEF TaskStep
  <2>6. Listed'
    BY <2>1, <2>5 DEF StopInv, Listed, TypeOK
  <2> QED
    BY <2>4, <2>6 DEF StopInv
<1>4. CASE Sigterm \/ UNCHANGED vars
  <2>1. UNCHANGED <<kind, pc, status, phase, toProtect>>
    BY <1>4 DEF Sigterm, vars, taskVars, shutVars
  <2> QED
    BY <2>1 DEF StopInv, Serving, Listed, Ended
<1>5. CASE StopServing
  <2>1. /\ phase' = "protecting" /\ UNCHANGED <<kind, status>>
        /\ toProtect' = {j \in Jobs : status[j] \notin Terminal \cup {"gone"}}
        /\ pc' = [t \in Tasks |-> IF kind[t] # "upload" /\ pc[t] \in AtAwait THEN "done" ELSE pc[t]]
    BY <1>5 DEF StopServing
  <2>2. Serving' /\ Ended'
    BY <2>1 DEF Serving, Ended
  <2>3. Listed'
    BY <2>1 DEF Listed
  <2> QED
    BY <2>2, <2>3 DEF StopInv
<1>6. ASSUME NEW j \in Jobs, Protect(j) PROVE StopInv'
  <2>1. /\ status' = [status EXCEPT ![j] = "failed"] /\ toProtect' = toProtect \ {j}
        /\ UNCHANGED <<kind, pc, phase>>
    BY <1>6 DEF Protect, taskVars
  <2>2. Serving' /\ Ended'
    BY <2>1 DEF StopInv, Serving, Ended
  <2>3. Listed'
    BY <2>1 DEF StopInv, Listed, TypeOK
  <2> QED
    BY <2>2, <2>3 DEF StopInv
<1>7. CASE CancelTasks
  <2>1. /\ phase = "protecting" /\ phase' = "protected" /\ UNCHANGED <<kind, status, toProtect>>
        /\ \A t \in Tasks : pc'[t] \in AtAwait => pc[t] \in AtAwait
    BY <1>7 DEF CancelTasks
  <2> QED
    BY <2>1 DEF StopInv, Serving, Listed, Ended
<1>8. CASE Exit
  <2>1. /\ phase = "protected" /\ phase' = "stopped" /\ UNCHANGED <<kind, status, toProtect>>
        /\ \A t \in Tasks : pc'[t] \notin AtAwait
    BY <1>8 DEF Exit
  <2> QED
    BY <2>1 DEF StopInv, Serving, Listed, Ended
<1> QED
  BY <1>2, <1>3, <1>4, <1>5, <1>6, <1>7, <1>8 DEF Next, Shutdown

\* The invariants hold together.
LEMMA LifeStep == LifeInv /\ RegisteredInv /\ [Next]_vars => LifeInv' /\ RegisteredInv'
BY TypeStep, GuardStep, SentStep, SendStep, StopStep DEF LifeInv

----------------------------------------------------------------------------
(* Each step as a step of that life *)

\* A job's generation goes on as before, or ends with this step.
StaysOrLeaves(j) == \/ inPipeline' = inPipeline
                    \/ j \in inPipeline /\ inPipeline' = inPipeline \ {j}

\* A task that neither dispatches nor begins to leaves the dispatches alone.
LEMMA HandingKept ==
    ASSUME TypeOK, NEW t \in Tasks, NEW a, a # "dispatching", pc[t] # "dispatching",
           pc' = [pc EXCEPT ![t] = a], \A u \in Tasks : u # t => job'[u] = job[u]
    PROVE  Handing' = Handing
<1>1. {u \in Tasks : pc'[u] = "dispatching"} = {u \in Tasks : pc[u] = "dispatching"}
  BY DEF TypeOK
<1>2. \A u \in Tasks : pc[u] = "dispatching" => job'[u] = job[u]
  OBVIOUS
<1> QED
  BY <1>1, <1>2 DEF Handing

\* A step that keeps what the life is read from is no step of it.
LEMMA QuietLife ==
    ASSUME UNCHANGED <<status, finalized, sent, inPipeline, dispatched, phase>>, Handing' = Handing
    PROVE  UNCHANGED Life!vars
<1>1. Verdict' = Verdict
  BY DEF Verdict
<1> QED
  BY <1>1 DEF Life!vars

\* A generation that ends on a job whose status and verdict it leaves.
LEMMA FinishPromised ==
    ASSUME NEW j \in Jobs, StaysOrLeaves(j), Handing' = Handing, phase # "stopped",
           UNCHANGED <<status, finalized, sent, dispatched, phase>>
    PROVE  Life!Next \/ UNCHANGED Life!vars
<1>1. Verdict' = Verdict
  BY DEF Verdict
<1>2. CASE inPipeline' = inPipeline
  BY <1>2, QuietLife
<1>3. CASE j \in inPipeline /\ inPipeline' = inPipeline \ {j}
  <2>1. Life!Finish(j)
    BY <1>1, <1>3 DEF Life!Finish, Life!Leave
  <2> QED
    BY <2>1 DEF Life!Next
<1> QED
  BY <1>2, <1>3 DEF StaysOrLeaves

\* A status the pipeline writes without a verdict: its own mark, or that it
\* asks the user.
LEMMA MarkPromised ==
    ASSUME NEW j \in Jobs, NEW s \in {"failed", "needs_clarification"}, status[j] # "gone",
           status' = [status EXCEPT ![j] = s],
           StaysOrLeaves(j), Handing' = Handing, phase # "stopped",
           UNCHANGED <<finalized, sent, dispatched, phase>>
    PROVE  Life!Next
<1>1. Verdict' = Verdict
  BY DEF Verdict
<1>2. inPipeline' = inPipeline \/ Life!Leave(j)
  BY DEF StaysOrLeaves, Life!Leave
<1>3. CASE s = "failed"
  <2>1. Life!MarkFailed(j)
    BY <1>1, <1>2, <1>3 DEF Life!MarkFailed, Life!Write
  <2> QED
    BY <2>1 DEF Life!Next
<1>4. CASE s = "needs_clarification"
  <2>1. Life!Ask(j)
    BY <1>1, <1>2, <1>4 DEF Life!Ask, Life!Write
  <2> QED
    BY <2>1 DEF Life!Next
<1> QED
  BY <1>3, <1>4

\* Either of them.
LEMMA WritePromised ==
    ASSUME TypeOK, NEW j \in Jobs, NEW s,
           s = status[j] \/ (status[j] # "gone" /\ s \in {"failed", "needs_clarification"}),
           status' = [status EXCEPT ![j] = s],
           StaysOrLeaves(j), Handing' = Handing, phase # "stopped",
           UNCHANGED <<finalized, sent, dispatched, phase>>
    PROVE  Life!Next \/ UNCHANGED Life!vars
<1>1. CASE s = status[j]
  <2>1. status' = status
    BY <1>1 DEF TypeOK
  <2> QED
    BY <2>1, FinishPromised
<1>2. CASE s # status[j]
  BY <1>2, MarkPromised
<1> QED
  BY <1>1, <1>2

\* finalize_job_failure is the first verdict on its job, or none.
LEMMA FailurePromised ==
    ASSUME TypeOK, SentInv, NEW t \in Tasks, NEW now,
           now = status[job[t]] \/ (status[job[t]] # "gone" /\ now \in {"failed", "needs_clarification"}),
           job[t] \in Jobs, pc[t] # "dispatching", FinalizeFailure(t, now), UNCHANGED <<job, phase>>,
           StaysOrLeaves(job[t]), phase # "stopped"
    PROVE  Life!Next \/ UNCHANGED Life!vars
<1> DEFINE j == job[t]
<1>1. pc' = [pc EXCEPT ![t] = "done"] /\ UNCHANGED <<dispatched, sent>>
  BY DEF FinalizeFailure, End
<1>2. Handing' = Handing
  BY <1>1, HandingKept
<1>3. CASE j \in finalized \/ status[j] = "gone"
  <2>1. status' = [status EXCEPT ![j] = now] /\ UNCHANGED finalized
    BY <1>3 DEF FinalizeFailure
  <2> QED
    BY <1>1, <1>2, <2>1, WritePromised
<1>4. CASE j \notin finalized /\ status[j] # "gone"
  <2>1. status' = [status EXCEPT ![j] = "failed"] /\ finalized' = finalized \cup {j}
    BY <1>4 DEF FinalizeFailure
  <2>2. sent[j] = 0
    BY <1>4 DEF SentInv
  <2>3. Verdict[j] = "none" /\ Verdict' = [Verdict EXCEPT ![j] = "failure"]
    BY <1>1, <1>4, <2>1, <2>2 DEF Verdict
  <2>4. inPipeline' = inPipeline \/ Life!Leave(j)
    BY DEF StaysOrLeaves, Life!Leave
  <2>5. Life!Fail(j)
    BY <1>1, <1>2, <1>4, <2>1, <2>3, <2>4 DEF Life!Fail, Life!Judge, Life!Write
  <2> QED
    BY <2>5 DEF Life!Next
<1> QED
  BY <1>3, <1>4

\* finalize_job_success is the first verdict on its job, with its dispatch, or
\* none.
LEMMA SuccessPromised ==
    ASSUME TypeOK, SentInv, SendInv, NEW t \in Tasks, NEW s \in Succeeded, NEW now,
           now = status[job[t]] \/ (status[job[t]] # "gone" /\ now \in {"failed", "needs_clarification"}),
           job[t] \in Jobs, pc[t] # "dispatching", FinalizeSuccess(t, s, now), UNCHANGED <<job, phase>>,
           job[t] \in inPipeline, inPipeline' = inPipeline \ {job[t]}, phase # "stopped"
    PROVE  Life!Next \/ UNCHANGED Life!vars
<1> DEFINE j == job[t]
<1>1. UNCHANGED dispatched /\ StaysOrLeaves(j)
  BY DEF FinalizeSuccess, StaysOrLeaves
<1>2. CASE j \in finalized \/ status[j] = "gone"
  <2>1. status' = [status EXCEPT ![j] = now] /\ UNCHANGED <<finalized, sent>>
    BY <1>2 DEF FinalizeSuccess
  <2>2. pc' = [pc EXCEPT ![t] = "done"]
    BY <1>2 DEF FinalizeSuccess, End
  <2>3. Handing' = Handing
    BY <2>2, HandingKept
  <2> QED
    BY <1>1, <2>1, <2>3, WritePromised
<1>3. CASE j \notin finalized /\ status[j] # "gone"
  <2>1. sent[j] = 0
    BY <1>3 DEF SentInv
  <2>2. j \notin dispatched
    BY <2>1 DEF SendInv, ToldSent
  <2>3. /\ status' = [status EXCEPT ![j] = s] /\ finalized' = finalized \cup {j}
        /\ sent' = [sent EXCEPT ![j] = @ + 1] /\ pc' = [pc EXCEPT ![t] = "dispatching"]
    BY <1>3, <2>2 DEF FinalizeSuccess
  <2>4. sent'[j] = 1 /\ \A i \in Jobs : i # j => sent'[i] = sent[i]
    BY <2>1, <2>3 DEF TypeOK
  <2>5. Verdict[j] = "none" /\ Verdict' = [Verdict EXCEPT ![j] = "success"]
    BY <1>3, <2>3, <2>4 DEF Verdict
  <2>6. Handing' = Handing \cup {j}
    <3>1. {u \in Tasks : pc'[u] = "dispatching"} = {u \in Tasks : pc[u] = "dispatching"} \cup {t}
      BY <2>3 DEF TypeOK
    <3> QED
      BY <3>1 DEF Handing
  <2>7. Life!Leave(j) /\ Life!Judge(j, "success") /\ Life!Write(j, s)
    BY <1>3, <2>3, <2>5 DEF Life!Leave, Life!Judge, Life!Write
  <2>8. Life!Succeed(j)
    BY <1>1, <2>6, <2>7 DEF Life!Succeed, Succeeded
  <2> QED
    BY <2>8 DEF Life!Next
<1> QED
  BY <1>2, <1>3

\* A request restarts, cancels or deletes its job, or only starts a task.
LEMMA RequestPromised ==
    ASSUME LifeInv, Request
    PROVE  Life!Next \/ UNCHANGED Life!vars
<1> USE DEF LifeInv
<1>1. phase = "serving" /\ UNCHANGED <<phase, finalized, sent, dispatched, inPipeline>>
  BY DEF Request, Cancel, Delete, Upload, Respond, RunDirect, guards, outcomes, shutVars
<1>2. Verdict' = Verdict
  BY <1>1 DEF Verdict
<1>3. Handing' = Handing
  <2>1. ASSUME NEW t \in Tasks, NEW j \in Jobs, NEW k, Spawn(t, j, k) PROVE Handing' = Handing
    <3>1. /\ pc[t] # "dispatching" /\ pc' = [pc EXCEPT ![t] = "spawned"]
          /\ \A u \in Tasks : u # t => job'[u] = job[u]
      BY <2>1 DEF Spawn, TypeOK
    <3> QED
      BY <3>1, HandingKept
  <2>2. ASSUME UNCHANGED <<job, pc>> PROVE Handing' = Handing
    BY <2>2 DEF Handing
  <2> QED
    BY <2>1, <2>2 DEF Request, Cancel, Delete, Upload, Respond, RunDirect, taskVars
<1>4. ASSUME NEW j \in Jobs, NEW t \in Tasks, Upload(t, j) \/ Respond(t, j)
      PROVE  Life!Next \/ UNCHANGED Life!vars
  <2>1. SetStatus(j, "running")
    BY <1>4 DEF Upload, Respond
  <2>2. CASE status[j] = "gone"
    <3>1. status' = status
      BY <2>1, <2>2 DEF SetStatus, TypeOK
    <3> QED
      BY <3>1, <1>1, <1>3, QuietLife
  <2>3. CASE status[j] # "gone"
    <3>1. Life!Write(j, "running")
      BY <2>1, <2>3 DEF SetStatus, Life!Write, TypeOK
    <3>2. Life!Restart(j)
      BY <3>1, <1>1, <1>2, <1>3 DEF Life!Restart
    <3> QED
      BY <3>2 DEF Life!Next
  <2> QED
    BY <2>2, <2>3
<1>5. ASSUME NEW j \in Jobs, NEW t \in Tasks, RunDirect(t, j)
      PROVE  Life!Next \/ UNCHANGED Life!vars
  <2>1. status' = status
    BY <1>5 DEF RunDirect
  <2> QED
    BY <2>1, <1>1, <1>3, QuietLife
<1>6. ASSUME NEW j \in Jobs, Cancel(j)
      PROVE  Life!Next
  <2>1. Life!Write(j, "cancelled") /\ status[j] \notin {"completed", "failed", "cancelled"}
    BY <1>6 DEF Cancel, SetStatus, Life!Write, TypeOK
  <2>2. Life!Cancel(j)
    BY <2>1, <1>1, <1>2, <1>3 DEF Life!Cancel
  <2> QED
    BY <2>2 DEF Life!Next
<1>7. ASSUME NEW j \in Jobs, Delete(j)
      PROVE  Life!Next
  <2>1. Life!Write(j, "gone")
    BY <1>7 DEF Delete, Life!Write
  <2>2. Life!Delete(j)
    BY <2>1, <1>1, <1>2, <1>3 DEF Life!Delete
  <2> QED
    BY <2>2 DEF Life!Next
<1> QED
  BY <1>4, <1>5, <1>6, <1>7 DEF Request

\* A pipeline that enters the generation begins it; one that finds its job in
\* it is sent away.
LEMMA EnterPromised ==
    ASSUME TypeOK, NEW t \in Tasks, job[t] \in Jobs, pc[t] # "dispatching", EnterFullPipeline(t),
           status' = status \/ (phase = "serving" /\ Life!Write(job[t], "running")),
           phase # "stopped", UNCHANGED <<job, finalized, sent, dispatched, phase>>
    PROVE  Life!Next \/ UNCHANGED Life!vars
<1> DEFINE j == job[t]
<1>1. Handing' = Handing
  <2>1. \E a \in {"done", "inner", "generating"} : pc' = [pc EXCEPT ![t] = a]
    BY DEF EnterFullPipeline, End
  <2> QED
    BY <2>1, HandingKept
<1>2. Verdict' = Verdict
  BY DEF Verdict
<1>3. CASE j \in inPipeline
  <2>1. UNCHANGED inPipeline
    BY <1>3 DEF EnterFullPipeline
  <2>2. CASE status' = status
    BY <2>1, <2>2, <1>1, QuietLife
  <2>3. CASE phase = "serving" /\ Life!Write(j, "running")
    <3>1. Life!Restart(j)
      BY <2>1, <2>3, <1>1, <1>2 DEF Life!Restart
    <3> QED
      BY <3>1 DEF Life!Next
  <2> QED
    BY <2>2, <2>3
<1>4. CASE j \notin inPipeline
  <2>1. inPipeline' = inPipeline \cup {j}
    BY <1>4 DEF EnterFullPipeline
  <2>2. Life!Begin(j)
    BY <2>1, <1>1, <1>2, <1>4 DEF Life!Begin
  <2> QED
    BY <2>2 DEF Life!Next
<1> QED
  BY <1>3, <1>4

\* The answer to a dispatch, and no other dispatch of its job is on its way.
LEMMA DispatchedPromised ==
    ASSUME LifeInv, NEW t \in Tasks, Dispatched(t), phase # "stopped"
    PROVE  Life!Next
<1> USE DEF LifeInv
<1> DEFINE j == job[t]
<1>1. /\ pc[t] = "dispatching" /\ pc' = [pc EXCEPT ![t] = "done"]
      /\ UNCHANGED <<status, inPipeline, finalized, sent, job, phase>>
      /\ dispatched' = dispatched \cup {j} \/ dispatched' = dispatched
  BY DEF Dispatched, End, shutVars
<1>2. j \in Jobs
  BY <1>1 DEF TypeOK, AtAwait
<1>3. Verdict' = Verdict
  BY <1>1 DEF Verdict
<1>4. j \in Handing /\ Handing' = Handing \ {j}
  <2>1. {u \in Tasks : pc'[u] = "dispatching"} = {u \in Tasks : pc[u] = "dispatching"} \ {t}
    BY <1>1 DEF TypeOK
  <2>2. \A u \in Tasks : pc[u] = "dispatching" /\ job[u] = j => u = t
    BY <1>1 DEF SendInv, OneHanding
  <2> QED
    BY <1>1, <2>1, <2>2 DEF Handing
<1>5. Life!Tell(j)
  BY <1>1, <1>3, <1>4 DEF Life!Tell
<1> QED
  BY <1>2, <1>5 DEF Life!Next

\* A resumed pipeline begins its generation again, runs into the one under
\* way, or fails for want of a README.
LEMMA ResumePromised ==
    ASSUME LifeInv, NEW t \in Tasks, BeginResume(t), job[t] \in Jobs, phase # "stopped"
    PROVE  Life!Next \/ UNCHANGED Life!vars
<1> USE DEF LifeInv
<1>1. /\ pc[t] = "spawned" /\ kind[t] = "resume"
      /\ UNCHANGED <<job, finalized, sent, dispatched, phase>>
  BY DEF BeginResume, outcomes, shutVars
<1>2. phase = "serving"
  BY <1>1 DEF StopInv, Serving, AtAwait
<1>3. CASE status[job[t]] # "gone" /\ SetStatus(job[t], "running") /\ EnterFullPipeline(t)
  <2>1. Life!Write(job[t], "running")
    BY <1>3 DEF SetStatus, Life!Write, TypeOK
  <2> QED
    BY <1>1, <1>2, <1>3, <2>1, EnterPromised
<1>4. ASSUME End(t), UNCHANGED inPipeline PROVE Handing' = Handing /\ StaysOrLeaves(job[t])
  <2>1. pc' = [pc EXCEPT ![t] = "done"]
    BY <1>4 DEF End
  <2> QED
    BY <1>1, <1>4, <2>1, HandingKept DEF StaysOrLeaves
<1>5. CASE status[job[t]] # "gone" /\ SetStatus(job[t], "failed") /\ End(t) /\ UNCHANGED inPipeline
  <2>1. status' = [status EXCEPT ![job[t]] = "failed"]
    BY <1>5 DEF SetStatus, TypeOK
  <2> QED
    BY <1>1, <1>4, <1>5, <2>1, MarkPromised
<1>6. CASE End(t) /\ UNCHANGED <<status, inPipeline>>
  BY <1>1, <1>4, <1>6, QuietLife
<1> QED
  BY <1>3, <1>5, <1>6 DEF BeginResume

\* A task inside the full pipeline leaves it, and its job is in the guard.
LEMMA LeavingStays ==
    ASSUME FullInv, NEW t \in Tasks, job[t] \in Jobs, InFullPipeline(t), LeaveFullPipeline(t)
    PROVE  /\ job[t] \in inPipeline /\ inPipeline' = inPipeline \ {job[t]}
           /\ StaysOrLeaves(job[t])
BY DEF FullInv, InPipelineMatches, LeaveFullPipeline, StaysOrLeaves

\* The clarifier inside the full pipeline asks, or fails an uploaded job.
LEMMA InnerPromised ==
    ASSUME LifeInv, NEW t \in Tasks, InnerQuestions(t), job[t] \in Jobs, phase # "stopped"
    PROVE  Life!Next \/ UNCHANGED Life!vars
<1> USE DEF LifeInv
<1> DEFINE asked == IF status[job[t]] = "gone" THEN "gone" ELSE "needs_clarification"
<1>1. /\ pc[t] = "inner" /\ LeaveFullPipeline(t) /\ UNCHANGED <<job, phase>>
      /\ \/ FinalizeFailure(t, asked)
         \/ SetStatus(job[t], asked) /\ End(t) /\ UNCHANGED <<finalized, dispatched, sent>>
  BY DEF InnerQuestions, shutVars
<1>2. asked = status[job[t]] \/ (status[job[t]] # "gone" /\ asked \in {"failed", "needs_clarification"})
  OBVIOUS
<1> HIDE DEF asked
<1>3. StaysOrLeaves(job[t])
  BY <1>1, LeavingStays DEF InFullPipeline
<1>4. CASE FinalizeFailure(t, asked)
  BY <1>1, <1>2, <1>3, <1>4, FailurePromised
<1>5. CASE SetStatus(job[t], asked) /\ End(t) /\ UNCHANGED <<finalized, dispatched, sent>>
  <2>1. status' = [status EXCEPT ![job[t]] = asked]
    BY <1>2, <1>5 DEF SetStatus, TypeOK
  <2>2. pc' = [pc EXCEPT ![t] = "done"]
    BY <1>5 DEF End
  <2>3. Handing' = Handing
    BY <1>1, <2>2, HandingKept
  <2> QED
    BY <1>1, <1>2, <1>3, <1>5, <2>1, <2>3, WritePromised
<1> QED
  BY <1>1, <1>4, <1>5

\* The stages are over: a verdict, the pipeline's own mark, or nothing.
LEMMA GeneratedPromised ==
    ASSUME LifeInv, NEW t \in Tasks, NEW o \in Outcomes, Generated(t, o), job[t] \in Jobs,
           phase # "stopped"
    PROVE  Life!Next \/ UNCHANGED Life!vars
<1> USE DEF LifeInv
<1> DEFINE now == IF o \in Rejecting /\ status[job[t]] # "gone" THEN "failed" ELSE status[job[t]]
<1>1. /\ pc[t] = "generating" /\ LeaveFullPipeline(t) /\ UNCHANGED <<job, phase>>
      /\ \/ FinalizeFailure(t, now)
         \/ \E s \in Succeeded : FinalizeSuccess(t, s, now)
         \/ status' = [status EXCEPT ![job[t]] = now] /\ End(t) /\ UNCHANGED <<finalized, dispatched, sent>>
  BY DEF Generated, Succeeded, shutVars
<1>2. now = status[job[t]] \/ (status[job[t]] # "gone" /\ now \in {"failed", "needs_clarification"})
  OBVIOUS
<1> HIDE DEF now
<1>3. /\ job[t] \in inPipeline /\ inPipeline' = inPipeline \ {job[t]}
      /\ StaysOrLeaves(job[t])
  BY <1>1, LeavingStays DEF InFullPipeline
<1>4. CASE FinalizeFailure(t, now)
  BY <1>1, <1>2, <1>3, <1>4, FailurePromised
<1>5. ASSUME NEW s \in Succeeded, FinalizeSuccess(t, s, now)
      PROVE  Life!Next \/ UNCHANGED Life!vars
  BY <1>1, <1>2, <1>3, <1>5, SuccessPromised
<1>6. CASE /\ status' = [status EXCEPT ![job[t]] = now] /\ End(t)
           /\ UNCHANGED <<finalized, dispatched, sent>>
  <2>1. pc' = [pc EXCEPT ![t] = "done"]
    BY <1>6 DEF End
  <2>2. Handing' = Handing
    BY <1>1, <2>1, HandingKept
  <2> QED
    BY <1>1, <1>2, <1>3, <1>6, <2>2, WritePromised
<1> QED
  BY <1>1, <1>4, <1>5, <1>6

\* Every step of a task is one of its job's life, or none.
LEMMA TaskPromised ==
    ASSUME LifeInv, NEW t \in Tasks, TaskStep(t)
    PROVE  Life!Next \/ UNCHANGED Life!vars
<1> USE DEF LifeInv
<1>1. pc[t] \in AtAwait /\ UNCHANGED <<job, phase>>
  BY DEF TaskStep, BeginUpload, AcquireSlot, Questions, NoQuestions, GiveUp, Interrupted,
         AgentsReady, BeginDirect, BeginResume, InnerQuestions, InnerClear, Generated,
         Dispatched, shutVars, AtAwait
<1>2. job[t] \in Jobs /\ phase # "stopped"
  BY <1>1 DEF TypeOK, StopInv, Ended
<1>3. ASSUME BeginUpload(t) \/ AcquireSlot(t) \/ NoQuestions(t) \/ Interrupted(t) \/ InnerClear(t)
      PROVE  UNCHANGED Life!vars
  <2>1. /\ pc[t] # "dispatching" /\ UNCHANGED <<status, inPipeline, finalized, sent, dispatched>>
        /\ \E a \in {"done", "waiting", "clarifying", "agents", "generating"} :
               pc' = [pc EXCEPT ![t] = a]
    BY <1>3 DEF BeginUpload, AcquireSlot, NoQuestions, Interrupted, InnerClear, End, outcomes, guards
  <2>2. Handing' = Handing
    BY <1>1, <2>1, HandingKept
  <2> QED
    BY <1>1, <2>1, <2>2, QuietLife
<1>4. ASSUME Questions(t) PROVE Life!Next \/ UNCHANGED Life!vars
  <2>1. /\ pc[t] = "clarifying" /\ SetStatus(job[t], "needs_clarification")
        /\ pc' = [pc EXCEPT ![t] = "done"]
        /\ UNCHANGED <<inPipeline, finalized, sent, dispatched>>
    BY <1>4 DEF Questions, End, outcomes
  <2>2. Handing' = Handing
    BY <1>1, <2>1, HandingKept
  <2>3. CASE status[job[t]] = "gone"
    <3>1. status' = status
      BY <2>1, <2>3 DEF SetStatus, TypeOK
    <3> QED
      BY <1>1, <2>1, <2>2, <3>1, QuietLife
  <2>4. CASE status[job[t]] # "gone"
    <3>1. status' = [status EXCEPT ![job[t]] = "needs_clarification"]
      BY <2>1, <2>4 DEF SetStatus, TypeOK
    <3> QED
      BY <1>1, <1>2, <2>1, <2>2, <2>4, <3>1, MarkPromised DEF StaysOrLeaves
  <2> QED
    BY <2>3, <2>4
<1>5. ASSUME GiveUp(t) PROVE Life!Next \/ UNCHANGED Life!vars
  <2>1. pc[t] = "agents" /\ FinalizeFailure(t, status[job[t]]) /\ UNCHANGED inPipeline
    BY <1>5 DEF GiveUp
  <2> QED
    BY <1>1, <1>2, <2>1, FailurePromised DEF StaysOrLeaves
<1>6. ASSUME AgentsReady(t) \/ BeginDirect(t) PROVE Life!Next \/ UNCHANGED Life!vars
  <2>1. /\ pc[t] # "dispatching" /\ EnterFullPipeline(t)
        /\ UNCHANGED <<status, finalized, sent, dispatched>>
    BY <1>6 DEF AgentsReady, BeginDirect, outcomes
  <2> QED
    BY <1>1, <1>2, <2>1, EnterPromised
<1> QED
  BY <1>2, <1>3, <1>4, <1>5, <1>6, ResumePromised, InnerPromised, GeneratedPromised,
     DispatchedPromised
     DEF TaskStep

\* The shutdown marks the jobs it has listed and cuts off what is under way.
LEMMA ShutdownPromised ==
    ASSUME LifeInv, Shutdown
    PROVE  Life!Next \/ UNCHANGED Life!vars
<1> USE DEF LifeInv
<1>1. UNCHANGED <<finalized, sent, dispatched>>
  BY DEF Shutdown, Sigterm, StopServing, Protect, CancelTasks, Exit, outcomes
<1>2. Verdict' = Verdict
  BY <1>1 DEF Verdict
<1>3. CASE Sigterm
  <2>1. UNCHANGED <<status, inPipeline, phase, job, pc>>
    BY <1>3 DEF Sigterm, guards, taskVars
  <2>2. Handing' = Handing
    BY <2>1 DEF Handing
  <2> QED
    BY <1>1, <2>1, <2>2, QuietLife
<1>4. ASSUME StopServing \/ CancelTasks PROVE Life!Next
  <2>1. /\ UNCHANGED <<status, job>> /\ inPipeline' \subseteq inPipeline
        /\ phase \notin {"stopped"} /\ phase' \in {"protecting", "protected"}
        /\ \A u \in Tasks : pc'[u] = "dispatching" => pc[u] = "dispatching"
    BY <1>4 DEF StopServing, CancelTasks
  <2>2. Handing' \subseteq Handing
    BY <2>1 DEF Handing
  <2>3. Life!CutOff
    BY <1>1, <1>2, <2>1, <2>2 DEF Life!CutOff
  <2> QED
    BY <2>3 DEF Life!Next
<1>5. ASSUME NEW j \in Jobs, Protect(j) PROVE Life!Next
  <2>1. /\ phase = "protecting" /\ j \in toProtect /\ status' = [status EXCEPT ![j] = "failed"]
        /\ UNCHANGED <<inPipeline, phase, job, pc>>
    BY <1>5 DEF Protect, guards, taskVars
  <2>2. status[j] # "gone"
    BY <2>1 DEF StopInv, Listed
  <2>3. Handing' = Handing /\ StaysOrLeaves(j)
    BY <2>1 DEF Handing, StaysOrLeaves
  <2> QED
    BY <1>1, <2>1, <2>2, <2>3, MarkPromised
<1>6. CASE Exit
  <2>1. /\ phase = "protected" /\ phase' = "stopped" /\ inPipeline' = {} /\ UNCHANGED status
        /\ \A u \in Tasks : pc'[u] # "dispatching"
    BY <1>6 DEF Exit, AtAwait
  <2>2. Handing' = {}
    BY <2>1 DEF Handing
  <2>3. Life!Exit
    BY <1>1, <1>2, <2>1, <2>2 DEF Life!Exit
  <2> QED
    BY <2>3 DEF Life!Next
<1> QED
  BY <1>3, <1>4, <1>5, <1>6 DEF Shutdown

\* Initially no job has lived.
LEMMA InitPromised == Init => Life!Init
<1> SUFFICES ASSUME Init PROVE Life!Init
  OBVIOUS
<1>1. Handing = {} /\ Verdict = [j \in Jobs |-> "none"]
  BY DEF Init, Handing, Verdict
<1> QED
  BY <1>1 DEF Init, Life!Init

\* Every step of the server is one of the life of a job, or none.
LEMMA LifeSteps == LifeInv /\ [Next]_vars => [Life!Next]_Life!vars
<1> SUFFICES ASSUME LifeInv, [Next]_vars PROVE Life!Next \/ UNCHANGED Life!vars
  OBVIOUS
<1>1. ASSUME UNCHANGED vars PROVE UNCHANGED Life!vars
  <2>1. UNCHANGED <<status, finalized, sent, inPipeline, dispatched, phase, job, pc>>
    BY <1>1 DEF vars, guards, outcomes, taskVars, shutVars
  <2>2. Handing' = Handing
    BY <2>1 DEF Handing
  <2> QED
    BY <2>1, <2>2, QuietLife
<1> QED
  BY <1>1, RequestPromised, TaskPromised, ShutdownPromised DEF Next

\* With its tasks, guards, marks and shutdown, the server keeps the promise:
\* however requests, pipelines and the shutdown interleave, a job lives one
\* life.
THEOREM ImplementsLife == Spec => LivesOnce
<1>1. Init => LifeInv /\ RegisteredInv /\ Life!Init
  BY InitLifeInv, InitInv, InitPromised
<1> QED
  BY <1>1, LifeStep, LifeSteps, PTL DEF Spec, LivesOnce, Life!Spec

============================================================================
