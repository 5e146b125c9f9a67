---------------------------- MODULE JobPipeline ----------------------------
(***************************************************************************)
(* The life of a generation job inside one server process: the pipeline    *)
(* tasks of server/routers/generator.py, the full pipeline they call in    *)
(* server/services/omnicore_service.py, server/services/job_finalization   *)
(* and the graceful shutdown of server/main.py.                            *)
(*                                                                         *)
(* A task is one coroutine: the pipeline an upload triggers, the one that  *)
(* an answered clarification resumes, or a POST /{job_id}/pipeline request *)
(* ("direct").  asyncio runs a coroutine without interruption from one     *)
(* await to the next, which is one action here; between two awaits any     *)
(* other task or request may run.  A task identifier is used once, so the  *)
(* number of Tasks bounds how many pipelines a behaviour starts.           *)
(***************************************************************************)
EXTENDS Naturals, FiniteSets

CONSTANTS Jobs, Tasks,
          MaxConcurrent,    \* MAX_CONCURRENT_PIPELINES
          Outcomes,         \* how the stages of a pipeline may end
          NoJob

\* "coldStart", "artifacts" (deployment files missing), "syntax" and "raised"
\* are the failures for which the pipeline itself marks the job FAILED.
Rejecting == {"coldStart", "artifacts", "syntax", "raised"}

ASSUME PipelineAssumption == /\ MaxConcurrent \in Nat \ {0}
                             /\ IsFiniteSet(Tasks)
                             /\ Outcomes \subseteq Rejecting \cup {"ok", "warnings", "noCode"}
                             /\ NoJob \notin Jobs

Status == {"pending", "running", "needs_clarification", "completed",
           "completed_with_warnings", "failed", "cancelled", "gone"}
Succeeded == {"completed", "completed_with_warnings"}

VARIABLES
    status,      \* status[j]: jobs_db[j].status, "gone" when j is not in jobs_db
    started,     \* _jobs_pipeline_started
    inPipeline,  \* OmniCoreService._jobs_in_pipeline
    finalized,   \* _finalized_jobs
    dispatched,  \* _dispatched_jobs
    sent,        \* sent[j]: how often j's completion went to the dispatcher (history)
    kind,        \* kind[t]: "upload", "resume" or "direct"
    job,         \* job[t]: the job t works for
    pc,          \* pc[t]: the await t is at
    draining,    \* _shutdown_event: main.py's SIGTERM handler has run
    phase,       \* "serving", then the lifespan's shutdown
    toProtect    \* non_terminal_jobs of _protect_running_jobs_on_shutdown

taskVars == <<kind, job, pc>>
shutVars == <<draining, phase, toProtect>>
guards == <<started, inPipeline>>
outcomes == <<finalized, dispatched, sent>>
vars == <<status, guards, outcomes, taskVars, shutVars>>

AtAwait == {"spawned", "waiting", "clarifying", "agents", "inner", "generating",
            "dispatching"}

TypeOK == /\ status \in [Jobs -> Status]
          /\ started \subseteq Jobs /\ inPipeline \subseteq Jobs
          /\ finalized \subseteq Jobs /\ dispatched \subseteq Jobs
          /\ sent \in [Jobs -> Nat]
          /\ kind \in [Tasks -> {"upload", "resume", "direct"}]
          /\ job \in [Tasks -> Jobs \cup {NoJob}]
          /\ pc \in [Tasks -> AtAwait \cup {"unused", "done"}]
          /\ \A t \in Tasks : pc[t] \in AtAwait => job[t] \in Jobs
          /\ draining \in BOOLEAN
          /\ phase \in {"serving", "protecting", "protected", "stopped"}
          /\ toProtect \subseteq Jobs

Init == /\ status = [j \in Jobs |-> "pending"]
        /\ started = {} /\ inPipeline = {}
        /\ finalized = {} /\ dispatched = {}
        /\ sent = [j \in Jobs |-> 0]
        /\ kind = [t \in Tasks |-> "upload"]
        /\ job = [t \in Tasks |-> NoJob]
        /\ pc = [t \in Tasks |-> "unused"]
        /\ draining = FALSE /\ phase = "serving" /\ toProtect = {}

----------------------------------------------------------------------------
(* Requests *)

\* Mutant: a write brings a deleted job back.
SetStatusBack(j, s) == status' = [status EXCEPT ![j] = s]
\* A write to a job's status; on a job deleted meanwhile the object is an
\* orphan that nobody sees.
SetStatus(j, s) == status' = [status EXCEPT ![j] = IF @ = "gone" THEN @ ELSE s]

Spawn(t, j, k) ==
    /\ pc[t] = "unused"
    /\ kind' = [kind EXCEPT ![t] = k]
    /\ job' = [job EXCEPT ![t] = j]
    /\ pc' = [pc EXCEPT ![t] = "spawned"]

\* upload_files, with a README among the files: whatever the job's status; the
\* job may have been deleted while the files were being stored.
Upload(t, j) ==
    /\ phase = "serving"
    /\ SetStatus(j, "running")
    /\ Spawn(t, j, "upload")
    /\ UNCHANGED <<guards, outcomes, shutVars>>

\* submit_clarification_response, the last answer or a skip: whatever the
\* job's status.
Respond(t, j) ==
    /\ phase = "serving" /\ status[j] # "gone"
    /\ SetStatus(j, "running")
    /\ Spawn(t, j, "resume")
    /\ UNCHANGED <<guards, outcomes, shutVars>>

\* POST /{job_id}/pipeline, the handler itself being the task.
RunDirect(t, j) ==
    /\ phase = "serving" /\ status[j] \notin {"gone", "needs_clarification"}
    /\ Spawn(t, j, "direct")
    /\ UNCHANGED <<status, guards, outcomes, shutVars>>

Cancel(j) ==
    /\ phase = "serving"
    /\ status[j] \notin {"gone", "completed", "failed", "cancelled"}
    /\ SetStatus(j, "cancelled")
    /\ UNCHANGED <<guards, outcomes, taskVars, shutVars>>

Delete(j) ==
    /\ phase = "serving" /\ status[j] # "gone"
    /\ status' = [status EXCEPT ![j] = "gone"]
    /\ UNCHANGED <<guards, outcomes, taskVars, shutVars>>

----------------------------------------------------------------------------
(* Finalization, run by a task at one of its steps *)

\* The task ends: the finally of _run_pipeline_with_semaphore forgets the job.
End(t) ==
    /\ pc' = [pc EXCEPT ![t] = "done"]
    /\ started' = IF kind[t] = "upload" THEN started \ {job[t]} ELSE started

\* finalize_job_failure, on a job whose status is "now" by then.
FinalizeFailure(t, now) ==
    LET j == job[t] IN
    /\ IF j \in finalized \/ status[j] = "gone"
          THEN status' = [status EXCEPT ![j] = now] /\ UNCHANGED finalized
          ELSE /\ status' = [status EXCEPT ![j] = "failed"]
               /\ finalized' = finalized \cup {j}
    /\ End(t)
    /\ UNCHANGED <<dispatched, sent>>

\* Mutant: no check of _finalized_jobs.
FinalizeSuccessAgain(t, s, now) ==
    LET j == job[t] IN
    /\ IF status[j] = "gone"
          THEN End(t) /\ UNCHANGED <<status, finalized, sent>>
          ELSE /\ status' = [status EXCEPT ![j] = s]
               /\ finalized' = finalized \cup {j}
               /\ sent' = [sent EXCEPT ![j] = @ + 1]
               /\ pc' = [pc EXCEPT ![t] = "dispatching"]
               /\ UNCHANGED started
    /\ UNCHANGED dispatched

\* Mutant: the status is written before the check of _finalized_jobs.
FinalizeSuccessEarly(t, s, now) ==
    LET j == job[t] IN
    /\ status' = [status EXCEPT ![j] = IF @ = "gone" THEN @ ELSE s]
    /\ IF j \in finalized \/ status[j] = "gone"
          THEN End(t) /\ UNCHANGED <<finalized, sent>>
          ELSE /\ finalized' = finalized \cup {j}
               /\ sent' = [sent EXCEPT ![j] = @ + 1]
               /\ pc' = [pc EXCEPT ![t] = "dispatching"]
               /\ UNCHANGED started
    /\ UNCHANGED dispatched

\* finalize_job_success up to the dispatch, which it awaits.  It asks neither
\* whether the job was cancelled nor whether it was marked FAILED meanwhile.
FinalizeSuccess(t, s, now) ==
    LET j == job[t] IN
    /\ IF j \in finalized \/ status[j] = "gone"
          THEN /\ status' = [status EXCEPT ![j] = now]
               /\ End(t) /\ UNCHANGED <<finalized, sent>>
          ELSE /\ status' = [status EXCEPT ![j] = s]
               /\ finalized' = finalized \cup {j}
               /\ IF j \in dispatched
                     THEN End(t) /\ UNCHANGED sent
                     ELSE /\ sent' = [sent EXCEPT ![j] = @ + 1]
                          /\ pc' = [pc EXCEPT ![t] = "dispatching"]
                          /\ UNCHANGED started
    /\ UNCHANGED dispatched

\* dispatch_job_completion answers, True or False: marked either way, unless it
\* raised.
Dispatched(t) ==
    /\ pc[t] = "dispatching"
    /\ \/ dispatched' = dispatched \cup {job[t]}
       \/ UNCHANGED dispatched
    /\ End(t)
    /\ UNCHANGED <<status, inPipeline, finalized, sent, kind, job, shutVars>>

----------------------------------------------------------------------------
(* The pipeline of one task *)

\* _run_pipeline_with_semaphore: a second pipeline of the same job goes away.
BeginUpload(t) ==
    /\ pc[t] = "spawned" /\ kind[t] = "upload"
    /\ IF job[t] \in started
          THEN pc' = [pc EXCEPT ![t] = "done"] /\ UNCHANGED started
          ELSE /\ started' = started \cup {job[t]}
               /\ pc' = [pc EXCEPT ![t] = "waiting"]
    /\ UNCHANGED <<status, inPipeline, outcomes, kind, job, shutVars>>

\* Mutant: the slot is not given back at the end.
HoldersKept == {t \in Tasks : kind[t] = "upload"
                   /\ pc[t] \in {"clarifying", "agents", "inner", "generating",
                                 "dispatching", "done"}}
\* The tasks between acquiring and releasing _pipeline_semaphore.
Holders == {t \in Tasks : kind[t] = "upload"
               /\ pc[t] \in {"clarifying", "agents", "inner", "generating", "dispatching"}}

\* A slot of the semaphore is free: the pipeline starts, unless its job is gone
\* or the server is going down (_PipelineShutdownInterrupt).
AcquireSlot(t) ==
    /\ pc[t] = "waiting"
    /\ Cardinality(Holders) < MaxConcurrent
    /\ IF status[job[t]] = "gone" \/ draining
          THEN End(t)
          ELSE pc' = [pc EXCEPT ![t] = "clarifying"] /\ UNCHANGED started
    /\ UNCHANGED <<status, inPipeline, outcomes, kind, job, shutVars>>

\* clarify_requirements returned questions for the user: the pipeline pauses.
Questions(t) ==
    /\ pc[t] = "clarifying"
    /\ SetStatus(job[t], "needs_clarification")
    /\ End(t)
    /\ UNCHANGED <<inPipeline, outcomes, kind, job, shutVars>>

\* No questions, or the clarifier raised: on to the wait for the agents.
NoQuestions(t) ==
    /\ pc[t] = "clarifying"
    /\ IF draining THEN End(t)
                   ELSE pc' = [pc EXCEPT ![t] = "agents"] /\ UNCHANGED started
    /\ UNCHANGED <<status, inPipeline, outcomes, kind, job, shutVars>>

\* The agents did not load within AGENT_WAIT_TIMEOUT.
GiveUp(t) ==
    /\ pc[t] = "agents"
    /\ FinalizeFailure(t, status[job[t]])
    /\ UNCHANGED <<inPipeline, kind, job, shutVars>>

Interrupted(t) ==
    /\ pc[t] = "agents" /\ draining
    /\ End(t)
    /\ UNCHANGED <<status, inPipeline, outcomes, kind, job, shutVars>>

\* Mutant: no check of _jobs_in_pipeline.
EnterFullPipelineAgain(t) ==
    /\ inPipeline' = inPipeline \cup {job[t]}
    /\ pc' = [pc EXCEPT ![t] = IF kind[t] = "resume" THEN "generating" ELSE "inner"]
    /\ UNCHANGED started

\* _run_full_pipeline: "skipped" when the job is already in it; a resumed
\* pipeline skips the clarifier.
EnterFullPipeline(t) ==
    IF job[t] \in inPipeline
       THEN End(t) /\ UNCHANGED inPipeline
       ELSE /\ inPipeline' = inPipeline \cup {job[t]}
            /\ pc' = [pc EXCEPT ![t] = IF kind[t] = "resume" THEN "generating" ELSE "inner"]
            /\ UNCHANGED started

AgentsReady(t) ==
    /\ pc[t] = "agents" /\ ~draining
    /\ EnterFullPipeline(t)
    /\ UNCHANGED <<status, outcomes, kind, job, shutVars>>

BeginDirect(t) ==
    /\ pc[t] = "spawned" /\ kind[t] = "direct"
    /\ EnterFullPipeline(t)
    /\ UNCHANGED <<status, outcomes, kind, job, shutVars>>

\* _resume_pipeline_after_clarification; without a README it fails the job
\* outside the finalization service.
BeginResume(t) ==
    /\ pc[t] = "spawned" /\ kind[t] = "resume"
    /\ \/ /\ status[job[t]] # "gone"
          /\ SetStatus(job[t], "running")
          /\ EnterFullPipeline(t)
       \/ /\ status[job[t]] # "gone"
          /\ SetStatus(job[t], "failed")
          /\ End(t) /\ UNCHANGED inPipeline
       \/ /\ status[job[t]] = "gone"
          /\ End(t) /\ UNCHANGED <<status, inPipeline>>
    /\ UNCHANGED <<outcomes, kind, job, shutVars>>

\* Mutant: the job is not discarded from _jobs_in_pipeline.
LeaveFullPipelineKept(t) == UNCHANGED inPipeline
LeaveFullPipeline(t) == inPipeline' = inPipeline \ {job[t]}

\* The clarifier inside the full pipeline has questions: the job waits for
\* answers, yet an uploaded job's caller sees no code and fails it.
InnerQuestions(t) ==
    LET asked == IF status[job[t]] = "gone" THEN "gone" ELSE "needs_clarification" IN
    /\ pc[t] = "inner"
    /\ LeaveFullPipeline(t)
    /\ IF kind[t] = "upload"
          THEN FinalizeFailure(t, asked)
          ELSE /\ SetStatus(job[t], asked)
               /\ End(t) /\ UNCHANGED <<finalized, dispatched, sent>>
    /\ UNCHANGED <<kind, job, shutVars>>

InnerClear(t) ==
    /\ pc[t] = "inner"
    /\ pc' = [pc EXCEPT ![t] = "generating"]
    /\ UNCHANGED <<status, guards, outcomes, kind, job, shutVars>>

\* The stages are over.  The callers go by "codegen" in stages_completed, which
\* the results of "coldStart", "artifacts" and "syntax" contain, and by
\* pipeline_result_has_cold_start_failure, none of whose signals they carry.
\* A direct request finalizes nothing.
Generated(t, outcome) ==
    LET j   == job[t]
        now == IF outcome \in Rejecting /\ status[j] # "gone" THEN "failed" ELSE status[j]
    IN
    /\ pc[t] = "generating"
    /\ LeaveFullPipeline(t)
    /\ \/ /\ kind[t] # "direct" /\ outcome \in {"raised", "noCode"}
          /\ FinalizeFailure(t, now)
       \/ /\ kind[t] # "direct" /\ outcome = "warnings"
          /\ FinalizeSuccess(t, "completed_with_warnings", now)
       \/ /\ kind[t] # "direct" /\ outcome \in {"ok", "coldStart", "artifacts", "syntax"}
          /\ FinalizeSuccess(t, "completed", now)
       \/ /\ kind[t] = "direct"
          /\ status' = [status EXCEPT ![j] = now]
          /\ End(t) /\ UNCHANGED <<finalized, dispatched, sent>>
    /\ UNCHANGED <<kind, job, shutVars>>

----------------------------------------------------------------------------
(* Shutdown *)

\* main.py's handler: it sets the event, and leaves the stopping to uvicorn.
Sigterm == /\ ~draining /\ phase = "serving"
           /\ draining' = TRUE
           /\ UNCHANGED <<status, guards, outcomes, taskVars, phase, toProtect>>

\* terminal_statuses of _protect_running_jobs_on_shutdown.
Terminal == {"completed", "failed", "cancelled"}

\* uvicorn (its own signal handler, or max_requests) stops serving: requests,
\* the direct pipelines and the resumed ones, which run in the request that
\* resumed them, end or are cancelled.  Then the lifespan lists the jobs to
\* protect, once ...
StopServing ==
    LET hit == {t \in Tasks : kind[t] # "upload" /\ pc[t] \in AtAwait} IN
    /\ phase = "serving"
    /\ phase' = "protecting"
    /\ pc' = [t \in Tasks |-> IF t \in hit THEN "done" ELSE pc[t]]
    /\ inPipeline' = inPipeline \ {job[t] : t \in {u \in hit : pc[u] \in {"inner", "generating"}}}
    /\ toProtect' = {j \in Jobs : status[j] \notin Terminal \cup {"gone"}}
    /\ UNCHANGED <<status, started, outcomes, kind, job, draining>>

\* ... and marks and saves each of them, with an await in between.
Protect(j) ==
    /\ phase = "protecting" /\ j \in toProtect
    /\ status' = [status EXCEPT ![j] = "failed"]
    /\ toProtect' = toProtect \ {j}
    /\ UNCHANGED <<guards, outcomes, taskVars, draining, phase>>

\* Only then cancel_all_pipeline_tasks: it reaches the registered tasks, those
\* that uploads triggered.
CancelTasks ==
    LET hit == {t \in Tasks : kind[t] = "upload" /\ pc[t] \in AtAwait \ {"spawned"}} IN
    /\ phase = "protecting" /\ toProtect = {}
    /\ phase' = "protected"
    /\ pc' = [t \in Tasks |-> IF t \in hit THEN "done" ELSE pc[t]]
    /\ started' = started \ {job[t] : t \in hit}
    /\ inPipeline' = inPipeline \ {job[t] : t \in {u \in hit : pc[u] \in {"inner", "generating"}}}
    /\ UNCHANGED <<status, outcomes, kind, job, draining, toProtect>>

Exit == /\ phase = "protected"
        /\ phase' = "stopped"
        /\ pc' = [t \in Tasks |-> IF pc[t] \in AtAwait THEN "done" ELSE pc[t]]
        /\ started' = {} /\ inPipeline' = {}
        /\ UNCHANGED <<status, outcomes, kind, job, draining, toProtect>>

----------------------------------------------------------------------------
TaskStep(t) ==
    \/ BeginUpload(t) \/ AcquireSlot(t) \/ Questions(t) \/ NoQuestions(t)
    \/ GiveUp(t) \/ Interrupted(t) \/ AgentsReady(t)
    \/ BeginDirect(t) \/ BeginResume(t)
    \/ InnerQuestions(t) \/ InnerClear(t)
    \/ \E o \in Outcomes : Generated(t, o)
    \/ Dispatched(t)

Request == \E j \in Jobs : \/ Cancel(j) \/ Delete(j)
                           \/ \E t \in Tasks : Upload(t, j) \/ Respond(t, j) \/ RunDirect(t, j)

Shutdown == Sigterm \/ StopServing \/ (\E j \in Jobs : Protect(j)) \/ CancelTasks \/ Exit

Next == Request \/ (\E t \in Tasks : TaskStep(t)) \/ Shutdown

Spec == Init /\ [][Next]_vars

\* Every await of a task ends (the clarifier, the stages and the dispatch have
\* timeouts) and asyncio.Semaphore serves its waiters; nobody is obliged to
\* send a request or a SIGTERM.
FairSpec == Spec /\ \A t \in Tasks : /\ WF_vars(pc[t] # "waiting" /\ TaskStep(t))
                                     /\ SF_vars(AcquireSlot(t))

----------------------------------------------------------------------------
(* Correctness *)

\* Tasks registered in _jobs_pipeline_started; tasks inside _run_full_pipeline.
Registered(t) == kind[t] = "upload" /\ pc[t] \in AtAwait \ {"spawned"}
InFullPipeline(t) == pc[t] \in {"inner", "generating"}

\* A job has at most one code generation under way: the upload trigger, a
\* resumed pipeline and a direct request may race for it, in any order
\* ("FIX: Check if job is already in pipeline").
OneGeneration ==
    \A t, u \in Tasks :
        InFullPipeline(t) /\ InFullPipeline(u) /\ job[t] = job[u] => t = u

\* The two in-memory guards say exactly which tasks are under way, whatever way
\* a task ends: a job left in one of them would be refused for ever as
\* "already running in pipeline".
GuardsMatchTasks ==
    /\ started = {job[t] : t \in {u \in Tasks : Registered(u)}}
    /\ inPipeline = {job[t] : t \in {u \in Tasks : InFullPipeline(u)}}

\* "guarded by _dispatched_jobs so it fires at most once per job": re-uploads,
\* resumed and concurrent pipelines of a job hand it to the Self-Fixing
\* Engineer once, even though the mark is set only after the answer.
DispatchedOnce == \A j \in Jobs : sent[j] <= 1

\* finalize_job_success is idempotent: once a job is finalized, no later
\* pipeline of it turns a failed, cancelled or restarted job into a success.
FinalOnce ==
    [][\A j \in finalized : status'[j] \in Succeeded => status[j] = status'[j]]_vars

\* A pipeline under way ends: no task waits for a slot, for the agents or in a
\* stage for ever.
TasksEnd == \A t \in Tasks : pc[t] \in AtAwait ~> pc[t] = "done"

\* However requests, pipelines and the shutdown interleave, a job lives one life:
\* one generation at a time, one verdict, a success only with it, one dispatch,
\* and nothing after it is deleted or the process has exited.
Handing == {job[t] : t \in {u \in Tasks : pc[u] = "dispatching"}}
Verdict == [j \in Jobs |-> IF j \notin finalized THEN "none"
                           ELSE IF sent[j] > 0 THEN "success" ELSE "failure"]
Life == INSTANCE JobLife
    WITH verdict <- Verdict, generating <- inPipeline, handing <- Handing, told <- dispatched,
         server <- IF phase = "serving" THEN "up" ELSE IF phase = "stopped" THEN "down" ELSE "going"
LivesOnce == Life!Spec

(* What the repository says and the code does not do *)

\* "Cancel a running job": a cancelled job does not go on to be completed.
CancelSticks ==
    [][\A j \in Jobs : status[j] = "cancelled" => status'[j] \notin Succeeded]_vars

============================================================================
