----------------------------- MODULE TaskRunner -----------------------------
(***************************************************************************)
(* The test runner of generator/runner/runner_core.py: its priority queue  *)
(* of tasks, the processor that runs a bounded number of them, the worker  *)
(* that sends batches to a remote runner, and the file from which a new    *)
(* process takes up the queue of the one before it.                        *)
(*                                                                         *)
(* A step is the code between two awaits of the event loop; the status     *)
(* lock is never contended, because nothing awaits while it is held.       *)
(* Processor and worker take from one queue: a distributed runner starts   *)
(* both.  Tasks have distinct ids.                                         *)
(***************************************************************************)
EXTENDS Integers, FiniteSets

CONSTANTS Tasks,
          Priority,       \* Priority[t]: the smaller number runs first
          MaxConcurrent,  \* executions started by the processor
          BatchSize,      \* tasks sent to the remote runner at once
          Replies,        \* what the remote runner may answer
          MaxEnds         \* bound: how often the process ends

ASSUME RunnerAssumption ==
    /\ IsFiniteSet(Tasks)
    /\ Priority \in [Tasks -> Int]
    /\ MaxConcurrent \in Nat \ {0}
    /\ BatchSize \in Nat \ {0}
    /\ MaxEnds \in Nat

VARIABLES
    distributed,  \* the configuration: also send to a remote runner
    status,       \* task_status_map, "unknown" where it has no entry
    queue,        \* the heap, as a set
    slots,        \* running_tasks that are not done
    direct,       \* tasks run by a request itself
    batch,        \* what the distributed worker has taken from the queue
    worker,       \* its await: none that matters, the POST, backend.recover()
    remote,       \* tasks the remote runner has accepted
    file,         \* the persisted queue, {} when there is none
    ends          \* processes that have ended

\* History.
VARIABLES
    accepted,     \* tasks ever submitted
    runs,         \* runs[t]: local executions of t begun, over all processes
    unsaved,      \* put into the queue and not written since
    stale,        \* the last write of the file failed
    revived       \* restored from a file that was stale

disk == <<file, unsaved, stale>>
vars == <<distributed, status, queue, slots, direct, batch, worker, remote,
          ends, accepted, runs, revived, disk>>

Ended == {"completed", "failed"}

TypeOK ==
    /\ distributed \in BOOLEAN
    /\ status \in [Tasks -> {"unknown", "enqueued", "pending", "running"} \cup Ended]
    /\ queue \subseteq Tasks
    /\ slots \subseteq Tasks /\ Cardinality(slots) <= MaxConcurrent
    /\ direct \subseteq Tasks
    /\ batch \subseteq Tasks
    /\ worker \in {"idle", "sending", "recovering"}
    /\ remote \subseteq Tasks
    /\ file \subseteq Tasks
    /\ ends \in 0 .. MaxEnds
    /\ accepted \subseteq Tasks
    /\ runs \in [Tasks -> Nat]
    /\ unsaved \subseteq queue
    /\ stale \in BOOLEAN
    /\ revived \subseteq Tasks

Init ==
    /\ distributed \in BOOLEAN
    /\ status = [t \in Tasks |-> "unknown"]
    /\ queue = {} /\ slots = {} /\ direct = {}
    /\ batch = {} /\ worker = "idle" /\ remote = {}
    /\ file = {} /\ ends = 0
    /\ accepted = {} /\ runs = [t \in Tasks |-> 0]
    /\ unsaved = {} /\ stale = FALSE /\ revived = {}

----------------------------------------------------------------------------
(* The queue and its file *)

\* Writes the whole queue; a failure is logged and leaves the old file.
_persist_queue(q) ==
    \/ file' = q /\ unsaved' = {} /\ stale' = FALSE
    \/ stale' = TRUE /\ unsaved' = unsaved \cap q /\ UNCHANGED file

_update_task_status(S, st) ==
    status' = [t \in Tasks |-> IF t \in S THEN st ELSE status[t]]

\* Mutant: written before the task is pushed.
enqueuePersistFirst(t) ==
    /\ t \notin accepted
    /\ accepted' = accepted \cup {t}
    /\ _update_task_status({t}, "enqueued")
    /\ queue' = queue \cup {t}
    /\ _persist_queue(queue)
    /\ UNCHANGED <<distributed, slots, direct, batch, worker, remote, ends, runs, revived>>

\* A request to the endpoints that enqueue, or one task of a batch of them.
enqueue(t) ==
    /\ t \notin accepted
    /\ accepted' = accepted \cup {t}
    /\ _update_task_status({t}, "enqueued")
    /\ queue' = queue \cup {t}
    /\ _persist_queue(queue')
    /\ UNCHANGED <<distributed, slots, direct, batch, worker, remote, ends, runs, revived>>

\* Not distributed: the request runs the task, beside the processor's limit.
run_test_task(t) ==
    /\ ~distributed /\ t \notin accepted
    /\ accepted' = accepted \cup {t}
    /\ direct' = direct \cup {t}
    /\ _update_task_status({t}, "running")
    /\ runs' = [runs EXCEPT ![t] = @ + 1]
    /\ UNCHANGED <<distributed, queue, slots, batch, worker, remote, ends, revived, disk>>

----------------------------------------------------------------------------
(* The processor *)

Urgent(S) == \A t \in S, u \in queue \ S : Priority[t] <= Priority[u]

\* Mutant: one execution too many.
DispatchOneMore(t) ==
    /\ t \in queue /\ Urgent({t})
    /\ Cardinality(slots) <= MaxConcurrent
    /\ queue' = queue \ {t}
    /\ slots' = slots \cup {t}
    /\ runs' = [runs EXCEPT ![t] = @ + 1]
    /\ _persist_queue(queue')
    /\ UNCHANGED <<distributed, status, direct, batch, worker, remote, ends, accepted, revived>>

\* Mutant: the file is written when a task is enqueued only.
DispatchUnwritten(t) ==
    /\ t \in queue /\ Urgent({t})
    /\ Cardinality(slots) < MaxConcurrent
    /\ queue' = queue \ {t}
    /\ slots' = slots \cup {t}
    /\ runs' = [runs EXCEPT ![t] = @ + 1]
    /\ unsaved' = unsaved \cap queue' /\ UNCHANGED <<file, stale>>
    /\ UNCHANGED <<distributed, status, direct, batch, worker, remote, ends, accepted, revived>>

\* Mutant: the last task of the queue is not taken.
DispatchLeavingLast(t) ==
    /\ t \in queue /\ Urgent({t})
    /\ Cardinality(slots) < MaxConcurrent /\ Cardinality(queue) > 1
    /\ queue' = queue \ {t}
    /\ slots' = slots \cup {t}
    /\ runs' = [runs EXCEPT ![t] = @ + 1]
    /\ _persist_queue(queue')
    /\ UNCHANGED <<distributed, status, direct, batch, worker, remote, ends, accepted, revived>>

\* _process_queue: done executions are dropped first, so only live ones count.
Dispatch(t) ==
    /\ t \in queue /\ Urgent({t})
    /\ Cardinality(slots) < MaxConcurrent
    /\ queue' = queue \ {t}
    /\ slots' = slots \cup {t}
    /\ runs' = [runs EXCEPT ![t] = @ + 1]
    /\ _persist_queue(queue')
    /\ UNCHANGED <<distributed, status, direct, batch, worker, remote, ends, accepted, revived>>

\* run_tests up to its first await.
Start(t) ==
    /\ t \in slots /\ status[t] # "running"
    /\ _update_task_status({t}, "running")
    /\ UNCHANGED <<distributed, queue, slots, direct, batch, worker, remote, ends,
                   accepted, runs, revived, disk>>

\* run_tests ends, or _execute_task_safely catches what it raises.
Finish(t) ==
    /\ t \in slots \cup direct /\ status[t] = "running"
    /\ \E st \in Ended : _update_task_status({t}, st)
    /\ slots' = slots \ {t} /\ direct' = direct \ {t}
    /\ UNCHANGED <<distributed, queue, batch, worker, remote, ends, accepted, runs, revived, disk>>

----------------------------------------------------------------------------
(* The distributed worker *)

\* The most urgent ones; the file still lists them.
TakeBatch(S) ==
    /\ distributed /\ worker = "idle"
    /\ S # {} /\ S \subseteq queue /\ Urgent(S)
    /\ Cardinality(S) = (IF Cardinality(queue) < BatchSize THEN Cardinality(queue) ELSE BatchSize)
    /\ queue' = queue \ S /\ unsaved' = unsaved \ S
    /\ batch' = S /\ worker' = "sending"
    /\ _update_task_status(S, "enqueued")
    /\ UNCHANGED <<distributed, slots, direct, remote, ends, accepted, runs, revived, file, stale>>

\* The remote runner accepts tasks one by one, also after the sender gave up.
RemoteEnqueues(t) ==
    /\ t \in batch /\ worker = "sending" /\ t \notin remote
    /\ remote' = remote \cup {t}
    /\ UNCHANGED <<distributed, status, queue, slots, direct, batch, worker, ends,
                   accepted, runs, revived, disk>>

\* Mutant: pushed back and kept in hand.
PushBackKeeping ==
    /\ queue' = queue \cup batch /\ unsaved' = unsaved \cup batch
    /\ _update_task_status(batch, "pending")
    /\ worker' = "idle"
    /\ UNCHANGED <<distributed, slots, direct, batch, remote, ends, accepted, runs, revived, file, stale>>

\* Back into the queue, not into the file.
PushBack ==
    /\ queue' = queue \cup batch /\ unsaved' = unsaved \cup batch
    /\ _update_task_status(batch, "pending")
    /\ batch' = {} /\ worker' = "idle"
    /\ UNCHANGED <<distributed, slots, direct, remote, ends, accepted, runs, revived, file, stale>>

HandOver ==
    /\ batch' = {} /\ worker' = "idle"
    /\ UNCHANGED <<distributed, status, queue, slots, direct, remote, ends,
                   accepted, runs, revived, disk>>

\* Only two answers count: the endpoint of this file gives a third one.
Answered(reply) ==
    /\ worker = "sending" /\ batch \subseteq remote
    /\ IF reply \in {"success", "enqueued"} THEN HandOver ELSE PushBack

SendTimesOut == worker = "sending" /\ PushBack

\* ClientError: the backend is recovered first, with the batch in hand.
SendFails ==
    /\ worker = "sending"
    /\ worker' = "recovering"
    /\ UNCHANGED <<distributed, status, queue, slots, direct, batch, remote, ends,
                   accepted, runs, revived, disk>>

Recovered == worker = "recovering" /\ PushBack

----------------------------------------------------------------------------
(* The process ends, by a crash or after shutdown_services, which cancels   *)
(* the worker and, through the processor, all executions.  The next one     *)
(* loads the file and removes it.  A crash within a write leaves a file     *)
(* that cannot be parsed: it is removed as well.                            *)
Restart(loaded) ==
    /\ ends < MaxEnds
    /\ ends' = ends + 1
    /\ status' = [t \in Tasks |-> "unknown"]
    /\ queue' = loaded /\ unsaved' = loaded
    /\ revived' = IF stale THEN revived \cup (file \ queue) ELSE revived
    /\ file' = {} /\ stale' = FALSE
    /\ slots' = {} /\ direct' = {} /\ batch' = {} /\ worker' = "idle"
    /\ UNCHANGED <<distributed, remote, accepted, runs>>

End == Restart(file) \/ Restart({})

Next == \/ \E t \in Tasks : \/ enqueue(t) \/ run_test_task(t)
                            \/ Dispatch(t) \/ Start(t) \/ Finish(t)
                            \/ RemoteEnqueues(t)
        \/ \E S \in SUBSET Tasks : TakeBatch(S)
        \/ \E reply \in Replies : Answered(reply)
        \/ SendTimesOut \/ SendFails \/ Recovered
        \/ End

Spec == Init /\ [][Next]_vars

\* The loops poll, and an execution has a timeout.
FairSpec == /\ Spec
            /\ WF_vars(\E t \in Tasks : Dispatch(t))
            /\ \A t \in Tasks : WF_vars(Start(t)) /\ WF_vars(Finish(t))

----------------------------------------------------------------------------
(* Correctness *)

Place == [t \in Tasks |->
             IF t \in queue THEN "waiting" ELSE IF t \in slots THEN "slot"
             ELSE IF t \in direct THEN "direct" ELSE IF t \in batch THEN "away"
             ELSE IF t \in accepted THEN "past" ELSE "new"]
Begun == {t \in Tasks : runs[t] > 0}

\* Whatever the remote runner answers or fails to answer, whatever write of the
\* file fails and whenever the process ends, the runner is a pool of tasks: it
\* takes the most urgent first, within its limit, begins none twice and forgets
\* none that waits, with no other exceptions than those TaskPool names.
Pool == INSTANCE TaskPool WITH Limit <- MaxConcurrent, place <- Place,
                               begun <- Begun, excused <- revived, torn <- stale
ActsAsPool == Pool!Spec

\* A task is at one place, and where the status that clients poll says: what
\* is enqueued or pending still waits somewhere, what is running runs, and what
\* has ended is taken up by nobody.
Accounted ==
    /\ queue \cap (slots \cup direct \cup batch) = {}
    /\ slots \cap (direct \cup batch) = {} /\ direct \cap batch = {}
    /\ \A t \in Tasks :
          /\ status[t] = "enqueued" => t \in queue \cup slots \cup batch \cup remote
          /\ status[t] = "pending" => t \in queue \cup slots
          /\ status[t] = "running" => t \in slots \cup direct
          /\ status[t] \in Ended => t \notin queue \cup slots \cup direct \cup batch

\* "Remove the queue file ... to prevent duplicate processing": no restart, not
\* even one that finds an old file because of the worker, makes the processor
\* run a task again, except when the last write before it failed.
RunOnce == \A t \in Tasks : runs[t] > 1 => t \in revived

\* "Persist the task queue to disk for crash recovery": what is enqueued is in
\* the file, unless the write failed.  Left out is what was just loaded or
\* pushed back, which the code does not write.
OnDisk == ~stale => queue \ unsaved \subseteq file

\* Every task that waits or runs in a local runner ends, or is lost with the
\* process; none waits for ever behind more urgent ones or a lost slot.
TasksEnd ==
    \A t \in Tasks : ~distributed /\ t \in queue \cup slots \cup direct
                         ~> t \notin queue \cup slots \cup direct

=============================================================================
