---------------------------- MODULE JobRecovery ----------------------------
(***************************************************************************)
(* Jobs across worker processes and restarts: each worker keeps its jobs   *)
(* in memory (server/storage.jobs_db) and shares one database table with   *)
(* the others (server/persistence.py).  The requests of                    *)
(* server/routers/jobs.py and generator.py write to both, and a starting   *)
(* worker recovers the table into its memory (server/main.py,              *)
(* _background_initialization) if it gets the lock of DistributedLock.     *)
(*                                                                         *)
(* Each access to the database is awaited, so the recovery of one worker,  *)
(* its requests and the other workers interleave between them.  A worker   *)
(* serves at most one request to the database at a time (a bound), and     *)
(* the table fits in one batch of the recovery.                            *)
(***************************************************************************)
EXTENDS Naturals, FiniteSets

CONSTANTS Workers, Jobs,
          NoRedis, Free, Stale,   \* of DistributedLock
          Outcomes,               \* how pipelines may end
          MaxRequests, MaxCrashes,  \* bounds of the checks
          NoJob

ASSUME RecoveryAssumption == /\ Outcomes \subseteq {"completed", "failed", "needs_clarification"}
                             /\ MaxRequests \in Nat /\ MaxCrashes \in Nat
                             /\ NoRedis \subseteq Workers
                             /\ Free \notin Workers /\ Stale \notin Workers /\ Free # Stale
                             /\ NoJob \notin Jobs

VARIABLES
    row,         \* row[j]: status in generator_agent_state, or "none"
    mem,         \* mem[w][j]: status in the jobs_db of w, or "none"
    live,        \* live[w]: jobs that a pipeline of w works for
    rec,         \* rec[w]: where the startup of w is
    todo,        \* todo[w]: the jobs of the batch still to be recovered
    cur, snap,   \* the job under recovery at w, and its status as loaded
    req,         \* req[w]: the request of w that waits for the database
    acked,       \* jobs whose creation was answered 201 (history)
    deletion,    \* deletion[j]: has its deletion been asked, been answered (history)
    requests, crashes   \* how many there were (bounds)

VARIABLES key, redisUp, client, acquired, lockPc, blocking, attempts, solo, lapsed

Lock == INSTANCE DistributedLock WITH Procs <- Workers, MaxRetries <- 1, pc <- lockPc

lockVars == <<key, redisUp, client, acquired, lockPc, blocking, attempts, solo, lapsed>>
recVars == <<rec, todo, cur, snap>>
history == <<acked, deletion>>
jobVars == <<row, mem, live, req, requests, crashes, history>>
vars == <<jobVars, recVars, lockVars>>

Transient == {"pending", "running", "needs_clarification"}
Status == Transient \cup {"completed", "failed", "cancelled"}
Idle == [op |-> "idle", job |-> NoJob, status |-> "none"]

TypeOK ==
    /\ row \in [Jobs -> Status \cup {"none"}]
    /\ mem \in [Workers -> [Jobs -> Status \cup {"none"}]]
    /\ live \in [Workers -> SUBSET Jobs]
    /\ rec \in [Workers -> {"boot", "locking", "query", "scan", "loaded", "saving", "adding",
                            "probe", "probing", "done"}]
    /\ todo \in [Workers -> SUBSET Jobs]
    /\ cur \in [Workers -> Jobs \cup {NoJob}]
    /\ snap \in [Workers -> Status \cup {"none"}]
    /\ req \in [Workers -> [op : {"idle", "create", "load", "save", "delete", "forget"},
                            job : Jobs \cup {NoJob}, status : Status \cup {"none"}]]
    /\ requests \in 0 .. MaxRequests /\ crashes \in 0 .. MaxCrashes
    /\ acked \subseteq Jobs
    /\ deletion \in [Jobs -> {"no", "asked", "answered"}]

Init == /\ row = [j \in Jobs |-> "none"]
        /\ mem = [w \in Workers |-> [j \in Jobs |-> "none"]]
        /\ live = [w \in Workers |-> {}]
        /\ rec = [w \in Workers |-> "boot"]
        /\ todo = [w \in Workers |-> {}]
        /\ cur = [w \in Workers |-> NoJob]
        /\ snap = [w \in Workers |-> "none"]
        /\ req = [w \in Workers |-> Idle]
        /\ requests = 0 /\ crashes = 0
        /\ acked = {}
        /\ deletion = [j \in Jobs |-> "no"]
        /\ Lock!Init

----------------------------------------------------------------------------
(* Requests *)

Counted == requests < MaxRequests /\ requests' = requests + 1
Wait(w, op, j, s) == /\ Counted
                     /\ req[w] = Idle
                     /\ req' = [req EXCEPT ![w] = [op |-> op, job |-> j, status |-> s]]
Answer(w) == req' = [req EXCEPT ![w] = Idle]
Remember(w, j, s) == mem' = [mem EXCEPT ![w][j] = s]

\* save_job_to_database, an upsert under retries: it may fail, also after the
\* commit, and a retry writes the job's status of that moment.
Saves(w, j) == {row, [row EXCEPT ![j] = req[w].status]}
               \cup {[row EXCEPT ![j] = s] : s \in {mem[w][j]} \ {"none"}}

Known(j) == j \in acked \/ row[j] # "none" \/ \E w \in Workers : mem[w][j] # "none"

\* create_job under a fresh id: into memory, then into the database.
Create(w, j) ==
    /\ ~Known(j) /\ deletion[j] = "no"
    /\ Remember(w, j, "pending")
    /\ Wait(w, "create", j, "pending")
    /\ UNCHANGED <<row, live, crashes, history, recVars, lockVars>>

\* Mutant: the result of the save is ignored.
CreateEndUnchecked(w) ==
    LET j == req[w].job IN
    /\ req[w].op = "create"
    /\ row' \in Saves(w, j)
    /\ acked' = acked \cup {j}
    /\ Answer(w)
    /\ UNCHANGED <<mem, live, requests, crashes, deletion, recVars, lockVars>>

\* Saved: 201.  Not saved, or committed but reported as a failure: the job is
\* taken out of memory again, 500.
CreateEnd(w) ==
    LET j == req[w].job IN
    /\ req[w].op = "create"
    /\ row' \in Saves(w, j)
    /\ \/ /\ row'[j] # "none"
          /\ acked' = acked \cup {j}
          /\ UNCHANGED mem
       \/ /\ Remember(w, j, "none")
          /\ UNCHANGED acked
    /\ Answer(w)
    /\ UNCHANGED <<live, requests, crashes, deletion, recVars, lockVars>>

\* A request for a job that is not in memory reads it from the database ...
Load(w, j) ==
    /\ mem[w][j] = "none" /\ row[j] # "none"
    /\ Wait(w, "load", j, row[j])
    /\ UNCHANGED <<row, mem, live, crashes, history, recVars, lockVars>>

\* ... and adds what it has read to memory.
LoadEnd(w) ==
    /\ req[w].op = "load"
    /\ Remember(w, req[w].job, req[w].status)
    /\ Answer(w)
    /\ UNCHANGED <<row, live, requests, crashes, history, recVars, lockVars>>

\* An upload starts a pipeline; its status is not saved.
Upload(w, j) ==
    /\ mem[w][j] # "none"
    /\ Counted
    /\ Remember(w, j, "running")
    /\ live' = [live EXCEPT ![w] = @ \cup {j}]
    /\ UNCHANGED <<row, req, crashes, acked, deletion, recVars, lockVars>>

\* The pipeline ends, in JobPipeline's ways: nor is its outcome saved.
Finish(w, j, s) ==
    /\ j \in live[w]
    /\ Remember(w, j, IF mem[w][j] = "none" THEN "none" ELSE s)
    /\ live' = [live EXCEPT ![w] = @ \ {j}]
    /\ UNCHANGED <<row, req, requests, crashes, acked, deletion, recVars, lockVars>>

\* The last answer to the clarifier, or a skip, in whatever state the job is.
Respond(w, j) ==
    /\ mem[w][j] # "none"
    /\ Remember(w, j, "running")
    /\ Wait(w, "save", j, "running")
    /\ UNCHANGED <<row, live, crashes, history, recVars, lockVars>>

Cancel(w, j) ==
    /\ mem[w][j] \in Transient
    /\ Remember(w, j, "cancelled")
    /\ Wait(w, "save", j, "cancelled")
    /\ UNCHANGED <<row, live, crashes, history, recVars, lockVars>>

\* Both go on whether the status was saved or not: the resumed pipeline starts
\* after the answer.
SaveEnd(w) ==
    LET j == req[w].job IN
    /\ req[w].op = "save"
    /\ row' \in Saves(w, j)
    /\ IF req[w].status = "running"
          THEN live' = [live EXCEPT ![w] = @ \cup {j}]
          ELSE UNCHANGED live
    /\ Answer(w)
    /\ UNCHANGED <<mem, requests, crashes, acked, deletion, recVars, lockVars>>

\* delete_job: the row first; that this returned False is only logged.
Delete(w, j) ==
    /\ mem[w][j] # "none" \/ row[j] # "none"
    /\ deletion[j] # "answered"
    /\ deletion' = [deletion EXCEPT ![j] = "asked"]
    /\ Wait(w, "delete", j, "none")
    /\ UNCHANGED <<row, mem, live, crashes, acked, recVars, lockVars>>

DeleteRow(w) ==
    /\ req[w].op = "delete"
    /\ row' \in {row, [row EXCEPT ![req[w].job] = "none"]}
    /\ req' = [req EXCEPT ![w].op = "forget"]
    /\ UNCHANGED <<mem, live, requests, crashes, history, recVars, lockVars>>

\* Then this worker's memory; the other workers are not told.
DeleteEnd(w) ==
    /\ req[w].op = "forget"
    /\ Remember(w, req[w].job, "none")
    /\ deletion' = [deletion EXCEPT ![req[w].job] = "answered"]
    /\ Answer(w)
    /\ UNCHANGED <<row, live, requests, crashes, acked, recVars, lockVars>>

----------------------------------------------------------------------------
(* Recovery *)

At(w, here) == rec[w] = here
Goto(w, there) == rec' = [rec EXCEPT ![w] = there]

AskLock(w) ==
    /\ At(w, "boot")
    /\ Lock!Acquire(w, FALSE)
    /\ Goto(w, "locking")
    /\ UNCHANGED <<jobVars, todo, cur, snap>>

\* Mutant: a worker that did not get the lock recovers all the same.
AfterLockBoth(w, answer) == IF answer = "idle" THEN "query" ELSE "locking"

\* A worker without the lock fails at the annotation "job: Job" of
\* _mark_job_as_failed, Job being imported only with the lock: the exception
\* is caught, and the recovery skipped for good.
AfterLock(w, answer) ==
    IF answer = "inside" THEN "query" ELSE IF answer = "idle" THEN "probe" ELSE "locking"

\* The lock's own steps, on behalf of the recovery ...
Locking(w) ==
    /\ At(w, "locking")
    /\ Lock!Connect(w) \/ Lock!SetWins(w) \/ Lock!SetLoses(w) \/ Lock!SetRaises(w)
    /\ Goto(w, AfterLock(w, lockPc'[w]))
    /\ UNCHANGED <<jobVars, todo, cur, snap>>

\* One batch of the table; a query that fails skips the batch.
Query(w) ==
    /\ At(w, "query")
    /\ \/ todo' = [todo EXCEPT ![w] = {j \in Jobs : row[j] # "none"}]
       \/ UNCHANGED todo
    /\ Goto(w, "scan")
    /\ UNCHANGED <<jobVars, cur, snap, lockVars>>

\* Mutant: a job that is skipped stays in the batch.
NextJobKept(w, j) ==
    /\ At(w, "scan") /\ j \in todo[w]
    /\ \/ /\ mem[w][j] = "none" /\ row[j] # "none"
          /\ todo' = [todo EXCEPT ![w] = @ \ {j}]
          /\ cur' = [cur EXCEPT ![w] = j]
          /\ snap' = [snap EXCEPT ![w] = row[j]]
          /\ Goto(w, "loaded")
       \/ UNCHANGED <<todo, rec, cur, snap>>
    /\ UNCHANGED <<jobVars, lockVars>>

\* The next job of the batch: skipped when in memory or no longer loadable.
NextJob(w, j) ==
    /\ At(w, "scan") /\ j \in todo[w]
    /\ todo' = [todo EXCEPT ![w] = @ \ {j}]
    /\ \/ /\ mem[w][j] = "none" /\ row[j] # "none"
          /\ cur' = [cur EXCEPT ![w] = j]
          /\ snap' = [snap EXCEPT ![w] = row[j]]
          /\ Goto(w, "loaded")
       \/ UNCHANGED <<rec, cur, snap>>
    /\ UNCHANGED <<jobVars, lockVars>>

\* Mutant: a pending job is recovered as it is.
VerdictAsIs(s) == IF s \in {"running", "needs_clarification"} THEN "failed" ELSE s

\* Every transient state is an interrupted one.
Verdict(s) == IF s \in Transient THEN "failed" ELSE s

\* Is the job still in the table?  An interrupted one will be saved as FAILED.
Verify(w) ==
    /\ At(w, "loaded")
    /\ \/ /\ row[cur[w]] # "none"
          /\ snap' = [snap EXCEPT ![w] = Verdict(@)]
          /\ Goto(w, IF snap[w] \in Transient THEN "saving" ELSE "adding")
          /\ UNCHANGED cur
       \/ /\ Goto(w, "scan")
          /\ cur' = [cur EXCEPT ![w] = NoJob] /\ snap' = [snap EXCEPT ![w] = "none"]
    /\ UNCHANGED <<jobVars, todo, lockVars>>

\* The save is an upsert, and its result is not looked at.
SaveFailed(w) ==
    /\ At(w, "saving")
    /\ row' \in {row, [row EXCEPT ![cur[w]] = snap[w]]}
    /\ Goto(w, "adding")
    /\ UNCHANGED <<mem, live, req, requests, crashes, history, todo, cur, snap, lockVars>>

\* add_job writes over what a request may have put there since NextJob.
AddJob(w) ==
    /\ At(w, "adding")
    /\ Remember(w, cur[w], snap[w])
    /\ cur' = [cur EXCEPT ![w] = NoJob] /\ snap' = [snap EXCEPT ![w] = "none"]
    /\ Goto(w, "scan")
    /\ UNCHANGED <<row, live, req, requests, crashes, history, todo, lockVars>>

\* Mutant: the recovery leaves without releasing the lock.
EndRecoveryHolding(w) ==
    /\ At(w, "scan") /\ todo[w] = {}
    /\ lockPc' = [lockPc EXCEPT ![w] = "idle"]
    /\ Goto(w, "probe")
    /\ UNCHANGED <<jobVars, todo, cur, snap, key, redisUp, client, acquired, blocking,
                   attempts, solo, lapsed>>

\* The recovery releases the lock at its end ...
EndRecovery(w) ==
    /\ At(w, "scan") /\ todo[w] = {}
    /\ Lock!Release(w)
    /\ Goto(w, "probe")
    /\ UNCHANGED <<jobVars, todo, cur, snap>>

\* ... and the agent loading takes and releases it once more, to log about it.
Probe(w) ==
    /\ UNCHANGED <<jobVars, todo, cur, snap>>
    /\ \/ At(w, "probe") /\ Lock!Acquire(w, FALSE) /\ Goto(w, "probing")
       \/ /\ At(w, "probing")
          /\ Lock!Connect(w) \/ Lock!SetWins(w) \/ Lock!SetLoses(w) \/ Lock!SetRaises(w)
          /\ Goto(w, IF lockPc'[w] = "idle" THEN "done" ELSE "probing")
       \/ At(w, "probing") /\ Lock!Release(w) /\ Goto(w, "done")

\* w dies and starts again: its memory and its requests are lost.
Crash(w) ==
    /\ crashes < MaxCrashes /\ crashes' = crashes + 1
    /\ Lock!Crash(w)
    /\ mem' = [mem EXCEPT ![w] = [j \in Jobs |-> "none"]]
    /\ live' = [live EXCEPT ![w] = {}]
    /\ req' = [req EXCEPT ![w] = Idle]
    /\ rec' = [rec EXCEPT ![w] = "boot"]
    /\ todo' = [todo EXCEPT ![w] = {}]
    /\ cur' = [cur EXCEPT ![w] = NoJob] /\ snap' = [snap EXCEPT ![w] = "none"]
    /\ UNCHANGED <<row, requests, history>>

Redis == /\ Lock!Expire \/ Lock!RedisFlips
         /\ UNCHANGED <<jobVars, recVars>>

----------------------------------------------------------------------------
Request(w) == \E j \in Jobs : \/ Create(w, j) \/ Load(w, j) \/ Upload(w, j) \/ Respond(w, j)
                              \/ Cancel(w, j) \/ Delete(w, j)
Serve(w) == \/ CreateEnd(w) \/ LoadEnd(w) \/ SaveEnd(w) \/ DeleteRow(w) \/ DeleteEnd(w)
            \/ \E j \in Jobs, s \in Outcomes : Finish(w, j, s)

Recover(w) == \/ AskLock(w) \/ Locking(w) \/ Query(w) \/ (\E j \in Jobs : NextJob(w, j))
              \/ Verify(w) \/ SaveFailed(w) \/ AddJob(w) \/ EndRecovery(w) \/ Probe(w)

Next == (\E w \in Workers : Request(w) \/ Serve(w) \/ Recover(w) \/ Crash(w)) \/ Redis

Spec == Init /\ [][Next]_vars

\* The event loop carries the startup on; nothing obliges a user or a crash.
FairSpec == Spec /\ \A w \in Workers : WF_vars(Recover(w))

----------------------------------------------------------------------------
(* Correctness *)

\* create_job answers 201 only for a job that outlives this process ("Jobs are
\* ONLY created if database persistence succeeds"): whatever fails or crashes
\* later, its row is there until somebody asks for its deletion.
CreatedIsDurable == \A j \in acked : deletion[j] = "no" => row[j] # "none"

Recovering(w) == rec[w] \in {"query", "scan", "loaded", "saving", "adding"}

\* Two workers recover at once only if one of them got in without Redis or has
\* outlived its lease.
RecoveryExclusive ==
    \A v, w \in Workers :
        /\ Recovering(v) /\ ~solo[v] /\ ~lapsed[v]
        /\ Recovering(w) /\ ~solo[w] /\ ~lapsed[w]
        => v = w

\* The startup takes and releases the lock in the order the lock's own
\* specification allows, across skips, failures and crashes.
LockKept == Lock!Spec

\* A job the recovery puts into memory is settled there: nothing that no
\* pipeline and no user will move on is brought back from the table.
RecoveredIsSettled ==
    [][\A w \in Workers : At(w, "adding") /\ rec'[w] = "scan"
            => mem'[w][cur[w]] \notin Transient]_vars

\* The startup of a worker is over at some time, unless the worker crashes.
StartupEnds == \A w \in Workers : rec[w] = "locking" ~> rec[w] \in {"done", "boot"}

============================================================================
