----------------------------- MODULE AuditChain -----------------------------
(***************************************************************************)
(* The hash-chained audit log of the arbiter, arbiter/audit_log.py: events *)
(* are chained in memory under an asyncio lock, queued, and written in     *)
(* batches by the threads of an executor while the lock is held.           *)
(*                                                                         *)
(* Entry i is the i-th one ever chained; prev[i] stands for the hash it    *)
(* carries, the number of the entry before it or 0 for none.  A step is    *)
(* the code between two awaits, or one line written by a thread.           *)
(***************************************************************************)
EXTENDS Naturals, Sequences, FiniteSets

CONSTANTS Callers,      \* tasks that emit events
          Loop,         \* the background task _process_batch_loop
          Nobody,
          Threads,      \* the executor's threads
          BatchSize,
          MaxEntries, MaxFaults, MaxRestarts, MaxFiles   \* bounds

Writers == Callers \cup {Loop}

ASSUME ChainAssumption ==
    /\ Loop \notin Callers /\ Nobody \notin Writers /\ Nobody \notin Threads
    /\ Threads \cap {"queued", "handed", "written", "lost"} = {}
    /\ BatchSize \in Nat \ {0}

VARIABLES
    async,      \* config.async_logging
    at,         \* at[w]: out (the loop: asleep), lock, writing; the loop: off
    holder,     \* who has the lock
    critical,   \* the event the holder writes is critical
    worker,     \* the thread that writes the holder's batch
    last,       \* _last_hash
    prev,       \* prev[i]: the previous_hash of entry i
    stage,      \* stage[i]: queued, handed to the executor, with a thread, ...
    log,        \* the lines of all files, oldest first; 0: an error message
    cuts,       \* where in log a new file begins
    closed      \* the executor is shut down

\* History.
VARIABLES
    acked,      \* critical entries whose call returned
    faults,     \* failed writes
    cancelled,  \* some writer was cancelled within a write
    restarts

chain == <<last, prev, acked>>
files == <<log, cuts>>
lock == <<holder, critical, worker>>
vars == <<async, at, lock, chain, stage, files, closed, faults, cancelled, restarts>>

Count == Len(stage)
Queued == {i \in 1 .. Count : stage[i] = "queued"}
With(th) == {i \in 1 .. Count : stage[i] = th}
Move(from, to) == [i \in 1 .. Count |-> IF stage[i] = from THEN to ELSE stage[i]]

TypeOK ==
    /\ async \in BOOLEAN
    /\ at \in [Writers -> {"off", "out", "lock", "writing"}]
    /\ holder \in Writers \cup {Nobody}
    /\ critical \in BOOLEAN
    /\ worker \in Threads \cup {Nobody}
    /\ last \in 0 .. Count
    /\ prev \in Seq(Nat)
    /\ stage \in Seq({"queued", "handed", "written", "lost"} \cup Threads)
    /\ log \in Seq(Nat)
    /\ cuts \subseteq Nat
    /\ closed \in BOOLEAN
    /\ acked \subseteq Nat
    /\ faults \in Nat /\ cancelled \in BOOLEAN /\ restarts \in Nat
    /\ holder # Nobody => at[holder] = "writing"
    /\ Cardinality(Queued) < BatchSize

Init ==
    /\ async \in BOOLEAN
    /\ at = [w \in Writers |-> IF w = Loop THEN "off" ELSE "out"]
    /\ holder = Nobody /\ critical = FALSE /\ worker = Nobody
    /\ last = 0 /\ prev = <<>> /\ stage = <<>>
    /\ log = <<>> /\ cuts = {}
    /\ closed = FALSE
    /\ acked = {} /\ faults = 0 /\ cancelled = FALSE /\ restarts = 0

----------------------------------------------------------------------------
(* The files *)

\* A line goes to the current file or, when it is full or old, to a new one.
Line(x) ==
    /\ log' = Append(log, x)
    /\ \/ cuts' = cuts
       \/ /\ Cardinality(cuts) + 1 < MaxFiles /\ log # <<>>
          /\ cuts' = cuts \cup {Len(log) + 1}

\* The logger that reports a failed write is the logger of this very file.
Report == Line(0) /\ faults' = faults + 1

----------------------------------------------------------------------------
(* emit_audit_event *)

Call(c) ==
    /\ at[c] = "out" /\ Count < MaxEntries
    /\ at' = [at EXCEPT ![c] = "lock"]
    /\ UNCHANGED <<async, lock, chain, stage, files, closed, faults, cancelled, restarts>>

Acquired(c) == at[c] = "lock" /\ holder = Nobody

\* The entry gets its hashes with the lock held.
Link == last' = Count + 1 /\ prev' = Append(prev, last)

\* The batch loop is started with the first event, and again when it has ended.
Awake == IF at[Loop] = "off" THEN "out" ELSE at[Loop]

\* Mutant: the loop is started only by a batch that is full.
EnterNoLoop(c) ==
    /\ async /\ Acquired(c) /\ Count < MaxEntries
    /\ Cardinality(Queued) + 1 < BatchSize
    /\ Link
    /\ stage' = Append(stage, "queued")
    /\ at' = [at EXCEPT ![c] = "out"]
    /\ UNCHANGED <<async, lock, acked, files, closed, faults, cancelled, restarts>>

\* Neither critical nor the last of a batch.
Enqueue(c) ==
    /\ async /\ Acquired(c) /\ Count < MaxEntries
    /\ Cardinality(Queued) + 1 < BatchSize
    /\ Link
    /\ stage' = Append(stage, "queued")
    /\ at' = [at EXCEPT ![c] = "out", ![Loop] = Awake]
    /\ UNCHANGED <<async, lock, acked, files, closed, faults, cancelled, restarts>>

\* Mutant: a critical call returns without waiting for its batch.
FlushUnawaited(c, crit) ==
    /\ async /\ Acquired(c) /\ Count < MaxEntries
    /\ crit \/ Cardinality(Queued) + 1 >= BatchSize
    /\ Link
    /\ ~closed
    /\ stage' = Append(Move("queued", "handed"), "handed")
    /\ acked' = IF crit THEN acked \cup {Count + 1} ELSE acked
    /\ at' = [at EXCEPT ![c] = "out", ![Loop] = Awake]
    /\ UNCHANGED <<async, lock, files, closed, faults, cancelled, restarts>>

\* Mutant: a critical event is handed to the executor ahead of the queue.
FlushItself(c, crit) ==
    /\ async /\ Acquired(c) /\ Count < MaxEntries
    /\ crit \/ Cardinality(Queued) + 1 >= BatchSize
    /\ Link
    /\ ~closed
    /\ stage' = Append(IF crit THEN stage ELSE Move("queued", "handed"), "handed")
    /\ holder' = c /\ critical' = crit /\ worker' = Nobody
    /\ at' = [at EXCEPT ![c] = "writing", ![Loop] = Awake]
    /\ UNCHANGED <<async, acked, files, closed, faults, cancelled, restarts>>

\* Everything queued is handed to the executor; a closed one raises.
Flush(c, crit) ==
    /\ async /\ Acquired(c) /\ Count < MaxEntries
    /\ crit \/ Cardinality(Queued) + 1 >= BatchSize
    /\ Link
    /\ IF closed
          THEN /\ stage' = Append(Move("queued", "lost"), "lost")
               /\ Report
               /\ at' = [at EXCEPT ![c] = "out", ![Loop] = Awake]
               /\ UNCHANGED lock
          ELSE /\ stage' = Append(Move("queued", "handed"), "handed")
               /\ holder' = c /\ critical' = crit /\ worker' = Nobody
               /\ at' = [at EXCEPT ![c] = "writing", ![Loop] = Awake]
               /\ UNCHANGED <<files, faults>>
    /\ UNCHANGED <<async, acked, closed, cancelled, restarts>>

\* Without async_logging the entry is written at once.
LogSync(c) ==
    /\ ~async /\ Acquired(c) /\ Count < MaxEntries
    /\ Link
    /\ \/ Line(Count + 1) /\ stage' = Append(stage, "written") /\ UNCHANGED faults
       \/ faults < MaxFaults /\ Report /\ stage' = Append(stage, "lost")
    /\ at' = [at EXCEPT ![c] = "out"]
    /\ UNCHANGED <<async, lock, acked, closed, cancelled, restarts>>

----------------------------------------------------------------------------
(* _process_batch_loop *)

LoopWakes ==
    /\ at[Loop] = "out"
    /\ at' = [at EXCEPT ![Loop] = "lock"]
    /\ UNCHANGED <<async, lock, chain, stage, files, closed, faults, cancelled, restarts>>

LoopIdles ==
    /\ Acquired(Loop) /\ Queued = {}
    /\ at' = [at EXCEPT ![Loop] = "out"]
    /\ UNCHANGED <<async, lock, chain, stage, files, closed, faults, cancelled, restarts>>

\* Mutant: the batch is taken and written without the lock.
LoopFlushUnlocked ==
    /\ at[Loop] = "lock" /\ Queued # {} /\ ~closed
    /\ \E th \in Threads : With(th) = {} /\ stage' = Move("queued", th)
    /\ at' = [at EXCEPT ![Loop] = "out"]
    /\ UNCHANGED <<async, lock, chain, files, closed, faults, cancelled, restarts>>

LoopFlush ==
    /\ Acquired(Loop) /\ Queued # {}
    /\ IF closed
          THEN /\ stage' = Move("queued", "lost")
               /\ Report
               /\ at' = [at EXCEPT ![Loop] = "out"]
               /\ UNCHANGED lock
          ELSE /\ stage' = Move("queued", "handed")
               /\ holder' = Loop /\ critical' = FALSE /\ worker' = Nobody
               /\ at' = [at EXCEPT ![Loop] = "writing"]
               /\ UNCHANGED <<files, faults>>
    /\ UNCHANGED <<async, chain, closed, cancelled, restarts>>

----------------------------------------------------------------------------
(* The executor.  Only a batch whose writer was cancelled meanwhile occupies *)
(* a thread next to the one the lock holder waits for.                       *)

PickUp(th) ==
    /\ With(th) = {} /\ With("handed") # {}
    /\ stage' = Move("handed", th)
    /\ worker' = th
    /\ UNCHANGED <<async, at, holder, critical, chain, files, closed, faults, cancelled, restarts>>

First(S) == CHOOSE i \in S : \A j \in S : i <= j

Write(th) ==
    /\ With(th) # {}
    /\ Line(First(With(th)))
    /\ stage' = [stage EXCEPT ![First(With(th))] = "written"]
    /\ UNCHANGED <<async, at, lock, chain, closed, faults, cancelled, restarts>>

\* The handler of the logging module drops the line: nobody is told.
WriteSkips(th) ==
    /\ With(th) # {} /\ faults < MaxFaults
    /\ stage' = [stage EXCEPT ![First(With(th))] = "lost"]
    /\ faults' = faults + 1
    /\ UNCHANGED <<async, at, lock, chain, files, closed, cancelled, restarts>>

\* An entry cannot be encrypted or serialized: the batch ends there.
WriteRaises(th) ==
    /\ With(th) # {} /\ faults < MaxFaults
    /\ stage' = Move(th, "lost")
    /\ IF worker = th THEN Report ELSE faults' = faults + 1 /\ UNCHANGED files
    /\ UNCHANGED <<async, at, lock, chain, closed, cancelled, restarts>>

\* The holder's batch has ended, and with it the call.
Written(w) ==
    /\ holder = w /\ worker # Nobody /\ With(worker) = {}
    /\ at' = [at EXCEPT ![w] = "out"]
    /\ holder' = Nobody /\ critical' = FALSE /\ worker' = Nobody
    /\ acked' = IF critical THEN acked \cup {Count} ELSE acked
    /\ UNCHANGED <<async, last, prev, stage, files, closed, faults, cancelled, restarts>>

----------------------------------------------------------------------------
(* Cancellation, shutdown, restart *)

\* A batch that no thread has picked up is dropped with its future; one that is
\* being written goes on, and the lock is free meanwhile.
Leave(w, where) ==
    /\ at' = [at EXCEPT ![w] = where]
    /\ IF holder = w
          THEN /\ holder' = Nobody /\ critical' = FALSE /\ worker' = Nobody
               /\ stage' = Move("handed", "lost")
               /\ cancelled' = TRUE
          ELSE UNCHANGED <<lock, stage, cancelled>>

Cancel(c) ==
    /\ at[c] # "out"
    /\ Leave(c, "out")
    /\ UNCHANGED <<async, chain, files, closed, faults, restarts>>

shutdown ==
    /\ ~closed
    /\ closed' = TRUE
    /\ Leave(Loop, "off")
    /\ UNCHANGED <<async, chain, files, faults, restarts>>

\* A new process appends to the same file with a new chain.
Restart ==
    /\ restarts < MaxRestarts
    /\ restarts' = restarts + 1
    /\ at' = [w \in Writers |-> IF w = Loop THEN "off" ELSE "out"]
    /\ holder' = Nobody /\ critical' = FALSE /\ worker' = Nobody
    /\ last' = 0
    /\ stage' = [i \in 1 .. Count |-> IF stage[i] = "written" THEN "written" ELSE "lost"]
    /\ closed' = FALSE
    /\ UNCHANGED <<async, prev, acked, files, faults, cancelled>>

Next == \/ \E c \in Callers : \/ Call(c) \/ Enqueue(c) \/ LogSync(c) \/ Cancel(c)
                              \/ \E crit \in BOOLEAN : Flush(c, crit)
        \/ LoopWakes \/ LoopIdles \/ LoopFlush
        \/ \E th \in Threads : PickUp(th) \/ Write(th) \/ WriteSkips(th) \/ WriteRaises(th)
        \/ \E w \in Writers : Written(w)
        \/ shutdown \/ Restart

Spec == Init /\ [][Next]_vars

\* The lock is handed over in turn, and threads go on writing.
FairSpec == /\ Spec
            /\ WF_vars(LoopWakes) /\ SF_vars(LoopIdles) /\ SF_vars(LoopFlush)
            /\ \A th \in Threads : WF_vars(Write(th))
            /\ WF_vars(\E th \in Threads : PickUp(th))
            /\ \A w \in Writers : WF_vars(Written(w))

----------------------------------------------------------------------------
(* Correctness *)

\* The entry at line n has the hash of the one before it in the files, if any.
Entries(n) == {m \in 1 .. n - 1 : log[m] # 0}
Chained(n) ==
    IF Entries(n) = {}
       THEN prev[log[n]] = 0
       ELSE \E m \in Entries(n) : prev[log[n]] = log[m] /\ \A k \in Entries(n) : k <= m
Breaks == {n \in 1 .. Len(log) : log[n] # 0 /\ ~Chained(n)}

\* Every break of the chain on disk is the trace of a failed write or of a
\* restart: interleaved calls, batches and rotations never cause one.
BreaksExplained == ~cancelled => Cardinality(Breaks) <= faults + restarts

\* When the call for a critical event returns, it is in the file with all that
\* its process logged before, unless a write failed or was cancelled.
CriticalOnDisk ==
    faults = 0 /\ ~cancelled =>
        \A k \in acked : \A i \in 1 .. k :
            (\A j \in i + 1 .. k : prev[j] # 0) => stage[i] = "written"

\* Whoever calls, fails, is cancelled or restarts in between, the log is a
\* journal: what was logged is put down in its order or is lost, each loss is
\* one failure's or restart's, and a critical call returns when all is settled.
Apart == {i \in 1 .. Count : prev[i] # i - 1}
Record == INSTANCE Journal WITH
    logged <- Count, kept <- With("written"), lost <- With("lost"), lines <- log,
    apart <- Apart, whole <- (last = Count), confirmed <- acked,
    failures <- faults, deserted <- cancelled
IsJournal == Record!Spec

\* What is queued is handed on within the loop's time, unless the logger is
\* shut down, which leaves the queue in memory.
QueueMoves == \A i \in 1 .. MaxEntries :
    i \in Queued ~> i \notin Queued \/ closed

\* What verify_log_integrity takes for the line before line i: the files are
\* read from the newest to the oldest.
LineBefore(i) ==
    LET Later(k) == {c \in cuts : c > k}
        Newer == First(Later(i))
    IN  CASE i # 1 /\ i \notin cuts -> log[i - 1]
          [] Later(i) = {}          -> 0
          [] Later(Newer) = {}      -> log[Len(log)]
          [] OTHER                  -> log[First(Later(Newer)) - 1]

verify_log_integrity ==
    \A i \in 1 .. Len(log) : log[i] # 0 /\ prev[log[i]] = LineBefore(i)

\* "Verify the hash chain integrity of the audit log, including rotated files":
\* a log whose writes all succeeded verifies.  The code does not keep this: the
\* rotated files are read after the current one, and a new process starts a
\* new chain in the old file.
IntactVerifies == faults = 0 /\ ~cancelled => verify_log_integrity

=============================================================================
