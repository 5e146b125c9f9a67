-------------------------- MODULE TaskRunnerProofs --------------------------
(***************************************************************************)
(* What TaskRunner guarantees for any tasks, priorities and bounds: types, *)
(* one place per task, one run per task over restarts, the file, and that  *)
(* it is a pool of tasks.                                                  *)
(***************************************************************************)
EXTENDS TaskRunner, FiniteSetTheorems, TLAPS

\* The slots after a dispatch: still finite, one more at the most.
LEMMA OneMore ==
    ASSUME NEW S \in SUBSET Tasks, NEW t \in Tasks
    PROVE  /\ Cardinality(S) \in Nat
           /\ Cardinality(S \cup {t}) \in Nat
           /\ Cardinality(S \cup {t}) <= Cardinality(S) + 1
<1>1. IsFiniteSet(S) BY RunnerAssumption, FS_Subset
<1>2. /\ Cardinality(S) \in Nat
      /\ IsFiniteSet(S \cup {t})
      /\ Cardinality(S \cup {t}) = IF t \in S THEN Cardinality(S) ELSE Cardinality(S) + 1
  BY <1>1, FS_CardinalityType, FS_AddElement
<1> QED BY <1>2

\* What is taken out of the slots leaves no more of them.
LEMMA NoMore ==
    ASSUME NEW S \in SUBSET Tasks, NEW t \in Tasks
    PROVE  Cardinality(S \ {t}) <= Cardinality(S)
<1>1. IsFiniteSet(S) BY RunnerAssumption, FS_Subset
<1>2. S \ {t} \subseteq S OBVIOUS
<1> QED BY <1>1, <1>2, FS_Subset

LEMMA NoSlots == Cardinality({}) = 0 /\ 0 <= MaxConcurrent
BY FS_EmptySet, RunnerAssumption

\* The writes keep the file a set of tasks.
LEMMA Written ==
    ASSUME NEW q \in SUBSET Tasks, file \subseteq Tasks, _persist_queue(q)
    PROVE  /\ file' \subseteq Tasks /\ stale' \in BOOLEAN
           /\ unsaved' \subseteq q
           /\ ~stale' => file' = q
BY DEF _persist_queue

\* A status that is set is one of the statuses.
LEMMA StatusType ==
    ASSUME NEW S \in SUBSET Tasks,
           NEW st \in {"unknown", "enqueued", "pending", "running"} \cup Ended,
           status \in [Tasks -> {"unknown", "enqueued", "pending", "running"} \cup Ended],
           _update_task_status(S, st)
    PROVE  status' \in [Tasks -> {"unknown", "enqueued", "pending", "running"} \cup Ended]
BY DEF _update_task_status

\* Types: no more executions at once than the processor's limit.
LEMMA TypeInit == Init => TypeOK
<1> SUFFICES ASSUME Init PROVE TypeOK
  OBVIOUS
<1>1. Cardinality(slots) <= MaxConcurrent BY NoSlots DEF Init
<1>2. status \in [Tasks -> {"unknown", "enqueued", "pending", "running"} \cup Ended]
  BY DEF Init
<1>3. runs \in [Tasks -> Nat] BY DEF Init
<1>4. ends \in 0 .. MaxEnds BY RunnerAssumption DEF Init
<1> QED BY <1>1, <1>2, <1>3, <1>4 DEF Init, TypeOK

LEMMA TypeStep == TypeOK /\ [Next]_vars => TypeOK'
<1> SUFFICES ASSUME TypeOK, [Next]_vars PROVE TypeOK'
  OBVIOUS
<1> USE DEF TypeOK
<1>1. ASSUME NEW t \in Tasks, enqueue(t) PROVE TypeOK'
  <2>1. queue' \in SUBSET Tasks BY <1>1 DEF enqueue
  <2>2. /\ file' \subseteq Tasks /\ stale' \in BOOLEAN /\ unsaved' \subseteq queue'
    BY <1>1, <2>1, Written DEF enqueue
  <2>3. status' \in [Tasks -> {"unknown", "enqueued", "pending", "running"} \cup Ended]
    BY <1>1, StatusType DEF enqueue
  <2> QED BY <1>1, <2>1, <2>2, <2>3 DEF enqueue
<1>2. ASSUME NEW t \in Tasks, run_test_task(t) PROVE TypeOK'
  <2>1. status' \in [Tasks -> {"unknown", "enqueued", "pending", "running"} \cup Ended]
    BY <1>2, StatusType DEF run_test_task
  <2>2. runs' \in [Tasks -> Nat] BY <1>2 DEF run_test_task
  <2> QED BY <1>2, <2>1, <2>2 DEF run_test_task, disk
<1>3. ASSUME NEW t \in Tasks, Dispatch(t) PROVE TypeOK'
  <2>1. queue' \in SUBSET Tasks BY <1>3 DEF Dispatch
  <2>2. /\ file' \subseteq Tasks /\ stale' \in BOOLEAN /\ unsaved' \subseteq queue'
    BY <1>3, <2>1, Written DEF Dispatch
  <2>3. slots' \subseteq Tasks /\ Cardinality(slots') <= MaxConcurrent
    <3>1. slots' = slots \cup {t} /\ Cardinality(slots) < MaxConcurrent BY <1>3 DEF Dispatch
    <3> QED BY <3>1, OneMore, RunnerAssumption
  <2>4. runs' \in [Tasks -> Nat] BY <1>3 DEF Dispatch
  <2> QED BY <1>3, <2>1, <2>2, <2>3, <2>4 DEF Dispatch
<1>4. ASSUME NEW t \in Tasks, Start(t) PROVE TypeOK'
  <2>1. status' \in [Tasks -> {"unknown", "enqueued", "pending", "running"} \cup Ended]
    BY <1>4, StatusType DEF Start
  <2> QED BY <1>4, <2>1 DEF Start, disk
<1>5. ASSUME NEW t \in Tasks, Finish(t) PROVE TypeOK'
  <2>1. status' \in [Tasks -> {"unknown", "enqueued", "pending", "running"} \cup Ended]
    BY <1>5, StatusType DEF Finish
  <2>2. slots' = slots \ {t} BY <1>5 DEF Finish
  <2>3. Cardinality(slots') \in Nat /\ Cardinality(slots) \in Nat
    BY <2>2, OneMore
  <2>4. slots' \subseteq Tasks /\ Cardinality(slots') <= MaxConcurrent
    BY <2>2, <2>3, NoMore, RunnerAssumption
  <2> QED BY <1>5, <2>1, <2>4 DEF Finish, disk
<1>6. ASSUME NEW t \in Tasks, RemoteEnqueues(t) PROVE TypeOK'
  BY <1>6 DEF RemoteEnqueues, disk
<1>7. ASSUME NEW S \in SUBSET Tasks, TakeBatch(S) PROVE TypeOK'
  <2>1. status' \in [Tasks -> {"unknown", "enqueued", "pending", "running"} \cup Ended]
    BY <1>7, StatusType DEF TakeBatch
  <2> QED BY <1>7, <2>1 DEF TakeBatch
<1>8. ASSUME PushBack PROVE TypeOK'
  <2>1. status' \in [Tasks -> {"unknown", "enqueued", "pending", "running"} \cup Ended]
    BY <1>8, StatusType DEF PushBack
  <2> QED BY <1>8, <2>1 DEF PushBack
<1>9. ASSUME HandOver PROVE TypeOK'
  BY <1>9 DEF HandOver, disk
<1>10. ASSUME SendFails PROVE TypeOK'
  BY <1>10 DEF SendFails, disk
<1>11. ASSUME End PROVE TypeOK'
  <2>1. PICK loaded \in SUBSET Tasks : Restart(loaded) BY <1>11 DEF End
  <2>2. status' \in [Tasks -> {"unknown", "enqueued", "pending", "running"} \cup Ended]
    BY <2>1 DEF Restart
  <2>3. ends' \in 0 .. MaxEnds BY <2>1, RunnerAssumption DEF Restart
  <2>4. revived' \subseteq Tasks BY <2>1 DEF Restart
  <2> QED BY <2>1, <2>2, <2>3, <2>4, NoSlots DEF Restart
<1>12. ASSUME UNCHANGED vars PROVE TypeOK'
  BY <1>12 DEF vars, disk
<1> QED
  BY <1>1, <1>2, <1>3, <1>4, <1>5, <1>6, <1>7, <1>8, <1>9, <1>10, <1>11, <1>12
  DEF Next, Answered, SendTimesOut, Recovered

\* The state of queue, executions, worker and file is well typed in every
\* behaviour; in particular no more executions than the limit are under way.
THEOREM TypeCorrect == Spec => []TypeOK
<1> QED BY TypeInit, TypeStep, PTL DEF Spec

----------------------------------------------------------------------------
(* One place per task.  A task that was never submitted is nowhere.         *)

Nowhere == \A t \in Tasks \ accepted :
              /\ t \notin queue \cup slots \cup direct \cup batch \cup file
              /\ status[t] = "unknown" /\ runs[t] = 0

Places == Accounted /\ Nowhere /\ (worker = "idle" => batch = {})

LEMMA PlacesInit == Init => Places
BY DEF Init, Places, Accounted, Nowhere, Ended

\* A loaded task is nowhere else: the new process has only its queue.
LEMMA PlacesStep == TypeOK /\ Places /\ [Next]_vars => Places'
<1> SUFFICES ASSUME TypeOK, Places, [Next]_vars PROVE Places'
  OBVIOUS
<1> USE DEF TypeOK, Places, Accounted, Nowhere, Ended
<1>1. ASSUME NEW t \in Tasks, enqueue(t) PROVE Places'
  BY <1>1, SMTT(60) DEF enqueue, _persist_queue, _update_task_status
<1>2. ASSUME NEW t \in Tasks, run_test_task(t) PROVE Places'
  BY <1>2, SMTT(60) DEF run_test_task, _update_task_status, disk
<1>3. ASSUME NEW t \in Tasks, Dispatch(t) PROVE Places'
  BY <1>3, SMTT(60) DEF Dispatch, _persist_queue
<1>4. ASSUME NEW t \in Tasks, Start(t) PROVE Places'
  BY <1>4, SMTT(60) DEF Start, _update_task_status, disk
<1>5. ASSUME NEW t \in Tasks, Finish(t) PROVE Places'
  BY <1>5, SMTT(60) DEF Finish, _update_task_status, disk
<1>6. ASSUME NEW t \in Tasks, RemoteEnqueues(t) PROVE Places'
  BY <1>6, SMTT(60) DEF RemoteEnqueues, disk
<1>7. ASSUME NEW S \in SUBSET Tasks, TakeBatch(S) PROVE Places'
  BY <1>7, SMTT(60) DEF TakeBatch, _update_task_status
<1>8. ASSUME PushBack PROVE Places'
  BY <1>8, SMTT(60) DEF PushBack, _update_task_status
<1>9. ASSUME HandOver, batch \subseteq remote PROVE Places'
  BY <1>9, SMTT(60) DEF HandOver, disk
<1>10. ASSUME SendFails PROVE Places'
  BY <1>10, SMTT(60) DEF SendFails, disk
<1>11. ASSUME End PROVE Places'
  BY <1>11, SMTT(60) DEF End, Restart
<1>12. ASSUME UNCHANGED vars PROVE Places'
  BY <1>12 DEF vars, disk
<1> QED
  BY <1>1, <1>2, <1>3, <1>4, <1>5, <1>6, <1>7, <1>8, <1>9, <1>10, <1>11, <1>12
  DEF Next, Answered, SendTimesOut, Recovered

\* The status that clients poll says where the task is, and it is there only.
THEOREM TasksAccounted == Spec => []Accounted
<1>1. Places => Accounted BY DEF Places
<1> QED BY <1>1, TypeInit, TypeStep, PlacesInit, PlacesStep, PTL DEF Spec

----------------------------------------------------------------------------
(* One run per task.  What has run is in no queue, and only in a file that  *)
(* is stale.                                                                *)

Gone == \A t \in Tasks \ revived :
            runs[t] > 0 => t \notin queue \cup batch /\ (t \in file => stale)

RunsInv == RunOnce /\ Gone

LEMMA RunsInit == Init => RunsInv
BY DEF Init, RunsInv, RunOnce, Gone

LEMMA RunsStep == TypeOK /\ Places /\ RunsInv /\ [Next]_vars => RunsInv'
<1> SUFFICES ASSUME TypeOK, Places, RunsInv, [Next]_vars PROVE RunsInv'
  OBVIOUS
<1> USE DEF TypeOK, RunsInv, RunOnce, Gone
<1>1. ASSUME NEW t \in Tasks, enqueue(t) PROVE RunsInv'
  <2>1. runs[t] = 0 BY <1>1 DEF enqueue, Places, Nowhere
  <2> QED BY <1>1, <2>1 DEF enqueue, _persist_queue
<1>2. ASSUME NEW t \in Tasks, run_test_task(t) PROVE RunsInv'
  <2>1. runs[t] = 0 /\ t \notin queue \cup batch \cup file
    BY <1>2 DEF run_test_task, Places, Nowhere
  <2> QED BY <1>2, <2>1 DEF run_test_task, disk
<1>3. ASSUME NEW t \in Tasks, Dispatch(t) PROVE RunsInv'
  <2>1. t \notin batch BY <1>3 DEF Dispatch, Places, Accounted
  <2>2. t \in revived \/ runs[t] = 0 BY <1>3 DEF Dispatch
  <2> QED BY <1>3, <2>1, <2>2, SMTT(60) DEF Dispatch, _persist_queue
<1>4. ASSUME NEW t \in Tasks, Start(t) PROVE RunsInv'
  BY <1>4 DEF Start, disk
<1>5. ASSUME NEW t \in Tasks, Finish(t) PROVE RunsInv'
  BY <1>5 DEF Finish, disk
<1>6. ASSUME NEW t \in Tasks, RemoteEnqueues(t) PROVE RunsInv'
  BY <1>6 DEF RemoteEnqueues, disk
<1>7. ASSUME NEW S \in SUBSET Tasks, TakeBatch(S) PROVE RunsInv'
  BY <1>7 DEF TakeBatch
<1>8. ASSUME PushBack PROVE RunsInv'
  BY <1>8 DEF PushBack
<1>9. ASSUME HandOver PROVE RunsInv'
  BY <1>9 DEF HandOver, disk
<1>10. ASSUME SendFails PROVE RunsInv'
  BY <1>10 DEF SendFails, disk
<1>11. ASSUME End PROVE RunsInv'
  BY <1>11 DEF End, Restart
<1>12. ASSUME UNCHANGED vars PROVE RunsInv'
  BY <1>12 DEF vars, disk
<1> QED
  BY <1>1, <1>2, <1>3, <1>4, <1>5, <1>6, <1>7, <1>8, <1>9, <1>10, <1>11, <1>12
  DEF Next, Answered, SendTimesOut, Recovered

\* The processor runs no task twice, whatever ends in between, except one that
\* comes back from a file whose last write had failed.
THEOREM RunsOnce == Spec => []RunOnce
<1>1. RunsInv => RunOnce BY DEF RunsInv
<1> QED BY <1>1, TypeInit, TypeStep, PlacesInit, PlacesStep, RunsInit, RunsStep, PTL DEF Spec

----------------------------------------------------------------------------
LEMMA DiskStep == OnDisk /\ [Next]_vars => OnDisk'
<1> SUFFICES ASSUME OnDisk, [Next]_vars PROVE OnDisk'
  OBVIOUS
<1> USE DEF OnDisk
<1>1. ASSUME NEW t \in Tasks, enqueue(t) PROVE OnDisk'
  BY <1>1 DEF enqueue, _persist_queue
<1>2. ASSUME NEW t \in Tasks, run_test_task(t) PROVE OnDisk'
  BY <1>2 DEF run_test_task, disk
<1>3. ASSUME NEW t \in Tasks, Dispatch(t) PROVE OnDisk'
  BY <1>3 DEF Dispatch, _persist_queue
<1>4. ASSUME NEW t \in Tasks, Start(t) PROVE OnDisk'
  BY <1>4 DEF Start, disk
<1>5. ASSUME NEW t \in Tasks, Finish(t) PROVE OnDisk'
  BY <1>5 DEF Finish, disk
<1>6. ASSUME NEW t \in Tasks, RemoteEnqueues(t) PROVE OnDisk'
  BY <1>6 DEF RemoteEnqueues, disk
<1>7. ASSUME NEW S \in SUBSET Tasks, TakeBatch(S) PROVE OnDisk'
  BY <1>7 DEF TakeBatch
<1>8. ASSUME PushBack PROVE OnDisk'
  BY <1>8 DEF PushBack
<1>9. ASSUME HandOver PROVE OnDisk'
  BY <1>9 DEF HandOver, disk
<1>10. ASSUME SendFails PROVE OnDisk'
  BY <1>10 DEF SendFails, disk
<1>11. ASSUME End PROVE OnDisk'
  BY <1>11 DEF End, Restart
<1>12. ASSUME UNCHANGED vars PROVE OnDisk'
  BY <1>12 DEF vars, disk
<1> QED
  BY <1>1, <1>2, <1>3, <1>4, <1>5, <1>6, <1>7, <1>8, <1>9, <1>10, <1>11, <1>12
  DEF Next, Answered, SendTimesOut, Recovered

\* The file has the whole queue, but for what was loaded or pushed back since
\* the last write, unless that write failed.
THEOREM QueueOnDisk == Spec => []OnDisk
<1>1. Init => OnDisk BY DEF Init, OnDisk
<1> QED BY <1>1, DiskStep, PTL DEF Spec

----------------------------------------------------------------------------
(* The runner is a pool of tasks.  A task is at one place (Places), so what *)
(* moves one leaves the others where they are; that it is begun at most     *)
(* once is RunsInv, and that a restart keeps what waits is OnDisk.          *)

PoolInv == TypeOK /\ Places /\ RunsInv /\ OnDisk

\* The places are the sets of the runner.
LEMMA PlacesAre ==
    ASSUME TypeOK, Places
    PROVE  /\ Pool!At("waiting") = queue
           /\ Pool!At("slot") = slots
           /\ Pool!At("away") = batch
           /\ \A t \in Tasks : Place[t] = "new" <=> t \notin accepted
BY DEF TypeOK, Places, Accounted, Nowhere, Place, Pool!At

\* A task that goes from one place to another is the only one whose place changes.
LEMMA Moves ==
    ASSUME NEW S \in SUBSET Tasks, NEW to,
           Place' = [t \in Tasks |-> IF t \in S THEN to ELSE Place[t]]
    PROVE  Pool!Move(S, to)
BY DEF Pool!Move

LEMMA Records ==
    ASSUME TypeOK, NEW q \in SUBSET Tasks, _persist_queue(q)
    PROVE  Pool!Record
BY DEF TypeOK, _persist_queue, Pool!Record

LEMMA PoolStep == PoolInv /\ [Next]_vars => [Pool!Next]_(Pool!vars)
<1> SUFFICES ASSUME PoolInv, [Next]_vars PROVE [Pool!Next]_(Pool!vars)
  OBVIOUS
<1> USE DEF PoolInv
<1>a. /\ Pool!At("waiting") = queue
      /\ Pool!At("slot") = slots
      /\ Pool!At("away") = batch
      /\ \A t \in Tasks : Place[t] = "new" <=> t \notin accepted
  BY PlacesAre
<1>1. ASSUME NEW t \in Tasks, enqueue(t) PROVE Pool!Submit(t)
  <2>1. Place' = [u \in Tasks |-> IF u \in {t} THEN "waiting" ELSE Place[u]]
    BY <1>1 DEF enqueue, Place
  <2>2. Pool!Move({t}, "waiting") BY <2>1, Moves
  <2>3. Pool!Record
    <3>1. queue' \in SUBSET Tasks BY <1>1 DEF enqueue, TypeOK
    <3> QED BY <1>1, <3>1, Records DEF enqueue
  <2>4. Place[t] = "new" BY <1>1, <1>a DEF enqueue
  <2>5. UNCHANGED <<Begun, revived>> BY <1>1 DEF enqueue, Begun
  <2> QED BY <2>2, <2>3, <2>4, <2>5 DEF Pool!Submit
<1>2. ASSUME NEW t \in Tasks, run_test_task(t) PROVE Pool!RunNow(t)
  <2>1. Place' = [u \in Tasks |-> IF u \in {t} THEN "direct" ELSE Place[u]]
    BY <1>2 DEF run_test_task, Place, Places, Nowhere, TypeOK
  <2>2. Pool!Move({t}, "direct") BY <2>1, Moves
  <2>3. Place[t] = "new" BY <1>2, <1>a DEF run_test_task
  <2>4. Begun' = Begun \cup {t} BY <1>2 DEF run_test_task, Begun, TypeOK
  <2> QED BY <1>2, <2>2, <2>3, <2>4 DEF Pool!RunNow, run_test_task, disk
<1>3. ASSUME NEW t \in Tasks, Dispatch(t) PROVE Pool!Begin(t)
  <2>1. Place' = [u \in Tasks |-> IF u \in {t} THEN "slot" ELSE Place[u]]
    BY <1>3 DEF Dispatch, Place, Places, Accounted, TypeOK
  <2>2. Pool!Move({t}, "slot") BY <2>1, Moves
  <2>3. Place[t] = "waiting" BY <1>3 DEF Dispatch, Place
  <2>4. Pool!Record
    <3>1. queue' \in SUBSET Tasks BY <1>3 DEF Dispatch, TypeOK
    <3> QED BY <1>3, <3>1, Records DEF Dispatch
  <2>5. t \in Begun => t \in revived
    BY <1>3 DEF Dispatch, Begun, RunsInv, Gone
  <2>6. Begun' = Begun \cup {t} BY <1>3 DEF Dispatch, Begun, TypeOK
  <2>7. Pool!Urgent({t}) BY <1>3, <1>a DEF Dispatch, Urgent, Pool!Urgent
  <2>8. Pool!Cardinality(Pool!At("slot")) < MaxConcurrent
    <3>1. Pool!Cardinality(slots) = Cardinality(slots)
      BY Zenon DEF Pool!Cardinality, Cardinality
    <3> QED BY <1>3, <1>a, <3>1 DEF Dispatch
  <2>9. UNCHANGED revived BY <1>3 DEF Dispatch
  <2> QED BY <2>2, <2>3, <2>4, <2>5, <2>6, <2>7, <2>8, <2>9 DEF Pool!Begin
<1>4. ASSUME NEW t \in Tasks, Start(t) PROVE UNCHANGED Pool!vars
  BY <1>4 DEF Start, Pool!vars, Place, Begun, disk
<1>5. ASSUME NEW t \in Tasks, Finish(t) PROVE Pool!Finish(t)
  <2>1. t \in accepted /\ t \notin queue \cup batch
    BY <1>5 DEF Finish, Places, Accounted, Nowhere
  <2>2. Place' = [u \in Tasks |-> IF u \in {t} THEN "past" ELSE Place[u]]
    BY <1>5, <2>1 DEF Finish, Place
  <2>3. Pool!Move({t}, "past") BY <2>2, Moves
  <2>4. Place[t] \in {"slot", "direct"} BY <1>5, <2>1 DEF Finish, Place
  <2>5. UNCHANGED <<Begun, revived, unsaved, stale>> BY <1>5 DEF Finish, Begun, disk
  <2> QED BY <2>3, <2>4, <2>5 DEF Pool!Finish
<1>6. ASSUME NEW t \in Tasks, RemoteEnqueues(t) PROVE UNCHANGED Pool!vars
  BY <1>6 DEF RemoteEnqueues, Pool!vars, Place, Begun, disk
<1>7. ASSUME NEW S \in SUBSET Tasks, TakeBatch(S) PROVE Pool!Send(S)
  <2>1. Place' = [u \in Tasks |-> IF u \in S THEN "away" ELSE Place[u]]
    BY <1>7 DEF TakeBatch, Place, Places, Accounted
  <2>2. Pool!Move(S, "away") BY <2>1, Moves
  <2>3. batch = {} BY <1>7 DEF TakeBatch, Places
  <2>4. Pool!Urgent(S) BY <1>7, <1>a DEF TakeBatch, Urgent, Pool!Urgent
  <2>5. UNCHANGED <<Begun, revived, stale>> /\ unsaved' = unsaved \ S
    BY <1>7 DEF TakeBatch, Begun
  <2>6. S \subseteq Pool!At("waiting") /\ Pool!At("away") = {}
    BY <1>7, <1>a, <2>3 DEF TakeBatch
  <2> QED BY <2>2, <2>4, <2>5, <2>6 DEF Pool!Send
<1>8. ASSUME PushBack PROVE Pool!TakeBack
  <2>1. Place' = [u \in Tasks |-> IF u \in batch THEN "waiting" ELSE Place[u]]
    BY <1>8 DEF PushBack, Place, Places, Accounted, TypeOK
  <2>2. Pool!Move(batch, "waiting") BY <2>1, Moves DEF TypeOK
  <2>3. UNCHANGED <<Begun, revived, stale>> /\ unsaved' = unsaved \cup batch
    BY <1>8 DEF PushBack, Begun
  <2> QED BY <1>a, <2>2, <2>3 DEF Pool!TakeBack
<1>9. ASSUME HandOver PROVE Pool!GiveUp
  <2>1. Place' = [u \in Tasks |-> IF u \in batch THEN "past" ELSE Place[u]]
    BY <1>9 DEF HandOver, Place, Places, Accounted, Nowhere, TypeOK
  <2>2. Pool!Move(batch, "past") BY <2>1, Moves DEF TypeOK
  <2>3. UNCHANGED <<Begun, revived, unsaved, stale>> BY <1>9 DEF HandOver, Begun, disk
  <2> QED BY <1>a, <2>2, <2>3 DEF Pool!GiveUp
<1>10. ASSUME SendFails PROVE UNCHANGED Pool!vars
  BY <1>10 DEF SendFails, Pool!vars, Place, Begun, disk
<1>11. ASSUME End PROVE \E kept \in SUBSET Tasks : Pool!Restart(kept)
  <2>1. PICK kept \in SUBSET Tasks : (kept = file \/ kept = {}) /\ Restart(kept)
    BY <1>11 DEF End, TypeOK
  <2>2. kept \subseteq accepted BY <2>1 DEF Places, Nowhere, TypeOK
  <2>3. kept = {} \/ stale \/ Pool!At("waiting") \ unsaved \subseteq kept
    BY <1>a, <2>1 DEF OnDisk
  <2>4. Place' = [t \in Tasks |-> IF t \in kept THEN "waiting"
                                  ELSE IF Place[t] = "new" THEN "new" ELSE "past"]
    BY <1>a, <2>1, <2>2 DEF Restart, Place
  <2>5. kept \cap Pool!At("new") = {} BY <1>a, <2>2 DEF Pool!At
  <2>6. IF stale THEN revived \subseteq revived' /\ revived' \subseteq Tasks
                 ELSE UNCHANGED revived
    BY <2>1 DEF Restart, TypeOK
  <2>7. kept \cap Begun \subseteq revived'
    BY <2>1 DEF Restart, Begun, RunsInv, Gone, TypeOK
  <2>8. unsaved' = kept /\ stale' = FALSE /\ UNCHANGED Begun
    BY <2>1 DEF Restart, Begun
  <2> QED BY <2>3, <2>4, <2>5, <2>6, <2>7, <2>8 DEF Pool!Restart
<1>12. ASSUME UNCHANGED vars PROVE UNCHANGED Pool!vars
  BY <1>12 DEF vars, disk, Pool!vars, Place, Begun
<1> QED
  BY <1>1, <1>2, <1>3, <1>4, <1>5, <1>6, <1>7, <1>8, <1>9, <1>10, <1>11, <1>12
  DEF Next, Answered, SendTimesOut, Recovered, Pool!Next

\* Whatever is submitted, sent, answered or forgotten, and wherever a process
\* ends, the runner is a pool of tasks: the most urgent first, within the limit,
\* none begun twice and none that waits forgotten.
THEOREM ImplementsPool == Spec => ActsAsPool
<1>1. Init => Pool!Init
  BY DEF Init, Pool!Init, Place, Begun
<1>2. Init => OnDisk BY DEF Init, OnDisk
<1> QED
  BY <1>1, <1>2, TypeInit, TypeStep, PlacesInit, PlacesStep, RunsInit, RunsStep,
     DiskStep, PoolStep, PTL DEF Spec, ActsAsPool, Pool!Spec, PoolInv

=============================================================================
