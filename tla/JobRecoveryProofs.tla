------------------------- MODULE JobRecoveryProofs -------------------------
(***************************************************************************)
(* What holds of the recovery for any workers, jobs, requests and crashes: *)
(* types, the durability of acknowledged jobs, and, through the theorems   *)
(* about the lock, that leases do not recover together.                    *)
(***************************************************************************)
EXTENDS JobRecovery, TLAPS

Proved == INSTANCE DistributedLockProofs
             WITH Procs <- Workers, MaxRetries <- 1, pc <- lockPc

----------------------------------------------------------------------------
(* Types *)

\* A request under way is for a job.
RequestsJobs == \A w \in Workers : req[w].op # "idle" => req[w].job \in Jobs

TypeInv == TypeOK /\ RequestsJobs

\* What a save can leave in the table is typed like the table.
LEMMA SavesTyped ==
    ASSUME TypeInv, NEW w \in Workers, req[w].op # "idle"
    PROVE  Saves(w, req[w].job) \subseteq [Jobs -> Status \cup {"none"}]
<1> USE DEF TypeInv, TypeOK, RequestsJobs
<1>1. req[w].job \in Jobs /\ req[w].status \in Status \cup {"none"}
  OBVIOUS
<1>2. mem[w][req[w].job] \in Status \cup {"none"}
  BY <1>1
<1>3. \A s \in Status \cup {"none"} :
          [row EXCEPT ![req[w].job] = s] \in [Jobs -> Status \cup {"none"}]
  OBVIOUS
<1>4. ASSUME NEW r \in Saves(w, req[w].job)
      PROVE  \/ r = row
             \/ r = [row EXCEPT ![req[w].job] = req[w].status]
             \/ r = [row EXCEPT ![req[w].job] = mem[w][req[w].job]]
  BY <1>4, Zenon DEF Saves
<1> DEFINE T == [Jobs -> Status \cup {"none"}]
<1>5. row \in T
  OBVIOUS
<1>6. [row EXCEPT ![req[w].job] = req[w].status] \in T
  BY <1>1, <1>3
<1>7. [row EXCEPT ![req[w].job] = mem[w][req[w].job]] \in T
  BY <1>2, <1>3
<1> HIDE DEF T
<1>8. ASSUME NEW r \in Saves(w, req[w].job)
      PROVE  r \in T
  BY <1>4, <1>5, <1>6, <1>7, <1>8
<1> QED
  BY <1>8 DEF T

\* What is put into the memory of a worker is typed like it.
LEMMA RememberTyped ==
    ASSUME TypeInv, NEW w \in Workers, NEW j, NEW s \in Status \cup {"none"},
           Remember(w, j, s)
    PROVE  mem' \in [Workers -> [Jobs -> Status \cup {"none"}]]
<1>1. mem[w] \in [Jobs -> Status \cup {"none"}]
  BY DEF TypeInv, TypeOK
<1>2. [mem[w] EXCEPT ![j] = s] \in [Jobs -> Status \cup {"none"}]
  BY <1>1
<1> QED
  BY <1>2 DEF TypeInv, TypeOK, Remember

LEMMA InitTyped == Init => TypeInv
  BY RecoveryAssumption DEF RecoveryAssumption, Init, TypeInv, TypeOK, RequestsJobs, Idle

LEMMA TypeStep == TypeInv /\ [Next]_vars => TypeInv'
<1> SUFFICES ASSUME TypeInv, [Next]_vars
             PROVE  TypeInv'
  OBVIOUS
<1> USE RecoveryAssumption
    DEF RecoveryAssumption, TypeInv, TypeOK, RequestsJobs, Counted, Wait, Answer,
        Idle, history, recVars
<1>1. ASSUME NEW w \in Workers, NEW j \in Jobs, Create(w, j)
      PROVE  TypeInv'
  BY <1>1, RememberTyped DEF Create, Status, Transient
<1>2. ASSUME NEW w \in Workers, CreateEnd(w)
      PROVE  TypeInv'
  <2>1. row' \in [Jobs -> Status \cup {"none"}]
    BY <1>2, SavesTyped DEF CreateEnd
  <2>2. mem' \in [Workers -> [Jobs -> Status \cup {"none"}]]
    BY <1>2, RememberTyped DEF CreateEnd
  <2>3. acked' \subseteq Jobs
    BY <1>2 DEF CreateEnd
  <2> QED
    BY <1>2, <2>1, <2>2, <2>3 DEF CreateEnd
<1>3. ASSUME NEW w \in Workers, NEW j \in Jobs, Load(w, j)
      PROVE  TypeInv'
  BY <1>3 DEF Load
<1>4. ASSUME NEW w \in Workers, LoadEnd(w)
      PROVE  TypeInv'
  BY <1>4, RememberTyped DEF LoadEnd
<1>5. ASSUME NEW w \in Workers, NEW j \in Jobs, Upload(w, j)
      PROVE  TypeInv'
  BY <1>5, RememberTyped DEF Upload, Status, Transient
<1>6. ASSUME NEW w \in Workers, NEW j \in Jobs, NEW s \in Outcomes, Finish(w, j, s)
      PROVE  TypeInv'
  BY <1>6, RememberTyped DEF Finish, Status, Transient
<1>7. ASSUME NEW w \in Workers, NEW j \in Jobs, Respond(w, j)
      PROVE  TypeInv'
  BY <1>7, RememberTyped DEF Respond, Status, Transient
<1>8. ASSUME NEW w \in Workers, NEW j \in Jobs, Cancel(w, j)
      PROVE  TypeInv'
  BY <1>8, RememberTyped DEF Cancel, Status
<1>9. ASSUME NEW w \in Workers, SaveEnd(w)
      PROVE  TypeInv'
  <2>1. row' \in [Jobs -> Status \cup {"none"}]
    <3>1. req[w].op # "idle" /\ row' \in Saves(w, req[w].job)
      BY <1>9 DEF SaveEnd
    <3> QED
      BY <3>1, SavesTyped
  <2>2. live' \in [Workers -> SUBSET Jobs]
    <3>1. req[w].job \in Jobs
      BY <1>9 DEF SaveEnd
    <3>2. live[w] \cup {req[w].job} \in SUBSET Jobs
      BY <3>1
    <3>3. [live EXCEPT ![w] = @ \cup {req[w].job}] \in [Workers -> SUBSET Jobs]
      BY <3>2
    <3> QED
      BY <1>9, <3>3 DEF SaveEnd
  <2> QED
    BY <1>9, <2>1, <2>2 DEF SaveEnd
<1>10. ASSUME NEW w \in Workers, NEW j \in Jobs, Delete(w, j)
       PROVE  TypeInv'
  BY <1>10 DEF Delete
<1>11. ASSUME NEW w \in Workers, DeleteRow(w)
       PROVE  TypeInv'
  <2>1. row' \in [Jobs -> Status \cup {"none"}]
    <3>1. [row EXCEPT ![req[w].job] = "none"] \in [Jobs -> Status \cup {"none"}]
      OBVIOUS
    <3>2. row' = row \/ row' = [row EXCEPT ![req[w].job] = "none"]
      BY <1>11, Zenon DEF DeleteRow
    <3> QED
      BY <3>1, <3>2
  <2>2. req[w].job \in Jobs
    BY <1>11 DEF DeleteRow
  <2>3. req' \in [Workers -> [op : {"idle", "create", "load", "save", "delete", "forget"},
                              job : Jobs \cup {NoJob}, status : Status \cup {"none"}]]
    <3>1. [req[w] EXCEPT !.op = "forget"] \in
              [op : {"idle", "create", "load", "save", "delete", "forget"},
               job : Jobs \cup {NoJob}, status : Status \cup {"none"}]
      <4>1. req[w] \in [op : {"idle", "create", "load", "save", "delete", "forget"},
                       job : Jobs \cup {NoJob}, status : Status \cup {"none"}]
        OBVIOUS
      <4> HIDE DEF TypeInv, TypeOK, RequestsJobs
      <4> QED
        BY <4>1
    <3> QED
      BY <1>11, <3>1 DEF DeleteRow
  <2>4. RequestsJobs'
    BY <1>11, <2>2 DEF DeleteRow
  <2> QED
    BY <1>11, <2>1, <2>3, <2>4 DEF DeleteRow
<1>12. ASSUME NEW w \in Workers, DeleteEnd(w)
       PROVE  TypeInv'
  BY <1>12, RememberTyped DEF DeleteEnd
<1>13. ASSUME NEW w \in Workers, AskLock(w) \/ Locking(w) \/ EndRecovery(w) \/ Probe(w)
       PROVE  TypeInv'
  BY <1>13 DEF AskLock, Locking, AfterLock, EndRecovery, Probe, At, Goto, jobVars
<1>14. ASSUME NEW w \in Workers, Query(w)
       PROVE  TypeInv'
  <2>1. {j \in Jobs : row[j] # "none"} \in SUBSET Jobs
    OBVIOUS
  <2>2. todo' \in [Workers -> SUBSET Jobs]
    <3>1. [todo EXCEPT ![w] = {j \in Jobs : row[j] # "none"}] \in [Workers -> SUBSET Jobs]
      BY <2>1
    <3> QED
      BY <1>14, <3>1 DEF Query
  <2>3. RequestsJobs'
    BY <1>14 DEF Query, jobVars
  <2> QED
    BY <1>14, <2>2, <2>3 DEF Query, At, Goto, jobVars
<1>15. ASSUME NEW w \in Workers, NEW j \in Jobs, NextJob(w, j)
       PROVE  TypeInv'
  <2>1. todo' \in [Workers -> SUBSET Jobs]
    <3>1. todo[w] \ {j} \in SUBSET Jobs
      OBVIOUS
    <3> QED
      BY <1>15, <3>1 DEF NextJob
  <2>2. cur' \in [Workers -> Jobs \cup {NoJob}] /\ snap' \in [Workers -> Status \cup {"none"}]
    <3>1. row[j] \in Status \cup {"none"}
      OBVIOUS
    <3>2. /\ [cur EXCEPT ![w] = j] \in [Workers -> Jobs \cup {NoJob}]
          /\ [snap EXCEPT ![w] = row[j]] \in [Workers -> Status \cup {"none"}]
      <4>1. /\ cur \in [Workers -> Jobs \cup {NoJob}]
            /\ snap \in [Workers -> Status \cup {"none"}]
        OBVIOUS
      <4> HIDE DEF TypeInv, TypeOK, RequestsJobs
      <4> QED
        BY <3>1, <4>1
    <3>3. (cur' = [cur EXCEPT ![w] = j] /\ snap' = [snap EXCEPT ![w] = row[j]])
          \/ UNCHANGED <<cur, snap>>
      BY <1>15 DEF NextJob
    <3> QED
      BY <3>2, <3>3
  <2>3. RequestsJobs'
    BY <1>15 DEF NextJob, jobVars
  <2> QED
    BY <1>15, <2>1, <2>2, <2>3 DEF NextJob, At, Goto, jobVars
<1>16. ASSUME NEW w \in Workers, Verify(w)
       PROVE  TypeInv'
  BY <1>16 DEF Verify, Verdict, Status, Transient, At, Goto, jobVars
<1>17. ASSUME NEW w \in Workers, SaveFailed(w) \/ AddJob(w)
       PROVE  TypeInv'
  BY <1>17, RememberTyped DEF SaveFailed, AddJob, At, Goto
<1>18. ASSUME NEW w \in Workers, Crash(w)
       PROVE  TypeInv'
  BY <1>18 DEF Crash
<1>19. CASE Redis
  BY <1>19 DEF Redis, jobVars
<1>20. CASE UNCHANGED vars
  BY <1>20 DEF vars, jobVars
<1> QED
  BY <1>1, <1>2, <1>3, <1>4, <1>5, <1>6, <1>7, <1>8, <1>9, <1>10, <1>11, <1>12, <1>13,
     <1>14, <1>15, <1>16, <1>17, <1>18, <1>19, <1>20 DEF Next, Request, Serve, Recover

\* The state of the workers, of the table and of the recovery is well typed.
THEOREM TypeCorrect == Spec => []TypeOK
<1>1. TypeInv => TypeOK
  BY DEF TypeInv
<1> QED
  BY <1>1, InitTyped, TypeStep, PTL DEF Spec

----------------------------------------------------------------------------
(* Durability of acknowledged jobs *)

\* Only a deletion that was asked for works towards removing a row, and what
\* the requests and the recovery are about to save is a status.
DeletesAsked == \A w \in Workers : req[w].op \in {"delete", "forget"}
                                       => deletion[req[w].job] # "no"
SavesStatus == \A w \in Workers :
                  /\ req[w].op \in {"create", "save"} => req[w].status # "none"
                  /\ rec[w] \in {"loaded", "saving"} => snap[w] # "none"

DurableInv == DeletesAsked /\ SavesStatus /\ CreatedIsDurable

\* A save never empties a row.
LEMMA SavesKeep ==
    ASSUME TypeInv, SavesStatus, NEW w \in Workers, req[w].op \in {"create", "save"},
           NEW r \in Saves(w, req[w].job), NEW j \in Jobs, row[j] # "none"
    PROVE  r[j] # "none"
  BY DEF TypeInv, TypeOK, SavesStatus, Saves

LEMMA DurableStep == TypeInv /\ DurableInv /\ [Next]_vars => DurableInv'
<1> SUFFICES ASSUME TypeInv, DurableInv, [Next]_vars
             PROVE  DurableInv'
  OBVIOUS
<1> USE DEF DurableInv, DeletesAsked, SavesStatus, CreatedIsDurable, TypeInv, TypeOK,
        RequestsJobs, Wait, Answer, Idle, history, recVars
<1>1. ASSUME NEW w \in Workers, NEW j \in Jobs, Create(w, j) \/ Load(w, j) \/ Respond(w, j)
             \/ Cancel(w, j)
      PROVE  DurableInv'
  <2>1. PICK r \in {"create", "load", "save"}, s \in Status \cup {"none"} :
            /\ r # "load" => s # "none"
            /\ req' = [req EXCEPT ![w] = [op |-> r, job |-> j, status |-> s]]
    BY <1>1 DEF Create, Load, Respond, Cancel, Status, Transient
  <2>2. UNCHANGED <<row, rec, snap, acked, deletion>>
    BY <1>1 DEF Create, Load, Respond, Cancel
  <2>3. DeletesAsked'
    BY <2>1, <2>2
  <2>4. SavesStatus'
    BY <2>1, <2>2
  <2> QED
    BY <2>2, <2>3, <2>4
<1>2. ASSUME NEW w \in Workers, CreateEnd(w)
      PROVE  DurableInv'
  <2>1. DeletesAsked' /\ SavesStatus'
    BY <1>2 DEF CreateEnd
  <2>2. \A j \in Jobs : row[j] # "none" => row'[j] # "none"
    BY <1>2, SavesKeep DEF CreateEnd
  <2>3. CreatedIsDurable'
    BY <1>2, <2>2 DEF CreateEnd
  <2> QED
    BY <2>1, <2>3
<1>3. ASSUME NEW w \in Workers, LoadEnd(w)
      PROVE  DurableInv'
  BY <1>3 DEF LoadEnd
<1>4. ASSUME NEW w \in Workers, NEW j \in Jobs, Upload(w, j)
      PROVE  DurableInv'
  BY <1>4 DEF Upload
<1>5. ASSUME NEW w \in Workers, NEW j \in Jobs, NEW s \in Outcomes, Finish(w, j, s)
      PROVE  DurableInv'
  BY <1>5 DEF Finish
<1>6. ASSUME NEW w \in Workers, SaveEnd(w)
      PROVE  DurableInv'
  <2>1. DeletesAsked' /\ SavesStatus'
    BY <1>6 DEF SaveEnd
  <2>2. \A j \in Jobs : row[j] # "none" => row'[j] # "none"
    BY <1>6, SavesKeep DEF SaveEnd
  <2>3. CreatedIsDurable'
    BY <1>6, <2>2 DEF SaveEnd
  <2> QED
    BY <2>1, <2>3
<1>7. ASSUME NEW w \in Workers, NEW j \in Jobs, Delete(w, j)
      PROVE  DurableInv'
  <2>1. UNCHANGED <<row, rec, snap, acked>>
    BY <1>7 DEF Delete
  <2>2. \A i \in Jobs : deletion'[i] = "no" => deletion[i] = "no"
    BY <1>7 DEF Delete
  <2>3. DeletesAsked'
    BY <1>7 DEF Delete
  <2>4. SavesStatus'
    BY <1>7, <2>1 DEF Delete
  <2> QED
    BY <2>1, <2>2, <2>3, <2>4
<1>8. ASSUME NEW w \in Workers, DeleteRow(w) \/ DeleteEnd(w)
      PROVE  DurableInv'
  <2>0. /\ \A v \in Workers : v # w => req'[v] = req[v]
        /\ req'[w].op \in {"forget", "idle"}
        /\ req'[w].op = "forget" => req'[w].job = req[w].job /\ req[w].op = "delete"
        /\ \A j : deletion[j] # "no" /\ j \in Jobs => deletion'[j] # "no"
        /\ UNCHANGED <<rec, snap>>
    BY <1>8 DEF DeleteRow, DeleteEnd
  <2>1. DeletesAsked'
    BY <2>0
  <2>2. SavesStatus'
    BY <2>0
  <2>3. CASE DeleteRow(w)
    <3>1. req[w].job \in Jobs /\ deletion[req[w].job] # "no"
      BY <2>3 DEF DeleteRow
    <3>2. row' = row \/ row' = [row EXCEPT ![req[w].job] = "none"]
      BY <2>3, Zenon DEF DeleteRow
    <3>3. UNCHANGED <<acked, deletion>>
      BY <2>3 DEF DeleteRow
    <3> QED
      BY <2>1, <2>2, <3>1, <3>2, <3>3
  <2>4. CASE DeleteEnd(w)
    <3>1. UNCHANGED <<row, acked>>
      BY <2>4 DEF DeleteEnd
    <3>2. \A i \in Jobs : deletion'[i] = "no" => deletion[i] = "no"
      BY <2>4 DEF DeleteEnd
    <3> QED
      BY <2>1, <2>2, <3>1, <3>2
  <2> QED
    BY <1>8, <2>3, <2>4
<1>9. ASSUME NEW w \in Workers, AskLock(w) \/ Locking(w) \/ EndRecovery(w) \/ Probe(w)
      PROVE  DurableInv'
  <2>1. UNCHANGED <<row, req, snap, acked, deletion>>
    BY <1>9 DEF AskLock, Locking, EndRecovery, Probe, jobVars
  <2>2. \A v \in Workers : rec'[v] = rec[v] \/ rec'[v] \notin {"loaded", "saving"}
    BY <1>9 DEF AskLock, Locking, AfterLock, EndRecovery, Probe, Goto
  <2> QED
    BY <2>1, <2>2
<1>10. ASSUME NEW w \in Workers, Query(w)
       PROVE  DurableInv'
  <2>1. UNCHANGED <<row, req, snap, acked, deletion>>
    BY <1>10 DEF Query, jobVars
  <2>2. \A v \in Workers : rec'[v] = rec[v] \/ rec'[v] = "scan"
    BY <1>10 DEF Query, Goto
  <2> QED
    BY <2>1, <2>2
<1>11. ASSUME NEW w \in Workers, NEW j \in Jobs, NextJob(w, j)
       PROVE  DurableInv'
  <2>1. UNCHANGED <<row, req, acked, deletion>>
    BY <1>11 DEF NextJob, jobVars
  <2>2. SavesStatus'
    <3>1. \A v \in Workers : v # w => rec'[v] = rec[v] /\ snap'[v] = snap[v]
      BY <1>11 DEF NextJob, Goto
    <3>2. rec'[w] = "loaded" => snap'[w] # "none"
      BY <1>11 DEF NextJob, At, Goto
    <3>3. rec'[w] \in {"scan", "loaded"}
      BY <1>11 DEF NextJob, At, Goto
    <3> QED
      BY <2>1, <3>1, <3>2, <3>3
  <2> QED
    BY <2>1, <2>2
<1>12. ASSUME NEW w \in Workers, Verify(w)
       PROVE  DurableInv'
  BY <1>12 DEF Verify, Verdict, At, Goto, jobVars
<1>13. ASSUME NEW w \in Workers, SaveFailed(w) \/ AddJob(w)
       PROVE  DurableInv'
  <2>1. UNCHANGED <<req, acked, deletion>>
    BY <1>13 DEF SaveFailed, AddJob
  <2>2. \A v \in Workers : rec'[v] \in {"loaded", "saving"}
            => rec'[v] = rec[v] /\ snap'[v] = snap[v]
    BY <1>13 DEF SaveFailed, AddJob, At, Goto
  <2>3. \A j \in Jobs : row[j] # "none" => row'[j] # "none"
    <3>1. CASE SaveFailed(w)
      <4>1. snap[w] # "none"
        BY <3>1 DEF SaveFailed, At
      <4>2. row' = row \/ row' = [row EXCEPT ![cur[w]] = snap[w]]
        BY <3>1, Zenon DEF SaveFailed
      <4> QED
        BY <4>1, <4>2
    <3>2. CASE AddJob(w)
      BY <3>2 DEF AddJob
    <3> QED
      BY <1>13, <3>1, <3>2
  <2> QED
    BY <2>1, <2>2, <2>3
<1>14. ASSUME NEW w \in Workers, Crash(w)
       PROVE  DurableInv'
  BY <1>14 DEF Crash
<1>15. CASE Redis \/ UNCHANGED vars
  BY <1>15 DEF Redis, vars, jobVars
<1> QED
  BY <1>1, <1>2, <1>3, <1>4, <1>5, <1>6, <1>7, <1>8, <1>9, <1>10, <1>11, <1>12, <1>13,
     <1>14, <1>15 DEF Next, Request, Serve, Recover

\* A job whose creation was answered 201 keeps its row until its deletion is
\* asked for, whatever crashes, lost commits, retries and recoveries there are.
THEOREM AcknowledgedDurable == Spec => []CreatedIsDurable
<1>1. Init => DurableInv
  BY DEF Init, DurableInv, DeletesAsked, SavesStatus, CreatedIsDurable, Idle
<1>2. DurableInv => CreatedIsDurable
  BY DEF DurableInv
<1> QED
  BY <1>1, <1>2, InitTyped, TypeStep, DurableStep, PTL DEF Spec

----------------------------------------------------------------------------
(* The lock as the recovery uses it *)

\* Every step of the startup is a step of the lock or leaves it alone.
LEMMA LockStep == [Next]_vars => [Lock!Next]_(Lock!vars)
<1> SUFFICES ASSUME [Next]_vars
             PROVE  Lock!Next \/ UNCHANGED Lock!vars
  OBVIOUS
<1> USE DEF lockVars, Lock!vars
<1>1. ASSUME NEW w \in Workers, Request(w) \/ Serve(w)
      PROVE  UNCHANGED Lock!vars
  BY <1>1 DEF Request, Serve, Create, Load, Upload, Respond, Cancel, Delete, CreateEnd,
              LoadEnd, SaveEnd, DeleteRow, DeleteEnd, Finish
<1>2. ASSUME NEW w \in Workers, AskLock(w) \/ Locking(w) \/ EndRecovery(w) \/ Probe(w)
      PROVE  Lock!Step(w)
  BY <1>2 DEF AskLock, Locking, EndRecovery, Probe, Lock!Step
<1>3. ASSUME NEW w \in Workers,
             Query(w) \/ (\E j \in Jobs : NextJob(w, j)) \/ Verify(w) \/ SaveFailed(w) \/ AddJob(w)
      PROVE  UNCHANGED Lock!vars
  BY <1>3 DEF Query, NextJob, Verify, SaveFailed, AddJob
<1>4. ASSUME NEW w \in Workers, Crash(w)
      PROVE  Lock!Crash(w)
  BY <1>4 DEF Crash
<1>5. CASE Redis
  BY <1>5 DEF Redis, Lock!Next
<1>6. CASE UNCHANGED vars
  BY <1>6 DEF vars
<1> QED
  BY <1>1, <1>2, <1>3, <1>4, <1>5, <1>6 DEF Next, Recover, Lock!Next

\* The startup of the workers implements the lock's specification.
THEOREM UsesLock == Spec => LockKept
<1>1. Init => Lock!Init
  BY DEF Init
<1> QED
  BY <1>1, LockStep, PTL DEF Spec, LockKept, Lock!Spec

\* The instance that carries the lock's theorems is the one the model uses.
LEMMA SameLock == /\ Lock!Init => Proved!Init
                  /\ [Lock!Next]_(Lock!vars) => [Proved!Next]_(Proved!vars)
<1>1. Lock!Init => Proved!Init
  BY DEF Lock!Init, Proved!Init
<1>2. Lock!Next => Proved!Next
  BY DEF Lock!Next, Lock!Step, Lock!Acquire, Lock!Connect, Lock!EnterAlone, Lock!SetWins,
         Lock!SetLoses, Lock!SetRaises, Lock!Retry, Lock!Release, Lock!Inside, Lock!Crash,
         Lock!Expire, Lock!RedisFlips, Proved!Next, Proved!Step, Proved!Acquire,
         Proved!Connect, Proved!EnterAlone, Proved!SetWins, Proved!SetLoses,
         Proved!SetRaises, Proved!Retry, Proved!Release, Proved!Inside, Proved!Crash,
         Proved!Expire, Proved!RedisFlips
<1>3. UNCHANGED Lock!vars => UNCHANGED Proved!vars
  BY DEF Lock!vars, Proved!vars
<1> QED
  BY <1>1, <1>2, <1>3

\* Whoever recovers is inside the lock.
RecoversInside == /\ lockPc \in [Workers -> {"idle", "ping", "set", "inside"}]
                  /\ \A w \in Workers : Recovering(w) => lockPc[w] = "inside"

LEMMA InsideStep == TypeInv /\ RecoversInside /\ [Next]_vars => RecoversInside'
<1> SUFFICES ASSUME TypeInv, RecoversInside, [Next]_vars
             PROVE  RecoversInside'
  OBVIOUS
<1> DEFINE Places == {"boot", "locking", "query", "scan", "loaded", "saving", "adding",
                      "probe", "probing", "done"}
<1>0. rec \in [Workers -> Places]
  BY DEF TypeInv, TypeOK
<1> USE DEF RecoversInside, Recovering, At, Goto, lockVars, recVars
<1>1. ASSUME NEW w \in Workers, Request(w) \/ Serve(w)
      PROVE  RecoversInside'
  BY <1>0, <1>1 DEF Request, Serve, Create, Load, Upload, Respond, Cancel, Delete, CreateEnd,
              LoadEnd, SaveEnd, DeleteRow, DeleteEnd, Finish
<1>2. ASSUME NEW w \in Workers, AskLock(w)
      PROVE  RecoversInside'
  BY <1>0, <1>2 DEF AskLock, Lock!Acquire
<1>3. ASSUME NEW w \in Workers, Locking(w)
      PROVE  RecoversInside'
  BY <1>0, <1>3 DEF Locking, AfterLock, Lock!Connect, Lock!EnterAlone, Lock!SetWins,
              Lock!SetLoses, Lock!SetRaises, Lock!Retry
<1>4. ASSUME NEW w \in Workers, Query(w) \/ (\E j \in Jobs : NextJob(w, j)) \/ Verify(w)
      PROVE  RecoversInside'
  BY <1>0, <1>4 DEF Query, NextJob, Verify
<1>5. ASSUME NEW w \in Workers, SaveFailed(w) \/ AddJob(w)
      PROVE  RecoversInside'
  BY <1>0, <1>5 DEF SaveFailed, AddJob
<1>6. ASSUME NEW w \in Workers, EndRecovery(w)
      PROVE  RecoversInside'
  BY <1>0, <1>6 DEF EndRecovery, Lock!Release
<1>7. ASSUME NEW w \in Workers, Probe(w)
      PROVE  RecoversInside'
  BY <1>0, <1>7 DEF Probe, Lock!Acquire, Lock!Connect, Lock!EnterAlone, Lock!SetWins,
              Lock!SetLoses, Lock!SetRaises, Lock!Retry, Lock!Release
<1>8. ASSUME NEW w \in Workers, Crash(w)
      PROVE  RecoversInside'
  BY <1>0, <1>8 DEF Crash, Lock!Crash
<1>9. CASE Redis
  BY <1>0, <1>9 DEF Redis, Lock!Expire, Lock!RedisFlips
<1>10. CASE UNCHANGED vars
  BY <1>0, <1>10 DEF vars
<1> QED
  BY <1>1, <1>2, <1>3, <1>4, <1>5, <1>6, <1>7, <1>8, <1>9, <1>10 DEF Next, Recover

\* Two workers that got the lock from Redis and are within their lease never
\* recover the table together.
THEOREM LeasesRecoverAlone == Spec => []RecoveryExclusive
<1>1. Init => RecoversInside
  BY DEF Init, RecoversInside, Recovering, Lock!Init
<1>2. Proved!LockAssumption
  BY RecoveryAssumption DEF RecoveryAssumption, Proved!LockAssumption
<1>3. Proved!Spec => []Proved!ExclusionUnderLease
  BY <1>2, Proved!LeasesExclude, PTL
<1>4. Init => Proved!Init
  BY SameLock DEF Init
<1>5. [Next]_vars => [Proved!Next]_(Proved!vars)
  BY SameLock, LockStep
<1>6. RecoversInside /\ Proved!ExclusionUnderLease => RecoveryExclusive
  BY DEF RecoversInside, Proved!ExclusionUnderLease, Proved!Inside, RecoveryExclusive
<1> QED
  BY <1>1, <1>3, <1>4, <1>5, <1>6, InitTyped, TypeStep, InsideStep, PTL
     DEF Spec, Proved!Spec

\* To the startups the lock is a lease, through two refinements: they use the
\* lock as its module says, and what that module says is a lease.
THEOREM StartsUnderLease == Spec => Proved!ActsAsLease
<1>1. Proved!LockAssumption
  BY RecoveryAssumption DEF RecoveryAssumption, Proved!LockAssumption
<1>2. Proved!Spec => Proved!ActsAsLease
  BY <1>1, Proved!ImplementsLease
<1>3. Init => Proved!Init
  BY SameLock DEF Init
<1>4. [Next]_vars => [Proved!Next]_(Proved!vars)
  BY SameLock, LockStep
<1> QED
  BY <1>2, <1>3, <1>4, PTL DEF Spec, Proved!Spec

----------------------------------------------------------------------------
(* What the recovery brings back *)

Places == {"boot", "locking", "query", "scan", "loaded", "saving", "adding",
           "probe", "probing", "done"}

\* From the verdict on, the job under recovery has one that settles it.
Judged ==
    \A w \in Workers :
        /\ rec[w] \in {"loaded", "saving", "adding"} => cur[w] \in Jobs
        /\ rec[w] \in {"saving", "adding"} => snap[w] \notin Transient

\* Another worker's steps, and the lock's, leave the recovery of w where it is.
LEMMA JudgedStep == TypeInv /\ Judged /\ [Next]_vars => Judged'
<1> SUFFICES ASSUME TypeInv, Judged, [Next]_vars
             PROVE  Judged'
  OBVIOUS
<1>0. /\ rec \in [Workers -> Places] /\ cur \in [Workers -> Jobs \cup {NoJob}]
      /\ snap \in [Workers -> Status \cup {"none"}]
  BY DEF TypeInv, TypeOK, Places
<1> USE DEF Judged, At, Goto, recVars
<1>1. ASSUME NEW w \in Workers, Request(w) \/ Serve(w)
      PROVE  Judged'
  BY <1>0, <1>1 DEF Request, Serve, Create, Load, Upload, Respond, Cancel, Delete, CreateEnd,
              LoadEnd, SaveEnd, DeleteRow, DeleteEnd, Finish
<1>2. ASSUME NEW w \in Workers, AskLock(w) \/ Locking(w)
      PROVE  Judged'
  BY <1>0, <1>2 DEF AskLock, Locking, AfterLock
<1>3. ASSUME NEW w \in Workers, Query(w) \/ EndRecovery(w) \/ Probe(w)
      PROVE  Judged'
  BY <1>0, <1>3 DEF Query, EndRecovery, Probe
<1>4. ASSUME NEW w \in Workers, NEW j \in Jobs, NextJob(w, j)
      PROVE  Judged'
  BY <1>0, <1>4 DEF NextJob
<1>5. ASSUME NEW w \in Workers, Verify(w)
      PROVE  Judged'
  <2>1. Verdict(snap[w]) \notin Transient
    BY DEF Verdict, Transient
  <2> QED
    BY <1>0, <1>5, <2>1 DEF Verify
<1>6. ASSUME NEW w \in Workers, SaveFailed(w) \/ AddJob(w)
      PROVE  Judged'
  BY <1>0, <1>6 DEF SaveFailed, AddJob
<1>7. ASSUME NEW w \in Workers, Crash(w)
      PROVE  Judged'
  BY <1>0, <1>7 DEF Crash
<1>8. CASE Redis
  BY <1>0, <1>8 DEF Redis
<1>9. CASE UNCHANGED vars
  BY <1>0, <1>9 DEF vars
<1> QED
  BY <1>1, <1>2, <1>3, <1>4, <1>5, <1>6, <1>7, <1>8, <1>9 DEF Next, Recover

\* Nothing that no pipeline and no user moves on is brought back from the
\* table, whatever requests, workers and crashes do in the meantime.
THEOREM RecoveredSettled == Spec => RecoveredIsSettled
<1> DEFINE Settles == \A w \in Workers : At(w, "adding") /\ rec'[w] = "scan"
                                            => mem'[w][cur[w]] \notin Transient
<1>1. Init => Judged
  BY DEF Init, Judged
<1>2. TypeInv /\ Judged /\ [Next]_vars => [Settles]_vars
  <2> SUFFICES ASSUME TypeInv, Judged, Next,
                      NEW w \in Workers, At(w, "adding"), rec'[w] = "scan"
               PROVE  mem'[w][cur[w]] \notin Transient
    OBVIOUS
  <2>1. rec \in [Workers -> Places] /\ mem \in [Workers -> [Jobs -> Status \cup {"none"}]]
    BY DEF TypeInv, TypeOK, Places
  <2>2. ASSUME NEW v \in Workers, Request(v) \/ Serve(v) PROVE FALSE
    <3>1. UNCHANGED rec
      BY <2>2 DEF Request, Serve, Create, Load, Upload, Respond, Cancel, Delete, CreateEnd,
                  LoadEnd, SaveEnd, DeleteRow, DeleteEnd, Finish, recVars
    <3> QED
      BY <3>1 DEF At
  <2>3. CASE Redis
    BY <2>3 DEF Redis, recVars, At
  <2>4. ASSUME NEW v \in Workers, Crash(v) PROVE FALSE
    BY <2>1, <2>4 DEF Crash, At
  <2>5. ASSUME NEW v \in Workers,
               \/ AskLock(v) \/ Locking(v) \/ Query(v) \/ (\E j \in Jobs : NextJob(v, j))
               \/ Verify(v) \/ SaveFailed(v) \/ EndRecovery(v) \/ Probe(v)
        PROVE  FALSE
    BY <2>1, <2>5 DEF AskLock, Locking, Query, NextJob, Verify, SaveFailed, EndRecovery, Probe,
                      At, Goto
  <2>6. ASSUME NEW v \in Workers, AddJob(v) PROVE mem'[w][cur[w]] \notin Transient
    <3>1. v = w
      BY <2>1, <2>6 DEF AddJob, At, Goto
    <3>2. cur[w] \in Jobs /\ snap[w] \notin Transient
      BY DEF Judged, At
    <3>3. mem'[w][cur[w]] = snap[w]
      BY <2>1, <2>6, <3>1, <3>2 DEF AddJob, Remember
    <3> QED
      BY <3>2, <3>3
  <2> QED
    BY <2>2, <2>3, <2>4, <2>5, <2>6 DEF Next, Recover
<1> QED
  BY <1>1, <1>2, InitTyped, TypeStep, JudgedStep, PTL DEF Spec, RecoveredIsSettled

============================================================================
