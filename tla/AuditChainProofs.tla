-------------------------- MODULE AuditChainProofs --------------------------
(***************************************************************************)
(* What AuditChain guarantees for any callers, threads, entries and sizes  *)
(* of a batch: critical events are on disk when their call returns, only   *)
(* failures and restarts break the chain, and the log is a journal.        *)
(***************************************************************************)
EXTENDS AuditChain, SequenceTheorems, FiniteSetTheorems, WellFoundedInduction, TLAPS

Stages == {"queued", "handed", "written", "lost"} \cup Threads

\* Types, and one previous hash per entry.
Shape ==
    /\ stage \in Seq(Stages)
    /\ prev \in Seq(Nat) /\ Len(prev) = Count
    /\ last \in 0 .. Count
    /\ acked \subseteq 1 .. Count
    /\ faults \in Nat

\* What is under way belongs to the holder of the lock, who leaves nothing in
\* the queue: either the executor has it, or one thread.
Batch ==
    /\ holder # Nobody => \A i \in 1 .. Count : stage[i] # "queued"
    /\ critical => last # 0
    /\ ~cancelled =>
          \A i \in 1 .. Count :
              /\ stage[i] = "handed" => holder # Nobody /\ worker = Nobody
              /\ stage[i] \in Threads => holder # Nobody /\ worker = stage[i]

\* Without a failed write only a restart loses entries, and the chain begins
\* anew after them.
Losses ==
    faults = 0 /\ ~cancelled =>
        \A i \in 1 .. Count :
            stage[i] = "lost" => last = 0 \/ \E j \in i + 1 .. Count : prev[j] = 0

DiskInv == Shape /\ Batch /\ Losses /\ CriticalOnDisk

----------------------------------------------------------------------------
(* What the steps do to the entries *)

\* A change of stage for some of the entries leaves as many of them.
LEMMA Moved ==
    ASSUME Shape, NEW a, NEW b \in Stages
    PROVE  /\ Move(a, b) \in Seq(Stages) /\ Len(Move(a, b)) = Count
           /\ \A i \in 1 .. Count : Move(a, b)[i] = IF stage[i] = a THEN b ELSE stage[i]
<1>1. Count \in Nat /\ \A i \in 1 .. Count : stage[i] \in Stages
  BY DEF Shape, Count
<1>2. Move(a, b) \in [1 .. Count -> Stages]
  BY <1>1 DEF Move
<1>3. Move(a, b) \in Seq(Stages)
  BY <1>1, <1>2, SeqDef
<1>4. Len(Move(a, b)) = Count
  BY <1>1, <1>2, <1>3, LenProperties
<1> QED
  BY <1>3, <1>4 DEF Move

\* One more entry.
LEMMA Appended ==
    ASSUME NEW S, NEW q \in Seq(S), NEW x \in S
    PROVE  /\ Append(q, x) \in Seq(S) /\ Len(Append(q, x)) = Len(q) + 1
           /\ \A i \in 1 .. Len(q) : Append(q, x)[i] = q[i]
           /\ Append(q, x)[Len(q) + 1] = x
BY AppendProperties

\* One entry is written or lost, or none when there is no such entry.
LEMMA OneChanged ==
    ASSUME Shape, NEW n, NEW b \in Stages, stage' = [stage EXCEPT ![n] = b]
    PROVE  /\ stage' \in Seq(Stages) /\ Len(stage') = Count
           /\ \A i \in 1 .. Count : stage'[i] = stage[i] \/ stage'[i] = b
<1>1. Count \in Nat /\ stage \in [1 .. Count -> Stages]
  BY LenProperties DEF Shape, Count
<1>2. stage' \in [1 .. Count -> Stages]
  BY <1>1
<1>3. stage' \in Seq(Stages)
  BY <1>1, <1>2, SeqDef
<1>4. Len(stage') = Count
  BY <1>1, <1>2, <1>3, LenProperties
<1> QED
  BY <1>1, <1>3, <1>4

\* The chain grows by the new entry's hash.
LEMMA Linked ==
    ASSUME Shape, Link
    PROVE  /\ prev' \in Seq(Nat) /\ Len(prev') = Count + 1
           /\ last' = Count + 1 /\ last' \in Nat
           /\ \A i \in 1 .. Count : prev'[i] = prev[i]
           /\ prev'[Count + 1] = last
<1>1. Count \in Nat /\ last \in Nat
  BY DEF Shape, Count
<1> QED
  BY <1>1, Appended DEF Shape, Link

\* Lines that are written stay, and the chain before them does not change.
LEMMA DiskKept ==
    ASSUME DiskInv,
           faults' = 0 /\ ~cancelled' => faults = 0 /\ ~cancelled,
           acked' = acked,
           \A i \in 1 .. Count : /\ prev'[i] = prev[i]
                                 /\ stage[i] = "written" => stage'[i] = "written"
    PROVE  CriticalOnDisk'
<1> SUFFICES ASSUME faults' = 0, ~cancelled', NEW k \in acked', NEW i \in 1 .. k,
                    \A j \in i + 1 .. k : prev'[j] # 0
             PROVE  stage'[i] = "written"
  BY DEF CriticalOnDisk
<1>1. k \in acked /\ Count \in Nat /\ k \in 1 .. Count
  BY DEF DiskInv, Shape, Count
<1>2. \A j \in i + 1 .. k : prev[j] # 0
  BY <1>1
<1>3. stage[i] = "written"
  BY <1>1, <1>2 DEF DiskInv, CriticalOnDisk
<1> QED
  BY <1>1, <1>3

\* No entry is lost anew, and the beginning of a chain stays one.
LEMMA LossesKept ==
    ASSUME DiskInv, Count' \in Nat,
           faults' = 0 /\ ~cancelled' => faults = 0 /\ ~cancelled,
           \A i \in 1 .. Count :
              /\ prev'[i] = prev[i]
              /\ faults' = 0 /\ ~cancelled' /\ stage'[i] = "lost" => stage[i] = "lost",
           \/ Count' = Count /\ last' = last
           \/ /\ Count' = Count + 1 /\ prev'[Count + 1] = last
              /\ faults' = 0 /\ ~cancelled' => stage'[Count + 1] # "lost"
    PROVE  Losses'
<1> SUFFICES ASSUME faults' = 0, ~cancelled', NEW i \in 1 .. Count', stage'[i] = "lost"
             PROVE  last' = 0 \/ \E j \in i + 1 .. Count' : prev'[j] = 0
  BY DEF Losses
<1>1. Count \in Nat
  BY DEF DiskInv, Shape, Count
<1>2. i \in 1 .. Count /\ stage[i] = "lost"
  BY <1>1
<1>3. last = 0 \/ \E j \in i + 1 .. Count : prev[j] = 0
  BY <1>2 DEF DiskInv, Losses
<1>4. CASE last = 0
  BY <1>1, <1>2, <1>4
<1>5. CASE \E j \in i + 1 .. Count : prev[j] = 0
  <2>1. PICK j \in i + 1 .. Count : prev[j] = 0
    BY <1>5
  <2>2. j \in 1 .. Count /\ j \in i + 1 .. Count' /\ prev'[j] = 0
    BY <1>1, <1>2, <2>1
  <2> QED
    BY <2>2
<1> QED
  BY <1>3, <1>4, <1>5

\* The stages are told apart from the threads.
LEMMA NoThread ==
    "queued" \notin Threads /\ "handed" \notin Threads /\ "written" \notin Threads /\ "lost" \notin Threads
BY ChainAssumption

\* While the lock is free no entry is on its way, unless a writer was cancelled.
LEMMA FreeBefore ==
    ASSUME DiskInv, holder = Nobody, ~cancelled, NEW i \in 1 .. Count
    PROVE  stage[i] # "handed" /\ stage[i] \notin Threads
BY DEF DiskInv, Batch

LEMMA FreeAfter ==
    ASSUME holder' = Nobody, critical' => last' # 0,
           ~cancelled' => \A i \in 1 .. Count' : stage'[i] # "handed" /\ stage'[i] \notin Threads
    PROVE  Batch'
BY DEF Batch

----------------------------------------------------------------------------
(* The steps *)

LEMMA DiskInit == Init => DiskInv
<1> SUFFICES ASSUME Init PROVE DiskInv
  OBVIOUS
<1>1. stage = <<>> /\ Count = 0 /\ acked = {}
  BY DEF Init, Count
<1>2. Shape
  BY <1>1 DEF Init, Shape
<1>3. Batch /\ Losses /\ CriticalOnDisk
  BY <1>1 DEF Init, Batch, Losses, CriticalOnDisk
<1> QED
  BY <1>2, <1>3 DEF DiskInv

\* Steps that move no entry and leave the lock alone.
LEMMA QuietStep ==
    ASSUME DiskInv, UNCHANGED <<stage, prev, last, acked, faults, cancelled, lock>>
    PROVE  DiskInv'
BY DEF DiskInv, Shape, Batch, Losses, CriticalOnDisk, Count, lock

LEMMA EnqueueStep ==
    ASSUME DiskInv, NEW c \in Callers, Enqueue(c)
    PROVE  DiskInv'
<1>1. /\ holder = Nobody /\ Link /\ stage' = Append(stage, "queued")
      /\ UNCHANGED <<holder, critical, worker, acked, faults, cancelled>>
  BY DEF Enqueue, Acquired, lock
<1>2. /\ stage' \in Seq(Stages) /\ Count' = Count + 1 /\ Count \in Nat
      /\ \A i \in 1 .. Count : stage'[i] = stage[i]
      /\ stage'[Count + 1] = "queued"
  BY <1>1, Appended DEF DiskInv, Shape, Stages, Count
<1>3. Shape'
  BY <1>1, <1>2, Linked DEF DiskInv, Shape
<1>4. Batch'
  <2>1. last' # 0
    BY <1>1, <1>2, Linked DEF DiskInv
  <2>2. ASSUME ~cancelled', NEW i \in 1 .. Count'
        PROVE  stage'[i] # "handed" /\ stage'[i] \notin Threads
    <3>1. i \in 1 .. Count \/ i = Count + 1
      BY <1>2
    <3> QED
      BY <1>1, <1>2, <2>2, <3>1, FreeBefore, NoThread
  <2> QED
    BY <1>1, <2>1, <2>2, FreeAfter
<1>5. Losses'
  BY <1>1, <1>2, Linked, LossesKept DEF DiskInv
<1>6. CriticalOnDisk'
  BY <1>1, <1>2, Linked, DiskKept DEF DiskInv
<1> QED
  BY <1>3, <1>4, <1>5, <1>6 DEF DiskInv

LEMMA FlushStep ==
    ASSUME DiskInv, NEW c \in Callers, NEW crit \in BOOLEAN, Flush(c, crit)
    PROVE  DiskInv'
<1>0. /\ holder = Nobody /\ Link /\ UNCHANGED <<acked, cancelled>>
      /\ Count \in Nat /\ faults \in Nat
  BY DEF Flush, Acquired, DiskInv, Shape, Count
<1>1. ASSUME NEW b \in Stages, stage' = Append(Move("queued", b), b)
      PROVE  /\ stage' \in Seq(Stages) /\ Count' = Count + 1
             /\ \A i \in 1 .. Count : stage'[i] = IF stage[i] = "queued" THEN b ELSE stage[i]
             /\ stage'[Count + 1] = b
  BY <1>1, Moved, Appended DEF DiskInv, Count
<1>2. CASE closed
  <2>1. /\ stage' = Append(Move("queued", "lost"), "lost") /\ faults' = faults + 1
        /\ UNCHANGED <<holder, critical, worker>>
    BY <1>2 DEF Flush, Report, lock
  <2>2. /\ stage' \in Seq(Stages) /\ Count' = Count + 1
        /\ \A i \in 1 .. Count : stage'[i] = IF stage[i] = "queued" THEN "lost" ELSE stage[i]
        /\ stage'[Count + 1] = "lost"
    BY <1>1, <2>1 DEF Stages
  <2>3. Shape'
    BY <1>0, <2>1, <2>2, Linked DEF DiskInv, Shape
  <2>4. Batch'
    <3>1. last' # 0
      BY <1>0, Linked DEF DiskInv
    <3>2. ASSUME ~cancelled', NEW i \in 1 .. Count'
          PROVE  stage'[i] # "handed" /\ stage'[i] \notin Threads
      <4>1. i \in 1 .. Count \/ i = Count + 1
        BY <1>0, <2>2
      <4> QED
        BY <1>0, <2>2, <3>2, <4>1, FreeBefore, NoThread
    <3> QED
      BY <1>0, <2>1, <3>1, <3>2, FreeAfter
  <2>5. Losses' /\ CriticalOnDisk'
    BY <1>0, <2>1 DEF Losses, CriticalOnDisk
  <2> QED
    BY <2>3, <2>4, <2>5 DEF DiskInv
<1>3. CASE ~closed
  <2>1. /\ stage' = Append(Move("queued", "handed"), "handed") /\ faults' = faults
        /\ holder' = c /\ critical' = crit /\ worker' = Nobody
    BY <1>3 DEF Flush
  <2>2. /\ stage' \in Seq(Stages) /\ Count' = Count + 1
        /\ \A i \in 1 .. Count : stage'[i] = IF stage[i] = "queued" THEN "handed" ELSE stage[i]
        /\ stage'[Count + 1] = "handed"
    BY <1>1, <2>1 DEF Stages
  <2>3. Shape'
    BY <1>0, <2>1, <2>2, Linked DEF DiskInv, Shape
  <2>4. Batch'
    <3>1. holder' # Nobody /\ last' # 0
      BY <1>0, <2>1, Linked, ChainAssumption DEF DiskInv, Writers
    <3>2. \A i \in 1 .. Count' : stage'[i] # "queued"
      BY <1>0, <2>2
    <3>3. ASSUME ~cancelled', NEW i \in 1 .. Count', stage'[i] \in Threads PROVE FALSE
      BY <1>0, <2>2, <3>3, ChainAssumption DEF DiskInv, Batch
    <3> QED
      BY <2>1, <3>1, <3>2, <3>3 DEF Batch
  <2>5. Losses'
    BY <1>0, <2>1, <2>2, Linked, LossesKept DEF DiskInv
  <2>6. CriticalOnDisk'
    BY <1>0, <2>1, <2>2, Linked, DiskKept DEF DiskInv
  <2> QED
    BY <2>3, <2>4, <2>5, <2>6 DEF DiskInv
<1> QED
  BY <1>2, <1>3

LEMMA SyncStep ==
    ASSUME DiskInv, NEW c \in Callers, LogSync(c)
    PROVE  DiskInv'
<1>1. /\ holder = Nobody /\ Link /\ Count \in Nat /\ faults \in Nat
      /\ UNCHANGED <<holder, critical, worker, acked, cancelled>>
  BY DEF LogSync, Acquired, lock, DiskInv, Shape, Count
<1>2. PICK b \in {"written", "lost"} :
        /\ stage' = Append(stage, b)
        /\ faults' = IF b = "lost" THEN faults + 1 ELSE faults
  BY DEF LogSync, Report
<1>3. /\ stage' \in Seq(Stages) /\ Count' = Count + 1
      /\ \A i \in 1 .. Count : stage'[i] = stage[i]
      /\ stage'[Count + 1] = b
  BY <1>2, Appended DEF DiskInv, Shape, Stages, Count
<1>4. Shape'
  BY <1>1, <1>2, <1>3, Linked DEF DiskInv, Shape
<1>5. Batch'
  <2>1. last' # 0
    BY <1>1, Linked DEF DiskInv
  <2>2. ASSUME ~cancelled', NEW i \in 1 .. Count'
        PROVE  stage'[i] # "handed" /\ stage'[i] \notin Threads
    <3>1. i \in 1 .. Count \/ i = Count + 1
      BY <1>1, <1>3
    <3> QED
      BY <1>1, <1>3, <2>2, <3>1, FreeBefore, NoThread
  <2> QED
    BY <1>1, <2>1, <2>2, FreeAfter
<1>6. faults' = 0 /\ ~cancelled' => faults = 0 /\ ~cancelled /\ stage'[Count + 1] # "lost"
  BY <1>1, <1>2, <1>3
<1>7. /\ Len(prev') = Count + 1 /\ prev'[Count + 1] = last
      /\ \A i \in 1 .. Count : prev'[i] = prev[i]
  BY <1>1, Linked DEF DiskInv
<1>8. Losses'
  BY <1>1, <1>3, <1>6, <1>7, LossesKept
<1>9. CriticalOnDisk'
  BY <1>1, <1>3, <1>6, <1>7, DiskKept
<1> QED
  BY <1>4, <1>5, <1>8, <1>9 DEF DiskInv

LEMMA LoopStep ==
    ASSUME DiskInv, LoopFlush
    PROVE  DiskInv'
<1>0. /\ holder = Nobody /\ UNCHANGED <<last, prev, acked, cancelled>>
      /\ Count \in Nat /\ faults \in Nat
  BY DEF LoopFlush, Acquired, chain, DiskInv, Shape, Count
<1>1. ASSUME NEW b \in Stages, stage' = Move("queued", b)
      PROVE  /\ stage' \in Seq(Stages) /\ Count' = Count
             /\ \A i \in 1 .. Count : stage'[i] = IF stage[i] = "queued" THEN b ELSE stage[i]
  BY <1>1, Moved DEF DiskInv, Count
<1>2. CASE closed
  <2>1. /\ stage' = Move("queued", "lost") /\ faults' = faults + 1
        /\ UNCHANGED <<holder, critical, worker>>
    BY <1>2 DEF LoopFlush, Report, lock
  <2>2. /\ stage' \in Seq(Stages) /\ Count' = Count
        /\ \A i \in 1 .. Count : stage'[i] = IF stage[i] = "queued" THEN "lost" ELSE stage[i]
    BY <1>1, <2>1 DEF Stages
  <2>3. Shape'
    BY <1>0, <2>1, <2>2 DEF DiskInv, Shape
  <2>4. Batch'
    BY <1>0, <2>1, <2>2, ChainAssumption DEF DiskInv, Batch
  <2>5. Losses' /\ CriticalOnDisk'
    BY <1>0, <2>1 DEF Losses, CriticalOnDisk
  <2> QED
    BY <2>3, <2>4, <2>5 DEF DiskInv
<1>3. CASE ~closed
  <2>1. /\ stage' = Move("queued", "handed") /\ faults' = faults
        /\ holder' = Loop /\ critical' = FALSE /\ worker' = Nobody
    BY <1>3 DEF LoopFlush
  <2>2. /\ stage' \in Seq(Stages) /\ Count' = Count
        /\ \A i \in 1 .. Count : stage'[i] = IF stage[i] = "queued" THEN "handed" ELSE stage[i]
    BY <1>1, <2>1 DEF Stages
  <2>3. Shape'
    BY <1>0, <2>1, <2>2 DEF DiskInv, Shape
  <2>4. Batch'
    <3>1. holder' # Nobody
      BY <2>1, ChainAssumption DEF Writers
    <3>2. \A i \in 1 .. Count' : stage'[i] # "queued"
      BY <2>2
    <3>3. ASSUME ~cancelled', NEW i \in 1 .. Count', stage'[i] \in Threads PROVE FALSE
      BY <1>0, <2>2, <3>3, ChainAssumption DEF DiskInv, Batch
    <3> QED
      BY <2>1, <3>1, <3>2, <3>3 DEF Batch
  <2>5. Losses'
    BY <1>0, <2>1, <2>2, LossesKept DEF DiskInv
  <2>6. CriticalOnDisk'
    BY <1>0, <2>1, <2>2, DiskKept DEF DiskInv
  <2> QED
    BY <2>3, <2>4, <2>5, <2>6 DEF DiskInv
<1> QED
  BY <1>2, <1>3

LEMMA PickUpStep ==
    ASSUME DiskInv, NEW th \in Threads, PickUp(th)
    PROVE  DiskInv'
<1>0. /\ stage' = Move("handed", th) /\ worker' = th
      /\ UNCHANGED <<holder, critical, last, prev, acked, faults, cancelled>>
      /\ Count \in Nat
      /\ \E i \in 1 .. Count : stage[i] = "handed"
  BY DEF PickUp, With, chain, DiskInv, Shape, Count
<1>1. /\ stage' \in Seq(Stages) /\ Count' = Count
      /\ \A i \in 1 .. Count : stage'[i] = IF stage[i] = "handed" THEN th ELSE stage[i]
  <2>1. th \in Stages
    BY DEF Stages
  <2>2. /\ Move("handed", th) \in Seq(Stages) /\ Len(Move("handed", th)) = Count
        /\ \A i \in 1 .. Count :
              Move("handed", th)[i] = IF stage[i] = "handed" THEN th ELSE stage[i]
    BY <2>1, Moved DEF DiskInv
  <2> QED
    BY <1>0, <2>2 DEF Count
<1>2. Shape'
  BY <1>0, <1>1 DEF DiskInv, Shape
<1>3. Batch'
  <2>1. ~cancelled => worker = Nobody /\ holder # Nobody
    BY <1>0 DEF DiskInv, Batch
  <2>2. ASSUME ~cancelled', NEW i \in 1 .. Count'
        PROVE  /\ stage'[i] # "handed"
               /\ stage'[i] \in Threads => holder' # Nobody /\ worker' = stage'[i]
    BY <1>0, <1>1, <2>1, <2>2, ChainAssumption DEF DiskInv, Batch
  <2>3. holder' # Nobody => \A i \in 1 .. Count' : stage'[i] # "queued"
    BY <1>0, <1>1, ChainAssumption DEF DiskInv, Batch
  <2>4. critical' => last' # 0
    BY <1>0 DEF DiskInv, Batch
  <2> QED
    BY <2>2, <2>3, <2>4 DEF Batch
<1>4. Losses'
  BY <1>0, <1>1, LossesKept, ChainAssumption DEF DiskInv
<1>5. CriticalOnDisk'
  BY <1>0, <1>1, DiskKept DEF DiskInv
<1> QED
  BY <1>2, <1>3, <1>4, <1>5 DEF DiskInv

LEMMA WriteStep ==
    ASSUME DiskInv, NEW th \in Threads, Write(th)
    PROVE  DiskInv'
<1>0. /\ stage' = [stage EXCEPT ![First(With(th))] = "written"]
      /\ UNCHANGED <<holder, critical, worker, last, prev, acked, faults, cancelled>>
      /\ Count \in Nat
  BY DEF Write, lock, chain, DiskInv, Shape, Count
<1>1. /\ stage' \in Seq(Stages) /\ Count' = Count
      /\ \A i \in 1 .. Count : stage'[i] = stage[i] \/ stage'[i] = "written"
  BY <1>0, OneChanged DEF DiskInv, Count, Stages
<1>2. Shape'
  BY <1>0, <1>1 DEF DiskInv, Shape
<1>3. Batch'
  BY <1>0, <1>1, ChainAssumption DEF DiskInv, Batch
<1>4. Losses'
  BY <1>0, <1>1, LossesKept DEF DiskInv
<1>5. CriticalOnDisk'
  BY <1>0, <1>1, DiskKept DEF DiskInv
<1> QED
  BY <1>2, <1>3, <1>4, <1>5 DEF DiskInv

\* A failed write is a fault.
LEMMA FailStep ==
    ASSUME DiskInv, NEW th \in Threads, WriteSkips(th) \/ WriteRaises(th)
    PROVE  DiskInv'
<1>0. /\ faults' = faults + 1 /\ faults \in Nat /\ Count \in Nat
      /\ UNCHANGED <<holder, critical, worker, last, prev, acked, cancelled>>
  BY DEF WriteSkips, WriteRaises, Report, lock, chain, DiskInv, Shape, Count
<1>1. /\ stage' \in Seq(Stages) /\ Count' = Count
      /\ \A i \in 1 .. Count : stage'[i] = stage[i] \/ stage'[i] = "lost"
  <2>1. CASE WriteSkips(th)
    BY <2>1, OneChanged DEF WriteSkips, DiskInv, Count, Stages
  <2>2. CASE WriteRaises(th)
    BY <2>2, Moved DEF WriteRaises, DiskInv, Count, Stages
  <2> QED
    BY <2>1, <2>2
<1>2. Shape'
  BY <1>0, <1>1 DEF DiskInv, Shape
<1>3. Batch'
  BY <1>0, <1>1, ChainAssumption DEF DiskInv, Batch
<1>4. Losses' /\ CriticalOnDisk'
  BY <1>0 DEF Losses, CriticalOnDisk
<1> QED
  BY <1>2, <1>3, <1>4 DEF DiskInv

\* When the holder's thread has no entry left, every entry of this process is
\* written: none is queued, handed over, or with another thread.
LEMMA WrittenStep ==
    ASSUME DiskInv, NEW w \in Writers, Written(w)
    PROVE  DiskInv'
<1>0. /\ holder = w /\ worker # Nobody /\ holder' = Nobody /\ critical' = FALSE
      /\ worker' = Nobody /\ w # Nobody
      /\ acked' = IF critical THEN acked \cup {Count} ELSE acked
      /\ UNCHANGED <<last, prev, stage, faults, cancelled>>
      /\ Count \in Nat /\ Count' = Count
      /\ \A i \in 1 .. Count : stage[i] # worker
  BY ChainAssumption DEF Written, With, DiskInv, Shape, Count
<1>1. Shape'
  <2>1. critical => Count \in 1 .. Count
    BY <1>0 DEF DiskInv, Shape, Batch
  <2> QED
    BY <1>0, <2>1 DEF DiskInv, Shape
<1>2. ~cancelled => \A i \in 1 .. Count : stage[i] \in {"written", "lost"}
  <2>1. \A i \in 1 .. Count : stage[i] \in Stages
    BY DEF DiskInv, Shape, Count
  <2> QED
    BY <1>0, <2>1 DEF DiskInv, Batch, Stages
<1>3. Batch'
  BY <1>0, <1>2, ChainAssumption DEF Batch
<1>4. Losses'
  BY <1>0 DEF DiskInv, Losses
<1>5. CriticalOnDisk'
  <2> SUFFICES ASSUME faults' = 0, ~cancelled', NEW k \in acked', NEW i \in 1 .. k,
                      \A j \in i + 1 .. k : prev'[j] # 0
               PROVE  stage'[i] = "written"
    BY DEF CriticalOnDisk
  <2>1. CASE k \in acked
    BY <1>0, <2>1 DEF DiskInv, CriticalOnDisk
  <2>2. CASE k \notin acked
    <3>1. critical /\ k = Count /\ last # 0
      BY <1>0, <2>2 DEF DiskInv, Batch
    <3>2. stage[i] # "lost"
      BY <1>0, <3>1 DEF DiskInv, Losses
    <3> QED
      BY <1>0, <1>2, <3>1, <3>2
  <2> QED
    BY <2>1, <2>2
<1> QED
  BY <1>1, <1>3, <1>4, <1>5 DEF DiskInv

\* A writer that holds the lock leaves a cancellation behind, another nothing.
LEMMA LeaveStep ==
    ASSUME DiskInv, NEW w, NEW where, Leave(w, where),
           UNCHANGED <<last, prev, acked, faults>>
    PROVE  DiskInv'
<1>1. CASE holder = w
  <2>1. /\ holder' = Nobody /\ critical' = FALSE /\ worker' = Nobody
        /\ stage' = Move("handed", "lost") /\ cancelled'
    BY <1>1 DEF Leave
  <2>2. stage' \in Seq(Stages) /\ Count' = Count
    BY <2>1, Moved DEF DiskInv, Count, Stages
  <2>3. Shape'
    BY <2>2 DEF DiskInv, Shape
  <2>4. Batch' /\ Losses' /\ CriticalOnDisk'
    BY <2>1 DEF Batch, Losses, CriticalOnDisk
  <2> QED
    BY <2>3, <2>4 DEF DiskInv
<1>2. CASE holder # w
  BY <1>2, QuietStep DEF Leave
<1> QED
  BY <1>1, <1>2

LEMMA RestartStep ==
    ASSUME DiskInv, Restart
    PROVE  DiskInv'
<1>0. /\ holder' = Nobody /\ critical' = FALSE /\ last' = 0
      /\ stage' = [i \in 1 .. Count |-> IF stage[i] = "written" THEN "written" ELSE "lost"]
      /\ UNCHANGED <<prev, acked, faults, cancelled>> /\ Count \in Nat
  BY DEF Restart, DiskInv, Shape, Count
<1>1. stage' \in Seq(Stages) /\ Count' = Count
  <2>1. stage' \in [1 .. Count -> Stages]
    BY <1>0 DEF Stages
  <2>2. stage' \in Seq(Stages)
    BY <1>0, <2>1, SeqDef
  <2> QED
    BY <1>0, <2>1, <2>2, LenProperties DEF Count
<1>2. Shape'
  BY <1>0, <1>1 DEF DiskInv, Shape
<1>3. Batch' /\ Losses'
  BY <1>0, <1>1, ChainAssumption DEF Batch, Losses
<1>4. CriticalOnDisk'
  BY <1>0, DiskKept DEF DiskInv
<1> QED
  BY <1>2, <1>3, <1>4 DEF DiskInv

LEMMA DiskStep == DiskInv /\ [Next]_vars => DiskInv'
<1> SUFFICES ASSUME DiskInv, [Next]_vars PROVE DiskInv'
  OBVIOUS
<1>1. ASSUME NEW c \in Callers, Call(c) PROVE DiskInv'
  BY <1>1, QuietStep DEF Call, chain
<1>2. CASE LoopWakes \/ LoopIdles
  BY <1>2, QuietStep DEF LoopWakes, LoopIdles, chain
<1>3. ASSUME NEW c \in Callers, Cancel(c) PROVE DiskInv'
  BY <1>3, LeaveStep DEF Cancel, chain
<1>4. CASE shutdown
  BY <1>4, LeaveStep DEF shutdown, chain
<1>5. CASE UNCHANGED vars
  BY <1>5, QuietStep DEF vars, chain
<1> QED
  BY <1>1, <1>2, <1>3, <1>4, <1>5, EnqueueStep, FlushStep, SyncStep, LoopStep, PickUpStep,
     WriteStep, FailStep, WrittenStep, RestartStep DEF Next

\* A critical event is in the file with all before it when its call returns,
\* whoever else writes, whatever is queued, and over restarts.
THEOREM CriticalWritten == Spec => []CriticalOnDisk
<1>1. DiskInv => CriticalOnDisk
  BY DEF DiskInv
<1> QED
  BY <1>1, DiskInit, DiskStep, PTL DEF Spec

----------------------------------------------------------------------------
(* The chain on disk *)

Done == {"written", "lost"}
OnFile == {i \in 1 .. Count : stage[i] = "written"}

\* An entry has the hash of the one chained before it, or begins a chain.
Hashes == last \in {0, Count} /\ \A k \in 1 .. Count : prev[k] \in {0, k - 1}

\* What is on its way was chained after all that is not.
OnTheWay == \A i, j \in 1 .. Count : i < j /\ stage[i] \notin Done => stage[j] \notin Done

\* The files have the written entries, in the order of the chain.
InFiles ==
    /\ log \in Seq(Nat)
    /\ \A n \in 1 .. Len(log) : log[n] # 0 => log[n] \in OnFile
    /\ \A i \in OnFile : \E n \in 1 .. Len(log) : log[n] = i
    /\ \A m, n \in 1 .. Len(log) : m < n /\ log[m] # 0 /\ log[n] # 0 => log[m] < log[n]

\* Where the chain on disk may break before entry k (which may be the next one):
\* a chain begins, or entries lost in a row end.
Hash(k) == IF k <= Count THEN prev[k] ELSE last
Seam(k) == Hash(k) = 0 \/ (stage[k - 1] = "lost" /\ (k <= Count => stage[k] # "lost"))
Seams == {k \in 2 .. Count + 1 : Seam(k)}

ChainInv ==
    ~cancelled => /\ Hashes /\ OnTheWay /\ InFiles
                  /\ ~async => \A i \in 1 .. Count : stage[i] \in Done
                  /\ faults \in Nat /\ restarts \in Nat
                  /\ Cardinality(Seams) <= faults + restarts

\* A set of natural numbers has a first one.
Less == {p \in Nat \X Nat : p[1] < p[2]}

LEMMA FirstOf ==
    ASSUME NEW S \in SUBSET Nat, S # {}
    PROVE  First(S) \in S /\ \A i \in S : First(S) <= i
<1>1. IsWellFoundedOn(Less, Nat)
  BY NatLessThanWellFounded DEF OpToRel, Less
<1>2. PICK x \in S : \A y \in S : ~(<<y, x>> \in Less)
  BY <1>1, WFMin
<1>3. ASSUME NEW y \in S PROVE x <= y
  <2>1. <<y, x>> \in Nat \X Nat /\ <<y, x>>[1] = y /\ <<y, x>>[2] = x
    OBVIOUS
  <2>2. ~(y < x)
    BY <1>2, <2>1 DEF Less
  <2> QED
    BY <2>2
<1> QED
  BY <1>3 DEF First

\* At any time what is on its way is at one place.
LEMMA SameWay ==
    ASSUME DiskInv, ~cancelled, NEW i \in 1 .. Count, NEW j \in 1 .. Count,
           stage[i] \notin Done, stage[j] \notin Done
    PROVE  stage[i] = stage[j]
<1>1. stage[i] \in Stages /\ stage[j] \in Stages
  BY DEF DiskInv, Shape, Count
<1> QED
  BY <1>1, ChainAssumption DEF DiskInv, Batch, Stages, Done

\* Seams are finitely many, and one more at the most is one more.
LEMMA SeamCount ==
    ASSUME Count \in Nat, Count' \in Nat, NEW x
    PROVE  /\ Cardinality(Seams) \in Nat /\ Cardinality(Seams') \in Nat
           /\ Seams' \subseteq Seams => Cardinality(Seams') <= Cardinality(Seams)
           /\ Seams' \subseteq Seams \cup {x} => Cardinality(Seams') <= Cardinality(Seams) + 1
<1>1. IsFiniteSet(Seams)
  <2>1. IsFiniteSet(2 .. Count + 1) BY FS_Interval
  <2>2. Seams \subseteq 2 .. Count + 1 BY DEF Seams
  <2> QED BY <2>1, <2>2, FS_Subset
<1>2. IsFiniteSet(Seams')
  <2>1. IsFiniteSet(2 .. Count' + 1) BY FS_Interval
  <2>2. Seams' \subseteq 2 .. Count' + 1 BY DEF Seams
  <2> QED BY <2>1, <2>2, FS_Subset
<1>3. Cardinality(Seams) \in Nat /\ Cardinality(Seams') \in Nat
  BY <1>1, <1>2, FS_CardinalityType
<1>4. ASSUME Seams' \subseteq Seams PROVE Cardinality(Seams') <= Cardinality(Seams)
  BY <1>1, <1>4, FS_Subset
<1>5. ASSUME Seams' \subseteq Seams \cup {x} PROVE Cardinality(Seams') <= Cardinality(Seams) + 1
  <2>1. /\ IsFiniteSet(Seams \cup {x})
        /\ Cardinality(Seams \cup {x}) =
              IF x \in Seams THEN Cardinality(Seams) ELSE Cardinality(Seams) + 1
    BY <1>1, FS_AddElement
  <2>2. Cardinality(Seams') <= Cardinality(Seams \cup {x})
    BY <1>5, <2>1, FS_Subset
  <2> QED
    BY <1>3, <2>1, <2>2
<1> QED
  BY <1>3, <1>4, <1>5

\* No entry is written: the files are kept, or an error message is added.
LEMMA FilesKept ==
    ASSUME InFiles, OnFile' = OnFile, log' = log \/ log' = Append(log, 0)
    PROVE  InFiles'
<1>1. CASE log' = log
  BY <1>1 DEF InFiles
<1>2. CASE log' = Append(log, 0)
  <2>1. /\ log' \in Seq(Nat) /\ Len(log') = Len(log) + 1 /\ Len(log) \in Nat
        /\ \A n \in 1 .. Len(log) : log'[n] = log[n]
        /\ log'[Len(log) + 1] = 0
    BY <1>2, Appended DEF InFiles
  <2>2. \A n \in 1 .. Len(log') : log'[n] # 0 => n \in 1 .. Len(log) /\ log'[n] = log[n]
    BY <2>1
  <2>3. ASSUME NEW i \in OnFile' PROVE \E n \in 1 .. Len(log') : log'[n] = i
    <3>1. PICK n \in 1 .. Len(log) : log[n] = i
      BY <2>3 DEF InFiles
    <3>2. n \in 1 .. Len(log') /\ log'[n] = i
      BY <2>1, <3>1
    <3> QED
      BY <3>2
  <2> QED
    BY <2>1, <2>2, <2>3 DEF InFiles
<1> QED
  BY <1>1, <1>2

\* The next entry of the chain is written.
LEMMA FilesGrow ==
    ASSUME InFiles, NEW k \in Nat \ {0}, OnFile' = OnFile \cup {k},
           \A i \in OnFile : i < k, log' = Append(log, k)
    PROVE  InFiles'
<1>1. /\ log' \in Seq(Nat) /\ Len(log') = Len(log) + 1 /\ Len(log) \in Nat
      /\ \A n \in 1 .. Len(log) : log'[n] = log[n]
      /\ log'[Len(log) + 1] = k
  BY Appended DEF InFiles
<1>2. ASSUME NEW n \in 1 .. Len(log'), log'[n] # 0 PROVE log'[n] \in OnFile'
  BY <1>1, <1>2 DEF InFiles
<1>3. ASSUME NEW i \in OnFile' PROVE \E n \in 1 .. Len(log') : log'[n] = i
  <2>1. CASE i = k
    BY <1>1, <2>1
  <2>2. CASE i \in OnFile
    <3>1. PICK n \in 1 .. Len(log) : log[n] = i
      BY <2>2 DEF InFiles
    <3>2. n \in 1 .. Len(log') /\ log'[n] = i
      BY <1>1, <3>1
    <3> QED
      BY <3>2
  <2> QED
    BY <2>1, <2>2
<1>4. ASSUME NEW m \in 1 .. Len(log'), NEW n \in 1 .. Len(log'),
             m < n, log'[m] # 0, log'[n] # 0
      PROVE  log'[m] < log'[n]
  <2>1. m \in 1 .. Len(log) /\ log[m] \in OnFile /\ log'[m] = log[m]
    BY <1>1, <1>4 DEF InFiles
  <2>2. CASE n = Len(log) + 1
    BY <1>1, <2>1, <2>2
  <2>3. CASE n # Len(log) + 1
    <3>1. n \in 1 .. Len(log) /\ log'[n] = log[n]
      BY <1>1, <2>3
    <3>2. log[m] # 0 /\ log[n] # 0
      BY <1>4, <2>1, <3>1
    <3>3. log[m] < log[n]
      BY <1>4, <2>1, <3>1, <3>2 DEF InFiles
    <3> QED
      BY <2>1, <3>1, <3>3
  <2> QED
    BY <2>2, <2>3
<1> QED
  BY <1>1, <1>2, <1>3, <1>4 DEF InFiles

\* A new entry that is on its way or written is chained to the one before.
LEMMA EntryAdded ==
    ASSUME DiskInv, Hashes, Link, Count' = Count + 1, stage'[Count + 1] # "lost",
           \A i \in 1 .. Count : stage'[i] = "lost" <=> stage[i] = "lost"
    PROVE  Hashes' /\ Seams' \subseteq Seams
<1>1. /\ Count \in Nat /\ last' = Count + 1
      /\ \A i \in 1 .. Count : prev'[i] = prev[i]
      /\ prev'[Count + 1] = last
  BY Linked DEF DiskInv, Shape, Count
<1>2. Hashes'
  BY <1>1 DEF Hashes
<1>3. ASSUME NEW k \in 2 .. Count' + 1, Seam(k)' PROVE k \in Seams
  <2>1. CASE k <= Count
    BY <1>1, <1>3, <2>1 DEF Seam, Seams, Hash
  <2>2. CASE k = Count + 1
    BY <1>1, <1>3, <2>2 DEF Seam, Seams, Hash
  <2>3. CASE k = Count + 2
    BY <1>1, <1>3, <2>3 DEF Seam, Hash
  <2> QED
    BY <1>1, <2>1, <2>2, <2>3
<1> QED
  BY <1>2, <1>3 DEF Seams

\* A new entry is lost with all that were queued: one run of lost entries.
LEMMA LostAdded ==
    ASSUME DiskInv, ~cancelled, Hashes, OnTheWay, Link, Count' = Count + 1,
           stage'[Count + 1] = "lost",
           \A i \in 1 .. Count : stage'[i] = IF stage[i] = "queued" THEN "lost" ELSE stage[i]
    PROVE  Hashes' /\ Seams' \subseteq Seams \cup {Count + 2}
<1>1. /\ Count \in Nat /\ last' = Count + 1
      /\ \A i \in 1 .. Count : prev'[i] = prev[i]
      /\ prev'[Count + 1] = last
  BY Linked DEF DiskInv, Shape, Count
<1>2. Hashes'
  BY <1>1 DEF Hashes
<1>3. ASSUME NEW k \in 2 .. Count' + 1, Seam(k)', k # Count + 2 PROVE k \in Seams
  <2>1. CASE k <= Count
    <3>1. k - 1 \in 1 .. Count /\ k \in 1 .. Count
      BY <1>1, <2>1
    <3>2. stage[k - 1] = "queued" => stage[k] = "queued"
      <4> SUFFICES ASSUME stage[k - 1] = "queued" PROVE stage[k] = "queued"
        OBVIOUS
      <4>1. stage[k - 1] \notin Done
        BY DEF Done
      <4>2. stage[k] \notin Done
        BY <3>1, <4>1 DEF OnTheWay
      <4> QED
        BY <3>1, <4>1, <4>2, SameWay
    <3> QED
      BY <1>1, <1>3, <2>1, <3>1, <3>2 DEF Seam, Seams, Hash
  <2>2. CASE k = Count + 1
    BY <1>1, <1>3, <2>2 DEF Seam, Seams, Hash
  <2> QED
    BY <1>1, <1>3, <2>1, <2>2
<1> QED
  BY <1>2, <1>3 DEF Seams

\* What is on its way at places A, or all of it, is lost: one run at the end.
LEMMA LostTail ==
    ASSUME DiskInv, ~cancelled, OnTheWay, NEW A, A \cap Done = {},
           Count' = Count, prev' = prev, last' = last \/ last' = 0,
           \A i \in 1 .. Count : stage'[i] = IF stage[i] \in A THEN "lost" ELSE stage[i]
    PROVE  Seams' \subseteq Seams \cup {Count + 1}
<1>1. Count \in Nat
  BY DEF DiskInv, Shape, Count
<1>2. ASSUME NEW k \in 2 .. Count' + 1, Seam(k)', k # Count + 1 PROVE k \in Seams
  <2>1. k <= Count /\ k - 1 \in 1 .. Count /\ k \in 1 .. Count
    BY <1>1, <1>2
  <2>2. stage[k - 1] \in A => stage[k] \in A
    <3> SUFFICES ASSUME stage[k - 1] \in A PROVE stage[k] \in A
      OBVIOUS
    <3>1. stage[k - 1] \notin Done
      OBVIOUS
    <3>2. stage[k] \notin Done
      BY <2>1, <3>1 DEF OnTheWay
    <3> QED
      BY <2>1, <3>1, <3>2, SameWay
  <2> QED
    BY <1>2, <2>1, <2>2 DEF Seam, Seams, Hash
<1> QED
  BY <1>2 DEF Seams

----------------------------------------------------------------------------
(* The steps keep the chain *)

LEMMA ChainInit == Init => ChainInv
<1> SUFFICES ASSUME Init PROVE ChainInv
  OBVIOUS
<1>1. Count = 0 /\ log = <<>> /\ last = 0 /\ faults = 0 /\ restarts = 0
  BY DEF Init, Count
<1>2. Hashes /\ OnTheWay /\ InFiles /\ Seams = {}
  BY <1>1 DEF Hashes, OnTheWay, InFiles, OnFile, Seams
<1>3. Cardinality(Seams) = 0
  BY <1>2, FS_EmptySet
<1> QED
  BY <1>1, <1>2, <1>3 DEF ChainInv

\* Steps that lose and write nothing and chain nothing, and leave on its way
\* what is.
LEMMA ChainQuiet ==
    ASSUME DiskInv, ChainInv, Count' = Count,
           UNCHANGED <<async, prev, last, log, faults, restarts>>, ~cancelled' => ~cancelled,
           \A i \in 1 .. Count : \/ stage'[i] = stage[i]
                                 \/ stage[i] \notin Done /\ stage'[i] \notin Done
    PROVE  ChainInv'
<1> SUFFICES ASSUME ~cancelled' PROVE ChainInv'
  BY DEF ChainInv
<1>1. /\ ~cancelled /\ Hashes /\ OnTheWay /\ InFiles
      /\ faults \in Nat /\ restarts \in Nat /\ Count \in Nat
      /\ Cardinality(Seams) <= faults + restarts
  BY DEF ChainInv, DiskInv, Shape, Count
<1>2. \A i \in 1 .. Count : /\ stage'[i] \in Done <=> stage[i] \in Done
                            /\ stage'[i] = "lost" <=> stage[i] = "lost"
                            /\ stage'[i] = "written" <=> stage[i] = "written"
  BY DEF Done
<1>3. Hashes' /\ OnTheWay'
  BY <1>1, <1>2 DEF Hashes, OnTheWay
<1>4. InFiles'
  <2>1. OnFile' = OnFile
    BY <1>2 DEF OnFile
  <2> QED
    BY <1>1, <2>1, FilesKept
<1>5. Seams' = Seams
  BY <1>1, <1>2 DEF Seams, Seam, Hash
<1>6. ~async' => \A i \in 1 .. Count' : stage'[i] \in Done'
  BY <1>1, <1>2 DEF ChainInv, Done
<1> QED
  BY <1>1, <1>3, <1>4, <1>5, <1>6 DEF ChainInv

LEMMA EnqueueChain ==
    ASSUME DiskInv, ChainInv, NEW c \in Callers, Enqueue(c)
    PROVE  ChainInv'
<1> SUFFICES ASSUME ~cancelled' PROVE ChainInv'
  BY DEF ChainInv
<1>1. /\ async' /\ Link /\ stage' = Append(stage, "queued") /\ ~cancelled
      /\ UNCHANGED <<log, faults, restarts>>
  BY DEF Enqueue, files
<1>2. /\ Hashes /\ OnTheWay /\ InFiles /\ faults \in Nat /\ restarts \in Nat
      /\ Cardinality(Seams) <= faults + restarts
  BY <1>1 DEF ChainInv
<1>3. /\ Count' = Count + 1 /\ Count \in Nat /\ Count' \in Nat
      /\ \A i \in 1 .. Count : stage'[i] = stage[i]
      /\ stage'[Count + 1] = "queued"
  BY <1>1, Appended DEF DiskInv, Shape, Stages, Count
<1>4. Hashes' /\ Seams' \subseteq Seams
  BY <1>1, <1>2, <1>3, EntryAdded
<1>5. OnTheWay'
  BY <1>2, <1>3 DEF OnTheWay, Done
<1>6. InFiles'
  <2>1. OnFile' = OnFile
    BY <1>3 DEF OnFile
  <2> QED
    BY <1>1, <1>2, <2>1, FilesKept
<1> QED
  BY <1>1, <1>2, <1>3, <1>4, <1>5, <1>6, SeamCount DEF ChainInv

LEMMA FlushChain ==
    ASSUME DiskInv, ChainInv, NEW c \in Callers, NEW crit \in BOOLEAN, Flush(c, crit)
    PROVE  ChainInv'
<1> SUFFICES ASSUME ~cancelled' PROVE ChainInv'
  BY DEF ChainInv
<1>1. /\ async' /\ Link /\ holder = Nobody /\ ~cancelled /\ restarts' = restarts
      /\ Hashes /\ OnTheWay /\ InFiles /\ faults \in Nat /\ restarts \in Nat
      /\ Cardinality(Seams) <= faults + restarts /\ Count \in Nat
  BY DEF Flush, Acquired, ChainInv, DiskInv, Shape, Count
<1>2. ASSUME NEW b \in Stages, stage' = Append(Move("queued", b), b)
      PROVE  /\ Count' = Count + 1
             /\ \A i \in 1 .. Count : stage'[i] = IF stage[i] = "queued" THEN b ELSE stage[i]
             /\ stage'[Count + 1] = b
  BY <1>2, Moved, Appended DEF DiskInv, Count
<1>3. CASE closed
  <2>1. /\ stage' = Append(Move("queued", "lost"), "lost") /\ faults' = faults + 1
        /\ log' = Append(log, 0)
    BY <1>3 DEF Flush, Report, Line
  <2>2. /\ Count' = Count + 1
        /\ \A i \in 1 .. Count : stage'[i] = IF stage[i] = "queued" THEN "lost" ELSE stage[i]
        /\ stage'[Count + 1] = "lost"
    BY <1>2, <2>1 DEF Stages
  <2>3. Hashes' /\ Seams' \subseteq Seams \cup {Count + 2}
    BY <1>1, <2>2, LostAdded
  <2>4. ASSUME NEW i \in 1 .. Count' PROVE stage'[i] \in Done
    <3>1. CASE i = Count + 1
      BY <2>2, <3>1 DEF Done
    <3>2. CASE i \in 1 .. Count
      <4>1. stage[i] \in Stages
        BY <3>2 DEF DiskInv, Shape, Count
      <4> QED
        BY <1>1, <2>2, <3>2, <4>1, FreeBefore DEF Stages, Done
    <3> QED
      BY <1>1, <2>2, <3>1, <3>2
  <2>5. OnTheWay'
    BY <2>4 DEF OnTheWay, Done
  <2>6. InFiles'
    <3>1. OnFile' = OnFile
      BY <1>1, <2>2 DEF OnFile
    <3> QED
      BY <1>1, <2>1, <3>1, FilesKept
  <2>7. /\ Cardinality(Seams') <= Cardinality(Seams) + 1
        /\ Cardinality(Seams) \in Nat /\ Cardinality(Seams') \in Nat
    BY <1>1, <2>2, <2>3, SeamCount
  <2> QED
    BY <1>1, <2>1, <2>3, <2>5, <2>6, <2>7 DEF ChainInv
<1>4. CASE ~closed
  <2>1. stage' = Append(Move("queued", "handed"), "handed") /\ UNCHANGED <<log, faults>>
    BY <1>4 DEF Flush, files
  <2>2. /\ Count' = Count + 1
        /\ \A i \in 1 .. Count : stage'[i] = IF stage[i] = "queued" THEN "handed" ELSE stage[i]
        /\ stage'[Count + 1] = "handed"
    BY <1>2, <2>1 DEF Stages
  <2>3. Hashes' /\ Seams' \subseteq Seams
    BY <1>1, <2>2, EntryAdded
  <2>4. OnTheWay'
    BY <1>1, <2>2 DEF OnTheWay, Done
  <2>5. InFiles'
    <3>1. OnFile' = OnFile
      BY <1>1, <2>2 DEF OnFile
    <3> QED
      BY <1>1, <2>1, <3>1, FilesKept
  <2>6. /\ Cardinality(Seams') <= Cardinality(Seams)
        /\ Cardinality(Seams) \in Nat /\ Cardinality(Seams') \in Nat
    BY <1>1, <2>2, <2>3, SeamCount
  <2> QED
    BY <1>1, <2>1, <2>3, <2>4, <2>5, <2>6 DEF ChainInv
<1> QED
  BY <1>3, <1>4

\* Without batches nothing is ever on its way.
LEMMA SyncChain ==
    ASSUME DiskInv, ChainInv, NEW c \in Callers, LogSync(c)
    PROVE  ChainInv'
<1> SUFFICES ASSUME ~cancelled' PROVE ChainInv'
  BY DEF ChainInv
<1>1. /\ ~async /\ Link /\ ~cancelled /\ UNCHANGED <<async, restarts>>
      /\ Hashes /\ OnTheWay /\ InFiles /\ faults \in Nat /\ restarts \in Nat
      /\ Cardinality(Seams) <= faults + restarts /\ Count \in Nat
      /\ \A i \in 1 .. Count : stage[i] \in Done
  BY DEF LogSync, ChainInv, DiskInv, Shape, Count
<1>2. ASSUME NEW b \in Done, stage' = Append(stage, b)
      PROVE  /\ Count' = Count + 1
             /\ \A i \in 1 .. Count : stage'[i] = stage[i]
             /\ stage'[Count + 1] = b
             /\ OnTheWay' /\ \A i \in 1 .. Count' : stage'[i] \in Done
  <2>1. /\ Count' = Count + 1
        /\ \A i \in 1 .. Count : stage'[i] = stage[i]
        /\ stage'[Count + 1] = b
    BY <1>2, Appended DEF DiskInv, Shape, Stages, Count, Done
  <2>2. \A i \in 1 .. Count' : stage'[i] \in Done
    BY <1>1, <2>1
  <2> QED
    BY <2>1, <2>2 DEF OnTheWay, Done
<1>3. CASE Line(Count + 1) /\ stage' = Append(stage, "written") /\ UNCHANGED faults
  <2>1. /\ Count' = Count + 1 /\ stage'[Count + 1] = "written" /\ OnTheWay'
        /\ \A i \in 1 .. Count : stage'[i] = stage[i]
        /\ \A i \in 1 .. Count' : stage'[i] \in Done
    BY <1>2, <1>3 DEF Done
  <2>2. Hashes' /\ Seams' \subseteq Seams
    BY <1>1, <2>1, EntryAdded
  <2>3. InFiles'
    <3>1. OnFile' = OnFile \cup {Count + 1} /\ \A i \in OnFile : i < Count + 1
      BY <1>1, <2>1 DEF OnFile
    <3> QED
      BY <1>1, <1>3, <3>1, FilesGrow DEF Line
  <2>4. /\ Cardinality(Seams') <= Cardinality(Seams)
        /\ Cardinality(Seams) \in Nat /\ Cardinality(Seams') \in Nat
    BY <1>1, <2>1, <2>2, SeamCount
  <2>5. faults' = faults
    BY <1>3
  <2> QED
    BY <1>1, <2>1, <2>2, <2>3, <2>4, <2>5 DEF ChainInv, Done
<1>4. CASE Report /\ stage' = Append(stage, "lost")
  <2>1. /\ Count' = Count + 1 /\ stage'[Count + 1] = "lost" /\ OnTheWay'
        /\ \A i \in 1 .. Count : stage'[i] = IF stage[i] = "queued" THEN "lost" ELSE stage[i]
        /\ \A i \in 1 .. Count : stage'[i] = stage[i]
        /\ \A i \in 1 .. Count' : stage'[i] \in Done
    BY <1>1, <1>2, <1>4 DEF Done
  <2>2. Hashes' /\ Seams' \subseteq Seams \cup {Count + 2}
    BY <1>1, <2>1, LostAdded
  <2>3. InFiles'
    <3>1. OnFile' = OnFile
      BY <1>1, <2>1 DEF OnFile
    <3> QED
      BY <1>1, <1>4, <3>1, FilesKept DEF Report, Line
  <2>4. /\ Cardinality(Seams') <= Cardinality(Seams) + 1
        /\ Cardinality(Seams) \in Nat /\ Cardinality(Seams') \in Nat
    BY <1>1, <2>1, <2>2, SeamCount
  <2>5. faults' = faults + 1
    BY <1>4 DEF Report
  <2> QED
    BY <1>1, <2>1, <2>2, <2>3, <2>4, <2>5 DEF ChainInv, Done
<1> QED
  BY <1>3, <1>4 DEF LogSync

LEMMA LoopChain ==
    ASSUME DiskInv, ChainInv, LoopFlush
    PROVE  ChainInv'
<1> SUFFICES ASSUME ~cancelled' PROVE ChainInv'
  BY DEF ChainInv
<1>1. /\ holder = Nobody /\ ~cancelled /\ UNCHANGED <<async, prev, last, restarts>>
      /\ Hashes /\ OnTheWay /\ InFiles /\ faults \in Nat /\ restarts \in Nat
      /\ Cardinality(Seams) <= faults + restarts /\ Count \in Nat
  BY DEF LoopFlush, Acquired, chain, ChainInv, DiskInv, Shape, Count
<1>2. ASSUME NEW b \in Stages, stage' = Move("queued", b)
      PROVE  /\ Count' = Count
             /\ \A i \in 1 .. Count : stage'[i] = IF stage[i] = "queued" THEN b ELSE stage[i]
  BY <1>2, Moved DEF DiskInv, Count
<1>3. CASE closed
  <2>1. /\ stage' = Move("queued", "lost") /\ faults' = faults + 1 /\ log' = Append(log, 0)
    BY <1>3 DEF LoopFlush, Report, Line
  <2>2. /\ Count' = Count
        /\ \A i \in 1 .. Count : stage'[i] = IF stage[i] = "queued" THEN "lost" ELSE stage[i]
    BY <1>2, <2>1 DEF Stages
  <2>3. Seams' \subseteq Seams \cup {Count + 1}
    <3>1. {"queued"} \cap Done = {}
      BY DEF Done
    <3>2. \A i \in 1 .. Count : stage'[i] = IF stage[i] \in {"queued"} THEN "lost" ELSE stage[i]
      BY <2>2
    <3> QED
      BY <1>1, <2>2, <3>1, <3>2, LostTail
  <2>4. ASSUME NEW i \in 1 .. Count' PROVE stage'[i] \in Done
    <3>1. stage[i] \in Stages
      BY <2>2 DEF DiskInv, Shape, Count
    <3> QED
      BY <1>1, <2>2, <3>1, FreeBefore DEF Stages, Done
  <2>5. OnTheWay' /\ Hashes'
    BY <1>1, <2>2, <2>4 DEF OnTheWay, Done, Hashes
  <2>6. InFiles'
    <3>1. OnFile' = OnFile
      BY <1>1, <2>2 DEF OnFile
    <3> QED
      BY <1>1, <2>1, <3>1, FilesKept
  <2>7. /\ Cardinality(Seams') <= Cardinality(Seams) + 1
        /\ Cardinality(Seams) \in Nat /\ Cardinality(Seams') \in Nat
    BY <1>1, <2>2, <2>3, SeamCount
  <2> QED
    BY <1>1, <2>1, <2>4, <2>5, <2>6, <2>7 DEF ChainInv, Done
<1>4. CASE ~closed
  <2>1. stage' = Move("queued", "handed") /\ UNCHANGED <<log, faults, cancelled>>
    BY <1>4 DEF LoopFlush, files
  <2>2. /\ Count' = Count
        /\ \A i \in 1 .. Count : stage'[i] = IF stage[i] = "queued" THEN "handed" ELSE stage[i]
    BY <1>2, <2>1 DEF Stages
  <2> QED
    BY <1>1, <2>1, <2>2, ChainQuiet DEF Done
<1> QED
  BY <1>3, <1>4

LEMMA PickUpChain ==
    ASSUME DiskInv, ChainInv, NEW th \in Threads, PickUp(th)
    PROVE  ChainInv'
<1>1. /\ stage' = Move("handed", th)
      /\ UNCHANGED <<async, prev, last, log, faults, cancelled, restarts>>
  BY DEF PickUp, chain, files
<1>2. /\ Count' = Count
      /\ \A i \in 1 .. Count : stage'[i] = IF stage[i] = "handed" THEN th ELSE stage[i]
  <2>1. th \in Stages
    BY DEF Stages
  <2>2. /\ Len(Move("handed", th)) = Count
        /\ \A i \in 1 .. Count :
              Move("handed", th)[i] = IF stage[i] = "handed" THEN th ELSE stage[i]
    BY <2>1, Moved DEF DiskInv
  <2> QED
    BY <1>1, <2>2 DEF Count
<1>3. th \notin Done
  BY ChainAssumption DEF Done
<1> QED
  BY <1>1, <1>2, <1>3, ChainQuiet DEF Done

\* A thread writes or loses its first entry, the first one on its way.
LEMMA FirstOnTheWay ==
    ASSUME DiskInv, ChainInv, ~cancelled, NEW th \in Threads, With(th) # {},
           NEW b \in Done, stage' = [stage EXCEPT ![First(With(th))] = b]
    PROVE  /\ First(With(th)) \in 1 .. Count /\ stage[First(With(th))] = th
           /\ \A i \in 1 .. Count : i < First(With(th)) => stage[i] \in Done
           /\ Count' = Count /\ stage'[First(With(th))] = b
           /\ \A i \in 1 .. Count : i # First(With(th)) => stage'[i] = stage[i]
           /\ OnTheWay'
<1> DEFINE f == First(With(th))
<1>1. Count \in Nat /\ OnTheWay /\ stage \in Seq(Stages)
  BY DEF ChainInv, DiskInv, Shape, Count
<1>2. f \in With(th) /\ \A i \in With(th) : f <= i
  <2>1. With(th) \in SUBSET Nat
    BY <1>1 DEF With
  <2> QED
    BY <2>1, FirstOf
<1>3. f \in 1 .. Count /\ stage[f] = th /\ th \notin Done
  BY <1>2, ChainAssumption DEF With, Done
<1>4. ASSUME NEW i \in 1 .. Count, i < f PROVE stage[i] \in Done
  <2> SUFFICES ASSUME stage[i] \notin Done PROVE FALSE
    OBVIOUS
  <2>1. i \in With(th)
    BY <1>3, SameWay DEF With
  <2> QED
    BY <1>2, <1>3, <1>4, <2>1
<1>5. /\ Count' = Count /\ stage'[f] = b
      /\ \A i \in 1 .. Count : i # f => stage'[i] = stage[i]
  <2>1. b \in Stages
    BY DEF Done, Stages
  <2>2. stage \in [1 .. Count -> Stages]
    BY <1>1, LenProperties DEF Count
  <2> QED
    BY <1>3, <2>1, <2>2, OneChanged DEF DiskInv, Count
<1>6. OnTheWay'
  <2> SUFFICES ASSUME NEW i \in 1 .. Count, NEW j \in 1 .. Count, i < j, stage'[i] \notin Done
               PROVE  stage'[j] \notin Done
    BY <1>5 DEF OnTheWay, Done
  <2>1. i # f /\ stage[i] \notin Done /\ f < i
    BY <1>1, <1>3, <1>4, <1>5
  <2> QED
    BY <1>1, <1>3, <1>5, <2>1 DEF OnTheWay
<1> QED
  BY <1>3, <1>4, <1>5, <1>6

LEMMA WriteChain ==
    ASSUME DiskInv, ChainInv, NEW th \in Threads, Write(th)
    PROVE  ChainInv'
<1> SUFFICES ASSUME ~cancelled' PROVE ChainInv'
  BY DEF ChainInv
<1> DEFINE f == First(With(th))
<1>1. /\ With(th) # {} /\ ~cancelled /\ UNCHANGED <<async, prev, last, faults, restarts>>
      /\ stage' = [stage EXCEPT ![f] = "written"] /\ log' = Append(log, f)
      /\ Hashes /\ OnTheWay /\ InFiles /\ faults \in Nat /\ restarts \in Nat
      /\ Cardinality(Seams) <= faults + restarts /\ Count \in Nat
  BY DEF Write, Line, chain, ChainInv, DiskInv, Shape, Count
<1>2. /\ f \in 1 .. Count /\ stage[f] = th
      /\ \A i \in 1 .. Count : i < f => stage[i] \in Done
      /\ Count' = Count /\ stage'[f] = "written"
      /\ \A i \in 1 .. Count : i # f => stage'[i] = stage[i]
      /\ OnTheWay'
  BY <1>1, FirstOnTheWay DEF Done
<1>3. th \notin Done
  BY ChainAssumption DEF Done
<1>4. Hashes'
  BY <1>1, <1>2 DEF Hashes
<1>5. InFiles'
  <2>1. ASSUME NEW i \in OnFile PROVE i < f
    <3>1. stage[i] \in Done /\ i \in 1 .. Count
      BY DEF OnFile, Done
    <3>2. ~(f < i)
      BY <1>1, <1>2, <1>3, <3>1 DEF OnTheWay
    <3> QED
      BY <1>2, <1>3, <3>1, <3>2
  <2>2. OnFile' = OnFile \cup {f}
    BY <1>2 DEF OnFile
  <2>3. f \in Nat \ {0}
    BY <1>2
  <2> QED
    BY <1>1, <2>1, <2>2, <2>3, FilesGrow
<1>6. Seams' = Seams
  <2>1. \A i \in 1 .. Count : stage'[i] = "lost" <=> stage[i] = "lost"
    BY <1>2, <1>3 DEF Done
  <2> QED
    BY <1>1, <1>2, <2>1 DEF Seams, Seam, Hash
<1>7. ~async' => \A i \in 1 .. Count' : stage'[i] \in Done'
  BY <1>1, <1>2 DEF ChainInv, Done
<1> QED
  BY <1>1, <1>2, <1>4, <1>5, <1>6, <1>7 DEF ChainInv

LEMMA SkipChain ==
    ASSUME DiskInv, ChainInv, NEW th \in Threads, WriteSkips(th)
    PROVE  ChainInv'
<1> SUFFICES ASSUME ~cancelled' PROVE ChainInv'
  BY DEF ChainInv
<1> DEFINE f == First(With(th))
<1>1. /\ With(th) # {} /\ ~cancelled /\ UNCHANGED <<async, prev, last, log, restarts>>
      /\ stage' = [stage EXCEPT ![f] = "lost"] /\ faults' = faults + 1
      /\ Hashes /\ OnTheWay /\ InFiles /\ faults \in Nat /\ restarts \in Nat
      /\ Cardinality(Seams) <= faults + restarts /\ Count \in Nat
  BY DEF WriteSkips, chain, files, ChainInv, DiskInv, Shape, Count
<1>2. /\ f \in 1 .. Count /\ stage[f] = th
      /\ \A i \in 1 .. Count : i < f => stage[i] \in Done
      /\ Count' = Count /\ stage'[f] = "lost"
      /\ \A i \in 1 .. Count : i # f => stage'[i] = stage[i]
      /\ OnTheWay'
  BY <1>1, FirstOnTheWay DEF Done
<1>3. th # "written" /\ th # "lost"
  BY ChainAssumption
<1>4. Hashes'
  BY <1>1, <1>2 DEF Hashes
<1>5. InFiles'
  <2>1. OnFile' = OnFile
    BY <1>2, <1>3 DEF OnFile
  <2> QED
    BY <1>1, <2>1, FilesKept
<1>6. Seams' \subseteq Seams \cup {f + 1}
  <2>1. ASSUME NEW k \in 2 .. Count' + 1, Seam(k)', k # f + 1 PROVE k \in Seams
    <3>1. k - 1 \in 1 .. Count /\ k - 1 # f /\ k \in 2 .. Count + 1
      BY <1>1, <1>2, <2>1
    <3>2. stage'[k - 1] = stage[k - 1]
      BY <1>2, <3>1
    <3>3. k <= Count => stage'[k] = stage[k] \/ stage'[k] = "lost"
      BY <1>1, <1>2, <3>1
    <3> QED
      BY <1>1, <1>2, <1>3, <2>1, <3>1, <3>2, <3>3 DEF Seams, Seam, Hash
  <2> QED
    BY <2>1 DEF Seams
<1>7. ~async' => \A i \in 1 .. Count' : stage'[i] \in Done'
  BY <1>1, <1>2 DEF ChainInv, Done
<1>8. /\ Cardinality(Seams') <= Cardinality(Seams) + 1
      /\ Cardinality(Seams) \in Nat /\ Cardinality(Seams') \in Nat
  BY <1>1, <1>2, <1>6, SeamCount
<1> QED
  BY <1>1, <1>2, <1>4, <1>5, <1>7, <1>8 DEF ChainInv

LEMMA RaiseChain ==
    ASSUME DiskInv, ChainInv, NEW th \in Threads, WriteRaises(th)
    PROVE  ChainInv'
<1> SUFFICES ASSUME ~cancelled' PROVE ChainInv'
  BY DEF ChainInv
<1>1. /\ With(th) # {} /\ ~cancelled /\ UNCHANGED <<async, prev, last, restarts>>
      /\ stage' = Move(th, "lost") /\ faults' = faults + 1
      /\ log' = log \/ log' = Append(log, 0)
      /\ Hashes /\ OnTheWay /\ InFiles /\ faults \in Nat /\ restarts \in Nat
      /\ Cardinality(Seams) <= faults + restarts /\ Count \in Nat
  BY DEF WriteRaises, Report, Line, chain, files, ChainInv, DiskInv, Shape, Count
<1>2. /\ Count' = Count
      /\ \A i \in 1 .. Count : stage'[i] = IF stage[i] = th THEN "lost" ELSE stage[i]
  BY <1>1, Moved DEF DiskInv, Count, Stages
<1>3. th \notin Done
  BY ChainAssumption DEF Done
<1>4. Seams' \subseteq Seams \cup {Count + 1}
  <2>1. {th} \cap Done = {}
    BY <1>3
  <2>2. \A i \in 1 .. Count : stage'[i] = IF stage[i] \in {th} THEN "lost" ELSE stage[i]
    BY <1>2
  <2> QED
    BY <1>1, <1>2, <2>1, <2>2, LostTail
<1>5. ASSUME NEW i \in 1 .. Count' PROVE stage'[i] \in Done
  <2>1. PICK j \in 1 .. Count : stage[j] = th
    BY <1>1 DEF With
  <2>2. stage[i] \notin Done => stage[i] = th
    BY <1>2, <1>1, <1>3, <2>1, SameWay
  <2> QED
    BY <1>2, <2>2 DEF Done
<1>6. OnTheWay' /\ Hashes'
  BY <1>1, <1>2, <1>5 DEF OnTheWay, Hashes, Done
<1>7. InFiles'
  <2>1. OnFile' = OnFile
    BY <1>2, <1>3 DEF OnFile, Done
  <2> QED
    BY <1>1, <2>1, FilesKept
<1>8. /\ Cardinality(Seams') <= Cardinality(Seams) + 1
      /\ Cardinality(Seams) \in Nat /\ Cardinality(Seams') \in Nat
  BY <1>1, <1>2, <1>4, SeamCount
<1> QED
  BY <1>1, <1>5, <1>6, <1>7, <1>8 DEF ChainInv, Done

LEMMA RestartChain ==
    ASSUME DiskInv, ChainInv, Restart
    PROVE  ChainInv'
<1> SUFFICES ASSUME ~cancelled' PROVE ChainInv'
  BY DEF ChainInv
<1>1. /\ ~cancelled /\ UNCHANGED <<async, prev, log, faults>>
      /\ last' = 0 /\ restarts' = restarts + 1
      /\ stage' = [i \in 1 .. Count |-> IF stage[i] = "written" THEN "written" ELSE "lost"]
      /\ Hashes /\ OnTheWay /\ InFiles /\ faults \in Nat /\ restarts \in Nat
      /\ Cardinality(Seams) <= faults + restarts /\ Count \in Nat
  BY DEF Restart, files, ChainInv, DiskInv, Shape, Count
<1>2. Count' = Count
  <2>1. stage' \in [1 .. Count -> Stages]
    BY <1>1 DEF Stages
  <2>2. stage' \in Seq(Stages)
    BY <1>1, <2>1, SeqDef
  <2> QED
    BY <1>1, <2>1, <2>2, LenProperties DEF Count
<1>3. Seams' \subseteq Seams \cup {Count + 1}
  <2> DEFINE A == Stages \ Done
  <2>1. A \cap Done = {}
    OBVIOUS
  <2>2. ASSUME NEW i \in 1 .. Count
        PROVE  stage'[i] = IF stage[i] \in A THEN "lost" ELSE stage[i]
    <3>1. stage[i] \in Stages
      BY DEF DiskInv, Shape, Count
    <3> QED
      BY <1>1, <3>1 DEF Done
  <2> HIDE DEF A
  <2> QED
    BY <1>1, <1>2, <2>1, <2>2, LostTail
<1>4. \A i \in 1 .. Count' : stage'[i] \in Done
  BY <1>1, <1>2 DEF Done
<1>5. OnTheWay' /\ Hashes'
  BY <1>1, <1>2, <1>4 DEF OnTheWay, Hashes, Done
<1>6. InFiles'
  <2>1. OnFile' = OnFile
    BY <1>1, <1>2 DEF OnFile
  <2> QED
    BY <1>1, <2>1, FilesKept
<1>7. /\ Cardinality(Seams') <= Cardinality(Seams) + 1
      /\ Cardinality(Seams) \in Nat /\ Cardinality(Seams') \in Nat
  BY <1>1, <1>2, <1>3, SeamCount
<1> QED
  BY <1>1, <1>4, <1>5, <1>6, <1>7 DEF ChainInv, Done

\* Whoever leaves a write under way leaves a cancellation; others leave nothing.
LEMMA LeaveChain ==
    ASSUME DiskInv, ChainInv, NEW w, NEW where, Leave(w, where),
           UNCHANGED <<async, prev, last, log, faults, restarts>>
    PROVE  ChainInv'
<1>1. CASE holder = w
  BY <1>1 DEF Leave, ChainInv
<1>2. CASE holder # w
  BY <1>2, ChainQuiet DEF Leave, Count
<1> QED
  BY <1>1, <1>2

LEMMA ChainStep == DiskInv /\ ChainInv /\ [Next]_vars => ChainInv'
<1> SUFFICES ASSUME DiskInv, ChainInv, [Next]_vars PROVE ChainInv'
  OBVIOUS
<1>1. ASSUME NEW c \in Callers, Call(c) PROVE ChainInv'
  BY <1>1, ChainQuiet DEF Call, chain, files, Count
<1>2. CASE LoopWakes \/ LoopIdles
  BY <1>2, ChainQuiet DEF LoopWakes, LoopIdles, chain, files, Count
<1>3. ASSUME NEW w \in Writers, Written(w) PROVE ChainInv'
  BY <1>3, ChainQuiet DEF Written, files, Count
<1>4. ASSUME NEW c \in Callers, Cancel(c) PROVE ChainInv'
  BY <1>4, LeaveChain DEF Cancel, chain, files
<1>5. CASE shutdown
  BY <1>5, LeaveChain DEF shutdown, chain, files
<1>6. CASE UNCHANGED vars
  BY <1>6, ChainQuiet DEF vars, chain, files, Count
<1> QED
  BY <1>1, <1>2, <1>3, <1>4, <1>5, <1>6, EnqueueChain, FlushChain, SyncChain, LoopChain,
     PickUpChain, WriteChain, SkipChain, RaiseChain, RestartChain DEF Next

\* The lines are where the order of their entries puts them.
LEMMA InOrderOfChain ==
    ASSUME InFiles, NEW m \in 1 .. Len(log), NEW n \in 1 .. Len(log),
           log[m] # 0, log[n] # 0
    PROVE  /\ log[m] < log[n] => m < n
           /\ log[m] = log[n] => m = n
<1>1. log[m] \in Nat /\ log[n] \in Nat /\ m \in Int /\ n \in Int
  BY DEF InFiles, OnFile
<1>2. m < n => log[m] < log[n]
  BY DEF InFiles
<1>3. n < m => log[n] < log[m]
  BY DEF InFiles
<1> QED
  BY <1>1, <1>2, <1>3

\* Every break on disk is at a seam, and none at the same one as another.
LEMMA BreaksAtSeams ==
    ASSUME DiskInv, ChainInv, ~cancelled
    PROVE  Cardinality(Breaks) <= faults + restarts
<1>1. /\ Hashes /\ OnTheWay /\ InFiles /\ Count \in Nat
      /\ Cardinality(Seams) <= faults + restarts /\ faults \in Nat /\ restarts \in Nat
  BY DEF ChainInv, DiskInv, Shape, Count
<1>2. ASSUME NEW n \in Breaks PROVE log[n] \in Seams
  <2> DEFINE k == log[n]
  <2>1. /\ n \in 1 .. Len(log) /\ Len(log) \in Nat /\ k # 0 /\ ~Chained(n)
        /\ k \in 1 .. Count /\ stage[k] = "written"
        /\ prev[k] \in {0, k - 1}
    BY <1>1, <1>2 DEF Breaks, InFiles, OnFile, Hashes
  <2>2. \A m \in Entries(n) : m \in 1 .. Len(log) /\ log[m] \in 1 .. Count /\ log[m] < k
    BY <1>1, <2>1 DEF Entries, InFiles, OnFile
  <2>3. k # 1
    <3> SUFFICES ASSUME k = 1 PROVE FALSE
      OBVIOUS
    <3>1. Entries(n) = {} /\ prev[k] = 0
      BY <2>1, <2>2
    <3> QED
      BY <2>1, <3>1 DEF Chained
  <2>4. k \in 2 .. Count + 1 /\ k - 1 \in 1 .. Count /\ k <= Count
    BY <1>1, <2>1, <2>3
  <2>5. CASE prev[k] = 0
    BY <2>4, <2>5 DEF Seams, Seam, Hash
  <2>6. CASE prev[k] = k - 1
    <3>1. stage[k - 1] # "written"
      <4> SUFFICES ASSUME stage[k - 1] = "written" PROVE FALSE
        OBVIOUS
      <4>1. PICK m \in 1 .. Len(log) : log[m] = k - 1
        BY <1>1, <2>4 DEF InFiles, OnFile
      <4>2. m < n
        <5>1. log[m] # 0 /\ log[m] < k
          BY <2>1, <2>4, <4>1
        <5> QED
          BY <1>1, <2>1, <5>1, InOrderOfChain
      <4>3. m \in Entries(n)
        BY <2>1, <2>4, <4>1, <4>2 DEF Entries
      <4>4. ASSUME NEW j \in Entries(n) PROVE j <= m
        <5>1. j \in 1 .. Len(log) /\ log[j] \in 1 .. Count /\ log[j] < k
          BY <2>2
        <5>2. log[m] # 0 /\ log[j] # 0 /\ (log[j] < log[m] \/ log[j] = log[m])
          BY <1>1, <2>1, <2>4, <4>1, <5>1
        <5>3. j < m \/ j = m
          BY <1>1, <5>1, <5>2, InOrderOfChain
        <5> QED
          BY <2>1, <5>1, <5>3
      <4> QED
        BY <2>1, <2>6, <4>1, <4>3, <4>4 DEF Chained
    <3>2. stage[k - 1] \in Done
      BY <1>1, <2>1, <2>4 DEF OnTheWay, Done
    <3> QED
      BY <2>1, <2>4, <3>1, <3>2 DEF Seams, Seam, Done
  <2> QED
    BY <2>1, <2>5, <2>6
<1>3. [n \in Breaks |-> log[n]] \in Injection(Breaks, Seams)
  <2>1. [n \in Breaks |-> log[n]] \in [Breaks -> Seams]
    BY <1>2
  <2>2. ASSUME NEW m \in Breaks, NEW n \in Breaks, log[m] = log[n] PROVE m = n
    <3>1. m \in 1 .. Len(log) /\ n \in 1 .. Len(log) /\ log[m] # 0 /\ log[n] # 0
      BY DEF Breaks
    <3> QED
      BY <1>1, <2>2, <3>1, InOrderOfChain
  <2> QED
    BY <2>1, <2>2 DEF Injection, IsInjective
<1>4. IsFiniteSet(Seams)
  <2>1. IsFiniteSet(2 .. Count + 1)
    BY <1>1, FS_Interval
  <2>2. Seams \subseteq 2 .. Count + 1
    BY DEF Seams
  <2> QED
    BY <2>1, <2>2, FS_Subset
<1>5. /\ IsFiniteSet(Breaks) /\ Cardinality(Breaks) <= Cardinality(Seams)
  BY <1>3, <1>4, FS_Injection
<1>6. Cardinality(Breaks) \in Nat /\ Cardinality(Seams) \in Nat
  BY <1>4, <1>5, FS_CardinalityType
<1> QED
  BY <1>1, <1>5, <1>6

\* Each break of the chain on disk is accounted for by a failed write or a
\* restart, for any batches, threads and rotations.
THEOREM ChainKept == Spec => []BreaksExplained
<1>1. DiskInv /\ ChainInv => BreaksExplained
  BY BreaksAtSeams DEF BreaksExplained
<1> QED
  BY <1>1, DiskInit, DiskStep, ChainInit, ChainStep, PTL DEF Spec

----------------------------------------------------------------------------
(* Types                                                                    *)

Kinds ==
    /\ async \in BOOLEAN /\ closed \in BOOLEAN /\ cancelled \in BOOLEAN
    /\ at \in [Writers -> {"off", "out", "lock", "writing"}]
    /\ holder \in Writers \cup {Nobody}
    /\ critical \in BOOLEAN
    /\ worker \in Threads \cup {Nobody}
    /\ log \in Seq(Nat) /\ cuts \subseteq Nat
    /\ restarts \in Nat
    /\ holder # Nobody => at[holder] = "writing"

Short == Cardinality(Queued) < BatchSize

LEMMA LineKinds ==
    ASSUME log \in Seq(Nat), cuts \subseteq Nat, NEW x \in Nat, Line(x)
    PROVE  log' \in Seq(Nat) /\ cuts' \subseteq Nat
<1>1. log' \in Seq(Nat)
  BY AppendProperties DEF Line
<1>2. Len(log) + 1 \in Nat
  BY LenProperties
<1> QED
  BY <1>1, <1>2 DEF Line

LEMMA KindsStep == DiskInv /\ Kinds /\ [Next]_vars => Kinds'
<1> SUFFICES ASSUME DiskInv, Kinds, [Next]_vars PROVE Kinds'
  OBVIOUS
<1> USE ChainAssumption DEF Kinds
<1>0. Count + 1 \in Nat /\ 0 \in Nat /\ Writers = Callers \cup {Loop}
  BY DEF DiskInv, Shape, Count, Writers
<1>1. ASSUME NEW c \in Callers, Call(c) \/ Enqueue(c) PROVE Kinds'
  BY <1>0, <1>1 DEF Call, Enqueue, Acquired, Awake, lock, files
<1>2. ASSUME NEW c \in Callers, LogSync(c) PROVE Kinds'
  <2>1. log' \in Seq(Nat) /\ cuts' \subseteq Nat
    BY <1>0, <1>2, LineKinds DEF LogSync, Report
  <2> QED
    BY <1>0, <1>2, <2>1 DEF LogSync, Acquired, lock
<1>3. ASSUME NEW c \in Callers, NEW crit \in BOOLEAN, Flush(c, crit) PROVE Kinds'
  <2>1. CASE closed
    <3>1. log' \in Seq(Nat) /\ cuts' \subseteq Nat
      BY <1>0, <1>3, <2>1, LineKinds DEF Flush, Report
    <3> QED
      BY <1>0, <1>3, <2>1, <3>1 DEF Flush, Acquired, Awake, lock
  <2>2. CASE ~closed
    BY <1>0, <1>3, <2>2 DEF Flush, Acquired, Awake, files
  <2> QED
    BY <2>1, <2>2
<1>4. CASE LoopFlush
  <2>1. CASE closed
    <3>1. log' \in Seq(Nat) /\ cuts' \subseteq Nat
      BY <1>0, <1>4, <2>1, LineKinds DEF LoopFlush, Report
    <3> QED
      BY <1>0, <1>4, <2>1, <3>1 DEF LoopFlush, Acquired, lock
  <2>2. CASE ~closed
    BY <1>0, <1>4, <2>2 DEF LoopFlush, Acquired, files
  <2> QED
    BY <2>1, <2>2
<1>5. CASE LoopWakes \/ LoopIdles
  BY <1>0, <1>5 DEF LoopWakes, LoopIdles, Acquired, lock, files
<1>6. ASSUME NEW th \in Threads, PickUp(th) \/ WriteSkips(th) PROVE Kinds'
  BY <1>6 DEF PickUp, WriteSkips, lock, files
<1>7. ASSUME NEW th \in Threads, Write(th) PROVE Kinds'
  <2>1. First(With(th)) \in Nat
    <3>1. With(th) \in SUBSET Nat /\ With(th) # {}
      BY <1>7 DEF Write, With
    <3> QED
      BY <3>1, FirstOf
  <2>2. log' \in Seq(Nat) /\ cuts' \subseteq Nat
    BY <1>7, <2>1, LineKinds DEF Write
  <2> QED
    BY <1>7, <2>2 DEF Write, lock
<1>8. ASSUME NEW th \in Threads, WriteRaises(th) PROVE Kinds'
  <2>1. log' \in Seq(Nat) /\ cuts' \subseteq Nat
    BY <1>0, <1>8, LineKinds DEF WriteRaises, Report, files
  <2> QED
    BY <1>8, <2>1 DEF WriteRaises, lock
<1>9. ASSUME NEW w \in Writers, Written(w) PROVE Kinds'
  BY <1>9 DEF Written, files
<1>10. ASSUME NEW c \in Callers, Cancel(c) PROVE Kinds'
  BY <1>0, <1>10 DEF Cancel, Leave, lock, files
<1>11. CASE shutdown
  BY <1>0, <1>11 DEF shutdown, Leave, lock, files
<1>12. CASE Restart
  <2>1. at' \in [Writers -> {"off", "out", "lock", "writing"}]
    BY <1>12, Zenon DEF Restart
  <2>2. holder' = Nobody /\ worker' = Nobody /\ UNCHANGED <<async, log, cuts, cancelled>>
    BY <1>12 DEF Restart, files
  <2>3. closed' \in BOOLEAN /\ critical' \in BOOLEAN
    BY <1>12, Zenon DEF Restart
  <2>4. restarts' \in Nat
    BY <1>12, <1>0 DEF Restart
  <2> QED
    BY <2>1, <2>2, <2>3, <2>4
<1>13. CASE UNCHANGED vars
  BY <1>13 DEF vars, lock, files
<1> QED
  BY <1>1, <1>2, <1>3, <1>4, <1>5, <1>6, <1>7, <1>8, <1>9, <1>10, <1>11, <1>12, <1>13 DEF Next

\* A queue that does not grow stays short.
LEMMA ShortKept ==
    ASSUME Short, Shape, Queued' \subseteq Queued
    PROVE  Short'
<1>1. IsFiniteSet(Queued)
  <2>1. Queued \subseteq 1 .. Count /\ Count \in Nat
    BY DEF Queued, Shape, Count
  <2>2. IsFiniteSet(1 .. Count)
    BY <2>1, FS_Interval
  <2> QED
    BY <2>1, <2>2, FS_Subset
<1>2. /\ Cardinality(Queued') <= Cardinality(Queued)
      /\ Cardinality(Queued) \in Nat /\ Cardinality(Queued') \in Nat
  BY <1>1, FS_Subset, FS_CardinalityType
<1> QED
  BY <1>2, ChainAssumption DEF Short

LEMMA ShortStep == DiskInv /\ Short /\ [Next]_vars => Short'
<1> SUFFICES ASSUME DiskInv, Short, [Next]_vars PROVE Short'
  OBVIOUS
<1>0. Shape /\ Count \in Nat /\ Stages = {"queued", "handed", "written", "lost"} \cup Threads
  BY DEF DiskInv, Shape, Count, Stages
<1>1. ASSUME NEW c \in Callers, Enqueue(c) PROVE Short'
  <2>1. stage' = Append(stage, "queued") /\ Cardinality(Queued) + 1 < BatchSize
    BY <1>1 DEF Enqueue
  <2>2. Queued' = Queued \cup {Count + 1}
    <3>1. /\ Count' = Count + 1 /\ \A i \in 1 .. Count : stage'[i] = stage[i]
          /\ stage'[Count + 1] = "queued"
      BY <1>0, <2>1, Appended DEF Shape, Count
    <3>2. 1 .. Count' = (1 .. Count) \cup {Count + 1}
      BY <1>0, <3>1
    <3> QED
      BY <3>1, <3>2 DEF Queued
  <2>3. IsFiniteSet(Queued) /\ Count + 1 \notin Queued
    <3>1. Queued \subseteq 1 .. Count
      BY DEF Queued
    <3>2. IsFiniteSet(1 .. Count)
      BY <1>0, FS_Interval
    <3>3. Count + 1 \notin Queued
      BY <1>0, <3>1
    <3> QED
      BY <3>1, <3>2, <3>3, FS_Subset
  <2>4. Cardinality(Queued') = Cardinality(Queued) + 1
    BY <2>2, <2>3, FS_AddElement
  <2> QED
    BY <2>1, <2>4 DEF Short
<1>2. ASSUME NEW c \in Callers, LogSync(c) PROVE Short'
  <2>1. PICK b \in {"written", "lost"} : stage' = Append(stage, b)
    BY <1>2 DEF LogSync
  <2>2. /\ Count' = Count + 1 /\ \A i \in 1 .. Count : stage'[i] = stage[i]
        /\ stage'[Count + 1] = b
    BY <1>0, <2>1, Appended DEF Shape, Count
  <2>3. Queued' \subseteq Queued
    BY <1>0, <2>2 DEF Queued
  <2> QED
    BY <1>0, <2>3, ShortKept
<1>3. ASSUME NEW c \in Callers, NEW crit \in BOOLEAN, Flush(c, crit) PROVE Short'
  <2>1. PICK b \in {"handed", "lost"} : stage' = Append(Move("queued", b), b)
    BY <1>3 DEF Flush
  <2>2. /\ Count' = Count + 1 /\ stage'[Count + 1] = b
        /\ \A i \in 1 .. Count : stage'[i] = IF stage[i] = "queued" THEN b ELSE stage[i]
    <3>1. /\ Move("queued", b) \in Seq(Stages) /\ Len(Move("queued", b)) = Count
          /\ \A i \in 1 .. Count : Move("queued", b)[i] = IF stage[i] = "queued" THEN b ELSE stage[i]
      BY <1>0, Moved
    <3> QED
      BY <1>0, <2>1, <3>1, Appended DEF Count
  <2>3. Queued' \subseteq Queued
    BY <1>0, <2>2 DEF Queued
  <2> QED
    BY <1>0, <2>3, ShortKept
<1>4. ASSUME NEW a, NEW b \in Stages \ {"queued"}, stage' = Move(a, b) PROVE Short'
  <2>1. /\ Len(Move(a, b)) = Count
        /\ \A i \in 1 .. Count : Move(a, b)[i] = IF stage[i] = a THEN b ELSE stage[i]
    BY <1>0, Moved
  <2>2. Queued' \subseteq Queued
    BY <1>4, <2>1 DEF Queued, Count
  <2> QED
    BY <1>0, <2>2, ShortKept
<1>5. CASE LoopFlush
  BY <1>0, <1>4, <1>5 DEF LoopFlush
<1>6. ASSUME NEW th \in Threads, PickUp(th) \/ WriteRaises(th) PROVE Short'
  BY <1>0, <1>4, <1>6, NoThread DEF PickUp, WriteRaises
<1>7. ASSUME NEW th \in Threads, Write(th) \/ WriteSkips(th) PROVE Short'
  <2>1. PICK b \in {"written", "lost"} : stage' = [stage EXCEPT ![First(With(th))] = b]
    BY <1>7 DEF Write, WriteSkips
  <2>2. Count' = Count /\ \A i \in 1 .. Count : stage'[i] = stage[i] \/ stage'[i] = b
    BY <1>0, <2>1, OneChanged DEF Count
  <2>3. Queued' \subseteq Queued
    BY <2>2 DEF Queued
  <2> QED
    BY <1>0, <2>3, ShortKept
<1>8. ASSUME UNCHANGED stage PROVE Short'
  BY <1>8 DEF Short, Queued, Count
<1>9. CASE (\E c \in Callers : Cancel(c)) \/ shutdown
  <2>1. stage' = Move("handed", "lost") \/ UNCHANGED stage
    BY <1>9 DEF Cancel, shutdown, Leave
  <2> QED
    BY <1>0, <1>4, <1>8, <2>1
<1>10. CASE Restart
  <2>1. stage' = [i \in 1 .. Count |-> IF stage[i] = "written" THEN "written" ELSE "lost"]
    BY <1>10 DEF Restart
  <2>2. Queued' = {}
    BY <2>1, RestartStep, <1>10, <1>0, LenProperties DEF Queued, DiskInv, Shape, Count
  <2> QED
    BY <1>0, <2>2, ShortKept
<1>11. CASE (\E c \in Callers : Call(c)) \/ LoopWakes \/ LoopIdles \/ (\E w \in Writers : Written(w))
            \/ UNCHANGED vars
  BY <1>8, <1>11 DEF Call, LoopWakes, LoopIdles, Written, vars
<1> QED
  BY <1>1, <1>2, <1>3, <1>5, <1>6, <1>7, <1>9, <1>10, <1>11 DEF Next

\* The log is well typed: one hash per entry, a holder of the lock that is at
\* its write, and a queue that stays below the size of a batch.
THEOREM TypeCorrect == Spec => []TypeOK
<1>1. Init => Kinds /\ Short
  <2> SUFFICES ASSUME Init PROVE Kinds /\ Short
    OBVIOUS
  <2>1. Count = 0
    BY DEF Init, Count
  <2>2. Queued = {}
    BY <2>1 DEF Queued
  <2>3. Short
    BY <2>2, FS_EmptySet, ChainAssumption DEF Short
  <2>4. at \in [Writers -> {"off", "out", "lock", "writing"}]
    BY Zenon DEF Init
  <2>5. /\ async \in BOOLEAN /\ closed = FALSE /\ cancelled = FALSE /\ critical = FALSE
        /\ holder = Nobody /\ worker = Nobody /\ restarts = 0
        /\ log \in Seq(Nat) /\ cuts = {}
    BY EmptySeq DEF Init
  <2>6. Kinds
    BY <2>4, <2>5 DEF Kinds
  <2> QED
    BY <2>3, <2>6
<1>2. DiskInv /\ Kinds /\ Short => TypeOK
  BY DEF DiskInv, Shape, Stages, Kinds, Short, TypeOK
<1> QED
  BY <1>1, <1>2, DiskInit, DiskStep, KindsStep, ShortStep, PTL DEF Spec

----------------------------------------------------------------------------
(* The log is a journal.  What it has not put down is what is not Done;     *)
(* that it is put down in order is OnTheWay, and that one failure takes the *)
(* first or all of it is Batch.                                             *)

JournalInv == DiskInv /\ ChainInv

LEMMA PendingIs ==
    ASSUME Shape
    PROVE  /\ Record!Pending = {i \in 1 .. Count : stage[i] \notin Done}
           /\ Count \in Nat /\ \A i \in 1 .. Count : stage[i] \in Stages
BY DEF Shape, Count, With, Done, Record!Pending

\* While the lock is free what waits is in the queue.
LEMMA FreeQueued ==
    ASSUME DiskInv, holder = Nobody
    PROVE  Queued \subseteq Record!Pending /\ (~cancelled => Queued = Record!Pending)
<1>1. /\ Record!Pending = {i \in 1 .. Count : stage[i] \notin Done}
      /\ \A i \in 1 .. Count : stage[i] \in Stages
  BY PendingIs DEF DiskInv
<1>2. Queued \subseteq Record!Pending
  BY <1>1 DEF Queued, Done
<1>3. ASSUME ~cancelled, NEW i \in 1 .. Count, stage[i] \notin Done PROVE stage[i] = "queued"
  BY <1>1, <1>3, FreeBefore DEF Done, Stages
<1> QED
  BY <1>1, <1>2, <1>3 DEF Queued

\* A new entry is chained to the last one, or apart from it after a restart.
LEMMA Numbered ==
    ASSUME Shape, Link, Count' = Count + 1
    PROVE  Record!Number
<1>1. /\ Count \in Nat /\ last \in Nat /\ last' = Count + 1
      /\ \A i \in 1 .. Count : prev'[i] = prev[i]
      /\ prev'[Count + 1] = last
  BY Linked DEF Shape, Count
<1>2. Apart' = IF last = Count THEN Apart ELSE Apart \cup {Count + 1}
  <2>1. 1 .. Count' = (1 .. Count) \cup {Count + 1}
    BY <1>1
  <2>2. Count + 1 \notin 1 .. Count /\ (Count + 1) - 1 = Count
    BY <1>1
  <2> QED
    BY <1>1, <2>1, <2>2 DEF Apart
<1>3. (last' = Count') = TRUE
  BY <1>1
<1> QED
  BY <1>2, <1>3 DEF Record!Number

LEMMA EnqueueRecords ==
    ASSUME JournalInv, NEW c \in Callers, Enqueue(c)
    PROVE  Record!Log
<1>1. /\ Link /\ stage' = Append(stage, "queued") /\ Shape
      /\ UNCHANGED <<log, acked, faults, restarts, cancelled>>
  BY DEF Enqueue, files, JournalInv, DiskInv
<1>2. /\ Count' = Count + 1 /\ Count \in Nat
      /\ \A i \in 1 .. Count : stage'[i] = stage[i]
      /\ stage'[Count + 1] = "queued"
  BY <1>1, Appended DEF Shape, Stages, Count
<1>3. UNCHANGED <<With("written"), With("lost")>>
  BY <1>2 DEF With
<1> QED
  BY <1>1, <1>2, <1>3, Numbered DEF Record!Log

LEMMA SyncRecords ==
    ASSUME JournalInv, NEW c \in Callers, LogSync(c)
    PROVE  Record!LogAndPutDown \/ Record!LogInVain({})
<1>1. /\ Link /\ Shape /\ UNCHANGED <<acked, restarts, cancelled>>
  BY DEF LogSync, JournalInv, DiskInv
<1>2. cancelled \/ Record!Pending = {}
  BY PendingIs, <1>1 DEF LogSync, JournalInv, ChainInv
<1>3. ASSUME NEW b \in Done, stage' = Append(stage, b)
      PROVE  /\ Count' = Count + 1 /\ Count \in Nat
             /\ With("written")' = With("written") \cup (IF b = "written" THEN {Count + 1} ELSE {})
             /\ With("lost")' = With("lost") \cup (IF b = "lost" THEN {Count + 1} ELSE {})
  <2>1. /\ Count' = Count + 1 /\ Count \in Nat
        /\ \A i \in 1 .. Count : stage'[i] = stage[i]
        /\ stage'[Count + 1] = b
    BY <1>1, <1>3, Appended DEF Shape, Stages, Count, Done
  <2>2. 1 .. Count' = (1 .. Count) \cup {Count + 1}
    BY <2>1
  <2> QED
    BY <2>1, <2>2 DEF With, Done
<1>4. CASE Line(Count + 1) /\ stage' = Append(stage, "written") /\ UNCHANGED faults
  <2>1. /\ Count' = Count + 1 /\ UNCHANGED With("lost")
        /\ With("written")' = With("written") \cup {Count + 1}
    BY <1>3, <1>4 DEF Done
  <2>2. log' = Append(log, Count + 1)
    BY <1>4 DEF Line
  <2> QED
    BY <1>1, <1>2, <1>4, <2>1, <2>2, Numbered DEF Record!LogAndPutDown
<1>5. CASE Report /\ stage' = Append(stage, "lost")
  <2>1. /\ Count' = Count + 1 /\ UNCHANGED With("written")
        /\ With("lost")' = With("lost") \cup {Count + 1}
    BY <1>3, <1>5 DEF Done
  <2>2. log' = Append(log, 0) /\ faults' = faults + 1
    BY <1>5 DEF Report, Line
  <2>3. Record!Fails({}, {Count + 1})
    BY <1>2, <2>1, <2>2 DEF Record!Fails
  <2> QED
    BY <1>1, <2>1, <2>3, Numbered DEF Record!LogInVain
<1> QED
  BY <1>4, <1>5 DEF LogSync

LEMMA FlushRecords ==
    ASSUME JournalInv, NEW c \in Callers, NEW crit \in BOOLEAN, Flush(c, crit)
    PROVE  Record!Log \/ Record!LogInVain(Queued)
<1>1. /\ holder = Nobody /\ Link /\ Shape /\ UNCHANGED <<acked, restarts, cancelled>>
      /\ Count \in Nat
  BY DEF Flush, Acquired, JournalInv, DiskInv, Shape, Count
<1>2. ASSUME NEW b \in Stages, stage' = Append(Move("queued", b), b)
      PROVE  /\ Count' = Count + 1 /\ 1 .. Count' = (1 .. Count) \cup {Count + 1}
             /\ \A i \in 1 .. Count : stage'[i] = IF stage[i] = "queued" THEN b ELSE stage[i]
             /\ stage'[Count + 1] = b
  BY <1>1, <1>2, Moved, Appended DEF Count
<1>3. CASE closed
  <2>1. /\ stage' = Append(Move("queued", "lost"), "lost")
        /\ faults' = faults + 1 /\ log' = Append(log, 0)
    BY <1>3 DEF Flush, Report, Line
  <2>2. /\ Count' = Count + 1 /\ 1 .. Count' = (1 .. Count) \cup {Count + 1}
        /\ \A i \in 1 .. Count : stage'[i] = IF stage[i] = "queued" THEN "lost" ELSE stage[i]
        /\ stage'[Count + 1] = "lost"
    BY <1>2, <2>1 DEF Stages
  <2>3. /\ UNCHANGED With("written")
        /\ With("lost")' = With("lost") \cup Queued \cup {Count + 1}
    BY <2>2 DEF With, Queued
  <2>4. Record!Fails(Queued, {Count + 1})
    BY <1>1, <2>1, <2>3, FreeQueued DEF Record!Fails, JournalInv
  <2> QED
    BY <1>1, <2>2, <2>3, <2>4, Numbered DEF Record!LogInVain
<1>4. CASE ~closed
  <2>1. /\ stage' = Append(Move("queued", "handed"), "handed")
        /\ UNCHANGED <<log, faults>>
    BY <1>4 DEF Flush, files
  <2>2. /\ Count' = Count + 1 /\ 1 .. Count' = (1 .. Count) \cup {Count + 1}
        /\ \A i \in 1 .. Count : stage'[i] = IF stage[i] = "queued" THEN "handed" ELSE stage[i]
        /\ stage'[Count + 1] = "handed"
    BY <1>2, <2>1 DEF Stages
  <2>3. UNCHANGED <<With("written"), With("lost")>>
    BY <2>2 DEF With
  <2> QED
    BY <1>1, <2>1, <2>2, <2>3, Numbered DEF Record!Log
<1> QED
  BY <1>3, <1>4

\* What changes hands without being written or lost does not show.
LEMMA Unseen ==
    ASSUME Count' = Count,
           \A i \in 1 .. Count : stage'[i] = stage[i] \/ (stage[i] \notin Done /\ stage'[i] \notin Done),
           UNCHANGED <<last, prev, log, acked, faults, restarts, cancelled>>
    PROVE  UNCHANGED Record!vars
<1>1. UNCHANGED <<With("written"), With("lost"), Apart>>
  BY DEF With, Apart, Done
<1>2. UNCHANGED (last = Count)
  OBVIOUS
<1> QED
  BY <1>1, <1>2 DEF Record!vars

\* Some of what waits is lost.
LEMMA SomeLost ==
    ASSUME Shape, Count' = Count, NEW S \in SUBSET (1 .. Count),
           \A i \in S : stage[i] # "written",
           \A i \in 1 .. Count : stage'[i] = IF i \in S THEN "lost" ELSE stage[i],
           UNCHANGED prev
    PROVE  /\ UNCHANGED <<Count, With("written"), Apart>>
           /\ With("lost")' = With("lost") \cup S
BY DEF With, Apart

LEMMA LoopRecords ==
    ASSUME JournalInv, LoopFlush
    PROVE  Record!Fail(Queued) \/ UNCHANGED Record!vars
<1>1. /\ holder = Nobody /\ Shape /\ UNCHANGED <<last, prev, acked, restarts, cancelled>>
  BY DEF LoopFlush, Acquired, chain, JournalInv, DiskInv
<1>2. ASSUME NEW b \in Stages, stage' = Move("queued", b)
      PROVE  /\ Count' = Count
             /\ \A i \in 1 .. Count : stage'[i] = IF stage[i] = "queued" THEN b ELSE stage[i]
  BY <1>1, <1>2, Moved DEF Count
<1>3. CASE closed
  <2>1. /\ stage' = Move("queued", "lost")
        /\ faults' = faults + 1 /\ log' = Append(log, 0)
    BY <1>3 DEF LoopFlush, Report, Line
  <2>2. /\ Count' = Count
        /\ \A i \in 1 .. Count : stage'[i] = IF i \in Queued THEN "lost" ELSE stage[i]
    BY <1>2, <2>1 DEF Stages, Queued
  <2>3. Queued \subseteq 1 .. Count /\ \A i \in Queued : stage[i] # "written"
    BY DEF Queued
  <2>4. /\ UNCHANGED <<Count, With("written"), Apart>>
        /\ With("lost")' = With("lost") \cup Queued
    BY <1>1, <2>2, <2>3, SomeLost
  <2>5. Record!Fails(Queued, {})
    BY <1>1, <2>1, <2>4, FreeQueued DEF Record!Fails, JournalInv
  <2>6. UNCHANGED (last = Count)
    BY <1>1, <2>4
  <2> QED
    BY <1>1, <2>4, <2>5, <2>6 DEF Record!Fail
<1>4. CASE ~closed
  <2>1. stage' = Move("queued", "handed") /\ UNCHANGED <<log, faults>>
    BY <1>4 DEF LoopFlush, files
  <2>2. /\ Count' = Count
        /\ \A i \in 1 .. Count : stage'[i] = IF stage[i] = "queued" THEN "handed" ELSE stage[i]
    BY <1>2, <2>1 DEF Stages
  <2> QED
    BY <1>1, <2>1, <2>2, Unseen DEF Done
<1> QED
  BY <1>3, <1>4

LEMMA PickUpRecords ==
    ASSUME JournalInv, NEW th \in Threads, PickUp(th)
    PROVE  UNCHANGED Record!vars
<1>1. /\ stage' = Move("handed", th) /\ Shape /\ th \in Stages /\ th \notin Done
      /\ UNCHANGED <<last, prev, acked, log, faults, restarts, cancelled>>
  BY ChainAssumption DEF PickUp, chain, files, JournalInv, DiskInv, Stages, Done
<1>2. /\ Len(Move("handed", th)) = Count
      /\ \A i \in 1 .. Count : Move("handed", th)[i] = IF stage[i] = "handed" THEN th ELSE stage[i]
  BY <1>1, Moved
<1>3. /\ Count' = Count
      /\ \A i \in 1 .. Count : stage'[i] = IF stage[i] = "handed" THEN th ELSE stage[i]
  BY <1>1, <1>2 DEF Count
<1> QED
  BY <1>1, <1>3, Unseen DEF Done

\* What a thread writes or loses first is the first thing that waits.
LEMMA ThreadFirst ==
    ASSUME JournalInv, NEW th \in Threads, With(th) # {},
           NEW b \in Done, stage' = [stage EXCEPT ![First(With(th))] = b]
    PROVE  /\ First(With(th)) \in Record!Pending /\ Record!NoneBefore(First(With(th)))
           /\ First(With(th)) \in 1 .. Count
           /\ stage[First(With(th))] = th
           /\ Count' = Count
           /\ \A i \in 1 .. Count : stage'[i] = IF i = First(With(th)) THEN b ELSE stage[i]
<1> DEFINE f == First(With(th))
<1>1. /\ Shape /\ Count \in Nat
      /\ Record!Pending = {i \in 1 .. Count : stage[i] \notin Done}
  BY PendingIs DEF JournalInv, DiskInv
<1>2. f \in With(th)
  <2>1. With(th) \in SUBSET Nat
    BY DEF With
  <2> QED
    BY <2>1, FirstOf
<1>3. f \in 1 .. Count /\ stage[f] = th /\ th \notin Done
  BY <1>2, ChainAssumption DEF With, Done
<1>4. /\ Count' = Count
      /\ \A i \in 1 .. Count : stage'[i] = IF i = f THEN b ELSE stage[i]
  <2>1. b \in Stages
    BY DEF Done, Stages
  <2>2. stage \in [1 .. Count -> Stages]
    BY <1>1, LenProperties DEF Shape, Count
  <2> QED
    BY <1>1, <1>3, <2>1, <2>2, OneChanged DEF Count
<1>5. ASSUME ~cancelled, NEW i \in Record!Pending PROVE f <= i
  <2>1. \A j \in 1 .. Count : j < f => stage[j] \in Done
    BY <1>5, FirstOnTheWay DEF JournalInv
  <2> QED
    BY <1>1, <1>3, <1>5, <2>1
<1> QED
  BY <1>1, <1>3, <1>4, <1>5 DEF Record!NoneBefore

LEMMA WriteRecords ==
    ASSUME JournalInv, NEW th \in Threads, Write(th)
    PROVE  \E i \in 1 .. Count : Record!PutDown(i)
<1> DEFINE f == First(With(th))
<1>1. /\ With(th) # {} /\ stage' = [stage EXCEPT ![f] = "written"] /\ log' = Append(log, f)
      /\ UNCHANGED <<last, prev, acked, faults, restarts, cancelled>>
  BY DEF Write, Line, chain
<1>2. /\ f \in Record!Pending /\ Record!NoneBefore(f)
      /\ f \in 1 .. Count /\ stage[f] = th /\ Count' = Count
      /\ \A i \in 1 .. Count : stage'[i] = IF i = f THEN "written" ELSE stage[i]
  BY <1>1, ThreadFirst DEF Done
<1>3. /\ With("written")' = With("written") \cup {f}
      /\ UNCHANGED <<With("lost"), Apart>>
  BY <1>1, <1>2, NoThread DEF With, Apart
<1>4. UNCHANGED (last = Count)
  BY <1>1, <1>2
<1> HIDE DEF f
<1>5. Record!PutDown(f)
  BY <1>1, <1>2, <1>3, <1>4 DEF Record!PutDown
<1> QED
  BY <1>2, <1>5

LEMMA SkipRecords ==
    ASSUME JournalInv, NEW th \in Threads, WriteSkips(th)
    PROVE  \E S \in SUBSET Record!Pending : Record!Fail(S)
<1> DEFINE f == First(With(th))
<1>1. /\ With(th) # {} /\ stage' = [stage EXCEPT ![f] = "lost"] /\ faults' = faults + 1
      /\ UNCHANGED <<last, prev, acked, log, restarts, cancelled>> /\ Shape
  BY DEF WriteSkips, chain, files, JournalInv, DiskInv
<1>2. /\ f \in Record!Pending /\ Record!NoneBefore(f)
      /\ f \in 1 .. Count /\ stage[f] = th /\ Count' = Count
      /\ \A i \in 1 .. Count : stage'[i] = IF i = f THEN "lost" ELSE stage[i]
  BY <1>1, ThreadFirst DEF Done
<1> HIDE DEF f
<1>3. /\ UNCHANGED <<Count, With("written"), Apart>>
      /\ With("lost")' = With("lost") \cup {f}
  BY <1>1, <1>2, NoThread DEF With, Apart
<1>4. UNCHANGED (last = Count)
  BY <1>1, <1>2
<1>5. Record!Fails({f}, {})
  BY <1>1, <1>2, <1>3 DEF Record!Fails
<1>6. Record!Fail({f})
  BY <1>1, <1>3, <1>4, <1>5 DEF Record!Fail
<1> QED
  BY <1>2, <1>6

LEMMA RaiseRecords ==
    ASSUME JournalInv, NEW th \in Threads, WriteRaises(th)
    PROVE  \E S \in SUBSET Record!Pending : Record!Fail(S)
<1>1. /\ With(th) # {} /\ stage' = Move(th, "lost") /\ faults' = faults + 1
      /\ log' \in {log, Append(log, 0)}
      /\ UNCHANGED <<last, prev, acked, restarts, cancelled>> /\ Shape
  BY DEF WriteRaises, Report, Line, chain, files, JournalInv, DiskInv
<1>2. /\ Count' = Count
      /\ \A i \in 1 .. Count : stage'[i] = IF i \in With(th) THEN "lost" ELSE stage[i]
  <2>1. /\ Len(Move(th, "lost")) = Count
        /\ \A i \in 1 .. Count : Move(th, "lost")[i] = IF stage[i] = th THEN "lost" ELSE stage[i]
    BY <1>1, Moved DEF Stages
  <2> QED
    BY <1>1, <2>1 DEF Count, With
<1>3. /\ Record!Pending = {i \in 1 .. Count : stage[i] \notin Done}
      /\ \A i \in 1 .. Count : stage[i] \in Stages
  BY <1>1, PendingIs
<1>4. With(th) \subseteq Record!Pending
  BY <1>3, NoThread DEF With, Done
<1>5. ASSUME ~cancelled PROVE With(th) = Record!Pending
  <2>1. worker = th /\ holder # Nobody
    BY <1>1, <1>5 DEF With, JournalInv, DiskInv, Batch
  <2>2. ASSUME NEW i \in 1 .. Count, stage[i] \notin Done PROVE stage[i] = th
    BY <1>3, <1>5, <2>1, <2>2, ChainAssumption DEF JournalInv, DiskInv, Batch, Stages, Done
  <2> QED
    BY <1>3, <1>4, <2>2 DEF With
<1>6. /\ UNCHANGED <<Count, With("written"), Apart>>
      /\ With("lost")' = With("lost") \cup With(th)
  <2>1. With(th) \subseteq 1 .. Count /\ \A i \in With(th) : stage[i] # "written"
    BY NoThread DEF With
  <2> QED
    BY <1>1, <1>2, <2>1, SomeLost
<1>7. Record!Fails(With(th), {})
  BY <1>1, <1>4, <1>5, <1>6 DEF Record!Fails
<1>8. UNCHANGED (last = Count)
  BY <1>1, <1>2
<1>9. Record!Fail(With(th))
  BY <1>1, <1>6, <1>7, <1>8 DEF Record!Fail
<1> QED
  BY <1>4, <1>9

\* When the batch of a critical call has ended, all that was logged is settled.
LEMMA WrittenRecords ==
    ASSUME JournalInv, NEW w \in Writers, Written(w)
    PROVE  (\E i \in 1 .. Count : Record!Confirm(i)) \/ UNCHANGED Record!vars
<1>1. /\ holder = w /\ w # Nobody /\ worker # Nobody /\ Shape
      /\ UNCHANGED <<last, prev, stage, log, faults, restarts, cancelled>>
      /\ \A i \in 1 .. Count : stage[i] # worker
  BY ChainAssumption DEF Written, With, files, JournalInv, DiskInv
<1>2. /\ Record!Pending = {i \in 1 .. Count : stage[i] \notin Done}
      /\ \A i \in 1 .. Count : stage[i] \in Stages
      /\ Count \in Nat
  BY <1>1, PendingIs
<1>3. ~cancelled => Record!Pending = {}
  BY <1>1, <1>2 DEF JournalInv, DiskInv, Batch, Stages, Done
<1>4. UNCHANGED <<Count, With("written"), With("lost"), Apart>> /\ UNCHANGED (last = Count)
  BY <1>1 DEF Count, With, Apart
<1>5. CASE critical
  <2>1. acked' = acked \cup {Count}
    BY <1>5 DEF Written
  <2>2. Count \in 1 .. Count
    BY <1>1, <1>2, <1>5 DEF JournalInv, DiskInv, Batch, Shape
  <2>3. Record!Confirm(Count)
    BY <1>1, <1>3, <1>4, <2>1, <2>2 DEF Record!Confirm
  <2> QED
    BY <2>2, <2>3
<1>6. CASE ~critical
  BY <1>1, <1>4, <1>6 DEF Written, Record!vars
<1> QED
  BY <1>5, <1>6

LEMMA LeaveRecords ==
    ASSUME JournalInv, NEW w, NEW where, Leave(w, where),
           UNCHANGED <<last, prev, acked, log, faults, restarts>>
    PROVE  (\E S \in SUBSET Record!Pending : Record!Desert(S)) \/ UNCHANGED Record!vars
<1>0. Shape
  BY DEF JournalInv, DiskInv
<1>1. CASE holder = w
  <2>1. stage' = Move("handed", "lost") /\ cancelled' = TRUE
    BY <1>1 DEF Leave
  <2>2. /\ Count' = Count
        /\ \A i \in 1 .. Count : stage'[i] = IF i \in With("handed") THEN "lost" ELSE stage[i]
    BY <1>0, <2>1, Moved DEF Count, Stages, With
  <2>3. With("handed") \subseteq 1 .. Count /\ \A i \in With("handed") : stage[i] # "written"
    BY DEF With
  <2>4. /\ UNCHANGED <<Count, With("written"), Apart>>
        /\ With("lost")' = With("lost") \cup With("handed")
    BY <1>0, <2>2, <2>3, SomeLost
  <2>5. With("handed") \subseteq Record!Pending
    BY <1>0, PendingIs DEF With, Done
  <2>6. UNCHANGED (last = Count)
    BY <2>2
  <2>7. Record!Desert(With("handed"))
    BY <2>1, <2>4, <2>5, <2>6 DEF Record!Desert
  <2> QED
    BY <2>5, <2>7
<1>2. CASE holder # w
  BY <1>2, Unseen DEF Leave, Count
<1> QED
  BY <1>1, <1>2

LEMMA RestartRecords ==
    ASSUME JournalInv, Restart
    PROVE  Record!Restart
<1>1. /\ stage' = [i \in 1 .. Count |-> IF stage[i] = "written" THEN "written" ELSE "lost"]
      /\ last' = 0 /\ restarts' = restarts + 1 /\ Shape
      /\ UNCHANGED <<prev, acked, log, faults, cancelled>>
  BY DEF Restart, files, JournalInv, DiskInv
<1>2. Record!Pending = {i \in 1 .. Count : stage[i] \notin Done} /\ Count \in Nat
  BY <1>1, PendingIs
<1>3. Count' = Count
  <2>1. stage' \in [1 .. Count -> Stages]
    BY <1>1 DEF Stages
  <2>2. stage' \in Seq(Stages)
    BY <1>2, <2>1, SeqDef
  <2> QED
    BY <1>2, <2>1, <2>2, LenProperties DEF Count
<1>4. /\ UNCHANGED <<With("written"), Apart>>
      /\ With("lost")' = With("lost") \cup Record!Pending
  BY <1>1, <1>2, <1>3 DEF With, Apart, Done
<1>5. (last' = Count') = (Count = 0)
  BY <1>1, <1>2, <1>3
<1> QED
  BY <1>1, <1>3, <1>4, <1>5 DEF Record!Restart

LEMMA JournalInit == Init => Record!Init
<1> SUFFICES ASSUME Init PROVE Record!Init
  OBVIOUS
<1>1. Count = 0 /\ stage = <<>>
  BY DEF Init, Count
<1>2. With("written") = {} /\ With("lost") = {} /\ Apart = {} /\ (last = Count) = TRUE
  BY <1>1 DEF Init, With, Apart
<1> QED
  BY <1>1, <1>2 DEF Init, Record!Init

LEMMA JournalStep == JournalInv /\ [Next]_vars => [Record!Next]_(Record!vars)
<1> SUFFICES ASSUME JournalInv, [Next]_vars PROVE [Record!Next]_(Record!vars)
  OBVIOUS
<1>0. /\ Queued \subseteq 1 .. Count
      /\ {} \in SUBSET Record!Pending
  BY DEF Queued
<1>1. ASSUME NEW c \in Callers, Enqueue(c) PROVE Record!Next
  BY <1>1, EnqueueRecords DEF Record!Next
<1>2. ASSUME NEW c \in Callers, LogSync(c) PROVE Record!Next
  BY <1>0, <1>2, SyncRecords DEF Record!Next
<1>3. ASSUME NEW c \in Callers, NEW crit \in BOOLEAN, Flush(c, crit) PROVE Record!Next
  <2>1. Queued \in SUBSET Record!Pending
    BY <1>3, FreeQueued DEF Flush, Acquired, JournalInv
  <2>2. Record!Log \/ Record!LogInVain(Queued)
    BY <1>3, FlushRecords
  <2> QED
    BY <2>1, <2>2 DEF Record!Next
<1>4. CASE LoopFlush
  <2>1. Queued \in SUBSET Record!Pending
    BY <1>4, FreeQueued DEF LoopFlush, Acquired, JournalInv
  <2>2. Record!Fail(Queued) \/ UNCHANGED Record!vars
    BY <1>4, LoopRecords
  <2> QED
    BY <2>1, <2>2 DEF Record!Next
<1>5. ASSUME NEW th \in Threads, PickUp(th) PROVE UNCHANGED Record!vars
  BY <1>5, PickUpRecords
<1>6. ASSUME NEW th \in Threads, Write(th) PROVE Record!Next
  BY <1>6, WriteRecords DEF Record!Next
<1>7. ASSUME NEW th \in Threads, WriteSkips(th) \/ WriteRaises(th) PROVE Record!Next
  <2>1. \E S \in SUBSET Record!Pending : Record!Fail(S)
    BY <1>7, SkipRecords, RaiseRecords
  <2> QED
    BY <2>1 DEF Record!Next
<1>8. ASSUME NEW w \in Writers, Written(w) PROVE Record!Next \/ UNCHANGED Record!vars
  <2>1. (\E i \in 1 .. Count : Record!Confirm(i)) \/ UNCHANGED Record!vars
    BY <1>8, WrittenRecords
  <2> QED
    BY <2>1 DEF Record!Next
<1>9. ASSUME NEW w, NEW where, Leave(w, where),
             UNCHANGED <<last, prev, acked, log, faults, restarts>>
      PROVE  Record!Next \/ UNCHANGED Record!vars
  <2>1. (\E S \in SUBSET Record!Pending : Record!Desert(S)) \/ UNCHANGED Record!vars
    BY <1>9, LeaveRecords
  <2> QED
    BY <2>1 DEF Record!Next
<1>10. ASSUME NEW c \in Callers, Cancel(c) PROVE Record!Next \/ UNCHANGED Record!vars
  BY <1>9, <1>10 DEF Cancel, chain, files
<1>11. CASE shutdown
  BY <1>9, <1>11 DEF shutdown, chain, files
<1>12. CASE Restart
  BY <1>12, RestartRecords DEF Record!Next
<1>13. ASSUME UNCHANGED <<stage, last, prev, log, acked, faults, restarts, cancelled>>
       PROVE  UNCHANGED Record!vars
  BY <1>13, Unseen DEF Count
<1>14. ASSUME NEW c \in Callers, Call(c) PROVE UNCHANGED Record!vars
  BY <1>13, <1>14 DEF Call, chain, files
<1>15. CASE LoopWakes \/ LoopIdles
  BY <1>13, <1>15 DEF LoopWakes, LoopIdles, chain, files
<1>16. CASE UNCHANGED vars
  BY <1>13, <1>16 DEF vars, chain, files
<1> QED
  BY <1>1, <1>2, <1>3, <1>4, <1>5, <1>6, <1>7, <1>8, <1>10, <1>11, <1>12, <1>14, <1>15, <1>16
  DEF Next

\* For any callers, threads, batches and failures, the log is a journal: events
\* are put down in the order they were logged or lost, never both and never
\* late, each loss is one failure's, desertion's or restart's, and a critical
\* event is confirmed when nothing up to it is under way.
THEOREM ImplementsJournal == Spec => IsJournal
<1> QED
  BY DiskInit, DiskStep, ChainInit, ChainStep, JournalInit, JournalStep, PTL
  DEF Spec, IsJournal, Record!Spec, JournalInv

=============================================================================
