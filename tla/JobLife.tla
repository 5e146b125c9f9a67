------------------------------ MODULE JobLife ------------------------------
(***************************************************************************)
(* The life the server promises to a job.  Its code is generated by one    *)
(* pipeline at a time; it becomes a success only at the end of such a      *)
(* generation, as the first verdict on it, and in that step its completion *)
(* goes to the Self-Fixing Engineer.  What is deleted stays deleted, jobs  *)
(* run again only while the server takes requests, and when the process    *)
(* has exited nothing happens any more.  There are no tasks, semaphores,   *)
(* guards or marks here: JobPipeline shows that with them the promise is   *)
(* kept.                                                                   *)
(***************************************************************************)
CONSTANT Jobs

VARIABLES status,      \* status[j]
          verdict,     \* verdict[j]: "none", "success" or "failure"
          generating,  \* jobs whose code is being generated
          handing,     \* jobs whose completion is being dispatched
          told,        \* jobs whose dispatch has been answered
          server       \* "up", "going", "down"

vars == <<status, verdict, generating, handing, told, server>>

Init == /\ status = [j \in Jobs |-> "pending"]
        /\ verdict = [j \in Jobs |-> "none"]
        /\ generating = {} /\ handing = {} /\ told = {}
        /\ server = "up"

\* A deleted job has no status to write.
Write(j, s) == status[j] # "gone" /\ status' = [status EXCEPT ![j] = s]
Judge(j, v) == verdict[j] = "none" /\ verdict' = [verdict EXCEPT ![j] = v]
Leave(j) == j \in generating /\ generating' = generating \ {j}

\* Requests: an upload or an answer restarts the job, whatever became of it.
Restart(j) == /\ server = "up" /\ Write(j, "running")
              /\ UNCHANGED <<verdict, generating, handing, told, server>>

Cancel(j) == /\ server = "up" /\ status[j] \notin {"completed", "failed", "cancelled"}
             /\ Write(j, "cancelled")
             /\ UNCHANGED <<verdict, generating, handing, told, server>>

Delete(j) == /\ server = "up" /\ Write(j, "gone")
             /\ UNCHANGED <<verdict, generating, handing, told, server>>

\* One generation of a job at a time; one that is resumed runs again.
Begin(j) ==
    /\ server # "down"
    /\ j \notin generating /\ generating' = generating \cup {j}
    /\ UNCHANGED status \/ (server = "up" /\ Write(j, "running"))
    /\ UNCHANGED <<verdict, handing, told, server>>

\* Questions to the user, before the generation or in its place.
Ask(j) == /\ server # "down"
          /\ Write(j, "needs_clarification")
          /\ UNCHANGED generating \/ Leave(j)
          /\ UNCHANGED <<verdict, handing, told, server>>

Succeed(j) == /\ server # "down"
              /\ Leave(j) /\ Judge(j, "success")
              /\ \E s \in {"completed", "completed_with_warnings"} : Write(j, s)
              /\ handing' = handing \cup {j}
              /\ UNCHANGED <<told, server>>

Fail(j) == /\ server # "down"
           /\ UNCHANGED generating \/ Leave(j)
           /\ Judge(j, "failure") /\ Write(j, "failed")
           /\ UNCHANGED <<handing, told, server>>

\* Without a verdict: the pipeline's own mark, or that of the shutdown.
MarkFailed(j) == /\ server # "down"
                 /\ UNCHANGED generating \/ Leave(j)
                 /\ Write(j, "failed")
                 /\ UNCHANGED <<verdict, handing, told, server>>

\* A generation that changes nothing: its job has its verdict, or is deleted.
Finish(j) == /\ server # "down" /\ Leave(j)
             /\ UNCHANGED <<status, verdict, handing, told, server>>

Tell(j) == /\ server # "down"
           /\ j \in handing /\ handing' = handing \ {j}
           /\ told' \in {told, told \cup {j}}
           /\ UNCHANGED <<status, verdict, generating, server>>

\* The server stops, and what is under way is cut off.
CutOff == /\ generating' \subseteq generating /\ handing' \subseteq handing
          /\ server # "down" /\ server' = "going"
          /\ UNCHANGED <<status, verdict, told>>

Exit == /\ server = "going" /\ server' = "down"
        /\ generating' = {} /\ handing' = {}
        /\ UNCHANGED <<status, verdict, told>>

Next == \/ \E j \in Jobs : \/ Restart(j) \/ Cancel(j) \/ Delete(j)
                           \/ Begin(j) \/ Ask(j) \/ Finish(j) \/ Tell(j)
                           \/ Succeed(j) \/ Fail(j) \/ MarkFailed(j)
        \/ CutOff \/ Exit

Spec == Init /\ [][Next]_vars

=============================================================================
