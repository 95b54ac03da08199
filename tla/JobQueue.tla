------------------------------ MODULE JobQueue ------------------------------
(***************************************************************************)
(* The part of the Redis queue library (rq 1.13) that the sandbox service  *)
(* relies on: jobs that wait for other jobs, and jobs deleted together     *)
(* with the jobs waiting for them.  The library is outside the repository; *)
(* it is modelled from the calls Queue.enqueue(depends_on=...) and         *)
(* Job.delete(delete_dependents=True) of sandbox_instance_app.             *)
(*                                                                         *)
(* The operators are pure: js maps every job of one chain to its status,   *)
(* deps maps every job to the set of jobs it was enqueued to depend on.    *)
(***************************************************************************)

JobStatus == {"none", "deferred", "queued", "started", "finished", "failed",
              "deleted"}

\* A dependency no longer holds its dependents back once it has finished, or
\* once there is no trace of it: rq skips the ids it cannot fetch.
Released == {"finished", "deleted"}

\* Queue.enqueue: the job waits while a dependency is pending or has failed.
EnqueuedJob(js, deps, j) ==
  [js EXCEPT ![j] = IF \A d \in deps[j] : js[d] \in Released
                      THEN "queued" ELSE "deferred"]

\* The worker reports success and queues the dependents nothing else holds.
FinishedJob(js, deps, j) ==
  [i \in DOMAIN js |->
     IF i = j THEN "finished"
     ELSE IF /\ js[i] = "deferred"
             /\ j \in deps[i]
             /\ \A d \in deps[i] \ {j} : js[d] \in Released
          THEN "queued"
          ELSE js[i]]

\* Job.delete(delete_dependents=True): the job and the jobs waiting for it, one
\* level deep.  A worker that is executing the job is not interrupted.
DeletedJob(js, deps, j) ==
  [i \in DOMAIN js |->
     IF i = j \/ (js[i] = "deferred" /\ j \in deps[i]) THEN "deleted" ELSE js[i]]
=============================================================================
