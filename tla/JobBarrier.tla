----------------------------- MODULE JobBarrier -----------------------------
(***************************************************************************)
(* What renderdoc/common/jobsystem.cpp promises its callers, without       *)
(* threads, queues or semaphores: jobs are submitted with parents, each is *)
(* completed once and after its parents, and a sync returns when no        *)
(* submitted job is pending and releases all of them.                      *)
(***************************************************************************)
CONSTANT Jobs

VARIABLES
  status,  \* "none", "pending", "done" or "released" for each job
  deps,    \* the parents each job was submitted with
  syncing  \* the caller is inside a sync

vars == <<status, deps, syncing>>

Init ==
  /\ status = [j \in Jobs |-> "none"]
  /\ deps = [j \in Jobs |-> {}]
  /\ syncing = FALSE

\* Parents may be pending or done, but their memory must not have been released.
Submit(j, ps) ==
  /\ ~syncing
  /\ status[j] = "none"
  /\ \A p \in ps : status[p] \in {"pending", "done"}
  /\ status' = [status EXCEPT ![j] = "pending"]
  /\ deps' = [deps EXCEPT ![j] = ps]
  /\ UNCHANGED syncing

Complete(j) ==
  /\ status[j] = "pending"
  /\ \A p \in deps[j] : status[p] = "done"
  /\ status' = [status EXCEPT ![j] = "done"]
  /\ UNCHANGED <<deps, syncing>>

BeginSync ==
  /\ ~syncing
  /\ syncing' = TRUE
  /\ UNCHANGED <<status, deps>>

EndSync ==
  /\ syncing
  /\ \A j \in Jobs : status[j] # "pending"
  /\ syncing' = FALSE
  /\ status' = [j \in Jobs |-> IF status[j] = "done" THEN "released" ELSE status[j]]
  /\ UNCHANGED deps

Next ==
  \/ \E j \in Jobs : Complete(j) \/ \E ps \in SUBSET Jobs : Submit(j, ps)
  \/ BeginSync
  \/ EndSync

Spec == Init /\ [][Next]_vars

=============================================================================
