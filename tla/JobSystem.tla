------------------------------ MODULE JobSystem ------------------------------
(***************************************************************************)
(* The job system of renderdoc/common/jobsystem.cpp: the main thread adds  *)
(* jobs, N worker threads and the main thread itself (inside               *)
(* SyncAllJobs) run them, and SyncAllJobs is a barrier that deletes every  *)
(* job.                                                                    *)
(*                                                                         *)
(* A step is one critical section of queueLock, one atomic operation, or   *)
(* one semaphore operation: those are the points at which threads see each *)
(* other.  `pc' names where a thread is; `cur' is its local curJob.        *)
(*                                                                         *)
(* The code inserts at the front of jobQueue and pops its back; here the   *)
(* head of the sequence is the back of the array.                          *)
(***************************************************************************)
EXTENDS Integers, Sequences

CONSTANTS
  N,          \* number of worker threads created by Init
  Jobs,       \* the Job allocations a run may make
  MayDepend,  \* the jobs each job may be given as parents by the caller
  SemMax,     \* the count at which the OS semaphore saturates
  MaxSignals, \* bound: EINTR interruptions of a semaphore wait
  NoJob       \* the NULL Job pointer

ASSUME ConstantsAssumption ==
  /\ N \in Nat
  /\ MayDepend \in [Jobs -> SUBSET Jobs]
  /\ SemMax \in Nat \ {0}
  /\ MaxSignals \in Nat
  /\ NoJob \notin Jobs

VARIABLES
  jobQueue,      \* jobs waiting, oldest first
  shutdown,      \* the workers' stop flag, guarded by queueLock
  allocatedJobs, \* jobs to delete at the next sync
  freedJobs,     \* jobs SyncAllJobs has deleted (history)
  parents,       \* Job::parents
  state,         \* Job::state, 1 once the callback has returned
  running,       \* JobWorker::running
  semaphore,     \* the count of each JobWorker::semaphore
  pc,            \* control point of each thread
  cur,           \* the local curJob of each thread
  scan,          \* loop index of each thread that walks over the workers
  anyRunning,    \* workersRunning in SyncAllJobs
  closing,       \* SyncAllJobs was called by Shutdown
  signals        \* interruptions delivered so far

vars == <<jobQueue, shutdown, allocatedJobs, freedJobs, parents, state, running,
          semaphore, pc, cur, scan, anyRunning, closing, signals>>

Workers == 0 .. N - 1
Main    == N
Threads == 0 .. N

\* Control points.  A thread between taking a job off the queue and completing it
\* or putting it back is at one of the Holding points.
Holding == {"scan", "ready", "callback", "pushback"}
WorkerPc == Holding \cup {"grab", "sleep", "recheck", "wait", "woken", "leave", "gone"}
MainPc == {"down", "idle", "addScan", "syncGrab", "ready", "callback", "pushback",
           "syncScan", "await", "delete", "raise", "post", "join"}

Contains(q, j) == \E i \in 1 .. Len(q) : q[i] = j

InQueue(j) == Contains(jobQueue, j)

Goto(t, label) == pc' = [pc EXCEPT ![t] = label]

\* Slip: the job is read but not taken off the queue.
PeekJob(t) ==
  /\ cur' = [cur EXCEPT ![t] = Head(jobQueue)]
  /\ jobQueue' = jobQueue

\* jobQueue.back() and pop_back() under the lock.
PopJob(t) ==
  /\ cur' = [cur EXCEPT ![t] = Head(jobQueue)]
  /\ jobQueue' = Tail(jobQueue)

-----------------------------------------------------------------------------
Init ==
  /\ jobQueue = <<>>
  /\ shutdown = FALSE
  /\ allocatedJobs = {}
  /\ freedJobs = {}
  /\ parents = [j \in Jobs |-> {}]
  /\ state = [j \in Jobs |-> 0]
  /\ running = [w \in Workers |-> 0]
  /\ semaphore = [w \in Workers |-> 0]
  /\ pc = [t \in Threads |-> IF t = Main THEN "down" ELSE "gone"]
  /\ cur = [t \in Threads |-> NoJob]
  /\ scan = [t \in Threads |-> 0]
  /\ anyRunning = FALSE
  /\ closing = FALSE
  /\ signals = 0

-----------------------------------------------------------------------------
(* The main thread's API.                                                   *)

\* JobSystem::Init: N fresh workers, each marked running from construction.
StartUp ==
  /\ pc[Main] = "down"
  /\ shutdown' = FALSE
  /\ jobQueue' = <<>>
  /\ running' = [w \in Workers |-> 1]
  /\ semaphore' = [w \in Workers |-> 0]
  /\ pc' = [t \in Threads |-> IF t = Main THEN "idle" ELSE "grab"]
  /\ cur' = [t \in Threads |-> NoJob]
  /\ UNCHANGED <<allocatedJobs, freedJobs, parents, state, scan, anyRunning, closing, signals>>

\* AddJob: the caller may only name parents that have not been deleted.
AddJob(j, ps) ==
  /\ pc[Main] = "idle"
  /\ j \notin allocatedJobs \cup freedJobs
  /\ ps \subseteq MayDepend[j] \cap allocatedJobs
  /\ allocatedJobs' = allocatedJobs \cup {j}
  /\ parents' = [parents EXCEPT ![j] = ps]
  /\ jobQueue' = Append(jobQueue, j)
  /\ scan' = [scan EXCEPT ![Main] = 0]
  /\ Goto(Main, "addScan")
  /\ UNCHANGED <<shutdown, freedJobs, state, running, semaphore, cur, anyRunning, closing, signals>>

\* SyncAllJobs, called directly or as the first thing Shutdown does.  With no
\* workers it returns at once.
SyncCall(byShutdown) ==
  /\ pc[Main] = "idle"
  /\ closing' = byShutdown
  /\ Goto(Main, IF N > 0 THEN "syncGrab" ELSE IF byShutdown THEN "raise" ELSE "idle")
  /\ UNCHANGED <<jobQueue, shutdown, allocatedJobs, freedJobs, parents, state, running,
                 semaphore, cur, scan, anyRunning, signals>>

\* The first loop of SyncAllJobs takes jobs until it finds the queue empty.
SyncGrab ==
  /\ pc[Main] = "syncGrab"
  /\ \/ /\ jobQueue = <<>>
        /\ scan' = [scan EXCEPT ![Main] = 0]
        /\ anyRunning' = FALSE
        /\ Goto(Main, "await")
        /\ UNCHANGED <<jobQueue, cur>>
     \/ /\ jobQueue # <<>>
        /\ PopJob(Main)
        /\ Goto(Main, "ready")
        /\ UNCHANGED <<scan, anyRunning>>
  /\ UNCHANGED <<shutdown, allocatedJobs, freedJobs, parents, state, running, semaphore,
                 closing, signals>>

\* Slip: only the worker read last decides.
LastWorkerRunning == running[scan[Main]] = 1

\* workersRunning |= ...
SeenRunning == anyRunning \/ running[scan[Main]] = 1

\* The second loop reads the running flags one worker at a time, and starts over
\* after a pass that saw any worker running.
AwaitWorkers ==
  /\ pc[Main] = "await"
  /\ \/ /\ scan[Main] < N
        /\ anyRunning' = SeenRunning
        /\ scan' = [scan EXCEPT ![Main] = @ + 1]
        /\ UNCHANGED pc
     \/ /\ scan[Main] = N /\ anyRunning
        /\ anyRunning' = FALSE
        /\ scan' = [scan EXCEPT ![Main] = 0]
        /\ UNCHANGED pc
     \/ /\ scan[Main] = N /\ ~anyRunning
        /\ Goto(Main, "delete")
        /\ UNCHANGED <<anyRunning, scan>>
  /\ UNCHANGED <<jobQueue, shutdown, allocatedJobs, freedJobs, parents, state, running,
                 semaphore, cur, closing, signals>>

DeleteJobs ==
  /\ pc[Main] = "delete"
  /\ freedJobs' = freedJobs \cup allocatedJobs
  /\ allocatedJobs' = {}
  /\ Goto(Main, IF closing THEN "raise" ELSE "idle")
  /\ UNCHANGED <<jobQueue, shutdown, parents, state, running, semaphore, cur, scan,
                 anyRunning, closing, signals>>

\* Shutdown after its sync: set the flag, post every semaphore, join every thread.
RaiseShutdown ==
  /\ pc[Main] = "raise"
  /\ shutdown' = TRUE
  /\ scan' = [scan EXCEPT ![Main] = 0]
  /\ Goto(Main, "post")
  /\ UNCHANGED <<jobQueue, allocatedJobs, freedJobs, parents, state, running, semaphore,
                 cur, anyRunning, closing, signals>>

\* Semaphore::Wake(1): a release past the maximum count is dropped by the OS.
Wake(w) ==
  semaphore' = [semaphore EXCEPT ![w] = IF @ < SemMax THEN @ + 1 ELSE @]

PostWorkers ==
  /\ pc[Main] = "post"
  /\ \/ /\ scan[Main] < N
        /\ Wake(scan[Main])
        /\ scan' = [scan EXCEPT ![Main] = @ + 1]
        /\ UNCHANGED pc
     \/ /\ scan[Main] = N
        /\ scan' = [scan EXCEPT ![Main] = 0]
        /\ Goto(Main, "join")
        /\ UNCHANGED semaphore
  /\ UNCHANGED <<jobQueue, shutdown, allocatedJobs, freedJobs, parents, state, running,
                 cur, anyRunning, closing, signals>>

JoinWorkers ==
  /\ pc[Main] = "join"
  /\ \/ /\ scan[Main] < N
        /\ pc[scan[Main]] = "gone"
        /\ scan' = [scan EXCEPT ![Main] = @ + 1]
        /\ UNCHANGED pc
     \/ /\ scan[Main] = N
        /\ Goto(Main, "down")
        /\ UNCHANGED scan
  /\ UNCHANGED <<jobQueue, shutdown, allocatedJobs, freedJobs, parents, state, running,
                 semaphore, cur, anyRunning, closing, signals>>

-----------------------------------------------------------------------------
(* Steps shared by the workers and by the main thread in SyncAllJobs.       *)

\* TryWakeFirstSleepingWorker reads one running flag per step: the main thread
\* from worker 0, a worker from the one after itself.
ScanTarget(t) == IF t = Main THEN scan[t] ELSE (t + scan[t] + 1) % N
ScanLength(t) == IF t = Main THEN N ELSE N - 1
AfterScan(t)  == IF t # Main THEN "ready"
                 ELSE IF pc[t] = "addScan" THEN "idle" ELSE "syncGrab"

TryWakeFirstSleepingWorker(t) ==
  /\ pc[t] \in {"scan", "addScan", "syncScan"}
  /\ \/ /\ scan[t] < ScanLength(t)
        /\ running[ScanTarget(t)] = 0
        /\ Wake(ScanTarget(t))
        /\ Goto(t, AfterScan(t))
        /\ UNCHANGED scan
     \/ /\ scan[t] < ScanLength(t)
        /\ running[ScanTarget(t)] # 0
        /\ scan' = [scan EXCEPT ![t] = @ + 1]
        /\ UNCHANGED <<pc, semaphore>>
     \/ /\ scan[t] >= ScanLength(t)
        /\ Goto(t, AfterScan(t))
        /\ UNCHANGED <<scan, semaphore>>
  /\ UNCHANGED <<jobQueue, shutdown, allocatedJobs, freedJobs, parents, state, running,
                 cur, anyRunning, closing, signals>>

\* Slip: one complete parent suffices.
AnyParentDone(j) == parents[j] = {} \/ \E p \in parents[j] : state[p] # 0

\* RunJobIfReady's check of the parents.  The code reads them one by one; since a
\* state only goes from 0 to 1, the outcome is that of one read of all of them at
\* the moment of the first 0 read, or of the last read.
DependenciesSatisfied(j) == \A p \in parents[j] : state[p] # 0

CheckParents(t) ==
  /\ pc[t] = "ready"
  /\ Goto(t, IF DependenciesSatisfied(cur[t]) THEN "callback" ELSE "pushback")
  /\ UNCHANGED <<jobQueue, shutdown, allocatedJobs, freedJobs, parents, state, running,
                 semaphore, cur, scan, anyRunning, closing, signals>>

NextRound(t) == IF t = Main THEN "syncScan" ELSE "grab"

\* The callback returns and Job::run counts the state up.
FinishJob(t) ==
  /\ pc[t] = "callback"
  /\ state' = [state EXCEPT ![cur[t]] = @ + 1]
  /\ cur' = [cur EXCEPT ![t] = NoJob]
  /\ scan' = [scan EXCEPT ![t] = 0]
  /\ Goto(t, NextRound(t))
  /\ UNCHANGED <<jobQueue, shutdown, allocatedJobs, freedJobs, parents, running, semaphore,
                 anyRunning, closing, signals>>

\* Slip: the parents are looked at again, and a job they no longer hold up is taken
\* for one that somebody has run.
PushBackIfWaiting(t) ==
  /\ pc[t] = "pushback"
  /\ jobQueue' = IF DependenciesSatisfied(cur[t]) THEN jobQueue ELSE Append(jobQueue, cur[t])
  /\ cur' = [cur EXCEPT ![t] = NoJob]
  /\ scan' = [scan EXCEPT ![t] = 0]
  /\ Goto(t, NextRound(t))
  /\ UNCHANGED <<shutdown, allocatedJobs, freedJobs, parents, state, running, semaphore,
                 anyRunning, closing, signals>>

\* A job that was not ready goes back to the end of the queue.
PushBack(t) ==
  /\ pc[t] = "pushback"
  /\ jobQueue' = Append(jobQueue, cur[t])
  /\ cur' = [cur EXCEPT ![t] = NoJob]
  /\ scan' = [scan EXCEPT ![t] = 0]
  /\ Goto(t, NextRound(t))
  /\ UNCHANGED <<shutdown, allocatedJobs, freedJobs, parents, state, running, semaphore,
                 anyRunning, closing, signals>>

-----------------------------------------------------------------------------
(* WorkerThread.                                                            *)

\* Slip: the shutdown flag is looked at only when there is a job to run.
ShutdownAfterSleep ==
  IF jobQueue = <<>> THEN "sleep"
  ELSE IF shutdown THEN "leave"
  ELSE IF Len(jobQueue) > 1 THEN "scan" ELSE "ready"

\* Where the first critical section leads: out, to sleep, or to the job, by way of
\* waking a sibling when there is more work.
AfterGrab ==
  IF shutdown THEN "leave"
  ELSE IF jobQueue = <<>> THEN "sleep"
  ELSE IF Len(jobQueue) > 1 THEN "scan" ELSE "ready"

\* The first critical section: take a job, note whether more remain, and only then
\* look at shutdown.
Grab(w) ==
  /\ pc[w] = "grab"
  /\ IF jobQueue = <<>> THEN UNCHANGED <<jobQueue, cur>> ELSE PopJob(w)
  /\ scan' = [scan EXCEPT ![w] = 0]
  /\ Goto(w, AfterGrab)
  /\ UNCHANGED <<shutdown, allocatedJobs, freedJobs, parents, state, running, semaphore,
                 anyRunning, closing, signals>>

\* Slip: the flag is left at running.
SleepUnmarked(w) ==
  /\ pc[w] = "sleep"
  /\ Goto(w, "recheck")
  /\ UNCHANGED <<jobQueue, shutdown, allocatedJobs, freedJobs, parents, state, running,
                 semaphore, cur, scan, anyRunning, closing, signals>>

MarkSleeping(w) ==
  /\ pc[w] = "sleep"
  /\ running' = [running EXCEPT ![w] = @ - 1]
  /\ Goto(w, "recheck")
  /\ UNCHANGED <<jobQueue, shutdown, allocatedJobs, freedJobs, parents, state, semaphore,
                 cur, scan, anyRunning, closing, signals>>

\* Slip: no second look at the queue before waiting.
RecheckNothing(w) ==
  /\ pc[w] = "recheck"
  /\ Goto(w, "wait")
  /\ UNCHANGED <<jobQueue, shutdown, allocatedJobs, freedJobs, parents, state, running,
                 semaphore, cur, scan, anyRunning, closing, signals>>

\* The second critical section: a job pushed since Grab is not slept through.
Recheck(w) ==
  /\ pc[w] = "recheck"
  /\ \/ /\ jobQueue # <<>>
        /\ running' = [running EXCEPT ![w] = @ + 1]
        /\ Goto(w, "grab")
     \/ /\ jobQueue = <<>>
        /\ Goto(w, "wait")
        /\ UNCHANGED running
  /\ UNCHANGED <<jobQueue, shutdown, allocatedJobs, freedJobs, parents, state, semaphore,
                 cur, scan, anyRunning, closing, signals>>

WaitForWake(w) ==
  /\ pc[w] = "wait"
  /\ semaphore[w] > 0
  /\ semaphore' = [semaphore EXCEPT ![w] = @ - 1]
  /\ Goto(w, "woken")
  /\ UNCHANGED <<jobQueue, shutdown, allocatedJobs, freedJobs, parents, state, running,
                 cur, scan, anyRunning, closing, signals>>

\* The posix WaitForWake means to retry an interrupted sem_wait, but its `continue'
\* leaves the do-while(false) loop, so a signal ends the wait.
InterruptedWait(w) ==
  /\ pc[w] = "wait"
  /\ signals < MaxSignals
  /\ signals' = signals + 1
  /\ Goto(w, "woken")
  /\ UNCHANGED <<jobQueue, shutdown, allocatedJobs, freedJobs, parents, state, running,
                 semaphore, cur, scan, anyRunning, closing>>

MarkRunning(w) ==
  /\ pc[w] = "woken"
  /\ running' = [running EXCEPT ![w] = @ + 1]
  /\ Goto(w, "grab")
  /\ UNCHANGED <<jobQueue, shutdown, allocatedJobs, freedJobs, parents, state, semaphore,
                 cur, scan, anyRunning, closing, signals>>

LeaveThread(w) ==
  /\ pc[w] = "leave"
  /\ running' = [running EXCEPT ![w] = @ - 1]
  /\ Goto(w, "gone")
  /\ UNCHANGED <<jobQueue, shutdown, allocatedJobs, freedJobs, parents, state, semaphore,
                 cur, scan, anyRunning, closing, signals>>

-----------------------------------------------------------------------------
RunSteps(t) ==
  \/ TryWakeFirstSleepingWorker(t)
  \/ CheckParents(t)
  \/ FinishJob(t)
  \/ PushBack(t)

WorkerSteps(w) ==
  \/ Grab(w)
  \/ MarkSleeping(w)
  \/ Recheck(w)
  \/ WaitForWake(w)
  \/ MarkRunning(w)
  \/ LeaveThread(w)

SyncSteps ==
  \/ SyncGrab
  \/ AwaitWorkers
  \/ DeleteJobs
  \/ RaiseShutdown
  \/ PostWorkers
  \/ JoinWorkers

Caller ==
  \/ StartUp
  \/ \E j \in Jobs : \E ps \in SUBSET MayDepend[j] : AddJob(j, ps)
  \/ \E byShutdown \in BOOLEAN : SyncCall(byShutdown)

Next ==
  \/ Caller
  \/ SyncSteps
  \/ \E t \in Threads : RunSteps(t)
  \/ \E w \in Workers : WorkerSteps(w) \/ InterruptedWait(w)

\* The OS schedules every thread that can run; the caller owes nothing.
Fairness ==
  /\ WF_vars(SyncSteps \/ RunSteps(Main))
  /\ \A w \in Workers : WF_vars(RunSteps(w) \/ WorkerSteps(w))

Spec == Init /\ [][Next]_vars

FairSpec == Spec /\ Fairness

-----------------------------------------------------------------------------
ControlOK ==
  /\ pc \in [Threads -> WorkerPc \cup MainPc]
  /\ pc[Main] \in MainPc
  /\ \A w \in Workers : pc[w] \in WorkerPc

DataOK ==
  /\ jobQueue \in Seq(Jobs)
  /\ shutdown \in BOOLEAN
  /\ allocatedJobs \in SUBSET Jobs
  /\ freedJobs \in SUBSET Jobs
  /\ parents \in [Jobs -> SUBSET Jobs]
  /\ state \in [Jobs -> Nat]
  /\ running \in [Workers -> Int]
  /\ semaphore \in [Workers -> 0 .. SemMax]
  /\ cur \in [Threads -> Jobs \cup {NoJob}]
  /\ scan \in [Threads -> 0 .. N]
  /\ anyRunning \in BOOLEAN
  /\ closing \in BOOLEAN
  /\ signals \in 0 .. MaxSignals

TypeOK == ControlOK /\ DataOK

-----------------------------------------------------------------------------
(* Safety.                                                                  *)

Holds(t, j) == cur[t] = j /\ j # NoJob

Live(j) == InQueue(j) \/ \E t \in Threads : Holds(t, j)

NoRepeats(q) == \A i, k \in 1 .. Len(q) : q[i] = q[k] => i = k

\* A job pointer is in exactly one place: one slot of the queue or one thread's
\* curJob.  Two pops racing a push-back could otherwise run a job twice.
UniqueOwner ==
  /\ NoRepeats(jobQueue)
  /\ \A t, u \in Threads : cur[t] # NoJob /\ cur[t] = cur[u] => t = u
  /\ \A t \in Threads : ~InQueue(cur[t])

\* The assertions of Job::run, RunJobIfReady, TryWakeFirstSleepingWorker and
\* WorkerThread: a job runs once, and a worker's running flag is 1 where it goes to
\* sleep, 0 where it wakes, and never anything else.
Assertions ==
  /\ \A j \in Jobs : state[j] \in {0, 1} /\ (Live(j) => state[j] = 0)
  /\ \A w \in Workers :
       /\ running[w] \in {0, 1}
       /\ pc[w] = "sleep" => running[w] = 1
       /\ pc[w] = "woken" => running[w] = 0

\* The parents of a job that runs, or that has run, are complete.
ParentsFirst ==
  \A j \in Jobs :
    (state[j] = 1 \/ \E t \in Threads : Holds(t, j) /\ pc[t] = "callback")
      => \A p \in parents[j] : state[p] = 1

\* A submitted job that is not complete is still in the queue or in some thread's
\* hands, wherever its parents complete between the check and the push-back.
NoJobLost == \A j \in allocatedJobs : state[j] = 1 \/ Live(j)

\* SyncAllJobs deletes no job that a thread holds or will take from the queue, and
\* none of the parents such a job will look at.
NoUseAfterFree ==
  \A j \in Jobs : Live(j) => ({j} \cup parents[j]) \cap freedJobs = {}

\* When Shutdown posts and joins the workers none of them holds a job or is looking
\* for a sibling to wake, so no semaphore is used after it was destroyed.
QuietShutdown ==
  pc[Main] \in {"raise", "post", "join"} => \A w \in Workers : pc[w] \notin Holding

\* A worker that is bound to look at the queue again without anybody's help.
Watching(w) ==
  /\ pc[w] \notin {"leave", "gone"}
  /\ pc[w] = "wait" => semaphore[w] > 0

\* Whenever AddJob or SyncAllJobs has returned and a job is queued, some worker is
\* bound to look at the queue.  Lines 91-96 of the source say that all threads may go
\* to sleep over the most recent job; the second look at the queue (lines 261-266)
\* rules that out.
QueueIsWatched ==
  N > 0 /\ pc[Main] = "idle" /\ jobQueue # <<>> => \E w \in Workers : Watching(w)

-----------------------------------------------------------------------------
(* The inductive strengthening of NoJobLost and of QueueIsWatched.           *)

\* With workers, Shutdown's sync leaves nothing to lose.
LossInv ==
  /\ pc[Main] \in {"raise", "post", "join", "down"} => allocatedJobs = {}
  /\ NoJobLost

\* Workers leave only in a shutdown; and outside the steps of SyncAllJobs that look at
\* the queue themselves, a queued job is watched from the first flag AddJob reads on.
WatchInv ==
  /\ shutdown => pc[Main] \in {"post", "join", "down"}
  /\ \A w \in Workers :
       pc[w] \in {"leave", "gone"} => pc[Main] \in {"post", "join", "down"}
  /\ \/ pc[Main] \in {"idle", "await", "delete"}
     \/ pc[Main] = "addScan" /\ scan[Main] > 0
     => jobQueue = <<>> \/ \E w \in Workers : Watching(w)

-----------------------------------------------------------------------------
(* The inductive strengthening of UniqueOwner, Assertions and ParentsFirst.  *)

\* A worker is asleep, as the other threads see it, from just before its second look
\* at the queue until it has been woken, and after it has left its loop.
Asleep == {"recheck", "wait", "woken", "gone"}

\* The control point tells whether a thread has a job; only a worker that saw the
\* shutdown flag may leave with one in hand.
CurMatchesPc ==
  \A t \in Threads : /\ pc[t] \in Holding => cur[t] # NoJob
                     /\ cur[t] # NoJob => pc[t] \in Holding \cup {"leave", "gone"}

RunningMatchesPc ==
  \A w \in Workers : running[w] = IF pc[w] \in Asleep THEN 0 ELSE 1

JobStates ==
  \A j \in Jobs : /\ state[j] \in {0, 1}
                  /\ Live(j) => state[j] = 0
                  /\ Live(j) \/ state[j] = 1 => j \in allocatedJobs \cup freedJobs

OwnershipInv ==
  TypeOK /\ UniqueOwner /\ CurMatchesPc /\ RunningMatchesPc /\ JobStates /\ ParentsFirst

\* What makes SyncAllJobs a barrier when no job has a parent: once the main thread
\* has seen the queue empty nothing is put back on it, and a worker it has passed in
\* its walk over the running flags can wake up but finds nothing to take.
Drained == {"await", "delete", "raise", "post", "join", "down"}

BarrierInv ==
  /\ \A j \in Jobs : parents[j] = {}
  /\ \A t \in Threads : pc[t] # "pushback"
  /\ pc[Main] \in Drained => jobQueue = <<>>
  /\ pc[Main] = "await" /\ ~anyRunning =>
       \A w \in Workers : w < scan[Main] => cur[w] = NoJob
  /\ pc[Main] \in Drained \ {"await"} => \A t \in Threads : cur[t] = NoJob
  /\ shutdown => pc[Main] \in {"post", "join", "down"}
  /\ \A w \in Workers : pc[w] \in {"leave", "gone"} => cur[w] = NoJob
  /\ allocatedJobs \cap freedJobs = {}
  /\ \A j \in Jobs : Live(j) => j \in allocatedJobs
  /\ NoJobLost

-----------------------------------------------------------------------------
(* Refinement: the job system is a barrier over a set of jobs.               *)

Status(j) ==
  IF j \in freedJobs THEN "released"
  ELSE IF j \notin allocatedJobs THEN "none"
  ELSE IF state[j] = 1 THEN "done" ELSE "pending"

Syncing ==
  pc[Main] \in {"syncGrab", "ready", "callback", "pushback", "syncScan", "await", "delete"}

Barrier == INSTANCE JobBarrier WITH
  status <- [j \in Jobs |-> Status(j)], deps <- parents, syncing <- Syncing

\* Every step of the threads is a step of the barrier or a stuttering step: in
\* particular a sync ends only when every submitted job is complete.
RefinesBarrier == Barrier!Spec

-----------------------------------------------------------------------------
(* Liveness, under FairSpec.                                                *)

\* SyncAllJobs and Shutdown return.
SyncReturns == Syncing ~> pc[Main] \in {"idle", "down"}

ShutdownReturns == pc[Main] = "raise" ~> pc[Main] = "down"

\* "constant forward progress without a sync" (line 261): a queued job is run by
\* the workers even when the main thread never calls SyncAllJobs.  The notes at the
\* top of the file promise less: "we don't expect perfect forward progress
\* indefinitely with no syncs" (77-78), and a pushed job may wake nobody (91-96).
QueuedJobRuns == \A j \in Jobs : InQueue(j) ~> state[j] = 1

=============================================================================
