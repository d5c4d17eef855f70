--------------------------- MODULE JobSystemProofs ---------------------------
(***************************************************************************)
(* Proofs about JobSystem, for every number of workers and every set of    *)
(* jobs.  The first parts hold for jobs with any dependencies; the last    *)
(* for jobs without parents, where SyncAllJobs really is a barrier.        *)
(***************************************************************************)
EXTENDS JobSystem, TLAPS

-----------------------------------------------------------------------------
(* Queues.                                                                  *)

\* A push adds one element and keeps a queue free of repeats if it is new.
LEMMA AppendFacts ==
  ASSUME NEW q \in Seq(Jobs), NEW j \in Jobs
  PROVE  /\ Append(q, j) \in Seq(Jobs)
         /\ \A x : Contains(Append(q, j), x) <=> (Contains(q, x) \/ x = j)
         /\ NoRepeats(q) /\ ~Contains(q, j) => NoRepeats(Append(q, j))
  <1>1. /\ Append(q, j) \in Seq(Jobs)
        /\ Len(Append(q, j)) = Len(q) + 1 /\ Len(q) \in Nat
        /\ Append(q, j)[Len(q) + 1] = j
        /\ \A i \in 1 .. Len(q) : Append(q, j)[i] = q[i]
    OBVIOUS
  <1>2. ASSUME NEW x, Contains(Append(q, j), x) PROVE Contains(q, x) \/ x = j
    BY <1>1, <1>2 DEF Contains
  <1>3. ASSUME NEW x, Contains(q, x) PROVE Contains(Append(q, j), x)
    BY <1>1, <1>3 DEF Contains
  <1>4. Contains(Append(q, j), j)
    <2>1. Len(q) + 1 \in 1 .. Len(Append(q, j))
      BY <1>1
    <2> QED BY <1>1, <2>1 DEF Contains
  <1>5. NoRepeats(q) /\ ~Contains(q, j) => NoRepeats(Append(q, j))
    BY DEF Contains, NoRepeats
  <1> QED BY <1>1, <1>2, <1>3, <1>4, <1>5

\* A pop returns an element of the queue and leaves the others; without repeats the
\* popped element is gone.
LEMMA TailFacts ==
  ASSUME NEW q \in Seq(Jobs), q # <<>>
  PROVE  /\ Head(q) \in Jobs
         /\ Tail(q) \in Seq(Jobs)
         /\ \A x : Contains(q, x) <=> (Contains(Tail(q), x) \/ x = Head(q))
         /\ NoRepeats(q) => NoRepeats(Tail(q)) /\ ~Contains(Tail(q), Head(q))
  <1>1. Head(q) = q[1] /\ Len(q) \in Nat \ {0} /\ Tail(q) \in Seq(Jobs)
        /\ Len(Tail(q)) = Len(q) - 1 /\ Head(q) \in Jobs
        /\ \A i \in 1 .. Len(Tail(q)) : Tail(q)[i] = q[i + 1]
    OBVIOUS
  <1>2. \A x : Contains(q, x) => (Contains(Tail(q), x) \/ x = Head(q))
    <2> SUFFICES ASSUME NEW x, NEW i \in 1 .. Len(q), q[i] = x, i # 1
                 PROVE  Contains(Tail(q), x)
      BY <1>1 DEF Contains
    <2>1. i - 1 \in 1 .. Len(Tail(q)) /\ Tail(q)[i - 1] = q[i]
      BY <1>1
    <2> QED BY <2>1 DEF Contains
  <1>3. \A x : (Contains(Tail(q), x) \/ x = Head(q)) => Contains(q, x)
    BY <1>1 DEF Contains
  <1>4. NoRepeats(q) => NoRepeats(Tail(q)) /\ ~Contains(Tail(q), Head(q))
    BY <1>1 DEF NoRepeats, Contains
  <1> QED BY <1>1, <1>2, <1>3, <1>4

LEMMA EmptyFacts == <<>> \in Seq(Jobs) /\ NoRepeats(<<>>) /\ \A x : ~Contains(<<>>, x)
  BY DEF NoRepeats, Contains

-----------------------------------------------------------------------------
(* Types.                                                                   *)

LEMMA ThreadFacts ==
  /\ Main \in Threads /\ Main \notin Workers
  /\ Threads = Workers \cup {Main}
  /\ N \in Nat /\ SemMax \in Nat \ {0}
  /\ \A w \in Workers : w \in Int /\ 0 <= w /\ w < N
  BY ConstantsAssumption DEF Workers, Main, Threads

LEMMA TypeInit == Init => TypeOK
  <1> SUFFICES ASSUME Init PROVE TypeOK
    OBVIOUS
  <1>1. ControlOK
    BY ThreadFacts DEF Init, ControlOK, WorkerPc, MainPc
  <1>2. jobQueue \in Seq(Jobs) /\ running \in [Workers -> Int] /\ semaphore \in [Workers -> 0 .. SemMax]
    BY ThreadFacts, EmptyFacts DEF Init
  <1>3. parents \in [Jobs -> SUBSET Jobs] /\ state \in [Jobs -> Nat]
    BY DEF Init
  <1>4. cur \in [Threads -> Jobs \cup {NoJob}] /\ scan \in [Threads -> 0 .. N]
    BY ThreadFacts DEF Init
  <1>5. signals \in 0 .. MaxSignals
    BY ConstantsAssumption DEF Init
  <1> QED BY <1>1, <1>2, <1>3, <1>4, <1>5 DEF TypeOK, DataOK, Init

LEMMA ControlStep == TypeOK /\ [Next]_vars => ControlOK'
  <1> SUFFICES ASSUME TypeOK, [Next]_vars PROVE ControlOK'
    OBVIOUS
  <1> USE ThreadFacts DEF TypeOK, ControlOK, WorkerPc, MainPc, Holding, Goto
  <1>1. CASE Caller
    BY <1>1 DEF Caller, StartUp, AddJob, SyncCall
  <1>2. CASE SyncSteps
    BY <1>2 DEF SyncSteps, SyncGrab, PopJob, AwaitWorkers, DeleteJobs, RaiseShutdown, PostWorkers,
                JoinWorkers
  <1>3. ASSUME NEW t \in Threads, RunSteps(t) PROVE ControlOK'
    BY <1>3 DEF RunSteps, TryWakeFirstSleepingWorker, AfterScan, CheckParents, FinishJob,
                PushBack, NextRound
  <1>4. ASSUME NEW w \in Workers, WorkerSteps(w) \/ InterruptedWait(w) PROVE ControlOK'
    BY <1>4 DEF WorkerSteps, Grab, PopJob, AfterGrab, MarkSleeping, Recheck, WaitForWake, MarkRunning,
                LeaveThread, InterruptedWait
  <1>5. CASE UNCHANGED vars
    BY <1>5 DEF vars
  <1> QED BY <1>1, <1>2, <1>3, <1>4, <1>5 DEF Next

LEMMA WakeType ==
  ASSUME semaphore \in [Workers -> 0 .. SemMax], NEW w, Wake(w)
  PROVE  semaphore' \in [Workers -> 0 .. SemMax]
  <1>1. CASE w \in Workers
    <2> DEFINE count == IF semaphore[w] < SemMax THEN semaphore[w] + 1 ELSE semaphore[w]
    <2>1. count \in 0 .. SemMax
      BY <1>1, ThreadFacts
    <2>2. semaphore' = [semaphore EXCEPT ![w] = count]
      BY DEF Wake
    <2> QED BY <2>1, <2>2
  <1>2. CASE w \notin Workers
    BY <1>2 DEF Wake
  <1> QED BY <1>1, <1>2

LEMMA DataStep == TypeOK /\ CurMatchesPc /\ [Next]_vars => DataOK'
  <1> SUFFICES ASSUME TypeOK, CurMatchesPc, [Next]_vars PROVE DataOK'
    OBVIOUS
  <1> USE ThreadFacts, ConstantsAssumption DEF TypeOK, DataOK
  <1>1. CASE Caller
    <2>1. CASE StartUp
      <3>1. jobQueue' \in Seq(Jobs) /\ cur' \in [Threads -> Jobs \cup {NoJob}]
        BY <2>1, EmptyFacts DEF StartUp
      <3>2. running' \in [Workers -> Int] /\ semaphore' \in [Workers -> 0 .. SemMax]
        BY <2>1 DEF StartUp
      <3> QED BY <2>1, <3>1, <3>2 DEF StartUp
    <2>2. ASSUME NEW j \in Jobs, NEW ps \in SUBSET MayDepend[j], AddJob(j, ps) PROVE DataOK'
      <3>1. jobQueue' \in Seq(Jobs)
        BY <2>2, AppendFacts DEF AddJob
      <3>2. allocatedJobs' \in SUBSET Jobs /\ parents' \in [Jobs -> SUBSET Jobs]
        BY <2>2 DEF AddJob
      <3>3. scan' \in [Threads -> 0 .. N]
        BY <2>2 DEF AddJob
      <3> QED BY <2>2, <3>1, <3>2, <3>3 DEF AddJob
    <2>3. ASSUME NEW b \in BOOLEAN, SyncCall(b) PROVE DataOK'
      BY <2>3 DEF SyncCall
    <2> QED BY <1>1, <2>1, <2>2, <2>3 DEF Caller
  <1>2. CASE SyncSteps
    <2>1. CASE SyncGrab
      <3>1. jobQueue # <<>> => Head(jobQueue) \in Jobs /\ Tail(jobQueue) \in Seq(Jobs)
        BY TailFacts
      <3>2. jobQueue' \in Seq(Jobs) /\ cur' \in [Threads -> Jobs \cup {NoJob}]
        BY <2>1, <3>1 DEF SyncGrab, PopJob
      <3>3. scan' = scan \/ scan' = [scan EXCEPT ![Main] = 0]
        BY <2>1 DEF SyncGrab, PopJob
      <3>4. scan' \in [Threads -> 0 .. N] 
        BY <3>3
      <3>5. anyRunning' \in BOOLEAN
        BY <2>1 DEF SyncGrab, PopJob
      <3> QED BY <2>1, <3>2, <3>4, <3>5 DEF SyncGrab, PopJob
    <2>2. CASE AwaitWorkers
      <3>1. \/ scan' = scan
            \/ scan[Main] < N /\ scan' = [scan EXCEPT ![Main] = @ + 1]
            \/ scan' = [scan EXCEPT ![Main] = 0]
        BY <2>2 DEF AwaitWorkers, SeenRunning
      <3>2. scan' \in [Threads -> 0 .. N]
        BY <3>1
      <3>3. anyRunning' \in BOOLEAN
        BY <2>2 DEF AwaitWorkers, SeenRunning
      <3> QED BY <2>2, <3>2, <3>3 DEF AwaitWorkers, SeenRunning
    <2>3. CASE DeleteJobs
      BY <2>3 DEF DeleteJobs
    <2>4. CASE RaiseShutdown
      BY <2>4 DEF RaiseShutdown
    <2>5. CASE PostWorkers
      <3>1. semaphore' = semaphore \/ \E w : Wake(w)
        BY <2>5 DEF PostWorkers
      <3>2. semaphore' \in [Workers -> 0 .. SemMax]
        BY <3>1, WakeType
      <3>3. \/ scan' = [scan EXCEPT ![Main] = 0]
            \/ scan[Main] < N /\ scan' = [scan EXCEPT ![Main] = @ + 1]
        BY <2>5 DEF PostWorkers
      <3>4. scan' \in [Threads -> 0 .. N]
        BY <3>3
      <3> QED BY <2>5, <3>2, <3>4 DEF PostWorkers
    <2>6. CASE JoinWorkers
      BY <2>6 DEF JoinWorkers
    <2> QED BY <1>2, <2>1, <2>2, <2>3, <2>4, <2>5, <2>6 DEF SyncSteps
  <1>3. ASSUME NEW t \in Threads, RunSteps(t) PROVE DataOK'
    <2>1. CASE TryWakeFirstSleepingWorker(t)
      <3>3. \/ scan' = scan
            \/ scan[t] < N /\ scan' = [scan EXCEPT ![t] = @ + 1]
        BY <2>1 DEF TryWakeFirstSleepingWorker, ScanLength
      <3>1. scan' \in [Threads -> 0 .. N]
        BY <3>3
      <3>4. semaphore' = semaphore \/ \E w : Wake(w)
        BY <2>1 DEF TryWakeFirstSleepingWorker
      <3>2. semaphore' \in [Workers -> 0 .. SemMax]
        BY <3>4, WakeType
      <3> QED BY <2>1, <3>1, <3>2 DEF TryWakeFirstSleepingWorker
    <2>2. CASE CheckParents(t)
      BY <2>2 DEF CheckParents
    <2>3. CASE FinishJob(t)
      <3>1. cur[t] \in Jobs
        BY <2>3 DEF FinishJob, CurMatchesPc, Holding
      <3>2. state' \in [Jobs -> Nat]
        BY <2>3, <3>1 DEF FinishJob
      <3>3. cur' \in [Threads -> Jobs \cup {NoJob}] /\ scan' \in [Threads -> 0 .. N]
        BY <2>3 DEF FinishJob
      <3> QED BY <2>3, <3>2, <3>3 DEF FinishJob
    <2>4. CASE PushBack(t)
      <3>1. cur[t] \in Jobs
        BY <2>4 DEF PushBack, CurMatchesPc, Holding
      <3>2. jobQueue' \in Seq(Jobs)
        BY <2>4, <3>1, AppendFacts DEF PushBack
      <3>3. cur' \in [Threads -> Jobs \cup {NoJob}] /\ scan' \in [Threads -> 0 .. N]
        BY <2>4 DEF PushBack
      <3> QED BY <2>4, <3>2, <3>3 DEF PushBack
    <2> QED BY <1>3, <2>1, <2>2, <2>3, <2>4 DEF RunSteps
  <1>4. ASSUME NEW w \in Workers, WorkerSteps(w) \/ InterruptedWait(w) PROVE DataOK'
    <2>1. CASE Grab(w)
      <3>1. jobQueue # <<>> => Head(jobQueue) \in Jobs /\ Tail(jobQueue) \in Seq(Jobs)
        BY TailFacts
      <3>2. jobQueue' \in Seq(Jobs) /\ cur' \in [Threads -> Jobs \cup {NoJob}]
        BY <2>1, <3>1 DEF Grab, PopJob
      <3>3. scan' \in [Threads -> 0 .. N]
        BY <2>1 DEF Grab
      <3> QED BY <2>1, <3>2, <3>3 DEF Grab
    <2>2. CASE MarkSleeping(w)
      BY <2>2 DEF MarkSleeping
    <2>3. CASE Recheck(w)
      <3>1. running' \in [Workers -> Int]
        BY <2>3 DEF Recheck
      <3> QED BY <2>3, <3>1 DEF Recheck
    <2>4. CASE WaitForWake(w)
      <3>1. semaphore[w] > 0 /\ semaphore' = [semaphore EXCEPT ![w] = @ - 1]
        BY <2>4 DEF WaitForWake
      <3>2. semaphore' \in [Workers -> 0 .. SemMax]
        BY <3>1
      <3> QED BY <2>4, <3>2 DEF WaitForWake
    <2>5. CASE MarkRunning(w)
      BY <2>5 DEF MarkRunning
    <2>6. CASE LeaveThread(w)
      BY <2>6 DEF LeaveThread
    <2>7. CASE InterruptedWait(w)
      BY <2>7 DEF InterruptedWait
    <2> QED BY <1>4, <2>1, <2>2, <2>3, <2>4, <2>5, <2>6, <2>7 DEF WorkerSteps
  <1>5. CASE UNCHANGED vars
    BY <1>5 DEF vars
  <1> QED BY <1>1, <1>2, <1>3, <1>4, <1>5 DEF Next

-----------------------------------------------------------------------------
(* What the four ways of moving a job do to its ownership.                   *)

LEMMA QueuedAreJobs ==
  ASSUME TypeOK, NEW x, InQueue(x) PROVE x \in Jobs /\ x # NoJob
  BY ConstantsAssumption DEF TypeOK, DataOK, InQueue, Contains

LEMMA PopKeepsOwnership ==
  ASSUME TypeOK, UniqueOwner, NEW t \in Threads, cur[t] = NoJob, jobQueue # <<>>,
         cur' = [cur EXCEPT ![t] = Head(jobQueue)], jobQueue' = Tail(jobQueue)
  PROVE  UniqueOwner' /\ \A j \in Jobs : Live(j)' <=> Live(j)
  <1>1. /\ Head(jobQueue) \in Jobs /\ NoRepeats(jobQueue') /\ ~Contains(jobQueue', Head(jobQueue))
        /\ \A x : InQueue(x) <=> InQueue(x)' \/ x = Head(jobQueue)
    <2>1. jobQueue \in Seq(Jobs) /\ NoRepeats(jobQueue)
      BY DEF TypeOK, DataOK, UniqueOwner
    <2>2. /\ Head(jobQueue) \in Jobs /\ NoRepeats(Tail(jobQueue))
          /\ ~Contains(Tail(jobQueue), Head(jobQueue))
          /\ \A x : Contains(jobQueue, x) <=> Contains(Tail(jobQueue), x) \/ x = Head(jobQueue)
      BY <2>1, TailFacts
    <2> QED BY <2>2 DEF InQueue
  <1>2. cur \in [Threads -> Jobs \cup {NoJob}]
    BY DEF TypeOK, DataOK
  <1>3. UniqueOwner'
    <2>1. \A u \in Threads : cur[u] # Head(jobQueue) /\ ~InQueue(cur[u])
      BY <1>1 DEF UniqueOwner
    <2>2. \A u, v \in Threads : cur'[u] # NoJob /\ cur'[u] = cur'[v] => u = v
      BY <1>2, <2>1 DEF UniqueOwner
    <2>3. \A u \in Threads : ~Contains(jobQueue', cur'[u])
      BY <1>1, <1>2, <2>1 DEF InQueue
    <2> QED BY <1>1, <2>2, <2>3 DEF UniqueOwner, InQueue
  <1>4. \A j \in Jobs : Live(j)' <=> Live(j)
    <2> SUFFICES ASSUME NEW j \in Jobs PROVE Live(j)' <=> Live(j)
      OBVIOUS
    <2>1. CASE j = Head(jobQueue)
      BY <1>1, <1>2, <2>1, ConstantsAssumption DEF Live, Holds
    <2>2. CASE j # Head(jobQueue)
      BY <1>1, <1>2, <2>2, ConstantsAssumption DEF Live, Holds
    <2> QED BY <2>1, <2>2
  <1> QED BY <1>3, <1>4

LEMMA PushKeepsOwnership ==
  ASSUME TypeOK, UniqueOwner, NEW t \in Threads, cur[t] \in Jobs,
         cur' = [cur EXCEPT ![t] = NoJob], jobQueue' = Append(jobQueue, cur[t])
  PROVE  UniqueOwner' /\ \A j \in Jobs : Live(j)' <=> Live(j)
  <1>1. NoRepeats(jobQueue') /\ \A x : InQueue(x)' <=> InQueue(x) \/ x = cur[t]
    BY AppendFacts DEF TypeOK, DataOK, UniqueOwner, InQueue
  <1>2. cur \in [Threads -> Jobs \cup {NoJob}] /\ NoJob \notin Jobs
    BY ConstantsAssumption DEF TypeOK, DataOK
  <1>3. UniqueOwner'
    BY <1>1, <1>2, QueuedAreJobs, ConstantsAssumption DEF UniqueOwner
  <1>4. \A j \in Jobs : Live(j)' <=> Live(j)
    <2> SUFFICES ASSUME NEW j \in Jobs PROVE Live(j)' <=> Live(j)
      OBVIOUS
    <2>1. CASE j = cur[t]
      BY <1>1, <1>2, <2>1 DEF Live, Holds
    <2>2. CASE j # cur[t]
      BY <1>1, <1>2, <2>2 DEF Live, Holds
    <2> QED BY <2>1, <2>2
  <1> QED BY <1>3, <1>4

LEMMA FinishEndsOwnership ==
  ASSUME TypeOK, UniqueOwner, NEW t \in Threads, cur[t] \in Jobs,
         cur' = [cur EXCEPT ![t] = NoJob], jobQueue' = jobQueue
  PROVE  UniqueOwner' /\ \A j \in Jobs : Live(j)' <=> Live(j) /\ j # cur[t]
  <1>1. cur \in [Threads -> Jobs \cup {NoJob}] /\ NoJob \notin Jobs
    BY ConstantsAssumption DEF TypeOK, DataOK
  <1>2. NoRepeats(jobQueue') /\ \A x : InQueue(x)' <=> InQueue(x)
    BY DEF UniqueOwner, InQueue
  <1>4. UniqueOwner'
    BY <1>1, <1>2, QueuedAreJobs DEF UniqueOwner
  <1>3. \A j \in Jobs : Live(j)' <=> Live(j) /\ j # cur[t]
    BY <1>1, <1>2 DEF Live, Holds, UniqueOwner
  <1> QED BY <1>3, <1>4

LEMMA SubmitAddsOwnership ==
  ASSUME TypeOK, UniqueOwner, NEW j \in Jobs, ~Live(j),
         cur' = cur, jobQueue' = Append(jobQueue, j)
  PROVE  UniqueOwner' /\ \A x \in Jobs : Live(x)' <=> Live(x) \/ x = j
  <1>1. \A x : InQueue(x)' <=> InQueue(x) \/ x = j
    BY AppendFacts DEF TypeOK, DataOK, InQueue
  <1>2. NoRepeats(jobQueue')
    BY AppendFacts DEF TypeOK, DataOK, UniqueOwner, InQueue, Live
  <1>3. NoJob # j /\ \A t \in Threads : cur[t] # j
    BY ConstantsAssumption DEF Live, Holds
  <1> QED BY <1>1, <1>2, <1>3 DEF UniqueOwner, Live, Holds

-----------------------------------------------------------------------------
(* Control points, hands and running flags agree.                           *)

LEMMA PcStep ==
  ASSUME OwnershipInv, [Next]_vars
  PROVE  CurMatchesPc' /\ RunningMatchesPc'
  <1> USE ThreadFacts DEF OwnershipInv, TypeOK, ControlOK, CurMatchesPc, RunningMatchesPc,
                          WorkerPc, MainPc, Holding, Asleep, Goto
  <1>0. /\ cur \in [Threads -> Jobs \cup {NoJob}] /\ running \in [Workers -> Int]
        /\ NoJob \notin Jobs
    BY ConstantsAssumption DEF DataOK
  <1>1. CASE Caller
    BY <1>0, <1>1 DEF Caller, StartUp, AddJob, SyncCall
  <1>2. CASE SyncSteps
    <2>1. jobQueue # <<>> => Head(jobQueue) \in Jobs
      BY TailFacts DEF DataOK
    <2> QED BY <1>0, <1>2, <2>1 DEF SyncSteps, SyncGrab, PopJob, AwaitWorkers, DeleteJobs, RaiseShutdown,
                           PostWorkers, JoinWorkers
  <1>3. ASSUME NEW t \in Threads, RunSteps(t) PROVE CurMatchesPc' /\ RunningMatchesPc'
    BY <1>0, <1>3 DEF RunSteps, TryWakeFirstSleepingWorker, AfterScan, CheckParents, FinishJob,
                PushBack, NextRound
  <1>4. ASSUME NEW w \in Workers, WorkerSteps(w) \/ InterruptedWait(w)
        PROVE  CurMatchesPc' /\ RunningMatchesPc'
    <2>1. jobQueue # <<>> => Head(jobQueue) \in Jobs
      BY TailFacts DEF DataOK
    <2> QED BY <1>0, <1>4, <2>1 DEF WorkerSteps, Grab, PopJob, AfterGrab, MarkSleeping, Recheck, WaitForWake,
                           MarkRunning, LeaveThread, InterruptedWait
  <1>5. CASE UNCHANGED vars
    BY <1>5 DEF vars
  <1> QED BY <1>1, <1>2, <1>3, <1>4, <1>5 DEF Next

-----------------------------------------------------------------------------
(* Ownership, job states and the order of parents.                          *)

Order == UniqueOwner /\ JobStates /\ ParentsFirst

\* A step that completes no job and starts no callback.
LEMMA QuietStep ==
  ASSUME OwnershipInv, UniqueOwner', UNCHANGED <<state, parents>>,
         allocatedJobs' \cup freedJobs' = allocatedJobs \cup freedJobs,
         \A j \in Jobs : Live(j)' => Live(j),
         \A t \in Threads : pc'[t] = "callback" => pc[t] = "callback" /\ cur'[t] = cur[t]
  PROVE  Order'
  <1>1. JobStates'
    BY DEF OwnershipInv, JobStates
  <1>2. ParentsFirst'
    BY DEF OwnershipInv, ParentsFirst, Holds
  <1> QED BY <1>1, <1>2 DEF Order

\* A step that moves no job either.
LEMMA FrameStep ==
  ASSUME OwnershipInv, UNCHANGED <<jobQueue, cur, state, parents>>,
         allocatedJobs' \cup freedJobs' = allocatedJobs \cup freedJobs,
         \A t \in Threads : pc'[t] = "callback" => pc[t] = "callback"
  PROVE  Order'
  <1>1. UniqueOwner'
    BY DEF OwnershipInv, UniqueOwner, InQueue
  <1>2. \A j \in Jobs : Live(j)' => Live(j)
    BY DEF Live, Holds, InQueue
  <1> QED BY <1>1, <1>2, QuietStep

LEMMA StartUpOrder ==
  ASSUME OwnershipInv, StartUp PROVE Order'
  <1>1. UniqueOwner' /\ \A j \in Jobs : ~Live(j)'
    BY EmptyFacts, ConstantsAssumption DEF StartUp, UniqueOwner, Live, Holds, InQueue
  <1>2. \A t \in Threads : pc'[t] # "callback"
    BY DEF StartUp
  <1> QED BY <1>1, <1>2, QuietStep DEF StartUp

LEMMA AddJobOrder ==
  ASSUME OwnershipInv, NEW j \in Jobs, NEW ps \in SUBSET MayDepend[j], AddJob(j, ps)
  PROVE  Order'
  <1>1. ~Live(j) /\ state[j] = 0
    BY DEF AddJob, OwnershipInv, JobStates
  <1>2. UniqueOwner' /\ \A x \in Jobs : Live(x)' <=> Live(x) \/ x = j
    BY <1>1, SubmitAddsOwnership DEF AddJob, OwnershipInv
  <1>3. JobStates'
    BY <1>1, <1>2 DEF AddJob, OwnershipInv, JobStates
  <1>4. /\ parents \in [Jobs -> SUBSET Jobs]
        /\ \A t \in Threads : pc'[t] = "callback" => pc[t] = "callback"
        /\ \A t \in Threads : ~Holds(t, j)
    BY <1>1, ThreadFacts DEF AddJob, OwnershipInv, TypeOK, DataOK, ControlOK, Goto, Live
  <1>5. ParentsFirst'
    BY <1>1, <1>4 DEF AddJob, OwnershipInv, ParentsFirst, Holds
  <1> QED BY <1>2, <1>3, <1>5 DEF Order

LEMMA CheckParentsOrder ==
  ASSUME OwnershipInv, NEW t \in Threads, CheckParents(t) PROVE Order'
  <1>1. UniqueOwner' /\ JobStates'
    BY DEF CheckParents, OwnershipInv, UniqueOwner, JobStates, Live, Holds, InQueue
  <1>2. ParentsFirst'
    <2> SUFFICES ASSUME NEW j \in Jobs, NEW p \in parents[j],
                        state[j] = 1 \/ \E u \in Threads : cur[u] = j /\ pc'[u] = "callback"
                 PROVE  state[p] = 1
      BY DEF CheckParents, ParentsFirst, Holds
    <2>1. p \in Jobs /\ state[p] \in {0, 1} /\ j # NoJob
      BY ConstantsAssumption DEF OwnershipInv, TypeOK, DataOK, JobStates
    <2>2. CASE state[j] = 1 \/ \E u \in Threads : cur[u] = j /\ pc[u] = "callback"
      BY <2>1, <2>2 DEF OwnershipInv, ParentsFirst, Holds
    <2>3. CASE cur[t] = j /\ pc'[t] = "callback"
      BY <2>1, <2>3 DEF CheckParents, OwnershipInv, TypeOK, ControlOK, Goto, DependenciesSatisfied
    <2>4. \A u \in Threads : u # t => pc'[u] = pc[u]
      BY DEF CheckParents, OwnershipInv, TypeOK, ControlOK, Goto
    <2> QED BY <2>2, <2>3, <2>4
  <1> QED BY <1>1, <1>2 DEF Order

LEMMA FinishJobOrder ==
  ASSUME OwnershipInv, NEW t \in Threads, FinishJob(t) PROVE Order'
  <1>1. /\ cur[t] \in Jobs /\ Holds(t, cur[t]) /\ state \in [Jobs -> Nat]
        /\ parents \in [Jobs -> SUBSET Jobs] /\ cur \in [Threads -> Jobs \cup {NoJob}]
    BY ConstantsAssumption
    DEF FinishJob, OwnershipInv, TypeOK, DataOK, CurMatchesPc, Holding, Holds
  <1>2. UniqueOwner' /\ \A j \in Jobs : Live(j)' <=> Live(j) /\ j # cur[t]
    BY <1>1, FinishEndsOwnership DEF FinishJob, OwnershipInv
  <1>3. state[cur[t]] = 0
    BY <1>1 DEF OwnershipInv, JobStates, Live
  <1>4. \A j \in Jobs : state'[j] = IF j = cur[t] THEN 1 ELSE state[j]
    BY <1>1, <1>3 DEF FinishJob
  <1>5. JobStates'
    BY <1>1, <1>2, <1>4 DEF FinishJob, OwnershipInv, JobStates, Live
  <1>6. ParentsFirst'
    <2> SUFFICES ASSUME NEW j \in Jobs, NEW p \in parents[j],
                        state'[j] = 1 \/ \E u \in Threads : cur'[u] = j /\ pc'[u] = "callback"
                 PROVE  state'[p] = 1
      BY DEF FinishJob, ParentsFirst, Holds
    <2>1. /\ p \in Jobs /\ j # NoJob /\ pc[t] = "callback"
          /\ \A u \in Threads : u # t => pc'[u] = pc[u] /\ cur'[u] = cur[u]
          /\ cur'[t] = NoJob
      BY <1>1, ConstantsAssumption DEF FinishJob, Goto, OwnershipInv, TypeOK, ControlOK
    <2>2. state[j] = 1 \/ \E u \in Threads : cur[u] = j /\ pc[u] = "callback"
      BY <1>4, <2>1
    <2>3. state[p] = 1
      BY <2>1, <2>2 DEF OwnershipInv, ParentsFirst, Holds
    <2> QED BY <1>4, <2>1, <2>3
  <1> QED BY <1>2, <1>5, <1>6 DEF Order

LEMMA PushBackOrder ==
  ASSUME OwnershipInv, NEW t \in Threads, PushBack(t) PROVE Order'
  <1>1. cur[t] \in Jobs /\ cur \in [Threads -> Jobs \cup {NoJob}]
    BY DEF PushBack, OwnershipInv, TypeOK, DataOK, CurMatchesPc, Holding
  <1>2. UniqueOwner' /\ \A j \in Jobs : Live(j)' <=> Live(j)
    BY <1>1, PushKeepsOwnership DEF PushBack, OwnershipInv
  <1>3. \A u \in Threads : pc'[u] = "callback" => pc[u] = "callback" /\ cur'[u] = cur[u]
    BY <1>1 DEF PushBack, Goto, NextRound, OwnershipInv, TypeOK, ControlOK
  <1> QED BY <1>2, <1>3, QuietStep DEF PushBack

LEMMA SyncGrabOrder ==
  ASSUME OwnershipInv, SyncGrab PROVE Order'
  <1>1. /\ cur[Main] = NoJob /\ cur \in [Threads -> Jobs \cup {NoJob}]
        /\ \A u \in Threads : pc'[u] = "callback" => pc[u] = "callback" /\ u # Main
    BY ThreadFacts DEF SyncGrab, PopJob, Goto, OwnershipInv, TypeOK, DataOK, ControlOK, CurMatchesPc, Holding
  <1>2. CASE jobQueue = <<>>
    BY <1>1, <1>2, FrameStep DEF SyncGrab, PopJob
  <1>3. CASE jobQueue # <<>>
    <2>1. UniqueOwner' /\ \A j \in Jobs : Live(j)' <=> Live(j)
      BY <1>1, <1>3, ThreadFacts, PopKeepsOwnership DEF SyncGrab, PopJob, OwnershipInv
    <2>2. \A u \in Threads : u # Main => cur'[u] = cur[u]
      BY <1>1, <1>3 DEF SyncGrab, PopJob
    <2> QED BY <1>1, <2>1, <2>2, QuietStep DEF SyncGrab, PopJob
  <1> QED BY <1>2, <1>3

LEMMA GrabOrder ==
  ASSUME OwnershipInv, NEW w \in Workers, Grab(w) PROVE Order'
  <1>1. /\ w \in Threads /\ cur[w] = NoJob /\ cur \in [Threads -> Jobs \cup {NoJob}]
        /\ \A u \in Threads : pc'[u] = "callback" => pc[u] = "callback" /\ u # w
    BY ThreadFacts DEF Grab, PopJob, AfterGrab, Goto, OwnershipInv, TypeOK, DataOK, ControlOK, CurMatchesPc, Holding
  <1>2. CASE jobQueue = <<>>
    <2>1. cur' = cur /\ jobQueue' = jobQueue
      BY <1>1, <1>2 DEF Grab, PopJob, AfterGrab
    <2> QED BY <1>1, <2>1, FrameStep DEF Grab, PopJob, AfterGrab
  <1>3. CASE jobQueue # <<>>
    <2>1. cur' = [cur EXCEPT ![w] = Head(jobQueue)] /\ jobQueue' = Tail(jobQueue)
      BY <1>3 DEF Grab, PopJob, AfterGrab
    <2>2. UniqueOwner' /\ \A j \in Jobs : Live(j)' <=> Live(j)
      BY <1>1, <1>3, <2>1, PopKeepsOwnership DEF OwnershipInv
    <2>3. \A u \in Threads : u # w => cur'[u] = cur[u]
      BY <1>1, <2>1
    <2> QED BY <1>1, <2>2, <2>3, QuietStep DEF Grab, PopJob, AfterGrab
  <1> QED BY <1>2, <1>3

LEMMA OrderStep ==
  ASSUME OwnershipInv, [Next]_vars PROVE Order'
  <1> USE ThreadFacts DEF OwnershipInv, TypeOK, ControlOK, Goto
  <1>1. CASE Caller
    <2>1. ASSUME NEW b \in BOOLEAN, SyncCall(b) PROVE Order'
      <3>1. \A t \in Threads : pc'[t] = "callback" => pc[t] = "callback"
        BY <2>1 DEF SyncCall
      <3> QED BY <2>1, <3>1, FrameStep DEF SyncCall
    <2> QED BY <1>1, <2>1, StartUpOrder, AddJobOrder DEF Caller
  <1>2. CASE SyncSteps
    <2>1. CASE AwaitWorkers \/ DeleteJobs \/ RaiseShutdown \/ PostWorkers \/ JoinWorkers
      <3>1. \A t \in Threads : pc'[t] = "callback" => pc[t] = "callback"
        BY <2>1 DEF AwaitWorkers, DeleteJobs, RaiseShutdown, PostWorkers, JoinWorkers
      <3>2. allocatedJobs' \cup freedJobs' = allocatedJobs \cup freedJobs
        BY <2>1 DEF AwaitWorkers, DeleteJobs, RaiseShutdown, PostWorkers, JoinWorkers
      <3> QED BY <2>1, <3>1, <3>2, FrameStep
              DEF AwaitWorkers, DeleteJobs, RaiseShutdown, PostWorkers, JoinWorkers
    <2> QED BY <1>2, <2>1, SyncGrabOrder DEF SyncSteps
  <1>3. ASSUME NEW t \in Threads, RunSteps(t) PROVE Order'
    <2>1. CASE TryWakeFirstSleepingWorker(t)
      <3>1. \A u \in Threads : pc'[u] = "callback" => pc[u] = "callback"
        BY <2>1 DEF TryWakeFirstSleepingWorker, AfterScan
      <3> QED BY <2>1, <3>1, FrameStep DEF TryWakeFirstSleepingWorker
    <2> QED BY <1>3, <2>1, CheckParentsOrder, FinishJobOrder, PushBackOrder DEF RunSteps
  <1>4. ASSUME NEW w \in Workers, WorkerSteps(w) \/ InterruptedWait(w) PROVE Order'
    <2>1. CASE ~Grab(w)
      <3>1. \A u \in Threads : pc'[u] = "callback" => pc[u] = "callback"
        BY <1>4, <2>1 DEF WorkerSteps, MarkSleeping, Recheck, WaitForWake, MarkRunning,
                          LeaveThread, InterruptedWait
      <3> QED BY <1>4, <2>1, <3>1, FrameStep
              DEF WorkerSteps, MarkSleeping, Recheck, WaitForWake, MarkRunning, LeaveThread,
                  InterruptedWait
    <2> QED BY <2>1, GrabOrder
  <1>5. CASE UNCHANGED vars
    BY <1>5, FrameStep DEF vars
  <1> QED BY <1>1, <1>2, <1>3, <1>4, <1>5 DEF Next

LEMMA OwnershipInit == Init => OwnershipInv
  <1> SUFFICES ASSUME Init PROVE OwnershipInv
    OBVIOUS
  <1>1. UniqueOwner /\ \A j \in Jobs : ~Live(j)
    BY EmptyFacts, ConstantsAssumption DEF Init, UniqueOwner, Live, Holds, InQueue
  <1>2. CurMatchesPc
    BY DEF Init, CurMatchesPc, Holding
  <1>3. RunningMatchesPc
    BY ThreadFacts DEF Init, RunningMatchesPc, Asleep
  <1>4. JobStates /\ ParentsFirst
    BY <1>1 DEF Init, JobStates, ParentsFirst
  <1> QED BY <1>1, <1>2, <1>3, <1>4, TypeInit DEF OwnershipInv

\* The strengthened invariant holds in every behaviour, whatever the dependencies.
THEOREM Ownership == Spec => []OwnershipInv
  <1>1. OwnershipInv /\ [Next]_vars => OwnershipInv'
    BY ControlStep, DataStep, PcStep, OrderStep DEF OwnershipInv, TypeOK, Order
  <1> QED BY OwnershipInit, <1>1, PTL DEF Spec

\* Every variable of the job system keeps its type.
THEOREM TypeCorrect == Spec => []TypeOK
  BY Ownership, PTL DEF OwnershipInv

\* A job is never in two places at once.
THEOREM OneOwner == Spec => []UniqueOwner
  BY Ownership, PTL DEF OwnershipInv

\* No callback starts before every parent's has returned.
THEOREM ParentsRunFirst == Spec => []ParentsFirst
  BY Ownership, PTL DEF OwnershipInv

\* The assertions in the code about job states and running flags never fire.
THEOREM AssertionsHold == Spec => []Assertions
  <1>1. OwnershipInv => Assertions
    BY DEF OwnershipInv, JobStates, RunningMatchesPc, Asleep, Assertions
  <1> QED BY Ownership, <1>1, PTL

-----------------------------------------------------------------------------
(* With at least one worker no job is lost, whatever the dependencies.       *)

LEMMA OwnershipFacts ==
  ASSUME OwnershipInv
  PROVE  /\ pc \in [Threads -> WorkerPc \cup MainPc] /\ pc[Main] \in MainPc
         /\ \A w \in Workers : pc[w] \in WorkerPc
         /\ jobQueue \in Seq(Jobs)
         /\ cur \in [Threads -> Jobs \cup {NoJob}] /\ NoJob \notin Jobs
         /\ scan \in [Threads -> 0 .. N] /\ state \in [Jobs -> Nat]
         /\ semaphore \in [Workers -> 0 .. SemMax]
         /\ allocatedJobs \in SUBSET Jobs
         /\ \A t \in Threads : pc[t] \in Holding => cur[t] \in Jobs
         /\ \A t \in Threads : pc[t] \notin Holding \cup {"leave", "gone"} => cur[t] = NoJob
  <1>1. /\ pc \in [Threads -> WorkerPc \cup MainPc] /\ pc[Main] \in MainPc
        /\ \A w \in Workers : pc[w] \in WorkerPc
        /\ jobQueue \in Seq(Jobs)
        /\ cur \in [Threads -> Jobs \cup {NoJob}] /\ NoJob \notin Jobs
        /\ scan \in [Threads -> 0 .. N] /\ state \in [Jobs -> Nat]
        /\ semaphore \in [Workers -> 0 .. SemMax]
        /\ allocatedJobs \in SUBSET Jobs
    BY ConstantsAssumption DEF OwnershipInv, TypeOK, ControlOK, DataOK
  <1>2. \A t \in Threads : pc[t] \in Holding => cur[t] \in Jobs
    BY <1>1 DEF OwnershipInv, CurMatchesPc
  <1>3. \A t \in Threads : pc[t] \notin Holding \cup {"leave", "gone"} => cur[t] = NoJob
    BY DEF OwnershipInv, CurMatchesPc
  <1> QED BY <1>1, <1>2, <1>3

\* A step that moves jobs about, but submits, completes and drops none.
LEMMA LossFrame ==
  ASSUME OwnershipInv, LossInv, UNCHANGED <<allocatedJobs, state>>,
         \A j \in Jobs : Live(j) => Live(j)',
         \/ pc'[Main] \notin {"raise", "post", "join", "down"}
         \/ pc[Main] \in {"raise", "post", "join", "down"}
  PROVE  LossInv'
  BY OwnershipFacts DEF LossInv, NoJobLost

LEMMA LossStep ==
  ASSUME N > 0, OwnershipInv, LossInv, [Next]_vars PROVE LossInv'
  <1>0. ASSUME UNCHANGED <<jobQueue, cur>> PROVE \A j \in Jobs : Live(j) => Live(j)'
    BY <1>0 DEF Live, Holds, InQueue
  <1>1. CASE Caller
    <2>1. CASE StartUp
      <3>1. allocatedJobs' = {} /\ pc[Main] = "down"
        BY <2>1 DEF StartUp, LossInv
      <3> QED BY <3>1 DEF LossInv, NoJobLost
    <2>2. ASSUME NEW j \in Jobs, NEW ps \in SUBSET MayDepend[j], AddJob(j, ps) PROVE LossInv'
      <3>1. ~Live(j)
        BY <2>2 DEF AddJob, OwnershipInv, JobStates
      <3>2. \A x \in Jobs : Live(x)' <=> Live(x) \/ x = j
        BY <2>2, <3>1, SubmitAddsOwnership DEF AddJob, OwnershipInv
      <3>3. pc'[Main] = "addScan"
        BY <2>2, OwnershipFacts, ThreadFacts DEF AddJob, Goto
      <3> QED BY <2>2, <3>2, <3>3, OwnershipFacts DEF AddJob, LossInv, NoJobLost
    <2>3. ASSUME NEW b \in BOOLEAN, SyncCall(b) PROVE LossInv'
      <3>1. pc'[Main] = "syncGrab"
        BY <2>3, OwnershipFacts, ThreadFacts DEF SyncCall, Goto
      <3> QED BY <1>0, <2>3, <3>1, LossFrame DEF SyncCall
    <2> QED BY <1>1, <2>1, <2>2, <2>3 DEF Caller
  <1>2. CASE SyncSteps
    <2>1. CASE SyncGrab
      <3>1. pc'[Main] \in {"await", "ready"} /\ cur[Main] = NoJob
        BY <2>1, OwnershipFacts, ThreadFacts DEF SyncGrab, Goto, Holding
      <3>2. \A j \in Jobs : Live(j) => Live(j)'
        <4>1. CASE jobQueue = <<>>
          BY <1>0, <2>1, <4>1 DEF SyncGrab
        <4>2. CASE jobQueue # <<>>
          BY <2>1, <3>1, <4>2, ThreadFacts, PopKeepsOwnership DEF SyncGrab, PopJob, OwnershipInv
        <4> QED BY <4>1, <4>2
      <3> QED BY <2>1, <3>1, <3>2, LossFrame DEF SyncGrab
    <2>2. CASE AwaitWorkers
      <3>1. pc'[Main] \in {"await", "delete"}
        BY <2>2, OwnershipFacts, ThreadFacts DEF AwaitWorkers, Goto
      <3> QED BY <1>0, <2>2, <3>1, LossFrame DEF AwaitWorkers
    <2>3. CASE DeleteJobs
      BY <2>3 DEF DeleteJobs, LossInv, NoJobLost
    <2>4. CASE RaiseShutdown \/ PostWorkers \/ JoinWorkers
      <3>1. pc[Main] \in {"raise", "post", "join", "down"}
        BY <2>4 DEF RaiseShutdown, PostWorkers, JoinWorkers
      <3> QED BY <1>0, <2>4, <3>1, LossFrame DEF RaiseShutdown, PostWorkers, JoinWorkers
    <2> QED BY <1>2, <2>1, <2>2, <2>3, <2>4 DEF SyncSteps
  <1>3. ASSUME NEW t \in Threads, RunSteps(t) PROVE LossInv'
    <2>0. \/ pc'[Main] \notin {"raise", "post", "join", "down"}
          \/ pc[Main] \in {"raise", "post", "join", "down"}
      BY <1>3, OwnershipFacts, ThreadFacts
      DEF RunSteps, TryWakeFirstSleepingWorker, AfterScan, CheckParents, FinishJob, PushBack,
          NextRound, Goto
    <2>1. CASE TryWakeFirstSleepingWorker(t) \/ CheckParents(t)
      BY <1>0, <2>0, <2>1, LossFrame DEF TryWakeFirstSleepingWorker, CheckParents
    <2>2. CASE FinishJob(t)
      <3>1. cur[t] \in Jobs
        BY <2>2, OwnershipFacts DEF FinishJob, Holding
      <3>2. \A j \in Jobs : Live(j)' <=> Live(j) /\ j # cur[t]
        BY <2>2, <3>1, FinishEndsOwnership DEF FinishJob, OwnershipInv
      <3>3. state[cur[t]] = 0
        BY <2>2, <3>1, OwnershipFacts DEF FinishJob, OwnershipInv, JobStates, Live, Holds
      <3>4. \A j \in Jobs : state'[j] = IF j = cur[t] THEN 1 ELSE state[j]
        BY <2>2, <3>1, <3>3, OwnershipFacts DEF FinishJob
      <3> QED BY <2>0, <2>2, <3>2, <3>4, OwnershipFacts DEF FinishJob, LossInv, NoJobLost
    <2>3. CASE PushBack(t)
      <3>1. cur[t] \in Jobs
        BY <2>3, OwnershipFacts DEF PushBack, Holding
      <3>2. \A j \in Jobs : Live(j)' <=> Live(j)
        BY <2>3, <3>1, PushKeepsOwnership DEF PushBack, OwnershipInv
      <3> QED BY <2>0, <2>3, <3>2, LossFrame DEF PushBack
    <2> QED BY <1>3, <2>1, <2>2, <2>3 DEF RunSteps
  <1>4. ASSUME NEW w \in Workers, WorkerSteps(w) \/ InterruptedWait(w) PROVE LossInv'
    <2>0. pc'[Main] = pc[Main]
      BY <1>4, OwnershipFacts, ThreadFacts
      DEF WorkerSteps, Grab, MarkSleeping, Recheck, WaitForWake, MarkRunning, LeaveThread,
          InterruptedWait, Goto
    <2>1. CASE Grab(w)
      <3>1. \A j \in Jobs : Live(j) => Live(j)'
        <4>1. CASE jobQueue = <<>>
          BY <1>0, <2>1, <4>1 DEF Grab
        <4>2. CASE jobQueue # <<>>
          <5>1. cur[w] = NoJob /\ w \in Threads
            BY <2>1, OwnershipFacts, ThreadFacts DEF Grab, Holding
          <5> QED BY <2>1, <4>2, <5>1, PopKeepsOwnership DEF Grab, PopJob, OwnershipInv
        <4> QED BY <4>1, <4>2
      <3> QED BY <2>0, <2>1, <3>1, LossFrame DEF Grab
    <2>2. CASE ~Grab(w)
      BY <1>0, <1>4, <2>0, <2>2, LossFrame
      DEF WorkerSteps, MarkSleeping, Recheck, WaitForWake, MarkRunning, LeaveThread,
          InterruptedWait
    <2> QED BY <2>1, <2>2
  <1>5. CASE UNCHANGED vars
    BY <1>0, <1>5, LossFrame DEF vars
  <1> QED BY <1>1, <1>2, <1>3, <1>4, <1>5 DEF Next

\* With at least one worker, and whatever the jobs depend on, no submitted job is lost:
\* not by a push-back that races its parents, and not by a sync or a shutdown.
THEOREM NothingLost == ASSUME N > 0 PROVE Spec => []NoJobLost
  <1>1. Init => LossInv
    BY DEF Init, LossInv, NoJobLost
  <1>2. OwnershipInv /\ LossInv /\ [Next]_vars => LossInv'
    BY LossStep
  <1>3. LossInv => NoJobLost
    BY DEF LossInv
  <1> QED BY Ownership, <1>1, <1>2, <1>3, PTL DEF Spec

-----------------------------------------------------------------------------
(* A queued job is watched, for every number of workers.                     *)

\* A step that adds nothing to the queue, and leaves every watching worker watching.
LEMMA WatchFrame ==
  ASSUME WatchInv, jobQueue' = jobQueue,
         shutdown' => pc'[Main] \in {"post", "join", "down"},
         \A w \in Workers : pc'[w] \in {"leave", "gone"} => pc'[Main] \in {"post", "join", "down"},
         \A w \in Workers : Watching(w) => Watching(w)',
         \/ pc'[Main] \notin {"idle", "await", "delete", "addScan"}
         \/ pc'[Main] = "addScan" /\ ~(scan'[Main] > 0)
         \/ pc[Main] \in {"idle", "await", "delete"}
         \/ pc[Main] = "addScan" /\ scan[Main] > 0
         \/ \E w \in Workers : Watching(w)'
  PROVE  WatchInv'
  BY DEF WatchInv

\* The steps of the main thread.
LEMMA WatchMain ==
  ASSUME N > 0, OwnershipInv, WatchInv,
         Caller \/ SyncSteps \/ RunSteps(Main)
  PROVE  WatchInv'
  <1>0. ASSUME \A w \in Workers : pc'[w] = pc[w] /\ (semaphore[w] > 0 => semaphore'[w] > 0)
        PROVE  \A w \in Workers : Watching(w) => Watching(w)'
    BY <1>0, OwnershipFacts, ThreadFacts DEF Watching
  <1>1. CASE StartUp
    <2>1. pc'[Main] = "idle" /\ \A w \in Workers : pc'[w] = "grab"
      BY <1>1, ThreadFacts DEF StartUp
    <2>2. jobQueue' = <<>> /\ ~shutdown'
      BY <1>1 DEF StartUp
    <2> QED BY <2>1, <2>2 DEF WatchInv
  <1>2. ASSUME NEW j \in Jobs, NEW ps \in SUBSET MayDepend[j], AddJob(j, ps) PROVE WatchInv'
    <2>1. /\ pc[Main] = "idle" /\ pc'[Main] = "addScan" /\ scan'[Main] = 0
          /\ \A w \in Workers : pc'[w] = pc[w]
      BY <1>2, OwnershipFacts, ThreadFacts DEF AddJob, Goto
    <2> QED BY <1>2, <2>1 DEF AddJob, WatchInv
  <1>3. ASSUME NEW b \in BOOLEAN, SyncCall(b) PROVE WatchInv'
    <2>1. /\ pc[Main] = "idle" /\ pc'[Main] = "syncGrab"
          /\ \A w \in Workers : pc'[w] = pc[w]
      BY <1>3, OwnershipFacts, ThreadFacts DEF SyncCall, Goto
    <2> QED BY <1>3, <2>1 DEF SyncCall, WatchInv
  <1>4. CASE SyncGrab
    <2>1. /\ pc[Main] = "syncGrab" /\ pc'[Main] \in {"await", "ready"}
          /\ pc'[Main] = "await" => jobQueue' = <<>>
          /\ \A w \in Workers : pc'[w] = pc[w]
      BY <1>4, OwnershipFacts, ThreadFacts DEF SyncGrab, Goto
    <2> QED BY <1>4, <2>1 DEF SyncGrab, WatchInv
  <1>5. CASE AwaitWorkers \/ DeleteJobs \/ RaiseShutdown \/ JoinWorkers
    <2>1. /\ \A w \in Workers : pc'[w] = pc[w]
          /\ semaphore' = semaphore /\ jobQueue' = jobQueue
          /\ \/ pc[Main] \in {"await", "delete"} /\ pc'[Main] \in {"await", "delete", "idle", "raise"}
                /\ shutdown' = shutdown
             \/ pc[Main] \in {"raise", "join"} /\ pc'[Main] \in {"post", "join", "down"}
      BY <1>5, OwnershipFacts, ThreadFacts DEF AwaitWorkers, DeleteJobs, RaiseShutdown, JoinWorkers, Goto
    <2>2. \A w \in Workers : Watching(w) => Watching(w)'
      BY <2>1 DEF Watching
    <2> QED BY <2>1, <2>2 DEF WatchInv
  <1>6. CASE PostWorkers
    <2>1. /\ \A w \in Workers : pc'[w] = pc[w]
          /\ jobQueue' = jobQueue
          /\ pc[Main] = "post" /\ pc'[Main] \in {"post", "join"}
      BY <1>6, OwnershipFacts, ThreadFacts DEF PostWorkers, Goto
    <2> QED BY <2>1 DEF WatchInv
  <1>7. CASE TryWakeFirstSleepingWorker(Main)
    <2>1. \A w \in Workers : pc'[w] = pc[w]
      BY <1>7, OwnershipFacts, ThreadFacts DEF TryWakeFirstSleepingWorker, Goto
    <2>2. semaphore' = semaphore \/ Wake(scan[Main])
      BY <1>7 DEF TryWakeFirstSleepingWorker, ScanTarget
    <2>3. \A w \in Workers : semaphore[w] > 0 => semaphore'[w] > 0
      <3>1. CASE semaphore' = semaphore
        BY <3>1
      <3>2. CASE Wake(scan[Main])
        <4> SUFFICES ASSUME NEW w \in Workers, semaphore[w] > 0 PROVE semaphore'[w] > 0
          OBVIOUS
        <4>1. semaphore[w] \in Nat /\ semaphore \in [Workers -> 0 .. SemMax]
          BY OwnershipFacts, ThreadFacts
        <4>2. semaphore'[w] \in {semaphore[w], semaphore[w] + 1}
          BY <3>2, <4>1 DEF Wake
        <4> QED BY <4>1, <4>2
      <3> QED BY <2>2, <3>1, <3>2
    <2>4. \A w \in Workers : Watching(w) => Watching(w)'
      BY <1>0, <2>1, <2>3
    <2>5. jobQueue' = jobQueue /\ shutdown' = shutdown
      BY <1>7 DEF TryWakeFirstSleepingWorker
    <2>6. pc[Main] \in {"addScan", "syncScan"}
      BY <1>7, OwnershipFacts DEF TryWakeFirstSleepingWorker, MainPc
    <2>7. ~shutdown /\ \A w \in Workers : pc[w] \notin {"leave", "gone"}
      BY <2>6 DEF WatchInv
    <2>8. CASE pc[Main] = "syncScan"
      <3>1. pc'[Main] \in {"syncScan", "syncGrab"}
        BY <1>7, <2>8, OwnershipFacts, ThreadFacts DEF TryWakeFirstSleepingWorker, AfterScan, Goto
      <3> QED BY <2>1, <2>4, <2>5, <2>7, <3>1, WatchFrame
    <2>9. CASE pc[Main] = "addScan" /\ scan[Main] > 0
      BY <2>1, <2>4, <2>5, <2>7, <2>9, WatchFrame
    <2>10. CASE pc[Main] = "addScan" /\ scan[Main] = 0
      <3>1. 0 \in Workers /\ ScanTarget(Main) = 0 /\ 0 < ScanLength(Main)
        BY <2>10, ThreadFacts DEF Workers, ScanTarget, ScanLength
      <3>2. Watching(0)'
        <4>1. CASE running[0] = 0
          <5>1. Wake(0)
            BY <1>7, <2>10, <3>1, <4>1, ThreadFacts DEF TryWakeFirstSleepingWorker, ScanLength
          <5>2. semaphore'[0] > 0
            BY <3>1, <5>1, OwnershipFacts, ThreadFacts DEF Wake
          <5> QED BY <2>1, <2>7, <3>1, <5>2 DEF Watching
        <4>2. CASE running[0] # 0
          <5>1. pc[0] \notin Asleep
            BY <3>1, <4>2 DEF OwnershipInv, RunningMatchesPc
          <5> QED BY <2>1, <2>7, <3>1, <5>1 DEF Watching, Asleep
        <4> QED BY <4>1, <4>2
      <3> QED BY <2>1, <2>4, <2>5, <2>7, <3>1, <3>2, WatchFrame
    <2>11. scan[Main] \in Nat
      BY OwnershipFacts, ThreadFacts
    <2> QED BY <2>6, <2>8, <2>9, <2>10, <2>11
  <1>8. CASE CheckParents(Main) \/ FinishJob(Main) \/ PushBack(Main)
    <2>1. /\ \A w \in Workers : pc'[w] = pc[w]
          /\ pc[Main] \in {"ready", "callback", "pushback"}
          /\ pc'[Main] \in {"callback", "pushback", "syncScan"}
      BY <1>8, OwnershipFacts, ThreadFacts DEF CheckParents, FinishJob, PushBack, NextRound, Goto
    <2> QED BY <1>8, <2>1 DEF CheckParents, FinishJob, PushBack, WatchInv
  <1> QED BY <1>1, <1>2, <1>3, <1>4, <1>5, <1>6, <1>7, <1>8 DEF Caller, SyncSteps, RunSteps

\* The steps of a worker: it stops watching only after it saw the queue empty.
LEMMA WatchWorker ==
  ASSUME OwnershipInv, WatchInv, NEW w \in Workers,
         RunSteps(w) \/ WorkerSteps(w) \/ InterruptedWait(w)
  PROVE  WatchInv'
  <1>0. w \in Threads /\ w # Main
    BY ThreadFacts
  <1>1. /\ pc'[Main] = pc[Main] /\ scan'[Main] = scan[Main] /\ shutdown' = shutdown
        /\ \A v \in Workers : v # w => pc'[v] = pc[v]
    BY <1>0, OwnershipFacts, ThreadFacts
    DEF RunSteps, TryWakeFirstSleepingWorker, CheckParents, FinishJob, PushBack, WorkerSteps,
        Grab, MarkSleeping, Recheck, WaitForWake, MarkRunning, LeaveThread, InterruptedWait, Goto
  <1>2. pc'[w] \in {"leave", "gone"} => shutdown \/ pc[w] \in {"leave", "gone"}
    BY <1>0, OwnershipFacts
    DEF RunSteps, TryWakeFirstSleepingWorker, AfterScan, CheckParents, FinishJob, PushBack,
        NextRound, WorkerSteps, Grab, AfterGrab, MarkSleeping, Recheck, WaitForWake, MarkRunning,
        LeaveThread, InterruptedWait, Goto
  <1>3. \A v \in Workers : v # w /\ semaphore[v] > 0 => semaphore'[v] > 0
    <2>1. semaphore' = semaphore \/ \E u : Wake(u)
             \/ semaphore' = [semaphore EXCEPT ![w] = @ - 1]
      BY DEF RunSteps, TryWakeFirstSleepingWorker, CheckParents, FinishJob, PushBack, WorkerSteps,
             Grab, MarkSleeping, Recheck, WaitForWake, MarkRunning, LeaveThread, InterruptedWait
    <2> QED BY <2>1, OwnershipFacts, ThreadFacts DEF Wake
  <1>4. \A v \in Workers : v # w /\ Watching(v) => Watching(v)'
    BY <1>1, <1>3, OwnershipFacts, ThreadFacts DEF Watching
  <1>5. \/ pc'[w] \in WorkerPc \ {"leave", "gone", "wait"}
        \/ pc'[w] = "wait" /\ jobQueue' = <<>>
        \/ pc'[w] \in {"leave", "gone"}
        \/ pc'[w] = pc[w] /\ jobQueue' = jobQueue /\ pc[w] # "wait"
    BY <1>0, OwnershipFacts
    DEF RunSteps, TryWakeFirstSleepingWorker, AfterScan, CheckParents, FinishJob, PushBack,
        NextRound, WorkerSteps, Grab, AfterGrab, MarkSleeping, Recheck, WaitForWake, MarkRunning,
        LeaveThread, InterruptedWait, Goto, WorkerPc, Holding
  <1>6. \A v \in Workers : pc'[v] \in {"leave", "gone"} => pc'[Main] \in {"post", "join", "down"}
    BY <1>1, <1>2 DEF WatchInv
  <1>7. CASE pc'[w] \in {"leave", "gone"}
    BY <1>1, <1>6, <1>7 DEF WatchInv
  <1>8. CASE pc'[w] = "wait" /\ jobQueue' = <<>>
    BY <1>1, <1>6, <1>8 DEF WatchInv
  <1>9. CASE pc'[w] \notin {"leave", "gone", "wait"}
    BY <1>1, <1>6, <1>9 DEF WatchInv, Watching
  <1> QED BY <1>5, <1>7, <1>8, <1>9

\* With at least one worker and any dependencies: once AddJob or SyncAllJobs has
\* returned, a queued job never has all the workers asleep over it.
THEOREM QueuedJobsAreWatched == ASSUME N > 0 PROVE Spec => []QueueIsWatched
  <1>1. Init => WatchInv
    BY ThreadFacts DEF Init, WatchInv
  <1>2. OwnershipInv /\ WatchInv /\ [Next]_vars => WatchInv'
    <2> SUFFICES ASSUME OwnershipInv, WatchInv, [Next]_vars PROVE WatchInv'
      OBVIOUS
    <2>1. CASE UNCHANGED vars
      BY <2>1 DEF vars, WatchInv, Watching
    <2> QED BY <2>1, WatchMain, WatchWorker, ThreadFacts DEF Next
  <1>3. WatchInv => QueueIsWatched
    BY DEF WatchInv, QueueIsWatched
  <1> QED BY Ownership, <1>1, <1>2, <1>3, PTL DEF Spec

-----------------------------------------------------------------------------
(* Jobs without parents: SyncAllJobs is a barrier.                           *)

Independent == N > 0 /\ MayDepend = [j \in Jobs |-> {}]

BothInv == OwnershipInv /\ BarrierInv

\* The types, and the points at which a thread's hands are empty.
LEMMA BothFacts ==
  ASSUME BothInv
  PROVE  /\ pc \in [Threads -> WorkerPc \cup MainPc] /\ pc[Main] \in MainPc
         /\ \A w \in Workers : pc[w] \in WorkerPc
         /\ cur \in [Threads -> Jobs \cup {NoJob}] /\ NoJob \notin Jobs
         /\ scan \in [Threads -> 0 .. N] /\ state \in [Jobs -> Nat]
         /\ parents \in [Jobs -> SUBSET Jobs]
         /\ running \in [Workers -> Int] /\ anyRunning \in BOOLEAN /\ shutdown \in BOOLEAN
         /\ allocatedJobs \in SUBSET Jobs /\ freedJobs \in SUBSET Jobs
         /\ \A t \in Threads : pc[t] \notin Holding => cur[t] = NoJob
         /\ \A t \in Threads : pc[t] \in Holding => cur[t] \in Jobs
  <1>1. /\ pc \in [Threads -> WorkerPc \cup MainPc] /\ pc[Main] \in MainPc
        /\ \A w \in Workers : pc[w] \in WorkerPc
        /\ cur \in [Threads -> Jobs \cup {NoJob}] /\ NoJob \notin Jobs
        /\ scan \in [Threads -> 0 .. N] /\ state \in [Jobs -> Nat]
        /\ parents \in [Jobs -> SUBSET Jobs]
        /\ running \in [Workers -> Int] /\ anyRunning \in BOOLEAN /\ shutdown \in BOOLEAN
        /\ allocatedJobs \in SUBSET Jobs /\ freedJobs \in SUBSET Jobs
    BY ConstantsAssumption DEF BothInv, OwnershipInv, TypeOK, ControlOK, DataOK
  <1>2. \A t \in Threads : pc[t] \notin Holding => cur[t] = NoJob
    BY <1>1, ThreadFacts DEF BothInv, OwnershipInv, BarrierInv, CurMatchesPc, MainPc
  <1>3. \A t \in Threads : pc[t] \in Holding => cur[t] \in Jobs
    BY <1>1 DEF BothInv, OwnershipInv, CurMatchesPc
  <1> QED BY <1>1, <1>2, <1>3

\* With an empty queue and empty hands nothing is left to do.
LEMMA NothingLive ==
  ASSUME jobQueue = <<>>, \A t \in Threads : cur[t] = NoJob
  PROVE  \A j \in Jobs : ~Live(j)
  BY EmptyFacts DEF Live, Holds, InQueue

\* A step that moves no job, completes none, submits none and does not take the main
\* thread past the end of its two loops.
LEMMA BarrierFrame ==
  ASSUME BothInv, UNCHANGED <<jobQueue, cur, state, parents, allocatedJobs, freedJobs>>,
         \A t \in Threads : pc'[t] # "pushback",
         \A w \in Workers : pc'[w] \in {"leave", "gone"} => pc[w] \in {"leave", "gone"},
         \/ pc'[Main] = pc[Main] /\ UNCHANGED <<anyRunning, shutdown>> /\ scan'[Main] = scan[Main]
         \/ pc'[Main] \notin Drained /\ UNCHANGED shutdown /\ pc[Main] \notin Drained
         \/ /\ pc[Main] \in Drained \ {"await"} /\ pc'[Main] \in Drained \ {"await"}
            /\ shutdown' => pc'[Main] \in {"post", "join", "down"}
  PROVE  BarrierInv'
  <1>1. \A j \in Jobs : Live(j)' <=> Live(j)
    BY DEF Live, Holds, InQueue
  <1>2. NoJobLost'
    BY <1>1, BothFacts DEF BothInv, BarrierInv, NoJobLost
  <1>3. shutdown' => pc'[Main] \in {"post", "join", "down"}
    BY DEF BothInv, BarrierInv, Drained
  <1>4. /\ pc'[Main] \in Drained => jobQueue' = <<>>
        /\ pc'[Main] \in Drained \ {"await"} => \A t \in Threads : cur'[t] = NoJob
        /\ pc'[Main] = "await" /\ ~anyRunning' =>
             \A w \in Workers : w < scan'[Main] => cur'[w] = NoJob
    BY DEF BothInv, BarrierInv, Drained
  <1>5. /\ \A w \in Workers : pc'[w] \in {"leave", "gone"} => cur'[w] = NoJob
        /\ allocatedJobs' \cap freedJobs' = {}
        /\ \A j \in Jobs : parents'[j] = {}
    BY DEF BothInv, BarrierInv
  <1>6. \A j \in Jobs : Live(j)' => j \in allocatedJobs'
    BY <1>1 DEF BothInv, BarrierInv
  <1> QED BY <1>2, <1>3, <1>4, <1>5, <1>6 DEF BarrierInv

LEMMA StartUpBarrier ==
  ASSUME BothInv, StartUp PROVE BarrierInv'
  <1>1. \A j \in Jobs : ~Live(j)
    BY NothingLive DEF BothInv, BarrierInv, Drained, StartUp
  <1>2. jobQueue' = <<>> /\ \A t \in Threads : cur'[t] = NoJob
    BY DEF StartUp
  <1>3. \A j \in Jobs : ~Live(j)'
    BY <1>2, EmptyFacts DEF Live, Holds, InQueue
  <1>4. NoJobLost'
    BY <1>1, BothFacts DEF StartUp, BothInv, BarrierInv, NoJobLost
  <1>5. pc'[Main] = "idle" /\ \A t \in Threads : pc'[t] \in {"idle", "grab"}
    BY ThreadFacts DEF StartUp
  <1> QED BY <1>2, <1>3, <1>4, <1>5, ThreadFacts DEF StartUp, BothInv, BarrierInv, Drained

LEMMA AddJobBarrier ==
  ASSUME Independent, BothInv, NEW j \in Jobs, NEW ps \in SUBSET MayDepend[j], AddJob(j, ps)
  PROVE  BarrierInv'
  <1>1. ~Live(j)
    BY DEF AddJob, BothInv, OwnershipInv, JobStates
  <1>2. \A x \in Jobs : Live(x)' <=> Live(x) \/ x = j
    BY <1>1, SubmitAddsOwnership DEF AddJob, BothInv, OwnershipInv
  <1>3. NoJobLost'
    BY <1>2, BothFacts DEF AddJob, BothInv, BarrierInv, NoJobLost
  <1>4. /\ pc'[Main] = "addScan" /\ pc[Main] = "idle"
        /\ \A w \in Workers : pc'[w] = pc[w]
    BY BothFacts, ThreadFacts DEF AddJob, Goto
  <1>5. \A t \in Threads : pc'[t] # "pushback"
    BY <1>4, ThreadFacts DEF BothInv, BarrierInv
  <1>6. \A x \in Jobs : parents'[x] = {}
    BY BothFacts DEF AddJob, Independent, BothInv, BarrierInv
  <1>7. allocatedJobs' \cap freedJobs' = {} /\ \A x \in Jobs : Live(x)' => x \in allocatedJobs'
    BY <1>2 DEF AddJob, BothInv, BarrierInv
  <1> QED BY <1>3, <1>4, <1>5, <1>6, <1>7 DEF AddJob, BothInv, BarrierInv, Drained

LEMMA SyncGrabBarrier ==
  ASSUME BothInv, SyncGrab PROVE BarrierInv'
  <1>1. /\ \A w \in Workers : pc'[w] = pc[w] /\ cur'[w] = cur[w]
        /\ pc[Main] = "syncGrab" /\ pc'[Main] \in {"await", "ready"}
    BY BothFacts, ThreadFacts DEF SyncGrab, PopJob, Goto
  <1>2. \A j \in Jobs : Live(j)' <=> Live(j)
    <2>1. CASE jobQueue = <<>>
      BY <2>1 DEF SyncGrab, PopJob, Live, Holds, InQueue
    <2>2. CASE jobQueue # <<>>
      BY <2>2, ThreadFacts, BothFacts, PopKeepsOwnership DEF SyncGrab, PopJob, Holding, BothInv, OwnershipInv
    <2> QED BY <2>1, <2>2
  <1>3. pc'[Main] = "await" => jobQueue' = <<>> /\ scan'[Main] = 0
    BY BothFacts, ThreadFacts DEF SyncGrab, PopJob, Goto
  <1>4. NoJobLost' /\ \A j \in Jobs : Live(j)' => j \in allocatedJobs'
    BY <1>2, BothFacts DEF SyncGrab, PopJob, BothInv, BarrierInv, NoJobLost
  <1>5. \A t \in Threads : pc'[t] # "pushback"
    BY <1>1, ThreadFacts DEF BothInv, BarrierInv
  <1>6. \A w \in Workers : ~(w < 0)
    BY ThreadFacts
  <1> QED BY <1>1, <1>3, <1>4, <1>5, <1>6 DEF SyncGrab, PopJob, BothInv, BarrierInv, Drained

LEMMA AwaitBarrier ==
  ASSUME BothInv, AwaitWorkers PROVE BarrierInv'
  <1>1. /\ \A w \in Workers : pc'[w] = pc[w]
        /\ pc[Main] = "await" /\ pc'[Main] \in {"await", "delete"}
    BY BothFacts, ThreadFacts DEF AwaitWorkers, Goto
  <1>2. \A t \in Threads : pc'[t] # "pushback"
    BY <1>1, ThreadFacts DEF BothInv, BarrierInv
  <1>3. \A j \in Jobs : Live(j)' <=> Live(j)
    BY DEF AwaitWorkers, Live, Holds, InQueue
  <1>4. NoJobLost' /\ \A j \in Jobs : Live(j)' => j \in allocatedJobs'
    BY <1>3, BothFacts DEF AwaitWorkers, SeenRunning, BothInv, BarrierInv, NoJobLost
  <1>5. ASSUME pc'[Main] = "await", ~anyRunning', NEW w \in Workers, w < scan'[Main]
        PROVE  cur[w] = NoJob
    <2>1. CASE scan[Main] < N
      <3>5. /\ anyRunning' = (anyRunning \/ running[scan[Main]] = 1)
            /\ scan' = [scan EXCEPT ![Main] = @ + 1]
        BY <2>1, BothFacts, ThreadFacts DEF AwaitWorkers, SeenRunning
      <3>1. ~anyRunning /\ scan'[Main] = scan[Main] + 1 /\ running[scan[Main]] # 1
        BY <1>5, <3>5, BothFacts, ThreadFacts
      <3>2. CASE w < scan[Main]
        BY <1>1, <3>1, <3>2 DEF BothInv, BarrierInv
      <3>3. CASE w = scan[Main]
        <4>1. pc[w] \in Asleep
          BY <3>1, <3>3 DEF BothInv, OwnershipInv, RunningMatchesPc
        <4> QED BY <4>1, BothFacts, ThreadFacts DEF Asleep, Holding
      <3>4. w \in Int /\ scan[Main] \in Int
        BY BothFacts, ThreadFacts
      <3> QED BY <1>5, <3>1, <3>2, <3>3, <3>4
    <2>2. CASE ~(scan[Main] < N)
      <3>1. scan'[Main] = 0
        BY <1>1, <1>5, <2>2, BothFacts, ThreadFacts DEF AwaitWorkers, Goto
      <3> QED BY <1>5, <3>1, ThreadFacts
    <2> QED BY <2>1, <2>2
  <1>6. ASSUME pc'[Main] = "delete" PROVE \A t \in Threads : cur[t] = NoJob
    <2>1. scan[Main] = N /\ ~anyRunning
      BY <1>1, <1>6, BothFacts, ThreadFacts DEF AwaitWorkers, SeenRunning
    <2>2. \A w \in Workers : cur[w] = NoJob
      BY <1>1, <2>1, ThreadFacts DEF BothInv, BarrierInv
    <2>3. cur[Main] = NoJob
      BY <1>1, BothFacts, ThreadFacts DEF Holding
    <2> QED BY <2>2, <2>3, ThreadFacts
  <1> QED BY <1>1, <1>2, <1>4, <1>5, <1>6 DEF AwaitWorkers, SeenRunning, BothInv, BarrierInv, Drained

LEMMA DeleteBarrier ==
  ASSUME BothInv, DeleteJobs PROVE BarrierInv'
  <1>1. \A j \in Jobs : ~Live(j)
    BY NothingLive DEF BothInv, BarrierInv, Drained, DeleteJobs
  <1>2. \A j \in Jobs : ~Live(j)'
    BY <1>1 DEF DeleteJobs, Live, Holds, InQueue
  <1>3. /\ \A w \in Workers : pc'[w] = pc[w]
        /\ pc[Main] = "delete" /\ pc'[Main] \in {"idle", "raise"}
    BY BothFacts, ThreadFacts DEF DeleteJobs, Goto
  <1>4. \A t \in Threads : pc'[t] # "pushback"
    BY <1>3, ThreadFacts DEF BothInv, BarrierInv
  <1>5. NoJobLost'
    BY DEF DeleteJobs, NoJobLost
  <1> QED BY <1>2, <1>3, <1>4, <1>5 DEF DeleteJobs, BothInv, BarrierInv, Drained

LEMMA CheckParentsBarrier ==
  ASSUME BothInv, NEW t \in Threads, CheckParents(t) PROVE BarrierInv'
  <1>1. cur[t] \in Jobs /\ pc[t] = "ready"
    BY BothFacts DEF CheckParents, Holding
  <1>2. pc' = [pc EXCEPT ![t] = "callback"]
    BY <1>1 DEF CheckParents, DependenciesSatisfied, BothInv, BarrierInv, Goto
  <1>3. /\ \A u \in Threads : pc'[u] # "pushback"
        /\ \A w \in Workers : pc'[w] \in {"leave", "gone"} => pc[w] \in {"leave", "gone"}
    BY <1>2, BothFacts, ThreadFacts DEF BothInv, BarrierInv
  <1>4. \/ t = Main /\ pc[Main] \notin Drained /\ pc'[Main] \notin Drained
        \/ t # Main /\ pc'[Main] = pc[Main]
    BY <1>1, <1>2, BothFacts, ThreadFacts DEF Drained
  <1> QED BY <1>3, <1>4, BarrierFrame DEF CheckParents

LEMMA FinishJobBarrier ==
  ASSUME BothInv, NEW t \in Threads, FinishJob(t) PROVE BarrierInv'
  <1>1. cur[t] \in Jobs /\ pc[t] = "callback" /\ Live(cur[t])
    BY BothFacts DEF FinishJob, Holding, Live, Holds
  <1>2. \A j \in Jobs : Live(j)' <=> Live(j) /\ j # cur[t]
    BY <1>1, FinishEndsOwnership DEF FinishJob, BothInv, OwnershipInv
  <1>3. \A j \in Jobs : state'[j] = IF j = cur[t] THEN 1 ELSE state[j]
    BY <1>1, BothFacts DEF FinishJob, BothInv, OwnershipInv, JobStates
  <1>4. NoJobLost'
    BY <1>2, <1>3, BothFacts DEF FinishJob, BothInv, BarrierInv, NoJobLost
  <1>5. pc' = [pc EXCEPT ![t] = NextRound(t)] /\ NextRound(t) \in {"syncScan", "grab"}
    BY DEF FinishJob, Goto, NextRound
  <1>6. /\ \A u \in Threads : pc'[u] # "pushback"
        /\ \A w \in Workers : pc'[w] \in {"leave", "gone"} => pc[w] \in {"leave", "gone"}
    BY <1>5, BothFacts, ThreadFacts DEF BothInv, BarrierInv
  <1>7. \A u \in Threads : cur[u] = NoJob => cur'[u] = NoJob
    BY BothFacts DEF FinishJob
  <1>8. \/ pc'[Main] \notin Drained /\ pc[Main] \notin Drained
        \/ pc'[Main] = pc[Main] /\ scan'[Main] = scan[Main]
    BY <1>1, <1>5, BothFacts, ThreadFacts DEF FinishJob, NextRound, Drained
  <1> QED BY <1>2, <1>4, <1>6, <1>7, <1>8, ThreadFacts
          DEF FinishJob, BothInv, BarrierInv, Drained

LEMMA GrabBarrier ==
  ASSUME BothInv, NEW w \in Workers, Grab(w) PROVE BarrierInv'
  <1>1. /\ w \in Threads /\ w # Main /\ pc[w] = "grab" /\ cur[w] = NoJob
        /\ pc'[Main] = pc[Main] /\ scan'[Main] = scan[Main]
    BY BothFacts, ThreadFacts DEF Grab, PopJob, AfterGrab, Goto, Holding
  <1>2. \A j \in Jobs : Live(j)' <=> Live(j)
    <2>1. CASE jobQueue = <<>>
      <3>1. cur' = cur /\ jobQueue' = jobQueue
        BY <1>1, <2>1, BothFacts DEF Grab, PopJob, AfterGrab
      <3> QED BY <3>1 DEF Live, Holds, InQueue
    <2>2. CASE jobQueue # <<>>
      BY <1>1, <2>2, PopKeepsOwnership DEF Grab, PopJob, AfterGrab, BothInv, OwnershipInv
    <2> QED BY <2>1, <2>2
  <1>3. NoJobLost' /\ \A j \in Jobs : Live(j)' => j \in allocatedJobs'
    BY <1>2, BothFacts DEF Grab, PopJob, AfterGrab, BothInv, BarrierInv, NoJobLost
  <1>4. \A t \in Threads : pc'[t] # "pushback"
    BY <1>1, BothFacts DEF Grab, PopJob, AfterGrab, Goto, BothInv, BarrierInv
  <1>5. pc[Main] \in Drained => jobQueue' = <<>> /\ cur' = cur
    BY <1>1, BothFacts DEF Grab, PopJob, AfterGrab, BothInv, BarrierInv
  <1>6. \A v \in Workers : pc'[v] \in {"leave", "gone"} => cur'[v] = NoJob
    <2>1. ASSUME NEW v \in Workers, pc'[v] \in {"leave", "gone"}, v = w PROVE cur'[v] = NoJob
      <3>1. shutdown
        BY <1>1, <2>1, BothFacts DEF Grab, PopJob, AfterGrab, Goto
      <3>2. pc[Main] \in Drained
        BY <3>1 DEF BothInv, BarrierInv, Drained
      <3> QED BY <1>1, <1>5, <2>1, <3>2
    <2>2. \A v \in Workers : v # w => pc'[v] = pc[v] /\ cur'[v] = cur[v]
      BY <1>1, BothFacts, ThreadFacts DEF Grab, PopJob, AfterGrab, Goto
    <2> QED BY <2>1, <2>2 DEF BothInv, BarrierInv
  <1>7. /\ pc'[Main] \in Drained => jobQueue' = <<>>
        /\ pc'[Main] \in Drained \ {"await"} => \A t \in Threads : cur'[t] = NoJob
        /\ pc'[Main] = "await" /\ ~anyRunning' =>
             \A v \in Workers : v < scan'[Main] => cur'[v] = NoJob
    BY <1>1, <1>5 DEF Grab, PopJob, AfterGrab, BothInv, BarrierInv, Drained
  <1>8. /\ shutdown' => pc'[Main] \in {"post", "join", "down"}
        /\ allocatedJobs' \cap freedJobs' = {}
        /\ \A j \in Jobs : parents'[j] = {}
    BY <1>1 DEF Grab, PopJob, AfterGrab, BothInv, BarrierInv
  <1> QED BY <1>3, <1>4, <1>6, <1>7, <1>8 DEF BarrierInv

LEMMA BarrierStep ==
  ASSUME Independent, BothInv, [Next]_vars PROVE BarrierInv'
  <1>1. CASE Caller
    <2>1. ASSUME NEW b \in BOOLEAN, SyncCall(b) PROVE BarrierInv'
      <3>1. pc[Main] = "idle" /\ pc' = [pc EXCEPT ![Main] = "syncGrab"]
        BY <2>1 DEF SyncCall, Goto, Independent
      <3>2. /\ \A u \in Threads : pc'[u] # "pushback"
            /\ \A w \in Workers : pc'[w] = pc[w]
            /\ pc'[Main] = "syncGrab"
        BY <3>1, BothFacts, ThreadFacts DEF BothInv, BarrierInv
      <3> QED BY <2>1, <3>1, <3>2, BarrierFrame DEF SyncCall, Drained
    <2> QED BY <1>1, <2>1, StartUpBarrier, AddJobBarrier DEF Caller
  <1>2. CASE SyncSteps
    <2>1. CASE RaiseShutdown \/ PostWorkers \/ JoinWorkers
      <3>1. /\ \A w \in Workers : pc'[w] = pc[w]
            /\ pc[Main] \in {"raise", "post", "join"} /\ pc'[Main] \in {"post", "join", "down"}
        BY <2>1, BothFacts, ThreadFacts DEF RaiseShutdown, PostWorkers, JoinWorkers, Goto
      <3>2. \A u \in Threads : pc'[u] # "pushback"
        BY <3>1, ThreadFacts DEF BothInv, BarrierInv
      <3> QED BY <2>1, <3>1, <3>2, BarrierFrame DEF RaiseShutdown, PostWorkers, JoinWorkers, Drained
    <2> QED BY <1>2, <2>1, SyncGrabBarrier, AwaitBarrier, DeleteBarrier DEF SyncSteps
  <1>3. ASSUME NEW t \in Threads, RunSteps(t) PROVE BarrierInv'
    <2>1. CASE TryWakeFirstSleepingWorker(t)
      <3>1. \/ pc' = pc /\ (t # Main => scan'[Main] = scan[Main])
            \/ scan' = scan /\ pc' = [pc EXCEPT ![t] = AfterScan(t)]
        BY <2>1, BothFacts, ThreadFacts DEF TryWakeFirstSleepingWorker, Goto
      <3>2. pc[t] \in {"scan", "addScan", "syncScan"} /\ AfterScan(t) \in {"ready", "idle", "syncGrab"}
        BY <2>1 DEF TryWakeFirstSleepingWorker, AfterScan
      <3>3. /\ \A u \in Threads : pc'[u] # "pushback"
            /\ \A w \in Workers : pc'[w] \in {"leave", "gone"} => pc[w] \in {"leave", "gone"}
        BY <3>1, <3>2, BothFacts, ThreadFacts DEF BothInv, BarrierInv
      <3>4. \/ t = Main /\ pc[Main] \notin Drained /\ pc'[Main] \notin Drained
            \/ t # Main /\ pc'[Main] = pc[Main] /\ scan'[Main] = scan[Main]
        BY <3>1, <3>2, BothFacts, ThreadFacts DEF Drained
      <3> QED BY <2>1, <3>3, <3>4, BarrierFrame DEF TryWakeFirstSleepingWorker
    <2>2. ~PushBack(t)
      BY DEF PushBack, BothInv, BarrierInv
    <2> QED BY <1>3, <2>1, <2>2, CheckParentsBarrier, FinishJobBarrier DEF RunSteps
  <1>4. ASSUME NEW w \in Workers, WorkerSteps(w) \/ InterruptedWait(w) PROVE BarrierInv'
    <2>1. CASE ~Grab(w)
      <3>1. /\ pc'[Main] = pc[Main]
            /\ \A u \in Threads : pc'[u] # "pushback"
            /\ \A v \in Workers : pc'[v] \in {"leave", "gone"} => pc[v] \in {"leave", "gone"}
        BY <1>4, <2>1, BothFacts, ThreadFacts
        DEF WorkerSteps, MarkSleeping, Recheck, WaitForWake, MarkRunning, LeaveThread,
            InterruptedWait, Goto, BothInv, BarrierInv
      <3> QED BY <1>4, <2>1, <3>1, BarrierFrame
              DEF WorkerSteps, MarkSleeping, Recheck, WaitForWake, MarkRunning, LeaveThread,
                  InterruptedWait
    <2> QED BY <2>1, GrabBarrier
  <1>5. CASE UNCHANGED vars
    <2>1. \A u \in Threads : pc'[u] # "pushback"
      BY <1>5 DEF vars, BothInv, BarrierInv
    <2> QED BY <1>5, <2>1, BarrierFrame DEF vars
  <1> QED BY <1>1, <1>2, <1>3, <1>4, <1>5 DEF Next

LEMMA BarrierInit == Init => BarrierInv
  <1> SUFFICES ASSUME Init PROVE BarrierInv
    OBVIOUS
  <1>1. \A j \in Jobs : ~Live(j)
    BY NothingLive DEF Init
  <1>2. pc[Main] = "down" /\ \A t \in Threads : pc[t] # "pushback"
    BY ThreadFacts DEF Init
  <1>3. \A w \in Workers : cur[w] = NoJob
    BY ThreadFacts DEF Init
  <1> QED BY <1>1, <1>2, <1>3 DEF Init, BarrierInv, NoJobLost, Drained

\* Without dependencies, for any number of workers: once the main thread has drained the
\* queue no thread can get hold of a job again.
THEOREM SyncDrains == ASSUME Independent PROVE Spec => []BarrierInv
  <1>1. OwnershipInv /\ BarrierInv /\ [Next]_vars => BarrierInv'
    BY BarrierStep DEF BothInv
  <1> QED BY Ownership, BarrierInit, <1>1, PTL DEF Spec

\* Without dependencies SyncAllJobs never deletes a job that a thread holds or that
\* is still in the queue.
THEOREM NoEarlyFree == ASSUME Independent PROVE Spec => []NoUseAfterFree
  <1>1. BarrierInv => NoUseAfterFree
    BY DEF BarrierInv, NoUseAfterFree
  <1> QED BY SyncDrains, <1>1, PTL

\* Without dependencies no worker holds a job when Shutdown joins it.
THEOREM ShutdownIsQuiet == ASSUME Independent PROVE Spec => []QuietShutdown
  <1>1. OwnershipInv /\ BarrierInv => QuietShutdown
    BY ThreadFacts DEF OwnershipInv, CurMatchesPc, BarrierInv, Drained, QuietShutdown
  <1> QED BY Ownership, SyncDrains, <1>1, PTL

-----------------------------------------------------------------------------
(* Without dependencies the job system implements JobBarrier.                *)

LEMMA RefineInit == Init => Barrier!Init
  <1> SUFFICES ASSUME Init PROVE Barrier!Init
    OBVIOUS
  <1>1. Syncing = FALSE
    BY ThreadFacts DEF Init, Syncing
  <1>2. [j \in Jobs |-> Status(j)] = [j \in Jobs |-> "none"]
    BY DEF Init, Status
  <1>3. parents = [j \in Jobs |-> {}]
    BY DEF Init
  <1> QED BY <1>1, <1>2, <1>3 DEF Barrier!Init

LEMMA StatusUnchanged ==
  ASSUME BothInv, UNCHANGED <<state, parents, allocatedJobs, freedJobs>>, Syncing' <=> Syncing
  PROVE  UNCHANGED Barrier!vars
  <1>1. Syncing' = Syncing
    BY DEF Syncing
  <1>2. [j \in Jobs |-> Status(j)]' = [j \in Jobs |-> Status(j)]
    BY DEF Status
  <1> QED BY <1>1, <1>2 DEF Barrier!vars

LEMMA RefineStep ==
  ASSUME Independent, BothInv, [Next]_vars PROVE [Barrier!Next]_(Barrier!vars)
  <1>1. CASE Caller
    <2>1. CASE StartUp
      <3>1. Syncing' <=> Syncing
        BY <2>1, ThreadFacts DEF StartUp, Syncing
      <3> QED BY <2>1, <3>1, StatusUnchanged DEF StartUp
    <2>2. ASSUME NEW j \in Jobs, NEW ps \in SUBSET MayDepend[j], AddJob(j, ps)
          PROVE  Barrier!Submit(j, ps) /\ ps \in SUBSET Jobs
      <3>1. ps = {} /\ state[j] = 0 /\ state' = state
        BY <2>2, BothFacts DEF Independent, AddJob, BothInv, OwnershipInv, JobStates
      <3>2. ~Syncing /\ ~Syncing'
        BY <2>2, BothFacts, ThreadFacts DEF AddJob, Goto, Syncing
      <3>3. Status(j) = "none" /\ Status(j)' = "pending"
        BY <2>2, <3>1 DEF AddJob, Status
      <3>4. \A x \in Jobs : x # j => Status(x)' = Status(x)
        BY <2>2, <3>1 DEF AddJob, Status
      <3>5. [x \in Jobs |-> Status(x)]' = [[x \in Jobs |-> Status(x)] EXCEPT ![j] = "pending"]
        BY <3>3, <3>4
      <3>6. parents' = [parents EXCEPT ![j] = ps]
        BY <2>2 DEF AddJob
      <3>7. [x \in Jobs |-> Status(x)][j] = "none" /\ Syncing' = Syncing
        BY <3>2, <3>3 DEF Syncing
      <3> QED BY <3>1, <3>2, <3>5, <3>6, <3>7 DEF Barrier!Submit
    <2>3. ASSUME NEW b \in BOOLEAN, SyncCall(b) PROVE Barrier!BeginSync
      <3>1. ~Syncing /\ Syncing' = TRUE
        BY <2>3, BothFacts, ThreadFacts DEF SyncCall, Goto, Syncing, Independent
      <3>2. UNCHANGED <<[x \in Jobs |-> Status(x)], parents>>
        BY <2>3 DEF SyncCall, Status
      <3> QED BY <3>1, <3>2 DEF Barrier!BeginSync
    <2> QED BY <1>1, <2>1, <2>2, <2>3 DEF Caller, Barrier!Next
  <1>2. CASE SyncSteps
    <2>1. CASE SyncGrab \/ AwaitWorkers \/ RaiseShutdown \/ PostWorkers \/ JoinWorkers
      <3>1. Syncing' <=> Syncing
        BY <2>1, BothFacts, ThreadFacts
        DEF SyncGrab, PopJob, AwaitWorkers, RaiseShutdown, PostWorkers, JoinWorkers, Goto, Syncing
      <3> QED BY <2>1, <3>1, StatusUnchanged
              DEF SyncGrab, PopJob, AwaitWorkers, RaiseShutdown, PostWorkers, JoinWorkers
    <2>2. ASSUME DeleteJobs PROVE Barrier!EndSync
      <3>1. Syncing = TRUE /\ Syncing' = FALSE
        BY <2>2, BothFacts, ThreadFacts DEF DeleteJobs, Goto, Syncing
      <3>2. \A j \in Jobs : ~Live(j)
        BY <2>2, NothingLive DEF BothInv, BarrierInv, Drained, DeleteJobs
      <3>3. \A j \in allocatedJobs : state[j] = 1
        BY <3>2, BothFacts DEF BothInv, BarrierInv, NoJobLost
      <3>4. \A j \in Jobs : Status(j) # "pending"
        BY <3>3 DEF Status
      <3>5. \A j \in Jobs : Status(j)' = IF Status(j) = "done" THEN "released" ELSE Status(j)
        BY <2>2, <3>3, BothFacts DEF DeleteJobs, Status
      <3>6. [j \in Jobs |-> Status(j)]' =
              [j \in Jobs |-> IF [x \in Jobs |-> Status(x)][j] = "done" THEN "released"
                             ELSE [x \in Jobs |-> Status(x)][j]]
        BY <3>5
      <3>7. parents' = parents
        BY <2>2 DEF DeleteJobs
      <3>8. \A j \in Jobs : [x \in Jobs |-> Status(x)][j] # "pending"
        BY <3>4
      <3> QED BY <3>1, <3>6, <3>7, <3>8 DEF Barrier!EndSync
    <2> QED BY <1>2, <2>1, <2>2 DEF SyncSteps, Barrier!Next
  <1>3. ASSUME NEW t \in Threads, RunSteps(t) PROVE [Barrier!Next]_(Barrier!vars)
    <2>1. CASE TryWakeFirstSleepingWorker(t)
      <3>1. pc' = pc \/ pc' = [pc EXCEPT ![t] = AfterScan(t)]
        BY <2>1 DEF TryWakeFirstSleepingWorker, Goto
      <3>2. t = Main => \/ pc[t] = "addScan" /\ AfterScan(t) = "idle"
                        \/ pc[t] = "syncScan" /\ AfterScan(t) = "syncGrab"
        BY <2>1, BothFacts DEF TryWakeFirstSleepingWorker, AfterScan, MainPc
      <3>3. Syncing' <=> Syncing
        BY <3>1, <3>2, BothFacts, ThreadFacts DEF Syncing
      <3> QED BY <2>1, <3>3, StatusUnchanged DEF TryWakeFirstSleepingWorker
    <2>4. CASE CheckParents(t)
      <3>1. /\ pc[t] = "ready"
            /\ pc' = [pc EXCEPT ![t] = "callback"] \/ pc' = [pc EXCEPT ![t] = "pushback"]
        BY <2>4 DEF CheckParents, Goto
      <3>2. Syncing' <=> Syncing
        BY <3>1, BothFacts, ThreadFacts DEF Syncing
      <3> QED BY <2>4, <3>2, StatusUnchanged DEF CheckParents
    <2>2. ASSUME FinishJob(t) PROVE Barrier!Complete(cur[t]) /\ cur[t] \in Jobs
      <3>1. cur[t] \in Jobs /\ pc[t] = "callback" /\ Live(cur[t])
        BY <2>2, BothFacts DEF FinishJob, Holding, Live, Holds
      <3>2. Syncing' = Syncing
        BY <2>2, BothFacts, ThreadFacts DEF FinishJob, NextRound, Goto, Syncing
      <3>3. state[cur[t]] = 0 /\ \A j \in Jobs : state'[j] = IF j = cur[t] THEN 1 ELSE state[j]
        BY <2>2, <3>1, BothFacts DEF FinishJob, BothInv, OwnershipInv, JobStates
      <3>4. cur[t] \in allocatedJobs /\ cur[t] \notin freedJobs
        BY <3>1 DEF BothInv, BarrierInv
      <3>5. Status(cur[t]) = "pending" /\ parents[cur[t]] = {}
        BY <3>1, <3>3, <3>4 DEF Status, BothInv, BarrierInv
      <3>6. \A j \in Jobs : Status(j)' = IF j = cur[t] THEN "done" ELSE Status(j)
        BY <2>2, <3>1, <3>3, <3>4 DEF FinishJob, Status
      <3>7. [j \in Jobs |-> Status(j)]' = [[j \in Jobs |-> Status(j)] EXCEPT ![cur[t]] = "done"]
        BY <3>1, <3>6
      <3>8. parents' = parents
        BY <2>2 DEF FinishJob
      <3> QED BY <3>1, <3>2, <3>5, <3>7, <3>8 DEF Barrier!Complete
    <2>3. ~PushBack(t)
      BY DEF PushBack, BothInv, BarrierInv
    <2> QED BY <1>3, <2>1, <2>2, <2>3, <2>4 DEF RunSteps, Barrier!Next
  <1>4. ASSUME NEW w \in Workers, WorkerSteps(w) \/ InterruptedWait(w)
        PROVE  [Barrier!Next]_(Barrier!vars)
    <2>1. pc'[Main] = pc[Main]
      BY <1>4, BothFacts, ThreadFacts
      DEF WorkerSteps, Grab, PopJob, AfterGrab, MarkSleeping, Recheck, WaitForWake, MarkRunning, LeaveThread,
          InterruptedWait, Goto
    <2>2. Syncing' <=> Syncing
      BY <2>1 DEF Syncing
    <2> QED BY <1>4, <2>2, StatusUnchanged
            DEF WorkerSteps, Grab, PopJob, AfterGrab, MarkSleeping, Recheck, WaitForWake, MarkRunning, LeaveThread,
                InterruptedWait
  <1>5. CASE UNCHANGED vars
    BY <1>5, StatusUnchanged DEF vars, Syncing
  <1> QED BY <1>1, <1>2, <1>3, <1>4, <1>5 DEF Next

\* Without dependencies the job system keeps the promise of JobBarrier: jobs complete
\* once, and a sync ends only when all of them have.
THEOREM ImplementsBarrier == ASSUME Independent PROVE Spec => RefinesBarrier
  <1>1. OwnershipInv /\ BarrierInv /\ [Next]_vars => [Barrier!Next]_(Barrier!vars)
    BY RefineStep DEF BothInv
  <1> QED BY RefineInit, Ownership, SyncDrains, <1>1, PTL DEF Spec, RefinesBarrier, Barrier!Spec


=============================================================================
