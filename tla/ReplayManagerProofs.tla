------------------------- MODULE ReplayManagerProofs -------------------------
(***************************************************************************)
(* The controller of an open capture outlives its connection in no         *)
(* execution, a command has one owner and runs on the capture it was meant *)
(* for, and the replay manager implements the queue of CommandQueue, for   *)
(* any number of callers, commands and connections.                        *)
(*                                                                         *)
(* For the connection, what has to be known besides is that                *)
(* DisconnectFromRemoteServer deletes it when the manager is not running,  *)
(* and that between the moment m_Running falls and the end of the thread   *)
(* the UI is inside CloseThread, where it can disconnect nothing.          *)
(*                                                                         *)
(* For the commands it is who holds each one: its caller until it has been *)
(* pushed, then the queue, then the replay thread, and a caller that       *)
(* blocks on it until it is done.  The refinement rests on that and on     *)
(* what Sublist leaves of a queue.                                         *)
(***************************************************************************)
EXTENDS ReplayManager, SequenceTheorems, FiniteSetTheorems, WellFoundedInduction, TLAPS

-----------------------------------------------------------------------------
(* What Sublist leaves: the preempted commands' removal from the queue.      *)

\* How many of the numbers up to i are in a set grows by one at its members.
LEMMA CountGrows ==
  ASSUME NEW n \in Nat, NEW K \in SUBSET (1 .. n), NEW i \in Nat \ {0}
  PROVE  /\ Cardinality(K \cap (1 .. i)) \in Nat
         /\ Cardinality(K \cap (1 .. i)) =
              Cardinality(K \cap (1 .. i - 1)) + (IF i \in K THEN 1 ELSE 0)
<1>1. \A j \in Nat : IsFiniteSet(K \cap (1 .. j)) /\ Cardinality(K \cap (1 .. j)) \in Nat
  <2> TAKE j \in Nat
  <2>1. IsFiniteSet(1 .. j)
    BY FS_Interval
  <2>2. K \cap (1 .. j) \in SUBSET (1 .. j)
    OBVIOUS
  <2>3. IsFiniteSet(K \cap (1 .. j))
    BY <2>1, <2>2, FS_Subset
  <2> QED BY <2>3, FS_CardinalityType
<1>2. i - 1 \in Nat
  OBVIOUS
<1>3. CASE i \in K
  <2>1. K \cap (1 .. i) = (K \cap (1 .. i - 1)) \cup {i}
    BY <1>3
  <2>2. i \notin K \cap (1 .. i - 1)
    OBVIOUS
  <2> QED BY <1>1, <1>2, <1>3, <2>1, <2>2, FS_AddElement
<1>4. CASE i \notin K
  <2>1. K \cap (1 .. i) = K \cap (1 .. i - 1)
    BY <1>4
  <2> QED BY <1>1, <1>2, <1>4, <2>1
<1> QED BY <1>3, <1>4

\* A set of numbers has a member that is its k-th.
LEMMA KthMember ==
  ASSUME NEW n \in Nat, NEW K \in SUBSET (1 .. n), NEW k \in 1 .. Cardinality(K)
  PROVE  \E i \in K : Cardinality(K \cap (1 .. i)) = k
<1> DEFINE Count(i) == Cardinality(K \cap (1 .. i))
           Enough   == {i \in Nat : Count(i) >= k}
<1>1. Cardinality(K) \in Nat
  <2>1. IsFiniteSet(1 .. n)
    BY FS_Interval
  <2>2. IsFiniteSet(K)
    BY <2>1, FS_Subset
  <2> QED BY <2>2, FS_CardinalityType
<1>2. n \in Enough
  <2>1. K \cap (1 .. n) = K
    OBVIOUS
  <2> QED BY <1>1, <2>1
<1>3. PICK m \in Enough : \A j \in Enough : ~ (<<j, m>> \in OpToRel(<, Nat))
  <2>1. Enough \subseteq Nat /\ Enough # {}
    BY <1>2
  <2> HIDE DEF Enough
  <2> QED BY <2>1, NatLessThanWellFounded, WFMin
<1>4. \A j \in Enough : ~ (j < m)
  BY <1>3 DEF OpToRel
<1>5. m # 0
  <2>1. K \cap (1 .. 0) = {}
    OBVIOUS
  <2>2. Count(0) = 0
    BY <2>1, FS_EmptySet
  <2> QED BY <2>2
<1>6. m - 1 \in Nat /\ m - 1 \notin Enough
  BY <1>4, <1>5
<1>7. Count(m - 1) \in Nat
  <2>1. CASE m - 1 = 0
    <3>1. K \cap (1 .. 0) = {}
      OBVIOUS
    <3> QED BY <2>1, <3>1, FS_EmptySet
  <2>2. CASE m - 1 # 0
    BY <2>2, <1>6, CountGrows
  <2> QED BY <2>1, <2>2
<1>8. Count(m) = Count(m - 1) + (IF m \in K THEN 1 ELSE 0) /\ Count(m) \in Nat
  BY <1>5, <1>6, CountGrows
<1>9. m \in K /\ Count(m) = k
  BY <1>1, <1>6, <1>7, <1>8
<1> QED BY <1>9

\* The positions of a sublist are the given ones, each once, in their order.
LEMMA NthMembers ==
  ASSUME NEW n \in Nat, NEW P \in SUBSET (1 .. n)
  PROVE  /\ Cardinality(P) \in Nat
         /\ \A k \in 1 .. Cardinality(P) : Nth(P, k) \in P /\ Cardinality(P \cap (1 .. Nth(P, k))) = k
         /\ \A i \in P : \E k \in 1 .. Cardinality(P) : Nth(P, k) = i
<1>1. IsFiniteSet(P) /\ Cardinality(P) \in Nat
  <2>1. IsFiniteSet(1 .. n)
    BY FS_Interval
  <2>2. IsFiniteSet(P)
    BY <2>1, FS_Subset
  <2> QED BY <2>2, FS_CardinalityType
<1>2. \A k \in 1 .. Cardinality(P) : Nth(P, k) \in P /\ Cardinality(P \cap (1 .. Nth(P, k))) = k
  BY KthMember DEF Nth
<1>3. ASSUME NEW i \in P, NEW j \in P, i < j PROVE Cardinality(P \cap (1 .. i)) # Cardinality(P \cap (1 .. j))
  <2>1. P \cap (1 .. i) \subseteq P \cap (1 .. j) /\ j \in P \cap (1 .. j) /\ j \notin P \cap (1 .. i)
    BY <1>3
  <2>2. IsFiniteSet(P \cap (1 .. j))
    BY <1>1, FS_Subset
  <2>3. P \cap (1 .. i) # P \cap (1 .. j)
    BY <2>1
  <2> QED BY <2>1, <2>2, <2>3, FS_Subset
<1>4. ASSUME NEW i \in P PROVE \E k \in 1 .. Cardinality(P) : Nth(P, k) = i
  <2> DEFINE k == Cardinality(P \cap (1 .. i))
  <2>1. k \in 1 .. Cardinality(P)
    <3>1. IsFiniteSet(P \cap (1 .. i)) /\ k \in Nat /\ k <= Cardinality(P)
      <4>1. P \cap (1 .. i) \in SUBSET P
        OBVIOUS
      <4>2. IsFiniteSet(P \cap (1 .. i)) /\ k <= Cardinality(P)
        BY <1>1, <4>1, FS_Subset
      <4> QED BY <4>2, FS_CardinalityType
    <3>2. i \in P \cap (1 .. i)
      BY <1>4
    <3>3. k # 0
      BY <3>1, <3>2, FS_EmptySet
    <3> QED BY <1>1, <3>1, <3>3
  <2>2. Nth(P, k) \in P /\ Cardinality(P \cap (1 .. Nth(P, k))) = k
    BY <1>2, <2>1
  <2>3. ~(Nth(P, k) < i) /\ ~(i < Nth(P, k))
    BY <1>3, <1>4, <2>2
  <2>4. i \in Int /\ Nth(P, k) \in Int
    <3>1. Nth(P, k) \in P
      BY <2>2
    <3>2. P \subseteq Int
      OBVIOUS
    <3> HIDE DEF k
    <3> QED BY <3>1, <3>2
  <2>5. \A m, j \in Int : ~(m < j) /\ ~(j < m) => m = j
    OBVIOUS
  <2>6. Nth(P, k) = i
    <3> HIDE DEF k
    <3> QED BY <2>3, <2>4, <2>5
  <2> QED BY <2>1, <2>6
<1> QED BY <1>1, <1>2, <1>4

LEMMA SublistMembers ==
  ASSUME NEW S, NEW s \in Seq(S), NEW P \in SUBSET (1 .. Len(s))
  PROVE  /\ Sublist(s, P) \in Seq(S) /\ Len(Sublist(s, P)) = Cardinality(P) /\ Cardinality(P) \in Nat
         /\ \A k \in 1 .. Cardinality(P) : Nth(P, k) \in P /\ Sublist(s, P)[k] = s[Nth(P, k)]
         /\ \A i \in P : \E k \in 1 .. Cardinality(P) : Sublist(s, P)[k] = s[i]
         /\ \A k, l \in 1 .. Cardinality(P) : Nth(P, k) = Nth(P, l) => k = l
<1>1. Len(s) \in Nat /\ \A i \in 1 .. Len(s) : s[i] \in S
  OBVIOUS
<1>2. /\ Cardinality(P) \in Nat
      /\ \A k \in 1 .. Cardinality(P) : Nth(P, k) \in P /\ Cardinality(P \cap (1 .. Nth(P, k))) = k
      /\ \A i \in P : \E k \in 1 .. Cardinality(P) : Nth(P, k) = i
  BY <1>1, NthMembers
<1>3. \A k \in 1 .. Cardinality(P) : s[Nth(P, k)] \in S
  BY <1>1, <1>2
<1>4. /\ Sublist(s, P) \in Seq(S) /\ Len(Sublist(s, P)) = Cardinality(P)
      /\ \A k \in 1 .. Cardinality(P) : Sublist(s, P)[k] = s[Nth(P, k)]
  BY <1>2, <1>3 DEF Sublist
<1> QED BY <1>2, <1>4

-----------------------------------------------------------------------------
(* Threads and connections.                                                  *)

PCs == {"idle", "check", "push", "wait", "open", "close", "list", "dialog",
        "dialog closed", "cancel", "cancel again"}

Shapes ==
  /\ m_Running \in BOOLEAN
  /\ m_Thread \in {"none", "live", "ended"}
  /\ m_Remote \in Conns \cup {0} /\ m_OrphanedRemote \in Conns \cup {0} /\ host \in Conns \cup {0}
  /\ conn \in [Conns -> {"unused", "alive", "deleted", "shut down"}]
  /\ run \in {"none", "opening", "shut"} \cup Serving
  /\ pc \in [Callers -> PCs]

\* The thread, what it does and whether it should go on.
ThreadInv ==
  /\ m_Thread = "live" <=> run # "none"
  /\ m_Running => run \in Serving \ {"drain"}
  /\ run \in Serving \cup {"shut"} => m_Running \/ pc[UI] = "close"

\* Whose the connections are: none is made while a capture is open on another.
ConnectionInv ==
  /\ m_Remote # 0 => conn[m_Remote] = "alive" /\ ~connecting
  /\ m_OrphanedRemote # 0 => m_Remote = 0 /\ ~connecting /\ run \in Serving \cup {"shut"}
  /\ host # 0 => ~connecting /\ run \in Serving \cup {"shut"}
  /\ host # 0 => \/ conn[host] = "alive" /\ (m_Remote = host \/ m_OrphanedRemote = host)
                 \/ conn[host] = "shut down"

HostInv == Shapes /\ ThreadInv /\ ConnectionInv

LEMMA ConstantFacts == UI \in Callers /\ 0 \notin Conns
BY ReplayAssumption DEF Conns

LEMMA InitInv == Init => HostInv
BY ConstantFacts DEF Init, HostInv, Shapes, ThreadInv, ConnectionInv, PCs, Serving

\* Most steps leave the thread and the connections alone, and move a caller,
\* the UI within or out of what is not CloseThread.
LEMMA CallerKeeps ==
  ASSUME HostInv, UNCHANGED <<threadVars, remoteVars, run, host>>,
         pc' \in [Callers -> PCs], pc[UI] = "close" => pc'[UI] = "close"
  PROVE  HostInv'
BY DEF HostInv, Shapes, ThreadInv, ConnectionInv, threadVars, remoteVars

LEMMA AfterPushPC == \A c : AfterPush(c) \in PCs
BY DEF AfterPush, PCs

LEMMA NewCommandInv ==
  ASSUME HostInv, NEW t \in Callers, NEW kind, NEW tag, pc[t] = "idle", NewCommand(t, kind, tag),
         UNCHANGED <<threadVars, remoteVars, loopVars, replayVars, opens>>
  PROVE  HostInv'
<1>1. pc' = [pc EXCEPT ![t] = "check"] /\ UNCHANGED <<run, host>>
  BY DEF NewCommand, replayVars
<1> QED  BY <1>1, CallerKeeps, ConstantFacts DEF HostInv, Shapes, PCs

LEMMA CallerInv == ASSUME HostInv, NEW t \in Callers, Caller(t) PROVE HostInv'
<1>1. UNCHANGED <<threadVars, remoteVars, run, host>>
  BY DEF Caller, PushCheck, PushInvoke, BlockReturn, replayVars
<1>2. \E p \in PCs : pc' = [pc EXCEPT ![t] = p]
  BY AfterPushPC DEF Caller, PushCheck, PushInvoke, BlockReturn, PCs
<1>3. pc[t] \in {"check", "push", "wait"}
  BY DEF Caller, PushCheck, PushInvoke, BlockReturn
<1>4. PICK p \in PCs : pc' = [pc EXCEPT ![t] = p]
  BY <1>2
<1>5. pc' \in [Callers -> PCs] /\ (pc[UI] = "close" => pc'[UI] = "close")
  BY <1>3, <1>4, ConstantFacts DEF HostInv, Shapes
<1> QED  BY <1>1, <1>5, CallerKeeps

\* The steps of the UI that leave the thread and the connections alone.
LEMMA InterfaceInv ==
  ASSUME HostInv, CancelReplayLoop \/ CancelReturn \/ OpenReturn \/ ListFolder \/ ListReturn PROVE HostInv'
<1>1. UNCHANGED <<threadVars, remoteVars, run, host>>
  BY DEF CancelReplayLoop, CancelReturn, OpenReturn, ListFolder, ListReturn, replayVars
<1>2. pc[UI] # "close"
  BY DEF CancelReplayLoop, CancelReturn, OpenReturn, ListFolder, ListReturn
<1>3. pc' \in [Callers -> PCs]
  BY ConstantFacts DEF CancelReplayLoop, CancelReturn, OpenReturn, ListFolder, ListReturn, HostInv, Shapes, PCs
<1> QED  BY <1>1, <1>2, <1>3, CallerKeeps

LEMMA OpenCloseInv == ASSUME HostInv, OpenCapture \/ CloseThread \/ CloseReturn PROVE HostInv'
<1>1. UNCHANGED <<m_Remote, m_OrphanedRemote, conn, connecting, host>>
  BY DEF OpenCapture, CloseThread, CloseReturn, remoteVars, replayVars
<1>2. CASE OpenCapture
  <2>1. run = "none" \/ run = "opening"
    BY <1>2 DEF OpenCapture, HostInv, Shapes, ThreadInv
  <2>2. host = 0 /\ m_OrphanedRemote = 0
    BY <2>1 DEF HostInv, ConnectionInv, Serving
  <2>3. m_Thread' = "live" /\ run' = "opening" /\ m_Running' = FALSE /\ pc' = [pc EXCEPT ![UI] = "open"]
    BY <1>2 DEF OpenCapture, HostInv, Shapes
  <2> QED  BY <1>1, <2>2, <2>3, ConstantFacts DEF HostInv, Shapes, ThreadInv, ConnectionInv, PCs, Serving
<1>3. CASE CloseThread
  <2>1. m_Running' = FALSE /\ m_Thread' = m_Thread /\ run' = run /\ pc' = [pc EXCEPT ![UI] = "close"]
    BY <1>3 DEF CloseThread, replayVars
  <2> QED  BY <1>1, <2>1, ConstantFacts DEF HostInv, Shapes, ThreadInv, ConnectionInv, PCs
<1>4. CASE CloseReturn
  <2>1. m_Thread = "ended" /\ m_Thread' = "none" /\ m_Running' = m_Running /\ run' = run /\ pc' = [pc EXCEPT ![UI] = "idle"]
    BY <1>4 DEF CloseReturn, replayVars
  <2> QED  BY <1>1, <2>1, ConstantFacts DEF HostInv, Shapes, ThreadInv, ConnectionInv, PCs, Serving
<1> QED  BY <1>2, <1>3, <1>4

LEMMA ConnectionStepsInv ==
  ASSUME HostInv,
         StartConnecting \/ ConnectToRemoteServer \/ DisconnectFromRemoteServer \/ ShutdownServer
  PROVE  HostInv'
<1>1. UNCHANGED <<m_Running, m_Thread, run, host, pc>>
  BY DEF StartConnecting, ConnectToRemoteServer, DisconnectFromRemoteServer, ShutdownServer,
         threadVars, replayVars, callerVars
<1>2. CASE StartConnecting
  <2>1. m_Remote = 0 /\ run = "none" /\ UNCHANGED <<m_Remote, m_OrphanedRemote, conn>>
    BY <1>2 DEF StartConnecting, HostInv, ThreadInv
  <2> QED  BY <1>1, <2>1 DEF HostInv, Shapes, ThreadInv, ConnectionInv, Serving
<1>3. CASE ConnectToRemoteServer
  <2>1. connecting /\ connecting' = FALSE /\ m_OrphanedRemote' = m_OrphanedRemote
        /\ \/ UNCHANGED <<m_Remote, conn>>
           \/ \E r \in Conns : m_Remote' = r /\ conn' = [conn EXCEPT ![r] = "alive"]
    BY <1>3 DEF ConnectToRemoteServer
  <2>2. host = 0 /\ m_Remote = 0 /\ m_OrphanedRemote = 0
    BY <2>1 DEF HostInv, ConnectionInv
  <2> QED  BY <1>1, <2>1, <2>2, ConstantFacts DEF HostInv, Shapes, ThreadInv, ConnectionInv
<1>4. CASE DisconnectFromRemoteServer
  <2>1. pc[UI] = "idle" /\ m_Remote # 0 /\ m_Remote' = 0 /\ connecting' = connecting
    BY <1>4 DEF DisconnectFromRemoteServer
  <2>2. m_OrphanedRemote = 0 /\ conn[m_Remote] = "alive" /\ ~connecting
    BY <2>1 DEF HostInv, ConnectionInv
  <2>3. CASE IsRunning
    <3>1. m_OrphanedRemote' = m_Remote /\ conn' = conn
      BY <1>4, <2>3 DEF DisconnectFromRemoteServer
    <3>2. run \in Serving
      BY <2>3 DEF IsRunning, HostInv, ThreadInv
    <3> QED  BY <1>1, <2>1, <2>2, <3>1, <3>2 DEF HostInv, Shapes, ThreadInv, ConnectionInv
  <2>4. CASE ~IsRunning
    <3>1. conn' = [conn EXCEPT ![m_Remote] = "deleted"] /\ m_OrphanedRemote' = m_OrphanedRemote
      BY <1>4, <2>4 DEF DisconnectFromRemoteServer
    <3>2. run \notin Serving \cup {"shut"}
      BY <2>1, <2>4 DEF IsRunning, HostInv, ThreadInv, Serving
    <3>3. host = 0
      BY <3>2 DEF HostInv, ConnectionInv
    <3> QED  BY <1>1, <2>1, <2>2, <3>1, <3>3 DEF HostInv, Shapes, ThreadInv, ConnectionInv
  <2> QED  BY <2>3, <2>4
<1>5. CASE ShutdownServer
  <2>1. /\ m_Remote # 0 /\ m_Remote' = 0 /\ connecting' = connecting /\ m_OrphanedRemote' = m_OrphanedRemote
        /\ conn' = [conn EXCEPT ![m_Remote] = "shut down"]
    BY <1>5 DEF ShutdownServer
  <2>2. m_OrphanedRemote = 0
    BY <2>1 DEF HostInv, ConnectionInv
  <2> QED  BY <1>1, <2>1, <2>2 DEF HostInv, Shapes, ThreadInv, ConnectionInv
<1> QED  BY <1>2, <1>3, <1>4, <1>5

LEMMA ReplayInv == ASSUME HostInv, Replay PROVE HostInv'
<1>1. CASE RunOpen
  <2>1. run = "opening" /\ UNCHANGED <<m_Remote, m_OrphanedRemote, conn, connecting, pc>>
    BY <1>1 DEF RunOpen, remoteVars, callerVars
  <2>2. m_OrphanedRemote = 0 /\ host = 0 /\ m_Thread = "live"
    BY <2>1 DEF HostInv, ThreadInv, ConnectionInv, Serving
  <2>3. CASE run' = "loop" /\ host' = m_Remote /\ m_Running' = TRUE /\ UNCHANGED m_Thread
    BY <2>1, <2>2, <2>3 DEF HostInv, Shapes, ThreadInv, ConnectionInv, Serving
  <2>4. CASE run' = "none" /\ m_Thread' = "ended" /\ UNCHANGED <<m_Running, host>>
    BY <2>1, <2>2, <2>4 DEF HostInv, Shapes, ThreadInv, ConnectionInv, Serving
  <2> QED  BY <1>1, <2>3, <2>4 DEF RunOpen
<1>2. CASE RunShut
  <2>1. /\ run = "shut" /\ m_OrphanedRemote' = 0 /\ host' = 0 /\ m_Thread' = "ended" /\ run' = "none"
        /\ conn' = [r \in Conns |-> IF r = m_OrphanedRemote THEN "deleted" ELSE conn[r]]
        /\ UNCHANGED <<m_Running, m_Remote, connecting, pc>>
    BY <1>2 DEF RunShut, callerVars
  <2>2. ~m_Running
    BY <2>1 DEF HostInv, ThreadInv, Serving
  <2> QED  BY <2>1, <2>2 DEF HostInv, Shapes, ThreadInv, ConnectionInv, Serving
<1>3. ASSUME RunTest \/ RunTake \/ RunMethod \/ RunLoopEnds \/ RunFinish \/ RunDrain  PROVE HostInv'
  <2>1. UNCHANGED <<m_Running, m_Thread, m_Remote, m_OrphanedRemote, conn, connecting, host, pc>>
    BY <1>3 DEF RunTest, RunTake, RunMethod, RunLoopEnds, RunFinish, RunDrain, threadVars, remoteVars, callerVars
  <2>2. run \in Serving /\ run' \in Serving \cup {"shut"}
    BY <1>3 DEF RunTest, RunTake, RunMethod, RunLoopEnds, RunFinish, RunDrain, Serving
  <2>3. m_Running => run' \in Serving \ {"drain"}
    BY <1>3 DEF HostInv, ThreadInv, RunTest, RunTake, RunMethod, RunLoopEnds, RunFinish, RunDrain, Serving
  <2>4. run' # "none" /\ run # "none"
    BY <2>2 DEF Serving
  <2> QED  BY <2>1, <2>2, <2>3, <2>4 DEF HostInv, Shapes, ThreadInv, ConnectionInv
<1> QED  BY <1>1, <1>2, <1>3 DEF Replay

LEMMA NextInv == HostInv /\ [Next]_vars => HostInv'
<1> SUFFICES ASSUME HostInv, [Next]_vars PROVE HostInv'
  OBVIOUS
<1>1. CASE Replay
  BY <1>1, ReplayInv
<1>2. ASSUME NEW t \in Callers, Caller(t)  PROVE HostInv'
  BY <1>2, CallerInv
<1>3. ASSUME NEW t \in Callers, BlockInvoke(t)  PROVE HostInv'
  BY <1>3, NewCommandInv DEF BlockInvoke
<1>4. ASSUME NEW t \in Callers, NEW tag \in Tags \cup {NoTag}, AsyncInvoke(t, tag)  PROVE HostInv'
  BY <1>4, NewCommandInv DEF AsyncInvoke
<1>5. CASE StartReplayLoop
  BY <1>5, NewCommandInv, ConstantFacts DEF StartReplayLoop
<1>6. CASE Interface \/ ListFolder
  BY <1>6, InterfaceInv, OpenCloseInv DEF Interface
<1>7. CASE OpenCapture \/ CloseThread
  BY <1>7, OpenCloseInv
<1>8. CASE StartConnecting \/ ConnectToRemoteServer \/ DisconnectFromRemoteServer \/ ShutdownServer
  BY <1>8, ConnectionStepsInv
<1>9. CASE UNCHANGED vars
  BY <1>9 DEF vars, threadVars, remoteVars, replayVars, callerVars, HostInv, Shapes, ThreadInv, ConnectionInv
<1> QED  BY <1>1, <1>2, <1>3, <1>4, <1>5, <1>6, <1>7, <1>8, <1>9 DEF Next

\* The connection a capture is replayed on is deleted after the capture was
\* closed on it, however opening, closing, connecting and disconnecting are
\* mixed (ReplayManager.cpp:365), unless the user shut the server down.
THEOREM RemoteOutlivesControllerAlways == Spec => []RemoteOutlivesController
<1>1. Spec => []HostInv
  BY InitInv, NextInv, PTL DEF Spec
<1>2. HostInv => RemoteOutlivesController
  BY DEF HostInv, ConnectionInv, RemoteOutlivesController
<1> QED  BY <1>1, <1>2, PTL

-----------------------------------------------------------------------------
(* Commands: who owns each, and which capture it belongs to.                 *)

Cmds == [kind : Kinds, tag : Tags \cup {NoTag}, for : 0..MaxOpens, late : BOOLEAN,
         st : {"unused", "held", "queued", "running", "released", "freed"}]

Pushing == {"check", "push"}

Data ==
  /\ m_RenderQueue \in Seq(Commands)
  /\ connecting \in BOOLEAN /\ m_ReplayLoopCancel \in BOOLEAN /\ m_ReplayLoopFinished \in BOOLEAN
  /\ cur \in Commands \cup {0}
  /\ cmd \in [Commands -> Cmds]
  /\ mine \in [Callers -> Commands \cup {0}]
  /\ opens \in 0..MaxOpens

\* What a caller holds: the command it pushes, and the one it waits for.
CallersInv ==
  /\ \A t \in Callers :
       /\ pc[t] \in Pushing => mine[t] \in Commands /\ cmd[mine[t]].st = "held"
       /\ pc[t] = "wait" => mine[t] \in Commands /\ cmd[mine[t]].kind = "block"
                            /\ cmd[mine[t]].st \in {"queued", "running", "released"}
       /\ pc[t] \notin Pushing \cup {"wait"} => mine[t] = 0
  /\ \A t, u \in Callers : mine[t] = mine[u] /\ mine[t] # 0 => t = u

\* Whom a command belongs to: nobody waits for one that can be preempted.
CommandsInv ==
  \A c \in Commands :
    /\ cmd[c].st = "held" => \E t \in Callers : mine[t] = c /\ pc[t] \in Pushing
    /\ cmd[c].st = "released" => cmd[c].kind = "block"
    /\ cmd[c].kind = "block" /\ cmd[c].st \in {"queued", "running", "released"}
         => \E t \in Callers : mine[t] = c /\ pc[t] = "wait"
    /\ cmd[c].tag # NoTag => cmd[c].kind = "async"

QueueInv ==
  /\ \A i \in 1..Len(m_RenderQueue) : cmd[m_RenderQueue[i]].st = "queued"
  /\ \A i, j \in 1..Len(m_RenderQueue) : m_RenderQueue[i] = m_RenderQueue[j] => i = j
  /\ \A c \in Commands : cmd[c].st = "queued" => c \in Elems(m_RenderQueue)

RunInv ==
  /\ cur # 0 <=> run \in {"exec", "looping", "finish"}
  /\ \A c \in Commands : cmd[c].st = "running" <=> c = cur

LateInv ==
  \A c \in Commands :
    cmd[c].st \in {"queued", "running"} => cmd[c].late \/ (cmd[c].for = opens /\ run \in Serving)

CmdInv == Data /\ CallersInv /\ CommandsInv /\ QueueInv /\ RunInv /\ LateInv

LEMMA NumberFacts == 0 \notin Commands /\ MaxOpens \in Nat /\ MaxCommands \in Nat
BY ReplayAssumption DEF Commands

LEMMA InitCmdInv == Init => CmdInv
<1> SUFFICES ASSUME Init PROVE CmdInv
  OBVIOUS
<1>1. \A c \in Commands : cmd[c] = Blank("unused")
  BY DEF Init
<1>2. Blank("unused") \in Cmds
  BY NumberFacts DEF Blank, Cmds, Kinds
<1>3. Data
  <2>1. cmd \in [Commands -> Cmds]
    <3>1. cmd = [c \in Commands |-> Blank("unused")]
      BY DEF Init
    <3> QED BY <1>2, <3>1
  <2>2. mine \in [Callers -> Commands \cup {0}]
    BY DEF Init
  <2>3. m_RenderQueue \in Seq(Commands) /\ opens \in 0..MaxOpens
    BY NumberFacts DEF Init
  <2> QED BY <2>1, <2>2, <2>3 DEF Init, Data
<1>4. CallersInv
  BY DEF Init, CallersInv, Pushing
<1>5. CommandsInv /\ LateInv
  BY <1>1 DEF CommandsInv, LateInv, Blank
<1>6. QueueInv
  <2>1. Len(m_RenderQueue) = 0
    BY DEF Init
  <2> QED BY <1>1, <2>1 DEF QueueInv, Blank
<1>7. RunInv
  BY <1>1, NumberFacts DEF Init, RunInv, Blank
<1> QED BY <1>3, <1>4, <1>5, <1>6, <1>7 DEF CmdInv

\* A step that leaves the commands, the queue and who waits for what alone.
LEMMA CommandsKept ==
  ASSUME CmdInv, UNCHANGED <<cmd, m_RenderQueue, mine, cur>>,
         opens' \in 0..MaxOpens, connecting' \in BOOLEAN,
         m_ReplayLoopCancel' \in BOOLEAN, m_ReplayLoopFinished' \in BOOLEAN,
         \A t \in Callers : \/ pc'[t] = pc[t]
                            \/ pc[t] \notin Pushing \cup {"wait"} /\ pc'[t] \notin Pushing \cup {"wait"},
         run \in {"exec", "looping", "finish"} <=> run' \in {"exec", "looping", "finish"},
         run \in Serving => opens' = opens /\ run' \in Serving
  PROVE  CmdInv'
<1>1. Data'
  BY DEF CmdInv, Data
<1>2. CallersInv'
  BY DEF CmdInv, CallersInv, Pushing
<1>3. CommandsInv'
  BY DEF CmdInv, CommandsInv, Pushing
<1>4. QueueInv'
  BY DEF CmdInv, QueueInv, Elems
<1>5. RunInv'
  BY DEF CmdInv, RunInv
<1>6. LateInv'
  BY DEF CmdInv, LateInv
<1> QED BY <1>1, <1>2, <1>3, <1>4, <1>5, <1>6 DEF CmdInv

\* What is known of a command at an index of the queue.
LEMMA InQueue ==
  ASSUME CmdInv, NEW i \in 1..Len(m_RenderQueue)
  PROVE  m_RenderQueue[i] \in Commands /\ cmd[m_RenderQueue[i]].st = "queued"
BY DEF CmdInv, Data, QueueInv

\* A new command: nobody had it, and what it preempts nobody waits for.
LEMMA NewCommandKeeps ==
  ASSUME CmdInv, NEW t \in Callers, NEW kind \in Kinds, NEW tag \in Tags \cup {NoTag},
         pc \in [Callers -> PCs], pc[t] = "idle", tag # NoTag => kind = "async", NewCommand(t, kind, tag),
         UNCHANGED <<threadVars, remoteVars, loopVars, replayVars, opens>>
  PROVE  CmdInv'
<1> DEFINE S == SameTag(tag)
           P == {i \in 1..Len(m_RenderQueue) : m_RenderQueue[i] \notin SameTag(tag)}
           new == [kind |-> kind, tag |-> tag, for |-> 0, late |-> FALSE, st |-> "held"]
<1>1. PICK c \in Commands :
        /\ cmd[c].st = "unused"
        /\ mine' = [mine EXCEPT ![t] = c]
        /\ pc' = [pc EXCEPT ![t] = "check"]
        /\ cmd' = [d \in Commands |-> IF d = c THEN new ELSE IF d \in S THEN Blank("freed") ELSE cmd[d]]
        /\ m_RenderQueue' = Sublist(m_RenderQueue, P)
  BY DEF NewCommand
<1>2. /\ cmd'[c] = new
      /\ \A d \in S : d \in Commands => cmd'[d] = Blank("freed")
      /\ \A d \in Commands \ S : d # c => cmd'[d] = cmd[d]
      /\ c \notin S
  <2>1. \A d \in S : d \in Commands /\ cmd[d].st = "queued"
    BY InQueue DEF SameTag, Elems
  <2> QED BY <1>1, <2>1
<1>3. \A d \in S : d \in Commands /\ cmd[d].st = "queued" /\ cmd[d].kind = "async"
  <2>1. \A d \in S : d \in Commands /\ cmd[d].st = "queued" /\ cmd[d].tag # NoTag
    BY InQueue DEF SameTag, Elems
  <2> QED BY <2>1 DEF CmdInv, CommandsInv
<1>4. mine[t] = 0 /\ \A u \in Callers : mine[u] # c
  BY <1>1, NumberFacts DEF CmdInv, CallersInv, Pushing
<1>5. /\ mine'[t] = c /\ pc'[t] = "check"
      /\ \A u \in Callers : u # t => mine'[u] = mine[u] /\ pc'[u] = pc[u]
  BY <1>1 DEF CmdInv, Data
<1>6. \A u \in Callers : mine[u] \notin S
  <2> SUFFICES ASSUME NEW u \in Callers, mine[u] \in S PROVE FALSE
    OBVIOUS
  <2>1. mine[u] # 0
    BY <1>3, NumberFacts
  <2> QED BY <1>3, <2>1 DEF CmdInv, CallersInv, Pushing
<1>7. Blank("freed") \in Cmds /\ new \in Cmds
  BY NumberFacts DEF Blank, Cmds, Kinds
<1>8. /\ Sublist(m_RenderQueue, P) \in Seq(Commands)
      /\ Len(Sublist(m_RenderQueue, P)) = Cardinality(P) /\ Cardinality(P) \in Nat
      /\ \A k \in 1 .. Cardinality(P) : Nth(P, k) \in P /\ Sublist(m_RenderQueue, P)[k] = m_RenderQueue[Nth(P, k)]
      /\ \A i \in P : \E k \in 1 .. Cardinality(P) : Sublist(m_RenderQueue, P)[k] = m_RenderQueue[i]
      /\ \A k, l \in 1 .. Cardinality(P) : Nth(P, k) = Nth(P, l) => k = l
  <2>1. m_RenderQueue \in Seq(Commands) /\ P \in SUBSET (1 .. Len(m_RenderQueue))
    BY DEF CmdInv, Data
  <2> HIDE DEF P
  <2> QED BY <2>1, SublistMembers
<1>9. \A i \in P : /\ i \in 1..Len(m_RenderQueue) /\ m_RenderQueue[i] \in Commands
                   /\ cmd'[m_RenderQueue[i]] = cmd[m_RenderQueue[i]] /\ cmd[m_RenderQueue[i]].st = "queued"
  <2> TAKE i \in P
  <2>1. i \in 1..Len(m_RenderQueue) /\ m_RenderQueue[i] \notin S
    OBVIOUS
  <2>2. m_RenderQueue[i] \in Commands /\ cmd[m_RenderQueue[i]].st = "queued"
    BY <2>1, InQueue
  <2>3. m_RenderQueue[i] # c
    BY <1>1, <2>2
  <2> QED BY <1>2, <2>1, <2>2, <2>3
<1> HIDE DEF S, P, new
<1>10. Data'
  <2>1. \A d \in Commands : cmd'[d] \in Cmds
    BY <1>2, <1>7 DEF CmdInv, Data
  <2>2. cmd' \in [Commands -> Cmds]
    BY <1>1, <2>1
  <2>3. mine' \in [Callers -> Commands \cup {0}]
    BY <1>1 DEF CmdInv, Data
  <2> QED BY <1>1, <1>8, <2>2, <2>3 DEF CmdInv, Data, remoteVars, loopVars, replayVars
<1>11. CallersInv'
  <2>1. cmd'[mine'[t]].st = "held" /\ mine'[t] \in Commands
    BY <1>1, <1>2, <1>5 DEF new
  <2>2. \A u \in Callers : u # t /\ mine[u] \in Commands => cmd'[mine'[u]] = cmd[mine[u]]
    BY <1>2, <1>4, <1>5, <1>6
  <2>3. \A u, v \in Callers : mine'[u] = mine'[v] /\ mine'[u] # 0 => u = v
    BY <1>4, <1>5 DEF CmdInv, CallersInv
  <2> QED BY <1>5, <2>1, <2>2, <2>3 DEF CmdInv, CallersInv, Pushing
<1>12. CommandsInv'
  <2> SUFFICES ASSUME NEW d \in Commands
               PROVE  /\ cmd'[d].st = "held" => \E u \in Callers : mine'[u] = d /\ pc'[u] \in Pushing
                      /\ cmd'[d].st = "released" => cmd'[d].kind = "block"
                      /\ cmd'[d].kind = "block" /\ cmd'[d].st \in {"queued", "running", "released"}
                           => \E u \in Callers : mine'[u] = d /\ pc'[u] = "wait"
                      /\ cmd'[d].tag # NoTag => cmd'[d].kind = "async"
    BY DEF CommandsInv
  <2>1. CASE d = c
    BY <1>2, <1>5, <2>1 DEF new, Pushing
  <2>2. CASE d \in S
    BY <1>2, <2>2 DEF Blank
  <2>3. CASE d # c /\ d \notin S
    <3>1. cmd'[d] = cmd[d]
      BY <1>2, <2>3
    <3>2. \A u \in Callers : mine[u] = d => mine'[u] = d /\ pc'[u] = pc[u]
      BY <1>4, <1>5, NumberFacts
    <3> QED BY <3>1, <3>2 DEF CmdInv, CommandsInv
  <2> QED BY <2>1, <2>2, <2>3
<1>13. QueueInv'
  <2>1. \A k \in 1..Len(m_RenderQueue') : /\ m_RenderQueue'[k] = m_RenderQueue[Nth(P, k)] /\ Nth(P, k) \in P
                                          /\ cmd'[m_RenderQueue'[k]].st = "queued"
    <3>1. m_RenderQueue' = Sublist(m_RenderQueue, P)
      BY <1>1
    <3>2. Len(m_RenderQueue') = Cardinality(P)
      BY <1>8, <3>1
    <3>3. \A k \in 1..Cardinality(P) : m_RenderQueue'[k] = m_RenderQueue[Nth(P, k)] /\ Nth(P, k) \in P
      BY <1>8, <3>1
    <3>4. \A k \in 1..Cardinality(P) : cmd'[m_RenderQueue[Nth(P, k)]].st = "queued"
      BY <1>9, <3>3
    <3> QED BY <3>2, <3>3, <3>4
  <2>2. ASSUME NEW k \in 1..Len(m_RenderQueue'), NEW l \in 1..Len(m_RenderQueue'),
               m_RenderQueue'[k] = m_RenderQueue'[l]
        PROVE  k = l
    <3>1. Nth(P, k) = Nth(P, l)
      BY <1>9, <2>1, <2>2 DEF CmdInv, QueueInv
    <3> QED BY <1>1, <1>8, <3>1
  <2>3. ASSUME NEW d \in Commands, cmd'[d].st = "queued" PROVE d \in Elems(m_RenderQueue)'
    <3>1. d # c /\ d \notin S /\ cmd[d].st = "queued"
      BY <1>2, <2>3 DEF new, Blank
    <3>2. PICK i \in 1..Len(m_RenderQueue) : m_RenderQueue[i] = d
      BY <3>1 DEF CmdInv, QueueInv, Elems
    <3>3. i \in P
      BY <3>1, <3>2 DEF P, S
    <3> QED BY <1>1, <1>8, <3>2, <3>3 DEF Elems
  <2> QED BY <2>1, <2>2, <2>3 DEF QueueInv
<1>14. RunInv'
  <2>1. \A d \in Commands : cmd'[d].st = "running" <=> cmd[d].st = "running"
    BY <1>1, <1>2, <1>3 DEF new, Blank
  <2> QED BY <2>1 DEF CmdInv, RunInv, replayVars
<1>15. LateInv'
  <2>1. \A d \in Commands : cmd'[d].st \in {"queued", "running"} => cmd'[d] = cmd[d]
    BY <1>1, <1>2, <1>3 DEF new, Blank
  <2> QED BY <2>1 DEF CmdInv, LateInv, replayVars
<1> QED BY <1>10, <1>11, <1>12, <1>13, <1>14, <1>15 DEF CmdInv

\* A caller's step on its own command, which is neither in the queue nor run.
LEMMA OwnCommandKeeps ==
  ASSUME CmdInv, NEW t \in Callers, NEW c \in Commands, NEW new \in Cmds,
         mine[t] = c, cmd[c].st \in {"held", "released"},
         UNCHANGED <<m_RenderQueue, run, cur, opens, connecting, m_ReplayLoopCancel, m_ReplayLoopFinished>>,
         cmd' = [cmd EXCEPT ![c] = new],
         mine' \in [Callers -> Commands \cup {0}],
         \A u \in Callers : u # t => mine'[u] = mine[u] /\ pc'[u] = pc[u],
         new.tag # NoTag => new.kind = "async",
         \/ pc'[t] = "push" /\ mine'[t] = c /\ new.st = "held"
         \/ pc'[t] = "wait" /\ mine'[t] = c /\ new.st = "released" /\ new.kind = "block"
         \/ pc'[t] \notin Pushing \cup {"wait"} /\ mine'[t] = 0 /\ new.st = "freed"
  PROVE  CmdInv'
<1>1. cmd'[c] = new /\ \A d \in Commands : d # c => cmd'[d] = cmd[d]
  BY DEF CmdInv, Data
<1>2. \A i \in 1..Len(m_RenderQueue) : m_RenderQueue[i] \in Commands /\ m_RenderQueue[i] # c
  BY InQueue
<1>3. c # cur
  BY DEF CmdInv, RunInv
<1>4. \A u \in Callers : u # t => mine[u] # c
  BY NumberFacts DEF CmdInv, CallersInv
<1>5. Data'
  BY DEF CmdInv, Data
<1>6. CallersInv'
  <2>1. /\ pc'[t] \in Pushing => mine'[t] = c /\ new.st = "held"
        /\ pc'[t] = "wait" => mine'[t] = c /\ new.kind = "block" /\ new.st = "released"
        /\ pc'[t] \notin Pushing \cup {"wait"} => mine'[t] = 0
    BY DEF Pushing
  <2>2. ASSUME NEW u \in Callers, u # t
        PROVE  /\ mine'[u] = mine[u] /\ pc'[u] = pc[u]
               /\ mine[u] \in Commands => cmd'[mine[u]] = cmd[mine[u]]
    BY <1>1, <1>4, <2>2
  <2>3. \A u, v \in Callers : mine'[u] = mine'[v] /\ mine'[u] # 0 => u = v
    BY <1>4, <2>1 DEF CmdInv, CallersInv
  <2>4. ASSUME NEW u \in Callers
        PROVE  /\ pc'[u] \in Pushing => mine'[u] \in Commands /\ cmd'[mine'[u]].st = "held"
               /\ pc'[u] = "wait" => mine'[u] \in Commands /\ cmd'[mine'[u]].kind = "block"
                                     /\ cmd'[mine'[u]].st \in {"queued", "running", "released"}
               /\ pc'[u] \notin Pushing \cup {"wait"} => mine'[u] = 0
    <3>1. CASE u = t
      BY <1>1, <2>1, <3>1
    <3>2. CASE u # t
      BY <2>2, <3>2 DEF CmdInv, CallersInv
    <3> QED BY <3>1, <3>2
  <2> QED BY <2>3, <2>4 DEF CallersInv
<1>7. CommandsInv'
  <2> SUFFICES ASSUME NEW d \in Commands
               PROVE  /\ cmd'[d].st = "held" => \E u \in Callers : mine'[u] = d /\ pc'[u] \in Pushing
                      /\ cmd'[d].st = "released" => cmd'[d].kind = "block"
                      /\ cmd'[d].kind = "block" /\ cmd'[d].st \in {"queued", "running", "released"}
                           => \E u \in Callers : mine'[u] = d /\ pc'[u] = "wait"
                      /\ cmd'[d].tag # NoTag => cmd'[d].kind = "async"
    BY DEF CommandsInv
  <2>1. CASE d = c
    BY <1>1, <2>1 DEF Pushing
  <2>2. CASE d # c
    <3>1. cmd'[d] = cmd[d]
      BY <1>1, <2>2
    <3>2. \A u \in Callers : mine[u] = d => mine'[u] = d /\ pc'[u] = pc[u]
      BY <2>2
    <3> QED BY <3>1, <3>2 DEF CmdInv, CommandsInv
  <2> QED BY <2>1, <2>2
<1>8. QueueInv'
  <2>1. \A i \in 1..Len(m_RenderQueue) : cmd'[m_RenderQueue[i]] = cmd[m_RenderQueue[i]]
    BY <1>1, <1>2
  <2>2. \A d \in Commands : cmd'[d].st = "queued" => cmd[d].st = "queued"
    BY <1>1
  <2> QED BY <2>1, <2>2 DEF CmdInv, QueueInv, Elems
<1>9. RunInv' /\ LateInv'
  BY <1>1, <1>3 DEF CmdInv, RunInv, LateInv
<1> QED BY <1>5, <1>6, <1>7, <1>8, <1>9 DEF CmdInv

LEMMA PushCheckKeeps ==
  ASSUME CmdInv, pc \in [Callers -> PCs], NEW t \in Callers, PushCheck(t) PROVE CmdInv'
<1> DEFINE c == mine[t]
<1>1. pc[t] = "check" /\ c \in Commands /\ cmd[c].st = "held" /\ cmd[c] \in Cmds /\ opens \in 0..MaxOpens
  BY DEF PushCheck, CmdInv, CallersInv, Pushing, Data
<1>2. UNCHANGED <<m_RenderQueue, run, cur, opens, connecting, m_ReplayLoopCancel, m_ReplayLoopFinished>>
  BY DEF PushCheck, remoteVars, loopVars, replayVars
<1>3. mine \in [Callers -> Commands \cup {0}] /\ (cmd[c].tag # NoTag => cmd[c].kind = "async")
  BY <1>1 DEF CmdInv, Data, CommandsInv
<1>4. CASE IsRunning
  <2> DEFINE new == [cmd[c] EXCEPT !.for = opens]
  <2>1. pc' = [pc EXCEPT ![t] = "push"] /\ cmd' = [cmd EXCEPT ![c] = new] /\ mine' = mine
    BY <1>4 DEF PushCheck
  <2>2. new \in Cmds /\ new.kind = cmd[c].kind /\ new.tag = cmd[c].tag /\ new.st = "held"
    BY <1>1 DEF Cmds
  <2> HIDE DEF new
  <2> QED BY <1>1, <1>2, <1>3, <2>1, <2>2, OwnCommandKeeps
<1>5. CASE ~IsRunning
  <2>1. /\ pc' = [pc EXCEPT ![t] = AfterPush(c)] /\ cmd' = [cmd EXCEPT ![c] = Settled(c)]
        /\ mine' = [mine EXCEPT ![t] = IF cmd[c].kind = "block" THEN c ELSE 0]
    BY <1>5 DEF PushCheck
  <2>2. mine' \in [Callers -> Commands \cup {0}] /\ \A u \in Callers : u # t => mine'[u] = mine[u] /\ pc'[u] = pc[u]
    BY <1>1, <1>3, <2>1
  <2>3. CASE cmd[c].kind = "block"
    <3>1. pc'[t] = "wait" /\ mine'[t] = c
      BY <1>1, <1>3, <2>1, <2>3 DEF AfterPush
    <3>2. /\ Settled(c) \in Cmds /\ Settled(c).st = "released"
          /\ Settled(c).kind = "block" /\ Settled(c).tag = cmd[c].tag
      BY <1>1, <2>3 DEF Settled, Cmds
    <3> QED BY <1>1, <1>2, <1>3, <2>1, <2>2, <2>3, <3>1, <3>2, OwnCommandKeeps
  <2>4. CASE cmd[c].kind # "block"
    <3>1. pc'[t] \notin Pushing \cup {"wait"} /\ mine'[t] = 0
      BY <1>1, <1>3, <2>1, <2>4 DEF AfterPush, Pushing
    <3>2. Settled(c) \in Cmds /\ Settled(c).st = "freed" /\ Settled(c).tag = NoTag
      BY <2>4, NumberFacts DEF Settled, Blank, Cmds, Kinds
    <3> QED BY <1>1, <1>2, <2>1, <2>2, <3>1, <3>2, OwnCommandKeeps
  <2> QED BY <2>3, <2>4
<1> QED BY <1>4, <1>5

LEMMA BlockReturnKeeps ==
  ASSUME CmdInv, pc \in [Callers -> PCs], NEW t \in Callers, BlockReturn(t) PROVE CmdInv'
<1>1. pc[t] = "wait" /\ mine[t] \in Commands /\ cmd[mine[t]].st = "released"
  BY DEF BlockReturn, CmdInv, CallersInv
<1>2. UNCHANGED <<m_RenderQueue, run, cur, opens, connecting, m_ReplayLoopCancel, m_ReplayLoopFinished>>
  BY DEF BlockReturn, remoteVars, loopVars, replayVars
<1>3. /\ pc' = [pc EXCEPT ![t] = "idle"] /\ cmd' = [cmd EXCEPT ![mine[t]] = Blank("freed")]
      /\ mine' = [mine EXCEPT ![t] = 0]
  BY DEF BlockReturn
<1>4. mine' \in [Callers -> Commands \cup {0}] /\ mine'[t] = 0 /\ pc'[t] \notin Pushing \cup {"wait"}
  BY <1>3 DEF CmdInv, Data, Pushing
<1>5. Blank("freed") \in Cmds /\ Blank("freed").st = "freed" /\ Blank("freed").tag = NoTag
  BY NumberFacts DEF Blank, Cmds, Kinds
<1>6. \A u \in Callers : u # t => mine'[u] = mine[u] /\ pc'[u] = pc[u]
  BY <1>3 DEF CmdInv, Data
<1> QED BY <1>1, <1>2, <1>3, <1>4, <1>5, <1>6, OwnCommandKeeps

LEMMA PushInvokeKeeps ==
  ASSUME CmdInv, pc \in [Callers -> PCs], NEW t \in Callers, PushInvoke(t) PROVE CmdInv'
<1> DEFINE c == mine[t]
           n == Len(m_RenderQueue)
           late == run \notin Serving \/ cmd[c].for # opens
           new == [cmd[c] EXCEPT !.st = "queued", !.late = late]
<1>1. pc[t] = "push" /\ c \in Commands /\ cmd[c].st = "held" /\ cmd[c] \in Cmds
  BY DEF PushInvoke, CmdInv, CallersInv, Pushing, Data
<1>2. UNCHANGED <<run, cur, opens, connecting, m_ReplayLoopCancel, m_ReplayLoopFinished>>
  BY DEF PushInvoke, remoteVars, loopVars, replayVars
<1>3. /\ m_RenderQueue' = Append(m_RenderQueue, c) /\ cmd' = [cmd EXCEPT ![c] = new]
      /\ pc' = [pc EXCEPT ![t] = AfterPush(c)]
      /\ mine' = [mine EXCEPT ![t] = IF cmd[c].kind = "block" THEN c ELSE 0]
  BY <1>1 DEF PushInvoke, CmdInv, Data
<1>4. /\ new \in Cmds /\ new.kind = cmd[c].kind /\ new.tag = cmd[c].tag /\ new.for = cmd[c].for
      /\ new.st = "queued" /\ new.late = late
  BY <1>1 DEF Cmds
<1> HIDE DEF new
<1>5. cmd'[c] = new /\ \A d \in Commands : d # c => cmd'[d] = cmd[d]
  BY <1>1, <1>3 DEF CmdInv, Data
<1>6. /\ mine' \in [Callers -> Commands \cup {0}]
      /\ \A u \in Callers : u # t => mine'[u] = mine[u] /\ pc'[u] = pc[u]
      /\ cmd[c].kind = "block" => pc'[t] = "wait" /\ mine'[t] = c
      /\ cmd[c].kind # "block" => pc'[t] \notin Pushing \cup {"wait"} /\ mine'[t] = 0
  BY <1>1, <1>3 DEF CmdInv, Data, AfterPush, Pushing
<1>7. \A u \in Callers : u # t => mine[u] # c
  BY <1>1, NumberFacts DEF CmdInv, CallersInv
<1>8. /\ n \in Nat /\ Len(m_RenderQueue') = n + 1 /\ m_RenderQueue' \in Seq(Commands) /\ m_RenderQueue'[n + 1] = c
      /\ \A i \in 1..n : m_RenderQueue'[i] = m_RenderQueue[i] /\ m_RenderQueue[i] \in Commands /\ m_RenderQueue[i] # c
  <2>1. m_RenderQueue \in Seq(Commands)
    BY DEF CmdInv, Data
  <2>2. \A i \in 1..n : m_RenderQueue[i] \in Commands /\ m_RenderQueue[i] # c
    BY <1>1, InQueue
  <2> QED BY <1>1, <1>3, <2>1, <2>2
<1>9. c # cur
  BY <1>1 DEF CmdInv, RunInv
<1>10. Data'
  BY <1>2, <1>3, <1>4, <1>6, <1>8 DEF CmdInv, Data
<1>11. CallersInv'
  <2>1. \A u \in Callers : u # t /\ mine[u] \in Commands => cmd'[mine[u]] = cmd[mine[u]]
    BY <1>5, <1>7
  <2>2. \A u, v \in Callers : mine'[u] = mine'[v] /\ mine'[u] # 0 => u = v
    BY <1>6, <1>7 DEF CmdInv, CallersInv
  <2>3. ASSUME NEW u \in Callers
        PROVE  /\ pc'[u] \in Pushing => mine'[u] \in Commands /\ cmd'[mine'[u]].st = "held"
               /\ pc'[u] = "wait" => mine'[u] \in Commands /\ cmd'[mine'[u]].kind = "block"
                                     /\ cmd'[mine'[u]].st \in {"queued", "running", "released"}
               /\ pc'[u] \notin Pushing \cup {"wait"} => mine'[u] = 0
    <3>1. CASE u = t
      BY <1>1, <1>4, <1>5, <1>6, <3>1 DEF Pushing
    <3>2. CASE u # t
      BY <1>6, <2>1, <3>2 DEF CmdInv, CallersInv
    <3> QED BY <3>1, <3>2
  <2> QED BY <2>2, <2>3 DEF CallersInv
<1>12. CommandsInv'
  <2> SUFFICES ASSUME NEW d \in Commands
               PROVE  /\ cmd'[d].st = "held" => \E u \in Callers : mine'[u] = d /\ pc'[u] \in Pushing
                      /\ cmd'[d].st = "released" => cmd'[d].kind = "block"
                      /\ cmd'[d].kind = "block" /\ cmd'[d].st \in {"queued", "running", "released"}
                           => \E u \in Callers : mine'[u] = d /\ pc'[u] = "wait"
                      /\ cmd'[d].tag # NoTag => cmd'[d].kind = "async"
    BY DEF CommandsInv
  <2>1. CASE d = c
    BY <1>1, <1>4, <1>5, <1>6, <2>1 DEF CmdInv, CommandsInv
  <2>2. CASE d # c
    <3>1. cmd'[d] = cmd[d]
      BY <1>5, <2>2
    <3>2. \A u \in Callers : mine[u] = d => mine'[u] = d /\ pc'[u] = pc[u]
      BY <1>6, <2>2
    <3> QED BY <3>1, <3>2 DEF CmdInv, CommandsInv
  <2> QED BY <2>1, <2>2
<1>13. QueueInv'
  <2>1. \A i \in 1..Len(m_RenderQueue') : i \in 1..n \/ i = n + 1
    BY <1>8
  <2>2. \A i \in 1..n : cmd'[m_RenderQueue[i]] = cmd[m_RenderQueue[i]]
    BY <1>5, <1>8
  <2>3. \A i \in 1..Len(m_RenderQueue') : cmd'[m_RenderQueue'[i]].st = "queued"
    BY <1>4, <1>5, <1>8, <2>1, <2>2 DEF CmdInv, QueueInv
  <2>4. \A i, j \in 1..Len(m_RenderQueue') : m_RenderQueue'[i] = m_RenderQueue'[j] => i = j
    BY <1>8, <2>1 DEF CmdInv, QueueInv
  <2>5. ASSUME NEW d \in Commands, cmd'[d].st = "queued" PROVE d \in Elems(m_RenderQueue)'
    <3>1. CASE d = c
      BY <1>8, <3>1 DEF Elems
    <3>2. CASE d # c
      <4>1. PICK i \in 1..n : m_RenderQueue[i] = d
        BY <1>5, <2>5, <3>2 DEF CmdInv, QueueInv, Elems
      <4>2. i \in 1..Len(m_RenderQueue') /\ m_RenderQueue'[i] = d
        BY <1>8, <4>1
      <4> QED BY <4>2 DEF Elems
    <3> QED BY <3>1, <3>2
  <2> QED BY <2>3, <2>4, <2>5 DEF QueueInv
<1>14. RunInv'
  BY <1>1, <1>2, <1>4, <1>5, <1>9 DEF CmdInv, RunInv
<1>15. LateInv'
  BY <1>2, <1>4, <1>5 DEF CmdInv, LateInv
<1> QED BY <1>10, <1>11, <1>12, <1>13, <1>14, <1>15 DEF CmdInv

\* The oldest command leaves the queue and runs.
LEMMA RunTakeKeeps == ASSUME CmdInv, pc \in [Callers -> PCs], RunTake PROVE CmdInv'
<1>1. run = "take" /\ cur = 0
  BY DEF RunTake, CmdInv, RunInv
<1>2. UNCHANGED <<opens, connecting, m_ReplayLoopCancel, m_ReplayLoopFinished, pc, mine>>
  BY DEF RunTake, remoteVars, loopVars, callerVars
<1>3. CASE m_RenderQueue = <<>>
  <2>1. run' = "loop" /\ UNCHANGED <<cur, m_RenderQueue, cmd>>
    BY <1>3 DEF RunTake
  <2>2. /\ opens' \in 0..MaxOpens /\ connecting' \in BOOLEAN
        /\ m_ReplayLoopCancel' \in BOOLEAN /\ m_ReplayLoopFinished' \in BOOLEAN
    BY <1>2 DEF CmdInv, Data
  <2> QED BY <1>1, <1>2, <2>1, <2>2, CommandsKept DEF Serving
<1>4. CASE m_RenderQueue # <<>>
  <2> DEFINE c == Head(m_RenderQueue)
             n == Len(m_RenderQueue)
             new == [cmd[c] EXCEPT !.st = "running"]
  <2>1. run' = "exec" /\ cur' = c /\ m_RenderQueue' = Tail(m_RenderQueue) /\ cmd' = [cmd EXCEPT ![c] = new]
    BY <1>4 DEF RunTake
  <2>2. /\ n \in Nat /\ n > 0 /\ c = m_RenderQueue[1]
        /\ Tail(m_RenderQueue) \in Seq(Commands) /\ Len(Tail(m_RenderQueue)) = n - 1
        /\ \A i \in 1..(n - 1) : Tail(m_RenderQueue)[i] = m_RenderQueue[i + 1]
    BY <1>4 DEF CmdInv, Data
  <2>3. c \in Commands /\ cmd[c].st = "queued" /\ cmd[c] \in Cmds
    BY <2>2, InQueue DEF CmdInv, Data
  <2>4. /\ new \in Cmds /\ new.kind = cmd[c].kind /\ new.tag = cmd[c].tag /\ new.for = cmd[c].for
        /\ new.st = "running" /\ new.late = cmd[c].late
    BY <2>3 DEF Cmds
  <2> HIDE DEF c, new
  <2>5. cmd'[c] = new /\ \A d \in Commands : d # c => cmd'[d] = cmd[d]
    BY <2>1, <2>3 DEF CmdInv, Data
  <2>6. \A i \in 1..(n - 1) : /\ i + 1 \in 1..n /\ m_RenderQueue'[i] = m_RenderQueue[i + 1]
                              /\ m_RenderQueue[i + 1] \in Commands /\ m_RenderQueue[i + 1] # c
    <3> TAKE i \in 1..(n - 1)
    <3>1. i + 1 \in 1..n /\ 1 \in 1..n /\ i + 1 # 1
      BY <2>2
    <3>2. m_RenderQueue[i + 1] \in Commands
      BY <3>1, InQueue
    <3>3. m_RenderQueue[i + 1] # m_RenderQueue[1]
      BY <3>1 DEF CmdInv, QueueInv
    <3> QED BY <2>1, <2>2, <3>1, <3>2, <3>3
  <2>7. Data'
    BY <1>2, <2>1, <2>2, <2>3, <2>4 DEF CmdInv, Data
  <2>8. CallersInv'
    <3>1. ASSUME NEW u \in Callers
          PROVE  /\ pc[u] \in Pushing => mine[u] \in Commands /\ cmd'[mine[u]].st = "held"
                 /\ pc[u] = "wait" => mine[u] \in Commands /\ cmd'[mine[u]].kind = "block"
                                      /\ cmd'[mine[u]].st \in {"queued", "running", "released"}
      BY <2>3, <2>4, <2>5 DEF CmdInv, CallersInv, Pushing
    <3> QED BY <1>2, <3>1 DEF CmdInv, CallersInv
  <2>9. CommandsInv'
    BY <1>2, <2>3, <2>4, <2>5 DEF CmdInv, CommandsInv
  <2>10. QueueInv'
    <3>1. Len(m_RenderQueue') = n - 1
      BY <2>1, <2>2
    <3>2. \A i \in 1..(n - 1) : cmd'[m_RenderQueue'[i]].st = "queued"
      BY <2>5, <2>6, InQueue
    <3>3. ASSUME NEW i \in 1..(n - 1), NEW j \in 1..(n - 1), m_RenderQueue'[i] = m_RenderQueue'[j] PROVE i = j
      <4>1. i + 1 = j + 1
        BY <2>6, <3>3 DEF CmdInv, QueueInv
      <4> QED BY <2>2, <4>1
    <3>4. ASSUME NEW d \in Commands, cmd'[d].st = "queued" PROVE d \in Elems(m_RenderQueue)'
      <4>1. d # c
        BY <2>4, <2>5, <3>4
      <4>2. PICK i \in 1..n : m_RenderQueue[i] = d
        BY <2>5, <3>4, <4>1 DEF CmdInv, QueueInv, Elems
      <4>3. i # 1 /\ i - 1 \in 1..(n - 1) /\ (i - 1) + 1 = i
        BY <2>2, <4>1, <4>2
      <4>4. m_RenderQueue'[i - 1] = d
        BY <2>6, <4>2, <4>3
      <4> QED BY <3>1, <4>3, <4>4 DEF Elems
    <3> QED BY <3>1, <3>2, <3>3, <3>4 DEF QueueInv
  <2>11. RunInv'
    <3>1. \A d \in Commands : cmd[d].st # "running"
      BY <1>1, NumberFacts DEF CmdInv, RunInv
    <3> QED BY <2>1, <2>3, <2>4, <2>5, <3>1, NumberFacts DEF RunInv
  <2>12. LateInv'
    BY <1>1, <1>2, <2>1, <2>3, <2>4, <2>5 DEF CmdInv, LateInv, Serving
  <2> QED BY <2>7, <2>8, <2>9, <2>10, <2>11, <2>12 DEF CmdInv
<1> QED BY <1>3, <1>4

\* Settling what was queued or run: a blocking command stays its caller's.
LEMMA SettleKeeps ==
  ASSUME CmdInv, NEW D \in SUBSET Commands, \A d \in D : cmd[d].st \in {"queued", "running"},
         cmd' = [c \in Commands |-> IF c \in D THEN Settled(c) ELSE cmd[c]],
         UNCHANGED <<pc, mine, opens, connecting, m_ReplayLoopCancel, m_ReplayLoopFinished>>,
         m_RenderQueue' \in Seq(Commands), cur' \in Commands \cup {0}
  PROVE  /\ Data' /\ CallersInv' /\ CommandsInv'
         /\ \A d \in D : cmd'[d].st \in {"released", "freed"}
         /\ \A d \in Commands \ D : cmd'[d] = cmd[d]
<1>1. /\ \A d \in D : cmd'[d] = Settled(d)
      /\ \A d \in Commands \ D : cmd'[d] = cmd[d]
  OBVIOUS
<1>2. ASSUME NEW d \in D
      PROVE  /\ cmd'[d] \in Cmds /\ (cmd'[d].tag # NoTag => cmd'[d].kind = "async")
             /\ cmd[d].kind = "block" => cmd'[d].st = "released" /\ cmd'[d].kind = "block"
             /\ cmd[d].kind # "block" => cmd'[d].st = "freed"
  <2>1. cmd[d] \in Cmds /\ (cmd[d].tag # NoTag => cmd[d].kind = "async")
    BY DEF CmdInv, Data, CommandsInv
  <2>2. CASE cmd[d].kind = "block"
    <3>1. cmd'[d] = [cmd[d] EXCEPT !.st = "released"]
      BY <1>1, <2>2 DEF Settled
    <3>2. cmd'[d] \in Cmds /\ cmd'[d].st = "released" /\ cmd'[d].kind = cmd[d].kind /\ cmd'[d].tag = cmd[d].tag
      BY <2>1, <3>1 DEF Cmds
    <3> QED BY <2>1, <2>2, <3>2
  <2>3. CASE cmd[d].kind # "block"
    <3>1. cmd'[d] = Blank("freed")
      BY <1>1, <2>3 DEF Settled
    <3>2. Blank("freed") \in Cmds /\ Blank("freed").tag = NoTag /\ Blank("freed").st = "freed"
      BY NumberFacts DEF Blank, Cmds, Kinds
    <3> QED BY <2>3, <3>1, <3>2
  <2> QED BY <2>2, <2>3
<1>3. Data'
  <2>1. \A d \in Commands : cmd'[d] \in Cmds
    BY <1>1, <1>2 DEF CmdInv, Data
  <2>2. cmd' \in [Commands -> Cmds]
    BY <2>1
  <2> QED BY <2>2 DEF CmdInv, Data
<1>4. CallersInv'
  <2>1. ASSUME NEW u \in Callers
        PROVE  /\ pc[u] \in Pushing => mine[u] \in Commands /\ cmd'[mine[u]].st = "held"
               /\ pc[u] = "wait" => mine[u] \in Commands /\ cmd'[mine[u]].kind = "block"
                                    /\ cmd'[mine[u]].st \in {"queued", "running", "released"}
    <3>1. pc[u] \in Pushing => mine[u] \in Commands /\ cmd[mine[u]].st = "held" /\ mine[u] \notin D
      BY DEF CmdInv, CallersInv
    <3>2. pc[u] = "wait" => mine[u] \in Commands /\ cmd[mine[u]].kind = "block"
                            /\ cmd[mine[u]].st \in {"queued", "running", "released"}
      BY DEF CmdInv, CallersInv
    <3> QED BY <1>1, <1>2, <3>1, <3>2
  <2> QED BY <2>1 DEF CmdInv, CallersInv
<1>5. CommandsInv'
  <2> SUFFICES ASSUME NEW d \in Commands
               PROVE  /\ cmd'[d].st = "held" => \E u \in Callers : mine'[u] = d /\ pc'[u] \in Pushing
                      /\ cmd'[d].st = "released" => cmd'[d].kind = "block"
                      /\ cmd'[d].kind = "block" /\ cmd'[d].st \in {"queued", "running", "released"}
                           => \E u \in Callers : mine'[u] = d /\ pc'[u] = "wait"
                      /\ cmd'[d].tag # NoTag => cmd'[d].kind = "async"
    BY DEF CommandsInv
  <2>1. CASE d \in D
    <3>1. cmd[d].st \in {"queued", "running"}
      BY <2>1
    <3>2. cmd'[d].st \in {"released", "freed"} /\ (cmd'[d].tag # NoTag => cmd'[d].kind = "async")
      BY <1>2, <2>1
    <3>3. cmd'[d].st = "released" => cmd[d].kind = "block" /\ cmd'[d].kind = "block"
      BY <1>2, <2>1
    <3>4. cmd[d].kind = "block" => \E u \in Callers : mine[u] = d /\ pc[u] = "wait"
      BY <3>1 DEF CmdInv, CommandsInv
    <3> QED BY <3>2, <3>3, <3>4
  <2>2. CASE d \notin D
    BY <1>1, <2>2 DEF CmdInv, CommandsInv
  <2> QED BY <2>1, <2>2
<1>6. \A d \in D : cmd'[d].st \in {"released", "freed"}
  BY <1>2
<1> QED BY <1>1, <1>3, <1>4, <1>5, <1>6

LEMMA RunFinishKeeps == ASSUME CmdInv, pc \in [Callers -> PCs], RunFinish PROVE CmdInv'
<1>1. /\ run = "finish" /\ cur' = 0 /\ run' = "loop" /\ cmd' = [cmd EXCEPT ![cur] = Settled(cur)]
      /\ UNCHANGED <<pc, mine, opens, connecting, m_ReplayLoopCancel, m_ReplayLoopFinished, m_RenderQueue>>
  BY DEF RunFinish, remoteVars, loopVars, callerVars
<1>2. cur \in Commands /\ cmd[cur].st = "running"
  BY <1>1, NumberFacts DEF CmdInv, Data, RunInv
<1> DEFINE D == {cur}
<1>3. cmd' = [c \in Commands |-> IF c \in D THEN Settled(c) ELSE cmd[c]]
  BY <1>1, <1>2 DEF CmdInv, Data
<1>4. D \in SUBSET Commands /\ \A d \in D : cmd[d].st \in {"queued", "running"}
  BY <1>2
<1>5. m_RenderQueue' \in Seq(Commands) /\ cur' \in Commands \cup {0}
  BY <1>1 DEF CmdInv, Data
<1>6. /\ Data' /\ CallersInv' /\ CommandsInv'
      /\ \A d \in D : cmd'[d].st \in {"released", "freed"}
      /\ \A d \in Commands \ D : cmd'[d] = cmd[d]
  <2> HIDE DEF D
  <2> QED BY <1>1, <1>3, <1>4, <1>5, SettleKeeps
<1>7. QueueInv'
  <2>1. \A i \in 1..Len(m_RenderQueue) : m_RenderQueue[i] \in Commands \ D
    BY <1>2, InQueue
  <2>2. \A i \in 1..Len(m_RenderQueue) : cmd'[m_RenderQueue[i]] = cmd[m_RenderQueue[i]]
    BY <1>6, <2>1
  <2>3. \A d \in Commands : cmd'[d].st = "queued" => cmd[d].st = "queued"
    BY <1>6
  <2> QED BY <1>1, <2>2, <2>3 DEF CmdInv, QueueInv, Elems
<1>8. RunInv'
  <2>1. \A d \in Commands : cmd'[d].st # "running"
    BY <1>2, <1>6 DEF CmdInv, RunInv
  <2> QED BY <1>1, <2>1, NumberFacts DEF RunInv
<1>9. LateInv'
  BY <1>1, <1>6 DEF CmdInv, LateInv, Serving
<1> QED BY <1>6, <1>7, <1>8, <1>9 DEF CmdInv

LEMMA RunDrainKeeps == ASSUME CmdInv, pc \in [Callers -> PCs], RunDrain PROVE CmdInv'
<1> DEFINE D == Elems(m_RenderQueue)
<1>1. /\ run = "drain" /\ m_RenderQueue' = <<>> /\ run' = "shut" /\ cur' = cur
      /\ cmd' = [c \in Commands |-> IF c \in D THEN Settled(c) ELSE cmd[c]]
      /\ UNCHANGED <<pc, mine, opens, connecting, m_ReplayLoopCancel, m_ReplayLoopFinished>>
  BY DEF RunDrain, remoteVars, loopVars, callerVars
<1>2. D \in SUBSET Commands /\ \A d \in D : cmd[d].st \in {"queued", "running"}
  BY InQueue DEF Elems
<1>3. m_RenderQueue' \in Seq(Commands) /\ cur' \in Commands \cup {0} /\ Len(m_RenderQueue') = 0
  BY <1>1 DEF CmdInv, Data
<1>4. /\ Data' /\ CallersInv' /\ CommandsInv'
      /\ \A d \in D : cmd'[d].st \in {"released", "freed"}
      /\ \A d \in Commands \ D : cmd'[d] = cmd[d]
  <2> HIDE DEF D
  <2> QED BY <1>1, <1>2, <1>3, SettleKeeps
<1>5. \A d \in Commands : cmd'[d].st # "queued"
  <2>1. \A d \in Commands : cmd[d].st = "queued" => d \in D
    BY DEF CmdInv, QueueInv
  <2> QED BY <1>4, <2>1
<1>6. cur = 0 /\ \A d \in Commands : cmd'[d].st # "running"
  <2>1. cur = 0 /\ \A d \in Commands : cmd[d].st # "running"
    BY <1>1, NumberFacts DEF CmdInv, RunInv
  <2> QED BY <1>4, <2>1
<1>7. QueueInv' /\ RunInv' /\ LateInv'
  BY <1>1, <1>3, <1>5, <1>6, NumberFacts DEF QueueInv, RunInv, LateInv
<1> QED BY <1>4, <1>7 DEF CmdInv

\* The other steps of the replay thread, of the UI and of the connections.
LEMMA OtherReplayKeeps ==
  ASSUME HostInv, CmdInv, RunOpen \/ RunTest \/ RunMethod \/ RunLoopEnds \/ RunShut PROVE CmdInv'
<1>1. UNCHANGED <<cmd, m_RenderQueue, mine, cur, pc, opens, connecting>>
  BY DEF RunOpen, RunTest, RunMethod, RunLoopEnds, RunShut, remoteVars, queueVars, callerVars
<1>2. m_ReplayLoopCancel' \in BOOLEAN /\ m_ReplayLoopFinished' \in BOOLEAN
  BY DEF RunOpen, RunTest, RunMethod, RunLoopEnds, RunShut, loopVars, CmdInv, Data
<1>3. /\ run \in {"exec", "looping", "finish"} <=> run' \in {"exec", "looping", "finish"}
      /\ run \in Serving => run' \in Serving
  BY DEF RunOpen, RunTest, RunMethod, RunLoopEnds, RunShut, Serving
<1>4. opens' \in 0..MaxOpens /\ connecting' \in BOOLEAN
  BY <1>1 DEF CmdInv, Data
<1> QED BY <1>1, <1>2, <1>3, <1>4, CommandsKept

LEMMA OtherStepsKeep ==
  ASSUME HostInv, CmdInv,
         \/ CancelReplayLoop \/ CancelReturn \/ OpenReturn \/ CloseReturn \/ ListReturn \/ OpenCapture
         \/ CloseThread \/ StartConnecting \/ ConnectToRemoteServer \/ DisconnectFromRemoteServer
         \/ ShutdownServer \/ ListFolder
  PROVE  CmdInv'
<1>1. UNCHANGED <<cmd, m_RenderQueue, mine, cur>>
  BY DEF CancelReplayLoop, CancelReturn, OpenReturn, CloseReturn, ListReturn, OpenCapture, CloseThread,
         StartConnecting, ConnectToRemoteServer, DisconnectFromRemoteServer, ShutdownServer, ListFolder,
         queueVars, callerVars, replayVars
<1>2. m_ReplayLoopCancel' \in BOOLEAN /\ m_ReplayLoopFinished' \in BOOLEAN /\ connecting' \in BOOLEAN
  BY DEF CancelReplayLoop, CancelReturn, OpenReturn, CloseReturn, ListReturn, OpenCapture, CloseThread,
         StartConnecting, ConnectToRemoteServer, DisconnectFromRemoteServer, ShutdownServer, ListFolder,
         loopVars, remoteVars, CmdInv, Data
<1>3. \/ pc' = pc
      \/ \E p \in PCs \ (Pushing \cup {"wait"}) : pc' = [pc EXCEPT ![UI] = p] /\ pc[UI] \notin Pushing \cup {"wait"}
  BY DEF CancelReplayLoop, CancelReturn, OpenReturn, CloseReturn, ListReturn, OpenCapture, CloseThread,
         StartConnecting, ConnectToRemoteServer, DisconnectFromRemoteServer, ShutdownServer, ListFolder,
         callerVars, PCs, Pushing
<1>4. \A t \in Callers : \/ pc'[t] = pc[t]
                         \/ pc[t] \notin Pushing \cup {"wait"} /\ pc'[t] \notin Pushing \cup {"wait"}
  BY <1>3 DEF HostInv, Shapes
<1>5. CASE OpenCapture
  <2>1. run \in {"none", "opening"} /\ run' = "opening" /\ opens' = opens + 1 /\ opens < MaxOpens
    BY <1>5 DEF OpenCapture, HostInv, Shapes, ThreadInv
  <2>2. opens' \in 0..MaxOpens
    BY <2>1, NumberFacts DEF CmdInv, Data
  <2> QED BY <1>1, <1>2, <1>4, <2>1, <2>2, CommandsKept DEF Serving
<1>6. CASE ~OpenCapture
  <2>1. run' = run /\ opens' = opens
    BY <1>6 DEF CancelReplayLoop, CancelReturn, OpenReturn, CloseReturn, ListReturn, CloseThread,
         StartConnecting, ConnectToRemoteServer, DisconnectFromRemoteServer, ShutdownServer, ListFolder,
         replayVars
  <2>2. opens' \in 0..MaxOpens
    BY <2>1 DEF CmdInv, Data
  <2> QED BY <1>1, <1>2, <1>4, <2>1, <2>2, CommandsKept
<1> QED BY <1>5, <1>6

LEMMA NextCmdInv == HostInv /\ CmdInv /\ [Next]_vars => CmdInv'
<1> SUFFICES ASSUME HostInv, CmdInv, [Next]_vars PROVE CmdInv'
  OBVIOUS
<1>1. pc \in [Callers -> PCs] /\ UI \in Callers
  BY ConstantFacts DEF HostInv, Shapes
<1>2. CASE Replay
  BY <1>1, <1>2, RunTakeKeeps, RunFinishKeeps, RunDrainKeeps, OtherReplayKeeps DEF Replay
<1>3. ASSUME NEW t \in Callers, Caller(t)  PROVE CmdInv'
  BY <1>1, <1>3, PushCheckKeeps, PushInvokeKeeps, BlockReturnKeeps DEF Caller
<1>4. ASSUME NEW t \in Callers, BlockInvoke(t)  PROVE CmdInv'
  <2>1. "block" \in Kinds /\ NoTag \in Tags \cup {NoTag}
    BY DEF Kinds
  <2> QED BY <1>1, <1>4, <2>1, NewCommandKeeps DEF BlockInvoke
<1>5. ASSUME NEW t \in Callers, NEW tag \in Tags \cup {NoTag}, AsyncInvoke(t, tag)  PROVE CmdInv'
  <2>1. "async" \in Kinds
    BY DEF Kinds
  <2> QED BY <1>1, <1>5, <2>1, NewCommandKeeps DEF AsyncInvoke
<1>6. CASE StartReplayLoop
  <2>1. "loop" \in Kinds /\ NoTag \in Tags \cup {NoTag}
    BY DEF Kinds
  <2> QED BY <1>1, <1>6, <2>1, NewCommandKeeps DEF StartReplayLoop
<1>7. CASE \/ Interface \/ OpenCapture \/ CloseThread \/ StartConnecting \/ ConnectToRemoteServer
           \/ DisconnectFromRemoteServer \/ ShutdownServer \/ ListFolder
  BY <1>7, OtherStepsKeep DEF Interface
<1>8. CASE UNCHANGED vars
  <2>1. UNCHANGED <<cmd, m_RenderQueue, mine, cur, pc, opens, connecting, run, m_ReplayLoopCancel, m_ReplayLoopFinished>>
    BY <1>8 DEF vars, remoteVars, replayVars, callerVars, queueVars, loopVars
  <2>2. /\ opens' \in 0..MaxOpens /\ connecting' \in BOOLEAN
        /\ m_ReplayLoopCancel' \in BOOLEAN /\ m_ReplayLoopFinished' \in BOOLEAN
    BY <2>1 DEF CmdInv, Data
  <2> QED BY <2>1, <2>2, CommandsKept
<1> QED  BY <1>2, <1>3, <1>4, <1>5, <1>6, <1>7, <1>8 DEF Next

LEMMA IInvAlways == Spec => []HostInv /\ []CmdInv
<1>1. Spec => []HostInv
  BY InitInv, NextInv, PTL DEF Spec
<1>2. Spec => []CmdInv
  BY <1>1, InitCmdInv, NextCmdInv, PTL DEF Spec
<1> QED  BY <1>1, <1>2, PTL

\* Types, and a thread that is live exactly while it has something to do.
THEOREM TypeOKAlways == Spec => []TypeOK
<1>1. HostInv /\ CmdInv => TypeOK
  BY DEF HostInv, Shapes, ThreadInv, CmdInv, Data, TypeOK, PCs, Cmds
<1> QED BY <1>1, IInvAlways, PTL

\* However pushing, preempting, running, refusing and draining interleave, a
\* command has one owner: it is deleted once, by whoever must, and a caller
\* that waits in BlockInvoke holds a command that still exists.
THEOREM OneOwnerAlways == Spec => []OneOwner
<1>1. CmdInv => OneOwner
  <2> SUFFICES ASSUME CmdInv PROVE OneOwner
    OBVIOUS
  <2>1. \A i, j \in 1..Len(m_RenderQueue) : /\ cmd[m_RenderQueue[i]].st = "queued"
                                            /\ m_RenderQueue[i] = m_RenderQueue[j] => i = j
    BY DEF CmdInv, QueueInv
  <2>2. \A c \in Commands :
          /\ cmd[c].st = "queued" => c \in Elems(m_RenderQueue)
          /\ cmd[c].st = "running" <=> c = cur
    BY DEF CmdInv, QueueInv, RunInv
  <2>3. \A c \in Commands :
          /\ cmd[c].st = "held" => \E t \in Callers : mine[t] = c /\ pc[t] \in {"check", "push"}
          /\ cmd[c].st = "released" => \E t \in Callers : mine[t] = c /\ pc[t] = "wait"
    BY DEF CmdInv, CommandsInv, Pushing
  <2>4. \A t \in Callers : pc[t] = "wait" => cmd[mine[t]].st \in {"queued", "running", "released"}
    BY DEF CmdInv, CallersInv
  <2> QED BY <2>1, <2>2, <2>3, <2>4 DEF OneOwner
<1> QED BY <1>1, IInvAlways, PTL

\* A command that was queued while the loop it was meant for still ran is never
\* left for the next capture: only one that fell into the gap between the look
\* at m_Running and the lock can be run on another controller.
THEOREM RunsOnItsCaptureAlways == Spec => []RunsOnItsCapture
<1>1. CmdInv => RunsOnItsCapture
  <2> SUFFICES ASSUME CmdInv, cur # 0 PROVE cmd[cur].for = opens \/ cmd[cur].late
    BY DEF RunsOnItsCapture
  <2>1. cur \in Commands /\ cmd[cur].st = "running"
    BY DEF CmdInv, Data, RunInv
  <2> QED BY <2>1 DEF CmdInv, LateInv
<1> QED BY <1>1, IInvAlways, PTL

-----------------------------------------------------------------------------
(* The queue as ReplayManager.h promises it.                                 *)

Waiting == [i \in 1..Len(m_RenderQueue) |->
              [cmd |-> m_RenderQueue[i], tag |-> cmd[m_RenderQueue[i]].tag]]

Outcomes == [c \in Commands |-> Outcome(c)]

\* The whole of a list is what is left when nothing is taken out of it.
LEMMA SublistAll ==
  ASSUME NEW S, NEW s \in Seq(S) PROVE Sublist(s, 1 .. Len(s)) = s
<1> DEFINE n == Len(s)
           P == 1 .. n
<1>1. n \in Nat /\ P \in SUBSET (1 .. n)
  OBVIOUS
<1>2. \A m \in Nat : Cardinality(1 .. m) = m
  <2>1. \A m \in Nat : Cardinality(1 .. m) = IF 1 > m THEN 0 ELSE m - 1 + 1
    BY FS_Interval
  <2> QED BY <2>1
<1>3. ASSUME NEW k \in 1 .. n PROVE Nth(P, k) = k
  <2>1. Nth(P, k) \in P /\ Cardinality(P \cap (1 .. Nth(P, k))) = k
    <3>1. Cardinality(P) = n
      BY <1>1, <1>2
    <3> HIDE DEF P
    <3> QED BY <1>1, <1>3, <3>1, NthMembers
  <2>2. P \cap (1 .. Nth(P, k)) = 1 .. Nth(P, k)
    BY <2>1
  <2>3. Nth(P, k) \in Nat /\ 1 \in Int
    BY <2>1
  <2>4. Cardinality(1 .. Nth(P, k)) = Nth(P, k)
    <3> HIDE DEF P
    <3> QED BY <1>2, <2>3
  <2> QED BY <2>1, <2>2, <2>4
<1>4. Sublist(s, P) = [k \in 1 .. n |-> s[k]]
  <2>1. Cardinality(P) = n
    BY <1>1, <1>2
  <2> HIDE DEF P
  <2> QED BY <1>3, <2>1 DEF Sublist
<1> QED BY <1>1, <1>4

LEMMA TailOf ==
  ASSUME NEW S, NEW s \in Seq(S), s # <<>> PROVE Tail(s) = [i \in 1..(Len(s) - 1) |-> s[i + 1]]
<1> DEFINE r == [i \in 1..(Len(s) - 1) |-> s[i + 1]]
<1>1. Len(s) \in Nat /\ Len(s) > 0 /\ Len(s) - 1 \in Nat
  OBVIOUS
<1>2. \A i \in 1..(Len(s) - 1) : s[i + 1] \in S
  BY <1>1
<1>3. r \in Seq(S) /\ Len(r) = Len(s) - 1 /\ \A i \in 1..(Len(s) - 1) : r[i] = s[i + 1]
  BY <1>1, <1>2
<1>4. /\ Tail(s) \in Seq(S) /\ Len(Tail(s)) = Len(s) - 1
      /\ \A i \in 1..(Len(s) - 1) : Tail(s)[i] = s[i + 1]
  BY <1>1
<1> HIDE DEF r
<1>5. Tail(s) = r
  BY <1>3, <1>4, SeqEqual
<1> QED BY <1>5 DEF r

\* A step that leaves the queue alone, and the tags in it.
LEMMA WaitingKept ==
  ASSUME m_RenderQueue' = m_RenderQueue,
         \A i \in 1..Len(m_RenderQueue) : cmd'[m_RenderQueue[i]].tag = cmd[m_RenderQueue[i]].tag
  PROVE  Waiting' = Waiting
BY DEF Waiting

LEMMA OutcomesKept ==
  ASSUME \A c \in Commands : Outcome(c)' = Outcome(c)
  PROVE  Outcomes' = Outcomes
BY DEF Outcomes

LEMMA RefineInit == Init => Promise!Init
<1> SUFFICES ASSUME Init PROVE Promise!Init
  OBVIOUS
<1>1. Waiting = <<>>
  BY DEF Init, Waiting
<1>2. Outcomes = [c \in Commands |-> "new"]
  <2>1. \A c \in Commands : Outcome(c) = "new"
    BY DEF Init, Outcome, Blank
  <2> QED BY <2>1 DEF Outcomes
<1>3. (run \in Serving) = FALSE
  BY DEF Init, Serving
<1> QED BY <1>1, <1>2, <1>3 DEF Promise!Init, Waiting, Outcomes

\* Making a command preempts what waits with its tag, and nothing without one.
LEMMA RefineNewCommand ==
  ASSUME CmdInv, NEW t \in Callers, NEW kind \in Kinds, NEW tag \in Tags \cup {NoTag},
         NewCommand(t, kind, tag), UNCHANGED replayVars
  PROVE  (Promise!Preempt(tag) /\ tag \in Tags) \/ UNCHANGED (Promise!vars)
<1> DEFINE S == SameTag(tag)
           P == {i \in 1..Len(m_RenderQueue) : m_RenderQueue[i] \notin SameTag(tag)}
<1>1. PICK c \in Commands :
        /\ cmd[c].st = "unused"
        /\ cmd' = [d \in Commands |->
             IF d = c THEN [kind |-> kind, tag |-> tag, for |-> 0, late |-> FALSE, st |-> "held"]
             ELSE IF d \in S THEN Blank("freed") ELSE cmd[d]]
        /\ m_RenderQueue' = Sublist(m_RenderQueue, P)
  BY DEF NewCommand
<1>2. \A d \in S : d \in Commands /\ cmd[d].st = "queued"
  BY InQueue DEF SameTag, Elems
<1>3. \A d \in Commands : Outcome(d)' = IF d \in S THEN "settled" ELSE Outcome(d)
  <2> TAKE d \in Commands
  <2>1. CASE d = c
    <3>1. cmd'[d].st = "held" /\ d \notin S /\ cmd[d].st = "unused"
      BY <1>1, <1>2, <2>1
    <3> QED BY <3>1 DEF Outcome
  <2>2. CASE d \in S
    <3>1. cmd'[d].st = "freed"
      BY <1>1, <1>2, <2>2 DEF Blank
    <3> QED BY <2>2, <3>1 DEF Outcome
  <2>3. CASE d # c /\ d \notin S
    <3>1. cmd'[d] = cmd[d]
      BY <1>1, <2>3
    <3> QED BY <2>3, <3>1 DEF Outcome
  <2> QED BY <2>1, <2>2, <2>3
<1>4. m_RenderQueue \in Seq(Commands)
  BY DEF CmdInv, Data
<1>5. \A i \in P : /\ i \in 1..Len(m_RenderQueue) /\ m_RenderQueue[i] \in Commands
                   /\ cmd'[m_RenderQueue[i]] = cmd[m_RenderQueue[i]]
  BY <1>1, InQueue
<1>6. CASE tag = NoTag
  <2>1. S = {} /\ P = 1..Len(m_RenderQueue)
    BY <1>6 DEF SameTag
  <2>2. m_RenderQueue' = m_RenderQueue
    <3> HIDE DEF P
    <3> QED BY <1>1, <1>4, <2>1, SublistAll
  <2>3. Waiting' = Waiting
    BY <1>5, <2>1, <2>2, WaitingKept
  <2>4. Outcomes' = Outcomes
    BY <1>3, <2>1, OutcomesKept
  <2> QED BY <2>3, <2>4 DEF Promise!vars, Waiting, Outcomes, replayVars
<1>7. CASE tag # NoTag
  <2>1. /\ Len(Waiting) = Len(m_RenderQueue) /\ Len(m_RenderQueue) \in Nat
        /\ \A i \in 1..Len(Waiting) : /\ Waiting[i].tag = cmd[m_RenderQueue[i]].tag
                                      /\ Waiting[i].cmd = m_RenderQueue[i]
                                      /\ Waiting[i] = [cmd |-> m_RenderQueue[i], tag |-> cmd[m_RenderQueue[i]].tag]
    BY <1>4 DEF Waiting
  <2>2. \A i \in 1..Len(m_RenderQueue) : m_RenderQueue[i] \in S <=> Waiting[i].tag = tag
    BY <1>7, <2>1 DEF SameTag, Elems
  <2>3. P = {i \in 1..Len(Waiting) : Waiting[i].tag # tag}
    BY <2>1, <2>2
  <2>4. S = {Waiting[i].cmd : i \in {j \in 1..Len(Waiting) : Waiting[j].tag = tag}}
    <3>1. S = {m_RenderQueue[i] : i \in {j \in 1..Len(m_RenderQueue) : cmd[m_RenderQueue[j]].tag = tag}}
      BY <1>7 DEF SameTag, Elems
    <3>2. {j \in 1..Len(m_RenderQueue) : cmd[m_RenderQueue[j]].tag = tag}
            = {j \in 1..Len(Waiting) : Waiting[j].tag = tag}
      BY <2>1
    <3>3. \A i \in {j \in 1..Len(Waiting) : Waiting[j].tag = tag} : Waiting[i].cmd = m_RenderQueue[i]
      BY <2>1
    <3> HIDE DEF S
    <3> QED BY <3>1, <3>2, <3>3
  <2>5. /\ Len(m_RenderQueue') = Cardinality(P)
        /\ \A k \in 1 .. Cardinality(P) : Nth(P, k) \in P /\ m_RenderQueue'[k] = m_RenderQueue[Nth(P, k)]
    <3>1. P \in SUBSET (1 .. Len(m_RenderQueue)) /\ m_RenderQueue' = Sublist(m_RenderQueue, P)
      BY <1>1
    <3> HIDE DEF P
    <3>2. /\ Len(Sublist(m_RenderQueue, P)) = Cardinality(P)
          /\ \A k \in 1 .. Cardinality(P) :
               Nth(P, k) \in P /\ Sublist(m_RenderQueue, P)[k] = m_RenderQueue[Nth(P, k)]
      BY <1>4, <3>1, SublistMembers
    <3> QED BY <3>1, <3>2
  <2>6. Waiting' = [k \in 1 .. Cardinality(P) |-> Waiting[Nth(P, k)]]
    <3>1. \A k \in 1 .. Cardinality(P) :
            [cmd |-> m_RenderQueue'[k], tag |-> cmd'[m_RenderQueue'[k]].tag] = Waiting[Nth(P, k)]
      BY <1>5, <2>1, <2>5
    <3> HIDE DEF P
    <3> QED BY <2>5, <3>1 DEF Waiting
  <2>7. Waiting' = Sublist(Waiting, {i \in 1..Len(Waiting) : Waiting[i].tag # tag})
    BY <2>3, <2>6 DEF Sublist
  <2>8. Outcomes' = [c_1 \in Commands |-> IF c_1 \in S THEN "settled" ELSE Outcomes[c_1]]
    BY <1>3 DEF Outcomes
  <2>9. Promise!Preempt(tag)
    <3>1. Promise!Sublist(Waiting, {i \in 1..Len(Waiting) : Waiting[i].tag # tag})
            = Sublist(Waiting, {i \in 1..Len(Waiting) : Waiting[i].tag # tag})
      BY DEF Promise!Sublist, Promise!Nth, Promise!Cardinality, Sublist, Nth, Cardinality
    <3>2. (run \in Serving)' = (run \in Serving)
      BY DEF replayVars
    <3> HIDE DEF S, P
    <3> QED BY <2>4, <2>7, <2>8, <3>1, <3>2 DEF Promise!Preempt, Promise!Resolve, Waiting, Outcomes
  <2> QED BY <1>7, <2>9
<1> QED BY <1>6, <1>7

\* A caller is refused, submits, or goes on with what has been settled.
LEMMA RefineCaller ==
  ASSUME CmdInv, NEW t \in Callers, Caller(t) PROVE [Promise!Next]_(Promise!vars)
<1> DEFINE c == mine[t]
<1>1. UNCHANGED replayVars /\ (run \in Serving)' = (run \in Serving)
  BY DEF Caller, PushCheck, PushInvoke, BlockReturn, replayVars
<1>2. c \in Commands /\ cmd[c] \in Cmds
  BY DEF Caller, PushCheck, PushInvoke, BlockReturn, CmdInv, CallersInv, Pushing, Data
<1>3. cmd \in [Commands -> Cmds] /\ m_RenderQueue \in Seq(Commands)
  BY DEF CmdInv, Data
<1>4. CASE PushCheck(t)
  <2>1. cmd[c].st = "held" /\ Outcome(c) = "new" /\ m_RenderQueue' = m_RenderQueue
    BY <1>4 DEF PushCheck, CmdInv, CallersInv, Pushing, Outcome
  <2>2. \A i \in 1..Len(m_RenderQueue) : m_RenderQueue[i] \in Commands /\ m_RenderQueue[i] # c
    BY <2>1, InQueue
  <2>3. \A d \in Commands : d # c => cmd'[d] = cmd[d]
    BY <1>3, <1>4 DEF PushCheck
  <2>4. Waiting' = Waiting
    BY <2>1, <2>2, <2>3, WaitingKept
  <2>5. CASE IsRunning
    <3>1. cmd'[c] = [cmd[c] EXCEPT !.for = opens]
      BY <1>2, <1>3, <1>4, <2>5 DEF PushCheck
    <3>2. cmd'[c].st = cmd[c].st
      BY <1>2, <3>1 DEF Cmds
    <3>3. Outcomes' = Outcomes
      BY <2>3, <3>2, OutcomesKept DEF Outcome
    <3> QED BY <1>1, <2>4, <3>3 DEF Promise!vars, Waiting, Outcomes
  <2>6. CASE ~IsRunning
    <3>1. cmd'[c] = Settled(c)
      BY <1>2, <1>3, <1>4, <2>6 DEF PushCheck
    <3>2. cmd'[c].st \in {"released", "freed"}
      BY <1>2, <3>1 DEF Settled, Blank, Cmds
    <3>3. \A d \in Commands : Outcome(d)' = IF d \in {c} THEN "settled" ELSE Outcome(d)
      BY <2>3, <3>2 DEF Outcome
    <3>4. Outcomes' = [d \in Commands |-> IF d \in {c} THEN "settled" ELSE Outcomes[d]] /\ Outcomes[c] = "new"
      BY <1>2, <2>1, <3>3 DEF Outcomes
    <3>5. Promise!Refuse(c)
      BY <1>1, <2>4, <3>4 DEF Promise!Refuse, Promise!Resolve, Waiting, Outcomes
    <3> QED BY <1>2, <3>5 DEF Promise!Next
  <2> QED BY <2>5, <2>6
<1>5. CASE PushInvoke(t)
  <2>1. cmd[c].st = "held" /\ Outcome(c) = "new" /\ m_RenderQueue' = Append(m_RenderQueue, c)
    BY <1>5 DEF PushInvoke, CmdInv, CallersInv, Pushing, Outcome
  <2>2. \A d \in Commands : d # c => cmd'[d] = cmd[d]
    BY <1>3, <1>5 DEF PushInvoke
  <2>3. cmd'[c] = [cmd[c] EXCEPT !.st = "queued", !.late = run \notin Serving \/ cmd[c].for # opens]
    BY <1>2, <1>3, <1>5 DEF PushInvoke
  <2>4. cmd'[c].st = "queued" /\ cmd'[c].tag = cmd[c].tag
    BY <1>2, <2>3 DEF Cmds
  <2>5. Waiting' = Append(Waiting, [cmd |-> c, tag |-> cmd[c].tag])
    <3> DEFINE n == Len(m_RenderQueue)
    <3>1. /\ n \in Nat /\ Len(m_RenderQueue') = n + 1 /\ m_RenderQueue'[n + 1] = c
          /\ \A i \in 1..n : m_RenderQueue'[i] = m_RenderQueue[i]
      BY <1>2, <1>3, <2>1
    <3>2. \A i \in 1..n : m_RenderQueue[i] \in Commands /\ m_RenderQueue[i] # c
      BY <2>1, InQueue
    <3>3. \A i \in 1..(n + 1) :
            [cmd |-> m_RenderQueue'[i], tag |-> cmd'[m_RenderQueue'[i]].tag]
              = IF i = n + 1 THEN [cmd |-> c, tag |-> cmd[c].tag] ELSE Waiting[i]
      <4> SUFFICES ASSUME NEW i \in 1..(n + 1)
                   PROVE  [cmd |-> m_RenderQueue'[i], tag |-> cmd'[m_RenderQueue'[i]].tag]
                            = IF i = n + 1 THEN [cmd |-> c, tag |-> cmd[c].tag] ELSE Waiting[i]
        OBVIOUS
      <4>1. CASE i = n + 1
        BY <2>4, <3>1, <4>1
      <4>2. CASE i # n + 1
        <5>1. i \in 1..n
          BY <3>1, <4>2
        <5>2. Waiting[i] = [cmd |-> m_RenderQueue[i], tag |-> cmd[m_RenderQueue[i]].tag]
          BY <5>1 DEF Waiting
        <5>3. m_RenderQueue'[i] = m_RenderQueue[i] /\ cmd'[m_RenderQueue[i]] = cmd[m_RenderQueue[i]]
          BY <2>2, <3>1, <3>2, <5>1
        <5> QED BY <4>2, <5>2, <5>3
      <4> QED BY <4>1, <4>2
    <3>4. Waiting' = [i \in 1..(n + 1) |-> IF i = n + 1 THEN [cmd |-> c, tag |-> cmd[c].tag] ELSE Waiting[i]]
      BY <3>1, <3>3 DEF Waiting
    <3>5. Len(Waiting) = n /\ Waiting \in Seq([cmd : Commands, tag : {cmd[d].tag : d \in Commands}])
      BY <3>1, <3>2 DEF Waiting
    <3> HIDE DEF n
    <3> QED BY <3>1, <3>4, <3>5
  <2>6. \A d \in Commands : Outcome(d)' = IF d \in {c} THEN "waiting" ELSE Outcome(d)
    BY <2>2, <2>4 DEF Outcome
  <2>7. Outcomes' = [d \in Commands |-> IF d \in {c} THEN "waiting" ELSE Outcomes[d]] /\ Outcomes[c] = "new"
    BY <1>2, <2>1, <2>6 DEF Outcomes
  <2>8. Promise!Submit(c, cmd[c].tag)
    BY <1>1, <2>5, <2>7 DEF Promise!Submit, Promise!Resolve, Waiting, Outcomes
  <2>9. cmd[c].tag \in Tags \cup {NoTag}
    BY <1>2 DEF Cmds
  <2> QED BY <1>2, <2>8, <2>9 DEF Promise!Next, Promise!Submit
<1>6. CASE BlockReturn(t)
  <2>1. cmd[c].st = "released" /\ m_RenderQueue' = m_RenderQueue /\ cmd'[c] = Blank("freed")
    BY <1>2, <1>3, <1>6 DEF BlockReturn
  <2>2. \A d \in Commands : d # c => cmd'[d] = cmd[d]
    BY <1>3, <1>6 DEF BlockReturn
  <2>3. \A i \in 1..Len(m_RenderQueue) : m_RenderQueue[i] \in Commands /\ m_RenderQueue[i] # c
    BY <2>1, InQueue
  <2>4. Waiting' = Waiting
    BY <2>1, <2>2, <2>3, WaitingKept
  <2>5. Outcomes' = Outcomes
    BY <2>1, <2>2, OutcomesKept DEF Outcome, Blank
  <2> QED BY <1>1, <2>4, <2>5 DEF Promise!vars, Waiting, Outcomes
<1> QED BY <1>4, <1>5, <1>6 DEF Caller

\* A step that leaves the commands and the queue alone opens, or changes nothing.
LEMMA RefineElsewhere ==
  ASSUME UNCHANGED <<cmd, m_RenderQueue>>, run' \in Serving \/ run \notin Serving
  PROVE  [Promise!Next]_(Promise!vars)
<1>1. Waiting' = Waiting
  BY WaitingKept
<1>2. Outcomes' = Outcomes
  BY OutcomesKept DEF Outcome
<1>3. CASE run \in Serving \/ run' \notin Serving
  <2>1. (run \in Serving)' = (run \in Serving)
    BY <1>3
  <2> QED BY <1>1, <1>2, <2>1 DEF Promise!vars, Waiting, Outcomes
<1>4. CASE run \notin Serving /\ run' \in Serving
  <2>1. Promise!Open
    BY <1>1, <1>2, <1>4 DEF Promise!Open, Waiting, Outcomes
  <2> QED BY <2>1 DEF Promise!Next
<1> QED BY <1>3, <1>4

\* The replay thread starts the oldest, finishes what it started, and drains.
LEMMA RefineReplay ==
  ASSUME CmdInv, Replay PROVE [Promise!Next]_(Promise!vars)
<1>1. cmd \in [Commands -> Cmds] /\ m_RenderQueue \in Seq(Commands) /\ Len(m_RenderQueue) \in Nat
  BY DEF CmdInv, Data
<1>2. \A i \in 1..Len(m_RenderQueue) : /\ m_RenderQueue[i] \in Commands
                                       /\ cmd[m_RenderQueue[i]].st = "queued"
  BY InQueue
<1>3. CASE RunOpen \/ RunTest \/ RunMethod \/ RunLoopEnds \/ RunShut
  <2>1. UNCHANGED <<cmd, m_RenderQueue>>
    BY <1>3 DEF RunOpen, RunTest, RunMethod, RunLoopEnds, RunShut, queueVars
  <2>2. run' \in Serving \/ run \notin Serving
    BY <1>3 DEF RunOpen, RunTest, RunMethod, RunLoopEnds, RunShut, Serving
  <2> QED BY <2>1, <2>2, RefineElsewhere
<1>4. CASE RunTake
  <2>1. run \in Serving /\ run' \in Serving /\ run = "take"
    BY <1>4 DEF RunTake, Serving
  <2>2. CASE m_RenderQueue = <<>>
    <3>1. UNCHANGED <<cmd, m_RenderQueue>>
      BY <1>4, <2>2 DEF RunTake
    <3> QED BY <2>1, <3>1, RefineElsewhere
  <2>3. CASE m_RenderQueue # <<>>
    <3> DEFINE c == Head(m_RenderQueue)
               n == Len(m_RenderQueue)
    <3>1. /\ n > 0 /\ c = m_RenderQueue[1] /\ Len(Tail(m_RenderQueue)) = n - 1
          /\ \A i \in 1..(n - 1) : Tail(m_RenderQueue)[i] = m_RenderQueue[i + 1]
      BY <1>1, <2>3
    <3>2. m_RenderQueue' = Tail(m_RenderQueue) /\ cmd' = [cmd EXCEPT ![c] = [cmd[c] EXCEPT !.st = "running"]]
      BY <1>4, <2>3 DEF RunTake
    <3>3. c \in Commands /\ cmd[c].st = "queued" /\ cmd[c] \in Cmds
      BY <1>1, <1>2, <3>1
    <3>4. /\ cmd'[c].st = "running" /\ cmd'[c].tag = cmd[c].tag
          /\ \A d \in Commands : d # c => cmd'[d] = cmd[d]
      BY <1>1, <3>2, <3>3 DEF Cmds
    <3>5. \A d \in Commands : cmd'[d].tag = cmd[d].tag
      BY <3>4
    <3> HIDE DEF c
    <3>6. \A d \in Commands : Outcome(d)' = IF d \in {c} THEN "running" ELSE Outcome(d)
      BY <3>4 DEF Outcome
    <3>7. Outcomes' = [d \in Commands |-> IF d \in {c} THEN "running" ELSE Outcomes[d]]
      BY <3>6 DEF Outcomes
    <3>8. \A d \in Commands : Outcomes[d] # "running"
      <4>1. \A d \in Commands : cmd[d].st # "running"
        BY <2>1, NumberFacts DEF CmdInv, RunInv
      <4> QED BY <4>1 DEF Outcomes, Outcome
    <3>9. /\ Waiting \in Seq([cmd : Commands, tag : {cmd[d].tag : d \in Commands}]) /\ Len(Waiting) = n
          /\ Waiting[1] = [cmd |-> c, tag |-> cmd[c].tag]
      BY <1>1, <1>2, <3>1 DEF Waiting
    <3>10. Waiting # <<>> /\ Head(Waiting).cmd = c
      BY <3>1, <3>9
    <3>11. Waiting' = Tail(Waiting)
      <4>1. \A i \in 1..(n - 1) :
              [cmd |-> m_RenderQueue'[i], tag |-> cmd'[m_RenderQueue'[i]].tag] = Waiting[i + 1]
        <5> TAKE i \in 1..(n - 1)
        <5>1. i + 1 \in 1..n
          BY <1>1
        <5>2. m_RenderQueue'[i] = m_RenderQueue[i + 1] /\ cmd'[m_RenderQueue[i + 1]].tag = cmd[m_RenderQueue[i + 1]].tag
          BY <1>2, <3>1, <3>2, <3>5, <5>1
        <5> QED BY <5>1, <5>2 DEF Waiting
      <4>2. Waiting' = [i \in 1..(n - 1) |-> Waiting[i + 1]]
        BY <3>1, <3>2, <4>1 DEF Waiting
      <4>3. Tail(Waiting) = [i \in 1..(Len(Waiting) - 1) |-> Waiting[i + 1]]
        BY <3>9, <3>10, TailOf
      <4> QED BY <3>9, <4>2, <4>3
    <3>12. Promise!Start
      BY <2>1, <3>7, <3>8, <3>10, <3>11 DEF Promise!Start, Promise!Resolve, Waiting, Outcomes
    <3> QED BY <3>12 DEF Promise!Next
  <2> QED BY <2>2, <2>3
<1>5. CASE RunFinish
  <2>1. /\ run = "finish" /\ run' = "loop" /\ cmd' = [cmd EXCEPT ![cur] = Settled(cur)]
        /\ m_RenderQueue' = m_RenderQueue
    BY <1>5 DEF RunFinish
  <2>2. cur \in Commands /\ cmd[cur].st = "running" /\ cmd[cur] \in Cmds
    BY <1>1, <2>1, NumberFacts DEF CmdInv, Data, RunInv
  <2>3. cmd'[cur] = Settled(cur) /\ \A d \in Commands : d # cur => cmd'[d] = cmd[d]
    BY <1>1, <2>1, <2>2
  <2>4. cmd'[cur].st \in {"released", "freed"}
    BY <2>2, <2>3 DEF Settled, Blank, Cmds
  <2>5. Waiting' = Waiting
    <3>1. \A i \in 1..Len(m_RenderQueue) : m_RenderQueue[i] # cur /\ m_RenderQueue[i] \in Commands
      BY <1>2, <2>2
    <3> QED BY <2>1, <2>3, <3>1, WaitingKept
  <2>6. \A d \in Commands : Outcome(d)' = IF d \in {cur} THEN "settled" ELSE Outcome(d)
    BY <2>3, <2>4 DEF Outcome
  <2>7. /\ Outcomes' = [d \in Commands |-> IF d \in {cur} THEN "settled" ELSE Outcomes[d]]
        /\ Outcomes[cur] = "running"
    BY <2>2, <2>6 DEF Outcomes, Outcome
  <2>8. (run \in Serving)' = (run \in Serving)
    BY <2>1 DEF Serving
  <2>9. Promise!Finish(cur)
    BY <2>5, <2>7, <2>8 DEF Promise!Finish, Promise!Resolve, Waiting, Outcomes
  <2> QED BY <2>2, <2>9 DEF Promise!Next
<1>6. CASE RunDrain
  <2>1. /\ run = "drain" /\ run' = "shut" /\ m_RenderQueue' = <<>>
        /\ cmd' = [c \in Commands |-> IF c \in Elems(m_RenderQueue) THEN Settled(c) ELSE cmd[c]]
    BY <1>6 DEF RunDrain
  <2>2. \A c \in Commands : cmd[c].st # "running" /\ (c \in Elems(m_RenderQueue) <=> cmd[c].st = "queued")
    <3>1. \A c \in Commands : cmd[c].st # "running"
      BY <2>1, NumberFacts DEF CmdInv, RunInv
    <3>2. \A c \in Commands : cmd[c].st = "queued" => c \in Elems(m_RenderQueue)
      BY DEF CmdInv, QueueInv
    <3> QED BY <1>2, <3>1, <3>2 DEF Elems
  <2>3. \A c \in Commands : Outcome(c) # "running" /\ (Outcome(c) = "waiting" <=> cmd[c].st = "queued")
    BY <2>2 DEF Outcome
  <2>4. \A c \in Commands : Outcome(c)' = IF Outcome(c) = "waiting" THEN "settled" ELSE Outcome(c)
    <3> TAKE c \in Commands
    <3>1. CASE cmd[c].st = "queued"
      <4>1. cmd'[c] = Settled(c) /\ cmd[c] \in Cmds
        BY <1>1, <2>1, <2>2, <3>1
      <4>2. cmd'[c].st \in {"released", "freed"}
        BY <4>1 DEF Settled, Blank, Cmds
      <4> QED BY <2>3, <3>1, <4>2 DEF Outcome
    <3>2. CASE cmd[c].st # "queued"
      <4>1. cmd'[c] = cmd[c]
        BY <2>1, <2>2, <3>2
      <4> QED BY <2>3, <3>2, <4>1 DEF Outcome
    <3> QED BY <3>1, <3>2
  <2>5. /\ \A c \in Commands : Outcomes[c] # "running"
        /\ Outcomes' = [c \in Commands |-> IF c \in {d \in Commands : Outcomes[d] = "waiting"}
                                           THEN "settled" ELSE Outcomes[c]]
    BY <2>3, <2>4 DEF Outcomes
  <2>6. Waiting' = <<>>
    BY <2>1 DEF Waiting
  <2>7. run \in Serving /\ (run \in Serving)' = FALSE
    BY <2>1 DEF Serving
  <2>8. Promise!Close
    BY <2>5, <2>6, <2>7 DEF Promise!Close, Promise!Resolve, Waiting, Outcomes
  <2> QED BY <2>8 DEF Promise!Next
<1> QED BY <1>3, <1>4, <1>5, <1>6 DEF Replay

LEMMA RefineStep == ASSUME HostInv, CmdInv, [Next]_vars PROVE [Promise!Next]_(Promise!vars)
<1>1. CASE Replay
  BY <1>1, RefineReplay
<1>2. ASSUME NEW t \in Callers, Caller(t)  PROVE [Promise!Next]_(Promise!vars)
  BY <1>2, RefineCaller
<1>3. ASSUME NEW t \in Callers, NEW kind \in Kinds, NEW tag \in Tags \cup {NoTag},
             NewCommand(t, kind, tag), UNCHANGED replayVars
      PROVE  [Promise!Next]_(Promise!vars)
  BY <1>3, RefineNewCommand DEF Promise!Next
<1>4. ASSUME NEW t \in Callers, BlockInvoke(t)  PROVE [Promise!Next]_(Promise!vars)
  BY <1>3, <1>4 DEF BlockInvoke, Kinds
<1>5. ASSUME NEW t \in Callers, NEW tag \in Tags \cup {NoTag}, AsyncInvoke(t, tag)
      PROVE  [Promise!Next]_(Promise!vars)
  BY <1>3, <1>5 DEF AsyncInvoke, Kinds
<1>6. CASE StartReplayLoop
  BY <1>3, <1>6, ConstantFacts DEF StartReplayLoop, Kinds
<1>7. CASE \/ Interface \/ OpenCapture \/ CloseThread \/ StartConnecting \/ ConnectToRemoteServer
           \/ DisconnectFromRemoteServer \/ ShutdownServer \/ ListFolder \/ UNCHANGED vars
  <2>1. UNCHANGED <<cmd, m_RenderQueue>>
    BY <1>7 DEF Interface, CancelReplayLoop, CancelReturn, OpenReturn, CloseReturn, ListReturn, OpenCapture,
         CloseThread, StartConnecting, ConnectToRemoteServer, DisconnectFromRemoteServer, ShutdownServer,
         ListFolder, vars, queueVars
  <2>2. run' = run \/ run \notin Serving
    BY <1>7 DEF Interface, CancelReplayLoop, CancelReturn, OpenReturn, CloseReturn, ListReturn, OpenCapture,
         CloseThread, StartConnecting, ConnectToRemoteServer, DisconnectFromRemoteServer, ShutdownServer,
         ListFolder, vars, replayVars, HostInv, ThreadInv
  <2>3. run' \in Serving \/ run \notin Serving
    BY <2>2
  <2> QED BY <2>1, <2>3, RefineElsewhere
<1> QED BY <1>1, <1>2, <1>4, <1>5, <1>6, <1>7 DEF Next

\* The queue behind its lock, with callers that look at m_Running before they
\* take it and a thread that drains it, does what ReplayManager.h says of
\* commands: the oldest first, one at a time and only while a capture is open,
\* preempted by tag only, and nothing kept by a close.
THEOREM ImplementsQueue == Spec => RefinesQueue
<1>1. HostInv /\ CmdInv /\ [Next]_vars => [Promise!Next]_(Promise!vars)
  BY RefineStep
<1> QED BY <1>1, RefineInit, IInvAlways, PTL DEF Spec, RefinesQueue, Promise!Spec

=============================================================================
