------------------------ MODULE TargetControlProofs ------------------------
(***************************************************************************)
(* Target control serves one controller at a time, and a capture's id      *)
(* means the same capture to both ends, and only what was asked for is     *)
(* marked retrieved, for any connections, versions, captures and requests. *)
(*                                                                         *)
(* OneController is not inductive: what keeps a second client thread from  *)
(* being started is that the name and the thread go together (a name that  *)
(* is set belongs to a thread that runs), and that the server, when it is  *)
(* about to claim the name, has seen it empty or has joined the thread.    *)
(* IdsAgree rests on it: the list of captures is pruned by a client thread *)
(* that has told nothing yet, and no other is running.                     *)
(*                                                                         *)
(* OnlyAskedRetrieved rests on IdsAgree and on what travels: a request is  *)
(* an index of the controller's list, which the messages not yet read make *)
(* up to the list its client thread has told of.                           *)
(***************************************************************************)
EXTENDS TargetControl, FiniteSetTheorems, WellFoundedInduction, TLAPS

ServerShape ==
  /\ server = [pc |-> server.pc, client |-> server.client, kick |-> server.kick,
               clientThread |-> server.clientThread]
  /\ ServerAt("claim") \/ ServerAt("join") \/ ServerAt("kick") \/ ServerAt("look")
     \/ ServerAt("greet") \/ ServerAt("busy") => server.client \in Conns

ThreadShape == thread \in [Conns -> {"none", "hello", "setup", "loop", "serve", "leave", "drop", "gone"}]

\* A client thread that runs holds the name, and the server knows it.
RunnerHoldsName ==
  \A c \in Conns : InService(c) => /\ m_SingleClientName = c
                                   /\ ~ServerAt("gone") => server.clientThread = c

\* A name that is set is that of a thread that runs.
NameHasRunner ==
  m_SingleClientName # NoConn => m_SingleClientName \in Conns /\ InService(m_SingleClientName)

\* The server claims the name only while nobody has it.
ClaimsFreeName == ServerAt("claim") => m_SingleClientName = NoConn

SlotInv == ServerShape /\ ThreadShape /\ RunnerHoldsName /\ NameHasRunner /\ ClaimsFreeName

LEMMA InitSlot == ASSUME Init PROVE SlotInv
  BY TargetAssumption DEF Init, SlotInv, ServerShape, ThreadShape, RunnerHoldsName, NameHasRunner, ClaimsFreeName, InService, ServerAt

\* The steps of the server thread.
LEMMA ServerSlot == ASSUME SlotInv, Server PROVE SlotInv'
<1> USE TargetAssumption DEF SlotInv, ServerShape, ThreadShape, RunnerHoldsName, NameHasRunner, ClaimsFreeName, InService, ServerAt
<1>1. ASSUME NEW c \in Conns, AcceptClient(c) PROVE SlotInv'
  BY <1>1 DEF AcceptClient, slotVars, threadVars
<1>2. CASE ReadHandshake
  BY <1>2 DEF ReadHandshake, Reject, NextTurn, slotVars, threadVars
<1>3. CASE HandshakeFails
  BY <1>3 DEF HandshakeFails, Reject, NextTurn, slotVars, threadVars
<1>4. CASE LookForClient
  BY <1>4 DEF LookForClient, slotVars, threadVars
<1>5. CASE KickClient
  BY <1>5 DEF KickClient, threadVars
<1>6. CASE JoinKicked
  BY <1>6 DEF JoinKicked, Joined, At, threadVars
<1>7. CASE SpawnClientThread
  BY <1>7 DEF SpawnClientThread, Goto, NextTurn
<1>8. CASE SendBusy
  BY <1>8 DEF SendBusy, Reject, NextTurn, slotVars, threadVars
<1>9. CASE StopServer
  BY <1>9 DEF StopServer, threadVars
<1> QED BY <1>1, <1>2, <1>3, <1>4, <1>5, <1>6, <1>7, <1>8, <1>9 DEF Server

\* A client thread that goes on running changes neither the name nor the server.
LEMMA StaysInService ==
  ASSUME SlotInv, NEW c \in Conns, InService(c),
         NEW pc \in {"setup", "loop", "serve", "leave", "drop"},
         thread' = [thread EXCEPT ![c] = pc],
         UNCHANGED <<m_SingleClientName, server>>
  PROVE  SlotInv'
  BY DEF SlotInv, ServerShape, ThreadShape, RunnerHoldsName, NameHasRunner, ClaimsFreeName, InService, ServerAt

LEMMA ThreadSlot == ASSUME SlotInv, NEW c \in Conns, ClientThread(c) PROVE SlotInv'
<1>1. CASE SendHandshake(c)
  BY <1>1, StaysInService DEF SendHandshake, Goto, Hangup, AfterHello, At, InService, slotVars
<1>2. CASE SetUp(c)
  BY <1>2, StaysInService DEF SetUp, Goto, At, InService, slotVars
<1>3. CASE LeaveLoop(c)
  BY <1>3, StaysInService DEF LeaveLoop, Goto, Hangup, At, InService, slotVars
<1>4. CASE Report(c)
  BY <1>4, StaysInService DEF Report, Goto, Hangup, At, InService, slotVars
<1>5. CASE Serve(c)
  <2>1. \E pc \in {"loop", "leave"} : thread' = [thread EXCEPT ![c] = pc]
    BY <1>5 DEF Serve, ServeCommand, ServeDelete, ServeCopy, Goto, Hangup
  <2> QED BY <1>5, <2>1, StaysInService DEF Serve, At, InService, slotVars
<1>6. CASE ServeNothing(c)
  BY <1>6, StaysInService DEF ServeNothing, Goto, At, InService, slotVars
<1>7. CASE GiveUpName(c)
  BY <1>7, TargetAssumption DEF GiveUpName, Goto, At, SlotInv, ServerShape, ThreadShape, RunnerHoldsName,
                                NameHasRunner, ClaimsFreeName, InService, ServerAt
<1> QED BY <1>1, <1>2, <1>3, <1>4, <1>5, <1>6, <1>7 DEF ClientThread

\* Nothing else touches the name, the server or a client thread.
LEMMA OthersSlot ==
  ASSUME SlotInv, UNCHANGED <<m_SingleClientName, server, thread>> PROVE SlotInv'
  BY DEF SlotInv, ServerShape, ThreadShape, RunnerHoldsName, NameHasRunner, ClaimsFreeName, InService, ServerAt

LEMMA ControllerSlot ==
  ASSUME NEW c \in Conns, Controller(c) PROVE UNCHANGED <<m_SingleClientName, server, thread>>
  BY DEF Controller, Connect, SayHello, Receive, Disconnected, SendCommand, AskFor, Request, Close, slotVars, threadVars

LEMMA ProgramSlot == ASSUME Program PROVE UNCHANGED <<m_SingleClientName, server, thread>>
  BY DEF Program, ListCapture, DeleteFile, SetDriver, AddChildProcess, ShowReplayUI, RemoveHooks,
         HooksRemoved, SetWindowCount, SetProgress, slotVars, threadVars

LEMMA SlotKept == ASSUME SlotInv, [Next]_vars PROVE SlotInv'
<1>1. CASE Server
  BY <1>1, ServerSlot
<1>2. CASE Program
  BY <1>2, ProgramSlot, OthersSlot
<1>3. ASSUME NEW c \in Conns, ClientThread(c) PROVE SlotInv'
  BY <1>3, ThreadSlot
<1>4. ASSUME NEW c \in Conns, Controller(c) PROVE SlotInv'
  BY <1>4, ControllerSlot, OthersSlot
<1>5. CASE UNCHANGED vars
  BY <1>5, OthersSlot DEF vars, slotVars, threadVars
<1> QED BY <1>1, <1>2, <1>3, <1>4, <1>5 DEF Next

\* At most one client thread serves a controller, and it holds m_SingleClientName: the
\* server thread's look at the name, its kick and its join leave no way to start a second.
THEOREM OneControllerAlways == Spec => []OneController
<1>1. Init => SlotInv
  BY InitSlot
<1>2. SlotInv /\ [Next]_vars => SlotInv'
  BY SlotKept
<1>3. SlotInv => OneController
  BY DEF SlotInv, RunnerHoldsName, OneController
<1> QED BY <1>1, <1>2, <1>3, PTL DEF Spec

-----------------------------------------------------------------------------
(* What ValidateCaptures keeps.                                            *)

\* How many of the numbers up to i are in a set grows by one at its members.
LEMMA CountGrows ==
  ASSUME NEW n \in Nat, NEW K \in SUBSET (1 .. n), NEW i \in Nat \ {0}
  PROVE  /\ Cardinality(K \cap (1 .. i)) \in Nat
         /\ Cardinality(K \cap (1 .. i)) =
              Cardinality(K \cap (1 .. i - 1)) + (IF i \in K THEN 1 ELSE 0)
<1>1. \A j \in Nat : IsFiniteSet(K \cap (1 .. j)) /\ Cardinality(K \cap (1 .. j)) \in Nat
  <2> TAKE j \in Nat
  <2>1. IsFiniteSet(1 .. j)
    BY FS_Interval
  <2>2. K \cap (1 .. j) \in SUBSET (1 .. j)
    OBVIOUS
  <2>3. IsFiniteSet(K \cap (1 .. j))
    BY <2>1, <2>2, FS_Subset
  <2> QED BY <2>3, FS_CardinalityType
<1>2. i - 1 \in Nat
  OBVIOUS
<1>3. CASE i \in K
  <2>1. K \cap (1 .. i) = (K \cap (1 .. i - 1)) \cup {i}
    BY <1>3
  <2>2. i \notin K \cap (1 .. i - 1)
    OBVIOUS
  <2> QED BY <1>1, <1>2, <1>3, <2>1, <2>2, FS_AddElement
<1>4. CASE i \notin K
  <2>1. K \cap (1 .. i) = K \cap (1 .. i - 1)
    BY <1>4
  <2> QED BY <1>1, <1>2, <1>4, <2>1
<1> QED BY <1>3, <1>4

\* A set of numbers has a member that is its k-th.
LEMMA KthMember ==
  ASSUME NEW n \in Nat, NEW K \in SUBSET (1 .. n), NEW k \in 1 .. Cardinality(K)
  PROVE  \E i \in K : Cardinality(K \cap (1 .. i)) = k
<1> DEFINE Count(i) == Cardinality(K \cap (1 .. i))
           Enough   == {i \in Nat : Count(i) >= k}
<1>1. Cardinality(K) \in Nat
  <2>1. IsFiniteSet(1 .. n)
    BY FS_Interval
  <2>2. IsFiniteSet(K)
    BY <2>1, FS_Subset
  <2> QED BY <2>2, FS_CardinalityType
<1>2. n \in Enough
  <2>1. K \cap (1 .. n) = K
    OBVIOUS
  <2> QED BY <1>1, <2>1
<1>3. PICK m \in Enough : \A j \in Enough : ~ (<<j, m>> \in OpToRel(<, Nat))
  <2>1. Enough \subseteq Nat /\ Enough # {}
    BY <1>2
  <2> HIDE DEF Enough
  <2> QED BY <2>1, NatLessThanWellFounded, WFMin
<1>4. \A j \in Enough : ~ (j < m)
  BY <1>3 DEF OpToRel
<1>5. m # 0
  <2>1. K \cap (1 .. 0) = {}
    OBVIOUS
  <2>2. Count(0) = 0
    BY <2>1, FS_EmptySet
  <2> QED BY <2>2
<1>6. m - 1 \in Nat /\ m - 1 \notin Enough
  BY <1>4, <1>5
<1>7. Count(m - 1) \in Nat
  <2>1. CASE m - 1 = 0
    <3>1. K \cap (1 .. 0) = {}
      OBVIOUS
    <3> QED BY <2>1, <3>1, FS_EmptySet
  <2>2. CASE m - 1 # 0
    BY <2>2, <1>6, CountGrows
  <2> QED BY <2>1, <2>2
<1>8. Count(m) = Count(m - 1) + (IF m \in K THEN 1 ELSE 0) /\ Count(m) \in Nat
  BY <1>5, <1>6, CountGrows
<1>9. m \in K /\ Count(m) = k
  BY <1>1, <1>6, <1>7, <1>8
<1> QED BY <1>9

\* Pruning leaves a list of captures.
LEMMA ExistingIsList ==
  ASSUME NEW S, m_Captures \in Seq(S)
  PROVE  Existing \in Seq(S)
<1>1. Kept \in SUBSET (1 .. Len(m_Captures)) /\ Len(m_Captures) \in Nat
  BY DEF Kept
<1>2. IsFiniteSet(1 .. Len(m_Captures))
  BY <1>1, FS_Interval
<1>3. IsFiniteSet(Kept)
  BY <1>1, <1>2, FS_Subset
<1>4. Cardinality(Kept) \in Nat
  BY <1>3, FS_CardinalityType
<1>5. ASSUME NEW k \in 1 .. Cardinality(Kept) PROVE m_Captures[KeptAt(k)] \in S
  <2>1. \E i \in Kept : Cardinality(Kept \cap (1 .. i)) = k
    BY <1>1, KthMember
  <2>2. KeptAt(k) \in Kept
    BY <2>1 DEF KeptAt
  <2>3. \A i \in 1 .. Len(m_Captures) : m_Captures[i] \in S
    OBVIOUS
  <2> QED BY <1>1, <2>2, <2>3
<1> QED BY <1>4, <1>5 DEF Existing

-----------------------------------------------------------------------------
(* Types and ids.  What is read from a connection has the type its reader   *)
(* expects because nothing but the greeting is sent before the greeting is  *)
(* read; an index into m_Captures is one because the list a client thread   *)
(* has told of is a prefix of m_Captures; and that holds because the only   *)
(* step that shortens m_Captures is taken by a thread that has told nothing *)
(* while no other thread runs.                                              *)

Greetings == [type : {"hello"}, version : Versions, kick : BOOLEAN]
Requests  == [type : {"command", "delete", "copy"}, id : Nat]

\* A connection whose greeting the server has not read.
Ungreeted(c) == sock[c] = "none" \/ (ServerAt("greet") /\ server.client = c)

\* Whoever is served, or dealt with, has been accepted; whom the server deals with has no
\* thread yet.
AcceptedFirst ==
  \A c \in Conns : /\ thread[c] # "none" => sock[c] # "none"
                   /\ server.client = c => sock[c] # "none" /\ thread[c] = "none"

\* Before its greeting is read a controller has been told nothing and sent nothing else.
GreetsFirst ==
  \A c \in Conns : Ungreeted(c) => /\ toClient[c] = <<>> /\ peer[c] # "connected"
                                   /\ toServer[c] \in Seq(Greetings)

\* What client thread c has told of are the first captures of the list.
ToldPrefix(c) ==
  \E n \in 0 .. Len(m_Captures) : told[c].captures = [i \in 1 .. n |-> m_Captures[i].cap]

ToldInv ==
  \A c \in Conns : /\ thread[c] \in {"none", "hello", "setup"} => told[c].captures = <<>>
                   /\ InLoop(c) => ToldPrefix(c)

\* The inductive invariant of the types and of the ids.
CoreInv == TypeOK /\ SlotInv /\ AcceptedFirst /\ GreetsFirst /\ ToldInv

LEMMA InitCore == ASSUME Init PROVE CoreInv
<1> USE TargetAssumption DEF Init, ToldNothing
<1>1. ServerTypes
  BY DEF ServerTypes
<1>5. CaptureTypes
  BY DEF CaptureTypes
<1>6. ProgramTypes
  <2>1. m_ActiveDrivers \in [Drivers -> Statuses] /\ captureProgress \in [Conns -> Progress]
    BY DEF Statuses, Progress
  <2>2. m_Children \in Nat /\ windowCount \in 0 .. MaxWindows
    OBVIOUS
  <2>3. m_RequestControllerShow \in BOOLEAN /\ callback \in Conns \cup {NoConn}
    OBVIOUS
  <2> QED BY <2>1, <2>2, <2>3 DEF ProgramTypes
<1>7. PeerTypes
  BY DEF PeerTypes
<1>2. ThreadTypes
  BY DEF ThreadTypes, ToldType, Statuses, Progress
<1>3. SlotInv
  BY InitSlot
<1>4. AcceptedFirst /\ GreetsFirst /\ ToldInv
  BY DEF AcceptedFirst, GreetsFirst, ToldInv, InLoop, Ungreeted, ServerAt
<1> QED BY <1>1, <1>2, <1>3, <1>4, <1>5, <1>6, <1>7 DEF CoreInv, TypeOK

LEMMA ServerTypesKept == ASSUME CoreInv, [Next]_vars PROVE ServerTypes'
<1> USE TargetAssumption DEF CoreInv, TypeOK, ServerTypes
<1>1. CASE Server
  <2> USE DEF ServerAt, Reject, NextTurn, slotVars, hookVars
  <2>1. ASSUME NEW c \in Conns, AcceptClient(c) PROVE ServerTypes'
    BY <2>1 DEF AcceptClient
  <2>2. CASE ReadHandshake
    <3>1. server.client \in Conns
      BY <2>2 DEF ReadHandshake, SlotInv, ServerShape
    <3>2. toServer[server.client] \in Seq(Greetings) /\ toServer[server.client] # <<>>
      BY <2>2, <3>1 DEF ReadHandshake, GreetsFirst, Ungreeted
    <3>3. Head(toServer[server.client]) \in Greetings
      BY <3>2
    <3>4. PICK kick \in BOOLEAN : kick = Head(toServer[server.client]).kick
      BY <3>3 DEF Greetings
    <3>5. \/ server' = [server EXCEPT !.pc = "look", !.kick = kick]
          \/ Reject
      BY <2>2, <3>4 DEF ReadHandshake
    <3>6. UNCHANGED <<slotVars, hookVars>>
      BY <2>2 DEF ReadHandshake
    <3>7. server' \in [pc : {"accept", "greet", "look", "kick", "join", "claim", "busy", "stop", "gone"},
                      client : Conns \cup {NoConn}, kick : BOOLEAN, clientThread : Conns \cup {NoConn}]
      BY <3>5
    <3> QED BY <3>6, <3>7
  <2>3. CASE HandshakeFails \/ LookForClient \/ SendBusy
    BY <2>3 DEF HandshakeFails, LookForClient, SendBusy
  <2>4. CASE KickClient
    BY <2>4 DEF KickClient
  <2>6. CASE JoinKicked
    BY <2>6 DEF JoinKicked
  <2>7. CASE StopServer
    BY <2>7 DEF StopServer
  <2>5. CASE SpawnClientThread
    BY <2>5 DEF SpawnClientThread, SlotInv, ServerShape
  <2> QED BY <1>1, <2>1, <2>2, <2>3, <2>4, <2>5, <2>6, <2>7 DEF Server
<1>2. ASSUME NEW c \in Conns, ClientThread(c) \/ Controller(c) PROVE ServerTypes'
  <2>1. UNCHANGED <<m_ControlClientThreadShutdown, hookVars, server>>
        /\ m_SingleClientName' \in {m_SingleClientName, NoConn}
    BY <1>2 DEF ClientThread, SendHandshake, SetUp, LeaveLoop, Report, Serve, ServeNothing, GiveUpName,
                Controller, Connect, SayHello, Receive, Disconnected, SendCommand, AskFor, Request, Close, slotVars
  <2> QED BY <2>1 DEF hookVars
<1>3. CASE Program
  BY <1>3 DEF Program, ListCapture, DeleteFile, SetDriver, AddChildProcess, ShowReplayUI, RemoveHooks,
              HooksRemoved, SetWindowCount, SetProgress, slotVars, hookVars
<1>4. CASE UNCHANGED vars
  BY <1>4 DEF vars, slotVars, hookVars
<1> QED BY <1>1, <1>2, <1>3, <1>4 DEF Next

\* The topic of news is one of which there is news.
LEMMA TopicIsNews == ASSUME NEW c, NEW topic, IsTopic(c, topic) PROVE HasNews(c, topic)
  BY DEF IsTopic, News

\* The next capture to tell of is in the list.
LEMMA NextInList ==
  ASSUME CoreInv, NEW c \in Conns, At(c, "loop"), IsTopic(c, "capture")
  PROVE  Len(told[c].captures) + 1 \in DOMAIN m_Captures
<1>1. Len(told[c].captures) # Len(m_Captures)
  BY TopicIsNews DEF HasNews
<1>2. PICK n \in 0 .. Len(m_Captures) : told[c].captures = [i \in 1 .. n |-> m_Captures[i].cap]
  BY DEF CoreInv, ToldInv, ToldPrefix, InLoop, At
<1>3. Len(m_Captures) \in Nat
  BY DEF CoreInv, TypeOK, CaptureTypes
<1>4. told[c].captures \in Seq(Caps)
  BY DEF CoreInv, TypeOK, ThreadTypes, ToldType
<1>5. Len(told[c].captures) = n
  BY <1>2, <1>3, <1>4
<1> QED BY <1>1, <1>3, <1>5 DEF CoreInv, TypeOK, CaptureTypes

\* What a client thread remembers, one thing changed.
LEMMA ToldUpdated ==
  ASSUME told \in [Conns -> ToldType], NEW c \in Conns
  PROVE  /\ \A x \in Seq(Caps) : [told EXCEPT ![c].captures = x] \in [Conns -> ToldType]
         /\ \A x \in Nat : [told EXCEPT ![c].children = x] \in [Conns -> ToldType]
         /\ \A x \in [Drivers -> Statuses] : [told EXCEPT ![c].drivers = x] \in [Conns -> ToldType]
         /\ \A x \in Progress : [told EXCEPT ![c].progress = x] \in [Conns -> ToldType]
         /\ \A x \in 0 .. MaxWindows : [told EXCEPT ![c].windows = x] \in [Conns -> ToldType]
         /\ told[c].children \in Nat /\ told[c].drivers \in [Drivers -> Statuses]
         /\ told[c].captures \in Seq(Caps)
<1> USE DEF ToldType
<1>1. \A x \in Seq(Caps) : [told EXCEPT ![c].captures = x] \in [Conns -> ToldType]
  OBVIOUS
<1>2. \A x \in Nat : [told EXCEPT ![c].children = x] \in [Conns -> ToldType]
  OBVIOUS
<1>3. \A x \in [Drivers -> Statuses] : [told EXCEPT ![c].drivers = x] \in [Conns -> ToldType]
  OBVIOUS
<1>4. \A x \in Progress : [told EXCEPT ![c].progress = x] \in [Conns -> ToldType]
  OBVIOUS
<1>5. \A x \in 0 .. MaxWindows : [told EXCEPT ![c].windows = x] \in [Conns -> ToldType]
  OBVIOUS
<1>6. told[c].children \in Nat /\ told[c].drivers \in [Drivers -> Statuses] /\ told[c].captures \in Seq(Caps)
  OBVIOUS
<1> QED BY <1>1, <1>2, <1>3, <1>4, <1>5, <1>6

LEMMA ElementOfSeq == ASSUME NEW S, NEW s \in Seq(S), NEW i \in DOMAIN s PROVE s[i] \in S
  OBVIOUS

LEMMA AppendElement == ASSUME NEW S, NEW s \in Seq(S), NEW x \in S PROVE Append(s, x) \in Seq(S)
  OBVIOUS

LEMMA ListedCapture ==
  ASSUME CaptureTypes, NEW i \in DOMAIN m_Captures
  PROVE  /\ m_Captures[i] \in [cap : Caps, retrieved : BOOLEAN]
         /\ m_Captures[i].cap \in Caps
<1>1. m_Captures[i] \in [cap : Caps, retrieved : BOOLEAN]
  BY ElementOfSeq DEF CaptureTypes
<1> QED BY <1>1

LEMMA ThreadTypesKept == ASSUME CoreInv, [Next]_vars PROVE ThreadTypes'
<1> USE TargetAssumption DEF CoreInv, TypeOK, ThreadTypes
<1>1. CASE Server
  <2> USE DEF threadVars, Reject
  <2>0. server.client \in Conns \cup {NoConn}
    BY DEF ServerTypes
  <2>1. ASSUME NEW c \in Conns, AcceptClient(c) PROVE ThreadTypes'
    BY <2>1 DEF AcceptClient
  <2>2. CASE ReadHandshake
    <3>1. server.client \in Conns
      BY <2>2 DEF ReadHandshake, SlotInv, ServerShape, ServerAt
    <3>2. toServer[server.client] \in Seq(Greetings) /\ toServer[server.client] # <<>>
      BY <2>2, <3>1 DEF ReadHandshake, GreetsFirst, Ungreeted
    <3>3. Head(toServer[server.client]) \in Greetings
      BY <3>2
    <3> QED BY <2>2, <3>1, <3>3 DEF ReadHandshake, Greetings
  <2>3. CASE HandshakeFails \/ SendBusy
    BY <2>3 DEF HandshakeFails, SendBusy
  <2>4. CASE KickClient \/ JoinKicked \/ LookForClient
    BY <2>4 DEF KickClient, JoinKicked, LookForClient, socketVars
  <2>5. CASE SpawnClientThread
    BY <2>5 DEF SpawnClientThread, Goto, socketVars
  <2>6. CASE StopServer
    BY <2>6 DEF StopServer
  <2> QED BY <1>1, <2>1, <2>2, <2>3, <2>4, <2>5, <2>6 DEF Server
<1>2. ASSUME NEW c \in Conns, ClientThread(c) PROVE ThreadTypes'
  <2> USE DEF Goto, Hangup, socketVars
  <2>1. CASE SendHandshake(c)
    BY <2>1 DEF SendHandshake, AfterHello
  <2>2. CASE SetUp(c)
    BY <2>2 DEF SetUp
  <2>3. CASE LeaveLoop(c)
    BY <2>3 DEF LeaveLoop
  <2>4. CASE Report(c)
    <3>1. told' \in [Conns -> ToldType]
      <4>1. CASE TellDriver(c)
        <5>1. PICK d \in Drivers : told' = [told EXCEPT ![c].drivers = RememberDriver(c, d)]
          BY <4>1 DEF TellDriver
        <5>2. RememberDriver(c, d) \in [Drivers -> Statuses]
          BY ToldUpdated DEF RememberDriver, ProgramTypes
        <5> QED BY <5>1, <5>2, ToldUpdated
      <4>2. CASE TellCapture(c)
        <5>1. Len(told[c].captures) + 1 \in DOMAIN m_Captures
          BY <2>4, <4>2, NextInList DEF Report, TellCapture
        <5>2. m_Captures[Len(told[c].captures) + 1].cap \in Caps
          BY <5>1, ListedCapture
        <5>3. NextCapture(c) \in Seq(Caps)
          BY <5>2, ToldUpdated DEF NextCapture
        <5> QED BY <4>2, <5>3, ToldUpdated DEF TellCapture
      <4>3. CASE TellChild(c)
        <5>1. told' = [told EXCEPT ![c].children = told[c].children + 1]
          BY <4>3 DEF TellChild
        <5>2. told[c].children + 1 \in Nat
          BY ToldUpdated
        <5> QED BY <5>1, <5>2, ToldUpdated
      <4>4. CASE TellProgress(c)
        <5>1. \/ \E now \in Progress : told' = [told EXCEPT ![c].progress = now]
              \/ UNCHANGED told
          BY <4>4 DEF TellProgress, Progress
        <5> QED BY <5>1, ToldUpdated
      <4>5. CASE TellWindows(c)
        BY <4>5, ToldUpdated DEF TellWindows, ProgramTypes
      <4>6. CASE TellShow(c) \/ TellNothing(c)
        BY <4>6 DEF TellShow, TellNothing
      <4> QED BY <2>4, <4>1, <4>2, <4>3, <4>4, <4>5, <4>6 DEF Report
    <3>2. \/ thread' = [thread EXCEPT ![c] = "serve"] /\ UNCHANGED sock
          \/ thread' = [thread EXCEPT ![c] = "leave"] /\ sock' = [sock EXCEPT ![c] = "closed"]
      BY <2>4 DEF Report
    <3>3. UNCHANGED version
      BY <2>4 DEF Report
    <3> QED BY <3>1, <3>2, <3>3
  <2>5. CASE Serve(c)
    <3>1. \/ thread' = [thread EXCEPT ![c] = "loop"] /\ UNCHANGED sock
          \/ thread' = [thread EXCEPT ![c] = "leave"] /\ sock' = [sock EXCEPT ![c] = "closed"]
      BY <2>5 DEF Serve, ServeCommand, ServeDelete, ServeCopy
    <3> QED BY <2>5, <3>1 DEF Serve
  <2>6. CASE ServeNothing(c)
    BY <2>6 DEF ServeNothing
  <2>7. CASE GiveUpName(c)
    BY <2>7 DEF GiveUpName, ToldType, ToldNothing, Statuses, Progress
  <2> QED BY <1>2, <2>1, <2>2, <2>3, <2>4, <2>5, <2>6, <2>7 DEF ClientThread
<1>3. ASSUME NEW c \in Conns, Controller(c) PROVE ThreadTypes'
  BY <1>3 DEF Controller, Connect, SayHello, Receive, Disconnected, SendCommand, AskFor, Request, Close, threadVars, socketVars
<1>4. CASE Program
  BY <1>4 DEF Program, ListCapture, DeleteFile, SetDriver, AddChildProcess, ShowReplayUI, RemoveHooks,
              HooksRemoved, SetWindowCount, SetProgress, threadVars, socketVars
<1>5. CASE UNCHANGED vars
  BY <1>5 DEF vars, threadVars, socketVars
<1> QED BY <1>1, <1>2, <1>3, <1>4, <1>5 DEF Next

\* Marking a capture as retrieved changes neither which captures are listed nor where.
LEMMA MarkKeepsCaps ==
  ASSUME CaptureTypes, NEW id, MarkCaptureRetrieved(id)
  PROVE  /\ m_Captures' \in Seq([cap : Caps, retrieved : BOOLEAN])
         /\ Len(m_Captures') = Len(m_Captures)
         /\ \A i \in DOMAIN m_Captures : m_Captures'[i].cap = m_Captures[i].cap
<1> DEFINE S == [cap : Caps, retrieved : BOOLEAN]
           Marks(i) == IF i = Marked(id) THEN [m_Captures[i] EXCEPT !.retrieved = TRUE] ELSE m_Captures[i]
<1>1. m_Captures \in Seq(S) /\ Len(m_Captures) \in Nat /\ DOMAIN m_Captures = 1 .. Len(m_Captures)
  BY DEF CaptureTypes
<1>2. \A i \in 1 .. Len(m_Captures) : m_Captures[i] \in S
  BY <1>1, ElementOfSeq
<1>3. ASSUME NEW i \in 1 .. Len(m_Captures) PROVE Marks(i) \in S /\ Marks(i).cap = m_Captures[i].cap
  BY <1>2
<1>4. m_Captures' = [i \in 1 .. Len(m_Captures) |-> Marks(i)]
  BY <1>1 DEF MarkCaptureRetrieved
<1> HIDE DEF S, Marks
<1>5. m_Captures' \in Seq(S) /\ Len(m_Captures') = Len(m_Captures)
  BY <1>1, <1>3, <1>4
<1> QED BY <1>1, <1>3, <1>4, <1>5 DEF S

\* What a step may do to the list of captures.
LEMMA ListSteps ==
  ASSUME CoreInv, [Next]_vars
  PROVE  \/ UNCHANGED m_Captures
         \/ m_Captures' = Existing /\ \E c \in Conns : SetUp(c)
         \/ \E id : MarkCaptureRetrieved(id)
         \/ made + 1 \in Caps /\ m_Captures' = Append(m_Captures, [cap |-> made + 1, retrieved |-> FALSE])
<1>1. CASE Server
  BY <1>1 DEF Server, AcceptClient, ReadHandshake, HandshakeFails, LookForClient, KickClient, JoinKicked,
              SpawnClientThread, SendBusy, StopServer, captureVars
<1>2. ASSUME NEW c \in Conns, ClientThread(c)
      PROVE  \/ UNCHANGED m_Captures
             \/ m_Captures' = Existing /\ SetUp(c)
             \/ \E id : MarkCaptureRetrieved(id)
  <2>1. CASE Serve(c)
    BY <2>1 DEF Serve, ServeCommand, ServeDelete, ServeCopy
  <2>2. CASE SetUp(c)
    BY <2>2 DEF SetUp
  <2>3. CASE SendHandshake(c) \/ LeaveLoop(c) \/ Report(c) \/ ServeNothing(c) \/ GiveUpName(c)
    BY <2>3 DEF SendHandshake, LeaveLoop, Report, ServeNothing, GiveUpName, captureVars
  <2> QED BY <1>2, <2>1, <2>2, <2>3 DEF ClientThread
<1>3. ASSUME NEW c \in Conns, Controller(c) PROVE UNCHANGED m_Captures
  BY <1>3 DEF Controller, Connect, SayHello, Receive, Disconnected, SendCommand, AskFor, Request, Close, captureVars
<1>4. CASE ListCapture
  BY <1>4, TargetAssumption DEF ListCapture, CoreInv, TypeOK, CaptureTypes, Caps
<1>5. CASE Program /\ ~ListCapture
  BY <1>5 DEF Program, DeleteFile, SetDriver, AddChildProcess, ShowReplayUI, RemoveHooks,
              HooksRemoved, SetWindowCount, SetProgress, captureVars
<1>6. CASE UNCHANGED vars
  BY <1>6 DEF vars, captureVars
<1> QED BY <1>1, <1>2, <1>3, <1>4, <1>5, <1>6 DEF Next

LEMMA CaptureTypesKept == ASSUME CoreInv, [Next]_vars PROVE CaptureTypes'
<1> USE TargetAssumption DEF CoreInv, TypeOK
<1>1. m_Captures' \in Seq([cap : Caps, retrieved : BOOLEAN])
  <2> DEFINE S == [cap : Caps, retrieved : BOOLEAN]
  <2>1. m_Captures \in Seq(S)
    BY DEF CaptureTypes
  <2>2. CASE m_Captures' = Existing
    BY <2>1, <2>2, ExistingIsList
  <2>3. ASSUME NEW id, MarkCaptureRetrieved(id) PROVE m_Captures' \in Seq(S)
    BY <2>3, MarkKeepsCaps
  <2>4. CASE made + 1 \in Caps /\ m_Captures' = Append(m_Captures, [cap |-> made + 1, retrieved |-> FALSE])
    <3>1. [cap |-> made + 1, retrieved |-> FALSE] \in S
      BY <2>4
    <3> QED BY <2>1, <2>4, <3>1, AppendElement
  <2>5. CASE UNCHANGED m_Captures
    BY <2>1, <2>5
  <2> QED BY <2>2, <2>3, <2>4, <2>5, ListSteps
<1>2. \/ UNCHANGED <<made, files, asked>>
      \/ made < MaxCaptures /\ made' = made + 1 /\ files' = files \cup {made + 1} /\ UNCHANGED asked
      \/ files' \subseteq files /\ UNCHANGED <<made, asked>>
      \/ asked' \subseteq Caps /\ UNCHANGED <<made, files>>
  <2> USE DEF captureVars, peerVars
  <2>1. CASE Server
    BY <2>1 DEF Server, AcceptClient, ReadHandshake, HandshakeFails, LookForClient, KickClient, JoinKicked,
                SpawnClientThread, SendBusy, StopServer
  <2>2. ASSUME NEW c \in Conns, ClientThread(c) PROVE UNCHANGED <<made, files, asked>>
    BY <2>2 DEF ClientThread, SendHandshake, SetUp, LeaveLoop, Report, Serve, ServeNothing, GiveUpName
  <2>3. ASSUME NEW c \in Conns, NEW type, NEW id, AskFor(c, type, id)
        PROVE  asked' \subseteq Caps /\ UNCHANGED <<made, files>>
    <3>1. known[c] \in Seq(Caps)
      BY DEF PeerTypes
    <3>2. \A i \in DOMAIN known[c] : known[c][i] \in Caps
      BY <3>1, ElementOfSeq
    <3> QED BY <2>3, <3>2 DEF AskFor, Request, CaptureTypes
  <2>4. ASSUME NEW c \in Conns,
               \/ Connect(c) \/ Receive(c) \/ Disconnected(c) \/ SendCommand(c) \/ Close(c)
               \/ \E v \in Versions, kick \in BOOLEAN : SayHello(c, v, kick)
        PROVE  UNCHANGED <<made, files, asked>>
    BY <2>4 DEF Connect, SayHello, Receive, Disconnected, SendCommand, Request, Close
  <2>5. CASE Program
    BY <2>5 DEF Program, ListCapture, DeleteFile, SetDriver, AddChildProcess, ShowReplayUI, RemoveHooks,
                HooksRemoved, SetWindowCount, SetProgress
  <2>6. CASE UNCHANGED vars
    BY <2>6 DEF vars
  <2> QED BY <2>1, <2>2, <2>3, <2>4, <2>5, <2>6 DEF Next, Controller
<1>3. UNCHANGED budget \/ Spend
  <2>1. CASE Server
    BY <2>1 DEF Server, AcceptClient, ReadHandshake, HandshakeFails, LookForClient, KickClient, JoinKicked,
                SpawnClientThread, SendBusy, StopServer
  <2>2. ASSUME NEW c \in Conns, ClientThread(c) \/ Controller(c) PROVE UNCHANGED budget \/ Spend
    BY <2>2 DEF ClientThread, SendHandshake, SetUp, LeaveLoop, Report, Serve, ServeNothing, GiveUpName,
                Controller, Connect, SayHello, Receive, Disconnected, SendCommand, AskFor, Request, Close
  <2>3. CASE Program
    BY <2>3 DEF Program, ListCapture, DeleteFile, SetDriver, AddChildProcess, ShowReplayUI, RemoveHooks,
                HooksRemoved, SetWindowCount, SetProgress
  <2>4. CASE UNCHANGED vars
    BY <2>4 DEF vars
  <2> QED BY <2>1, <2>2, <2>3, <2>4 DEF Next
<1>4. made \in Nat /\ MaxCaptures \in Nat /\ Budget \in Nat /\ budget \in 0 .. Budget
  BY DEF CaptureTypes
<1>5. budget' \in 0 .. Budget
  BY <1>3, <1>4 DEF Spend
<1>6. made' \in 0 .. MaxCaptures /\ files' \subseteq Caps /\ asked' \subseteq Caps
  <2>1. made \in 0 .. MaxCaptures /\ files \subseteq Caps /\ asked \subseteq Caps
    BY DEF CaptureTypes
  <2>2. made < MaxCaptures => made + 1 \in Caps /\ made + 1 \in 0 .. MaxCaptures
    BY <1>4, <2>1 DEF Caps
  <2> QED BY <1>2, <2>1, <2>2
<1> QED BY <1>1, <1>5, <1>6 DEF CaptureTypes

LEMMA ProgramTypesKept == ASSUME CoreInv, [Next]_vars PROVE ProgramTypes'
<1> USE TargetAssumption DEF CoreInv, TypeOK, ProgramTypes, programVars, progressVars
<1>1. CASE Server
  BY <1>1 DEF Server, AcceptClient, ReadHandshake, HandshakeFails, LookForClient, KickClient, JoinKicked,
              SpawnClientThread, SendBusy, StopServer
<1>2. ASSUME NEW c \in Conns, Report(c) PROVE ProgramTypes'
  <2>1. \/ UNCHANGED <<captureProgress, m_RequestControllerShow>>
        \/ (\E now \in Progress : captureProgress' = [captureProgress EXCEPT ![c] = now])
              /\ UNCHANGED m_RequestControllerShow
        \/ m_RequestControllerShow' = FALSE /\ UNCHANGED captureProgress
    BY <1>2 DEF Report, TellDriver, TellCapture, TellChild, TellProgress, TellWindows, TellShow, TellNothing, Progress
  <2> QED BY <1>2, <2>1 DEF Report
<1>3. ASSUME NEW c \in Conns,
             SendHandshake(c) \/ SetUp(c) \/ LeaveLoop(c) \/ Serve(c) \/ ServeNothing(c) \/ GiveUpName(c)
      PROVE  ProgramTypes'
  BY <1>3 DEF SendHandshake, SetUp, LeaveLoop, Serve, ServeNothing, GiveUpName, Progress
<1>4. ASSUME NEW c \in Conns, Controller(c) PROVE ProgramTypes'
  BY <1>4 DEF Controller, Connect, SayHello, Receive, Disconnected, SendCommand, AskFor, Request, Close
<1>5. CASE ListCapture \/ (\E cap \in files : DeleteFile(cap)) \/ RemoveHooks \/ HooksRemoved
  BY <1>5 DEF ListCapture, DeleteFile, RemoveHooks, HooksRemoved
<1>6. ASSUME NEW d \in Drivers, NEW status \in Statuses, SetDriver(d, status) PROVE ProgramTypes'
  BY <1>6 DEF SetDriver
<1>7. CASE AddChildProcess \/ (\E n \in 0 .. MaxWindows : SetWindowCount(n))
  BY <1>7 DEF AddChildProcess, SetWindowCount
<1>10. CASE ShowReplayUI
  BY <1>10 DEF ShowReplayUI
<1>8. ASSUME NEW q \in Progress, SetProgress(q) PROVE ProgramTypes'
  BY <1>8 DEF SetProgress
<1>9. CASE UNCHANGED vars
  BY <1>9 DEF vars
<1> QED BY <1>1, <1>2, <1>3, <1>4, <1>5, <1>6, <1>7, <1>8, <1>9, <1>10 DEF Next, ClientThread, Program

\* A message written to a connection.
LEMMA SendKeepsType ==
  ASSUME PeerTypes, NEW c \in Conns, NEW msg \in ServerMessages, Send(c, msg)
  PROVE  toClient' \in [Conns -> Seq(ServerMessages)]
<1>1. Append(toClient[c], msg) \in Seq(ServerMessages)
  BY AppendElement DEF PeerTypes
<1> QED BY <1>1 DEF Send, PeerTypes

LEMMA PlainIsMessage == \A type \in {"handshake", "busy"} : Plain(type) \in ServerMessages
  BY DEF Plain, Message, ServerMessages

LEMMA HeadAndTail ==
  ASSUME NEW S, NEW s \in Seq(S), s # <<>> PROVE Head(s) \in S /\ Tail(s) \in Seq(S)
  OBVIOUS

LEMMA PeerTypesKept == ASSUME CoreInv, [Next]_vars PROVE PeerTypes'
<1> USE TargetAssumption DEF CoreInv, TypeOK
<1>1. CASE Server
  <2> USE DEF PeerTypes, peerVars, channelVars
  <2>1. CASE ReadHandshake
    <3>1. server.client \in Conns
      BY <2>1 DEF ReadHandshake, SlotInv, ServerShape, ServerAt
    <3>2. Tail(toServer[server.client]) \in Seq(ClientMessages)
      BY <2>1, <3>1, HeadAndTail DEF ReadHandshake
    <3> QED BY <2>1, <3>1, <3>2 DEF ReadHandshake
  <2>2. CASE SendBusy
    <3>1. server.client \in Conns
      BY <2>2 DEF SendBusy, SlotInv, ServerShape, ServerAt
    <3>2. toClient' \in [Conns -> Seq(ServerMessages)]
      BY <2>2, <3>1, PlainIsMessage, SendKeepsType DEF SendBusy
    <3> QED BY <2>2, <3>2 DEF SendBusy
  <2>3. CASE ~ReadHandshake /\ ~SendBusy
    BY <1>1, <2>3 DEF Server, AcceptClient, HandshakeFails, LookForClient, KickClient, JoinKicked,
                      SpawnClientThread, StopServer
  <2> QED BY <2>1, <2>2, <2>3
<1>2. ASSUME NEW c \in Conns, ClientThread(c) PROVE PeerTypes'
  <2> USE DEF peerVars, channelVars
  <2>1. UNCHANGED <<peer, known>>
    BY <1>2 DEF ClientThread, SendHandshake, SetUp, LeaveLoop, Report, Serve, ServeNothing, GiveUpName
  <2>2. toServer' \in [Conns -> Seq(ClientMessages)]
    <3>1. CASE Serve(c)
      <4>1. Tail(toServer[c]) \in Seq(ClientMessages)
        BY <3>1, HeadAndTail DEF Serve, PeerTypes
      <4> QED BY <3>1, <4>1 DEF Serve, PeerTypes
    <3>2. CASE ~Serve(c)
      BY <1>2, <3>2 DEF ClientThread, SendHandshake, SetUp, LeaveLoop, Report, ServeNothing, GiveUpName, PeerTypes
    <3> QED BY <3>1, <3>2
  <2>3. toClient' \in [Conns -> Seq(ServerMessages)]
    <3>1. CASE SendHandshake(c)
      BY <3>1, PlainIsMessage, SendKeepsType DEF SendHandshake, WriteFails, PeerTypes
    <3>2. CASE Report(c) /\ TellCapture(c)
      <4> DEFINE idx == Len(told[c].captures) + 1
      <4>1. idx \in DOMAIN m_Captures /\ idx \in Nat
        BY <3>2, NextInList, ToldUpdated DEF Report, TellCapture, ThreadTypes
      <4>2. Message("capture", idx, m_Captures[idx].cap) \in ServerMessages
        BY <4>1, ListedCapture DEF Message, ServerMessages
      <4> QED BY <3>2, <4>2, SendKeepsType DEF Report, TellCapture
    <3>3. CASE Report(c) /\ ~TellCapture(c)
      BY <3>3 DEF Report, TellDriver, TellChild, TellProgress, TellWindows, TellShow, TellNothing, PeerTypes
    <3>4. CASE Serve(c) /\ ServeCopy(c)
      <4> DEFINE id == Head(toServer[c]).id
      <4>1. CASE id \in DOMAIN m_Captures
        <5>1. id \in Nat
          BY <4>1 DEF CaptureTypes
        <5>2. Message("copy", id, m_Captures[id].cap) \in ServerMessages
          BY <4>1, <5>1, ListedCapture DEF Message, ServerMessages
        <5> QED BY <3>4, <4>1, <5>2, SendKeepsType DEF ServeCopy, PeerTypes
      <4>2. CASE id \notin DOMAIN m_Captures
        BY <3>4, <4>2 DEF ServeCopy, PeerTypes
      <4> QED BY <4>1, <4>2
    <3>5. CASE Serve(c) /\ ~ServeCopy(c)
      BY <3>5 DEF Serve, ServeCommand, ServeDelete, PeerTypes
    <3>6. CASE SetUp(c) \/ LeaveLoop(c) \/ ServeNothing(c) \/ GiveUpName(c)
      BY <3>6 DEF SetUp, LeaveLoop, ServeNothing, GiveUpName, PeerTypes
    <3> QED BY <1>2, <3>1, <3>2, <3>3, <3>4, <3>5, <3>6 DEF ClientThread
  <2> QED BY <2>1, <2>2, <2>3 DEF PeerTypes
<1>3. ASSUME NEW c \in Conns, Controller(c) PROVE PeerTypes'
  <2> USE DEF PeerTypes, channelVars
  <2>1. CASE Connect(c)
    BY <2>1 DEF Connect
  <2>2. ASSUME NEW v \in Versions, NEW kick \in BOOLEAN, SayHello(c, v, kick) PROVE PeerTypes'
    <3> DEFINE hello == [type |-> "hello", version |-> v, kick |-> kick]
    <3>1. hello \in ClientMessages
      BY DEF ClientMessages
    <3>2. Append(toServer[c], hello) \in Seq(ClientMessages)
      BY <3>1, AppendElement
    <3>3. /\ toServer' = toServer \/ toServer' = [toServer EXCEPT ![c] = Append(toServer[c], hello)]
          /\ \E x \in {"closed", "greeted"} : peer' = [peer EXCEPT ![c] = x]
          /\ UNCHANGED <<toClient, known>>
      BY <2>2 DEF SayHello
    <3> HIDE DEF hello
    <3> QED BY <3>2, <3>3
  <2>3. CASE Receive(c)
    <3>1. Head(toClient[c]) \in ServerMessages /\ Tail(toClient[c]) \in Seq(ServerMessages)
      BY <2>3, HeadAndTail DEF Receive
    <3>2. Head(toClient[c]).type = "capture" => Head(toClient[c]).cap \in Caps
      BY <3>1 DEF ServerMessages
    <3>3. known[c] \in Seq(Caps)
      OBVIOUS
    <3>4. Head(toClient[c]).type = "capture" => Append(known[c], Head(toClient[c]).cap) \in Seq(Caps)
      BY <3>2, <3>3, AppendElement
    <3>5. << >> \in Seq(Caps)
      OBVIOUS
    <3>6. PICK x : /\ \/ x = <<>> \/ x = known[c]
                      \/ Head(toClient[c]).type = "capture" /\ x = Append(known[c], Head(toClient[c]).cap)
                   /\ known' = [known EXCEPT ![c] = x]
      BY <2>3 DEF Receive
    <3>7. \E list \in Seq(Caps) : known' = [known EXCEPT ![c] = list]
      BY <3>3, <3>4, <3>5, <3>6
    <3>8. \E state \in {"closed", "connected"} : peer' = [peer EXCEPT ![c] = state]
      BY <2>3 DEF Receive
    <3> QED BY <2>3, <3>1, <3>7, <3>8 DEF Receive
  <2>4. CASE Disconnected(c)
    BY <2>4 DEF Disconnected
  <2>5. ASSUME NEW type \in {"command", "copy", "delete"}, NEW id \in Nat, Request(c, type, id)
        PROVE  PeerTypes'
    <3>1. [type |-> type, id |-> id] \in ClientMessages
      BY <2>5 DEF ClientMessages
    <3>2. Append(toServer[c], [type |-> type, id |-> id]) \in Seq(ClientMessages)
      BY <3>1, AppendElement
    <3>3. /\ toServer' = toServer \/ toServer' = [toServer EXCEPT ![c] = Append(toServer[c], [type |-> type, id |-> id])]
          /\ UNCHANGED <<peer, known, toClient>>
      BY <2>5 DEF Request
    <3> QED BY <3>2, <3>3
  <2>6. CASE Close(c)
    BY <2>6 DEF Close
  <2>7. CASE SendCommand(c)
    BY <2>5, <2>7 DEF SendCommand
  <2>8. ASSUME NEW type \in {"copy", "delete"}, NEW id \in {0} \cup DOMAIN known[c], AskFor(c, type, id)
        PROVE  PeerTypes'
    <3>1. id \in Nat
      OBVIOUS
    <3> QED BY <2>5, <2>8, <3>1 DEF AskFor
  <2> QED BY <1>3, <2>1, <2>2, <2>3, <2>4, <2>6, <2>7, <2>8 DEF Controller
<1>4. CASE Program
  BY <1>4 DEF Program, ListCapture, DeleteFile, SetDriver, AddChildProcess, ShowReplayUI, RemoveHooks,
              HooksRemoved, SetWindowCount, SetProgress, PeerTypes, peerVars, channelVars
<1>5. CASE UNCHANGED vars
  BY <1>5 DEF vars, PeerTypes, peerVars, channelVars
<1> QED BY <1>1, <1>2, <1>3, <1>4, <1>5 DEF Next

\* A connection that is accepted stays so, and only the server starts a client thread.
LEMMA AcceptedKept == ASSUME CoreInv, [Next]_vars PROVE AcceptedFirst'
<1> USE DEF CoreInv, AcceptedFirst
<1>0. server \in [pc : {"accept", "greet", "look", "kick", "join", "claim", "busy", "stop", "gone"},
                  client : Conns \cup {NoConn}, kick : BOOLEAN, clientThread : Conns \cup {NoConn}]
      /\ sock \in [Conns -> {"none", "open", "closed"}]
      /\ thread \in [Conns -> {"none", "hello", "setup", "loop", "serve", "leave", "drop", "gone"}]
      /\ NoConn \notin Conns
  BY TargetAssumption DEF TypeOK, ServerTypes, ThreadTypes
<1>1. ASSUME NEW c \in Conns, AcceptClient(c) PROVE AcceptedFirst'
  BY <1>0, <1>1 DEF AcceptClient, Pending, threadVars
<1>2. CASE ReadHandshake \/ HandshakeFails \/ SendBusy
  BY <1>0, <1>2 DEF ReadHandshake, HandshakeFails, SendBusy, Reject, threadVars
<1>3. CASE LookForClient \/ KickClient \/ JoinKicked
  BY <1>0, <1>3 DEF LookForClient, KickClient, JoinKicked, threadVars, socketVars
<1>4. CASE SpawnClientThread
  BY <1>0, <1>4 DEF SpawnClientThread, Goto, socketVars
<1>5. CASE StopServer
  BY <1>0, <1>5 DEF StopServer, threadVars
<1>6. ASSUME NEW c \in Conns, ClientThread(c) PROVE AcceptedFirst'
  <2>1. thread[c] # "none" /\ UNCHANGED server
    BY <1>6 DEF ClientThread, SendHandshake, SetUp, LeaveLoop, Report, Serve, ServeNothing, GiveUpName, At
  <2>2. \E pc : thread' = [thread EXCEPT ![c] = pc]
    BY <1>6 DEF ClientThread, SendHandshake, SetUp, LeaveLoop, Report, Serve, ServeCommand, ServeDelete, ServeCopy,
                ServeNothing, GiveUpName, Goto, Hangup
  <2>3. UNCHANGED sock \/ sock' = [sock EXCEPT ![c] = "closed"]
    BY <1>6 DEF ClientThread, SendHandshake, SetUp, LeaveLoop, Report, Serve, ServeCommand, ServeDelete, ServeCopy,
                ServeNothing, GiveUpName, Goto, Hangup, socketVars
  <2> QED BY <1>0, <2>1, <2>2, <2>3
<1>7. ASSUME NEW c \in Conns, Controller(c) PROVE UNCHANGED <<server, thread, sock>>
  BY <1>7 DEF Controller, Connect, SayHello, Receive, Disconnected, SendCommand, AskFor, Request, Close, threadVars, socketVars
<1>8. CASE Program
  BY <1>8 DEF Program, ListCapture, DeleteFile, SetDriver, AddChildProcess, ShowReplayUI, RemoveHooks,
              HooksRemoved, SetWindowCount, SetProgress, threadVars, socketVars
<1>9. CASE UNCHANGED vars
  BY <1>9 DEF vars, threadVars, socketVars
<1> QED BY <1>1, <1>2, <1>3, <1>4, <1>5, <1>6, <1>7, <1>8, <1>9 DEF Next, Server

\* Whoever is not greeted yet was not greeted before, and the step was its own hello or
\* none of its business.
LEMMA GreetsKept == ASSUME CoreInv, [Next]_vars PROVE GreetsFirst'
<1> USE DEF CoreInv, GreetsFirst
<1>0. server \in [pc : {"accept", "greet", "look", "kick", "join", "claim", "busy", "stop", "gone"},
                  client : Conns \cup {NoConn}, kick : BOOLEAN, clientThread : Conns \cup {NoConn}]
      /\ sock \in [Conns -> {"none", "open", "closed"}]
      /\ thread \in [Conns -> {"none", "hello", "setup", "loop", "serve", "leave", "drop", "gone"}]
      /\ peer \in [Conns -> {"unused", "open", "greeted", "connected", "closed"}]
      /\ toServer \in [Conns -> Seq(ClientMessages)] /\ toClient \in [Conns -> Seq(ServerMessages)]
      /\ NoConn \notin Conns
  BY TargetAssumption DEF TypeOK, ServerTypes, ThreadTypes, PeerTypes
<1>1. ASSUME NEW c \in Conns, AcceptClient(c) PROVE GreetsFirst'
  BY <1>0, <1>1 DEF AcceptClient, Pending, Ungreeted, ServerAt, peerVars, channelVars
<1>2. CASE ReadHandshake \/ HandshakeFails \/ SendBusy
  <2>1. PICK c \in Conns : c = server.client /\ sock[c] # "none"
    BY <1>2 DEF ReadHandshake, HandshakeFails, SendBusy, SlotInv, ServerShape, ServerAt, AcceptedFirst
  <2>2. \/ server'.client = c /\ server'.pc = "look" /\ UNCHANGED sock
        \/ server'.client = NoConn /\ sock' = [sock EXCEPT ![c] = "closed"]
    BY <1>0, <1>2, <2>1 DEF ReadHandshake, HandshakeFails, SendBusy, Reject
  <2>3. UNCHANGED peer /\ \A d \in Conns \ {c} : toServer'[d] = toServer[d] /\ toClient'[d] = toClient[d]
    BY <1>0, <1>2, <2>1 DEF ReadHandshake, HandshakeFails, SendBusy, Send, peerVars, channelVars
  <2>4. ~Ungreeted(c)'
    BY <1>0, <2>1, <2>2 DEF Ungreeted, ServerAt
  <2>5. \A d \in Conns \ {c} : Ungreeted(d)' => Ungreeted(d)
    BY <1>0, <2>1, <2>2 DEF Ungreeted, ServerAt
  <2> QED BY <2>3, <2>4, <2>5
<1>3. CASE LookForClient \/ KickClient \/ JoinKicked \/ SpawnClientThread
  <2>1. server'.pc # "greet"
    BY <1>0, <1>3 DEF LookForClient, KickClient, JoinKicked, SpawnClientThread, NextTurn
  <2>2. UNCHANGED <<sock, peer, toServer, toClient>>
    BY <1>3 DEF LookForClient, KickClient, JoinKicked, SpawnClientThread, peerVars, channelVars, socketVars
  <2> QED BY <2>1, <2>2 DEF Ungreeted, ServerAt
<1>4. CASE StopServer
  BY <1>0, <1>4 DEF StopServer, Pending, Ungreeted, ServerAt, peerVars, channelVars
<1>5. ASSUME NEW c \in Conns, ClientThread(c) PROVE GreetsFirst'
  <2>1. ~Ungreeted(c) /\ UNCHANGED <<server, peer>>
    BY <1>5 DEF ClientThread, SendHandshake, SetUp, LeaveLoop, Report, Serve, ServeNothing, GiveUpName, At,
                AcceptedFirst, Ungreeted, peerVars
  <2>2. UNCHANGED sock \/ sock' = [sock EXCEPT ![c] = "closed"]
    BY <1>5 DEF ClientThread, SendHandshake, SetUp, LeaveLoop, Report, Serve, ServeCommand, ServeDelete, ServeCopy,
                ServeNothing, GiveUpName, Goto, Hangup, socketVars
  <2>3. \A d \in Conns \ {c} : toServer'[d] = toServer[d]
    BY <1>0, <1>5 DEF ClientThread, SendHandshake, SetUp, LeaveLoop, Report, Serve, ServeNothing, GiveUpName, channelVars
  <2>4. UNCHANGED toClient \/ \E msg : Send(c, msg)
    BY <1>5 DEF ClientThread, SendHandshake, WriteFails, SetUp, LeaveLoop, Report, TellDriver, TellCapture, TellChild,
                TellProgress, TellWindows, TellShow, TellNothing, Serve, ServeCommand, ServeDelete, ServeCopy,
                ServeNothing, GiveUpName, channelVars
  <2>5. \A d \in Conns \ {c} : toClient'[d] = toClient[d] /\ sock'[d] = sock[d]
    BY <1>0, <2>2, <2>4 DEF Send
  <2>6. ~Ungreeted(c)'
    BY <1>0, <2>1, <2>2 DEF Ungreeted, ServerAt
  <2> QED BY <2>1, <2>3, <2>5, <2>6 DEF Ungreeted, ServerAt
<1>6. ASSUME NEW c \in Conns, Controller(c) PROVE GreetsFirst'
  <2> USE <1>0 DEF Ungreeted, ServerAt, threadVars, socketVars, channelVars
  <2>1. CASE Connect(c) \/ Disconnected(c) \/ Close(c)
    BY <2>1 DEF Connect, Disconnected, Close
  <2>2. ASSUME NEW v \in Versions, NEW kick \in BOOLEAN, SayHello(c, v, kick) PROVE GreetsFirst'
    <3> DEFINE hello == [type |-> "hello", version |-> v, kick |-> kick]
    <3>1. hello \in Greetings
      BY DEF Greetings
    <3>2. toServer[c] \in Seq(Greetings) => Append(toServer[c], hello) \in Seq(Greetings)
      BY <3>1, AppendElement
    <3>3. /\ toServer' = toServer \/ toServer' = [toServer EXCEPT ![c] = Append(toServer[c], hello)]
          /\ \E x \in {"closed", "greeted"} : peer' = [peer EXCEPT ![c] = x]
          /\ UNCHANGED <<server, sock, toClient>>
      BY <2>2 DEF SayHello
    <3> HIDE DEF hello
    <3> QED BY <3>2, <3>3
  <2>3. CASE Receive(c)
    BY <2>3 DEF Receive
  <2>4. ASSUME NEW type, NEW id, Request(c, type, id) PROVE GreetsFirst'
    BY <2>4 DEF Request
  <2> QED BY <1>6, <2>1, <2>2, <2>3, <2>4 DEF Controller, SendCommand, AskFor
<1>7. CASE Program
  BY <1>7 DEF Program, ListCapture, DeleteFile, SetDriver, AddChildProcess, ShowReplayUI, RemoveHooks,
              HooksRemoved, SetWindowCount, SetProgress, Ungreeted, ServerAt, peerVars, channelVars, socketVars
<1>8. CASE UNCHANGED vars
  BY <1>8 DEF vars, Ungreeted, ServerAt, peerVars, channelVars, socketVars
<1> QED BY <1>1, <1>2, <1>3, <1>4, <1>5, <1>6, <1>7, <1>8 DEF Next, Server

\* What is told of in one state is told of after a step that only adds to the list.
LEMMA PrefixStays ==
  ASSUME m_Captures \in Seq([cap : Caps, retrieved : BOOLEAN]), NEW c, ToldPrefix(c),
         told'[c] = told[c], Len(m_Captures') \in Nat, Len(m_Captures) <= Len(m_Captures'),
         \A i \in 1 .. Len(m_Captures) : m_Captures'[i].cap = m_Captures[i].cap
  PROVE  ToldPrefix(c)'
<1>1. PICK n \in 0 .. Len(m_Captures) : told[c].captures = [i \in 1 .. n |-> m_Captures[i].cap]
  BY DEF ToldPrefix
<1>2. Len(m_Captures) \in Nat /\ n \in 0 .. Len(m_Captures')
  OBVIOUS
<1>3. [i \in 1 .. n |-> m_Captures[i].cap] = [i \in 1 .. n |-> m_Captures'[i].cap]
  BY <1>2
<1> QED BY <1>1, <1>2, <1>3 DEF ToldPrefix

\* The list is pruned by a thread that has told nothing, while no other runs.
LEMMA PruningIsAlone ==
  ASSUME CoreInv, NEW c \in Conns, SetUp(c) PROVE \A d \in Conns : InService(d) => d = c
  BY DEF CoreInv, SlotInv, RunnerHoldsName, SetUp, At, InService

\* Telling of the next capture lengthens the prefix by one.
LEMMA PrefixGrows ==
  ASSUME CoreInv, NEW c \in Conns, At(c, "loop"), TellCapture(c), UNCHANGED m_Captures
  PROVE  ToldPrefix(c)'
<1> DEFINE idx == Len(told[c].captures) + 1
<1>1. PICK n \in 0 .. Len(m_Captures) : told[c].captures = [i \in 1 .. n |-> m_Captures[i].cap]
  BY DEF CoreInv, ToldInv, ToldPrefix, InLoop, At
<1>2. told[c].captures \in Seq(Caps) /\ Len(m_Captures) \in Nat /\ DOMAIN m_Captures = 1 .. Len(m_Captures)
  BY ToldUpdated DEF CoreInv, TypeOK, ThreadTypes, CaptureTypes
<1>3. Len(told[c].captures) = n /\ idx = n + 1 /\ idx \in 1 .. Len(m_Captures)
  <2>1. idx \in DOMAIN m_Captures
    BY NextInList DEF TellCapture
  <2>2. Len(told[c].captures) = n
    BY <1>1, <1>2
  <2> QED BY <1>2, <2>1, <2>2
<1>4. m_Captures[idx].cap \in Caps
  BY <1>2, <1>3, ListedCapture DEF CoreInv, TypeOK
<1>5. NextCapture(c) = [i \in 1 .. n + 1 |-> m_Captures[i].cap]
  BY <1>1, <1>2, <1>3, <1>4 DEF NextCapture
<1>6. told'[c].captures = NextCapture(c)
  BY DEF TellCapture, CoreInv, TypeOK, ThreadTypes, ToldType
<1> QED BY <1>3, <1>5, <1>6 DEF ToldPrefix

LEMMA ToldKept == ASSUME CoreInv, [Next]_vars PROVE ToldInv'
<1> USE DEF CoreInv, ToldInv
<1>0. /\ thread \in [Conns -> {"none", "hello", "setup", "loop", "serve", "leave", "drop", "gone"}]
      /\ told \in [Conns -> ToldType]
      /\ m_Captures \in Seq([cap : Caps, retrieved : BOOLEAN])
      /\ Len(m_Captures) \in Nat /\ DOMAIN m_Captures = 1 .. Len(m_Captures)
  BY DEF TypeOK, ThreadTypes, CaptureTypes
<1>1. ASSUME NEW c \in Conns, told'[c] = told[c], ToldPrefix(c), \A d \in Conns : ~SetUp(d)
      PROVE  ToldPrefix(c)'
  <2>1. CASE UNCHANGED m_Captures
    BY <1>0, <1>1, <2>1, PrefixStays
  <2>2. ASSUME NEW id, MarkCaptureRetrieved(id) PROVE ToldPrefix(c)'
    BY <1>0, <1>1, <2>2, MarkKeepsCaps, PrefixStays DEF TypeOK
  <2>3. CASE made + 1 \in Caps /\ m_Captures' = Append(m_Captures, [cap |-> made + 1, retrieved |-> FALSE])
    <3>1. Len(m_Captures') = Len(m_Captures) + 1
          /\ \A i \in 1 .. Len(m_Captures) : m_Captures'[i] = m_Captures[i]
      BY <1>0, <2>3
    <3> QED BY <1>0, <1>1, <3>1, PrefixStays
  <2> QED BY <1>1, <2>1, <2>2, <2>3, ListSteps
<1>2. ASSUME UNCHANGED <<thread, told>>, \A d \in Conns : ~SetUp(d) PROVE ToldInv'
  BY <1>1, <1>2 DEF InLoop
<1>3. CASE Server
  <2>1. CASE SpawnClientThread
    <3>1. \A d \in Conns : ~SetUp(d)
      BY <1>0, <2>1 DEF SpawnClientThread, SetUp, Goto, ServerAt, At, captureVars, channelVars, SlotInv, ServerShape,
                        AcceptedFirst
    <3>2. server.client \in Conns /\ told[server.client].captures = <<>>
      BY <2>1 DEF SpawnClientThread, SlotInv, ServerShape, ServerAt, AcceptedFirst
    <3>3. thread' = [thread EXCEPT ![server.client] = "hello"] /\ UNCHANGED told
      BY <2>1 DEF SpawnClientThread, Goto
    <3> QED BY <1>0, <1>1, <3>1, <3>2, <3>3 DEF InLoop
  <2>2. CASE ~SpawnClientThread
    <3>1. UNCHANGED <<thread, told, callback>>
      BY <1>3, <2>2 DEF Server, AcceptClient, ReadHandshake, HandshakeFails, LookForClient, KickClient, JoinKicked,
                        SendBusy, StopServer, threadVars, progressVars
    <3>2. \A d \in Conns : ~SetUp(d)
      BY <1>0, <3>1 DEF SetUp, Goto, At
    <3> QED BY <1>2, <3>1, <3>2
  <2> QED BY <2>1, <2>2
<1>4. ASSUME NEW c \in Conns, ClientThread(c) PROVE ToldInv'
  <2>1. CASE SetUp(c)
    <3>1. thread' = [thread EXCEPT ![c] = "loop"] /\ UNCHANGED told /\ told[c].captures = <<>>
      BY <2>1 DEF SetUp, Goto, At
    <3>2. \A d \in Conns \ {c} : ~InLoop(d)
      BY <2>1, PruningIsAlone DEF InLoop, InService
    <3>3. Len(m_Captures') \in Nat
      <4>1. m_Captures' \in Seq([cap : Caps, retrieved : BOOLEAN])
        BY CaptureTypesKept DEF CaptureTypes
      <4> QED BY <4>1
    <3>4. ToldPrefix(c)'
      <4>1. <<>> = [i \in 1 .. 0 |-> m_Captures'[i].cap]
        OBVIOUS
      <4> QED BY <3>1, <3>3, <4>1 DEF ToldPrefix
    <3> QED BY <1>0, <3>1, <3>2, <3>4 DEF InLoop
  <2>2. CASE ~SetUp(c)
    <3>1. \A d \in Conns : ~SetUp(d)
      <4>1. thread'[c] # thread[c] \/ UNCHANGED thread
        BY <1>0, <1>4, <2>2 DEF ClientThread, SendHandshake, LeaveLoop, Report, Serve, ServeCommand, ServeDelete,
                         ServeCopy, ServeNothing, GiveUpName, Goto, Hangup, At
      <4>2. ASSUME NEW d \in Conns, SetUp(d) PROVE d = c
        BY <1>0, <1>4, <4>1, <4>2 DEF SetUp, Goto, At
      <4> QED BY <2>2, <4>2
    <3>2. \A d \in Conns \ {c} : thread'[d] = thread[d] /\ told'[d] = told[d]
      BY <1>0, <1>4, <2>2 DEF ClientThread, SendHandshake, LeaveLoop, Report, TellDriver, TellCapture, TellChild,
                       TellProgress, TellWindows, TellShow, TellNothing, Serve, ServeCommand, ServeDelete, ServeCopy,
                       ServeNothing, GiveUpName, Goto, Hangup, threadVars
    <3>3. thread'[c] \in {"none", "hello", "setup"} => told'[c].captures = <<>>
      BY <1>0, <1>4, <2>2 DEF ClientThread, SendHandshake, AfterHello, LeaveLoop, Report, Serve, ServeCommand,
                       ServeDelete, ServeCopy, ServeNothing, GiveUpName, Goto, Hangup, At, threadVars
    <3>4. InLoop(c)' => ToldPrefix(c)'
      <4>1. CASE Report(c) /\ TellCapture(c)
        BY <4>1, PrefixGrows DEF Report, captureVars
      <4>2. CASE Report(c) /\ ~TellCapture(c)
        <5>1. told'[c].captures = told[c].captures
          BY <1>0, <4>2 DEF Report, TellDriver, TellChild, TellProgress, TellWindows, TellShow, TellNothing, ToldType
        <5>2. UNCHANGED m_Captures /\ ToldPrefix(c)
          BY <4>2 DEF Report, captureVars, InLoop, At
        <5> QED BY <5>1, <5>2 DEF ToldPrefix
      <4>3. CASE Serve(c) \/ ServeNothing(c)
        <5>1. UNCHANGED told /\ ToldPrefix(c)
          BY <4>3 DEF Serve, ServeNothing, threadVars, InLoop, At
        <5> QED BY <1>1, <3>1, <5>1
      <4>4. CASE SendHandshake(c) \/ LeaveLoop(c) \/ GiveUpName(c)
        BY <1>0, <4>4 DEF SendHandshake, AfterHello, LeaveLoop, GiveUpName, Goto, Hangup, InLoop
      <4> QED BY <1>4, <2>2, <4>1, <4>2, <4>3, <4>4 DEF ClientThread
    <3> QED BY <1>1, <3>1, <3>2, <3>3, <3>4 DEF InLoop
  <2> QED BY <2>1, <2>2
<1>5. ASSUME NEW c \in Conns, Controller(c) PROVE ToldInv'
  <2>1. UNCHANGED <<thread, told>>
    BY <1>5 DEF Controller, Connect, SayHello, Receive, Disconnected, SendCommand, AskFor, Request, Close, threadVars
  <2> QED BY <1>0, <1>2, <2>1 DEF SetUp, Goto, At
<1>6. CASE Program
  <2>1. UNCHANGED <<thread, told>>
    BY <1>6 DEF Program, ListCapture, DeleteFile, SetDriver, AddChildProcess, ShowReplayUI, RemoveHooks,
                HooksRemoved, SetWindowCount, SetProgress, threadVars
  <2> QED BY <1>0, <1>2, <2>1 DEF SetUp, Goto, At
<1>7. CASE UNCHANGED vars
  BY <1>0, <1>2, <1>7 DEF vars, threadVars, SetUp, Goto, At
<1> QED BY <1>3, <1>4, <1>5, <1>6, <1>7 DEF Next

\* Types, the slot, the order of the greeting and the captures told of hold together in
\* every reachable state of the server thread, the client threads and the program.
THEOREM CoreAlways == Spec => []CoreInv
<1>1. Init => CoreInv
  BY InitCore
<1>2. CoreInv /\ [Next]_vars => CoreInv'
  <2> SUFFICES ASSUME CoreInv, [Next]_vars PROVE CoreInv'
    OBVIOUS
  <2>1. TypeOK'
    BY ServerTypesKept, ThreadTypesKept, CaptureTypesKept, ProgramTypesKept, PeerTypesKept DEF TypeOK
  <2>2. SlotInv'
    BY SlotKept DEF CoreInv
  <2> QED BY <2>1, <2>2, AcceptedKept, GreetsKept, ToldKept DEF CoreInv
<1> QED BY <1>1, <1>2, PTL DEF Spec

\* Every variable keeps its type: whatever a controller sends and whenever it closes, the
\* threads find the messages they expect and use no index that is out of the list.
THEOREM TypeCorrect == Spec => []TypeOK
  BY CoreAlways, PTL DEF CoreInv

\* A capture's id means the same capture to the program and to its controller, for any
\* controllers, requests, captures and deleted files.
THEOREM IdsAlwaysAgree == Spec => []IdsAgree
<1>1. CoreInv => IdsAgree
  <2> SUFFICES ASSUME CoreInv, NEW c \in Conns, InLoop(c)
               PROVE  /\ Len(told[c].captures) <= Len(m_Captures)
                      /\ told[c].captures = SubSeq(ListedCaps, 1, Len(told[c].captures))
    BY DEF IdsAgree
  <2>1. PICK n \in 0 .. Len(m_Captures) : told[c].captures = [i \in 1 .. n |-> m_Captures[i].cap]
    BY DEF CoreInv, ToldInv, ToldPrefix
  <2>2. Len(m_Captures) \in Nat /\ DOMAIN m_Captures = 1 .. Len(m_Captures) /\ told[c].captures \in Seq(Caps)
    BY ToldUpdated DEF CoreInv, TypeOK, ThreadTypes, CaptureTypes
  <2>3. Len(told[c].captures) = n /\ n \in Nat
    BY <2>1, <2>2
  <2>4. ListedCaps = [i \in 1 .. Len(m_Captures) |-> m_Captures[i].cap]
    BY <2>2 DEF ListedCaps
  <2>5. SubSeq(ListedCaps, 1, n) = [i \in 1 .. n |-> m_Captures[i].cap]
    BY <2>2, <2>3, <2>4
  <2> QED BY <2>1, <2>2, <2>3, <2>5
<1> QED BY <1>1, CoreAlways, PTL

-----------------------------------------------------------------------------
(* What is marked retrieved was asked for.  A request carries an index of   *)
(* the controller's own list, so that list has to be the program's as far   *)
(* as it goes: what the controller holds is the beginning of what its       *)
(* client thread has told of, and the messages under way carry the rest, in *)
(* order.                                                                   *)

\* The list known, then the captures announced in the messages q, are the list tell.
Follows(q, list, tell) ==
  /\ Len(list) <= Len(tell)
  /\ \A i \in 1 .. Len(list) : list[i] = tell[i]
  /\ \A k \in 1 .. Len(q) : q[k].type = "capture" =>
       /\ q[k].id \in Len(list) + 1 .. Len(tell)
       /\ q[k].cap = tell[q[k].id]
  /\ \A j, k \in 1 .. Len(q) :
       j < k /\ q[j].type = "capture" /\ q[k].type = "capture" => q[j].id < q[k].id
  /\ \A n \in Len(list) + 1 .. Len(tell) :
       \E k \in 1 .. Len(q) : q[k].type = "capture" /\ q[k].id = n

\* The requests q are for captures of the list tell that were asked for, or for none.
AskedFor(q, tell, caps) ==
  \A k \in 1 .. Len(q) : q[k].type \in {"copy", "delete"} =>
    q[k].id = 0 \/ (q[k].id \in 1 .. Len(tell) /\ tell[q[k].id] \in caps)

\* Until a client thread has ended: what its controller knows, and what was asked of it.
AskedInv ==
  \A c \in Conns : thread[c] # "gone" =>
    /\ peer[c] # "closed" => Follows(toClient[c], known[c], told[c].captures)
    /\ AskedFor(toServer[c], told[c].captures, asked)

\* A message that announces no capture changes nothing.
LEMMA FollowsOther ==
  ASSUME NEW S, NEW q \in Seq(S), NEW list, NEW tell, Follows(q, list, tell), NEW msg, msg.type # "capture"
  PROVE  Follows(Append(q, msg), list, tell)
<1> DEFINE r == Append(q, msg)
<1>1. Len(r) = Len(q) + 1 /\ Len(q) \in Nat /\ r[Len(q) + 1] = msg /\ \A k \in 1 .. Len(q) : r[k] = q[k]
  OBVIOUS
<1>2. \A k \in 1 .. Len(r) : r[k].type = "capture" => k \in 1 .. Len(q) /\ r[k] = q[k]
  BY <1>1
<1> HIDE DEF r
<1> QED BY <1>1, <1>2 DEF Follows

\* The next capture is told of, and announced.
LEMMA FollowsTell ==
  ASSUME NEW S, NEW q \in Seq(S), NEW T, NEW list \in Seq(T), NEW tell \in Seq(T), Follows(q, list, tell),
         NEW cap \in T, NEW msg, msg.type = "capture", msg.id = Len(tell) + 1, msg.cap = cap
  PROVE  Follows(Append(q, msg), list, Append(tell, cap))
<1> DEFINE r == Append(q, msg)
           more == Append(tell, cap)
<1>1. Len(r) = Len(q) + 1 /\ Len(q) \in Nat /\ r[Len(q) + 1] = msg /\ \A k \in 1 .. Len(q) : r[k] = q[k]
  OBVIOUS
<1>2. /\ Len(more) = Len(tell) + 1 /\ Len(tell) \in Nat /\ Len(list) \in Nat
      /\ more[Len(tell) + 1] = cap /\ \A k \in 1 .. Len(tell) : more[k] = tell[k]
  OBVIOUS
<1> HIDE DEF r, more
<1>3. Len(list) <= Len(more) /\ \A i \in 1 .. Len(list) : list[i] = more[i]
  <2>1. Len(list) <= Len(tell) /\ \A i \in 1 .. Len(list) : list[i] = tell[i]
    BY DEF Follows
  <2>2. \A i \in 1 .. Len(list) : i \in 1 .. Len(tell)
    BY <1>2, <2>1
  <2> QED BY <1>2, <2>1, <2>2
<1>4. ASSUME NEW k \in 1 .. Len(r), r[k].type = "capture"
      PROVE  r[k].id \in Len(list) + 1 .. Len(more) /\ r[k].cap = more[r[k].id]
  <2>1. CASE k = Len(q) + 1
    BY <1>1, <1>2, <2>1 DEF Follows
  <2>2. CASE k \in 1 .. Len(q)
    <3>1. q[k].id \in Len(list) + 1 .. Len(tell) /\ q[k].cap = tell[q[k].id] /\ r[k] = q[k]
      BY <1>1, <1>4, <2>2 DEF Follows
    <3>2. q[k].id \in 1 .. Len(tell)
      BY <1>2, <3>1
    <3> QED BY <1>2, <3>1, <3>2
  <2> QED BY <1>1, <2>1, <2>2
<1>5. ASSUME NEW j \in 1 .. Len(r), NEW k \in 1 .. Len(r), j < k, r[j].type = "capture", r[k].type = "capture"
      PROVE  r[j].id < r[k].id
  <2>1. j \in 1 .. Len(q) /\ r[j] = q[j]
    BY <1>1, <1>5
  <2>2. q[j].id \in Len(list) + 1 .. Len(tell)
    BY <1>5, <2>1 DEF Follows
  <2>3. CASE k = Len(q) + 1
    BY <1>1, <1>2, <2>1, <2>2, <2>3
  <2>4. CASE k \in 1 .. Len(q)
    BY <1>1, <1>5, <2>1, <2>4 DEF Follows
  <2> QED BY <1>1, <2>3, <2>4
<1>6. ASSUME NEW n \in Len(list) + 1 .. Len(more)
      PROVE  \E k \in 1 .. Len(r) : r[k].type = "capture" /\ r[k].id = n
  <2>1. CASE n = Len(tell) + 1
    BY <1>1, <2>1
  <2>2. CASE n \in Len(list) + 1 .. Len(tell)
    <3>1. PICK k \in 1 .. Len(q) : q[k].type = "capture" /\ q[k].id = n
      BY <2>2 DEF Follows
    <3> QED BY <1>1, <3>1
  <2> QED BY <1>2, <2>1, <2>2
<1> QED BY <1>3, <1>4, <1>5, <1>6 DEF Follows, r, more

\* The first message is read, and is no capture.
LEMMA FollowsReadOther ==
  ASSUME NEW S, NEW q \in Seq(S), q # <<>>, NEW list, NEW tell, Follows(q, list, tell), Head(q).type # "capture"
  PROVE  Follows(Tail(q), list, tell)
<1> DEFINE r == Tail(q)
<1>1. Len(q) = Len(r) + 1 /\ Len(r) \in Nat /\ q[1] = Head(q) /\ \A k \in 1 .. Len(r) : r[k] = q[k + 1]
  OBVIOUS
<1> HIDE DEF r
<1>2. \A k \in 1 .. Len(r) : k + 1 \in 1 .. Len(q)
  BY <1>1
<1>3. ASSUME NEW n \in Len(list) + 1 .. Len(tell)
      PROVE  \E k \in 1 .. Len(r) : r[k].type = "capture" /\ r[k].id = n
  <2>1. PICK k \in 1 .. Len(q) : q[k].type = "capture" /\ q[k].id = n
    BY DEF Follows
  <2>2. k # 1
    BY <1>1, <2>1
  <2>3. k - 1 \in 1 .. Len(r) /\ r[k - 1] = q[k]
    BY <1>1, <2>2
  <2> QED BY <2>1, <2>3
<1>4. Len(list) <= Len(tell) /\ \A i \in 1 .. Len(list) : list[i] = tell[i]
  BY DEF Follows
<1>5. ASSUME NEW k \in 1 .. Len(r), r[k].type = "capture"
      PROVE  r[k].id \in Len(list) + 1 .. Len(tell) /\ r[k].cap = tell[r[k].id]
  <2>1. k + 1 \in 1 .. Len(q) /\ r[k] = q[k + 1]
    BY <1>1, <1>2
  <2> QED BY <1>5, <2>1 DEF Follows
<1>6. ASSUME NEW j \in 1 .. Len(r), NEW k \in 1 .. Len(r), j < k, r[j].type = "capture", r[k].type = "capture"
      PROVE  r[j].id < r[k].id
  <2>1. j + 1 < k + 1 /\ j + 1 \in 1 .. Len(q) /\ k + 1 \in 1 .. Len(q) /\ r[j] = q[j + 1] /\ r[k] = q[k + 1]
    BY <1>1, <1>2, <1>6
  <2> QED BY <1>6, <2>1 DEF Follows
<1> QED BY <1>3, <1>4, <1>5, <1>6 DEF Follows, r

\* The first message is read, and is the next capture.
LEMMA FollowsReadCapture ==
  ASSUME NEW S, NEW q \in Seq(S), q # <<>>, NEW T, NEW list \in Seq(T), NEW tell \in Seq(T),
         Follows(q, list, tell), Head(q).type = "capture", Head(q).cap \in T
  PROVE  Follows(Tail(q), Append(list, Head(q).cap), tell)
<1> DEFINE r == Tail(q)
           more == Append(list, Head(q).cap)
<1>1. Len(q) = Len(r) + 1 /\ Len(r) \in Nat /\ q[1] = Head(q) /\ \A k \in 1 .. Len(r) : r[k] = q[k + 1]
  OBVIOUS
<1>2. /\ Len(more) = Len(list) + 1 /\ Len(tell) \in Nat /\ Len(list) \in Nat
      /\ more[Len(list) + 1] = Head(q).cap /\ \A k \in 1 .. Len(list) : more[k] = list[k]
  OBVIOUS
<1> HIDE DEF r, more
<1>3. 1 \in 1 .. Len(q) /\ \A k \in 1 .. Len(r) : k + 1 \in 1 .. Len(q)
  BY <1>1
<1>4. q[1].id \in Len(list) + 1 .. Len(tell) /\ q[1].cap = tell[q[1].id] /\ q[1].type = "capture"
  BY <1>1, <1>3 DEF Follows
<1>5. \A k \in 1 .. Len(q) : k # 1 /\ q[k].type = "capture" => q[1].id < q[k].id
  <2> TAKE k \in 1 .. Len(q)
  <2> HAVE k # 1 /\ q[k].type = "capture"
  <2>1. 1 < k
    BY <1>1
  <2> QED BY <1>3, <1>4, <2>1 DEF Follows
<1>6. q[1].id = Len(list) + 1
  <2>1. Len(list) + 1 \in Len(list) + 1 .. Len(tell)
    BY <1>2, <1>4
  <2>2. PICK k \in 1 .. Len(q) : q[k].type = "capture" /\ q[k].id = Len(list) + 1
    BY <2>1 DEF Follows
  <2> QED BY <1>2, <1>4, <1>5, <2>2
<1>7. Len(more) <= Len(tell) /\ \A i \in 1 .. Len(more) : more[i] = tell[i]
  <2>1. \A i \in 1 .. Len(list) : list[i] = tell[i]
    BY DEF Follows
  <2>2. more[Len(list) + 1] = tell[Len(list) + 1]
    BY <1>1, <1>2, <1>4, <1>6
  <2>3. Len(list) + 1 <= Len(tell)
    BY <1>2, <1>4
  <2>4. \A i \in 1 .. Len(more) : i \in 1 .. Len(list) \/ i = Len(list) + 1
    BY <1>2
  <2> QED BY <1>2, <2>1, <2>2, <2>3, <2>4
<1>8. ASSUME NEW k \in 1 .. Len(r), r[k].type = "capture"
      PROVE  r[k].id \in Len(more) + 1 .. Len(tell) /\ r[k].cap = tell[r[k].id]
  <2>1. k + 1 \in 1 .. Len(q) /\ k + 1 # 1 /\ r[k] = q[k + 1]
    BY <1>1, <1>3
  <2>2. q[k + 1].id \in Len(list) + 1 .. Len(tell) /\ q[k + 1].cap = tell[q[k + 1].id]
    BY <1>8, <2>1 DEF Follows
  <2>3. q[1].id < q[k + 1].id
    BY <1>5, <1>8, <2>1
  <2> QED BY <1>2, <1>6, <2>1, <2>2, <2>3
<1>9. ASSUME NEW j \in 1 .. Len(r), NEW k \in 1 .. Len(r), j < k, r[j].type = "capture", r[k].type = "capture"
      PROVE  r[j].id < r[k].id
  <2>1. j + 1 < k + 1 /\ j + 1 \in 1 .. Len(q) /\ k + 1 \in 1 .. Len(q) /\ r[j] = q[j + 1] /\ r[k] = q[k + 1]
    BY <1>1, <1>3, <1>9
  <2> QED BY <1>9, <2>1 DEF Follows
<1>10. ASSUME NEW n \in Len(more) + 1 .. Len(tell)
       PROVE  \E k \in 1 .. Len(r) : r[k].type = "capture" /\ r[k].id = n
  <2>1. n \in Len(list) + 1 .. Len(tell) /\ n # Len(list) + 1
    BY <1>2
  <2>2. PICK k \in 1 .. Len(q) : q[k].type = "capture" /\ q[k].id = n
    BY <2>1 DEF Follows
  <2>3. k # 1
    <3>1. CASE k = 1
      <4>1. q[k].id = Len(list) + 1
        BY <1>6, <3>1
      <4> QED BY <2>1, <2>2, <4>1
    <3> QED BY <3>1
  <2>4. k - 1 \in 1 .. Len(r)
    BY <1>1, <2>3
  <2>5. r[k - 1] = q[k]
    BY <1>1, <2>4
  <2> QED BY <2>2, <2>4, <2>5
<1> QED BY <1>7, <1>8, <1>9, <1>10 DEF Follows, r, more

\* Requests stay asked for while more is told of and more is asked for.
LEMMA AskedForMore ==
  ASSUME NEW q, NEW T, NEW tell \in Seq(T), NEW cap \in T, NEW caps, NEW more, AskedFor(q, tell, caps), caps \subseteq more
  PROVE  AskedFor(q, tell, more) /\ AskedFor(q, Append(tell, cap), more)
<1>1. Len(Append(tell, cap)) = Len(tell) + 1 /\ Len(tell) \in Nat
      /\ \A i \in 1 .. Len(tell) : Append(tell, cap)[i] = tell[i]
  OBVIOUS
<1>2. AskedFor(q, tell, more)
  BY DEF AskedFor
<1>3. AskedFor(q, Append(tell, cap), more)
  BY <1>1 DEF AskedFor
<1> QED BY <1>2, <1>3

\* The first request is read.
LEMMA AskedForTail ==
  ASSUME NEW S, NEW q \in Seq(S), q # <<>>, NEW tell, NEW caps, AskedFor(q, tell, caps)
  PROVE  /\ AskedFor(Tail(q), tell, caps)
         /\ Head(q).type \in {"copy", "delete"} =>
              Head(q).id = 0 \/ (Head(q).id \in 1 .. Len(tell) /\ tell[Head(q).id] \in caps)
<1>1. /\ Len(q) = Len(Tail(q)) + 1 /\ Len(Tail(q)) \in Nat /\ q[1] = Head(q)
      /\ \A k \in 1 .. Len(Tail(q)) : Tail(q)[k] = q[k + 1]
  OBVIOUS
<1>2. 1 \in 1 .. Len(q) /\ \A k \in 1 .. Len(Tail(q)) : k + 1 \in 1 .. Len(q)
  BY <1>1
<1> QED BY <1>1, <1>2 DEF AskedFor

\* One more is made.
LEMMA AskedForAppend ==
  ASSUME NEW S, NEW q \in Seq(S), NEW tell, NEW caps, AskedFor(q, tell, caps), NEW msg,
         msg.type \in {"copy", "delete"} => msg.id = 0 \/ (msg.id \in 1 .. Len(tell) /\ tell[msg.id] \in caps)
  PROVE  AskedFor(Append(q, msg), tell, caps)
<1>1. /\ Len(Append(q, msg)) = Len(q) + 1 /\ Len(q) \in Nat /\ Append(q, msg)[Len(q) + 1] = msg
      /\ \A k \in 1 .. Len(q) : Append(q, msg)[k] = q[k]
  OBVIOUS
<1> QED BY <1>1 DEF AskedFor

Asks(c) ==
  thread[c] # "gone" =>
    /\ peer[c] # "closed" => Follows(toClient[c], known[c], told[c].captures)
    /\ AskedFor(toServer[c], told[c].captures, asked)

LEMMA AsksTypes ==
  ASSUME CoreInv, NEW d \in Conns
  PROVE  /\ toServer[d] \in Seq(ClientMessages) /\ toClient[d] \in Seq(ServerMessages)
         /\ told[d].captures \in Seq(Caps) /\ known[d] \in Seq(Caps)
<1>1. toServer[d] \in Seq(ClientMessages) /\ toClient[d] \in Seq(ServerMessages) /\ known[d] \in Seq(Caps)
  BY DEF CoreInv, TypeOK, PeerTypes
<1>2. told[d].captures \in Seq(Caps)
  BY ToldUpdated DEF CoreInv, TypeOK, ThreadTypes
<1> QED BY <1>1, <1>2

\* A connection of which a step changes nothing that matters here.
LEMMA AsksQuiet ==
  ASSUME CoreInv, NEW d \in Conns, Asks(d), thread'[d] # "gone" => thread[d] # "gone",
         told'[d].captures = told[d].captures, known'[d] = known[d],
         toClient'[d] = toClient[d], toServer'[d] = toServer[d],
         peer[d] = "closed" => peer'[d] = "closed", asked \subseteq asked'
  PROVE  Asks(d)'
  BY DEF Asks, AskedFor

\* One to which a message other than a capture was written.
LEMMA AsksSent ==
  ASSUME CoreInv, NEW d \in Conns, Asks(d), thread'[d] # "gone" => thread[d] # "gone",
         told'[d].captures = told[d].captures, known'[d] = known[d], UNCHANGED <<peer, asked>>,
         NEW msg, msg.type # "capture", Send(d, msg),
         toServer'[d] = toServer[d] \/ (toServer[d] # <<>> /\ toServer'[d] = Tail(toServer[d]))
  PROVE  Asks(d)'
<1> SUFFICES ASSUME thread'[d] # "gone" PROVE Asks(d)'
  BY DEF Asks
<1>1. /\ toServer[d] \in Seq(ClientMessages) /\ toClient[d] \in Seq(ServerMessages)
      /\ toClient \in [Conns -> Seq(ServerMessages)]
  BY AsksTypes DEF CoreInv, TypeOK, PeerTypes
<1>2. peer[d] # "closed" => toClient'[d] = Append(toClient[d], msg)
  BY <1>1 DEF Send
<1>3. peer[d] # "closed" => Follows(Append(toClient[d], msg), known[d], told[d].captures)
  BY <1>1, FollowsOther DEF Asks
<1>4. AskedFor(toServer'[d], told[d].captures, asked)
  BY <1>1, AskedForTail DEF Asks
<1> QED BY <1>2, <1>3, <1>4 DEF Asks

LEMMA ServerAsks == ASSUME CoreInv, AskedInv, Server, NEW d \in Conns PROVE Asks(d)'
<1>0. /\ thread \in [Conns -> {"none", "hello", "setup", "loop", "serve", "leave", "drop", "gone"}]
      /\ toServer \in [Conns -> Seq(ClientMessages)] /\ toClient \in [Conns -> Seq(ServerMessages)]
      /\ Asks(d)
  BY DEF CoreInv, TypeOK, ThreadTypes, PeerTypes, AskedInv, Asks
<1>1. UNCHANGED <<told, known, peer, asked>>
  BY DEF Server, AcceptClient, ReadHandshake, HandshakeFails, LookForClient, KickClient, JoinKicked,
         SpawnClientThread, SendBusy, StopServer, threadVars, peerVars
<1>2. thread'[d] # "gone" => thread[d] # "gone"
  <2>1. CASE SpawnClientThread
    BY <1>0, <2>1 DEF SpawnClientThread, Goto, CoreInv, SlotInv, ServerShape, ServerAt, AcceptedFirst
  <2>2. CASE ~SpawnClientThread
    BY <2>2 DEF Server, AcceptClient, ReadHandshake, HandshakeFails, LookForClient, KickClient, JoinKicked,
                SendBusy, StopServer, threadVars
  <2> QED BY <2>1, <2>2
<1>3. CASE ReadHandshake
  <2>1. server.client \in Conns /\ toServer[server.client] # <<>>
    BY <1>3 DEF ReadHandshake, CoreInv, SlotInv, ServerShape, ServerAt
  <2>2. toServer' = [toServer EXCEPT ![server.client] = Tail(toServer[server.client])] /\ UNCHANGED toClient
    BY <1>3 DEF ReadHandshake
  <2>3. CASE d = server.client
    <3>1. AskedFor(Tail(toServer[d]), told[d].captures, asked) \/ thread[d] = "gone"
      BY <1>0, <2>1, <2>3, AskedForTail DEF Asks
    <3> QED BY <1>0, <1>1, <1>2, <2>1, <2>2, <2>3, <3>1 DEF Asks
  <2>4. CASE d # server.client
    BY <1>0, <1>1, <1>2, <2>1, <2>2, <2>4, AsksQuiet
  <2> QED BY <2>3, <2>4
<1>4. CASE SendBusy
  <2>1. server.client \in Conns /\ Send(server.client, Plain("busy")) /\ UNCHANGED toServer
    BY <1>4 DEF SendBusy, CoreInv, SlotInv, ServerShape, ServerAt
  <2>2. Plain("busy").type # "capture"
    BY DEF Plain, Message
  <2>3. CASE d = server.client
    BY <1>0, <1>1, <1>2, <2>1, <2>2, <2>3, AsksSent
  <2>4. CASE d # server.client
    <3>1. toClient'[d] = toClient[d]
      BY <1>0, <2>1, <2>4 DEF Send
    <3> QED BY <1>0, <1>1, <1>2, <2>1, <3>1, AsksQuiet
  <2> QED BY <2>3, <2>4
<1>5. CASE ~ReadHandshake /\ ~SendBusy
  <2>1. UNCHANGED <<toServer, toClient>>
    BY <1>5 DEF Server, AcceptClient, HandshakeFails, LookForClient, KickClient, JoinKicked,
                SpawnClientThread, StopServer, channelVars
  <2> QED BY <1>0, <1>1, <1>2, <2>1, AsksQuiet
<1> QED BY <1>3, <1>4, <1>5

LEMMA ThreadAsks == ASSUME CoreInv, AskedInv, NEW c \in Conns, ClientThread(c), NEW d \in Conns PROVE Asks(d)'
<1>0. /\ thread \in [Conns -> {"none", "hello", "setup", "loop", "serve", "leave", "drop", "gone"}]
      /\ toServer \in [Conns -> Seq(ClientMessages)] /\ toClient \in [Conns -> Seq(ServerMessages)]
      /\ told \in [Conns -> ToldType] /\ Asks(c) /\ Asks(d)
  BY DEF CoreInv, TypeOK, ThreadTypes, PeerTypes, AskedInv, Asks
<1>1. UNCHANGED <<known, peer, asked>>
  BY DEF ClientThread, SendHandshake, SetUp, LeaveLoop, Report, Serve, ServeNothing, GiveUpName, peerVars
<1>2. thread[c] # "gone"
  BY DEF ClientThread, SendHandshake, SetUp, LeaveLoop, Report, Serve, ServeNothing, GiveUpName, At
<1>3. CASE SendHandshake(c)
  <2>1. UNCHANGED <<told, toServer>> /\ (UNCHANGED toClient \/ Send(c, Plain("handshake")))
    BY <1>3 DEF SendHandshake, WriteFails
  <2>2. Plain("handshake").type # "capture"
    BY DEF Plain, Message
  <2>3. thread'[d] # "gone" => thread[d] # "gone"
    BY <1>0, <1>2, <1>3 DEF SendHandshake, Goto, Hangup
  <2>4. CASE UNCHANGED toClient
    BY <1>0, <1>1, <2>1, <2>3, <2>4, AsksQuiet
  <2>5. CASE Send(c, Plain("handshake")) /\ d = c
    BY <1>0, <1>1, <2>1, <2>2, <2>3, <2>5, AsksSent
  <2>6. CASE Send(c, Plain("handshake")) /\ d # c
    <3>1. toClient'[d] = toClient[d]
      BY <1>0, <2>6 DEF Send
    <3> QED BY <1>0, <1>1, <2>1, <2>3, <3>1, AsksQuiet
  <2> QED BY <2>1, <2>4, <2>5, <2>6
<1>4. CASE SetUp(c) \/ LeaveLoop(c) \/ ServeNothing(c)
  <2>1. UNCHANGED <<told, toServer, toClient>>
    BY <1>4 DEF SetUp, LeaveLoop, ServeNothing, threadVars, channelVars
  <2>2. thread'[d] # "gone" => thread[d] # "gone"
    BY <1>0, <1>2, <1>4 DEF SetUp, LeaveLoop, ServeNothing, Goto, Hangup
  <2> QED BY <1>0, <1>1, <2>1, <2>2, AsksQuiet
<1>5. CASE GiveUpName(c)
  <2>1. d = c => thread'[d] = "gone"
    BY <1>0, <1>5 DEF GiveUpName, Goto
  <2>2. UNCHANGED <<toServer, toClient>> /\ (d # c => thread'[d] = thread[d] /\ told'[d] = told[d])
    BY <1>0, <1>5 DEF GiveUpName, Goto, channelVars
  <2>3. CASE d = c
    BY <2>1, <2>3 DEF Asks
  <2>4. CASE d # c
    BY <1>0, <1>1, <2>2, <2>4, AsksQuiet
  <2> QED BY <2>3, <2>4
<1>6. CASE Report(c)
  <2>1. UNCHANGED toServer /\ (thread'[d] # "gone" => thread[d] # "gone")
    BY <1>0, <1>2, <1>6 DEF Report, Goto, Hangup
  <2>2. CASE ~TellCapture(c)
    <3>1. told'[d].captures = told[d].captures
      <4>1. told'[c].captures = told[c].captures
        BY <1>0, <1>6, <2>2 DEF Report, TellDriver, TellChild, TellProgress, TellWindows, TellShow, TellNothing, ToldType
      <4>2. d # c => told'[d] = told[d]
        BY <1>0, <1>6, <2>2 DEF Report, TellDriver, TellChild, TellProgress, TellWindows, TellShow, TellNothing
      <4> QED BY <4>1, <4>2
    <3>2. UNCHANGED toClient
      BY <1>6, <2>2 DEF Report, TellDriver, TellChild, TellProgress, TellWindows, TellShow, TellNothing
    <3> QED BY <1>0, <1>1, <2>1, <3>1, <3>2, AsksQuiet
  <2>3. CASE TellCapture(c) /\ d # c
    <3>1. told'[d] = told[d] /\ toClient'[d] = toClient[d]
      BY <1>0, <2>3 DEF TellCapture, Send
    <3> QED BY <1>0, <1>1, <2>1, <3>1, AsksQuiet
  <2>4. CASE TellCapture(c) /\ d = c
    <3> DEFINE idx == Len(told[c].captures) + 1
               cap == m_Captures[idx].cap
               msg == Message("capture", idx, cap)
    <3>1. idx \in DOMAIN m_Captures
      BY <1>6, <2>4, NextInList DEF Report, TellCapture
    <3>2. cap \in Caps
      BY <3>1, ListedCapture DEF CoreInv, TypeOK
    <3>3. told'[c].captures = Append(told[c].captures, cap)
      BY <1>0, <2>4 DEF TellCapture, NextCapture, ToldType
    <3>4. peer[c] # "closed" => toClient'[c] = Append(toClient[c], msg)
      BY <1>0, <2>4 DEF TellCapture, Send
    <3>5. msg.type = "capture" /\ msg.id = Len(told[c].captures) + 1 /\ msg.cap = cap
      BY DEF Message
    <3>6. /\ toClient[c] \in Seq(ServerMessages)
          /\ told[c].captures \in Seq(Caps) /\ known[c] \in Seq(Caps)
      BY AsksTypes
    <3> HIDE DEF msg, cap
    <3>7. peer[c] # "closed" => Follows(Append(toClient[c], msg), known[c], Append(told[c].captures, cap))
      BY <1>0, <1>2, <3>2, <3>5, <3>6, FollowsTell DEF Asks
    <3>8. AskedFor(toServer[c], Append(told[c].captures, cap), asked)
      BY <1>0, <1>2, <3>2, <3>6, AskedForMore DEF Asks
    <3> QED BY <1>1, <2>1, <2>4, <3>3, <3>4, <3>7, <3>8 DEF Asks
  <2> QED BY <2>2, <2>3, <2>4
<1>7. CASE Serve(c)
  <2>1. UNCHANGED told /\ toServer[c] # <<>> /\ toServer' = [toServer EXCEPT ![c] = Tail(toServer[c])]
    BY <1>7 DEF Serve
  <2>2. thread'[d] # "gone" => thread[d] # "gone"
    BY <1>0, <1>2, <1>7 DEF Serve, ServeCommand, ServeDelete, ServeCopy, Goto, Hangup
  <2>3. UNCHANGED toClient \/ \E msg : msg.type # "capture" /\ Send(c, msg)
    <3>1. CASE ServeCommand(c) \/ ServeDelete(c)
      BY <3>1 DEF ServeCommand, ServeDelete
    <3>2. CASE ServeCopy(c)
      BY <3>2 DEF ServeCopy, Message
    <3> QED BY <1>7, <3>1, <3>2 DEF Serve
  <2>4. CASE d # c
    <3>1. toClient'[d] = toClient[d] /\ toServer'[d] = toServer[d]
      BY <1>0, <2>1, <2>3, <2>4 DEF Send
    <3> QED BY <1>0, <1>1, <2>1, <2>2, <3>1, AsksQuiet
  <2>5. CASE d = c /\ UNCHANGED toClient
    <3>1. AskedFor(Tail(toServer[c]), told[c].captures, asked)
      BY <1>0, <1>2, <2>1, AskedForTail DEF Asks
    <3>2. toServer'[d] = Tail(toServer[c])
      BY <1>0, <2>1, <2>5
    <3> QED BY <1>0, <1>1, <1>2, <2>1, <2>5, <3>1, <3>2 DEF Asks
  <2>6. CASE d = c /\ \E msg : msg.type # "capture" /\ Send(c, msg)
    <3>1. toServer'[d] = Tail(toServer[d]) /\ toServer[d] # <<>>
      BY <1>0, <2>1, <2>6
    <3> QED BY <1>0, <1>1, <2>1, <2>2, <2>6, <3>1, AsksSent
  <2> QED BY <2>3, <2>4, <2>5, <2>6
<1> QED BY <1>3, <1>4, <1>5, <1>6, <1>7 DEF ClientThread

\* A controller that reads its next message.
LEMMA ReceiveAsks ==
  ASSUME CoreInv, AskedInv, NEW c \in Conns, Receive(c) PROVE Asks(c)'
<1> DEFINE msg == Head(toClient[c])
<1>1. /\ toClient[c] \in Seq(ServerMessages) /\ toClient[c] # <<>>
      /\ told[c].captures \in Seq(Caps) /\ known[c] \in Seq(Caps) /\ Asks(c)
      /\ peer[c] \in {"greeted", "connected"}
      /\ peer \in [Conns -> {"unused", "open", "greeted", "connected", "closed"}]
      /\ known \in [Conns -> Seq(Caps)] /\ toClient \in [Conns -> Seq(ServerMessages)]
  BY AsksTypes DEF Receive, AskedInv, Asks, CoreInv, TypeOK, PeerTypes
<1>2. UNCHANGED <<thread, told, asked, toServer>>
  BY DEF Receive, threadVars
<1>3. toClient'[c] = Tail(toClient[c])
  BY <1>1 DEF Receive
<1>4. CASE msg.type = "busy"
  <2>1. peer'[c] = "closed"
    BY <1>1, <1>4 DEF Receive
  <2> QED BY <1>1, <1>2, <2>1 DEF Asks
<1>5. CASE msg.type = "capture"
  <2>1. known'[c] = Append(known[c], msg.cap)
    BY <1>1, <1>5 DEF Receive
  <2>2. msg.cap \in Caps
    <3>1. msg \in ServerMessages
      BY <1>1, HeadAndTail
    <3> HIDE DEF msg
    <3> QED BY <1>5, <3>1 DEF ServerMessages
  <2>3. thread[c] # "gone" => Follows(Tail(toClient[c]), Append(known[c], msg.cap), told[c].captures)
    BY <1>1, <1>5, <2>2, FollowsReadCapture DEF Asks
  <2> QED BY <1>1, <1>2, <1>3, <2>1, <2>3 DEF Asks
<1>6. CASE msg.type \notin {"busy", "capture"}
  <2>1. known'[c] = known[c]
    BY <1>1, <1>6 DEF Receive
  <2>2. thread[c] # "gone" => Follows(Tail(toClient[c]), known[c], told[c].captures)
    BY <1>1, <1>6, FollowsReadOther DEF Asks
  <2> QED BY <1>1, <1>2, <1>3, <2>1, <2>2 DEF Asks
<1> QED BY <1>4, <1>5, <1>6

\* A message a controller writes, when what it asks for is recorded with it.
LEMMA WriteAsks ==
  ASSUME CoreInv, NEW c \in Conns, Asks(c), UNCHANGED <<thread, told, known, toClient>>,
         peer[c] = "closed" => peer'[c] = "closed", asked \subseteq asked',
         NEW msg, toServer'[c] = toServer[c] \/ toServer'[c] = Append(toServer[c], msg),
         msg.type \in {"copy", "delete"} =>
           msg.id = 0 \/ (thread[c] # "gone" => msg.id \in 1 .. Len(told[c].captures) /\ told[c].captures[msg.id] \in asked')
  PROVE  Asks(c)'
<1>1. toServer[c] \in Seq(ClientMessages) /\ told[c].captures \in Seq(Caps)
  BY AsksTypes
<1>2. thread[c] # "gone" => AskedFor(toServer[c], told[c].captures, asked')
  BY DEF Asks, AskedFor
<1>3. thread[c] # "gone" => AskedFor(toServer'[c], told[c].captures, asked')
  BY <1>1, <1>2, AskedForAppend
<1> QED BY <1>3 DEF Asks

\* What a controller asks for it knows, so its client thread has told of it.
LEMMA AskForAsks ==
  ASSUME CoreInv, AskedInv, NEW c \in Conns, NEW type \in {"copy", "delete"}, NEW id \in {0} \cup DOMAIN known[c],
         AskFor(c, type, id)
  PROVE  Asks(c)'
<1> DEFINE msg == [type |-> type, id |-> id]
<1>1. /\ told[c].captures \in Seq(Caps) /\ known[c] \in Seq(Caps) /\ Asks(c) /\ peer[c] # "closed"
      /\ toServer \in [Conns -> Seq(ClientMessages)]
  BY AsksTypes DEF AskFor, Request, AskedInv, Asks, CoreInv, TypeOK, PeerTypes
<1>2. UNCHANGED <<thread, told, known, toClient, peer>> /\ asked \subseteq asked'
  BY DEF AskFor, Request, threadVars
<1>3. toServer'[c] = toServer[c] \/ toServer'[c] = Append(toServer[c], msg)
  BY <1>1 DEF AskFor, Request
<1>4. CASE id = 0
  <2>1. msg.id = 0
    BY <1>4
  <2> HIDE DEF msg
  <2> QED BY <1>1, <1>2, <1>3, <2>1, WriteAsks
<1>5. CASE id \in DOMAIN known[c]
  <2>1. id \in 1 .. Len(known[c]) /\ known[c][id] \in asked'
    BY <1>1, <1>5 DEF AskFor
  <2>2. thread[c] # "gone" => id \in 1 .. Len(told[c].captures) /\ told[c].captures[id] = known[c][id]
    <3>1. Len(known[c]) \in Nat /\ Len(told[c].captures) \in Nat
      BY <1>1
    <3> QED BY <1>1, <2>1, <3>1 DEF Asks, Follows
  <2>3. msg.id = id
    OBVIOUS
  <2> HIDE DEF msg
  <2> QED BY <1>1, <1>2, <1>3, <2>1, <2>2, <2>3, WriteAsks
<1> QED BY <1>4, <1>5

LEMMA ControllerAsks == ASSUME CoreInv, AskedInv, NEW c \in Conns, Controller(c), NEW d \in Conns PROVE Asks(d)'
<1>0. /\ peer \in [Conns -> {"unused", "open", "greeted", "connected", "closed"}]
      /\ toServer \in [Conns -> Seq(ClientMessages)] /\ toClient \in [Conns -> Seq(ServerMessages)]
      /\ known \in [Conns -> Seq(Caps)] /\ Asks(c) /\ Asks(d)
  BY DEF CoreInv, TypeOK, PeerTypes, AskedInv, Asks
<1>1. UNCHANGED <<thread, told>> /\ asked \subseteq asked'
  BY DEF Controller, Connect, SayHello, Receive, Disconnected, SendCommand, AskFor, Request, Close, threadVars
<1>2. CASE d # c
  <2>1. /\ peer'[d] = peer[d] /\ known'[d] = known[d]
        /\ toServer'[d] = toServer[d] /\ toClient'[d] = toClient[d]
    BY <1>0, <1>2 DEF Controller, Connect, SayHello, Receive, Disconnected, SendCommand, AskFor, Request, Close, channelVars
  <2> QED BY <1>0, <1>1, <2>1, AsksQuiet
<1>3. CASE d = c
  <2> SUFFICES Asks(c)'
    BY <1>3
  <2>1. CASE Connect(c)
    <3>1. UNCHANGED <<known, toServer, toClient>> /\ peer[c] # "closed"
      BY <2>1 DEF Connect, channelVars
    <3> QED BY <1>0, <1>1, <3>1, AsksQuiet
  <2>2. ASSUME NEW v \in Versions, NEW kick \in BOOLEAN, SayHello(c, v, kick) PROVE Asks(c)'
    <3> DEFINE hello == [type |-> "hello", version |-> v, kick |-> kick]
    <3>1. hello.type = "hello"
      OBVIOUS
    <3>2. /\ toServer'[c] = toServer[c] \/ toServer'[c] = Append(toServer[c], hello)
          /\ peer[c] # "closed" /\ UNCHANGED <<known, toClient>>
      BY <1>0, <2>2 DEF SayHello
    <3> HIDE DEF hello
    <3> QED BY <1>0, <1>1, <3>1, <3>2, WriteAsks
  <2>3. CASE Receive(c)
    BY <2>3, ReceiveAsks
  <2>4. CASE Disconnected(c) \/ Close(c)
    <3>1. peer'[c] = "closed" /\ toServer'[c] = toServer[c]
      BY <1>0, <2>4 DEF Disconnected, Close, channelVars
    <3>2. asked' = asked
      BY <2>4 DEF Disconnected, Close
    <3> QED BY <1>0, <1>1, <3>1, <3>2 DEF Asks
  <2>5. CASE SendCommand(c)
    <3> DEFINE msg == [type |-> "command", id |-> 0]
    <3>1. msg.type = "command"
      OBVIOUS
    <3>2. /\ toServer'[c] = toServer[c] \/ toServer'[c] = Append(toServer[c], msg)
          /\ UNCHANGED <<known, toClient, peer>>
      BY <1>0, <2>5 DEF SendCommand, Request
    <3> HIDE DEF msg
    <3> QED BY <1>0, <1>1, <3>1, <3>2, WriteAsks
  <2>6. ASSUME NEW type \in {"copy", "delete"}, NEW id \in {0} \cup DOMAIN known[c], AskFor(c, type, id)
        PROVE  Asks(c)'
    BY <2>6, AskForAsks
  <2> QED BY <2>1, <2>2, <2>3, <2>4, <2>5, <2>6 DEF Controller
<1> QED BY <1>2, <1>3

LEMMA AskedInvKept == ASSUME CoreInv, AskedInv, [Next]_vars PROVE AskedInv'
<1>1. ASSUME UNCHANGED <<thread, told, known, peer, asked, toServer, toClient>> PROVE AskedInv'
  BY <1>1 DEF AskedInv
<1>2. CASE Server
  BY <1>2, ServerAsks DEF AskedInv, Asks
<1>3. CASE Program
  <2>1. UNCHANGED <<thread, told, known, peer, asked, toServer, toClient>>
    BY <1>3 DEF Program, ListCapture, DeleteFile, SetDriver, AddChildProcess, ShowReplayUI, RemoveHooks,
                HooksRemoved, SetWindowCount, SetProgress, threadVars, peerVars, channelVars
  <2> QED BY <1>1, <2>1
<1>4. ASSUME NEW c \in Conns, ClientThread(c) PROVE AskedInv'
  BY <1>4, ThreadAsks DEF AskedInv, Asks
<1>5. ASSUME NEW c \in Conns, Controller(c) PROVE AskedInv'
  BY <1>5, ControllerAsks DEF AskedInv, Asks
<1>6. CASE UNCHANGED vars
  BY <1>1, <1>6 DEF vars, threadVars, peerVars, channelVars
<1> QED BY <1>2, <1>3, <1>4, <1>5, <1>6 DEF Next

\* A request marks the capture it was made for.
LEMMA ServeMarksAsked ==
  ASSUME CoreInv, AskedInv, OnlyAskedRetrieved, NEW c \in Conns, Serve(c) PROVE OnlyAskedRetrieved'
<1> DEFINE id == Head(toServer[c]).id
<1>1. /\ m_Captures \in Seq([cap : Caps, retrieved : BOOLEAN]) /\ UNCHANGED asked
      /\ Len(m_Captures) \in Nat /\ DOMAIN m_Captures = 1 .. Len(m_Captures)
  BY DEF CoreInv, TypeOK, CaptureTypes, Serve, peerVars
<1>2. CASE UNCHANGED m_Captures
  BY <1>1, <1>2 DEF OnlyAskedRetrieved
<1>3. CASE MarkCaptureRetrieved(id) /\ Head(toServer[c]).type \in {"copy", "delete"}
  <2>1. /\ toServer[c] \in Seq(ClientMessages) /\ toServer[c] # <<>> /\ thread[c] = "serve"
        /\ told[c].captures \in Seq(Caps)
    BY AsksTypes DEF Serve, At
  <2>2. AskedFor(toServer[c], told[c].captures, asked)
    BY <2>1 DEF AskedInv
  <2>3. id = 0 \/ (id \in 1 .. Len(told[c].captures) /\ told[c].captures[id] \in asked)
    BY <1>3, <2>1, <2>2, AskedForTail
  <2> HIDE DEF id
  <2>4. PICK n \in 0 .. Len(m_Captures) : told[c].captures = [i \in 1 .. n |-> m_Captures[i].cap]
    BY <2>1 DEF CoreInv, ToldInv, ToldPrefix, InLoop
  <2>5. Len(told[c].captures) = n
    BY <1>1, <2>1, <2>4
  <2>6. id \in DOMAIN m_Captures => m_Captures[id].cap \in asked
    BY <1>1, <2>3, <2>4, <2>5
  <2>7. m_Captures' = [i \in DOMAIN m_Captures |->
                         IF i = id THEN [m_Captures[i] EXCEPT !.retrieved = TRUE] ELSE m_Captures[i]]
    BY <1>3 DEF MarkCaptureRetrieved, Marked
  <2>8. \A i \in DOMAIN m_Captures : m_Captures'[i].cap = m_Captures[i].cap
    BY <1>3, MarkKeepsCaps DEF CoreInv, TypeOK
  <2>9. ASSUME NEW i \in DOMAIN m_Captures, m_Captures'[i].retrieved PROVE m_Captures'[i].cap \in asked
    <3>1. CASE i = id
      BY <2>6, <2>8, <3>1
    <3>2. CASE i # id
      BY <2>7, <2>9, <3>2 DEF OnlyAskedRetrieved
    <3> QED BY <3>1, <3>2
  <2>10. DOMAIN m_Captures' = DOMAIN m_Captures
    BY <2>7
  <2> QED BY <1>1, <2>9, <2>10 DEF OnlyAskedRetrieved
<1> QED BY <1>2, <1>3 DEF Serve, ServeCommand, ServeDelete, ServeCopy

\* Pruning keeps entries as they are.
LEMMA ExistingListed ==
  ASSUME CoreInv, NEW k \in DOMAIN Existing PROVE \E i \in DOMAIN m_Captures : Existing[k] = m_Captures[i]
<1>1. Len(m_Captures) \in Nat /\ Kept \in SUBSET (1 .. Len(m_Captures)) /\ DOMAIN m_Captures = 1 .. Len(m_Captures)
  BY DEF CoreInv, TypeOK, CaptureTypes, Kept
<1>2. k \in 1 .. Cardinality(Kept)
  BY DEF Existing
<1>3. \E i \in Kept : Cardinality(Kept \cap (1 .. i)) = k
  BY <1>1, <1>2, KthMember
<1>4. KeptAt(k) \in Kept
  BY <1>3 DEF KeptAt
<1>5. Existing[k] = m_Captures[KeptAt(k)]
  BY <1>2 DEF Existing
<1> QED BY <1>1, <1>4, <1>5

LEMMA OnlyAskedKept ==
  ASSUME CoreInv, AskedInv, OnlyAskedRetrieved, [Next]_vars PROVE OnlyAskedRetrieved'
<1>1. /\ m_Captures \in Seq([cap : Caps, retrieved : BOOLEAN])
      /\ Len(m_Captures) \in Nat /\ DOMAIN m_Captures = 1 .. Len(m_Captures)
  BY DEF CoreInv, TypeOK, CaptureTypes
<1>2. asked \subseteq asked'
  <2>1. CASE Server
    BY <2>1 DEF Server, AcceptClient, ReadHandshake, HandshakeFails, LookForClient, KickClient, JoinKicked,
                SpawnClientThread, SendBusy, StopServer, peerVars
  <2>2. ASSUME NEW c \in Conns, ClientThread(c) \/ Controller(c) PROVE asked \subseteq asked'
    BY <2>2 DEF ClientThread, SendHandshake, SetUp, LeaveLoop, Report, Serve, ServeNothing, GiveUpName,
                Controller, Connect, SayHello, Receive, Disconnected, SendCommand, AskFor, Request, Close, peerVars
  <2>3. CASE Program
    BY <2>3 DEF Program, ListCapture, DeleteFile, SetDriver, AddChildProcess, ShowReplayUI, RemoveHooks,
                HooksRemoved, SetWindowCount, SetProgress, peerVars
  <2>4. CASE UNCHANGED vars
    BY <2>4 DEF vars, peerVars
  <2> QED BY <2>1, <2>2, <2>3, <2>4 DEF Next
<1>3. ASSUME NEW c \in Conns, Serve(c) PROVE OnlyAskedRetrieved'
  BY <1>3, ServeMarksAsked
<1>4. CASE UNCHANGED m_Captures
  BY <1>2, <1>4 DEF OnlyAskedRetrieved
<1>5. CASE m_Captures' = Existing
  <2>1. ASSUME NEW k \in DOMAIN Existing, Existing[k].retrieved PROVE Existing[k].cap \in asked
    BY <2>1, ExistingListed DEF OnlyAskedRetrieved
  <2> QED BY <1>2, <1>5, <2>1 DEF OnlyAskedRetrieved
<1>6. CASE m_Captures' = Append(m_Captures, [cap |-> made + 1, retrieved |-> FALSE])
  <2>1. /\ DOMAIN m_Captures' = 1 .. Len(m_Captures) + 1
        /\ m_Captures'[Len(m_Captures) + 1].retrieved = FALSE
        /\ \A i \in 1 .. Len(m_Captures) : m_Captures'[i] = m_Captures[i]
    BY <1>1, <1>6
  <2>2. \A i \in DOMAIN m_Captures' : m_Captures'[i].retrieved => i \in DOMAIN m_Captures /\ m_Captures'[i] = m_Captures[i]
    BY <1>1, <2>1
  <2> QED BY <1>2, <2>2 DEF OnlyAskedRetrieved
<1>7. \/ UNCHANGED m_Captures
      \/ m_Captures' = Existing
      \/ \E c \in Conns : Serve(c)
      \/ m_Captures' = Append(m_Captures, [cap |-> made + 1, retrieved |-> FALSE])
  <2>1. CASE Server
    BY <2>1 DEF Server, AcceptClient, ReadHandshake, HandshakeFails, LookForClient, KickClient, JoinKicked,
                SpawnClientThread, SendBusy, StopServer, captureVars
  <2>2. ASSUME NEW c \in Conns, ClientThread(c), ~Serve(c) PROVE UNCHANGED m_Captures \/ m_Captures' = Existing
    BY <2>2 DEF ClientThread, SendHandshake, SetUp, LeaveLoop, Report, ServeNothing, GiveUpName, captureVars
  <2>3. ASSUME NEW c \in Conns, Controller(c) PROVE UNCHANGED m_Captures
    BY <2>3 DEF Controller, Connect, SayHello, Receive, Disconnected, SendCommand, AskFor, Request, Close, captureVars
  <2>4. CASE Program
    BY <2>4 DEF Program, ListCapture, DeleteFile, SetDriver, AddChildProcess, ShowReplayUI, RemoveHooks,
                HooksRemoved, SetWindowCount, SetProgress, captureVars
  <2>5. CASE UNCHANGED vars
    BY <2>5 DEF vars, captureVars
  <2> QED BY <2>1, <2>2, <2>3, <2>4, <2>5 DEF Next
<1> QED BY <1>3, <1>4, <1>5, <1>6, <1>7

\* Only a capture that some controller asked to copy or delete is marked retrieved (and
\* its file deleted when the program ends), whoever is served, kicked or gone in between:
\* the index of a request stands for the capture its controller meant.
THEOREM OnlyAskedAlways == Spec => []OnlyAskedRetrieved
<1>1. Init => AskedInv /\ OnlyAskedRetrieved
  <2> SUFFICES ASSUME Init PROVE AskedInv /\ OnlyAskedRetrieved
    OBVIOUS
  <2>1. \A c \in Conns : toClient[c] = <<>> /\ toServer[c] = <<>> /\ known[c] = <<>> /\ told[c].captures = <<>>
    BY DEF Init, ToldNothing
  <2>2. AskedInv
    BY <2>1 DEF AskedInv, Follows, AskedFor
  <2>3. OnlyAskedRetrieved
    BY DEF Init, OnlyAskedRetrieved
  <2> QED BY <2>2, <2>3
<1>2. CoreInv /\ AskedInv /\ OnlyAskedRetrieved /\ [Next]_vars => AskedInv' /\ OnlyAskedRetrieved'
  BY AskedInvKept, OnlyAskedKept
<1> QED BY <1>1, <1>2, CoreAlways, PTL DEF Spec

=============================================================================
