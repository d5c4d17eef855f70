------------------------ MODULE RemoteServerProofs ------------------------
(***************************************************************************)
(* One connection of the remote server is active at a time, its copied     *)
(* files are held, and both ends of a connection stay in step, for any     *)
(* number of connections, copies and requests.                             *)
(*                                                                         *)
(* OneActive is inductive once a thread that is killed is told apart.      *)
(* FilesHeld needs more: that a thread which has left its request loop and *)
(* has not closed its socket keeps the slot, so that nobody copies to the  *)
(* paths it is about to delete; that a thread that is about to be started  *)
(* has copied nothing; and that the accept loop knows every thread until   *)
(* an accept fails, so that none runs on when the server has shut down.    *)
(*                                                                         *)
(* InStep needs the whole dialogue of a connection: for every place where  *)
(* its thread and its controller may be, what is under way between them,   *)
(* and that a ticker runs only while the thread is with the driver or the  *)
(* resolver.  It is stated of one connection's state, and its steps are    *)
(* lemmas about that state alone.                                          *)
(***************************************************************************)
EXTENDS RemoteServer, SequenceTheorems, FiniteSetTheorems, WellFoundedInduction, TLAPS

Holding == Working \cup {"ending", "closing"}

Points == Holding \cup {"none", "hello", "done"}

State ==
  [at : Points, killThread : BOOLEAN, killServer : BOOLEAN, ticker : {"none", "ticking", "killed"},
   capture : {"none", "file", "open"}, tempFiles : SUBSET Nat, captureNum : Nat]

Shapes ==
  /\ thread \in [Conns -> State]
  /\ ctl = [c \in Conns |-> ctl[c]]
  /\ \A c \in Conns : ctl[c] = [at |-> ctl[c].at, asked |-> ctl[c].asked, has |-> ctl[c].has]

LoopShape ==
  /\ serve \in {"accept", "reap", "end", "join", "gone", "failed"}
  /\ hand \in 0..MaxConns
  /\ active \in 0..MaxConns
  /\ backlog \in Seq(Conns)
  /\ clients \in Seq(Conns)

\* A connection that has no thread yet is in one place on its way to one.
BacklogInv ==
  /\ \A c \in Conns : ctl[c].at = "none" =>
       thread[c].at = "none" /\ hand # c /\ \A i \in 1..Len(backlog) : backlog[i] # c
  /\ \A i \in 1..Len(backlog) :
       /\ thread[backlog[i]].at = "none" /\ backlog[i] # hand
       /\ \A j \in 1..Len(backlog) : backlog[i] = backlog[j] => i = j
  /\ hand # 0 => thread[hand].at = "none"

\* The accept loop knows every thread that runs, until an accept fails, and has
\* joined all when it shuts down.
KnownInv ==
  /\ \A c \in Conns : serve # "failed" /\ thread[c].at \in Holding \cup {"hello"} =>
       \E i \in 1..Len(clients) : clients[i] = c
  /\ serve = "gone" => clients = <<>>

\* The slot belongs to a thread until it has ended, or the server shuts down or
\* has left its threads behind.
SlotInv ==
  \A c \in Conns : thread[c].at \in Holding =>
    active = c \/ serve = "failed" \/ (thread[c].killThread /\ serve \in {"join", "gone"})

\* A thread that copied files has not deleted them, and its next path is new.
TempInv ==
  \A c \in Conns :
    /\ thread[c].tempFiles # {} => thread[c].at \in Working \cup {"ending"}
    /\ \A f \in thread[c].tempFiles : f < thread[c].captureNum

IInv == Shapes /\ LoopShape /\ BacklogInv /\ KnownInv /\ SlotInv /\ TempInv

LEMMA ConnsNumbers == Conns \subseteq 1..MaxConns /\ 0 \notin Conns /\ MaxConns \in Nat
BY RemoteAssumption DEF Conns

LEMMA InitInv == Init => IInv /\ FilesHeld
<1> SUFFICES ASSUME Init PROVE IInv /\ FilesHeld
  OBVIOUS
<1> USE DEF Init
<1>1. Shapes
  BY DEF Shapes, State, Points
<1>2. LoopShape
  BY ConnsNumbers DEF LoopShape
<1>3. BacklogInv
  BY ConnsNumbers DEF BacklogInv
<1>4. KnownInv
  BY DEF KnownInv, Holding, Working
<1>5. SlotInv
  BY DEF SlotInv, Holding, Working
<1>6. TempInv
  BY DEF TempInv
<1>7. FilesHeld
  BY DEF FilesHeld
<1> QED  BY <1>1, <1>2, <1>3, <1>4, <1>5, <1>6, <1>7 DEF IInv

-----------------------------------------------------------------------------
(* The threads of connections.                                               *)

LEMMA BacklogKeeps ==
  ASSUME BacklogInv, LoopShape, UNCHANGED <<hand, backlog, ctl>>,
         \A d \in Conns : thread[d].at = "none" => thread'[d].at = "none"
  PROVE  BacklogInv'
<1>1. \A i \in 1..Len(backlog) : backlog[i] \in Conns
  BY ElementOfSeq DEF LoopShape
<1>2. hand # 0 => hand \in Conns
  BY RemoteAssumption DEF LoopShape, Conns
<1> QED  BY <1>1, <1>2 DEF BacklogInv

\* Only the thread of connection c has moved.
Moves(c) == thread' \in [Conns -> State] /\ \A d \in Conns \ {c} : thread'[d] = thread[d]

\* A step of a thread in its request loop that neither copies a file nor ends.
LEMMA WorkKeeps ==
  ASSUME IInv, FilesHeld, NEW c \in Conns,
         thread[c].at \in Working, thread'[c].at \in Working \cup {"ending"},
         Moves(c),
         thread'[c].tempFiles = thread[c].tempFiles, thread'[c].captureNum = thread[c].captureNum,
         thread[c].killThread => thread'[c].killThread,
         UNCHANGED <<loopVars, active, disk, ctl>>
  PROVE  IInv' /\ FilesHeld'
<1> USE DEF IInv, loopVars, Moves
<1>2. Shapes' /\ LoopShape'
  BY DEF Shapes, LoopShape
<1>3. BacklogInv'
  BY BacklogKeeps DEF Working
<1>4. KnownInv'
  BY DEF KnownInv, Holding
<1>5. SlotInv'
  BY DEF SlotInv, Holding
<1>6. TempInv'
  BY DEF TempInv
<1>7. FilesHeld'
  BY DEF FilesHeld, Working
<1> QED  BY <1>2, <1>3, <1>4, <1>5, <1>6, <1>7

\* A controller goes on: nothing of the server changes.
LEMMA ControllerKeeps ==
  ASSUME IInv, FilesHeld, NEW c \in Conns, ctl[c].at # "none", NEW x,
         x = [at |-> x.at, asked |-> x.asked, has |-> x.has], x.at # "none",
         ctl' = [ctl EXCEPT ![c] = x], UNCHANGED <<loopVars, active, thread, disk>>
  PROVE  IInv' /\ FilesHeld'
<1> USE DEF IInv, loopVars
<1>1. ctl'[c] = x /\ \A d \in Conns \ {c} : ctl'[d] = ctl[d]
  BY DEF Shapes
<1>2. Shapes'
  BY <1>1 DEF Shapes
<1>3. BacklogInv'
  BY <1>1 DEF BacklogInv
<1> QED  BY <1>2, <1>3 DEF LoopShape, KnownInv, SlotInv, TempInv, FilesHeld

\* The actions of the request loop.
LEMMA RequestInv ==
  ASSUME IInv, FilesHeld, NEW c \in Conns,
         \/ LoopHead(c) \/ ReadFails(c) \/ Query(c) \/ ShutdownServer(c)
         \/ OpenLog(c) \/ OpenEnds(c) \/ LogOpened(c)
         \/ InitResolver(c) \/ MakeResolver(c) \/ Resolved(c) \/ CloseLog(c) \/ ProxyTick(c)
  PROVE  IInv' /\ FilesHeld'
<1> USE DEF Working, Points, Holding
<1>1. thread[c] \in State
  BY DEF IInv, Shapes
<1>2. /\ Moves(c)
      /\ thread'[c].at \in Working \cup {"ending"}
      /\ thread'[c].tempFiles = thread[c].tempFiles /\ thread'[c].captureNum = thread[c].captureNum
      /\ thread[c].killThread => thread'[c].killThread
  <2> USE DEF Moves, IInv, Shapes
  <2>1. CASE LoopHead(c)
    <3>1. PICK at \in {"ending", "read"} : thread' = [thread EXCEPT ![c].at = at]
      BY <2>1 DEF LoopHead
    <3> QED  BY <1>1, <3>1 DEF State
  <2>2. CASE ReadFails(c)
    BY <1>1, <2>2 DEF ReadFails, State
  <2>3. CASE Query(c)
    BY <1>1, <2>3 DEF Query, State
  <2>4. CASE ShutdownServer(c)
    BY <1>1, <2>4 DEF ShutdownServer, State
  <2>5. CASE OpenLog(c)
    <3>1. \/ thread' = [thread EXCEPT ![c].at = "loop", ![c].capture = "file"]
          \/ thread' = [thread EXCEPT ![c].at = "opening", ![c].capture = "file", ![c].ticker = "ticking"]
      BY <2>5 DEF OpenLog
    <3>2. CASE thread' = [thread EXCEPT ![c].at = "loop", ![c].capture = "file"]
      BY <1>1, <2>5, <3>2 DEF State, OpenLog, Requested
    <3>3. CASE thread' = [thread EXCEPT ![c].at = "opening", ![c].capture = "file", ![c].ticker = "ticking"]
      BY <1>1, <2>5, <3>3 DEF State, OpenLog, Requested
    <3> QED  BY <3>1, <3>2, <3>3
  <2>6. CASE OpenEnds(c)
    BY <1>1, <2>6 DEF OpenEnds, State
  <2>7. CASE LogOpened(c)
    BY <1>1, <2>7 DEF LogOpened, State
  <2>8. CASE InitResolver(c)
    <3>1. \/ thread' = [thread EXCEPT ![c].at = "loop"]
          \/ thread' = [thread EXCEPT ![c].at = "resolving", ![c].ticker = "ticking"]
      BY <2>8 DEF InitResolver
    <3> QED  BY <1>1, <3>1 DEF State
  <2>9. CASE MakeResolver(c)
    <3>1. PICK ticker \in {"killed", "ticking"} :
            thread' = [thread EXCEPT ![c].at = "resolved", ![c].ticker = ticker]
      BY <2>9 DEF MakeResolver
    <3> QED  BY <1>1, <3>1 DEF State
  <2>10. CASE Resolved(c)
    BY <1>1, <2>10 DEF Resolved, State
  <2>11. CASE CloseLog(c)
    BY <1>1, <2>11 DEF CloseLog, State
  <2>12. CASE ProxyTick(c)
    BY <1>1, <2>12 DEF ProxyTick, State
  <2> QED  BY <2>1, <2>2, <2>3, <2>4, <2>5, <2>6, <2>7, <2>8, <2>9, <2>10, <2>11, <2>12
<1>3. thread[c].at \in Working /\ UNCHANGED <<loopVars, active, disk, ctl>>
  BY DEF LoopHead, ReadFails, Query, ShutdownServer, OpenLog, OpenEnds, LogOpened, InitResolver,
         MakeResolver, Resolved, CloseLog, ProxyTick, Requested
<1> QED  BY <1>2, <1>3, WorkKeeps

LEMMA TickerInv ==
  ASSUME IInv, FilesHeld, NEW c \in Conns, Ticker(c) PROVE IInv' /\ FilesHeld'
<1>2. /\ thread' \in [Conns -> State]
      /\ \A d \in Conns : /\ thread'[d].at = thread[d].at
                          /\ thread'[d].killThread = thread[d].killThread
                          /\ thread'[d].tempFiles = thread[d].tempFiles
                          /\ thread'[d].captureNum = thread[d].captureNum
  <2>1. thread[c] \in State /\ thread \in [Conns -> State]
    BY DEF IInv, Shapes
  <2>2. \/ thread' = [thread EXCEPT ![c].ticker = IF @ = "killed" THEN "none" ELSE @]
        \/ thread' = [thread EXCEPT ![c].ticker = "none"]
    BY DEF Ticker
  <2> QED  BY <2>1, <2>2 DEF State
<1>3. UNCHANGED <<serve, hand, backlog, clients, active, disk, ctl>>
  BY DEF Ticker, loopVars
<1> USE <1>2, <1>3 DEF IInv
<1>4. Shapes' /\ LoopShape'
  BY DEF Shapes, LoopShape
<1>5. BacklogInv'
  BY BacklogKeeps
<1>6. KnownInv' /\ SlotInv' /\ TempInv'
  BY DEF KnownInv, SlotInv, TempInv
<1>7. FilesHeld'
  BY DEF FilesHeld
<1> QED  BY <1>4, <1>5, <1>6, <1>7

LEMMA HandshakeInv ==
  ASSUME IInv, FilesHeld, NEW c \in Conns, HandleHandshakeClient(c) PROVE IInv' /\ FilesHeld'
<1> USE DEF IInv
<1>1. PICK at \in {"loop", "done"} :
        /\ thread' = [thread EXCEPT ![c].at = at]
        /\ at = "loop" /\ serve # "failed" => active = 0 /\ active' = c
        /\ active' = active \/ active' = c
        /\ at = "done" => active' = active
  <2>1. PICK busy \in IF serve = "failed" THEN BOOLEAN ELSE {active # 0} :
          LET promoted == Head(toServer[c]) = "active" /\ ~busy
          IN /\ active' = IF promoted /\ serve # "failed" THEN c ELSE active
             /\ thread' = [thread EXCEPT ![c].at = IF promoted THEN "loop" ELSE "done"]
    BY DEF HandleHandshakeClient
  <2>2. serve # "failed" => busy = (active # 0)
    OBVIOUS
  <2>3. CASE Head(toServer[c]) = "active" /\ ~busy
    BY <2>1, <2>2, <2>3
  <2>4. CASE ~(Head(toServer[c]) = "active" /\ ~busy)
    BY <2>1, <2>4
  <2> QED  BY <2>3, <2>4
<1>2. thread[c].at = "hello" /\ UNCHANGED <<serve, hand, backlog, clients, disk, ctl>>
  BY DEF HandleHandshakeClient, loopVars
<1>3. /\ thread' \in [Conns -> State]
      /\ thread'[c].at = at /\ thread'[c].tempFiles = thread[c].tempFiles
      /\ thread'[c].captureNum = thread[c].captureNum
      /\ \A d \in Conns \ {c} : thread'[d] = thread[d]
  <2>1. thread[c] \in State /\ thread \in [Conns -> State]
    BY DEF Shapes
  <2> QED  BY <1>1, <2>1 DEF State, Points, Holding, Working
<1>4. thread[c].tempFiles = {}
  BY <1>2 DEF TempInv, Working
<1>5. Shapes' /\ LoopShape'
  BY <1>1, <1>2, <1>3, ConnsNumbers DEF Shapes, LoopShape
<1>6. BacklogInv'
  BY <1>2, <1>3, BacklogKeeps
<1>7. KnownInv'
  BY <1>2, <1>3 DEF KnownInv, Holding, Working
<1>8. SlotInv'
  <2>1. CASE at = "loop"
    BY <1>1, <1>2, <1>3, <2>1, ConnsNumbers DEF SlotInv
  <2>2. CASE at = "done"
    BY <1>1, <1>2, <1>3, <2>2 DEF SlotInv, Holding, Working
  <2> QED  BY <2>1, <2>2
<1>9. TempInv'
  BY <1>3, <1>4 DEF TempInv
<1>10. FilesHeld'
  BY <1>2, <1>3, <1>4 DEF FilesHeld
<1> QED  BY <1>5, <1>6, <1>7, <1>8, <1>9, <1>10

\* No file is held by another connection while one is at work and the server
\* is not shutting down.
LEMMA HeldAlone ==
  ASSUME IInv, NEW c \in Conns, thread[c].at \in Holding, serve \notin {"join", "failed"},
         NEW d \in Conns, d # c
  PROVE  thread[d].tempFiles = {}
<1>1. serve # "gone"
  BY DEF IInv, KnownInv, LoopShape
<1> QED  BY <1>1 DEF IInv, SlotInv, TempInv, Holding

LEMMA CopyInv ==
  ASSUME IInv, FilesHeld, NEW c \in Conns, CopyCaptureToRemote(c) PROVE IInv' /\ FilesHeld'
<1> USE DEF IInv
<1>1. thread[c] \in State /\ thread[c].at = "read" /\ UNCHANGED <<loopVars, active, ctl>>
  BY DEF CopyCaptureToRemote, Requested, Shapes
<1> DEFINE path == thread[c].captureNum
<1>2. /\ Moves(c)
      /\ thread'[c].captureNum = path + 1 /\ thread'[c].killThread = thread[c].killThread
      /\ \/ thread'[c].at = "loop" /\ thread'[c].tempFiles = thread[c].tempFiles \cup {path} /\ disk' = disk \cup {path}
         \/ thread'[c].at = "ending" /\ thread'[c].tempFiles = thread[c].tempFiles /\ disk' = disk \ {path}
  BY <1>1 DEF CopyCaptureToRemote, Moves, Shapes, State, Points, Holding, Working
<1>3. thread' \in [Conns -> State] /\ \A d \in Conns \ {c} : thread'[d] = thread[d]
  BY <1>2 DEF Moves
<1>4. Shapes' /\ LoopShape'
  BY <1>1, <1>3 DEF Shapes, LoopShape, loopVars
<1>5. BacklogInv'
  BY <1>1, <1>2, <1>3, BacklogKeeps DEF loopVars
<1>6. KnownInv' /\ SlotInv'
  BY <1>1, <1>2, <1>3 DEF KnownInv, SlotInv, loopVars, Holding, Working
<1>7. TempInv'
  BY <1>1, <1>2, <1>3 DEF TempInv, State, Working
<1>8. path \notin thread[c].tempFiles
  BY <1>1 DEF TempInv, State
<1>9. FilesHeld'
  <2>1. \A f \in disk' : \E d \in Conns : thread'[d].at # "done" /\ f \in thread'[d].tempFiles
    BY <1>2, <1>3 DEF FilesHeld
  <2>2. \A d \in Conns : serve' \notin {"join", "failed"} => thread'[d].tempFiles \subseteq disk'
    BY <1>1, <1>2, <1>3, <1>8, HeldAlone DEF FilesHeld, loopVars, Holding, Working
  <2> QED  BY <2>1, <2>2 DEF FilesHeld
<1> QED  BY <1>4, <1>5, <1>6, <1>7, <1>9

LEMMA EndInv ==
  ASSUME IInv, FilesHeld, NEW c \in Conns, ThreadEnds(c) PROVE IInv' /\ FilesHeld'
<1> USE DEF IInv
<1>1. thread[c] \in State /\ UNCHANGED <<loopVars, active, ctl>>
  BY DEF ThreadEnds, Shapes
<1>2. /\ Moves(c)
      /\ thread'[c].killThread = thread[c].killThread
      /\ thread'[c].tempFiles = {}
      /\ \/ thread[c].at = "ending" /\ thread'[c].at = "closing" /\ disk' = disk \ thread[c].tempFiles
         \/ thread[c].at = "closing" /\ thread'[c].at = "done" /\ disk' = disk
  <2>1. thread \in [Conns -> State]
    BY DEF Shapes
  <2>2. CASE thread[c].at = "ending" /\ DeleteFiles(c)
    BY <1>1, <2>1, <2>2 DEF Moves, DeleteFiles, State, Points, Holding
  <2>3. CASE thread[c].at = "closing" /\ DeleteSocket(c)
    <3>1. thread[c].tempFiles = {}
      BY <2>3 DEF TempInv, Working
    <3> QED  BY <1>1, <2>1, <2>3, <3>1 DEF Moves, DeleteSocket, State, Points
  <2> QED  BY <2>2, <2>3 DEF ThreadEnds
<1>3. thread' \in [Conns -> State] /\ \A d \in Conns \ {c} : thread'[d] = thread[d]
  BY <1>2 DEF Moves
<1>4. Shapes' /\ LoopShape'
  BY <1>1, <1>3 DEF Shapes, LoopShape, loopVars
<1>5. BacklogInv'
  BY <1>1, <1>2, <1>3, BacklogKeeps DEF loopVars
<1>6. KnownInv' /\ SlotInv'
  BY <1>1, <1>2, <1>3 DEF KnownInv, SlotInv, loopVars, Holding, Working
<1>7. TempInv'
  BY <1>2, <1>3 DEF TempInv
<1>8. FilesHeld'
  <2>1. thread[c].at = "closing" => thread[c].tempFiles = {}
    BY DEF TempInv, Working
  <2>2. \A f \in disk' : \E d \in Conns : thread'[d].at # "done" /\ f \in thread'[d].tempFiles
    BY <1>2, <1>3, <2>1 DEF FilesHeld
  <2>3. \A d \in Conns : serve' \notin {"join", "failed"} => thread'[d].tempFiles \subseteq disk'
    BY <1>1, <1>2, <1>3, <2>1, HeldAlone DEF FilesHeld, loopVars, Holding
  <2> QED  BY <2>2, <2>3 DEF FilesHeld
<1> QED  BY <1>4, <1>5, <1>6, <1>7, <1>8

-----------------------------------------------------------------------------
(* The accept loop.                                                          *)

LEMMA AcceptInv ==
  ASSUME IInv, FilesHeld, AcceptClient PROVE IInv' /\ FilesHeld'
<1> USE DEF IInv
<1>1. /\ serve = "accept" /\ serve' \in {"end", "reap"}
      /\ UNCHANGED <<clients, active, thread, disk, ctl>>
  BY DEF AcceptClient
<1>2. CASE backlog = <<>>
  <2>1. UNCHANGED <<hand, backlog>>
    BY <1>2 DEF AcceptClient
  <2>2. BacklogInv'
    BY <1>1, <2>1, BacklogKeeps
  <2> QED  BY <1>1, <2>1, <2>2 DEF Shapes, LoopShape, KnownInv, SlotInv, TempInv, FilesHeld
<1>3. CASE backlog # <<>>
  <2>1. hand' = Head(backlog) /\ backlog' = Tail(backlog)
    BY <1>3 DEF AcceptClient
  <2>2. /\ backlog \in Seq(Conns) /\ Len(backlog) \in Nat \ {0}
        /\ backlog' \in Seq(Conns) /\ Len(backlog') = Len(backlog) - 1
        /\ hand' = backlog[1] /\ hand' \in Conns
        /\ \A i \in 1..Len(backlog') : backlog'[i] = backlog[i + 1]
    BY <1>3, <2>1, HeadTailProperties, EmptySeq DEF LoopShape
  <2>3. LoopShape'
    BY <1>1, <2>2, ConnsNumbers DEF LoopShape
  <2>4. BacklogInv'
    <3>1. \A i \in 1..Len(backlog') : i + 1 \in 1..Len(backlog) /\ i + 1 # 1
      BY <2>2
    <3>2. 1 \in 1..Len(backlog)
      BY <2>2
    <3>3. ASSUME NEW c \in Conns, ctl'[c].at = "none"
          PROVE  thread'[c].at = "none" /\ hand' # c /\ \A i \in 1..Len(backlog') : backlog'[i] # c
      BY <1>1, <2>2, <3>1, <3>2, <3>3 DEF BacklogInv
    <3>4. ASSUME NEW i \in 1..Len(backlog')
          PROVE  /\ thread'[backlog'[i]].at = "none" /\ backlog'[i] # hand'
                 /\ \A j \in 1..Len(backlog') : backlog'[i] = backlog'[j] => i = j
      <4>1. \A m, n \in 1..Len(backlog) : backlog[m] = backlog[n] => m = n
        BY DEF BacklogInv
      <4>2. i + 1 \in 1..Len(backlog) /\ i + 1 # 1 /\ backlog'[i] = backlog[i + 1]
        BY <2>2, <3>1
      <4>3. thread'[backlog'[i]].at = "none"
        BY <1>1, <4>2 DEF BacklogInv
      <4>4. backlog'[i] # hand'
        BY <2>2, <3>2, <4>1, <4>2
      <4>5. ASSUME NEW j \in 1..Len(backlog'), backlog'[i] = backlog'[j]  PROVE i = j
        <5>1. j + 1 \in 1..Len(backlog) /\ backlog'[j] = backlog[j + 1]
          BY <2>2, <3>1
        <5>2. i + 1 = j + 1
          BY <4>1, <4>2, <4>5, <5>1
        <5>3. i \in Nat /\ j \in Nat
          BY <2>2
        <5> QED  BY <5>2, <5>3
      <4> QED  BY <4>3, <4>4, <4>5
    <3>5. thread'[hand'].at = "none"
      BY <1>1, <2>2, <3>2 DEF BacklogInv
    <3> QED  BY <3>3, <3>4, <3>5 DEF BacklogInv
  <2> QED  BY <1>1, <2>3, <2>4 DEF Shapes, KnownInv, SlotInv, TempInv, FilesHeld
<1> QED  BY <1>2, <1>3

LEMMA OthersProperties ==
  ASSUME NEW i \in 1..Len(clients), clients \in Seq(Conns)
  PROVE  /\ Others(i) \in Seq(Conns)
         /\ \A j \in 1..Len(clients) : j # i => \E k \in 1..Len(Others(i)) : Others(i)[k] = clients[j]
         /\ Len(Others(i)) = Len(clients) - 1
         /\ \A k \in 1..Len(Others(i)) :
              IF k < i THEN Others(i)[k] = clients[k] ELSE Others(i)[k] = clients[k + 1]
<1> DEFINE s == SubSeq(clients, 1, i - 1)
           t == SubSeq(clients, i + 1, Len(clients))
<1>1. Len(clients) \in Nat /\ i \in Nat /\ \A j \in 1..Len(clients) : clients[j] \in Conns
  BY LenProperties, ElementOfSeq
<1>2. /\ s \in Seq(Conns) /\ Len(s) = i - 1
      /\ \A j \in 1..(i - 1) : s[j] = clients[j]
  <2>1. \A j \in 1..(i - 1) : clients[j] \in Conns
    BY <1>1
  <2>2. s \in Seq(Conns) /\ Len(s) = (IF 1 <= i - 1 THEN i - 1 - 1 + 1 ELSE 0)
        /\ \A j \in 1..(i - 1 - 1 + 1) : s[j] = clients[1 + j - 1]
    BY <1>1, <2>1, SubSeqProperties
  <2> QED  BY <1>1, <2>2
<1>3. /\ t \in Seq(Conns) /\ Len(t) = Len(clients) - i
      /\ \A j \in 1..(Len(clients) - i) : t[j] = clients[i + j]
  <2>1. \A j \in (i + 1)..Len(clients) : clients[j] \in Conns
    BY <1>1
  <2>2. t \in Seq(Conns) /\ Len(t) = (IF i + 1 <= Len(clients) THEN Len(clients) - (i + 1) + 1 ELSE 0)
        /\ \A j \in 1..(Len(clients) - (i + 1) + 1) : t[j] = clients[i + 1 + j - 1]
    BY <1>1, <2>1, SubSeqProperties
  <2> QED  BY <1>1, <2>2
<1> HIDE DEF s, t
<1>4. /\ s \o t \in Seq(Conns) /\ Len(s \o t) = Len(clients) - 1
      /\ \A k \in 1..(Len(clients) - 1) : (s \o t)[k] = IF k <= i - 1 THEN s[k] ELSE t[k - (i - 1)]
  <2>1. Len(s) + Len(t) = Len(clients) - 1
    BY <1>1, <1>2, <1>3
  <2>2. /\ s \o t \in Seq(Conns) /\ Len(s \o t) = Len(s) + Len(t)
        /\ \A k \in 1..(Len(s) + Len(t)) : (s \o t)[k] = IF k <= Len(s) THEN s[k] ELSE t[k - Len(s)]
    BY <1>2, <1>3, ConcatProperties
  <2>3. Len(s) = i - 1
    BY <1>2
  <2> QED  BY <2>1, <2>2, <2>3
<1>5. ASSUME NEW j \in 1..Len(clients), j # i
      PROVE  \E k \in 1..Len(s \o t) : (s \o t)[k] = clients[j]
  <2>1. CASE j < i
    <3>1. j \in 1..(i - 1) /\ j \in 1..(Len(clients) - 1) /\ j <= i - 1 /\ j \in 1..Len(s \o t)
      BY <1>1, <1>4, <2>1
    <3>2. s[j] = clients[j]
      BY <1>2, <3>1
    <3>3. (s \o t)[j] = s[j]
      BY <1>4, <3>1
    <3> QED  BY <3>1, <3>2, <3>3
  <2>2. CASE j > i
    <3>1. j - 1 \in 1..(Len(clients) - 1) /\ ~(j - 1 <= i - 1) /\ j - i \in 1..(Len(clients) - i)
      BY <1>1, <2>2
    <3>2. j - 1 - (i - 1) = j - i /\ i + (j - i) = j
      BY <1>1
    <3>3. (s \o t)[j - 1] = t[j - 1 - (i - 1)]
      BY <1>4, <3>1
    <3>4. t[j - i] = clients[i + (j - i)]
      BY <1>3, <3>1
    <3> QED  BY <1>4, <3>1, <3>2, <3>3, <3>4
  <2> QED  BY <1>1, <1>5, <2>1, <2>2
<1>6. ASSUME NEW k \in 1..Len(s \o t)
      PROVE  IF k < i THEN (s \o t)[k] = clients[k] ELSE (s \o t)[k] = clients[k + 1]
  <2>1. k \in 1..(Len(clients) - 1) /\ k \in Nat
    BY <1>1, <1>4
  <2>2. CASE k < i
    <3>1. k \in 1..(i - 1) /\ k <= i - 1
      BY <1>1, <2>1, <2>2
    <3> QED  BY <1>2, <1>4, <2>1, <2>2, <3>1
  <2>3. CASE ~(k < i)
    <3>1. k - (i - 1) \in 1..(Len(clients) - i) /\ ~(k <= i - 1) /\ i + (k - (i - 1)) = k + 1
      BY <1>1, <2>1, <2>3
    <3> QED  BY <1>3, <1>4, <2>1, <2>3, <3>1
  <2> QED  BY <2>2, <2>3
<1> QED  BY <1>4, <1>5, <1>6 DEF Others, s, t

\* What the reaping of a turn leaves: every client but one that had ended.
LEMMA ReapedProperties ==
  ASSUME LoopShape, NEW left, NEW slot, Reaped(left, slot)
  PROVE  /\ left \in Seq(Conns)
         /\ \A j \in 1..Len(clients) : thread[clients[j]].at # "done" =>
              \E k \in 1..Len(left) : left[k] = clients[j]
         /\ slot = active \/ (slot = 0 /\ thread[active].at = "done" /\ active \in Conns)
<1>1. CASE left = clients /\ slot = active
  BY <1>1 DEF LoopShape
<1>2. ASSUME NEW i \in 1..Len(clients), Dead(i), left = Others(i),
             slot = IF active = clients[i] THEN 0 ELSE active
      PROVE  /\ left \in Seq(Conns)
             /\ \A j \in 1..Len(clients) : thread[clients[j]].at # "done" =>
                  \E k \in 1..Len(left) : left[k] = clients[j]
             /\ slot = active \/ (slot = 0 /\ thread[active].at = "done" /\ active \in Conns)
  <2>1. clients \in Seq(Conns) /\ clients[i] \in Conns /\ thread[clients[i]].at = "done"
    BY <1>2, ElementOfSeq DEF LoopShape, Dead
  <2>2. /\ left \in Seq(Conns)
        /\ \A j \in 1..Len(clients) : j # i => \E k \in 1..Len(left) : left[k] = clients[j]
    BY <1>2, <2>1, OthersProperties
  <2> QED  BY <1>2, <2>1, <2>2
<1> QED  BY <1>1, <1>2 DEF Reaped

LEMMA ReapInv ==
  ASSUME IInv, FilesHeld, ReapAndSpawn PROVE IInv' /\ FilesHeld'
<1> USE DEF IInv
<1>1. /\ serve = "reap" /\ serve' = "accept" /\ hand' = 0
      /\ UNCHANGED <<backlog, disk, ctl>>
  BY DEF ReapAndSpawn
<1>2. PICK left, slot :
        /\ Reaped(left, slot)
        /\ active' = slot
        /\ \/ hand = 0 /\ clients' = left /\ UNCHANGED thread
           \/ hand # 0 /\ clients' = Append(left, hand) /\ thread' = [thread EXCEPT ![hand].at = "hello"]
           \/ hand # 0 /\ clients' = left /\ thread' = [thread EXCEPT ![hand].at = "done"]
  BY DEF ReapAndSpawn
<1>3. /\ left \in Seq(Conns)
      /\ \A j \in 1..Len(clients) : thread[clients[j]].at # "done" =>
           \E k \in 1..Len(left) : left[k] = clients[j]
      /\ slot = active \/ (slot = 0 /\ thread[active].at = "done" /\ active \in Conns)
  BY <1>2, ReapedProperties
<1>4. hand # 0 => hand \in Conns /\ thread[hand].at = "none" /\ thread[hand].tempFiles = {}
  <2>1. hand # 0 => hand \in Conns
    BY RemoteAssumption DEF LoopShape, Conns
  <2>2. hand # 0 => thread[hand].at = "none"
    BY DEF BacklogInv
  <2> QED  BY <2>1, <2>2 DEF TempInv, Working
<1>5. /\ thread' \in [Conns -> State]
      /\ \A c \in Conns :
           /\ thread'[c].killThread = thread[c].killThread
           /\ thread'[c].tempFiles = thread[c].tempFiles
           /\ thread'[c].captureNum = thread[c].captureNum
           /\ c # hand => thread'[c].at = thread[c].at
           /\ c = hand => thread'[c].at \in {"hello", "done"}
  <2>1. thread \in [Conns -> State]
    BY DEF Shapes
  <2>2. CASE UNCHANGED thread /\ hand = 0
    BY <2>1, <2>2, ConnsNumbers
  <2>3. ASSUME NEW at \in {"hello", "done"}, thread' = [thread EXCEPT ![hand].at = at], hand # 0
        PROVE  <1>5!1 /\ <1>5!2
    <3>1. thread[hand] \in State
      BY <1>4, <2>1, <2>3
    <3> QED  BY <1>4, <2>1, <2>3, <3>1 DEF State, Points
  <2> QED  BY <1>2, <2>2, <2>3
<1>6. /\ clients' \in Seq(Conns)
      /\ \A k \in 1..Len(left) : \E j \in 1..Len(clients') : clients'[j] = left[k]
      /\ hand # 0 /\ thread'[hand].at = "hello" => \E j \in 1..Len(clients') : clients'[j] = hand
  <2>1. CASE clients' = left /\ (hand = 0 \/ thread'[hand].at # "hello")
    BY <1>3, <2>1
  <2>2. CASE hand # 0 /\ clients' = Append(left, hand)
    <3>1. /\ clients' \in Seq(Conns) /\ Len(clients') = Len(left) + 1 /\ Len(left) \in Nat
          /\ \A k \in 1..Len(left) : clients'[k] = left[k]
          /\ clients'[Len(left) + 1] = hand
      BY <1>3, <1>4, <2>2, AppendProperties, LenProperties
    <3> QED  BY <3>1
  <2>3. clients' = left /\ hand # 0 => thread'[hand].at # "hello" \/ clients' = Append(left, hand)
    BY <1>2, <1>4, <1>5 DEF Shapes, State
  <2> QED  BY <1>2, <2>1, <2>2, <2>3
<1>7. Shapes' /\ LoopShape'
  BY <1>1, <1>2, <1>3, <1>5, <1>6, RemoteAssumption DEF Shapes, LoopShape
<1>8. BacklogInv'
  <2>1. \A i \in 1..Len(backlog) : backlog[i] \in Conns
    BY ElementOfSeq DEF LoopShape
  <2>2. \A c \in Conns : c # 0
    BY ConnsNumbers
  <2>3. \A c \in Conns : ctl'[c].at = "none" =>
          thread'[c].at = "none" /\ hand' # c /\ \A i \in 1..Len(backlog') : backlog'[i] # c
    BY <1>1, <1>5, <2>2 DEF BacklogInv
  <2>4. ASSUME NEW i \in 1..Len(backlog)
        PROVE  /\ thread'[backlog[i]].at = "none" /\ backlog[i] # hand'
               /\ \A j \in 1..Len(backlog) : backlog[i] = backlog[j] => i = j
    BY <1>1, <1>5, <2>1, <2>2 DEF BacklogInv
  <2> QED  BY <1>1, <2>3, <2>4 DEF BacklogInv
<1>9. KnownInv'
  <2> SUFFICES ASSUME NEW c \in Conns, thread'[c].at \in Holding \cup {"hello"}
               PROVE  \E j \in 1..Len(clients') : clients'[j] = c
    BY <1>1 DEF KnownInv
  <2>1. CASE c = hand
    BY <1>5, <1>6, <2>1, ConnsNumbers DEF Holding, Working
  <2>2. CASE c # hand
    <3>1. thread[c].at \in Holding \cup {"hello"} /\ thread[c].at # "done"
      BY <1>5, <2>2 DEF Holding, Working
    <3>2. PICK j \in 1..Len(clients) : clients[j] = c
      BY <1>1, <3>1 DEF KnownInv
    <3>3. PICK k \in 1..Len(left) : left[k] = c
      BY <1>3, <3>1, <3>2
    <3> QED  BY <1>6, <3>3
  <2> QED  BY <2>1, <2>2
<1>10. SlotInv'
  BY <1>1, <1>2, <1>3, <1>4, <1>5 DEF SlotInv, Holding, Working
<1>11. TempInv'
  BY <1>4, <1>5, ConnsNumbers DEF TempInv
<1>12. FilesHeld'
  <2>1. ASSUME NEW f \in disk' PROVE \E c \in Conns : thread'[c].at # "done" /\ f \in thread'[c].tempFiles
    <3>1. PICK c \in Conns : thread[c].at # "done" /\ f \in thread[c].tempFiles
      BY <1>1, <2>1 DEF FilesHeld
    <3>2. c # hand
      BY <1>4, <3>1, ConnsNumbers
    <3> QED  BY <1>5, <3>1, <3>2
  <2>2. ASSUME NEW c \in Conns, serve' \notin {"join", "failed"} PROVE thread'[c].tempFiles \subseteq disk'
    BY <1>1, <1>5, <2>2 DEF FilesHeld
  <2> QED  BY <2>1, <2>2 DEF FilesHeld
<1> QED  BY <1>7, <1>8, <1>9, <1>10, <1>11, <1>12

\* KillReplay, AcceptFails, KillActive and JoinClients.
LEMMA ShutdownInv ==
  ASSUME IInv, FilesHeld, KillReplay \/ AcceptFails \/ KillActive \/ JoinClients PROVE IInv' /\ FilesHeld'
<1> USE DEF IInv
<1>1. CASE KillReplay
  <2>1. serve = "accept" /\ serve' = "end" /\ UNCHANGED <<hand, backlog, clients, active, thread, disk, ctl>>
    BY <1>1 DEF KillReplay
  <2> QED  BY <2>1, BacklogKeeps DEF Shapes, LoopShape, KnownInv, SlotInv, TempInv, FilesHeld
<1>2. CASE KillActive
  <2>1. /\ serve = "end" /\ serve' = "join" /\ active' = 0
        /\ UNCHANGED <<hand, backlog, clients, disk, ctl>>
    BY <1>2 DEF KillActive
  <2>2. /\ thread' \in [Conns -> State]
        /\ \A c \in Conns :
             /\ thread'[c].at = thread[c].at
             /\ thread'[c].tempFiles = thread[c].tempFiles
             /\ thread'[c].captureNum = thread[c].captureNum
             /\ c = active => thread'[c].killThread
    <3>1. thread \in [Conns -> State] /\ (active # 0 => active \in Conns)
      BY RemoteAssumption DEF Shapes, LoopShape, Conns
    <3>2. CASE active = 0
      BY <1>2, <3>1, <3>2, ConnsNumbers DEF KillActive
    <3>3. CASE active # 0
      <4>1. thread[active] \in State /\ thread' = [thread EXCEPT ![active].killThread = TRUE]
        BY <1>2, <3>1, <3>3 DEF KillActive
      <4> QED  BY <3>1, <3>3, <4>1 DEF State
    <3> QED  BY <3>2, <3>3
  <2>3. Shapes' /\ LoopShape'
    BY <2>1, <2>2, RemoteAssumption DEF Shapes, LoopShape
  <2>4. BacklogInv'
    BY <2>1, <2>2, BacklogKeeps
  <2>5. KnownInv' /\ SlotInv' /\ TempInv' /\ FilesHeld'
    BY <2>1, <2>2 DEF KnownInv, SlotInv, TempInv, FilesHeld
  <2> QED  BY <2>3, <2>4, <2>5
<1>3. CASE JoinClients
  <2>1. /\ serve = "join" /\ serve' = "gone" /\ clients' = <<>> /\ backlog' = <<>>
        /\ UNCHANGED <<hand, active, thread, disk, ctl>>
    BY <1>3 DEF JoinClients
  <2>2. \A c \in Conns : thread[c].at \notin Holding \cup {"hello"}
    BY <1>3 DEF JoinClients, Elems, KnownInv, Holding, Working
  <2>3. Shapes' /\ LoopShape'
    BY <2>1 DEF Shapes, LoopShape
  <2>4. BacklogInv'
    BY <2>1 DEF BacklogInv
  <2>5. KnownInv' /\ SlotInv' /\ TempInv'
    BY <2>1, <2>2 DEF KnownInv, SlotInv, TempInv
  <2>6. FilesHeld'
    BY <2>1, <2>2 DEF FilesHeld, TempInv, Holding
  <2> QED  BY <2>3, <2>4, <2>5, <2>6
<1>4. CASE AcceptFails
  <2>1. /\ serve' = "failed" /\ clients' = <<>> /\ backlog' = <<>> /\ active' = 0
        /\ UNCHANGED <<hand, thread, disk, ctl>>
    BY <1>4 DEF AcceptFails
  <2>2. Shapes' /\ LoopShape'
    BY <2>1, RemoteAssumption DEF Shapes, LoopShape
  <2>3. BacklogInv'
    BY <2>1 DEF BacklogInv
  <2>4. KnownInv' /\ SlotInv' /\ TempInv'
    BY <2>1 DEF KnownInv, SlotInv, TempInv
  <2>5. FilesHeld'
    BY <2>1 DEF FilesHeld
  <2> QED  BY <2>2, <2>3, <2>4, <2>5
<1> QED  BY <1>1, <1>2, <1>3, <1>4

-----------------------------------------------------------------------------
(* The controllers.                                                          *)

LEMMA ConnectInv ==
  ASSUME IInv, FilesHeld, NEW c \in Conns, CreateRemoteServerConnection(c) PROVE IInv' /\ FilesHeld'
<1> USE DEF IInv
<1>1. /\ ctl[c].at = "none" /\ serve \notin {"gone", "failed"} /\ backlog' = Append(backlog, c)
      /\ UNCHANGED <<serve, hand, clients, active, thread, disk>>
  BY DEF CreateRemoteServerConnection
<1>2. PICK wants : ctl' = [ctl EXCEPT ![c].at = "greeting", ![c].asked = wants]
  BY DEF CreateRemoteServerConnection
<1>3. Shapes' /\ ctl'[c].at = "greeting" /\ \A d \in Conns \ {c} : ctl'[d] = ctl[d]
  <2>1. ctl[c] = [at |-> ctl[c].at, asked |-> ctl[c].asked, has |-> ctl[c].has]
    BY DEF Shapes
  <2>2. ctl'[c] = [at |-> "greeting", asked |-> wants, has |-> ctl[c].has]
    BY <1>2, <2>1 DEF Shapes
  <2> QED  BY <1>1, <1>2, <2>2 DEF Shapes
<1>4. /\ backlog' \in Seq(Conns) /\ Len(backlog') = Len(backlog) + 1 /\ Len(backlog) \in Nat
      /\ \A i \in 1..Len(backlog) : backlog'[i] = backlog[i]
      /\ backlog'[Len(backlog) + 1] = c
  BY <1>1, AppendProperties, LenProperties DEF LoopShape
<1>5. BacklogInv'
  <2>1. \A i \in 1..Len(backlog') : i \in 1..Len(backlog) \/ (i = Len(backlog) + 1 /\ backlog'[i] = c)
    BY <1>4
  <2>2. thread[c].at = "none" /\ hand # c /\ \A i \in 1..Len(backlog) : backlog[i] # c
    BY <1>1 DEF BacklogInv
  <2>3. \A d \in Conns : ctl'[d].at = "none" =>
          thread'[d].at = "none" /\ hand' # d /\ \A i \in 1..Len(backlog') : backlog'[i] # d
    BY <1>1, <1>3, <1>4, <2>1 DEF BacklogInv
  <2>4. \A i \in 1..Len(backlog') :
         /\ thread'[backlog'[i]].at = "none" /\ backlog'[i] # hand'
         /\ \A j \in 1..Len(backlog') : backlog'[i] = backlog'[j] => i = j
    BY <1>1, <1>4, <2>1, <2>2 DEF BacklogInv
  <2>5. hand' # 0 => thread'[hand'].at = "none"
    BY <1>1 DEF BacklogInv
  <2> QED  BY <2>3, <2>4, <2>5 DEF BacklogInv
<1>6. LoopShape' /\ KnownInv' /\ SlotInv' /\ TempInv' /\ FilesHeld'
  BY <1>1, <1>4 DEF LoopShape, KnownInv, SlotInv, TempInv, FilesHeld
<1> QED  BY <1>3, <1>5, <1>6

\* What a controller makes of a packet, branch by branch.
LEMMA Understood ==
  ASSUME NEW c, NEW p, NEW state \in Understand(c, p)
  PROVE  \/ /\ p.kind = "handshake" /\ ctl[c].asked = "active"
            /\ state = [ctl[c] EXCEPT !.at = "idle", !.asked = "none"]
         \/ p.kind \in {"handshake", "busy", "mismatch", "shutdown"} /\ state = Gone(c)
         \/ p.kind \in {"open_progress", "resolve_progress"} /\ state = ctl[c]
         \/ /\ p.kind = "open"
            /\ \E has \in {FALSE, p.ok} :
                 state = [ctl[c] EXCEPT !.at = "idle", !.asked = "none", !.has = has]
         \/ /\ p.kind \notin {"handshake", "busy", "mismatch", "shutdown", "open_progress",
                              "resolve_progress", "open"}
            /\ state = [ctl[c] EXCEPT !.at = "idle", !.asked = "none"]
<1> DEFINE A == p.kind = "handshake" /\ ctl[c].asked = "active"
           B == p.kind \in {"handshake", "busy", "mismatch", "shutdown"}
           C == p.kind \in {"open_progress", "resolve_progress"}
           D == p.kind = "open"
           done == [ctl[c] EXCEPT !.at = "idle", !.asked = "none"]
           opened == {[ctl[c] EXCEPT !.at = "idle", !.asked = "none", !.has = has] : has \in {FALSE, p.ok}}
           gone == {Gone(c)}
           same == {ctl[c]}
           idle == {done}
<1>1. Understand(c, p) = IF A THEN idle ELSE CASE B -> gone [] C -> same [] D -> opened [] OTHER -> idle
  BY DEF Understand
<1>2. state \in opened =>
        \E has \in {FALSE, p.ok} : state = [ctl[c] EXCEPT !.at = "idle", !.asked = "none", !.has = has]
  OBVIOUS
<1>3. (state \in gone => state = Gone(c)) /\ (state \in same => state = ctl[c]) /\ (state \in idle => state = done)
  OBVIOUS
<1>4. \/ A /\ state \in idle
      \/ B /\ state \in gone
      \/ C /\ state \in same
      \/ D /\ state \in opened
      \/ ~A /\ ~B /\ ~C /\ ~D /\ state \in idle
  <2> HIDE DEF idle, gone, same, opened, A, B, C, D
  <2>1. CASE A
    BY <1>1, <2>1
  <2>2. CASE ~A /\ B
    BY <1>1, <2>2
  <2>3. CASE ~A /\ ~B /\ C
    BY <1>1, <2>3
  <2>4. CASE ~A /\ ~B /\ ~C /\ D
    BY <1>1, <2>4
  <2>5. CASE ~A /\ ~B /\ ~C /\ ~D
    BY <1>1, <2>5
  <2> QED  BY <2>1, <2>2, <2>3, <2>4, <2>5
<1> HIDE DEF opened, gone, same, idle, done
<1>5. \/ A /\ state = done
      \/ B /\ state = Gone(c)
      \/ C /\ state = ctl[c]
      \/ D /\ \E has \in {FALSE, p.ok} : state = [ctl[c] EXCEPT !.at = "idle", !.asked = "none", !.has = has]
      \/ ~A /\ ~B /\ ~C /\ ~D /\ state = done
  <2> HIDE DEF A, B, C, D
  <2> QED  BY <1>2, <1>3, <1>4
<1> QED  BY <1>5 DEF done

LEMMA ControllerInv ==
  ASSUME IInv, FilesHeld, NEW c \in Conns, Ask(c) \/ Receive(c) \/ Disconnect(c)
  PROVE  IInv' /\ FilesHeld'
<1>1. ctl = [d \in Conns |-> ctl[d]] /\ ctl[c] = [at |-> ctl[c].at, asked |-> ctl[c].asked, has |-> ctl[c].has]
  BY DEF IInv, Shapes
<1>2. UNCHANGED <<loopVars, active, thread, disk>> /\ ctl[c].at # "none"
  BY DEF Ask, Receive, Disconnect
<1>3. PICK x : /\ ctl' = [ctl EXCEPT ![c] = x] /\ x.at # "none"
               /\ x = [at |-> x.at, asked |-> x.asked, has |-> x.has]
  <2>1. CASE Ask(c)
    <3>1. \/ \E kind : ctl' = [ctl EXCEPT ![c] = [ctl[c] EXCEPT !.at = "waiting", !.asked = kind]]
          \/ ctl' = [ctl EXCEPT ![c] = [ctl[c] EXCEPT !.has = FALSE]]
      BY <2>1 DEF Ask
    <3> QED  BY <1>1, <1>2, <3>1
  <2>2. CASE Receive(c)
    <3>1. PICK state \in Understand(c, Head(toController[c])) : ctl' = [ctl EXCEPT ![c] = state]
      BY <2>2 DEF Receive
    <3>2. \/ state = [ctl[c] EXCEPT !.at = "idle", !.asked = "none"]
          \/ state = Gone(c) \/ state = ctl[c]
          \/ \E has : state = [ctl[c] EXCEPT !.at = "idle", !.asked = "none", !.has = has]
      BY <3>1, Understood
    <3>3. state.at # "none" /\ state = [at |-> state.at, asked |-> state.asked, has |-> state.has]
      BY <1>1, <1>2, <3>2 DEF Gone
    <3> QED  BY <3>1, <3>3
  <2>3. CASE Disconnect(c)
    <3>1. ctl' = [ctl EXCEPT ![c] = Gone(c)]
      BY <2>3 DEF Disconnect
    <3>2. PICK x : x = Gone(c)
      OBVIOUS
    <3>3. x.at # "none" /\ x = [at |-> x.at, asked |-> x.asked, has |-> x.has]
      BY <1>1, <1>2, <3>2 DEF Gone
    <3> QED  BY <3>1, <3>2, <3>3
  <2> QED  BY <2>1, <2>2, <2>3
<1> QED  BY <1>2, <1>3, ControllerKeeps

-----------------------------------------------------------------------------
LEMMA NextInv == IInv /\ FilesHeld /\ [Next]_vars => IInv' /\ FilesHeld'
<1> SUFFICES ASSUME IInv, FilesHeld, [Next]_vars PROVE IInv' /\ FilesHeld'
  OBVIOUS
<1>1. CASE ServerLoop \/ KillReplay \/ AcceptFails
  BY <1>1, AcceptInv, ReapInv, ShutdownInv DEF ServerLoop
<1>2. ASSUME NEW c \in Conns, ClientThread(c) PROVE IInv' /\ FilesHeld'
  BY <1>2, RequestInv, HandshakeInv, CopyInv, EndInv DEF ClientThread
<1>3. ASSUME NEW c \in Conns, Ticker(c) PROVE IInv' /\ FilesHeld'
  BY <1>3, TickerInv
<1>4. ASSUME NEW c \in Conns, Controller(c) PROVE IInv' /\ FilesHeld'
  BY <1>4, ConnectInv, ControllerInv DEF Controller
<1>5. CASE UNCHANGED vars
  BY <1>5 DEF vars, loopVars, IInv, Shapes, LoopShape, BacklogInv, KnownInv, SlotInv, TempInv, FilesHeld
<1> QED  BY <1>1, <1>2, <1>3, <1>4, <1>5 DEF Next

\* One connection is active at a time: whatever threads are promoted, reaped or
\* killed, a thread in the request loop that has not been told to stop is the
\* one the slot names (remote_server.cpp:255, 1206, 1278), until a failed accept
\* ends the server and its slot.
THEOREM OneActiveAlways == Spec => []OneActive
<1>1. Init => IInv /\ FilesHeld
  BY InitInv
<1>2. IInv /\ FilesHeld /\ [Next]_vars => IInv' /\ FilesHeld'
  BY NextInv
<1>3. IInv => OneActive
  BY DEF IInv, SlotInv, OneActive, Holding
<1> QED  BY <1>1, <1>2, <1>3, PTL DEF Spec

\* No copied capture is left behind on the server, and none is deleted under
\* the connection that holds it, while the server is not shutting down and no
\* accept has failed
\* (remote_server.cpp:452, 878).
THEOREM FilesHeldAlways == Spec => []FilesHeld
<1>1. Init => IInv /\ FilesHeld
  BY InitInv
<1>2. IInv /\ FilesHeld /\ [Next]_vars => IInv' /\ FilesHeld'
  BY NextInv
<1> QED  BY <1>1, <1>2, PTL DEF Spec

\* When the server has returned because it was asked to, by a controller or by
\* killReplay(), no thread of a connection runs (remote_server.cpp:1282-1288): its slot
\* for the active client, which they use, was a local of the accept loop.  It is not
\* so of the return after an accept that failed (remote_server.cpp:1216-1222), which
\* is the control point "failed" and joins nobody.
THEOREM JoinedAtEnd ==
  Spec => [](serve = "gone" => \A c \in Conns : thread[c].at \in {"none", "done"})
<1>1. Init => IInv /\ FilesHeld
  BY InitInv
<1>2. IInv /\ FilesHeld /\ [Next]_vars => IInv' /\ FilesHeld'
  BY NextInv
<1>3. IInv => (serve = "gone" => \A c \in Conns : thread[c].at \in {"none", "done"})
  <2> SUFFICES ASSUME IInv, serve = "gone", NEW c \in Conns PROVE thread[c].at \in {"none", "done"}
    OBVIOUS
  <2>1. thread[c].at \in Points
    BY DEF IInv, Shapes, State
  <2> QED  BY <2>1 DEF IInv, KnownInv, Points
<1> QED  BY <1>1, <1>2, <1>3, PTL DEF Spec

-----------------------------------------------------------------------------
(* The dialogue on a connection.                                             *)

Slow == {"opening", "opened", "resolving", "resolved"}

\* Where a promoted thread is when no request is under way, and where it ends.
Rest == {"loop", "read", "ending", "closing", "done"}

Greetings == {"handshake", "busy", "mismatch"}

\* What the thread has not read: the handshake, or requests, of which at most
\* one awaits its answer; one for the proxy finds the capture open.
Unread(th, state, q) ==
  /\ \/ q = <<>>
     \/ th.at \in {"none", "hello", "done"} /\ \E h \in Handshakes : q = <<h>>
     \/ th.at \in Rest /\ \E k \in Kinds : q = <<k>>
     \/ th.at \in Rest /\ \E k \in Kinds \ {"close", "proxy"} : q = <<"close", k>>
  /\ th.at \in {"none", "hello"} /\ state.at # "none" => q # <<>>
  /\ q = <<"proxy">> /\ th.at \in {"loop", "read"} => th.capture = "open"
  /\ q = <<"copy">> \/ q = <<"close", "copy">> => th.captureNum < MaxCopies

\* Reports of progress that may be under way before the answer to a request.
Progress(k) ==
  {<<>>} \cup {<<Packet(p)>> : p \in (IF k = "open" THEN {"open_progress"}
                                      ELSE IF k = "resolve" THEN {"resolve_progress"} ELSE {})}

\* A controller that waits: for its request to be read, for a thread that has
\* ended, for the driver or the resolver, or for the answer that is under way.
Waiting(th, state, q, r) ==
  \/ r = <<>> /\ th.at \in Rest /\ q = <<state.asked>>
  \/ r = <<>> /\ th.at \in Rest /\ q = <<"close", state.asked>> /\ ~state.has /\ state.asked # "proxy"
  \/ r = <<>> /\ th.at = "done" /\ q = <<>>
  \/ /\ q = <<>> /\ r \in Progress(state.asked)
     /\ \/ state.asked = "open" /\ th.at \in {"opening", "opened"}
        \/ state.asked = "resolve" /\ th.at \in {"resolving", "resolved"}
  \/ /\ q = <<>> /\ th.at \in Rest
     /\ \E s \in Progress(state.asked), ok \in BOOLEAN :
          /\ r = Append(s, [kind |-> state.asked, ok |-> ok])
          /\ state.asked = "open" /\ ok /\ th.at \in {"loop", "read"} => th.capture = "open"

\* What is under way to a controller in each of its states.
Dialogue(th, state, q, r) ==
  /\ state.at = "none" => th.at = "none" /\ q = <<>> /\ r = <<>> /\ ~state.has
  /\ state.at = "gone" => r = <<>> /\ ~state.has
  /\ state.at = "greeting" =>
       /\ state.asked \in Handshakes /\ ~state.has
       /\ \/ r = <<>> /\ q = <<state.asked>> /\ th.at \in {"none", "hello", "done"}
          \/ q = <<>> /\ th.at \in Rest /\ \E g \in Greetings : r = <<Packet(g)>>
  /\ state.at = "idle" =>
       r = <<>> /\ th.at \in Rest /\ (q = <<>> \/ (q = <<"close">> /\ ~state.has))
  /\ state.at = "waiting" =>
       /\ state.asked \in Kinds \ {"close"}
       /\ state.asked = "open" => ~state.has
       /\ Waiting(th, state, q, r)
  /\ state.has /\ th.at \in Working => th.capture = "open"

Talk(th, state, q, r) ==
  /\ th.captureNum <= MaxCopies
  /\ th.at \in Slow => q = <<>>
  /\ th.ticker # "none" => th.at \in Slow
  /\ Unread(th, state, q)
  /\ Dialogue(th, state, q, r)

TalkInv ==
  /\ ctl \in [Conns -> ControllerState]
  /\ toServer = [c \in Conns |-> toServer[c]]
  /\ toController = [c \in Conns |-> toController[c]]
  /\ \A c \in Conns : Talk(thread[c], ctl[c], toServer[c], toController[c])

\* No connection has two threads.
ClientsInv ==
  /\ \A i, j \in 1..Len(clients) : clients[i] = clients[j] => i = j
  /\ \A i \in 1..Len(clients) : thread[clients[i]].at # "none"

\* Short lists, read from their head and written at their end.
LEMMA Single ==
  ASSUME NEW a
  PROVE  /\ Head(<<a>>) = a /\ Tail(<<a>>) = <<>> /\ <<a>> # <<>> /\ Append(<<>>, a) = <<a>>
         /\ \A b : <<a>> = <<b>> => a = b
<1>1. Tail(<<a>>) = <<>> /\ Append(<<>>, a) = <<a>>
  OBVIOUS
<1>2. Len(<<a>>) = 1 /\ Len(<<>>) = 0
  OBVIOUS
<1>3. ASSUME NEW b, <<a>> = <<b>> PROVE a = b
  <2>1. <<a>>[1] = <<b>>[1]
    BY <1>3
  <2> QED  BY <2>1
<1> QED  BY <1>1, <1>2, <1>3

LEMMA Pair ==
  ASSUME NEW a, NEW b
  PROVE  /\ Head(<<a, b>>) = a /\ Tail(<<a, b>>) = <<b>> /\ <<a, b>> # <<>>
         /\ Append(<<a>>, b) = <<a, b>>
         /\ \A c : <<a, b>> # <<c>>
         /\ \A c, d : <<a, b>> = <<c, d>> => a = c /\ b = d
<1>1. Append(<<a>>, b) = <<a, b>>
  <2> DEFINE S == {a, b}
             s == Append(<<a>>, b)
  <2>1. <<a, b>> \in Seq(S) /\ <<a>> \in Seq(S) /\ b \in S /\ Len(<<a>>) = 1 /\ <<a>>[1] = a
    OBVIOUS
  <2>2. s \in Seq(S) /\ Len(s) = 2 /\ s[1] = a /\ s[2] = b
    BY <2>1, AppendProperties
  <2>3. Len(<<a, b>>) = 2 /\ <<a, b>>[1] = a /\ <<a, b>>[2] = b
    OBVIOUS
  <2> HIDE DEF s, S
  <2>4. s = <<a, b>>
    BY <2>1, <2>2, <2>3, SeqEqual
  <2> QED  BY <2>4 DEF s
<1>5. Tail(<<a, b>>) = <<b>>
  <2> DEFINE S == {a, b}
             s == Tail(<<a, b>>)
  <2>1. <<a, b>> \in Seq(S) /\ <<b>> \in Seq(S) /\ <<a, b>> # <<>> /\ Len(<<a, b>>) = 2
    OBVIOUS
  <2>2. s \in Seq(S) /\ Len(s) = 1 /\ \A i \in 1..Len(s) : s[i] = <<a, b>>[i + 1]
    BY <2>1, HeadTailProperties
  <2>3. s[1] = b /\ Len(<<b>>) = 1 /\ <<b>>[1] = b
    BY <2>2
  <2> HIDE DEF s, S
  <2>4. s = <<b>>
    BY <2>1, <2>2, <2>3, SeqEqual
  <2> QED  BY <2>4 DEF s
<1>2. Len(<<a, b>>) = 2 /\ Len(<<>>) = 0
  OBVIOUS
<1>3. \A c : <<a, b>> # <<c>>
  <2>1. ASSUME NEW c, <<a, b>> = <<c>> PROVE FALSE
    <3>1. Len(<<c>>) = 1
      OBVIOUS
    <3>2. Len(<<a, b>>) = Len(<<c>>)
      BY <2>1
    <3> QED  BY <1>2, <3>1, <3>2
  <2> QED  BY <2>1
<1>4. ASSUME NEW c, NEW d, <<a, b>> = <<c, d>> PROVE a = c /\ b = d
  <2>1. <<a, b>>[1] = <<c, d>>[1] /\ <<a, b>>[2] = <<c, d>>[2]
    BY <1>4
  <2> QED  BY <2>1
<1> QED  BY <1>1, <1>5, <1>2, <1>3, <1>4

\* What a promoted thread finds at the head of its packets is the request its
\* controller waits for, or a "close" that none waits for.
LEMMA ReadHead ==
  ASSUME NEW th, NEW state \in ControllerState, NEW q, NEW r, Talk(th, state, q, r),
         th.at = "read", q # <<>>
  PROVE  \/ /\ Head(q) \in Kinds \ {"close"} /\ Tail(q) = <<>> /\ r = <<>>
            /\ Head(q) = "copy" => th.captureNum < MaxCopies
            /\ Head(q) = "proxy" => th.capture = "open"
            /\ state.at = "gone" \/ (state.at = "waiting" /\ state.asked = Head(q))
         \/ /\ Head(q) = "close" /\ r = <<>> /\ ~state.has
            /\ \/ Tail(q) = <<>> /\ state.at \in {"idle", "gone"}
               \/ \E k \in Kinds \ {"close", "proxy"} :
                    /\ q = <<"close", k>> /\ Tail(q) = <<k>>
                    /\ k = "copy" => th.captureNum < MaxCopies
                    /\ state.at = "gone" \/ (state.at = "waiting" /\ state.asked = k)
<1>1. state.at \in {"none", "greeting", "idle", "waiting", "gone"} /\ state.has \in BOOLEAN
  BY DEF ControllerState
<1>2. (\E k \in Kinds : q = <<k>>) \/ \E k \in Kinds \ {"close", "proxy"} : q = <<"close", k>>
  BY DEF Talk, Unread
<1>3. CASE \E k \in Kinds : q = <<k>>
  <2>1. PICK k \in Kinds : q = <<k>>
    BY <1>3
  <2>2. Head(q) = k /\ Tail(q) = <<>>
    BY <2>1, Single
  <2>3. state.at \in {"idle", "waiting", "gone"}
    BY <1>1 DEF Talk, Dialogue, Rest
  <2>4. CASE state.at = "gone"
    BY <2>1, <2>2, <2>4 DEF Talk, Unread, Dialogue
  <2>5. CASE state.at = "idle"
    <3>1. q = <<"close">> /\ ~state.has /\ r = <<>>
      BY <2>5 DEF Talk, Dialogue
    <3>2. k = "close"
      BY <2>1, <3>1, Single
    <3> QED  BY <2>2, <2>5, <3>1, <3>2
  <2>6. CASE state.at = "waiting"
    <3>1. Waiting(th, state, q, r) /\ state.asked # "close"
      BY <2>6 DEF Talk, Dialogue
    <3>2. q # <<"close", state.asked>>
      BY <2>1, Pair
    <3>3. q = <<state.asked>> /\ r = <<>>
      BY <3>1, <3>2 DEF Waiting
    <3>4. k = state.asked
      BY <2>1, <3>3, Single
    <3> QED  BY <2>1, <2>2, <2>6, <3>1, <3>3, <3>4 DEF Talk, Unread
  <2> QED  BY <2>3, <2>4, <2>5, <2>6
<1>4. CASE \E k \in Kinds \ {"close", "proxy"} : q = <<"close", k>>
  <2>1. PICK k \in Kinds \ {"close", "proxy"} : q = <<"close", k>>
    BY <1>4
  <2>2. Head(q) = "close" /\ Tail(q) = <<k>> /\ \A c : q # <<c>>
    BY <2>1, Pair
  <2>3. state.at \in {"waiting", "gone"}
    BY <1>1, <2>2 DEF Talk, Dialogue, Rest
  <2>4. k = "copy" => th.captureNum < MaxCopies
    BY <2>1 DEF Talk, Unread
  <2>5. CASE state.at = "gone"
    BY <2>1, <2>2, <2>4, <2>5 DEF Talk, Dialogue
  <2>6. CASE state.at = "waiting"
    <3>1. Waiting(th, state, q, r)
      BY <2>6 DEF Talk, Dialogue
    <3>2. q = <<"close", state.asked>> /\ r = <<>> /\ ~state.has
      BY <2>2, <3>1 DEF Waiting
    <3>3. k = state.asked
      BY <2>1, <3>2, Pair
    <3> QED  BY <2>1, <2>2, <2>4, <2>6, <3>2, <3>3
  <2> QED  BY <2>3, <2>5, <2>6
<1> QED  BY <1>2, <1>3, <1>4

\* What is under way after an answer: nothing to a controller that is gone.
Answer(state, r, p) == IF state.at = "gone" THEN r ELSE Append(r, p)

\* A request answered at once.
LEMMA AnswerTalk ==
  ASSUME NEW th, NEW state \in ControllerState, NEW q, NEW r, Talk(th, state, q, r),
         th.at = "read", q # <<>>, Head(q) # "close",
         NEW th2, th2.at = "loop", th2.ticker = th.ticker, th2.captureNum <= MaxCopies,
         Head(q) # "open" => th2.capture = th.capture,
         NEW ok \in BOOLEAN, Head(q) = "open" => ~ok
  PROVE  Talk(th2, state, Tail(q), Answer(state, r, [kind |-> Head(q), ok |-> ok]))
<1> DEFINE k == Head(q)
           r2 == Answer(state, r, [kind |-> k, ok |-> ok])
<1>1. /\ k \in Kinds \ {"close"} /\ Tail(q) = <<>> /\ r = <<>>
      /\ state.at = "gone" \/ (state.at = "waiting" /\ state.asked = k)
  BY ReadHead
<1>2. th2.ticker = "none"
  BY DEF Talk, Slow
<1>3. state.has => th2.capture = "open"
  BY <1>1 DEF Talk, Dialogue, Working
<1> HIDE DEF k
<1>4. Unread(th2, state, <<>>)
  BY Single, Pair DEF Unread
<1>5. Dialogue(th2, state, <<>>, r2)
  <2>1. CASE state.at = "gone"
    BY <1>1, <2>1 DEF Talk, Dialogue, Answer
  <2>2. CASE state.at = "waiting"
    <3>1. /\ r2 = Append(<<>>, [kind |-> state.asked, ok |-> ok])
          /\ state.asked = "open" => ~ok
      BY <1>1, <2>2 DEF Answer, k
    <3>2. <<>> \in Progress(state.asked)
      BY DEF Progress
    <3> HIDE DEF r2
    <3>3. Waiting(th2, state, <<>>, r2)
      BY <3>1, <3>2 DEF Waiting, Rest
    <3> QED  BY <1>3, <2>2, <3>3 DEF Talk, Dialogue
  <2> QED  BY <1>1, <2>1, <2>2
<1> QED  BY <1>1, <1>2, <1>4, <1>5 DEF Talk, Slow, k

\* A request that takes the driver or the resolver a while.
LEMMA SlowTalk ==
  ASSUME NEW th, NEW state \in ControllerState, NEW q, NEW r, Talk(th, state, q, r),
         th.at = "read", q # <<>>,
         NEW th2, th2.captureNum = th.captureNum,
         \/ Head(q) = "open" /\ th2.at = "opening"
         \/ Head(q) = "resolve" /\ th2.at = "resolving" /\ th2.capture = th.capture
  PROVE  Talk(th2, state, Tail(q), r)
<1>1. /\ Tail(q) = <<>> /\ r = <<>>
      /\ state.at = "gone" \/ (state.at = "waiting" /\ state.asked = Head(q))
  BY ReadHead
<1>2. state.has => th2.capture = "open"
  BY <1>1 DEF Talk, Dialogue, Working
<1>3. Unread(th2, state, <<>>)
  BY Single, Pair DEF Unread
<1>4. Dialogue(th2, state, <<>>, <<>>)
  <2>1. CASE state.at = "gone"
    BY <1>1, <2>1 DEF Talk, Dialogue
  <2>2. CASE state.at = "waiting"
    <3>2. <<>> \in Progress(state.asked)
      BY DEF Progress
    <3>3. Waiting(th2, state, <<>>, <<>>)
      BY <1>1, <2>2, <3>2 DEF Waiting
    <3> QED  BY <1>2, <2>2, <3>3 DEF Talk, Dialogue
  <2> QED  BY <1>1, <2>1, <2>2
<1> QED  BY <1>1, <1>3, <1>4 DEF Talk, Slow

\* The controller of a thread that is with the driver or the resolver has gone,
\* or waits for that.
LEMMA SlowWaits ==
  ASSUME NEW th, NEW state \in ControllerState, NEW q, NEW r, Talk(th, state, q, r), th.at \in Slow
  PROVE  /\ q = <<>>
         /\ \/ state.at = "gone" /\ r = <<>>
            \/ /\ state.at = "waiting" /\ r \in Progress(state.asked)
               /\ \/ state.asked = "open" /\ th.at \in {"opening", "opened"}
                  \/ state.asked = "resolve" /\ th.at \in {"resolving", "resolved"}
<1>1. state.at \in {"none", "greeting", "idle", "waiting", "gone"}
  BY DEF ControllerState
<1>2. state.at \in {"waiting", "gone"}
  BY <1>1 DEF Talk, Dialogue, Slow, Rest
<1>3. state.at = "waiting" => Waiting(th, state, q, r)
  BY DEF Talk, Dialogue
<1> QED  BY <1>2, <1>3 DEF Talk, Dialogue, Waiting, Slow, Rest

\* The driver or the resolver returns, or progress is reported.
LEMMA ProgressTalk ==
  ASSUME NEW th, NEW state \in ControllerState, NEW q, NEW r, Talk(th, state, q, r),
         th.at \in Slow,
         NEW th2, th2.captureNum = th.captureNum, th2.at \in Slow,
         th.at \in {"opening", "opened"} <=> th2.at \in {"opening", "opened"},
         th2.at \in {"resolving", "resolved"} => th2.capture = th.capture,
         NEW r2, r2 = r \/ (r2 \in Progress(state.asked) /\ state.at # "gone")
  PROVE  Talk(th2, state, q, r2)
<1>1. /\ q = <<>>
      /\ \/ state.at = "gone" /\ r = <<>>
         \/ /\ state.at = "waiting" /\ r \in Progress(state.asked)
            /\ \/ state.asked = "open" /\ th.at \in {"opening", "opened"}
               \/ state.asked = "resolve" /\ th.at \in {"resolving", "resolved"}
  BY SlowWaits
<1>2. state.has => th2.capture = "open"
  BY <1>1 DEF Talk, Dialogue, Working, Slow
<1>3. Unread(th2, state, <<>>)
  BY Single, Pair DEF Unread, Slow
<1>4. Dialogue(th2, state, <<>>, r2)
  <2>1. CASE state.at = "gone"
    BY <1>1, <2>1 DEF Talk, Dialogue
  <2>2. CASE state.at = "waiting"
    <3>1. Waiting(th2, state, <<>>, r2)
      BY <1>1, <2>2 DEF Waiting, Slow
    <3> QED  BY <1>2, <2>2, <3>1 DEF Talk, Dialogue
  <2> QED  BY <1>1, <2>1, <2>2
<1> QED  BY <1>1, <1>3, <1>4 DEF Talk

\* The answer that comes after that.
LEMMA SlowAnswerTalk ==
  ASSUME NEW th, NEW state \in ControllerState, NEW q, NEW r, Talk(th, state, q, r),
         th.at \in Slow, NEW k, NEW ok \in BOOLEAN,
         \/ th.at = "opened" /\ k = "open" /\ (ok => th.capture = "open")
         \/ th.at = "resolved" /\ k = "resolve",
         NEW th2, th2.at = "loop", th2.ticker = "none", th2.captureNum = th.captureNum,
         th2.capture = th.capture
  PROVE  Talk(th2, state, q, Answer(state, r, [kind |-> k, ok |-> ok]))
<1> DEFINE r2 == Answer(state, r, [kind |-> k, ok |-> ok])
<1>1. /\ q = <<>>
      /\ \/ state.at = "gone" /\ r = <<>>
         \/ /\ state.at = "waiting" /\ r \in Progress(state.asked) /\ state.asked = k
  BY SlowWaits
<1>2. state.has => th2.capture = "open"
  BY <1>1 DEF Talk, Dialogue, Working, Slow
<1>3. Unread(th2, state, <<>>)
  BY Single, Pair DEF Unread
<1>4. Dialogue(th2, state, <<>>, r2)
  <2>1. CASE state.at = "gone"
    BY <1>1, <2>1 DEF Talk, Dialogue, Answer
  <2>2. CASE state.at = "waiting"
    <3>1. r2 = Append(r, [kind |-> state.asked, ok |-> ok]) /\ r \in Progress(state.asked)
      BY <1>1, <2>2 DEF Answer
    <3>2. state.asked = "open" /\ ok => th2.capture = "open"
      BY <1>1, <2>2
    <3> HIDE DEF r2
    <3>3. Waiting(th2, state, <<>>, r2)
      BY <3>1, <3>2 DEF Waiting, Rest
    <3> QED  BY <1>2, <2>2, <3>3 DEF Talk, Dialogue
  <2> QED  BY <1>1, <2>1, <2>2
<1> QED  BY <1>1, <1>3, <1>4 DEF Talk, Slow

\* A thread that goes round its loop, or ends.
LEMMA RestTalk ==
  ASSUME NEW th, NEW state \in ControllerState, NEW q, NEW r, Talk(th, state, q, r),
         NEW th2, th.at \in Rest \ {"done"}, th2.at \in Rest, th2.ticker = th.ticker,
         th2.at \in {"loop", "read"} => th.at \in {"loop", "read"} /\ th2.capture = th.capture,
         th2.captureNum <= MaxCopies,
         NEW q2, \/ q2 = q /\ th2.captureNum = th.captureNum
                 \/ q2 = <<>> /\ (th2.at = "done" \/ state.at = "gone" \/ q = <<>>)
  PROVE  Talk(th2, state, q2, r)
<1>1. th2.ticker = "none"
  BY DEF Talk, Slow, Rest
<1>2. Unread(th2, state, q2)
  <2>1. CASE q2 = <<>>
    BY <2>1, Single, Pair DEF Unread, Rest
  <2>2. CASE q2 = q /\ th2.captureNum = th.captureNum
    BY <2>2 DEF Talk, Unread, Rest
  <2> QED  BY <2>1, <2>2
<1>3. Dialogue(th2, state, q2, r)
  <2>1. state.has /\ th2.at \in Working => th2.capture = "open"
    BY DEF Talk, Dialogue, Working, Rest
  <2>2. state.at # "none"
    BY DEF Talk, Dialogue, Rest
  <2>3. state.at = "greeting" => Dialogue(th2, state, q2, r)
    BY <2>1, Single DEF Talk, Dialogue, Rest
  <2>4. state.at = "idle" => Dialogue(th2, state, q2, r)
    BY <2>1 DEF Talk, Dialogue
  <2>5. state.at = "gone" => Dialogue(th2, state, q2, r)
    BY <2>1 DEF Talk, Dialogue
  <2>6. CASE state.at = "waiting"
    <3>1. Waiting(th, state, q, r)
      BY <2>6 DEF Talk, Dialogue
    <3>2. CASE q2 = q
      <4>1. Waiting(th2, state, q2, r)
        BY <3>1, <3>2 DEF Waiting, Rest
      <4> QED  BY <2>1, <2>6, <4>1 DEF Talk, Dialogue
    <3>3. CASE q2 = <<>> /\ th2.at = "done" /\ q # q2
      <4>1. r = <<>>
        BY <3>1, <3>3 DEF Waiting
      <4>2. Waiting(th2, state, q2, r)
        BY <3>3, <4>1 DEF Waiting
      <4> QED  BY <2>1, <2>6, <4>2 DEF Talk, Dialogue
    <3> QED  BY <2>6, <3>2, <3>3
  <2> QED  BY <2>2, <2>3, <2>4, <2>5, <2>6 DEF ControllerState
<1> QED  BY <1>1, <1>2, <1>3 DEF Talk, Slow, Rest

\* The capture is closed: nobody waits for that, and another request may follow.
LEMMA CloseTalk ==
  ASSUME NEW th, NEW state \in ControllerState, NEW q, NEW r, Talk(th, state, q, r),
         th.at = "read", q # <<>>, Head(q) = "close",
         NEW th2, th2.at = "loop", th2.ticker = th.ticker, th2.captureNum = th.captureNum
  PROVE  Talk(th2, state, Tail(q), r)
<1>1. th2.ticker = "none"
  BY DEF Talk, Slow
<1>2. /\ r = <<>> /\ ~state.has
      /\ \/ Tail(q) = <<>> /\ state.at \in {"idle", "gone"}
         \/ \E k \in Kinds \ {"close", "proxy"} :
              /\ q = <<"close", k>> /\ Tail(q) = <<k>>
              /\ k = "copy" => th.captureNum < MaxCopies
              /\ state.at = "gone" \/ (state.at = "waiting" /\ state.asked = k)
  <2>1. Head(q) \notin Kinds \ {"close"}
    OBVIOUS
  <2> QED  BY <2>1, ReadHead
<1>3. CASE Tail(q) = <<>> /\ state.at \in {"idle", "gone"}
  <2>1. Unread(th2, state, <<>>)
    BY Single, Pair DEF Unread
  <2>2. Dialogue(th2, state, <<>>, r)
    BY <1>2, <1>3 DEF Dialogue, Rest
  <2> QED  BY <1>1, <1>3, <2>1, <2>2 DEF Talk, Slow
<1>4. CASE \E k \in Kinds \ {"close", "proxy"} :
             /\ q = <<"close", k>> /\ Tail(q) = <<k>>
             /\ k = "copy" => th.captureNum < MaxCopies
             /\ state.at = "gone" \/ (state.at = "waiting" /\ state.asked = k)
  <2>1. PICK k \in Kinds \ {"close", "proxy"} :
          /\ Tail(q) = <<k>>
          /\ k = "copy" => th.captureNum < MaxCopies
          /\ state.at = "gone" \/ (state.at = "waiting" /\ state.asked = k)
    BY <1>4
  <2>2. \A a, b : <<a>> = <<b>> => a = b
    BY Single
  <2>3. \A a, b, d : <<a, b>> # <<d>>
    BY Pair
  <2>4. Unread(th2, state, <<k>>)
    BY <2>1, <2>2, <2>3 DEF Unread, Rest
  <2>5. Dialogue(th2, state, <<k>>, r)
    <3>1. CASE state.at = "gone"
      BY <1>2, <3>1 DEF Dialogue
    <3>2. CASE state.at = "waiting"
      <4>1. Waiting(th2, state, <<k>>, r)
        BY <1>2, <2>1, <3>2 DEF Waiting, Rest
      <4> QED  BY <1>2, <2>1, <3>2, <4>1 DEF Talk, Dialogue
    <3> QED  BY <2>1, <3>1, <3>2
  <2> QED  BY <1>1, <2>1, <2>4, <2>5 DEF Talk, Slow
<1> QED  BY <1>2, <1>3, <1>4

\* The handshake is read and answered.
LEMMA HandshakeTalk ==
  ASSUME NEW th, NEW state \in ControllerState, NEW q, NEW r, Talk(th, state, q, r),
         th.at = "hello", NEW g \in Greetings,
         NEW th2, th2.at \in {"loop", "done"}, th2.ticker = th.ticker, th2.captureNum = th.captureNum
  PROVE  Talk(th2, state, Tail(q), Answer(state, r, Packet(g)))
<1>1. th2.ticker = "none"
  BY DEF Talk, Slow
<1>2. state.at \in {"greeting", "gone"}
  BY DEF Talk, Dialogue, Waiting, Rest, ControllerState
<1>3. q # <<>>
  BY <1>2 DEF Talk, Unread
<1>4. PICK h \in Handshakes : q = <<h>>
  BY <1>3 DEF Talk, Unread, Rest
<1>5. Tail(q) = <<>>
  BY <1>4, Single
<1>6. r = <<>> /\ ~state.has
  BY <1>2, <1>3 DEF Talk, Dialogue
<1>7. Append(<<>>, Packet(g)) = <<Packet(g)>>
  BY Single
<1>8. Unread(th2, state, <<>>)
  BY Single, Pair DEF Unread
<1>9. Dialogue(th2, state, <<>>, Answer(state, <<>>, Packet(g)))
  <2>1. CASE state.at = "gone"
    BY <1>6, <2>1 DEF Dialogue, Answer
  <2>2. CASE state.at = "greeting"
    <3>1. Answer(state, <<>>, Packet(g)) = <<Packet(g)>>
      BY <1>7, <2>2 DEF Answer
    <3>2. th2.at \in Rest
      BY DEF Rest
    <3> QED  BY <1>6, <2>2, <3>1, <3>2 DEF Talk, Dialogue
  <2> QED  BY <1>2, <2>1, <2>2
<1> QED  BY <1>1, <1>5, <1>6, <1>8, <1>9 DEF Talk, Slow

\* A connection gets its thread, or is dropped.
LEMMA SpawnTalk ==
  ASSUME NEW th, NEW state \in ControllerState, NEW q, NEW r, Talk(th, state, q, r),
         th.at = "none", state.at # "none",
         NEW th2, th2.at \in {"hello", "done"}, th2.ticker = th.ticker, th2.captureNum = th.captureNum
  PROVE  Talk(th2, state, q, r)
<1>1. th2.ticker = "none"
  BY DEF Talk, Slow
<1>2. state.at \in {"greeting", "gone"}
  BY DEF Talk, Dialogue, Waiting, Rest, ControllerState
<1>3. PICK h \in Handshakes : q = <<h>>
  BY DEF Talk, Unread, Rest
<1>4. h \notin {"copy", "close", "proxy"}
  BY DEF Handshakes
<1>5. Unread(th2, state, q)
  BY <1>3, <1>4, Single, Pair DEF Unread
<1>6. Dialogue(th2, state, q, r)
  <2>1. q # <<>> /\ th2.at \notin Working
    BY <1>3, Single DEF Working
  <2> QED  BY <1>2, <2>1 DEF Talk, Dialogue
<1> QED  BY <1>1, <1>5, <1>6 DEF Talk, Slow

\* The controller connects.
LEMMA ConnectTalk ==
  ASSUME NEW th, NEW state \in ControllerState, NEW q, NEW r, Talk(th, state, q, r),
         state.at = "none", NEW wants \in Handshakes,
         NEW state2, state2.at = "greeting", state2.asked = wants, state2.has = state.has
  PROVE  Talk(th, state2, <<wants>>, r)
<1>1. th.at = "none" /\ r = <<>> /\ ~state.has
  BY DEF Talk, Dialogue
<1>2. wants \notin {"copy", "close", "proxy"}
  BY DEF Handshakes
<1>3. Unread(th, state2, <<wants>>)
  BY <1>1, <1>2, Single, Pair DEF Unread
<1>4. Dialogue(th, state2, <<wants>>, r)
  BY <1>1 DEF Dialogue, Working
<1> QED  BY <1>1, <1>3, <1>4 DEF Talk, Slow

\* A request that is answered is sent, behind a "close" or alone.
LEMMA AskTalk ==
  ASSUME NEW th, NEW state \in ControllerState, NEW q, NEW r, Talk(th, state, q, r),
         state.at = "idle", NEW k \in Kinds \ {"close"},
         k = "proxy" => state.has, k = "open" => ~state.has, k = "copy" => th.captureNum < MaxCopies,
         NEW state2, state2.at = "waiting", state2.asked = k, state2.has = state.has
  PROVE  Talk(th, state2, Append(q, k), r)
<1>1. r = <<>> /\ th.at \in Rest /\ (q = <<>> \/ (q = <<"close">> /\ ~state.has))
  BY DEF Talk, Dialogue
<1>2. state.has /\ th.at \in Working => th.capture = "open"
  BY DEF Talk, Dialogue
<1>3. CASE q = <<>>
  <2>1. Append(q, k) = <<k>>
    BY <1>3, Single
  <2>2. Unread(th, state2, <<k>>)
    <3>1. \A a, b : <<a>> = <<b>> => a = b
      BY Single
    <3>2. \A a, b, d : <<a, b>> # <<d>>
      BY Pair
    <3> QED  BY <1>1, <1>2, <3>1, <3>2 DEF Unread, Rest, Working
  <2>3. Waiting(th, state2, <<k>>, <<>>)
    BY <1>1 DEF Waiting
  <2>4. Dialogue(th, state2, <<k>>, r)
    BY <1>1, <1>2, <2>3 DEF Dialogue
  <2> QED  BY <1>1, <2>1, <2>2, <2>4 DEF Talk, Slow, Rest
<1>4. CASE q = <<"close">> /\ ~state.has
  <2>1. Append(q, k) = <<"close", k>>
    BY <1>4, Pair
  <2>2. Unread(th, state2, <<"close", k>>)
    <3>1. \A a, b : <<a>> # <<>> /\ <<a, b>> # <<>>
      BY Single, Pair
    <3>2. \A a, b, d : <<a, b>> # <<d>>
      BY Pair
    <3>3. \A a, b, d, e : <<a, b>> = <<d, e>> => a = d /\ b = e
      BY Pair
    <3> QED  BY <1>1, <1>4, <3>1, <3>2, <3>3 DEF Unread, Rest
  <2>3. Waiting(th, state2, <<"close", k>>, <<>>)
    BY <1>1, <1>4 DEF Waiting
  <2>4. Dialogue(th, state2, <<"close", k>>, r)
    BY <1>1, <1>2, <1>4, <2>3 DEF Dialogue
  <2> QED  BY <1>1, <2>1, <2>2, <2>4 DEF Talk, Slow, Rest
<1> QED  BY <1>1, <1>3, <1>4

\* A "close" is sent, once: the controller that sent it has nothing to close.
LEMMA AskCloseTalk ==
  ASSUME NEW th, NEW state \in ControllerState, NEW q, NEW r, Talk(th, state, q, r),
         state.at = "idle", state.has,
         NEW state2, state2.at = "idle", state2.has = FALSE
  PROVE  Talk(th, state2, Append(q, "close"), r)
<1>1. r = <<>> /\ th.at \in Rest /\ q = <<>>
  BY DEF Talk, Dialogue
<1>2. Append(q, "close") = <<"close">>
  BY <1>1, Single
<1>3. Unread(th, state2, <<"close">>)
  <2>1. \A a, b : <<a>> = <<b>> => a = b
    BY Single
  <2>2. \A a, b, d : <<a, b>> # <<d>>
    BY Pair
  <2> QED  BY <1>1, <2>1, <2>2 DEF Unread, Rest, Kinds
<1>4. Dialogue(th, state2, <<"close">>, r)
  BY <1>1 DEF Dialogue
<1> QED  BY <1>1, <1>2, <1>3, <1>4 DEF Talk, Slow, Rest

\* The controller goes away.
LEMMA GoneTalk ==
  ASSUME NEW th, NEW state \in ControllerState, NEW q, NEW r, Talk(th, state, q, r),
         state.at # "none", NEW state2, state2.at = "gone", state2.has = FALSE
  PROVE  Talk(th, state2, q, <<>>)
<1>1. Unread(th, state2, q)
  BY DEF Talk, Unread
<1>2. Dialogue(th, state2, q, <<>>)
  BY DEF Dialogue
<1> QED  BY <1>1, <1>2 DEF Talk

\* The next packet for a controller: the answer to its handshake, a report of
\* the progress it waits for, or the answer to its request.
LEMMA NextPacket ==
  ASSUME NEW th, NEW state \in ControllerState, NEW q, NEW r, Talk(th, state, q, r), r # <<>>
  PROVE  /\ q = <<>>
         /\ \/ /\ state.at = "greeting" /\ th.at \in Rest /\ Tail(r) = <<>>
               /\ \E g \in Greetings : Head(r) = Packet(g)
            \/ /\ state.at = "waiting" /\ Waiting(th, state, q, Tail(r))
               /\ \/ state.asked = "open" /\ Head(r) = Packet("open_progress")
                  \/ state.asked = "resolve" /\ Head(r) = Packet("resolve_progress")
            \/ /\ state.at = "waiting" /\ th.at \in Rest /\ Tail(r) = <<>>
               /\ Head(r).kind = state.asked /\ Head(r).ok \in BOOLEAN
               /\ state.asked = "open" /\ Head(r).ok = TRUE /\ th.at \in {"loop", "read"} => th.capture = "open"
<1>1. state.at \in {"greeting", "waiting"}
  BY DEF Talk, Dialogue, ControllerState
<1>2. \A k : \A s \in Progress(k) :
        \/ s = <<>>
        \/ k = "open" /\ s = <<Packet("open_progress")>>
        \/ k = "resolve" /\ s = <<Packet("resolve_progress")>>
  BY DEF Progress
<1>3. \A k : <<>> \in Progress(k)
  BY DEF Progress
<1>4. CASE state.at = "greeting"
  <2>1. q = <<>> /\ th.at \in Rest /\ \E g \in Greetings : r = <<Packet(g)>>
    BY <1>4 DEF Talk, Dialogue
  <2>2. PICK g \in Greetings : r = <<Packet(g)>>
    BY <2>1
  <2>3. Head(r) = Packet(g) /\ Tail(r) = <<>>
    BY <2>2, Single
  <2> QED  BY <1>4, <2>1, <2>3
<1>5. CASE state.at = "waiting"
  <2>1. Waiting(th, state, q, r)
    BY <1>5 DEF Talk, Dialogue
  <2>2. CASE /\ q = <<>> /\ r \in Progress(state.asked)
             /\ \/ state.asked = "open" /\ th.at \in {"opening", "opened"}
                \/ state.asked = "resolve" /\ th.at \in {"resolving", "resolved"}
    <3>1. PICK p : /\ r = <<p>>
                   /\ \/ state.asked = "open" /\ p = Packet("open_progress")
                      \/ state.asked = "resolve" /\ p = Packet("resolve_progress")
      BY <1>2, <2>2
    <3>2. Head(r) = p /\ Tail(r) = <<>>
      BY <3>1, Single
    <3>3. Waiting(th, state, q, <<>>)
      BY <1>3, <2>2 DEF Waiting
    <3> QED  BY <1>5, <2>2, <3>1, <3>2, <3>3
  <2>3. CASE /\ q = <<>> /\ th.at \in Rest
             /\ \E s \in Progress(state.asked), ok \in BOOLEAN :
                  /\ r = Append(s, [kind |-> state.asked, ok |-> ok])
                  /\ state.asked = "open" /\ ok /\ th.at \in {"loop", "read"} => th.capture = "open"
    <3>1. PICK s \in Progress(state.asked), ok \in BOOLEAN :
            /\ r = Append(s, [kind |-> state.asked, ok |-> ok])
            /\ state.asked = "open" /\ ok /\ th.at \in {"loop", "read"} => th.capture = "open"
      BY <2>3
    <3> DEFINE a == [kind |-> state.asked, ok |-> ok]
    <3>2. a.kind = state.asked /\ a.ok = ok
      OBVIOUS
    <3> HIDE DEF a
    <3>3. CASE s = <<>>
      <4>1. r = <<a>>
        BY <3>1, <3>3, Single DEF a
      <4>2. Head(r) = a /\ Tail(r) = <<>>
        BY <4>1, Single
      <4> QED  BY <1>5, <2>3, <3>1, <3>2, <4>2
    <3>4. CASE s # <<>>
      <4>1. PICK p : /\ s = <<p>>
                     /\ \/ state.asked = "open" /\ p = Packet("open_progress")
                        \/ state.asked = "resolve" /\ p = Packet("resolve_progress")
        BY <1>2, <3>4
      <4>2. r = <<p, a>>
        <5>1. r = Append(s, a)
          BY <3>1 DEF a
        <5>2. Append(<<p>>, a) = <<p, a>>
          BY Pair
        <5> QED  BY <4>1, <5>1, <5>2
      <4>3. Head(r) = p /\ Tail(r) = <<a>>
        BY <4>2, Pair
      <4>4. Append(<<>>, a) = <<a>>
        BY Single
      <4>5. Waiting(th, state, q, <<a>>)
        BY <1>3, <2>3, <3>1, <4>4 DEF Waiting, a
      <4> QED  BY <1>5, <2>3, <4>1, <4>3, <4>5
    <3> QED  BY <3>3, <3>4
  <2> QED  BY <2>1, <2>2, <2>3 DEF Waiting
<1> QED  BY <1>1, <1>4, <1>5

LEMMA NextKind ==
  ASSUME NEW th, NEW state \in ControllerState, NEW q, NEW r, Talk(th, state, q, r), r # <<>>
  PROVE  \/ state.at = "greeting" /\ Head(r).kind \in {"handshake", "busy", "mismatch"}
         \/ state.at = "waiting" /\ Head(r).kind = state.asked
         \/ state.at = "waiting" /\ Head(r).kind = "open_progress" /\ state.asked = "open"
         \/ state.at = "waiting" /\ Head(r).kind = "resolve_progress" /\ state.asked = "resolve"
<1>1. \A k : Packet(k).kind = k
  BY DEF Packet
<1>2. \/ state.at = "greeting" /\ \E g \in Greetings : Head(r) = Packet(g)
      \/ state.at = "waiting" /\ state.asked = "open" /\ Head(r) = Packet("open_progress")
      \/ state.at = "waiting" /\ state.asked = "resolve" /\ Head(r) = Packet("resolve_progress")
      \/ state.at = "waiting" /\ Head(r).kind = state.asked
  BY NextPacket
<1> QED  BY <1>1, <1>2 DEF Greetings

LEMMA PacketOk ==
  ASSUME NEW th, NEW state \in ControllerState, NEW q, NEW r, Talk(th, state, q, r), r # <<>>
  PROVE  Head(r).ok \in BOOLEAN
<1>1. (\E k : Head(r) = Packet(k)) \/ Head(r).ok \in BOOLEAN
  BY NextPacket
<1>2. \A k : Packet(k).ok = TRUE
  BY DEF Packet
<1> QED  BY <1>1, <1>2

\* The controller reads it.
LEMMA ReceiveTalk ==
  ASSUME NEW th, NEW state \in ControllerState, NEW q, NEW r, Talk(th, state, q, r), r # <<>>,
         NEW kind, kind = Head(r).kind,
         NEW state2,
         \/ kind = "handshake" /\ state.asked = "active" /\ state2.at = "idle" /\ state2.has = state.has
         \/ kind \in {"handshake", "busy", "mismatch", "shutdown"} /\ state2.at = "gone" /\ state2.has = FALSE
         \/ kind \in {"open_progress", "resolve_progress"} /\ state2 = state
         \/ kind = "open" /\ state2.at = "idle" /\ state2.has \in {FALSE, Head(r).ok}
         \/ /\ kind \notin {"handshake", "busy", "mismatch", "shutdown", "open_progress",
                            "resolve_progress", "open"}
            /\ state2.at = "idle" /\ state2.has = state.has
  PROVE  Talk(th, state2, q, IF state2.at = "gone" THEN <<>> ELSE Tail(r))
<1>1. /\ q = <<>>
      /\ \/ /\ state.at = "greeting" /\ th.at \in Rest /\ Tail(r) = <<>>
            /\ \E g \in Greetings : Head(r) = Packet(g)
         \/ /\ state.at = "waiting" /\ Waiting(th, state, q, Tail(r))
            /\ \/ state.asked = "open" /\ Head(r) = Packet("open_progress")
               \/ state.asked = "resolve" /\ Head(r) = Packet("resolve_progress")
         \/ /\ state.at = "waiting" /\ th.at \in Rest /\ Tail(r) = <<>>
            /\ Head(r).kind = state.asked /\ Head(r).ok \in BOOLEAN
            /\ state.asked = "open" /\ Head(r).ok = TRUE /\ th.at \in {"loop", "read"} => th.capture = "open"
  BY NextPacket
<1>2. \A k : Packet(k).kind = k
  BY DEF Packet
<1>3. state.at # "none"
  BY <1>1
<1>4. CASE state2.at = "gone" /\ state2.has = FALSE
  BY <1>3, <1>4, GoneTalk
<1>5. CASE state2 = state /\ kind \in {"open_progress", "resolve_progress"}
  <2>1. state.at = "waiting" /\ Waiting(th, state, q, Tail(r))
    BY <1>1, <1>2, <1>5 DEF Greetings, Talk, Dialogue, Kinds
  <2>2. Dialogue(th, state, q, Tail(r))
    BY <2>1 DEF Talk, Dialogue
  <2> QED  BY <1>5, <2>1, <2>2 DEF Talk
<1>6. CASE state2.at = "idle"
  <2>1. th.at \in Rest /\ Tail(r) = <<>>
    BY <1>1, <1>2, <1>6
  <2>2. state2.has /\ th.at \in Working => th.capture = "open"
    BY <1>1, <1>2, <1>6, <2>1 DEF Talk, Dialogue, Working, Rest, Greetings
  <2>3. Dialogue(th, state2, q, <<>>)
    BY <1>1, <1>6, <2>1, <2>2 DEF Dialogue
  <2>4. Unread(th, state2, q)
    BY <1>6, <2>1 DEF Talk, Unread, Rest
  <2> QED  BY <1>6, <2>1, <2>3, <2>4 DEF Talk
<1> QED  BY <1>4, <1>5, <1>6

\* Only what belongs to connection c has changed.
LEMMA TalkStep ==
  ASSUME TalkInv, NEW c \in Conns,
         \A d \in Conns \ {c} : thread'[d] = thread[d],
         ctl' \in [Conns -> ControllerState], \A d \in Conns \ {c} : ctl'[d] = ctl[d],
         toServer' = [d \in Conns |-> toServer'[d]],
         \A d \in Conns \ {c} : toServer'[d] = toServer[d],
         toController' = [d \in Conns |-> toController'[d]],
         \A d \in Conns \ {c} : toController'[d] = toController[d],
         Talk(thread'[c], ctl'[c], toServer'[c], toController'[c])
  PROVE  TalkInv'
<1>1. ASSUME NEW d \in Conns PROVE Talk(thread'[d], ctl'[d], toServer'[d], toController'[d])
  <2>1. CASE d = c
    BY <2>1
  <2>2. CASE d # c
    <3>1. Talk(thread[d], ctl[d], toServer[d], toController[d])
      BY DEF TalkInv
    <3>2. thread'[d] = thread[d] /\ ctl'[d] = ctl[d] /\ toServer'[d] = toServer[d]
          /\ toController'[d] = toController[d]
      BY <2>2
    <3> QED  BY <3>1, <3>2
  <2> QED  BY <2>1, <2>2
<1> QED  BY <1>1 DEF TalkInv

LEMMA TakeStep ==
  ASSUME TalkInv, NEW c \in Conns, Take(c)
  PROVE  /\ toServer' = [d \in Conns |-> toServer'[d]] /\ toServer'[c] = Tail(toServer[c])
         /\ \A d \in Conns \ {c} : toServer'[d] = toServer[d]
BY DEF TalkInv, Take

LEMMA ReplyStep ==
  ASSUME TalkInv, NEW c \in Conns, NEW p, Reply(c, p)
  PROVE  /\ toController' = [d \in Conns |-> toController'[d]]
         /\ toController'[c] = Answer(ctl[c], toController[c], p)
         /\ \A d \in Conns \ {c} : toController'[d] = toController[d]
BY DEF TalkInv, Reply, Answer

\* A thread that is not at work has no ticker and reads nothing.
LEMMA TalkOf ==
  ASSUME IInv, TalkInv, NEW c \in Conns
  PROVE  /\ ctl[c] \in ControllerState /\ thread[c] \in State /\ thread \in [Conns -> State]
         /\ thread[c].captureNum \in Nat /\ thread[c].captureNum <= MaxCopies
         /\ Talk(thread[c], ctl[c], toServer[c], toController[c])
BY DEF IInv, Shapes, TalkInv, Talk, State

\* A request that is answered at once.
LEMMA AnswerInv ==
  ASSUME IInv, TalkInv, NEW c \in Conns, NEW k \in Kinds \ {"close"}, Requested(c, k), Take(c),
         NEW ok \in BOOLEAN, k = "open" => ~ok, Reply(c, [kind |-> k, ok |-> ok]), UNCHANGED ctl,
         \A d \in Conns \ {c} : thread'[d] = thread[d],
         thread'[c].at = "loop", thread'[c].ticker = thread[c].ticker,
         k # "copy" => thread'[c].captureNum = thread[c].captureNum,
         k = "copy" => thread'[c].captureNum = thread[c].captureNum + 1,
         k # "open" => thread'[c].capture = thread[c].capture
  PROVE  TalkInv'
<1> DEFINE q == toServer[c]
           r == toController[c]
<1>1. thread[c].at = "read" /\ q # <<>> /\ Head(q) = k
  BY DEF Requested
<1>2. /\ toServer' = [d \in Conns |-> toServer'[d]] /\ toServer'[c] = Tail(q)
      /\ \A d \in Conns \ {c} : toServer'[d] = toServer[d]
  BY TakeStep
<1>3. /\ toController' = [d \in Conns |-> toController'[d]]
      /\ toController'[c] = Answer(ctl[c], r, [kind |-> k, ok |-> ok])
      /\ \A d \in Conns \ {c} : toController'[d] = toController[d]
  BY ReplyStep
<1>4. k = "copy" => thread[c].captureNum < MaxCopies
  BY <1>1, TalkOf, ReadHead
<1>5. thread'[c].captureNum <= MaxCopies
  BY <1>4, TalkOf, RemoteAssumption
<1>6. Talk(thread'[c], ctl[c], Tail(q), Answer(ctl[c], r, [kind |-> k, ok |-> ok]))
  BY <1>1, <1>5, TalkOf, AnswerTalk
<1>7. Talk(thread'[c], ctl'[c], toServer'[c], toController'[c])
  BY <1>2, <1>3, <1>6
<1>8. ctl' \in [Conns -> ControllerState] /\ \A d \in Conns \ {c} : ctl'[d] = ctl[d]
  BY DEF TalkInv
<1> QED  BY <1>2, <1>3, <1>7, <1>8, TalkStep

\* A step in which the packets from the controller, at most, are read.
LEMMA SilentInv ==
  ASSUME IInv, TalkInv, NEW c \in Conns, UNCHANGED <<ctl, toController>>,
         Take(c) \/ UNCHANGED toServer \/ toServer' = [toServer EXCEPT ![c] = <<>>],
         \A d \in Conns \ {c} : thread'[d] = thread[d],
         Talk(thread'[c], ctl[c], toServer'[c], toController[c])
  PROVE  TalkInv'
<1>1. /\ toServer' = [d \in Conns |-> toServer'[d]]
      /\ \A d \in Conns \ {c} : toServer'[d] = toServer[d]
  BY TakeStep DEF TalkInv
<1>2. /\ toController' = [d \in Conns |-> toController'[d]]
      /\ \A d \in Conns \ {c} : toController'[d] = toController[d]
      /\ toController'[c] = toController[c] /\ ctl'[c] = ctl[c]
      /\ ctl' \in [Conns -> ControllerState] /\ \A d \in Conns \ {c} : ctl'[d] = ctl[d]
  BY DEF TalkInv
<1>3. Talk(thread'[c], ctl'[c], toServer'[c], toController'[c])
  BY <1>2
<1> QED  BY <1>1, <1>2, <1>3, TalkStep

LEMMA AtOnceTalks ==
  ASSUME IInv, TalkInv, NEW c \in Conns, Query(c) \/ ShutdownServer(c) PROVE TalkInv'
<1>1. thread[c] \in State /\ thread \in [Conns -> State] /\ UNCHANGED ctl /\ Take(c)
  BY TalkOf DEF Query, ShutdownServer
<1>2. CASE Query(c)
  <2>1. Requested(c, "query") /\ Reply(c, [kind |-> "query", ok |-> TRUE])
    BY <1>2 DEF Query, Packet
  <2>2. /\ \A d \in Conns \ {c} : thread'[d] = thread[d]
        /\ thread'[c].at = "loop" /\ thread'[c].ticker = thread[c].ticker
        /\ thread'[c].captureNum = thread[c].captureNum /\ thread'[c].capture = thread[c].capture
    BY <1>1, <1>2 DEF Query, State
  <2> QED  BY <1>1, <2>1, <2>2, AnswerInv DEF Kinds
<1>3. CASE ShutdownServer(c)
  <2>1. Requested(c, "shutdown") /\ Reply(c, [kind |-> "shutdown", ok |-> TRUE])
    BY <1>3 DEF ShutdownServer, Packet
  <2>2. /\ \A d \in Conns \ {c} : thread'[d] = thread[d]
        /\ thread'[c].at = "loop" /\ thread'[c].ticker = thread[c].ticker
        /\ thread'[c].captureNum = thread[c].captureNum /\ thread'[c].capture = thread[c].capture
    BY <1>1, <1>3 DEF ShutdownServer, State
  <2> QED  BY <1>1, <2>1, <2>2, AnswerInv DEF Kinds
<1> QED  BY <1>2, <1>3

LEMMA CopyTalks ==
  ASSUME IInv, TalkInv, NEW c \in Conns, CopyCaptureToRemote(c) PROVE TalkInv'
<1> DEFINE q == toServer[c]
           r == toController[c]
<1>1. /\ thread[c] \in State /\ thread \in [Conns -> State] /\ UNCHANGED ctl /\ Take(c)
      /\ Requested(c, "copy")
  BY TalkOf DEF CopyCaptureToRemote
<1>2. CASE /\ thread' = [thread EXCEPT ![c].at = "loop", ![c].captureNum = @ + 1,
                                       ![c].tempFiles = @ \cup {thread[c].captureNum}]
           /\ Reply(c, Packet("copy"))
  <2>1. Reply(c, [kind |-> "copy", ok |-> TRUE])
    BY <1>2 DEF Packet
  <2>2. /\ \A d \in Conns \ {c} : thread'[d] = thread[d]
        /\ thread'[c].at = "loop" /\ thread'[c].ticker = thread[c].ticker
        /\ thread'[c].captureNum = thread[c].captureNum + 1 /\ thread'[c].capture = thread[c].capture
    BY <1>1, <1>2 DEF State
  <2> QED  BY <1>1, <2>1, <2>2, AnswerInv DEF Kinds
<1>3. CASE /\ ctl[c].at = "gone"
           /\ thread' = [thread EXCEPT ![c].at = "ending", ![c].captureNum = @ + 1]
           /\ UNCHANGED toController
  <2>1. /\ \A d \in Conns \ {c} : thread'[d] = thread[d]
        /\ thread'[c].at = "ending" /\ thread'[c].ticker = thread[c].ticker
        /\ thread'[c].captureNum = thread[c].captureNum + 1
    BY <1>1, <1>3 DEF State
  <2>2. thread[c].at = "read" /\ q # <<>> /\ Head(q) = "copy" /\ toServer'[c] = Tail(q)
    BY <1>1, TakeStep DEF Requested
  <2>3. Tail(q) = <<>> /\ thread[c].captureNum < MaxCopies
    BY <2>2, TalkOf, ReadHead
  <2>4. thread'[c].captureNum <= MaxCopies
    BY <2>1, <2>3, TalkOf, RemoteAssumption
  <2>5. Talk(thread'[c], ctl[c], <<>>, r)
    <3>1. thread[c].at \in Rest \ {"done"} /\ thread'[c].at \in Rest \ {"loop", "read"}
      BY <2>1, <2>2 DEF Rest
    <3> QED  BY <1>3, <2>1, <2>4, <3>1, TalkOf, RestTalk
  <2>6. Talk(thread'[c], ctl[c], toServer'[c], r)
    BY <2>2, <2>3, <2>5
  <2> QED  BY <1>1, <1>3, <2>1, <2>6, SilentInv
<1> QED  BY <1>2, <1>3 DEF CopyCaptureToRemote

LEMMA OpenTalks ==
  ASSUME IInv, TalkInv, NEW c \in Conns, OpenLog(c) PROVE TalkInv'
<1> DEFINE q == toServer[c]
           r == toController[c]
<1>1. /\ thread[c] \in State /\ thread \in [Conns -> State] /\ UNCHANGED ctl /\ Take(c)
      /\ Requested(c, "open")
  BY TalkOf DEF OpenLog
<1>2. CASE /\ thread' = [thread EXCEPT ![c].at = "loop", ![c].capture = "file"]
           /\ Reply(c, [kind |-> "open", ok |-> FALSE])
  <2>1. /\ \A d \in Conns \ {c} : thread'[d] = thread[d]
        /\ thread'[c].at = "loop" /\ thread'[c].ticker = thread[c].ticker
        /\ thread'[c].captureNum = thread[c].captureNum
    BY <1>1, <1>2 DEF State
  <2> QED  BY <1>1, <1>2, <2>1, AnswerInv DEF Kinds
<1>3. CASE /\ thread' = [thread EXCEPT ![c].at = "opening", ![c].capture = "file", ![c].ticker = "ticking"]
           /\ UNCHANGED toController
  <2>1. /\ \A d \in Conns \ {c} : thread'[d] = thread[d]
        /\ thread'[c].at = "opening" /\ thread'[c].captureNum = thread[c].captureNum
    BY <1>1, <1>3 DEF State
  <2>2. thread[c].at = "read" /\ q # <<>> /\ Head(q) = "open" /\ toServer'[c] = Tail(q)
    BY <1>1, TakeStep DEF Requested
  <2>3. Talk(thread'[c], ctl[c], Tail(q), r)
    BY <2>1, <2>2, TalkOf, SlowTalk
  <2>4. Talk(thread'[c], ctl[c], toServer'[c], r)
    BY <2>2, <2>3
  <2> QED  BY <1>1, <1>3, <2>1, <2>4, SilentInv
<1> QED  BY <1>2, <1>3 DEF OpenLog

LEMMA ResolveTalks ==
  ASSUME IInv, TalkInv, NEW c \in Conns, InitResolver(c) PROVE TalkInv'
<1> DEFINE q == toServer[c]
           r == toController[c]
<1>1. /\ thread[c] \in State /\ thread \in [Conns -> State] /\ UNCHANGED ctl /\ Take(c)
      /\ Requested(c, "resolve")
  BY TalkOf DEF InitResolver
<1>2. CASE thread' = [thread EXCEPT ![c].at = "loop"] /\ Reply(c, Packet("resolve"))
  <2>1. Reply(c, [kind |-> "resolve", ok |-> TRUE])
    BY <1>2 DEF Packet
  <2>2. /\ \A d \in Conns \ {c} : thread'[d] = thread[d]
        /\ thread'[c].at = "loop" /\ thread'[c].ticker = thread[c].ticker
        /\ thread'[c].captureNum = thread[c].captureNum /\ thread'[c].capture = thread[c].capture
    BY <1>1, <1>2 DEF State
  <2> QED  BY <1>1, <2>1, <2>2, AnswerInv DEF Kinds
<1>3. CASE /\ thread' = [thread EXCEPT ![c].at = "resolving", ![c].ticker = "ticking"]
           /\ UNCHANGED toController
  <2>1. /\ \A d \in Conns \ {c} : thread'[d] = thread[d]
        /\ thread'[c].at = "resolving" /\ thread'[c].captureNum = thread[c].captureNum
        /\ thread'[c].capture = thread[c].capture
    BY <1>1, <1>3 DEF State
  <2>2. thread[c].at = "read" /\ q # <<>> /\ Head(q) = "resolve" /\ toServer'[c] = Tail(q)
    BY <1>1, TakeStep DEF Requested
  <2>3. Talk(thread'[c], ctl[c], Tail(q), r)
    BY <2>1, <2>2, TalkOf, SlowTalk
  <2>4. Talk(thread'[c], ctl[c], toServer'[c], r)
    BY <2>2, <2>3
  <2> QED  BY <1>1, <1>3, <2>1, <2>4, SilentInv
<1> QED  BY <1>2, <1>3 DEF InitResolver

LEMMA ReturnTalks ==
  ASSUME IInv, TalkInv, NEW c \in Conns, OpenEnds(c) \/ MakeResolver(c) PROVE TalkInv'
<1> DEFINE q == toServer[c]
           r == toController[c]
<1>1. /\ thread[c] \in State /\ thread \in [Conns -> State]
      /\ UNCHANGED <<ctl, toServer, toController>>
  BY TalkOf DEF OpenEnds, MakeResolver
<1>2. /\ \A d \in Conns \ {c} : thread'[d] = thread[d]
      /\ thread[c].at \in Slow /\ thread'[c].at \in Slow
      /\ thread'[c].captureNum = thread[c].captureNum
      /\ thread[c].at \in {"opening", "opened"} <=> thread'[c].at \in {"opening", "opened"}
      /\ thread'[c].at \in {"resolving", "resolved"} => thread'[c].capture = thread[c].capture
  <2>1. CASE OpenEnds(c)
    <3>1. PICK capture : thread' = [thread EXCEPT ![c].at = "opened", ![c].capture = capture,
                                                  ![c].ticker = "killed"]
      BY <2>1 DEF OpenEnds
    <3> QED  BY <1>1, <2>1, <3>1 DEF OpenEnds, State, Slow
  <2>2. CASE MakeResolver(c)
    <3>1. PICK ticker : thread' = [thread EXCEPT ![c].at = "resolved", ![c].ticker = ticker]
      BY <2>2 DEF MakeResolver
    <3> QED  BY <1>1, <2>2, <3>1 DEF MakeResolver, State, Slow
  <2> QED  BY <2>1, <2>2
<1>3. Talk(thread'[c], ctl[c], q, r)
  BY <1>2, TalkOf, ProgressTalk
<1>4. Talk(thread'[c], ctl[c], toServer'[c], r)
  BY <1>1, <1>3
<1> QED  BY <1>1, <1>2, <1>4, SilentInv

\* A step in which the controller, at most, is sent a packet.
LEMMA SendInv ==
  ASSUME IInv, TalkInv, NEW c \in Conns, NEW p, UNCHANGED <<ctl, toServer>>, Reply(c, p),
         \A d \in Conns \ {c} : thread'[d] = thread[d],
         Talk(thread'[c], ctl[c], toServer[c], Answer(ctl[c], toController[c], p))
  PROVE  TalkInv'
<1>1. /\ toController' = [d \in Conns |-> toController'[d]]
      /\ toController'[c] = Answer(ctl[c], toController[c], p)
      /\ \A d \in Conns \ {c} : toController'[d] = toController[d]
  BY ReplyStep
<1>2. /\ toServer' = [d \in Conns |-> toServer'[d]]
      /\ \A d \in Conns \ {c} : toServer'[d] = toServer[d]
      /\ toServer'[c] = toServer[c] /\ ctl'[c] = ctl[c]
      /\ ctl' \in [Conns -> ControllerState] /\ \A d \in Conns \ {c} : ctl'[d] = ctl[d]
  BY DEF TalkInv
<1>3. Talk(thread'[c], ctl'[c], toServer'[c], toController'[c])
  BY <1>1, <1>2
<1> QED  BY <1>1, <1>2, <1>3, TalkStep

LEMMA LateAnswerTalks ==
  ASSUME IInv, TalkInv, NEW c \in Conns, LogOpened(c) \/ Resolved(c) PROVE TalkInv'
<1> DEFINE q == toServer[c]
           r == toController[c]
<1>1. /\ thread[c] \in State /\ thread \in [Conns -> State] /\ UNCHANGED <<ctl, toServer>>
      /\ thread[c].ticker = "none"
  BY TalkOf DEF LogOpened, Resolved
<1>2. /\ \A d \in Conns \ {c} : thread'[d] = thread[d]
      /\ thread'[c].at = "loop" /\ thread'[c].ticker = "none"
      /\ thread'[c].captureNum = thread[c].captureNum
      /\ thread'[c].capture = thread[c].capture
  <2>1. thread' = [thread EXCEPT ![c].at = "loop"]
    BY DEF LogOpened, Resolved
  <2> QED  BY <1>1, <2>1 DEF State
<1>3. PICK k \in Kinds, ok \in BOOLEAN :
        /\ Reply(c, [kind |-> k, ok |-> ok])
        /\ \/ thread[c].at = "opened" /\ k = "open" /\ (ok => thread[c].capture = "open")
           \/ thread[c].at = "resolved" /\ k = "resolve"
  <2>1. CASE LogOpened(c)
    <3>1. PICK ok \in BOOLEAN : ok = (thread[c].capture = "open")
      OBVIOUS
    <3>2. Reply(c, [kind |-> "open", ok |-> ok]) /\ thread[c].at = "opened"
      BY <2>1, <3>1 DEF LogOpened
    <3>3. ok => thread[c].capture = "open"
      BY <3>1
    <3> QED  BY <3>2, <3>3 DEF Kinds
  <2>2. CASE Resolved(c)
    <3>1. Reply(c, [kind |-> "resolve", ok |-> TRUE]) /\ thread[c].at = "resolved"
      BY <2>2 DEF Resolved, Packet
    <3> QED  BY <3>1 DEF Kinds
  <2> QED  BY <2>1, <2>2
<1>4. thread[c].at \in Slow
  BY <1>3 DEF Slow
<1>5. Talk(thread'[c], ctl[c], q, Answer(ctl[c], r, [kind |-> k, ok |-> ok]))
  BY <1>2, <1>3, <1>4, TalkOf, SlowAnswerTalk
<1> QED  BY <1>1, <1>2, <1>3, <1>5, SendInv

LEMMA TickerTalks ==
  ASSUME IInv, TalkInv, NEW c \in Conns, Ticker(c) PROVE TalkInv'
<1> DEFINE q == toServer[c]
           r == toController[c]
<1>1. thread[c] \in State /\ thread \in [Conns -> State] /\ UNCHANGED <<ctl, toServer>>
  BY TalkOf DEF Ticker
<1>2. /\ \A d \in Conns \ {c} : thread'[d] = thread[d]
      /\ thread'[c].at = thread[c].at
      /\ thread'[c].captureNum = thread[c].captureNum
      /\ thread'[c].capture = thread[c].capture
  <2>1. PICK ticker : thread' = [thread EXCEPT ![c].ticker = ticker]
    <3>1. PICK ticker : ticker = IF thread[c].ticker = "killed" THEN "none" ELSE thread[c].ticker
      OBVIOUS
    <3>2. thread' = [thread EXCEPT ![c].ticker = ticker] \/ thread' = [thread EXCEPT ![c].ticker = "none"]
      BY <3>1 DEF Ticker
    <3> QED  BY <3>2
  <2> QED  BY <1>1, <2>1 DEF State
<1>3. thread[c].at \in Slow
  <2>1. thread[c].ticker # "none"
    BY DEF Ticker
  <2> QED  BY <2>1, TalkOf DEF Talk
<1>4. CASE UNCHANGED toController
  <2>1. Talk(thread'[c], ctl[c], q, r)
    BY <1>2, <1>3, TalkOf, ProgressTalk
  <2>2. Talk(thread'[c], ctl[c], toServer'[c], r)
    BY <1>1, <2>1
  <2> QED  BY <1>1, <1>2, <1>4, <2>2, SilentInv
<1>5. CASE /\ r = <<>>
           /\ Reply(c, Packet(IF thread[c].at \in {"resolving", "resolved"}
                              THEN "resolve_progress" ELSE "open_progress"))
  <2>1. PICK p : p = Packet(IF thread[c].at \in {"resolving", "resolved"}
                            THEN "resolve_progress" ELSE "open_progress")
    OBVIOUS
  <2>2. Answer(ctl[c], r, p) = r \/ (Answer(ctl[c], r, p) \in Progress(ctl[c].asked) /\ ctl[c].at # "gone")
    <3>1. CASE ctl[c].at = "gone"
      BY <3>1 DEF Answer
    <3>2. CASE ctl[c].at # "gone"
      <4>1. Answer(ctl[c], r, p) = <<p>>
        BY <1>5, <3>2, Single DEF Answer
      <4>2. \/ ctl[c].asked = "open" /\ thread[c].at \in {"opening", "opened"}
            \/ ctl[c].asked = "resolve" /\ thread[c].at \in {"resolving", "resolved"}
        BY <1>3, <3>2, TalkOf, SlowWaits
      <4>3. <<p>> \in Progress(ctl[c].asked)
        BY <2>1, <4>2 DEF Progress
      <4> QED  BY <3>2, <4>1, <4>3
    <3> QED  BY <3>1, <3>2
  <2>3. Talk(thread'[c], ctl[c], q, Answer(ctl[c], r, p))
    BY <1>2, <1>3, <2>2, TalkOf, ProgressTalk
  <2> QED  BY <1>1, <1>2, <1>5, <2>1, <2>3, SendInv
<1> QED  BY <1>4, <1>5 DEF Ticker

LEMMA RoundTalks ==
  ASSUME IInv, TalkInv, NEW c \in Conns, LoopHead(c) \/ ReadFails(c) \/ ThreadEnds(c)
  PROVE  TalkInv'
<1> DEFINE q == toServer[c]
           r == toController[c]
<1>1. /\ thread[c] \in State /\ thread \in [Conns -> State]
      /\ UNCHANGED <<ctl, toController>>
  BY TalkOf DEF LoopHead, ReadFails, ThreadEnds
<1>2. CASE LoopHead(c) \/ ReadFails(c)
  <2>1. PICK at \in {"read", "ending"} : thread' = [thread EXCEPT ![c].at = at]
    BY <1>2 DEF LoopHead, ReadFails
  <2>2. /\ \A d \in Conns \ {c} : thread'[d] = thread[d]
        /\ thread'[c].at = at /\ thread'[c].ticker = thread[c].ticker
        /\ thread'[c].captureNum = thread[c].captureNum /\ thread'[c].capture = thread[c].capture
    BY <1>1, <2>1 DEF State
  <2>3. thread[c].at \in {"loop", "read"} /\ UNCHANGED toServer
    BY <1>2 DEF LoopHead, ReadFails
  <2>4. Talk(thread'[c], ctl[c], q, r)
    BY <2>2, <2>3, TalkOf, RestTalk DEF Rest
  <2>5. Talk(thread'[c], ctl[c], toServer'[c], r)
    BY <2>3, <2>4
  <2> QED  BY <1>1, <2>2, <2>3, <2>5, SilentInv
<1>3. CASE thread[c].at = "ending" /\ DeleteFiles(c)
  <2>2. /\ \A d \in Conns \ {c} : thread'[d] = thread[d]
        /\ thread'[c].at = "closing" /\ thread'[c].ticker = thread[c].ticker
        /\ thread'[c].captureNum = thread[c].captureNum
        /\ UNCHANGED toServer
    BY <1>1, <1>3 DEF DeleteFiles, State
  <2>4. Talk(thread'[c], ctl[c], q, r)
    BY <1>3, <2>2, TalkOf, RestTalk DEF Rest
  <2>5. Talk(thread'[c], ctl[c], toServer'[c], r)
    BY <2>2, <2>4
  <2> QED  BY <1>1, <2>2, <2>5, SilentInv
<1>4. CASE thread[c].at = "closing" /\ DeleteSocket(c)
  <2>1. /\ \A d \in Conns \ {c} : thread'[d] = thread[d]
        /\ thread'[c].at = "done" /\ thread'[c].ticker = thread[c].ticker
        /\ thread'[c].captureNum = 0
    BY <1>1, <1>4 DEF DeleteSocket, State
  <2>2. toServer' = [toServer EXCEPT ![c] = <<>>] /\ toServer'[c] = <<>>
    BY <1>4 DEF DeleteSocket, TalkInv
  <2>3. thread'[c].captureNum <= MaxCopies
    BY <2>1, RemoteAssumption
  <2>4. Talk(thread'[c], ctl[c], <<>>, r)
    BY <1>4, <2>1, <2>3, TalkOf, RestTalk DEF Rest
  <2>5. Talk(thread'[c], ctl[c], toServer'[c], r)
    BY <2>2, <2>4
  <2> QED  BY <1>1, <2>1, <2>2, <2>5, SilentInv
<1> QED  BY <1>2, <1>3, <1>4 DEF ThreadEnds

LEMMA CloseTalks ==
  ASSUME IInv, TalkInv, NEW c \in Conns, CloseLog(c) PROVE TalkInv'
<1> DEFINE q == toServer[c]
           r == toController[c]
<1>1. /\ thread[c] \in State /\ thread \in [Conns -> State] /\ UNCHANGED <<ctl, toController>>
      /\ Take(c) /\ Requested(c, "close")
  BY TalkOf DEF CloseLog
<1>2. /\ \A d \in Conns \ {c} : thread'[d] = thread[d]
      /\ thread'[c].at = "loop" /\ thread'[c].ticker = thread[c].ticker
      /\ thread'[c].captureNum = thread[c].captureNum
  BY <1>1 DEF CloseLog, State
<1>3. thread[c].at = "read" /\ q # <<>> /\ Head(q) = "close" /\ toServer'[c] = Tail(q)
  BY <1>1, TakeStep DEF Requested
<1>4. Talk(thread'[c], ctl[c], Tail(q), r)
  BY <1>2, <1>3, TalkOf, CloseTalk
<1>5. Talk(thread'[c], ctl[c], toServer'[c], r)
  BY <1>3, <1>4
<1> QED  BY <1>1, <1>2, <1>5, SilentInv

\* The command for the proxy finds the capture open: the branch in which it does
\* not is never taken.
LEMMA ProxyTalks ==
  ASSUME IInv, TalkInv, NEW c \in Conns, ProxyTick(c) PROVE TalkInv'
<1> DEFINE q == toServer[c]
           r == toController[c]
<1>1. /\ thread[c] \in State /\ thread \in [Conns -> State] /\ UNCHANGED ctl /\ Take(c)
      /\ Requested(c, "proxy")
  BY TalkOf DEF ProxyTick
<1>2. thread[c].at = "read" /\ q # <<>> /\ Head(q) = "proxy" /\ toServer'[c] = Tail(q)
  BY <1>1, TakeStep DEF Requested
<1>3. Tail(q) = <<>> /\ thread[c].capture = "open"
  BY <1>2, TalkOf, ReadHead
<1>4. CASE Reply(c, Packet("proxy")) /\ thread' = [thread EXCEPT ![c].at = "loop"]
  <2>1. Reply(c, [kind |-> "proxy", ok |-> TRUE])
    BY <1>4 DEF Packet
  <2>2. /\ \A d \in Conns \ {c} : thread'[d] = thread[d]
        /\ thread'[c].at = "loop" /\ thread'[c].ticker = thread[c].ticker
        /\ thread'[c].captureNum = thread[c].captureNum /\ thread'[c].capture = thread[c].capture
    BY <1>1, <1>4 DEF State
  <2> QED  BY <1>1, <2>1, <2>2, AnswerInv DEF Kinds
<1>5. CASE ctl[c].at = "gone" /\ thread' = [thread EXCEPT ![c].at = "ending"] /\ UNCHANGED toController
  <2>1. /\ \A d \in Conns \ {c} : thread'[d] = thread[d]
        /\ thread'[c].at = "ending" /\ thread'[c].ticker = thread[c].ticker
        /\ thread'[c].captureNum = thread[c].captureNum
    BY <1>1, <1>5 DEF State
  <2>2. thread'[c].captureNum <= MaxCopies
    BY <2>1, TalkOf
  <2>3. Talk(thread'[c], ctl[c], <<>>, r)
    BY <1>2, <1>5, <2>1, <2>2, TalkOf, RestTalk DEF Rest
  <2>4. Talk(thread'[c], ctl[c], toServer'[c], r)
    BY <1>2, <1>3, <2>3
  <2> QED  BY <1>1, <1>5, <2>1, <2>4, SilentInv
<1> QED  BY <1>3, <1>4, <1>5 DEF ProxyTick

LEMMA HandshakeTalks ==
  ASSUME IInv, TalkInv, NEW c \in Conns, HandleHandshakeClient(c) PROVE TalkInv'
<1> DEFINE q == toServer[c]
           r == toController[c]
<1>1. /\ thread[c] \in State /\ thread \in [Conns -> State] /\ UNCHANGED ctl /\ Take(c)
      /\ thread[c].at = "hello"
  BY TalkOf DEF HandleHandshakeClient
<1>2. PICK at \in {"loop", "done"}, g \in Greetings :
        thread' = [thread EXCEPT ![c].at = at] /\ Reply(c, Packet(g))
  <2>1. PICK busy :
          /\ thread' = [thread EXCEPT ![c].at = IF Head(q) = "active" /\ ~busy THEN "loop" ELSE "done"]
          /\ Reply(c, Packet(IF Head(q) = "mismatch" THEN "mismatch"
                             ELSE IF busy THEN "busy" ELSE "handshake"))
    BY DEF HandleHandshakeClient
  <2>2. PICK at \in {"loop", "done"} :
          at = IF Head(q) = "active" /\ ~busy THEN "loop" ELSE "done"
    OBVIOUS
  <2>3. PICK g \in Greetings :
          g = IF Head(q) = "mismatch" THEN "mismatch" ELSE IF busy THEN "busy" ELSE "handshake"
    BY DEF Greetings
  <2> QED  BY <2>1, <2>2, <2>3
<1>3. /\ \A d \in Conns \ {c} : thread'[d] = thread[d]
      /\ thread'[c].at = at /\ thread'[c].ticker = thread[c].ticker
      /\ thread'[c].captureNum = thread[c].captureNum
  BY <1>1, <1>2 DEF State
<1>4. /\ toServer' = [d \in Conns |-> toServer'[d]] /\ toServer'[c] = Tail(q)
      /\ \A d \in Conns \ {c} : toServer'[d] = toServer[d]
  BY <1>1, TakeStep
<1>5. /\ toController' = [d \in Conns |-> toController'[d]]
      /\ toController'[c] = Answer(ctl[c], r, Packet(g))
      /\ \A d \in Conns \ {c} : toController'[d] = toController[d]
  BY <1>2, ReplyStep
<1>6. Talk(thread'[c], ctl[c], Tail(q), Answer(ctl[c], r, Packet(g)))
  BY <1>1, <1>3, TalkOf, HandshakeTalk
<1>7. Talk(thread'[c], ctl'[c], toServer'[c], toController'[c])
  BY <1>1, <1>4, <1>5, <1>6
<1>8. ctl' \in [Conns -> ControllerState] /\ \A d \in Conns \ {c} : ctl'[d] = ctl[d]
  BY <1>1 DEF TalkInv
<1> QED  BY <1>3, <1>4, <1>5, <1>7, <1>8, TalkStep

\* That a thread is told to stop changes nothing of its dialogue.
LEMMA SameTalk ==
  ASSUME NEW th, NEW state, NEW q, NEW r, Talk(th, state, q, r),
         NEW th2, th2.at = th.at, th2.ticker = th.ticker, th2.capture = th.capture,
         th2.captureNum = th.captureNum
  PROVE  Talk(th2, state, q, r)
<1>1. Unread(th2, state, q)
  BY DEF Talk, Unread
<1>2. Waiting(th, state, q, r) => Waiting(th2, state, q, r)
  <2> SUFFICES ASSUME Waiting(th, state, q, r) PROVE Waiting(th2, state, q, r)
    OBVIOUS
  <2>1. CASE /\ q = <<>> /\ th.at \in Rest
             /\ \E s \in Progress(state.asked), ok \in BOOLEAN :
                  /\ r = Append(s, [kind |-> state.asked, ok |-> ok])
                  /\ state.asked = "open" /\ ok /\ th.at \in {"loop", "read"} => th.capture = "open"
    BY <2>1 DEF Waiting
  <2> QED  BY <2>1 DEF Waiting
<1>3. Dialogue(th2, state, q, r)
  BY <1>2 DEF Talk, Dialogue
<1> QED  BY <1>1, <1>3 DEF Talk

\* The accept loop: a connection that gets a thread, or a thread told to stop.
LEMMA LoopTalks ==
  ASSUME IInv, TalkInv, ServerLoop \/ KillReplay \/ AcceptFails PROVE TalkInv'
<1>1. UNCHANGED <<ctl, toServer, toController>>
  BY DEF ServerLoop, AcceptClient, ReapAndSpawn, KillActive, JoinClients, KillReplay, AcceptFails
<1>2. ASSUME NEW c \in Conns PROVE Talk(thread'[c], ctl[c], toServer[c], toController[c])
  <2>1. Talk(thread[c], ctl[c], toServer[c], toController[c]) /\ thread[c] \in State
    BY TalkOf
  <2>2. CASE thread'[c] = thread[c]
    BY <2>1, <2>2
  <2>3. CASE thread'[c] = [thread[c] EXCEPT !.killThread = TRUE]
    <3>1. /\ thread'[c].at = thread[c].at /\ thread'[c].ticker = thread[c].ticker
          /\ thread'[c].capture = thread[c].capture /\ thread'[c].captureNum = thread[c].captureNum
      BY <2>1, <2>3 DEF State
    <3> QED  BY <2>1, <3>1, SameTalk
  <2>4. CASE hand = c /\ \E at \in {"hello", "done"} : thread'[c] = [thread[c] EXCEPT !.at = at]
    <3>1. /\ thread'[c].at \in {"hello", "done"} /\ thread'[c].ticker = thread[c].ticker
          /\ thread'[c].captureNum = thread[c].captureNum
      BY <2>1, <2>4 DEF State
    <3>2. thread[c].at = "none" /\ ctl[c].at # "none"
      <4>1. hand = c /\ hand # 0 /\ BacklogInv
        BY <2>4, ConnsNumbers DEF IInv
      <4> QED  BY <4>1 DEF BacklogInv
    <3> QED  BY <3>1, <3>2, TalkOf, SpawnTalk
  <2>5. \/ UNCHANGED thread
        \/ active \in Conns /\ thread' = [thread EXCEPT ![active].killThread = TRUE]
        \/ /\ hand \in Conns
           /\ \E at \in {"hello", "done"} : thread' = [thread EXCEPT ![hand].at = at]
    <3>1. (active # 0 => active \in Conns) /\ (hand # 0 => hand \in Conns)
      BY RemoteAssumption DEF IInv, LoopShape, Conns
    <3>2. CASE ReapAndSpawn
      <4>1. \/ UNCHANGED thread
            \/ hand # 0 /\ thread' = [thread EXCEPT ![hand].at = "hello"]
            \/ hand # 0 /\ thread' = [thread EXCEPT ![hand].at = "done"]
        BY <3>2 DEF ReapAndSpawn
      <4> QED  BY <3>1, <4>1
    <3>3. CASE KillActive
      BY <3>1, <3>3 DEF KillActive
    <3> QED  BY <3>2, <3>3 DEF ServerLoop, AcceptClient, JoinClients, KillReplay, AcceptFails
  <2>6. thread \in [Conns -> State]
    BY TalkOf
  <2> QED  BY <2>2, <2>3, <2>4, <2>5, <2>6
<1> QED  BY <1>1, <1>2 DEF TalkInv

LEMMA ConnectTalks ==
  ASSUME IInv, TalkInv, NEW c \in Conns, CreateRemoteServerConnection(c) PROVE TalkInv'
<1>1. PICK wants \in Handshakes :
        /\ toServer' = [toServer EXCEPT ![c] = <<wants>>]
        /\ ctl' = [ctl EXCEPT ![c].at = "greeting", ![c].asked = wants]
  BY DEF CreateRemoteServerConnection
<1>2. ctl[c].at = "none" /\ UNCHANGED <<thread, toController>>
  BY DEF CreateRemoteServerConnection
<1>3. /\ ctl' \in [Conns -> ControllerState] /\ \A d \in Conns \ {c} : ctl'[d] = ctl[d]
      /\ ctl'[c].at = "greeting" /\ ctl'[c].asked = wants /\ ctl'[c].has = ctl[c].has
  BY <1>1 DEF TalkInv, ControllerState
<1>4. /\ toServer' = [d \in Conns |-> toServer'[d]] /\ toServer'[c] = <<wants>>
      /\ \A d \in Conns \ {c} : toServer'[d] = toServer[d]
  BY <1>1 DEF TalkInv
<1>5. /\ toController' = [d \in Conns |-> toController'[d]]
      /\ \A d \in Conns : toController'[d] = toController[d] /\ thread'[d] = thread[d]
  BY <1>2 DEF TalkInv
<1>6. Talk(thread[c], ctl'[c], <<wants>>, toController[c])
  BY <1>2, <1>3, TalkOf, ConnectTalk
<1>7. Talk(thread'[c], ctl'[c], toServer'[c], toController'[c])
  BY <1>4, <1>5, <1>6
<1> QED  BY <1>3, <1>4, <1>5, <1>7, TalkStep

LEMMA AskTalks ==
  ASSUME IInv, TalkInv, NEW c \in Conns, Ask(c) PROVE TalkInv'
<1> DEFINE q == toServer[c]
           r == toController[c]
<1>1. ctl[c].at = "idle" /\ UNCHANGED <<thread, toController>>
  BY DEF Ask
<1>2. PICK k \in Kinds :
        /\ toServer' = [toServer EXCEPT ![c] = Append(@, k)]
        /\ \/ k \in Answered(c) /\ ctl' = [ctl EXCEPT ![c].at = "waiting", ![c].asked = k]
           \/ k = "close" /\ ctl[c].has /\ ctl' = [ctl EXCEPT ![c].has = FALSE]
  <2>1. CASE \E kind \in Answered(c) \cap Requests[c] :
               /\ toServer' = [toServer EXCEPT ![c] = Append(@, kind)]
               /\ ctl' = [ctl EXCEPT ![c].at = "waiting", ![c].asked = kind]
    <3>1. Answered(c) \subseteq Kinds
      BY DEF Answered, Kinds
    <3> QED  BY <2>1, <3>1
  <2>2. CASE \E kind \in Unanswered(c) \cap Requests[c] :
               /\ toServer' = [toServer EXCEPT ![c] = Append(@, kind)]
               /\ ctl' = [ctl EXCEPT ![c].has = FALSE]
    <3>1. \A kind \in Unanswered(c) : kind = "close" /\ ctl[c].has /\ kind \in Kinds
      BY DEF Unanswered, Kinds
    <3> QED  BY <2>2, <3>1
  <2> QED  BY <2>1, <2>2 DEF Ask
<1>3. /\ toServer' = [d \in Conns |-> toServer'[d]] /\ toServer'[c] = Append(q, k)
      /\ \A d \in Conns \ {c} : toServer'[d] = toServer[d]
  BY <1>2 DEF TalkInv
<1>4. /\ toController' = [d \in Conns |-> toController'[d]]
      /\ \A d \in Conns : toController'[d] = toController[d] /\ thread'[d] = thread[d]
  BY <1>1 DEF TalkInv
<1>5. CASE k \in Answered(c) /\ ctl' = [ctl EXCEPT ![c].at = "waiting", ![c].asked = k]
  <2>1. /\ ctl' \in [Conns -> ControllerState] /\ \A d \in Conns \ {c} : ctl'[d] = ctl[d]
        /\ ctl'[c].at = "waiting" /\ ctl'[c].asked = k /\ ctl'[c].has = ctl[c].has
    BY <1>5 DEF TalkInv, ControllerState
  <2>2. /\ k # "close" /\ (k = "proxy" => ctl[c].has) /\ (k = "open" => ~ctl[c].has)
        /\ k = "copy" => thread[c].captureNum < MaxCopies
    BY <1>5 DEF Answered
  <2>3. Talk(thread[c], ctl'[c], Append(q, k), r)
    BY <1>1, <2>1, <2>2, TalkOf, AskTalk
  <2>4. Talk(thread'[c], ctl'[c], toServer'[c], toController'[c])
    BY <1>3, <1>4, <2>3
  <2> QED  BY <1>3, <1>4, <2>1, <2>4, TalkStep
<1>6. CASE k = "close" /\ ctl[c].has /\ ctl' = [ctl EXCEPT ![c].has = FALSE]
  <2>1. /\ ctl' \in [Conns -> ControllerState] /\ \A d \in Conns \ {c} : ctl'[d] = ctl[d]
        /\ ctl'[c].at = "idle" /\ ctl'[c].has = FALSE
    BY <1>1, <1>6 DEF TalkInv, ControllerState
  <2>2. Talk(thread[c], ctl'[c], Append(q, "close"), r)
    BY <1>1, <1>6, <2>1, TalkOf, AskCloseTalk
  <2>3. Talk(thread'[c], ctl'[c], toServer'[c], toController'[c])
    BY <1>3, <1>4, <1>6, <2>2
  <2> QED  BY <1>3, <1>4, <2>1, <2>3, TalkStep
<1> QED  BY <1>2, <1>5, <1>6

\* A step of the controller in which it reads a packet or goes away.
LEMMA HearInv ==
  ASSUME IInv, TalkInv, NEW c \in Conns, UNCHANGED <<thread, toServer>>,
         NEW state \in ControllerState, ctl' = [ctl EXCEPT ![c] = state],
         NEW r, toController' = [toController EXCEPT ![c] = r],
         Talk(thread[c], state, toServer[c], r)
  PROVE  TalkInv'
<1>1. /\ ctl' \in [Conns -> ControllerState] /\ \A d \in Conns \ {c} : ctl'[d] = ctl[d]
      /\ ctl'[c] = state
  BY DEF TalkInv
<1>2. /\ toController' = [d \in Conns |-> toController'[d]] /\ toController'[c] = r
      /\ \A d \in Conns \ {c} : toController'[d] = toController[d]
  BY DEF TalkInv
<1>3. /\ toServer' = [d \in Conns |-> toServer'[d]]
      /\ \A d \in Conns : toServer'[d] = toServer[d] /\ thread'[d] = thread[d]
  BY DEF TalkInv
<1>4. Talk(thread'[c], ctl'[c], toServer'[c], toController'[c])
  BY <1>1, <1>2, <1>3
<1> QED  BY <1>1, <1>2, <1>3, <1>4, TalkStep

LEMMA HearTalks ==
  ASSUME IInv, TalkInv, NEW c \in Conns, Receive(c) \/ Disconnect(c) PROVE TalkInv'
<1> DEFINE q == toServer[c]
           r == toController[c]
<1>1. ctl[c] \in ControllerState /\ UNCHANGED <<thread, toServer>>
  BY TalkOf DEF Receive, Disconnect
<1>2. CASE Disconnect(c)
  <2>1. /\ ctl' = [ctl EXCEPT ![c] = Gone(c)] /\ toController' = [toController EXCEPT ![c] = <<>>]
        /\ ctl[c].at # "none"
    BY <1>2 DEF Disconnect
  <2>2. Gone(c) \in ControllerState /\ Gone(c).at = "gone" /\ Gone(c).has = FALSE
    BY <1>1 DEF Gone, ControllerState
  <2>3. Talk(thread[c], Gone(c), q, <<>>)
    BY <2>1, <2>2, TalkOf, GoneTalk
  <2> QED  BY <1>1, <2>1, <2>2, <2>3, HearInv
<1>3. CASE Receive(c)
  <2> DEFINE p == Head(r)
  <2>1. PICK state \in Understand(c, p) :
          /\ ctl' = [ctl EXCEPT ![c] = state]
          /\ toController' = [toController EXCEPT ![c] = IF state.at = "gone" THEN <<>> ELSE Tail(@)]
    BY <1>3 DEF Receive
  <2>2. r # <<>>
    BY <1>3 DEF Receive
  <2>3. \/ /\ p.kind = "handshake" /\ ctl[c].asked = "active"
           /\ state = [ctl[c] EXCEPT !.at = "idle", !.asked = "none"]
        \/ p.kind \in {"handshake", "busy", "mismatch", "shutdown"} /\ state = Gone(c)
        \/ p.kind \in {"open_progress", "resolve_progress"} /\ state = ctl[c]
        \/ /\ p.kind = "open"
           /\ \E has \in {FALSE, p.ok} :
                state = [ctl[c] EXCEPT !.at = "idle", !.asked = "none", !.has = has]
        \/ /\ p.kind \notin {"handshake", "busy", "mismatch", "shutdown", "open_progress",
                             "resolve_progress", "open"}
           /\ state = [ctl[c] EXCEPT !.at = "idle", !.asked = "none"]
    BY Understood
  <2>4. p.ok \in BOOLEAN
    BY <1>1, <2>2, TalkOf, PacketOk
  <2>5. state \in ControllerState
    <3>1. /\ [ctl[c] EXCEPT !.at = "idle", !.asked = "none"] \in ControllerState
          /\ Gone(c) \in ControllerState
          /\ \A has \in BOOLEAN : [ctl[c] EXCEPT !.at = "idle", !.asked = "none", !.has = has] \in ControllerState
      BY <1>1 DEF ControllerState, Gone
    <3>2. ASSUME NEW has \in {FALSE, p.ok},
                 state = [ctl[c] EXCEPT !.at = "idle", !.asked = "none", !.has = has]
          PROVE  state \in ControllerState
      <4>1. has \in BOOLEAN
        BY <2>4
      <4> QED  BY <3>1, <3>2, <4>1
    <3>3. CASE state = [ctl[c] EXCEPT !.at = "idle", !.asked = "none"]
      BY <3>1, <3>3
    <3>4. CASE state \in {Gone(c), ctl[c]}
      BY <1>1, <3>1, <3>4
    <3> QED  BY <2>3, <3>2, <3>3, <3>4
  <2>6. PICK kind : kind = p.kind
    OBVIOUS
  <2>7. \/ kind = "handshake" /\ ctl[c].asked = "active" /\ state.at = "idle" /\ state.has = ctl[c].has
        \/ kind \in {"handshake", "busy", "mismatch", "shutdown"} /\ state.at = "gone" /\ state.has = FALSE
        \/ kind \in {"open_progress", "resolve_progress"} /\ state = ctl[c]
        \/ kind = "open" /\ state.at = "idle" /\ state.has \in {FALSE, p.ok}
        \/ /\ kind \notin {"handshake", "busy", "mismatch", "shutdown", "open_progress",
                           "resolve_progress", "open"}
           /\ state.at = "idle" /\ state.has = ctl[c].has
    BY <1>1, <2>3, <2>6 DEF ControllerState, Gone
  <2>8. Talk(thread[c], state, q, IF state.at = "gone" THEN <<>> ELSE Tail(r))
    BY <2>2, <2>6, <2>7, TalkOf, ReceiveTalk
  <2> QED  BY <1>1, <2>1, <2>5, <2>8, HearInv
<1> QED  BY <1>2, <1>3

\* What the reaping leaves are clients, each still once.
LEMMA LeftOnce ==
  ASSUME LoopShape, ClientsInv, NEW left, NEW slot, Reaped(left, slot)
  PROVE  /\ left \in Seq(Conns)
         /\ \A k \in 1..Len(left) : \E j \in 1..Len(clients) : left[k] = clients[j]
         /\ \A k, m \in 1..Len(left) : left[k] = left[m] => k = m
<1>1. CASE left = clients
  BY <1>1 DEF LoopShape, ClientsInv
<1>2. ASSUME NEW i \in 1..Len(clients), left = Others(i)
      PROVE  /\ left \in Seq(Conns)
             /\ \A k \in 1..Len(left) : \E j \in 1..Len(clients) : left[k] = clients[j]
             /\ \A k, m \in 1..Len(left) : left[k] = left[m] => k = m
  <2> DEFINE at(k) == IF k < i THEN k ELSE k + 1
  <2>1. Len(clients) \in Nat /\ i \in Nat /\ clients \in Seq(Conns)
    BY LenProperties DEF LoopShape
  <2>2. /\ left \in Seq(Conns) /\ Len(left) = Len(clients) - 1
        /\ \A k \in 1..Len(left) : IF k < i THEN left[k] = clients[k] ELSE left[k] = clients[k + 1]
    BY <1>2, <2>1, OthersProperties
  <2>3. \A k \in 1..Len(left) : at(k) \in 1..Len(clients) /\ left[k] = clients[at(k)] /\ k \in Nat
    BY <2>1, <2>2
  <2>4. ASSUME NEW k \in 1..Len(left), NEW m \in 1..Len(left), left[k] = left[m]
        PROVE  k = m
    <3>1. clients[at(k)] = clients[at(m)] /\ at(k) \in 1..Len(clients) /\ at(m) \in 1..Len(clients)
      BY <2>3, <2>4
    <3> HIDE DEF at
    <3>2. at(k) = at(m)
      BY <3>1 DEF ClientsInv
    <3>3. k \in Nat /\ m \in Nat
      BY <2>3
    <3> QED  BY <2>1, <3>2, <3>3 DEF at
  <2> HIDE DEF at
  <2> QED  BY <2>2, <2>3, <2>4
<1> QED  BY <1>1, <1>2 DEF Reaped

LEMMA NeverNone ==
  ASSUME IInv, NEW c \in Conns, ClientThread(c) \/ Ticker(c) \/ Controller(c)
  PROVE  \A d \in Conns : thread[d].at # "none" => thread'[d].at # "none"
<1>1. thread \in [Conns -> State] /\ thread[c] \in State
  BY DEF IInv, Shapes
<1>2. CASE Controller(c)
  BY <1>2 DEF Controller, CreateRemoteServerConnection, Ask, Receive, Disconnect
<1>3. CASE Ticker(c)
  <2>1. \/ thread' = [thread EXCEPT ![c].ticker = IF @ = "killed" THEN "none" ELSE @]
        \/ thread' = [thread EXCEPT ![c].ticker = "none"]
    BY <1>3 DEF Ticker
  <2> QED  BY <1>1, <2>1 DEF State
<1>4. CASE HandleHandshakeClient(c)
  <2>1. \E at \in {"loop", "done"} : thread' = [thread EXCEPT ![c].at = at]
    <3>1. PICK busy : thread' = [thread EXCEPT ![c].at =
            IF Head(toServer[c]) = "active" /\ ~busy THEN "loop" ELSE "done"]
      BY <1>4 DEF HandleHandshakeClient
    <3> QED  BY <3>1
  <2> QED  BY <1>1, <2>1 DEF State
<1>5. CASE LoopHead(c) \/ ReadFails(c) \/ Query(c) \/ LogOpened(c) \/ Resolved(c) \/ ProxyTick(c)
  <2>1. \E at \in {"loop", "read", "ending"} : thread' = [thread EXCEPT ![c].at = at]
    BY <1>5 DEF LoopHead, ReadFails, Query, LogOpened, Resolved, ProxyTick
  <2> QED  BY <1>1, <2>1 DEF State
<1>6. CASE CopyCaptureToRemote(c)
  BY <1>1, <1>6 DEF CopyCaptureToRemote, State
<1>7. CASE ShutdownServer(c) \/ CloseLog(c)
  BY <1>1, <1>7 DEF ShutdownServer, CloseLog, State
<1>8. CASE OpenLog(c)
  BY <1>1, <1>8 DEF OpenLog, State
<1>9. CASE OpenEnds(c)
  BY <1>1, <1>9 DEF OpenEnds, State
<1>10. CASE InitResolver(c) \/ MakeResolver(c)
  BY <1>1, <1>10 DEF InitResolver, MakeResolver, State
<1>11. CASE ThreadEnds(c)
  BY <1>1, <1>11 DEF ThreadEnds, DeleteFiles, DeleteSocket, State
<1> QED  BY <1>2, <1>3, <1>4, <1>5, <1>6, <1>7, <1>8, <1>9, <1>10, <1>11 DEF ClientThread

LEMMA ClientsKept ==
  ASSUME IInv, ClientsInv, [Next]_vars PROVE ClientsInv'
<1>1. \A i \in 1..Len(clients) : clients[i] \in Conns
  BY ElementOfSeq DEF IInv, LoopShape
<1>2. ASSUME UNCHANGED clients, \A c \in Conns : thread[c].at # "none" => thread'[c].at # "none"
      PROVE  ClientsInv'
  BY <1>1, <1>2 DEF ClientsInv
<1>3. CASE ReapAndSpawn
  <2>1. PICK left, slot :
          /\ Reaped(left, slot)
          /\ \/ hand = 0 /\ clients' = left /\ UNCHANGED thread
             \/ hand # 0 /\ clients' = Append(left, hand) /\ thread' = [thread EXCEPT ![hand].at = "hello"]
             \/ hand # 0 /\ clients' = left /\ thread' = [thread EXCEPT ![hand].at = "done"]
    BY <1>3 DEF ReapAndSpawn
  <2>2. /\ left \in Seq(Conns)
        /\ \A k \in 1..Len(left) : \E j \in 1..Len(clients) : left[k] = clients[j]
        /\ \A k, m \in 1..Len(left) : left[k] = left[m] => k = m
    BY <2>1, LeftOnce DEF IInv
  <2>3. thread \in [Conns -> State] /\ (hand # 0 => hand \in Conns /\ thread[hand].at = "none")
    BY RemoteAssumption DEF IInv, Shapes, LoopShape, BacklogInv, Conns
  <2>4. \A k \in 1..Len(left) : left[k] \in Conns /\ left[k] # hand /\ thread'[left[k]].at # "none"
    <3>1. \A c \in Conns : thread[c].at # "none" => c # hand /\ thread'[c].at # "none"
      <4>1. ASSUME NEW c \in Conns, thread[c].at # "none" PROVE c # hand
        BY <2>3, <4>1, ConnsNumbers
      <4>2. \A c \in Conns : c # hand => thread'[c] = thread[c]
        BY <2>1, <2>3
      <4> QED  BY <4>1, <4>2
    <3> TAKE k \in 1..Len(left)
    <3>2. PICK j \in 1..Len(clients) : left[k] = clients[j]
      BY <2>2
    <3>3. clients[j] \in Conns /\ thread[clients[j]].at # "none"
      BY <1>1 DEF ClientsInv
    <3> QED  BY <3>1, <3>2, <3>3
  <2>5. CASE clients' = left
    BY <2>2, <2>4, <2>5 DEF ClientsInv
  <2>6. CASE hand # 0 /\ clients' = Append(left, hand) /\ thread' = [thread EXCEPT ![hand].at = "hello"]
    <3>1. /\ Len(clients') = Len(left) + 1 /\ Len(left) \in Nat
          /\ \A k \in 1..Len(left) : clients'[k] = left[k]
          /\ clients'[Len(left) + 1] = hand
      BY <2>2, <2>3, <2>6, AppendProperties, LenProperties
    <3>2. \A k \in 1..Len(clients') : k \in 1..Len(left) \/ k = Len(left) + 1
      BY <3>1
    <3>3. thread'[hand].at = "hello"
      <4>1. thread[hand] \in State
        BY <2>3, <2>6
      <4> QED  BY <2>3, <2>6, <4>1 DEF State
    <3>4. ASSUME NEW k \in 1..Len(clients'), NEW m \in 1..Len(clients'), clients'[k] = clients'[m]
          PROVE  k = m
      BY <2>2, <2>4, <3>1, <3>2, <3>4
    <3>5. ASSUME NEW k \in 1..Len(clients') PROVE thread'[clients'[k]].at # "none"
      BY <2>4, <3>1, <3>2, <3>3
    <3> QED  BY <3>4, <3>5 DEF ClientsInv
  <2> QED  BY <2>1, <2>5, <2>6
<1>4. CASE JoinClients \/ AcceptFails
  BY <1>4 DEF JoinClients, AcceptFails, ClientsInv
<1>5. CASE AcceptClient \/ KillActive \/ KillReplay \/ UNCHANGED vars
  <2>1. UNCHANGED clients
    BY <1>5 DEF AcceptClient, KillActive, KillReplay, vars
  <2>2. UNCHANGED thread \/ (active \in Conns /\ thread' = [thread EXCEPT ![active].killThread = TRUE])
    BY <1>5, RemoteAssumption DEF AcceptClient, KillActive, KillReplay, vars, IInv, LoopShape, Conns
  <2>3. thread \in [Conns -> State]
    BY DEF IInv, Shapes
  <2>4. \A c \in Conns : thread'[c].at = thread[c].at
    BY <2>2, <2>3 DEF State
  <2> QED  BY <1>2, <2>1, <2>4
<1>6. ASSUME NEW c \in Conns, ClientThread(c) \/ Ticker(c) \/ Controller(c) PROVE ClientsInv'
  <2>1. UNCHANGED clients
    BY <1>6 DEF ClientThread, Ticker, Controller, HandleHandshakeClient, LoopHead, ReadFails, Query,
         CopyCaptureToRemote, ShutdownServer, OpenLog, OpenEnds, LogOpened, InitResolver, MakeResolver,
         Resolved, CloseLog, ProxyTick, ThreadEnds, CreateRemoteServerConnection, Ask, Receive,
         Disconnect, loopVars
  <2>2. \A d \in Conns : thread[d].at # "none" => thread'[d].at # "none"
    BY <1>6, NeverNone
  <2> QED  BY <1>2, <2>1, <2>2
<1> QED  BY <1>3, <1>4, <1>5, <1>6 DEF Next, ServerLoop

LEMMA TalkKept == IInv /\ TalkInv /\ [Next]_vars => TalkInv'
<1> SUFFICES ASSUME IInv, TalkInv, [Next]_vars PROVE TalkInv'
  OBVIOUS
<1>1. CASE ServerLoop \/ KillReplay \/ AcceptFails
  BY <1>1, LoopTalks
<1>2. ASSUME NEW c \in Conns, ClientThread(c) PROVE TalkInv'
  BY <1>2, HandshakeTalks, RoundTalks, AtOnceTalks, CopyTalks, OpenTalks, ReturnTalks, LateAnswerTalks,
     ResolveTalks, CloseTalks, ProxyTalks DEF ClientThread
<1>3. ASSUME NEW c \in Conns, Ticker(c) PROVE TalkInv'
  BY <1>3, TickerTalks
<1>4. ASSUME NEW c \in Conns, Controller(c) PROVE TalkInv'
  BY <1>4, ConnectTalks, AskTalks, HearTalks DEF Controller
<1>5. CASE UNCHANGED vars
  BY <1>5 DEF vars, TalkInv
<1> QED  BY <1>1, <1>2, <1>3, <1>4, <1>5 DEF Next

LEMMA TalkInit == Init => TalkInv /\ ClientsInv
<1> SUFFICES ASSUME Init PROVE TalkInv /\ ClientsInv
  OBVIOUS
<1>1. ctl \in [Conns -> ControllerState]
  BY DEF Init, ControllerState
<1>2. ASSUME NEW c \in Conns PROVE Talk(thread[c], ctl[c], toServer[c], toController[c])
  <2>1. /\ thread[c].at = "none" /\ thread[c].ticker = "none" /\ thread[c].captureNum = 0
        /\ ctl[c].at = "none" /\ ctl[c].has = FALSE /\ toServer[c] = <<>> /\ toController[c] = <<>>
    BY DEF Init
  <2>2. Unread(thread[c], ctl[c], <<>>)
    BY <2>1, Single, Pair DEF Unread
  <2>3. Dialogue(thread[c], ctl[c], <<>>, <<>>)
    BY <2>1 DEF Dialogue
  <2>4. thread[c].captureNum <= MaxCopies
    BY <2>1, RemoteAssumption
  <2> QED  BY <2>1, <2>2, <2>3, <2>4 DEF Talk, Slow
<1>3. ClientsInv
  BY DEF Init, ClientsInv
<1> QED  BY <1>1, <1>2, <1>3 DEF TalkInv, Init

DialogueInv == IInv /\ FilesHeld /\ TalkInv /\ ClientsInv

LEMMA DialogueAlways == Spec => []DialogueInv
<1>1. Init => DialogueInv
  BY InitInv, TalkInit DEF DialogueInv
<1>2. DialogueInv /\ [Next]_vars => DialogueInv'
  BY NextInv, TalkKept, ClientsKept DEF DialogueInv
<1> QED  BY <1>1, <1>2, PTL DEF Spec

\* Both ends of a connection stay in step: what a controller reads next is the
\* answer to its handshake or to its last request, or a report of the progress
\* it waits for, though two threads of the server write to the socket; and a
\* command for the proxy finds the capture open (remote_server.cpp:577, 1043,
\* 1802).
THEOREM InStepAlways == Spec => []InStep
<1>1. DialogueInv => InStep
  <2> SUFFICES ASSUME DialogueInv, NEW c \in Conns
               PROVE  /\ toController[c] # <<>> =>
                           LET kind == Head(toController[c]).kind IN
                           \/ ctl[c].at = "greeting" /\ kind \in {"handshake", "busy", "mismatch"}
                           \/ ctl[c].at = "waiting" /\ kind = ctl[c].asked
                           \/ ctl[c].at = "waiting" /\ kind = "open_progress" /\ ctl[c].asked = "open"
                           \/ ctl[c].at = "waiting" /\ kind = "resolve_progress" /\ ctl[c].asked = "resolve"
                      /\ Requested(c, "proxy") => thread[c].capture = "open"
    BY DEF InStep
  <2> DEFINE q == toServer[c]
             r == toController[c]
  <2>1. Talk(thread[c], ctl[c], q, r) /\ ctl[c] \in ControllerState
    BY TalkOf DEF DialogueInv
  <2>3. ASSUME r # <<>>
        PROVE  \/ ctl[c].at = "greeting" /\ Head(r).kind \in {"handshake", "busy", "mismatch"}
               \/ ctl[c].at = "waiting" /\ Head(r).kind = ctl[c].asked
               \/ ctl[c].at = "waiting" /\ Head(r).kind = "open_progress" /\ ctl[c].asked = "open"
               \/ ctl[c].at = "waiting" /\ Head(r).kind = "resolve_progress" /\ ctl[c].asked = "resolve"
    BY <2>1, <2>3, NextKind
  <2>4. ASSUME Requested(c, "proxy") PROVE thread[c].capture = "open"
    <3>1. thread[c].at = "read" /\ q # <<>> /\ Head(q) = "proxy"
      BY <2>4 DEF Requested
    <3> QED  BY <2>1, <3>1, ReadHead
  <2> QED  BY <2>3, <2>4
<1> QED  BY <1>1, DialogueAlways, PTL

\* A list without repetitions has as many elements as entries.
LEMMA OnceCount ==
  ASSUME NEW s \in Seq(Conns), \A i, j \in 1..Len(s) : s[i] = s[j] => i = j
  PROVE  Len(s) = Cardinality(Elems(s))
<1> DEFINE f == [i \in 1..Len(s) |-> s[i]]
<1>1. Len(s) \in Nat
  BY LenProperties
<1>2. f \in Bijection(1..Len(s), Elems(s))
  BY DEF Bijection, Injection, Surjection, IsInjective, Elems
<1>3. ExistsBijection(1..Len(s), Elems(s))
  BY <1>2 DEF ExistsBijection
<1> QED  BY <1>1, <1>3, FS_CountingElements

\* What may be under way, either way.
LEMMA TypeOfTalk ==
  ASSUME NEW th, NEW state \in ControllerState, NEW q, NEW r, Talk(th, state, q, r)
  PROVE  q \in Seq(Handshakes \cup Kinds) /\ r \in Seq([kind : Replies, ok : BOOLEAN])
<1>1. \A a, b : a \in Handshakes \cup Kinds /\ b \in Handshakes \cup Kinds =>
        <<a>> \in Seq(Handshakes \cup Kinds) /\ <<a, b>> \in Seq(Handshakes \cup Kinds)
  OBVIOUS
<1>2. "close" \in Kinds /\ <<>> \in Seq(Handshakes \cup Kinds)
  BY DEF Kinds
<1>3. q \in Seq(Handshakes \cup Kinds)
  BY <1>1, <1>2 DEF Talk, Unread
<1> DEFINE P == [kind : Replies, ok : BOOLEAN]
<1>4. \A p \in P : <<p>> \in Seq(P)
  OBVIOUS
<1>5. <<>> \in Seq(P)
  OBVIOUS
<1>6. \A k : k \in Replies => Packet(k) \in P
  BY DEF Packet
<1>7. \A k, ok : k \in Kinds \ {"close"} /\ ok \in BOOLEAN => [kind |-> k, ok |-> ok] \in P
  BY DEF Kinds, Replies
<1>8. Greetings \subseteq Replies /\ "open_progress" \in Replies /\ "resolve_progress" \in Replies
  BY DEF Greetings, Replies
<1> HIDE DEF P
<1>9. \A k : \A s \in Progress(k) : s \in Seq(P)
  <2>1. \A k : \A s \in Progress(k) :
          s = <<>> \/ s = <<Packet("open_progress")>> \/ s = <<Packet("resolve_progress")>>
    BY DEF Progress
  <2> QED  BY <1>4, <1>5, <1>6, <1>8, <2>1
<1>10. r \in Seq(P)
  <2>1. CASE r = <<>>
    BY <1>5, <2>1
  <2>2. CASE state.at = "greeting" /\ r # <<>>
    <3>1. \E g \in Greetings : r = <<Packet(g)>>
      BY <2>2 DEF Talk, Dialogue
    <3>2. PICK g \in Greetings : r = <<Packet(g)>>
      BY <3>1
    <3> QED  BY <1>4, <1>6, <1>8, <3>2
  <2>3. CASE state.at = "waiting" /\ r # <<>>
    <3>1. Waiting(th, state, q, r) /\ state.asked \in Kinds \ {"close"}
      BY <2>3 DEF Talk, Dialogue
    <3>2. CASE r \in Progress(state.asked)
      BY <1>9, <3>2
    <3>3. CASE \E s \in Progress(state.asked), ok \in BOOLEAN : r = Append(s, [kind |-> state.asked, ok |-> ok])
      <4>1. PICK s \in Progress(state.asked), ok \in BOOLEAN : r = Append(s, [kind |-> state.asked, ok |-> ok])
        BY <3>3
      <4> QED  BY <1>7, <1>9, <3>1, <4>1, AppendProperties
    <3> QED  BY <2>3, <3>1, <3>2, <3>3 DEF Waiting
  <2> QED  BY <2>1, <2>2, <2>3 DEF Talk, Dialogue, ControllerState
<1> QED  BY <1>3, <1>10 DEF P

\* A connection is in one place on its way to a thread, and the accept loop
\* knows every thread that runs, each once, until an accept fails: it joins them all
\* before the slot for the active one goes out of scope.
THEOREM TypeOKAlways == Spec => []TypeOK
<1>1. DialogueInv => TypeOK
  <2> SUFFICES ASSUME DialogueInv PROVE TypeOK
    OBVIOUS
  <2> USE DEF DialogueInv, IInv
  <2>1. hand # 0 => thread[hand].at = "none" /\ hand \notin Elems(backlog)
    BY DEF BacklogInv, Elems
  <2>2. Len(backlog) = Cardinality(Elems(backlog))
    BY OnceCount DEF BacklogInv, LoopShape
  <2>3. Len(clients) = Cardinality(Elems(clients))
    BY OnceCount DEF ClientsInv, LoopShape
  <2>4. \A c \in Conns :
          serve # "failed" /\ thread[c].at \notin {"none", "done"} => c \in Elems(clients)
    BY DEF Shapes, State, Points, KnownInv, Elems
  <2>5. \A c \in Conns : thread[c].tempFiles \subseteq Files
    <3> SUFFICES ASSUME NEW c \in Conns, NEW f \in thread[c].tempFiles PROVE f \in Files
      OBVIOUS
    <3>1. f \in Nat /\ f < thread[c].captureNum /\ thread[c].captureNum \in Nat
      BY DEF Shapes, State, TempInv
    <3>2. thread[c].captureNum <= MaxCopies
      BY TalkOf
    <3> QED  BY <3>1, <3>2, RemoteAssumption DEF Files
  <2>6. thread \in [Conns -> ThreadState]
    <3> SUFFICES ASSUME NEW c \in Conns PROVE thread[c] \in ThreadState
      BY DEF Shapes
    <3>1. thread[c] \in State /\ thread[c].captureNum \in Nat /\ thread[c].captureNum <= MaxCopies
      BY TalkOf
    <3>2. thread[c].captureNum \in 0..MaxCopies
      BY <3>1, RemoteAssumption
    <3> QED  BY <2>5, <3>1, <3>2 DEF State, ThreadState, Points, Holding
  <2>7. disk \subseteq Files
    BY <2>5 DEF FilesHeld
  <2>8. \A c \in Conns :
          /\ toServer[c] \in Seq(Handshakes \cup Kinds)
          /\ toController[c] \in Seq([kind : Replies, ok : BOOLEAN])
    BY TalkOf, TypeOfTalk
  <2> QED  BY <2>1, <2>2, <2>3, <2>4, <2>6, <2>7, <2>8 DEF TypeOK, LoopShape, TalkInv
<1> QED  BY <1>1, DialogueAlways, PTL

=============================================================================
