--------------------------- MODULE TargetControl ---------------------------
(***************************************************************************)
(* Target control, renderdoc/core/target_control.cpp: the thread in the    *)
(* captured program that accepts controllers (qrenderdoc, the command      *)
(* line), the thread that serves the one controller allowed at a time, and *)
(* the controller's end of the connection (struct TargetControl).          *)
(*                                                                         *)
(* A connection is named by a member of Conns and used once; each end of   *)
(* it can close at any time.  A controller's name matters to the code only *)
(* as empty or not, so the connection stands for it.  What a capture is    *)
(* made of, and what triggering one does, belongs to CaptureControl: here  *)
(* captures appear in m_Captures.  A step is one lock section, or one      *)
(* access to what other threads or the other end of the socket can see.    *)
(***************************************************************************)
EXTENDS Integers, Sequences, FiniteSets

CONSTANTS
  Conns,       \* the connections controllers make
  NoConn,      \* no connection, and the empty m_SingleClientName
  Versions,    \* the protocol versions controllers speak
  Drivers,     \* the APIs the program may use
  MaxCaptures, \* bound: captures made
  MaxWindows,  \* bound: capturable windows
  Budget       \* bound: things that happen in the program, requests and closes

ASSUME TargetAssumption ==
  /\ NoConn \notin Conns
  /\ Versions \subseteq Nat
  /\ {MaxCaptures, MaxWindows, Budget} \subseteq Nat

VARIABLES
  m_SingleClientName, m_ControlClientThreadShutdown, m_TargetControlThreadShutdown,
  m_RequestControllerShow,
  m_Captures,       \* the captures listed, each with its retrieved flag
  made,             \* captures made so far: capture k is the k-th
  files,            \* the captures whose file exists
  m_ActiveDrivers,  \* per driver: unused, loaded or presenting
  m_Children,       \* how many child processes are listed
  windowCount,      \* GetCapturableWindowCount
  callback,         \* the connection whose captureProgress the callback writes
  captureProgress,  \* per connection: the client thread's variable
  hooks,            \* RemoveHooks: not called, joining, returned
  server,           \* the server thread: its control point and locals
  thread,           \* per connection: the client thread's control point
  sock,             \* per connection: the program's end of the socket
  version,          \* per connection: the version of its handshake
  told,             \* per connection: what its client thread has sent
  peer,             \* per connection: the controller's end
  toServer, toClient,
  known,            \* per connection: the captures the controller was told of
  asked,            \* captures some controller asked to copy or delete (history)
  budget

slotVars    == <<m_SingleClientName, m_ControlClientThreadShutdown>>
captureVars == <<m_Captures, made, files>>
programVars == <<m_ActiveDrivers, m_Children, windowCount, m_RequestControllerShow>>
progressVars == <<callback, captureProgress>>
hookVars    == <<hooks, m_TargetControlThreadShutdown>>
threadVars  == <<thread, told>>
socketVars  == <<sock, version>>
peerVars    == <<peer, known, asked>>
channelVars == <<toServer, toClient>>
vars == <<slotVars, captureVars, programVars, progressVars, hookVars, server, threadVars,
          socketVars, peerVars, channelVars, budget>>

Statuses == {"unused", "loaded", "presenting"}
Progress == {"none", "part", "done"}

\* IsProtocolVersionSupported.
IsProtocolVersionSupported(v) == v \in 2 .. 9

\* What a client thread that has sent nothing compares with.
ToldNothing == [captures |-> <<>>, children |-> 0, drivers |-> [d \in Drivers |-> "unused"],
                progress |-> "none", windows |-> 0]

Init ==
  /\ m_SingleClientName = NoConn
  /\ m_ControlClientThreadShutdown = FALSE /\ m_TargetControlThreadShutdown = FALSE
  /\ m_RequestControllerShow = FALSE
  /\ m_Captures = <<>> /\ made = 0 /\ files = {}
  /\ m_ActiveDrivers = [d \in Drivers |-> "unused"]
  /\ m_Children = 0 /\ windowCount = 0
  /\ callback = NoConn /\ captureProgress = [c \in Conns |-> "none"]
  /\ hooks = "present"
  /\ server = [pc |-> "accept", client |-> NoConn, kick |-> FALSE, clientThread |-> NoConn]
  /\ thread = [c \in Conns |-> "none"]
  /\ sock = [c \in Conns |-> "none"]
  /\ version = [c \in Conns |-> 0]
  /\ told = [c \in Conns |-> ToldNothing]
  /\ peer = [c \in Conns |-> "unused"]
  /\ toServer = [c \in Conns |-> <<>>] /\ toClient = [c \in Conns |-> <<>>]
  /\ known = [c \in Conns |-> <<>>]
  /\ asked = {}
  /\ budget = Budget

At(c, pc) == thread[c] = pc
Goto(c, pc) == thread' = [thread EXCEPT ![c] = pc]
Spend == budget > 0 /\ budget' = budget - 1

\* Blocking writes of the program on connection c.  Once the controller has closed, a
\* write goes nowhere or fails.  Only the messages that change what the controller's end
\* holds are kept.
Send(c, msg) == toClient' = [toClient EXCEPT ![c] = IF peer[c] = "closed" THEN @ ELSE Append(@, msg)]
WriteFails(c) == peer[c] = "closed" /\ UNCHANGED toClient
Message(type, id, cap) == [type |-> type, id |-> id, cap |-> cap]
Plain(type) == Message(type, 0, 0)

-----------------------------------------------------------------------------
(* TargetControlServerThread.                                               *)

ServerAt(pc) == server.pc = pc

\* The next turn of the loop looks at m_TargetControlThreadShutdown.
NextTurn == IF m_TargetControlThreadShutdown THEN "stop" ELSE "accept"

Pending(c) == peer[c] \in {"open", "greeted"} /\ sock[c] = "none"

AcceptClient(c) ==
  /\ ServerAt("accept")
  /\ Pending(c)
  /\ server' = [server EXCEPT !.pc = "greet", !.client = c]
  /\ sock' = [sock EXCEPT ![c] = "open"]
  /\ UNCHANGED <<slotVars, captureVars, programVars, progressVars, hookVars, threadVars,
                 version, peerVars, channelVars, budget>>

\* The connection the server is dealing with is closed.
Reject ==
  /\ sock' = [sock EXCEPT ![server.client] = "closed"]
  /\ server' = [server EXCEPT !.pc = NextTurn, !.client = NoConn, !.kick = FALSE]

\* The handshake arrives.  A version this program does not know is rejected.
ReadHandshake ==
  /\ ServerAt("greet")
  /\ toServer[server.client] # <<>>
  /\ LET hello == Head(toServer[server.client]) IN
     IF IsProtocolVersionSupported(hello.version)
     THEN /\ server' = [server EXCEPT !.pc = "look", !.kick = hello.kick]
          /\ version' = [version EXCEPT ![server.client] = hello.version]
          /\ UNCHANGED sock
     ELSE Reject /\ UNCHANGED version
  /\ toServer' = [toServer EXCEPT ![server.client] = Tail(@)]
  /\ UNCHANGED <<slotVars, captureVars, programVars, progressVars, hookVars, threadVars,
                 peerVars, toClient, budget>>

\* No handshake: the controller has closed, or said nothing for five seconds.
HandshakeFails ==
  /\ ServerAt("greet")
  /\ toServer[server.client] = <<>>
  /\ Reject
  /\ UNCHANGED <<slotVars, captureVars, programVars, progressVars, hookVars, threadVars,
                 version, peerVars, channelVars, budget>>

\* "see if we have a client", under m_SingleClientLock.
LookForClient ==
  /\ ServerAt("look")
  /\ server' = [server EXCEPT !.pc = IF m_SingleClientName = NoConn THEN "claim"
                                     ELSE IF server.kick THEN "kick" ELSE "busy"]
  /\ UNCHANGED <<slotVars, captureVars, programVars, progressVars, hookVars, threadVars,
                 socketVars, peerVars, channelVars, budget>>

\* Slip: the thread in service is not told to end.
KickSilently ==
  /\ ServerAt("kick")
  /\ server' = [server EXCEPT !.pc = "join"]
  /\ UNCHANGED <<slotVars, captureVars, programVars, progressVars, hookVars, threadVars,
                 socketVars, peerVars, channelVars, budget>>

KickClient ==
  /\ ServerAt("kick")
  /\ m_ControlClientThreadShutdown' = TRUE
  /\ server' = [server EXCEPT !.pc = "join"]
  /\ UNCHANGED <<m_SingleClientName, captureVars, programVars, progressVars, hookVars,
                 threadVars, socketVars, peerVars, channelVars, budget>>

\* Slip: the kicked thread is not waited for.
JoinedAnyway == TRUE

\* JoinThread(clientThread) returns: the thread has ended.
Joined == server.clientThread = NoConn \/ At(server.clientThread, "gone")

JoinKicked ==
  /\ ServerAt("join")
  /\ Joined
  /\ m_ControlClientThreadShutdown' = FALSE
  /\ server' = [server EXCEPT !.pc = "claim", !.clientThread = NoConn]
  /\ UNCHANGED <<m_SingleClientName, captureVars, programVars, progressVars, hookVars,
                 threadVars, socketVars, peerVars, channelVars, budget>>

\* The server takes the name for the controller and starts its thread.
SpawnClientThread ==
  /\ ServerAt("claim")
  /\ m_SingleClientName' = server.client
  /\ Goto(server.client, "hello")
  /\ server' = [server EXCEPT !.pc = NextTurn, !.client = NoConn, !.kick = FALSE,
                               !.clientThread = server.client]
  /\ UNCHANGED <<m_ControlClientThreadShutdown, captureVars, programVars, progressVars, hookVars,
                 told, socketVars, peerVars, channelVars, budget>>

SendBusy ==
  /\ ServerAt("busy")
  /\ Send(server.client, Plain("busy"))
  /\ Reject
  /\ UNCHANGED <<slotVars, captureVars, programVars, progressVars, hookVars, threadVars,
                 version, peerVars, toServer, budget>>

\* The server finds the flag set, at the end of a turn or when nobody is to be accepted,
\* and ends.  It tells the client thread to, and does not wait for it.  What was waiting
\* to be accepted is reset with the listening socket.
StopServer ==
  /\ ServerAt("stop") \/ (ServerAt("accept") /\ m_TargetControlThreadShutdown)
  /\ m_ControlClientThreadShutdown' = TRUE
  /\ server' = [server EXCEPT !.pc = "gone", !.clientThread = NoConn]
  /\ sock' = [c \in Conns |-> IF Pending(c) THEN "closed" ELSE sock[c]]
  /\ UNCHANGED <<m_SingleClientName, captureVars, programVars, progressVars, hookVars,
                 threadVars, version, peerVars, channelVars, budget>>

-----------------------------------------------------------------------------
(* TargetControlClientThread.                                               *)

\* The client thread closes its end and leaves the loop.
Hangup(c, pc) == sock' = [sock EXCEPT ![c] = "closed"] /\ Goto(c, pc)

\* Slip: a thread whose controller has gone at once does not give up the name.
AfterFailedHello == "gone"

\* Where a failed handshake leads: the name is given up, no callback was installed.
AfterHello == "drop"

SendHandshake(c) ==
  /\ At(c, "hello")
  /\ \/ Send(c, Plain("handshake")) /\ Goto(c, "setup") /\ UNCHANGED sock
     \/ WriteFails(c) /\ Hangup(c, AfterHello)
  /\ UNCHANGED <<slotVars, captureVars, programVars, progressVars, hookVars, server, told,
                 version, peerVars, toServer, budget>>

\* Where the captures whose file exists are in the list.
Kept == {i \in DOMAIN m_Captures : m_Captures[i].cap \in files}

\* The k-th of these places.
KeptAt(k) == CHOOSE i \in Kept : Cardinality(Kept \cap (1 .. i)) = k

\* The listed captures whose file exists, in order.
Existing == [k \in 1 .. Cardinality(Kept) |-> m_Captures[KeptAt(k)]]

\* SetProgressCallback: from now on the program writes this thread's captureProgress.
\* Then ValidateCaptures.
SetUp(c) ==
  /\ At(c, "setup")
  /\ callback' = c
  /\ m_Captures' = Existing
  /\ Goto(c, "loop")
  /\ UNCHANGED <<slotVars, made, files, programVars, captureProgress, hookVars, server, told,
                 socketVars, peerVars, channelVars, budget>>

\* The top of the loop: the thread was kicked, the server has ended, or the socket closed.
LeaveLoop(c) ==
  /\ At(c, "loop")
  /\ m_ControlClientThreadShutdown \/ sock[c] = "closed"
  /\ Hangup(c, "leave")
  /\ UNCHANGED <<slotVars, captureVars, programVars, progressVars, hookVars, server, told,
                 version, peerVars, channelVars, budget>>

\* What one turn of the loop may have to send.  It sends the first thing in this order.
Order == <<"driver", "capture", "child", "progress", "windows", "show">>

HasNews(c, topic) ==
  CASE topic = "driver"   -> told[c].drivers # m_ActiveDrivers
    [] topic = "capture"  -> Len(told[c].captures) # Len(m_Captures)
    [] topic = "child"    -> told[c].children # m_Children
    [] topic = "progress" -> told[c].progress # captureProgress[c]
    [] topic = "windows"  -> version[c] >= 4 /\ told[c].windows # windowCount
    [] topic = "show"     -> version[c] >= 7 /\ m_RequestControllerShow

News(c) == {i \in DOMAIN Order : HasNews(c, Order[i])}
IsTopic(c, topic) ==
  \E i \in News(c) : Order[i] = topic /\ \A j \in News(c) : i <= j

\* Slip: what was sent of a driver is not remembered.
RememberNothing(c, d) == told[c].drivers

\* The statuses sent, once that of driver d is.
RememberDriver(c, d) == [told[c].drivers EXCEPT ![d] = m_ActiveDrivers[d]]

\* The captures sent, once the next one is.
NextCapture(c) ==
  LET idx == Len(told[c].captures) + 1 IN Append(told[c].captures, m_Captures[idx].cap)

TellDriver(c) ==
  /\ IsTopic(c, "driver")
  /\ \E d \in Drivers :
       /\ told[c].drivers[d] # m_ActiveDrivers[d]
       /\ told' = [told EXCEPT ![c].drivers = RememberDriver(c, d)]
  /\ UNCHANGED <<captureProgress, toClient, m_RequestControllerShow>>

TellCapture(c) ==
  /\ IsTopic(c, "capture")
  /\ told' = [told EXCEPT ![c].captures = NextCapture(c)]
  /\ LET idx == Len(told[c].captures) + 1 IN Send(c, Message("capture", idx, m_Captures[idx].cap))
  /\ UNCHANGED <<captureProgress, m_RequestControllerShow>>

TellChild(c) ==
  /\ IsTopic(c, "child")
  /\ told' = [told EXCEPT ![c].children = @ + 1]
  /\ UNCHANGED <<captureProgress, toClient, m_RequestControllerShow>>

\* A finished capture is told as no progress.  Other progress is told every 100 ms: a
\* turn may leave it for later.
TellProgress(c) ==
  /\ IsTopic(c, "progress")
  /\ LET now == IF captureProgress[c] = "part" THEN "part" ELSE "none" IN
     /\ captureProgress' = [captureProgress EXCEPT ![c] = now]
     /\ \/ told' = [told EXCEPT ![c].progress = now]
        \/ now = "part" /\ UNCHANGED told
  /\ UNCHANGED <<toClient, m_RequestControllerShow>>

TellWindows(c) ==
  /\ IsTopic(c, "windows")
  /\ told' = [told EXCEPT ![c].windows = windowCount]
  /\ UNCHANGED <<captureProgress, toClient, m_RequestControllerShow>>

\* The request to show the controller is taken by whoever is in service.
TellShow(c) ==
  /\ IsTopic(c, "show")
  /\ m_RequestControllerShow' = FALSE
  /\ UNCHANGED <<told, captureProgress, toClient>>

TellNothing(c) ==
  /\ News(c) = {}
  /\ UNCHANGED <<told, captureProgress, toClient, m_RequestControllerShow>>

\* One turn of the loop: what differs is read, each under its own lock, and the first
\* difference is sent.  When the write (or the ping every second) fails the thread hangs up.
Report(c) ==
  /\ At(c, "loop") /\ ~m_ControlClientThreadShutdown /\ sock[c] # "closed"
  /\ \/ TellDriver(c) \/ TellCapture(c) \/ TellChild(c) \/ TellProgress(c)
     \/ TellWindows(c) \/ TellShow(c) \/ TellNothing(c)
  /\ \/ Goto(c, "serve") /\ UNCHANGED sock
     \/ peer[c] = "closed" /\ Hangup(c, "leave")
  /\ UNCHANGED <<slotVars, captureVars, m_ActiveDrivers, m_Children, windowCount, callback,
                 hookVars, server, version, peerVars, toServer, budget>>

\* Slip: ids are taken as counted from one.
MarkedNext(id) == id + 1

\* The index a request's id stands for.
Marked(id) == id

MarkCaptureRetrieved(id) ==
  m_Captures' = [i \in DOMAIN m_Captures |->
                   IF i = Marked(id) THEN [m_Captures[i] EXCEPT !.retrieved = TRUE] ELSE m_Captures[i]]

\* TriggerCapture, QueueCapture and CycleActiveWindow act on CaptureControl.
ServeCommand(c) ==
  /\ Head(toServer[c]).type = "command"
  /\ Goto(c, "loop")
  /\ UNCHANGED <<m_Captures, sock, toClient>>

ServeDelete(c) ==
  /\ Head(toServer[c]).type = "delete"
  /\ MarkCaptureRetrieved(Head(toServer[c]).id)
  /\ Goto(c, "loop")
  /\ UNCHANGED <<sock, toClient>>

\* The file is sent and the capture marked, unless the file cannot be read or the write
\* fails: then the thread hangs up.  An id that is not listed is not answered.
ServeCopy(c) ==
  LET id == Head(toServer[c]).id IN
  /\ Head(toServer[c]).type = "copy"
  /\ \/ /\ id \notin DOMAIN m_Captures
        /\ Goto(c, "loop")
        /\ UNCHANGED <<m_Captures, sock, toClient>>
     \/ /\ id \in DOMAIN m_Captures /\ m_Captures[id].cap \in files
        /\ MarkCaptureRetrieved(id)
        /\ Send(c, Message("copy", id, m_Captures[id].cap))
        /\ Goto(c, "loop")
        /\ UNCHANGED sock
     \/ /\ id \in DOMAIN m_Captures
        /\ m_Captures[id].cap \notin files \/ peer[c] = "closed"
        /\ Hangup(c, "leave")
        /\ UNCHANGED <<m_Captures, toClient>>

Serve(c) ==
  /\ At(c, "serve")
  /\ toServer[c] # <<>>
  /\ ServeCommand(c) \/ ServeDelete(c) \/ ServeCopy(c)
  /\ toServer' = [toServer EXCEPT ![c] = Tail(@)]
  /\ UNCHANGED <<slotVars, made, files, programVars, progressVars, hookVars, server, told,
                 version, peerVars, budget>>

\* Nothing to read: the loop goes on.  The end of the stream closes the socket, also when
\* requests of a controller that has gone are still in a buffer.
ServeNothing(c) ==
  /\ At(c, "serve")
  /\ \/ toServer[c] = <<>> /\ peer[c] # "closed" /\ UNCHANGED sock
     \/ peer[c] = "closed" /\ sock' = [sock EXCEPT ![c] = "closed"]
  /\ Goto(c, "loop")
  /\ UNCHANGED <<slotVars, captureVars, programVars, progressVars, hookVars, server, told,
                 version, peerVars, channelVars, budget>>

\* The callback is removed, if it was installed; then "give up our connection", under
\* m_SingleClientLock.  The thread's variables end with it.
GiveUpName(c) ==
  /\ At(c, "leave") \/ At(c, "drop")
  /\ callback' = IF At(c, "leave") THEN NoConn ELSE callback
  /\ m_SingleClientName' = NoConn
  /\ Goto(c, "gone")
  /\ told' = [told EXCEPT ![c] = ToldNothing]
  /\ captureProgress' = [captureProgress EXCEPT ![c] = "none"]
  /\ UNCHANGED <<m_ControlClientThreadShutdown, captureVars, programVars, hookVars, server,
                 socketVars, peerVars, channelVars, budget>>

-----------------------------------------------------------------------------
(* The controller's end: struct TargetControl.                              *)

Connect(c) ==
  /\ peer[c] = "unused" /\ server.pc # "gone"
  /\ peer' = [peer EXCEPT ![c] = "open"]
  /\ UNCHANGED <<slotVars, captureVars, programVars, progressVars, hookVars, server, threadVars,
                 socketVars, known, asked, channelVars, budget>>

\* The handshake, with the name, the version and whether to kick another controller.
SayHello(c, v, kick) ==
  /\ peer[c] = "open"
  /\ IF sock[c] = "closed" THEN peer' = [peer EXCEPT ![c] = "closed"] /\ UNCHANGED toServer
     ELSE /\ peer' = [peer EXCEPT ![c] = "greeted"]
          /\ toServer' = [toServer EXCEPT ![c] = Append(@, [type |-> "hello", version |-> v, kick |-> kick])]
  /\ UNCHANGED <<slotVars, captureVars, programVars, progressVars, hookVars, server, threadVars,
                 socketVars, known, asked, toClient, budget>>

\* The answer to the handshake, then whatever ReceiveMessage is given.  A controller that
\* is told the program is busy gives up.
Receive(c) ==
  /\ peer[c] \in {"greeted", "connected"}
  /\ toClient[c] # <<>>
  /\ LET msg == Head(toClient[c]) IN
     /\ peer' = [peer EXCEPT ![c] = IF msg.type = "busy" THEN "closed" ELSE "connected"]
     /\ known' = [known EXCEPT ![c] = IF msg.type = "busy" THEN <<>>
                                      ELSE IF msg.type = "capture" THEN Append(@, msg.cap) ELSE @]
  /\ toClient' = [toClient EXCEPT ![c] = Tail(@)]
  /\ UNCHANGED <<slotVars, captureVars, programVars, progressVars, hookVars, server, threadVars,
                 socketVars, asked, toServer, budget>>

\* Nothing left to read and the program has closed its end.
Disconnected(c) ==
  /\ peer[c] \in {"greeted", "connected"}
  /\ toClient[c] = <<>> /\ sock[c] = "closed"
  /\ peer' = [peer EXCEPT ![c] = "closed"]
  /\ known' = [known EXCEPT ![c] = <<>>]
  /\ UNCHANGED <<slotVars, captureVars, programVars, progressVars, hookVars, server, threadVars,
                 socketVars, asked, channelVars, budget>>

Request(c, type, id) ==
  /\ peer[c] = "connected"
  /\ Spend
  /\ toServer' = [toServer EXCEPT ![c] = IF sock[c] = "closed" THEN @ ELSE Append(@, [type |-> type, id |-> id])]
  /\ UNCHANGED <<slotVars, captureVars, programVars, progressVars, hookVars, server, threadVars,
                 socketVars, peer, known, toClient>>

SendCommand(c) == Request(c, "command", 0) /\ UNCHANGED asked

\* CopyCapture and DeleteCapture of a capture the controller was told of, or of an id
\* that no capture has (0 stands for one).
AskFor(c, type, id) ==
  /\ Request(c, type, id)
  /\ asked' = asked \cup {known[c][i] : i \in {id} \cap DOMAIN known[c]}

\* The controller closes the connection, or dies.
Close(c) ==
  /\ peer[c] \in {"open", "greeted", "connected"}
  /\ Spend
  /\ peer' = [peer EXCEPT ![c] = "closed"]
  /\ known' = [known EXCEPT ![c] = <<>>]
  /\ toClient' = [toClient EXCEPT ![c] = <<>>]
  /\ UNCHANGED <<slotVars, captureVars, programVars, progressVars, hookVars, server, threadVars,
                 socketVars, asked, toServer>>

-----------------------------------------------------------------------------
(* The program.                                                             *)

\* FinishCaptureWriting lists a capture.
ListCapture ==
  /\ made < MaxCaptures
  /\ made' = made + 1
  /\ m_Captures' = Append(m_Captures, [cap |-> made + 1, retrieved |-> FALSE])
  /\ files' = files \cup {made + 1}
  /\ UNCHANGED <<slotVars, programVars, progressVars, hookVars, server, threadVars, socketVars,
                 peerVars, channelVars, budget>>

\* Someone deletes the file of a capture.
DeleteFile(cap) ==
  /\ cap \in files
  /\ Spend
  /\ files' = files \ {cap}
  /\ UNCHANGED <<slotVars, m_Captures, made, programVars, progressVars, hookVars, server,
                 threadVars, socketVars, peerVars, channelVars>>

\* AddActiveDriver, and the ten seconds without a present that end "presenting"; a driver
\* once used stays.
SetDriver(d, status) ==
  /\ status # "unused" /\ status # m_ActiveDrivers[d]
  /\ Spend
  /\ m_ActiveDrivers' = [m_ActiveDrivers EXCEPT ![d] = status]
  /\ UNCHANGED <<slotVars, captureVars, m_Children, windowCount, m_RequestControllerShow,
                 progressVars, hookVars, server, threadVars, socketVars, peerVars, channelVars>>

AddChildProcess ==
  /\ Spend
  /\ m_Children' = m_Children + 1
  /\ UNCHANGED <<slotVars, captureVars, m_ActiveDrivers, windowCount, m_RequestControllerShow,
                 progressVars, hookVars, server, threadVars, socketVars, peerVars, channelVars>>

SetWindowCount(n) ==
  /\ n # windowCount
  /\ Spend
  /\ windowCount' = n
  /\ UNCHANGED <<slotVars, captureVars, m_ActiveDrivers, m_Children, m_RequestControllerShow,
                 progressVars, hookVars, server, threadVars, socketVars, peerVars, channelVars>>

\* SetProgress calls the callback that is installed, if any.
SetProgress(p) ==
  /\ callback # NoConn
  /\ Spend
  /\ captureProgress' = [captureProgress EXCEPT ![callback] = p]
  /\ UNCHANGED <<slotVars, captureVars, programVars, callback, hookVars, server, threadVars,
                 socketVars, peerVars, channelVars>>

\* ShowReplayUI, under m_SingleClientLock.
ShowReplayUI ==
  /\ m_SingleClientName # NoConn
  /\ Spend
  /\ m_RequestControllerShow' = TRUE
  /\ UNCHANGED <<slotVars, captureVars, m_ActiveDrivers, m_Children, windowCount, progressVars,
                 hookVars, server, threadVars, socketVars, peerVars, channelVars>>

RemoveHooks ==
  /\ hooks = "present"
  /\ hooks' = "joining"
  /\ m_TargetControlThreadShutdown' = TRUE
  /\ UNCHANGED <<slotVars, captureVars, programVars, progressVars, server, threadVars, socketVars,
                 peerVars, channelVars, budget>>

\* JoinThread(m_RemoteThread) returns.
HooksRemoved ==
  /\ hooks = "joining" /\ ServerAt("gone")
  /\ hooks' = "removed"
  /\ UNCHANGED <<slotVars, captureVars, programVars, progressVars, m_TargetControlThreadShutdown,
                 server, threadVars, socketVars, peerVars, channelVars, budget>>

-----------------------------------------------------------------------------
Server ==
  \/ \E c \in Conns : AcceptClient(c)
  \/ ReadHandshake \/ HandshakeFails \/ LookForClient \/ KickClient \/ JoinKicked
  \/ SpawnClientThread \/ SendBusy \/ StopServer

ClientThread(c) ==
  \/ SendHandshake(c) \/ SetUp(c) \/ LeaveLoop(c) \/ Report(c)
  \/ Serve(c) \/ ServeNothing(c) \/ GiveUpName(c)

Controller(c) ==
  \/ Connect(c) \/ Receive(c) \/ Disconnected(c) \/ SendCommand(c) \/ Close(c)
  \/ \E v \in Versions, kick \in BOOLEAN : SayHello(c, v, kick)
  \/ \E type \in {"copy", "delete"}, id \in {0} \cup DOMAIN known[c] : AskFor(c, type, id)

Program ==
  \/ ListCapture \/ (\E cap \in files : DeleteFile(cap))
  \/ \E d \in Drivers, status \in Statuses : SetDriver(d, status)
  \/ AddChildProcess \/ ShowReplayUI \/ RemoveHooks \/ HooksRemoved
  \/ \E n \in 0 .. MaxWindows : SetWindowCount(n)
  \/ \E p \in Progress : SetProgress(p)

Next == Server \/ Program \/ \E c \in Conns : ClientThread(c) \/ Controller(c)

Spec == Init /\ [][Next]_vars

\* The threads run, and a controller keeps reading its messages, as ReceiveMessage's
\* documentation asks of it.
FairSpec ==
  /\ Spec
  /\ WF_vars(Server)
  /\ \A c \in Conns : WF_vars(ClientThread(c)) /\ WF_vars(Receive(c))

-----------------------------------------------------------------------------
InService(c) == thread[c] \notin {"none", "gone"}
InLoop(c) == thread[c] \in {"loop", "serve"}

Caps == 1 .. MaxCaptures

ToldType == [captures : Seq(Caps), children : Nat, drivers : [Drivers -> Statuses],
             progress : Progress, windows : 0 .. MaxWindows]

ServerMessages == [type : {"handshake", "busy"}, id : {0}, cap : {0}]
                    \cup [type : {"capture", "copy"}, id : Nat, cap : Caps]
ClientMessages == [type : {"hello"}, version : Versions, kick : BOOLEAN]
                    \cup [type : {"command", "delete", "copy"}, id : Nat]

ServerTypes ==
  /\ m_SingleClientName \in Conns \cup {NoConn}
  /\ m_ControlClientThreadShutdown \in BOOLEAN /\ m_TargetControlThreadShutdown \in BOOLEAN
  /\ hooks \in {"present", "joining", "removed"}
  /\ server \in [pc : {"accept", "greet", "look", "kick", "join", "claim", "busy", "stop", "gone"},
                client : Conns \cup {NoConn}, kick : BOOLEAN, clientThread : Conns \cup {NoConn}]

ThreadTypes ==
  /\ thread \in [Conns -> {"none", "hello", "setup", "loop", "serve", "leave", "drop", "gone"}]
  /\ sock \in [Conns -> {"none", "open", "closed"}]
  /\ version \in [Conns -> {0} \cup Versions]
  /\ told \in [Conns -> ToldType]

CaptureTypes ==
  /\ m_Captures \in Seq([cap : Caps, retrieved : BOOLEAN])
  /\ made \in 0 .. MaxCaptures /\ files \subseteq Caps /\ asked \subseteq Caps
  /\ budget \in 0 .. Budget

ProgramTypes ==
  /\ m_ActiveDrivers \in [Drivers -> Statuses]
  /\ m_Children \in Nat /\ windowCount \in 0 .. MaxWindows
  /\ m_RequestControllerShow \in BOOLEAN
  /\ callback \in Conns \cup {NoConn} /\ captureProgress \in [Conns -> Progress]

PeerTypes ==
  /\ peer \in [Conns -> {"unused", "open", "greeted", "connected", "closed"}]
  /\ toServer \in [Conns -> Seq(ClientMessages)]
  /\ toClient \in [Conns -> Seq(ServerMessages)]
  /\ known \in [Conns -> Seq(Caps)]

\* Every variable keeps its type.  What could break it is a reader of a connection that
\* finds a message it does not expect, or an index taken from another list than m_Captures.
TypeOK == ServerTypes /\ ThreadTypes /\ CaptureTypes /\ ProgramTypes /\ PeerTypes

\* One controller at a time: a client thread that runs is the only one, and holds the
\* name.  The server thread starts one only after the last has given up the name or, when
\* it was kicked, has been joined.
OneController ==
  \A c \in Conns : InService(c) => /\ m_SingleClientName = c
                                   /\ \A d \in Conns : InService(d) => d = c

ListedCaps == [i \in DOMAIN m_Captures |-> m_Captures[i].cap]

\* A capture's id is its index in m_Captures.  What a client thread has sent stays a
\* prefix of the list, so that an id means the same capture at both ends: the list is
\* pruned only before a controller is told anything.
IdsAgree ==
  \A c \in Conns : InLoop(c) =>
    /\ Len(told[c].captures) <= Len(m_Captures)
    /\ told[c].captures = SubSeq(ListedCaps, 1, Len(told[c].captures))

\* Only a capture some controller asked to copy or delete is marked retrieved, to be
\* deleted when the program ends (~RenderDoc).
OnlyAskedRetrieved ==
  \A i \in DOMAIN m_Captures : m_Captures[i].retrieved => m_Captures[i].cap \in asked

\* A controller in service is told of every capture, unless it or its thread goes away.
CaptureAnnounced ==
  \A c \in Conns, n \in 1 .. MaxCaptures :
    (InLoop(c) /\ Len(m_Captures) >= n) ~> (Len(known[c]) >= n \/ peer[c] = "closed" \/ ~InLoop(c))

\* A controller that kicks is served or turned away: the server's wait for the thread in
\* service ends.
KickServed ==
  \A c \in Conns :
    (server.client = c /\ server.kick /\ ServerAt("look")) ~> (InService(c) \/ At(c, "gone"))

\* The place of a controller that has gone is given up.
SlotReleased ==
  \A c \in Conns : (peer[c] = "closed" /\ m_SingleClientName = c) ~> m_SingleClientName # c

=============================================================================
