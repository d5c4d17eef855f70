---------------------------- MODULE RemoteServer ----------------------------
(***************************************************************************)
(* The remote server, src/renderdoc/core/remote_server.cpp: an accept loop *)
(* that starts a thread per connection and reaps the threads that ended,   *)
(* the handshake that promotes one connection at a time to be active, the  *)
(* request loop of the active connection with the thread that reports      *)
(* progress while it opens a capture, and the controller at the other end. *)
(*                                                                         *)
(* A connection is used once.  Requests that change nothing on the server  *)
(* are one request, "query".  A read sees the requests that are there, or  *)
(* fails: the controller went away, or the timeout passed.  What captures, *)
(* replies and files contain is left out.                                  *)
(***************************************************************************)
EXTENDS Integers, Sequences, FiniteSets

CONSTANTS
  MaxConns,   \* bound: connections made
  MaxCopies,  \* bound: captures a connection copies to the server
  Requests    \* bound: what the controller of each connection may ask for

Kinds == {"query", "copy", "shutdown", "open", "resolve", "close", "proxy"}

ASSUME RemoteAssumption ==
  /\ MaxConns \in Nat \ {0}
  /\ MaxCopies \in Nat
  /\ Requests \in [1..MaxConns -> SUBSET Kinds]

VARIABLES
  serve,        \* the accept loop's control point
  hand,         \* the connection it has just accepted, 0 for NULL
  backlog,      \* connections made and not accepted yet
  clients,      \* connections with a thread, in the order they were accepted
  active,       \* activeClient.active, 0 for NULL
  thread,       \* per connection: its ClientThread and the locals of that thread
  disk,         \* capture files on the server
  toServer, toController,   \* per connection: packets under way
  ctl           \* per connection: its controller

vars == <<serve, hand, backlog, clients, active, thread, disk, toServer, toController, ctl>>
loopVars == <<serve, hand, backlog, clients>>

Conns == 1..MaxConns

\* The path of a copied capture: its number, from 0 in every connection.
Files == 0..(MaxCopies - 1)

Elems(s) == {s[i] : i \in 1..Len(s)}

\* The control points inside ActiveRemoteClientThread before its loop is left.
Working == {"loop", "read", "opening", "opened", "resolving", "resolved"}

Packet(kind) == [kind |-> kind, ok |-> TRUE]

Init ==
  /\ serve = "accept"
  /\ hand = 0
  /\ backlog = <<>>
  /\ clients = <<>>
  /\ active = 0
  /\ thread = [c \in Conns |-> [at |-> "none", killThread |-> FALSE, killServer |-> FALSE,
       ticker |-> "none", capture |-> "none", tempFiles |-> {}, captureNum |-> 0]]
  /\ disk = {}
  /\ toServer = [c \in Conns |-> <<>>]
  /\ toController = [c \in Conns |-> <<>>]
  /\ ctl = [c \in Conns |-> [at |-> "none", asked |-> "none", has |-> FALSE]]

-----------------------------------------------------------------------------
(* The accept loop of BecomeRemoteServer.                                    *)

\* A connection that waits is accepted, and the active client looked at.
AcceptClient ==
  /\ serve = "accept"
  /\ IF backlog = <<>>
     THEN UNCHANGED <<hand, backlog>>
     ELSE hand' = Head(backlog) /\ backlog' = Tail(backlog)
  /\ serve' = IF active # 0 /\ thread[active].killServer THEN "end" ELSE "reap"
  /\ UNCHANGED <<clients, active, thread, disk, toServer, toController, ctl>>

\* killReplay() returns true at the head of the loop.
KillReplay ==
  /\ serve = "accept"
  /\ serve' = "end"
  /\ UNCHANGED <<hand, backlog, clients, active, thread, disk, toServer, toController, ctl>>

\* The first client found dead.
Dead(i) == thread[clients[i]].at = "done" /\ \A j \in 1..(i - 1) : thread[clients[j]].at # "done"

\* Slip: the client after the one found dead is erased.
SlipOthers(i) == SubSeq(clients, 1, i) \o SubSeq(clients, i + 2, Len(clients))

\* The clients without that one.
Others(i) == SubSeq(clients, 1, i - 1) \o SubSeq(clients, i + 1, Len(clients))

\* Slip: a reaped client frees the active slot whoever is active.
SlipReaped(left, slot) ==
  \/ /\ \A c \in Elems(clients) : thread[c].at # "done"
     /\ left = clients /\ slot = active
  \/ \E i \in 1..Len(clients) : Dead(i) /\ left = Others(i) /\ slot = 0

\* Slip: the slot is compared with the client that follows, after the erase.
SlipSlotOf(left, slot) ==
  \/ /\ \A c \in Elems(clients) : thread[c].at # "done"
     /\ left = clients /\ slot = active
  \/ \E i \in 1..Len(clients) :
       /\ Dead(i)
       /\ left = Others(i)
       /\ slot = IF i <= Len(left) /\ active = left[i] THEN 0 ELSE active

\* One dead client is reaped in each turn of the loop, and its slot freed.
Reaped(left, slot) ==
  \/ /\ \A c \in Elems(clients) : thread[c].at # "done"
     /\ left = clients /\ slot = active
  \/ \E i \in 1..Len(clients) :
       /\ Dead(i)
       /\ left = Others(i)
       /\ slot = IF active = clients[i] THEN 0 ELSE active

\* The rest of a turn: an address outside the listen ranges is dropped, any
\* other gets a thread.
ReapAndSpawn ==
  /\ serve = "reap"
  /\ serve' = "accept"
  /\ hand' = 0
  /\ \E left \in {clients} \cup {Others(i) : i \in 1..Len(clients)}, slot \in {0, active} :
       /\ Reaped(left, slot)
       /\ active' = slot
       /\ \/ /\ hand = 0
             /\ clients' = left /\ UNCHANGED thread
          \/ /\ hand # 0
             /\ clients' = Append(left, hand)
             /\ thread' = [thread EXCEPT ![hand].at = "hello"]
          \/ /\ hand # 0
             /\ clients' = left
             /\ thread' = [thread EXCEPT ![hand].at = "done"]
  /\ UNCHANGED <<backlog, disk, toServer, toController, ctl>>

\* The turn of an accept that failed for good: after the reaping the server returns.
\* Its listening socket, the list of its threads and the active slot go with it; no
\* thread is told to stop, and none is joined.
AcceptFails ==
  /\ serve = "reap"
  /\ hand = 0
  /\ serve' = "failed"
  /\ backlog' = <<>> /\ clients' = <<>> /\ active' = 0
  /\ UNCHANGED <<hand, thread, disk, toServer, toController, ctl>>

\* Slip: the active thread is forgotten without being told to stop.
SlipKillActive ==
  /\ serve = "end"
  /\ serve' = "join"
  /\ active' = 0
  /\ UNCHANGED <<hand, backlog, clients, thread, disk, toServer, toController, ctl>>

KillActive ==
  /\ serve = "end"
  /\ serve' = "join"
  /\ active' = 0
  /\ thread' = IF active = 0 THEN thread ELSE [thread EXCEPT ![active].killThread = TRUE]
  /\ UNCHANGED <<hand, backlog, clients, disk, toServer, toController, ctl>>

\* Every thread has been joined: the server returns and its sockets are closed.
JoinClients ==
  /\ serve = "join"
  /\ \A c \in Elems(clients) : thread[c].at = "done"
  /\ serve' = "gone"
  /\ clients' = <<>>
  /\ backlog' = <<>>
  /\ UNCHANGED <<hand, active, thread, disk, toServer, toController, ctl>>

ServerLoop ==
  AcceptClient \/ ReapAndSpawn \/ KillActive \/ JoinClients

-----------------------------------------------------------------------------
(* The thread of connection c.                                               *)

\* What is sent to a controller that is gone is lost.
Reply(c, p) ==
  toController' = IF ctl[c].at = "gone" THEN toController
                  ELSE [toController EXCEPT ![c] = Append(@, p)]

Take(c) == toServer' = [toServer EXCEPT ![c] = Tail(@)]

Requested(c, kind) ==
  thread[c].at = "read" /\ toServer[c] # <<>> /\ Head(toServer[c]) = kind

\* The slot is a local of BecomeRemoteServer.  After the return that joins nobody a
\* thread reads what is left of it, which may look taken or free, and writes to nothing.
HandleHandshakeClient(c) ==
  /\ thread[c].at = "hello"
  /\ Take(c)
  /\ \E busy \in IF serve = "failed" THEN BOOLEAN ELSE {active # 0} :
     LET wants    == Head(toServer[c])
         promoted == wants = "active" /\ ~busy
     IN /\ active' = IF promoted /\ serve # "failed" THEN c ELSE active
        /\ thread' = [thread EXCEPT ![c].at = IF promoted THEN "loop" ELSE "done"]
        /\ Reply(c, Packet(IF wants = "mismatch" THEN "mismatch"
                           ELSE IF busy THEN "busy" ELSE "handshake"))
  /\ UNCHANGED <<loopVars, disk, ctl>>

\* The head of the loop: Connected() is false once a write has failed.
LoopHead(c) ==
  /\ thread[c].at = "loop"
  /\ \/ /\ thread[c].killThread \/ ctl[c].at = "gone"
        /\ thread' = [thread EXCEPT ![c].at = "ending"]
     \/ /\ ~thread[c].killThread
        /\ thread' = [thread EXCEPT ![c].at = "read"]
  /\ UNCHANGED <<loopVars, active, disk, toServer, toController, ctl>>

\* Nothing came before the controller closed, or within the timeout.
ReadFails(c) ==
  /\ thread[c].at = "read"
  /\ toServer[c] = <<>>
  /\ thread' = [thread EXCEPT ![c].at = "ending"]
  /\ UNCHANGED <<loopVars, active, disk, toServer, toController, ctl>>

\* A request that is answered and changes nothing the next one can see.
Query(c) ==
  /\ Requested(c, "query")
  /\ Take(c)
  /\ Reply(c, Packet("query"))
  /\ thread' = [thread EXCEPT ![c].at = "loop"]
  /\ UNCHANGED <<loopVars, active, disk, ctl>>

CopyCaptureToRemote(c) ==
  /\ Requested(c, "copy")
  /\ Take(c)
  /\ LET path == thread[c].captureNum IN
     \/ /\ disk' = disk \cup {path}
        /\ thread' = [thread EXCEPT ![c].at = "loop", ![c].captureNum = @ + 1,
                                    ![c].tempFiles = @ \cup {path}]
        /\ Reply(c, Packet("copy"))
     \* the controller goes away in the middle of the file
     \/ /\ ctl[c].at = "gone"
        /\ disk' = disk \ {path}
        /\ thread' = [thread EXCEPT ![c].at = "ending", ![c].captureNum = @ + 1]
        /\ UNCHANGED toController
  /\ UNCHANGED <<loopVars, active, ctl>>

ShutdownServer(c) ==
  /\ Requested(c, "shutdown")
  /\ Take(c)
  /\ thread' = [thread EXCEPT ![c].at = "loop", ![c].killServer = TRUE, ![c].killThread = TRUE]
  /\ Reply(c, Packet("shutdown"))
  /\ UNCHANGED <<loopVars, active, disk, ctl>>

\* The file cannot be read or replayed here, or the ticker starts and the
\* driver is made.
OpenLog(c) ==
  /\ Requested(c, "open")
  /\ Take(c)
  /\ \/ /\ thread' = [thread EXCEPT ![c].at = "loop", ![c].capture = "file"]
        /\ Reply(c, [kind |-> "open", ok |-> FALSE])
     \/ /\ thread' = [thread EXCEPT ![c].at = "opening", ![c].capture = "file",
                                    ![c].ticker = "ticking"]
        /\ UNCHANGED toController
  /\ UNCHANGED <<loopVars, active, disk, ctl>>

\* Creating the driver and reading the capture end, well or badly: the ticker
\* is told to stop.
OpenEnds(c) ==
  /\ thread[c].at = "opening"
  /\ \E capture \in {"file", "open"} :
       thread' = [thread EXCEPT ![c].at = "opened", ![c].capture = capture,
                                ![c].ticker = "killed"]
  /\ UNCHANGED <<loopVars, active, disk, toServer, toController, ctl>>

\* Slip: LogOpened is sent before the ticker is joined.
SlipLogOpened(c) ==
  /\ thread[c].at = "opened"
  /\ Reply(c, [kind |-> "open", ok |-> thread[c].capture = "open"])
  /\ thread' = [thread EXCEPT ![c].at = "loop"]
  /\ UNCHANGED <<loopVars, active, disk, toServer, ctl>>

LogOpened(c) ==
  /\ thread[c].at = "opened"
  /\ thread[c].ticker = "none"
  /\ Reply(c, [kind |-> "open", ok |-> thread[c].capture = "open"])
  /\ thread' = [thread EXCEPT ![c].at = "loop"]
  /\ UNCHANGED <<loopVars, active, disk, toServer, ctl>>

\* Without a resolve database that can be read the answer is given at once.
InitResolver(c) ==
  /\ Requested(c, "resolve")
  /\ Take(c)
  /\ \/ /\ thread' = [thread EXCEPT ![c].at = "loop"]
        /\ Reply(c, Packet("resolve"))
     \/ /\ thread[c].capture # "none"
        /\ thread' = [thread EXCEPT ![c].at = "resolving", ![c].ticker = "ticking"]
        /\ UNCHANGED toController
  /\ UNCHANGED <<loopVars, active, disk, ctl>>

\* MakeResolver returns.  The ticker stops for a resolver, not for NULL, which
\* is what a database of another platform gives.
MakeResolver(c) ==
  /\ thread[c].at = "resolving"
  /\ \E ticker \in {"killed", "ticking"} :
       thread' = [thread EXCEPT ![c].at = "resolved", ![c].ticker = ticker]
  /\ UNCHANGED <<loopVars, active, disk, toServer, toController, ctl>>

Resolved(c) ==
  /\ thread[c].at = "resolved"
  /\ thread[c].ticker = "none"
  /\ Reply(c, Packet("resolve"))
  /\ thread' = [thread EXCEPT ![c].at = "loop"]
  /\ UNCHANGED <<loopVars, active, disk, toServer, ctl>>

\* The thread that reports progress, when the last packet has been read (a
\* bound).  One it was about to send when it is told to stop still goes out.
Ticker(c) ==
  \/ /\ thread[c].ticker \in {"ticking", "killed"}
     /\ toController[c] = <<>>
     /\ Reply(c, Packet(IF thread[c].at \in {"resolving", "resolved"}
                        THEN "resolve_progress" ELSE "open_progress"))
     /\ thread' = [thread EXCEPT ![c].ticker = IF @ = "killed" THEN "none" ELSE @]
     /\ UNCHANGED <<loopVars, active, disk, toServer, ctl>>
  \/ /\ thread[c].ticker = "killed"
     /\ thread' = [thread EXCEPT ![c].ticker = "none"]
     /\ UNCHANGED <<loopVars, active, disk, toServer, toController, ctl>>

CloseLog(c) ==
  /\ Requested(c, "close")
  /\ Take(c)
  /\ thread' = [thread EXCEPT ![c].at = "loop", ![c].capture = "none"]
  /\ UNCHANGED <<loopVars, active, disk, toController, ctl>>

\* A command for the replay proxy: not answered when there is none, and the
\* end of the connection when it cannot be read or answered.
ProxyTick(c) ==
  /\ Requested(c, "proxy")
  /\ Take(c)
  /\ \/ /\ thread[c].capture = "open"
        /\ Reply(c, Packet("proxy"))
        /\ thread' = [thread EXCEPT ![c].at = "loop"]
     \/ /\ thread[c].capture = "open"
        /\ ctl[c].at = "gone"
        /\ thread' = [thread EXCEPT ![c].at = "ending"]
        /\ UNCHANGED toController
     \/ /\ thread[c].capture # "open"
        /\ thread' = [thread EXCEPT ![c].at = "loop"]
        /\ UNCHANGED toController
  /\ UNCHANGED <<loopVars, active, disk, ctl>>

\* The capture is closed and the temporary files are deleted.
DeleteFiles(c) ==
  /\ disk' = disk \ thread[c].tempFiles
  /\ thread' = [thread EXCEPT ![c].at = "closing", ![c].capture = "none", ![c].tempFiles = {}]
  /\ UNCHANGED toServer

\* The socket is deleted, which is what the accept loop takes for the end.
DeleteSocket(c) ==
  /\ thread' = [thread EXCEPT ![c].at = "done", ![c].captureNum = 0]
  /\ toServer' = [toServer EXCEPT ![c] = <<>>]
  /\ UNCHANGED disk

\* Slip: the socket goes first, and the temporary files are left to be deleted.
SlipThreadEnds(c) ==
  /\ \/ /\ thread[c].at = "ending"
        /\ thread' = [thread EXCEPT ![c].at = "done", ![c].capture = "none", ![c].captureNum = 0]
        /\ toServer' = [toServer EXCEPT ![c] = <<>>]
        /\ UNCHANGED disk
     \/ /\ thread[c].at = "done"
        /\ disk' = disk \ thread[c].tempFiles
        /\ thread' = [thread EXCEPT ![c].tempFiles = {}]
        /\ UNCHANGED toServer
  /\ UNCHANGED <<loopVars, active, toController, ctl>>

ThreadEnds(c) ==
  /\ \/ thread[c].at = "ending" /\ DeleteFiles(c)
     \/ thread[c].at = "closing" /\ DeleteSocket(c)
  /\ UNCHANGED <<loopVars, active, toController, ctl>>

ClientThread(c) ==
  \/ HandleHandshakeClient(c) \/ LoopHead(c) \/ ReadFails(c) \/ Query(c)
  \/ CopyCaptureToRemote(c) \/ ShutdownServer(c)
  \/ OpenLog(c) \/ OpenEnds(c) \/ LogOpened(c)
  \/ InitResolver(c) \/ MakeResolver(c) \/ Resolved(c)
  \/ CloseLog(c) \/ ProxyTick(c) \/ ThreadEnds(c)

-----------------------------------------------------------------------------
(* The controller at the other end of connection c.                          *)

\* The handshake is sent as the connection is made: to become active, to check
\* that a server is there, or with the version of another release.
Handshakes == {"active", "check", "mismatch"}

CreateRemoteServerConnection(c) ==
  /\ ctl[c].at = "none"
  /\ \A d \in 1..(c - 1) : ctl[d].at # "none"
  /\ serve \notin {"gone", "failed"}
  /\ backlog' = Append(backlog, c)
  /\ \E wants \in Handshakes :
       /\ toServer' = [toServer EXCEPT ![c] = <<wants>>]
       /\ ctl' = [ctl EXCEPT ![c].at = "greeting", ![c].asked = wants]
  /\ UNCHANGED <<serve, hand, clients, active, thread, disk, toController>>

\* Requests whose answer is awaited, and those that have none.
Answered(c) ==
  {"query", "resolve", "shutdown"} \cup
  (IF ctl[c].has THEN {"proxy"} ELSE {"open"}) \cup
  (IF thread[c].captureNum < MaxCopies THEN {"copy"} ELSE {})
Unanswered(c) == IF ctl[c].has THEN {"close"} ELSE {}

Ask(c) ==
  /\ ctl[c].at = "idle"
  /\ Len(toServer[c]) < 2
  /\ \/ \E kind \in Answered(c) \cap Requests[c] :
          /\ toServer' = [toServer EXCEPT ![c] = Append(@, kind)]
          /\ ctl' = [ctl EXCEPT ![c].at = "waiting", ![c].asked = kind]
     \/ \E kind \in Unanswered(c) \cap Requests[c] :
          /\ toServer' = [toServer EXCEPT ![c] = Append(@, kind)]
          /\ ctl' = [ctl EXCEPT ![c].has = FALSE]
  /\ UNCHANGED <<loopVars, active, thread, disk, toController>>

\* The connection is deleted, and with it what the controller knew.
Gone(c) == [ctl[c] EXCEPT !.at = "gone", !.asked = "none", !.has = FALSE]

\* The answer to a request.  A capture that opened on the server may still not
\* get a proxy driver here, and then there is nothing to close it with.
Understand(c, p) ==
  IF p.kind = "handshake" /\ ctl[c].asked = "active"
  THEN {[ctl[c] EXCEPT !.at = "idle", !.asked = "none"]}
  ELSE CASE p.kind \in {"handshake", "busy", "mismatch", "shutdown"} -> {Gone(c)}
         [] p.kind \in {"open_progress", "resolve_progress"} -> {ctl[c]}
         [] p.kind = "open" -> {[ctl[c] EXCEPT !.at = "idle", !.asked = "none", !.has = has] :
                                  has \in {FALSE, p.ok}}
         [] OTHER -> {[ctl[c] EXCEPT !.at = "idle", !.asked = "none"]}

Receive(c) ==
  /\ ctl[c].at \in {"greeting", "waiting"}
  /\ toController[c] # <<>>
  /\ \E state \in Understand(c, Head(toController[c])) :
       /\ ctl' = [ctl EXCEPT ![c] = state]
       /\ toController' = [toController EXCEPT ![c] = IF state.at = "gone" THEN <<>> ELSE Tail(@)]
  /\ UNCHANGED <<loopVars, active, thread, disk, toServer>>

\* The controller disconnects, crashes, or gives up waiting.
Disconnect(c) ==
  /\ ctl[c].at \in {"greeting", "idle", "waiting"}
  /\ ctl' = [ctl EXCEPT ![c] = Gone(c)]
  /\ toController' = [toController EXCEPT ![c] = <<>>]
  /\ UNCHANGED <<loopVars, active, thread, disk, toServer>>

Controller(c) == CreateRemoteServerConnection(c) \/ Ask(c) \/ Receive(c) \/ Disconnect(c)

Next ==
  \/ ServerLoop \/ KillReplay \/ AcceptFails
  \/ \E c \in Conns : ClientThread(c) \/ Ticker(c) \/ Controller(c)

Spec == Init /\ [][Next]_vars

\* The scheduler runs the accept loop, the threads and their tickers, a read
\* returns within its timeout, and so do the driver and the resolver.  What a
\* controller does, nobody can count on.
FairSpec ==
  /\ Spec
  /\ WF_vars(ServerLoop)
  /\ \A c \in Conns : WF_vars(ClientThread(c)) /\ WF_vars(Ticker(c))

-----------------------------------------------------------------------------
(* Properties.                                                               *)

Replies == {"query", "copy", "shutdown", "open", "resolve", "proxy", "open_progress",
            "resolve_progress", "handshake", "busy", "mismatch"}

ThreadState ==
  [at : Working \cup {"none", "hello", "ending", "closing", "done"},
   killThread : BOOLEAN, killServer : BOOLEAN,
   ticker : {"none", "ticking", "killed"},
   capture : {"none", "file", "open"},
   tempFiles : SUBSET Files, captureNum : 0..MaxCopies]

ControllerState ==
  [at : {"none", "greeting", "idle", "waiting", "gone"},
   asked : Handshakes \cup Kinds \cup {"none"}, has : BOOLEAN]

\* Type invariant: a connection is in one place on its way to a thread, and the
\* accept loop knows every thread that runs, until an accept fails: it joins them
\* all before the active slot, a local of its own that they use, goes out of scope.
TypeOK ==
  /\ serve \in {"accept", "reap", "end", "join", "gone", "failed"}
  /\ hand \in 0..MaxConns
  /\ hand # 0 => thread[hand].at = "none" /\ hand \notin Elems(backlog)
  /\ backlog \in Seq(Conns) /\ Len(backlog) = Cardinality(Elems(backlog))
  /\ clients \in Seq(Conns) /\ Len(clients) = Cardinality(Elems(clients))
  /\ \A c \in Conns :
       serve # "failed" /\ thread[c].at \notin {"none", "done"} => c \in Elems(clients)
  /\ active \in 0..MaxConns
  /\ thread \in [Conns -> ThreadState]
  /\ disk \subseteq Files
  /\ \A c \in Conns :
       /\ toServer[c] \in Seq(Handshakes \cup Kinds)
       /\ toController[c] \in Seq([kind : Replies, ok : BOOLEAN])
  /\ ctl \in [Conns -> ControllerState]

\* One connection is active: a thread in the request loop that has not been
\* told to stop is the one the slot names, whatever threads are reaped,
\* promoted or killed meanwhile (remote_server.cpp:255, 1206, 1278).  There is no
\* slot any more when a failed accept has ended the server under its threads.
OneActive ==
  \A c \in Conns :
    serve # "failed" /\ thread[c].at \in Working /\ ~thread[c].killThread => active = c

\* Both ends stay in step on a connection: the next packet a controller reads
\* answers its last request, and no progress report is left behind by the
\* second thread that writes to the socket; a command for the proxy finds the
\* capture open (remote_server.cpp:577, 1043, 1802).
InStep ==
  \A c \in Conns :
    /\ toController[c] # <<>> =>
         LET kind == Head(toController[c]).kind IN
         \/ ctl[c].at = "greeting" /\ kind \in {"handshake", "busy", "mismatch"}
         \/ ctl[c].at = "waiting" /\ kind = ctl[c].asked
         \/ ctl[c].at = "waiting" /\ kind = "open_progress" /\ ctl[c].asked = "open"
         \/ ctl[c].at = "waiting" /\ kind = "resolve_progress" /\ ctl[c].asked = "resolve"
    /\ Requested(c, "proxy") => thread[c].capture = "open"

\* The capture files copied to the server are those of the threads that live:
\* none is left behind, and none is deleted under the thread that copied it,
\* though every connection numbers its files from 0.  The second half does not
\* hold while the server shuts down, or after a failed accept: a connection promoted
\* then may copy to the path that another thread is about to delete.
FilesHeld ==
  /\ \A f \in disk : \E c \in Conns : thread[c].at # "done" /\ f \in thread[c].tempFiles
  /\ \A c \in Conns : serve \notin {"join", "failed"} => thread[c].tempFiles \subseteq disk

\* The slot of a thread that ended is freed, so that the next controller can
\* become active.
SlotReaped ==
  (active # 0 /\ thread[active].at = "done")
    ~> (active = 0 \/ thread[active].at # "done" \/ serve \in {"join", "gone"})

\* InitResolver waits for ever for its ticker: there is no resolver to stop it.
Stuck(c) == thread[c].at = "resolved" /\ thread[c].ticker = "ticking"

\* The thread that was asked to shut the server down ended, and was reaped,
\* between the look at the active thread and the reaping of the same turn.
Forgotten ==
  \E c \in Conns : thread[c].killServer /\ c \notin Elems(clients) /\ serve \in {"accept", "reap"}

\* A connection whose handshake comes after the active thread was killed is
\* promoted, and the server waits for its controller to leave.
LatePromotion == serve = "join" /\ active # 0

\* A server that was asked to shut down returns, except in those three cases.
ShutdownHonoured ==
  (\E c \in Conns : thread[c].killServer)
    ~> (serve \in {"gone", "failed"} \/ Forgotten \/ LatePromotion \/ \E c \in Conns : Stuck(c))

=============================================================================
