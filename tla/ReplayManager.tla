--------------------------- MODULE ReplayManager ---------------------------
(***************************************************************************)
(* The replay manager, qrenderdoc/Code/ReplayManager.cpp: a thread that    *)
(* owns the replay controller of the open capture and runs the commands    *)
(* other threads put on a queue, and the connection to a remote server     *)
(* that the capture may be replayed on.                                    *)
(*                                                                         *)
(* The UI thread opens, closes, connects and disconnects, and invokes like *)
(* any other caller; the thread that loads a capture while the UI shows a  *)
(* modal dialog is part of it.  What a command does on the controller is   *)
(* left out, except the replay loop, which runs until it is cancelled.     *)
(* A step is one lock section, or one access to what another thread may    *)
(* change; m_Thread, isRunning and m_Running are looked at together.       *)
(***************************************************************************)
EXTENDS Sublists

CONSTANTS
  Callers,      \* the threads that invoke commands
  UI,           \* the one that opens and closes captures
  Tags,         \* tags of asynchronous commands
  NoTag,        \* the empty tag
  MaxCommands,  \* bound: commands made
  MaxOpens,     \* bound: captures opened
  MaxConns      \* bound: connections made

ASSUME ReplayAssumption ==
  /\ UI \in Callers
  /\ NoTag \notin Tags
  /\ {MaxCommands, MaxOpens, MaxConns} \subseteq Nat

VARIABLES
  m_Running,
  m_Thread,      \* "none" (NULL), "live" or "ended" (isRunning)
  m_RenderQueue,
  m_Remote, m_OrphanedRemote,  \* a connection, or 0 for NULL
  conn,          \* per connection: "unused", "alive" or "deleted"
  connecting,    \* the thread that connects is under way
  m_ReplayLoopCancel, m_ReplayLoopFinished,
  host,          \* the connection m_Renderer replays on, 0 for this machine
  run,           \* the replay thread's control point
  cur,           \* the command it has taken, 0 for none
  cmd,           \* per command: the InvokeHandle, the capture it was accepted for, and
                 \* whether it was queued after the queue of that capture was drained
  pc, mine,      \* per caller: control point, and the command it is pushing
  opens          \* captures opened so far

threadVars  == <<m_Running, m_Thread>>
remoteVars  == <<m_Remote, m_OrphanedRemote, conn, connecting>>
loopVars    == <<m_ReplayLoopCancel, m_ReplayLoopFinished>>
replayVars  == <<run, cur, host>>
queueVars   == <<m_RenderQueue, cmd>>
callerVars  == <<pc, mine>>
vars == <<threadVars, remoteVars, loopVars, replayVars, queueVars, callerVars, opens>>

Commands == 1..MaxCommands
Conns    == 1..MaxConns
Kinds    == {"async", "block", "loop"}

\* The replay thread is inside the command loop and has not drained the queue.
Serving  == {"loop", "take", "exec", "looping", "finish", "drain"}

IsRunning == m_Thread = "live" /\ m_Running

Elems(s) == {s[i] : i \in 1..Len(s)}

Blank(st) == [kind |-> "async", tag |-> NoTag, for |-> 0, late |-> FALSE, st |-> st]

Init ==
  /\ m_Running = FALSE
  /\ m_Thread = "none"
  /\ m_RenderQueue = <<>>
  /\ m_Remote = 0
  /\ m_OrphanedRemote = 0
  /\ conn = [r \in Conns |-> "unused"]
  /\ connecting = FALSE
  /\ m_ReplayLoopCancel = FALSE
  /\ m_ReplayLoopFinished = FALSE
  /\ host = 0
  /\ run = "none"
  /\ cur = 0
  /\ cmd = [c \in Commands |-> Blank("unused")]
  /\ pc = [t \in Callers |-> "idle"]
  /\ mine = [t \in Callers |-> 0]
  /\ opens = 0

-----------------------------------------------------------------------------
(* Callers: AsyncInvoke, BlockInvoke and PushInvoke.                         *)

\* Deleting an asynchronous command, releasing the caller of a blocking one.
Settled(c) ==
  IF cmd[c].kind = "block" THEN [cmd[c] EXCEPT !.st = "released"] ELSE Blank("freed")

\* Slip: an empty tag is taken for a tag.
SlipSameTag(tag) == {c \in Elems(m_RenderQueue) : cmd[c].tag = tag}

\* The commands an AsyncInvoke with a tag removes from the queue.
SameTag(tag) == {c \in Elems(m_RenderQueue) : tag # NoTag /\ cmd[c].tag = tag}

NewCommand(t, kind, tag) ==
  \E c \in Commands :
    /\ cmd[c].st = "unused"
    /\ \A d \in 1..(c - 1) : cmd[d].st # "unused"
    /\ mine' = [mine EXCEPT ![t] = c]
    /\ pc' = [pc EXCEPT ![t] = "check"]
    /\ cmd' = [d \in Commands |->
         IF d = c THEN [kind |-> kind, tag |-> tag, for |-> 0, late |-> FALSE, st |-> "held"]
         ELSE IF d \in SameTag(tag) THEN Blank("freed")
         ELSE cmd[d]]
    /\ m_RenderQueue' = Sublist(m_RenderQueue, {i \in 1..Len(m_RenderQueue) : m_RenderQueue[i] \notin SameTag(tag)})

AsyncInvoke(t, tag) ==
  /\ pc[t] = "idle"
  /\ NewCommand(t, "async", tag)
  /\ UNCHANGED <<threadVars, remoteVars, loopVars, replayVars, opens>>

\* On the replay thread itself the method is called at once: part of the
\* command that does so.
BlockInvoke(t) ==
  /\ pc[t] = "idle"
  /\ NewCommand(t, "block", NoTag)
  /\ UNCHANGED <<threadVars, remoteVars, loopVars, replayVars, opens>>

\* The menu entry that shows the replay loop: queue the command, show a dialog.
StartReplayLoop ==
  /\ pc[UI] = "idle"
  /\ IsRunning
  /\ NewCommand(UI, "loop", NoTag)
  /\ UNCHANGED <<threadVars, remoteVars, loopVars, replayVars, opens>>

AfterPush(c) ==
  CASE cmd[c].kind = "block" -> "wait"
    [] cmd[c].kind = "loop"  -> "dialog"
    [] OTHER                 -> "idle"

\* Slip: a blocking command is refused without releasing its caller.
SlipPushCheck(t) ==
  /\ pc[t] = "check"
  /\ LET c == mine[t] IN
     IF IsRunning
     THEN /\ pc' = [pc EXCEPT ![t] = "push"]
          /\ cmd' = [cmd EXCEPT ![c].for = opens]
          /\ UNCHANGED mine
     ELSE /\ cmd' = [cmd EXCEPT ![c] = IF cmd[c].kind = "block" THEN @ ELSE Blank("freed")]
          /\ pc' = [pc EXCEPT ![t] = AfterPush(c)]
          /\ mine' = [mine EXCEPT ![t] = IF cmd[c].kind = "block" THEN c ELSE 0]
  /\ UNCHANGED <<threadVars, remoteVars, loopVars, replayVars, m_RenderQueue, opens>>

\* Where a caller goes with a command the manager refused: a blocking one
\* finds its semaphore released, the loop's dialog is shown all the same.
PushCheck(t) ==
  /\ pc[t] = "check"
  /\ LET c == mine[t] IN
     IF IsRunning
     THEN /\ pc' = [pc EXCEPT ![t] = "push"]
          /\ cmd' = [cmd EXCEPT ![c].for = opens]
          /\ UNCHANGED mine
     ELSE /\ cmd' = [cmd EXCEPT ![c] = Settled(c)]
          /\ pc' = [pc EXCEPT ![t] = AfterPush(c)]
          /\ mine' = [mine EXCEPT ![t] = IF cmd[c].kind = "block" THEN c ELSE 0]
  /\ UNCHANGED <<threadVars, remoteVars, loopVars, replayVars, m_RenderQueue, opens>>

\* Nothing is looked at again under the lock: the loop may have ended since.
PushInvoke(t) ==
  /\ pc[t] = "push"
  /\ LET c == mine[t] IN
     /\ m_RenderQueue' = Append(m_RenderQueue, c)
     /\ cmd' = [cmd EXCEPT ![c].st = "queued",
                            ![c].late = run \notin Serving \/ cmd[c].for # opens]
     /\ pc' = [pc EXCEPT ![t] = AfterPush(c)]
     /\ mine' = [mine EXCEPT ![t] = IF cmd[c].kind = "block" THEN c ELSE 0]
  /\ UNCHANGED <<threadVars, remoteVars, loopVars, replayVars, opens>>

\* cmd->processed.acquire() and delete.
BlockReturn(t) ==
  /\ pc[t] = "wait"
  /\ cmd[mine[t]].st = "released"
  /\ cmd' = [cmd EXCEPT ![mine[t]] = Blank("freed")]
  /\ pc' = [pc EXCEPT ![t] = "idle"]
  /\ mine' = [mine EXCEPT ![t] = 0]
  /\ UNCHANGED <<threadVars, remoteVars, loopVars, replayVars, m_RenderQueue, opens>>

-----------------------------------------------------------------------------
(* The UI thread.                                                            *)

\* CancelReplayLoop, called when the dialog closes and once more after it.
CancelReplayLoop ==
  /\ pc[UI] \in {"dialog", "dialog closed"}
  /\ m_ReplayLoopCancel' = TRUE
  /\ pc' = [pc EXCEPT ![UI] = IF @ = "dialog" THEN "cancel" ELSE "cancel again"]
  /\ UNCHANGED <<threadVars, remoteVars, m_ReplayLoopFinished, replayVars, queueVars, mine, opens>>

CancelReturn ==
  /\ pc[UI] \in {"cancel", "cancel again"}
  /\ m_ReplayLoopFinished
  /\ pc' = [pc EXCEPT ![UI] = IF @ = "cancel" THEN "dialog closed" ELSE "idle"]
  /\ UNCHANGED <<threadVars, remoteVars, loopVars, replayVars, queueVars, mine, opens>>

OpenCapture ==
  /\ pc[UI] = "idle"
  /\ ~m_Running
  /\ opens < MaxOpens
  /\ opens' = opens + 1
  /\ m_Thread' = "live"
  /\ run' = "opening"
  /\ pc' = [pc EXCEPT ![UI] = "open"]
  /\ UNCHANGED <<m_Running, remoteVars, loopVars, cur, host, queueVars, mine>>

OpenReturn ==
  /\ pc[UI] = "open"
  /\ m_Thread # "live" \/ m_Running
  /\ pc' = [pc EXCEPT ![UI] = "idle"]
  /\ UNCHANGED <<threadVars, remoteVars, loopVars, replayVars, queueVars, mine, opens>>

CloseThread ==
  /\ pc[UI] = "idle"
  /\ m_Thread # "none"
  /\ m_Running' = FALSE
  /\ pc' = [pc EXCEPT ![UI] = "close"]
  /\ UNCHANGED <<m_Thread, remoteVars, loopVars, replayVars, queueVars, mine, opens>>

CloseReturn ==
  /\ pc[UI] = "close"
  /\ m_Thread = "ended"
  /\ m_Thread' = "none"
  /\ pc' = [pc EXCEPT ![UI] = "idle"]
  /\ UNCHANGED <<m_Running, remoteVars, loopVars, replayVars, queueVars, mine, opens>>

\* Choosing a remote host: the capture has been closed and the last connection
\* given up; another thread connects, and the UI does not wait for it.
StartConnecting ==
  /\ pc[UI] = "idle"
  /\ m_Thread = "none"
  /\ m_Remote = 0
  /\ ~connecting
  /\ \E r \in Conns : conn[r] = "unused"
  /\ connecting' = TRUE
  /\ UNCHANGED <<threadVars, m_Remote, m_OrphanedRemote, conn, loopVars, replayVars, queueVars,
                 callerVars, opens>>

ConnectToRemoteServer ==
  /\ connecting
  /\ connecting' = FALSE
  /\ \/ UNCHANGED <<m_Remote, conn>>
     \/ \E r \in Conns :
          /\ conn[r] = "unused"
          /\ m_Remote' = r
          /\ conn' = [conn EXCEPT ![r] = "alive"]
  /\ UNCHANGED <<threadVars, m_OrphanedRemote, loopVars, replayVars, queueVars, callerVars, opens>>

\* Slip: the connection is shut down whether or not a capture is open on it.
SlipDisconnectFromRemoteServer ==
  /\ pc[UI] = "idle"
  /\ m_Remote # 0
  /\ conn' = [conn EXCEPT ![m_Remote] = "deleted"]
  /\ m_Remote' = 0
  /\ UNCHANGED <<threadVars, m_OrphanedRemote, connecting, loopVars, replayVars, queueVars,
                 callerVars, opens>>

DisconnectFromRemoteServer ==
  /\ pc[UI] = "idle"
  /\ m_Remote # 0
  /\ IF IsRunning
     THEN m_OrphanedRemote' = m_Remote /\ UNCHANGED conn
     ELSE conn' = [conn EXCEPT ![m_Remote] = "deleted"] /\ UNCHANGED m_OrphanedRemote
  /\ m_Remote' = 0
  /\ UNCHANGED <<threadVars, connecting, loopVars, replayVars, queueVars, callerVars, opens>>

\* Asked for in the list of remote hosts, whether or not a capture is open.
ShutdownServer ==
  /\ pc[UI] = "idle"
  /\ m_Remote # 0
  /\ conn' = [conn EXCEPT ![m_Remote] = "shut down"]
  /\ m_Remote' = 0
  /\ UNCHANGED <<threadVars, m_OrphanedRemote, connecting, loopVars, replayVars, queueVars,
                 callerVars, opens>>

\* GetHomeFolder and ListFolder: only the replay thread is sent to the queue
\* (or, from there, called at once); any other thread uses the connection itself.
ListFolder ==
  /\ pc[UI] = "idle"
  /\ m_Remote # 0
  /\ pc' = [pc EXCEPT ![UI] = "list"]
  /\ UNCHANGED <<threadVars, remoteVars, loopVars, replayVars, queueVars, mine, opens>>

ListReturn ==
  /\ pc[UI] = "list"
  /\ pc' = [pc EXCEPT ![UI] = "idle"]
  /\ UNCHANGED <<threadVars, remoteVars, loopVars, replayVars, queueVars, mine, opens>>

-----------------------------------------------------------------------------
(* The replay thread: run.                                                   *)

\* The capture is opened on the connection if there is one, or on this machine.
RunOpen ==
  /\ run = "opening"
  /\ \/ /\ run' = "loop"
        /\ host' = m_Remote
        /\ m_Running' = TRUE
        /\ m_ReplayLoopCancel' = FALSE
        /\ m_ReplayLoopFinished' = FALSE
        /\ UNCHANGED m_Thread
     \/ /\ run' = "none"
        /\ m_Thread' = "ended"
        /\ UNCHANGED <<m_Running, host, loopVars>>
  /\ UNCHANGED <<remoteVars, cur, queueVars, callerVars, opens>>

RunTest ==
  /\ run = "loop"
  /\ run' = IF m_Running THEN "take" ELSE "drain"
  /\ UNCHANGED <<threadVars, remoteVars, loopVars, cur, host, queueVars, callerVars, opens>>

\* Slip: the newest command is taken.
SlipRunTake ==
  /\ run = "take"
  /\ IF m_RenderQueue = <<>>
     THEN run' = "loop" /\ UNCHANGED <<cur, m_RenderQueue, cmd>>
     ELSE /\ run' = "exec"
          /\ cur' = m_RenderQueue[Len(m_RenderQueue)]
          /\ m_RenderQueue' = SubSeq(m_RenderQueue, 1, Len(m_RenderQueue) - 1)
          /\ cmd' = [cmd EXCEPT ![cur'].st = "running"]
  /\ UNCHANGED <<threadVars, remoteVars, loopVars, host, callerVars, opens>>

\* An empty queue is waited on for 10 ms and looked at once more.
RunTake ==
  /\ run = "take"
  /\ IF m_RenderQueue = <<>>
     THEN run' = "loop" /\ UNCHANGED <<cur, m_RenderQueue, cmd>>
     ELSE /\ run' = "exec"
          /\ cur' = Head(m_RenderQueue)
          /\ m_RenderQueue' = Tail(m_RenderQueue)
          /\ cmd' = [cmd EXCEPT ![cur'].st = "running"]
  /\ UNCHANGED <<threadVars, remoteVars, loopVars, host, callerVars, opens>>

\* ReplayController::ReplayLoop forgets a cancellation that came before it.
RunMethod ==
  /\ run = "exec"
  /\ IF cmd[cur].kind = "loop"
     THEN /\ run' = "looping"
          /\ m_ReplayLoopCancel' = FALSE
          /\ m_ReplayLoopFinished' = FALSE
     ELSE run' = "finish" /\ UNCHANGED loopVars
  /\ UNCHANGED <<threadVars, remoteVars, cur, host, queueVars, callerVars, opens>>

RunLoopEnds ==
  /\ run = "looping"
  /\ m_ReplayLoopCancel
  /\ m_ReplayLoopFinished' = TRUE
  /\ run' = "finish"
  /\ UNCHANGED <<threadVars, remoteVars, m_ReplayLoopCancel, cur, host, queueVars, callerVars, opens>>

RunFinish ==
  /\ run = "finish"
  /\ cmd' = [cmd EXCEPT ![cur] = Settled(cur)]
  /\ cur' = 0
  /\ run' = "loop"
  /\ UNCHANGED <<threadVars, remoteVars, loopVars, host, m_RenderQueue, callerVars, opens>>

\* Slip: only the commands nobody waits for are cleaned up.
SlipRunDrain ==
  /\ run = "drain"
  /\ cmd' = [c \in Commands |->
               IF c \in Elems(m_RenderQueue) /\ cmd[c].kind # "block"
               THEN Blank("freed") ELSE cmd[c]]
  /\ m_RenderQueue' = Sublist(m_RenderQueue, {i \in 1..Len(m_RenderQueue) : cmd[m_RenderQueue[i]].kind = "block"})
  /\ run' = "shut"
  /\ UNCHANGED <<threadVars, remoteVars, loopVars, cur, host, callerVars, opens>>

RunDrain ==
  /\ run = "drain"
  /\ cmd' = [c \in Commands |->
               IF c \in Elems(m_RenderQueue) THEN Settled(c) ELSE cmd[c]]
  /\ m_RenderQueue' = <<>>
  /\ run' = "shut"
  /\ UNCHANGED <<threadVars, remoteVars, loopVars, cur, host, callerVars, opens>>

\* An orphaned connection closes the capture and is shut down; otherwise the
\* capture is closed on m_Remote, or on this machine, and m_Remote is kept.
RunShut ==
  /\ run = "shut"
  /\ conn' = [r \in Conns |-> IF r = m_OrphanedRemote THEN "deleted" ELSE conn[r]]
  /\ m_OrphanedRemote' = 0
  /\ host' = 0
  /\ m_Thread' = "ended"
  /\ run' = "none"
  /\ UNCHANGED <<m_Running, m_Remote, connecting, loopVars, cur, queueVars, callerVars, opens>>

Replay ==
  \/ RunOpen \/ RunTest \/ RunTake \/ RunMethod \/ RunLoopEnds \/ RunFinish \/ RunDrain \/ RunShut

Caller(t) == PushCheck(t) \/ PushInvoke(t) \/ BlockReturn(t)

Interface ==
  CancelReplayLoop \/ CancelReturn \/ OpenReturn \/ CloseReturn \/ ListReturn

Next ==
  \/ Replay
  \/ \E t \in Callers : Caller(t) \/ BlockInvoke(t) \/ \E tag \in Tags \cup {NoTag} : AsyncInvoke(t, tag)
  \/ Interface
  \/ StartReplayLoop \/ OpenCapture \/ CloseThread
  \/ StartConnecting \/ ConnectToRemoteServer \/ DisconnectFromRemoteServer \/ ShutdownServer
  \/ ListFolder

Spec == Init /\ [][Next]_vars

\* Threads run; the method of a command returns, unless it is the loop; the
\* user closes the loop's dialog.  Nobody has to open, close or invoke.
Fairness ==
  /\ WF_vars(Replay)
  /\ \A t \in Callers : WF_vars(Caller(t))
  /\ WF_vars(Interface)

FairSpec == Spec /\ Fairness

-----------------------------------------------------------------------------
(* Properties.                                                               *)

\* Types, and m_Thread: live exactly while the replay thread has a control point.
TypeOK ==
  /\ m_Thread = "live" <=> run # "none"
  /\ m_Running \in BOOLEAN
  /\ m_Thread \in {"none", "live", "ended"}
  /\ m_RenderQueue \in Seq(Commands)
  /\ {m_Remote, m_OrphanedRemote, host} \subseteq Conns \cup {0}
  /\ conn \in [Conns -> {"unused", "alive", "deleted", "shut down"}]
  /\ {connecting, m_ReplayLoopCancel, m_ReplayLoopFinished} \subseteq BOOLEAN
  /\ run \in {"none", "opening", "shut"} \cup Serving
  /\ cur \in Commands \cup {0}
  /\ cmd \in [Commands -> [kind : Kinds, tag : Tags \cup {NoTag}, for : 0..MaxOpens,
                           late : BOOLEAN, st : {"unused", "held", "queued", "running", "released", "freed"}]]
  /\ pc \in [Callers -> {"idle", "check", "push", "wait", "open", "close", "list", "dialog",
                         "dialog closed", "cancel", "cancel again"}]
  /\ mine \in [Callers -> Commands \cup {0}]
  /\ opens \in 0..MaxOpens

\* A command is owned by one party at a time: whatever waits in the queue, is
\* being run or is waited for by its caller has not been deleted, is not in the
\* queue twice, and an asynchronous one is not forgotten without being deleted.
OneOwner ==
  /\ \A i, j \in 1..Len(m_RenderQueue) :
       /\ cmd[m_RenderQueue[i]].st = "queued"
       /\ m_RenderQueue[i] = m_RenderQueue[j] => i = j
  /\ \A c \in Commands :
       /\ cmd[c].st = "queued" => c \in Elems(m_RenderQueue)
       /\ cmd[c].st = "running" <=> c = cur
       /\ cmd[c].st = "held" => \E t \in Callers : mine[t] = c /\ pc[t] \in {"check", "push"}
       /\ cmd[c].st = "released" => \E t \in Callers : mine[t] = c /\ pc[t] = "wait"
  /\ \A t \in Callers : pc[t] = "wait" => cmd[mine[t]].st \in {"queued", "running", "released"}

\* The controller of a capture outlives neither the connection it replays on,
\* which ReplayManager.cpp:365 says is tied to it, nor its thread: the
\* connection is deleted after the capture was closed on it, unless the user
\* shut the server down meanwhile.
RemoteOutlivesController ==
  host # 0 => conn[host] \in {"alive", "shut down"} /\ run \in Serving \cup {"shut"}

\* A command runs on the controller of the capture it was made for: none that
\* was queued while the loop still ran is left for the next capture to run.
RunsOnItsCapture ==
  cur # 0 => cmd[cur].for = opens \/ cmd[cur].late

\* A caller that waits for a command the loop will never take: the gap between
\* the look at m_Running and the lock in PushInvoke (ReplayManager.cpp:437-446).
Stranded(t) == pc[t] = "wait" /\ cmd[mine[t]].late /\ cmd[mine[t]].st = "queued"

\* A replay loop that nobody will cancel: it started after the cancellation.
LoopLost ==
  run = "looping" /\ ~m_ReplayLoopCancel /\ pc[UI] \notin {"dialog", "dialog closed"}

\* BlockInvoke returns: the command is run, refused or cleaned up, and its caller
\* released, unless it fell into the gap or waits behind a loop nobody cancels.
\* CloseThread, which spins until the replay thread has ended, returns, and with
\* it the UI; so does OpenCapture.
CallsReturn ==
  /\ \A t \in Callers : pc[t] = "wait" ~> (pc[t] # "wait" \/ Stranded(t) \/ LoopLost)
  /\ pc[UI] \in {"open", "close"} ~> (pc[UI] \notin {"open", "close"} \/ LoopLost)

Outcome(c) ==
  CASE cmd[c].st \in {"unused", "held"} -> "new"
    [] cmd[c].st = "queued"             -> "waiting"
    [] cmd[c].st = "running"            -> "running"
    [] OTHER                            -> "settled"

Promise == INSTANCE CommandQueue WITH
  waiting <- [i \in 1..Len(m_RenderQueue) |->
                [cmd |-> m_RenderQueue[i], tag |-> cmd[m_RenderQueue[i]].tag]],
  outcome <- [c \in Commands |-> Outcome(c)],
  open    <- run \in Serving

\* The queue, its lock and the replay thread implement the promise: first come
\* first run, one at a time, preempted by tag only, nothing kept by a close.
RefinesQueue == Promise!Spec

=============================================================================
