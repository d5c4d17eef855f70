----------------------------- MODULE McpWorker -----------------------------
(***************************************************************************)
(* A replay session of the MCP server, src/tools/renderdoc-mcp: the worker *)
(* process that owns the native replay controller, the Worker object that  *)
(* sends it one operation at a time (supervisor/process.py), the session   *)
(* that clients query and close (supervisor/service.py), and the request   *)
(* tasks of the stdio server, which a client may cancel.                   *)
(*                                                                         *)
(* All but the process run in one event loop: a step is what is done       *)
(* between two awaits.  Operations and results are left out, but for the   *)
(* shutdown that closing a worker sends.                                   *)
(***************************************************************************)
EXTENDS Integers, Sequences

CONSTANT MaxRequests   \* bound: requests a client makes

ASSUME WorkerAssumption == MaxRequests \in Nat

Requests == 1..MaxRequests

\* The service closes its workers at the end as a request closes a session.
Service == MaxRequests + 1
Tasks   == 1..Service

VARIABLES
  request,      \* per task: how far the await of the client, or the close, is
  closes,       \* the tasks that run Worker.close
  op,           \* per task: its invoke
  lock,         \* the task that holds Worker.lock, 0 for none
  lockQueue,    \* tasks that wait for it, in order
  closing,      \* Worker.closing
  session,      \* "ready", "closing", or "deleted" from Service.sessions
  known,        \* the worker is in Service.workers
  reader,       \* "reading" or "ended": read_messages
  inbox, outbox,  \* operations sent to the process, results it sent
  native,       \* the operation it executes, 0 for none
  process,      \* "serving", "leaving", "closed" (its socket) or "dead" (returncode)
  service       \* "open", "draining" (end of stdin), "closing" or "closed"

clientVars  == <<request, closes>>
invokeVars  == <<op, lock, lockQueue>>
sessionVars == <<closing, session, known>>
nativeVars  == <<inbox, outbox, native, process>>
vars == <<clientVars, invokeVars, sessionVars, reader, nativeVars, service>>

Elems(s) == {s[i] : i \in 1..Len(s)}

\* x is in s once at most; s without its first x.
Once(s, x) == \A i, j \in 1..Len(s) : s[i] = x /\ s[j] = x => i = j

Without(s, x) ==
  IF x \notin Elems(s) THEN s
  ELSE LET i == CHOOSE i \in 1..Len(s) : s[i] = x
       IN SubSeq(s, 1, i - 1) \o SubSeq(s, i + 1, Len(s))

\* The event loop ends when the service has been closed.
LoopRuns == service # "closed"

Ended == {"answered", "failed", "cancelled"}

Init ==
  /\ request = [t \in Tasks |-> "none"]
  /\ closes = {}
  /\ op = [t \in Tasks |-> "none"]
  /\ lock = 0
  /\ lockQueue = <<>>
  /\ closing = FALSE
  /\ session = "ready"
  /\ known = TRUE
  /\ reader = "reading"
  /\ inbox = <<>>
  /\ outbox = <<>>
  /\ native = 0
  /\ process = "serving"
  /\ service = "open"

-----------------------------------------------------------------------------
(* Requests of the client.                                                   *)

Invoke(t) ==
  /\ op' = [op EXCEPT ![t] = "queued"]
  /\ lockQueue' = Append(lockQueue, t)
  /\ UNCHANGED lock

Arrives(r) ==
  /\ service = "open"
  /\ request[r] = "none"
  /\ \A q \in 1..(r - 1) : request[q] # "none"

\* A query of a ready session: a task of its own runs the operation, the
\* request awaits it behind a shield.
Query(r) ==
  /\ Arrives(r)
  /\ session = "ready" /\ ~closing
  /\ request' = [request EXCEPT ![r] = "awaiting"]
  /\ Invoke(r)
  /\ UNCHANGED <<closes, sessionVars, reader, nativeVars, service>>

\* Closing a worker: shut it down if it has not ended.  The request itself
\* runs the operation.
Close(t) ==
  /\ closing' = TRUE
  /\ closes' = closes \cup {t}
  /\ IF process = "dead"
     THEN request' = [request EXCEPT ![t] = "reaping"] /\ UNCHANGED invokeVars
     ELSE request' = [request EXCEPT ![t] = "closing"] /\ Invoke(t)

CloseSession(r) ==
  /\ Arrives(r)
  /\ session # "deleted"
  /\ ~closing
  /\ Close(r)
  /\ session' = "closing"
  /\ UNCHANGED <<known, reader, nativeVars, service>>

\* A worker that is closing is not waited for: the session is deleted at once.
CloseSessionAgain(r) ==
  /\ Arrives(r)
  /\ session # "deleted"
  /\ closing
  /\ request' = [request EXCEPT ![r] = "answered"]
  /\ session' = "deleted"
  /\ known' = FALSE
  /\ UNCHANGED <<closes, invokeVars, closing, reader, nativeVars, service>>

\* What giving up an operation leaves of the lock.
Withdraw(t) ==
  /\ op' = [op EXCEPT ![t] = "over"]
  /\ lock' = IF lock = t THEN 0 ELSE lock
  /\ lockQueue' = Without(lockQueue, t)

\* Slip: the operation of a query is not shielded from the cancellation.
SlipCancelled(r) == Withdraw(r)

\* Cancelling a query leaves its operation alone; cancelling a close does not.
Cancelled(r) == IF request[r] = "closing" THEN Withdraw(r) ELSE UNCHANGED invokeVars

Cancel(r) ==
  /\ service = "open"
  /\ request[r] \in {"awaiting", "closing", "reaping"}
  /\ request' = [request EXCEPT ![r] = "cancelled"]
  /\ Cancelled(r)
  /\ UNCHANGED <<closes, sessionVars, reader, nativeVars, service>>

-----------------------------------------------------------------------------
(* Worker.invoke and Worker.close.                                           *)

\* The client of an operation that ended, if it still waits.
Told(t, answer) ==
  CASE request[t] = "awaiting" -> answer
    [] request[t] = "closing" -> IF answer = "answered" THEN "reaping" ELSE "killing"
    [] OTHER -> request[t]

\* The first in the queue takes the lock.  A process known to have ended is an
\* error, and so may be a write to a socket whose other end is closed; else
\* the request is sent and its future awaited, whether or not anyone reads.
TakeLock ==
  /\ LoopRuns
  /\ lock = 0
  /\ lockQueue # <<>>
  /\ LET t == Head(lockQueue) IN
     /\ lockQueue' = Tail(lockQueue)
     /\ \/ /\ process # "dead"
           /\ lock' = t
           /\ op' = [op EXCEPT ![t] = IF reader = "reading" THEN "sent" ELSE "unread"]
           /\ inbox' = IF process = "serving" THEN Append(inbox, t) ELSE inbox
           /\ UNCHANGED request
        \/ /\ process \in {"closed", "dead"}
           /\ op' = [op EXCEPT ![t] = "over"]
           /\ request' = [request EXCEPT ![t] = Told(t, "failed")]
           /\ UNCHANGED <<lock, inbox>>
  /\ UNCHANGED <<closes, sessionVars, reader, outbox, native, process, service>>

\* Slip: a shutdown that failed is taken for one that was done.
SlipKill(t) ==
  /\ LoopRuns
  /\ request[t] = "killing"
  /\ request' = [request EXCEPT ![t] = "answered"]
  /\ session' = "deleted"
  /\ known' = FALSE
  /\ UNCHANGED <<closes, invokeVars, closing, reader, nativeVars, service>>

\* The shutdown failed: a process that has not ended is killed.
Kill(t) ==
  /\ LoopRuns
  /\ request[t] = "killing"
  /\ request' = [request EXCEPT ![t] = "reaping"]
  /\ IF process = "dead"
     THEN UNCHANGED nativeVars
     ELSE process' = "closed" /\ native' = 0 /\ inbox' = <<>> /\ UNCHANGED outbox
  /\ UNCHANGED <<closes, invokeVars, sessionVars, reader, service>>

\* The process has ended: the reader is cancelled, the session deleted, which
\* fails when another close has already deleted it.
Reap(t) ==
  /\ LoopRuns
  /\ request[t] = "reaping"
  /\ process = "dead"
  /\ reader' = "ended"
  /\ op' = [u \in Tasks |-> IF op[u] = "sent" THEN "over" ELSE op[u]]
  /\ lock' = IF lock # 0 /\ op[lock] = "sent" THEN 0 ELSE lock
  /\ request' = [u \in Tasks |->
       IF u = t THEN IF session = "deleted" /\ t # Service THEN "failed" ELSE "answered"
       ELSE IF op[u] = "sent" THEN Told(u, "failed") ELSE request[u]]
  /\ session' = "deleted"
  /\ known' = FALSE
  /\ UNCHANGED <<closes, lockQueue, closing, nativeVars, service>>

-----------------------------------------------------------------------------
(* read_messages.                                                            *)

ReadMessage ==
  /\ LoopRuns
  /\ reader = "reading"
  /\ outbox # <<>>
  /\ LET t == Head(outbox) IN
     IF op[t] = "sent"
     THEN /\ op' = [op EXCEPT ![t] = "over"]
          /\ lock' = 0
          /\ \E answer \in IF t \in closes THEN {"answered"} ELSE {"answered", "failed"} :
               request' = [request EXCEPT ![t] = Told(t, answer)]
     ELSE UNCHANGED <<op, lock, request>>
  /\ outbox' = Tail(outbox)
  /\ UNCHANGED <<closes, lockQueue, sessionVars, reader, inbox, native, process, service>>

\* Slip: the pending operations are forgotten.
SlipReaderEnds ==
  /\ reader' = "ended"
  /\ UNCHANGED <<op, lock, request>>

\* Every operation that is pending fails.
ReaderEnds ==
  /\ reader' = "ended"
  /\ op' = [t \in Tasks |-> IF op[t] = "sent" THEN "over" ELSE op[t]]
  /\ lock' = IF lock # 0 /\ op[lock] = "sent" THEN 0 ELSE lock
  /\ request' = [t \in Tasks |-> IF op[t] = "sent" THEN Told(t, "failed") ELSE request[t]]

ReadEnd ==
  /\ LoopRuns
  /\ reader = "reading"
  /\ outbox = <<>>
  /\ process \in {"closed", "dead"}
  /\ ReaderEnds
  /\ UNCHANGED <<closes, lockQueue, sessionVars, nativeVars, service>>

\* A line beyond the limit, or an event whose handler raises, ends the reader
\* of a process that is well.
ReadError ==
  /\ LoopRuns
  /\ reader = "reading"
  /\ process = "serving"
  /\ ReaderEnds
  /\ UNCHANGED <<closes, lockQueue, sessionVars, nativeVars, service>>

-----------------------------------------------------------------------------
(* The worker process (worker/entry.py).                                     *)

NativeTakes ==
  /\ process = "serving"
  /\ native = 0
  /\ inbox # <<>>
  /\ inbox' = Tail(inbox)
  /\ IF Head(inbox) \in closes
     THEN outbox' = Append(outbox, Head(inbox)) /\ process' = "leaving" /\ UNCHANGED native
     ELSE native' = Head(inbox) /\ UNCHANGED <<outbox, process>>
  /\ UNCHANGED <<clientVars, invokeVars, sessionVars, reader, service>>

NativeReturns ==
  /\ native # 0
  /\ outbox' = Append(outbox, native)
  /\ native' = 0
  /\ UNCHANGED <<clientVars, invokeVars, sessionVars, reader, inbox, process, service>>

\* The process crashes, or closes its socket as it leaves.
SocketCloses ==
  /\ process' = "closed"
  /\ native' = 0
  /\ inbox' = <<>>
  /\ UNCHANGED <<clientVars, invokeVars, sessionVars, reader, outbox, service>>

Crashes == process = "serving" /\ SocketCloses
\* When the supervisor is gone the process finds its socket closed.
Leaves  == (process = "leaving" \/ (process = "serving" /\ native = 0 /\ service = "closed")) /\ SocketCloses

Exits ==
  /\ process = "closed"
  /\ process' = "dead"
  /\ UNCHANGED <<clientVars, invokeVars, sessionVars, reader, inbox, outbox, native, service>>

-----------------------------------------------------------------------------
(* The end of the server.                                                    *)

EndOfInput ==
  /\ service = "open"
  /\ service' = "draining"
  /\ UNCHANGED <<clientVars, invokeVars, sessionVars, reader, nativeVars>>

\* Requests are waited for, then the workers that are left are closed; one
\* that is closing already is not waited for.
CloseService ==
  /\ service = "draining"
  /\ \A r \in Requests : request[r] \in Ended \cup {"none"}
  /\ IF known /\ ~closing
     THEN /\ service' = "closing"
          /\ Close(Service)
          /\ UNCHANGED <<session, known>>
     ELSE /\ service' = "closed"
          /\ UNCHANGED <<clientVars, invokeVars, sessionVars>>
  /\ UNCHANGED <<reader, nativeVars>>

ServiceClosed ==
  /\ service = "closing"
  /\ request[Service] = "answered"
  /\ service' = "closed"
  /\ UNCHANGED <<clientVars, invokeVars, sessionVars, reader, nativeVars>>

Loop ==
  \/ TakeLock \/ ReadMessage \/ ReadEnd \/ CloseService \/ ServiceClosed
  \/ \E t \in Tasks : Kill(t) \/ Reap(t)

Native == NativeTakes \/ NativeReturns \/ Leaves \/ Exits

Next ==
  \/ Loop \/ Native \/ Crashes \/ ReadError \/ EndOfInput
  \/ \E r \in Requests : Query(r) \/ CloseSession(r) \/ CloseSessionAgain(r) \/ Cancel(r)

Spec == Init /\ [][Next]_vars

\* The event loop runs every task that can go on, and the process goes on
\* unless it crashes: a native operation returns in the end.
FairSpec ==
  /\ Spec
  /\ WF_vars(TakeLock) /\ WF_vars(ReadMessage) /\ WF_vars(ReadEnd)
  /\ WF_vars(CloseService) /\ WF_vars(ServiceClosed)
  /\ \A t \in Tasks : WF_vars(Kill(t)) /\ WF_vars(Reap(t))
  /\ WF_vars(Native)

-----------------------------------------------------------------------------
(* Properties.                                                               *)

AtWork == {"awaiting", "closing", "killing", "reaping"}

\* Type invariant: an operation is in the queue of the lock, or holds it, as
\* long as its task runs, and then only.
TypeOK ==
  /\ request \in [Tasks -> AtWork \cup Ended \cup {"none"}]
  /\ closes \subseteq Tasks
  /\ op \in [Tasks -> {"none", "queued", "sent", "unread", "over"}]
  /\ lock \in 0..Service
  /\ \A t \in Tasks :
       /\ op[t] \in {"sent", "unread"} <=> lock = t
       /\ op[t] = "queued" <=> t \in Elems(lockQueue)
       /\ request[t] \in {"awaiting", "closing"} => op[t] \in {"queued", "sent", "unread"}
  /\ lockQueue \in Seq(Tasks) /\ \A t \in Tasks : Once(lockQueue, t)
  /\ closing \in BOOLEAN /\ known \in BOOLEAN
  /\ session \in {"ready", "closing", "deleted"}
  /\ reader \in {"reading", "ended"}
  /\ inbox \in Seq(Tasks) /\ outbox \in Seq(Tasks)
  /\ native \in 0..Service
  /\ process \in {"serving", "leaving", "closed", "dead"}
  /\ service \in {"open", "draining", "closing", "closed"}

\* The worker has one transaction at a time: from the request to the result of
\* an operation the lock is its own, whoever cancels the await of it
\* (process.py:87), so long as the results are read.
OneTransaction ==
  reader = "reading" =>
    \A t \in Elems(inbox) \cup Elems(outbox) \cup ({native} \ {0}) : t \notin closes => lock = t

\* A deleted session, and a service that closed, leave no process behind,
\* unless another close is still at work on it or was cancelled
\* (process.py:112, service.py:168, 572).
NothingLeft ==
  (session = "deleted" \/ service = "closed") =>
    process = "dead" \/ \E t \in closes : request[t] \notin {"answered", "failed"}

\* An operation was sent after the reader had ended and before the process was
\* known to have: its result is awaited for ever, with the lock held.
Hung == \E t \in Tasks : op[t] = "unread"

\* Every request is answered, fails or is cancelled, and the service closes at
\* the end of its input, though the process may crash and results be lost.
EverythingEnds ==
  /\ \A r \in Requests : request[r] \in AtWork ~> (request[r] \in Ended \/ Hung)
  /\ service = "draining" ~> (service = "closed" \/ Hung)

=============================================================================
