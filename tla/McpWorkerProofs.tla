-------------------------- MODULE McpWorkerProofs --------------------------
(***************************************************************************)
(* One native transaction at a time, for any number of requests, and       *)
(* nothing left behind by a session that was deleted.                      *)
(*                                                                         *)
(* OneTransaction is not inductive: that the result of one operation frees *)
(* the lock for no other needs that an operation is under way once, in the *)
(* inbox, in the hands of the process or in the outbox, and that a request *)
(* which will close the worker has sent nothing before.                    *)
(***************************************************************************)
EXTENDS McpWorker, SequenceTheorems, TLAPS

InFlight(u) == u \in Elems(inbox) \/ u \in Elems(outbox) \/ native = u

\* u is under way once at most.
Alone(u) ==
  /\ Once(inbox, u) /\ Once(outbox, u)
  /\ ~(u \in Elems(inbox) /\ u \in Elems(outbox))
  /\ native = u => u \notin Elems(inbox) /\ u \notin Elems(outbox)

Transaction ==
  reader = "reading" => \A u \in Tasks \ closes : Alone(u) /\ (InFlight(u) => lock = u)

\* Only what was sent is under way, and a task has no operation before it starts.
SentOnly ==
  \A u \in Tasks :
    /\ InFlight(u) => op[u] \notin {"none", "queued"}
    /\ request[u] = "none" => op[u] = "none" /\ u \notin closes

\* A close is at work, was cancelled, or has seen the process end.
ClosesInv ==
  /\ closing <=> closes # {}
  /\ \A t \in Tasks : request[t] \in {"closing", "killing", "reaping"} => t \in closes
  /\ \A t \in closes : request[t] \in {"closing", "killing", "reaping", "cancelled"} \/ process = "dead"
  /\ ~known => closing
  /\ session = "deleted" => closing
  /\ Service \in closes <=> request[Service] # "none"
  /\ request[Service] \in {"none", "closing", "killing", "reaping", "answered"}
  /\ service \in {"open", "draining"} => request[Service] = "none"
  /\ service = "closed" => closing

IInv == TypeOK /\ Transaction /\ SentOnly /\ ClosesInv

-----------------------------------------------------------------------------
(* Sequences.                                                                *)

LEMMA AppendElems ==
  ASSUME NEW S, NEW s \in Seq(S), NEW x \in S
  PROVE  /\ Append(s, x) \in Seq(S)
         /\ Elems(Append(s, x)) = Elems(s) \cup {x}
         /\ \A u : Once(s, u) /\ (u = x => x \notin Elems(s)) => Once(Append(s, x), u)
<1>1. /\ Append(s, x) \in Seq(S) /\ Len(Append(s, x)) = Len(s) + 1 /\ Len(s) \in Nat
      /\ \A i \in 1..Len(s) : Append(s, x)[i] = s[i]
      /\ Append(s, x)[Len(s) + 1] = x
  BY AppendProperties, LenProperties
<1>2. \A i \in 1..Len(Append(s, x)) : i \in 1..Len(s) \/ i = Len(s) + 1
  BY <1>1
<1>3. 1..Len(s) \subseteq 1..Len(Append(s, x)) /\ Len(s) + 1 \in 1..Len(Append(s, x))
  BY <1>1
<1>4. Elems(Append(s, x)) = Elems(s) \cup {x}
  BY <1>1, <1>2, <1>3 DEF Elems
<1>5. ASSUME NEW u, Once(s, u), u = x => x \notin Elems(s)  PROVE Once(Append(s, x), u)
  BY <1>1, <1>2, <1>5 DEF Once, Elems
<1> QED  BY <1>1, <1>4, <1>5

LEMMA TailElems ==
  ASSUME NEW S, NEW s \in Seq(S), s # <<>>
  PROVE  /\ Tail(s) \in Seq(S) /\ Head(s) \in S /\ Head(s) \in Elems(s)
         /\ Elems(s) = Elems(Tail(s)) \cup {Head(s)}
         /\ \A u : Once(s, u) => Once(Tail(s), u) /\ (u = Head(s) => u \notin Elems(Tail(s)))
<1>1. /\ Tail(s) \in Seq(S) /\ Head(s) \in S /\ Head(s) = s[1]
      /\ Len(s) \in Nat \ {0} /\ Len(Tail(s)) = Len(s) - 1
      /\ \A i \in 1..Len(Tail(s)) : Tail(s)[i] = s[i + 1]
  BY HeadTailProperties, EmptySeq
<1>2. \A i \in 1..Len(Tail(s)) : i + 1 \in 1..Len(s) /\ i + 1 # 1
  BY <1>1
<1>3. \A i \in 1..Len(s) : i = 1 \/ (i - 1 \in 1..Len(Tail(s)) /\ Tail(s)[i - 1] = s[i])
  BY <1>1
<1>4. Elems(s) = Elems(Tail(s)) \cup {Head(s)} /\ 1 \in 1..Len(s)
  <2>1. 1 \in 1..Len(s)
    BY <1>1
  <2>2. \A y \in Elems(Tail(s)) : y \in Elems(s)
    BY <1>1, <1>2 DEF Elems
  <2>3. \A y \in Elems(s) : y = Head(s) \/ y \in Elems(Tail(s))
    BY <1>1, <1>3 DEF Elems
  <2>4. Head(s) \in Elems(s)
    BY <1>1, <2>1 DEF Elems
  <2> QED  BY <2>1, <2>2, <2>3, <2>4
<1>5. ASSUME NEW u, Once(s, u)  PROVE Once(Tail(s), u)
  <2> SUFFICES ASSUME NEW i \in 1..Len(Tail(s)), NEW j \in 1..Len(Tail(s)), Tail(s)[i] = u, Tail(s)[j] = u
               PROVE  i = j
    BY DEF Once
  <2>1. i + 1 = j + 1
    BY <1>1, <1>2, <1>5 DEF Once
  <2> QED  BY <1>1, <2>1
<1>6. ASSUME NEW u, Once(s, u), u = Head(s)  PROVE u \notin Elems(Tail(s))
  <2> SUFFICES ASSUME NEW i \in 1..Len(Tail(s)), Tail(s)[i] = u PROVE FALSE
    BY DEF Elems
  <2>1. s[i + 1] = u /\ s[1] = u /\ i + 1 \in 1..Len(s) /\ 1 \in 1..Len(s) /\ i + 1 # 1
    BY <1>1, <1>2, <1>4, <1>6
  <2> QED  BY <1>6, <2>1 DEF Once
<1> QED  BY <1>1, <1>4, <1>5, <1>6

LEMMA WithoutElems ==
  ASSUME NEW S, NEW s \in Seq(S), NEW x, Once(s, x)
  PROVE  /\ Without(s, x) \in Seq(S)
         /\ Elems(Without(s, x)) = Elems(s) \ {x}
         /\ \A u : Once(s, u) => Once(Without(s, x), u)
<1>1. CASE x \notin Elems(s)
  BY <1>1 DEF Without
<1>2. CASE x \in Elems(s)
  <2> DEFINE i == CHOOSE i \in 1..Len(s) : s[i] = x
             a == SubSeq(s, 1, i - 1)
             b == SubSeq(s, i + 1, Len(s))
  <2>1. i \in 1..Len(s) /\ s[i] = x
    BY <1>2 DEF Elems
  <2>2. Without(s, x) = a \o b
    BY <1>2 DEF Without
  <2> HIDE DEF i
  <2>3. Len(s) \in Nat /\ i \in Nat /\ \A j \in 1..Len(s) : s[j] \in S
    BY <2>1, LenProperties, ElementOfSeq
  <2>4. a \in Seq(S) /\ Len(a) = i - 1 /\ \A j \in 1..(i - 1) : a[j] = s[j]
    <3>1. \A j \in 1..(i - 1) : s[j] \in S
      BY <2>1, <2>3
    <3>2. a \in Seq(S) /\ Len(a) = (IF 1 <= i - 1 THEN i - 1 - 1 + 1 ELSE 0)
          /\ \A j \in 1..(i - 1 - 1 + 1) : a[j] = s[1 + j - 1]
      BY <2>3, <3>1, SubSeqProperties
    <3> QED  BY <2>1, <2>3, <3>2
  <2>5. b \in Seq(S) /\ Len(b) = Len(s) - i /\ \A j \in 1..(Len(s) - i) : b[j] = s[i + j]
    <3>1. \A j \in (i + 1)..Len(s) : s[j] \in S
      BY <2>3
    <3>2. b \in Seq(S) /\ Len(b) = (IF i + 1 <= Len(s) THEN Len(s) - (i + 1) + 1 ELSE 0)
          /\ \A j \in 1..(Len(s) - (i + 1) + 1) : b[j] = s[i + 1 + j - 1]
      BY <2>3, <3>1, SubSeqProperties
    <3> QED  BY <2>1, <2>3, <3>2
  <2> HIDE DEF a, b
  <2> DEFINE w == a \o b
             from(k) == IF k < i THEN k ELSE k + 1
  <2>6. w \in Seq(S) /\ Len(w) = Len(s) - 1
        /\ \A k \in 1..(Len(s) - 1) : w[k] = IF k <= i - 1 THEN a[k] ELSE b[k - (i - 1)]
    <3>1. Len(a) + Len(b) = Len(s) - 1
      BY <2>1, <2>3, <2>4, <2>5
    <3>2. w \in Seq(S) /\ Len(w) = Len(a) + Len(b)
          /\ \A k \in 1..(Len(a) + Len(b)) : w[k] = IF k <= Len(a) THEN a[k] ELSE b[k - Len(a)]
      BY <2>4, <2>5, ConcatProperties
    <3>3. Len(a) = i - 1
      BY <2>4
    <3> QED  BY <3>1, <3>2, <3>3
  <2> HIDE DEF w
  <2>7. \A k \in 1..Len(w) : from(k) \in 1..Len(s) /\ from(k) # i /\ w[k] = s[from(k)]
    <3> SUFFICES ASSUME NEW k \in 1..Len(w)
                 PROVE  from(k) \in 1..Len(s) /\ from(k) # i /\ w[k] = s[from(k)]
      OBVIOUS
    <3>1. CASE k < i
      BY <2>1, <2>3, <2>4, <2>6, <3>1
    <3>2. CASE ~(k < i)
      <4>1. w[k] = b[k - (i - 1)] /\ k - (i - 1) \in 1..(Len(s) - i) /\ i + (k - (i - 1)) = k + 1
        BY <2>1, <2>3, <2>6, <3>2
      <4>2. b[k - (i - 1)] = s[i + (k - (i - 1))]
        BY <2>5, <4>1
      <4>3. from(k) = k + 1 /\ k + 1 \in 1..Len(s) /\ k + 1 # i
        BY <2>1, <2>3, <2>6, <3>2
      <4> QED  BY <4>1, <4>2, <4>3
    <3> QED  BY <3>1, <3>2
  <2>8. \A j \in 1..Len(s) : j # i => \E k \in 1..Len(w) : from(k) = j
    <3> SUFFICES ASSUME NEW j \in 1..Len(s), j # i PROVE \E k \in 1..Len(w) : from(k) = j
      OBVIOUS
    <3>1. CASE j < i
      BY <2>1, <2>3, <2>6, <3>1
    <3>2. CASE j > i
      <4>1. j - 1 \in 1..Len(w) /\ from(j - 1) = j
        BY <2>1, <2>3, <2>6, <3>2
      <4> QED  BY <4>1
    <3> QED  BY <2>1, <2>3, <3>1, <3>2
  <2>9. \A k, l \in 1..Len(w) : from(k) = from(l) => k = l
    BY <2>3, <2>6
  <2> HIDE DEF from
  <2>10. Elems(w) = Elems(s) \ {x}
    <3>1. \A j \in 1..Len(s) : s[j] = x => j = i
      BY <2>1 DEF Once
    <3>2. \A k \in 1..Len(w) : w[k] \in Elems(s) /\ w[k] # x
      BY <2>7, <3>1 DEF Elems
    <3>3. \A j \in 1..Len(s) : s[j] # x => \E k \in 1..Len(w) : w[k] = s[j]
      BY <2>1, <2>7, <2>8
    <3>4. \A y \in Elems(s) : y # x => y \in Elems(w)
      BY <3>3 DEF Elems
    <3>5. \A y \in Elems(w) : y \in Elems(s) /\ y # x
      BY <3>2 DEF Elems
    <3> QED  BY <3>4, <3>5
  <2>11. \A u : Once(s, u) => Once(w, u)
    BY <2>7, <2>9 DEF Once
  <2> QED  BY <2>2, <2>6, <2>10, <2>11 DEF w
<1> QED  BY <1>1, <1>2

-----------------------------------------------------------------------------
(* The invariant is inductive.                                               *)

LEMMA TaskNumbers == 0 \notin Tasks /\ Service \in Tasks /\ Requests \subseteq Tasks /\ Service \notin Requests
                     /\ Tasks = 1..Service /\ Service \in Nat
BY WorkerAssumption DEF Tasks, Service, Requests

LEMMA InitInv == Init => IInv
<1> SUFFICES ASSUME Init PROVE IInv
  OBVIOUS
<1>1. Elems(<<>>) = {} /\ \A u : Once(<<>>, u)
  BY DEF Elems, Once
<1> USE <1>1, TaskNumbers DEF Init
<1>2. TypeOK
  <2>1. lock \in 0..Service /\ native \in 0..Service
    OBVIOUS
  <2>2. \A t \in Tasks : lock # t /\ t \notin Elems(lockQueue) /\ op[t] = "none" /\ request[t] = "none"
    OBVIOUS
  <2>3. \A t \in Tasks :
          /\ op[t] \in {"sent", "unread"} <=> lock = t
          /\ op[t] = "queued" <=> t \in Elems(lockQueue)
          /\ request[t] \in {"awaiting", "closing"} => op[t] \in {"queued", "sent", "unread"}
          /\ Once(lockQueue, t)
    BY <2>2
  <2>4. /\ request \in [Tasks -> AtWork \cup Ended \cup {"none"}]
        /\ op \in [Tasks -> {"none", "queued", "sent", "unread", "over"}]
        /\ lockQueue \in Seq(Tasks) /\ inbox \in Seq(Tasks) /\ outbox \in Seq(Tasks)
    OBVIOUS
  <2>5. /\ closes \subseteq Tasks /\ closing \in BOOLEAN /\ known \in BOOLEAN
        /\ session \in {"ready", "closing", "deleted"} /\ reader \in {"reading", "ended"}
        /\ process \in {"serving", "leaving", "closed", "dead"}
        /\ service \in {"open", "draining", "closing", "closed"}
    OBVIOUS
  <2> QED  BY <2>1, <2>3, <2>4, <2>5 DEF TypeOK
<1>3. Transaction
  <2>1. \A u \in Tasks : Alone(u) /\ ~InFlight(u)
    BY DEF Alone, InFlight
  <2> QED  BY <2>1 DEF Transaction
<1>4. SentOnly
  BY DEF SentOnly, InFlight
<1>5. ClosesInv
  BY DEF ClosesInv
<1> QED  BY <1>2, <1>3, <1>4, <1>5 DEF IInv

\* What is under way stays so, and its task keeps the lock.
LEMMA TransactionKeeps ==
  ASSUME Transaction, UNCHANGED nativeVars, reader' = "reading" => reader = "reading",
         closes \subseteq closes',
         \A u \in Tasks \ closes' : InFlight(u) /\ lock = u => lock' = u
  PROVE  Transaction'
BY DEF Transaction, Alone, InFlight, nativeVars

\* A task that has not started queues for the lock.
LEMMA InvokeKeeps ==
  ASSUME IInv, NEW t \in Tasks, request[t] = "none", Invoke(t),
         NEW how \in {"awaiting", "closing"}, request' = [request EXCEPT ![t] = how],
         UNCHANGED nativeVars, closes' \in {closes, closes \cup {t}}
  PROVE  /\ op' \in [Tasks -> {"none", "queued", "sent", "unread", "over"}]
         /\ request' \in [Tasks -> AtWork \cup Ended \cup {"none"}]
         /\ \A u \in Tasks :
              /\ op'[u] \in {"sent", "unread"} <=> lock' = u
              /\ op'[u] = "queued" <=> u \in Elems(lockQueue')
              /\ request'[u] \in {"awaiting", "closing"} => op'[u] \in {"queued", "sent", "unread"}
         /\ lockQueue' \in Seq(Tasks) /\ \A u \in Tasks : Once(lockQueue', u)
         /\ lock' = lock
         /\ SentOnly'
<1>1. op[t] = "none" /\ t \notin Elems(lockQueue) /\ lock # t
  BY DEF IInv, SentOnly, TypeOK
<1>2. op' = [op EXCEPT ![t] = "queued"] /\ lockQueue' = Append(lockQueue, t) /\ lock' = lock
  BY DEF Invoke
<1>3. /\ lockQueue' \in Seq(Tasks) /\ Elems(lockQueue') = Elems(lockQueue) \cup {t}
      /\ \A u \in Tasks : Once(lockQueue', u)
  BY <1>1, <1>2, AppendElems DEF IInv, TypeOK
<1>4. /\ op' \in [Tasks -> {"none", "queued", "sent", "unread", "over"}]
      /\ request' \in [Tasks -> AtWork \cup Ended \cup {"none"}]
  BY <1>2 DEF IInv, TypeOK, AtWork
<1>5. \A u \in Tasks :
        /\ op'[u] \in {"sent", "unread"} <=> lock' = u
        /\ op'[u] = "queued" <=> u \in Elems(lockQueue')
        /\ request'[u] \in {"awaiting", "closing"} => op'[u] \in {"queued", "sent", "unread"}
  BY <1>1, <1>2, <1>3 DEF IInv, TypeOK
<1>6. SentOnly'
  BY <1>1, <1>2 DEF IInv, TypeOK, SentOnly, InFlight, nativeVars
<1> QED  BY <1>2, <1>3, <1>4, <1>5, <1>6

LEMMA QueryInv == ASSUME IInv, NEW r \in Requests, Query(r) PROVE IInv'
<1>1. /\ r \in Tasks /\ r # Service /\ request[r] = "none" /\ request' = [request EXCEPT ![r] = "awaiting"]
      /\ Invoke(r) /\ UNCHANGED <<closes, sessionVars, reader, nativeVars, service>>
  BY TaskNumbers DEF Query, Arrives
<1>2. SentOnly' /\ lock' = lock
  BY <1>1, InvokeKeeps
<1>3. TypeOK'
  BY <1>1, <1>2, InvokeKeeps DEF TypeOK, IInv, sessionVars, nativeVars
<1>4. Transaction'
  BY <1>1, <1>2, TransactionKeeps DEF IInv
<1>5. ClosesInv'
  <2>1. r \notin closes
    BY <1>1 DEF IInv, SentOnly
  <2> QED  BY <1>1, <2>1 DEF IInv, ClosesInv, TypeOK, sessionVars, nativeVars
<1> QED  BY <1>2, <1>3, <1>4, <1>5 DEF IInv

\* Worker.close by a task that has not started, which has sent nothing.
LEMMA CloseInv ==
  ASSUME IInv, NEW t \in Tasks, request[t] = "none", Close(t), ~closing,
         UNCHANGED <<known, reader, nativeVars>>, session' \in {session, "closing"},
         t = Service => service' = "closing", t # Service => service' = service
  PROVE  IInv'
<1>1. closes = {} /\ closing' /\ closes' = {t} /\ closes' = closes \cup {t}
  BY DEF IInv, ClosesInv, Close
<1>2. \/ request' = [request EXCEPT ![t] = "closing"] /\ Invoke(t) /\ process # "dead"
      \/ request' = [request EXCEPT ![t] = "reaping"] /\ UNCHANGED invokeVars /\ process = "dead"
  BY DEF Close
<1>3. op[t] = "none"
  BY DEF IInv, SentOnly
<1>4. /\ lock' = lock
      /\ op' \in [Tasks -> {"none", "queued", "sent", "unread", "over"}]
      /\ request' \in [Tasks -> AtWork \cup Ended \cup {"none"}]
      /\ \A u \in Tasks :
           /\ op'[u] \in {"sent", "unread"} <=> lock' = u
           /\ op'[u] = "queued" <=> u \in Elems(lockQueue')
           /\ request'[u] \in {"awaiting", "closing"} => op'[u] \in {"queued", "sent", "unread"}
      /\ lockQueue' \in Seq(Tasks) /\ \A u \in Tasks : Once(lockQueue', u)
      /\ SentOnly'
  <2>1. CASE request' = [request EXCEPT ![t] = "closing"] /\ Invoke(t)
    <3>1. closes' \in {closes, closes \cup {t}} /\ "closing" \in {"awaiting", "closing"}
      BY <1>1
    <3> QED  BY <2>1, <3>1, InvokeKeeps
  <2>2. CASE request' = [request EXCEPT ![t] = "reaping"] /\ UNCHANGED invokeVars
    <3>1. lock' = lock /\ op' = op /\ lockQueue' = lockQueue
      BY <2>2 DEF invokeVars
    <3>2. SentOnly'
      BY <1>1, <2>2, <3>1 DEF IInv, SentOnly, TypeOK, InFlight, nativeVars
    <3>3. request' \in [Tasks -> AtWork \cup Ended \cup {"none"}]
      BY <2>2 DEF IInv, TypeOK, AtWork
    <3> QED  BY <2>2, <3>1, <3>2, <3>3 DEF IInv, TypeOK
  <2> QED  BY <1>2, <2>1, <2>2
<1>5. TypeOK'
  BY <1>1, <1>4 DEF IInv, TypeOK, nativeVars
<1>6. Transaction'
  BY <1>1, <1>4, TransactionKeeps DEF IInv
<1>7. /\ \A u \in Tasks \ {t} : request'[u] = request[u]
      /\ request'[t] \in {"closing", "reaping"}
      /\ request'[t] = "closing" \/ process = "dead"
  BY <1>2 DEF IInv, TypeOK
<1>8. ClosesInv'
  BY <1>1, <1>7, TaskNumbers DEF IInv, ClosesInv, nativeVars
<1> QED  BY <1>4, <1>5, <1>6, <1>8 DEF IInv

LEMMA CloseSessionInv == ASSUME IInv, NEW r \in Requests, CloseSession(r) PROVE IInv'
<1>1. /\ r \in Tasks /\ r # Service /\ request[r] = "none" /\ ~closing /\ session' = "closing"
      /\ Close(r) /\ UNCHANGED <<known, reader, nativeVars, service>>
  BY TaskNumbers DEF CloseSession, Arrives
<1> QED  BY <1>1, CloseInv

LEMMA CloseServiceInv == ASSUME IInv, CloseService PROVE IInv'
<1>1. CASE known /\ ~closing
  <2>1. /\ request[Service] = "none" /\ service' = "closing"
        /\ Close(Service) /\ UNCHANGED <<known, session, reader, nativeVars>>
    BY <1>1 DEF CloseService, IInv, ClosesInv
  <2> QED  BY <1>1, <2>1, TaskNumbers, CloseInv
<1>2. CASE ~(known /\ ~closing)
  <2>1. service' = "closed" /\ UNCHANGED <<clientVars, invokeVars, sessionVars, reader, nativeVars>> /\ closing
    BY <1>2 DEF CloseService, IInv, ClosesInv
  <2>2. UNCHANGED <<request, closes, op, lock, lockQueue, closing, session, known, reader, inbox, outbox, native, process>>
    BY <2>1 DEF clientVars, invokeVars, sessionVars, nativeVars
  <2> QED  BY <2>1, <2>2 DEF IInv, TypeOK, Transaction, Alone, SentOnly, InFlight, ClosesInv
<1> QED  BY <1>1, <1>2

LEMMA CloseAgainInv == ASSUME IInv, NEW r \in Requests, CloseSessionAgain(r) PROVE IInv'
<1>1. /\ r \in Tasks /\ r # Service /\ request[r] = "none" /\ request' = [request EXCEPT ![r] = "answered"]
      /\ closing /\ session' = "deleted" /\ known' = FALSE
      /\ UNCHANGED <<closes, op, lock, lockQueue, closing, reader, nativeVars, service>>
  BY TaskNumbers DEF CloseSessionAgain, Arrives, invokeVars
<1>2. r \notin closes /\ op[r] = "none"
  BY <1>1 DEF IInv, SentOnly
<1>3. TypeOK'
  BY <1>1, <1>2 DEF IInv, TypeOK, nativeVars, AtWork, Ended
<1>4. Transaction'
  BY <1>1, TransactionKeeps DEF IInv
<1>5. SentOnly'
  BY <1>1, <1>2 DEF IInv, TypeOK, SentOnly, InFlight, nativeVars
<1>6. ClosesInv'
  BY <1>1, <1>2 DEF IInv, TypeOK, ClosesInv, nativeVars
<1> QED  BY <1>3, <1>4, <1>5, <1>6 DEF IInv

LEMMA CancelInv == ASSUME IInv, NEW r \in Requests, Cancel(r) PROVE IInv'
<1>1. /\ r \in Tasks /\ r # Service /\ request[r] \in {"awaiting", "closing", "reaping"}
      /\ request' = [request EXCEPT ![r] = "cancelled"]
      /\ UNCHANGED <<closes, sessionVars, reader, nativeVars, service>>
  BY TaskNumbers DEF Cancel
<1>2. CASE request[r] # "closing"
  <2>1. UNCHANGED <<op, lock, lockQueue>>
    BY <1>2 DEF Cancel, Cancelled, invokeVars
  <2>2. TypeOK'
    BY <1>1, <2>1 DEF IInv, TypeOK, sessionVars, nativeVars, AtWork, Ended
  <2>3. Transaction'
    BY <1>1, <2>1, TransactionKeeps DEF IInv
  <2>4. SentOnly' /\ ClosesInv'
    BY <1>1, <2>1 DEF IInv, TypeOK, SentOnly, InFlight, ClosesInv, sessionVars, nativeVars
  <2> QED  BY <2>2, <2>3, <2>4 DEF IInv
<1>3. CASE request[r] = "closing"
  <2>1. /\ op' = [op EXCEPT ![r] = "over"] /\ lock' = (IF lock = r THEN 0 ELSE lock)
        /\ lockQueue' = Without(lockQueue, r)
    BY <1>3 DEF Cancel, Cancelled, Withdraw
  <2>2. r \in closes /\ op[r] \in {"queued", "sent", "unread"}
    BY <1>1, <1>3 DEF IInv, ClosesInv, TypeOK
  <2>3. /\ lockQueue' \in Seq(Tasks) /\ Elems(lockQueue') = Elems(lockQueue) \ {r}
        /\ \A u \in Tasks : Once(lockQueue', u)
    BY <1>1, <2>1, WithoutElems DEF IInv, TypeOK
  <2>4. TypeOK'
    BY <1>1, <2>1, <2>3, TaskNumbers DEF IInv, TypeOK, sessionVars, nativeVars, AtWork, Ended
  <2>5. Transaction'
    BY <1>1, <2>1, <2>2, TransactionKeeps DEF IInv
  <2>6. SentOnly' /\ ClosesInv'
    BY <1>1, <2>1, <2>2 DEF IInv, TypeOK, SentOnly, InFlight, ClosesInv, sessionVars, nativeVars
  <2> QED  BY <2>4, <2>5, <2>6 DEF IInv
<1> QED  BY <1>2, <1>3

\* Requests that go on because an operation ended, or from killing to reaping.
LEMMA SettledInv ==
  ASSUME IInv, UNCHANGED <<closes, closing, session, known, service>>,
         process = "dead" => process' = "dead",
         \A u \in Tasks : \/ request'[u] \in {request[u], Told(u, "answered"), Told(u, "failed")}
                          \/ request[u] = "killing" /\ request'[u] = "reaping"
  PROVE  /\ ClosesInv'
         /\ \A u \in Tasks : /\ request'[u] \in AtWork \cup Ended \cup {"none"}
                             /\ request'[u] = "none" <=> request[u] = "none"
<1>1. \A u \in Tasks :
        /\ request'[u] \in AtWork \cup Ended \cup {"none"}
        /\ request'[u] = "none" <=> request[u] = "none"
        /\ request'[u] = "cancelled" <=> request[u] = "cancelled"
        /\ request'[u] \in {"closing", "killing", "reaping"} <=> request[u] \in {"closing", "killing", "reaping"}
        /\ request[u] = "answered" => request'[u] = "answered"
  BY DEF IInv, TypeOK, Told, AtWork, Ended
<1>2. ClosesInv'
  <2>1. \A u \in closes' : u \in Tasks
    BY DEF IInv, TypeOK
  <2> QED  BY <1>1, <2>1, TaskNumbers DEF IInv, ClosesInv
<1> QED  BY <1>1, <1>2

\* A step of the process takes what is under way on, or drops it.
LEMMA NativeKeeps ==
  ASSUME IInv, UNCHANGED <<clientVars, invokeVars, sessionVars, reader, service>>,
         inbox' \in Seq(Tasks), outbox' \in Seq(Tasks), native' \in 0..Service,
         process' \in {"serving", "leaving", "closed", "dead"}, process = "dead" => process' = "dead",
         \A u \in Tasks : InFlight(u)' => InFlight(u),
         \A u \in Tasks \ closes : Alone(u) => Alone(u)'
  PROVE  IInv'
<1>1. UNCHANGED <<request, closes, op, lock, lockQueue, closing, session, known, reader, service>>
  BY DEF clientVars, invokeVars, sessionVars
<1>2. TypeOK'
  BY <1>1 DEF IInv, TypeOK
<1>3. Transaction'
  BY <1>1 DEF IInv, Transaction
<1>4. SentOnly'
  BY <1>1 DEF IInv, SentOnly
<1>5. ClosesInv'
  BY <1>1 DEF IInv, ClosesInv
<1> QED  BY <1>2, <1>3, <1>4, <1>5 DEF IInv

LEMMA NativeTakesInv == ASSUME IInv, NativeTakes PROVE IInv'
<1> DEFINE h == Head(inbox)
<1>1. /\ process = "serving" /\ native = 0 /\ inbox # <<>> /\ inbox' = Tail(inbox)
      /\ UNCHANGED <<clientVars, invokeVars, sessionVars, reader, service>>
  BY DEF NativeTakes
<1>2. /\ inbox' \in Seq(Tasks) /\ h \in Tasks /\ Elems(inbox) = Elems(inbox') \cup {h}
      /\ \A u : Once(inbox, u) => Once(inbox', u) /\ (u = h => u \notin Elems(inbox'))
  <2>1. inbox \in Seq(Tasks)
    BY DEF IInv, TypeOK
  <2> QED  BY <1>1, <2>1, TailElems
<1>3. CASE h \in closes
  <2>1. outbox' = Append(outbox, h) /\ process' = "leaving" /\ native' = native
    BY <1>3 DEF NativeTakes
  <2>2. /\ outbox' \in Seq(Tasks) /\ Elems(outbox') = Elems(outbox) \cup {h}
        /\ \A u : Once(outbox, u) /\ (u = h => h \notin Elems(outbox)) => Once(outbox', u)
    <3>1. outbox \in Seq(Tasks)
      BY DEF IInv, TypeOK
    <3> QED  BY <1>2, <2>1, <3>1, AppendElems
  <2> HIDE DEF h
  <2>3. \A u \in Tasks : InFlight(u)' => InFlight(u)
    BY <1>2, <2>1, <2>2 DEF InFlight
  <2>4. \A u \in Tasks \ closes : Alone(u) => Alone(u)'
    BY <1>2, <1>3, <2>1, <2>2 DEF Alone
  <2> QED  BY <1>1, <1>2, <2>1, <2>2, <2>3, <2>4, NativeKeeps DEF IInv, TypeOK
<1>4. CASE h \notin closes
  <2>1. outbox' = outbox /\ process' = process /\ native' = h
    BY <1>4 DEF NativeTakes
  <2> HIDE DEF h
  <2>3. \A u \in Tasks : InFlight(u)' => InFlight(u)
    BY <1>2, <2>1 DEF InFlight
  <2>4. \A u \in Tasks \ closes : Alone(u) => Alone(u)'
    BY <1>2, <2>1 DEF Alone
  <2> QED  BY <1>1, <1>2, <2>1, <2>3, <2>4, TaskNumbers, NativeKeeps DEF IInv, TypeOK
<1> QED  BY <1>3, <1>4

LEMMA NativeReturnsInv == ASSUME IInv, NativeReturns PROVE IInv'
<1>1. /\ native # 0 /\ outbox' = Append(outbox, native) /\ native' = 0 /\ UNCHANGED <<inbox, process>>
      /\ UNCHANGED <<clientVars, invokeVars, sessionVars, reader, service>>
  BY DEF NativeReturns
<1>2. native \in Tasks
  BY <1>1, TaskNumbers DEF IInv, TypeOK
<1>3. /\ outbox' \in Seq(Tasks) /\ Elems(outbox') = Elems(outbox) \cup {native}
      /\ \A u : Once(outbox, u) /\ (u = native => native \notin Elems(outbox)) => Once(outbox', u)
  <2>1. outbox \in Seq(Tasks)
    BY DEF IInv, TypeOK
  <2> QED  BY <1>1, <1>2, <2>1, AppendElems
<1>4. \A u \in Tasks : InFlight(u)' => InFlight(u)
  BY <1>1, <1>3, TaskNumbers DEF InFlight
<1>5. \A u \in Tasks \ closes : Alone(u) => Alone(u)'
  BY <1>1, <1>3, TaskNumbers DEF Alone
<1> QED  BY <1>1, <1>3, <1>4, <1>5, TaskNumbers, NativeKeeps DEF IInv, TypeOK

LEMMA EmptyElems == <<>> \in Seq(Tasks) /\ Elems(<<>>) = {} /\ \A u : Once(<<>>, u)
BY DEF Elems, Once

LEMMA SocketClosesInv == ASSUME IInv, process # "dead", SocketCloses PROVE IInv'
<1>1. /\ process' = "closed" /\ native' = 0 /\ inbox' = <<>> /\ UNCHANGED outbox
      /\ UNCHANGED <<clientVars, invokeVars, sessionVars, reader, service>>
  BY DEF SocketCloses
<1>2. \A u \in Tasks : InFlight(u)' => InFlight(u)
  BY <1>1, EmptyElems, TaskNumbers DEF InFlight
<1>3. \A u \in Tasks \ closes : Alone(u) => Alone(u)'
  BY <1>1, EmptyElems, TaskNumbers DEF Alone
<1> QED  BY <1>1, <1>2, <1>3, EmptyElems, TaskNumbers, NativeKeeps DEF IInv, TypeOK

LEMMA ExitsInv == ASSUME IInv, Exits PROVE IInv'
<1>1. /\ process' = "dead" /\ UNCHANGED <<inbox, outbox, native>>
      /\ UNCHANGED <<clientVars, invokeVars, sessionVars, reader, service>>
  BY DEF Exits
<1>2. \A u \in Tasks : (InFlight(u)' => InFlight(u)) /\ (Alone(u) => Alone(u)')
  BY <1>1 DEF InFlight, Alone
<1> QED  BY <1>1, <1>2, NativeKeeps DEF IInv, TypeOK

LEMMA KillInv == ASSUME IInv, NEW t \in Tasks, Kill(t) PROVE IInv'
<1>1. /\ request[t] = "killing" /\ request' = [request EXCEPT ![t] = "reaping"]
      /\ UNCHANGED <<closes, op, lock, lockQueue, closing, session, known, reader, service>>
  BY DEF Kill, invokeVars, sessionVars
<1>2. \/ UNCHANGED <<inbox, outbox, native, process>>
      \/ process # "dead" /\ process' = "closed" /\ native' = 0 /\ inbox' = <<>> /\ UNCHANGED outbox
  BY DEF Kill, nativeVars
<1>3. \A u \in Tasks : request'[u] = request[u] \/ (request[u] = "killing" /\ request'[u] = "reaping")
  BY <1>1 DEF IInv, TypeOK
<1>4. /\ ClosesInv'
      /\ \A u \in Tasks : /\ request'[u] \in AtWork \cup Ended \cup {"none"}
                          /\ request'[u] = "none" <=> request[u] = "none"
  BY <1>1, <1>2, <1>3, SettledInv
<1>5. /\ inbox' \in Seq(Tasks) /\ outbox' \in Seq(Tasks) /\ native' \in 0..Service
      /\ process' \in {"serving", "leaving", "closed", "dead"}
  <2>1. /\ inbox \in Seq(Tasks) /\ outbox \in Seq(Tasks) /\ native \in 0..Service /\ 0 \in 0..Service
        /\ process \in {"serving", "leaving", "closed", "dead"}
    BY TaskNumbers DEF IInv, TypeOK
  <2>2. CASE UNCHANGED <<inbox, outbox, native, process>>
    BY <2>1, <2>2
  <2>3. CASE process' = "closed" /\ native' = 0 /\ inbox' = <<>> /\ UNCHANGED outbox
    BY <2>1, <2>3, EmptyElems
  <2> QED  BY <1>2, <2>2, <2>3
<1>6. TypeOK'
  <2>1. request' \in [Tasks -> AtWork \cup Ended \cup {"none"}]
    BY <1>1 DEF IInv, TypeOK, AtWork
  <2> QED  BY <1>1, <1>3, <1>5, <2>1 DEF IInv, TypeOK
<1>7. \A u \in Tasks : (InFlight(u)' => InFlight(u)) /\ (Alone(u) => Alone(u)')
  BY <1>2, EmptyElems, TaskNumbers DEF InFlight, Alone
<1>8. Transaction' /\ SentOnly'
  BY <1>1, <1>4, <1>7 DEF IInv, Transaction, SentOnly
<1> QED  BY <1>4, <1>6, <1>8 DEF IInv

\* The end of the reader fails what was sent and lets go of the lock.
LEMMA EndedInv ==
  ASSUME IInv, reader' = "ended",
         op' = [u \in Tasks |-> IF op[u] = "sent" THEN "over" ELSE op[u]],
         lock' = IF lock # 0 /\ op[lock] = "sent" THEN 0 ELSE lock,
         UNCHANGED <<lockQueue, inbox, outbox, native, process>>,
         \A u \in Tasks : request'[u] = "none" <=> request[u] = "none",
         \A u \in Tasks : request'[u] \in {"awaiting", "closing"} => request'[u] = request[u] /\ op[u] # "sent",
         request' \in [Tasks -> AtWork \cup Ended \cup {"none"}],
         closes' = closes, closing' = closing, service' = service,
         known' \in {known, FALSE}, session' \in {session, "deleted"}
  PROVE  TypeOK' /\ Transaction' /\ SentOnly'
<1>1. \A u \in Tasks :
        /\ op'[u] \in {"sent", "unread"} <=> lock' = u
        /\ op'[u] = "queued" <=> u \in Elems(lockQueue')
        /\ request'[u] \in {"awaiting", "closing"} => op'[u] \in {"queued", "sent", "unread"}
  <2> SUFFICES ASSUME NEW u \in Tasks
               PROVE  /\ op'[u] \in {"sent", "unread"} <=> lock' = u
                      /\ op'[u] = "queued" <=> u \in Elems(lockQueue')
                      /\ request'[u] \in {"awaiting", "closing"} => op'[u] \in {"queued", "sent", "unread"}
    OBVIOUS
  <2>1. /\ op[u] \in {"sent", "unread"} <=> lock = u
        /\ op[u] = "queued" <=> u \in Elems(lockQueue)
        /\ request[u] \in {"awaiting", "closing"} => op[u] \in {"queued", "sent", "unread"}
    BY DEF IInv, TypeOK
  <2>2. u # 0 /\ op'[u] = IF op[u] = "sent" THEN "over" ELSE op[u]
    BY TaskNumbers
  <2>3. lock = u => (lock' = u <=> op[u] # "sent")
    BY <2>2
  <2>4. lock # u => lock' # u
    BY <2>2
  <2> QED  BY <2>1, <2>2, <2>3, <2>4
<1>2. op' \in [Tasks -> {"none", "queued", "sent", "unread", "over"}] /\ lock' \in 0..Service
  BY TaskNumbers DEF IInv, TypeOK
<1>3. TypeOK'
  BY <1>1, <1>2 DEF IInv, TypeOK
<1>4. Transaction'
  BY DEF Transaction
<1>5. SentOnly'
  BY DEF IInv, TypeOK, SentOnly, InFlight
<1> QED  BY <1>3, <1>4, <1>5

LEMMA ReaderEndsInv ==
  ASSUME IInv, ReaderEnds, UNCHANGED <<closes, lockQueue, sessionVars, nativeVars, service>> PROVE IInv'
<1>1. /\ reader' = "ended"
      /\ op' = [u \in Tasks |-> IF op[u] = "sent" THEN "over" ELSE op[u]]
      /\ lock' = IF lock # 0 /\ op[lock] = "sent" THEN 0 ELSE lock
      /\ request' = [u \in Tasks |-> IF op[u] = "sent" THEN Told(u, "failed") ELSE request[u]]
  BY DEF ReaderEnds
<1>2. UNCHANGED <<closes, lockQueue, closing, session, known, inbox, outbox, native, process, service>>
  BY DEF sessionVars, nativeVars
<1>3. \A u \in Tasks : request'[u] = IF op[u] = "sent" THEN Told(u, "failed") ELSE request[u]
  BY <1>1
<1>4. /\ ClosesInv'
      /\ \A u \in Tasks : /\ request'[u] \in AtWork \cup Ended \cup {"none"}
                          /\ request'[u] = "none" <=> request[u] = "none"
  BY <1>2, <1>3, SettledInv
<1>5. \A u \in Tasks : request'[u] \in {"awaiting", "closing"} => request'[u] = request[u] /\ op[u] # "sent"
  BY <1>3 DEF Told
<1>6. request' \in [Tasks -> AtWork \cup Ended \cup {"none"}]
  BY <1>1, <1>4
<1>7. TypeOK' /\ Transaction' /\ SentOnly'
  BY <1>1, <1>2, <1>4, <1>5, <1>6, EndedInv
<1> QED  BY <1>4, <1>7 DEF IInv

LEMMA ReapInv == ASSUME IInv, NEW t \in Tasks, Reap(t) PROVE IInv'
<1>1. /\ request[t] = "reaping" /\ process = "dead" /\ reader' = "ended"
      /\ op' = [u \in Tasks |-> IF op[u] = "sent" THEN "over" ELSE op[u]]
      /\ lock' = IF lock # 0 /\ op[lock] = "sent" THEN 0 ELSE lock
      /\ request' = [u \in Tasks |->
           IF u = t THEN IF session = "deleted" /\ t # Service THEN "failed" ELSE "answered"
           ELSE IF op[u] = "sent" THEN Told(u, "failed") ELSE request[u]]
      /\ session' = "deleted" /\ known' = FALSE
      /\ UNCHANGED <<closes, lockQueue, closing, inbox, outbox, native, process, service>>
  BY DEF Reap, nativeVars
<1>2. \A u \in Tasks : request'[u] = IF u = t THEN IF session = "deleted" /\ t # Service THEN "failed" ELSE "answered"
                                     ELSE IF op[u] = "sent" THEN Told(u, "failed") ELSE request[u]
  BY <1>1
<1>3. \A u \in Tasks : /\ request'[u] \in AtWork \cup Ended \cup {"none"}
                       /\ request'[u] = "none" <=> request[u] = "none"
  BY <1>1, <1>2 DEF IInv, TypeOK, Told, AtWork, Ended
<1>4. \A u \in Tasks : request'[u] \in {"awaiting", "closing"} => request'[u] = request[u] /\ op[u] # "sent"
  BY <1>2 DEF Told
<1>5. request' \in [Tasks -> AtWork \cup Ended \cup {"none"}]
  BY <1>1, <1>3
<1>6. TypeOK' /\ Transaction' /\ SentOnly'
  BY <1>1, <1>3, <1>4, <1>5, EndedInv
<1>7. ClosesInv'
  <2>1. \A u \in Tasks : request'[u] \in {"closing", "killing", "reaping"} => request[u] \in {"closing", "killing", "reaping"}
    BY <1>2 DEF Told
  <2>2. request'[Service] \in {"none", "closing", "killing", "reaping", "answered"}
    BY <1>1, <1>2, TaskNumbers DEF IInv, ClosesInv, Told
  <2>3. t \in closes /\ closing
    BY <1>1 DEF IInv, ClosesInv
  <2> QED  BY <1>1, <1>3, <2>1, <2>2, <2>3, TaskNumbers DEF IInv, ClosesInv
<1> QED  BY <1>6, <1>7 DEF IInv

LEMMA TakeLockInv == ASSUME IInv, TakeLock PROVE IInv'
<1> DEFINE t == Head(lockQueue)
<1>1. /\ lock = 0 /\ lockQueue # <<>> /\ lockQueue' = Tail(lockQueue)
      /\ UNCHANGED <<closes, closing, session, known, reader, outbox, native, process, service>>
  BY DEF TakeLock, sessionVars
<1>2. /\ lockQueue' \in Seq(Tasks) /\ t \in Tasks /\ t \in Elems(lockQueue)
      /\ Elems(lockQueue) = Elems(lockQueue') \cup {t}
      /\ \A u : Once(lockQueue, u) => Once(lockQueue', u) /\ (u = t => u \notin Elems(lockQueue'))
  <2>1. lockQueue \in Seq(Tasks)
    BY DEF IInv, TypeOK
  <2> QED  BY <1>1, <2>1, TailElems
<1>3. \/ /\ process # "dead"
         /\ lock' = t
         /\ op' = [op EXCEPT ![t] = IF reader = "reading" THEN "sent" ELSE "unread"]
         /\ inbox' = IF process = "serving" THEN Append(inbox, t) ELSE inbox
         /\ UNCHANGED request
      \/ /\ op' = [op EXCEPT ![t] = "over"]
         /\ request' = [request EXCEPT ![t] = Told(t, "failed")]
         /\ UNCHANGED <<lock, inbox>>
  BY DEF TakeLock
<1> HIDE DEF t
<1>4. op[t] = "queued" /\ request[t] # "none" /\ ~InFlight(t)
  BY <1>2 DEF IInv, TypeOK, SentOnly
<1>5. \A u \in Tasks : op[u] \notin {"sent", "unread"}
  BY <1>1, TaskNumbers DEF IInv, TypeOK
<1>6. \A u \in Tasks : u \in Elems(lockQueue') <=> u \in Elems(lockQueue) /\ u # t
  BY <1>2 DEF IInv, TypeOK
<1>7. CASE /\ lock' = t
           /\ op' = [op EXCEPT ![t] = IF reader = "reading" THEN "sent" ELSE "unread"]
           /\ inbox' = IF process = "serving" THEN Append(inbox, t) ELSE inbox
           /\ UNCHANGED request
  <2>1. /\ inbox' \in Seq(Tasks) /\ Elems(inbox') \subseteq Elems(inbox) \cup {t}
        /\ \A u : Once(inbox, u) /\ (u = t => u \notin Elems(inbox)) => Once(inbox', u)
    <3>1. inbox \in Seq(Tasks)
      BY DEF IInv, TypeOK
    <3>2. CASE process = "serving"
      BY <1>2, <1>7, <3>1, <3>2, AppendElems
    <3>3. CASE process # "serving"
      BY <1>7, <3>1, <3>3
    <3> QED  BY <3>2, <3>3
  <2>2. op'[t] \in {"sent", "unread"} /\ \A u \in Tasks \ {t} : op'[u] = op[u]
    BY <1>2, <1>7 DEF IInv, TypeOK
  <2>3. \A u \in Tasks : InFlight(u)' => InFlight(u) \/ u = t
    BY <1>1, <2>1 DEF InFlight
  <2>4. TypeOK'
    <3>1. op' \in [Tasks -> {"none", "queued", "sent", "unread", "over"}] /\ lock' \in 0..Service
      BY <1>2, <1>7, TaskNumbers DEF IInv, TypeOK
    <3>2. \A u \in Tasks :
            /\ op'[u] \in {"sent", "unread"} <=> lock' = u
            /\ op'[u] = "queued" <=> u \in Elems(lockQueue')
            /\ request'[u] \in {"awaiting", "closing"} => op'[u] \in {"queued", "sent", "unread"}
      BY <1>5, <1>6, <1>7, <2>2 DEF IInv, TypeOK
    <3> QED  BY <1>1, <1>2, <1>7, <2>1, <3>1, <3>2 DEF IInv, TypeOK
  <2>5. Transaction'
    <3> SUFFICES ASSUME reader = "reading", NEW u \in Tasks \ closes
                 PROVE  Alone(u)' /\ (InFlight(u)' => lock' = u)
      BY <1>1 DEF Transaction
    <3>1. Alone(u) /\ ~InFlight(u)
      BY <1>1, TaskNumbers DEF IInv, Transaction
    <3> QED  BY <1>1, <1>7, <2>1, <2>3, <3>1 DEF Alone, InFlight
  <2>6. SentOnly'
    BY <1>1, <1>4, <1>7, <2>2, <2>3 DEF IInv, SentOnly
  <2>7. ClosesInv'
    BY <1>1, <1>7 DEF IInv, ClosesInv
  <2> QED  BY <2>4, <2>5, <2>6, <2>7 DEF IInv
<1>8. CASE /\ op' = [op EXCEPT ![t] = "over"]
           /\ request' = [request EXCEPT ![t] = Told(t, "failed")]
           /\ UNCHANGED <<lock, inbox>>
  <2>1. /\ \A u \in Tasks : request'[u] = IF u = t THEN Told(t, "failed") ELSE request[u]
        /\ \A u \in Tasks : op'[u] = IF u = t THEN "over" ELSE op[u]
    BY <1>8 DEF IInv, TypeOK
  <2>2. /\ ClosesInv'
        /\ \A u \in Tasks : /\ request'[u] \in AtWork \cup Ended \cup {"none"}
                            /\ request'[u] = "none" <=> request[u] = "none"
    BY <1>1, <2>1, SettledInv
  <2>3. TypeOK'
    <3>1. /\ op' \in [Tasks -> {"none", "queued", "sent", "unread", "over"}]
          /\ request' \in [Tasks -> AtWork \cup Ended \cup {"none"}]
      BY <1>2, <1>8, <2>2 DEF IInv, TypeOK
    <3>2. request'[t] \notin {"awaiting", "closing"}
      BY <1>2, <2>1 DEF Told
    <3>3. \A u \in Tasks :
            /\ op'[u] \in {"sent", "unread"} <=> lock' = u
            /\ op'[u] = "queued" <=> u \in Elems(lockQueue')
            /\ request'[u] \in {"awaiting", "closing"} => op'[u] \in {"queued", "sent", "unread"}
      BY <1>4, <1>6, <1>8, <2>1, <3>2 DEF IInv, TypeOK
    <3> QED  BY <1>1, <1>2, <1>8, <3>1, <3>3 DEF IInv, TypeOK
  <2>4. Transaction'
    BY <1>1, <1>8 DEF IInv, Transaction, Alone, InFlight
  <2>5. SentOnly'
    <3>1. \A u \in Tasks : InFlight(u)' => InFlight(u)
      BY <1>1, <1>8 DEF InFlight
    <3> QED  BY <1>1, <1>4, <2>1, <2>2, <3>1 DEF IInv, SentOnly
  <2> QED  BY <2>2, <2>3, <2>4, <2>5 DEF IInv
<1> QED  BY <1>3, <1>7, <1>8

LEMMA ReadMessageInv == ASSUME IInv, ReadMessage PROVE IInv'
<1> DEFINE t == Head(outbox)
<1>1. /\ reader = "reading" /\ outbox # <<>> /\ outbox' = Tail(outbox)
      /\ UNCHANGED <<closes, lockQueue, closing, session, known, reader, inbox, native, process, service>>
  BY DEF ReadMessage, sessionVars
<1>2. /\ outbox' \in Seq(Tasks) /\ t \in Tasks /\ t \in Elems(outbox)
      /\ Elems(outbox) = Elems(outbox') \cup {t}
      /\ \A u : Once(outbox, u) => Once(outbox', u) /\ (u = t => u \notin Elems(outbox'))
  <2>1. outbox \in Seq(Tasks)
    BY DEF IInv, TypeOK
  <2> QED  BY <1>1, <2>1, TailElems
<1>3. IF op[t] = "sent"
      THEN /\ op' = [op EXCEPT ![t] = "over"] /\ lock' = 0
           /\ \E answer \in {"answered", "failed"} : request' = [request EXCEPT ![t] = Told(t, answer)]
      ELSE UNCHANGED <<op, lock, request>>
  BY DEF ReadMessage
<1> HIDE DEF t
<1>4. \A u \in Tasks : (InFlight(u)' => InFlight(u)) /\ (Alone(u) => Alone(u)')
  BY <1>1, <1>2 DEF InFlight, Alone
<1>5. CASE op[t] # "sent"
  <2>1. UNCHANGED <<op, lock, request>>
    BY <1>3, <1>5
  <2>2. TypeOK'
    BY <1>1, <1>2, <2>1 DEF IInv, TypeOK
  <2>3. Transaction' /\ SentOnly' /\ ClosesInv'
    BY <1>1, <1>4, <2>1 DEF IInv, Transaction, SentOnly, ClosesInv
  <2> QED  BY <2>2, <2>3 DEF IInv
<1>6. CASE op[t] = "sent"
  <2>1. lock = t /\ lock' = 0 /\ op' = [op EXCEPT ![t] = "over"]
    BY <1>2, <1>3, <1>6 DEF IInv, TypeOK
  <2>2. PICK answer \in {"answered", "failed"} : request' = [request EXCEPT ![t] = Told(t, answer)]
    BY <1>3, <1>6
  <2>3. /\ \A u \in Tasks : request'[u] = IF u = t THEN Told(t, answer) ELSE request[u]
        /\ \A u \in Tasks : op'[u] = IF u = t THEN "over" ELSE op[u]
    BY <2>1, <2>2 DEF IInv, TypeOK
  <2>4. /\ ClosesInv'
        /\ \A u \in Tasks : /\ request'[u] \in AtWork \cup Ended \cup {"none"}
                            /\ request'[u] = "none" <=> request[u] = "none"
    <3>1. \A u \in Tasks : request'[u] \in {request[u], Told(u, "answered"), Told(u, "failed")}
      BY <2>2, <2>3
    <3> QED  BY <1>1, <3>1, SettledInv
  <2>5. TypeOK'
    <3>1. /\ op' \in [Tasks -> {"none", "queued", "sent", "unread", "over"}]
          /\ request' \in [Tasks -> AtWork \cup Ended \cup {"none"}]
      BY <1>2, <2>1, <2>2, <2>4 DEF IInv, TypeOK
    <3>2. request'[t] \notin {"awaiting", "closing"}
      BY <1>2, <2>2, <2>3 DEF Told
    <3>3. \A u \in Tasks :
            /\ op'[u] \in {"sent", "unread"} <=> lock' = u
            /\ op'[u] = "queued" <=> u \in Elems(lockQueue')
            /\ request'[u] \in {"awaiting", "closing"} => op'[u] \in {"queued", "sent", "unread"}
      BY <1>1, <1>6, <2>1, <2>3, <3>2, TaskNumbers DEF IInv, TypeOK
    <3>4. lock' \in 0..Service
      BY <2>1, TaskNumbers
    <3> QED  BY <1>1, <1>2, <3>1, <3>3, <3>4 DEF IInv, TypeOK
  <2>6. Transaction'
    <3> SUFFICES ASSUME NEW u \in Tasks \ closes PROVE Alone(u)' /\ ~InFlight(u)'
      BY <1>1 DEF Transaction
    <3>1. Alone(u) /\ (InFlight(u) => u = t)
      BY <1>1, <2>1 DEF IInv, Transaction
    <3>2. u = t => ~InFlight(u)'
      BY <1>1, <1>2, <3>1 DEF Alone, InFlight
    <3> QED  BY <1>4, <3>1, <3>2
  <2>7. SentOnly'
    <3>1. request[t] # "none"
      BY <1>2, <1>6 DEF IInv, SentOnly
    <3> QED  BY <1>1, <1>4, <2>3, <2>4, <3>1 DEF IInv, SentOnly
  <2> QED  BY <2>4, <2>5, <2>6, <2>7 DEF IInv
<1> QED  BY <1>5, <1>6

-----------------------------------------------------------------------------
(* Theorems.                                                                 *)

LEMMA NextInv == IInv /\ [Next]_vars => IInv'
<1> SUFFICES ASSUME IInv, [Next]_vars PROVE IInv'
  OBVIOUS
<1>1. CASE TakeLock
  BY <1>1, TakeLockInv
<1>2. CASE ReadMessage
  BY <1>2, ReadMessageInv
<1>3. CASE ReadEnd \/ ReadError
  BY <1>3, ReaderEndsInv DEF ReadEnd, ReadError
<1>4. CASE CloseService
  BY <1>4, CloseServiceInv
<1>5. CASE ServiceClosed \/ EndOfInput
  <2>1. /\ UNCHANGED <<request, closes, op, lock, lockQueue, closing, session, known, reader, inbox, outbox, native, process>>
        /\ \/ service = "open" /\ service' = "draining"
           \/ request[Service] = "answered" /\ service' = "closed"
    BY <1>5 DEF ServiceClosed, EndOfInput, clientVars, invokeVars, sessionVars, nativeVars
  <2>2. TypeOK' /\ Transaction' /\ SentOnly'
    BY <2>1 DEF IInv, TypeOK, Transaction, Alone, SentOnly, InFlight
  <2>3. ClosesInv'
    BY <2>1 DEF IInv, ClosesInv
  <2> QED  BY <2>2, <2>3 DEF IInv
<1>6. ASSUME NEW t \in Tasks, Kill(t) \/ Reap(t)  PROVE IInv'
  BY <1>6, KillInv, ReapInv
<1>7. CASE NativeTakes \/ NativeReturns \/ Exits
  BY <1>7, NativeTakesInv, NativeReturnsInv, ExitsInv
<1>8. CASE Leaves \/ Crashes
  BY <1>8, SocketClosesInv DEF Leaves, Crashes
<1>9. ASSUME NEW r \in Requests, Query(r) \/ CloseSession(r) \/ CloseSessionAgain(r) \/ Cancel(r)  PROVE IInv'
  BY <1>9, QueryInv, CloseSessionInv, CloseAgainInv, CancelInv
<1>10. CASE UNCHANGED vars
  BY <1>10 DEF vars, clientVars, invokeVars, sessionVars, nativeVars,
               IInv, TypeOK, Transaction, Alone, SentOnly, InFlight, ClosesInv
<1> QED  BY <1>1, <1>2, <1>3, <1>4, <1>5, <1>6, <1>7, <1>8, <1>9, <1>10 DEF Next, Loop, Native

LEMMA IInvAlways == Spec => []IInv
BY InitInv, NextInv, PTL DEF Spec

\* The queue of Worker.lock and its holder are what the tasks that run an
\* operation take them for, for any number of requests (process.py:86).
THEOREM TypeCorrect == Spec => []TypeOK
<1>1. IInv => TypeOK
  BY DEF IInv
<1> QED  BY <1>1, IInvAlways, PTL

\* Whoever is cancelled, the process is never sent an operation while it may
\* yet answer another, for any number of requests (process.py:87, 107).
THEOREM OneTransactionAlways == Spec => []OneTransaction
<1>1. IInv => OneTransaction
  <2> SUFFICES ASSUME IInv, reader = "reading", NEW t \in Elems(inbox) \cup Elems(outbox) \cup ({native} \ {0}), t \notin closes
               PROVE  lock = t
    BY DEF OneTransaction
  <2>1. t \in Tasks
    <3>1. \A s \in Seq(Tasks) : Elems(s) \subseteq Tasks
      BY ElementOfSeq DEF Elems
    <3> QED  BY <3>1, TaskNumbers DEF IInv, TypeOK
  <2> QED  BY <2>1 DEF IInv, Transaction, InFlight
<1> QED  BY <1>1, IInvAlways, PTL

\* A session is deleted, and the service closed, with the process ended unless
\* a close of it is at work or was cancelled (process.py:112, service.py:168).
THEOREM NothingLeftAlways == Spec => []NothingLeft
<1>1. IInv => NothingLeft
  BY DEF IInv, TypeOK, ClosesInv, NothingLeft
<1> QED  BY <1>1, IInvAlways, PTL

=============================================================================
