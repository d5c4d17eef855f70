------------------------ MODULE CaptureControlProofs ------------------------
(***************************************************************************)
(* Theorems about FrameCapturers and CaptureControl, for every set of      *)
(* devices and windows, every bound and every fault.                       *)
(***************************************************************************)
EXTENDS CaptureControl, FiniteSetTheorems, NaturalsInduction, WellFoundedInduction, TLAPS

-----------------------------------------------------------------------------
(* The registry alone.                                                       *)

\* A set of natural numbers has a least element.
LEMMA LeastNatural ==
  ASSUME NEW T, T \subseteq Nat, T # {}
  PROVE  \E n \in T : \A m \in T : n <= m
<1> DEFINE R == {ss \in Nat \X Nat : ss[1] < ss[2]}
<1>1. IsWellFoundedOn(R, Nat)
  BY NatLessThanWellFounded DEF OpToRel
<1>2. PICK n \in T : \A m \in T : ~(<<m, n>> \in R)
  <2> HIDE DEF R
  <2> QED BY <1>1, WFMin
<1>3. ASSUME NEW m \in T PROVE n <= m
  <2>1. ~(<<m, n>> \in R)
    <3> HIDE DEF R
    <3> QED BY <1>2
  <2>2. <<m, n>> \in Nat \X Nat
    OBVIOUS
  <2> QED BY <2>1, <2>2
<1> HIDE DEF R
<1> QED BY <1>3

\* The map of windows has a first entry.
LEMMA FirstOfLeast ==
  ASSUME NEW S, S \subseteq Pairs, S # {}
  PROVE  FirstOf(S) \in S /\ \A q \in S : ~Before(q, FirstOf(S))
<1>0. ASSUME NEW p \in S
      PROVE  p = <<p[1], p[2]>> /\ p[1] \in Nat /\ p[2] \in Nat
  <2>1. p \in Devices \X Windows
    BY DEF Pairs
  <2>2. Devices \subseteq Nat /\ Windows \subseteq Nat
    BY RegistryAssumption DEF RegistryAssumption
  <2>3. p = <<p[1], p[2]>> /\ p[1] \in Devices /\ p[2] \in Windows
    BY <2>1
  <2> QED BY <2>2, <2>3
<1> DEFINE Firsts == {p[1] : p \in S}
<1>1. Firsts \subseteq Nat /\ Firsts # {}
  BY <1>0
<1>2. PICK a \in Firsts : \A m \in Firsts : a <= m
  BY <1>1, LeastNatural
<1> DEFINE Seconds == {p[2] : p \in {q \in S : q[1] = a}}
<1>3. Seconds \subseteq Nat /\ Seconds # {}
  BY <1>0, <1>2
<1>4. PICK b \in Seconds : \A m \in Seconds : b <= m
  <2> HIDE DEF Seconds
  <2> QED BY <1>3, LeastNatural
<1>5. PICK p \in S : p[1] = a /\ p[2] = b
  BY <1>4
<1>6. \A q \in S : ~Before(q, p)
  <2> SUFFICES ASSUME NEW q \in S, Before(q, p) PROVE FALSE
    OBVIOUS
  <2>1. q[1] \in Firsts
    OBVIOUS
  <2>2. a <= q[1]
    BY <1>2, <2>1
  <2>3. q[1] = a /\ q[2] < b
    BY <1>0, <1>5, <2>2 DEF Before
  <2>4. q[2] \in Seconds
    BY <2>3
  <2> QED BY <1>0, <1>4, <1>5, <2>3, <2>4
<1> QED BY <1>5, <1>6 DEF FirstOf

-----------------------------------------------------------------------------
\* A registered pair is a pair of a device and a window, which are not NULL, and is
\* itself a handle.
LEMMA RegisteredPairs ==
  ASSUME NEW p \in Registered
  PROVE  /\ p \in Pairs /\ p \in Handles
         /\ p = <<p[1], p[2]>>
         /\ p[1] \in Nat \ {0} /\ p[2] \in Nat \ {0}
<1>1. p \in Devices \X Windows
  BY DEF Registered, Pairs
<1>2. Devices \subseteq Nat \ {0} /\ Windows \subseteq Nat \ {0}
  BY RegistryAssumption DEF RegistryAssumption
<1>3. p = <<p[1], p[2]>> /\ p[1] \in Devices /\ p[2] \in Windows
  BY <1>1
<1> QED BY <1>1, <1>2, <1>3 DEF Pairs, Handles

\* The pair of NULLs is not registered.
LEMMA NoWindowUnregistered == NoWindow \notin Registered
<1> SUFFICES ASSUME NoWindow \in Registered PROVE FALSE
  OBVIOUS
<1>1. NoWindow[1] \in Nat \ {0}
  BY RegisteredPairs
<1> QED BY <1>1 DEF NoWindow, NULL

\* The successor of an erased window is another registered one, if there is one.
LEMMA SuccessorRegistered ==
  ASSUME NEW p \in Registered, Registered # {p}
  PROVE  Successor(p) \in Registered \ {p}
<1>1. Registered \ {p} \subseteq Pairs /\ Registered \ {p} # {}
  BY DEF Registered
<1>2. FirstOf(Registered \ {p}) \in Registered \ {p}
  BY <1>1, FirstOfLeast
<1> QED BY <1>2 DEF Successor

\* The focus key moves to a registered window.
LEMMA NextWindowRegistered ==
  ASSUME NEW p \in Registered
  PROVE  NextWindow(p) \in Registered
<1> DEFINE later == {q \in Registered : Before(p, q)}
<1>1. Registered \subseteq Pairs /\ Registered # {} /\ later \subseteq Pairs
  BY DEF Registered
<1>2. FirstOf(Registered) \in Registered
  BY <1>1, FirstOfLeast
<1>3. CASE later = {}
  BY <1>2, <1>3 DEF NextWindow
<1>4. CASE later # {}
  <2>1. FirstOf(later) \in later
    <3> HIDE DEF later
    <3> QED BY <1>1, <1>4, FirstOfLeast
  <2>2. NextWindow(p) = FirstOf(later)
    BY <1>4 DEF NextWindow
  <2> QED BY <2>1, <2>2
<1> QED BY <1>3, <1>4

-----------------------------------------------------------------------------
RegistryInv == RegistryTypeOK /\ ActiveWindowValid

LEMMA RegistryInitInv == RegistryInit => RegistryInv
<1> SUFFICES ASSUME RegistryInit PROVE RegistryInv
  OBVIOUS
<1>1. RegistryTypeOK
  BY RegistryAssumption DEF RegistryAssumption, RegistryInit, RegistryTypeOK
<1>2. Registered = {}
  BY DEF RegistryInit, Registered
<1> QED BY <1>1, <1>2 DEF RegistryInv, ActiveWindowValid, RegistryInit

\* Adding a swapchain registers its window, and no other.
LEMMA AddRegisters ==
  ASSUME NEW p \in Pairs, RegistryTypeOK, AddFrameCapturer(p)
  PROVE  Registered' = Registered \cup {p}
<1>1. \A q \in Pairs : m_WindowFrameCapturers'[q] = IF q = p THEN m_WindowFrameCapturers[p] + 1
                                                    ELSE m_WindowFrameCapturers[q]
  BY DEF RegistryTypeOK, AddFrameCapturer
<1>2. m_WindowFrameCapturers[p] \in Nat
  BY RegistryAssumption DEF RegistryAssumption, RegistryTypeOK
<1> QED BY <1>1, <1>2 DEF Registered

\* Removing a swapchain unregisters its window when it was the last one.
LEMMA RemoveUnregisters ==
  ASSUME NEW p \in Pairs, RegistryTypeOK, RemoveFrameCapturer(p)
  PROVE  Registered' = IF m_WindowFrameCapturers[p] = 1 THEN Registered \ {p} ELSE Registered
<1>1. \A q \in Pairs : m_WindowFrameCapturers'[q] = IF q = p THEN m_WindowFrameCapturers[p] - 1
                                                    ELSE m_WindowFrameCapturers[q]
  BY DEF RegistryTypeOK, RemoveFrameCapturer
<1>2. m_WindowFrameCapturers[p] \in Nat /\ m_WindowFrameCapturers[p] > 0
  BY RegistryAssumption DEF RegistryAssumption, RegistryTypeOK, RemoveFrameCapturer, Registered
<1> QED BY <1>1, <1>2 DEF Registered

\* Every step keeps the types of the registry, and the active window valid.
LEMMA RegistryStep ==
  ASSUME RegistryInv, [RegistryNext]_registryVars
  PROVE  RegistryInv'
<1> USE DEF RegistryInv
<1> USE RegistryAssumption DEF RegistryAssumption
<1>1. ASSUME NEW d \in Devices, AddDeviceFrameCapturer(d) \/ RemoveDeviceFrameCapturer(d)
      PROVE  RegistryInv'
  <2>1. RegistryTypeOK'
    BY <1>1 DEF RegistryTypeOK, AddDeviceFrameCapturer, RemoveDeviceFrameCapturer
  <2>2. ActiveWindowValid'
    BY <1>1 DEF ActiveWindowValid, Registered, AddDeviceFrameCapturer, RemoveDeviceFrameCapturer
  <2> QED BY <2>1, <2>2
<1>2. ASSUME NEW p \in Pairs, AddFrameCapturer(p)
      PROVE  RegistryInv'
  <2>1. Registered' = Registered \cup {p}
    BY <1>2, AddRegisters
  <2>2. RegistryTypeOK'
    BY <1>2 DEF RegistryTypeOK, AddFrameCapturer
  <2>3. ActiveWindowValid'
    BY <1>2, <2>1, NoWindowUnregistered DEF ActiveWindowValid, AddFrameCapturer
  <2> QED BY <2>2, <2>3
<1>3. ASSUME NEW p \in Pairs, RemoveFrameCapturer(p)
      PROVE  RegistryInv'
  <2>1. Registered' = IF m_WindowFrameCapturers[p] = 1 THEN Registered \ {p} ELSE Registered
    BY <1>3, RemoveUnregisters
  <2>2. p \in Registered /\ Registered \subseteq Pairs
    BY <1>3 DEF RemoveFrameCapturer, Registered
  <2>3. Successor(p) = NoWindow \/ Successor(p) \in Pairs
    BY <2>2, SuccessorRegistered DEF Successor
  <2>4. RegistryTypeOK'
    <3>1. m_WindowFrameCapturers' \in [Pairs -> 0 .. MaxRefs]
      <4>1. m_WindowFrameCapturers[p] - 1 \in 0 .. MaxRefs
        BY <1>3 DEF RemoveFrameCapturer, RegistryTypeOK, Registered
      <4> QED BY <1>3, <4>1 DEF RemoveFrameCapturer, RegistryTypeOK
    <3> QED BY <1>3, <2>3, <3>1 DEF RemoveFrameCapturer, RegistryTypeOK
  <2>5. ActiveWindowValid'
    <3>1. CASE m_WindowFrameCapturers[p] = 1 /\ m_ActiveWindow = p
      <4>1. m_ActiveWindow' = Successor(p) /\ Registered' = Registered \ {p}
        BY <1>3, <2>1, <3>1 DEF RemoveFrameCapturer
      <4>2. CASE Registered = {p}
        BY <4>1, <4>2 DEF Successor, ActiveWindowValid
      <4>3. CASE Registered # {p}
        BY <2>2, <4>1, <4>3, SuccessorRegistered DEF ActiveWindowValid
      <4> QED BY <4>2, <4>3
    <3>2. CASE ~(m_WindowFrameCapturers[p] = 1 /\ m_ActiveWindow = p)
      BY <1>3, <2>1, <2>2, <3>2 DEF RemoveFrameCapturer, ActiveWindowValid
    <3> QED BY <3>1, <3>2
  <2> QED BY <2>4, <2>5
<1>4. ASSUME NEW h \in Handles, SetActiveWindow(h)
      PROVE  RegistryInv'
  <2>1. Registered' = Registered /\ Registered \subseteq Pairs
    BY <1>4 DEF SetActiveWindow, Registered
  <2> QED BY <1>4, <2>1 DEF SetActiveWindow, RegistryTypeOK, ActiveWindowValid
<1>5. CASE CycleWindow
  <2>1. Registered' = Registered /\ Registered \subseteq Pairs
    BY <1>5 DEF CycleWindow, Registered
  <2>2. m_ActiveWindow \in Registered => NextWindow(m_ActiveWindow) \in Registered
    BY NextWindowRegistered
  <2> QED BY <1>5, <2>1, <2>2 DEF CycleWindow, RegistryTypeOK, ActiveWindowValid
<1>6. CASE UNCHANGED registryVars
  BY <1>6 DEF registryVars, RegistryTypeOK, ActiveWindowValid, Registered
<1> QED BY <1>1, <1>2, <1>3, <1>4, <1>5, <1>6 DEF RegistryNext

-----------------------------------------------------------------------------
\* The active window is valid in every reachable state of the registry, however many
\* devices and windows there are and in whatever order they come and go.
THEOREM ActiveWindowAlwaysValid == RegistrySpec => []ActiveWindowValid
<1>1. RegistryInv => ActiveWindowValid
  BY DEF RegistryInv
<1> QED BY <1>1, RegistryInitInv, RegistryStep, PTL DEF RegistrySpec

\* The registry keeps its types.
THEOREM RegistryTypeCorrect == RegistrySpec => []RegistryTypeOK
<1>1. RegistryInv => RegistryTypeOK
  BY DEF RegistryInv
<1> QED BY <1>1, RegistryInitInv, RegistryStep, PTL DEF RegistrySpec

\* Looking only from lower_bound on misses no match: whatever
\* matches a handle does not sort before it, because NULL is the least pointer.
LEMMA MatchFindsAMatch == MatchComplete
<1> SUFFICES ASSUME NEW h \in Handles, NEW p \in Registered, WildcardMatch(p, h)
             PROVE  Closest(h) \in Registered /\ WildcardMatch(Closest(h), h)
  BY DEF MatchComplete
<1> DEFINE matches == {q \in Registered : ~Before(q, h) /\ WildcardMatch(q, h)}
<1>1. ~Before(p, h)
  BY RegisteredPairs DEF WildcardMatch, Before, NULL
<1>2. matches \subseteq Pairs /\ matches # {}
  BY <1>1 DEF Registered
<1>3. FirstOf(matches) \in matches
  <2> HIDE DEF matches
  <2> QED BY <1>2, FirstOfLeast
<1>4. Closest(h) = FirstOf(matches)
  BY <1>2 DEF Closest
<1> QED BY <1>3, <1>4

\* MatchClosestWindow finds a match in every reachable state where there is one.
THEOREM MatchAlwaysComplete == RegistrySpec => []MatchComplete
BY MatchFindsAMatch, PTL

-----------------------------------------------------------------------------
(* The registry under capture control.                                       *)

\* Every step of the drivers, the API and target control is a step of the registry
\* or leaves it alone.
LEMMA StepsRegistry == [Next]_vars => [RegistryNext]_registryVars
<1> SUFFICES ASSUME [Next]_vars PROVE RegistryNext \/ UNCHANGED registryVars
  OBVIOUS
<1> USE DEF registryVars
<1>1. ASSUME NEW h, SetActiveWindow(h) PROVE RegistryNext \/ UNCHANGED registryVars
  <2>1. CASE h \in Handles
    BY <1>1, <2>1 DEF RegistryNext
  <2>2. CASE h \notin Handles
    <3>1. h \notin Registered
      BY <2>2, RegisteredPairs
    <3> QED BY <1>1, <3>1 DEF SetActiveWindow
  <2> QED BY <2>1, <2>2
<1>2. ASSUME NEW d \in Devices, CreateDevice(d) \/ DestroyDevice(d)
      PROVE  RegistryNext
  BY <1>2 DEF CreateDevice, DestroyDevice, RegistryNext
<1>3. ASSUME NEW d \in Devices, NEW w \in Windows, CreateSwapchain(d, w) \/ DestroySwapchain(d, w)
      PROVE  RegistryNext
  <2>1. <<d, w>> \in Pairs
    BY DEF Pairs
  <2> QED BY <1>3, <2>1 DEF CreateSwapchain, DestroySwapchain, RegistryNext
<1>4. ASSUME NEW d \in Devices, NEW w \in Windows, Present(d, w)
      PROVE  RegistryNext \/ UNCHANGED registryVars
  BY <1>4 DEF Present
<1>5. ASSUME NEW t \in Devices, CaptureCall(t)
      PROVE  RegistryNext \/ UNCHANGED registryVars
  <2>1. ASSUME NEW d \in Devices, \/ StartDriver(t, d) \/ EndNothing(t, d) \/ EndSucceeds(t, d)
                                  \/ EndFails(t, d) \/ DiscardDriver(t, d)
        PROVE  UNCHANGED registryVars
    BY <2>1 DEF StartDriver, EndNothing, EndSucceeds, EndFails, DiscardDriver
  <2>2. CASE ReturnToApi(t)
    BY <1>1, <2>2 DEF ReturnToApi
  <2>3. ASSUME \/ NextFrame(t) \/ LookAtWindow(t) \/ Decide(t) \/ Trigger(t) \/ ReadCap(t)
               \/ Decrement(t) \/ MatchWindow(t) \/ NoCapturer(t)
               \/ NameFile(t) \/ CreateFile(t) \/ FinishWriting(t)
        PROVE  UNCHANGED registryVars
    BY <2>3 DEF NextFrame, LookAtWindow, Decide, Trigger, ReadCap, Decrement, MatchWindow, NoCapturer,
                NameFile, CreateFile, FinishWriting
  <2>4. ASSUME \/ ReadCount(t) \/ StoreCount(t) \/ ReturnFromStart(t) \/ ReturnFromEnd(t)
        PROVE  UNCHANGED registryVars
    BY <2>4 DEF ReadCount, StoreCount, ReturnFromStart, ReturnFromEnd
  <2> QED BY <1>5, <2>1, <2>2, <2>3, <2>4 DEF CaptureCall
<1>6. ASSUME NEW t \in Devices, Application(t)
      PROVE  RegistryNext \/ UNCHANGED registryVars
  <2>1. CASE FocusKey(t)
    BY <2>1 DEF FocusKey, RegistryNext
  <2> QED BY <1>6, <2>1 DEF Application, CaptureKey, ApiStart, ApiEnd, ApiTitle
<1>7. ASSUME Outside
      PROVE  RegistryNext \/ UNCHANGED registryVars
  <2>1. ASSUME NEW h, ApiActiveWindow(h)
        PROVE  RegistryNext \/ UNCHANGED registryVars
    BY <1>1, <2>1 DEF ApiActiveWindow
  <2> QED BY <1>7, <2>1 DEF Outside, TriggerCapture, QueueCapture, DeleteFile, ValidateCaptures
<1>8. CASE UNCHANGED vars
  BY <1>8 DEF vars
<1> QED BY <1>2, <1>3, <1>4, <1>5, <1>6, <1>7, <1>8 DEF Next

\* Capture control uses the registry only through its operations.
THEOREM ImplementsRegistry == Spec => RegistrySpec
<1>1. Init => RegistryInit
  BY DEF Init
<1> QED BY <1>1, StepsRegistry, PTL DEF Spec, RegistrySpec

\* So the active window is valid whatever captures are running.
THEOREM CaptureActiveWindowValid == Spec => []ActiveWindowValid
BY ImplementsRegistry, ActiveWindowAlwaysValid, PTL

-----------------------------------------------------------------------------
(* Lemmas about the operators.                                              *)

\* The remainder of a division is in the range of the divisor.
LEMMA Remainder ==
  ASSUME NEW n \in Int, NEW m \in Nat \ {0}
  PROVE  n % m \in 0 .. m - 1
OBVIOUS

\* MatchClosestWindow returns a pair, or the pair of NULLs.
LEMMA ClosestType ==
  ASSUME NEW h
  PROVE  Closest(h) \in Pairs \cup {NoWindow}
<1> DEFINE matches == {p \in Registered : ~Before(p, h) /\ WildcardMatch(p, h)}
<1>1. matches \subseteq Pairs
  BY DEF Registered
<1>2. CASE matches = {}
  BY <1>2 DEF Closest
<1>3. CASE matches # {}
  <2>1. FirstOf(matches) \in matches
    <3> HIDE DEF matches
    <3> QED BY <1>1, <1>3, FirstOfLeast
  <2>2. Closest(h) = FirstOf(matches)
    BY <1>3 DEF Closest
  <2> QED BY <1>1, <2>1, <2>2
<1> QED BY <1>2, <1>3

\* CreateRDC's loop ends: one of the first Len(m_Captures) + 1 names is free, and it
\* takes the first of them.
LEMMA UniquePathFree ==
  ASSUME NEW S, m_Captures \in Seq(S), NEW frame
  PROVE  /\ UniquePath(frame) \in {<<frame, n>> : n \in 1 .. Len(m_Captures) + 1}
         /\ UniquePath(frame) \notin Taken
<1> DEFINE L == Len(m_Captures)
           names == {<<frame, n>> : n \in 1 .. L + 1}
           free == {n \in 1 .. L + 1 : <<frame, n>> \notin Taken}
<1>1. L \in Nat /\ DOMAIN m_Captures = 1 .. L
  OBVIOUS
<1>2. free # {}
  <2> SUFFICES ASSUME \A n \in 1 .. L + 1 : <<frame, n>> \in Taken PROVE FALSE
    OBVIOUS
  <2> DEFINE user == [n \in 1 .. L + 1 |-> CHOOSE i \in 1 .. L : m_Captures[i].path = <<frame, n>>]
  <2>1. ASSUME NEW n \in 1 .. L + 1
        PROVE  user[n] \in 1 .. L /\ m_Captures[user[n]].path = <<frame, n>>
    <3>1. \E i \in 1 .. L : m_Captures[i].path = <<frame, n>>
      BY <1>1 DEF Taken
    <3> QED BY <3>1
  <2> HIDE DEF user, L
  <2>2. user \in [1 .. L + 1 -> 1 .. L]
    BY <2>1 DEF user
  <2>3. IsFiniteSet(1 .. L + 1) /\ IsFiniteSet(1 .. L) /\ Cardinality(1 .. L) < Cardinality(1 .. L + 1)
    <3>1. 1 \in Int /\ L \in Int /\ L + 1 \in Int /\ L >= 0
      BY <1>1
    <3>2. IsFiniteSet(1 .. L) /\ Cardinality(1 .. L) = L
      BY <3>1, FS_Interval
    <3>3. IsFiniteSet(1 .. L + 1) /\ Cardinality(1 .. L + 1) = L + 1
      BY <3>1, FS_Interval
    <3> QED BY <3>1, <3>2, <3>3
  <2>4. PICK x \in 1 .. L + 1, y \in 1 .. L + 1 : x # y /\ user[x] = user[y]
    BY <2>2, <2>3, FS_PigeonHole
  <2>5. <<frame, x>> = <<frame, y>>
    BY <2>1, <2>4
  <2> QED BY <2>4, <2>5
<1>3. PICK n \in free : \A m \in free : n <= m
  <2> free \subseteq Nat
    BY <1>1
  <2> HIDE DEF free
  <2> QED BY <1>2, LeastNatural
<1>4. n \in 1 .. L + 1 /\ <<frame, n>> \notin Taken
  BY <1>3
<1>5. \A m \in 1 .. n - 1 : <<frame, m>> \in Taken
  BY <1>1, <1>3, <1>4
<1> DEFINE p == <<frame, n>>
<1>6. p \in names /\ p \notin Taken /\ \A m \in 1 .. p[2] - 1 : <<frame, m>> \in Taken
  BY <1>4, <1>5
<1> QED BY <1>6 DEF UniquePath

-----------------------------------------------------------------------------
(* The inductive invariant: the types, part by part, and what they rest on.  *)

\* A thread about to decrement m_Cap has seen a trigger; a thread that writes a
\* capture knows whose it is.
CallInv ==
  /\ call \in [Threads -> CallType]
  /\ \A t \in Threads : At(t, "decrement") => call[t].seen \in 1 .. CapMod - 1
  /\ \A t \in Threads : call[t].pc \in {"name", "create", "finish"} => call[t].cap \in Devices

\* A device that still captures has not failed too often.
DriverInv ==
  /\ DriverTypeOK
  /\ \A d \in Devices : capturing[d] => failures[d] <= Retries

TriggerInv ==
  /\ m_Cap \in 0 .. CapMod - 1
  /\ m_QueuedFrameCaptures \subseteq 0 .. FrameMod - 1

\* Between the name of a capture and the end of its file there is a current log file.
OutputInv ==
  /\ m_CurrentLogFile \in Paths \cup {NoFile}
  /\ m_Captures \in Seq([path : Paths, title : Titles \cup {NoTitle}, file : Paths])
  /\ files \subseteq Paths
  /\ \A t \in Threads : call[t].pc \in {"create", "finish"} => m_CurrentLogFile \in Paths

InputInv ==
  /\ m_CapturesActive \in Int
  /\ {m_CaptureTitle, promised} \subseteq Titles \cup {NoTitle}
  /\ appOwes \in Handles \cup {Ended}
  /\ budget \in 0 .. Budget

CaptureInv ==
  /\ RegistryInv /\ CallInv /\ DriverInv /\ TriggerInv /\ OutputInv /\ InputInv
  /\ WriterOwnsCapture

LEMMA InvImpliesTypeOK == CaptureInv => TypeOK
BY DEF CaptureInv, RegistryInv, CallInv, DriverInv, TriggerInv, OutputInv, InputInv, TypeOK

LEMMA IdleType == Idle \in CallType
BY DEF Idle, CallType, NoWindow, NULL, NoFile, Handles

LEMMA InitInv == Init => CaptureInv
<1> SUFFICES ASSUME Init PROVE CaptureInv
  OBVIOUS
<1> USE CaptureAssumption DEF CaptureAssumption, Init
<1>1. RegistryInv
  BY RegistryInitInv
<1>2. CallInv /\ WriterOwnsCapture
  BY IdleType DEF CallInv, WriterOwnsCapture, Writing, At, Idle
<1>3. DriverInv
  BY DEF DriverInv, DriverTypeOK, AppFrame, NULL
<1>4. TriggerInv /\ OutputInv /\ InputInv
  BY DEF TriggerInv, OutputInv, InputInv, Idle
<1> QED BY <1>1, <1>2, <1>3, <1>4 DEF CaptureInv

-----------------------------------------------------------------------------
(* The threads' calls.                                                      *)

\* No thread starts to write a capture, or goes on with it.
Quiet == \A t \in Threads : call'[t].pc \in {"name", "create", "finish"} => call'[t] = call[t]

\* A thread starts to write a capture, or goes on with it.
WritesOn == \E t \in Devices : NameFile(t) \/ CreateFile(t) \/ \E d \in Devices : EndSucceeds(t, d)

\* A thread may move to any control point that needs nothing else.
LEMMA CallMoves ==
  ASSUME CallInv, NEW t \in Threads, NEW r \in CallType,
         r.pc = "decrement" => r.seen \in 1 .. CapMod - 1,
         r.pc \in {"name", "create", "finish"} => r.cap \in Devices,
         call' = [call EXCEPT ![t] = r]
  PROVE  CallInv' /\ (r.pc \notin {"name", "create", "finish"} => Quiet)
<1>1. call' \in [Threads -> CallType]
  BY DEF CallInv
<1>2. \A u \in Threads : call'[u] = IF u = t THEN r ELSE call[u]
  BY DEF CallInv
<1> QED BY <1>1, <1>2 DEF CallInv, At, Quiet

LEMMA CallEnters ==
  ASSUME CallInv, NEW t \in Threads,
         NEW op \in {"start", "end", "discard"}, NEW h \in Handles,
         NEW back \in {"none", "api", "present", "first"},
         Call(t, op, h, back)
  PROVE  CallInv' /\ Quiet
<1> DEFINE r == [Idle EXCEPT !.pc = "match", !.op = op, !.handle = h, !.back = back]
<1>1. r \in CallType /\ r.pc = "match"
  BY IdleType DEF CallType, Idle
<1>2. call' = [call EXCEPT ![t] = r]
  BY DEF Call
<1> HIDE DEF r
<1> QED BY <1>1, <1>2, CallMoves

LEMMA CallReturns ==
  ASSUME CallInv, NEW t \in Threads, call' = [call EXCEPT ![t] = Idle]
  PROVE  CallInv' /\ Quiet
<1>1. Idle.pc = "idle"
  BY DEF Idle
<1> QED BY <1>1, IdleType, CallMoves

\* A Present begins, or a thread goes to look for a trigger.
LEMMA CallBegins ==
  ASSUME CallInv, NEW t \in Threads, NEW h \in Handles, NEW back \in {"present", "first"},
         NEW label \in {"tick", "frame", "trigger"},
         call' = [call EXCEPT ![t] = [Idle EXCEPT !.pc = label, !.handle = h, !.back = back]]
  PROVE  CallInv' /\ Quiet
<1> DEFINE r == [Idle EXCEPT !.pc = label, !.handle = h, !.back = back]
<1>1. r \in CallType /\ r.pc = label
  BY IdleType DEF CallType, Idle
<1> HIDE DEF r
<1> QED BY <1>1, CallMoves DEF r

LEMMA CallResumes ==
  ASSUME CallInv, NEW t \in Threads, 
         NEW label \in {"key", "frame", "look", "trigger", "poll", "return"},
         Resume(t, label)
  PROVE  CallInv' /\ Quiet
<1> DEFINE r == [call[t] EXCEPT !.pc = label]
<1>1. call[t] \in CallType
  BY DEF CallInv
<1>2. r \in CallType /\ r.pc = label
  BY <1>1 DEF CallType
<1>3. call' = [call EXCEPT ![t] = r]
  BY DEF Resume
<1> HIDE DEF r
<1> QED BY <1>2, <1>3, CallMoves

LEMMA CallAnswers ==
  ASSUME CallInv, NEW t \in Threads, NEW ret \in BOOLEAN, Capturer(t) \in Devices, Answer(t, ret)
  PROVE  CallInv' /\ Quiet
<1> DEFINE r == [call[t] EXCEPT !.pc = "count", !.cap = Capturer(t), !.ret = ret]
<1>1. call[t] \in CallType
  BY DEF CallInv
<1>2. r \in CallType /\ r.pc = "count"
  BY <1>1 DEF CallType
<1>3. call' = [call EXCEPT ![t] = r]
  BY <1>1 DEF Answer
<1> HIDE DEF r
<1> QED BY <1>2, <1>3, CallMoves

LEMMA HandleOfPair ==
  ASSUME NEW d \in Devices, NEW w \in Windows \cup {NULL}
  PROVE  <<d, w>> \in Handles
BY DEF Handles

LEMMA TakeQueuedCall ==
  ASSUME CallInv, NEW t \in Threads, NEW trigger \in BOOLEAN,
         TakeQueued(t, trigger)
  PROVE  CallInv' /\ Quiet
<1>1. call[t].handle \in Handles /\ call[t].back \in {"none", "api", "present", "first"}
  BY DEF CallInv, CallType
<1> QED BY <1>1, CallEnters, CallReturns DEF TakeQueued

\* Every step keeps CallInv, and leaves the writing of captures alone unless it is
\* part of it.
LEMMA CallStep ==
  ASSUME CallInv, DriverInv, TriggerInv, OutputInv, InputInv, [Next]_vars
  PROVE  CallInv' /\ (Quiet \/ WritesOn)
<1> USE DEF Threads
<1>0. ASSUME NEW t \in Threads
      PROVE  call[t] \in CallType
  BY DEF CallInv
<1>1. ASSUME NEW d \in Devices, NEW w \in Windows, CreateSwapchain(d, w)
      PROVE  CallInv' /\ Quiet
  BY <1>1, HandleOfPair, CallBegins DEF CreateSwapchain
<1>2. ASSUME NEW d \in Devices, NEW w \in Windows, Present(d, w)
      PROVE  CallInv' /\ Quiet
  <2>1. PICK label \in {"tick", "frame"} :
          call' = [call EXCEPT ![d] = [Idle EXCEPT !.pc = label, !.handle = <<d, w>>, !.back = "present"]]
    BY <1>2 DEF Present
  <2> QED BY <2>1, HandleOfPair, CallBegins
<1>3. ASSUME NEW t \in Devices, ReadCap(t)
      PROVE  CallInv' /\ Quiet
  <2>1. CASE call' = [call EXCEPT ![t].pc = "decrement", ![t].seen = m_Cap] /\ m_Cap > 0
    <3> DEFINE r == [call[t] EXCEPT !.pc = "decrement", !.seen = m_Cap]
    <3>1. m_Cap \in 1 .. CapMod - 1 /\ m_Cap \in Int
      BY <2>1, CaptureAssumption DEF CaptureAssumption, TriggerInv
    <3>2. r \in CallType /\ r.pc = "decrement" /\ r.seen = m_Cap
      BY <1>0, <3>1 DEF CallType
    <3>3. call' = [call EXCEPT ![t] = r]
      BY <2>1
    <3> HIDE DEF r
    <3> QED BY <3>1, <3>2, <3>3, CallMoves
  <2> QED BY <1>3, <2>1, TakeQueuedCall DEF ReadCap
<1>21. ASSUME NEW t \in Devices, NextFrame(t) \/ Trigger(t) \/ FocusKey(t) \/ CaptureKey(t)
       PROVE  CallInv' /\ Quiet
  <2>1. CASE call' = [call EXCEPT ![t] = Idle]
    BY <2>1, CallReturns
  <2>2. CASE \E label \in {"key", "frame", "look", "poll"} : Resume(t, label)
    BY <2>2, CallResumes
  <2>3. Trigger(t) => call' = [call EXCEPT ![t] = Idle] \/ Resume(t, "poll")
    BY DEF Trigger, Resume
  <2> QED BY <1>21, <2>1, <2>2, <2>3 DEF NextFrame, FocusKey, CaptureKey
<1>22. ASSUME NEW t \in Devices, LookAtWindow(t)
       PROVE  CallInv' /\ Quiet
  <2> DEFINE r == [call[t] EXCEPT !.pc = "decide", !.ret = (m_ActiveWindow = call[t].handle)]
  <2>1. r \in CallType /\ r.pc = "decide"
    BY <1>0 DEF CallType
  <2>2. call' = [call EXCEPT ![t] = r]
    BY <1>22 DEF LookAtWindow
  <2> HIDE DEF r
  <2> QED BY <2>1, <2>2, CallMoves
<1>23. ASSUME NEW t \in Devices, Decide(t)
       PROVE  CallInv' /\ Quiet
  <2>1. <<t, firstWindow[t]>> \in Handles /\ call[t].handle \in Handles
    BY <1>0, HandleOfPair DEF DriverInv, DriverTypeOK, CallType
  <2> QED BY <1>23, <2>1, CallEnters, CallReturns, CallResumes DEF Decide
<1>4. ASSUME NEW t \in Devices, Decrement(t)
      PROVE  CallInv' /\ Quiet
  BY <1>4, TakeQueuedCall DEF Decrement
<1>5. ASSUME NEW t \in Devices, MatchWindow(t)
      PROVE  CallInv' /\ Quiet
  <2> DEFINE r == [call[t] EXCEPT !.pc = "find", !.closest = Closest(call[t].handle)]
  <2>1. Closest(call[t].handle) \in Pairs \cup {NoWindow}
    BY ClosestType
  <2>2. r \in CallType /\ r.pc = "find"
    BY <1>0, <2>1 DEF CallType
  <2>3. call' = [call EXCEPT ![t] = r]
    BY <1>5 DEF MatchWindow
  <2> HIDE DEF r
  <2> QED BY <2>2, <2>3, CallMoves
<1>6. ASSUME NEW t \in Devices, NoCapturer(t) \/ StoreCount(t)
      PROVE  CallInv' /\ Quiet
  BY <1>6, CallResumes DEF NoCapturer, StoreCount
<1>7. ASSUME NEW t \in Devices, NEW d \in Devices,
             StartDriver(t, d) \/ EndNothing(t, d) \/ EndFails(t, d) \/ DiscardDriver(t, d)
      PROVE  CallInv' /\ Quiet
  <2>1. capturing[d] \in BOOLEAN
    BY DEF DriverInv, DriverTypeOK
  <2>2. Capturer(t) \in Devices
    BY <1>7 DEF StartDriver, EndNothing, EndFails, DiscardDriver, Asks
  <2>3. \E ret \in BOOLEAN : Answer(t, ret)
    BY <1>7, <2>1 DEF StartDriver, EndNothing, EndFails, DiscardDriver
  <2> QED BY <2>2, <2>3, CallAnswers
<1>8. ASSUME NEW t \in Devices, NEW d \in Devices, EndSucceeds(t, d)
      PROVE  CallInv'
  <2> DEFINE r == [call[t] EXCEPT !.pc = "name", !.cap = d]
  <2>1. r \in CallType /\ r.pc = "name" /\ r.cap = d
    BY <1>0 DEF CallType
  <2>2. call' = [call EXCEPT ![t] = r]
    BY <1>8 DEF EndSucceeds
  <2> HIDE DEF r
  <2> QED BY <2>1, <2>2, CallMoves
<1>9. ASSUME NEW t \in Devices, NameFile(t)
      PROVE  CallInv'
  <2> DEFINE r == [call[t] EXCEPT !.pc = "create"]
  <2>1. r \in CallType /\ r.pc = "create" /\ r.cap = call[t].cap
    BY <1>0 DEF CallType
  <2>2. call[t].cap \in Devices
    BY <1>9 DEF NameFile, At, CallInv
  <2>3. call' = [call EXCEPT ![t] = r]
    BY <1>9 DEF NameFile, Resume
  <2> HIDE DEF r
  <2> QED BY <2>1, <2>2, <2>3, CallMoves
<1>10. ASSUME NEW t \in Devices, CreateFile(t)
       PROVE  CallInv'
  <2>1. PICK f \in {FileName(t), NoFile} :
          call' = [call EXCEPT ![t].pc = "finish", ![t].file = f]
    BY <1>10 DEF CreateFile
  <2>2. f \in Paths \cup {NoFile} /\ call[t].cap \in Devices
    BY <1>10, <2>1 DEF CreateFile, At, FileName, OutputInv, CallInv
  <2> DEFINE r == [call[t] EXCEPT !.pc = "finish", !.file = f]
  <2>3. r \in CallType /\ r.pc = "finish" /\ r.cap = call[t].cap
    BY <1>0, <2>2 DEF CallType
  <2>4. call' = [call EXCEPT ![t] = r]
    BY <2>1
  <2> HIDE DEF r
  <2> QED BY <2>2, <2>3, <2>4, CallMoves
<1>11. ASSUME NEW t \in Devices, FinishWriting(t)
       PROVE  CallInv' /\ Quiet
  <2> DEFINE r == [call[t] EXCEPT !.pc = "count", !.ret = TRUE]
  <2>1. r \in CallType /\ r.pc = "count"
    BY <1>0 DEF CallType
  <2>2. call' = [call EXCEPT ![t] = r]
    BY <1>11 DEF FinishWriting
  <2> HIDE DEF r
  <2> QED BY <2>1, <2>2, CallMoves
<1>12. ASSUME NEW t \in Devices, ReadCount(t)
       PROVE  CallInv' /\ Quiet
  <2> DEFINE r == [call[t] EXCEPT !.pc = "store", !.seen = m_CapturesActive]
  <2>1. r \in CallType /\ r.pc = "store"
    BY <1>0 DEF CallType, InputInv
  <2>2. call' = [call EXCEPT ![t] = r]
    BY <1>12 DEF ReadCount
  <2> HIDE DEF r
  <2> QED BY <2>1, <2>2, CallMoves
<1>13. ASSUME NEW t \in Devices, ReturnFromStart(t) \/ ReturnToApi(t)
       PROVE  CallInv' /\ Quiet
  BY <1>13, CallReturns DEF ReturnFromStart, ReturnToApi
<1>14. ASSUME NEW t \in Devices, ReturnFromEnd(t)
       PROVE  CallInv' /\ Quiet
  <2>1. call[t].handle \in Handles
    BY <1>0 DEF CallType
  <2> QED BY <1>14, <2>1, CallReturns, CallBegins DEF ReturnFromEnd
<1>15. ASSUME NEW t \in Devices, Application(t)
       PROVE  CallInv' /\ Quiet
  <2>1. ASSUME NEW h \in ApiHandles PROVE h \in Handles
    BY <2>1, CaptureAssumption DEF CaptureAssumption
  <2>2. ASSUME NEW h \in ApiHandles, ApiStart(t, h) PROVE CallInv' /\ Quiet
    BY <2>1, <2>2, CallEnters DEF ApiStart
  <2>3. ASSUME NEW h \in ApiHandles, NEW op \in {"end", "discard"}, ApiEnd(t, h, op) PROVE CallInv' /\ Quiet
    BY <2>1, <2>3, CallEnters DEF ApiEnd
  <2>4. ASSUME NEW title, ApiTitle(t, title) PROVE CallInv' /\ Quiet
    BY <2>4 DEF ApiTitle, CallInv, At, Quiet
  <2> QED BY <1>15, <1>21, <2>2, <2>3, <2>4 DEF Application
<1>16. CASE UNCHANGED call
  BY <1>16 DEF CallInv, At, Quiet
<1>17. ASSUME NEW d \in Devices, \/ CreateDevice(d) \/ DestroyDevice(d)
                                 \/ \E w \in Windows : DestroySwapchain(d, w)
       PROVE  UNCHANGED call
  BY <1>17 DEF CreateDevice, DestroyDevice, DestroySwapchain
<1>18. ASSUME Outside PROVE UNCHANGED call
  BY <1>18 DEF Outside, ApiActiveWindow, TriggerCapture, QueueCapture, DeleteFile, ValidateCaptures
<1>19. CASE UNCHANGED vars
  BY <1>16, <1>19 DEF vars
<1>20. ASSUME NEW t \in Devices, CaptureCall(t)
       PROVE  CallInv' /\ (Quiet \/ WritesOn)
  BY <1>3, <1>4, <1>5, <1>6, <1>7, <1>8, <1>9, <1>10, <1>11, <1>12, <1>13, <1>14, <1>20,
     <1>21, <1>22, <1>23 DEF CaptureCall, WritesOn
<1> QED BY <1>1, <1>2, <1>15, <1>16, <1>17, <1>18, <1>19, <1>20 DEF Next

-----------------------------------------------------------------------------
(* The drivers.                                                             *)

LEMMA DriverFrame ==
  ASSUME DriverInv, UNCHANGED driverVars
  PROVE  DriverInv'
BY DEF DriverInv, DriverTypeOK, driverVars

LEMMA TriggerFrameType ==
  ASSUME DriverInv, NEW t \in Threads
  PROVE  TriggerFrame(t) \in 0 .. FrameMod - 1
BY CaptureAssumption DEF CaptureAssumption, Threads, DriverInv, DriverTypeOK, TriggerFrame

LEMMA DriverStep ==
  ASSUME CallInv, DriverInv, [Next]_vars
  PROVE  DriverInv'
<1> USE DEF Threads
<1>0. /\ capturing \in [Devices -> BOOLEAN] /\ appControlled \in [Devices -> BOOLEAN]
      /\ frameNumber \in [Devices -> {AppFrame} \cup (0 .. FrameMod - 1)]
      /\ failures \in [Devices -> 0 .. Retries + 1]
      /\ firstWindow \in [Devices -> Windows \cup {NULL}]
      /\ frameCounter \in [Devices -> 0 .. FrameMod - 1]
      /\ \A d \in Devices : capturing[d] => failures[d] <= Retries
  BY DEF DriverInv, DriverTypeOK
<1>00. Retries \in Nat /\ FrameMod \in Nat \ {0} /\ 0 \in 0 .. FrameMod - 1
  BY CaptureAssumption DEF CaptureAssumption
<1>1. ASSUME NEW d \in Devices, DestroyDevice(d)
      PROVE  DriverInv'
  BY <1>0, <1>00, <1>1 DEF DestroyDevice, DriverInv, DriverTypeOK
<1>2. ASSUME NEW d \in Devices, NextFrame(d)
      PROVE  DriverInv'
  <2>1. frameCounter[d] + 1 \in Int
    BY <1>0, <1>00
  <2>2. (frameCounter[d] + 1) % FrameMod \in 0 .. FrameMod - 1
    BY <1>00, <2>1, Remainder
  <2>3. frameCounter' \in [Devices -> 0 .. FrameMod - 1]
    BY <1>0, <1>2, <2>2 DEF NextFrame
  <2> QED BY <1>0, <1>2, <2>3 DEF NextFrame, DriverInv, DriverTypeOK
<1>3. ASSUME NEW t \in Devices, NEW d \in Devices, StartDriver(t, d)
      PROVE  DriverInv'
  <2>1. CASE capturing[d]
    BY <1>3, <2>1, DriverFrame DEF StartDriver
  <2>2. CASE ~capturing[d]
    <3>1. /\ capturing' = [capturing EXCEPT ![d] = TRUE]
          /\ appControlled' = [appControlled EXCEPT ![d] = TRUE]
          /\ frameNumber' = [frameNumber EXCEPT ![d] = AppFrame]
          /\ failures' = [failures EXCEPT ![d] = 0]
          /\ UNCHANGED <<firstWindow, frameCounter>>
      BY <1>3, <2>2 DEF StartDriver
    <3>2. frameNumber' \in [Devices -> {AppFrame} \cup (0 .. FrameMod - 1)]
      BY <1>0, <3>1
    <3> QED BY <1>0, <1>00, <3>1, <3>2 DEF DriverInv, DriverTypeOK
  <2> QED BY <2>1, <2>2
<1>4. ASSUME NEW t \in Devices, NEW d \in Devices, EndSucceeds(t, d)
      PROVE  DriverInv'
  BY <1>0, <1>00, <1>4 DEF EndSucceeds, DriverInv, DriverTypeOK
<1>5. ASSUME NEW t \in Devices, NEW d \in Devices, EndFails(t, d)
      PROVE  DriverInv'
  <2>1. failures[d] \in Nat /\ failures[d] <= Retries
    BY <1>0, <1>00, <1>5 DEF EndFails
  <2>2. failures[d] + 1 \in 0 .. Retries + 1
    BY <1>00, <2>1
  <2>3. failures' = [failures EXCEPT ![d] = failures[d] + 1]
    BY <1>5 DEF EndFails
  <2>4. failures' \in [Devices -> 0 .. Retries + 1]
    BY <1>0, <2>2, <2>3
  <2>5. GivesUp(d) \in BOOLEAN /\ (~GivesUp(d) => failures[d] + 1 <= Retries)
    BY <1>0, <1>00, <2>1 DEF GivesUp
  <2>6. capturing' = [capturing EXCEPT ![d] = ~GivesUp(d)]
    BY <1>5 DEF EndFails
  <2>7. capturing' \in [Devices -> BOOLEAN]
    BY <1>0, <2>5, <2>6
  <2>8. \A e \in Devices : capturing'[e] => failures'[e] <= Retries
    BY <1>0, <2>3, <2>5, <2>6
  <2>9. frameNumber' \in [Devices -> {AppFrame} \cup (0 .. FrameMod - 1)]
    BY <1>0, <1>5 DEF EndFails
  <2> QED BY <1>0, <1>5, <2>4, <2>7, <2>8, <2>9 DEF EndFails, DriverInv, DriverTypeOK
<1>6. ASSUME NEW t \in Devices, NEW d \in Devices, DiscardDriver(t, d)
      PROVE  DriverInv'
  BY <1>0, <1>6 DEF DiscardDriver, DriverInv, DriverTypeOK
<1>7. ASSUME NEW t \in Devices, FinishWriting(t)
      PROVE  DriverInv'
  BY <1>0, <1>7 DEF FinishWriting, DriverInv, DriverTypeOK
<1>8. ASSUME NEW t \in Devices, ReturnFromStart(t)
      PROVE  DriverInv'
  <2>1. TriggerFrame(t) \in 0 .. FrameMod - 1
    BY TriggerFrameType
  <2>2. call[t].handle[2] \in Windows \cup {NULL}
    BY DEF CallInv, CallType, Handles
  <2>3. frameNumber' \in [Devices -> {AppFrame} \cup (0 .. FrameMod - 1)]
    BY <1>0, <1>8, <2>1 DEF ReturnFromStart
  <2>4. firstWindow' \in [Devices -> Windows \cup {NULL}]
    BY <1>0, <1>8, <2>2 DEF ReturnFromStart
  <2>5. appControlled' \in [Devices -> BOOLEAN]
    BY <1>0, <1>8 DEF ReturnFromStart
  <2> QED BY <1>0, <1>8, <2>3, <2>4, <2>5 DEF ReturnFromStart, DriverInv, DriverTypeOK
<1>9. ASSUME NEW t \in Devices, ReturnFromEnd(t)
      PROVE  DriverInv'
  BY <1>0, <1>9 DEF ReturnFromEnd, DriverInv, DriverTypeOK
<1>10. ASSUME NEW t \in Devices, CaptureCall(t)
       PROVE  DriverInv'
  <2>1. CASE \/ LookAtWindow(t) \/ Decide(t) \/ Trigger(t) \/ ReadCap(t) \/ Decrement(t)
             \/ MatchWindow(t) \/ NoCapturer(t) \/ NameFile(t) \/ CreateFile(t) \/ ReadCount(t) \/ StoreCount(t) \/ ReturnToApi(t)
             \/ \E d \in Devices : EndNothing(t, d)
    <3>1. UNCHANGED driverVars
      BY <2>1 DEF LookAtWindow, Decide, Trigger, ReadCap, Decrement, MatchWindow, NoCapturer, NameFile,
                  CreateFile, ReadCount, StoreCount, ReturnToApi, EndNothing
    <3> QED BY <3>1, DriverFrame
  <2> QED BY <1>2, <1>3, <1>4, <1>5, <1>6, <1>7, <1>8, <1>9, <1>10, <2>1 DEF CaptureCall
<1>11. ASSUME \/ UNCHANGED vars \/ Outside
              \/ \E d \in Devices : \/ CreateDevice(d) \/ Application(d)
                                    \/ \E w \in Windows : \/ CreateSwapchain(d, w) \/ DestroySwapchain(d, w)
                                                          \/ Present(d, w)
       PROVE  DriverInv'
  <2>1. Outside => UNCHANGED driverVars
    BY DEF Outside, ApiActiveWindow, TriggerCapture, QueueCapture, DeleteFile, ValidateCaptures
  <2>2. ASSUME NEW d \in Devices, Application(d) PROVE UNCHANGED driverVars
    BY <2>2 DEF Application, FocusKey, CaptureKey, ApiStart, ApiEnd, ApiTitle
  <2>3. UNCHANGED driverVars
    BY <1>11, <2>1, <2>2 DEF vars, CreateDevice, CreateSwapchain, DestroySwapchain, Present
  <2> QED BY <2>3, DriverFrame
<1> QED BY <1>1, <1>10, <1>11 DEF Next

-----------------------------------------------------------------------------
(* The triggers.                                                            *)

LEMMA TriggerStep ==
  ASSUME CallInv, DriverInv, TriggerInv, [Next]_vars
  PROVE  TriggerInv'
<1> USE DEF Threads
<1>0. /\ CapMod \in Nat \ {0, 1} /\ 0 \in 0 .. CapMod - 1 /\ 1 \in 0 .. CapMod - 1
      /\ TriggerSizes \subseteq 0 .. CapMod - 1 /\ QueueFrames \subseteq 0 .. FrameMod - 1
  BY CaptureAssumption DEF CaptureAssumption
<1>1. ASSUME NEW t \in Devices, FocusKey(t) \/ CaptureKey(t)
      PROVE  TriggerInv'
  BY <1>0, <1>1 DEF FocusKey, CaptureKey, TriggerInv
<1>2. ASSUME NEW t \in Devices, NEW trigger \in BOOLEAN, TakeQueued(t, trigger)
      PROVE  m_QueuedFrameCaptures' \subseteq 0 .. FrameMod - 1
  BY <1>2 DEF TakeQueued, TriggerInv
<1>3. ASSUME NEW t \in Devices, ReadCap(t)
      PROVE  TriggerInv'
  BY <1>2, <1>3 DEF ReadCap, TriggerInv
<1>4. ASSUME NEW t \in Devices, Decrement(t)
      PROVE  TriggerInv'
  <2>1. call[t].seen \in 1 .. CapMod - 1
    BY <1>4 DEF Decrement, CallInv
  <2>2. m_Cap - 1 \in Int
    BY <1>0 DEF TriggerInv
  <2>3. (m_Cap - 1) % CapMod \in 0 .. CapMod - 1
    BY <1>0, <2>2, Remainder
  <2>4. m_Cap' \in 0 .. CapMod - 1
    BY <1>0, <1>4, <2>1, <2>3 DEF Decrement
  <2>5. m_QueuedFrameCaptures' \subseteq 0 .. FrameMod - 1
    BY <1>2, <1>4 DEF Decrement
  <2> QED BY <2>4, <2>5 DEF TriggerInv
<1>5. ASSUME NEW n \in TriggerSizes, TriggerCapture(n)
      PROVE  TriggerInv'
  BY <1>0, <1>5 DEF TriggerCapture, TriggerInv
<1>6. ASSUME NEW f \in QueueFrames, QueueCapture(f)
      PROVE  TriggerInv'
  BY <1>0, <1>6 DEF QueueCapture, TriggerInv
<1>7. CASE UNCHANGED triggerVars
  BY <1>7 DEF triggerVars, TriggerInv
<1>8. ASSUME NEW t \in Devices, CaptureCall(t)
      PROVE  TriggerInv'
  <2>1. CASE \/ MatchWindow(t) \/ NoCapturer(t) \/ NameFile(t) \/ CreateFile(t) \/ FinishWriting(t)
             \/ ReadCount(t) \/ StoreCount(t) \/ ReturnFromStart(t) \/ ReturnFromEnd(t) \/ ReturnToApi(t)
             \/ NextFrame(t) \/ LookAtWindow(t) \/ Decide(t) \/ Trigger(t)
    BY <1>7, <2>1 DEF MatchWindow, NoCapturer, NameFile, CreateFile, FinishWriting, ReadCount,
                      StoreCount, ReturnFromStart, ReturnFromEnd, ReturnToApi,
                      NextFrame, LookAtWindow, Decide, Trigger
  <2>2. ASSUME NEW d \in Devices, \/ StartDriver(t, d) \/ EndNothing(t, d) \/ EndSucceeds(t, d)
                                  \/ EndFails(t, d) \/ DiscardDriver(t, d)
        PROVE  TriggerInv'
    BY <1>7, <2>2 DEF StartDriver, EndNothing, EndSucceeds, EndFails, DiscardDriver
  <2> QED BY <1>3, <1>4, <1>8, <2>1, <2>2 DEF CaptureCall
<1>9. ASSUME Outside
      PROVE  TriggerInv'
  BY <1>5, <1>6, <1>7, <1>9 DEF Outside, ApiActiveWindow, DeleteFile, ValidateCaptures
<1>10. ASSUME \/ UNCHANGED vars
              \/ \E d \in Devices : \/ CreateDevice(d) \/ DestroyDevice(d)
                                    \/ \E w \in Windows : \/ CreateSwapchain(d, w) \/ DestroySwapchain(d, w)
                                                          \/ Present(d, w)
       PROVE  TriggerInv'
  <2>1. UNCHANGED triggerVars
    BY <1>10 DEF vars, CreateDevice, DestroyDevice, CreateSwapchain, DestroySwapchain, Present
  <2> QED BY <1>7, <2>1
<1>11. ASSUME NEW t \in Devices, Application(t)
       PROVE  TriggerInv'
  BY <1>1, <1>7, <1>11 DEF Application, ApiStart, ApiEnd, ApiTitle
<1> QED BY <1>8, <1>11, <1>9, <1>10 DEF Next

-----------------------------------------------------------------------------
(* The files and the list of captures.                                      *)

Captures == [path : Paths, title : Titles \cup {NoTitle}, file : Paths]

\* The name given to a capture is a path.
LEMMA UniquePathType ==
  ASSUME OutputInv, NEW frame \in {AppFrame} \cup (0 .. FrameMod - 1)
  PROVE  UniquePath(frame) \in Paths
<1>1. m_Captures \in Seq(Captures)
  BY DEF OutputInv, Captures
<1>2. PICK n \in 1 .. Len(m_Captures) + 1 : UniquePath(frame) = <<frame, n>>
  BY <1>1, UniquePathFree
<1>3. n \in Nat \ {0}
  BY <1>1
<1> QED BY <1>2, <1>3 DEF Paths

\* What is left of the list are captures that were in it, in the same order.
LEMMA ValidateKeeps ==
  ASSUME NEW S, m_Captures \in Seq(S), ValidateCaptures
  PROVE  /\ m_Captures' \in Seq(S)
         /\ \E index \in [1 .. Len(m_Captures') -> DOMAIN m_Captures] :
              /\ \A i \in 1 .. Len(m_Captures') : m_Captures'[i] = m_Captures[index[i]]
              /\ \A i, j \in 1 .. Len(m_Captures') : i < j => index[i] < index[j]
<1> DEFINE kept == {i \in DOMAIN m_Captures : OnDisk(m_Captures[i])}
           n == Cardinality(kept)
<1>1. n \in Nat
  <2>1. DOMAIN m_Captures = 1 .. Len(m_Captures) /\ Len(m_Captures) \in Nat
    OBVIOUS
  <2>2. IsFiniteSet(DOMAIN m_Captures)
    BY <2>1, FS_Interval
  <2>3. IsFiniteSet(kept)
    BY <2>2, FS_Subset
  <2> HIDE DEF kept
  <2> QED BY <2>3, FS_CardinalityType
<1>2. PICK index \in [1 .. n -> kept] :
        /\ \A i, j \in DOMAIN index : i < j => index[i] < index[j]
        /\ m_Captures' = [i \in DOMAIN index |-> m_Captures[index[i]]]
  BY DEF ValidateCaptures
<1> HIDE DEF n
<1>3. \A i \in 1 .. n : index[i] \in DOMAIN m_Captures
  BY <1>2
<1>4. m_Captures' = [i \in 1 .. n |-> m_Captures[index[i]]]
  BY <1>2
<1>5. \A i \in 1 .. n : m_Captures[index[i]] \in S
  BY <1>3
<1>6. m_Captures' \in Seq(S) /\ Len(m_Captures') = n
  BY <1>1, <1>4, <1>5
<1>7. index \in [1 .. n -> DOMAIN m_Captures]
  BY <1>2
<1> QED BY <1>2, <1>4, <1>6, <1>7

LEMMA OutputFrame ==
  ASSUME OutputInv, UNCHANGED outputVars,
         \A t \in Threads : call'[t].pc \in {"create", "finish"} => call[t].pc \in {"create", "finish"}
  PROVE  OutputInv'
BY DEF OutputInv, outputVars

LEMMA OutputStep ==
  ASSUME CallInv, DriverInv, OutputInv, InputInv, [Next]_vars, Quiet \/ WritesOn
  PROVE  OutputInv'
<1> USE DEF Threads
<1>0. m_Captures \in Seq(Captures)
  BY DEF OutputInv, Captures
<1>1. ASSUME NEW t \in Devices, NameFile(t)
      PROVE  OutputInv'
  <2>1. call[t].cap \in Devices
    BY <1>1 DEF NameFile, At, CallInv
  <2>2. m_CurrentLogFile' \in Paths
    BY <1>1, <2>1, UniquePathType DEF NameFile, DriverInv, DriverTypeOK
  <2> QED BY <1>1, <2>2 DEF NameFile, OutputInv
<1>2. ASSUME NEW t \in Devices, CreateFile(t)
      PROVE  OutputInv'
  <2>1. m_CurrentLogFile \in Paths
    BY <1>2 DEF CreateFile, At, OutputInv
  <2>2. files' \subseteq Paths
    BY <1>2, <2>1 DEF CreateFile, FileName, OutputInv
  <2> QED BY <1>2, <2>1, <2>2 DEF CreateFile, OutputInv
<1>3. ASSUME NEW t \in Devices, FinishWriting(t), Quiet
      PROVE  OutputInv'
  <2>1. m_CurrentLogFile \in Paths /\ call[t].file \in Paths \cup {NoFile}
    BY <1>3 DEF FinishWriting, At, OutputInv, CallInv, CallType
  <2>2. m_Captures' \in Seq(Captures)
    <3>1. CASE call[t].file = NoFile
      BY <1>0, <1>3, <3>1 DEF FinishWriting
    <3>2. CASE call[t].file # NoFile
      <4> DEFINE capture == [path |-> m_CurrentLogFile, title |-> m_CaptureTitle, file |-> call[t].file]
      <4>1. capture \in Captures
        BY <2>1, <3>2 DEF Captures, InputInv
      <4>2. m_Captures' = Append(m_Captures, capture)
        BY <1>3, <3>2 DEF FinishWriting, ListCapture
      <4> HIDE DEF capture
      <4> QED BY <1>0, <4>1, <4>2
    <3> QED BY <3>1, <3>2
  <2>3. m_CurrentLogFile' = m_CurrentLogFile /\ files' = files
    BY <1>3 DEF FinishWriting
  <2> QED BY <2>1, <2>2, <2>3 DEF OutputInv, Captures
<1>4. ASSUME NEW f, DeleteFile(f)
      PROVE  OutputInv'
  BY <1>4 DEF DeleteFile, OutputInv
<1>5. ASSUME ValidateCaptures
      PROVE  OutputInv'
  <2>1. m_Captures' \in Seq(Captures)
    BY <1>0, <1>5, ValidateKeeps
  <2> QED BY <1>5, <2>1 DEF ValidateCaptures, OutputInv, Captures
<1>6. ASSUME UNCHANGED outputVars, Quiet
      PROVE  OutputInv'
  BY <1>6, OutputFrame DEF Quiet
<1>7. ASSUME NEW t \in Devices, NEW d \in Devices, EndSucceeds(t, d)
      PROVE  OutputInv'
  <2>1. \A u \in Devices : u # t => call'[u] = call[u]
    BY <1>7 DEF EndSucceeds, CallInv
  <2>2. call'[t].pc = "name"
    BY <1>7 DEF EndSucceeds, CallInv, CallType
  <2>3. UNCHANGED outputVars
    BY <1>7 DEF EndSucceeds
  <2> QED BY <2>1, <2>2, <2>3, OutputFrame
<1>8. CASE WritesOn
  BY <1>1, <1>2, <1>7, <1>8 DEF WritesOn
<1>9. ASSUME NEW t \in Devices, CaptureCall(t), Quiet
      PROVE  OutputInv'
  <2>1. CASE \/ NextFrame(t) \/ LookAtWindow(t) \/ Decide(t) \/ Trigger(t) \/ ReadCap(t)
             \/ Decrement(t) \/ MatchWindow(t) \/ NoCapturer(t) \/ ReadCount(t)
             \/ StoreCount(t) \/ ReturnFromStart(t) \/ ReturnFromEnd(t) \/ ReturnToApi(t)
    BY <1>6, <1>9, <2>1 DEF NextFrame, LookAtWindow, Decide, Trigger, ReadCap,
                            Decrement, MatchWindow, NoCapturer, ReadCount, StoreCount,
                            ReturnFromStart, ReturnFromEnd, ReturnToApi
  <2>2. ASSUME NEW d \in Devices,
               StartDriver(t, d) \/ EndNothing(t, d) \/ EndFails(t, d) \/ DiscardDriver(t, d)
        PROVE  OutputInv'
    BY <1>6, <1>9, <2>2 DEF StartDriver, EndNothing, EndFails, DiscardDriver
  <2> QED BY <1>1, <1>2, <1>3, <1>7, <1>9, <2>1, <2>2 DEF CaptureCall
<1>10. ASSUME Outside, Quiet
       PROVE  OutputInv'
  BY <1>4, <1>5, <1>6, <1>10 DEF Outside, ApiActiveWindow, TriggerCapture, QueueCapture
<1>11. ASSUME Quiet,
              \/ UNCHANGED vars
              \/ \E d \in Devices : \/ CreateDevice(d) \/ DestroyDevice(d) \/ Application(d)
                                    \/ \E w \in Windows : \/ CreateSwapchain(d, w) \/ DestroySwapchain(d, w)
                                                          \/ Present(d, w)
       PROVE  OutputInv'
  <2>1. ASSUME NEW d \in Devices, Application(d) PROVE UNCHANGED outputVars
    BY <2>1 DEF Application, FocusKey, CaptureKey, ApiStart, ApiEnd, ApiTitle
  <2>2. UNCHANGED outputVars
    BY <1>11, <2>1 DEF vars, CreateDevice, DestroyDevice, CreateSwapchain, DestroySwapchain, Present, outputVars
  <2> QED BY <1>6, <1>11, <2>2
<1> QED BY <1>8, <1>9, <1>10, <1>11 DEF Next

-----------------------------------------------------------------------------
(* The inputs, the titles and the count of captures.                        *)

LEMMA InputStep ==
  ASSUME CallInv, InputInv, [Next]_vars
  PROVE  InputInv'
<1> USE DEF Threads
<1>0. Budget \in Nat /\ ApiHandles \subseteq Handles
  BY CaptureAssumption DEF CaptureAssumption
<1>1. ASSUME \/ Spend \/ UNCHANGED budget
      PROVE  budget' \in 0 .. Budget
  BY <1>0, <1>1 DEF Spend, InputInv
<1>2. ASSUME NEW t \in Devices, CaptureCall(t)
      PROVE  InputInv'
  <2>1. CASE \/ NextFrame(t) \/ LookAtWindow(t) \/ Decide(t) \/ Trigger(t) \/ ReadCap(t)
             \/ Decrement(t) \/ NoCapturer(t) \/ NameFile(t) \/ CreateFile(t)
             \/ ReadCount(t) \/ ReturnFromStart(t) \/ ReturnFromEnd(t) \/ ReturnToApi(t)
    BY <2>1 DEF NextFrame, LookAtWindow, Decide, Trigger, ReadCap, Decrement, NoCapturer, NameFile, CreateFile, ReadCount, ReturnFromStart,
                ReturnFromEnd, ReturnToApi, inputVars, titleVars, InputInv
  <2>2. CASE MatchWindow(t)
    BY <2>2 DEF MatchWindow, ClearTitle, inputVars, titleVars, InputInv
  <2>3. CASE FinishWriting(t)
    BY <2>3 DEF FinishWriting, ListCapture, inputVars, InputInv
  <2>4. CASE StoreCount(t)
    <3>1. call[t].seen \in Int
      BY DEF CallInv, CallType
    <3>2. m_CapturesActive' \in Int
      BY <2>4, <3>1 DEF StoreCount
    <3> QED BY <2>4, <3>2 DEF StoreCount, inputVars, titleVars, InputInv
  <2>5. ASSUME NEW d \in Devices, \/ StartDriver(t, d) \/ EndNothing(t, d) \/ EndSucceeds(t, d)
                                  \/ EndFails(t, d) \/ DiscardDriver(t, d)
        PROVE  InputInv'
    BY <2>5 DEF StartDriver, EndNothing, EndSucceeds, EndFails, DiscardDriver, inputVars, titleVars, InputInv
  <2> QED BY <1>2, <2>1, <2>2, <2>3, <2>4, <2>5 DEF CaptureCall
<1>3. ASSUME NEW t \in Devices, Application(t)
      PROVE  InputInv'
  <2>1. ASSUME NEW h \in ApiHandles, NEW op, ApiStart(t, h) \/ ApiEnd(t, h, op)
        PROVE  InputInv'
    BY <1>0, <1>1, <2>1 DEF ApiStart, ApiEnd, titleVars, InputInv
  <2>2. ASSUME NEW title \in Titles, ApiTitle(t, title)
        PROVE  InputInv'
    BY <1>1, <2>2 DEF ApiTitle, InputInv
  <2>3. ASSUME FocusKey(t) \/ CaptureKey(t)
        PROVE  InputInv'
    BY <1>1, <2>3 DEF FocusKey, CaptureKey, titleVars, InputInv
  <2> QED BY <1>3, <2>1, <2>2, <2>3 DEF Application
<1>4. ASSUME Outside
      PROVE  InputInv'
  BY <1>1, <1>4 DEF Outside, ApiActiveWindow, TriggerCapture, QueueCapture, DeleteFile,
                    ValidateCaptures, inputVars, titleVars, InputInv
<1>5. ASSUME NEW d \in Devices, \/ CreateDevice(d) \/ DestroyDevice(d)
                                \/ \E w \in Windows : CreateSwapchain(d, w) \/ DestroySwapchain(d, w)
      PROVE  InputInv'
  BY <1>1, <1>5 DEF CreateDevice, DestroyDevice, CreateSwapchain, DestroySwapchain, titleVars, InputInv
<1>6. ASSUME NEW d \in Devices, NEW w \in Windows, Present(d, w)
      PROVE  InputInv'
  BY <1>6 DEF Present, inputVars, titleVars, InputInv
<1>7. CASE UNCHANGED vars
  BY <1>7 DEF vars, inputVars, titleVars, InputInv
<1> QED BY <1>2, <1>3, <1>4, <1>5, <1>6, <1>7 DEF Next

-----------------------------------------------------------------------------
(* The ownership of a capture while it is written.                          *)

\* A step that starts no writing, and changes whether a device captures only while its
\* lock is free, keeps the ownership.
LEMMA WriterFrame ==
  ASSUME WriterOwnsCapture, Quiet,
         \A d \in Devices : capturing'[d] = capturing[d] \/ ~Locked(d)
  PROVE  WriterOwnsCapture'
<1> USE DEF Threads
<1>1. \A u \in Devices, d \in Devices : Writing(u, d)' => Writing(u, d)
  BY DEF Quiet, Writing
<1>2. \A u \in Devices, d \in Devices : Writing(u, d)' => capturing'[d]
  BY <1>1 DEF Locked, WriterOwnsCapture
<1> QED BY <1>1, <1>2 DEF WriterOwnsCapture

LEMMA WriterStep ==
  ASSUME CallInv, DriverInv, WriterOwnsCapture, [Next]_vars, Quiet \/ WritesOn
  PROVE  WriterOwnsCapture'
<1> USE DEF Threads
<1>0. capturing \in [Devices -> BOOLEAN]
  BY DEF DriverInv, DriverTypeOK
<1>1. ASSUME NEW t \in Devices, NameFile(t) \/ CreateFile(t)
      PROVE  WriterOwnsCapture'
  <2>1. UNCHANGED capturing
    BY <1>1 DEF NameFile, CreateFile, driverVars
  <2>2. \A u \in Devices : call'[u].cap = call[u].cap /\ (u # t => call'[u] = call[u])
    <3>1. call \in [Devices -> CallType]
      BY DEF CallInv
    <3>2. CASE NameFile(t)
      BY <3>1, <3>2 DEF NameFile, Resume, CallType
    <3>3. CASE CreateFile(t)
      <4>1. PICK f : call' = [call EXCEPT ![t].pc = "finish", ![t].file = f]
        BY <3>3 DEF CreateFile
      <4> QED BY <3>1, <4>1 DEF CallType
    <3> QED BY <1>1, <3>2, <3>3
  <2>3. call[t].pc \in {"name", "create", "finish"}
    BY <1>1 DEF NameFile, CreateFile, At
  <2>4. \A u \in Devices, d \in Devices : Writing(u, d)' => Writing(u, d)
    BY <2>2, <2>3 DEF Writing
  <2> QED BY <2>1, <2>4 DEF WriterOwnsCapture
<1>2. ASSUME NEW t \in Devices, NEW e \in Devices, EndSucceeds(t, e)
      PROVE  WriterOwnsCapture'
  <2>1. UNCHANGED capturing /\ capturing[e] /\ ~Locked(e)
    BY <1>2 DEF EndSucceeds, Asks
  <2>2. \A u \in Devices : u # t => call'[u] = call[u]
    BY <1>2 DEF EndSucceeds, CallInv
  <2>3. call'[t].cap = e
    BY <1>2 DEF EndSucceeds, CallInv, CallType
  <2>4. \A u \in Devices, d \in Devices : Writing(u, d)' => Writing(u, d) \/ (u = t /\ d = e)
    BY <2>2, <2>3 DEF Writing
  <2> QED BY <2>1, <2>4 DEF WriterOwnsCapture, Locked
<1>3. CASE WritesOn
  BY <1>1, <1>2, <1>3 DEF WritesOn
<1>4. ASSUME NEW t \in Devices, FinishWriting(t), Quiet
      PROVE  WriterOwnsCapture'
  <2>1. /\ capturing' = [capturing EXCEPT ![call[t].cap] = FALSE]
        /\ call[t].pc = "finish" /\ call'[t].pc = "count"
    BY <1>4 DEF FinishWriting, At, CallInv, CallType
  <2>2. \A u \in Devices, d \in Devices : Writing(u, d)' => Writing(u, d) /\ u # t
    BY <1>4, <2>1 DEF Quiet, Writing
  <2>3. ASSUME NEW u \in Devices, NEW d \in Devices, Writing(u, d)'
        PROVE  capturing'[d]
    <3>1. Writing(u, d) /\ u # t /\ capturing[d]
      BY <2>2, <2>3 DEF WriterOwnsCapture
    <3>2. d # call[t].cap
      BY <2>1, <3>1 DEF WriterOwnsCapture, Writing
    <3> QED BY <1>0, <2>1, <3>1, <3>2
  <2> QED BY <2>2, <2>3 DEF WriterOwnsCapture
<1>5. ASSUME UNCHANGED capturing, Quiet
      PROVE  WriterOwnsCapture'
  BY <1>5, WriterFrame
<1>6. ASSUME NEW t \in Devices, NEW d \in Devices, Quiet,
             \/ StartDriver(t, d) \/ EndNothing(t, d) \/ EndFails(t, d) \/ DiscardDriver(t, d)
      PROVE  WriterOwnsCapture'
  <2>1. ~Locked(d)
    BY <1>6 DEF StartDriver, EndNothing, EndFails, DiscardDriver, Asks
  <2>2. \A e \in Devices : e # d => capturing'[e] = capturing[e]
    BY <1>0, <1>6 DEF StartDriver, EndNothing, EndFails, DiscardDriver, driverVars
  <2> QED BY <1>6, <2>1, <2>2, WriterFrame
<1>7. ASSUME NEW t \in Devices, CaptureCall(t), Quiet
      PROVE  WriterOwnsCapture'
  <2>1. CASE \/ NextFrame(t) \/ LookAtWindow(t) \/ Decide(t) \/ Trigger(t) \/ ReadCap(t)
             \/ Decrement(t) \/ MatchWindow(t) \/ NoCapturer(t) \/ ReadCount(t)
             \/ StoreCount(t) \/ ReturnFromStart(t) \/ ReturnFromEnd(t) \/ ReturnToApi(t)
    BY <1>5, <1>7, <2>1 DEF NextFrame, LookAtWindow, Decide, Trigger, ReadCap,
                            Decrement, MatchWindow, NoCapturer, ReadCount, StoreCount,
                            ReturnFromStart, ReturnFromEnd, ReturnToApi, driverVars
  <2> QED BY <1>1, <1>2, <1>4, <1>6, <1>7, <2>1 DEF CaptureCall
<1>8. ASSUME NEW d \in Devices, DestroyDevice(d), Quiet
      PROVE  WriterOwnsCapture'
  <2>1. ~Locked(d)
    BY <1>8 DEF DestroyDevice
  <2>2. \A e \in Devices : e # d => capturing'[e] = capturing[e]
    BY <1>0, <1>8 DEF DestroyDevice
  <2> QED BY <1>8, <2>1, <2>2, WriterFrame
<1>9. ASSUME Quiet,
             \/ UNCHANGED vars \/ Outside
             \/ \E d \in Devices : \/ CreateDevice(d) \/ Application(d)
                                   \/ \E w \in Windows : \/ CreateSwapchain(d, w) \/ DestroySwapchain(d, w)
                                                         \/ Present(d, w)
      PROVE  WriterOwnsCapture'
  <2>1. Outside => UNCHANGED capturing
    BY DEF Outside, ApiActiveWindow, TriggerCapture, QueueCapture, DeleteFile, ValidateCaptures, driverVars
  <2>2. ASSUME NEW d \in Devices, Application(d) PROVE UNCHANGED capturing
    BY <2>2 DEF Application, FocusKey, CaptureKey, ApiStart, ApiEnd, ApiTitle, driverVars
  <2>3. UNCHANGED capturing
    BY <1>9, <2>1, <2>2 DEF vars, driverVars, CreateDevice, CreateSwapchain, DestroySwapchain, Present
  <2> QED BY <1>5, <1>9, <2>3
<1> QED BY <1>3, <1>7, <1>8, <1>9 DEF Next

-----------------------------------------------------------------------------
LEMMA InvStep == CaptureInv /\ [Next]_vars => CaptureInv'
<1> SUFFICES ASSUME CaptureInv, [Next]_vars PROVE CaptureInv'
  OBVIOUS
<1> USE DEF CaptureInv
<1>1. RegistryInv'
  BY StepsRegistry, RegistryStep
<1>2. CallInv' /\ (Quiet \/ WritesOn)
  BY CallStep
<1>3. DriverInv' /\ TriggerInv'
  BY DriverStep, TriggerStep
<1>4. OutputInv' /\ InputInv'
  BY <1>2, OutputStep, InputStep
<1>5. WriterOwnsCapture'
  BY <1>2, WriterStep
<1> QED BY <1>1, <1>2, <1>3, <1>4, <1>5

LEMMA InvAlways == Spec => []CaptureInv
BY InitInv, InvStep, PTL DEF Spec

\* Every variable keeps its type: a device gives a failing capture up in time, and the
\* count of captures to trigger stays an unsigned number.
THEOREM TypeCorrect == Spec => []TypeOK
BY InvAlways, InvImpliesTypeOK, PTL

\* Whatever other threads end, discard or start, the capture being written is written
\* by one thread and its device captures until the file is finished.
THEOREM WriterAlwaysOwnsCapture == Spec => []WriterOwnsCapture
<1>1. CaptureInv => WriterOwnsCapture
  BY DEF CaptureInv
<1> QED BY <1>1, InvAlways, PTL

-----------------------------------------------------------------------------
(* With one device, no capture overwrites another.                          *)

\* The list tells where the bytes are, and what is being written is new to it.
FileInv ==
  /\ PathIsFile
  /\ \A i, j \in DOMAIN m_Captures : m_Captures[i].file = m_Captures[j].file => i = j
  /\ \A t \in Threads : call[t].pc \in {"create", "finish"} => m_CurrentLogFile \notin Taken
  /\ \A t \in Threads : At(t, "finish") => call[t].file \in {NoFile, m_CurrentLogFile}

LEMMA FileInvInit == Init => FileInv
BY DEF Init, FileInv, PathIsFile, Idle, At

LEMMA FileInvImplies == OutputInv /\ FileInv => NoStomp /\ PathIsFile
<1> SUFFICES ASSUME OutputInv, FileInv PROVE NoStomp /\ PathIsFile
  OBVIOUS
<1>1. ASSUME NEW t \in Threads, NEW i \in DOMAIN m_Captures, At(t, "finish")
      PROVE  call[t].file # m_Captures[i].file
  <2>1. m_Captures[i].path \in Taken /\ m_Captures[i].path = m_Captures[i].file
    BY DEF Taken, FileInv, PathIsFile
  <2>2. m_Captures[i] \in Captures
    <3>1. m_Captures \in Seq(Captures)
      BY DEF OutputInv, Captures
    <3> QED BY <3>1
  <2>3. NoFile \notin Paths
    BY DEF NoFile, Paths
  <2>4. m_Captures[i].file # NoFile
    BY <2>2, <2>3 DEF Captures
  <2> QED BY <1>1, <2>1, <2>4 DEF FileInv, At
<1> QED BY <1>1 DEF FileInv, NoStomp

\* The list and the name change only where the code names, finishes or drops a capture.
LEMMA ListSteps ==
  ASSUME [Next]_vars
  PROVE  \/ UNCHANGED <<m_Captures, m_CurrentLogFile>>
         \/ ValidateCaptures
         \/ \E t \in Devices : NameFile(t) \/ FinishWriting(t)
<1> USE DEF outputVars
<1>1. ASSUME NEW t \in Devices, CaptureCall(t), ~NameFile(t), ~FinishWriting(t)
      PROVE  UNCHANGED <<m_Captures, m_CurrentLogFile>>
  <2>1. CASE \/ NextFrame(t) \/ LookAtWindow(t) \/ Decide(t) \/ Trigger(t) \/ ReadCap(t)
             \/ Decrement(t) \/ MatchWindow(t) \/ NoCapturer(t) \/ CreateFile(t) \/ ReadCount(t) 
             \/ StoreCount(t) \/ ReturnFromStart(t) \/ ReturnFromEnd(t) \/ ReturnToApi(t)
    BY <2>1 DEF NextFrame, LookAtWindow, Decide, Trigger, ReadCap, Decrement, MatchWindow, NoCapturer, CreateFile, ReadCount, StoreCount,
                ReturnFromStart, ReturnFromEnd, ReturnToApi
  <2>2. ASSUME NEW d \in Devices, \/ StartDriver(t, d) \/ EndNothing(t, d) \/ EndSucceeds(t, d)
                                  \/ EndFails(t, d) \/ DiscardDriver(t, d)
        PROVE  UNCHANGED <<m_Captures, m_CurrentLogFile>>
    BY <2>2 DEF StartDriver, EndNothing, EndSucceeds, EndFails, DiscardDriver
  <2> QED BY <1>1, <2>1, <2>2 DEF CaptureCall
<1>2. ASSUME NEW t \in Devices, Application(t)
      PROVE  UNCHANGED <<m_Captures, m_CurrentLogFile>>
  BY <1>2 DEF Application, FocusKey, CaptureKey, ApiStart, ApiEnd, ApiTitle
<1>3. ASSUME Outside, ~ValidateCaptures
      PROVE  UNCHANGED <<m_Captures, m_CurrentLogFile>>
  BY <1>3 DEF Outside, ApiActiveWindow, TriggerCapture, QueueCapture, DeleteFile
<1>4. ASSUME \/ UNCHANGED vars
             \/ \E d \in Devices : \/ CreateDevice(d) \/ DestroyDevice(d)
                                   \/ \E w \in Windows : \/ CreateSwapchain(d, w) \/ DestroySwapchain(d, w)
                                                         \/ Present(d, w)
      PROVE  UNCHANGED <<m_Captures, m_CurrentLogFile>>
  BY <1>4 DEF vars, CreateDevice, DestroyDevice, CreateSwapchain, DestroySwapchain, Present
<1> QED BY <1>1, <1>2, <1>3, <1>4 DEF Next

LEMMA FileInvStep ==
  ASSUME NEW only, Devices = {only},
         CallInv, OutputInv, InputInv, FileInv, [Next]_vars, Quiet \/ WritesOn
  PROVE  FileInv'
<1> USE DEF Threads
<1>0. m_Captures \in Seq(Captures) /\ call \in [Devices -> CallType]
  BY DEF OutputInv, Captures, CallInv
<1>1. ASSUME NEW t \in Devices, NameFile(t)
      PROVE  FileInv'
  <2>1. m_CurrentLogFile' \notin Taken
    BY <1>0, <1>1, UniquePathFree DEF NameFile
  <2>2. \A u \in Devices : call'[u].pc = "create"
    BY <1>0, <1>1 DEF NameFile, Resume, CallType
  <2>3. UNCHANGED m_Captures /\ Taken' = Taken
    BY <1>1 DEF NameFile, Taken
  <2> QED BY <2>1, <2>2, <2>3 DEF FileInv, PathIsFile, At
<1>2. ASSUME NEW t \in Devices, CreateFile(t)
      PROVE  FileInv'
  <2>1. PICK f \in {NoFile, m_CurrentLogFile} : call' = [call EXCEPT ![t].pc = "finish", ![t].file = f]
    BY <1>2 DEF CreateFile, FileName
  <2>2. \A u \in Devices : call'[u].file = f
    BY <1>0, <2>1 DEF CallType
  <2>3. m_CurrentLogFile \notin Taken
    BY <1>2 DEF CreateFile, At, FileInv
  <2>4. UNCHANGED <<m_Captures, m_CurrentLogFile>> /\ Taken' = Taken
    BY <1>2 DEF CreateFile, Taken
  <2> QED BY <2>2, <2>3, <2>4 DEF FileInv, PathIsFile, At
<1>3. ASSUME NEW t \in Devices, FinishWriting(t)
      PROVE  FileInv'
  <2>1. \A u \in Devices : call'[u].pc = "count"
    BY <1>0, <1>3 DEF FinishWriting, CallType
  <2>2. CASE call[t].file = NoFile
    BY <1>3, <2>1, <2>2 DEF FinishWriting, FileInv, PathIsFile, At
  <2>3. CASE call[t].file # NoFile
    <3> DEFINE capture == [path |-> m_CurrentLogFile, title |-> m_CaptureTitle, file |-> call[t].file]
               L == Len(m_Captures)
    <3>1. m_CurrentLogFile \notin Taken /\ call[t].file = m_CurrentLogFile
      BY <1>3, <2>3 DEF FinishWriting, At, FileInv
    <3>2. capture \in Captures
      BY <1>3, <3>1 DEF FinishWriting, At, OutputInv, Captures, InputInv
    <3>3. m_Captures' = Append(m_Captures, capture)
      BY <1>3, <2>3 DEF FinishWriting, ListCapture
    <3>4. capture.path = capture.file /\ \A i \in 1 .. L : capture.file # m_Captures[i].file
      BY <1>0, <3>1 DEF Taken, FileInv, PathIsFile
    <3> HIDE DEF capture
    <3>5. /\ DOMAIN m_Captures' = 1 .. L + 1 /\ L \in Nat
          /\ \A i \in 1 .. L : m_Captures'[i] = m_Captures[i]
          /\ m_Captures'[L + 1] = capture
      BY <1>0, <3>2, <3>3
    <3>6. DOMAIN m_Captures = 1 .. L
      BY <1>0
    <3>7. PathIsFile'
      BY <3>4, <3>5, <3>6 DEF FileInv, PathIsFile
    <3>8. \A i, j \in DOMAIN m_Captures' : m_Captures'[i].file = m_Captures'[j].file => i = j
      BY <3>4, <3>5, <3>6 DEF FileInv
    <3> QED BY <2>1, <3>7, <3>8 DEF FileInv, At
  <2> QED BY <2>2, <2>3
<1>4. ASSUME ValidateCaptures
      PROVE  FileInv'
  <2>1. PICK index \in [1 .. Len(m_Captures') -> DOMAIN m_Captures] :
          /\ \A i \in 1 .. Len(m_Captures') : m_Captures'[i] = m_Captures[index[i]]
          /\ \A i, j \in 1 .. Len(m_Captures') : i < j => index[i] < index[j]
    BY <1>0, <1>4, ValidateKeeps
  <2>2. m_Captures' \in Seq(Captures)
    BY <1>0, <1>4, ValidateKeeps
  <2>3. /\ DOMAIN m_Captures' = 1 .. Len(m_Captures') /\ Len(m_Captures') \in Nat
        /\ DOMAIN m_Captures \subseteq Nat
    BY <1>0, <2>2
  <2>4. ASSUME NEW i \in DOMAIN m_Captures', NEW j \in DOMAIN m_Captures',
               m_Captures'[i].file = m_Captures'[j].file
        PROVE  i = j
    <3>1. index[i] = index[j]
      BY <2>1, <2>3, <2>4 DEF FileInv
    <3>2. ~(i < j) /\ ~(j < i)
      BY <2>1, <2>3, <3>1
    <3> QED BY <2>3, <3>2
  <2>5. Taken' \subseteq Taken
    BY <2>1, <2>3 DEF Taken
  <2>6. UNCHANGED <<call, m_CurrentLogFile>>
    BY <1>4 DEF ValidateCaptures
  <2>7. PathIsFile'
    BY <2>1, <2>3 DEF FileInv, PathIsFile
  <2> QED BY <2>4, <2>5, <2>6, <2>7 DEF FileInv, At
<1>5. ASSUME UNCHANGED <<m_Captures, m_CurrentLogFile>>,
             \A t \in Devices : call'[t].pc \in {"create", "finish"} => call'[t] = call[t]
      PROVE  FileInv'
  BY <1>5 DEF FileInv, PathIsFile, Taken, At
<1>6. ASSUME NEW t \in Devices, NEW d \in Devices, EndSucceeds(t, d)
      PROVE  FileInv'
  <2>1. \A u \in Devices : call'[u].pc = "name"
    BY <1>0, <1>6 DEF EndSucceeds, CallType
  <2> QED BY <1>5, <1>6, <2>1 DEF EndSucceeds, outputVars
<1>7. CASE Quiet
  BY <1>1, <1>3, <1>4, <1>5, <1>7, ListSteps DEF Quiet
<1> QED BY <1>1, <1>2, <1>6, <1>7 DEF WritesOn

\* With one device, however it is triggered, retried, titled and whatever the disk does,
\* no capture overwrites another and the path listed is the file written.
THEOREM NoStompOneDevice ==
  ASSUME NEW only, Devices = {only}
  PROVE  Spec => [](NoStomp /\ PathIsFile)
<1> DEFINE I == CaptureInv /\ FileInv
<1>1. Init => I
  BY InitInv, FileInvInit
<1>2. I /\ [Next]_vars => I'
  <2> SUFFICES ASSUME I, [Next]_vars PROVE I'
    OBVIOUS
  <2>1. CaptureInv'
    BY InvStep
  <2>2. Quiet \/ WritesOn
    BY CallStep DEF CaptureInv
  <2>3. FileInv'
    BY <2>2, FileInvStep DEF CaptureInv
  <2> QED BY <2>1, <2>3
<1>3. I => NoStomp /\ PathIsFile
  BY FileInvImplies DEF CaptureInv
<1> HIDE DEF I
<1> QED BY <1>1, <1>2, <1>3, PTL DEF Spec

-----------------------------------------------------------------------------
(* With one device, whose thread presents, captures and calls the API.      *)

\* While the device captures, the title kept is the one promised; otherwise none is.  A
\* start on its way has cleared the title, and a triggered one found no capture running.
TitleInv ==
  /\ \A d \in Devices : IF capturing[d] THEN m_CaptureTitle = promised ELSE promised = NoTitle
  /\ \A t \in Threads : At(t, "find") /\ call[t].op = "start" => m_CaptureTitle = NoTitle
  /\ \A t \in Threads :
       call[t].pc \in {"poll", "decrement"} \/ (At(t, "match") /\ call[t].op = "start" /\ call[t].back # "api") => ~capturing[t]

LEMMA OneInit == Init => TitleInv
BY DEF Init, TitleInv, At, Idle, NoTitle

\* A thread that enters a call.
LEMMA EntersCall ==
  ASSUME NEW only, Devices = {only}, CallInv, TitleInv, NEW op, NEW back,
         NEW h, Call(only, op, h, back), UNCHANGED <<capturing, titleVars>>,
         op = "start" /\ back # "api" => ~capturing[only]
  PROVE  TitleInv'
<1>1. call'[only].pc = "match" /\ call'[only].op = op /\ call'[only].back = back
  BY DEF Call, CallInv, Threads, Idle
<1> QED BY <1>1 DEF TitleInv, At, Threads, titleVars

\* One that enters no call, or leaves one.
LEMMA EntersNothing ==
  ASSUME NEW only, Devices = {only}, TitleInv, UNCHANGED <<capturing, titleVars>>,
         call'[only].pc \in {"idle", "tick", "key", "frame", "look", "decide", "trigger",
                            "count", "store", "return"}
  PROVE  TitleInv'
BY DEF TitleInv, At, Threads, titleVars

\* One that looks for a trigger while its device is not capturing.
LEMMA EntersPoll ==
  ASSUME NEW only, Devices = {only}, TitleInv, UNCHANGED <<capturing, titleVars>>,
         call'[only].pc \in {"poll", "decrement"}, ~capturing[only]
  PROVE  TitleInv'
BY DEF TitleInv, At, Threads, titleVars

LEMMA TakeQueuedOne ==
  ASSUME NEW only, Devices = {only}, CallInv, TitleInv, NEW trigger \in BOOLEAN, TakeQueued(only, trigger),
         ~capturing[only], UNCHANGED <<capturing, titleVars>>
  PROVE  TitleInv'
<1>1. CASE Call(only, "start", call[only].handle, call[only].back)
  BY <1>1, EntersCall
<1>2. CASE call' = [call EXCEPT ![only] = Idle]
  <2>1. call'[only].pc = "idle"
    BY <1>2 DEF CallInv, Threads, Idle
  <2> QED BY <2>1, EntersNothing
<1> QED BY <1>1, <1>2 DEF TakeQueued

\* A thread that stays where it is.
LEMMA StaysOne ==
  ASSUME TitleInv, UNCHANGED <<call, capturing, titleVars>>
  PROVE  TitleInv'
BY DEF TitleInv, At, titleVars

\* The locals of the one thread after a step, whatever the step assigns to them.
LEMMA OneCall ==
  ASSUME NEW only, Devices = {only}, CallInv, NEW r, call' = [call EXCEPT ![only] = r]
  PROVE  call'[only] = r
BY DEF CallInv, Threads

\* The one thread returns to its caller.
LEMMA OneReturns ==
  ASSUME NEW only, Devices = {only}, CallInv, TitleInv, UNCHANGED <<capturing, titleVars>>,
         call' = [call EXCEPT ![only] = Idle]
  PROVE  TitleInv'
<1>1. call'[only] = Idle
  BY OneCall
<1>2. call'[only].pc = "idle"
  BY <1>1 DEF Idle
<1> QED BY <1>2, EntersNothing

\* What the one thread does outside a capture: Present, the swapchains, the API's calls.
LEMMA OneEnters ==
  ASSUME NEW only, Devices = {only}, CallInv, TitleInv
  PROVE  /\ \A w \in Windows : CreateSwapchain(only, w) \/ Present(only, w) => TitleInv'
         /\ CreateDevice(only) => TitleInv'
         /\ \A w \in Windows : DestroySwapchain(only, w) => TitleInv'
         /\ Application(only) => TitleInv'
<1>1. ASSUME NEW w \in Windows, CreateSwapchain(only, w)
      PROVE  TitleInv'
  <2>1. call'[only] = [Idle EXCEPT !.pc = "trigger", !.handle = <<only, w>>, !.back = "first"]
    BY <1>1, OneCall DEF CreateSwapchain
  <2>2. call'[only].pc = "trigger"
    BY <2>1 DEF Idle
  <2> QED BY <1>1, <2>2, EntersNothing DEF CreateSwapchain, driverVars
<1>2. ASSUME NEW w \in Windows, Present(only, w)
      PROVE  TitleInv'
  <2>1. PICK label \in {"tick", "frame"} :
          call' = [call EXCEPT ![only] = [Idle EXCEPT !.pc = label, !.handle = <<only, w>>, !.back = "present"]]
    BY <1>2 DEF Present
  <2>2. call'[only] = [Idle EXCEPT !.pc = label, !.handle = <<only, w>>, !.back = "present"]
    BY <2>1, OneCall
  <2>3. call'[only].pc = label
    BY <2>2 DEF Idle
  <2> QED BY <1>2, <2>3, EntersNothing DEF Present, driverVars
<1>3. ASSUME CreateDevice(only)
      PROVE  TitleInv'
  BY <1>3, StaysOne DEF CreateDevice, driverVars
<1>4. ASSUME NEW w \in Windows, DestroySwapchain(only, w)
      PROVE  TitleInv'
  BY <1>4, StaysOne DEF DestroySwapchain, driverVars
<1>5. ASSUME NEW h, ApiStart(only, h)
      PROVE  TitleInv'
  BY <1>5, EntersCall DEF ApiStart, driverVars
<1>6. ASSUME NEW h, NEW op \in {"end", "discard"}, ApiEnd(only, h, op)
      PROVE  TitleInv'
  BY <1>6, EntersCall DEF ApiEnd, driverVars
<1>7. ASSUME NEW title, ApiTitle(only, title)
      PROVE  TitleInv'
  <2>1. /\ call[only].pc = "idle"
        /\ UNCHANGED <<call, capturing>>
        /\ m_CaptureTitle' = title
        /\ promised' = IF capturing[only] THEN title ELSE NoTitle
    BY <1>7 DEF ApiTitle, At, driverVars
  <2> QED BY <2>1 DEF TitleInv, At, Threads
<1>8. ASSUME FocusKey(only) \/ CaptureKey(only)
      PROVE  TitleInv'
  <2>1. call'[only].pc \in {"key", "frame"}
    BY <1>8 DEF FocusKey, CaptureKey, Resume, CallInv, CallType, Threads
  <2> QED BY <1>8, <2>1, EntersNothing DEF FocusKey, CaptureKey, driverVars
<1>9. Application(only) => TitleInv'
  BY <1>5, <1>6, <1>7, <1>8 DEF Application
<1> QED BY <1>1, <1>2, <1>3, <1>4, <1>9

\* What it does in a call before the driver is asked, and after it has answered.
LEMMA OneCalls ==
  ASSUME NEW only, Devices = {only}, CallInv, TitleInv,
         \/ NextFrame(only) \/ LookAtWindow(only) \/ Decide(only) \/ Trigger(only) \/ ReadCap(only)
         \/ Decrement(only) \/ MatchWindow(only) \/ NoCapturer(only) \/ ReadCount(only) \/ StoreCount(only)
         \/ ReturnFromStart(only) \/ ReturnFromEnd(only) \/ ReturnToApi(only)
  PROVE  TitleInv'
<1>0. call[only] \in CallType
  BY DEF CallInv, Threads
<1>1. CASE ReadCap(only)
  <2>1. UNCHANGED <<capturing, titleVars>> /\ call[only].pc = "poll"
    BY <1>1 DEF ReadCap, driverVars, At
  <2>2. ~capturing[only]
    BY <2>1 DEF TitleInv, Threads
  <2>3. CASE call' = [call EXCEPT ![only].pc = "decrement", ![only].seen = m_Cap]
    <3>1. call'[only] = [call[only] EXCEPT !.pc = "decrement", !.seen = m_Cap]
      BY <2>3, <1>0, OneCall DEF CallInv, Threads
    <3>2. call'[only].pc = "decrement"
      BY <3>1, <1>0 DEF CallType
    <3> QED BY <2>1, <2>2, <3>2, EntersPoll
  <2>4. CASE TakeQueued(only, FALSE)
    BY <2>1, <2>2, <2>4, TakeQueuedOne
  <2> QED BY <1>1, <2>3, <2>4 DEF ReadCap
<1>2. CASE Decrement(only)
  <2>1. UNCHANGED <<capturing, titleVars>> /\ call[only].pc = "decrement" /\ TakeQueued(only, TRUE)
    BY <1>2 DEF Decrement, driverVars, At
  <2>2. ~capturing[only]
    BY <2>1 DEF TitleInv, Threads
  <2> QED BY <2>1, <2>2, TakeQueuedOne
<1>7. CASE NextFrame(only) \/ LookAtWindow(only)
  <2>1. UNCHANGED <<capturing, titleVars>>
    BY <1>7 DEF NextFrame, LookAtWindow, driverVars
  <2>2. call'[only].pc \in {"look", "decide"}
    BY <1>0, <1>7 DEF NextFrame, LookAtWindow, Resume, CallType, CallInv, Threads
  <2> QED BY <2>1, <2>2, EntersNothing
<1>8. CASE Decide(only)
  <2>1. UNCHANGED <<capturing, titleVars>>
    BY <1>8 DEF Decide, driverVars
  <2>2. CASE call' = [call EXCEPT ![only] = Idle]
    BY <2>1, <2>2, OneReturns
  <2>3. CASE \E h, back : Call(only, "end", h, back)
    BY <2>1, <2>3, EntersCall
  <2>4. CASE Resume(only, "trigger")
    <3>1. call'[only].pc = "trigger"
      BY <1>0, <2>4 DEF Resume, CallType, CallInv, Threads
    <3> QED BY <2>1, <3>1, EntersNothing
  <2> QED BY <1>8, <2>2, <2>3, <2>4 DEF Decide
<1>9. CASE Trigger(only)
  <2>1. UNCHANGED <<capturing, titleVars>>
    BY <1>9 DEF Trigger, driverVars
  <2>2. CASE capturing[only]
    BY <1>9, <2>1, <2>2, OneReturns DEF Trigger
  <2>3. CASE ~capturing[only]
    <3>1. call'[only].pc = "poll"
      BY <1>0, <1>9, <2>3 DEF Trigger, CallType, CallInv, Threads
    <3> QED BY <2>1, <2>3, <3>1, EntersPoll
  <2> QED BY <2>2, <2>3
<1>3. CASE MatchWindow(only)
  <2>1. UNCHANGED <<capturing, appControlled>> /\ call[only].pc = "match" /\ ClearTitle(only)
    BY <1>3 DEF MatchWindow, driverVars, At
  <2>2. call'[only].pc = "find" /\ call'[only].op = call[only].op /\ call'[only].back = call[only].back
    BY <1>0, <1>3 DEF MatchWindow, CallType, CallInv, Threads
  <2>4. CASE call[only].op = "start"
    <3>1. m_CaptureTitle' = NoTitle /\ promised' = IF call[only].back = "api" THEN NoTitle ELSE promised
      BY <2>1, <2>4 DEF ClearTitle
    <3>2. promised' = NoTitle
      BY <2>1, <2>4, <3>1 DEF TitleInv, At, Threads
    <3> QED BY <2>1, <2>2, <3>1, <3>2 DEF TitleInv, At, Threads
  <2>5. CASE call[only].op # "start"
    BY <2>1, <2>2, <2>5 DEF TitleInv, At, Threads, ClearTitle, titleVars
  <2> QED BY <2>4, <2>5
<1>4. CASE NoCapturer(only) \/ ReadCount(only) \/ StoreCount(only)
  <2>1. UNCHANGED <<capturing, appControlled, titleVars>>
    BY <1>4 DEF NoCapturer, ReadCount, StoreCount, driverVars
  <2>2. call'[only].pc \in {"store", "return"}
    BY <1>0, <1>4 DEF NoCapturer, ReadCount, StoreCount, Resume, CallType, CallInv, Threads
  <2> QED BY <2>1, <2>2, EntersNothing
<1>5. CASE ReturnFromStart(only) \/ ReturnToApi(only)
  <2>1. CASE ReturnFromStart(only)
    <3>1. UNCHANGED <<capturing, titleVars>> /\ call' = [call EXCEPT ![only] = Idle]
      BY <2>1 DEF ReturnFromStart
    <3> QED BY <3>1, OneReturns
  <2>2. CASE ReturnToApi(only)
    <3>1. UNCHANGED <<capturing, titleVars>> /\ call' = [call EXCEPT ![only] = Idle]
      BY <2>2 DEF ReturnToApi, driverVars
    <3> QED BY <3>1, OneReturns
  <2> QED BY <1>5, <2>1, <2>2
<1>6. CASE ReturnFromEnd(only)
  <2>1. UNCHANGED <<capturing, titleVars>>
    BY <1>6 DEF ReturnFromEnd
  <2>2. CASE call' = [call EXCEPT ![only] = Idle]
    BY <2>1, <2>2, OneReturns
  <2>3. CASE call' = [call EXCEPT ![only] = [Idle EXCEPT !.pc = "trigger", !.handle = call[only].handle, !.back = "present"]]
    <3>1. call'[only] = [Idle EXCEPT !.pc = "trigger", !.handle = call[only].handle, !.back = "present"]
      BY <2>3, OneCall
    <3>2. call'[only].pc = "trigger"
      BY <3>1 DEF Idle
    <3> QED BY <2>1, <3>2, EntersNothing
  <2> QED BY <1>6, <2>2, <2>3 DEF ReturnFromEnd
<1> QED BY <1>1, <1>2, <1>3, <1>4, <1>5, <1>6, <1>7, <1>8, <1>9

\* The driver starts a capture, or has none to end.
LEMMA OneStarts ==
  ASSUME NEW only, Devices = {only}, CallInv, DriverInv, TitleInv,
         NEW d \in Devices, StartDriver(only, d) \/ EndNothing(only, d)
  PROVE  TitleInv'
<1>1. call'[only].pc = "count"
  BY DEF StartDriver, EndNothing, Answer, CallInv, CallType, Threads
<1>2. UNCHANGED titleVars
  BY DEF StartDriver, EndNothing
<1>3. CASE UNCHANGED capturing
  BY <1>1, <1>2, <1>3, EntersNothing
<1>4. CASE StartDriver(only, d) /\ ~capturing[only]
  <2>1. call[only].pc = "find" /\ call[only].op = "start"
    BY <1>4 DEF StartDriver, Asks, At
  <2>2. m_CaptureTitle = NoTitle /\ promised = NoTitle
    BY <1>4, <2>1 DEF TitleInv, At, Threads
  <2> QED BY <1>1, <1>2, <2>2 DEF TitleInv, At, Threads, titleVars
<1> QED BY <1>3, <1>4 DEF StartDriver, EndNothing, driverVars

\* A capture that ends takes what was promised with it.
LEMMA OneEnds ==
  ASSUME NEW only, Devices = {only}, CallInv, DriverInv, TitleInv, WriterOwnsCapture,
         NEW d \in Devices, EndFails(only, d) \/ DiscardDriver(only, d) \/ FinishWriting(only)
  PROVE  TitleInv'
<1>0. capturing \in [Devices -> BOOLEAN] /\ call \in [Devices -> CallType]
  BY DEF DriverInv, DriverTypeOK, CallInv, Threads
<1>1. call'[only].pc = "count"
  BY <1>0 DEF EndFails, DiscardDriver, FinishWriting, Answer, CallType
<1>3. CASE EndFails(only, d)
  <2>1. capturing[only] /\ m_CaptureTitle' = m_CaptureTitle
    BY <1>3 DEF EndFails
  <2>2. capturing'[only] = ~GivesUp(only) /\ promised' = IF GivesUp(only) THEN NoTitle ELSE promised
    BY <1>0, <1>3 DEF EndFails
  <2> QED BY <1>1, <2>1, <2>2 DEF TitleInv, At, Threads
<1>4. CASE DiscardDriver(only, d)
  <2>1. ~capturing'[only] /\ promised' = IF capturing[only] THEN NoTitle ELSE promised
    BY <1>0, <1>4 DEF DiscardDriver
  <2> QED BY <1>1, <2>1 DEF TitleInv, At, Threads
<1>5. CASE FinishWriting(only)
  <2>1. call[only].cap = only
    BY <1>5 DEF FinishWriting, At, CallInv, Threads
  <2>2. ~capturing'[only] /\ promised' = NoTitle
    BY <1>0, <1>5, <2>1 DEF FinishWriting
  <2> QED BY <1>1, <2>2 DEF TitleInv, At, Threads
<1> QED BY <1>3, <1>4, <1>5

\* The steps of a thread that writes.
LEMMA OneWrites ==
  ASSUME NEW only, Devices = {only}, CallInv, TitleInv,
         NEW d \in Devices, EndSucceeds(only, d) \/ NameFile(only) \/ CreateFile(only)
  PROVE  TitleInv'
<1>0. call \in [Devices -> CallType]
  BY DEF CallInv, Threads
<1>1. UNCHANGED <<capturing, titleVars>>
  BY DEF EndSucceeds, NameFile, CreateFile, driverVars
<1>3. call'[only].pc \in {"name", "create", "finish"}
  <2>1. CASE EndSucceeds(only, d)
    BY <1>0, <2>1 DEF EndSucceeds, CallType
  <2>2. CASE NameFile(only)
    BY <1>0, <2>2 DEF NameFile, Resume, CallType
  <2>3. CASE CreateFile(only)
    <3>1. PICK f : call' = [call EXCEPT ![only].pc = "finish", ![only].file = f]
      BY <2>3 DEF CreateFile
    <3> QED BY <1>0, <3>1 DEF CallType
  <2> QED BY <2>1, <2>2, <2>3
<1> QED BY <1>1, <1>3 DEF TitleInv, At, Threads, titleVars

\* A device goes with its capture, if it has one.
LEMMA OneDestroyed ==
  ASSUME NEW only, Devices = {only}, DriverInv, TitleInv, DestroyDevice(only)
  PROVE  TitleInv'
<1>0. capturing \in [Devices -> BOOLEAN]
  BY DEF DriverInv, DriverTypeOK
<1>1. call[only].pc = "idle" /\ UNCHANGED call
  BY DEF DestroyDevice, At
<1>2. ~capturing'[only] /\ promised' = IF capturing[only] THEN NoTitle ELSE promised
  BY <1>0 DEF DestroyDevice
<1> QED BY <1>1, <1>2 DEF TitleInv, At, Threads

LEMMA OneStep ==
  ASSUME NEW only, Devices = {only}, CallInv, DriverInv, WriterOwnsCapture, TitleInv, [Next]_vars
  PROVE  TitleInv'
<1>1. ASSUME CaptureCall(only)
      PROVE  TitleInv'
  BY <1>1, OneCalls, OneStarts, OneEnds, OneWrites DEF CaptureCall
<1>2. ASSUME Outside \/ UNCHANGED vars
      PROVE  TitleInv'
  <2>1. UNCHANGED <<call, capturing, titleVars>>
    BY <1>2 DEF Outside, ApiActiveWindow, TriggerCapture, QueueCapture, DeleteFile, ValidateCaptures,
                driverVars, titleVars, vars
  <2> QED BY <2>1, StaysOne
<1> QED BY <1>1, <1>2, OneEnters, OneDestroyed DEF Next

OneInv == CaptureInv /\ TitleInv

LEMMA OneAlways ==
  ASSUME NEW only, Devices = {only}
  PROVE  Spec => []OneInv
<1>1. Init => OneInv
  BY InitInv, OneInit DEF OneInv
<1>2. OneInv /\ [Next]_vars => OneInv'
  BY InvStep, OneStep DEF OneInv, CaptureInv
<1> QED BY <1>1, <1>2, PTL DEF Spec

\* The list grows by a capture at a time, and only where its file is finished.
LEMMA ListGrows ==
  ASSUME OutputInv, InputInv, [Next]_vars, Len(m_Captures') > Len(m_Captures)
  PROVE  \E t \in Devices :
           /\ FinishWriting(t) /\ call[t].file # NoFile
<1>0. m_Captures \in Seq(Captures)
  BY DEF OutputInv, Captures
<1>1. ~ValidateCaptures
  <2> SUFFICES ASSUME ValidateCaptures PROVE FALSE
    OBVIOUS
  <2> DEFINE L == Len(m_Captures)
             n == Len(m_Captures')
  <2>1. m_Captures' \in Seq(Captures)
    BY <1>0, ValidateKeeps
  <2>2. PICK index \in [1 .. n -> DOMAIN m_Captures] :
          \A i, j \in 1 .. n : i < j => index[i] < index[j]
    BY <1>0, ValidateKeeps
  <2>3. L \in Nat /\ n \in Nat /\ DOMAIN m_Captures = 1 .. L /\ L < n
    BY <1>0, <2>1
  <2> HIDE DEF L, n
  <2>4. IsFiniteSet(1 .. n) /\ IsFiniteSet(1 .. L) /\ Cardinality(1 .. L) < Cardinality(1 .. n)
    <3>1. 1 \in Int /\ L \in Int /\ n \in Int
      BY <2>3
    <3>2. IsFiniteSet(1 .. L) /\ Cardinality(1 .. L) = IF 1 > L THEN 0 ELSE L - 1 + 1
      BY <3>1, FS_Interval
    <3>3. IsFiniteSet(1 .. n) /\ Cardinality(1 .. n) = IF 1 > n THEN 0 ELSE n - 1 + 1
      BY <3>1, FS_Interval
    <3> QED BY <2>3, <3>2, <3>3
  <2>5. index \in [1 .. n -> 1 .. L]
    BY <2>2, <2>3
  <2>6. PICK x \in 1 .. n, y \in 1 .. n : x # y /\ index[x] = index[y]
    BY <2>4, <2>5, FS_PigeonHole
  <2>7. x \in Int /\ y \in Int /\ index[x] \in Int /\ index[y] \in Int
    BY <2>3, <2>5
  <2>8. ~(x < y) /\ ~(y < x)
    BY <2>2, <2>6, <2>7
  <2> QED BY <2>6, <2>7, <2>8
<1>2. m_Captures' # m_Captures
  BY <1>0
<1>3. PICK t \in Devices : FinishWriting(t)
  BY <1>1, <1>2, ListSteps DEF NameFile
<1>4. call[t].file # NoFile
  BY <1>2, <1>3 DEF FinishWriting
<1> QED BY <1>3, <1>4

\* With one device a title goes to the first capture to end after SetCaptureTitle, and to
\* no other: however the captures before it were triggered, failed, were discarded or lost
\* their file, StartFrameCapture and FinishCaptureWriting leave no title behind.
THEOREM TitleAppliedOneDevice ==
  ASSUME NEW only, Devices = {only}
  PROVE  Spec => TitleApplied
<1> DEFINE Titled == Len(m_Captures') > Len(m_Captures) => m_Captures'[Len(m_Captures')].title = promised
<1>1. OneInv /\ [Next]_vars => Titled
  <2> SUFFICES ASSUME OneInv, [Next]_vars, Len(m_Captures') > Len(m_Captures)
               PROVE  m_Captures'[Len(m_Captures')].title = promised
    OBVIOUS
  <2>1. PICK t \in Devices : FinishWriting(t) /\ call[t].file # NoFile
    BY ListGrows DEF OneInv, CaptureInv
  <2> DEFINE capture == [path |-> m_CurrentLogFile, title |-> m_CaptureTitle, file |-> call[t].file]
  <2>2. m_Captures' = Append(m_Captures, capture)
    BY <2>1 DEF FinishWriting, ListCapture
  <2>3. m_Captures \in Seq(Captures)
    BY DEF OneInv, CaptureInv, OutputInv, Captures
  <2>4. m_CaptureTitle = promised
    <3>1. call[t].cap \in Devices /\ Writing(t, call[t].cap)
      BY <2>1 DEF FinishWriting, At, Writing, OneInv, CaptureInv, CallInv, Threads
    <3>2. capturing[only]
      BY <3>1 DEF OneInv, CaptureInv, WriterOwnsCapture, Threads
    <3> QED BY <3>2 DEF OneInv, TitleInv
  <2>5. capture.title = promised
    BY <2>4
  <2>6. capture \in Captures
    BY <2>1 DEF OneInv, CaptureInv, OutputInv, InputInv, CallInv, CallType, FinishWriting, At, Captures, Threads
  <2> HIDE DEF capture
  <2>7. Len(m_Captures') = Len(m_Captures) + 1 /\ m_Captures'[Len(m_Captures) + 1] = capture
    BY <2>2, <2>3, <2>6
  <2> QED BY <2>5, <2>7
<1>2. OneInv /\ [Next]_vars => [Titled]_vars
  BY <1>1
<1>3. Spec => []OneInv
  BY OneAlways
<1> QED BY <1>2, <1>3, PTL DEF Spec, TitleApplied

=============================================================================
