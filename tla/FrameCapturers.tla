--------------------------- MODULE FrameCapturers ---------------------------
(***************************************************************************)
(* The registry of frame capturers in renderdoc/core/core.cpp: the windows *)
(* that can be captured, counted by the swapchains that present to them,   *)
(* the devices that can be captured without a window, and the active       *)
(* window, the one that answers to a capture trigger.  Every action is one *)
(* section of m_CapturerListLock.                                          *)
(*                                                                         *)
(* A DeviceOwnedWindow is a pair <<device, windowHandle>>.  Devices and    *)
(* windows are pointers: positive numbers, ordered, with 0 for NULL.  The  *)
(* capturer of a window and of a device is the device itself.              *)
(***************************************************************************)
EXTENDS Integers, FiniteSets

CONSTANTS
  Devices,  \* the device pointers an application may have
  Windows,  \* the window handles it may present to
  MaxRefs   \* bound: swapchains alive on one window

ASSUME RegistryAssumption ==
  /\ Devices \subseteq Nat \ {0}
  /\ Windows \subseteq Nat \ {0}
  /\ MaxRefs \in Nat \ {0}

VARIABLES
  m_WindowFrameCapturers, \* RefCount of each pair, 0 where the map has no entry
  m_DeviceFrameCapturers, \* the devices registered
  m_ActiveWindow

registryVars == <<m_WindowFrameCapturers, m_DeviceFrameCapturers, m_ActiveWindow>>

NULL     == 0
NoWindow == <<NULL, NULL>>
Pairs    == Devices \X Windows
Handles  == (Devices \cup {NULL}) \X (Windows \cup {NULL})

Registered == {p \in Pairs : m_WindowFrameCapturers[p] > 0}

\* DeviceOwnedWindow::operator<
Before(p, q) == p[1] < q[1] \/ (p[1] = q[1] /\ p[2] < q[2])

\* The first of a set of pairs in the order of the map.
FirstOf(S) == CHOOSE p \in S : \A q \in S : ~Before(q, p)

\* wildcardMatch of a registered pair p with a handle h.
WildcardMatch(p, h) ==
  \/ h[1] = NULL /\ h[2] \in {NULL, p[2]}
  \/ h[1] = p[1] /\ h[2] \in {NULL, p[2]}


\* Slip: the search stops where the entries of the handle's device end.
ClosestOfDevice(h) ==
  LET matches == {p \in Registered : ~Before(p, h) /\ p[1] = h[1] /\ WildcardMatch(p, h)}
  IN  IF matches = {} THEN NoWindow ELSE FirstOf(matches)

\* MatchClosestWindow: from lower_bound(h) on, the first pair that matches.
Closest(h) ==
  LET matches == {p \in Registered : ~Before(p, h) /\ WildcardMatch(p, h)}
  IN  IF matches = {} THEN NoWindow ELSE FirstOf(matches)

\* The second half of MatchFrameCapturer, given what MatchClosestWindow found: the
\* device that will be asked to capture, or NULL.
MatchFrameCapturer(h, closest) ==
  IF closest # NoWindow
  THEN IF closest \in Registered THEN closest[1] ELSE NULL
  ELSE IF h[2] # NULL \/ m_DeviceFrameCapturers = {} THEN NULL
  ELSE IF h[1] \in m_DeviceFrameCapturers THEN h[1]
  ELSE CHOOSE d \in m_DeviceFrameCapturers : \A e \in m_DeviceFrameCapturers : d <= e

-----------------------------------------------------------------------------
RegistryInit ==
  /\ m_WindowFrameCapturers = [p \in Pairs |-> 0]
  /\ m_DeviceFrameCapturers = {}
  /\ m_ActiveWindow = NoWindow

AddDeviceFrameCapturer(d) ==
  /\ m_DeviceFrameCapturers' = m_DeviceFrameCapturers \cup {d}
  /\ UNCHANGED <<m_WindowFrameCapturers, m_ActiveWindow>>

RemoveDeviceFrameCapturer(d) ==
  /\ m_DeviceFrameCapturers' = m_DeviceFrameCapturers \ {d}
  /\ UNCHANGED <<m_WindowFrameCapturers, m_ActiveWindow>>

\* The first window seen becomes the active one.
AddFrameCapturer(p) ==
  /\ m_WindowFrameCapturers[p] < MaxRefs
  /\ m_WindowFrameCapturers' = [m_WindowFrameCapturers EXCEPT ![p] = @ + 1]
  /\ m_ActiveWindow' = IF m_ActiveWindow = NoWindow THEN p ELSE m_ActiveWindow
  /\ UNCHANGED m_DeviceFrameCapturers

\* Slip: the active window moves to the first entry, which may be the one going away.
SuccessorAny(p) == FirstOf(Registered)

\* The window that becomes active when the active window p is erased.
Successor(p) == IF Registered = {p} THEN NoWindow ELSE FirstOf(Registered \ {p})

RemoveFrameCapturer(p) ==
  /\ p \in Registered
  /\ m_WindowFrameCapturers' = [m_WindowFrameCapturers EXCEPT ![p] = @ - 1]
  /\ m_ActiveWindow' = IF m_WindowFrameCapturers[p] = 1 /\ m_ActiveWindow = p
                       THEN Successor(p) ELSE m_ActiveWindow
  /\ UNCHANGED m_DeviceFrameCapturers

\* SetActiveWindow ignores a pair that is not registered.
SetActiveWindow(h) ==
  /\ m_ActiveWindow' = IF h \in Registered THEN h ELSE m_ActiveWindow
  /\ UNCHANGED <<m_WindowFrameCapturers, m_DeviceFrameCapturers>>

\* Where the focus key moves the active window, round the map.
NextWindow(p) ==
  LET later == {q \in Registered : Before(p, q)}
  IN  IF later # {} THEN FirstOf(later) ELSE FirstOf(Registered)

\* CycleActiveWindow, but for its reset of m_Cap.
CycleWindow ==
  /\ m_ActiveWindow' = IF Cardinality(Registered) > 1 /\ m_ActiveWindow \in Registered
                       THEN NextWindow(m_ActiveWindow) ELSE m_ActiveWindow
  /\ UNCHANGED <<m_WindowFrameCapturers, m_DeviceFrameCapturers>>

RegistryNext ==
  \/ \E d \in Devices : AddDeviceFrameCapturer(d) \/ RemoveDeviceFrameCapturer(d)
  \/ \E p \in Pairs : AddFrameCapturer(p) \/ RemoveFrameCapturer(p)
  \/ \E h \in Handles : SetActiveWindow(h)
  \/ CycleWindow

RegistrySpec == RegistryInit /\ [][RegistryNext]_registryVars

-----------------------------------------------------------------------------
RegistryTypeOK ==
  /\ m_WindowFrameCapturers \in [Pairs -> 0 .. MaxRefs]
  /\ m_DeviceFrameCapturers \subseteq Devices
  /\ m_ActiveWindow \in Pairs \cup {NoWindow}

\* While any window is registered the active window is one of them, and when none is
\* there is no active window: a trigger always has a window that can answer it, and
\* the active window never names a swapchain that is gone (core.cpp, AddFrameCapturer,
\* RemoveFrameCapturer, SetActiveWindow and CycleActiveWindow together).
ActiveWindowValid ==
  IF Registered = {} THEN m_ActiveWindow = NoWindow ELSE m_ActiveWindow \in Registered

\* MatchClosestWindow finds a window whenever some registered window matches the
\* handle, although it looks only from lower_bound on: no match sorts before it.
MatchComplete ==
  \A h \in Handles : (\E p \in Registered : WildcardMatch(p, h)) =>
    Closest(h) \in Registered /\ WildcardMatch(Closest(h), h)

=============================================================================
