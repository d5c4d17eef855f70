--------------------------- MODULE CaptureControl ---------------------------
(***************************************************************************)
(* How a capture is triggered, started, ended and recorded:                *)
(* renderdoc/core/core.cpp (the triggers, m_CapturesActive, the title, the *)
(* list of captures), the D3D11 driver that answers it                     *)
(* (driver/d3d11/d3d11_device.cpp) and the in-application API              *)
(* (replay/app_api.cpp), on top of the registry of FrameCapturers.         *)
(*                                                                         *)
(* Each device has a render thread, named by the device, which creates its *)
(* swapchains, presents, and may call the API; the target control thread   *)
(* sets triggers at any time.  A step is one lock section or one unlocked  *)
(* access to state that threads share.  A thread inside Start-, End- or    *)
(* DiscardFrameCapture keeps its local variables in call[t].               *)
(***************************************************************************)
EXTENDS FrameCapturers, Sequences

CONSTANTS
  ApiHandles,   \* the (device, window) pairs the application passes to the API
  Titles,       \* the titles it gives to captures
  TriggerSizes, \* the frame counts given to TriggerMultiFrameCapture
  QueueFrames,  \* the frame numbers given to QueueCapture
  Faults,       \* which of "uncapped", "disk", "delete", "teardown" may happen
  Retries,      \* failed captures before a triggered one is given up (5 in the code)
  FrameMod,     \* m_FrameCounter wraps here (2^32 in the code)
  CapMod,       \* m_Cap wraps here (2^32 in the code)
  Budget        \* bound: inputs from the user, the application and the outside

ASSUME CaptureAssumption ==
  /\ ApiHandles \subseteq Handles
  /\ TriggerSizes \subseteq 0 .. CapMod - 1
  /\ QueueFrames \subseteq 0 .. FrameMod - 1
  /\ Faults \subseteq {"uncapped", "disk", "delete", "teardown"}
  /\ {Retries, Budget} \subseteq Nat
  /\ {FrameMod, CapMod} \subseteq Nat \ {0, 1}

VARIABLES
  m_Cap,                 \* captures still to trigger
  m_QueuedFrameCaptures, \* frame numbers to capture
  m_CapturesActive,
  m_CaptureTitle,
  m_CurrentLogFile,
  m_Captures,            \* the captures made; `file' is where the bytes went (history)
  files,                 \* the capture files on disk
  capturing,             \* per device: m_State is ActiveCapturing
  appControlled,         \* per device: m_AppControlledCapture
  frameNumber,           \* per device: m_CapturedFrames.back().frameNumber
  failures,              \* per device: m_Failures
  firstWindow,           \* per device: m_FirstFrameCaptureWindow
  frameCounter,          \* per device: m_FrameCounter
  call,                  \* per thread: its control point and locals
  appOwes,               \* the pair of a capture the application started and did not end
  promised,              \* the title SetCaptureTitle owes the next capture to end (history)
  budget                 \* inputs left

driverVars  == <<capturing, appControlled, frameNumber, failures, firstWindow, frameCounter>>
triggerVars == <<m_Cap, m_QueuedFrameCaptures>>
outputVars  == <<m_CurrentLogFile, m_Captures, files>>
titleVars   == <<m_CaptureTitle, promised>>
inputVars   == <<appOwes, budget>>
vars == <<registryVars, driverVars, triggerVars, outputVars, titleVars, inputVars,
          m_CapturesActive, call>>

Threads  == Devices
AppFrame == -1          \* ~0U: a capture the application controls has no frame number
NoTitle  == "none"
NoFile   == <<0, 0>>
Ended    == <<-1, -1>> \* the application owes no end

Idle == [pc |-> "idle", op |-> "none", back |-> "none", handle |-> NoWindow,
         closest |-> NoWindow, cap |-> NULL, seen |-> 0, ret |-> FALSE, file |-> NoFile]

Spend == budget > 0 /\ budget' = budget - 1

At(t, label) == call[t].pc = label

Resume(t, label) == call' = [call EXCEPT ![t].pc = label]

\* The caller enters op on handle h, and continues at `back' when it returns.
Call(t, op, h, back) ==
  call' = [call EXCEPT ![t] = [Idle EXCEPT !.pc = "match", !.op = op, !.handle = h, !.back = back]]

\* m_D3DLock of device d is held by a thread that writes d's capture.
Writing(t, d) == call[t].cap = d /\ call[t].pc \in {"name", "create", "finish"}
Locked(d) == \E t \in Threads : Writing(t, d)

Init ==
  /\ RegistryInit
  /\ m_Cap = 0 /\ m_QueuedFrameCaptures = {}
  /\ m_CapturesActive = 0
  /\ m_CaptureTitle = NoTitle /\ promised = NoTitle
  /\ m_CurrentLogFile = NoFile /\ m_Captures = <<>> /\ files = {}
  /\ capturing = [d \in Devices |-> FALSE]
  /\ appControlled = [d \in Devices |-> FALSE]
  /\ frameNumber = [d \in Devices |-> AppFrame]
  /\ failures = [d \in Devices |-> 0]
  /\ firstWindow = [d \in Devices |-> NULL]
  /\ frameCounter = [d \in Devices |-> 0]
  /\ call = [t \in Threads |-> Idle]
  /\ appOwes = Ended
  /\ budget = Budget

-----------------------------------------------------------------------------
(* Devices and swapchains.                                                  *)

CreateDevice(d) ==
  /\ d \notin m_DeviceFrameCapturers
  /\ Spend
  /\ AddDeviceFrameCapturer(d)
  /\ UNCHANGED <<driverVars, triggerVars, outputVars, titleVars, m_CapturesActive, call, appOwes>>

\* ~WrappedID3D11Device: its members go with it; a new device may get the same address.
\* The destructor does not take m_D3DLock: one that runs while another thread is inside
\* the driver's EndFrameCapture frees what that thread uses, and what happens then is
\* undefined, so the model does not follow it.
DestroyDevice(d) ==
  /\ "teardown" \in Faults
  /\ d \in m_DeviceFrameCapturers
  /\ At(d, "idle")
  /\ \A p \in Registered : p[1] # d
  /\ ~Locked(d)
  /\ Spend
  /\ RemoveDeviceFrameCapturer(d)
  /\ capturing' = [capturing EXCEPT ![d] = FALSE]
  /\ appControlled' = [appControlled EXCEPT ![d] = FALSE]
  /\ frameNumber' = [frameNumber EXCEPT ![d] = AppFrame]
  /\ failures' = [failures EXCEPT ![d] = 0]
  /\ firstWindow' = [firstWindow EXCEPT ![d] = NULL]
  /\ frameCounter' = [frameCounter EXCEPT ![d] = 0]
  /\ promised' = IF capturing[d] THEN NoTitle ELSE promised
  /\ UNCHANGED <<triggerVars, outputVars, m_CaptureTitle, m_CapturesActive, call, appOwes>>

\* The swapchain wrapper registers its window, then FirstFrame looks for a trigger.
CreateSwapchain(d, w) ==
  /\ d \in m_DeviceFrameCapturers
  /\ At(d, "idle")
  /\ Spend
  /\ AddFrameCapturer(<<d, w>>)
  /\ call' = [call EXCEPT ![d] = [Idle EXCEPT !.pc = "trigger", !.handle = <<d, w>>, !.back = "first"]]
  /\ UNCHANGED <<driverVars, triggerVars, outputVars, titleVars, m_CapturesActive, appOwes>>

DestroySwapchain(d, w) ==
  /\ "teardown" \in Faults
  /\ At(d, "idle")
  /\ Spend
  /\ RemoveFrameCapturer(<<d, w>>)
  /\ UNCHANGED <<driverVars, triggerVars, outputVars, titleVars, m_CapturesActive, call, appOwes>>

-----------------------------------------------------------------------------
(* Present.                                                                 *)

\* Present begins: Tick runs only if the device is not capturing.
Present(d, w) ==
  /\ At(d, "idle")
  /\ <<d, w>> \in Registered
  /\ call' = [call EXCEPT ![d] = [Idle EXCEPT !.pc = IF capturing[d] THEN "frame" ELSE "tick",
                                             !.handle = <<d, w>>, !.back = "present"]]
  /\ UNCHANGED <<registryVars, driverVars, triggerVars, outputVars, titleVars, inputVars, m_CapturesActive>>

\* Tick: the focus key cycles the active window and forgets pending triggers.
FocusKey(d) ==
  /\ At(d, "tick")
  /\ Spend
  /\ CycleWindow
  /\ m_Cap' = 0
  /\ Resume(d, "key")
  /\ UNCHANGED <<driverVars, m_QueuedFrameCaptures, outputVars, titleVars, appOwes, m_CapturesActive>>

\* Tick: the capture key triggers one frame.
CaptureKey(d) ==
  /\ call[d].pc \in {"tick", "key"}
  /\ Spend
  /\ m_Cap' = 1
  /\ Resume(d, "frame")
  /\ UNCHANGED <<registryVars, driverVars, m_QueuedFrameCaptures, outputVars, titleVars, appOwes, m_CapturesActive>>

NextFrame(d) ==
  /\ call[d].pc \in {"tick", "key", "frame"}
  /\ frameCounter' = [frameCounter EXCEPT ![d] = (@ + 1) % FrameMod]
  /\ Resume(d, "look")
  /\ UNCHANGED <<registryVars, capturing, appControlled, frameNumber, failures, firstWindow,
                 triggerVars, outputVars, titleVars, inputVars, m_CapturesActive>>

\* IsActiveWindow, under its lock; the answer is a local of Present.
LookAtWindow(d) ==
  /\ At(d, "look")
  /\ call' = [call EXCEPT ![d].pc = "decide", ![d].ret = (m_ActiveWindow = call[d].handle)]
  /\ UNCHANGED <<registryVars, driverVars, triggerVars, outputVars, titleVars, inputVars, m_CapturesActive>>

\* Slip: the capture goes on while frames of TriggerMultiFrameCapture remain.
EndsAtLast(d) == capturing[d] /\ ~appControlled[d] /\ m_Cap = 0

\* "kill any current capture that isn't application defined".  The code reads m_State
\* and then m_AppControlledCapture, neither under a lock; between the reads others can
\* only set the second, so the outcome is that of one read of both at one of the two
\* moments.
EndsTriggered(d) == capturing[d] /\ ~appControlled[d]

\* On an inactive window Present ends the capture of frame 0 only; on the active one it
\* ends a triggered capture, or goes on to look for a trigger.
Decide(d) ==
  /\ At(d, "decide")
  /\ IF ~call[d].ret
     THEN IF firstWindow[d] # NULL /\ capturing[d]
          THEN Call(d, "end", <<d, firstWindow[d]>>, "first")
          ELSE call' = [call EXCEPT ![d] = Idle]
     ELSE IF EndsTriggered(d)
          THEN Call(d, "end", call[d].handle, "present")
          ELSE Resume(d, "trigger")
  /\ UNCHANGED <<registryVars, driverVars, triggerVars, outputVars, titleVars, inputVars, m_CapturesActive>>

\* The frame number the thread passes to ShouldTriggerCapture.
TriggerFrame(t) == IF call[t].back = "first" THEN 0 ELSE frameCounter[t]

\* The queue of ShouldTriggerCapture: past frames are dropped, later ones kept.
TakeQueued(t, trigger) ==
  /\ m_QueuedFrameCaptures' = {f \in m_QueuedFrameCaptures : f > TriggerFrame(t)}
  /\ IF trigger \/ TriggerFrame(t) \in m_QueuedFrameCaptures
     THEN Call(t, "start", call[t].handle, call[t].back)
     ELSE call' = [call EXCEPT ![t] = Idle]

\* ShouldTriggerCapture is called unless the device is capturing.
Trigger(t) ==
  /\ At(t, "trigger")
  /\ call' = [call EXCEPT ![t] = IF capturing[t] THEN Idle ELSE [@ EXCEPT !.pc = "poll"]]
  /\ UNCHANGED <<registryVars, driverVars, triggerVars, outputVars, titleVars, inputVars, m_CapturesActive>>

\* ShouldTriggerCapture reads m_Cap, without a lock.
ReadCap(t) ==
  /\ At(t, "poll")
  /\ IF m_Cap > 0 THEN /\ call' = [call EXCEPT ![t].pc = "decrement", ![t].seen = m_Cap]
                       /\ UNCHANGED m_QueuedFrameCaptures
     ELSE TakeQueued(t, FALSE)
  /\ UNCHANGED <<registryVars, driverVars, m_Cap, outputVars, titleVars, inputVars, m_CapturesActive>>

\* m_Cap--: compiled as a store of the value read before, or as a decrement in memory.
Decrement(t) ==
  /\ At(t, "decrement")
  /\ m_Cap' \in {call[t].seen - 1, (m_Cap - 1) % CapMod}
  /\ TakeQueued(t, TRUE)
  /\ UNCHANGED <<registryVars, driverVars, outputVars, titleVars, inputVars, m_CapturesActive>>

-----------------------------------------------------------------------------
(* RenderDoc::StartFrameCapture, EndFrameCapture and DiscardFrameCapture.   *)

\* Slip: a start does not clear the title.
ClearTitleNever(t) == UNCHANGED titleVars

\* A start forgets the title; a start by the application ends what SetCaptureTitle
\* promised before.
ClearTitle(t) ==
  IF call[t].op = "start"
  THEN /\ m_CaptureTitle' = NoTitle
       /\ promised' = IF call[t].back = "api" THEN NoTitle ELSE promised
  ELSE UNCHANGED titleVars

\* The title, then MatchClosestWindow under its lock.
MatchWindow(t) ==
  /\ At(t, "match")
  /\ ClearTitle(t)
  /\ call' = [call EXCEPT ![t].pc = "find", ![t].closest = Closest(call[t].handle)]
  /\ UNCHANGED <<registryVars, driverVars, triggerVars, outputVars, inputVars, m_CapturesActive>>

Capturer(t) == MatchFrameCapturer(call[t].handle, call[t].closest)

\* The driver has answered: the count of captures follows.
Answer(t, ret) ==
  call' = [call EXCEPT ![t].pc = "count", ![t].cap = Capturer(t), ![t].ret = ret]

NoCapturer(t) ==
  /\ At(t, "find")
  /\ Capturer(t) = NULL
  /\ Resume(t, "return")
  /\ UNCHANGED <<registryVars, driverVars, triggerVars, outputVars, titleVars, inputVars, m_CapturesActive>>

\* Slip: the driver does not take m_D3DLock.
AsksUnlocked(t, op, d) == At(t, "find") /\ call[t].op = op /\ d = Capturer(t)

\* The thread is about to ask the driver of device d, whose lock is free.
Asks(t, op, d) == At(t, "find") /\ call[t].op = op /\ d = Capturer(t) /\ ~Locked(d)

\* WrappedID3D11Device::StartFrameCapture: nothing if a capture is already active.
StartDriver(t, d) ==
  /\ Asks(t, "start", d)
  /\ IF capturing[d] THEN UNCHANGED driverVars
     ELSE /\ capturing' = [capturing EXCEPT ![d] = TRUE]
          /\ appControlled' = [appControlled EXCEPT ![d] = TRUE]
          /\ frameNumber' = [frameNumber EXCEPT ![d] = AppFrame]
          /\ failures' = [failures EXCEPT ![d] = 0]
          /\ UNCHANGED <<firstWindow, frameCounter>>
  /\ Answer(t, FALSE)
  /\ UNCHANGED <<registryVars, triggerVars, outputVars, titleVars, inputVars, m_CapturesActive>>

\* The window given has no swapchain on the device.
UnknownWindow(t, d) ==
  call[t].handle[2] # NULL /\ <<d, call[t].handle[2]>> \notin Registered

\* EndFrameCapture when there is nothing to end, or not for this window.
EndNothing(t, d) ==
  /\ Asks(t, "end", d)
  /\ ~capturing[d] \/ UnknownWindow(t, d)
  /\ Answer(t, ~capturing[d])
  /\ UNCHANGED <<registryVars, driverVars, triggerVars, outputVars, titleVars, inputVars, m_CapturesActive>>

\* The capture succeeded: it will be written with the lock held.
EndSucceeds(t, d) ==
  /\ Asks(t, "end", d)
  /\ capturing[d] /\ ~UnknownWindow(t, d)
  /\ call' = [call EXCEPT ![t].pc = "name", ![t].cap = d]
  /\ failures' = [failures EXCEPT ![d] = 0]
  /\ UNCHANGED <<capturing, appControlled, frameNumber, firstWindow, frameCounter, registryVars,
                 triggerVars, outputVars, titleVars, inputVars, m_CapturesActive>>

\* The device gives a failed capture up, or keeps capturing the next frame.
GivesUp(d) == failures[d] + 1 > Retries \/ appControlled[d]

EndFails(t, d) ==
  /\ "uncapped" \in Faults
  /\ Asks(t, "end", d)
  /\ capturing[d] /\ ~UnknownWindow(t, d)
  /\ failures' = [failures EXCEPT ![d] = @ + 1]
  /\ frameNumber' = [frameNumber EXCEPT ![d] = IF appControlled[d] THEN AppFrame ELSE frameCounter[d]]
  /\ capturing' = [capturing EXCEPT ![d] = ~GivesUp(d)]
  /\ promised' = IF GivesUp(d) THEN NoTitle ELSE promised
  /\ Answer(t, FALSE)
  /\ UNCHANGED <<appControlled, firstWindow, frameCounter, registryVars, triggerVars, outputVars,
                 m_CaptureTitle, inputVars, m_CapturesActive>>

DiscardDriver(t, d) ==
  /\ Asks(t, "discard", d)
  /\ capturing' = [capturing EXCEPT ![d] = FALSE]
  /\ promised' = IF capturing[d] THEN NoTitle ELSE promised
  /\ Answer(t, TRUE)
  /\ UNCHANGED <<appControlled, frameNumber, failures, firstWindow, frameCounter, registryVars,
                 triggerVars, outputVars, m_CaptureTitle, inputVars, m_CapturesActive>>

-----------------------------------------------------------------------------
(* Writing the file, inside the driver's EndFrameCapture.                   *)

Taken == {m_Captures[i].path : i \in DOMAIN m_Captures}

\* Slip: the alternative name is the first one, whether or not it is taken.
UniquePathOnce(frame) ==
  IF <<frame, 1>> \in Taken THEN <<frame, 2>> ELSE <<frame, 1>>

\* CreateRDC's loop: the template with the frame number, then _2, _3 and so on.
UniquePath(frame) ==
  CHOOSE p \in {<<frame, n>> : n \in 1 .. Len(m_Captures) + 1} :
    p \notin Taken /\ \A n \in 1 .. p[2] - 1 : <<frame, n>> \in Taken

NameFile(t) ==
  /\ At(t, "name")
  /\ m_CurrentLogFile' = UniquePath(frameNumber[call[t].cap])
  /\ Resume(t, "create")
  /\ UNCHANGED <<registryVars, driverVars, triggerVars, m_Captures, files, titleVars, inputVars, m_CapturesActive>>

\* The name given to RDCFile::Create after the thumbnail was encoded: whatever
\* m_CurrentLogFile is by then.
FileName(t) == m_CurrentLogFile

CreateFile(t) ==
  /\ At(t, "create")
  /\ \E opened \in IF "disk" \in Faults THEN BOOLEAN ELSE {TRUE} :
       /\ call' = [call EXCEPT ![t].pc = "finish", ![t].file = IF opened THEN FileName(t) ELSE NoFile]
       /\ files' = IF opened THEN files \cup {FileName(t)} ELSE files
  /\ UNCHANGED <<registryVars, driverVars, triggerVars, m_CurrentLogFile, m_Captures, titleVars, inputVars, m_CapturesActive>>

\* FinishCaptureWriting of a file that could be created.
ListCapture(t) ==
  /\ m_Captures' = Append(m_Captures, [path |-> m_CurrentLogFile, title |-> m_CaptureTitle, file |-> call[t].file])
  /\ m_CaptureTitle' = NoTitle

FinishWriting(t) ==
  /\ At(t, "finish")
  /\ IF call[t].file = NoFile THEN UNCHANGED <<m_Captures, m_CaptureTitle>> ELSE ListCapture(t)
  /\ promised' = NoTitle
  /\ capturing' = [capturing EXCEPT ![call[t].cap] = FALSE]
  /\ call' = [call EXCEPT ![t].pc = "count", ![t].ret = TRUE]
  /\ UNCHANGED <<appControlled, frameNumber, failures, firstWindow, frameCounter, registryVars,
                 triggerVars, m_CurrentLogFile, files, inputVars, m_CapturesActive>>

-----------------------------------------------------------------------------
(* m_CapturesActive, a plain int, and the return to the caller.             *)

ReadCount(t) ==
  /\ At(t, "count")
  /\ call' = [call EXCEPT ![t].pc = "store", ![t].seen = m_CapturesActive]
  /\ UNCHANGED <<registryVars, driverVars, triggerVars, outputVars, titleVars, inputVars, m_CapturesActive>>

StoreCount(t) ==
  /\ At(t, "store")
  /\ m_CapturesActive' = IF call[t].op = "start" THEN call[t].seen + 1 ELSE call[t].seen - 1
  /\ Resume(t, "return")
  /\ UNCHANGED <<registryVars, driverVars, triggerVars, outputVars, titleVars, inputVars>>

\* Present and FirstFrame take the capture they started out of the application's
\* control, and give it its frame number.
ReturnFromStart(t) ==
  /\ At(t, "return") /\ call[t].op = "start" /\ call[t].back \in {"present", "first"}
  /\ appControlled' = [appControlled EXCEPT ![t] = FALSE]
  /\ frameNumber' = [frameNumber EXCEPT ![t] = TriggerFrame(t)]
  /\ firstWindow' = [firstWindow EXCEPT ![t] = IF call[t].back = "first" THEN call[t].handle[2] ELSE @]
  /\ call' = [call EXCEPT ![t] = Idle]
  /\ UNCHANGED <<capturing, failures, frameCounter, registryVars, triggerVars, outputVars,
                 titleVars, inputVars, m_CapturesActive>>

\* Present on an inactive window forgets the first frame; on the active one it goes on
\* to look for a trigger.
ReturnFromEnd(t) ==
  /\ At(t, "return") /\ call[t].op = "end" /\ call[t].back \in {"present", "first"}
  /\ IF call[t].back = "first"
     THEN call' = [call EXCEPT ![t] = Idle] /\ firstWindow' = [firstWindow EXCEPT ![t] = NULL]
     ELSE /\ call' = [call EXCEPT ![t] = [Idle EXCEPT !.pc = "trigger", !.handle = call[t].handle, !.back = "present"]]
          /\ UNCHANGED firstWindow
  /\ UNCHANGED <<capturing, appControlled, frameNumber, failures, frameCounter, registryVars,
                 triggerVars, outputVars, titleVars, inputVars, m_CapturesActive>>

\* The API's StartFrameCapture also makes the window it matched the active one.
ReturnToApi(t) ==
  /\ At(t, "return") /\ call[t].back = "api"
  /\ LET h == call[t].handle
     IN  IF call[t].op = "start"
         THEN SetActiveWindow(IF NULL \in {h[1], h[2]} THEN Closest(h) ELSE h)
         ELSE UNCHANGED registryVars
  /\ call' = [call EXCEPT ![t] = Idle]
  /\ UNCHANGED <<driverVars, triggerVars, outputVars, titleVars, inputVars, m_CapturesActive>>

-----------------------------------------------------------------------------
(* The application and the user.                                            *)

\* The application makes one API call at a time.
ApiFree == \A t \in Threads : call[t].back # "api"

\* The application does not overlap its own captures, which the API leaves undefined,
\* and ends each with the pair it started it with.
ApiStart(t, h) ==
  /\ ApiFree /\ At(t, "idle") /\ appOwes = Ended
  /\ Spend
  /\ appOwes' = h
  /\ Call(t, "start", h, "api")
  /\ UNCHANGED <<registryVars, driverVars, triggerVars, outputVars, titleVars, m_CapturesActive>>

ApiEnd(t, h, op) ==
  /\ ApiFree /\ At(t, "idle") /\ appOwes = h
  /\ Spend
  /\ appOwes' = Ended
  /\ Call(t, op, h, "api")
  /\ UNCHANGED <<registryVars, driverVars, triggerVars, outputVars, titleVars, m_CapturesActive>>

\* SetCaptureTitle, only valid between a start and an end.
ApiTitle(t, title) ==
  /\ ApiFree /\ At(t, "idle") /\ appOwes # Ended
  /\ Spend
  /\ m_CaptureTitle' = title
  /\ promised' = IF \E d \in Devices : capturing[d] THEN title ELSE NoTitle
  /\ UNCHANGED <<registryVars, driverVars, triggerVars, outputVars, appOwes, m_CapturesActive, call>>

ApiActiveWindow(h) ==
  /\ Spend
  /\ SetActiveWindow(h)
  /\ UNCHANGED <<driverVars, triggerVars, outputVars, titleVars, appOwes, m_CapturesActive, call>>

\* TriggerCapture and QueueCapture, from the API or from target control.
TriggerCapture(n) ==
  /\ Spend
  /\ m_Cap' = n
  /\ UNCHANGED <<registryVars, driverVars, m_QueuedFrameCaptures, outputVars, titleVars, appOwes, m_CapturesActive, call>>

QueueCapture(f) ==
  /\ Spend
  /\ m_QueuedFrameCaptures' = m_QueuedFrameCaptures \cup {f}
  /\ UNCHANGED <<registryVars, driverVars, m_Cap, outputVars, titleVars, appOwes, m_CapturesActive, call>>

\* A capture file is deleted behind the program's back.
DeleteFile(p) ==
  /\ "delete" \in Faults
  /\ p \in files
  /\ Spend
  /\ files' = files \ {p}
  /\ UNCHANGED <<registryVars, driverVars, triggerVars, m_CurrentLogFile, m_Captures, titleVars, appOwes, m_CapturesActive, call>>

OnDisk(c) == c.path \in files

\* ValidateCaptures, when a client of target control connects: what is still on disk
\* stays, in order, at new indexes.
ValidateCaptures ==
  LET kept == {i \in DOMAIN m_Captures : OnDisk(m_Captures[i])} IN
  /\ kept # DOMAIN m_Captures
  /\ \E index \in [1 .. Cardinality(kept) -> kept] :
       /\ \A i, j \in DOMAIN index : i < j => index[i] < index[j]
       /\ m_Captures' = [i \in DOMAIN index |-> m_Captures[index[i]]]
  /\ UNCHANGED <<registryVars, driverVars, triggerVars, m_CurrentLogFile, files, titleVars, inputVars, m_CapturesActive, call>>

-----------------------------------------------------------------------------
CaptureCall(t) ==
  \/ NextFrame(t) \/ LookAtWindow(t) \/ Decide(t)
  \/ Trigger(t) \/ ReadCap(t) \/ Decrement(t) \/ MatchWindow(t) \/ NoCapturer(t)
  \/ \E d \in Devices : \/ StartDriver(t, d) \/ EndNothing(t, d) \/ EndSucceeds(t, d)
                        \/ EndFails(t, d) \/ DiscardDriver(t, d)
  \/ NameFile(t) \/ CreateFile(t) \/ FinishWriting(t)
  \/ ReadCount(t) \/ StoreCount(t)
  \/ ReturnFromStart(t) \/ ReturnFromEnd(t) \/ ReturnToApi(t)

Application(t) ==
  \/ FocusKey(t) \/ CaptureKey(t)
  \/ \E h \in ApiHandles : \/ ApiStart(t, h) \/ ApiEnd(t, h, "end") \/ ApiEnd(t, h, "discard")
  \/ \E title \in Titles : ApiTitle(t, title)

Outside ==
  \/ \E h \in ApiHandles : ApiActiveWindow(h)
  \/ \E n \in TriggerSizes : TriggerCapture(n)
  \/ \E f \in QueueFrames : QueueCapture(f)
  \/ \E p \in files : DeleteFile(p)
  \/ ValidateCaptures

Next ==
  \/ \E d \in Devices : \/ CreateDevice(d) \/ DestroyDevice(d)
                        \/ \E w \in Windows : \/ CreateSwapchain(d, w) \/ DestroySwapchain(d, w)
                                              \/ Present(d, w)
                        \/ CaptureCall(d) \/ Application(d)
  \/ Outside

Spec == Init /\ [][Next]_vars

\* A thread inside a call goes on, and the application presents to every window it has
\* again and again: a thread that presents to two windows in turn is not always free to
\* present to either.
FairSpec ==
  /\ Spec
  /\ \A d \in Devices : /\ WF_vars(CaptureCall(d))
                        /\ \A w \in Windows : SF_vars(Present(d, w))

-----------------------------------------------------------------------------
Paths == ({AppFrame} \cup (0 .. FrameMod - 1)) \X (Nat \ {0})

CallType == [pc : {"idle", "tick", "key", "frame", "look", "decide", "trigger", "poll", "decrement", "match", "find", "name", "create", "finish",
                   "count", "store", "return"},
             op : {"none", "start", "end", "discard"}, back : {"none", "api", "present", "first"},
             handle : Handles, closest : Pairs \cup {NoWindow}, cap : Devices \cup {NULL},
             seen : Int, ret : BOOLEAN, file : Paths \cup {NoFile}]

DriverTypeOK ==
  /\ capturing \in [Devices -> BOOLEAN]
  /\ appControlled \in [Devices -> BOOLEAN]
  /\ frameNumber \in [Devices -> {AppFrame} \cup (0 .. FrameMod - 1)]
  /\ failures \in [Devices -> 0 .. Retries + 1]
  /\ firstWindow \in [Devices -> Windows \cup {NULL}]
  /\ frameCounter \in [Devices -> 0 .. FrameMod - 1]

\* Every variable keeps its type: in particular a device gives up after Retries + 1
\* failures, and m_Cap stays an unsigned number (ShouldTriggerCapture, EndFrameCapture).
TypeOK ==
  /\ RegistryTypeOK
  /\ DriverTypeOK
  /\ m_Cap \in 0 .. CapMod - 1
  /\ m_QueuedFrameCaptures \subseteq 0 .. FrameMod - 1
  /\ m_CapturesActive \in Int
  /\ {m_CaptureTitle, promised} \subseteq Titles \cup {NoTitle}
  /\ m_CurrentLogFile \in Paths \cup {NoFile}
  /\ m_Captures \in Seq([path : Paths, title : Titles \cup {NoTitle}, file : Paths])
  /\ files \subseteq Paths
  /\ call \in [Threads -> CallType]
  /\ appOwes \in Handles \cup {Ended}
  /\ budget \in 0 .. Budget

\* While a thread writes the capture of a device, that device is still capturing and no
\* other thread writes it: m_D3DLock keeps a second end, a discard or a new start from
\* slipping in between CreateRDC and FinishCaptureWriting.
WriterOwnsCapture ==
  \A t \in Threads, d \in Devices :
    Writing(t, d) => capturing[d] /\ \A u \in Threads : Writing(u, d) => u = t

\* No capture overwrites the file of another: the files of the listed captures are
\* distinct, and none of them is the file a thread is writing (CreateRDC's loop, which
\* makes sure "we don't stomp another capture").
NoStomp ==
  /\ \A i, j \in DOMAIN m_Captures : m_Captures[i].file = m_Captures[j].file => i = j
  /\ \A t \in Threads, i \in DOMAIN m_Captures :
       At(t, "finish") => call[t].file # m_Captures[i].file

\* The path listed for a capture is the file its bytes went to, although CreateRDC and
\* FinishCaptureWriting agree on it only through m_CurrentLogFile.
PathIsFile == \A i \in DOMAIN m_Captures : m_Captures[i].path = m_Captures[i].file

\* A title goes to the first capture to end after SetCaptureTitle, and to no other
\* (StartFrameCapture and FinishCaptureWriting both clear m_CaptureTitle).
TitleApplied ==
  [][Len(m_Captures') > Len(m_Captures) => m_Captures'[Len(m_Captures')].title = promised]_vars

\* Under fair presenting a capture that is not the application's ends, even if it keeps
\* failing: Present on the active window ends it or, after Retries, gives it up.
TriggeredCaptureEnds ==
  \A d \in Devices : (capturing[d] /\ ~appControlled[d]) ~> ~capturing[d]


=============================================================================
