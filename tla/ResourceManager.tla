--------------------------- MODULE ResourceManager ---------------------------
(***************************************************************************)
(* Initial contents: core/resource_manager.h, as the Vulkan driver uses    *)
(* it.  While the program runs in the background the manager keeps the     *)
(* age of the last write of each resource; when a capture starts it saves  *)
(* the contents of a resource, postpones that, or skips it; the references *)
(* of each submitted command buffer then decide what is saved before it    *)
(* is overwritten, and, when the capture is replayed, what each range of a *)
(* resource is reset to before the frame is run once more.                 *)
(*                                                                         *)
(* A resource is a memory allocation with one or more ranges, or an image. *)
(* The contents of a range are its base, what it held or was last written  *)
(* as a whole, and the commands of the captured frame that wrote part of   *)
(* it since: `over' has the pairs of one and a later one, and each with    *)
(* itself.  There is one queue, so what was submitted has been executed    *)
(* before anything looks at contents;                                      *)
(* a command buffer is submitted once; every resource is dirty from its    *)
(* binding on, and was bound before the capture.  The thread that ends the *)
(* capture is the one that submits: nothing is, until the file is written. *)
(***************************************************************************)
EXTENDS Integers, Sequences, FiniteSets

CONSTANTS
  N,            \* resource ids, in their order
  Ranges,       \* the number of ranges of each
  Storable,     \* resources with storage usage
  Images,       \* resources that are images
  Accesses,     \* bound: what commands do
  Policies,     \* bound: how the capture may be replayed
  MaxRecorded,  \* bound: commands in a command buffer
  MaxScript,    \* bound: commands in a captured frame
  MaxCaptures   \* bound: captures started

Resources == 1..N
Parts(r)  == 1..Ranges[r]

\* FrameRefType.
None == 0
PartialWrite == 1
CompleteWrite == 2
Read == 3
ReadBeforeWrite == 4
WriteBeforeRead == 5
CompleteWriteAndDiscard == 6

InitPolicy == {"NoOpt", "CopyAll", "ClearUnread", "Fastest"}

\* A command touches one range, through a descriptor set (bound) or not.  A
\* write through one needs storage usage; only whole resources are discarded.
ASSUME ManagerAssumption ==
  /\ N \in Nat
  /\ Ranges \in [Resources -> Nat \ {0}]
  /\ Storable \subseteq Resources /\ Images \subseteq Resources
  /\ Policies \subseteq InitPolicy
  /\ {MaxRecorded, MaxScript, MaxCaptures} \subseteq Nat
  /\ \A a \in Accesses :
       /\ a.res \in Resources /\ a.part \in Parts(a.res)
       /\ a.bound \in BOOLEAN
       /\ a.ref \in IF a.bound THEN {Read, ReadBeforeWrite}
                    ELSE {PartialWrite, CompleteWrite, Read, CompleteWriteAndDiscard}
       /\ a.ref = ReadBeforeWrite => a.res \in Storable
       /\ a.ref = CompleteWriteAndDiscard => Ranges[a.res] = 1

VARIABLES
  mode,      \* "background", "capturing", or "replaying" in another process
  live,      \* resources that have not been destroyed
  manager,   \* per resource: what the manager knows of it
  memRefs,   \* per range: its reference in the captured frame
  gpu,       \* per range: its contents
  cb,        \* the command buffer being recorded: commands and references
  queue,     \* commands submitted and not yet executed
  start,     \* history: the contents when the capture started
  script,    \* the captured commands, and what they saw
  captures,  \* captures started
  file,      \* the capture file
  replay     \* its replay

vars == <<mode, live, manager, memRefs, gpu, cb, queue, start, script, captures, file, replay>>

-----------------------------------------------------------------------------
(* References: core/resource_manager.cpp.                                    *)

IncludesRead(ref)  == ref \in {Read, WriteBeforeRead, ReadBeforeWrite}
IncludesWrite(ref) == ref \notin {None, Read}

\* Slip: a partial write does not count.
SlipIsDirty(ref) == ref \notin {None, Read, PartialWrite}

IsDirty(ref) == ref \notin {None, Read}
IsCompleteWrite(ref) == ref \in {CompleteWrite, CompleteWriteAndDiscard}

\* ComposeFrameRefs: one reference, then another.
Compose(first, second) ==
  CASE first \in {None, PartialWrite} ->
         IF second = None THEN first
         ELSE IF first = PartialWrite /\ second = Read THEN WriteBeforeRead
         ELSE second
    [] first \in {Read, WriteBeforeRead} ->
         IF IncludesWrite(second) THEN ReadBeforeWrite ELSE first
    [] OTHER -> first

\* ComposeFrameRefsDisjoint: references of different ranges.
Used(ref) == IF ref = CompleteWriteAndDiscard THEN CompleteWrite ELSE ref
Disjoint(x, y) ==
  IF ReadBeforeWrite \in {x, y} THEN ReadBeforeWrite
  ELSE IF Used(x) < Used(y) THEN Used(y) ELSE Used(x)

Largest(S) == CHOOSE x \in S : \A y \in S : y <= x

-----------------------------------------------------------------------------
(* Contents.                                                                 *)

\* What a range holds before the writes of the frame.
Start == 0
Junk  == -1   \* undefined: discarded, or never written
Zero  == -2   \* cleared

Fresh(base) == [base |-> base, over |-> {}]

\* Command k writes part of a range, over what earlier commands wrote.
WrittenOver(contents, k) ==
  LET others == {e \in contents.over : k \notin {e[1], e[2]}} IN
  [base |-> contents.base, over |-> others \cup {<<e[1], k>> : e \in others} \cup {<<k, k>>}]

\* What command k makes of a range.
Written(contents, ref, k) ==
  CASE ref \in {PartialWrite, ReadBeforeWrite} -> WrittenOver(contents, k)
    [] ref = CompleteWrite -> Fresh(k)
    [] ref = CompleteWriteAndDiscard -> Fresh(Junk)
    [] OTHER -> contents

\* Outside a captured frame it matters only whether contents are defined.
Settled(contents) == IF contents = Fresh(Junk) THEN contents ELSE Fresh(Start)

PerRange(f(_, _)) == [r \in Resources |-> [p \in Parts(r) |-> f(r, p)]]
Everywhere(x) == PerRange(LAMBDA r, p : x)

-----------------------------------------------------------------------------
Absent   == [has |-> FALSE, data |-> <<>>]
Empty    == [has |-> TRUE, data |-> <<>>]
Saved(c) == [has |-> TRUE, data |-> c]

Unknown ==
  [skipped |-> FALSE, postponed |-> FALSE, initial |-> Absent, ref |-> None,
   write |-> "absent", skip |-> "none"]

EmptyBuffer ==
  [cmds |-> <<>>, refs |-> [r \in Resources |-> None], mem |-> Everywhere(None)]

NoReplay ==
  [policy |-> "none", at |-> 0, initial |-> <<>>, initialized |-> {}, gpu |-> Everywhere(Fresh(Junk))]

Init ==
  /\ mode = "background"
  /\ live = Resources
  /\ manager = [r \in Resources |-> Unknown]
  /\ memRefs = Everywhere(None)
  /\ gpu = Everywhere(Fresh(Start))
  /\ cb = EmptyBuffer
  /\ queue = <<>>
  /\ start = Everywhere(Fresh(Start))
  /\ script = <<>>
  /\ captures = 0
  /\ file = [taken |-> FALSE, initial |-> <<>>, needed |-> {}, refs |-> Everywhere(None),
             script |-> <<>>, start |-> Everywhere(Fresh(Start))]
  /\ replay = NoReplay

-----------------------------------------------------------------------------
(* The manager's part, per resource.                                         *)

Prepared(m, contents) == [m EXCEPT !.initial = Saved(contents), !.postponed = FALSE]

Tracked(r) == r \notin Storable

\* SkipOrPostponeOrPrepare_InitialState: the first reference to a skipped resource.
Unskipped(m, r, ref, contents) ==
  IF ~m.skipped THEN m
  ELSE LET n == [m EXCEPT !.skipped = FALSE] IN
       IF IsCompleteWrite(ref) THEN n
       ELSE IF ~IsDirty(ref) /\ Tracked(r) THEN [n EXCEPT !.postponed = TRUE, !.initial = Empty]
       ELSE [n EXCEPT !.initial = Saved(contents)]

PreparedIfPostponed(m, contents) == IF m.postponed THEN Prepared(m, contents) ELSE m

UpdateLastWriteTime(m, ref) ==
  IF ~IsDirty(ref) THEN m
  ELSE [m EXCEPT !.write = "recent",
                 !.skip = IF ref # CompleteWriteAndDiscard THEN "none"
                          ELSE IF @ = "none" THEN "recent" ELSE @]

\* MarkResourceFrameReferenced during a capture.
Marked(m, r, ref, contents) ==
  LET unskipped == Unskipped(m, r, ref, contents)
      prepared  == IF IsDirty(ref) THEN PreparedIfPostponed(unskipped, contents) ELSE unskipped
  IN IF ref = None THEN m
     ELSE [UpdateLastWriteTime(prepared, ref) EXCEPT !.ref = Compose(@, ref)]

HasPersistentAge(m) == m.write # "recent"
HasSkippableAge(m)  == m.write # "absent" /\ m.skip = "old"

\* ClearReferencedResources and FreeInitialContents.
Freed(m) == [m EXCEPT !.ref = None, !.initial = Absent, !.postponed = FALSE, !.skipped = FALSE]

-----------------------------------------------------------------------------
(* The program.                                                              *)

Busy == mode = "replaying" \/ queue # <<>>

\* Recording notes the references of a command, but for descriptor sets.
Record(a) ==
  /\ ~Busy
  /\ a.res \in live
  /\ Len(cb.cmds) < MaxRecorded
  /\ LET r    == a.res
         mem  == Compose(cb.mem[r][a.part], a.ref)
         refs == IF cb.refs[r] = None THEN mem ELSE Disjoint(cb.refs[r], mem)
     IN cb' = IF a.bound THEN [cb EXCEPT !.cmds = Append(@, a)]
              ELSE [cmds |-> Append(cb.cmds, a), refs |-> [cb.refs EXCEPT ![r] = refs],
                    mem |-> [cb.mem EXCEPT ![r][a.part] = mem]]
  /\ UNCHANGED <<mode, live, manager, memRefs, gpu, queue, start, script, captures, file, replay>>

Submitted == {cb.cmds[i] : i \in 1..Len(cb.cmds)}

\* References through descriptor sets, in no known order: of a range, of a resource.
BoundRef(r, p) ==
  Largest({None} \cup {a.ref : a \in {b \in Submitted : b.bound /\ b.res = r /\ b.part = p}})
BoundRefs(r) == Largest({BoundRef(r, p) : p \in Parts(r)})

\* Slip: the references of the command buffer before those of its descriptor sets.
SlipMergedRef(r, p) == Compose(Compose(memRefs[r][p], cb.mem[r][p]), BoundRef(r, p))

MergedRef(r, p) == Compose(Compose(memRefs[r][p], BoundRef(r, p)), cb.mem[r][p])

\* vkQueueSubmit: in a capture, mark what descriptor sets refer to, then what the
\* command buffer does; in the background, only how long ago it was written.
Submit ==
  /\ ~Busy
  /\ cb.cmds # <<>>
  /\ IF mode = "capturing"
     THEN /\ Len(script) + Len(cb.cmds) <= MaxScript
          /\ manager' = [r \in Resources |->
               Marked(Marked(manager[r], r, BoundRefs(r), gpu[r]), r, cb.refs[r], gpu[r])]
          /\ memRefs' = PerRange(MergedRef)
     ELSE /\ manager' = [r \in Resources |-> UpdateLastWriteTime(manager[r], cb.refs[r])]
          /\ UNCHANGED memRefs
  /\ queue' = cb.cmds
  /\ cb' = EmptyBuffer
  /\ UNCHANGED <<mode, live, gpu, start, script, captures, file, replay>>

\* The GPU executes a command.
Execute ==
  /\ mode # "replaying"
  /\ queue # <<>>
  /\ LET a    == Head(queue)
         seen == gpu[a.res][a.part]
         new  == Written(seen, a.ref, Len(script) + 1)
     IN IF mode = "capturing"
        THEN /\ gpu' = [gpu EXCEPT ![a.res][a.part] = new]
             /\ script' = Append(script, [cmd |-> a, saw |-> seen])
        ELSE gpu' = [gpu EXCEPT ![a.res][a.part] = Settled(new)] /\ UNCHANGED script
  /\ queue' = Tail(queue)
  /\ UNCHANGED <<mode, live, manager, memRefs, cb, start, captures, file, replay>>

\* The last write of a resource, or the first time it was discarded, is now
\* three seconds ago.  (The time a capture takes does not count.)
TimePasses(r) ==
  /\ mode = "background" /\ ~Busy
  /\ \/ manager[r].skip = "recent" /\ manager' = [manager EXCEPT ![r].skip = "old"]
     \/ manager[r].write = "recent"
        /\ manager' = [manager EXCEPT ![r].write = "old",
                                      ![r].skip = IF @ = "recent" THEN "old" ELSE @]
  /\ UNCHANGED <<mode, live, memRefs, gpu, cb, queue, start, script, captures, file, replay>>

CleanBackgroundFrameReferences ==
  /\ mode = "background" /\ ~Busy
  /\ \E r \in Resources : manager[r].write = "old" /\ manager[r].skip = "none"
  /\ manager' = [r \in Resources |->
       IF manager[r].write = "old" /\ manager[r].skip = "none"
       THEN [manager[r] EXCEPT !.write = "absent"] ELSE manager[r]]
  /\ UNCHANGED <<mode, live, memRefs, gpu, cb, queue, start, script, captures, file, replay>>

\* The entry that a release erases: the first that is not before the resource.
Erased(r) ==
  {q \in r..N : manager[q].write # "absent" /\ \A o \in r..(q - 1) : manager[o].write = "absent"}

ReleaseResource(r) ==
  /\ ~Busy
  /\ r \in live
  /\ \A a \in Submitted : a.res # r
  /\ live' = live \ {r}
  /\ LET kept == [q \in Resources |->
           IF q = r /\ mode = "capturing" THEN PreparedIfPostponed(manager[q], gpu[q]) ELSE manager[q]]
     IN manager' = [q \in Resources |->
           IF q \in Erased(r) THEN [kept[q] EXCEPT !.write = "absent", !.skip = "none"] ELSE kept[q]]
  /\ UNCHANGED <<mode, memRefs, gpu, cb, queue, start, script, captures, file, replay>>

-----------------------------------------------------------------------------
(* The capture.                                                              *)

\* PrepareInitialContents.
AtStart(r) ==
  LET m == [manager[r] EXCEPT !.ref = None] IN
  IF r \notin live THEN m
  ELSE IF Tracked(r) /\ HasSkippableAge(m) THEN [m EXCEPT !.skipped = TRUE]
  ELSE IF Tracked(r) /\ HasPersistentAge(m) THEN [m EXCEPT !.postponed = TRUE, !.initial = Empty]
  ELSE [m EXCEPT !.initial = Saved(gpu[r])]

StartFrameCapture ==
  /\ mode = "background" /\ ~Busy
  /\ captures < MaxCaptures
  /\ mode' = "capturing"
  /\ captures' = captures + 1
  /\ manager' = [r \in Resources |-> AtStart(r)]
  /\ memRefs' = Everywhere(None)
  /\ start' = gpu
  /\ script' = <<>>
  /\ UNCHANGED <<live, gpu, cb, queue, file, replay>>

Referenced == {r \in Resources : manager[r].ref # None}

\* What was postponed is fetched now.
Contents(r) == IF manager[r].postponed THEN gpu[r] ELSE manager[r].initial.data

EndFrameCapture ==
  /\ mode = "capturing" /\ ~Busy
  /\ mode' = "background"
  /\ LET kept == {r \in Referenced : manager[r].initial.has} IN
     file' = [taken |-> TRUE, initial |-> [r \in kept |-> Contents(r)],
              needed |-> kept \cup {r \in Referenced : IsDirty(manager[r].ref)},
              refs |-> memRefs, script |-> script, start |-> start]
  /\ manager' = [r \in Resources |-> Freed(manager[r])]
  /\ memRefs' = Everywhere(None)
  /\ gpu' = PerRange(LAMBDA r, p : Settled(gpu[r][p]))
  /\ script' = <<>>
  /\ UNCHANGED <<live, cb, queue, start, captures, replay>>

\* The references of ranges are left to the next start.
DiscardFrameCapture ==
  /\ mode = "capturing" /\ ~Busy
  /\ mode' = "background"
  /\ manager' = [r \in Resources |-> Freed(manager[r])]
  /\ gpu' = PerRange(LAMBDA r, p : Settled(gpu[r][p]))
  /\ script' = <<>>
  /\ UNCHANGED <<live, memRefs, cb, queue, start, captures, file, replay>>

-----------------------------------------------------------------------------
(* The replay.                                                               *)

\* Slip: a range that is only written partly is not reset.
SlipInitReq(ref, policy, initialized) ==
  LET once(req) == IF initialized THEN "None" ELSE req IN
  IF policy = "NoOpt" THEN "Copy"
  ELSE IF policy = "CopyAll" THEN IF ref \in {None, Read, PartialWrite} THEN once("Copy") ELSE "Copy"
  ELSE CASE ref \in {None, PartialWrite} -> once("Clear")
         [] ref = Read -> once("Copy")
         [] ref \in {ReadBeforeWrite, WriteBeforeRead} -> "Copy"
         [] OTHER -> "Clear"

\* InitReq.
InitReq(ref, policy, initialized) ==
  LET once(req) == IF initialized THEN "None" ELSE req IN
  IF policy = "NoOpt" THEN "Copy"
  ELSE IF policy = "CopyAll" THEN IF ref \in {None, Read} THEN once("Copy") ELSE "Copy"
  ELSE CASE ref = None -> once("Clear")
         [] ref = Read -> once("Copy")
         [] ref = ReadBeforeWrite -> "Copy"
         [] ref = WriteBeforeRead -> IF policy = "Fastest" THEN once("Copy") ELSE "Copy"
         [] OTHER -> IF policy = "Fastest" THEN once("Clear") ELSE "Clear"

\* Another process opens the file: the captured program matters no more.  What
\* is needed and has no contents is created, to be cleared.
Load(policy) ==
  /\ mode = "background" /\ ~Busy
  /\ file.taken
  /\ mode' = "replaying"
  /\ replay' = [NoReplay EXCEPT !.policy = policy, !.initial =
       [r \in file.needed |-> IF r \in DOMAIN file.initial THEN file.initial[r] ELSE <<>>]]
  /\ live' = Resources
  /\ manager' = [r \in Resources |-> Unknown]
  /\ memRefs' = Everywhere(None)
  /\ gpu' = Everywhere(Fresh(Start))
  /\ cb' = EmptyBuffer
  /\ start' = Everywhere(Fresh(Start))
  /\ UNCHANGED <<queue, script, captures, file>>

\* What a range must be reset to.  An image that counts as not initialized is
\* copied, one that was created without contents is cleared.
Requirement(r, p, fresh) ==
  IF r \in fresh THEN "Copy"
  ELSE IF r \in Images /\ replay.initial[r] = <<>> THEN "Clear"
  ELSE InitReq(file.refs[r][p], replay.policy, r \in replay.initialized)

\* Apply_InitialState for a range.
Applied(r, p, fresh) ==
  LET req == IF r \in DOMAIN replay.initial THEN Requirement(r, p, fresh) ELSE "None"
  IN CASE req = "None" -> replay.gpu[r][p]
       [] req = "Copy" /\ replay.initial[r] # <<>> -> replay.initial[r][p]
       [] OTHER -> Fresh(Zero)

\* The frame is run again, from wherever the last run stopped.  Images count as
\* not initialized the first time, and later if their memory may have been written.
ApplyInitialContents ==
  /\ mode = "replaying"
  /\ \E fresh \in SUBSET Images :
       /\ Images \ replay.initialized \subseteq fresh
       /\ replay' = [replay EXCEPT !.at = 1, !.gpu = PerRange(LAMBDA r, p : Applied(r, p, fresh)),
                                   !.initialized = DOMAIN replay.initial]
  /\ UNCHANGED <<mode, live, manager, memRefs, gpu, cb, queue, start, script, captures, file>>

ReplayCommand ==
  /\ mode = "replaying"
  /\ replay.at \in 1..Len(file.script)
  /\ LET a == file.script[replay.at].cmd IN
     replay' = [replay EXCEPT !.at = @ + 1,
                              !.gpu[a.res][a.part] = Written(@, a.ref, replay.at)]
  /\ UNCHANGED <<mode, live, manager, memRefs, gpu, cb, queue, start, script, captures, file>>

Next ==
  \/ \E a \in Accesses : Record(a)
  \/ Submit \/ Execute
  \/ \E r \in Resources : TimePasses(r) \/ ReleaseResource(r)
  \/ CleanBackgroundFrameReferences
  \/ StartFrameCapture \/ EndFrameCapture \/ DiscardFrameCapture
  \/ \E policy \in Policies : Load(policy)
  \/ ApplyInitialContents \/ ReplayCommand

Spec == Init /\ [][Next]_vars

\* The references of a command buffer show the manager each write of a resource whose
\* contents are still to be saved.  They do not when a complete write of one range is
\* hidden behind a read of another.
WritesShown ==
  \A r \in Resources :
    /\ manager[r].postponed \/ manager[r].skipped
    /\ \E a \in Submitted : a.res = r /\ IsDirty(a.ref)
    => IsDirty(cb.refs[r])

\* The programs that submit no command buffer in which a write is hidden so.
ShownNext == Next /\ (Submit => WritesShown)
ShownSpec == Init /\ [][ShownNext]_vars

-----------------------------------------------------------------------------
(* Properties.                                                               *)

\* What a replayed command sees is what the captured one saw, but for contents
\* that were undefined.
Agree(got, saw) == got = saw \/ (saw.base = Junk /\ got.over = saw.over)

\* The frame replays correctly, however often and from wherever it is run again:
\* each command reads what it read in the program, whether the contents it needs
\* were saved at the start, when they were about to be overwritten, or at the end.
ReplayAgrees ==
  mode = "replaying" /\ replay.at \in 1..Len(file.script) =>
    LET c == file.script[replay.at] IN
    IncludesRead(c.cmd.ref) => Agree(replay.gpu[c.cmd.res][c.cmd.part], c.saw)

\* What a user sees who inspects a resource at the start of a replay is what
\* resource_manager.h:183-225 promises: its contents when the capture started,
\* or, if they may be cleared unless they are read, those or nothing.
PolicyKept ==
  mode = "replaying" /\ replay.at = 1 /\ replay.policy # "Fastest" =>
    \A r \in DOMAIN replay.initial : \A p \in Parts(r) :
      \/ Agree(replay.gpu[r][p], file.start[r][p])
      \/ replay.policy = "ClearUnread" /\ replay.gpu[r][p] = Fresh(Zero)

\* Contents that are still to be saved have not been overwritten
\* (resource_manager.h:1152: they cannot be retrieved once they have been).
NotOverwritten ==
  mode = "capturing" =>
    \A r \in Resources : manager[r].postponed /\ queue = <<>> => gpu[r] = start[r]

=============================================================================
