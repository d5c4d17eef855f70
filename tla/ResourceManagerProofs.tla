----------------------- MODULE ResourceManagerProofs -----------------------
(***************************************************************************)
(* What is proved of ResourceManager for all values of its constants.      *)
(* Merging the references of a command buffer gives what its accesses one  *)
(* by one would.  Provided the references of each submitted command buffer *)
(* show the writes of what was put off (WritesShown; the run               *)
(* resource_parts has a program for which they do not): contents whose     *)
(* saving was put off are not overwritten before, the frame replays as it  *)
(* was captured, and a resource holds where a replay starts what the       *)
(* policy promises.                                                        *)
(*                                                                         *)
(* The invariants follow a command through the capture: what references    *)
(* claim of the commands they sum up (RecordedInv, MergedInv), what the    *)
(* manager keeps because of them (KeptInv, DiscardedInv), what the         *)
(* commands saw (StoryInv), what the file has of all this (FileInv), and   *)
(* what a range then holds while the frame is replayed (ReplayInv).        *)
(***************************************************************************)
EXTENDS ResourceManager, SequenceTheorems, TLAPS

References == None..CompleteWriteAndDiscard

\* ComposeFrameRefs is associative: merging the references of a command buffer
\* into those of the frame is what marking its accesses in turn would give
\* (resource_manager.cpp:79, vk_manager.cpp:960).
THEOREM ComposeAssociative ==
  \A x, y, z \in References : Compose(Compose(x, y), z) = Compose(x, Compose(y, z))
BY DEF References, Compose, IncludesWrite, None, PartialWrite, CompleteWrite, Read,
       ReadBeforeWrite, WriteBeforeRead, CompleteWriteAndDiscard

LEMMA ComposeType ==
  \A x, y \in References : Compose(x, y) \in References
BY DEF References, Compose, IncludesWrite, None, PartialWrite, CompleteWrite, Read,
       ReadBeforeWrite, WriteBeforeRead, CompleteWriteAndDiscard

LEMMA DisjointType ==
  \A x, y \in References : Disjoint(x, y) \in References
BY DEF References, Disjoint, Used, None, CompleteWrite, ReadBeforeWrite, CompleteWriteAndDiscard

\* A write makes a reference dirty, and nothing makes it clean again.
LEMMA ComposeDirty ==
  \A x, y \in References : IsDirty(Compose(x, y)) <=> IsDirty(x) \/ IsDirty(y)
BY DEF References, Compose, IncludesWrite, IsDirty, None, PartialWrite, CompleteWrite, Read,
       ReadBeforeWrite, WriteBeforeRead, CompleteWriteAndDiscard

LEMMA ComposeNone ==
  \A x, y \in References : Compose(x, y) = None <=> x = None /\ y = None
BY DEF References, Compose, IncludesWrite, None, PartialWrite, CompleteWrite, Read,
       ReadBeforeWrite, WriteBeforeRead, CompleteWriteAndDiscard

\* That is not so of disjoint ranges: a complete write of one is hidden by a
\* read of another.  Of references that are both dirty, or both clean, it is.
LEMMA DisjointDirty ==
  \A x, y \in References :
    /\ (IsDirty(x) <=> IsDirty(y)) => (IsDirty(Disjoint(x, y)) <=> IsDirty(x))
    /\ y # None => Disjoint(x, y) # None
BY DEF References, Disjoint, Used, IsDirty, None, PartialWrite, CompleteWrite, Read,
       ReadBeforeWrite, WriteBeforeRead, CompleteWriteAndDiscard

-----------------------------------------------------------------------------
\* A resource that may be put off and has one range.
Single(r) == Tracked(r) /\ Ranges[r] = 1

Fields == {"skipped", "postponed", "initial", "ref", "write", "skip"}

PutOff(m) == m.postponed \/ m.skipped

ManagerInv ==
  /\ manager = [r \in Resources |-> manager[r]]
  /\ \A r \in Resources :
       /\ DOMAIN manager[r] = Fields
       /\ manager[r] = [f \in Fields |-> manager[r][f]]
       /\ manager[r].skipped \in BOOLEAN /\ manager[r].postponed \in BOOLEAN
       /\ PutOff(manager[r]) => Tracked(r)

ContentsInv ==
  /\ gpu = [r \in Resources |-> gpu[r]]
  /\ \A r \in Resources : gpu[r] = [p \in Parts(r) |-> gpu[r][p]]

Access(a) ==
  /\ a.res \in Resources /\ a.part \in Parts(a.res)
  /\ a.bound \in BOOLEAN
  /\ a.ref \in References \ {None}
  /\ a.ref = ReadBeforeWrite => a.res \in Storable
  /\ a.bound /\ a.ref # Read => a.res \in Storable
  /\ a.ref = CompleteWriteAndDiscard => Ranges[a.res] = 1

\* The references of the command buffer being recorded: that of a resource of one
\* range is dirty where it writes.
BufferInv ==
  /\ cb = [cmds |-> cb.cmds, refs |-> cb.refs, mem |-> cb.mem]
  /\ cb.cmds \in Seq(Accesses)
  /\ cb.refs \in [Resources -> References]
  /\ cb.mem = [r \in Resources |-> cb.mem[r]]
  /\ \A r \in Resources :
       /\ cb.mem[r] = [p \in Parts(r) |-> cb.mem[r][p]]
       /\ \A p \in Parts(r) : cb.mem[r][p] \in References
       /\ Single(r) =>
            /\ IsDirty(cb.refs[r]) <=> IsDirty(cb.mem[r][1])
            /\ cb.refs[r] = None <=> cb.mem[r][1] = None
            /\ \A i \in 1..Len(cb.cmds) :
                 cb.cmds[i].res = r /\ IsDirty(cb.cmds[i].ref) => IsDirty(cb.refs[r])

\* What is put off still has its contents, and none of the commands that wait
\* for the GPU writes it.
PutOffInv ==
  /\ mode \in {"background", "capturing", "replaying"}
  /\ queue \in Seq(Accesses)
  /\ mode = "capturing" =>
       \A r \in Resources : PutOff(manager[r]) =>
         /\ gpu[r] = start[r]
         /\ \A i \in 1..Len(queue) : queue[i].res = r => ~IsDirty(queue[i].ref)

IInv == ManagerInv /\ ContentsInv /\ BufferInv /\ PutOffInv

LEMMA AccessesValid == \A a \in Accesses : Access(a)
BY ManagerAssumption DEF Access, References, None, PartialWrite, CompleteWrite, Read,
   ReadBeforeWrite, WriteBeforeRead, CompleteWriteAndDiscard

LEMMA RangesPositive == \A r \in Resources : 1 \in Parts(r)
BY ManagerAssumption DEF Parts

-----------------------------------------------------------------------------
(* The operators of the manager.                                             *)

IsRecord(m) ==
  /\ DOMAIN m = Fields
  /\ m = [f \in Fields |-> m[f]]
  /\ m.skipped \in BOOLEAN /\ m.postponed \in BOOLEAN

LEMMA UnskippedKeeps ==
  ASSUME NEW m, IsRecord(m), NEW r, NEW ref, NEW c
  PROVE  /\ IsRecord(Unskipped(m, r, ref, c))
         /\ PutOff(Unskipped(m, r, ref, c)) => PutOff(m)
         /\ ~Unskipped(m, r, ref, c).skipped
BY DEF IsRecord, Fields, Unskipped, PutOff

LEMMA PreparedKeeps ==
  ASSUME NEW m, IsRecord(m), NEW c
  PROVE  /\ IsRecord(PreparedIfPostponed(m, c))
         /\ PreparedIfPostponed(m, c).postponed = FALSE
         /\ PreparedIfPostponed(m, c).skipped = m.skipped
BY DEF IsRecord, Fields, PreparedIfPostponed, Prepared

LEMMA UpdateKeeps ==
  ASSUME NEW m, IsRecord(m), NEW ref
  PROVE  /\ IsRecord(UpdateLastWriteTime(m, ref))
         /\ UpdateLastWriteTime(m, ref).postponed = m.postponed
         /\ UpdateLastWriteTime(m, ref).skipped = m.skipped
BY DEF IsRecord, Fields, UpdateLastWriteTime

\* After a reference only clean ones leave the saving of contents put off.
LEMMA MarkedKeeps ==
  ASSUME NEW m, IsRecord(m), NEW r, NEW ref, NEW c
  PROVE  /\ IsRecord(Marked(m, r, ref, c))
         /\ PutOff(Marked(m, r, ref, c)) => PutOff(m) /\ ~IsDirty(ref)
<1> DEFINE u == Unskipped(m, r, ref, c)
           q == IF IsDirty(ref) THEN PreparedIfPostponed(u, c) ELSE u
           w == UpdateLastWriteTime(q, ref)
<1>1. IsRecord(u) /\ (PutOff(u) => PutOff(m)) /\ ~u.skipped
  BY UnskippedKeeps
<1>2. IsRecord(q) /\ (PutOff(q) => PutOff(m) /\ ~IsDirty(ref))
  BY <1>1, PreparedKeeps DEF PutOff
<1>3. IsRecord(w) /\ (PutOff(w) => PutOff(m) /\ ~IsDirty(ref))
  BY <1>2, UpdateKeeps DEF PutOff
<1>4. CASE ref = None
  BY <1>4 DEF Marked, IsDirty
<1>5. CASE ref # None
  <2>1. Marked(m, r, ref, c) = [w EXCEPT !.ref = Compose(@, ref)]
    BY <1>5 DEF Marked
  <2> QED  BY <1>3, <2>1 DEF IsRecord, Fields, PutOff
<1> QED  BY <1>4, <1>5

-----------------------------------------------------------------------------
(* The invariant is inductive.                                               *)

LEMMA EmptyBufferInv ==
  /\ EmptyBuffer.cmds = <<>>
  /\ EmptyBuffer = [cmds |-> EmptyBuffer.cmds, refs |-> EmptyBuffer.refs, mem |-> EmptyBuffer.mem]
  /\ EmptyBuffer.refs \in [Resources -> References]
  /\ EmptyBuffer.mem = [r \in Resources |-> EmptyBuffer.mem[r]]
  /\ \A r \in Resources :
       /\ EmptyBuffer.refs[r] = None
       /\ EmptyBuffer.mem[r] = [p \in Parts(r) |-> EmptyBuffer.mem[r][p]]
       /\ \A p \in Parts(r) : EmptyBuffer.mem[r][p] = None
BY DEF EmptyBuffer, Everywhere, PerRange, References, None, CompleteWriteAndDiscard

LEMMA BufferEmptied ==
  cb' = EmptyBuffer => BufferInv'
<1> SUFFICES ASSUME cb' = EmptyBuffer PROVE BufferInv'
  OBVIOUS
<1>1. None \in References /\ ~IsDirty(None)
  BY DEF References, None, CompleteWriteAndDiscard, IsDirty
<1>2. cb'.cmds \in Seq(Accesses) /\ Len(cb'.cmds) = 0
  BY EmptyBufferInv
<1> QED  BY <1>1, <1>2, EmptyBufferInv, RangesPositive DEF BufferInv

LEMMA InitInv == Init => IInv
<1> SUFFICES ASSUME Init PROVE IInv
  OBVIOUS
<1> USE DEF Init
<1>1. ManagerInv
  BY DEF ManagerInv, Unknown, Fields, PutOff
<1>2. ContentsInv
  BY DEF ContentsInv, Everywhere, PerRange
<1>3. BufferInv
  <2>1. None \in References /\ ~IsDirty(None)
    BY DEF References, None, CompleteWriteAndDiscard, IsDirty
  <2>2. cb.cmds \in Seq(Accesses) /\ Len(cb.cmds) = 0
    BY EmptyBufferInv
  <2> QED  BY <2>1, <2>2, EmptyBufferInv, RangesPositive DEF BufferInv
<1>4. PutOffInv
  BY DEF PutOffInv
<1> QED  BY <1>1, <1>2, <1>3, <1>4 DEF IInv

LEMMA RecordInv ==
  ASSUME IInv, NEW a \in Accesses, Record(a)
  PROVE  IInv'
<1> USE DEF IInv
<1>1. ManagerInv' /\ ContentsInv' /\ PutOffInv'
  BY DEF Record, ManagerInv, ContentsInv, PutOffInv, Tracked, PutOff
<1>2. BufferInv'
  <2> DEFINE r    == a.res
             mem  == Compose(cb.mem[r][a.part], a.ref)
             refs == IF cb.refs[r] = None THEN mem ELSE Disjoint(cb.refs[r], mem)
             cmds == Append(cb.cmds, a)
  <2>1. r \in Resources /\ a.part \in Parts(r) /\ a.ref \in References /\ Access(a)
    BY AccessesValid DEF Access
  <2>2. cmds \in Seq(Accesses) /\ Len(cmds) = Len(cb.cmds) + 1 /\ Len(cb.cmds) \in Nat
        /\ cmds[Len(cmds)] = a /\ \A i \in 1..Len(cb.cmds) : cmds[i] = cb.cmds[i]
    BY DEF BufferInv
  <2>3. CASE a.bound
    <3>1. cb' = [cmds |-> cmds, refs |-> cb.refs, mem |-> cb.mem]
      BY <2>3 DEF Record, BufferInv
    <3>2. Tracked(r) => ~IsDirty(a.ref)
      BY <2>1, <2>3 DEF Access, Tracked, IsDirty
    <3> QED  BY <2>2, <3>1, <3>2 DEF BufferInv, Single, Tracked
  <2>4. CASE ~a.bound
    <3>1. cb' = [cmds |-> cmds, refs |-> [cb.refs EXCEPT ![r] = refs],
                 mem |-> [cb.mem EXCEPT ![r][a.part] = mem]]
      BY <2>4 DEF Record
    <3>2. mem \in References /\ refs \in References
      BY <2>1, ComposeType, DisjointType DEF BufferInv
    <3>3. ASSUME Single(r)
          PROVE  /\ a.part = 1
                 /\ IsDirty(refs) <=> IsDirty(mem)
                 /\ refs = None <=> mem = None
                 /\ IsDirty(a.ref) \/ IsDirty(cb.refs[r]) => IsDirty(refs)
      <4>1. a.part = 1
        BY <2>1, <3>3 DEF Single, Parts
      <4>2. /\ cb.refs[r] \in References /\ cb.mem[r][1] \in References
            /\ IsDirty(cb.refs[r]) <=> IsDirty(cb.mem[r][1])
            /\ cb.refs[r] = None <=> cb.mem[r][1] = None
        BY <2>1, <3>3, RangesPositive DEF BufferInv
      <4>3. IsDirty(mem) <=> IsDirty(cb.refs[r]) \/ IsDirty(a.ref)
        BY <2>1, <4>1, <4>2, ComposeDirty
      <4>4. mem # None
        BY <2>1, <4>1, <4>2, ComposeNone, AccessesValid DEF Access
      <4>5. CASE cb.refs[r] = None
        BY <4>1, <4>3, <4>5
      <4>6. CASE cb.refs[r] # None
        <5>1. refs = Disjoint(cb.refs[r], mem)
          BY <4>6
        <5>2. CASE IsDirty(cb.refs[r]) <=> IsDirty(mem)
          BY <3>2, <4>1, <4>2, <4>3, <4>4, <5>1, <5>2, DisjointDirty
        <5>3. CASE ~IsDirty(cb.refs[r]) /\ IsDirty(mem)
          <6>1. cb.refs[r] = Read /\ cb.mem[r][1] = Read
            BY <4>2, <4>6, <5>3 DEF IsDirty
          <6>2. mem = ReadBeforeWrite
            BY <4>1, <4>3, <5>3, <6>1 DEF Compose, IncludesWrite, IsDirty, Read, None,
               PartialWrite, ReadBeforeWrite, WriteBeforeRead
          <6>3. refs = ReadBeforeWrite
            BY <5>1, <6>2 DEF Disjoint
          <6> QED  BY <4>1, <6>2, <6>3 DEF IsDirty, ReadBeforeWrite, None, Read
        <5> QED  BY <4>3, <5>2, <5>3
      <4> QED  BY <4>5, <4>6
    <3>4. cb'.refs \in [Resources -> References] /\ cb'.refs[r] = refs
          /\ \A q \in Resources : q # r => cb'.refs[q] = cb.refs[q]
      BY <2>1, <3>1, <3>2 DEF BufferInv
    <3>5. /\ cb'.mem = [q \in Resources |-> cb'.mem[q]]
          /\ cb'.mem[r] = [cb.mem[r] EXCEPT ![a.part] = mem]
          /\ \A q \in Resources : q # r => cb'.mem[q] = cb.mem[q]
      BY <2>1, <3>1 DEF BufferInv
    <3>6. /\ cb'.mem[r] = [p \in Parts(r) |-> cb'.mem[r][p]]
          /\ cb'.mem[r][a.part] = mem
          /\ \A p \in Parts(r) : p # a.part => cb'.mem[r][p] = cb.mem[r][p]
      BY <2>1, <3>5 DEF BufferInv
    <3>7. cb'.cmds = cmds /\ cb' = [cmds |-> cb'.cmds, refs |-> cb'.refs, mem |-> cb'.mem]
      BY <3>1
    <3>8. ASSUME NEW q \in Resources
          PROVE  /\ cb'.mem[q] = [p \in Parts(q) |-> cb'.mem[q][p]]
                 /\ \A p \in Parts(q) : cb'.mem[q][p] \in References
      <4>1. CASE q = r
        <5>1. \A p \in Parts(r) : cb.mem[r][p] \in References
          BY <2>1 DEF BufferInv
        <5>2. \A p \in Parts(r) : cb'.mem[r][p] \in References
          BY <5>1, <3>2, <3>6
        <5> HIDE DEF mem
        <5> QED  BY <3>6, <4>1, <5>2
      <4>2. CASE q # r
        <5>1. cb'.mem[q] = cb.mem[q]
          BY <3>5, <4>2
        <5>2. /\ cb.mem[q] = [p \in Parts(q) |-> cb.mem[q][p]]
              /\ \A p \in Parts(q) : cb.mem[q][p] \in References
          BY DEF BufferInv
        <5> QED  BY <5>1, <5>2
      <4> QED  BY <4>1, <4>2
    <3>9. ASSUME NEW q \in Resources, Single(q)
          PROVE  /\ IsDirty(cb'.refs[q]) <=> IsDirty(cb'.mem[q][1])
                 /\ cb'.refs[q] = None <=> cb'.mem[q][1] = None
                 /\ \A i \in 1..Len(cmds) :
                      cmds[i].res = q /\ IsDirty(cmds[i].ref) => IsDirty(cb'.refs[q])
      <4>1. /\ IsDirty(cb.refs[q]) <=> IsDirty(cb.mem[q][1])
            /\ cb.refs[q] = None <=> cb.mem[q][1] = None
            /\ \A i \in 1..Len(cb.cmds) :
                 cb.cmds[i].res = q /\ IsDirty(cb.cmds[i].ref) => IsDirty(cb.refs[q])
        BY <3>9 DEF BufferInv
      <4>2. IsDirty(cb.refs[q]) => IsDirty(cb'.refs[q])
        BY <3>3, <3>4, <3>9
      <4>3. a.res = q /\ IsDirty(a.ref) => IsDirty(cb'.refs[q])
        BY <3>3, <3>4, <3>9
      <4>4. ASSUME NEW i \in 1..Len(cmds), cmds[i].res = q, IsDirty(cmds[i].ref)
            PROVE  IsDirty(cb'.refs[q])
        <5>1. CASE i \in 1..Len(cb.cmds)
          BY <2>2, <4>1, <4>2, <4>4, <5>1
        <5>2. CASE i = Len(cmds)
          BY <2>2, <4>3, <4>4, <5>2
        <5> QED  BY <2>2, <5>1, <5>2
      <4>5. CASE q = r
        BY <3>3, <3>4, <3>6, <3>9, <4>4, <4>5
      <4>6. CASE q # r
        BY <3>4, <3>5, <4>1, <4>4, <4>6
      <4> QED  BY <4>5, <4>6
    <3> QED  BY <2>2, <3>4, <3>5, <3>7, <3>8, <3>9 DEF BufferInv, Single, Tracked
  <2> QED  BY <2>3, <2>4, <2>1 DEF Access
<1> QED  BY <1>1, <1>2

\* Where the state of the other parts allows it, it is enough that each resource
\* stays a record and nothing is newly put off.
LEMMA ManagerKept ==
  ASSUME ManagerInv, NEW f, manager' = [r \in Resources |-> f[r]],
         \A r \in Resources : IsRecord(f[r]) /\ (PutOff(f[r]) => Tracked(r))
  PROVE  ManagerInv'
BY DEF ManagerInv, IsRecord, Tracked, PutOff

LEMMA Records == ManagerInv => \A r \in Resources : IsRecord(manager[r])
BY DEF ManagerInv, IsRecord

LEMMA SubmitInv ==
  ASSUME IInv, Submit, WritesShown
  PROVE  IInv'
<1> USE DEF IInv
<1>1. ContentsInv' /\ BufferInv'
  BY BufferEmptied DEF Submit, ContentsInv
<1>2. CASE mode = "capturing"
  <2> DEFINE once(r)  == Marked(manager[r], r, BoundRefs(r), gpu[r])
             twice(r) == Marked(once(r), r, cb.refs[r], gpu[r])
             after    == [r \in Resources |-> twice(r)]
  <2>1. manager' = after
    BY <1>2 DEF Submit
  <2>2. ASSUME NEW r \in Resources
        PROVE  /\ IsRecord(after[r])
               /\ PutOff(after[r]) => PutOff(manager[r]) /\ Tracked(r) /\ ~IsDirty(cb.refs[r])
    <3>1. IsRecord(once(r)) /\ (PutOff(once(r)) => PutOff(manager[r]))
      BY Records, MarkedKeeps
    <3>2. IsRecord(twice(r)) /\ (PutOff(twice(r)) => PutOff(once(r)) /\ ~IsDirty(cb.refs[r]))
      BY <3>1, MarkedKeeps
    <3>3. PutOff(manager[r]) => Tracked(r)
      BY DEF ManagerInv
    <3> QED  BY <3>1, <3>2, <3>3
  <2> HIDE DEF after
  <2>3. ManagerInv'
    <3>1. manager' = [r \in Resources |-> after[r]]
      BY <2>1 DEF after
    <3> QED  BY <2>2, <3>1, ManagerKept
  <2>4. PutOffInv'
    <3>1. queue' = cb.cmds /\ cb.cmds \in Seq(Accesses) /\ gpu' = gpu /\ start' = start /\ mode' = mode
      BY DEF Submit, BufferInv
    <3>2. ASSUME NEW r \in Resources, PutOff(after[r])
          PROVE  /\ gpu[r] = start[r]
                 /\ \A i \in 1..Len(cb.cmds) : cb.cmds[i].res = r => ~IsDirty(cb.cmds[i].ref)
      <4>1. gpu[r] = start[r]
        BY <1>2, <2>2, <3>2 DEF PutOffInv
      <4>2. ASSUME NEW i \in 1..Len(cb.cmds), cb.cmds[i].res = r, IsDirty(cb.cmds[i].ref)
            PROVE  FALSE
        <5>1. cb.cmds[i] \in Submitted
          BY DEF Submitted
        <5>2. PutOff(manager[r]) /\ ~IsDirty(cb.refs[r])
          BY <2>2, <3>2
        <5> QED  BY <4>2, <5>1, <5>2 DEF WritesShown, PutOff
      <4> QED  BY <4>1, <4>2
    <3> QED  BY <2>1, <3>1, <3>2 DEF PutOffInv, PutOff
  <2> QED  BY <1>1, <2>3, <2>4
<1>3. CASE mode # "capturing"
  <2> DEFINE after == [r \in Resources |-> UpdateLastWriteTime(manager[r], cb.refs[r])]
  <2>1. manager' = after
    BY <1>3 DEF Submit
  <2>2. ASSUME NEW r \in Resources
        PROVE  IsRecord(after[r]) /\ (PutOff(after[r]) => Tracked(r))
    <3>1. PutOff(manager[r]) => Tracked(r)
      BY DEF ManagerInv
    <3> QED  BY <3>1, Records, UpdateKeeps DEF PutOff
  <2> HIDE DEF after
  <2>3. manager' = [r \in Resources |-> after[r]]
    BY <2>1 DEF after
  <2>4. ManagerInv'
    BY <2>2, <2>3, ManagerKept
  <2>5. PutOffInv'
    BY <1>3 DEF Submit, PutOffInv, BufferInv
  <2> QED  BY <1>1, <2>4, <2>5
<1> QED  BY <1>2, <1>3

LEMMA ExecuteInv ==
  ASSUME IInv, Execute
  PROVE  IInv'
<1> USE DEF IInv
<1> DEFINE a    == Head(queue)
           seen == gpu[a.res][a.part]
           new  == Written(seen, a.ref, Len(script) + 1)
<1>1. ManagerInv' /\ BufferInv'
  BY DEF Execute, ManagerInv, BufferInv, Single, Tracked, PutOff
<1>2. queue \in Seq(Accesses) /\ queue # <<>> /\ queue' = Tail(queue) /\ mode' = mode
  BY DEF Execute, PutOffInv
<1>3. a \in Accesses /\ a = queue[1] /\ 1 \in 1..Len(queue) /\ Access(a)
  BY <1>2, AccessesValid
<1>4. ContentsInv'
  BY <1>3 DEF Execute, ContentsInv, Access
<1>5. queue' \in Seq(Accesses)
      /\ \A i \in 1..Len(queue') : i + 1 \in 1..Len(queue) /\ queue'[i] = queue[i + 1]
  BY <1>2
<1>6. ASSUME mode = "capturing", NEW r \in Resources, PutOff(manager[r])
      PROVE  gpu'[r] = gpu[r]
  <2>1. gpu' = [gpu EXCEPT ![a.res][a.part] = new]
    BY <1>6 DEF Execute
  <2>2. CASE a.res = r
    <3>1. ~IsDirty(a.ref)
      BY <1>3, <1>6, <2>2 DEF PutOffInv
    <3>2. new = seen
      BY <3>1 DEF IsDirty, Written, None, Read, PartialWrite, ReadBeforeWrite, CompleteWrite,
         CompleteWriteAndDiscard
    <3> QED  BY <2>1, <2>2, <3>2, <1>3 DEF ContentsInv, Access
  <2>3. CASE a.res # r
    BY <2>1, <2>3 DEF ContentsInv
  <2> QED  BY <2>2, <2>3
<1>7. PutOffInv'
  <2>1. manager' = manager /\ start' = start
    BY DEF Execute
  <2> QED  BY <1>2, <1>5, <1>6, <2>1 DEF PutOffInv
<1> QED  BY <1>1, <1>4, <1>7

\* The manager forgets what it knows of the age of a resource, not what is put off.
LEMMA AgeInv ==
  ASSUME IInv, NEW f, manager' = [r \in Resources |-> f[r]],
         \A r \in Resources : IsRecord(f[r]) /\ (PutOff(f[r]) => PutOff(manager[r])),
         UNCHANGED <<mode, gpu, queue, start, cb>>
  PROVE  IInv'
<1> USE DEF IInv
<1>1. ContentsInv' /\ BufferInv'
  BY DEF ContentsInv, BufferInv, Single, Tracked
<1>2. \A r \in Resources : PutOff(f[r]) => Tracked(r)
  BY DEF ManagerInv
<1>3. ManagerInv'
  BY <1>2, ManagerKept
<1>4. PutOffInv'
  BY DEF PutOffInv, PutOff
<1> QED  BY <1>1, <1>3, <1>4

LEMMA TimePassesInv ==
  ASSUME IInv, NEW r \in Resources, TimePasses(r)
  PROVE  IInv'
<1>1. PICK m : /\ manager' = [manager EXCEPT ![r] = m]
               /\ IsRecord(m) /\ (PutOff(m) => PutOff(manager[r]))
  <2>1. IsRecord(manager[r])
    BY Records DEF IInv
  <2>2. CASE manager' = [manager EXCEPT ![r].skip = "old"]
    <3> DEFINE m == [manager[r] EXCEPT !.skip = "old"]
    <3>1. IsRecord(m) /\ (PutOff(m) => PutOff(manager[r]))
      BY <2>1 DEF IsRecord, Fields, PutOff
    <3>2. manager' = [manager EXCEPT ![r] = m]
      BY <2>2
    <3> QED  BY <3>1, <3>2
  <2>3. CASE manager' = [manager EXCEPT ![r].write = "old",
                                        ![r].skip = IF @ = "recent" THEN "old" ELSE @]
    <3> DEFINE n == [manager[r] EXCEPT !.write = "old"]
               m == [n EXCEPT !.skip = IF @ = "recent" THEN "old" ELSE @]
    <3>1. IsRecord(m) /\ (PutOff(m) => PutOff(manager[r]))
      BY <2>1 DEF IsRecord, Fields, PutOff
    <3>2. manager' = [manager EXCEPT ![r] = m]
      BY <2>3, ZenonT(60) DEF IInv, ManagerInv
    <3> QED  BY <3>1, <3>2
  <2> QED  BY <2>2, <2>3 DEF TimePasses
<1>2. manager' = [q \in Resources |-> IF q = r THEN m ELSE manager[q]]
  BY <1>1 DEF IInv, ManagerInv
<1> DEFINE f == [q \in Resources |-> IF q = r THEN m ELSE manager[q]]
<1>3. \A q \in Resources : IsRecord(f[q]) /\ (PutOff(f[q]) => PutOff(manager[q]))
  BY <1>1, Records DEF IInv
<1> QED  BY <1>2, <1>3, AgeInv DEF TimePasses

LEMMA CleanInv ==
  ASSUME IInv, CleanBackgroundFrameReferences
  PROVE  IInv'
<1> DEFINE f == [r \in Resources |->
             IF manager[r].write = "old" /\ manager[r].skip = "none"
             THEN [manager[r] EXCEPT !.write = "absent"] ELSE manager[r]]
<1>1. manager' = [r \in Resources |-> f[r]]
  BY DEF CleanBackgroundFrameReferences
<1>2. \A r \in Resources : IsRecord(f[r]) /\ (PutOff(f[r]) => PutOff(manager[r]))
  BY Records DEF IInv, IsRecord, Fields, PutOff
<1> HIDE DEF f
<1> QED  BY <1>1, <1>2, AgeInv DEF CleanBackgroundFrameReferences

LEMMA ReleaseInv ==
  ASSUME IInv, NEW r \in Resources, ReleaseResource(r)
  PROVE  IInv'
<1> DEFINE kept == [q \in Resources |->
             IF q = r /\ mode = "capturing" THEN PreparedIfPostponed(manager[q], gpu[q]) ELSE manager[q]]
           f == [q \in Resources |->
             IF q \in Erased(r) THEN [kept[q] EXCEPT !.write = "absent", !.skip = "none"] ELSE kept[q]]
<1>1. manager' = [q \in Resources |-> f[q]]
  BY DEF ReleaseResource
<1>2. ASSUME NEW q \in Resources
      PROVE  IsRecord(kept[q]) /\ (PutOff(kept[q]) => PutOff(manager[q]))
  <2>1. IsRecord(manager[q])
    BY Records DEF IInv
  <2>2. kept[q] = manager[q] \/ kept[q] = PreparedIfPostponed(manager[q], gpu[q])
    OBVIOUS
  <2> HIDE DEF kept
  <2>3. /\ IsRecord(PreparedIfPostponed(manager[q], gpu[q]))
        /\ PutOff(PreparedIfPostponed(manager[q], gpu[q])) => PutOff(manager[q])
    BY <2>1, PreparedKeeps DEF PutOff
  <2> QED  BY <2>1, <2>2, <2>3
<1> HIDE DEF kept
<1>3. \A q \in Resources : IsRecord(f[q]) /\ (PutOff(f[q]) => PutOff(manager[q]))
  BY <1>2 DEF IsRecord, Fields, PutOff
<1> HIDE DEF f
<1> QED  BY <1>1, <1>3, AgeInv DEF ReleaseResource

LEMMA StartInv ==
  ASSUME IInv, StartFrameCapture
  PROVE  IInv'
<1> USE DEF IInv
<1> DEFINE f == [r \in Resources |-> AtStart(r)]
<1>1. manager' = [r \in Resources |-> f[r]]
  BY DEF StartFrameCapture
<1>2. ASSUME NEW r \in Resources
      PROVE  IsRecord(f[r]) /\ (PutOff(f[r]) => Tracked(r))
  <2> DEFINE m == [manager[r] EXCEPT !.ref = None]
  <2>1. IsRecord(m) /\ (PutOff(m) => Tracked(r))
    BY Records DEF ManagerInv, IsRecord, Fields, PutOff
  <2>2. \/ f[r] = m
        \/ f[r] = [m EXCEPT !.initial = Saved(gpu[r])]
        \/ Tracked(r) /\ f[r] = [m EXCEPT !.skipped = TRUE]
        \/ Tracked(r) /\ f[r] = [m EXCEPT !.postponed = TRUE, !.initial = Empty]
    <3>1. f[r] = AtStart(r)
      OBVIOUS
    <3> HIDE DEF f
    <3> QED  BY <3>1, Zenon DEF AtStart
  <2> HIDE DEF m, f
  <2> QED  BY <2>1, <2>2 DEF IsRecord, Fields, PutOff
<1> HIDE DEF f
<1>3. ManagerInv'
  BY <1>1, <1>2, ManagerKept
<1>4. ContentsInv' /\ BufferInv'
  BY DEF StartFrameCapture, ContentsInv, BufferInv, Single, Tracked
<1>5. PutOffInv'
  BY DEF StartFrameCapture, PutOffInv, Busy
<1> QED  BY <1>3, <1>4, <1>5

\* What is freed is no longer put off.
LEMMA FreedInv ==
  ASSUME IInv, manager' = [r \in Resources |-> Freed(manager[r])],
         gpu' = PerRange(LAMBDA r, p : Settled(gpu[r][p])),
         mode' = "background", UNCHANGED <<cb, queue>>
  PROVE  IInv'
<1> USE DEF IInv
<1> DEFINE f == [r \in Resources |-> Freed(manager[r])]
<1>1. ASSUME NEW r \in Resources
      PROVE  IsRecord(f[r]) /\ (PutOff(f[r]) => Tracked(r))
  BY Records DEF IsRecord, Fields, Freed, PutOff
<1>2. manager' = [r \in Resources |-> f[r]]
  OBVIOUS
<1> HIDE DEF f
<1>3. ManagerInv'
  BY <1>1, <1>2, ManagerKept
<1>4. ContentsInv'
  BY DEF PerRange, ContentsInv
<1>5. BufferInv' /\ PutOffInv'
  BY DEF BufferInv, PutOffInv, Single, Tracked
<1> QED  BY <1>3, <1>4, <1>5

LEMMA LoadInv ==
  ASSUME IInv, NEW policy \in Policies, Load(policy)
  PROVE  IInv'
<1>1. ManagerInv'
  BY DEF Load, ManagerInv, Unknown, Fields, PutOff
<1>2. ContentsInv'
  BY DEF Load, ContentsInv, Everywhere, PerRange
<1>3. BufferInv'
  BY BufferEmptied DEF Load
<1>4. PutOffInv'
  BY DEF Load, PutOffInv, IInv
<1> QED  BY <1>1, <1>2, <1>3, <1>4 DEF IInv

LEMMA UnchangedInv ==
  ASSUME IInv, UNCHANGED <<mode, manager, gpu, cb, queue, start>>
  PROVE  IInv'
BY DEF IInv, ManagerInv, ContentsInv, BufferInv, PutOffInv, Single, Tracked, PutOff

LEMMA NextInv ==
  ASSUME IInv, [ShownNext]_vars
  PROVE  IInv'
<1>1. ASSUME NEW a \in Accesses, Record(a)
      PROVE  IInv'
  BY <1>1, RecordInv
<1>2. CASE Submit /\ WritesShown
  BY <1>2, SubmitInv
<1>3. CASE Execute
  BY <1>3, ExecuteInv
<1>4. ASSUME NEW r \in Resources, TimePasses(r)
      PROVE  IInv'
  BY <1>4, TimePassesInv
<1>5. ASSUME NEW r \in Resources, ReleaseResource(r)
      PROVE  IInv'
  BY <1>5, ReleaseInv
<1>6. CASE CleanBackgroundFrameReferences
  BY <1>6, CleanInv
<1>7. CASE StartFrameCapture
  BY <1>7, StartInv
<1>8. CASE EndFrameCapture
  BY <1>8, FreedInv DEF EndFrameCapture
<1>9. CASE DiscardFrameCapture
  BY <1>9, FreedInv DEF DiscardFrameCapture
<1>10. ASSUME NEW policy \in Policies, Load(policy)
       PROVE  IInv'
  BY <1>10, LoadInv
<1>11. CASE ApplyInitialContents
  BY <1>11, UnchangedInv DEF ApplyInitialContents
<1>12. CASE ReplayCommand
  BY <1>12, UnchangedInv DEF ReplayCommand
<1>13. CASE UNCHANGED vars
  BY <1>13, UnchangedInv DEF vars
<1> QED  BY <1>1, <1>2, <1>3, <1>4, <1>5, <1>6, <1>7, <1>8, <1>9, <1>10, <1>11, <1>12, <1>13
         DEF ShownNext, Next

\* Contents that are still to be saved have not been overwritten, whatever is
\* postponed, if no command buffer that is submitted hides a write
\* (resource_manager.h:1152).
THEOREM NotOverwrittenAlways == ShownSpec => []NotOverwritten
<1>1. IInv /\ [ShownNext]_vars => IInv'
  BY NextInv
<1>2. IInv => NotOverwritten
  BY DEF IInv, PutOffInv, PutOff, NotOverwritten
<1> QED  BY InitInv, <1>1, <1>2, PTL DEF ShownSpec

-----------------------------------------------------------------------------
(* The frame, and how its references sum it up.                              *)

Touches(c, r, p) == c.res = r /\ c.part = p

\* Where a range is used by commands: by all, and by those whose references the
\* command buffer notes.
Positions(cmds, r, p) == {i \in 1..Len(cmds) : Touches(cmds[i], r, p)}
Noted(cmds, r, p)     == {i \in Positions(cmds, r, p) : ~cmds[i].bound}

\* The captured frame: the commands executed, and those that wait for the GPU.
Commands(s) == [i \in 1..Len(s) |-> s[i].cmd]
Frame == Commands(script) \o queue

\* What a reference says of the commands at positions P that it sums up.
Claims(ref, cmds, P) ==
  /\ ref = None => P = {}
  /\ ref = PartialWrite => \A i \in P : cmds[i].ref = PartialWrite
  /\ ref = Read => \A i \in P : cmds[i].ref = Read
  /\ IsCompleteWrite(ref) =>
       \E d \in P : IsCompleteWrite(cmds[d].ref) /\ \A i \in P : IncludesRead(cmds[i].ref) => d < i
  /\ ref = WriteBeforeRead =>
       /\ \A i \in P : cmds[i].ref \in {PartialWrite, Read}
       /\ \A d, i \in P : cmds[d].ref = PartialWrite /\ cmds[i].ref = Read => d < i

\* The command buffer notes what it does, and only to resources that live.
RecordedInv ==
  /\ live \subseteq Resources
  /\ \A i \in 1..Len(cb.cmds) : cb.cmds[i].res \in live
  /\ \A r \in Resources :
       /\ \A p \in Parts(r) : Claims(cb.mem[r][p], cb.cmds, Noted(cb.cmds, r, p))
       /\ cb.refs[r] = None => \A p \in Parts(r) : cb.mem[r][p] = None
       /\ cb.refs[r] # None => \E i \in 1..Len(cb.cmds) : cb.cmds[i].res = r
       /\ Single(r) => cb.refs[r] \in {cb.mem[r][1], Used(cb.mem[r][1])}
       /\ Ranges[r] # 1 =>
            /\ cb.refs[r] # CompleteWriteAndDiscard
            /\ \A p \in Parts(r) : cb.mem[r][p] # CompleteWriteAndDiscard
       /\ Tracked(r) /\ cb.refs[r] = CompleteWriteAndDiscard =>
            /\ \A i \in 1..Len(cb.cmds) :
                 cb.cmds[i].res = r => cb.cmds[i].ref \in {Read, CompleteWriteAndDiscard}
            /\ \E i \in 1..Len(cb.cmds) :
                 cb.cmds[i].res = r /\ cb.cmds[i].ref = CompleteWriteAndDiscard

\* So does the manager of the whole frame.
MergedInv ==
  mode = "capturing" =>
    \A r \in Resources : \A p \in Parts(r) :
      memRefs[r][p] \in References /\ Claims(memRefs[r][p], Frame, Positions(Frame, r, p))

Undefined(contents) == contents = Fresh(Junk)
Plain(contents) == contents \in {Fresh(Start), Fresh(Junk)}

\* What the manager keeps of resource r for the capture, which held st: nothing, if it
\* was undefined when the capture started and is written completely before it is read.
KeepsOf(m, r, st, refs) ==
  /\ m.postponed => m.initial.has
  /\ m.initial.has /\ ~m.postponed => m.initial.data = st
  /\ m.skipped => ~m.initial.has /\ m.ref = None /\ Single(r) /\ Undefined(st[1])
  /\ m.ref = None => \A p \in Parts(r) : refs[p] = None
  /\ ~m.initial.has /\ m.ref = None /\ r \in live => m.skipped
  /\ ~m.initial.has /\ m.ref # None =>
       IsDirty(m.ref) /\ Single(r) /\ IsCompleteWrite(refs[1]) /\ Undefined(st[1])

KeptInv ==
  /\ \A r \in Resources : manager[r].ref \in References /\ manager[r].initial.has \in BOOLEAN
  /\ mode = "background" =>
       \A r \in Resources :
         ~PutOff(manager[r]) /\ ~manager[r].initial.has /\ manager[r].ref = None
  /\ mode = "capturing" => \A r \in Resources : KeepsOf(manager[r], r, start[r], memRefs[r])

\* A resource that was only discarded since it had contents is undefined, or will be
\* when what waits for the GPU is done.
Discarded(r) ==
  /\ \A i \in 1..Len(queue) : queue[i].res = r => queue[i].ref \in {Read, CompleteWriteAndDiscard}
  /\ \/ Undefined(gpu[r][1])
     \/ \E i \in 1..Len(queue) : queue[i].res = r /\ queue[i].ref = CompleteWriteAndDiscard

DiscardedInv ==
  mode # "replaying" =>
    \A r \in Resources : Tracked(r) /\ manager[r].skip # "none" => Ranges[r] = 1 /\ Discarded(r)

-----------------------------------------------------------------------------
(* The captured commands, and what they saw.                                 *)

\* From command k on, the next command of the range sees contents c.
SeesNext(s, r, p, k, c) ==
  \A n \in k..Len(s) :
    Touches(s[n].cmd, r, p) /\ (\A i \in k..n - 1 : ~Touches(s[i].cmd, r, p)) => s[n].saw = c

\* What a command makes of a range is what the next one sees.
Chain(s, st) ==
  /\ \A r \in Resources : \A p \in Parts(r) : SeesNext(s, r, p, 1, st[r][p])
  /\ \A k \in 1..Len(s) :
       SeesNext(s, s[k].cmd.res, s[k].cmd.part, k + 1, Written(s[k].saw, s[k].cmd.ref, k))

\* What a range holds after the commands s.
HeldAfter(s, st, r, p, c) ==
  /\ (\A j \in 1..Len(s) : ~Touches(s[j].cmd, r, p)) => c = st[r][p]
  /\ \A j \in 1..Len(s) :
       Touches(s[j].cmd, r, p) /\ (\A i \in j + 1..Len(s) : ~Touches(s[i].cmd, r, p)) =>
         c = Written(s[j].saw, s[j].cmd.ref, j)

WritesBefore(s, r, p, k) == {i \in 1..k - 1 : Touches(s[i].cmd, r, p) /\ IncludesWrite(s[i].cmd.ref)}

PartialBefore(s, r, p, k) ==
  \A i \in 1..k - 1 : Touches(s[i].cmd, r, p) => s[i].cmd.ref \in {PartialWrite, Read}

\* Contents over which the commands W wrote, in their order.
Layers(c, W) == [base |-> c.base, over |-> {e \in W \X W : e[1] <= e[2]}]

LayersSeen(s, st) ==
  \A k \in 1..Len(s) : \A r \in Resources : \A p \in Parts(r) :
    Touches(s[k].cmd, r, p) /\ PartialBefore(s, r, p, k) =>
      s[k].saw = Layers(st[r][p], WritesBefore(s, r, p, k))

PlainStart(st) ==
  /\ st = [r \in Resources |-> st[r]]
  /\ \A r \in Resources :
       /\ st[r] = [p \in Parts(r) |-> st[r][p]]
       /\ \A p \in Parts(r) : Plain(st[r][p])

Story(s, st) ==
  /\ s \in Seq({s[i] : i \in 1..Len(s)})
  /\ \A i \in 1..Len(s) : s[i].cmd \in Accesses
  /\ PlainStart(st)
  /\ Chain(s, st)
  /\ LayersSeen(s, st)

\* What a range holds now.
Holds(s, st, r, p, c) ==
  /\ HeldAfter(s, st, r, p, c)
  /\ PartialBefore(s, r, p, Len(s) + 1) => c = Layers(st[r][p], WritesBefore(s, r, p, Len(s) + 1))

StoryInv ==
  /\ mode = "background" => PlainStart(gpu)
  /\ mode = "capturing" =>
       /\ Story(script, start)
       /\ \A r \in Resources : \A p \in Parts(r) : Holds(script, start, r, p, gpu[r][p])

-----------------------------------------------------------------------------
(* The file and its replay.                                                  *)

\* What is not in the file was undefined, and is written completely before it is read.
FileInv ==
  file.taken =>
    /\ DOMAIN file.initial \subseteq file.needed /\ file.needed \subseteq Resources
    /\ Story(file.script, file.start)
    /\ \A r \in DOMAIN file.initial : file.initial[r] = file.start[r]
    /\ \A r \in Resources :
         /\ \A p \in Parts(r) :
              /\ file.refs[r][p] \in References
              /\ Claims(file.refs[r][p], Commands(file.script), Positions(Commands(file.script), r, p))
              /\ r \notin file.needed => Positions(Commands(file.script), r, p) = {}
         /\ r \in file.needed \ DOMAIN file.initial =>
              Single(r) /\ IsCompleteWrite(file.refs[r][1]) /\ Undefined(file.start[r][1])

\* Contents c in which the writes W before command k lie in their order, on top.
Relayered(c, st, W, k) ==
  /\ c = [base |-> st.base, over |-> c.over]
  /\ c.over \subseteq W \X W
  /\ \A e \in c.over : <<e[1], e[1]>> \in c.over /\ <<e[2], e[2]>> \in c.over
  /\ \A v \in W : v < k =>
       /\ <<v, v>> \in c.over
       /\ \A u \in W : <<u, u>> \in c.over => (<<u, v>> \in c.over <=> u >= k \/ u <= v)

\* What a range holds in the replay, by the reference that decided what it is reset to.
ReplaysRight(r, p, k, c) ==
  LET ref == file.refs[r][p]
      st  == file.start[r][p]
      s   == file.script
  IN /\ ref = None => c = IF r \in Images \/ replay.policy \in {"NoOpt", "CopyAll"} THEN st ELSE Fresh(Zero)
     /\ ref = Read => c = st
     /\ ref = ReadBeforeWrite => SeesNext(s, r, p, k, c)
     /\ ref = WriteBeforeRead => Relayered(c, st, WritesBefore(s, r, p, Len(s) + 1), k)
     /\ IsCompleteWrite(ref) /\ (\E j \in 1..k - 1 : Touches(s[j].cmd, r, p) /\ IsCompleteWrite(s[j].cmd.ref))
          => SeesNext(s, r, p, k, c)

Promised(r, p, c) ==
  \/ Agree(c, file.start[r][p])
  \/ replay.policy = "ClearUnread" /\ c = Fresh(Zero)

ReplayState ==
  /\ file.taken
  /\ replay.policy \in InitPolicy
  /\ replay.initial = [r \in file.needed |-> IF r \in DOMAIN file.initial THEN file.initial[r] ELSE <<>>]
  /\ replay.at \in Nat
  /\ replay.at = 0 => replay.initialized = {}
  /\ replay.at # 0 => replay.initialized = file.needed
  /\ replay = [policy |-> replay.policy, at |-> replay.at, initial |-> replay.initial,
               initialized |-> replay.initialized, gpu |-> replay.gpu]
  /\ replay.gpu = [r \in Resources |-> replay.gpu[r]]
  /\ \A r \in Resources : replay.gpu[r] = [p \in Parts(r) |-> replay.gpu[r][p]]

ReplayInv ==
  mode = "replaying" =>
    /\ ReplayState
    /\ replay.at > 0 =>
         \A r \in file.needed : \A p \in Parts(r) :
           /\ ReplaysRight(r, p, replay.at, replay.gpu[r][p])
           /\ replay.at = 1 /\ replay.policy # "Fastest" => Promised(r, p, replay.gpu[r][p])

CaptureInv == RecordedInv /\ MergedInv /\ KeptInv /\ DiscardedInv /\ StoryInv /\ FileInv /\ ReplayInv

-----------------------------------------------------------------------------
(* What references claim.                                                    *)

\* A reference made of two claims what both do, if the commands that the first sums
\* up come before those of the second.
LEMMA ClaimsCompose ==
  ASSUME NEW x \in References, NEW y \in References, NEW cmds, NEW P \in SUBSET Int, NEW Q \in SUBSET Int,
         Claims(x, cmds, P), Claims(y, cmds, Q), \A i \in P, j \in Q : i < j
  PROVE  Claims(Compose(x, y), cmds, P \cup Q)
<1> USE DEF References, None, PartialWrite, CompleteWrite, Read, ReadBeforeWrite, WriteBeforeRead,
            CompleteWriteAndDiscard
<1>1. CASE x = None
  <2>1. P = {} /\ Compose(x, y) = y
    BY <1>1 DEF Claims, Compose
  <2> QED  BY <2>1
<1>2. CASE x = PartialWrite
  <2>1. \A i \in P : cmds[i].ref = PartialWrite
    BY <1>2 DEF Claims
  <2>2. CASE y = None
    BY <1>2, <2>2 DEF Claims, Compose, IsCompleteWrite
  <2>3. CASE y = Read
    <3>1. Compose(x, y) = WriteBeforeRead
      BY <1>2, <2>3 DEF Compose
    <3>2. \A i \in Q : cmds[i].ref = Read
      BY <2>3 DEF Claims
    <3>3. \A i \in P \cup Q : cmds[i].ref \in {PartialWrite, Read}
      BY <2>1, <3>2
    <3>4. \A d, i \in P \cup Q : cmds[d].ref = PartialWrite /\ cmds[i].ref = Read => d < i
      BY <2>1, <3>2
    <3>5. Compose(x, y) \notin {None, PartialWrite, Read} /\ ~IsCompleteWrite(Compose(x, y))
      BY <3>1 DEF IsCompleteWrite
    <3> QED  BY <3>1, <3>3, <3>4, <3>5 DEF Claims
  <2>4. CASE y = PartialWrite
    BY <1>2, <2>4 DEF Claims, Compose, IsCompleteWrite
  <2>5. CASE IsCompleteWrite(y)
    <3>1. Compose(x, y) = y
      BY <1>2, <2>5 DEF Compose, IsCompleteWrite
    <3>2. PICK d \in Q : IsCompleteWrite(cmds[d].ref) /\ \A i \in Q : IncludesRead(cmds[i].ref) => d < i
      BY <2>5 DEF Claims
    <3>3. \A i \in P : ~IncludesRead(cmds[i].ref)
      BY <2>1 DEF IncludesRead
    <3> QED  BY <2>5, <3>1, <3>2, <3>3 DEF Claims, IsCompleteWrite
  <2>6. CASE y = WriteBeforeRead
    <3>1. Compose(x, y) = y
      BY <1>2, <2>6 DEF Compose
    <3>2. /\ \A i \in Q : cmds[i].ref \in {PartialWrite, Read}
          /\ \A d, i \in Q : cmds[d].ref = PartialWrite /\ cmds[i].ref = Read => d < i
      BY <2>6 DEF Claims
    <3> QED  BY <2>1, <2>6, <3>1, <3>2 DEF Claims, IsCompleteWrite
  <2>7. CASE y = ReadBeforeWrite
    BY <1>2, <2>7 DEF Claims, Compose, IsCompleteWrite
  <2> QED  BY <2>2, <2>3, <2>4, <2>5, <2>6, <2>7 DEF IsCompleteWrite
<1>3. CASE x = Read
  BY <1>3 DEF Claims, Compose, IncludesWrite, IsCompleteWrite
<1>4. CASE x = WriteBeforeRead
  BY <1>4 DEF Claims, Compose, IncludesWrite, IsCompleteWrite
<1>5. CASE IsCompleteWrite(x)
  <2>1. Compose(x, y) = x
    BY <1>5 DEF Compose, IsCompleteWrite
  <2>2. PICK d \in P : IsCompleteWrite(cmds[d].ref) /\ \A i \in P : IncludesRead(cmds[i].ref) => d < i
    BY <1>5 DEF Claims
  <2> QED  BY <1>5, <2>1, <2>2 DEF Claims, IsCompleteWrite
<1>6. CASE x = ReadBeforeWrite
  BY <1>6 DEF Claims, Compose, IsCompleteWrite
<1> QED  BY <1>1, <1>2, <1>3, <1>4, <1>5, <1>6 DEF IsCompleteWrite

\* A single command is summed up by its own reference.
LEMMA ClaimsOne ==
  ASSUME NEW cmds, NEW n, cmds[n].ref # None, cmds[n].ref # ReadBeforeWrite,
         cmds[n].ref # WriteBeforeRead
  PROVE  Claims(cmds[n].ref, cmds, {n})
BY DEF Claims, IncludesRead, IsCompleteWrite, None, PartialWrite, CompleteWrite, Read,
   ReadBeforeWrite, WriteBeforeRead, CompleteWriteAndDiscard

\* What a reference claims depends on the commands it sums up alone, and on their order.
LEMMA ClaimsShifted ==
  ASSUME NEW x, NEW cmds, NEW P \in SUBSET Int, Claims(x, cmds, P), NEW n \in Int,
         NEW longer, NEW Q \in SUBSET Int,
         \A i \in P : n + i \in Q /\ longer[n + i] = cmds[i], \A j \in Q : j - n \in P
  PROVE  Claims(x, longer, Q)
<1>1. \A j \in Q : j - n \in P /\ longer[j] = cmds[j - n]
  <2> SUFFICES ASSUME NEW j \in Q PROVE j - n \in P /\ longer[j] = cmds[j - n]
    OBVIOUS
  <2>1. j - n \in P /\ n + (j - n) = j
    OBVIOUS
  <2> QED  BY <2>1
<1>2. IsCompleteWrite(x) =>
        \E d \in Q : IsCompleteWrite(longer[d].ref) /\ \A i \in Q : IncludesRead(longer[i].ref) => d < i
  <2> SUFFICES ASSUME IsCompleteWrite(x)
               PROVE  \E d \in Q : IsCompleteWrite(longer[d].ref)
                                   /\ \A i \in Q : IncludesRead(longer[i].ref) => d < i
    OBVIOUS
  <2>1. PICK d \in P : IsCompleteWrite(cmds[d].ref) /\ \A i \in P : IncludesRead(cmds[i].ref) => d < i
    BY DEF Claims
  <2>2. ASSUME NEW i \in Q, IncludesRead(longer[i].ref)
        PROVE  n + d < i
    <3>1. d < i - n
      BY <1>1, <2>1, <2>2
    <3> QED  BY <3>1
  <2>3. n + d \in Q /\ longer[n + d] = cmds[d]
    OBVIOUS
  <2> QED  BY <2>1, <2>2, <2>3
<1>3. x = WriteBeforeRead =>
        /\ \A i \in Q : longer[i].ref \in {PartialWrite, Read}
        /\ \A d, i \in Q : longer[d].ref = PartialWrite /\ longer[i].ref = Read => d < i
  <2> SUFFICES ASSUME x = WriteBeforeRead
               PROVE  /\ \A i \in Q : longer[i].ref \in {PartialWrite, Read}
                      /\ \A d, i \in Q : longer[d].ref = PartialWrite /\ longer[i].ref = Read => d < i
    OBVIOUS
  <2>1. /\ \A i \in P : cmds[i].ref \in {PartialWrite, Read}
        /\ \A d, i \in P : cmds[d].ref = PartialWrite /\ cmds[i].ref = Read => d < i
    BY DEF Claims
  <2>2. ASSUME NEW d \in Q, NEW i \in Q, longer[d].ref = PartialWrite, longer[i].ref = Read
        PROVE  d < i
    <3>1. d - n < i - n
      BY <1>1, <2>1, <2>2
    <3> QED  BY <3>1
  <2> QED  BY <1>1, <2>1, <2>2
<1>4. /\ x = None => Q = {}
      /\ x = PartialWrite => \A i \in Q : longer[i].ref = PartialWrite
      /\ x = Read => \A i \in Q : longer[i].ref = Read
  BY <1>1 DEF Claims
<1> QED  BY <1>2, <1>3, <1>4 DEF Claims

LEMMA ClaimsSame ==
  ASSUME NEW x, NEW cmds, NEW P, Claims(x, cmds, P), NEW longer, \A i \in P : longer[i] = cmds[i]
  PROVE  Claims(x, longer, P)
BY DEF Claims

\* What is only read, before or after.
LEMMA ClaimsBound ==
  ASSUME NEW b \in {None, Read, ReadBeforeWrite}, NEW x \in References, NEW cmds, NEW P, NEW Q,
         b = None => Q = {}, b = Read => \A i \in Q : cmds[i].ref = Read, Claims(x, cmds, P)
  PROVE  Claims(Compose(b, x), cmds, Q \cup P)
<1> USE DEF References, None, PartialWrite, CompleteWrite, Read, ReadBeforeWrite, WriteBeforeRead,
            CompleteWriteAndDiscard
<1>1. CASE b = None
  <2>1. Q \cup P = P /\ Compose(b, x) = x
    BY <1>1 DEF Compose
  <2> QED  BY <2>1
<1>2. CASE b = Read /\ x \in {None, Read}
  BY <1>2 DEF Claims, Compose, IncludesWrite, IsCompleteWrite
<1>3. CASE b = Read /\ x \notin {None, Read}
  BY <1>3 DEF Claims, Compose, IncludesWrite, IsCompleteWrite
<1>4. CASE b = ReadBeforeWrite
  BY <1>4 DEF Claims, Compose, IncludesWrite, IsCompleteWrite
<1> QED  BY <1>1, <1>2, <1>3, <1>4

-----------------------------------------------------------------------------
(* The command buffer, and the frame.                                        *)

LEMMA BoundAccess == \A a \in Accesses : a.bound => a.ref \in {Read, ReadBeforeWrite}
BY ManagerAssumption

LEMMA UnboundAccess ==
  \A a \in Accesses : ~a.bound => a.ref \notin {None, ReadBeforeWrite, WriteBeforeRead}
BY ManagerAssumption DEF None, PartialWrite, CompleteWrite, Read, ReadBeforeWrite, WriteBeforeRead,
   CompleteWriteAndDiscard

LEMMA LargestOf ==
  ASSUME NEW S, S \subseteq {None, Read, ReadBeforeWrite}, S # {}
  PROVE  Largest(S) \in S /\ \A x \in S : x <= Largest(S)
<1>1. \E m \in S : \A x \in S : x <= m
  <2>1. CASE ReadBeforeWrite \in S
    BY <2>1 DEF None, Read, ReadBeforeWrite
  <2>2. CASE ReadBeforeWrite \notin S /\ Read \in S
    BY <2>2 DEF None, Read, ReadBeforeWrite
  <2>3. CASE ReadBeforeWrite \notin S /\ Read \notin S
    <3>1. S = {None}
      BY <2>3
    <3> QED  BY <3>1 DEF None
  <2> QED  BY <2>1, <2>2, <2>3
<1> QED  BY <1>1 DEF Largest

\* What descriptor sets refer to, in no known order.
LEMMA BoundRefOf ==
  ASSUME cb.cmds \in Seq(Accesses), NEW r, NEW p
  PROVE  /\ BoundRef(r, p) \in {None, Read, ReadBeforeWrite}
         /\ BoundRef(r, p) = None => \A i \in Positions(cb.cmds, r, p) : ~cb.cmds[i].bound
         /\ BoundRef(r, p) = Read =>
              \A i \in Positions(cb.cmds, r, p) : cb.cmds[i].bound => cb.cmds[i].ref = Read
         /\ BoundRef(r, p) # None => \E i \in 1..Len(cb.cmds) : cb.cmds[i].res = r
         /\ Tracked(r) => BoundRef(r, p) # ReadBeforeWrite
<1> DEFINE B == {b \in Submitted : b.bound /\ b.res = r /\ b.part = p}
           S == {None} \cup {a.ref : a \in B}
<1>1. \A i \in 1..Len(cb.cmds) : cb.cmds[i] \in Accesses
  OBVIOUS
<1>2. \A a \in B : a \in Accesses /\ a.ref \in {Read, ReadBeforeWrite}
  BY <1>1, BoundAccess DEF Submitted
<1>3. BoundRef(r, p) = Largest(S)
  BY DEF BoundRef
<1>4. BoundRef(r, p) \in S /\ \A x \in S : x <= BoundRef(r, p)
  BY <1>2, <1>3, LargestOf
<1>5. \A i \in Positions(cb.cmds, r, p) : cb.cmds[i].bound => cb.cmds[i] \in B /\ cb.cmds[i].ref \in S
  BY DEF Positions, Touches, Submitted
<1>6. BoundRef(r, p) # None =>
        \E i \in 1..Len(cb.cmds) : cb.cmds[i] \in B /\ cb.cmds[i].ref = BoundRef(r, p)
  BY <1>4 DEF Submitted
<1> HIDE DEF B, S
<1>7. BoundRef(r, p) \in {None, Read, ReadBeforeWrite}
  BY <1>2, <1>6
<1>8. BoundRef(r, p) = None => \A i \in Positions(cb.cmds, r, p) : ~cb.cmds[i].bound
  BY <1>2, <1>4, <1>5 DEF None, Read, ReadBeforeWrite
<1>9. BoundRef(r, p) = Read =>
        \A i \in Positions(cb.cmds, r, p) : cb.cmds[i].bound => cb.cmds[i].ref = Read
  BY <1>2, <1>4, <1>5 DEF None, Read, ReadBeforeWrite
<1>10. BoundRef(r, p) # None => \E i \in 1..Len(cb.cmds) : cb.cmds[i].res = r
  BY <1>6 DEF B
<1>11. Tracked(r) => BoundRef(r, p) # ReadBeforeWrite
  <2> SUFFICES ASSUME Tracked(r), BoundRef(r, p) = ReadBeforeWrite PROVE FALSE
    OBVIOUS
  <2>1. PICK i \in 1..Len(cb.cmds) : cb.cmds[i] \in B /\ cb.cmds[i].ref = ReadBeforeWrite
    BY <1>6 DEF None, ReadBeforeWrite
  <2>2. cb.cmds[i].res = r
    BY <2>1 DEF B
  <2> QED  BY <1>1, <2>1, <2>2, AccessesValid DEF Access, Tracked
<1> QED  BY <1>7, <1>8, <1>9, <1>10, <1>11

LEMMA BoundRefsOf ==
  ASSUME cb.cmds \in Seq(Accesses), NEW r \in Resources
  PROVE  /\ BoundRefs(r) \in {None, Read, ReadBeforeWrite}
         /\ BoundRefs(r) = None => \A p \in Parts(r) : BoundRef(r, p) = None
         /\ BoundRefs(r) # None => \E p \in Parts(r) : BoundRef(r, p) # None
         /\ BoundRefs(r) # None => \E i \in 1..Len(cb.cmds) : cb.cmds[i].res = r
         /\ Tracked(r) => BoundRefs(r) # ReadBeforeWrite
<1> DEFINE S == {BoundRef(r, p) : p \in Parts(r)}
<1>1. \A p \in Parts(r) :
        /\ BoundRef(r, p) \in {None, Read, ReadBeforeWrite}
        /\ BoundRef(r, p) # None => \E i \in 1..Len(cb.cmds) : cb.cmds[i].res = r
        /\ Tracked(r) => BoundRef(r, p) # ReadBeforeWrite
  BY BoundRefOf
<1>2. S \subseteq {None, Read, ReadBeforeWrite} /\ S # {}
  BY <1>1, RangesPositive
<1>3. BoundRefs(r) = Largest(S)
  BY DEF BoundRefs
<1>4. BoundRefs(r) \in S /\ \A x \in S : x <= BoundRefs(r)
  BY <1>2, <1>3, LargestOf
<1>5. PICK q \in Parts(r) : BoundRefs(r) = BoundRef(r, q)
  BY <1>4
<1>6. \A p \in Parts(r) : BoundRef(r, p) <= BoundRefs(r)
  BY <1>4
<1> HIDE DEF S
<1>7. BoundRefs(r) = None => \A p \in Parts(r) : BoundRef(r, p) = None
  BY <1>1, <1>6 DEF None, Read, ReadBeforeWrite
<1> QED  BY <1>1, <1>5, <1>7

LEMMA ConcatPositions ==
  ASSUME NEW S, NEW a \in Seq(S), NEW b \in Seq(S), NEW r, NEW p
  PROVE  /\ \A i \in Positions(a, r, p) : i \in Positions(a \o b, r, p) /\ (a \o b)[i] = a[i]
         /\ \A i \in Positions(b, r, p) :
              Len(a) + i \in Positions(a \o b, r, p) /\ (a \o b)[Len(a) + i] = b[i]
         /\ \A i \in Positions(a \o b, r, p) :
              IF i <= Len(a) THEN i \in Positions(a, r, p) ELSE i - Len(a) \in Positions(b, r, p)
<1> DEFINE c == a \o b
<1>1. Len(c) = Len(a) + Len(b) /\ Len(a) \in Nat /\ Len(b) \in Nat
  OBVIOUS
<1>2. \A i \in 1..Len(a) : c[i] = a[i]
  OBVIOUS
<1>3. \A i \in 1..Len(b) : c[Len(a) + i] = b[i]
  OBVIOUS
<1> HIDE DEF c
<1>4. ASSUME NEW i \in Positions(c, r, p)
      PROVE  IF i <= Len(a) THEN i \in Positions(a, r, p) ELSE i - Len(a) \in Positions(b, r, p)
  <2>1. i \in 1..(Len(a) + Len(b)) /\ Touches(c[i], r, p)
    BY <1>1 DEF Positions
  <2>2. CASE i <= Len(a)
    BY <1>1, <1>2, <2>1, <2>2 DEF Positions
  <2>3. CASE ~(i <= Len(a))
    <3>1. i - Len(a) \in 1..Len(b) /\ i = Len(a) + (i - Len(a))
      BY <1>1, <2>1, <2>3
    <3>2. i - Len(a) \in Positions(b, r, p)
      BY <1>3, <2>1, <3>1 DEF Positions
    <3> QED  BY <2>3, <3>2
  <2> QED  BY <2>2, <2>3
<1>5. \A i \in Positions(a, r, p) : i \in Positions(c, r, p) /\ c[i] = a[i]
  BY <1>1, <1>2 DEF Positions
<1>6. \A i \in Positions(b, r, p) : Len(a) + i \in Positions(c, r, p) /\ c[Len(a) + i] = b[i]
  BY <1>1, <1>3 DEF Positions
<1> QED  BY <1>4, <1>5, <1>6 DEF c

\* Merging the references of a command buffer into those of the frame is right.
LEMMA MergedClaims ==
  ASSUME NEW a \in Seq(Accesses), cb.cmds \in Seq(Accesses),
         NEW r, NEW p, memRefs[r][p] \in References, cb.mem[r][p] \in References,
         Claims(memRefs[r][p], a, Positions(a, r, p)),
         Claims(cb.mem[r][p], cb.cmds, Noted(cb.cmds, r, p))
  PROVE  /\ MergedRef(r, p) \in References
         /\ Claims(MergedRef(r, p), a \o cb.cmds, Positions(a \o cb.cmds, r, p))
<1> DEFINE b  == BoundRef(r, p)
           m  == cb.mem[r][p]
           B  == {i \in Positions(cb.cmds, r, p) : cb.cmds[i].bound}
           c  == a \o cb.cmds
           n  == Len(a)
           P  == Positions(a, r, p)
           Q  == Positions(cb.cmds, r, p)
           C  == Positions(c, r, p)
           C1 == {i \in C : i <= n}
           C2 == {i \in C : n < i}
<1>1. /\ b \in {None, Read, ReadBeforeWrite}
      /\ b = None => B = {}
      /\ b = Read => \A i \in B : cb.cmds[i].ref = Read
  BY BoundRefOf
<1>2. b \in References
  BY <1>1 DEF References, None, Read, ReadBeforeWrite, CompleteWriteAndDiscard
<1>3. Claims(Compose(b, m), cb.cmds, B \cup Noted(cb.cmds, r, p))
  <2> HIDE DEF b, m, B
  <2> QED  BY <1>1, ClaimsBound DEF m
<1>4. B \cup Noted(cb.cmds, r, p) = Q
  <2>1. \A i \in Q : cb.cmds[i].bound \in BOOLEAN
    BY AccessesValid DEF Access, Positions
  <2> QED  BY <2>1 DEF Noted
<1>5. MergedRef(r, p) = Compose(memRefs[r][p], Compose(b, m))
  <2>1. MergedRef(r, p) = Compose(Compose(memRefs[r][p], b), m)
    BY DEF MergedRef
  <2> HIDE DEF b, m
  <2> QED  BY <1>2, <2>1, ComposeAssociative DEF m
<1>6. /\ \A i \in P : i \in C /\ c[i] = a[i]
      /\ \A i \in Q : n + i \in C /\ c[n + i] = cb.cmds[i]
      /\ \A i \in C : IF i <= n THEN i \in P ELSE i - n \in Q
  <2> HIDE DEF c, P, Q, C, n
  <2> QED  BY ConcatPositions, Zenon DEF c, P, Q, C, n
<1>7. /\ P \in SUBSET Int /\ Q \in SUBSET Int /\ C \in SUBSET Int /\ n \in Int
      /\ \A i \in P : i <= n
      /\ \A i \in Q : 0 < i
  BY DEF Positions
<1> HIDE DEF b, m, B, c, P, Q, C, n
<1>8. Claims(Compose(b, m), c, C2)
  <2>1. \A i \in Q : n + i \in C2 /\ c[n + i] = cb.cmds[i]
    BY <1>6, <1>7
  <2>2. \A i \in C2 : i - n \in Q
    BY <1>6, <1>7
  <2>3. C2 \in SUBSET Int /\ Claims(Compose(b, m), cb.cmds, Q)
    BY <1>3, <1>4, <1>7
  <2> HIDE DEF C2
  <2> QED  BY <1>7, <2>1, <2>2, <2>3, ClaimsShifted
<1>9. Claims(memRefs[r][p], c, C1)
  <2>1. C1 = P /\ \A i \in P : c[i] = a[i]
    BY <1>6, <1>7
  <2>2. Claims(memRefs[r][p], a, P)
    BY DEF P
  <2> HIDE DEF C1
  <2> QED  BY <2>1, <2>2, ClaimsSame
<1>10. Compose(b, m) \in References /\ MergedRef(r, p) \in References
  BY <1>2, <1>5, ComposeType DEF m
<1>11. C1 \cup C2 = C /\ C1 \in SUBSET Int /\ C2 \in SUBSET Int /\ \A i \in C1, j \in C2 : i < j
  <2>1. \A i \in C : i \in Int /\ (i <= n \/ n < i)
    BY <1>7
  <2>2. C1 \cup C2 = C
    BY <2>1
  <2>3. C1 \in SUBSET Int /\ C2 \in SUBSET Int
    BY <1>7
  <2>4. \A i \in C1, j \in C2 : i < j
    <3>1. ASSUME NEW i \in C1, NEW j \in C2 PROVE i < j
      BY <1>7, <2>1
    <3> QED  BY <3>1
  <2> QED  BY <2>2, <2>3, <2>4
<1> HIDE DEF C1, C2
<1>12. Claims(MergedRef(r, p), c, C1 \cup C2)
  BY <1>5, <1>8, <1>9, <1>10, <1>11, ClaimsCompose
<1> QED  BY <1>10, <1>11, <1>12 DEF c, C

-----------------------------------------------------------------------------
(* What the command buffer notes.                                            *)

LEMMA Appended ==
  ASSUME NEW cmds \in Seq(Accesses), NEW a \in Accesses, NEW longer, longer = Append(cmds, a)
  PROVE  /\ longer \in Seq(Accesses) /\ Len(cmds) \in Nat /\ Len(longer) = Len(cmds) + 1
         /\ longer[Len(cmds) + 1] = a
         /\ \A i \in 1..Len(cmds) : longer[i] = cmds[i]
OBVIOUS

LEMMA NotedAppended ==
  ASSUME NEW cmds \in Seq(Accesses), NEW a \in Accesses, NEW r, NEW p
  PROVE  /\ Touches(a, r, p) /\ ~a.bound =>
              Noted(Append(cmds, a), r, p) = Noted(cmds, r, p) \cup {Len(cmds) + 1}
         /\ ~Touches(a, r, p) \/ a.bound => Noted(Append(cmds, a), r, p) = Noted(cmds, r, p)
<1> DEFINE longer == Append(cmds, a)
<1> DEFINE n == Len(cmds) + 1
<1>1. /\ Len(cmds) \in Nat /\ Len(longer) = n /\ longer[n] = a
      /\ \A i \in 1..Len(cmds) : longer[i] = cmds[i]
  OBVIOUS
<1> HIDE DEF longer
<1>2. ASSUME NEW i
      PROVE  i \in Noted(longer, r, p) <=>
               i \in Noted(cmds, r, p) \/ (i = n /\ Touches(a, r, p) /\ ~a.bound)
  <2>1. i \in 1..Len(longer) <=> i \in 1..Len(cmds) \/ i = n
    BY <1>1
  <2>2. i \in 1..Len(cmds) => i # n
    BY <1>1
  <2> QED  BY <1>1, <2>1, <2>2 DEF Noted, Positions
<1> HIDE DEF n
<1>3. ASSUME Touches(a, r, p), ~a.bound
      PROVE  Noted(longer, r, p) = Noted(cmds, r, p) \cup {n}
  <2>1. \A i : i \in Noted(longer, r, p) <=> i \in Noted(cmds, r, p) \/ i = n
    BY <1>2, <1>3
  <2> QED  BY <2>1
<1>4. ASSUME ~Touches(a, r, p) \/ a.bound
      PROVE  Noted(longer, r, p) = Noted(cmds, r, p)
  <2>1. \A i : i \in Noted(longer, r, p) <=> i \in Noted(cmds, r, p)
    BY <1>2, <1>4
  <2> QED  BY <2>1
<1> QED  BY <1>3, <1>4, Zenon DEF n, longer

\* The reference of a resource of one range is that of the range, but that a discard
\* after a write counts as a write.
LEMMA DisjointUsed ==
  ASSUME NEW x \in References, NEW ref \in References \ {None}, NEW u \in {x, Used(x)}, u # None
  PROVE  /\ Disjoint(u, Compose(x, ref)) \in {Compose(x, ref), Used(Compose(x, ref))}
         /\ Disjoint(u, Compose(x, ref)) \notin {None, CompleteWriteAndDiscard}
BY DEF References, Compose, IncludesWrite, Disjoint, Used, None, PartialWrite, CompleteWrite, Read,
       ReadBeforeWrite, WriteBeforeRead, CompleteWriteAndDiscard

\* Only what one access discards is discarded.
LEMMA NoDiscard ==
  /\ \A x, y \in References \ {CompleteWriteAndDiscard} : Compose(x, y) # CompleteWriteAndDiscard
  /\ \A x, y \in References : Disjoint(x, y) # CompleteWriteAndDiscard
BY DEF References, Compose, IncludesWrite, Disjoint, Used, None, PartialWrite, CompleteWrite, Read,
       ReadBeforeWrite, WriteBeforeRead, CompleteWriteAndDiscard

LEMMA RecordedBound ==
  ASSUME IInv, RecordedInv, NEW a \in Accesses, Record(a), a.bound
  PROVE  RecordedInv'
<1> DEFINE n == Len(cb.cmds) + 1
<1>1. /\ cb.cmds \in Seq(Accesses) /\ a.res \in live
      /\ cb'.cmds = Append(cb.cmds, a) /\ cb'.refs = cb.refs /\ cb'.mem = cb.mem
      /\ live' = live
  BY DEF IInv, BufferInv, Record
<1>2. /\ Len(cb'.cmds) = n /\ n - 1 \in Nat /\ n - 1 = Len(cb.cmds)
      /\ cb'.cmds[n] = a
      /\ \A i \in 1..Len(cb.cmds) : cb'.cmds[i] = cb.cmds[i]
      /\ \A r, p : Noted(cb'.cmds, r, p) = Noted(cb.cmds, r, p)
  <2>1. /\ Len(cb.cmds) \in Nat /\ Len(cb'.cmds) = Len(cb.cmds) + 1
        /\ cb'.cmds[Len(cb.cmds) + 1] = a
        /\ \A i \in 1..Len(cb.cmds) : cb'.cmds[i] = cb.cmds[i]
    BY <1>1, Appended
  <2>2. ASSUME NEW r, NEW p
        PROVE  Noted(cb'.cmds, r, p) = Noted(cb.cmds, r, p)
    <3>1. Noted(Append(cb.cmds, a), r, p) = Noted(cb.cmds, r, p)
      BY <1>1, NotedAppended
    <3> QED  BY <1>1, <3>1
  <2> QED  BY <2>1, <2>2
<1>3. \A i \in 1..n : i \in 1..Len(cb.cmds) \/ i = n
  BY <1>2
<1> HIDE DEF n
<1>4. \A i \in 1..Len(cb'.cmds) : cb'.cmds[i].res \in live
  BY <1>1, <1>2, <1>3 DEF RecordedInv
<1>5. ASSUME NEW r \in Resources, NEW p \in Parts(r)
      PROVE  Claims(cb'.mem[r][p], cb'.cmds, Noted(cb'.cmds, r, p))
  <2>1. Claims(cb.mem[r][p], cb.cmds, Noted(cb.cmds, r, p))
    BY DEF RecordedInv
  <2>2. \A i \in Noted(cb.cmds, r, p) : cb'.cmds[i] = cb.cmds[i]
    BY <1>2 DEF Noted, Positions
  <2>3. Claims(cb.mem[r][p], cb'.cmds, Noted(cb.cmds, r, p))
    BY <2>1, <2>2, ClaimsSame
  <2> QED  BY <1>1, <1>2, <2>3
<1>6. 1..Len(cb.cmds) \subseteq 1..Len(cb'.cmds)
  BY <1>2
<1>7. ASSUME NEW r \in Resources
      PROVE  /\ cb'.refs[r] = None => \A p \in Parts(r) : cb'.mem[r][p] = None
             /\ cb'.refs[r] # None => \E i \in 1..Len(cb'.cmds) : cb'.cmds[i].res = r
             /\ Single(r) => cb'.refs[r] \in {cb'.mem[r][1], Used(cb'.mem[r][1])}
             /\ Ranges[r] # 1 =>
                  /\ cb'.refs[r] # CompleteWriteAndDiscard
                  /\ \A p \in Parts(r) : cb'.mem[r][p] # CompleteWriteAndDiscard
  BY <1>1, <1>2, <1>6 DEF RecordedInv
<1>8. ASSUME NEW r \in Resources, Tracked(r), cb'.refs[r] = CompleteWriteAndDiscard
      PROVE  /\ \A i \in 1..Len(cb'.cmds) :
                  cb'.cmds[i].res = r => cb'.cmds[i].ref \in {Read, CompleteWriteAndDiscard}
             /\ \E i \in 1..Len(cb'.cmds) :
                  cb'.cmds[i].res = r /\ cb'.cmds[i].ref = CompleteWriteAndDiscard
  <2>1. /\ \A i \in 1..Len(cb.cmds) :
             cb.cmds[i].res = r => cb.cmds[i].ref \in {Read, CompleteWriteAndDiscard}
        /\ \E i \in 1..Len(cb.cmds) :
             cb.cmds[i].res = r /\ cb.cmds[i].ref = CompleteWriteAndDiscard
    BY <1>1, <1>8 DEF RecordedInv
  <2>2. a.res = r => a.ref = Read
    BY <1>8, AccessesValid DEF Access, Tracked
  <2>3. \A i \in 1..Len(cb'.cmds) :
          cb'.cmds[i].res = r => cb'.cmds[i].ref \in {Read, CompleteWriteAndDiscard}
    BY <1>2, <1>3, <2>1, <2>2
  <2>4. \E i \in 1..Len(cb'.cmds) : cb'.cmds[i].res = r /\ cb'.cmds[i].ref = CompleteWriteAndDiscard
    <3>1. PICK i \in 1..Len(cb.cmds) : cb.cmds[i].res = r /\ cb.cmds[i].ref = CompleteWriteAndDiscard
      BY <2>1
    <3>2. i \in 1..Len(cb'.cmds) /\ cb'.cmds[i] = cb.cmds[i]
      BY <1>2, <1>6
    <3> QED  BY <3>1, <3>2
  <2> QED  BY <2>3, <2>4
<1> QED  BY <1>1, <1>4, <1>5, <1>7, <1>8 DEF RecordedInv, Single, Tracked

LEMMA RecordedUnbound ==
  ASSUME IInv, RecordedInv, NEW a \in Accesses, Record(a), ~a.bound
  PROVE  RecordedInv'
<1> DEFINE n    == Len(cb.cmds) + 1
           s    == a.res
           mem  == Compose(cb.mem[s][a.part], a.ref)
           refs == IF cb.refs[s] = None THEN mem ELSE Disjoint(cb.refs[s], mem)
<1>1. /\ cb.cmds \in Seq(Accesses) /\ s \in live /\ live' = live
      /\ s \in Resources /\ a.part \in Parts(s) /\ a.ref \in References \ {None}
      /\ cb' = [cmds |-> Append(cb.cmds, a), refs |-> [cb.refs EXCEPT ![s] = refs],
                mem |-> [cb.mem EXCEPT ![s][a.part] = mem]]
  BY AccessesValid DEF IInv, BufferInv, Record, Access
<1>2. /\ cb'.cmds = Append(cb.cmds, a)
      /\ cb'.refs = [cb.refs EXCEPT ![s] = refs]
      /\ cb'.mem = [cb.mem EXCEPT ![s][a.part] = mem]
  BY <1>1
<1>3. /\ \A r \in Resources : cb.refs[r] \in References
      /\ \A r \in Resources : \A p \in Parts(r) : cb.mem[r][p] \in References
      /\ cb'.refs[s] = refs
      /\ \A r \in Resources : r # s => cb'.refs[r] = cb.refs[r]
  BY <1>1, <1>2 DEF IInv, BufferInv
<1>4. /\ cb'.mem[s][a.part] = mem
      /\ \A r \in Resources : \A p \in Parts(r) :
           ~Touches(a, r, p) => cb'.mem[r][p] = cb.mem[r][p]
  <2>1. cb'.mem[s] = [cb.mem[s] EXCEPT ![a.part] = mem]
        /\ \A r \in Resources : r # s => cb'.mem[r] = cb.mem[r]
    BY <1>1, <1>2 DEF IInv, BufferInv
  <2>2. cb.mem[s] = [p \in Parts(s) |-> cb.mem[s][p]]
    BY <1>1 DEF IInv, BufferInv
  <2> HIDE DEF mem
  <2> QED  BY <1>1, <2>1, <2>2 DEF Touches
<1>5. /\ Len(cb'.cmds) = n /\ n - 1 \in Nat /\ n - 1 = Len(cb.cmds)
      /\ cb'.cmds[n] = a
      /\ \A i \in 1..Len(cb.cmds) : cb'.cmds[i] = cb.cmds[i]
      /\ \A r, p : IF Touches(a, r, p) THEN Noted(cb'.cmds, r, p) = Noted(cb.cmds, r, p) \cup {n}
                   ELSE Noted(cb'.cmds, r, p) = Noted(cb.cmds, r, p)
  <2>1. /\ Len(cb.cmds) \in Nat /\ Len(cb'.cmds) = Len(cb.cmds) + 1
        /\ cb'.cmds[Len(cb.cmds) + 1] = a
        /\ \A i \in 1..Len(cb.cmds) : cb'.cmds[i] = cb.cmds[i]
    BY <1>1, <1>2, Appended
  <2>2. ASSUME NEW r, NEW p
        PROVE  IF Touches(a, r, p) THEN Noted(cb'.cmds, r, p) = Noted(cb.cmds, r, p) \cup {n}
               ELSE Noted(cb'.cmds, r, p) = Noted(cb.cmds, r, p)
    <3>1. /\ Touches(a, r, p) => Noted(Append(cb.cmds, a), r, p) = Noted(cb.cmds, r, p) \cup {n}
          /\ ~Touches(a, r, p) => Noted(Append(cb.cmds, a), r, p) = Noted(cb.cmds, r, p)
      BY <1>1, NotedAppended
    <3>2. cb'.cmds = Append(cb.cmds, a)
      BY <1>2
    <3> QED  BY <3>1, <3>2
  <2> HIDE DEF n
  <2> QED  BY <2>1, <2>2 DEF n
<1>6. /\ \A i \in 1..n : i \in 1..Len(cb.cmds) \/ i = n
      /\ 1..Len(cb.cmds) \subseteq 1..Len(cb'.cmds) /\ n \in 1..Len(cb'.cmds)
      /\ \A r, p : \A i \in Noted(cb.cmds, r, p) : i \in 1..Len(cb.cmds) /\ i < n
  BY <1>5 DEF Noted, Positions
<1>7. mem \in References \ {None} /\ refs # None
  <2>1. mem \in References /\ mem # None
    BY <1>1, <1>3, ComposeType, ComposeNone
  <2>2. cb.refs[s] # None => Disjoint(cb.refs[s], mem) # None
    BY <1>1, <1>3, <2>1, DisjointDirty
  <2> HIDE DEF mem
  <2> QED  BY <2>1, <2>2
<1> HIDE DEF n, mem, refs
<1>8. \A i \in 1..Len(cb'.cmds) : cb'.cmds[i].res \in live
  BY <1>1, <1>5, <1>6 DEF RecordedInv
<1>9. ASSUME NEW r \in Resources, NEW p \in Parts(r)
      PROVE  Claims(cb'.mem[r][p], cb'.cmds, Noted(cb'.cmds, r, p))
  <2>1. Claims(cb.mem[r][p], cb.cmds, Noted(cb.cmds, r, p))
    BY DEF RecordedInv
  <2>2. \A i \in Noted(cb.cmds, r, p) : cb'.cmds[i] = cb.cmds[i]
    BY <1>5, <1>6
  <2>3. Claims(cb.mem[r][p], cb'.cmds, Noted(cb.cmds, r, p))
    BY <2>1, <2>2, ClaimsSame
  <2>4. CASE Touches(a, r, p)
    <3>1. r = s /\ p = a.part
      BY <2>4 DEF Touches
    <3>2. Noted(cb'.cmds, r, p) = Noted(cb.cmds, r, p) \cup {n}
      BY <1>5, <2>4
    <3>3. Claims(a.ref, cb'.cmds, {n})
      <4>1. cb'.cmds[n].ref \notin {None, ReadBeforeWrite, WriteBeforeRead} /\ cb'.cmds[n].ref = a.ref
        BY <1>5, UnboundAccess
      <4> QED  BY <4>1, ClaimsOne
    <3>4. n \in Int /\ Noted(cb.cmds, r, p) \in SUBSET Int
      BY <1>5, <1>6
    <3>5. \A i \in Noted(cb.cmds, r, p), j \in {n} : i < j
      BY <1>6
    <3>6. Claims(Compose(cb.mem[r][p], a.ref), cb'.cmds, Noted(cb.cmds, r, p) \cup {n})
      <4>1. cb.mem[r][p] \in References /\ a.ref \in References /\ {n} \in SUBSET Int
        BY <1>1, <1>3, <3>4
      <4> QED  BY <2>3, <3>3, <3>4, <3>5, <4>1, ClaimsCompose
    <3> QED  BY <1>4, <3>1, <3>2, <3>6 DEF mem
  <2>5. CASE ~Touches(a, r, p)
    <3>1. Noted(cb'.cmds, r, p) = Noted(cb.cmds, r, p) /\ cb'.mem[r][p] = cb.mem[r][p]
      BY <1>4, <1>5, <2>5, Zenon
    <3> QED  BY <2>3, <3>1
  <2> QED  BY <2>4, <2>5
<1>10. ASSUME NEW r \in Resources, r # s
       PROVE  \A p \in Parts(r) : cb'.mem[r][p] = cb.mem[r][p]
  BY <1>4, <1>10 DEF Touches
<1>11. ASSUME NEW r \in Resources
       PROVE  /\ cb'.refs[r] = None => \A p \in Parts(r) : cb'.mem[r][p] = None
              /\ cb'.refs[r] # None => \E i \in 1..Len(cb'.cmds) : cb'.cmds[i].res = r
  <2>1. CASE r = s
    BY <1>3, <1>5, <1>6, <1>7, <2>1
  <2>2. CASE r # s
    <3>1. /\ cb.refs[r] = None => \A p \in Parts(r) : cb.mem[r][p] = None
          /\ cb.refs[r] # None => \E i \in 1..Len(cb.cmds) : cb.cmds[i].res = r
      BY DEF RecordedInv
    <3>2. cb'.refs[r] = cb.refs[r] /\ \A p \in Parts(r) : cb'.mem[r][p] = cb.mem[r][p]
      BY <1>3, <1>10, <2>2
    <3>3. \A i \in 1..Len(cb.cmds) : i \in 1..Len(cb'.cmds) /\ cb'.cmds[i] = cb.cmds[i]
      BY <1>5, <1>6
    <3> QED  BY <3>1, <3>2, <3>3
  <2> QED  BY <2>1, <2>2
<1>12. ASSUME NEW r \in Resources, Ranges[r] # 1
       PROVE  /\ cb'.refs[r] # CompleteWriteAndDiscard
              /\ \A p \in Parts(r) : cb'.mem[r][p] # CompleteWriteAndDiscard
  <2>1. /\ cb.refs[r] # CompleteWriteAndDiscard
        /\ \A p \in Parts(r) : cb.mem[r][p] # CompleteWriteAndDiscard
    BY <1>12 DEF RecordedInv
  <2>2. CASE r = s
    <3>1. a.ref # CompleteWriteAndDiscard
      BY <1>12, <2>2, AccessesValid DEF Access
    <3>2. mem # CompleteWriteAndDiscard
      BY <1>1, <1>3, <2>1, <2>2, <3>1, NoDiscard DEF mem
    <3>3. refs # CompleteWriteAndDiscard
      BY <1>1, <1>3, <1>7, <3>2, NoDiscard DEF refs
    <3>4. ASSUME NEW p \in Parts(r) PROVE cb'.mem[r][p] # CompleteWriteAndDiscard
      <4>1. CASE p = a.part
        BY <1>4, <2>2, <3>2, <4>1
      <4>2. CASE p # a.part
        BY <1>4, <2>1, <4>2 DEF Touches
      <4> QED  BY <4>1, <4>2
    <3> QED  BY <1>3, <2>2, <3>3, <3>4
  <2>3. CASE r # s
    BY <1>3, <1>10, <2>1, <2>3
  <2> QED  BY <2>2, <2>3
<1>13. ASSUME Single(s)
       PROVE  /\ a.part = 1
              /\ refs \in {mem, Used(mem)}
              /\ refs = CompleteWriteAndDiscard => cb.refs[s] = None /\ a.ref = CompleteWriteAndDiscard
  <2>1. a.part = 1
    BY <1>1, <1>13 DEF Single, Parts
  <2>2. /\ cb.refs[s] \in {cb.mem[s][1], Used(cb.mem[s][1])}
        /\ cb.refs[s] = None => cb.mem[s][1] = None
    BY <1>1, <1>13, RangesPositive DEF RecordedInv
  <2>3. mem = Compose(cb.mem[s][1], a.ref) /\ cb.mem[s][1] \in References
    BY <1>1, <1>3, <2>1 DEF mem
  <2>4. CASE cb.refs[s] = None
    <3>1. mem = a.ref
      <4>1. mem = Compose(None, a.ref)
        BY <2>2, <2>3, <2>4
      <4> QED  BY <1>1, <4>1 DEF Compose, None, PartialWrite, Read, WriteBeforeRead
    <3>2. refs = mem
      BY <2>4 DEF refs
    <3> QED  BY <2>1, <2>4, <3>1, <3>2
  <2>5. CASE cb.refs[s] # None
    <3>1. refs = Disjoint(cb.refs[s], mem)
      BY <2>5 DEF refs
    <3> QED  BY <1>1, <2>1, <2>2, <2>3, <2>5, <3>1, DisjointUsed
  <2> QED  BY <2>4, <2>5
<1>14. ASSUME NEW r \in Resources, Single(r)
       PROVE  cb'.refs[r] \in {cb'.mem[r][1], Used(cb'.mem[r][1])}
  <2>1. CASE r = s
    BY <1>3, <1>4, <1>13, <1>14, <2>1
  <2>2. CASE r # s
    <3>1. cb.refs[r] \in {cb.mem[r][1], Used(cb.mem[r][1])}
      BY <1>14 DEF RecordedInv
    <3> QED  BY <1>3, <1>10, <2>2, <3>1, RangesPositive
  <2> QED  BY <2>1, <2>2
<1>15. ASSUME NEW r \in Resources, Tracked(r), cb'.refs[r] = CompleteWriteAndDiscard
       PROVE  /\ \A i \in 1..Len(cb'.cmds) :
                   cb'.cmds[i].res = r => cb'.cmds[i].ref \in {Read, CompleteWriteAndDiscard}
              /\ \E i \in 1..Len(cb'.cmds) :
                   cb'.cmds[i].res = r /\ cb'.cmds[i].ref = CompleteWriteAndDiscard
  <2>1. CASE r = s
    <3>0. Single(s)
      BY <1>12, <1>15, <2>1 DEF Single
    <3>1. cb.refs[s] = None /\ a.ref = CompleteWriteAndDiscard
      BY <1>3, <1>13, <1>15, <2>1, <3>0
    <3>2. Noted(cb.cmds, s, 1) = {}
      <4>1. cb.mem[s][1] = None /\ Claims(cb.mem[s][1], cb.cmds, Noted(cb.cmds, s, 1))
        BY <1>1, <3>1, RangesPositive DEF RecordedInv
      <4> QED  BY <4>1 DEF Claims
    <3>3. ASSUME NEW i \in 1..Len(cb.cmds), cb.cmds[i].res = s
          PROVE  cb.cmds[i].ref = Read
      <4>1. Access(cb.cmds[i]) /\ cb.cmds[i].part = 1
        BY <1>1, <3>0, <3>3, AccessesValid DEF Single, Parts, Access
      <4>2. cb.cmds[i].bound
        BY <3>2, <3>3, <4>1 DEF Noted, Positions, Touches
      <4> QED  BY <1>15, <2>1, <3>3, <4>1, <4>2 DEF Access, Tracked
    <3> QED  BY <1>5, <1>6, <2>1, <3>1, <3>3
  <2>2. CASE r # s
    <3>1. /\ \A i \in 1..Len(cb.cmds) :
               cb.cmds[i].res = r => cb.cmds[i].ref \in {Read, CompleteWriteAndDiscard}
          /\ \E i \in 1..Len(cb.cmds) :
               cb.cmds[i].res = r /\ cb.cmds[i].ref = CompleteWriteAndDiscard
      BY <1>3, <1>15, <2>2 DEF RecordedInv
    <3> QED  BY <1>5, <1>6, <2>2, <3>1
  <2> QED  BY <2>1, <2>2
<1> QED  BY <1>1, <1>8, <1>9, <1>11, <1>12, <1>14, <1>15 DEF RecordedInv, Single, Tracked

LEMMA RecordedEmptied ==
  ASSUME cb' = EmptyBuffer, live' \subseteq Resources
  PROVE  RecordedInv'
<1>1. Len(cb'.cmds) = 0 /\ cb'.cmds = <<>>
  BY EmptyBufferInv
<1>2. \A r, p : Noted(cb'.cmds, r, p) = {}
  BY <1>1 DEF Noted, Positions
<1>3. \A r, p : Claims(None, cb'.cmds, Noted(cb'.cmds, r, p))
  BY <1>2 DEF Claims, IsCompleteWrite, None, PartialWrite, CompleteWrite, Read, WriteBeforeRead,
     CompleteWriteAndDiscard
<1>4. \A r \in Resources :
        cb'.refs[r] = None /\ \A p \in Parts(r) : cb'.mem[r][p] = None
  BY EmptyBufferInv
<1>5. None # CompleteWriteAndDiscard
  BY DEF None, CompleteWriteAndDiscard
<1> QED  BY <1>1, <1>3, <1>4, <1>5, RangesPositive DEF RecordedInv

LEMMA RecordedReleased ==
  ASSUME RecordedInv, NEW r \in Resources, ReleaseResource(r)
  PROVE  RecordedInv'
<1>1. live' = live \ {r} /\ cb' = cb /\ \A i \in 1..Len(cb.cmds) : cb.cmds[i].res # r
  BY DEF ReleaseResource, Submitted
<1> QED  BY <1>1 DEF RecordedInv, Single, Tracked

LEMMA RecordedStep ==
  ASSUME IInv, RecordedInv, [Next]_vars
  PROVE  RecordedInv'
<1>1. ASSUME NEW a \in Accesses, Record(a)
      PROVE  RecordedInv'
  <2>1. a.bound \in BOOLEAN
    BY AccessesValid DEF Access
  <2> QED  BY <1>1, <2>1, RecordedBound, RecordedUnbound
<1>2. CASE Submit
  BY <1>2, RecordedEmptied DEF Submit, RecordedInv
<1>3. ASSUME NEW r \in Resources, ReleaseResource(r)
      PROVE  RecordedInv'
  BY <1>3, RecordedReleased
<1>4. ASSUME NEW policy \in Policies, Load(policy)
      PROVE  RecordedInv'
  BY <1>4, RecordedEmptied DEF Load
<1>5. ASSUME UNCHANGED <<cb, live>>
      PROVE  RecordedInv'
  BY <1>5 DEF RecordedInv, Single, Tracked
<1>6. CASE Execute
  BY <1>5, <1>6 DEF Execute
<1>7. ASSUME NEW r \in Resources, TimePasses(r)
      PROVE  RecordedInv'
  BY <1>5, <1>7 DEF TimePasses
<1>8. CASE CleanBackgroundFrameReferences
  BY <1>5, <1>8 DEF CleanBackgroundFrameReferences
<1>9. CASE StartFrameCapture
  BY <1>5, <1>9 DEF StartFrameCapture
<1>10. CASE EndFrameCapture
  BY <1>5, <1>10 DEF EndFrameCapture
<1>11. CASE DiscardFrameCapture
  BY <1>5, <1>11 DEF DiscardFrameCapture
<1>12. CASE ApplyInitialContents
  BY <1>5, <1>12 DEF ApplyInitialContents
<1>13. CASE ReplayCommand
  BY <1>5, <1>13 DEF ReplayCommand
<1>14. CASE UNCHANGED vars
  BY <1>5, <1>14 DEF vars
<1> QED  BY <1>1, <1>2, <1>3, <1>4, <1>6, <1>7, <1>8, <1>9, <1>10, <1>11, <1>12, <1>13, <1>14
         DEF Next

-----------------------------------------------------------------------------
(* What the manager's references claim.                                      *)

Log(s) == s \in Seq({s[i] : i \in 1..Len(s)}) /\ \A i \in 1..Len(s) : s[i].cmd \in Accesses

LEMMA CommandsOf ==
  ASSUME NEW s, Log(s)
  PROVE  /\ Len(s) \in Nat /\ Len(Commands(s)) = Len(s)
         /\ Commands(s) \in Seq(Accesses)
         /\ \A i \in 1..Len(s) : Commands(s)[i] = s[i].cmd
<1>1. Len(s) \in Nat
  BY DEF Log
<1>2. Commands(s) \in [1..Len(s) -> Accesses]
  BY DEF Log, Commands
<1> QED  BY <1>1, <1>2 DEF Commands

LEMMA LogAppended ==
  ASSUME NEW s, Log(s), NEW e, e.cmd \in Accesses
  PROVE  /\ Log(Append(s, e)) /\ Len(Append(s, e)) = Len(s) + 1 /\ Len(s) \in Nat
         /\ Append(s, e)[Len(s) + 1] = e
         /\ \A i \in 1..Len(s) : Append(s, e)[i] = s[i]
<1> DEFINE S == {s[i] : i \in 1..Len(s)}
           t == Append(s, e)
           T == {t[i] : i \in 1..Len(t)}
<1>1. s \in Seq(S) /\ Len(s) \in Nat
  BY DEF Log
<1>2. s \in Seq(S \cup {e}) /\ e \in S \cup {e}
  BY <1>1
<1>3. /\ t \in Seq(S \cup {e}) /\ Len(t) = Len(s) + 1
      /\ t[Len(s) + 1] = e
      /\ \A i \in 1..Len(s) : t[i] = s[i]
  <2> HIDE DEF S
  <2> QED  BY <1>2
<1>4. t \in Seq(T)
  <2> HIDE DEF t, S
  <2>1. t \in [1..Len(t) -> S \cup {e}] /\ Len(t) \in Nat
    BY <1>1, <1>3, LenProperties
  <2>2. t \in [1..Len(t) -> T]
    BY <2>1
  <2> QED  BY <2>1, <2>2, SeqDef
<1>5. \A i \in 1..Len(t) : t[i].cmd \in Accesses
  <2>1. \A i \in 1..Len(t) : i \in 1..Len(s) \/ i = Len(s) + 1
    BY <1>1, <1>3
  <2> QED  BY <1>3, <2>1 DEF Log
<1> QED  BY <1>1, <1>3, <1>4, <1>5 DEF Log

\* A command that is executed stays where it was in the frame.
LEMMA FrameExecuted ==
  ASSUME NEW s, Log(s), NEW q \in Seq(Accesses), q # <<>>, NEW e, e.cmd = Head(q)
  PROVE  Commands(Append(s, e)) \o Tail(q) = Commands(s) \o q
<1> DEFINE t == Append(s, e)
           n == Len(s)
           m == Len(q)
           f == Commands(s) \o q
           g == Commands(t) \o Tail(q)
<1>1. /\ m \in Nat \ {0} /\ Head(q) = q[1] /\ q[1] \in Accesses
      /\ Tail(q) \in Seq(Accesses) /\ Len(Tail(q)) = m - 1
      /\ \A i \in 1..(m - 1) : Tail(q)[i] = q[i + 1]
  OBVIOUS
<1>2. Log(t) /\ Len(t) = n + 1 /\ n \in Nat /\ t[n + 1] = e /\ \A i \in 1..n : t[i] = s[i]
  BY <1>1, LogAppended
<1>3. /\ Commands(s) \in Seq(Accesses) /\ Len(Commands(s)) = n
      /\ \A i \in 1..n : Commands(s)[i] = s[i].cmd
  BY CommandsOf
<1>4. /\ Commands(t) \in Seq(Accesses) /\ Len(Commands(t)) = n + 1
      /\ \A i \in 1..(n + 1) : Commands(t)[i] = t[i].cmd
  <2> HIDE DEF t
  <2> QED  BY <1>2, CommandsOf
<1>5. /\ f \in Seq(Accesses) /\ Len(f) = n + m
      /\ \A i \in 1..(n + m) : f[i] = IF i <= n THEN Commands(s)[i] ELSE q[i - n]
  <2> HIDE DEF n, m
  <2> QED  BY <1>3, ConcatProperties DEF m
<1>6. /\ g \in Seq(Accesses) /\ Len(g) = n + m
      /\ \A i \in 1..(n + m) : g[i] = IF i <= n + 1 THEN Commands(t)[i] ELSE Tail(q)[i - (n + 1)]
  <2> HIDE DEF t, n, m
  <2>1. (n + 1) + (m - 1) = n + m
    BY <1>1, <1>2
  <2>2. /\ g \in Seq(Accesses) /\ Len(g) = (n + 1) + (m - 1)
        /\ \A i \in 1..((n + 1) + (m - 1)) :
             g[i] = IF i <= n + 1 THEN Commands(t)[i] ELSE Tail(q)[i - (n + 1)]
    <3> DEFINE x == Commands(t)
               y == Tail(q)
    <3>1. /\ x \in Seq(Accesses) /\ Len(x) = n + 1
          /\ y \in Seq(Accesses) /\ Len(y) = m - 1
      BY <1>1, <1>4
    <3> HIDE DEF x, y
    <3>2. /\ x \o y \in Seq(Accesses) /\ Len(x \o y) = Len(x) + Len(y)
          /\ \A i \in 1..(Len(x) + Len(y)) : (x \o y)[i] = IF i <= Len(x) THEN x[i] ELSE y[i - Len(x)]
      BY <3>1, ConcatProperties
    <3> QED  BY <3>1, <3>2 DEF x, y
  <2> QED  BY <2>1, <2>2
<1> HIDE DEF t, n, m, f, g
<1>7. ASSUME NEW i \in 1..(n + m)
      PROVE  f[i] = g[i]
  <2>1. CASE i <= n
    <3>1. i \in 1..n /\ i \in 1..(n + 1) /\ i <= n + 1
      BY <1>2, <2>1
    <3>2. f[i] = s[i].cmd
      BY <1>3, <1>5, <2>1, <3>1
    <3>3. g[i] = t[i].cmd
      BY <1>4, <1>6, <3>1
    <3> QED  BY <1>2, <3>1, <3>2, <3>3
  <2>2. CASE i = n + 1
    <3>1. i \in 1..(n + 1) /\ ~(i <= n) /\ i - n = 1 /\ i <= n + 1
      BY <1>2, <2>2
    <3> QED  BY <1>1, <1>2, <1>4, <1>5, <1>6, <2>2, <3>1
  <2>3. CASE i > n + 1
    <3>1. i - (n + 1) \in 1..(m - 1) /\ ~(i <= n) /\ ~(i <= n + 1) /\ (i - (n + 1)) + 1 = i - n
      BY <1>1, <1>2, <2>3
    <3> QED  BY <1>1, <1>5, <1>6, <3>1
  <2> QED  BY <1>1, <1>2, <2>1, <2>2, <2>3
<1>8. f = g
  BY <1>5, <1>6, <1>7, SeqEqual
<1> QED  BY <1>8 DEF f, g, t

LEMMA FrameSubmitted ==
  ASSUME NEW s, Log(s)
  PROVE  Commands(s) \o <<>> = Commands(s)
BY CommandsOf

LEMMA MergedSubmitted ==
  ASSUME IInv, RecordedInv, MergedInv, Submit, mode = "capturing", Log(script)
  PROVE  MergedInv'
<1>1. /\ queue = <<>> /\ queue' = cb.cmds /\ script' = script
      /\ memRefs' = PerRange(MergedRef)
  BY DEF Submit, Busy
<1>2. cb.cmds \in Seq(Accesses) /\ Commands(script) \in Seq(Accesses)
  BY CommandsOf DEF IInv, BufferInv
<1>3. Frame = Commands(script) /\ Frame' = Commands(script) \o cb.cmds
  BY <1>1, FrameSubmitted DEF Frame, Commands
<1>4. ASSUME NEW r \in Resources, NEW p \in Parts(r)
      PROVE  /\ memRefs'[r][p] \in References
             /\ Claims(memRefs'[r][p], Frame', Positions(Frame', r, p))
  <2>1. memRefs[r][p] \in References /\ Claims(memRefs[r][p], Commands(script), Positions(Commands(script), r, p))
    BY <1>3 DEF MergedInv
  <2>2. cb.mem[r][p] \in References /\ Claims(cb.mem[r][p], cb.cmds, Noted(cb.cmds, r, p))
    BY DEF IInv, BufferInv, RecordedInv
  <2>3. /\ MergedRef(r, p) \in References
        /\ Claims(MergedRef(r, p), Commands(script) \o cb.cmds, Positions(Commands(script) \o cb.cmds, r, p))
    BY <1>2, <2>1, <2>2, MergedClaims
  <2>4. memRefs'[r][p] = MergedRef(r, p)
    BY <1>1 DEF PerRange
  <2> QED  BY <1>3, <2>3, <2>4
<1> QED  BY <1>4 DEF MergedInv, Claims

LEMMA MergedExecuted ==
  ASSUME IInv, MergedInv, Execute, mode = "capturing", Log(script)
  PROVE  MergedInv'
<1> DEFINE e == [cmd |-> Head(queue), saw |-> gpu[Head(queue).res][Head(queue).part]]
<1>1. /\ queue \in Seq(Accesses) /\ queue # <<>> /\ queue' = Tail(queue)
      /\ memRefs' = memRefs /\ script' = Append(script, e)
  BY DEF IInv, PutOffInv, Execute
<1>2. e.cmd = Head(queue)
  OBVIOUS
<1> HIDE DEF e
<1>3. Commands(Append(script, e)) \o Tail(queue) = Commands(script) \o queue
  BY <1>1, <1>2, FrameExecuted
<1>4. Frame' = Frame
  BY <1>1, <1>3 DEF Frame, Commands
<1>5. mode' = mode
  BY DEF Execute
<1> QED  BY <1>1, <1>4, <1>5 DEF MergedInv, Positions, Claims

LEMMA MergedStarted ==
  ASSUME StartFrameCapture
  PROVE  MergedInv'
<1>1. queue' = <<>> /\ script' = <<>> /\ memRefs' = Everywhere(None)
  BY DEF StartFrameCapture, Busy
<1>2. Frame' = <<>>
  BY <1>1 DEF Frame, Commands
<1>3. \A r \in Resources : \A p \in Parts(r) : memRefs'[r][p] = None
  BY <1>1 DEF Everywhere, PerRange
<1>4. \A r, p : Claims(None, <<>>, Positions(<<>>, r, p))
  BY DEF Claims, Positions, IsCompleteWrite, None, PartialWrite, CompleteWrite, Read, WriteBeforeRead,
     CompleteWriteAndDiscard
<1>5. None \in References
  BY DEF References, None, CompleteWriteAndDiscard
<1> QED  BY <1>2, <1>3, <1>4, <1>5 DEF MergedInv

LEMMA MergedStep ==
  ASSUME IInv, RecordedInv, MergedInv, mode = "capturing" => Log(script), [Next]_vars
  PROVE  MergedInv'
<1>1. CASE Submit
  <2>1. CASE mode = "capturing"
    BY <1>1, <2>1, MergedSubmitted
  <2>2. CASE mode # "capturing"
    BY <1>1, <2>2 DEF Submit, MergedInv
  <2> QED  BY <2>1, <2>2
<1>2. CASE Execute
  <2>1. CASE mode = "capturing"
    BY <1>2, <2>1, MergedExecuted
  <2>2. CASE mode # "capturing"
    BY <1>2, <2>2 DEF Execute, MergedInv
  <2> QED  BY <2>1, <2>2
<1>3. CASE StartFrameCapture
  BY <1>3, MergedStarted
<1>4. ASSUME mode' # "capturing"
      PROVE  MergedInv'
  BY <1>4 DEF MergedInv
<1>5. CASE EndFrameCapture
  BY <1>4, <1>5 DEF EndFrameCapture
<1>6. CASE DiscardFrameCapture
  BY <1>4, <1>6 DEF DiscardFrameCapture
<1>7. ASSUME NEW policy \in Policies, Load(policy)
      PROVE  MergedInv'
  BY <1>4, <1>7 DEF Load
<1>8. ASSUME UNCHANGED <<mode, memRefs, script, queue>>
      PROVE  MergedInv'
  <2>1. Frame' = Frame
    BY <1>8 DEF Frame, Commands
  <2> QED  BY <1>8, <2>1 DEF MergedInv, Positions, Claims
<1>9. ASSUME NEW a \in Accesses, Record(a)
      PROVE  MergedInv'
  BY <1>8, <1>9 DEF Record
<1>10. ASSUME NEW r \in Resources, TimePasses(r)
       PROVE  MergedInv'
  BY <1>8, <1>10 DEF TimePasses
<1>11. ASSUME NEW r \in Resources, ReleaseResource(r)
       PROVE  MergedInv'
  BY <1>8, <1>11 DEF ReleaseResource
<1>12. CASE CleanBackgroundFrameReferences
  BY <1>8, <1>12 DEF CleanBackgroundFrameReferences
<1>13. CASE ApplyInitialContents
  BY <1>8, <1>13 DEF ApplyInitialContents
<1>14. CASE ReplayCommand
  BY <1>8, <1>14 DEF ReplayCommand
<1>15. CASE UNCHANGED vars
  BY <1>8, <1>15 DEF vars
<1> QED  BY <1>1, <1>2, <1>3, <1>5, <1>6, <1>7, <1>9, <1>10, <1>11, <1>12, <1>13, <1>14, <1>15
         DEF Next

-----------------------------------------------------------------------------
(* What the captured commands saw.                                           *)

LEMMA SeesAppended ==
  ASSUME NEW s, Log(s), NEW e, e.cmd \in Accesses, NEW r, NEW p, NEW c, NEW k \in Nat \ {0},
         SeesNext(s, r, p, k, c),
         Touches(e.cmd, r, p) /\ k <= Len(s) + 1 /\ (\A i \in k..Len(s) : ~Touches(s[i].cmd, r, p)) =>
           e.saw = c
  PROVE  SeesNext(Append(s, e), r, p, k, c)
<1> DEFINE t == Append(s, e)
           n == Len(s) + 1
<1>1. /\ Len(t) = n /\ n - 1 \in Nat /\ n - 1 = Len(s) /\ t[n] = e
      /\ \A i \in 1..Len(s) : t[i] = s[i]
  BY LogAppended
<1> HIDE DEF t, n
<1>2. ASSUME NEW m \in k..Len(t), Touches(t[m].cmd, r, p), \A i \in k..m - 1 : ~Touches(t[i].cmd, r, p)
      PROVE  t[m].saw = c
  <2>1. CASE m = n
    <3>1. k <= Len(s) + 1 /\ \A i \in k..Len(s) : i \in k..m - 1 /\ t[i] = s[i]
      BY <1>1, <2>1
    <3>2. \A i \in k..Len(s) : ~Touches(s[i].cmd, r, p)
      BY <1>2, <3>1
    <3> QED  BY <1>1, <1>2, <2>1, <3>1, <3>2
  <2>2. CASE m # n
    <3>1. m \in k..Len(s) /\ m \in 1..Len(s)
      BY <1>1, <2>2
    <3>2. \A i \in k..m - 1 : i \in 1..Len(s)
      BY <1>1, <3>1
    <3>3. Touches(s[m].cmd, r, p) /\ \A i \in k..m - 1 : ~Touches(s[i].cmd, r, p)
      BY <1>1, <1>2, <3>1, <3>2
    <3> QED  BY <1>1, <3>1, <3>3 DEF SeesNext
  <2> QED  BY <2>1, <2>2
<1> QED  BY <1>2 DEF SeesNext, t

\* A command that sees what its range holds continues the chain.
LEMMA ChainAppended ==
  ASSUME NEW s, Log(s), NEW e, e.cmd \in Accesses, NEW st, Chain(s, st),
         HeldAfter(s, st, e.cmd.res, e.cmd.part, e.saw)
  PROVE  Chain(Append(s, e), st)
<1> DEFINE t == Append(s, e)
           n == Len(s) + 1
<1>1. /\ Len(t) = n /\ n - 1 \in Nat /\ n - 1 = Len(s) /\ t[n] = e
      /\ \A i \in 1..Len(s) : t[i] = s[i]
  BY LogAppended
<1>2. ASSUME NEW r \in Resources, NEW p \in Parts(r)
      PROVE  SeesNext(t, r, p, 1, st[r][p])
  <2>1. SeesNext(s, r, p, 1, st[r][p])
    BY DEF Chain
  <2>2. Touches(e.cmd, r, p) /\ (\A i \in 1..Len(s) : ~Touches(s[i].cmd, r, p)) => e.saw = st[r][p]
    BY DEF HeldAfter, Touches
  <2> QED  BY <2>1, <2>2, SeesAppended
<1>3. ASSUME NEW k \in 1..n
      PROVE  SeesNext(t, t[k].cmd.res, t[k].cmd.part, k + 1, Written(t[k].saw, t[k].cmd.ref, k))
  <2>1. CASE k = n
    BY <1>1, <2>1 DEF SeesNext
  <2>2. CASE k # n
    <3> DEFINE r == s[k].cmd.res
               p == s[k].cmd.part
               c == Written(s[k].saw, s[k].cmd.ref, k)
    <3>1. k \in 1..Len(s) /\ k + 1 \in Nat \ {0}
      BY <1>1, <2>2
    <3>2. SeesNext(s, r, p, k + 1, c)
      BY <3>1 DEF Chain
    <3>3. Touches(e.cmd, r, p) /\ (\A i \in k + 1..Len(s) : ~Touches(s[i].cmd, r, p)) => e.saw = c
      BY <3>1 DEF HeldAfter, Touches
    <3> HIDE DEF r, p, c
    <3>4. SeesNext(t, r, p, k + 1, c)
      BY <3>1, <3>2, <3>3, SeesAppended
    <3> QED  BY <1>1, <3>1, <3>4 DEF r, p, c
  <2> QED  BY <2>1, <2>2
<1> HIDE DEF t
<1> QED  BY <1>1, <1>2, <1>3 DEF Chain, t

LEMMA HeldAppended ==
  ASSUME NEW s, Log(s), NEW e, e.cmd \in Accesses, NEW st, NEW r, NEW p, NEW c, NEW d,
         HeldAfter(s, st, r, p, c),
         Touches(e.cmd, r, p) => d = Written(e.saw, e.cmd.ref, Len(s) + 1),
         ~Touches(e.cmd, r, p) => d = c
  PROVE  HeldAfter(Append(s, e), st, r, p, d)
<1> DEFINE t == Append(s, e)
           n == Len(s) + 1
<1>1. /\ Len(t) = n /\ n - 1 \in Nat /\ n - 1 = Len(s) /\ t[n] = e
      /\ \A i \in 1..Len(s) : t[i] = s[i]
  BY LogAppended
<1> HIDE DEF t
<1>2. ASSUME \A j \in 1..Len(t) : ~Touches(t[j].cmd, r, p)
      PROVE  d = st[r][p]
  <2>1. ~Touches(e.cmd, r, p) /\ \A j \in 1..Len(s) : ~Touches(s[j].cmd, r, p)
    BY <1>1, <1>2
  <2> QED  BY <2>1 DEF HeldAfter
<1>3. ASSUME NEW j \in 1..Len(t), Touches(t[j].cmd, r, p),
             \A i \in j + 1..Len(t) : ~Touches(t[i].cmd, r, p)
      PROVE  d = Written(t[j].saw, t[j].cmd.ref, j)
  <2>1. CASE j = n
    BY <1>1, <1>3, <2>1
  <2>2. CASE j # n
    <3>1. j \in 1..Len(s) /\ n \in j + 1..Len(t) /\ \A i \in j + 1..Len(s) : i \in j + 1..Len(t) /\ i \in 1..Len(s)
      BY <1>1, <2>2
    <3>2. ~Touches(e.cmd, r, p)
      BY <1>1, <1>3, <3>1
    <3>3. Touches(s[j].cmd, r, p) /\ \A i \in j + 1..Len(s) : ~Touches(s[i].cmd, r, p)
      BY <1>1, <1>3, <3>1
    <3> QED  BY <1>1, <3>1, <3>2, <3>3 DEF HeldAfter
  <2> QED  BY <2>1, <2>2
<1> QED  BY <1>2, <1>3 DEF HeldAfter, t

LEMMA BeforeAppended ==
  ASSUME NEW s, Log(s), NEW e, e.cmd \in Accesses, NEW r, NEW p, NEW k \in 1..Len(s) + 1
  PROVE  /\ PartialBefore(Append(s, e), r, p, k) <=> PartialBefore(s, r, p, k)
         /\ WritesBefore(Append(s, e), r, p, k) = WritesBefore(s, r, p, k)
<1>1. Len(s) \in Nat /\ \A i \in 1..Len(s) : Append(s, e)[i] = s[i]
  BY LogAppended
<1>2. \A i \in 1..k - 1 : Append(s, e)[i] = s[i]
  BY <1>1
<1> QED  BY <1>2 DEF PartialBefore, WritesBefore

LEMMA LayersAppended ==
  ASSUME NEW s, Log(s), NEW e, e.cmd \in Accesses, NEW st, LayersSeen(s, st),
         \A r \in Resources : \A p \in Parts(r) :
           Touches(e.cmd, r, p) /\ PartialBefore(s, r, p, Len(s) + 1) =>
             e.saw = Layers(st[r][p], WritesBefore(s, r, p, Len(s) + 1))
  PROVE  LayersSeen(Append(s, e), st)
<1> DEFINE t == Append(s, e)
           n == Len(s) + 1
<1>1. /\ Len(t) = n /\ n - 1 \in Nat /\ n - 1 = Len(s) /\ t[n] = e
      /\ \A i \in 1..Len(s) : t[i] = s[i]
  BY LogAppended
<1>2. ASSUME NEW k \in 1..n, NEW r \in Resources, NEW p \in Parts(r),
             Touches(t[k].cmd, r, p), PartialBefore(t, r, p, k)
      PROVE  t[k].saw = Layers(st[r][p], WritesBefore(t, r, p, k))
  <2>1. PartialBefore(s, r, p, k) /\ WritesBefore(t, r, p, k) = WritesBefore(s, r, p, k)
    BY <1>2, BeforeAppended
  <2>2. CASE k = n
    BY <1>1, <1>2, <2>1, <2>2
  <2>3. CASE k # n
    <3>1. k \in 1..Len(s)
      BY <1>1, <2>3
    <3> HIDE DEF t
    <3> QED  BY <1>1, <1>2, <2>1, <3>1 DEF LayersSeen
  <2> QED  BY <2>2, <2>3
<1> HIDE DEF t
<1> QED  BY <1>1, <1>2 DEF LayersSeen, t

LEMMA WrittenLayers ==
  ASSUME NEW c, NEW k \in Int, NEW W, \A i \in W : i \in Int /\ i < k
  PROVE  WrittenOver(Layers(c, W), k) = Layers(c, W \cup {k})
<1> DEFINE over   == {e \in W \X W : e[1] <= e[2]}
           others == {e \in over : k \notin {e[1], e[2]}}
           new    == others \cup {<<e[1], k>> : e \in others} \cup {<<k, k>>}
           V      == W \cup {k}
<1>1. others = over
  BY DEF Layers
<1>2. ASSUME NEW e \in new
      PROVE  e \in V \X V /\ e[1] <= e[2]
  <2>1. CASE e \in over
    BY <2>1
  <2>2. CASE \E d \in over : e = <<d[1], k>>
    BY <2>2
  <2>3. CASE e = <<k, k>>
    BY <2>3
  <2> QED  BY <1>1, <2>1, <2>2, <2>3
<1>3. ASSUME NEW x \in V, NEW y \in V, x <= y
      PROVE  <<x, y>> \in new
  <2>1. CASE y # k
    <3>1. x \in W /\ y \in W
      BY <1>3, <2>1
    <3>2. <<x, y>> \in over
      BY <1>3, <3>1
    <3> QED  BY <1>1, <3>2
  <2>2. CASE y = k /\ x # k
    <3>1. <<x, x>> \in over
      BY <1>3, <2>2
    <3>2. <<x, k>> \in {<<e[1], k>> : e \in others}
      BY <1>1, <3>1
    <3> QED  BY <2>2, <3>2
  <2>3. CASE y = k /\ x = k
    BY <2>3
  <2> QED  BY <2>1, <2>2, <2>3
<1>4. new = {e \in V \X V : e[1] <= e[2]}
  <2> HIDE DEF new
  <2>1. \A e \in V \X V : e[1] \in V /\ e[2] \in V /\ e = <<e[1], e[2]>>
    OBVIOUS
  <2> QED  BY <1>2, <1>3, <2>1
<1>5. Layers(c, W).base = c.base /\ Layers(c, W).over = over
  BY DEF Layers
<1>6. WrittenOver(Layers(c, W), k) = [base |-> c.base, over |-> new]
  BY <1>5 DEF WrittenOver
<1> HIDE DEF new
<1> QED  BY <1>4, <1>6 DEF Layers

-----------------------------------------------------------------------------

LEMMA WrittenIs ==
  ASSUME NEW c, NEW k
  PROVE  /\ Written(c, PartialWrite, k) = WrittenOver(c, k)
         /\ Written(c, Read, k) = c
         /\ Written(c, CompleteWrite, k) = Fresh(k)
         /\ Written(c, CompleteWriteAndDiscard, k) = Fresh(Junk)
BY DEF Written, None, PartialWrite, CompleteWrite, Read, ReadBeforeWrite, WriteBeforeRead,
   CompleteWriteAndDiscard

\* What was plain when the capture started has nothing written over it yet.
LEMMA PlainLayers ==
  ASSUME NEW c, Plain(c)
  PROVE  Layers(c, {}) = c
<1>1. PICK b : c = Fresh(b)
  BY DEF Plain
<1>2. {x \in {} \X {} : x[1] <= x[2]} = {}
  OBVIOUS
<1>3. c.base = b /\ c = [base |-> b, over |-> {}]
  BY <1>1 DEF Fresh
<1> QED  BY <1>2, <1>3 DEF Layers

LEMMA HoldsAppended ==
  ASSUME NEW s, Log(s), NEW e, e.cmd \in Accesses, NEW st, NEW r, NEW p, NEW c,
         Holds(s, st, r, p, c), Touches(e.cmd, r, p) => e.saw = c,
         NEW d, Touches(e.cmd, r, p) => d = Written(c, e.cmd.ref, Len(s) + 1),
         ~Touches(e.cmd, r, p) => d = c
  PROVE  Holds(Append(s, e), st, r, p, d)
<1> DEFINE t == Append(s, e)
           n == Len(s) + 1
           W == WritesBefore(s, r, p, n)
           V == WritesBefore(t, r, p, n + 1)
<1>1. /\ Len(t) = n /\ n - 1 \in Nat /\ n - 1 = Len(s) /\ t[n] = e
      /\ \A i \in 1..Len(s) : t[i] = s[i]
  BY LogAppended
<1>2. HeldAfter(t, st, r, p, d)
  BY HeldAppended DEF Holds
<1>3. ASSUME PartialBefore(t, r, p, n + 1)
      PROVE  d = Layers(st[r][p], V)
  <2> HIDE DEF t, n
  <2>1. \A i \in 1..n - 1 : i \in 1..(n + 1) - 1 /\ t[i] = s[i]
    BY <1>1
  <2>2. n \in 1..(n + 1) - 1 /\ \A i \in 1..(n + 1) - 1 : i \in 1..n - 1 \/ i = n
    BY <1>1
  <2>3. PartialBefore(s, r, p, n)
    BY <1>3, <2>1 DEF PartialBefore
  <2>4. c = Layers(st[r][p], W)
    BY <2>3 DEF Holds, n
  <2>5. Touches(e.cmd, r, p) => e.cmd.ref \in {PartialWrite, Read}
    BY <1>1, <1>3, <2>2 DEF PartialBefore
  <2>6. \A i \in W : i \in Int /\ i < n
    BY <1>1 DEF WritesBefore
  <2>7. CASE Touches(e.cmd, r, p) /\ e.cmd.ref = PartialWrite
    <3>1. V = W \cup {n}
      <4>1. IncludesWrite(PartialWrite)
        BY DEF IncludesWrite, PartialWrite, None, Read
      <4>2. \A i : i \in V <=> i \in W \/ i = n
        BY <1>1, <2>1, <2>2, <2>7, <4>1 DEF WritesBefore
      <4> QED  BY <4>2
    <3>2. d = WrittenOver(c, n)
      BY <2>7, WrittenIs DEF n
    <3> HIDE DEF V, W
    <3>3. n \in Int
      BY <1>1
    <3> QED  BY <2>4, <2>6, <3>1, <3>2, <3>3, WrittenLayers
  <2>8. CASE ~Touches(e.cmd, r, p) \/ e.cmd.ref = Read
    <3>1. V = W
      <4>1. ~IncludesWrite(Read)
        BY DEF IncludesWrite
      <4>2. \A i : i \in V <=> i \in W
        BY <1>1, <2>1, <2>2, <2>8, <4>1 DEF WritesBefore
      <4> QED  BY <4>2
    <3>2. d = c
      BY <2>8, WrittenIs
    <3> QED  BY <2>4, <3>1, <3>2
  <2> QED  BY <2>5, <2>7, <2>8
<1> HIDE DEF t
<1> QED  BY <1>1, <1>2, <1>3 DEF Holds, t

LEMMA SettledPlain == \A c : Plain(Settled(c))
BY DEF Plain, Settled

LEMMA StoryExecuted ==
  ASSUME IInv, StoryInv, Execute, mode = "capturing"
  PROVE  StoryInv'
<1> DEFINE a    == Head(queue)
           seen == gpu[a.res][a.part]
           e    == [cmd |-> a, saw |-> seen]
           new  == Written(seen, a.ref, Len(script) + 1)
<1>1. /\ a \in Accesses /\ a.res \in Resources /\ a.part \in Parts(a.res)
      /\ script' = Append(script, e) /\ start' = start /\ mode' = mode
      /\ gpu' = [gpu EXCEPT ![a.res][a.part] = new]
  <2>1. queue # <<>> /\ queue \in Seq(Accesses)
    BY DEF Execute, IInv, PutOffInv
  <2>2. a \in Accesses
    BY <2>1
  <2> HIDE DEF a
  <2>3. a.res \in Resources /\ a.part \in Parts(a.res)
    BY <2>2, AccessesValid DEF Access
  <2> QED  BY <2>2, <2>3 DEF Execute, a
<1>2. e.cmd = a /\ e.saw = seen
  OBVIOUS
<1>3. Story(script, start) /\ Log(script)
      /\ \A r \in Resources : \A p \in Parts(r) : Holds(script, start, r, p, gpu[r][p])
  BY DEF StoryInv, Story, Log
<1>4. /\ gpu'[a.res][a.part] = new
      /\ \A r \in Resources : \A p \in Parts(r) : ~Touches(a, r, p) => gpu'[r][p] = gpu[r][p]
  <2>1. /\ gpu'[a.res] = [gpu[a.res] EXCEPT ![a.part] = new]
        /\ \A r \in Resources : r # a.res => gpu'[r] = gpu[r]
    BY <1>1 DEF IInv, ContentsInv
  <2>2. gpu[a.res] = [p \in Parts(a.res) |-> gpu[a.res][p]]
    BY <1>1 DEF IInv, ContentsInv
  <2> HIDE DEF new, a
  <2> QED  BY <1>1, <2>1, <2>2 DEF Touches
<1>5. new = Written(seen, a.ref, Len(script) + 1)
  OBVIOUS
<1> HIDE DEF e, a, new
<1>6. ASSUME NEW r \in Resources, NEW p \in Parts(r)
      PROVE  Holds(Append(script, e), start, r, p, gpu'[r][p])
  <2>1. Touches(e.cmd, r, p) => r = a.res /\ p = a.part
    BY <1>2 DEF Touches
  <2>2. Touches(e.cmd, r, p) => e.saw = gpu[r][p]
    BY <1>2, <2>1
  <2>3. Touches(e.cmd, r, p) => gpu'[r][p] = Written(gpu[r][p], e.cmd.ref, Len(script) + 1)
    BY <1>2, <1>4, <1>5, <2>1
  <2>4. ~Touches(e.cmd, r, p) => gpu'[r][p] = gpu[r][p]
    BY <1>2, <1>4
  <2> QED  BY <1>1, <1>2, <1>3, <2>2, <2>3, <2>4, HoldsAppended
<1>7. Log(Append(script, e))
  BY <1>1, <1>2, <1>3, LogAppended
<1>8. Chain(Append(script, e), start)
  <2>1. HeldAfter(script, start, e.cmd.res, e.cmd.part, e.saw)
    BY <1>1, <1>2, <1>3 DEF Holds
  <2>2. Chain(script, start)
    BY <1>3 DEF Story
  <2> QED  BY <1>1, <1>2, <1>3, <2>1, <2>2, ChainAppended
<1>9. LayersSeen(Append(script, e), start)
  <2>1. LayersSeen(script, start)
    BY <1>3 DEF Story
  <2>2. ASSUME NEW r \in Resources, NEW p \in Parts(r),
               Touches(e.cmd, r, p), PartialBefore(script, r, p, Len(script) + 1)
        PROVE  e.saw = Layers(start[r][p], WritesBefore(script, r, p, Len(script) + 1))
    <3>1. r = a.res /\ p = a.part
      BY <1>2, <2>2 DEF Touches
    <3>2. gpu[r][p] = Layers(start[r][p], WritesBefore(script, r, p, Len(script) + 1))
      BY <1>3, <2>2 DEF Holds
    <3> QED  BY <1>2, <3>1, <3>2
  <2> QED  BY <1>1, <1>2, <1>3, <2>1, <2>2, LayersAppended
<1>10. Story(Append(script, e), start)
  BY <1>3, <1>7, <1>8, <1>9 DEF Story, Log
<1>11. mode' = "capturing"
  BY <1>1
<1>12. Story(script', start') /\ \A r \in Resources : \A p \in Parts(r) : Holds(script', start', r, p, gpu'[r][p])
  BY <1>1, <1>6, <1>10
<1> QED  BY <1>11, <1>12 DEF StoryInv

LEMMA StoryStarted ==
  ASSUME IInv, StoryInv, StartFrameCapture
  PROVE  StoryInv'
<1>1. /\ mode = "background" /\ mode' = "capturing" /\ gpu' = gpu /\ start' = gpu /\ script' = <<>>
  BY DEF StartFrameCapture
<1>2. PlainStart(gpu)
  BY <1>1 DEF StoryInv
<1>3. Len(<<>>) = 0 /\ \A k : ~(k \in 1..0)
  OBVIOUS
<1>4. Chain(<<>>, gpu) /\ LayersSeen(<<>>, gpu)
  BY <1>3 DEF Chain, LayersSeen, SeesNext
<1>5. Story(<<>>, gpu)
  BY <1>2, <1>3, <1>4 DEF Story
<1>6. ASSUME NEW r \in Resources, NEW p \in Parts(r)
      PROVE  Holds(<<>>, gpu, r, p, gpu[r][p])
  <2>1. Plain(gpu[r][p])
    BY <1>2 DEF PlainStart
  <2>2. WritesBefore(<<>>, r, p, 0 + 1) = {}
    BY DEF WritesBefore
  <2>4. Layers(gpu[r][p], {}) = gpu[r][p]
    BY <2>1, PlainLayers
  <2>5. HeldAfter(<<>>, gpu, r, p, gpu[r][p])
    BY <1>3 DEF HeldAfter
  <2> QED  BY <1>3, <2>2, <2>4, <2>5 DEF Holds
<1> QED  BY <1>1, <1>5, <1>6 DEF StoryInv

LEMMA StoryBackground ==
  ASSUME IInv, StoryInv, Execute, mode = "background"
  PROVE  StoryInv'
<1> DEFINE a   == Head(queue)
           new == Settled(Written(gpu[a.res][a.part], a.ref, Len(script) + 1))
<1>1. gpu' = [gpu EXCEPT ![a.res][a.part] = new] /\ mode' = "background"
  BY DEF Execute
<1>2. Plain(new)
  BY SettledPlain
<1>3. PlainStart(gpu)
  BY DEF StoryInv
<1> HIDE DEF new, a
<1>4. gpu' = [r \in Resources |-> gpu'[r]]
  BY <1>1, <1>3 DEF PlainStart
<1>5. ASSUME NEW r \in Resources
      PROVE  gpu'[r] = [p \in Parts(r) |-> gpu'[r][p]] /\ \A p \in Parts(r) : Plain(gpu'[r][p])
  <2>1. gpu[r] = [p \in Parts(r) |-> gpu[r][p]] /\ \A p \in Parts(r) : Plain(gpu[r][p])
    BY <1>3 DEF PlainStart
  <2>2. CASE r = a.res
    <3>1. gpu'[r] = [gpu[r] EXCEPT ![a.part] = new]
      BY <1>1, <1>3, <2>2 DEF PlainStart
    <3> QED  BY <1>2, <2>1, <3>1
  <2>3. CASE r # a.res
    <3>1. gpu'[r] = gpu[r]
      BY <1>1, <1>3, <2>3 DEF PlainStart
    <3> QED  BY <2>1, <3>1
  <2> QED  BY <2>2, <2>3
<1>6. PlainStart(gpu')
  BY <1>4, <1>5 DEF PlainStart
<1> QED  BY <1>1, <1>6 DEF StoryInv

LEMMA StorySettled ==
  ASSUME gpu' = [r \in Resources |-> [p \in Parts(r) |-> Settled(gpu[r][p])]], mode' = "background"
  PROVE  StoryInv'
<1>1. gpu' = [r \in Resources |-> [p \in Parts(r) |-> Settled(gpu[r][p])]]
  OBVIOUS
<1>2. \A r \in Resources : \A p \in Parts(r) : Plain(gpu'[r][p])
  <2> SUFFICES ASSUME NEW r \in Resources, NEW p \in Parts(r) PROVE Plain(gpu'[r][p])
    OBVIOUS
  <2>1. gpu'[r][p] = Settled(gpu[r][p])
    BY <1>1
  <2> QED  BY <2>1, SettledPlain
<1>3. \A r \in Resources : gpu'[r] = [p \in Parts(r) |-> gpu'[r][p]]
  BY <1>1
<1>4. gpu' = [r \in Resources |-> gpu'[r]]
  BY <1>1
<1>5. PlainStart(gpu')
  BY <1>2, <1>3, <1>4 DEF PlainStart
<1> QED  BY <1>5 DEF StoryInv

LEMMA StoryStep ==
  ASSUME IInv, StoryInv, [Next]_vars
  PROVE  StoryInv'
<1>1. CASE Execute
  <2>1. mode \in {"background", "capturing"}
    BY <1>1 DEF Execute, IInv, PutOffInv
  <2> QED  BY <1>1, <2>1, StoryExecuted, StoryBackground
<1>2. CASE StartFrameCapture
  BY <1>2, StoryStarted
<1>3. CASE EndFrameCapture
  BY <1>3, StorySettled DEF EndFrameCapture, PerRange
<1>4. CASE DiscardFrameCapture
  BY <1>4, StorySettled DEF DiscardFrameCapture, PerRange
<1>5. ASSUME NEW policy \in Policies, Load(policy)
      PROVE  StoryInv'
  BY <1>5 DEF Load, StoryInv
<1>6. ASSUME UNCHANGED <<mode, gpu, script, start>>
      PROVE  StoryInv'
  <2>1. (\A r \in Resources : \A p \in Parts(r) : Holds(script, start, r, p, gpu[r][p]))
          => \A r \in Resources : \A p \in Parts(r) : Holds(script', start', r, p, gpu'[r][p])
    BY <1>6
  <2> QED  BY <1>6, <2>1 DEF StoryInv
<1>7. ASSUME NEW a \in Accesses, Record(a)
      PROVE  StoryInv'
  BY <1>6, <1>7 DEF Record
<1>8. CASE Submit
  BY <1>6, <1>8 DEF Submit
<1>9. ASSUME NEW r \in Resources, TimePasses(r)
      PROVE  StoryInv'
  BY <1>6, <1>9 DEF TimePasses
<1>10. ASSUME NEW r \in Resources, ReleaseResource(r)
       PROVE  StoryInv'
  BY <1>6, <1>10 DEF ReleaseResource
<1>11. CASE CleanBackgroundFrameReferences
  BY <1>6, <1>11 DEF CleanBackgroundFrameReferences
<1>12. CASE ApplyInitialContents
  BY <1>6, <1>12 DEF ApplyInitialContents
<1>13. CASE ReplayCommand
  BY <1>6, <1>13 DEF ReplayCommand
<1>14. CASE UNCHANGED vars
  BY <1>6, <1>14 DEF vars
<1> QED  BY <1>1, <1>2, <1>3, <1>4, <1>5, <1>7, <1>8, <1>9, <1>10, <1>11, <1>12, <1>13, <1>14
         DEF Next

-----------------------------------------------------------------------------
(* What the manager keeps.                                                   *)

LEMMA UnskippedOf ==
  ASSUME NEW m, IsRecord(m), NEW r, NEW ref, NEW c, NEW u, u = Unskipped(m, r, ref, c)
  PROVE  /\ u.ref = m.ref /\ u.skip = m.skip /\ ~u.skipped
         /\ ~m.skipped => u.initial = m.initial /\ (u.postponed <=> m.postponed)
         /\ m.skipped /\ IsCompleteWrite(ref) => u.initial = m.initial /\ (u.postponed <=> m.postponed)
         /\ m.skipped /\ ~IsCompleteWrite(ref) =>
              \/ u.postponed /\ u.initial = Empty /\ ~IsDirty(ref)
              \/ (u.postponed <=> m.postponed) /\ u.initial = Saved(c)
BY DEF IsRecord, Fields, Unskipped

LEMMA PreparedOf ==
  ASSUME NEW m, IsRecord(m), NEW c, NEW q, q = PreparedIfPostponed(m, c)
  PROVE  /\ q.ref = m.ref /\ q.skip = m.skip /\ (q.skipped <=> m.skipped) /\ ~q.postponed
         /\ m.postponed => q.initial = Saved(c)
         /\ ~m.postponed => q.initial = m.initial
BY DEF IsRecord, Fields, PreparedIfPostponed, Prepared

LEMMA UpdateOf ==
  ASSUME NEW m, IsRecord(m), NEW ref, NEW w, w = UpdateLastWriteTime(m, ref)
  PROVE  /\ w.ref = m.ref /\ (w.skipped <=> m.skipped) /\ (w.postponed <=> m.postponed) /\ w.initial = m.initial
         /\ ~IsDirty(ref) => w.skip = m.skip
         /\ IsDirty(ref) /\ ref # CompleteWriteAndDiscard => w.skip = "none"
BY DEF IsRecord, Fields, UpdateLastWriteTime

LEMMA MarkedOf ==
  ASSUME NEW m, IsRecord(m), NEW r, NEW ref, ref # None, NEW c, NEW n, n = Marked(m, r, ref, c)
  PROVE  /\ n.ref = Compose(m.ref, ref) /\ ~n.skipped
         /\ ~IsDirty(ref) => n.skip = m.skip
         /\ IsDirty(ref) /\ ref # CompleteWriteAndDiscard => n.skip = "none"
         /\ ~m.skipped /\ ~m.postponed => n.initial = m.initial /\ ~n.postponed
         /\ ~m.skipped /\ m.postponed =>
              \/ n.initial = m.initial /\ n.postponed
              \/ n.initial = Saved(c) /\ ~n.postponed
         /\ m.skipped /\ ~m.postponed /\ IsCompleteWrite(ref) => n.initial = m.initial /\ ~n.postponed
         /\ m.skipped /\ ~m.postponed /\ ~IsCompleteWrite(ref) =>
              \/ n.initial = Empty /\ n.postponed
              \/ n.initial = Saved(c) /\ ~n.postponed
<1> DEFINE u == Unskipped(m, r, ref, c)
           q == IF IsDirty(ref) THEN PreparedIfPostponed(u, c) ELSE u
           w == UpdateLastWriteTime(q, ref)
<1>1. /\ IsRecord(u) /\ u.ref = m.ref /\ u.skip = m.skip /\ ~u.skipped
      /\ ~m.skipped => u.initial = m.initial /\ (u.postponed <=> m.postponed)
      /\ m.skipped /\ IsCompleteWrite(ref) => u.initial = m.initial /\ (u.postponed <=> m.postponed)
      /\ m.skipped /\ ~IsCompleteWrite(ref) =>
           \/ u.postponed /\ u.initial = Empty /\ ~IsDirty(ref)
           \/ (u.postponed <=> m.postponed) /\ u.initial = Saved(c)
  <2>1. IsRecord(u)
    BY UnskippedKeeps
  <2>2. u = Unskipped(m, r, ref, c)
    OBVIOUS
  <2> HIDE DEF u
  <2> QED  BY <2>1, <2>2, UnskippedOf
<1>2. /\ IsRecord(q) /\ q.ref = u.ref /\ q.skip = u.skip /\ (q.skipped <=> u.skipped)
      /\ IsDirty(ref) => ~q.postponed
      /\ IsDirty(ref) /\ u.postponed => q.initial = Saved(c)
      /\ ~IsDirty(ref) \/ ~u.postponed => q.initial = u.initial
      /\ ~IsDirty(ref) => (q.postponed <=> u.postponed)
  <2>1. q = IF IsDirty(ref) THEN PreparedIfPostponed(u, c) ELSE u
    OBVIOUS
  <2> HIDE DEF q, u
  <2>2. CASE IsDirty(ref)
    <3>1. q = PreparedIfPostponed(u, c)
      BY <2>1, <2>2
    <3>2. IsRecord(q)
      BY <1>1, <3>1, PreparedKeeps
    <3> QED  BY <1>1, <2>2, <3>1, <3>2, PreparedOf
  <2>3. CASE ~IsDirty(ref)
    BY <1>1, <2>1, <2>3
  <2> QED  BY <2>2, <2>3
<1>3. /\ IsRecord(w) /\ w.ref = q.ref /\ (w.skipped <=> q.skipped) /\ (w.postponed <=> q.postponed)
      /\ w.initial = q.initial
      /\ ~IsDirty(ref) => w.skip = q.skip
      /\ IsDirty(ref) /\ ref # CompleteWriteAndDiscard => w.skip = "none"
  <2>1. w = UpdateLastWriteTime(q, ref)
    OBVIOUS
  <2> HIDE DEF w, q
  <2>2. IsRecord(w)
    BY <1>2, <2>1, UpdateKeeps
  <2> QED  BY <1>2, <2>1, <2>2, UpdateOf
<1>4. n = [w EXCEPT !.ref = Compose(@, ref)]
  BY DEF Marked
<1> HIDE DEF w
<1>5. /\ n.ref = Compose(w.ref, ref) /\ (n.skipped <=> w.skipped) /\ (n.postponed <=> w.postponed)
      /\ n.initial = w.initial /\ n.skip = w.skip
  BY <1>3, <1>4 DEF IsRecord, Fields
<1> HIDE DEF q, u
<1>6. m.skipped \in BOOLEAN /\ m.postponed \in BOOLEAN /\ u.postponed \in BOOLEAN /\ q.postponed \in BOOLEAN
  BY <1>1, <1>2 DEF IsRecord
<1>7. n.ref = Compose(m.ref, ref) /\ ~n.skipped
  BY <1>1, <1>2, <1>3, <1>5
<1>8. /\ ~IsDirty(ref) => n.skip = m.skip
      /\ IsDirty(ref) /\ ref # CompleteWriteAndDiscard => n.skip = "none"
  BY <1>1, <1>2, <1>3, <1>5
<1>9. ~m.skipped /\ ~m.postponed => n.initial = m.initial /\ ~n.postponed
  BY <1>1, <1>2, <1>3, <1>5, <1>6
<1>10. ~m.skipped /\ m.postponed =>
         \/ n.initial = m.initial /\ n.postponed
         \/ n.initial = Saved(c) /\ ~n.postponed
  BY <1>1, <1>2, <1>3, <1>5, <1>6
<1>11. m.skipped /\ ~m.postponed /\ IsCompleteWrite(ref) => n.initial = m.initial /\ ~n.postponed
  BY <1>1, <1>2, <1>3, <1>5, <1>6
<1>12. m.skipped /\ ~m.postponed /\ ~IsCompleteWrite(ref) =>
         \/ n.initial = Empty /\ n.postponed
         \/ n.initial = Saved(c) /\ ~n.postponed
  BY <1>1, <1>2, <1>3, <1>5, <1>6
<1> QED  BY <1>7, <1>8, <1>9, <1>10, <1>11, <1>12

LEMMA ComposeComplete ==
  \A x, y \in References : IsCompleteWrite(x) => IsCompleteWrite(Compose(x, y))
BY DEF References, Compose, IncludesWrite, IsCompleteWrite, None, PartialWrite, CompleteWrite, Read,
       ReadBeforeWrite, WriteBeforeRead, CompleteWriteAndDiscard

\* A reference to resource r, which holds c and held st, makes refs those after it.
Marking(m, r, st, c, refs, ref, after) ==
  /\ IsRecord(m) /\ m.ref \in References /\ m.initial.has \in BOOLEAN
  /\ PutOff(m) => Tracked(r) /\ c = st
  /\ KeepsOf(m, r, st, refs)
  /\ ref \in References
  /\ ref # None => r \in live
  /\ ref = None => \A p \in Parts(r) : after[p] = refs[p]
  /\ IsCompleteWrite(refs[1]) => IsCompleteWrite(after[1])
  /\ IsCompleteWrite(ref) /\ Single(r) /\ refs[1] = None => IsCompleteWrite(after[1])

\* It leaves the manager with what the capture needs.
LEMMA KeepsMarked ==
  ASSUME NEW m, NEW r \in Resources, NEW st, NEW c, NEW refs, NEW ref, NEW after,
         Marking(m, r, st, c, refs, ref, after)
  PROVE  /\ KeepsOf(Marked(m, r, ref, c), r, st, after)
         /\ Marked(m, r, ref, c).ref \in References /\ Marked(m, r, ref, c).initial.has \in BOOLEAN
<1> DEFINE n == Marked(m, r, ref, c)
<1>n. n = Marked(m, r, ref, c)
  OBVIOUS
<1> HIDE DEF n
<1> SUFFICES KeepsOf(n, r, st, after) /\ n.ref \in References /\ n.initial.has \in BOOLEAN
  BY <1>n
<1>a. /\ IsRecord(m) /\ m.ref \in References /\ m.initial.has \in BOOLEAN
      /\ PutOff(m) => Tracked(r) /\ c = st
      /\ KeepsOf(m, r, st, refs)
      /\ ref \in References
      /\ ref # None => r \in live
      /\ ref = None => \A p \in Parts(r) : after[p] = refs[p]
      /\ IsCompleteWrite(refs[1]) => IsCompleteWrite(after[1])
      /\ IsCompleteWrite(ref) /\ Single(r) /\ refs[1] = None => IsCompleteWrite(after[1])
  BY DEF Marking
<1> USE <1>a
<1>0. Empty.has = TRUE /\ Saved(c).has = TRUE /\ Saved(c).data = c
  BY DEF Empty, Saved
<1>1. CASE ref = None
  <2>1. n = m
    BY <1>1, <1>n DEF Marked
  <2>2. (\A p \in Parts(r) : refs[p] = None) => \A p \in Parts(r) : after[p] = None
    BY <1>1
  <2> QED  BY <2>1, <2>2 DEF KeepsOf
<1>2. CASE ref # None
  <2>1. /\ n.ref = Compose(m.ref, ref) /\ ~n.skipped
        /\ ~m.skipped /\ ~m.postponed => n.initial = m.initial /\ ~n.postponed
        /\ ~m.skipped /\ m.postponed =>
             \/ n.initial = m.initial /\ n.postponed
             \/ n.initial = Saved(c) /\ ~n.postponed
        /\ m.skipped /\ ~m.postponed /\ IsCompleteWrite(ref) => n.initial = m.initial /\ ~n.postponed
        /\ m.skipped /\ ~m.postponed /\ ~IsCompleteWrite(ref) =>
             \/ n.initial = Empty /\ n.postponed
             \/ n.initial = Saved(c) /\ ~n.postponed
    BY <1>2, <1>n, MarkedOf
  <2>2. n.ref \in References /\ n.ref # None /\ (IsDirty(n.ref) <=> IsDirty(m.ref) \/ IsDirty(ref))
    <3>1. /\ Compose(m.ref, ref) \in References
          /\ Compose(m.ref, ref) = None <=> m.ref = None /\ ref = None
          /\ IsDirty(Compose(m.ref, ref)) <=> IsDirty(m.ref) \/ IsDirty(ref)
      BY ComposeType, ComposeNone, ComposeDirty
    <3> QED  BY <1>2, <2>1, <3>1
  <2>3. m.skipped \in BOOLEAN /\ m.postponed \in BOOLEAN /\ r \in live /\ 1 \in Parts(r)
    BY <1>2, RangesPositive DEF IsRecord
  <2>4. CASE m.skipped
    <3>1. ~m.initial.has /\ m.ref = None /\ ~m.postponed /\ Undefined(st[1]) /\ Single(r) /\ c = st
      BY <2>4 DEF KeepsOf, PutOff
    <3>2. CASE IsCompleteWrite(ref)
      <4>1. n.initial = m.initial /\ ~n.postponed
        BY <2>1, <2>4, <3>1, <3>2
      <4>2. refs[1] = None
        BY <2>3, <3>1 DEF KeepsOf
      <4>3. IsDirty(ref)
        BY <3>2 DEF IsCompleteWrite, IsDirty, CompleteWrite, CompleteWriteAndDiscard, None, Read
      <4> QED  BY <2>1, <2>2, <3>1, <3>2, <4>1, <4>2, <4>3 DEF KeepsOf
    <3>3. CASE ~IsCompleteWrite(ref)
      <4>1. \/ n.initial = Empty /\ n.postponed
            \/ n.initial = Saved(c) /\ ~n.postponed
        BY <2>1, <2>4, <3>1, <3>3
      <4> QED  BY <1>0, <2>1, <2>2, <3>1, <4>1 DEF KeepsOf
    <3> QED  BY <3>2, <3>3
  <2>5. CASE ~m.skipped /\ m.postponed
    <3>1. m.initial.has /\ c = st
      BY <2>5 DEF KeepsOf, PutOff
    <3>2. \/ n.initial = m.initial /\ n.postponed
          \/ n.initial = Saved(c) /\ ~n.postponed
      BY <2>1, <2>5
    <3> QED  BY <1>0, <2>1, <2>2, <3>1, <3>2 DEF KeepsOf
  <2>6. CASE ~m.skipped /\ ~m.postponed
    <3>1. n.initial = m.initial /\ ~n.postponed
      BY <2>1, <2>6
    <3>2. m.initial.has => m.initial.data = st
      BY <2>6 DEF KeepsOf
    <3>3. ~m.initial.has =>
            IsDirty(m.ref) /\ Single(r) /\ IsCompleteWrite(refs[1]) /\ Undefined(st[1])
      BY <2>3, <2>6 DEF KeepsOf
    <3> QED  BY <2>1, <2>2, <3>1, <3>2, <3>3 DEF KeepsOf
  <2> QED  BY <2>3, <2>4, <2>5, <2>6
<1> QED  BY <1>1, <1>2

-----------------------------------------------------------------------------

LEMMA ComposeUnit ==
  \A x \in References : Compose(x, None) = x /\ Compose(None, x) = x
BY DEF References, Compose, IncludesWrite, None, PartialWrite, CompleteWrite, Read,
       ReadBeforeWrite, WriteBeforeRead, CompleteWriteAndDiscard

\* The manager knows the same of a resource, but for the ages of its writes.
Alike(m, n) ==
  /\ m.ref = n.ref /\ m.initial = n.initial
  /\ m.postponed <=> n.postponed
  /\ m.skipped <=> n.skipped

LEMMA KeptAged ==
  ASSUME KeptInv, \A r \in Resources : Alike(manager'[r], manager[r]),
         UNCHANGED <<mode, memRefs, start>>, live' \subseteq live
  PROVE  KeptInv'
<1>1. ASSUME NEW r \in Resources
      PROVE  /\ manager'[r].ref \in References /\ manager'[r].initial.has \in BOOLEAN
             /\ mode = "background" =>
                  ~PutOff(manager'[r]) /\ ~manager'[r].initial.has /\ manager'[r].ref = None
  BY DEF KeptInv, Alike, PutOff
<1>2. ASSUME NEW r \in Resources, mode = "capturing"
      PROVE  KeepsOf(manager[r], r, start[r], memRefs[r])'
  <2>1. KeepsOf(manager[r], r, start[r], memRefs[r]) /\ Alike(manager'[r], manager[r])
    BY <1>2 DEF KeptInv
  <2> QED  BY <2>1 DEF KeepsOf, Alike, Single, Tracked
<1> QED  BY <1>1, <1>2 DEF KeptInv

\* What time and a forgotten write change.
LEMMA TimePassesOf ==
  ASSUME IInv, NEW r \in Resources, TimePasses(r), NEW q \in Resources
  PROVE  /\ Alike(manager'[q], manager[q])
         /\ manager'[q].skip # "none" => manager[q].skip # "none"
<1>1. IsRecord(manager[r]) /\ IsRecord(manager[q]) /\ manager = [o \in Resources |-> manager[o]]
  BY Records DEF IInv, ManagerInv
<1>2. CASE manager[r].skip = "recent" /\ manager' = [manager EXCEPT ![r].skip = "old"]
  <2> DEFINE m == [manager[r] EXCEPT !.skip = "old"]
  <2>1. Alike(m, manager[r])
    BY <1>1 DEF IsRecord, Fields, Alike
  <2>2. manager' = [manager EXCEPT ![r] = m]
    BY <1>2
  <2> HIDE DEF m
  <2> QED  BY <1>1, <1>2, <2>1, <2>2 DEF Alike
<1>3. CASE manager' = [manager EXCEPT ![r].write = "old",
                                      ![r].skip = IF @ = "recent" THEN "old" ELSE @]
  <2> DEFINE n == [manager[r] EXCEPT !.write = "old"]
             m == [n EXCEPT !.skip = IF @ = "recent" THEN "old" ELSE @]
  <2>1. Alike(m, manager[r]) /\ (m.skip # "none" => manager[r].skip # "none")
    BY <1>1 DEF IsRecord, Fields, Alike
  <2>2. manager' = [manager EXCEPT ![r] = m]
    BY <1>3, ZenonT(60) DEF IInv, ManagerInv
  <2> HIDE DEF m
  <2> QED  BY <1>1, <2>1, <2>2 DEF Alike
<1> QED  BY <1>2, <1>3 DEF TimePasses

LEMMA CleanOf ==
  ASSUME IInv, CleanBackgroundFrameReferences, NEW q \in Resources
  PROVE  /\ Alike(manager'[q], manager[q])
         /\ manager'[q].skip # "none" => manager[q].skip # "none"
<1>1. IsRecord(manager[q])
  BY Records DEF IInv
<1>2. manager'[q] = IF manager[q].write = "old" /\ manager[q].skip = "none"
                    THEN [manager[q] EXCEPT !.write = "absent"] ELSE manager[q]
  BY DEF CleanBackgroundFrameReferences
<1>3. /\ Alike([manager[q] EXCEPT !.write = "absent"], manager[q])
      /\ [manager[q] EXCEPT !.write = "absent"].skip = manager[q].skip
      /\ Alike(manager[q], manager[q])
  BY <1>1 DEF Alike, IsRecord, Fields
<1> QED  BY <1>2, <1>3

LEMMA ReleaseOf ==
  ASSUME IInv, NEW r \in Resources, ReleaseResource(r), NEW q \in Resources
  PROVE  /\ q # r \/ mode # "capturing" => Alike(manager'[q], manager[q])
         /\ q = r /\ mode = "capturing" => Alike(manager'[q], PreparedIfPostponed(manager[q], gpu[q]))
         /\ manager'[q].skip # "none" => manager[q].skip # "none"
<1> DEFINE k == IF q = r /\ mode = "capturing" THEN PreparedIfPostponed(manager[q], gpu[q]) ELSE manager[q]
<1>1. IsRecord(manager[q])
  BY Records DEF IInv
<1>2. IsRecord(k) /\ k.skip = manager[q].skip
  <2>1. IsRecord(PreparedIfPostponed(manager[q], gpu[q]))
    BY <1>1, PreparedKeeps
  <2>2. PreparedIfPostponed(manager[q], gpu[q]).skip = manager[q].skip
    BY <1>1, PreparedOf
  <2> QED  BY <1>1, <2>1, <2>2
<1>3. manager'[q] = IF q \in Erased(r) THEN [k EXCEPT !.write = "absent", !.skip = "none"] ELSE k
  BY DEF ReleaseResource
<1>4. k = IF q = r /\ mode = "capturing" THEN PreparedIfPostponed(manager[q], gpu[q]) ELSE manager[q]
  OBVIOUS
<1> HIDE DEF k
<1>5. /\ Alike([k EXCEPT !.write = "absent", !.skip = "none"], k) /\ Alike(k, k)
      /\ [k EXCEPT !.write = "absent", !.skip = "none"].skip = "none"
  BY <1>2 DEF Alike, IsRecord, Fields
<1>6. Alike(manager'[q], k) /\ (manager'[q].skip # "none" => k.skip # "none")
  BY <1>3, <1>5
<1>7. CASE q = r /\ mode = "capturing"
  <2>1. k = PreparedIfPostponed(manager[q], gpu[q])
    BY <1>4, <1>7
  <2> QED  BY <1>2, <1>6, <1>7, <2>1
<1>8. CASE ~(q = r /\ mode = "capturing")
  <2>1. k = manager[q]
    BY <1>4, <1>8
  <2> QED  BY <1>6, <1>8, <2>1
<1> QED  BY <1>7, <1>8

LEMMA KeptReleased ==
  ASSUME IInv, KeptInv, NEW r \in Resources, ReleaseResource(r)
  PROVE  KeptInv'
<1>1. UNCHANGED <<mode, memRefs, start>> /\ live' = live \ {r}
  BY DEF ReleaseResource
<1>2. CASE mode # "capturing"
  BY <1>1, <1>2, ReleaseOf, KeptAged
<1>3. CASE mode = "capturing"
  <2> DEFINE k == PreparedIfPostponed(manager[r], gpu[r])
  <2>0. k = PreparedIfPostponed(manager[r], gpu[r])
    OBVIOUS
  <2> HIDE DEF k
  <2>1. IsRecord(manager[r]) /\ KeepsOf(manager[r], r, start[r], memRefs[r])
        /\ manager[r].initial.has \in BOOLEAN /\ manager[r].ref \in References
    BY <1>3, Records DEF IInv, KeptInv
  <2>2. manager[r].postponed => gpu[r] = start[r]
    BY <1>3 DEF IInv, PutOffInv, PutOff
  <2>3. /\ k.ref = manager[r].ref /\ (k.skipped <=> manager[r].skipped) /\ ~k.postponed
        /\ manager[r].postponed => k.initial = Saved(gpu[r])
        /\ ~manager[r].postponed => k.initial = manager[r].initial
    BY <2>0, <2>1, PreparedOf
  <2>4. Saved(gpu[r]).has = TRUE /\ Saved(gpu[r]).data = gpu[r]
    BY DEF Saved
  <2>5. Alike(manager'[r], k)
    BY <1>3, <2>0, ReleaseOf
  <2>6. KeepsOf(manager[r], r, start[r], memRefs[r])'
        /\ manager'[r].ref \in References /\ manager'[r].initial.has \in BOOLEAN
    <3>1. manager[r].postponed => manager[r].initial.has
      BY <2>1 DEF KeepsOf
    <3>2. CASE manager[r].postponed
      BY <1>1, <2>1, <2>2, <2>3, <2>4, <2>5, <3>1, <3>2 DEF KeepsOf, Alike, Single, Tracked
    <3>3. CASE ~manager[r].postponed
      BY <1>1, <2>1, <2>3, <2>5, <3>3 DEF KeepsOf, Alike, Single, Tracked
    <3> QED  BY <3>2, <3>3
  <2>7. ASSUME NEW q \in Resources, q # r
        PROVE  KeepsOf(manager[q], q, start[q], memRefs[q])'
               /\ manager'[q].ref \in References /\ manager'[q].initial.has \in BOOLEAN
    <3>1. KeepsOf(manager[q], q, start[q], memRefs[q]) /\ Alike(manager'[q], manager[q])
          /\ manager[q].ref \in References /\ manager[q].initial.has \in BOOLEAN
      BY <1>3, <2>7, ReleaseOf DEF KeptInv
    <3> QED  BY <1>1, <3>1 DEF KeepsOf, Alike, Single, Tracked
  <2>8. \A q \in Resources :
          KeepsOf(manager[q], q, start[q], memRefs[q])'
          /\ manager'[q].ref \in References /\ manager'[q].initial.has \in BOOLEAN
    BY <2>6, <2>7
  <2> QED  BY <1>1, <1>3, <2>8 DEF KeptInv
<1> QED  BY <1>2, <1>3

LEMMA KeptStarted ==
  ASSUME IInv, KeptInv, DiscardedInv, StartFrameCapture
  PROVE  KeptInv'
<1>1. /\ mode = "background" /\ mode' = "capturing" /\ live' = live /\ start' = gpu /\ queue = <<>>
      /\ \A r \in Resources : manager'[r] = AtStart(r) /\ \A p \in Parts(r) : memRefs'[r][p] = None
  BY DEF StartFrameCapture, Busy, Everywhere, PerRange
<1>2. ASSUME NEW r \in Resources
      PROVE  KeepsOf(manager[r], r, start[r], memRefs[r])'
             /\ manager'[r].ref \in References /\ manager'[r].initial.has \in BOOLEAN
  <2> DEFINE m == [manager[r] EXCEPT !.ref = None]
  <2>1. IsRecord(manager[r]) /\ ~PutOff(manager[r]) /\ ~manager[r].initial.has
        /\ manager[r].initial.has \in BOOLEAN
    BY <1>1, Records DEF IInv, KeptInv
  <2>2. IsRecord(m) /\ m.ref = None /\ ~m.postponed /\ ~m.skipped /\ ~m.initial.has
        /\ m.initial.has \in BOOLEAN /\ m.skip = manager[r].skip
    BY <2>1 DEF IsRecord, Fields, PutOff
  <2>3. None \in References
    BY DEF References, None, CompleteWriteAndDiscard
  <2>4. Empty.has = TRUE /\ Saved(gpu[r]).has = TRUE /\ Saved(gpu[r]).data = gpu[r]
    BY DEF Empty, Saved
  <2>5. \/ AtStart(r) = m /\ r \notin live
        \/ AtStart(r) = [m EXCEPT !.skipped = TRUE] /\ Tracked(r) /\ HasSkippableAge(m)
        \/ AtStart(r) = [m EXCEPT !.postponed = TRUE, !.initial = Empty]
        \/ AtStart(r) = [m EXCEPT !.initial = Saved(gpu[r])]
    BY Zenon DEF AtStart
  <2> HIDE DEF m
  <2>6. CASE AtStart(r) = m /\ r \notin live
    BY <1>1, <2>2, <2>3, <2>6 DEF KeepsOf, Single, Tracked
  <2>7. CASE AtStart(r) = [m EXCEPT !.skipped = TRUE] /\ Tracked(r) /\ HasSkippableAge(m)
    <3>1. manager[r].skip # "none"
      BY <2>2, <2>7 DEF HasSkippableAge
    <3>2. Undefined(gpu[r][1]) /\ Single(r)
      BY <1>1, <2>7, <3>1 DEF DiscardedInv, Discarded, Single
    <3> DEFINE n == [m EXCEPT !.skipped = TRUE]
    <3>3. n.ref = None /\ ~n.postponed /\ n.skipped /\ n.initial = m.initial
      BY <2>2 DEF IsRecord, Fields
    <3>4. manager'[r] = n
      BY <1>1, <2>7
    <3> HIDE DEF n
    <3> QED  BY <3>4, <1>1, <2>2, <2>3, <2>7, <3>2, <3>3 DEF KeepsOf, Single, Tracked, Undefined
  <2>8. CASE AtStart(r) = [m EXCEPT !.postponed = TRUE, !.initial = Empty]
    <3> DEFINE n == [m EXCEPT !.postponed = TRUE, !.initial = Empty]
    <3>1. n.ref = None /\ n.postponed /\ ~n.skipped /\ n.initial = Empty
      BY <2>2 DEF IsRecord, Fields
    <3>4. manager'[r] = n
      BY <1>1, <2>8
    <3> HIDE DEF n
    <3> QED  BY <3>4, <1>1, <2>3, <2>4, <2>8, <3>1 DEF KeepsOf, Single, Tracked
  <2>9. CASE AtStart(r) = [m EXCEPT !.initial = Saved(gpu[r])]
    <3> DEFINE n == [m EXCEPT !.initial = Saved(gpu[r])]
    <3>1. n.ref = None /\ ~n.postponed /\ ~n.skipped /\ n.initial = Saved(gpu[r])
      BY <2>2 DEF IsRecord, Fields
    <3>4. manager'[r] = n
      BY <1>1, <2>9
    <3> HIDE DEF n
    <3> QED  BY <3>4, <1>1, <2>3, <2>4, <2>9, <3>1 DEF KeepsOf, Single, Tracked
  <2> QED  BY <2>5, <2>6, <2>7, <2>8, <2>9
<1> QED  BY <1>1, <1>2 DEF KeptInv

LEMMA KeptFreed ==
  ASSUME IInv, manager' = [r \in Resources |-> Freed(manager[r])], mode' = "background"
  PROVE  KeptInv'
<1>1. ASSUME NEW r \in Resources
      PROVE  /\ ~PutOff(manager'[r]) /\ ~manager'[r].initial.has /\ manager'[r].ref = None
             /\ manager'[r].ref \in References /\ manager'[r].initial.has \in BOOLEAN
  <2> DEFINE n == Freed(manager[r])
  <2>1. n.ref = None /\ n.initial = Absent /\ ~n.postponed /\ ~n.skipped
    BY Records DEF IInv, IsRecord, Fields, Freed
  <2>2. Absent.has = FALSE /\ None \in References
    BY DEF Absent, References, None, CompleteWriteAndDiscard
  <2>3. manager'[r] = n
    OBVIOUS
  <2> HIDE DEF n
  <2> QED  BY <2>1, <2>2, <2>3 DEF PutOff
<1> QED  BY <1>1 DEF KeptInv

LEMMA KeptSubmitted ==
  ASSUME IInv, RecordedInv, MergedInv, KeptInv, Submit, mode = "capturing"
  PROVE  KeptInv'
<1>1. /\ mode' = mode /\ start' = start /\ live' = live
      /\ \A r \in Resources :
           /\ manager'[r] = Marked(Marked(manager[r], r, BoundRefs(r), gpu[r]), r, cb.refs[r], gpu[r])
           /\ \A p \in Parts(r) : memRefs'[r][p] = MergedRef(r, p)
  BY DEF Submit, PerRange
<1>2. cb.cmds \in Seq(Accesses)
  BY DEF IInv, BufferInv
<1>3. ASSUME NEW r \in Resources
      PROVE  KeepsOf(manager[r], r, start[r], memRefs[r])'
             /\ manager'[r].ref \in References /\ manager'[r].initial.has \in BOOLEAN
  <2> DEFINE b     == BoundRefs(r)
             m     == manager[r]
             once  == Marked(m, r, b, gpu[r])
             twice == Marked(once, r, cb.refs[r], gpu[r])
             mid   == [p \in Parts(r) |-> Compose(memRefs[r][p], BoundRef(r, p))]
  <2>1. /\ b \in {None, Read, ReadBeforeWrite}
        /\ b = None => \A p \in Parts(r) : BoundRef(r, p) = None
        /\ b # None => \E i \in 1..Len(cb.cmds) : cb.cmds[i].res = r
    BY <1>2, BoundRefsOf
  <2>2. /\ b \in References /\ ~IsCompleteWrite(b)
        /\ \A p \in Parts(r) : BoundRef(r, p) \in References
    <3>1. {None, Read, ReadBeforeWrite} \subseteq References
      BY DEF References, None, Read, ReadBeforeWrite, CompleteWriteAndDiscard
    <3>2. \A x \in {None, Read, ReadBeforeWrite} : ~IsCompleteWrite(x)
      BY DEF IsCompleteWrite, None, Read, ReadBeforeWrite, CompleteWrite, CompleteWriteAndDiscard
    <3>3. \A p \in Parts(r) : BoundRef(r, p) \in {None, Read, ReadBeforeWrite}
      BY <1>2, BoundRefOf
    <3> QED  BY <2>1, <3>1, <3>2, <3>3
  <2>3. /\ IsRecord(m) /\ m.ref \in References /\ m.initial.has \in BOOLEAN
        /\ KeepsOf(m, r, start[r], memRefs[r])
        /\ PutOff(m) => Tracked(r) /\ gpu[r] = start[r]
    BY Records DEF IInv, KeptInv, ManagerInv, PutOffInv
  <2>4. 1 \in Parts(r) /\ \A p \in Parts(r) : memRefs[r][p] \in References /\ cb.mem[r][p] \in References
    BY RangesPositive DEF MergedInv, IInv, BufferInv
  <2>5. (b # None => r \in live) /\ (cb.refs[r] # None => r \in live) /\ cb.refs[r] \in References
    BY <2>1 DEF RecordedInv, IInv, BufferInv
  <2>6. \A p \in Parts(r) : mid[p] = Compose(memRefs[r][p], BoundRef(r, p)) /\ mid[p] \in References
    BY <2>2, <2>4, ComposeType
  <2>7. \A p \in Parts(r) : memRefs'[r][p] = Compose(mid[p], cb.mem[r][p])
    BY <1>1, <2>6 DEF MergedRef
  <2>8. once = Marked(m, r, b, gpu[r]) /\ twice = Marked(once, r, cb.refs[r], gpu[r]) /\ manager'[r] = twice
    BY <1>1
  <2> HIDE DEF b, m, once, twice, mid
  <2>9. KeepsOf(once, r, start[r], mid) /\ once.ref \in References /\ once.initial.has \in BOOLEAN
    <3>1. b = None => \A p \in Parts(r) : mid[p] = memRefs[r][p]
      BY <2>1, <2>4, <2>6, ComposeUnit
    <3>2. IsCompleteWrite(memRefs[r][1]) => IsCompleteWrite(mid[1])
      BY <2>2, <2>4, <2>6, ComposeComplete
    <3>3. Marking(m, r, start[r], gpu[r], memRefs[r], b, mid)
      BY <2>2, <2>3, <2>5, <3>1, <3>2 DEF Marking
    <3> QED  BY <2>8, <3>3, KeepsMarked
  <2>10. IsRecord(once) /\ (PutOff(once) => PutOff(m))
    BY <2>3, <2>8, MarkedKeeps
  <2>11. KeepsOf(twice, r, start[r], memRefs'[r]) /\ twice.ref \in References /\ twice.initial.has \in BOOLEAN
    <3>1. cb.refs[r] = None => \A p \in Parts(r) : memRefs'[r][p] = mid[p]
      BY <2>6, <2>7, ComposeUnit DEF RecordedInv
    <3>2. IsCompleteWrite(mid[1]) => IsCompleteWrite(memRefs'[r][1])
      BY <2>4, <2>6, <2>7, ComposeComplete
    <3>3. IsCompleteWrite(cb.refs[r]) /\ Single(r) /\ mid[1] = None => IsCompleteWrite(memRefs'[r][1])
      <4>1. Single(r) => cb.refs[r] \in {cb.mem[r][1], Used(cb.mem[r][1])}
        BY DEF RecordedInv
      <4>2. \A x : IsCompleteWrite(Used(x)) => IsCompleteWrite(x)
        BY DEF Used, IsCompleteWrite
      <4>3. mid[1] = None => memRefs'[r][1] = cb.mem[r][1]
        BY <2>4, <2>7, ComposeUnit
      <4> QED  BY <4>1, <4>2, <4>3
    <3>4. PutOff(once) => Tracked(r) /\ gpu[r] = start[r]
      BY <2>3, <2>10
    <3>5. Marking(once, r, start[r], gpu[r], mid, cb.refs[r], memRefs'[r])
      BY <2>5, <2>9, <2>10, <3>1, <3>2, <3>3, <3>4 DEF Marking
    <3> QED  BY <2>8, <3>5, KeepsMarked
  <2>12. KeepsOf(manager[r], r, start[r], memRefs[r])'
    BY <1>1, <2>8, <2>11 DEF KeepsOf, Single, Tracked
  <2> QED  BY <2>8, <2>11, <2>12
<1> QED  BY <1>1, <1>3 DEF KeptInv

LEMMA KeptStep ==
  ASSUME IInv, RecordedInv, MergedInv, KeptInv, DiscardedInv, [Next]_vars
  PROVE  KeptInv'
<1>0. ASSUME UNCHANGED <<mode, manager, memRefs, start, live>>
      PROVE  KeptInv'
  BY <1>0 DEF KeptInv, KeepsOf, Single, Tracked
<1>1. ASSUME NEW a \in Accesses, Record(a)
      PROVE  KeptInv'
  BY <1>0, <1>1 DEF Record
<1>2. CASE Submit
  <2>1. CASE mode = "capturing"
    BY <1>2, <2>1, KeptSubmitted
  <2>2. CASE mode # "capturing"
    <3>1. \A r \in Resources : manager'[r] = UpdateLastWriteTime(manager[r], cb.refs[r])
      BY <1>2, <2>2 DEF Submit
    <3>2. \A r \in Resources : Alike(manager'[r], manager[r])
      BY <3>1, Records, UpdateOf DEF IInv, Alike
    <3> QED  BY <1>2, <2>2, <3>2, KeptAged DEF Submit
  <2> QED  BY <2>1, <2>2
<1>3. CASE Execute
  BY <1>0, <1>3 DEF Execute
<1>4. ASSUME NEW r \in Resources, TimePasses(r)
      PROVE  KeptInv'
  BY <1>4, TimePassesOf, KeptAged DEF TimePasses
<1>5. ASSUME NEW r \in Resources, ReleaseResource(r)
      PROVE  KeptInv'
  BY <1>5, KeptReleased
<1>6. CASE CleanBackgroundFrameReferences
  BY <1>6, CleanOf, KeptAged DEF CleanBackgroundFrameReferences
<1>7. CASE StartFrameCapture
  BY <1>7, KeptStarted
<1>8. CASE EndFrameCapture
  BY <1>8, KeptFreed DEF EndFrameCapture
<1>9. CASE DiscardFrameCapture
  BY <1>9, KeptFreed DEF DiscardFrameCapture
<1>10. ASSUME NEW policy \in Policies, Load(policy)
       PROVE  KeptInv'
  <2>1. mode' = "replaying" /\ \A r \in Resources : manager'[r] = Unknown
    BY <1>10 DEF Load
  <2>2. Unknown.ref \in References /\ Unknown.initial.has \in BOOLEAN
    <3>1. Unknown.ref = None /\ Unknown.initial = Absent
      BY DEF Unknown
    <3>2. None \in References /\ Absent.has = FALSE
      BY DEF Absent, References, None, CompleteWriteAndDiscard
    <3> QED  BY <3>1, <3>2
  <2> QED  BY <2>1, <2>2 DEF KeptInv
<1>11. CASE ApplyInitialContents
  BY <1>0, <1>11 DEF ApplyInitialContents
<1>12. CASE ReplayCommand
  BY <1>0, <1>12 DEF ReplayCommand
<1>13. CASE UNCHANGED vars
  BY <1>0, <1>13 DEF vars
<1> QED  BY <1>1, <1>2, <1>3, <1>4, <1>5, <1>6, <1>7, <1>8, <1>9, <1>10, <1>11, <1>12, <1>13
         DEF Next

-----------------------------------------------------------------------------

\* What was only discarded.
LEMMA DiscardedAged ==
  ASSUME DiscardedInv, mode # "replaying", UNCHANGED <<gpu, queue>>,
         \A r \in Resources : manager'[r].skip # "none" => manager[r].skip # "none"
  PROVE  DiscardedInv'
BY DEF DiscardedInv, Discarded, Tracked, Undefined

LEMMA SubmittedSkip ==
  ASSUME IInv, Submit, mode # "replaying", NEW r \in Resources, Tracked(r)
  PROVE  /\ ~IsDirty(cb.refs[r]) => manager'[r].skip = manager[r].skip
         /\ IsDirty(cb.refs[r]) /\ cb.refs[r] # CompleteWriteAndDiscard => manager'[r].skip = "none"
<1> DEFINE m    == manager[r]
           b    == BoundRefs(r)
           once == Marked(m, r, b, gpu[r])
<1>1. IsRecord(m) /\ cb.cmds \in Seq(Accesses)
  BY Records DEF IInv, BufferInv
<1>2. CASE mode = "capturing"
  <2>1. manager'[r] = Marked(once, r, cb.refs[r], gpu[r])
    BY <1>2 DEF Submit
  <2>2. ~IsDirty(b)
    <3>1. b \in {None, Read, ReadBeforeWrite} /\ b # ReadBeforeWrite
      BY <1>1, BoundRefsOf
    <3> QED  BY <3>1 DEF IsDirty
  <2>3. once = Marked(m, r, b, gpu[r])
    OBVIOUS
  <2> HIDE DEF once, b, m
  <2>4. IsRecord(once) /\ once.skip = m.skip
    <3>1. CASE b = None
      BY <1>1, <2>3, <3>1 DEF Marked
    <3>2. CASE b # None
      BY <1>1, <2>2, <2>3, <3>2, MarkedKeeps, MarkedOf
    <3> QED  BY <3>1, <3>2
  <2>5. CASE cb.refs[r] = None
    <3>1. manager'[r] = once /\ ~IsDirty(cb.refs[r])
      BY <2>1, <2>5 DEF Marked, IsDirty
    <3> QED  BY <2>4, <3>1 DEF m
  <2>6. CASE cb.refs[r] # None
    <3>1. /\ ~IsDirty(cb.refs[r]) => manager'[r].skip = once.skip
          /\ IsDirty(cb.refs[r]) /\ cb.refs[r] # CompleteWriteAndDiscard => manager'[r].skip = "none"
      BY <2>1, <2>4, <2>6, MarkedOf
    <3> QED  BY <2>4, <3>1 DEF m
  <2> QED  BY <2>5, <2>6
<1>3. CASE mode # "capturing"
  <2>1. manager'[r] = UpdateLastWriteTime(m, cb.refs[r])
    BY <1>3 DEF Submit
  <2> HIDE DEF m
  <2>2. /\ ~IsDirty(cb.refs[r]) => manager'[r].skip = m.skip
        /\ IsDirty(cb.refs[r]) /\ cb.refs[r] # CompleteWriteAndDiscard => manager'[r].skip = "none"
    BY <1>1, <2>1, UpdateOf
  <2> QED  BY <2>2 DEF m
<1> QED  BY <1>2, <1>3

LEMMA DiscardedSubmitted ==
  ASSUME IInv, RecordedInv, DiscardedInv, Submit
  PROVE  DiscardedInv'
<1>1. mode # "replaying" /\ queue = <<>> /\ queue' = cb.cmds /\ gpu' = gpu /\ mode' = mode
  BY DEF Submit, Busy
<1>2. ASSUME NEW r \in Resources, Tracked(r), manager'[r].skip # "none"
      PROVE  Ranges[r] = 1 /\ Discarded(r)'
  <2>1. CASE ~IsDirty(cb.refs[r])
    <3>1. manager[r].skip # "none"
      BY <1>1, <1>2, <2>1, SubmittedSkip
    <3>2. Undefined(gpu[r][1]) /\ Single(r)
      BY <1>1, <1>2, <3>1 DEF DiscardedInv, Discarded, Single
    <3>3. ASSUME NEW i \in 1..Len(cb.cmds), cb.cmds[i].res = r
          PROVE  cb.cmds[i].ref = Read
      <4>1. ~IsDirty(cb.cmds[i].ref)
        BY <2>1, <3>2, <3>3 DEF IInv, BufferInv
      <4>2. cb.cmds[i] \in Accesses
        BY DEF IInv, BufferInv
      <4>3. cb.cmds[i].ref # None
        BY <4>2, AccessesValid DEF Access
      <4> QED  BY <4>1, <4>3 DEF IsDirty
    <3> QED  BY <1>1, <3>2, <3>3 DEF Discarded, Undefined, Single
  <2>2. CASE cb.refs[r] = CompleteWriteAndDiscard
    BY <1>1, <1>2, <2>2 DEF RecordedInv, Discarded
  <2> QED  BY <1>1, <1>2, <2>1, <2>2, SubmittedSkip
<1> QED  BY <1>1, <1>2 DEF DiscardedInv, Tracked

LEMMA DiscardedExecuted ==
  ASSUME IInv, DiscardedInv, Execute
  PROVE  DiscardedInv'
<1> DEFINE a    == Head(queue)
           seen == gpu[a.res][a.part]
           new  == Written(seen, a.ref, Len(script) + 1)
<1>1. queue \in Seq(Accesses) /\ queue # <<>> /\ queue' = Tail(queue) /\ manager' = manager
      /\ mode # "replaying"
  BY DEF Execute, IInv, PutOffInv
<1>2. a = queue[1] /\ 1 \in 1..Len(queue) /\ a \in Accesses /\ Access(a)
  BY <1>1, AccessesValid
<1>3. \A i \in 1..Len(queue') : i + 1 \in 1..Len(queue) /\ queue'[i] = queue[i + 1]
  BY <1>1
<1>4. \A i \in 1..Len(queue) : i # 1 => i - 1 \in 1..Len(queue') /\ queue'[i - 1] = queue[i]
  BY <1>1
<1>5. ASSUME NEW r \in Resources, Tracked(r), manager[r].skip # "none"
      PROVE  Ranges[r] = 1 /\ Discarded(r)'
  <2>1. /\ Ranges[r] = 1
        /\ \A i \in 1..Len(queue) : queue[i].res = r => queue[i].ref \in {Read, CompleteWriteAndDiscard}
        /\ \/ Undefined(gpu[r][1])
           \/ \E i \in 1..Len(queue) : queue[i].res = r /\ queue[i].ref = CompleteWriteAndDiscard
    BY <1>1, <1>5 DEF DiscardedInv, Discarded
  <2>2. \A i \in 1..Len(queue') : queue'[i].res = r => queue'[i].ref \in {Read, CompleteWriteAndDiscard}
    BY <1>3, <2>1
  <2>3. CASE a.res # r
    <3>1. gpu'[r] = gpu[r]
      <4>1. gpu' = [gpu EXCEPT ![a.res][a.part] = new] \/ gpu' = [gpu EXCEPT ![a.res][a.part] = Settled(new)]
        BY DEF Execute
      <4> HIDE DEF new
      <4> QED  BY <2>3, <4>1 DEF IInv, ContentsInv
    <3>2. CASE Undefined(gpu[r][1])
      BY <2>1, <2>2, <3>1, <3>2 DEF Discarded, Undefined
    <3>3. CASE ~Undefined(gpu[r][1])
      <4>1. PICK i \in 1..Len(queue) : queue[i].res = r /\ queue[i].ref = CompleteWriteAndDiscard
        BY <2>1, <3>3
      <4>2. i # 1
        BY <1>2, <2>3, <4>1
      <4>3. i - 1 \in 1..Len(queue') /\ queue'[i - 1].res = r /\ queue'[i - 1].ref = CompleteWriteAndDiscard
        BY <1>4, <4>1, <4>2
      <4> QED  BY <2>1, <2>2, <4>3 DEF Discarded
    <3> QED  BY <3>2, <3>3
  <2>4. CASE a.res = r
    <3>1. a.part = 1
      BY <1>2, <2>1, <2>4 DEF Access, Parts
    <3>2. gpu'[r][1] = new \/ gpu'[r][1] = Settled(new)
      <4>1. gpu' = [gpu EXCEPT ![a.res][a.part] = new] \/ gpu' = [gpu EXCEPT ![a.res][a.part] = Settled(new)]
        BY DEF Execute
      <4>2. gpu = [q \in Resources |-> gpu[q]] /\ gpu[r] = [p \in Parts(r) |-> gpu[r][p]] /\ 1 \in Parts(r)
        BY RangesPositive DEF IInv, ContentsInv
      <4> HIDE DEF new, a
      <4> QED  BY <2>4, <3>1, <4>1, <4>2
    <3>3. a.ref \in {Read, CompleteWriteAndDiscard}
      BY <1>2, <2>1, <2>4
    <3>4. Settled(Fresh(Junk)) = Fresh(Junk)
      BY DEF Settled
    <3>5. CASE a.ref = CompleteWriteAndDiscard
      <4>1. new = Fresh(Junk)
        BY <3>5, WrittenIs
      <4> QED  BY <2>1, <2>2, <3>2, <3>4, <4>1 DEF Discarded, Undefined
    <3>6. CASE a.ref = Read
      <4>1. new = gpu[r][1]
        BY <2>4, <3>1, <3>6, WrittenIs
      <4>2. CASE Undefined(gpu[r][1])
        BY <2>1, <2>2, <3>2, <3>4, <4>1, <4>2 DEF Discarded, Undefined
      <4>3. CASE ~Undefined(gpu[r][1])
        <5>1. PICK i \in 1..Len(queue) : queue[i].res = r /\ queue[i].ref = CompleteWriteAndDiscard
          BY <2>1, <4>3
        <5>2. i # 1
          BY <1>2, <3>6, <5>1 DEF Read, CompleteWriteAndDiscard
        <5>3. i - 1 \in 1..Len(queue') /\ queue'[i - 1].res = r /\ queue'[i - 1].ref = CompleteWriteAndDiscard
          BY <1>4, <5>1, <5>2
        <5> QED  BY <2>1, <2>2, <5>3 DEF Discarded
      <4> QED  BY <4>2, <4>3
    <3> QED  BY <3>3, <3>5, <3>6
  <2> QED  BY <2>3, <2>4
<1> QED  BY <1>1, <1>5 DEF DiscardedInv, Tracked

LEMMA DiscardedFreed ==
  ASSUME IInv, DiscardedInv, manager' = [r \in Resources |-> Freed(manager[r])],
         gpu' = [r \in Resources |-> [p \in Parts(r) |-> Settled(gpu[r][p])]],
         mode # "replaying", queue = <<>>, queue' = queue
  PROVE  DiscardedInv'
<1>1. ASSUME NEW r \in Resources, Tracked(r), manager'[r].skip # "none"
      PROVE  Ranges[r] = 1 /\ Discarded(r)'
  <2>1. manager'[r].skip = manager[r].skip
    <3>1. Freed(manager[r]).skip = manager[r].skip
      BY Records DEF IInv, IsRecord, Fields, Freed
    <3> QED  BY <3>1
  <2>2. Ranges[r] = 1 /\ Undefined(gpu[r][1])
    BY <1>1, <2>1 DEF DiscardedInv, Discarded
  <2>3. gpu'[r][1] = Fresh(Junk)
    BY <2>2, RangesPositive DEF Undefined, Settled
  <2> QED  BY <2>2, <2>3 DEF Discarded, Undefined
<1> QED  BY <1>1 DEF DiscardedInv, Tracked

LEMMA DiscardedStep ==
  ASSUME IInv, RecordedInv, DiscardedInv, [Next]_vars
  PROVE  DiscardedInv'
<1>0. ASSUME UNCHANGED <<mode, manager, gpu, queue>>
      PROVE  DiscardedInv'
  BY <1>0 DEF DiscardedInv, Discarded, Tracked, Undefined
<1>1. ASSUME NEW a \in Accesses, Record(a)
      PROVE  DiscardedInv'
  BY <1>0, <1>1 DEF Record
<1>2. CASE Submit
  BY <1>2, DiscardedSubmitted
<1>3. CASE Execute
  BY <1>3, DiscardedExecuted
<1>4. ASSUME NEW r \in Resources, TimePasses(r)
      PROVE  DiscardedInv'
  <2>1. \A q \in Resources : manager'[q].skip # "none" => manager[q].skip # "none"
    BY <1>4, TimePassesOf
  <2> QED  BY <1>4, <2>1, DiscardedAged DEF TimePasses
<1>5. ASSUME NEW r \in Resources, ReleaseResource(r)
      PROVE  DiscardedInv'
  <2>1. \A q \in Resources : manager'[q].skip # "none" => manager[q].skip # "none"
    BY <1>5, ReleaseOf
  <2> QED  BY <1>5, <2>1, DiscardedAged DEF ReleaseResource, Busy
<1>6. CASE CleanBackgroundFrameReferences
  <2>1. \A q \in Resources : manager'[q].skip # "none" => manager[q].skip # "none"
    BY <1>6, CleanOf
  <2> QED  BY <1>6, <2>1, DiscardedAged DEF CleanBackgroundFrameReferences
<1>7. CASE StartFrameCapture
  <2>1. ASSUME NEW r \in Resources
        PROVE  manager'[r].skip = manager[r].skip
    <3> DEFINE m == [manager[r] EXCEPT !.ref = None]
    <3>1. IsRecord(m) /\ m.skip = manager[r].skip
      BY Records DEF IInv, IsRecord, Fields
    <3>2. manager'[r] = AtStart(r)
      BY <1>7 DEF StartFrameCapture
    <3>3. \/ AtStart(r) = m
          \/ AtStart(r) = [m EXCEPT !.skipped = TRUE]
          \/ AtStart(r) = [m EXCEPT !.postponed = TRUE, !.initial = Empty]
          \/ AtStart(r) = [m EXCEPT !.initial = Saved(gpu[r])]
      BY Zenon DEF AtStart
    <3> HIDE DEF m
    <3> QED  BY <3>1, <3>2, <3>3 DEF IsRecord, Fields
  <2> QED  BY <1>7, <2>1, DiscardedAged DEF StartFrameCapture
<1>8. CASE EndFrameCapture
  <2>1. gpu' = [r \in Resources |-> [p \in Parts(r) |-> Settled(gpu[r][p])]]
    BY <1>8 DEF EndFrameCapture, PerRange
  <2> QED  BY <1>8, <2>1, DiscardedFreed DEF EndFrameCapture, Busy
<1>9. CASE DiscardFrameCapture
  <2>1. gpu' = [r \in Resources |-> [p \in Parts(r) |-> Settled(gpu[r][p])]]
    BY <1>9 DEF DiscardFrameCapture, PerRange
  <2> QED  BY <1>9, <2>1, DiscardedFreed DEF DiscardFrameCapture, Busy
<1>10. ASSUME NEW policy \in Policies, Load(policy)
       PROVE  DiscardedInv'
  BY <1>10 DEF Load, DiscardedInv
<1>11. CASE ApplyInitialContents
  BY <1>0, <1>11 DEF ApplyInitialContents
<1>12. CASE ReplayCommand
  BY <1>0, <1>12 DEF ReplayCommand
<1>13. CASE UNCHANGED vars
  BY <1>0, <1>13 DEF vars
<1> QED  BY <1>1, <1>2, <1>3, <1>4, <1>5, <1>6, <1>7, <1>8, <1>9, <1>10, <1>11, <1>12, <1>13
         DEF Next

-----------------------------------------------------------------------------

LEMMA FileTaken ==
  ASSUME IInv, MergedInv, KeptInv, StoryInv, EndFrameCapture
  PROVE  FileInv'
<1> DEFINE kept   == {r \in Referenced : manager[r].initial.has}
           needed == kept \cup {r \in Referenced : IsDirty(manager[r].ref)}
<1>1. /\ file' = [taken |-> TRUE, initial |-> [r \in kept |-> Contents(r)], needed |-> needed,
                  refs |-> memRefs, script |-> script, start |-> start]
      /\ mode = "capturing" /\ queue = <<>>
  BY DEF EndFrameCapture, Busy
<1>2. kept \subseteq needed /\ needed \subseteq Resources
  BY DEF Referenced
<1>3. \A r \in Resources :
        /\ r \in kept <=> manager[r].ref # None /\ manager[r].initial.has
        /\ r \in needed <=> manager[r].ref # None /\ (manager[r].initial.has \/ IsDirty(manager[r].ref))
  BY DEF Referenced
<1> HIDE DEF kept, needed
<1>4. /\ DOMAIN file'.initial = kept /\ \A r \in kept : file'.initial[r] = Contents(r)
      /\ file'.needed = needed /\ file'.refs = memRefs /\ file'.script = script /\ file'.start = start
  BY <1>1
<1>5. Story(script, start)
  BY <1>1 DEF StoryInv
<1>6. ASSUME NEW r \in Resources
      PROVE  /\ KeepsOf(manager[r], r, start[r], memRefs[r])
             /\ manager[r].postponed => gpu[r] = start[r]
  BY <1>1 DEF KeptInv, IInv, PutOffInv, PutOff
<1>7. ASSUME NEW r \in kept
      PROVE  Contents(r) = start[r]
  <2>1. r \in Resources /\ manager[r].initial.has
    BY <1>2, <1>3
  <2> QED  BY <1>6, <2>1 DEF KeepsOf, Contents
<1>8. Frame = Commands(script)
  <2>1. Log(script)
    BY <1>5 DEF Story, Log
  <2> QED  BY <1>1, <2>1, FrameSubmitted DEF Frame
<1>9. \A r \in Resources : \A p \in Parts(r) :
        memRefs[r][p] \in References /\ Claims(memRefs[r][p], Commands(script), Positions(Commands(script), r, p))
  BY <1>1, <1>8 DEF MergedInv
<1>10. ASSUME NEW r \in Resources, NEW p \in Parts(r), r \notin needed
       PROVE  Positions(Commands(script), r, p) = {}
  <2>1. manager[r].ref = None
    BY <1>3, <1>6, <1>10 DEF KeepsOf
  <2>2. memRefs[r][p] = None
    BY <1>6, <2>1 DEF KeepsOf
  <2> QED  BY <1>9, <2>2 DEF Claims
<1>11. ASSUME NEW r \in Resources, r \in needed \ kept
       PROVE  Single(r) /\ IsCompleteWrite(memRefs[r][1]) /\ Undefined(start[r][1])
  <2>1. manager[r].ref # None /\ ~manager[r].initial.has
    BY <1>3, <1>11
  <2> QED  BY <1>6, <2>1 DEF KeepsOf
<1>12. /\ \A r \in kept : file'.initial[r] = file'.start[r]
       /\ DOMAIN file'.initial \subseteq file'.needed /\ file'.needed \subseteq Resources
       /\ Story(file'.script, file'.start)
  BY <1>2, <1>4, <1>5, <1>7
<1>13. \A r \in Resources :
         /\ \A p \in Parts(r) :
              /\ file'.refs[r][p] \in References
              /\ Claims(file'.refs[r][p], Commands(file'.script), Positions(Commands(file'.script), r, p))
              /\ r \notin file'.needed => Positions(Commands(file'.script), r, p) = {}
         /\ r \in file'.needed \ DOMAIN file'.initial =>
              Single(r) /\ IsCompleteWrite(file'.refs[r][1]) /\ Undefined(file'.start[r][1])
  BY <1>4, <1>9, <1>10, <1>11
<1> QED  BY <1>4, <1>12, <1>13 DEF FileInv, Single, Tracked

LEMMA FileKept ==
  ASSUME FileInv, file' = file
  PROVE  FileInv'
BY DEF FileInv, Single, Tracked

LEMMA FileStep ==
  ASSUME IInv, MergedInv, KeptInv, StoryInv, FileInv, [Next]_vars
  PROVE  FileInv'
<1>1. CASE EndFrameCapture
  BY <1>1, FileTaken
<1>2. CASE file' = file
  BY <1>2, FileKept
<1> QED  BY <1>1, <1>2 DEF Next, vars, Record, Submit, Execute, TimePasses, ReleaseResource,
         CleanBackgroundFrameReferences, StartFrameCapture, DiscardFrameCapture, Load,
         ApplyInitialContents, ReplayCommand

-----------------------------------------------------------------------------
(* The replay.                                                               *)

\* What a reference of the file says of the captured commands of its range.
Summed(ref, s, r, p) ==
  /\ ref = None => \A i \in 1..Len(s) : ~Touches(s[i].cmd, r, p)
  /\ ref = PartialWrite => \A i \in 1..Len(s) : Touches(s[i].cmd, r, p) => s[i].cmd.ref = PartialWrite
  /\ ref = Read => \A i \in 1..Len(s) : Touches(s[i].cmd, r, p) => s[i].cmd.ref = Read
  /\ IsCompleteWrite(ref) =>
       \E d \in 1..Len(s) :
         /\ Touches(s[d].cmd, r, p) /\ IsCompleteWrite(s[d].cmd.ref)
         /\ \A i \in 1..Len(s) : Touches(s[i].cmd, r, p) /\ IncludesRead(s[i].cmd.ref) => d < i
  /\ ref = WriteBeforeRead =>
       /\ \A i \in 1..Len(s) : Touches(s[i].cmd, r, p) => s[i].cmd.ref \in {PartialWrite, Read}
       /\ \A d, i \in 1..Len(s) :
            /\ Touches(s[d].cmd, r, p) /\ s[d].cmd.ref = PartialWrite
            /\ Touches(s[i].cmd, r, p) /\ s[i].cmd.ref = Read
            => d < i

LEMMA FileSays ==
  ASSUME FileInv, file.taken, NEW r \in Resources, NEW p \in Parts(r),
         NEW s, s = file.script, NEW ref, ref = file.refs[r][p]
  PROVE  Log(s) /\ Len(s) \in Nat /\ ref \in References /\ Summed(ref, s, r, p)
<1> DEFINE cmds == Commands(s)
           P    == Positions(cmds, r, p)
<1>1. Log(s) /\ ref \in References /\ Claims(ref, cmds, P)
  BY DEF FileInv, Story, Log
<1>2. Len(s) \in Nat /\ Len(cmds) = Len(s) /\ \A i \in 1..Len(s) : cmds[i] = s[i].cmd
  BY <1>1, CommandsOf
<1>3. \A i : i \in P <=> i \in 1..Len(s) /\ Touches(s[i].cmd, r, p)
  BY <1>2 DEF Positions
<1> HIDE DEF cmds, P
<1>4. \A i \in P : i \in 1..Len(s) /\ Touches(s[i].cmd, r, p) /\ cmds[i].ref = s[i].cmd.ref
  BY <1>2, <1>3
<1>5. ref = None => \A i \in 1..Len(s) : ~Touches(s[i].cmd, r, p)
  BY <1>1, <1>3 DEF Claims
<1>6. ref = PartialWrite => \A i \in 1..Len(s) : Touches(s[i].cmd, r, p) => s[i].cmd.ref = PartialWrite
  BY <1>1, <1>3, <1>4 DEF Claims
<1>7. ref = Read => \A i \in 1..Len(s) : Touches(s[i].cmd, r, p) => s[i].cmd.ref = Read
  BY <1>1, <1>3, <1>4 DEF Claims
<1>8. ASSUME IsCompleteWrite(ref)
      PROVE  \E d \in 1..Len(s) :
               /\ Touches(s[d].cmd, r, p) /\ IsCompleteWrite(s[d].cmd.ref)
               /\ \A i \in 1..Len(s) : Touches(s[i].cmd, r, p) /\ IncludesRead(s[i].cmd.ref) => d < i
  <2>1. PICK d \in P : IsCompleteWrite(cmds[d].ref) /\ \A i \in P : IncludesRead(cmds[i].ref) => d < i
    BY <1>1, <1>8 DEF Claims
  <2>2. \A i \in 1..Len(s) : Touches(s[i].cmd, r, p) /\ IncludesRead(s[i].cmd.ref) => d < i
    BY <1>3, <1>4, <2>1
  <2> QED  BY <1>4, <2>1, <2>2
<1>9. ASSUME ref = WriteBeforeRead
      PROVE  /\ \A i \in 1..Len(s) : Touches(s[i].cmd, r, p) => s[i].cmd.ref \in {PartialWrite, Read}
             /\ \A d, i \in 1..Len(s) :
                  /\ Touches(s[d].cmd, r, p) /\ s[d].cmd.ref = PartialWrite
                  /\ Touches(s[i].cmd, r, p) /\ s[i].cmd.ref = Read
                  => d < i
  <2>1. /\ \A i \in P : cmds[i].ref \in {PartialWrite, Read}
        /\ \A d, i \in P : cmds[d].ref = PartialWrite /\ cmds[i].ref = Read => d < i
    BY <1>1, <1>9 DEF Claims
  <2> QED  BY <1>3, <1>4, <2>1
<1> QED  BY <1>1, <1>2, <1>5, <1>6, <1>7, <1>8, <1>9 DEF Summed

LEMMA SeesNow ==
  ASSUME NEW s, Len(s) \in Nat, NEW r, NEW p, NEW k \in 1..Len(s), NEW c, SeesNext(s, r, p, k, c),
         Touches(s[k].cmd, r, p)
  PROVE  s[k].saw = c
<1>1. k \in k..Len(s) /\ k..k - 1 = {}
  OBVIOUS
<1> QED  BY <1>1 DEF SeesNext

LEMMA SeesLater ==
  ASSUME NEW s, Len(s) \in Nat, NEW st, Chain(s, st), NEW r, NEW p, NEW k \in 1..Len(s), NEW c, NEW d,
         Touches(s[k].cmd, r, p) => d = Written(s[k].saw, s[k].cmd.ref, k),
         ~Touches(s[k].cmd, r, p) => d = c /\ SeesNext(s, r, p, k, c)
  PROVE  SeesNext(s, r, p, k + 1, d)
<1>1. CASE Touches(s[k].cmd, r, p)
  <2>1. SeesNext(s, s[k].cmd.res, s[k].cmd.part, k + 1, Written(s[k].saw, s[k].cmd.ref, k))
    BY DEF Chain
  <2>2. s[k].cmd.res = r /\ s[k].cmd.part = p
    BY <1>1 DEF Touches
  <2> QED  BY <1>1, <2>1, <2>2
<1>2. CASE ~Touches(s[k].cmd, r, p)
  <2> SUFFICES ASSUME NEW n \in k + 1..Len(s), Touches(s[n].cmd, r, p),
                      \A i \in k + 1..n - 1 : ~Touches(s[i].cmd, r, p)
               PROVE  s[n].saw = d
    BY DEF SeesNext
  <2>1. \A i \in k..n - 1 : i = k \/ i \in k + 1..n - 1
    OBVIOUS
  <2>2. n \in k..Len(s)
    OBVIOUS
  <2>3. \A i \in k..n - 1 : ~Touches(s[i].cmd, r, p)
    BY <1>2, <2>1
  <2>4. s[n].saw = c
    BY <1>2, <2>2, <2>3 DEF SeesNext
  <2> QED  BY <1>2, <2>4
<1> QED  BY <1>1, <1>2

\* Writing over the writes of an earlier run puts them in their order once more.
LEMMA RelayeredStep ==
  ASSUME NEW c, NEW st, NEW W \in SUBSET Nat, NEW k \in Nat, NEW d, Relayered(c, st, W, k),
         k \in W => d = WrittenOver(c, k), k \notin W => d = c
  PROVE  Relayered(d, st, W, k + 1)
<1>0. /\ c = [base |-> st.base, over |-> c.over]
      /\ c.over \subseteq W \X W
      /\ \A e \in c.over : <<e[1], e[1]>> \in c.over /\ <<e[2], e[2]>> \in c.over
      /\ \A v \in W : v < k =>
           /\ <<v, v>> \in c.over
           /\ \A u \in W : <<u, u>> \in c.over => (<<u, v>> \in c.over <=> u >= k \/ u <= v)
  BY DEF Relayered
<1>1. CASE k \notin W
  <2>1. d = c
    BY <1>1
  <2>2. \A v \in W : v \in Nat /\ v # k
    BY <1>1
  <2>3. \A v \in W : (v < k + 1 <=> v < k) /\ (v >= k + 1 <=> v >= k)
    BY <2>2
  <2>4. \A v \in W : v < k + 1 =>
          /\ <<v, v>> \in c.over
          /\ \A u \in W : <<u, u>> \in c.over => (<<u, v>> \in c.over <=> u >= k + 1 \/ u <= v)
    BY <1>0, <2>3
  <2> QED  BY <1>0, <2>1, <2>4 DEF Relayered
<1>2. CASE k \in W
  <2> DEFINE others == {e \in c.over : k \notin {e[1], e[2]}}
             over   == others \cup {<<e[1], k>> : e \in others} \cup {<<k, k>>}
  <2>1. d = [base |-> st.base, over |-> over]
    BY <1>0, <1>2 DEF WrittenOver
  <2>2. \A e \in others : /\ e \in c.over /\ e[1] # k /\ e[2] # k /\ e \in W \X W
                          /\ <<e[1], e[1]>> \in others /\ <<e[2], e[2]>> \in others
    BY <1>0
  <2>3. \A e \in over : e \in others \/ e = <<k, k>> \/ \E o \in others : e = <<o[1], k>>
    OBVIOUS
  <2>4. others \subseteq over /\ <<k, k>> \in over /\ \A o \in others : <<o[1], k>> \in over
    OBVIOUS
  <2>5. \A u, v \in Nat : <<u, v>> \in others <=> <<u, v>> \in c.over /\ u # k /\ v # k
    OBVIOUS
  <2> HIDE DEF others, over
  <2>6. ASSUME NEW e \in over
        PROVE  e \in W \X W /\ <<e[1], e[1]>> \in over /\ <<e[2], e[2]>> \in over
    <3>1. CASE e \in others
      BY <2>2, <2>4, <3>1
    <3>2. CASE e = <<k, k>>
      BY <1>2, <2>4, <3>2
    <3>3. ASSUME NEW o \in others, e = <<o[1], k>>
          PROVE  e \in W \X W /\ <<e[1], e[1]>> \in over /\ <<e[2], e[2]>> \in over
      <4>1. o[1] \in W /\ <<o[1], o[1]>> \in over
        BY <2>2, <2>4
      <4>2. e[1] = o[1] /\ e[2] = k
        BY <3>3
      <4> QED  BY <1>2, <2>4, <3>3, <4>1, <4>2
    <3> QED  BY <2>3, <3>1, <3>2, <3>3
  <2>7. \A u, v \in Nat : v # k => (<<u, v>> \in over <=> <<u, v>> \in others)
    <3> SUFFICES ASSUME NEW u \in Nat, NEW v \in Nat, v # k, <<u, v>> \in over
                 PROVE  <<u, v>> \in others
      BY <2>4
    <3>1. <<u, v>> # <<k, k>> /\ \A o \in others : <<u, v>> # <<o[1], k>>
      OBVIOUS
    <3> QED  BY <2>3, <3>1
  <2>8. ASSUME NEW v \in W, v < k + 1
        PROVE  /\ <<v, v>> \in over
               /\ \A u \in W : <<u, u>> \in over => (<<u, v>> \in over <=> u >= k + 1 \/ u <= v)
    <3>0. v \in Nat
      OBVIOUS
    <3>1. CASE v = k
      <4>1. ASSUME NEW u \in W, <<u, u>> \in over
            PROVE  <<u, k>> \in over
        <5>1. CASE u = k
          BY <2>4, <5>1
        <5>2. CASE u # k
          <6>1. <<u, u>> \in others /\ <<u, u>>[1] = u
            BY <2>7, <4>1, <5>2
          <6> QED  BY <2>4, <6>1
        <5> QED  BY <5>1, <5>2
      <4>2. \A u \in W : u >= k + 1 \/ u <= k
        OBVIOUS
      <4> QED  BY <2>4, <3>1, <4>1, <4>2
    <3>2. CASE v # k
      <4>1. v < k
        BY <2>8, <3>0, <3>2
      <4>2. <<v, v>> \in c.over
        BY <1>0, <4>1
      <4>3. <<v, v>> \in over
        BY <2>4, <2>5, <3>0, <3>2, <4>2
      <4>4. ASSUME NEW u \in W, <<u, u>> \in over
            PROVE  <<u, v>> \in over <=> u >= k + 1 \/ u <= v
        <5>1. CASE u = k
          <6>1. <<u, v>> \notin over
            BY <2>5, <2>7, <3>0, <3>2, <5>1
          <6> QED  BY <3>0, <4>1, <5>1, <6>1
        <5>2. CASE u # k
          <6>1. <<u, u>> \in c.over
            BY <2>5, <2>7, <4>4, <5>2
          <6>2. <<u, v>> \in c.over <=> u >= k \/ u <= v
            BY <1>0, <4>1, <6>1
          <6>3. <<u, v>> \in over <=> <<u, v>> \in c.over
            BY <2>5, <2>7, <3>0, <3>2, <5>2
          <6>4. u >= k <=> u >= k + 1
            BY <5>2
          <6> QED  BY <6>2, <6>3, <6>4
        <5> QED  BY <5>1, <5>2
      <4> QED  BY <4>3, <4>4
    <3> QED  BY <3>1, <3>2
  <2>9. d.over = over /\ d.base = st.base
    BY <2>1
  <2> QED  BY <2>1, <2>6, <2>8, <2>9 DEF Relayered
<1> QED  BY <1>1, <1>2

LEMMA RelayeredAll ==
  ASSUME NEW c, NEW st, NEW W \in SUBSET Nat, NEW k \in Nat, Relayered(c, st, W, k), \A v \in W : v < k
  PROVE  c = Layers(st, W)
<1>1. /\ c = [base |-> st.base, over |-> c.over]
      /\ c.over \subseteq W \X W
      /\ \A v \in W : <<v, v>> \in c.over /\ \A u \in W : <<u, v>> \in c.over <=> u <= v
  BY DEF Relayered
<1>2. \A e \in W \X W : e \in c.over <=> e[1] <= e[2]
  <2>1. \A u, v \in W : <<u, v>> \in c.over <=> u <= v
    BY <1>1
  <2>2. \A e \in W \X W : e = <<e[1], e[2]>> /\ e[1] \in W /\ e[2] \in W
    OBVIOUS
  <2> QED  BY <2>1, <2>2
<1>3. c.over = {e \in W \X W : e[1] <= e[2]}
  BY <1>1, <1>2
<1> QED  BY <1>1, <1>3 DEF Layers

-----------------------------------------------------------------------------

LEMMA WrittenAgain ==
  ASSUME NEW c, NEW d, NEW ref, IsCompleteWrite(ref), NEW k
  PROVE  Written(c, ref, k) = Written(d, ref, k)
BY WrittenIs DEF IsCompleteWrite

\* A command leaves what the reference says that a range holds.
LEMMA ReplayedRight ==
  ASSUME FileInv, file.taken, NEW r \in Resources, NEW p \in Parts(r), NEW k \in 1..Len(file.script),
         NEW c, ReplaysRight(r, p, k, c),
         NEW a, a = file.script[k].cmd,
         NEW d, Touches(a, r, p) => d = Written(c, a.ref, k), ~Touches(a, r, p) => d = c
  PROVE  ReplaysRight(r, p, k + 1, d)
<1> DEFINE ref == file.refs[r][p]
           st  == file.start[r][p]
           s   == file.script
           W   == WritesBefore(s, r, p, Len(s) + 1)
<1>1. /\ ref = None => c = IF r \in Images \/ replay.policy \in {"NoOpt", "CopyAll"} THEN st ELSE Fresh(Zero)
      /\ ref = Read => c = st
      /\ ref = ReadBeforeWrite => SeesNext(s, r, p, k, c)
      /\ ref = WriteBeforeRead => Relayered(c, st, W, k)
      /\ IsCompleteWrite(ref) /\ (\E j \in 1..k - 1 : Touches(s[j].cmd, r, p) /\ IsCompleteWrite(s[j].cmd.ref))
           => SeesNext(s, r, p, k, c)
  BY DEF ReplaysRight
<1>2. Len(s) \in Nat /\ Chain(s, file.start) /\ k \in 1..Len(s) /\ a = s[k].cmd
  BY FileSays DEF FileInv, Story
<1>3. /\ ref = None => \A i \in 1..Len(s) : ~Touches(s[i].cmd, r, p)
      /\ ref = Read => \A i \in 1..Len(s) : Touches(s[i].cmd, r, p) => s[i].cmd.ref = Read
      /\ ref = WriteBeforeRead =>
           \A i \in 1..Len(s) : Touches(s[i].cmd, r, p) => s[i].cmd.ref \in {PartialWrite, Read}
  <2>1. Summed(ref, s, r, p)
    BY FileSays
  <2> QED  BY <2>1 DEF Summed
<1>4. \A i : i \in W <=> i \in 1..Len(s) /\ Touches(s[i].cmd, r, p) /\ IncludesWrite(s[i].cmd.ref)
  <2>1. Len(s) + 1 - 1 = Len(s)
    BY <1>2
  <2> QED  BY <2>1 DEF WritesBefore
<1> HIDE DEF ref, st, s, W
<1>5. ref = None => d = IF r \in Images \/ replay.policy \in {"NoOpt", "CopyAll"} THEN st ELSE Fresh(Zero)
  BY <1>1, <1>2, <1>3
<1>6. ASSUME ref = Read
      PROVE  d = st
  <2>1. Touches(a, r, p) => a.ref = Read
    BY <1>2, <1>3, <1>6
  <2>2. Touches(a, r, p) => d = c
    BY <2>1, WrittenIs
  <2> QED  BY <1>1, <1>6, <2>2
<1>7. ASSUME SeesNext(s, r, p, k, c)
      PROVE  SeesNext(s, r, p, k + 1, d)
  <2>1. Touches(a, r, p) => d = Written(s[k].saw, a.ref, k)
    BY <1>2, <1>7, SeesNow
  <2> QED  BY <1>2, <1>7, <2>1, SeesLater
<1>8. ASSUME ref = WriteBeforeRead
      PROVE  Relayered(d, st, W, k + 1)
  <2>1. Touches(a, r, p) => a.ref \in {PartialWrite, Read}
    BY <1>2, <1>3, <1>8
  <2>2. k \in W <=> Touches(a, r, p) /\ a.ref = PartialWrite
    BY <1>2, <1>4, <2>1 DEF IncludesWrite, PartialWrite, Read, None
  <2>3. k \in W => d = WrittenOver(c, k)
    BY <2>2, WrittenIs
  <2>4. k \notin W => d = c
    BY <2>1, <2>2, WrittenIs
  <2>5. W \in SUBSET Nat /\ k \in Nat
    BY <1>2, <1>4
  <2> QED  BY <1>1, <1>8, <2>3, <2>4, <2>5, RelayeredStep
<1>9. ASSUME IsCompleteWrite(ref), NEW j \in 1..k + 1 - 1, Touches(s[j].cmd, r, p), IsCompleteWrite(s[j].cmd.ref)
      PROVE  SeesNext(s, r, p, k + 1, d)
  <2>1. CASE j \in 1..k - 1
    BY <1>1, <1>7, <1>9, <2>1
  <2>2. CASE j = k
    <3>1. Touches(a, r, p) /\ IsCompleteWrite(a.ref)
      BY <1>2, <1>9, <2>2
    <3>2. d = Written(s[k].saw, a.ref, k)
      BY <3>1, WrittenAgain
    <3> QED  BY <1>2, <3>1, <3>2, SeesLater
  <2> QED  BY <1>2, <1>9, <2>1, <2>2
<1>10. /\ ref = None => d = IF r \in Images \/ replay.policy \in {"NoOpt", "CopyAll"} THEN st ELSE Fresh(Zero)
       /\ ref = Read => d = st
       /\ ref = ReadBeforeWrite => SeesNext(s, r, p, k + 1, d)
       /\ ref = WriteBeforeRead => Relayered(d, st, W, k + 1)
       /\ IsCompleteWrite(ref)
          /\ (\E j \in 1..k + 1 - 1 : Touches(s[j].cmd, r, p) /\ IsCompleteWrite(s[j].cmd.ref))
            => SeesNext(s, r, p, k + 1, d)
  BY <1>1, <1>5, <1>6, <1>7, <1>8, <1>9
<1> QED  BY <1>10 DEF ReplaysRight, ref, st, s, W

\* A policy says what a reference makes of a range.
LEMMA InitReqIs ==
  ASSUME NEW policy \in InitPolicy, NEW ref \in References, NEW again \in BOOLEAN,
         NEW req, req = InitReq(ref, policy, again)
  PROVE  /\ policy = "NoOpt" => req = "Copy"
         /\ policy = "CopyAll" =>
              /\ ref \in {None, Read} => (again /\ req = "None") \/ (~again /\ req = "Copy")
              /\ ref \notin {None, Read} => req = "Copy"
         /\ policy \in {"ClearUnread", "Fastest"} =>
              /\ ref = None => (again /\ req = "None") \/ (~again /\ req = "Clear")
              /\ ref = Read => (again /\ req = "None") \/ (~again /\ req = "Copy")
              /\ ref = ReadBeforeWrite => req = "Copy"
              /\ ref = WriteBeforeRead => req = "Copy" \/ (again /\ policy = "Fastest" /\ req = "None")
              /\ ref = PartialWrite \/ IsCompleteWrite(ref) =>
                   req = "Clear" \/ policy = "Fastest"
<1> USE DEF InitReq, IsCompleteWrite, None, PartialWrite, CompleteWrite, Read, ReadBeforeWrite, WriteBeforeRead,
        CompleteWriteAndDiscard
<1>1. CASE policy = "NoOpt"
  BY <1>1
<1>2. CASE policy = "CopyAll"
  BY <1>2
<1>3. CASE policy = "ClearUnread"
  BY <1>3
<1>4. CASE policy = "Fastest"
  BY <1>4
<1> QED  BY <1>1, <1>2, <1>3, <1>4 DEF InitPolicy

LEMMA AppliedRight ==
  ASSUME FileInv, ReplayInv, mode = "replaying", NEW r \in file.needed, NEW p \in Parts(r),
         NEW fresh \in SUBSET Images, Images \ replay.initialized \subseteq fresh
  PROVE  /\ ReplaysRight(r, p, 1, Applied(r, p, fresh))
         /\ replay.policy # "Fastest" => Promised(r, p, Applied(r, p, fresh))
<1> DEFINE ref   == file.refs[r][p]
           st    == file.start[r][p]
           s     == file.script
           W     == WritesBefore(s, r, p, Len(s) + 1)
           again == r \in replay.initialized
           old   == replay.gpu[r][p]
           req   == InitReq(ref, replay.policy, again)
           saved == IF r \in DOMAIN file.initial THEN st ELSE Fresh(Zero)
           c     == Applied(r, p, fresh)
<1>1. /\ file.taken /\ r \in Resources /\ replay.policy \in InitPolicy
      /\ replay.initial = [q \in file.needed |-> IF q \in DOMAIN file.initial THEN file.initial[q] ELSE <<>>]
      /\ again \in BOOLEAN /\ (again => replay.at \in Nat /\ replay.at > 0)
      /\ again => ReplaysRight(r, p, replay.at, old)
  BY DEF ReplayInv, ReplayState, FileInv
<1>2. /\ ref \in References /\ Len(s) \in Nat /\ Chain(s, file.start) /\ Plain(st)
      /\ file.start[r] = [q \in Parts(r) |-> file.start[r][q]]
      /\ r \in DOMAIN file.initial => file.initial[r] = file.start[r]
      /\ r \notin DOMAIN file.initial => Single(r) /\ IsCompleteWrite(file.refs[r][1]) /\ Undefined(file.start[r][1])
  BY <1>1, FileSays DEF FileInv, Story, PlainStart
<1>3. /\ c = saved \/ c = IF req = "None" THEN old ELSE IF req = "Copy" THEN saved ELSE Fresh(Zero)
      /\ r \in Images /\ ~again => c = saved
      /\ r \notin Images => c = IF req = "None" THEN old ELSE IF req = "Copy" THEN saved ELSE Fresh(Zero)
  <2>1. r \in DOMAIN file.initial => replay.initial[r] # <<>> /\ replay.initial[r][p] = st
    <3>1. r \in DOMAIN file.initial => replay.initial[r] = file.start[r]
      BY <1>1, <1>2
    <3>2. file.start[r] # <<>>
      <4>1. DOMAIN file.start[r] = Parts(r) /\ DOMAIN <<>> = {}
        BY <1>2
      <4> QED  BY <4>1
    <3> QED  BY <3>1, <3>2
  <2>2. r \notin DOMAIN file.initial => replay.initial[r] = <<>>
    BY <1>1
  <2>3. r \in DOMAIN replay.initial
    BY <1>1
  <2> DEFINE need == Requirement(r, p, fresh)
  <2>4. c = IF need = "None" THEN old ELSE IF need = "Copy" THEN saved ELSE Fresh(Zero)
    BY <2>1, <2>2, <2>3 DEF Applied
  <2>5. /\ r \in fresh => need = "Copy"
        /\ r \in Images /\ r \notin fresh /\ replay.initial[r] = <<>> => need = "Clear"
        /\ ~(r \in fresh) /\ ~(r \in Images /\ replay.initial[r] = <<>>) => need = req
    BY DEF Requirement
  <2>6. replay.initial[r] = <<>> => saved = Fresh(Zero)
    BY <2>1
  <2>7. (r \in fresh => r \in Images) /\ (r \in Images /\ ~again => r \in fresh)
    OBVIOUS
  <2> HIDE DEF need, c, old, saved, req, again
  <2>8. CASE r \in fresh
    BY <2>4, <2>5, <2>7, <2>8
  <2>9. CASE r \notin fresh /\ r \in Images /\ replay.initial[r] = <<>>
    BY <2>4, <2>5, <2>6, <2>7, <2>9
  <2>10. CASE r \notin fresh /\ ~(r \in Images /\ replay.initial[r] = <<>>)
    BY <2>4, <2>5, <2>7, <2>10
  <2> QED  BY <2>8, <2>9, <2>10
<1>4. r \notin DOMAIN file.initial => IsCompleteWrite(ref) /\ Undefined(st)
  <2>1. r \notin DOMAIN file.initial => p = 1
    BY <1>1, <1>2 DEF Single, Parts
  <2> QED  BY <1>2, <2>1
<1>5. again =>
        /\ ref = None => old = IF r \in Images \/ replay.policy \in {"NoOpt", "CopyAll"} THEN st ELSE Fresh(Zero)
        /\ ref = Read => old = st
        /\ ref = WriteBeforeRead => Relayered(old, st, W, replay.at)
  BY <1>1 DEF ReplaysRight
<1>6. W \in SUBSET Nat
  <2>1. Len(s) + 1 - 1 = Len(s)
    BY <1>2
  <2> QED  BY <2>1 DEF WritesBefore
<1>7. req = InitReq(ref, replay.policy, again)
  OBVIOUS
<1>8. st.over = {} /\ st = [base |-> st.base, over |-> {}]
  <2> HIDE DEF st
  <2> QED  BY <1>2 DEF Plain, Fresh
<1>9. saved = IF r \in DOMAIN file.initial THEN st ELSE Fresh(Zero)
  OBVIOUS
<1> HIDE DEF ref, st, s, W, again, old, req, saved, c
<1>10. ~IsCompleteWrite(ref) => saved = st
  BY <1>4, <1>9
<1>11. Agree(saved, st)
  <2>1. CASE saved = st
    BY <2>1 DEF Agree
  <2>2. CASE saved # st
    <3>1. saved = Fresh(Zero) /\ st = Fresh(Junk)
      BY <1>4, <1>9, <2>2 DEF Undefined
    <3> QED  BY <3>1 DEF Agree, Fresh
  <2> QED  BY <2>1, <2>2
<1>12. ~IsCompleteWrite(None) /\ ~IsCompleteWrite(Read) /\ ~IsCompleteWrite(WriteBeforeRead)
       /\ ~IsCompleteWrite(ReadBeforeWrite)
  BY DEF IsCompleteWrite, None, Read, WriteBeforeRead, ReadBeforeWrite, CompleteWrite, CompleteWriteAndDiscard
<1>13. ASSUME ref = None
       PROVE  c = IF r \in Images \/ replay.policy \in {"NoOpt", "CopyAll"} THEN st ELSE Fresh(Zero)
  <2>1. saved = st
    BY <1>10, <1>12, <1>13
  <2>2. again => old = IF r \in Images \/ replay.policy \in {"NoOpt", "CopyAll"} THEN st ELSE Fresh(Zero)
    BY <1>5, <1>13
  <2>3. CASE replay.policy = "NoOpt"
    BY <1>1, <1>2, <1>3, <1>7, <2>1, <2>3, InitReqIs
  <2>4. CASE replay.policy = "CopyAll"
    <3>1. (again /\ req = "None") \/ (~again /\ req = "Copy")
      BY <1>1, <1>2, <1>7, <1>13, <2>4, InitReqIs
    <3> QED  BY <1>3, <2>1, <2>2, <2>4, <3>1
  <2>5. CASE replay.policy \in {"ClearUnread", "Fastest"}
    <3>1. (again /\ req = "None") \/ (~again /\ req = "Clear")
      BY <1>1, <1>2, <1>7, <1>13, <2>5, InitReqIs
    <3>2. CASE r \in Images
      BY <1>3, <2>1, <2>2, <3>1, <3>2
    <3>3. CASE r \notin Images
      BY <1>3, <2>2, <2>5, <3>1, <3>3
    <3> QED  BY <3>2, <3>3
  <2> QED  BY <1>1, <2>3, <2>4, <2>5 DEF InitPolicy
<1>14. ASSUME ref = Read
       PROVE  c = st
  <2>1. saved = st /\ (again => old = st)
    BY <1>5, <1>10, <1>12, <1>14
  <2>2. req = "Copy" \/ (again /\ req = "None")
    BY <1>1, <1>2, <1>7, <1>14, InitReqIs DEF InitPolicy
  <2> QED  BY <1>3, <2>1, <2>2
<1>15. ASSUME ref = ReadBeforeWrite
       PROVE  c = st
  <2>1. saved = st
    BY <1>10, <1>12, <1>15
  <2>2. ref \notin {None, Read}
    BY <1>15 DEF ReadBeforeWrite, None, Read
  <2>3. req = "Copy"
    BY <1>1, <1>2, <1>7, <1>15, <2>2, InitReqIs DEF InitPolicy
  <2> QED  BY <1>3, <2>1, <2>3
<1>16. ASSUME ref = WriteBeforeRead
       PROVE  c = st \/ (again /\ c = old /\ replay.policy = "Fastest")
  <2>1. saved = st
    BY <1>10, <1>12, <1>16
  <2>2. ref \notin {None, Read}
    BY <1>16 DEF WriteBeforeRead, None, Read
  <2>3. req = "Copy" \/ (again /\ replay.policy = "Fastest" /\ req = "None")
    BY <1>1, <1>2, <1>7, <1>16, <2>2, InitReqIs DEF InitPolicy
  <2> QED  BY <1>3, <2>1, <2>3
<1>17. ASSUME ref = PartialWrite \/ IsCompleteWrite(ref), replay.policy # "Fastest"
       PROVE  c = saved \/ (replay.policy = "ClearUnread" /\ c = Fresh(Zero))
  <2>1. ref \notin {None, Read}
    BY <1>17 DEF PartialWrite, None, Read, IsCompleteWrite, CompleteWrite, CompleteWriteAndDiscard
  <2>2. req = "Copy" \/ (replay.policy = "ClearUnread" /\ req = "Clear")
    BY <1>1, <1>2, <1>7, <1>17, <2>1, InitReqIs DEF InitPolicy
  <2> QED  BY <1>3, <2>2
<1>18. SeesNext(s, r, p, 1, st)
  BY <1>1, <1>2 DEF Chain, st
<1>19. ASSUME ref = WriteBeforeRead
       PROVE  Relayered(c, st, W, 1)
  <2>1. \A v \in W : ~(v < 1)
    <3>1. \A v \in W : v >= 1
      BY <1>2 DEF W, WritesBefore
    <3> QED  BY <1>6, <3>1
  <2>2. CASE c = st
    BY <1>8, <2>1, <2>2 DEF Relayered
  <2>3. CASE again /\ c = old
    <3>1. Relayered(old, st, W, replay.at)
      BY <1>5, <1>19, <2>3
    <3> QED  BY <2>1, <2>3, <3>1 DEF Relayered
  <2> QED  BY <1>16, <1>19, <2>2, <2>3
<1>20. ReplaysRight(r, p, 1, c)
  <2>1. /\ ref = None => c = IF r \in Images \/ replay.policy \in {"NoOpt", "CopyAll"} THEN st ELSE Fresh(Zero)
        /\ ref = Read => c = st
        /\ ref = ReadBeforeWrite => SeesNext(s, r, p, 1, c)
        /\ ref = WriteBeforeRead => Relayered(c, st, W, 1)
        /\ IsCompleteWrite(ref)
           /\ (\E j \in 1..1 - 1 : Touches(s[j].cmd, r, p) /\ IsCompleteWrite(s[j].cmd.ref))
             => SeesNext(s, r, p, 1, c)
    BY <1>13, <1>14, <1>15, <1>18, <1>19
  <2> QED  BY <2>1 DEF ReplaysRight, ref, st, s, W
<1>21. ASSUME replay.policy # "Fastest"
       PROVE  Promised(r, p, c)
  <2>1. Agree(st, st)
    BY DEF Agree
  <2>2. Agree(c, st) \/ (replay.policy = "ClearUnread" /\ c = Fresh(Zero))
    <3>1. CASE ref = None
      BY <1>1, <1>13, <1>21, <2>1, <3>1 DEF InitPolicy
    <3>2. CASE ref \in {Read, ReadBeforeWrite, WriteBeforeRead}
      BY <1>14, <1>15, <1>16, <1>21, <2>1, <3>2
    <3>3. CASE ref = PartialWrite \/ IsCompleteWrite(ref)
      BY <1>11, <1>17, <1>21, <3>3
    <3>4. ref \in {None, PartialWrite, Read, ReadBeforeWrite, WriteBeforeRead} \/ IsCompleteWrite(ref)
      BY <1>2 DEF References, IsCompleteWrite, None, PartialWrite, CompleteWrite, Read,
         ReadBeforeWrite, WriteBeforeRead, CompleteWriteAndDiscard
    <3> QED  BY <3>1, <3>2, <3>3, <3>4
  <2> QED  BY <2>2 DEF Promised, st
<1> QED  BY <1>20, <1>21 DEF c

-----------------------------------------------------------------------------

LEMMA ReplayLoaded ==
  ASSUME NEW policy \in Policies, Load(policy)
  PROVE  ReplayInv'
<1>1. /\ file.taken /\ file' = file
      /\ replay' = [NoReplay EXCEPT !.policy = policy, !.initial =
           [r \in file.needed |-> IF r \in DOMAIN file.initial THEN file.initial[r] ELSE <<>>]]
  BY DEF Load
<1>2. policy \in InitPolicy
  BY ManagerAssumption
<1>3. /\ replay'.policy = policy /\ replay'.at = 0 /\ replay'.initialized = {}
      /\ replay'.initial = [r \in file.needed |-> IF r \in DOMAIN file.initial THEN file.initial[r] ELSE <<>>]
      /\ replay'.gpu = Everywhere(Fresh(Junk))
      /\ replay' = [policy |-> replay'.policy, at |-> replay'.at, initial |-> replay'.initial,
                    initialized |-> replay'.initialized, gpu |-> replay'.gpu]
  BY <1>1 DEF NoReplay
<1>4. /\ replay'.gpu = [r \in Resources |-> replay'.gpu[r]]
      /\ \A r \in Resources : replay'.gpu[r] = [p \in Parts(r) |-> replay'.gpu[r][p]]
  BY <1>3 DEF Everywhere, PerRange
<1>5. ReplayState'
  BY <1>1, <1>2, <1>3, <1>4 DEF ReplayState
<1>6. ~(replay'.at > 0)
  BY <1>3
<1> QED  BY <1>5, <1>6 DEF ReplayInv

LEMMA ReplayApplied ==
  ASSUME FileInv, ReplayInv, ApplyInitialContents
  PROVE  ReplayInv'
<1>0. PICK fresh \in SUBSET Images :
        /\ Images \ replay.initialized \subseteq fresh
        /\ replay' = [replay EXCEPT !.at = 1, !.gpu = PerRange(LAMBDA r, p : Applied(r, p, fresh)),
                                    !.initialized = DOMAIN replay.initial]
  BY DEF ApplyInitialContents
<1> DEFINE g == [r \in Resources |-> [p \in Parts(r) |-> Applied(r, p, fresh)]]
<1>1. /\ mode = "replaying" /\ mode' = mode /\ file' = file
      /\ replay' = [replay EXCEPT !.at = 1, !.gpu = g, !.initialized = DOMAIN replay.initial]
  BY <1>0 DEF ApplyInitialContents, PerRange
<1> HIDE DEF g
<1>2. /\ file.taken /\ file.needed \subseteq Resources
      /\ replay.policy \in InitPolicy
      /\ replay.initial = [r \in file.needed |-> IF r \in DOMAIN file.initial THEN file.initial[r] ELSE <<>>]
      /\ replay = [policy |-> replay.policy, at |-> replay.at, initial |-> replay.initial,
                   initialized |-> replay.initialized, gpu |-> replay.gpu]
  BY <1>1 DEF ReplayInv, ReplayState, FileInv
<1>4. /\ replay'.policy = replay.policy /\ replay'.initial = replay.initial /\ replay'.at = 1
      /\ replay'.initialized = file.needed /\ replay'.gpu = g
      /\ replay' = [policy |-> replay'.policy, at |-> replay'.at, initial |-> replay'.initial,
                    initialized |-> replay'.initialized, gpu |-> replay'.gpu]
  BY <1>1, <1>2
<1>5. /\ replay'.gpu = [r \in Resources |-> replay'.gpu[r]]
      /\ \A r \in Resources : replay'.gpu[r] = [p \in Parts(r) |-> replay'.gpu[r][p]]
      /\ \A r \in Resources : \A p \in Parts(r) : replay'.gpu[r][p] = Applied(r, p, fresh)
  BY <1>4 DEF g
<1>6. ASSUME NEW r \in file.needed, NEW p \in Parts(r)
      PROVE  /\ ReplaysRight(r, p, replay.at, replay.gpu[r][p])'
             /\ replay.policy # "Fastest" => Promised(r, p, replay.gpu[r][p])'
  <2>1. /\ ReplaysRight(r, p, 1, Applied(r, p, fresh))
        /\ replay.policy # "Fastest" => Promised(r, p, Applied(r, p, fresh))
    BY <1>0, <1>1, AppliedRight
  <2>2. replay'.gpu[r][p] = Applied(r, p, fresh)
    BY <1>2, <1>5
  <2>3. ReplaysRight(r, p, replay.at, replay.gpu[r][p])'
    BY <1>1, <1>4, <2>1, <2>2 DEF ReplaysRight
  <2>4. replay.policy # "Fastest" => Promised(r, p, replay.gpu[r][p])'
    BY <1>1, <1>4, <2>1, <2>2 DEF Promised
  <2> QED  BY <2>3, <2>4
<1>7. ReplayState'
  BY <1>1, <1>2, <1>4, <1>5 DEF ReplayState
<1> QED  BY <1>1, <1>4, <1>6, <1>7 DEF ReplayInv

LEMMA ReplayedCommand ==
  ASSUME FileInv, ReplayInv, ReplayCommand
  PROVE  ReplayInv'
<1> DEFINE k == replay.at
           a == file.script[k].cmd
           d(r, p) == IF Touches(a, r, p) THEN Written(replay.gpu[r][p], a.ref, k) ELSE replay.gpu[r][p]
<1>1. /\ mode = "replaying" /\ mode' = mode /\ file' = file
      /\ k \in 1..Len(file.script)
      /\ replay' = [replay EXCEPT !.at = @ + 1, !.gpu[a.res][a.part] = Written(@, a.ref, k)]
  BY DEF ReplayCommand
<1>2. /\ file.taken /\ file.needed \subseteq Resources
      /\ replay.policy \in InitPolicy
      /\ replay.initial = [r \in file.needed |-> IF r \in DOMAIN file.initial THEN file.initial[r] ELSE <<>>]
      /\ replay = [policy |-> replay.policy, at |-> replay.at, initial |-> replay.initial,
                   initialized |-> replay.initialized, gpu |-> replay.gpu]
      /\ k \in Nat /\ k > 0 /\ replay.initialized = file.needed
      /\ replay.gpu = [r \in Resources |-> replay.gpu[r]]
      /\ \A r \in Resources : replay.gpu[r] = [p \in Parts(r) |-> replay.gpu[r][p]]
      /\ \A r \in file.needed : \A p \in Parts(r) : ReplaysRight(r, p, k, replay.gpu[r][p])
  <2>0. file.taken /\ k \in Nat
    BY <1>1 DEF ReplayInv, ReplayState
  <2>1. k > 0 /\ k \in Nat
    <3>1. Len(file.script) \in Nat
      BY <2>0, CommandsOf DEF FileInv, Story, Log
    <3>2. k \in 1..Len(file.script)
      BY <1>1
    <3> QED  BY <3>1, <3>2
  <2>2. ReplayState /\ file.needed \subseteq Resources
    BY <1>1 DEF ReplayInv, ReplayState, FileInv
  <2>3. \A r \in file.needed : \A p \in Parts(r) : ReplaysRight(r, p, k, replay.gpu[r][p])
    BY <1>1, <2>1 DEF ReplayInv
  <2> QED  BY <2>1, <2>2, <2>3 DEF ReplayState
<1>3. a \in Accesses /\ a.res \in Resources /\ a.part \in Parts(a.res)
  BY <1>1, <1>2, AccessesValid DEF FileInv, Story, Access
<1>5. /\ replay'.policy = replay.policy /\ replay'.initial = replay.initial /\ replay'.at = k + 1
      /\ replay'.initialized = replay.initialized
      /\ replay'.gpu = [replay.gpu EXCEPT ![a.res][a.part] = Written(@, a.ref, k)]
      /\ replay' = [policy |-> replay'.policy, at |-> replay'.at, initial |-> replay'.initial,
                    initialized |-> replay'.initialized, gpu |-> replay'.gpu]
  BY <1>1, <1>2
<1>6. /\ replay'.gpu = [r \in Resources |-> replay'.gpu[r]]
      /\ \A r \in Resources : replay'.gpu[r] = [p \in Parts(r) |-> replay'.gpu[r][p]]
      /\ \A r \in Resources : \A p \in Parts(r) : replay'.gpu[r][p] = d(r, p)
  <2> DEFINE w == Written(replay.gpu[a.res][a.part], a.ref, k)
             g == replay.gpu
  <2>1. /\ g = [r \in Resources |-> g[r]] /\ \A r \in Resources : g[r] = [p \in Parts(r) |-> g[r][p]]
        /\ replay'.gpu = [g EXCEPT ![a.res] = [g[a.res] EXCEPT ![a.part] = w]]
    BY <1>2, <1>5
  <2>2. \A r \in Resources : \A p \in Parts(r) : d(r, p) = IF r = a.res /\ p = a.part THEN w ELSE g[r][p]
    BY DEF Touches
  <2> HIDE DEF a, k, w, g, d
  <2>3. /\ replay'.gpu = [r \in Resources |-> replay'.gpu[r]]
        /\ replay'.gpu[a.res] = [g[a.res] EXCEPT ![a.part] = w]
        /\ \A r \in Resources : r # a.res => replay'.gpu[r] = g[r]
    BY <1>3, <2>1
  <2>4. /\ replay'.gpu[a.res] = [p \in Parts(a.res) |-> replay'.gpu[a.res][p]]
        /\ \A p \in Parts(a.res) : replay'.gpu[a.res][p] = IF p = a.part THEN w ELSE g[a.res][p]
    BY <1>3, <2>1, <2>3
  <2>5. \A r \in Resources : replay'.gpu[r] = [p \in Parts(r) |-> replay'.gpu[r][p]]
    BY <2>1, <2>3, <2>4
  <2>6. ASSUME NEW r \in Resources, NEW p \in Parts(r)
        PROVE  replay'.gpu[r][p] = d(r, p)
    BY <2>2, <2>3, <2>4
  <2> QED  BY <2>3, <2>5, <2>6
<1>7. ASSUME NEW r \in file.needed, NEW p \in Parts(r)
      PROVE  ReplaysRight(r, p, replay.at, replay.gpu[r][p])'
  <2>1. /\ Touches(a, r, p) => d(r, p) = Written(replay.gpu[r][p], a.ref, k)
        /\ ~Touches(a, r, p) => d(r, p) = replay.gpu[r][p]
    OBVIOUS
  <2>2. r \in Resources /\ ReplaysRight(r, p, k, replay.gpu[r][p]) /\ a = file.script[k].cmd
    BY <1>2
  <2> HIDE DEF a, d, k
  <2>3. ReplaysRight(r, p, k + 1, d(r, p))
    BY <1>1, <1>2, <2>1, <2>2, ReplayedRight
  <2>4. replay'.gpu[r][p] = d(r, p)
    BY <1>6, <2>2
  <2> QED  BY <1>1, <1>5, <2>3, <2>4 DEF ReplaysRight
<1> HIDE DEF a, d, k
<1>8. replay'.at # 0 /\ replay'.at # 1 /\ replay'.at \in Nat
  BY <1>2, <1>5
<1>9. ReplayState'
  <2>1. /\ file'.taken /\ replay'.policy \in InitPolicy /\ replay'.initialized = file'.needed
        /\ replay'.initial =
             [r \in file'.needed |-> IF r \in DOMAIN file'.initial THEN file'.initial[r] ELSE <<>>]
    BY <1>1, <1>2, <1>5
  <2> QED  BY <1>5, <1>6, <1>8, <2>1 DEF ReplayState
<1> QED  BY <1>1, <1>5, <1>7, <1>8, <1>9 DEF ReplayInv

LEMMA ReplayKept ==
  ASSUME ReplayInv, UNCHANGED <<mode, file, replay>>
  PROVE  ReplayInv'
BY DEF ReplayInv, ReplayState, ReplaysRight, Promised

LEMMA ReplayStep ==
  ASSUME FileInv, ReplayInv, [Next]_vars
  PROVE  ReplayInv'
<1>0. ASSUME mode' # "replaying"
      PROVE  ReplayInv'
  BY <1>0 DEF ReplayInv
<1>1. ASSUME NEW policy \in Policies, Load(policy)
      PROVE  ReplayInv'
  BY <1>1, ReplayLoaded
<1>2. CASE ApplyInitialContents
  BY <1>2, ReplayApplied
<1>3. CASE ReplayCommand
  BY <1>3, ReplayedCommand
<1>4. CASE UNCHANGED <<mode, file, replay>> \/ mode' # "replaying"
  BY <1>0, <1>4, ReplayKept
<1> QED  BY <1>1, <1>2, <1>3, <1>4 DEF Next, vars, Record, Submit, Execute, TimePasses, ReleaseResource,
         CleanBackgroundFrameReferences, StartFrameCapture, EndFrameCapture, DiscardFrameCapture

-----------------------------------------------------------------------------
(* A frame replays as it was captured.                                       *)

LEMMA CaptureInit == Init => CaptureInv
<1> SUFFICES ASSUME Init PROVE CaptureInv
  OBVIOUS
<1> USE DEF Init
<1>1. RecordedInv
  <2>1. live \subseteq Resources /\ cb.cmds = <<>>
    BY EmptyBufferInv
  <2>2. \A r \in Resources : \A p \in Parts(r) : Claims(cb.mem[r][p], cb.cmds, Noted(cb.cmds, r, p))
    <3> SUFFICES ASSUME NEW r \in Resources, NEW p \in Parts(r)
                 PROVE  Claims(cb.mem[r][p], cb.cmds, Noted(cb.cmds, r, p))
      OBVIOUS
    <3>1. cb.mem[r][p] = None
      BY EmptyBufferInv
    <3>2. Len(cb.cmds) = 0
      BY <2>1
    <3>3. Noted(cb.cmds, r, p) = {}
      BY <3>2 DEF Noted, Positions
    <3> QED  BY <3>1, <3>3 DEF Claims, IsCompleteWrite, None, PartialWrite, CompleteWrite, Read,
             WriteBeforeRead, CompleteWriteAndDiscard
  <2>3. \A r \in Resources : cb.refs[r] = None /\ \A p \in Parts(r) : cb.mem[r][p] = None
    BY EmptyBufferInv
  <2> QED  BY <2>1, <2>2, <2>3, RangesPositive DEF RecordedInv, None, CompleteWriteAndDiscard
<1>2. MergedInv /\ ReplayInv
  BY DEF MergedInv, ReplayInv
<1>3. KeptInv
  <2>1. Unknown.ref = None /\ Unknown.initial = Absent /\ Unknown.postponed = FALSE /\ Unknown.skipped = FALSE
    BY DEF Unknown
  <2>2. Absent.has = FALSE /\ None \in References
    BY DEF Absent, References, None, CompleteWriteAndDiscard
  <2> QED  BY <2>1, <2>2 DEF KeptInv, PutOff
<1>4. DiscardedInv
  <2>1. \A r \in Resources : manager[r].skip = "none"
    BY DEF Unknown
  <2> QED  BY <2>1 DEF DiscardedInv
<1>5. StoryInv
  BY DEF StoryInv, PlainStart, Plain, Everywhere, PerRange
<1>6. FileInv
  BY DEF FileInv
<1> QED  BY <1>1, <1>2, <1>3, <1>4, <1>5, <1>6 DEF CaptureInv

LEMMA CaptureStep ==
  ASSUME IInv, CaptureInv, [Next]_vars
  PROVE  CaptureInv'
<1>1. RecordedInv /\ MergedInv /\ KeptInv /\ DiscardedInv /\ StoryInv /\ FileInv /\ ReplayInv
  BY DEF CaptureInv
<1>2. mode = "capturing" => Log(script)
  BY <1>1 DEF StoryInv, Story, Log
<1>3. RecordedInv' /\ MergedInv' /\ KeptInv' /\ DiscardedInv'
  BY <1>1, <1>2, RecordedStep, MergedStep, KeptStep, DiscardedStep
<1>4. StoryInv' /\ FileInv' /\ ReplayInv'
  BY <1>1, StoryStep, FileStep, ReplayStep
<1> QED  BY <1>3, <1>4 DEF CaptureInv

\* What a command of the frame reads is what it read in the program: the reference of
\* its range says which commands came before it, and so what the range was reset to.
LEMMA ReplayAgreesNow ==
  ASSUME FileInv, ReplayInv
  PROVE  ReplayAgrees
<1> SUFFICES ASSUME mode = "replaying", replay.at \in 1..Len(file.script),
                    IncludesRead(file.script[replay.at].cmd.ref)
             PROVE  Agree(replay.gpu[file.script[replay.at].cmd.res][file.script[replay.at].cmd.part],
                          file.script[replay.at].saw)
  BY DEF ReplayAgrees
<1> DEFINE s   == file.script
           k   == replay.at
           r   == s[k].cmd.res
           p   == s[k].cmd.part
           ref == file.refs[r][p]
           st  == file.start[r][p]
           got == replay.gpu[r][p]
           W   == WritesBefore(s, r, p, Len(s) + 1)
<1>0. /\ s = file.script /\ k = replay.at /\ r = s[k].cmd.res /\ p = s[k].cmd.part
      /\ ref = file.refs[r][p] /\ st = file.start[r][p] /\ got = replay.gpu[r][p]
      /\ W = WritesBefore(s, r, p, Len(s) + 1)
  OBVIOUS
<1>a. k \in 1..Len(s) /\ IncludesRead(s[k].cmd.ref)
  OBVIOUS
<1> HIDE DEF s, k, r, p, ref, st, got, W
<1>1. file.taken /\ k > 0 /\ k \in Nat /\ replay.at = k
  <2>1. file.taken /\ k \in Nat /\ replay.at = k
    BY <1>0 DEF ReplayInv, ReplayState
  <2>2. Len(s) \in Nat
    BY <1>0, <2>1, CommandsOf DEF FileInv, Story, Log
  <2> QED  BY <1>a, <2>1, <2>2
<1>2. s[k].cmd \in Accesses /\ r \in Resources /\ p \in Parts(r) /\ Touches(s[k].cmd, r, p)
  BY <1>0, <1>a, <1>1, AccessesValid DEF FileInv, Story, Access, Touches
<1>3. /\ Log(s) /\ Len(s) \in Nat /\ ref \in References
      /\ ref = None => \A i \in 1..Len(s) : ~Touches(s[i].cmd, r, p)
      /\ ref = PartialWrite => \A i \in 1..Len(s) : Touches(s[i].cmd, r, p) => s[i].cmd.ref = PartialWrite
      /\ ref = Read => \A i \in 1..Len(s) : Touches(s[i].cmd, r, p) => s[i].cmd.ref = Read
      /\ IsCompleteWrite(ref) =>
           \E d \in 1..Len(s) :
             /\ Touches(s[d].cmd, r, p) /\ IsCompleteWrite(s[d].cmd.ref)
             /\ \A i \in 1..Len(s) : Touches(s[i].cmd, r, p) /\ IncludesRead(s[i].cmd.ref) => d < i
      /\ ref = WriteBeforeRead =>
           /\ \A i \in 1..Len(s) : Touches(s[i].cmd, r, p) => s[i].cmd.ref \in {PartialWrite, Read}
           /\ \A d, i \in 1..Len(s) :
                /\ Touches(s[d].cmd, r, p) /\ s[d].cmd.ref = PartialWrite
                /\ Touches(s[i].cmd, r, p) /\ s[i].cmd.ref = Read
                => d < i
  <2>1. file.taken /\ r \in Resources /\ p \in Parts(r) /\ s = file.script /\ ref = file.refs[r][p]
    BY <1>0, <1>1, <1>2
  <2>2. Log(s) /\ Len(s) \in Nat /\ ref \in References /\ Summed(ref, s, r, p)
    BY <2>1, FileSays
  <2> QED  BY <2>2 DEF Summed
<1>4. r \in file.needed
  <2>1. k \in Positions(Commands(s), r, p)
    <3>1. Len(Commands(s)) = Len(s) /\ Commands(s)[k] = s[k].cmd
      BY <1>0, <1>3, CommandsOf
    <3> QED  BY <1>a, <1>2, <3>1 DEF Positions
  <2>2. Positions(Commands(file.script), r, p) # {}
    BY <1>0, <2>1
  <2> QED  BY <1>1, <1>2, <2>2 DEF FileInv
<1>5. /\ ref = Read => got = st
      /\ ref = ReadBeforeWrite => SeesNext(s, r, p, k, got)
      /\ ref = WriteBeforeRead => Relayered(got, st, W, k)
      /\ IsCompleteWrite(ref) /\ (\E j \in 1..k - 1 : Touches(s[j].cmd, r, p) /\ IsCompleteWrite(s[j].cmd.ref))
           => SeesNext(s, r, p, k, got)
  <2>1. ReplaysRight(r, p, k, got)
    BY <1>0, <1>1, <1>2, <1>4 DEF ReplayInv
  <2> QED  BY <1>0, <2>1 DEF ReplaysRight
<1>6. LayersSeen(s, file.start) /\ Plain(st)
  BY <1>0, <1>1, <1>2 DEF FileInv, Story, PlainStart
<1>7. PartialBefore(s, r, p, k) => s[k].saw = Layers(st, WritesBefore(s, r, p, k))
  BY <1>0, <1>2, <1>6 DEF LayersSeen
<1>8. k \in 1..Len(s) /\ IncludesRead(s[k].cmd.ref) /\ 1..k - 1 \subseteq 1..Len(s)
  BY <1>a, <1>1, <1>3
<1>9. SUFFICES got = s[k].saw
  BY <1>0, <1>9 DEF Agree
<1>10. CASE ref = None
  BY <1>2, <1>3, <1>8, <1>10
<1>11. CASE ref = PartialWrite
  <2>1. s[k].cmd.ref = PartialWrite
    BY <1>2, <1>3, <1>8, <1>11
  <2> QED  BY <1>8, <2>1 DEF IncludesRead, PartialWrite, Read, WriteBeforeRead, ReadBeforeWrite
<1>12. CASE ref = Read
  <2>1. \A i \in 1..k - 1 : Touches(s[i].cmd, r, p) => s[i].cmd.ref = Read
    BY <1>3, <1>8, <1>12
  <2>2. PartialBefore(s, r, p, k)
    BY <2>1 DEF PartialBefore
  <2>3. WritesBefore(s, r, p, k) = {}
    BY <2>1 DEF WritesBefore, IncludesWrite
  <2> QED  BY <1>5, <1>6, <1>7, <1>12, <2>2, <2>3, PlainLayers
<1>13. CASE ref = ReadBeforeWrite
  BY <1>2, <1>3, <1>5, <1>8, <1>13, SeesNow
<1>14. CASE IsCompleteWrite(ref)
  <2>1. PICK j \in 1..Len(s) : Touches(s[j].cmd, r, p) /\ IsCompleteWrite(s[j].cmd.ref) /\ j < k
    BY <1>2, <1>3, <1>8, <1>14
  <2>2. j \in 1..k - 1
    BY <1>1, <2>1
  <2> QED  BY <1>2, <1>3, <1>5, <1>8, <1>14, <2>1, <2>2, SeesNow
<1>15. CASE ref = WriteBeforeRead
  <2>1. \A i \in 1..Len(s) : Touches(s[i].cmd, r, p) => s[i].cmd.ref \in {PartialWrite, Read}
    BY <1>3, <1>15
  <2>2. s[k].cmd.ref = Read
    <3>1. s[k].cmd.ref \in {PartialWrite, Read}
      BY <1>2, <1>8, <2>1
    <3> QED  BY <1>8, <3>1 DEF IncludesRead, PartialWrite, Read, WriteBeforeRead, ReadBeforeWrite
  <2>3. PartialBefore(s, r, p, k)
    BY <1>8, <2>1 DEF PartialBefore
  <2>4. \A i : i \in W <=> i \in 1..Len(s) /\ Touches(s[i].cmd, r, p) /\ IncludesWrite(s[i].cmd.ref)
    <3>1. Len(s) + 1 - 1 = Len(s)
      BY <1>3
    <3>2. W = WritesBefore(s, r, p, Len(s) + 1)
      BY <1>0
    <3> QED  BY <3>1, <3>2 DEF WritesBefore
  <2>5. \A i \in W : i < k
    <3> SUFFICES ASSUME NEW i \in W PROVE i < k
      OBVIOUS
    <3>1. i \in 1..Len(s) /\ Touches(s[i].cmd, r, p) /\ s[i].cmd.ref = PartialWrite
      BY <2>1, <2>4 DEF IncludesWrite
    <3> QED  BY <1>2, <1>3, <1>8, <1>15, <2>2, <3>1
  <2>6. W \in SUBSET Nat /\ k \in Nat
    BY <1>1, <1>3, <2>4
  <2>7. WritesBefore(s, r, p, k) = W
    <3>1. \A i : i \in WritesBefore(s, r, p, k) <=> i \in 1..k - 1 /\ i \in W
      BY <1>8, <2>4 DEF WritesBefore
    <3>2. \A i \in W : i \in 1..k - 1
      BY <1>3, <2>4, <2>5, <2>6
    <3> QED  BY <3>1, <3>2
  <2>8. got = Layers(st, W)
    BY <1>5, <1>15, <2>5, <2>6, RelayeredAll
  <2> QED  BY <1>7, <2>3, <2>7, <2>8
<1> QED  BY <1>3, <1>10, <1>11, <1>12, <1>13, <1>14, <1>15
         DEF References, IsCompleteWrite, None, PartialWrite, CompleteWrite, Read,
             ReadBeforeWrite, WriteBeforeRead, CompleteWriteAndDiscard

\* The frame replays correctly, however often and from wherever it is run again, whatever
\* was saved at its start, when it was about to be overwritten, or at its end, if no command
\* buffer that is submitted hides a write (resource_manager.h, vk_initstate.cpp).
THEOREM ReplayAgreesAlways == ShownSpec => []ReplayAgrees
<1>1. Init => IInv /\ CaptureInv
  BY InitInv, CaptureInit
<1>2. (IInv /\ CaptureInv) /\ [ShownNext]_vars => (IInv /\ CaptureInv)'
  BY NextInv, CaptureStep DEF ShownNext
<1>3. IInv /\ CaptureInv => ReplayAgrees
  BY ReplayAgreesNow DEF CaptureInv
<1> QED  BY <1>1, <1>2, <1>3, PTL DEF ShownSpec

\* Who looks at a resource where a replay starts sees what resource_manager.h:183-225
\* promises, under the same assumption.
THEOREM PolicyKeptAlways == ShownSpec => []PolicyKept
<1>1. Init => IInv /\ CaptureInv
  BY InitInv, CaptureInit
<1>2. (IInv /\ CaptureInv) /\ [ShownNext]_vars => (IInv /\ CaptureInv)'
  BY NextInv, CaptureStep DEF ShownNext
<1>3. IInv /\ CaptureInv => PolicyKept
  <2> SUFFICES ASSUME CaptureInv, mode = "replaying", replay.at = 1, replay.policy # "Fastest",
                      NEW r \in DOMAIN replay.initial, NEW p \in Parts(r)
               PROVE  \/ Agree(replay.gpu[r][p], file.start[r][p])
                      \/ replay.policy = "ClearUnread" /\ replay.gpu[r][p] = Fresh(Zero)
    BY DEF PolicyKept
  <2>1. ReplayInv /\ replay.at > 0
    BY DEF CaptureInv
  <2>2. r \in file.needed
    BY <2>1 DEF ReplayInv, ReplayState
  <2>3. Promised(r, p, replay.gpu[r][p])
    BY <2>1, <2>2 DEF ReplayInv
  <2> QED  BY <2>3 DEF Promised
<1> QED  BY <1>1, <1>2, <1>3, PTL DEF ShownSpec

=============================================================================
