------------------------------- MODULE MemRefs -------------------------------
(***************************************************************************)
(* How the references of a memory allocation are held: MemRefs of          *)
(* driver/vulkan/vk_resources.h, which are the Intervals of                *)
(* core/intervals.h, and how a capture file holds them                     *)
(* (DeviceMemoryRefs).  ResourceManager has one reference per range that   *)
(* commands use; here a range is any interval of bytes, intervals are cut  *)
(* and joined as commands touch them, and the file's are rounded to words, *)
(* which is what vkCmdFillBuffer can clear.                                *)
(*                                                                         *)
(* Intervals are a function from where each starts to its value: it holds  *)
(* up to the next start, or up to Top.  The first starts at 0.  A loop is  *)
(* a function from the number of turns to the state after them; what it    *)
(* stands at, an iterator, moves up by a byte or more in each turn, and is *)
(* Top when it is end().                                                   *)
(***************************************************************************)
EXTENDS ResourceManager, FiniteSetsExt, Functions

CONSTANTS
  Top,   \* UINT64_MAX
  Cuts, FileCuts   \* where the intervals start that the properties are about

Word == 4   \* bytes that are cleared together

ASSUME MemRefsAssumption ==
  /\ Top \in Nat /\ Top >= 2 * Word
  /\ Cuts \subseteq 1..(Top - 1) /\ FileCuts \subseteq 1..(Top - 1)

NoRefs == [s \in {0} |-> None]

Find(ints, x) == Largest({s \in DOMAIN ints : s <= x})
At(ints, x)   == ints[Find(ints, x)]

Finish(ints, s) ==
  LET above == {x \in DOMAIN ints : x > s} IN IF above = {} THEN Top ELSE Min(above)

Split(ints, x) == [s \in DOMAIN ints \cup {x} |-> At(ints, s)]

MergeLeft(ints, s) ==
  IF s # 0 /\ ints[s] = At(ints, s - 1) THEN Restrict(ints, DOMAIN ints \ {s}) ELSE ints

-----------------------------------------------------------------------------
(* Update and merge.                                                         *)

\* Slip: an interval that goes on after the update is not cut.
SlipTouch(ints, s, finish, ref) == MergeLeft([ints EXCEPT ![s] = Compose(@, ref)], s)

\* What a turn of either loop does to the interval at s: it is cut where what it
\* is composed with ends.
Touch(ints, s, finish, ref) ==
  LET cut == IF Finish(ints, s) > finish THEN Split(ints, finish) ELSE ints
  IN MergeLeft([cut EXCEPT ![s] = Compose(@, ref)], s)

\* Intervals::update, whose results MemRefs::Update composes over what it touched.
UpdateTurn(t, finish, ref) ==
  IF t.at >= finish THEN t
  ELSE LET ints == Touch(t.ints, t.at, finish, ref)
       IN [ints |-> ints, at |-> Finish(ints, t.at),
           ref  |-> Disjoint(t.ref, Compose(t.ints[t.at], ref))]

UpdateLoop(ints, offset, finish, ref) ==
  LET turns[n \in 0..Top] ==
        IF n = 0 THEN [ints |-> Split(ints, offset), at |-> offset, ref |-> None]
        ELSE UpdateTurn(turns[n - 1], finish, ref)
  IN turns[Top]

\* MemRefs::Update: the bytes from offset on are referenced.
Update(ints, offset, size, ref) ==
  LET finish == offset + (IF size < Top - offset THEN size ELSE Top - offset)
      done   == UpdateLoop(ints, offset, finish, ref)
  IN IF finish <= offset THEN [ints |-> ints, ref |-> None]
     ELSE [ints |-> IF done.at = Top THEN done.ints ELSE MergeLeft(done.ints, done.at),
           ref  |-> done.ref]

\* Intervals::merge: the iterator is in the interval of the other map at t.other.
MergeTurn(t, other) ==
  IF t.at = Top THEN t
  ELSE LET finish == Finish(other, t.other)
           ints   == Touch(t.ints, t.at, finish, other[t.other])
           next   == Finish(ints, t.at)
       IN [ints  |-> ints, at |-> next,
           other |-> IF next # Top /\ next >= finish THEN finish ELSE t.other,
           ref   |-> Disjoint(t.ref, Compose(t.ints[t.at], other[t.other]))]

\* MemRefs::Merge: first these references, then the other ones.
Merge(ints, other) ==
  LET turns[n \in 0..Top] ==
        IF n = 0 THEN [ints |-> ints, at |-> 0, other |-> 0, ref |-> None]
        ELSE MergeTurn(turns[n - 1], other)
  IN [ints |-> turns[Top].ints, ref |-> turns[Top].ref]

-----------------------------------------------------------------------------
(* The capture file.  It has the intervals in their order, which a function  *)
(* from starts gives as well.                                                *)

AlignUp(x) == ((x + Word - 1) \div Word) * Word

\* The last interval so far starts at last, and is cut at x.
Place(ints, last, x, ref) ==
  [(IF last < x THEN Split(ints, x) ELSE ints) EXCEPT ![x] = ref]

\* Slip: the interval before is left out.
SlipOverlapRef(data, from, to, lastRef) ==
  LET refs[x \in from..to] ==
        IF x = from THEN data[x]
        ELSE IF x \in DOMAIN data THEN Disjoint(refs[x - 1], data[x]) ELSE refs[x - 1]
  IN refs[to]

\* The reference of a word with the end of an interval and those from one on.
OverlapRef(data, from, to, lastRef) ==
  LET refs[x \in (from - 1)..to] ==
        IF x < from THEN lastRef
        ELSE IF x \in DOMAIN data THEN Disjoint(refs[x - 1], data[x]) ELSE refs[x - 1]
  IN refs[to]

\* Serialise_DeviceMemoryRefs.  An interval that starts within a word shares it
\* with the one before and those that follow, the last of which goes on after it.
SerialiseTurn(t, data) ==
  LET begin      == t.at
      nextWord   == AlignUp(begin)
      word       == nextWord - Word
      k          == IF begin % Word = 0 THEN begin ELSE Find(data, nextWord - 1)
      overlapRef == OverlapRef(data, begin, k, t.lastRef)
      ref        == data[k]
      OnTo(ints, from, x) ==
        [ints |-> Place(ints, from, x, ref), last |-> x, lastRef |-> ref, at |-> Finish(data, k)]
  IN IF begin = Top THEN t
     ELSE IF begin % Word = 0 THEN OnTo(t.ints, t.last, begin)
     ELSE IF overlapRef = t.lastRef THEN OnTo(t.ints, t.last, nextWord)
     ELSE IF overlapRef = ref THEN OnTo(t.ints, t.last, word)
     ELSE OnTo(Place(t.ints, t.last, word, overlapRef), word, nextWord)

\* What a file with these references gives the replay.
Loaded(data) ==
  LET turns[n \in 0..Top] ==
        IF n = 0 THEN [ints |-> NoRefs, last |-> 0, lastRef |-> None, at |-> 0]
        ELSE SerialiseTurn(turns[n - 1], data)
  IN turns[Top].ints

-----------------------------------------------------------------------------
(* Properties: what intervals hold of each byte.  They depend on no          *)
(* variable, and are evaluated once, in the initial state.                   *)

Bytes == 0..(Top - 1)

Apart(ints) == \A s \in DOMAIN ints \ {0} : ints[s] # At(ints, s - 1)

\* The references that start at 0 and at some of the given bytes.
Intervals(starts, refs) ==
  {ints \in UNION {[{0} \cup S -> refs] : S \in SUBSET starts} : Apart(ints)}

Combined(refs) == IF ReadBeforeWrite \in refs THEN ReadBeforeWrite ELSE Largest(refs)

Together(ints, bytes) == Combined({Used(At(ints, x)) : x \in bytes} \cup {None})

\* After Update and Merge each byte has the reference that it would have alone,
\* no two neighbouring intervals are equal, and the result is the composition
\* over the bytes concerned.
UpdateIsPointwise(ints, offset, size, ref) ==
  LET bytes  == {x \in Bytes : offset <= x /\ x < offset + size}
      result == Update(ints, offset, size, ref)
  IN /\ \A x \in Bytes :
          At(result.ints, x) = IF x \in bytes THEN Compose(At(ints, x), ref) ELSE At(ints, x)
     /\ Apart(result.ints)
     /\ result.ref = Together(result.ints, bytes)

MergeIsPointwise(ints, other) ==
  LET result == Merge(ints, other)
  IN /\ \A x \in Bytes : At(result.ints, x) = Compose(At(ints, x), At(other, x))
     /\ Apart(result.ints)
     /\ result.ref = Together(result.ints, Bytes)

\* ResourceManager may look at ranges one by one, though cutting and joining move
\* what the loops of intervals.h walk along.
RangesArePointwise ==
  Init => \A ints \in Intervals(Cuts, {None, PartialWrite, Read}) :
    /\ \A offset \in {0, Top} \cup Cuts, size \in {0, Top} \cup Cuts,
          ref \in {PartialWrite, CompleteWrite, Read} :
         UpdateIsPointwise(ints, offset, size, ref)
    /\ \A other \in Intervals(Cuts, {None, PartialWrite, Read}) : MergeIsPointwise(ints, other)

Strength == [None |-> 0, Clear |-> 1, Copy |-> 2]

\* What is loaded starts at words, keeps the reference of a word whose bytes
\* have one, and is the composition of those of its bytes where they differ,
\* however many intervals share a word and wherever they go on: Serialise_
\* DeviceMemoryRefs neither loses an interval nor moves it over another.
LoadedExactly(ints) ==
  LET loaded == Loaded(ints)
  IN /\ \A s \in DOMAIN loaded : s % Word = 0
     /\ \A x \in Bytes :
          LET bytes == {y \in Bytes : y \div Word = x \div Word}
          IN At(loaded, x) = IF \A y \in bytes : At(ints, y) = At(ints, x)
                             THEN At(ints, x)
                             ELSE Together(ints, bytes)

\* What is restored for the word is enough for each byte, but for the two policies
\* that restore what was written and keep what was only read.
RestoredEnough(ints) ==
  \A x \in Bytes, policy \in {"NoOpt", "Fastest"}, initialized \in BOOLEAN :
    Strength[InitReq(At(ints, x), policy, initialized)]
      <= Strength[InitReq(At(Loaded(ints), x), policy, initialized)]

LoadedRefsExact ==
  Init => \A ints \in Intervals(FileCuts, {None, CompleteWrite, Read}) :
    LoadedExactly(ints) /\ RestoredEnough(ints)

=============================================================================
