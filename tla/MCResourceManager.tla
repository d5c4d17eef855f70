------------------------- MODULE MCResourceManager -------------------------
(* Small instances of ResourceManager for TLC.                               *)
EXTENDS MemRefs

Do(r, p, ref)  == [res |-> r, part |-> p, ref |-> ref, bound |-> FALSE]
Use(r, p, ref) == [res |-> r, part |-> p, ref |-> ref, bound |-> TRUE]

\* A memory allocation of two ranges without storage usage, of which one is bound as a
\* uniform buffer, and an image.
MemoryAndImage == <<2, 1>>
AllAccesses ==
  {Do(1, 1, CompleteWrite), Do(1, 1, Read), Do(1, 2, CompleteWrite), Use(1, 2, Read)}
    \cup {Do(2, 1, ref) : ref \in {PartialWrite, Read, CompleteWriteAndDiscard}}

\* Copies between the two ranges of such an allocation.
TwoParts == <<2>>
Copies == {Do(1, 1, Read), Do(1, 2, Read), Do(1, 2, CompleteWrite)}

=============================================================================
