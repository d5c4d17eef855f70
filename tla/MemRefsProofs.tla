---------------------------- MODULE MemRefsProofs ----------------------------
(***************************************************************************)
(* Theorems about MemRefs, for every map of intervals to references and    *)
(* every size of an allocation.                                            *)
(*                                                                         *)
(* A loop of intervals.h is a function from the number of turns to the     *)
(* state after them.  For each loop there is a lemma that the function     *)
(* exists (UpdateTurns, MergeTurns, SerialiseTurns, OverlapTurns), an      *)
(* invariant (Walked, with Beside for the other map; Serialised) that a    *)
(* turn keeps while the iterator moves up, and a lemma that the iterator   *)
(* has arrived when the turns are over.  Both inductions over the number   *)
(* of turns are by a least counterexample.                                 *)
(***************************************************************************)
EXTENDS MemRefs, ResourceManagerProofs, NaturalsInduction, WellFoundedInduction

-----------------------------------------------------------------------------
(* Maps of intervals.                                                        *)

\* Intervals: a function from starts, of which 0 is one, to references.
IsMap(ints) ==
  /\ ints = [s \in DOMAIN ints |-> ints[s]]
  /\ 0 \in DOMAIN ints /\ DOMAIN ints \subseteq Nat
  /\ \A s \in DOMAIN ints : ints[s] \in References

\* Of a memory allocation, which ends at Top.
InMemory(ints) == IsMap(ints) /\ DOMAIN ints \subseteq Bytes

\* A set of natural numbers has a least element, and a largest if it is bounded.
LEMMA LeastNatural ==
  ASSUME NEW T, T \subseteq Nat, T # {}
  PROVE  \E n \in T : \A m \in T : n <= m
<1> DEFINE R == {ss \in Nat \X Nat : ss[1] < ss[2]}
<1>1. IsWellFoundedOn(R, Nat)
  BY NatLessThanWellFounded DEF OpToRel
<1>2. PICK n \in T : \A m \in T : ~(<<m, n>> \in R)
  <2> HIDE DEF R
  <2> QED BY <1>1, WFMin
<1>3. ASSUME NEW m \in T PROVE n <= m
  <2>1. ~(<<m, n>> \in R)
    <3> HIDE DEF R
    <3> QED BY <1>2
  <2>2. <<m, n>> \in Nat \X Nat
    OBVIOUS
  <2> QED BY <2>1, <2>2
<1> HIDE DEF R
<1> QED BY <1>3

LEMMA LargestNatural ==
  ASSUME NEW T, T \subseteq Nat, T # {}, NEW bound \in Nat, \A n \in T : n <= bound
  PROVE  Largest(T) \in T /\ \A n \in T : n <= Largest(T)
<1> DEFINE Below == {bound - n : n \in T}
<1>1. Below \subseteq Nat /\ Below # {}
  <2>1. \A n \in T : bound - n \in Nat
    OBVIOUS
  <2> QED  BY <2>1
<1>2. PICK b \in Below : \A c \in Below : b <= c
  <2> HIDE DEF Below
  <2> QED  BY <1>1, LeastNatural
<1>3. PICK n \in T : b = bound - n
  BY <1>2
<1>4. ASSUME NEW m \in T
      PROVE  m <= n
  <2>1. bound - m \in Below /\ b <= bound - m
    BY <1>2
  <2> QED  BY <1>3, <2>1
<1> QED  BY <1>4 DEF Largest

\* The interval of a byte: the last that starts no later.
LEMMA FindIs ==
  ASSUME NEW ints, IsMap(ints), NEW x \in Nat
  PROVE  /\ Find(ints, x) \in DOMAIN ints /\ Find(ints, x) \in Nat /\ Find(ints, x) <= x
         /\ \A s \in DOMAIN ints : s <= x => s <= Find(ints, x)
         /\ At(ints, x) \in References
<1> DEFINE T == {s \in DOMAIN ints : s <= x}
<1>1. T \subseteq Nat /\ 0 \in T /\ \A n \in T : n <= x
  BY DEF IsMap
<1>2. Largest(T) \in T /\ \A n \in T : n <= Largest(T)
  <2> HIDE DEF T
  <2> QED  BY <1>1, LargestNatural
<1>3. Find(ints, x) = Largest(T)
  BY DEF Find
<1> HIDE DEF T
<1>4. Find(ints, x) \in T /\ \A s \in T : s <= Find(ints, x)
  BY <1>2, <1>3
<1> QED  BY <1>4 DEF T, IsMap, At

\* A byte's interval, known by what starts before it.
LEMMA FoundAt ==
  ASSUME NEW ints, IsMap(ints), NEW x \in Nat, NEW s \in DOMAIN ints, s <= x,
         \A y \in DOMAIN ints : y <= x => y <= s
  PROVE  Find(ints, x) = s /\ At(ints, x) = ints[s]
<1>1. /\ Find(ints, x) \in DOMAIN ints /\ Find(ints, x) \in Nat /\ Find(ints, x) <= x
      /\ s <= Find(ints, x)
  BY FindIs
<1>2. Find(ints, x) <= s /\ s \in Nat
  BY <1>1 DEF IsMap
<1> QED  BY <1>1, <1>2 DEF At

LEMMA StartAt ==
  ASSUME NEW ints, IsMap(ints), NEW s \in DOMAIN ints
  PROVE  Find(ints, s) = s /\ At(ints, s) = ints[s] /\ s \in Nat
<1>1. s \in Nat
  BY DEF IsMap
<1> QED  BY <1>1, FoundAt

\* Where an interval ends the next one starts, or nothing does.
LEMMA FinishIs ==
  ASSUME NEW ints, InMemory(ints), NEW s \in Bytes
  PROVE  /\ Finish(ints, s) \in Nat /\ s < Finish(ints, s) /\ Finish(ints, s) <= Top
         /\ Finish(ints, s) # Top => Finish(ints, s) \in DOMAIN ints
         /\ \A y \in DOMAIN ints : s < y => Finish(ints, s) <= y
<1> DEFINE above == {x \in DOMAIN ints : x > s}
<1>1. above \subseteq Nat /\ above \subseteq Bytes /\ \A x \in above : s < x /\ x < Top
  BY MemRefsAssumption DEF InMemory, IsMap, Bytes
<1>2. Finish(ints, s) = IF above = {} THEN Top ELSE Min(above)
  BY DEF Finish
<1>3. CASE above = {}
  BY <1>2, <1>3, MemRefsAssumption DEF Bytes
<1>4. CASE above # {}
  <2>1. PICK n \in above : \A m \in above : n <= m
    <3> HIDE DEF above
    <3> QED  BY <1>1, <1>4, LeastNatural
  <2>2. Min(above) \in above /\ \A m \in above : Min(above) <= m
    BY <2>1 DEF Min
  <2> QED  BY <1>1, <1>2, <1>4, <2>2, MemRefsAssumption DEF Bytes
<1> QED  BY <1>3, <1>4

LEMMA AtBefore ==
  ASSUME NEW ints, InMemory(ints), NEW s \in DOMAIN ints, NEW x \in Nat, s <= x, x < Finish(ints, s)
  PROVE  Find(ints, x) = s /\ At(ints, x) = ints[s]
<1>1. s \in Bytes /\ DOMAIN ints \subseteq Nat
  BY DEF InMemory, IsMap
<1>2. \A y \in DOMAIN ints : y <= x => y <= s
  BY <1>1, FinishIs
<1> QED  BY <1>2, FoundAt DEF InMemory

-----------------------------------------------------------------------------
(* Cutting, setting and joining intervals.                                   *)

\* Cutting adds a start and changes no byte.
LEMMA SplitIs ==
  ASSUME NEW ints, IsMap(ints), NEW x \in Nat
  PROVE  /\ IsMap(Split(ints, x)) /\ DOMAIN Split(ints, x) = DOMAIN ints \cup {x}
         /\ \A y \in Nat : At(Split(ints, x), y) = At(ints, y)
<1> DEFINE m == Split(ints, x)
<1>1. /\ m = [s \in DOMAIN m |-> m[s]] /\ DOMAIN m = DOMAIN ints \cup {x}
      /\ \A s \in DOMAIN m : m[s] = At(ints, s)
  BY DEF Split
<1> HIDE DEF m
<1>2. IsMap(m)
  <2>1. DOMAIN m \subseteq Nat /\ 0 \in DOMAIN m
    BY <1>1 DEF IsMap
  <2>2. ASSUME NEW s \in DOMAIN m PROVE m[s] \in References
    BY <1>1, <2>1, <2>2, FindIs
  <2> QED  BY <1>1, <2>1, <2>2 DEF IsMap
<1>3. ASSUME NEW y \in Nat
      PROVE  At(m, y) = At(ints, y)
  <2> DEFINE f == Find(m, y)
             e == Find(ints, y)
  <2>1. f \in DOMAIN m /\ f \in Nat /\ f <= y /\ (\A s \in DOMAIN m : s <= y => s <= f)
    BY <1>2, FindIs
  <2>2. e \in DOMAIN ints /\ e \in Nat /\ e <= y /\ (\A s \in DOMAIN ints : s <= y => s <= e)
    BY FindIs
  <2> HIDE DEF f, e
  <2>3. e <= f
    BY <1>1, <2>1, <2>2
  <2>4. \A s \in DOMAIN ints : s <= f => s <= e
    <3>1. DOMAIN ints \subseteq Nat
      BY DEF IsMap
    <3> QED  BY <2>1, <2>2, <3>1
  <2>5. At(ints, f) = ints[e]
    BY <2>1, <2>2, <2>3, <2>4, FoundAt
  <2> QED  BY <1>1, <2>1, <2>5 DEF At, e, f
<1> QED  BY <1>1, <1>2, <1>3 DEF m

\* Setting an interval changes its bytes.
Replaced(m, ints, s, r) == m = [ints EXCEPT ![s] = r]

LEMMA SetIs ==
  ASSUME NEW ints, IsMap(ints), NEW s \in DOMAIN ints, NEW r \in References,
         NEW m, Replaced(m, ints, s, r)
  PROVE  /\ IsMap(m) /\ DOMAIN m = DOMAIN ints
         /\ \A y \in Nat : At(m, y) = IF Find(ints, y) = s THEN r ELSE At(ints, y)
<1>1. /\ DOMAIN m = DOMAIN ints /\ m = [x \in DOMAIN m |-> m[x]]
      /\ \A x \in DOMAIN ints : m[x] = IF x = s THEN r ELSE ints[x]
  BY DEF IsMap, Replaced
<1>2. IsMap(m)
  BY <1>1 DEF IsMap
<1>3. ASSUME NEW y \in Nat
      PROVE  At(m, y) = IF Find(ints, y) = s THEN r ELSE At(ints, y)
  <2>1. Find(m, y) = Find(ints, y)
    BY <1>1 DEF Find
  <2>2. Find(ints, y) \in DOMAIN ints
    BY FindIs
  <2> QED  BY <1>1, <2>1, <2>2 DEF At
<1> QED  BY <1>1, <1>2, <1>3

\* Joining takes a start away, if it is not needed, and changes no byte.
LEMMA MergeLeftIs ==
  ASSUME NEW ints, IsMap(ints), NEW s \in DOMAIN ints, NEW m, m = MergeLeft(ints, s)
  PROVE  /\ IsMap(m) /\ DOMAIN m \subseteq DOMAIN ints /\ DOMAIN ints \ {s} \subseteq DOMAIN m
         /\ \A y \in Nat : At(m, y) = At(ints, y)
         /\ s \in DOMAIN m /\ s # 0 => At(ints, s) # At(ints, s - 1)
<1>1. s \in Nat /\ At(ints, s) = ints[s]
  BY StartAt
<1>2. CASE s # 0 /\ ints[s] = At(ints, s - 1)
  <2>1. m = [x \in DOMAIN ints \ {s} |-> ints[x]]
    BY <1>2 DEF MergeLeft, Restrict
  <2>2. IsMap(m) /\ DOMAIN m = DOMAIN ints \ {s} /\ \A x \in DOMAIN m : m[x] = ints[x]
    BY <1>2, <2>1 DEF IsMap
  <2>3. ASSUME NEW y \in Nat
        PROVE  At(m, y) = At(ints, y)
    <3> DEFINE e == Find(ints, y)
               p == Find(ints, s - 1)
    <3>1. e \in DOMAIN ints /\ e \in Nat /\ e <= y /\ (\A x \in DOMAIN ints : x <= y => x <= e)
      BY FindIs
    <3>2. p \in DOMAIN ints /\ p \in Nat /\ p <= s - 1 /\ (\A x \in DOMAIN ints : x <= s - 1 => x <= p)
      BY <1>1, <1>2, FindIs
    <3>3. At(ints, y) = ints[e] /\ At(ints, s - 1) = ints[p]
      BY DEF At
    <3> HIDE DEF e, p
    <3>4. CASE e # s
      <4>1. At(m, y) = m[e]
        BY <2>2, <3>1, <3>4, FoundAt
      <4> QED  BY <2>2, <3>1, <3>3, <3>4, <4>1
    <3>5. CASE e = s
      <4>1. p \in DOMAIN m /\ p <= y
        BY <1>1, <2>2, <3>1, <3>2, <3>5
      <4>2. ASSUME NEW x \in DOMAIN m, x <= y
            PROVE  x <= p
        <5>1. x \in DOMAIN ints /\ x # s /\ x \in Nat /\ x <= s
          BY <2>2, <3>1, <3>5, <4>2 DEF IsMap
        <5> QED  BY <1>1, <3>2, <5>1
      <4>3. At(m, y) = m[p]
        BY <2>2, <4>1, <4>2, FoundAt
      <4> QED  BY <1>2, <2>2, <3>3, <3>5, <4>1, <4>3
    <3> QED  BY <3>4, <3>5
  <2> QED  BY <2>2, <2>3
<1>3. CASE ~(s # 0 /\ ints[s] = At(ints, s - 1))
  BY <1>1, <1>3 DEF MergeLeft
<1> QED  BY <1>2, <1>3

\* A turn of a loop: the bytes of an interval, up to where it is cut, are composed.
LEMMA TouchIs ==
  ASSUME NEW ints, InMemory(ints), NEW s \in DOMAIN ints, NEW finish \in Nat, s < finish, finish <= Top,
         NEW r \in References, NEW m, m = Touch(ints, s, finish, r), NEW e, e = Finish(m, s)
  PROVE  /\ InMemory(m)
         /\ e \in Nat /\ s < e /\ e <= finish /\ (e # Top => e \in DOMAIN m)
         /\ \A y \in Bytes : s <= y /\ y < e => Find(ints, y) = s
         /\ \A y \in Bytes : At(m, y) = IF s <= y /\ y < e THEN Compose(ints[s], r) ELSE At(ints, y)
         /\ \A x \in DOMAIN m : x # e => x \in DOMAIN ints
         /\ s \in DOMAIN m /\ s # 0 => At(m, s) # At(m, s - 1)
         /\ \A x \in DOMAIN m : x <= s \/ e <= x
<1> DEFINE f   == Finish(ints, s)
           cut == IF f > finish THEN Split(ints, finish) ELSE ints
           set == [cut EXCEPT ![s] = Compose(@, r)]
           b   == IF f > finish THEN finish ELSE f
<1>1. /\ s \in Bytes /\ s \in Nat /\ Top \in Nat /\ IsMap(ints) /\ DOMAIN ints \subseteq Bytes
      /\ Bytes \subseteq Nat /\ \A y \in Bytes : y < Top
  BY MemRefsAssumption DEF InMemory, IsMap, Bytes
<1>2. /\ f \in Nat /\ s < f /\ f <= Top
      /\ f # Top => f \in DOMAIN ints
      /\ \A y \in DOMAIN ints : s < y => f <= y
  BY <1>1, FinishIs
<1> HIDE DEF f
<1>3. b \in Nat /\ s < b /\ b <= finish /\ b <= f
  BY <1>2
<1>4. /\ IsMap(cut) /\ DOMAIN cut \subseteq Bytes /\ s \in DOMAIN cut /\ cut[s] = ints[s]
      /\ \A y \in Nat : At(cut, y) = At(ints, y)
      /\ b # Top => b \in DOMAIN cut
      /\ \A y \in DOMAIN cut : s < y => b <= y
      /\ \A y \in DOMAIN cut : y # b => y \in DOMAIN ints
  <2>1. CASE f > finish
    <3>1. /\ IsMap(cut) /\ DOMAIN cut = DOMAIN ints \cup {finish}
          /\ \A y \in Nat : At(cut, y) = At(ints, y)
      BY <1>1, <2>1, SplitIs
    <3>2. finish \in Bytes
      BY <1>1, <1>2, <2>1 DEF Bytes
    <3>3. cut[s] = At(cut, s) /\ ints[s] = At(ints, s)
      BY <1>1, <3>1, StartAt
    <3>4. \A y \in DOMAIN cut : s < y => b <= y
      <4>1. \A y \in DOMAIN ints : y \in Nat
        BY <1>1
      <4> QED  BY <1>2, <2>1, <3>1, <4>1
    <3> QED  BY <1>1, <2>1, <3>1, <3>2, <3>3, <3>4
  <2>2. CASE ~(f > finish)
    <3>1. cut = ints /\ b = f
      BY <2>2
    <3>2. \A y \in DOMAIN ints : y \in Nat
      BY <1>1
    <3> HIDE DEF cut, b
    <3> QED  BY <1>1, <1>2, <3>1, <3>2
  <2> QED  BY <2>1, <2>2
<1>5. m = MergeLeft(set, s)
  BY DEF Touch, f
<1> HIDE DEF cut, b
<1>6. Compose(ints[s], r) \in References /\ set = [cut EXCEPT ![s] = Compose(ints[s], r)]
  BY <1>1, <1>4, ComposeType DEF IsMap
<1> HIDE DEF set
<1>7. /\ IsMap(set) /\ DOMAIN set = DOMAIN cut
      /\ \A y \in Nat : At(set, y) = IF Find(cut, y) = s THEN Compose(ints[s], r) ELSE At(cut, y)
  <2> DEFINE c == Compose(ints[s], r)
  <2>1. c \in References /\ Replaced(set, cut, s, c)
    BY <1>6 DEF Replaced
  <2> HIDE DEF c
  <2>2. /\ IsMap(set) /\ DOMAIN set = DOMAIN cut
        /\ \A y \in Nat : At(set, y) = IF Find(cut, y) = s THEN c ELSE At(cut, y)
    BY <1>4, <2>1, SetIs
  <2> QED  BY <2>2 DEF c
<1>8. /\ IsMap(m) /\ DOMAIN m \subseteq DOMAIN set /\ DOMAIN set \ {s} \subseteq DOMAIN m
      /\ \A y \in Nat : At(m, y) = At(set, y)
      /\ s \in DOMAIN m /\ s # 0 => At(set, s) # At(set, s - 1)
  BY <1>4, <1>5, <1>7, MergeLeftIs
<1>9. InMemory(m)
  BY <1>4, <1>7, <1>8 DEF InMemory
<1>10. e = b
  <2>1. /\ e \in Nat /\ s < e /\ e <= Top /\ (e # Top => e \in DOMAIN m)
        /\ \A y \in DOMAIN m : s < y => e <= y
    BY <1>1, <1>9, FinishIs
  <2>2. e # Top => b <= e
    BY <1>4, <1>7, <1>8, <2>1
  <2>3. b # Top => e <= b
    BY <1>3, <1>4, <1>7, <1>8, <2>1
  <2> QED  BY <1>1, <1>2, <1>3, <2>1, <2>2, <2>3
<1>11. \A y \in Bytes : Find(cut, y) = s <=> s <= y /\ y < b
  <2> SUFFICES ASSUME NEW y \in Bytes PROVE Find(cut, y) = s <=> s <= y /\ y < b
    OBVIOUS
  <2>1. /\ Find(cut, y) \in DOMAIN cut /\ Find(cut, y) \in Nat /\ Find(cut, y) <= y
        /\ \A x \in DOMAIN cut : x <= y => x <= Find(cut, y)
    BY <1>1, <1>4, FindIs
  <2>2. ASSUME s <= y, y < b
        PROVE  Find(cut, y) = s
    <3>1. s <= Find(cut, y)
      BY <1>4, <2>1, <2>2
    <3>2. ~(s < Find(cut, y))
      BY <1>1, <1>3, <1>4, <2>1, <2>2
    <3> QED  BY <1>1, <2>1, <3>1, <3>2
  <2>3. ASSUME Find(cut, y) = s
        PROVE  s <= y /\ y < b
    <3>1. s <= y
      BY <2>1, <2>3
    <3>2. b = Top \/ ~(b <= y)
      BY <1>3, <1>4, <2>1, <2>3
    <3> QED  BY <1>1, <1>3, <3>1, <3>2
  <2> QED  BY <2>2, <2>3
<1>12. \A y \in Bytes : s <= y /\ y < b => Find(ints, y) = s
  <2> SUFFICES ASSUME NEW y \in Bytes, s <= y, y < b PROVE Find(ints, y) = s
    OBVIOUS
  <2>1. y \in Nat /\ y < f
    BY <1>1, <1>2, <1>3
  <2> QED  BY <2>1, AtBefore DEF f
<1>13. \A y \in Bytes : At(m, y) = IF s <= y /\ y < b THEN Compose(ints[s], r) ELSE At(ints, y)
  BY <1>1, <1>4, <1>7, <1>8, <1>11
<1>14. s \in DOMAIN m /\ s # 0 => At(m, s) # At(m, s - 1)
  BY <1>1, <1>8
<1>15. \A x \in DOMAIN m : x <= s \/ b <= x
  BY <1>1, <1>4, <1>7, <1>8
<1> QED  BY <1>3, <1>4, <1>7, <1>8, <1>9, <1>10, <1>12, <1>13, <1>14, <1>15

-----------------------------------------------------------------------------
(* References together.                                                      *)

LEMMA ReferenceValues ==
  /\ References = 0..6 /\ None = 0 /\ PartialWrite = 1 /\ CompleteWrite = 2 /\ Read = 3
  /\ ReadBeforeWrite = 4 /\ WriteBeforeRead = 5 /\ CompleteWriteAndDiscard = 6
BY DEF References, None, PartialWrite, CompleteWrite, Read, ReadBeforeWrite, WriteBeforeRead,
       CompleteWriteAndDiscard

LEMMA CombinedIs ==
  ASSUME NEW R, R \subseteq References, None \in R
  PROVE  /\ Combined(R) \in R
         /\ ReadBeforeWrite \in R => Combined(R) = ReadBeforeWrite
         /\ ReadBeforeWrite \notin R => \A x \in R : x <= Combined(R)
<1>1. R \subseteq Nat /\ R # {} /\ \A n \in R : n <= 6
  BY ReferenceValues
<1>2. Largest(R) \in R /\ \A n \in R : n <= Largest(R)
  BY <1>1, LargestNatural
<1> QED  BY <1>2 DEF Combined

LEMMA CombinedStep ==
  ASSUME NEW R, R \subseteq References, None \in R, CompleteWriteAndDiscard \notin R,
         NEW v \in References
  PROVE  Combined(R \cup {Used(v)}) = Disjoint(Combined(R), v)
<1> DEFINE R2 == R \cup {Used(v)}
           c  == Combined(R)
           c2 == Combined(R2)
<1>1. Used(v) \in References /\ (Used(v) = ReadBeforeWrite <=> v = ReadBeforeWrite)
  BY ReferenceValues DEF Used
<1>2. /\ c \in R /\ (ReadBeforeWrite \in R => c = ReadBeforeWrite)
      /\ ReadBeforeWrite \notin R => \A x \in R : x <= c
  BY CombinedIs
<1>3. /\ c2 \in R2 /\ (ReadBeforeWrite \in R2 => c2 = ReadBeforeWrite)
      /\ ReadBeforeWrite \notin R2 => \A x \in R2 : x <= c2
  <2>1. R2 \subseteq References /\ None \in R2
    BY <1>1
  <2> HIDE DEF R2
  <2> QED  BY <2>1, CombinedIs
<1>4. Used(c) = c /\ c \in Nat /\ Used(v) \in Nat
  <2> HIDE DEF c
  <2>1. c \in References /\ c # CompleteWriteAndDiscard
    BY <1>2
  <2> QED  BY <1>1, <2>1, ReferenceValues DEF Used
<1> HIDE DEF c, c2
<1>5. CASE ReadBeforeWrite \in R2
  <2>1. v = ReadBeforeWrite \/ c = ReadBeforeWrite
    BY <1>1, <1>2, <1>5
  <2> QED  BY <1>3, <1>5, <2>1 DEF Disjoint, c, c2
<1>6. CASE ReadBeforeWrite \notin R2
  <2>1. v # ReadBeforeWrite /\ c # ReadBeforeWrite
    BY <1>1, <1>2, <1>6
  <2>2. Disjoint(c, v) = IF c < Used(v) THEN Used(v) ELSE c
    BY <1>4, <2>1 DEF Disjoint
  <2>3. c <= c2 /\ Used(v) <= c2 /\ (c2 = Used(v) \/ c2 <= c) /\ c2 \in Nat
    BY <1>1, <1>2, <1>3, <1>4, <1>6, ReferenceValues
  <2>4. c2 = Disjoint(c, v)
    BY <1>4, <2>2, <2>3
  <2> QED  BY <2>4 DEF c, c2
<1> QED  BY <1>5, <1>6

\* What is together of no bytes, and of some more bytes that have one reference.
LEMMA TogetherNone ==
  ASSUME NEW ints, NEW B, B = {}
  PROVE  Together(ints, B) = None
<1>1. {Used(At(ints, x)) : x \in B} \cup {None} = {None}
  OBVIOUS
<1>2. Combined({None}) \in {None}
  BY CombinedIs, ReferenceValues
<1> QED  BY <1>1, <1>2 DEF Together

LEMMA TogetherStep ==
  ASSUME NEW ints, NEW next, NEW B, NEW D, D # {}, NEW v \in References,
         \A y \in B : At(ints, y) \in References /\ At(next, y) = At(ints, y),
         \A y \in D : At(next, y) = v
  PROVE  Together(next, B \cup D) = Disjoint(Together(ints, B), v)
<1> DEFINE R == {Used(At(ints, x)) : x \in B} \cup {None}
<1>1. {Used(At(next, x)) : x \in B \cup D} \cup {None} = R \cup {Used(v)}
  OBVIOUS
<1>2. \A w \in References : Used(w) \in References /\ Used(w) # CompleteWriteAndDiscard
  BY ReferenceValues DEF Used
<1>3. R \subseteq References /\ None \in R /\ CompleteWriteAndDiscard \notin R
  <2>1. None \in References /\ None # CompleteWriteAndDiscard
    BY ReferenceValues
  <2> QED  BY <1>2, <2>1
<1> HIDE DEF R
<1>4. Combined(R \cup {Used(v)}) = Disjoint(Combined(R), v)
  BY <1>3, CombinedStep
<1> QED  BY <1>1, <1>4 DEF Together, R

-----------------------------------------------------------------------------
(* The loops of Update and Merge.                                            *)

\* The bytes from offset to at are composed with what with gives them, and no two
\* neighbouring intervals are equal, but perhaps at at.
Walked(ints, with, offset, t) ==
  /\ InMemory(t.ints)
  /\ t.at \in Nat /\ offset <= t.at /\ t.at <= Top /\ (t.at # Top => t.at \in DOMAIN t.ints)
  /\ \A y \in Bytes :
       At(t.ints, y) = IF offset <= y /\ y < t.at THEN Compose(At(ints, y), with[y]) ELSE At(ints, y)
  /\ \A x \in DOMAIN t.ints : x # 0 /\ x # t.at => At(t.ints, x) # At(t.ints, x - 1)
  /\ t.ref = Together(t.ints, {y \in Bytes : offset <= y /\ y < t.at})

\* A turn, which composes the interval up to finish or its end.
Turns(t, u, finish, r) ==
  /\ u.ints = Touch(t.ints, t.at, finish, r)
  /\ u.at = Finish(u.ints, t.at)
  /\ u.ref = Disjoint(t.ref, Compose(t.ints[t.at], r))

LEMMA TurnWalks ==
  ASSUME NEW ints, NEW with, NEW offset \in Nat, NEW t, Walked(ints, with, offset, t), t.at # Top,
         NEW finish \in Nat, t.at < finish, finish <= Top,
         NEW r \in References, \A y \in Bytes : t.at <= y /\ y < finish => with[y] = r,
         NEW u, Turns(t, u, finish, r)
  PROVE  Walked(ints, with, offset, u) /\ t.at < u.at /\ u.at <= finish
<1> DEFINE m == t.ints
           s == t.at
           k == u.ints
           e == u.at
<1>1. /\ InMemory(m) /\ IsMap(m) /\ DOMAIN m \subseteq Bytes /\ s \in DOMAIN m
      /\ s \in Nat /\ offset <= s /\ s < Top
      /\ Top \in Nat /\ Bytes \subseteq Nat /\ \A y \in Nat : y \in Bytes <=> y < Top
  BY MemRefsAssumption DEF Walked, InMemory, IsMap, Bytes
<1>2. /\ \A y \in Bytes :
           At(m, y) = IF offset <= y /\ y < s THEN Compose(At(ints, y), with[y]) ELSE At(ints, y)
      /\ \A x \in DOMAIN m : x # 0 /\ x # s => At(m, x) # At(m, x - 1)
      /\ t.ref = Together(m, {y \in Bytes : offset <= y /\ y < s})
  BY DEF Walked
<1>3. k = Touch(m, s, finish, r) /\ e = Finish(k, s) /\ u.ref = Disjoint(t.ref, Compose(m[s], r))
  BY DEF Turns
<1> HIDE DEF m, s, k, e
<1>4. /\ InMemory(k)
      /\ e \in Nat /\ s < e /\ e <= finish /\ (e # Top => e \in DOMAIN k)
      /\ \A y \in Bytes : s <= y /\ y < e => Find(m, y) = s
      /\ \A y \in Bytes : At(k, y) = IF s <= y /\ y < e THEN Compose(m[s], r) ELSE At(m, y)
      /\ \A x \in DOMAIN k : x # e => x \in DOMAIN m
      /\ s \in DOMAIN k /\ s # 0 => At(k, s) # At(k, s - 1)
      /\ \A x \in DOMAIN k : x <= s \/ e <= x
  BY <1>1, <1>3, TouchIs DEF s
<1>5. ASSUME NEW y \in Bytes
      PROVE  At(k, y) = IF offset <= y /\ y < e THEN Compose(At(ints, y), with[y]) ELSE At(ints, y)
  <2>1. CASE s <= y /\ y < e
    <3>1. At(m, y) = m[s] /\ At(m, y) = At(ints, y)
      BY <1>1, <1>2, <1>4, <2>1 DEF At
    <3>2. with[y] = r /\ offset <= y
      BY <1>1, <1>4, <2>1 DEF s
    <3> QED  BY <1>4, <2>1, <3>1, <3>2
  <2>2. CASE ~(s <= y /\ y < e)
    <3>1. At(k, y) = At(m, y)
      BY <1>4, <2>2
    <3>2. (offset <= y /\ y < e) <=> (offset <= y /\ y < s)
      BY <1>1, <1>4, <2>2
    <3> QED  BY <1>2, <3>1, <3>2
  <2> QED  BY <2>1, <2>2
<1>6. ASSUME NEW x \in DOMAIN k, x # 0, x # e
      PROVE  At(k, x) # At(k, x - 1)
  <2>1. x \in Bytes /\ x \in Nat /\ x - 1 \in Bytes /\ x - 1 \in Nat
    <3>1. x \in Bytes
      BY <1>4 DEF InMemory
    <3> QED  BY <1>6, <3>1, MemRefsAssumption DEF Bytes
  <2>2. CASE x = s
    BY <1>4, <1>6, <2>2
  <2>3. CASE x # s
    <3>1. At(m, x) # At(m, x - 1)
      <4>1. x \in DOMAIN m
        BY <1>4, <1>6
      <4> QED  BY ONLY <1>2, <1>6, <2>3, <4>1
    <3>2. x < s \/ e < x
      BY <1>1, <1>4, <1>6, <2>1, <2>3
    <3>3. At(k, x) = At(m, x) /\ At(k, x - 1) = At(m, x - 1)
      BY <1>1, <1>4, <2>1, <3>2
    <3> QED  BY <3>1, <3>3
  <2> QED  BY <2>2, <2>3
<1>7. u.ref = Together(k, {y \in Bytes : offset <= y /\ y < e})
  <2> DEFINE B == {y \in Bytes : offset <= y /\ y < s}
             D == {y \in Bytes : s <= y /\ y < e}
             v == Compose(m[s], r)
  <2>1. B \cup D = {y \in Bytes : offset <= y /\ y < e}
    <3>1. \A y \in Bytes : offset <= y /\ y < e <=> (offset <= y /\ y < s) \/ (s <= y /\ y < e)
      BY <1>1, <1>4
    <3> QED  BY <3>1
  <2>2. s \in D
    BY <1>1, <1>4
  <2>3. v \in References
    BY <1>1, ComposeType DEF IsMap
  <2>4. \A y \in D : At(k, y) = v
    BY <1>4
  <2>5. \A y \in B : At(m, y) \in References /\ At(k, y) = At(m, y)
    BY <1>1, <1>4, FindIs
  <2> HIDE DEF B, D, v
  <2>6. Together(k, B \cup D) = Disjoint(Together(m, B), v)
    BY <2>2, <2>3, <2>4, <2>5, TogetherStep
  <2> QED  BY <1>2, <1>3, <2>1, <2>6 DEF B, v
<1> QED  BY <1>1, <1>4, <1>5, <1>6, <1>7, MemRefsAssumption DEF Walked, s, k, e

\* The loop of Intervals::update, as a function of the number of turns.
LEMMA UpdateTurns ==
  ASSUME NEW ints, NEW offset, NEW finish, NEW ref
  PROVE  \E turns :
           /\ turns[0] = [ints |-> Split(ints, offset), at |-> offset, ref |-> None]
           /\ \A n \in 1..Top : turns[n] = UpdateTurn(turns[n - 1], finish, ref)
           /\ UpdateLoop(ints, offset, finish, ref) = turns[Top]
<1> DEFINE first == [ints |-> Split(ints, offset), at |-> offset, ref |-> None]
           Step(t) == UpdateTurn(t, finish, ref)
           F(g, b) == [n \in 0..b |-> IF n = 0 THEN first ELSE Step(g[n - 1])]
           Bad     == {b \in Nat : ~\E g : g = F(g, b)}
<1>1. UpdateLoop(ints, offset, finish, ref) = (CHOOSE g : g = F(g, Top))[Top]
  BY DEF UpdateLoop
<1> HIDE DEF first, Step
<1>2. Bad = {}
  <2> SUFFICES ASSUME Bad # {} PROVE FALSE
    OBVIOUS
  <2>1. PICK b \in Bad : \A c \in Bad : b <= c
    <3>1. Bad \subseteq Nat
      OBVIOUS
    <3> HIDE DEF Bad
    <3> QED  BY <3>1, LeastNatural
  <2>2. b \in Nat /\ ~\E g : g = F(g, b)
    BY <2>1
  <2>3. b # 0
    <3> DEFINE h == [n \in 0..0 |-> first]
    <3>1. h = F(h, 0)
      OBVIOUS
    <3> QED  BY <2>2, <3>1
  <2>4. b - 1 \in Nat
    BY <2>2, <2>3
  <2>5. b - 1 \notin Bad
    <3> HIDE DEF Bad
    <3> QED  BY <2>1, <2>2, <2>4
  <2>6. PICK g : g = F(g, b - 1)
    BY <2>4, <2>5
  <2> DEFINE h == [n \in 0..b |-> IF n = b THEN Step(g[b - 1]) ELSE g[n]]
  <2>7. ASSUME NEW n \in 0..b
        PROVE  h[n] = F(h, b)[n]
    <3>1. CASE n = b
      BY <2>2, <2>3, <2>4, <3>1
    <3>2. CASE n # b
      <4>1. n \in 0..(b - 1) /\ (n # 0 => n - 1 \in 0..(b - 1) /\ n - 1 \in 0..b /\ n - 1 # b)
        BY <2>2, <3>2
      <4>2. g[n] = IF n = 0 THEN first ELSE Step(g[n - 1])
        BY <2>6, <4>1
      <4> QED  BY <3>2, <4>1, <4>2
    <3> QED  BY <3>1, <3>2
  <2>8. h = F(h, b)
    BY <2>7
  <2> QED  BY <2>2, <2>8
<1>3. \E g : g = F(g, Top)
  BY <1>2, MemRefsAssumption
<1> DEFINE g == CHOOSE g : g = F(g, Top)
<1>4. g = F(g, Top)
  BY <1>3
<1> HIDE DEF g
<1>5. /\ g[0] = first /\ \A n \in 1..Top : g[n] = Step(g[n - 1])
  <2>1. 0 \in 0..Top /\ \A n \in 1..Top : n \in 0..Top /\ n # 0
    BY MemRefsAssumption
  <2> QED  BY <1>4, <2>1
<1>6. UpdateLoop(ints, offset, finish, ref) = g[Top]
  BY <1>1 DEF g
<1> QED  BY <1>5, <1>6 DEF first, Step

\* The intervals that the properties are about are intervals of a memory allocation.
LEMMA IntervalsAre ==
  ASSUME NEW starts, starts \subseteq 1..(Top - 1), NEW refs, refs \subseteq References,
         NEW ints \in Intervals(starts, refs)
  PROVE  InMemory(ints) /\ Apart(ints) /\ \A s \in DOMAIN ints : ints[s] \in refs
<1>1. PICK S \in SUBSET starts : ints \in [{0} \cup S -> refs]
  BY DEF Intervals
<1>2. \A s \in 1..(Top - 1) : s \in Nat /\ s \in Bytes
  BY MemRefsAssumption DEF Bytes
<1>3. 0 \in Nat /\ 0 \in Bytes
  BY MemRefsAssumption DEF Bytes, Word
<1>4. InMemory(ints)
  BY <1>1, <1>2, <1>3 DEF InMemory, IsMap
<1>5. Apart(ints)
  BY DEF Intervals
<1> QED  BY <1>1, <1>4, <1>5

LEMMA AreIntervals ==
  ASSUME NEW ints, InMemory(ints), Apart(ints)
  PROVE  ints \in Intervals(1..(Top - 1), References)
<1> DEFINE S == DOMAIN ints \ {0}
<1>1. S \in SUBSET (1..(Top - 1)) /\ DOMAIN ints = {0} \cup S
  <2>1. \A s \in Bytes : s # 0 => s \in 1..(Top - 1)
    BY MemRefsAssumption DEF Bytes
  <2>2. 0 \in DOMAIN ints /\ DOMAIN ints \subseteq Bytes
    BY DEF InMemory, IsMap
  <2> QED  BY <2>1, <2>2
<1>2. ints \in [{0} \cup S -> References]
  BY <1>1 DEF InMemory, IsMap
<1> HIDE DEF S
<1> QED  BY <1>1, <1>2 DEF Intervals

LEMMA FirstWalks ==
  ASSUME NEW ints, InMemory(ints), Apart(ints), NEW with, NEW t, InMemory(t.ints),
         \A y \in Nat : At(t.ints, y) = At(ints, y),
         t.at \in DOMAIN t.ints, \A x \in DOMAIN t.ints : x # t.at => x \in DOMAIN ints,
         t.ref = None
  PROVE  Walked(ints, with, t.at, t)
<1>1. /\ IsMap(ints) /\ t.at \in Nat /\ t.at < Top /\ t.at <= Top /\ t.at <= t.at
      /\ DOMAIN ints \subseteq Nat /\ Bytes \subseteq Nat
  BY MemRefsAssumption DEF InMemory, IsMap, Bytes
<1>2. \A y \in Bytes : ~(t.at <= y /\ y < t.at)
  <2>1. \A y, z \in Nat : ~(z <= y /\ y < z)
    OBVIOUS
  <2> QED  BY <1>1, <2>1
<1>3. ASSUME NEW x \in DOMAIN t.ints, x # 0, x # t.at
      PROVE  At(t.ints, x) # At(t.ints, x - 1)
  <2>1. x \in DOMAIN ints \ {0} /\ x \in Nat /\ x - 1 \in Nat
    BY <1>1, <1>3
  <2>2. ints[x] # At(ints, x - 1) /\ At(ints, x) = ints[x]
    BY <1>1, <2>1, StartAt DEF Apart
  <2> QED  BY <2>1, <2>2
<1>4. t.ref = Together(t.ints, {y \in Bytes : t.at <= y /\ y < t.at})
  <2>1. {y \in Bytes : t.at <= y /\ y < t.at} = {}
    BY <1>2
  <2> QED  BY <2>1, TogetherNone
<1>5. \A y \in Bytes : At(t.ints, y) = At(ints, y)
  BY <1>1
<1> QED  BY <1>1, <1>2, <1>3, <1>4, <1>5 DEF Walked

\* After the loop the interval that it stopped at is joined too.
LEMMA WalkedApart ==
  ASSUME NEW ints, NEW with, NEW offset, NEW t, Walked(ints, with, offset, t),
         NEW m, m = IF t.at = Top THEN t.ints ELSE MergeLeft(t.ints, t.at)
  PROVE  InMemory(m) /\ Apart(m) /\ \A y \in Nat : At(m, y) = At(t.ints, y)
<1>1. /\ InMemory(t.ints) /\ IsMap(t.ints) /\ (t.at # Top => t.at \in DOMAIN t.ints)
      /\ \A x \in DOMAIN t.ints : x # 0 /\ x # t.at => At(t.ints, x) # At(t.ints, x - 1)
      /\ \A x \in DOMAIN t.ints : x \in Nat /\ x # Top
  BY MemRefsAssumption DEF Walked, InMemory, IsMap, Bytes
<1>2. /\ IsMap(m) /\ DOMAIN m \subseteq DOMAIN t.ints /\ \A y \in Nat : At(m, y) = At(t.ints, y)
      /\ t.at \in DOMAIN m /\ t.at # 0 => At(t.ints, t.at) # At(t.ints, t.at - 1)
  <2>1. CASE t.at = Top
    BY <1>1, <2>1
  <2>2. CASE t.at # Top
    <3>1. t.at \in DOMAIN t.ints /\ m = MergeLeft(t.ints, t.at)
      BY <1>1, <2>2
    <3> QED  BY <1>1, <3>1, MergeLeftIs
  <2> QED  BY <2>1, <2>2
<1>3. InMemory(m)
  BY <1>1, <1>2 DEF InMemory
<1>4. ASSUME NEW x \in DOMAIN m, x # 0
      PROVE  m[x] # At(m, x - 1)
  <2>1. x \in DOMAIN t.ints /\ x \in Nat /\ x - 1 \in Nat
    BY <1>1, <1>2, <1>4
  <2>2. At(t.ints, x) # At(t.ints, x - 1)
    BY <1>1, <1>2, <1>4, <2>1
  <2>3. m[x] = At(m, x)
    BY <1>2, StartAt
  <2> QED  BY <1>2, <2>1, <2>2, <2>3
<1> QED  BY <1>2, <1>3, <1>4 DEF Apart

LEMMA TogetherSame ==
  ASSUME NEW ints, NEW m, NEW B, \A y \in B : At(m, y) = At(ints, y)
  PROVE  Together(m, B) = Together(ints, B)
<1>1. {Used(At(m, x)) : x \in B} = {Used(At(ints, x)) : x \in B}
  OBVIOUS
<1> QED  BY <1>1 DEF Together

LEMMA UpdateWalked ==
  ASSUME NEW ints, InMemory(ints), Apart(ints), NEW offset \in Nat, NEW finish \in Nat,
         offset < finish, finish <= Top, NEW ref \in References,
         NEW with, \A y \in Bytes : with[y] = ref,
         NEW done, done = UpdateLoop(ints, offset, finish, ref)
  PROVE  Walked(ints, with, offset, done) /\ done.at = finish
<1>1. PICK turns :
        /\ turns[0] = [ints |-> Split(ints, offset), at |-> offset, ref |-> None]
        /\ \A n \in 1..Top : turns[n] = UpdateTurn(turns[n - 1], finish, ref)
        /\ done = turns[Top]
  BY UpdateTurns
<1> DEFINE Inv(t, n) == /\ Walked(ints, with, offset, t) /\ t.at <= finish
                        /\ t.at = finish \/ offset + n <= t.at
           Bad == {n \in 0..Top : ~Inv(turns[n], n)}
<1>2. Top \in Nat
  BY MemRefsAssumption
<1>3. ASSUME NEW t, NEW n \in Nat, Inv(t, n)
      PROVE  Inv(UpdateTurn(t, finish, ref), n + 1)
  <2> DEFINE u == UpdateTurn(t, finish, ref)
  <2>1. Walked(ints, with, offset, t) /\ t.at <= finish /\ t.at \in Nat
    BY <1>3 DEF Walked
  <2>2. CASE t.at >= finish
    <3>1. u = t /\ t.at = finish
      BY <2>1, <2>2 DEF UpdateTurn
    <3> QED  BY <1>3, <3>1
  <2>3. CASE ~(t.at >= finish)
    <3>1. t.at < finish /\ t.at # Top
      BY <1>2, <2>1, <2>3
    <3>2. Turns(t, u, finish, ref)
      BY <2>3 DEF UpdateTurn, Turns
    <3> HIDE DEF u
    <3>3. Walked(ints, with, offset, u) /\ t.at < u.at /\ u.at <= finish
      BY <2>1, <3>1, <3>2, TurnWalks
    <3>4. u.at \in Nat /\ offset + n <= t.at
      BY <1>3, <3>1, <3>3 DEF Walked
    <3>5. offset + (n + 1) <= u.at
      BY <2>1, <3>3, <3>4
    <3> QED  BY <3>3, <3>5 DEF u
  <2> QED  BY <2>2, <2>3
<1>4. Inv(turns[0], 0)
  <2> DEFINE t == turns[0]
  <2>1. IsMap(ints) /\ t.ints = Split(ints, offset) /\ t.at = offset /\ t.ref = None
    BY <1>1 DEF InMemory
  <2>2. /\ IsMap(t.ints) /\ DOMAIN t.ints = DOMAIN ints \cup {offset}
        /\ \A y \in Nat : At(t.ints, y) = At(ints, y)
    <3>1. /\ IsMap(Split(ints, offset)) /\ DOMAIN Split(ints, offset) = DOMAIN ints \cup {offset}
          /\ \A y \in Nat : At(Split(ints, offset), y) = At(ints, y)
      BY <2>1, SplitIs
    <3> HIDE DEF t
    <3> QED  BY <2>1, <3>1
  <2>3. InMemory(t.ints)
    <3>1. offset \in Bytes
      BY <1>2 DEF Bytes
    <3> QED  BY <2>2, <3>1 DEF InMemory
  <2> HIDE DEF t
  <2>4. Walked(ints, with, t.at, t)
    BY <2>1, <2>2, <2>3, FirstWalks
  <2> QED  BY <2>1, <2>4 DEF t
<1>5. Bad = {}
  <2> SUFFICES ASSUME Bad # {} PROVE FALSE
    OBVIOUS
  <2> HIDE DEF Inv
  <2>1. PICK b \in Bad : \A c \in Bad : b <= c
    <3>1. Bad \subseteq Nat
      OBVIOUS
    <3> HIDE DEF Bad
    <3> QED  BY <3>1, LeastNatural
  <2>2. b \in 1..Top /\ b - 1 \in 0..Top /\ b - 1 \in Nat /\ (b - 1) + 1 = b /\ ~(b <= b - 1)
    BY <1>2, <1>4, <2>1
  <2>3. Inv(turns[b - 1], b - 1)
    BY <2>1, <2>2
  <2>4. Inv(turns[b], b)
    BY <1>1, <1>3, <2>2, <2>3
  <2> QED  BY <2>1, <2>4
<1>6. Inv(done, Top)
  <2> HIDE DEF Inv
  <2> QED  BY <1>1, <1>2, <1>5
<1>7. done.at \in Nat
  BY <1>6 DEF Walked
<1> QED  BY <1>2, <1>6, <1>7

\* MemRefs::Update (vk_resources.h:2267), for every map, range and reference: each
\* byte of the range is composed on its own, no other byte changes, neighbouring
\* intervals differ, and the result is what the bytes of the range are together.
THEOREM UpdatePointwise ==
  ASSUME NEW ints \in Intervals(1..(Top - 1), References), NEW offset \in 0..Top, NEW size \in 0..Top,
         NEW ref \in References
  PROVE  /\ UpdateIsPointwise(ints, offset, size, ref)
         /\ Update(ints, offset, size, ref).ints \in Intervals(1..(Top - 1), References)
<1> DEFINE finish == offset + (IF size < Top - offset THEN size ELSE Top - offset)
           bytes  == {x \in Bytes : offset <= x /\ x < offset + size}
           done   == UpdateLoop(ints, offset, finish, ref)
           with   == [y \in Bytes |-> ref]
           result == Update(ints, offset, size, ref)
<1>1. InMemory(ints) /\ Apart(ints)
  BY IntervalsAre
<1>2. /\ Top \in Nat /\ offset \in Nat /\ size \in Nat /\ finish \in Nat /\ finish <= Top
      /\ \A x \in Bytes : x < offset + size <=> x < finish
  BY MemRefsAssumption DEF Bytes
<1>3. result = IF finish <= offset THEN [ints |-> ints, ref |-> None]
               ELSE [ints |-> IF done.at = Top THEN done.ints ELSE MergeLeft(done.ints, done.at),
                     ref  |-> done.ref]
  BY DEF Update
<1> HIDE DEF finish, result
<1>4. CASE finish <= offset
  <2>1. result.ints = ints /\ result.ref = None
    BY <1>3, <1>4
  <2>2. bytes = {}
    <3>1. \A x \in Bytes : x \in Nat /\ ~(offset <= x /\ x < finish)
      BY <1>2, <1>4 DEF Bytes
    <3> QED  BY <1>2, <3>1
  <2>3. result.ref = Together(result.ints, bytes)
    <3> HIDE DEF bytes
    <3> QED  BY <2>1, <2>2, TogetherNone
  <2>4. UpdateIsPointwise(ints, offset, size, ref)
    BY <1>1, <2>1, <2>2, <2>3 DEF UpdateIsPointwise, result
  <2> QED  BY <2>1, <2>4 DEF result, Intervals
<1>5. CASE ~(finish <= offset)
  <2>1. offset < finish
    BY <1>2, <1>5
  <2>2. Walked(ints, with, offset, done) /\ done.at = finish
    <3>1. \A y \in Bytes : with[y] = ref
      OBVIOUS
    <3> HIDE DEF with
    <3> QED  BY <1>1, <1>2, <2>1, <3>1, UpdateWalked
  <2> HIDE DEF done, with
  <2>3. /\ result.ints = IF done.at = Top THEN done.ints ELSE MergeLeft(done.ints, done.at)
        /\ result.ref = done.ref
    BY <1>3, <1>5
  <2>4. /\ InMemory(result.ints) /\ Apart(result.ints)
        /\ \A y \in Nat : At(result.ints, y) = At(done.ints, y)
    BY <2>2, <2>3, WalkedApart
  <2>5. bytes = {y \in Bytes : offset <= y /\ y < done.at}
    BY <1>2, <2>2
  <2>6. result.ref = Together(result.ints, bytes)
    <3>1. done.ref = Together(done.ints, bytes)
      BY <2>2, <2>5 DEF Walked
    <3>2. \A y \in bytes : At(result.ints, y) = At(done.ints, y)
      BY <2>4 DEF Bytes
    <3> HIDE DEF bytes
    <3> QED  BY <2>3, <3>1, <3>2, TogetherSame
  <2>7. ASSUME NEW x \in Bytes
        PROVE  At(result.ints, x) = IF x \in bytes THEN Compose(At(ints, x), ref) ELSE At(ints, x)
    <3>1. At(done.ints, x) = IF offset <= x /\ x < done.at THEN Compose(At(ints, x), with[x]) ELSE At(ints, x)
      BY <2>2 DEF Walked
    <3>2. At(result.ints, x) = At(done.ints, x) /\ with[x] = ref
      BY <2>4 DEF Bytes, with
    <3> QED  BY <2>5, <3>1, <3>2
  <2>8. UpdateIsPointwise(ints, offset, size, ref)
    BY <2>4, <2>6, <2>7 DEF UpdateIsPointwise, result
  <2> QED  BY <2>4, <2>8, AreIntervals DEF result
<1> QED  BY <1>4, <1>5

\* The loop of Intervals::merge.
LEMMA MergeTurns ==
  ASSUME NEW ints, NEW other
  PROVE  \E turns :
           /\ turns[0] = [ints |-> ints, at |-> 0, other |-> 0, ref |-> None]
           /\ \A n \in 1..Top : turns[n] = MergeTurn(turns[n - 1], other)
           /\ Merge(ints, other) = [ints |-> turns[Top].ints, ref |-> turns[Top].ref]
<1> DEFINE first == [ints |-> ints, at |-> 0, other |-> 0, ref |-> None]
           Step(t) == MergeTurn(t, other)
           F(g, b) == [n \in 0..b |-> IF n = 0 THEN first ELSE Step(g[n - 1])]
           Bad     == {b \in Nat : ~\E g : g = F(g, b)}
<1>1. Merge(ints, other) = [ints |-> (CHOOSE g : g = F(g, Top))[Top].ints,
                             ref |-> (CHOOSE g : g = F(g, Top))[Top].ref]
  BY DEF Merge
<1> HIDE DEF first, Step
<1>2. Bad = {}
  <2> SUFFICES ASSUME Bad # {} PROVE FALSE
    OBVIOUS
  <2>1. PICK b \in Bad : \A c \in Bad : b <= c
    <3>1. Bad \subseteq Nat
      OBVIOUS
    <3> HIDE DEF Bad
    <3> QED  BY <3>1, LeastNatural
  <2>2. b \in Nat /\ ~\E g : g = F(g, b)
    BY <2>1
  <2>3. b # 0
    <3> DEFINE h == [n \in 0..0 |-> first]
    <3>1. h = F(h, 0)
      OBVIOUS
    <3> QED  BY <2>2, <3>1
  <2>4. b - 1 \in Nat
    BY <2>2, <2>3
  <2>5. b - 1 \notin Bad
    <3> HIDE DEF Bad
    <3> QED  BY <2>1, <2>2, <2>4
  <2>6. PICK g : g = F(g, b - 1)
    BY <2>4, <2>5
  <2> DEFINE h == [n \in 0..b |-> IF n = b THEN Step(g[b - 1]) ELSE g[n]]
  <2>7. ASSUME NEW n \in 0..b
        PROVE  h[n] = F(h, b)[n]
    <3>1. CASE n = b
      BY <2>2, <2>3, <2>4, <3>1
    <3>2. CASE n # b
      <4>1. n \in 0..(b - 1) /\ (n # 0 => n - 1 \in 0..(b - 1) /\ n - 1 \in 0..b /\ n - 1 # b)
        BY <2>2, <3>2
      <4>2. g[n] = IF n = 0 THEN first ELSE Step(g[n - 1])
        BY <2>6, <4>1
      <4> QED  BY <3>2, <4>1, <4>2
    <3> QED  BY <3>1, <3>2
  <2>8. h = F(h, b)
    BY <2>7
  <2> QED  BY <2>2, <2>8
<1>3. \E g : g = F(g, Top)
  BY <1>2, MemRefsAssumption
<1> DEFINE g == CHOOSE g : g = F(g, Top)
<1>4. g = F(g, Top)
  BY <1>3
<1> HIDE DEF g
<1>5. /\ g[0] = first /\ \A n \in 1..Top : g[n] = Step(g[n - 1])
  <2>1. 0 \in 0..Top /\ \A n \in 1..Top : n \in 0..Top /\ n # 0
    BY MemRefsAssumption
  <2> QED  BY <1>4, <2>1
<1>6. Merge(ints, other) = [ints |-> g[Top].ints, ref |-> g[Top].ref]
  BY <1>1 DEF g
<1> QED  BY <1>5, <1>6 DEF first, Step

\* The other map's interval is that of the byte that the loop stands at.
Beside(t, other) ==
  t.at # Top => t.other \in DOMAIN other /\ t.other <= t.at /\ t.at < Finish(other, t.other)

LEMMA MergeWalked ==
  ASSUME NEW ints, InMemory(ints), Apart(ints), NEW other, InMemory(other)
  PROVE  \E t : /\ Walked(ints, [y \in Bytes |-> At(other, y)], 0, t) /\ t.at = Top
                /\ Merge(ints, other) = [ints |-> t.ints, ref |-> t.ref]
<1> DEFINE with == [y \in Bytes |-> At(other, y)]
<1>1. PICK turns :
        /\ turns[0] = [ints |-> ints, at |-> 0, other |-> 0, ref |-> None]
        /\ \A n \in 1..Top : turns[n] = MergeTurn(turns[n - 1], other)
        /\ Merge(ints, other) = [ints |-> turns[Top].ints, ref |-> turns[Top].ref]
  BY MergeTurns
<1> DEFINE Inv(t, n) == Walked(ints, with, 0, t) /\ Beside(t, other) /\ (t.at = Top \/ n <= t.at)
           Bad == {n \in 0..Top : ~Inv(turns[n], n)}
<1>2. Top \in Nat /\ 0 # Top /\ 0 < Top /\ Bytes \subseteq Nat /\ 0 \in Bytes
  BY MemRefsAssumption DEF Word, Bytes
<1>3. ASSUME NEW t, NEW n \in Nat, Inv(t, n)
      PROVE  Inv(MergeTurn(t, other), n + 1)
  <2> DEFINE u == MergeTurn(t, other)
             finish == Finish(other, t.other)
             r == other[t.other]
  <2>1. CASE t.at = Top
    <3>1. u = t
      BY <2>1 DEF MergeTurn
    <3> QED  BY <1>3, <2>1, <3>1 DEF Beside
  <2>2. CASE t.at # Top
    <3>1. /\ Walked(ints, with, 0, t) /\ t.at \in Nat /\ n <= t.at
          /\ t.other \in DOMAIN other /\ t.other <= t.at /\ t.at < finish
      BY <1>3, <2>2 DEF Walked, Beside
    <3>2. /\ Turns(t, u, finish, r)
          /\ u.other = IF u.at # Top /\ u.at >= finish THEN finish ELSE t.other
      BY <2>2 DEF MergeTurn, Turns
    <3>3. IsMap(other) /\ t.other \in Bytes /\ t.other \in Nat /\ r \in References
      BY <1>2, <3>1 DEF InMemory, IsMap
    <3>4. /\ finish \in Nat /\ finish <= Top /\ (finish # Top => finish \in DOMAIN other)
      BY <3>3, FinishIs
    <3>5. ASSUME NEW y \in Bytes, t.at <= y, y < finish
          PROVE  with[y] = r
      <4>1. y \in Nat /\ t.other <= y
        BY <1>2, <3>1, <3>3, <3>5
      <4> QED  BY <3>1, <3>5, <4>1, AtBefore
    <3> HIDE DEF u, with, finish, r
    <3>6. Walked(ints, with, 0, u) /\ t.at < u.at /\ u.at <= finish
      BY <2>2, <3>1, <3>2, <3>3, <3>4, <3>5, TurnWalks
    <3>7. u.at \in Nat /\ n + 1 <= u.at
      <4>1. u.at \in Nat
        BY <3>6 DEF Walked
      <4> QED  BY <3>1, <3>6, <4>1
    <3>8. Beside(u, other)
      <4>1. CASE u.at # Top /\ u.at >= finish
        <5>1. u.other = finish /\ u.at = finish /\ finish \in DOMAIN other /\ finish \in Bytes
          BY <3>2, <3>4, <3>6, <3>7, <4>1 DEF InMemory
        <5>2. finish < Finish(other, finish)
          BY <5>1, FinishIs
        <5> QED  BY <3>4, <5>1, <5>2 DEF Beside
      <4>2. CASE u.at # Top /\ ~(u.at >= finish)
        <5>1. u.other = t.other /\ u.at < finish /\ t.other <= u.at
          BY <3>1, <3>2, <3>3, <3>4, <3>6, <3>7, <4>2
        <5> QED  BY <3>1, <5>1 DEF Beside, finish
      <4> QED  BY <4>1, <4>2 DEF Beside
    <3> QED  BY <3>6, <3>7, <3>8 DEF u
  <2> QED  BY <2>1, <2>2
<1>4. Inv(turns[0], 0)
  <2> DEFINE t == turns[0]
  <2>1. t.ints = ints /\ t.at = 0 /\ t.other = 0 /\ t.ref = None
    BY <1>1
  <2>2. 0 \in DOMAIN ints /\ 0 \in DOMAIN other
    BY DEF InMemory, IsMap
  <2>3. 0 < Finish(other, 0)
    BY <1>2, FinishIs
  <2> HIDE DEF with, t
  <2>4. Walked(ints, with, t.at, t)
    BY <2>1, <2>2, FirstWalks
  <2>5. Beside(t, other)
    BY <2>1, <2>2, <2>3 DEF Beside
  <2> QED  BY <2>1, <2>4, <2>5 DEF t
<1>5. Bad = {}
  <2> SUFFICES ASSUME Bad # {} PROVE FALSE
    OBVIOUS
  <2> HIDE DEF Inv
  <2>1. PICK b \in Bad : \A c \in Bad : b <= c
    <3>1. Bad \subseteq Nat
      OBVIOUS
    <3> HIDE DEF Bad
    <3> QED  BY <3>1, LeastNatural
  <2>2. b \in 1..Top /\ b - 1 \in 0..Top /\ b - 1 \in Nat /\ (b - 1) + 1 = b /\ ~(b <= b - 1)
    BY <1>2, <1>4, <2>1
  <2>3. Inv(turns[b - 1], b - 1)
    BY <2>1, <2>2
  <2>4. Inv(turns[b], b)
    BY <1>1, <1>3, <2>2, <2>3
  <2> QED  BY <2>1, <2>4
<1> DEFINE t == turns[Top]
<1>6. Inv(t, Top)
  <2> HIDE DEF Inv
  <2> QED  BY <1>2, <1>5
<1>7. t.at = Top
  <2>1. t.at \in Nat /\ t.at <= Top
    BY <1>6 DEF Walked
  <2> QED  BY <1>2, <1>6, <2>1
<1> QED  BY <1>1, <1>6, <1>7

\* MemRefs::Merge (vk_resources.h:2282), for every two maps: likewise.
THEOREM MergePointwise ==
  ASSUME NEW ints \in Intervals(1..(Top - 1), References),
         NEW other \in Intervals(1..(Top - 1), References)
  PROVE  /\ MergeIsPointwise(ints, other)
         /\ Merge(ints, other).ints \in Intervals(1..(Top - 1), References)
<1> DEFINE with == [y \in Bytes |-> At(other, y)]
<1>1. InMemory(ints) /\ Apart(ints) /\ InMemory(other)
  BY IntervalsAre
<1>2. PICK t : /\ Walked(ints, with, 0, t) /\ t.at = Top
               /\ Merge(ints, other) = [ints |-> t.ints, ref |-> t.ref]
  BY <1>1, MergeWalked
<1>3. Merge(ints, other).ints = t.ints /\ Merge(ints, other).ref = t.ref
  BY <1>2
<1> HIDE DEF with
<1>4. InMemory(t.ints) /\ Apart(t.ints)
  BY <1>2, WalkedApart
<1>5. \A x \in Bytes : 0 <= x /\ x < t.at
  BY <1>2, MemRefsAssumption DEF Bytes
<1>6. t.ref = Together(t.ints, Bytes)
  <2>1. {y \in Bytes : 0 <= y /\ y < t.at} = Bytes
    BY <1>5
  <2> QED  BY <1>2, <2>1 DEF Walked
<1>7. \A x \in Bytes : At(t.ints, x) = Compose(At(ints, x), At(other, x))
  BY <1>2, <1>5 DEF Walked, with
<1>8. MergeIsPointwise(ints, other)
  BY <1>3, <1>4, <1>6, <1>7 DEF MergeIsPointwise
<1> QED  BY <1>3, <1>4, <1>8, AreIntervals

\* Maps whose neighbours differ are equal when their bytes are.
LEMMA ApartEqual ==
  ASSUME NEW ints, InMemory(ints), Apart(ints), NEW other, InMemory(other), Apart(other),
         \A y \in Bytes : At(ints, y) = At(other, y)
  PROVE  ints = other
<1>1. ASSUME NEW m, InMemory(m), Apart(m), NEW n, InMemory(n),
             \A y \in Bytes : At(m, y) = At(n, y)
      PROVE  DOMAIN m \subseteq DOMAIN n
  <2> SUFFICES ASSUME NEW s \in DOMAIN m, s \notin DOMAIN n PROVE FALSE
    OBVIOUS
  <2>1. IsMap(m) /\ IsMap(n) /\ s \in Bytes /\ s # 0
    BY <1>1 DEF InMemory, IsMap
  <2>2. s \in Nat /\ s - 1 \in Nat /\ s - 1 \in Bytes
    BY <2>1, MemRefsAssumption DEF Bytes
  <2>3. At(n, s) # At(n, s - 1)
    <3>1. m[s] # At(m, s - 1) /\ At(m, s) = m[s]
      BY <1>1, <2>1, StartAt DEF Apart
    <3> QED  BY <1>1, <2>1, <2>2, <3>1
  <2> DEFINE f == Find(n, s)
  <2>4. f \in DOMAIN n /\ f \in Nat /\ f <= s /\ \A x \in DOMAIN n : x <= s => x <= f
    BY <2>1, <2>2, FindIs
  <2>5. At(n, s) = n[f]
    BY DEF At
  <2> HIDE DEF f
  <2>6. f <= s - 1
    BY <2>2, <2>4
  <2>7. \A x \in DOMAIN n : x \in Nat /\ (x <= s - 1 => x <= f)
    <3>1. \A x \in DOMAIN n : x \in Nat
      BY <2>1 DEF IsMap
    <3> QED  BY <2>2, <2>4, <3>1
  <2>8. At(n, s - 1) = n[f]
    BY <2>1, <2>2, <2>4, <2>6, <2>7, FoundAt
  <2> QED  BY <2>3, <2>5, <2>8
<1>2. DOMAIN ints \subseteq DOMAIN other
  BY <1>1
<1>3. DOMAIN other \subseteq DOMAIN ints
  BY <1>1
<1>4. IsMap(ints) /\ IsMap(other)
  BY DEF InMemory
<1>5. ASSUME NEW s \in DOMAIN ints
      PROVE  ints[s] = other[s]
  <2>1. s \in Bytes /\ s \in DOMAIN other
    BY <1>2 DEF InMemory
  <2> QED  BY <1>4, <2>1, StartAt
<1> QED  BY <1>2, <1>3, <1>4, <1>5 DEF IsMap

\* What Update and Merge make of each byte, and that they give intervals again.
LEMMA UpdatedAt ==
  ASSUME NEW ints \in Intervals(1..(Top - 1), References), NEW offset \in 0..Top, NEW size \in 0..Top,
         NEW ref \in References
  PROVE  /\ Update(ints, offset, size, ref).ints \in Intervals(1..(Top - 1), References)
         /\ \A x \in Bytes : At(Update(ints, offset, size, ref).ints, x)
              = IF offset <= x /\ x < offset + size THEN Compose(At(ints, x), ref) ELSE At(ints, x)
<1> DEFINE result == Update(ints, offset, size, ref)
           bytes  == {x \in Bytes : offset <= x /\ x < offset + size}
<1>1. UpdateIsPointwise(ints, offset, size, ref) /\ result.ints \in Intervals(1..(Top - 1), References)
  BY UpdatePointwise
<1>2. \A x \in Bytes : At(result.ints, x) = IF x \in bytes THEN Compose(At(ints, x), ref) ELSE At(ints, x)
  BY <1>1, Zenon DEF UpdateIsPointwise
<1>3. \A x \in Bytes : x \in bytes <=> offset <= x /\ x < offset + size
  OBVIOUS
<1> HIDE DEF result, bytes
<1>4. \A x \in Bytes : At(result.ints, x) = IF offset <= x /\ x < offset + size
                                         THEN Compose(At(ints, x), ref) ELSE At(ints, x)
  BY <1>2, <1>3
<1> QED  BY <1>1, <1>4 DEF result

LEMMA MergedAt ==
  ASSUME NEW ints \in Intervals(1..(Top - 1), References),
         NEW other \in Intervals(1..(Top - 1), References)
  PROVE  /\ Merge(ints, other).ints \in Intervals(1..(Top - 1), References)
         /\ \A x \in Bytes : At(Merge(ints, other).ints, x) = Compose(At(ints, x), At(other, x))
<1>1. MergeIsPointwise(ints, other) /\ Merge(ints, other).ints \in Intervals(1..(Top - 1), References)
  BY MergePointwise
<1> QED  BY <1>1, Zenon DEF MergeIsPointwise

\* Recording a reference in the map of a command buffer, which is merged into the
\* frame's when it is submitted, comes to the same map as merging first and then
\* updating the frame's (vk_resources.cpp:4741, vk_manager.cpp:960).
THEOREM MergeOfUpdate ==
  ASSUME NEW ints \in Intervals(1..(Top - 1), References),
         NEW other \in Intervals(1..(Top - 1), References),
         NEW offset \in 0..Top, NEW size \in 0..Top, NEW ref \in References
  PROVE  Merge(ints, Update(other, offset, size, ref).ints).ints
           = Update(Merge(ints, other).ints, offset, size, ref).ints
<1> DEFINE updated == Update(other, offset, size, ref).ints
           merged  == Merge(ints, other).ints
           left    == Merge(ints, updated).ints
           right   == Update(merged, offset, size, ref).ints
<1>1. /\ updated \in Intervals(1..(Top - 1), References)
      /\ \A x \in Bytes : At(updated, x) = IF offset <= x /\ x < offset + size
                                         THEN Compose(At(other, x), ref) ELSE At(other, x)
  BY UpdatedAt
<1>2. /\ merged \in Intervals(1..(Top - 1), References)
      /\ \A x \in Bytes : At(merged, x) = Compose(At(ints, x), At(other, x))
  BY MergedAt
<1> HIDE DEF updated, merged
<1>3. /\ left \in Intervals(1..(Top - 1), References)
      /\ \A x \in Bytes : At(left, x) = Compose(At(ints, x), At(updated, x))
  BY <1>1, MergedAt
<1>4. /\ right \in Intervals(1..(Top - 1), References)
      /\ \A x \in Bytes : At(right, x) = IF offset <= x /\ x < offset + size
                                       THEN Compose(At(merged, x), ref) ELSE At(merged, x)
  BY <1>2, UpdatedAt
<1> HIDE DEF left, right
<1>5. ASSUME NEW x \in Bytes
      PROVE  At(left, x) = At(right, x)
  <2>1. At(ints, x) \in References /\ At(other, x) \in References
    <3>1. InMemory(ints) /\ InMemory(other)
      BY IntervalsAre
    <3>2. x \in Nat
      BY MemRefsAssumption DEF Bytes
    <3>3. IsMap(ints) /\ IsMap(other)
      BY <3>1 DEF InMemory
    <3> QED  BY <3>2, <3>3, FindIs
  <2>2. Compose(At(ints, x), Compose(At(other, x), ref)) = Compose(Compose(At(ints, x), At(other, x)), ref)
    BY <2>1, ComposeAssociative
  <2> QED  BY <1>1, <1>2, <1>3, <1>4, <2>2
<1>6. InMemory(left) /\ Apart(left) /\ InMemory(right) /\ Apart(right)
  BY <1>3, <1>4, IntervalsAre
<1>7. left = right
  BY <1>5, <1>6, ApartEqual
<1> QED  BY <1>7 DEF left, right, updated, merged

-----------------------------------------------------------------------------
(* The capture file: words.                                                  *)

Floor(x) == (x \div Word) * Word

LEMMA FloorIs ==
  ASSUME NEW x \in Nat
  PROVE  /\ Floor(x) \in Nat /\ Floor(x) <= x /\ x < Floor(x) + Word
         /\ Floor(x) % Word = 0 /\ (Floor(x) + Word) % Word = 0
         /\ x % Word = 0 <=> Floor(x) = x
         /\ x % Word # 0 => AlignUp(x) = Floor(x) + Word
BY DEF Floor, AlignUp, Word

LEMMA FloorSame ==
  ASSUME NEW x \in Nat, NEW y \in Nat
  PROVE  /\ y \div Word = x \div Word <=> Floor(x) <= y /\ y < Floor(x) + Word
         /\ x <= y => Floor(x) <= Floor(y)
         /\ x % Word = 0 /\ x <= y => x <= Floor(y)
         /\ x < Floor(y) => Floor(x) + Word <= Floor(y)
BY DEF Floor, Word

\* Intervals whose last one starts at last; placing one after them, or instead of it.
EndsWith(ints, last) == IsMap(ints) /\ last \in DOMAIN ints /\ \A s \in DOMAIN ints : s <= last

Placed(m, ints, last, x, r) ==
  EndsWith(ints, last) /\ x \in Nat /\ last <= x /\ r \in References /\ m = Place(ints, last, x, r)

LEMMA PlaceIs ==
  ASSUME NEW m, NEW ints, NEW last, NEW x, NEW r, Placed(m, ints, last, x, r)
  PROVE  /\ EndsWith(m, x) /\ m[x] = r /\ \A s \in DOMAIN m : s = x \/ s \in DOMAIN ints
         /\ \A y \in Nat : At(m, y) = IF x <= y THEN r ELSE At(ints, y)
<1> DEFINE cut == IF last < x THEN Split(ints, x) ELSE ints
<1>1. /\ IsMap(ints) /\ DOMAIN ints \subseteq Nat /\ last \in DOMAIN ints /\ last \in Nat
      /\ \A s \in DOMAIN ints : s <= last
      /\ x \in Nat /\ last <= x /\ r \in References
  BY DEF Placed, EndsWith, IsMap
<1>2. /\ IsMap(cut) /\ DOMAIN cut = DOMAIN ints \cup {x}
      /\ \A y \in Nat : At(cut, y) = At(ints, y)
  <2>1. CASE last < x
    BY <1>1, <2>1, SplitIs
  <2>2. CASE ~(last < x)
    <3>1. cut = ints /\ x = last
      BY <1>1, <2>2
    <3> HIDE DEF cut
    <3> QED  BY <1>1, <3>1
  <2> QED  BY <2>1, <2>2
<1>3. Replaced(m, cut, x, r)
  BY DEF Placed, Place, Replaced
<1> HIDE DEF cut
<1>4. /\ IsMap(m) /\ DOMAIN m = DOMAIN cut
      /\ \A y \in Nat : At(m, y) = IF Find(cut, y) = x THEN r ELSE At(cut, y)
  BY <1>1, <1>2, <1>3, SetIs
<1>5. m[x] = r
  BY <1>1, <1>2, <1>3 DEF Replaced, IsMap
<1>6. \A s \in DOMAIN m : s <= x
  <2>1. \A s \in DOMAIN ints : s \in Nat /\ s <= last
    BY <1>1
  <2>2. \A s \in DOMAIN ints : s <= x
    BY <1>1, <2>1
  <2> QED  BY <1>1, <1>2, <1>4, <2>2
<1>7. ASSUME NEW y \in Nat
      PROVE  Find(cut, y) = x <=> x <= y
  <2>1. /\ Find(cut, y) \in DOMAIN cut /\ Find(cut, y) <= y /\ Find(cut, y) \in Nat
        /\ \A s \in DOMAIN cut : s <= y => s <= Find(cut, y)
    BY <1>2, FindIs
  <2>2. ASSUME x <= y
        PROVE  Find(cut, y) = x
    <3>1. x <= Find(cut, y) /\ Find(cut, y) <= x
      BY <1>2, <1>4, <1>6, <2>1, <2>2
    <3> QED  BY <1>1, <2>1, <3>1
  <2> QED  BY <2>1, <2>2
<1> QED  BY <1>2, <1>4, <1>5, <1>6, <1>7 DEF EndsWith

-----------------------------------------------------------------------------
(* The reference of a word that intervals share.                             *)

OverlapSet(data, from, x, lastRef) ==
  {Used(data[s]) : s \in {s \in DOMAIN data : from <= s /\ s <= x}} \cup {Used(lastRef), None}

LEMMA OverlapStep ==
  ASSUME NEW data, InMemory(data), NEW lastRef \in References,
         NEW from \in Nat, NEW x \in Nat, from <= x, NEW before
  PROVE  /\ x \in DOMAIN data /\ from < x /\ before = Combined(OverlapSet(data, from, x - 1, lastRef))
              => Disjoint(before, data[x]) = Combined(OverlapSet(data, from, x, lastRef))
         /\ x \in DOMAIN data /\ from = x /\ before = lastRef
              => Disjoint(before, data[x]) = Combined(OverlapSet(data, from, x, lastRef))
         /\ x \notin DOMAIN data => OverlapSet(data, from, x, lastRef) = OverlapSet(data, from, x - 1, lastRef)
<1> DEFINE R  == OverlapSet(data, from, x - 1, lastRef)
           R2 == OverlapSet(data, from, x, lastRef)
<1>1. DOMAIN data \subseteq Nat /\ \A s \in DOMAIN data : data[s] \in References
  BY DEF InMemory, IsMap
<1>2. \A v \in References : Used(v) \in References /\ Used(v) # CompleteWriteAndDiscard /\ Used(Used(v)) = Used(v)
                            /\ (Used(v) = ReadBeforeWrite <=> v = ReadBeforeWrite)
  BY ReferenceValues DEF Used
<1>3. R \subseteq References /\ None \in R /\ CompleteWriteAndDiscard \notin R
  BY <1>1, <1>2, ReferenceValues DEF OverlapSet
<1>4. \A s \in DOMAIN data : s <= x <=> s <= x - 1 \/ s = x
  BY <1>1
<1>5. x \notin DOMAIN data => R2 = R
  BY <1>1, <1>4 DEF OverlapSet
<1>6. x \in DOMAIN data => R2 = R \cup {Used(data[x])}
  BY <1>1, <1>4 DEF OverlapSet
<1> HIDE DEF R, R2
<1>7. ASSUME x \in DOMAIN data
      PROVE  Disjoint(Combined(R), data[x]) = Combined(R2)
  BY <1>1, <1>3, <1>6, <1>7, CombinedStep
<1>8. ASSUME from = x
      PROVE  /\ Combined(R) = Used(lastRef)
             /\ \A v \in References : Disjoint(Used(lastRef), v) = Disjoint(lastRef, v)
  <2>1. R = {Used(lastRef), None}
    <3>1. \A s \in DOMAIN data : ~(from <= s /\ s <= x - 1)
      BY <1>1, <1>8
    <3> QED  BY <3>1 DEF R, OverlapSet
  <2>2. /\ Combined(R) \in R /\ (ReadBeforeWrite \in R => Combined(R) = ReadBeforeWrite)
        /\ ReadBeforeWrite \notin R => \A y \in R : y <= Combined(R)
    BY <1>3, CombinedIs
  <2>3. Used(lastRef) \in Nat /\ None = 0 /\ None # ReadBeforeWrite
    BY <1>2, ReferenceValues
  <2>4. Combined(R) = Used(lastRef)
    BY <2>1, <2>2, <2>3
  <2> QED  BY <1>2, <2>4 DEF Disjoint
<1> QED  BY <1>1, <1>5, <1>7, <1>8 DEF R, R2

\* The loop over the intervals that start in a word.
LEMMA OverlapTurns ==
  ASSUME NEW data, NEW from \in Nat \ {0}, NEW to \in Nat, from <= to, NEW lastRef
  PROVE  \E refs :
           /\ refs[from - 1] = lastRef
           /\ \A x \in from..to :
                refs[x] = IF x \in DOMAIN data THEN Disjoint(refs[x - 1], data[x]) ELSE refs[x - 1]
           /\ OverlapRef(data, from, to, lastRef) = refs[to]
<1> DEFINE Step(r, x) == IF x \in DOMAIN data THEN Disjoint(r, data[x]) ELSE r
           F(g, b) == [x \in (from - 1)..b |-> IF x < from THEN lastRef ELSE Step(g[x - 1], x)]
           Bad     == {b \in Nat : from - 1 <= b /\ ~\E g : g = F(g, b)}
<1>1. OverlapRef(data, from, to, lastRef) = (CHOOSE g : g = F(g, to))[to]
  BY DEF OverlapRef
<1> HIDE DEF Step
<1>2. Bad = {}
  <2> SUFFICES ASSUME Bad # {} PROVE FALSE
    OBVIOUS
  <2>1. PICK b \in Bad : \A c \in Bad : b <= c
    <3>1. Bad \subseteq Nat
      OBVIOUS
    <3> HIDE DEF Bad
    <3> QED  BY <3>1, LeastNatural
  <2>2. b \in Nat /\ from - 1 <= b /\ ~\E g : g = F(g, b)
    BY <2>1
  <2>3. b # from - 1
    <3> DEFINE h == [x \in (from - 1)..b |-> lastRef]
    <3>1. ASSUME b = from - 1
          PROVE  h = F(h, b)
      <4>1. \A x \in (from - 1)..b : x < from
        BY <3>1
      <4> QED  BY <4>1
    <3> QED  BY <2>2, <3>1
  <2>4. b - 1 \in Nat /\ from - 1 <= b - 1 /\ from <= b
    BY <2>2, <2>3
  <2>5. b - 1 \notin Bad
    <3> HIDE DEF Bad
    <3> QED  BY <2>1, <2>2, <2>4
  <2>6. PICK g : g = F(g, b - 1)
    BY <2>4, <2>5
  <2> DEFINE h == [x \in (from - 1)..b |-> IF x = b THEN Step(g[b - 1], b) ELSE g[x]]
  <2>7. ASSUME NEW x \in (from - 1)..b
        PROVE  h[x] = F(h, b)[x]
    <3>1. CASE x = b
      <4>1. ~(b < from) /\ b - 1 \in (from - 1)..b /\ b - 1 # b
        BY <2>2, <2>4
      <4> QED  BY <3>1, <4>1
    <3>2. CASE x # b
      <4>1. /\ x \in (from - 1)..(b - 1)
            /\ ~(x < from) => x - 1 \in (from - 1)..(b - 1) /\ x - 1 \in (from - 1)..b /\ x - 1 # b
        BY <2>2, <3>2
      <4>2. g[x] = IF x < from THEN lastRef ELSE Step(g[x - 1], x)
        BY <2>6, <4>1
      <4> QED  BY <3>2, <4>1, <4>2
    <3> QED  BY <3>1, <3>2
  <2>8. h = F(h, b)
    BY <2>7
  <2> QED  BY <2>2, <2>8
<1>3. \E g : g = F(g, to)
  <2>1. from - 1 <= to
    OBVIOUS
  <2> QED  BY <1>2, <2>1
<1> DEFINE g == CHOOSE g : g = F(g, to)
<1>4. g = F(g, to)
  BY <1>3
<1> HIDE DEF g
<1>5. /\ g[from - 1] = lastRef /\ \A x \in from..to : g[x] = Step(g[x - 1], x)
  <2>1. from - 1 \in (from - 1)..to /\ from - 1 < from
    OBVIOUS
  <2>2. \A x \in from..to : x \in (from - 1)..to /\ ~(x < from)
    OBVIOUS
  <2> QED  BY <1>4, <2>1, <2>2
<1>6. OverlapRef(data, from, to, lastRef) = g[to]
  BY <1>1 DEF g
<1> QED  BY <1>5, <1>6 DEF Step

LEMMA OverlapIs ==
  ASSUME NEW data, InMemory(data), NEW lastRef \in References,
         NEW from \in DOMAIN data, from # 0, NEW to \in Nat, from <= to
  PROVE  OverlapRef(data, from, to, lastRef) = Combined(OverlapSet(data, from, to, lastRef))
<1>1. from \in Nat \ {0}
  BY DEF InMemory, IsMap
<1>2. PICK refs :
        /\ refs[from - 1] = lastRef
        /\ \A x \in from..to :
             refs[x] = IF x \in DOMAIN data THEN Disjoint(refs[x - 1], data[x]) ELSE refs[x - 1]
        /\ OverlapRef(data, from, to, lastRef) = refs[to]
  BY <1>1, OverlapTurns
<1> DEFINE Good(x) == refs[x] = Combined(OverlapSet(data, from, x, lastRef))
           Bad == {x \in from..to : ~Good(x)}
<1>3. ASSUME NEW x \in from..to, from < x => Good(x - 1)
      PROVE  Good(x)
  <2>1. x \in Nat /\ from <= x
    BY <1>1
  <2>2. refs[x] = IF x \in DOMAIN data THEN Disjoint(refs[x - 1], data[x]) ELSE refs[x - 1]
    BY <1>2
  <2>3. CASE from < x
    BY <1>1, <1>3, <2>1, <2>2, <2>3, OverlapStep
  <2>4. CASE from = x
    BY <1>1, <1>2, <2>1, <2>2, <2>4, OverlapStep
  <2> QED  BY <1>1, <2>1, <2>3, <2>4
<1>4. Bad = {}
  <2> SUFFICES ASSUME Bad # {} PROVE FALSE
    OBVIOUS
  <2> HIDE DEF Good
  <2>1. PICK b \in Bad : \A c \in Bad : b <= c
    <3>1. Bad \subseteq Nat
      BY <1>1
    <3> HIDE DEF Bad
    <3> QED  BY <3>1, LeastNatural
  <2>2. b \in from..to /\ (from < b => b - 1 \in from..to /\ ~(b <= b - 1))
    BY <1>1, <2>1
  <2>3. from < b => Good(b - 1)
    BY <2>1, <2>2
  <2> QED  BY <1>3, <2>1, <2>2, <2>3
<1> QED  BY <1>1, <1>2, <1>4

-----------------------------------------------------------------------------
(* The loop of the capture file.                                             *)

WordOf(x) == {y \in Bytes : y \div Word = x \div Word}

\* What the file is to hold of the word of a byte.
Wanted(data, x) ==
  IF \A y \in WordOf(x) : At(data, y) = At(data, x) THEN At(data, x) ELSE Together(data, WordOf(x))

\* So far: words are as wanted below that of the byte the loop stands at, of which
\* the bytes before have the last reference, and so has what has been placed last.
Serialised(data, t) ==
  /\ IsMap(t.ints) /\ t.last \in DOMAIN t.ints
  /\ \A s \in DOMAIN t.ints : s % Word = 0 /\ s <= t.last
  /\ t.at \in Nat /\ t.at <= Top /\ t.lastRef \in References
  /\ t.at # Top => t.at \in DOMAIN data /\ t.last <= Floor(t.at)
  /\ t.at # 0 => t.ints[t.last] = t.lastRef
  /\ t.at # Top => \A y \in Bytes : Floor(t.at) <= y /\ y < t.at => At(data, y) = t.lastRef
  /\ \A y \in Bytes : t.at = Top \/ y < Floor(t.at) => At(t.ints, y) = Wanted(data, y)

\* A turn: what starts at k goes on from z, a word, below which the words are as
\* wanted; the last interval starts at x.
Onward(data, t, u, k, x, z) ==
  /\ k \in DOMAIN data /\ t.at <= k /\ k <= z
  /\ x \in Nat /\ x % Word = 0 /\ x <= z
  /\ z \in Nat /\ z % Word = 0 /\ Floor(t.at) <= z
  /\ u.at = Finish(data, k) /\ (u.at = Top \/ z <= u.at) /\ u.last = x /\ u.lastRef = data[k]
  /\ IsMap(u.ints) /\ x \in DOMAIN u.ints /\ u.ints[x] = data[k]
  /\ \A s \in DOMAIN u.ints : s % Word = 0 /\ s <= x
  /\ \A y \in Nat : y < Floor(t.at) => At(u.ints, y) = At(t.ints, y)
  /\ \A y \in Bytes : Floor(t.at) <= y /\ y < z => At(u.ints, y) = Wanted(data, y)
  /\ \A y \in Nat : z <= y => At(u.ints, y) = data[k]

LEMMA OnwardSerialises ==
  ASSUME NEW data, InMemory(data), NEW t, Serialised(data, t), t.at # Top,
         NEW u, NEW k, NEW x, NEW z, Onward(data, t, u, k, x, z)
  PROVE  Serialised(data, u) /\ t.at < u.at
<1> DEFINE e == u.at
           ref == data[k]
<1>1. /\ Top \in Nat /\ Bytes \subseteq Nat /\ (\A y \in Bytes : y < Top)
      /\ t.at \in Nat /\ Floor(t.at) \in Nat
  BY MemRefsAssumption, FloorIs DEF Bytes, Serialised
<1>2. /\ k \in DOMAIN data /\ k \in Bytes /\ k \in Nat /\ t.at <= k /\ k <= z /\ ref \in References
      /\ x \in Nat /\ x % Word = 0 /\ x <= z /\ z \in Nat /\ z % Word = 0 /\ Floor(t.at) <= z
      /\ e = Finish(data, k) /\ (e = Top \/ z <= e)
  BY <1>1 DEF Onward, InMemory, IsMap
<1>3. e \in Nat /\ k < e /\ e <= Top /\ (e # Top => e \in DOMAIN data)
  BY <1>2, FinishIs
<1>4. \A y \in Nat : k <= y /\ y < e => At(data, y) = ref
  BY <1>2, AtBefore
<1>5. e # Top => z <= Floor(e) /\ x <= Floor(e) /\ Floor(e) \in Nat /\ Floor(e) <= e
  BY <1>2, <1>3, FloorSame, FloorIs
<1>6. /\ IsMap(u.ints) /\ u.last \in DOMAIN u.ints /\ u.ints[u.last] = u.lastRef /\ u.lastRef = ref
      /\ u.last = x /\ \A s \in DOMAIN u.ints : s % Word = 0 /\ s <= u.last
  BY DEF Onward
<1>7. \A y \in Nat : /\ y < Floor(t.at) => At(u.ints, y) = At(t.ints, y)
                     /\ z <= y => At(u.ints, y) = ref
  BY DEF Onward
<1>8. \A y \in Bytes : Floor(t.at) <= y /\ y < z => At(u.ints, y) = Wanted(data, y)
  BY DEF Onward
<1> HIDE DEF e, ref
<1>9. ASSUME e # Top, NEW y \in Bytes, Floor(e) <= y, y < e
      PROVE  At(data, y) = ref
  <2>1. y \in Nat /\ k <= y
    BY <1>1, <1>2, <1>5, <1>9
  <2> QED  BY <1>4, <1>9, <2>1
<1>10. ASSUME NEW y \in Bytes, e = Top \/ y < Floor(e)
       PROVE  At(u.ints, y) = Wanted(data, y)
  <2>0. y \in Nat /\ y < Top
    BY <1>1
  <2>1. CASE y < Floor(t.at)
    BY <1>7, <2>0, <2>1 DEF Serialised
  <2>2. CASE Floor(t.at) <= y /\ y < z
    BY <1>8, <2>2
  <2>3. CASE z <= y
    <3>1. ASSUME NEW b \in WordOf(y)
          PROVE  At(data, b) = ref
      <4>1. b \in Bytes /\ b \in Nat /\ b < Top /\ Floor(y) <= b /\ b < Floor(y) + Word
        BY <1>1, <2>0, FloorSame DEF WordOf
      <4>2. z <= Floor(y) /\ Floor(y) \in Nat
        BY <1>2, <2>0, <2>3, FloorSame, FloorIs
      <4>3. k <= b
        BY <1>2, <4>1, <4>2
      <4>4. b < e
        <5>1. CASE e = Top
          BY <4>1, <5>1
        <5>2. CASE e # Top
          <6>1. Floor(y) + Word <= Floor(e)
            BY <1>3, <1>10, <2>0, <5>2, FloorSame
          <6> QED  BY <1>3, <1>5, <4>1, <4>2, <5>2, <6>1 DEF Word
        <5> QED  BY <5>1, <5>2
      <4> QED  BY <1>4, <4>1, <4>3, <4>4
    <3>2. y \in WordOf(y)
      BY DEF WordOf
    <3>3. Wanted(data, y) = ref
      BY <3>1, <3>2 DEF Wanted
    <3> QED  BY <1>7, <2>0, <2>3, <3>3
  <2> QED  BY <1>1, <1>2, <2>0, <2>1, <2>2, <2>3
<1>11. t.at < e
  BY <1>1, <1>2, <1>3
<1> QED  BY <1>1, <1>2, <1>3, <1>5, <1>6, <1>9, <1>10, <1>11 DEF Serialised, e

LEMMA SharedWord ==
  ASSUME NEW data, InMemory(data), Apart(data), NEW t, Serialised(data, t), t.at # Top,
         t.at % Word # 0, NEW w, w = Floor(t.at), NEW k, k = Find(data, AlignUp(t.at) - 1),
         NEW o, o = OverlapRef(data, t.at, k, t.lastRef)
  PROVE  /\ AlignUp(t.at) = w + Word /\ w \in Nat /\ w < t.at
         /\ k \in DOMAIN data /\ k \in Nat /\ t.at <= k /\ k < w + Word
         /\ Finish(data, k) = Top \/ w + Word <= Finish(data, k)
         /\ \A y \in Bytes : w <= y /\ y < w + Word => Wanted(data, y) = o
         /\ o \in References
<1> DEFINE at == t.at
           lastRef == t.lastRef
           last == w + Word - 1
<1>1. /\ IsMap(data) /\ DOMAIN data \subseteq Bytes /\ Bytes \subseteq Nat /\ Top \in Nat
      /\ \A y \in Bytes : y < Top
  BY MemRefsAssumption DEF InMemory, IsMap, Bytes
<1>2. at \in DOMAIN data /\ at \in Nat /\ at \in Bytes /\ lastRef \in References
  BY <1>1 DEF Serialised
<1>3. /\ w \in Nat /\ w < at /\ at < w + Word /\ AlignUp(at) = w + Word /\ w % Word = 0
      /\ last \in Nat /\ at <= last /\ at # 0
  <2>1. /\ w \in Nat /\ w <= at /\ at < w + Word /\ w % Word = 0
        /\ at % Word = 0 <=> w = at
        /\ at % Word # 0 => AlignUp(at) = w + Word
    BY <1>2, FloorIs
  <2>2. at % Word # 0
    OBVIOUS
  <2> HIDE DEF at
  <2>3. AlignUp(at) = w + Word /\ w # at
    BY <2>1, <2>2
  <2> QED  BY <1>2, <2>1, <2>3 DEF Word
<1>4. \A y \in Bytes : w <= y /\ y < at => At(data, y) = lastRef
  BY DEF Serialised
<1> HIDE DEF at, lastRef
<1>5. k = Find(data, last)
  BY <1>3 DEF at, Word
<1>6. k \in DOMAIN data /\ k \in Nat /\ k <= last /\ \A s \in DOMAIN data : s <= last => s <= k
  BY <1>1, <1>3, <1>5, FindIs
<1>7. at <= k /\ k < w + Word
  BY <1>2, <1>3, <1>6 DEF Word
<1>8. Finish(data, k) = Top \/ w + Word <= Finish(data, k)
  <2>1. /\ Finish(data, k) \in Nat /\ k < Finish(data, k)
        /\ Finish(data, k) # Top => Finish(data, k) \in DOMAIN data
    BY <1>1, <1>6, FinishIs
  <2> QED  BY <1>3, <1>6, <2>1 DEF Word
<1> DEFINE B == {y \in Bytes : w <= y /\ y < w + Word}
<1>9. at - 1 \in B /\ at \in B /\ At(data, at - 1) = lastRef /\ At(data, at) # lastRef
  <2>1. at - 1 \in Bytes /\ w <= at - 1 /\ at - 1 < at /\ at - 1 < w + Word /\ w <= at
    BY <1>1, <1>2, <1>3 DEF Bytes, Word
  <2>2. At(data, at - 1) = lastRef
    BY <1>4, <2>1
  <2>3. data[at] # At(data, at - 1) /\ At(data, at) = data[at]
    BY <1>1, <1>2, <1>3, StartAt DEF Apart
  <2> QED  BY <1>2, <1>3, <2>1, <2>2, <2>3
<1>10. {Used(At(data, y)) : y \in B} \cup {None} = OverlapSet(data, at, k, lastRef)
  <2>1. ASSUME NEW y \in B
        PROVE  Used(At(data, y)) \in OverlapSet(data, at, k, lastRef)
    <3>1. y \in Bytes /\ y \in Nat /\ w <= y /\ y <= last
      BY <1>1, <1>3 DEF Word
    <3>2. CASE y < at
      BY <1>4, <3>1, <3>2 DEF OverlapSet
    <3>3. CASE ~(y < at)
      <4> DEFINE f == Find(data, y)
      <4>1. f \in DOMAIN data /\ f \in Nat /\ f <= y /\ \A s \in DOMAIN data : s <= y => s <= f
        BY <1>1, <3>1, FindIs
      <4> HIDE DEF f
      <4>2. at <= f /\ f <= k
        BY <1>2, <1>3, <1>6, <3>1, <3>3, <4>1
      <4>3. At(data, y) = data[f]
        BY DEF At, f
      <4> QED  BY <4>1, <4>2, <4>3 DEF OverlapSet
    <3> QED  BY <3>2, <3>3
  <2>2. ASSUME NEW s \in DOMAIN data, at <= s, s <= k
        PROVE  s \in B /\ At(data, s) = data[s]
    <3>1. s \in Bytes /\ s \in Nat /\ w <= s /\ s < w + Word
      <4>1. s \in Bytes /\ s \in Nat
        BY <1>1
      <4> QED  BY ONLY <1>2, <1>3, <1>6, <1>7, <2>2, <4>1 DEF Word
    <3> QED  BY <1>1, <3>1, StartAt
  <2> HIDE DEF B
  <2> QED  BY <1>9, <2>1, <2>2 DEF OverlapSet
<1>11. o = Combined(OverlapSet(data, at, k, lastRef))
  BY <1>2, <1>3, <1>6, <1>7, OverlapIs DEF at, lastRef
<1>12. o = Together(data, B)
  BY <1>10, <1>11 DEF Together
<1>13. ASSUME NEW y \in Bytes, w <= y, y < w + Word
       PROVE  Wanted(data, y) = o
  <2>1. WordOf(y) = B
    <3>1. Floor(y) = w
      <4>1. y \in Nat /\ y \div Word = at \div Word
        BY <1>1, <1>2, <1>13, FloorSame DEF at
      <4> QED  BY <4>1 DEF Floor, at
    <3>2. \A b \in Bytes : b \div Word = y \div Word <=> w <= b /\ b < w + Word
      BY <1>1, <3>1, FloorSame
    <3> QED  BY <3>2 DEF WordOf
  <2>2. ~\A b \in B : At(data, b) = At(data, y)
    BY <1>9
  <2> QED  BY <1>12, <2>1, <2>2 DEF Wanted
<1>14. o \in References
  <2>1. OverlapSet(data, at, k, lastRef) \subseteq References /\ None \in OverlapSet(data, at, k, lastRef)
    <3>1. \A v \in References : Used(v) \in References /\ None \in References
      BY ReferenceValues DEF Used
    <3> QED  BY <1>1, <1>2, <3>1 DEF OverlapSet, IsMap
  <2> QED  BY <1>11, <2>1, CombinedIs
<1> QED  BY <1>3, <1>6, <1>7, <1>8, <1>13, <1>14 DEF at

\* A turn at the start of a word: the interval is placed there.
LEMMA AlignedTurn ==
  ASSUME NEW data, InMemory(data), NEW t, Serialised(data, t), t.at # Top, t.at % Word = 0,
         NEW u, u = SerialiseTurn(t, data)
  PROVE  Onward(data, t, u, t.at, t.at, t.at)
<1> DEFINE at == t.at
<1>1. /\ IsMap(t.ints) /\ t.last \in DOMAIN t.ints
      /\ \A s \in DOMAIN t.ints : s % Word = 0 /\ s <= t.last
      /\ at \in Nat /\ at \in DOMAIN data /\ t.last <= Floor(at) /\ Floor(at) = at
      /\ data[at] \in References /\ IsMap(data)
  <2>1. at \in Nat /\ at \in DOMAIN data
    BY DEF Serialised
  <2>2. Floor(at) = at
    BY <2>1, FloorIs
  <2> QED  BY <2>1, <2>2 DEF Serialised, InMemory, IsMap
<1>2. /\ u.ints = Place(t.ints, t.last, at, data[at]) /\ u.last = at /\ u.lastRef = data[at]
      /\ u.at = Finish(data, at)
  BY DEF SerialiseTurn
<1> HIDE DEF at
<1>3. /\ IsMap(u.ints) /\ at \in DOMAIN u.ints /\ u.ints[at] = data[at]
      /\ \A s \in DOMAIN u.ints : s <= at /\ (s = at \/ s \in DOMAIN t.ints)
      /\ \A y \in Nat : At(u.ints, y) = IF at <= y THEN data[at] ELSE At(t.ints, y)
  <2>1. EndsWith(t.ints, t.last)
    BY <1>1 DEF EndsWith
  <2>2. /\ EndsWith(u.ints, at) /\ u.ints[at] = data[at]
        /\ \A s \in DOMAIN u.ints : s = at \/ s \in DOMAIN t.ints
        /\ \A y \in Nat : At(u.ints, y) = IF at <= y THEN data[at] ELSE At(t.ints, y)
    <3>1. Placed(u.ints, t.ints, t.last, at, data[at])
      BY <1>1, <1>2, <2>1 DEF Placed
    <3> QED  BY <3>1, PlaceIs
  <2> QED  BY <2>2 DEF EndsWith
<1>4. u.at = Top \/ at <= u.at
  <2>1. at \in Bytes
    BY <1>1 DEF InMemory
  <2>2. u.at \in Nat /\ at < u.at
    BY <1>2, <2>1, FinishIs
  <2> QED  BY <1>1, <2>2
<1>5. at % Word = 0
  BY DEF at
<1>6. \A s \in DOMAIN u.ints : s % Word = 0
  BY <1>1, <1>3, <1>5
<1>7. /\ \A y \in Nat : y < at => At(u.ints, y) = At(t.ints, y)
      /\ \A y \in Bytes : ~(at <= y /\ y < at)
  <2>1. \A y \in Nat : y < at => ~(at <= y)
    BY <1>1
  <2> QED  BY <1>3, <2>1 DEF Bytes
<1>8. /\ at <= at /\ Floor(at) <= at /\ \A y \in Nat : at <= y => At(u.ints, y) = data[at]
  BY <1>1, <1>3
<1>9. /\ at \in DOMAIN u.ints /\ \A s \in DOMAIN u.ints : s % Word = 0 /\ s <= at
  BY <1>3, <1>6
<1>10. Onward(data, t, u, at, at, at)
  <2>1. t.at = at
    BY DEF at
  <2> QED  BY <1>1, <1>2, <1>3, <1>4, <1>5, <1>7, <1>8, <1>9, <2>1 DEF Onward
<1> QED  BY <1>10 DEF at

\* The last interval that was placed goes on.
LEMMA GoesOn ==
  ASSUME NEW data, NEW t, Serialised(data, t), t.at # 0, NEW y \in Nat, t.last <= y
  PROVE  At(t.ints, y) = t.lastRef
<1>1. IsMap(t.ints) /\ t.last \in DOMAIN t.ints /\ t.ints[t.last] = t.lastRef
  BY DEF Serialised
<1>2. \A s \in DOMAIN t.ints : s <= t.last
  BY DEF Serialised
<1> QED  BY <1>1, <1>2, FoundAt

\* A turn within a word, which the intervals that start in it share.
LEMMA SharedTurn ==
  ASSUME NEW data, InMemory(data), Apart(data), NEW t, Serialised(data, t), t.at # Top,
         t.at % Word # 0, NEW u, u = SerialiseTurn(t, data)
  PROVE  \E k, x, z : Onward(data, t, u, k, x, z)
<1> DEFINE at == t.at
           w == Floor(at)
           z == w + Word
           k == Find(data, AlignUp(at) - 1)
           o == OverlapRef(data, at, k, t.lastRef)
           ref == data[k]
<1>1. /\ IsMap(t.ints) /\ t.last \in DOMAIN t.ints
      /\ \A s \in DOMAIN t.ints : s % Word = 0 /\ s <= t.last
      /\ at \in Nat /\ at \in DOMAIN data /\ t.last <= w
      /\ IsMap(data) /\ t.last \in Nat /\ EndsWith(t.ints, t.last)
  BY DEF Serialised, InMemory, IsMap, EndsWith
<1>2. /\ AlignUp(at) = z /\ w \in Nat /\ w < at
      /\ k \in DOMAIN data /\ k \in Nat /\ at <= k /\ k < z
      /\ Finish(data, k) = Top \/ z <= Finish(data, k)
      /\ \A y \in Bytes : w <= y /\ y < z => Wanted(data, y) = o
      /\ o \in References
  BY SharedWord
<1>3. /\ z \in Nat /\ w < z /\ w % Word = 0 /\ z % Word = 0 /\ z - Word = w /\ t.last < z
      /\ ref \in References
  <2>1. w \in Nat /\ w % Word = 0 /\ z % Word = 0
    BY <1>1, FloorIs
  <2>2. ref \in References
    BY <1>1, <1>2 DEF IsMap
  <2> HIDE DEF ref, w
  <2> QED  BY <1>1, <2>1, <2>2 DEF Word
<1>4. \A y \in Nat : t.last <= y => At(t.ints, y) = t.lastRef
  BY <1>1, <1>2, GoesOn
<1>5. /\ u.at = Finish(data, k) /\ u.lastRef = ref
      /\ u.ints = IF o = t.lastRef THEN Place(t.ints, t.last, z, ref)
                  ELSE IF o = ref THEN Place(t.ints, t.last, w, ref)
                  ELSE Place(Place(t.ints, t.last, w, o), w, z, ref)
      /\ u.last = IF o = t.lastRef THEN z ELSE IF o = ref THEN w ELSE z
  <2>1. AlignUp(at) = z /\ AlignUp(at) - Word = w
    BY <1>2, <1>3
  <2> HIDE DEF z, w
  <2> QED  BY <2>1 DEF SerialiseTurn
<1> HIDE DEF w, z, k, o, ref
\* What is to be shown of u.
<1> DEFINE x == u.last
<1>6. ASSUME x \in {w, z}, EndsWith(u.ints, x), u.ints[x] = ref,
             \A s \in DOMAIN u.ints : s % Word = 0,
             \A y \in Nat : y < w => At(u.ints, y) = At(t.ints, y),
             \A y \in Nat : w <= y /\ y < z => At(u.ints, y) = o,
             \A y \in Nat : z <= y => At(u.ints, y) = ref
      PROVE  Onward(data, t, u, k, x, z)
  <2>1. x \in Nat /\ x % Word = 0 /\ x <= z
    BY <1>2, <1>3, <1>6
  <2>2. \A y \in Bytes : w <= y /\ y < z => At(u.ints, y) = Wanted(data, y)
    BY <1>2, <1>6 DEF Bytes
  <2> HIDE DEF x
  <2>3. at <= k /\ k <= z /\ w <= z
    BY <1>1, <1>2, <1>3
  <2> QED  BY <1>2, <1>3, <1>5, <1>6, <2>1, <2>2, <2>3 DEF Onward, EndsWith, w, ref, x
<1>7. CASE o = t.lastRef
  <2>1. u.ints = Place(t.ints, t.last, z, ref) /\ x = z
    BY <1>5, <1>7
  <2>2. /\ EndsWith(u.ints, z) /\ u.ints[z] = ref
        /\ \A s \in DOMAIN u.ints : s = z \/ s \in DOMAIN t.ints
        /\ \A y \in Nat : At(u.ints, y) = IF z <= y THEN ref ELSE At(t.ints, y)
    <3>1. Placed(u.ints, t.ints, t.last, z, ref)
      BY <1>1, <1>3, <2>1 DEF Placed
    <3> QED  BY <3>1, PlaceIs
  <2>3. \A s \in DOMAIN u.ints : s % Word = 0
    BY <1>1, <1>3, <2>2
  <2>4. \A y \in Nat : w <= y /\ y < z => At(u.ints, y) = o
    BY <1>1, <1>2, <1>3, <1>4, <1>7, <2>2
  <2>5. \A y \in Nat : y < w => At(u.ints, y) = At(t.ints, y)
    BY <1>2, <1>3, <2>2
  <2> HIDE DEF x
  <2> QED  BY <1>6, <2>1, <2>2, <2>3, <2>4, <2>5
<1>8. CASE o # t.lastRef /\ o = ref
  <2>1. u.ints = Place(t.ints, t.last, w, ref) /\ x = w
    BY <1>5, <1>8
  <2>2. /\ EndsWith(u.ints, w) /\ u.ints[w] = ref
        /\ \A s \in DOMAIN u.ints : s = w \/ s \in DOMAIN t.ints
        /\ \A y \in Nat : At(u.ints, y) = IF w <= y THEN ref ELSE At(t.ints, y)
    <3>1. Placed(u.ints, t.ints, t.last, w, ref)
      BY <1>1, <1>2, <1>3, <2>1 DEF Placed
    <3> QED  BY <3>1, PlaceIs
  <2>3. \A s \in DOMAIN u.ints : s % Word = 0
    BY <1>1, <1>3, <2>2
  <2>4. \A y \in Nat : w <= y /\ y < z => At(u.ints, y) = o
    BY <1>8, <2>2
  <2>5. \A y \in Nat : y < w => At(u.ints, y) = At(t.ints, y)
    BY <1>2, <2>2
  <2>6. \A y \in Nat : z <= y => At(u.ints, y) = ref
    BY <1>2, <1>3, <2>2
  <2> HIDE DEF x
  <2> QED  BY <1>6, <2>1, <2>2, <2>3, <2>4, <2>5, <2>6
<1>9. CASE o # t.lastRef /\ o # ref
  <2> DEFINE m == Place(t.ints, t.last, w, o)
  <2>1. u.ints = Place(m, w, z, ref) /\ x = z
    BY <1>5, <1>9
  <2> HIDE DEF x
  <2>2. /\ EndsWith(m, w) /\ m[w] = o
        /\ \A s \in DOMAIN m : s = w \/ s \in DOMAIN t.ints
        /\ \A y \in Nat : At(m, y) = IF w <= y THEN o ELSE At(t.ints, y)
    <3>1. Placed(m, t.ints, t.last, w, o)
      BY <1>1, <1>2 DEF Placed
    <3> QED  BY <3>1, PlaceIs
  <2> HIDE DEF m
  <2>3. /\ EndsWith(u.ints, z) /\ u.ints[z] = ref
        /\ \A s \in DOMAIN u.ints : s = z \/ s \in DOMAIN m
        /\ \A y \in Nat : At(u.ints, y) = IF z <= y THEN ref ELSE At(m, y)
    <3>1. Placed(u.ints, m, w, z, ref)
      BY <1>2, <1>3, <2>1, <2>2 DEF Placed
    <3> QED  BY <3>1, PlaceIs
  <2>4. \A s \in DOMAIN u.ints : s % Word = 0
    BY <1>1, <1>3, <2>2, <2>3
  <2>5. \A y \in Nat : w <= y /\ y < z => At(u.ints, y) = o
    BY <1>3, <2>2, <2>3
  <2>6. \A y \in Nat : y < w => At(u.ints, y) = At(t.ints, y)
    BY <1>2, <1>3, <2>2, <2>3
  <2> QED  BY <1>6, <2>1, <2>3, <2>4, <2>5, <2>6
<1> QED  BY <1>7, <1>8, <1>9

\* The loop of Serialise_DeviceMemoryRefs.
LEMMA SerialiseTurns ==
  ASSUME NEW data
  PROVE  \E turns :
           /\ turns[0] = [ints |-> NoRefs, last |-> 0, lastRef |-> None, at |-> 0]
           /\ \A n \in 1..Top : turns[n] = SerialiseTurn(turns[n - 1], data)
           /\ Loaded(data) = turns[Top].ints
<1> DEFINE first == [ints |-> NoRefs, last |-> 0, lastRef |-> None, at |-> 0]
           Step(t) == SerialiseTurn(t, data)
           F(g, b) == [n \in 0..b |-> IF n = 0 THEN first ELSE Step(g[n - 1])]
           Bad     == {b \in Nat : ~\E g : g = F(g, b)}
<1>1. Loaded(data) = (CHOOSE g : g = F(g, Top))[Top].ints
  BY DEF Loaded
<1> HIDE DEF first, Step
<1>2. Bad = {}
  <2> SUFFICES ASSUME Bad # {} PROVE FALSE
    OBVIOUS
  <2>1. PICK b \in Bad : \A c \in Bad : b <= c
    <3>1. Bad \subseteq Nat
      OBVIOUS
    <3> HIDE DEF Bad
    <3> QED  BY <3>1, LeastNatural
  <2>2. b \in Nat /\ ~\E g : g = F(g, b)
    BY <2>1
  <2>3. b # 0
    <3> DEFINE h == [n \in 0..0 |-> first]
    <3>1. h = F(h, 0)
      OBVIOUS
    <3> QED  BY <2>2, <3>1
  <2>4. b - 1 \in Nat
    BY <2>2, <2>3
  <2>5. b - 1 \notin Bad
    <3> HIDE DEF Bad
    <3> QED  BY <2>1, <2>2, <2>4
  <2>6. PICK g : g = F(g, b - 1)
    BY <2>4, <2>5
  <2> DEFINE h == [n \in 0..b |-> IF n = b THEN Step(g[b - 1]) ELSE g[n]]
  <2>7. ASSUME NEW n \in 0..b
        PROVE  h[n] = F(h, b)[n]
    <3>1. CASE n = b
      BY <2>2, <2>3, <2>4, <3>1
    <3>2. CASE n # b
      <4>1. n \in 0..(b - 1) /\ (n # 0 => n - 1 \in 0..(b - 1) /\ n - 1 \in 0..b /\ n - 1 # b)
        BY <2>2, <3>2
      <4>2. g[n] = IF n = 0 THEN first ELSE Step(g[n - 1])
        BY <2>6, <4>1
      <4> QED  BY <3>2, <4>1, <4>2
    <3> QED  BY <3>1, <3>2
  <2>8. h = F(h, b)
    BY <2>7
  <2> QED  BY <2>2, <2>8
<1>3. \E g : g = F(g, Top)
  BY <1>2, MemRefsAssumption
<1> DEFINE g == CHOOSE g : g = F(g, Top)
<1>4. g = F(g, Top)
  BY <1>3
<1> HIDE DEF g
<1>5. /\ g[0] = first /\ \A n \in 1..Top : g[n] = Step(g[n - 1])
  <2>1. 0 \in 0..Top /\ \A n \in 1..Top : n \in 0..Top /\ n # 0
    BY MemRefsAssumption
  <2> QED  BY <1>4, <2>1
<1>6. Loaded(data) = g[Top].ints
  BY <1>1 DEF g
<1> QED  BY <1>5, <1>6 DEF first, Step

LEMMA LoadedIs ==
  ASSUME NEW data, InMemory(data), Apart(data)
  PROVE  \E t : Serialised(data, t) /\ t.at = Top /\ Loaded(data) = t.ints
<1>1. PICK turns :
        /\ turns[0] = [ints |-> NoRefs, last |-> 0, lastRef |-> None, at |-> 0]
        /\ \A n \in 1..Top : turns[n] = SerialiseTurn(turns[n - 1], data)
        /\ Loaded(data) = turns[Top].ints
  BY SerialiseTurns
<1> DEFINE Inv(t, n) == Serialised(data, t) /\ (t.at = Top \/ n <= t.at)
           Bad == {n \in 0..Top : ~Inv(turns[n], n)}
<1>2. Top \in Nat /\ 0 # Top /\ 0 <= Top
  BY MemRefsAssumption DEF Word
<1>3. ASSUME NEW t, NEW n \in Nat, Inv(t, n)
      PROVE  Inv(SerialiseTurn(t, data), n + 1)
  <2> DEFINE u == SerialiseTurn(t, data)
  <2>1. CASE t.at = Top
    <3>1. u = t
      BY <2>1 DEF SerialiseTurn
    <3> QED  BY <1>3, <2>1, <3>1
  <2>2. CASE t.at # Top
    <3> HIDE DEF u
    <3>1. u = SerialiseTurn(t, data)
      BY DEF u
    <3>2. \E k, x, z : Onward(data, t, u, k, x, z)
      <4>1. CASE t.at % Word = 0
        BY <1>3, <2>2, <3>1, <4>1, AlignedTurn
      <4>2. CASE t.at % Word # 0
        BY <1>3, <2>2, <3>1, <4>2, SharedTurn
      <4> QED  BY <4>1, <4>2
    <3>3. Serialised(data, u) /\ t.at < u.at
      BY <1>3, <2>2, <3>2, OnwardSerialises
    <3>4. t.at \in Nat /\ u.at \in Nat
      BY <1>3, <3>3 DEF Serialised
    <3>5. n + 1 <= u.at
      BY <1>3, <2>2, <3>3, <3>4
    <3> QED  BY <3>3, <3>5 DEF u
  <2> QED  BY <2>1, <2>2
<1>4. Inv(turns[0], 0)
  <2> DEFINE t == turns[0]
  <2>1. t.ints = NoRefs /\ t.at = 0 /\ t.last = 0 /\ t.lastRef = None
    BY <1>1
  <2>2. 0 \in DOMAIN data /\ None \in References
    BY ReferenceValues DEF InMemory, IsMap
  <2>3. IsMap(NoRefs) /\ DOMAIN NoRefs = {0}
    BY <2>2 DEF NoRefs, IsMap
  <2>4. Floor(0) = 0 /\ 0 % Word = 0
    BY DEF Floor, Word
  <2>5. \A y \in Bytes : ~(y < 0)
    BY MemRefsAssumption DEF Bytes
  <2> HIDE DEF t
  <2> QED  BY <1>2, <2>1, <2>2, <2>3, <2>4, <2>5 DEF Serialised, t
<1>5. Bad = {}
  <2> SUFFICES ASSUME Bad # {} PROVE FALSE
    OBVIOUS
  <2> HIDE DEF Inv
  <2>1. PICK b \in Bad : \A c \in Bad : b <= c
    <3>1. Bad \subseteq Nat
      OBVIOUS
    <3> HIDE DEF Bad
    <3> QED  BY <3>1, LeastNatural
  <2>2. b \in 1..Top /\ b - 1 \in 0..Top /\ b - 1 \in Nat /\ (b - 1) + 1 = b /\ ~(b <= b - 1)
    BY <1>2, <1>4, <2>1
  <2>3. Inv(turns[b - 1], b - 1)
    BY <2>1, <2>2
  <2>4. Inv(turns[b], b)
    BY <1>1, <1>3, <2>2, <2>3
  <2> QED  BY <2>1, <2>4
<1> DEFINE t == turns[Top]
<1>6. Inv(t, Top)
  <2> HIDE DEF Inv
  <2> QED  BY <1>2, <1>5
<1>7. t.at = Top
  <2>1. t.at \in Nat /\ t.at <= Top
    BY <1>6 DEF Serialised
  <2> QED  BY <1>2, <1>6, <2>1
<1> QED  BY <1>1, <1>6, <1>7

\* Of a word's references, the one that stands for them asks for no less.
LEMMA RestoresMore ==
  ASSUME NEW v \in References, NEW c \in References,
         c = v \/ (c # CompleteWriteAndDiscard
                     /\ IF v = ReadBeforeWrite THEN c = ReadBeforeWrite
                        ELSE c = ReadBeforeWrite \/ Used(v) <= c),
         NEW policy \in {"NoOpt", "Fastest"}, NEW initialized \in BOOLEAN
  PROVE  Strength[InitReq(v, policy, initialized)] <= Strength[InitReq(c, policy, initialized)]
<1> DEFINE once(req) == IF initialized THEN "None" ELSE req
<1>1. /\ Strength["Copy"] = 2 /\ Strength["Clear"] = 1 /\ Strength["None"] = 0
  BY DEF Strength
<1>2. CASE policy = "NoOpt"
  BY <1>1, <1>2 DEF InitReq
<1>3. CASE policy = "Fastest"
  <2>1. \A r \in References :
          InitReq(r, policy, initialized) =
            IF r = ReadBeforeWrite THEN "Copy"
            ELSE IF r \in {Read, WriteBeforeRead} THEN once("Copy") ELSE once("Clear")
    BY <1>3, ReferenceValues DEF InitReq
  <2>2. \A r \in References :
          Strength[InitReq(r, policy, initialized)] =
            IF r = ReadBeforeWrite THEN 2
            ELSE IF initialized THEN 0 ELSE IF r \in {Read, WriteBeforeRead} THEN 2 ELSE 1
    BY <1>1, <2>1
  <2>3. v \in {Read, WriteBeforeRead} => c \in {Read, ReadBeforeWrite, WriteBeforeRead}
    BY ReferenceValues DEF Used
  <2>4. v = ReadBeforeWrite => c = ReadBeforeWrite
    OBVIOUS
  <2> QED  BY <2>2, <2>3, <2>4
<1> QED  BY <1>2, <1>3

\* What a capture file gives the replay (vk_manager.cpp:448), for every map: the
\* reference of each word, and a reset that is enough for each of its bytes.
THEOREM LoadedExact ==
  ASSUME NEW ints \in Intervals(1..(Top - 1), References)
  PROVE  LoadedExactly(ints) /\ RestoredEnough(ints)
<1>1. InMemory(ints) /\ Apart(ints) /\ IsMap(ints)
  BY IntervalsAre DEF InMemory
<1>2. PICK t : Serialised(ints, t) /\ t.at = Top /\ Loaded(ints) = t.ints
  BY <1>1, LoadedIs
<1>3. /\ \A s \in DOMAIN Loaded(ints) : s % Word = 0
      /\ \A x \in Bytes : At(Loaded(ints), x) = Wanted(ints, x)
  BY <1>2 DEF Serialised
<1>4. LoadedExactly(ints)
  BY <1>3 DEF LoadedExactly, Wanted, WordOf
<1>5. ASSUME NEW x \in Bytes, NEW policy \in {"NoOpt", "Fastest"}, NEW initialized \in BOOLEAN
      PROVE  Strength[InitReq(At(ints, x), policy, initialized)]
               <= Strength[InitReq(At(Loaded(ints), x), policy, initialized)]
  <2> DEFINE v == At(ints, x)
             c == Wanted(ints, x)
             R == {Used(At(ints, y)) : y \in WordOf(x)} \cup {None}
  <2>1. \A y \in WordOf(x) : At(ints, y) \in References
    BY <1>1, FindIs DEF WordOf, Bytes
  <2>2. x \in WordOf(x) /\ v \in References
    BY <2>1 DEF WordOf
  <2>3. \A w \in References : /\ Used(w) \in References /\ Used(w) # CompleteWriteAndDiscard
                              /\ Used(w) = ReadBeforeWrite <=> w = ReadBeforeWrite
    BY ReferenceValues DEF Used
  <2>4. /\ R \subseteq References /\ None \in R /\ CompleteWriteAndDiscard \notin R /\ Used(v) \in R
    BY <2>1, <2>2, <2>3, ReferenceValues
  <2> HIDE DEF R
  <2>5. /\ Combined(R) \in R /\ (ReadBeforeWrite \in R => Combined(R) = ReadBeforeWrite)
        /\ ReadBeforeWrite \notin R => \A y \in R : y <= Combined(R)
    BY <2>4, CombinedIs
  <2>6. c = v \/ c = Combined(R)
    BY DEF Wanted, Together, R
  <2> HIDE DEF v, c
  <2>7. /\ c \in References
        /\ c = v \/ (c # CompleteWriteAndDiscard
                       /\ IF v = ReadBeforeWrite THEN c = ReadBeforeWrite
                          ELSE c = ReadBeforeWrite \/ Used(v) <= c)
    BY <2>2, <2>3, <2>4, <2>5, <2>6
  <2>8. Strength[InitReq(v, policy, initialized)] <= Strength[InitReq(c, policy, initialized)]
    BY <2>2, <2>7, RestoresMore
  <2> QED  BY <1>3, <2>8 DEF v, c
<1> QED  BY <1>4, <1>5 DEF RestoredEnough

\* The intervals of a run are among all of them.
LEMMA RunIntervals ==
  ASSUME NEW starts, starts \subseteq 1..(Top - 1), NEW refs, refs \subseteq References
  PROVE  Intervals(starts, refs) \subseteq Intervals(1..(Top - 1), References)
BY IntervalsAre, AreIntervals

\* What updating and merging do to intervals, they do to each byte (intervals.h:226,
\* 250): the case of the runs.
THEOREM RangesArePointwiseAlways == Spec => []RangesArePointwise
<1>1. {None, PartialWrite, Read} \subseteq References /\ {PartialWrite, CompleteWrite, Read} \subseteq References
  BY ReferenceValues
<1>2. Intervals(Cuts, {None, PartialWrite, Read}) \subseteq Intervals(1..(Top - 1), References)
  BY <1>1, MemRefsAssumption, RunIntervals
<1>3. {0, Top} \cup Cuts \subseteq 0..Top
  BY MemRefsAssumption
<1>4. RangesArePointwise
  BY <1>1, <1>2, <1>3, UpdatePointwise, MergePointwise DEF RangesArePointwise
<1> QED  BY <1>4, PTL

\* What a capture file gives the replay (vk_manager.cpp:448): the case of the runs.
THEOREM LoadedRefsExactAlways == Spec => []LoadedRefsExact
<1>1. {None, CompleteWrite, Read} \subseteq References
  BY ReferenceValues
<1>2. Intervals(FileCuts, {None, CompleteWrite, Read}) \subseteq Intervals(1..(Top - 1), References)
  BY <1>1, MemRefsAssumption, RunIntervals
<1>3. LoadedRefsExact
  BY <1>2, LoadedExact DEF LoadedRefsExact
<1> QED  BY <1>3, PTL

=============================================================================
