--------------------- MODULE ContainerWithHandlesProofs ---------------------
(***************************************************************************)
(* ContainerWithHandles never stores a value over another one, for every   *)
(* set of values and every number of them.  The inductive invariant is the *)
(* type invariant with FreeHandlesUnused; the contiguity of the handles in *)
(* use is not invariant (an Add inside a destructor leaves gaps), so the   *)
(* proof rests on the loop of GetFreeHandle instead: LEMMA FirstUnused.    *)
(***************************************************************************)
EXTENDS ContainerWithHandles, FiniteSetTheorems, WellFoundedInduction, TLAPS

\* A non-empty set of naturals has a least element.
LEMMA LeastNatural ==
    ASSUME NEW T, T \subseteq Nat, T # {}
    PROVE  \E x \in T : \A y \in T : x <= y
<1>1. PICK x \in T : \A y \in T : ~ (<<y, x>> \in OpToRel(<, Nat))
  BY NatLessThanWellFounded, WFMin
<1>2. \A y \in T : ~ (y < x)
  BY <1>1 DEF OpToRel
<1>3. QED
  BY <1>2

\* A finite set does not contain every integer of an interval that has more
\* elements than the set.
LEMMA SomeUnused ==
    ASSUME NEW H, IsFiniteSet(H), NEW h \in Nat
    PROVE  \E k \in h .. h + Cardinality(H) : k \notin H
<1>1. Cardinality(H) \in Nat
  BY FS_CardinalityType
<1>2. Cardinality(h .. h + Cardinality(H)) = Cardinality(H) + 1
  BY <1>1, FS_Interval
<1>3. SUFFICES ASSUME h .. h + Cardinality(H) \subseteq H PROVE FALSE
  OBVIOUS
<1>4. Cardinality(h .. h + Cardinality(H)) <= Cardinality(H)
  BY <1>3, FS_Subset
<1>5. QED
  BY <1>1, <1>2, <1>4

\* The loop of GetFreeHandle ends, at a handle not in use.
LEMMA FirstUnused ==
    ASSUME IsFiniteSet(Handles), NEW h \in Nat
    PROVE  /\ FirstUnusedFrom(h) \in Nat
           /\ FirstUnusedFrom(h) >= h
           /\ FirstUnusedFrom(h) \notin Handles
<1> DEFINE C == h .. h + Cardinality(Handles)
           T == {k \in C : k \notin Handles}
           P(k) == /\ k \notin Handles
                   /\ \A j \in h .. k - 1 : j \in Handles
<1>1. Cardinality(Handles) \in Nat
  BY FS_CardinalityType
<1>2. T # {} /\ T \subseteq Nat
  BY <1>1, SomeUnused
<1>3. PICK x \in T : \A y \in T : x <= y
  BY <1>2, LeastNatural
<1>4. ASSUME NEW j \in h .. x - 1 PROVE j \in Handles
  BY <1>1, <1>3, <1>4
<1>5. \E k \in C : P(k)
  BY <1>3, <1>4
<1> HIDE DEF P
<1>6. (CHOOSE k \in C : P(k)) \in C /\ P(CHOOSE k \in C : P(k))
  BY <1>5
<1>7. FirstUnusedFrom(h) \in C /\ FirstUnusedFrom(h) \notin Handles
  BY <1>6 DEF P, FirstUnusedFrom
<1>8. QED
  BY <1>1, <1>7

-----------------------------------------------------------------------------
\* The handles in use are well typed and apart from the handles that wait for
\* reuse: the inductive invariant.
IInv == TypeOK /\ FreeHandlesUnused

\* Storing a value at an unused positive handle that is taken off the free
\* list keeps the invariant.
LEMMA InsertKeepsIInv ==
    ASSUME IInv, NEW v \in Value, NEW h \in Nat \ {0},
           h \notin Handles, InsertOrAssign(h, v),
           free_handles' = free_handles \ {h}, UNCHANGED destroying
    PROVE  IInv'
<1>1. Handles' = Handles \cup {h}
  BY DEF InsertOrAssign, Handles
<1>2. IsFiniteSet(Handles)'
  BY <1>1, FS_AddElement DEF IInv, TypeOK
<1>3. values' \in [Handles' -> Value]
  BY <1>1 DEF IInv, TypeOK, InsertOrAssign, Handles
<1>4. QED
  BY <1>1, <1>2, <1>3 DEF IInv, TypeOK, FreeHandlesUnused

\* Erasing an entry and freeing its handle keeps the invariant.
LEMMA EraseKeepsIInv ==
    ASSUME IInv, NEW h \in Handles, Erase(h),
           free_handles' = free_handles \cup {h}, destroying' \in BOOLEAN
    PROVE  IInv'
<1>1. Handles' = Handles \ {h}
  BY DEF Erase, Handles
<1>2. IsFiniteSet(Handles)'
  BY <1>1, FS_RemoveElement DEF IInv, TypeOK
<1>3. values' \in [Handles' -> Value]
  BY <1>1 DEF IInv, TypeOK, Erase, Handles
<1>4. QED
  BY <1>1, <1>2, <1>3 DEF IInv, TypeOK, FreeHandlesUnused

\* The handle AddNew stores at: positive and not in use.
LEMMA NewHandle ==
    ASSUME IInv, NEW n \in Sizes
    PROVE  FirstUnusedFrom(n + 1) \in (Nat \ {0}) \ Handles
<1>1. Cardinality(Handles) \in Nat
  BY FS_CardinalityType DEF IInv, TypeOK
<1>2. n + 1 \in Nat \ {0}
  BY <1>1 DEF Sizes
<1>3. QED
  BY <1>2, FirstUnused DEF IInv, TypeOK

\* Every step keeps the invariant.
LEMMA IInvStep == IInv /\ [Next]_vars => IInv'
<1> SUFFICES ASSUME IInv, [Next]_vars PROVE IInv'
  OBVIOUS
<1>1. ASSUME NEW v \in Value, AddReused(v) PROVE IInv'
  <2>1. PICK h \in free_handles : /\ free_handles' = free_handles \ {h}
                                  /\ InsertOrAssign(h, v)
    BY <1>1 DEF AddReused
  <2>2. h \in Nat \ {0} /\ h \notin Handles
    BY DEF IInv, TypeOK, FreeHandlesUnused
  <2>3. QED
    BY <1>1, <2>1, <2>2, InsertKeepsIInv DEF AddReused
<1>2. ASSUME NEW v \in Value, AddNew(v) PROVE IInv'
  <2>1. PICK n \in Sizes : InsertOrAssign(FirstUnusedFrom(n + 1), v)
    BY <1>2 DEF AddNew
  <2>2. FirstUnusedFrom(n + 1) \in (Nat \ {0}) \ Handles
    BY NewHandle
  <2>3. free_handles' = free_handles \ {FirstUnusedFrom(n + 1)}
    BY <1>2 DEF AddNew
  <2>4. QED
    BY <1>2, <2>1, <2>2, <2>3, InsertKeepsIInv DEF AddNew
<1>3. ASSUME NEW h \in Handles, Remove(h) PROVE IInv'
  BY <1>3, EraseKeepsIInv DEF Remove, IInv, TypeOK
<1>4. ASSUME NEW h \in Handles, RemoveIterator(h) PROVE IInv'
  BY <1>4, EraseKeepsIInv DEF RemoveIterator
<1>5. CASE EraseReturns
  BY <1>5 DEF EraseReturns, IInv, TypeOK, FreeHandlesUnused, Handles
<1>6. CASE UNCHANGED vars
  BY <1>6 DEF vars, IInv, TypeOK, FreeHandlesUnused, Handles
<1>7. QED
  BY <1>1, <1>2, <1>3, <1>4, <1>5, <1>6 DEF Next

\* The empty container satisfies the invariant.
LEMMA IInvInit == Init => IInv
<1> SUFFICES ASSUME Init PROVE IInv
  OBVIOUS
<1>1. Handles = {}
  BY DEF Init, Handles
<1>2. QED
  BY <1>1, FS_EmptySet DEF Init, IInv, TypeOK, FreeHandlesUnused, Handles

\* The invariant holds in every behaviour of the container.
LEMMA IInvAlways == Spec => []IInv
BY IInvInit, IInvStep, PTL DEF Spec

\* Type correctness of the container: handles are positive integers, for any
\* number of values.
THEOREM TypeCorrect == Spec => []TypeOK
BY IInvAlways, PTL DEF IInv

\* A handle on the free list is never in use, so GetFreeHandle may take it
\* without looking at values_.
THEOREM FreeHandlesAreUnused == Spec => []FreeHandlesUnused
BY IInvAlways, PTL DEF IInv

\* No step replaces a stored value: Add always finds a handle that is not in
\* use, during the destructor of an erased value too.
THEOREM NeverOverwrites == Spec => NoOverwrite
<1> DEFINE Kept == \A h \in Handles \cap DOMAIN values' : values'[h] = values[h]
<1>1. IInv /\ [Next]_vars => [Kept]_vars
  <2> SUFFICES ASSUME IInv, Next PROVE Kept
    OBVIOUS
  <2>1. ASSUME NEW v, NEW k, k \notin Handles, InsertOrAssign(k, v) PROVE Kept
    BY <2>1 DEF InsertOrAssign, Handles
  <2>2. ASSUME NEW v \in Value, AddReused(v) PROVE Kept
    BY <2>1, <2>2 DEF AddReused, IInv, FreeHandlesUnused
  <2>3. ASSUME NEW v \in Value, AddNew(v) PROVE Kept
    BY <2>1, <2>3, NewHandle DEF AddNew
  <2>4. ASSUME NEW k, Erase(k) PROVE Kept
    BY <2>4 DEF Erase, Handles
  <2>5. CASE EraseReturns
    BY <2>5 DEF EraseReturns
  <2>6. QED
    BY <2>2, <2>3, <2>4, <2>5 DEF Next, Remove, RemoveIterator
<1>2. QED
  BY <1>1, IInvAlways, PTL DEF Spec, NoOverwrite
=============================================================================
