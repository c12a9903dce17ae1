------------------------ MODULE ContainerWithHandles ------------------------
(***************************************************************************)
(* utils::ContainerWithHandles<THandle, TValue>: the table behind request, *)
(* options and queue handles.  A handle is an integer from 1 up; a handle  *)
(* that was removed is kept in free_handles_ and given out again, in an    *)
(* order the hash set chooses.                                             *)
(*                                                                         *)
(* Removal by iterator (the queue table, EasyHttpModule.cpp:108) is two    *)
(* steps here: erasing the value runs its destructor, for a queue that     *)
(* destructor runs plugin callbacks, and those call Add and Remove of the  *)
(* same container before erase() has returned.  While the destructor runs  *)
(* the node is unlinked but size() may or may not count it: libstdc++      *)
(* decrements the element count after destroying the node, other standard  *)
(* libraries before.                                                       *)
(***************************************************************************)
EXTENDS Integers, FiniteSets

CONSTANTS
    Value,      \* what the container stores
    MaxValues   \* bound on the number of values alive at once

ASSUME MaxValuesAssumption == MaxValues \in Nat

VARIABLES
    values,        \* values_: function from the handles in use to values
    free_handles,  \* free_handles_: handles that were used and removed
    destroying     \* TRUE while a value erased by iterator is being destroyed

vars == <<values, free_handles, destroying>>

Handles == DOMAIN values

\* What values_.size() may return at this point.
Sizes == IF destroying
         THEN {Cardinality(Handles), Cardinality(Handles) + 1}
         ELSE {Cardinality(Handles)}

\* Mutants of FirstUnusedFrom: no loop; handles counted from zero.
FirstUnusedFromNoLoop(h) == h
FirstUnusedFromZero(h) ==
    CHOOSE k \in h - 1 .. h + Cardinality(Handles) : k \notin Handles

\* The while loop of GetFreeHandle: the first handle from h on not in use.
\* (At most |Handles| of the handles from h on are in use.)
FirstUnusedFrom(h) ==
    CHOOSE k \in h .. h + Cardinality(Handles) :
        /\ k \notin Handles
        /\ \A j \in h .. k - 1 : j \in Handles

-----------------------------------------------------------------------------

Init ==
    /\ values = [h \in {} |-> h]
    /\ free_handles = {}
    /\ destroying = FALSE

\* values_.insert_or_assign(handle, value)
InsertOrAssign(h, v) ==
    values' = [k \in Handles \cup {h} |-> IF k = h THEN v ELSE values[k]]

\* Add(value), GetFreeHandle() included: any removed handle first, ...
AddReused(v) ==
    /\ Cardinality(Handles) < MaxValues
    /\ \E h \in free_handles :
          /\ free_handles' = free_handles \ {h}
          /\ InsertOrAssign(h, v)
    /\ UNCHANGED destroying

\* ... the next unused integer when there is none.
AddNew(v) ==
    /\ Cardinality(Handles) < MaxValues
    /\ free_handles = {}
    /\ \E n \in Sizes : InsertOrAssign(FirstUnusedFrom(n + 1), v)
    /\ UNCHANGED <<free_handles, destroying>>

Erase(h) == values' = [k \in Handles \ {h} |-> values[k]]

\* Mutant of Remove: the handle is freed, the entry stays.
RemoveKeepsEntry(h) ==
    /\ h \in Handles
    /\ free_handles' = free_handles \cup {h}
    /\ UNCHANGED <<values, destroying>>

\* bool Remove(THandle); with a handle that is not in use it does nothing.
Remove(h) ==
    /\ h \in Handles
    /\ Erase(h)
    /\ free_handles' = free_handles \cup {h}
    /\ UNCHANGED destroying

\* auto Remove(iterator): the handle is free before the value is erased, and
\* the value's destructor starts.
RemoveIterator(h) ==
    /\ ~destroying
    /\ h \in Handles
    /\ free_handles' = free_handles \cup {h}
    /\ Erase(h)
    /\ destroying' = TRUE

\* values_.erase(it) returns.
EraseReturns ==
    /\ destroying
    /\ destroying' = FALSE
    /\ UNCHANGED <<values, free_handles>>

Next ==
    \/ \E v \in Value : AddReused(v) \/ AddNew(v)
    \/ \E h \in Handles : Remove(h) \/ RemoveIterator(h)
    \/ EraseReturns

Spec == Init /\ [][Next]_vars

-----------------------------------------------------------------------------
(* Correctness *)

\* Handles are positive, and what is stored are values.
TypeOK ==
    /\ values \in [Handles -> Value]
    /\ Handles \subseteq Nat \ {0}
    /\ IsFiniteSet(Handles)
    /\ free_handles \subseteq Nat \ {0}
    /\ destroying \in BOOLEAN

\* A handle waiting for reuse is never one that is in use: GetFreeHandle
\* (ContainerWithHandles.h:114-118) takes it without looking at values_.
FreeHandlesUnused == free_handles \cap Handles = {}

\* insert_or_assign never assigns: a step that stores a value leaves every
\* value already stored alone, so no live request, options object or queue is
\* ever replaced by another one that got its handle (also when Add runs inside
\* the destructor of an erased value, and also after that left a gap).
NoOverwrite ==
    [][\A h \in Handles \cap DOMAIN values' : values'[h] = values[h]]_vars

=============================================================================
