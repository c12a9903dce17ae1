------------------------------ MODULE JsonMngr ------------------------------
(***************************************************************************)
(* JSONMngr and the ezjson natives: a table of handles to parson values.   *)
(*                                                                         *)
(* parson values form trees (arrays and objects hold child values) and     *)
(* json_value_free frees a whole tree.  The table has one handle for every *)
(* value a plugin asked for; a handle with m_bMustBeFreed frees its value  *)
(* when it is freed, the other handles only name a value inside a tree     *)
(* that someone else owns.  All calls come from the game's main thread, so *)
(* each native is one step.                                                *)
(*                                                                         *)
(* heap is parson's memory: a function from the values that are allocated. *)
(* An element of Value is an allocation, not an address: it is taken again *)
(* only when no handle names it any more.  Array items are keyed by        *)
(* position and object items by name (json_object_get_value_at reaches     *)
(* them in an order that does not matter here); a dotted name has one dot; *)
(* strings, numbers, booleans and nulls are "scalar".  Natives that only   *)
(* read are left out, and so are the calls a native rejects and parson's   *)
(* allocation failures.                                                    *)
(*                                                                         *)
(* What is assumed of plugins: they dereference a handle only while its    *)
(* value is allocated (IsValidHandle cannot tell), and they do not put a   *)
(* value inside itself.  SharedRoots says whether they also insert a root  *)
(* through a handle other than the one that must free it.                  *)
(***************************************************************************)
EXTENDS Integers, Sequences, FiniteSets, SequencesExt

CONSTANTS
    Value,        \* allocations
    Name,         \* names of object members
    NoValue,      \* the null JSON_Value pointer
    NoHandle,     \* an empty slot of m_Handles
    MaxHandles,   \* bound on the size of m_Handles
    MaxItems,     \* bound on the items of one array
    SharedRoots   \* see above

Kinds == {"array", "object", "scalar"}

ASSUME SharedRootsAssumption == SharedRoots \in BOOLEAN
ASSUME BoundsAssumption == MaxHandles \in Nat /\ MaxItems \in Nat \ {0}
ASSUME NullsAssumption ==
    /\ NoValue \notin Value
    /\ NoHandle \notin [value : Value, type : Kinds, must_be_freed : BOOLEAN]

VARIABLES
    heap,           \* the allocated values: kind, parent, items
    m_Handles,      \* m_Handles; position p is the handle p - 1 of the code
    m_OldHandles,   \* m_OldHandles: freed handles, oldest first
    lost            \* history: roots given to a parson call that refused them

vars == <<heap, m_Handles, m_OldHandles, lost>>

-----------------------------------------------------------------------------
(* parson *)

\* The values that json_value_free(v) visits in memory H: the least set that
\* has v and the items of every allocated value in it.
Tree(H, v) ==
    {w \in Value :
        \A S \in SUBSET Value :
            (/\ v \in S
             /\ \A u \in S \cap DOMAIN H : Range(H[u].items) \subseteq S)
            => w \in S}

\* json_value_free of every value in S.
json_value_free(H, S) ==
    LET freed == UNION {Tree(H, v) : v \in S}
    IN  [v \in DOMAIN H \ freed |-> H[v]]

\* json_value_init_*: a new value without parent and items.
json_value_init(H, v, kind) ==
    [w \in DOMAIN H \cup {v} |->
        IF w = v THEN [kind |-> kind, parent |-> NoValue, items |-> <<>>]
                 ELSE H[w]]

\* Container c gets the items `new`: items that go are freed, items that come
\* get their parent.  This is what append, replace, set, remove and clear do.
SetItems(H, c, new) ==
    LET kept == json_value_free(H, Range(H[c].items) \ Range(new))
    IN  [v \in DOMAIN kept |->
            [kept[v] EXCEPT !.items  = IF v = c THEN new ELSE @,
                            !.parent = IF v \in Range(new) THEN c ELSE @]]

\* Item `key` of an object or an array becomes v.
Assign(items, key, v) ==
    [k \in DOMAIN items \cup {key} |-> IF k = key THEN v ELSE items[k]]

\* An object without the member `name`.
Without(items, name) == [k \in DOMAIN items \ {name} |-> items[k]]

\* json_value_deep_copy(v): the tree of v once more, as the values f names.
json_value_deep_copy(H, v, f) ==
    LET copy == {f[w] : w \in Tree(H, v)}
        Of(x) == CHOOSE w \in Tree(H, v) : f[w] = x
    IN  [x \in DOMAIN H \cup copy |->
            IF x \notin copy THEN H[x]
            ELSE [kind   |-> H[Of(x)].kind,
                  parent |-> IF Of(x) = v THEN NoValue ELSE f[H[Of(x)].parent],
                  items  |-> [k \in DOMAIN H[Of(x)].items |-> f[H[Of(x)].items[k]]]]]

-----------------------------------------------------------------------------
(* The table of handles *)

Handles == {h \in DOMAIN m_Handles : m_Handles[h] # NoHandle}

\* Allocations that parson may hand out next.
Fresh == Value \ (DOMAIN heap \cup {m_Handles[h].value : h \in Handles})

\* The ways to allocate a copy of the tree of v, keeping `spare` free.
Copies(v, spare) ==
    {f \in [Tree(heap, v) -> Fresh \ spare] :
        \A x, y \in Tree(heap, v) : f[x] = f[y] => x = y}

\* IsValidHandle(handle, type), type "value" standing for any of the three.
IsValidHandle(h, type) ==
    /\ h \in Handles
    /\ type \in {"array", "object"} => m_Handles[h].type = type

\* The handles a plugin uses: they are valid and their value still exists.
Usable(type) ==
    {h \in Handles : IsValidHandle(h, type) /\ m_Handles[h].value \in DOMAIN heap}

ValueOf(h) == m_Handles[h].value

\* Mutant of _MakeHandle: the reused handle stays in m_OldHandles.
MakeHandleNoPop(H, v, must_be_freed) ==
    LET entry == [value |-> v, type |-> H[v].kind, must_be_freed |-> must_be_freed]
    IN  /\ m_OldHandles' = m_OldHandles
        /\ IF m_OldHandles # <<>>
           THEN m_Handles' = [m_Handles EXCEPT ![Head(m_OldHandles)] = entry]
           ELSE Len(m_Handles) < MaxHandles /\ m_Handles' = Append(m_Handles, entry)

\* _MakeHandle(value, type, must_be_freed) for a value of memory H.
MakeHandle(H, v, must_be_freed) ==
    LET entry == [value |-> v, type |-> H[v].kind, must_be_freed |-> must_be_freed]
    IN  \/ /\ m_OldHandles # <<>>
           /\ m_OldHandles' = Tail(m_OldHandles)
           /\ m_Handles' = [m_Handles EXCEPT ![Head(m_OldHandles)] = entry]
        \/ /\ m_OldHandles = <<>>
           /\ Len(m_Handles) < MaxHandles
           /\ m_Handles' = Append(m_Handles, entry)
           /\ UNCHANGED m_OldHandles

\* The values that the handles of S free (_FreeHandle).
MustFree(S) == {ValueOf(h) : h \in {k \in S : m_Handles[k].must_be_freed}}

Init ==
    /\ heap = [v \in {} |-> v]
    /\ m_Handles = <<>>
    /\ m_OldHandles = <<>>
    /\ lost = {}

-----------------------------------------------------------------------------
(* Natives that make a handle *)

\* InitObject, InitArray, and InitString, InitNum, InitBool, InitNull.
InitValue(kind) ==
    /\ \E v \in Fresh :
          /\ heap' = json_value_init(heap, v, kind)
          /\ MakeHandle(heap', v, TRUE)
    /\ UNCHANGED lost

\* Parse, here of a text that is a container with one scalar in it.
Parse(kind) ==
    /\ \E v \in Fresh : \E w \in Fresh \ {v} :
       \E key \in IF kind = "array" THEN {1} ELSE Name :
          /\ heap' = SetItems(json_value_init(json_value_init(heap, v, kind), w, "scalar"),
                              v, Assign(<<>>, key, w))
          /\ MakeHandle(heap', v, TRUE)
    /\ UNCHANGED lost

\* DeepCopyValue(value)
DeepCopyValue(h) ==
    /\ \E f \in Copies(ValueOf(h), {}) :
          /\ heap' = json_value_deep_copy(heap, ValueOf(h), f)
          /\ MakeHandle(heap', f[ValueOf(h)], TRUE)
    /\ UNCHANGED lost

\* Mutant of GetValueParent: the new handle also frees the parent.
GetValueParentOwning(h) ==
    /\ heap[ValueOf(h)].parent # NoValue
    /\ MakeHandle(heap, heap[ValueOf(h)].parent, TRUE)
    /\ UNCHANGED <<heap, lost>>

\* GetValueParent(value)
GetValueParent(h) ==
    /\ heap[ValueOf(h)].parent # NoValue
    /\ MakeHandle(heap, heap[ValueOf(h)].parent, FALSE)
    /\ UNCHANGED <<heap, lost>>

\* ArrayGetValue, ObjectGetValue and ObjectGetValueAt: any item.
GetItem(h) ==
    /\ \E v \in Range(heap[ValueOf(h)].items) : MakeHandle(heap, v, FALSE)
    /\ UNCHANGED <<heap, lost>>

\* ObjectGetValue with a dotted name: an item of an object in the object.
ObjectDotGetValue(h) ==
    /\ \E o \in Range(heap[ValueOf(h)].items) :
          /\ heap[o].kind = "object"
          /\ \E v \in Range(heap[o].items) : MakeHandle(heap, v, FALSE)
    /\ UNCHANGED <<heap, lost>>

-----------------------------------------------------------------------------
(* Natives that put a value into an array or an object *)

\* Mutant of Offer: the value itself is offered although it has a parent.
OfferNoCopy(h, into, spare) ==
    {[mem |-> heap, value |-> ValueOf(h),
      table |-> [m_Handles EXCEPT ![h].must_be_freed = FALSE]] :
        x \in {y \in {into} : y \notin Tree(heap, ValueOf(h))}}

\* Mutant of Offer: the handle still frees the value it gives away.
OfferKeepsOwner(h, into, spare) ==
    {[mem |-> heap, value |-> ValueOf(h), table |-> m_Handles] :
        x \in {y \in {into} : /\ y \notin Tree(heap, ValueOf(h))
                              /\ heap[ValueOf(h)].parent = NoValue}}

\* May a plugin insert the root that h names into that container?
MayInsertRoot(h, into) ==
    /\ into \notin Tree(heap, ValueOf(h))
    /\ \/ SharedRoots
       \/ \A k \in Handles \ {h} : ValueOf(k) = ValueOf(h) => ~m_Handles[k].must_be_freed

\* How ArrayReplaceValue, ArrayAppendValue and ObjectSetValue begin: a value
\* that has a parent is copied; a root is given to parson, and its handle no
\* longer frees it.  The memory, the value and the table with which parson is
\* called; `spare` is an allocation that parson makes afterwards.
Offer(h, into, spare) ==
    LET v == ValueOf(h)
    IN  IF heap[v].parent # NoValue
        THEN {[mem |-> json_value_deep_copy(heap, v, f), value |-> f[v], table |-> m_Handles] :
                 f \in Copies(v, spare)}
        ELSE {[mem |-> heap, value |-> v,
               table |-> [m_Handles EXCEPT ![h].must_be_freed = FALSE]] :
                 c \in {x \in {into} : MayInsertRoot(h, x)}}

\* How they end, whether parson took the offered value or not.
Offered(g) ==
    /\ m_Handles' = g.table
    /\ lost' = {w \in (lost \cup {g.value}) \cap DOMAIN heap' : heap'[w].parent = NoValue}
    /\ UNCHANGED m_OldHandles

\* ArrayReplaceValue(array, index, value); json_array_replace_value fails
\* when there is no such index.
ArrayReplaceValue(array, index, value) ==
    LET a == ValueOf(array)
    IN  \E g \in Offer(value, a, {}) :
            /\ heap' = IF index \in DOMAIN heap[a].items
                       THEN SetItems(g.mem, a, Assign(heap[a].items, index, g.value))
                       ELSE g.mem
            /\ Offered(g)

\* ArrayAppendValue(array, value)
ArrayAppendValue(array, value) ==
    LET a == ValueOf(array)
    IN  /\ Len(heap[a].items) < MaxItems
        /\ \E g \in Offer(value, a, {}) :
              /\ heap' = SetItems(g.mem, a, Append(heap[a].items, g.value))
              /\ Offered(g)

\* ObjectSetValue(object, name, value) without dotfunc.
ObjectSetValue(object, name, value) ==
    LET o == ValueOf(object)
    IN  \E g \in Offer(value, o, {}) :
            /\ heap' = SetItems(g.mem, o, Assign(heap[o].items, name, g.value))
            /\ Offered(g)

\* json_object_dotset_value(o, "outer.inner", v) in memory H: the member
\* outer is created (as p) when missing, and must be an object.
DotSet(H, o, outer, inner, p, v) ==
    LET q == H[o].items[outer]
        G == SetItems(json_value_init(H, p, "object"), o, Assign(H[o].items, outer, p))
    IN  IF outer \notin DOMAIN H[o].items
        THEN SetItems(G, p, Assign(<<>>, inner, v))
        ELSE IF H[q].kind = "object"
        THEN SetItems(H, q, Assign(H[q].items, inner, v))
        ELSE H

\* ObjectSetValue(object, "outer.inner", value) with dotfunc.
ObjectDotSetValue(object, outer, inner, value) ==
    LET o == ValueOf(object)
    IN  \E p \in IF outer \in DOMAIN heap[o].items THEN {NoValue} ELSE Fresh :
        \E g \in Offer(value, o, {p}) :
            /\ heap' = DotSet(g.mem, o, outer, inner, p, g.value)
            /\ Offered(g)

\* ArrayAppendString, ArrayAppendNum, ArrayAppendBool, ArrayAppendNull.
ArrayAppendScalar(array) ==
    LET a == ValueOf(array)
    IN  /\ Len(heap[a].items) < MaxItems
        /\ \E v \in Fresh :
              heap' = SetItems(json_value_init(heap, v, "scalar"), a,
                               Append(heap[a].items, v))
        /\ UNCHANGED <<m_Handles, m_OldHandles, lost>>

\* ArrayReplaceString, ArrayReplaceNum, ArrayReplaceBool, ArrayReplaceNull;
\* on failure the new value is freed again and nothing changes.
ArrayReplaceScalar(array, index) ==
    LET a == ValueOf(array)
    IN  /\ index \in DOMAIN heap[a].items
        /\ \E v \in Fresh :
              heap' = SetItems(json_value_init(heap, v, "scalar"), a,
                               Assign(heap[a].items, index, v))
        /\ UNCHANGED <<m_Handles, m_OldHandles, lost>>

\* ObjectSetString, ObjectSetNum, ObjectSetBool, ObjectSetNull.
ObjectSetScalar(object, name) ==
    /\ \E v \in Fresh :
          heap' = SetItems(json_value_init(heap, v, "scalar"), ValueOf(object),
                           Assign(heap[ValueOf(object)].items, name, v))
    /\ UNCHANGED <<m_Handles, m_OldHandles, lost>>

\* The same with a dotted name; on failure the new value is freed again.
ObjectDotSetScalar(object, outer, inner) ==
    LET o == ValueOf(object)
        missing == outer \notin DOMAIN heap[o].items
    IN  /\ ~missing => heap[heap[o].items[outer]].kind = "object"
        /\ \E v \in Fresh : \E p \in IF missing THEN Fresh \ {v} ELSE {NoValue} :
              heap' = DotSet(json_value_init(heap, v, "scalar"), o, outer, inner, p, v)
        /\ UNCHANGED <<m_Handles, m_OldHandles, lost>>

-----------------------------------------------------------------------------
(* Natives that free *)

\* ArrayRemove(array, index)
ArrayRemove(array, index) ==
    LET a == ValueOf(array)
    IN  /\ index \in DOMAIN heap[a].items
        /\ heap' = SetItems(heap, a, RemoveAt(heap[a].items, index))
        /\ UNCHANGED <<m_Handles, m_OldHandles, lost>>

\* ObjectRemove(object, name)
ObjectRemove(object, name) ==
    LET o == ValueOf(object)
    IN  /\ name \in DOMAIN heap[o].items
        /\ heap' = SetItems(heap, o, Without(heap[o].items, name))
        /\ UNCHANGED <<m_Handles, m_OldHandles, lost>>

\* ObjectRemove(object, "outer.inner") with dotfunc.
ObjectDotRemove(object, outer, inner) ==
    LET o == ValueOf(object)
        q == heap[o].items[outer]
    IN  /\ outer \in DOMAIN heap[o].items
        /\ heap[q].kind = "object"
        /\ inner \in DOMAIN heap[q].items
        /\ heap' = SetItems(heap, q, Without(heap[q].items, inner))
        /\ UNCHANGED <<m_Handles, m_OldHandles, lost>>

\* ArrayClear(array), ObjectClear(object)
Clear(h) ==
    /\ heap' = SetItems(heap, ValueOf(h), <<>>)
    /\ UNCHANGED <<m_Handles, m_OldHandles, lost>>

\* Free(id), by ezjson_free.
Free(h) ==
    /\ heap' = json_value_free(heap, MustFree({h}))
    /\ m_Handles' = [m_Handles EXCEPT ![h] = NoHandle]
    /\ m_OldHandles' = Append(m_OldHandles, h)
    /\ UNCHANGED lost

\* Mutants of FreeAllHandles: the free list survives; only the table goes.
FreeAllHandlesKeepsOld ==
    /\ heap' = json_value_free(heap, MustFree(Handles))
    /\ m_Handles' = <<>>
    /\ UNCHANGED <<m_OldHandles, lost>>

FreeAllHandlesNoFree ==
    /\ m_Handles' = <<>>
    /\ m_OldHandles' = <<>>
    /\ UNCHANGED <<heap, lost>>

\* FreeAllHandles(): ServerDeactivate, and the destructor.
FreeAllHandles ==
    /\ heap' = json_value_free(heap, MustFree(Handles))
    /\ m_Handles' = <<>>
    /\ m_OldHandles' = <<>>
    /\ UNCHANGED lost

-----------------------------------------------------------------------------
(* The natives: a handle check, then one call of the manager *)

\* ezjson_parse, ezhttp_parse_json_response
ParseNatives == \E kind \in {"array", "object"} : Parse(kind)

\* ezjson_init_object, _array, _string, _number, _real, _bool, _null
InitNatives == \E kind \in Kinds : InitValue(kind)

\* ezjson_deep_copy
DeepCopyNative == \E h \in Usable("value") : DeepCopyValue(h)

\* ezjson_get_parent
ParentNative == \E h \in Usable("value") : GetValueParent(h)

\* ezjson_array_get_value
ArrayGetNative == \E h \in Usable("array") : GetItem(h)

\* ezjson_object_get_value, ezjson_object_get_value_at
ObjectGetNatives ==
    \E h \in Usable("object") : GetItem(h) \/ ObjectDotGetValue(h)

\* ezjson_array_replace_value, _string, _number, _real, _bool, _null
ArrayReplaceNatives ==
    \E array \in Usable("array"), index \in 1 .. MaxItems :
        \/ \E value \in Usable("value") : ArrayReplaceValue(array, index, value)
        \/ ArrayReplaceScalar(array, index)

\* ezjson_array_append_value, _string, _number, _real, _bool, _null
ArrayAppendNatives ==
    \E array \in Usable("array") :
        \/ \E value \in Usable("value") : ArrayAppendValue(array, value)
        \/ ArrayAppendScalar(array)

\* ezjson_array_remove, ezjson_array_clear
ArrayRemoveNatives ==
    \E array \in Usable("array") :
        \/ \E index \in 1 .. MaxItems : ArrayRemove(array, index)
        \/ Clear(array)

\* ezjson_object_set_value, _string, _number, _real, _bool, _null
ObjectSetNatives ==
    \E object \in Usable("object"), name, inner \in Name :
        \/ \E value \in Usable("value") :
              \/ ObjectSetValue(object, name, value)
              \/ ObjectDotSetValue(object, name, inner, value)
        \/ ObjectSetScalar(object, name)
        \/ ObjectDotSetScalar(object, name, inner)

\* ezjson_object_remove, ezjson_object_clear
ObjectRemoveNatives ==
    \E object \in Usable("object") :
        \/ \E name \in Name : ObjectRemove(object, name)
        \/ \E name, inner \in Name : ObjectDotRemove(object, name, inner)
        \/ Clear(object)

\* ezjson_free checks the handle only, not what it names.
FreeNative == \E h \in Handles : IsValidHandle(h, "value") /\ Free(h)

Next ==
    \/ ParseNatives
    \/ InitNatives
    \/ DeepCopyNative
    \/ ParentNative
    \/ ArrayGetNative
    \/ ObjectGetNatives
    \/ ArrayReplaceNatives
    \/ ArrayAppendNatives
    \/ ArrayRemoveNatives
    \/ ObjectSetNatives
    \/ ObjectRemoveNatives
    \/ FreeNative
    \/ FreeAllHandles

Spec == Init /\ [][Next]_vars

-----------------------------------------------------------------------------
(* Properties *)

\* Types.  An entry of m_OldHandles is a slot of the table, and a handle
\* whose value exists has the type of that value (IsValidHandle relies on it).
TypeOK ==
    /\ DOMAIN heap \subseteq Value
    /\ \A v \in DOMAIN heap :
          /\ heap[v].kind \in Kinds
          /\ heap[v].parent \in Value \cup {NoValue}
          /\ Range(heap[v].items) \subseteq Value
          /\ DOMAIN heap[v].items \subseteq
                CASE heap[v].kind = "array"  -> 1 .. MaxItems
                  [] heap[v].kind = "object" -> Name
                  [] heap[v].kind = "scalar" -> {}
    /\ Len(m_Handles) <= MaxHandles
    /\ \A h \in Handles :
          /\ m_Handles[h].value \in Value
          /\ m_Handles[h].must_be_freed \in BOOLEAN
          /\ m_Handles[h].value \in DOMAIN heap => m_Handles[h].type = heap[ValueOf(h)].kind
    /\ m_OldHandles \in Seq(DOMAIN m_Handles)
    /\ lost \subseteq Value

\* m_OldHandles lists every empty slot of m_Handles exactly once, so that
\* _MakeHandle never replaces a handle that is in use and no slot is leaked.
FreeListExact ==
    /\ Range(m_OldHandles) = DOMAIN m_Handles \ Handles
    /\ Cardinality(Range(m_OldHandles)) = Len(m_OldHandles)

\* parson's memory is a forest whatever natives are called: an item of an
\* array or object is allocated, has that container as its parent, is in it
\* once and in no other (the copy in ArrayReplaceValue, ArrayAppendValue and
\* ObjectSetValue), and a value with a parent is an item of it.
Forest ==
    \A v \in DOMAIN heap :
        /\ \A k \in DOMAIN heap[v].items :
              /\ heap[v].items[k] \in DOMAIN heap
              /\ heap[heap[v].items[k]].parent = v
              /\ \A j \in DOMAIN heap[v].items :
                    heap[v].items[j] = heap[v].items[k] => j = k
        /\ heap[v].parent # NoValue =>
              heap[v].parent \in DOMAIN heap /\ v \in Range(heap[heap[v].parent].items)

\* A child value is freed by parson only: no handle with m_bMustBeFreed names
\* a value that was freed or that is inside an array or an object.
ParsonFreesChildren ==
    \A h \in Handles :
        m_Handles[h].must_be_freed =>
            /\ ValueOf(h) \in DOMAIN heap
            /\ heap[ValueOf(h)].parent = NoValue

\* Every tree has exactly one handle that frees it, except the roots that a
\* failed ezjson_array_replace_value or dotted ezjson_object_set_value took
\* from their handle without keeping them.
OwnedOnce ==
    \A v \in DOMAIN heap :
        heap[v].parent = NoValue =>
            Cardinality({h \in Handles : ValueOf(h) = v /\ m_Handles[h].must_be_freed})
                = IF v \in lost THEN 0 ELSE 1

\* A map change leaves nothing allocated but those lost trees: FreeAllHandles
\* frees every tree, whatever order the plugin built and shared it in.
MapChangeFreesAll ==
    [][m_Handles # <<>> /\ m_Handles' = <<>> =>
         DOMAIN heap' \subseteq UNION {Tree(heap, v) : v \in lost}]_vars

=============================================================================
