--------------------------- MODULE JsonMngrProofs ---------------------------
(***************************************************************************)
(* parson's trees and the handles that own them, for any number of values, *)
(* handles, names and items.                                               *)
(*                                                                         *)
(* The first part is about a memory H: which values json_value_free        *)
(* visits (Tree), and that every operation of parson keeps H a forest in   *)
(* which every value hangs below a root (Good).  The second part is about  *)
(* the table: m_OldHandles, and which handle frees which root (Owned).     *)
(***************************************************************************)
EXTENDS JsonMngr, FiniteSetTheorems, SequenceTheorems, TLAPS

-----------------------------------------------------------------------------
(* Trees *)

\* Every item of H is a value that may be allocated.
ItemsIn(H) == \A u \in DOMAIN H : Range(H[u].items) \subseteq Value

\* S has the items of every allocated value in it.
ClosedIn(H, S) == \A u \in S \cap DOMAIN H : Range(H[u].items) \subseteq S

\* The tree of v is within every closed set that has v.
LEMMA TreeLeast ==
    ASSUME NEW H, NEW v, NEW S, ItemsIn(H), v \in S, ClosedIn(H, S), v \in Value
    PROVE  Tree(H, v) \subseteq S
<1>1. S \cap Value \in SUBSET Value /\ v \in S \cap Value
  OBVIOUS
<1>2. \A u \in (S \cap Value) \cap DOMAIN H : Range(H[u].items) \subseteq S \cap Value
  BY DEF ClosedIn, ItemsIn
<1>3. QED
  BY <1>1, <1>2 DEF Tree

\* A tree has its root and is closed.
LEMMA TreeHas ==
    ASSUME NEW H, NEW v \in Value, ItemsIn(H)
    PROVE  v \in Tree(H, v) /\ ClosedIn(H, Tree(H, v)) /\ Tree(H, v) \subseteq Value
<1>1. v \in Tree(H, v) /\ Tree(H, v) \subseteq Value
  BY DEF Tree
<1>2. ASSUME NEW u \in Tree(H, v) \cap DOMAIN H, NEW w \in Range(H[u].items)
      PROVE  w \in Tree(H, v)
  <2>1. w \in Value
    BY DEF ItemsIn
  <2>2. ASSUME NEW S \in SUBSET Value, v \in S,
               \A x \in S \cap DOMAIN H : Range(H[x].items) \subseteq S
        PROVE  w \in S
    <3>1. u \in S
      BY <2>2 DEF Tree
    <3>2. QED
      BY <2>2, <3>1
  <2>3. QED
    BY <2>1, <2>2 DEF Tree
<1>3. QED
  BY <1>1, <1>2 DEF ClosedIn

\* A value of the tree other than its root is an item of a value of the tree.
LEMMA TreeParent ==
    ASSUME NEW H, NEW v \in Value, ItemsIn(H), NEW w \in Tree(H, v), w # v
    PROVE  \E u \in Tree(H, v) \cap DOMAIN H : w \in Range(H[u].items)
<1> SUFFICES ASSUME \A u \in Tree(H, v) \cap DOMAIN H : w \notin Range(H[u].items)
             PROVE  FALSE
  OBVIOUS
<1> DEFINE S == Tree(H, v) \ {w}
<1>1. v \in S
  BY TreeHas
<1>2. ClosedIn(H, S)
  BY TreeHas DEF ClosedIn
<1> HIDE DEF S
<1>3. Tree(H, v) \subseteq S
  BY <1>1, <1>2, TreeLeast
<1>4. QED
  BY <1>3 DEF S

\* The tree of a value in a tree is part of that tree.
LEMMA TreeWithin ==
    ASSUME NEW H, NEW v \in Value, ItemsIn(H), NEW w \in Tree(H, v)
    PROVE  Tree(H, w) \subseteq Tree(H, v)
BY TreeHas, TreeLeast

-----------------------------------------------------------------------------
(* Memories *)

\* The items of a value of that kind.
ItemsFit(kind, items) ==
    /\ kind \in Kinds /\ Range(items) \subseteq Value
    /\ kind = "array" => items \in Seq(Value) /\ Len(items) <= MaxItems
    /\ kind = "object" => DOMAIN items \subseteq Name
    /\ kind = "scalar" => DOMAIN items = {}

Distinct(items) == \A j, k \in DOMAIN items : items[j] = items[k] => j = k

Typed(H) ==
    /\ DOMAIN H \subseteq Value
    /\ \A v \in DOMAIN H :
          /\ H[v] = [kind |-> H[v].kind, parent |-> H[v].parent, items |-> H[v].items]
          /\ ItemsFit(H[v].kind, H[v].items)
          /\ H[v].parent \in Value \cup {NoValue}

\* Forest, of any memory.
ForestIn(H) ==
    \A v \in DOMAIN H :
        /\ \A w \in Range(H[v].items) : w \in DOMAIN H /\ H[w].parent = v
        /\ Distinct(H[v].items)
        /\ H[v].parent # NoValue =>
              H[v].parent \in DOMAIN H /\ v \in Range(H[H[v].parent].items)

Root(H, v) == v \in DOMAIN H /\ H[v].parent = NoValue

\* Every value hangs below a root: no value is in its own tree.
Rooted(H) == \A v \in DOMAIN H : \E r \in DOMAIN H : Root(H, r) /\ v \in Tree(H, r)

Good(H) == Typed(H) /\ ForestIn(H) /\ Rooted(H)

\* Items of a typed memory are values.
LEMMA GoodItems ==
    ASSUME NEW H, Typed(H)
    PROVE  ItemsIn(H)
BY DEF Typed, ItemsIn, ItemsFit

\* A tree is allocated, and a value in it other than its root has its parent in it.
LEMMA GoodTree ==
    ASSUME NEW H, Typed(H), ForestIn(H), NEW v \in DOMAIN H
    PROVE  /\ v \in Value /\ v \in Tree(H, v) /\ Tree(H, v) \subseteq DOMAIN H
           /\ ClosedIn(H, Tree(H, v))
           /\ \A w \in Tree(H, v) : w # v => H[w].parent \in Tree(H, v)
<1>1. ItemsIn(H) /\ v \in Value
  BY GoodItems DEF Typed
<1>2. ClosedIn(H, DOMAIN H)
  BY DEF ClosedIn, ForestIn
<1>3. Tree(H, v) \subseteq DOMAIN H
  BY <1>1, <1>2, TreeLeast
<1>4. \A w \in Tree(H, v) : w # v => H[w].parent \in Tree(H, v)
  BY <1>1, TreeParent DEF ForestIn
<1>5. QED
  BY <1>1, <1>3, <1>4, TreeHas

\* No container is in the tree of one of its items.
LEMMA NotBelow ==
    ASSUME NEW H, Good(H), NEW c \in DOMAIN H, NEW s \in Range(H[c].items)
    PROVE  c \notin Tree(H, s)
<1>1. ItemsIn(H) /\ Typed(H) /\ ForestIn(H)
  BY GoodItems DEF Good
<1>2. s \in DOMAIN H /\ H[s].parent = c /\ c # NoValue
  BY NullsAssumption DEF Good, ForestIn, Typed
<1>3. PICK r \in DOMAIN H : Root(H, r) /\ c \in Tree(H, r)
  BY DEF Good, Rooted
<1> SUFFICES ASSUME c \in Tree(H, s) PROVE FALSE
  OBVIOUS
<1> DEFINE S == Tree(H, r) \ Tree(H, s)
<1>4. r \in S
  <2>1. r \in Tree(H, r) /\ r # s
    BY <1>1, <1>2, <1>3, GoodTree DEF Root
  <2>2. r \notin Tree(H, s)
    <3> SUFFICES ASSUME r \in Tree(H, s) PROVE FALSE
      OBVIOUS
    <3>1. NoValue \in Tree(H, s)
      BY <1>1, <1>2, <1>3, <2>1, GoodTree DEF Root
    <3>2. QED
      BY <3>1, NullsAssumption DEF Tree
  <2>3. QED
    BY <2>1, <2>2
<1>5. ClosedIn(H, S)
  <2> SUFFICES ASSUME NEW u \in S \cap DOMAIN H, NEW w \in Range(H[u].items)
               PROVE  w \in S
    BY DEF ClosedIn
  <2>1. w \in Tree(H, r)
    BY <1>1, <1>3, GoodTree DEF ClosedIn
  <2>2. w \in DOMAIN H /\ H[w].parent = u
    BY <1>1 DEF ForestIn
  <2>3. w \notin Tree(H, s)
    <3> SUFFICES ASSUME w \in Tree(H, s) PROVE FALSE
      OBVIOUS
    <3>1. CASE w = s
      BY <1>2, <2>2, <3>1
    <3>2. CASE w # s
      BY <1>1, <1>2, <2>2, <3>2, GoodTree
    <3>3. QED
      BY <3>1, <3>2
  <2>4. QED
    BY <2>1, <2>3
<1> HIDE DEF S
<1>6. Tree(H, r) \subseteq S
  BY <1>1, <1>4, <1>5, TreeLeast DEF Typed
<1>7. QED
  BY <1>3, <1>6 DEF S

\* What is left of H when the trees of the values in R are freed.
Freed(H, R) == UNION {Tree(H, v) : v \in R}

\* What is freed is allocated and closed, and it ends at the values of R.
LEMMA FreedFacts ==
    ASSUME NEW H, Typed(H), ForestIn(H), NEW R, R \subseteq DOMAIN H
    PROVE  /\ R \subseteq Freed(H, R) /\ Freed(H, R) \subseteq DOMAIN H
           /\ ClosedIn(H, Freed(H, R))
           /\ \A w \in Freed(H, R) : w \notin R => H[w].parent \in Freed(H, R)
           /\ \A w \in DOMAIN H : Root(H, w) /\ w \notin R => w \notin Freed(H, R)
<1>1. R \subseteq Freed(H, R) /\ Freed(H, R) \subseteq DOMAIN H
  BY GoodTree DEF Freed
<1>2. ClosedIn(H, Freed(H, R))
  BY GoodTree DEF Freed, ClosedIn
<1>3. \A w \in Freed(H, R) : w \notin R => H[w].parent \in Freed(H, R)
  BY GoodTree DEF Freed
<1>4. NoValue \notin Freed(H, R)
  BY <1>1, NullsAssumption DEF Typed
<1>5. QED
  BY <1>1, <1>2, <1>3, <1>4 DEF Root

\* Container c of H gets the items new, of which those in V were roots outside.
SetReady(H, c, new, V) ==
    /\ Good(H) /\ c \in DOMAIN H /\ ItemsFit(H[c].kind, new) /\ Distinct(new)
    /\ Range(new) \subseteq Range(H[c].items) \cup V
    /\ \A v \in V : Root(H, v) /\ c \notin Tree(H, v)

\* What happens to c, to its items and to everything else.
SetDone(H, c, new, G) ==
    /\ DOMAIN G \subseteq DOMAIN H /\ c \in DOMAIN G /\ Range(new) \subseteq DOMAIN G
    /\ \A v \in DOMAIN G : G[v] = [kind   |-> H[v].kind,
                                   parent |-> IF v \in Range(new) THEN c ELSE H[v].parent,
                                   items  |-> IF v = c THEN new ELSE H[v].items]
    /\ \A v : Root(G, v) <=> Root(H, v) /\ v \notin Range(new)
    /\ \A v \in DOMAIN H : c \notin Tree(H, v) => Tree(G, v) \subseteq Tree(H, v)
    /\ \E F : /\ DOMAIN G = DOMAIN H \ F /\ ClosedIn(H, F)
              /\ Range(H[c].items) \subseteq Range(new) \cup F
              /\ \A w \in F : H[w].parent \in F \cup {c}

\* SetItems does that: a container is not below its own items, so it survives.
LEMMA SetItemsDone ==
    ASSUME NEW H, NEW c, NEW new, NEW V, SetReady(H, c, new, V)
    PROVE  SetDone(H, c, new, SetItems(H, c, new))
<1> DEFINE R == Range(H[c].items) \ Range(new)
           F == Freed(H, R)
           G == SetItems(H, c, new)
<1>1. Typed(H) /\ ForestIn(H) /\ c \in DOMAIN H /\ c \in Value /\ c # NoValue
  BY NullsAssumption DEF SetReady, Good, Typed
<1>2. R \subseteq DOMAIN H /\ \A w \in R : H[w].parent = c
  BY <1>1 DEF ForestIn
<1> HIDE DEF R
<1>3. /\ R \subseteq F /\ F \subseteq DOMAIN H /\ ClosedIn(H, F)
      /\ \A w \in F : w \notin R => H[w].parent \in F
      /\ \A w \in DOMAIN H : Root(H, w) /\ w \notin R => w \notin F
  BY <1>1, <1>2, FreedFacts
<1>4. c \notin F
  BY <1>1, NotBelow DEF SetReady, Freed, R
<1>5. Range(new) \subseteq DOMAIN H \ F
  <2> SUFFICES ASSUME NEW w \in Range(new) PROVE w \in DOMAIN H \ F
    OBVIOUS
  <2>1. w \notin R
    BY DEF R
  <2>2. CASE w \in Range(H[c].items)
    BY <1>1, <1>3, <1>4, <2>1, <2>2 DEF ForestIn
  <2>3. CASE w \in V
    BY <1>3, <2>1, <2>3 DEF SetReady, Root
  <2>4. QED
    BY <2>2, <2>3 DEF SetReady
<1>6. DOMAIN G = DOMAIN H \ F
  BY DEF SetItems, json_value_free, F, Freed, R
<1>7. ASSUME NEW v \in DOMAIN G
      PROVE  G[v] = [kind   |-> H[v].kind,
                     parent |-> IF v \in Range(new) THEN c ELSE H[v].parent,
                     items  |-> IF v = c THEN new ELSE H[v].items]
  <2>1. v \in DOMAIN H \ F
    BY <1>6
  <2>2. G[v] = [H[v] EXCEPT !.items  = IF v = c THEN new ELSE @,
                            !.parent = IF v \in Range(new) THEN c ELSE @]
    BY <2>1 DEF SetItems, json_value_free, F, Freed, R
  <2>3. PICK k, p, i : H[v] = [kind |-> k, parent |-> p, items |-> i]
    BY <1>1, <2>1 DEF Typed
  <2>4. QED
    BY <2>2, <2>3
<1> HIDE DEF F, G
<1>8. ASSUME NEW v
      PROVE  Root(G, v) <=> Root(H, v) /\ v \notin Range(new)
  <2>1. CASE v \in DOMAIN G
    <3>1. G[v].parent = IF v \in Range(new) THEN c ELSE H[v].parent
      BY <1>7, <2>1
    <3>2. QED
      BY <1>1, <1>6, <2>1, <3>1 DEF Root
  <2>2. CASE v \notin DOMAIN G
    <3>1. ASSUME Root(H, v) PROVE FALSE
      <4>1. v \notin R
        BY <1>1, <1>2, <3>1 DEF Root
      <4>2. QED
        BY <1>3, <1>6, <2>2, <3>1, <4>1 DEF Root
    <3>2. QED
      BY <2>2, <3>1 DEF Root
  <2>3. QED
    BY <2>1, <2>2
<1>9. ItemsIn(G)
  <2>1. ItemsIn(H)
    BY <1>1, GoodItems
  <2>2. QED
    BY <1>5, <1>6, <1>7, <2>1, <1>1 DEF ItemsIn, Typed
<1>10. ASSUME NEW v \in DOMAIN H, c \notin Tree(H, v)
       PROVE  Tree(G, v) \subseteq Tree(H, v)
  <2>1. v \in Value /\ v \in Tree(H, v) /\ ClosedIn(H, Tree(H, v))
    BY <1>1, GoodTree
  <2>2. ClosedIn(G, Tree(H, v))
    <3> SUFFICES ASSUME NEW u \in Tree(H, v) \cap DOMAIN G
                 PROVE  Range(G[u].items) \subseteq Tree(H, v)
      BY DEF ClosedIn
    <3>1. u \in DOMAIN H /\ u # c
      BY <1>6, <1>10
    <3>2. G[u].items = H[u].items
      BY <1>7, <3>1
    <3>3. QED
      BY <2>1, <3>1, <3>2 DEF ClosedIn
  <2>3. QED
    BY <1>9, <2>1, <2>2, TreeLeast
<1>11. /\ Range(H[c].items) \subseteq Range(new) \cup F
       /\ \A w \in F : H[w].parent \in F \cup {c}
  BY <1>2, <1>3 DEF R
<1>12. SetDone(H, c, new, G)
  BY <1>1, <1>3, <1>4, <1>5, <1>6, <1>7, <1>8, <1>10, <1>11 DEF SetDone
<1>13. QED
  BY <1>12 DEF G

\* Values that are left after F is gone are where they were.
LEMMA TreeSurvives ==
    ASSUME NEW H, NEW G, NEW F, NEW r \in Value, NEW v \in Tree(H, r), v \notin F,
           ItemsIn(H), \A S : r \in S /\ ClosedIn(G, S) => ClosedIn(H, S \cup F)
    PROVE  v \in Tree(G, r)
<1> SUFFICES ASSUME NEW S \in SUBSET Value, r \in S,
                    \A u \in S \cap DOMAIN G : Range(G[u].items) \subseteq S
             PROVE  v \in S
  BY TreeHas DEF Tree
<1>1. ClosedIn(H, S \cup F)
  BY DEF ClosedIn
<1>2. Tree(H, r) \subseteq S \cup F
  BY <1>1, TreeLeast
<1>3. QED
  BY <1>2

\* The memory stays a forest: what append, replace, set, remove and clear do.
LEMMA SetItemsGood ==
    ASSUME NEW H, NEW c, NEW new, NEW V, SetReady(H, c, new, V), NEW G,
           SetDone(H, c, new, G)
    PROVE  Good(G)
<1>1. Typed(H) /\ ForestIn(H) /\ Rooted(H) /\ c \in DOMAIN H /\ c \in Value /\ c # NoValue
  BY NullsAssumption DEF SetReady, Good, Typed
<1>2. /\ c \in DOMAIN G /\ Range(new) \subseteq DOMAIN G /\ DOMAIN G \subseteq DOMAIN H
      /\ \A v : Root(G, v) <=> Root(H, v) /\ v \notin Range(new)
      /\ \A v \in V : Root(H, v) /\ c \notin Tree(H, v)
      /\ Range(new) \subseteq Range(H[c].items) \cup V
  BY DEF SetDone, SetReady
<1>3. \A v \in DOMAIN G :
          /\ G[v] = [kind |-> H[v].kind, parent |-> G[v].parent, items |-> G[v].items]
          /\ G[v].kind = H[v].kind
          /\ G[v].parent = IF v \in Range(new) THEN c ELSE H[v].parent
          /\ G[v].items = IF v = c THEN new ELSE H[v].items
  BY DEF SetDone
<1>4. PICK F : /\ DOMAIN G = DOMAIN H \ F /\ ClosedIn(H, F)
               /\ Range(H[c].items) \subseteq Range(new) \cup F
               /\ \A w \in F : H[w].parent \in F \cup {c}
  BY DEF SetDone
<1>5. Typed(G)
  BY <1>1, <1>2, <1>3 DEF Typed, SetReady
<1>6. ForestIn(G)
  <2>1. ASSUME NEW v \in DOMAIN G, NEW w \in Range(G[v].items)
        PROVE  w \in DOMAIN G /\ G[w].parent = v
    <3>1. CASE v = c
      BY <1>2, <1>3, <2>1, <3>1
    <3>2. CASE v # c
      <4>1. w \in Range(H[v].items) /\ v \in DOMAIN H
        BY <1>2, <1>3, <2>1, <3>2
      <4>2. w \in DOMAIN H /\ H[w].parent = v
        BY <1>1, <4>1 DEF ForestIn
      <4>3. w \notin Range(new)
        <5>1. v # NoValue
          BY <1>1, <4>1, NullsAssumption DEF Typed
        <5>2. w \notin V /\ w \notin Range(H[c].items)
          BY <1>1, <1>2, <3>2, <4>2, <5>1 DEF ForestIn, Root
        <5>3. QED
          BY <1>2, <5>2
      <4>4. w \in DOMAIN G
        BY <1>4, <3>2, <4>2
      <4>5. QED
        BY <1>3, <4>2, <4>3, <4>4
    <3>3. QED
      BY <3>1, <3>2
  <2>2. \A v \in DOMAIN G : Distinct(G[v].items)
    BY <1>1, <1>2, <1>3 DEF ForestIn, SetReady
  <2>3. ASSUME NEW v \in DOMAIN G, G[v].parent # NoValue
        PROVE  G[v].parent \in DOMAIN G /\ v \in Range(G[G[v].parent].items)
    <3>1. CASE v \in Range(new)
      BY <1>2, <1>3, <3>1
    <3>2. CASE v \notin Range(new)
      <4>1. v \in DOMAIN H \ F /\ G[v].parent = H[v].parent
        BY <1>3, <1>4, <3>2
      <4>2. H[v].parent \in DOMAIN H /\ v \in Range(H[H[v].parent].items)
        BY <1>1, <2>3, <4>1 DEF ForestIn
      <4>3. H[v].parent \notin F
        BY <1>4, <4>1, <4>2 DEF ClosedIn
      <4>4. H[v].parent # c
        BY <1>4, <3>2, <4>1, <4>2
      <4>5. QED
        BY <1>3, <1>4, <4>1, <4>2, <4>3, <4>4
    <3>3. QED
      BY <3>1, <3>2
  <2>4. QED
    BY <2>1, <2>2, <2>3 DEF ForestIn
<1>7. Rooted(G)
  <2>1. ItemsIn(H) /\ ItemsIn(G)
    BY <1>1, <1>5, GoodItems
  <2>2. \A S : ClosedIn(G, S) => ClosedIn(H, S \cup F)
    <3> SUFFICES ASSUME NEW S, ClosedIn(G, S), NEW u \in (S \cup F) \cap DOMAIN H
                 PROVE  Range(H[u].items) \subseteq S \cup F
      BY DEF ClosedIn
    <3>1. CASE u \in F
      BY <1>4, <3>1 DEF ClosedIn
    <3>2. CASE u \notin F
      <4>1. u \in DOMAIN G /\ Range(G[u].items) \subseteq S
        BY <1>4, <3>2 DEF ClosedIn
      <4>2. QED
        BY <1>3, <1>4, <4>1
    <3>3. QED
      BY <3>1, <3>2
  <2>3. ASSUME NEW r \in DOMAIN H, NEW v \in DOMAIN G, v \in Tree(H, r)
        PROVE  v \in Tree(G, r)
    BY <1>1, <1>4, <2>1, <2>2, <2>3, TreeSurvives DEF Typed
  <2>4. PICK rc \in DOMAIN H : Root(H, rc) /\ c \in Tree(H, rc)
    BY <1>1 DEF Rooted
  <2>5. Root(G, rc) /\ c \in Tree(G, rc)
    <3>1. rc \notin Range(new)
      <4>1. rc \notin Range(H[c].items)
        BY <1>1, <2>4 DEF ForestIn, Root
      <4>2. rc \notin V
        BY <1>2, <2>4
      <4>3. QED
        BY <1>2, <4>1, <4>2
    <3>2. QED
      BY <1>2, <2>3, <2>4, <3>1
  <2> SUFFICES ASSUME NEW v \in DOMAIN G
               PROVE  \E r \in DOMAIN G : Root(G, r) /\ v \in Tree(G, r)
    BY DEF Rooted
  <2>6. PICK r \in DOMAIN H : Root(H, r) /\ v \in Tree(H, r)
    BY <1>1, <1>2 DEF Rooted
  <2>7. v \in Tree(G, r)
    BY <2>3, <2>6
  <2>8. CASE r \notin Range(new)
    BY <1>2, <2>6, <2>7, <2>8 DEF Root
  <2>9. CASE r \in Range(new)
    <3>1. r \in Tree(G, rc)
      <4>1. rc \in Value /\ ClosedIn(G, Tree(G, rc))
        BY <1>1, <2>1, <2>4, TreeHas DEF Typed
      <4>2. QED
        BY <1>2, <1>3, <2>5, <2>9, <4>1 DEF ClosedIn
    <3>2. v \in Tree(G, rc)
      BY <1>1, <2>1, <2>4, <2>7, <3>1, TreeWithin DEF Typed
    <3>3. QED
      BY <2>5, <3>2 DEF Root
  <2>10. QED
    BY <2>8, <2>9
<1>8. QED
  BY <1>5, <1>6, <1>7 DEF Good

\* G is H with more values.
Extends(H, G) == DOMAIN H \subseteq DOMAIN G /\ \A w \in DOMAIN H : G[w] = H[w]

\* New values do not change the trees of the old ones.
LEMMA ExtendsTree ==
    ASSUME NEW H, NEW G, Typed(H), ForestIn(H), ItemsIn(G), Extends(H, G), NEW v \in DOMAIN H
    PROVE  Tree(G, v) = Tree(H, v)
<1>1. ItemsIn(H) /\ v \in Value
  BY GoodItems DEF Typed
<1>2. v \in Tree(H, v) /\ ClosedIn(H, Tree(H, v)) /\ Tree(H, v) \subseteq DOMAIN H
  BY GoodTree
<1>3. v \in Tree(G, v) /\ ClosedIn(G, Tree(G, v))
  BY <1>1, TreeHas
<1>4. ClosedIn(G, Tree(H, v)) /\ ClosedIn(H, Tree(G, v))
  BY <1>2, <1>3 DEF ClosedIn, Extends
<1>5. QED
  BY <1>1, <1>2, <1>3, <1>4, TreeLeast

\* No items: they fit every kind.
LEMMA EmptyItems ==
    /\ DOMAIN <<>> = {} /\ Range(<<>>) = {} /\ <<>> \in Seq(Value) /\ Len(<<>>) = 0
    /\ Distinct(<<>>) /\ \A kind \in Kinds : ItemsFit(kind, <<>>)
<1>1. DOMAIN <<>> = {}
  OBVIOUS
<1>2. QED
  BY <1>1, BoundsAssumption DEF Range, Distinct, ItemsFit

InitDone(H, v, kind, G) ==
    /\ Good(G) /\ DOMAIN G = DOMAIN H \cup {v} /\ Extends(H, G)
    /\ G[v] = [kind |-> kind, parent |-> NoValue, items |-> <<>>]
    /\ \A w : Root(G, w) <=> Root(H, w) \/ w = v
    /\ Tree(G, v) = {v}
    /\ \A w \in DOMAIN H : Tree(G, w) = Tree(H, w)

\* A new value is a root of its own.
LEMMA InitGood ==
    ASSUME NEW H, Good(H), NEW v \in Value \ DOMAIN H, NEW kind \in Kinds,
           NEW G, G = json_value_init(H, v, kind)
    PROVE  InitDone(H, v, kind, G)
<1>1. Typed(H) /\ ForestIn(H) /\ Rooted(H)
  BY DEF Good
<1>2. /\ DOMAIN G = DOMAIN H \cup {v}
      /\ G[v] = [kind |-> kind, parent |-> NoValue, items |-> <<>>]
      /\ \A w \in DOMAIN H : G[w] = H[w]
  BY DEF json_value_init
<1>3. Extends(H, G)
  BY <1>2 DEF Extends
<1>4. Typed(G)
  BY <1>1, <1>2, EmptyItems DEF Typed
<1>5. ForestIn(G)
  <2>1. \A w \in Range(G[v].items) : FALSE
    BY <1>2, EmptyItems
  <2>2. Distinct(G[v].items) /\ G[v].parent = NoValue
    BY <1>2, EmptyItems
  <2>3. QED
    BY <1>1, <1>2, <2>1, <2>2 DEF ForestIn
<1>6. \A w : Root(G, w) <=> Root(H, w) \/ w = v
  BY <1>2 DEF Root
<1>7. \A w \in DOMAIN H : Tree(G, w) = Tree(H, w)
  BY <1>1, <1>3, <1>4, GoodItems, ExtendsTree
<1>8. Tree(G, v) = {v}
  <2>1. ClosedIn(G, {v})
    BY <1>2, EmptyItems DEF ClosedIn
  <2>2. v \in Tree(G, v)
    BY <1>4, GoodItems, TreeHas
  <2>3. QED
    BY <1>4, <2>1, <2>2, GoodItems, TreeLeast
<1>9. Rooted(G)
  BY <1>1, <1>2, <1>6, <1>7, <1>8 DEF Rooted
<1>10. QED
  BY <1>2, <1>3, <1>4, <1>5, <1>6, <1>7, <1>8, <1>9 DEF Good, InitDone

AllRoots(H, R) == \A v \in R : Root(H, v)

FreeDone(H, R, G) ==
    /\ Good(G) /\ DOMAIN G = DOMAIN H \ Freed(H, R)
    /\ \A w \in DOMAIN G : G[w] = H[w]
    /\ \A w : Root(G, w) <=> Root(H, w) /\ w \notin R

\* Trees are freed from their roots.
LEMMA FreeGood ==
    ASSUME NEW H, Good(H), NEW R, AllRoots(H, R), NEW G, G = json_value_free(H, R)
    PROVE  FreeDone(H, R, G)
<1> DEFINE F == Freed(H, R)
<1>1. Typed(H) /\ ForestIn(H) /\ Rooted(H) /\ ItemsIn(H)
  BY GoodItems DEF Good
<1>2. DOMAIN G = DOMAIN H \ F /\ \A w \in DOMAIN G : G[w] = H[w]
  BY DEF json_value_free, Freed
<1>3. R \subseteq DOMAIN H /\ \A v \in R : Root(H, v)
  BY DEF AllRoots, Root
<1>4. /\ R \subseteq F /\ F \subseteq DOMAIN H /\ ClosedIn(H, F)
      /\ \A w \in F : w \notin R => H[w].parent \in F
      /\ \A w \in DOMAIN H : Root(H, w) /\ w \notin R => w \notin F
  BY <1>1, <1>3, FreedFacts
<1> HIDE DEF F
<1>5. Typed(G)
  BY <1>1, <1>2 DEF Typed
<1>6. ForestIn(G)
  <2>1. ASSUME NEW v \in DOMAIN G, NEW w \in Range(G[v].items)
        PROVE  w \in DOMAIN G /\ G[w].parent = v
    <3>1. w \in DOMAIN H /\ H[w].parent = v /\ v \in DOMAIN H \ F
      BY <1>1, <1>2 DEF ForestIn
    <3>2. w \notin R
      BY <1>1, <1>3, <3>1, NullsAssumption DEF Root, Typed
    <3>3. QED
      BY <1>2, <1>4, <3>1, <3>2
  <2>2. ASSUME NEW v \in DOMAIN G, G[v].parent # NoValue
        PROVE  G[v].parent \in DOMAIN G /\ v \in Range(G[G[v].parent].items)
    <3>1. /\ v \in DOMAIN H \ F /\ H[v].parent \in DOMAIN H
          /\ v \in Range(H[H[v].parent].items)
      BY <1>1, <1>2, <2>2 DEF ForestIn
    <3>2. H[v].parent \notin F
      BY <1>4, <3>1 DEF ClosedIn
    <3>3. QED
      BY <1>2, <3>1, <3>2
  <2>3. QED
    BY <1>1, <1>2, <2>1, <2>2 DEF ForestIn
<1>7. \A w : Root(G, w) <=> Root(H, w) /\ w \notin R
  BY <1>2, <1>3, <1>4 DEF Root
<1>8. Rooted(G)
  <2> SUFFICES ASSUME NEW v \in DOMAIN G
               PROVE  \E r \in DOMAIN G : Root(G, r) /\ v \in Tree(G, r)
    BY DEF Rooted
  <2>1. PICK r \in DOMAIN H : Root(H, r) /\ v \in Tree(H, r)
    BY <1>1, <1>2 DEF Rooted
  <2>2. r \notin R
    BY <1>2, <2>1 DEF Freed, F
  <2>3. ASSUME NEW S, ClosedIn(G, S)
        PROVE  ClosedIn(H, S \cup F)
    BY <1>2, <1>4, <2>3 DEF ClosedIn
  <2>4. v \in Tree(G, r)
    BY <1>1, <1>2, <2>1, <2>3, TreeSurvives DEF Typed
  <2>5. QED
    BY <1>7, <2>1, <2>2, <2>4 DEF Root
<1>9. QED
  BY <1>2, <1>5, <1>6, <1>7, <1>8 DEF Good, F, FreeDone

\* The values of f are to be a copy of the tree of v.
CopyOf(H, v, f) ==
    /\ Good(H) /\ v \in DOMAIN H
    /\ f \in [Tree(H, v) -> Value \ DOMAIN H]
    /\ \A x, y \in Tree(H, v) : f[x] = f[y] => x = y

\* n is the copy of w: its items are the copies of the items of w.
CopyNode(H, v, f, w, n) ==
    /\ n = [kind |-> n.kind, parent |-> n.parent, items |-> n.items]
    /\ n.kind = H[w].kind
    /\ n.parent = IF w = v THEN NoValue ELSE f[H[w].parent]
    /\ Distinct(n.items) /\ ItemsFit(n.kind, n.items)
    /\ \A x \in Range(H[w].items) : f[x] \in Range(n.items)
    /\ \A y \in Range(n.items) : \E x \in Range(H[w].items) : y = f[x]

Copied(H, v, f, G) ==
    /\ DOMAIN G = DOMAIN H \cup Range(f) /\ Extends(H, G)
    /\ \A w \in Tree(H, v) : CopyNode(H, v, f, w, G[f[w]])

\* A node that json_value_deep_copy makes is the copy of a node.
LEMMA CopyItems ==
    ASSUME NEW H, NEW v, NEW f, CopyOf(H, v, f), NEW w \in Tree(H, v), NEW n,
           n = [kind   |-> H[w].kind,
                parent |-> IF w = v THEN NoValue ELSE f[H[w].parent],
                items  |-> [k \in DOMAIN H[w].items |-> f[H[w].items[k]]]]
    PROVE  CopyNode(H, v, f, w, n)
<1>1. Typed(H) /\ ForestIn(H) /\ v \in DOMAIN H
  BY DEF CopyOf, Good
<1>2. w \in DOMAIN H /\ Range(H[w].items) \subseteq Tree(H, v)
  BY <1>1, GoodTree DEF ClosedIn
<1> DEFINE old == H[w].items
<1>3. PICK items : items = [k \in DOMAIN old |-> f[old[k]]]
  OBVIOUS
<1>4. /\ n = [kind |-> n.kind, parent |-> n.parent, items |-> n.items]
      /\ n.kind = H[w].kind /\ n.items = items
      /\ n.parent = IF w = v THEN NoValue ELSE f[H[w].parent]
  BY <1>3
<1>5. DOMAIN items = DOMAIN old /\ \A k \in DOMAIN old : items[k] = f[old[k]]
  BY <1>3
<1>6. \A k \in DOMAIN old : old[k] \in Tree(H, v)
  BY <1>2 DEF Range
<1>7. \A x \in Tree(H, v) : f[x] \in Value
  BY DEF CopyOf
<1>8. ItemsFit(H[w].kind, old) /\ Distinct(old)
  BY <1>1, <1>2 DEF Typed, ForestIn
<1>9. /\ \A x \in Range(old) : f[x] \in Range(items)
      /\ \A y \in Range(items) : \E x \in Range(old) : y = f[x]
  BY <1>5 DEF Range
<1>10. Distinct(items)
  <2> SUFFICES ASSUME NEW j \in DOMAIN old, NEW k \in DOMAIN old, items[j] = items[k]
               PROVE  j = k
    BY <1>5 DEF Distinct
  <2>1. old[j] = old[k]
    BY <1>5, <1>6 DEF CopyOf
  <2>2. QED
    BY <1>8, <2>1 DEF Distinct
<1>11. ItemsFit(H[w].kind, items)
  <2>1. Range(items) \subseteq Value
    BY <1>5, <1>6, <1>7 DEF Range
  <2>2. ASSUME H[w].kind = "array"
        PROVE  items \in Seq(Value) /\ Len(items) <= MaxItems
    <3>1. old \in Seq(Value) /\ Len(old) <= MaxItems
      BY <1>8, <2>2 DEF ItemsFit
    <3>2. DOMAIN old = 1 .. Len(old) /\ Len(old) \in Nat
      BY <3>1
    <3>3. \A k \in 1 .. Len(old) : f[old[k]] \in Value
      BY <1>6, <1>7, <3>2
    <3>4. items = [k \in 1 .. Len(old) |-> f[old[k]]]
      BY <1>3, <3>2
    <3> HIDE DEF old
    <3>5. QED
      BY <3>1, <3>2, <3>3, <3>4
  <2>3. QED
    BY <1>5, <1>8, <2>1, <2>2 DEF ItemsFit
<1>12. QED
  BY <1>4, <1>9, <1>10, <1>11 DEF CopyNode

\* What json_value_deep_copy builds.
LEMMA CopyState ==
    ASSUME NEW H, NEW v, NEW f, CopyOf(H, v, f), NEW G, G = json_value_deep_copy(H, v, f)
    PROVE  Copied(H, v, f, G)
<1> DEFINE T == Tree(H, v)
           Of(x) == CHOOSE w \in T : f[w] = x
<1>1. {f[w] : w \in T} = Range(f) /\ Range(f) \cap DOMAIN H = {}
  BY DEF CopyOf, Range
<1>2. DOMAIN G = DOMAIN H \cup Range(f)
  BY <1>1 DEF json_value_deep_copy
<1>3. \A x \in DOMAIN H : G[x] = H[x]
  BY <1>1, <1>2 DEF json_value_deep_copy
<1>4. ASSUME NEW w \in T
      PROVE  CopyNode(H, v, f, w, G[f[w]])
  <2>1. Of(f[w]) = w
    BY DEF CopyOf
  <2>2. f[w] \in Range(f)
    BY <1>1
  <2>3. G[f[w]] = [kind   |-> H[Of(f[w])].kind,
                   parent |-> IF Of(f[w]) = v THEN NoValue ELSE f[H[Of(f[w])].parent],
                   items  |-> [k \in DOMAIN H[Of(f[w])].items |-> f[H[Of(f[w])].items[k]]]]
    BY <1>1, <1>2, <2>2 DEF json_value_deep_copy
  <2> HIDE DEF Of
  <2>4. G[f[w]] = [kind   |-> H[w].kind,
                   parent |-> IF w = v THEN NoValue ELSE f[H[w].parent],
                   items  |-> [k \in DOMAIN H[w].items |-> f[H[w].items[k]]]]
    BY <2>1, <2>3
  <2>5. QED
    BY <2>4, CopyItems
<1>5. QED
  BY <1>2, <1>3, <1>4 DEF Extends, Copied

\* A copy is a tree beside the others.
LEMMA CopyGood ==
    ASSUME NEW H, NEW v, NEW f, CopyOf(H, v, f), NEW G, Copied(H, v, f, G)
    PROVE  /\ Good(G) /\ f[v] \in Range(f) /\ Range(f) \subseteq Value \ DOMAIN H
           /\ G[f[v]].kind = H[v].kind
           /\ \A w : Root(G, w) <=> Root(H, w) \/ w = f[v]
           /\ Tree(G, f[v]) \subseteq Range(f)
<1>1. Typed(H) /\ ForestIn(H) /\ Rooted(H) /\ v \in DOMAIN H /\ ItemsIn(H)
  BY GoodItems DEF CopyOf, Good
<1>2. /\ v \in Tree(H, v) /\ Tree(H, v) \subseteq DOMAIN H /\ ClosedIn(H, Tree(H, v))
      /\ \A w \in Tree(H, v) : w # v => H[w].parent \in Tree(H, v)
  BY <1>1, GoodTree
<1>3. /\ \A y \in Range(f) : \E w \in Tree(H, v) : y = f[w]
      /\ \A w \in Tree(H, v) : f[w] \in Range(f)
      /\ Range(f) \subseteq Value \ DOMAIN H
      /\ \A x, y \in Tree(H, v) : f[x] = f[y] => x = y
  BY DEF CopyOf, Range
<1>4. /\ DOMAIN G = DOMAIN H \cup Range(f) /\ Extends(H, G)
      /\ \A x \in DOMAIN H : G[x] = H[x]
      /\ \A w \in Tree(H, v) : CopyNode(H, v, f, w, G[f[w]])
  BY DEF Extends, Copied
<1>5. NoValue \notin Range(f)
  BY <1>3, NullsAssumption
<1>6. ASSUME NEW w \in Tree(H, v), NEW x \in Range(H[w].items)
      PROVE  x \in Tree(H, v) /\ x # v /\ H[x].parent = w
  <2>1. w \in DOMAIN H /\ x \in Tree(H, v) /\ H[x].parent = w
    BY <1>1, <1>2 DEF ClosedIn, ForestIn
  <2>2. w \notin Tree(H, x)
    BY <2>1, NotBelow DEF CopyOf
  <2>3. QED
    BY <2>1, <2>2
<1>7. ASSUME NEW w \in Tree(H, v)
      PROVE  /\ G[f[w]] = [kind |-> G[f[w]].kind, parent |-> G[f[w]].parent,
                           items |-> G[f[w]].items]
             /\ ItemsFit(G[f[w]].kind, G[f[w]].items)
             /\ G[f[w]].parent \in Value \cup {NoValue}
             /\ \A y \in Range(G[f[w]].items) : y \in DOMAIN G /\ G[y].parent = f[w]
             /\ Distinct(G[f[w]].items)
             /\ G[f[w]].parent # NoValue =>
                   G[f[w]].parent \in DOMAIN G /\ f[w] \in Range(G[G[f[w]].parent].items)
             /\ G[f[w]].parent = NoValue <=> w = v
  <2>1. CopyNode(H, v, f, w, G[f[w]])
    BY <1>4
  <2>2. G[f[w]].parent = IF w = v THEN NoValue ELSE f[H[w].parent]
    BY <2>1 DEF CopyNode
  <2>3. w # v => G[f[w]].parent \in Range(f)
    BY <1>2, <1>3, <2>2
  <2>4. ASSUME NEW y \in Range(G[f[w]].items)
        PROVE  y \in DOMAIN G /\ G[y].parent = f[w]
    <3>1. PICK x \in Range(H[w].items) : y = f[x]
      BY <2>1 DEF CopyNode
    <3>2. x \in Tree(H, v) /\ x # v /\ H[x].parent = w
      BY <1>6
    <3>3. CopyNode(H, v, f, x, G[f[x]])
      BY <1>4, <3>2
    <3>4. QED
      BY <1>3, <1>4, <3>1, <3>2, <3>3 DEF CopyNode
  <2>5. ASSUME w # v
        PROVE  f[w] \in Range(G[f[H[w].parent]].items)
    <3>1. H[w].parent \in Tree(H, v) /\ H[w].parent # NoValue
      BY <1>1, <1>2, <2>5, NullsAssumption DEF Typed
    <3>2. w \in Range(H[H[w].parent].items)
      BY <1>1, <1>2, <3>1 DEF ForestIn
    <3>3. CopyNode(H, v, f, H[w].parent, G[f[H[w].parent]])
      BY <1>4, <3>1
    <3>4. QED
      BY <3>2, <3>3 DEF CopyNode
  <2>6. QED
    BY <1>3, <1>4, <1>5, <2>1, <2>2, <2>3, <2>4, <2>5 DEF CopyNode
<1>8. Typed(G)
  <2>1. \A x \in Range(f) : /\ G[x] = [kind |-> G[x].kind, parent |-> G[x].parent,
                                       items |-> G[x].items]
                            /\ ItemsFit(G[x].kind, G[x].items)
                            /\ G[x].parent \in Value \cup {NoValue}
    BY <1>3, <1>7
  <2>2. QED
    BY <1>1, <1>3, <1>4, <2>1 DEF Typed
<1>9. ForestIn(G)
  <2>1. ASSUME NEW x \in Range(f)
        PROVE  /\ \A w \in Range(G[x].items) : w \in DOMAIN G /\ G[w].parent = x
               /\ Distinct(G[x].items)
               /\ G[x].parent # NoValue =>
                     G[x].parent \in DOMAIN G /\ x \in Range(G[G[x].parent].items)
    <3>1. PICK w \in Tree(H, v) : x = f[w]
      BY <1>3
    <3>2. QED
      BY <1>7, <3>1
  <2>2. ASSUME NEW x \in DOMAIN H
        PROVE  /\ \A w \in Range(G[x].items) : w \in DOMAIN G /\ G[w].parent = x
               /\ Distinct(G[x].items)
               /\ G[x].parent # NoValue =>
                     G[x].parent \in DOMAIN G /\ x \in Range(G[G[x].parent].items)
    BY <1>1, <1>4 DEF ForestIn
  <2>3. QED
    BY <1>4, <2>1, <2>2 DEF ForestIn
<1>10. ASSUME NEW w
       PROVE  Root(G, w) <=> Root(H, w) \/ w = f[v]
  <2>1. ASSUME NEW x \in Range(f)
        PROVE  G[x].parent = NoValue <=> x = f[v]
    <3>1. PICK u \in Tree(H, v) : x = f[u]
      BY <1>3
    <3>2. G[f[u]].parent = NoValue <=> u = v
      BY <1>7
    <3>3. QED
      BY <1>2, <1>3, <3>1, <3>2
  <2>2. QED
    BY <1>2, <1>3, <1>4, <2>1 DEF Root
<1>11. ItemsIn(G)
  BY <1>8, GoodItems
<1>12. ASSUME NEW w \in Tree(H, v)
       PROVE  \A y \in Range(G[f[w]].items) : \E x \in Range(H[w].items) : y = f[x]
  BY <1>4 DEF CopyNode
<1>13. Tree(G, f[v]) \subseteq Range(f)
  <2>1. ClosedIn(G, Range(f))
    <3> SUFFICES ASSUME NEW u \in Range(f), NEW y \in Range(G[u].items)
                 PROVE  y \in Range(f)
      BY DEF ClosedIn
    <3>1. PICK w \in Tree(H, v) : u = f[w]
      BY <1>3
    <3>2. PICK x \in Range(H[w].items) : y = f[x]
      BY <1>12, <3>1
    <3>3. QED
      BY <1>3, <1>6, <3>2
  <2>2. QED
    BY <1>2, <1>3, <1>11, <2>1, TreeLeast
<1>14. Range(f) \subseteq Tree(G, f[v])
  <2> DEFINE S == {w \in Tree(H, v) : f[w] \in Tree(G, f[v])}
  <2>1. f[v] \in Tree(G, f[v]) /\ ClosedIn(G, Tree(G, f[v]))
    BY <1>2, <1>3, <1>11, TreeHas
  <2>2. v \in S
    BY <1>2, <2>1
  <2>3. ClosedIn(H, S)
    <3> SUFFICES ASSUME NEW w \in S, NEW x \in Range(H[w].items)
                 PROVE  x \in S
      BY DEF ClosedIn
    <3>1. x \in Tree(H, v) /\ f[w] \in DOMAIN G
      BY <1>3, <1>4, <1>6
    <3>2. f[x] \in Range(G[f[w]].items)
      BY <1>4 DEF CopyNode
    <3>3. QED
      BY <2>1, <3>1, <3>2 DEF ClosedIn
  <2> HIDE DEF S
  <2>4. Tree(H, v) \subseteq S
    BY <1>1, <2>2, <2>3, TreeLeast DEF Typed
  <2>5. QED
    BY <1>3, <2>4 DEF S
<1>15. Rooted(G)
  <2>1. \A x \in DOMAIN H : Tree(G, x) = Tree(H, x)
    BY <1>1, <1>4, <1>11, ExtendsTree
  <2>2. \A x \in Range(f) : Root(G, f[v]) /\ x \in Tree(G, f[v])
    BY <1>10, <1>14
  <2>3. QED
    BY <1>1, <1>4, <1>10, <2>1, <2>2 DEF Rooted, Root
<1>16. G[f[v]].kind = H[v].kind
  BY <1>2, <1>4 DEF CopyNode
<1>17. QED
  BY <1>2, <1>3, <1>8, <1>9, <1>10, <1>13, <1>15, <1>16 DEF Good

-----------------------------------------------------------------------------
(* The items that natives give a container *)

\* The items `new` are those of `old`, or some of them, and perhaps v.
NewItems(kind, old, new, v) ==
    ItemsFit(kind, new) /\ Distinct(new) /\ Range(new) \subseteq Range(old) \cup {v}

\* json_array_append_value
LEMMA AppendItems ==
    ASSUME NEW old, ItemsFit("array", old), Distinct(old), Len(old) < MaxItems,
           NEW v \in Value, v \notin Range(old)
    PROVE  NewItems("array", old, Append(old, v), v) /\ v \in Range(Append(old, v))
<1>1. old \in Seq(Value) /\ Len(old) \in Nat /\ DOMAIN old = 1 .. Len(old)
  BY DEF ItemsFit
<1>2. PICK new : new = Append(old, v)
  OBVIOUS
<1>3. /\ new \in Seq(Value) /\ Len(new) = Len(old) + 1 /\ DOMAIN new = 1 .. Len(old) + 1
      /\ \A k \in 1 .. Len(old) : new[k] = old[k]
      /\ new[Len(old) + 1] = v
  BY <1>1, <1>2
<1>4. Range(new) \subseteq Range(old) \cup {v} /\ v \in Range(new) /\ Range(new) \subseteq Value
  BY <1>1, <1>3 DEF Range
<1>5. Distinct(new)
  <2>1. \A k \in 1 .. Len(old) : old[k] # v
    BY <1>1 DEF Range
  <2>2. \A j, k \in 1 .. Len(old) : old[j] = old[k] => j = k
    BY <1>1 DEF Distinct
  <2>3. QED
    BY <1>1, <1>3, <2>1, <2>2 DEF Distinct
<1>6. ItemsFit("array", new)
  BY <1>1, <1>3, <1>4, BoundsAssumption DEF ItemsFit, Kinds
<1>7. QED
  BY <1>2, <1>4, <1>5, <1>6 DEF NewItems

\* An index that exists or the first one, or the name of a member.
KeyFits(kind, old, key) ==
    \/ kind = "array" /\ (key \in DOMAIN old \/ (old = <<>> /\ key = 1))
    \/ kind = "object" /\ key \in Name

\* json_array_replace_value at an index that exists, json_object_set_value.
LEMMA AssignItems ==
    ASSUME NEW kind, NEW old, ItemsFit(kind, old), Distinct(old), NEW key,
           KeyFits(kind, old, key), NEW v \in Value, v \notin Range(old)
    PROVE  NewItems(kind, old, Assign(old, key, v), v) /\ v \in Range(Assign(old, key, v))
<1>1. PICK new : new = Assign(old, key, v)
  OBVIOUS
<1>2. /\ DOMAIN new = DOMAIN old \cup {key} /\ new[key] = v
      /\ \A k \in DOMAIN old : k # key => new[k] = old[k]
  BY <1>1 DEF Assign
<1>3. \A k \in DOMAIN new : new[k] \in Value
  BY <1>2 DEF ItemsFit, Range
<1>4. Range(new) \subseteq Range(old) \cup {v} /\ v \in Range(new) /\ Range(new) \subseteq Value
  BY <1>2, <1>3 DEF Range
<1>5. Distinct(new)
  BY <1>2 DEF Distinct, Range
<1>6. ASSUME kind = "array"
      PROVE  new \in Seq(Value) /\ Len(new) <= MaxItems
  <2>1. PICK n \in Nat : DOMAIN new = 1 .. n /\ n <= MaxItems
    <3>1. CASE key \in DOMAIN old
      BY <1>2, <1>6, <3>1 DEF ItemsFit
    <3>2. CASE old = <<>> /\ key = 1
      BY <1>2, <3>2, EmptyItems, BoundsAssumption
    <3>3. QED
      BY <1>6, <3>1, <3>2 DEF KeyFits
  <2>2. new = [k \in 1 .. n |-> new[k]]
    BY <1>1, <2>1 DEF Assign
  <2>3. QED
    BY <1>3, <2>1, <2>2, BoundsAssumption
<1>7. ItemsFit(kind, new)
  BY <1>2, <1>4, <1>6 DEF ItemsFit, KeyFits
<1>8. QED
  BY <1>1, <1>4, <1>5, <1>7 DEF NewItems

\* json_array_replace_value
LEMMA ReplaceItems ==
    ASSUME NEW old, ItemsFit("array", old), Distinct(old), NEW i \in DOMAIN old,
           NEW v \in Value, v \notin Range(old)
    PROVE  NewItems("array", old, Assign(old, i, v), v) /\ v \in Range(Assign(old, i, v))
<1>1. KeyFits("array", old, i)
  BY DEF KeyFits
<1>2. QED
  BY <1>1, AssignItems

\* json_object_set_value
LEMMA MemberItems ==
    ASSUME NEW old, ItemsFit("object", old), Distinct(old), NEW name \in Name,
           NEW v \in Value, v \notin Range(old)
    PROVE  NewItems("object", old, Assign(old, name, v), v) /\ v \in Range(Assign(old, name, v))
<1>1. KeyFits("object", old, name)
  BY DEF KeyFits
<1>2. QED
  BY <1>1, AssignItems

\* json_array_remove
LEMMA RemoveItems ==
    ASSUME NEW old, ItemsFit("array", old), Distinct(old), NEW i \in DOMAIN old, NEW v
    PROVE  NewItems("array", old, RemoveAt(old, i), v)
<1>1. old \in Seq(Value) /\ Len(old) \in Nat /\ DOMAIN old = 1 .. Len(old) /\ i \in 1 .. Len(old)
  BY DEF ItemsFit
<1>2. PICK new : new = RemoveAt(old, i)
  OBVIOUS
<1>3. /\ new \in Seq(Value) /\ Len(new) = Len(old) - 1 /\ DOMAIN new = 1 .. Len(old) - 1
      /\ \A k \in 1 .. Len(old) - 1 : new[k] = IF k < i THEN old[k] ELSE old[k + 1]
  <2>1. PICK a, b, n : a = SubSeq(old, 1, i - 1) /\ b = SubSeq(old, i + 1, n) /\ n = Len(old)
    OBVIOUS
  <2>2. n \in Nat /\ i \in Nat /\ 1 <= i /\ i <= n /\ n = Len(old)
    BY <1>1, <2>1
  <2>3. a \in Seq(Value) /\ Len(a) = i - 1
    BY <1>1, <2>1, <2>2
  <2>4. b \in Seq(Value) /\ Len(b) = n - i
    BY <1>1, <2>1, <2>2
  <2>5. \A k \in 1 .. i - 1 : a[k] = old[k]
    BY <1>1, <2>1, <2>2
  <2>6. \A k \in 1 .. n - i : b[k] = old[k + i]
    BY <1>1, <2>1, <2>2
  <2>7. new = a \o b
    BY <1>2, <2>1 DEF RemoveAt
  <2>8. new \in Seq(Value) /\ Len(new) = Len(a) + Len(b)
    BY <2>3, <2>4, <2>7, ConcatProperties
  <2>9. Len(new) = n - 1 /\ DOMAIN new = 1 .. n - 1
    BY <2>2, <2>3, <2>4, <2>8
  <2>10. ASSUME NEW k \in 1 .. n - 1
         PROVE  new[k] = IF k < i THEN old[k] ELSE old[k + 1]
    <3>1. CASE k < i
      <4>1. k \in 1 .. Len(a)
        BY <2>2, <2>3, <3>1
      <4>2. new[k] = a[k]
        BY <2>3, <2>4, <2>7, <4>1
      <4>3. QED
        BY <2>3, <2>5, <3>1, <4>1, <4>2
    <3>2. CASE ~(k < i)
      <4>1. PICK j \in 1 .. n - i : k = j + Len(a) /\ k + 1 = j + i
        <5>1. k - (i - 1) \in 1 .. n - i
          BY <2>2, <3>2
        <5>2. QED
          BY <2>2, <2>3, <3>2, <5>1
      <4>2. new[j + Len(a)] = b[j]
        <5>1. j \in 1 .. Len(b)
          BY <2>4
        <5>2. QED
          BY <2>3, <2>4, <2>7, <5>1, ConcatProperties
      <4>3. QED
        BY <2>6, <3>2, <4>1, <4>2
    <3>3. QED
      BY <3>1, <3>2
  <2>11. QED
    BY <2>2, <2>8, <2>9, <2>10
<1>4. Range(new) \subseteq Range(old) /\ Range(new) \subseteq Value
  <2>1. ASSUME NEW k \in DOMAIN new PROVE new[k] \in Range(old) /\ new[k] \in Value
    <3>1. k \in 1 .. Len(old) - 1 /\ k \in DOMAIN old /\ k + 1 \in DOMAIN old
      BY <1>1, <1>3
    <3>2. new[k] = old[k] \/ new[k] = old[k + 1]
      BY <1>3, <3>1
    <3>3. QED
      BY <1>1, <3>1, <3>2 DEF Range
  <2>2. QED
    BY <2>1 DEF Range
<1>5. Distinct(new)
  <2>1. \A j, k \in 1 .. Len(old) : old[j] = old[k] => j = k
    BY <1>1 DEF Distinct
  <2>2. QED
    BY <1>1, <1>3, <2>1 DEF Distinct
<1>6. ItemsFit("array", new)
  BY <1>1, <1>3, <1>4, BoundsAssumption DEF ItemsFit, Kinds
<1>7. QED
  BY <1>2, <1>4, <1>5, <1>6 DEF NewItems

\* json_object_remove
LEMMA WithoutItems ==
    ASSUME NEW old, ItemsFit("object", old), Distinct(old), NEW name, NEW v
    PROVE  NewItems("object", old, Without(old, name), v)
<1>1. PICK new : new = Without(old, name)
  OBVIOUS
<1>2. DOMAIN new = DOMAIN old \ {name} /\ \A k \in DOMAIN new : new[k] = old[k]
  BY <1>1 DEF Without
<1>3. Range(new) \subseteq Range(old) /\ Range(new) \subseteq Value
  BY <1>2 DEF Range, ItemsFit
<1>4. Distinct(new)
  BY <1>2 DEF Distinct
<1>5. ItemsFit("object", new)
  BY <1>2, <1>3 DEF ItemsFit, Kinds
<1>6. QED
  BY <1>1, <1>3, <1>4, <1>5 DEF NewItems

-----------------------------------------------------------------------------
(* Handles and the values they free *)

Entry == [value : Value, type : Kinds, must_be_freed : BOOLEAN]

\* The slots of table t that are in use.
Used(t) == {h \in DOMAIN t : t[h] # NoHandle}

\* In table t, handle h frees v.
Owns(t, h, v) == h \in Used(t) /\ t[h].must_be_freed /\ t[h].value = v

Slots(t) == t \in Seq(Entry \cup {NoHandle}) /\ Len(t) <= MaxHandles

\* A handle whose value exists has the type of that value.
Named(H, t) == \A h \in Used(t) : t[h].value \in DOMAIN H => t[h].type = H[t[h].value].kind

\* What has an owner is a root, a root has one owner at most, and the roots
\* without an owner are those in l.
Owned(H, t, l) ==
    /\ \A h, v : Owns(t, h, v) => Root(H, v)
    /\ \A h, k, v : Owns(t, h, v) /\ Owns(t, k, v) => h = k
    /\ \A v \in l : Root(H, v)
    /\ \A v : Root(H, v) => (v \in l <=> \A h : ~Owns(t, h, v))

Sound(H, t, l) == Good(H) /\ Slots(t) /\ Named(H, t) /\ Owned(H, t, l)

\* No handle names a value of S.
Unnamed(t, S) == \A h \in Used(t) : t[h].value \notin S

\* A slot in use holds an entry.
LEMMA UsedEntry ==
    ASSUME NEW t, Slots(t), NEW h \in Used(t)
    PROVE  /\ t[h] \in Entry /\ t[h].value \in Value /\ t[h].type \in Kinds
           /\ t[h].must_be_freed \in BOOLEAN
           /\ h \in 1 .. Len(t) /\ Len(t) \in Nat
BY DEF Slots, Used, Entry

\* A value comes into the world as a root that nobody owns.
LEMMA SoundInit ==
    ASSUME NEW H, NEW t, NEW l, Sound(H, t, l), NEW v \in Value \ DOMAIN H, Unnamed(t, {v}),
           NEW kind \in Kinds, NEW G, G = json_value_init(H, v, kind)
    PROVE  Sound(G, t, l \cup {v})
<1>0. Good(H)
  BY DEF Sound
<1>1. /\ Good(G) /\ DOMAIN G = DOMAIN H \cup {v} /\ Extends(H, G)
      /\ \A w : Root(G, w) <=> Root(H, w) \/ w = v
  <2>1. InitDone(H, v, kind, G)
    BY <1>0, InitGood
  <2>2. QED
    BY <2>1 DEF InitDone
<1>2. Slots(t) /\ Named(H, t) /\ Owned(H, t, l)
  BY DEF Sound
<1>3. Named(G, t)
  BY <1>1, <1>2 DEF Named, Unnamed, Extends
<1>4. \A h : ~Owns(t, h, v)
  BY DEF Unnamed, Owns
<1>5. Owned(G, t, l \cup {v})
  BY <1>1, <1>2, <1>4 DEF Owned
<1>6. QED
  BY <1>1, <1>2, <1>3, <1>5 DEF Sound

CopyMade(H, t, l, v, f, G) ==
    /\ Sound(G, t, l \cup {f[v]}) /\ Root(G, f[v]) /\ Extends(H, G)
    /\ DOMAIN G = DOMAIN H \cup Range(f) /\ f[v] \in Range(f)
    /\ Tree(G, f[v]) \subseteq Range(f)

\* A copy is a root that nobody owns.
LEMMA SoundCopy ==
    ASSUME NEW H, NEW t, NEW l, Sound(H, t, l), NEW v, NEW f, CopyOf(H, v, f),
           Unnamed(t, Range(f)), NEW G, G = json_value_deep_copy(H, v, f)
    PROVE  CopyMade(H, t, l, v, f, G)
<1>1. Copied(H, v, f, G)
  BY CopyState
<1>2. /\ Good(G) /\ f[v] \in Range(f) /\ Range(f) \subseteq Value \ DOMAIN H
      /\ \A w : Root(G, w) <=> Root(H, w) \/ w = f[v]
      /\ Tree(G, f[v]) \subseteq Range(f)
  BY <1>1, CopyGood
<1>3. DOMAIN G = DOMAIN H \cup Range(f) /\ Extends(H, G)
  BY <1>1 DEF Copied
<1>4. Slots(t) /\ Named(H, t) /\ Owned(H, t, l)
  BY DEF Sound
<1>5. Named(G, t)
  BY <1>3, <1>4 DEF Named, Unnamed, Extends
<1>6. \A h : ~Owns(t, h, f[v])
  BY <1>2 DEF Unnamed, Owns
<1>7. Owned(G, t, l \cup {f[v]})
  BY <1>2, <1>4, <1>6 DEF Owned
<1>8. QED
  BY <1>2, <1>3, <1>4, <1>5, <1>7 DEF Sound, CopyMade

\* The roots of G among l.
Left(G, l) == {w \in l : Root(G, w)}

\* Only roots that nobody owns are put into a container.
LEMMA SoundSet ==
    ASSUME NEW H, NEW t, NEW l, Sound(H, t, l), NEW c, NEW new, NEW V, V \subseteq l,
           SetReady(H, c, new, V), NEW G, G = SetItems(H, c, new)
    PROVE  Sound(G, t, Left(G, l)) /\ SetDone(H, c, new, G)
<1>1. SetDone(H, c, new, G)
  BY SetItemsDone
<1>2. Good(G)
  BY <1>1, SetItemsGood
<1>3. Slots(t) /\ Named(H, t) /\ Owned(H, t, l) /\ Typed(H) /\ ForestIn(H) /\ c \in DOMAIN H
  BY DEF Sound, Good, SetReady
<1>4. \A v \in DOMAIN G : v \in DOMAIN H /\ G[v].kind = H[v].kind
  BY <1>1 DEF SetDone
<1>5. Named(G, t)
  BY <1>3, <1>4 DEF Named
<1>6. \A v : Root(G, v) <=> Root(H, v) /\ v \notin Range(new)
  BY <1>1 DEF SetDone
<1>7. \A w \in Range(H[c].items) : ~Root(H, w)
  BY <1>3, NullsAssumption DEF ForestIn, Typed, Root
<1>8. \A w \in Range(new) : Root(H, w) => w \in l
  BY <1>7 DEF SetReady
<1>9. Owned(G, t, Left(G, l))
  BY <1>3, <1>6, <1>8 DEF Owned, Left
<1>10. QED
  BY <1>1, <1>2, <1>3, <1>5, <1>9 DEF Sound

\* u is t with e in the slot s, which was empty or not there.
Filled(t, u, s, e) ==
    /\ Slots(u) /\ Used(u) = Used(t) \cup {s} /\ s \notin Used(t)
    /\ \A h \in Used(t) : u[h] = t[h]
    /\ u[s] = e /\ DOMAIN t \subseteq DOMAIN u

\* A handle that frees its value is made for a root that nobody owns.
LEMMA SoundHand ==
    ASSUME NEW H, NEW t, NEW l, Sound(H, t, l), NEW v \in DOMAIN H, NEW own \in BOOLEAN,
           own => v \in l, NEW u, NEW s,
           Filled(t, u, s, [value |-> v, type |-> H[v].kind, must_be_freed |-> own])
    PROVE  Sound(H, u, IF own THEN l \ {v} ELSE l)
<1>1. Good(H) /\ Slots(u) /\ Named(H, t) /\ Owned(H, t, l)
  BY DEF Sound, Filled
<1>2. u[s].value = v /\ u[s].type = H[v].kind /\ u[s].must_be_freed = own
  BY DEF Filled
<1>3. Named(H, u)
  BY <1>1, <1>2 DEF Named, Filled
<1>4. \A h, w : Owns(u, h, w) <=> Owns(t, h, w) \/ (own /\ h = s /\ w = v)
  BY <1>2 DEF Owns, Filled
<1>5. Owned(H, u, IF own THEN l \ {v} ELSE l)
  <2>1. CASE own
    BY <1>1, <1>4, <2>1 DEF Owned
  <2>2. CASE ~own
    BY <1>1, <1>4, <2>2 DEF Owned
  <2>3. QED
    BY <2>1, <2>2
<1>6. QED
  BY <1>1, <1>3, <1>5 DEF Sound

\* An entry with m_bMustBeFreed cleared.
LEMMA EntryGives ==
    ASSUME NEW x \in Entry, NEW e, e = [x EXCEPT !.must_be_freed = FALSE]
    PROVE  /\ e \in Entry /\ e # NoHandle
           /\ e.value = x.value /\ e.type = x.type /\ e.must_be_freed = FALSE
<1>1. e \in Entry /\ e.value = x.value /\ e.type = x.type /\ e.must_be_freed = FALSE
  BY DEF Entry
<1>2. QED
  BY <1>1, NullsAssumption DEF Entry

\* No other handle frees what h names.
NoOtherOwner(t, h) ==
    \A k \in Used(t) \ {h} : t[k].value = t[h].value => ~t[k].must_be_freed

Given(H, t, l, h, u) ==
    /\ Sound(H, u, l \cup {t[h].value}) /\ DOMAIN u = DOMAIN t /\ Used(u) = Used(t)
    /\ \A k \in Used(t) : u[k].value = t[k].value

\* The handle of a root no longer frees it.
LEMMA SoundGive ==
    ASSUME NEW H, NEW t, NEW l, Sound(H, t, l), NEW h \in Used(t), Root(H, t[h].value),
           NoOtherOwner(t, h), NEW u, u = [t EXCEPT ![h].must_be_freed = FALSE]
    PROVE  Given(H, t, l, h, u)
<1>1. Good(H) /\ Slots(t) /\ Named(H, t) /\ Owned(H, t, l)
  BY DEF Sound
<1>2. t[h] \in Entry /\ h \in DOMAIN t
  BY <1>1, UsedEntry DEF Used
<1>3. PICK e : /\ e = [t[h] EXCEPT !.must_be_freed = FALSE]
               /\ e \in Entry /\ e # NoHandle
               /\ e.value = t[h].value /\ e.type = t[h].type /\ e.must_be_freed = FALSE
  BY <1>2, EntryGives
<1>4. u = [t EXCEPT ![h] = e]
  BY <1>2, <1>3
<1>5. Slots(u) /\ DOMAIN u = DOMAIN t
  BY <1>1, <1>2, <1>3, <1>4 DEF Slots
<1>6. u[h] = e /\ \A k \in DOMAIN t : k # h => u[k] = t[k]
  BY <1>1, <1>2, <1>4 DEF Slots
<1>7. Used(u) = Used(t)
  BY <1>2, <1>3, <1>5, <1>6 DEF Used
<1>8. Named(H, u)
  BY <1>1, <1>3, <1>6, <1>7 DEF Named, Used
<1>9. \A k, w : Owns(u, k, w) <=> Owns(t, k, w) /\ k # h
  BY <1>3, <1>6, <1>7 DEF Owns, Used
<1>10. \A k : ~Owns(u, k, t[h].value)
  BY <1>9 DEF Owns, NoOtherOwner
<1>11. \A k, w : w # t[h].value => (Owns(u, k, w) <=> Owns(t, k, w))
  BY <1>9 DEF Owns
<1>12. Owned(H, u, l \cup {t[h].value})
  <2>1. /\ \A k, w : Owns(u, k, w) => Root(H, w)
        /\ \A j, k, w : Owns(u, j, w) /\ Owns(u, k, w) => j = k
        /\ \A w \in l \cup {t[h].value} : Root(H, w)
    BY <1>1, <1>9 DEF Owned
  <2>2. ASSUME NEW w, Root(H, w)
        PROVE  w \in l \cup {t[h].value} <=> \A k : ~Owns(u, k, w)
    <3>1. CASE w = t[h].value
      BY <1>10, <3>1
    <3>2. CASE w # t[h].value
      BY <1>1, <1>11, <2>2, <3>2 DEF Owned
    <3>3. QED
      BY <3>1, <3>2
  <2>3. QED
    BY <2>1, <2>2 DEF Owned
<1>13. \A k \in Used(t) : u[k].value = t[k].value
  BY <1>3, <1>6 DEF Used
<1>14. QED
  BY <1>1, <1>5, <1>7, <1>8, <1>12, <1>13 DEF Sound, Given

\* Some handles of t are not in u, and R are the values that they free.
Dropped(t, u, R) ==
    /\ Slots(u) /\ Used(u) \subseteq Used(t) /\ \A h \in Used(u) : u[h] = t[h]
    /\ \A v : v \in R <=> \E h \in Used(t) \ Used(u) : Owns(t, h, v)

\* The owners that go free what they own.
LEMMA SoundFree ==
    ASSUME NEW H, NEW t, NEW l, Sound(H, t, l), NEW u, NEW R, Dropped(t, u, R),
           NEW G, G = json_value_free(H, R)
    PROVE  Sound(G, u, l) /\ FreeDone(H, R, G)
<1>1. /\ Good(H) /\ Slots(t) /\ Named(H, t) /\ Owned(H, t, l)
      /\ Slots(u) /\ Used(u) \subseteq Used(t) /\ \A h \in Used(u) : u[h] = t[h]
      /\ \A v : v \in R <=> \E h \in Used(t) \ Used(u) : Owns(t, h, v)
  BY DEF Sound, Dropped
<1>2. AllRoots(H, R)
  BY <1>1 DEF Owned, AllRoots
<1>3. FreeDone(H, R, G)
  BY <1>1, <1>2, FreeGood
<1>4. /\ Good(G) /\ \A w \in DOMAIN G : w \in DOMAIN H /\ G[w] = H[w]
      /\ \A w : Root(G, w) <=> Root(H, w) /\ w \notin R
  BY <1>3 DEF FreeDone
<1>5. Named(G, u)
  BY <1>1, <1>4 DEF Named
<1>6. \A h, v : Owns(u, h, v) <=> Owns(t, h, v) /\ h \in Used(u)
  BY <1>1 DEF Owns
<1>7. Owned(G, u, l)
  <2>1. ASSUME NEW h, NEW v, Owns(u, h, v) PROVE Root(G, v)
    <3>1. Root(H, v) /\ Owns(t, h, v) /\ h \in Used(u)
      BY <1>1, <1>6, <2>1 DEF Owned
    <3>2. v \notin R
      BY <1>1, <3>1 DEF Owned
    <3>3. QED
      BY <1>4, <3>1, <3>2
  <2>2. \A h, k, v : Owns(u, h, v) /\ Owns(u, k, v) => h = k
    BY <1>1, <1>6 DEF Owned
  <2>3. \A v \in l : Root(G, v)
    BY <1>1, <1>4 DEF Owned
  <2>4. ASSUME NEW v, Root(G, v) PROVE v \in l <=> \A h : ~Owns(u, h, v)
    <3>1. Root(H, v) /\ v \notin R
      BY <1>4, <2>4
    <3>2. \A h : Owns(t, h, v) => h \in Used(u)
      BY <1>1, <3>1 DEF Owns
    <3>3. QED
      BY <1>1, <1>6, <3>1, <3>2 DEF Owned
  <2>5. QED
    BY <2>1, <2>2, <2>3, <2>4 DEF Owned
<1>8. QED
  BY <1>1, <1>3, <1>4, <1>5, <1>7 DEF Sound

-----------------------------------------------------------------------------
(* m_OldHandles *)

\* old lists the empty slots of t, each of them once.
Listed(t, old) ==
    old \in Seq(DOMAIN t) /\ Distinct(old) /\ Range(old) = DOMAIN t \ Used(t)

\* A handle is popped from the list.
LEMMA ListPop ==
    ASSUME NEW t, Slots(t), NEW old, Listed(t, old), old # <<>>, NEW e \in Entry, NEW s,
           s = Head(old), NEW u, u = [t EXCEPT ![s] = e]
    PROVE  Listed(u, Tail(old)) /\ Filled(t, u, s, e)
<1>1. /\ old \in Seq(DOMAIN t) /\ Len(old) \in Nat /\ Len(old) >= 1
      /\ DOMAIN old = 1 .. Len(old) /\ s = old[1]
  BY DEF Listed
<1>2. s \in DOMAIN t /\ s \notin Used(t)
  BY <1>1 DEF Listed, Range
<1>3. Slots(u) /\ DOMAIN u = DOMAIN t /\ u[s] = e /\ \A h \in DOMAIN t : h # s => u[h] = t[h]
  BY <1>2 DEF Slots
<1>4. e # NoHandle
  BY NullsAssumption DEF Entry
<1>5. Used(u) = Used(t) \cup {s}
  BY <1>2, <1>3, <1>4 DEF Used
<1>6. PICK q : q = Tail(old)
  OBVIOUS
<1>7. /\ q \in Seq(DOMAIN t) /\ Len(q) = Len(old) - 1 /\ DOMAIN q = 1 .. Len(old) - 1
      /\ \A i \in 1 .. Len(old) - 1 : q[i] = old[i + 1]
  BY <1>1, <1>6
<1>8. \A i, j \in 1 .. Len(old) : old[i] = old[j] => i = j
  BY <1>1 DEF Listed, Distinct
<1>9. Distinct(q)
  BY <1>1, <1>7, <1>8 DEF Distinct
<1>10. Range(q) = Range(old) \ {s}
  <2>1. ASSUME NEW i \in 1 .. Len(old) - 1
        PROVE  q[i] \in Range(old) /\ q[i] # s
    BY <1>1, <1>7, <1>8 DEF Range
  <2>2. ASSUME NEW i \in 1 .. Len(old), old[i] # s
        PROVE  old[i] \in Range(q)
    <3>1. i - 1 \in 1 .. Len(old) - 1 /\ i - 1 + 1 = i
      BY <1>1, <2>2
    <3>2. QED
      BY <1>7, <3>1 DEF Range
  <2>3. QED
    BY <1>1, <1>7, <2>1, <2>2 DEF Range
<1>11. Listed(u, q)
  BY <1>3, <1>5, <1>7, <1>9, <1>10 DEF Listed
<1>12. QED
  BY <1>2, <1>3, <1>5, <1>6, <1>11 DEF Used, Filled

\* A freed handle is pushed on the list.
LEMMA ListPush ==
    ASSUME NEW t, Slots(t), NEW old, Listed(t, old), NEW h \in Used(t),
           NEW u, u = [t EXCEPT ![h] = NoHandle]
    PROVE  /\ Listed(u, Append(old, h)) /\ Used(u) = Used(t) \ {h} /\ Slots(u)
           /\ \A k \in Used(u) : u[k] = t[k]
           /\ DOMAIN u = DOMAIN t
<1>1. h \in DOMAIN t /\ h \notin Range(old)
  BY DEF Listed, Used
<1>2. /\ Slots(u) /\ DOMAIN u = DOMAIN t /\ u[h] = NoHandle
      /\ \A k \in DOMAIN t : k # h => u[k] = t[k]
  BY <1>1 DEF Slots
<1>3. Used(u) = Used(t) \ {h}
  BY <1>1, <1>2 DEF Used
<1>4. old \in Seq(DOMAIN t) /\ Len(old) \in Nat /\ DOMAIN old = 1 .. Len(old)
  BY DEF Listed
<1>5. PICK q : q = Append(old, h)
  OBVIOUS
<1>6. /\ q \in Seq(DOMAIN t) /\ DOMAIN q = 1 .. Len(old) + 1
      /\ q[Len(old) + 1] = h /\ \A i \in 1 .. Len(old) : q[i] = old[i]
  BY <1>1, <1>4, <1>5
<1>7. Range(q) = Range(old) \cup {h}
  <2>1. Range(q) \subseteq Range(old) \cup {h}
    BY <1>4, <1>6 DEF Range
  <2>2. Range(old) \subseteq Range(q) /\ h \in Range(q)
    <3>1. Len(old) + 1 \in 1 .. Len(old) + 1 /\ 1 .. Len(old) \subseteq 1 .. Len(old) + 1
      BY <1>4
    <3>2. QED
      BY <1>4, <1>6, <3>1 DEF Range
  <2>3. QED
    BY <2>1, <2>2
<1>8. Distinct(q)
  <2>1. \A i \in 1 .. Len(old) : old[i] # h
    BY <1>1, <1>4 DEF Range
  <2>2. \A i, j \in 1 .. Len(old) : old[i] = old[j] => i = j
    BY <1>4 DEF Listed, Distinct
  <2>3. \A i \in DOMAIN q : i = Len(old) + 1 \/ i \in 1 .. Len(old)
    BY <1>4, <1>6
  <2>4. QED
    BY <1>6, <2>1, <2>2, <2>3 DEF Distinct
<1>9. Range(old) = DOMAIN t \ Used(t)
  BY DEF Listed
<1>10. Listed(u, q)
  BY <1>1, <1>2, <1>3, <1>6, <1>7, <1>8, <1>9 DEF Listed, Used
<1>11. QED
  BY <1>2, <1>3, <1>5, <1>10 DEF Used

\* The table grows when the list is empty.
LEMMA ListGrow ==
    ASSUME NEW t, Slots(t), Listed(t, <<>>), Len(t) < MaxHandles, NEW e \in Entry, NEW s,
           s = Len(t) + 1, NEW u, u = Append(t, e)
    PROVE  Listed(u, <<>>) /\ Filled(t, u, s, e)
<1>1. t \in Seq(Entry \cup {NoHandle}) /\ Len(t) \in Nat /\ DOMAIN t = 1 .. Len(t)
  BY DEF Slots
<1>2. /\ u \in Seq(Entry \cup {NoHandle}) /\ Len(u) = Len(t) + 1 /\ DOMAIN u = 1 .. Len(t) + 1
      /\ u[s] = e /\ \A h \in 1 .. Len(t) : u[h] = t[h]
  BY <1>1
<1>3. Slots(u)
  BY <1>1, <1>2, BoundsAssumption DEF Slots
<1>4. s \notin DOMAIN t /\ DOMAIN u = DOMAIN t \cup {s}
  BY <1>1, <1>2
<1>5. e # NoHandle
  BY NullsAssumption DEF Entry
<1>6. Used(u) = Used(t) \cup {s}
  BY <1>1, <1>2, <1>4, <1>5 DEF Used
<1>7. DOMAIN t \ Used(t) = {}
  BY EmptyItems DEF Listed
<1>8. <<>> \in Seq(DOMAIN u)
  OBVIOUS
<1>9. Listed(u, <<>>)
  BY <1>4, <1>6, <1>7, <1>8, EmptyItems DEF Listed
<1>10. QED
  BY <1>1, <1>2, <1>3, <1>4, <1>6, <1>9 DEF Used, Filled

-----------------------------------------------------------------------------
(* The natives *)

\* The inductive invariant.
Inv == Sound(heap, m_Handles, lost) /\ Listed(m_Handles, m_OldHandles)

\* A native other than FreeAllHandles does not shorten the table.
Grown == DOMAIN m_Handles \subseteq DOMAIN m_Handles'

\* What natives rely on: parson hands out values that no handle names.
LEMMA InvFacts ==
    ASSUME Inv
    PROVE  /\ Good(heap) /\ Slots(m_Handles) /\ Handles = Used(m_Handles)
           /\ \A v \in Fresh : v \in Value \ DOMAIN heap
           /\ \A S \in SUBSET Fresh : Unnamed(m_Handles, S)
           /\ \A v \in lost : Root(heap, v)
<1>1. Good(heap) /\ Slots(m_Handles) /\ Handles = Used(m_Handles)
  BY DEF Inv, Sound, Handles, Used
<1>2. \A v \in lost : Root(heap, v)
  BY DEF Inv, Sound, Owned
<1>3. \A v \in Fresh : v \in Value \ DOMAIN heap
  BY DEF Fresh
<1>4. ASSUME NEW S \in SUBSET Fresh
      PROVE  Unnamed(m_Handles, S)
  BY <1>1 DEF Fresh, Unnamed
<1>5. QED
  BY <1>1, <1>2, <1>3, <1>4

\* The handles natives dereference.
LEMMA UsableFacts ==
    ASSUME Inv, NEW type, NEW h \in Usable(type)
    PROVE  /\ h \in Used(m_Handles) /\ ValueOf(h) = m_Handles[h].value
           /\ ValueOf(h) \in DOMAIN heap /\ ValueOf(h) \in Value
           /\ ItemsFit(heap[ValueOf(h)].kind, heap[ValueOf(h)].items)
           /\ Distinct(heap[ValueOf(h)].items)
           /\ type \in {"array", "object"} => heap[ValueOf(h)].kind = type
<1>1. h \in Used(m_Handles) /\ ValueOf(h) = m_Handles[h].value /\ ValueOf(h) \in DOMAIN heap
  BY InvFacts DEF Usable, ValueOf
<1>2. Typed(heap) /\ ForestIn(heap) /\ Named(heap, m_Handles)
  BY DEF Inv, Sound, Good
<1>3. type \in {"array", "object"} => heap[ValueOf(h)].kind = type
  BY <1>1, <1>2 DEF Named, Usable, IsValidHandle
<1>4. QED
  BY <1>1, <1>2, <1>3 DEF Typed, ForestIn

\* _MakeHandle, for a value of memory H.
LEMMA HandleMade ==
    ASSUME Inv, NEW H, NEW l, Sound(H, m_Handles, l), NEW v \in DOMAIN H,
           NEW own \in BOOLEAN, own => v \in l, MakeHandle(H, v, own)
    PROVE  /\ Sound(H, m_Handles', IF own THEN l \ {v} ELSE l)
           /\ Listed(m_Handles', m_OldHandles') /\ Grown
<1>1. Slots(m_Handles) /\ Listed(m_Handles, m_OldHandles) /\ v \in Value /\ H[v].kind \in Kinds
  BY DEF Inv, Sound, Good, Typed, ItemsFit
<1>2. PICK e : e = [value |-> v, type |-> H[v].kind, must_be_freed |-> own]
  OBVIOUS
<1>3. e \in Entry
  BY <1>1, <1>2 DEF Entry
<1>4. \E s : /\ Filled(m_Handles, m_Handles', s, e)
             /\ Listed(m_Handles', m_OldHandles') /\ Grown
  <2>1. CASE /\ m_OldHandles # <<>> /\ m_OldHandles' = Tail(m_OldHandles)
             /\ m_Handles' = [m_Handles EXCEPT ![Head(m_OldHandles)] = e]
    <3>1. PICK s, u : /\ s = Head(m_OldHandles) /\ u = [m_Handles EXCEPT ![s] = e]
                      /\ u = m_Handles'
      BY <2>1
    <3>2. Listed(u, Tail(m_OldHandles)) /\ Filled(m_Handles, u, s, e)
      BY <1>1, <1>3, <2>1, <3>1, ListPop
    <3>3. QED
      BY <2>1, <3>1, <3>2 DEF Grown, Filled
  <2>2. CASE /\ m_OldHandles = <<>> /\ Len(m_Handles) < MaxHandles
             /\ m_Handles' = Append(m_Handles, e) /\ m_OldHandles' = m_OldHandles
    <3>1. PICK s, u : s = Len(m_Handles) + 1 /\ u = Append(m_Handles, e) /\ u = m_Handles'
      BY <2>2
    <3>2. Listed(u, <<>>) /\ Filled(m_Handles, u, s, e)
      BY <1>1, <1>3, <2>2, <3>1, ListGrow
    <3>3. QED
      BY <2>2, <3>1, <3>2 DEF Grown, Filled
  <2>3. QED
    BY <1>2, <2>1, <2>2 DEF MakeHandle
<1>5. QED
  BY <1>2, <1>4, SoundHand

\* What parson is called with: the offered value is a root that nobody owns,
\* outside the container that is to take it.
OfferMade(g, into, spare) ==
    /\ Sound(g.mem, g.table, lost \cup {g.value})
    /\ Root(g.mem, g.value) /\ into \notin Tree(g.mem, g.value)
    /\ Extends(heap, g.mem) /\ DOMAIN g.mem \subseteq DOMAIN heap \cup (Fresh \ spare)
    /\ Listed(g.table, m_OldHandles) /\ DOMAIN g.table = DOMAIN m_Handles
    /\ \A v \in Fresh : Unnamed(g.table, {v})

\* A copy is made of values that no handle names.
LEMMA FreshCopy ==
    ASSUME Inv, NEW v \in DOMAIN heap, NEW spare, NEW f \in Copies(v, spare)
    PROVE  /\ CopyOf(heap, v, f) /\ Range(f) \subseteq Fresh \ spare
           /\ Unnamed(m_Handles, Range(f)) /\ f[v] \in Fresh
<1>1. /\ f \in [Tree(heap, v) -> Fresh \ spare]
      /\ \A x, y \in Tree(heap, v) : f[x] = f[y] => x = y
  BY DEF Copies
<1>2. Range(f) \subseteq Fresh \ spare
  BY <1>1 DEF Range
<1>3. Fresh \subseteq Value \ DOMAIN heap /\ Good(heap)
  BY InvFacts
<1>4. CopyOf(heap, v, f)
  BY <1>1, <1>3 DEF CopyOf
<1>5. v \in Tree(heap, v)
  BY <1>3, GoodTree DEF Good
<1>6. QED
  BY <1>1, <1>2, <1>4, <1>5, InvFacts

\* Both ways to begin an insertion, a copy and a root that is given away.
LEMMA OfferFacts ==
    ASSUME Inv, ~SharedRoots, NEW h \in Usable("value"), NEW into \in DOMAIN heap,
           NEW spare, NEW g \in Offer(h, into, spare)
    PROVE  OfferMade(g, into, spare)
<1>1. PICK v : v = ValueOf(h)
  OBVIOUS
<1>2. /\ h \in Used(m_Handles) /\ v = m_Handles[h].value /\ v \in DOMAIN heap
      /\ Handles = Used(m_Handles) /\ Sound(heap, m_Handles, lost)
      /\ Listed(m_Handles, m_OldHandles)
  BY <1>1, UsableFacts, InvFacts DEF Inv
<1>3. CASE heap[v].parent # NoValue
  <2>1. PICK f \in Copies(v, spare) :
            g = [mem |-> json_value_deep_copy(heap, v, f), value |-> f[v], table |-> m_Handles]
    BY <1>1, <1>3 DEF Offer
  <2>2. g.mem = json_value_deep_copy(heap, v, f) /\ g.value = f[v] /\ g.table = m_Handles
    BY <2>1
  <2>3. /\ CopyOf(heap, v, f) /\ Range(f) \subseteq Fresh \ spare
        /\ Unnamed(m_Handles, Range(f))
    BY <1>2, FreshCopy
  <2>4. PICK G : G = g.mem
    OBVIOUS
  <2>5. /\ Sound(G, m_Handles, lost \cup {f[v]}) /\ Root(G, f[v]) /\ Extends(heap, G)
        /\ DOMAIN G = DOMAIN heap \cup Range(f) /\ Tree(G, f[v]) \subseteq Range(f)
    <3>1. CopyMade(heap, m_Handles, lost, v, f, G)
      BY <1>2, <2>2, <2>3, <2>4, SoundCopy
    <3>2. QED
      BY <3>1 DEF CopyMade
  <2>6. into \notin Tree(G, f[v])
    BY <2>3, <2>5, InvFacts
  <2>7. \A w \in Fresh : Unnamed(m_Handles, {w})
    BY InvFacts
  <2>8. QED
    BY <1>2, <2>2, <2>3, <2>4, <2>5, <2>6, <2>7 DEF OfferMade
<1>4. CASE heap[v].parent = NoValue
  <2>1. /\ g = [mem |-> heap, value |-> v,
                table |-> [m_Handles EXCEPT ![h].must_be_freed = FALSE]]
        /\ MayInsertRoot(h, into)
    BY <1>1, <1>4 DEF Offer
  <2>2. PICK u : u = [m_Handles EXCEPT ![h].must_be_freed = FALSE]
    OBVIOUS
  <2>3. g.mem = heap /\ g.value = v /\ g.table = u
    BY <2>1, <2>2
  <2>4. into \notin Tree(heap, v) /\ NoOtherOwner(m_Handles, h)
    BY <1>1, <1>2, <2>1 DEF MayInsertRoot, ValueOf, NoOtherOwner
  <2>5. Root(heap, m_Handles[h].value)
    BY <1>2, <1>4 DEF Root
  <2>6. /\ Sound(heap, u, lost \cup {m_Handles[h].value}) /\ DOMAIN u = DOMAIN m_Handles
        /\ Used(u) = Used(m_Handles)
        /\ \A k \in Used(m_Handles) : u[k].value = m_Handles[k].value
    <3>1. Given(heap, m_Handles, lost, h, u)
      BY <1>2, <2>2, <2>4, <2>5, SoundGive
    <3>2. QED
      BY <3>1 DEF Given
  <2>7. Listed(u, m_OldHandles)
    BY <1>2, <2>6 DEF Listed
  <2>8. \A w \in Fresh : Unnamed(u, {w})
    <3>1. \A w \in Fresh : Unnamed(m_Handles, {w})
      BY InvFacts
    <3>2. QED
      BY <2>6, <3>1 DEF Unnamed
  <2>9. QED
    BY <1>2, <2>3, <2>4, <2>5, <2>6, <2>7, <2>8 DEF OfferMade, Extends
<1>5. QED
  BY <1>3, <1>4

\* A root that nobody owns, v, has gone into c.
PutDone(H, t, l, c, new, v, G) ==
    /\ Sound(G, t, Left(G, l)) /\ SetDone(H, c, new, G)
    /\ \A w : Root(G, w) <=> Root(H, w) /\ w # v

\* SetItems with one new item.
LEMMA PutItems ==
    ASSUME NEW H, NEW t, NEW l, Sound(H, t, l), NEW v \in l, NEW c \in DOMAIN H,
           c \notin Tree(H, v), NEW new, NewItems(H[c].kind, H[c].items, new, v),
           v \in Range(new), NEW G, G = SetItems(H, c, new)
    PROVE  PutDone(H, t, l, c, new, v, G)
<1>1. Good(H) /\ ForestIn(H) /\ Typed(H) /\ Root(H, v)
  BY DEF Sound, Good, Owned
<1>2. SetReady(H, c, new, {v})
  BY <1>1 DEF SetReady, NewItems
<1>3. Sound(G, t, Left(G, l)) /\ SetDone(H, c, new, G)
  <2>1. {v} \subseteq l
    OBVIOUS
  <2>2. QED
    BY <1>2, <2>1, SoundSet
<1>4. \A w : Root(G, w) <=> Root(H, w) /\ w \notin Range(new)
  BY <1>3 DEF SetDone
<1>5. \A w \in Range(H[c].items) : ~Root(H, w)
  BY <1>1, NullsAssumption DEF ForestIn, Typed, Root
<1>6. \A w \in Range(new) : w = v \/ ~Root(H, w)
  BY <1>5 DEF NewItems
<1>7. QED
  BY <1>3, <1>4, <1>6 DEF PutDone

\* Items are only taken out.
LEMMA TakeItems ==
    ASSUME NEW H, NEW t, NEW l, Sound(H, t, l), NEW c \in DOMAIN H,
           NEW new, NewItems(H[c].kind, H[c].items, new, NoValue), NEW G, G = SetItems(H, c, new)
    PROVE  Sound(G, t, l)
<1>1. Good(H) /\ ForestIn(H) /\ Typed(H) /\ \A v \in l : Root(H, v)
  BY DEF Sound, Good, Owned
<1>2. Range(new) \subseteq Range(H[c].items)
  BY NullsAssumption DEF NewItems, ItemsFit
<1>3. SetReady(H, c, new, {})
  BY <1>1, <1>2 DEF SetReady, NewItems
<1>4. Sound(G, t, Left(G, l)) /\ SetDone(H, c, new, G)
  <2>1. {} \subseteq l
    OBVIOUS
  <2>2. QED
    BY <1>3, <2>1, SoundSet
<1>5. \A w : Root(G, w) <=> Root(H, w) /\ w \notin Range(new)
  BY <1>4 DEF SetDone
<1>6. \A w \in Range(H[c].items) : ~Root(H, w)
  BY <1>1, NullsAssumption DEF ForestIn, Typed, Root
<1>7. Left(G, l) = l
  BY <1>1, <1>2, <1>5, <1>6 DEF Left
<1>8. QED
  BY <1>4, <1>7

\* A root v that nobody owns is put under a dotted name, or refused.
DotDone(H, t, l, o, outer, v, G) ==
    /\ Sound(G, t, Left(G, l))
    /\ outer \notin DOMAIN H[o].items \/ H[H[o].items[outer]].kind = "object"
       => \A w : Root(G, w) <=> Root(H, w) /\ w # v

\* The member outer is missing: a new object p is made for it.
LEMMA DotNew ==
    ASSUME NEW H, NEW t, NEW l, Sound(H, t, l), NEW v \in l, NEW o \in DOMAIN H,
           H[o].kind = "object", o \notin Tree(H, v), NEW outer \in Name, NEW inner \in Name,
           NEW p \in Value \ DOMAIN H, Unnamed(t, {p}), NEW I, NEW F, NEW G,
           I = json_value_init(H, p, "object"), F = SetItems(I, o, Assign(H[o].items, outer, p)),
           G = SetItems(F, p, Assign(<<>>, inner, v))
    PROVE  Sound(G, t, Left(G, l)) /\ \A w : Root(G, w) <=> Root(H, w) /\ w # v
<1>1. /\ Good(H) /\ ForestIn(H) /\ Typed(H) /\ Root(H, v) /\ "object" \in Kinds
      /\ \A w \in l : Root(H, w)
  BY DEF Sound, Good, Owned, Kinds
<1>2. /\ DOMAIN I = DOMAIN H \cup {p} /\ Extends(H, I)
      /\ I[p] = [kind |-> "object", parent |-> NoValue, items |-> <<>>]
      /\ \A w : Root(I, w) <=> Root(H, w) \/ w = p
      /\ Tree(I, p) = {p}
      /\ \A w \in DOMAIN H : Tree(I, w) = Tree(H, w)
  <2>1. InitDone(H, p, "object", I)
    BY <1>1, InitGood
  <2>2. QED
    BY <2>1 DEF InitDone
<1>3. Sound(I, t, l \cup {p})
  BY <1>1, SoundInit
<1>4. PICK new : new = Assign(H[o].items, outer, p)
  OBVIOUS
<1>5. p \notin Range(H[o].items) /\ ItemsFit("object", H[o].items) /\ Distinct(H[o].items)
  BY <1>1 DEF ForestIn, Typed
<1>6. I[o].items = H[o].items /\ I[o].kind = "object" /\ o \in DOMAIN I /\ o # p
  BY <1>2 DEF Extends
<1>7. NewItems("object", H[o].items, new, p) /\ p \in Range(new)
  BY <1>4, <1>5, MemberItems
<1>8. PutDone(I, t, l \cup {p}, o, new, p, F)
  <2>1. o \notin Tree(I, p) /\ p \in l \cup {p} /\ NewItems(I[o].kind, I[o].items, new, p)
    BY <1>2, <1>6, <1>7
  <2>2. F = SetItems(I, o, new)
    BY <1>4
  <2>3. QED
    BY <1>3, <1>6, <1>7, <2>1, <2>2, PutItems
<1>9. /\ Sound(F, t, Left(F, l \cup {p}))
      /\ \A w : Root(F, w) <=> Root(I, w) /\ w # p
      /\ SetDone(I, o, new, F)
  BY <1>8 DEF PutDone
<1>10. \A w : Root(F, w) <=> Root(H, w)
  BY <1>1, <1>2, <1>9 DEF Root
<1>11. Left(F, l \cup {p}) = l
  BY <1>1, <1>9, <1>10 DEF Left
<1>12. p \in DOMAIN F /\ F[p].kind = "object" /\ F[p].items = <<>>
  <2>1. p \in DOMAIN F
    BY <1>7, <1>9 DEF SetDone
  <2>2. F[p] = [kind |-> I[p].kind, parent |-> o, items |-> I[p].items]
    BY <1>6, <1>7, <1>9, <2>1 DEF SetDone
  <2>3. QED
    BY <1>2, <2>1, <2>2
<1>13. p \notin Tree(F, v)
  <2>1. v \in DOMAIN I /\ o \notin Tree(I, v) /\ Tree(I, v) \subseteq DOMAIN H
    BY <1>1, <1>2, GoodTree DEF Root
  <2>2. Tree(F, v) \subseteq Tree(I, v)
    BY <1>9, <2>1 DEF SetDone
  <2>3. QED
    BY <2>1, <2>2
<1>14. PICK one : one = Assign(<<>>, inner, v)
  OBVIOUS
<1>15. NewItems("object", <<>>, one, v) /\ v \in Range(one)
  <2>1. v \in Value /\ v \notin Range(<<>>) /\ ItemsFit("object", <<>>) /\ Distinct(<<>>)
    BY <1>1, EmptyItems DEF Root, Typed
  <2>2. QED
    BY <1>14, <2>1, MemberItems
<1>16. PutDone(F, t, l, p, one, v, G)
  <2>1. NewItems(F[p].kind, F[p].items, one, v) /\ G = SetItems(F, p, one) /\ Sound(F, t, l)
    BY <1>9, <1>11, <1>12, <1>14, <1>15
  <2>2. QED
    BY <1>12, <1>13, <1>15, <2>1, PutItems
<1>17. QED
  BY <1>10, <1>16 DEF PutDone

\* All three outcomes of json_object_dotset_value.
LEMMA DotSetDone ==
    ASSUME NEW H, NEW t, NEW l, Sound(H, t, l), NEW v \in l, NEW o \in DOMAIN H,
           H[o].kind = "object", o \notin Tree(H, v), NEW outer \in Name, NEW inner \in Name,
           NEW p, outer \notin DOMAIN H[o].items => p \in Value \ DOMAIN H /\ Unnamed(t, {p}),
           NEW G, G = DotSet(H, o, outer, inner, p, v)
    PROVE  DotDone(H, t, l, o, outer, v, G)
<1>1. /\ Good(H) /\ ForestIn(H) /\ Typed(H) /\ Root(H, v) /\ \A w \in l : Root(H, w)
  BY DEF Sound, Good, Owned
<1>2. CASE outer \notin DOMAIN H[o].items
  <2>1. PICK I, F : /\ I = json_value_init(H, p, "object")
                    /\ F = SetItems(I, o, Assign(H[o].items, outer, p))
    OBVIOUS
  <2>2. G = SetItems(F, p, Assign(<<>>, inner, v))
    BY <1>2, <2>1 DEF DotSet
  <2>3. Sound(G, t, Left(G, l)) /\ \A w : Root(G, w) <=> Root(H, w) /\ w # v
    BY <1>2, <2>1, <2>2, DotNew
  <2>4. QED
    BY <2>3 DEF DotDone
<1>3. CASE outer \in DOMAIN H[o].items
  <2>1. PICK q : q = H[o].items[outer]
    OBVIOUS
  <2>2. q \in Range(H[o].items)
    BY <1>3, <2>1 DEF Range
  <2>3. q \in DOMAIN H /\ H[q].parent = o /\ o # NoValue
    BY <1>1, <2>2, NullsAssumption DEF ForestIn, Typed
  <2>4. CASE H[q].kind = "object"
    <3>1. PICK new : new = Assign(H[q].items, inner, v)
      OBVIOUS
    <3>2. G = SetItems(H, q, new)
      BY <1>3, <2>1, <2>4, <3>1 DEF DotSet
    <3>3. q \notin Tree(H, v)
      <4>1. q # v
        BY <1>1, <2>3 DEF Root
      <4>2. QED
        BY <1>1, <2>3, <4>1, GoodTree DEF Root
    <3>4. ItemsFit("object", H[q].items) /\ Distinct(H[q].items) /\ v \in Value
      BY <1>1, <2>3, <2>4 DEF Typed, ForestIn, Root
    <3>5. v \notin Range(H[q].items)
      BY <1>1, <2>3, NullsAssumption DEF ForestIn, Typed, Root
    <3>6. NewItems("object", H[q].items, new, v) /\ v \in Range(new)
      BY <3>1, <3>4, <3>5, MemberItems
    <3>7. PutDone(H, t, l, q, new, v, G)
      BY <2>3, <2>4, <3>2, <3>3, <3>6, PutItems
    <3>8. QED
      BY <3>7 DEF PutDone, DotDone
  <2>5. CASE H[q].kind # "object"
    <3>1. G = H
      BY <1>3, <2>1, <2>5 DEF DotSet
    <3>2. Left(H, l) = l
      BY <1>1 DEF Left
    <3>3. QED
      BY <1>3, <2>1, <2>5, <3>1, <3>2 DEF DotDone
  <2>6. QED
    BY <2>4, <2>5
<1>4. QED
  BY <1>2, <1>3

\* InitObject, InitArray, InitString, InitNum, InitBool, InitNull
LEMMA InitValueStep ==
    ASSUME Inv, NEW kind \in Kinds, InitValue(kind)
    PROVE  Inv' /\ Grown
<1>1. PICK v \in Fresh : heap' = json_value_init(heap, v, kind) /\ MakeHandle(heap', v, TRUE)
  BY DEF InitValue
<1>2. PICK G : G = heap'
  OBVIOUS
<1>3. v \in Value \ DOMAIN heap /\ Unnamed(m_Handles, {v}) /\ v \notin lost
  BY InvFacts DEF Root
<1>4. Sound(heap, m_Handles, lost) /\ lost' = lost
  BY DEF Inv, InitValue
<1>5. Sound(G, m_Handles, lost \cup {v})
  BY <1>1, <1>2, <1>3, <1>4, SoundInit
<1>6. v \in DOMAIN G /\ MakeHandle(G, v, TRUE)
  BY <1>1, <1>2 DEF json_value_init
<1>7. /\ Sound(G, m_Handles', (lost \cup {v}) \ {v}) /\ Listed(m_Handles', m_OldHandles')
      /\ Grown
  BY <1>5, <1>6, HandleMade
<1>8. (lost \cup {v}) \ {v} = lost
  BY <1>3
<1>9. QED
  BY <1>2, <1>4, <1>7, <1>8 DEF Inv

\* Parse
LEMMA ParseStep ==
    ASSUME Inv, NEW kind \in {"array", "object"}, Parse(kind)
    PROVE  Inv' /\ Grown
<1>1. PICK v, w, key :
          /\ v \in Fresh /\ w \in Fresh \ {v} /\ key \in IF kind = "array" THEN {1} ELSE Name
          /\ heap' = SetItems(json_value_init(json_value_init(heap, v, kind), w, "scalar"),
                              v, Assign(<<>>, key, w))
          /\ MakeHandle(heap', v, TRUE)
  BY DEF Parse
<1>2. PICK G, I, H, one : /\ G = heap' /\ I = json_value_init(heap, v, kind)
                          /\ H = json_value_init(I, w, "scalar") /\ one = Assign(<<>>, key, w)
  OBVIOUS
<1>3. /\ v \in Value \ DOMAIN heap /\ Unnamed(m_Handles, {v}) /\ v \notin lost
      /\ w \in Value \ DOMAIN heap /\ Unnamed(m_Handles, {w}) /\ w \notin lost
      /\ Good(heap) /\ kind \in Kinds /\ "scalar" \in Kinds /\ w # v
  BY <1>1, InvFacts DEF Root, Kinds
<1>4. Sound(heap, m_Handles, lost) /\ lost' = lost /\ \A x \in lost : Root(heap, x)
  BY InvFacts DEF Inv, Parse
<1>5. Sound(I, m_Handles, lost \cup {v}) /\ InitDone(heap, v, kind, I)
  BY <1>2, <1>3, <1>4, SoundInit, InitGood
<1>6. w \in Value \ DOMAIN I /\ Good(I)
  BY <1>3, <1>5 DEF InitDone
<1>7. Sound(H, m_Handles, (lost \cup {v}) \cup {w}) /\ InitDone(I, w, "scalar", H)
  BY <1>2, <1>3, <1>5, <1>6, SoundInit, InitGood
<1>8. v \in DOMAIN H /\ H[v].kind = kind /\ H[v].items = <<>> /\ v \notin Tree(H, w)
  BY <1>5, <1>7 DEF InitDone, Extends
<1>9. NewItems(kind, <<>>, one, w) /\ w \in Range(one)
  <2>1. ItemsFit(kind, <<>>) /\ Distinct(<<>>) /\ w \notin Range(<<>>) /\ w \in Value
    BY <1>3, EmptyItems
  <2>2. KeyFits(kind, <<>>, key)
    BY <1>1 DEF KeyFits
  <2>3. QED
    BY <1>2, <2>1, <2>2, AssignItems
<1>10. PutDone(H, m_Handles, (lost \cup {v}) \cup {w}, v, one, w, G)
  <2>1. G = SetItems(H, v, one) /\ w \in (lost \cup {v}) \cup {w}
    BY <1>1, <1>2
  <2>2. NewItems(H[v].kind, H[v].items, one, w)
    BY <1>8, <1>9
  <2>3. QED
    BY <1>7, <1>8, <1>9, <2>1, <2>2, PutItems
<1>11. \A x : Root(G, x) <=> Root(heap, x) \/ x = v
  <2>1. \A x : Root(G, x) <=> (Root(heap, x) \/ x = v \/ x = w) /\ x # w
    BY <1>5, <1>7, <1>10 DEF InitDone, PutDone
  <2>2. QED
    BY <1>3, <2>1 DEF Root
<1>12. Left(G, (lost \cup {v}) \cup {w}) = lost \cup {v}
  BY <1>3, <1>4, <1>11 DEF Left, Root
<1>13. Sound(G, m_Handles, lost \cup {v}) /\ v \in DOMAIN G /\ MakeHandle(G, v, TRUE)
  BY <1>1, <1>2, <1>10, <1>11, <1>12 DEF PutDone, Root
<1>14. /\ Sound(G, m_Handles', (lost \cup {v}) \ {v}) /\ Listed(m_Handles', m_OldHandles')
       /\ Grown
  BY <1>13, HandleMade
<1>15. (lost \cup {v}) \ {v} = lost
  BY <1>3
<1>16. QED
  BY <1>2, <1>4, <1>14, <1>15 DEF Inv

\* DeepCopyValue
LEMMA DeepCopyStep ==
    ASSUME Inv, NEW h \in Usable("value"), DeepCopyValue(h)
    PROVE  Inv' /\ Grown
<1>1. PICK v : v = ValueOf(h) /\ v \in DOMAIN heap
  BY UsableFacts
<1>2. PICK f \in Copies(v, {}) :
          heap' = json_value_deep_copy(heap, v, f) /\ MakeHandle(heap', f[v], TRUE)
  BY <1>1 DEF DeepCopyValue
<1>3. PICK G, x : G = heap' /\ x = f[v]
  OBVIOUS
<1>4. CopyOf(heap, v, f) /\ Unnamed(m_Handles, Range(f)) /\ x \in Fresh
  BY <1>1, <1>3, FreshCopy
<1>5. Sound(heap, m_Handles, lost) /\ lost' = lost /\ x \notin lost
  BY <1>4, InvFacts DEF Inv, DeepCopyValue, Root
<1>6. CopyMade(heap, m_Handles, lost, v, f, G)
  BY <1>2, <1>3, <1>4, <1>5, SoundCopy
<1>7. Sound(G, m_Handles, lost \cup {x}) /\ x \in DOMAIN G /\ MakeHandle(G, x, TRUE)
  BY <1>2, <1>3, <1>6 DEF CopyMade, Root
<1>8. /\ Sound(G, m_Handles', (lost \cup {x}) \ {x}) /\ Listed(m_Handles', m_OldHandles')
      /\ Grown
  BY <1>7, HandleMade
<1>9. (lost \cup {x}) \ {x} = lost
  BY <1>5
<1>10. QED
  BY <1>3, <1>5, <1>8, <1>9 DEF Inv

\* A handle that frees nothing is made for a value that exists.
LEMMA LookStep ==
    ASSUME Inv, NEW v \in DOMAIN heap, MakeHandle(heap, v, FALSE), UNCHANGED <<heap, lost>>
    PROVE  Inv' /\ Grown
<1>1. Sound(heap, m_Handles, lost)
  BY DEF Inv
<1>2. Sound(heap, m_Handles', lost) /\ Listed(m_Handles', m_OldHandles') /\ Grown
  BY <1>1, HandleMade
<1>3. QED
  BY <1>2 DEF Inv

\* GetValueParent, ArrayGetValue, ObjectGetValue, ObjectGetValueAt
LEMMA LookSteps ==
    ASSUME Inv, NEW type, NEW h \in Usable(type),
           GetValueParent(h) \/ GetItem(h) \/ ObjectDotGetValue(h)
    PROVE  Inv' /\ Grown
<1>1. ValueOf(h) \in DOMAIN heap /\ ForestIn(heap)
  BY UsableFacts DEF Inv, Sound, Good
<1>2. CASE GetValueParent(h)
  <2>1. heap[ValueOf(h)].parent \in DOMAIN heap
    BY <1>1, <1>2 DEF ForestIn, GetValueParent
  <2>2. QED
    BY <1>2, <2>1, LookStep DEF GetValueParent
<1>3. CASE GetItem(h)
  <2>1. PICK v \in Range(heap[ValueOf(h)].items) : MakeHandle(heap, v, FALSE)
    BY <1>3 DEF GetItem
  <2>2. v \in DOMAIN heap
    BY <1>1 DEF ForestIn
  <2>3. QED
    BY <1>3, <2>1, <2>2, LookStep DEF GetItem
<1>4. CASE ObjectDotGetValue(h)
  <2>1. PICK o, v : /\ o \in Range(heap[ValueOf(h)].items) /\ v \in Range(heap[o].items)
                    /\ MakeHandle(heap, v, FALSE)
    BY <1>4 DEF ObjectDotGetValue
  <2>2. o \in DOMAIN heap
    BY <1>1, <2>1 DEF ForestIn
  <2>3. v \in DOMAIN heap
    BY <1>1, <2>1, <2>2 DEF ForestIn
  <2>4. QED
    BY <1>4, <2>1, <2>3, LookStep DEF ObjectDotGetValue
<1>5. QED
  BY <1>2, <1>3, <1>4

\* A new scalar v goes into c.
LEMMA ScalarPut ==
    ASSUME Inv, NEW v \in Fresh, NEW c \in DOMAIN heap, NEW new,
           NewItems(heap[c].kind, heap[c].items, new, v), v \in Range(new),
           heap' = SetItems(json_value_init(heap, v, "scalar"), c, new),
           UNCHANGED <<m_Handles, m_OldHandles, lost>>
    PROVE  Inv' /\ Grown
<1>1. PICK G, I : G = heap' /\ I = json_value_init(heap, v, "scalar")
  OBVIOUS
<1>2. /\ v \in Value \ DOMAIN heap /\ Unnamed(m_Handles, {v}) /\ v \notin lost
      /\ Good(heap) /\ "scalar" \in Kinds /\ \A x \in lost : Root(heap, x)
  BY InvFacts DEF Root, Kinds
<1>3. Sound(heap, m_Handles, lost)
  BY DEF Inv
<1>4. Sound(I, m_Handles, lost \cup {v}) /\ InitDone(heap, v, "scalar", I)
  BY <1>1, <1>2, <1>3, SoundInit, InitGood
<1>5. c \in DOMAIN I /\ I[c] = heap[c] /\ c \notin Tree(I, v)
  BY <1>2, <1>4 DEF InitDone, Extends
<1>6. PutDone(I, m_Handles, lost \cup {v}, c, new, v, G)
  <2>1. NewItems(I[c].kind, I[c].items, new, v) /\ G = SetItems(I, c, new) /\ v \in lost \cup {v}
    BY <1>1, <1>5
  <2>2. QED
    BY <1>4, <1>5, <2>1, PutItems
<1>7. Left(G, lost \cup {v}) = lost
  BY <1>2, <1>4, <1>6 DEF InitDone, PutDone, Left
<1>8. QED
  BY <1>1, <1>6, <1>7 DEF Inv, PutDone, Grown

\* An offered value goes into c.
LEMMA ValuePut ==
    ASSUME Inv, NEW c \in DOMAIN heap, NEW spare, NEW g, OfferMade(g, c, spare), NEW new,
           NewItems(heap[c].kind, heap[c].items, new, g.value), g.value \in Range(new),
           heap' = SetItems(g.mem, c, new), Offered(g)
    PROVE  Inv' /\ Grown
<1>1. PICK G, H, v, t, l : G = heap' /\ H = g.mem /\ v = g.value /\ t = g.table
                            /\ l = lost \cup {v}
  OBVIOUS
<1>2. /\ Sound(H, t, l) /\ Extends(heap, H) /\ c \notin Tree(H, v)
      /\ Listed(t, m_OldHandles) /\ DOMAIN t = DOMAIN m_Handles
  BY <1>1 DEF OfferMade
<1>3. c \in DOMAIN H /\ NewItems(H[c].kind, H[c].items, new, v) /\ G = SetItems(H, c, new)
  BY <1>1, <1>2 DEF Extends
<1>4. PutDone(H, t, l, c, new, v, G)
  BY <1>1, <1>2, <1>3, PutItems
<1>5. lost' = Left(G, l) /\ m_Handles' = t /\ m_OldHandles' = m_OldHandles
  BY <1>1 DEF Offered, Left, Root
<1>6. QED
  BY <1>1, <1>2, <1>4, <1>5 DEF Inv, PutDone, Grown

\* Items of c are freed.
LEMMA ItemsTaken ==
    ASSUME Inv, NEW c \in DOMAIN heap, NEW new,
           NewItems(heap[c].kind, heap[c].items, new, NoValue), heap' = SetItems(heap, c, new),
           UNCHANGED <<m_Handles, m_OldHandles, lost>>
    PROVE  Inv' /\ Grown
<1>1. PICK G : G = heap'
  OBVIOUS
<1>2. Sound(heap, m_Handles, lost)
  BY DEF Inv
<1>3. Sound(G, m_Handles, lost)
  BY <1>1, <1>2, TakeItems
<1>4. QED
  BY <1>1, <1>3 DEF Inv, Grown

\* The offered value and the items of the container, before.
LEMMA OfferedIsNew ==
    ASSUME Inv, NEW c \in DOMAIN heap, NEW spare, NEW g, OfferMade(g, c, spare)
    PROVE  g.value \in Value /\ g.value \notin Range(heap[c].items)
<1>1. ForestIn(heap) /\ Typed(heap) /\ Extends(heap, g.mem) /\ Root(g.mem, g.value)
  BY DEF Inv, Sound, Good, OfferMade
<1>2. Typed(g.mem)
  BY DEF OfferMade, Sound, Good
<1>3. \A w \in Range(heap[c].items) : w \in DOMAIN heap /\ heap[w].parent # NoValue
  BY <1>1, NullsAssumption DEF ForestIn, Typed
<1>4. QED
  BY <1>1, <1>2, <1>3 DEF Extends, Root, Typed

\* ArrayReplaceValue: the index may not exist, and then the value is lost.
LEMMA ArrayReplaceStep ==
    ASSUME Inv, ~SharedRoots, NEW array \in Usable("array"), NEW index \in 1 .. MaxItems,
           NEW value \in Usable("value"), ArrayReplaceValue(array, index, value)
    PROVE  Inv' /\ Grown
<1>1. PICK a : a = ValueOf(array)
  OBVIOUS
<1>2. /\ a \in DOMAIN heap /\ heap[a].kind = "array" /\ ItemsFit("array", heap[a].items)
      /\ Distinct(heap[a].items)
  BY <1>1, UsableFacts
<1>3. PICK g \in Offer(value, a, {}) :
          /\ heap' = IF index \in DOMAIN heap[a].items
                     THEN SetItems(g.mem, a, Assign(heap[a].items, index, g.value))
                     ELSE g.mem
          /\ Offered(g)
  BY <1>1 DEF ArrayReplaceValue
<1>4. OfferMade(g, a, {})
  BY <1>2, OfferFacts
<1>5. CASE index \in DOMAIN heap[a].items
  <2>1. PICK new : new = Assign(heap[a].items, index, g.value)
    OBVIOUS
  <2>2. g.value \in Value /\ g.value \notin Range(heap[a].items)
    BY <1>2, <1>4, OfferedIsNew
  <2>3. NewItems("array", heap[a].items, new, g.value) /\ g.value \in Range(new)
    BY <1>2, <1>5, <2>1, <2>2, ReplaceItems
  <2>4. QED
    BY <1>2, <1>3, <1>4, <1>5, <2>1, <2>3, ValuePut
<1>6. CASE index \notin DOMAIN heap[a].items
  <2>1. PICK G, l : G = heap' /\ l = lost \cup {g.value}
    OBVIOUS
  <2>2. G = g.mem /\ Sound(G, g.table, l)
    BY <1>3, <1>4, <1>6, <2>1 DEF OfferMade
  <2>3. lost' = l /\ m_Handles' = g.table /\ m_OldHandles' = m_OldHandles
    <3>1. \A w \in l : Root(G, w)
      BY <2>2 DEF Sound, Owned
    <3>2. QED
      BY <1>3, <2>1, <3>1 DEF Offered, Root
  <2>4. QED
    BY <1>4, <2>1, <2>2, <2>3 DEF Inv, Grown, OfferMade
<1>7. QED
  BY <1>5, <1>6

\* ArrayAppendValue
LEMMA ArrayAppendStep ==
    ASSUME Inv, ~SharedRoots, NEW array \in Usable("array"),
           NEW value \in Usable("value"), ArrayAppendValue(array, value)
    PROVE  Inv' /\ Grown
<1>1. PICK a : a = ValueOf(array)
  OBVIOUS
<1>2. /\ a \in DOMAIN heap /\ heap[a].kind = "array" /\ ItemsFit("array", heap[a].items)
      /\ Distinct(heap[a].items)
  BY <1>1, UsableFacts
<1>3. PICK g \in Offer(value, a, {}) :
          heap' = SetItems(g.mem, a, Append(heap[a].items, g.value)) /\ Offered(g)
  BY <1>1 DEF ArrayAppendValue
<1>4. Len(heap[a].items) < MaxItems
  BY <1>1 DEF ArrayAppendValue
<1>5. OfferMade(g, a, {})
  BY <1>2, OfferFacts
<1>6. PICK new : new = Append(heap[a].items, g.value)
  OBVIOUS
<1>7. g.value \in Value /\ g.value \notin Range(heap[a].items)
  BY <1>2, <1>5, OfferedIsNew
<1>8. NewItems("array", heap[a].items, new, g.value) /\ g.value \in Range(new)
  BY <1>2, <1>4, <1>6, <1>7, AppendItems
<1>9. QED
  BY <1>2, <1>3, <1>5, <1>6, <1>8, ValuePut

\* ObjectSetValue
LEMMA ObjectSetStep ==
    ASSUME Inv, ~SharedRoots, NEW object \in Usable("object"), NEW name \in Name,
           NEW value \in Usable("value"), ObjectSetValue(object, name, value)
    PROVE  Inv' /\ Grown
<1>1. PICK o : o = ValueOf(object)
  OBVIOUS
<1>2. /\ o \in DOMAIN heap /\ heap[o].kind = "object" /\ ItemsFit("object", heap[o].items)
      /\ Distinct(heap[o].items)
  BY <1>1, UsableFacts
<1>3. PICK g \in Offer(value, o, {}) :
          heap' = SetItems(g.mem, o, Assign(heap[o].items, name, g.value)) /\ Offered(g)
  BY <1>1 DEF ObjectSetValue
<1>4. OfferMade(g, o, {})
  BY <1>2, OfferFacts
<1>5. PICK new : new = Assign(heap[o].items, name, g.value)
  OBVIOUS
<1>6. g.value \in Value /\ g.value \notin Range(heap[o].items)
  BY <1>2, <1>4, OfferedIsNew
<1>7. NewItems("object", heap[o].items, new, g.value) /\ g.value \in Range(new)
  BY <1>2, <1>5, <1>6, MemberItems
<1>8. QED
  BY <1>2, <1>3, <1>4, <1>5, <1>7, ValuePut

\* ObjectSetValue with a dotted name: the value may be lost.
LEMMA ObjectDotSetStep ==
    ASSUME Inv, ~SharedRoots, NEW object \in Usable("object"), NEW outer \in Name,
           NEW inner \in Name, NEW value \in Usable("value"),
           ObjectDotSetValue(object, outer, inner, value)
    PROVE  Inv' /\ Grown
<1>1. PICK o : o = ValueOf(object)
  OBVIOUS
<1>2. o \in DOMAIN heap /\ heap[o].kind = "object"
  BY <1>1, UsableFacts
<1>3. PICK p, g : /\ p \in IF outer \in DOMAIN heap[o].items THEN {NoValue} ELSE Fresh
                  /\ g \in Offer(value, o, {p})
                  /\ heap' = DotSet(g.mem, o, outer, inner, p, g.value) /\ Offered(g)
  BY <1>1 DEF ObjectDotSetValue
<1>4. OfferMade(g, o, {p})
  BY <1>2, <1>3, OfferFacts
<1>5. PICK G, H, v, t, l : G = heap' /\ H = g.mem /\ v = g.value /\ t = g.table
                            /\ l = lost \cup {v}
  OBVIOUS
<1>6. /\ Sound(H, t, l) /\ o \notin Tree(H, v) /\ Extends(heap, H)
      /\ DOMAIN H \subseteq DOMAIN heap \cup (Fresh \ {p})
      /\ Listed(t, m_OldHandles) /\ DOMAIN t = DOMAIN m_Handles
      /\ \A w \in Fresh : Unnamed(t, {w})
  BY <1>4, <1>5 DEF OfferMade
<1>7. o \in DOMAIN H /\ H[o] = heap[o]
  BY <1>2, <1>6 DEF Extends
<1>8. outer \notin DOMAIN H[o].items => p \in Value \ DOMAIN H /\ Unnamed(t, {p})
  BY <1>3, <1>6, <1>7, InvFacts
<1>9. DotDone(H, t, l, o, outer, v, G)
  <2>1. G = DotSet(H, o, outer, inner, p, v) /\ H[o].kind = "object" /\ v \in l
    BY <1>2, <1>3, <1>5, <1>7
  <2>2. QED
    BY <1>6, <1>7, <1>8, <2>1, DotSetDone
<1>10. lost' = Left(G, l) /\ m_Handles' = t /\ m_OldHandles' = m_OldHandles
  BY <1>3, <1>5 DEF Offered, Left, Root
<1>11. QED
  BY <1>5, <1>6, <1>9, <1>10 DEF Inv, DotDone, Grown

\* ObjectSetString, ObjectSetNum, ObjectSetBool, ObjectSetNull with a dotted name
LEMMA ObjectDotSetScalarStep ==
    ASSUME Inv, NEW object \in Usable("object"), NEW outer \in Name, NEW inner \in Name,
           ObjectDotSetScalar(object, outer, inner)
    PROVE  Inv' /\ Grown
<1>1. PICK o : o = ValueOf(object)
  OBVIOUS
<1>2. o \in DOMAIN heap /\ heap[o].kind = "object"
  BY <1>1, UsableFacts
<1>3. PICK v, p : /\ v \in Fresh
                  /\ p \in IF outer \notin DOMAIN heap[o].items THEN Fresh \ {v} ELSE {NoValue}
                  /\ heap' = DotSet(json_value_init(heap, v, "scalar"), o, outer, inner, p, v)
  BY <1>1 DEF ObjectDotSetScalar
<1>4. /\ UNCHANGED <<m_Handles, m_OldHandles, lost>>
      /\ outer \in DOMAIN heap[o].items => heap[heap[o].items[outer]].kind = "object"
  BY <1>1 DEF ObjectDotSetScalar
<1>5. PICK G, H : G = heap' /\ H = json_value_init(heap, v, "scalar")
  OBVIOUS
<1>6. /\ v \in Value \ DOMAIN heap /\ Unnamed(m_Handles, {v}) /\ v \notin lost
      /\ Good(heap) /\ "scalar" \in Kinds /\ \A x \in lost : Root(heap, x)
  BY <1>3, InvFacts DEF Root, Kinds
<1>7. Sound(heap, m_Handles, lost)
  BY DEF Inv
<1>8. Sound(H, m_Handles, lost \cup {v}) /\ InitDone(heap, v, "scalar", H)
  BY <1>5, <1>6, <1>7, SoundInit, InitGood
<1>9. o \in DOMAIN H /\ H[o] = heap[o] /\ o \notin Tree(H, v)
  BY <1>2, <1>6, <1>8 DEF InitDone, Extends
<1>10. outer \notin DOMAIN H[o].items => p \in Value \ DOMAIN H /\ Unnamed(m_Handles, {p})
  BY <1>3, <1>8, <1>9, InvFacts DEF InitDone
<1>11. DotDone(H, m_Handles, lost \cup {v}, o, outer, v, G)
  <2>1. G = DotSet(H, o, outer, inner, p, v) /\ H[o].kind = "object" /\ v \in lost \cup {v}
    BY <1>2, <1>3, <1>5, <1>9
  <2>2. QED
    BY <1>8, <1>9, <1>10, <2>1, DotSetDone
<1>12. outer \in DOMAIN H[o].items => H[H[o].items[outer]].kind = "object"
  <2> SUFFICES ASSUME outer \in DOMAIN H[o].items
               PROVE  H[H[o].items[outer]].kind = "object"
    OBVIOUS
  <2>1. heap[o].items[outer] \in DOMAIN heap
    BY <1>2, <1>6, <1>9 DEF Good, ForestIn, Range
  <2>2. QED
    BY <1>4, <1>8, <1>9, <2>1 DEF InitDone, Extends
<1>13. \A w : Root(G, w) <=> Root(H, w) /\ w # v
  BY <1>11, <1>12 DEF DotDone
<1>14. Left(G, lost \cup {v}) = lost
  BY <1>6, <1>8, <1>13 DEF InitDone, Left
<1>15. QED
  BY <1>4, <1>5, <1>11, <1>14 DEF Inv, DotDone, Grown

\* The other natives that insert a scalar.
LEMMA ScalarSteps ==
    ASSUME Inv
    PROVE  /\ \A array \in Usable("array"), index \in 1 .. MaxItems :
                  ArrayReplaceScalar(array, index) => Inv' /\ Grown
           /\ \A array \in Usable("array") : ArrayAppendScalar(array) => Inv' /\ Grown
           /\ \A object \in Usable("object"), name \in Name :
                  ObjectSetScalar(object, name) => Inv' /\ Grown
<1>0. ASSUME NEW c \in DOMAIN heap, NEW v \in Fresh
      PROVE  v \in Value /\ v \notin Range(heap[c].items)
  BY InvFacts DEF Good, ForestIn
<1>1. ASSUME NEW array \in Usable("array"), NEW index \in 1 .. MaxItems,
             ArrayReplaceScalar(array, index)
      PROVE  Inv' /\ Grown
  <2>1. PICK a : a = ValueOf(array)
    OBVIOUS
  <2>2. /\ a \in DOMAIN heap /\ heap[a].kind = "array" /\ ItemsFit("array", heap[a].items)
        /\ Distinct(heap[a].items)
    BY <2>1, UsableFacts
  <2>3. PICK v \in Fresh : heap' = SetItems(json_value_init(heap, v, "scalar"), a,
                                            Assign(heap[a].items, index, v))
    BY <1>1, <2>1 DEF ArrayReplaceScalar
  <2>4. PICK new : new = Assign(heap[a].items, index, v)
    OBVIOUS
  <2>5. NewItems("array", heap[a].items, new, v) /\ v \in Range(new)
    <3>1. index \in DOMAIN heap[a].items
      BY <1>1, <2>1 DEF ArrayReplaceScalar
    <3>2. QED
      BY <1>0, <2>2, <2>4, <3>1, ReplaceItems
  <2>6. QED
    BY <1>1, <2>2, <2>3, <2>4, <2>5, ScalarPut DEF ArrayReplaceScalar
<1>2. ASSUME NEW array \in Usable("array"), ArrayAppendScalar(array)
      PROVE  Inv' /\ Grown
  <2>1. PICK a : a = ValueOf(array)
    OBVIOUS
  <2>2. /\ a \in DOMAIN heap /\ heap[a].kind = "array" /\ ItemsFit("array", heap[a].items)
        /\ Distinct(heap[a].items)
    BY <2>1, UsableFacts
  <2>3. PICK v \in Fresh : heap' = SetItems(json_value_init(heap, v, "scalar"), a,
                                            Append(heap[a].items, v))
    BY <1>2, <2>1 DEF ArrayAppendScalar
  <2>4. PICK new : new = Append(heap[a].items, v)
    OBVIOUS
  <2>5. NewItems("array", heap[a].items, new, v) /\ v \in Range(new)
    <3>1. Len(heap[a].items) < MaxItems
      BY <1>2, <2>1 DEF ArrayAppendScalar
    <3>2. QED
      BY <1>0, <2>2, <2>4, <3>1, AppendItems
  <2>6. QED
    BY <1>2, <2>2, <2>3, <2>4, <2>5, ScalarPut DEF ArrayAppendScalar
<1>3. ASSUME NEW object \in Usable("object"), NEW name \in Name, ObjectSetScalar(object, name)
      PROVE  Inv' /\ Grown
  <2>1. PICK o : o = ValueOf(object)
    OBVIOUS
  <2>2. /\ o \in DOMAIN heap /\ heap[o].kind = "object" /\ ItemsFit("object", heap[o].items)
        /\ Distinct(heap[o].items)
    BY <2>1, UsableFacts
  <2>3. PICK v \in Fresh : heap' = SetItems(json_value_init(heap, v, "scalar"), o,
                                            Assign(heap[o].items, name, v))
    BY <1>3, <2>1 DEF ObjectSetScalar
  <2>4. PICK new : new = Assign(heap[o].items, name, v)
    OBVIOUS
  <2>5. NewItems("object", heap[o].items, new, v) /\ v \in Range(new)
    BY <1>0, <2>2, <2>4, MemberItems
  <2>6. QED
    BY <1>3, <2>2, <2>3, <2>4, <2>5, ScalarPut DEF ObjectSetScalar
<1>4. QED
  BY <1>1, <1>2, <1>3

\* ArrayRemove, ObjectRemove
LEMMA RemoveSteps ==
    ASSUME Inv
    PROVE  /\ \A array \in Usable("array"), index \in 1 .. MaxItems :
                  ArrayRemove(array, index) => Inv' /\ Grown
           /\ \A object \in Usable("object"), name \in Name :
                  ObjectRemove(object, name) => Inv' /\ Grown
           /\ \A object \in Usable("object"), outer, inner \in Name :
                  ObjectDotRemove(object, outer, inner) => Inv' /\ Grown
<1>1. ASSUME NEW array \in Usable("array"), NEW index \in 1 .. MaxItems,
             ArrayRemove(array, index)
      PROVE  Inv' /\ Grown
  <2>1. PICK a, new : a = ValueOf(array) /\ new = RemoveAt(heap[a].items, index)
    OBVIOUS
  <2>2. /\ a \in DOMAIN heap /\ heap[a].kind = "array" /\ ItemsFit("array", heap[a].items)
        /\ Distinct(heap[a].items)
    BY <2>1, UsableFacts
  <2>3. index \in DOMAIN heap[a].items /\ heap' = SetItems(heap, a, new)
    BY <1>1, <2>1 DEF ArrayRemove
  <2>4. NewItems("array", heap[a].items, new, NoValue)
    BY <2>1, <2>2, <2>3, RemoveItems
  <2>5. QED
    BY <1>1, <2>2, <2>3, <2>4, ItemsTaken DEF ArrayRemove
<1>2. ASSUME NEW object \in Usable("object"), NEW name \in Name, ObjectRemove(object, name)
      PROVE  Inv' /\ Grown
  <2>1. PICK o, new : o = ValueOf(object) /\ new = Without(heap[o].items, name)
    OBVIOUS
  <2>2. /\ o \in DOMAIN heap /\ heap[o].kind = "object" /\ ItemsFit("object", heap[o].items)
        /\ Distinct(heap[o].items)
    BY <2>1, UsableFacts
  <2>3. heap' = SetItems(heap, o, new)
    BY <1>2, <2>1 DEF ObjectRemove
  <2>4. NewItems("object", heap[o].items, new, NoValue)
    BY <2>1, <2>2, WithoutItems
  <2>5. QED
    BY <1>2, <2>2, <2>3, <2>4, ItemsTaken DEF ObjectRemove
<1>3. ASSUME NEW object \in Usable("object"), NEW outer \in Name, NEW inner \in Name,
             ObjectDotRemove(object, outer, inner)
      PROVE  Inv' /\ Grown
  <2>1. PICK o, q, new : /\ o = ValueOf(object) /\ q = heap[o].items[outer]
                         /\ new = Without(heap[q].items, inner)
    OBVIOUS
  <2>2. o \in DOMAIN heap /\ Typed(heap) /\ ForestIn(heap)
    BY <2>1, UsableFacts DEF Inv, Sound, Good
  <2>3. heap' = SetItems(heap, q, new) /\ outer \in DOMAIN heap[o].items /\ heap[q].kind = "object"
    BY <1>3, <2>1 DEF ObjectDotRemove
  <2>4. q \in DOMAIN heap
    BY <2>1, <2>2, <2>3 DEF ForestIn, Range
  <2>5. ItemsFit("object", heap[q].items) /\ Distinct(heap[q].items)
    BY <2>2, <2>3, <2>4 DEF Typed, ForestIn
  <2>6. NewItems("object", heap[q].items, new, NoValue)
    BY <2>1, <2>5, WithoutItems
  <2>7. QED
    BY <1>3, <2>3, <2>4, <2>6, ItemsTaken DEF ObjectDotRemove
<1>4. QED
  BY <1>1, <1>2, <1>3

\* ArrayClear, ObjectClear
LEMMA ClearStep ==
    ASSUME Inv, NEW type, NEW h \in Usable(type), Clear(h)
    PROVE  Inv' /\ Grown
<1>1. PICK c : c = ValueOf(h)
  OBVIOUS
<1>2. c \in DOMAIN heap /\ heap[c].kind \in Kinds
  BY <1>1, UsableFacts DEF ItemsFit
<1>3. NewItems(heap[c].kind, heap[c].items, <<>>, NoValue)
  BY <1>2, EmptyItems DEF NewItems
<1>4. QED
  BY <1>1, <1>2, <1>3, ItemsTaken DEF Clear

\* Free
LEMMA FreeStep ==
    ASSUME Inv, NEW h \in Handles, Free(h)
    PROVE  Inv' /\ Grown
<1>1. PICK G, u, R : /\ G = heap' /\ u = [m_Handles EXCEPT ![h] = NoHandle] /\ u = m_Handles'
                     /\ R = MustFree({h})
  BY DEF Free
<1>2. Slots(m_Handles) /\ Handles = Used(m_Handles) /\ Sound(heap, m_Handles, lost)
  BY InvFacts DEF Inv
<1>3. /\ Listed(u, Append(m_OldHandles, h)) /\ Used(u) = Used(m_Handles) \ {h} /\ Slots(u)
      /\ \A k \in Used(u) : u[k] = m_Handles[k]
      /\ DOMAIN u = DOMAIN m_Handles
  BY <1>1, <1>2, ListPush DEF Inv
<1>4. \A v : v \in R <=> Owns(m_Handles, h, v)
  BY <1>1, <1>2 DEF MustFree, ValueOf, Owns
<1>5. Dropped(m_Handles, u, R)
  BY <1>2, <1>3, <1>4 DEF Dropped
<1>6. G = json_value_free(heap, R) /\ lost' = lost /\ m_OldHandles' = Append(m_OldHandles, h)
  BY <1>1 DEF Free
<1>7. Sound(G, u, lost)
  BY <1>2, <1>5, <1>6, SoundFree
<1>8. QED
  BY <1>1, <1>3, <1>6, <1>7 DEF Inv, Grown

\* FreeAllHandles frees every tree that has an owner.
LEMMA FreeAllStep ==
    ASSUME Inv, FreeAllHandles
    PROVE  /\ Inv'
           /\ \A v \in DOMAIN heap' : \E r \in lost : v \in Tree(heap, r)
<1>1. PICK G, u, R : G = heap' /\ u = <<>> /\ R = MustFree(Handles)
  OBVIOUS
<1>2. Slots(m_Handles) /\ Handles = Used(m_Handles) /\ Sound(heap, m_Handles, lost)
  BY InvFacts DEF Inv
<1>3. Slots(u) /\ DOMAIN u = {} /\ Used(u) = {}
  BY <1>1, BoundsAssumption DEF Slots, Used
<1>4. \A v : v \in R <=> \E h \in Used(m_Handles) : Owns(m_Handles, h, v)
  BY <1>1, <1>2 DEF MustFree, ValueOf, Owns
<1>5. Dropped(m_Handles, u, R)
  BY <1>3, <1>4 DEF Dropped
<1>6. /\ G = json_value_free(heap, R) /\ lost' = lost /\ m_OldHandles' = <<>>
      /\ m_Handles' = u
  BY <1>1 DEF FreeAllHandles
<1>7. Sound(G, u, lost) /\ FreeDone(heap, R, G)
  BY <1>2, <1>5, <1>6, SoundFree
<1>8. Listed(u, <<>>)
  BY <1>3, EmptyItems DEF Listed
<1>9. Inv'
  BY <1>1, <1>6, <1>7, <1>8 DEF Inv
<1>10. ASSUME NEW v \in DOMAIN G
       PROVE  \E r \in lost : v \in Tree(heap, r)
  <2>1. v \in DOMAIN heap /\ v \notin Freed(heap, R)
    BY <1>7 DEF FreeDone
  <2>2. PICK r \in DOMAIN heap : Root(heap, r) /\ v \in Tree(heap, r)
    BY <1>2, <2>1 DEF Sound, Good, Rooted
  <2>3. r \notin R
    BY <2>1, <2>2 DEF Freed
  <2>4. r \in lost
    BY <1>2, <1>4, <2>2, <2>3 DEF Sound, Owned, Owns
  <2>5. QED
    BY <2>2, <2>4
<1>11. QED
  BY <1>1, <1>9, <1>10

-----------------------------------------------------------------------------
(* Theorems *)

\* Nothing is allocated and the table is empty.
LEMMA InvInit == Init => Inv
<1> SUFFICES ASSUME Init PROVE Inv
  OBVIOUS
<1>1. DOMAIN heap = {} /\ m_Handles = <<>> /\ m_OldHandles = <<>> /\ lost = {}
  BY DEF Init
<1>2. Good(heap)
  BY <1>1 DEF Good, Typed, ForestIn, Rooted
<1>3. Slots(m_Handles) /\ DOMAIN m_Handles = {} /\ Used(m_Handles) = {}
  BY <1>1, BoundsAssumption DEF Slots, Used
<1>4. Named(heap, m_Handles) /\ Owned(heap, m_Handles, lost)
  BY <1>1, <1>3 DEF Named, Owned, Owns, Root
<1>5. Listed(m_Handles, m_OldHandles)
  BY <1>1, <1>3, EmptyItems DEF Listed
<1>6. QED
  BY <1>2, <1>3, <1>4, <1>5 DEF Inv, Sound

\* One step per native.
LEMMA InvStep ==
    ASSUME Inv, ~SharedRoots, Next
    PROVE  Inv' /\ (Grown \/ FreeAllHandles)
<1>1. ASSUME ParseNatives PROVE Inv' /\ Grown
  BY <1>1, ParseStep DEF ParseNatives
<1>2. ASSUME InitNatives PROVE Inv' /\ Grown
  BY <1>2, InitValueStep DEF InitNatives
<1>3. ASSUME DeepCopyNative PROVE Inv' /\ Grown
  BY <1>3, DeepCopyStep DEF DeepCopyNative
<1>4. ASSUME ParentNative \/ ArrayGetNative \/ ObjectGetNatives PROVE Inv' /\ Grown
  BY <1>4, LookSteps DEF ParentNative, ArrayGetNative, ObjectGetNatives
<1>5. ASSUME ArrayReplaceNatives PROVE Inv' /\ Grown
  BY <1>5, ArrayReplaceStep, ScalarSteps DEF ArrayReplaceNatives
<1>6. ASSUME ArrayAppendNatives PROVE Inv' /\ Grown
  BY <1>6, ArrayAppendStep, ScalarSteps DEF ArrayAppendNatives
<1>7. ASSUME ArrayRemoveNatives PROVE Inv' /\ Grown
  BY <1>7, RemoveSteps, ClearStep DEF ArrayRemoveNatives
<1>8. ASSUME ObjectSetNatives PROVE Inv' /\ Grown
  BY <1>8, ObjectSetStep, ObjectDotSetStep, ObjectDotSetScalarStep, ScalarSteps
     DEF ObjectSetNatives
<1>9. ASSUME ObjectRemoveNatives PROVE Inv' /\ Grown
  BY <1>9, RemoveSteps, ClearStep DEF ObjectRemoveNatives
<1>10. ASSUME FreeNative PROVE Inv' /\ Grown
  BY <1>10, FreeStep DEF FreeNative
<1>11. ASSUME FreeAllHandles PROVE Inv'
  BY <1>11, FreeAllStep
<1>12. QED
  BY <1>1, <1>2, <1>3, <1>4, <1>5, <1>6, <1>7, <1>8, <1>9, <1>10, <1>11 DEF Next

\* The invariant holds when plugins insert a root only through its owner.
LEMMA InvAlways ==
    ASSUME ~SharedRoots
    PROVE  Spec => []Inv
<1>1. Inv /\ [Next]_vars => Inv'
  <2> SUFFICES ASSUME Inv, [Next]_vars PROVE Inv'
    OBVIOUS
  <2>1. CASE Next
    BY <2>1, InvStep
  <2>2. CASE UNCHANGED vars
    BY <2>2 DEF vars, Inv
  <2>3. QED
    BY <2>1, <2>2
<1>2. QED
  BY InvInit, <1>1, PTL DEF Spec

\* The invariant gives the type invariant.
LEMMA InvTypes ==
    ASSUME Inv
    PROVE  TypeOK
<1>1. /\ Typed(heap) /\ Slots(m_Handles) /\ Handles = Used(m_Handles)
      /\ Named(heap, m_Handles) /\ Listed(m_Handles, m_OldHandles)
      /\ \A v \in lost : Root(heap, v)
  BY InvFacts DEF Inv, Sound, Good
<1>2. DOMAIN heap \subseteq Value /\ lost \subseteq Value
  BY <1>1 DEF Typed, Root
<1>3. ASSUME NEW v \in DOMAIN heap
      PROVE  /\ heap[v].kind \in Kinds
             /\ heap[v].parent \in Value \cup {NoValue}
             /\ Range(heap[v].items) \subseteq Value
             /\ DOMAIN heap[v].items \subseteq
                   CASE heap[v].kind = "array"  -> 1 .. MaxItems
                     [] heap[v].kind = "object" -> Name
                     [] heap[v].kind = "scalar" -> {}
  <2>1. heap[v].parent \in Value \cup {NoValue} /\ ItemsFit(heap[v].kind, heap[v].items)
    BY <1>1 DEF Typed
  <2>2. heap[v].kind = "array" => DOMAIN heap[v].items \subseteq 1 .. MaxItems
    BY <2>1, BoundsAssumption DEF ItemsFit
  <2>3. QED
    BY <2>1, <2>2 DEF ItemsFit, Kinds
<1>4. ASSUME NEW h \in Handles
      PROVE  /\ m_Handles[h].value \in Value
             /\ m_Handles[h].must_be_freed \in BOOLEAN
             /\ m_Handles[h].value \in DOMAIN heap =>
                   m_Handles[h].type = heap[ValueOf(h)].kind
  BY <1>1, UsedEntry DEF Named, ValueOf
<1>5. Len(m_Handles) <= MaxHandles /\ m_OldHandles \in Seq(DOMAIN m_Handles)
  BY <1>1 DEF Slots, Listed
<1>6. QED
  BY <1>2, <1>3, <1>4, <1>5 DEF TypeOK

\* A list of distinct slots is as long as the set of them is large.
LEMMA InvFreeList ==
    ASSUME Inv
    PROVE  FreeListExact
<1>1. /\ m_OldHandles \in Seq(DOMAIN m_Handles) /\ Distinct(m_OldHandles)
      /\ Range(m_OldHandles) = DOMAIN m_Handles \ Handles
  BY InvFacts DEF Inv, Listed
<1>2. PICK n : n = Len(m_OldHandles)
  OBVIOUS
<1>3. n \in Nat /\ DOMAIN m_OldHandles = 1 .. n
  BY <1>1, <1>2
<1>4. Cardinality(1 .. n) = n /\ IsFiniteSet(1 .. n)
  BY <1>3, FS_Interval
<1>5. m_OldHandles \in Bijection(1 .. n, Range(m_OldHandles))
  BY <1>1, <1>3 DEF Bijection, Injection, Surjection, IsInjective, Distinct, Range
<1>6. Cardinality(Range(m_OldHandles)) = n
  BY <1>4, <1>5, FS_Bijection DEF ExistsBijection
<1>7. QED
  BY <1>1, <1>2, <1>6 DEF FreeListExact

\* Forest is ForestIn, with keys for the items.
LEMMA InvForest ==
    ASSUME Inv
    PROVE  Forest
<1>1. ForestIn(heap)
  BY DEF Inv, Sound, Good
<1>2. ASSUME NEW v \in DOMAIN heap, NEW k \in DOMAIN heap[v].items
      PROVE  heap[v].items[k] \in Range(heap[v].items)
  BY DEF Range
<1>3. QED
  BY <1>1, <1>2 DEF Forest, ForestIn, Distinct

\* The handles that free a root: one, or none when it is lost.
LEMMA InvOwners ==
    ASSUME Inv
    PROVE  ParsonFreesChildren /\ OwnedOnce
<1>1. Handles = Used(m_Handles) /\ Owned(heap, m_Handles, lost) /\ Slots(m_Handles)
  BY InvFacts DEF Inv, Sound
<1>2. ParsonFreesChildren
  <2> SUFFICES ASSUME NEW h \in Handles, m_Handles[h].must_be_freed
               PROVE  ValueOf(h) \in DOMAIN heap /\ heap[ValueOf(h)].parent = NoValue
    BY DEF ParsonFreesChildren
  <2>1. Owns(m_Handles, h, ValueOf(h))
    BY <1>1 DEF Owns, ValueOf
  <2>2. QED
    BY <1>1, <2>1 DEF Owned, Root
<1>3. OwnedOnce
  <2> SUFFICES ASSUME NEW v \in DOMAIN heap, heap[v].parent = NoValue
               PROVE  Cardinality({h \in Handles : ValueOf(h) = v /\ m_Handles[h].must_be_freed})
                          = IF v \in lost THEN 0 ELSE 1
    BY DEF OwnedOnce
  <2>1. PICK S : S = {h \in Handles : ValueOf(h) = v /\ m_Handles[h].must_be_freed}
    OBVIOUS
  <2>2. \A h : h \in S <=> Owns(m_Handles, h, v)
    BY <1>1, <2>1 DEF Owns, ValueOf
  <2>3. CASE v \in lost
    <3>1. S = {}
      BY <1>1, <2>2, <2>3 DEF Owned, Root
    <3>2. QED
      BY <2>1, <2>3, <3>1, FS_EmptySet
  <2>4. CASE v \notin lost
    <3>1. PICK h : Owns(m_Handles, h, v)
      BY <1>1, <2>4 DEF Owned, Root
    <3>2. S = {h}
      BY <1>1, <2>2, <3>1 DEF Owned
    <3>3. QED
      BY <2>1, <2>4, <3>2, FS_Singleton
  <2>5. QED
    BY <2>3, <2>4
<1>4. QED
  BY <1>2, <1>3

\* Whatever natives a plugin calls, values, handles and the free list keep
\* their types: a handle whose value exists has the type of that value, which
\* is all that IsValidHandle checks.
THEOREM TypeCorrect ==
    ASSUME ~SharedRoots
    PROVE  Spec => []TypeOK
<1>1. Inv => TypeOK
  BY InvTypes
<1>2. QED
  BY <1>1, InvAlways, PTL

\* m_OldHandles lists every empty slot of m_Handles exactly once, so that
\* _MakeHandle neither replaces a handle in use nor leaks a slot.
THEOREM FreeListKept ==
    ASSUME ~SharedRoots
    PROVE  Spec => []FreeListExact
<1>1. Inv => FreeListExact
  BY InvFreeList
<1>2. QED
  BY <1>1, InvAlways, PTL

\* parson's memory is a forest whatever is inserted, copied, replaced, removed
\* and freed, and in whatever order.
THEOREM MemoryIsForest ==
    ASSUME ~SharedRoots
    PROVE  Spec => []Forest
<1>1. Inv => Forest
  BY InvForest
<1>2. QED
  BY <1>1, InvAlways, PTL

\* No handle frees a value that parson has freed or will free: a handle with
\* m_bMustBeFreed names an allocated root.
THEOREM HandlesFreeRoots ==
    ASSUME ~SharedRoots
    PROVE  Spec => []ParsonFreesChildren
<1>1. Inv => ParsonFreesChildren
  BY InvOwners
<1>2. QED
  BY <1>1, InvAlways, PTL

\* Every root is freed by exactly one handle, but for the roots that a failed
\* ezjson_array_replace_value or dotted ezjson_object_set_value lost.
THEOREM RootsOwnedOnce ==
    ASSUME ~SharedRoots
    PROVE  Spec => []OwnedOnce
<1>1. Inv => OwnedOnce
  BY InvOwners
<1>2. QED
  BY <1>1, InvAlways, PTL

\* FreeAllHandles leaves nothing allocated but the trees of those lost roots.
THEOREM MapChangeLeavesLost ==
    ASSUME ~SharedRoots
    PROVE  Spec => MapChangeFreesAll
<1>1. ASSUME Inv, [Next]_vars
      PROVE  [m_Handles # <<>> /\ m_Handles' = <<>> =>
                DOMAIN heap' \subseteq UNION {Tree(heap, v) : v \in lost}]_vars
  <2> SUFFICES ASSUME m_Handles # <<>>, m_Handles' = <<>>
               PROVE  DOMAIN heap' \subseteq UNION {Tree(heap, v) : v \in lost}
    OBVIOUS
  <2>1. Next
    BY <1>1 DEF vars
  <2>2. ~Grown
    <3>1. DOMAIN m_Handles # {}
      <4>1. PICK S : m_Handles \in Seq(S)
        BY <1>1 DEF Inv, Sound, Slots
      <4>2. Len(m_Handles) \in Nat /\ Len(m_Handles) >= 1 /\ DOMAIN m_Handles = 1 .. Len(m_Handles)
        BY <4>1
      <4>3. 1 \in 1 .. Len(m_Handles)
        BY <4>2
      <4>4. QED
        BY <4>2, <4>3
    <3>2. DOMAIN m_Handles' = {}
      BY EmptyItems
    <3>3. QED
      BY <3>1, <3>2 DEF Grown
  <2>3. FreeAllHandles
    BY <1>1, <2>1, <2>2, InvStep
  <2>4. \A v \in DOMAIN heap' : \E r \in lost : v \in Tree(heap, r)
    BY <1>1, <2>3, FreeAllStep
  <2>5. QED
    BY <2>4
<1>2. QED
  BY <1>1, InvAlways, PTL DEF Spec, MapChangeFreesAll
=============================================================================
