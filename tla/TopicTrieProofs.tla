--------------------------- MODULE TopicTrieProofs ---------------------------
(***************************************************************************)
(* The trie is a tree without dead branches, implements the flat store and *)
(* matches as MQTT does, for every set of filters, topics and handlers.    *)
(***************************************************************************)
EXTENDS TopicTrie, SequenceTheorems, WellFoundedInduction, TLAPS

\* The levels of a path, the wildcards among them.
Level == STRING \cup {"+", "#"}

Path == Seq(Level)

------------------------------------------------------------------------------
(* Prefixes of paths. *)

LEMMA PrefixIs ==
  ASSUME NEW p \in Path, NEW s \in Path
  PROVE  IsPrefix(p, s) <=> Len(p) <= Len(s) /\ \A k \in 1 .. Len(p) : p[k] = s[k]
BY DEF IsPrefix, Path

LEMMA PrefixesAre ==
  ASSUME NEW s \in Path
  PROVE  Prefixes(s) = {p \in Path : IsPrefix(p, s)}
<1>1. ASSUME NEW l \in 0 .. Len(s)
      PROVE  SubSeq(s, 1, l) \in Path /\ IsPrefix(SubSeq(s, 1, l), s)
  BY <1>1 DEF IsPrefix, Path
<1>2. ASSUME NEW p \in Path, IsPrefix(p, s)
      PROVE  p = SubSeq(s, 1, Len(p)) /\ Len(p) \in 0 .. Len(s)
  BY <1>2 DEF IsPrefix, Path
<1> QED
  BY <1>1, <1>2 DEF Prefixes

LEMMA PrefixOrder ==
  ASSUME NEW p \in Path, NEW s \in Path, NEW t \in Path
  PROVE  /\ IsPrefix(s, s)
         /\ IsPrefix(p, s) /\ IsPrefix(s, t) => IsPrefix(p, t)
         /\ IsPrefix(p, s) /\ IsPrefix(s, p) => p = s
         /\ IsPrefix(p, t) /\ IsPrefix(s, t) => IsPrefix(p, s) \/ IsPrefix(s, p)
<1>1. IsPrefix(p, s) /\ IsPrefix(s, p) => p = s
  BY DEF IsPrefix, Path
<1> QED
  BY <1>1, PrefixIs DEF Path

LEMMA FrontIs ==
  ASSUME NEW s \in Path, s # <<>>
  PROVE  /\ Front(s) \in Path
         /\ IsPrefix(Front(s), s)
         /\ \A p \in Path : IsPrefix(p, s) => p = s \/ IsPrefix(p, Front(s))
<1>0. Len(s) \in Nat \ {0}
  BY DEF Path
<1>1. /\ Front(s) \in Path
      /\ Len(Front(s)) = Len(s) - 1
      /\ \A k \in 1 .. Len(s) - 1 : Front(s)[k] = s[k]
  <2> DEFINE l == Len(s) - 1
  <2>1. l \in 0 .. Len(s) /\ Front(s) = SubSeq(s, 1, l)
    BY <1>0 DEF Front
  <2> HIDE DEF l
  <2>2. /\ SubSeq(s, 1, l) \in Path /\ Len(SubSeq(s, 1, l)) = l
        /\ \A k \in 1 .. l : SubSeq(s, 1, l)[k] = s[k]
    BY <1>0, <2>1 DEF Path
  <2> QED
    BY <2>1, <2>2 DEF l
<1>2. IsPrefix(Front(s), s)
  BY <1>1, PrefixIs DEF Path
<1>3. ASSUME NEW p \in Path, IsPrefix(p, s), p # s
      PROVE  IsPrefix(p, Front(s))
  <2>1. Len(p) # Len(s)
    BY <1>3 DEF IsPrefix, Path
  <2> QED
    <3>1. Len(p) \in Nat /\ Len(p) <= Len(s) /\ \A k \in 1 .. Len(p) : p[k] = s[k]
      BY <1>3, PrefixIs DEF Path
    <3>2. Len(p) <= Len(Front(s)) /\ \A k \in 1 .. Len(p) : p[k] = Front(s)[k]
      BY <1>0, <1>1, <2>1, <3>1
    <3> QED
      BY <1>1, <3>2, PrefixIs
<1> QED
  BY <1>1, <1>2, <1>3

LEMMA StringsArePaths == \A s \in Seq(STRING) : s \in Path
<1>1. STRING \subseteq Level
  BY DEF Level
<1>2. \A S, T : S \subseteq T => \A s \in Seq(S) : s \in Seq(T)
  OBVIOUS
<1> QED
  BY <1>1, <1>2 DEF Path

LEMMA FiltersArePaths == Filters \subseteq Path \ {<<>>}
BY TopicTrieAssumption, StringsArePaths

LEMMA EmptyPath == <<>> \in Path /\ \A s \in Path : IsPrefix(<<>>, s)
<1>1. <<>> \in Path /\ Len(<<>>) = 0
  BY DEF Path
<1>2. ASSUME NEW s \in Path
      PROVE  IsPrefix(<<>>, s)
  <2>1. Len(s) \in Nat
    BY DEF Path
  <2> QED
    BY <1>1, <2>1, PrefixIs
<1> QED
  BY <1>1, <1>2

------------------------------------------------------------------------------
(* The shape of the trie. *)

\* TypeOK, and handlers only at filters.
Tree ==
    /\ DOMAIN trie \subseteq Path
    /\ trie \in [DOMAIN trie -> Seq(Handlers)]
    /\ <<>> \in DOMAIN trie
    /\ \A n \in DOMAIN trie \ {<<>>} : Front(n) \in DOMAIN trie
    /\ \A n \in DOMAIN trie : trie[n] # <<>> => n \in Filters
    /\ emptied \subseteq Filters

Mapped ==
    /\ subscriptions \in [DOMAIN subscriptions -> Handlers]
    /\ DOMAIN subscriptions \subseteq Filters

LEMMA InsertKeepsTree ==
  ASSUME Tree, NEW f \in Filters, NEW h \in Handlers, trie' = Insert(f, h),
         emptied' = emptied \ {f}
  PROVE  Tree'
<1>1. f \in Path \ {<<>>} /\ f \in Prefixes(f) /\ Prefixes(f) \subseteq Path
  BY FiltersArePaths, PrefixesAre, PrefixOrder
<1>2. DOMAIN trie' = DOMAIN trie \cup Prefixes(f)
  BY DEF Insert
<1>3. ASSUME NEW n \in DOMAIN trie'
      PROVE  /\ n \in Path
             /\ trie'[n] \in Seq(Handlers)
             /\ trie'[n] # <<>> => n \in Filters
  BY <1>1, <1>2, <1>3 DEF Tree, Insert
<1>4. ASSUME NEW n \in DOMAIN trie', n # <<>>
      PROVE  Front(n) \in DOMAIN trie'
  <2>1. CASE n \in DOMAIN trie
    BY <1>2, <1>4, <2>1 DEF Tree
  <2>2. CASE n \in Prefixes(f)
    <3>1. n \in Path /\ Front(n) \in Path /\ IsPrefix(Front(n), n) /\ IsPrefix(n, f)
      BY <1>1, <1>4, <2>2, PrefixesAre, FrontIs
    <3> QED
      BY <1>1, <1>2, <3>1, PrefixesAre, PrefixOrder
  <2> QED
    BY <1>2, <2>1, <2>2
<1>5. trie' \in [DOMAIN trie' -> Seq(Handlers)]
  <2>1. trie' = [n \in DOMAIN trie' |-> trie'[n]]
    BY <1>2 DEF Insert
  <2> QED
    BY <1>3, <2>1
<1> QED
  BY <1>2, <1>3, <1>4, <1>5 DEF Tree

\* What remove() takes away is a filter's own node or has no handlers.
LEMMA RemovedIs ==
  ASSUME Tree, NEW f \in DOMAIN trie
  PROVE  /\ DOMAIN Removed(f) =
               {n \in DOMAIN trie : \A p \in Path : IsPrefix(p, n) => p \notin Dead(f)}
         /\ Removed(f) = [n \in DOMAIN Removed(f) |-> IF n = f THEN <<>> ELSE trie[n]]
         /\ Dead(f) \subseteq {p \in Path : p # <<>> /\ IsPrefix(p, f)}
         /\ \A n \in DOMAIN trie \ DOMAIN Removed(f) : n = f \/ trie[n] = <<>>
<1>0. f \in Path /\ DOMAIN trie \subseteq Path
  BY DEF Tree
<1>1. \A n \in DOMAIN trie : Prefixes(n) = {p \in Path : IsPrefix(p, n)}
  BY <1>0, PrefixesAre
<1>2. DOMAIN Removed(f) = {n \in DOMAIN trie : Prefixes(n) \cap Dead(f) = {}}
  BY DEF Removed, Restrict
<1>3. DOMAIN Removed(f) =
        {n \in DOMAIN trie : \A p \in Path : IsPrefix(p, n) => p \notin Dead(f)}
  BY <1>1, <1>2
<1>4. Dead(f) \subseteq {p \in Path : p # <<>> /\ IsPrefix(p, f)}
  BY <1>1 DEF Dead
<1>5. Removed(f) = [n \in DOMAIN Removed(f) |-> IF n = f THEN <<>> ELSE trie[n]]
  <2>1. ASSUME NEW n \in DOMAIN trie
        PROVE  [trie EXCEPT ![f] = <<>>][n] = IF n = f THEN <<>> ELSE trie[n]
    BY DEF Tree
  <2> QED
    BY <1>2, <2>1 DEF Removed, Restrict
<1>6. ASSUME NEW n \in DOMAIN trie, n \notin DOMAIN Removed(f)
      PROVE  n = f \/ trie[n] = <<>>
  BY <1>3, <1>6 DEF Dead
<1> QED
  BY <1>3, <1>4, <1>5, <1>6

LEMMA RemovedAt ==
  ASSUME Tree, NEW f \in DOMAIN trie, NEW n \in DOMAIN Removed(f)
  PROVE  Removed(f)[n] = IF n = f THEN <<>> ELSE trie[n]
<1>1. PICK g : /\ g = Removed(f) /\ n \in DOMAIN g
               /\ g = [k \in DOMAIN g |-> IF k = f THEN <<>> ELSE trie[k]]
  BY RemovedIs
<1>2. g[n] = IF n = f THEN <<>> ELSE trie[n]
  BY <1>1
<1> QED
  BY <1>1, <1>2

LEMMA RemoveKeepsTree ==
  ASSUME Tree, NEW f \in DOMAIN trie, trie' = Removed(f), emptied' = emptied \ {f}
  PROVE  Tree'
<1>1. DOMAIN trie' \subseteq DOMAIN trie
  BY RemovedIs
<1>2. <<>> \in DOMAIN trie'
  <2>1. ASSUME NEW p \in Path, IsPrefix(p, <<>>)
        PROVE  p \notin Dead(f)
    BY <2>1, EmptyPath, PrefixOrder, RemovedIs
  <2> QED
    BY <2>1, RemovedIs DEF Tree
<1>3. ASSUME NEW n \in DOMAIN trie', n # <<>>
      PROVE  Front(n) \in DOMAIN trie'
  <2>1. n \in Path /\ n \in DOMAIN trie /\ Front(n) \in DOMAIN trie
    BY <1>1, <1>3 DEF Tree
  <2>2. ASSUME NEW p \in Path, IsPrefix(p, Front(n))
        PROVE  p \notin Dead(f)
    <3>1. IsPrefix(p, n)
      BY <1>3, <2>1, <2>2, FrontIs, PrefixOrder
    <3> QED
      BY <1>3, <3>1, RemovedIs
  <2> QED
    BY <2>1, <2>2, RemovedIs
<1>4. trie' \in [DOMAIN trie' -> Seq(Handlers)]
      /\ \A n \in DOMAIN trie' : trie'[n] # <<>> => n \in Filters
  <2>1. ASSUME NEW n \in DOMAIN trie'
        PROVE  trie'[n] \in Seq(Handlers) /\ (trie'[n] # <<>> => n \in Filters)
    <3>1. n \in DOMAIN Removed(f) /\ n \in DOMAIN trie
      BY <1>1
    <3>2. trie'[n] = IF n = f THEN <<>> ELSE trie[n]
      BY <3>1, RemovedAt
    <3> QED
      BY <3>1, <3>2 DEF Tree
  <2> QED
    BY <2>1, RemovedIs
<1> QED
  BY <1>1, <1>2, <1>3, <1>4 DEF Tree

LEMMA ClearKeepsTree ==
  ASSUME Tree, trie' = Cleared,
         emptied' = emptied \cup {n \in DOMAIN trie : trie[n] # <<>>}
  PROVE  Tree'
BY DEF Tree, Cleared

LEMMA StepKeepsTree == Tree /\ Mapped /\ [Next]_vars => Tree' /\ Mapped'
<1> SUFFICES ASSUME Tree, Mapped, [Next]_vars
             PROVE  Tree' /\ Mapped'
  OBVIOUS
<1>1. ASSUME NEW f \in Filters, NEW h \in Handlers, Granted(f, h)
      PROVE  Tree' /\ Mapped'
  <2>1. Tree'
    BY <1>1, InsertKeepsTree DEF Granted
  <2>2. Mapped'
    BY <1>1 DEF Granted, Mapped, Remembered
  <2> QED
    BY <2>1, <2>2
<1>2. ASSUME NEW f \in Filters, Unsubscribed(f)
      PROVE  Tree' /\ Mapped'
  <2>1. CASE f \in DOMAIN trie
    BY <1>2, <2>1, RemoveKeepsTree DEF Unsubscribed, Mapped
  <2>2. CASE f \notin DOMAIN trie
    BY <1>2, <2>2 DEF Unsubscribed, Tree, Mapped
  <2> QED
    BY <2>1, <2>2
<1>3. CASE Forgotten
  BY <1>3, ClearKeepsTree DEF Forgotten, Mapped
<1>4. CASE UNCHANGED vars
  BY <1>4 DEF vars, Tree, Mapped
<1> QED
  BY <1>1, <1>2, <1>3, <1>4 DEF Next

LEMMA InitTree == Init => Tree /\ Mapped
BY EmptyPath DEF Init, Tree, Mapped

LEMMA AlwaysTree == Spec => [](Tree /\ Mapped)
BY InitTree, StepKeepsTree, PTL DEF Spec

(***************************************************************************)
(* insert, remove and clear of src/topic_trie.rs keep the trie a tree whose *)
(* root has no handlers: the children a node reaches are exactly the nodes *)
(* that are left.                                                          *)
(***************************************************************************)
THEOREM TypeCorrect == Spec => []TypeOK
<1>1. Tree /\ Mapped => TypeOK
  BY FiltersArePaths DEF Tree, Mapped, TypeOK
<1> QED
  BY <1>1, AlwaysTree, PTL

------------------------------------------------------------------------------
(* What the store promises. *)

LEMMA RemovedHandlers ==
  ASSUME Tree, NEW f \in Filters, Unsubscribed(f)
  PROVE  \A g \in Filters : HandlersOf(g)' = IF g = f THEN <<>> ELSE HandlersOf(g)
<1>1. CASE f \notin DOMAIN trie
  BY <1>1 DEF Unsubscribed, HandlersOf
<1>2. CASE f \in DOMAIN trie
  <2>1. trie' = Removed(f)
    BY <1>2 DEF Unsubscribed
  <2>2. DOMAIN trie' \subseteq DOMAIN trie
    BY <1>2, <2>1, RemovedIs
  <2>3. trie' = [n \in DOMAIN trie' |-> IF n = f THEN <<>> ELSE trie[n]]
    BY <1>2, <2>1, RemovedIs
  <2>4. \A n \in DOMAIN trie \ DOMAIN trie' : n = f \/ trie[n] = <<>>
    BY <1>2, <2>1, RemovedIs
  <2> QED
    BY <2>2, <2>3, <2>4 DEF HandlersOf
<1> QED
  BY <1>1, <1>2

LEMMA AddedHandlers ==
  ASSUME Tree, NEW f \in Filters, NEW h \in Handlers, Granted(f, h)
  PROVE  \A g \in Filters :
            HandlersOf(g)' = IF g = f THEN Append(HandlersOf(f), h) ELSE HandlersOf(g)
<1>1. f \in Prefixes(f)
  BY FiltersArePaths, PrefixesAre, PrefixOrder
<1> QED
  BY <1>1 DEF Granted, Insert, HandlersOf

LEMMA ClearedHandlers ==
  ASSUME Forgotten
  PROVE  \A g \in Filters : HandlersOf(g)' = <<>>
BY DEF Forgotten, Cleared, HandlersOf

(***************************************************************************)
(* The trie implements the flat store of handlers: for every set of        *)
(* filters, removing one, with the nodes that are pruned on the way up,    *)
(* leaves the handlers of all the others as they were.                     *)
(***************************************************************************)
THEOREM Refinement == Spec => RefinesStore
<1>1. Init => Store!Init
  BY FiltersArePaths DEF Init, Store!Init, HandlersOf
<1>2. Tree /\ [Next]_vars => [Store!Next]_([f \in Filters |-> HandlersOf(f)])
  <2> SUFFICES ASSUME Tree, [Next]_vars
               PROVE  Store!Next \/ UNCHANGED [f \in Filters |-> HandlersOf(f)]
    OBVIOUS
  <2>1. ASSUME NEW f \in Filters, NEW h \in Handlers, Granted(f, h)
        PROVE  Store!Add(f, h)
    BY <2>1, AddedHandlers DEF Store!Add
  <2>2. ASSUME NEW f \in Filters, Unsubscribed(f)
        PROVE  Store!Remove(f)
    BY <2>2, RemovedHandlers DEF Store!Remove
  <2>3. CASE Forgotten
    BY <2>3, ClearedHandlers DEF Store!Next, Store!Clear
  <2>4. CASE UNCHANGED vars
    BY <2>4 DEF vars, HandlersOf
  <2> QED
    BY <2>1, <2>2, <2>3, <2>4 DEF Next, Store!Next
<1> QED
  BY <1>1, <1>2, AlwaysTree, PTL DEF Spec, RefinesStore, Store!Spec

------------------------------------------------------------------------------
(* Nothing else is left. *)

Leaf(n, tree) == \A m \in tree : ~IsStrictPrefix(n, m)

\* A node of f's path that remove() keeps has a handler or a node below it.
LEMMA KeptIsAlive ==
  ASSUME Tree, NEW f \in DOMAIN trie, NEW n \in DOMAIN Removed(f),
         n # <<>>, IsPrefix(n, f), Leaf(n, DOMAIN Removed(f))
  PROVE  n # f /\ trie[n] # <<>>
<1>1. n \in DOMAIN trie /\ n \in Path /\ f \in Path
  BY RemovedIs DEF Tree
<1>2. n \notin Dead(f) /\ n \in Prefixes(f)
  <2>1. IsPrefix(n, n)
    BY <1>1, PrefixOrder
  <2>2. n \notin Dead(f)
    <3>1. \A p \in Path : IsPrefix(p, n) => p \notin Dead(f)
      BY RemovedIs
    <3> QED
      BY <1>1, <2>1, <3>1
  <2>3. n \in Prefixes(f)
    BY <1>1, PrefixesAre
  <2> QED
    BY <2>2, <2>3
<1>3. PICK m \in DOMAIN trie :
         IsPrefix(n, m) /\ ~(IsPrefix(m, f) /\ (m = f \/ trie[m] = <<>>))
  BY <1>2 DEF Dead
<1>4. m \in DOMAIN Removed(f)
  <2>1. ASSUME NEW p \in Path, IsPrefix(p, m)
        PROVE  p \notin Dead(f)
    BY <1>3, <2>1 DEF Dead
  <2> QED
    BY <2>1, RemovedIs
<1>5. m = n
  BY <1>3, <1>4 DEF Leaf, IsStrictPrefix
<1> QED
  BY <1>3, <1>5

LEMMA RemoveLeavesNoDeadBranch ==
  ASSUME Tree, NoDeadBranch, NEW f \in DOMAIN trie, trie' = Removed(f),
         emptied' = emptied \ {f}
  PROVE  NoDeadBranch'
<1> SUFFICES ASSUME NEW n \in DOMAIN Removed(f), n # <<>>, Leaf(n, DOMAIN Removed(f))
             PROVE  Removed(f)[n] # <<>> \/ n \in emptied \ {f}
  BY DEF NoDeadBranch, Leaf
<1>1. n \in DOMAIN trie /\ n \in Path /\ f \in Path
  BY RemovedIs DEF Tree
<1>2. Removed(f)[n] = IF n = f THEN <<>> ELSE trie[n]
  BY RemovedAt
<1>3. CASE IsPrefix(n, f)
  BY <1>2, <1>3, KeptIsAlive
<1>4. CASE ~IsPrefix(n, f)
  <2>1. n # f
    BY <1>1, <1>4, PrefixOrder
  <2>2. Leaf(n, DOMAIN trie)
    <3>1. SUFFICES ASSUME NEW m \in DOMAIN trie, IsStrictPrefix(n, m)
                   PROVE  FALSE
      BY DEF Leaf
    <3>2. m \in Path /\ m \notin DOMAIN Removed(f) /\ IsPrefix(n, m)
      BY <3>1 DEF Leaf, IsStrictPrefix, Tree
    <3>3. PICK p \in Path : IsPrefix(p, m) /\ p \in Dead(f)
      BY <3>2, RemovedIs
    <3>4. IsPrefix(p, n) \/ IsPrefix(n, p)
      BY <1>1, <3>2, <3>3, PrefixOrder
    <3>5. ~IsPrefix(p, n)
      BY <3>3, RemovedIs
    <3>6. IsPrefix(p, f)
      BY <3>3, RemovedIs
    <3> QED
      BY <1>1, <1>4, <3>4, <3>5, <3>6, PrefixOrder
  <2> QED
    BY <1>1, <1>2, <2>1, <2>2 DEF NoDeadBranch, Leaf
<1> QED
  BY <1>3, <1>4

LEMMA InsertLeavesNoDeadBranch ==
  ASSUME Tree, NoDeadBranch, NEW f \in Filters, NEW h \in Handlers,
         trie' = Insert(f, h), emptied' = emptied \ {f}
  PROVE  NoDeadBranch'
<1>1. f \in Path /\ f \in Prefixes(f) /\ \A n \in Prefixes(f) : n \in Path /\ IsPrefix(n, f)
  BY FiltersArePaths, PrefixesAre, PrefixOrder
<1>2. DOMAIN trie' = DOMAIN trie \cup Prefixes(f)
  BY DEF Insert
<1> SUFFICES ASSUME NEW n \in DOMAIN trie', n # <<>>, Leaf(n, DOMAIN trie')
             PROVE  trie'[n] # <<>> \/ n \in emptied'
  BY DEF NoDeadBranch, Leaf
<1>3. CASE n = f
  <2>1. trie'[f] = Append(HandlersOf(f), h)
    BY <1>1 DEF Insert, HandlersOf
  <2>2. HandlersOf(f) \in Seq(Handlers)
    BY DEF HandlersOf, Tree
  <2> QED
    BY <1>3, <2>1, <2>2
<1>4. CASE n # f
  <2>1. n \notin Prefixes(f)
    BY <1>1, <1>2, <1>4 DEF Leaf, IsStrictPrefix
  <2>2. n \in DOMAIN trie /\ trie'[n] = trie[n]
    BY <1>2, <1>4, <2>1 DEF Insert
  <2>3. Leaf(n, DOMAIN trie)
    BY <1>2 DEF Leaf
  <2> QED
    BY <1>4, <2>2, <2>3 DEF NoDeadBranch, Leaf
<1> QED
  BY <1>3, <1>4

(***************************************************************************)
(* remove() prunes its path as far up as it can and no further: a leaf of  *)
(* the trie has a handler, or had one when block() cleared the trie.       *)
(***************************************************************************)
THEOREM Pruned == Spec => []NoDeadBranch
<1>1. Init => NoDeadBranch
  BY DEF Init, NoDeadBranch
<1>2. Tree /\ NoDeadBranch /\ [Next]_vars => NoDeadBranch'
  <2> SUFFICES ASSUME Tree, NoDeadBranch, [Next]_vars
               PROVE  NoDeadBranch'
    OBVIOUS
  <2>1. ASSUME NEW f \in Filters, NEW h \in Handlers, Granted(f, h)
        PROVE  NoDeadBranch'
    BY <2>1, InsertLeavesNoDeadBranch DEF Granted
  <2>2. ASSUME NEW f \in Filters, Unsubscribed(f)
        PROVE  NoDeadBranch'
    <3>1. CASE f \in DOMAIN trie
      BY <2>2, <3>1, RemoveLeavesNoDeadBranch DEF Unsubscribed
    <3>2. CASE f \notin DOMAIN trie
      BY <2>2, <3>2 DEF Unsubscribed, NoDeadBranch
    <3> QED
      BY <3>1, <3>2
  <2>3. CASE Forgotten
    BY <2>3 DEF Forgotten, Cleared, NoDeadBranch
  <2>4. CASE UNCHANGED vars
    BY <2>4 DEF vars, NoDeadBranch
  <2> QED
    BY <2>1, <2>2, <2>3, <2>4 DEF Next
<1> QED
  BY <1>1, <1>2, AlwaysTree, PTL DEF Spec

------------------------------------------------------------------------------
(* The trie and the map of subscriptions. *)

(***************************************************************************)
(* handle_suback keeps the two in step: while a filter has handlers, the   *)
(* map remembers the one that was added last, for block() to restore.      *)
(***************************************************************************)
THEOREM Remembers == Spec => []NewestRemembered
<1>1. Init => NewestRemembered
  BY FiltersArePaths DEF Init, NewestRemembered, HandlersOf
<1>2. Tree /\ NewestRemembered /\ [Next]_vars => NewestRemembered'
  <2> SUFFICES ASSUME Tree, NewestRemembered, [Next]_vars
               PROVE  NewestRemembered'
    OBVIOUS
  <2>1. ASSUME NEW f \in Filters, NEW h \in Handlers, Granted(f, h)
        PROVE  NewestRemembered'
    <3>1. HandlersOf(f) \in Seq(Handlers)
      BY DEF HandlersOf, Tree
    <3>2. Last(Append(HandlersOf(f), h)) = h
      BY <3>1 DEF Last
    <3> QED
      BY <2>1, <3>2, AddedHandlers DEF Granted, Remembered, NewestRemembered
  <2>2. ASSUME NEW f \in Filters, Unsubscribed(f)
        PROVE  NewestRemembered'
    BY <2>2, RemovedHandlers DEF Unsubscribed, NewestRemembered
  <2>3. CASE Forgotten
    BY <2>3, ClearedHandlers DEF NewestRemembered
  <2>4. CASE UNCHANGED vars
    BY <2>4 DEF vars, NewestRemembered, HandlersOf
  <2> QED
    BY <2>1, <2>2, <2>3, <2>4 DEF Next
<1> QED
  BY <1>1, <1>2, AlwaysTree, PTL DEF Spec

------------------------------------------------------------------------------
(* What match_topic() finds: the recursion down the trie, by induction. *)

\* Induction over the numbers, said of the set of those that have the property.
LEMMA Induction ==
  ASSUME NEW S, 0 \in S, \A k \in Nat : k \in S => k + 1 \in S
  PROVE  Nat \subseteq S
<1> DEFINE T == Nat \ S
<1> SUFFICES ASSUME T # {}
             PROVE  FALSE
  OBVIOUS
<1>1. PICK d \in T : \A e \in T : ~(<<e, d>> \in OpToRel(<, Nat))
  BY NatLessThanWellFounded, WFMin
<1>2. d \in Nat /\ \A e \in T : ~(e < d)
  BY <1>1 DEF OpToRel
<1>3. d # 0 /\ d - 1 \in Nat /\ d - 1 < d /\ (d - 1) + 1 = d
  BY <1>2
<1>4. d - 1 \in S
  BY <1>2, <1>3
<1> QED
  BY <1>3, <1>4

\* One call of the recursion: what b finds below the nodes one level down.
Below(b, n, topic) ==
  IF Len(n) = Len(topic) THEN <<n>>
  ELSE (IF Append(n, topic[Len(n) + 1]) \in DOMAIN trie THEN b[Append(n, topic[Len(n) + 1])] ELSE <<>>)
       \o (IF Append(n, "+") \in DOMAIN trie THEN b[Append(n, "+")] ELSE <<>>)
       \o (IF Append(n, "#") \in DOMAIN trie THEN <<Append(n, "#")>> ELSE <<>>)

\* The trie is closed under prefixes, and no deeper than its longest filter.
Rooted ==
  /\ \A n \in DOMAIN trie : Prefixes(n) \subseteq DOMAIN trie
  /\ \E d \in Nat : \A n \in DOMAIN trie : Len(n) <= d

LEMMA ChildIs ==
  ASSUME NEW n \in Path, NEW x
  PROVE  Len(Append(n, x)) = Len(n) + 1 /\ Len(n) \in Nat
BY DEF Path

\* The recursion ends, so there is one function that it defines.
LEMMA BelowExists ==
  ASSUME Tree, Rooted, NEW topic
  PROVE  \E b : b = [n \in DOMAIN trie |-> Below(b, n, topic)]
<1>1. PICK d \in Nat : \A n \in DOMAIN trie : Len(n) <= d
  BY DEF Rooted
<1>2. \A n \in DOMAIN trie : n \in Path /\ Len(n) \in Nat
  BY DEF Tree, Path
<1> DEFINE Deep(k) == {n \in DOMAIN trie : Len(n) + k > d}
           S == {k \in Nat : \E b : b = [n \in Deep(k) |-> Below(b, n, topic)]}
<1>3. 0 \in S
  <2>1. Deep(0) = {}
    BY <1>1, <1>2
  <2>2. PICK b : b = [n \in {} |-> <<>>]
    OBVIOUS
  <2>3. b = [n \in Deep(0) |-> Below(b, n, topic)]
    <3> HIDE DEF Deep
    <3> QED
      BY <2>1, <2>2
  <2> QED
    BY <2>3
<1>4. ASSUME NEW k \in Nat, k \in S
      PROVE  k + 1 \in S
  <2>1. PICK b : b = [n \in Deep(k) |-> Below(b, n, topic)]
    BY <1>4
  <2>2. PICK c : c = [n \in Deep(k + 1) |-> Below(b, n, topic)]
    OBVIOUS
  <2>3. \A n \in Deep(k) : n \in Deep(k + 1) /\ c[n] = b[n]
    <3>1. \A n \in Deep(k) : n \in Deep(k + 1)
      BY <1>2
    <3> HIDE DEF Deep
    <3>2. \A n \in Deep(k) : b[n] = Below(b, n, topic)
      BY <2>1
    <3>3. \A n \in Deep(k + 1) : c[n] = Below(b, n, topic)
      BY <2>2
    <3> QED
      BY <3>1, <3>2, <3>3
  <2>4. ASSUME NEW n \in Deep(k + 1), NEW x, Append(n, x) \in DOMAIN trie
        PROVE  c[Append(n, x)] = b[Append(n, x)]
    <3>1. Append(n, x) \in Deep(k)
      BY <1>2, <2>4, ChildIs
    <3> QED
      BY <2>3, <3>1
  <2> HIDE DEF Deep
  <2>5. ASSUME NEW n \in Deep(k + 1)
        PROVE  Below(c, n, topic) = Below(b, n, topic)
    BY <2>4 DEF Below
  <2>6. c = [n \in Deep(k + 1) |-> Below(c, n, topic)]
    BY <2>2, <2>5
  <2> QED
    BY <2>6
<1>5. d + 1 \in S
  <2> HIDE DEF S
  <2> QED
    BY <1>3, <1>4, Induction
<1>6. Deep(d + 1) = DOMAIN trie
  <2>1. ASSUME NEW n \in DOMAIN trie
        PROVE  Len(n) + (d + 1) > d
    BY <1>2
  <2> QED
    BY <2>1
<1> HIDE DEF Deep
<1> QED
  BY <1>5, <1>6

LEMMA MatchingIs ==
  ASSUME Tree, Rooted, NEW topic
  PROVE  \E b : b = [n \in DOMAIN trie |-> Below(b, n, topic)] /\ Matching(topic) = b[<<>>]
<1> DEFINE b == CHOOSE f : f = [n \in DOMAIN trie |-> Below(f, n, topic)]
<1>1. b = [n \in DOMAIN trie |-> Below(b, n, topic)]
  BY BelowExists, Zenon
<1>2. Matching(topic) = b[<<>>]
  BY Zenon DEF Matching, Below
<1> QED
  BY <1>1, <1>2

\* Sequences that visit different things, one behind the other.
LEMMA ConcatVisits ==
  ASSUME NEW D, NEW s \in Seq(D), NEW t \in Seq(D), IsInjective(s), IsInjective(t),
         \A m \in ToSet(s) : m \notin ToSet(t)
  PROVE  s \o t \in Seq(D) /\ IsInjective(s \o t) /\ ToSet(s \o t) = ToSet(s) \cup ToSet(t)
<1>0. PICK u : u = s \o t
  OBVIOUS
<1>1. /\ u \in Seq(D) /\ Len(s) \in Nat /\ Len(t) \in Nat /\ Len(u) = Len(s) + Len(t)
      /\ DOMAIN s = 1 .. Len(s) /\ DOMAIN t = 1 .. Len(t) /\ DOMAIN u = 1 .. Len(u)
      /\ \A i \in 1 .. Len(s) : u[i] = s[i]
      /\ \A i \in 1 .. Len(t) : u[Len(s) + i] = t[i]
  BY <1>0, ConcatProperties
<1>2. /\ ToSet(s) = {s[i] : i \in 1 .. Len(s)}
      /\ ToSet(t) = {t[i] : i \in 1 .. Len(t)}
      /\ ToSet(u) = {u[i] : i \in 1 .. Len(u)}
  BY <1>1 DEF ToSet
<1>3. ASSUME NEW i \in 1 .. Len(u)
      PROVE  \/ i \in 1 .. Len(s) /\ u[i] = s[i]
             \/ i - Len(s) \in 1 .. Len(t) /\ u[i] = t[i - Len(s)]
  <2>1. CASE i <= Len(s)
    BY <1>1, <2>1
  <2>2. CASE i > Len(s)
    <3>1. i - Len(s) \in 1 .. Len(t) /\ Len(s) + (i - Len(s)) = i
      BY <1>1, <2>2
    <3> QED
      BY <1>1, <3>1
  <2> QED
    BY <1>1, <2>1, <2>2
<1>4. ToSet(u) = ToSet(s) \cup ToSet(t)
  <2>1. ToSet(u) \subseteq ToSet(s) \cup ToSet(t)
    BY <1>2, <1>3
  <2>2. ASSUME NEW i \in 1 .. Len(s)
        PROVE  s[i] \in ToSet(u)
    BY <1>1, <1>2
  <2>3. ASSUME NEW i \in 1 .. Len(t)
        PROVE  t[i] \in ToSet(u)
    <3>1. Len(s) + i \in 1 .. Len(u) /\ u[Len(s) + i] = t[i]
      BY <1>1
    <3> QED
      BY <1>2, <3>1
  <2> QED
    BY <1>2, <2>1, <2>2, <2>3
<1>5. IsInjective(u)
  <2> SUFFICES ASSUME NEW i \in 1 .. Len(u), NEW j \in 1 .. Len(u), u[i] = u[j]
               PROVE  i = j
    BY <1>1 DEF IsInjective
  <2>1. CASE /\ i \in 1 .. Len(s) /\ u[i] = s[i]
             /\ j \in 1 .. Len(s) /\ u[j] = s[j]
    BY <1>1, <2>1 DEF IsInjective
  <2>2. CASE /\ i - Len(s) \in 1 .. Len(t) /\ u[i] = t[i - Len(s)]
             /\ j - Len(s) \in 1 .. Len(t) /\ u[j] = t[j - Len(s)]
    <3>1. PICK a \in 1 .. Len(t), b \in 1 .. Len(t) :
             a = i - Len(s) /\ b = j - Len(s) /\ t[a] = t[b]
      BY <2>2
    <3>2. a = b
      BY <1>1, <3>1 DEF IsInjective
    <3> QED
      BY <1>1, <3>1, <3>2
  <2>3. ASSUME NEW a \in 1 .. Len(s), NEW b \in 1 .. Len(t)
        PROVE  s[a] # t[b]
    BY <1>2
  <2> QED
    BY <1>3, <2>1, <2>2, <2>3
<1> QED
  BY <1>0, <1>1, <1>4, <1>5

\* What the recursion is to find from level l on: the name of the level or "+"
\* on each of the topic's levels, or "#" on one of them, which is the last.
Reaches(m, l, topic) ==
  \/ Len(m) = Len(topic) /\ \A i \in l + 1 .. Len(m) : m[i] \in {topic[i], "+"}
  \/ /\ Len(m) \in l + 1 .. Len(topic) /\ m[Len(m)] = "#"
     /\ \A i \in l + 1 .. Len(m) - 1 : m[i] \in {topic[i], "+"}

\* s visits, once each, the nodes below c that the topic reaches.
Visits(s, c, topic) ==
  /\ s \in Seq(DOMAIN trie) /\ IsInjective(s)
  /\ \A m \in DOMAIN trie : m \in ToSet(s) <=> IsPrefix(c, m) /\ Reaches(m, Len(c), topic)

LEMMA TopicsArePaths ==
  \A t \in Topics : t \in Path \ {<<>>} /\ \A i \in 1 .. Len(t) : t[i] \notin {"+", "#"}
BY TopicTrieAssumption, StringsArePaths

LEMMA Wildcards == "+" \in Level /\ "#" \in Level
BY DEF Level

LEMMA ChildIsPath ==
  ASSUME NEW n \in Path, NEW x \in Level
  PROVE  \E c \in Path : /\ c = Append(n, x) /\ Len(c) = Len(n) + 1 /\ c[Len(n) + 1] = x
                         /\ \A k \in 1 .. Len(n) : c[k] = n[k]
<1>1. Len(n) \in Nat
  BY DEF Path
<1>2. PICK c : c = Append(n, x)
  OBVIOUS
<1>3. c \in Path
  BY <1>2 DEF Path
<1>4. Len(c) = Len(n) + 1 /\ c[Len(n) + 1] = x /\ \A k \in 1 .. Len(n) : c[k] = n[k]
  BY <1>2 DEF Path
<1> QED
  BY <1>2, <1>3, <1>4

\* A path below n goes on through one of the children of n.
LEMMA StepDown ==
  ASSUME NEW n \in Path, NEW m \in Path, NEW x \in Level
  PROVE  IsPrefix(Append(n, x), m) <=> IsPrefix(n, m) /\ Len(n) < Len(m) /\ m[Len(n) + 1] = x
<1>1. PICK c \in Path : /\ c = Append(n, x) /\ Len(c) = Len(n) + 1 /\ c[Len(n) + 1] = x
                         /\ \A k \in 1 .. Len(n) : c[k] = n[k]
  BY ChildIsPath
<1>2. /\ c \in Path /\ Len(c) = Len(n) + 1 /\ c[Len(n) + 1] = x
      /\ \A k \in 1 .. Len(n) : c[k] = n[k]
      /\ Len(n) \in Nat /\ Len(m) \in Nat
  BY <1>1 DEF Path
<1>3. IsPrefix(c, m) <=> Len(c) <= Len(m) /\ \A k \in 1 .. Len(c) : c[k] = m[k]
  BY <1>2, PrefixIs
<1>4. IsPrefix(n, m) <=> Len(n) <= Len(m) /\ \A k \in 1 .. Len(n) : n[k] = m[k]
  BY PrefixIs
<1>5. Len(n) + 1 \in 1 .. Len(c) /\ \A k \in 1 .. Len(c) : k = Len(n) + 1 \/ k \in 1 .. Len(n)
  BY <1>2
<1>6. \A k \in 1 .. Len(n) : k \in 1 .. Len(c)
  BY <1>2
<1>7. Len(c) <= Len(m) <=> Len(n) < Len(m)
  BY <1>2
<1>8. (\A k \in 1 .. Len(c) : c[k] = m[k]) <=> (\A k \in 1 .. Len(n) : n[k] = m[k]) /\ m[Len(n) + 1] = x
  BY <1>2, <1>5, <1>6
<1>9. Len(n) < Len(m) => Len(n) <= Len(m)
  BY <1>2
<1> QED
  BY <1>1, <1>3, <1>4, <1>7, <1>8, <1>9

\* Nothing is below a child that is not there.
LEMMA NoChild ==
  ASSUME Tree, Rooted, NEW c \in Path, c \notin DOMAIN trie, NEW topic
  PROVE  Visits(<<>>, c, topic)
<1>1. ASSUME NEW m \in DOMAIN trie
      PROVE  ~IsPrefix(c, m)
  <2>1. m \in Path /\ Prefixes(m) \subseteq DOMAIN trie
    BY DEF Tree, Rooted
  <2> QED
    BY <2>1, PrefixesAre
<1>2. <<>> \in Seq(DOMAIN trie) /\ IsInjective(<<>>) /\ ToSet(<<>>) = {}
  BY DEF IsInjective, ToSet
<1> QED
  BY <1>1, <1>2 DEF Visits

\* What is reached below n is reached by one of the three steps down.
LEMMA Branches ==
  ASSUME NEW n \in Path, NEW topic \in Topics, Len(n) < Len(topic), NEW m \in Path,
         NEW l, l = Len(n) + 1
  PROVE  IsPrefix(n, m) /\ Reaches(m, Len(n), topic)
           <=> \/ IsPrefix(Append(n, topic[l]), m) /\ Reaches(m, l, topic)
               \/ IsPrefix(Append(n, "+"), m) /\ Reaches(m, l, topic)
               \/ m = Append(n, "#")
<1>1. /\ topic \in Path /\ Len(topic) \in Nat /\ Len(n) \in Nat /\ Len(m) \in Nat
      /\ l \in 1 .. Len(topic) /\ topic[l] \in Level /\ topic[l] \notin {"+", "#"}
  BY TopicsArePaths DEF Path
<1>2. \A x \in Level :
         IsPrefix(Append(n, x), m) <=> IsPrefix(n, m) /\ l <= Len(m) /\ m[l] = x
  BY <1>1, StepDown
<1>3. m = Append(n, "#") <=> IsPrefix(n, m) /\ l = Len(m) /\ m[l] = "#"
  <2>1. PICK c \in Path : c = Append(n, "#") /\ Len(c) = Len(n) + 1
    BY Wildcards, ChildIsPath
  <2>2. c \in Path /\ Len(c) = l
    BY <2>1
  <2>3. IsPrefix(c, m) <=> IsPrefix(n, m) /\ l <= Len(m) /\ m[l] = "#"
    BY <1>2, <2>1, Wildcards
  <2>4. IsPrefix(c, m) <=> Len(c) <= Len(m) /\ \A k \in 1 .. Len(c) : c[k] = m[k]
    BY <2>2, PrefixIs
  <2>5. Len(c) = Len(m) /\ (\A k \in 1 .. Len(c) : c[k] = m[k]) => c = m
    BY <2>2 DEF Path
  <2> QED
    BY <1>1, <2>1, <2>2, <2>3, <2>4, <2>5
<1>4. ASSUME NEW h \in Int
      PROVE  l <= h => ((\A i \in Len(n) + 1 .. h : m[i] \in {topic[i], "+"})
                          <=> m[l] \in {topic[l], "+"} /\ \A i \in l + 1 .. h : m[i] \in {topic[i], "+"})
  <2>1. l <= h => l \in l .. h /\ \A i \in l .. h : i = l \/ i \in l + 1 .. h
    BY <1>1
  <2>2. \A i \in l + 1 .. h : i \in l .. h
    BY <1>1
  <2> QED
    BY <2>1, <2>2
<1>5. l <= Len(m) =>
        (Reaches(m, Len(n), topic)
           <=> \/ m[l] \in {topic[l], "+"} /\ Reaches(m, l, topic)
               \/ l = Len(m) /\ m[l] = "#")
  <2> SUFFICES ASSUME l <= Len(m)
               PROVE  Reaches(m, Len(n), topic)
                        <=> \/ m[l] \in {topic[l], "+"} /\ Reaches(m, l, topic)
                            \/ l = Len(m) /\ m[l] = "#"
    OBVIOUS
  <2>1. CASE l = Len(m)
    <3>1. /\ Len(m) - 1 \in Int /\ Len(m) \in Int
          /\ ~(l <= Len(m) - 1) /\ Len(m) \in Len(n) + 1 .. Len(topic) /\ Len(m) \notin l + 1 .. Len(topic)
          /\ \A i \in Len(n) + 1 .. Len(m) - 1 : FALSE
      BY <1>1, <2>1
    <3> QED
      BY <1>1, <1>4, <2>1, <3>1 DEF Reaches
  <2>2. CASE l < Len(m)
    <3>1. /\ Len(m) - 1 \in Int /\ Len(m) \in Int
          /\ l <= Len(m) - 1
          /\ Len(m) \in Len(n) + 1 .. Len(topic) <=> Len(m) \in l + 1 .. Len(topic)
      BY <1>1, <2>2
    <3>2. (\A i \in Len(n) + 1 .. Len(m) : m[i] \in {topic[i], "+"})
            <=> m[l] \in {topic[l], "+"} /\ \A i \in l + 1 .. Len(m) : m[i] \in {topic[i], "+"}
      BY <1>4, <2>2, <3>1
    <3>3. (\A i \in Len(n) + 1 .. Len(m) - 1 : m[i] \in {topic[i], "+"})
            <=> m[l] \in {topic[l], "+"} /\ \A i \in l + 1 .. Len(m) - 1 : m[i] \in {topic[i], "+"}
      BY <1>4, <3>1
    <3>4. l # Len(m)
      BY <1>1, <2>2
    <3> QED
      BY <3>1, <3>2, <3>3, <3>4 DEF Reaches
  <2> QED
    BY <1>1, <2>1, <2>2
<1>6. Reaches(m, Len(n), topic) => l <= Len(m)
  BY <1>1 DEF Reaches
<1>7. "+" \in Level
  BY Wildcards
<1>8. Len(m) = l => l <= Len(m)
  BY <1>1
<1> QED
  BY <1>1, <1>2, <1>3, <1>5, <1>6, <1>7, <1>8

\* The three steps down lead to different nodes.
LEMMA Apart ==
  ASSUME NEW n \in Path, NEW m \in Path, NEW x \in Level, NEW y \in Level, x # y,
         IsPrefix(Append(n, x), m)
  PROVE  ~IsPrefix(Append(n, y), m) /\ (y = "#" => m # Append(n, "#"))
<1>1. ~IsPrefix(Append(n, y), m)
  BY StepDown
<1>2. Append(n, "#") \in Path
  BY Wildcards, ChildIsPath
<1> QED
  BY <1>1, <1>2, PrefixOrder

\* At the topic's last level a node stands for itself.
LEMMA LastLevel ==
  ASSUME Tree, NEW n \in DOMAIN trie, NEW topic \in Topics, Len(n) = Len(topic)
  PROVE  Visits(<<n>>, n, topic)
<1>1. PICK s : s = <<n>>
  OBVIOUS
<1>2. s \in Seq(DOMAIN trie) /\ Len(s) = 1 /\ s[1] = n /\ DOMAIN s = 1 .. 1
  BY <1>1
<1>3. ToSet(s) = {n} /\ IsInjective(s)
  BY <1>2 DEF ToSet, IsInjective
<1>4. n \in Path /\ Len(n) \in Nat /\ IsPrefix(n, n)
  <2>1. n \in Path
    BY DEF Tree
  <2> QED
    BY <2>1, PrefixOrder DEF Path
<1>5. ASSUME NEW m \in DOMAIN trie, IsPrefix(n, m), Reaches(m, Len(n), topic)
      PROVE  m = n
  <2>1. m \in Path /\ Len(m) \in Nat
    BY DEF Tree, Path
  <2>2. Len(m) = Len(n)
    BY <1>4, <1>5, <2>1 DEF Reaches
  <2>3. \A k \in 1 .. Len(n) : n[k] = m[k]
    BY <1>4, <1>5, <2>1, PrefixIs
  <2> QED
    BY <1>4, <2>1, <2>2, <2>3 DEF Path
<1>6. Reaches(n, Len(n), topic)
  <2>1. \A i \in Len(n) + 1 .. Len(n) : FALSE
    BY <1>4
  <2> QED
    BY <2>1 DEF Reaches
<1>7. \A m \in DOMAIN trie : m \in ToSet(s) <=> IsPrefix(n, m) /\ Reaches(m, Len(n), topic)
  BY <1>3, <1>4, <1>5, <1>6
<1> QED
  BY <1>1, <1>2, <1>3, <1>7 DEF Visits

\* Above it, a node finds what its children find, and its own "#".
LEMMA LevelAbove ==
  ASSUME Tree, Rooted, NEW n \in DOMAIN trie, NEW topic \in Topics, Len(n) < Len(topic), NEW b,
         \A c \in DOMAIN trie : Len(c) = Len(n) + 1 => Visits(b[c], c, topic)
  PROVE  Visits(Below(b, n, topic), n, topic)
<1>1. /\ n \in Path /\ topic \in Path /\ Len(n) \in Nat /\ Len(topic) \in Nat
      /\ DOMAIN trie \subseteq Path
  BY TopicsArePaths DEF Tree, Path
<1>2. PICK l, x : l \in Nat /\ l = Len(n) + 1 /\ x = topic[l]
  BY <1>1
<1>3. x \in Level /\ x \notin {"+", "#"} /\ "+" \in Level /\ "#" \in Level
  <2>1. l \in 1 .. Len(topic)
    BY <1>1, <1>2
  <2> QED
    BY <1>1, <1>2, <2>1, TopicsArePaths, Wildcards DEF Path
<1>4. PICK own \in Path : own = Append(n, x) /\ Len(own) = l
  BY <1>1, <1>2, <1>3, ChildIsPath
<1>5. PICK plus \in Path : plus = Append(n, "+") /\ Len(plus) = l
  BY <1>1, <1>2, <1>3, ChildIsPath
<1>6. PICK hash \in Path : hash = Append(n, "#") /\ Len(hash) = l
  BY <1>1, <1>2, <1>3, ChildIsPath
<1>7. PICK s1 : s1 = IF own \in DOMAIN trie THEN b[own] ELSE <<>>
  OBVIOUS
<1>8. PICK s2 : s2 = IF plus \in DOMAIN trie THEN b[plus] ELSE <<>>
  OBVIOUS
<1>9. PICK s3 : s3 = IF hash \in DOMAIN trie THEN <<hash>> ELSE <<>>
  OBVIOUS
<1>10. Below(b, n, topic) = s1 \o s2 \o s3
  <2>1. Len(n) # Len(topic)
    BY <1>1
  <2>2. /\ s1 = (IF Append(n, topic[Len(n) + 1]) \in DOMAIN trie THEN b[Append(n, topic[Len(n) + 1])] ELSE <<>>)
        /\ s2 = (IF Append(n, "+") \in DOMAIN trie THEN b[Append(n, "+")] ELSE <<>>)
        /\ s3 = (IF Append(n, "#") \in DOMAIN trie THEN <<Append(n, "#")>> ELSE <<>>)
    BY <1>2, <1>4, <1>5, <1>6, <1>7, <1>8, <1>9, Zenon
  <2> QED
    BY <2>1, <2>2, Zenon DEF Below
<1>11. Visits(s1, own, topic)
  BY <1>2, <1>4, <1>7, NoChild
<1>12. Visits(s2, plus, topic)
  BY <1>2, <1>5, <1>8, NoChild
<1>13. s3 \in Seq(DOMAIN trie) /\ IsInjective(s3) /\ ToSet(s3) = {hash} \cap DOMAIN trie
  <2>1. CASE hash \in DOMAIN trie
    <3>1. s3 \in Seq(DOMAIN trie) /\ Len(s3) = 1 /\ s3[1] = hash /\ DOMAIN s3 = 1 .. 1
      BY <1>9, <2>1
    <3> QED
      BY <2>1, <3>1 DEF ToSet, IsInjective
  <2>2. CASE hash \notin DOMAIN trie
    <3>1. s3 = <<>>
      BY <1>9, <2>2
    <3> QED
      BY <2>2, <3>1 DEF ToSet, IsInjective
  <2> QED
    BY <2>1, <2>2
<1>14. ASSUME NEW m \in DOMAIN trie
       PROVE  IsPrefix(n, m) /\ Reaches(m, Len(n), topic)
                <=> m \in ToSet(s1) \/ m \in ToSet(s2) \/ m \in ToSet(s3)
  <2>1. m \in Path
    BY <1>1
  <2>2. m \in ToSet(s1) <=> IsPrefix(own, m) /\ Reaches(m, l, topic)
    BY <1>4, <1>11 DEF Visits
  <2>3. m \in ToSet(s2) <=> IsPrefix(plus, m) /\ Reaches(m, l, topic)
    BY <1>5, <1>12 DEF Visits
  <2>4. m \in ToSet(s3) <=> m = hash
    BY <1>13
  <2> QED
    BY <1>1, <1>2, <1>4, <1>5, <1>6, <2>1, <2>2, <2>3, <2>4, Branches
<1>15. /\ s1 \in Seq(DOMAIN trie) /\ IsInjective(s1)
       /\ s2 \in Seq(DOMAIN trie) /\ IsInjective(s2)
       /\ ToSet(s1) \subseteq DOMAIN trie /\ ToSet(s2) \subseteq DOMAIN trie
  <2>1. /\ s1 \in Seq(DOMAIN trie) /\ IsInjective(s1)
        /\ s2 \in Seq(DOMAIN trie) /\ IsInjective(s2)
    BY <1>11, <1>12 DEF Visits
  <2>2. \A s \in Seq(DOMAIN trie) : ToSet(s) \subseteq DOMAIN trie
    BY DEF ToSet
  <2> QED
    BY <2>1, <2>2
<1>16. \A m \in ToSet(s1) : m \notin ToSet(s2)
  <2>1. ASSUME NEW m \in ToSet(s1)
        PROVE  m \notin ToSet(s2)
    <3>1. m \in DOMAIN trie /\ m \in Path
      BY <1>1, <1>15
    <3>2. IsPrefix(own, m)
      BY <1>11, <3>1 DEF Visits
    <3>3. ~IsPrefix(plus, m)
      BY <1>1, <1>3, <1>4, <1>5, <3>1, <3>2, Apart
    <3> QED
      BY <1>12, <3>1, <3>3 DEF Visits
  <2> QED
    BY <2>1
<1>17. hash \notin ToSet(s1) /\ hash \notin ToSet(s2)
  <2>1. ASSUME NEW m \in DOMAIN trie, IsPrefix(own, m) \/ IsPrefix(plus, m)
        PROVE  m # hash
    <3>1. m \in Path /\ "+" # "#"
      BY <1>1
    <3> QED
      BY <1>1, <1>3, <1>4, <1>5, <1>6, <2>1, <3>1, Apart
  <2> QED
    BY <1>11, <1>12, <1>15, <2>1 DEF Visits
<1>18. PICK t : t = s1 \o s2 /\ t \in Seq(DOMAIN trie) /\ IsInjective(t) /\ ToSet(t) = ToSet(s1) \cup ToSet(s2)
  <2>1. s1 \o s2 \in Seq(DOMAIN trie) /\ IsInjective(s1 \o s2) /\ ToSet(s1 \o s2) = ToSet(s1) \cup ToSet(s2)
    <3>1. PICK D : D = DOMAIN trie
      OBVIOUS
    <3>2. s1 \in Seq(D) /\ s2 \in Seq(D)
      BY <1>15, <3>1
    <3>3. s1 \o s2 \in Seq(D) /\ IsInjective(s1 \o s2) /\ ToSet(s1 \o s2) = ToSet(s1) \cup ToSet(s2)
      BY <1>15, <1>16, <3>2, ConcatVisits
    <3> QED
      BY <3>1, <3>3
  <2> QED
    BY <2>1, Zenon
<1>19. \A m \in ToSet(t) : m \notin ToSet(s3)
  BY <1>13, <1>17, <1>18
<1>20. PICK u : u = t \o s3 /\ u \in Seq(DOMAIN trie) /\ IsInjective(u) /\ ToSet(u) = ToSet(t) \cup ToSet(s3)
  <2>1. t \o s3 \in Seq(DOMAIN trie) /\ IsInjective(t \o s3) /\ ToSet(t \o s3) = ToSet(t) \cup ToSet(s3)
    <3>1. PICK D : D = DOMAIN trie
      OBVIOUS
    <3>2. t \in Seq(D) /\ s3 \in Seq(D) /\ IsInjective(t) /\ IsInjective(s3)
      BY <1>13, <1>18, <3>1
    <3>3. t \o s3 \in Seq(D) /\ IsInjective(t \o s3) /\ ToSet(t \o s3) = ToSet(t) \cup ToSet(s3)
      BY <1>19, <3>2, ConcatVisits
    <3> QED
      BY <3>1, <3>3
  <2> QED
    BY <2>1, Zenon
<1>21. \A m \in DOMAIN trie : m \in ToSet(u) <=> IsPrefix(n, m) /\ Reaches(m, Len(n), topic)
  BY <1>14, <1>18, <1>20
<1>22. Below(b, n, topic) = u
  BY <1>10, <1>18, <1>20
<1> QED
  BY <1>20, <1>21, <1>22 DEF Visits

\* From the topic's last level up to the root, as far as the trie goes.
LEMMA RecursionVisits ==
  ASSUME Tree, Rooted, NEW topic \in Topics, NEW b, b = [n \in DOMAIN trie |-> Below(b, n, topic)]
  PROVE  Visits(b[<<>>], <<>>, topic)
<1>1. topic \in Path /\ Len(topic) \in Nat /\ \A n \in DOMAIN trie : Len(n) \in Nat
  BY TopicsArePaths DEF Tree, Path
<1>2. \A n \in DOMAIN trie : b[n] = Below(b, n, topic)
  <2>1. PICK c : c = b
    OBVIOUS
  <2>2. c = [n \in DOMAIN trie |-> Below(b, n, topic)]
    BY <2>1, Zenon
  <2>3. \A n \in DOMAIN trie : c[n] = Below(b, n, topic)
    BY <2>2
  <2> QED
    BY <2>1, <2>3
<1> DEFINE S == {k \in Nat : \A n \in DOMAIN trie : Len(n) + k = Len(topic) => Visits(b[n], n, topic)}
<1>3. 0 \in S
  <2>1. ASSUME NEW n \in DOMAIN trie, Len(n) + 0 = Len(topic)
        PROVE  Visits(b[n], n, topic)
    <3>1. Len(n) = Len(topic)
      BY <1>1, <2>1
    <3>2. b[n] = <<n>>
      BY <1>2, <3>1 DEF Below
    <3> QED
      BY <3>1, <3>2, LastLevel
  <2> QED
    BY <2>1
<1>4. ASSUME NEW k \in Nat, k \in S
      PROVE  k + 1 \in S
  <2>1. ASSUME NEW n \in DOMAIN trie, Len(n) + (k + 1) = Len(topic)
        PROVE  Visits(b[n], n, topic)
    <3>1. Len(n) < Len(topic)
      BY <1>1, <2>1
    <3>2. \A c \in DOMAIN trie : Len(c) = Len(n) + 1 => Visits(b[c], c, topic)
      <4>1. ASSUME NEW c \in DOMAIN trie, Len(c) = Len(n) + 1
            PROVE  Len(c) + k = Len(topic)
        BY <1>1, <2>1, <4>1
      <4> QED
        BY <1>4, <4>1
    <3>3. Visits(Below(b, n, topic), n, topic)
      BY <3>1, <3>2, LevelAbove
    <3> QED
      BY <1>2, <3>3
  <2>2. k + 1 \in Nat
    OBVIOUS
  <2> QED
    BY <2>1, <2>2
<1>5. Len(topic) \in S
  <2> HIDE DEF S
  <2> QED
    BY <1>1, <1>3, <1>4, Induction
<1>6. <<>> \in DOMAIN trie /\ Len(<<>>) + Len(topic) = Len(topic)
  BY <1>1 DEF Tree
<1> QED
  BY <1>5, <1>6

------------------------------------------------------------------------------
(* The trie stays rooted. *)

LEMMA FilterDepth ==
  ASSUME NEW d \in Nat, NEW f \in Path, NEW T, T \subseteq Path, \A n \in T : Len(n) <= d
  PROVE  \E e \in Nat : \A n \in T \cup Prefixes(f) : Len(n) <= e
<1>1. Len(f) \in Nat /\ \A n \in Path : Len(n) \in Nat
  BY DEF Path
<1>2. ASSUME NEW n \in Prefixes(f)
      PROVE  Len(n) <= Len(f) /\ Len(n) \in Nat
  BY <1>1, PrefixesAre, PrefixIs
<1>3. d + Len(f) \in Nat
  BY <1>1
<1>4. ASSUME NEW n \in T \cup Prefixes(f)
      PROVE  Len(n) <= d + Len(f)
  <2>1. Len(n) \in Nat /\ (Len(n) <= d \/ Len(n) <= Len(f))
    BY <1>1, <1>2
  <2> QED
    BY <1>1, <2>1
<1> QED
  BY <1>3, <1>4

LEMMA StepKeepsRooted == Tree /\ Rooted /\ [Next]_vars => Rooted'
<1> SUFFICES ASSUME Tree, Rooted, [Next]_vars
             PROVE  Rooted'
  OBVIOUS
<1>0. DOMAIN trie \subseteq Path /\ Filters \subseteq Path
  BY FiltersArePaths DEF Tree
<1>1. ASSUME NEW f \in Filters, NEW h \in Handlers, Granted(f, h)
      PROVE  Rooted'
  <2>1. DOMAIN trie' = DOMAIN trie \cup Prefixes(f)
    BY <1>1 DEF Granted, Insert
  <2>2. ASSUME NEW n \in DOMAIN trie'
        PROVE  Prefixes(n) \subseteq DOMAIN trie'
    <3>1. CASE n \in DOMAIN trie
      BY <2>1, <3>1 DEF Rooted
    <3>2. CASE n \in Prefixes(f)
      BY <1>0, <2>1, <3>2, PrefixesAre, PrefixOrder
    <3> QED
      BY <2>1, <2>2, <3>1, <3>2
  <2>3. \E e \in Nat : \A n \in DOMAIN trie' : Len(n) <= e
    <3>1. PICK d \in Nat : \A n \in DOMAIN trie : Len(n) <= d
      BY DEF Rooted
    <3>2. PICK T : T = DOMAIN trie
      OBVIOUS
    <3>3. f \in Path /\ T \subseteq Path /\ \A n \in T : Len(n) <= d
      BY <1>0, <3>1, <3>2
    <3>4. \E e \in Nat : \A n \in T \cup Prefixes(f) : Len(n) <= e
      BY <3>3, FilterDepth
    <3> QED
      BY <2>1, <3>2, <3>4
  <2> QED
    BY <2>2, <2>3 DEF Rooted
<1>2. ASSUME NEW T, T \subseteq DOMAIN trie, T = DOMAIN trie', \A n \in T : Prefixes(n) \subseteq T
      PROVE  Rooted'
  BY <1>2 DEF Rooted
<1>3. ASSUME NEW f \in Filters, Unsubscribed(f)
      PROVE  Rooted'
  <2>1. CASE f \in DOMAIN trie
    <3>1. trie' = Removed(f)
      BY <1>3, <2>1 DEF Unsubscribed
    <3>2. PICK T : /\ T = DOMAIN Removed(f)
                   /\ T = {n \in DOMAIN trie : \A p \in Path : IsPrefix(p, n) => p \notin Dead(f)}
      BY <2>1, RemovedIs
    <3>3. ASSUME NEW n \in T, NEW p \in Prefixes(n)
          PROVE  p \in T
      <4>1. n \in DOMAIN trie /\ n \in Path
        BY <1>0, <3>2
      <4>2. p \in DOMAIN trie /\ p \in Path /\ IsPrefix(p, n)
        BY <3>3, <4>1, PrefixesAre DEF Rooted
      <4>3. ASSUME NEW q \in Path, IsPrefix(q, p)
            PROVE  q \notin Dead(f)
        <5>1. IsPrefix(q, n)
          BY <4>1, <4>2, <4>3, PrefixOrder
        <5> QED
          BY <3>2, <3>3, <5>1
      <4> QED
        BY <3>2, <4>2, <4>3
    <3>4. T \subseteq DOMAIN trie /\ T = DOMAIN trie'
      BY <3>1, <3>2
    <3> QED
      BY <1>2, <3>3, <3>4
  <2>2. CASE f \notin DOMAIN trie
    BY <1>3, <2>2 DEF Unsubscribed, Rooted
  <2> QED
    BY <2>1, <2>2
<1>4. CASE Forgotten
  <2>1. DOMAIN trie' = DOMAIN trie
    BY <1>4 DEF Forgotten, Cleared
  <2> QED
    BY <2>1 DEF Rooted
<1>5. CASE UNCHANGED vars
  BY <1>5 DEF vars, Rooted
<1> QED
  BY <1>1, <1>3, <1>4, <1>5 DEF Next

LEMMA InitRooted == Init => Rooted
<1> SUFFICES ASSUME Init
             PROVE  Rooted
  OBVIOUS
<1>1. DOMAIN trie = {<<>>} /\ Len(<<>>) = 0
  BY DEF Init
<1>2. Prefixes(<<>>) \subseteq {<<>>}
  <2>1. ASSUME NEW p \in Prefixes(<<>>)
        PROVE  p = <<>>
    <3>1. p \in Path /\ IsPrefix(p, <<>>)
      BY EmptyPath, PrefixesAre
    <3> QED
      BY <3>1, EmptyPath, PrefixOrder
  <2> QED
    BY <2>1
<1>3. 0 \in Nat /\ \A n \in DOMAIN trie : Len(n) <= 0
  BY <1>1
<1> QED
  BY <1>1, <1>2, <1>3 DEF Rooted

\* A node with handlers is a filter, and a filter that the recursion reaches is
\* one that fits the topic without its parent level.
LEMMA ReachesIsFits ==
  ASSUME NEW f \in Filters, NEW topic \in Topics
  PROVE  Reaches(f, 0, topic) <=> Fits(f, topic) /\ ~ParentLevel(f, topic)
<1>1. /\ Len(f) \in Nat /\ Len(f) > 0 /\ Len(topic) \in Nat
      /\ f \in Path /\ topic \in Path
  BY FiltersArePaths, TopicsArePaths DEF Path
<1>2. /\ \A i \in 1 .. Len(f) - 1 : f[i] # "#"
      /\ \A i \in 1 .. Len(topic) : topic[i] \notin {"+", "#"}
  BY TopicTrieAssumption
<1>3. 0 + 1 = 1 /\ Len(f) - 1 \in Nat /\ Len(f) \in 1 .. Len(f)
  BY <1>1
<1>4. CASE f[Len(f)] = "#"
  <2>1. ~(Len(f) = Len(topic) /\ \A i \in 1 .. Len(f) : f[i] \in {topic[i], "+"})
    BY <1>1, <1>2, <1>3, <1>4
  <2>2. Len(f) \in 1 .. Len(topic) <=> Len(f) - 1 <= Len(topic) /\ Len(f) # Len(topic) + 1
    BY <1>1
  <2>3. Fits(f, topic) <=> Len(f) - 1 <= Len(topic) /\ \A i \in 1 .. Len(f) - 1 : f[i] \in {topic[i], "+"}
    BY <1>4 DEF Fits
  <2> QED
    BY <1>3, <1>4, <2>1, <2>2, <2>3 DEF Reaches, ParentLevel
<1>5. CASE f[Len(f)] # "#"
  <2>1. Fits(f, topic) <=> Len(f) = Len(topic) /\ \A i \in 1 .. Len(f) : f[i] \in {topic[i], "+"}
    BY <1>5 DEF Fits
  <2>2. Len(f) = Len(topic) => Len(f) # Len(topic) + 1
    BY <1>1
  <2> QED
    BY <1>3, <1>5, <2>1, <2>2 DEF Reaches, ParentLevel
<1> QED
  BY <1>4, <1>5

LEMMA ReachesIsCoversInTrie ==
  ASSUME NEW f \in Filters, NEW topic \in Topics
  PROVE  Reaches(f, 0, topic) <=> CoversInTrie(f, topic)
BY ReachesIsFits DEF CoversInTrie, Covers

(***************************************************************************)
(* A message reaches the handlers of exactly the filters that MQTT says    *)
(* cover its topic, save that the parent level of "#" is missed and that a *)
(* "$" topic also reaches the filters that start with a wildcard, and each *)
(* node is visited once, after any subscriptions, unsubscriptions and      *)
(* clearings (match_topic, src/topic_trie.rs).                             *)
(***************************************************************************)
THEOREM Matches == Spec => []MatchesAsMQTT
<1>1. Init => Tree /\ Mapped /\ Rooted
  BY InitTree, InitRooted
<1>2. Tree /\ Mapped /\ Rooted /\ [Next]_vars => (Tree /\ Mapped /\ Rooted)'
  BY StepKeepsTree, StepKeepsRooted
<1>3. Tree /\ Mapped /\ Rooted => MatchesAsMQTT
  <2> SUFFICES ASSUME Tree, Rooted, NEW topic \in Topics
               PROVE  /\ {n \in ToSet(Matching(topic)) : trie[n] # <<>>} =
                            {f \in Filters : HandlersOf(f) # <<>> /\ CoversInTrie(f, topic)}
                      /\ IsInjective(Matching(topic))
    BY Zenon DEF MatchesAsMQTT
  <2>1. PICK b : b = [n \in DOMAIN trie |-> Below(b, n, topic)] /\ Matching(topic) = b[<<>>]
    BY MatchingIs
  <2>2. PICK found : found = Matching(topic) /\ Visits(found, <<>>, topic)
    <3>1. Visits(b[<<>>], <<>>, topic)
      BY <2>1, RecursionVisits, Zenon
    <3> QED
      BY <2>1, <3>1, Zenon
  <2>3. /\ IsInjective(found)
        /\ ToSet(found) \subseteq DOMAIN trie
        /\ \A n \in DOMAIN trie : n \in ToSet(found) <=> Reaches(n, 0, topic)
    <3>1. found \in Seq(DOMAIN trie) /\ IsInjective(found)
      BY <2>2 DEF Visits
    <3>2. ToSet(found) \subseteq DOMAIN trie
      BY <3>1 DEF ToSet
    <3>3. \A n \in DOMAIN trie : IsPrefix(<<>>, n)
      BY EmptyPath DEF Tree
    <3>4. Len(<<>>) = 0
      OBVIOUS
    <3> QED
      BY <2>2, <3>1, <3>2, <3>3, <3>4 DEF Visits
  <2>4. ASSUME NEW n \in DOMAIN trie, trie[n] # <<>>
        PROVE  n \in Filters /\ HandlersOf(n) # <<>>
    BY <2>4 DEF Tree, HandlersOf
  <2>5. ASSUME NEW f \in Filters, HandlersOf(f) # <<>>
        PROVE  f \in DOMAIN trie /\ trie[f] # <<>>
    BY <2>5 DEF HandlersOf
  <2>6. {n \in ToSet(found) : trie[n] # <<>>} =
          {f \in Filters : HandlersOf(f) # <<>> /\ CoversInTrie(f, topic)}
    BY <2>3, <2>4, <2>5, ReachesIsCoversInTrie
  <2> QED
    BY <2>2, <2>3, <2>6, Zenon
<1> QED
  BY <1>1, <1>2, <1>3, PTL DEF Spec
==============================================================================
