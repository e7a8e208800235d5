------------------------------ MODULE TopicTrie ------------------------------
(***************************************************************************)
(* The trie of message handlers (src/topic_trie.rs) and the map of         *)
(* subscriptions that is kept beside it (handle_suback, src/net.rs).       *)
(*                                                                         *)
(* A node is the path that leads to it, a sequence of topic levels; the    *)
(* trie maps each node it has to the handlers pushed there.  A topic       *)
(* string is the sequence of levels tokenize_topic splits it into.         *)
(*                                                                         *)
(* Every operation takes its locks from the root down, and only the read   *)
(* loop of the one live connection adds and removes, so each is one step.  *)
(***************************************************************************)
EXTENDS SequencesExt

CONSTANTS
    Filters,    \* the filters subscribed to: sequences of levels, "+" and "#"
    Topics,     \* the topics of messages: sequences of levels
    Dollar,     \* the levels that begin with "$"
    Handlers,
    MaxSubs     \* bound: subscriptions of one filter at a time

ASSUME TopicTrieAssumption ==
    /\ \A f \in Filters :
          f \in Seq(STRING) \ {<<>>} /\ \A i \in 1 .. Len(f) - 1 : f[i] # "#"
    /\ \A t \in Topics : t \in Seq(STRING) \ {<<>>} /\ \A i \in 1 .. Len(t) : t[i] \notin {"+", "#"}
    /\ MaxSubs \in Nat \ {0}

VARIABLES
    trie,           \* node -> its subscriptions, a Vec
    subscriptions,  \* State::subscriptions: filter -> the handler to subscribe again
    emptied         \* ghost: nodes whose subscriptions a clear() dropped

vars == <<trie, subscriptions, emptied>>

Init ==
    /\ trie = [n \in {<<>>} |-> <<>>]
    /\ subscriptions = [f \in {} |-> <<>>]
    /\ emptied = {}

\* Mutant: the handler is pushed before the last step down.
Insert_Early(f, h) ==
    [n \in DOMAIN trie \cup Prefixes(f) |->
        IF n = Front(f) THEN Append(IF n \in DOMAIN trie THEN trie[n] ELSE <<>>, h)
        ELSE IF n \in DOMAIN trie THEN trie[n] ELSE <<>>]

\* or_insert_with a new node on the way down, then push.
Insert(f, h) ==
    [n \in DOMAIN trie \cup Prefixes(f) |->
        IF n = f THEN Append(IF f \in DOMAIN trie THEN trie[f] ELSE <<>>, h)
        ELSE IF n \in DOMAIN trie THEN trie[n] ELSE <<>>]

\* Mutant: a node without subscriptions goes, whatever is below it.
Dead_IgnoresChildren(f) ==
    {n \in Prefixes(f) \ {<<>>} : n = f \/ trie[n] = <<>>}

\* Mutant: only the node of the filter itself goes.
Dead_LeafOnly(f) == IF \E n \in DOMAIN trie : IsStrictPrefix(f, n) THEN {} ELSE {f}

\* The clean-up of remove() from f upwards: a node goes when it has neither
\* subscriptions nor children left.
Dead(f) ==
    {n \in Prefixes(f) \ {<<>>} :
        \A m \in DOMAIN trie : IsPrefix(n, m) => IsPrefix(m, f) /\ (m = f \/ trie[m] = <<>>)}

\* A node goes with all that is below it.
Removed(f) ==
    Restrict([trie EXCEPT ![f] = <<>>], {n \in DOMAIN trie : Prefixes(n) \cap Dead(f) = {}})

\* clear(): the nodes stay.
Cleared == [n \in DOMAIN trie |-> <<>>]

\* Mutant: the wildcard is tried only when no node has the level's own name.
Matching_FirstBranch(topic) ==
    LET below[n \in DOMAIN trie] ==
            IF Len(n) = Len(topic) THEN <<n>>
            ELSE LET own == Append(n, topic[Len(n) + 1])
                     plus == Append(n, "+")
                     hash == Append(n, "#")
                 IN  (IF own \in DOMAIN trie THEN below[own]
                      ELSE IF plus \in DOMAIN trie THEN below[plus] ELSE <<>>)
                     \o (IF hash \in DOMAIN trie THEN <<hash>> ELSE <<>>)
    IN  below[<<>>]

\* match_topic(): the nodes whose subscriptions it collects, in that order.
Matching(topic) ==
    LET below[n \in DOMAIN trie] ==
            IF Len(n) = Len(topic) THEN <<n>>
            ELSE LET own == Append(n, topic[Len(n) + 1])
                     plus == Append(n, "+")
                     hash == Append(n, "#")
                 IN  (IF own \in DOMAIN trie THEN below[own] ELSE <<>>)
                     \o (IF plus \in DOMAIN trie THEN below[plus] ELSE <<>>)
                     \o (IF hash \in DOMAIN trie THEN <<hash>> ELSE <<>>)
    IN  below[<<>>]

------------------------------------------------------------------------------
HandlersOf(f) == IF f \in DOMAIN trie THEN trie[f] ELSE <<>>

Remembered(f, h) ==
    [g \in DOMAIN subscriptions \cup {f} |-> IF g = f THEN h ELSE subscriptions[g]]

\* Mutant: a filter that is in the map already keeps the handler it has there.
Granted_KeepsFirst(f, h) ==
    /\ Len(HandlersOf(f)) < MaxSubs
    /\ trie' = Insert(f, h)
    /\ subscriptions' = IF f \in DOMAIN subscriptions THEN subscriptions ELSE Remembered(f, h)
    /\ emptied' = emptied \ {f}

\* handle_suback, for a filter the server granted: TopicManager::add, then the
\* insertion in the map, which replaces.
Granted(f, h) ==
    /\ Len(HandlersOf(f)) < MaxSubs
    /\ trie' = Insert(f, h)
    /\ subscriptions' = Remembered(f, h)
    /\ emptied' = emptied \ {f}

\* handle_unsuback, for one of its filters: TopicManager::remove.
Unsubscribed(f) ==
    /\ trie' = IF f \in DOMAIN trie THEN Removed(f) ELSE trie
    /\ emptied' = emptied \ {f}
    /\ UNCHANGED subscriptions

\* block(), before it subscribes again what the map holds.
Forgotten ==
    /\ trie' = Cleared
    /\ emptied' = emptied \cup {n \in DOMAIN trie : trie[n] # <<>>}
    /\ UNCHANGED subscriptions

Next ==
    \/ \E f \in Filters, h \in Handlers : Granted(f, h)
    \/ \E f \in Filters : Unsubscribed(f)
    \/ Forgotten

Spec == Init /\ [][Next]_vars

------------------------------------------------------------------------------
(***************************************************************************)
(* The trie is a tree: the parent of every node is a node, up to the root, *)
(* which has no handlers.                                                  *)
(***************************************************************************)
TypeOK ==
    /\ trie \in [DOMAIN trie -> Seq(Handlers)]
    /\ <<>> \in DOMAIN trie /\ trie[<<>>] = <<>>
    /\ \A n \in DOMAIN trie \ {<<>>} : Front(n) \in DOMAIN trie
    /\ subscriptions \in [DOMAIN subscriptions -> Handlers]
    /\ DOMAIN subscriptions \subseteq Filters
    /\ emptied \subseteq Filters

\* The wildcards of MQTT 3.1.1, section 4.7.1.
Fits(f, topic) ==
    LET multi == f[Len(f)] = "#"
        levels == IF multi THEN Len(f) - 1 ELSE Len(f)
    IN  /\ IF multi THEN levels <= Len(topic) ELSE levels = Len(topic)
        /\ \A i \in 1 .. levels : f[i] \in {topic[i], "+"}

\* Section 4.7.2: a filter that starts with a wildcard is not for "$" topics.
LeadingWildcard(f, topic) == topic[1] \in Dollar /\ f[1] \in {"+", "#"}

Covers(f, topic) == Fits(f, topic) /\ ~LeadingWildcard(f, topic)

\* "a/#" covers "a" too, but match_topic stops at the last level of the topic.
ParentLevel(f, topic) == Len(f) = Len(topic) + 1

\* What match_topic makes of 4.7: it misses the parent level and takes a "$"
\* topic for any other.
CoversInTrie(f, topic) ==
    /\ Covers(f, topic) \/ (LeadingWildcard(f, topic) /\ Fits(f, topic))
    /\ ~ParentLevel(f, topic)

(***************************************************************************)
(* A message reaches the handlers of exactly the filters that MQTT says    *)
(* cover its topic, and each of them once, whatever was subscribed,        *)
(* unsubscribed and cleared before, with two exceptions: the parent level  *)
(* of "#" is missed, and a "$" topic also reaches the filters that fit it  *)
(* by a leading wildcard.                                                  *)
(***************************************************************************)
MatchesAsMQTT ==
    \A topic \in Topics :
        LET visited == Matching(topic)
        IN  /\ {n \in ToSet(visited) : trie[n] # <<>>} =
                  {f \in Filters : HandlersOf(f) # <<>> /\ CoversInTrie(f, topic)}
            /\ IsInjective(visited)

(***************************************************************************)
(* remove() leaves no dead branch: a leaf has a handler, or had one when   *)
(* block() cleared the trie.                                               *)
(***************************************************************************)
NoDeadBranch ==
    \A n \in DOMAIN trie \ {<<>>} :
        (\A m \in DOMAIN trie : ~IsStrictPrefix(n, m)) => trie[n] # <<>> \/ n \in emptied

(***************************************************************************)
(* The handler a reconnection would restore is the one added last, however *)
(* often the filter was subscribed.                                        *)
(***************************************************************************)
NewestRemembered ==
    \A f \in Filters :
        HandlersOf(f) # <<>> =>
            f \in DOMAIN subscriptions /\ subscriptions[f] = Last(HandlersOf(f))

(***************************************************************************)
(* The trie implements a flat store of handlers: pruning one filter never  *)
(* loses or revives those of another.                                      *)
(***************************************************************************)
Store == INSTANCE HandlerStore WITH handlers <- [f \in Filters |-> HandlersOf(f)]
RefinesStore == Store!Spec
==============================================================================
