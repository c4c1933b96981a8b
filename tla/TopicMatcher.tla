---------------------------- MODULE TopicMatcher ----------------------------
(***************************************************************************)
(* mqtt::topic_matcher (include/mqtt/topic_matcher.h): a trie of topic     *)
(* filters with an iterator over all of them and one over the filters that *)
(* match a topic.  A node is the path of fields that leads to it.  The     *)
(* collection may be changed between two increments of an iterator; the    *)
(* recursion of next() is a sequence of steps that nothing interrupts.     *)
(***************************************************************************)
EXTENDS TopicFilter

CONSTANTS
    Char,           \* the characters of strings
    Filters,        \* the filters that may be inserted, as strings
    Topics,         \* the topics that may be searched for
    FilterStrings,  \* strings that single filters are made from
    TopicStrings    \* strings that they are compared with

ASSUME StringsAssumption ==
    Filters \union Topics \union FilterStrings \union TopicStrings \subseteq Seq(Char)
ASSUME FiltersAssumption == \A f \in Filters : IsFilter(f)
ASSUME TopicsAssumption == \A t \in Topics : IsTopic(t)

VARIABLES
    nodes,          \* the nodes of the trie
    content,        \* the nodes whose content is not null
    it,             \* an iterator: what it iterates over, its stack, where it stands
    found,          \* the values the iterator has pointed to
    kept,           \* the values that were there from its creation to its end
    tidy            \* no node was awkward for the search in all that time

vars == <<nodes, content, it, found, kept, tidy>>

Root == <<>>
Child(node, field) == Append(node, field)
HasChild(node, field) == Child(node, field) \in nodes

\* The stack of an iterator starts with the root and all fields of the topic.
FirstNode(topic) == [node |-> Root, fields |-> Split(topic), first |-> TRUE]

\* Awkward for the search: a "#" without a value, or beside a value of its parent.
Untidy ==
    \E node \in nodes :
       HasChild(node, Hash) /\ (Child(node, Hash) \notin content \/ node \in content)

\* No iterator is in use, or the one that was is forgotten.
NoIterator == [kind |-> "all", topic |-> <<>>, stack |-> <<>>, pos |-> "end"]

Init ==
    /\ nodes = {Root}
    /\ content = {}
    /\ it = NoIterator
    /\ found = <<>>
    /\ kept = {}
    /\ tidy = TRUE

-----------------------------------------------------------------------------
(* The collection, changed while no iterator is inside next().             *)

\* What the change of the collection means for an iterator in use.
Observe ==
    IF it.pos = "end"
    THEN it' = NoIterator /\ found' = <<>> /\ kept' = {} /\ tidy' = TRUE
    ELSE /\ kept' = kept \intersect content'
         /\ tidy' = (tidy /\ ~Untidy')
         /\ UNCHANGED <<it, found>>

InsertFilter(filter) ==
    /\ it.pos # "next"
    /\ nodes' = nodes \union Prefixes(Split(filter))
    /\ content' = content \union {Split(filter)}
    /\ Observe

\* The value goes, its node stays.
RemoveFilter(filter) ==
    /\ it.pos # "next"
    /\ content' = content \ {Split(filter)}
    /\ UNCHANGED nodes
    /\ Observe

\* A prune that erases every child with no content, whatever is below it.
Prune_Shallow ==
    /\ it.pos = "end"
    /\ nodes' = content \union {Root}
    /\ UNCHANGED content
    /\ Observe

\* prune() erases nodes bottom-up; it invalidates an iterator, so none is in use.
Prune ==
    /\ it.pos = "end"
    /\ nodes' = {Root} \union UNION {Prefixes(node) : node \in content}
    /\ UNCHANGED content
    /\ Observe

-----------------------------------------------------------------------------
(* The iterators.                                                          *)

Begin(kind, topic) ==
    /\ it.pos = "end"
    /\ it' = [kind |-> kind, topic |-> topic, stack |-> <<FirstNode(topic)>>, pos |-> "next"]
    /\ found' = <<>>
    /\ kept' = content
    /\ tidy' = ~Untidy
    /\ UNCHANGED <<nodes, content>>

Increment ==
    /\ it.pos = "at"
    /\ it' = [it EXCEPT !.pos = "next"]
    /\ UNCHANGED <<nodes, content, found, kept, tidy>>

\* The user abandons the iterator, as has_match() does with its own.
Drop ==
    /\ it.pos = "at"
    /\ it' = NoIterator /\ found' = <<>> /\ kept' = {} /\ tidy' = TRUE
    /\ UNCHANGED <<nodes, content>>

\* next() returns with the content of the node, and an empty one looks like end().
Yield(node, stack) ==
    /\ it' = [it EXCEPT !.stack = stack, !.pos = IF node \in content THEN "at" ELSE "end"]
    /\ found' = IF node \in content THEN Append(found, node) ELSE found

\* next() calls itself.
Search(stack) ==
    /\ it' = [it EXCEPT !.stack = stack]
    /\ UNCHANGED found

NextEnds ==
    /\ it.pos = "next" /\ it.stack = <<>>
    /\ it' = [it EXCEPT !.pos = "end"]
    /\ UNCHANGED <<nodes, content, found, kept, tidy>>

\* An iterator that takes a node with a value for a leaf.
AllNext_Leaf ==
    /\ it.pos = "next" /\ it.stack # <<>> /\ it.kind = "all"
    /\ LET top == Last(it.stack)
           children == {node \in nodes : node # Root /\ Front(node) = top.node}
           below == SetToSeq({[top EXCEPT !.node = node] : node \in children})
       IN IF top.node \in content THEN Yield(top.node, Front(it.stack))
                                  ELSE Search(Front(it.stack) \o below)
    /\ UNCHANGED <<nodes, content, kept, tidy>>

\* iterator::next(); std::map orders the children, which nothing depends on.
AllNext ==
    /\ it.pos = "next" /\ it.stack # <<>> /\ it.kind = "all"
    /\ LET top == Last(it.stack)
           children == {node \in nodes : node # Root /\ Front(node) = top.node}
           below == SetToSeq({[top EXCEPT !.node = node] : node \in children})
           stack == Front(it.stack) \o below
       IN IF top.node \in content THEN Yield(top.node, stack) ELSE Search(stack)
    /\ UNCHANGED <<nodes, content, kept, tidy>>

\* A search that forgets that "a/#" matches "a".
TopicEnds_NotParent ==
    /\ it.pos = "next" /\ it.stack # <<>> /\ it.kind = "match"
    /\ LET node == Last(it.stack).node
           stack == Front(it.stack)
       IN /\ Last(it.stack).fields = <<>>
          /\ IF node \in content THEN Yield(node, stack) ELSE Search(stack)
    /\ UNCHANGED <<nodes, content, kept, tidy>>

\* match_iterator::next() at a node where the topic ends: the node's value, or else
\* that of its "#", which matches the parent topic.
TopicEnds ==
    /\ it.pos = "next" /\ it.stack # <<>> /\ it.kind = "match"
    /\ LET node == Last(it.stack).node
           stack == Front(it.stack)
       IN /\ Last(it.stack).fields = <<>>
          /\ CASE node \in content -> Yield(node, stack)
               [] node \notin content /\ HasChild(node, Hash) -> Yield(Child(node, Hash), stack)
               [] OTHER -> Search(stack)
    /\ UNCHANGED <<nodes, content, kept, tidy>>

\* A search that lets wildcards match a first field with "$".
Descend_System ==
    /\ it.pos = "next" /\ it.stack # <<>> /\ it.kind = "match"
    /\ Last(it.stack).fields # <<>>
    /\ LET top == Last(it.stack)
           below(field) ==
               IF HasChild(top.node, field)
               THEN <<[node |-> Child(top.node, field), fields |-> Tail(top.fields), first |-> FALSE]>>
               ELSE <<>>
           stack == Front(it.stack) \o below(Head(top.fields)) \o below(Plus)
       IN IF HasChild(top.node, Hash) THEN Yield(Child(top.node, Hash), stack) ELSE Search(stack)
    /\ UNCHANGED <<nodes, content, kept, tidy>>

\* A search that yields the value of "#" and also leaves its node on the stack.
Descend_HashPushed ==
    /\ it.pos = "next" /\ it.stack # <<>> /\ it.kind = "match"
    /\ Last(it.stack).fields # <<>>
    /\ LET top == Last(it.stack)
           wild == ~top.first \/ ~IsSystem(Head(top.fields))
           below(field, fields) ==
               IF HasChild(top.node, field)
               THEN <<[node |-> Child(top.node, field), fields |-> fields, first |-> FALSE]>>
               ELSE <<>>
           stack == Front(it.stack) \o below(Head(top.fields), Tail(top.fields))
                        \o IF wild THEN below(Plus, Tail(top.fields)) \o below(Hash, <<>>) ELSE <<>>
       IN IF wild /\ HasChild(top.node, Hash)
          THEN Yield(Child(top.node, Hash), stack) ELSE Search(stack)
    /\ UNCHANGED <<nodes, content, kept, tidy>>

\* match_iterator::next() at a node above the end of the topic.
Descend ==
    /\ it.pos = "next" /\ it.stack # <<>> /\ it.kind = "match"
    /\ Last(it.stack).fields # <<>>
    /\ LET top == Last(it.stack)
           field == Head(top.fields)
           wild == ~top.first \/ ~IsSystem(field)
           below(f) ==
               IF HasChild(top.node, f)
               THEN <<[node |-> Child(top.node, f), fields |-> Tail(top.fields), first |-> FALSE]>>
               ELSE <<>>
           stack == Front(it.stack) \o below(field) \o IF wild THEN below(Plus) ELSE <<>>
       IN IF wild /\ HasChild(top.node, Hash)
          THEN Yield(Child(top.node, Hash), stack) ELSE Search(stack)
    /\ UNCHANGED <<nodes, content, kept, tidy>>

Change == Prune \/ \E f \in Filters : InsertFilter(f) \/ RemoveFilter(f)
StartIterator == Begin("all", <<>>) \/ \E t \in Topics : Begin("match", t)
Iterate == NextEnds \/ AllNext \/ TopicEnds \/ Descend

Next == Change \/ StartIterator \/ Increment \/ Drop \/ Iterate

Spec == Init /\ [][Next]_vars

-----------------------------------------------------------------------------
(* Properties.                                                             *)

\* Every node of the trie has its parent in it, and an iterator that is in use
\* points only to nodes of the trie.
TypeOK ==
    /\ Root \in nodes
    /\ \A node \in nodes \ {Root} : Front(node) \in nodes
    /\ content \subseteq nodes
    /\ kept \subseteq {Split(f) : f \in Filters}
    /\ tidy \in BOOLEAN
    /\ it.pos \in {"at", "next", "end"} /\ it.kind \in {"all", "match"}
    /\ it.pos # "end" => \A i \in DOMAIN it.stack : it.stack[i].node \in nodes

\* The trie and topic_filter::matches agree: what matches() points to is a filter
\* that matches the topic, the rule for "$" included.
OnlyMatches ==
    it.kind = "match" => \A node \in Range(found) : Matches(Join(node), it.topic)

\* No filter is given twice by one iterator, whatever is inserted or removed on the way.
NoRepeat == IsInjective(found)

\* A search in a collection without awkward nodes gives every matching filter that
\* is there from its start to its end.
SearchComplete ==
    (it.kind = "match" /\ it.pos = "end" /\ tidy) =>
        \A node \in kept : Matches(Join(node), it.topic) => node \in Range(found)

\* begin() visits every filter that is there from its start to its end, also when
\* others are inserted and removed on the way, and leaves no empty node unpassed.
AllItems == (it.kind = "all" /\ it.pos = "end") => kept \subseteq Range(found)

\* What the documentation of the class says of matches(), in any collection.
AllMatchesFound ==
    (it.kind = "match" /\ it.pos = "end") =>
        \A node \in kept : Matches(Join(node), it.topic) => node \in Range(found)

(* Two properties of topic_filter alone; TLC evaluates them once, in the   *)
(* state where there is no trie yet.                                       *)

\* topic_filter::matches agrees with the MQTT specification on every filter and
\* topic that the specification allows.
FilterMatchesSpec ==
    Init => \A filter \in {f \in FilterStrings : IsFilter(f)},
               topic \in {t \in TopicStrings : IsTopic(t)} :
                   Matches(filter, topic) <=> SpecMatches(filter, topic)

\* A topic_filter gives back the string it was made from, whatever its fields.
FilterRoundTrip == Init => \A filter \in FilterStrings : FilterString(filter) = filter

=============================================================================
