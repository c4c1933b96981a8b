--------------------------- MODULE MCTopicMatcher ---------------------------
(***************************************************************************)
(* Instances of TopicMatcher for TLC, and of TopicFilter on every filter   *)
(* and every topic up to a length.                                         *)
(***************************************************************************)
EXTENDS TopicMatcher

CONSTANTS
    MaxFilter,      \* bound on the length of the filter
    MaxTopic        \* bound on the length of the topic

\* a, a/#, +, #, +/b, $/b
MCFilters ==
    { <<"a">>, <<"a", "/", "#">>, <<"+">>, <<"#">>, <<"+", "/", "b">>, <<"$", "/", "b">> }

\* a, a/b, $/b, /b
MCTopics ==
    { <<"a">>, <<"a", "/", "b">>, <<"$", "/", "b">>, <<"/", "b">> }

MCChar == {"a", "b", "$", "/", "+", "#"}

\* The strings of at most n characters.
Strings(chars, n) == UNION {[1 .. length -> chars] : length \in 0 .. n}

MCFilterStrings == Strings(MCChar \ {"b"}, MaxFilter)
MCTopicStrings == Strings({"a", "$", "/"}, MaxTopic)

=============================================================================
