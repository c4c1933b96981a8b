---------------------------- MODULE TopicFilter ----------------------------
(***************************************************************************)
(* mqtt::topic and mqtt::topic_filter (src/topic.cpp): splitting a topic   *)
(* into its fields and matching one filter.  A string is a sequence of     *)
(* characters, since the edge cases are in the characters: empty fields, a *)
(* slash at either end, a "$" or a wildcard inside a field.                *)
(***************************************************************************)
EXTENDS Integers, Sequences, FiniteSetsExt

\* The four operators of SequencesExt that are needed, without the rest of that module,
\* which would be part of every proof obligation.
Front(s) == SubSeq(s, 1, Len(s) - 1)
Last(s) == s[Len(s)]
Prefixes(s) == {SubSeq(s, 1, n) : n \in 0 .. Len(s)}
SetToSeq(S) == CHOOSE s \in [1 .. Cardinality(S) -> S] : IsInjective(s)

Plus == <<"+">>
Hash == <<"#">>

\* Where the field that begins at i ends: at the next slash, or after the last character.
FieldEnd(s, i) == Min({p \in i .. Len(s) : s[p] = "/"} \union {Len(s) + 1})

\* A loop that stops at the end of the string, and loses an empty last field.
Split_NoLastField(s) ==
    LET from[i \in 1 .. Len(s) + 1] ==
            IF i > Len(s) THEN <<>>
            ELSE <<SubSeq(s, i, FieldEnd(s, i) - 1)>>
                     \o IF FieldEnd(s, i) > Len(s) THEN <<>> ELSE from[FieldEnd(s, i) + 1]
    IN IF s = <<>> THEN <<>> ELSE from[1]

\* topic::split
Split(s) ==
    LET from[i \in 1 .. Len(s) + 1] ==
            <<SubSeq(s, i, FieldEnd(s, i) - 1)>>
                \o IF FieldEnd(s, i) > Len(s) THEN <<>> ELSE from[FieldEnd(s, i) + 1]
    IN IF s = <<>> THEN <<>> ELSE from[1]

\* The fields with a slash between them, as topic_filter::to_string() puts them.
Join(fields) ==
    LET upto[n \in 0 .. Len(fields)] ==
            CASE n = 0 -> <<>>
              [] n = 1 -> fields[1]
              [] OTHER -> upto[n - 1] \o <<"/">> \o fields[n]
    IN upto[Len(fields)]

IsWildcard(field) == field \in {Plus, Hash}
IsSystem(field) == field # <<>> /\ field[1] = "$"

HasWildcards(filter) ==
    /\ filter # <<>>
    /\ Last(filter) = "#" \/ \E i \in DOMAIN filter : filter[i] = "+"

\* topic_filter::to_string(): the constructor splits only a filter with wildcards.
FilterString(filter) == IF HasWildcards(filter) THEN Join(Split(filter)) ELSE filter

\* The fields before the first "#" are compared one by one.
FieldsMatch(fields, topicFields) ==
    LET stop == Min({i \in DOMAIN fields : fields[i] = Hash} \union {Len(fields) + 1})
    IN \A i \in 1 .. stop - 1 : fields[i] = Plus \/ fields[i] = topicFields[i]

\* A test that forgets that "a/#" matches "a".
Matches_NotParent(filter, topic) ==
    IF ~HasWildcards(filter) THEN filter = topic
    ELSE LET fields == Split(filter)
             topicFields == Split(topic)
             n == Len(fields)
             nt == Len(topicFields)
         IN /\ ~(n > nt)
            /\ ~(nt > n /\ Last(fields) # Hash)
            /\ ~(IsWildcard(fields[1]) /\ nt > 0 /\ IsSystem(topicFields[1]))
            /\ FieldsMatch(fields, topicFields)

\* topic_filter::matches.  (The test for i == nt in its loop cannot succeed: a
\* filter that is longer than the topic ends there with "#".)
Matches(filter, topic) ==
    IF ~HasWildcards(filter) THEN filter = topic
    ELSE LET fields == Split(filter)
             topicFields == Split(topic)
             n == Len(fields)
             nt == Len(topicFields)
         IN /\ ~(n > nt /\ ~(n = nt + 1 /\ Last(fields) = Hash))
            /\ ~(nt > n /\ Last(fields) # Hash)
            /\ ~(IsWildcard(fields[1]) /\ nt > 0 /\ IsSystem(topicFields[1]))
            /\ FieldsMatch(fields, topicFields)

-----------------------------------------------------------------------------
(* The reference: MQTT v5, section 4.7, which the code's comments cite.    *)

\* A filter is not empty, a wildcard is a field of its own, and "#" is the last.
IsFilter(s) ==
    LET fields == Split(s) IN
    /\ s # <<>>
    /\ \A k \in DOMAIN fields :
          /\ \A i \in DOMAIN fields[k] : fields[k][i] \in {"+", "#"} => Len(fields[k]) = 1
          /\ fields[k] = Hash => k = Len(fields)

IsTopic(s) == s # <<>> /\ \A i \in DOMAIN s : s[i] \notin {"+", "#"}

\* A "+" stands for one level, a last "#" for its parent level and all below it,
\* and neither of them for a first level that begins with "$".
SpecMatches(filter, topic) ==
    LET fields == Split(filter)
        levels == Split(topic)
        body == IF Last(fields) = Hash THEN Front(fields) ELSE fields
    IN /\ IF Last(fields) = Hash THEN Len(levels) >= Len(body) ELSE Len(levels) = Len(body)
       /\ \A i \in DOMAIN body : body[i] \in {Plus, levels[i]}
       /\ fields[1] \in {Plus, Hash} => ~IsSystem(levels[1])

=============================================================================
