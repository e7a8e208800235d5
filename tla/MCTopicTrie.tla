----------------------------- MODULE MCTopicTrie -----------------------------
(***************************************************************************)
(* Filters that overlap, share prefixes and are prefixes of each other.    *)
(***************************************************************************)
EXTENDS TopicTrie

MCFilters == {<<"a">>, <<"a", "b">>, <<"a", "+">>, <<"a", "#">>, <<"+", "b", "c">>}
MCTopics == {<<"a">>, <<"a", "b">>, <<"a", "c">>, <<"b", "b">>, <<"a", "b", "c">>, <<"$SYS", "b", "c">>}
MCDollar == {"$SYS"}
==============================================================================
