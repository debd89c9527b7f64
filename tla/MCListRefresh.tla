---------------------------- MODULE MCListRefresh ----------------------------
(* Two remote lists: one that changes and goes back, and one whose body is  *)
(* always the same but not its ETag.                                        *)
EXTENDS ListRefresh

MCEtags == [news |-> {"n1", "n2"}, base |-> {"b1", "b2"}]

MCBodyOf == [n1 |-> "old", n2 |-> "new", b1 |-> "only", b2 |-> "only"]

(* A configuration with one list, one with both                             *)
Small == [lists |-> <<"news">>, route |-> {"news"}, dns |-> {}, auto |-> TRUE]

Large == [lists |-> <<"base", "news">>, route |-> {"base"}, dns |-> {"news"}, auto |-> TRUE]

MCConfigs == {Small, Large}

OnlySmall == {Small}
==============================================================================
