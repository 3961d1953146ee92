--------------------------- MODULE MCModelAdapter ---------------------------
(* Three providers, listed out of rank order, and requests that tell them  *)
(* apart: anybody may serve the plain one, the local provider alone the    *)
(* restricted one, and the review wants another provider than the last.    *)
EXTENDS ModelAdapter

MCConfig == <<
    [rank |-> 3, zones |-> {"green", "red"}, context |-> 1, tier |-> 1, features |-> {}],
    [rank |-> 1, zones |-> {"green"}, context |-> 2, tier |-> 3, features |-> {"vision"}],
    [rank |-> 2, zones |-> {"green"}, context |-> 2, tier |-> 2, features |-> {}] >>

MCRequest == {
    [zone |-> "green", context |-> 1, tier |-> 1, features |-> {}, different |-> FALSE],
    [zone |-> "red",   context |-> 1, tier |-> 1, features |-> {}, different |-> FALSE],
    [zone |-> "green", context |-> 2, tier |-> 2, features |-> {}, different |-> TRUE] }
=============================================================================
