-------------------------- MODULE MCRequestFailover --------------------------
(* Model-checking instances of RequestFailover: two observers in the two      *)
(* orders in which the circular queue hands them out.                        *)
EXTENDS RequestFailover, TLC

CONSTANTS o1, o2

Rotations == {<<o1, o2>>, <<o2, o1>>}

\* One observer comes and goes; everything can happen.
CalmWorld  == [kinds |-> {"key", "block"}, answers |-> {"200"}, bad |-> {}, flaky |-> {o1}]
RoughWorld == [kinds |-> {"send", "query", "key", "block"}, answers |-> {"200", "200bad", "silent"},
               bad |-> {"404", "500"}, flaky |-> {o1, o2}]
BothWorlds == {CalmWorld, RoughWorld}

Symmetry == Permutations(Callers)
=============================================================================
