---------------------------- MODULE NodesRegistry ----------------------------
(***************************************************************************)
(* What the observers provider promises its users: it knows the nodes of    *)
(* the configuration and which of them are synced.  A check round asks      *)
(* every configured node once; what it found takes effect for all nodes at  *)
(* once, when the round is over.  A reload replaces the configuration and   *)
(* trusts every new node until the next round.                              *)
(***************************************************************************)
CONSTANTS Configs   \* the configurations, each a set of nodes

VARIABLES config,   \* the nodes the proxy uses
          good,     \* those offered as synced
          asked,    \* nodes asked in the running check round
          passed,   \* those of them that are synced
          phase     \* "idle" or "checking"

vars == <<config, good, asked, passed, phase>>

Init == /\ config \in Configs
        /\ good = config
        /\ asked = {} /\ passed = {}
        /\ phase = "idle"

StartCheck == /\ phase = "idle"
              /\ phase' = "checking"
              /\ UNCHANGED <<config, good, asked, passed>>

Ask == /\ phase = "checking"
       /\ \E n \in config \ asked :
             /\ asked' = asked \cup {n}
             /\ passed' \in {passed, passed \cup {n}}
       /\ UNCHANGED <<config, good, phase>>

Verdict == /\ phase = "checking"
           /\ asked = config
           /\ good' = passed
           /\ asked' = {} /\ passed' = {}
           /\ phase' = "idle"
           /\ UNCHANGED config

Reload == /\ phase = "idle"
          /\ config' \in Configs
          /\ good' = config'
          /\ UNCHANGED <<asked, passed, phase>>

Next == StartCheck \/ Ask \/ Verdict \/ Reload

Spec == Init /\ [][Next]_vars
=============================================================================
