---------------------------- MODULE MCApiServer ----------------------------
(* Three endpoints for the model checker: one that is secured and limited,  *)
(* one that is closed and one that the configuration does not name.         *)
EXTENDS ApiServer

MCConfig ==
    [e \in Endpoints |->
        CASE e = "limited" -> [found |-> TRUE, open |-> TRUE, secured |-> TRUE, rateLimit |-> 2]
          [] e = "closed"  -> [found |-> TRUE, open |-> FALSE, secured |-> FALSE, rateLimit |-> 0]
          [] OTHER         -> [found |-> FALSE, open |-> FALSE, secured |-> FALSE, rateLimit |-> 0]]
=============================================================================
