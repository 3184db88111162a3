------------------------------- MODULE MCApi --------------------------------
(* A bounded instance of Api: the two connection rules of setupAlerts. *)
EXTENDS Api

MCRules == << [condition |-> "gt", threshold |-> 0, cooldown |-> 2],
              [condition |-> "eq", threshold |-> 0, cooldown |-> 1] >>
=============================================================================
