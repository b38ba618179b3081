-------------------------- MODULE MCIntakeWorkflow --------------------------
(* Two incidents with one title, so that each can be the other's duplicate.  *)
EXTENDS IntakeWorkflow, TLC

CONSTANTS i1, i2, title

TwoIncidents == {i1, i2}
OneTitle == {title}
SameTitle == [i \in TwoIncidents |-> title]

\* Domains of the prompt: one with an agent, one that the routing table knows
\* and the registry does not, and one that neither knows.
SomeDomains == {"Database", "Configuration", "performance"}
RoutingTable ==
  [d \in SomeDomains |->
     CASE d = "Database" -> "db_fix_agent"
       [] d = "Configuration" -> "unknown_agent"
       [] OTHER -> "manual_review"]
DatabaseAgents == {"Database"}
=============================================================================
