---------------------------- MODULE MCConnectors ----------------------------
(* An issue of GitHub, two of Jira with the same error, and an incident of    *)
(* ServiceNow that has only a title.  The GitHub issue has the error in its   *)
(* title; with the first comments its text has the form of an incident, and   *)
(* a later comment brings another error's traceback.                         *)
EXTENDS Connectors

CONSTANTS e1, e2, title, incident, i1, i2

Traceback(error) == [traceback |-> error, incident |-> None]
Incident(text) == [traceback |-> None, incident |-> text]
Plain == [traceback |-> None, incident |-> None]

Delivered(source, issue, subject, texts) ==
  [source |-> source, authentic |-> TRUE, opened |-> TRUE, labelled |-> TRUE, located |-> TRUE,
   issue |-> issue, title |-> subject, texts |-> texts]

MCDeliveries ==
  {Delivered("github_issue", i1, e1, {Plain, Incident(incident), Traceback(e2)}),
   Delivered("jira", i1, title, {Traceback(e1)}),
   Delivered("jira", i2, title, {Traceback(e1)}),
   Delivered("servicenow", i1, title, {Plain})}

MCPrints ==
  {"github_issue"} \X {None} \X {e1, e2, incident}
    \cup {"jira", "servicenow"} \X {i1, i2, None} \X {e1, title}
=============================================================================
