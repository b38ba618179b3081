-------------------------- MODULE MCCategorisation --------------------------
(* Two titles in every combination of scores, technology, impact, priority *)
(* and service that the rules tell apart at their thresholds.              *)
EXTENDS Categorisation

CONSTANTS t1, t2

Scores == {<<0, 0, 0>>, <<1, 0, 0>>, <<0, 1, 0>>, <<0, 3, 1>>, <<0, 0, 2>>}

Incident(t, s, tech, impact, priority, service) ==
  [title |-> t, l1 |-> s[1], l2 |-> s[2], l3 |-> s[3], code |-> FALSE,
   technology |-> tech, impact |-> impact, environment |-> "production",
   priority |-> priority, service |-> service, customer |-> FALSE,
   rejected |-> FALSE, secret |-> FALSE, dangerous |-> FALSE, context |-> TRUE]

Plain == Incident(t1, <<0, 2, 0>>, "Database", "HIGH", "P2", FALSE)

MCIncidents ==
  {Incident(t, s, tech, impact, priority, service) :
      t \in {t1, t2}, s \in Scores, tech \in {"General", "Infrastructure"},
      impact \in {"UNKNOWN", "HIGH"}, priority \in {"P1", "P4"}, service \in BOOLEAN}
    \cup {[Plain EXCEPT !.rejected = TRUE], [Plain EXCEPT !.secret = TRUE],
          [Plain EXCEPT !.code = TRUE], [Plain EXCEPT !.context = FALSE]}

MCClassified ==
  {[level |-> l, technology |-> "Network", confidence |-> c] :
      l \in {"L1", "L2", "L3", "REJECT", "l2"}, c \in {55, 65, 91}}
=============================================================================
