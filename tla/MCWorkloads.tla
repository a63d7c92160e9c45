---------------------------- MODULE MCWorkloads ----------------------------
(* Specs for TLC: a default, and one difference each.                      *)
EXTENDS Workloads

Default == [provided |-> FALSE, ephemeral |-> FALSE, managed |-> TRUE, reports |-> TRUE,
            ingress |-> FALSE, egress |-> FALSE, isolated |-> TRUE]

\* The database's secret is generated or the user's.
TwoSecrets == {Default, [Default EXCEPT !.provided = TRUE]}

MCSpecs == TwoSecrets \union
           {[Default EXCEPT !.ephemeral = TRUE, !.reports = FALSE, !.isolated = FALSE]}
=============================================================================
