---------------------------- MODULE MCEntitiesList ----------------------------
(* Small instances of EntitiesList and AnalyticsReport for TLC.            *)
EXTENDS AnalyticsReport

MCFilters == {Entities, Entities \ {1}}
MCTerms == {{n} : n \in Nodes} \cup {NoTerm}
MCNoTerms == {NoTerm}
===============================================================================
