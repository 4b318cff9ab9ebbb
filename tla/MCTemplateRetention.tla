------------------------ MODULE MCTemplateRetention ------------------------
(***************************************************************************)
(* Three exporters compete for a store of three entries; every exporter    *)
(* announces two template ids in two definitions.                          *)
(***************************************************************************)
EXTENDS TemplateRetention, TLC

CONSTANTS s1, s2, s3, o1, t1, t2, fieldsA

MCSessions == {s1, s2, s3}
MCOdids == {o1}
MCTemplateIds == {t1, t2}
MCFieldLists == {fieldsA}
MCScopeCounts == {0, 1}

Symmetry == Permutations(MCSessions) \cup Permutations(MCTemplateIds)

\* The history does not depend on what the last call was.
HistoryView == <<templates, recency, to_remove, announced, rivals>>
=============================================================================
