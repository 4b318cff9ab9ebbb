----------------------- MODULE MCSessionTemplateStore -----------------------
(***************************************************************************)
(* Two exporters with two observation domains and two template ids each,   *)
(* and three definitions of which two differ in the scope count only.      *)
(***************************************************************************)
EXTENDS SessionTemplateStore, TLC

CONSTANTS s1, s2, o1, o2, t1, t2, fieldsA, fieldsB

MCSessions == {s1, s2}
MCOdids == {o1, o2}
MCTemplateIds == {t1, t2}
MCFieldLists == {fieldsA, fieldsB}
MCScopeCounts == {0, 1}

Symmetry == Permutations(MCSessions) \cup Permutations(MCOdids)
            \cup Permutations(MCTemplateIds) \cup Permutations(MCFieldLists)
=============================================================================
