---------------------------- MODULE MCCollector ----------------------------
(***************************************************************************)
(* Three exporters: two on one host in different observation domains, the  *)
(* third on another host in the domain of the first.  All of them use the  *)
(* same template id, the first one a second id as well, which it announces *)
(* in the same set: four templates for a store of two.  Another definition *)
(* of an id has another scope count, and so travels in the other set kind. *)
(* The second id is that of a template whose fields all have length 0.     *)
(***************************************************************************)
EXTENDS Collector

CONSTANTS e1, e2, e3, h1, h2, o1, o2, t1, t2, fixed, variable, empty

MCExporters == {e1, e2, e3}
MCSessions == {h1, h2}
MCOdids == {o1, o2}
MCTemplateIds == {t1, t2}
MCScopeCounts == {0, 1}
MCFieldLists == {fixed, variable, empty}
MCMinSize == [fields \in MCFieldLists |-> IF fields = empty THEN 0 ELSE 1]
MCVariable == {variable}
MCDataSizes == {2}

MCAddress == [e \in MCExporters |-> IF e = e3 THEN h2 ELSE h1]
MCDomain == [e \in MCExporters |-> IF e = e2 THEN o2 ELSE o1]

Definition(id, scope, fields) == [id |-> id, scope_field_count |-> scope, fields |-> fields]
MCFirstUse == [e \in MCExporters |->
                  IF e = e1 THEN {Definition(t1, 0, fixed), Definition(t2, 0, empty)}
                  ELSE {Definition(t1, 1, variable)}]
MCLaterUse == [e \in MCExporters |-> IF e = e2 THEN {Definition(t1, 0, variable)} ELSE {}]
=============================================================================
