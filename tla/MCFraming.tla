----------------------------- MODULE MCFraming -----------------------------
(***************************************************************************)
(* Messages of up to two sets: templates with and without an enterprise    *)
(* number, an options template, data, an empty set, with and without       *)
(* padding.  A changed byte takes the values at which a set id, a length,  *)
(* a field count or the enterprise bit changes sides.                      *)
(***************************************************************************)
EXTENDS Framing

Field(id, number, length) ==
    [information_element_id |-> id, enterprise_number |-> number, field_length |-> length]
Plain == Field(8, <<>>, 4)
Private == Field(1, <<0, 0, 0, 9>>, 65535)

TemplateOf(id, scope, fields) == [id |-> id, scope_field_count |-> scope, fields |-> fields]
SetOf(set_id, templates, tail) == [set_id |-> set_id, templates |-> templates, tail |-> tail]

MCSets ==
    {SetOf(2, <<TemplateOf(256, 0, <<Plain>>)>>, <<>>),
     SetOf(2, <<TemplateOf(256, 0, <<Private>>), TemplateOf(257, 0, <<Plain, Plain>>)>>, <<0, 0>>),
     SetOf(3, <<TemplateOf(258, 1, <<Plain, Private>>)>>, <<>>),
     SetOf(2, <<>>, <<>>),
     SetOf(256, <<>>, <<7, 7, 7>>)}

MCMessages == BoundedSeq(MCSets, 2)
MCGarbage == {0, 1, 2, 3, 4, 128, 255}
=============================================================================
