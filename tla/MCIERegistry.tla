--------------------------- MODULE MCIERegistry ---------------------------
(***************************************************************************)
(* Every text of at most MaxText characters over one letter and the four   *)
(* characters the reader tells apart, and tables of a header and at most   *)
(* MaxRows of the rows below: two for one id, two whose names differ in    *)
(* spelling, cells with spaces around them, a quoted cell that looks like  *)
(* a row, and rows that are to be skipped.                                 *)
(***************************************************************************)
EXTENDS IERegistry, SequencesExt, TLC

CONSTANTS MaxText, MaxRows

MCElementId == ( <<"1">> :> 1 @@ <<"2">> :> 2 @@ <<"65535">> :> 65535 )
MCDataTypes == {<<"unsigned8">>, <<"ipv4Address">>}
MCSemantics == {<<"quantity">>}
MCCurrent == {<<"current">>, <<"CURRENT">>}
MCUpper ==
    [foo |-> "FOO", Foo |-> "FOO", Bar |-> "BAR", IPv4 |-> "IPV4", Ipv4 |-> "IPV4"]
    @@ [c \in {"a", "'", ",", "CR", "LF", " ", "1", "2", "65535", "3-9"} |-> c]
    @@ [c \in {"unsigned8", "unsigned256", "ipv4Address", "quantity", "other"} |-> c]
    @@ [c \in {"current", "CURRENT", "deprecated"} |-> c]
MCNumberWord == ( 1 :> "ONE" @@ 2 :> "TWO" @@ 65535 :> "MAX" )
MCProbes == {0, 1, 2, 65535}

Cells(id, name, type, semantic, status) ==
    id \o <<",">> \o name \o <<",">> \o type \o <<",">> \o semantic \o <<",">> \o status

Lines ==
    { Cells(<<"1">>, <<"foo", "Bar">>, <<"unsigned8">>, <<"quantity">>, <<"current">>) \o <<"LF">>,
      Cells(<<" ", "1">>, <<"foo", "IPv4">>, <<"ipv4Address">>, <<>>, <<"CURRENT", " ">>) \o <<"LF">>,
      Cells(<<"2">>, <<"Foo", "Bar">>, <<"unsigned8">>, <<"other">>, <<"current">>) \o <<"CR", "LF">>,
      Cells(<<"65535">>, <<"'", "foo", "'">>, <<"unsigned8">>, <<>>,
            <<"current", ",", "'", "a", "'", "'", ",", "LF", "2", ",", "foo", "'", "LF">>),
      Cells(<<"2">>, <<"foo", "Ipv4">>, <<"ipv4Address">>, <<>>, <<"deprecated">>) \o <<"LF">>,
      Cells(<<"3-9">>, <<"foo">>, <<"unsigned8">>, <<>>, <<"current">>) \o <<"LF">>,
      Cells(<<"2">>, <<"foo">>, <<"unsigned256">>, <<>>, <<"current">>) \o <<"LF">>,
      Cells(<<"2">>, <<" ">>, <<"unsigned8">>, <<>>, <<"current">>),
      <<"1", ",", "foo", "LF">> }

MCTexts ==
    BoundedSeq({"a", "'", ",", "CR", "LF"}, MaxText)
    \cup {FlattenSeq(<<<<"a", "LF">>>> \o lines) : lines \in BoundedSeq(Lines, MaxRows)}
=============================================================================
