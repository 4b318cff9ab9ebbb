-------------------------- MODULE MCJsonCollector --------------------------
(***************************************************************************)
(* Captures of at most MaxFrames frames.  Two domains use one template id, *)
(* one of them for two definitions of the same length; another definition  *)
(* has a varlen field, an element twice and one of a width nobody reads.   *)
(* Bytes have three values, 2 announces a two-byte length, and addresses   *)
(* are as short as two bytes.                                              *)
(***************************************************************************)
EXTENDS JsonCollector

CONSTANTS unit, o1, o2, t1, t2

MCSessions == {unit}
MCOdids == {o1, o2}
MCTemplateIds == {t1, t2}
MCScopeCounts == {0}

MCWidth == [u8 |-> 1, u16 |-> 1, u32 |-> 1, u64 |-> 2, ipv4 |-> 1, ipv6 |-> 2, mac |-> 2]

Iana(element, length) == [element |-> element, enterprise |-> FALSE, length |-> length]
Vendor(element, length) == [element |-> element, enterprise |-> TRUE, length |-> length]

FlowsV4 == <<Iana("sourceIPv4Address", 1), Iana("octetDeltaCount", 2)>>
Redefined == <<Iana("octetDeltaCount", 2), Iana("sourceIPv4Address", 1)>>
FlowsV6 == <<Iana("sourceIPv6Address", 2), Vendor("vendorName", VariableLength),
             Iana("octetDeltaCount", 2), Iana("packetDeltaCount", 1), Iana("octetDeltaCount", 2),
             Iana("protocolIdentifier", 1)>>
ReverseFlows == <<Iana("sourceIPv4Address", 1), Vendor("octetDeltaCount", 2)>>
MCFieldLists == {FlowsV4, Redefined, FlowsV6, ReverseFlows}

Definition(id, fields) == [id |-> id, scope_field_count |-> 0, fields |-> fields]
A == Definition(t1, FlowsV4)
B == Definition(t1, Redefined)
C == Definition(t2, FlowsV6)
R == Definition(t1, ReverseFlows)

Announce(records) == [kind |-> "Template", records |-> records]
AnnounceOptions(records) == [kind |-> "OptionsTemplate", records |-> records]
Malformed == [kind |-> "Malformed"]

DataSet(definition, records, tail) ==
    [kind |-> "Data", definition |-> definition, records |-> records, tail |-> tail]

DataA == DataSet(A, << <<<<1>>, 2>>, <<<<2>>, 3>> >>, <<0>>)
DataB == DataSet(B, << <<1, <<2>>>> >>, <<>>)
\* Two records and the start of a third, whose varlen field is cut short.
DataC == DataSet(C, << <<<<1, 1>>, <<>>, 1, 2, 5, 2>>, <<<<1, 2>>, <<1, 0>>, 1, 1, 8, 0>> >>,
                 <<1, 1, 2, 2, 2, 0, 0, 0, 0>>)
DataR == DataSet(R, << <<<<1>>, 2>> >>, <<>>)

Sent(odid, sets) == [version |-> 10, odid |-> odid, sequence |-> 7, sets |-> sets]
NotIpfix == [version |-> 9, odid |-> o1, sequence |-> 7, sets |-> <<>>]

Frame(ethertype, ihl, protocol, size, message) ==
    [ethertype |-> ethertype, ihl |-> ihl, protocol |-> protocol,
     len |-> 14 + ihl + 8 + size, message |-> message]
Udp(options, message) == Frame(2048, 20 + options, 17, 16, message)

Messages ==
    { Sent(o1, <<Announce(<<A>>)>>), Sent(o1, <<Announce(<<B>>)>>),
      Sent(o1, <<Announce(<<A, C>>)>>), Sent(o1, <<AnnounceOptions(<<C, Bad, A>>), DataC>>),
      Sent(o1, <<DataA>>), Sent(o1, <<DataB>>), Sent(o1, <<DataC, DataA>>),
      Sent(o1, <<DataA, Malformed, Announce(<<A>>)>>), Sent(o1, <<Announce(<<Bad>>), Announce(<<A>>), DataA>>),
      Sent(o2, <<Announce(<<B>>), DataB>>), Sent(o2, <<DataA>>), Sent(o2, <<Announce(<<A>>), Announce(<<C>>)>>),
      NotIpfix }

MCFrames ==
    {Udp(0, message) : message \in Messages}
    \cup { Frame(2048, 20, 6, 16, NoMessage),    \* TCP
           Frame(2048, 20, 17, 0, NoMessage),    \* an empty datagram
           Frame(2054, 0, 0, 20, NoMessage) }    \* ARP

\* An enterprise's own element with the number of an IANA element, as in the
\* reverse elements of RFC 5103.
ReverseFrames == {Udp(0, Sent(o1, <<Announce(<<R>>)>>)), Udp(0, Sent(o1, <<DataR>>))}
=============================================================================
