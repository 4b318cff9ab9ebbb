--------------------------- MODULE JsonCollector ---------------------------
(***************************************************************************)
(* The collector of examples/json_collector.rs: it reads the UDP payloads  *)
(* of a capture file, decodes them as IPFIX messages, and prints one flow  *)
(* for every data record whose template it has met.  One store and one     *)
(* session serve all exporters of the capture.                             *)
(*                                                                         *)
(* Data sets are bytes, cut into records and fields by the operators of    *)
(* RecordBytes; sets, template records and headers are values, as in       *)
(* Collector.  An optional value is a sequence, empty for None.            *)
(***************************************************************************)
EXTENDS SessionTemplateStore, RecordBytes

CONSTANTS
    Frames,        \* the frames a capture may hold
    MaxFrames,     \* bound: frames of a capture
    Bad,           \* a template record that cannot be decoded
    NoMessage,     \* what a frame carries that is no UDP datagram
    Width          \* kind of value -> the number of bytes it is read from

VARIABLES
    captured,    \* the capture
    stage,
    frame_idx,   \* the next block of the capture
    payloads,    \* the UDP payloads found
    datagram,    \* the payload, the set of it and the template record in hand
    set_idx,
    record_idx,
    layout,      \* the fields of the template in force for the data set in hand
    rest,        \* what is left of that data set
    unread,      \* what is left of the record in hand
    field_idx,   \* the next field of it, 0 between records
    flow,        \* what its fields have said so far
    emitted      \* the lines printed, each with the payload and set it came from

loadVars == <<captured, frame_idx, payloads>>
placeVars == <<stage, datagram, set_idx, record_idx>>
dataVars == <<layout, rest, unread, field_idx, flow, emitted>>
jsonVars == <<vars, loadVars, placeVars, dataVars>>

Unit == CHOOSE session \in Sessions : TRUE
NoLayout == <<>>
TemplateKinds == {"Template", "OptionsTemplate"}
EthHdr == 14
Lengths(fields) == [i \in DOMAIN fields |-> fields[i].length]

-----------------------------------------------------------------------------
(* What a flow shows.                                                      *)

Reads(member, kind) == [member |-> member, kind |-> kind, version |-> ""]
ReadsSource(kind, version) == [member |-> "src_addr", kind |-> kind, version |-> version]

\* The elements a flow shows, the member each goes to and how it is read.
Projected ==
    [sourceIPv4Address |-> ReadsSource("ipv4", "v4"),
     destinationIPv4Address |-> Reads("dst_addr", "ipv4"),
     ipNextHopIPv4Address |-> Reads("next_hop", "ipv4"),
     sourceIPv6Address |-> ReadsSource("ipv6", "v6"),
     destinationIPv6Address |-> Reads("dst_addr", "ipv6"),
     ipNextHopIPv6Address |-> Reads("next_hop", "ipv6"),
     sourceTransportPort |-> Reads("src_port", "u16"),
     destinationTransportPort |-> Reads("dst_port", "u16"),
     protocolIdentifier |-> Reads("protocol", "u8"),
     tcpControlBits |-> Reads("tcp_flags", "u8"),
     octetDeltaCount |-> Reads("octets", "u64"),
     packetDeltaCount |-> Reads("packets", "u64"),
     ingressInterface |-> Reads("ingress_if", "u32"),
     egressInterface |-> Reads("egress_if", "u32"),
     sourceMacAddress |-> Reads("src_mac", "mac"),
     destinationMacAddress |-> Reads("dst_mac", "mac"),
     flowStartMilliseconds |-> Reads("flow_start_ms", "u64"),
     flowEndMilliseconds |-> Reads("flow_end_ms", "u64")]

Members == {Projected[element].member : element \in DOMAIN Projected}
Versions == {""} \cup {Projected[element].version : element \in DOMAIN Projected}
NumberKinds == {"u8", "u16", "u32", "u64"}
Absent == <<>>
Flows == [version : Versions, members : [Members -> Seq(Nat)]]
EmptyFlow == [version |-> "", members |-> [member \in Members |-> Absent]]

-----------------------------------------------------------------------------
(* What a capture holds.  An exporter writes its values one behind the     *)
(* other, a varlen one behind its length (RFC 7011 sections 3.4.3 and 7).  *)

\* The values of this field are numbers, and are written as numbers.
IsNumber(field) ==
    /\ field.length # VariableLength
    /\ field.element \in DOMAIN Projected /\ Projected[field.element].kind \in NumberKinds

\* What is left of a number when its last n digits are taken away.
Quotients(number, length) ==
    LET quotient[n \in 0..length] == IF n = 0 THEN number ELSE quotient[n - 1] \div Base
    IN  quotient

Digits(number, length) == [i \in 1..length |-> Quotients(number, length)[length - i] % Base]

Prefix(size) ==
    IF size < LongMarker THEN <<size>> ELSE <<LongMarker, size \div Base, size % Base>>

Written(field, value) ==
    IF field.length = VariableLength THEN Prefix(Len(value)) \o value
    ELSE IF IsNumber(field) THEN Digits(value, field.length)
    ELSE value

Fits(field, value) ==
    IF IsNumber(field)
    THEN value \in Nat /\ Quotients(value, field.length)[field.length] = 0
    ELSE /\ value \in Seq(Byte)
         /\ IF field.length = VariableLength THEN Len(value) <= VariableLength
            ELSE Len(value) = field.length

\* The last n values of a record, and all of them.
ValuesWritten(fields, record) ==
    LET written[n \in 0..Len(fields)] ==
            IF n = 0 THEN <<>>
            ELSE LET i == Len(fields) - n + 1
                 IN  Written(fields[i], record[i]) \o written[n - 1]
    IN  written

RecordWritten(fields, record) == ValuesWritten(fields, record)[Len(fields)]

\* The last n records of a data set with what stands behind them, and all of it.
RecordsWritten(set) ==
    LET written[n \in 0..Len(set.records)] ==
            IF n = 0 THEN set.tail
            ELSE LET r == Len(set.records) - n + 1
                 IN  RecordWritten(set.definition.fields, set.records[r]) \o written[n - 1]
    IN  written

BytesOf(set) == RecordsWritten(set)[Len(set.records)]

IsSequence(s) == Len(s) \in Nat /\ DOMAIN s = 1..Len(s)

\* What stands behind the records is padding, or a record that is cut short.
IsDataSet(set) ==
    LET fields == set.definition.fields
    IN  /\ set.definition \in Template
        /\ IsSequence(set.records)
        /\ \A r \in DOMAIN set.records :
               /\ DOMAIN set.records[r] = DOMAIN fields
               /\ \A i \in DOMAIN fields : Fits(fields[i], set.records[r][i])
        /\ set.tail \in Seq(Byte) /\ CutsOf(Lengths(fields), set.tail) = {}

IsSet(set) ==
    \/ set.kind = "Malformed"
    \/ set.kind \in TemplateKinds /\ set.records \in Seq(Template \cup {Bad})
    \/ set.kind = "Data" /\ IsDataSet(set)

IsMessage(message) ==
    /\ message.version \in Nat /\ message.odid \in Odids /\ message.sequence \in Nat
    /\ IsSequence(message.sets) /\ \A j \in DOMAIN message.sets : IsSet(message.sets[j])

\* The headers tell a UDP datagram with something in it from all else.
IsFrame(frame) ==
    /\ frame.len \in Nat /\ frame.ihl \in Nat
    /\ frame.message # NoMessage => IsMessage(frame.message)
    /\ frame.message # NoMessage <=>
           /\ frame.ethertype = 2048 /\ frame.protocol = 17
           /\ frame.ihl >= 20 /\ frame.len > EthHdr + frame.ihl + 8

FieldSpecifier == [element : STRING, enterprise : BOOLEAN, length : U16]

\* All exporters share the session; a template record has fields (template.rs
\* 175, 224).
ASSUME JsonAssumption ==
    /\ Sessions # {} /\ \A s, t \in Sessions : s = t
    /\ FieldLists \subseteq Seq(FieldSpecifier) \ {<<>>}
    /\ Bad \notin Template
    /\ MaxFrames \in Nat
    /\ \A frame \in Frames : IsFrame(frame)

-----------------------------------------------------------------------------
(* ipfix_payloads.                                                         *)

\* extract_udp_payload returns what follows the UDP header.
Extracts(frame) ==
    /\ frame.len >= EthHdr + 20 + 8
    /\ frame.ethertype = 2048
    /\ frame.ihl >= 20 /\ frame.len >= EthHdr + frame.ihl + 8
    /\ frame.protocol = 17

ReadFrame ==
    /\ stage = "load" /\ frame_idx <= Len(captured)
    /\ LET frame == captured[frame_idx]
       IN  payloads' = IF Extracts(frame) /\ frame.len > EthHdr + frame.ihl + 8
                       THEN Append(payloads, frame.message) ELSE payloads
    /\ frame_idx' = frame_idx + 1
    /\ UNCHANGED <<vars, captured, placeVars, dataVars>>

\* The file cannot be read on: nothing has been decoded yet, and nothing will be.
FailToLoad ==
    /\ stage = "load"
    /\ stage' = "failed"
    /\ UNCHANGED <<vars, loadVars, datagram, set_idx, record_idx, dataVars>>

FinishLoading ==
    /\ stage = "load" /\ frame_idx > Len(captured)
    /\ stage' = "run"
    /\ UNCHANGED <<vars, loadVars, datagram, set_idx, record_idx, dataVars>>

-----------------------------------------------------------------------------
(* populate_flow.                                                          *)

BigEndian(data) ==
    LET number[n \in 0..Len(data)] == IF n = 0 THEN 0 ELSE number[n - 1] * Base + data[n]
    IN  number[Len(data)]

\* as_u8 ... as_u64 give the number that the bytes stand for, fmt_ipv4, fmt_ipv6
\* and fmt_mac the bytes; a field of another length has no value.
Accessed(kind, data) ==
    IF Len(data) # Width[kind] THEN Absent
    ELSE IF kind \in NumberKinds THEN <<BigEndian(data)>> ELSE data

\* One field: what it goes to depends on its element id alone, the last one wins.
Populate(sofar, element, data) ==
    IF element \notin DOMAIN Projected THEN sofar
    ELSE LET to == Projected[element]
         IN  [version |-> IF to.version = "" THEN sofar.version ELSE to.version,
              members |-> [sofar.members EXCEPT ![to.member] = Accessed(to.kind, data)]]

-----------------------------------------------------------------------------
(* main.                                                                   *)

JsonInit ==
    /\ Init
    /\ captured \in BoundedSeq(Frames, MaxFrames)
    /\ stage = "load"
    /\ frame_idx = 1
    /\ payloads = <<>>
    /\ datagram = 1 /\ set_idx = 1 /\ record_idx = 1
    /\ layout = NoLayout /\ rest = <<>> /\ unread = <<>>
    /\ field_idx = 0 /\ flow = EmptyFlow
    /\ emitted = <<>>

Message == payloads[datagram]
HeaderDecodes == Message.version = 10
Running == stage = "run" /\ datagram <= Len(payloads) /\ layout = NoLayout
InSets == Running /\ HeaderDecodes /\ set_idx <= Len(Message.sets)
Current == Message.sets[set_idx]

\* Mutant: the loop over the next set's templates does not start over.
NextSetKeepingPlace == set_idx' = set_idx + 1 /\ UNCHANGED <<stage, datagram, record_idx>>

NextSet == set_idx' = set_idx + 1 /\ record_idx' = 1 /\ UNCHANGED <<stage, datagram>>
NextDatagram == datagram' = datagram + 1 /\ set_idx' = 1 /\ record_idx' = 1 /\ UNCHANGED stage

\* The header is refused, the sets are used up, or one of them is malformed.
LeaveDatagram ==
    /\ Running
    /\ \/ ~HeaderDecodes
       \/ set_idx > Len(Message.sets)
       \/ InSets /\ Current.kind = "Malformed"
    /\ NextDatagram
    /\ UNCHANGED <<vars, loadVars, dataVars>>

NextIsGood == record_idx <= Len(Current.records) /\ Current.records[record_idx] # Bad

\* A template record goes into the store; the outcome is not looked at.
HandleTemplate ==
    /\ InSets /\ Current.kind \in TemplateKinds /\ NextIsGood
    /\ Insert(Unit, Message.odid, Current.records[record_idx])
    /\ record_idx' = record_idx + 1
    /\ UNCHANGED <<loadVars, stage, datagram, set_idx, dataVars>>

\* Mutant: the loop over the templates does not leave a bad one behind.
StayOnBadTemplate ==
    /\ InSets /\ Current.kind \in TemplateKinds
    /\ record_idx > Len(Current.records)
    /\ NextSet
    /\ UNCHANGED <<vars, loadVars, dataVars>>

FinishTemplates ==
    /\ InSets /\ Current.kind \in TemplateKinds /\ ~NextIsGood
    /\ NextSet
    /\ UNCHANGED <<vars, loadVars, dataVars>>

\* A data set without a template is passed over.
LookUpTemplate ==
    LET key == <<Unit, Message.odid, Current.definition.id>>
    IN  /\ InSets /\ Current.kind = "Data"
        /\ Get(key[1], key[2], key[3])
        /\ IF key \in DOMAIN templates
           THEN layout' = templates[key].fields /\ rest' = BytesOf(Current) /\ UNCHANGED placeVars
           ELSE UNCHANGED <<layout, rest>> /\ NextSet
        /\ UNCHANGED <<loadVars, unread, field_idx, flow, emitted>>

RecordSize == RecordEnd(Lengths(layout), rest)
HasRecord == Len(rest) >= Scan(Lengths(layout)).min /\ RecordSize # Eof

\* Mutant: one flow serves all records.
StartRecordWithOldFlow ==
    /\ layout # NoLayout /\ field_idx = 0 /\ HasRecord
    /\ unread' = Take(rest, RecordSize)
    /\ rest' = Drop(rest, RecordSize)
    /\ field_idx' = 1
    /\ UNCHANGED <<vars, loadVars, placeVars, layout, flow, emitted>>

\* DataRecordIter yields a record; its fields are gone through one by one.
StartRecord ==
    /\ layout # NoLayout /\ field_idx = 0 /\ HasRecord
    /\ unread' = Take(rest, RecordSize)
    /\ rest' = Drop(rest, RecordSize)
    /\ field_idx' = 1
    /\ flow' = EmptyFlow
    /\ UNCHANGED <<vars, loadVars, placeVars, layout, emitted>>

\* A field that cannot be cut would be skipped.
PopulateField ==
    /\ field_idx \in DOMAIN layout
    /\ LET cut == CutFrom(layout[field_idx].length, unread)
       IN  /\ unread' = Drop(unread, cut.size)
           /\ flow' = IF cut.ok THEN Populate(flow, layout[field_idx].element, cut.data) ELSE flow
    /\ field_idx' = field_idx + 1
    /\ UNCHANGED <<vars, loadVars, placeVars, layout, rest, emitted>>

PrintFlow ==
    /\ layout # NoLayout /\ field_idx > Len(layout)
    /\ emitted' = Append(emitted,
           [datagram |-> datagram, set |-> set_idx, odid |-> Message.odid,
            sequence |-> Message.sequence, flow |-> flow])
    /\ field_idx' = 0
    /\ UNCHANGED <<vars, loadVars, placeVars, layout, rest, unread, flow>>

\* What is left is padding, or a record that is cut short.
FinishData ==
    /\ layout # NoLayout /\ field_idx = 0 /\ ~HasRecord
    /\ layout' = NoLayout /\ rest' = <<>>
    /\ NextSet
    /\ UNCHANGED <<vars, loadVars, unread, field_idx, flow, emitted>>

Finish ==
    /\ stage = "run" /\ datagram > Len(payloads)
    /\ stage' = "done"
    /\ UNCHANGED <<vars, loadVars, datagram, set_idx, record_idx, dataVars>>

JsonNext ==
    \/ ReadFrame \/ FailToLoad \/ FinishLoading
    \/ LeaveDatagram \/ HandleTemplate \/ FinishTemplates
    \/ LookUpTemplate \/ StartRecord \/ PopulateField \/ PrintFlow
    \/ FinishData \/ Finish

\* main runs to its end.
JsonSpec == JsonInit /\ [][JsonNext]_jsonVars /\ WF_jsonVars(JsonNext)

-----------------------------------------------------------------------------
(* What a capture says.                                                    *)

\* The elements of a sequence at these places, of its first n elements.
Picked(s, places) ==
    LET picked[n \in 0..Len(s)] ==
            IF n = 0 THEN <<>>
            ELSE IF n \in places THEN Append(picked[n - 1], s[n]) ELSE picked[n - 1]
    IN  picked

\* The datagrams of the capture, and the sets that nothing malformed precedes.
Carried == [i \in DOMAIN captured |-> captured[i].message]
DatagramsIn == Picked(Carried, {i \in DOMAIN Carried : Carried[i] # NoMessage})
Datagrams == DatagramsIn[Len(captured)]

SetAt(place) == Datagrams[place[1]].sets[place[2]]

SetPlaces ==
    {place \in UNION {{i} \X DOMAIN Datagrams[i].sets : i \in DOMAIN Datagrams} :
        /\ Datagrams[place[1]].version = 10
        /\ \A j \in 1..place[2] : SetAt(<<place[1], j>>).kind # "Malformed"}

DataPlaces == {place \in SetPlaces : SetAt(place).kind = "Data"}
TemplatePlaces ==
    UNION {{<<p[1], p[2], k>> : k \in {n \in DOMAIN SetAt(p).records :
                                          \A j \in 1..n : SetAt(p).records[j] # Bad}} :
           p \in {q \in SetPlaces : SetAt(q).kind \in TemplateKinds}}

RecordAt(place) == SetAt(place).records[place[3]]
KeyAt(place) == <<Datagrams[place[1]].odid, RecordAt(place).id>>

Precedes(a, b) == a[1] < b[1] \/ (a[1] = b[1] /\ a[2] < b[2])
NotAfter(a, b) == Precedes(a, b) \/ (a[1] = b[1] /\ a[2] = b[2] /\ a[3] <= b[3])

\* The announcements of a data set's template in front of it, in its domain.
AnnouncedFor(place) ==
    {t \in TemplatePlaces :
        Precedes(t, place) /\ KeyAt(t) = <<Datagrams[place[1]].odid, SetAt(place).definition.id>>}

\* The first of them is the exporter's own.
AnnouncedRightly(place) ==
    \E t \in AnnouncedFor(place) :
        /\ RecordAt(t) = SetAt(place).definition
        /\ \A u \in AnnouncedFor(place) : NotAfter(t, u)

NoEvictions == Cardinality({KeyAt(t) : t \in TemplatePlaces}) <= Capacity

\* An element that is shown is an IANA element and not an enterprise's own with
\* the same number.
OnlyIana(fields) ==
    \A i \in DOMAIN fields : fields[i].element \in DOMAIN Projected => ~fields[i].enterprise

\* No datagram of the capture has options in its IP header.
NoOptions == \A i \in DOMAIN captured : captured[i].message # NoMessage => captured[i].ihl = 20

LastOf(places) == CHOOSE i \in places : \A j \in places : j <= i
SizeOf(field, value) == IF field.length = VariableLength THEN Len(value) ELSE field.length

\* What a value says: nothing if it is of another width than the member is read
\* from.  A number of variable length is read from its bytes.
ValueOf(field, value) ==
    LET kind == Projected[field.element].kind
    IN  IF SizeOf(field, value) # Width[kind] THEN Absent
        ELSE IF IsNumber(field) THEN <<value>>
        ELSE IF kind \in NumberKinds THEN <<BigEndian(value)>>
        ELSE value

\* What the first n values of a record say of a member: it has the value of the
\* last of the elements that are shown there.
Said(fields, record, n) ==
    LET shown == {i \in 1..n : fields[i].element \in DOMAIN Projected}
        Value(member) ==
            LET places == {i \in shown : Projected[fields[i].element].member = member}
            IN  IF places = {} THEN Absent ELSE ValueOf(fields[LastOf(places)], record[LastOf(places)])
        sources == {i \in shown : Projected[fields[i].element].version # ""}
    IN  [version |-> IF sources = {} THEN "" ELSE Projected[fields[LastOf(sources)].element].version,
         members |-> [member \in Members |-> Value(member)]]

Meaning(fields, record) == Said(fields, record, Len(fields))

LinesFor(place) ==
    LET message == Datagrams[place[1]]
        records == SetAt(place).records
    IN  [r \in DOMAIN records |->
            [datagram |-> place[1], set |-> place[2], odid |-> message.odid,
             sequence |-> message.sequence,
             flow |-> Meaning(SetAt(place).definition.fields, records[r])]]

PrintedFor(place) ==
    Picked(emitted, {k \in DOMAIN emitted : /\ emitted[k].datagram = place[1]
                                           /\ emitted[k].set = place[2]})[Len(emitted)]

-----------------------------------------------------------------------------
\* The loops stay inside the payload, the set and the record in hand, and what
\* has been read so far is of its type.
JsonTypeOK ==
    /\ stage \in {"load", "run", "done", "failed"}
    /\ captured \in Seq(Frames) /\ frame_idx \in 1..(Len(captured) + 1)
    /\ payloads \in Seq({frame.message : frame \in Frames} \ {NoMessage})
    /\ datagram \in 1..(Len(payloads) + 1)
    /\ Running /\ HeaderDecodes => set_idx \in 1..(Len(Message.sets) + 1)
    /\ InSets => /\ Current.kind \in TemplateKinds => record_idx \in 1..(Len(Current.records) + 1)
                 /\ Current.kind = "Data" => record_idx = 1
    /\ layout \in FieldLists \cup {NoLayout} /\ field_idx \in 0..(Len(layout) + 1)
    /\ layout # NoLayout => stage = "run" /\ datagram <= Len(payloads)
    /\ rest \in Seq(Byte) /\ unread \in Seq(Byte)
    /\ flow \in Flows
    /\ emitted \in Seq([datagram : Nat, set : Nat, odid : Odids, sequence : Nat, flow : Flows])

\* The output is what the capture says: for every data set whose template
\* precedes it, one line per record with the values that were exported, in
\* order, and none for any other (json_collector.rs 253-308; "Data Set arrived
\* before its template", 286-289).  It is right for domains in which one
\* definition is announced per template id, as all exporters share a session, and
\* says nothing of captures with options in an IP header.
OutputAsCaptured ==
    stage = "done" /\ NoOptions =>
        /\ \A k \in 1..(Len(emitted) - 1) :
               ~Precedes(<<emitted[k + 1].datagram, emitted[k + 1].set>>,
                         <<emitted[k].datagram, emitted[k].set>>)
        /\ \A line \in Range(emitted) : <<line.datagram, line.set>> \in DataPlaces
        /\ \A place \in DataPlaces :
               IF AnnouncedFor(place) = {} THEN PrintedFor(place) = <<>>
               ELSE /\ AnnouncedRightly(place) /\ NoEvictions
                       /\ OnlyIana(SetAt(place).definition.fields)
                       => PrintedFor(place) = LinesFor(place)

\* The template in force for the data set in hand has fields of length 0 only.
RecordsTakeNoByte == layout # NoLayout /\ Scan(Lengths(layout)).min = 0

\* The program comes to an end, unless it comes to a data set whose records take
\* no byte: the loop over them does not end (json_collector.rs 243-313, 291).
JsonTerminates == <>(stage \in {"done", "failed"} \/ RecordsTakeNoByte)

\* "Enterprise-specific IEs are not described here and must be interpreted by
\* the caller" (src/ie/mod.rs 8-10), "Unmapped IEs are silently dropped"
\* (json_collector.rs 16): what a line shows comes from an IANA element.
ShownAreIana ==
    \A line \in Range(emitted) :
        LET place == <<line.datagram, line.set>>
            fields == SetAt(place).definition.fields
        IN  AnnouncedRightly(place) =>
                \A member \in Members :
                    line.flow.members[member] # Absent =>
                        \E i \in DOMAIN fields :
                            /\ ~fields[i].enterprise /\ fields[i].element \in DOMAIN Projected
                            /\ Projected[fields[i].element].member = member
=============================================================================
