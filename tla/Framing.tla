------------------------------ MODULE Framing ------------------------------
(***************************************************************************)
(* The framing of a message, from the bytes of a datagram to the template  *)
(* records in it: MessageHeader::decode (src/header.rs), SetIter and       *)
(* Set::decode (src/set.rs), TemplateSetIter and TemplateRecord's decoders *)
(* (src/template.rs).  Iterators are driven as the doc examples drive      *)
(* them: every set that is returned is used up before the next is asked    *)
(* for, and an error ends nothing but the iterator that reported it.       *)
(*                                                                         *)
(* A message is composed by an exporter (the wire format of RFC 7011 is    *)
(* the reference) and reaches the parser as it was, with a byte changed,   *)
(* cut short, or followed by bytes that are not part of it.                *)
(***************************************************************************)
EXTENDS Integers, SequencesExt

CONSTANTS
    Messages,   \* the messages an exporter composes: sequences of sets
    Garbage,    \* the values a changed byte takes
    MaxFields   \* the length of the caller's fields_buf

VARIABLES
    composed,        \* the sets the message was composed of
    datagram,        \* the bytes that reached the parser
    header,          \* what MessageHeader::decode returned
    buf,             \* SetIter.buf
    set_result,      \* what SetIter::next returned last
    template_buf,    \* TemplateSetIter.buf
    done,            \* TemplateSetIter.done
    fields_buf,      \* the scratch buffer behind TemplateSetIter.fields_buf
    template_result, \* what TemplateSetIter::next returned last
    heard            \* history: the sets returned, each with its templates

input == <<composed, datagram>>
setVars == <<header, buf, set_result>>
templateVars == <<template_buf, done, fields_buf, template_result>>
vars == <<input, setVars, templateVars, heard>>

HEADER_LEN == 16
VERSION == 10
SET_HEADER_LEN == 4
SET_ID_TEMPLATE == 2
SET_ID_OPTIONS_TEMPLATE == 3
SET_ID_DATA_MIN == 256
ENTERPRISE_BIT == 32768

Byte == 0..(2^8 - 1)
U16 == 0..(2^16 - 1)
FieldSpecifier == [information_element_id : 0..(ENTERPRISE_BIT - 1),
                   enterprise_number : {<<>>} \cup [1..4 -> Byte],
                   field_length : U16]
Drop(bytes, n) == SubSeq(bytes, n + 1, Len(bytes))

is_reserved_set_id(id) ==
    id < SET_ID_DATA_MIN /\ id \notin {SET_ID_TEMPLATE, SET_ID_OPTIONS_TEMPLATE}

\* What a template of a set begins with: its id and its counts.
HeaderOf(set_id) == IF set_id = SET_ID_OPTIONS_TEMPLATE THEN 6 ELSE 4

-----------------------------------------------------------------------------
(* The wire format, as the exporter writes it.  A template is a record of  *)
(* id, scope_field_count and fields; a set is a record of set_id, its      *)
(* templates and the bytes (records or padding) that follow them.  The     *)
(* enterprise number stays the four bytes it is sent as, none is <<>>.     *)

Bytes16(n) == <<n \div 256, n % 256>>

FieldBytes(f) ==
    Bytes16(f.information_element_id + IF f.enterprise_number = <<>> THEN 0 ELSE ENTERPRISE_BIT)
    \o Bytes16(f.field_length) \o f.enterprise_number

FieldsBytes(fields) == FlattenSeq([i \in 1..Len(fields) |-> FieldBytes(fields[i])])

TemplateBytes(set_id, t) ==
    Bytes16(t.id) \o Bytes16(Len(t.fields))
    \o (IF set_id = SET_ID_OPTIONS_TEMPLATE THEN Bytes16(t.scope_field_count) ELSE <<>>)
    \o FieldsBytes(t.fields)

TemplatesBytes(set_id, ts) == FlattenSeq([i \in 1..Len(ts) |-> TemplateBytes(set_id, ts[i])])

BodyBytes(set) == TemplatesBytes(set.set_id, set.templates) \o set.tail

SetBytes(set_id, body) == Bytes16(set_id) \o Bytes16(SET_HEADER_LEN + Len(body)) \o body

\* Sets whose records are bytes already.
SetsBytes(sets) ==
    FlattenSeq([i \in 1..Len(sets) |-> SetBytes(sets[i].set_id, sets[i].records)])

PayloadBytes(sets) ==
    FlattenSeq([i \in 1..Len(sets) |-> SetBytes(sets[i].set_id, BodyBytes(sets[i]))])

\* Export time, sequence number and domain are copied, never looked at.
MessageBytes(sets) ==
    LET payload == PayloadBytes(sets)
    IN  Bytes16(VERSION) \o Bytes16(HEADER_LEN + Len(payload)) \o [i \in 1..12 |-> 0] \o payload

\* The templates an exporter writes into a set of that id: as many fields as
\* the parser has room for, and among them the scope fields of an options template.
Template == {t \in [id : U16, scope_field_count : U16, fields : Seq(FieldSpecifier)] :
                 Len(t.fields) \in U16}

WellFormed(set_id, t) ==
    /\ Len(t.fields) \in 1..MaxFields
    /\ t.scope_field_count \in IF set_id = SET_ID_OPTIONS_TEMPLATE THEN 1..Len(t.fields) ELSE {0}

\* Messages are those of RFC 7011: templates stand in template sets only, and
\* the padding behind them is too short for another one.
FramingAssumption ==
    /\ MaxFields \in Nat
    /\ Garbage \subseteq Byte
    /\ \A sets \in Messages :
           /\ sets \in Seq([set_id : U16, templates : Seq(Template), tail : Seq(Byte)])
           /\ HEADER_LEN + Len(PayloadBytes(sets)) \in U16
           /\ \A i \in 1..Len(sets) :
                  LET set == sets[i]
                  IN  /\ ~is_reserved_set_id(set.set_id)
                      /\ SET_HEADER_LEN + Len(BodyBytes(set)) \in U16
                      /\ IF set.set_id >= SET_ID_DATA_MIN THEN set.templates = <<>>
                         ELSE /\ Len(set.tail) < HeaderOf(set.set_id)
                              /\ \A j \in 1..Len(set.templates) :
                                     WellFormed(set.set_id, set.templates[j])

ASSUME FramingAssumption

\* What may reach the parser of the bytes that were sent.
Received(bytes) ==
    {bytes, bytes \o <<0, 2, 0, 8, 1>>}
    \cup {SubSeq(bytes, 1, n) : n \in 0..Len(bytes)}
    \cup {[bytes EXCEPT ![i] = b] : i \in 1..Len(bytes), b \in Garbage}

-----------------------------------------------------------------------------
(* Reading.                                                                *)

\* util::read_u16 at an offset, once the length has been checked.
ReadU16(bytes, offset) == bytes[offset + 1] * 256 + bytes[offset + 2]

\* MessageHeader::decode: its verdict on a datagram.
HeaderVerdict(bytes) ==
    IF Len(bytes) < HEADER_LEN THEN "UnexpectedEof"
    ELSE IF ReadU16(bytes, 0) # VERSION THEN "InvalidVersion"
    ELSE IF ReadU16(bytes, 2) \notin HEADER_LEN..Len(bytes) THEN "InvalidLength"
    ELSE "Ok"

\* Set::decode of at least a set header.
SetVerdict(bytes) ==
    IF ReadU16(bytes, 2) \notin SET_HEADER_LEN..Len(bytes) THEN "InvalidLength"
    ELSE IF is_reserved_set_id(ReadU16(bytes, 0)) THEN "ReservedSetId"
    ELSE "Ok"

NoField == [ok |-> FALSE]

\* Mutant: the enterprise bit stays in the identifier.
FieldWithBitAt(bytes, at) ==
    LET short == at + 4 > Len(bytes)
        ie_word == ReadU16(bytes, at)
        enterprise == ie_word >= ENTERPRISE_BIT
        size == IF enterprise THEN 8 ELSE 4
    IN  IF short THEN NoField
        ELSE IF at + size > Len(bytes) THEN NoField
        ELSE [ok |-> TRUE, next |-> at + size,
              spec |-> [information_element_id |-> ie_word,
                        enterprise_number |-> SubSeq(bytes, at + 5, at + size),
                        field_length |-> ReadU16(bytes, at + 2)]]

\* FieldSpecifier::decode at an offset.
FieldAt(bytes, at) ==
    LET short == at + 4 > Len(bytes)
        ie_word == ReadU16(bytes, at)
        enterprise == ie_word >= ENTERPRISE_BIT
        size == IF enterprise THEN 8 ELSE 4
    IN  IF short THEN NoField
        ELSE IF at + size > Len(bytes) THEN NoField
        ELSE [ok |-> TRUE, next |-> at + size,
              spec |-> [information_element_id |-> ie_word % ENTERPRISE_BIT,
                        enterprise_number |-> SubSeq(bytes, at + 5, at + size),
                        field_length |-> ReadU16(bytes, at + 2)]]

Options == heard[Len(heard)].set_id = SET_ID_OPTIONS_TEMPLATE
MinHeader == HeaderOf(heard[Len(heard)].set_id)
FieldCount(bytes) == ReadU16(bytes, 2)
ScopeFieldCount(bytes) == IF Options THEN ReadU16(bytes, 4) ELSE 0

\* The field specifiers are written into fields_buf one by one; a truncated
\* one leaves those before it behind.
FillField(bytes, n, sofar) ==
    LET field == FieldAt(bytes, sofar.next)
    IN  IF ~sofar.ok THEN sofar
        ELSE IF field.ok THEN [ok |-> TRUE, next |-> field.next,
                               fields |-> [sofar.fields EXCEPT ![n] = field.spec]]
        ELSE [sofar EXCEPT !.ok = FALSE]

Filling(bytes) ==
    LET fill[n \in 0..FieldCount(bytes)] ==
            IF n = 0 THEN [ok |-> TRUE, fields |-> fields_buf, next |-> MinHeader]
            ELSE FillField(bytes, n, fill[n - 1])
    IN  fill

Fill(bytes) == Filling(bytes)[FieldCount(bytes)]

\* What decode_into and decode_options_into check before they read fields.
CountsVerdict(bytes) ==
    IF \/ FieldCount(bytes) = 0
       \/ Options /\ ScopeFieldCount(bytes) \notin 1..FieldCount(bytes)
    THEN "InvalidLength"
    ELSE IF FieldCount(bytes) > MaxFields THEN "FieldBufferTooSmall"
    ELSE "Ok"

-----------------------------------------------------------------------------
EMPTY == [information_element_id |-> 0, enterprise_number |-> <<>>, field_length |-> 0]

Init ==
    /\ composed \in Messages
    /\ datagram \in Received(MessageBytes(composed))
    /\ header = "Unread"
    /\ buf = <<>>
    /\ set_result = "Start"
    /\ template_buf = <<>>
    /\ done = FALSE
    /\ fields_buf = [i \in 1..MaxFields |-> EMPTY]
    /\ template_result = "None"
    /\ heard = <<>>

\* Mutant: the sets may use the bytes behind the message.
DecodeHeaderWithSurplus ==
    /\ header = "Unread"
    /\ header' = HeaderVerdict(datagram)
    /\ buf' = IF header' = "Ok" THEN Drop(datagram, HEADER_LEN) ELSE <<>>
    /\ UNCHANGED <<input, set_result, templateVars, heard>>

\* MessageHeader::decode hands SetIter::new the payload of the message.
DecodeHeader ==
    /\ header = "Unread"
    /\ header' = HeaderVerdict(datagram)
    /\ buf' = IF header' = "Ok" THEN SubSeq(datagram, HEADER_LEN + 1, ReadU16(datagram, 2)) ELSE <<>>
    /\ UNCHANGED <<input, set_result, templateVars, heard>>

\* SetIter::next is called once the last set is dealt with, until it is None.
SetWanted == header = "Ok" /\ set_result # "None" /\ template_result = "None"

StopAtMessageEnd ==
    /\ SetWanted
    /\ Len(buf) < SET_HEADER_LEN
    /\ buf' = <<>>
    /\ set_result' = "None"
    /\ UNCHANGED <<input, header, templateVars, heard>>

\* Mutant: the iterator stays where the error was.
RejectSetAndStay ==
    /\ SetWanted
    /\ Len(buf) >= SET_HEADER_LEN
    /\ SetVerdict(buf) # "Ok"
    /\ set_result' = SetVerdict(buf)
    /\ UNCHANGED <<input, header, buf, templateVars, heard>>

RejectSet ==
    /\ SetWanted
    /\ Len(buf) >= SET_HEADER_LEN
    /\ SetVerdict(buf) # "Ok"
    /\ buf' = <<>>
    /\ set_result' = SetVerdict(buf)
    /\ UNCHANGED <<input, header, templateVars, heard>>

\* A set; a TemplateSetIter is created over the records of a template set.
TakeSet ==
    LET set_id == ReadU16(buf, 0)
        length == ReadU16(buf, 2)
        records == SubSeq(buf, SET_HEADER_LEN + 1, length)
    IN  /\ SetWanted
        /\ Len(buf) >= SET_HEADER_LEN
        /\ SetVerdict(buf) = "Ok"
        /\ buf' = Drop(buf, length)
        /\ set_result' = "Ok"
        /\ heard' = Append(heard, [set_id |-> set_id, records |-> records, templates |-> <<>>])
        /\ IF set_id \in {SET_ID_TEMPLATE, SET_ID_OPTIONS_TEMPLATE}
           THEN template_buf' = records /\ done' = FALSE /\ template_result' = "Start"
           ELSE UNCHANGED <<template_buf, done, template_result>>
        /\ UNCHANGED <<input, header, fields_buf>>

NextSet == StopAtMessageEnd \/ RejectSet \/ TakeSet

\* TemplateSetIter::next is called until it has returned None.
TemplateWanted == template_result # "None"

StopAtSetEnd ==
    /\ TemplateWanted
    /\ done \/ Len(template_buf) < MinHeader
    /\ template_result' = "None"
    /\ UNCHANGED <<input, setVars, template_buf, done, fields_buf, heard>>

\* Mutant: the iterator goes on behind the header of a bad template.
RejectTemplateHeader ==
    /\ TemplateWanted
    /\ ~done /\ Len(template_buf) >= MinHeader
    /\ \/ /\ CountsVerdict(template_buf) # "Ok"
          /\ template_result' = CountsVerdict(template_buf)
          /\ UNCHANGED fields_buf
       \/ /\ CountsVerdict(template_buf) = "Ok"
          /\ ~Fill(template_buf).ok
          /\ template_result' = "UnexpectedEof"
          /\ fields_buf' = Fill(template_buf).fields
    /\ template_buf' = Drop(template_buf, MinHeader)
    /\ UNCHANGED <<input, setVars, done, heard>>

\* Mutant: a bad template ends the whole message.
RejectTemplateAndMessage ==
    /\ TemplateWanted
    /\ ~done /\ Len(template_buf) >= MinHeader
    /\ \/ CountsVerdict(template_buf) # "Ok"
       \/ CountsVerdict(template_buf) = "Ok" /\ ~Fill(template_buf).ok
    /\ template_result' = "UnexpectedEof"
    /\ done' = TRUE
    /\ template_buf' = <<>>
    /\ buf' = <<>>
    /\ UNCHANGED <<input, header, set_result, fields_buf, heard>>

RejectTemplate ==
    /\ TemplateWanted
    /\ ~done /\ Len(template_buf) >= MinHeader
    /\ \/ /\ CountsVerdict(template_buf) # "Ok"
          /\ template_result' = CountsVerdict(template_buf)
          /\ UNCHANGED fields_buf
       \/ /\ CountsVerdict(template_buf) = "Ok"
          /\ ~Fill(template_buf).ok
          /\ template_result' = "UnexpectedEof"
          /\ fields_buf' = Fill(template_buf).fields
    /\ done' = TRUE
    /\ template_buf' = <<>>
    /\ UNCHANGED <<input, setVars, heard>>

\* A template borrows its fields from the front of fields_buf.
YieldTemplate ==
    LET fill == Fill(template_buf)
        template == [id |-> ReadU16(template_buf, 0),
                     scope_field_count |-> ScopeFieldCount(template_buf),
                     fields |-> SubSeq(fill.fields, 1, FieldCount(template_buf))]
    IN  /\ TemplateWanted
        /\ ~done /\ Len(template_buf) >= MinHeader
        /\ CountsVerdict(template_buf) = "Ok" /\ fill.ok
        /\ template_result' = "Ok"
        /\ template_buf' = Drop(template_buf, fill.next)
        /\ fields_buf' = fill.fields
        /\ heard' = [heard EXCEPT ![Len(heard)].templates = Append(@, template)]
        /\ UNCHANGED <<input, setVars, done>>

NextTemplate == StopAtSetEnd \/ RejectTemplate \/ YieldTemplate

Next == DecodeHeader \/ NextSet \/ NextTemplate

\* The caller's loops poll the iterators until they return None.
Spec == Init /\ [][Next]_vars /\ WF_vars(Next)

-----------------------------------------------------------------------------
Errors == {"UnexpectedEof", "InvalidVersion", "InvalidLength", "ReservedSetId",
           "FieldBufferTooSmall"}

\* The iterators' fields are of their types, and fields_buf keeps its length.
TypeOK ==
    /\ datagram \in Seq(Byte) /\ buf \in Seq(Byte) /\ template_buf \in Seq(Byte)
    /\ header \in {"Unread", "Ok"} \cup Errors
    /\ set_result \in {"Start", "Ok", "None"} \cup Errors
    /\ template_result \in {"Start", "Ok", "None"} \cup Errors
    /\ done \in BOOLEAN
    /\ fields_buf \in Seq(FieldSpecifier) /\ Len(fields_buf) = MaxFields
    /\ \A i \in 1..Len(heard) : heard[i].set_id \in U16 /\ heard[i].records \in Seq(Byte)

Finished == header \notin {"Unread", "Ok"} \/ set_result = "None"

\* What of the datagram the header claims for the message.
Payload == SubSeq(datagram, HEADER_LEN + 1, ReadU16(datagram, 2))

\* The message is decoded into what its bytes say, and nothing but: writing
\* the sets returned so far, and the templates of each of them, back into the
\* wire format gives the bytes they were read from, in place and in order, and
\* what the iterators have left follows (set.rs 103-104, template.rs 182-186,
\* 238-242, 366: each of three cursors advances by what the level below used).
ReturnedAsSent ==
    /\ header # "Ok" => heard = <<>>
    /\ header = "Ok" =>
           IF set_result \in {"Start", "Ok"} THEN SetsBytes(heard) \o buf = Payload
           ELSE IsPrefix(SetsBytes(heard), Payload)
    /\ \A i \in 1..Len(heard) :
           IsPrefix(TemplatesBytes(heard[i].set_id, heard[i].templates), heard[i].records)
    /\ template_result \in {"Start", "Ok"} =>
           LET set == heard[Len(heard)]
           IN  TemplatesBytes(set.set_id, set.templates) \o template_buf = set.records

\* Where the set of a composed message ends, and how a set is heard.
End(i) == HEADER_LEN + Len(PayloadBytes(SubSeq(composed, 1, i)))
HeardAs(set) == [set_id |-> set.set_id, records |-> BodyBytes(set), templates |-> set.templates]

\* Bytes from..to of the datagram are those that were sent.
Unchanged(from, to) ==
    to <= Len(datagram) /\ SubSeq(datagram, from, to) = SubSeq(MessageBytes(composed), from, to)

SetUnchanged(i) == HeaderVerdict(datagram) = "Ok" /\ End(i) <= ReadU16(datagram, 2)
                   /\ Unchanged(End(i - 1) + 1, End(i))

\* A set that arrives as it was sent is returned as it was composed, template
\* for template and field for field, wherever else the message was damaged, as
\* long as the headers of the sets before it can be followed: a bad template
\* costs the rest of its own set and nothing of the others (template.rs
\* 369-373 latch the inner iterator only).
IntactSetsAreReturned ==
    Finished =>
        \A i \in 1..Len(composed) :
            (/\ SetUnchanged(i)
             /\ \A j \in 1..i : Unchanged(End(j - 1) + 1, End(j - 1) + SET_HEADER_LEN))
            => i <= Len(heard) /\ heard[i] = HeardAs(composed[i])

\* An error is the last thing a TemplateSetIter returns, and nothing of the bytes
\* behind it is taken for a template: "Returns None [...] after any error has been
\* yielded" (template.rs 334-336, 342-344, 369-373).
ErrorsAreFinal ==
    [][(template_result \in Errors) => (template_result' = "None" /\ heard' = heard)]_vars

\* Polling the iterators comes to an end on every datagram.
Terminates == <>Finished
=============================================================================
