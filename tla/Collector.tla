----------------------------- MODULE Collector -----------------------------
(***************************************************************************)
(* The collector of examples/udp_receiver.rs: one loop that takes          *)
(* datagrams off a UDP socket, decodes their sets in order, puts template  *)
(* records into the store under the sender's address, and decodes data     *)
(* sets under what the store holds.                                        *)
(*                                                                         *)
(* UDP loses, repeats and reorders datagrams without limit, so what may    *)
(* arrive next is any datagram an exporter may ever have sent: the network *)
(* needs no state but the definitions each exporter has used.  Framing and *)
(* DataRecords say how the bytes of a datagram become the sets and records *)
(* that are values here; a set or template they report an error for is     *)
(* bad, and of a data set only the number of bytes is kept.                *)
(***************************************************************************)
EXTENDS TemplateRetention

CONSTANTS
    Exporters,   \* exporting processes
    Address,     \* exporter -> the IP address it sends from, its session
    Domain,      \* exporter -> the observation domain it puts into headers
    FirstUse,    \* exporter -> the definitions it starts with, one per template id
    LaterUse,    \* exporter -> the definitions it may change its ids to
    MinSize,     \* field list -> the bytes of the smallest record under it
    Variable,    \* the field lists with a field of variable length
    DataSizes,   \* the numbers of bytes in a data set
    Bad,         \* a template record that cannot be decoded
    MaxSets      \* bound: sets of a datagram

ASSUME CollectorAssumption ==
    /\ Exporters # {}
    /\ Address \in [Exporters -> Sessions]
    /\ Domain \in [Exporters -> Odids]
    /\ FirstUse \in [Exporters -> SUBSET Template]
    /\ \A e \in Exporters : \A c, d \in FirstUse[e] : c.id = d.id => c = d
    /\ LaterUse \in [Exporters -> SUBSET Template]
    /\ MinSize \in [FieldLists -> Nat]
    /\ Variable \subseteq {fields \in FieldLists : MinSize[fields] > 0}
    /\ DataSizes \subseteq Nat
    /\ Bad \notin Template
    /\ MaxSets \in Nat

\* No two exporters share an address and a domain: the collector could not tell
\* them apart (udp_receiver.rs 7-12, 47).
ASSUME ApartAssumption ==
    \A a, b \in Exporters : <<Address[a], Domain[a]>> = <<Address[b], Domain[b]>> => a = b

VARIABLES
    used,  \* exporter -> the definitions it has exported data and templates under
    work,  \* the datagram in hand: its sender and the sets still to be decoded
    fate,  \* what the lookup for a data set has come to, while that matters
    stopped \* main has returned

allVars == <<vars, historyVars, used, work, fate, stopped>>

NoFate == [result |-> "none"]
Unknown(key) == [result |-> "unknown", key |-> key]
Decoded(key, sent, under) == [result |-> "decoded", key |-> key, sent |-> sent, under |-> under]

-----------------------------------------------------------------------------
(* Datagrams.                                                              *)

TemplateSet(records) == [kind |-> "Template", records |-> records]
OptionsTemplateSet(records) == [kind |-> "OptionsTemplate", records |-> records]
DataSet(definition, bytes) == [kind |-> "Data", definition |-> definition, bytes |-> bytes]
MalformedSet == [kind |-> "Malformed"]

IdsOf(exporter) == {d.id : d \in FirstUse[exporter]}

IsOptions(definition) == definition.scope_field_count > 0

\* A set announces one template, or two with a damaged one between them.
Announcements(definitions) ==
    {<<d>> : d \in definitions} \cup {<<d, Bad, d>> : d \in definitions}
    \cup {<<pair[1], pair[2]>> : pair \in {p \in definitions \X definitions : p[1] # p[2]}}

SetsOf(exporter) ==
    {TemplateSet(a) : a \in Announcements({d \in used[exporter] : ~IsOptions(d)})}
    \cup {OptionsTemplateSet(a) : a \in Announcements({d \in used[exporter] : IsOptions(d)})}
    \cup {DataSet(d, n) : d \in used[exporter], n \in DataSizes}
    \cup {MalformedSet}

-----------------------------------------------------------------------------
CollectorInit ==
    /\ RetentionInit
    /\ used = FirstUse
    /\ work = [exporter |-> CHOOSE e \in Exporters : TRUE, sets |-> <<>>]
    /\ fate = NoFate
    /\ stopped = FALSE

\* An exporter changes a template without the collector's knowledge.
Redefine(exporter) ==
    /\ \E definition \in LaterUse[exporter] \ used[exporter] :
           /\ definition.id \in IdsOf(exporter)
           /\ used' = [used EXCEPT ![exporter] = @ \cup {definition}]
    /\ UNCHANGED <<vars, historyVars, work, fate, stopped>>

Waiting == work.sets = <<>>

\* recv_from reports an error, and main returns it.
FailToReceive ==
    /\ Waiting /\ ~stopped
    /\ stopped' = TRUE
    /\ fate' = NoFate
    /\ UNCHANGED <<vars, historyVars, used, work>>

\* recv_from; a datagram whose header is refused is as good as lost.
Receive(exporter) ==
    /\ Waiting /\ ~stopped
    /\ \E sets \in BoundedSeq(SetsOf(exporter), MaxSets) :
           work' = [exporter |-> exporter, sets |-> sets]
    /\ fate' = NoFate
    /\ UNCHANGED <<vars, historyVars, used, stopped>>

Current == Head(work.sets)
NextSetIs(sets) == work' = [exporter |-> work.exporter, sets |-> sets]

\* The set in hand without its first record.
RestOfSet == [kind |-> Current.kind, records |-> Tail(Current.records)]

\* TemplateSetIter::next returns a record.
NextIsGood == Current.records # <<>> /\ Head(Current.records) # Bad

\* Mutant: templates and data are filed per host, whatever their domain.
PerHostScope(exporter) == <<Address[exporter], CHOOSE odid \in Odids : TRUE>>

\* What templates are filed under: the peer's address and the domain in the
\* header of the same datagram.
Scope(exporter) == <<Address[exporter], Domain[exporter]>>
KeyIn(scope, id) == <<scope[1], scope[2], id>>

\* Mutant: if let instead of while let, one template per set.
HandleOneTemplate ==
    /\ ~Waiting
    /\ Current.kind \in {"Template", "OptionsTemplate"}
    /\ NextIsGood
    /\ InsertObserved(Scope(work.exporter)[1], Scope(work.exporter)[2], Head(Current.records))
    /\ NextSetIs(Tail(work.sets))
    /\ fate' = NoFate
    /\ UNCHANGED <<used, stopped>>

\* Mutant: the set in hand is not replaced by what is left of it.
HandleTemplateAgain ==
    /\ ~Waiting
    /\ Current.kind \in {"Template", "OptionsTemplate"}
    /\ NextIsGood
    /\ InsertObserved(Scope(work.exporter)[1], Scope(work.exporter)[2], Head(Current.records))
    /\ NextSetIs(<<RestOfSet>> \o work.sets)
    /\ fate' = NoFate
    /\ UNCHANGED <<used, stopped>>

\* A template record is inserted; whatever the outcome, the next one follows.
HandleTemplate ==
    /\ ~Waiting
    /\ Current.kind \in {"Template", "OptionsTemplate"}
    /\ NextIsGood
    /\ InsertObserved(Scope(work.exporter)[1], Scope(work.exporter)[2], Head(Current.records))
    /\ NextSetIs(<<RestOfSet>> \o Tail(work.sets))
    /\ fate' = NoFate
    /\ UNCHANGED <<used, stopped>>

\* The templates of the set are used up, or cut short by a bad one.
FinishTemplates ==
    /\ ~Waiting
    /\ Current.kind \in {"Template", "OptionsTemplate"}
    /\ ~NextIsGood
    /\ NextSetIs(Tail(work.sets))
    /\ fate' = NoFate
    /\ UNCHANGED <<vars, historyVars, used, stopped>>

\* A template has been found for the data set in hand: its records are read.
Decoding == ~Waiting /\ Current.kind = "Data" /\ fate.result = "decoded"

\* Mutant: data sets are looked up in the domain of another exporter.
LookUpInAnyDomain ==
    LET sent == Current.definition
        key == <<Address[work.exporter], CHOOSE odid \in Odids : TRUE, sent.id>>
    IN  /\ ~Waiting /\ Current.kind = "Data" /\ ~Decoding
        /\ Get(key[1], key[2], key[3])
        /\ IF key \in DOMAIN templates
           THEN fate' = Decoded(key, sent, templates[key]) /\ UNCHANGED work
           ELSE fate' = Unknown(KeyIn(Scope(work.exporter), sent.id)) /\ NextSetIs(Tail(work.sets))
        /\ UNCHANGED <<historyVars, used, stopped>>

\* A data set is decoded under what the store's view returns, or passed over.
LookUpTemplate ==
    LET sent == Current.definition
        key == KeyIn(Scope(work.exporter), sent.id)
    IN  /\ ~Waiting /\ Current.kind = "Data" /\ ~Decoding
        /\ Get(key[1], key[2], key[3])
        /\ IF key \in DOMAIN templates
           THEN fate' = Decoded(key, sent, templates[key]) /\ UNCHANGED work
           ELSE fate' = Unknown(key) /\ NextSetIs(Tail(work.sets))
        /\ UNCHANGED <<historyVars, used, stopped>>

\* What a record may take of these bytes: which of them it is says DataRecords.
RecordSizes(fields, bytes) ==
    {size \in MinSize[fields]..bytes : size = MinSize[fields] \/ fields \in Variable}

\* Mutant: the next record is read from where the last one was.
ReadSameRecord ==
    /\ Decoding
    /\ RecordSizes(fate.under.fields, Current.bytes) # {}
    /\ UNCHANGED <<vars, historyVars, used, work, fate, stopped>>

\* DataRecordIter::next returns a record, and the loop goes on with the rest.
ReadRecord ==
    /\ Decoding
    /\ \E size \in RecordSizes(fate.under.fields, Current.bytes) :
           NextSetIs(<<DataSet(Current.definition, Current.bytes - size)>> \o Tail(work.sets))
    /\ UNCHANGED <<vars, historyVars, used, fate, stopped>>

\* It returns None for less than the smallest record, or an error for one whose
\* variable-length field is cut short.  Either ends the loop.
FinishData ==
    /\ Decoding
    /\ Current.bytes < MinSize[fate.under.fields] \/ fate.under.fields \in Variable
    /\ NextSetIs(Tail(work.sets))
    /\ fate' = NoFate
    /\ UNCHANGED <<vars, historyVars, used, stopped>>

\* A set that cannot be decoded ends the datagram.
AbandonDatagram ==
    /\ ~Waiting
    /\ Current.kind = "Malformed"
    /\ NextSetIs(<<>>)
    /\ fate' = NoFate
    /\ UNCHANGED <<vars, historyVars, used, stopped>>

Handle ==
    \/ HandleTemplate \/ FinishTemplates
    \/ LookUpTemplate \/ ReadRecord \/ FinishData
    \/ AbandonDatagram

CollectorNext ==
    \/ Handle
    \/ FailToReceive
    \/ \E exporter \in Exporters : Receive(exporter) \/ Redefine(exporter)

\* The loop goes on with the datagram in hand; nothing makes datagrams arrive.
CollectorSpec ==
    CollectorInit /\ [][CollectorNext]_allVars /\ WF_allVars(Handle)

-----------------------------------------------------------------------------
\* The datagram in hand is what is left of one of a known sender, and while
\* records are read, the set in front is the one the lookup was made for.
CollectorTypeOK ==
    /\ used \in [Exporters -> SUBSET Template]
    /\ work.exporter \in Exporters
    /\ Len(work.sets) <= MaxSets
    /\ \A i \in 1..Len(work.sets) :
           work.sets[i].kind \in {"Template", "OptionsTemplate", "Data", "Malformed"}
    /\ fate.result \in {"none", "decoded", "unknown"}
    /\ fate.result = "decoded" => Decoding /\ Current.definition = fate.sent
    /\ stopped \in BOOLEAN /\ (stopped => Waiting)

\* The exporter has given its template id one definition only.
NotRedefined(definition) ==
    \A other \in used[work.exporter] : other.id = definition.id => other = definition

\* Data is decoded under a definition that its own exporter has given this
\* template id, whatever is lost, repeated or reordered, whoever else uses the
\* id, and whatever has been evicted meanwhile; and under the definition it was
\* exported under unless the exporter itself has redefined the id: then the
\* older one stays in force (udp_receiver.rs 47, 58, 76, 117-118; lines 7-12:
\* "per-peer state keeps them apart"; store.rs 315-320).
DecodedAsExported ==
    fate.result = "decoded" =>
        /\ fate.under \in used[work.exporter]
        /\ fate.under.id = fate.sent.id
        /\ NotRedefined(fate.sent) => fate.under = fate.sent

\* A data set is passed over as unknown (udp_receiver.rs 118-121) only when its
\* template has never been accepted, or when Capacity others have been
\* refreshed since it was.
KnownDataIsDecoded ==
    fate.result = "unknown" =>
        \/ fate.key \notin announced
        \/ Cardinality(rivals[fate.key]) >= Capacity

\* The inductive invariant of the two, beside the store's own: what is filed in
\* an exporter's scope was exported by it, and so was the datagram in hand.
Payload(definitions) ==
    {TemplateSet(records) : records \in Seq(definitions \cup {Bad})}
    \cup {OptionsTemplateSet(records) : records \in Seq(definitions \cup {Bad})}
    \cup {DataSet(d, n) : d \in definitions, n \in Nat}
    \cup {MalformedSet}

FiledByExporter ==
    \A key \in DOMAIN templates : \A e \in Exporters :
        <<key[1], key[2]>> = Scope(e) => templates[key] \in used[e]

CollectorInv ==
    /\ used \in [Exporters -> SUBSET Template]
    /\ work.exporter \in Exporters
    /\ work.sets \in Seq(Payload(used[work.exporter]))
    /\ Len(work.sets) <= MaxSets
    /\ fate.result \in {"none", "decoded", "unknown"}
    /\ fate.result = "decoded" => Decoding /\ Current.definition = fate.sent
    /\ stopped \in BOOLEAN /\ (stopped => Waiting)
    /\ FiledByExporter
    /\ DecodedAsExported
    /\ KnownDataIsDecoded

\* A template of this id is about to be read from the datagram in hand.
Arrived(exporter, id) ==
    /\ ~Waiting /\ work.exporter = exporter
    /\ Current.kind \in {"Template", "OptionsTemplate"}
    /\ \E i \in 1..Len(Current.records) :
           /\ \A j \in 1..i : Current.records[j] # Bad
           /\ Current.records[i].id = id

\* A template that arrives in front of any damage gets into the store, even if
\* it does not stay: an exporter whose refreshes get through keeps coming back
\* (udp_receiver.rs 74, 98: every template of the set is inserted).
ArrivedIsServed ==
    \A exporter \in Exporters : \A id \in IdsOf(exporter) :
        Arrived(exporter, id) ~> KeyIn(Scope(exporter), id) \in DOMAIN templates

\* The template in force for the data set in hand has fields of length 0 only.
RecordsTakeNoByte == Decoding /\ MinSize[fate.under.fields] = 0

\* The loop gets back to the socket from every datagram (udp_receiver.rs 45-46),
\* unless it comes to a data set whose records take no byte: the loop over them
\* (122-130) never ends, as DataRecordIter goes on for ever (record.rs 267).
BackToTheSocket == ~Waiting ~> Waiting \/ RecordsTakeNoByte
=============================================================================
