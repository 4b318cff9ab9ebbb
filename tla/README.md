# A TLA+ verification of ipfix-parser

`ipfix-parser` is a sans-io parser for IPFIX (RFC 7011) with an optional bounded
template store, a bulk decoder and two example collectors. This directory models
it in TLA+, model-checks the models with TLC on small instances and proves, with
TLAPS and for every instance, the safety of the template store, of the two collectors
over it, of the message framing, of the record and field iterators, of the decode
plan and of the element registry. Line numbers refer to the repository's files.

## The system

| component | state | operations |
|---|---|---|
| `MessageHeader::decode` (`src/header.rs`) | none | datagram -> header and set bytes, or an error |
| `SetIter` (`src/set.rs`) | the bytes not yet read | `next` -> a set, an error, or `None` |
| `TemplateSetIter` (`src/template.rs`) | the bytes not yet read, a `done` latch, the caller's field buffer | `next` -> a template borrowing the field buffer, an error, or `None` |
| `DataRecordIter` (`src/record.rs`) | the bytes not yet read, a layout computed from the template | `next` -> a record, an error, or `None` |
| `FieldIter` (`src/record.rs`) | the rest of the record, a field index | `next` -> a field value or an error |
| `SessionTemplateStore` (`src/store.rs`) | an LRU map (session, domain, template id) -> template | `insert`, `remove`, `remove_session`, `view().get` |
| `DecodePlan` (`src/decode.rs`) | a list of copy and swap operations | `build`, `apply` |
| UDP collector (`examples/udp_receiver.rs`) | the store, the datagram in hand | receive, decode, insert templates, decode data |
| JSON collector (`examples/json_collector.rs`) | the store under one session, the place in the capture, the flow in hand | load a capture, decode it, print a line per record |
| IE registry (`build.rs`, `src/ie/mod.rs`) | a generated sorted table | at build time: read the CSV file, select, sort, deduplicate, name constants; then `lookup`, `lookup_field` |
| field accessors (`src/field.rs`) | none | `as_u8` ... `as_str` |

Everything is called, nothing calls back. The UDP collector takes a datagram off a
socket, has the header, the sets and the template records decoded one inside the
other, puts templates into the store under the peer's IP address and the
observation domain of the header, and looks data sets up there. The JSON collector
does the same with the datagrams of a capture file, under one session for all
exporters, and goes on into the records and fields of each data set. The crate starts
no threads; the concurrency of the system is that of its environment: several
exporters, each sending templates and data under template ids of its own choice,
over a network that loses, repeats and reorders datagrams. Nothing is persisted.

What is hard to get right, and what the properties are for:

* **the store** under any interleaving of sessions: a hash table and a list that
  must agree, the boundary at capacity, collisions, removal of a session one key
  at a time, and the promise that exporters which keep refreshing their templates
  keep them;
* **two parsers of one format**: `DataRecordIter` finds the end of a record by one
  of three computations, `FieldIter` cuts it up by a fourth; they must agree to
  the byte for every template and buffer;
* **nested iterators after damage**: what an error costs, what it must not cost,
  and that every loop over them ends;
* **templates and data out of order**: data must never be decoded under another
  exporter's definition, nor under another definition of the same exporter;
* **merged operations**: `DecodePlan` coalesces fields into runs, and the runs must
  do what the fields would;
* **a table generated at build time** and searched at run time: the binary search is
  right only if the build has sorted and deduplicated what it read out of a quoted
  CSV file.

`PROJECT.json` lists the hazards with their lines and the properties aimed at each.

## Modules

| module | models | kind |
|---|---|---|
| `RecencyList` | the list inside schnellru's `LruMap` | operators |
| `SessionTemplateStore` | `src/store.rs` | specification |
| `TemplateCache` | what `store.rs` promises | abstract specification |
| `TemplateRetention` | the store with a history of refreshes | composition |
| `RecordBytes` | how `src/record.rs` computes extents and cuts fields | operators |
| `DataRecords` | the iterators of `src/record.rs` | specification |
| `Framing` | `src/header.rs`, `src/set.rs`, `src/template.rs` | specification |
| `Collector` | `examples/udp_receiver.rs` over `TemplateRetention` | composition |
| `JsonCollector` | `examples/json_collector.rs`, `src/field.rs` (numbers) over `SessionTemplateStore` and `RecordBytes` | composition |
| `DecodePlan` | `src/decode.rs`, `src/decode/swap.rs`, `DataRecord::decode_into` | specification |
| `CsvReader` | `parse_csv` of `build.rs` | component of the next |
| `IERegistry` | the rest of `build.rs`, `src/ie/mod.rs` | specification |
| `MC*` | instances for TLC | |
| `Induction` | induction up to a bound, values of recursive functions | lemmas |
| `SessionTemplateStoreProofs` | lemmas about the list, the store's invariants, that it implements `TemplateCache` | proofs |
| `CollectorProofs` | active templates survive; data is decoded under its own definition or not at all | proofs |
| `DataRecordsProofs` | records are cut as the wire format has them | proofs |
| `JsonCollectorProofs` | what is printed is what the capture says | proofs |
| `DecodePlanProofs` | plans stay in bounds, fit their template and decode it field by field | proofs |
| `FramingProofs` | what is returned is what the bytes say, undamaged sets are returned whole | proofs |
| `IERegistryProofs` | the table of rows is read as quoted, the registry is sorted, a lookup returns the first usable row, constants have distinct names | proofs |

### SessionTemplateStore

`templates` is the hash table of the `LruMap`, `recency` its list (front first),
`to_remove` the vector `remove_session` has collected, `call` the last call with
its result and whether it logged a warning. `insert` is `Insert` with its three
outcomes `Collide`, `Refresh` and `Install`; `remove` is `RemoveTemplate`; a lookup
through a view is `Get`. `remove_session` is two actions, as it is two loops:
`RemoveSession` collects, `RemoveCollected` removes one key; no other call can come
between them (`&mut self`), hence the guard `Idle`. Field lists are model values:
the store only compares them. `LruInsert`, `LruRemove`, `Promote` and `MakeRoom`
model the dependency `schnellru`, whose source is not in the repository, from its
documented behaviour with a `ByLength` limiter; capacity 0 is included.

### TemplateCache, TemplateRetention

`TemplateCache` is a bounded dictionary with an order of refreshes and no data
structure; `SessionTemplateStore!Cache` is the refinement mapping (`dict` is the
table, `earlier` the order of the list, `reply` the insertion and its outcome). `TemplateRetention`
adds two history variables to the store: the keys whose definition was accepted
and not removed by the caller, and for every key the others refreshed since. They
state the capacity rule of `store.rs` 182-185 and 262-266.

### RecordBytes, DataRecords

`RecordBytes` has what the iterators compute from bytes and field lengths, free of
their state; `DataRecords` is the state, and `JsonCollector` uses the same operators.
`DataRecordIter::new` is `Scan` and `LayoutOf`, its `next` the three actions
`StopAtPadding`, `FailTruncated`, `YieldRecord`; `FieldIter::next` is `NextField`,
which may run at any time on the record returned last. `Base` is the number of
values of a byte, and the 0xFF marker, the u16 range and 0xFFFF are derived from it
as the code derives them from 256, so that the long length form, the u16 overflow
of a gap and the overflow of the inline table are all reached by templates of three
fields and buffers of five bytes. The reference `CutsOf` says declaratively where the
fields of a record may end and shares no code with the model.

The four ways to go through a record are recursive functions of the field's index:
`Scans` (the template, for `min_record_size` and the gaps), `WalkOver` (the generic
layout), `Hops` (the inline layout) and the iterator `NextField` itself.

### Framing

Bytes are real bytes here. The exporter's encoder (`MessageBytes` and what it uses)
is the reference; `Received` is what a datagram can become. `DecodeHeader`,
`NextSet` (`StopAtMessageEnd`, `RejectSet`, `TakeSet`) and `NextTemplate`
(`StopAtSetEnd`, `RejectTemplate`, `YieldTemplate`) are the three `decode`/`next`
functions with everything they call. The loop over a template's field specifiers
is the recursive function `Fill`. Export time and sequence number are copied by
the code and never looked at; they are zero here. `FramingAssumption` says what an
exporter composes: well-formed templates in template sets only, nothing behind
them that could be another, and lengths that fit their 16-bit fields.

### Collector

`work` is the datagram in hand with the sets still to be decoded, `fate` the result
of decoding a data set, `used` the definitions each exporter has exported under. As
UDP may lose, repeat and reorder without limit, what arrives next is any datagram
an exporter may ever have sent, and the network needs no other state. One template
record is one step (`HandleTemplate`: the insertion into the store). A data set is
looked up in one step (`LookUpTemplate`), and if its template is there its records are
read one by one (`ReadRecord`) until the iterator ends the loop (`FinishData`). A
malformed set ends the datagram (`AbandonDatagram`), an error of `recv_from` the
program (`FailToReceive`, `stopped`). Sets are values; what `Framing` and
`DataRecords` report an error for is `Bad` or `Malformed`. Of the bytes of a data set
only their number is kept: a record takes `MinSize` of its template's fields, or any
number from there on if one of them is of variable length. Where all fields have length
0 it takes none, and the loop over the records does not end: `BackToTheSocket` names
that case (`RecordsTakeNoByte`), and `empty_slice` is its cause.

`ApartAssumption` names what the collector cannot do: two exporters that share an
address and a domain (but not a port) share their templates.

An exporter may redefine a template id without withdrawing it first. The collector
never calls `remove`, so the older definition stays in force until it is evicted.
`DecodedAsExported` therefore promises, without exception, a definition that the
data's own exporter has given the id; and the very definition the data was exported
under unless that exporter has redefined the id.

### JsonCollector

The program is sequential: it loads the capture (`ReadFrame`, `FailToLoad`,
`FinishLoading`), then goes through datagrams, sets, template records, data records
and fields, one action per step of the five nested loops. The pcapng reader is
external: a capture is a sequence of frames, and a frame has the header fields
`extract_udp_payload` looks at. Data sets are bytes, cut by the operators of
`RecordBytes`: `RecordSize` is the generic walk, as the three layouts are proved to agree
in every set a 16-bit length can describe, which a set of a UDP datagram is. The
references of this module (`Datagrams`, `RecordsWritten`, `Picked`) are recursive
functions and not folds, so that they can be reasoned about. A line printed is
tagged with the datagram and the set it came from. The number of bytes an accessor
wants is `Width` of its kind, so that addresses and counters are one or two bytes long.

`OutputAsCaptured` reads the capture as a whole: for every data set whose template
precedes it, one line per record with the exported values, in order, and no other
line. With one session for all exporters that holds of domains in which the first
announcement of an id in front of the data is the data's own (`AnnouncedRightly`),
and of captures with no more templates than the store holds (`NoEvictions`) and no
options in an IP header (`NoOptions`): the code reads those, its comment says it does
not. `JsonTerminates` excepts captures that put zero-length records in force, as
`BackToTheSocket` does.

### DecodePlan

`build` is one step per field (`PlanField`, or `RefuseLength` where an offset leaves
u32) between the two checks of `RefuseInputs` and the last of `FinishBuild`; `apply`
is `StartApply`, one `ApplyOp` per operation, `FinishApply`. The record has a
different value in every byte, so that any wrong move shows. `DecodedFields` is the
reference: field by field, in template order, without merging.

### CsvReader, IERegistry

`CsvReader` is the loop of `parse_csv`, one action per arm of its `match`; its reference
`RowsOfText` finds the ends of rows and fields by counting the quotes before them,
without reading from left to right. A word the reader has no reason to look into
is one character. The last row needs no line end, only something in it: a file that
ends in an empty quoted field alone on its line loses that row, which the reference
says too and the vendored table has no instance of.

`IERegistry` goes on with the selection of rows, the sort, the deduplication and the
constants, one action per element, and then with `lookup_field` (`lookup` is the same
with a bare id). The sort may take any order a stable sort may produce, and the
binary search may compare any element of the rest next, as the standard library
does not say which. `LookupFindsTheRow` goes from end to end: a lookup returns what the
first usable row of the file says. `heck`'s conversion of names is external: a name is
a sequence of words, each spelled in upper case; `WordAssumption` says that no word of a
name is a bare number, without which a name could collide with one that build.rs has
numbered, and that whatever stands in a file has a spelling.

## Runs

Every passing run checks one type invariant; its other properties are those of the
hazards. Each property is broken by a mutant of the code's definitions (the
operators marked "Mutant:" in the modules, paired with properties in `PROJECT.json`).

| run | instance | shows |
|---|---|---|
| `store` | 2 sessions, 2 domains, 2 ids, 2 field lists, 2 scope counts, capacity 3 | table and list agree, the bound holds, accepted templates are visible and never redefined, every eviction is warned about, only refreshes reorder, sessions go completely; `TemplateCache` is implemented |
| `retention` | 3 sessions with 2 ids each, capacity 3 | templates refreshed within the last `Capacity` distinct refreshes are there |
| `records` | `Base` 3, inline table of 2, up to 3 fields of length 0, 1, 5 or variable, up to 5 bytes | the extents of all three layouts are the reference's, the fields cover the record, nothing is lost, the loop ends |
| `framing` | messages of up to 2 of 5 sets; every prefix, every byte changed to 7 values, foreign bytes behind | what is returned is what the bytes say, undamaged sets are returned whole, a template set ends at its first error, the loops end |
| `collector` | 3 exporters (same host/other domain, other host/same domain), 4 templates (two of them announced in one set; fixed, variable and no length), capacity 2, datagrams of up to 2 sets, data sets of 2 bytes, one exporter redefines | data is decoded under its own exporter's definition or not at all, known data is decoded, templates that arrive are served, the loop returns to the socket unless records take no byte |
| `plan` | all templates of up to 3 fields with lengths 0 to 4 (and variable), mappings to overlapping and adjoining destinations, u32 ending at 9, u16 at 2 | operations stay in bounds, merging changes nothing, `build` accepts and refuses what it says |
| `registry` | every text of up to 5 of 5 characters; tables of a header and up to 3 of 9 rows (same id, same name, quoted line ends, rows to skip); 4 ids looked up | the reader returns what the quotes say, the table is sorted, a lookup returns what the first usable row says, constants have distinct names |
| `json` | captures of up to 3 of 16 frames (4 templates in 2 domains, damaged sets, padding, other protocols; no IP options), capacity 3 | the output is what the capture says, the program ends (no template of this instance has records of no byte) |

The runs that end in a violation record where the code and its documents disagree
(`findings` in `PROJECT.json` quotes them): `empty_slice`, `all_fixed`, `octets`,
`enterprise`.

* `empty_slice`: a template whose fields all have length 0 has no smallest record,
  and the record iterator yields empty records for ever, on an empty set as well.
  `Terminates` is therefore stated for records of at least one byte.
* `all_fixed`: if the first variable-length field is preceded by more than 65 535
  fixed bytes, its gap is not counted and the layout is `AllFixed`. `records` is
  bounded so that two fields of five bytes overflow a gap of at most 8 but no
  buffer is long enough for such a record to be cut, which is the situation of every
  caller that reads a set (at most 65 531 bytes); `all_fixed` allows longer buffers.
* `octets`: octet arrays and strings of 2, 4, 8 or 16 bytes are byte-swapped.
* `enterprise`: `populate_flow` looks at the element's number alone, so an
  enterprise's own element is printed as the IANA element of that number; the run
  has such an element (a reverse element of RFC 5103) in its only capture.

Observed on the way and not made into runs; no property of a passing run takes a side
in the first four:

* a set of reserved id, or one whose length is wrong, costs the sets behind it, though
  `set.rs` 119 speaks of continuing with the remainder; the test at `set.rs` 317 expects
  what the code does. `IntactSetsAreReturned` is stated for sets with no malformed
  header in front of them, `ErrorsAreFinal` for the iterator over a template set only,
  whose documentation says so (`template.rs` 334-336);
* data exported under a definition that `insert` refused is decoded under the old
  one, though `store.rs` 111 says to drop it (hence the form of `DecodedAsExported`);
* the JSON collector files the templates of all exporters under one session, though
  `store.rs` 66-71 asks callers to tell sessions apart (hence `AnnouncedRightly`);
* `json_collector.rs` 132 says that frames with IP options are skipped, but they are
  read (hence `NoOptions`, and no such frame in the instance);
* `template.rs` 334 takes only less than 4 bytes for padding, but what an options set is
  left with is dropped up to 5 bytes;
* a template id below 256 is accepted (`template.rs` 143 says otherwise), and a
  template withdrawal (field count 0) is `InvalidLength` and ends its set;
* a store of capacity 0 answers `Inserted` though it installs nothing (hence
  `Capacity > 0` in two theorems);
* fields of reduced length have no value in the JSON collector's output.

### Bounds

* three entries are enough for an entry to be at the front, in the middle and at the
  tail of the list, and eight keys for evictions to happen in every order;
* with three fields a template has fixed fields before, between and after
  variable-length ones, and with an inline table of two the third of them overflows it;
* a second set is enough to see what an error costs what is behind it and what is
  in front of it; every byte of the first is damaged;
* four templates over two entries make every exporter lose templates to the others;
* data sets of two bytes hold two records of a byte, or a longer one, or one cut short;
* with three fields a run can be started, extended and broken, with counts at their
  limit of two;
* five characters hold a quoted field with a doubled quote, or a quote on either side
  of a separator or of both halves of a line end; three rows hold two for one id with
  another between them;
* with three frames a template can precede its data, follow it, or be followed by
  another of its id before or after the data.

Deadlock is checked for `store`, `retention` and `registry`. The iterators, the decode
plan and the JSON collector really stop once their input is used up, the UDP collector
when `recv_from` fails: their configurations say `CHECK_DEADLOCK FALSE`. That the iterators and the
JSON collector do stop is what `Terminates` and `JsonTerminates` say, and that the UDP
collector gets to where it waits, `BackToTheSocket`.

### Fairness

`DataRecords` and `Framing` assume weak fairness of `next` only: the caller's loop
polls until `None`, which is what every loop in the examples and tests does.
`FieldIter` has no fairness: a caller may abandon a record. `Collector` assumes that
the loop goes on with the datagram it holds; it assumes nothing of the network, so
`ArrivedIsServed` starts from a template that has arrived. `JsonCollector` assumes that
`main` runs: nothing it waits for is outside of it. `IERegistry` states no fairness:
its loops run over what is there, and nobody has to look anything up.

## Proofs

All theorems hold for every value of the constants that the named assumptions of
the modules allow:

| theorems about | assumptions |
|---|---|
| the store, its cache, retention | `CapacityAssumption`: a natural number; any sessions, domains, ids, definitions |
| the collector | that one, `CollectorAssumption` (types; an exporter starts with one definition per id) and `ApartAssumption` |
| the record iterators | `ByteAssumption` (a byte has at least two values), `RecordAssumption` (types) and `SetsFit`, see below |
| the JSON collector | `CapacityAssumption`, `ByteAssumption`, and `JsonAssumption`: one session; a template has fields; what a frame holds is a message whose data sets are records of some template, written as RFC 7011 says, with padding or a cut record behind them |
| the decode plan | `PlanAssumption` (types of its inputs and of the two integer limits) |
| the framing | `FramingAssumption` (see above); any damage: `Garbage` is any set of bytes |
| the reader and the registry | `CharAssumption` (quote, comma, CR and LF are four characters), `IdAssumption` (cells that parse give 16-bit ids), for the names `WordAssumption` (words have spellings, ids have words of their own); any file |

**The store** (`SessionTemplateStoreProofs`). The inductive invariant is `IndInv`: the
types, `ListMatchesTable`, a bound on the length of the list, `EntriesKeepTheirId`, and
`RemovalUnderWay`. None of the run's invariants is inductive alone: the bound is a
bound on the list, and carries over to the table only because both hold the same
keys, each once; removing a key keeps the two in step only if the key occurs once;
`SessionIsGone` follows only when the collected keys are known to be all the
session still has, which is what `RemovalUnderWay` says. There is one lemma per call
(`CollideInv`, `RefreshInv`, `InstallInv`, `RemoveInv`, `RemoveCollectedInv`), and
the module begins with the facts about unlinking, promoting and positions they use.
`NeverRedefined` and `EvictionReported` are action properties proved from `IndInv`, as
is `RefreshesReorder`: only a refresh moves an entry
past another, and only the entry refreshed.

**Refinement** (`Refinement` in the same module). Every step of the store is a step of
`TemplateCache` or a stutter there: a promotion moves one key behind all others in the
order of refreshes, an eviction takes the key before all others. Capacity 0 is left
out, as the code then answers `Inserted` without installing.

**Retention** (`CollectorProofs`, first part). `RetentionInv` adds to `IndInv` that the list
follows the refreshes: whoever stands before an entry was refreshed after it. The
tail of a full list has `Capacity - 1` entries before it, and the newcomer makes
`Capacity` rivals: so an entry that is evicted had that many rivals.

**The collector** (`CollectorProofs`). `CollectorInv` adds to the invariants of the store
and its history what ties templates to their senders: `FiledByExporter`, that whatever is
filed under an exporter's address and domain was exported by that exporter. It is
inductive only because no two exporters share an address and a domain, and because
the datagram in hand holds nothing but definitions its sender has used so far, a set
that only grows. The set records are being read from is the one the lookup was made
for (`Decoding`), so what was found for it is in force for all of them.
`DecodedRightly` follows, and `KnownDecoded` from `RetentionInv`: a
definition that was accepted and is not there has been evicted.

**The record iterators** (`DataRecordsProofs`). The reference says that a record is a
division of its bytes into fields; the code walks, hops or multiplies.

* `WalkFacts` and `CutFollowsWalk`: wherever the reference divides a buffer, the walk
  is at the same place after the same fields. So there is at most one division, and
  `WalkedExtent` says that the walk succeeds exactly if there is one.
* `InlineWalk` and `AllFixedWalk` show that the hops over gaps and the fixed size end
  where the walk does; `ExtentIsWalked` joins the three layouts, and `CutRightly` adds
  the test against `min_record_size`: it stops nothing that could be divided.
* For `FieldIter` the invariant is `Divides`: the fields not yet read divide what is
  left of the record. `FieldIsRead` shows that the next read succeeds and keeps it.

`RecordInv` collects what is fixed, what has been cut and what has been read. All
five theorems assume `SetsFit`, that a set is no longer than its 16-bit length field
can say. Without it the theorems are false: `all_fixed` is the counterexample.
The recursive functions are opened by induction over their domain, done once in
`Induction`: `LeastNatural` finds the least index at which a set of good indices ends,
which needs no induction theorem with an operator parameter; `UpTo` and `Recursion`
follow from it.

**The JSON collector** (`JsonCollectorProofs`). `OutputIsAsCaptured` speaks of the finished
output and of the capture as a whole; what makes it inductive is to say, in the
capture's own terms, what each loop has done when it is half way.

* `TypesInv` says where the loops are: the payloads found are the messages of the
  frames read (`Loaded`); what has been gone past in the message in hand was neither
  malformed nor `Bad` (`InPlace`), without which the set in hand would not be one of
  those the capture is said to hold (`HereIsAPlace`); a layout is in force in a data set
  only (`InData`). `JsonTypeCorrect` follows, over the store's own `IndInv`.
* `TableAsAnnounced`: every template in the store was announced in front of the place
  in hand, and as long as the keys of the capture are no more than the capacity, the
  store has for every key announced its first announcement. A new key finds room
  because the store's keys are some of the capture's and the new one is another
  (`RoomLeft`). So a lookup finds the exporter's own definition if that came first
  (`InForce`).
* `Reading(set, k)` says that k records have been printed: what is left of the set is
  what the exporter wrote of the other records, what is left of the record is what it
  wrote of the other fields, and the flow is what the fields in front say (`Said`).
  A field written is read back (`FieldIsRead`), so the walk ends where the record ends
  (`RecordIsRead`, `NextRecordFound`); the member a field goes to has the value of the
  last field for it (`OneMoreSaid`). When the code finds no more, all records have been
  printed (`FinishReads`), because in what stands behind them there is no record
  (`NoneIsFound`): padding is what does not divide into fields.
* `PrintedSoFar` joins them: lines are in order (`InOrder`), come from data sets that
  have been reached (`Reached`), sets gone past have been printed as they should
  (`Passed`), and of the set in hand the first k records (`InHand`).

The hypothesis `OnlyIana` of `OutputAsCaptured` is what makes the values printed the values
meant, and is not used in the proof: the code and `Meaning` both go by element numbers.
`NoOptions` is not used either: it keeps the theorem from promising what the comment of
`extract_udp_payload` denies.

**The decode plan** (`DecodePlanProofs`). First its bounds: `PlanInv` is `TypeOK` with `OpsStayInBounds`:
a bound survives the next field only if the lengths it compares are numbers no
greater than `u32::MAX`, which the types say and the bound does not. A lemma per
helper (`PushSwapWithin`, `PushCopyWithin`) shows that a new operation and an extended
one both end where the planned field ends; the saturating sums the code compares
are exact there (`SumIsExact`). So `apply`, which slices without looking, never
reaches beyond the two lengths it has checked, for any template and any mappings.

`PlanFits` is proved from `PlanSoFar`, which says of the fields planned what
`PlanFitsTemplate` says of all: the record length is the offset of the next field, the
buffer length the furthest end so far, and no element is mapped twice, so that the
mapping `build` finds is the only one.

That merging changes nothing (`MergedPlansDecode`) is proved for every record and every
buffer at once: `PlanDecodes` says that running the operations planned so far has the
effect of decoding the planned fields one by one. It is inductive because of what the
next field does to the list:

* if it starts an operation, that operation writes the field in native order, after
  everything else (`EffectOfAppend`, `OneFieldMoved`);
* if it extends the last one, the longer operation writes what the last one wrote with
  the field's bytes behind it (`LongerSwapMoved`, `LongerCopyMoved`; a run swapped
  element by element is the swapped run before and the element reversed, `SwapLonger`),
  and two writes of which the second begins where the first ends are one
  (`WrittenTwice`, `EffectOfExtension`). Only the last operation can be extended, so
  nothing written between the two is overtaken, whatever overlaps.

`RunSoFar` ties `apply` to it: the buffer is what the operations run so far have written.

**The framing** (`FramingProofs`). Everything is about byte sequences of any length, so
the proofs rest on one relation: `Stands`, that a piece stands in other bytes at a
place. From it follow two groups of lemmas, per format (two-byte numbers, field
specifiers, templates, sets): reading what stands somewhere returns what was written
(`FieldEncoded`), and writing what was read gives the bytes it was read from
(`FieldDecoded`). For `Fill`, the loop over the fields of a template, both are done by
induction up to the field count.

* `FramingInv` says of the three nested iterators where each is (`Stages`), and that
  the bytes it has left begin where the bytes of what it has returned end
  (`SetCursor`, `TemplateCursor`). `BytesAreFollowed` says so for every datagram, damaged
  or not. `ErrorsEndIterators` needs `Stages`: an error of the template iterator is
  only ever there with its latch set, which the next call finds.
* `IntactInv` relates what was heard to what was composed. A set whose bytes and the
  headers in front of it arrive unchanged is in one of three places: it lies ahead
  of the cursor (`Ahead`), it is the set in hand, with a prefix of its templates
  returned and the rest still in the buffer, or it has been heard as composed.
  An error in a set in front empties that set's cursor only, which is why
  `IntactSetsReturned` holds though earlier sets are damaged.

**The registry** (`IERegistryProofs`). `RegistryInv` says of each stage what the next one
needs: after the sort ids do not go down (`SortedElements`), what is kept is older than
what is still to come (`KeptFirst`), so that the table is strictly sorted, which with
`StillAhead`, that an element looked for is between the bounds, makes the search
exact whichever element it compares.

`RowInv` carries the file along. While rows are selected, the elements are those of
a strictly rising sequence of rows (`MadeFrom`). After the sort, an element that no
other of its id stands before says what the first row with that id says
(`FirstComeFirst`): this is where the sort has to be stable. Dedup keeps exactly
these, as all it has kept has smaller ids (`KeptIsLess`, from `KeptFirst`), and leaves no
id out (`KeptIsDescribed`). `LookupReturnsTheRow` joins that to the search.

`NameInv` says which name each constant was given: the plain one, or, if an earlier
element has it, the plain one and the id. Two plain names differ because the later
one would have been seen, two numbered ones because ids are distinct, and a plain
one is no numbered one because no word of a name is a number (`ConstantsDiffer`).

**The reader** (`RowsAreRead` in the same module). The reference counts the quotes in front
of every character and has no cursor; `ReaderInv` says what the reader's state is in its
terms. At every place the reader comes to (`ReadTo`), it is in quotes exactly if the
number of quotes before the place is odd, and it holds the rows whose ends lie before
the place, the fields of the last row that have ended, and the text of the last field
(`SoFar`). `NoHalfPair` is what makes that inductive: outside quotes the reader never
stands between two quotes, or between CR and LF, that it should have taken together;
there a quote would be text, and a line feed no end of a row. The reference lists places
by `InOrder`, which chooses the place that has so many before it; `Listed` shows that this is
the one rising sequence of them, so that a further place goes to its end
(`InOrderGrows`), and from that come the steps of the reference that match the reader's:
one more character (`CharStep`), field (`FieldStep`) and row (`RowStep`). At the end of the
file (`EndOfInputStep`) what is left over is a row exactly if the reference sees text or the
end of a field behind the last row.

Only model-checked: liveness (`Terminates` of both iterators, `ArrivedIsServed`,
`BackToTheSocket`, `JsonTerminates`), which needs fairness and is out of TLAPS's reach
here. Every safety invariant and action property of the passing runs is a theorem.

## Not modelled

* **Error type and crate root** (`src/error.rs`, `src/lib.rs`): no control flow; the
  variants appear as verdicts, their payloads and texts do not.
* **The other accessors** (`as_u128`, `as_str`, `is_enterprise`): stateless, and called by
  no other code. The accessors the JSON collector calls are in `Accessed`.
* **Tests, benches, fuzz targets**: they drive the components above.
* **The pcapng reader, the hash function, `heck`, `schnellru`**: dependencies, modelled from
  how the code uses them and marked external.
* Export time and sequence number are copied, never interpreted, and the layout of the
  output is not modelled; that a warning is given is.

## Plan

Done, in this order: the store with its abstract cache, its retention history and
their proofs; the record iterators; framing; the collector; the decode plan and the
proofs that it stays in bounds, fits its template and decodes field by field; the
registry; the JSON collector; the proofs of the collector and of the record
iterators; the orders of the list as theorems; the proofs of framing; the registry
from the file to the answer, and the names of its constants; the reader of the file;
the output of the JSON collector.

To do:

1. The safety half of the liveness properties as theorems: a measure that every call of an
   iterator, and every step of the JSON collector's loops, lowers, so that only fairness is
   left to the model checker.
2. A caller that grows its field buffer and retries after `FieldBufferTooSmall`, as
   `template.rs` 165-166 suggests, through `decode_into` directly.
