----------------------------- MODULE CsvReader -----------------------------
(***************************************************************************)
(* parse_csv of build.rs: the state machine that turns the vendored IANA   *)
(* table into rows of fields at build time, one step per pass of its loop. *)
(* A text is a sequence of characters; a word the reader has no reason to  *)
(* look into counts as one character.                                      *)
(***************************************************************************)
EXTENDS Integers, Sequences, FiniteSets

CONSTANTS
    Texts,                  \* the files that may be read
    Quote, Comma, CR, LF    \* the characters the reader tells apart

ASSUME CharAssumption == Quote \notin {Comma, CR, LF} /\ Comma \notin {CR, LF} /\ CR # LF

VARIABLES
    text,       \* the file
    pos,        \* the next character of it
    in_quotes,  \* inside a quoted field
    field,      \* the field, the row and the rows read so far
    row,
    rows,
    parsed      \* parse_csv has returned

csvVars == <<text, pos, in_quotes, field, row, rows, parsed>>

CsvInit ==
    /\ text \in Texts
    /\ pos = 1
    /\ in_quotes = FALSE
    /\ field = <<>>
    /\ row = <<>>
    /\ rows = <<>>
    /\ parsed = FALSE

More == pos <= Len(text)
Char == text[pos]
PeekIs(c) == pos < Len(text) /\ text[pos + 1] = c

\* Mutant: two quotes in a row close the field and open it again.
NoEscape ==
    /\ More /\ in_quotes /\ Char = Quote
    /\ in_quotes' = FALSE
    /\ pos' = pos + 1
    /\ UNCHANGED <<text, field, row, rows, parsed>>

\* A quote in a quoted field ends it, unless another one follows: then the two
\* stand for one.
QuoteInside ==
    /\ More /\ in_quotes /\ Char = Quote
    /\ IF PeekIs(Quote)
       THEN /\ field' = Append(field, Quote)
            /\ pos' = pos + 2
            /\ UNCHANGED in_quotes
       ELSE /\ in_quotes' = FALSE
            /\ pos' = pos + 1
            /\ UNCHANGED field
    /\ UNCHANGED <<text, row, rows, parsed>>

QuoteOutside ==
    /\ More /\ ~in_quotes /\ Char = Quote
    /\ in_quotes' = TRUE
    /\ pos' = pos + 1
    /\ UNCHANGED <<text, field, row, rows, parsed>>

\* Everything else is part of the field; in quotes, separators are too.
PushChar ==
    /\ More /\ Char # Quote
    /\ in_quotes \/ Char \notin {Comma, CR, LF}
    /\ field' = Append(field, Char)
    /\ pos' = pos + 1
    /\ UNCHANGED <<text, in_quotes, row, rows, parsed>>

EndField ==
    /\ More /\ ~in_quotes /\ Char = Comma
    /\ row' = Append(row, field)
    /\ field' = <<>>
    /\ pos' = pos + 1
    /\ UNCHANGED <<text, in_quotes, rows, parsed>>

\* A carriage return takes the line feed behind it along.
EndRow ==
    /\ More /\ ~in_quotes /\ Char \in {CR, LF}
    /\ rows' = Append(rows, Append(row, field))
    /\ row' = <<>>
    /\ field' = <<>>
    /\ pos' = IF Char = CR /\ PeekIs(LF) THEN pos + 2 ELSE pos + 1
    /\ UNCHANGED <<text, in_quotes, parsed>>

\* The last row needs no line end, only something in it.
EndOfInput ==
    /\ ~More /\ ~parsed
    /\ rows' = IF field # <<>> \/ row # <<>> THEN Append(rows, Append(row, field)) ELSE rows
    /\ parsed' = TRUE
    /\ UNCHANGED <<text, pos, in_quotes, field, row>>

ReadCsv ==
    QuoteInside \/ QuoteOutside \/ PushChar \/ EndField \/ EndRow \/ EndOfInput

-----------------------------------------------------------------------------
(* What a CSV file says, without reading it from left to right.            *)

Places == 1..Len(text)
InOrder(places) ==
    [k \in 1..Cardinality(places) |->
        CHOOSE i \in places : Cardinality({j \in places : j < i}) = k - 1]

\* An even number of quotes precedes whatever stands outside quotes.
Outside(i) == Cardinality({j \in 1..(i - 1) : text[j] = Quote}) % 2 = 0

\* The line feed of a CR LF says nothing of its own.
Follows(i) == i > 1 /\ text[i] = LF /\ text[i - 1] = CR /\ Outside(i)
EndsRow(i) == text[i] \in {CR, LF} /\ Outside(i) /\ ~Follows(i)
EndsField(i) == text[i] = Comma /\ Outside(i)

\* A quote is text when it would open a field right behind another quote.
IsText(i) ==
    IF text[i] = Quote
    THEN i > 1 /\ text[i - 1] = Quote /\ Outside(i)
    ELSE ~EndsRow(i) /\ ~EndsField(i) /\ ~Follows(i)

\* The text between two places, the rows' ends, and the rows between them.
TextIn(a, b) ==
    LET places == InOrder({i \in a..b : IsText(i)})
    IN  [k \in DOMAIN places |-> text[places[k]]]

RowEnds ==
    LET ends == {i \in Places : EndsRow(i)}
        open == {i \in Places : (\A e \in ends : e < i) /\ (IsText(i) \/ EndsField(i))}
    IN  InOrder(ends \cup (IF open = {} THEN {} ELSE {Len(text) + 1}))

RowBetween(a, b) ==
    LET ends == InOrder({i \in a..(b - 1) : EndsField(i)} \cup {b})
    IN  [k \in DOMAIN ends |-> TextIn(IF k = 1 THEN a ELSE ends[k - 1] + 1, ends[k] - 1)]

RowsOfText ==
    [k \in DOMAIN RowEnds |->
        RowBetween(IF k = 1 THEN 1 ELSE RowEnds[k - 1] + 1, RowEnds[k])]

\* parse_csv returns the rows and fields of the file, whatever commas, line
\* ends and doubled quotes its quoted fields contain (build.rs 188-190:
\* "Handles quoted fields, embedded commas, embedded newlines, and "" quote
\* escapes. Recognizes both \n and \r\n row terminators").
ParsedAsQuoted == parsed => rows = RowsOfText
=============================================================================
