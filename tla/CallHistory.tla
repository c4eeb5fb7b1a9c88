---------------------------- MODULE CallHistory ----------------------------
(***************************************************************************)
(* telephony.HistoryInLocation: the call detail records in the tail of the *)
(* file that Asterisk's cdr_csv appends to, while it appends.              *)
(*                                                                         *)
(* The file is a sequence of characters: "q" a quote, "n" a newline, "c" a *)
(* comma, "d" a digit and "x" any other that is not blank.  A record has   *)
(* three columns for the eighteen of the code: a quoted string, a number   *)
(* without quotes and a quoted string; a quote in a string is doubled.     *)
(***************************************************************************)
EXTENDS Naturals, Sequences, FiniteSets, SequencesExt, FiniteSetsExt

CONSTANTS
    Strings,      \* values of the string columns
    MaxRecords    \* bound on the records of the file

Chars == {"q", "n", "c", "d", "x"}

ASSUME HistoryAssumption == Strings \subseteq Seq(Chars) /\ MaxRecords \in Nat

VARIABLES
    cdrs,         \* the records Asterisk has written or is writing
    pending       \* the characters of the last one that are not in the file yet

cdrVars == <<cdrs, pending>>

Number == <<"d">>

-----------------------------------------------------------------------------
(* Asterisk (external).                                                     *)

Doubled(string) ==
    LET upTo[k \in 0 .. Len(string)] ==
            IF k = 0 THEN <<>>
            ELSE upTo[k - 1] \o IF string[k] = "q" THEN <<"q", "q">> ELSE <<string[k]>>
    IN  upTo
Quoted(string) == <<"q">> \o Doubled(string)[Len(string)] \o <<"q">>
Encoded(record) ==
    Quoted(record[1]) \o <<"c">> \o record[2] \o <<"c">> \o Quoted(record[3]) \o <<"n">>

\* The text of the first k records, and of the file.
Texts(records) ==
    LET upTo[k \in 0 .. Len(records)] ==
            IF k = 0 THEN <<>> ELSE upTo[k - 1] \o Encoded(records[k])
    IN  upTo
TextOf(k) == Texts(cdrs)[k]
FileText ==
    LET all == TextOf(Len(cdrs)) IN SubSeq(all, 1, Len(all) - pending)

\* A record is appended, all of it or first a part.
WriteRecord ==
    /\ pending = 0 /\ Len(cdrs) < MaxRecords
    /\ \E s1, s2 \in Strings :
          LET record == <<s1, Number, s2>>
          IN  /\ cdrs' = Append(cdrs, record)
              /\ pending' \in 0 .. Len(Encoded(record)) - 1
FinishRecord ==
    /\ pending > 0 /\ pending' \in 0 .. pending - 1
    /\ UNCHANGED cdrs

CdrInit == cdrs = <<>> /\ pending = 0
CdrNext == WriteRecord \/ FinishRecord

CdrSpec == CdrInit /\ [][CdrNext]_cdrVars

-----------------------------------------------------------------------------
(* The reader.                                                              *)

\* Mutant of FirstSafeBoundary: the first newline, wherever it is.
FirstNewline(data) == {k \in 2 .. Len(data) : data[k - 1] = "n"}

\* firstSafeCSVBoundary: the starts of lines that are outside quotes, told from
\* the end of the data.
FirstSafeBoundary(data) ==
    {k \in 2 .. Len(data) :
        data[k - 1] = "n" /\ Cardinality({i \in k .. Len(data) : data[i] = "q"}) % 2 = 0}

\* encoding/csv (external): one character.  st is the state of the field.
Csv(st, field, row, rows) == [st |-> st, field |-> field, row |-> row, rows |-> rows]
CsvStart == Csv("line", <<>>, <<>>, <<>>)
Goto(s, st) == Csv(st, s.field, s.row, s.rows)
AddTo(s, st, c) == Csv(st, Append(s.field, c), s.row, s.rows)
EndField(s) == Csv("start", <<>>, Append(s.row, s.field), s.rows)
EndRow(s) == Csv("line", <<>>, <<>>, Append(s.rows, Append(s.row, s.field)))
CsvStep(s, c) ==
    IF s.st = "error" THEN s
    ELSE IF s.st = "quoted"
         THEN IF c = "q" THEN Goto(s, "closing") ELSE AddTo(s, "quoted", c)
    ELSE IF c = "q"
         THEN IF s.st = "plain" THEN Goto(s, "error")
              ELSE IF s.st = "closing" THEN AddTo(s, "quoted", c)
              ELSE Goto(s, "quoted")
    ELSE IF c = "n" THEN IF s.st = "line" THEN s ELSE EndRow(s)
    ELSE IF c = "c" THEN EndField(s)
    ELSE IF s.st = "closing" THEN Goto(s, "error") ELSE AddTo(s, "plain", c)

CsvRun(s, data) ==
    LET after[k \in 0 .. Len(data)] ==
            IF k = 0 THEN s ELSE CsvStep(after[k - 1], data[k])
    IN  after

\* reader.Read until io.EOF: a last line without a newline is a record too.
CsvRows(data) ==
    LET end == CsvRun(CsvStart, data)[Len(data)]
    IN  IF end.st \in {"line", "error", "quoted"} THEN end ELSE EndRow(end)

\* Mutant of ParseHistoryRow: missing columns are taken for empty ones.
RowOfAnyLength(row) == Len(row) < 2 \/ row[2] = Number

\* A record of one blank field is skipped; parseHistoryRow wants its columns.
IsBlank(row) == Len(row) = 1 /\ \A i \in DOMAIN row[1] : row[1][i] = "n"
ParseHistoryRow(row) == Len(row) = 3 /\ row[2] = Number

Unreadable == [ok |-> FALSE, rows |-> <<>>]

NotBlank(rows) ==
    LET upTo[k \in 0 .. Len(rows)] ==
            IF k = 0 THEN <<>>
            ELSE IF IsBlank(rows[k]) THEN upTo[k - 1] ELSE Append(upTo[k - 1], rows[k])
    IN  upTo

ParseHistory(data) ==
    LET csv == CsvRows(data)
        rows == NotBlank(csv.rows)[Len(csv.rows)]
    IN  IF csv.st # "line" \/ \E i \in DOMAIN rows : ~ParseHistoryRow(rows[i])
        THEN Unreadable ELSE [ok |-> TRUE, rows |-> rows]

\* HistoryInLocation with a window of maxBytes.
History(text, maxBytes) ==
    LET data == SubSeq(text, Len(text) - maxBytes + 1, Len(text))
        boundary == FirstSafeBoundary(data)
    IN  IF Len(text) <= maxBytes THEN ParseHistory(text)
        ELSE IF data[maxBytes] # "n" THEN Unreadable
        ELSE ParseHistory(IF boundary = {} THEN <<>>
                          ELSE SubSeq(data, Min(boundary), maxBytes))

-----------------------------------------------------------------------------
(* Properties.                                                              *)

\* The records that are completely in the file.
Finished == IF pending = 0 THEN Len(cdrs) ELSE Len(cdrs) - 1

\* The records that a window of the file shows: all of them, or those after
\* the first end of a record in it.
InWindow(maxBytes) ==
    {k \in 1 .. Finished :
        Len(FileText) <= maxBytes \/ Len(TextOf(k - 1)) > Len(FileText) - maxBytes}

\* "Discard the first possibly partial record without treating a newline inside
\* a quoted multiline field as a boundary": while Asterisk rests, every window
\* is readable and shows exactly the calls whose records begin after the first
\* end of a record in it, whatever quotes and newlines the fields hold and
\* wherever the window begins.
WindowIsExact ==
    pending = 0 =>
        \A maxBytes \in 1 .. Len(FileText) :
            LET read == History(FileText, maxBytes)
                shown == InWindow(maxBytes)
            IN  /\ read.ok
                /\ read.rows =
                      SubSeq(cdrs, Finished - Cardinality(shown) + 1, Finished)

\* While a record is being written, an answer for the whole file either fails or
\* shows all finished calls, and of the unfinished one at most a row whose last
\* column lacks its end: no call is lost, doubled or mixed with the next.
WholeFileIsHonest ==
    LET read == History(FileText, Len(FileText))
        rest == SubSeq(read.rows, Finished + 1, Len(read.rows))
    IN  read.ok =>
          /\ IsPrefix(SubSeq(cdrs, 1, Finished), read.rows)
          /\ rest # <<>> =>
                /\ Len(rest) = 1 /\ Len(rest[1]) = 3 /\ pending > 0
                /\ SubSeq(rest[1], 1, 2) = SubSeq(cdrs[Len(cdrs)], 1, 2)
                /\ IsPrefix(rest[1][3], cdrs[Len(cdrs)][3])

\* "A truncated tail captured during an in-progress append has unknown EOF quote
\* state, so fail explicitly rather than guessing backward boundaries."
UnfinishedTailFails ==
    pending > 0 =>
        \A maxBytes \in 1 .. Len(FileText) - 1 : ~History(FileText, maxBytes).ok
=============================================================================
