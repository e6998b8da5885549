------------------------------- MODULE TaskImport -------------------------------
(***************************************************************************)
(* A list of customers becomes tasks: the dashboard reads a delimited      *)
(* file, shows its rows, writes the whole text again when a row is edited  *)
(* or deleted, and sends the valid rows; the API creates the tasks one     *)
(* after the other, urgent ones first, until one is refused.               *)
(*                                                                         *)
(* A text is a sequence of lines, a line a sequence of characters: the     *)
(* delimiters "," and "tab", the quote "q", digits "d" and letters.  The   *)
(* header of the telephone column is <<"p">>, of the priority <<"u">>.     *)
(***************************************************************************)
EXTENDS Integers, FiniteSets, SequencesExt

CONSTANTS Files,      \* texts a file may hold
          Values,     \* what may be typed into a field
          MaxEdits, MaxBatches

VARIABLES reading,    \* files chosen whose text has not come yet
          name,       \* the file the page names
          text,       \* listText
          rows,       \* its rows, as the page shows them
          edits,      \* rows edited or deleted
          batch,      \* the items the API still has to create, and how it ended
          created     \* tasks: [batch, to, urgent, of], oldest first

vars == <<reading, name, text, rows, edits, batch, created>>

Phone == <<"p">>
Priority == <<"u">>

(* parseLine: a delimiter outside quotes ends a cell; a doubled quote in   *)
(* quotes is one.                                                          *)
RECURSIVE CellsFrom(_, _, _, _)
CellsFrom(line, delimiter, cell, quoted) ==
  IF line = <<>> THEN <<cell>>
  ELSE IF quoted /\ Len(line) > 1 /\ line[1] = "q" /\ line[2] = "q"
  THEN CellsFrom(Tail(Tail(line)), delimiter, Append(cell, "q"), TRUE)
  ELSE IF line[1] = "q" THEN CellsFrom(Tail(line), delimiter, cell, ~quoted)
  ELSE IF line[1] = delimiter /\ ~quoted
  THEN <<cell>> \o CellsFrom(Tail(line), delimiter, <<>>, FALSE)
  ELSE CellsFrom(Tail(line), delimiter, Append(cell, line[1]), quoted)

ParseLine(line, delimiter) == CellsFrom(line, delimiter, <<>>, FALSE)

Filled(lines) == SelectSeq(lines, LAMBDA line : line # <<>>)
DelimiterOf(line) == IF "tab" \in ToSet(line) THEN "tab" ELSE ","

(* The page's own guess looks at the first line, blank or not.             *)
DetectDelimiter(lines) == IF lines = <<>> THEN "," ELSE DelimiterOf(lines[1])
ExtractHeaders(lines, delimiter) ==
  IF Filled(lines) = <<>> THEN <<>> ELSE ParseLine(Filled(lines)[1], delimiter)

Cell(cells, i) == IF i <= Len(cells) THEN cells[i] ELSE <<>>

(* A row: the cell of the first telephone column, and of every other name   *)
(* the last cell that is not blank.                                        *)
Row(headers, cells) ==
  LET of(h) == {i \in DOMAIN headers : headers[i] = h}
      said(h) == {i \in of(h) : Cell(cells, i) # <<>>}
  IN [h \in ToSet(headers) \ {<<>>} |->
        IF h = Phone THEN Cell(cells, Min(of(h)))
        ELSE IF said(h) = {} THEN <<>> ELSE cells[Max(said(h))]]

(* A list without a telephone column is one row that says so.              *)
ParseImportText(lines) ==
  LET filled == Filled(lines)
      delimiter == DelimiterOf(filled[1])
      headers == ParseLine(filled[1], delimiter)
  IN IF filled = <<>> THEN <<>>
     ELSE IF Phone \notin ToSet(headers) THEN <<[h \in {Phone} |-> <<>>]>>
     ELSE [n \in 1..(Len(filled) - 1) |->
             Row(headers, ParseLine(filled[n + 1], delimiter))]

ValidNumber(to) == to # <<>> /\ \A i \in DOMAIN to : to[i] = "d"
Valid(row) == ValidNumber(row[Phone])
Urgent(row) == Priority \in DOMAIN row /\ row[Priority] = <<"h">>

(* The slip of quoting without doubling the quotes inside.                 *)
EscapeOnly(value, delimiter) ==
  IF {delimiter, "q"} \cap ToSet(value) = {} THEN value
  ELSE <<"q">> \o value \o <<"q">>

RECURSIVE Doubled(_)
Doubled(value) ==
  IF value = <<>> THEN <<>>
  ELSE IF Head(value) = "q" THEN <<"q", "q">> \o Doubled(Tail(value))
  ELSE <<Head(value)>> \o Doubled(Tail(value))

EscapeCell(value, delimiter) ==
  IF {delimiter, "q"} \cap ToSet(value) = {} THEN value
  ELSE <<"q">> \o Doubled(value) \o <<"q">>

RECURSIVE Joined(_, _)
Joined(cells, delimiter) ==
  IF Len(cells) = 1 THEN cells[1]
  ELSE cells[1] \o <<delimiter>> \o Joined(Tail(cells), delimiter)

(* What a column shows of a row: a priority that was not given is the      *)
(* ordinary one.                                                           *)
CellOf(row, header) ==
  IF header \notin DOMAIN row THEN <<>>
  ELSE IF header = Priority /\ row[header] # <<"h">> THEN <<"o">>
  ELSE row[header]

(* The text written again: nameless columns are dropped.                   *)
Serialize(headers, shown, delimiter) ==
  LET named == SelectSeq(headers, LAMBDA h : h # <<>>)
      Line(cells) == Joined([i \in DOMAIN cells |-> EscapeCell(cells[i], delimiter)], delimiter)
  IN <<Line(named)>>
     \o [n \in DOMAIN shown |-> Line([i \in DOMAIN named |-> CellOf(shown[n], named[i])])]

-----------------------------------------------------------------------------
Idle == [todo |-> <<>>, number |-> 0, end |-> "none"]

Init ==
  /\ reading = {} /\ name = <<>> /\ text = <<>> /\ rows = <<>> /\ edits = 0
  /\ batch = Idle /\ created = <<>>

Show(lines) == text' = lines /\ rows' = ParseImportText(lines)

(* The page names the file at once and has its text when it was read; of   *)
(* two files the one read last is shown, whichever was chosen last.        *)
ChooseFile(file) ==
  /\ batch.end # "running" /\ Cardinality(reading) + edits < MaxEdits
  /\ file \notin reading
  /\ reading' = reading \cup {file} /\ name' = file
  /\ UNCHANGED <<text, rows, edits, batch, created>>

FileRead(file) ==
  /\ file \in reading
  /\ reading' = reading \ {file} /\ Show(file)
  /\ UNCHANGED <<name, edits, batch, created>>

Commit(edited) ==
  /\ edits < MaxEdits /\ edits' = edits + 1
  /\ LET delimiter == DetectDelimiter(text)
     IN Show(Serialize(ExtractHeaders(text, delimiter), edited, delimiter))
  /\ name' = <<>>
  /\ UNCHANGED <<reading, batch, created>>

DeleteRow(n) == n \in DOMAIN rows /\ Commit(RemoveAt(rows, n))

SaveRow(n, header, value) ==
  /\ n \in DOMAIN rows /\ header \in DOMAIN rows[n]
  /\ Commit([rows EXCEPT ![n][header] = value])

(* The API's order: the urgent ones first, each kind as it came.           *)
ByPriority(valid) ==
  SelectSeq(valid, Urgent) \o SelectSeq(valid, LAMBDA row : ~Urgent(row))

(* Only the valid rows are sent.                                           *)
Submit ==
  /\ batch.end # "running" /\ batch.number < MaxBatches
  /\ SelectSeq(rows, Valid) # <<>>
  /\ batch' = [todo |-> ByPriority(SelectSeq(rows, Valid)),
               number |-> batch.number + 1, end |-> "running"]
  /\ UNCHANGED <<reading, name, text, rows, edits, created>>

CreateNext ==
  /\ batch.end = "running" /\ batch.todo # <<>>
  /\ created' = Append(created, [batch |-> batch.number, row |-> Head(batch.todo)])
  /\ batch' = [batch EXCEPT !.todo = Tail(@)]
  /\ UNCHANGED <<reading, name, text, rows, edits>>

(* A number the outbound policy refuses, or any failure, ends the batch:   *)
(* the tasks already created stay.                                         *)
RefuseNext ==
  /\ batch.end = "running" /\ batch.todo # <<>>
  /\ batch' = [batch EXCEPT !.todo = <<>>, !.end = "refused"]
  /\ UNCHANGED <<reading, name, text, rows, edits, created>>

BatchDone ==
  /\ batch.end = "running" /\ batch.todo = <<>>
  /\ batch' = [batch EXCEPT !.end = "created"]
  /\ UNCHANGED <<reading, name, text, rows, edits, created>>

Next ==
  \/ \E file \in Files : ChooseFile(file) \/ FileRead(file)
  \/ \E n \in DOMAIN rows :
       \/ DeleteRow(n)
       \/ \E header \in DOMAIN rows[n], value \in Values : SaveRow(n, header, value)
  \/ Submit \/ CreateNext \/ RefuseNext \/ BatchDone

Spec == Init /\ [][Next]_vars

-----------------------------------------------------------------------------
TypeOK ==
  /\ reading \subseteq Files /\ edits \in 0..MaxEdits
  /\ batch.end \in {"none", "running", "refused", "created"}
  /\ \A i \in DOMAIN created : created[i].batch \in 1..MaxBatches

(* Changing one row changes no other: the text written after an edit reads *)
(* back as the rows that were shown, with one of them replaced or gone,    *)
(* whatever delimiters and quotes their fields hold (a priority that was   *)
(* not given may come back as the ordinary one).                           *)
Same(row, other) ==
  \A h \in DOMAIN row : CellOf(row, h) = CellOf(other, h)
EditsKeepOtherRows ==
  edits' # edits =>
        \E n \in DOMAIN rows :
          \/ /\ Len(rows') = Len(rows)
             /\ \A m \in DOMAIN rows \ {n} : Same(rows[m], rows'[m])
          \/ /\ Len(rows') = Len(rows) - 1
             /\ \A m \in DOMAIN rows' :
                  Same(RemoveAt(rows, n)[m], rows'[m])

(* Of one batch the urgent tasks are created before the others, also when  *)
(* it is cut short, so that a refusal never costs an urgent call to keep   *)
(* an ordinary one.                                                        *)
UrgentFirst ==
  \A i, j \in DOMAIN created :
    /\ created[i].batch = created[j].batch
    /\ Urgent(created[j].row) /\ ~Urgent(created[i].row)
    => j < i
=============================================================================
