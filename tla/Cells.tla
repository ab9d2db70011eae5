-------------------------------- MODULE Cells --------------------------------
(***************************************************************************)
(* How a record becomes the cells of a table and the fields of a CSV file: *)
(* the OutputRecord implementations, src/src/output/sanitise.rs and the    *)
(* writers of src/src/output.rs.                                           *)
(*                                                                         *)
(* A text is a sequence of characters and runs of characters that are      *)
(* never told apart: a digit string is one element, so is a word.  Width,  *)
(* wrapping and quoting by the CSV writer are left out.                    *)
(***************************************************************************)
EXTENDS SequencesExt

CONSTANTS
  Null,      \* a column that is NULL
  Control,   \* control characters but the line feed, tab and CR among them
  Format,    \* bidi overrides, zero-width characters: category Cf, Zl and Zp
  FormulaLead, \* "=", "+", "@", tab and CR
  Minus,
  Finite,    \* what makes a finite number after a minus sign: "30", not "inf"
  Apostrophe,
  Separator, \* between the values of a cell: ", " or "; "
  Escape(_)  \* the visible text that stands for a character

\* What is put in a text is plain: a visible escape begins with a backslash.
ASSUME MarksArePlain ==
  /\ \A c \in Control \cup Format : Escape(c) \notin Control \cup Format
  /\ Apostrophe \notin FormulaLead \cup Format \cup {Minus}
  /\ Minus \notin FormulaLead \cup Format

\* NULL is not the empty text.
ASSUME NullIsNoText == Null # <<>>

-----------------------------------------------------------------------------
(* sanitise.rs                                                             *)

NeedsEscaping == Control \cup Format

Escaped(text, unsafe) ==
  [i \in DOMAIN text |-> IF text[i] \in unsafe THEN Escape(text[i]) ELSE text[i]]

FormatControlSafe(text) == Escaped(text, Format)

DisplaySafe(text) == Escaped(text, NeedsEscaping)

\* -30 is a number; -inf and -2+3 are what a spreadsheet would evaluate.
FiniteNumber(text) == Len(text) = 2 /\ text[1] = Minus /\ text[2] \in Finite

LeadsAFormula(text) ==
  /\ text # <<>>
  /\ \/ text[1] \in FormulaLead
     \/ text[1] = Minus /\ ~FiniteNumber(text)

\* Mutant of CsvSafe: what begins with a minus sign is taken for a number.
CsvSafe_AnyNumber(text) ==
  IF text # <<>> /\ text[1] \in FormulaLead
    THEN <<Apostrophe>> \o FormatControlSafe(text) ELSE FormatControlSafe(text)

CsvSafe(text) ==
  LET safe == FormatControlSafe(text)
  IN  IF LeadsAFormula(safe) THEN <<Apostrophe>> \o safe ELSE safe

-----------------------------------------------------------------------------
(* Records: their columns as texts, Null or the parts of a timestamp, in   *)
(* order, and the values of the multi-valued one.                          *)

Timestamp(minutes, seconds) == [minutes |-> minutes, seconds |-> seconds]

SearchRecord(row) ==
  [columns |-> <<row.id, row.issuer_ca_id, row.issuer_name, <<>>, row.common_name, row.serial>>,
   times |-> <<row.not_before, row.not_after>>,
   last |-> <<>>,
   values |-> row.identities,
   valuesAt |-> 4]

ExpiringRecord(row) ==
  [SearchRecord(row) EXCEPT !.last = <<row.days_left, row.status>>]

CertRecord(detail) ==
  [columns |-> <<detail.id, detail.issuer_ca_id, detail.issuer_name, detail.subject,
                 detail.common_name, detail.serial>>,
   times |-> <<detail.not_before, detail.not_after>>,
   last |-> <<detail.sha256_fingerprint, <<>> >>,
   values |-> detail.sans,
   valuesAt |-> 10]

Joined(values) ==
  FoldLeft(LAMBDA text, value : IF text = <<>> THEN value ELSE text \o <<Separator>> \o value,
           <<>>, values)

-----------------------------------------------------------------------------
(* The table                                                               *)

FmtOpt(text) == IF text = Null THEN <<Minus>> ELSE text
FmtTs(ts) == IF ts = Null THEN <<Minus>> ELSE ts.minutes

ApplyTo(Cell(_), cells) == [i \in DOMAIN cells |-> Cell(cells[i])]

TableCells(record) ==
  LET cells == ApplyTo(FmtOpt, record.columns) \o ApplyTo(FmtTs, record.times)
                 \o ApplyTo(FmtOpt, record.last)
  IN  [cells EXCEPT ![record.valuesAt] = Joined(record.values)]

TableRow(record) == ApplyTo(DisplaySafe, TableCells(record))

-----------------------------------------------------------------------------
(* The CSV file                                                            *)

CsvOpt(text) == IF text = Null THEN <<>> ELSE text
CsvTs(ts) == IF ts = Null THEN <<>> ELSE ts.minutes \o ts.seconds

CsvCells(record) ==
  ApplyTo(CsvOpt, record.columns) \o ApplyTo(CsvTs, record.times)
    \o ApplyTo(CsvOpt, record.last)

\* One row for each value of the multi-valued column, and one if it has none.
ExpandColumn(cells, column, values) ==
  IF values = <<>> THEN <<cells>>
  ELSE [i \in DOMAIN values |-> [cells EXCEPT ![column] = values[i]]]

CsvRows(record) ==
  LET rows == ExpandColumn(CsvCells(record), record.valuesAt, record.values)
  IN  [i \in DOMAIN rows |-> ApplyTo(CsvSafe, rows[i])]

-----------------------------------------------------------------------------
(* What a terminal and a spreadsheet do with them                          *)

\* A terminal acts on control characters, and shows text it does not hold
\* where there are format characters.
MisleadsTerminal(cell) == \E i \in DOMAIN cell : cell[i] \in Control \cup Format

\* A spreadsheet evaluates what begins as a formula does and is no number.
Evaluates(field) ==
  /\ field # <<>>
  /\ field[1] \in FormulaLead \cup {Minus}
  /\ ~(Len(field) = 2 /\ field[1] = Minus /\ field[2] \in Finite)

MisleadsSpreadsheet(field) ==
  Evaluates(field) \/ \E i \in DOMAIN field : field[i] \in Format
=============================================================================
