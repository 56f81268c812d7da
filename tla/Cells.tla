-------------------------------- MODULE Cells ---------------------------------
(***************************************************************************)
(* One cell of a result, and every form it takes: value.rs, the codec of    *)
(* the saved results (server/archive.rs), the wire (server/summary.rs), and  *)
(* the texts an export writes (export.rs, edit/sql.rs).                      *)
(*                                                                         *)
(* Numbers and texts are small integers.  The integers are a machine's: they *)
(* go up to MaxInt, and a float holds each of them up to Exact and only the   *)
(* even ones above, MaxFloat being the last before infinity.  A text below Words is the text that reads as that        *)
(* number; the others are words, in the order of TextOrder.                   *)
(***************************************************************************)
EXTENDS Integers, Sequences, SequencesExt

CONSTANT Nothing    \* no value: a null, a number no text spells, a missing row

MaxInt == 31
Exact == 20
MaxFloat == 100
Round(n) == IF n > Exact THEN (n \div 2) * 2 ELSE n

\* A float that is no number: above every number, and equal to itself, where Polars compares.
NaN == 1000

Words == 100
EmptyText == 100
TrueText == 101
FalseText == 102
Word == 103
Lines == 104          \* a word with a line break, and as a grid shows it
LinesShown == 105
Blob == 106           \* hexadecimal bytes; more of them than a grid shows, and as it shows them
LongBlob == 107
LongBlobShown == 108
ListText == 109
NanText == 110
TypeText == 111       \* the name of a type nobody understands, in angle brackets
Path == 112           \* a word with a backslash, with two for the one, and as a reader of escapes has it
PathTwice == 113
PathBroken == 114

\* Texts in the order of their characters: 10 comes before 9.
TextOrder == <<EmptyText, -20, Blob, LongBlob, LongBlobShown, 1, 10, 11, 20, 21, 40, 9, TypeText, NanText, ListText,
               FalseText, TrueText, Lines, LinesShown, PathBroken, Path, PathTwice, Word>>
TextRank == [t \in ToSet(TextOrder) |-> CHOOSE i \in DOMAIN TextOrder : TextOrder[i] = t]

-----------------------------------------------------------------------------
(* Cells *)

\* The kinds that hold a text of their own, each told apart when it is saved.
Tagged == {"decimal", "json", "timestamp", "date", "time", "uuid"}
Kinds == Tagged \cup {"null", "bool", "int", "float", "text", "bytes", "array", "unsupported"}

Cell(kind, val) == [kind |-> kind, val |-> val, items |-> <<>>]
NullCell == Cell("null", 0)
IsNull(cell) == cell.kind = "null"
IsNumeric(cell) == cell.kind \in {"int", "float", "decimal"}

\* escape: what would break a line of the grid.
Escape(text) == IF text = Lines THEN LinesShown ELSE text

\* Cell::text: the value's text as it is.
Text(cell) ==
  CASE cell.kind = "bool" -> IF cell.val = 1 THEN TrueText ELSE FalseText
    [] cell.kind = "float" /\ cell.val = NaN -> NanText
    [] cell.kind = "array" -> ListText
    [] cell.kind = "unsupported" /\ cell.val = EmptyText -> TypeText
    [] OTHER -> cell.val

\* Cell::display: on one line, and no more bytes than BYTES_SHOWN.
Display(cell) == IF cell.kind = "bytes" /\ cell.val = LongBlob THEN LongBlobShown ELSE Escape(Text(cell))

\* number: what a cell counts as.  A decimal stays the text it is.
Number(cell) ==
  CASE cell.kind \in {"int", "float"} -> Round(cell.val)
    [] cell.kind = "text" /\ cell.val < Words -> Round(cell.val)
    [] cell.kind = "text" /\ cell.val = NanText -> NaN
    [] OTHER -> Nothing

-----------------------------------------------------------------------------
(* The saved form: MessagePack, untagged for the commonest kinds *)

Coded(form, val) == [form |-> form, tag |-> "", val |-> val, items |-> <<>>]
CodedList(tag, val, items) == [form |-> "list", tag |-> tag, val |-> val, items |-> items]

\* encode_cell: a list says first of which kind it is, and an array holds what its cells are saved as.
EncodeOne(c) ==
  CASE c.kind = "null" -> Coded("nil", 0)
    [] c.kind \in {"bool", "int", "float"} -> Coded(c.kind, c.val)
    [] c.kind = "text" -> Coded("string", c.val)
    [] OTHER -> CodedList(c.kind, c.val, <<>>)
Encode(cell) ==
  LET code[c \in {cell} \cup ToSet(cell.items)] ==
        IF c.kind = "array" THEN CodedList("array", c.val, [i \in DOMAIN c.items |-> code[c.items[i]]]) ELSE EncodeOne(c)
  IN code[cell]

\* cell.
Decode(value) ==
  LET read[v \in {value} \cup ToSet(value.items)] ==
        CASE v.form = "nil" -> NullCell
          [] v.form \in {"bool", "int", "float"} -> Cell(v.form, v.val)
          [] v.form = "string" -> Cell("text", v.val)
          [] OTHER -> [kind |-> v.tag, val |-> v.val, items |-> [i \in DOMAIN v.items |-> read[v.items[i]]]]
  IN read[value]

-----------------------------------------------------------------------------
(* The forms that leave the engine *)

\* cell_value: a null, a flag, an integer or a finite float as it is, the rest as text.
Wire(cell) ==
  CASE IsNull(cell) -> Coded("nil", 0)
    [] cell.kind \in {"bool", "int"} \/ (cell.kind = "float" /\ cell.val # NaN) -> Coded(cell.kind, cell.val)
    [] OTHER -> Coded("string", Display(cell))

\* The JSON texts that parse; others travel as text.
ParsesAsJson(text) == text < Words

\* value: what JSON an exported cell is.
JsonValue(cell) ==
  LET json[c \in {cell} \cup ToSet(cell.items)] ==
        CASE c.kind \in {"null", "bool", "int"} -> Coded(c.kind, c.val)
          [] c.kind = "float" /\ c.val # NaN -> Coded("float", c.val)
          [] c.kind = "json" /\ ParsesAsJson(c.val) -> Coded("parsed", c.val)
          [] c.kind = "array" -> [Coded("list", 0) EXCEPT !.items = [i \in DOMAIN c.items |-> json[c.items[i]]]]
          [] OTHER -> Coded("string", Text(c))
  IN json[cell]

\* quote_text: a quoted string of the dialect.
QuoteText(dialect, text) == IF dialect = "mysql" /\ text = Path THEN PathTwice ELSE text

\* How the database reads it: a backslash escapes in two of them.
ReadQuoted(dialect, text) ==
  IF dialect \notin {"mysql", "clickhouse"} THEN text
  ELSE CASE text = PathTwice -> Path [] text = Path -> PathBroken [] OTHER -> text

\* literal and cell_literal: what stands for the cell in a statement.
Literal(dialect, cell) ==
  CASE cell.kind = "null" -> Coded("nil", 0)
    [] cell.kind \in {"bool", "int", "decimal", "bytes"} -> Coded(cell.kind, cell.val)
    [] cell.kind = "float" /\ cell.val # NaN -> Coded("float", cell.val)
    [] OTHER -> Coded("string", QuoteText(dialect, Text(cell)))
ReadLiteral(dialect, literal) == IF literal.form = "string" THEN ReadQuoted(dialect, literal.val) ELSE literal.val
==============================================================================
