-------------------------------- MODULE Wire --------------------------------
(***************************************************************************)
(* The answer of Tally as codec.ts reads it.  Tally's XML is not XML: the  *)
(* text of a field is not escaped, so it may contain our own field tags,   *)
(* and the tag of a blank field may be missing.  An answer is the sequence *)
(* of start tags, each with the text up to the next one; the envelope, the *)
(* end tags, entities and white space are gone before that point.          *)
(***************************************************************************)
EXTENDS Integers, Sequences, SequencesExt

CONSTANTS Blank, Refused

\* A field as the line prints it: its text, and what follows if the text itself
\* contains the tag of column "stray".
Printed(column, text, stray) ==
  IF stray = 0
    THEN <<[tag |-> column, value |-> text]>>
    ELSE <<[tag |-> column, value |-> <<text, "head">>], [tag |-> stray, value |-> <<text, "tail">>]>>

\* Rows are cut where the tag number stops increasing, and not at F01, so that a
\* row that lost its F01 is not taken for the end of the one before.
Placed(rows, t) ==
  IF rows # <<>> /\ t.tag > Last(Last(rows)).tag
    THEN Append(Front(rows), Append(Last(rows), t))
    ELSE Append(rows, <<t>>)

Cut(tokens) == FoldLeft(Placed, <<>>, tokens)

\* A mutant: a row cut short is taken for a row whose other fields were blank.
rejectionReasonLenient(row, width) == \E i \in DOMAIN row : row[i].tag \notin 1 .. width

\* No F01, nothing but F01, or a tag that was not asked for.
rejectionReason(row, width) ==
  \/ \E i \in DOMAIN row : row[i].tag \notin 1 .. width
  \/ row[1].tag # 1
  \/ width >= 2 /\ Len(row) < 2

\* The tag is the column, whatever else arrived before it.
Columns(row, width) ==
  [column \in 1 .. width |->
     IF \E i \in DOMAIN row : row[i].tag = column
       THEN row[CHOOSE i \in DOMAIN row : row[i].tag = column].value
       ELSE Blank]

\* A row keeps the place it had in the answer: the code closes the gaps that refused
\* rows leave, but no reader of an answer with gaps goes by the place.
parseTagRows(tokens, width) ==
  LET cut == Cut(tokens)
      rejected == {i \in DOMAIN cut : rejectionReason(cut[i], width)}
  IN  [rows |-> [i \in DOMAIN cut \ rejected |-> Columns(cut[i], width)], rejected |-> rejected]

\* One row that cannot be trusted loses the section, and not one row quietly.
xmlTagResponseToRows(tokens, width) ==
  LET parsed == parseTagRows(tokens, width)
  IN  IF parsed.rejected # {} THEN Refused ELSE parsed.rows

-----------------------------------------------------------------------------
\* The answer to a request of so many columns: a table, of which one cell may
\* contain a field tag, from a Tally that does or does not omit blank fields.
Cell(table, stray, omitsBlanks, i, j) ==
  IF omitsBlanks /\ table[i][j] = Blank THEN <<>>
  ELSE Printed(j, table[i][j], IF stray.row = i /\ stray.column = j THEN stray.tag ELSE 0)

Line(table, stray, omitsBlanks, i) ==
  FlattenSeq([j \in DOMAIN table[i] |-> Cell(table, stray, omitsBlanks, i, j)])

Answer(table, stray, omitsBlanks) ==
  FlattenSeq([i \in DOMAIN table |-> Line(table, stray, omitsBlanks, i)])
=============================================================================
