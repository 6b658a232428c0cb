-------------------------------- MODULE Outputs --------------------------------
(***************************************************************************)
(* The value a pipeline gives for an input, and how it is written          *)
(* (BAValue, base.rs): a transcript, a table of metrics, encoded media, a  *)
(* list of values, or a failure with what had been done before it.  Files  *)
(* is a function from the names beside one path to their contents.         *)
(***************************************************************************)
EXTENDS Integers, SequencesExt, FiniteSetsExt

CONSTANT Null     \* no value in a cell

Nil == [kind |-> "nil"]
ConsOf(head, tail) == [kind |-> "cons", head |-> head, tail |-> tail]
List(items) == FoldRight(ConsOf, items, Nil)

RECURSIVE SourceId(_), IsFailed(_)
SourceId(v) == CASE v.kind = "cons" -> SourceId(v.head) [] v.kind = "nil" -> "nil" [] OTHER -> v.source
IsFailed(v) == v.kind = "failed" \/ (v.kind = "cons" /\ (IsFailed(v.head) \/ IsFailed(v.tail)))

\* A cell is a sequence of characters.
Quoted(cell) == FlattenSeq([i \in DOMAIN cell |-> IF cell[i] = "quote" THEN <<"quote", "quote">> ELSE <<cell[i]>>])
Special == {"comma", "quote", "newline", "return"}

\* A mutant of CsvCell: a quote inside a cell is not doubled.
CsvCellPlain(cell) ==
  IF Range(cell) \cap Special # {} THEN <<"quote">> \o cell \o <<"quote">> ELSE cell

CsvCell(cell) ==
  IF Range(cell) \cap Special # {} THEN <<"quote">> \o Quoted(cell) \o <<"quote">> ELSE cell

CsvRow(cells) ==
  FlattenSeq([i \in DOMAIN cells |-> (IF i > 1 THEN <<"comma">> ELSE <<>>) \o CsvCell(cells[i])])
    \o <<"newline">>

\* A row has the cells of some columns; a column without one is empty.
Cell(row, column) == IF column \in DOMAIN row /\ row[column] # Null THEN row[column] ELSE <<>>
Csv(table) ==
  CsvRow(table.schema)
    \o FlattenSeq([r \in DOMAIN table.rows |->
                     CsvRow([c \in DOMAIN table.schema |-> Cell(table.rows[r], table.schema[c])])])

\* write: the result is [files, ok]; an error leaves what was written before it.
Put(files, name, content) == [n \in DOMAIN files \cup {name} |-> IF n = name THEN content ELSE files[n]]
RECURSIVE Written(_, _)
Written(v, files) ==
  CASE v.kind = "chat" ->
         IF v.valid THEN [files |-> Put(files, "path", v.text), ok |-> TRUE]
         ELSE [files |-> files, ok |-> FALSE]
    [] v.kind = "encoded" -> [files |-> Put(files, "path", v.text), ok |-> TRUE]
    [] v.kind = "metrics" -> [files |-> Put(files, "csv", Csv(v.table)), ok |-> TRUE]
    [] v.kind = "media" -> [files |-> files, ok |-> FALSE]
    [] v.kind = "nil" -> [files |-> files, ok |-> TRUE]
    [] v.kind = "cons" ->
         LET first == Written(v.head, files)
         IN IF first.ok THEN Written(v.tail, first.files) ELSE first
    [] v.kind = "failed" ->
         LET logged == Put(files, "error.log", <<v.source>>)
         IN IF v.partial = Nil THEN [files |-> logged, ok |-> TRUE] ELSE Written(v.partial, logged)

\* strip_word_timing_from_value: %wor and the times of words go, wherever a
\* transcript is inside the value; the times of utterances stay.
WithoutWordTiming(text) == [u \in DOMAIN text |-> [text[u] EXCEPT !.wor = FALSE, !.times = FALSE]]
RECURSIVE Untimed(_)
Untimed(v) ==
  CASE v.kind = "chat" -> [v EXCEPT !.text = WithoutWordTiming(@)]
    [] v.kind = "cons" -> ConsOf(Untimed(v.head), Untimed(v.tail))
    [] v.kind = "failed" /\ v.partial # Nil -> [v EXCEPT !.partial = Untimed(@)]
    [] OTHER -> v

\* PyOutcome, what a Python program gets of a value: it holds the value until
\* the first write takes it, whether or not that write succeeds.
Outcome(v) == [source |-> SourceId(v), failed |-> IsFailed(v), holds |-> <<v>>]
Write(outcome, files, strip) ==
  IF outcome.holds = <<>> THEN [files |-> files, ok |-> FALSE, outcome |-> outcome]
  ELSE LET v == outcome.holds[1]
           result == Written(IF strip THEN Untimed(v) ELSE v, files)
       IN [files |-> result.files, ok |-> result.ok, outcome |-> [outcome EXCEPT !.holds = <<>>]]
===============================================================================
