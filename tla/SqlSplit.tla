------------------------------ MODULE SqlSplit -------------------------------
(* How sqmeow-db splits a buffer into the statements it runs one by one        *)
(* (sql.rs, sql/mssql.rs), and what it asks of each first (guard.rs).          *)
(* The text is a sequence of lexemes separated by blanks: a word, a            *)
(* punctuation mark, the two characters that open or close a comment, a quote  *)
(* with what makes it special (E', q'[ and ]', '', an escaped one), a dollar   *)
(* tag, or a line break "nl"; "dq" is a double quote and "bq" a backquote.  A  *)
(* reader is a record of what `split` keeps between two characters, and Split  *)
(* is one turn of its loop.                                                    *)
EXTENDS Naturals, Sequences, FiniteSets, SequencesExt

\* Words, all in lower case; "name" stands for every word without a rule of its own.
Words == {"select", "insert", "update", "delete", "drop", "remove", "where", "with", "true", "1", "name",
          "create", "or", "replace", "table", "procedure", "function", "trigger", "package",
          "declare", "begin", "end", "case", "if", "loop", "is", "as", "apply", "commit",
          "end if", "end/if", "end case", "into", "exec", "order"}

\* Line breaks inside a lexeme: "end/if" is END and IF on two lines, "bs nl" an escaped line break.
Breaks(l) == IF l \in {"nl", "end/if", "bs nl"} THEN 1 ELSE 0

Less(n) == IF n = 0 THEN 0 ELSE n - 1

\* A statement as `split` starts to read it.
Fresh(line) ==
  [mode |-> "code", nest |-> 0, tag |-> "", escapes |-> FALSE,
   creating |-> "unread", routine |-> FALSE, depth |-> 0, declarations |-> <<>>,
   header |-> FALSE, parens |-> 0, batch |-> FALSE,
   line |-> line, start |-> line, lead |-> 0, trail |-> 0, blank |-> TRUE, code |-> "none", cut |-> FALSE]

\* Where a backslash in a quoted run escapes the character after it.
Escaping == {"mysql", "surrealdb", "clickhouse"}

LineComment(d, l) ==
  \/ l = "--"
  \/ l = "#" /\ d \in {"mysql", "surrealdb"}
  \/ l = "//" /\ d \in {"scylla", "surrealdb"}

InDeclarations(s) == s.declarations # <<>> /\ Last(s.declarations) = s.depth

Declare(s) == [s EXCEPT !.depth = @ + 1, !.declarations = Append(@, s.depth + 1)]

\* The first word of a statement: whether it creates something, opens a batch or, in Oracle, a
\* block.
FirstWord(d, s, w) ==
  LET block == d = "oracle" /\ w \in {"declare", "begin"} IN
  [s EXCEPT !.creating = IF w = "create" THEN "yes" ELSE "no",
            !.batch = d \in {"scylla", "surrealdb"} /\ w = "begin",
            !.routine = @ \/ block,
            !.depth = IF block THEN 1 ELSE @,
            !.declarations = IF block /\ w = "declare" THEN Append(@, 1) ELSE @]

\* trigger, procedure, function and event open a routine; in an Oracle declaration they start a
\* header, which ends at IS, AS or a semicolon.
Routine(d, s) ==
  IF d # "oracle" THEN [s EXCEPT !.routine = TRUE]
  ELSE IF InDeclarations(s) /\ s.depth > 0
       THEN [s EXCEPT !.routine = TRUE, !.header = TRUE, !.parens = 0]
       ELSE [Declare(s) EXCEPT !.routine = TRUE]

OpensRoutine(d, s, w) ==
  \/ w \in {"trigger", "procedure", "function"} /\ s.creating = "yes" /\ (d # "oracle" \/ ~s.routine)
  \/ w \in {"procedure", "function"} /\ d = "oracle" /\ s.routine /\ InDeclarations(s)

Ends(s, w) == s.creating # "unread" /\ s.routine /\ w \in {"end", "end if", "end/if", "end case"}

\* END IF and END LOOP close blocks that were never counted; END CASE closes a counted one, and its
\* CASE is no new one.
End(s, w) ==
  [s EXCEPT !.depth = IF w \in {"end if", "end/if"} THEN @ ELSE Less(@), !.line = @ + Breaks(w)]

\* One word of code, by the first rule that fits it.
Word(d, s, w) ==
  LET oracle == d = "oracle" IN
  IF s.creating = "unread" THEN FirstWord(d, s, w)
  ELSE IF w = "apply" /\ s.batch /\ d = "scylla" THEN [s EXCEPT !.batch = FALSE]
  ELSE IF w = "commit" /\ s.batch /\ d = "surrealdb" THEN [s EXCEPT !.batch = FALSE]
  ELSE IF w = "package" /\ oracle /\ s.creating = "yes" THEN [Declare(s) EXCEPT !.routine = TRUE]
  ELSE IF OpensRoutine(d, s, w) THEN Routine(d, s)
  ELSE IF w \in {"is", "as"} /\ oracle /\ s.header /\ s.parens = 0 THEN [Declare(s) EXCEPT !.header = FALSE]
  ELSE IF oracle /\ s.creating = "yes" /\ ~s.routine /\ w \notin {"or", "replace"} THEN [s EXCEPT !.creating = "no"]
  ELSE IF w = "declare" /\ oracle /\ s.routine THEN IF InDeclarations(s) THEN s ELSE Declare(s)
  ELSE IF w = "begin" /\ oracle /\ s.routine /\ InDeclarations(s) THEN [s EXCEPT !.declarations = Front(@)]
  ELSE IF w \in {"begin", "case"} /\ s.routine THEN [s EXCEPT !.depth = @ + 1]
  ELSE IF Ends(s, w) THEN End(s, w)
  ELSE s

\* A statement ends here: what is read next starts a new one, on the same line.
Cut(s) == [Fresh(s.line) EXCEPT !.cut = TRUE]

\* Mutant: batches are not known.
SemicolonInBatch(s) == IF s.depth = 0 THEN Cut(s) ELSE [s EXCEPT !.header = FALSE]

Semicolon(s) ==
  IF s.depth = 0 /\ ~s.batch THEN Cut(s)
  ELSE [s EXCEPT !.header = FALSE]

\* A lexeme read as code.
Code(d, s, l) ==
  IF l = "q'[" /\ d = "oracle" THEN [s EXCEPT !.mode = "oracle"]
  ELSE IF LineComment(d, l) THEN [s EXCEPT !.mode = "line"]
  ELSE IF l = "/*" THEN [s EXCEPT !.mode = "block", !.nest = 1]
  ELSE IF l = "'" THEN [s EXCEPT !.mode = "single", !.escapes = d \in Escaping]
  ELSE IF l = "E'" THEN [Word(d, s, "name") EXCEPT !.mode = "single", !.escapes = d \in Escaping \cup {"postgres"}]
  ELSE IF l = "dq" THEN [s EXCEPT !.mode = "double", !.escapes = d \in Escaping]
  ELSE IF l = "bq" THEN [s EXCEPT !.mode = "tick", !.escapes = d \in Escaping \ {"mysql"}]
  ELSE IF l = "(" /\ s.header THEN [s EXCEPT !.parens = @ + 1]
  ELSE IF l = ")" /\ s.header THEN [s EXCEPT !.parens = Less(@)]
  ELSE IF l = "<|" /\ d = "surrealdb" THEN [s EXCEPT !.mode = "angle"]
  ELSE IF l = "{" /\ d = "surrealdb" THEN [s EXCEPT !.depth = @ + 1]
  ELSE IF l = "}" /\ d = "surrealdb" THEN [s EXCEPT !.depth = Less(@)]
  ELSE IF l \in {"$$", "$b$"} /\ d \in {"postgres", "scylla"} THEN [s EXCEPT !.mode = "dollar", !.tag = l]
  ELSE IF l = ";" THEN Semicolon(s)
  ELSE IF l \in Words \ {"1"} THEN Word(d, s, l)
  ELSE s

\* The quote character a lexeme ends with.
Quote(l) == IF l \in {"'", "E'", "]'", "bs'"} THEN "single"
            ELSE IF l = "dq" THEN "double" ELSE IF l = "bq" THEN "tick" ELSE "none"

\* A lexeme inside quotes or a comment: '' is a quote escaped by doubling, bs' one escaped by a
\* backslash where the dialect has it, block comments nest.
Quoted(s, l) ==
  IF s.mode = "oracle" THEN IF l = "]'" THEN [s EXCEPT !.mode = "code"] ELSE s
  ELSE IF s.mode = "dollar" THEN IF l = s.tag THEN [s EXCEPT !.mode = "code", !.tag = ""] ELSE s
  ELSE IF s.mode = "block" THEN
         IF l = "/*" THEN [s EXCEPT !.nest = @ + 1]
         ELSE IF l = "*/" THEN [s EXCEPT !.nest = @ - 1, !.mode = IF s.nest = 1 THEN "code" ELSE @]
         ELSE s
  ELSE IF s.mode = "line" THEN IF l = "nl" THEN [s EXCEPT !.mode = "code"] ELSE s
  ELSE IF s.mode = "angle" THEN IF l = "|>" THEN [s EXCEPT !.mode = "code"] ELSE s
  ELSE IF s.escapes /\ l \in {"bs'", "bs nl"} THEN s
  ELSE IF Quote(l) = s.mode THEN [s EXCEPT !.mode = "code", !.escapes = FALSE]
  ELSE s

\* has_code: a fragment of comments only is no statement. Here a block comment ends at its first */.
HasCode(d, code, l) ==
  IF code = "line" THEN IF l = "nl" THEN "none" ELSE code
  ELSE IF code = "block" THEN IF l = "*/" THEN "none" ELSE code
  ELSE IF code = "code" \/ l = "nl" THEN code
  ELSE IF LineComment(d, l) THEN "line"
  ELSE IF l = "/*" THEN "block"
  ELSE "code"

\* What push measures of the text: the line breaks before its first character and after its last.
Extent(d, s, l) ==
  [s EXCEPT !.blank = @ /\ l = "nl",
            !.lead = IF s.blank /\ l = "nl" THEN @ + 1 ELSE @,
            !.trail = IF l = "nl" THEN @ + 1 ELSE IF l = "bs nl" THEN 1 ELSE 0,
            !.code = HasCode(d, @, l)]

\* One turn of split's loop.
Split(d, s, l) ==
  LET read == IF s.mode = "code" THEN Code(d, [s EXCEPT !.cut = FALSE], l) ELSE Quoted([s EXCEPT !.cut = FALSE], l)
      counted == IF s.mode = "code" /\ Ends(s, l) THEN read ELSE [read EXCEPT !.line = @ + Breaks(l)]
  IN IF read.cut THEN read ELSE Extent(d, counted, l)

\* The statement that ends where the reader is: the lines its text occupies, or none.
NoLines == <<>>
Push(s) == IF s.code = "code" THEN <<s.start + s.lead, s.line - s.trail>> ELSE NoLines

-----------------------------------------------------------------------------
(* T-SQL: a batch ends at a line that holds GO alone, or with a comment.  "go",
   "go--" and "go/*" stand for such a line and the line breaks around it, "go 2" for one with
   more on it. *)

FreshBatch(line) ==
  [quote |-> "none", nest |-> 0, comment |-> FALSE, line |-> line, start |-> line,
   empty |-> TRUE, blank |-> TRUE, words |-> FALSE, cut |-> FALSE]

GoLines == {"go", "go--", "go/*", "go 2"}
IsGo(l) == l \in GoLines \ {"go 2"}

\* A line ends: leading blank lines are left out of a batch.
EndLine(b) ==
  LET leading == b.empty /\ b.blank IN
  [b EXCEPT !.comment = FALSE, !.line = @ + 1, !.blank = TRUE, !.empty = leading,
            !.start = IF leading THEN b.line + 1 ELSE @]

\* One lexeme of a line.  `words` is whether guard::words finds any in the batch; a batch without is
\* dropped.
Batch(b, l, words) ==
  LET on == [b EXCEPT !.blank = FALSE, !.words = words, !.cut = FALSE] IN
  IF l = "nl" THEN EndLine([b EXCEPT !.cut = FALSE])
  ELSE IF l \in GoLines
       THEN IF IsGo(l) /\ b.quote = "none" /\ b.nest = 0
            THEN [FreshBatch(b.line + 2) EXCEPT !.cut = TRUE]
            ELSE EndLine([EndLine([b EXCEPT !.cut = FALSE]) EXCEPT !.blank = FALSE, !.words = words])
  ELSE IF b.comment THEN on
  ELSE IF b.nest > 0
       THEN [on EXCEPT !.nest = IF l = "/*" THEN @ + 1 ELSE IF l = "*/" THEN @ - 1 ELSE @]
  ELSE IF b.quote # "none"
       THEN IF Quote(l) = b.quote \/ (l = "]" /\ b.quote = "bracket") THEN [on EXCEPT !.quote = "none"] ELSE on
  ELSE IF l = "--" THEN [on EXCEPT !.comment = TRUE]
  ELSE IF l = "/*" THEN [on EXCEPT !.nest = 1]
  ELSE IF l \in {"'", "dq"} THEN [on EXCEPT !.quote = Quote(l)]
  ELSE IF l = "[" THEN [on EXCEPT !.quote = "bracket"]
  ELSE on

PushBatch(b) == IF b.words THEN <<b.start, IF b.blank THEN b.line - 1 ELSE b.line>> ELSE NoLines

-----------------------------------------------------------------------------
(* MongoDB and Redis: a document ends with the line that closes it, a Redis
   command with its line. *)

FreshDocument(line) ==
  [open |-> FALSE, skip |-> FALSE, depth |-> 0, string |-> FALSE, start |-> line, line |-> line,
   empty |-> TRUE, cut |-> FALSE]

SkippedBy(d) == IF d = "mongodb" THEN {"//", "#"} ELSE {"--", "#"}

\* split_documents and split_lines.
Document(d, c, l) ==
  LET on == [c EXCEPT !.cut = FALSE, !.empty = FALSE] IN
  IF l = "nl"
  THEN IF c.open /\ c.depth = 0 /\ ~c.string THEN [FreshDocument(c.line + 1) EXCEPT !.cut = TRUE]
       ELSE [on EXCEPT !.line = @ + 1, !.skip = FALSE, !.empty = TRUE]
  ELSE IF c.skip \/ (~c.open /\ l \in SkippedBy(d)) THEN [on EXCEPT !.skip = TRUE]
  ELSE LET begun == IF c.open THEN on ELSE [on EXCEPT !.open = TRUE, !.start = c.line] IN
       IF d = "redis" THEN begun
       ELSE IF c.string THEN [begun EXCEPT !.string = l # "dq"]
       ELSE IF l \in {"dq", "bs dq"} THEN [begun EXCEPT !.string = TRUE]
       ELSE IF l \in {"{", "["} THEN [begun EXCEPT !.depth = @ + 1]
       ELSE IF l \in {"}", "]"} THEN [begun EXCEPT !.depth = Less(@)]
       ELSE begun

\* A document left open runs to the end of the buffer.
PushDocument(c) == IF c.open THEN <<c.start, IF c.empty THEN c.line - 1 ELSE c.line>> ELSE NoLines

-----------------------------------------------------------------------------
(* What sqmeow-db makes of a statement before it runs it (guard.rs): `words`
   reads the text with a scanner of its own, `writes` decides whether a
   read-only connection lets it through, `danger` whether the user is asked
   first.  It is fed the same lexemes; of the words it keeps only what writes
   and danger ask of them. *)

SqlWrites == {"insert", "update", "delete", "drop", "create", "merge", "call"}
SurrealWrites == {"create", "update", "delete", "insert", "remove"}
MsSqlWrites == SqlWrites \cup {"into", "exec", "set"}

Reads(d) == IF d = "surrealdb" THEN {"select"} ELSE {"select", "with", "table"} \ (IF d = "mssql" THEN {"table"} ELSE {})
WritesOf(d) == IF d = "surrealdb" THEN SurrealWrites ELSE IF d = "mssql" THEN MsSqlWrites ELSE SqlWrites

\* The words a statement's verb is looked for among.
Verbs(d) == IF d = "surrealdb" THEN {"delete", "update", "remove"}
            ELSE {"select", "insert", "update", "delete", "drop", "create", "replace", "merge"}

\* What is kept of a verb.
Class(w) == CASE w \in {"drop", "remove"} -> "destroys" [] w \in {"update", "delete"} -> "changes" [] OTHER -> "other"

\* A condition: not there yet, WHERE read, something in it that narrows, or over.
FreshWords == [mode |-> "code", depth |-> 0, first |-> "", wrote |-> FALSE, verb |-> "", where |-> "no", changes |-> {}, asks |-> FALSE]


\* narrows: a top-level WHERE with a word that is neither true nor a number, before ORDER, LIMIT or
\* RETURNING.
Narrowed(where, w, depth) ==
  CASE where = "no" /\ w = "where" /\ depth = 0 -> "seen"
    [] where = "seen" /\ w \in {"order", "limit", "returning"} -> "over"
    [] where = "seen" /\ w \notin {"true", "1"} -> "narrow"
    [] OTHER -> where

\* T-SQL: every UPDATE and DELETE of a batch, up to the next statement that is not nested in it.
Statements == {"select", "insert", "update", "delete", "merge", "exec"}
Changes(g, w) ==
  LET ended == {c \in g.changes : w \in Statements /\ g.depth <= c.depth}
      going == {[c EXCEPT !.where = Narrowed(@, w, g.depth)] : c \in g.changes \ ended}
  IN [g EXCEPT !.asks = @ \/ w = "drop" \/ \E c \in ended : c.where # "narrow",
               !.changes = IF w \in {"update", "delete"} THEN going \cup {[depth |-> g.depth, where |-> "no"]} ELSE going]

\* One word: the first, any that writes, and the verb with what follows it.
Note(d, g, w) ==
  LET told == [g EXCEPT !.first = IF @ # "" THEN @ ELSE IF w \in Reads(d) THEN "reads" ELSE "other", !.wrote = @ \/ w \in WritesOf(d)] IN
  IF d = "mssql" THEN Changes(told, w)
  ELSE IF g.verb = "" THEN IF g.depth = 0 /\ w \in Verbs(d) THEN [told EXCEPT !.verb = Class(w)] ELSE told
  ELSE [told EXCEPT !.where = Narrowed(@, w, g.depth)]

\* The quote a lexeme opens, as words reads it: it knows no E'…', no q'[…]', no dollar quotes.
Opens(d, l) ==
  IF Quote(l) # "none" THEN Quote(l)
  ELSE IF l = "q'[" THEN "single"
  ELSE IF l = "[" /\ d = "mssql" THEN "bracket"
  ELSE IF l = "<|" /\ d = "surrealdb" THEN "angle"
  ELSE IF l = "--" \/ (l = "#" /\ d \in {"mysql", "surrealdb"}) \/ (l = "//" /\ d = "surrealdb") THEN "line"
  ELSE IF l = "/*" THEN "block"
  ELSE "code"

\* What ends a run: the quote itself, unless a backslash escapes it in SurrealQL and ClickHouse; a
\* block comment at its first */.
Closes(d, mode, l) ==
  CASE mode = "line" -> Breaks(l) > 0 \/ l \in GoLines
    [] mode = "block" -> l = "*/"
    [] mode = "bracket" -> l = "]"
    [] mode = "angle" -> l = "|>"
    [] OTHER -> \/ Quote(l) = mode /\ ~(l = "bs'" /\ d \in {"surrealdb", "clickhouse"})
                \/ l = "q'[" /\ mode = "single"

\* words, one lexeme further.  A word glued to what follows it (E', q'[, $b$) is a word as well.
Scan(d, g, l) ==
  IF g.mode # "code" THEN IF Closes(d, g.mode, l) THEN [g EXCEPT !.mode = "code"] ELSE g
  ELSE IF l \in Words \cup GoLines \cup {":p"} THEN Note(d, g, l)
  ELSE IF l \in {"E'", "q'[", "$b$"} THEN [Note(d, g, "name") EXCEPT !.mode = Opens(d, l)]
  ELSE IF l = "(" THEN [g EXCEPT !.depth = @ + 1]
  ELSE IF l = ")" THEN [g EXCEPT !.depth = Less(@)]
  ELSE [g EXCEPT !.mode = Opens(d, l)]

\* Whether a read-only connection refuses the statement.
Refused(d, g) == g.first # "reads" \/ g.wrote

\* danger: whether the user is asked before the statement runs.
Asked(d, g) ==
  IF d = "mssql" THEN g.asks \/ \E c \in g.changes : c.where # "narrow"
  ELSE g.verb = "destroys" \/ (g.verb = "changes" /\ g.where # "narrow")
==============================================================================
