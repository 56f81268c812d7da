------------------------------- MODULE SqlText --------------------------------
(* One text and those who read it: the splitter that cuts it into statements,  *)
(* the scanner that decides what the user is asked and what a read-only        *)
(* connection refuses, and, in SurrealQL, the search for named parameters.     *)
(* None of them parses: each keeps a few facts of the text before the          *)
(* character it reads.  The text goes on as its database would have it         *)
(* (SqlScripts), so that at every point what they made of it can be compared   *)
(* with what it is.                                                            *)
EXTENDS SqlScripts

CONSTANT Dialects

VARIABLES dialect, script, split, guard, search
vars == <<dialect, script, split, guard, search>>

Lexemes == Words \cup GoLines \cup Marks \cup
  {"nl", "bs nl", ";", "(", ")", "'", "''", "bs'", "E'", "dq", "bs dq", "bq", "q'[", "]'", "$$", "$b$", "<|", "|>",
   "--", "#", "//", "/*", "*/", ":p"}

-----------------------------------------------------------------------------
(* surreal_occurrences: the named parameters of a statement. *)

FreshSearch == [mode |-> "code", nest |-> 0, objects |-> 0, after |-> FALSE, found |-> FALSE]

\* In an object, `name: value` has a colon after an identifier or a quoted key.
Occurrence(p) == ~(p.objects > 0 /\ p.after)

\* Mutant: a backslash escapes nothing.
EndsRunPlainly(p, l) == Quote(l) = p.mode \/ (p.mode = "angle" /\ l = "|>")

\* What ends a quoted run of SurrealQL: its own quote, unless a backslash escapes it.
EndsRun(p, l) == (Quote(l) = p.mode /\ l # "bs'") \/ (p.mode = "angle" /\ l = "|>")

Search(p, l) ==
  LET on == [p EXCEPT !.found = FALSE]
      word == l \in Words \cup {"$b$"}
  IN
  IF p.mode = "line" THEN IF l = "nl" THEN [on EXCEPT !.mode = "code"] ELSE on
  ELSE IF p.mode = "block"
       THEN [on EXCEPT !.nest = IF l = "/*" THEN @ + 1 ELSE IF l = "*/" THEN @ - 1 ELSE @,
                       !.mode = IF l = "*/" /\ p.nest = 1 THEN "code" ELSE @]
  ELSE IF p.mode # "code"
       THEN IF EndsRun(p, l)
            THEN [on EXCEPT !.mode = "code", !.after = TRUE] ELSE on
  ELSE IF l = "nl" THEN on
  ELSE IF Quote(l) # "none" \/ l = "<|" THEN [on EXCEPT !.mode = IF l = "<|" THEN "angle" ELSE Quote(l)]
  ELSE IF l \in {"--", "//"} THEN [on EXCEPT !.mode = "line"]
  ELSE IF l = "/*" THEN [on EXCEPT !.mode = "block", !.nest = 1]
  ELSE IF l = ":p" THEN [on EXCEPT !.found = Occurrence(p), !.after = TRUE]
  ELSE [on EXCEPT !.after = word, !.objects = IF l = "{" THEN @ + 1 ELSE IF l = "}" THEN Less(@) ELSE @]

-----------------------------------------------------------------------------
FreshReader(d) == IF d \in Documents THEN FreshDocument(0) ELSE IF d = "mssql" THEN FreshBatch(0) ELSE Fresh(0)

Init ==
  /\ dialect \in Dialects
  /\ script = FreshScript(0, 0) /\ split = FreshReader(dialect) /\ guard = FreshWords /\ search = FreshSearch

Read(l) ==
  /\ script' \in Written(dialect, script, l)
  /\ guard' = IF dialect \in Documents \/ script'.cut \/ ~script'.known THEN FreshWords ELSE Scan(dialect, guard, l)
  /\ split' = IF dialect \in Documents THEN Document(dialect, split, l)
              ELSE IF dialect = "mssql" THEN Batch(split, l, guard'.first # "")
              ELSE Split(dialect, split, l)
  /\ search' = IF dialect # "surrealdb" \/ script'.cut \/ script'.hash THEN FreshSearch ELSE Search(search, l)
  /\ UNCHANGED dialect

Next == \E l \in Lexemes : Read(l)
Spec == Init /\ [][Next]_vars

-----------------------------------------------------------------------------
(* Properties.                                                                 *)

\* A statement ends where its database says it does: not at a semicolon in a string, a comment, a
\* CASE or the body of a routine, and not a statement late.
SplitsAtEnds == split.cut = script.cut

\* The lines reported for a statement are those from its first character to its last.
Pushed == IF dialect \in Documents THEN PushDocument(split)
          ELSE IF dialect = "mssql" THEN PushBatch(split) ELSE Push(split)
Held == IF script.code THEN script.span ELSE NoLines
LinesRight ==
  IF dialect \in Documents \cup {"mssql"}
  THEN script.known => /\ (Pushed = NoLines) = (Held = NoLines)
                       /\ Held # NoLines => Pushed[1] = Held[1] /\ Pushed[2] \in Held[2]..script.line
  ELSE ~script.nested => Pushed = Held

\* What is run, and where its marks are put, is what the text has there.
SplitsRight == SplitsAtEnds /\ LinesRight


\* A named parameter of SurrealQL is found where the text has one and nowhere else, so that nothing
\* is put into a string or a comment.  Within braces a word before the colon makes it an object's
\* value; # comments are not known to the search.
ParametersFound ==
  dialect = "surrealdb" /\ ~script.hash =>
    /\ search.found => script.named
    /\ script.named /\ script.blocks = <<"plain">> => search.found
==============================================================================
