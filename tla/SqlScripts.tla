------------------------------ MODULE SqlScripts ------------------------------
(* Scripts as their databases read them, which is what split, words and        *)
(* surreal_occurrences must find out of the text alone.  A script is written   *)
(* one lexeme at a time; its record says what the text so far is: the quotes   *)
(* or comment it is in, the blocks that are open, where its statement began    *)
(* and last stood, and what that statement does.                               *)
EXTENDS SqlSplit

CONSTANTS MaxBlocks, MaxLines, MaxStatements,
          Misread  \* the lexemes guard::words is known to misread; where one stands it is not followed

FreshScript(line, count) ==
  [lex |-> "code", nest |-> 0, tag |-> "", escapes |-> FALSE, blocks |-> <<"start">>, parens |-> 0,
   line |-> line, count |-> count, span |-> NoLines, code |-> FALSE, cut |-> FALSE,
   writes |-> FALSE, verb |-> "", touches |-> "nothing", inner |-> "nothing", known |-> TRUE, nested |-> FALSE, compound |-> FALSE, hash |-> FALSE, named |-> FALSE]

Documents == {"mongodb", "redis"}

-----------------------------------------------------------------------------
(* Quotes and comments. *)

\* What opens a quoted run or a comment, and as what.
Openers(d) ==
  [l \in {"'", "dq", "--", "/*"} |-> IF l = "'" THEN "single" ELSE IF l = "dq" THEN "double" ELSE IF l = "--" THEN "line" ELSE "block"]
  @@ (IF d \in {"mysql", "surrealdb"} THEN "#" :> "line" ELSE <<>>)
  @@ (IF d \in {"scylla", "surrealdb"} THEN "//" :> "line" ELSE <<>>)
  @@ (IF d \in {"mysql", "surrealdb", "clickhouse", "sqlite"} THEN "bq" :> "tick" ELSE <<>>)
  @@ (IF d = "postgres" THEN "E'" :> "single" ELSE <<>>)
  @@ (IF d \in {"postgres", "scylla"} THEN "$$" :> "dollar" @@ "$b$" :> "dollar" ELSE <<>>)
  @@ (IF d = "oracle" THEN "q'[" :> "alternative" ELSE <<>>)
  @@ (IF d = "surrealdb" THEN "<|" :> "angle" ELSE <<>>)
  @@ (IF d = "mssql" THEN "[" :> "bracket" ELSE <<>>)

Comments == {"line", "block"}

\* What a quoted run or a comment may hold, what ends it among it.
Content(d, s) ==
  CASE s.lex = "line" -> {"nl", "'", ";", "delete", "*/", ":p"} \cup (IF d = "mssql" THEN {"go"} ELSE {})
    [] s.lex = "block" -> {"*/", "nl", "'", ";", "--", "delete"}
                            \cup (IF d = "postgres" /\ s.nest < 2 THEN {"/*"} ELSE {})
                            \cup (IF d = "mssql" THEN {"go"} ELSE {})
    [] s.lex = "single" -> {"'", "''", "nl", ";", "--", "/*", "dq", "delete"}
                             \cup (IF s.escapes THEN {"bs'", "bs nl"} ELSE {})
                             \cup (IF d = "mssql" THEN {"go"} ELSE {})
                             \cup (IF d = "surrealdb" THEN {":p", "}"} ELSE {})
    [] s.lex = "double" -> {"dq", "'", ";", "delete"}
    [] s.lex = "tick" -> {"bq", "'", ";", "delete"}
    [] s.lex = "angle" -> {"|>", "'", ";", "delete", ":p"}
    [] s.lex = "bracket" -> {"]", "'", ";", "delete"}
    [] s.lex = "alternative" -> {"]'", "'", ";", "nl", "delete"}
    [] s.lex = "dollar" -> {"$$", "$b$", "'", ";", "nl", "delete", "end"}

Closing(s, l) ==
  CASE s.lex = "line" -> l = "nl" \/ l \in GoLines
    [] s.lex = "block" -> l = "*/" /\ s.nest = 1
    [] s.lex = "single" -> l = "'"
    [] s.lex = "double" -> l = "dq"
    [] s.lex = "tick" -> l = "bq"
    [] s.lex = "angle" -> l = "|>"
    [] s.lex = "bracket" -> l = "]"
    [] s.lex = "alternative" -> l = "]'"
    [] s.lex = "dollar" -> l = s.tag

\* Text that guard::words is not made for: an escaped quote in MySQL and PostgreSQL, a dollar-quoted
\* or alternatively quoted string, a // comment in CQL.  README, "Findings".
Foreign(d, l) ==
  /\ l \in Misread
  /\ \/ l = "bs'" /\ d \in {"mysql", "postgres"}
     \/ l \in {"$$", "$b$", "q'["}
     \/ l = "//" /\ d = "scylla"

Quoting(d, s, l) ==
  IF s.lex = "code"
  THEN [s EXCEPT !.lex = Openers(d)[l], !.nest = IF l = "/*" THEN 1 ELSE 0, !.tag = l,
                 !.hash = @ \/ l = "#", !.escapes = (l \in {"'", "dq"} /\ d \in Escaping) \/ l = "E'"]
  ELSE IF Closing(s, l) THEN [s EXCEPT !.lex = "code", !.nest = 0, !.tag = "", !.escapes = FALSE]
  ELSE IF s.lex = "block" /\ l = "/*" THEN [s EXCEPT !.nest = @ + 1, !.nested = TRUE, !.known = FALSE]
  ELSE IF s.lex = "block" /\ l = "*/" THEN [s EXCEPT !.nest = @ - 1]
  ELSE s

-----------------------------------------------------------------------------
(* Statements and their blocks.  A block is named for what may stand in it. *)

Drop(d) == IF d = "surrealdb" THEN "remove" ELSE "drop"
Queries == {"select", "update", "delete"}
Routines(d) == CASE d = "sqlite" -> {"trigger"}
                 [] d \in {"mysql", "postgres"} -> {"procedure", "function", "trigger"}
                 [] d = "oracle" -> {"procedure", "function", "trigger", "package"}
                 [] d = "scylla" -> {"function"}
                 [] OTHER -> {}

Opened(bs, b) == IF Len(bs) < MaxBlocks THEN {Append(bs, b)} ELSE {}
Instead(bs, b) == {Append(Front(bs), b)}
Begin(d, bs) ==
  CASE d = "oracle" -> {<<"tail", "exec">>}
    [] d \in {"scylla", "surrealdb"} -> {<<"batch">>}
    [] OTHER -> {<<"plain">>}

\* The blocks that may be open after the word or mark l.
After(d, s, l) ==
  LET bs == s.blocks
      top == Last(bs)
      stay == {bs}
      close == {Front(bs)}
  IN
  CASE top = "start" ->
         (CASE l \in Queries \cup {"insert", Drop(d), "with"} -> {<<"plain">>}
            [] l = "create" -> {<<"create">>}
            [] l = "begin" -> Begin(d, bs)
            [] l = "declare" /\ d = "oracle" -> {<<"tail", "decl">>}
            [] OTHER -> {})
    [] top = "plain" ->
         (CASE l \in {"name", "1", "true", "where", "as", "or", "into"} -> stay
            [] l \in Queries /\ d # "surrealdb" -> stay
            [] l = ":p" /\ d = "surrealdb" -> stay
            [] l = "case" -> Opened(bs, "expression")
            [] l = "{" /\ d = "surrealdb" -> Opened(bs, "brace")
            [] OTHER -> {})
    [] top = "create" ->
         (CASE l \in {"or", "replace"} -> stay
            [] l = "table" -> {<<"plain">>}
            [] l = "package" /\ l \in Routines(d) -> {<<"package header">>}
            [] l \in Routines(d) -> {<<"header">>}
            [] OTHER -> {})
    [] top = "header" /\ d # "oracle" ->
         (CASE l \in {"name", "update"} -> stay
            [] l = "begin" /\ d # "scylla" -> {<<"tail", "block">>}
            [] OTHER -> {})
    [] top = "header" /\ d = "oracle" ->
         (CASE l = "name" -> stay
            [] l = "declare" /\ Len(bs) = 1 -> {<<"tail", "decl">>}
            [] l = "begin" /\ Len(bs) = 1 -> {<<"tail", "exec">>}
            [] l \in {"is", "as"} -> IF Len(bs) = 1 THEN {<<"tail", "decl">>} ELSE Instead(bs, "decl")
            [] l = ";" /\ Len(bs) > 1 -> close
            [] OTHER -> {})
    [] top = "package header" ->
         (CASE l = "name" -> stay [] l \in {"is", "as"} -> {<<"tail", "package">>} [] OTHER -> {})
    [] top \in {"decl", "package"} ->
         (CASE l \in {"name", ";"} -> stay
            [] l \in {"procedure", "function"} -> Opened(bs, "header")
            [] l = "begin" -> Instead(bs, "exec")
            [] l = "end" /\ top = "package" -> close
            [] OTHER -> {})
    [] top \in {"exec", "block"} ->
         (CASE l \in {"name", ";"} \cup Queries -> stay
            [] l = "begin" /\ d \in {"oracle", "mysql"} -> Opened(bs, top)
            [] l = "declare" /\ d = "oracle" -> Opened(bs, "decl")
            [] l = "case" -> Opened(bs, "expression") \cup (IF d = "sqlite" THEN {} ELSE Opened(bs, "case"))
            [] l = "if" /\ d \in {"oracle", "mysql"} -> Opened(bs, "if")
            [] l = "end" -> close
            [] OTHER -> {})
    [] top = "expression" ->
         (CASE l = "name" -> stay [] l = "case" -> Opened(bs, "expression") [] l = "end" -> close [] OTHER -> {})
    [] top = "case" -> (CASE l \in {"name", ";"} -> stay [] l = "end case" -> close [] OTHER -> {})
    [] top = "if" -> (CASE l \in {"name", ";"} -> stay [] l \in {"end if", "end/if"} -> close [] OTHER -> {})
    [] top = "brace" ->
         (CASE l \in {"name", ";", ":p"} \cup Queries -> stay
            [] l = "{" -> Opened(bs, "brace")
            [] l = "}" -> close
            [] OTHER -> {})
    [] top = "batch" ->
         (CASE l \in {"name", ";"} \cup Queries -> stay
            [] l = (IF d = "scylla" THEN "apply" ELSE "commit") -> {<<"tail">>}
            [] OTHER -> {})
    [] top = "tail" -> (IF l = "name" THEN stay ELSE {})
    [] top \in {"object", "array"} ->
         (CASE l = "name" -> stay
            [] l = "{" -> Opened(bs, "object")
            [] l = "[" -> Opened(bs, "array")
            [] l = (IF top = "object" THEN "}" ELSE "]") -> close
            [] OTHER -> {})
    [] top = "document" -> (CASE l = "{" -> {<<"document", "object">>} [] l = "name" -> stay [] OTHER -> {})

\* Where a semicolon ends the statement.
Whole(d, s) ==
  /\ s.parens = 0 /\ Len(s.blocks) = 1
  /\ s.blocks[1] \in {"plain", "tail"} \cup (IF d = "oracle" THEN {} ELSE {"header"})

-----------------------------------------------------------------------------
(* What a statement does, by its own words: the rows its verb touches, "where" once a condition
   has begun that may turn out to be none. *)

Changing == {"insert", "update", "delete", "drop", "remove", "create"}
All == {"all", "where", "certain"}

\* PostgreSQL's common table expressions may change rows themselves, whatever verb they lead up to.
OfExpression(d, s, l) ==
  IF d # "postgres" \/ s.parens = 0 \/ s.verb # "" \/ s.inner = "certain" THEN s.inner
  ELSE IF l \in {"update", "delete"} THEN "all"
  ELSE IF l = "where" /\ s.inner = "all" THEN "where"
  ELSE IF l \in Words \ {"true", "1"} /\ s.inner = "where" THEN "some"
  ELSE IF l = ")" THEN IF s.inner \in All THEN "certain" ELSE "nothing"
  ELSE s.inner

MayTouchAll(s) == s.touches \in All \/ s.inner \in All
\* Only a common table expression changes every row.
OnlyInside(s) == s.touches \notin All /\ s.inner \in All

\* T-SQL has no mark between two statements of a batch: the next verb starts one.
Effect(d, s, l) ==
  LET verb == s.parens = 0 /\ l \in Queries \cup Changing /\ (s.verb = "" \/ d = "mssql")
      condition == s.verb = "changes" /\ l = "where" /\ s.parens = 0 /\ s.touches = "all"
  IN
  [s EXCEPT !.writes = @ \/ l \in Changing \/ (d = "mssql" /\ l = "into"),
            !.verb = IF verb THEN IF l \in {"update", "delete"} THEN "changes" ELSE "other" ELSE @,
            !.inner = OfExpression(d, s, l),
            !.touches = IF verb
                        THEN IF @ \in All \/ l \in {"drop", "remove"} THEN "certain"
                             ELSE IF l \in {"update", "delete"} THEN "all" ELSE "nothing"
                        ELSE IF condition THEN "where"
                        ELSE IF @ = "where" /\ l \in (Words \cup GoLines \cup {":p"}) \ {"true", "1"} THEN "some"
                        ELSE @]

-----------------------------------------------------------------------------
\* Where the text stands after l.
Along(s, l) ==
  [s EXCEPT !.cut = FALSE, !.named = s.lex = "code" /\ l = ":p", !.line = @ + (IF l \in GoLines THEN 2 ELSE Breaks(l)),
            !.span = IF l = "nl" THEN @
                     ELSE <<IF @ = NoLines THEN s.line + (IF l \in GoLines THEN 1 ELSE 0) ELSE @[1],
                            s.line + (IF l = "end/if" \/ l \in GoLines THEN 1 ELSE 0)>>]

NextStatement(s, line) == [FreshScript(line, s.count + 1) EXCEPT !.cut = TRUE]

\* A lexeme of SQL.
WriteSql(d, s, l) ==
  LET on == Along(s, l)
      told == [Effect(d, on, l) EXCEPT !.code = TRUE, !.compound = @ \/ l = ";"]
      open(b) == b \in {"plain", "header", "exec", "block", "brace", "batch", "decl"}
      bracketed == Last(s.blocks) \in {"plain", "header"}
  IN
  IF s.lex # "code" /\ ~(s.lex = "line" /\ l = "go")
  THEN IF l \in Content(d, s)
       THEN {[Quoting(d, on, l) EXCEPT !.known = @ /\ ~Foreign(d, l)]} ELSE {}
  ELSE IF l = "nl" THEN {on}
  ELSE IF l \in DOMAIN Openers(d)
  THEN IF Openers(d)[l] \in Comments \/ open(Last(s.blocks))
       THEN {[Quoting(d, on, l) EXCEPT !.code = @ \/ Openers(d)[l] \notin Comments,
                                       !.known = @ /\ ~Foreign(d, l),
                                       !.inner = IF l = "E'" THEN Effect(d, s, "name").inner ELSE @,
                                       !.touches = IF l \in {"E'", "q'["} THEN Effect(d, s, "name").touches ELSE @]}
       ELSE {}
  ELSE IF l \in GoLines /\ d = "mssql" THEN IF IsGo(l) THEN {NextStatement(s, s.line + 2)} ELSE {told}
  ELSE IF l = ";" /\ Whole(d, s) /\ d # "mssql" THEN {NextStatement(s, s.line)}
  ELSE IF l = "(" THEN IF bracketed /\ s.parens = 0 THEN {[told EXCEPT !.parens = 1]} ELSE {}
  ELSE IF l = ")" THEN IF s.parens = 1 THEN {[told EXCEPT !.parens = 0]} ELSE {}
  ELSE IF s.parens = 1 /\ l \in {"is", "as", "begin", "declare", ";"} THEN {}
  ELSE {[told EXCEPT !.blocks = blocks] : blocks \in After(d, s, l)}

\* A lexeme of a MongoDB document or a Redis command.
Marks == {"{", "}", "[", "]"}
WriteDocument(d, s, l) ==
  LET on == Along(s, l)
      begun == s.blocks # <<"start">>
  IN
  IF s.lex = "line" THEN IF l = "nl" THEN {[on EXCEPT !.lex = "code"]} ELSE IF l \in {"name", "dq"} THEN {[s EXCEPT !.cut = FALSE]} ELSE {}
  ELSE IF s.lex = "double" THEN IF l = "dq" THEN {[on EXCEPT !.lex = "code"]}
                                ELSE IF l \in Marks \cup {"bs dq"} THEN {on} ELSE {}
  ELSE IF l = "nl" THEN IF s.blocks = <<"document">> THEN {NextStatement(s, s.line + 1)} ELSE {on}
  ELSE IF l \in SkippedBy(d) THEN IF begun THEN {} ELSE {[s EXCEPT !.lex = "line", !.cut = FALSE]}
  ELSE IF d = "redis" THEN IF l = "name" THEN {[on EXCEPT !.blocks = <<"document">>, !.code = TRUE]} ELSE {}
  ELSE IF l = "dq" THEN IF Len(s.blocks) > 1 THEN {[on EXCEPT !.lex = "double"]} ELSE {}
  ELSE {[on EXCEPT !.blocks = blocks, !.code = TRUE] :
          blocks \in IF begun THEN After(d, s, l)
                     ELSE IF l = "{" THEN {<<"document", "object">>}
                     ELSE IF l = "name" THEN {<<"document">>} ELSE {}}

\* The scripts that l makes of s.
Written(d, s, l) ==
  {next \in (IF d \in Documents THEN WriteDocument(d, s, l) ELSE WriteSql(d, s, l)) :
     next.line <= MaxLines /\ next.count <= MaxStatements}
==============================================================================
