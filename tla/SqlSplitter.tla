---------------------------- MODULE SqlSplitter ----------------------------
(***************************************************************************)
(* How the migration runner cuts a file into statements (SplitStatements). *)
(* The scanner reads the file once, from its beginning, so the file is     *)
(* written as it is read: a lexeme at a time, of those a migration may     *)
(* hold.  A token is a character or one of the marks the scanner looks     *)
(* for; a doubled quote is two literals side by side.                      *)
(***************************************************************************)
EXTENDS Integers, Sequences, FiniteSets

CONSTANTS Code,       \* tokens that mean nothing to the scanner
          Tag,        \* dollar-quote tags, $$ and $name$
          Lexeme,     \* the lexemes files are written from
          MaxLexemes  \* bound: lexemes and semicolons of a file

\* The marks ' and ", --, the end of a line, the two of a block comment, and ;
Quote == {"quote", "dquote"} \cup Tag
Mark == {"dash", "nl", "open", "close", "semi"}
Token == Code \cup Quote \cup Mark

\* What PostgreSQL takes as a lexeme: a literal up to its own mark, a comment to the end
\* of the line, and a block comment up to the first place at which all it opened is closed
Opened(p, k) == Cardinality({i \in 1 .. k : p[i] = "open"})
Closed(p, k) == Cardinality({i \in 1 .. k : p[i] = "close"})
UpTo(p, mark) == Len(p) > 1 /\ \A i \in 2 .. Len(p) : p[i] = mark <=> i = Len(p)
IsLexeme(p) ==
    \/ Len(p) = 1 /\ p[1] \in Code \cup {"nl"}
    \/ p[1] \in Quote /\ UpTo(p, p[1])
    \/ p[1] = "dash" /\ UpTo(p, "nl")
    \/ p[1] = "open" /\ \A k \in 1 .. Len(p) : Opened(p, k) - Closed(p, k) > 0 <=> k < Len(p)

ASSUME SplitterAssumption ==
    /\ MaxLexemes \in Nat
    /\ Code \cap (Quote \cup Mark) = {} /\ Tag \cap ({"quote", "dquote", "sql"} \cup Mark) = {}
    /\ Lexeme \subseteq Seq(Token) /\ \A p \in Lexeme : p # <<>> /\ IsLexeme(p)

VARIABLES parts, begun, written, \* the file so far: its statements, the one begun, lexemes
          lexeme, pos,          \* the lexeme under the scanner, and tokens of it read
          lex,                  \* what the scanner is inside of, and comments open
          cur, out, ended        \* the statement being collected, the result

fileVars == <<parts, begun, written>>
splitterVars == <<fileVars, lexeme, pos, lex, cur, out, ended>>

SplitterInit ==
    /\ parts = <<>> /\ begun = <<>> /\ written = 0 /\ lexeme = <<>> /\ pos = 0
    /\ lex = [in |-> "sql", depth |-> 0] /\ cur = <<>> /\ out = <<>> /\ ended = FALSE

-----------------------------------------------------------------------------
(* The file *)

\* A statement of which TrimSpace leaves nothing is none
Blank(st) == \A i \in 1 .. Len(st) : st[i] = "nl"
WithStatement(list, st) == IF Blank(st) THEN list ELSE Append(list, st)

Written(p) ==
    /\ ~ended /\ pos = Len(lexeme) /\ written < MaxLexemes
    /\ written' = written + 1 /\ lexeme' = p /\ pos' = 0
    /\ UNCHANGED <<lex, cur, out, ended>>
AddLexeme(p) == Written(p) /\ begun' = begun \o p /\ UNCHANGED parts
EndStatement == Written(<<"semi">>) /\ parts' = WithStatement(parts, begun) /\ begun' = <<>>

-----------------------------------------------------------------------------
(* The scanner *)

Outside == [in |-> "sql", depth |-> 0]
Enter(mark) == [in |-> mark, depth |-> IF mark = "open" THEN 1 ELSE 0]

\* Within a block comment, which nests, and a faulty variant in which it does not
LexFlatComment(l, tok) == IF tok = "close" THEN Outside ELSE l
LexComment(l, tok) ==
    CASE tok = "open" -> [l EXCEPT !.depth = @ + 1]
      [] tok = "close" -> IF l.depth = 1 THEN Outside ELSE [l EXCEPT !.depth = @ - 1]
      [] OTHER -> l

\* What the scanner is inside of after a token
Lex(l, tok) ==
    CASE l.in = "sql" -> IF tok \in Quote \cup {"dash", "open"} THEN Enter(tok) ELSE l
      [] l.in = "open" -> LexComment(l, tok)
      [] OTHER -> IF tok = (IF l.in = "dash" THEN "nl" ELSE l.in) THEN Outside ELSE l

Flush == out' = WithStatement(out, cur) /\ cur' = <<>>

ScanToken ==
    /\ pos < Len(lexeme) /\ pos' = pos + 1
    /\ LET tok == lexeme[pos + 1] IN
       IF lex.in = "sql" /\ tok = "semi"
       THEN Flush /\ UNCHANGED lex
       ELSE lex' = Lex(lex, tok) /\ cur' = Append(cur, tok) /\ UNCHANGED out
    /\ UNCHANGED <<fileVars, lexeme, ended>>

\* The file ends, and what is left is the last statement
EndOfFile ==
    /\ ~ended /\ pos = Len(lexeme)
    /\ Flush /\ ended' = TRUE
    /\ UNCHANGED <<fileVars, lexeme, pos, lex>>

SplitterNext == EndStatement \/ ScanToken \/ EndOfFile \/ \E p \in Lexeme : AddLexeme(p)
SplitterSpec == SplitterInit /\ [][SplitterNext]_splitterVars

-----------------------------------------------------------------------------
\* The splitter cuts a file back into the statements it was put together from, also
\* when they hold semicolons in comments, strings or dollar-quoted bodies, and never
\* yields a blank statement (migrate.go, SplitStatements).
SplitsBack == ended => out = WithStatement(parts, begun)
=============================================================================
