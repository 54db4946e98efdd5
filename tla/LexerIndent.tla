---------------------------- MODULE LexerIndent ----------------------------
(***************************************************************************)
(* The layer between ANTLR's lexer and the parser that makes the INDENT    *)
(* and DEDENT tokens (pkg/grammar/lexer_impl.go), with the actions of the  *)
(* lexer's rules that it depends on (pkg/grammar/sysl_lexer.go), and the   *)
(* global map that keeps the state of each lexer under its address.        *)
(*                                                                         *)
(* A process reads one file after another.  The tokens of a file are       *)
(* chosen one by one, in every order the rules can match in; the position  *)
(* in the line tells which they are:                                       *)
(*   start     nothing of the line was read                                *)
(*   indented  the blanks before its first token were read; what ends a    *)
(*             line would have taken them with it                          *)
(*   line, comment   in the line, in a comment up to the line's end        *)
(*   eof, end  the end of the file was met, and was given to the parser    *)
(*                                                                         *)
(* An operator named Mut... is a wrong variant of the operator after it    *)
(* that nothing uses: put in its place, it shows that a property tells the *)
(* two apart.                                                              *)
(*                                                                         *)
(* Bounds: the Columns a line may start in, MaxParens.                     *)
(***************************************************************************)
EXTENDS Integers, Sequences, FiniteSets

CONSTANTS
  Columns,   \* the widths of blanks before the first token of a line
  MaxParens  \* how many parentheses are open or missing at most in a view

ASSUME ColumnsAssumption == Columns \subseteq Nat \ {0} /\ MaxParens \in Nat

VARIABLES
  ls,      \* lexerState: level, spaces, prevToken, gotNewLine, gotView, parens, noMoreImports
  mode,    \* of the lexer: "view" is VIEW_TRANSFORM, "file" all others
  at,      \* the position in the line
  next,    \* the token that getNextToken holds while its loop runs, "" outside of it
  server,  \* the process is the language server
  column,  \* where the line starts
  line,    \* "first", "after dot" (the line before it ended with E_DOT_NAME_NL) or "other"
  seen,    \* which of ":", "!view" and parentheses of a view the file has had
  depth    \* the INDENTs less the DEDENTs that the parser has got

vars == <<ls, mode, at, next, server, column, line, seen, depth>>
text == <<column, line, seen>>

NewLexerState ==
  [level |-> <<>>, spaces |-> 0, prevToken |-> <<>>, gotNewLine |-> FALSE, gotView |-> FALSE,
   parens |-> 0, noMoreImports |-> FALSE]

getPreviousIndent(level) == IF level = <<>> THEN 0 ELSE level[Len(level)]

Init ==
  /\ ls = NewLexerState
  /\ mode = "file" /\ at = "start" /\ next = ""
  /\ server \in BOOLEAN
  /\ column = 0 /\ line = "first" /\ seen = {} /\ depth = 0

-----------------------------------------------------------------------------
\* getNextToken asks the lexer for a token when none is waiting.

Lexes(modes, positions) ==
  /\ next = "" /\ ls.prevToken = <<>>
  /\ mode \in modes /\ at \in positions

\* A token that ends the line is returned as it is.
EndsLine(state, lineAfter, modeAfter) ==
  /\ ls' = [state EXCEPT !.gotNewLine = TRUE]
  /\ mode' = modeAfter /\ at' = "start"
  /\ column' = 0 /\ line' = lineAfter
  /\ UNCHANGED <<next, seen, depth, server>>

MutNewLine ==
  /\ Lexes({"file"}, {"start", "line", "comment"})
  /\ EndsLine(ls, "other", IF ls.gotView THEN "view" ELSE "file")

NewLine ==
  /\ Lexes({"file"}, {"start", "line", "comment"})
  /\ EndsLine([ls EXCEPT !.spaces = 0], "other", IF ls.gotView THEN "view" ELSE "file")

\* EMPTY_LINE, EMPTY_COMMENT, INDENTED_COMMENT and E_INDENTED_COMMENT, which also
\* end a line that has tokens, NEWLINE_2 and TMPL_NL: none changes the mode.
BlankOrComment ==
  /\ Lexes({"file", "view"}, {"start", "line"})
  /\ EndsLine([ls EXCEPT !.spaces = 0], "other", mode)

E_NL ==
  /\ Lexes({"view"}, {"line"})
  /\ IF ls.parens = 0
       THEN EndsLine([ls EXCEPT !.spaces = 0, !.gotView = FALSE], "other", "file")
       ELSE EndsLine([ls EXCEPT !.spaces = 0], "other", "view")

\* The last name of an expression and the end of the line are one token.
E_DOT_NAME_NL ==
  /\ Lexes({"view"}, {"start", "indented", "line"}) /\ ls.spaces > 1
  /\ EndsLine(ls, "after dot", mode)

\* SYSL_COMMENT; the token that ends its line comes after it.
Comment ==
  /\ Lexes({"file"}, {"start", "line"})
  /\ ls' = [ls EXCEPT !.spaces = 0] /\ at' = "comment"
  /\ UNCHANGED <<mode, next, text, depth, server>>

\* The first token of a line, be it blanks, and the end of the file go into
\* the loop.  Blanks elsewhere do not count.
KeepsOrReturns(state, token) ==
  IF state.gotNewLine \/ token = "EOF"
    THEN ls' = [state EXCEPT !.spaces = IF token = "EOF" THEN 0 ELSE @] /\ next' = token
    ELSE ls' = [state EXCEPT !.spaces = IF token = "HIDDEN" THEN 0 ELSE @] /\ UNCHANGED next

\* WS and E_WS
Blanks ==
  /\ Lexes({"file", "view"}, {"start", "line"})
  /\ \E width \in Columns :
       /\ KeepsOrReturns([ls EXCEPT !.spaces = width], "HIDDEN")
       /\ column' = IF at = "start" THEN width ELSE column
  /\ at' = IF at = "start" THEN "indented" ELSE at
  /\ UNCHANGED <<mode, line, seen, depth, server>>

Token(modes, state, kinds) ==
  /\ Lexes(modes, {"start", "indented", "line"})
  /\ KeepsOrReturns(state, "TOKEN")
  /\ at' = "line" /\ seen' = seen \cup kinds
  /\ UNCHANGED <<mode, column, line, depth, server>>

PlainToken == Token({"file", "view"}, ls, {})

COLON == Token({"file"}, [ls EXCEPT !.noMoreImports = TRUE], {"colon"})

VIEW == Token({"file"}, [ls EXCEPT !.gotView = TRUE], {"view"})

ABSTRACT == ls.gotView /\ Token({"file"}, [ls EXCEPT !.gotView = FALSE], {})

E_OPEN_PAREN ==
  ls.parens < MaxParens /\ Token({"view"}, [ls EXCEPT !.parens = @ + 1], {"paren"})

E_CLOSE_PAREN ==
  ls.parens > -MaxParens /\ Token({"view"}, [ls EXCEPT !.parens = @ - 1], {"paren"})

EndOfFile ==
  /\ Lexes({"file", "view"}, {"start", "line", "comment"})
  /\ KeepsOrReturns(ls, "EOF")
  /\ at' = "eof"
  /\ UNCHANGED <<mode, text, depth, server>>

-----------------------------------------------------------------------------
\* The loop of getNextToken, one pass at a time, and the queue it leaves

MutIndent ==
  /\ next # "" /\ ls.spaces # getPreviousIndent(ls.level)
  /\ ls' = [ls EXCEPT !.level = Append(@, ls.spaces), !.prevToken = Append(@, "INDENT")]
  /\ UNCHANGED <<mode, at, next, text, depth, server>>

Indent ==
  /\ next # "" /\ ls.spaces > getPreviousIndent(ls.level)
  /\ ls' = [ls EXCEPT !.level = Append(@, ls.spaces), !.prevToken = Append(@, "INDENT")]
  /\ UNCHANGED <<mode, at, next, text, depth, server>>

MutPop(level) == <<>>

Pop(level) == SubSeq(level, 1, Len(level) - 1)

Dedent ==
  /\ next # "" /\ ls.spaces < getPreviousIndent(ls.level)
  /\ ls' = [ls EXCEPT !.level = Pop(@), !.prevToken = Append(@, "DEDENT")]
  /\ UNCHANGED <<mode, at, next, text, depth, server>>

\* The parser gets the head of the queue.
Delivers(queue) ==
  /\ ls' = [ls EXCEPT !.prevToken = Tail(queue), !.gotNewLine = @ /\ next = ""]
  /\ depth' = CASE Head(queue) = "INDENT" -> depth + 1
                [] Head(queue) = "DEDENT" -> depth - 1
                [] OTHER -> depth
  /\ at' = IF Head(queue) = "EOF" THEN "end" ELSE at
  /\ next' = ""
  /\ UNCHANGED <<mode, text, server>>

Returns ==
  next # "" /\ ls.spaces = getPreviousIndent(ls.level) /\ Delivers(Append(ls.prevToken, next))

Poll == next = "" /\ ls.prevToken # <<>> /\ Delivers(ls.prevToken)

-----------------------------------------------------------------------------
\* The next file

MutDeleteLexerState(state) == {state}

\* What a lexer leaves in lexerStates when it is gone: diagnoseRaw does not delete it.
DeleteLexerState(state) == IF server THEN {state} ELSE {}

\* A new lexer may be put where another one was, and finds the state left there.
\* (That it is the one before loses nothing: no other variable tells files apart.)
NextFile ==
  /\ at = "end"
  /\ ls' \in {NewLexerState} \cup DeleteLexerState(ls)
  /\ mode' = "file" /\ at' = "start" /\ next' = ""
  /\ column' = 0 /\ line' = "first" /\ seen' = {} /\ depth' = 0
  /\ UNCHANGED server

Next ==
  \/ NewLine \/ BlankOrComment \/ E_NL \/ E_DOT_NAME_NL \/ Comment \/ Blanks
  \/ PlainToken \/ COLON \/ VIEW \/ ABSTRACT \/ E_OPEN_PAREN \/ E_CLOSE_PAREN \/ EndOfFile
  \/ Indent \/ Dedent \/ Returns \/ Poll
  \/ NextFile

Spec == Init /\ [][Next]_vars

-----------------------------------------------------------------------------
\* Properties

(***************************************************************************)
(* The open blocks start in different columns, inner ones to the right of  *)
(* outer ones and none in the first column.  The loop of getNextToken ends *)
(* because of this: a column that no block has is passed once, downwards,  *)
(* and pushed again (lexer_impl.go:181).                                   *)
(***************************************************************************)
LevelsIncrease ==
  /\ \A i \in 1..Len(ls.level) : ls.level[i] \in Columns
  /\ \A i, j \in 1..Len(ls.level) : i < j => ls.level[i] < ls.level[j]

Of(queue, kind) == {i \in 1..Len(queue) : queue[i] = kind}
Waiting(kind) == Cardinality(Of(ls.prevToken, kind))

(***************************************************************************)
(* The parser never closes a block that it has not opened; the blocks it   *)
(* has open are those of the lexer, once it got what waits; a line opens   *)
(* one block at most; and at the end of a file all are closed.             *)
(***************************************************************************)
BlocksBalance ==
  /\ depth >= 0
  /\ depth + Waiting("INDENT") - Waiting("DEDENT") = Len(ls.level)
  /\ Waiting("INDENT") <= 1
  /\ at = "end" => depth = 0

(***************************************************************************)
(* The tokens of a line are in the block of its column.  The blanks of the *)
(* first line of a file do not count.  The line after one that ends with   *)
(* E_DOT_NAME_NL stays in the block of that one if it starts in the first  *)
(* column, because this token leaves spaces as they are.                   *)
(***************************************************************************)
LinesInTheirBlock ==
  (at = "line" /\ next = "" /\ ~(line = "after dot" /\ column = 0)) =>
    getPreviousIndent(ls.level) = IF line = "first" THEN 0 ELSE column

(***************************************************************************)
(* A file is read as if it was the only one: no lexer starts inside of a   *)
(* block, whatever state it finds under its address, and where lexers give *)
(* their state back (parse.go:41) it knows of no colon, view or            *)
(* parenthesis that is not in its file, so that "import is only a keyword  *)
(* before the application starts" (lexer_impl.go:82).                      *)
(***************************************************************************)
NothingLeftOver ==
  /\ (line = "first" /\ at = "start") => ls.level = <<>> /\ ls.spaces = 0 /\ ~ls.gotNewLine
  /\ ~server => /\ ls.noMoreImports => "colon" \in seen
                /\ ls.gotView \/ mode = "view" => "view" \in seen
                /\ ls.parens # 0 => "paren" \in seen
=============================================================================
