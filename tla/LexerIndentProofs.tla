------------------------- MODULE LexerIndentProofs -------------------------
(***************************************************************************)
(* What holds of LexerIndent for all columns and any number of             *)
(* parentheses: the open blocks increase, each line is in the block of its *)
(* column, and nothing is left over for the next file.                     *)
(***************************************************************************)
EXTENDS LexerIndent, FiniteSetTheorems, SequenceTheorems, TLAPS

TokenKinds == {"INDENT", "DEDENT", "HIDDEN", "TOKEN", "EOF"}

LexerStates ==
  [level : Seq(Columns), spaces : Columns \cup {0}, prevToken : Seq(TokenKinds),
   gotNewLine : BOOLEAN, gotView : BOOLEAN, parens : Int, noMoreImports : BOOLEAN]

\* The type invariant.
Types ==
  /\ ls \in LexerStates
  /\ mode \in {"file", "view"}
  /\ at \in {"start", "indented", "line", "comment", "eof", "end"}
  /\ next \in {"", "HIDDEN", "TOKEN", "EOF"}
  /\ column \in Columns \cup {0}
  /\ line \in {"first", "after dot", "other"}
  /\ server \in BOOLEAN

Increasing(level) == \A i, j \in 1..Len(level) : i < j => level[i] < level[j]

\* The end of the file is the last token that waits.
EofLast ==
  /\ \A i \in 1..Len(ls.prevToken) : ls.prevToken[i] = "EOF" => i = Len(ls.prevToken) /\ next = ""
  /\ \A i \in 1..Len(ls.prevToken) : ls.prevToken[i] = "EOF" => at = "eof"

\* Where in the line the lexer is decides whether the loop has run for it.
Positions ==
  /\ (at \in {"start", "end"}) => (next = "" /\ ls.prevToken = <<>>)
  /\ at = "comment" => next = ""
  /\ at = "start" => (column = 0 /\ (line # "first" => ls.gotNewLine))
  /\ next = "EOF" <=> (at = "eof" /\ next # "")
  /\ (at = "eof" /\ next = "") => ls.level = <<>>
  /\ at \in {"eof", "end"} => ls.spaces = 0
  /\ at = "end" => (ls.level = <<>> /\ ~ls.gotNewLine)
  /\ (at = "eof" /\ next = "") => ~ls.gotNewLine
  /\ next \in {"HIDDEN", "TOKEN"} => ls.gotNewLine
  /\ (at \in {"indented", "line"} /\ next = "") => ~ls.gotNewLine

\* spaces is the column of a line until the loop has used it.
Spaces ==
  /\ (line = "other" /\ at = "start") => ls.spaces = 0
  /\ (next \in {"HIDDEN", "TOKEN"} /\ ~(line = "after dot" /\ column = 0)) => ls.spaces = column

Blocks ==
  (at \in {"indented", "line"} /\ next = "" /\ line # "first"
     /\ ~(line = "after dot" /\ column = 0)) => getPreviousIndent(ls.level) = column

\* In the first line no block is open and the loop does not run.
FirstLine ==
  (line = "first" /\ at # "end") =>
    /\ ls.level = <<>> /\ next \in {"", "EOF"} /\ ~ls.gotNewLine
    /\ at = "start" => ls.spaces = 0

\* What the flags of the state say is of this file.
OfThisFile ==
  ~server => /\ ls.noMoreImports => "colon" \in seen
             /\ ls.gotView \/ mode = "view" => "view" \in seen
             /\ ls.parens # 0 => "paren" \in seen

IInv ==
  /\ Types /\ Increasing(ls.level)
  /\ EofLast /\ Positions /\ Spaces /\ Blocks /\ FirstLine
  /\ OfThisFile

-----------------------------------------------------------------------------
\* Stacks of columns

LEMMA EmptyIncreases == Increasing(<<>>) /\ getPreviousIndent(<<>>) = 0
BY DEF Increasing, getPreviousIndent

LEMMA ColumnsPositive == \A c \in Columns \cup {0} : c \in Nat /\ (c \in Columns => c > 0)
BY ColumnsAssumption

LEMMA PastAColumn ==
  ASSUME NEW n \in Columns \cup {0}, NEW m \in Columns \cup {0}, n > m
  PROVE  n \in Columns
BY ColumnsPositive

\* The innermost block is that of the largest column.
LEMMA PushIncreases ==
  ASSUME NEW level \in Seq(Columns), Increasing(level),
         NEW c \in Columns, c > getPreviousIndent(level)
  PROVE  Append(level, c) \in Seq(Columns) /\ Increasing(Append(level, c))
<1>1. Columns \subseteq Nat
  BY ColumnsAssumption
<1>2. ASSUME NEW i \in 1..Len(level) PROVE level[i] < c
  <2>1. level # <<>> /\ getPreviousIndent(level) = level[Len(level)]
    BY DEF getPreviousIndent
  <2>2. level[i] \in Columns /\ level[Len(level)] \in Columns
    BY <2>1
  <2>3. i = Len(level) \/ level[i] < level[Len(level)]
    BY DEF Increasing
  <2> QED
    <3>1. level[i] \in Nat /\ level[Len(level)] \in Nat /\ c \in Nat
      BY <1>1, <2>2
    <3>2. level[Len(level)] < c
      BY <2>1
    <3> QED
      BY <2>3, <3>1, <3>2
<1> QED
  BY <1>1, <1>2 DEF Increasing

LEMMA PopIncreases ==
  ASSUME NEW level \in Seq(Columns), Increasing(level), level # <<>>
  PROVE  Pop(level) \in Seq(Columns) /\ Increasing(Pop(level))
BY DEF Increasing, Pop

LEMMA PreviousIndentType ==
  ASSUME NEW level \in Seq(Columns)
  PROVE  getPreviousIndent(level) \in Columns \cup {0}
BY DEF getPreviousIndent

LEMMA EmptyQueue ==
  ASSUME NEW queue, queue = <<>>
  PROVE  \A i \in 1..Len(queue) : FALSE
OBVIOUS

LEMMA InitIInv == Init => IInv
<1> SUFFICES ASSUME Init PROVE IInv
  OBVIOUS
<1>1. NewLexerState \in LexerStates
  <2>1. <<>> \in Seq(Columns) /\ <<>> \in Seq(TokenKinds)
    OBVIOUS
  <2> QED
    BY <2>1 DEF NewLexerState, LexerStates
<1>2. Types
  BY <1>1 DEF Init, Types
<1>3. /\ ls.level = <<>> /\ ls.spaces = 0 /\ ls.prevToken = <<>> /\ ~ls.gotNewLine
      /\ ~ls.gotView /\ ls.parens = 0 /\ ~ls.noMoreImports
  BY DEF Init, NewLexerState
<1>4. Increasing(ls.level)
  BY <1>3, EmptyIncreases
<1>5. EofLast /\ Positions /\ Spaces /\ Blocks /\ FirstLine
  <2>1. EofLast
    BY <1>3 DEF EofLast
  <2>2. Positions
    BY <1>3 DEF Init, Positions
  <2>3. Spaces /\ Blocks /\ FirstLine
    BY <1>3 DEF Init, Spaces, Blocks, FirstLine
  <2> QED
    BY <2>1, <2>2, <2>3
<1>6. OfThisFile
  BY <1>3 DEF Init, OfThisFile
<1> QED
  BY <1>2, <1>4, <1>5, <1>6 DEF IInv

-----------------------------------------------------------------------------
\* The steps of the lexer change the flags and the spaces only.

SameQueue(state) ==
  state \in LexerStates /\ state.level = ls.level /\ state.prevToken = ls.prevToken

SameFlags(state) ==
  state.gotView = ls.gotView /\ state.parens = ls.parens /\ state.noMoreImports = ls.noMoreImports

\* Assigning a field of a state leaves the others.
LEMMA Assigned ==
  ASSUME NEW state \in LexerStates, NEW n \in Columns \cup {0}, NEW b \in BOOLEAN
  PROVE  /\ [state EXCEPT !.spaces = n] \in LexerStates
         /\ [state EXCEPT !.gotNewLine = b] \in LexerStates
         /\ [state EXCEPT !.gotView = b] \in LexerStates
         /\ [state EXCEPT !.noMoreImports = b] \in LexerStates
BY DEF LexerStates

\* A line that ends leaves spaces at zero or is followed by one "after dot".
LEMMA EndsLineIInv ==
  ASSUME IInv, NEW modes, NEW positions, Lexes(modes, positions),
         NEW state, SameQueue(state), NEW lineAfter \in {"after dot", "other"},
         NEW modeAfter \in {"file", "view"}, EndsLine(state, lineAfter, modeAfter),
         lineAfter = "other" => state.spaces = 0,
         ~server => /\ state.noMoreImports => "colon" \in seen
                    /\ state.gotView \/ modeAfter = "view" => "view" \in seen
                    /\ state.parens # 0 => "paren" \in seen
  PROVE  IInv'
<1>1. /\ ls' \in LexerStates /\ ls'.level = ls.level /\ ls'.prevToken = <<>> /\ ls'.gotNewLine = TRUE
      /\ ls'.spaces = state.spaces /\ ls'.gotView = state.gotView /\ ls'.parens = state.parens
      /\ ls'.noMoreImports = state.noMoreImports
  BY Assigned DEF EndsLine, Lexes, SameQueue, LexerStates
<1>2. Types'
  BY <1>1 DEF EndsLine, IInv, Types
<1>3. Increasing(ls'.level)
  BY <1>1 DEF IInv
<1>4. EofLast' /\ Positions' /\ Spaces' /\ Blocks' /\ FirstLine'
  <2>1. at' = "start" /\ next' = "" /\ column' = 0 /\ line' = lineAfter
    BY DEF EndsLine, Lexes
  <2>2. EofLast'
    <3>1. \A i \in 1..Len(ls'.prevToken) : FALSE
      BY <1>1, EmptyQueue
    <3> QED
      BY <3>1 DEF EofLast
  <2>3. Positions'
    BY <1>1, <2>1 DEF Positions
  <2>4. Spaces' /\ Blocks' /\ FirstLine'
    BY <1>1, <2>1 DEF Spaces, Blocks, FirstLine
  <2> QED
    BY <2>2, <2>3, <2>4
<1>5. OfThisFile'
  BY <1>1 DEF EndsLine, OfThisFile
<1> QED
  BY <1>2, <1>3, <1>4, <1>5 DEF IInv

LEMMA NewLineIInv == IInv /\ NewLine => IInv'
<1> SUFFICES ASSUME IInv, NewLine PROVE IInv'
  OBVIOUS
<1> DEFINE state == [ls EXCEPT !.spaces = 0]
<1>1. ls \in LexerStates /\ SameQueue(state) /\ SameFlags(state) /\ state.spaces = 0
  BY Assigned DEF IInv, Types, SameQueue, SameFlags, LexerStates
<1>2. ~server => /\ state.noMoreImports => "colon" \in seen
                 /\ state.gotView \/ (IF ls.gotView THEN "view" ELSE "file") = "view" => "view" \in seen
                 /\ state.parens # 0 => "paren" \in seen
  BY <1>1 DEF IInv, OfThisFile, SameFlags
<1> HIDE DEF state
<1> QED
  BY <1>1, <1>2, EndsLineIInv DEF NewLine, state

LEMMA BlankOrCommentIInv == IInv /\ BlankOrComment => IInv'
<1> SUFFICES ASSUME IInv, BlankOrComment PROVE IInv'
  OBVIOUS
<1> DEFINE state == [ls EXCEPT !.spaces = 0]
<1>1. ls \in LexerStates /\ SameQueue(state) /\ SameFlags(state) /\ state.spaces = 0
  BY Assigned DEF IInv, Types, SameQueue, SameFlags, LexerStates
<1>2. ~server => /\ state.noMoreImports => "colon" \in seen
                 /\ state.gotView \/ mode = "view" => "view" \in seen
                 /\ state.parens # 0 => "paren" \in seen
  BY <1>1 DEF IInv, OfThisFile, SameFlags
<1>3. mode \in {"file", "view"}
  BY DEF IInv, Types
<1> HIDE DEF state
<1> QED
  BY <1>1, <1>2, <1>3, EndsLineIInv DEF BlankOrComment, state

LEMMA E_NLIInv == IInv /\ E_NL => IInv'
<1> SUFFICES ASSUME IInv, E_NL PROVE IInv'
  OBVIOUS
<1> DEFINE state == [ls EXCEPT !.spaces = 0]
           closed == [ls EXCEPT !.spaces = 0, !.gotView = FALSE]
<1>1. ls \in LexerStates /\ SameQueue(state) /\ SameFlags(state) /\ state.spaces = 0
  BY Assigned DEF IInv, Types, SameQueue, SameFlags, LexerStates
<1>2. /\ SameQueue(closed) /\ closed.spaces = 0 /\ closed.gotView = FALSE
      /\ closed.parens = ls.parens /\ closed.noMoreImports = ls.noMoreImports
  BY <1>1 DEF SameQueue, LexerStates
<1>3. mode = "view"
  BY DEF E_NL, Lexes
<1>4. ~server => /\ state.noMoreImports => "colon" \in seen
                 /\ state.gotView \/ "view" = "view" => "view" \in seen
                 /\ state.parens # 0 => "paren" \in seen
  BY <1>1, <1>3 DEF IInv, OfThisFile, SameFlags
<1>5. ~server => /\ closed.noMoreImports => "colon" \in seen
                 /\ closed.gotView \/ "file" = "view" => "view" \in seen
                 /\ closed.parens # 0 => "paren" \in seen
  BY <1>2 DEF IInv, OfThisFile
<1>6. Lexes({"view"}, {"line"})
      /\ (EndsLine(closed, "other", "file") \/ EndsLine(state, "other", "view"))
  BY DEF E_NL
<1> HIDE DEF state, closed
<1>7. CASE EndsLine(closed, "other", "file")
  BY <1>2, <1>5, <1>6, <1>7, EndsLineIInv
<1>8. CASE EndsLine(state, "other", "view")
  BY <1>1, <1>4, <1>6, <1>8, EndsLineIInv
<1> QED
  BY <1>6, <1>7, <1>8

LEMMA E_DOT_NAME_NLIInv == IInv /\ E_DOT_NAME_NL => IInv'
<1> SUFFICES ASSUME IInv, E_DOT_NAME_NL PROVE IInv'
  OBVIOUS
<1>1. SameQueue(ls)
  BY DEF IInv, Types, SameQueue
<1>2. ~server => /\ ls.noMoreImports => "colon" \in seen
                 /\ ls.gotView \/ mode = "view" => "view" \in seen
                 /\ ls.parens # 0 => "paren" \in seen
  BY DEF IInv, OfThisFile
<1>3. mode \in {"file", "view"}
  BY DEF IInv, Types
<1> QED
  BY <1>1, <1>2, <1>3, EndsLineIInv DEF E_DOT_NAME_NL

LEMMA CommentIInv == IInv /\ Comment => IInv'
<1> SUFFICES ASSUME IInv, Comment PROVE IInv'
  OBVIOUS
<1>1. /\ ls' \in LexerStates /\ ls'.level = ls.level /\ ls'.prevToken = ls.prevToken
      /\ ls'.gotNewLine = ls.gotNewLine /\ ls'.gotView = ls.gotView /\ ls'.parens = ls.parens
      /\ ls'.noMoreImports = ls.noMoreImports
  BY Assigned DEF Comment, IInv, Types, LexerStates
<1>2. ls.prevToken = <<>> /\ next = "" /\ next' = "" /\ at' = "comment"
      /\ at \in {"start", "line"} /\ UNCHANGED <<mode, column, line, seen, server>>
  BY DEF Comment, Lexes, text
<1>3. Types' /\ Increasing(ls'.level)
  BY <1>1, <1>2 DEF IInv, Types
<1>4. \A i \in 1..Len(ls'.prevToken) : FALSE
  BY <1>1, <1>2, EmptyQueue
<1>5. EofLast'
  BY <1>4 DEF EofLast
<1>6. Positions' /\ Spaces' /\ Blocks' /\ FirstLine'
  <2>1. Positions'
    BY <1>1, <1>2 DEF IInv, Positions
  <2>2. Spaces' /\ Blocks'
    BY <1>1, <1>2 DEF IInv, Spaces, Blocks
  <2>3. FirstLine'
    BY <1>1, <1>2 DEF IInv, FirstLine
  <2> QED
    BY <2>1, <2>2, <2>3
<1>7. OfThisFile'
  BY <1>1, <1>2 DEF IInv, OfThisFile
<1> QED
  BY <1>3, <1>5, <1>6, <1>7 DEF IInv

\* What KeepsOrReturns assigns; state is the one the token's action leaves.
LEMMA KeepsOrReturnsAssigns ==
  ASSUME NEW state, SameQueue(state), NEW token \in {"HIDDEN", "TOKEN", "EOF"},
         KeepsOrReturns(state, token)
  PROVE  /\ ls' \in LexerStates /\ ls'.level = ls.level /\ ls'.prevToken = ls.prevToken
         /\ ls'.gotNewLine = state.gotNewLine /\ ls'.gotView = state.gotView
         /\ ls'.parens = state.parens /\ ls'.noMoreImports = state.noMoreImports
         /\ (state.gotNewLine \/ token = "EOF") => next' = token
         /\ ~(state.gotNewLine \/ token = "EOF") => next' = next
         /\ token = "TOKEN" => ls'.spaces = state.spaces
         /\ token = "EOF" => ls'.spaces = 0
         /\ token = "HIDDEN" => ls'.spaces = IF state.gotNewLine THEN state.spaces ELSE 0
<1>1. state \in LexerStates /\ state.level = ls.level /\ state.prevToken = ls.prevToken
  BY DEF SameQueue
<1>2. CASE state.gotNewLine \/ token = "EOF"
  <2>1. ls' = [state EXCEPT !.spaces = IF token = "EOF" THEN 0 ELSE @] /\ next' = token
    BY <1>2 DEF KeepsOrReturns
  <2>2. (IF token = "EOF" THEN 0 ELSE state.spaces) \in Columns \cup {0}
    BY <1>1 DEF LexerStates
  <2> QED
    BY <1>1, <1>2, <2>1, <2>2 DEF LexerStates
<1>3. CASE ~(state.gotNewLine \/ token = "EOF")
  <2>1. ls' = [state EXCEPT !.spaces = IF token = "HIDDEN" THEN 0 ELSE @] /\ next' = next
    BY <1>3 DEF KeepsOrReturns
  <2>2. (IF token = "HIDDEN" THEN 0 ELSE state.spaces) \in Columns \cup {0}
    BY <1>1 DEF LexerStates
  <2> QED
    BY <1>1, <1>3, <2>1, <2>2 DEF LexerStates
<1> QED
  BY <1>2, <1>3

LEMMA TokenIInv ==
  ASSUME IInv, NEW modes, NEW kinds, NEW state, SameQueue(state),
         state.spaces = ls.spaces, state.gotNewLine = ls.gotNewLine, Token(modes, state, kinds),
         ~server => /\ state.noMoreImports => "colon" \in seen \cup kinds
                    /\ state.gotView \/ mode = "view" => "view" \in seen \cup kinds
                    /\ state.parens # 0 => "paren" \in seen \cup kinds
  PROVE  IInv'
<1>1. /\ ls' \in LexerStates /\ ls'.level = ls.level /\ ls'.prevToken = ls.prevToken
      /\ ls'.gotNewLine = ls.gotNewLine /\ ls'.gotView = state.gotView
      /\ ls'.parens = state.parens /\ ls'.noMoreImports = state.noMoreImports
      /\ ls.gotNewLine => next' = "TOKEN"
      /\ ~ls.gotNewLine => next' = ""
      /\ ls'.spaces = ls.spaces
  BY KeepsOrReturnsAssigns DEF Token, Lexes
<1>2. /\ ls.prevToken = <<>> /\ next = "" /\ at' = "line" /\ at \in {"start", "indented", "line"}
      /\ seen' = seen \cup kinds /\ UNCHANGED <<mode, column, line, server>>
  BY DEF Token, Lexes
<1>3. Types' /\ Increasing(ls'.level)
  BY <1>1, <1>2 DEF IInv, Types
<1>4. EofLast'
  <2>1. \A i \in 1..Len(ls'.prevToken) : FALSE
    BY <1>1, <1>2, EmptyQueue
  <2> QED
    BY <2>1 DEF EofLast
<1>5. Positions'
  BY <1>1, <1>2 DEF IInv, Positions
<1>6. Spaces'
  BY <1>1, <1>2 DEF IInv, Types, Positions, Spaces, FirstLine
<1>7. Blocks'
  BY <1>1, <1>2 DEF IInv, Types, Positions, Blocks
<1>8. FirstLine'
  BY <1>1, <1>2 DEF IInv, Positions, FirstLine
<1>9. OfThisFile'
  BY <1>1, <1>2 DEF OfThisFile
<1> QED
  BY <1>3, <1>4, <1>5, <1>6, <1>7, <1>8, <1>9 DEF IInv

\* The tokens whose actions set a flag.
LEMMA TokensIInv ==
  IInv /\ (PlainToken \/ COLON \/ VIEW \/ ABSTRACT \/ E_OPEN_PAREN \/ E_CLOSE_PAREN) => IInv'
<1> SUFFICES ASSUME IInv,
                    PlainToken \/ COLON \/ VIEW \/ ABSTRACT \/ E_OPEN_PAREN \/ E_CLOSE_PAREN
             PROVE  IInv'
  OBVIOUS
<1>1. ls \in LexerStates
  BY DEF IInv, Types
<1>2. ~server => /\ ls.noMoreImports => "colon" \in seen
                 /\ ls.gotView \/ mode = "view" => "view" \in seen
                 /\ ls.parens # 0 => "paren" \in seen
  BY DEF IInv, OfThisFile
<1>3. CASE PlainToken
  <2>1. SameQueue(ls)
    BY <1>1 DEF SameQueue
  <2> QED
    BY <1>2, <1>3, <2>1, TokenIInv DEF PlainToken
<1>4. CASE COLON
  <2> DEFINE state == [ls EXCEPT !.noMoreImports = TRUE]
  <2>1. /\ SameQueue(state) /\ state.spaces = ls.spaces /\ state.gotNewLine = ls.gotNewLine
        /\ state.gotView = ls.gotView /\ state.parens = ls.parens
    BY <1>1 DEF SameQueue, LexerStates
  <2>2. Token({"file"}, state, {"colon"})
    BY <1>4 DEF COLON
  <2> HIDE DEF state
  <2> QED
    BY <1>2, <2>1, <2>2, TokenIInv
<1>5. CASE VIEW
  <2> DEFINE state == [ls EXCEPT !.gotView = TRUE]
  <2>1. /\ SameQueue(state) /\ state.spaces = ls.spaces /\ state.gotNewLine = ls.gotNewLine
        /\ state.noMoreImports = ls.noMoreImports /\ state.parens = ls.parens
    BY <1>1 DEF SameQueue, LexerStates
  <2>2. Token({"file"}, state, {"view"})
    BY <1>5 DEF VIEW
  <2> HIDE DEF state
  <2> QED
    BY <1>2, <2>1, <2>2, TokenIInv
<1>6. CASE ABSTRACT
  <2> DEFINE state == [ls EXCEPT !.gotView = FALSE]
  <2>1. /\ SameQueue(state) /\ state.spaces = ls.spaces /\ state.gotNewLine = ls.gotNewLine
        /\ state.noMoreImports = ls.noMoreImports /\ state.parens = ls.parens /\ state.gotView = FALSE
    BY <1>1 DEF SameQueue, LexerStates
  <2>2. Token({"file"}, state, {})
    BY <1>6 DEF ABSTRACT
  <2>3. mode = "file"
    BY <2>2 DEF Token, Lexes
  <2> HIDE DEF state
  <2> QED
    BY <1>2, <2>1, <2>2, <2>3, TokenIInv
<1>7. CASE E_OPEN_PAREN \/ E_CLOSE_PAREN
  <2> DEFINE opened == [ls EXCEPT !.parens = @ + 1]
             closed == [ls EXCEPT !.parens = @ - 1]
  <2>1. /\ SameQueue(opened) /\ opened.spaces = ls.spaces /\ opened.gotNewLine = ls.gotNewLine
        /\ opened.noMoreImports = ls.noMoreImports /\ opened.gotView = ls.gotView
    BY <1>1 DEF SameQueue, LexerStates
  <2>2. /\ SameQueue(closed) /\ closed.spaces = ls.spaces /\ closed.gotNewLine = ls.gotNewLine
        /\ closed.noMoreImports = ls.noMoreImports /\ closed.gotView = ls.gotView
    BY <1>1 DEF SameQueue, LexerStates
  <2>3. Token({"view"}, opened, {"paren"}) \/ Token({"view"}, closed, {"paren"})
    BY <1>7 DEF E_OPEN_PAREN, E_CLOSE_PAREN
  <2> HIDE DEF opened, closed
  <2>4. CASE Token({"view"}, opened, {"paren"})
    BY <1>2, <2>1, <2>4, TokenIInv
  <2>5. CASE Token({"view"}, closed, {"paren"})
    BY <1>2, <2>2, <2>5, TokenIInv
  <2> QED
    BY <2>3, <2>4, <2>5
<1> QED
  BY <1>3, <1>4, <1>5, <1>6, <1>7

LEMMA BlanksIInv == IInv /\ Blanks => IInv'
<1> SUFFICES ASSUME IInv, Blanks PROVE IInv'
  OBVIOUS
<1>1. PICK width \in Columns :
        /\ KeepsOrReturns([ls EXCEPT !.spaces = width], "HIDDEN")
        /\ column' = IF at = "start" THEN width ELSE column
  BY DEF Blanks
<1> DEFINE state == [ls EXCEPT !.spaces = width]
<1>2. SameQueue(state) /\ SameFlags(state) /\ state.spaces = width /\ state.gotNewLine = ls.gotNewLine
  BY Assigned DEF IInv, Types, SameQueue, SameFlags, LexerStates
<1>3. KeepsOrReturns(state, "HIDDEN")
  BY <1>1
<1> HIDE DEF state
<1>4. /\ ls' \in LexerStates /\ ls'.level = ls.level /\ ls'.prevToken = ls.prevToken
      /\ ls'.gotNewLine = ls.gotNewLine /\ ls'.gotView = ls.gotView
      /\ ls'.parens = ls.parens /\ ls'.noMoreImports = ls.noMoreImports
      /\ ls.gotNewLine => next' = "HIDDEN"
      /\ ~ls.gotNewLine => next' = ""
      /\ ls'.spaces = IF ls.gotNewLine THEN width ELSE 0
  BY <1>2, <1>3, KeepsOrReturnsAssigns DEF Blanks, Lexes, SameFlags
<1>5. /\ ls.prevToken = <<>> /\ next = "" /\ at \in {"start", "line"}
      /\ at' = IF at = "start" THEN "indented" ELSE at
      /\ UNCHANGED <<mode, line, seen, server>>
  BY DEF Blanks, Lexes
<1>6. Types' /\ Increasing(ls'.level)
  BY <1>1, <1>4, <1>5 DEF IInv, Types
<1>7. EofLast'
  <2>1. \A i \in 1..Len(ls'.prevToken) : FALSE
    BY <1>4, <1>5, EmptyQueue
  <2> QED
    BY <2>1 DEF EofLast
<1>8. Positions'
  BY <1>4, <1>5 DEF IInv, Positions
<1>9. Spaces'
  BY <1>1, <1>4, <1>5 DEF IInv, Positions, Spaces
<1>10. Blocks'
  BY <1>1, <1>4, <1>5 DEF IInv, Types, Positions, Blocks
<1>11. FirstLine'
  BY <1>4, <1>5 DEF IInv, Positions, FirstLine
<1>12. OfThisFile'
  BY <1>4, <1>5 DEF IInv, OfThisFile
<1> QED
  BY <1>6, <1>7, <1>8, <1>9, <1>10, <1>11, <1>12 DEF IInv

LEMMA EndOfFileIInv == IInv /\ EndOfFile => IInv'
<1> SUFFICES ASSUME IInv, EndOfFile PROVE IInv'
  OBVIOUS
<1>1. SameQueue(ls)
  BY DEF IInv, Types, SameQueue
<1>2. /\ ls' \in LexerStates /\ ls'.level = ls.level /\ ls'.prevToken = ls.prevToken
      /\ ls'.gotNewLine = ls.gotNewLine /\ ls'.gotView = ls.gotView
      /\ ls'.parens = ls.parens /\ ls'.noMoreImports = ls.noMoreImports
      /\ next' = "EOF" /\ ls'.spaces = 0
  BY <1>1, KeepsOrReturnsAssigns DEF EndOfFile
<1>3. /\ ls.prevToken = <<>> /\ at \in {"start", "line", "comment"} /\ at' = "eof" /\ next = ""
      /\ UNCHANGED <<mode, column, line, seen, server>>
  BY DEF EndOfFile, Lexes, text
<1>4. Types' /\ Increasing(ls'.level)
  BY <1>2, <1>3 DEF IInv, Types
<1>5. EofLast'
  <2>1. \A i \in 1..Len(ls'.prevToken) : FALSE
    BY <1>2, <1>3, EmptyQueue
  <2> QED
    BY <2>1 DEF EofLast
<1>6. Positions' /\ Spaces' /\ Blocks'
  BY <1>2, <1>3 DEF Positions, Spaces, Blocks
<1>7. FirstLine'
  BY <1>2, <1>3 DEF IInv, FirstLine
<1>8. OfThisFile'
  BY <1>2, <1>3 DEF IInv, OfThisFile
<1> QED
  BY <1>4, <1>5, <1>6, <1>7, <1>8 DEF IInv

-----------------------------------------------------------------------------
\* The loop and the queue

LEMMA AppendNotEof ==
  ASSUME NEW S, NEW queue \in Seq(S), \A i \in 1..Len(queue) : queue[i] # "EOF",
         NEW kind \in S, kind # "EOF"
  PROVE  /\ Append(queue, kind) \in Seq(S)
         /\ \A i \in 1..Len(Append(queue, kind)) : Append(queue, kind)[i] # "EOF"
<1>1. ASSUME NEW i \in 1..Len(Append(queue, kind)) PROVE Append(queue, kind)[i] # "EOF"
  <2>1. CASE i = Len(queue) + 1
    BY <2>1
  <2>2. CASE i \in 1..Len(queue)
    BY <2>2
  <2> QED
    BY <2>1, <2>2
<1> QED
  BY <1>1

\* While the loop runs, the end of the file is not in the queue.
LEMMA QueueWithoutEof ==
  ASSUME IInv, next # "", NEW kind \in {"INDENT", "DEDENT"}
  PROVE  /\ Append(ls.prevToken, kind) \in Seq(TokenKinds)
         /\ \A i \in 1..Len(Append(ls.prevToken, kind)) : Append(ls.prevToken, kind)[i] # "EOF"
<1>1. ls.prevToken \in Seq(TokenKinds) /\ kind \in TokenKinds /\ kind # "EOF"
  BY DEF IInv, Types, LexerStates, TokenKinds
<1>2. \A i \in 1..Len(ls.prevToken) : ls.prevToken[i] # "EOF"
  BY DEF IInv, EofLast
<1> QED
  BY <1>1, <1>2, AppendNotEof

LEMMA IndentIInv == IInv /\ Indent => IInv'
<1> SUFFICES ASSUME IInv, Indent PROVE IInv'
  OBVIOUS
<1>1. /\ next # "" /\ ls.spaces > getPreviousIndent(ls.level)
      /\ ls' = [ls EXCEPT !.level = Append(@, ls.spaces), !.prevToken = Append(@, "INDENT")]
      /\ UNCHANGED <<mode, at, next, column, line, seen, server>>
  BY DEF Indent, text
<1>2. ls \in LexerStates /\ ls.level \in Seq(Columns) /\ Increasing(ls.level)
      /\ ls.spaces \in Columns \cup {0}
  BY DEF IInv, Types, LexerStates
<1>3. ls.spaces \in Columns
  <2>1. getPreviousIndent(ls.level) \in Columns \cup {0}
    BY <1>2, PreviousIndentType
  <2> QED
    BY <1>1, <1>2, <2>1, PastAColumn
<1>4. Append(ls.level, ls.spaces) \in Seq(Columns) /\ Increasing(Append(ls.level, ls.spaces))
  BY <1>1, <1>2, <1>3, PushIncreases
<1> DEFINE queue == Append(ls.prevToken, "INDENT")
<1>5. queue \in Seq(TokenKinds) /\ \A i \in 1..Len(queue) : queue[i] # "EOF"
  BY <1>1, QueueWithoutEof
<1>6. /\ ls' \in LexerStates /\ ls'.level = Append(ls.level, ls.spaces) /\ ls'.prevToken = queue
      /\ ls'.spaces = ls.spaces /\ ls'.gotNewLine = ls.gotNewLine /\ ls'.gotView = ls.gotView
      /\ ls'.parens = ls.parens /\ ls'.noMoreImports = ls.noMoreImports
  BY <1>1, <1>2, <1>4, <1>5 DEF LexerStates
<1> HIDE DEF queue
<1>7. at \notin {"start", "end"}
  BY <1>1 DEF IInv, Positions
<1>8. Types' /\ Increasing(ls'.level)
  BY <1>1, <1>4, <1>6 DEF IInv, Types
<1>9. EofLast'
  BY <1>5, <1>6 DEF EofLast
<1>10. Positions'
  BY <1>1, <1>6, <1>7 DEF IInv, Positions
<1>11. Spaces' /\ Blocks'
  BY <1>1, <1>6 DEF IInv, Spaces, Blocks
<1>12. line # "first"
  <2>1. SUFFICES ASSUME line = "first" PROVE FALSE
    OBVIOUS
  <2>2. ls.level = <<>> /\ next = "EOF"
    BY <1>1, <1>7, <2>1 DEF IInv, FirstLine
  <2>3. ls.spaces = 0
    BY <2>2 DEF IInv, Positions
  <2> QED
    BY <1>3, <2>3, ColumnsPositive
<1>13. FirstLine'
  BY <1>1, <1>12 DEF FirstLine
<1>14. OfThisFile'
  BY <1>1, <1>6 DEF IInv, OfThisFile
<1> QED
  BY <1>8, <1>9, <1>10, <1>11, <1>13, <1>14 DEF IInv

LEMMA DedentIInv == IInv /\ Dedent => IInv'
<1> SUFFICES ASSUME IInv, Dedent PROVE IInv'
  OBVIOUS
<1>1. /\ next # "" /\ ls.spaces < getPreviousIndent(ls.level)
      /\ ls' = [ls EXCEPT !.level = Pop(@), !.prevToken = Append(@, "DEDENT")]
      /\ UNCHANGED <<mode, at, next, column, line, seen, server>>
  BY DEF Dedent, text
<1>2. ls \in LexerStates /\ ls.level \in Seq(Columns) /\ Increasing(ls.level)
      /\ ls.spaces \in Columns \cup {0}
  BY DEF IInv, Types, LexerStates
<1>3. ls.level # <<>>
  <2>1. SUFFICES ASSUME ls.level = <<>> PROVE FALSE
    OBVIOUS
  <2>2. ls.spaces < 0
    BY <1>1, <2>1 DEF getPreviousIndent
  <2> QED
    BY <1>2, <2>2, ColumnsPositive
<1>4. Pop(ls.level) \in Seq(Columns) /\ Increasing(Pop(ls.level))
  BY <1>2, <1>3, PopIncreases
<1> DEFINE queue == Append(ls.prevToken, "DEDENT")
<1>5. queue \in Seq(TokenKinds) /\ \A i \in 1..Len(queue) : queue[i] # "EOF"
  BY <1>1, QueueWithoutEof
<1>6. /\ ls' \in LexerStates /\ ls'.level = Pop(ls.level) /\ ls'.prevToken = queue
      /\ ls'.spaces = ls.spaces /\ ls'.gotNewLine = ls.gotNewLine /\ ls'.gotView = ls.gotView
      /\ ls'.parens = ls.parens /\ ls'.noMoreImports = ls.noMoreImports
  BY <1>1, <1>2, <1>4, <1>5 DEF LexerStates
<1> HIDE DEF queue
<1>7. at \notin {"start", "end"}
  BY <1>1 DEF IInv, Positions
<1>8. Types' /\ Increasing(ls'.level)
  BY <1>1, <1>4, <1>6 DEF IInv, Types
<1>9. EofLast'
  BY <1>5, <1>6 DEF EofLast
<1>10. Positions'
  BY <1>1, <1>6, <1>7 DEF IInv, Positions
<1>11. Spaces' /\ Blocks'
  BY <1>1, <1>6 DEF IInv, Spaces, Blocks
<1>12. line # "first"
  BY <1>3, <1>7 DEF IInv, FirstLine
<1>13. FirstLine'
  BY <1>1, <1>12 DEF FirstLine
<1>14. OfThisFile'
  BY <1>1, <1>6 DEF IInv, OfThisFile
<1> QED
  BY <1>8, <1>9, <1>10, <1>11, <1>13, <1>14 DEF IInv

LEMMA HeadAndTail ==
  ASSUME NEW S, NEW queue \in Seq(S), queue # <<>>
  PROVE  /\ Tail(queue) \in Seq(S) /\ Head(queue) = queue[1] /\ Len(queue) \in Nat \ {0}
         /\ Len(Tail(queue)) = Len(queue) - 1
         /\ \A i \in 1..Len(Tail(queue)) : Tail(queue)[i] = queue[i + 1]
<1>1. Len(queue) \in Nat \ {0}
  BY EmptySeq
<1>2. Head(queue) = queue[1]
  OBVIOUS
<1> QED
  BY <1>1, <1>2, HeadTailProperties

\* A token that only comes last is not before another one.
LEMMA OnlyLast ==
  ASSUME NEW S, NEW queue \in Seq(S), NEW rest \in Seq(S), NEW token,
         Len(queue) \in Nat \ {0}, Len(rest) = Len(queue) - 1,
         \A i \in 1..Len(rest) : rest[i] = queue[i + 1],
         \A i \in 1..Len(queue) : queue[i] = token => i = Len(queue)
  PROVE  /\ queue[1] = token => rest = <<>>
         /\ \A i \in 1..Len(rest) : rest[i] = token =>
              i = Len(rest) /\ queue[1] # token /\ queue[Len(queue)] = token
<1>1. queue[1] = token => rest = <<>>
  <2>1. SUFFICES ASSUME queue[1] = token PROVE rest = <<>>
    OBVIOUS
  <2>2. Len(rest) = 0
    BY <2>1
  <2> QED
    BY <2>2, EmptySeq
<1>2. ASSUME NEW i \in 1..Len(rest), rest[i] = token
      PROVE  i = Len(rest) /\ queue[1] # token /\ queue[Len(queue)] = token
  <2>1. i \in Nat /\ i >= 1 /\ i + 1 \in 1..Len(queue)
    OBVIOUS
  <2>2. queue[i + 1] = token
    BY <1>2
  <2>3. i + 1 = Len(queue)
    BY <2>1, <2>2
  <2> QED
    BY <2>1, <2>2, <2>3
<1> QED
  BY <1>1, <1>2

\* What is known of a token that only comes last is known when it is delivered.
LEMMA KnownOfLast ==
  ASSUME NEW S, NEW queue \in Seq(S), queue # <<>>, NEW token, NEW P \in BOOLEAN,
         \A i \in 1..Len(queue) : queue[i] = token => i = Len(queue) /\ P
  PROVE  /\ Head(queue) = token => Tail(queue) = <<>> /\ P
         /\ \A i \in 1..Len(Tail(queue)) : Tail(queue)[i] = token =>
              i = Len(Tail(queue)) /\ Head(queue) # token /\ P
<1> DEFINE rest == Tail(queue)
           first == Head(queue)
<1>1. /\ rest \in Seq(S) /\ first = queue[1] /\ Len(queue) \in Nat \ {0}
      /\ Len(rest) = Len(queue) - 1 /\ \A i \in 1..Len(rest) : rest[i] = queue[i + 1]
  BY HeadAndTail
<1> HIDE DEF rest, first
<1>2. \A i \in 1..Len(queue) : queue[i] = token => i = Len(queue)
  OBVIOUS
<1>3. /\ first = token => rest = <<>>
      /\ \A i \in 1..Len(rest) : rest[i] = token =>
           i = Len(rest) /\ first # token /\ queue[Len(queue)] = token
  BY <1>1, <1>2, OnlyLast
<1>4. 1 \in 1..Len(queue) /\ Len(queue) \in 1..Len(queue)
  BY <1>1
<1>5. queue[1] = token \/ queue[Len(queue)] = token => P
  BY <1>4
<1>6. /\ first = token => rest = <<>> /\ P
      /\ \A i \in 1..Len(rest) : rest[i] = token => i = Len(rest) /\ first # token /\ P
  BY <1>1, <1>3, <1>5
<1> QED
  BY <1>6 DEF rest, first

\* The parser gets the head of a queue in which the end of the file comes last.
LEMMA DeliversIInv ==
  ASSUME IInv, NEW queue \in Seq(TokenKinds), queue # <<>>, Delivers(queue),
         \A i \in 1..Len(queue) : queue[i] = "EOF" => i = Len(queue) /\ at = "eof",
         at \notin {"start", "end"}, at = "eof" => ls.level = <<>>,
         at \in {"indented", "line", "eof"} => ~(ls.gotNewLine /\ next = ""),
         (at \in {"indented", "line"} /\ line # "first" /\ ~(line = "after dot" /\ column = 0))
           => getPreviousIndent(ls.level) = column
  PROVE  IInv'
<1>1. ls \in LexerStates
  BY DEF IInv, Types
<1>2. Tail(queue) \in Seq(TokenKinds) /\ Head(queue) = queue[1] /\ Len(queue) \in Nat \ {0}
      /\ \A i \in 1..Len(Tail(queue)) : Tail(queue)[i] = queue[i + 1]
      /\ Len(Tail(queue)) = Len(queue) - 1
  BY HeadAndTail
<1>3. /\ ls' = [ls EXCEPT !.prevToken = Tail(queue), !.gotNewLine = @ /\ next = ""]
      /\ at' = IF Head(queue) = "EOF" THEN "end" ELSE at
      /\ next' = "" /\ UNCHANGED <<mode, column, line, seen, server>>
  BY DEF Delivers, text
<1>4. /\ ls' \in LexerStates /\ ls'.level = ls.level /\ ls'.prevToken = Tail(queue)
      /\ ls'.spaces = ls.spaces /\ ls'.gotNewLine = (ls.gotNewLine /\ next = "")
      /\ ls'.gotView = ls.gotView /\ ls'.parens = ls.parens
      /\ ls'.noMoreImports = ls.noMoreImports
  BY <1>1, <1>2, <1>3 DEF LexerStates
<1>5. /\ Head(queue) = "EOF" => Tail(queue) = <<>> /\ at = "eof"
      /\ \A i \in 1..Len(Tail(queue)) : Tail(queue)[i] = "EOF" =>
           i = Len(Tail(queue)) /\ Head(queue) # "EOF" /\ at = "eof"
  BY KnownOfLast
<1>6. Types' /\ Increasing(ls'.level)
  BY <1>3, <1>4 DEF IInv, Types
<1>7. EofLast'
  <2>1. /\ ls'.prevToken = Tail(queue) /\ next' = ""
        /\ Head(queue) # "EOF" => at' = at
    BY <1>3, <1>4
  <2> QED
    BY <1>5, <2>1 DEF EofLast
<1>8. Positions'
  <2>1. /\ at' \in {"eof", "end"} => at = "eof"
        /\ at' = "end" => ls'.prevToken = <<>>
    BY <1>3, <1>4, <1>5
  <2>2. at = "eof" => ls.spaces = 0 /\ ~(ls.gotNewLine /\ next = "") /\ ls.level = <<>>
    BY DEF IInv, Positions
  <2> QED
    BY <1>3, <1>4, <2>1, <2>2 DEF Positions
<1>9. Spaces' /\ Blocks'
  BY <1>3, <1>4 DEF Spaces, Blocks
<1>10. FirstLine'
  BY <1>3, <1>4 DEF IInv, FirstLine
<1>11. OfThisFile'
  BY <1>3, <1>4 DEF IInv, OfThisFile
<1> QED
  BY <1>6, <1>7, <1>8, <1>9, <1>10, <1>11 DEF IInv

LEMMA PollIInv == IInv /\ Poll => IInv'
<1> SUFFICES ASSUME IInv, Poll PROVE IInv'
  OBVIOUS
<1>1. next = "" /\ ls.prevToken # <<>> /\ Delivers(ls.prevToken)
  BY DEF Poll
<1>2. ls.prevToken \in Seq(TokenKinds)
  BY DEF IInv, Types, LexerStates
<1>3. \A i \in 1..Len(ls.prevToken) :
        ls.prevToken[i] = "EOF" => i = Len(ls.prevToken) /\ at = "eof"
  BY DEF IInv, EofLast
<1>4. /\ at \notin {"start", "end"}
      /\ at = "eof" => ls.level = <<>>
      /\ at \in {"indented", "line", "eof"} => ~(ls.gotNewLine /\ next = "")
  BY <1>1 DEF IInv, Positions
<1>5. (at \in {"indented", "line"} /\ line # "first" /\ ~(line = "after dot" /\ column = 0))
        => getPreviousIndent(ls.level) = column
  BY <1>1 DEF IInv, Blocks
<1> QED
  BY <1>1, <1>2, <1>3, <1>4, <1>5, DeliversIInv

LEMMA ReturnsIInv == IInv /\ Returns => IInv'
<1> SUFFICES ASSUME IInv, Returns PROVE IInv'
  OBVIOUS
<1> DEFINE queue == Append(ls.prevToken, next)
<1>1. next # "" /\ ls.spaces = getPreviousIndent(ls.level) /\ Delivers(queue)
  BY DEF Returns
<1>2. ls.prevToken \in Seq(TokenKinds) /\ next \in TokenKinds /\ ls.level \in Seq(Columns)
  BY <1>1 DEF IInv, Types, LexerStates, TokenKinds
<1>3. queue \in Seq(TokenKinds) /\ queue # <<>> /\ Len(queue) = Len(ls.prevToken) + 1
  BY <1>2
<1>4. \A i \in 1..Len(queue) : queue[i] = "EOF" => i = Len(queue) /\ at = "eof"
  <2>1. SUFFICES ASSUME NEW i \in 1..Len(queue), queue[i] = "EOF"
                 PROVE  i = Len(queue) /\ at = "eof"
    OBVIOUS
  <2>2. \A k \in 1..Len(ls.prevToken) : ls.prevToken[k] # "EOF"
    BY <1>1 DEF IInv, EofLast
  <2>3. CASE i = Len(queue)
    <3>1. next = "EOF"
      BY <1>2, <1>3, <2>1, <2>3
    <3> QED
      BY <2>3, <3>1 DEF IInv, Positions
  <2>4. CASE i \in 1..Len(ls.prevToken)
    BY <1>2, <2>1, <2>2, <2>4
  <2> QED
    BY <1>2, <1>3, <2>3, <2>4
<1>5. at \notin {"start", "end"}
  BY <1>1 DEF IInv, Positions
<1>6. at = "eof" => ls.level = <<>>
  <2>1. SUFFICES ASSUME at = "eof", ls.level # <<>> PROVE FALSE
    OBVIOUS
  <2>2. getPreviousIndent(ls.level) \in Columns
    BY <1>2, <2>1 DEF getPreviousIndent
  <2>3. ls.spaces = 0
    BY <2>1 DEF IInv, Positions
  <2>4. 0 \in Columns
    BY <1>1, <2>2, <2>3
  <2> QED
    BY <2>4, ColumnsAssumption
<1>7. (at \in {"indented", "line"} /\ line # "first" /\ ~(line = "after dot" /\ column = 0))
        => getPreviousIndent(ls.level) = column
  <2>1. at \in {"indented", "line"} => next \in {"HIDDEN", "TOKEN"}
    BY <1>1 DEF IInv, Types, Positions
  <2> QED
    BY <1>1, <2>1 DEF IInv, Spaces
<1> HIDE DEF queue
<1> QED
  BY <1>1, <1>3, <1>4, <1>5, <1>6, <1>7, DeliversIInv

LEMMA NextFileIInv == IInv /\ NextFile => IInv'
<1> SUFFICES ASSUME IInv, NextFile PROVE IInv'
  OBVIOUS
<1>1. /\ at = "end" /\ ls' \in {NewLexerState} \cup DeleteLexerState(ls)
      /\ mode' = "file" /\ at' = "start" /\ next' = "" /\ column' = 0 /\ line' = "first"
      /\ seen' = {} /\ UNCHANGED server
  BY DEF NextFile
<1>2. NewLexerState \in LexerStates
  <2>1. <<>> \in Seq(Columns) /\ <<>> \in Seq(TokenKinds)
    OBVIOUS
  <2> QED
    BY <2>1 DEF NewLexerState, LexerStates
<1>3. /\ ls' \in LexerStates /\ ls'.level = <<>> /\ ls'.spaces = 0 /\ ls'.prevToken = <<>>
      /\ ~ls'.gotNewLine
      /\ ~server => ~ls'.gotView /\ ls'.parens = 0 /\ ~ls'.noMoreImports
  <2>1. CASE ls' = NewLexerState
    BY <1>2, <2>1 DEF NewLexerState
  <2>2. CASE server /\ ls' = ls
    BY <1>1, <2>2 DEF IInv, Types, Positions
  <2> QED
    BY <1>1, <2>1, <2>2 DEF DeleteLexerState
<1>4. Types' /\ Increasing(ls'.level)
  BY <1>1, <1>3, EmptyIncreases DEF IInv, Types
<1>5. EofLast'
  <2>1. \A i \in 1..Len(ls'.prevToken) : FALSE
    BY <1>3, EmptyQueue
  <2> QED
    BY <2>1 DEF EofLast
<1>6. Positions'
  BY <1>1, <1>3 DEF Positions
<1>7. Spaces' /\ Blocks' /\ FirstLine' /\ OfThisFile'
  BY <1>1, <1>3 DEF Spaces, Blocks, FirstLine, OfThisFile
<1> QED
  BY <1>4, <1>5, <1>6, <1>7 DEF IInv

-----------------------------------------------------------------------------
\* Theorems

LEMMA NextIInv == IInv /\ [Next]_vars => IInv'
<1> SUFFICES ASSUME IInv, [Next]_vars PROVE IInv'
  OBVIOUS
<1>1. CASE Next
  BY <1>1, NewLineIInv, BlankOrCommentIInv, E_NLIInv, E_DOT_NAME_NLIInv, CommentIInv, BlanksIInv,
     TokensIInv, EndOfFileIInv, IndentIInv, DedentIInv, ReturnsIInv, PollIInv, NextFileIInv
  DEF Next
<1>2. CASE UNCHANGED vars
  <2>1. /\ ls' = ls /\ mode' = mode /\ at' = at /\ next' = next /\ server' = server
        /\ column' = column /\ line' = line /\ seen' = seen
    BY <1>2 DEF vars
  <2>2. Types' /\ Increasing(ls'.level)
    BY <2>1 DEF IInv, Types
  <2>3. EofLast' /\ Positions'
    BY <2>1 DEF IInv, EofLast, Positions
  <2>4. Spaces' /\ Blocks'
    BY <2>1 DEF IInv, Spaces, Blocks
  <2>5. FirstLine' /\ OfThisFile'
    BY <2>1 DEF IInv, FirstLine, OfThisFile
  <2> QED
    BY <2>2, <2>3, <2>4, <2>5 DEF IInv
<1> QED
  BY <1>1, <1>2

\* The inductive invariant holds in all files, whatever lexers were before.
THEOREM SpecIInv == Spec => []IInv
BY InitIInv, NextIInv, PTL DEF Spec

\* Open blocks start in different columns, inner ones to the right of outer ones
\* (lexer_impl.go:181): what the loop of getNextToken needs to end.
THEOREM SpecLevelsIncrease == Spec => []LevelsIncrease
<1>1. IInv => LevelsIncrease
  <2>1. SUFFICES ASSUME IInv PROVE LevelsIncrease
    OBVIOUS
  <2>2. ls.level \in Seq(Columns) /\ Increasing(ls.level)
    BY <2>1 DEF IInv, Types, LexerStates
  <2> QED
    BY <2>2 DEF Increasing, LevelsIncrease
<1> QED
  BY <1>1, SpecIInv, PTL

\* The tokens of a line are in the block of its column.
THEOREM SpecLinesInTheirBlock == Spec => []LinesInTheirBlock
<1>1. IInv => LinesInTheirBlock
  <2> SUFFICES ASSUME IInv, at = "line", next = "", ~(line = "after dot" /\ column = 0)
               PROVE  getPreviousIndent(ls.level) = IF line = "first" THEN 0 ELSE column
    BY DEF LinesInTheirBlock
  <2>1. CASE line = "first"
    BY <2>1, EmptyIncreases DEF IInv, FirstLine
  <2>2. CASE line # "first"
    BY <2>2 DEF IInv, Blocks
  <2> QED
    BY <2>1, <2>2
<1> QED
  BY <1>1, SpecIInv, PTL

\* No lexer starts inside of a block, and where states are deleted none knows of
\* anything that is not in its file.
THEOREM SpecNothingLeftOver == Spec => []NothingLeftOver
<1>1. IInv => NothingLeftOver
  BY DEF IInv, FirstLine, OfThisFile, NothingLeftOver
<1> QED
  BY <1>1, SpecIInv, PTL

-----------------------------------------------------------------------------
\* The blocks that the parser has open, and those that wait

Count(queue, kind) == Cardinality(Of(queue, kind))

\* The queue closes no more blocks than the parser has open; it opens one at most,
\* and the loop is over when it does.
Balances(blocks, queue, level) ==
  LET opens == Count(queue, "INDENT")
      closes == Count(queue, "DEDENT")
  IN  /\ blocks \in Int /\ closes <= blocks /\ opens <= 1
      /\ blocks + opens - closes = Len(level)

Balanced ==
  /\ Balances(depth, ls.prevToken, ls.level)
  /\ (next # "" /\ Count(ls.prevToken, "INDENT") = 1) => ls.spaces = getPreviousIndent(ls.level)

LEMMA OfIsFinite ==
  ASSUME NEW queue, Len(queue) \in Nat, NEW kind
  PROVE  IsFiniteSet(Of(queue, kind)) /\ Count(queue, kind) \in Nat
<1>1. IsFiniteSet(1..Len(queue))
  BY FS_Interval
<1>2. Of(queue, kind) \in SUBSET (1..Len(queue))
  BY DEF Of
<1> QED
  BY <1>1, <1>2, FS_Subset, FS_CardinalityType DEF Count

LEMMA NoneWait == \A kind : Count(<<>>, kind) = 0
<1>1. \A kind : Of(<<>>, kind) = {}
  BY DEF Of
<1> QED
  BY <1>1, FS_EmptySet DEF Count

LEMMA OneMoreWaits ==
  ASSUME NEW queue \in Seq(TokenKinds), NEW token \in TokenKinds
  PROVE  \A kind : Count(Append(queue, token), kind)
                     = IF token = kind THEN Count(queue, kind) + 1 ELSE Count(queue, kind)
<1> DEFINE longer == Append(queue, token)
           n == Len(queue)
<1>1. /\ n \in Nat /\ Len(longer) = n + 1 /\ longer[n + 1] = token
      /\ \A i \in 1..n : longer[i] = queue[i]
  OBVIOUS
<1>2. 1..(n + 1) = 1..n \cup {n + 1} /\ n + 1 \notin 1..n
  BY <1>1
<1> HIDE DEF longer, n
<1> SUFFICES ASSUME NEW kind
             PROVE  Count(longer, kind)
                      = IF token = kind THEN Count(queue, kind) + 1 ELSE Count(queue, kind)
  BY DEF longer
<1>3. n + 1 \notin Of(queue, kind) /\ IsFiniteSet(Of(queue, kind))
  BY <1>1, <1>2, OfIsFinite DEF Of, n
<1>4. CASE token = kind
  <2>1. Of(longer, kind) = Of(queue, kind) \cup {n + 1}
    BY <1>1, <1>2, <1>4 DEF Of, n
  <2> QED
    BY <1>3, <1>4, <2>1, FS_AddElement DEF Count
<1>5. CASE token # kind
  <2>1. Of(longer, kind) = Of(queue, kind)
    BY <1>1, <1>2, <1>5 DEF Of, n
  <2> QED
    BY <1>5, <2>1 DEF Count
<1> QED
  BY <1>4, <1>5

\* What is behind the head waits one place further on.
LEMMA OneLessWaits ==
  ASSUME NEW queue \in Seq(TokenKinds), queue # <<>>
  PROVE  \A kind : Count(queue, kind)
                     = IF Head(queue) = kind THEN Count(Tail(queue), kind) + 1
                       ELSE Count(Tail(queue), kind)
<1> DEFINE rest == Tail(queue)
           n == Len(queue)
<1>1. /\ rest \in Seq(TokenKinds) /\ Head(queue) = queue[1] /\ n \in Nat \ {0}
      /\ Len(rest) = n - 1 /\ \A i \in 1..(n - 1) : rest[i] = queue[i + 1]
  BY HeadAndTail
<1> HIDE DEF rest, n
<1> SUFFICES ASSUME NEW kind
             PROVE  Count(queue, kind)
                      = IF Head(queue) = kind THEN Count(rest, kind) + 1 ELSE Count(rest, kind)
  BY DEF rest
<1> DEFINE A == Of(rest, kind)
           B == Of(queue, kind) \ {1}
           f == [i \in A |-> i + 1]
<1>2. \A i \in A : i \in Nat /\ i + 1 \in B
  BY <1>1 DEF Of, n
<1>3. \A j \in B : j \in Nat /\ j - 1 \in A /\ (j - 1) + 1 = j
  <2>1. ASSUME NEW j \in B PROVE j \in 2..n /\ queue[j] = kind
    BY <1>1 DEF Of, n
  <2>2. ASSUME NEW j \in B PROVE j - 1 \in 1..(n - 1) /\ (j - 1) + 1 = j
    BY <1>1, <2>1
  <2> QED
    BY <1>1, <2>1, <2>2 DEF Of
<1>4. ExistsBijection(A, B)
  <2> HIDE DEF A, B
  <2>1. f \in [A -> B] /\ \A i, j \in A : f[i] = f[j] => i = j
    BY <1>2
  <2>2. \A j \in B : \E i \in A : f[i] = j
    BY <1>3
  <2> QED
    BY <2>1, <2>2 DEF ExistsBijection, Bijection, Injection, IsInjective, Surjection
<1>5. IsFiniteSet(A) /\ Count(rest, kind) \in Nat
  BY <1>1, OfIsFinite
<1>6. Cardinality(B) = Count(rest, kind)
  BY <1>4, <1>5, FS_Bijection DEF Count
<1>7. IsFiniteSet(Of(queue, kind)) /\ Count(queue, kind) \in Nat
  BY <1>1, OfIsFinite DEF n
<1>8. Cardinality(B) = IF 1 \in Of(queue, kind) THEN Count(queue, kind) - 1 ELSE Count(queue, kind)
  BY <1>7, FS_RemoveElement DEF Count
<1>9. 1 \in Of(queue, kind) <=> Head(queue) = kind
  BY <1>1 DEF Of, n
<1> HIDE DEF B
<1> QED
  BY <1>5, <1>6, <1>7, <1>8, <1>9

LEMMA Different == \A x, y \in Nat : x > y \/ x < y => x # y
OBVIOUS

\* An INDENT, or a DEDENT, that goes into a queue without INDENTs.
LEMMA QueuedBalances ==
  ASSUME NEW blocks, NEW queue, NEW level, NEW longer, NEW inner,
         Balances(blocks, queue, level), Count(queue, "INDENT") = 0,
         Count(queue, "DEDENT") \in Nat, Len(level) \in Nat
  PROVE  /\ Count(longer, "INDENT") = 1 /\ Count(longer, "DEDENT") = Count(queue, "DEDENT")
              /\ Len(inner) = Len(level) + 1 => Balances(blocks, longer, inner)
         /\ Count(longer, "INDENT") = 0 /\ Count(longer, "DEDENT") = Count(queue, "DEDENT") + 1
              /\ Len(level) > 0 /\ Len(inner) = Len(level) - 1 => Balances(blocks, longer, inner)
<1> DEFINE c == Count(queue, "DEDENT")
           n == Len(level)
<1>1. blocks \in Int /\ c \in Nat /\ n \in Nat /\ c <= blocks /\ blocks + 0 - c = n
  BY DEF Balances
<1> HIDE DEF c, n
<1>2. blocks + 1 - c = n + 1 /\ 1 <= 1
  BY <1>1
<1>3. n > 0 => blocks + 0 - (c + 1) = n - 1 /\ c + 1 <= blocks /\ 0 <= 1
  BY <1>1
<1> QED
  BY <1>1, <1>2, <1>3 DEF Balances, c, n

LEMMA NothingBalances == Balances(0, <<>>, <<>>)
BY NoneWait DEF Balances

\* A token that is read finds an empty queue and leaves it so.
LexerReads ==
  \/ NewLine \/ BlankOrComment \/ E_NL \/ E_DOT_NAME_NL \/ Comment \/ Blanks
  \/ PlainToken \/ COLON \/ VIEW \/ ABSTRACT \/ E_OPEN_PAREN \/ E_CLOSE_PAREN \/ EndOfFile

LEMMA ReadsQueue ==
  ASSUME IInv, LexerReads
  PROVE  /\ ls.prevToken = <<>> /\ ls'.prevToken = <<>>
         /\ ls'.level = ls.level /\ depth' = depth
<1>1. ls \in LexerStates
  BY DEF IInv, Types
<1>2. ls.prevToken = <<>>
  BY DEF LexerReads, NewLine, BlankOrComment, E_NL, E_DOT_NAME_NL, Comment, Blanks, PlainToken,
         COLON, VIEW, ABSTRACT, E_OPEN_PAREN, E_CLOSE_PAREN, EndOfFile, Token, Lexes
<1>3. depth' = depth
  BY DEF LexerReads, NewLine, BlankOrComment, E_NL, E_DOT_NAME_NL, Comment, Blanks, PlainToken,
         COLON, VIEW, ABSTRACT, E_OPEN_PAREN, E_CLOSE_PAREN, EndOfFile, Token, EndsLine
<1>4. ASSUME NEW state, EndsLine(state, line', mode'),
             state.level = ls.level, state.prevToken = ls.prevToken, state \in LexerStates
      PROVE  ls'.level = ls.level /\ ls'.prevToken = ls.prevToken
  BY <1>4 DEF EndsLine, LexerStates
<1>5. CASE NewLine \/ BlankOrComment \/ E_NL \/ E_DOT_NAME_NL
  BY <1>1, <1>2, <1>5
     DEF NewLine, BlankOrComment, E_NL, E_DOT_NAME_NL, EndsLine, LexerStates
<1>6. CASE Comment
  BY <1>1, <1>2, <1>6 DEF Comment, LexerStates
<1>7. CASE Blanks
  BY <1>1, <1>2, <1>7 DEF Blanks, KeepsOrReturns, LexerStates
<1>8. CASE PlainToken \/ COLON \/ VIEW \/ ABSTRACT
  BY <1>1, <1>2, <1>8 DEF PlainToken, COLON, VIEW, ABSTRACT, Token, KeepsOrReturns, LexerStates
<1>9. CASE E_OPEN_PAREN \/ E_CLOSE_PAREN \/ EndOfFile
  BY <1>1, <1>2, <1>9
     DEF E_OPEN_PAREN, E_CLOSE_PAREN, EndOfFile, Token, KeepsOrReturns, LexerStates
<1> QED
  BY <1>2, <1>3, <1>5, <1>6, <1>7, <1>8, <1>9 DEF LexerReads

LEMMA QueueAndLevel ==
  ASSUME IInv
  PROVE  /\ ls \in LexerStates /\ ls.prevToken \in Seq(TokenKinds) /\ ls.level \in Seq(Columns)
         /\ Len(ls.level) \in Nat
         /\ \A kind : Count(ls.prevToken, kind) \in Nat
<1>1. ls \in LexerStates
  BY DEF IInv, Types
<1>2. ls.prevToken \in Seq(TokenKinds) /\ ls.level \in Seq(Columns)
  BY <1>1 DEF LexerStates
<1>3. Len(ls.level) \in Nat /\ Len(ls.prevToken) \in Nat
  BY <1>2
<1> QED
  BY <1>1, <1>2, <1>3, OfIsFinite

LEMMA IndentBalanced ==
  ASSUME IInv, Balanced, Indent
  PROVE  Balanced'
<1>1. /\ next # "" /\ ls.spaces > getPreviousIndent(ls.level)
      /\ ls' = [ls EXCEPT !.level = Append(@, ls.spaces), !.prevToken = Append(@, "INDENT")]
      /\ next' = next /\ depth' = depth
  BY DEF Indent
<1>2. /\ ls \in LexerStates /\ ls.prevToken \in Seq(TokenKinds) /\ ls.level \in Seq(Columns)
      /\ Len(ls.level) \in Nat /\ \A kind : Count(ls.prevToken, kind) \in Nat
      /\ ls.spaces \in Columns \cup {0}
  BY QueueAndLevel DEF LexerStates
<1>3. /\ ls'.level = Append(ls.level, ls.spaces) /\ ls'.prevToken = Append(ls.prevToken, "INDENT")
      /\ ls'.spaces = ls.spaces
  BY <1>1, <1>2 DEF LexerStates
<1>4. Len(ls'.level) = Len(ls.level) + 1 /\ getPreviousIndent(ls'.level) = ls.spaces
  BY SMTT(60), <1>2, <1>3 DEF getPreviousIndent
<1>5. /\ Count(ls'.prevToken, "INDENT") = Count(ls.prevToken, "INDENT") + 1
      /\ Count(ls'.prevToken, "DEDENT") = Count(ls.prevToken, "DEDENT")
  BY <1>2, <1>3, OneMoreWaits DEF TokenKinds
<1>6. Count(ls.prevToken, "INDENT") = 0
  <2>1. ls.spaces # getPreviousIndent(ls.level)
    <3>1. ls.spaces \in Nat /\ getPreviousIndent(ls.level) \in Nat
      BY <1>2, PreviousIndentType, ColumnsPositive
    <3> QED
      BY <1>1, <3>1, Different
  <2>2. Count(ls.prevToken, "INDENT") # 1
    BY <1>1, <2>1 DEF Balanced
  <2>3. Count(ls.prevToken, "INDENT") <= 1
    BY DEF Balanced, Balances
  <2> QED
    BY <1>2, <2>2, <2>3
<1>7. Balances(depth, ls'.prevToken, ls'.level)
  <2>1. Count(ls'.prevToken, "INDENT") = 1
    BY <1>5, <1>6
  <2> QED
    BY <1>2, <1>4, <1>5, <1>6, <2>1, QueuedBalances DEF Balanced
<1> QED
  BY <1>1, <1>3, <1>4, <1>7 DEF Balanced

LEMMA DedentBalanced ==
  ASSUME IInv, Balanced, Dedent
  PROVE  Balanced'
<1>1. /\ next # "" /\ ls.spaces < getPreviousIndent(ls.level)
      /\ ls' = [ls EXCEPT !.level = Pop(@), !.prevToken = Append(@, "DEDENT")]
      /\ next' = next /\ depth' = depth
  BY DEF Dedent
<1>2. /\ ls \in LexerStates /\ ls.prevToken \in Seq(TokenKinds) /\ ls.level \in Seq(Columns)
      /\ Len(ls.level) \in Nat /\ \A kind : Count(ls.prevToken, kind) \in Nat
      /\ ls.spaces \in Columns \cup {0}
  BY QueueAndLevel DEF LexerStates
<1>3. ls'.level = Pop(ls.level) /\ ls'.prevToken = Append(ls.prevToken, "DEDENT")
  BY <1>1, <1>2 DEF LexerStates
<1>4. ls.level # <<>>
  <2>1. SUFFICES ASSUME ls.level = <<>> PROVE FALSE
    OBVIOUS
  <2>2. ls.spaces < 0
    BY <1>1, <2>1 DEF getPreviousIndent
  <2> QED
    BY <1>2, <2>2, ColumnsPositive
<1>5. Len(ls'.level) = Len(ls.level) - 1 /\ Len(ls.level) > 0
  BY <1>2, <1>3, <1>4 DEF Pop
<1>6. /\ Count(ls'.prevToken, "INDENT") = Count(ls.prevToken, "INDENT")
      /\ Count(ls'.prevToken, "DEDENT") = Count(ls.prevToken, "DEDENT") + 1
  BY <1>2, <1>3, OneMoreWaits DEF TokenKinds
<1>7. Count(ls.prevToken, "INDENT") = 0
  <2>1. ls.spaces # getPreviousIndent(ls.level)
    <3>1. ls.spaces \in Nat /\ getPreviousIndent(ls.level) \in Nat
      BY <1>2, PreviousIndentType, ColumnsPositive
    <3> QED
      BY <1>1, <3>1, Different
  <2>2. Count(ls.prevToken, "INDENT") # 1
    BY <1>1, <2>1 DEF Balanced
  <2>3. Count(ls.prevToken, "INDENT") <= 1
    BY DEF Balanced, Balances
  <2> QED
    BY <1>2, <2>2, <2>3
<1>8. Balances(depth, ls'.prevToken, ls'.level)
  <2>1. Count(ls'.prevToken, "INDENT") = 0
    BY <1>6, <1>7
  <2> QED
    BY <1>2, <1>5, <1>6, <1>7, <2>1, QueuedBalances DEF Balanced
<1>9. Count(ls'.prevToken, "INDENT") # 1
  BY <1>6, <1>7
<1> QED
  BY <1>1, <1>8, <1>9 DEF Balanced

\* Delivering the head moves a block from the queue to the parser.
LEMMA DeliveredBalanced ==
  ASSUME IInv, Balanced, NEW queue \in Seq(TokenKinds), queue # <<>>, Delivers(queue),
         Balances(depth, queue, ls.level)
  PROVE  Balanced'
<1>1. /\ ls' = [ls EXCEPT !.prevToken = Tail(queue), !.gotNewLine = @ /\ next = ""]
      /\ depth' = CASE Head(queue) = "INDENT" -> depth + 1
                    [] Head(queue) = "DEDENT" -> depth - 1
                    [] OTHER -> depth
      /\ next' = ""
  BY DEF Delivers
<1>2. ls \in LexerStates /\ Len(ls.level) \in Nat
  BY QueueAndLevel
<1>3. ls'.prevToken = Tail(queue) /\ ls'.level = ls.level
  BY <1>1, <1>2 DEF LexerStates
<1>4. Tail(queue) \in Seq(TokenKinds) /\ Len(Tail(queue)) \in Nat
  BY HeadAndTail
<1>5. Count(Tail(queue), "INDENT") \in Nat /\ Count(Tail(queue), "DEDENT") \in Nat
  BY <1>4, OfIsFinite
<1>6. /\ depth \in Int /\ Count(queue, "DEDENT") <= depth /\ Count(queue, "INDENT") <= 1
      /\ depth + Count(queue, "INDENT") - Count(queue, "DEDENT") = Len(ls.level)
  BY DEF Balances
<1> DEFINE i == Count(Tail(queue), "INDENT")
           d == Count(Tail(queue), "DEDENT")
<1> SUFFICES /\ depth' \in Int /\ d <= depth' /\ i <= 1
             /\ depth' + i - d = Len(ls.level)
  BY <1>1, <1>3 DEF Balanced, Balances
<1>7. CASE Head(queue) = "INDENT"
  <2>1. /\ Count(queue, "INDENT") = i + 1 /\ Count(queue, "DEDENT") = d
        /\ depth' = depth + 1
    BY <1>1, <1>7, OneLessWaits
  <2> HIDE DEF i, d
  <2> QED
    BY <1>2, <1>5, <1>6, <2>1 DEF i, d
<1>8. CASE Head(queue) = "DEDENT"
  <2>1. /\ Count(queue, "INDENT") = i /\ Count(queue, "DEDENT") = d + 1
        /\ depth' = depth - 1
    BY <1>1, <1>8, OneLessWaits
  <2> QED
    BY <1>2, <1>5, <1>6, <2>1
<1>9. CASE Head(queue) \notin {"INDENT", "DEDENT"}
  <2>1. /\ Count(queue, "INDENT") = i /\ Count(queue, "DEDENT") = d
        /\ depth' = depth
    BY <1>1, <1>9, OneLessWaits
  <2> QED
    BY <1>2, <1>5, <1>6, <2>1
<1> QED
  BY <1>7, <1>8, <1>9

LEMMA NextBalanced ==
  ASSUME IInv, Balanced, [Next]_vars
  PROVE  Balanced'
<1>1. CASE LexerReads
  <2>1. /\ ls.prevToken = <<>> /\ ls'.prevToken = <<>>
        /\ ls'.level = ls.level /\ depth' = depth
    BY <1>1, ReadsQueue
  <2> QED
    <3>1. Count(ls'.prevToken, "INDENT") # 1
      BY <2>1, NoneWait
    <3> QED
      BY <2>1, <3>1 DEF Balanced
<1>2. CASE Indent
  BY <1>2, IndentBalanced
<1>3. CASE Dedent
  BY <1>3, DedentBalanced
<1>4. CASE Returns
  <2> DEFINE queue == Append(ls.prevToken, next)
  <2>1. next # "" /\ Delivers(queue)
    BY <1>4 DEF Returns
  <2>2. ls.prevToken \in Seq(TokenKinds) /\ next \in {"HIDDEN", "TOKEN", "EOF"}
    BY <2>1, QueueAndLevel DEF IInv, Types
  <2>3. queue \in Seq(TokenKinds) /\ queue # <<>>
    <3>1. next \in TokenKinds
      BY <2>2 DEF TokenKinds
    <3> QED
      BY <2>2, <3>1
  <2>4. /\ Count(queue, "INDENT") = Count(ls.prevToken, "INDENT")
        /\ Count(queue, "DEDENT") = Count(ls.prevToken, "DEDENT")
    BY <2>2, OneMoreWaits DEF TokenKinds
  <2>5. Balances(depth, queue, ls.level)
    BY <2>4 DEF Balanced, Balances
  <2> HIDE DEF queue
  <2> QED
    BY <2>1, <2>3, <2>5, DeliveredBalanced
<1>5. CASE Poll
  BY <1>5, QueueAndLevel, DeliveredBalanced DEF Poll, Balanced
<1>6. CASE NextFile
  <2>1. /\ ls' = NewLexerState \/ ls' = ls
        /\ depth' = 0 /\ next' = "" /\ at = "end"
    BY <1>6 DEF NextFile, DeleteLexerState
  <2>2. ls.prevToken = <<>> /\ ls.level = <<>>
    BY <2>1 DEF IInv, Positions
  <2>3. ls'.prevToken = <<>> /\ ls'.level = <<>>
    <3>1. NewLexerState.prevToken = <<>> /\ NewLexerState.level = <<>>
      BY DEF NewLexerState
    <3> QED
      BY <2>1, <2>2, <3>1
  <2> QED
    BY <2>1, <2>3, NothingBalances DEF Balanced
<1>7. CASE UNCHANGED vars
  BY <1>7 DEF vars, Balanced
<1> QED
  BY <1>1, <1>2, <1>3, <1>4, <1>5, <1>6, <1>7 DEF Next, LexerReads

\* The parser never closes a block it has not opened, and has closed all at the end
\* of a file: the INDENT and DEDENT tokens are balanced in every file.
THEOREM SpecBlocksBalance == Spec => []BlocksBalance
<1>1. Init => Balanced
  <2> SUFFICES ASSUME Init PROVE Balanced
    OBVIOUS
  <2>1. ls.prevToken = <<>> /\ ls.level = <<>> /\ depth = 0 /\ next = ""
    BY DEF Init, NewLexerState
  <2> QED
    BY <2>1, NothingBalances DEF Balanced
<1>2. IInv /\ Balanced /\ [Next]_vars => Balanced'
  BY NextBalanced
<1>3. IInv /\ Balanced => BlocksBalance
  <2> SUFFICES ASSUME IInv, Balanced PROVE BlocksBalance
    OBVIOUS
  <2>1. Count(ls.prevToken, "DEDENT") \in Nat
    BY QueueAndLevel
  <2>2. Balances(depth, ls.prevToken, ls.level)
    BY DEF Balanced
  <2>3. depth >= 0
    BY <2>1, <2>2 DEF Balances
  <2>4. at = "end" => depth = 0
    <3> SUFFICES ASSUME at = "end" PROVE depth = 0
      OBVIOUS
    <3>1. ls.prevToken = <<>> /\ ls.level = <<>>
      BY DEF IInv, Positions
    <3>2. Balances(depth, <<>>, <<>>)
      BY <2>2, <3>1
    <3> QED
      BY <3>2, NoneWait DEF Balances
  <2>5. /\ Waiting("INDENT") = Count(ls.prevToken, "INDENT")
        /\ Waiting("DEDENT") = Count(ls.prevToken, "DEDENT")
    BY DEF Waiting, Count
  <2> QED
    BY <2>2, <2>3, <2>4, <2>5 DEF Balances, BlocksBalance
<1> QED
  BY <1>1, <1>2, <1>3, SpecIInv, PTL DEF Spec
=============================================================================
