---------------------------- MODULE LexerProofs -----------------------------
(***************************************************************************)
(* Theorems about module Lexer, for every input and every sequence of      *)
(* calls, resets in the middle of an input and failing allocations         *)
(* included.                                                               *)
(***************************************************************************)
EXTENDS Lexer, FiniteSetTheorems, SequenceTheorems, TLAPS

IInv == TypeOK /\ StackShape

-----------------------------------------------------------------------------
(* The stack of states.                                                      *)

Quotes == {"SINGLE_QUOTE", "DOUBLE_QUOTE", "BACKSLASH"}

LEMMA QuoteStates ==
    DOMAIN QuoteState = {"sq", "dq", "bs"} /\ {QuoteState[c] : c \in DOMAIN QuoteState} = Quotes
  BY DEF QuoteState, Quotes

LEMMA Nested ==
    ASSUME NEW s
    PROVE  s \in Nesting <=>
              \/ s \in {<<"START">>, <<"START", "COMMENT">>, <<"START", "WORD">>}
              \/ s = <<"START", "WORD", "DOUBLE_QUOTE", "DQ_BACKSLASH">>
              \/ \E q \in Quotes : s = <<"START", "WORD", q>>
  BY QuoteStates DEF Nesting

\* The top of each stack.
LEMMA Tops ==
    ASSUME NEW s \in Nesting
    PROVE  \/ s = <<"START">> /\ s[Len(s)] = "START"
           \/ s = <<"START", "COMMENT">> /\ s[Len(s)] = "COMMENT"
           \/ s = <<"START", "WORD">> /\ s[Len(s)] = "WORD"
           \/ s = <<"START", "WORD", "DOUBLE_QUOTE", "DQ_BACKSLASH">> /\ s[Len(s)] = "DQ_BACKSLASH"
           \/ s[Len(s)] \in Quotes /\ s = <<"START", "WORD", s[Len(s)]>>
  <1>1. ASSUME NEW q \in Quotes, s = <<"START", "WORD", q>>
        PROVE  s[Len(s)] = q
    BY <1>1
  <1>2. CASE \E q \in Quotes : s = <<"START", "WORD", q>>
    BY <1>1, <1>2
  <1>3. CASE s \in {<<"START">>, <<"START", "COMMENT">>, <<"START", "WORD">>}
    BY <1>3
  <1>4. CASE s = <<"START", "WORD", "DOUBLE_QUOTE", "DQ_BACKSLASH">>
    BY <1>4
  <1> QED BY <1>2, <1>3, <1>4, Nested

LEMMA NestingIsSeq == \A s \in Nesting : s \in Seq(State)
  <1>1. <<"START">> \in Seq(State) /\ <<"START", "COMMENT">> \in Seq(State) /\ <<"START", "WORD">> \in Seq(State)
    BY DEF State
  <1>2. <<"START", "WORD", "DOUBLE_QUOTE", "DQ_BACKSLASH">> \in Seq(State)
    BY DEF State
  <1>3. ASSUME NEW q \in Quotes PROVE <<"START", "WORD", q>> \in Seq(State)
    <2>1. q \in State
      BY DEF State, Quotes
    <2> QED BY <2>1 DEF State
  <1> QED BY <1>1, <1>2, <1>3, Nested

\* What Pop undoes.
LEMMA PopPush ==
    ASSUME NEW S, NEW s \in Seq(S), NEW e \in S
    PROVE  SubSeq(Append(s, e), 1, Len(Append(s, e)) - 1) = s
  <1>1. /\ Append(s, e) = s \o <<e>> /\ <<e>> \in Seq(S)
        /\ Len(Append(s, e)) = Len(s) + 1 /\ Len(s) \in Nat
    BY AppendIsConcat, AppendProperties, LenProperties
  <1>2. CASE Len(s) = 0
    <2>1. s = <<>> /\ SubSeq(Append(s, e), 1, 0) = <<>>
      BY <1>2, EmptySeq, SubSeqEmpty
    <2> QED BY <2>1, <1>1, <1>2
  <1>3. CASE Len(s) # 0
    <2>1. SubSeq(s \o <<e>>, 1, Len(s)) = SubSeq(s, 1, Len(s))
      BY <1>1, <1>3, SubSeqOfConcat1
    <2> QED BY <2>1, <1>1, SubSeqFull
  <1> QED BY <1>2, <1>3

LEMMA TopStart ==
    ASSUME stack \in Nesting, stack[Len(stack)] = "START"
    PROVE  stack = <<"START">>
  BY Tops DEF Quotes

LEMMA TopComment ==
    ASSUME stack \in Nesting, stack[Len(stack)] = "COMMENT"
    PROVE  stack = <<"START", "COMMENT">> /\ SubSeq(stack, 1, Len(stack) - 1) = <<"START">>
  <1>1. stack = <<"START", "COMMENT">>
    BY Tops DEF Quotes
  <1>2. <<"START">> \in Seq(State) /\ "COMMENT" \in State
    BY DEF State
  <1>3. <<"START", "COMMENT">> = Append(<<"START">>, "COMMENT")
    OBVIOUS
  <1> QED BY <1>1, <1>2, <1>3, PopPush

LEMMA TopWord ==
    ASSUME stack \in Nesting, stack[Len(stack)] = "WORD"
    PROVE  stack = <<"START", "WORD">> /\ SubSeq(stack, 1, Len(stack) - 1) = <<"START">>
  <1>1. stack = <<"START", "WORD">>
    BY Tops DEF Quotes
  <1>2. <<"START">> \in Seq(State) /\ "WORD" \in State
    BY DEF State
  <1>3. <<"START", "WORD">> = Append(<<"START">>, "WORD")
    OBVIOUS
  <1> QED BY <1>1, <1>2, <1>3, PopPush

LEMMA TopQuote ==
    ASSUME stack \in Nesting, NEW q \in Quotes, stack[Len(stack)] = q
    PROVE  stack = <<"START", "WORD", q>> /\ SubSeq(stack, 1, Len(stack) - 1) = <<"START", "WORD">>
  <1>1. stack = <<"START", "WORD", q>>
    BY Tops DEF Quotes
  <1>2. <<"START", "WORD">> \in Seq(State) /\ q \in State
    BY DEF State, Quotes
  <1>3. <<"START", "WORD", q>> = Append(<<"START", "WORD">>, q)
    OBVIOUS
  <1>4. SubSeq(Append(<<"START", "WORD">>, q), 1, Len(Append(<<"START", "WORD">>, q)) - 1) = <<"START", "WORD">>
    BY <1>2, PopPush
  <1> QED BY <1>1, <1>3, <1>4

LEMMA TopDQBackslash ==
    ASSUME stack \in Nesting, stack[Len(stack)] = "DQ_BACKSLASH"
    PROVE  /\ stack = <<"START", "WORD", "DOUBLE_QUOTE", "DQ_BACKSLASH">>
           /\ SubSeq(stack, 1, Len(stack) - 1) = <<"START", "WORD", "DOUBLE_QUOTE">>
  <1>1. stack = <<"START", "WORD", "DOUBLE_QUOTE", "DQ_BACKSLASH">>
    BY Tops DEF Quotes
  <1>2. <<"START", "WORD", "DOUBLE_QUOTE">> \in Seq(State) /\ "DQ_BACKSLASH" \in State
    BY DEF State
  <1>3. <<"START", "WORD", "DOUBLE_QUOTE", "DQ_BACKSLASH">> = Append(<<"START", "WORD", "DOUBLE_QUOTE">>, "DQ_BACKSLASH")
    OBVIOUS
  <1> QED BY <1>1, <1>2, <1>3, PopPush

-----------------------------------------------------------------------------
(* What a character's step leaves behind.                                    *)

\* A step goes on, or it ends with a token; without an error it ends in the first state.
Outcome ==
    /\ text' = text
    /\ pos' \in 0..Len(text) /\ lookahead' \in Char \cup {EOF} /\ line' \in Nat
    /\ stack' \in Nesting /\ buff' \in Seq(TypedChar) /\ start' \in Nat
    /\ \/ reading' = TRUE /\ tokens' = tokens
       \/ /\ reading' = FALSE
          /\ \E t \in Token : tokens' = Append(tokens, t) /\ (t.type # "ERROR" => stack' = <<"START">>)

LEMMA OutcomeKeeps ==
    ASSUME IInv, Outcome
    PROVE  IInv'
  <1>1. tokens' \in Seq(Token)
    <2>1. tokens \in Seq(Token)
      BY DEF IInv, TypeOK
    <2>2. \A t \in Token : Append(tokens, t) \in Seq(Token)
      BY <2>1, AppendProperties
    <2> QED BY <2>1, <2>2 DEF Outcome
  <1>2. TypeOK'
    <2>1. text' \in Seq(Char) /\ pos' \in 0..Len(text')
      BY DEF IInv, TypeOK, Outcome
    <2>2. reading' \in BOOLEAN
      BY DEF Outcome
    <2>3. stack' \in Seq(State)
      BY NestingIsSeq DEF Outcome
    <2> QED BY <1>1, <2>1, <2>2, <2>3 DEF TypeOK, Outcome
  <1>3. ASSUME ~reading', \A n \in 1..Len(tokens') : tokens'[n].type # "ERROR"
        PROVE  stack' = <<"START">>
    <2>1. PICK t \in Token : tokens' = Append(tokens, t) /\ (t.type # "ERROR" => stack' = <<"START">>)
      BY <1>3 DEF Outcome
    <2>2. Len(tokens') = Len(tokens) + 1 /\ tokens'[Len(tokens) + 1] = t /\ Len(tokens) \in Nat
      BY <2>1, AppendProperties, LenProperties DEF IInv, TypeOK
    <2>3. t.type # "ERROR"
      BY <2>2, <1>3
    <2> QED BY <2>1, <2>3
  <1>4. StackShape'
    BY <1>3 DEF StackShape, Outcome
  <1> QED BY <1>2, <1>4 DEF IInv

\* The places and characters that are read.
ReadChar == [char : Char \cup {EOF}, at : Nat]

LEMMA PeekType ==
    ASSUME TypeOK, NEW p \in 0..Len(text)
    PROVE  Peek(p) \in ReadChar /\ Peek(p).char \in Char \cup {EOF} /\ Peek(p).at = p + 1
  <1>1. Len(text) \in Nat /\ \A n \in 1..Len(text) : text[n] \in Char
    BY LenProperties, ElementOfSeq DEF TypeOK
  <1> QED BY <1>1 DEF Peek, ReadChar

LEMMA ReadType ==
    ASSUME TypeOK
    PROVE  /\ getCharacter \in ReadChar /\ getCharacter.at \in Nat /\ getCharacter.char \in Char \cup {EOF}
           /\ Upto(getCharacter.at) \in 0..Len(text)
  <1>1. Len(text) \in Nat /\ pos \in 0..Len(text)
    BY LenProperties DEF TypeOK
  <1>2. getCharacter \in ReadChar
    BY <1>1, PeekType DEF getCharacter, ReadChar, TypeOK
  <1> QED BY <1>1, <1>2 DEF ReadChar, Upto

LEMMA UptoType ==
    ASSUME TypeOK, NEW at \in Nat
    PROVE  Upto(at) \in 0..Len(text)
  <1>1. Len(text) \in Nat
    BY LenProperties DEF TypeOK
  <1> QED BY <1>1 DEF Upto

LEMMA NewlinesType ==
    ASSUME NEW p \in Nat, NEW q \in Nat
    PROVE  Newlines(p, q) \in Nat
  <1>1. IsFiniteSet((p + 1)..q)
    BY FS_Interval
  <1>2. IsFiniteSet({n \in (p + 1)..q : text[n] = "nl"})
    BY <1>1, FS_Subset
  <1> QED BY <1>2, FS_CardinalityType DEF Newlines

LEMMA ConsumeType ==
    ASSUME TypeOK, NEW at \in Nat, NEW la \in Char \cup {EOF}, Consume(at, la)
    PROVE  pos' \in 0..Len(text) /\ lookahead' \in Char \cup {EOF} /\ line' \in Nat
  <1>1. Upto(at) \in 0..Len(text) /\ Len(text) \in Nat
    BY UptoType, LenProperties DEF TypeOK
  <1>2. Newlines(pos, Upto(at)) \in Nat
    BY <1>1, NewlinesType DEF TypeOK
  <1> QED BY <1>1, <1>2 DEF Consume, TypeOK

\* A token that is returned; the stack and the place in the text are still to be shown.
LEMMA TokenEnds ==
    ASSUME TypeOK, NEW type \in TokenType, NEW value \in Seq(TypedChar), NEW from \in Int, NEW to \in Int,
           NEW st \in {"SUCCESS", "ERROR_LEXICAL_ERROR", "ERROR_MALLOC_FAILURE"},
           createToken(type, value, from, to, st),
           pos' \in 0..Len(text) /\ lookahead' \in Char \cup {EOF} /\ line' \in Nat,
           stack' \in Nesting, buff' \in Seq(TypedChar), type # "ERROR" => stack' = <<"START">>
    PROVE  Outcome
  <1> DEFINE t == [type |-> type, value |-> value, from |-> from, to |-> to, st |-> st]
  <1>1. t \in Token /\ t.type = type
    BY DEF Token
  <1>2. tokens' = Append(tokens, t) /\ reading' = FALSE /\ text' = text /\ start' = start
    BY DEF createToken
  <1> HIDE DEF t
  <1> QED BY <1>1, <1>2 DEF Outcome, TypeOK

LEMMA ErrorEnds ==
    ASSUME TypeOK, NEW st \in {"ERROR_LEXICAL_ERROR", "ERROR_MALLOC_FAILURE"}, errorToken(st),
           pos' \in 0..Len(text) /\ lookahead' \in Char \cup {EOF} /\ line' \in Nat,
           stack' \in Nesting
    PROVE  Outcome
  <1>1. "ERROR" \in TokenType /\ <<>> \in Seq(TypedChar)
    BY EmptySeq DEF TokenType
  <1>2. buff' \in Seq(TypedChar) /\ createToken("ERROR", <<>>, pos, pos, st) /\ pos \in Int
    BY DEF errorToken, TypeOK
  <1> QED BY <1>1, <1>2, TokenEnds

LEMMA GoesOn ==
    ASSUME TypeOK, reading, nullToken,
           pos' \in 0..Len(text) /\ lookahead' \in Char \cup {EOF} /\ line' \in Nat,
           stack' \in Nesting, buff' \in Seq(TypedChar), start' \in Nat
    PROVE  Outcome
  BY DEF nullToken, Outcome, TypeOK

LEMMA PushType ==
    ASSUME TypeOK, NEW c \in Char \cup {"bs"}, NEW q \in QuoteType
    PROVE  buff \o <<<<c, q>>>> \in Seq(TypedChar)
  <1>1. <<c, q>> \in TypedChar
    BY DEF TypedChar
  <1>2. <<<<c, q>>>> \in Seq(TypedChar)
    BY <1>1
  <1> QED BY <1>2, ConcatProperties DEF TypeOK

-----------------------------------------------------------------------------
(* The actions.                                                              *)

\* A buffer cannot grow.
LEMMA FailedPush ==
    ASSUME TypeOK, StackShape, NEW at \in Nat, Consume(at, EOF), PushFails
    PROVE  Outcome
  BY ErrorEnds, ConsumeType DEF PushFails, StackShape

LEMMA UnterminatedEnds ==
    ASSUME TypeOK, StackShape, NEW g \in ReadChar, Unterminated(g)
    PROVE  Outcome
  BY ErrorEnds, ConsumeType DEF Unterminated, StackShape, ReadChar

LEMMA ContinuationGoesOn ==
    ASSUME TypeOK, reading, NEW g \in ReadChar, Continuation(g),
           SubSeq(stack, 1, Len(stack) - 1) \in Nesting
    PROVE  Outcome
  <1>1. Upto(g.at) \in 0..Len(text) /\ Len(text) \in Nat
    BY UptoType, LenProperties DEF ReadChar, TypeOK
  <1>2. Newlines(pos, Upto(g.at)) \in Nat
    BY <1>1, NewlinesType DEF TypeOK
  <1>3. pos' \in 0..Len(text) /\ lookahead' \in Char \cup {EOF} /\ line' \in Nat
    BY <1>1, <1>2 DEF Continuation, TypeOK
  <1>4. nullToken /\ stack' \in Nesting /\ buff' = buff /\ start' = start
    BY DEF Continuation, Pop
  <1> QED BY <1>3, <1>4, GoesOn DEF TypeOK

LEMMA OperatorEnds ==
    ASSUME TypeOK, stack = <<"START">>, NEW type \in TokenType, NEW from \in Nat, NEW to \in Nat,
           NEW la \in Char \cup {EOF}, Operator(type, from, to, la)
    PROVE  Outcome
  <1>1. createToken(type, <<>>, from, to, "SUCCESS") /\ stack' = stack /\ buff' = buff
    BY DEF Operator
  <1>2. pos' \in 0..Len(text) /\ lookahead' \in Char \cup {EOF} /\ line' \in Nat
    BY ConsumeType DEF Operator
  <1>3. <<>> \in Seq(TypedChar) /\ buff \in Seq(TypedChar) /\ <<"START">> \in Nesting
    BY EmptySeq, Nested DEF TypeOK
  <1>4. "SUCCESS" \in {"SUCCESS", "ERROR_LEXICAL_ERROR", "ERROR_MALLOC_FAILURE"} /\ from \in Int /\ to \in Int
    OBVIOUS
  <1>5. stack' \in Nesting /\ stack' = <<"START">> /\ buff' \in Seq(TypedChar)
    BY <1>1, <1>3
  <1> QED BY <1>1, <1>2, <1>3, <1>4, <1>5, TokenEnds

LEMMA SpellingTypes ==
    /\ \A c \in DOMAIN Single : Single[c] \in TokenType
    /\ \A c \in DOMAIN Short : Short[c] \in TokenType
    /\ \A p \in DOMAIN Long : Long[p] \in TokenType
    /\ \A c \in DOMAIN Here : Here[c] \in TokenType
    /\ "DLESS" \in TokenType
  BY DEF Single, Short, Long, Here, TokenType

LEMMA handleOperatorEnds ==
    ASSUME TypeOK, stack = <<"START">>, NEW g \in ReadChar, g.char \in DOMAIN Short, handleOperator(g)
    PROVE  Outcome
  <1> DEFINE g2 == Peek(Upto(g.at))
             g3 == Peek(Upto(g2.at))
  <1>1. g.at \in Nat /\ Upto(g.at) \in 0..Len(text) /\ Len(text) \in Nat
    BY UptoType, LenProperties DEF ReadChar, TypeOK
  <1>2. g2.at \in Nat /\ g2.char \in Char \cup {EOF} /\ Upto(g2.at) \in 0..Len(text)
    <2>1. g2.at = Upto(g.at) + 1 /\ g2.char \in Char \cup {EOF}
      BY <1>1, PeekType
    <2>2. g2.at \in Nat
      BY <2>1, <1>1
    <2> QED BY <2>1, <2>2, UptoType
  <1>3. g3.at \in Nat /\ g3.char \in Char \cup {EOF}
    BY <1>1, <1>2, PeekType
  <1>4. \/ \E type \in TokenType : Operator(type, g.at, g2.at, EOF)
        \/ \E type \in TokenType : Operator(type, g.at, g3.at, EOF)
        \/ \E type \in TokenType : Operator(type, g.at, g2.at, g3.char)
        \/ \E type \in TokenType : Operator(type, g.at, g.at, g2.char)
    BY SpellingTypes DEF handleOperator
  <1> HIDE DEF g2, g3
  <1> QED BY <1>1, <1>2, <1>3, <1>4, OperatorEnds

LEMMA StartWordEnds ==
    ASSUME TypeOK, reading, stack = <<"START">>, NEW g \in ReadChar, g.char # EOF, Consume(g.at, EOF), StartWord(g)
    PROVE  Outcome
  <1>1. pos' \in 0..Len(text) /\ lookahead' \in Char \cup {EOF} /\ line' \in Nat
    BY ConsumeType DEF ReadChar
  <1>2. g.at \in Nat /\ <<"START", "WORD">> = Append(<<"START">>, "WORD")
    BY DEF ReadChar
  <1>3. CASE g.char \in DOMAIN QuoteState
    <2>1. QuoteState[g.char] \in Quotes
      BY <1>3, QuoteStates
    <2>2. <<"START", "WORD", QuoteState[g.char]>> = Append(<<"START", "WORD">>, QuoteState[g.char])
      OBVIOUS
    <2>3. stack' = <<"START", "WORD", QuoteState[g.char]>> /\ buff' = buff /\ start' = g.at /\ nullToken
      BY <1>2, <1>3, <2>2 DEF StartWord
    <2>4. stack' \in Nesting /\ buff' \in Seq(TypedChar)
      BY <2>1, <2>3, Nested DEF TypeOK
    <2> QED BY <1>1, <1>2, <2>3, <2>4, GoesOn
  <1>4. CASE g.char \notin DOMAIN QuoteState
    <2>1. /\ stack' = <<"START", "WORD">>
          /\ \/ buff' = buff \o <<<<g.char, "UNQUOTED">>>> /\ start' = g.at /\ nullToken
             \/ errorToken("ERROR_MALLOC_FAILURE")
      BY <1>2, <1>4 DEF StartWord, Push, bufferPush
    <2>2. stack' \in Nesting
      BY <2>1, Nested
    <2>3. CASE buff' = buff \o <<<<g.char, "UNQUOTED">>>> /\ start' = g.at /\ nullToken
      <3>1. g.char \in Char \cup {"bs"} /\ "UNQUOTED" \in QuoteType
        BY DEF ReadChar, QuoteType
      <3>2. buff' \in Seq(TypedChar)
        BY <2>3, <3>1, PushType
      <3> QED BY <1>1, <1>2, <2>2, <2>3, <3>2, GoesOn
    <2>4. CASE errorToken("ERROR_MALLOC_FAILURE")
      BY <1>1, <2>2, <2>4, ErrorEnds
    <2> QED BY <2>1, <2>3, <2>4
  <1> QED BY <1>3, <1>4

\* Each handler, by the state it handles.

LEMMA handleStartEnds ==
    ASSUME IInv, handleStart
    PROVE  Outcome
  <1> DEFINE g == getCharacter
  <1>1. TypeOK /\ StackShape /\ reading /\ stack = <<"START">>
    BY TopStart DEF IInv, handleStart, Handles, StackShape
  <1>2. g \in ReadChar /\ g.at \in Nat /\ g.char \in Char \cup {EOF}
    BY <1>1, ReadType
  <1>3. <<"START">> \in Nesting /\ Append(<<"START">>, "COMMENT") \in Nesting
    <2>1. <<"START", "COMMENT">> = Append(<<"START">>, "COMMENT")
      OBVIOUS
    <2> QED BY <2>1, Nested
  <1>4. buff \in Seq(TypedChar) /\ start \in Nat /\ EOF \in Char \cup {EOF}
    BY <1>1 DEF TypeOK
  <1> HIDE DEF g
  <1>5. CASE g.char = EOF /\ createToken("EOF", <<>>, g.at, g.at, "SUCCESS") /\ Consume(g.at, EOF) /\ UNCHANGED <<stack, buff>>
    <2>1. Operator("EOF", g.at, g.at, EOF)
      BY <1>5 DEF Operator
    <2> QED BY <2>1, <1>1, <1>2, OperatorEnds DEF TokenType
  <1>6. CASE g.char = "#" /\ Push("COMMENT") /\ Consume(g.at, EOF) /\ nullToken /\ UNCHANGED <<buff, start>>
    BY <1>1, <1>2, <1>3, <1>4, <1>6, GoesOn, ConsumeType DEF Push
  <1>7. CASE g.char = "sp" /\ Consume(g.at, EOF) /\ nullToken /\ UNCHANGED <<stack, buff, start>>
    BY <1>1, <1>2, <1>3, <1>4, <1>7, GoesOn, ConsumeType
  <1>8. CASE g.char \in DOMAIN Single /\ Operator(Single[g.char], g.at, g.at, EOF)
    BY <1>1, <1>2, <1>8, OperatorEnds, SpellingTypes
  <1>9. CASE g.char \in DOMAIN Short /\ handleOperator(g)
    BY <1>1, <1>2, <1>9, handleOperatorEnds
  <1>10. CASE g.char # EOF /\ Consume(g.at, EOF) /\ StartWord(g)
    BY <1>1, <1>2, <1>10, StartWordEnds
  <1> QED BY <1>5, <1>6, <1>7, <1>8, <1>9, <1>10 DEF handleStart, g

LEMMA handleCommentEnds ==
    ASSUME IInv, handleComment
    PROVE  Outcome
  <1> DEFINE g == getCharacter
  <1>1. TypeOK /\ reading /\ stack = <<"START", "COMMENT">> /\ SubSeq(stack, 1, Len(stack) - 1) = <<"START">>
    BY TopComment DEF IInv, handleComment, Handles, StackShape
  <1>2. g.at \in Nat /\ g.at \in Int
    BY <1>1, ReadType
  <1>3. <<"START">> \in Nesting /\ <<"START", "COMMENT">> \in Nesting /\ <<>> \in Seq(TypedChar)
        /\ "NEWLINE" \in TokenType /\ "EOF" \in TokenType
    BY Nested, EmptySeq DEF TokenType
  <1>4. buff \in Seq(TypedChar) /\ start \in Nat
    BY <1>1 DEF TypeOK
  <1>5. pos' \in 0..Len(text) /\ lookahead' \in Char \cup {EOF} /\ line' \in Nat
    BY <1>1, <1>2, ConsumeType DEF handleComment
  <1>6. \/ \E t \in {"NEWLINE", "EOF"} : Pop /\ createToken(t, <<>>, g.at, g.at, "SUCCESS") /\ UNCHANGED buff
        \/ nullToken /\ UNCHANGED <<stack, buff, start>>
    BY DEF handleComment
  <1> HIDE DEF g
  <1>7. ASSUME NEW t \in {"NEWLINE", "EOF"}, Pop, createToken(t, <<>>, g.at, g.at, "SUCCESS"), UNCHANGED buff
        PROVE  Outcome
    <2>1. stack' = <<"START">>
      BY <1>1, <1>7 DEF Pop
    <2> QED BY <2>1, <1>1, <1>2, <1>3, <1>4, <1>5, <1>7, TokenEnds
  <1>8. CASE nullToken /\ UNCHANGED <<stack, buff, start>>
    BY <1>1, <1>3, <1>4, <1>5, <1>8, GoesOn
  <1> QED BY <1>6, <1>7, <1>8

LEMMA WordEndsEnds ==
    ASSUME TypeOK, stack = <<"START", "WORD">>, SubSeq(stack, 1, Len(stack) - 1) = <<"START">>,
           NEW g \in ReadChar, WordEnds(g)
    PROVE  Outcome
  <1>1. stack' = <<"START">> /\ <<"START">> \in Nesting
    BY Nested DEF WordEnds, Pop
  <1>2. pos' \in 0..Len(text) /\ lookahead' \in Char \cup {EOF} /\ line' \in Nat
    BY ConsumeType DEF WordEnds, ReadChar
  <1>3. CASE errorToken("ERROR_MALLOC_FAILURE")
    BY <1>1, <1>2, <1>3, ErrorEnds
  <1>4. CASE createToken(wordType(g.char), buff, start, g.at - 1, "SUCCESS") /\ buff' = <<>>
    <2>1. wordType(g.char) \in TokenType /\ "SUCCESS" \in {"SUCCESS", "ERROR_LEXICAL_ERROR", "ERROR_MALLOC_FAILURE"}
      BY DEF wordType, TokenType
    <2>2. buff \in Seq(TypedChar) /\ <<>> \in Seq(TypedChar) /\ start \in Int /\ g.at - 1 \in Int
      BY EmptySeq DEF TypeOK, ReadChar
    <2> QED BY <1>1, <1>2, <1>4, <2>1, <2>2, TokenEnds
  <1> QED BY <1>3, <1>4 DEF WordEnds

LEMMA handleWordEnds ==
    ASSUME IInv, handleWord
    PROVE  Outcome
  <1> DEFINE g == getCharacter
  <1>1. /\ TypeOK /\ StackShape /\ reading
        /\ stack = <<"START", "WORD">> /\ SubSeq(stack, 1, Len(stack) - 1) = <<"START">>
    BY TopWord DEF IInv, handleWord, Handles, StackShape
  <1>2. g \in ReadChar /\ g.at \in Nat /\ g.char \in Char \cup {EOF}
    BY <1>1, ReadType
  <1>3. buff \in Seq(TypedChar) /\ start \in Nat /\ stack \in Nesting
    BY <1>1 DEF TypeOK, StackShape
  <1>4. \/ WordEnds(g)
        \/ /\ g.char \in DOMAIN QuoteState /\ Push(QuoteState[g.char])
           /\ Consume(g.at, EOF) /\ nullToken /\ UNCHANGED <<buff, start>>
        \/ /\ g.char # EOF /\ Consume(g.at, EOF)
           /\ bufferPush(<<<<g.char, "UNQUOTED">>>>) /\ nullToken /\ UNCHANGED <<stack, start>>
        \/ Consume(g.at, EOF) /\ PushFails
    BY DEF handleWord, isWordDelimiter
  <1> HIDE DEF g
  <1>5. CASE WordEnds(g)
    BY <1>1, <1>2, <1>5, WordEndsEnds
  <1>6. CASE /\ g.char \in DOMAIN QuoteState /\ Push(QuoteState[g.char])
             /\ Consume(g.at, EOF) /\ nullToken /\ UNCHANGED <<buff, start>>
    <2>1. QuoteState[g.char] \in Quotes
      BY <1>6, QuoteStates
    <2>2. <<"START", "WORD", QuoteState[g.char]>> = Append(<<"START", "WORD">>, QuoteState[g.char])
      OBVIOUS
    <2>3. stack' \in Nesting
      BY <1>1, <1>6, <2>1, <2>2, Nested DEF Push
    <2> QED BY <1>1, <1>2, <1>3, <1>6, <2>3, GoesOn, ConsumeType
  <1>7. CASE /\ g.char # EOF /\ Consume(g.at, EOF)
             /\ bufferPush(<<<<g.char, "UNQUOTED">>>>) /\ nullToken /\ UNCHANGED <<stack, start>>
    <2>1. buff' \in Seq(TypedChar)
      BY <1>1, <1>2, <1>7, PushType DEF bufferPush, QuoteType
    <2> QED BY <1>1, <1>2, <1>3, <1>7, <2>1, GoesOn, ConsumeType
  <1>8. CASE Consume(g.at, EOF) /\ PushFails
    BY <1>1, <1>2, <1>8, FailedPush
  <1> QED BY <1>4, <1>5, <1>6, <1>7, <1>8

\* A step of a quoting state that reads a character, keeps the stack or leaves the state,
\* and puts nothing or one typed character in the buffer.
LEMMA QuoteGoesOn ==
    ASSUME TypeOK, StackShape, reading, NEW g \in ReadChar, Consume(g.at, EOF), nullToken, start' = start,
           stack' \in Nesting, buff' \in Seq(TypedChar)
    PROVE  Outcome
  BY GoesOn, ConsumeType DEF ReadChar, TypeOK

LEMMA handleBackslashEnds ==
    ASSUME IInv, handleBackslash
    PROVE  Outcome
  <1> DEFINE g == getCharacter
  <1>1. /\ TypeOK /\ StackShape /\ reading
        /\ SubSeq(stack, 1, Len(stack) - 1) = <<"START", "WORD">> /\ <<"START", "WORD">> \in Nesting
    BY TopQuote, Nested DEF IInv, handleBackslash, Handles, StackShape, Quotes
  <1>2. g \in ReadChar /\ g.at \in Nat /\ g.char \in Char \cup {EOF}
    BY <1>1, ReadType
  <1>3. \/ Unterminated(g) \/ Continuation(g)
        \/ /\ g.char # EOF /\ Consume(g.at, EOF)
           /\ bufferPush(<<<<g.char, "ESCAPED">>>>) /\ Pop /\ nullToken /\ UNCHANGED start
        \/ Consume(g.at, EOF) /\ PushFails
    BY DEF handleBackslash
  <1> HIDE DEF g
  <1>4. CASE /\ g.char # EOF /\ Consume(g.at, EOF)
             /\ bufferPush(<<<<g.char, "ESCAPED">>>>) /\ Pop /\ nullToken /\ UNCHANGED start
    <2>1. buff' \in Seq(TypedChar)
      BY <1>1, <1>2, <1>4, PushType DEF bufferPush, QuoteType
    <2> QED BY <1>1, <1>2, <1>4, <2>1, QuoteGoesOn DEF Pop
  <1> QED BY <1>1, <1>2, <1>3, <1>4, UnterminatedEnds, ContinuationGoesOn, FailedPush

LEMMA handleSingleQuoteEnds ==
    ASSUME IInv, handleSingleQuote
    PROVE  Outcome
  <1> DEFINE g == getCharacter
  <1>1. /\ TypeOK /\ StackShape /\ reading /\ stack \in Nesting /\ buff \in Seq(TypedChar)
        /\ SubSeq(stack, 1, Len(stack) - 1) = <<"START", "WORD">> /\ <<"START", "WORD">> \in Nesting
    BY TopQuote, Nested DEF IInv, TypeOK, handleSingleQuote, Handles, StackShape, Quotes
  <1>2. g \in ReadChar /\ g.at \in Nat /\ g.char \in Char \cup {EOF}
    BY <1>1, ReadType
  <1>3. \/ Unterminated(g)
        \/ Consume(g.at, EOF) /\ Pop /\ nullToken /\ UNCHANGED <<buff, start>>
        \/ /\ g.char # EOF /\ Consume(g.at, EOF)
           /\ bufferPush(<<<<g.char, "SINGLE_QUOTED">>>>) /\ nullToken /\ UNCHANGED <<stack, start>>
        \/ Consume(g.at, EOF) /\ PushFails
    BY DEF handleSingleQuote
  <1> HIDE DEF g
  <1>4. CASE Consume(g.at, EOF) /\ Pop /\ nullToken /\ UNCHANGED <<buff, start>>
    BY <1>1, <1>2, <1>4, QuoteGoesOn DEF Pop
  <1>5. CASE /\ g.char # EOF /\ Consume(g.at, EOF)
             /\ bufferPush(<<<<g.char, "SINGLE_QUOTED">>>>) /\ nullToken /\ UNCHANGED <<stack, start>>
    <2>1. buff' \in Seq(TypedChar)
      BY <1>1, <1>2, <1>5, PushType DEF bufferPush, QuoteType
    <2> QED BY <1>1, <1>2, <1>5, <2>1, QuoteGoesOn
  <1> QED BY <1>1, <1>2, <1>3, <1>4, <1>5, UnterminatedEnds, FailedPush

LEMMA handleDoubleQuoteEnds ==
    ASSUME IInv, handleDoubleQuote
    PROVE  Outcome
  <1> DEFINE g == getCharacter
  <1>1. /\ TypeOK /\ StackShape /\ reading /\ stack \in Nesting /\ buff \in Seq(TypedChar)
        /\ stack = <<"START", "WORD", "DOUBLE_QUOTE">>
        /\ SubSeq(stack, 1, Len(stack) - 1) = <<"START", "WORD">> /\ <<"START", "WORD">> \in Nesting
    BY TopQuote, Nested DEF IInv, TypeOK, handleDoubleQuote, Handles, StackShape, Quotes
  <1>2. g \in ReadChar /\ g.at \in Nat /\ g.char \in Char \cup {EOF}
    BY <1>1, ReadType
  <1>3. \/ Unterminated(g)
        \/ Consume(g.at, EOF) /\ Pop /\ nullToken /\ UNCHANGED <<buff, start>>
        \/ Consume(g.at, EOF) /\ Push("DQ_BACKSLASH") /\ nullToken /\ UNCHANGED <<buff, start>>
        \/ /\ g.char # EOF /\ Consume(g.at, EOF)
           /\ bufferPush(<<<<g.char, "DOUBLE_QUOTED">>>>) /\ nullToken /\ UNCHANGED <<stack, start>>
        \/ Consume(g.at, EOF) /\ PushFails
    BY DEF handleDoubleQuote
  <1> HIDE DEF g
  <1>4. CASE Consume(g.at, EOF) /\ Pop /\ nullToken /\ UNCHANGED <<buff, start>>
    BY <1>1, <1>2, <1>4, QuoteGoesOn DEF Pop
  <1>5. CASE Consume(g.at, EOF) /\ Push("DQ_BACKSLASH") /\ nullToken /\ UNCHANGED <<buff, start>>
    <2>1. <<"START", "WORD", "DOUBLE_QUOTE", "DQ_BACKSLASH">> = Append(<<"START", "WORD", "DOUBLE_QUOTE">>, "DQ_BACKSLASH")
      OBVIOUS
    <2>2. stack' \in Nesting
      BY <1>1, <1>5, <2>1, Nested DEF Push
    <2> QED BY <1>1, <1>2, <1>5, <2>2, QuoteGoesOn
  <1>6. CASE /\ g.char # EOF /\ Consume(g.at, EOF)
             /\ bufferPush(<<<<g.char, "DOUBLE_QUOTED">>>>) /\ nullToken /\ UNCHANGED <<stack, start>>
    <2>1. buff' \in Seq(TypedChar)
      BY <1>1, <1>2, <1>6, PushType DEF bufferPush, QuoteType
    <2> QED BY <1>1, <1>2, <1>6, <2>1, QuoteGoesOn
  <1> QED BY <1>1, <1>2, <1>3, <1>4, <1>5, <1>6, UnterminatedEnds, FailedPush

LEMMA DQEscapedType ==
    ASSUME TypeOK, NEW c \in Char
    PROVE  buff \o DQEscaped(c) \in Seq(TypedChar)
  <1>1. <<c, "ESCAPED">> \in TypedChar /\ <<c, "DOUBLE_QUOTED">> \in TypedChar /\ <<"bs", "DOUBLE_QUOTED">> \in TypedChar
    BY DEF TypedChar, QuoteType
  <1>2. DQEscaped(c) \in Seq(TypedChar)
    BY <1>1 DEF DQEscaped
  <1> QED BY <1>2, ConcatProperties DEF TypeOK

LEMMA handleDQBackslashEnds ==
    ASSUME IInv, handleDQBackslash
    PROVE  Outcome
  <1> DEFINE g == getCharacter
  <1>1. /\ TypeOK /\ StackShape /\ reading
        /\ SubSeq(stack, 1, Len(stack) - 1) = <<"START", "WORD", "DOUBLE_QUOTE">>
        /\ <<"START", "WORD", "DOUBLE_QUOTE">> \in Nesting
    BY TopDQBackslash, Nested DEF IInv, handleDQBackslash, Handles, StackShape, Quotes
  <1>2. g \in ReadChar /\ g.at \in Nat /\ g.char \in Char \cup {EOF}
    BY <1>1, ReadType
  <1>3. \/ Unterminated(g) \/ Continuation(g)
        \/ /\ g.char # EOF /\ Consume(g.at, EOF)
           /\ bufferPush(DQEscaped(g.char)) /\ Pop /\ nullToken /\ UNCHANGED start
        \/ Consume(g.at, EOF) /\ PushFails
    BY DEF handleDQBackslash
  <1> HIDE DEF g
  <1>4. CASE /\ g.char # EOF /\ Consume(g.at, EOF)
             /\ bufferPush(DQEscaped(g.char)) /\ Pop /\ nullToken /\ UNCHANGED start
    <2>1. buff' \in Seq(TypedChar)
      BY <1>1, <1>2, <1>4, DQEscapedType DEF bufferPush
    <2> QED BY <1>1, <1>2, <1>4, <2>1, QuoteGoesOn DEF Pop
  <1> QED BY <1>1, <1>2, <1>3, <1>4, UnterminatedEnds, ContinuationGoesOn, FailedPush

-----------------------------------------------------------------------------
(* The invariant.                                                            *)

LEMMA InitIInv == Init => IInv
  <1> SUFFICES ASSUME Init PROVE IInv
    OBVIOUS
  <1>1. text \in Seq(Char) /\ Len(text) \in Nat
    BY LexerAssumption, LenProperties DEF Init
  <1>2. stack \in Nesting /\ stack \in Seq(State)
    BY Nested, NestingIsSeq DEF Init
  <1>3. <<>> \in Seq(TypedChar) /\ <<>> \in Seq(Token)
    BY EmptySeq
  <1>4. TypeOK
    <2>1. pos = 0 /\ line = 1 /\ start = 0 /\ reading = FALSE
      BY DEF Init
    <2>2. lookahead \in Char \cup {EOF} /\ buff \in Seq(TypedChar) /\ tokens \in Seq(Token)
      BY <1>3 DEF Init
    <2>3. pos \in 0..Len(text) /\ line \in Nat /\ start \in Nat
      BY <1>1, <2>1
    <2>4. reading \in BOOLEAN
      BY <2>1
    <2> QED BY <1>1, <1>2, <2>2, <2>3, <2>4 DEF TypeOK
  <1> QED BY <1>2, <1>4 DEF IInv, StackShape, Init

LEMMA getTokenKeeps ==
    ASSUME IInv, getToken
    PROVE  IInv'
  <1>1. <<>> \in Seq(TypedChar)
    BY EmptySeq
  <1>2. TypeOK'
    BY <1>1 DEF IInv, TypeOK, getToken
  <1> QED BY <1>2 DEF IInv, StackShape, getToken

LEMMA lexerResetKeeps ==
    ASSUME IInv, lexerReset
    PROVE  IInv'
  <1>1. text' \in Seq(Char) /\ Len(text') \in Nat
    BY LexerAssumption, LenProperties DEF lexerReset
  <1>2. stack' = <<"START">> /\ stack' \in Nesting /\ stack' \in Seq(State)
    BY Nested, NestingIsSeq DEF lexerReset
  <1>3. <<>> \in Seq(TypedChar) /\ <<>> \in Seq(Token)
    BY EmptySeq
  <1>4. TypeOK'
    BY <1>1, <1>2, <1>3 DEF IInv, TypeOK, lexerReset
  <1> QED BY <1>2, <1>4 DEF IInv, StackShape

LEMMA NextIInv == IInv /\ [Next]_vars => IInv'
  <1> SUFFICES ASSUME IInv, [Next]_vars PROVE IInv'
    OBVIOUS
  <1>1. CASE getToken
    BY <1>1, getTokenKeeps
  <1>2. CASE handleCharacter
    <2>1. Outcome
      BY <1>2, handleStartEnds, handleCommentEnds, handleWordEnds, handleBackslashEnds, handleSingleQuoteEnds,
         handleDoubleQuoteEnds, handleDQBackslashEnds DEF handleCharacter
    <2> QED BY <2>1, OutcomeKeeps
  <1>3. CASE lexerReset
    BY <1>3, lexerResetKeeps
  <1>4. CASE UNCHANGED vars
    <2>1. TypeOK'
      BY <1>4 DEF IInv, TypeOK, vars
    <2>2. StackShape'
      BY <1>4 DEF IInv, StackShape, vars
    <2> QED BY <2>1, <2>2 DEF IInv
  <1> QED BY <1>1, <1>2, <1>3, <1>4 DEF Next

LEMMA Invariance == Spec => []IInv
  BY InitIInv, NextIInv, PTL DEF Spec

\* The lexer's state is well typed for every input, also after errors and resets.
THEOREM TypeCorrect == Spec => []TypeOK
  <1>1. IInv => TypeOK
    BY DEF IInv
  <1> QED BY <1>1, Invariance, PTL

\* The state stack never holds more than four states and never runs empty, so the errors of
\* stackPush, stackPop and stackTop that tokenize.c checks for do not happen; and a token
\* that is no error leaves the lexer in its first state.
THEOREM StackBounded == Spec => []StackShape
  <1>1. IInv => StackShape
    BY DEF IInv
  <1> QED BY <1>1, Invariance, PTL

=============================================================================
