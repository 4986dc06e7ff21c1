------------------------------- MODULE Lexer --------------------------------
(***************************************************************************)
(* The lexer (src/lexical-analysis/tokenize.c): a state machine with a     *)
(* stack of states and one character of lookahead.  Each character that    *)
(* getToken handles is a step.  An error of the stack (full or empty) is   *)
(* left out: StackShape and Lexer's theorems show that there is none.      *)
(***************************************************************************)
EXTENDS Integers, Sequences, FiniteSets

CONSTANTS
    Char,       \* characters; "sp" is a blank or a tab, "nl" a newline, "sq", "dq", "bq" and
                \* "bs" the three quotes and a backslash, the other special ones stand for themselves
    Texts,      \* what the input may hold
    Lines,      \* what the lines after the first one may hold
    MaxEnds     \* how often the caller asks again after the end or an error

EOF == "EOF"    \* fgetc's -1, which also says that there is no lookahead

ASSUME LexerAssumption ==
    /\ EOF \notin Char
    /\ Texts \subseteq Seq(Char) /\ Lines \subseteq Seq(Char)
    /\ MaxEnds \in Nat

VARIABLES
    text, pos,    \* lex->input: what it holds and how much was read
    lookahead,    \* lex->lookahead
    line,         \* lex->line
    stack,        \* lex->token_stack
    buff,         \* lex->char_buff and lex->int8_buff: the characters with their types
    start,        \* where the word in progress starts
    reading,      \* getToken is running
    tokens        \* the tokens returned since the last reset

vars == <<text, pos, lookahead, line, stack, buff, start, reading, tokens>>

QuoteType == {"UNQUOTED", "SINGLE_QUOTED", "DOUBLE_QUOTED", "ESCAPED"}
Digit == {"0", "1", "2", "3", "4", "5", "6", "7", "8", "9"}

-----------------------------------------------------------------------------
(* Characters.                                                               *)

\* A character with the place it was read from; the end stands behind the text.
Peek(p) == [char |-> IF p < Len(text) THEN text[p + 1] ELSE EOF, at |-> p + 1]

getCharacter == IF lookahead # EOF THEN [char |-> lookahead, at |-> pos] ELSE Peek(pos)

Upto(at) == IF at > Len(text) THEN Len(text) ELSE at
Newlines(p, q) == Cardinality({n \in (p + 1)..q : text[n] = "nl"})

\* Everything up to the place at was read, la was put back; a newline counts when it is read.
Consume(at, la) ==
    /\ pos' = Upto(at)
    /\ lookahead' = la
    /\ line' = line + Newlines(pos, Upto(at))

isWordDelimiter(c) == c \in {EOF, "sp", "nl", ";", "&", "|", "<", ">", "(", ")"}

-----------------------------------------------------------------------------
(* How a handler ends.                                                       *)

Handles(state) == reading /\ stack[Len(stack)] = state
Push(state) == stack' = Append(stack, state)
Pop == stack' = SubSeq(stack, 1, Len(stack) - 1)

createToken(type, value, from, to, st) ==
    /\ tokens' = Append(tokens, [type |-> type, value |-> value, from |-> from, to |-> to, st |-> st])
    /\ reading' = FALSE
    /\ UNCHANGED <<text, start>>

errorToken(st) == createToken("ERROR", <<>>, pos, pos, st) /\ UNCHANGED buff

nullToken == UNCHANGED <<text, reading, tokens>>

\* One of the two buffers cannot grow.
PushFails == errorToken("ERROR_MALLOC_FAILURE") /\ UNCHANGED stack

bufferPush(chars) == buff' = buff \o chars

-----------------------------------------------------------------------------
(* STATE_START.                                                              *)

Single == [c \in {"nl", "(", ")", "{", "}", "!"} |->
             CASE c = "nl" -> "NEWLINE" [] c = "(" -> "LPAREN" [] c = ")" -> "RPAREN"
               [] c = "{" -> "LBRACE" [] c = "}" -> "RBRACE" [] c = "!" -> "BANG"]
Short == [c \in {";", "|", "&", ">", "<"} |->
            CASE c = ";" -> "SEMI" [] c = "|" -> "PIPE" [] c = "&" -> "BG"
              [] c = ">" -> "GREAT" [] c = "<" -> "LESS"]
Long == [p \in {<<";", ";">>, <<";", "&">>, <<"|", "|">>, <<"&", "&">>, <<">", ">">>, <<">", "&">>,
                <<">", "|">>, <<"<", "&">>, <<"<", ">">>} |->
           CASE p = <<";", ";">> -> "DOUBLE_SEMI" [] p = <<";", "&">> -> "SEMI_AND"
             [] p = <<"|", "|">> -> "OR_IF" [] p = <<"&", "&">> -> "AND_IF"
             [] p = <<">", ">">> -> "DGREAT" [] p = <<">", "&">> -> "GREATAND"
             [] p = <<">", "|">> -> "CLOBBER" [] p = <<"<", "&">> -> "LESSAND"
             [] p = <<"<", ">">> -> "LESSGREAT"]
Here == [c \in {"<", "-"} |-> IF c = "<" THEN "TLESS" ELSE "DLESSDASH"]

QuoteState == [c \in {"sq", "dq", "bs"} |->
                 CASE c = "sq" -> "SINGLE_QUOTE" [] c = "dq" -> "DOUBLE_QUOTE" [] c = "bs" -> "BACKSLASH"]

\* A token that ends at the place to; la was read behind it and is put back.
Operator(type, from, to, la) ==
    /\ createToken(type, <<>>, from, to, "SUCCESS")
    /\ Consume(IF la = EOF THEN to ELSE to + 1, la)
    /\ UNCHANGED <<stack, buff>>

\* The operators that a second or a third character may prolong.
handleOperator(g) ==
    LET g2 == Peek(Upto(g.at))
        g3 == Peek(Upto(g2.at))
    IN  \/ <<g.char, g2.char>> \in DOMAIN Long /\ Operator(Long[<<g.char, g2.char>>], g.at, g2.at, EOF)
        \/ /\ <<g.char, g2.char>> = <<"<", "<">>
           /\ \/ g3.char \in DOMAIN Here /\ Operator(Here[g3.char], g.at, g3.at, EOF)
              \/ g3.char \notin DOMAIN Here /\ Operator("DLESS", g.at, g2.at, g3.char)
        \/ /\ <<g.char, g2.char>> \notin DOMAIN Long \cup {<<"<", "<">>}
           /\ Operator(Short[g.char], g.at, g.at, g2.char)

\* The first character of a word.
StartWord(g) ==
    \/ /\ g.char \in DOMAIN QuoteState
       /\ stack' = Append(Append(stack, "WORD"), QuoteState[g.char])
       /\ start' = g.at /\ nullToken /\ UNCHANGED buff
    \/ /\ g.char \notin DOMAIN QuoteState
       /\ Push("WORD")
       /\ \/ bufferPush(<<<<g.char, "UNQUOTED">>>>) /\ start' = g.at /\ nullToken
          \/ errorToken("ERROR_MALLOC_FAILURE")

handleStart ==
    LET g == getCharacter
        c == g.char
    IN  /\ Handles("START")
        /\ \/ /\ c = EOF
              /\ createToken("EOF", <<>>, g.at, g.at, "SUCCESS")
              /\ Consume(g.at, EOF) /\ UNCHANGED <<stack, buff>>
           \/ /\ c = "#"
              /\ Push("COMMENT")
              /\ Consume(g.at, EOF) /\ nullToken /\ UNCHANGED <<buff, start>>
           \/ /\ c = "sp"
              /\ Consume(g.at, EOF) /\ nullToken /\ UNCHANGED <<stack, buff, start>>
           \/ c \in DOMAIN Single /\ Operator(Single[c], g.at, g.at, EOF)
           \/ c \in DOMAIN Short /\ handleOperator(g)
           \/ /\ c \notin DOMAIN Single \cup DOMAIN Short \cup {EOF, "#", "sp"}
              /\ Consume(g.at, EOF)
              /\ StartWord(g)

-----------------------------------------------------------------------------
(* The other states.                                                         *)

handleComment_OnlyNewline ==
    LET g == getCharacter
    IN  /\ Handles("COMMENT")
        /\ Consume(g.at, EOF)
        /\ \/ g.char = "nl" /\ Pop /\ createToken("NEWLINE", <<>>, g.at, g.at, "SUCCESS") /\ UNCHANGED buff
           \/ g.char # "nl" /\ nullToken /\ UNCHANGED <<stack, buff, start>>

handleComment ==
    LET g == getCharacter
    IN  /\ Handles("COMMENT")
        /\ Consume(g.at, EOF)
        /\ \/ g.char = "nl" /\ Pop /\ createToken("NEWLINE", <<>>, g.at, g.at, "SUCCESS") /\ UNCHANGED buff
           \/ g.char = EOF /\ Pop /\ createToken("EOF", <<>>, g.at, g.at, "SUCCESS") /\ UNCHANGED buff
           \/ g.char \notin {"nl", EOF} /\ nullToken /\ UNCHANGED <<stack, buff, start>>

\* A word of digits before < or > is the number of a descriptor, quoted or not.
wordType(c) ==
    IF c \in {"<", ">"} /\ \A n \in 1..Len(buff) : buff[n][1] \in Digit THEN "IO_NUM" ELSE "WORD"

\* The delimiter is put back; the token gets copies of the buffers, which may fail (and
\* without the types when it is a number).
WordEnds(g) ==
    /\ isWordDelimiter(g.char)
    /\ Consume(g.at, g.char)
    /\ Pop
    /\ \/ createToken(wordType(g.char), buff, start, g.at - 1, "SUCCESS") /\ buff' = <<>>
       \/ errorToken("ERROR_MALLOC_FAILURE")

handleWord ==
    LET g == getCharacter
    IN  /\ Handles("WORD")
        /\ \/ WordEnds(g)
           \/ /\ g.char \in DOMAIN QuoteState
              /\ Push(QuoteState[g.char])
              /\ Consume(g.at, EOF) /\ nullToken /\ UNCHANGED <<buff, start>>
           \/ /\ ~isWordDelimiter(g.char) /\ g.char \notin DOMAIN QuoteState
              /\ Consume(g.at, EOF)
              /\ \/ bufferPush(<<<<g.char, "UNQUOTED">>>>) /\ nullToken /\ UNCHANGED <<stack, start>>
                 \/ PushFails

\* The text ended inside quotes or behind a backslash.
Unterminated(g) == g.char = EOF /\ Consume(g.at, EOF) /\ errorToken("ERROR_LEXICAL_ERROR") /\ UNCHANGED stack

\* A backslash and a newline are left out; the newline counts twice.
Continuation(g) ==
    /\ g.char = "nl"
    /\ pos' = Upto(g.at) /\ lookahead' = EOF
    /\ line' = line + Newlines(pos, Upto(g.at)) + 1
    /\ Pop /\ nullToken /\ UNCHANGED <<buff, start>>

handleBackslash_KeepsState ==
    LET g == getCharacter
    IN  /\ Handles("BACKSLASH")
        /\ \/ Unterminated(g)
           \/ Continuation(g)
           \/ /\ g.char \notin {EOF, "nl"}
              /\ Consume(g.at, EOF)
              /\ bufferPush(<<<<g.char, "ESCAPED">>>>) /\ nullToken /\ UNCHANGED <<stack, start>>

handleBackslash ==
    LET g == getCharacter
    IN  /\ Handles("BACKSLASH")
        /\ \/ Unterminated(g)
           \/ Continuation(g)
           \/ /\ g.char \notin {EOF, "nl"}
              /\ Consume(g.at, EOF)
              /\ \/ bufferPush(<<<<g.char, "ESCAPED">>>>) /\ Pop /\ nullToken /\ UNCHANGED start
                 \/ PushFails

handleSingleQuote_UntilQuote ==
    LET g == getCharacter
    IN  /\ Handles("SINGLE_QUOTE")
        /\ \/ g.char = "sq" /\ Consume(g.at, EOF) /\ Pop /\ nullToken /\ UNCHANGED <<buff, start>>
           \/ /\ g.char # "sq"
              /\ Consume(g.at, EOF)
              /\ \/ bufferPush(<<<<g.char, "SINGLE_QUOTED">>>>) /\ nullToken /\ UNCHANGED <<stack, start>>
                 \/ PushFails

handleSingleQuote ==
    LET g == getCharacter
    IN  /\ Handles("SINGLE_QUOTE")
        /\ \/ Unterminated(g)
           \/ g.char = "sq" /\ Consume(g.at, EOF) /\ Pop /\ nullToken /\ UNCHANGED <<buff, start>>
           \/ /\ g.char \notin {EOF, "sq"}
              /\ Consume(g.at, EOF)
              /\ \/ bufferPush(<<<<g.char, "SINGLE_QUOTED">>>>) /\ nullToken /\ UNCHANGED <<stack, start>>
                 \/ PushFails

handleDoubleQuote ==
    LET g == getCharacter
    IN  /\ Handles("DOUBLE_QUOTE")
        /\ \/ Unterminated(g)
           \/ g.char = "dq" /\ Consume(g.at, EOF) /\ Pop /\ nullToken /\ UNCHANGED <<buff, start>>
           \/ g.char = "bs" /\ Consume(g.at, EOF) /\ Push("DQ_BACKSLASH") /\ nullToken /\ UNCHANGED <<buff, start>>
           \/ /\ g.char \notin {EOF, "dq", "bs"}
              /\ Consume(g.at, EOF)
              /\ \/ bufferPush(<<<<g.char, "DOUBLE_QUOTED">>>>) /\ nullToken /\ UNCHANGED <<stack, start>>
                 \/ PushFails

Escapable == {"dq", "bs", "$", "bq"}

\* A backslash before an ordinary character stays, and the character comes twice.
DQEscaped(c) ==
    IF c \in Escapable THEN <<<<c, "ESCAPED">>>>
    ELSE <<<<"bs", "DOUBLE_QUOTED">>, <<c, "DOUBLE_QUOTED">>, <<c, "ESCAPED">>>>

handleDQBackslash ==
    LET g == getCharacter
    IN  /\ Handles("DQ_BACKSLASH")
        /\ \/ Unterminated(g)
           \/ Continuation(g)
           \/ /\ g.char \notin {EOF, "nl"}
              /\ Consume(g.at, EOF)
              /\ \/ bufferPush(DQEscaped(g.char)) /\ Pop /\ nullToken /\ UNCHANGED start
                 \/ PushFails

-----------------------------------------------------------------------------
(* The functions the parser and the session call.                            *)

Ends == {n \in 1..Len(tokens) : tokens[n].type \in {"EOF", "ERROR"}}

\* advanceTokens keeps one token in advance, so it goes on after an error.
getToken ==
    /\ ~reading /\ Cardinality(Ends) < MaxEnds
    /\ reading' = TRUE
    /\ buff' = <<>>
    /\ UNCHANGED <<text, pos, lookahead, line, stack, start, tokens>>

handleCharacter ==
    \/ handleStart \/ handleComment \/ handleWord \/ handleBackslash
    \/ handleSingleQuote \/ handleDoubleQuote \/ handleDQBackslash

\* lexerCtor.
Init ==
    /\ text \in Texts
    /\ pos = 0 /\ lookahead = EOF /\ line = 1
    /\ stack = <<"START">> /\ buff = <<>> /\ start = 0
    /\ reading = FALSE /\ tokens = <<>>

lexerReset_KeepsLookahead ==
    /\ ~reading /\ tokens # <<>>
    /\ text' \in Lines
    /\ pos' = 0 /\ line' = 1
    /\ stack' = <<"START">> /\ buff' = <<>> /\ start' = 0
    /\ tokens' = <<>>
    /\ UNCHANGED <<lookahead, reading>>

lexerReset_KeepsState ==
    /\ ~reading /\ tokens # <<>>
    /\ text' \in Lines
    /\ pos' = 0 /\ lookahead' = EOF /\ line' = 1
    /\ buff' = <<>> /\ start' = 0
    /\ tokens' = <<>>
    /\ UNCHANGED <<stack, reading>>

\* runInteractive opens the next line, also when the parser stopped half way in the last.
lexerReset ==
    /\ ~reading /\ tokens # <<>>
    /\ text' \in Lines
    /\ pos' = 0 /\ lookahead' = EOF /\ line' = 1
    /\ stack' = <<"START">> /\ buff' = <<>> /\ start' = 0
    /\ tokens' = <<>>
    /\ UNCHANGED reading

Next == getToken \/ handleCharacter \/ lexerReset

Spec == Init /\ [][Next]_vars /\ WF_vars(handleCharacter)

-----------------------------------------------------------------------------
(* What the tokens of a text are: the ones tokenize.h names, by the rules of *)
(* POSIX (XCU 2.2 and 2.3) on where they begin and end.  Substitutions are   *)
(* left out: $( ), ${ } and backquotes keep no delimiter in a word here.     *)

Least(S) == CHOOSE n \in S : \A m \in S : n <= m

\* The quoting in force behind a character, a word having started unquoted.
Quoting(mode, c) ==
    CASE mode = "none" /\ c \in DOMAIN QuoteState -> c
      [] mode = "sq" /\ c = "sq" -> "none"
      [] mode = "dq" /\ c = "dq" -> "none"
      [] mode = "dq" /\ c = "bs" -> "dqbs"
      [] mode = "bs" -> "none"
      [] mode = "dqbs" -> "dq"
      [] OTHER -> mode

Modes(f) ==
    LET m[n \in (f - 1)..Len(text)] == IF n < f THEN "none" ELSE Quoting(m[n - 1], text[n])
    IN  m

\* The characters that stay of f..e when the quotes are removed, with their types.
QuoteRemoved(f, e) ==
    LET m == Modes(f)
        kept(n) ==
            CASE m[n - 1] = "none" -> IF text[n] \in DOMAIN QuoteState THEN <<>> ELSE <<<<text[n], "UNQUOTED">>>>
              [] m[n - 1] = "sq" -> IF text[n] = "sq" THEN <<>> ELSE <<<<text[n], "SINGLE_QUOTED">>>>
              [] m[n - 1] = "dq" -> IF text[n] \in {"dq", "bs"} THEN <<>> ELSE <<<<text[n], "DOUBLE_QUOTED">>>>
              [] m[n - 1] \in {"bs", "dqbs"} /\ text[n] = "nl" -> <<>>
              [] OTHER -> <<<<text[n], "ESCAPED">>>>
        v[n \in (f - 1)..e] == IF n < f THEN <<>> ELSE v[n - 1] \o kept(n)
    IN  v[e]

\* A backslash before an ordinary character in double quotes.
OddEscape(f, e) ==
    LET m == Modes(f)
    IN  \E n \in f..e : m[n - 1] = "dqbs" /\ text[n] \notin Escapable \cup {"nl"}

Spelling == [s \in {<<c>> : c \in DOMAIN Single \cup DOMAIN Short} \cup DOMAIN Long
                   \cup {<<"<", "<">>, <<"<", "<", "<">>, <<"<", "<", "-">>} |->
               CASE s \in DOMAIN Long -> Long[s]
                 [] Len(s) = 1 -> IF s[1] \in DOMAIN Single THEN Single[s[1]] ELSE Short[s[1]]
                 [] Len(s) = 2 -> "DLESS"
                 [] OTHER -> Here[s[3]]]

\* A backslash and a newline join what stands on both sides of them.
Joins(n) == n + 1 \in DOMAIN text /\ text[n] = "bs" /\ text[n + 1] = "nl"
Joint(f, e) ==
    LET m == Modes(f)
        first == {n \in f..e : Joins(n) /\ m[n] \in {"bs", "dqbs"}}
    IN  first \cup {n + 1 : n \in first}

Joined(f, e) ==
    LET v[n \in (f - 1)..e] ==
            IF n < f THEN <<>> ELSE IF n \in Joint(f, e) THEN v[n - 1] ELSE Append(v[n - 1], text[n])
    IN  v[e]

\* Where the blanks from p on end.
Begins(p) == Least({q \in p..(Len(text) + 1) : q > Len(text) \/ (text[q] # "sp" /\ q \notin Joint(p, Len(text)))})

\* Digits and nothing else, directly before < or >.
Number(f, e) ==
    /\ e < Len(text) /\ text[e + 1] \in {"<", ">"}
    /\ Joined(f, e) \in Seq(Digit) \ {<<>>}

\* Words that are tokens of their own.
Reserved == {"{", "}", "!"}

\* The first token from the place p on: blanks and a comment are skipped, an operator is as
\* long as it can be, a word ends before the first delimiter that is not quoted.
TokenFrom(p) ==
    LET n == Len(text)
        b == Begins(p)
        f == IF b <= n /\ text[b] = "#" THEN Least({q \in b..(n + 1) : q > n \/ text[q] = "nl"}) ELSE b
        m == Modes(f)
        ends == {e \in f..n : m[e] = "none" /\ (e = n \/ isWordDelimiter(text[e + 1]))}
        ops == {e \in f..n \ Joint(f, n) : /\ Joined(f, e) \in DOMAIN Spelling
                                           /\ text[f] \in Reserved => e \in ends}
        Is(type, e) == [type |-> type, from |-> f, to |-> e]
    IN  IF f > n THEN [type |-> "EOF", from |-> n + 1, to |-> n + 1]
        ELSE IF ops # {}
        THEN LET e == CHOOSE x \in ops : \A y \in ops : y <= x IN Is(Spelling[Joined(f, e)], e)
        ELSE IF ends = {} THEN [type |-> "ERROR", from |-> n, to |-> n]
        ELSE Is(IF Number(f, Least(ends)) THEN "IO_NUM" ELSE "WORD", Least(ends))

\* The lexer's token is known to be another than t, the first one from p on, in four cases:
\* digits that are quoted, or an empty quoted word, count as a number before < and >; a
\* backslash and a newline between two tokens start a word; they separate the characters
\* of an operator; and {, } and ! are tokens also when a word goes on behind them.
Differs(p, t) ==
    \/ /\ t.type = "WORD" /\ t.to < Len(text) /\ text[t.to + 1] \in {"<", ">"}
       /\ \A i \in DOMAIN QuoteRemoved(t.from, t.to) : QuoteRemoved(t.from, t.to)[i][1] \in Digit
    \/ \E n \in p..(Begins(p) - 1) : text[n] # "sp"
    \/ t.type \notin {"WORD", "IO_NUM"} /\ Joint(t.from, t.to) # {}
    \/ t.type = "WORD" /\ text[t.from] \in Reserved

-----------------------------------------------------------------------------
(* Properties.                                                               *)

State == {"START", "WORD", "BACKSLASH", "SINGLE_QUOTE", "DOUBLE_QUOTE", "DQ_BACKSLASH", "COMMENT"}
TokenType == {"WORD", "IO_NUM", "EOF", "ERROR", "DLESS", "TLESS", "DLESSDASH", "NEWLINE", "LPAREN",
              "RPAREN", "LBRACE", "RBRACE", "BANG", "SEMI", "PIPE", "BG", "GREAT", "LESS", "DOUBLE_SEMI",
              "SEMI_AND", "OR_IF", "AND_IF", "DGREAT", "GREATAND", "CLOBBER", "LESSAND", "LESSGREAT"}
TypedChar == (Char \cup {"bs"}) \X QuoteType
Token == [type : TokenType, value : Seq(TypedChar), from : Int, to : Int,
          st : {"SUCCESS", "ERROR_LEXICAL_ERROR", "ERROR_MALLOC_FAILURE"}]

TypeOK ==
    /\ text \in Seq(Char)
    /\ pos \in 0..Len(text)
    /\ lookahead \in Char \cup {EOF}
    /\ line \in Nat
    /\ stack \in Seq(State)
    /\ buff \in Seq(TypedChar)
    /\ start \in Nat
    /\ reading \in BOOLEAN
    /\ tokens \in Seq(Token)

\* The states nest at most four deep, so that the stack (STACK_CAPACITY is 128) neither
\* overflows nor runs empty, and a token that is no error leaves the lexer in its first
\* state: where the next token starts depends on nothing but the text that is left.
Nesting == {<<"START">>, <<"START", "COMMENT">>, <<"START", "WORD">>}
           \cup {<<"START", "WORD", QuoteState[c]>> : c \in DOMAIN QuoteState}
           \cup {<<"START", "WORD", "DOUBLE_QUOTE", "DQ_BACKSLASH">>}

StackShape ==
    /\ stack \in Nesting
    /\ ~reading /\ (\A n \in 1..Len(tokens) : tokens[n].type # "ERROR") => stack = <<"START">>

\* The tokens are those of the text and none is lost, whatever was read before the last
\* reset: an operator is as long as it can be, also when a word or a number stands right
\* before it, only plain digits before < or > are a number, and a word or the end is an
\* error only when a quote is open there.  The four cases of Differs are left out.
TokensRight ==
    LET k == Len(tokens)
        t == tokens[k]
        from == IF k = 1 THEN 1 ELSE tokens[k - 1].to + 1
        right == TokenFrom(from)
    IN  ~reading /\ k > 0 /\ (\A n \in 1..(k - 1) : tokens[n].type \notin {"ERROR", "EOF"}) =>
           \/ t.type = "ERROR" /\ t.st = "ERROR_MALLOC_FAILURE"
           \/ [type |-> t.type, from |-> t.from, to |-> t.to] = right
           \/ Differs(from, right)

\* A word's value is its text without the quotes, each character with the quoting it stood
\* in, which the expansion relies on.  A backslash before an ordinary character in double
\* quotes is left out: the character comes twice then (tokenize.c:426).
ValuesRight ==
    LET t == tokens[Len(tokens)]
    IN  ~reading /\ tokens # <<>> /\ (\A n \in 1..(Len(tokens) - 1) : tokens[n].type # "ERROR") =>
           (t.type \in {"WORD", "IO_NUM"} /\ ~OddEscape(t.from, t.to) => t.value = QuoteRemoved(t.from, t.to))

\* getToken returns, also at the end of the text in the middle of a comment or of quotes.
GetTokenReturns == reading ~> ~reading

=============================================================================
