----------------------------- MODULE Expansion ------------------------------
(***************************************************************************)
(* The expansion of a word (src/execution/expansion): expandWord with a    *)
(* handler for each state of the expander.  Each call of a handler is a    *)
(* step.  The word of ${name:-word} is expanded by an expandWord of its    *)
(* own, which stands above the first in frames.  Module Command calls it   *)
(* for the words of commands.                                              *)
(***************************************************************************)
EXTENDS Integers, Sequences, FiniteSetsExt, TLC

CONSTANTS
    Letter,                     \* letters and the underscore
    Digit,
    Home,                       \* the name HOME
    Users,                      \* the directories of the users the system knows
    Pid, LastBg                 \* the numbers of $$ and $!; no $! is 0

VARIABLES
    word,       \* the word as the lexer hands it over: its chars, and their types (the quotes)
    frames,     \* the calls of expandWord, each with its expander
    result,     \* what the first call returned, or that it runs
    table,      \* env->env_table: the names that are set, with their values
    last_exec_status

NameChar == Letter \cup Digit
IsName(s) == s # <<>> /\ s[1] \in Letter /\ \A n \in DOMAIN s : s[n] \in NameChar

\* The decimal digits of a number, as one character.
Number(n) == <<ToString(n)>>

Running == [st |-> "RUNNING", output |-> <<>>]

-----------------------------------------------------------------------------
(* The expander on top of the calls.                                         *)

\* expanderCtor; the word in braces has no types.
expanderCtor(in, types) ==
    [input |-> in, types |-> types, pos |-> 0, state |-> "NORMAL", output |-> <<>>]

Top == frames[Len(frames)]
Rest == Len(Top.input) - Top.pos
CharAt(n) == Top.input[Top.pos + n]
TypeAt(n) == IF Top.types = <<>> THEN "UNQUOTED" ELSE Top.types[Top.pos + n]
Chars(first, last) == SubSeq(Top.input, Top.pos + first, Top.pos + last)
Starts(s) == Rest >= Len(s) /\ \A n \in DOMAIN s : CharAt(n) = s[n]

\* The loop of expandWord: it also runs at the end of the input, for a state that was pushed there.
Handles(state) == result = Running /\ Top.state = state /\ (Rest > 0 \/ state # "NORMAL")

\* The call f after n more characters, with s appended and the given state on its stack.
Moved(f, n, s, state) ==
    [input |-> f.input, types |-> f.types, pos |-> f.pos + n, state |-> state, output |-> f.output \o s]

Moves(n, s, state) ==
    /\ frames' = [frames EXCEPT ![Len(frames)] = Moved(Top, n, s, state)]
    /\ UNCHANGED <<word, result>>

Appends(n, s) == Moves(n, s, "NORMAL") /\ UNCHANGED table

\* Every call destroys its expander and returns the error to the one below.
Error(st) ==
    /\ frames' = <<>>
    /\ result' = [st |-> st, output |-> <<>>]
    /\ UNCHANGED word

\* A buffer or the stack cannot grow.
Fails == result = Running /\ Error("ERROR_MALLOC_FAILURE") /\ UNCHANGED table

\* The first n in S, or d if there is none.
Least(S, d) == IF S = {} THEN d ELSE Min(S)

hashTableInsert(t, key, value) ==
    [k \in DOMAIN t \cup {key} |-> IF k = key THEN value ELSE t[k]]

Value(name) == IF name \in DOMAIN table THEN table[name] ELSE <<>>

\* A table without an empty slot finds no place for a name that it does not have.
LookupFails(name) ==
    name \notin DOMAIN table /\ Error("ERROR_INDEX_OUT_OF_BOUNDS") /\ UNCHANGED table

\* How hashTableInsert fails; the table is as it was.
InsertError == {"ERROR_MALLOC_FAILURE", "ERROR_INDEX_OUT_OF_BOUNDS", "ERROR_INT_OVERFLOW"}

-----------------------------------------------------------------------------
(* NORMAL, DOLLAR, TILDE, ARITHMETIC and COMMAND_SUB.                        *)

expandNormal ==
    /\ Handles("NORMAL")
    /\ \/ /\ CharAt(1) = "$" /\ TypeAt(1) \in {"UNQUOTED", "DOUBLE_QUOTED"}
          /\ Moves(1, <<>>, "DOLLAR") /\ UNCHANGED table
       \/ /\ CharAt(1) = "~" /\ TypeAt(1) = "UNQUOTED" /\ Top.pos = 0
          /\ Moves(1, <<>>, "TILDE") /\ UNCHANGED table
       \/ /\ ~(CharAt(1) = "$" /\ TypeAt(1) \in {"UNQUOTED", "DOUBLE_QUOTED"})
          /\ ~(CharAt(1) = "~" /\ TypeAt(1) = "UNQUOTED" /\ Top.pos = 0)
          /\ Appends(1, <<CharAt(1)>>)

\* env->arguments is NULL and env->arguments_count is 0 from executorCtor on.
Special ==
    [c \in {"$", "?", "!", "#", "@", "*"} \cup Digit |->
        CASE c = "$" -> Number(Pid)
          [] c = "?" -> Number(last_exec_status)
          [] c = "!" /\ LastBg > 0 -> Number(LastBg)
          [] c = "#" -> Number(0)
          [] OTHER -> <<>>]

\* The name that starts here: it has the type of its first character.
NameLength ==
    Least({n \in 1..Rest - 1 : TypeAt(n + 1) # TypeAt(1) \/ CharAt(n + 1) \notin NameChar}, Rest)

expandDollar ==
    /\ Handles("DOLLAR")
    /\ \/ Rest = 0 /\ Appends(0, <<"$">>)
       \/ Starts(<<"{">>) /\ Moves(1, <<>>, "BRACE") /\ UNCHANGED table
       \/ Starts(<<"(", "(">>) /\ Moves(2, <<>>, "ARITHMETIC") /\ UNCHANGED table
       \/ /\ Starts(<<"(">>) /\ ~Starts(<<"(", "(">>)
          /\ Moves(1, <<>>, "COMMAND_SUB") /\ UNCHANGED table
       \/ Rest > 0 /\ CharAt(1) \in DOMAIN Special /\ Appends(1, Special[CharAt(1)])
       \/ Rest > 0 /\ CharAt(1) \in Letter /\ Appends(NameLength, Value(Chars(1, NameLength)))
       \/ /\ Rest > 0 /\ CharAt(1) \notin DOMAIN Special \cup Letter \cup {"{", "("}
          /\ Appends(0, <<"$">>)

TildeEnd == Least({n \in 0..Rest - 1 : CharAt(n + 1) = "/" /\ TypeAt(n + 1) = "UNQUOTED"}, Rest)

\* A directory without its last slash when one follows.
Directory(dir, slash) ==
    IF slash /\ dir # <<>> /\ dir[Len(dir)] = "/" THEN SubSeq(dir, 1, Len(dir) - 1) ELSE dir

expandTilde ==
    /\ Handles("TILDE")
    /\ LET user == Chars(1, TildeEnd)
           slash == TildeEnd < Rest
       IN  \/ user = <<>> /\ Home \notin DOMAIN table /\ Appends(0, <<"~">>)
           \/ user = <<>> /\ Home \in DOMAIN table /\ Appends(0, Directory(table[Home], slash))
           \/ user = <<>> /\ LookupFails(Home)
           \/ /\ user \in DOMAIN Users
              /\ Appends(TildeEnd, Directory(Users[user], slash))
           \/ /\ user \notin DOMAIN Users \cup {<<>>}
              /\ Appends(TildeEnd, <<"~">> \o user)

expandArithmetic_OffByOne ==
    /\ Handles("ARITHMETIC")
    /\ LET ends == {n \in 1..Rest : CharAt(n) = ")"}
       IN  \/ ends # {} /\ Appends(Min(ends) + 1, <<>>)
           \/ ends = {} /\ Error("ERROR_EXPANSION_FAILURE") /\ UNCHANGED table

expandArithmetic_NoError ==
    /\ Handles("ARITHMETIC")
    /\ LET ends == {n \in 1..Rest - 1 : CharAt(n) = ")" /\ CharAt(n + 1) = ")"}
       IN  \/ ends # {} /\ Appends(Min(ends) + 1, <<>>)
           \/ ends = {} /\ Moves(Rest, <<>>, "ARITHMETIC") /\ UNCHANGED table

\* What stands between the parentheses is skipped.
expandArithmetic ==
    /\ Handles("ARITHMETIC")
    /\ LET ends == {n \in 1..Rest - 1 : CharAt(n) = ")" /\ CharAt(n + 1) = ")"}
       IN  \/ ends # {} /\ Appends(Min(ends) + 1, <<>>)
           \/ ends = {} /\ Error("ERROR_EXPANSION_FAILURE") /\ UNCHANGED table

expandCommandSub == Handles("COMMAND_SUB") /\ Error("ERROR_DEFAULT") /\ UNCHANGED table

-----------------------------------------------------------------------------
(* BRACE: where it ends, what it says, what it gives.                        *)

Count(c, first, last) == Cardinality({n \in first..last : CharAt(n) = c})

Nested_First(n) == Least({k \in n + 1..Rest : CharAt(k) \in {"}", ")"}}, Rest)

\* How much is read up to the end of what opens at n, after a $; all of it if it does not end.
Nested(n) ==
    LET close == IF CharAt(n) = "{" THEN "}" ELSE ")"
    IN  Least({k \in n + 1..Rest : Count(CharAt(n), n, k) = Count(close, n, k)}, Rest)

\* skipNestedOrQuoted at a $ that is not the last character.  Quotes are not seen: it looks at
\* the characters and not at their types.
skipNestedOrQuoted(n) ==
    IF CharAt(n + 1) \in {"{", "("} THEN Nested(n + 1) + 1
    ELSE IF CharAt(n + 1) \in Letter THEN Least({k \in n + 2..Rest : CharAt(k) \notin NameChar}, Rest + 1)
    ELSE n + 2

\* The place of the } that ends the brace, behind the input if there is none.
BraceEnd ==
    LET end[n \in 1..Rest + 1] ==
            IF n > Rest \/ CharAt(n) = "}" THEN n
            ELSE IF n < Rest /\ CharAt(n) = "$" THEN end[skipNestedOrQuoted(n)]
            ELSE end[n + 1]
    IN  end[1]

NoOperator == [op |-> "NONE", colon |-> FALSE, name |-> <<>>, word |-> <<>>]

\* The length of the parameter's name at the start of s; one character if it is no name.
ParameterLength(s) ==
    IF s[1] \in Letter THEN Least({n \in 1..Len(s) - 1 : s[n + 1] \notin NameChar}, Len(s)) ELSE 1

Operator == [c \in {"-", "=", "?", "+"} |->
    CASE c = "-" -> "DEFAULT" [] c = "=" -> "ASSIGN" [] c = "?" -> "ERROR" [] c = "+" -> "ALT"]

\* What findBraceType makes of the text in the braces; NoOperator is its error.
findBraceType(s) ==
    IF s = <<>> THEN NoOperator
    ELSE IF s[1] = "#" /\ IsName(Tail(s)) THEN [NoOperator EXCEPT !.op = "LENGTH", !.name = Tail(s)]
    ELSE
        LET len == ParameterLength(s)
            name == SubSeq(s, 1, len)
            after == SubSeq(s, len + 1, Len(s))
            colon == after # <<>> /\ after[1] = ":"
            ops == IF colon THEN Tail(after) ELSE after
        IN  IF after = <<>> THEN [NoOperator EXCEPT !.op = "PLAIN", !.name = name]
            ELSE IF ops # <<>> /\ ops[1] \in DOMAIN Operator
                 THEN [op |-> Operator[ops[1]], colon |-> colon, name |-> name, word |-> Tail(ops)]
            ELSE IF ~colon /\ ops[1] \in {"%", "#"}
                 THEN [NoOperator EXCEPT !.op = "REMOVE", !.name = name]
            ELSE NoOperator

isAssignableName(name) == IsName(name)

\* Set, and not empty where the operator has a colon.
Triggers(b) == b.name \in DOMAIN table /\ (b.colon => table[b.name] # <<>>)

\* The word of the brace is expanded by a new call, which gives its output to this one.
ExpandsWord(n, b) ==
    /\ frames' = Append([frames EXCEPT ![Len(frames)] = Moved(Top, n, <<>>, "NORMAL")],
                        expanderCtor(b.word, <<>>))
    /\ UNCHANGED <<word, table, result>>

\* The name it inserts is the whole text in the braces: the character after the name is back.
Assigns(n, b, text) ==
    \/ /\ table' = hashTableInsert(table, text, b.word)
       /\ \/ Moves(n, b.word, "NORMAL")
          \/ Error("ERROR_MALLOC_FAILURE")
    \/ \E st \in InsertError : Error(st) /\ UNCHANGED table

evalBraceExpansion(n, b, text) ==
    \/ b.op = "PLAIN" /\ Appends(n, Value(b.name))
    \/ b.op = "LENGTH" /\ b.name \in DOMAIN table /\ Appends(n, Number(Len(table[b.name])))
    \/ b.op = "LENGTH" /\ b.name \notin DOMAIN table /\ Appends(n, <<>>)
    \/ b.op \in {"DEFAULT", "ASSIGN", "ERROR"} /\ Triggers(b) /\ Appends(n, table[b.name])
    \/ b.op = "DEFAULT" /\ ~Triggers(b) /\ b.word # <<>> /\ ExpandsWord(n, b)
    \/ b.op = "DEFAULT" /\ ~Triggers(b) /\ b.word = <<>> /\ Appends(n, <<>>)
    \/ b.op = "ASSIGN" /\ ~Triggers(b) /\ isAssignableName(b.name) /\ Assigns(n, b, text)
    \/ /\ b.op = "ASSIGN" /\ ~Triggers(b) /\ ~isAssignableName(b.name)
       /\ Error("ERROR_EXPANSION_FAILURE") /\ UNCHANGED table
    \/ b.op = "ERROR" /\ ~Triggers(b) /\ Error("ERROR_EXPANSION_FAILURE") /\ UNCHANGED table
    \/ b.op = "ALT" /\ Appends(n, IF Triggers(b) THEN b.word ELSE <<>>)
    \/ b.op = "REMOVE" /\ Appends(n, <<>>)
    \/ b.op = "NONE" /\ Error("ERROR_EXPANSION_FAILURE") /\ UNCHANGED table
    \/ b.op # "NONE" /\ LookupFails(b.name)

expandParameter ==
    /\ Handles("BRACE")
    /\ \E end \in {BraceEnd} :
        \/ end > Rest /\ Error("ERROR_EXPANSION_FAILURE") /\ UNCHANGED table
        \/ /\ end <= Rest
           /\ \E text \in {Chars(1, end - 1)}, b \in {findBraceType(Chars(1, end - 1))} :
                evalBraceExpansion(end, b, text)

-----------------------------------------------------------------------------
\* The end of expandWord: to the brace that asked for its word, or to the executor.
Return ==
    /\ result = Running /\ Rest = 0 /\ Top.state = "NORMAL"
    /\ \/ /\ Len(frames) > 1
          /\ LET caller == frames[Len(frames) - 1]
             IN  frames' = [SubSeq(frames, 1, Len(frames) - 1) EXCEPT
                                ![Len(frames) - 1] = Moved(caller, 0, Top.output, caller.state)]
          /\ UNCHANGED result
       \/ /\ Len(frames) = 1
          /\ frames' = <<>>
          /\ result' = [st |-> "SUCCESS", output |-> Top.output]
    /\ UNCHANGED <<word, table>>

\* The call of expandWord for the word w.
Calls(w) ==
    /\ word' = w
    /\ frames' = <<expanderCtor(w.chars, w.types)>>
    /\ result' = Running

\* A step of expandWord that has the memory it needs.
expandWord ==
    \/ expandNormal \/ expandDollar \/ expandTilde \/ expandArithmetic
    \/ expandCommandSub \/ expandParameter \/ Return

-----------------------------------------------------------------------------
Status == {"RUNNING", "SUCCESS", "ERROR_EXPANSION_FAILURE", "ERROR_DEFAULT"} \cup InsertError

\* No call reads behind its input, one is left exactly while the expansion runs, and the
\* states under a call are NORMAL.
ExpanderOK ==
    /\ \A n \in DOMAIN frames :
        /\ frames[n].pos \in 0..Len(frames[n].input)
        /\ frames[n].state \in {"NORMAL", "DOLLAR", "TILDE", "BRACE", "ARITHMETIC", "COMMAND_SUB"}
        /\ n < Len(frames) => frames[n].state = "NORMAL"
    /\ (frames # <<>>) = (result = Running)
    /\ result.st \in Status
=============================================================================
