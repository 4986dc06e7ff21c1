------------------------------ MODULE Grammar ------------------------------
(***************************************************************************)
(* The shell grammar of POSIX (XCU 2.10.2) over the tokens of Parser, with *)
(* its left recursion written as a "rest", and what the parser makes of it *)
(* (CHANGELOG.md:46: "Recursive descent parser following POSIX grammar").  *)
(* A rule is a set of alternatives, an alternative a sequence of symbols.  *)
(***************************************************************************)
EXTENDS Parser

Class == [t \in Token |-> {t}] @@
         [WORD |-> TOKEN_WORD, cmd_name |-> {"word"}, cmd_word |-> TOKEN_WORD \ {"assign"},
          pattern |-> TOKEN_WORD \ {"esac"}]

\* no_WORD takes no token: a reserved word is one only where a command may begin, so
\* that a simple command takes all the words that follow it.
Posix == [
    program          |-> {<<"linebreak", "program_rest">>},
    program_rest     |-> {<<>>, <<"complete_command", "commands_rest">>},
    commands_rest    |-> {<<>>, <<"newline_list", "program_rest">>},
    complete_command |-> {<<"and_or", "list_rest">>},
    list_rest        |-> {<<>>, <<"separator_op">>, <<"separator_op", "and_or", "list_rest">>},
    separator_op     |-> {<<"SEMI">>, <<"BG">>},
    separator        |-> {<<"separator_op", "linebreak">>, <<"newline_list">>},
    sequential_sep   |-> {<<"SEMI", "linebreak">>, <<"newline_list">>},
    newline_list     |-> {<<"NEWLINE", "linebreak">>},
    linebreak        |-> {<<>>, <<"newline_list">>},
    and_or           |-> {<<"pipeline", "and_or_rest">>},
    and_or_rest      |-> {<<>>, <<"AND_IF", "linebreak", "and_or">>, <<"OR_IF", "linebreak", "and_or">>},
    pipeline         |-> {<<"pipe_sequence">>, <<"BANG", "pipe_sequence">>},
    pipe_sequence    |-> {<<"command", "pipe_rest">>},
    pipe_rest        |-> {<<>>, <<"PIPE", "linebreak", "pipe_sequence">>},
    command          |-> {<<"simple_command">>, <<"function_definition">>,
                          <<"compound_command", "redirect_list">>},
    simple_command   |-> {<<"cmd_name", "cmd_suffix", "no_WORD">>,
                          <<"cmd_prefix", "prefixed", "no_WORD">>},
    prefixed         |-> {<<>>, <<"cmd_word", "cmd_suffix">>},
    cmd_prefix       |-> {<<"prefix_item", "prefix_rest">>},
    prefix_rest      |-> {<<>>, <<"cmd_prefix">>},
    prefix_item      |-> {<<"assign">>, <<"io_redirect">>},
    cmd_suffix       |-> {<<>>, <<"WORD", "cmd_suffix">>, <<"io_redirect", "cmd_suffix">>},
    io_redirect      |-> {<<"REDIR", "WORD">>, <<"IO_NUM", "REDIR", "WORD">>},
    redirect_list    |-> {<<>>, <<"io_redirect", "redirect_list">>},
    compound_command |-> {<<"LBRACE", "compound_list", "RBRACE">>, <<"LPAREN", "compound_list", "RPAREN">>,
                          <<"if", "if_part">>, <<"case", "case_part">>, <<"for", "WORD", "for_part">>,
                          <<"while", "compound_list", "do_group">>,
                          <<"until", "compound_list", "do_group">>},
    compound_list    |-> {<<"linebreak", "term">>},
    term             |-> {<<"and_or", "term_rest">>},
    term_rest        |-> {<<>>, <<"separator">>, <<"separator", "term">>},
    do_group         |-> {<<"do", "compound_list", "done">>},
    if_part          |-> {<<"compound_list", "then", "compound_list", "else_part">>},
    else_part        |-> {<<"fi">>, <<"else", "compound_list", "fi">>, <<"elif", "if_part">>},
    for_part         |-> {<<"do_group">>, <<"sequential_sep", "do_group">>,
                          <<"linebreak", "in", "wordlist", "sequential_sep", "do_group">>},
    wordlist         |-> {<<>>, <<"WORD", "wordlist">>},
    case_part        |-> {<<"WORD", "linebreak", "in", "linebreak", "case_list">>},
    case_list        |-> {<<"esac">>, <<"case_item", "item_end">>},
    item_end         |-> {<<"esac">>, <<"DOUBLE_SEMI", "linebreak", "case_list">>,
                          <<"SEMI_AND", "linebreak", "case_list">>},
    case_item        |-> {<<"item_head", "case_body">>},
    item_head        |-> {<<"pattern", "patterns_rest">>, <<"LPAREN", "WORD", "patterns_rest">>},
    patterns_rest    |-> {<<"RPAREN">>, <<"PIPE", "WORD", "patterns_rest">>},
    case_body        |-> {<<"linebreak">>, <<"compound_list">>},
    function_definition |-> {<<"cmd_name", "LPAREN", "RPAREN", "linebreak", "compound_command",
                               "redirect_list">>}]

\* What analyzeXxx takes of it.  A program of POSIX outside of it is not accepted to
\* its end: newlines separate commands, but not in a body (analyzeTerm asks for ";"
\* or "&"), where they may only follow the last command; no separator comes before
\* ";;" or ";&" (isCompoundListEnd does not know them); a body of an item is not a
\* newline alone; a for without "in" has no newline after its name but behind a ";";
\* a compound command has no redirections, but the body of a function has.
Taken == [Posix EXCEPT
    !.compound_list = {<<"linebreak", "term", "linebreak">>},
    !.separator     = {<<"separator_op", "linebreak">>},
    !.case_list     = {<<"esac">>, <<"case_item", "item_end">>,
                       <<"item_head", "linebreak", "item_term", "separator", "esac">>},
    !.case_body     = {<<>>, <<"linebreak", "item_term", "linebreak">>},
    !.for_part      = {<<"do_group">>, <<"SEMI", "linebreak", "do_group">>,
                       <<"linebreak", "in", "wordlist", "sequential_sep", "do_group">>},
    !.command       = {<<"simple_command">>, <<"function_definition">>, <<"compound_command">>}]
    @@ [item_term |-> {<<"and_or", "item_rest">>},
        item_rest |-> {<<>>, <<"separator", "and_or", "item_rest">>}]

\* The positions where a phrase of symbol x that starts at i may end.
RECURSIVE Ends(_, _, _, _)
Ends(rules, s, x, i) ==
    IF x = "no_WORD" THEN IF i \in DOMAIN s /\ s[i] \in TOKEN_WORD THEN {} ELSE {i}
    ELSE IF x \in DOMAIN Class
    THEN IF i \in DOMAIN s /\ s[i] \in Class[x] THEN {i + 1} ELSE {}
    ELSE UNION {FoldLeft(LAMBDA from, y : UNION {Ends(rules, s, y, j) : j \in from}, {i}, a)
                : a \in rules[x]}

Program(rules, s) == Len(s) + 1 \in Ends(rules, s, "program", 1)

\* Before "(" these three are taken for the name of a function (analyzeCommand).
KeywordAsName == \E i \in 1..(Len(input) - 1) :
                    input[i] \in {"if", "while", "until"} /\ input[i + 1] = "LPAREN"

-----------------------------------------------------------------------------
(* What the parser takes beyond the grammar.                                 *)

\* A reserved word that starts no command is a command's name, and any word a function's.
OddName ==
    \E n, m \in DOMAIN heap :
        /\ Kids(n) # <<>> /\ m = Kids(n)[1]
        /\ \/ heap[n].type = "SIMPLE_COMMAND" /\ heap[m].value \in Reserved
           \/ heap[n].type = "FUNCTION_DEF" /\ heap[m].value # "word"

\* An item of a case needs no ";;" before the next one.
OpenItem ==
    \E n \in DOMAIN heap :
        /\ heap[n].type = "CASE_CLAUSE"
        /\ \E i \in 2..(Len(Kids(n)) - 1) : heap[Kids(n)[i]].flags = {}

\* The parser accepts to the last token exactly the programs of the grammar Taken, a
\* part of POSIX's, but for the ones where it takes a keyword for a name and, the
\* other way round, those with a name or a case item the grammar does not have.  What
\* it reports as accepted although tokens are left is in neither.
ProgramsAccepted ==
    phase \in {"accepted", "rejected"} =>
        LET whole == phase = "accepted" /\ current_token = "EOF"
            taken == Program(Taken, input)
        IN  /\ taken /\ ~KeywordAsName => whole
            /\ whole => taken \/ OddName \/ OpenItem
=============================================================================
