------------------------------ MODULE MCParser ------------------------------
(***************************************************************************)
(* Module Parser on programs that use every construct of the grammar, the  *)
(* ones that are POSIX programs and not CyprSH's among them, and on all    *)
(* that differ from one of them by a token: cut short, left out, or        *)
(* replaced by one of Wrong.                                               *)
(***************************************************************************)
EXTENDS Grammar

S == "SEMI"

Sample == {
    <<>>,
    <<"NEWLINE", "word", "word", "NEWLINE", "word", S, "NEWLINE">>,
    <<"word", "BG", "word", S, "word", "BG">>,
    <<"BANG", "word", "PIPE", "NEWLINE", "word", "AND_IF", "word", "OR_IF", "NEWLINE", "word">>,
    <<"assign", "REDIR", "word", "word", "IO_NUM", "REDIR", "word", "in">>,
    <<"assign", "NEWLINE", "IO_NUM", "REDIR", "word">>,
    <<"LPAREN", "NEWLINE", "word", "BG", "word", S, "RPAREN", "PIPE", "LBRACE", "word", "BG", "RBRACE">>,
    <<"if", "word", S, "then", "word", S, "elif", "word", S, "then", "word", S, "else", "word", S, "fi">>,
    <<"if", "word", S, "then", "word", S, "else", "word", S, "fi">>,
    <<"while", "word", S, "do", "until", "word", S, "do", "word", S, "done", S, "done">>,
    <<"for", "word", "NEWLINE", "in", "word", "word", S, "NEWLINE", "do", "word", S, "done">>,
    <<"for", "word", "in", "NEWLINE", "do", "word", "BG", "done">>,
    <<"for", "word", S, "do", "word", S, "done">>,
    <<"case", "word", "in", "word", "PIPE", "word", "RPAREN", "word", "DOUBLE_SEMI", "NEWLINE",
      "LPAREN", "word", "RPAREN", "SEMI_AND", "word", "RPAREN", "word", "NEWLINE", "esac">>,
    <<"case", "word", "NEWLINE", "in", "NEWLINE", "esac">>,
    <<"word", "LPAREN", "RPAREN", "NEWLINE", "LBRACE", "word", S, "RBRACE", "REDIR", "word", "NEWLINE", "word">>,
    <<"word", "LPAREN", "RPAREN", "LPAREN", "word", "RPAREN", "IO_NUM", "REDIR", "word">>,
    \* bodies on lines, a ";" before ";;", an empty item on a line, for without in
    <<"while", "word", "NEWLINE", "do", "word", "NEWLINE", "word", "NEWLINE", "done">>,
    <<"case", "word", "in", "word", "RPAREN", "word", S, "DOUBLE_SEMI", "word", "RPAREN",
      "NEWLINE", "DOUBLE_SEMI", "word", "RPAREN", "word", S, "esac">>,
    <<"for", "word", "NEWLINE", "do", "word", S, "done">>,
    \* a redirected compound command, "(" after a keyword, a reserved word as an argument
    <<"LBRACE", "word", S, "RBRACE", "REDIR", "word">>,
    <<"if", "LPAREN", "word", "RPAREN", "then", "assign", "fi", "done", "NEWLINE", "fi">>}

Wrong == {"NEWLINE", "SEMI", "BG", "LPAREN", "RPAREN", "PIPE", "word", "fi", "esac", "ERROR"}

Edits(s) ==
    {SubSeq(s, 1, i) : i \in 0..Len(s)}
    \cup {RemoveAt(s, i) : i \in DOMAIN s}
    \cup {[s EXCEPT ![i] = t] : i \in DOMAIN s, t \in Wrong}

MCInput == UNION {Edits(s) : s \in Sample}
=============================================================================
