------------------------------ MODULE MCCommand ------------------------------
(***************************************************************************)
(* Module Command on two kinds of sessions.  The words: echo with a word   *)
(* of up to three pieces, with a variable that is set (X), one that is     *)
(* empty (N) and one that is not set (U), braces in braces, and all short  *)
(* texts of the characters with a meaning, closed or not.  The lines: two  *)
(* or three commands that change directories and variables.                *)
(***************************************************************************)
EXTENDS Word

CONSTANTS
    MaxLength,   \* of a raw text
    MaxLines     \* of a session of lines

MCLetter == {"X", "N", "U", "H", "P", "O", "W", "r", "a"}
MCDigit == {"0", "1"}
MCHome == <<"H">>
MCUsers == (<<"r">> :> <<"/", "r">>) @@ (<<"r", "a">> :> <<"/">>)

Types == {"UNQUOTED", "DOUBLE_QUOTED"}
Names == {<<"X">>, <<"N">>, <<"U">>}

Texts(t) == {Piece("TEXT", t, s) : s \in {<<"a">>, <<":", "-", "a">>, <<"/", "~">>}}
Literals == {Piece("TEXT", t, <<c>>) : t \in {"SINGLE_QUOTED", "ESCAPED"}, c \in {"$", "X", "~"}}
Dollar(t) == Piece("TEXT", t, <<"$">>)

Simple(t) ==
    {Piece(k, t, s) : k \in {"VAR", "BRACE", "LENGTH"}, s \in Names}
    \cup {Piece(k, t, <<c>>) : k \in {"SPECIAL", "BRACE"}, c \in {"$", "?", "!", "#", "@", "0", "1"}}

Operators == {colon \o <<c>> : colon \in {<<>>, <<":">>}, c \in {"-", "=", "?", "+"}}
Ops(t, ops, ws) == {OpPiece(t, s, op, w) : s \in Names, op \in ops, w \in ws}

Plain(t) == Ops(t, Operators, {<<>>} \cup {<<p>> : p \in Texts(t)})
Short(t) == Ops(t, Operators, {<<>>, <<Piece("TEXT", t, <<"a">>)>>})
Deep(t) ==
    Ops(t, {<<"-">>, <<":", "-">>, <<"=">>, <<":", "+">>},
        {<<p>> : p \in Simple(t)}
        \cup {<<Piece("TILDE", u, s), Piece("TEXT", u, <<"/">>)>> :
                u \in {t} \cap {"UNQUOTED"}, s \in {<<>>, <<"r">>}})
    \cup Ops(t, {<<"-">>, <<":", "-">>},
        {<<p>> : p \in Plain(t)}
        \cup {<<Piece("TEXT", t, <<"a">>), p, Piece("TEXT", t, <<"/", "a">>)>> : p \in Short(t)})
Deeper(t) ==
    Ops(t, {<<":", "-">>}, {<<p, Piece("VAR", t, <<"X">>)>> : p \in Ops(t, {<<"-">>}, {<<p>> : p \in Plain(t)})})

\* A name is not followed by a character that would belong to it, nor a $ by one that it
\* would take.
Separated(w) ==
    \A n \in 1..Len(w) - 1 :
        w[n].t = w[n + 1].t =>
            /\ w[n].kind = "VAR" => After(w, n) \notin NameChar
            /\ ~LoneDollar(w[n])

\* In braces: quotes around what is special, and next to something in other quotes.
Quoted ==
    UNION {Texts("DOUBLE_QUOTED"), Literals, {Dollar("DOUBLE_QUOTED"), Dollar("UNQUOTED")},
           {Piece("TEXT", t, <<c>>) : t \in {"DOUBLE_QUOTED", "ESCAPED"}, c \in {"~", "{", "}"}}}
Mixed(t) ==
    Ops(t, {<<"-">>, <<"=">>},
        {<<p>> : p \in Quoted}
        \cup {w \in UNION {{<<p, q>>, <<q, p>>} : p \in Quoted, q \in {Piece("VAR", t, <<"X">>), Piece("TEXT", t, <<"/">>)}} :
                Separated(w)}
        \cup {<<Piece("TILDE", "UNQUOTED", <<>>), p>> : p \in Texts("DOUBLE_QUOTED")}
        \cup {<<p>> : p \in Ops(t, {<<"-">>}, {<<p>> : p \in Quoted})})

Everything == UNION {Texts(t) \cup {Dollar(t)} \cup Simple(t) \cup Short(t) : t \in Types} \cup Literals
Around ==
    UNION {Texts(t) \cup {Piece("VAR", t, <<"X">>), OpPiece(t, <<"U">>, <<"-">>, <<Piece("TEXT", t, <<"a">>)>>)} :
            t \in Types}
    \cup Literals

Tildes ==
    {<<Piece("TILDE", "UNQUOTED", s)>> \o w : s \in {<<>>, <<"r">>, <<"r", "a">>, <<"a">>},
        w \in {<<>>, <<Piece("TEXT", "ESCAPED", <<"a">>)>>}
            \cup {<<Piece("TEXT", t, <<"/">>)>> : t \in {"UNQUOTED", "DOUBLE_QUOTED", "ESCAPED"}}}

\* Texts of which nothing is said but that they are expanded or refused.
Raw == {<<Piece("RAW", t, s)>> : t \in Types, s \in BoundedSeq({"$", "{", "}", "(", ")", "X", "-"}, MaxLength)}
    \cup {<<Piece("RAW", "UNQUOTED", <<"$", "{", "U">> \o s)>> :
            s \in BoundedSeq({"$", "{", "}", "(", "=", ":", "%", "#", "a"}, MaxLength - 1)}
    \cup {<<Piece("RAW", "UNQUOTED", <<"$", "{", "#">> \o s)>> :
            s \in BoundedSeq({"#", "U", "X", "-", "1", "}"}, MaxLength)}
    \cup {<<Piece("RAW", "UNQUOTED", <<"$", "(", "(">> \o s)>> :
            s \in BoundedSeq({"(", ")", "a"}, MaxLength)}
    \cup {<<Piece("RAW", "UNQUOTED", <<"$", "{">> \o n \o <<"=">> \o s \o <<"}">>)>> :
            n \in {<<"U">>, <<"N", ":">>, <<"X">>, <<"1">>}, s \in {<<>>, <<"a">>, <<"$", "X">>}}

Braces == {<<p>> : p \in UNION {Deep(t) : t \in Types}}
InnerBraces == {<<p>> : p \in UNION {Deeper(t) \cup Mixed(t) : t \in Types}}
Pairs == {w \in {IF after THEN <<p, q>> ELSE <<q, p>> : after \in BOOLEAN, p \in Everything, q \in Around} : Separated(w)}
Triples == {w \in {<<p, q, r>> : p, r \in {q \in Around : Len(q.s) = 1}, q \in Around} : Separated(w)}

EchoWords == Pairs \cup (Braces \cup (Triples \cup (InnerBraces \cup (Raw \cup Tildes \cup {<<p>> : p \in Everything \cup UNION {Plain(t) : t \in Types}}))))

-----------------------------------------------------------------------------
MCPwd == <<"W">>
MCOldPwd == <<"O">>
MCPath == <<"P">>
MCDirs == {<<"/">>, <<"/", "r">>, <<"/", "a">>, <<"/", "r", "/", "a">>}

\* The variables X and N; with a HOME; with all the names, one of them twice, and a
\* text without =.
XAndN == <<<<"X", "=", "a", "/">>, <<"N", "=">>>>
WithHome == XAndN \o <<<<"H", "=", "/">>>>
WithAll == XAndN \o <<<<"H", "=", "a">>, <<"a">>, <<"W", "=", "/", "r">>, <<"P", "=", "/">>, <<"H", "=", "/", "r">>>>

Cmd(kind, assigns, words) ==
    [kind |-> kind, assigns |-> assigns, words |-> [n \in DOMAIN words |-> Written(words[n])]]
Bare(s) == <<Piece("TEXT", "UNQUOTED", s)>>
Var(name) == <<Piece("VAR", "UNQUOTED", name)>>

Lines ==
    {Cmd("cd", a, w) : a \in {<<>>, <<<<"W", "=", "a">>>>, <<<<"H", "=", "/", "a">>>>},
        w \in {<<>>, <<Bare(<<"a">>)>>, <<Bare(<<"-">>)>>, <<Bare(<<"/">>)>>}}
    \cup {Cmd("cd", <<>>, <<w>>) :
            w \in {Var(MCOldPwd), Var(MCPwd), <<OpPiece("UNQUOTED", <<"U">>, <<"?">>, <<>>)>>}}
    \cup {Cmd("export", <<>>, w) :
            w \in {<<>>, <<Bare(<<"W", "=">>)>>, <<Bare(<<"a">>), Bare(<<"H", "=">>) \o Var(<<"X">>), Bare(<<"O", "=", "=">>)>>}}
    \cup {Cmd("unset", <<>>, w) : w \in {<<>>, <<Bare(MCPwd), Bare(<<"H">>)>>, <<Bare(MCOldPwd), Bare(MCPath)>>}}
    \cup {Cmd("echo", <<<<"X", "=", "a">>, <<"X", "=", "=">>>>, <<Var(<<"X">>), <<Piece("TILDE", "UNQUOTED", <<>>)>>>>)}
    \cup {Cmd("echo", <<>>, <<<<OpPiece("UNQUOTED", <<"U">>, <<"=">>, Bare(<<"a">>))>>, Var(<<"X">>), Var(<<"U">>)>>)}
    \cup {Cmd("EXTERNAL", <<<<"W", "=", "a">>>>, <<Var(MCPwd), Var(MCPath)>>)}
    \cup {Cmd("NONE", <<<<"W", "=", "/">>, <<"U", "=", "$", "X">>>>, <<>>)}
    \cup {Cmd(kind, <<>>, <<<<Piece("SPECIAL", "UNQUOTED", <<"?">>)>>>>) : kind \in {"pwd", "true", "false"}}

EchoStarts == {start \in EchoWords \X {XAndN, WithHome} : start[2] = XAndN \/ Has(start[1], "TILDE")}
EchoSessions ==
    {[lines |-> <<Cmd("echo", <<>>, <<start[1]>>)>>, environ |-> start[2], dir |-> <<"/">>] : start \in EchoStarts}
LineSessions ==
    {[lines |-> s, environ |-> XAndN, dir |-> <<"/", "r">>] : s \in [1..MaxLines -> Lines]}
    \cup {[lines |-> <<Cmd("cd", <<>>, <<Bare(<<"a">>)>>)>> \o s, environ |-> WithAll, dir |-> <<"/", "r">>] :
            s \in [1..MaxLines -> Lines]}

MCLaunches == LineSessions \cup EchoSessions
=============================================================================
