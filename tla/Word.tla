-------------------------------- MODULE Word --------------------------------
(***************************************************************************)
(* What the words of a command mean: a word is a sequence of pieces, each  *)
(* written in one kind of quotes.  Render writes it as the characters the  *)
(* lexer hands over, Meaning says what the shell language makes of it.     *)
(* This is the reference for modules Expansion and Command, which see only *)
(* characters.  It is a module of its own because its operators recur.     *)
(***************************************************************************)
EXTENDS Command

Typed(c, t) == [c |-> c, t |-> t]

(* A piece has a kind, a type t, a text s, an operator op and a word: TEXT is s itself; TILDE    *)
(* ~s; VAR $s; BRACE ${s}; LENGTH ${#s}; SPECIAL $s with one special character or digit; OP      *)
(* ${s op word}; RAW is any text, of which nothing is said here.                                 *)
Piece(kind, t, s) == [kind |-> kind, t |-> t, s |-> s, op |-> <<>>, word |-> <<>>]
OpPiece(t, s, op, w) == [kind |-> "OP", t |-> t, s |-> s, op |-> op, word |-> w]

IsOp(p, ops) == p.kind = "OP" /\ p.op[Len(p.op)] \in ops

\* The pieces of a word, and the words in its braces.
RECURSIVE Pieces(_)
Pieces(w) == ToSet(w) \cup UNION {Pieces(p.word) : p \in ToSet(w)}
Braced(w) == {p.word : p \in Pieces(w)}
Has(w, kind) == \E p \in Pieces(w) : p.kind = kind

Opening == [TEXT |-> <<>>, RAW |-> <<>>, TILDE |-> <<"~">>, VAR |-> <<"$">>, SPECIAL |-> <<"$">>,
            BRACE |-> <<"$", "{">>, OP |-> <<"$", "{">>, LENGTH |-> <<"$", "{", "#">>]
Closing == [TEXT |-> <<>>, RAW |-> <<>>, TILDE |-> <<>>, VAR |-> <<>>, SPECIAL |-> <<>>,
            BRACE |-> <<"}">>, OP |-> <<"}">>, LENGTH |-> <<"}">>]

RECURSIVE Render(_)
Render(w) ==
    IF w = <<>> THEN <<>>
    ELSE LET p == w[1]
             all(s) == [n \in DOMAIN s |-> Typed(s[n], p.t)]
         IN  all(Opening[p.kind] \o p.s \o p.op) \o Render(p.word) \o all(Closing[p.kind])
                \o Render(Tail(w))

\* A word as the lexer hands it over: its characters, and the quotes each of them stood in.
\* What it was written as is kept for the properties.
Written(w) ==
    LET r == Render(w)
    IN  [chars |-> [n \in DOMAIN r |-> r[n].c], types |-> [n \in DOMAIN r |-> r[n].t], pieces |-> w]

-----------------------------------------------------------------------------
(* What the shell language (POSIX XCU 2.6) makes of a word: its value, with  *)
(* the variables as ${name=word} leaves them.                                *)

Means(s, env) == [ok |-> TRUE, value |-> s, env |-> env]
NoMeaning(env) == [ok |-> FALSE, value |-> <<>>, env |-> env]

ValueIn(env, name) == IF name \in DOMAIN env THEN env[name] ELSE <<>>

\* With a colon a variable that is empty counts as one that is not set.
Usable(p, env) == p.s \in DOMAIN env /\ (p.op[1] = ":" => env[p.s] # <<>>)

\* What the shell was called as, as one character.
ShellName == <<"cyprsh">>

\* The session has no positional parameters.
SpecialMeaning(c, status) ==
    CASE c = "$" -> Number(Pid) [] c = "?" -> Number(status) [] c = "#" -> Number(0)
      [] c = "0" -> ShellName
      [] c = "!" -> (IF LastBg > 0 THEN Number(LastBg) ELSE <<>>)
      [] OTHER -> <<>>

\* ~ and ~user before the rest of the word: a quoted character in the name makes it a text.
TildeMeaning(p, rest, env) ==
    LET known == IF p.s = <<>> THEN Home \in DOMAIN env ELSE p.s \in DOMAIN Users
        dir == IF p.s = <<>> THEN env[Home] ELSE Users[p.s]
    IN  IF ~known \/ (rest # <<>> /\ rest[1].t # p.t) THEN <<"~">> \o p.s
        ELSE IF rest # <<>> /\ dir # <<>> /\ dir[Len(dir)] = "/" THEN SubSeq(dir, 1, Len(dir) - 1)
        ELSE dir

\* env has the variables, status the number of $?.
RECURSIVE Meaning(_, _, _)
PieceMeaning(p, rest, env, status) ==
    CASE p.kind = "TEXT" -> Means(p.s, env)
      [] p.kind = "TILDE" -> Means(TildeMeaning(p, rest, env), env)
      [] p.kind = "VAR" -> Means(ValueIn(env, p.s), env)
      [] p.kind = "BRACE" -> Means(IF IsName(p.s) THEN ValueIn(env, p.s) ELSE SpecialMeaning(p.s[1], status), env)
      [] p.kind = "LENGTH" -> Means(Number(Len(ValueIn(env, p.s))), env)
      [] p.kind = "SPECIAL" -> Means(SpecialMeaning(p.s[1], status), env)
      [] IsOp(p, {"+"}) -> IF Usable(p, env) THEN Meaning(p.word, env, status) ELSE Means(<<>>, env)
      [] IsOp(p, {"-", "=", "?"}) /\ Usable(p, env) -> Means(env[p.s], env)
      [] IsOp(p, {"-"}) /\ ~Usable(p, env) -> Meaning(p.word, env, status)
      [] IsOp(p, {"="}) /\ ~Usable(p, env) ->
            LET m == Meaning(p.word, env, status)
            IN  [m EXCEPT !.env = IF m.ok THEN hashTableInsert(m.env, p.s, m.value) ELSE env]
      [] OTHER -> NoMeaning(env)

Meaning(w, env, status) ==
    IF w = <<>> THEN Means(<<>>, env)
    ELSE LET first == PieceMeaning(w[1], Tail(w), env, status)
             others == Meaning(Tail(w), first.env, status)
         IN  IF ~first.ok THEN first ELSE [others EXCEPT !.value = first.value \o others.value]

-----------------------------------------------------------------------------
(* Where the shell is known to do something else.                            *)

\* The first character of what comes after the n-th piece, as the lexer hands it over.
After(v, n) == LET r == Render(SubSeq(v, n + 1, Len(v))) IN IF r = <<>> THEN "" ELSE r[1].c

\* $0 gives nothing, and in braces every special parameter does; so does the length of a
\* variable that is not set.
GivesNothing(w, env) ==
    \E p \in Pieces(w) :
        \/ p.kind = "SPECIAL" /\ p.s = <<"0">>
        \/ p.kind = "BRACE" /\ p.s[1] \in {"$", "?", "!", "#", "0"}
        \/ p.kind = "LENGTH" /\ p.s \notin DOMAIN env

\* The word after + or = is taken as it is.
LeavesWord(w) == \E p \in Pieces(w) : IsOp(p, {"+", "="}) /\ \E q \in ToSet(p.word) : q.kind # "TEXT"

\* A $ that is a text of its own takes what comes after it, whatever quotes that is in; in
\* braces it takes the end of them.
LoneDollar(p) == p.kind = "TEXT" /\ p.t \in {"UNQUOTED", "DOUBLE_QUOTED"} /\ p.s[Len(p.s)] = "$"
TakesMore(w) ==
    \/ \E n \in DOMAIN w : LoneDollar(w[n]) /\ After(w, n) \in DOMAIN Special \cup Letter \cup {"{", "("}
    \/ \E v \in Braced(w) : \E p \in ToSet(v) : LoneDollar(p)

\* The name of a user goes on in quotes.
QuotedUser(w) ==
    \E n \in 1..Len(w) - 1 :
        w[n].kind = "TILDE" /\ w[n].t # w[n + 1].t /\ w[n].s \o w[n + 1].s \in DOMAIN Users

\* The word in braces has lost its quotes: its $ and a ~ at its start are special again, a }
\* ends the braces (and a { opens some in inner braces), names go on behind quotes.
LosesQuotes(w) ==
    \E v \in Braced(w) :
        \/ \E p \in ToSet(v) : p.kind = "TEXT" /\ p.t # "UNQUOTED" /\ ToSet(p.s) \cap {"$", "{", "}"} # {}
        \/ v # <<>> /\ v[1].kind = "TEXT" /\ v[1].t # "UNQUOTED" /\ v[1].s[1] = "~"
        \/ \E n \in 1..Len(v) - 1 :
              /\ v[n].t # v[n + 1].t
              /\ v[n].kind = "TILDE" \/ (v[n].kind = "VAR" /\ After(v, n) \in NameChar)

Differs(w, env) == GivesNothing(w, env) \/ LeavesWord(w) \/ TakesMore(w) \/ QuotedUser(w) \/ LosesQuotes(w)

\* The variables a word looks at, and the ones ${name=word} may set in it.
Reads(w) ==
    {p.s : p \in {q \in Pieces(w) : q.kind \in {"VAR", "BRACE", "LENGTH", "OP"}}}
    \cup {Home : p \in {q \in Pieces(w) : q.kind = "TILDE"}}
SetBy(w) == {p.s : p \in {q \in Pieces(w) : IsOp(q, {"="})}}

\* A variable that the command itself has set by then, set being the ones before the word: its
\* own assignments are in force too early, and ${name=word} sets another variable.
ReadsOwn(w, set) ==
    \E v \in {w} \cup Braced(w) : \E n \in DOMAIN v :
        Reads(<<v[n]>>) \cap (set \cup SetBy(SubSeq(v, 1, n - 1))) # {}
-----------------------------------------------------------------------------
\* The n-th word of the command, and the ones before it.
Word(n) == Command.words[n].pieces
Earlier(n) == [k \in 1..n - 1 |-> Word(k)]

EnvBefore(n) ==
    FoldLeft(LAMBDA env, w : Meaning(w, env, last_exec_status).env, own.table, Earlier(n))
Wanted(n) == Meaning(Word(n), EnvBefore(n), last_exec_status)

SetBefore(n) ==
    {splitAssignment(s).key : s \in ToSet(Command.assigns)} \cup UNION {SetBy(w) : w \in ToSet(Earlier(n))}
Described(n) ==
    /\ ~Has(Word(n), "RAW")
    /\ ~Differs(Word(n), own.table) /\ ~ReadsOwn(Word(n), SetBefore(n))

\* A command runs with one argument for each of its words, and each argument is what the shell
\* language says the word means, with the variables as they were before the command; a command
\* is refused for a word's sake only if the word has no meaning (handlePrefix, handleSuffix,
\* expandWord).  This is said of the words without one of the named differences; of the others,
\* and of those with a RAW piece, only the number of arguments is known.  The shell has no field
\* splitting and no patterns: a word that gives nothing is an empty argument.
ArgumentsRight ==
    /\ ArgumentsComplete
    /\ pc = "RUN" =>
        \A n \in DOMAIN argv : Described(n) => Wanted(n).ok /\ argv[n] = Wanted(n).value
    /\ pc = "EXPAND" /\ result.st \in {"ERROR_EXPANSION_FAILURE", "ERROR_DEFAULT"} =>
        ~Described(at) \/ ~Wanted(at).ok
=============================================================================
