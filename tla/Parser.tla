------------------------------- MODULE Parser -------------------------------
(***************************************************************************)
(* The recursive-descent parser (src/syntax-analysis/syntax-parser.c).     *)
(*                                                                         *)
(* Each analyzeXxx function is a sequence of instructions: take or require *)
(* a token, create a node, call another function.  The actions interpret   *)
(* them on a stack of calls and a heap of syntax tree nodes, so that a run *)
(* ends with a tree or with the error path that frees what was built.      *)
(* A token is its kind; values matter only for the reserved words and for  *)
(* assignments, both of which are TOKEN_WORD.  malloc does not fail here.  *)
(***************************************************************************)
EXTENDS Naturals, Sequences, SequencesExt, FiniteSets

CONSTANT Input     \* the token sequences the lexer may deliver before TOKEN_EOF

Reserved == {"if", "then", "else", "elif", "fi", "while", "until", "do", "done",
             "for", "in", "case", "esac"}
TOKEN_WORD == Reserved \cup {"word", "assign"}
Operator == {"NEWLINE", "SEMI", "BG", "AND_IF", "OR_IF", "PIPE", "BANG", "LPAREN", "RPAREN",
             "LBRACE", "RBRACE", "DOUBLE_SEMI", "SEMI_AND", "IO_NUM", "REDIR", "ERROR"}
Token == TOKEN_WORD \cup Operator

ASSUME InputAssumption == Input \subseteq Seq(Token)

VARIABLES
    input,     \* what the lexer delivers
    pos,       \* parser->current_token is token number pos
    heap,      \* heap[n]: node n of the syntax tree; node 1 is ast_root
    stack,     \* the calls that have not returned
    phase      \* parsing; failing: an error is being returned; accepted or rejected:
               \* analyze has returned; over: its caller has freed the tree

vars == <<input, pos, heap, stack, phase>>

NodeType == {"PROGRAM", "COMPLETE_COMMAND", "LIST", "AND_OR", "PIPELINE", "SIMPLE_COMMAND",
             "CMD_PREFIX", "CMD_WORD", "CMD_SUFFIX", "REDIRECT", "ASSIGNMENT_WORD", "WORD",
             "IO_NUM", "SUBSHELL", "BRACE_GROUP", "IF_CLAUSE", "ELSE_CLAUSE", "WHILE_CLAUSE",
             "UNTIL_CLAUSE", "FOR_CLAUSE", "CASE_CLAUSE", "CASE_ITEM", "FUNCTION_DEF"}
Flags == {"BACKGROUND", "OR", "AND", "BANG", "DOUBLE_SEMI", "SEMI_AND"}

\* value: the token a leaf was made from, else "".  freed: how often it was freed.
ASTNodeCtor(t, v) == [type |-> t, value |-> v, kids |-> <<>>, flags |-> {}, freed |-> 0]

At(i) == IF i <= Len(input) THEN input[i] ELSE "EOF"
current_token == At(pos)
peek_token == At(pos + 1)

-----------------------------------------------------------------------------
(* Instructions.                                                             *)

advanceTokens == [op |-> "advance"]
Need(S) == [op |-> "need", tokens |-> S]              \* anything else is a syntax error
NeedChild == [op |-> "needChild"]
Make(t) == [op |-> "make", type |-> t]                \* createAndInsertEmpty
MakeLocal(t) == [op |-> "makeLocal", type |-> t]      \* ASTNodeCtor, freed on error
Attach == [op |-> "attach"]                           \* ASTaddChild when it is complete
Leaf(t) == [op |-> "leaf", type |-> t]                \* createAndInsertFromToken
Flag(f) == [op |-> "flag", flag |-> f, depth |-> 0]   \* on the node
Mark(f) == [op |-> "flag", flag |-> f, depth |-> 1]   \* on its last child
MarkLast(f) == [op |-> "flag", flag |-> f, depth |-> 2]
If(S, a, b) == [op |-> "if", tokens |-> S, then |-> a, else |-> b]
IfPeek(S, a, b) == [op |-> "ifPeek", tokens |-> S, then |-> a, else |-> b]
Opt(S, a) == If(S, a, <<>>)
Fail == Need({})
Call(p) == [op |-> "call", to |-> p]
Go(p) == [op |-> "go", to |-> p]      \* a loop, or a call of a function that makes no node

TakeWord(t) == <<Need(TOKEN_WORD), Leaf(t), advanceTokens>>
Keyword(k) == <<Need({k}), advanceTokens>>

-----------------------------------------------------------------------------
(* The functions.                                                            *)

analyzeLineBreak_AlsoEOF == <<Opt({"NEWLINE", "EOF"}, <<advanceTokens, Go("LineBreak")>>)>>
analyzeLineBreak == <<Opt({"NEWLINE"}, <<advanceTokens, Go("LineBreak")>>)>>
analyzeNewline == <<Need({"NEWLINE"}), Go("LineBreak")>>

analyzeProgram ==
    <<Go("LineBreak"), If({"EOF"}, <<>>, <<Call("CompleteCommand"), Go("MoreCommands")>>)>>
MoreCommands ==
    <<Opt({"NEWLINE"}, <<Go("Newline"),
                         If({"EOF"}, <<>>, <<Call("CompleteCommand"), Go("MoreCommands")>>)>>)>>

analyzeCompleteCommand_NoFlag ==
    <<Make("COMPLETE_COMMAND"), Call("List"), Opt({"BG", "SEMI"}, <<advanceTokens>>)>>
analyzeCompleteCommand ==
    <<Make("COMPLETE_COMMAND"), Call("List"),
      If({"BG"}, <<MarkLast("BACKGROUND"), advanceTokens>>, <<Opt({"SEMI"}, <<advanceTokens>>)>>)>>

analyzeList == <<MakeLocal("LIST"), Call("AndOr"), Go("ListRest")>>
ListRest ==
    <<If({"SEMI", "BG"},
         <<IfPeek({"NEWLINE", "EOF"}, <<Attach>>,
                  <<Opt({"BG"}, <<Mark("BACKGROUND")>>), advanceTokens, Call("AndOr"), Go("ListRest")>>)>>,
         <<Attach>>)>>

analyzeAndOr == <<MakeLocal("AND_OR"), Call("Pipeline"), Go("AndOrRest")>>

AndOrRest_NoOrFlag ==
    <<If({"AND_IF", "OR_IF"},
         <<Opt({"AND_IF"}, <<Mark("AND")>>), advanceTokens, Go("LineBreak"),
           Call("Pipeline"), Go("AndOrRest")>>,
         <<Attach>>)>>
AndOrRest ==
    <<If({"AND_IF", "OR_IF"},
         <<If({"AND_IF"}, <<Mark("AND")>>, <<Mark("OR")>>), advanceTokens, Go("LineBreak"),
           Call("Pipeline"), Go("AndOrRest")>>,
         <<Attach>>)>>

analyzePipeline ==
    <<MakeLocal("PIPELINE"), Opt({"BANG"}, <<Flag("BANG"), advanceTokens>>),
      Call("Command"), Go("PipelineRest")>>
PipelineRest ==
    <<If({"PIPE"}, <<advanceTokens, Go("LineBreak"), Call("Command"), Go("PipelineRest")>>,
         <<Attach>>)>>

\* A word before "(" starts a function, also a reserved word.
analyzeCommand ==
    <<If({"ERROR"}, <<Fail>>, <<>>),
      If(TOKEN_WORD, <<IfPeek({"LPAREN"}, <<Go("FunctionDef")>>, <<Go("OtherCommand")>>)>>,
                     <<Go("OtherCommand")>>)>>
OtherCommand ==
    <<If({"if", "while", "until", "for", "case", "LPAREN", "LBRACE"},
         <<Go("CompoundCommand")>>, <<Go("SimpleCommand")>>)>>

PrefixStart == {"assign", "IO_NUM", "REDIR"}
SuffixStart == TOKEN_WORD \cup {"IO_NUM", "REDIR"}

analyzeSimpleCommand ==
    <<Make("SIMPLE_COMMAND"),
      Opt(PrefixStart, <<Call("CmdPrefix")>>),
      Opt(TOKEN_WORD, <<Leaf("CMD_WORD"), advanceTokens, Opt(SuffixStart, <<Call("CmdSuffix")>>)>>),
      NeedChild>>

analyzeCmdPrefix == <<Make("CMD_PREFIX"), Go("PrefixRest")>>
PrefixRest ==
    <<Opt(PrefixStart, <<If({"assign"}, <<Leaf("ASSIGNMENT_WORD"), advanceTokens>>, <<Call("Redirect")>>),
                         Go("PrefixRest")>>)>>

analyzeRedirect ==
    <<Make("REDIRECT"), Opt({"IO_NUM"}, <<Leaf("IO_NUM"), advanceTokens>>),
      Need({"REDIR"}), advanceTokens>> \o TakeWord("WORD")

analyzeCmdSuffix == <<Make("CMD_SUFFIX"), Go("SuffixRest")>>
SuffixRest ==
    <<Opt(SuffixStart, <<If(TOKEN_WORD, <<Leaf("WORD"), advanceTokens>>, <<Call("Redirect")>>),
                         Go("SuffixRest")>>)>>

analyzeSubshell ==
    <<Make("SUBSHELL")>> \o Keyword("LPAREN") \o <<Go("CompoundList")>> \o Keyword("RPAREN")

analyzeBraceGroup ==
    <<Make("BRACE_GROUP")>> \o Keyword("LBRACE") \o <<Go("CompoundList")>> \o Keyword("RBRACE")

\* TERM has taken every separator, so the two branches are never taken.
analyzeCompoundList ==
    <<Go("LineBreak"), Call("Term"),
      If({"SEMI"}, <<advanceTokens>>, <<Opt({"BG"}, <<Mark("BACKGROUND"), advanceTokens>>)>>),
      Go("LineBreak")>>

isCompoundListEnd_NoDone ==
    {"EOF", "RPAREN", "RBRACE", "then", "else", "elif", "fi", "do", "esac"}
isCompoundListEnd ==
    {"EOF", "RPAREN", "RBRACE", "then", "else", "elif", "fi", "do", "done", "esac"}

\* Newlines alone do not separate commands here.
analyzeTerm == <<MakeLocal("LIST"), Call("AndOr"), Go("TermRest")>>
TermRest ==
    <<If({"SEMI", "BG"},
         <<If({"BG"}, <<advanceTokens, Go("LineBreak"), Mark("BACKGROUND")>>,
                      <<advanceTokens, Go("LineBreak")>>),
           If(isCompoundListEnd, <<Attach>>, <<Call("AndOr"), Go("TermRest")>>)>>,
         <<Attach>>)>>

analyzeIfClause ==
    <<Make("IF_CLAUSE")>> \o Keyword("if") \o <<Go("CompoundList")>>
    \o Keyword("then") \o <<Go("CompoundList"), Opt({"else", "elif"}, <<Call("ElsePart")>>)>>
    \o Keyword("fi")

\* elif is an IF_CLAUSE in the place of the else part.
analyzeElsePart ==
    <<If({"else"},
         <<advanceTokens, Make("ELSE_CLAUSE"), Go("CompoundList")>>,
         <<advanceTokens, Make("IF_CLAUSE"), Go("CompoundList")>> \o Keyword("then")
         \o <<Go("CompoundList"), Opt({"else", "elif"}, <<Call("ElsePart")>>)>>)>>

analyzeWhileClause ==
    <<Make("WHILE_CLAUSE")>> \o Keyword("while") \o <<Go("CompoundList"), Go("DoGroup")>>
analyzeUntilClause ==
    <<Make("UNTIL_CLAUSE")>> \o Keyword("until") \o <<Go("CompoundList"), Go("DoGroup")>>
analyzeDoGroup == Keyword("do") \o <<Go("CompoundList")>> \o Keyword("done")

analyzeForClause ==
    <<Make("FOR_CLAUSE")>> \o Keyword("for") \o TakeWord("WORD")
    \o <<If({"in", "NEWLINE"}, <<Go("LineBreak")>> \o Keyword("in") \o <<Go("ForWords")>>,
                               <<Opt({"SEMI"}, <<advanceTokens>>), Go("LineBreak")>>),
         Go("DoGroup")>>
ForWords ==
    <<If(TOKEN_WORD, <<Leaf("WORD"), advanceTokens, Go("ForWords")>>,
         <<If({"SEMI"}, <<advanceTokens, Go("LineBreak")>>, <<Go("Newline")>>)>>)>>

analyzeCaseClause ==
    <<Make("CASE_CLAUSE")>> \o Keyword("case") \o TakeWord("WORD") \o <<Go("LineBreak")>>
    \o Keyword("in") \o <<Go("LineBreak"), Go("CaseItems")>> \o Keyword("esac")
CaseItems ==
    <<If({"EOF", "esac"}, <<>>, <<Call("CaseItem"), Go("LineBreak"), Go("CaseItems")>>)>>

analyzeCaseItem ==
    <<Make("CASE_ITEM"), If({"LPAREN"}, <<advanceTokens, Go("Patterns")>>,
                                        <<If({"esac"}, <<>>, <<Go("Patterns")>>)>>)>>
Patterns ==
    TakeWord("WORD")
    \o <<If({"PIPE"}, <<advanceTokens, Go("Patterns")>>,
            Keyword("RPAREN")
            \o <<If({"DOUBLE_SEMI", "SEMI_AND", "esac"}, <<>>, <<Go("CompoundList")>>),
                 If({"DOUBLE_SEMI"}, <<Flag("DOUBLE_SEMI"), advanceTokens, Go("LineBreak")>>,
                    <<Opt({"SEMI_AND"}, <<Flag("SEMI_AND"), advanceTokens, Go("LineBreak")>>)>>)>>)>>

analyzeFunctionDef ==
    <<Make("FUNCTION_DEF")>> \o TakeWord("WORD") \o Keyword("LPAREN") \o Keyword("RPAREN")
    \o <<Go("LineBreak"), Call("CompoundCommand"), Go("FunctionRedirects")>>
FunctionRedirects == <<Opt({"REDIR", "IO_NUM"}, <<Call("Redirect"), Go("FunctionRedirects")>>)>>

analyzeCompoundCommand ==
    <<If({"LBRACE"}, <<Go("BraceGroup")>>, <<If({"LPAREN"}, <<Go("Subshell")>>,
      <<If({"if"}, <<Go("IfClause")>>, <<If({"while"}, <<Go("WhileClause")>>,
        <<If({"until"}, <<Go("UntilClause")>>, <<If({"for"}, <<Go("ForClause")>>,
          <<If({"case"}, <<Go("CaseClause")>>, <<Fail>>)>>)>>)>>)>>)>>)>>)>>

Body == [
    LineBreak       |-> analyzeLineBreak,        Newline         |-> analyzeNewline,
    Program         |-> analyzeProgram,          MoreCommands    |-> MoreCommands,
    CompleteCommand |-> analyzeCompleteCommand,  List            |-> analyzeList,
    ListRest        |-> ListRest,                AndOr           |-> analyzeAndOr,
    AndOrRest       |-> AndOrRest,               Pipeline        |-> analyzePipeline,
    PipelineRest    |-> PipelineRest,            Command         |-> analyzeCommand,
    OtherCommand    |-> OtherCommand,            SimpleCommand   |-> analyzeSimpleCommand,
    CmdPrefix       |-> analyzeCmdPrefix,        PrefixRest      |-> PrefixRest,
    Redirect        |-> analyzeRedirect,         CmdSuffix       |-> analyzeCmdSuffix,
    SuffixRest      |-> SuffixRest,              Subshell        |-> analyzeSubshell,
    BraceGroup      |-> analyzeBraceGroup,       CompoundList    |-> analyzeCompoundList,
    Term            |-> analyzeTerm,             TermRest        |-> TermRest,
    IfClause        |-> analyzeIfClause,         ElsePart        |-> analyzeElsePart,
    WhileClause     |-> analyzeWhileClause,      UntilClause     |-> analyzeUntilClause,
    DoGroup         |-> analyzeDoGroup,          ForClause       |-> analyzeForClause,
    ForWords        |-> ForWords,                CaseClause      |-> analyzeCaseClause,
    CaseItems       |-> CaseItems,               CaseItem        |-> analyzeCaseItem,
    Patterns        |-> Patterns,                FunctionDef     |-> analyzeFunctionDef,
    FunctionRedirects |-> FunctionRedirects,     CompoundCommand |-> analyzeCompoundCommand]

-----------------------------------------------------------------------------
(* The interpreter.                                                          *)

\* own: the node the call works on; local: it is not in the tree yet.
Frame(p, n) == [todo |-> Body[p], own |-> n, local |-> FALSE]
Top == stack[Len(stack)]
Caller == stack[Len(stack) - 1]
Drop == SubSeq(stack, 1, Len(stack) - 1)
SetTop(f) == [stack EXCEPT ![Len(stack)] = f]
Does(o) == phase = "parsing" /\ stack # <<>> /\ Top.todo # <<>> /\ Head(Top.todo).op = o
Instr == Head(Top.todo)
Proceed == [Top EXCEPT !.todo = Tail(@)]
Instead(is) == SetTop([Top EXCEPT !.todo = is \o Tail(@)])

WithChild(h, n, c) == [h EXCEPT ![n].kids = Append(@, c)]

\* The error of the token that becomes current is the error of the call.
AdvanceTokens ==
    /\ Does("advance")
    /\ pos' = IF pos <= Len(input) THEN pos + 1 ELSE pos
    /\ phase' = IF peek_token = "ERROR" THEN "failing" ELSE phase
    /\ stack' = SetTop(Proceed)
    /\ UNCHANGED <<input, heap>>

NeedToken ==
    /\ Does("need")
    /\ IF current_token \in Instr.tokens
       THEN stack' = SetTop(Proceed) /\ UNCHANGED phase
       ELSE phase' = "failing" /\ UNCHANGED stack
    /\ UNCHANGED <<input, pos, heap>>

NeedChildren ==
    /\ Does("needChild")
    /\ IF heap[Top.own].kids # <<>>
       THEN stack' = SetTop(Proceed) /\ UNCHANGED phase
       ELSE phase' = "failing" /\ UNCHANGED stack
    /\ UNCHANGED <<input, pos, heap>>

createAndInsertEmpty ==
    /\ Does("make")
    /\ heap' = Append(WithChild(heap, Top.own, Len(heap) + 1), ASTNodeCtor(Instr.type, ""))
    /\ stack' = SetTop([Proceed EXCEPT !.own = Len(heap) + 1])
    /\ UNCHANGED <<input, pos, phase>>

MakeLocalNode ==
    /\ Does("makeLocal")
    /\ heap' = Append(heap, ASTNodeCtor(Instr.type, ""))
    /\ stack' = SetTop([Proceed EXCEPT !.own = Len(heap) + 1, !.local = TRUE])
    /\ UNCHANGED <<input, pos, phase>>

createAndInsertFromToken ==
    /\ Does("leaf")
    /\ heap' = Append(WithChild(heap, Top.own, Len(heap) + 1), ASTNodeCtor(Instr.type, current_token))
    /\ stack' = SetTop(Proceed)
    /\ UNCHANGED <<input, pos, phase>>

AttachNode_Self ==
    /\ Does("attach")
    /\ heap' = WithChild(heap, Top.own, Top.own)
    /\ stack' = SetTop([Proceed EXCEPT !.local = FALSE])
    /\ UNCHANGED <<input, pos, phase>>

AttachNode ==
    /\ Does("attach")
    /\ heap' = WithChild(heap, Caller.own, Top.own)
    /\ stack' = SetTop([Proceed EXCEPT !.local = FALSE])
    /\ UNCHANGED <<input, pos, phase>>

LastKid(n) == heap[n].kids[Len(heap[n].kids)]

SetFlag ==
    /\ Does("flag")
    /\ LET n == IF Instr.depth = 0 THEN Top.own
                ELSE IF Instr.depth = 1 THEN LastKid(Top.own) ELSE LastKid(LastKid(Top.own))
       IN  heap' = [heap EXCEPT ![n].flags = @ \cup {Instr.flag}]
    /\ stack' = SetTop(Proceed)
    /\ UNCHANGED <<input, pos, phase>>

Branch ==
    /\ \/ Does("if") /\ stack' = Instead(IF current_token \in Instr.tokens THEN Instr.then ELSE Instr.else)
       \/ Does("ifPeek") /\ stack' = Instead(IF peek_token \in Instr.tokens THEN Instr.then ELSE Instr.else)
       \/ Does("go") /\ stack' = Instead(Body[Instr.to])
    /\ UNCHANGED <<input, pos, heap, phase>>

CallFunction ==
    /\ Does("call")
    /\ stack' = Append(SetTop(Proceed), Frame(Instr.to, Top.own))
    /\ UNCHANGED <<input, pos, heap, phase>>

Return ==
    /\ phase = "parsing" /\ stack # <<>> /\ Top.todo = <<>>
    /\ stack' = Drop
    /\ phase' = IF Len(stack) = 1 THEN "accepted" ELSE phase
    /\ UNCHANGED <<input, pos, heap>>

-----------------------------------------------------------------------------
(* Errors, and what becomes of the tree.                                     *)

\* A node is made before its children, so a child has the larger number.
InTree(h, n) ==
    LET In[m \in n..Len(h)] == m = n \/ \E p \in n..(m - 1) : Contains(h[p].kids, m) /\ In[p]
    IN  {m \in n..Len(h) : In[m]}

ASTFreeTree(h, n) ==
    [m \in DOMAIN h |-> IF m \in InTree(h, n) THEN [h[m] EXCEPT !.freed = @ + 1] ELSE h[m]]

\* ERR_CHECK: a call whose node is not in the tree yet frees what it built.
ReturnError_KeepsLocal ==
    /\ phase = "failing" /\ stack # <<>>
    /\ stack' = Drop
    /\ UNCHANGED <<input, pos, heap, phase>>

ReturnError ==
    /\ phase = "failing" /\ stack # <<>>
    /\ heap' = IF Top.local THEN ASTFreeTree(heap, Top.own) ELSE heap
    /\ stack' = Drop
    /\ UNCHANGED <<input, pos, phase>>

analyze ==
    /\ phase = "failing" /\ stack = <<>>
    /\ heap' = ASTFreeTree(heap, 1)
    /\ phase' = "rejected"
    /\ UNCHANGED <<input, pos, stack>>

\* runScript and runInteractive free ast_root whatever analyze returned.  After an
\* error it is freed already: what that second free does is undefined, and the
\* model counts the root and stops.
CallerFreesTree ==
    /\ \/ phase = "accepted" /\ heap' = ASTFreeTree(heap, 1)
       \/ phase = "rejected" /\ heap' = [heap EXCEPT ![1].freed = @ + 1]
    /\ phase' = "over"
    /\ UNCHANGED <<input, pos, stack>>

Init ==
    /\ input \in Input
    /\ pos = 1
    /\ heap = <<ASTNodeCtor("PROGRAM", "")>>
    /\ stack = <<Frame("Program", 1)>>
    /\ phase = "parsing"

Step ==
    \/ AdvanceTokens \/ NeedToken \/ NeedChildren
    \/ createAndInsertEmpty \/ MakeLocalNode \/ createAndInsertFromToken
    \/ AttachNode \/ SetFlag \/ Branch \/ CallFunction \/ Return
    \/ ReturnError \/ analyze \/ CallerFreesTree

Finished == phase = "over" /\ UNCHANGED vars

Next == Step \/ Finished

Spec == Init /\ [][Next]_vars
FairSpec == Spec /\ WF_vars(Step)

-----------------------------------------------------------------------------
(* What the executor relies on.                                              *)

Compound == {"SUBSHELL", "BRACE_GROUP", "IF_CLAUSE", "WHILE_CLAUSE", "UNTIL_CLAUSE",
             "FOR_CLAUSE", "CASE_CLAUSE"}
Command == Compound \cup {"SIMPLE_COMMAND", "FUNCTION_DEF"}
PrefixPart == {"ASSIGNMENT_WORD", "REDIRECT"}
SuffixPart == {"WORD", "REDIRECT"}
Plain(ks) == [first |-> ks, many |-> {}, last |-> <<>>]
Many(ks, m, l) == [first |-> ks, many |-> m, last |-> l]

\* The children of a node: the first ones, any number of others, the last ones.
Shapes == [
    PROGRAM |-> {Many(<<>>, {"COMPLETE_COMMAND"}, <<>>)},
    COMPLETE_COMMAND |-> {Plain(<<{"LIST"}>>)},
    LIST |-> {Many(<<{"AND_OR"}>>, {"AND_OR"}, <<>>)},
    AND_OR |-> {Many(<<{"PIPELINE"}>>, {"PIPELINE"}, <<>>)},
    PIPELINE |-> {Many(<<Command>>, Command, <<>>)},
    SIMPLE_COMMAND |-> {Plain(<<{"CMD_PREFIX"}>>), Plain(<<{"CMD_WORD"}>>),
                        Plain(<<{"CMD_PREFIX"}, {"CMD_WORD"}>>), Plain(<<{"CMD_WORD"}, {"CMD_SUFFIX"}>>),
                        Plain(<<{"CMD_PREFIX"}, {"CMD_WORD"}, {"CMD_SUFFIX"}>>)},
    CMD_PREFIX |-> {Many(<<PrefixPart>>, PrefixPart, <<>>)},
    CMD_SUFFIX |-> {Many(<<SuffixPart>>, SuffixPart, <<>>)},
    REDIRECT |-> {Plain(<<{"WORD"}>>), Plain(<<{"IO_NUM"}, {"WORD"}>>)},
    SUBSHELL |-> {Plain(<<{"LIST"}>>)},
    BRACE_GROUP |-> {Plain(<<{"LIST"}>>)},
    IF_CLAUSE |-> {Plain(<<{"LIST"}, {"LIST"}>>),
                   Plain(<<{"LIST"}, {"LIST"}, {"IF_CLAUSE", "ELSE_CLAUSE"}>>)},
    ELSE_CLAUSE |-> {Plain(<<{"LIST"}>>)},
    WHILE_CLAUSE |-> {Plain(<<{"LIST"}, {"LIST"}>>)},
    UNTIL_CLAUSE |-> {Plain(<<{"LIST"}, {"LIST"}>>)},
    FOR_CLAUSE |-> {Many(<<{"WORD"}>>, {"WORD"}, <<{"LIST"}>>)},
    CASE_CLAUSE |-> {Many(<<{"WORD"}>>, {"CASE_ITEM"}, <<>>)},
    CASE_ITEM |-> {Many(<<{"WORD"}>>, {"WORD"}, <<>>), Many(<<{"WORD"}>>, {"WORD"}, <<{"LIST"}>>)},
    FUNCTION_DEF |-> {Many(<<{"WORD"}, Compound>>, {"REDIRECT"}, <<>>)},
    CMD_WORD |-> {Plain(<<>>)}, WORD |-> {Plain(<<>>)}, ASSIGNMENT_WORD |-> {Plain(<<>>)},
    IO_NUM |-> {Plain(<<>>)}]

Kids(n) == heap[n].kids
Has(n, f) == f \in heap[n].flags

FitsShape(ks, s) ==
    /\ Len(ks) >= Len(s.first) + Len(s.last)
    /\ \A i \in DOMAIN ks :
          heap[ks[i]].type \in
              IF i <= Len(s.first) THEN s.first[i]
              ELSE IF i > Len(ks) - Len(s.last) THEN s.last[i - (Len(ks) - Len(s.last))]
              ELSE s.many

FlagsAllowed == [t \in NodeType |->
    IF t = "AND_OR" THEN {"BACKGROUND"} ELSE IF t = "PIPELINE" THEN {"BANG", "AND", "OR"}
    ELSE IF t = "CASE_ITEM" THEN {"DOUBLE_SEMI", "SEMI_AND"} ELSE {}]

\* A pipeline says how the next one of the and-or list follows it.
Operators(ps) ==
    \A i \in DOMAIN ps : (i < Len(ps) <=> Has(ps[i], "AND") # Has(ps[i], "OR"))

-----------------------------------------------------------------------------
(* The program a tree stands for, without the tokens that leave no trace.    *)

Traceless == {"NEWLINE", "SEMI", "LPAREN", "in"}
Trace(s) == SelectSeq(s, LAMBDA t : t \notin Traceless)

\* Unparsed[n] is n as tokens; an IF_CLAUSE starts with its condition and ends
\* without "fi", for an elif has neither an "if" nor a "fi" of its own.
Unparsed ==
    LET U[n \in DOMAIN heap] ==
        LET ks == Kids(n)
            t == heap[n].type
            Kid(i) == U[ks[i]]
            From(i) == FlattenSeq([j \in 1..(Len(ks) + 1 - i) |-> Kid(i + j - 1)])
            All == From(1)
            Flagged(f) == IF Has(n, f) THEN <<f>> ELSE <<>>
            Whole(i) == IF heap[ks[i]].type = "IF_CLAUSE" THEN <<"if">> \o Kid(i) \o <<"fi">> ELSE Kid(i)
            Piped == FlattenSeq([i \in DOMAIN ks |-> (IF i = 1 THEN <<>> ELSE <<"PIPE">>) \o Whole(i)])
            Body2(k) == <<k>> \o Kid(1) \o <<"do">> \o Kid(2) \o <<"done">>
        IN CASE t \in {"CMD_WORD", "WORD", "ASSIGNMENT_WORD", "IO_NUM"} -> <<heap[n].value>>
             [] t = "AND_OR" -> All \o (IF Has(n, "BACKGROUND") THEN <<"BG">> ELSE <<>>)
             [] t = "PIPELINE" -> Flagged("BANG") \o Piped \o (IF Has(n, "AND") THEN <<"AND_IF">> ELSE <<>>)
                                  \o (IF Has(n, "OR") THEN <<"OR_IF">> ELSE <<>>)
             [] t = "REDIRECT" -> SubSeq(All, 1, Len(All) - 1) \o <<"REDIR">> \o <<Last(All)>>
             [] t = "SUBSHELL" -> All \o <<"RPAREN">>
             [] t = "BRACE_GROUP" -> <<"LBRACE">> \o All \o <<"RBRACE">>
             [] t = "IF_CLAUSE" -> Kid(1) \o <<"then">> \o Kid(2)
                 \o (IF Len(ks) < 3 THEN <<>>
                     ELSE (IF heap[ks[3]].type = "IF_CLAUSE" THEN <<"elif">> ELSE <<"else">>) \o Kid(3))
             [] t = "WHILE_CLAUSE" -> Body2("while")
             [] t = "UNTIL_CLAUSE" -> Body2("until")
             [] t = "FOR_CLAUSE" -> <<"for">> \o FlattenSeq([i \in 1..(Len(ks) - 1) |-> Kid(i)])
                                    \o <<"do">> \o Kid(Len(ks)) \o <<"done">>
             [] t = "CASE_CLAUSE" -> <<"case">> \o All \o <<"esac">>
             [] t = "CASE_ITEM" ->
                 LET w == Cardinality({i \in DOMAIN ks : heap[ks[i]].type = "WORD"})
                 IN  FlattenSeq([i \in 1..w |-> Kid(i) \o (IF i = w THEN <<"RPAREN">> ELSE <<"PIPE">>)])
                     \o From(w + 1) \o Flagged("DOUBLE_SEMI") \o Flagged("SEMI_AND")
             [] t = "FUNCTION_DEF" -> Kid(1) \o <<"RPAREN">> \o Whole(2) \o From(3)
             [] OTHER -> All
    IN  U

-----------------------------------------------------------------------------
(* Properties.                                                               *)

\* The parser's state has its type: it looks at a token of the input or at the
\* end, every call works on a node that exists, and a child was made after its
\* parent, so that there is no cycle for ASTFreeTree to follow.
TypeOK ==
    /\ input \in Seq(Token)
    /\ pos \in 1..(Len(input) + 1)
    /\ phase \in {"parsing", "failing", "accepted", "rejected", "over"}
    /\ \A n \in DOMAIN heap :
          /\ heap[n].type \in NodeType /\ heap[n].flags \subseteq Flags /\ heap[n].freed \in 0..2
          /\ \A i \in DOMAIN Kids(n) : Kids(n)[i] \in (n + 1)..Len(heap)
    /\ \A i \in DOMAIN stack : stack[i].own \in DOMAIN heap /\ stack[i].local \in BOOLEAN

\* An accepted tree is one the executor can walk: execute.c takes children[0],
\* children[1], the last child and the flags of every kind of node without
\* asking whether they are there.  Every node hangs below the root.
TreeFits ==
    phase = "accepted" =>
        /\ InTree(heap, 1) = DOMAIN heap
        /\ \A n \in DOMAIN heap :
              /\ \E s \in Shapes[heap[n].type] : FitsShape(Kids(n), s)
              /\ heap[n].flags \subseteq FlagsAllowed[heap[n].type]
              /\ heap[n].type = "AND_OR" => Operators(Kids(n))

\* The tree of an accepted program is the program: read back, it gives the
\* tokens the parser consumed, in their order and each once, but for the ones
\* that leave no trace in a tree (separators, "(" and "in").
NothingDropped ==
    phase = "accepted" => Trace(Unparsed[1]) = Trace(SubSeq(input, 1, pos - 1))

\* Whatever a syntax error interrupts, analyze has freed every node when it
\* returns, those of the lists, and-or lists and pipelines that were not in the
\* tree yet included, and none of them twice.
ErrorFreesAll ==
    phase = "rejected" => \A n \in DOMAIN heap : heap[n].freed = 1

\* The parser ends on every input: no loop of the grammar waits for a token the
\* lexer will not deliver, and all the memory is freed.
Terminates == <>(phase = "over" /\ \A n \in DOMAIN heap : heap[n].freed > 0)
=============================================================================
