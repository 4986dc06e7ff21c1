---------------------------- MODULE ParserProofs ----------------------------
(***************************************************************************)
(* What the parser does to the heap is safe for every input: its state has *)
(* its type, and whichever way analyze ends, every node is freed, after a  *)
(* syntax error exactly once by the time analyze returns.                  *)
(*                                                                         *)
(* The inductive invariant ParserInv has two halves.  The heap is a forest *)
(* whose roots are ast_root and the nodes of the calls that have not       *)
(* attached theirs; and every call has code to do that keeps it so: a      *)
(* function either inserts its node when it makes it, or makes it, builds  *)
(* it and attaches it last.  The first part of the module shows that the   *)
(* functions of the parser are of these two kinds.                         *)
(*                                                                         *)
(* The second half of the module, from "What a call knows of its node" on, *)
(* proves that an accepted tree fits the executor.  Leads(c, A, B) says    *)
(* that code c takes a call that knows A to where it knows B: the states   *)
(* its node may be in, and the tokens that may be current.  Every function *)
(* is shown to lead from what its callers give it to what they expect; the *)
(* invariant TreeInv says that each call of the stack is on such a way,    *)
(* that its node is in a state it knows, and that the other nodes are      *)
(* complete.                                                               *)
(***************************************************************************)
EXTENDS Parser, FiniteSetTheorems, SequenceTheorems, TLAPS

-----------------------------------------------------------------------------
(* What a call still has to do.                                              *)

\* The functions whose node is not in the tree until they attach it, the loops of those
\* functions, and the others.
Builders == {"List", "AndOr", "Pipeline", "Term"}
Loops == {"ListRest", "AndOrRest", "PipelineRest", "TermRest"}
Others == {"LineBreak", "Newline", "Program", "MoreCommands", "CompleteCommand", "Command",
           "OtherCommand", "SimpleCommand", "CmdPrefix", "PrefixRest", "Redirect", "CmdSuffix",
           "SuffixRest", "Subshell", "BraceGroup", "CompoundList", "IfClause", "ElsePart",
           "WhileClause", "UntilClause", "DoGroup", "ForClause", "ForWords", "CaseClause",
           "CaseItems", "CaseItem", "Patterns", "FunctionDef", "FunctionRedirects",
           "CompoundCommand"}

Sets == SUBSET (Token \cup {"EOF"})

\* The instructions that leave the call's node and its place alone.
Simple ==
    {advanceTokens, NeedChild} \cup {Need(S) : S \in Sets}
    \cup {Leaf(t) : t \in NodeType}
    \cup {Flag(f) : f \in Flags} \cup {Mark(f) : f \in Flags} \cup {MarkLast(f) : f \in Flags}
    \cup {Call(p) : p \in Builders \cup Others}

\* Those, and the branches between sequences of S.
ChoicesOf(S) ==
    {If(T, a, b) : T \in Sets, a \in S, b \in S}
    \cup {IfPeek(T, a, b) : T \in Sets, a \in S, b \in S}
Branching(I) == I \cup ChoicesOf(Seq(I))

\* In a function that inserts its node at once.
Open0 == Simple \cup {Make(t) : t \in NodeType} \cup {Go(p) : p \in Others}
Open1 == Branching(Open0)
Open2 == Branching(Open1)
Open3 == Branching(Open2)
Open == Branching(Branching(Branching(Branching(Open3))))

\* In a builder, before its end.
Inner == Branching(Simple \cup {Go("LineBreak")})

\* The last instruction of a builder attaches the node, goes on with the loop or is a choice
\* between two ends.
Ended(E) ==
    {s \in Seq(Inner \cup E) :
        s # <<>> /\ s[Len(s)] \in E /\ \A k \in 1..Len(s) - 1 : s[k] \in Inner}
End0 == {Attach} \cup {Go(p) : p \in Loops}
End1 == End0 \cup ChoicesOf(Ended(End0))
End == End1 \cup ChoicesOf(Ended(End1))

OpenCode == Seq(Open)
BuildCode == Ended(End)
StartCode == {Body[p] : p \in Builders}

LEMMA SimpleIs ==
    /\ advanceTokens \in Simple /\ NeedChild \in Simple
    /\ \A S \in Sets : Need(S) \in Simple
    /\ \A t \in NodeType : Leaf(t) \in Simple
    /\ \A f \in Flags : Flag(f) \in Simple /\ Mark(f) \in Simple /\ MarkLast(f) \in Simple
    /\ \A p \in Builders \cup Others : Call(p) \in Simple
  BY DEF Simple

LEMMA ChoicesAre ==
    ASSUME NEW S, NEW T \in Sets, NEW a \in S, NEW b \in S
    PROVE  If(T, a, b) \in ChoicesOf(S) /\ IfPeek(T, a, b) \in ChoicesOf(S)
  BY DEF ChoicesOf

LEMMA ChoiceIs ==
    ASSUME NEW S, NEW i \in ChoicesOf(S)
    PROVE  i.op \in {"if", "ifPeek"} /\ i.then \in S /\ i.else \in S
  BY DEF ChoicesOf, If, IfPeek

LEMMA SimpleOps ==
    ASSUME NEW i \in Simple
    PROVE  /\ i.op \in {"advance", "need", "needChild", "leaf", "flag", "call"}
           /\ i.op = "leaf" => i.type \in NodeType
           /\ i.op = "flag" => i.flag \in Flags
           /\ i.op = "call" => i.to \in Builders \cup Others
  BY DEF Simple, advanceTokens, NeedChild, Need, Leaf, Flag, Mark, MarkLast, Call

\* A set of instructions that holds the branches of its choices, and no attach nor makeLocal.
Whole(I) ==
    \A i \in I : /\ i.op \in {"advance", "need", "needChild", "leaf", "flag", "call", "make", "go", "if", "ifPeek"}
                 /\ i.op \in {"if", "ifPeek"} => i.then \in Seq(I) /\ i.else \in Seq(I)
                 /\ i.op \in {"leaf", "make"} => i.type \in NodeType
                 /\ i.op = "flag" => i.flag \in Flags
                 /\ i.op = "call" => i.to \in Builders \cup Others
                 /\ i.op = "go" => i.to \in Others

\* Branches of a whole set of instructions are whole again.
LEMMA BranchingWhole ==
    ASSUME NEW I, Whole(I)
    PROVE  Whole(Branching(I))
  <1>1. Seq(I) \subseteq Seq(Branching(I))
    BY DEF Branching
  <1> SUFFICES ASSUME NEW i \in ChoicesOf(Seq(I))
               PROVE  i.op \in {"if", "ifPeek"} /\ i.then \in Seq(Branching(I)) /\ i.else \in Seq(Branching(I))
    BY <1>1 DEF Whole, Branching
  <1> QED BY <1>1, ChoiceIs

LEMMA OpenWhole == Whole(Open)
  <1>1. Whole(Open0)
    <2>1. \A t : Make(t).op = "make" /\ Make(t).type = t
      BY DEF Make
    <2>2. \A p : Go(p).op = "go" /\ Go(p).to = p
      BY DEF Go
    <2> QED BY <2>1, <2>2, SimpleOps DEF Open0, Whole
  <1>2. Whole(Open1)
    BY <1>1, BranchingWhole DEF Open1
  <1>3. Whole(Open2)
    BY <1>2, BranchingWhole DEF Open2
  <1>4. Whole(Open3)
    BY <1>3, BranchingWhole DEF Open3
  <1>5. Whole(Branching(Open3))
    BY <1>4, BranchingWhole
  <1>6. Whole(Branching(Branching(Open3)))
    BY <1>5, BranchingWhole
  <1>7. Whole(Branching(Branching(Branching(Open3))))
    BY <1>6, BranchingWhole
  <1> QED BY <1>7, BranchingWhole DEF Open

\* A builder makes no node before its end, and only skips newlines by a loop.
LEMMA InnerWhole == Whole(Inner) /\ \A i \in Inner : i.op # "make" /\ (i.op = "go" => i.to = "LineBreak")
  <1> DEFINE I == Simple \cup {Go("LineBreak")}
  <1>1. Whole(I) /\ \A i \in I : i.op # "make" /\ (i.op = "go" => i.to = "LineBreak")
    <2>1. Go("LineBreak").op = "go" /\ Go("LineBreak").to = "LineBreak"
      BY DEF Go
    <2> QED BY <2>1, SimpleOps DEF Whole, Others
  <1>2. Inner = I \cup ChoicesOf(Seq(I))
    BY DEF Inner, Branching
  <1>3. Whole(Inner)
    BY <1>1, BranchingWhole DEF Inner
  <1> HIDE DEF I
  <1> QED BY <1>1, <1>2, <1>3, ChoiceIs

-----------------------------------------------------------------------------
(* What the sets of instructions hold.                                       *)

LEMMA OpenHas ==
    /\ Simple \subseteq Open0 /\ Open0 \subseteq Open1 /\ Open1 \subseteq Open2 /\ Open2 \subseteq Open3
    /\ Open3 \subseteq Open
    /\ \A t \in NodeType : Make(t) \in Open0
    /\ \A p \in Others : Go(p) \in Open0
  BY DEF Open0, Open1, Open2, Open3, Open, Branching

LEMMA BranchingHas ==
    ASSUME NEW I, NEW T \in Sets, NEW a \in Seq(I), NEW b \in Seq(I)
    PROVE  /\ I \subseteq Branching(I)
           /\ If(T, a, b) \in Branching(I) /\ IfPeek(T, a, b) \in Branching(I)
           /\ Opt(T, a) \in Branching(I)
  <1>1. <<>> \in Seq(I)
    OBVIOUS
  <1> QED BY <1>1, ChoicesAre DEF Branching, Opt

LEMMA TokenSets ==
    /\ TOKEN_WORD \in Sets /\ PrefixStart \in Sets /\ SuffixStart \in Sets /\ isCompoundListEnd \in Sets
    /\ {} \in Sets /\ {"NEWLINE"} \in Sets /\ {"EOF"} \in Sets /\ {"BG"} \in Sets /\ {"SEMI"} \in Sets
    /\ {"SEMI", "BG"} \in Sets /\ {"NEWLINE", "EOF"} \in Sets /\ {"AND_IF", "OR_IF"} \in Sets
    /\ {"AND_IF"} \in Sets /\ {"BANG"} \in Sets /\ {"PIPE"} \in Sets /\ {"ERROR"} \in Sets
    /\ {"LPAREN"} \in Sets /\ {"RPAREN"} \in Sets /\ {"LBRACE"} \in Sets /\ {"RBRACE"} \in Sets
    /\ {"if", "while", "until", "for", "case", "LPAREN", "LBRACE"} \in Sets
    /\ {"assign"} \in Sets /\ {"IO_NUM"} \in Sets /\ {"REDIR"} \in Sets /\ {"else", "elif"} \in Sets
    /\ {"if"} \in Sets /\ {"then"} \in Sets /\ {"else"} \in Sets /\ {"fi"} \in Sets /\ {"while"} \in Sets
    /\ {"until"} \in Sets /\ {"do"} \in Sets /\ {"done"} \in Sets /\ {"for"} \in Sets /\ {"in"} \in Sets
    /\ {"in", "NEWLINE"} \in Sets /\ {"case"} \in Sets /\ {"esac"} \in Sets /\ {"EOF", "esac"} \in Sets
    /\ {"DOUBLE_SEMI", "SEMI_AND", "esac"} \in Sets /\ {"DOUBLE_SEMI"} \in Sets /\ {"SEMI_AND"} \in Sets
    /\ {"REDIR", "IO_NUM"} \in Sets
  BY DEF Sets, Token, TOKEN_WORD, Reserved, Operator, PrefixStart, SuffixStart, isCompoundListEnd

LEMMA WordCode ==
    ASSUME NEW t \in NodeType
    PROVE  TakeWord(t) \in Seq(Simple)
  BY SimpleIs, TokenSets DEF TakeWord

LEMMA KeywordCode ==
    ASSUME NEW k, {k} \in Sets
    PROVE  Keyword(k) \in Seq(Simple)
  BY SimpleIs DEF Keyword

LEMMA LineBreakCode == analyzeLineBreak \in Seq(Open) /\ analyzeLineBreak \in Seq(Inner)
  <1> DEFINE I == Simple \cup {Go("LineBreak")}
             a == <<advanceTokens, Go("LineBreak")>>
  <1>1. a \in Seq(I) /\ a \in Seq(Open0) /\ {"NEWLINE"} \in Sets
    BY SimpleIs, OpenHas, TokenSets DEF Others
  <1>2. Opt({"NEWLINE"}, a) \in Branching(I) /\ Opt({"NEWLINE"}, a) \in Branching(Open0)
    <2> HIDE DEF I, a
    <2> QED BY <1>1, BranchingHas
  <1> QED BY <1>2, OpenHas DEF analyzeLineBreak, Inner, Open1

-----------------------------------------------------------------------------
(* The code of the functions.                                                *)

LEMMA Up ==
    /\ Seq(Simple) \subseteq Seq(Open0) /\ Seq(Open0) \subseteq Seq(Open1)
    /\ Seq(Open1) \subseteq Seq(Open2) /\ Seq(Open2) \subseteq Seq(Open3) /\ Seq(Open3) \subseteq Seq(Open)
    /\ <<>> \in Seq(Open0)
  BY OpenHas

LEMMA Levels ==
    /\ \A T \in Sets, a, b \in Seq(Open0) : If(T, a, b) \in Open1
    /\ \A T \in Sets, a, b \in Seq(Open1) : If(T, a, b) \in Open2
    /\ \A T \in Sets, a, b \in Seq(Open2) : If(T, a, b) \in Open3
    /\ \A T \in Sets, a, b \in Seq(Open0) : IfPeek(T, a, b) \in Open1
    /\ \A T \in Sets, a \in Seq(Open0) : Opt(T, a) \in Open1
    /\ \A T \in Sets, a \in Seq(Open1) : Opt(T, a) \in Open2
  BY BranchingHas DEF Open1, Open2, Open3

LEMMA GoCode ==
    /\ Go("BraceGroup") \in Open0 /\ Go("CaseClause") \in Open0 /\ Go("CaseItems") \in Open0
    /\ Go("CompoundCommand") \in Open0 /\ Go("CompoundList") \in Open0 /\ Go("DoGroup") \in Open0
    /\ Go("ForClause") \in Open0 /\ Go("ForWords") \in Open0 /\ Go("FunctionDef") \in Open0
    /\ Go("FunctionRedirects") \in Open0 /\ Go("IfClause") \in Open0 /\ Go("LineBreak") \in Open0
    /\ Go("MoreCommands") \in Open0 /\ Go("Newline") \in Open0 /\ Go("OtherCommand") \in Open0
    /\ Go("Patterns") \in Open0 /\ Go("PrefixRest") \in Open0 /\ Go("SimpleCommand") \in Open0
    /\ Go("Subshell") \in Open0 /\ Go("SuffixRest") \in Open0 /\ Go("UntilClause") \in Open0
    /\ Go("WhileClause") \in Open0
  BY OpenHas DEF Others

LEMMA CallCode ==
    /\ Call("AndOr") \in Open0 /\ Call("CaseItem") \in Open0 /\ Call("CmdPrefix") \in Open0
    /\ Call("CmdSuffix") \in Open0 /\ Call("Command") \in Open0 /\ Call("CompleteCommand") \in Open0
    /\ Call("CompoundCommand") \in Open0 /\ Call("ElsePart") \in Open0 /\ Call("List") \in Open0
    /\ Call("Pipeline") \in Open0 /\ Call("Redirect") \in Open0 /\ Call("Term") \in Open0
  BY SimpleIs, OpenHas DEF Others, Builders

LEMMA MakeCode ==
    /\ Make("BRACE_GROUP") \in Open0 /\ Make("CASE_CLAUSE") \in Open0 /\ Make("CASE_ITEM") \in Open0
    /\ Make("CMD_PREFIX") \in Open0 /\ Make("CMD_SUFFIX") \in Open0 /\ Make("COMPLETE_COMMAND") \in Open0
    /\ Make("ELSE_CLAUSE") \in Open0 /\ Make("FOR_CLAUSE") \in Open0 /\ Make("FUNCTION_DEF") \in Open0
    /\ Make("IF_CLAUSE") \in Open0 /\ Make("REDIRECT") \in Open0 /\ Make("SIMPLE_COMMAND") \in Open0
    /\ Make("SUBSHELL") \in Open0 /\ Make("UNTIL_CLAUSE") \in Open0 /\ Make("WHILE_CLAUSE") \in Open0
    /\ Leaf("ASSIGNMENT_WORD") \in Open0 /\ Leaf("CMD_WORD") \in Open0 /\ Leaf("IO_NUM") \in Open0
    /\ Leaf("WORD") \in Open0
  BY SimpleIs, OpenHas DEF NodeType

LEMMA MarkCode ==
    /\ Mark("BACKGROUND") \in Open0 /\ MarkLast("BACKGROUND") \in Open0 /\ Flag("DOUBLE_SEMI") \in Open0
    /\ Flag("SEMI_AND") \in Open0
  BY SimpleIs, OpenHas DEF Flags

LEMMA KeywordsCode ==
    /\ Keyword("LBRACE") \in Seq(Open0) /\ Keyword("LPAREN") \in Seq(Open0) /\ Keyword("RBRACE") \in Seq(Open0)
    /\ Keyword("RPAREN") \in Seq(Open0) /\ Keyword("case") \in Seq(Open0) /\ Keyword("do") \in Seq(Open0)
    /\ Keyword("done") \in Seq(Open0) /\ Keyword("esac") \in Seq(Open0) /\ Keyword("fi") \in Seq(Open0)
    /\ Keyword("for") \in Seq(Open0) /\ Keyword("if") \in Seq(Open0) /\ Keyword("in") \in Seq(Open0)
    /\ Keyword("then") \in Seq(Open0) /\ Keyword("until") \in Seq(Open0) /\ Keyword("while") \in Seq(Open0)
    /\ TakeWord("WORD") \in Seq(Open0)
  BY KeywordCode, WordCode, TokenSets, Up DEF NodeType

LEMMA Plainly ==
    /\ advanceTokens \in Open0 /\ NeedChild \in Open0 /\ Fail \in Open0 /\ Need({"NEWLINE"}) \in Open0
    /\ Need({"REDIR"}) \in Open0
  BY SimpleIs, OpenHas, TokenSets DEF Fail

LEMMA NewlineCode == analyzeNewline \in OpenCode
  BY GoCode, Plainly, OpenHas, Up DEF analyzeNewline, OpenCode

LEMMA ProgramCode == analyzeProgram \in OpenCode
  <1> DEFINE x == If({"EOF"}, <<>>, <<Call("CompleteCommand"), Go("MoreCommands")>>)
  <1>1. x \in Open1
    <2>1. <<>> \in Seq(Open0) /\ <<Call("CompleteCommand"), Go("MoreCommands")>> \in Seq(Open0)
      BY GoCode, CallCode, OpenHas, Up
    <2> QED BY <2>1, Levels, TokenSets
  <1> HIDE DEF x
  <1>2. <<Go("LineBreak"), x>> \in OpenCode
    BY <1>1, GoCode, OpenHas, Up DEF OpenCode
  <1> QED BY <1>2 DEF analyzeProgram, x

LEMMA MoreCommandsCode == MoreCommands \in OpenCode
  <1> DEFINE x == If({"EOF"}, <<>>, <<Call("CompleteCommand"), Go("MoreCommands")>>)
             y == Opt({"NEWLINE"}, <<Go("Newline"), x>>)
  <1>1. x \in Open1
    <2>1. <<>> \in Seq(Open0) /\ <<Call("CompleteCommand"), Go("MoreCommands")>> \in Seq(Open0)
      BY GoCode, CallCode, OpenHas, Up
    <2> QED BY <2>1, Levels, TokenSets
  <1> HIDE DEF x
  <1>2. y \in Open2
    <2>1. <<Go("Newline"), x>> \in Seq(Open1)
      BY <1>1, GoCode, OpenHas, Up
    <2> QED BY <2>1, Levels, TokenSets
  <1> HIDE DEF y
  <1>3. <<y>> \in OpenCode
    BY <1>2, OpenHas, Up DEF OpenCode
  <1> QED BY <1>3 DEF MoreCommands, x, y

LEMMA CompleteCommandCode == analyzeCompleteCommand \in OpenCode
  <1> DEFINE x == Opt({"SEMI"}, <<advanceTokens>>)
             y == If({"BG"}, <<MarkLast("BACKGROUND"), advanceTokens>>, <<x>>)
  <1>1. x \in Open1
    <2>1. <<advanceTokens>> \in Seq(Open0)
      BY Plainly, OpenHas, Up
    <2> QED BY <2>1, Levels, TokenSets
  <1> HIDE DEF x
  <1>2. y \in Open2
    <2>1. <<MarkLast("BACKGROUND"), advanceTokens>> \in Seq(Open1) /\ <<x>> \in Seq(Open1)
      BY <1>1, MarkCode, Plainly, OpenHas, Up
    <2> QED BY <2>1, Levels, TokenSets
  <1> HIDE DEF y
  <1>3. <<Make("COMPLETE_COMMAND"), Call("List"), y>> \in OpenCode
    BY <1>2, CallCode, MakeCode, OpenHas, Up DEF OpenCode
  <1> QED BY <1>3 DEF analyzeCompleteCommand, x, y

LEMMA CommandCode == analyzeCommand \in OpenCode
  <1> DEFINE x == If({"ERROR"}, <<Fail>>, <<>>)
             y == IfPeek({"LPAREN"}, <<Go("FunctionDef")>>, <<Go("OtherCommand")>>)
             z == If(TOKEN_WORD, <<y>>, <<Go("OtherCommand")>>)
  <1>1. x \in Open1
    <2>1. <<Fail>> \in Seq(Open0) /\ <<>> \in Seq(Open0)
      BY Plainly, OpenHas, Up
    <2> QED BY <2>1, Levels, TokenSets
  <1> HIDE DEF x
  <1>2. y \in Open1
    <2>1. <<Go("FunctionDef")>> \in Seq(Open0) /\ <<Go("OtherCommand")>> \in Seq(Open0)
      BY GoCode, OpenHas, Up
    <2> QED BY <2>1, Levels, TokenSets
  <1> HIDE DEF y
  <1>3. z \in Open2
    <2>1. <<y>> \in Seq(Open1) /\ <<Go("OtherCommand")>> \in Seq(Open1)
      BY <1>2, GoCode, OpenHas, Up
    <2> QED BY <2>1, Levels, TokenSets
  <1> HIDE DEF z
  <1>4. <<x, z>> \in OpenCode
    BY <1>1, <1>3, OpenHas, Up DEF OpenCode
  <1> QED BY <1>4 DEF analyzeCommand, x, y, z

LEMMA OtherCommandCode == OtherCommand \in OpenCode
  <1> DEFINE x == If({"if", "while", "until", "for", "case", "LPAREN", "LBRACE"}, <<Go("CompoundCommand")>>, <<Go("SimpleCommand")>>)
  <1>1. x \in Open1
    <2>1. <<Go("CompoundCommand")>> \in Seq(Open0) /\ <<Go("SimpleCommand")>> \in Seq(Open0)
      BY GoCode, OpenHas, Up
    <2> QED BY <2>1, Levels, TokenSets
  <1> HIDE DEF x
  <1>2. <<x>> \in OpenCode
    BY <1>1, OpenHas, Up DEF OpenCode
  <1> QED BY <1>2 DEF OtherCommand, x

LEMMA SimpleCommandCode == analyzeSimpleCommand \in OpenCode
  <1> DEFINE x == Opt(PrefixStart, <<Call("CmdPrefix")>>)
             y == Opt(SuffixStart, <<Call("CmdSuffix")>>)
             z == Opt(TOKEN_WORD, <<Leaf("CMD_WORD"), advanceTokens, y>>)
  <1>1. x \in Open1
    <2>1. <<Call("CmdPrefix")>> \in Seq(Open0)
      BY CallCode, OpenHas, Up
    <2> QED BY <2>1, Levels, TokenSets
  <1> HIDE DEF x
  <1>2. y \in Open1
    <2>1. <<Call("CmdSuffix")>> \in Seq(Open0)
      BY CallCode, OpenHas, Up
    <2> QED BY <2>1, Levels, TokenSets
  <1> HIDE DEF y
  <1>3. z \in Open2
    <2>1. <<Leaf("CMD_WORD"), advanceTokens, y>> \in Seq(Open1)
      BY <1>2, MakeCode, Plainly, OpenHas, Up
    <2> QED BY <2>1, Levels, TokenSets
  <1> HIDE DEF z
  <1>4. <<Make("SIMPLE_COMMAND"), x, z, NeedChild>> \in OpenCode
    BY <1>1, <1>3, MakeCode, Plainly, OpenHas, Up DEF OpenCode
  <1> QED BY <1>4 DEF analyzeSimpleCommand, x, y, z

LEMMA CmdPrefixCode == analyzeCmdPrefix \in OpenCode
  BY GoCode, MakeCode, OpenHas, Up DEF analyzeCmdPrefix, OpenCode

LEMMA PrefixRestCode == PrefixRest \in OpenCode
  <1> DEFINE x == If({"assign"}, <<Leaf("ASSIGNMENT_WORD"), advanceTokens>>, <<Call("Redirect")>>)
             y == Opt(PrefixStart, <<x, Go("PrefixRest")>>)
  <1>1. x \in Open1
    <2>1. /\ <<Leaf("ASSIGNMENT_WORD"), advanceTokens>> \in Seq(Open0)
          /\ <<Call("Redirect")>> \in Seq(Open0)
      BY CallCode, MakeCode, Plainly, OpenHas, Up
    <2> QED BY <2>1, Levels, TokenSets
  <1> HIDE DEF x
  <1>2. y \in Open2
    <2>1. <<x, Go("PrefixRest")>> \in Seq(Open1)
      BY <1>1, GoCode, OpenHas, Up
    <2> QED BY <2>1, Levels, TokenSets
  <1> HIDE DEF y
  <1>3. <<y>> \in OpenCode
    BY <1>2, OpenHas, Up DEF OpenCode
  <1> QED BY <1>3 DEF PrefixRest, x, y

LEMMA RedirectCode == analyzeRedirect \in OpenCode
  <1> DEFINE x == Opt({"IO_NUM"}, <<Leaf("IO_NUM"), advanceTokens>>)
  <1>1. x \in Open1
    <2>1. <<Leaf("IO_NUM"), advanceTokens>> \in Seq(Open0)
      BY MakeCode, Plainly, OpenHas, Up
    <2> QED BY <2>1, Levels, TokenSets
  <1> HIDE DEF x
  <1>2. <<Make("REDIRECT"), x, Need({"REDIR"}), advanceTokens>> \o TakeWord("WORD") \in OpenCode
    BY <1>1, MakeCode, KeywordsCode, Plainly, OpenHas, Up DEF OpenCode
  <1> QED BY <1>2 DEF analyzeRedirect, x

LEMMA CmdSuffixCode == analyzeCmdSuffix \in OpenCode
  BY GoCode, MakeCode, OpenHas, Up DEF analyzeCmdSuffix, OpenCode

LEMMA SuffixRestCode == SuffixRest \in OpenCode
  <1> DEFINE x == If(TOKEN_WORD, <<Leaf("WORD"), advanceTokens>>, <<Call("Redirect")>>)
             y == Opt(SuffixStart, <<x, Go("SuffixRest")>>)
  <1>1. x \in Open1
    <2>1. <<Leaf("WORD"), advanceTokens>> \in Seq(Open0) /\ <<Call("Redirect")>> \in Seq(Open0)
      BY CallCode, MakeCode, Plainly, OpenHas, Up
    <2> QED BY <2>1, Levels, TokenSets
  <1> HIDE DEF x
  <1>2. y \in Open2
    <2>1. <<x, Go("SuffixRest")>> \in Seq(Open1)
      BY <1>1, GoCode, OpenHas, Up
    <2> QED BY <2>1, Levels, TokenSets
  <1> HIDE DEF y
  <1>3. <<y>> \in OpenCode
    BY <1>2, OpenHas, Up DEF OpenCode
  <1> QED BY <1>3 DEF SuffixRest, x, y

LEMMA SubshellCode == analyzeSubshell \in OpenCode
  BY GoCode, MakeCode, KeywordsCode, OpenHas, Up DEF analyzeSubshell, OpenCode

LEMMA BraceGroupCode == analyzeBraceGroup \in OpenCode
  BY GoCode, MakeCode, KeywordsCode, OpenHas, Up DEF analyzeBraceGroup, OpenCode

LEMMA CompoundListCode == analyzeCompoundList \in OpenCode
  <1> DEFINE x == Opt({"BG"}, <<Mark("BACKGROUND"), advanceTokens>>)
             y == If({"SEMI"}, <<advanceTokens>>, <<x>>)
  <1>1. x \in Open1
    <2>1. <<Mark("BACKGROUND"), advanceTokens>> \in Seq(Open0)
      BY MarkCode, Plainly, OpenHas, Up
    <2> QED BY <2>1, Levels, TokenSets
  <1> HIDE DEF x
  <1>2. y \in Open2
    <2>1. <<advanceTokens>> \in Seq(Open1) /\ <<x>> \in Seq(Open1)
      BY <1>1, Plainly, OpenHas, Up
    <2> QED BY <2>1, Levels, TokenSets
  <1> HIDE DEF y
  <1>3. <<Go("LineBreak"), Call("Term"), y, Go("LineBreak")>> \in OpenCode
    BY <1>2, GoCode, CallCode, OpenHas, Up DEF OpenCode
  <1> QED BY <1>3 DEF analyzeCompoundList, x, y

LEMMA IfClauseCode == analyzeIfClause \in OpenCode
  <1> DEFINE x == Opt({"else", "elif"}, <<Call("ElsePart")>>)
  <1>1. x \in Open1
    <2>1. <<Call("ElsePart")>> \in Seq(Open0)
      BY CallCode, OpenHas, Up
    <2> QED BY <2>1, Levels, TokenSets
  <1> HIDE DEF x
  <1>2. <<Make("IF_CLAUSE")>> \o Keyword("if") \o <<Go("CompoundList")>> \o Keyword("then") \o <<Go("CompoundList"), x>> \o Keyword("fi") \in OpenCode
    BY <1>1, GoCode, MakeCode, KeywordsCode, OpenHas, Up DEF OpenCode
  <1> QED BY <1>2 DEF analyzeIfClause, x

LEMMA ElsePartCode == analyzeElsePart \in OpenCode
  <1> DEFINE x == Opt({"else", "elif"}, <<Call("ElsePart")>>)
             y == If({"else"}, <<advanceTokens, Make("ELSE_CLAUSE"), Go("CompoundList")>>, <<advanceTokens, Make("IF_CLAUSE"), Go("CompoundList")>> \o Keyword("then") \o <<Go("CompoundList"), x>>)
  <1>1. x \in Open1
    <2>1. <<Call("ElsePart")>> \in Seq(Open0)
      BY CallCode, OpenHas, Up
    <2> QED BY <2>1, Levels, TokenSets
  <1> HIDE DEF x
  <1>2. y \in Open2
    <2>1. /\ <<advanceTokens, Make("ELSE_CLAUSE"), Go("CompoundList")>> \in Seq(Open1)
          /\ <<advanceTokens, Make("IF_CLAUSE"), Go("CompoundList")>> \o Keyword("then") \o <<Go("CompoundList"), x>> \in Seq(Open1)
      BY <1>1, GoCode, MakeCode, KeywordsCode, Plainly, OpenHas, Up
    <2> QED BY <2>1, Levels, TokenSets
  <1> HIDE DEF y
  <1>3. <<y>> \in OpenCode
    BY <1>2, OpenHas, Up DEF OpenCode
  <1> QED BY <1>3 DEF analyzeElsePart, x, y

LEMMA WhileClauseCode == analyzeWhileClause \in OpenCode
  BY GoCode, MakeCode, KeywordsCode, OpenHas, Up DEF analyzeWhileClause, OpenCode

LEMMA UntilClauseCode == analyzeUntilClause \in OpenCode
  BY GoCode, MakeCode, KeywordsCode, OpenHas, Up DEF analyzeUntilClause, OpenCode

LEMMA DoGroupCode == analyzeDoGroup \in OpenCode
  BY GoCode, KeywordsCode, OpenHas, Up DEF analyzeDoGroup, OpenCode

LEMMA ForClauseCode == analyzeForClause \in OpenCode
  <1> DEFINE x == Opt({"SEMI"}, <<advanceTokens>>)
             y == If({"in", "NEWLINE"}, <<Go("LineBreak")>> \o Keyword("in") \o <<Go("ForWords")>>, <<x, Go("LineBreak")>>)
  <1>1. x \in Open1
    <2>1. <<advanceTokens>> \in Seq(Open0)
      BY Plainly, OpenHas, Up
    <2> QED BY <2>1, Levels, TokenSets
  <1> HIDE DEF x
  <1>2. y \in Open2
    <2>1. /\ <<Go("LineBreak")>> \o Keyword("in") \o <<Go("ForWords")>> \in Seq(Open1)
          /\ <<x, Go("LineBreak")>> \in Seq(Open1)
      BY <1>1, GoCode, KeywordsCode, OpenHas, Up
    <2> QED BY <2>1, Levels, TokenSets
  <1> HIDE DEF y
  <1>3. <<Make("FOR_CLAUSE")>> \o Keyword("for") \o TakeWord("WORD") \o <<y, Go("DoGroup")>> \in OpenCode
    BY <1>2, GoCode, MakeCode, KeywordsCode, OpenHas, Up DEF OpenCode
  <1> QED BY <1>3 DEF analyzeForClause, x, y

LEMMA ForWordsCode == ForWords \in OpenCode
  <1> DEFINE x == If({"SEMI"}, <<advanceTokens, Go("LineBreak")>>, <<Go("Newline")>>)
             y == If(TOKEN_WORD, <<Leaf("WORD"), advanceTokens, Go("ForWords")>>, <<x>>)
  <1>1. x \in Open1
    <2>1. <<advanceTokens, Go("LineBreak")>> \in Seq(Open0) /\ <<Go("Newline")>> \in Seq(Open0)
      BY GoCode, Plainly, OpenHas, Up
    <2> QED BY <2>1, Levels, TokenSets
  <1> HIDE DEF x
  <1>2. y \in Open2
    <2>1. /\ <<Leaf("WORD"), advanceTokens, Go("ForWords")>> \in Seq(Open1)
          /\ <<x>> \in Seq(Open1)
      BY <1>1, GoCode, MakeCode, Plainly, OpenHas, Up
    <2> QED BY <2>1, Levels, TokenSets
  <1> HIDE DEF y
  <1>3. <<y>> \in OpenCode
    BY <1>2, OpenHas, Up DEF OpenCode
  <1> QED BY <1>3 DEF ForWords, x, y

LEMMA CaseClauseCode == analyzeCaseClause \in OpenCode
  BY GoCode, MakeCode, KeywordsCode, OpenHas, Up DEF analyzeCaseClause, OpenCode

LEMMA CaseItemsCode == CaseItems \in OpenCode
  <1> DEFINE x == If({"EOF", "esac"}, <<>>, <<Call("CaseItem"), Go("LineBreak"), Go("CaseItems")>>)
  <1>1. x \in Open1
    <2>1. /\ <<>> \in Seq(Open0)
          /\ <<Call("CaseItem"), Go("LineBreak"), Go("CaseItems")>> \in Seq(Open0)
      BY GoCode, CallCode, OpenHas, Up
    <2> QED BY <2>1, Levels, TokenSets
  <1> HIDE DEF x
  <1>2. <<x>> \in OpenCode
    BY <1>1, OpenHas, Up DEF OpenCode
  <1> QED BY <1>2 DEF CaseItems, x

LEMMA CaseItemCode == analyzeCaseItem \in OpenCode
  <1> DEFINE x == If({"esac"}, <<>>, <<Go("Patterns")>>)
             y == If({"LPAREN"}, <<advanceTokens, Go("Patterns")>>, <<x>>)
  <1>1. x \in Open1
    <2>1. <<>> \in Seq(Open0) /\ <<Go("Patterns")>> \in Seq(Open0)
      BY GoCode, OpenHas, Up
    <2> QED BY <2>1, Levels, TokenSets
  <1> HIDE DEF x
  <1>2. y \in Open2
    <2>1. <<advanceTokens, Go("Patterns")>> \in Seq(Open1) /\ <<x>> \in Seq(Open1)
      BY <1>1, GoCode, Plainly, OpenHas, Up
    <2> QED BY <2>1, Levels, TokenSets
  <1> HIDE DEF y
  <1>3. <<Make("CASE_ITEM"), y>> \in OpenCode
    BY <1>2, MakeCode, OpenHas, Up DEF OpenCode
  <1> QED BY <1>3 DEF analyzeCaseItem, x, y

LEMMA PatternsCode == Patterns \in OpenCode
  <1> DEFINE x == If({"DOUBLE_SEMI", "SEMI_AND", "esac"}, <<>>, <<Go("CompoundList")>>)
             y == Opt({"SEMI_AND"}, <<Flag("SEMI_AND"), advanceTokens, Go("LineBreak")>>)
             z == If({"DOUBLE_SEMI"}, <<Flag("DOUBLE_SEMI"), advanceTokens, Go("LineBreak")>>, <<y>>)
             u == If({"PIPE"}, <<advanceTokens, Go("Patterns")>>, Keyword("RPAREN") \o <<x, z>>)
  <1>1. x \in Open1
    <2>1. <<>> \in Seq(Open0) /\ <<Go("CompoundList")>> \in Seq(Open0)
      BY GoCode, OpenHas, Up
    <2> QED BY <2>1, Levels, TokenSets
  <1> HIDE DEF x
  <1>2. y \in Open1
    <2>1. <<Flag("SEMI_AND"), advanceTokens, Go("LineBreak")>> \in Seq(Open0)
      BY GoCode, MarkCode, Plainly, OpenHas, Up
    <2> QED BY <2>1, Levels, TokenSets
  <1> HIDE DEF y
  <1>3. z \in Open2
    <2>1. /\ <<Flag("DOUBLE_SEMI"), advanceTokens, Go("LineBreak")>> \in Seq(Open1)
          /\ <<y>> \in Seq(Open1)
      BY <1>2, GoCode, MarkCode, Plainly, OpenHas, Up
    <2> QED BY <2>1, Levels, TokenSets
  <1> HIDE DEF z
  <1>4. u \in Open3
    <2>1. /\ <<advanceTokens, Go("Patterns")>> \in Seq(Open2)
          /\ Keyword("RPAREN") \o <<x, z>> \in Seq(Open2)
      BY <1>1, <1>3, GoCode, KeywordsCode, Plainly, OpenHas, Up
    <2> QED BY <2>1, Levels, TokenSets
  <1> HIDE DEF u
  <1>5. TakeWord("WORD") \o <<u>> \in OpenCode
    BY <1>4, KeywordsCode, OpenHas, Up DEF OpenCode
  <1> QED BY <1>5 DEF Patterns, x, y, z, u

LEMMA FunctionDefCode == analyzeFunctionDef \in OpenCode
  BY GoCode, CallCode, MakeCode, KeywordsCode, OpenHas, Up DEF analyzeFunctionDef, OpenCode

LEMMA FunctionRedirectsCode == FunctionRedirects \in OpenCode
  <1> DEFINE x == Opt({"REDIR", "IO_NUM"}, <<Call("Redirect"), Go("FunctionRedirects")>>)
  <1>1. x \in Open1
    <2>1. <<Call("Redirect"), Go("FunctionRedirects")>> \in Seq(Open0)
      BY GoCode, CallCode, OpenHas, Up
    <2> QED BY <2>1, Levels, TokenSets
  <1> HIDE DEF x
  <1>2. <<x>> \in OpenCode
    BY <1>1, OpenHas, Up DEF OpenCode
  <1> QED BY <1>2 DEF FunctionRedirects, x

LEMMA Deeper ==
    ASSUME NEW I, Open0 \subseteq I, NEW p \in Others, NEW T \in Sets, NEW c \in I
    PROVE  If(T, <<Go(p)>>, <<c>>) \in Branching(I) /\ Open0 \subseteq Branching(I)
  <1>1. <<Go(p)>> \in Seq(I) /\ <<c>> \in Seq(I)
    BY OpenHas
  <1> QED BY <1>1, BranchingHas

LEMMA CompoundCommandCode == analyzeCompoundCommand \in OpenCode
  <1> DEFINE s == If({"case"}, <<Go("CaseClause")>>, <<Fail>>)
             t == If({"for"}, <<Go("ForClause")>>, <<s>>)
             u == If({"until"}, <<Go("UntilClause")>>, <<t>>)
             v == If({"while"}, <<Go("WhileClause")>>, <<u>>)
             w == If({"if"}, <<Go("IfClause")>>, <<v>>)
             x == If({"LPAREN"}, <<Go("Subshell")>>, <<w>>)
             y == If({"LBRACE"}, <<Go("BraceGroup")>>, <<x>>)
             I4 == Branching(Open3)
             I5 == Branching(I4)
             I6 == Branching(I5)
  <1>0. /\ "CaseClause" \in Others /\ "ForClause" \in Others /\ "UntilClause" \in Others /\ "WhileClause" \in Others
        /\ "IfClause" \in Others /\ "Subshell" \in Others /\ "BraceGroup" \in Others
    BY DEF Others
  <1>1. s \in Open1 /\ Open0 \subseteq Open1
    BY <1>0, Deeper, Plainly, TokenSets, OpenHas DEF Open1
  <1> HIDE DEF s
  <1>2. t \in Open2 /\ Open0 \subseteq Open2
    BY <1>0, <1>1, Deeper, TokenSets DEF Open2
  <1> HIDE DEF t
  <1>3. u \in Open3 /\ Open0 \subseteq Open3
    BY <1>0, <1>2, Deeper, TokenSets DEF Open3
  <1> HIDE DEF u
  <1>4. v \in I4 /\ Open0 \subseteq I4
    BY <1>0, <1>3, Deeper, TokenSets
  <1> HIDE DEF v, I4
  <1>5. w \in I5 /\ Open0 \subseteq I5
    BY <1>0, <1>4, Deeper, TokenSets
  <1> HIDE DEF w, I5
  <1>6. x \in I6 /\ Open0 \subseteq I6
    BY <1>0, <1>5, Deeper, TokenSets
  <1> HIDE DEF x, I6
  <1>7. y \in Branching(I6)
    BY <1>0, <1>6, Deeper, TokenSets
  <1> HIDE DEF y
  <1>8. <<y>> \in OpenCode
    BY <1>7 DEF OpenCode, Open, I4, I5, I6
  <1> QED BY <1>8 DEF analyzeCompoundCommand, s, t, u, v, w, x, y

\* A function of the others has the code of one.
LEMMA BodyOpen == \A p \in Others : Body[p] \in OpenCode
  <1>1. /\ Body["LineBreak"] \in OpenCode /\ Body["Newline"] \in OpenCode /\ Body["Program"] \in OpenCode
        /\ Body["MoreCommands"] \in OpenCode /\ Body["CompleteCommand"] \in OpenCode
    BY LineBreakCode, NewlineCode, ProgramCode, MoreCommandsCode, CompleteCommandCode DEF Body, OpenCode
  <1>2. /\ Body["Command"] \in OpenCode /\ Body["OtherCommand"] \in OpenCode /\ Body["SimpleCommand"] \in OpenCode
        /\ Body["CmdPrefix"] \in OpenCode /\ Body["PrefixRest"] \in OpenCode /\ Body["Redirect"] \in OpenCode
        /\ Body["CmdSuffix"] \in OpenCode /\ Body["SuffixRest"] \in OpenCode
    BY CommandCode, OtherCommandCode, SimpleCommandCode, CmdPrefixCode, PrefixRestCode, RedirectCode,
       CmdSuffixCode, SuffixRestCode DEF Body
  <1>3. /\ Body["Subshell"] \in OpenCode /\ Body["BraceGroup"] \in OpenCode /\ Body["CompoundList"] \in OpenCode
        /\ Body["IfClause"] \in OpenCode /\ Body["ElsePart"] \in OpenCode /\ Body["WhileClause"] \in OpenCode
        /\ Body["UntilClause"] \in OpenCode /\ Body["DoGroup"] \in OpenCode
    BY SubshellCode, BraceGroupCode, CompoundListCode, IfClauseCode, ElsePartCode, WhileClauseCode,
       UntilClauseCode, DoGroupCode DEF Body
  <1>4. /\ Body["ForClause"] \in OpenCode /\ Body["ForWords"] \in OpenCode /\ Body["CaseClause"] \in OpenCode
        /\ Body["CaseItems"] \in OpenCode /\ Body["CaseItem"] \in OpenCode /\ Body["Patterns"] \in OpenCode
        /\ Body["FunctionDef"] \in OpenCode /\ Body["FunctionRedirects"] \in OpenCode
        /\ Body["CompoundCommand"] \in OpenCode
    BY ForClauseCode, ForWordsCode, CaseClauseCode, CaseItemsCode, CaseItemCode, PatternsCode,
       FunctionDefCode, FunctionRedirectsCode, CompoundCommandCode DEF Body
  <1> QED BY <1>1, <1>2, <1>3, <1>4 DEF Others

-----------------------------------------------------------------------------
(* The code of the builders.                                                 *)

LEMMA InnerHas ==
    /\ Simple \subseteq Inner /\ Go("LineBreak") \in Inner
    /\ Seq(Simple) \subseteq Seq(Inner) /\ <<>> \in Seq(Inner)
    /\ advanceTokens \in Inner
    /\ \A p \in Builders \cup Others : Call(p) \in Inner
    /\ \A f \in Flags : Flag(f) \in Inner /\ Mark(f) \in Inner
    /\ \A T \in Sets, a \in Seq(Simple) : Opt(T, a) \in Inner
    /\ \A T \in Sets, a, b \in Seq(Simple \cup {Go("LineBreak")}) : If(T, a, b) \in Inner
  <1> DEFINE I == Simple \cup {Go("LineBreak")}
  <1>1. Inner = Branching(I) /\ I \subseteq Branching(I) /\ Simple \subseteq I /\ Seq(Simple) \subseteq Seq(I)
    BY DEF Inner, Branching
  <1> HIDE DEF I
  <1>2. /\ \A T \in Sets, a \in Seq(I) : Opt(T, a) \in Inner
        /\ \A T \in Sets, a, b \in Seq(I) : If(T, a, b) \in Inner
    BY <1>1, BranchingHas
  <1>3. Simple \subseteq Inner /\ Seq(Simple) \subseteq Seq(Inner) /\ <<>> \in Seq(Inner)
    BY <1>1
  <1>4. Go("LineBreak") \in Inner
    BY <1>1 DEF I
  <1>5. \A T \in Sets, a \in Seq(Simple) : Opt(T, a) \in Inner
    BY <1>1, <1>2
  <1>6. /\ advanceTokens \in Inner
        /\ \A p \in Builders \cup Others : Call(p) \in Inner
        /\ \A f \in Flags : Flag(f) \in Inner /\ Mark(f) \in Inner
    BY <1>3, SimpleIs
  <1> QED BY <1>2, <1>3, <1>4, <1>5, <1>6 DEF I

\* Sequences of one to five instructions that end with one of E.
LEMMA EndedOne ==
    ASSUME NEW E, NEW e \in E
    PROVE  <<e>> \in Ended(E)
  BY DEF Ended

LEMMA EndedTwo ==
    ASSUME NEW E, NEW a \in Inner, NEW e \in E
    PROVE  <<a, e>> \in Ended(E)
  BY DEF Ended

LEMMA EndedThree ==
    ASSUME NEW E, NEW a \in Inner, NEW b \in Inner, NEW e \in E
    PROVE  <<a, b, e>> \in Ended(E)
  BY DEF Ended

LEMMA EndedFour ==
    ASSUME NEW E, NEW a \in Inner, NEW b \in Inner, NEW c \in Inner, NEW e \in E
    PROVE  <<a, b, c, e>> \in Ended(E)
  BY DEF Ended

LEMMA EndedFive ==
    ASSUME NEW E, NEW a \in Inner, NEW b \in Inner, NEW c \in Inner, NEW d \in Inner, NEW e \in E
    PROVE  <<a, b, c, d, e>> \in Ended(E)
  BY DEF Ended

LEMMA EndedMore ==
    ASSUME NEW D, NEW E, D \subseteq E
    PROVE  Ended(D) \subseteq Ended(E)
  <1> SUFFICES ASSUME NEW s \in Ended(D) PROVE s \in Ended(E)
    OBVIOUS
  <1>1. s \in Seq(Inner \cup E)
    BY DEF Ended
  <1> QED BY <1>1 DEF Ended

LEMMA EndsAre ==
    /\ Attach \in End0 /\ \A p \in Loops : Go(p) \in End0
    /\ End0 \subseteq End1 /\ End1 \subseteq End
    /\ Ended(End0) \subseteq Ended(End1) /\ Ended(End1) \subseteq Ended(End)
    /\ \A T \in Sets, a, b \in Ended(End0) : If(T, a, b) \in End1
    /\ \A T \in Sets, a, b \in Ended(End0) : IfPeek(T, a, b) \in End1
    /\ \A T \in Sets, a, b \in Ended(End1) : If(T, a, b) \in End
  <1>1. Attach \in End0 /\ \A p \in Loops : Go(p) \in End0
    BY DEF End0
  <1>2. End0 \subseteq End1 /\ End1 \subseteq End
    BY DEF End1, End
  <1>3. Ended(End0) \subseteq Ended(End1) /\ Ended(End1) \subseteq Ended(End)
    BY <1>2, EndedMore
  <1>4. \A T \in Sets, a, b \in Ended(End0) : If(T, a, b) \in End1
    BY ChoicesAre DEF End1
  <1>5. \A T \in Sets, a, b \in Ended(End0) : IfPeek(T, a, b) \in End1
    BY ChoicesAre DEF End1
  <1>6. \A T \in Sets, a, b \in Ended(End1) : If(T, a, b) \in End
    BY ChoicesAre DEF End
  <1> QED BY <1>1, <1>2, <1>3, <1>4, <1>5, <1>6

LEMMA ListRestCode == ListRest \in BuildCode
  <1> DEFINE c == Opt({"BG"}, <<Mark("BACKGROUND")>>)
             x == IfPeek({"NEWLINE", "EOF"}, <<Attach>>, <<c, advanceTokens, Call("AndOr"), Go("ListRest")>>)
             y == If({"SEMI", "BG"}, <<x>>, <<Attach>>)
  <1>1. c \in Inner
    <2>1. <<Mark("BACKGROUND")>> \in Seq(Simple)
      BY SimpleIs DEF Flags
    <2> QED BY <2>1, InnerHas, TokenSets
  <1> HIDE DEF c
  <1>2. x \in End1
    <2>1. Go("ListRest") \in End0 /\ Call("AndOr") \in Inner
      BY EndsAre, InnerHas DEF Loops, Builders
    <2>2. <<c, advanceTokens, Call("AndOr"), Go("ListRest")>> \in Ended(End0) /\ <<Attach>> \in Ended(End0)
      BY <1>1, <2>1, EndsAre, InnerHas, EndedOne, EndedFour
    <2> QED BY <2>2, EndsAre, TokenSets
  <1> HIDE DEF x
  <1>3. y \in End
    <2>1. <<x>> \in Ended(End1) /\ <<Attach>> \in Ended(End1)
      BY <1>2, EndsAre, EndedOne
    <2> QED BY <2>1, EndsAre, TokenSets
  <1> HIDE DEF y
  <1>4. <<y>> \in BuildCode
    BY <1>3, EndedOne DEF BuildCode
  <1> QED BY <1>4 DEF ListRest, c, x, y

LEMMA AndOrRestCode == AndOrRest \in BuildCode
  <1> DEFINE c == If({"AND_IF"}, <<Mark("AND")>>, <<Mark("OR")>>)
             y == If({"AND_IF", "OR_IF"},
                     <<c, advanceTokens, Go("LineBreak"), Call("Pipeline"), Go("AndOrRest")>>, <<Attach>>)
  <1>1. c \in Inner
    <2>1. /\ <<Mark("AND")>> \in Seq(Simple \cup {Go("LineBreak")})
          /\ <<Mark("OR")>> \in Seq(Simple \cup {Go("LineBreak")})
      BY SimpleIs DEF Flags
    <2> QED BY <2>1, InnerHas, TokenSets
  <1> HIDE DEF c
  <1>2. y \in End1
    <2>1. Go("AndOrRest") \in End0 /\ Call("Pipeline") \in Inner
      BY EndsAre, InnerHas DEF Loops, Builders
    <2>2. <<c, advanceTokens, Go("LineBreak"), Call("Pipeline"), Go("AndOrRest")>> \in Ended(End0)
      BY <1>1, <2>1, InnerHas, EndedFive
    <2>3. <<Attach>> \in Ended(End0)
      BY EndsAre, EndedOne
    <2> QED BY <2>2, <2>3, EndsAre, TokenSets
  <1> HIDE DEF y
  <1>3. <<y>> \in BuildCode
    BY <1>2, EndsAre, EndedOne DEF BuildCode
  <1> QED BY <1>3 DEF AndOrRest, c, y

LEMMA PipelineRestCode == PipelineRest \in BuildCode
  <1> DEFINE y == If({"PIPE"}, <<advanceTokens, Go("LineBreak"), Call("Command"), Go("PipelineRest")>>, <<Attach>>)
  <1>1. y \in End1
    <2>1. Go("PipelineRest") \in End0 /\ Call("Command") \in Inner
      BY EndsAre, InnerHas DEF Loops, Others
    <2>2. <<advanceTokens, Go("LineBreak"), Call("Command"), Go("PipelineRest")>> \in Ended(End0)
      BY <2>1, InnerHas, EndedFour
    <2>3. <<Attach>> \in Ended(End0)
      BY EndsAre, EndedOne
    <2> QED BY <2>2, <2>3, EndsAre, TokenSets
  <1> HIDE DEF y
  <1>2. <<y>> \in BuildCode
    BY <1>1, EndsAre, EndedOne DEF BuildCode
  <1> QED BY <1>2 DEF PipelineRest, y

LEMMA TermRestCode == TermRest \in BuildCode
  <1> DEFINE c == If({"BG"}, <<advanceTokens, Go("LineBreak"), Mark("BACKGROUND")>>,
                             <<advanceTokens, Go("LineBreak")>>)
             x == If(isCompoundListEnd, <<Attach>>, <<Call("AndOr"), Go("TermRest")>>)
             y == If({"SEMI", "BG"}, <<c, x>>, <<Attach>>)
  <1>1. c \in Inner
    <2>1. /\ <<advanceTokens, Go("LineBreak"), Mark("BACKGROUND")>> \in Seq(Simple \cup {Go("LineBreak")})
          /\ <<advanceTokens, Go("LineBreak")>> \in Seq(Simple \cup {Go("LineBreak")})
      BY SimpleIs DEF Flags
    <2> QED BY <2>1, InnerHas, TokenSets
  <1> HIDE DEF c
  <1>2. x \in End1
    <2>1. Go("TermRest") \in End0 /\ Call("AndOr") \in Inner
      BY EndsAre, InnerHas DEF Loops, Builders
    <2>2. <<Call("AndOr"), Go("TermRest")>> \in Ended(End0) /\ <<Attach>> \in Ended(End0)
      BY <2>1, EndsAre, EndedOne, EndedTwo
    <2> QED BY <2>2, EndsAre, TokenSets
  <1> HIDE DEF x
  <1>3. y \in End
    <2>1. <<c, x>> \in Ended(End1) /\ <<Attach>> \in Ended(End1)
      BY <1>1, <1>2, EndsAre, EndedOne, EndedTwo
    <2> QED BY <2>1, EndsAre, TokenSets
  <1> HIDE DEF y
  <1>4. <<y>> \in BuildCode
    BY <1>3, EndedOne DEF BuildCode
  <1> QED BY <1>4 DEF TermRest, c, x, y

\* The loops of the builders have the code of builders.
LEMMA BodyLoops == \A p \in Loops : Body[p] \in BuildCode
  BY ListRestCode, AndOrRestCode, PipelineRestCode, TermRestCode DEF Body, Loops

\* A builder makes its node first and then has the code of one.
Starts(c) == c # <<>> /\ Tail(c) \in BuildCode /\ \E t \in NodeType : Head(c) = MakeLocal(t)

LEMMA StartIs == \A c \in StartCode : Starts(c)
  <1>1. /\ Go("ListRest") \in End /\ Go("AndOrRest") \in End /\ Go("PipelineRest") \in End /\ Go("TermRest") \in End
        /\ Call("AndOr") \in Inner /\ Call("Pipeline") \in Inner /\ Call("Command") \in Inner
    BY EndsAre, InnerHas DEF Loops, Builders, Others
  <1>2. Opt({"BANG"}, <<Flag("BANG"), advanceTokens>>) \in Inner
    <2>1. <<Flag("BANG"), advanceTokens>> \in Seq(Simple)
      BY SimpleIs DEF Flags
    <2> QED BY <2>1, InnerHas, TokenSets
  <1>3. Starts(analyzeList)
    <2>1. <<Call("AndOr"), Go("ListRest")>> \in BuildCode
      BY <1>1, EndedTwo DEF BuildCode
    <2> QED BY <2>1 DEF Starts, analyzeList, NodeType
  <1>4. Starts(analyzeAndOr)
    <2>1. <<Call("Pipeline"), Go("AndOrRest")>> \in BuildCode
      BY <1>1, EndedTwo DEF BuildCode
    <2> QED BY <2>1 DEF Starts, analyzeAndOr, NodeType
  <1>5. Starts(analyzePipeline)
    <2>1. <<Opt({"BANG"}, <<Flag("BANG"), advanceTokens>>), Call("Command"), Go("PipelineRest")>> \in BuildCode
      BY <1>1, <1>2, EndedThree DEF BuildCode
    <2> QED BY <2>1 DEF Starts, analyzePipeline, NodeType
  <1>6. Starts(analyzeTerm)
    <2>1. <<Call("AndOr"), Go("TermRest")>> \in BuildCode
      BY <1>1, EndedTwo DEF BuildCode
    <2> QED BY <2>1 DEF Starts, analyzeTerm, NodeType
  <1>7. StartCode = {analyzeList, analyzeAndOr, analyzePipeline, analyzeTerm}
    BY DEF StartCode, Builders, Body
  <1> QED BY <1>3, <1>4, <1>5, <1>6, <1>7

\* The next instruction of a builder: one that keeps it a builder, or the last one.
LEMMA BuildStep ==
    ASSUME NEW s \in BuildCode
    PROVE  /\ s # <<>>
           /\ \/ Head(s) \in End /\ Tail(s) = <<>>
              \/ /\ Head(s) \in Inner /\ Tail(s) \in BuildCode
                 /\ \A a \in Seq(Inner) : a \o Tail(s) \in BuildCode
  <1> DEFINE S == Inner \cup End
  <1>1. s \in Seq(S) /\ s # <<>> /\ s[Len(s)] \in End /\ \A k \in 1..Len(s) - 1 : s[k] \in Inner
    BY DEF BuildCode, Ended
  <1> HIDE DEF S
  <1>2. Head(s) = s[1] /\ Len(s) \in Nat /\ Len(s) >= 1
    BY <1>1
  <1>3. CASE Len(s) = 1
    <2>1. s[1] \in End
      BY <1>1, <1>3
    <2>2. Tail(s) \in Seq(S) /\ Len(Tail(s)) = 0
      BY <1>1, <1>3, HeadTailProperties
    <2>3. Tail(s) = <<>>
      BY <2>2, EmptySeq
    <2> QED BY <1>1, <1>2, <2>1, <2>3
  <1>4. CASE Len(s) # 1
    <2> DEFINE t == Tail(s)
    <2>1. t \in Seq(S) /\ Len(t) = Len(s) - 1 /\ \A k \in 1..Len(t) : t[k] = s[k + 1]
      BY <1>1, <1>2, <1>4
    <2> HIDE DEF t
    <2>2. t # <<>> /\ t[Len(t)] \in End /\ \A k \in 1..Len(t) - 1 : t[k] \in Inner
      BY <1>1, <1>2, <1>4, <2>1
    <2>3. t \in BuildCode
      BY <2>1, <2>2 DEF BuildCode, Ended, S
    <2>4. ASSUME NEW a \in Seq(Inner) PROVE a \o t \in BuildCode
      <3> DEFINE u == a \o t
      <3>1. a \in Seq(S)
        BY DEF S
      <3>t. t \in Seq(S)
        BY <2>1
      <3>2. /\ u \in Seq(S) /\ Len(u) = Len(a) + Len(t)
            /\ \A k \in 1..Len(a) + Len(t) : u[k] = IF k <= Len(a) THEN a[k] ELSE t[k - Len(a)]
        BY <3>t, <3>1, ConcatProperties
      <3> HIDE DEF u
      <3>3. Len(a) \in Nat /\ Len(t) \in Nat /\ Len(t) >= 1
        BY <2>1, <2>2
      <3>4. u # <<>> /\ u[Len(u)] \in End
        BY <2>2, <3>2, <3>3
      <3>5. ASSUME NEW k \in 1..Len(u) - 1 PROVE u[k] \in Inner
        <4>1. k \in 1..Len(u) /\ k \in Nat
          BY <3>2, <3>3
        <4>2. CASE k <= Len(a)
          BY <3>2, <4>1, <4>2
        <4>3. CASE ~(k <= Len(a))
          <5>1. k - Len(a) \in 1..Len(t) - 1 /\ u[k] = t[k - Len(a)]
            BY <3>2, <3>3, <3>5, <4>1, <4>3
          <5> QED BY <2>2, <5>1
        <4> QED BY <4>2, <4>3
      <3>6. u \in BuildCode
        BY <3>2, <3>4, <3>5 DEF BuildCode, Ended, S
      <3> QED BY <3>6 DEF u
    <2>5. Head(s) \in Inner
      <3>1. 1 \in 1..Len(s) - 1
        BY <1>2, <1>4
      <3>2. s[1] \in Inner
        BY <1>1, <3>1
      <3> QED BY <1>2, <3>2
    <2> QED BY <1>1, <2>3, <2>4, <2>5 DEF t
  <1> QED BY <1>3, <1>4

\* The last instruction of a builder.
LEMMA EndIs ==
    ASSUME NEW e \in End
    PROVE  /\ e.op \in {"attach", "go", "if", "ifPeek"}
           /\ e.op = "go" => e.to \in Loops
           /\ e.op \in {"if", "ifPeek"} => e.then \in BuildCode /\ e.else \in BuildCode
  <1>1. CASE e \in End0
    BY <1>1 DEF End0, Attach, Go
  <1>2. CASE e \in ChoicesOf(Ended(End0)) \cup ChoicesOf(Ended(End1))
    BY <1>2, ChoiceIs, EndsAre DEF BuildCode
  <1> QED BY <1>1, <1>2 DEF End, End1

-----------------------------------------------------------------------------
(* The tree below a node.                                                    *)

\* A set of numbers has a smallest one.
LEMMA Smallest ==
    ASSUME NEW S \in SUBSET Nat, NEW n \in S
    PROVE  \E m \in S : \A k \in S : m <= k
  <1> DEFINE T == {0..m : m \in S}
  <1>1. T \subseteq FiniteSubsetsOf(Nat) /\ T # {}
    <2>1. \A m \in S : 0..m \in SUBSET Nat /\ IsFiniteSet(0..m)
      <3> SUFFICES ASSUME NEW m \in S PROVE 0..m \in SUBSET Nat /\ IsFiniteSet(0..m)
        OBVIOUS
      <3>1. 0 \in Int /\ m \in Int
        OBVIOUS
      <3> QED BY <3>1, FS_Interval
    <2> QED BY <2>1 DEF FiniteSubsetsOf
  <1>2. PICK x \in T : \A y \in T : ~(<<y, x>> \in StrictSubsetOrdering(Nat))
    <2>1. IsWellFoundedOn(StrictSubsetOrdering(Nat), FiniteSubsetsOf(Nat))
      BY FS_StrictSubsetOrderingWellFounded
    <2> HIDE DEF T
    <2> QED BY <1>1, <2>1, WFMin
  <1>3. PICK m \in S : x = 0..m
    BY <1>2
  <1>4. ASSUME NEW k \in S, k < m PROVE FALSE
    <2>1. 0..k \in T /\ 0..k \subseteq Nat /\ 0..m \subseteq Nat
      OBVIOUS
    <2>2. 0..k \subseteq 0..m /\ m \in 0..m /\ m \notin 0..k
      BY <1>4
    <2> QED BY <1>2, <1>3, <2>1, <2>2 DEF StrictSubsetOrdering
  <1> QED BY <1>4

\* The nodes from n to k that hang below n.
Below(h, n, k) ==
    {T \in SUBSET (n..k) :
        \A m \in n..k : m \in T <=> m = n \/ \E p \in n..(m - 1) : Contains(h[p].kids, m) /\ p \in T}

\* The recursion of InTree has a solution, built one node after the other.
LEMMA BelowExists ==
    ASSUME NEW h, NEW n \in Nat
    PROVE  \A k \in Nat : k >= n => Below(h, n, k) # {}
  <1> DEFINE S == {k \in Nat : k >= n /\ Below(h, n, k) = {}}
  <1>1. SUFFICES ASSUME NEW z \in S PROVE FALSE
    OBVIOUS
  <1>2. PICK k \in S : \A j \in S : k <= j
    <2>1. S \in SUBSET Nat
      OBVIOUS
    <2> HIDE DEF S
    <2> QED BY <1>1, <2>1, Smallest
  <1>3. k # n
    <2>1. {n} \in Below(h, n, n)
      BY DEF Below
    <2> QED BY <2>1
  <1>4. k - 1 \in Nat /\ k - 1 >= n /\ ~(k <= k - 1)
    BY <1>3
  <1>5. PICK T : T \in Below(h, n, k - 1)
    BY <1>2, <1>4
  <1>6. /\ T \in SUBSET (n..(k - 1))
        /\ \A m \in n..(k - 1) : m \in T <=> m = n \/ \E p \in n..(m - 1) : Contains(h[p].kids, m) /\ p \in T
    BY <1>5 DEF Below
  <1> DEFINE U == T \cup {m \in {k} : \E p \in n..(k - 1) : Contains(h[p].kids, k) /\ p \in T}
  <1>7. U \in SUBSET (n..k) /\ \A m \in n..(k - 1) : m \in U <=> m \in T
    <2>1. n..(k - 1) \subseteq n..k /\ k \in n..k /\ k \notin n..(k - 1)
      BY <1>4
    <2> QED BY <1>6, <2>1
  <1>8. k \in U <=> \E p \in n..(k - 1) : Contains(h[p].kids, k) /\ p \in T
    BY <1>4, <1>6
  <1> HIDE DEF U
  <1>9. ASSUME NEW m \in n..k
        PROVE  m \in U <=> m = n \/ \E p \in n..(m - 1) : Contains(h[p].kids, m) /\ p \in U
    <2>1. \A p \in n..(m - 1) : p \in n..(k - 1)
      BY <1>4
    <2>2. (\E p \in n..(m - 1) : Contains(h[p].kids, m) /\ p \in U)
            <=> \E p \in n..(m - 1) : Contains(h[p].kids, m) /\ p \in T
      BY <1>7, <2>1
    <2>3. CASE m = k
      BY <1>3, <1>8, <2>2, <2>3
    <2>4. CASE m # k
      <3>1. m \in n..(k - 1)
        BY <1>4, <2>4
      <3> QED BY <1>6, <1>7, <2>2, <3>1
    <2> QED BY <2>3, <2>4
  <1>10. U \in Below(h, n, k)
    BY <1>7, <1>9 DEF Below
  <1> QED BY <1>2, <1>10

\* A node is in the tree below n if it is n or a child of a node in it.
LEMMA InTreeIs ==
    ASSUME NEW h, Len(h) \in Nat, NEW n \in 1..Len(h)
    PROVE  /\ InTree(h, n) \subseteq n..Len(h)
           /\ \A m \in n..Len(h) :
                m \in InTree(h, n) <=> m = n \/ \E p \in n..(m - 1) : Contains(h[p].kids, m) /\ p \in InTree(h, n)
  <1> DEFINE body(f) == [m \in n..Len(h) |-> m = n \/ \E p \in n..(m - 1) : Contains(h[p].kids, m) /\ f[p]]
             In == CHOOSE f : f = body(f)
  <1>1. InTree(h, n) = {m \in n..Len(h) : In[m]}
    BY DEF InTree
  <1>2. PICK T : T \in Below(h, n, Len(h))
    BY BelowExists
  <1> DEFINE g == [m \in n..Len(h) |-> m \in T]
  <1>3. g = body(g)
    <2>1. \A m \in n..Len(h) : g[m] = body(g)[m]
      <3> SUFFICES ASSUME NEW m \in n..Len(h) PROVE g[m] = body(g)[m]
        OBVIOUS
      <3>1. \A p \in n..(m - 1) : p \in n..Len(h)
        OBVIOUS
      <3>2. (m \in T) = (m = n \/ \E p \in n..(m - 1) : Contains(h[p].kids, m) /\ p \in T)
        BY <1>2 DEF Below
      <3>3. (\E p \in n..(m - 1) : Contains(h[p].kids, m) /\ p \in T)
              = \E p \in n..(m - 1) : Contains(h[p].kids, m) /\ g[p]
        BY <3>1
      <3> QED BY <3>2, <3>3
    <2> QED BY <2>1
  <1>4. In = body(In)
    BY <1>3
  <1> HIDE DEF In
  <1>5. \A m \in n..Len(h) : In[m] <=> m = n \/ \E p \in n..(m - 1) : Contains(h[p].kids, m) /\ In[p]
    BY <1>4
  <1>6. \A m \in n..Len(h) : m \in InTree(h, n) <=> In[m]
    BY <1>1
  <1>7. ASSUME NEW m \in n..Len(h)
        PROVE m \in InTree(h, n) <=> m = n \/ \E p \in n..(m - 1) : Contains(h[p].kids, m) /\ p \in InTree(h, n)
    <2>1. \A p \in n..(m - 1) : p \in n..Len(h)
      OBVIOUS
    <2> QED BY <1>5, <1>6, <2>1
  <1> QED BY <1>1, <1>7

-----------------------------------------------------------------------------
(* The heap: trees whose nodes have one parent each.                         *)

Values == Token \cup {"", "EOF"}
Node == [type : NodeType, value : Values, kids : Seq(Nat), flags : SUBSET Flags, freed : 0..2]

IsHeap(h) ==
    /\ h \in Seq(Node) /\ Len(h) >= 1
    /\ \A n \in 1..Len(h) : \A m : Contains(h[n].kids, m) => m \in (n + 1)..Len(h)

Clean(h) == \A m \in 1..Len(h) : h[m].freed = 0

\* The trees have the roots R.  A node has one parent, unless it is a root or freed, and
\* a tree is freed as a whole.
Forest(h, R) ==
    /\ R \subseteq 1..Len(h)
    /\ \A m \in R : h[m].freed = 0 /\ \A p \in 1..Len(h) : ~Contains(h[p].kids, m)
    /\ \A p, q, m \in 1..Len(h) : Contains(h[p].kids, m) /\ Contains(h[q].kids, m) => p = q
    /\ \A p, m \in 1..Len(h) : Contains(h[p].kids, m) => h[p].freed = h[m].freed
    /\ \A m \in 1..Len(h) : h[m].freed \in {0, 1}
    /\ \A m \in 1..Len(h) : m \in R \/ h[m].freed = 1 \/ \E p \in 1..Len(h) : Contains(h[p].kids, m)

\* What the heap operations do to the children and to the number of frees.
LEMMA AppendHas ==
    ASSUME NEW s \in Seq(Nat), NEW c \in Nat
    PROVE  /\ Append(s, c) \in Seq(Nat)
           /\ \A m : Contains(Append(s, c), m) <=> Contains(s, m) \/ m = c
  <1> DEFINE u == Append(s, c)
  <1>1. /\ u \in Seq(Nat) /\ Len(u) = Len(s) + 1 /\ Len(s) \in Nat
        /\ \A i \in 1..Len(s) : u[i] = s[i]
        /\ u[Len(s) + 1] = c
    OBVIOUS
  <1> HIDE DEF u
  <1>2. ASSUME NEW m, Contains(u, m) PROVE Contains(s, m) \/ m = c
    <2>1. PICK i \in 1..Len(u) : u[i] = m
      BY <1>2 DEF Contains
    <2>2. i \in 1..Len(s) \/ i = Len(s) + 1
      BY <1>1, <2>1
    <2> QED BY <1>1, <2>1, <2>2 DEF Contains
  <1>3. ASSUME NEW m, Contains(s, m) \/ m = c PROVE Contains(u, m)
    <2>1. CASE Contains(s, m)
      <3>1. PICK i \in 1..Len(s) : s[i] = m
        BY <2>1 DEF Contains
      <3>2. i \in 1..Len(u)
        BY <1>1, <3>1
      <3> QED BY <1>1, <3>1, <3>2 DEF Contains
    <2>2. CASE m = c
      <3>1. Len(s) + 1 \in 1..Len(u)
        BY <1>1
      <3> QED BY <1>1, <2>2, <3>1 DEF Contains
    <2> QED BY <1>3, <2>1, <2>2
  <1> QED BY <1>1, <1>2, <1>3 DEF u

LEMMA ChildAdded ==
    ASSUME NEW h \in Seq(Node), NEW n \in 1..Len(h), NEW c \in Nat
    PROVE  /\ WithChild(h, n, c) \in Seq(Node) /\ Len(WithChild(h, n, c)) = Len(h)
           /\ \A k \in 1..Len(h) : WithChild(h, n, c)[k].freed = h[k].freed
           /\ \A k \in 1..Len(h) : \A m :
                Contains(WithChild(h, n, c)[k].kids, m) <=> Contains(h[k].kids, m) \/ (k = n /\ m = c)
  <1> DEFINE e == [h[n] EXCEPT !.kids = Append(@, c)]
             g == [h EXCEPT ![n] = e]
  <1>1. h[n] \in Node /\ h[n].kids \in Seq(Nat)
    <2>1. h[n] \in Node
      BY ElementOfSeq
    <2> QED BY <2>1 DEF Node
  <1>2. Append(h[n].kids, c) \in Seq(Nat) /\ \A m : Contains(Append(h[n].kids, c), m) <=> Contains(h[n].kids, m) \/ m = c
    BY <1>1, AppendHas
  <1>3. e \in Node /\ e.freed = h[n].freed /\ e.kids = Append(h[n].kids, c)
    BY <1>1, <1>2 DEF Node
  <1>4. WithChild(h, n, c) = g
    BY DEF WithChild
  <1> HIDE DEF e
  <1>5. g \in Seq(Node) /\ Len(g) = Len(h) /\ \A k \in 1..Len(h) : g[k] = IF k = n THEN e ELSE h[k]
    BY <1>3, ExceptSeq
  <1> HIDE DEF g
  <1> QED BY <1>2, <1>3, <1>4, <1>5

LEMMA NodeAdded ==
    ASSUME NEW h \in Seq(Node), NEW t \in NodeType, NEW v \in Values
    PROVE  /\ Append(h, ASTNodeCtor(t, v)) \in Seq(Node)
           /\ Len(Append(h, ASTNodeCtor(t, v))) = Len(h) + 1 /\ Len(h) \in Nat
           /\ \A k \in 1..Len(h) : Append(h, ASTNodeCtor(t, v))[k] = h[k]
           /\ Append(h, ASTNodeCtor(t, v))[Len(h) + 1].freed = 0
           /\ \A m : ~Contains(Append(h, ASTNodeCtor(t, v))[Len(h) + 1].kids, m)
  <1> DEFINE e == ASTNodeCtor(t, v)
  <1>1. e \in Node /\ e.freed = 0 /\ e.kids = <<>>
    BY DEF ASTNodeCtor, Node
  <1>2. \A m : ~Contains(<<>>, m)
    BY DEF Contains
  <1> HIDE DEF e
  <1>3. /\ Append(h, e) \in Seq(Node) /\ Len(Append(h, e)) = Len(h) + 1 /\ Len(h) \in Nat
        /\ \A k \in 1..Len(h) : Append(h, e)[k] = h[k]
        /\ Append(h, e)[Len(h) + 1] = e
    BY <1>1
  <1> QED BY <1>1, <1>2, <1>3 DEF e

WithFlag(h, n, f) == [h EXCEPT ![n].flags = @ \cup {f}]

LEMMA FlagAdded ==
    ASSUME NEW h \in Seq(Node), NEW n, NEW f \in Flags
    PROVE  /\ WithFlag(h, n, f) \in Seq(Node) /\ Len(WithFlag(h, n, f)) = Len(h)
           /\ \A k \in 1..Len(h) : WithFlag(h, n, f)[k].freed = h[k].freed /\ WithFlag(h, n, f)[k].kids = h[k].kids
  <1> DEFINE g == WithFlag(h, n, f)
  <1>1. CASE n \in DOMAIN h
    <2> DEFINE e == [h[n] EXCEPT !.flags = @ \cup {f}]
               u == [h EXCEPT ![n] = e]
    <2>0. n \in 1..Len(h)
      BY <1>1
    <2>1. h[n] \in Node
      BY <2>0, ElementOfSeq
    <2>2. e \in Node /\ e.freed = h[n].freed /\ e.kids = h[n].kids
      BY <2>1 DEF Node
    <2>3. g = u
      BY DEF WithFlag
    <2> HIDE DEF e
    <2>4. u \in Seq(Node) /\ Len(u) = Len(h) /\ \A k \in 1..Len(h) : u[k] = IF k = n THEN e ELSE h[k]
      BY <2>0, <2>2, ExceptSeq
    <2> HIDE DEF u
    <2> QED BY <2>2, <2>3, <2>4
  <1>2. CASE n \notin DOMAIN h
    <2>1. g = h
      <3>1. h = [k \in DOMAIN h |-> h[k]]
        BY LenProperties
      <3> QED BY <1>2, <3>1 DEF WithFlag
    <2> QED BY <2>1
  <1> QED BY <1>1, <1>2

\* The tree below a root holds a node if and only if it holds its children, and none of it is freed.
LEMMA TreeClosed ==
    ASSUME NEW h, NEW R, IsHeap(h), Forest(h, R), NEW r \in R
    PROVE  /\ r \in InTree(h, r) /\ InTree(h, r) \subseteq 1..Len(h)
           /\ \A p, m \in 1..Len(h) : Contains(h[p].kids, m) => (p \in InTree(h, r) <=> m \in InTree(h, r))
           /\ \A m \in InTree(h, r) : m # r => \E p \in 1..Len(h) : p < m /\ Contains(h[p].kids, m)
           /\ \A m \in InTree(h, r) : h[m].freed = 0
  <1> DEFINE T == InTree(h, r)
  <1>1. r \in 1..Len(h) /\ Len(h) \in Nat
    BY DEF Forest, IsHeap
  <1>2. /\ T \subseteq r..Len(h)
        /\ \A m \in r..Len(h) : m \in T <=> m = r \/ \E p \in r..(m - 1) : Contains(h[p].kids, m) /\ p \in T
    BY <1>1, InTreeIs
  <1> HIDE DEF T
  <1>3. r \in T /\ T \subseteq 1..Len(h)
    BY <1>1, <1>2
  <1>4. \A m \in T : m # r => \E p \in T : p < m /\ Contains(h[p].kids, m)
    BY <1>1, <1>2
  <1>5. ASSUME NEW p \in 1..Len(h), NEW m \in 1..Len(h), Contains(h[p].kids, m), p \in T PROVE m \in T
    <2>1. m \in (p + 1)..Len(h) /\ p \in r..Len(h)
      BY <1>2, <1>5 DEF IsHeap
    <2>2. m \in r..Len(h) /\ p \in r..(m - 1)
      BY <1>1, <2>1
    <2> QED BY <1>2, <1>5, <2>2
  <1>6. ASSUME NEW p \in 1..Len(h), NEW m \in 1..Len(h), Contains(h[p].kids, m), m \in T PROVE p \in T
    <2>1. m # r
      BY <1>6 DEF Forest
    <2>2. PICK q \in T : Contains(h[q].kids, m)
      BY <1>4, <1>6, <2>1
    <2>3. p = q
      BY <1>3, <1>6, <2>2 DEF Forest
    <2> QED BY <2>3
  <1>7. ASSUME NEW z \in T, h[z].freed # 0 PROVE FALSE
    <2> DEFINE S == {m \in T : h[m].freed # 0}
    <2>1. S \in SUBSET Nat /\ z \in S
      BY <1>3, <1>7
    <2>2. PICK m \in S : \A k \in S : m <= k
      <3> HIDE DEF S
      <3> QED BY <2>1, Smallest
    <2>3. m # r
      BY <2>2 DEF Forest
    <2>4. PICK p \in T : p < m /\ Contains(h[p].kids, m)
      BY <1>4, <2>2, <2>3
    <2>5. h[p].freed = h[m].freed
      BY <1>3, <2>2, <2>4 DEF Forest
    <2>6. p \in S /\ p \in Nat /\ m \in Nat
      BY <2>1, <2>2, <2>4, <2>5
    <2> QED BY <2>2, <2>4, <2>6
  <1> QED BY <1>3, <1>4, <1>5, <1>6, <1>7 DEF T

\* ASTFreeTree frees the nodes of the tree, each once, and changes nothing else.
LEMMA TreeFreed ==
    ASSUME NEW h, NEW R, IsHeap(h), Forest(h, R), NEW r \in R
    PROVE  /\ ASTFreeTree(h, r) \in Seq(Node) /\ Len(ASTFreeTree(h, r)) = Len(h)
           /\ \A m \in 1..Len(h) : ASTFreeTree(h, r)[m].kids = h[m].kids
           /\ \A m \in 1..Len(h) :
                ASTFreeTree(h, r)[m].freed = IF m \in InTree(h, r) THEN 1 ELSE h[m].freed
  <1> DEFINE T == InTree(h, r)
             g == ASTFreeTree(h, r)
  <1>1. \A m \in T : h[m].freed = 0
    BY TreeClosed
  <1>2. h \in Seq(Node) /\ DOMAIN h = 1..Len(h) /\ Len(h) \in Nat
    BY LenProperties DEF IsHeap
  <1>3. g = [m \in 1..Len(h) |-> IF m \in T THEN [h[m] EXCEPT !.freed = @ + 1] ELSE h[m]]
    BY <1>2 DEF ASTFreeTree
  <1> HIDE DEF T, g
  <1>4. ASSUME NEW m \in 1..Len(h)
        PROVE  g[m] \in Node /\ g[m].kids = h[m].kids /\ g[m].freed = IF m \in T THEN 1 ELSE h[m].freed
    <2>1. h[m] \in Node
      BY <1>2, ElementOfSeq
    <2>2. CASE m \in T
      <3>1. g[m] = [h[m] EXCEPT !.freed = @ + 1] /\ h[m].freed = 0
        BY <1>1, <1>3, <2>2
      <3>2. 1 \in 0..2 /\ 0 + 1 = 1
        OBVIOUS
      <3> QED BY <2>1, <2>2, <3>1, <3>2 DEF Node
    <2>3. CASE m \notin T
      BY <1>3, <2>1, <2>3
    <2> QED BY <2>2, <2>3
  <1>5. g \in [1..Len(h) -> Node]
    BY <1>3, <1>4
  <1>6. g \in Seq(Node)
    BY <1>2, <1>5, SeqDef
  <1>7. Len(g) = Len(h)
    BY <1>2, <1>5, <1>6, LenProperties
  <1> QED BY <1>4, <1>6, <1>7 DEF T, g

\* A new node becomes a child of n.
LEMMA ChildForest ==
    ASSUME NEW h, NEW R, IsHeap(h), Forest(h, R), Clean(h),
           NEW n \in 1..Len(h), NEW t \in NodeType, NEW v \in Values
    PROVE  LET g == Append(WithChild(h, n, Len(h) + 1), ASTNodeCtor(t, v))
           IN  IsHeap(g) /\ Forest(g, R) /\ Clean(g) /\ Len(g) = Len(h) + 1
  <1> DEFINE c == Len(h) + 1
             u == WithChild(h, n, c)
             g == Append(u, ASTNodeCtor(t, v))
  <1>1. h \in Seq(Node) /\ Len(h) \in Nat /\ Len(h) >= 1 /\ c \in Nat
    BY DEF IsHeap
  <1> HIDE DEF c
  <1>2. /\ u \in Seq(Node) /\ Len(u) = Len(h)
        /\ \A k \in 1..Len(h) : u[k].freed = h[k].freed
        /\ \A k \in 1..Len(h) : \A m : Contains(u[k].kids, m) <=> Contains(h[k].kids, m) \/ (k = n /\ m = c)
    BY <1>1, ChildAdded
  <1> HIDE DEF u
  <1>3. /\ g \in Seq(Node) /\ Len(g) = c
        /\ \A k \in 1..Len(h) : g[k] = u[k]
        /\ g[c].freed = 0
        /\ \A m : ~Contains(g[c].kids, m)
    <2>0. u \in Seq(Node)
      BY <1>2
    <2>1. /\ Append(u, ASTNodeCtor(t, v)) \in Seq(Node) /\ Len(Append(u, ASTNodeCtor(t, v))) = Len(u) + 1
          /\ \A k \in 1..Len(u) : Append(u, ASTNodeCtor(t, v))[k] = u[k]
          /\ Append(u, ASTNodeCtor(t, v))[Len(u) + 1].freed = 0
          /\ \A m : ~Contains(Append(u, ASTNodeCtor(t, v))[Len(u) + 1].kids, m)
      BY <2>0, NodeAdded
    <2> QED BY <1>2, <2>1 DEF c
  <1> HIDE DEF g
  <1>4. \A k \in 1..c : k \in 1..Len(h) \/ k = c
    BY <1>1 DEF c
  <1>5. c \notin 1..Len(h) /\ c \in 1..c /\ 1..Len(h) \subseteq 1..c /\ c >= 1
    BY <1>1 DEF c
  <1>6. \A k \in 1..c : \A m : Contains(g[k].kids, m) <=> (k \in 1..Len(h) /\ Contains(h[k].kids, m)) \/ (k = n /\ m = c)
    BY <1>2, <1>3, <1>4, <1>5
  <1>7. \A k \in 1..c : g[k].freed = 0
    BY <1>2, <1>3, <1>4 DEF Clean
  <1>8. \A k \in 1..Len(h) : \A m : Contains(h[k].kids, m) => m \in 1..Len(h) /\ m \in (k + 1)..c
    <2> SUFFICES ASSUME NEW k \in 1..Len(h), NEW m, Contains(h[k].kids, m) PROVE m \in 1..Len(h) /\ m \in (k + 1)..c
      OBVIOUS
    <2>1. m \in (k + 1)..Len(h)
      BY DEF IsHeap
    <2> QED BY <1>1, <2>1 DEF c
  <1>9. c \in (n + 1)..c
    BY <1>1 DEF c
  <1>10. IsHeap(g)
    BY <1>3, <1>5, <1>6, <1>8, <1>9 DEF IsHeap
  <1>11. Clean(g)
    BY <1>3, <1>7 DEF Clean
  <1>12. Forest(g, R)
    <2>1. R \subseteq 1..Len(h) /\ \A m \in R : \A p \in 1..Len(h) : ~Contains(h[p].kids, m)
      BY DEF Forest
    <2>2. ASSUME NEW m \in R PROVE g[m].freed = 0 /\ \A p \in 1..c : ~Contains(g[p].kids, m)
      BY <1>5, <1>6, <1>7, <2>1
    <2>3. ASSUME NEW p \in 1..c, NEW q \in 1..c, NEW m \in 1..c, Contains(g[p].kids, m), Contains(g[q].kids, m)
          PROVE  p = q
      <3>1. CASE m = c
        BY <1>5, <1>6, <1>8, <2>3, <3>1
      <3>2. CASE m # c
        BY <1>4, <1>6, <2>3, <3>2 DEF Forest
      <3> QED BY <3>1, <3>2
    <2>4. ASSUME NEW m \in 1..c PROVE m \in R \/ g[m].freed = 1 \/ \E p \in 1..c : Contains(g[p].kids, m)
      <3>1. CASE m = c
        BY <1>5, <1>6, <3>1
      <3>2. CASE m # c
        <4>1. m \in 1..Len(h) /\ h[m].freed # 1
          BY <1>4, <3>2 DEF Clean
        <4>2. m \in R \/ \E p \in 1..Len(h) : Contains(h[p].kids, m)
          BY <4>1 DEF Forest
        <4> QED BY <1>5, <1>6, <4>2
      <3> QED BY <3>1, <3>2
    <2>5. R \subseteq 1..c /\ \A m \in 1..c : g[m].freed \in {0, 1}
      BY <1>5, <1>7, <2>1
    <2>6. \A p, m \in 1..c : Contains(g[p].kids, m) => g[p].freed = g[m].freed
      BY <1>7
    <2> QED BY <1>3, <2>2, <2>3, <2>4, <2>5, <2>6 DEF Forest
  <1> QED BY <1>3, <1>10, <1>11, <1>12 DEF g, u, c

\* A new node that is no child of any is a root.
LEMMA RootForest ==
    ASSUME NEW h, NEW R, IsHeap(h), Forest(h, R), Clean(h), NEW t \in NodeType, NEW v \in Values
    PROVE  LET g == Append(h, ASTNodeCtor(t, v))
           IN  IsHeap(g) /\ Forest(g, R \cup {Len(h) + 1}) /\ Clean(g) /\ Len(g) = Len(h) + 1
  <1> DEFINE c == Len(h) + 1
             g == Append(h, ASTNodeCtor(t, v))
  <1>1. h \in Seq(Node) /\ Len(h) \in Nat /\ Len(h) >= 1 /\ c \in Nat
    BY DEF IsHeap
  <1>2. /\ g \in Seq(Node) /\ Len(g) = c
        /\ \A k \in 1..Len(h) : g[k] = h[k]
        /\ g[c].freed = 0
        /\ \A m : ~Contains(g[c].kids, m)
    BY <1>1, NodeAdded
  <1> HIDE DEF g
  <1>3. /\ \A k \in 1..c : k \in 1..Len(h) \/ k = c
        /\ c \notin 1..Len(h) /\ c \in 1..c /\ 1..Len(h) \subseteq 1..c /\ c >= 1
    BY <1>1
  <1>4. \A k \in 1..Len(h) : \A m : Contains(h[k].kids, m) => m \in 1..Len(h) /\ m \in (k + 1)..c
    <2> SUFFICES ASSUME NEW k \in 1..Len(h), NEW m, Contains(h[k].kids, m) PROVE m \in 1..Len(h) /\ m \in (k + 1)..c
      OBVIOUS
    <2>1. m \in (k + 1)..Len(h)
      BY DEF IsHeap
    <2> QED BY <1>1, <2>1
  <1> HIDE DEF c
  <1>5. \A k \in 1..c : \A m : Contains(g[k].kids, m) <=> k \in 1..Len(h) /\ Contains(h[k].kids, m)
    BY <1>2, <1>3
  <1>6. \A k \in 1..c : g[k].freed = 0
    BY <1>2, <1>3 DEF Clean
  <1>7. IsHeap(g)
    BY <1>2, <1>3, <1>4, <1>5 DEF IsHeap
  <1>8. Clean(g)
    BY <1>2, <1>6 DEF Clean
  <1>9. Forest(g, R \cup {c})
    <2>1. R \subseteq 1..Len(h) /\ \A m \in R : \A p \in 1..Len(h) : ~Contains(h[p].kids, m)
      BY DEF Forest
    <2>2. ASSUME NEW m \in R \cup {c} PROVE g[m].freed = 0 /\ \A p \in 1..c : ~Contains(g[p].kids, m)
      BY <1>3, <1>4, <1>5, <1>6, <2>1
    <2>3. ASSUME NEW p \in 1..c, NEW q \in 1..c, NEW m \in 1..c, Contains(g[p].kids, m), Contains(g[q].kids, m)
          PROVE  p = q
      BY <1>4, <1>5, <2>3 DEF Forest
    <2>4. ASSUME NEW m \in 1..c PROVE m \in R \cup {c} \/ g[m].freed = 1 \/ \E p \in 1..c : Contains(g[p].kids, m)
      <3>1. CASE m # c
        <4>1. m \in 1..Len(h) /\ h[m].freed # 1
          BY <1>3, <3>1 DEF Clean
        <4>2. m \in R \/ \E p \in 1..Len(h) : Contains(h[p].kids, m)
          BY <4>1 DEF Forest
        <4> QED BY <1>3, <1>5, <4>2
      <3> QED BY <3>1
    <2>5. R \cup {c} \subseteq 1..c /\ \A m \in 1..c : g[m].freed \in {0, 1}
      BY <1>3, <1>6, <2>1
    <2>6. \A p, m \in 1..c : Contains(g[p].kids, m) => g[p].freed = g[m].freed
      BY <1>6
    <2> QED BY <1>2, <2>2, <2>3, <2>4, <2>5, <2>6 DEF Forest
  <1> QED BY <1>2, <1>7, <1>8, <1>9 DEF g, c

\* A root becomes a child of an older node.
LEMMA AttachForest ==
    ASSUME NEW h, NEW R, IsHeap(h), Forest(h, R), Clean(h),
           NEW n \in 1..Len(h), NEW c \in R, n < c
    PROVE  LET g == WithChild(h, n, c)
           IN  IsHeap(g) /\ Forest(g, R \ {c}) /\ Clean(g) /\ Len(g) = Len(h)
  <1> DEFINE g == WithChild(h, n, c)
  <1>1. h \in Seq(Node) /\ Len(h) \in Nat /\ Len(h) >= 1 /\ c \in 1..Len(h) /\ c \in Nat
    BY DEF IsHeap, Forest
  <1>2. /\ g \in Seq(Node) /\ Len(g) = Len(h)
        /\ \A k \in 1..Len(h) : g[k].freed = h[k].freed
        /\ \A k \in 1..Len(h) : \A m : Contains(g[k].kids, m) <=> Contains(h[k].kids, m) \/ (k = n /\ m = c)
    BY <1>1, ChildAdded
  <1> HIDE DEF g
  <1>3. c \in (n + 1)..Len(h)
    BY <1>1
  <1>4. IsHeap(g)
    <2>1. ASSUME NEW k \in 1..Len(h), NEW m, Contains(g[k].kids, m) PROVE m \in (k + 1)..Len(h)
      <3>1. CASE Contains(h[k].kids, m)
        BY <3>1 DEF IsHeap
      <3>2. CASE k = n /\ m = c
        BY <1>3, <3>2
      <3> QED BY <1>2, <2>1, <3>1, <3>2
    <2> QED BY <1>1, <1>2, <2>1 DEF IsHeap
  <1>5. Clean(g)
    BY <1>2 DEF Clean
  <1>6. Forest(g, R \ {c})
    <2>1. ASSUME NEW m \in R \ {c} PROVE g[m].freed = 0 /\ \A p \in 1..Len(h) : ~Contains(g[p].kids, m)
      BY <1>2 DEF Forest
    <2>2. ASSUME NEW p \in 1..Len(h), NEW q \in 1..Len(h), NEW m \in 1..Len(h),
                 Contains(g[p].kids, m), Contains(g[q].kids, m)
          PROVE  p = q
      <3>1. \A k \in 1..Len(h) : ~Contains(h[k].kids, c)
        BY DEF Forest
      <3>2. CASE m = c
        BY <1>2, <2>2, <3>1, <3>2
      <3>3. CASE m # c
        <4>1. Contains(h[p].kids, m) /\ Contains(h[q].kids, m)
          BY <1>2, <2>2, <3>3
        <4> QED BY <4>1 DEF Forest
      <3> QED BY <3>2, <3>3
    <2>3. ASSUME NEW m \in 1..Len(h)
          PROVE  m \in R \ {c} \/ g[m].freed = 1 \/ \E p \in 1..Len(h) : Contains(g[p].kids, m)
      BY <1>2 DEF Forest
    <2>4. R \ {c} \subseteq 1..Len(h) /\ \A m \in 1..Len(h) : g[m].freed = 0
      BY <1>2, <1>5 DEF Forest, Clean
    <2> QED BY <1>2, <2>1, <2>2, <2>3, <2>4 DEF Forest
  <1> QED BY <1>2, <1>4, <1>5, <1>6 DEF g

LEMMA FlagForest ==
    ASSUME NEW h, NEW R, IsHeap(h), Forest(h, R), Clean(h), NEW n, NEW f \in Flags
    PROVE  LET g == WithFlag(h, n, f)
           IN  IsHeap(g) /\ Forest(g, R) /\ Clean(g) /\ Len(g) = Len(h)
  <1> DEFINE g == WithFlag(h, n, f)
  <1>1. /\ g \in Seq(Node) /\ Len(g) = Len(h)
        /\ \A k \in 1..Len(h) : g[k].freed = h[k].freed /\ g[k].kids = h[k].kids
    <2>1. h \in Seq(Node)
      BY DEF IsHeap
    <2> QED BY <2>1, FlagAdded
  <1> HIDE DEF g
  <1>2. IsHeap(g)
    BY <1>1 DEF IsHeap
  <1>3. Clean(g)
    BY <1>1 DEF Clean
  <1>4. Forest(g, R)
    BY <1>1 DEF Forest
  <1> QED BY <1>1, <1>2, <1>3, <1>4 DEF g

\* Freeing a tree takes its root away and frees nothing a second time.
LEMMA FreeForest ==
    ASSUME NEW h, NEW R, IsHeap(h), Forest(h, R), NEW r \in R
    PROVE  LET g == ASTFreeTree(h, r)
           IN  IsHeap(g) /\ Forest(g, R \ {r}) /\ Len(g) = Len(h)
  <1> DEFINE T == InTree(h, r)
             g == ASTFreeTree(h, r)
  <1>1. /\ r \in T /\ T \subseteq 1..Len(h)
        /\ \A p, m \in 1..Len(h) : Contains(h[p].kids, m) => (p \in T <=> m \in T)
        /\ \A m \in T : m # r => \E p \in 1..Len(h) : p < m /\ Contains(h[p].kids, m)
    BY TreeClosed
  <1>2. /\ g \in Seq(Node) /\ Len(g) = Len(h)
        /\ \A m \in 1..Len(h) : g[m].kids = h[m].kids
        /\ \A m \in 1..Len(h) : g[m].freed = IF m \in T THEN 1 ELSE h[m].freed
    BY TreeFreed
  <1> HIDE DEF T, g
  <1>3. IsHeap(g)
    BY <1>2 DEF IsHeap
  <1>4. Forest(g, R \ {r})
    <2>1. ASSUME NEW m \in R \ {r} PROVE g[m].freed = 0 /\ \A p \in 1..Len(h) : ~Contains(g[p].kids, m)
      BY <1>1, <1>2 DEF Forest
    <2>2. \A p, q, m \in 1..Len(h) : Contains(g[p].kids, m) /\ Contains(g[q].kids, m) => p = q
      BY <1>2 DEF Forest
    <2>3. \A p, m \in 1..Len(h) : Contains(g[p].kids, m) => g[p].freed = g[m].freed
      BY <1>1, <1>2 DEF Forest
    <2>4. \A m \in 1..Len(h) : g[m].freed \in {0, 1}
      BY <1>2 DEF Forest
    <2>5. \A m \in 1..Len(h) : m \in R \ {r} \/ g[m].freed = 1 \/ \E p \in 1..Len(h) : Contains(g[p].kids, m)
      BY <1>1, <1>2 DEF Forest
    <2>6. R \ {r} \subseteq 1..Len(h)
      BY DEF Forest
    <2> QED BY <1>2, <2>1, <2>2, <2>3, <2>4, <2>5, <2>6 DEF Forest
  <1> QED BY <1>2, <1>3, <1>4 DEF g

\* With no root left, every node was freed once.
LEMMA NoRootLeft ==
    ASSUME NEW h, IsHeap(h), Forest(h, {})
    PROVE  \A m \in 1..Len(h) : h[m].freed = 1
  <1> DEFINE S == {m \in 1..Len(h) : h[m].freed # 1}
  <1>1. SUFFICES ASSUME NEW z \in S PROVE FALSE
    OBVIOUS
  <1>2. PICK m \in S : \A k \in S : m <= k
    <2>1. S \in SUBSET Nat
      OBVIOUS
    <2> HIDE DEF S
    <2> QED BY <1>1, <2>1, Smallest
  <1>3. PICK p \in 1..Len(h) : Contains(h[p].kids, m)
    BY <1>2 DEF Forest
  <1>4. h[p].freed = h[m].freed /\ m \in (p + 1)..Len(h)
    BY <1>2, <1>3 DEF Forest, IsHeap
  <1>5. p \in S /\ ~(m <= p)
    BY <1>2, <1>3, <1>4
  <1> QED BY <1>2, <1>5

-----------------------------------------------------------------------------
(* The calls.                                                                *)

CallFrame == [todo : OpenCode \cup BuildCode \cup StartCode, own : Nat, local : BOOLEAN]

\* What call number i still has to do while nothing has failed.
Works(f, i) ==
    \/ ~f.local /\ f.todo \in OpenCode
    \/ ~f.local /\ i > 1 /\ f.todo \in StartCode
    \/ f.local /\ f.todo \in BuildCode

Running(s) == \A i \in 1..Len(s) : Works(s[i], i)

\* A call works on a node at least as new as its caller's, on a newer one if the node is its own.
Calls(s, h) ==
    /\ s \in Seq(CallFrame)
    /\ \A i \in 1..Len(s) : s[i].own \in 1..Len(h) /\ (s[i].local => i > 1)
    /\ \A i, j \in 1..Len(s) : j < i => s[j].own <= s[i].own /\ (s[i].local => s[j].own < s[i].own)

Roots(s) == {1} \cup {s[i].own : i \in {j \in 1..Len(s) : s[j].local}}

\* What the next instruction of a call leaves it to do.
LEMMA Instructions ==
    ASSUME NEW f, NEW i, Works(f, i), f.local \in BOOLEAN, f.todo # <<>>
    PROVE  LET hd == Head(f.todo)
               tl == Tail(f.todo)
               is(os) == hd.op \in os
           IN /\ is({"advance", "need", "needChild", "leaf", "flag", "call"}) =>
                    IF f.local THEN tl \in BuildCode ELSE tl \in OpenCode
              /\ is({"leaf", "make", "makeLocal"}) => hd.type \in NodeType
              /\ is({"flag"}) => hd.flag \in Flags
              /\ is({"call"}) => hd.to \in Builders \cup Others
              /\ is({"make"}) => ~f.local /\ tl \in OpenCode
              /\ is({"makeLocal"}) => ~f.local /\ i > 1 /\ tl \in BuildCode
              /\ is({"attach"}) => f.local /\ tl = <<>>
              /\ is({"if", "ifPeek"}) =>
                    IF f.local THEN hd.then \o tl \in BuildCode /\ hd.else \o tl \in BuildCode
                               ELSE hd.then \o tl \in OpenCode /\ hd.else \o tl \in OpenCode
              /\ is({"go"}) => IF f.local THEN Body[hd.to] \o tl \in BuildCode ELSE Body[hd.to] \o tl \in OpenCode
  <1> DEFINE hd == Head(f.todo)
             tl == Tail(f.todo)
  <1>1. CASE ~f.local /\ f.todo \in OpenCode
    <2>1. hd \in Open /\ tl \in OpenCode
      BY <1>1 DEF OpenCode
    <2>2. \A a \in OpenCode : a \o tl \in OpenCode
      <3> SUFFICES ASSUME NEW a \in OpenCode PROVE a \o tl \in OpenCode
        OBVIOUS
      <3>1. tl \in Seq(Open) /\ a \in Seq(Open)
        BY <2>1 DEF OpenCode
      <3> HIDE DEF tl
      <3> QED BY <3>1 DEF OpenCode
    <2> HIDE DEF hd, tl
    <2>3. /\ hd.op \in {"advance", "need", "needChild", "leaf", "flag", "call", "make", "go", "if", "ifPeek"}
          /\ hd.op \in {"if", "ifPeek"} => hd.then \in OpenCode /\ hd.else \in OpenCode
          /\ hd.op \in {"leaf", "make"} => hd.type \in NodeType
          /\ hd.op = "flag" => hd.flag \in Flags
          /\ hd.op = "call" => hd.to \in Builders \cup Others
          /\ hd.op = "go" => hd.to \in Others
      BY <2>1, OpenWhole DEF Whole, OpenCode
    <2>4. hd.op = "go" => Body[hd.to] \in OpenCode
      BY <2>3, BodyOpen
    <2> QED BY <1>1, <2>1, <2>2, <2>3, <2>4 DEF hd, tl
  <1>2. CASE ~f.local /\ i > 1 /\ f.todo \in StartCode
    <2>1. tl \in BuildCode /\ \E t \in NodeType : hd = MakeLocal(t)
      BY <1>2, StartIs DEF Starts
    <2>2. hd.op = "makeLocal" /\ hd.type \in NodeType
      BY <2>1 DEF MakeLocal
    <2> HIDE DEF hd, tl
    <2> QED BY <1>2, <2>1, <2>2 DEF hd, tl
  <1>3. CASE f.local /\ f.todo \in BuildCode
    <2> DEFINE Middle == hd \in Inner /\ tl \in BuildCode /\ \A a \in Seq(Inner) : a \o tl \in BuildCode
    <2>1. (hd \in End /\ tl = <<>>) \/ Middle
      BY <1>3, BuildStep
    <2>2. CASE Middle
      <3> HIDE DEF hd, tl
      <3>1. /\ hd.op \in {"advance", "need", "needChild", "leaf", "flag", "call", "make", "go", "if", "ifPeek"}
            /\ hd.op \in {"if", "ifPeek"} => hd.then \in Seq(Inner) /\ hd.else \in Seq(Inner)
            /\ hd.op \in {"leaf", "make"} => hd.type \in NodeType
            /\ hd.op = "flag" => hd.flag \in Flags
            /\ hd.op = "call" => hd.to \in Builders \cup Others
            /\ hd.op # "make" /\ (hd.op = "go" => hd.to = "LineBreak")
        BY <2>2, InnerWhole DEF Whole
      <3>2. hd.op = "go" => Body[hd.to] \in Seq(Inner)
        <4>1. Body["LineBreak"] = analyzeLineBreak
          BY DEF Body
        <4> QED BY <3>1, <4>1, LineBreakCode
      <3>3. /\ hd.op \in {"if", "ifPeek"} => hd.then \o tl \in BuildCode /\ hd.else \o tl \in BuildCode
            /\ hd.op = "go" => Body[hd.to] \o tl \in BuildCode
        BY <2>2, <3>1, <3>2
      <3>4. tl \in BuildCode
        BY <2>2
      <3> HIDE DEF Middle
      <3> QED BY <1>3, <3>1, <3>3, <3>4 DEF hd, tl
    <2>3. CASE hd \in End /\ tl = <<>>
      <3>1. /\ hd.op \in {"attach", "go", "if", "ifPeek"}
            /\ hd.op = "go" => hd.to \in Loops
            /\ hd.op \in {"if", "ifPeek"} => hd.then \in BuildCode /\ hd.else \in BuildCode
        BY <2>3, EndIs
      <3>2. hd.op = "go" => Body[hd.to] \in BuildCode
        BY <3>1, BodyLoops
      <3>3. \A a \in BuildCode : a \o <<>> = a
        BY ConcatEmptySeq DEF BuildCode, Ended
      <3> HIDE DEF hd, tl
      <3>4. /\ hd.op \in {"if", "ifPeek"} => hd.then \o tl \in BuildCode /\ hd.else \o tl \in BuildCode
            /\ hd.op = "go" => Body[hd.to] \o tl \in BuildCode
        BY <2>3, <3>1, <3>2, <3>3
      <3> QED BY <1>3, <2>3, <3>1, <3>4 DEF hd, tl
    <2> QED BY <2>1, <2>2, <2>3
  <1> QED BY <1>1, <1>2, <1>3 DEF Works

\* The last call gets the frame f.
LEMMA TopSet ==
    ASSUME NEW s, NEW h, NEW g, Calls(s, h), s # <<>>, Len(h) \in Nat, Len(g) \in Nat, Len(g) >= Len(h),
           NEW f \in CallFrame, f.own \in 1..Len(g), f.own >= s[Len(s)].own,
           f.local => Len(s) > 1 /\ (s[Len(s)].local \/ f.own > s[Len(s)].own)
    PROVE  LET t == [s EXCEPT ![Len(s)] = f]
           IN  /\ Calls(t, g) /\ Len(t) = Len(s) /\ Len(s) \in Nat \ {0}
               /\ \A i \in 1..Len(s) : t[i] = IF i = Len(s) THEN f ELSE s[i]
               /\ t # <<>>
  <1> DEFINE t == [s EXCEPT ![Len(s)] = f]
  <1>1. s \in Seq(CallFrame) /\ Len(s) \in Nat \ {0} /\ Len(s) \in 1..Len(s)
    BY EmptySeq DEF Calls
  <1>2. t \in Seq(CallFrame) /\ Len(t) = Len(s) /\ \A i \in 1..Len(s) : t[i] = IF i = Len(s) THEN f ELSE s[i]
    BY <1>1, ExceptSeq
  <1> HIDE DEF t
  <1>3. \A i \in 1..Len(s) : s[i].own \in Nat /\ s[i].own \in 1..Len(g) /\ (s[i].local => i > 1)
    <2> SUFFICES ASSUME NEW i \in 1..Len(s) PROVE s[i].own \in Nat /\ s[i].own \in 1..Len(g) /\ (s[i].local => i > 1)
      OBVIOUS
    <2>1. s[i].own \in 1..Len(h) /\ (s[i].local => i > 1)
      BY DEF Calls
    <2> QED BY <2>1
  <1>4. \A i \in 1..Len(s) : t[i].own \in 1..Len(g) /\ (t[i].local => i > 1)
    BY <1>1, <1>2, <1>3
  <1>5. f.own \in Nat
    OBVIOUS
  <1>6. ASSUME NEW i \in 1..Len(s), NEW j \in 1..Len(s), j < i
        PROVE  t[j].own <= t[i].own /\ (t[i].local => t[j].own < t[i].own)
    <2>1. j # Len(s) /\ t[j] = s[j]
      BY <1>1, <1>2, <1>6
    <2>2. CASE i = Len(s)
      <3>1. t[i] = f /\ s[j].own <= s[i].own /\ (s[i].local => s[j].own < s[i].own)
        BY <1>2, <1>6, <2>2 DEF Calls
      <3> QED BY <1>3, <1>5, <2>1, <2>2, <3>1
    <2>3. CASE i # Len(s)
      <3>1. t[i] = s[i]
        BY <1>2, <2>3
      <3> QED BY <1>6, <2>1, <3>1 DEF Calls
    <2> QED BY <2>2, <2>3
  <1>7. Calls(t, g)
    BY <1>2, <1>4, <1>6 DEF Calls
  <1>8. t # <<>>
    BY <1>1, <1>2, EmptySeq
  <1> QED BY <1>1, <1>2, <1>7, <1>8 DEF t

\* A new call, of a function that has no node of its own yet.
LEMMA Pushed ==
    ASSUME NEW s, NEW h, Calls(s, h), s # <<>>, Len(h) \in Nat,
           NEW f \in CallFrame, f.own = s[Len(s)].own, ~f.local
    PROVE  LET t == Append(s, f)
           IN  /\ Calls(t, h) /\ Len(t) = Len(s) + 1 /\ Len(s) \in Nat
               /\ \A i \in 1..Len(s) : t[i] = s[i]
               /\ t[Len(s) + 1] = f
               /\ Roots(t) = Roots(s)
  <1> DEFINE t == Append(s, f)
  <1>1. s \in Seq(CallFrame) /\ Len(s) \in Nat \ {0} /\ Len(s) \in 1..Len(s)
    BY EmptySeq DEF Calls
  <1>2. /\ t \in Seq(CallFrame) /\ Len(t) = Len(s) + 1
        /\ \A i \in 1..Len(s) : t[i] = s[i]
        /\ t[Len(s) + 1] = f
    BY <1>1
  <1> HIDE DEF t
  <1>3. \A i \in 1..Len(s) + 1 : i \in 1..Len(s) \/ i = Len(s) + 1
    BY <1>1
  <1>4. \A i \in 1..Len(s) : s[i].own \in Nat /\ s[i].own <= s[Len(s)].own
    <2> SUFFICES ASSUME NEW i \in 1..Len(s) PROVE s[i].own \in Nat /\ s[i].own <= s[Len(s)].own
      OBVIOUS
    <2>1. s[i].own \in 1..Len(h)
      BY DEF Calls
    <2>2. CASE i = Len(s)
      BY <2>1, <2>2
    <2>3. CASE i # Len(s)
      <3>1. i < Len(s)
        BY <1>1, <2>3
      <3> QED BY <1>1, <2>1, <3>1 DEF Calls
    <2> QED BY <2>2, <2>3
  <1>5. \A i \in 1..Len(s) + 1 : t[i].own \in 1..Len(h) /\ (t[i].local => i > 1)
    BY <1>1, <1>2, <1>3 DEF Calls
  <1>6. ASSUME NEW i \in 1..Len(s) + 1, NEW j \in 1..Len(s) + 1, j < i
        PROVE  t[j].own <= t[i].own /\ (t[i].local => t[j].own < t[i].own)
    <2>1. j \in 1..Len(s)
      BY <1>1, <1>6
    <2>2. CASE i = Len(s) + 1
      BY <1>2, <1>4, <2>1, <2>2
    <2>3. CASE i \in 1..Len(s)
      BY <1>2, <1>6, <2>1, <2>3 DEF Calls
    <2> QED BY <1>3, <2>2, <2>3
  <1>7. Calls(t, h)
    BY <1>2, <1>5, <1>6 DEF Calls
  <1>8. Roots(t) = Roots(s)
    <2>1. {t[i].own : i \in {j \in 1..Len(s) + 1 : t[j].local}} = {s[i].own : i \in {j \in 1..Len(s) : s[j].local}}
      BY <1>1, <1>2, <1>3
    <2> QED BY <1>2, <2>1 DEF Roots
  <1> QED BY <1>1, <1>2, <1>7, <1>8 DEF t

\* The roots but the one of the last call.
OlderRoots(s) == {1} \cup {s[i].own : i \in {j \in 1..(Len(s) - 1) : s[j].local}}

\* The root of the last call is no older call's.
LEMMA LastRoot ==
    ASSUME NEW s, NEW h, Calls(s, h), s # <<>>, Len(h) \in Nat
    PROVE  /\ Roots(s) = OlderRoots(s) \cup (IF s[Len(s)].local THEN {s[Len(s)].own} ELSE {})
           /\ s[Len(s)].local => s[Len(s)].own \notin OlderRoots(s) /\ s[Len(s)].own \in Roots(s)
  <1>1. s \in Seq(CallFrame) /\ Len(s) \in Nat \ {0} /\ Len(s) \in 1..Len(s)
    BY EmptySeq DEF Calls
  <1>2. \A i : i \in 1..Len(s) <=> i \in 1..(Len(s) - 1) \/ i = Len(s)
    BY <1>1
  <1>3. Roots(s) = OlderRoots(s) \cup (IF s[Len(s)].local THEN {s[Len(s)].own} ELSE {})
    BY <1>2 DEF Roots, OlderRoots
  <1>4. ASSUME s[Len(s)].local PROVE s[Len(s)].own \notin OlderRoots(s)
    <2>1. ASSUME NEW j \in 1..(Len(s) - 1) PROVE s[j].own < s[Len(s)].own /\ s[j].own \in 1..Len(h)
      <3>1. j \in 1..Len(s) /\ j < Len(s)
        BY <1>1
      <3> QED BY <1>1, <1>4, <3>1 DEF Calls
    <2>2. s[Len(s)].own \in 1..Len(h) /\ Len(s) > 1
      BY <1>1, <1>4 DEF Calls
    <2>3. s[Len(s)].own # 1
      <3>1. 1 \in 1..(Len(s) - 1)
        BY <1>1, <2>2
      <3>2. s[1].own < s[Len(s)].own /\ s[1].own \in 1..Len(h)
        BY <2>1, <3>1
      <3> QED BY <2>2, <3>2
    <2>4. \A j \in 1..(Len(s) - 1) : s[j].own # s[Len(s)].own
      <3> SUFFICES ASSUME NEW j \in 1..(Len(s) - 1) PROVE s[j].own # s[Len(s)].own
        OBVIOUS
      <3>1. s[j].own < s[Len(s)].own /\ s[j].own \in 1..Len(h)
        BY <2>1
      <3> QED BY <2>2, <3>1
    <2> QED BY <2>3, <2>4 DEF OlderRoots
  <1> QED BY <1>3, <1>4

\* The roots when the last call's frame becomes f, and when the last call returns.
LEMMA SetRoots ==
    ASSUME NEW s, NEW t, NEW f, Len(t) = Len(s), Len(s) \in Nat \ {0},
           \A i \in 1..Len(s) : t[i] = IF i = Len(s) THEN f ELSE s[i]
    PROVE  Roots(t) = OlderRoots(s) \cup (IF f.local THEN {f.own} ELSE {})
  <1>1. \A i : i \in 1..Len(s) <=> i \in 1..(Len(s) - 1) \/ i = Len(s)
    OBVIOUS
  <1>2. t[Len(s)] = f /\ \A i \in 1..(Len(s) - 1) : t[i] = s[i]
    BY <1>1
  <1> QED BY <1>1, <1>2 DEF Roots, OlderRoots

LEMMA Popped ==
    ASSUME NEW s, NEW h, Calls(s, h), s # <<>>
    PROVE  LET t == SubSeq(s, 1, Len(s) - 1)
           IN  /\ Calls(t, h) /\ Len(t) = Len(s) - 1 /\ Len(s) \in Nat \ {0}
               /\ \A i \in 1..Len(t) : t[i] = s[i]
               /\ Roots(t) = OlderRoots(s)
               /\ Len(s) = 1 => t = <<>>
  <1> DEFINE t == SubSeq(s, 1, Len(s) - 1)
  <1>1. s \in Seq(CallFrame) /\ Len(s) \in Nat \ {0}
    BY EmptySeq DEF Calls
  <1>2. t \in Seq(CallFrame) /\ Len(t) = Len(s) - 1 /\ \A i \in 1..Len(t) : t[i] = s[i]
    <2> DEFINE k == Len(s) - 1
    <2>1. s \in Seq(CallFrame) /\ 1 \in 1..Len(s) + 1 /\ k \in 1 - 1..Len(s) /\ k \in Nat
      BY <1>1
    <2> HIDE DEF k
    <2>2. t = SubSeq(s, 1, k)
      BY DEF k
    <2>3. SubSeq(s, 1, k) \in Seq(CallFrame) /\ Len(SubSeq(s, 1, k)) = k - 1 + 1
          /\ \A i \in 1..k - 1 + 1 : SubSeq(s, 1, k)[i] = s[1 + i - 1]
      BY <2>1, SubSeqProperties
    <2>4. k - 1 + 1 = k /\ \A i \in 1..k : 1 + i - 1 = i
      BY <2>1
    <2> HIDE DEF t
    <2> QED BY <2>2, <2>3, <2>4 DEF k
  <1> HIDE DEF t
  <1>3. \A i \in 1..Len(t) : i \in 1..Len(s)
    BY <1>1, <1>2
  <1>4. Calls(t, h)
    BY <1>2, <1>3 DEF Calls
  <1>5. Roots(t) = OlderRoots(s)
    BY <1>2 DEF Roots, OlderRoots
  <1>6. Len(s) = 1 => t = <<>>
    BY <1>2, EmptySeq
  <1> QED BY <1>1, <1>2, <1>4, <1>5, <1>6 DEF t

-----------------------------------------------------------------------------
(* The invariant of the parser.                                              *)

\* While the parser runs, and while it returns an error, the roots are ast_root and the
\* nodes that are not attached yet; nothing is freed before there is an error.
ParserInv ==
    /\ input \in Seq(Token)
    /\ pos \in 1..(Len(input) + 1)
    /\ phase \in {"parsing", "failing", "accepted", "rejected", "over"}
    /\ IsHeap(heap)
    /\ Calls(stack, heap)
    /\ phase \in {"parsing", "failing", "accepted"} => Forest(heap, Roots(stack))
    /\ phase \in {"parsing", "accepted"} => Clean(heap)
    /\ phase = "parsing" => Running(stack)
    /\ phase \in {"accepted", "rejected", "over"} => stack = <<>>
    /\ phase = "rejected" => \A m \in 1..Len(heap) : heap[m].freed = 1
    /\ phase = "over" => \A m \in 1..Len(heap) : heap[m].freed > 0

LEMMA InitHolds == Init => ParserInv
  <1> SUFFICES ASSUME Init PROVE ParserInv
    OBVIOUS
  <1> DEFINE e == ASTNodeCtor("PROGRAM", "")
             f == Frame("Program", 1)
  <1>1. input \in Seq(Token) /\ pos = 1 /\ heap = <<e>> /\ stack = <<f>> /\ phase = "parsing"
    BY InputAssumption DEF Init
  <1>2. e \in Node /\ e.kids = <<>> /\ e.freed = 0
    BY DEF ASTNodeCtor, Node, NodeType, Values
  <1>3. f \in CallFrame /\ Works(f, 1) /\ f.own = 1 /\ ~f.local
    <2>1. Body["Program"] \in OpenCode
      BY BodyOpen DEF Others
    <2> QED BY <2>1 DEF Frame, CallFrame, Works
  <1> HIDE DEF e, f
  <1>4. heap \in Seq(Node) /\ Len(heap) = 1 /\ heap[1] = e /\ \A n \in 1..Len(heap) : n = 1
    BY <1>1, <1>2
  <1>5. \A n \in 1..Len(heap) : \A m : ~Contains(heap[n].kids, m)
    BY <1>2, <1>4 DEF Contains
  <1>6. IsHeap(heap) /\ Clean(heap)
    BY <1>2, <1>4, <1>5 DEF IsHeap, Clean
  <1>7. stack \in Seq(CallFrame) /\ Len(stack) = 1 /\ stack[1] = f /\ \A i \in 1..Len(stack) : i = 1
    BY <1>1, <1>3
  <1>8. Calls(stack, heap) /\ Running(stack) /\ Roots(stack) = {1}
    BY <1>3, <1>4, <1>7 DEF Calls, Running, Roots
  <1>9. Forest(heap, {1})
    BY <1>2, <1>4, <1>5 DEF Forest
  <1>10. pos \in 1..(Len(input) + 1)
    <2>1. Len(input) \in Nat
      BY <1>1
    <2> QED BY <1>1, <2>1
  <1> QED BY <1>1, <1>6, <1>8, <1>9, <1>10 DEF ParserInv

-----------------------------------------------------------------------------
(* The steps that look at the top of the stack.                              *)

\* The running call.
LEMMA TopIs ==
    ASSUME ParserInv, phase = "parsing", stack # <<>>
    PROVE  /\ Len(stack) \in Nat \ {0} /\ Len(stack) \in 1..Len(stack) /\ stack \in Seq(CallFrame)
           /\ Top \in CallFrame /\ Works(Top, Len(stack)) /\ Top.local \in BOOLEAN
           /\ Top.own \in 1..Len(heap) /\ (Top.local => Len(stack) > 1)
           /\ Len(heap) \in Nat \ {0}
           /\ Top = stack[Len(stack)]
  <1>1. stack \in Seq(CallFrame) /\ Len(stack) \in Nat \ {0} /\ Len(stack) \in 1..Len(stack)
    BY EmptySeq DEF ParserInv, Calls
  <1>2. Top \in CallFrame
    BY <1>1, ElementOfSeq DEF Top
  <1>3. Top.local \in BOOLEAN
    BY <1>2 DEF CallFrame
  <1>4. Works(Top, Len(stack)) /\ Top.own \in 1..Len(heap) /\ (Top.local => Len(stack) > 1)
    BY <1>1 DEF ParserInv, Running, Calls, Top
  <1>5. Len(heap) \in Nat \ {0}
    BY DEF ParserInv, IsHeap
  <1> QED BY <1>1, <1>2, <1>3, <1>4, <1>5 DEF Top

\* The last call goes on, with f to do.
LEMMA GoesOn ==
    ASSUME NEW s, NEW h, NEW g, Calls(s, h), Running(s), s # <<>>,
           Len(h) \in Nat, Len(g) \in Nat, Len(g) >= Len(h),
           NEW f \in CallFrame, Works(f, Len(s)), f.own \in 1..Len(g), f.own >= s[Len(s)].own,
           f.local = s[Len(s)].local, f.local => f.own = s[Len(s)].own
    PROVE  LET t == [s EXCEPT ![Len(s)] = f]
           IN  Calls(t, g) /\ Running(t) /\ t # <<>> /\ Roots(t) = Roots(s)
  <1> DEFINE t == [s EXCEPT ![Len(s)] = f]
  <1>0. s \in Seq(CallFrame) /\ Len(s) \in Nat \ {0} /\ Len(s) \in 1..Len(s)
    BY EmptySeq DEF Calls
  <1>1. f.local => Len(s) > 1 /\ (s[Len(s)].local \/ f.own > s[Len(s)].own)
    BY <1>0 DEF Calls
  <1>2. /\ Calls(t, g) /\ Len(t) = Len(s) /\ t # <<>>
        /\ \A i \in 1..Len(s) : t[i] = IF i = Len(s) THEN f ELSE s[i]
    BY <1>1, TopSet
  <1> HIDE DEF t
  <1>3. Roots(t) = OlderRoots(s) \cup (IF f.local THEN {f.own} ELSE {})
    BY <1>0, <1>2, SetRoots
  <1>4. Roots(t) = Roots(s)
    BY <1>3, LastRoot
  <1>5. Running(t)
    BY <1>2 DEF Running
  <1> QED BY <1>2, <1>4, <1>5 DEF t

\* The call with its next instruction done.
LEMMA ProceedIs ==
    ASSUME ParserInv, phase = "parsing", stack # <<>>, Top.todo # <<>>,
           Head(Top.todo).op \in {"advance", "need", "needChild", "leaf", "flag", "call"}
    PROVE  /\ Proceed \in CallFrame /\ Works(Proceed, Len(stack))
           /\ Proceed.own = Top.own /\ Proceed.local = Top.local
  <1>1. Top \in CallFrame /\ Works(Top, Len(stack)) /\ Top.local \in BOOLEAN
    BY TopIs
  <1>2. IF Top.local THEN Tail(Top.todo) \in BuildCode ELSE Tail(Top.todo) \in OpenCode
    BY <1>1, Instructions
  <1> QED BY <1>1, <1>2 DEF Proceed, CallFrame, Works

\* In particular when it does no more than that.
LEMMA Proceeds ==
    ASSUME ParserInv, phase = "parsing", stack # <<>>, Top.todo # <<>>,
           Head(Top.todo).op \in {"advance", "need", "needChild", "leaf", "flag", "call"}
    PROVE  /\ Calls(SetTop(Proceed), heap) /\ Running(SetTop(Proceed)) /\ SetTop(Proceed) # <<>>
           /\ Roots(SetTop(Proceed)) = Roots(stack)
  <1> DEFINE f == Proceed
  <1>1. f \in CallFrame /\ Works(f, Len(stack)) /\ f.own = Top.own /\ f.local = Top.local
    BY ProceedIs
  <1>2. Top.own \in 1..Len(heap) /\ Len(heap) \in Nat /\ Top = stack[Len(stack)]
    BY TopIs
  <1>3. f.own \in 1..Len(heap) /\ f.own >= Top.own /\ Len(heap) >= Len(heap)
    BY <1>1, <1>2
  <1>4. Calls(stack, heap) /\ Running(stack)
    BY DEF ParserInv
  <1> HIDE DEF f
  <1>5. /\ Calls([stack EXCEPT ![Len(stack)] = f], heap) /\ Running([stack EXCEPT ![Len(stack)] = f])
        /\ [stack EXCEPT ![Len(stack)] = f] # <<>> /\ Roots([stack EXCEPT ![Len(stack)] = f]) = Roots(stack)
    BY <1>1, <1>2, <1>3, <1>4, GoesOn
  <1> QED BY <1>5 DEF SetTop, f

-----------------------------------------------------------------------------
(* Every action keeps the invariant.                                         *)

LEMMA AdvanceKeeps == ParserInv /\ AdvanceTokens => ParserInv'
  <1> SUFFICES ASSUME ParserInv, AdvanceTokens PROVE ParserInv'
    OBVIOUS
  <1>1. phase = "parsing" /\ stack # <<>> /\ Top.todo # <<>> /\ Head(Top.todo).op = "advance"
    BY DEF AdvanceTokens, Does
  <1>2. /\ Calls(stack', heap) /\ Running(stack') /\ Roots(stack') = Roots(stack)
    BY <1>1, Proceeds DEF AdvanceTokens
  <1>3. input' = input /\ heap' = heap /\ phase' \in {"parsing", "failing"}
    BY <1>1 DEF AdvanceTokens
  <1>4. pos' \in 1..(Len(input) + 1)
    <2>1. Len(input) \in Nat /\ pos \in 1..(Len(input) + 1)
      BY DEF ParserInv
    <2>2. pos' = IF pos <= Len(input) THEN pos + 1 ELSE pos
      BY DEF AdvanceTokens
    <2> QED BY <2>1, <2>2
  <1> QED BY <1>1, <1>2, <1>3, <1>4 DEF ParserInv

LEMMA NeedKeeps == ParserInv /\ NeedToken => ParserInv'
  <1> SUFFICES ASSUME ParserInv, NeedToken PROVE ParserInv'
    OBVIOUS
  <1>1. phase = "parsing" /\ stack # <<>> /\ Top.todo # <<>> /\ Head(Top.todo).op = "need"
    BY DEF NeedToken, Does
  <1>2. UNCHANGED <<input, pos, heap>>
    BY DEF NeedToken
  <1>3. CASE stack' = SetTop(Proceed) /\ phase' = phase
    <2>1. Calls(stack', heap) /\ Running(stack') /\ Roots(stack') = Roots(stack)
      BY <1>1, <1>3, Proceeds
    <2> QED BY <1>1, <1>2, <1>3, <2>1 DEF ParserInv
  <1>4. CASE phase' = "failing" /\ stack' = stack
    BY <1>1, <1>2, <1>4 DEF ParserInv
  <1> QED BY <1>3, <1>4 DEF NeedToken

LEMMA NeedChildrenKeeps == ParserInv /\ NeedChildren => ParserInv'
  <1> SUFFICES ASSUME ParserInv, NeedChildren PROVE ParserInv'
    OBVIOUS
  <1>1. phase = "parsing" /\ stack # <<>> /\ Top.todo # <<>> /\ Head(Top.todo).op = "needChild"
    BY DEF NeedChildren, Does
  <1>2. UNCHANGED <<input, pos, heap>>
    BY DEF NeedChildren
  <1>3. CASE stack' = SetTop(Proceed) /\ phase' = phase
    <2>1. Calls(stack', heap) /\ Running(stack') /\ Roots(stack') = Roots(stack)
      BY <1>1, <1>3, Proceeds
    <2> QED BY <1>1, <1>2, <1>3, <2>1 DEF ParserInv
  <1>4. CASE phase' = "failing" /\ stack' = stack
    BY <1>1, <1>2, <1>4 DEF ParserInv
  <1> QED BY <1>3, <1>4 DEF NeedChildren

LEMMA FlagKeeps == ParserInv /\ SetFlag => ParserInv'
  <1> SUFFICES ASSUME ParserInv, SetFlag PROVE ParserInv'
    OBVIOUS
  <1>1. phase = "parsing" /\ stack # <<>> /\ Top.todo # <<>> /\ Head(Top.todo).op = "flag"
    BY DEF SetFlag, Does
  <1>2. UNCHANGED <<input, pos, phase>> /\ stack' = SetTop(Proceed)
    BY DEF SetFlag
  <1>3. Calls(stack', heap) /\ Running(stack') /\ Roots(stack') = Roots(stack)
    BY <1>1, <1>2, Proceeds
  <1>4. PICK n : heap' = WithFlag(heap, n, Instr.flag)
    BY DEF SetFlag, WithFlag
  <1>5. Instr.flag \in Flags
    <2>1. Works(Top, Len(stack)) /\ Top.local \in BOOLEAN
      BY <1>1, TopIs
    <2> QED BY <1>1, <2>1, Instructions DEF Instr
  <1>6. IsHeap(heap) /\ Forest(heap, Roots(stack)) /\ Clean(heap)
    BY <1>1 DEF ParserInv
  <1>7. IsHeap(heap') /\ Forest(heap', Roots(stack)) /\ Clean(heap') /\ Len(heap') = Len(heap)
    BY <1>4, <1>5, <1>6, FlagForest
  <1>8. Calls(stack', heap')
    BY <1>3, <1>7 DEF Calls
  <1> QED BY <1>1, <1>2, <1>3, <1>7, <1>8 DEF ParserInv

LEMMA LeafKeeps == ParserInv /\ createAndInsertFromToken => ParserInv'
  <1> SUFFICES ASSUME ParserInv, createAndInsertFromToken PROVE ParserInv'
    OBVIOUS
  <1>1. phase = "parsing" /\ stack # <<>> /\ Top.todo # <<>> /\ Head(Top.todo).op = "leaf"
    BY DEF createAndInsertFromToken, Does
  <1>2. UNCHANGED <<input, pos, phase>> /\ stack' = SetTop(Proceed)
    BY DEF createAndInsertFromToken
  <1>3. Calls(stack', heap) /\ Running(stack') /\ Roots(stack') = Roots(stack)
    BY <1>1, <1>2, Proceeds
  <1>4. heap' = Append(WithChild(heap, Top.own, Len(heap) + 1), ASTNodeCtor(Instr.type, current_token))
    BY DEF createAndInsertFromToken
  <1>5. Instr.type \in NodeType /\ Top.own \in 1..Len(heap) /\ Len(heap) \in Nat
    <2>1. Works(Top, Len(stack)) /\ Top.local \in BOOLEAN /\ Top.own \in 1..Len(heap) /\ Len(heap) \in Nat
      BY <1>1, TopIs
    <2> QED BY <1>1, <2>1, Instructions DEF Instr
  <1>6. current_token \in Values
    <2>1. input \in Seq(Token) /\ pos \in 1..(Len(input) + 1)
      BY DEF ParserInv
    <2>2. pos <= Len(input) => input[pos] \in Token
      BY <2>1
    <2> QED BY <2>2 DEF current_token, At, Values
  <1>7. IsHeap(heap) /\ Forest(heap, Roots(stack)) /\ Clean(heap)
    BY <1>1 DEF ParserInv
  <1>8. IsHeap(heap') /\ Forest(heap', Roots(stack)) /\ Clean(heap') /\ Len(heap') = Len(heap) + 1
    BY <1>4, <1>5, <1>6, <1>7, ChildForest
  <1>9. Calls(stack', heap')
    <2>1. 1..Len(heap) \subseteq 1..Len(heap')
      BY <1>5, <1>8
    <2> QED BY <1>3, <2>1 DEF Calls
  <1> QED BY <1>1, <1>2, <1>3, <1>8, <1>9 DEF ParserInv

LEMMA ReturnKeeps == ParserInv /\ Return => ParserInv'
  <1> SUFFICES ASSUME ParserInv, Return PROVE ParserInv'
    OBVIOUS
  <1>1. phase = "parsing" /\ stack # <<>> /\ Top.todo = <<>> /\ UNCHANGED <<input, pos, heap>> /\ stack' = Drop
    BY DEF Return
  <1>2. Works(Top, Len(stack)) /\ Top = stack[Len(stack)] /\ Len(heap) \in Nat
    BY <1>1, TopIs
  <1>3. ~Top.local
    <2>1. <<>> \notin BuildCode
      BY BuildStep
    <2>2. <<>> \notin StartCode
      BY StartIs DEF Starts
    <2> QED BY <1>1, <1>2, <2>1, <2>2 DEF Works
  <1>4. Calls(stack, heap) /\ Running(stack)
    BY <1>1 DEF ParserInv
  <1>5. /\ Calls(stack', heap) /\ Len(stack') = Len(stack) - 1 /\ Len(stack) \in Nat \ {0}
        /\ \A i \in 1..Len(stack') : stack'[i] = stack[i]
        /\ Roots(stack') = OlderRoots(stack) /\ (Len(stack) = 1 => stack' = <<>>)
    BY <1>1, <1>4, Popped DEF Drop
  <1>6. Roots(stack') = Roots(stack)
    BY <1>1, <1>2, <1>3, <1>4, <1>5, LastRoot
  <1>7. Running(stack')
    <2>1. \A i \in 1..Len(stack') : i \in 1..Len(stack)
      BY <1>5
    <2> QED BY <1>4, <1>5, <2>1 DEF Running
  <1>8. phase' = IF Len(stack) = 1 THEN "accepted" ELSE "parsing"
    BY <1>1 DEF Return
  <1> QED BY <1>1, <1>5, <1>6, <1>7, <1>8 DEF ParserInv

LEMMA Changed ==
    ASSUME NEW f \in CallFrame, NEW w
    PROVE  [f EXCEPT !.todo = w] = [todo |-> w, own |-> f.own, local |-> f.local]
  <1>1. PICK a, n, l : f = [todo |-> a, own |-> n, local |-> l]
    BY DEF CallFrame
  <1> QED BY <1>1

LEMMA EmptyKeeps == ParserInv /\ createAndInsertEmpty => ParserInv'
  <1> SUFFICES ASSUME ParserInv, createAndInsertEmpty PROVE ParserInv'
    OBVIOUS
  <1> DEFINE f == [Proceed EXCEPT !.own = Len(heap) + 1]
  <1>1. phase = "parsing" /\ stack # <<>> /\ Top.todo # <<>> /\ Head(Top.todo).op = "make"
    BY DEF createAndInsertEmpty, Does
  <1>2. /\ UNCHANGED <<input, pos, phase>> /\ stack' = SetTop(f)
        /\ heap' = Append(WithChild(heap, Top.own, Len(heap) + 1), ASTNodeCtor(Instr.type, ""))
    BY DEF createAndInsertEmpty
  <1>3. /\ Top \in CallFrame /\ Works(Top, Len(stack)) /\ Top.local \in BOOLEAN
        /\ Top.own \in 1..Len(heap) /\ Len(heap) \in Nat /\ Top = stack[Len(stack)]
    BY <1>1, TopIs
  <1>4. ~Top.local /\ Tail(Top.todo) \in OpenCode /\ Instr.type \in NodeType
    BY <1>1, <1>3, Instructions DEF Instr
  <1>5. f \in CallFrame /\ Works(f, Len(stack)) /\ f.own = Len(heap) + 1 /\ f.local = Top.local
    <2> DEFINE c == Len(heap) + 1
               w == Tail(Top.todo)
    <2>1. c \in Nat /\ w \in OpenCode
      BY <1>3, <1>4
    <2>2. f = [Proceed EXCEPT !.own = c]
      OBVIOUS
    <2> HIDE DEF c
    <2>3. Proceed = [todo |-> w, own |-> Top.own, local |-> Top.local]
      BY <1>3, Changed DEF Proceed
    <2> HIDE DEF w, f
    <2>4. f = [todo |-> w, own |-> c, local |-> Top.local]
      BY <2>2, <2>3
    <2> QED BY <1>3, <1>4, <2>1, <2>4 DEF c, CallFrame, Works
  <1>6. IsHeap(heap) /\ Forest(heap, Roots(stack)) /\ Clean(heap) /\ Calls(stack, heap) /\ Running(stack)
    BY <1>1 DEF ParserInv
  <1>7. "" \in Values
    BY DEF Values
  <1>8. IsHeap(heap') /\ Forest(heap', Roots(stack)) /\ Clean(heap') /\ Len(heap') = Len(heap) + 1
    BY <1>2, <1>3, <1>4, <1>6, <1>7, ChildForest
  <1> DEFINE g == heap'
  <1>9. Len(g) \in Nat /\ Len(g) >= Len(heap) /\ f.own \in 1..Len(g) /\ f.own >= Top.own
    BY <1>3, <1>5, <1>8
  <1> HIDE DEF f, g
  <1>10. Calls(stack', g) /\ Running(stack') /\ Roots(stack') = Roots(stack)
    BY <1>1, <1>2, <1>3, <1>4, <1>5, <1>6, <1>9, GoesOn DEF SetTop
  <1> QED BY <1>1, <1>2, <1>8, <1>10 DEF ParserInv, g

LEMMA LocalKeeps == ParserInv /\ MakeLocalNode => ParserInv'
  <1> SUFFICES ASSUME ParserInv, MakeLocalNode PROVE ParserInv'
    OBVIOUS
  <1> DEFINE f == [Proceed EXCEPT !.own = Len(heap) + 1, !.local = TRUE]
  <1>1. phase = "parsing" /\ stack # <<>> /\ Top.todo # <<>> /\ Head(Top.todo).op = "makeLocal"
    BY DEF MakeLocalNode, Does
  <1>2. /\ UNCHANGED <<input, pos, phase>> /\ stack' = SetTop(f)
        /\ heap' = Append(heap, ASTNodeCtor(Instr.type, ""))
    BY DEF MakeLocalNode
  <1>3. /\ Top \in CallFrame /\ Works(Top, Len(stack)) /\ Top.local \in BOOLEAN
        /\ Top.own \in 1..Len(heap) /\ Len(heap) \in Nat /\ Top = stack[Len(stack)]
    BY <1>1, TopIs
  <1>4. ~Top.local /\ Len(stack) > 1 /\ Tail(Top.todo) \in BuildCode /\ Instr.type \in NodeType
    BY <1>1, <1>3, Instructions DEF Instr
  <1>5. f \in CallFrame /\ Works(f, Len(stack)) /\ f.own = Len(heap) + 1 /\ f.local
    <2> DEFINE c == Len(heap) + 1
               w == Tail(Top.todo)
    <2>1. c \in Nat /\ w \in BuildCode
      BY <1>3, <1>4
    <2>2. f = [Proceed EXCEPT !.own = c, !.local = TRUE]
      OBVIOUS
    <2> HIDE DEF c
    <2>3. Proceed = [todo |-> w, own |-> Top.own, local |-> Top.local]
      BY <1>3, Changed DEF Proceed
    <2> HIDE DEF w, f
    <2>4. f = [todo |-> w, own |-> c, local |-> TRUE]
      BY <2>2, <2>3
    <2> QED BY <1>3, <1>4, <2>1, <2>4 DEF c, CallFrame, Works
  <1>6. IsHeap(heap) /\ Forest(heap, Roots(stack)) /\ Clean(heap) /\ Calls(stack, heap) /\ Running(stack)
    BY <1>1 DEF ParserInv
  <1>7. "" \in Values
    BY DEF Values
  <1>8. /\ IsHeap(heap') /\ Forest(heap', Roots(stack) \cup {Len(heap) + 1}) /\ Clean(heap')
        /\ Len(heap') = Len(heap) + 1
    BY <1>2, <1>4, <1>6, <1>7, RootForest
  <1> DEFINE g == heap'
             t == [stack EXCEPT ![Len(stack)] = f]
  <1>9. /\ Len(g) \in Nat /\ Len(g) >= Len(heap) /\ f.own \in 1..Len(g)
        /\ f.own >= Top.own /\ f.own > Top.own
    BY <1>3, <1>5, <1>8
  <1>10. stack' = t
    BY <1>2 DEF SetTop
  <1> HIDE DEF f, g
  <1>11. /\ Calls(t, g) /\ Len(t) = Len(stack) /\ Len(stack) \in Nat \ {0}
         /\ \A i \in 1..Len(stack) : t[i] = IF i = Len(stack) THEN f ELSE stack[i]
    BY <1>1, <1>3, <1>4, <1>5, <1>6, <1>9, TopSet
  <1> HIDE DEF t
  <1>12. Roots(t) = Roots(stack) \cup {Len(heap) + 1}
    <2>1. Roots(t) = OlderRoots(stack) \cup (IF f.local THEN {f.own} ELSE {})
      BY <1>11, SetRoots
    <2>2. Roots(stack) = OlderRoots(stack)
      BY <1>1, <1>3, <1>4, <1>6, LastRoot
    <2> QED BY <1>5, <2>1, <2>2
  <1>13. Running(t)
    BY <1>5, <1>6, <1>11 DEF Running
  <1> QED BY <1>1, <1>2, <1>8, <1>10, <1>11, <1>12, <1>13 DEF ParserInv, g

LEMMA AttachKeeps == ParserInv /\ AttachNode => ParserInv'
  <1> SUFFICES ASSUME ParserInv, AttachNode PROVE ParserInv'
    OBVIOUS
  <1> DEFINE f == [Proceed EXCEPT !.local = FALSE]
  <1>1. phase = "parsing" /\ stack # <<>> /\ Top.todo # <<>> /\ Head(Top.todo).op = "attach"
    BY DEF AttachNode, Does
  <1>2. UNCHANGED <<input, pos, phase>> /\ stack' = SetTop(f) /\ heap' = WithChild(heap, Caller.own, Top.own)
    BY DEF AttachNode
  <1>3. /\ Top \in CallFrame /\ Works(Top, Len(stack)) /\ Top.local \in BOOLEAN
        /\ Top.own \in 1..Len(heap) /\ Len(heap) \in Nat /\ Top = stack[Len(stack)]
        /\ Len(stack) \in Nat \ {0} /\ Len(stack) \in 1..Len(stack)
        /\ (Top.local => Len(stack) > 1)
    BY <1>1, TopIs
  <1>4. Top.local /\ Tail(Top.todo) = <<>>
    BY <1>1, <1>3, Instructions DEF Instr
  <1>5. f \in CallFrame /\ Works(f, Len(stack)) /\ f.own = Top.own /\ ~f.local
    <2>1. <<>> \in OpenCode
      BY DEF OpenCode
    <2> QED BY <1>3, <1>4, <2>1 DEF Proceed, CallFrame, Works
  <1>6. IsHeap(heap) /\ Forest(heap, Roots(stack)) /\ Clean(heap) /\ Calls(stack, heap) /\ Running(stack)
    BY <1>1 DEF ParserInv
  <1>7. Caller.own \in 1..Len(heap) /\ Caller.own < Top.own
    <2>1. Len(stack) - 1 \in 1..Len(stack) /\ Len(stack) - 1 < Len(stack)
      BY <1>3, <1>4
    <2> QED BY <1>3, <1>4, <1>6, <2>1 DEF Caller, Calls
  <1>8. /\ Roots(stack) = OlderRoots(stack) \cup {Top.own}
        /\ Top.own \notin OlderRoots(stack) /\ Top.own \in Roots(stack)
    BY <1>1, <1>3, <1>4, <1>6, LastRoot
  <1>9. IsHeap(heap') /\ Forest(heap', Roots(stack) \ {Top.own}) /\ Clean(heap') /\ Len(heap') = Len(heap)
    BY <1>2, <1>6, <1>7, <1>8, AttachForest
  <1> DEFINE g == heap'
             t == [stack EXCEPT ![Len(stack)] = f]
  <1>10. Len(g) \in Nat /\ Len(g) >= Len(heap) /\ f.own \in 1..Len(g) /\ f.own >= Top.own
    BY <1>3, <1>5, <1>9
  <1>11. stack' = t
    BY <1>2 DEF SetTop
  <1> HIDE DEF f, g
  <1>12. /\ Calls(t, g) /\ Len(t) = Len(stack)
         /\ \A i \in 1..Len(stack) : t[i] = IF i = Len(stack) THEN f ELSE stack[i]
    BY <1>1, <1>3, <1>5, <1>6, <1>10, TopSet
  <1> HIDE DEF t
  <1>13. Roots(t) = Roots(stack) \ {Top.own}
    <2>1. Roots(t) = OlderRoots(stack) \cup (IF f.local THEN {f.own} ELSE {})
      BY <1>3, <1>12, SetRoots
    <2> QED BY <1>5, <1>8, <2>1
  <1>14. Running(t)
    BY <1>5, <1>6, <1>12 DEF Running
  <1> QED BY <1>1, <1>2, <1>9, <1>11, <1>12, <1>13, <1>14 DEF ParserInv, g

LEMMA BranchKeeps == ParserInv /\ Branch => ParserInv'
  <1> SUFFICES ASSUME ParserInv, Branch PROVE ParserInv'
    OBVIOUS
  <1>1. phase = "parsing" /\ stack # <<>> /\ Top.todo # <<>> /\ Head(Top.todo).op \in {"if", "ifPeek", "go"}
    BY DEF Branch, Does
  <1>2. UNCHANGED <<input, pos, heap, phase>>
    BY DEF Branch
  <1>3. /\ Top \in CallFrame /\ Works(Top, Len(stack)) /\ Top.local \in BOOLEAN
        /\ Top.own \in 1..Len(heap) /\ Len(heap) \in Nat /\ Top = stack[Len(stack)]
    BY <1>1, TopIs
  <1>4. PICK is : /\ stack' = Instead(is)
                  /\ IF Top.local THEN is \o Tail(Top.todo) \in BuildCode ELSE is \o Tail(Top.todo) \in OpenCode
    <2>1. /\ Instr.op \in {"if", "ifPeek"} =>
                IF Top.local THEN Instr.then \o Tail(Top.todo) \in BuildCode /\ Instr.else \o Tail(Top.todo) \in BuildCode
                             ELSE Instr.then \o Tail(Top.todo) \in OpenCode /\ Instr.else \o Tail(Top.todo) \in OpenCode
          /\ Instr.op = "go" => IF Top.local THEN Body[Instr.to] \o Tail(Top.todo) \in BuildCode
                                             ELSE Body[Instr.to] \o Tail(Top.todo) \in OpenCode
      BY <1>1, <1>3, Instructions DEF Instr
    <2>2. CASE Instr.op \in {"if", "ifPeek"} /\ stack' = Instead(Instr.then)
      BY <2>1, <2>2
    <2>3. CASE Instr.op \in {"if", "ifPeek"} /\ stack' = Instead(Instr.else)
      BY <2>1, <2>3
    <2>4. CASE Instr.op = "go" /\ stack' = Instead(Body[Instr.to])
      BY <2>1, <2>4
    <2> QED BY <2>2, <2>3, <2>4 DEF Branch, Does, Instr
  <1> DEFINE f == [Top EXCEPT !.todo = is \o Tail(@)]
  <1>5. f \in CallFrame /\ Works(f, Len(stack)) /\ f.own = Top.own /\ f.local = Top.local
    <2> DEFINE w == is \o Tail(Top.todo)
    <2>2. f = [Top EXCEPT !.todo = w]
      OBVIOUS
    <2> HIDE DEF w
    <2>3. IF Top.local THEN w \in BuildCode ELSE w \in OpenCode
      BY <1>4 DEF w
    <2> HIDE DEF f
    <2>4. f = [todo |-> w, own |-> Top.own, local |-> Top.local]
      BY <1>3, <2>2, Changed
    <2> QED BY <1>3, <2>3, <2>4 DEF CallFrame, Works
  <1>6. Calls(stack, heap) /\ Running(stack)
    BY <1>1 DEF ParserInv
  <1>7. stack' = [stack EXCEPT ![Len(stack)] = f]
    BY <1>4 DEF Instead, SetTop
  <1> HIDE DEF f
  <1>8. f.own \in 1..Len(heap) /\ f.own >= Top.own /\ Len(heap) >= Len(heap)
    BY <1>3, <1>5
  <1>9. Calls(stack', heap) /\ Running(stack') /\ Roots(stack') = Roots(stack)
    BY <1>1, <1>3, <1>5, <1>6, <1>7, <1>8, GoesOn
  <1> QED BY <1>1, <1>2, <1>9 DEF ParserInv

LEMMA CallKeeps == ParserInv /\ CallFunction => ParserInv'
  <1> SUFFICES ASSUME ParserInv, CallFunction PROVE ParserInv'
    OBVIOUS
  <1>1. phase = "parsing" /\ stack # <<>> /\ Top.todo # <<>> /\ Head(Top.todo).op = "call"
    BY DEF CallFunction, Does
  <1>2. UNCHANGED <<input, pos, heap, phase>> /\ stack' = Append(SetTop(Proceed), Frame(Instr.to, Top.own))
    BY DEF CallFunction
  <1>3. /\ Works(Top, Len(stack)) /\ Top.local \in BOOLEAN /\ Top.own \in 1..Len(heap) /\ Len(heap) \in Nat
        /\ Len(stack) \in Nat \ {0} /\ Len(stack) \in 1..Len(stack) /\ stack \in Seq(CallFrame)
    BY <1>1, TopIs
  <1>4. Instr.to \in Builders \cup Others
    BY <1>1, <1>3, Instructions DEF Instr
  <1> DEFINE u == SetTop(Proceed)
             f == Frame(Instr.to, Top.own)
  <1>5. Calls(u, heap) /\ Running(u) /\ u # <<>> /\ Roots(u) = Roots(stack)
    BY <1>1, Proceeds
  <1>6. Len(u) = Len(stack) /\ u[Len(u)].own = Top.own
    <2>1. Proceed \in CallFrame /\ Proceed.own = Top.own
      BY <1>1, ProceedIs
    <2>2. Len(u) = Len(stack) /\ u[Len(stack)] = Proceed
      BY <1>3, <2>1, ExceptSeq DEF SetTop
    <2> QED BY <2>1, <2>2
  <1>7. f \in CallFrame /\ f.own = Top.own /\ ~f.local /\ (f.todo \in OpenCode \/ f.todo \in StartCode)
    <2>1. Body[Instr.to] \in OpenCode \/ Body[Instr.to] \in StartCode
      BY <1>4, BodyOpen DEF StartCode
    <2>2. Top.own \in Nat
      BY <1>3
    <2> DEFINE b == Body[Instr.to]
    <2> HIDE DEF b
    <2>3. b \in OpenCode \/ b \in StartCode
      BY <2>1 DEF b
    <2>4. f = [todo |-> b, own |-> Top.own, local |-> FALSE]
      BY DEF b, Frame
    <2> QED BY <2>2, <2>3, <2>4 DEF CallFrame
  <1>8. stack' = Append(u, f)
    BY <1>2
  <1> HIDE DEF u, f
  <1>9. /\ Calls(stack', heap) /\ Len(stack') = Len(u) + 1
        /\ \A i \in 1..Len(u) : stack'[i] = u[i]
        /\ stack'[Len(u) + 1] = f /\ Roots(stack') = Roots(u)
    BY <1>3, <1>5, <1>6, <1>7, <1>8, Pushed
  <1>10. Running(stack')
    <2>1. \A i \in 1..Len(stack') : i \in 1..Len(u) \/ i = Len(u) + 1
      BY <1>3, <1>6, <1>9
    <2>2. Works(f, Len(u) + 1)
      BY <1>3, <1>6, <1>7 DEF Works
    <2> QED BY <1>5, <1>9, <2>1, <2>2 DEF Running
  <1> QED BY <1>1, <1>2, <1>5, <1>9, <1>10 DEF ParserInv

LEMMA ErrorKeeps == ParserInv /\ ReturnError => ParserInv'
  <1> SUFFICES ASSUME ParserInv, ReturnError PROVE ParserInv'
    OBVIOUS
  <1>1. /\ phase = "failing" /\ stack # <<>> /\ stack' = Drop /\ UNCHANGED <<input, pos, phase>>
        /\ heap' = IF Top.local THEN ASTFreeTree(heap, Top.own) ELSE heap
    BY DEF ReturnError
  <1>2. IsHeap(heap) /\ Forest(heap, Roots(stack)) /\ Calls(stack, heap) /\ Len(heap) \in Nat
    BY <1>1 DEF ParserInv, IsHeap
  <1>3. Calls(stack', heap) /\ Roots(stack') = OlderRoots(stack)
    BY <1>1, <1>2, Popped DEF Drop
  <1>4. /\ Roots(stack) = OlderRoots(stack) \cup (IF Top.local THEN {Top.own} ELSE {})
        /\ Top.local => Top.own \notin OlderRoots(stack) /\ Top.own \in Roots(stack)
    BY <1>1, <1>2, LastRoot DEF Top
  <1>5. CASE Top.local
    <2>1. Roots(stack') = Roots(stack) \ {Top.own}
      BY <1>3, <1>4, <1>5
    <2>2. IsHeap(heap') /\ Forest(heap', Roots(stack) \ {Top.own}) /\ Len(heap') = Len(heap)
      BY <1>1, <1>2, <1>4, <1>5, FreeForest
    <2>3. Calls(stack', heap')
      BY <1>3, <2>2 DEF Calls
    <2> QED BY <1>1, <2>1, <2>2, <2>3 DEF ParserInv
  <1>6. CASE ~Top.local
    <2>1. Roots(stack') = Roots(stack)
      BY <1>3, <1>4, <1>6
    <2> QED BY <1>1, <1>2, <1>3, <1>6, <2>1 DEF ParserInv
  <1> QED BY <1>5, <1>6

\* When no call is left, the root's tree is all there is, and freeing it frees every node.
LEMMA WholeTree ==
    ASSUME NEW h, IsHeap(h), Forest(h, {1})
    PROVE  /\ IsHeap(ASTFreeTree(h, 1)) /\ Len(ASTFreeTree(h, 1)) = Len(h)
           /\ \A m \in 1..Len(h) : ASTFreeTree(h, 1)[m].freed = 1
  <1>1. /\ IsHeap(ASTFreeTree(h, 1)) /\ Forest(ASTFreeTree(h, 1), {1} \ {1})
        /\ Len(ASTFreeTree(h, 1)) = Len(h)
    BY FreeForest
  <1>2. {1} \ {1} = {}
    OBVIOUS
  <1>3. \A m \in 1..Len(ASTFreeTree(h, 1)) : ASTFreeTree(h, 1)[m].freed = 1
    BY <1>1, <1>2, NoRootLeft
  <1> QED BY <1>1, <1>3

LEMMA NoCalls ==
    ASSUME ParserInv, stack = <<>>, phase \in {"failing", "accepted"}
    PROVE  IsHeap(heap) /\ Forest(heap, {1})
  <1>1. Roots(<<>>) = {1}
    BY DEF Roots
  <1> QED BY <1>1 DEF ParserInv

LEMMA AnalyzeKeeps == ParserInv /\ analyze => ParserInv'
  <1> SUFFICES ASSUME ParserInv, analyze PROVE ParserInv'
    OBVIOUS
  <1>1. /\ phase = "failing" /\ stack = <<>> /\ heap' = ASTFreeTree(heap, 1) /\ phase' = "rejected"
        /\ UNCHANGED <<input, pos, stack>>
    BY DEF analyze
  <1>2. IsHeap(heap') /\ Len(heap') = Len(heap) /\ \A m \in 1..Len(heap') : heap'[m].freed = 1
    BY <1>1, NoCalls, WholeTree
  <1>3. Calls(stack', heap')
    BY <1>1, <1>2 DEF ParserInv, Calls
  <1> QED BY <1>1, <1>2, <1>3 DEF ParserInv

LEMMA CallerKeeps == ParserInv /\ CallerFreesTree => ParserInv'
  <1> SUFFICES ASSUME ParserInv, CallerFreesTree PROVE ParserInv'
    OBVIOUS
  <1>1. phase' = "over" /\ UNCHANGED <<input, pos, stack>> /\ stack = <<>>
    BY DEF CallerFreesTree, ParserInv
  <1>2. IsHeap(heap') /\ Len(heap') = Len(heap) /\ \A m \in 1..Len(heap') : heap'[m].freed > 0
    <2>1. CASE phase = "accepted" /\ heap' = ASTFreeTree(heap, 1)
      BY <1>1, <2>1, NoCalls, WholeTree
    <2>2. CASE phase = "rejected" /\ heap' = [heap EXCEPT ![1].freed = @ + 1]
      <3> DEFINE e == [heap[1] EXCEPT !.freed = @ + 1]
      <3>1. /\ heap \in Seq(Node) /\ 1 \in 1..Len(heap) /\ Len(heap) \in Nat
            /\ \A m \in 1..Len(heap) : heap[m].freed = 1
        BY <2>2 DEF ParserInv, IsHeap
      <3>2. heap[1] \in Node /\ heap[1].freed = 1
        BY <3>1, ElementOfSeq
      <3>3. e \in Node /\ e.freed = 2 /\ e.kids = heap[1].kids
        <4>1. 2 \in 0..2 /\ 1 + 1 = 2
          OBVIOUS
        <4> QED BY <3>2, <4>1 DEF Node
      <3>4. heap' = [heap EXCEPT ![1] = e]
        BY <2>2
      <3> HIDE DEF e
      <3>5. /\ heap' \in Seq(Node) /\ Len(heap') = Len(heap)
            /\ \A m \in 1..Len(heap) : heap'[m] = IF m = 1 THEN e ELSE heap[m]
        BY <3>1, <3>3, <3>4, ExceptSeq
      <3>6. \A m \in 1..Len(heap) : heap'[m].kids = heap[m].kids /\ heap'[m].freed > 0
        BY <3>1, <3>3, <3>5
      <3>7. IsHeap(heap)
        BY DEF ParserInv
      <3> QED BY <3>5, <3>6, <3>7 DEF IsHeap
    <2> QED BY <2>1, <2>2 DEF CallerFreesTree
  <1>3. Calls(stack', heap')
    BY <1>1, <1>2 DEF ParserInv, Calls
  <1> QED BY <1>1, <1>2, <1>3 DEF ParserInv

-----------------------------------------------------------------------------
(* The theorems.                                                             *)

LEMMA StepKeeps == ParserInv /\ [Next]_vars => ParserInv'
  <1> SUFFICES ASSUME ParserInv, [Next]_vars PROVE ParserInv'
    OBVIOUS
  <1>1. CASE Step
    BY <1>1, AdvanceKeeps, NeedKeeps, NeedChildrenKeeps, EmptyKeeps, LocalKeeps, LeafKeeps, AttachKeeps,
       FlagKeeps, BranchKeeps, CallKeeps, ReturnKeeps, ErrorKeeps, AnalyzeKeeps, CallerKeeps DEF Step
  <1>2. CASE UNCHANGED vars
    BY <1>2 DEF vars, ParserInv
  <1> QED BY <1>1, <1>2 DEF Next, Finished

LEMMA InvHolds == Spec => []ParserInv
  BY InitHolds, StepKeeps, PTL DEF Spec

\* The parser's state has its type for every input: the parser never looks beyond the
\* token TOKEN_EOF, a call works on a node that exists, and a child is younger than its
\* parent, so that ASTFreeTree ends.
THEOREM ParserTypes == Spec => []TypeOK
  <1>1. ParserInv => TypeOK
    <2> SUFFICES ASSUME ParserInv PROVE TypeOK
      OBVIOUS
    <2>1. heap \in Seq(Node) /\ DOMAIN heap = 1..Len(heap) /\ Len(heap) \in Nat
      BY LenProperties DEF ParserInv, IsHeap
    <2>2. ASSUME NEW n \in DOMAIN heap
          PROVE  /\ heap[n].type \in NodeType /\ heap[n].flags \subseteq Flags /\ heap[n].freed \in 0..2
                 /\ \A i \in DOMAIN Kids(n) : Kids(n)[i] \in (n + 1)..Len(heap)
      <3>1. heap[n] \in Node
        BY <2>1, ElementOfSeq
      <3>2. DOMAIN Kids(n) = 1..Len(Kids(n))
        BY <3>1 DEF Node, Kids
      <3>3. \A i \in DOMAIN Kids(n) : Contains(heap[n].kids, Kids(n)[i])
        BY <3>2 DEF Contains, Kids
      <3>4. \A i \in DOMAIN Kids(n) : Kids(n)[i] \in (n + 1)..Len(heap)
        BY <2>1, <3>3 DEF ParserInv, IsHeap
      <3> QED BY <3>1, <3>4 DEF Node
    <2>3. ASSUME NEW i \in DOMAIN stack PROVE stack[i].own \in DOMAIN heap /\ stack[i].local \in BOOLEAN
      <3>1. stack \in Seq(CallFrame) /\ i \in 1..Len(stack)
        BY LenProperties DEF ParserInv, Calls
      <3>2. stack[i] \in CallFrame
        BY <3>1, ElementOfSeq
      <3> QED BY <2>1, <3>1, <3>2 DEF ParserInv, Calls, CallFrame
    <2> QED BY <2>2, <2>3 DEF TypeOK, ParserInv
  <1> QED BY <1>1, InvHolds, PTL

\* When analyze has returned a syntax error, every node that was made is freed, and
\* freed once: the lists, and-or lists and pipelines that were not in the tree yet are
\* freed by the call that made them, and ast_root's tree by analyze.
THEOREM SyntaxErrorsFreeAll == Spec => []ErrorFreesAll
  <1>1. ParserInv => ErrorFreesAll
    <2>1. ParserInv => DOMAIN heap = 1..Len(heap)
      BY LenProperties DEF ParserInv, IsHeap
    <2> QED BY <2>1 DEF ParserInv, ErrorFreesAll
  <1> QED BY <1>1, InvHolds, PTL

\* An accepted tree holds every node that was made: none is left behind unattached.
THEOREM AcceptedTreeIsWhole == Spec => [](phase = "accepted" => InTree(heap, 1) = DOMAIN heap)
  <1>1. ParserInv => (phase = "accepted" => InTree(heap, 1) = DOMAIN heap)
    <2> SUFFICES ASSUME ParserInv, phase = "accepted" PROVE InTree(heap, 1) = DOMAIN heap
      OBVIOUS
    <2>1. IsHeap(heap) /\ Forest(heap, {1}) /\ Clean(heap) /\ DOMAIN heap = 1..Len(heap)
      BY NoCalls, LenProperties DEF ParserInv, IsHeap
    <2>2. /\ \A m \in 1..Len(heap) : ASTFreeTree(heap, 1)[m].freed = IF m \in InTree(heap, 1) THEN 1 ELSE heap[m].freed
          /\ InTree(heap, 1) \subseteq 1..Len(heap)
      BY <2>1, TreeFreed, TreeClosed
    <2>3. \A m \in 1..Len(heap) : ASTFreeTree(heap, 1)[m].freed = 1
      BY <2>1, WholeTree
    <2>4. \A m \in 1..Len(heap) : heap[m].freed = 0
      BY <2>1 DEF Clean
    <2>5. \A m \in 1..Len(heap) : m \in InTree(heap, 1)
      BY <2>2, <2>3, <2>4
    <2> QED BY <2>1, <2>2, <2>5
  <1> QED BY <1>1, InvHolds, PTL

\* Whatever analyze returned, no node is left allocated once its caller has freed the
\* tree: the safety part of Terminates.
THEOREM NothingLeaks == Spec => [](phase = "over" => \A n \in DOMAIN heap : heap[n].freed > 0)
  <1>1. ParserInv => (phase = "over" => \A n \in DOMAIN heap : heap[n].freed > 0)
    <2>1. ParserInv => DOMAIN heap = 1..Len(heap)
      BY LenProperties DEF ParserInv, IsHeap
    <2> QED BY <2>1 DEF ParserInv
  <1> QED BY <1>1, InvHolds, PTL

-----------------------------------------------------------------------------
(* What a call knows of its node.                                            *)

\* The tokens there may be, and those after which a list is over.
AnyToken == Token \cup {"EOF"}
NotSeparator == AnyToken \ {"SEMI", "BG"}

\* A node of type t whose children have shape s; open: the last pipeline of an and-or list is
\* not followed by an operator.
St(t, s) == [type |-> t, shape |-> s, open |-> FALSE]
Empty(t) == St(t, Plain(<<>>))
Final == UNION {{[type |-> t, shape |-> s, open |-> t = "AND_OR"] : s \in Shapes[t]} : t \in NodeType}

\* What a call knows: that it will give its caller's node a child with a type of adds, or, when
\* it has a node of its own, the states nodes that may be in; and what the current token may be.
Know(a, k, ts) == [adds |-> a, nodes |-> k, tokens |-> ts]
Own(k) == Know({}, k, AnyToken)
Done(ts) == Know({}, Final, ts)

\* A says at least what B says.
Leq(A, B) == A.tokens = {} \/ (A.adds = B.adds /\ A.nodes \subseteq B.nodes /\ A.tokens \subseteq B.tokens)

\* One more child of type c: one of the many or the last one, or one more of the first.
AddsLater(s, c, u) ==
    /\ s.last = <<>> /\ u.first = s.first /\ u.many = s.many
    /\ (c \in s.many /\ u.last = <<>>) \/ \E S \in SUBSET NodeType : c \in S /\ u.last = <<S>>
AddsFirst(s, c, u) ==
    /\ s.many = {} /\ s.last = <<>> /\ u.last = <<>>
    /\ \E S \in SUBSET NodeType : c \in S /\ u.first = Append(s.first, S)
Adds(s, c, u) ==
    /\ s.shape.first \in Seq(SUBSET NodeType) /\ c \in NodeType
    /\ AddsLater(s.shape, c, u.shape) \/ AddsFirst(s.shape, c, u.shape)
    /\ u.type = s.type /\ ~s.open /\ u.open = (s.type = "AND_OR")
    /\ s.type = "AND_OR" => c = "PIPELINE"
CanAdd(K, c, L) == \A s \in K : \E u \in L : Adds(s, c, u)

-----------------------------------------------------------------------------
(* What the functions do to what their calls know.                           *)

\* The functions that give the node they are called with one child, and its types.
Makes == [
    CompleteCommand |-> {"COMPLETE_COMMAND"}, List |-> {"LIST"}, Term |-> {"LIST"},
    AndOr |-> {"AND_OR"}, Pipeline |-> {"PIPELINE"}, Command |-> Command, OtherCommand |-> Command,
    SimpleCommand |-> {"SIMPLE_COMMAND"}, CmdPrefix |-> {"CMD_PREFIX"}, CmdSuffix |-> {"CMD_SUFFIX"},
    Redirect |-> {"REDIRECT"}, FunctionDef |-> {"FUNCTION_DEF"}, CompoundCommand |-> Compound,
    BraceGroup |-> {"BRACE_GROUP"}, Subshell |-> {"SUBSHELL"}, IfClause |-> {"IF_CLAUSE"},
    ElsePart |-> {"IF_CLAUSE", "ELSE_CLAUSE"}, WhileClause |-> {"WHILE_CLAUSE"},
    UntilClause |-> {"UNTIL_CLAUSE"}, ForClause |-> {"FOR_CLAUSE"}, CaseClause |-> {"CASE_CLAUSE"},
    CaseItem |-> {"CASE_ITEM"}]
Makers == DOMAIN Makes

\* The tokens they are called at, and those they return at.
Before(p) == IF p = "CmdPrefix" THEN PrefixStart ELSE IF p = "CmdSuffix" THEN SuffixStart
             ELSE IF p = "CaseItem" THEN AnyToken \ {"esac"} ELSE AnyToken
After(p) == IF p = "Term" THEN NotSeparator ELSE AnyToken

\* The states of nodes in the loops.
Commands == St("PROGRAM", Many(<<>>, {"COMPLETE_COMMAND"}, <<>>))
AndOrs == St("LIST", Many(<<{"AND_OR"}>>, {"AND_OR"}, <<>>))
Pipelines == St("AND_OR", Many(<<{"PIPELINE"}>>, {"PIPELINE"}, <<>>))
OpenPipelines == [type |-> "AND_OR", shape |-> Pipelines.shape, open |-> TRUE]
Piped == St("PIPELINE", Many(<<Command>>, Command, <<>>))
PrefixParts == St("CMD_PREFIX", Many(<<PrefixPart>>, PrefixPart, <<>>))
SuffixParts == St("CMD_SUFFIX", Many(<<SuffixPart>>, SuffixPart, <<>>))
Words == St("FOR_CLAUSE", Many(<<{"WORD"}>>, {"WORD"}, <<>>))
Items == St("CASE_CLAUSE", Many(<<{"WORD"}>>, {"CASE_ITEM"}, <<>>))
ItemWords == St("CASE_ITEM", Many(<<{"WORD"}>>, {"WORD"}, <<>>))
ItemList == St("CASE_ITEM", Many(<<{"WORD"}>>, {"WORD"}, <<{"LIST"}>>))
Defined == St("FUNCTION_DEF", Many(<<{"WORD"}, Compound>>, {"REDIRECT"}, <<>>))

\* Body[p] leads a call from A to B.
Goes(p, A, B) ==
    \/ p \in {"LineBreak", "Newline"} /\ A.tokens \subseteq AnyToken /\ B = Know(A.adds, A.nodes, AnyToken)
    \/ p \in Makers /\ Makes[p] \subseteq A.adds /\ A = Know(A.adds, {}, Before(p)) /\ B = Done(After(p))
    \/ /\ p \in {"CompoundList", "DoGroup"}
       /\ \E K, L : CanAdd(K, "LIST", L) /\ A = Own(K) /\ B = Own(L)
    \/ p \in {"Program", "MoreCommands"} /\ A = Own({Commands}) /\ B = Own({Commands})
    \/ p = "ListRest" /\ A = Own({AndOrs}) /\ B = Done(AnyToken)
    \/ p = "TermRest" /\ A = Own({AndOrs}) /\ B = Done(NotSeparator)
    \/ p = "AndOrRest" /\ A = Own({OpenPipelines}) /\ B = Done(AnyToken)
    \/ p = "PipelineRest" /\ A = Own({Piped}) /\ B = Done(AnyToken)
    \/ p = "PrefixRest" /\ A = Own({PrefixParts}) /\ B = Own({PrefixParts})
    \/ p = "PrefixRest" /\ A = Know({}, {Empty("CMD_PREFIX")}, PrefixStart) /\ B = Own({PrefixParts})
    \/ p = "SuffixRest" /\ A = Own({SuffixParts}) /\ B = Own({SuffixParts})
    \/ p = "SuffixRest" /\ A = Know({}, {Empty("CMD_SUFFIX")}, SuffixStart) /\ B = Own({SuffixParts})
    \/ p = "ForWords" /\ A = Own({Words}) /\ B = Own({Words})
    \/ p = "CaseItems" /\ A = Own({Items}) /\ B = Own({Items})
    \/ p = "Patterns" /\ A = Own({Empty("CASE_ITEM")}) /\ B = Own({ItemWords, ItemList})
    \/ p = "Patterns" /\ A = Own({ItemWords}) /\ B = Own({ItemWords, ItemList})
    \/ p = "FunctionRedirects" /\ A = Own({Defined}) /\ B = Own({Defined})

\* A flag on a node in state s, or on its last child or the last child of that.
Flagged(s, f, depth, u) ==
    \/ depth = 0 /\ f \in FlagsAllowed[s.type] /\ f \notin {"AND", "OR"} /\ u = s
    \/ depth = 1 /\ f = "BACKGROUND" /\ s = AndOrs /\ u = s
    \/ depth = 1 /\ f \in {"AND", "OR"} /\ s = OpenPipelines /\ u = Pipelines
    \/ depth = 2 /\ f = "BACKGROUND" /\ s = St("COMPLETE_COMMAND", Plain(<<{"LIST"}>>)) /\ u = s

\* Instruction i leads a call from A to B.
Does1(A, i, B) ==
    \/ i.op = "advance" /\ Leq(Know(A.adds, A.nodes, AnyToken), B)
    \/ i.op = "need" /\ Leq(Know(A.adds, A.nodes, A.tokens \cap i.tokens), B)
    \/ /\ i.op = "needChild" /\ A.adds = {}
       /\ Leq(Know({}, {s \in A.nodes : s.shape # Plain(<<>>)}, A.tokens), B)
    \/ i.op \in {"make", "makeLocal"} /\ i.type \in A.adds /\ Leq(Know({}, {Empty(i.type)}, A.tokens), B)
    \/ /\ i.op = "leaf" /\ A.adds = {} /\ B.adds = {} /\ A.tokens \subseteq B.tokens
       /\ CanAdd(A.nodes, i.type, B.nodes) /\ Empty(i.type) \in Final
    \/ /\ i.op = "flag" /\ A.adds = {} /\ B.adds = {} /\ A.tokens \subseteq B.tokens
       /\ \A s \in A.nodes : \E u \in B.nodes : Flagged(s, i.flag, i.depth, u)
    \/ i.op = "attach" /\ A.adds = {} /\ Leq(A, B)
    \/ /\ i.op = "call" /\ i.to \in Makers /\ A.adds = {} /\ B.adds = {}
       /\ A.tokens \subseteq Before(i.to) /\ After(i.to) \subseteq B.tokens
       /\ \A c \in Makes[i.to] : CanAdd(A.nodes, c, B.nodes)
    \/ i.op = "go" /\ Goes(i.to, A, B)

\* A set of judgements "code c leads from A to B" that the instructions keep.
Restrict1(A, i, ts) == IF i.op = "if" THEN Know(A.adds, A.nodes, ts) ELSE A
Follows(J, c, A, B) ==
    IF c = <<>> THEN Leq(A, B)
    ELSE IF Head(c).op \in {"if", "ifPeek"}
         THEN /\ <<Head(c).then \o Tail(c), Restrict1(A, Head(c), A.tokens \cap Head(c).tokens), B>> \in J
              /\ <<Head(c).else \o Tail(c), Restrict1(A, Head(c), A.tokens \ Head(c).tokens), B>> \in J
              /\ Head(c).then \in Seq(ToSet(Head(c).then)) /\ Head(c).else \in Seq(ToSet(Head(c).else))
         ELSE \E C : Does1(A, Head(c), C) /\ <<Tail(c), C, B>> \in J
Closed(J) ==
    \A j \in J : /\ j[1] \in Seq(ToSet(j[1]))
                 /\ j[2].tokens = {} \/ \E A : Leq(j[2], A) /\ Follows(J, j[1], A, j[3])

\* Code c leads a call that knows A to where it knows B.
Leads(c, A, B) == \E J : Closed(J) /\ <<c, A, B>> \in J

-----------------------------------------------------------------------------
(* The rules for Leads.                                                      *)

LEMMA LeqIs ==
    /\ \A A : Leq(A, A)
    /\ \A A, B, C : Leq(A, B) /\ Leq(B, C) => Leq(A, C)
    /\ \A A, B : Leq(A, B) /\ A.tokens # {} => B.tokens # {}
  BY DEF Leq

LEMMA FollowsMore ==
    ASSUME NEW J, NEW K, J \subseteq K, NEW c, NEW A, NEW B, Follows(J, c, A, B)
    PROVE  Follows(K, c, A, B)
  BY DEF Follows

LEMMA ClosedUnion ==
    ASSUME NEW J, NEW K, Closed(J), Closed(K)
    PROVE  Closed(J \cup K)
  <1> SUFFICES ASSUME NEW j \in J \cup K
               PROVE  /\ j[1] \in Seq(ToSet(j[1]))
                      /\ j[2].tokens = {} \/ \E A : Leq(j[2], A) /\ Follows(J \cup K, j[1], A, j[3])
    BY DEF Closed
  <1>1. \E L \in {J, K} : j \in L /\ Closed(L) /\ L \subseteq J \cup K
    OBVIOUS
  <1>2. PICK L \in {J, K} : j \in L /\ Closed(L) /\ L \subseteq J \cup K
    BY <1>1
  <1>3. /\ j[1] \in Seq(ToSet(j[1]))
        /\ j[2].tokens = {} \/ \E A : Leq(j[2], A) /\ Follows(L, j[1], A, j[3])
    BY <1>2 DEF Closed
  <1> QED BY <1>2, <1>3, FollowsMore

\* One more judgement, about code whose first step leads into the set.
LEMMA LeadsBy ==
    ASSUME NEW J, Closed(J), NEW c, c \in Seq(ToSet(c)), NEW A, NEW B, NEW C, Leq(A, C),
           A.tokens = {} \/ Follows(J, c, C, B)
    PROVE  Leads(c, A, B)
  <1> DEFINE j == <<c, A, B>>
             K == J \cup {j}
  <1>1. j[1] = c /\ j[2] = A /\ j[3] = B
    OBVIOUS
  <1> HIDE DEF j
  <1>2. Closed(K)
    <2> SUFFICES ASSUME NEW i \in K
                 PROVE  /\ i[1] \in Seq(ToSet(i[1]))
                        /\ i[2].tokens = {} \/ \E X : Leq(i[2], X) /\ Follows(K, i[1], X, i[3])
      BY DEF Closed
    <2>1. CASE i \in J
      <3>1. /\ i[1] \in Seq(ToSet(i[1]))
            /\ i[2].tokens = {} \/ \E X : Leq(i[2], X) /\ Follows(J, i[1], X, i[3])
        BY <2>1 DEF Closed
      <3>2. J \subseteq K
        OBVIOUS
      <3> HIDE DEF K
      <3> QED BY <3>1, <3>2, FollowsMore
    <2>2. CASE i = j
      <3>1. J \subseteq K
        OBVIOUS
      <3> HIDE DEF K
      <3>2. A.tokens = {} \/ Follows(K, c, C, B)
        BY <3>1, FollowsMore
      <3> QED BY <1>1, <2>2, <3>2
    <2> QED BY <2>1, <2>2
  <1>3. j \in K
    OBVIOUS
  <1> QED BY <1>2, <1>3 DEF Leads, j

LEMMA ClosedEmpty == Closed({})
  BY DEF Closed

\* What code that leads somewhere does next.
LEMMA LeadsNext ==
    ASSUME NEW c, NEW A, NEW B, Leads(c, A, B)
    PROVE  /\ c \in Seq(ToSet(c))
           /\ A.tokens # {} => \E X : Leq(A, X) /\
                IF c = <<>> THEN Leq(X, B)
                ELSE IF Head(c).op \in {"if", "ifPeek"}
                     THEN /\ Leads(Head(c).then \o Tail(c), Restrict1(X, Head(c), X.tokens \cap Head(c).tokens), B)
                          /\ Leads(Head(c).else \o Tail(c), Restrict1(X, Head(c), X.tokens \ Head(c).tokens), B)
                     ELSE \E C : Does1(X, Head(c), C) /\ Leads(Tail(c), C, B)
  <1>1. PICK J : Closed(J) /\ <<c, A, B>> \in J
    BY DEF Leads
  <1> DEFINE j == <<c, A, B>>
  <1>2. j[1] = c /\ j[2] = A /\ j[3] = B /\ j \in J
    BY <1>1
  <1> HIDE DEF j
  <1>3. c \in Seq(ToSet(c)) /\ (A.tokens = {} \/ \E X : Leq(A, X) /\ Follows(J, c, X, B))
    BY <1>1, <1>2 DEF Closed
  <1>4. ASSUME NEW X, Leq(A, X), Follows(J, c, X, B)
        PROVE  IF c = <<>> THEN Leq(X, B)
                ELSE IF Head(c).op \in {"if", "ifPeek"}
                     THEN /\ Leads(Head(c).then \o Tail(c), Restrict1(X, Head(c), X.tokens \cap Head(c).tokens), B)
                          /\ Leads(Head(c).else \o Tail(c), Restrict1(X, Head(c), X.tokens \ Head(c).tokens), B)
                     ELSE \E C : Does1(X, Head(c), C) /\ Leads(Tail(c), C, B)
    <2>1. \A d, X1, Y : <<d, X1, Y>> \in J => Leads(d, X1, Y)
      BY <1>1 DEF Leads
    <2> QED BY <1>4, <2>1 DEF Follows
  <1> QED BY <1>3, <1>4

LEMMA LeadsNowhere ==
    ASSUME NEW c, NEW A, NEW B, c \in Seq(ToSet(c)), A.tokens = {}
    PROVE  Leads(c, A, B)
  BY ClosedEmpty, LeadsBy, LeqIs

LEMMA LeadsNothing ==
    ASSUME NEW A, NEW B, Leq(A, B)
    PROVE  Leads(<<>>, A, B)
  <1>1. <<>> \in Seq(ToSet(<<>>)) /\ Follows({}, <<>>, A, B)
    BY DEF Follows
  <1> QED BY <1>1, ClosedEmpty, LeadsBy, LeqIs

\* Knowing more does no harm.
LEMMA LeadsFrom ==
    ASSUME NEW c, NEW A, NEW C, NEW B, Leq(A, C), Leads(c, C, B)
    PROVE  Leads(c, A, B)
  <1>1. PICK J : Closed(J) /\ <<c, C, B>> \in J
    BY DEF Leads
  <1> DEFINE j == <<c, C, B>>
  <1>2. j[1] = c /\ j[2] = C /\ j[3] = B /\ j \in J
    BY <1>1
  <1> HIDE DEF j
  <1>3. c \in Seq(ToSet(c)) /\ (C.tokens = {} \/ \E X : Leq(C, X) /\ Follows(J, c, X, B))
    BY <1>1, <1>2 DEF Closed
  <1>4. CASE A.tokens = {}
    BY <1>3, <1>4, LeadsNowhere
  <1>5. CASE A.tokens # {}
    <2>1. PICK X : Leq(C, X) /\ Follows(J, c, X, B)
      BY <1>3, <1>5, LeqIs
    <2>2. Leq(A, X)
      BY <2>1, LeqIs
    <2> QED BY <1>1, <1>3, <2>1, <2>2, LeadsBy
  <1> QED BY <1>4, <1>5

\* Code is a sequence.
LEMMA CodeIs ==
    ASSUME NEW c, c \in Seq(ToSet(c)), NEW d, d \in Seq(ToSet(d))
    PROVE  /\ c \o d \in Seq(ToSet(c \o d))
           /\ c # <<>> => /\ Head(c \o d) = Head(c) /\ Tail(c \o d) = Tail(c) \o d /\ c \o d # <<>>
                          /\ Tail(c) \in Seq(ToSet(Tail(c)))
           /\ <<>> \o d = d
           /\ c \o <<>> = c
  <1> DEFINE S == ToSet(c) \cup ToSet(d)
  <1>1. c \in Seq(S) /\ d \in Seq(S)
    <2>1. ToSet(c) \subseteq S /\ ToSet(d) \subseteq S
      OBVIOUS
    <2> HIDE DEF S
    <2> QED BY <2>1, SeqMonotonic
  <1> HIDE DEF S
  <1>2. \A T, s : s \in Seq(T) => s \in Seq(ToSet(s))
    <2> SUFFICES ASSUME NEW T, NEW s \in Seq(T) PROVE s \in Seq(ToSet(s))
      OBVIOUS
    <2>1. Len(s) \in Nat /\ DOMAIN s = 1..Len(s) /\ \A i \in 1..Len(s) : s[i] \in ToSet(s)
      BY DEF ToSet
    <2>2. s = [i \in 1..Len(s) |-> s[i]]
      BY <2>1
    <2> QED BY <2>1, <2>2, IsASeq
  <1>3. c \o d \in Seq(ToSet(c \o d)) /\ <<>> \o d = d /\ c \o <<>> = c
    <2>1. c \o d \in Seq(S)
      BY <1>1, ConcatProperties
    <2> QED BY <1>1, <1>2, <2>1, ConcatEmptySeq
  <1>4. ASSUME c # <<>>
        PROVE  /\ Head(c \o d) = Head(c) /\ Tail(c \o d) = Tail(c) \o d /\ c \o d # <<>>
               /\ Tail(c) \in Seq(ToSet(Tail(c)))
    <2>1. Tail(c) \in Seq(S) /\ Head(c) \in S /\ c = <<Head(c)>> \o Tail(c)
      BY <1>1, <1>4
    <2>2. c \o d = <<Head(c)>> \o (Tail(c) \o d)
      <3>1. <<Head(c)>> \in Seq(S)
        BY <2>1
      <3> QED BY <1>1, <2>1, <3>1, ConcatAssociative
    <2>3. Tail(c) \o d \in Seq(S)
      BY <1>1, <2>1, ConcatProperties
    <2> DEFINE t == Tail(c) \o d
               h == Head(c)
    <2>4. t \in Seq(S) /\ h \in S
      BY <2>1, <2>3
    <2> HIDE DEF t, h
    <2>5. Head(<<h>> \o t) = h /\ Tail(<<h>> \o t) = t /\ <<h>> \o t # <<>>
      BY <2>4
    <2> QED BY <1>2, <2>1, <2>2, <2>5 DEF t, h
  <1> QED BY <1>3, <1>4

LEMMA CodeGroups ==
    ASSUME NEW c, c \in Seq(ToSet(c)), NEW d, d \in Seq(ToSet(d)), NEW e, e \in Seq(ToSet(e))
    PROVE  (c \o d) \o e = c \o (d \o e)
  <1> DEFINE S == ToSet(c) \cup ToSet(d) \cup ToSet(e)
  <1>1. ToSet(c) \subseteq S /\ ToSet(d) \subseteq S /\ ToSet(e) \subseteq S
    OBVIOUS
  <1> HIDE DEF S
  <1>2. c \in Seq(S) /\ d \in Seq(S) /\ e \in Seq(S)
    BY <1>1, SeqMonotonic
  <1> QED BY <1>2, ConcatAssociative

\* Code after code.
LEMMA LeadsOn ==
    ASSUME NEW c, NEW d, NEW A, NEW B, NEW C, Leads(c, A, C), Leads(d, C, B)
    PROVE  Leads(c \o d, A, B)
  <1>1. PICK J : Closed(J) /\ <<c, A, C>> \in J
    BY DEF Leads
  <1>2. PICK K : Closed(K) /\ <<d, C, B>> \in K
    BY DEF Leads
  <1> DEFINE JC == {j \in J : j[3] = C}
             L == {<<j[1] \o d, j[2], B>> : j \in JC}
             M == L \cup K
  <1>3. d \in Seq(ToSet(d)) /\ (C.tokens = {} \/ \E X : Leq(C, X) /\ Follows(K, d, X, B))
    <2> DEFINE k == <<d, C, B>>
    <2>1. k[1] = d /\ k[2] = C /\ k[3] = B /\ k \in K
      BY <1>2
    <2> HIDE DEF k
    <2> QED BY <1>2, <2>1 DEF Closed
  <1>4. \A x, X : <<x, X, C>> \in J => <<x \o d, X, B>> \in L
    <2> SUFFICES ASSUME NEW x, NEW X, <<x, X, C>> \in J PROVE <<x \o d, X, B>> \in L
      OBVIOUS
    <2> DEFINE j == <<x, X, C>>
    <2>1. j[1] = x /\ j[2] = X /\ j[3] = C /\ j \in J
      OBVIOUS
    <2> HIDE DEF j
    <2>2. j \in JC
      BY <2>1
    <2>3. <<j[1] \o d, j[2], B>> \in L
      BY <2>2
    <2> QED BY <2>1, <2>3
  <1>5. Closed(M)
    <2> SUFFICES ASSUME NEW i \in M
                 PROVE  /\ i[1] \in Seq(ToSet(i[1]))
                        /\ i[2].tokens = {} \/ \E X : Leq(i[2], X) /\ Follows(M, i[1], X, i[3])
      BY DEF Closed
    <2>0. K \subseteq M /\ L \subseteq M
      OBVIOUS
    <2>1. CASE i \in K
      <3> HIDE DEF M
      <3>1. /\ i[1] \in Seq(ToSet(i[1]))
            /\ i[2].tokens = {} \/ \E X : Leq(i[2], X) /\ Follows(K, i[1], X, i[3])
        BY <1>2, <2>1 DEF Closed
      <3> QED BY <2>0, <3>1, FollowsMore
    <2>2. CASE i \in L
      <3>1. PICK j \in JC : i = <<j[1] \o d, j[2], B>>
        BY <2>2
      <3> DEFINE x == j[1]
                 X == j[2]
      <3>2. j \in J /\ j[3] = C
        BY <3>1
      <3>3. x \in Seq(ToSet(x)) /\ (X.tokens = {} \/ \E Y : Leq(X, Y) /\ Follows(J, x, Y, C))
        BY <1>1, <3>2 DEF Closed
      <3>4. i[1] = x \o d /\ i[2] = X /\ i[3] = B
        BY <3>1
      <3> HIDE DEF x, X, L, M, JC
      <3>5. x \o d \in Seq(ToSet(x \o d))
        BY <1>3, <3>3, CodeIs
      <3>6. ASSUME X.tokens # {} PROVE \E Y : Leq(X, Y) /\ Follows(M, x \o d, Y, B)
        <4>1. PICK Y : Leq(X, Y) /\ Follows(J, x, Y, C)
          BY <3>3, <3>6
        <4>2. CASE x = <<>>
          <5>1. x \o d = d /\ Leq(Y, C)
            BY <1>3, <4>1, <4>2, CodeIs DEF Follows
          <5>2. Leq(X, C) /\ C.tokens # {}
            BY <3>6, <4>1, <5>1, LeqIs
          <5>3. PICK Z : Leq(C, Z) /\ Follows(K, d, Z, B)
            BY <1>3, <5>2
          <5>4. Leq(X, Z) /\ Follows(M, d, Z, B)
            BY <2>0, <5>2, <5>3, LeqIs, FollowsMore
          <5> QED BY <5>1, <5>4
        <4>3. CASE x # <<>>
          <5>1. /\ x \o d # <<>> /\ Head(x \o d) = Head(x) /\ Tail(x \o d) = Tail(x) \o d
                /\ Tail(x) \in Seq(ToSet(Tail(x)))
            BY <1>3, <3>3, <4>3, CodeIs
          <5>2. CASE Head(x).op \in {"if", "ifPeek"}
            <6>1. /\ <<Head(x).then \o Tail(x), Restrict1(Y, Head(x), Y.tokens \cap Head(x).tokens), C>> \in J
                  /\ <<Head(x).else \o Tail(x), Restrict1(Y, Head(x), Y.tokens \ Head(x).tokens), C>> \in J
                  /\ Head(x).then \in Seq(ToSet(Head(x).then)) /\ Head(x).else \in Seq(ToSet(Head(x).else))
              BY <4>1, <4>3, <5>2 DEF Follows
            <6>2. /\ (Head(x).then \o Tail(x)) \o d = Head(x).then \o (Tail(x) \o d)
                  /\ (Head(x).else \o Tail(x)) \o d = Head(x).else \o (Tail(x) \o d)
              <7> DEFINE p == Head(x).then
                         q == Head(x).else
                         t == Tail(x)
              <7>1. p \in Seq(ToSet(p)) /\ q \in Seq(ToSet(q)) /\ t \in Seq(ToSet(t)) /\ d \in Seq(ToSet(d))
                BY <1>3, <5>1, <6>1
              <7> HIDE DEF p, q, t
              <7>2. (p \o t) \o d = p \o (t \o d) /\ (q \o t) \o d = q \o (t \o d)
                <8>1. (p \o t) \o d = p \o (t \o d)
                  BY <7>1, CodeGroups
                <8>2. (q \o t) \o d = q \o (t \o d)
                  BY <7>1, CodeGroups
                <8> QED BY <8>1, <8>2
              <7> QED BY <7>2 DEF p, q, t
            <6>3. /\ <<Head(x).then \o (Tail(x) \o d), Restrict1(Y, Head(x), Y.tokens \cap Head(x).tokens), B>> \in M
                  /\ <<Head(x).else \o (Tail(x) \o d), Restrict1(Y, Head(x), Y.tokens \ Head(x).tokens), B>> \in M
              BY <1>4, <2>0, <6>1, <6>2
            <6>4. Follows(M, x \o d, Y, B)
              BY <5>1, <5>2, <6>1, <6>3 DEF Follows
            <6> QED BY <4>1, <6>4
          <5>3. CASE Head(x).op \notin {"if", "ifPeek"}
            <6>1. PICK Z : Does1(Y, Head(x), Z) /\ <<Tail(x), Z, C>> \in J
              BY <4>1, <4>3, <5>3 DEF Follows
            <6>2. <<Tail(x) \o d, Z, B>> \in M
              BY <1>4, <2>0, <6>1
            <6>3. Follows(M, x \o d, Y, B)
              BY <5>1, <5>3, <6>1, <6>2 DEF Follows
            <6> QED BY <4>1, <6>3
          <5> QED BY <5>2, <5>3
        <4> QED BY <4>2, <4>3
      <3> QED BY <3>4, <3>5, <3>6
    <2> QED BY <2>1, <2>2
  <1>6. <<c \o d, A, B>> \in M
    BY <1>1, <1>4
  <1> QED BY <1>5, <1>6 DEF Leads

LEMMA LeadsTo ==
    ASSUME NEW c, NEW A, NEW B, NEW C, Leads(c, A, C), Leq(C, B)
    PROVE  Leads(c, A, B)
  <1>1. Leads(<<>>, C, B)
    BY LeadsNothing
  <1>2. Leads(c \o <<>>, A, B)
    BY <1>1, LeadsOn
  <1>3. c \in Seq(ToSet(c)) /\ <<>> \in Seq(ToSet(<<>>))
    BY LeadsNext
  <1> QED BY <1>2, <1>3, CodeIs

-----------------------------------------------------------------------------
(* The rules for instructions.                                               *)

LEMMA OneIs ==
    ASSUME NEW i
    PROVE  <<i>> # <<>> /\ Head(<<i>>) = i /\ Tail(<<i>>) = <<>> /\ <<i>> \in Seq(ToSet(<<i>>))
  BY DEF ToSet

LEMMA LeadsOne ==
    ASSUME NEW i, NEW A, NEW B, i.op \notin {"if", "ifPeek"}, Does1(A, i, B)
    PROVE  Leads(<<i>>, A, B)
  <1>1. PICK J : Closed(J) /\ <<<<>>, B, B>> \in J
    BY LeadsNothing, LeqIs DEF Leads
  <1>2. Follows(J, <<i>>, A, B)
    BY <1>1, OneIs DEF Follows
  <1> QED BY <1>1, <1>2, OneIs, LeadsBy, LeqIs

LEMMA LeadsBranch ==
    ASSUME NEW i, i.op \in {"if", "ifPeek"}, NEW A, NEW B,
           Leads(i.then, Restrict1(A, i, A.tokens \cap i.tokens), B),
           Leads(i.else, Restrict1(A, i, A.tokens \ i.tokens), B)
    PROVE  Leads(<<i>>, A, B)
  <1> DEFINE X == Restrict1(A, i, A.tokens \cap i.tokens)
             Y == Restrict1(A, i, A.tokens \ i.tokens)
             a == i.then
             b == i.else
  <1>1. PICK J : Closed(J) /\ <<a, X, B>> \in J
    BY DEF Leads
  <1>2. PICK K : Closed(K) /\ <<b, Y, B>> \in K
    BY DEF Leads
  <1>3. Closed(J \cup K)
    BY <1>1, <1>2, ClosedUnion
  <1>4. a \in Seq(ToSet(a)) /\ b \in Seq(ToSet(b))
    BY LeadsNext
  <1>5. <<>> \in Seq(ToSet(<<>>))
    OBVIOUS
  <1>6. a \o <<>> = a /\ b \o <<>> = b
    <2> HIDE DEF a, b
    <2>1. a \o <<>> = a
      BY <1>4, <1>5, CodeIs
    <2>2. b \o <<>> = b
      BY <1>4, <1>5, CodeIs
    <2> QED BY <2>1, <2>2
  <1> HIDE DEF X, Y, a, b
  <1>7. Follows(J \cup K, <<i>>, A, B)
    BY <1>1, <1>2, <1>4, <1>6, OneIs DEF Follows, X, Y, a, b
  <1> QED BY <1>3, <1>7, OneIs, LeadsBy, LeqIs

LEMMA LeadsIf ==
    ASSUME NEW S, NEW a, NEW b, NEW A, NEW B,
           Leads(a, Know(A.adds, A.nodes, A.tokens \cap S), B),
           Leads(b, Know(A.adds, A.nodes, A.tokens \ S), B)
    PROVE  Leads(<<If(S, a, b)>>, A, B)
  <1> DEFINE i == If(S, a, b)
  <1>1. i.op = "if" /\ i.tokens = S /\ i.then = a /\ i.else = b
    BY DEF If
  <1> HIDE DEF i
  <1>2. Leads(i.then, Restrict1(A, i, A.tokens \cap i.tokens), B) /\ Leads(i.else, Restrict1(A, i, A.tokens \ i.tokens), B)
    BY <1>1 DEF Restrict1
  <1>3. Leads(<<i>>, A, B)
    BY <1>1, <1>2, LeadsBranch
  <1> QED BY <1>3 DEF i

LEMMA LeadsIfPeek ==
    ASSUME NEW S, NEW a, NEW b, NEW A, NEW B, Leads(a, A, B), Leads(b, A, B)
    PROVE  Leads(<<IfPeek(S, a, b)>>, A, B)
  <1> DEFINE i == IfPeek(S, a, b)
  <1>1. i.op = "ifPeek" /\ i.tokens = S /\ i.then = a /\ i.else = b
    BY DEF IfPeek
  <1> HIDE DEF i
  <1>2. Leads(i.then, Restrict1(A, i, A.tokens \cap i.tokens), B) /\ Leads(i.else, Restrict1(A, i, A.tokens \ i.tokens), B)
    BY <1>1 DEF Restrict1
  <1>3. Leads(<<i>>, A, B)
    BY <1>1, <1>2, LeadsBranch
  <1> QED BY <1>3 DEF i

\* Fewer tokens say more.
LEMMA FewerTokens ==
    ASSUME NEW a, NEW k, NEW ts, NEW us, ts \subseteq us
    PROVE  Leq(Know(a, k, ts), Know(a, k, us))
  BY DEF Leq, Know

LEMMA KnowIs ==
    ASSUME NEW a, NEW k, NEW ts
    PROVE  Know(a, k, ts).adds = a /\ Know(a, k, ts).nodes = k /\ Know(a, k, ts).tokens = ts
  BY DEF Know

\* A choice whatever the token is.
LEMMA LeadsEither ==
    ASSUME NEW S, NEW a, NEW b, NEW d, NEW k, NEW ts, NEW B,
           Leads(a, Know(d, k, ts), B), Leads(b, Know(d, k, ts), B)
    PROVE  Leads(<<If(S, a, b)>>, Know(d, k, ts), B)
  <1> DEFINE A == Know(d, k, ts)
  <1>1. A.adds = d /\ A.nodes = k /\ A.tokens = ts
    BY KnowIs
  <1>2. Leq(Know(d, k, ts \cap S), A) /\ Leq(Know(d, k, ts \ S), A)
    BY FewerTokens
  <1> HIDE DEF A
  <1>3. Leads(a, A, B) /\ Leads(b, A, B)
    BY DEF A
  <1>4. Leads(a, Know(d, k, ts \cap S), B) /\ Leads(b, Know(d, k, ts \ S), B)
    BY <1>2, <1>3, LeadsFrom
  <1>5. Leads(<<If(S, a, b)>>, A, B)
    BY <1>1, <1>4, LeadsIf
  <1> QED BY <1>5 DEF A

LEMMA LeadsOpt ==
    ASSUME NEW S, NEW a, NEW d, NEW k, NEW ts, NEW B,
           Leads(a, Know(d, k, ts), B), Leq(Know(d, k, ts), B)
    PROVE  Leads(<<Opt(S, a)>>, Know(d, k, ts), B)
  BY LeadsNothing, LeadsEither DEF Opt

LEMMA Apart ==
    ASSUME NEW S, NEW c \in Seq(S), c # <<>>
    PROVE  <<Head(c)>> \o Tail(c) = c
  OBVIOUS

LEMMA Two == ASSUME NEW i, NEW j PROVE <<i>> \o <<j>> = <<i, j>>
  <1>1. /\ <<i, j>> \in Seq({i, j}) /\ <<i, j>> # <<>>
        /\ Head(<<i, j>>) = i /\ Tail(<<i, j>>) = <<j>>
    OBVIOUS
  <1> QED BY <1>1, Apart

LEMMA Three == ASSUME NEW i, NEW j, NEW k PROVE <<i>> \o <<j, k>> = <<i, j, k>>
  <1>1. /\ <<i, j, k>> \in Seq({i, j, k}) /\ <<i, j, k>> # <<>>
        /\ Head(<<i, j, k>>) = i /\ Tail(<<i, j, k>>) = <<j, k>>
    OBVIOUS
  <1> QED BY <1>1, Apart

LEMMA Four == ASSUME NEW i, NEW j, NEW k, NEW l PROVE <<i>> \o <<j, k, l>> = <<i, j, k, l>>
  <1>1. /\ <<i, j, k, l>> \in Seq({i, j, k, l}) /\ <<i, j, k, l>> # <<>>
        /\ Head(<<i, j, k, l>>) = i /\ Tail(<<i, j, k, l>>) = <<j, k, l>>
    OBVIOUS
  <1> QED BY <1>1, Apart

LEMMA LeadsTwo ==
    ASSUME NEW i, NEW j, NEW A, NEW B, NEW C, Leads(<<i>>, A, B), Leads(<<j>>, B, C)
    PROVE  Leads(<<i, j>>, A, C)
  <1>1. <<i>> \o <<j>> = <<i, j>>
    BY Two
  <1> QED BY <1>1, LeadsOn

LEMMA LeadsThree ==
    ASSUME NEW i, NEW j, NEW k, NEW A, NEW B, NEW C, NEW D,
           Leads(<<i>>, A, B), Leads(<<j>>, B, C), Leads(<<k>>, C, D)
    PROVE  Leads(<<i, j, k>>, A, D)
  <1>1. <<i>> \o <<j, k>> = <<i, j, k>>
    BY Three
  <1>2. Leads(<<j, k>>, B, D)
    BY LeadsTwo
  <1>3. Leads(<<i>> \o <<j, k>>, A, D)
    BY <1>2, LeadsOn
  <1> QED BY <1>1, <1>3

LEMMA LeadsFour ==
    ASSUME NEW i, NEW j, NEW k, NEW l, NEW A, NEW B, NEW C, NEW D, NEW E,
           Leads(<<i>>, A, B), Leads(<<j>>, B, C), Leads(<<k>>, C, D), Leads(<<l>>, D, E)
    PROVE  Leads(<<i, j, k, l>>, A, E)
  <1>1. <<i>> \o <<j, k, l>> = <<i, j, k, l>>
    BY Four
  <1>2. Leads(<<j, k, l>>, B, E)
    <2>1. Leads(<<k, l>>, C, E)
      BY LeadsTwo
    <2>2. Leads(<<j>> \o <<k, l>>, B, E)
      BY <2>1, LeadsOn
    <2> QED BY <2>2, Three
  <1>3. Leads(<<i>> \o <<j, k, l>>, A, E)
    BY <1>2, LeadsOn
  <1> QED BY <1>1, <1>3

LEMMA LeadsFive ==
    ASSUME NEW i, NEW j, NEW k, NEW l, NEW m, NEW A, NEW B, NEW C, NEW D, NEW E, NEW F,
           Leads(<<i>>, A, B), Leads(<<j>>, B, C), Leads(<<k>>, C, D), Leads(<<l>>, D, E), Leads(<<m>>, E, F)
    PROVE  Leads(<<i, j, k, l, m>>, A, F)
  <1>1. Leads(<<j, k, l, m>>, B, F)
    BY LeadsFour
  <1>2. Leads(<<i>> \o <<j, k, l, m>>, A, F)
    BY <1>1, LeadsOn
  <1>3. <<i>> \o <<j, k, l, m>> = <<i, j, k, l, m>>
    <2>1. /\ <<i, j, k, l, m>> \in Seq({i, j, k, l, m}) /\ <<i, j, k, l, m>> # <<>>
          /\ Head(<<i, j, k, l, m>>) = i /\ Tail(<<i, j, k, l, m>>) = <<j, k, l, m>>
      OBVIOUS
    <2> QED BY <2>1, Apart
  <1> QED BY <1>2, <1>3

\* What each instruction does to what the call knows.
LEMMA AdvanceLeads ==
    ASSUME NEW a, NEW k, NEW ts
    PROVE  Leads(<<advanceTokens>>, Know(a, k, ts), Know(a, k, AnyToken))
  <1>1. Does1(Know(a, k, ts), advanceTokens, Know(a, k, AnyToken))
    BY KnowIs, LeqIs DEF Does1, advanceTokens
  <1> QED BY <1>1, LeadsOne DEF advanceTokens

LEMMA NeedLeads ==
    ASSUME NEW S, NEW a, NEW k, NEW ts
    PROVE  Leads(<<Need(S)>>, Know(a, k, ts), Know(a, k, ts \cap S))
  <1> DEFINE A == Know(a, k, ts)
             i == Need(S)
  <1>1. A.adds = a /\ A.nodes = k /\ A.tokens = ts
    BY KnowIs
  <1>2. i.op = "need" /\ i.tokens = S
    BY DEF Need
  <1>3. Leq(Know(A.adds, A.nodes, A.tokens \cap i.tokens), Know(a, k, ts \cap S))
    BY <1>1, <1>2, LeqIs
  <1> HIDE DEF A, i
  <1>4. Does1(A, i, Know(a, k, ts \cap S))
    BY <1>2, <1>3 DEF Does1
  <1>5. Leads(<<i>>, A, Know(a, k, ts \cap S))
    BY <1>2, <1>4, LeadsOne
  <1> QED BY <1>5 DEF A, i

LEMMA NeedChildLeads ==
    ASSUME NEW k, NEW ts
    PROVE  Leads(<<NeedChild>>, Know({}, k, ts), Know({}, {s \in k : s.shape # Plain(<<>>)}, ts))
  <1> DEFINE A == Know({}, k, ts)
             B == Know({}, {s \in k : s.shape # Plain(<<>>)}, ts)
  <1>1. A.adds = {} /\ A.nodes = k /\ A.tokens = ts
    BY KnowIs
  <1>2. Leq(Know({}, {s \in A.nodes : s.shape # Plain(<<>>)}, A.tokens), B)
    BY <1>1, LeqIs
  <1> HIDE DEF A, B
  <1>3. NeedChild.op = "needChild"
    BY DEF NeedChild
  <1>4. Does1(A, NeedChild, B)
    BY <1>1, <1>2, <1>3 DEF Does1
  <1>5. Leads(<<NeedChild>>, A, B)
    BY <1>3, <1>4, LeadsOne
  <1> QED BY <1>5 DEF A, B

LEMMA MakeLeads ==
    ASSUME NEW a, NEW t \in a, NEW ts
    PROVE  /\ Leads(<<Make(t)>>, Know(a, {}, ts), Know({}, {Empty(t)}, ts))
           /\ Leads(<<MakeLocal(t)>>, Know(a, {}, ts), Know({}, {Empty(t)}, ts))
  <1>1. /\ Does1(Know(a, {}, ts), Make(t), Know({}, {Empty(t)}, ts))
        /\ Does1(Know(a, {}, ts), MakeLocal(t), Know({}, {Empty(t)}, ts))
    BY KnowIs, LeqIs DEF Does1, Make, MakeLocal
  <1>2. Make(t).op = "make" /\ MakeLocal(t).op = "makeLocal"
    BY DEF Make, MakeLocal
  <1> QED BY <1>1, <1>2, LeadsOne

LEMMA LeafLeads ==
    ASSUME NEW t, Empty(t) \in Final, NEW k, NEW l, CanAdd(k, t, l), NEW ts
    PROVE  Leads(<<Leaf(t)>>, Know({}, k, ts), Know({}, l, ts))
  <1>1. Does1(Know({}, k, ts), Leaf(t), Know({}, l, ts))
    BY KnowIs DEF Does1, Leaf
  <1> QED BY <1>1, LeadsOne DEF Leaf

LEMMA FlagLeads ==
    ASSUME NEW i, i.op = "flag", NEW k, NEW l, NEW ts,
           \A s \in k : \E u \in l : Flagged(s, i.flag, i.depth, u)
    PROVE  Leads(<<i>>, Know({}, k, ts), Know({}, l, ts))
  <1> DEFINE A == Know({}, k, ts)
             B == Know({}, l, ts)
  <1>1. A.adds = {} /\ A.nodes = k /\ A.tokens = ts /\ B.adds = {} /\ B.nodes = l /\ B.tokens = ts
    BY KnowIs
  <1> HIDE DEF A, B
  <1>2. Does1(A, i, B)
    BY <1>1 DEF Does1
  <1>3. Leads(<<i>>, A, B)
    BY <1>2, LeadsOne
  <1> QED BY <1>3 DEF A, B

LEMMA AttachLeads ==
    ASSUME NEW k, NEW ts
    PROVE  Leads(<<Attach>>, Know({}, k, ts), Know({}, k, ts))
  <1>1. Leq(Know({}, k, ts), Know({}, k, ts)) /\ Know({}, k, ts).adds = {}
    BY KnowIs, LeqIs
  <1>2. Attach.op = "attach"
    BY DEF Attach
  <1>3. Does1(Know({}, k, ts), Attach, Know({}, k, ts))
    BY <1>1, <1>2 DEF Does1
  <1> QED BY <1>2, <1>3, LeadsOne

LEMMA CallLeads ==
    ASSUME NEW p \in Makers, NEW k, NEW l, NEW ts, ts \subseteq Before(p),
           \A c \in Makes[p] : CanAdd(k, c, l)
    PROVE  Leads(<<Call(p)>>, Know({}, k, ts), Know({}, l, After(p)))
  <1>1. Does1(Know({}, k, ts), Call(p), Know({}, l, After(p)))
    BY KnowIs DEF Does1, Call
  <1> QED BY <1>1, LeadsOne DEF Call

LEMMA GoLeads ==
    ASSUME NEW p, NEW A, NEW B, Goes(p, A, B)
    PROVE  Leads(<<Go(p)>>, A, B)
  <1>1. Does1(A, Go(p), B)
    BY DEF Does1, Go
  <1> QED BY <1>1, LeadsOne DEF Go

LEMMA FailLeads ==
    ASSUME NEW a, NEW k, NEW ts, NEW B
    PROVE  Leads(<<Fail>>, Know(a, k, ts), B)
  <1>1. Leads(<<Fail>>, Know(a, k, ts), Know(a, k, ts \cap {}))
    BY NeedLeads DEF Fail
  <1>2. Leq(Know(a, k, ts \cap {}), B)
    BY DEF Leq, Know
  <1> QED BY <1>1, <1>2, LeadsTo

LEMMA KeywordLeads ==
    ASSUME NEW w, NEW a, NEW k, NEW ts
    PROVE  Leads(Keyword(w), Know(a, k, ts), Know(a, k, AnyToken))
  <1>1. Leads(<<Need({w})>>, Know(a, k, ts), Know(a, k, ts \cap {w}))
    BY NeedLeads
  <1>2. Leads(<<advanceTokens>>, Know(a, k, ts \cap {w}), Know(a, k, AnyToken))
    BY AdvanceLeads
  <1> QED BY <1>1, <1>2, LeadsTwo DEF Keyword

LEMMA TakeWordLeads ==
    ASSUME NEW t, Empty(t) \in Final, NEW k, NEW l, CanAdd(k, t, l), NEW ts
    PROVE  Leads(TakeWord(t), Know({}, k, ts), Know({}, l, AnyToken))
  <1>1. Leads(<<Need(TOKEN_WORD)>>, Know({}, k, ts), Know({}, k, ts \cap TOKEN_WORD))
    BY NeedLeads
  <1>2. Leads(<<Leaf(t)>>, Know({}, k, ts \cap TOKEN_WORD), Know({}, l, ts \cap TOKEN_WORD))
    BY LeafLeads
  <1>3. Leads(<<advanceTokens>>, Know({}, l, ts \cap TOKEN_WORD), Know({}, l, AnyToken))
    BY AdvanceLeads
  <1> QED BY <1>1, <1>2, <1>3, LeadsThree DEF TakeWord

LEMMA LineBreakLeads ==
    ASSUME NEW a, NEW k, NEW ts, ts \subseteq AnyToken
    PROVE  /\ Leads(<<Go("LineBreak")>>, Know(a, k, ts), Know(a, k, AnyToken))
           /\ Leads(<<Go("Newline")>>, Know(a, k, ts), Know(a, k, AnyToken))
  <1>1. \A p \in {"LineBreak", "Newline"} : Goes(p, Know(a, k, ts), Know(a, k, AnyToken))
    BY KnowIs DEF Goes
  <1> QED BY <1>1, GoLeads

\* What a call knows that is in any of the states of k.
LEMMA FewerStates ==
    ASSUME NEW a, NEW k, NEW l, NEW ts, NEW us, k \subseteq l, ts \subseteq us
    PROVE  Leq(Know(a, k, ts), Know(a, l, us))
  BY DEF Leq, Know

LEMMA LeadsWider ==
    ASSUME NEW c, NEW A, NEW a, NEW k, NEW l, NEW ts, NEW us, k \subseteq l, ts \subseteq us,
           Leads(c, A, Know(a, k, ts))
    PROVE  Leads(c, A, Know(a, l, us))
  BY FewerStates, LeadsTo
-----------------------------------------------------------------------------
(* The states of nodes.                                                      *)

LEMMA StIs ==
    ASSUME NEW t, NEW s
    PROVE  St(t, s).type = t /\ St(t, s).shape = s /\ St(t, s).open = FALSE
  BY DEF St

LEMMA ShapeIs ==
    ASSUME NEW f, NEW m, NEW l
    PROVE  /\ Plain(f).first = f /\ Plain(f).many = {} /\ Plain(f).last = <<>>
           /\ Many(f, m, l).first = f /\ Many(f, m, l).many = m /\ Many(f, m, l).last = l
           /\ Plain(f) = Many(f, {}, <<>>)
  BY DEF Plain, Many

LEMMA CanAddOne ==
    ASSUME NEW s, NEW c, NEW u, Adds(s, c, u)
    PROVE  CanAdd({s}, c, {u})
  BY DEF CanAdd

\* One more of the many.
LEMMA AddsAgain ==
    ASSUME NEW t, t # "AND_OR", NEW f \in Seq(SUBSET NodeType), NEW m, NEW c \in NodeType, c \in m
    PROVE  CanAdd({St(t, Many(f, m, <<>>))}, c, {St(t, Many(f, m, <<>>))})
  <1> DEFINE h == Many(f, m, <<>>)
  <1>1. h.first = f /\ h.many = m /\ h.last = <<>>
    BY ShapeIs
  <1> HIDE DEF h
  <1> DEFINE s == St(t, h)
  <1>2. s.type = t /\ s.shape = h /\ s.open = FALSE
    BY DEF St
  <1> HIDE DEF s
  <1>3. AddsLater(h, c, h)
    BY <1>1 DEF AddsLater
  <1>4. Adds(s, c, s)
    BY <1>1, <1>2, <1>3 DEF Adds
  <1>5. CanAdd({s}, c, {s})
    BY <1>4, CanAddOne
  <1> QED BY <1>5 DEF s, h

\* The last one.
LEMMA AddsLast ==
    ASSUME NEW t, t # "AND_OR", NEW f \in Seq(SUBSET NodeType), NEW m, NEW S \in SUBSET NodeType, NEW c \in S
    PROVE  CanAdd({St(t, Many(f, m, <<>>))}, c, {St(t, Many(f, m, <<S>>))})
  <1> DEFINE h == Many(f, m, <<>>)
             g == Many(f, m, <<S>>)
             s == St(t, h)
             u == St(t, g)
  <1>1. s.type = t /\ s.shape = h /\ s.open = FALSE /\ u.type = t /\ u.shape = g /\ u.open = FALSE
    <2> HIDE DEF h, g
    <2> QED BY DEF St
  <1>2. h.first = f /\ h.many = m /\ h.last = <<>> /\ g.first = f /\ g.many = m /\ g.last = <<S>>
    BY DEF Many
  <1> HIDE DEF s, h, u, g
  <1>3. AddsLater(h, c, g)
    BY <1>2 DEF AddsLater
  <1>4. Adds(s, c, u)
    BY <1>1, <1>2, <1>3 DEF Adds
  <1>5. CanAdd({s}, c, {u})
    BY <1>4, CanAddOne
  <1> QED BY <1>5 DEF s, h, u, g

\* One more of the first.
LEMMA AddsNext ==
    ASSUME NEW t, t # "AND_OR", NEW f \in Seq(SUBSET NodeType), NEW m, NEW S \in SUBSET NodeType, NEW c \in S
    PROVE  /\ CanAdd({St(t, Plain(f))}, c, {St(t, Many(Append(f, S), m, <<>>))})
           /\ CanAdd({St(t, Plain(f))}, c, {St(t, Plain(Append(f, S)))})
  <1>1. ASSUME NEW n
        PROVE  Adds(St(t, Plain(f)), c, St(t, Many(Append(f, S), n, <<>>)))
    <2> DEFINE h == Plain(f)
               g == Many(Append(f, S), n, <<>>)
               s == St(t, h)
               u == St(t, g)
    <2>1. s.type = t /\ s.shape = h /\ s.open = FALSE /\ u.type = t /\ u.shape = g /\ u.open = FALSE
      <3> HIDE DEF h, g
      <3> QED BY DEF St
    <2>2. /\ h.first = f /\ h.many = {} /\ h.last = <<>>
          /\ g.first = Append(f, S) /\ g.many = n /\ g.last = <<>>
      BY DEF Plain, Many
    <2> HIDE DEF s, h, u, g
    <2>3. AddsFirst(h, c, g)
      BY <2>2 DEF AddsFirst
    <2>4. Adds(s, c, u)
      BY <2>1, <2>2, <2>3 DEF Adds
    <2> QED BY <2>4 DEF s, h, u, g
  <1> QED BY <1>1, ShapeIs, CanAddOne

LEMMA CanAddUnion ==
    ASSUME NEW c, NEW k, NEW l, NEW m, NEW n, CanAdd(k, c, m), CanAdd(l, c, n)
    PROVE  CanAdd(k \cup l, c, m \cup n)
  BY DEF CanAdd

LEMMA TypesAre ==
    /\ Compound \subseteq NodeType /\ Command \subseteq NodeType
    /\ PrefixPart \subseteq NodeType /\ SuffixPart \subseteq NodeType
  BY DEF Compound, Command, PrefixPart, SuffixPart, NodeType

LEMMA FinalIs ==
    ASSUME NEW t \in NodeType, NEW s \in Shapes[t], t # "AND_OR"
    PROVE  St(t, s) \in Final
  <1>1. [type |-> t, shape |-> s, open |-> t = "AND_OR"]
            \in {[type |-> t, shape |-> z, open |-> t = "AND_OR"] : z \in Shapes[t]}
    OBVIOUS
  <1>2. \A x : x \in {[type |-> t, shape |-> z, open |-> t = "AND_OR"] : z \in Shapes[t]} => x \in Final
    BY DEF Final
  <1>3. [type |-> t, shape |-> s, open |-> t = "AND_OR"] = St(t, s)
    BY DEF St
  <1> QED BY <1>1, <1>2, <1>3

LEMMA OpenIsFinal == OpenPipelines \in Final
  <1>1. Pipelines.shape \in Shapes["AND_OR"] /\ "AND_OR" \in NodeType
    BY DEF Pipelines, Shapes, St, NodeType
  <1> DEFINE t == "AND_OR"
             K == {[type |-> t, shape |-> z, open |-> t = "AND_OR"] : z \in Shapes[t]}
  <1>2. OpenPipelines \in K
    BY <1>1 DEF OpenPipelines
  <1>3. K \in {{[type |-> y, shape |-> z, open |-> y = "AND_OR"] : z \in Shapes[y]} : y \in NodeType}
    BY <1>1
  <1> HIDE DEF K
  <1> QED BY <1>2, <1>3 DEF Final

LEMMA LeavesFinal == \A t \in {"CMD_WORD", "WORD", "ASSIGNMENT_WORD", "IO_NUM"} : Empty(t) \in Final
  <1>1. \A t \in {"CMD_WORD", "WORD", "ASSIGNMENT_WORD", "IO_NUM"} : Plain(<<>>) \in Shapes[t] /\ t \in NodeType /\ t # "AND_OR"
    BY DEF Shapes, NodeType
  <1> QED BY <1>1, FinalIs DEF Empty

-----------------------------------------------------------------------------
(* The functions of the compound commands.                                   *)

One(t) == St(t, Plain(<<{"LIST"}>>))
Both(t) == St(t, Plain(<<{"LIST"}, {"LIST"}>>))
WithElse == St("IF_CLAUSE", Plain(<<{"LIST"}, {"LIST"}, {"IF_CLAUSE", "ELSE_CLAUSE"}>>))

LEMMA AppendTuple ==
    /\ \A x : Append(<<>>, x) = <<x>>
    /\ \A x, y : Append(<<x>>, y) = <<x, y>>
    /\ \A x, y, z : Append(<<x, y>>, z) = <<x, y, z>>
  <1>1. ASSUME NEW x, NEW y PROVE Append(<<x>>, y) = <<x, y>>
    <2>1. <<x>> \in Seq({x, y}) /\ <<x, y>> \in Seq({x, y}) /\ Len(<<x>>) = 1 /\ Len(<<x, y>>) = 2
      OBVIOUS
    <2>2. /\ Append(<<x>>, y) \in Seq({x, y}) /\ Len(Append(<<x>>, y)) = 2
          /\ Append(<<x>>, y)[1] = x /\ Append(<<x>>, y)[2] = y
      BY <2>1, AppendProperties
    <2>3. <<x, y>>[1] = x /\ <<x, y>>[2] = y
      OBVIOUS
    <2> DEFINE s == Append(<<x>>, y)
               t == <<x, y>>
    <2> HIDE DEF s, t
    <2>4. s \in Seq({x, y}) /\ t \in Seq({x, y}) /\ Len(s) = Len(t) /\ \A i \in 1..Len(s) : s[i] = t[i]
      BY <2>1, <2>2, <2>3 DEF s, t
    <2>5. s = t
      BY <2>4, SeqEqual
    <2> QED BY <2>5 DEF s, t
  <1>2. ASSUME NEW x, NEW y, NEW z PROVE Append(<<x, y>>, z) = <<x, y, z>>
    <2>1. <<x, y>> \in Seq({x, y, z}) /\ <<x, y, z>> \in Seq({x, y, z}) /\ Len(<<x, y>>) = 2 /\ Len(<<x, y, z>>) = 3
      OBVIOUS
    <2>2. /\ Append(<<x, y>>, z) \in Seq({x, y, z}) /\ Len(Append(<<x, y>>, z)) = 3
          /\ Append(<<x, y>>, z)[1] = x /\ Append(<<x, y>>, z)[2] = y /\ Append(<<x, y>>, z)[3] = z
      BY <2>1, AppendProperties
    <2>3. <<x, y, z>>[1] = x /\ <<x, y, z>>[2] = y /\ <<x, y, z>>[3] = z
      OBVIOUS
    <2> DEFINE s == Append(<<x, y>>, z)
               t == <<x, y, z>>
    <2>4. s \in Seq({x, y, z}) /\ t \in Seq({x, y, z}) /\ Len(s) = 3 /\ Len(t) = 3
      BY <2>1, <2>2
    <2>5. s[1] = t[1] /\ s[2] = t[2] /\ s[3] = t[3]
      BY <2>2, <2>3
    <2> HIDE DEF s, t
    <2>6. \A i \in 1..Len(s) : s[i] = t[i]
      BY <2>4, <2>5
    <2>7. s = t
      BY <2>4, <2>6, SeqEqual
    <2> QED BY <2>7 DEF s, t
  <1>3. \A x : Append(<<>>, x) = <<x>>
    OBVIOUS
  <1> QED BY <1>1, <1>2, <1>3

LEMMA AddFirst ==
    ASSUME NEW t, t # "AND_OR", NEW m, NEW S \in SUBSET NodeType, NEW c \in S
    PROVE  /\ CanAdd({Empty(t)}, c, {St(t, Many(<<S>>, m, <<>>))})
           /\ CanAdd({Empty(t)}, c, {St(t, Plain(<<S>>))})
  <1>1. <<>> \in Seq(SUBSET NodeType) /\ Append(<<>>, S) = <<S>>
    BY AppendTuple
  <1>2. /\ CanAdd({St(t, Plain(<<>>))}, c, {St(t, Many(Append(<<>>, S), m, <<>>))})
        /\ CanAdd({St(t, Plain(<<>>))}, c, {St(t, Plain(Append(<<>>, S)))})
    BY <1>1, AddsNext
  <1> QED BY <1>1, <1>2 DEF Empty

LEMMA AddSecond ==
    ASSUME NEW t, t # "AND_OR", NEW R \in SUBSET NodeType, NEW m, NEW S \in SUBSET NodeType, NEW c \in S
    PROVE  /\ CanAdd({St(t, Plain(<<R>>))}, c, {St(t, Many(<<R, S>>, m, <<>>))})
           /\ CanAdd({St(t, Plain(<<R>>))}, c, {St(t, Plain(<<R, S>>))})
  <1>1. <<R>> \in Seq(SUBSET NodeType) /\ Append(<<R>>, S) = <<R, S>>
    BY AppendTuple
  <1> QED BY <1>1, AddsNext

LEMMA ListsAdd ==
    ASSUME NEW t, t # "AND_OR"
    PROVE  /\ CanAdd({Empty(t)}, "LIST", {One(t)})
           /\ CanAdd({One(t)}, "LIST", {Both(t)})
  <1>1. {"LIST"} \in SUBSET NodeType
    BY DEF NodeType
  <1>2. CanAdd({Empty(t)}, "LIST", {St(t, Plain(<<{"LIST"}>>))})
    BY <1>1, AddFirst
  <1>3. CanAdd({St(t, Plain(<<{"LIST"}>>))}, "LIST", {St(t, Plain(<<{"LIST"}, {"LIST"}>>))})
    BY <1>1, AddSecond
  <1> QED BY <1>2, <1>3 DEF One, Both

LEMMA ElseAdds == \A c \in Makes["ElsePart"] : CanAdd({Both("IF_CLAUSE")}, c, {WithElse})
  <1> DEFINE S == {"IF_CLAUSE", "ELSE_CLAUSE"}
             f == <<{"LIST"}, {"LIST"}>>
  <1>1. S \in SUBSET NodeType /\ f \in Seq(SUBSET NodeType) /\ Makes["ElsePart"] = S
    BY DEF NodeType, Makes
  <1>2. Append(f, S) = <<{"LIST"}, {"LIST"}, S>>
    BY AppendTuple
  <1> HIDE DEF S, f
  <1>3. \A c \in S : CanAdd({St("IF_CLAUSE", Plain(f))}, c, {St("IF_CLAUSE", Plain(Append(f, S)))})
    BY <1>1, AddsNext
  <1> QED BY <1>1, <1>2, <1>3 DEF f, S, Both, WithElse

LEMMA ListsFinal ==
    /\ \A t \in {"SUBSHELL", "BRACE_GROUP", "ELSE_CLAUSE", "COMPLETE_COMMAND"} : One(t) \in Final
    /\ \A t \in {"IF_CLAUSE", "WHILE_CLAUSE", "UNTIL_CLAUSE"} : Both(t) \in Final
    /\ WithElse \in Final
  <1>1. \A t \in {"SUBSHELL", "BRACE_GROUP", "ELSE_CLAUSE", "COMPLETE_COMMAND"} :
            Plain(<<{"LIST"}>>) \in Shapes[t] /\ t \in NodeType /\ t # "AND_OR"
    BY DEF Shapes, NodeType
  <1>2. \A t \in {"IF_CLAUSE", "WHILE_CLAUSE", "UNTIL_CLAUSE"} :
            Plain(<<{"LIST"}, {"LIST"}>>) \in Shapes[t] /\ t \in NodeType /\ t # "AND_OR"
    BY DEF Shapes, NodeType
  <1>3. /\ Plain(<<{"LIST"}, {"LIST"}, {"IF_CLAUSE", "ELSE_CLAUSE"}>>) \in Shapes["IF_CLAUSE"]
        /\ "IF_CLAUSE" \in NodeType
    BY DEF Shapes, NodeType
  <1> QED BY <1>1, <1>2, <1>3, FinalIs DEF One, Both, WithElse

LEMMA IsDone ==
    ASSUME NEW c, NEW A, NEW k, k \subseteq Final, NEW ts, ts \subseteq AnyToken, Leads(c, A, Know({}, k, ts))
    PROVE  Leads(c, A, Done(AnyToken))
  BY LeadsWider DEF Done

LEMMA CompoundListLeads ==
    ASSUME NEW k, NEW l, CanAdd(k, "LIST", l)
    PROVE  Leads(<<Go("CompoundList")>>, Own(k), Own(l)) /\ Leads(<<Go("DoGroup")>>, Own(k), Own(l))
  <1>1. \A p \in {"CompoundList", "DoGroup"} : Goes(p, Own(k), Own(l))
    BY DEF Goes
  <1> QED BY <1>1, GoLeads

LEMMA OwnLeads ==
    ASSUME NEW w, NEW k
    PROVE  /\ Leads(Keyword(w), Own(k), Own(k))
           /\ Leads(<<advanceTokens>>, Own(k), Own(k))
           /\ Leads(<<Go("LineBreak")>>, Own(k), Own(k))
           /\ Leads(<<Go("Newline")>>, Own(k), Own(k))
           /\ Leads(<<Attach>>, Own(k), Own(k))
           /\ Leq(Own(k), Own(k))
  BY KeywordLeads, AdvanceLeads, LineBreakLeads, AttachLeads, LeqIs DEF Own

LEMMA OwnMakes ==
    ASSUME NEW a, NEW t \in a
    PROVE  /\ Leads(<<Make(t)>>, Know(a, {}, AnyToken), Own({Empty(t)}))
           /\ Leads(<<MakeLocal(t)>>, Know(a, {}, AnyToken), Own({Empty(t)}))
  BY MakeLeads DEF Own

\* "if", "while", "(" and what follows them.
LEMMA HeadLeads ==
    ASSUME NEW a, NEW t \in a, t # "AND_OR", NEW w
    PROVE  Leads(<<Make(t)>> \o Keyword(w) \o <<Go("CompoundList")>>, Know(a, {}, AnyToken), Own({One(t)}))
  <1>1. Leads(<<Make(t)>>, Know(a, {}, AnyToken), Own({Empty(t)}))
    BY OwnMakes
  <1>2. Leads(<<Make(t)>> \o Keyword(w), Know(a, {}, AnyToken), Own({Empty(t)}))
    BY <1>1, OwnLeads, LeadsOn
  <1>3. Leads(<<Go("CompoundList")>>, Own({Empty(t)}), Own({One(t)}))
    BY ListsAdd, CompoundListLeads
  <1> QED BY <1>2, <1>3, LeadsOn

LEMMA GroupLeads ==
    ASSUME NEW a, NEW t \in a, t \in {"SUBSHELL", "BRACE_GROUP"}, NEW v, NEW w
    PROVE  Leads(<<Make(t)>> \o Keyword(v) \o <<Go("CompoundList")>> \o Keyword(w),
                 Know(a, {}, AnyToken), Done(AnyToken))
  <1>1. Leads(<<Make(t)>> \o Keyword(v) \o <<Go("CompoundList")>>, Know(a, {}, AnyToken), Own({One(t)}))
    BY HeadLeads
  <1>2. Leads(<<Make(t)>> \o Keyword(v) \o <<Go("CompoundList")>> \o Keyword(w),
              Know(a, {}, AnyToken), Own({One(t)}))
    BY <1>1, OwnLeads, LeadsOn
  <1> QED BY <1>2, ListsFinal, IsDone DEF Own

LEMMA LoopLeads ==
    ASSUME NEW a, NEW t \in a, t \in {"WHILE_CLAUSE", "UNTIL_CLAUSE"}, NEW w
    PROVE  Leads(<<Make(t)>> \o Keyword(w) \o <<Go("CompoundList"), Go("DoGroup")>>,
                 Know(a, {}, AnyToken), Done(AnyToken))
  <1>1. Leads(<<Make(t)>>, Know(a, {}, AnyToken), Own({Empty(t)}))
    BY OwnMakes
  <1>2. Leads(<<Make(t)>> \o Keyword(w), Know(a, {}, AnyToken), Own({Empty(t)}))
    BY <1>1, OwnLeads, LeadsOn
  <1>3. Leads(<<Go("CompoundList")>>, Own({Empty(t)}), Own({One(t)}))
    BY ListsAdd, CompoundListLeads
  <1>4. Leads(<<Go("DoGroup")>>, Own({One(t)}), Own({Both(t)}))
    BY ListsAdd, CompoundListLeads
  <1>5. Leads(<<Go("CompoundList"), Go("DoGroup")>>, Own({Empty(t)}), Own({Both(t)}))
    BY <1>3, <1>4, LeadsTwo
  <1>6. Leads(<<Make(t)>> \o Keyword(w) \o <<Go("CompoundList"), Go("DoGroup")>>,
              Know(a, {}, AnyToken), Own({Both(t)}))
    BY <1>2, <1>5, LeadsOn
  <1> QED BY <1>6, ListsFinal, IsDone DEF Own

LEMMA CompoundsLead ==
    ASSUME NEW a
    PROVE  /\ "SUBSHELL" \in a => Leads(analyzeSubshell, Know(a, {}, AnyToken), Done(AnyToken))
           /\ "BRACE_GROUP" \in a => Leads(analyzeBraceGroup, Know(a, {}, AnyToken), Done(AnyToken))
           /\ "WHILE_CLAUSE" \in a => Leads(analyzeWhileClause, Know(a, {}, AnyToken), Done(AnyToken))
           /\ "UNTIL_CLAUSE" \in a => Leads(analyzeUntilClause, Know(a, {}, AnyToken), Done(AnyToken))
  BY GroupLeads, LoopLeads DEF analyzeSubshell, analyzeBraceGroup, analyzeWhileClause, analyzeUntilClause

\* "then", the list and what may follow.
LEMMA ThenLeads ==
    LET then == <<Go("CompoundList"), Opt({"else", "elif"}, <<Call("ElsePart")>>)>>
    IN  Leads(Keyword("then") \o then, Own({One("IF_CLAUSE")}), Own({Both("IF_CLAUSE"), WithElse}))
  <1> DEFINE K == {Both("IF_CLAUSE"), WithElse}
             s == Both("IF_CLAUSE")
             i == Opt({"else", "elif"}, <<Call("ElsePart")>>)
  <1>1. Leads(<<Go("CompoundList")>>, Own({One("IF_CLAUSE")}), Own({s}))
    BY ListsAdd, CompoundListLeads
  <1>2. Leads(<<Call("ElsePart")>>, Own({s}), Own({WithElse}))
    <2>1. "ElsePart" \in Makers /\ Before("ElsePart") = AnyToken /\ After("ElsePart") = AnyToken
      BY DEF Makers, Makes, Before, After
    <2> QED BY <2>1, ElseAdds, CallLeads DEF Own
  <1>3. Leads(<<Call("ElsePart")>>, Own({s}), Own(K)) /\ Leq(Own({s}), Own(K))
    BY <1>2, LeadsWider, FewerStates DEF Own
  <1>4. Leads(<<i>>, Own({s}), Own(K))
    BY <1>3, LeadsOpt DEF Own
  <1> HIDE DEF i, K, s
  <1>5. Leads(<<Go("CompoundList"), i>>, Own({One("IF_CLAUSE")}), Own(K))
    BY <1>1, <1>4, LeadsTwo
  <1>6. Leads(Keyword("then") \o <<Go("CompoundList"), i>>, Own({One("IF_CLAUSE")}), Own(K))
    BY <1>5, OwnLeads, LeadsOn
  <1> QED BY <1>6 DEF i, K

LEMMA IfClauseLeads ==
    ASSUME NEW a, "IF_CLAUSE" \in a
    PROVE  Leads(analyzeIfClause, Know(a, {}, AnyToken), Done(AnyToken))
  <1> DEFINE K == {Both("IF_CLAUSE"), WithElse}
             c == <<Make("IF_CLAUSE")>> \o Keyword("if") \o <<Go("CompoundList")>>
             then == <<Go("CompoundList"), Opt({"else", "elif"}, <<Call("ElsePart")>>)>>
  <1>1. Leads(c, Know(a, {}, AnyToken), Own({One("IF_CLAUSE")}))
    BY HeadLeads
  <1>2. Leads(Keyword("then") \o then, Own({One("IF_CLAUSE")}), Own(K))
    BY ThenLeads
  <1>3. Keyword("then") \in Seq(ToSet(Keyword("then"))) /\ then \in Seq(ToSet(then)) /\ c \in Seq(ToSet(c))
    <2>1. Keyword("then") \in Seq(ToSet(Keyword("then")))
      BY KeywordLeads, LeadsNext
    <2>2. then \in Seq(ToSet(then))
      BY DEF ToSet
    <2> QED BY <1>1, <2>1, <2>2, LeadsNext
  <1>4. (c \o Keyword("then")) \o then = c \o (Keyword("then") \o then)
    <2> HIDE DEF c, then
    <2> QED BY <1>3, CodeGroups
  <1> HIDE DEF c, then, K
  <1>5. Leads((c \o Keyword("then")) \o then, Know(a, {}, AnyToken), Own(K))
    BY <1>1, <1>2, <1>4, LeadsOn
  <1>6. Leads(((c \o Keyword("then")) \o then) \o Keyword("fi"), Know(a, {}, AnyToken), Own(K))
    BY <1>5, OwnLeads, LeadsOn
  <1>7. K \subseteq Final
    BY ListsFinal DEF K
  <1>8. Leads(((c \o Keyword("then")) \o then) \o Keyword("fi"), Know(a, {}, AnyToken), Done(AnyToken))
    BY <1>6, <1>7, IsDone DEF Own
  <1> QED BY <1>8 DEF c, then, analyzeIfClause

LEMMA ElsePartLeads ==
    ASSUME NEW a, "IF_CLAUSE" \in a, "ELSE_CLAUSE" \in a
    PROVE  Leads(analyzeElsePart, Know(a, {}, AnyToken), Done(AnyToken))
  <1> DEFINE A == Know(a, {}, AnyToken)
             c == <<advanceTokens, Make("ELSE_CLAUSE"), Go("CompoundList")>>
             d == <<advanceTokens, Make("IF_CLAUSE"), Go("CompoundList")>>
             then == <<Go("CompoundList"), Opt({"else", "elif"}, <<Call("ElsePart")>>)>>
             K == {Both("IF_CLAUSE"), WithElse}
  <1>1. ASSUME NEW t \in {"IF_CLAUSE", "ELSE_CLAUSE"}
        PROVE  Leads(<<advanceTokens, Make(t), Go("CompoundList")>>, A, Own({One(t)}))
    <2>1. Leads(<<advanceTokens>>, A, A)
      BY AdvanceLeads
    <2>2. Leads(<<Make(t)>>, A, Own({Empty(t)}))
      BY OwnMakes
    <2>3. Leads(<<Go("CompoundList")>>, Own({Empty(t)}), Own({One(t)}))
      BY ListsAdd, CompoundListLeads
    <2> QED BY <2>1, <2>2, <2>3, LeadsThree
  <1>2. Leads(c, A, Done(AnyToken))
    <2>1. Leads(c, A, Own({One("ELSE_CLAUSE")}))
      BY <1>1
    <2> QED BY <2>1, ListsFinal, IsDone DEF Own
  <1>3. Leads(d, A, Own({One("IF_CLAUSE")}))
    BY <1>1
  <1>4. Leads(Keyword("then") \o then, Own({One("IF_CLAUSE")}), Own(K))
    BY ThenLeads
  <1>5. (d \o Keyword("then")) \o then = d \o (Keyword("then") \o then)
    <2>1. Keyword("then") \in Seq(ToSet(Keyword("then")))
      BY KeywordLeads, LeadsNext
    <2>2. then \in Seq(ToSet(then))
      BY DEF ToSet
    <2>3. d \in Seq(ToSet(d))
      BY DEF ToSet
    <2> HIDE DEF d, then
    <2> QED BY <2>1, <2>2, <2>3, CodeGroups
  <1> DEFINE e == d \o Keyword("then") \o then
  <1>6. Leads(e, A, Done(AnyToken))
    <2> HIDE DEF d, then, K
    <2>1. Leads(e, A, Own(K))
      BY <1>3, <1>4, <1>5, LeadsOn
    <2>2. K \subseteq Final
      BY ListsFinal DEF K
    <2> QED BY <2>1, <2>2, IsDone DEF Own
  <1> HIDE DEF c, e
  <1>7. Leads(<<If({"else"}, c, e)>>, A, Done(AnyToken))
    BY <1>2, <1>6, LeadsEither
  <1> QED BY <1>7 DEF c, e, analyzeElsePart

LEMMA DoGroupLeads ==
    ASSUME NEW k, NEW l, CanAdd(k, "LIST", l)
    PROVE  Leads(analyzeDoGroup, Own(k), Own(l))
  <1>1. Leads(Keyword("do"), Own(k), Own(k)) /\ Leads(Keyword("done"), Own(l), Own(l))
    BY OwnLeads
  <1>2. Leads(<<Go("CompoundList")>>, Own(k), Own(l))
    BY CompoundListLeads
  <1>3. Leads(Keyword("do") \o <<Go("CompoundList")>>, Own(k), Own(l))
    BY <1>1, <1>2, LeadsOn
  <1> QED BY <1>1, <1>3, LeadsOn DEF analyzeDoGroup

\* After a term there is no separator.
LEMMA CompoundListBody ==
    ASSUME NEW k, NEW l, CanAdd(k, "LIST", l)
    PROVE  Leads(analyzeCompoundList, Own(k), Own(l))
  <1> DEFINE a == <<advanceTokens>>
             b == <<Mark("BACKGROUND"), advanceTokens>>
             N == Know({}, l, NotSeparator)
  <1>1. Leads(<<Call("Term")>>, Own(k), N)
    <2>1. /\ "Term" \in Makers /\ Before("Term") = AnyToken /\ After("Term") = NotSeparator
          /\ Makes["Term"] = {"LIST"}
      BY DEF Makers, Makes, Before, After
    <2> QED BY <2>1, CallLeads DEF Own
  <1>2. NotSeparator \ {"SEMI"} = NotSeparator /\ NotSeparator \cap {"SEMI"} = {} /\ NotSeparator \cap {"BG"} = {}
        /\ NotSeparator \ {"BG"} = NotSeparator /\ NotSeparator \subseteq AnyToken
    BY DEF NotSeparator
  <1>3. /\ N.adds = {} /\ N.nodes = l /\ N.tokens = NotSeparator
        /\ Know({}, l, {}).tokens = {} /\ Leq(N, N)
    BY KnowIs, LeqIs
  <1>4. a \in Seq(ToSet(a)) /\ b \in Seq(ToSet(b))
    BY DEF ToSet
  <1> HIDE DEF a, b, N
  <1>5. Leads(<<Opt({"BG"}, b)>>, N, N)
    <2>1. Leads(b, Know({}, l, {}), N)
      BY <1>3, <1>4, LeadsNowhere
    <2>2. Leads(<<>>, N, N)
      BY <1>3, LeadsNothing
    <2>3. Leads(b, Know(N.adds, N.nodes, N.tokens \cap {"BG"}), N)
      BY <1>2, <1>3, <2>1
    <2>4. Leads(<<>>, Know(N.adds, N.nodes, N.tokens \ {"BG"}), N)
      BY <1>2, <1>3, <2>2 DEF N
    <2> QED BY <2>3, <2>4, LeadsIf DEF Opt
  <1>6. Leads(<<If({"SEMI"}, a, <<Opt({"BG"}, b)>>)>>, N, N)
    <2>1. Leads(a, Know({}, l, {}), N)
      BY <1>3, <1>4, LeadsNowhere
    <2>2. Leads(a, Know(N.adds, N.nodes, N.tokens \cap {"SEMI"}), N)
      BY <1>2, <1>3, <2>1
    <2>3. Leads(<<Opt({"BG"}, b)>>, Know(N.adds, N.nodes, N.tokens \ {"SEMI"}), N)
      BY <1>2, <1>3, <1>5 DEF N
    <2> QED BY <2>2, <2>3, LeadsIf
  <1>7. Leads(<<Go("LineBreak")>>, Own(k), Own(k)) /\ Leads(<<Go("LineBreak")>>, N, Own(l))
    BY <1>2, LineBreakLeads DEF Own, N
  <1>8. Leads(<<Go("LineBreak"), Call("Term"), If({"SEMI"}, a, <<Opt({"BG"}, b)>>), Go("LineBreak")>>, Own(k), Own(l))
    BY <1>1, <1>6, <1>7, LeadsFour
  <1> QED BY <1>8 DEF a, b, analyzeCompoundList
-----------------------------------------------------------------------------
(* Lists, and-or lists and pipelines.                                        *)

LEMMA BuildersMake ==
    ASSUME NEW t, NEW c, t # "AND_OR", NEW S \in SUBSET NodeType, c \in S
    PROVE  /\ CanAdd({Empty(t)}, c, {St(t, Many(<<S>>, S, <<>>))})
           /\ CanAdd({St(t, Many(<<S>>, S, <<>>))}, c, {St(t, Many(<<S>>, S, <<>>))})
  <1>1. <<S>> \in Seq(SUBSET NodeType) /\ c \in NodeType
    OBVIOUS
  <1> QED BY <1>1, AddFirst, AddsAgain

LEMMA AndOrAdds == CanAdd({Empty("LIST")}, "AND_OR", {AndOrs}) /\ CanAdd({AndOrs}, "AND_OR", {AndOrs})
  <1>1. {"AND_OR"} \in SUBSET NodeType
    BY DEF NodeType
  <1> QED BY <1>1, BuildersMake DEF AndOrs

LEMMA PipelineAdds ==
    CanAdd({Empty("AND_OR")}, "PIPELINE", {OpenPipelines}) /\ CanAdd({Pipelines}, "PIPELINE", {OpenPipelines})
  <1> DEFINE S == {"PIPELINE"}
             h == Many(<<S>>, S, <<>>)
             e == Empty("AND_OR")
  <1>1. S \in SUBSET NodeType /\ "PIPELINE" \in NodeType
    BY DEF NodeType
  <1>2. h.first = <<S>> /\ h.many = S /\ h.last = <<>>
    BY DEF Many
  <1> HIDE DEF h
  <1>3. /\ OpenPipelines.type = "AND_OR" /\ OpenPipelines.shape = h /\ OpenPipelines.open = TRUE
        /\ Pipelines.type = "AND_OR" /\ Pipelines.shape = h /\ Pipelines.open = FALSE
    BY DEF OpenPipelines, Pipelines, St, h
  <1>4. AddsLater(h, "PIPELINE", h)
    BY <1>2 DEF AddsLater
  <1>5. e.type = "AND_OR" /\ e.shape = Plain(<<>>) /\ e.open = FALSE
    BY DEF Empty, St
  <1>6. Plain(<<>>).first = <<>> /\ Plain(<<>>).many = {} /\ Plain(<<>>).last = <<>>
    BY ShapeIs
  <1>7. AddsFirst(Plain(<<>>), "PIPELINE", h)
    <2>1. h.first = Append(<<>>, S)
      BY <1>2, AppendTuple
    <2> QED BY <1>1, <1>2, <1>6, <2>1 DEF AddsFirst
  <1>8. <<S>> \in Seq(SUBSET NodeType) /\ <<>> \in Seq(SUBSET NodeType)
    BY <1>1
  <1> HIDE DEF S, e
  <1>9. Adds(Pipelines, "PIPELINE", OpenPipelines)
    BY <1>1, <1>2, <1>3, <1>4, <1>8 DEF Adds
  <1>10. Adds(e, "PIPELINE", OpenPipelines)
    BY <1>1, <1>2, <1>3, <1>5, <1>6, <1>7, <1>8 DEF Adds
  <1> QED BY <1>9, <1>10, CanAddOne DEF e

LEMMA CommandAdds ==
    \A c \in Command : CanAdd({Empty("PIPELINE")}, c, {Piped}) /\ CanAdd({Piped}, c, {Piped})
  <1>1. Command \in SUBSET NodeType
    BY TypesAre
  <1> QED BY <1>1, BuildersMake DEF Piped

LEMMA BuiltFinal == AndOrs \in Final /\ OpenPipelines \in Final /\ Piped \in Final
  <1>1. /\ Many(<<{"AND_OR"}>>, {"AND_OR"}, <<>>) \in Shapes["LIST"] /\ "LIST" \in NodeType
        /\ Many(<<Command>>, Command, <<>>) \in Shapes["PIPELINE"] /\ "PIPELINE" \in NodeType
    BY DEF Shapes, NodeType
  <1> QED BY <1>1, FinalIs, OpenIsFinal DEF AndOrs, Piped

\* Calls of the functions that may be called at any token.
LEMMA OwnCalls ==
    ASSUME NEW p \in Makers, p \notin {"CmdPrefix", "CmdSuffix", "CaseItem", "Term"}, NEW k, NEW l,
           \A c \in Makes[p] : CanAdd(k, c, l)
    PROVE  Leads(<<Call(p)>>, Own(k), Own(l))
  <1>1. Before(p) = AnyToken /\ After(p) = AnyToken
    BY DEF Before, After
  <1> QED BY <1>1, CallLeads DEF Own

LEMMA MakersAre ==
    /\ \A p \in {"CompleteCommand", "List", "Term", "AndOr", "Pipeline", "Command", "Redirect", "CompoundCommand",
                 "CmdPrefix", "CmdSuffix", "CaseItem", "ElsePart"} : p \in Makers
    /\ Makes["CompleteCommand"] = {"COMPLETE_COMMAND"} /\ Makes["List"] = {"LIST"} /\ Makes["Term"] = {"LIST"}
    /\ Makes["AndOr"] = {"AND_OR"} /\ Makes["Pipeline"] = {"PIPELINE"} /\ Makes["Command"] = Command
    /\ Makes["Redirect"] = {"REDIRECT"} /\ Makes["CompoundCommand"] = Compound
    /\ Makes["CmdPrefix"] = {"CMD_PREFIX"} /\ Makes["CmdSuffix"] = {"CMD_SUFFIX"} /\ Makes["CaseItem"] = {"CASE_ITEM"}
  BY DEF Makers, Makes

LEMMA MarksLead ==
    /\ Leads(<<Mark("BACKGROUND")>>, Own({AndOrs}), Own({AndOrs}))
    /\ Leads(<<Mark("AND")>>, Own({OpenPipelines}), Own({Pipelines}))
    /\ Leads(<<Mark("OR")>>, Own({OpenPipelines}), Own({Pipelines}))
    /\ Leads(<<MarkLast("BACKGROUND")>>, Own({One("COMPLETE_COMMAND")}), Own({One("COMPLETE_COMMAND")}))
    /\ Leads(<<Flag("BANG")>>, Own({Empty("PIPELINE")}), Own({Empty("PIPELINE")}))
  <1>1. /\ \A f : Mark(f).op = "flag" /\ Mark(f).flag = f /\ Mark(f).depth = 1
        /\ \A f : MarkLast(f).op = "flag" /\ MarkLast(f).flag = f /\ MarkLast(f).depth = 2
        /\ \A f : Flag(f).op = "flag" /\ Flag(f).flag = f /\ Flag(f).depth = 0
    BY DEF Mark, MarkLast, Flag
  <1>2. ASSUME NEW i, i.op = "flag", NEW s, NEW u, Flagged(s, i.flag, i.depth, u)
        PROVE  Leads(<<i>>, Own({s}), Own({u}))
    BY <1>2, FlagLeads DEF Own
  <1>3. /\ Flagged(AndOrs, "BACKGROUND", 1, AndOrs)
        /\ Flagged(OpenPipelines, "AND", 1, Pipelines) /\ Flagged(OpenPipelines, "OR", 1, Pipelines)
    BY DEF Flagged
  <1>4. Flagged(One("COMPLETE_COMMAND"), "BACKGROUND", 2, One("COMPLETE_COMMAND"))
    BY DEF Flagged, One
  <1>5. Flagged(Empty("PIPELINE"), "BANG", 0, Empty("PIPELINE"))
    <2>1. Empty("PIPELINE").type = "PIPELINE"
      BY DEF Empty, St
    <2>2. "BANG" \in FlagsAllowed["PIPELINE"]
      BY DEF FlagsAllowed, NodeType
    <2> QED BY <2>1, <2>2 DEF Flagged
  <1>6. Leads(<<Mark("BACKGROUND")>>, Own({AndOrs}), Own({AndOrs}))
    BY <1>1, <1>2, <1>3
  <1>7. Leads(<<Mark("AND")>>, Own({OpenPipelines}), Own({Pipelines}))
    BY <1>1, <1>2, <1>3
  <1>8. Leads(<<Mark("OR")>>, Own({OpenPipelines}), Own({Pipelines}))
    BY <1>1, <1>2, <1>3
  <1>9. Leads(<<MarkLast("BACKGROUND")>>, Own({One("COMPLETE_COMMAND")}), Own({One("COMPLETE_COMMAND")}))
    BY <1>1, <1>2, <1>4
  <1>10. Leads(<<Flag("BANG")>>, Own({Empty("PIPELINE")}), Own({Empty("PIPELINE")}))
    BY <1>1, <1>2, <1>5
  <1> QED BY <1>6, <1>7, <1>8, <1>9, <1>10

\* A function that attaches its node has nothing more to do.
LEMMA AttachIsDone ==
    ASSUME NEW s \in Final
    PROVE  Leads(<<Attach>>, Own({s}), Done(AnyToken))
  BY OwnLeads, IsDone DEF Own

LEMMA OwnEither ==
    ASSUME NEW S, NEW a, NEW b, NEW k, NEW B, Leads(a, Own(k), B), Leads(b, Own(k), B)
    PROVE  Leads(<<If(S, a, b)>>, Own(k), B)
  BY LeadsEither DEF Own

LEMMA OwnOpt ==
    ASSUME NEW S, NEW a, NEW k, Leads(a, Own(k), Own(k))
    PROVE  Leads(<<Opt(S, a)>>, Own(k), Own(k))
  BY OwnEither, LeadsNothing, LeqIs DEF Opt

LEMMA ListRestLeads == Leads(ListRest, Own({AndOrs}), Done(AnyToken))
  <1> DEFINE i == Opt({"BG"}, <<Mark("BACKGROUND")>>)
             a == <<i, advanceTokens, Call("AndOr"), Go("ListRest")>>
  <1>1. Leads(<<i>>, Own({AndOrs}), Own({AndOrs}))
    BY MarksLead, OwnOpt
  <1>2. Leads(<<Call("AndOr")>>, Own({AndOrs}), Own({AndOrs}))
    BY MakersAre, OwnCalls, AndOrAdds
  <1>3. Leads(<<Go("ListRest")>>, Own({AndOrs}), Done(AnyToken))
    BY GoLeads DEF Goes
  <1> HIDE DEF i
  <1>4. Leads(a, Own({AndOrs}), Done(AnyToken))
    BY <1>1, <1>2, <1>3, OwnLeads, LeadsFour
  <1>5. Leads(<<Attach>>, Own({AndOrs}), Done(AnyToken))
    BY BuiltFinal, AttachIsDone
  <1> HIDE DEF a
  <1>6. Leads(<<IfPeek({"NEWLINE", "EOF"}, <<Attach>>, a)>>, Own({AndOrs}), Done(AnyToken))
    BY <1>4, <1>5, LeadsIfPeek
  <1>7. Leads(<<If({"SEMI", "BG"}, <<IfPeek({"NEWLINE", "EOF"}, <<Attach>>, a)>>, <<Attach>>)>>,
              Own({AndOrs}), Done(AnyToken))
    BY <1>5, <1>6, OwnEither
  <1> QED BY <1>7 DEF a, i, ListRest

LEMMA TermRestLeads == Leads(TermRest, Own({AndOrs}), Done(NotSeparator))
  <1> DEFINE A == Own({AndOrs})
             b == <<advanceTokens, Go("LineBreak")>>
             a == <<advanceTokens, Go("LineBreak"), Mark("BACKGROUND")>>
             c == <<Call("AndOr"), Go("TermRest")>>
             D == Done(NotSeparator)
             i == If({"BG"}, a, b)
             j == If(isCompoundListEnd, <<Attach>>, c)
  <1>1. ASSUME NEW ts, ts \subseteq NotSeparator
        PROVE  Leads(<<Attach>>, Know({}, {AndOrs}, ts), D)
    BY <1>1, AttachLeads, LeadsWider, BuiltFinal DEF Done
  <1>2. Leads(a, A, A)
    BY MarksLead, OwnLeads, LeadsThree
  <1>3. Leads(b, A, A)
    BY OwnLeads, LeadsTwo
  <1>4. Leads(c, A, D)
    <2>1. Leads(<<Call("AndOr")>>, Own({AndOrs}), Own({AndOrs}))
      BY MakersAre, OwnCalls, AndOrAdds
    <2>2. Leads(<<Go("TermRest")>>, Own({AndOrs}), D)
      BY GoLeads DEF Goes
    <2> QED BY <2>1, <2>2, LeadsTwo
  <1>5. A.adds = {} /\ A.nodes = {AndOrs} /\ A.tokens = AnyToken
    BY KnowIs DEF Own
  <1> HIDE DEF D, A, a, b, c
  <1>6. Leads(<<i>>, A, A)
    BY <1>2, <1>3, OwnEither DEF A
  <1>7. Leads(<<j>>, A, D)
    <2>1. AnyToken \cap isCompoundListEnd \subseteq NotSeparator
      BY DEF NotSeparator, isCompoundListEnd
    <2>2. Leads(<<Attach>>, Know(A.adds, A.nodes, A.tokens \cap isCompoundListEnd), D)
      BY <1>1, <1>5, <2>1
    <2>3. Leq(Know({}, {AndOrs}, AnyToken \ isCompoundListEnd), A)
      BY FewerTokens DEF A, Own
    <2>4. Leads(c, Know(A.adds, A.nodes, A.tokens \ isCompoundListEnd), D)
      BY <1>4, <1>5, <2>3, LeadsFrom
    <2> QED BY <2>2, <2>4, LeadsIf
  <1> HIDE DEF i, j
  <1>8. Leads(<<i, j>>, A, D)
    BY <1>6, <1>7, LeadsTwo
  <1>9. Leads(<<If({"SEMI", "BG"}, <<i, j>>, <<Attach>>)>>, A, D)
    <2>1. Leq(Know({}, {AndOrs}, AnyToken \cap {"SEMI", "BG"}), A)
      BY FewerTokens DEF A, Own
    <2>2. Leads(<<i, j>>, Know(A.adds, A.nodes, A.tokens \cap {"SEMI", "BG"}), D)
      BY <1>5, <1>8, <2>1, LeadsFrom
    <2>3. Leads(<<Attach>>, Know(A.adds, A.nodes, A.tokens \ {"SEMI", "BG"}), D)
      BY <1>1, <1>5 DEF NotSeparator
    <2> QED BY <2>2, <2>3, LeadsIf
  <1> QED BY <1>9 DEF A, D, a, b, c, i, j, TermRest

LEMMA AndOrRestLeads == Leads(AndOrRest, Own({OpenPipelines}), Done(AnyToken))
  <1> DEFINE i == If({"AND_IF"}, <<Mark("AND")>>, <<Mark("OR")>>)
             a == <<i, advanceTokens, Go("LineBreak"), Call("Pipeline"), Go("AndOrRest")>>
  <1>1. Leads(<<i>>, Own({OpenPipelines}), Own({Pipelines}))
    BY MarksLead, OwnEither
  <1>2. Leads(<<Call("Pipeline")>>, Own({Pipelines}), Own({OpenPipelines}))
    BY MakersAre, OwnCalls, PipelineAdds
  <1>3. Leads(<<Go("AndOrRest")>>, Own({OpenPipelines}), Done(AnyToken))
    BY GoLeads DEF Goes
  <1> HIDE DEF i
  <1>4. Leads(a, Own({OpenPipelines}), Done(AnyToken))
    BY <1>1, <1>2, <1>3, OwnLeads, LeadsFive
  <1>5. Leads(<<Attach>>, Own({OpenPipelines}), Done(AnyToken))
    BY BuiltFinal, AttachIsDone
  <1> HIDE DEF a
  <1>6. Leads(<<If({"AND_IF", "OR_IF"}, a, <<Attach>>)>>, Own({OpenPipelines}), Done(AnyToken))
    BY <1>4, <1>5, OwnEither
  <1> QED BY <1>6 DEF a, i, AndOrRest

LEMMA PipelineRestLeads == Leads(PipelineRest, Own({Piped}), Done(AnyToken))
  <1> DEFINE a == <<advanceTokens, Go("LineBreak"), Call("Command"), Go("PipelineRest")>>
  <1>1. Leads(<<Call("Command")>>, Own({Piped}), Own({Piped}))
    BY MakersAre, OwnCalls, CommandAdds
  <1>2. Leads(<<Go("PipelineRest")>>, Own({Piped}), Done(AnyToken))
    BY GoLeads DEF Goes
  <1>3. Leads(a, Own({Piped}), Done(AnyToken))
    BY <1>1, <1>2, OwnLeads, LeadsFour
  <1>4. Leads(<<Attach>>, Own({Piped}), Done(AnyToken))
    BY BuiltFinal, AttachIsDone
  <1> HIDE DEF a
  <1>5. Leads(<<If({"PIPE"}, a, <<Attach>>)>>, Own({Piped}), Done(AnyToken))
    BY <1>3, <1>4, OwnEither
  <1> QED BY <1>5 DEF a, PipelineRest

LEMMA BuildersLead ==
    ASSUME NEW a
    PROVE  /\ "LIST" \in a => /\ Leads(analyzeList, Know(a, {}, AnyToken), Done(AnyToken))
                              /\ Leads(analyzeTerm, Know(a, {}, AnyToken), Done(NotSeparator))
           /\ "AND_OR" \in a => Leads(analyzeAndOr, Know(a, {}, AnyToken), Done(AnyToken))
           /\ "PIPELINE" \in a => Leads(analyzePipeline, Know(a, {}, AnyToken), Done(AnyToken))
  <1>1. ASSUME "LIST" \in a
        PROVE  /\ Leads(analyzeList, Know(a, {}, AnyToken), Done(AnyToken))
               /\ Leads(analyzeTerm, Know(a, {}, AnyToken), Done(NotSeparator))
    <2>1. Leads(<<MakeLocal("LIST")>>, Know(a, {}, AnyToken), Own({Empty("LIST")}))
      BY <1>1, OwnMakes
    <2>2. Leads(<<Call("AndOr")>>, Own({Empty("LIST")}), Own({AndOrs}))
      BY MakersAre, OwnCalls, AndOrAdds
    <2>3. Leads(<<Go("ListRest")>>, Own({AndOrs}), Done(AnyToken))
      BY GoLeads DEF Goes
    <2>4. Leads(<<Go("TermRest")>>, Own({AndOrs}), Done(NotSeparator))
      BY GoLeads DEF Goes
    <2>5. Leads(analyzeList, Know(a, {}, AnyToken), Done(AnyToken))
      BY <2>1, <2>2, <2>3, LeadsThree DEF analyzeList
    <2>6. Leads(analyzeTerm, Know(a, {}, AnyToken), Done(NotSeparator))
      BY <2>1, <2>2, <2>4, LeadsThree DEF analyzeTerm
    <2> QED BY <2>5, <2>6
  <1>2. ASSUME "AND_OR" \in a
        PROVE  Leads(analyzeAndOr, Know(a, {}, AnyToken), Done(AnyToken))
    <2>1. Leads(<<MakeLocal("AND_OR")>>, Know(a, {}, AnyToken), Own({Empty("AND_OR")}))
      BY <1>2, OwnMakes
    <2>2. Leads(<<Call("Pipeline")>>, Own({Empty("AND_OR")}), Own({OpenPipelines}))
      BY MakersAre, OwnCalls, PipelineAdds
    <2>3. Leads(<<Go("AndOrRest")>>, Own({OpenPipelines}), Done(AnyToken))
      BY GoLeads DEF Goes
    <2> QED BY <2>1, <2>2, <2>3, LeadsThree DEF analyzeAndOr
  <1>3. ASSUME "PIPELINE" \in a
        PROVE  Leads(analyzePipeline, Know(a, {}, AnyToken), Done(AnyToken))
    <2> DEFINE i == Opt({"BANG"}, <<Flag("BANG"), advanceTokens>>)
    <2>1. Leads(<<MakeLocal("PIPELINE")>>, Know(a, {}, AnyToken), Own({Empty("PIPELINE")}))
      BY <1>3, OwnMakes
    <2>2. Leads(<<Flag("BANG"), advanceTokens>>, Own({Empty("PIPELINE")}), Own({Empty("PIPELINE")}))
      BY MarksLead, OwnLeads, LeadsTwo
    <2>3. Leads(<<i>>, Own({Empty("PIPELINE")}), Own({Empty("PIPELINE")}))
      BY <2>2, OwnOpt
    <2>4. Leads(<<Call("Command")>>, Own({Empty("PIPELINE")}), Own({Piped}))
      BY MakersAre, OwnCalls, CommandAdds
    <2>5. Leads(<<Go("PipelineRest")>>, Own({Piped}), Done(AnyToken))
      BY GoLeads DEF Goes
    <2> HIDE DEF i
    <2>6. Leads(<<MakeLocal("PIPELINE"), i, Call("Command"), Go("PipelineRest")>>, Know(a, {}, AnyToken), Done(AnyToken))
      BY <2>1, <2>3, <2>4, <2>5, LeadsFour
    <2> QED BY <2>6 DEF i, analyzePipeline
  <1> QED BY <1>1, <1>2, <1>3

LEMMA CompleteCommandLeads ==
    ASSUME NEW a, "COMPLETE_COMMAND" \in a
    PROVE  Leads(analyzeCompleteCommand, Know(a, {}, AnyToken), Done(AnyToken))
  <1> DEFINE s == One("COMPLETE_COMMAND")
             b == <<MarkLast("BACKGROUND"), advanceTokens>>
             c == <<Opt({"SEMI"}, <<advanceTokens>>)>>
  <1>1. Leads(<<Make("COMPLETE_COMMAND")>>, Know(a, {}, AnyToken), Own({Empty("COMPLETE_COMMAND")}))
    BY OwnMakes
  <1>2. Leads(<<Call("List")>>, Own({Empty("COMPLETE_COMMAND")}), Own({s}))
    <2>1. CanAdd({Empty("COMPLETE_COMMAND")}, "LIST", {s})
      BY ListsAdd
    <2> QED BY <2>1, MakersAre, OwnCalls
  <1>3. Leads(b, Own({s}), Own({s}))
    BY MarksLead, OwnLeads, LeadsTwo
  <1>4. Leads(c, Own({s}), Own({s}))
    BY OwnLeads, OwnOpt
  <1>5. s \in Final
    BY ListsFinal
  <1> HIDE DEF s, b, c
  <1>6. Leads(<<If({"BG"}, b, c)>>, Own({s}), Own({s}))
    BY <1>3, <1>4, OwnEither
  <1>7. Leads(<<Make("COMPLETE_COMMAND"), Call("List"), If({"BG"}, b, c)>>, Know(a, {}, AnyToken), Own({s}))
    BY <1>1, <1>2, <1>6, LeadsThree
  <1>8. Leads(<<Make("COMPLETE_COMMAND"), Call("List"), If({"BG"}, b, c)>>, Know(a, {}, AnyToken), Done(AnyToken))
    BY <1>5, <1>7, IsDone DEF Own
  <1> QED BY <1>8 DEF b, c, analyzeCompleteCommand

-----------------------------------------------------------------------------
(* The other functions.                                                      *)

LEMMA BreaksLead ==
    ASSUME NEW A, A.tokens \subseteq AnyToken
    PROVE  /\ Leads(analyzeLineBreak, A, Know(A.adds, A.nodes, AnyToken))
           /\ Leads(analyzeNewline, A, Know(A.adds, A.nodes, AnyToken))
  <1> DEFINE K == Know(A.adds, A.nodes, A.tokens)
             B == Know(A.adds, A.nodes, AnyToken)
             c == <<advanceTokens, Go("LineBreak")>>
  <1>1. Leq(A, K) /\ Leq(K, B)
    BY KnowIs, FewerTokens DEF Leq
  <1>2. Leads(c, K, B)
    <2>1. Leads(<<advanceTokens>>, K, B)
      BY AdvanceLeads
    <2>2. Leads(<<Go("LineBreak")>>, B, B)
      BY LineBreakLeads
    <2> QED BY <2>1, <2>2, LeadsTwo
  <1>3. Leads(<<Opt({"NEWLINE"}, c)>>, K, B)
    <2> HIDE DEF c
    <2> QED BY <1>1, <1>2, LeadsOpt
  <1>4. Leads(<<Need({"NEWLINE"}), Go("LineBreak")>>, K, B)
    <2>1. Leads(<<Need({"NEWLINE"})>>, K, Know(A.adds, A.nodes, A.tokens \cap {"NEWLINE"}))
      BY NeedLeads
    <2>2. Leads(<<Go("LineBreak")>>, Know(A.adds, A.nodes, A.tokens \cap {"NEWLINE"}), B)
      BY LineBreakLeads
    <2> QED BY <2>1, <2>2, LeadsTwo
  <1>5. Leads(analyzeLineBreak, K, B) /\ Leads(analyzeNewline, K, B)
    BY <1>3, <1>4 DEF analyzeLineBreak, analyzeNewline
  <1> HIDE DEF K, B
  <1>6. Leads(analyzeLineBreak, A, B) /\ Leads(analyzeNewline, A, B)
    BY <1>1, <1>5, LeadsFrom
  <1> QED BY <1>6 DEF B

LEMMA CommandsAdd == CanAdd({Commands}, "COMPLETE_COMMAND", {Commands})
  <1>1. <<>> \in Seq(SUBSET NodeType) /\ "COMPLETE_COMMAND" \in NodeType
    BY DEF NodeType
  <1> QED BY <1>1, AddsAgain DEF Commands

LEMMA ProgramLeads ==
    /\ Leads(analyzeProgram, Own({Commands}), Own({Commands}))
    /\ Leads(MoreCommands, Own({Commands}), Own({Commands}))
  <1> DEFINE A == Own({Commands})
             c == <<Call("CompleteCommand"), Go("MoreCommands")>>
             i == If({"EOF"}, <<>>, c)
  <1>1. Leads(<<Call("CompleteCommand")>>, A, A)
    BY MakersAre, OwnCalls, CommandsAdd
  <1>2. Leads(<<Go("MoreCommands")>>, A, A)
    BY GoLeads DEF Goes
  <1>3. Leads(c, A, A)
    BY <1>1, <1>2, LeadsTwo
  <1>4. Leads(<<>>, A, A)
    BY LeadsNothing, LeqIs
  <1> HIDE DEF c
  <1>5. Leads(<<i>>, A, A)
    BY <1>3, <1>4, OwnEither
  <1>6. Leads(<<Go("LineBreak")>>, A, A) /\ Leads(<<Go("Newline")>>, A, A)
    BY OwnLeads
  <1> HIDE DEF i, A
  <1>7. Leads(<<Go("LineBreak"), i>>, A, A) /\ Leads(<<Go("Newline"), i>>, A, A)
    <2>1. Leads(<<Go("LineBreak"), i>>, A, A)
      BY <1>5, <1>6, LeadsTwo
    <2>2. Leads(<<Go("Newline"), i>>, A, A)
      BY <1>5, <1>6, LeadsTwo
    <2> QED BY <2>1, <2>2
  <1>8. Leads(<<Opt({"NEWLINE"}, <<Go("Newline"), i>>)>>, A, A)
    BY <1>7, OwnOpt DEF A
  <1> QED BY <1>7, <1>8 DEF A, i, c, analyzeProgram, MoreCommands

\* Functions that only choose another one to insert the node.
LEMMA MakersGo ==
    ASSUME NEW a, NEW p \in Makers, p \notin {"CmdPrefix", "CmdSuffix", "CaseItem", "Term"}, Makes[p] \subseteq a
    PROVE  Leads(<<Go(p)>>, Know(a, {}, AnyToken), Done(AnyToken))
  <1>1. Before(p) = AnyToken /\ After(p) = AnyToken
    BY DEF Before, After
  <1>2. Goes(p, Know(a, {}, AnyToken), Done(AnyToken))
    <2> DEFINE A == Know(a, {}, AnyToken)
    <2>1. A.adds = a /\ A = Know(A.adds, {}, Before(p))
      BY <1>1, KnowIs
    <2> HIDE DEF A
    <2>2. Goes(p, A, Done(AnyToken))
      BY <1>1, <2>1 DEF Goes
    <2> QED BY <2>2 DEF A
  <1> QED BY <1>2, GoLeads

LEMMA ChoosersMake ==
    /\ \A p \in {"BraceGroup", "Subshell", "IfClause", "WhileClause", "UntilClause", "ForClause", "CaseClause"} :
          p \in Makers /\ Makes[p] \subseteq Compound
    /\ \A p \in {"FunctionDef", "OtherCommand", "CompoundCommand", "SimpleCommand"} :
          p \in Makers /\ Makes[p] \subseteq Command
  BY DEF Makers, Makes, Compound, Command

LEMMA CompoundCommandLeads ==
    ASSUME NEW a, Compound \subseteq a
    PROVE  Leads(analyzeCompoundCommand, Know(a, {}, AnyToken), Done(AnyToken))
  <1> DEFINE A == Know(a, {}, AnyToken)
             B == Done(AnyToken)
  <1>1. \A p \in {"BraceGroup", "Subshell", "IfClause", "WhileClause", "UntilClause", "ForClause", "CaseClause"} :
            Leads(<<Go(p)>>, A, B)
    BY ChoosersMake, MakersGo
  <1>2. Leads(<<Fail>>, A, B)
    BY FailLeads
  <1>3. ASSUME NEW T, NEW p, NEW c, Leads(<<Go(p)>>, A, B), Leads(c, A, B)
        PROVE  Leads(<<If(T, <<Go(p)>>, c)>>, A, B)
    BY <1>3, LeadsEither
  <1> HIDE DEF A, B
  <1> DEFINE c1 == <<If({"case"}, <<Go("CaseClause")>>, <<Fail>>)>>
             c2 == <<If({"for"}, <<Go("ForClause")>>, c1)>>
             c3 == <<If({"until"}, <<Go("UntilClause")>>, c2)>>
             c4 == <<If({"while"}, <<Go("WhileClause")>>, c3)>>
             c5 == <<If({"if"}, <<Go("IfClause")>>, c4)>>
             c6 == <<If({"LPAREN"}, <<Go("Subshell")>>, c5)>>
             c7 == <<If({"LBRACE"}, <<Go("BraceGroup")>>, c6)>>
  <1>4. Leads(c1, A, B)
    BY <1>1, <1>2, <1>3
  <1> HIDE DEF c1
  <1>5. Leads(c2, A, B)
    BY <1>1, <1>4, <1>3
  <1> HIDE DEF c2
  <1>6. Leads(c3, A, B)
    BY <1>1, <1>5, <1>3
  <1> HIDE DEF c3
  <1>7. Leads(c4, A, B)
    BY <1>1, <1>6, <1>3
  <1> HIDE DEF c4
  <1>8. Leads(c5, A, B)
    BY <1>1, <1>7, <1>3
  <1> HIDE DEF c5
  <1>9. Leads(c6, A, B)
    BY <1>1, <1>8, <1>3
  <1> HIDE DEF c6
  <1>10. Leads(c7, A, B)
    BY <1>1, <1>9, <1>3
  <1> QED BY <1>10 DEF c7, c6, c5, c4, c3, c2, c1, A, B, analyzeCompoundCommand

LEMMA CommandLeads ==
    ASSUME NEW a, Command \subseteq a
    PROVE  /\ Leads(analyzeCommand, Know(a, {}, AnyToken), Done(AnyToken))
           /\ Leads(OtherCommand, Know(a, {}, AnyToken), Done(AnyToken))
  <1> DEFINE A == Know(a, {}, AnyToken)
             B == Done(AnyToken)
             e == If({"ERROR"}, <<Fail>>, <<>>)
             f == IfPeek({"LPAREN"}, <<Go("FunctionDef")>>, <<Go("OtherCommand")>>)
             g == If(TOKEN_WORD, <<f>>, <<Go("OtherCommand")>>)
  <1>1. \A p \in {"FunctionDef", "OtherCommand", "CompoundCommand", "SimpleCommand"} : Leads(<<Go(p)>>, A, B)
    BY ChoosersMake, MakersGo
  <1>2. Leads(<<Fail>>, A, A) /\ Leads(<<>>, A, A)
    BY FailLeads, LeadsNothing, LeqIs
  <1>3. Leads(<<e>>, A, A)
    BY <1>2, LeadsEither
  <1>4. Leads(<<f>>, A, B)
    BY <1>1, LeadsIfPeek
  <1> HIDE DEF B, e, f
  <1>5. Leads(<<g>>, A, B)
    BY <1>1, <1>4, LeadsEither
  <1> HIDE DEF g
  <1>6. Leads(<<e, g>>, A, B)
    BY <1>3, <1>5, LeadsTwo
  <1>7. Leads(<<If({"if", "while", "until", "for", "case", "LPAREN", "LBRACE"},
                   <<Go("CompoundCommand")>>, <<Go("SimpleCommand")>>)>>, A, B)
    BY <1>1, LeadsEither
  <1> QED BY <1>6, <1>7 DEF B, e, f, g, analyzeCommand, OtherCommand

\* The children of a simple command, as far as it is parsed.
Simples(ks) == St("SIMPLE_COMMAND", Plain(ks))
Prefixed == {Empty("SIMPLE_COMMAND"), Simples(<<{"CMD_PREFIX"}>>)}
Named == {Simples(<<{"CMD_WORD"}>>), Simples(<<{"CMD_PREFIX"}, {"CMD_WORD"}>>)}
Suffixed == {Simples(<<{"CMD_WORD"}, {"CMD_SUFFIX"}>>),
             Simples(<<{"CMD_PREFIX"}, {"CMD_WORD"}, {"CMD_SUFFIX"}>>)}

LEMMA SimplesAdd ==
    /\ CanAdd({Empty("SIMPLE_COMMAND")}, "CMD_PREFIX", {Simples(<<{"CMD_PREFIX"}>>)})
    /\ CanAdd(Prefixed, "CMD_WORD", Named)
    /\ CanAdd(Named, "CMD_SUFFIX", Suffixed)
  <1> DEFINE t == "SIMPLE_COMMAND"
             P == {"CMD_PREFIX"}
             W == {"CMD_WORD"}
             S == {"CMD_SUFFIX"}
  <1>1. P \in SUBSET NodeType /\ W \in SUBSET NodeType /\ S \in SUBSET NodeType /\ t # "AND_OR"
    BY DEF NodeType
  <1>2. "CMD_PREFIX" \in P /\ "CMD_WORD" \in W /\ "CMD_SUFFIX" \in S
    OBVIOUS
  <1>3. <<P, W>> \in Seq(SUBSET NodeType) /\ Append(<<P, W>>, S) = <<P, W, S>>
    BY <1>1, AppendTuple
  <1> HIDE DEF t, P, W, S
  <1>4. CanAdd({Empty(t)}, "CMD_PREFIX", {St(t, Plain(<<P>>))})
    BY <1>1, <1>2, AddFirst
  <1>5. CanAdd({Empty(t)}, "CMD_WORD", {St(t, Plain(<<W>>))})
    BY <1>1, <1>2, AddFirst
  <1>6. CanAdd({St(t, Plain(<<P>>))}, "CMD_WORD", {St(t, Plain(<<P, W>>))})
    BY <1>1, <1>2, AddSecond
  <1>7. CanAdd({St(t, Plain(<<W>>))}, "CMD_SUFFIX", {St(t, Plain(<<W, S>>))})
    BY <1>1, <1>2, AddSecond
  <1>8. CanAdd({St(t, Plain(<<P, W>>))}, "CMD_SUFFIX", {St(t, Plain(<<P, W, S>>))})
    BY <1>1, <1>2, <1>3, AddsNext
  <1>9. CanAdd({Empty(t)} \cup {St(t, Plain(<<P>>))}, "CMD_WORD", {St(t, Plain(<<W>>))} \cup {St(t, Plain(<<P, W>>))})
    BY <1>5, <1>6, CanAddUnion
  <1>10. CanAdd({St(t, Plain(<<W>>))} \cup {St(t, Plain(<<P, W>>))}, "CMD_SUFFIX",
                {St(t, Plain(<<W, S>>))} \cup {St(t, Plain(<<P, W, S>>))})
    BY <1>7, <1>8, CanAddUnion
  <1>11. /\ Prefixed = {Empty(t)} \cup {St(t, Plain(<<P>>))}
         /\ Named = {St(t, Plain(<<W>>))} \cup {St(t, Plain(<<P, W>>))}
         /\ Suffixed = {St(t, Plain(<<W, S>>))} \cup {St(t, Plain(<<P, W, S>>))}
    BY DEF Prefixed, Named, Suffixed, Simples, t, P, W, S
  <1>12. CanAdd(Prefixed, "CMD_WORD", Named)
    BY <1>9, <1>11
  <1>13. CanAdd(Named, "CMD_SUFFIX", Suffixed)
    BY <1>10, <1>11
  <1> QED BY <1>4, <1>12, <1>13 DEF Simples, t, P

LEMMA SimplesFinal == \A s \in Prefixed \cup Named \cup Suffixed : s.shape # Plain(<<>>) => s \in Final
  <1>1. /\ Plain(<<{"CMD_PREFIX"}>>) \in Shapes["SIMPLE_COMMAND"]
        /\ Plain(<<{"CMD_WORD"}>>) \in Shapes["SIMPLE_COMMAND"]
        /\ Plain(<<{"CMD_PREFIX"}, {"CMD_WORD"}>>) \in Shapes["SIMPLE_COMMAND"]
        /\ Plain(<<{"CMD_WORD"}, {"CMD_SUFFIX"}>>) \in Shapes["SIMPLE_COMMAND"]
        /\ Plain(<<{"CMD_PREFIX"}, {"CMD_WORD"}, {"CMD_SUFFIX"}>>) \in Shapes["SIMPLE_COMMAND"]
        /\ "SIMPLE_COMMAND" \in NodeType
    BY DEF Shapes, NodeType
  <1>2. Empty("SIMPLE_COMMAND").shape = Plain(<<>>)
    BY DEF Empty, St
  <1>3. \A h \in Shapes["SIMPLE_COMMAND"] : St("SIMPLE_COMMAND", h) \in Final
    BY <1>1, FinalIs
  <1> QED BY <1>1, <1>2, <1>3 DEF Prefixed, Named, Suffixed, Simples

LEMMA SimpleCommandLeads ==
    ASSUME NEW a, "SIMPLE_COMMAND" \in a
    PROVE  Leads(analyzeSimpleCommand, Know(a, {}, AnyToken), Done(AnyToken))
  <1> DEFINE E == {Empty("SIMPLE_COMMAND")}
             All == Prefixed \cup Named \cup Suffixed
             i == Opt(PrefixStart, <<Call("CmdPrefix")>>)
             c == <<Call("CmdSuffix")>>
             d == <<Leaf("CMD_WORD"), advanceTokens, Opt(SuffixStart, c)>>
             j == Opt(TOKEN_WORD, d)
  <1>1. Leads(<<Make("SIMPLE_COMMAND")>>, Know(a, {}, AnyToken), Own(E))
    BY OwnMakes
  <1>2. Leads(<<i>>, Own(E), Own(Prefixed))
    <2> DEFINE A == Own(E)
    <2>1. A.adds = {} /\ A.nodes = E /\ A.tokens = AnyToken
      BY KnowIs DEF Own
    <2>2. Leads(<<Call("CmdPrefix")>>, Know({}, E, AnyToken \cap PrefixStart), Own(Prefixed))
      <3>1. /\ Before("CmdPrefix") = PrefixStart /\ After("CmdPrefix") = AnyToken
            /\ "CmdPrefix" \in Makers /\ Makes["CmdPrefix"] = {"CMD_PREFIX"}
        BY MakersAre DEF Before, After
      <3>2. AnyToken \cap PrefixStart \subseteq PrefixStart
        OBVIOUS
      <3>3. Leads(<<Call("CmdPrefix")>>, Know({}, E, AnyToken \cap PrefixStart),
                  Know({}, {Simples(<<{"CMD_PREFIX"}>>)}, After("CmdPrefix")))
        BY <3>1, <3>2, SimplesAdd, CallLeads
      <3>4. {Simples(<<{"CMD_PREFIX"}>>)} \subseteq Prefixed
        BY DEF Prefixed
      <3> QED BY <3>1, <3>3, <3>4, LeadsWider DEF Own
    <2>3. Leq(Know({}, E, AnyToken \ PrefixStart), Own(Prefixed))
      BY FewerStates DEF Own, Prefixed
    <2>4. Leads(<<>>, Know({}, E, AnyToken \ PrefixStart), Own(Prefixed))
      BY <2>3, LeadsNothing
    <2> HIDE DEF A, E
    <2>5. Leads(<<If(PrefixStart, <<Call("CmdPrefix")>>, <<>>)>>, A, Own(Prefixed))
      BY <2>1, <2>2, <2>4, LeadsIf
    <2> QED BY <2>5 DEF A, Opt
  <1>3. Leads(<<Opt(SuffixStart, c)>>, Own(Named), Own(All))
    <2> DEFINE A == Own(Named)
    <2>1. A.adds = {} /\ A.nodes = Named /\ A.tokens = AnyToken
      BY KnowIs DEF Own
    <2>2. Leads(c, Know({}, Named, AnyToken \cap SuffixStart), Own(All))
      <3>1. /\ Before("CmdSuffix") = SuffixStart /\ After("CmdSuffix") = AnyToken
            /\ "CmdSuffix" \in Makers /\ Makes["CmdSuffix"] = {"CMD_SUFFIX"}
        BY MakersAre DEF Before, After
      <3>2. AnyToken \cap SuffixStart \subseteq SuffixStart
        OBVIOUS
      <3>3. Leads(c, Know({}, Named, AnyToken \cap SuffixStart), Know({}, Suffixed, After("CmdSuffix")))
        BY <3>1, <3>2, SimplesAdd, CallLeads
      <3>4. Suffixed \subseteq All
        OBVIOUS
      <3> QED BY <3>1, <3>3, <3>4, LeadsWider DEF Own
    <2>3. Leq(Know({}, Named, AnyToken \ SuffixStart), Own(All))
      BY FewerStates DEF Own
    <2>4. Leads(<<>>, Know({}, Named, AnyToken \ SuffixStart), Own(All))
      BY <2>3, LeadsNothing
    <2> HIDE DEF A, All, c
    <2>5. Leads(<<If(SuffixStart, c, <<>>)>>, A, Own(All))
      BY <2>1, <2>2, <2>4, LeadsIf
    <2> QED BY <2>5 DEF A, Opt
  <1>4. Leads(<<Leaf("CMD_WORD")>>, Own(Prefixed), Own(Named))
    BY SimplesAdd, LeavesFinal, LeafLeads DEF Own
  <1>5. Leads(d, Own(Prefixed), Own(All))
    <2> HIDE DEF c, All
    <2> QED BY <1>3, <1>4, OwnLeads, LeadsThree
  <1>6. Leads(<<j>>, Own(Prefixed), Own(All))
    <2>1. Leq(Own(Prefixed), Own(All))
      BY FewerStates DEF Own
    <2> HIDE DEF d, All
    <2> QED BY <1>5, <2>1, LeadsOpt DEF Own
  <1>7. Leads(<<NeedChild>>, Own(All), Done(AnyToken))
    <2>1. Leads(<<NeedChild>>, Own(All), Own({s \in All : s.shape # Plain(<<>>)}))
      BY NeedChildLeads DEF Own
    <2>2. {s \in All : s.shape # Plain(<<>>)} \subseteq Final
      BY SimplesFinal
    <2> QED BY <2>1, <2>2, IsDone DEF Own
  <1> HIDE DEF i, j, All, E
  <1>8. Leads(<<Make("SIMPLE_COMMAND"), i, j, NeedChild>>, Know(a, {}, AnyToken), Done(AnyToken))
    BY <1>1, <1>2, <1>6, <1>7, LeadsFour
  <1> QED BY <1>8 DEF i, j, d, c, analyzeSimpleCommand

\* Prefixes and suffixes: parts of t until the token starts none.
LEMMA PartsLead ==
    ASSUME NEW S, NEW T, NEW part, NEW t, Empty(part) \in Final, NEW p,
           NEW s, NEW r, CanAdd({s}, part, {r}), CanAdd({s}, "REDIRECT", {r}),
           Goes(p, Own({r}), Own({r})), NEW ts, s = r \/ ts \subseteq S, ts \subseteq AnyToken
    PROVE  Leads(<<Opt(S, <<If(T, <<Leaf(part), advanceTokens>>, <<Call("Redirect")>>), Go(p)>>)>>,
                 Know({}, {s}, ts), Own({r}))
  <1> DEFINE us == ts \cap S
             i == If(T, <<Leaf(part), advanceTokens>>, <<Call("Redirect")>>)
             c == <<i, Go(p)>>
             A == Know({}, {s}, ts)
  <1>0. A.adds = {} /\ A.nodes = {s} /\ A.tokens = ts
    BY KnowIs
  <1>1. Leads(<<Leaf(part), advanceTokens>>, Know({}, {s}, us), Own({r}))
    <2>1. Leads(<<Leaf(part)>>, Know({}, {s}, us), Know({}, {r}, us))
      BY LeafLeads
    <2>2. Leads(<<advanceTokens>>, Know({}, {r}, us), Own({r}))
      BY AdvanceLeads DEF Own
    <2> QED BY <2>1, <2>2, LeadsTwo
  <1>2. Leads(<<Call("Redirect")>>, Know({}, {s}, us), Own({r}))
    <2>1. Before("Redirect") = AnyToken /\ After("Redirect") = AnyToken
      BY DEF Before, After
    <2>2. us \subseteq AnyToken
      OBVIOUS
    <2> HIDE DEF us
    <2>3. Leads(<<Call("Redirect")>>, Know({}, {s}, us), Know({}, {r}, After("Redirect")))
      BY <2>1, <2>2, MakersAre, CallLeads
    <2> QED BY <2>1, <2>3 DEF Own
  <1>3. Leads(<<i>>, Know({}, {s}, us), Own({r}))
    <2> HIDE DEF us
    <2> QED BY <1>1, <1>2, LeadsEither
  <1>4. Leads(<<Go(p)>>, Own({r}), Own({r}))
    BY GoLeads
  <1>5. Leads(c, Know({}, {s}, us), Own({r}))
    <2> HIDE DEF i, us
    <2> QED BY <1>3, <1>4, LeadsTwo
  <1>6. Leads(<<>>, Know({}, {s}, ts \ S), Own({r}))
    <2>1. Leq(Know({}, {s}, ts \ S), Own({r}))
      BY DEF Leq, Know, Own
    <2> QED BY <2>1, LeadsNothing
  <1> HIDE DEF c, A
  <1>7. Leads(<<If(S, c, <<>>)>>, A, Own({r}))
    BY <1>0, <1>5, <1>6, LeadsIf
  <1> QED BY <1>7 DEF c, A, Opt

LEMMA PrefixesAdd ==
    /\ \A c \in PrefixPart : /\ CanAdd({Empty("CMD_PREFIX")}, c, {PrefixParts})
                             /\ CanAdd({PrefixParts}, c, {PrefixParts})
    /\ \A c \in SuffixPart : /\ CanAdd({Empty("CMD_SUFFIX")}, c, {SuffixParts})
                             /\ CanAdd({SuffixParts}, c, {SuffixParts})
    /\ PrefixParts \in Final /\ SuffixParts \in Final
  <1>1. PrefixPart \in SUBSET NodeType /\ SuffixPart \in SUBSET NodeType
    BY TypesAre
  <1>2. \A c \in PrefixPart : /\ CanAdd({Empty("CMD_PREFIX")}, c, {PrefixParts})
                              /\ CanAdd({PrefixParts}, c, {PrefixParts})
    BY <1>1, BuildersMake DEF PrefixParts
  <1>3. \A c \in SuffixPart : /\ CanAdd({Empty("CMD_SUFFIX")}, c, {SuffixParts})
                              /\ CanAdd({SuffixParts}, c, {SuffixParts})
    BY <1>1, BuildersMake DEF SuffixParts
  <1>4. /\ Many(<<PrefixPart>>, PrefixPart, <<>>) \in Shapes["CMD_PREFIX"] /\ "CMD_PREFIX" \in NodeType
        /\ Many(<<SuffixPart>>, SuffixPart, <<>>) \in Shapes["CMD_SUFFIX"] /\ "CMD_SUFFIX" \in NodeType
    BY DEF Shapes, NodeType
  <1> QED BY <1>2, <1>3, <1>4, FinalIs DEF PrefixParts, SuffixParts

LEMMA StartTokens == PrefixStart \subseteq AnyToken /\ SuffixStart \subseteq AnyToken
  BY DEF PrefixStart, SuffixStart, AnyToken, Token, TOKEN_WORD, Operator

LEMMA PartsRestLead ==
    /\ Leads(PrefixRest, Own({PrefixParts}), Own({PrefixParts}))
    /\ Leads(PrefixRest, Know({}, {Empty("CMD_PREFIX")}, PrefixStart), Own({PrefixParts}))
    /\ Leads(SuffixRest, Own({SuffixParts}), Own({SuffixParts}))
    /\ Leads(SuffixRest, Know({}, {Empty("CMD_SUFFIX")}, SuffixStart), Own({SuffixParts}))
  <1>1. "ASSIGNMENT_WORD" \in PrefixPart /\ "REDIRECT" \in PrefixPart /\ "WORD" \in SuffixPart /\ "REDIRECT" \in SuffixPart
    BY DEF PrefixPart, SuffixPart
  <1>2. Goes("PrefixRest", Own({PrefixParts}), Own({PrefixParts})) /\ Goes("SuffixRest", Own({SuffixParts}), Own({SuffixParts}))
    BY DEF Goes
  <1>3. Leads(PrefixRest, Know({}, {PrefixParts}, AnyToken), Own({PrefixParts}))
    BY <1>1, <1>2, PrefixesAdd, LeavesFinal, PartsLead DEF PrefixRest
  <1>4. Leads(PrefixRest, Know({}, {Empty("CMD_PREFIX")}, PrefixStart), Own({PrefixParts}))
    BY <1>1, <1>2, PrefixesAdd, LeavesFinal, StartTokens, PartsLead DEF PrefixRest
  <1>5. Leads(SuffixRest, Know({}, {SuffixParts}, AnyToken), Own({SuffixParts}))
    BY <1>1, <1>2, PrefixesAdd, LeavesFinal, PartsLead DEF SuffixRest
  <1>6. Leads(SuffixRest, Know({}, {Empty("CMD_SUFFIX")}, SuffixStart), Own({SuffixParts}))
    BY <1>1, <1>2, PrefixesAdd, LeavesFinal, StartTokens, PartsLead DEF SuffixRest
  <1> QED BY <1>3, <1>4, <1>5, <1>6 DEF Own

LEMMA PartsMade ==
    ASSUME NEW a
    PROVE  /\ "CMD_PREFIX" \in a => Leads(analyzeCmdPrefix, Know(a, {}, PrefixStart), Done(AnyToken))
           /\ "CMD_SUFFIX" \in a => Leads(analyzeCmdSuffix, Know(a, {}, SuffixStart), Done(AnyToken))
  <1>1. ASSUME NEW t \in a, NEW ts, NEW p, NEW r \in Final, Goes(p, Know({}, {Empty(t)}, ts), Own({r}))
        PROVE  Leads(<<Make(t), Go(p)>>, Know(a, {}, ts), Done(AnyToken))
    <2>1. Leads(<<Make(t)>>, Know(a, {}, ts), Know({}, {Empty(t)}, ts))
      BY MakeLeads
    <2>2. Leads(<<Go(p)>>, Know({}, {Empty(t)}, ts), Own({r}))
      BY <1>1, GoLeads
    <2>3. Leads(<<Make(t), Go(p)>>, Know(a, {}, ts), Own({r}))
      BY <2>1, <2>2, LeadsTwo
    <2>4. {r} \subseteq Final
      OBVIOUS
    <2> QED BY <2>3, <2>4, IsDone DEF Own
  <1>2. /\ Goes("PrefixRest", Know({}, {Empty("CMD_PREFIX")}, PrefixStart), Own({PrefixParts}))
        /\ Goes("SuffixRest", Know({}, {Empty("CMD_SUFFIX")}, SuffixStart), Own({SuffixParts}))
    BY DEF Goes
  <1> QED BY <1>1, <1>2, PrefixesAdd DEF analyzeCmdPrefix, analyzeCmdSuffix

LEMMA RedirectLeads ==
    ASSUME NEW a, "REDIRECT" \in a
    PROVE  Leads(analyzeRedirect, Know(a, {}, AnyToken), Done(AnyToken))
  <1> DEFINE t == "REDIRECT"
             I == {"IO_NUM"}
             W == {"WORD"}
             E == {Empty(t)}
             K == {Empty(t)} \cup {St(t, Plain(<<I>>))}
             L == {St(t, Plain(<<W>>))} \cup {St(t, Plain(<<I, W>>))}
             b == <<Leaf("IO_NUM"), advanceTokens>>
             i == Opt({"IO_NUM"}, b)
  <1>1. I \in SUBSET NodeType /\ W \in SUBSET NodeType /\ "IO_NUM" \in I /\ "WORD" \in W /\ t # "AND_OR"
    BY DEF NodeType
  <1>2. L \subseteq Final
    <2>1. /\ Plain(<<W>>) \in Shapes["REDIRECT"] /\ Plain(<<I, W>>) \in Shapes["REDIRECT"]
          /\ t \in NodeType
      BY DEF Shapes, NodeType
    <2>2. St(t, Plain(<<W>>)) \in Final
      BY <2>1, FinalIs
    <2>3. St(t, Plain(<<I, W>>)) \in Final
      BY <2>1, FinalIs
    <2> QED BY <2>2, <2>3
  <1> HIDE DEF I, W
  <1>3. CanAdd({Empty(t)}, "IO_NUM", {St(t, Plain(<<I>>))})
    BY <1>1, AddFirst
  <1>4. CanAdd({Empty(t)}, "WORD", {St(t, Plain(<<W>>))})
    BY <1>1, AddFirst
  <1>5. CanAdd({St(t, Plain(<<I>>))}, "WORD", {St(t, Plain(<<I, W>>))})
    BY <1>1, AddSecond
  <1>6. CanAdd(K, "WORD", L)
    BY <1>4, <1>5, CanAddUnion
  <1>7. Leads(<<Make(t)>>, Know(a, {}, AnyToken), Own(E))
    BY OwnMakes
  <1>8. Leads(b, Own(E), Own(K))
    <2>1. Leads(<<Leaf("IO_NUM")>>, Own(E), Own({St(t, Plain(<<I>>))}))
      BY <1>3, LeavesFinal, LeafLeads DEF Own
    <2>2. Leads(b, Own(E), Own({St(t, Plain(<<I>>))}))
      BY <2>1, OwnLeads, LeadsTwo
    <2>3. {St(t, Plain(<<I>>))} \subseteq K
      OBVIOUS
    <2> HIDE DEF K, b, E
    <2> QED BY <2>2, <2>3, LeadsWider DEF Own
  <1>9. Leq(Own(E), Own(K))
    BY FewerStates DEF Own
  <1> HIDE DEF E, K, L, b
  <1>10. Leads(<<i>>, Own(E), Own(K))
    BY <1>8, <1>9, LeadsOpt DEF Own
  <1>11. Leads(<<Need({"REDIR"})>>, Own(K), Own(K))
    <2>1. Leads(<<Need({"REDIR"})>>, Own(K), Know({}, K, AnyToken \cap {"REDIR"}))
      BY NeedLeads DEF Own
    <2> QED BY <2>1, LeadsWider DEF Own
  <1> HIDE DEF i, t
  <1>12. Leads(<<Make(t), i, Need({"REDIR"}), advanceTokens>>, Know(a, {}, AnyToken), Own(K))
    BY <1>7, <1>10, <1>11, OwnLeads, LeadsFour
  <1>13. Leads(TakeWord("WORD"), Own(K), Own(L))
    BY <1>6, LeavesFinal, TakeWordLeads DEF Own
  <1>14. Leads(<<Make(t), i, Need({"REDIR"}), advanceTokens>> \o TakeWord("WORD"), Know(a, {}, AnyToken), Own(L))
    BY <1>12, <1>13, LeadsOn
  <1>15. Leads(<<Make(t), i, Need({"REDIR"}), advanceTokens>> \o TakeWord("WORD"), Know(a, {}, AnyToken), Done(AnyToken))
    BY <1>2, <1>14, IsDone DEF Own
  <1> QED BY <1>15 DEF t, i, b, analyzeRedirect

\* "for", "case" and a function's name: a word after the keyword.
LEMMA WordsAdd ==
    /\ CanAdd({Empty("FOR_CLAUSE")}, "WORD", {Words}) /\ CanAdd({Words}, "WORD", {Words})
    /\ CanAdd({Empty("CASE_CLAUSE")}, "WORD", {Items}) /\ CanAdd({Items}, "CASE_ITEM", {Items})
    /\ CanAdd({Empty("CASE_ITEM")}, "WORD", {ItemWords}) /\ CanAdd({ItemWords}, "WORD", {ItemWords})
    /\ CanAdd({ItemWords}, "LIST", {ItemList})
  <1> DEFINE W == {"WORD"}
             I == {"CASE_ITEM"}
             L == {"LIST"}
  <1>1. W \in SUBSET NodeType /\ L \in SUBSET NodeType /\ "CASE_ITEM" \in NodeType
    BY DEF NodeType
  <1>2. "WORD" \in W /\ "LIST" \in L /\ "CASE_ITEM" \in I /\ <<W>> \in Seq(SUBSET NodeType)
    BY <1>1
  <1> HIDE DEF W, I, L
  <1>3. CanAdd({Empty("CASE_CLAUSE")}, "WORD", {St("CASE_CLAUSE", Many(<<W>>, I, <<>>))})
    BY <1>1, <1>2, AddFirst
  <1>4. CanAdd({St("CASE_CLAUSE", Many(<<W>>, I, <<>>))}, "CASE_ITEM", {St("CASE_CLAUSE", Many(<<W>>, I, <<>>))})
    BY <1>1, <1>2, AddsAgain
  <1>5. CanAdd({St("CASE_ITEM", Many(<<W>>, W, <<>>))}, "LIST", {St("CASE_ITEM", Many(<<W>>, W, <<L>>))})
    BY <1>1, <1>2, AddsLast
  <1>6. /\ CanAdd({Empty("FOR_CLAUSE")}, "WORD", {St("FOR_CLAUSE", Many(<<W>>, W, <<>>))})
        /\ CanAdd({St("FOR_CLAUSE", Many(<<W>>, W, <<>>))}, "WORD", {St("FOR_CLAUSE", Many(<<W>>, W, <<>>))})
    BY <1>1, <1>2, BuildersMake
  <1>7. /\ CanAdd({Empty("CASE_ITEM")}, "WORD", {St("CASE_ITEM", Many(<<W>>, W, <<>>))})
        /\ CanAdd({St("CASE_ITEM", Many(<<W>>, W, <<>>))}, "WORD", {St("CASE_ITEM", Many(<<W>>, W, <<>>))})
    BY <1>1, <1>2, BuildersMake
  <1> QED BY <1>3, <1>4, <1>5, <1>6, <1>7 DEF W, I, L, Words, Items, ItemWords, ItemList

ForDone == St("FOR_CLAUSE", Many(<<{"WORD"}>>, {"WORD"}, <<{"LIST"}>>))

LEMMA ForAdds == CanAdd({Words}, "LIST", {ForDone})
  <1> DEFINE W == {"WORD"}
             L == {"LIST"}
  <1>1. L \in SUBSET NodeType /\ "LIST" \in L /\ <<W>> \in Seq(SUBSET NodeType)
    BY DEF NodeType
  <1> HIDE DEF W, L
  <1>2. CanAdd({St("FOR_CLAUSE", Many(<<W>>, W, <<>>))}, "LIST", {St("FOR_CLAUSE", Many(<<W>>, W, <<L>>))})
    BY <1>1, AddsLast
  <1> QED BY <1>2 DEF W, L, Words, ForDone

LEMMA ClausesFinal == ForDone \in Final /\ Items \in Final /\ ItemWords \in Final /\ ItemList \in Final
  <1>1. /\ Many(<<{"WORD"}>>, {"WORD"}, <<{"LIST"}>>) \in Shapes["FOR_CLAUSE"] /\ "FOR_CLAUSE" \in NodeType
        /\ Many(<<{"WORD"}>>, {"CASE_ITEM"}, <<>>) \in Shapes["CASE_CLAUSE"] /\ "CASE_CLAUSE" \in NodeType
        /\ Many(<<{"WORD"}>>, {"WORD"}, <<>>) \in Shapes["CASE_ITEM"] /\ "CASE_ITEM" \in NodeType
        /\ Many(<<{"WORD"}>>, {"WORD"}, <<{"LIST"}>>) \in Shapes["CASE_ITEM"]
    BY DEF Shapes, NodeType
  <1> QED BY <1>1, FinalIs DEF ForDone, Items, ItemWords, ItemList

LEMMA WordHead ==
    ASSUME NEW a, NEW t \in a, NEW w, NEW s, CanAdd({Empty(t)}, "WORD", {s})
    PROVE  /\ Leads(<<Make(t)>> \o TakeWord("WORD"), Know(a, {}, AnyToken), Own({s}))
           /\ Leads(<<Make(t)>> \o Keyword(w) \o TakeWord("WORD"), Know(a, {}, AnyToken), Own({s}))
  <1>1. Leads(<<Make(t)>>, Know(a, {}, AnyToken), Own({Empty(t)}))
    BY OwnMakes
  <1>2. Leads(TakeWord("WORD"), Own({Empty(t)}), Own({s}))
    BY LeavesFinal, TakeWordLeads DEF Own
  <1>3. Leads(<<Make(t)>> \o TakeWord("WORD"), Know(a, {}, AnyToken), Own({s}))
    BY <1>1, <1>2, LeadsOn
  <1>4. Leads(<<Make(t)>> \o Keyword(w), Know(a, {}, AnyToken), Own({Empty(t)}))
    BY <1>1, OwnLeads, LeadsOn
  <1>5. Leads(<<Make(t)>> \o Keyword(w) \o TakeWord("WORD"), Know(a, {}, AnyToken), Own({s}))
    BY <1>4, <1>2, LeadsOn
  <1> QED BY <1>3, <1>5

LEMMA ForClauseLeads ==
    ASSUME NEW a, "FOR_CLAUSE" \in a
    PROVE  Leads(analyzeForClause, Know(a, {}, AnyToken), Done(AnyToken))
  <1> DEFINE A == Own({Words})
             c == <<Make("FOR_CLAUSE")>> \o Keyword("for") \o TakeWord("WORD")
             d == <<Go("LineBreak")>> \o Keyword("in") \o <<Go("ForWords")>>
             e == <<Opt({"SEMI"}, <<advanceTokens>>), Go("LineBreak")>>
             i == If({"in", "NEWLINE"}, d, e)
  <1>1. Leads(c, Know(a, {}, AnyToken), A)
    BY WordsAdd, WordHead
  <1>2. Leads(d, A, A)
    <2>1. Leads(<<Go("LineBreak")>> \o Keyword("in"), A, A)
      BY OwnLeads, LeadsOn
    <2>2. Leads(<<Go("ForWords")>>, A, A)
      BY GoLeads DEF Goes
    <2> QED BY <2>1, <2>2, LeadsOn
  <1>3. Leads(e, A, A)
    <2>1. Leads(<<Opt({"SEMI"}, <<advanceTokens>>)>>, A, A)
      BY OwnLeads, OwnOpt
    <2> QED BY <2>1, OwnLeads, LeadsTwo
  <1> HIDE DEF c, d, e
  <1>4. Leads(<<i>>, A, A)
    BY <1>2, <1>3, OwnEither
  <1>5. Leads(<<Go("DoGroup")>>, A, Own({ForDone}))
    BY ForAdds, CompoundListLeads
  <1> HIDE DEF i, A
  <1>6. Leads(<<i, Go("DoGroup")>>, A, Own({ForDone}))
    BY <1>4, <1>5, LeadsTwo
  <1>7. Leads(c \o <<i, Go("DoGroup")>>, Know(a, {}, AnyToken), Own({ForDone}))
    BY <1>1, <1>6, LeadsOn
  <1>8. {ForDone} \subseteq Final
    BY ClausesFinal
  <1>9. Leads(c \o <<i, Go("DoGroup")>>, Know(a, {}, AnyToken), Done(AnyToken))
    BY <1>7, <1>8, IsDone DEF Own
  <1> QED BY <1>9 DEF c, d, e, i, analyzeForClause

LEMMA ForWordsLeads == Leads(ForWords, Own({Words}), Own({Words}))
  <1> DEFINE A == Own({Words})
             c == <<Leaf("WORD"), advanceTokens, Go("ForWords")>>
             d == <<advanceTokens, Go("LineBreak")>>
             e == <<Go("Newline")>>
             f == <<If({"SEMI"}, d, e)>>
  <1>1. Leads(<<Leaf("WORD")>>, A, A)
    BY WordsAdd, LeavesFinal, LeafLeads DEF Own
  <1>2. Leads(<<Go("ForWords")>>, A, A)
    BY GoLeads DEF Goes
  <1>3. Leads(c, A, A)
    BY <1>1, <1>2, OwnLeads, LeadsThree
  <1>4. Leads(d, A, A) /\ Leads(e, A, A)
    BY OwnLeads, LeadsTwo
  <1> HIDE DEF c, d, e
  <1>5. Leads(f, A, A)
    BY <1>4, OwnEither
  <1> HIDE DEF f
  <1>6. Leads(<<If(TOKEN_WORD, c, f)>>, A, A)
    BY <1>3, <1>5, OwnEither
  <1> QED BY <1>6 DEF A, c, d, e, f, ForWords

LEMMA CaseClauseLeads ==
    ASSUME NEW a, "CASE_CLAUSE" \in a
    PROVE  Leads(analyzeCaseClause, Know(a, {}, AnyToken), Done(AnyToken))
  <1> DEFINE A == Own({Items})
             c == <<Make("CASE_CLAUSE")>> \o Keyword("case") \o TakeWord("WORD")
             K == Know(a, {}, AnyToken)
  <1>1. Leads(c, K, A)
    BY WordsAdd, WordHead
  <1>2. Leads(<<Go("LineBreak")>>, A, A) /\ Leads(Keyword("in"), A, A) /\ Leads(Keyword("esac"), A, A)
    BY OwnLeads
  <1>3. Leads(<<Go("CaseItems")>>, A, A)
    BY GoLeads DEF Goes
  <1>4. A = Know({}, {Items}, AnyToken)
    BY DEF Own
  <1> HIDE DEF c, A, K
  <1>5. Leads(c \o <<Go("LineBreak")>>, K, A)
    BY <1>1, <1>2, LeadsOn
  <1>6. Leads(c \o <<Go("LineBreak")>> \o Keyword("in"), K, A)
    BY <1>2, <1>5, LeadsOn
  <1>7. Leads(<<Go("LineBreak"), Go("CaseItems")>>, A, A)
    BY <1>2, <1>3, LeadsTwo
  <1>8. Leads(c \o <<Go("LineBreak")>> \o Keyword("in") \o <<Go("LineBreak"), Go("CaseItems")>>, K, A)
    BY <1>6, <1>7, LeadsOn
  <1>9. Leads(c \o <<Go("LineBreak")>> \o Keyword("in") \o <<Go("LineBreak"), Go("CaseItems")>> \o Keyword("esac"), K, A)
    BY <1>2, <1>8, LeadsOn
  <1>10. {Items} \subseteq Final
    BY ClausesFinal
  <1>11. Leads(c \o <<Go("LineBreak")>> \o Keyword("in") \o <<Go("LineBreak"), Go("CaseItems")>> \o Keyword("esac"), K, Done(AnyToken))
    BY <1>4, <1>9, <1>10, IsDone
  <1> QED BY <1>11 DEF c, K, analyzeCaseClause

LEMMA CaseItemsLeads == Leads(CaseItems, Own({Items}), Own({Items}))
  <1> DEFINE A == Own({Items})
             ts == AnyToken \ {"EOF", "esac"}
             c == <<Call("CaseItem"), Go("LineBreak"), Go("CaseItems")>>
  <1>1. A.adds = {} /\ A.nodes = {Items} /\ A.tokens = AnyToken
    BY KnowIs DEF Own
  <1>2. Leads(<<Call("CaseItem")>>, Know({}, {Items}, ts), A)
    <2>1. ts \subseteq Before("CaseItem") /\ After("CaseItem") = AnyToken
      BY DEF Before, After
    <2> HIDE DEF ts
    <2> QED BY <2>1, MakersAre, WordsAdd, CallLeads DEF Own
  <1>3. Leads(<<Go("CaseItems")>>, A, A)
    BY GoLeads DEF Goes
  <1>4. Leads(c, Know({}, {Items}, ts), A)
    BY <1>2, <1>3, OwnLeads, LeadsThree
  <1>5. Leads(<<>>, Know({}, {Items}, AnyToken \cap {"EOF", "esac"}), A)
    <2>1. Leq(Know({}, {Items}, AnyToken \cap {"EOF", "esac"}), A)
      BY FewerTokens DEF Own
    <2> QED BY <2>1, LeadsNothing
  <1> HIDE DEF c, A
  <1>6. Leads(<<If({"EOF", "esac"}, <<>>, c)>>, A, A)
    BY <1>1, <1>4, <1>5, LeadsIf
  <1> QED BY <1>6 DEF A, c, CaseItems

LEMMA CaseItemLeads ==
    ASSUME NEW a, "CASE_ITEM" \in a
    PROVE  Leads(analyzeCaseItem, Know(a, {}, AnyToken \ {"esac"}), Done(AnyToken))
  <1> DEFINE E == {Empty("CASE_ITEM")}
             ts == AnyToken \ {"esac"}
             A == Know({}, E, ts)
             B == Done(AnyToken)
             p == <<Go("Patterns")>>
             c == <<advanceTokens, Go("Patterns")>>
             d == <<If({"esac"}, <<>>, p)>>
  <1>1. Leads(<<Make("CASE_ITEM")>>, Know(a, {}, ts), A)
    BY MakeLeads
  <1>2. Leads(p, Own(E), B)
    <2>1. Leads(<<Go("Patterns")>>, Own(E), Own({ItemWords, ItemList}))
      BY GoLeads DEF Goes
    <2>2. {ItemWords, ItemList} \subseteq Final
      BY ClausesFinal
    <2> QED BY <2>1, <2>2, IsDone DEF Own
  <1>3. Leads(c, A, B)
    <2>1. Leads(<<advanceTokens>>, A, Own(E))
      BY AdvanceLeads DEF Own
    <2> QED BY <1>2, <2>1, LeadsTwo
  <1>4. A.adds = {} /\ A.nodes = E /\ A.tokens = ts
    BY KnowIs
  <1>5. ts \cap {"esac"} = {} /\ ts \subseteq AnyToken
    OBVIOUS
  <1>6. Leq(A, Own(E))
    BY FewerTokens DEF Own
  <1>7. <<>> \in Seq(ToSet(<<>>)) /\ Know({}, E, {}).tokens = {}
    BY KnowIs
  <1> HIDE DEF A, B, E, ts, p
  <1>8. Leads(d, A, B)
    <2>1. Leads(<<>>, Know({}, E, {}), B)
      BY <1>7, LeadsNowhere
    <2>2. Leads(<<>>, Know(A.adds, A.nodes, A.tokens \cap {"esac"}), B)
      BY <1>4, <1>5, <2>1
    <2>3. Leads(p, A, B)
      BY <1>2, <1>6, LeadsFrom
    <2>4. Leq(Know(A.adds, A.nodes, A.tokens \ {"esac"}), A)
      BY <1>4, FewerTokens DEF A
    <2>5. Leads(p, Know(A.adds, A.nodes, A.tokens \ {"esac"}), B)
      BY <2>3, <2>4, LeadsFrom
    <2> QED BY <2>2, <2>5, LeadsIf
  <1> HIDE DEF c, d
  <1>9. Leads(<<If({"LPAREN"}, c, d)>>, A, B)
    BY <1>3, <1>8, LeadsEither DEF A
  <1>10. Leads(<<Make("CASE_ITEM"), If({"LPAREN"}, c, d)>>, Know(a, {}, ts), B)
    BY <1>1, <1>9, LeadsTwo
  <1> QED BY <1>10 DEF c, d, p, ts, B, analyzeCaseItem

LEMMA PatternsLead ==
    ASSUME NEW s \in {Empty("CASE_ITEM"), ItemWords}
    PROVE  Leads(Patterns, Own({s}), Own({ItemWords, ItemList}))
  <1> DEFINE R == {ItemWords, ItemList}
             W == Own({ItemWords})
             B == Own(R)
             c == <<advanceTokens, Go("Patterns")>>
             i == If({"DOUBLE_SEMI", "SEMI_AND", "esac"}, <<>>, <<Go("CompoundList")>>)
             f(x) == <<Flag(x), advanceTokens, Go("LineBreak")>>
             g == <<Opt({"SEMI_AND"}, f("SEMI_AND"))>>
             j == If({"DOUBLE_SEMI"}, f("DOUBLE_SEMI"), g)
             d == Keyword("RPAREN") \o <<i, j>>
  <1>1. Leads(TakeWord("WORD"), Own({s}), W)
    BY WordsAdd, LeavesFinal, TakeWordLeads DEF Own
  <1>2. Leads(c, W, B)
    <2>1. Leads(<<Go("Patterns")>>, W, B)
      BY GoLeads DEF Goes
    <2> QED BY <2>1, OwnLeads, LeadsTwo
  <1>3. Leads(<<i>>, W, B)
    <2>1. Leads(<<Go("CompoundList")>>, W, Own({ItemList}))
      BY WordsAdd, CompoundListLeads
    <2>2. Leads(<<Go("CompoundList")>>, W, B)
      BY <2>1, LeadsWider DEF Own
    <2>3. Leq(W, B)
      BY FewerStates DEF Own
    <2>4. Leads(<<>>, W, B)
      BY <2>3, LeadsNothing
    <2> HIDE DEF B
    <2> QED BY <2>2, <2>4, OwnEither
  <1>4. ASSUME NEW x \in {"DOUBLE_SEMI", "SEMI_AND"}
        PROVE  Leads(f(x), B, B)
    <2>1. Flag(x).op = "flag" /\ Flag(x).flag = x /\ Flag(x).depth = 0
      BY DEF Flag
    <2>2. \A q \in R : Flagged(q, x, 0, q)
      <3>1. \A q \in R : q.type = "CASE_ITEM"
        BY DEF ItemWords, ItemList, St
      <3>2. x \in FlagsAllowed["CASE_ITEM"]
        BY DEF FlagsAllowed, NodeType
      <3> HIDE DEF R
      <3> QED BY <3>1, <3>2 DEF Flagged
    <2> HIDE DEF R
    <2>3. \A q \in R : \E u \in R : Flagged(q, Flag(x).flag, Flag(x).depth, u)
      BY <2>1, <2>2
    <2>4. Leads(<<Flag(x)>>, B, B)
      BY <2>1, <2>3, FlagLeads DEF Own
    <2> QED BY <2>4, OwnLeads, LeadsThree
  <1> HIDE DEF R, f, i
  <1>5. Leads(g, B, B)
    BY <1>4, OwnOpt
  <1>6. Leads(<<j>>, B, B)
    <2> HIDE DEF g
    <2> QED BY <1>4, <1>5, OwnEither
  <1> HIDE DEF j, B, c
  <1>7. Leads(<<i, j>>, W, B)
    BY <1>3, <1>6, LeadsTwo
  <1>8. Leads(d, W, B)
    BY <1>7, OwnLeads, LeadsOn
  <1> HIDE DEF d
  <1>9. Leads(<<If({"PIPE"}, c, d)>>, W, B)
    BY <1>2, <1>8, OwnEither
  <1>10. Leads(TakeWord("WORD") \o <<If({"PIPE"}, c, d)>>, Own({s}), B)
    BY <1>1, <1>9, LeadsOn
  <1> QED BY <1>10 DEF B, R, c, d, f, g, i, j, Patterns

LEMMA FunctionsAdd ==
    /\ \A c \in Compound : CanAdd({St("FUNCTION_DEF", Plain(<<{"WORD"}>>))}, c, {Defined})
    /\ CanAdd({Empty("FUNCTION_DEF")}, "WORD", {St("FUNCTION_DEF", Plain(<<{"WORD"}>>))})
    /\ CanAdd({Defined}, "REDIRECT", {Defined}) /\ Defined \in Final
  <1> DEFINE W == {"WORD"}
             t == "FUNCTION_DEF"
             R == {"REDIRECT"}
  <1>1. W \in SUBSET NodeType /\ Compound \in SUBSET NodeType /\ "REDIRECT" \in NodeType /\ t \in NodeType /\ t # "AND_OR"
    BY TypesAre DEF NodeType
  <1>2. "WORD" \in W /\ "REDIRECT" \in R /\ <<W, Compound>> \in Seq(SUBSET NodeType)
    BY <1>1
  <1>3. Many(<<W, Compound>>, R, <<>>) \in Shapes["FUNCTION_DEF"]
    BY DEF Shapes
  <1> HIDE DEF W, R, t
  <1>4. \A c \in Compound : CanAdd({St(t, Plain(<<W>>))}, c, {St(t, Many(<<W, Compound>>, R, <<>>))})
    BY <1>1, AddSecond
  <1>5. CanAdd({Empty(t)}, "WORD", {St(t, Plain(<<W>>))})
    BY <1>1, <1>2, AddFirst
  <1>6. CanAdd({St(t, Many(<<W, Compound>>, R, <<>>))}, "REDIRECT", {St(t, Many(<<W, Compound>>, R, <<>>))})
    BY <1>1, <1>2, AddsAgain
  <1>7. St(t, Many(<<W, Compound>>, R, <<>>)) \in Final
    BY <1>1, <1>3, FinalIs DEF t
  <1> QED BY <1>4, <1>5, <1>6, <1>7 DEF W, R, t, Defined

LEMMA FunctionDefLeads ==
    ASSUME NEW a, "FUNCTION_DEF" \in a
    PROVE  Leads(analyzeFunctionDef, Know(a, {}, AnyToken), Done(AnyToken))
  <1> DEFINE s == St("FUNCTION_DEF", Plain(<<{"WORD"}>>))
             A == Own({s})
             K == Know(a, {}, AnyToken)
             c == <<Make("FUNCTION_DEF")>> \o TakeWord("WORD")
             d == <<Go("LineBreak"), Call("CompoundCommand"), Go("FunctionRedirects")>>
  <1>1. Leads(c, K, A)
    BY FunctionsAdd, WordHead
  <1>2. Leads(d, A, Done(AnyToken))
    <2>1. Leads(<<Call("CompoundCommand")>>, A, Own({Defined}))
      BY MakersAre, FunctionsAdd, OwnCalls
    <2>2. Leads(<<Go("FunctionRedirects")>>, Own({Defined}), Own({Defined}))
      BY GoLeads DEF Goes
    <2>3. Leads(d, A, Own({Defined}))
      BY <2>1, <2>2, OwnLeads, LeadsThree
    <2>4. {Defined} \subseteq Final
      BY FunctionsAdd
    <2> QED BY <2>3, <2>4, IsDone DEF Own
  <1>3. Leads(Keyword("LPAREN"), A, A) /\ Leads(Keyword("RPAREN"), A, A)
    BY OwnLeads
  <1> HIDE DEF A, K, c, d
  <1>4. Leads(c \o Keyword("LPAREN"), K, A)
    BY <1>1, <1>3, LeadsOn
  <1>5. Leads(c \o Keyword("LPAREN") \o Keyword("RPAREN"), K, A)
    BY <1>3, <1>4, LeadsOn
  <1>6. Leads(c \o Keyword("LPAREN") \o Keyword("RPAREN") \o d, K, Done(AnyToken))
    BY <1>2, <1>5, LeadsOn
  <1> QED BY <1>6 DEF c, d, K, analyzeFunctionDef

LEMMA FunctionRedirectsLeads == Leads(FunctionRedirects, Own({Defined}), Own({Defined}))
  <1> DEFINE c == <<Call("Redirect"), Go("FunctionRedirects")>>
  <1>1. Leads(<<Call("Redirect")>>, Own({Defined}), Own({Defined}))
    BY MakersAre, FunctionsAdd, OwnCalls
  <1>2. Leads(<<Go("FunctionRedirects")>>, Own({Defined}), Own({Defined}))
    BY GoLeads DEF Goes
  <1>3. Leads(c, Own({Defined}), Own({Defined}))
    BY <1>1, <1>2, LeadsTwo
  <1> HIDE DEF c
  <1>4. Leads(<<Opt({"REDIR", "IO_NUM"}, c)>>, Own({Defined}), Own({Defined}))
    BY <1>3, OwnOpt
  <1> QED BY <1>4 DEF c, FunctionRedirects

-----------------------------------------------------------------------------
(* Every function does what Goes says of it.                                 *)

LEMMA MakersLead ==
    ASSUME NEW a, NEW p \in Makers, Makes[p] \subseteq a
    PROVE  Leads(Body[p], Know(a, {}, Before(p)), Done(After(p)))
  <1> DEFINE A == Know(a, {}, AnyToken)
             B == Done(AnyToken)
  <1>1. CASE p \in {"CmdPrefix", "CmdSuffix", "CaseItem", "Term"}
    <2>1. CASE p = "CmdPrefix"
      <3>1. Before(p) = PrefixStart /\ After(p) = AnyToken /\ Body[p] = analyzeCmdPrefix /\ Makes[p] = {"CMD_PREFIX"}
        BY <2>1, MakersAre DEF Before, After, Body
      <3> QED BY <3>1, PartsMade
    <2>2. CASE p = "CmdSuffix"
      <3>1. Before(p) = SuffixStart /\ After(p) = AnyToken /\ Body[p] = analyzeCmdSuffix /\ Makes[p] = {"CMD_SUFFIX"}
        BY <2>2, MakersAre DEF Before, After, Body
      <3> QED BY <3>1, PartsMade
    <2>3. CASE p = "CaseItem"
      <3>1. Before(p) = AnyToken \ {"esac"} /\ After(p) = AnyToken /\ Body[p] = analyzeCaseItem /\ Makes[p] = {"CASE_ITEM"}
        BY <2>3, MakersAre DEF Before, After, Body
      <3> QED BY <3>1, CaseItemLeads
    <2>4. CASE p = "Term"
      <3>1. Before(p) = AnyToken /\ After(p) = NotSeparator /\ Body[p] = analyzeTerm /\ Makes[p] = {"LIST"}
        BY <2>4, MakersAre DEF Before, After, Body
      <3> QED BY <3>1, BuildersLead
    <2> QED BY <1>1, <2>1, <2>2, <2>3, <2>4
  <1>2. CASE p \notin {"CmdPrefix", "CmdSuffix", "CaseItem", "Term"}
    <2>1. Before(p) = AnyToken /\ After(p) = AnyToken
      BY <1>2 DEF Before, After
    <2>2. p \in {"CompleteCommand", "List", "AndOr", "Pipeline"} => Leads(Body[p], A, B)
      <3>1. /\ Body["CompleteCommand"] = analyzeCompleteCommand /\ Body["List"] = analyzeList
            /\ Body["AndOr"] = analyzeAndOr /\ Body["Pipeline"] = analyzePipeline
        BY DEF Body
      <3>2. p = "CompleteCommand" => Leads(Body[p], A, B)
        BY <3>1, MakersAre, CompleteCommandLeads
      <3>3. p = "List" => Leads(Body[p], A, B)
        BY <3>1, MakersAre, BuildersLead
      <3>4. p = "AndOr" => Leads(Body[p], A, B)
        BY <3>1, MakersAre, BuildersLead
      <3>5. p = "Pipeline" => Leads(Body[p], A, B)
        BY <3>1, MakersAre, BuildersLead
      <3> QED BY <3>2, <3>3, <3>4, <3>5
    <2>3. p \in {"Command", "OtherCommand", "SimpleCommand", "Redirect", "FunctionDef", "CompoundCommand"} =>
              Leads(Body[p], A, B)
      <3>1. /\ Body["Command"] = analyzeCommand /\ Body["OtherCommand"] = OtherCommand
            /\ Body["SimpleCommand"] = analyzeSimpleCommand /\ Body["Redirect"] = analyzeRedirect
            /\ Body["FunctionDef"] = analyzeFunctionDef /\ Body["CompoundCommand"] = analyzeCompoundCommand
        BY DEF Body
      <3>2. /\ Makes["OtherCommand"] = Command /\ Makes["SimpleCommand"] = {"SIMPLE_COMMAND"}
            /\ Makes["FunctionDef"] = {"FUNCTION_DEF"}
        BY DEF Makes
      <3>3. p \in {"Command", "OtherCommand"} => Leads(Body[p], A, B)
        BY <3>1, <3>2, MakersAre, CommandLeads
      <3>4. p = "SimpleCommand" => Leads(Body[p], A, B)
        BY <3>1, <3>2, SimpleCommandLeads
      <3>5. p = "Redirect" => Leads(Body[p], A, B)
        BY <3>1, MakersAre, RedirectLeads
      <3>6. p = "FunctionDef" => Leads(Body[p], A, B)
        BY <3>1, <3>2, FunctionDefLeads
      <3>7. p = "CompoundCommand" => Leads(Body[p], A, B)
        BY <3>1, MakersAre, CompoundCommandLeads
      <3> QED BY <3>3, <3>4, <3>5, <3>6, <3>7
    <2>4. p \in {"BraceGroup", "Subshell", "IfClause", "ElsePart", "WhileClause", "UntilClause", "ForClause",
                 "CaseClause"} => Leads(Body[p], A, B)
      <3>1. /\ Body["BraceGroup"] = analyzeBraceGroup /\ Body["Subshell"] = analyzeSubshell
            /\ Body["IfClause"] = analyzeIfClause /\ Body["ElsePart"] = analyzeElsePart
            /\ Body["WhileClause"] = analyzeWhileClause /\ Body["UntilClause"] = analyzeUntilClause
            /\ Body["ForClause"] = analyzeForClause /\ Body["CaseClause"] = analyzeCaseClause
        BY DEF Body
      <3>2. /\ Makes["BraceGroup"] = {"BRACE_GROUP"} /\ Makes["Subshell"] = {"SUBSHELL"}
            /\ Makes["IfClause"] = {"IF_CLAUSE"} /\ Makes["ElsePart"] = {"IF_CLAUSE", "ELSE_CLAUSE"}
            /\ Makes["WhileClause"] = {"WHILE_CLAUSE"} /\ Makes["UntilClause"] = {"UNTIL_CLAUSE"}
            /\ Makes["ForClause"] = {"FOR_CLAUSE"} /\ Makes["CaseClause"] = {"CASE_CLAUSE"}
        BY DEF Makes
      <3>3. p \in {"BraceGroup", "Subshell", "WhileClause", "UntilClause"} => Leads(Body[p], A, B)
        BY <3>1, <3>2, CompoundsLead
      <3>4. p = "IfClause" => Leads(Body[p], A, B)
        BY <3>1, <3>2, IfClauseLeads
      <3>5. p = "ElsePart" => Leads(Body[p], A, B)
        BY <3>1, <3>2, ElsePartLeads
      <3>6. p = "ForClause" => Leads(Body[p], A, B)
        BY <3>1, <3>2, ForClauseLeads
      <3>7. p = "CaseClause" => Leads(Body[p], A, B)
        BY <3>1, <3>2, CaseClauseLeads
      <3> QED BY <3>3, <3>4, <3>5, <3>6, <3>7
    <2>5. p \in {"CompleteCommand", "List", "AndOr", "Pipeline"}
                \cup {"Command", "OtherCommand", "SimpleCommand", "Redirect", "FunctionDef", "CompoundCommand"}
                \cup {"BraceGroup", "Subshell", "IfClause", "ElsePart", "WhileClause", "UntilClause", "ForClause",
                      "CaseClause"}
      BY <1>2 DEF Makers, Makes
    <2> HIDE DEF A, B
    <2>6. Leads(Body[p], A, B)
      BY <2>2, <2>3, <2>4, <2>5
    <2> QED BY <2>1, <2>6 DEF A, B
  <1> QED BY <1>1, <1>2

LEMMA GoesLead ==
    ASSUME NEW p, NEW A, NEW B, Goes(p, A, B)
    PROVE  Leads(Body[p], A, B)
  <1>1. /\ Body["LineBreak"] = analyzeLineBreak /\ Body["Newline"] = analyzeNewline
        /\ Body["CompoundList"] = analyzeCompoundList /\ Body["DoGroup"] = analyzeDoGroup
        /\ Body["Program"] = analyzeProgram /\ Body["MoreCommands"] = MoreCommands
        /\ Body["ListRest"] = ListRest /\ Body["TermRest"] = TermRest
        /\ Body["AndOrRest"] = AndOrRest /\ Body["PipelineRest"] = PipelineRest
        /\ Body["PrefixRest"] = PrefixRest /\ Body["SuffixRest"] = SuffixRest
        /\ Body["ForWords"] = ForWords /\ Body["CaseItems"] = CaseItems /\ Body["Patterns"] = Patterns
        /\ Body["FunctionRedirects"] = FunctionRedirects
    BY DEF Body
  <1>2. CASE p \in {"LineBreak", "Newline"} /\ A.tokens \subseteq AnyToken /\ B = Know(A.adds, A.nodes, AnyToken)
    BY <1>1, <1>2, BreaksLead
  <1>3. CASE p \in Makers /\ Makes[p] \subseteq A.adds /\ A = Know(A.adds, {}, Before(p)) /\ B = Done(After(p))
    <2> DEFINE a == A.adds
    <2>1. p \in Makers /\ Makes[p] \subseteq a /\ A = Know(a, {}, Before(p)) /\ B = Done(After(p))
      BY <1>3
    <2> HIDE DEF a
    <2> QED BY <2>1, MakersLead
  <1>4. CASE /\ p \in {"CompoundList", "DoGroup"}
             /\ \E K, L : CanAdd(K, "LIST", L) /\ A = Own(K) /\ B = Own(L)
    BY <1>1, <1>4, CompoundListBody, DoGroupLeads
  <1>5. CASE \/ p \in {"Program", "MoreCommands"} /\ A = Own({Commands}) /\ B = Own({Commands})
             \/ p = "ListRest" /\ A = Own({AndOrs}) /\ B = Done(AnyToken)
             \/ p = "TermRest" /\ A = Own({AndOrs}) /\ B = Done(NotSeparator)
             \/ p = "AndOrRest" /\ A = Own({OpenPipelines}) /\ B = Done(AnyToken)
             \/ p = "PipelineRest" /\ A = Own({Piped}) /\ B = Done(AnyToken)
    BY <1>1, <1>5, ProgramLeads, ListRestLeads, TermRestLeads, AndOrRestLeads, PipelineRestLeads
  <1>6. CASE \/ p = "PrefixRest" /\ A = Own({PrefixParts}) /\ B = Own({PrefixParts})
             \/ p = "PrefixRest" /\ A = Know({}, {Empty("CMD_PREFIX")}, PrefixStart) /\ B = Own({PrefixParts})
             \/ p = "SuffixRest" /\ A = Own({SuffixParts}) /\ B = Own({SuffixParts})
             \/ p = "SuffixRest" /\ A = Know({}, {Empty("CMD_SUFFIX")}, SuffixStart) /\ B = Own({SuffixParts})
    BY <1>1, <1>6, PartsRestLead
  <1>7. CASE \/ p = "ForWords" /\ A = Own({Words}) /\ B = Own({Words})
             \/ p = "CaseItems" /\ A = Own({Items}) /\ B = Own({Items})
             \/ p = "FunctionRedirects" /\ A = Own({Defined}) /\ B = Own({Defined})
    BY <1>1, <1>7, ForWordsLeads, CaseItemsLeads, FunctionRedirectsLeads
  <1>8. CASE \/ p = "Patterns" /\ A = Own({Empty("CASE_ITEM")}) /\ B = Own({ItemWords, ItemList})
             \/ p = "Patterns" /\ A = Own({ItemWords}) /\ B = Own({ItemWords, ItemList})
    BY <1>1, <1>8, PatternsLead
  <1> QED BY <1>2, <1>3, <1>4, <1>5, <1>6, <1>7, <1>8 DEF Goes

-----------------------------------------------------------------------------
(* The states of the nodes in a heap.                                        *)

\* FitsShape and Operators for the heap h; open: the last pipeline has no operator.
Fits(h, ks, s) ==
    /\ Len(ks) >= Len(s.first) + Len(s.last)
    /\ \A i \in 1..Len(ks) :
          h[ks[i]].type \in IF i <= Len(s.first) THEN s.first[i]
                            ELSE IF i > Len(ks) - Len(s.last) THEN s.last[i - (Len(ks) - Len(s.last))]
                            ELSE s.many
Untagged(h, n) == "AND" \notin h[n].flags /\ "OR" \notin h[n].flags
Tagged(h, n) == "AND" \in h[n].flags <=> "OR" \notin h[n].flags
Joined(h, ks, open) ==
    \A i \in 1..Len(ks) : IF i = Len(ks) /\ open THEN Untagged(h, ks[i]) ELSE Tagged(h, ks[i])

InState(h, n, q) ==
    /\ h[n].type = q.type /\ Fits(h, h[n].kids, q.shape)
    /\ q.type = "AND_OR" => Joined(h, h[n].kids, q.open)
Built(h, n) == \E q \in Final : InState(h, n, q)

\* Node n is in a state of K, or will be when it has got a child of any type of P.
Waits(h, n, P, K) ==
    \E q : InState(h, n, q) /\ IF P = {} THEN q \in K ELSE \A c \in P : \E u \in K : Adds(q, c, u)

\* From h to g: the state of node n is what it was, or it has the child m.
Kept(h, g, n) ==
    /\ g[n].type = h[n].type /\ g[n].kids = h[n].kids
    /\ \A i \in 1..Len(h[n].kids) :
          /\ g[h[n].kids[i]].type = h[h[n].kids[i]].type
          /\ Untagged(g, h[n].kids[i]) <=> Untagged(h, h[n].kids[i])
          /\ Tagged(g, h[n].kids[i]) <=> Tagged(h, h[n].kids[i])
Grown(h, g, n, m) ==
    /\ g[n].type = h[n].type /\ h[n].kids \in Seq(Nat) /\ m \in Nat
    /\ g[n].kids = Append(h[n].kids, m)
    /\ \A i \in 1..Len(h[n].kids) :
          /\ g[h[n].kids[i]].type = h[h[n].kids[i]].type
          /\ Tagged(g, h[n].kids[i]) <=> Tagged(h, h[n].kids[i])

LEMMA StateKept ==
    ASSUME NEW h, NEW g, NEW n, Kept(h, g, n), NEW q, InState(h, n, q)
    PROVE  InState(g, n, q)
  <1>1. Fits(g, g[n].kids, q.shape)
    BY DEF Kept, InState, Fits
  <1>2. q.type = "AND_OR" => Joined(g, g[n].kids, q.open)
    BY DEF Kept, InState, Joined
  <1> QED BY <1>1, <1>2 DEF InState, Kept

LEMMA BuiltKept ==
    ASSUME NEW h, NEW g, NEW n, Kept(h, g, n), Built(h, n)
    PROVE  Built(g, n)
  BY StateKept DEF Built

LEMMA WaitsKept ==
    ASSUME NEW h, NEW g, NEW n, Kept(h, g, n), NEW P, NEW K, Waits(h, n, P, K)
    PROVE  Waits(g, n, P, K)
  BY StateKept DEF Waits

LEMMA WaitsMore ==
    ASSUME NEW h, NEW n, NEW P, NEW K, NEW L, K \subseteq L, Waits(h, n, P, K)
    PROVE  Waits(h, n, P, L)
  BY DEF Waits

\* A sequence of children and one more.
LEMMA FitsMore ==
    ASSUME NEW h, NEW g, NEW ks \in Seq(Nat), NEW m \in Nat, NEW s, NEW u, NEW c,
           \A i \in 1..Len(ks) : g[ks[i]].type = h[ks[i]].type, g[m].type = c,
           s.first \in Seq(SUBSET NodeType), AddsLater(s, c, u) \/ AddsFirst(s, c, u), Fits(h, ks, s)
    PROVE  Fits(g, Append(ks, m), u)
  <1> DEFINE w == Append(ks, m)
             N == Len(ks)
             F == Len(s.first)
  <1>1. N \in Nat /\ Len(w) = N + 1 /\ w[N + 1] = m /\ \A i \in 1..N : w[i] = ks[i]
    OBVIOUS
  <1>2. F \in Nat /\ s.last = <<>> /\ Len(s.last) = 0
    <2>1. s.last = <<>>
      BY DEF AddsLater, AddsFirst
    <2> QED BY <2>1
  <1> SUFFICES Fits(g, w, u)
    OBVIOUS
  <1> HIDE DEF w, N
  <1>3. N >= F /\ \A i \in 1..N : h[ks[i]].type \in IF i <= F THEN s.first[i] ELSE s.many
    <2>1. N >= F + 0
      BY <1>2 DEF Fits, N
    <2>2. ASSUME NEW i \in 1..N PROVE h[ks[i]].type \in IF i <= F THEN s.first[i] ELSE s.many
      <3>1. ~(i > N - Len(s.last))
        BY <1>1, <1>2
      <3> QED BY <3>1 DEF Fits, N
    <2> QED BY <1>1, <1>2, <2>1, <2>2
  <1>4. \A i \in 1..N : g[w[i]].type \in IF i <= F THEN s.first[i] ELSE s.many
    BY <1>1, <1>3 DEF N
  <1>5. g[w[N + 1]].type = c
    BY <1>1
  <1>6. CASE AddsLater(s, c, u)
    <2>1. u.first = s.first /\ u.many = s.many
      BY <1>6 DEF AddsLater
    <2>2. CASE c \in s.many /\ u.last = <<>>
      <3>1. Len(u.last) = 0
        BY <2>2
      <3>2. ASSUME NEW i \in 1..(N + 1) PROVE ~(i > N + 1 - 0) /\ (i \in 1..N \/ (i = N + 1 /\ ~(i <= F)))
        BY <1>1, <1>2, <1>3
      <3>3. ASSUME NEW i \in 1..(N + 1) PROVE g[w[i]].type \in IF i <= F THEN s.first[i] ELSE s.many
        BY <1>4, <1>5, <2>2, <3>2
      <3>4. N + 1 >= F + 0
        BY <1>1, <1>2, <1>3
      <3> QED BY <1>1, <2>1, <3>1, <3>2, <3>3, <3>4 DEF Fits
    <2>3. CASE \E S \in SUBSET NodeType : c \in S /\ u.last = <<S>>
      <3>1. Len(u.last) = 1 /\ c \in u.last[1]
        BY <2>3
      <3>2. ASSUME NEW i \in 1..(N + 1)
            PROVE  (i \in 1..N /\ ~(i > N + 1 - 1)) \/ (i = N + 1 /\ ~(i <= F) /\ i > N + 1 - 1 /\ i - (N + 1 - 1) = 1)
        BY <1>1, <1>2, <1>3
      <3>3. ASSUME NEW i \in 1..(N + 1)
            PROVE  g[w[i]].type \in IF i <= F THEN s.first[i] ELSE IF i > N + 1 - 1 THEN u.last[i - (N + 1 - 1)] ELSE s.many
        BY <1>4, <1>5, <3>1, <3>2
      <3>4. N + 1 >= F + 1
        BY <1>1, <1>2, <1>3
      <3> QED BY <1>1, <2>1, <3>1, <3>3, <3>4 DEF Fits
    <2> QED BY <1>6, <2>2, <2>3 DEF AddsLater
  <1>7. CASE AddsFirst(s, c, u)
    <2>1. s.many = {} /\ u.last = <<>> /\ Len(u.last) = 0
      <3>1. s.many = {} /\ u.last = <<>>
        BY <1>7 DEF AddsFirst
      <3> QED BY <3>1
    <2>2. PICK S \in SUBSET NodeType : c \in S /\ u.first = Append(s.first, S)
      BY <1>7 DEF AddsFirst
    <2>3. Len(u.first) = F + 1 /\ u.first[F + 1] = S /\ \A i \in 1..F : u.first[i] = s.first[i]
      BY <1>2, <2>2
    <2>4. N = F
      <3> SUFFICES ASSUME N # F PROVE FALSE
        OBVIOUS
      <3>1. N \in 1..N /\ ~(N <= F)
        BY <1>1, <1>2, <1>3
      <3> QED BY <1>3, <2>1, <3>1
    <2>5. ASSUME NEW i \in 1..(N + 1) PROVE i <= F + 1 /\ (i \in 1..N \/ i = N + 1) /\ (i \in 1..N => i <= F /\ i \in 1..F)
      BY <1>1, <1>2, <2>4
    <2> HIDE DEF F
    <2>6. ASSUME NEW i \in 1..(N + 1) PROVE g[w[i]].type \in u.first[i]
      BY <1>4, <1>5, <2>2, <2>3, <2>4, <2>5
    <2>7. N + 1 >= F + 1 + 0
      BY <1>1, <1>2, <2>4
    <2> QED BY <1>1, <2>1, <2>3, <2>5, <2>6, <2>7 DEF Fits
  <1> QED BY <1>6, <1>7

LEMMA StateGrown ==
    ASSUME NEW h, NEW g, NEW n, NEW m, Grown(h, g, n, m), Untagged(g, m),
           NEW q, NEW u, InState(h, n, q), Adds(q, g[m].type, u)
    PROVE  InState(g, n, u)
  <1> DEFINE ks == h[n].kids
             c == g[m].type
             w == Append(ks, m)
  <1>1. ks \in Seq(Nat) /\ m \in Nat /\ g[n].kids = w /\ g[n].type = u.type
    BY DEF Grown, InState, Adds
  <1>2. Fits(g, w, u.shape)
    <2>1. \A i \in 1..Len(ks) : g[ks[i]].type = h[ks[i]].type
      BY DEF Grown
    <2>2. q.shape.first \in Seq(SUBSET NodeType) /\ (AddsLater(q.shape, c, u.shape) \/ AddsFirst(q.shape, c, u.shape))
      BY DEF Adds
    <2>3. Fits(h, ks, q.shape)
      BY DEF InState
    <2> DEFINE s == q.shape
               v == u.shape
    <2> HIDE DEF ks, c, s, v
    <2>4. g[m].type = c /\ s.first \in Seq(SUBSET NodeType) /\ (AddsLater(s, c, v) \/ AddsFirst(s, c, v)) /\ Fits(h, ks, s)
      BY <2>2, <2>3 DEF c, s, v
    <2>5. Fits(g, Append(ks, m), v)
      BY <1>1, <2>1, <2>4, FitsMore
    <2> QED BY <2>5 DEF v
  <1>3. u.type = "AND_OR" => Joined(g, w, u.open)
    <2> SUFFICES ASSUME u.type = "AND_OR" PROVE Joined(g, w, u.open)
      OBVIOUS
    <2>1. q.type = "AND_OR" /\ ~q.open /\ u.open
      BY DEF Adds
    <2>2. \A i \in 1..Len(ks) : Tagged(h, ks[i])
      BY <2>1 DEF InState, Joined
    <2>3. \A i \in 1..Len(ks) : Tagged(g, ks[i])
      BY <2>2 DEF Grown
    <2> HIDE DEF ks
    <2>4. Len(w) = Len(ks) + 1 /\ Len(ks) \in Nat /\ w[Len(ks) + 1] = m /\ \A i \in 1..Len(ks) : w[i] = ks[i]
      BY <1>1
    <2> HIDE DEF w
    <2>5. \A i \in 1..Len(w) : (i \in 1..Len(ks) /\ i # Len(w)) \/ i = Len(ks) + 1
      BY <2>4
    <2> QED BY <2>1, <2>3, <2>4, <2>5 DEF Joined
  <1> HIDE DEF w
  <1> QED BY <1>1, <1>2, <1>3 DEF InState

-----------------------------------------------------------------------------
(* What the calls know, and the invariant.                                   *)

\* Where call i has to get: to a node that is complete, at a token its caller expects.
Goal(a, i) == IF i = 1 THEN Done(AnyToken) ELSE Done(a[i - 1].tokens)

\* The types of the child that a call f, which knows A, has still to give its caller's node.
Due(h, f, A) == IF A.adds # {} THEN A.adds ELSE IF f.local THEN {h[f.own].type} ELSE {}
Pending(s, h, a, i) == IF i = Len(s) THEN {} ELSE Due(h, s[i + 1], a[i + 1])

\* The code of every call leads to its goal; every call but the last has a node of its own, newer
\* than those of the calls below it; and that node is in a state the call knows.
Led(s, a) == \A i \in 1..Len(s) : Leads(s[i].todo, a[i], Goal(a, i))
Placed(s, a) ==
    \A i \in 1..Len(s) :
        IF a[i].adds = {} THEN \A j \in 1..(i - 1) : s[j].own < s[i].own
        ELSE i = Len(s) /\ i > 1 /\ s[i].own = s[i - 1].own /\ ~s[i].local
Stated(s, h, a) ==
    \A i \in 1..Len(s) : a[i].adds = {} => Waits(h, s[i].own, Pending(s, h, a, i), a[i].nodes)
Informed(s, h, t, a) == t \in a[Len(s)].tokens /\ Led(s, a) /\ Placed(s, a) /\ Stated(s, h, a)

\* A node is worked on or complete.
Sound(h, n) ==
    /\ h[n].flags \subseteq FlagsAllowed[h[n].type]
    /\ \A i, j \in 1..Len(h[n].kids) : h[n].kids[i] = h[n].kids[j] => i = j
Owned(s, n) == \E i \in 1..Len(s) : s[i].own = n
Tended(s, h) == \A n \in 1..Len(h) : Sound(h, n) /\ IF Owned(s, n) THEN Untagged(h, n) ELSE Built(h, n)

TreeInv ==
    /\ phase = "parsing" => Tended(stack, heap) /\ \E a : Informed(stack, heap, current_token, a)
    /\ phase = "accepted" => \A n \in 1..Len(heap) : Sound(heap, n) /\ Built(heap, n)

-----------------------------------------------------------------------------
(* What a step of the running call does to what the calls know.              *)

Learned(a, n, C) == [i \in 1..n |-> IF i = n THEN C ELSE a[i]]

\* The running call has a new frame and knows C.
LEMMA TopInformed ==
    ASSUME NEW s, NEW h, NEW g, NEW t, NEW a, NEW z, NEW C, NEW v, Len(s) \in Nat \ {0},
           Informed(s, h, t, a),
           Len(z) = Len(s), \A i \in 1..(Len(s) - 1) : z[i] = s[i],
           v \in C.tokens, Leads(z[Len(s)].todo, C, Goal(a, Len(s))),
           \A i \in 1..(Len(s) - 2) : Kept(h, g, s[i].own),
           Len(s) > 1 => /\ g[s[Len(s) - 1].own].type = h[s[Len(s) - 1].own].type
                         /\ Waits(g, s[Len(s) - 1].own, Due(g, z[Len(s)], C), a[Len(s) - 1].nodes),
           IF C.adds = {} THEN Waits(g, z[Len(s)].own, {}, C.nodes) /\ \A j \in 1..(Len(s) - 1) : s[j].own < z[Len(s)].own
           ELSE Len(s) > 1 /\ z[Len(s)].own = s[Len(s) - 1].own /\ ~z[Len(s)].local
    PROVE  Informed(z, g, v, Learned(a, Len(s), C))
  <1> DEFINE N == Len(s)
             b == Learned(a, N, C)
             f == z[N]
  <1>1. N \in Nat \ {0} /\ b[N] = C /\ \A i \in 1..N : i # N => b[i] = a[i]
    BY DEF Learned
  <1>z. \A i \in 1..N : i # N => z[i] = s[i]
    OBVIOUS
  <1> HIDE DEF b
  <1>2. \A i \in 1..N : Goal(b, i) = Goal(a, i)
    <2> SUFFICES ASSUME NEW i \in 1..N PROVE Goal(b, i) = Goal(a, i)
      OBVIOUS
    <2>1. i # 1 => i - 1 \in 1..N /\ i - 1 # N
      BY <1>1
    <2> QED BY <1>1, <2>1 DEF Goal
  <1>3. \A i \in 1..N : i # N => a[i].adds = {}
    BY DEF Informed, Placed
  <1>4. Led(z, b)
    <2> SUFFICES ASSUME NEW i \in 1..N PROVE Leads(z[i].todo, b[i], Goal(b, i))
      BY DEF Led
    <2>1. Leads(s[i].todo, a[i], Goal(a, i))
      BY DEF Informed, Led
    <2>2. CASE i = N
      BY <1>1, <1>2, <2>2
    <2>3. CASE i # N
      <3>1. z[i] = s[i] /\ b[i] = a[i]
        BY <1>1, <1>z, <2>3
      <3> QED BY <1>2, <2>1, <3>1
    <2> QED BY <2>2, <2>3
  <1>5. Placed(z, b)
    <2> SUFFICES ASSUME NEW i \in 1..N
                 PROVE  IF b[i].adds = {} THEN \A j \in 1..(i - 1) : z[j].own < z[i].own
                        ELSE i = N /\ i > 1 /\ z[i].own = z[i - 1].own /\ ~z[i].local
      BY DEF Placed
    <2>1. \A j \in 1..(i - 1) : j \in 1..N /\ j # N
      BY <1>1
    <2>2. CASE i = N
      <3>1. z[i] = f /\ b[i] = C /\ \A j \in 1..(i - 1) : z[j] = s[j]
        BY <1>1, <1>z, <2>1, <2>2
      <3>2. N > 1 => N - 1 \in 1..(N - 1)
        BY <1>1
      <3> QED BY <2>2, <3>1, <3>2
    <2>3. CASE i # N
      <3>1. z[i] = s[i] /\ b[i] = a[i] /\ a[i].adds = {} /\ \A j \in 1..(i - 1) : z[j] = s[j]
        BY <1>1, <1>3, <1>z, <2>1, <2>3
      <3>2. \A j \in 1..(i - 1) : s[j].own < s[i].own
        BY <3>1 DEF Informed, Placed
      <3> QED BY <3>1, <3>2
    <2> QED BY <2>2, <2>3
  <1>6. Stated(z, g, b)
    <2> SUFFICES ASSUME NEW i \in 1..N, b[i].adds = {}
                 PROVE  Waits(g, z[i].own, Pending(z, g, b, i), b[i].nodes)
      BY DEF Stated
    <2>1. CASE i = N
      BY <1>1, <2>1 DEF Pending
    <2>2. CASE i = N - 1
      <3>1. N > 1 /\ i # N /\ i + 1 = N
        BY <1>1, <2>2
      <3>2. z[i] = s[i] /\ b[i] = a[i] /\ z[i + 1] = f /\ b[i + 1] = C
        BY <1>1, <1>z, <3>1
      <3>3. Pending(z, g, b, i) = Due(g, f, C)
        BY <3>1, <3>2 DEF Pending
      <3> QED BY <2>2, <3>1, <3>2, <3>3
    <2>3. CASE i \in 1..(N - 2)
      <3>1. i # N /\ i + 1 \in 1..N /\ i + 1 # N
        BY <1>1, <2>3
      <3>2. z[i] = s[i] /\ b[i] = a[i] /\ z[i + 1] = s[i + 1] /\ b[i + 1] = a[i + 1] /\ a[i].adds = {}
        BY <1>1, <1>3, <1>z, <3>1
      <3>3. g[s[i + 1].own].type = h[s[i + 1].own].type
        <4>1. i + 1 \in 1..(N - 2) \/ (i + 1 = N - 1 /\ N > 1)
          BY <1>1, <2>3
        <4> QED BY <4>1 DEF Kept
      <3>4. Pending(z, g, b, i) = Pending(s, h, a, i)
        BY <3>1, <3>2, <3>3 DEF Pending, Due
      <3>5. Waits(h, s[i].own, Pending(s, h, a, i), a[i].nodes)
        BY <3>2 DEF Informed, Stated
      <3> QED BY <2>3, <3>2, <3>4, <3>5, WaitsKept
    <2>4. i = N \/ i = N - 1 \/ i \in 1..(N - 2)
      BY <1>1
    <2> QED BY <2>1, <2>2, <2>3, <2>4
  <1> QED BY <1>1, <1>4, <1>5, <1>6 DEF Informed, b

\* The heap is as it was, and the call has the node it had.
LEMMA TopGoesOn ==
    ASSUME NEW s, NEW h, NEW t, NEW a, NEW z, NEW C, NEW v, Len(s) \in Nat \ {0},
           Informed(s, h, t, a),
           Len(z) = Len(s), \A i \in 1..(Len(s) - 1) : z[i] = s[i],
           v \in C.tokens, Leads(z[Len(s)].todo, C, Goal(a, Len(s))),
           z[Len(s)].own = s[Len(s)].own, z[Len(s)].local = s[Len(s)].local, C.adds = a[Len(s)].adds,
           C.adds = {} => Waits(h, z[Len(s)].own, {}, C.nodes)
    PROVE  Informed(z, h, v, Learned(a, Len(s), C))
  <1> DEFINE N == Len(s)
             f == z[N]
  <1>1. N \in 1..N /\ (N > 1 => N - 1 \in 1..N /\ N - 1 # N /\ N - 1 + 1 = N)
    OBVIOUS
  <1>2. \A n : Kept(h, h, n)
    BY DEF Kept
  <1>3. N > 1 => Waits(h, s[N - 1].own, Due(h, f, C), a[N - 1].nodes)
    <2> SUFFICES ASSUME N > 1 PROVE Waits(h, s[N - 1].own, Due(h, f, C), a[N - 1].nodes)
      OBVIOUS
    <2>1. a[N - 1].adds = {}
      BY <1>1 DEF Informed, Placed
    <2>2. Waits(h, s[N - 1].own, Pending(s, h, a, N - 1), a[N - 1].nodes)
      BY <1>1, <2>1 DEF Informed, Stated
    <2>3. Pending(s, h, a, N - 1) = Due(h, f, C)
      BY <1>1 DEF Pending, Due
    <2> QED BY <2>2, <2>3
  <1>4. IF C.adds = {} THEN \A j \in 1..(N - 1) : s[j].own < f.own
        ELSE N > 1 /\ f.own = s[N - 1].own /\ ~f.local
    BY <1>1 DEF Informed, Placed
  <1> QED BY <1>2, <1>3, <1>4, TopInformed

\* What the running call knows, and what its next instruction makes of it.
LEMMA TopNext ==
    ASSUME NEW s, NEW h, NEW t, NEW a, Len(s) \in Nat \ {0}, Informed(s, h, t, a)
    PROVE  LET c == s[Len(s)].todo
               B == Goal(a, Len(s))
           IN  \E X :
                 /\ t \in X.tokens /\ X.adds = a[Len(s)].adds
                 /\ X.adds = {} => Waits(h, s[Len(s)].own, {}, X.nodes)
                 /\ IF c = <<>> THEN Leq(X, B)
                    ELSE IF Head(c).op \in {"if", "ifPeek"}
                     THEN /\ Leads(Head(c).then \o Tail(c), Restrict1(X, Head(c), X.tokens \cap Head(c).tokens), B)
                          /\ Leads(Head(c).else \o Tail(c), Restrict1(X, Head(c), X.tokens \ Head(c).tokens), B)
                     ELSE \E C : Does1(X, Head(c), C) /\ Leads(Tail(c), C, B)
  <1> DEFINE N == Len(s)
             c == s[N].todo
             B == Goal(a, N)
             A == a[N]
  <1>1. N \in 1..N
    OBVIOUS
  <1>2. t \in A.tokens /\ Leads(c, A, B)
    BY <1>1 DEF Informed, Led
  <1>3. A.adds = {} => Waits(h, s[N].own, {}, A.nodes)
    BY <1>1 DEF Informed, Stated, Pending
  <1> HIDE DEF c, B, A
  <1>4. PICK X : /\ Leq(A, X)
                 /\ IF c = <<>> THEN Leq(X, B)
                    ELSE IF Head(c).op \in {"if", "ifPeek"}
                     THEN /\ Leads(Head(c).then \o Tail(c), Restrict1(X, Head(c), X.tokens \cap Head(c).tokens), B)
                          /\ Leads(Head(c).else \o Tail(c), Restrict1(X, Head(c), X.tokens \ Head(c).tokens), B)
                     ELSE \E C : Does1(X, Head(c), C) /\ Leads(Tail(c), C, B)
    BY <1>2, LeadsNext
  <1>5. t \in X.tokens /\ X.adds = A.adds /\ (X.adds = {} => Waits(h, s[N].own, {}, X.nodes))
    BY <1>2, <1>3, <1>4, WaitsMore DEF Leq
  <1> QED BY <1>4, <1>5 DEF c, B, A

-----------------------------------------------------------------------------
(* The steps that leave the heap alone.                                      *)

LEMMA StackSet ==
    ASSUME ParserInv, phase = "parsing", stack # <<>>, NEW f, stack' = SetTop(f)
    PROVE  /\ Len(stack) \in Nat \ {0} /\ Len(stack') = Len(stack)
           /\ \A i \in 1..(Len(stack) - 1) : stack'[i] = stack[i]
           /\ stack'[Len(stack)] = f
  <1>1. stack \in Seq(CallFrame) /\ Len(stack) \in Nat \ {0} /\ Len(stack) \in 1..Len(stack)
    BY TopIs
  <1> DEFINE S == CallFrame \cup {f}
  <1>2. stack \in Seq(S) /\ f \in S
    BY <1>1
  <1> HIDE DEF S
  <1>3. stack' = [stack EXCEPT ![Len(stack)] = f]
    BY DEF SetTop
  <1>4. Len(stack') = Len(stack) /\ \A i \in 1..Len(stack) : stack'[i] = IF i = Len(stack) THEN f ELSE stack[i]
    BY <1>1, <1>2, <1>3, ExceptSeq
  <1> QED BY <1>1, <1>4

\* What the running call knows when it has an instruction to do.
LEMMA Knows ==
    ASSUME ParserInv, TreeInv, phase = "parsing", stack # <<>>, Top.todo # <<>>
    PROVE  \E a, X :
             /\ Informed(stack, heap, current_token, a)
             /\ current_token \in X.tokens /\ X.adds = a[Len(stack)].adds
             /\ X.adds = {} => Waits(heap, Top.own, {}, X.nodes)
             /\ IF Instr.op \in {"if", "ifPeek"}
                THEN /\ Leads(Instr.then \o Tail(Top.todo), Restrict1(X, Instr, X.tokens \cap Instr.tokens),
                              Goal(a, Len(stack)))
                     /\ Leads(Instr.else \o Tail(Top.todo), Restrict1(X, Instr, X.tokens \ Instr.tokens),
                              Goal(a, Len(stack)))
                ELSE \E C : Does1(X, Instr, C) /\ Leads(Tail(Top.todo), C, Goal(a, Len(stack)))
  <1>1. PICK a : Informed(stack, heap, current_token, a)
    BY DEF TreeInv
  <1>2. Len(stack) \in Nat \ {0} /\ Top = stack[Len(stack)]
    BY TopIs
  <1> DEFINE c == stack[Len(stack)].todo
             B == Goal(a, Len(stack))
  <1>3. PICK X :
          /\ current_token \in X.tokens /\ X.adds = a[Len(stack)].adds
          /\ X.adds = {} => Waits(heap, stack[Len(stack)].own, {}, X.nodes)
          /\ IF c = <<>> THEN Leq(X, B)
             ELSE IF Head(c).op \in {"if", "ifPeek"}
             THEN /\ Leads(Head(c).then \o Tail(c), Restrict1(X, Head(c), X.tokens \cap Head(c).tokens), B)
                  /\ Leads(Head(c).else \o Tail(c), Restrict1(X, Head(c), X.tokens \ Head(c).tokens), B)
             ELSE \E C : Does1(X, Head(c), C) /\ Leads(Tail(c), C, B)
    BY <1>1, <1>2, TopNext
  <1>4. c = Top.todo /\ Head(c) = Instr
    BY <1>2 DEF Instr
  <1> HIDE DEF c
  <1>5. IF Instr.op \in {"if", "ifPeek"}
        THEN /\ Leads(Instr.then \o Tail(Top.todo), Restrict1(X, Instr, X.tokens \cap Instr.tokens), B)
             /\ Leads(Instr.else \o Tail(Top.todo), Restrict1(X, Instr, X.tokens \ Instr.tokens), B)
        ELSE \E C : Does1(X, Instr, C) /\ Leads(Tail(Top.todo), C, B)
    BY <1>3, <1>4
  <1> HIDE DEF B
  <1>6. X.adds = {} => Waits(heap, Top.own, {}, X.nodes)
    BY <1>2, <1>3
  <1> QED BY <1>1, <1>3, <1>5, <1>6 DEF B

\* The owners of nodes are as they were when the running call has the node it had.
LEMMA OwnersKept ==
    ASSUME NEW s, NEW z, Len(s) \in Nat \ {0}, Len(z) = Len(s), \A i \in 1..(Len(s) - 1) : z[i] = s[i],
           z[Len(s)].own = s[Len(s)].own
    PROVE  \A n : Owned(z, n) <=> Owned(s, n)
  <1>1. \A i \in 1..Len(s) : z[i].own = s[i].own
    <2> SUFFICES ASSUME NEW i \in 1..Len(s) PROVE z[i].own = s[i].own
      OBVIOUS
    <2>1. i = Len(s) \/ i \in 1..(Len(s) - 1)
      OBVIOUS
    <2> QED BY <2>1
  <1> QED BY <1>1 DEF Owned

LEMMA HeapKept ==
    ASSUME ParserInv, TreeInv, phase = "parsing", stack # <<>>, heap' = heap, phase' \in {"parsing", "failing"},
           NEW f, stack' = SetTop(f), f.own = Top.own, f.local = Top.local,
           NEW a, Informed(stack, heap, current_token, a),
           NEW C, current_token' \in C.tokens, Leads(f.todo, C, Goal(a, Len(stack))),
           C.adds = a[Len(stack)].adds, C.adds = {} => Waits(heap, Top.own, {}, C.nodes)
    PROVE  TreeInv'
  <1>1. /\ Len(stack) \in Nat \ {0} /\ Len(stack') = Len(stack)
        /\ \A i \in 1..(Len(stack) - 1) : stack'[i] = stack[i]
        /\ stack'[Len(stack)] = f
    BY StackSet
  <1>2. Top = stack[Len(stack)]
    BY DEF Top
  <1>3. Informed(stack', heap, current_token', Learned(a, Len(stack), C))
    BY <1>1, <1>2, TopGoesOn
  <1>4. Tended(stack', heap)
    <2>1. \A n : Owned(stack', n) <=> Owned(stack, n)
      BY <1>1, <1>2, OwnersKept
    <2>2. Tended(stack, heap)
      BY DEF TreeInv
    <2> QED BY <2>1, <2>2 DEF Tended
  <1> QED BY <1>3, <1>4 DEF TreeInv

LEMMA ProceedsTo ==
    ASSUME ParserInv, phase = "parsing", stack # <<>>
    PROVE  Proceed.todo = Tail(Top.todo) /\ Proceed.own = Top.own /\ Proceed.local = Top.local
  <1>1. Top \in CallFrame
    BY TopIs
  <1>2. Proceed = [todo |-> Tail(Top.todo), own |-> Top.own, local |-> Top.local]
    BY <1>1, Changed DEF Proceed
  <1> QED BY <1>2

LEMMA FailsKeepsTree == ASSUME phase' \notin {"parsing", "accepted"} PROVE TreeInv'
  BY DEF TreeInv

LEMMA TokenIs ==
    ASSUME ParserInv
    PROVE  current_token \in AnyToken
  <1>1. input \in Seq(Token) /\ pos \in 1..(Len(input) + 1)
    BY DEF ParserInv
  <1>2. pos <= Len(input) => input[pos] \in Token
    BY <1>1
  <1> QED BY <1>2 DEF current_token, At, AnyToken

LEMMA AdvanceFits == ParserInv /\ ParserInv' /\ TreeInv /\ AdvanceTokens => TreeInv'
  <1> SUFFICES ASSUME ParserInv, ParserInv', TreeInv, AdvanceTokens PROVE TreeInv'
    OBVIOUS
  <1>1. /\ phase = "parsing" /\ stack # <<>> /\ Top.todo # <<>> /\ Instr.op = "advance"
        /\ heap' = heap /\ stack' = SetTop(Proceed) /\ phase' \in {"parsing", "failing"}
    BY DEF AdvanceTokens, Does, Instr
  <1>2. PICK a, X : /\ Informed(stack, heap, current_token, a)
                    /\ current_token \in X.tokens /\ X.adds = a[Len(stack)].adds
                    /\ X.adds = {} => Waits(heap, Top.own, {}, X.nodes)
                    /\ \E C : Does1(X, Instr, C) /\ Leads(Tail(Top.todo), C, Goal(a, Len(stack)))
    BY <1>1, Knows
  <1>3. PICK C : Does1(X, Instr, C) /\ Leads(Tail(Top.todo), C, Goal(a, Len(stack)))
    BY <1>2
  <1>4. Leq(Know(X.adds, X.nodes, AnyToken), C)
    BY <1>1, <1>3 DEF Does1
  <1>5. current_token' \in AnyToken
    <2>1. input' \in Seq(Token) /\ pos' \in 1..(Len(input') + 1)
      BY DEF ParserInv
    <2>2. pos' <= Len(input') => input'[pos'] \in Token
      BY <2>1
    <2> QED BY <2>2 DEF current_token, At, AnyToken
  <1>6. C.adds = X.adds /\ X.nodes \subseteq C.nodes /\ current_token' \in C.tokens
    BY <1>4, <1>5 DEF Leq, Know
  <1>7. C.adds = {} => Waits(heap, Top.own, {}, C.nodes)
    BY <1>2, <1>6, WaitsMore
  <1>8. Proceed.todo = Tail(Top.todo) /\ Proceed.own = Top.own /\ Proceed.local = Top.local
    BY <1>1, ProceedsTo
  <1> HIDE DEF Proceed
  <1> QED BY <1>1, <1>2, <1>3, <1>6, <1>7, <1>8, HeapKept

LEMMA NeedFits == ParserInv /\ TreeInv /\ NeedToken => TreeInv'
  <1> SUFFICES ASSUME ParserInv, TreeInv, NeedToken PROVE TreeInv'
    OBVIOUS
  <1>1. /\ phase = "parsing" /\ stack # <<>> /\ Top.todo # <<>> /\ Instr.op = "need"
        /\ heap' = heap /\ current_token' = current_token
    BY DEF NeedToken, Does, Instr, current_token, At
  <1>2. CASE phase' = "failing"
    BY <1>2, FailsKeepsTree
  <1>3. CASE current_token \in Instr.tokens /\ stack' = SetTop(Proceed) /\ phase' = phase
    <2>1. PICK a, X : /\ Informed(stack, heap, current_token, a)
                      /\ current_token \in X.tokens /\ X.adds = a[Len(stack)].adds
                      /\ X.adds = {} => Waits(heap, Top.own, {}, X.nodes)
                      /\ \E C : Does1(X, Instr, C) /\ Leads(Tail(Top.todo), C, Goal(a, Len(stack)))
      BY <1>1, Knows
    <2>2. PICK C : Does1(X, Instr, C) /\ Leads(Tail(Top.todo), C, Goal(a, Len(stack)))
      BY <2>1
    <2>3. Leq(Know(X.adds, X.nodes, X.tokens \cap Instr.tokens), C)
      BY <1>1, <2>2 DEF Does1
    <2>4. C.adds = X.adds /\ X.nodes \subseteq C.nodes /\ current_token' \in C.tokens
      BY <1>1, <1>3, <2>1, <2>3 DEF Leq, Know
    <2>5. C.adds = {} => Waits(heap, Top.own, {}, C.nodes)
      BY <2>1, <2>4, WaitsMore
    <2>6. Proceed.todo = Tail(Top.todo) /\ Proceed.own = Top.own /\ Proceed.local = Top.local
      BY <1>1, ProceedsTo
    <2> QED BY <1>1, <1>3, <2>1, <2>2, <2>4, <2>5, <2>6, HeapKept
  <1> QED BY <1>2, <1>3 DEF NeedToken

\* A node with children is not in a state without.
LEMMA ChildrenFit ==
    ASSUME NEW h, NEW n, NEW q, h[n].kids \in Seq(Nat), h[n].kids # <<>>, InState(h, n, q)
    PROVE  q.shape # Plain(<<>>)
  <1> DEFINE N == Len(h[n].kids)
  <1> SUFFICES ASSUME q.shape = Plain(<<>>) PROVE FALSE
    OBVIOUS
  <1>1. q.shape.first = <<>> /\ q.shape.last = <<>> /\ q.shape.many = {}
    BY DEF Plain
  <1>2. N \in Nat \ {0} /\ 1 \in 1..N /\ Len(<<>>) = 0
    BY EmptySeq
  <1> HIDE DEF N
  <1>3. ~(1 <= 0) /\ ~(1 > N - 0)
    BY <1>2
  <1> QED BY <1>1, <1>2, <1>3 DEF InState, Fits, N

LEMMA NeedChildrenFits == ParserInv /\ TreeInv /\ NeedChildren => TreeInv'
  <1> SUFFICES ASSUME ParserInv, TreeInv, NeedChildren PROVE TreeInv'
    OBVIOUS
  <1>1. /\ phase = "parsing" /\ stack # <<>> /\ Top.todo # <<>> /\ Instr.op = "needChild"
        /\ heap' = heap /\ current_token' = current_token
    BY DEF NeedChildren, Does, Instr, current_token, At
  <1>2. CASE phase' = "failing"
    BY <1>2, FailsKeepsTree
  <1>3. CASE heap[Top.own].kids # <<>> /\ stack' = SetTop(Proceed) /\ phase' = phase
    <2>1. PICK a, X : /\ Informed(stack, heap, current_token, a)
                      /\ current_token \in X.tokens /\ X.adds = a[Len(stack)].adds
                      /\ X.adds = {} => Waits(heap, Top.own, {}, X.nodes)
                      /\ \E C : Does1(X, Instr, C) /\ Leads(Tail(Top.todo), C, Goal(a, Len(stack)))
      BY <1>1, Knows
    <2>2. PICK C : Does1(X, Instr, C) /\ Leads(Tail(Top.todo), C, Goal(a, Len(stack)))
      BY <2>1
    <2> DEFINE K == {s \in X.nodes : s.shape # Plain(<<>>)}
    <2>3. X.adds = {} /\ Leq(Know({}, K, X.tokens), C)
      BY <1>1, <2>2 DEF Does1
    <2>4. Waits(heap, Top.own, {}, K)
      <3>1. PICK q \in X.nodes : InState(heap, Top.own, q)
        BY <2>1, <2>3 DEF Waits
      <3>2. heap[Top.own].kids \in Seq(Nat)
        <4>1. Top.own \in 1..Len(heap) /\ heap \in Seq(Node)
          BY <1>1, TopIs DEF ParserInv, IsHeap
        <4>2. heap[Top.own] \in Node
          BY <4>1, ElementOfSeq
        <4> QED BY <4>2 DEF Node
      <3>3. q.shape # Plain(<<>>)
        BY <1>3, <3>1, <3>2, ChildrenFit
      <3> QED BY <3>1, <3>3 DEF Waits
    <2> HIDE DEF K
    <2>5. C.adds = X.adds /\ K \subseteq C.nodes /\ current_token' \in C.tokens
      BY <1>1, <2>1, <2>3 DEF Leq, Know
    <2>6. C.adds = {} => Waits(heap, Top.own, {}, C.nodes)
      BY <2>4, <2>5, WaitsMore
    <2>7. Proceed.todo = Tail(Top.todo) /\ Proceed.own = Top.own /\ Proceed.local = Top.local
      BY <1>1, ProceedsTo
    <2> QED BY <1>1, <1>3, <2>1, <2>2, <2>5, <2>6, <2>7, HeapKept
  <1> QED BY <1>2, <1>3 DEF NeedChildren

LEMMA BranchFits == ParserInv /\ TreeInv /\ Branch => TreeInv'
  <1> SUFFICES ASSUME ParserInv, TreeInv, Branch PROVE TreeInv'
    OBVIOUS
  <1>1. /\ phase = "parsing" /\ stack # <<>> /\ Top.todo # <<>> /\ Instr.op \in {"if", "ifPeek", "go"}
        /\ heap' = heap /\ phase' = phase /\ current_token' = current_token
    BY DEF Branch, Does, Instr, current_token, At
  <1>2. PICK a, X :
          /\ Informed(stack, heap, current_token, a)
          /\ current_token \in X.tokens /\ X.adds = a[Len(stack)].adds
          /\ X.adds = {} => Waits(heap, Top.own, {}, X.nodes)
          /\ IF Instr.op \in {"if", "ifPeek"}
             THEN /\ Leads(Instr.then \o Tail(Top.todo), Restrict1(X, Instr, X.tokens \cap Instr.tokens),
                           Goal(a, Len(stack)))
                  /\ Leads(Instr.else \o Tail(Top.todo), Restrict1(X, Instr, X.tokens \ Instr.tokens),
                           Goal(a, Len(stack)))
             ELSE \E C : Does1(X, Instr, C) /\ Leads(Tail(Top.todo), C, Goal(a, Len(stack)))
    BY <1>1, Knows
  <1>3. \E is, C : /\ stack' = Instead(is) /\ Leads(is \o Tail(Top.todo), C, Goal(a, Len(stack)))
                   /\ current_token \in C.tokens /\ C.adds = X.adds /\ C.nodes = X.nodes
    <2>1. CASE Instr.op = "if"
      <3>1. \A ts : /\ Restrict1(X, Instr, ts).adds = X.adds /\ Restrict1(X, Instr, ts).nodes = X.nodes
                    /\ Restrict1(X, Instr, ts).tokens = ts
        BY <2>1 DEF Restrict1, Know
      <3>2. stack' = Instead(IF current_token \in Instr.tokens THEN Instr.then ELSE Instr.else)
        BY <2>1 DEF Branch, Does, Instr
      <3>3. CASE current_token \in Instr.tokens
        <4> DEFINE C == Restrict1(X, Instr, X.tokens \cap Instr.tokens)
        <4>1. stack' = Instead(Instr.then) /\ current_token \in C.tokens /\ C.adds = X.adds /\ C.nodes = X.nodes
          BY <1>2, <3>1, <3>2, <3>3
        <4>2. Leads(Instr.then \o Tail(Top.todo), C, Goal(a, Len(stack)))
          BY <1>2, <2>1
        <4> HIDE DEF C
        <4> QED BY <4>1, <4>2
      <3>4. CASE current_token \notin Instr.tokens
        <4> DEFINE C == Restrict1(X, Instr, X.tokens \ Instr.tokens)
        <4>1. stack' = Instead(Instr.else) /\ current_token \in C.tokens /\ C.adds = X.adds /\ C.nodes = X.nodes
          BY <1>2, <3>1, <3>2, <3>4
        <4>2. Leads(Instr.else \o Tail(Top.todo), C, Goal(a, Len(stack)))
          BY <1>2, <2>1
        <4> HIDE DEF C
        <4> QED BY <4>1, <4>2
      <3> QED BY <3>3, <3>4
    <2>2. CASE Instr.op = "ifPeek"
      <3>1. \A ts : Restrict1(X, Instr, ts) = X
        BY <2>2 DEF Restrict1
      <3>2. stack' = Instead(Instr.then) \/ stack' = Instead(Instr.else)
        BY <2>2 DEF Branch, Does, Instr
      <3>3. /\ Leads(Instr.then \o Tail(Top.todo), X, Goal(a, Len(stack)))
            /\ Leads(Instr.else \o Tail(Top.todo), X, Goal(a, Len(stack)))
        BY <1>2, <2>2, <3>1
      <3> QED BY <1>2, <3>2, <3>3
    <2>3. CASE Instr.op = "go"
      <3>1. stack' = Instead(Body[Instr.to])
        BY <2>3 DEF Branch, Does, Instr
      <3>2. PICK C : Does1(X, Instr, C) /\ Leads(Tail(Top.todo), C, Goal(a, Len(stack)))
        BY <1>2, <2>3
      <3>3. Goes(Instr.to, X, C)
        BY <2>3, <3>2 DEF Does1
      <3>4. Leads(Body[Instr.to], X, C)
        BY <3>3, GoesLead
      <3>5. Leads(Body[Instr.to] \o Tail(Top.todo), X, Goal(a, Len(stack)))
        BY <3>2, <3>4, LeadsOn
      <3> QED BY <1>2, <3>1, <3>5
    <2> QED BY <1>1, <2>1, <2>2, <2>3
  <1>4. PICK is, C : /\ stack' = Instead(is) /\ Leads(is \o Tail(Top.todo), C, Goal(a, Len(stack)))
                     /\ current_token \in C.tokens /\ C.adds = X.adds /\ C.nodes = X.nodes
    BY <1>3
  <1> DEFINE f == [Top EXCEPT !.todo = is \o Tail(@)]
  <1>5. f.todo = is \o Tail(Top.todo) /\ f.own = Top.own /\ f.local = Top.local
    <2> DEFINE w == is \o Tail(Top.todo)
    <2>1. Top \in CallFrame
      BY <1>1, TopIs
    <2>2. f = [Top EXCEPT !.todo = w]
      OBVIOUS
    <2> HIDE DEF w, f
    <2>3. f = [todo |-> w, own |-> Top.own, local |-> Top.local]
      BY <2>1, <2>2, Changed
    <2> QED BY <2>3 DEF w
  <1>6. stack' = SetTop(f)
    BY <1>4 DEF Instead
  <1> HIDE DEF f
  <1>7. Leads(f.todo, C, Goal(a, Len(stack))) /\ current_token' \in C.tokens /\ C.adds = a[Len(stack)].adds
    BY <1>1, <1>2, <1>4, <1>5
  <1>8. C.adds = {} => Waits(heap, Top.own, {}, C.nodes)
    BY <1>2, <1>4
  <1> QED BY <1>1, <1>2, <1>5, <1>6, <1>7, <1>8, HeapKept

\* A new call, which is to give its caller's node a child.
LEMMA NewCall ==
    ASSUME NEW s, NEW h, NEW t, NEW a, NEW z, NEW C, NEW D, NEW v, Len(s) \in Nat \ {0},
           Informed(s, h, t, a), a[Len(s)].adds = {}, C.adds = {}, D.adds # {},
           Len(z) = Len(s) + 1, \A i \in 1..(Len(s) - 1) : z[i] = s[i],
           z[Len(s)].own = s[Len(s)].own, z[Len(s)].local = s[Len(s)].local,
           z[Len(s) + 1].own = s[Len(s)].own, ~z[Len(s) + 1].local,
           Leads(z[Len(s)].todo, C, Goal(a, Len(s))), Leads(z[Len(s) + 1].todo, D, Done(C.tokens)),
           v \in D.tokens, Waits(h, s[Len(s)].own, D.adds, C.nodes)
    PROVE  Informed(z, h, v, Learned(Learned(a, Len(s), C), Len(s) + 1, D))
  <1> DEFINE N == Len(s)
             b == Learned(Learned(a, N, C), N + 1, D)
  <1>1. N \in Nat \ {0} /\ N \in 1..N /\ b[N + 1] = D /\ b[N] = C /\ \A i \in 1..(N - 1) : b[i] = a[i]
    BY DEF Learned
  <1>2. \A i \in 1..(N + 1) : i \in 1..(N - 1) \/ i = N \/ i = N + 1
    OBVIOUS
  <1> HIDE DEF b
  <1>3. Led(z, b)
    <2> SUFFICES ASSUME NEW i \in 1..(N + 1) PROVE Leads(z[i].todo, b[i], Goal(b, i))
      BY DEF Led
    <2>1. CASE i = N + 1
      <3>1. Goal(b, i) = Done(C.tokens)
        BY <1>1, <2>1 DEF Goal
      <3> QED BY <1>1, <2>1, <3>1
    <2>2. i \in 1..N => Goal(b, i) = Goal(a, i)
      <3>1. i \in 1..N /\ i # 1 => i - 1 \in 1..(N - 1)
        BY <1>1
      <3> QED BY <1>1, <3>1 DEF Goal
    <2>3. CASE i = N
      BY <1>1, <2>2, <2>3
    <2>4. CASE i \in 1..(N - 1)
      <3>1. i \in 1..N
        BY <2>4
      <3> QED BY <1>1, <2>2, <2>4, <3>1 DEF Informed, Led
    <2> QED BY <1>2, <2>1, <2>3, <2>4
  <1>4. Placed(z, b)
    <2> SUFFICES ASSUME NEW i \in 1..(N + 1)
                 PROVE  IF b[i].adds = {} THEN \A j \in 1..(i - 1) : z[j].own < z[i].own
                        ELSE i = N + 1 /\ i > 1 /\ z[i].own = z[i - 1].own /\ ~z[i].local
      BY DEF Placed
    <2>1. CASE i = N + 1
      <3>1. N + 1 > 1 /\ N + 1 - 1 = N
        BY <1>1
      <3> QED BY <1>1, <2>1, <3>1
    <2>2. CASE i = N
      <3>1. \A j \in 1..(N - 1) : s[j].own < s[N].own
        BY <1>1 DEF Informed, Placed
      <3> QED BY <1>1, <2>2, <3>1
    <2>3. CASE i \in 1..(N - 1)
      <3>1. i \in 1..N /\ i # N /\ \A j \in 1..(i - 1) : j \in 1..(N - 1)
        BY <1>1, <2>3
      <3>2. a[i].adds = {} /\ \A j \in 1..(i - 1) : s[j].own < s[i].own
        BY <3>1 DEF Informed, Placed
      <3> QED BY <1>1, <2>3, <3>1, <3>2
    <2> QED BY <1>2, <2>1, <2>2, <2>3
  <1>5. Stated(z, h, b)
    <2> SUFFICES ASSUME NEW i \in 1..(N + 1), b[i].adds = {}
                 PROVE  Waits(h, z[i].own, Pending(z, h, b, i), b[i].nodes)
      BY DEF Stated
    <2>1. CASE i = N
      <3>1. Pending(z, h, b, i) = D.adds
        BY <1>1, <2>1 DEF Pending, Due
      <3> QED BY <1>1, <2>1, <3>1
    <2>2. CASE i \in 1..(N - 1)
      <3>1. i \in 1..N /\ i # N /\ i # N + 1 /\ i + 1 \in 1..N /\ (i + 1 = N \/ i + 1 \in 1..(N - 1))
        BY <1>1, <2>2
      <3>2. /\ z[i + 1].own = s[i + 1].own /\ z[i + 1].local = s[i + 1].local /\ b[i + 1].adds = a[i + 1].adds
        BY <1>1, <3>1
      <3>3. Pending(z, h, b, i) = Pending(s, h, a, i)
        BY <3>1, <3>2 DEF Pending, Due
      <3>4. a[i].adds = {}
        BY <3>1 DEF Informed, Placed
      <3>5. Waits(h, s[i].own, Pending(s, h, a, i), a[i].nodes)
        BY <3>1, <3>4 DEF Informed, Stated
      <3> QED BY <1>1, <2>2, <3>3, <3>5
    <2>3. i # N + 1
      BY <1>1
    <2> QED BY <1>2, <2>1, <2>2, <2>3
  <1>6. v \in b[N + 1].tokens
    BY <1>1
  <1> QED BY <1>3, <1>4, <1>5, <1>6 DEF Informed, b

LEMMA MakesSome == \A p \in Makers : Makes[p] # {}
  <1>1. Command # {} /\ Compound # {}
    BY DEF Command, Compound
  <1> QED BY <1>1 DEF Makers, Makes

LEMMA CallFits == ParserInv /\ TreeInv /\ CallFunction => TreeInv'
  <1> SUFFICES ASSUME ParserInv, TreeInv, CallFunction PROVE TreeInv'
    OBVIOUS
  <1> DEFINE u == SetTop(Proceed)
             f == Frame(Instr.to, Top.own)
             N == Len(stack)
  <1>1. /\ phase = "parsing" /\ stack # <<>> /\ Top.todo # <<>> /\ Instr.op = "call"
        /\ heap' = heap /\ phase' = phase /\ current_token' = current_token /\ stack' = Append(u, f)
    BY DEF CallFunction, Does, Instr, current_token, At
  <1>2. PICK a, X : /\ Informed(stack, heap, current_token, a)
                    /\ current_token \in X.tokens /\ X.adds = a[N].adds
                    /\ X.adds = {} => Waits(heap, Top.own, {}, X.nodes)
                    /\ \E C : Does1(X, Instr, C) /\ Leads(Tail(Top.todo), C, Goal(a, N))
    BY <1>1, Knows
  <1>3. PICK C : Does1(X, Instr, C) /\ Leads(Tail(Top.todo), C, Goal(a, N))
    BY <1>2
  <1> DEFINE p == Instr.to
             D == Know(Makes[p], {}, Before(p))
  <1>4. /\ p \in Makers /\ X.adds = {} /\ C.adds = {}
        /\ X.tokens \subseteq Before(p) /\ After(p) \subseteq C.tokens
        /\ \A c \in Makes[p] : CanAdd(X.nodes, c, C.nodes)
    BY <1>1, <1>3 DEF Does1
  <1>5. D.adds = Makes[p] /\ D.tokens = Before(p) /\ D.adds # {} /\ current_token \in D.tokens
    BY <1>2, <1>4, MakesSome DEF Know
  <1>6. Waits(heap, Top.own, D.adds, C.nodes)
    <2>1. PICK q \in X.nodes : InState(heap, Top.own, q)
      BY <1>2, <1>4 DEF Waits
    <2>2. \A c \in Makes[p] : \E w \in C.nodes : Adds(q, c, w)
      BY <1>4, <2>1 DEF CanAdd
    <2> QED BY <1>5, <2>1, <2>2 DEF Waits
  <1>7. Leads(Body[p], D, Done(C.tokens))
    <2>1. Leads(Body[p], D, Done(After(p)))
      BY <1>4, MakersLead
    <2>2. Leq(Done(After(p)), Done(C.tokens))
      BY <1>4 DEF Leq, Done, Know
    <2> QED BY <2>1, <2>2, LeadsTo
  <1>8. /\ stack \in Seq(CallFrame) /\ N \in Nat \ {0} /\ N \in 1..N /\ Proceed \in CallFrame
        /\ Top = stack[N]
    BY <1>1, TopIs, ProceedIs DEF Instr
  <1>9. Proceed.todo = Tail(Top.todo) /\ Proceed.own = Top.own /\ Proceed.local = Top.local
    BY <1>1, ProceedsTo
  <1>10. f.todo = Body[p] /\ f.own = Top.own /\ ~f.local
    <2> DEFINE w == Body[p]
    <2> HIDE DEF w
    <2>1. Frame(p, Top.own) = [todo |-> w, own |-> Top.own, local |-> FALSE]
      BY DEF Frame, w
    <2> QED BY <2>1 DEF w
  <1> DEFINE k == Proceed
  <1>11. /\ Len(stack') = N + 1 /\ stack'[N + 1] = f /\ stack'[N] = k
         /\ \A i \in 1..(N - 1) : stack'[i] = stack[i]
    <2>1. u = [stack EXCEPT ![N] = k]
      BY DEF SetTop
    <2> DEFINE S == CallFrame \cup {f}
    <2>2. k \in CallFrame /\ stack \in Seq(S) /\ k \in S /\ f \in S
      BY <1>8
    <2> HIDE DEF u, f, k, S
    <2>3. u \in Seq(S) /\ Len(u) = N /\ \A i \in 1..N : u[i] = IF i = N THEN k ELSE stack[i]
      BY <1>8, <2>1, <2>2, ExceptSeq
    <2>4. Append(u, f) \in Seq(S) /\ Len(Append(u, f)) = Len(u) + 1
          /\ Append(u, f)[Len(u) + 1] = f /\ \A i \in 1..Len(u) : Append(u, f)[i] = u[i]
      BY <2>2, <2>3
    <2>5. \A i \in 1..(N - 1) : i \in 1..N /\ i # N
      BY <1>8
    <2> QED BY <1>1, <1>8, <2>3, <2>4, <2>5
  <1> HIDE DEF u, f, D, p, k
  <1>12. Informed(stack', heap, current_token, Learned(Learned(a, N, C), N + 1, D))
    <2>1. /\ a[N].adds = {} /\ stack'[N].own = stack[N].own /\ stack'[N].local = stack[N].local
          /\ stack'[N + 1].own = stack[N].own /\ ~stack'[N + 1].local
      BY <1>2, <1>4, <1>8, <1>9, <1>10, <1>11 DEF k
    <2>2. /\ Leads(stack'[N].todo, C, Goal(a, N)) /\ Leads(stack'[N + 1].todo, D, Done(C.tokens))
          /\ Waits(heap, stack[N].own, D.adds, C.nodes)
      BY <1>3, <1>6, <1>7, <1>8, <1>9, <1>10, <1>11 DEF k
    <2> QED BY <1>2, <1>4, <1>5, <1>8, <1>11, <2>1, <2>2, NewCall
  <1>13. Tended(stack', heap)
    <2>1. ASSUME NEW n PROVE Owned(stack', n) <=> Owned(stack, n)
      <3>1. \A i \in 1..(N + 1) : i \in 1..(N - 1) \/ i = N \/ i = N + 1
        BY <1>8
      <3>2. \A i \in 1..(N - 1) : i \in 1..N /\ i \in 1..(N + 1)
        BY <1>8
      <3>3. stack'[N].own = stack[N].own /\ stack'[N + 1].own = stack[N].own /\ N \in 1..(N + 1)
        BY <1>8, <1>9, <1>10, <1>11 DEF k
      <3>4. Owned(stack', n) => Owned(stack, n)
        BY <1>8, <1>11, <3>1, <3>2, <3>3 DEF Owned
      <3>5. Owned(stack, n) => Owned(stack', n)
        <4>1. \A i \in 1..N : i \in 1..(N - 1) \/ i = N
          BY <1>8
        <4> QED BY <1>11, <3>2, <3>3, <4>1 DEF Owned
      <3> QED BY <3>4, <3>5
    <2>2. Tended(stack, heap)
      BY <1>1 DEF TreeInv
    <2> QED BY <2>1, <2>2 DEF Tended
  <1> QED BY <1>1, <1>12, <1>13 DEF TreeInv

\* The call that returns has completed its node.
LEMMA LastReturns ==
    ASSUME NEW s, NEW h, NEW t, NEW a, NEW z, Len(s) \in Nat \ {0, 1}, Informed(s, h, t, a),
           a[Len(s)].adds = {}, ~s[Len(s)].local, t \in a[Len(s) - 1].tokens,
           Len(z) = Len(s) - 1, \A i \in 1..(Len(s) - 1) : z[i] = s[i]
    PROVE  Informed(z, h, t, a)
  <1> DEFINE N == Len(s)
  <1>1. \A i \in 1..(N - 1) : i \in 1..N /\ i # N /\ i + 1 \in 1..N /\ (i # N - 1 => i + 1 \in 1..(N - 1) /\ i + 1 # N)
    OBVIOUS
  <1>2. Led(z, a)
    BY <1>1 DEF Informed, Led
  <1>3. \A i \in 1..(N - 1) : a[i].adds = {}
    BY <1>1 DEF Informed, Placed
  <1>4. Placed(z, a)
    <2> SUFFICES ASSUME NEW i \in 1..(N - 1) PROVE \A j \in 1..(i - 1) : z[j].own < z[i].own
      BY <1>3 DEF Placed
    <2>1. \A j \in 1..(i - 1) : j \in 1..(N - 1)
      OBVIOUS
    <2> QED BY <1>1, <1>3, <2>1 DEF Informed, Placed
  <1>5. Stated(z, h, a)
    <2> SUFFICES ASSUME NEW i \in 1..(N - 1) PROVE Waits(h, z[i].own, Pending(z, h, a, i), a[i].nodes)
      BY DEF Stated
    <2>1. Waits(h, s[i].own, Pending(s, h, a, i), a[i].nodes)
      BY <1>1, <1>3 DEF Informed, Stated
    <2>2. Pending(z, h, a, i) = Pending(s, h, a, i)
      <3>1. CASE i = N - 1
        <4>1. Pending(s, h, a, i) = Due(h, s[N], a[N])
          BY <1>1, <3>1 DEF Pending
        <4> QED BY <3>1, <4>1 DEF Pending, Due
      <3>2. CASE i # N - 1
        BY <1>1, <3>2 DEF Pending
      <3> QED BY <3>1, <3>2
    <2> QED BY <2>1, <2>2
  <1> QED BY <1>2, <1>4, <1>5 DEF Informed

LEMMA ReturnFits == ParserInv /\ TreeInv /\ Return => TreeInv'
  <1> SUFFICES ASSUME ParserInv, TreeInv, Return PROVE TreeInv'
    OBVIOUS
  <1> DEFINE N == Len(stack)
  <1>1. /\ phase = "parsing" /\ stack # <<>> /\ Top.todo = <<>> /\ stack' = Drop /\ heap' = heap
        /\ phase' = (IF N = 1 THEN "accepted" ELSE phase) /\ current_token' = current_token
    BY DEF Return, current_token, At
  <1>2. /\ N \in Nat \ {0} /\ N \in 1..N /\ Top = stack[N] /\ Works(Top, N) /\ Calls(stack, heap)
    BY <1>1, TopIs DEF ParserInv
  <1>3. ~Top.local
    <2>1. <<>> \notin BuildCode
      BY BuildStep
    <2> QED BY <1>1, <1>2, <2>1 DEF Works
  <1>4. PICK a : Informed(stack, heap, current_token, a)
    BY <1>1 DEF TreeInv
  <1>5. PICK X : /\ current_token \in X.tokens /\ X.adds = a[N].adds
                 /\ X.adds = {} => Waits(heap, Top.own, {}, X.nodes)
                 /\ Leq(X, Goal(a, N))
    BY <1>1, <1>2, <1>4, TopNext
  <1>6. /\ X.adds = {} /\ X.nodes \subseteq Final
        /\ N # 1 => current_token \in a[N - 1].tokens
    BY <1>5 DEF Leq, Goal, Done, Know
  <1>7. Built(heap, Top.own)
    BY <1>5, <1>6 DEF Waits, Built
  <1>8. Len(stack') = N - 1 /\ \A i \in 1..(N - 1) : stack'[i] = stack[i]
    BY <1>1, <1>2, Popped DEF Drop
  <1>9. Tended(stack, heap)
    BY <1>1 DEF TreeInv
  <1>10. ASSUME NEW n \in 1..Len(heap)
         PROVE  Sound(heap, n) /\ IF Owned(stack', n) THEN Untagged(heap, n) ELSE Built(heap, n)
    <2>1. Sound(heap, n) /\ IF Owned(stack, n) THEN Untagged(heap, n) ELSE Built(heap, n)
      BY <1>9 DEF Tended
    <2>2. Owned(stack', n) => Owned(stack, n)
      <3>1. \A i \in 1..(N - 1) : i \in 1..N
        BY <1>2
      <3> QED BY <1>8, <3>1 DEF Owned
    <2>3. Owned(stack, n) => Owned(stack', n) \/ n = Top.own
      <3>1. \A i \in 1..N : i \in 1..(N - 1) \/ i = N
        BY <1>2
      <3> QED BY <1>2, <1>8, <3>1 DEF Owned
    <2> QED BY <1>7, <2>1, <2>2, <2>3
  <1>11. CASE N = 1
    <2>1. \A n : ~Owned(stack', n)
      BY <1>8, <1>11 DEF Owned
    <2> QED BY <1>1, <1>10, <1>11, <2>1 DEF TreeInv
  <1>12. CASE N # 1
    <2>1. Informed(stack', heap, current_token, a)
      <3>1. N \in Nat \ {0, 1}
        BY <1>2, <1>12
      <3> QED BY <1>2, <1>3, <1>4, <1>5, <1>6, <1>8, <1>12, <3>1, LastReturns
    <2>2. Tended(stack', heap)
      BY <1>10 DEF Tended
    <2> QED BY <1>1, <1>12, <2>1, <2>2 DEF TreeInv
  <1> QED BY <1>11, <1>12

-----------------------------------------------------------------------------
(* The steps that make nodes and children.                                   *)

\* From h to g: node p has the child c, and the other nodes are as they were.
Linked(h, g, p, c) ==
    /\ Len(h) <= Len(g)
    /\ \A n \in 1..Len(h) :
          /\ g[n].type = h[n].type /\ g[n].flags = h[n].flags
          /\ g[n].kids = IF n = p THEN Append(h[n].kids, c) ELSE h[n].kids

LEMMA KidsAre ==
    ASSUME NEW h, IsHeap(h), NEW n \in 1..Len(h)
    PROVE  /\ h[n].kids \in Seq(Nat) /\ h[n].type \in NodeType /\ h[n].flags \subseteq Flags
           /\ \A i \in 1..Len(h[n].kids) : h[n].kids[i] \in 1..Len(h) /\ h[n].kids[i] > n
  <1>1. h[n] \in Node /\ Len(h) \in Nat
    BY ElementOfSeq DEF IsHeap
  <1>2. \A i \in 1..Len(h[n].kids) : h[n].kids[i] \in (n + 1)..Len(h)
    BY DEF IsHeap, Contains
  <1> QED BY <1>1, <1>2 DEF Node

LEMMA LinkedKeeps ==
    ASSUME NEW h, NEW g, NEW p, NEW c, IsHeap(h), Linked(h, g, p, c), NEW n \in 1..Len(h)
    PROVE  /\ n # p => Kept(h, g, n)
           /\ n = p /\ c \in Nat => Grown(h, g, n, c)
  <1>1. /\ h[n].kids \in Seq(Nat) /\ \A i \in 1..Len(h[n].kids) : h[n].kids[i] \in 1..Len(h)
    BY KidsAre
  <1>2. \A i \in 1..Len(h[n].kids) : /\ g[h[n].kids[i]].type = h[h[n].kids[i]].type
                                     /\ g[h[n].kids[i]].flags = h[h[n].kids[i]].flags
    BY <1>1 DEF Linked
  <1>3. n # p => Kept(h, g, n)
    BY <1>2 DEF Linked, Kept, Tagged, Untagged
  <1>4. n = p /\ c \in Nat => Grown(h, g, n, c)
    BY <1>1, <1>2 DEF Linked, Grown, Tagged
  <1> QED BY <1>3, <1>4

LEMMA LinkedSound ==
    ASSUME NEW h, NEW g, NEW p, NEW c \in Nat, IsHeap(h), Linked(h, g, p, c), NEW n \in 1..Len(h), Sound(h, n),
           n = p => ~Contains(h[n].kids, c)
    PROVE  Sound(g, n) /\ (Untagged(h, n) => Untagged(g, n))
  <1> DEFINE ks == h[n].kids
             w == Append(ks, c)
  <1>1. ks \in Seq(Nat) /\ \A i, j \in 1..Len(ks) : ks[i] = ks[j] => i = j
    BY KidsAre DEF Sound
  <1>2. g[n].flags \subseteq FlagsAllowed[g[n].type] /\ (Untagged(h, n) => Untagged(g, n))
    BY DEF Linked, Sound, Untagged
  <1>3. CASE n = p
    <2>1. g[n].kids = w /\ \A i \in 1..Len(ks) : ks[i] # c
      BY <1>3 DEF Linked, Contains
    <2> HIDE DEF ks
    <2>2. Len(w) = Len(ks) + 1 /\ Len(ks) \in Nat /\ w[Len(ks) + 1] = c /\ \A i \in 1..Len(ks) : w[i] = ks[i]
      BY <1>1
    <2> HIDE DEF w
    <2>3. \A i \in 1..Len(w) : i \in 1..Len(ks) \/ i = Len(ks) + 1
      BY <2>2
    <2>4. ASSUME NEW i \in 1..Len(w), NEW j \in 1..Len(w), w[i] = w[j] PROVE i = j
      <3>1. i \in 1..Len(ks) /\ j \in 1..Len(ks) => ks[i] = ks[j]
        BY <2>2, <2>4
      <3>2. i \in 1..Len(ks) => w[i] # c
        BY <2>1, <2>2
      <3>3. j \in 1..Len(ks) => w[j] # c
        BY <2>1, <2>2
      <3> QED BY <1>1, <2>2, <2>3, <2>4, <3>1, <3>2, <3>3
    <2> QED BY <1>2, <2>1, <2>4 DEF Sound
  <1>4. CASE n # p
    <2>1. g[n].kids = ks
      BY <1>4 DEF Linked
    <2> HIDE DEF ks
    <2> QED BY <1>1, <1>2, <2>1 DEF Sound
  <1> QED BY <1>3, <1>4

LEMMA ChildLinked ==
    ASSUME NEW h \in Seq(Node), NEW n \in 1..Len(h), NEW c \in Nat
    PROVE  /\ WithChild(h, n, c) \in Seq(Node) /\ Len(WithChild(h, n, c)) = Len(h)
           /\ Linked(h, WithChild(h, n, c), n, c)
  <1> DEFINE w == Append(h[n].kids, c)
             e == [h[n] EXCEPT !.kids = w]
             g == [h EXCEPT ![n] = e]
  <1>1. h[n] \in Node
    BY ElementOfSeq
  <1>2. w \in Seq(Nat)
    BY <1>1 DEF Node
  <1>3. WithChild(h, n, c) = g
    BY DEF WithChild
  <1>w. w = Append(h[n].kids, c)
    OBVIOUS
  <1> HIDE DEF w
  <1>4. e \in Node /\ e.type = h[n].type /\ e.flags = h[n].flags /\ e.kids = w
    BY <1>1, <1>2 DEF Node
  <1> HIDE DEF e
  <1>5. g \in Seq(Node) /\ Len(g) = Len(h) /\ \A k \in 1..Len(h) : g[k] = IF k = n THEN e ELSE h[k]
    BY <1>4, ExceptSeq
  <1> HIDE DEF g
  <1>6. Len(h) <= Len(g)
    <2>1. Len(h) \in Nat
      OBVIOUS
    <2> QED BY <1>5, <2>1
  <1>7. Linked(h, g, n, c)
    BY <1>4, <1>5, <1>6, <1>w DEF Linked
  <1> QED BY <1>3, <1>5, <1>7

\* The new node is empty.
LEMMA NewNode ==
    ASSUME NEW h \in Seq(Node), NEW t \in NodeType, NEW v \in Values
    PROVE  LET g == Append(h, ASTNodeCtor(t, v))
           IN  /\ Len(g) = Len(h) + 1 /\ \A n \in 1..Len(h) : g[n] = h[n]
               /\ g[Len(h) + 1].type = t /\ Sound(g, Len(h) + 1) /\ Untagged(g, Len(h) + 1)
               /\ InState(g, Len(h) + 1, Empty(t))
  <1> DEFINE e == ASTNodeCtor(t, v)
             g == Append(h, e)
             N == Len(h) + 1
  <1>1. e \in Node /\ e.type = t /\ e.flags = {} /\ e.kids = <<>>
    BY DEF ASTNodeCtor, Node
  <1> HIDE DEF e
  <1>2. Len(g) = N /\ (\A n \in 1..Len(h) : g[n] = h[n]) /\ g[N] = e
    BY <1>1
  <1> HIDE DEF g, N
  <1>3. Len(<<>>) = 0 /\ 1..0 = {}
    OBVIOUS
  <1>4. Sound(g, N) /\ Untagged(g, N)
    BY <1>1, <1>2, <1>3 DEF Sound, Untagged
  <1>5. InState(g, N, Empty(t))
    <2>1. Empty(t).type = t /\ Empty(t).shape = Plain(<<>>)
      BY StIs DEF Empty
    <2>2. Plain(<<>>).first = <<>> /\ Plain(<<>>).last = <<>>
      BY DEF Plain
    <2>3. Fits(g, <<>>, Empty(t).shape)
      <3>1. 0 >= 0 + 0
        OBVIOUS
      <3> DEFINE ks == <<>>
                 s == Empty(t).shape
      <3>2. Len(ks) = 0 /\ Len(s.first) = 0 /\ Len(s.last) = 0
        BY <1>3, <2>1, <2>2
      <3> HIDE DEF ks, s
      <3>3. Fits(g, ks, s)
        BY <1>3, <3>1, <3>2 DEF Fits
      <3> QED BY <3>3 DEF ks, s
    <2>4. Joined(g, <<>>, Empty(t).open)
      BY <1>3 DEF Joined
    <2> QED BY <1>1, <1>2, <2>1, <2>3, <2>4 DEF InState
  <1> QED BY <1>1, <1>2, <1>4, <1>5 DEF g, N, e

\* A node that is made, and its parent.
LEMMA LinkedNode ==
    ASSUME NEW h, IsHeap(h), NEW p \in 1..Len(h), NEW t \in NodeType, NEW v \in Values
    PROVE  LET c == Len(h) + 1
               g == Append(WithChild(h, p, c), ASTNodeCtor(t, v))
           IN  /\ Len(h) \in Nat /\ Len(g) = c /\ Linked(h, g, p, c)
               /\ g[c].type = t /\ Sound(g, c) /\ Untagged(g, c) /\ InState(g, c, Empty(t))
               /\ \A n \in 1..Len(h) : ~Contains(h[n].kids, c)
  <1> DEFINE c == Len(h) + 1
             u == WithChild(h, p, c)
             g == Append(u, ASTNodeCtor(t, v))
  <1>1. h \in Seq(Node) /\ Len(h) \in Nat /\ c \in Nat
    BY DEF IsHeap
  <1>2. \A n \in 1..Len(h) : ~Contains(h[n].kids, c)
    BY <1>1 DEF IsHeap
  <1>c. c = Len(h) + 1
    OBVIOUS
  <1> HIDE DEF c
  <1>3. u \in Seq(Node) /\ Len(u) = Len(h) /\ Linked(h, u, p, c)
    BY <1>1, ChildLinked
  <1> HIDE DEF u
  <1>4. /\ Len(g) = Len(u) + 1 /\ \A n \in 1..Len(u) : g[n] = u[n]
        /\ g[Len(u) + 1].type = t /\ Sound(g, Len(u) + 1) /\ Untagged(g, Len(u) + 1)
        /\ InState(g, Len(u) + 1, Empty(t))
    BY <1>3, NewNode
  <1> HIDE DEF g
  <1>5. Linked(h, g, p, c)
    <2>1. Len(h) <= Len(g)
      BY <1>1, <1>3, <1>4
    <2> QED BY <1>3, <1>4, <2>1 DEF Linked
  <1> QED BY <1>1, <1>2, <1>3, <1>4, <1>5, <1>c DEF c, u, g

\* The running call has the node it had, which may have changed, and its caller's has not.
LEMMA TopWorks ==
    ASSUME NEW s, NEW h, NEW g, NEW t, NEW a, NEW z, NEW C, NEW v, Len(s) \in Nat \ {0},
           Informed(s, h, t, a), a[Len(s)].adds = {}, C.adds = {},
           Len(z) = Len(s), \A i \in 1..(Len(s) - 1) : z[i] = s[i],
           z[Len(s)].own = s[Len(s)].own, z[Len(s)].local = s[Len(s)].local,
           v \in C.tokens, Leads(z[Len(s)].todo, C, Goal(a, Len(s))),
           \A i \in 1..(Len(s) - 1) : Kept(h, g, s[i].own),
           g[s[Len(s)].own].type = h[s[Len(s)].own].type,
           Waits(g, s[Len(s)].own, {}, C.nodes)
    PROVE  Informed(z, g, v, Learned(a, Len(s), C))
  <1> DEFINE N == Len(s)
             f == z[N]
  <1>1. N \in 1..N /\ (N > 1 => N - 1 \in 1..N /\ N - 1 # N /\ N - 1 + 1 = N /\ N - 1 \in 1..(N - 1))
        /\ \A i \in 1..(N - 2) : i \in 1..(N - 1)
    OBVIOUS
  <1>2. N > 1 => /\ g[s[N - 1].own].type = h[s[N - 1].own].type
                 /\ Waits(g, s[N - 1].own, Due(g, f, C), a[N - 1].nodes)
    <2> SUFFICES ASSUME N > 1
                 PROVE  /\ g[s[N - 1].own].type = h[s[N - 1].own].type
                        /\ Waits(g, s[N - 1].own, Due(g, f, C), a[N - 1].nodes)
      OBVIOUS
    <2>1. a[N - 1].adds = {}
      BY <1>1 DEF Informed, Placed
    <2>2. Waits(h, s[N - 1].own, Pending(s, h, a, N - 1), a[N - 1].nodes)
      BY <1>1, <2>1 DEF Informed, Stated
    <2>3. Pending(s, h, a, N - 1) = Due(g, f, C)
      BY <1>1 DEF Pending, Due
    <2>4. Kept(h, g, s[N - 1].own)
      BY <1>1
    <2>5. Waits(g, s[N - 1].own, Pending(s, h, a, N - 1), a[N - 1].nodes)
      BY <2>2, <2>4, WaitsKept
    <2> QED BY <2>3, <2>4, <2>5 DEF Kept
  <1>3. \A j \in 1..(N - 1) : s[j].own < f.own
    BY <1>1 DEF Informed, Placed
  <1> QED BY <1>1, <1>2, <1>3, TopInformed

\* The calls below the running one work on other nodes than its caller, or than itself.
LEMMA OthersWork ==
    ASSUME NEW s, NEW h, NEW t, NEW a, Len(s) \in Nat \ {0}, Calls(s, h), Informed(s, h, t, a)
    PROVE  /\ \A i \in 1..Len(s) : s[i].own \in 1..Len(h)
           /\ \A i \in 1..(Len(s) - 1) : a[i].adds = {}
           /\ \A i \in 1..(Len(s) - 2) : s[i].own # s[Len(s) - 1].own
           /\ a[Len(s)].adds = {} => \A i \in 1..(Len(s) - 1) : s[i].own < s[Len(s)].own
           /\ a[Len(s)].adds # {} => Len(s) > 1 /\ s[Len(s)].own = s[Len(s) - 1].own /\ ~s[Len(s)].local
  <1> DEFINE N == Len(s)
  <1>1. \A i \in 1..N : s[i].own \in 1..Len(h)
    BY DEF Calls
  <1>2. \A i \in 1..(N - 1) : i \in 1..N /\ i # N
    OBVIOUS
  <1>3. \A i \in 1..(N - 1) : a[i].adds = {}
    BY <1>2 DEF Informed, Placed
  <1>4. ASSUME NEW i \in 1..(N - 2) PROVE s[i].own # s[N - 1].own
    <2>1. N - 1 \in 1..(N - 1) /\ i \in 1..(N - 1 - 1) /\ i \in 1..N /\ N - 1 \in 1..N
      OBVIOUS
    <2>2. s[i].own < s[N - 1].own
      BY <1>3, <2>1 DEF Informed, Placed
    <2>3. s[i].own \in Nat /\ s[N - 1].own \in Nat
      BY <1>1, <2>1
    <2> QED BY <2>2, <2>3
  <1>5. N \in 1..N
    OBVIOUS
  <1>6. a[N].adds = {} => \A i \in 1..(N - 1) : s[i].own < s[N].own
    BY <1>5 DEF Informed, Placed
  <1>7. a[N].adds # {} => N > 1 /\ s[N].own = s[N - 1].own /\ ~s[N].local
    BY <1>5 DEF Informed, Placed
  <1> QED BY <1>1, <1>3, <1>4, <1>6, <1>7

\* The tree after a node or a child was added.
LEMMA LinkedTended ==
    ASSUME NEW s, NEW h, NEW g, NEW p, NEW c \in Nat, NEW z, IsHeap(h), Linked(h, g, p, c), Tended(s, h),
           p \in 1..Len(h) => Owned(s, p) /\ Owned(z, p) /\ ~Contains(h[p].kids, c),
           \A n \in 1..Len(h) : Owned(z, n) => Owned(s, n),
           \A n \in 1..Len(h) : Owned(s, n) => Owned(z, n) \/ Built(g, n),
           Len(g) = Len(h) \/ /\ Len(g) = Len(h) + 1 /\ Sound(g, Len(g)) /\ Untagged(g, Len(g))
                              /\ Owned(z, Len(g)) \/ Built(g, Len(g))
    PROVE  Tended(z, g)
  <1>1. Len(h) \in Nat
    BY DEF IsHeap
  <1>2. ASSUME NEW n \in 1..Len(h) PROVE Sound(g, n) /\ IF Owned(z, n) THEN Untagged(g, n) ELSE Built(g, n)
    <2>1. Sound(h, n) /\ IF Owned(s, n) THEN Untagged(h, n) ELSE Built(h, n)
      BY DEF Tended
    <2>2. Sound(g, n) /\ (Untagged(h, n) => Untagged(g, n))
      BY <2>1, LinkedSound
    <2>3. ~Owned(s, n) => Built(g, n)
      <3> SUFFICES ASSUME ~Owned(s, n) PROVE Built(g, n)
        OBVIOUS
      <3>1. n # p
        OBVIOUS
      <3>2. Kept(h, g, n)
        BY <3>1, LinkedKeeps
      <3> QED BY <2>1, <3>2, BuiltKept
    <2> QED BY <2>1, <2>2, <2>3
  <1>3. ASSUME NEW n \in 1..Len(g), n \notin 1..Len(h)
        PROVE  Sound(g, n) /\ IF Owned(z, n) THEN Untagged(g, n) ELSE Built(g, n)
    <2>1. n = Len(g) /\ Len(g) # Len(h)
      BY <1>1, <1>3
    <2> QED BY <2>1
  <1> QED BY <1>2, <1>3 DEF Tended

LEMMA LeafFits == ParserInv /\ TreeInv /\ createAndInsertFromToken => TreeInv'
  <1> SUFFICES ASSUME ParserInv, TreeInv, createAndInsertFromToken PROVE TreeInv'
    OBVIOUS
  <1> DEFINE N == Len(stack)
             p == Top.own
             c == Len(heap) + 1
             ty == Instr.type
  <1>1. /\ phase = "parsing" /\ stack # <<>> /\ Top.todo # <<>> /\ Instr.op = "leaf" /\ phase' = phase
        /\ heap' = Append(WithChild(heap, p, c), ASTNodeCtor(ty, current_token))
        /\ stack' = SetTop(Proceed) /\ current_token' = current_token
    BY DEF createAndInsertFromToken, Does, Instr, current_token, At
  <1>2. PICK a, X : /\ Informed(stack, heap, current_token, a)
                    /\ current_token \in X.tokens /\ X.adds = a[N].adds
                    /\ X.adds = {} => Waits(heap, p, {}, X.nodes)
                    /\ \E C : Does1(X, Instr, C) /\ Leads(Tail(Top.todo), C, Goal(a, N))
    BY <1>1, Knows
  <1>3. PICK C : Does1(X, Instr, C) /\ Leads(Tail(Top.todo), C, Goal(a, N))
    BY <1>2
  <1>4. /\ X.adds = {} /\ C.adds = {} /\ X.tokens \subseteq C.tokens
        /\ CanAdd(X.nodes, ty, C.nodes) /\ Empty(ty) \in Final
    BY <1>1, <1>3 DEF Does1
  <1>5. /\ Top.own \in 1..Len(heap) /\ N \in Nat \ {0} /\ N \in 1..N /\ Top = stack[N]
        /\ Works(Top, N) /\ Top.local \in BOOLEAN
    BY <1>1, TopIs
  <1>6. ty \in NodeType /\ current_token \in Values
    <2>1. ty \in NodeType
      BY <1>1, <1>5, Instructions DEF Instr
    <2> QED BY <2>1, TokenIs DEF AnyToken, Values
  <1>7. IsHeap(heap) /\ Calls(stack, heap)
    BY DEF ParserInv
  <1> DEFINE g == heap'
  <1>8. /\ Len(heap) \in Nat /\ Len(g) = c /\ Linked(heap, g, p, c)
        /\ g[c].type = ty /\ Sound(g, c) /\ Untagged(g, c) /\ InState(g, c, Empty(ty))
        /\ \A n \in 1..Len(heap) : ~Contains(heap[n].kids, c)
    BY <1>1, <1>5, <1>6, <1>7, LinkedNode
  <1>9. /\ N = Len(stack') /\ \A i \in 1..(N - 1) : stack'[i] = stack[i]
        /\ stack'[N] = Proceed
    BY <1>1, StackSet
  <1>10. Proceed.todo = Tail(Top.todo) /\ Proceed.own = Top.own /\ Proceed.local = Top.local
    BY <1>1, ProceedsTo
  <1>11. c \in Nat /\ c = Len(heap) + 1
    BY <1>8
  <1> HIDE DEF g, c, p
  <1>12. Grown(heap, g, p, c)
    BY <1>5, <1>7, <1>8, <1>11, LinkedKeeps DEF p
  <1>13. Waits(g, p, {}, C.nodes)
    <2>1. PICK q \in X.nodes : InState(heap, p, q)
      BY <1>2, <1>4 DEF Waits
    <2>2. PICK u \in C.nodes : Adds(q, g[c].type, u)
      BY <1>4, <1>8, <2>1 DEF CanAdd
    <2>3. InState(g, p, u)
      BY <1>8, <1>12, <2>1, <2>2, StateGrown
    <2> QED BY <2>3 DEF Waits
  <1>14. Informed(stack', g, current_token, Learned(a, N, C))
    <2>1. \A i \in 1..(N - 1) : stack[i].own \in 1..Len(heap) /\ stack[i].own < p
      <3>1. \A i \in 1..(N - 1) : i \in 1..N
        OBVIOUS
      <3> QED BY <1>2, <1>4, <1>5, <1>7, <3>1, OthersWork DEF p
    <2>2. \A i \in 1..(N - 1) : stack[i].own # p
      <3>1. p \in Nat
        BY <1>5 DEF p
      <3>2. \A m \in Nat : ~(m < m)
        OBVIOUS
      <3> QED BY <2>1, <3>1, <3>2
    <2>3. \A i \in 1..(N - 1) : Kept(heap, g, stack[i].own)
      BY <1>7, <1>8, <2>1, <2>2, LinkedKeeps
    <2>4. g[p].type = heap[p].type
      BY <1>12 DEF Grown
    <2>5. current_token \in C.tokens /\ Leads(stack'[N].todo, C, Goal(a, N))
      BY <1>2, <1>3, <1>4, <1>9, <1>10
    <2> HIDE DEF N
    <2>6. /\ p = stack[N].own /\ stack'[N].own = stack[N].own /\ stack'[N].local = stack[N].local
          /\ a[N].adds = {}
      BY <1>2, <1>4, <1>5, <1>9, <1>10 DEF p
    <2>7. Waits(g, stack[N].own, {}, C.nodes) /\ g[stack[N].own].type = heap[stack[N].own].type
      BY <1>13, <2>4, <2>6
    <2> QED BY <1>2, <1>4, <1>5, <1>9, <2>3, <2>5, <2>6, <2>7, TopWorks DEF N
  <1>15. Tended(stack', g)
    <2>1. \A n : Owned(stack', n) <=> Owned(stack, n)
      BY <1>5, <1>9, <1>10, OwnersKept
    <2>2. Tended(stack, heap)
      BY <1>1 DEF TreeInv
    <2>3. Built(g, c)
      BY <1>4, <1>8 DEF Built
    <2>4. Owned(stack, p)
      BY <1>5 DEF Owned, p
    <2>5. p \in 1..Len(heap) => Owned(stack, p) /\ Owned(stack', p) /\ ~Contains(heap[p].kids, c)
      BY <1>8, <2>1, <2>4
    <2>6. /\ Len(g) = Len(heap) + 1 /\ Sound(g, Len(g)) /\ Untagged(g, Len(g))
          /\ Owned(stack', Len(g)) \/ Built(g, Len(g))
      BY <1>8, <1>11, <2>3
    <2> QED BY <1>7, <1>8, <1>11, <2>1, <2>2, <2>5, <2>6, LinkedTended
  <1> QED BY <1>1, <1>14, <1>15 DEF TreeInv, g

\* The caller's node has got the child it waited for.
LEMMA ChildGiven ==
    ASSUME NEW s, NEW h, NEW g, NEW t, NEW a, NEW c, Len(s) \in Nat \ {0, 1}, Informed(s, h, t, a),
           Grown(h, g, s[Len(s) - 1].own, c), Untagged(g, c), g[c].type \in Pending(s, h, a, Len(s) - 1)
    PROVE  Waits(g, s[Len(s) - 1].own, {}, a[Len(s) - 1].nodes)
  <1> DEFINE N == Len(s)
             p == s[N - 1].own
             K == a[N - 1].nodes
             P == Pending(s, h, a, N - 1)
  <1>1. N - 1 \in 1..N /\ N - 1 # N
    <2>1. N \in Nat /\ N # 0 /\ N # 1
      OBVIOUS
    <2> HIDE DEF N
    <2> QED BY <2>1
  <1>2. a[N - 1].adds = {}
    BY <1>1 DEF Informed, Placed
  <1>3. Waits(h, p, P, K)
    BY <1>1, <1>2 DEF Informed, Stated
  <1>4. Grown(h, g, p, c) /\ g[c].type \in P
    OBVIOUS
  <1> HIDE DEF p, K, P
  <1>5. PICK q : InState(h, p, q) /\ \A d \in P : \E u \in K : Adds(q, d, u)
    BY <1>3, <1>4 DEF Waits
  <1>6. PICK u \in K : Adds(q, g[c].type, u)
    BY <1>4, <1>5
  <1>7. InState(g, p, u)
    BY <1>4, <1>5, <1>6, StateGrown
  <1>8. Waits(g, p, {}, K)
    BY <1>7 DEF Waits
  <1> QED BY <1>8 DEF p, K

LEMMA EmptyFits == ParserInv /\ TreeInv /\ createAndInsertEmpty => TreeInv'
  <1> SUFFICES ASSUME ParserInv, TreeInv, createAndInsertEmpty PROVE TreeInv'
    OBVIOUS
  <1> DEFINE N == Len(stack)
             p == Top.own
             c == Len(heap) + 1
             ty == Instr.type
             f == [Proceed EXCEPT !.own = c]
             g == heap'
  <1>1. /\ phase = "parsing" /\ stack # <<>> /\ Top.todo # <<>> /\ Instr.op = "make" /\ phase' = phase
        /\ g = Append(WithChild(heap, p, c), ASTNodeCtor(ty, ""))
        /\ stack' = SetTop(f) /\ current_token' = current_token
    BY DEF createAndInsertEmpty, Does, Instr, current_token, At
  <1>2. PICK a, X : /\ Informed(stack, heap, current_token, a)
                    /\ current_token \in X.tokens /\ X.adds = a[N].adds
                    /\ X.adds = {} => Waits(heap, p, {}, X.nodes)
                    /\ \E C : Does1(X, Instr, C) /\ Leads(Tail(Top.todo), C, Goal(a, N))
    BY <1>1, Knows
  <1>3. PICK C : Does1(X, Instr, C) /\ Leads(Tail(Top.todo), C, Goal(a, N))
    BY <1>2
  <1>4. ty \in X.adds /\ Leq(Know({}, {Empty(ty)}, X.tokens), C)
    BY <1>1, <1>3 DEF Does1
  <1>5. C.adds = {} /\ Empty(ty) \in C.nodes /\ current_token \in C.tokens
    BY <1>2, <1>4 DEF Leq, Know
  <1>6. /\ Top \in CallFrame /\ p \in 1..Len(heap) /\ N \in Nat \ {0} /\ N \in 1..N /\ Top = stack[N]
        /\ Works(Top, N) /\ Top.local \in BOOLEAN /\ Len(heap) \in Nat
    BY <1>1, TopIs
  <1>7. ty \in NodeType /\ "" \in Values /\ ~Top.local
    <2>1. ty \in NodeType /\ ~Top.local
      BY <1>1, <1>6, Instructions DEF Instr
    <2> QED BY <2>1 DEF Values
  <1>8. IsHeap(heap) /\ Calls(stack, heap)
    BY DEF ParserInv
  <1>9. /\ Len(heap) \in Nat /\ Len(g) = c /\ Linked(heap, g, p, c)
        /\ g[c].type = ty /\ Sound(g, c) /\ Untagged(g, c) /\ InState(g, c, Empty(ty))
        /\ \A n \in 1..Len(heap) : ~Contains(heap[n].kids, c)
    <2> DEFINE h == Append(WithChild(heap, p, c), ASTNodeCtor(ty, ""))
    <2>1. p \in 1..Len(heap) /\ ty \in NodeType /\ "" \in Values /\ IsHeap(heap)
      BY <1>6, <1>7, <1>8
    <2>2. g = h
      BY <1>1
    <2> HIDE DEF p, ty, g
    <2>3. /\ Len(heap) \in Nat /\ Len(h) = c /\ Linked(heap, h, p, c)
          /\ h[c].type = ty /\ Sound(h, c) /\ Untagged(h, c) /\ InState(h, c, Empty(ty))
          /\ \A n \in 1..Len(heap) : ~Contains(heap[n].kids, c)
      BY <2>1, LinkedNode
    <2> HIDE DEF h, c
    <2> QED BY <2>2, <2>3
  <1>10. f.todo = Tail(Top.todo) /\ f.own = c /\ ~f.local
    <2> DEFINE w == Tail(Top.todo)
               cc == c
    <2>1. f = [Proceed EXCEPT !.own = cc]
      OBVIOUS
    <2> HIDE DEF cc
    <2>2. Proceed = [todo |-> w, own |-> Top.own, local |-> Top.local]
      BY <1>6, Changed DEF Proceed
    <2> HIDE DEF w, f
    <2>3. f = [todo |-> w, own |-> cc, local |-> Top.local]
      BY <2>1, <2>2
    <2> QED BY <1>7, <2>3 DEF w, cc
  <1>c. c \in Nat /\ c = Len(heap) + 1
    BY <1>9
  <1> HIDE DEF f, g, c, p
  <1>11. /\ N = Len(stack') /\ \A i \in 1..(N - 1) : stack'[i] = stack[i]
         /\ stack'[N] = f
    BY <1>1, StackSet
  <1>12. /\ \A i \in 1..N : stack[i].own \in 1..Len(heap)
         /\ \A i \in 1..(N - 2) : stack[i].own # stack[N - 1].own
         /\ N > 1 /\ p = stack[N - 1].own
    <2>1. a[N].adds # {}
      BY <1>2, <1>4
    <2> QED BY <1>2, <1>6, <1>8, <2>1, OthersWork DEF p
  <1>13. Grown(heap, g, p, c)
    BY <1>6, <1>8, <1>9, <1>c, LinkedKeeps
  <1>14. Pending(stack, heap, a, N - 1) = X.adds
    <2>1. N - 1 # N /\ N - 1 + 1 = N
      BY <1>6
    <2> QED BY <1>2, <1>4, <2>1 DEF Pending, Due
  <1>15. Waits(g, stack[N - 1].own, {}, a[N - 1].nodes)
    <2>1. N \in Nat \ {0, 1}
      BY <1>6, <1>12
    <2> QED BY <1>2, <1>4, <1>9, <1>12, <1>13, <1>14, <2>1, ChildGiven
  <1>16. Informed(stack', g, current_token, Learned(a, N, C))
    <2>1. \A i \in 1..(N - 2) : Kept(heap, g, stack[i].own)
      <3>1. \A i \in 1..(N - 2) : i \in 1..N
        BY <1>6
      <3> QED BY <1>8, <1>9, <1>12, <3>1, LinkedKeeps
    <2>2. g[stack[N - 1].own].type = heap[stack[N - 1].own].type
      BY <1>12, <1>13 DEF Grown
    <2>3. Due(g, f, C) = {}
      BY <1>5, <1>10 DEF Due
    <2>4. Waits(g, f.own, {}, C.nodes)
      BY <1>5, <1>9, <1>10 DEF Waits
    <2>5. \A j \in 1..(N - 1) : stack[j].own < f.own
      <3>1. \A j \in 1..(N - 1) : j \in 1..N
        BY <1>6
      <3>2. \A m \in 1..Len(heap) : m < c
        BY <1>9, <1>c
      <3> QED BY <1>10, <1>12, <3>1, <3>2
    <2>6. Leads(f.todo, C, Goal(a, N))
      BY <1>3, <1>10
    <2> QED BY <1>2, <1>5, <1>6, <1>11, <1>15, <2>1, <2>2, <2>3, <2>4, <2>5, <2>6, TopInformed
  <1>17. Tended(stack', g)
    <2>1. Tended(stack, heap)
      BY <1>1 DEF TreeInv
    <2>2. N - 1 \in 1..N /\ N - 1 \in 1..(N - 1) /\ \A i \in 1..N : i \in 1..(N - 1) \/ i = N
      BY <1>6, <1>12
    <2>3. Owned(stack, p) /\ Owned(stack', p) /\ Owned(stack', c)
      BY <1>6, <1>10, <1>11, <1>12, <2>2 DEF Owned
    <2>4. ASSUME NEW n \in 1..Len(heap) PROVE Owned(stack', n) <=> Owned(stack, n)
      <3>1. n # c
        BY <1>9, <1>c
      <3>2. \A i \in 1..(N - 1) : i \in 1..N /\ stack'[i] = stack[i]
        BY <1>6, <1>11
      <3>3. stack'[N].own = c /\ stack[N].own = stack[N - 1].own /\ Len(stack') = N
        BY <1>6, <1>10, <1>11, <1>12 DEF p
      <3> HIDE DEF N
      <3>4. Owned(stack', n) => Owned(stack, n)
        <4> SUFFICES ASSUME NEW i \in 1..N, stack'[i].own = n PROVE Owned(stack, n)
          BY <3>3 DEF Owned
        <4>1. i \in 1..(N - 1)
          BY <2>2, <3>1, <3>3
        <4> QED BY <3>2, <4>1 DEF Owned, N
      <3>5. Owned(stack, n) => Owned(stack', n)
        <4> SUFFICES ASSUME NEW i \in 1..N, stack[i].own = n PROVE Owned(stack', n)
          BY DEF Owned, N
        <4>1. \E j \in 1..(N - 1) : stack[j].own = n
          BY <2>2, <3>3
        <4> QED BY <3>2, <3>3, <4>1 DEF Owned
      <3> QED BY <3>4, <3>5
    <2>5. p \in 1..Len(heap) => Owned(stack, p) /\ Owned(stack', p) /\ ~Contains(heap[p].kids, c)
      BY <1>9, <2>3
    <2>6. /\ Len(g) = Len(heap) + 1 /\ Sound(g, Len(g)) /\ Untagged(g, Len(g))
          /\ Owned(stack', Len(g)) \/ Built(g, Len(g))
      BY <1>9, <1>c, <2>3
    <2> QED BY <1>8, <1>9, <1>c, <2>1, <2>4, <2>5, <2>6, LinkedTended
  <1> QED BY <1>1, <1>16, <1>17 DEF TreeInv, g

LEMMA LocalFits == ParserInv /\ TreeInv /\ MakeLocalNode => TreeInv'
  <1> SUFFICES ASSUME ParserInv, TreeInv, MakeLocalNode PROVE TreeInv'
    OBVIOUS
  <1> DEFINE N == Len(stack)
             c == Len(heap) + 1
             ty == Instr.type
             f == [Proceed EXCEPT !.own = c, !.local = TRUE]
             g == heap'
  <1>1. /\ phase = "parsing" /\ stack # <<>> /\ Top.todo # <<>> /\ Instr.op = "makeLocal" /\ phase' = phase
        /\ g = Append(heap, ASTNodeCtor(ty, ""))
        /\ stack' = SetTop(f) /\ current_token' = current_token
    BY DEF MakeLocalNode, Does, Instr, current_token, At
  <1>2. PICK a, X : /\ Informed(stack, heap, current_token, a)
                    /\ current_token \in X.tokens /\ X.adds = a[N].adds
                    /\ \E C : Does1(X, Instr, C) /\ Leads(Tail(Top.todo), C, Goal(a, N))
    BY <1>1, Knows
  <1>3. PICK C : Does1(X, Instr, C) /\ Leads(Tail(Top.todo), C, Goal(a, N))
    BY <1>2
  <1>4. ty \in X.adds /\ Leq(Know({}, {Empty(ty)}, X.tokens), C)
    BY <1>1, <1>3 DEF Does1
  <1>5. C.adds = {} /\ Empty(ty) \in C.nodes /\ current_token \in C.tokens
    BY <1>2, <1>4 DEF Leq, Know
  <1>6. /\ Top \in CallFrame /\ Top.own \in 1..Len(heap) /\ N \in Nat \ {0} /\ N \in 1..N /\ Top = stack[N]
        /\ Works(Top, N) /\ Top.local \in BOOLEAN /\ Len(heap) \in Nat
    BY <1>1, TopIs
  <1>7. ty \in NodeType /\ "" \in Values
    <2>1. ty \in NodeType
      BY <1>1, <1>6, Instructions DEF Instr
    <2> QED BY <2>1 DEF Values
  <1>8. IsHeap(heap) /\ Calls(stack, heap) /\ heap \in Seq(Node)
    BY DEF ParserInv, IsHeap
  <1>c. c \in Nat /\ c = Len(heap) + 1 /\ \A n \in 1..Len(heap) : n # c /\ n < c
    BY <1>6
  <1>9. /\ Len(g) = c /\ \A n \in 1..Len(heap) : g[n] = heap[n]
        /\ g[c].type = ty /\ Sound(g, c) /\ Untagged(g, c) /\ InState(g, c, Empty(ty))
    BY <1>1, <1>7, <1>8, NewNode
  <1>10. f.todo = Tail(Top.todo) /\ f.own = c /\ f.local
    <2> DEFINE w == Tail(Top.todo)
               cc == c
    <2>1. f = [Proceed EXCEPT !.own = cc, !.local = TRUE]
      OBVIOUS
    <2> HIDE DEF cc
    <2>2. Proceed = [todo |-> w, own |-> Top.own, local |-> Top.local]
      BY <1>6, Changed DEF Proceed
    <2> HIDE DEF w, f
    <2>3. f = [todo |-> w, own |-> cc, local |-> TRUE]
      BY <2>1, <2>2
    <2> QED BY <2>3 DEF w, cc
  <1> HIDE DEF f, g, c
  <1>l. Linked(heap, g, 0, c)
    <2>1. Len(heap) <= Len(g) /\ \A n \in 1..Len(heap) : n # 0
      BY <1>6, <1>9, <1>c
    <2> QED BY <1>9, <2>1 DEF Linked
  <1>11. /\ N = Len(stack') /\ \A i \in 1..(N - 1) : stack'[i] = stack[i]
         /\ stack'[N] = f
    BY <1>1, StackSet
  <1>12. /\ \A i \in 1..N : stack[i].own \in 1..Len(heap)
         /\ N > 1 /\ stack[N].own = stack[N - 1].own
    <2>1. a[N].adds # {}
      BY <1>2, <1>4
    <2> QED BY <1>2, <1>6, <1>8, <2>1, OthersWork
  <1>13. N - 1 \in 1..N /\ N - 1 # N /\ N - 1 + 1 = N /\ N - 1 \in 1..(N - 1)
    BY <1>6, <1>12
  <1>14. \A i \in 1..N : Kept(heap, g, stack[i].own)
    <2>1. \A n \in 1..Len(heap) : n # 0
      BY <1>6
    <2> QED BY <1>8, <1>12, <1>l, <2>1, LinkedKeeps
  <1>15. Waits(g, stack[N - 1].own, Due(g, f, C), a[N - 1].nodes)
    <2>1. Due(g, f, C) = {ty}
      BY <1>5, <1>9, <1>10 DEF Due
    <2>2. Pending(stack, heap, a, N - 1) = X.adds
      BY <1>2, <1>4, <1>13 DEF Pending, Due
    <2>3. a[N - 1].adds = {}
      BY <1>2, <1>13 DEF Informed, Placed
    <2>4. Waits(heap, stack[N - 1].own, X.adds, a[N - 1].nodes)
      BY <1>2, <1>13, <2>2, <2>3 DEF Informed, Stated
    <2>5. Waits(heap, stack[N - 1].own, {ty}, a[N - 1].nodes)
      BY <1>4, <2>4 DEF Waits
    <2>6. Kept(heap, g, stack[N - 1].own)
      BY <1>13, <1>14
    <2>7. Waits(g, stack[N - 1].own, {ty}, a[N - 1].nodes)
      <3> DEFINE P == {ty}
      <3>1. Waits(heap, stack[N - 1].own, P, a[N - 1].nodes)
        BY <2>5
      <3> HIDE DEF P
      <3>2. Waits(g, stack[N - 1].own, P, a[N - 1].nodes)
        BY <2>6, <3>1, WaitsKept
      <3> QED BY <3>2 DEF P
    <2> QED BY <2>1, <2>7
  <1>16. Informed(stack', g, current_token, Learned(a, N, C))
    <2>1. \A i \in 1..(N - 2) : Kept(heap, g, stack[i].own)
      <3>1. \A i \in 1..(N - 2) : i \in 1..N
        BY <1>6
      <3> QED BY <1>14, <3>1
    <2>2. g[stack[N - 1].own].type = heap[stack[N - 1].own].type
      BY <1>13, <1>14 DEF Kept
    <2>4. Waits(g, f.own, {}, C.nodes)
      BY <1>5, <1>9, <1>10 DEF Waits
    <2>5. \A j \in 1..(N - 1) : stack[j].own < f.own
      <3>1. \A j \in 1..(N - 1) : j \in 1..N
        BY <1>6
      <3> QED BY <1>c, <1>10, <1>12, <3>1
    <2>6. Leads(f.todo, C, Goal(a, N))
      BY <1>3, <1>10
    <2> QED BY <1>2, <1>5, <1>6, <1>11, <1>15, <2>1, <2>2, <2>4, <2>5, <2>6, TopInformed
  <1>17. Tended(stack', g)
    <2>1. Tended(stack, heap)
      BY <1>1 DEF TreeInv
    <2>2. \A i \in 1..N : i \in 1..(N - 1) \/ i = N
      BY <1>6
    <2>3. Owned(stack', c)
      BY <1>6, <1>10, <1>11 DEF Owned
    <2>4. ASSUME NEW n \in 1..Len(heap) PROVE Owned(stack', n) <=> Owned(stack, n)
      <3>1. n # c
        BY <1>c
      <3>2. \A i \in 1..(N - 1) : i \in 1..N /\ stack'[i] = stack[i]
        BY <1>6, <1>11
      <3>3. stack'[N].own = c /\ stack[N].own = stack[N - 1].own /\ Len(stack') = N
        BY <1>6, <1>10, <1>11, <1>12
      <3> HIDE DEF N
      <3>4. Owned(stack', n) => Owned(stack, n)
        <4> SUFFICES ASSUME NEW i \in 1..N, stack'[i].own = n PROVE Owned(stack, n)
          BY <3>3 DEF Owned
        <4>1. i \in 1..(N - 1)
          BY <2>2, <3>1, <3>3
        <4> QED BY <3>2, <4>1 DEF Owned, N
      <3>5. Owned(stack, n) => Owned(stack', n)
        <4> SUFFICES ASSUME NEW i \in 1..N, stack[i].own = n PROVE Owned(stack', n)
          BY DEF Owned, N
        <4>1. \E j \in 1..(N - 1) : stack[j].own = n
          BY <1>13, <2>2, <3>3
        <4> QED BY <3>2, <3>3, <4>1 DEF Owned
      <3> QED BY <3>4, <3>5
    <2>5. ~(0 \in 1..Len(heap))
      OBVIOUS
    <2>6. /\ Len(g) = Len(heap) + 1 /\ Sound(g, Len(g)) /\ Untagged(g, Len(g))
          /\ Owned(stack', Len(g)) \/ Built(g, Len(g))
      BY <1>9, <1>c, <2>3
    <2> QED BY <1>8, <1>c, <1>l, <2>1, <2>4, <2>5, <2>6, LinkedTended
  <1> QED BY <1>1, <1>16, <1>17 DEF TreeInv, g

LEMMA AttachFits == ParserInv /\ TreeInv /\ AttachNode => TreeInv'
  <1> SUFFICES ASSUME ParserInv, TreeInv, AttachNode PROVE TreeInv'
    OBVIOUS
  <1> DEFINE N == Len(stack)
             p == Caller.own
             c == Top.own
             f == [Proceed EXCEPT !.local = FALSE]
             g == heap'
  <1>1. /\ phase = "parsing" /\ stack # <<>> /\ Top.todo # <<>> /\ Instr.op = "attach" /\ phase' = phase
        /\ g = WithChild(heap, p, c)
        /\ stack' = SetTop(f) /\ current_token' = current_token
    BY DEF AttachNode, Does, Instr, current_token, At
  <1>2. PICK a, X : /\ Informed(stack, heap, current_token, a)
                    /\ current_token \in X.tokens /\ X.adds = a[N].adds
                    /\ X.adds = {} => Waits(heap, c, {}, X.nodes)
                    /\ \E C : Does1(X, Instr, C) /\ Leads(Tail(Top.todo), C, Goal(a, N))
    BY <1>1, Knows
  <1>3. PICK C : Does1(X, Instr, C) /\ Leads(Tail(Top.todo), C, Goal(a, N))
    BY <1>2
  <1>4. X.adds = {} /\ Leq(X, C)
    BY <1>1, <1>3 DEF Does1
  <1>5. C.adds = {} /\ X.nodes \subseteq C.nodes /\ current_token \in C.tokens
    BY <1>2, <1>4 DEF Leq
  <1>6. /\ Top \in CallFrame /\ c \in 1..Len(heap) /\ N \in Nat \ {0} /\ N \in 1..N /\ Top = stack[N]
        /\ Works(Top, N) /\ Top.local \in BOOLEAN /\ Len(heap) \in Nat /\ (Top.local => N > 1)
    BY <1>1, TopIs
  <1>7. Top.local /\ N > 1
    BY <1>1, <1>6, Instructions DEF Instr
  <1>8. IsHeap(heap) /\ Calls(stack, heap) /\ heap \in Seq(Node) /\ Forest(heap, Roots(stack))
    BY <1>1 DEF ParserInv, IsHeap
  <1>9. /\ N - 1 \in 1..N /\ N - 1 # N /\ N - 1 + 1 = N /\ N - 1 \in 1..(N - 1) /\ N \in Nat \ {0, 1}
        /\ \A i \in 1..N : i \in 1..(N - 1) \/ i = N
    BY <1>6, <1>7
  <1>10. p = stack[N - 1].own
    BY DEF Caller
  <1>11. /\ \A i \in 1..N : stack[i].own \in 1..Len(heap)
         /\ \A i \in 1..(N - 2) : stack[i].own # stack[N - 1].own
         /\ \A i \in 1..(N - 1) : stack[i].own < c
    BY <1>2, <1>4, <1>6, <1>8, OthersWork
  <1>12. p \in 1..Len(heap) /\ p < c /\ p # c /\ c \in Nat
    <2>1. p \in 1..Len(heap) /\ p < c
      BY <1>9, <1>10, <1>11
    <2> HIDE DEF p, c
    <2> QED BY <1>6, <2>1
  <1>13. \A n \in 1..Len(heap) : ~Contains(heap[n].kids, c)
    <2>1. c \in Roots(stack)
      BY <1>1, <1>6, <1>7, <1>8, LastRoot
    <2> QED BY <1>8, <2>1 DEF Forest
  <1>14. f.todo = Tail(Top.todo) /\ f.own = c /\ ~f.local
    <2> DEFINE w == Tail(Top.todo)
    <2>1. f = [Proceed EXCEPT !.local = FALSE]
      OBVIOUS
    <2>2. Proceed = [todo |-> w, own |-> Top.own, local |-> Top.local]
      BY <1>6, Changed DEF Proceed
    <2> HIDE DEF w, f
    <2>3. f = [todo |-> w, own |-> Top.own, local |-> FALSE]
      BY <2>1, <2>2
    <2> QED BY <2>3 DEF w
  <1> HIDE DEF f, g, c, p
  <1>15. Len(g) = Len(heap) /\ Linked(heap, g, p, c)
    BY <1>1, <1>8, <1>12, ChildLinked
  <1>16. /\ N = Len(stack') /\ \A i \in 1..(N - 1) : stack'[i] = stack[i]
         /\ stack'[N] = f
    BY <1>1, StackSet
  <1>17. Tended(stack, heap) /\ Owned(stack, c) /\ Owned(stack, p)
    BY <1>1, <1>6, <1>9, <1>10 DEF TreeInv, Owned, c
  <1>18. g[c].type = heap[c].type /\ Untagged(g, c)
    <2>1. Untagged(heap, c)
      BY <1>6, <1>17 DEF Tended, c
    <2> QED BY <1>6, <1>15, <2>1 DEF Linked, Untagged, c
  <1>19. Grown(heap, g, p, c)
    BY <1>8, <1>12, <1>15, LinkedKeeps
  <1>20. Waits(g, stack[N - 1].own, {}, a[N - 1].nodes)
    <2>1. Pending(stack, heap, a, N - 1) = {heap[c].type}
      BY <1>2, <1>4, <1>6, <1>7, <1>9 DEF Pending, Due, c
    <2> QED BY <1>2, <1>9, <1>10, <1>18, <1>19, <2>1, ChildGiven
  <1>21. Kept(heap, g, c)
    BY <1>6, <1>8, <1>12, <1>15, LinkedKeeps DEF c
  <1>22. Informed(stack', g, current_token, Learned(a, N, C))
    <2>1. \A i \in 1..(N - 2) : Kept(heap, g, stack[i].own)
      <3>1. \A i \in 1..(N - 2) : i \in 1..N
        BY <1>6
      <3> QED BY <1>8, <1>10, <1>11, <1>15, <3>1, LinkedKeeps
    <2>2. g[stack[N - 1].own].type = heap[stack[N - 1].own].type
      BY <1>10, <1>19 DEF Grown
    <2>3. Due(g, f, C) = {}
      BY <1>5, <1>14 DEF Due
    <2>4. Waits(g, f.own, {}, C.nodes)
      <3>1. Waits(heap, c, {}, C.nodes)
        BY <1>2, <1>4, <1>5, WaitsMore
      <3> QED BY <1>14, <1>21, <3>1, WaitsKept
    <2>5. \A j \in 1..(N - 1) : stack[j].own < f.own
      BY <1>11, <1>14
    <2>6. Leads(f.todo, C, Goal(a, N))
      BY <1>3, <1>14
    <2> QED BY <1>2, <1>5, <1>6, <1>16, <1>20, <2>1, <2>2, <2>3, <2>4, <2>5, <2>6, TopInformed
  <1>23. Tended(stack', g)
    <2>1. \A n : Owned(stack', n) <=> Owned(stack, n)
      BY <1>6, <1>14, <1>16, OwnersKept DEF c
    <2>2. p \in 1..Len(heap) => Owned(stack, p) /\ Owned(stack', p) /\ ~Contains(heap[p].kids, c)
      BY <1>13, <1>17, <2>1
    <2> QED BY <1>8, <1>12, <1>15, <1>17, <2>1, <2>2, LinkedTended
  <1> QED BY <1>1, <1>22, <1>23 DEF TreeInv, g

\* From h to g: node n has the flag f too.
Flies(h, g, n, f) ==
    /\ Len(g) = Len(h)
    /\ \A k \in 1..Len(h) :
          /\ g[k].type = h[k].type /\ g[k].kids = h[k].kids
          /\ g[k].flags = IF k = n THEN h[k].flags \cup {f} ELSE h[k].flags

LEMMA FlagFlies ==
    ASSUME NEW h \in Seq(Node), NEW n \in 1..Len(h), NEW f \in Flags
    PROVE  Flies(h, WithFlag(h, n, f), n, f)
  <1> DEFINE w == h[n].flags \cup {f}
             e == [h[n] EXCEPT !.flags = w]
             g == [h EXCEPT ![n] = e]
  <1>1. h[n] \in Node
    BY ElementOfSeq
  <1>2. w \in SUBSET Flags
    BY <1>1 DEF Node
  <1>3. WithFlag(h, n, f) = g
    BY DEF WithFlag
  <1>w. w = h[n].flags \cup {f}
    OBVIOUS
  <1> HIDE DEF w
  <1>4. e \in Node /\ e.type = h[n].type /\ e.flags = w /\ e.kids = h[n].kids
    BY <1>1, <1>2 DEF Node
  <1> HIDE DEF e
  <1>5. Len(g) = Len(h) /\ \A k \in 1..Len(h) : g[k] = IF k = n THEN e ELSE h[k]
    BY <1>4, ExceptSeq
  <1> HIDE DEF g
  <1>6. ASSUME NEW k \in 1..Len(h)
        PROVE  /\ g[k].type = h[k].type /\ g[k].kids = h[k].kids
               /\ g[k].flags = IF k = n THEN h[k].flags \cup {f} ELSE h[k].flags
    <2>1. CASE k = n
      BY <1>4, <1>5, <1>w, <2>1
    <2>2. CASE k # n
      BY <1>5, <2>2
    <2> QED BY <2>1, <2>2
  <1>7. Flies(h, g, n, f)
    BY <1>5, <1>6 DEF Flies
  <1> QED BY <1>3, <1>7

\* The last child of a node whose children are all of the types of T.
LEMMA LastChild ==
    ASSUME NEW h, IsHeap(h), NEW n \in 1..Len(h), NEW q, NEW T, InState(h, n, q),
           q.shape.first = <<T>>, q.shape.many \subseteq T, q.shape.last = <<>>
    PROVE  LET ks == h[n].kids
           IN  /\ Len(ks) \in Nat \ {0} /\ Len(ks) \in 1..Len(ks)
               /\ ks[Len(ks)] \in 1..Len(h) /\ ks[Len(ks)] > n /\ h[ks[Len(ks)]].type \in T
  <1> DEFINE ks == h[n].kids
             N == Len(ks)
             s == q.shape
  <1>1. ks \in Seq(Nat) /\ \A i \in 1..N : ks[i] \in 1..Len(h) /\ ks[i] > n
    BY KidsAre
  <1>2. N \in Nat
    BY <1>1
  <1>3. Len(s.first) = 1 /\ Len(s.last) = 0 /\ s.first[1] = T
    OBVIOUS
  <1>4. Fits(h, ks, s) /\ s.many \subseteq T
    BY DEF InState
  <1> HIDE DEF s, ks
  <1>5. N >= 1 + 0
    BY <1>3, <1>4 DEF Fits
  <1> HIDE DEF N
  <1>6. N \in 1..N /\ N # 0 /\ ~(N > N - 0) /\ (N <= 1 => N = 1)
    BY <1>2, <1>5
  <1>7. h[ks[N]].type \in IF N <= 1 THEN s.first[N] ELSE IF N > N - 0 THEN s.last[N - (N - 0)] ELSE s.many
    BY <1>3, <1>4, <1>6 DEF Fits, N
  <1>8. h[ks[N]].type \in T
    BY <1>3, <1>4, <1>6, <1>7
  <1> QED BY <1>1, <1>2, <1>6, <1>8 DEF N, ks

\* A flag that is no operator changes no state.
LEMMA PlainFlag ==
    ASSUME NEW h, NEW g, NEW n, NEW f, IsHeap(h), Flies(h, g, n, f), f \notin {"AND", "OR"},
           f \in FlagsAllowed[h[n].type], NEW m \in 1..Len(h)
    PROVE  /\ Kept(h, g, m) /\ (Untagged(h, m) => Untagged(g, m))
           /\ Sound(h, m) => Sound(g, m)
  <1>1. \A k \in 1..Len(h) : (Untagged(g, k) <=> Untagged(h, k)) /\ (Tagged(g, k) <=> Tagged(h, k))
    BY DEF Flies, Untagged, Tagged
  <1>2. \A i \in 1..Len(h[m].kids) : h[m].kids[i] \in 1..Len(h)
    BY KidsAre
  <1>3. Kept(h, g, m)
    <2>1. g[m].type = h[m].type /\ g[m].kids = h[m].kids
      BY DEF Flies
    <2>2. \A i \in 1..Len(h[m].kids) : g[h[m].kids[i]].type = h[h[m].kids[i]].type
      BY <1>2 DEF Flies
    <2> QED BY <1>1, <1>2, <2>1, <2>2 DEF Kept
  <1>4. Sound(h, m) => Sound(g, m)
    BY DEF Sound, Flies
  <1> QED BY <1>1, <1>3, <1>4

\* n is the last child of p; a node has one parent.
IsLast(h, p, n) == n = h[p].kids[Len(h[p].kids)]
OneParent(h) == \A p, q, m \in 1..Len(h) : Contains(h[p].kids, m) /\ Contains(h[q].kids, m) => p = q

\* From h to g: node n, the last pipeline of p, has got the operator f.
Operated(h, g, p, n, f) ==
    /\ InState(g, p, Pipelines)
    /\ \A m \in 1..Len(h) : (m # p => Kept(h, g, m)) /\ (m # n /\ Untagged(h, m) => Untagged(g, m))
    /\ \A m \in 1..Len(h) : Sound(h, m) => Sound(g, m)

\* The last pipeline gets its operator.
LEMMA OperatorFlag ==
    ASSUME NEW h, NEW g, NEW p \in 1..Len(h), NEW n, NEW f, f \in {"AND", "OR"}, IsHeap(h), OneParent(h),
           InState(h, p, OpenPipelines), Sound(h, p), IsLast(h, p, n), Flies(h, g, n, f)
    PROVE  Operated(h, g, p, n, f)
  <1> DEFINE ks == h[p].kids
             N == Len(ks)
             q == OpenPipelines
  <1>1. /\ q.type = "AND_OR" /\ q.open = TRUE /\ q.shape.first = <<{"PIPELINE"}>> /\ q.shape.many = {"PIPELINE"}
        /\ q.shape.last = <<>>
        /\ Pipelines.type = "AND_OR" /\ Pipelines.open = FALSE /\ Pipelines.shape = q.shape
    <2> DEFINE s == Many(<<{"PIPELINE"}>>, {"PIPELINE"}, <<>>)
    <2>1. s.first = <<{"PIPELINE"}>> /\ s.many = {"PIPELINE"} /\ s.last = <<>>
      BY DEF Many
    <2> HIDE DEF s
    <2>2. Pipelines = [type |-> "AND_OR", shape |-> s, open |-> FALSE]
      BY DEF Pipelines, St, s
    <2>3. q = [type |-> "AND_OR", shape |-> s, open |-> TRUE]
      BY <2>2 DEF OpenPipelines
    <2> QED BY <2>1, <2>2, <2>3
  <1>2. N \in Nat \ {0} /\ N \in 1..N /\ ks[N] = n /\ n \in 1..Len(h) /\ h[n].type = "PIPELINE"
    <2> DEFINE T == {"PIPELINE"}
    <2>1. q.shape.first = <<T>> /\ q.shape.many \subseteq T
      BY <1>1
    <2> HIDE DEF T, q
    <2>2. N \in Nat \ {0} /\ N \in 1..N /\ ks[N] \in 1..Len(h) /\ h[ks[N]].type \in T
      BY <1>1, <2>1, LastChild DEF q
    <2> QED BY <2>2 DEF T, IsLast
  <1>3. \A m \in 1..Len(h) : \A i \in 1..Len(h[m].kids) : h[m].kids[i] \in 1..Len(h)
    BY KidsAre
  <1>4. ASSUME NEW m \in 1..Len(h), m # p, NEW i \in 1..Len(h[m].kids) PROVE h[m].kids[i] # n
    <2>1. Contains(h[p].kids, n)
      BY <1>2 DEF Contains
    <2>2. ~Contains(h[m].kids, n)
      BY <1>2, <1>4, <2>1 DEF OneParent
    <2> QED BY <2>2 DEF Contains
  <1>5. ASSUME NEW m \in 1..Len(h), m # p PROVE Kept(h, g, m)
    <2>1. g[m].type = h[m].type /\ g[m].kids = h[m].kids
      BY DEF Flies
    <2>2. \A i \in 1..Len(h[m].kids) : /\ g[h[m].kids[i]].type = h[h[m].kids[i]].type
                                       /\ g[h[m].kids[i]].flags = h[h[m].kids[i]].flags
      BY <1>3, <1>4, <1>5 DEF Flies
    <2> QED BY <2>1, <2>2 DEF Kept, Tagged, Untagged
  <1>6. \A m \in 1..Len(h) : m # n /\ Untagged(h, m) => Untagged(g, m)
    BY DEF Flies, Untagged
  <1>7. ASSUME NEW m \in 1..Len(h), Sound(h, m) PROVE Sound(g, m)
    <2>1. g[m].type = h[m].type /\ g[m].kids = h[m].kids
      BY DEF Flies
    <2>2. {"AND", "OR"} \subseteq FlagsAllowed["PIPELINE"]
      BY DEF FlagsAllowed, NodeType
    <2>3. g[m].flags \subseteq FlagsAllowed[g[m].type]
      <3>1. h[m].flags \subseteq FlagsAllowed[h[m].type]
        BY <1>7 DEF Sound
      <3>2. CASE m = n
        <4>1. g[m].flags = h[m].flags \cup {f} /\ h[m].type = "PIPELINE"
          BY <1>2, <3>2 DEF Flies
        <4> QED BY <2>1, <2>2, <3>1, <4>1
      <3>3. CASE m # n
        <4>1. g[m].flags = h[m].flags
          BY <3>3 DEF Flies
        <4> QED BY <2>1, <3>1, <4>1
      <3> QED BY <3>2, <3>3
    <2> QED BY <1>7, <2>1, <2>3 DEF Sound
  <1>8. InState(g, p, Pipelines)
    <2>1. g[p].type = "AND_OR" /\ g[p].kids = ks
      BY <1>1 DEF Flies, InState
    <2>2. Fits(g, ks, q.shape)
      <3>1. \A i \in 1..N : g[ks[i]].type = h[ks[i]].type
        BY <1>3 DEF Flies
      <3> QED BY <3>1 DEF InState, Fits
    <2>3. Joined(g, ks, FALSE)
      <3> SUFFICES ASSUME NEW i \in 1..N PROVE Tagged(g, ks[i])
        BY DEF Joined
      <3>1. Joined(h, ks, TRUE)
        BY <1>1 DEF InState
      <3>2. CASE i = N
        <4>1. Untagged(h, n)
          BY <1>2, <3>1 DEF Joined
        <4>2. g[n].flags = h[n].flags \cup {f}
          BY <1>2 DEF Flies
        <4>3. ks[i] = n
          BY <1>2, <3>2
        <4>4. CASE f = "AND"
          <5>1. "AND" \in g[n].flags /\ "OR" \notin g[n].flags
            BY <4>1, <4>2, <4>4 DEF Untagged
          <5> QED BY <4>3, <5>1 DEF Tagged
        <4>5. CASE f = "OR"
          <5>1. "OR" \in g[n].flags /\ "AND" \notin g[n].flags
            BY <4>1, <4>2, <4>5 DEF Untagged
          <5> QED BY <4>3, <5>1 DEF Tagged
        <4> QED BY <4>4, <4>5
      <3>3. CASE i # N
        <4>1. Tagged(h, ks[i])
          BY <3>1, <3>3 DEF Joined
        <4>2. ks[i] # n
          BY <1>2, <3>3 DEF Sound
        <4> QED BY <1>3, <4>1, <4>2 DEF Flies, Tagged
      <3> QED BY <3>2, <3>3
    <2> HIDE DEF ks
    <2> QED BY <1>1, <2>1, <2>2, <2>3 DEF InState
  <1> QED BY <1>5, <1>6, <1>7, <1>8 DEF Operated

\* What a complete node has.
LEMMA FinalShape ==
    ASSUME NEW q \in Final
    PROVE  q.shape \in Shapes[q.type] /\ q.open = (q.type = "AND_OR")
  <1>1. PICK t \in NodeType : q \in {[type |-> t, shape |-> s, open |-> t = "AND_OR"] : s \in Shapes[t]}
    BY DEF Final
  <1> DEFINE b == (t = "AND_OR")
  <1>2. PICK s \in Shapes[t] : q = [type |-> t, shape |-> s, open |-> b]
    BY <1>1
  <1> HIDE DEF b
  <1>3. q.type = t /\ q.shape = s /\ q.open = b
    BY <1>2
  <1> QED BY <1>2, <1>3 DEF b

\* The node a flag that is no operator is put on.
LEMMA FlagPlace ==
    ASSUME ParserInv, TreeInv, phase = "parsing", stack # <<>>, Top.own \in 1..Len(heap),
           NEW q, NEW u, NEW f, NEW d, Flagged(q, f, d, u), InState(heap, Top.own, q),
           NEW n, n = IF d = 0 THEN Top.own ELSE IF d = 1 THEN LastKid(Top.own) ELSE LastKid(LastKid(Top.own))
    PROVE  /\ n \in 1..Len(heap)
           /\ f \in {"AND", "OR"} => q = OpenPipelines /\ u = Pipelines /\ n = LastKid(Top.own) /\ n > Top.own
           /\ f \notin {"AND", "OR"} => u = q /\ f \in FlagsAllowed[heap[n].type]
  <1> DEFINE p == Top.own
  <1>0. IsHeap(heap) /\ p \in 1..Len(heap)
    BY DEF ParserInv
  <1>1. FlagsAllowed["AND_OR"] = {"BACKGROUND"}
    BY DEF FlagsAllowed, NodeType
  <1>2. CASE d = 0 /\ f \in FlagsAllowed[q.type] /\ f \notin {"AND", "OR"} /\ u = q
    BY <1>2 DEF InState
  <1> DEFINE T == {"AND_OR"}
             L == Many(<<T>>, T, <<>>)
  <1>3. L.first = <<T>> /\ L.many = T /\ L.last = <<>>
    BY DEF Many
  <1>4. CASE d = 1 /\ f = "BACKGROUND" /\ q = AndOrs /\ u = q
    <2>1. q.shape = L
      BY <1>4 DEF AndOrs, St
    <2> HIDE DEF L, T, p
    <2>2. q.shape.first = <<T>> /\ q.shape.many \subseteq T /\ q.shape.last = <<>> /\ InState(heap, p, q)
      BY <1>3, <2>1 DEF p
    <2>3. LastKid(p) \in 1..Len(heap) /\ heap[LastKid(p)].type \in T
      BY <1>0, <2>2, LastChild DEF LastKid
    <2>4. n = LastKid(p) /\ f \notin {"AND", "OR"}
      BY <1>4 DEF p
    <2> QED BY <1>1, <1>4, <2>3, <2>4 DEF T
  <1>5. CASE d = 1 /\ f \in {"AND", "OR"} /\ q = OpenPipelines /\ u = Pipelines
    <2> DEFINE S == {"PIPELINE"}
    <2>1. q.shape.first = <<S>> /\ q.shape.many \subseteq S /\ q.shape.last = <<>> /\ InState(heap, p, q)
      BY <1>5 DEF OpenPipelines, Pipelines, St, Many
    <2>2. n = LastKid(p)
      BY <1>5
    <2> HIDE DEF S, p
    <2>3. LastKid(p) \in 1..Len(heap) /\ LastKid(p) > p
      BY <1>0, <2>1, LastChild DEF LastKid
    <2> QED BY <1>5, <2>2, <2>3 DEF p
  <1>6. CASE d = 2 /\ f = "BACKGROUND" /\ q = St("COMPLETE_COMMAND", Plain(<<{"LIST"}>>)) /\ u = q
    <2> DEFINE S == {"LIST"}
               m == LastKid(p)
    <2>1. q.shape.first = <<S>> /\ q.shape.many \subseteq S /\ q.shape.last = <<>> /\ InState(heap, p, q)
      BY <1>6 DEF St, Plain
    <2>2. n = LastKid(m)
      BY <1>6
    <2> HIDE DEF S, T, L, p
    <2>3. m \in 1..Len(heap) /\ m > p /\ heap[m].type \in S
      BY <1>0, <2>1, LastChild DEF LastKid
    <2> HIDE DEF m
    <2>4. ~Owned(stack, m)
      <3> SUFFICES ASSUME NEW i \in 1..Len(stack), stack[i].own = m PROVE FALSE
        BY DEF Owned
      <3>1. Len(stack) \in Nat \ {0} /\ Len(stack) \in 1..Len(stack) /\ Top = stack[Len(stack)]
        BY TopIs
      <3>2. stack[i].own <= p
        <4>1. p <= p
          BY <1>0
        <4>2. i = Len(stack) \/ i < Len(stack)
          BY <3>1
        <4> QED BY <3>1, <4>1, <4>2 DEF ParserInv, Calls, p
      <3>3. \A x \in 1..Len(heap) : ~(x > p /\ x <= p)
        BY <1>0
      <3> QED BY <2>3, <3>2, <3>3
    <2>5. Built(heap, m)
      BY <2>3, <2>4 DEF TreeInv, Tended
    <2>6. PICK w \in Final : InState(heap, m, w)
      BY <2>5 DEF Built
    <2>7. w.shape = L
      <3>1. w.type = "LIST" /\ w.shape \in Shapes[w.type]
        BY <2>3, <2>6, FinalShape DEF InState, S
      <3>2. Shapes["LIST"] = {Many(<<{"AND_OR"}>>, {"AND_OR"}, <<>>)}
        BY DEF Shapes
      <3> QED BY <3>1, <3>2 DEF L, T
    <2>8. w.shape.first = <<T>> /\ w.shape.many \subseteq T /\ w.shape.last = <<>>
      BY <1>3, <2>7
    <2>9. LastKid(m) \in 1..Len(heap) /\ heap[LastKid(m)].type \in T
      BY <1>0, <2>3, <2>6, <2>8, LastChild DEF LastKid
    <2> QED BY <1>1, <1>6, <2>2, <2>9 DEF T
  <1> QED BY <1>2, <1>4, <1>5, <1>6 DEF Flagged

LEMMA FlagFits == ParserInv /\ TreeInv /\ SetFlag => TreeInv'
  <1> SUFFICES ASSUME ParserInv, TreeInv, SetFlag PROVE TreeInv'
    OBVIOUS
  <1> DEFINE N == Len(stack)
             p == Top.own
             d == Instr.depth
             f == Instr.flag
             n == IF d = 0 THEN p ELSE IF d = 1 THEN LastKid(p) ELSE LastKid(LastKid(p))
             g == heap'
  <1>1. /\ phase = "parsing" /\ stack # <<>> /\ Top.todo # <<>> /\ Instr.op = "flag" /\ phase' = phase
        /\ g = WithFlag(heap, n, f)
        /\ stack' = SetTop(Proceed) /\ current_token' = current_token
    BY DEF SetFlag, Does, Instr, current_token, At, WithFlag
  <1>2. PICK a, X : /\ Informed(stack, heap, current_token, a)
                    /\ current_token \in X.tokens /\ X.adds = a[N].adds
                    /\ X.adds = {} => Waits(heap, p, {}, X.nodes)
                    /\ \E C : Does1(X, Instr, C) /\ Leads(Tail(Top.todo), C, Goal(a, N))
    BY <1>1, Knows
  <1>3. PICK C : Does1(X, Instr, C) /\ Leads(Tail(Top.todo), C, Goal(a, N))
    BY <1>2
  <1>4. /\ X.adds = {} /\ C.adds = {} /\ X.tokens \subseteq C.tokens
        /\ \A s \in X.nodes : \E u \in C.nodes : Flagged(s, f, d, u)
    BY <1>1, <1>3 DEF Does1
  <1>5. PICK q \in X.nodes : InState(heap, p, q)
    BY <1>2, <1>4 DEF Waits
  <1>6. PICK u \in C.nodes : Flagged(q, f, d, u)
    BY <1>4, <1>5
  <1>7. /\ p \in 1..Len(heap) /\ N \in Nat \ {0} /\ N \in 1..N /\ Top = stack[N]
        /\ Works(Top, N) /\ Top.local \in BOOLEAN
    BY <1>1, TopIs
  <1>8. f \in Flags
    BY <1>1, <1>7, Instructions DEF Instr
  <1>9. IsHeap(heap) /\ Calls(stack, heap) /\ heap \in Seq(Node) /\ Forest(heap, Roots(stack))
    BY <1>1 DEF ParserInv, IsHeap
  <1>10. Tended(stack, heap) /\ Owned(stack, p)
    BY <1>1, <1>7 DEF TreeInv, Owned
  <1>n. n = IF d = 0 THEN p ELSE IF d = 1 THEN LastKid(p) ELSE LastKid(LastKid(p))
    OBVIOUS
  <1> HIDE DEF n, d, f, g
  <1>11. /\ n \in 1..Len(heap)
         /\ f \in {"AND", "OR"} => q = OpenPipelines /\ u = Pipelines /\ n = LastKid(p) /\ n > p
         /\ f \notin {"AND", "OR"} => u = q /\ f \in FlagsAllowed[heap[n].type]
    BY <1>1, <1>5, <1>6, <1>7, <1>n, FlagPlace
  <1>12. Flies(heap, g, n, f)
    BY <1>1, <1>8, <1>9, <1>11, FlagFlies
  <1>13. \A i \in 1..N : stack[i].own \in 1..Len(heap) /\ stack[i].own <= p
    <2> SUFFICES ASSUME NEW i \in 1..N PROVE stack[i].own \in 1..Len(heap) /\ stack[i].own <= p
      OBVIOUS
    <2>1. p <= p
      BY <1>7
    <2>2. i = N \/ i < N
      BY <1>7
    <2> QED BY <1>7, <1>9, <2>1, <2>2 DEF Calls
  <1>14. /\ InState(g, p, u)
         /\ \A m \in 1..Len(heap) : m # p => Kept(heap, g, m)
         /\ \A m \in 1..Len(heap) : Sound(heap, m) => Sound(g, m)
         /\ \A m \in 1..Len(heap) : Owned(stack, m) /\ Untagged(heap, m) => Untagged(g, m)
    <2>1. CASE f \notin {"AND", "OR"}
      <3>1. \A m \in 1..Len(heap) : /\ Kept(heap, g, m) /\ (Untagged(heap, m) => Untagged(g, m))
                                    /\ Sound(heap, m) => Sound(g, m)
        BY <1>9, <1>11, <1>12, <2>1, PlainFlag
      <3>2. InState(g, p, q)
        BY <1>5, <1>7, <3>1, StateKept
      <3> QED BY <1>11, <2>1, <3>1, <3>2
    <2>2. CASE f \in {"AND", "OR"}
      <3>1. Sound(heap, p)
        BY <1>7, <1>10 DEF Tended
      <3>2. InState(heap, p, OpenPipelines) /\ n = heap[p].kids[Len(heap[p].kids)]
        BY <1>5, <1>11, <2>2 DEF LastKid
      <3>3. IsLast(heap, p, n) /\ OneParent(heap)
        BY <1>9, <3>2 DEF Forest, OneParent, IsLast
      <3> HIDE DEF p
      <3>4. Operated(heap, g, p, n, f)
        BY <1>7, <1>9, <1>12, <2>2, <3>1, <3>2, <3>3, OperatorFlag
      <3>5. \A m \in 1..Len(heap) : Owned(stack, m) => m # n
        <4>1. \A x \in 1..Len(heap) : ~(x <= p /\ x > p)
          BY <1>7
        <4> QED BY <1>11, <1>13, <2>2, <4>1 DEF Owned
      <3> QED BY <1>11, <2>2, <3>4, <3>5 DEF Operated
    <2> QED BY <2>1, <2>2
  <1>15. /\ N = Len(stack') /\ \A i \in 1..(N - 1) : stack'[i] = stack[i]
         /\ stack'[N] = Proceed
    BY <1>1, StackSet
  <1>16. Proceed.todo = Tail(Top.todo) /\ Proceed.own = Top.own /\ Proceed.local = Top.local
    BY <1>1, ProceedsTo
  <1>17. Informed(stack', g, current_token, Learned(a, N, C))
    <2>1. \A i \in 1..(N - 1) : stack[i].own \in 1..Len(heap) /\ stack[i].own < p
      <3>1. \A i \in 1..(N - 1) : i \in 1..N
        BY <1>7
      <3> QED BY <1>2, <1>4, <1>7, <1>9, <3>1, OthersWork
    <2>2. \A i \in 1..(N - 1) : stack[i].own # p
      <3>1. \A m \in 1..Len(heap) : ~(m < m)
        OBVIOUS
      <3> QED BY <1>7, <2>1, <3>1
    <2>3. \A i \in 1..(N - 1) : Kept(heap, g, stack[i].own)
      BY <1>14, <2>1, <2>2
    <2>4. g[p].type = heap[p].type
      BY <1>7, <1>12 DEF Flies
    <2>5. current_token \in C.tokens /\ Leads(stack'[N].todo, C, Goal(a, N))
      BY <1>2, <1>3, <1>4, <1>15, <1>16
    <2>6. Waits(g, p, {}, C.nodes)
      BY <1>6, <1>14 DEF Waits
    <2> HIDE DEF N
    <2>7. /\ p = stack[N].own /\ stack'[N].own = stack[N].own /\ stack'[N].local = stack[N].local
          /\ a[N].adds = {}
      BY <1>2, <1>4, <1>7, <1>15, <1>16
    <2>8. Waits(g, stack[N].own, {}, C.nodes) /\ g[stack[N].own].type = heap[stack[N].own].type
      BY <2>4, <2>6, <2>7
    <2> QED BY <1>2, <1>4, <1>7, <1>15, <2>3, <2>5, <2>7, <2>8, TopWorks DEF N
  <1>18. Tended(stack', g)
    <2>1. \A m : Owned(stack', m) <=> Owned(stack, m)
      BY <1>7, <1>15, <1>16, OwnersKept
    <2>2. Len(g) = Len(heap)
      BY <1>12 DEF Flies
    <2>3. ASSUME NEW m \in 1..Len(heap)
          PROVE  Sound(g, m) /\ IF Owned(stack, m) THEN Untagged(g, m) ELSE Built(g, m)
      <3>1. Sound(heap, m) /\ IF Owned(stack, m) THEN Untagged(heap, m) ELSE Built(heap, m)
        BY <1>10 DEF Tended
      <3>2. ~Owned(stack, m) => Kept(heap, g, m)
        BY <1>10, <1>14
      <3> QED BY <1>14, <3>1, <3>2, BuiltKept
    <2> QED BY <2>1, <2>2, <2>3 DEF Tended
  <1> QED BY <1>1, <1>17, <1>18 DEF TreeInv, g

-----------------------------------------------------------------------------
(* Every step keeps the invariant.                                           *)

LEMMA TreeInit == Init => TreeInv
  <1> SUFFICES ASSUME Init PROVE TreeInv
    OBVIOUS
  <1> DEFINE e == ASTNodeCtor("PROGRAM", "")
             w == Body["Program"]
             A == Own({Commands})
             a == [i \in 1..1 |-> A]
  <1>1. phase = "parsing" /\ heap = <<e>> /\ stack = <<Frame("Program", 1)>> /\ ParserInv
    BY InitHolds DEF Init
  <1>2. e.type = "PROGRAM" /\ e.flags = {} /\ e.kids = <<>>
    BY DEF ASTNodeCtor
  <1>3. A.adds = {} /\ A.nodes = {Commands} /\ A.tokens = AnyToken
    BY DEF Own, Know
  <1>4. Leads(w, A, Done(AnyToken))
    <2>1. Leads(w, A, A)
      BY GoesLead DEF Goes
    <2>2. Commands \in Final
      <3> DEFINE s == Many(<<>>, {"COMPLETE_COMMAND"}, <<>>)
      <3>1. s \in Shapes["PROGRAM"] /\ "PROGRAM" \in NodeType
        BY DEF Shapes, NodeType
      <3> HIDE DEF s
      <3>2. St("PROGRAM", s) \in Final
        BY <3>1, FinalIs
      <3> QED BY <3>2 DEF Commands, s
    <2>3. Leads(w, A, Know({}, Final, AnyToken))
      <3> DEFINE K == {Commands}
      <3>1. Leads(w, A, Know({}, K, AnyToken)) /\ K \subseteq Final /\ AnyToken \subseteq AnyToken
        BY <2>1, <2>2 DEF Own
      <3> HIDE DEF K, w, A
      <3> QED BY <3>1, LeadsWider
    <2> HIDE DEF w, A
    <2> QED BY <2>3 DEF Done
  <1>5. InState(heap, 1, Commands)
    <2> DEFINE s == Many(<<>>, {"COMPLETE_COMMAND"}, <<>>)
               ks == <<>>
    <2>1. s.first = <<>> /\ s.last = <<>>
      BY DEF Many
    <2> HIDE DEF s
    <2>2. Commands = [type |-> "PROGRAM", shape |-> s, open |-> FALSE]
      BY DEF Commands, St, s
    <2>3. Len(ks) = 0 /\ Len(s.first) = 0 /\ Len(s.last) = 0 /\ 0 >= 0 + 0 /\ 1..0 = {}
      BY <2>1
    <2>4. heap[1].kids = ks /\ heap[1].type = "PROGRAM"
      BY <1>1, <1>2
    <2> HIDE DEF ks
    <2>5. Fits(heap, ks, s)
      BY <2>3 DEF Fits
    <2> QED BY <2>2, <2>4, <2>5 DEF InState
  <1>6. /\ Len(stack) = 1 /\ stack[1].todo = w /\ stack[1].own = 1 /\ a[1] = A
        /\ \A i \in 1..1 : i = 1
    <2>1. Frame("Program", 1) = [todo |-> w, own |-> 1, local |-> FALSE]
      BY DEF Frame
    <2> HIDE DEF w, A
    <2>2. Frame("Program", 1).todo = w /\ Frame("Program", 1).own = 1
      BY <2>1
    <2> DEFINE r == Frame("Program", 1)
    <2>3. stack = <<r>> /\ r.todo = w /\ r.own = 1
      BY <1>1, <2>2
    <2> HIDE DEF r
    <2>4. Len(stack) = 1 /\ stack[1] = r
      BY <2>3
    <2>5. a[1] = A /\ \A i \in 1..1 : i = 1
      OBVIOUS
    <2> QED BY <2>3, <2>4, <2>5
  <1> HIDE DEF w, A, a, e
  <1>7. Informed(stack, heap, current_token, a)
    <2>1. current_token \in a[1].tokens
      BY <1>1, <1>3, <1>6, TokenIs
    <2>2. Led(stack, a)
      BY <1>4, <1>6 DEF Led, Goal
    <2>3. Placed(stack, a)
      <3>1. 1..(1 - 1) = {}
        OBVIOUS
      <3> QED BY <1>3, <1>6, <3>1 DEF Placed
    <2>4. Stated(stack, heap, a)
      <3>1. Waits(heap, 1, {}, {Commands})
        BY <1>5 DEF Waits
      <3> QED BY <1>3, <1>6, <3>1 DEF Stated, Pending
    <2> QED BY <1>6, <2>1, <2>2, <2>3, <2>4 DEF Informed
  <1>8. Tended(stack, heap)
    <2>1. Len(heap) = 1 /\ heap[1] = e
      BY <1>1
    <2>2. Owned(stack, 1) /\ 1..0 = {} /\ Len(<<>>) = 0
      BY <1>6 DEF Owned
    <2>3. Untagged(heap, 1) /\ Sound(heap, 1)
      BY <1>2, <2>1, <2>2 DEF Untagged, Sound
    <2> QED BY <1>6, <2>1, <2>2, <2>3 DEF Tended
  <1> QED BY <1>1, <1>7, <1>8 DEF TreeInv

LEMMA TreeStep == ParserInv /\ ParserInv' /\ TreeInv /\ [Next]_vars => TreeInv'
  <1> SUFFICES ASSUME ParserInv, ParserInv', TreeInv, [Next]_vars PROVE TreeInv'
    OBVIOUS
  <1>1. CASE ReturnError \/ analyze \/ CallerFreesTree
    <2>1. phase' \notin {"parsing", "accepted"}
      BY <1>1 DEF ReturnError, analyze, CallerFreesTree
    <2> QED BY <2>1, FailsKeepsTree
  <1>2. CASE UNCHANGED vars
    <2>1. phase' = phase /\ heap' = heap /\ stack' = stack /\ current_token' = current_token
      BY <1>2 DEF vars, current_token, At
    <2> QED BY <2>1 DEF TreeInv
  <1>3. CASE Step
    BY <1>1, <1>3, AdvanceFits, NeedFits, NeedChildrenFits, EmptyFits, LocalFits, LeafFits, AttachFits,
       FlagFits, BranchFits, CallFits, ReturnFits DEF Step
  <1> QED BY <1>2, <1>3 DEF Next, Finished

LEMMA TreeHolds == Spec => [](ParserInv /\ TreeInv)
  BY InitHolds, TreeInit, StepKeeps, TreeStep, PTL DEF Spec

\* A node in a state of Final has the children of one of its shapes, and an and-or list
\* the operators of its pipelines.
LEMMA FinalFits ==
    ASSUME ParserInv, NEW n \in DOMAIN heap, Built(heap, n)
    PROVE  /\ \E s \in Shapes[heap[n].type] : FitsShape(Kids(n), s)
           /\ heap[n].type = "AND_OR" => Operators(Kids(n))
  <1>1. PICK q \in Final : InState(heap, n, q)
    BY DEF Built
  <1> DEFINE ks == heap[n].kids
  <1>2. DOMAIN ks = 1..Len(ks) /\ Kids(n) = ks /\ Len(ks) \in Nat
    <2>1. IsHeap(heap) /\ n \in 1..Len(heap)
      BY LenProperties DEF ParserInv, IsHeap
    <2>2. ks \in Seq(Nat)
      BY <2>1, KidsAre
    <2> QED BY <2>2, LenProperties DEF Kids
  <1>3. q.shape \in Shapes[heap[n].type] /\ q.open = (q.type = "AND_OR") /\ heap[n].type = q.type
    BY <1>1, FinalShape DEF InState
  <1>4. FitsShape(ks, q.shape)
    BY <1>1, <1>2 DEF InState, Fits, FitsShape
  <1>5. ASSUME heap[n].type = "AND_OR" PROVE Operators(ks)
    <2>1. Joined(heap, ks, TRUE)
      <3>1. q.open
        BY <1>3, <1>5
      <3> QED BY <1>1, <1>3, <1>5, <3>1 DEF InState, Joined
    <2> HIDE DEF ks
    <2>2. ASSUME NEW i \in 1..Len(ks) PROVE i < Len(ks) <=> i # Len(ks)
      <3> DEFINE L == Len(ks)
      <3>1. L \in Nat /\ i \in 1..L
        BY <1>2
      <3> HIDE DEF L
      <3>2. i < L <=> i # L
        BY <3>1
      <3> QED BY <3>2 DEF L
    <2>3. ASSUME NEW i \in 1..Len(ks) PROVE i < Len(ks) <=> Has(ks[i], "AND") # Has(ks[i], "OR")
      <3>1. CASE i = Len(ks)
        BY <2>1, <2>2, <3>1 DEF Joined, Untagged, Has
      <3>2. CASE i # Len(ks)
        BY <2>1, <2>2, <3>2 DEF Joined, Tagged, Has
      <3> QED BY <3>1, <3>2
    <2> QED BY <1>2, <2>3 DEF Operators
  <1> QED BY <1>2, <1>3, <1>4, <1>5

-----------------------------------------------------------------------------
(* The theorem.                                                              *)

\* Every tree the parser accepts, of any input, is one the executor can walk: each node has
\* the children, in the order, and the flags that execute.c takes for granted, each pipeline
\* of an and-or list but the last has one operator, and no node is outside the tree.
THEOREM AcceptedTreesFit == Spec => []TreeFits
  <1>1. ParserInv /\ TreeInv /\ (phase = "accepted" => InTree(heap, 1) = DOMAIN heap) => TreeFits
    <2> SUFFICES ASSUME ParserInv, TreeInv, phase = "accepted", InTree(heap, 1) = DOMAIN heap
                 PROVE  TreeFits
      BY DEF TreeFits
    <2>1. DOMAIN heap = 1..Len(heap)
      BY LenProperties DEF ParserInv, IsHeap
    <2>2. \A n \in DOMAIN heap : Sound(heap, n) /\ Built(heap, n)
      BY <2>1 DEF TreeInv
    <2> QED BY <2>2, FinalFits DEF TreeFits, Sound
  <1> QED BY <1>1, TreeHolds, AcceptedTreeIsWhole, PTL
=============================================================================
