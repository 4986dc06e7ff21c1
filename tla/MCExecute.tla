----------------------------- MODULE MCExecute -----------------------------
(***************************************************************************)
(* Small sessions for module Execute.  A program is written as a tree and  *)
(* laid out into the table Ast.  The parser wraps every command: a list    *)
(* holds and-or nodes, they hold pipelines, and those hold the commands.   *)
(***************************************************************************)
EXTENDS Execute

CONSTANTS p1, p2, p3, p4

MCPid == {p1, p2, p3, p4}
MCWord == {"", "ext", "true", "false", "echo", "exit", "f"}
MCSpecial == {"exit"}
MCRegular == {"true", "false", "echo"}

-----------------------------------------------------------------------------
(* Trees. *)

T(t, fl, kids) == [type |-> t, flags |-> fl, kids |-> kids, word |-> "", outcome |-> {0}]
Cmd(w, fl, out) == [type |-> "SIMPLE_COMMAND", flags |-> fl, kids |-> <<>>,
                    word |-> w, outcome |-> out]

Pipe(fl, cmds) == T("PIPELINE", fl, cmds)
AndOr(fl, pipes) == T("AND_OR", fl, pipes)
Seqn(andors) == T("LIST", {}, andors)
One(c) == AndOr({}, <<Pipe({}, <<c>>)>>)       \* a single command in the foreground
Back(c) == AndOr({"BACKGROUND"}, <<Pipe({}, <<c>>)>>)
Block(c) == Seqn(<<One(c)>>)
Script(lists) == T("PROGRAM", {}, [i \in 1..Len(lists) |-> T("COMPLETE_COMMAND", {}, <<lists[i]>>)])

RECURSIVE Layout(_, _), LayoutAll(_, _)
\* The nodes of t as a sequence that follows k other nodes: children first, the root last.
Layout(t, k) == LET r == LayoutAll(t.kids, k) IN Append(r.tab, [t EXCEPT !.kids = r.at])
\* at: the places of the roots.
LayoutAll(ts, k) ==
    IF ts = <<>> THEN [tab |-> <<>>, at |-> <<>>]
    ELSE LET first == Layout(Head(ts), k)
             last == k + Len(first)
             rest == LayoutAll(Tail(ts), last)
         IN  [tab |-> first \o rest.tab, at |-> <<last>> \o rest.at]

-----------------------------------------------------------------------------
(* Programs. *)

Ext == Cmd("ext", {}, {0, 1})
ExtOk == Cmd("ext", {}, {0})
ExtKilled == Cmd("ext", {}, {256 + 9})
ExtRedirected == Cmd("ext", {"FALLIBLE"}, {0})
True == Cmd("true", {}, {0})
False == Cmd("false", {}, {1})
EchoRedirected == Cmd("echo", {"FALLIBLE"}, {0})
Assign == Cmd("", {"FALLIBLE"}, {0})
ExitNoArg == Cmd("exit", {"NO_ARG"}, {0})
ExitRefused == Cmd("exit", {"MANY_ARGS"}, {1})
Exit3 == Cmd("exit", {}, {3})
CallF == Cmd("f", {}, {0})
Nothing == T("WORD", {}, <<>>)

\* ext &  ext
Background == Script(<<Seqn(<<Back(Ext), One(ExtOk)>>)>>)

\* ! true | ext && x=1 || ! (exit 3; ext)
Pipes == Script(<<Seqn(<<AndOr({}, <<Pipe({"BANG", "AND"}, <<True, Ext>>),
                                     Pipe({"OR"}, <<Assign>>),
                                     Pipe({"BANG"}, <<T("SUBSHELL", {}, <<Seqn(<<One(Exit3), One(ExtOk)>>)>>)>>)>>)>>)>>)

\* true | ext | killed
ThreeStages == Script(<<Seqn(<<AndOr({}, <<Pipe({}, <<True, Ext, ExtKilled>>)>>)>>)>>)

\* while true; do if ext; then exit; ext; else { exit 3; }; fi; done
ExitInLoop ==
    Script(<<Block(T("WHILE_CLAUSE", {}, <<Block(True),
        Block(T("IF_CLAUSE", {}, <<Block(Ext), Seqn(<<One(ExitNoArg), One(ExtOk)>>),
            T("ELSE_CLAUSE", {}, <<Block(T("BRACE_GROUP", {}, <<Block(Exit3)>>))>>)>>))>>))>>)

\* until false; do exit 1 2; exit; done
ExitInUntil == Script(<<Block(T("UNTIL_CLAUSE", {}, <<Block(False), Seqn(<<One(ExitRefused), One(ExitNoArg)>>)>>))>>)

\* f() { if false; then ext; fi; }  newline  for i in a b; do f | ext &  done
Function ==
    Script(<<Block([T("FUNCTION_DEF", {"FALLIBLE"}, <<T("BRACE_GROUP", {}, <<
                 Block(T("IF_CLAUSE", {}, <<Block(False), Block(Ext)>>))>>)>>) EXCEPT !.word = "f"]),
             Block(T("FOR_CLAUSE", {"FALLIBLE"}, <<Nothing, Nothing,
                 Seqn(<<AndOr({"BACKGROUND"}, <<Pipe({}, <<CallF, ExtOk>>)>>)>>)>>)),
             Block(CallF)>>)

\* case w in a) ext;; w) ;& b) ext >file;; c) ext;; esac; echo >file
CaseFallsThrough ==
    Script(<<Seqn(<<One(T("CASE_CLAUSE", {}, <<T("CASE_ITEM", {}, <<Block(Ext)>>),
                                               T("CASE_ITEM", {"MATCH", "SEMI_AND"}, <<>>),
                                               T("CASE_ITEM", {}, <<Block(ExtRedirected)>>),
                                               T("CASE_ITEM", {"MATCH"}, <<Block(Ext)>>)>>)),
                    One(EchoRedirected)>>)>>)

\* exit 3 || ext  newline  ext
ExitInAndOr == Script(<<Seqn(<<AndOr({}, <<Pipe({"OR"}, <<Exit3>>), Pipe({}, <<Ext>>)>>)>>), Block(Ext)>>)

\* { true; ext; } | ext
GroupInPipeline ==
    Script(<<Seqn(<<AndOr({}, <<Pipe({}, <<T("BRACE_GROUP", {}, <<Seqn(<<One(True), One(Ext)>>)>>),
                                           Ext>>)>>)>>)>>)

Forest == LayoutAll(<<Background, Pipes, ThreeStages, ExitInLoop, ExitInUntil, Function,
                      CaseFallsThrough, ExitInAndOr, GroupInPipeline>>, 0)

MCAst == Forest.tab
MCNode == 1..Len(Forest.tab)
Root(i) == Forest.at[i]

\* A script is one program; in an interactive session every line is one.
MCSession == {<<Root(1), Root(2)>>, <<Root(3)>>, <<Root(1), Root(4), Root(3)>>,
              <<Root(5), Root(1)>>, <<Root(6)>>, <<Root(7), Root(1)>>}
MCExitSession == {<<Root(8)>>}
MCStageSession == {<<Root(9)>>}
=============================================================================
