------------------------------ MODULE Execute ------------------------------
(***************************************************************************)
(* The executor of CyprSH (src/execution/execute.c) as a small-step        *)
(* interpreter of the syntax tree, run by a set of Unix processes.         *)
(*                                                                         *)
(* executeNode is recursive C: a process is its C stack, one frame for     *)
(* each executeXxxNode call that has not returned, and the fields of its   *)
(* ExecuteEnvironment.  fork() copies all of that, so that the child       *)
(* stands in the middle of its parent's recursion and only an exit() keeps *)
(* it from returning there.  What the commands compute is abstracted to    *)
(* the set of wait statuses they may end with; variables, words and file   *)
(* descriptors are left out (module Pipeline has the descriptors).         *)
(***************************************************************************)
EXTENDS Integers, Sequences, FiniteSets

CONSTANTS
    Pid,             \* slots of the process table
    Shell,           \* the process main() runs in
    Node,            \* the nodes of the syntax trees
    Ast,             \* Ast[n]: what the parser stored in node n
    Word,            \* command names and function names
    SpecialBuiltin,  \* special_builtins: found before functions
    RegularBuiltin,  \* regular_builtins: found after functions
    Session,         \* sequences of program roots: the lines of a session; a script is one
    ForkFails,       \* TRUE when fork() may return -1
    NoNode           \* the function list's "not found"

SUCCESS == 0
ERROR_DEFAULT == 1
ERROR_FILE_NOT_FOUND == 12      \* stands for every error of a redirection, an assignment or a definition
StatusEnum == {SUCCESS, ERROR_DEFAULT, ERROR_FILE_NOT_FOUND}

ExecFlag == {"BG", "CHILD_PROCESS", "EXIT"}
Status == 0..255                \* last_exec_status is a uint8_t

NodeType == {"PROGRAM", "COMPLETE_COMMAND", "LIST", "AND_OR", "PIPELINE",
             "SIMPLE_COMMAND", "BRACE_GROUP", "SUBSHELL", "IF_CLAUSE",
             "ELSE_CLAUSE", "WHILE_CLAUSE", "UNTIL_CLAUSE", "FOR_CLAUSE",
             "CASE_CLAUSE", "CASE_ITEM", "FUNCTION_DEF", "WORD"}

\* BACKGROUND .. SEMI_AND are the parser's flags.  MATCH: fnmatch accepts a pattern of
\* this case item (subject and patterns are unexpanded words, so that is fixed by the
\* tree).  FALLIBLE: a redirection, assignment or definition here may fail.
\* NO_ARG, MANY_ARGS: exit without an operand, or with more than one, which it refuses.
NodeFlag == {"BACKGROUND", "AND", "OR", "BANG", "SEMI_AND",
             "MATCH", "FALLIBLE", "NO_ARG", "MANY_ARGS"}

\* What waitpid reports: w < 256 is WIFEXITED with status w, 256 + s is death by signal s.
WaitStatus == 0..(256 + 64)
WEXITSTATUS(w) == w
WIFEXITED(w) == w < 256
WTERMSIG(w) == w - 256

\* The parser never builds a node without the children its executeXxxNode tests for,
\* so those ERROR_SYNTAX_ERROR returns are not reachable and not modelled.
AstAssumption ==
    /\ Ast \in [Node -> [type    : NodeType,
                         flags   : SUBSET NodeFlag,
                         kids    : Seq(Node),
                         word    : Word,
                         outcome : SUBSET WaitStatus]]
    /\ \A n \in Node :
          /\ Ast[n].type \in {"PROGRAM", "COMPLETE_COMMAND", "LIST", "AND_OR", "PIPELINE",
                              "BRACE_GROUP", "SUBSHELL", "ELSE_CLAUSE", "CASE_CLAUSE",
                              "FOR_CLAUSE", "FUNCTION_DEF"}
                => Len(Ast[n].kids) >= 1
          /\ Ast[n].type \in {"WHILE_CLAUSE", "UNTIL_CLAUSE"} => Len(Ast[n].kids) = 2
          /\ Ast[n].type = "IF_CLAUSE" => Len(Ast[n].kids) \in 2..3
          /\ Ast[n].outcome # {}
          /\ Ast[n].word \in SpecialBuiltin \cup RegularBuiltin => Ast[n].outcome \subseteq Status
ASSUME AstAssumption

ProcessAssumption ==
    /\ Shell \in Pid
    /\ "init" \notin Pid /\ "launcher" \notin Pid
    /\ NoNode \notin Node
    /\ Session \subseteq Seq(Node)
    /\ ForkFails \in BOOLEAN
ASSUME ProcessAssumption

VARIABLES
    pstate,   \* pstate[p]: free, shell (interprets the tree), exec (another program), zombie
    parent,   \* parent[p]: who may wait for p
    code,     \* code[p]: the wait status p ends or will end with
    mem,      \* mem[p]: the interpreter's memory in process p
    job,      \* history: started in the foreground, with &, or lost by a failed pipeline
    lines     \* what the session still has to submit

vars == <<pstate, parent, code, mem, job, lines>>

-----------------------------------------------------------------------------
(* Memory of one process: the C stack and the ExecuteEnvironment.            *)

\* node: the argument of the call; pc: the next child; ran: executed_body or
\* executed_any; role: which branch of the fork in this call the process took;
\* pids: forked and not waited for.
Frame == [node : Node, pc : Nat \ {0}, ran : BOOLEAN, role : {"self", "child"}, pids : Seq(Pid)]
FrameOf(n) == [node |-> n, pc |-> 1, ran |-> FALSE, role |-> "self", pids |-> <<>>]

Memory == [stack  : Seq(Frame),
           ret    : StatusEnum,
           flags  : SUBSET ExecFlag,
           status : Status,
           funs   : [Word -> Node \cup {NoNode}],
           base   : Nat]      \* history: depth of the stack at the fork that made the process

executorCtor == [stack |-> <<>>, ret |-> SUCCESS, flags |-> {}, status |-> 0,
                 funs |-> [w \in Word |-> NoNode], base |-> 0]

Top(m) == m.stack[Len(m.stack)]
NodeOf(m) == Ast[Top(m).node]
SetTop(m, f) == [m EXCEPT !.stack = [m.stack EXCEPT ![Len(m.stack)] = f]]
Call(m, f, n) == [m EXCEPT !.stack = Append([m.stack EXCEPT ![Len(m.stack)] = f], FrameOf(n))]
Return(m, st) == [m EXCEPT !.stack = SubSeq(m.stack, 1, Len(m.stack) - 1), !.ret = st]

\* The child's copy of m just after fork() returned 0 in the topmost call.
Forked(m) == [SetTop(m, [Top(m) EXCEPT !.role = "child"]) EXCEPT !.base = Len(m.stack)]

\* p interprets a node of type t and the call it made last, if any, returned SUCCESS.
Interprets(p, t) ==
    /\ pstate[p] = "shell"
    /\ mem[p].stack # <<>>
    /\ mem[p].ret = SUCCESS
    /\ Top(mem[p]).role = "self"
    /\ NodeOf(mem[p]).type = t

-----------------------------------------------------------------------------
(* Process primitives.                                                       *)

Local(p, m) == /\ mem' = [mem EXCEPT ![p] = m]
               /\ UNCHANGED <<pstate, parent, code, job, lines>>

\* fork() in p with child c: pm and cm are the two copies, j how c was started.
Fork(p, c, pm, cm, j) ==
    /\ pstate[c] = "free"
    /\ pstate' = [pstate EXCEPT ![c] = "shell"]
    /\ parent' = [parent EXCEPT ![c] = p]
    /\ job' = [job EXCEPT ![c] = j]
    /\ mem' = [mem EXCEPT ![p] = pm, ![c] = cm]
    /\ UNCHANGED <<code, lines>>

\* p ends with wait status w.  init takes over its children and reaps them as they end.
Exit(p, w) ==
    LET freed == {q \in Pid : \/ q = p /\ parent[p] = "init"
                              \/ q # p /\ parent[q] = p /\ pstate[q] = "zombie"}
    IN  /\ pstate' = [q \in Pid |-> IF q \in freed THEN "free"
                                    ELSE IF q = p THEN "zombie" ELSE pstate[q]]
        /\ parent' = [q \in Pid |-> IF parent[q] = p THEN "init" ELSE parent[q]]
        /\ code' = [q \in Pid |-> IF q \in freed THEN 0 ELSE IF q = p THEN w ELSE code[q]]
        /\ job' = [q \in Pid |-> IF q \in freed THEN "fg" ELSE job[q]]
        /\ mem' = [mem EXCEPT ![p] = executorCtor]
        /\ UNCHANGED lines

\* waitpid(c) in p returns and p goes on with memory m.
Reap(p, c, m) ==
    /\ pstate[c] = "zombie" /\ parent[c] = p
    /\ pstate' = [pstate EXCEPT ![c] = "free"]
    /\ parent' = [parent EXCEPT ![c] = "init"]
    /\ code' = [code EXCEPT ![c] = 0]
    /\ job' = [job EXCEPT ![c] = "fg"]
    /\ mem' = [mem EXCEPT ![p] = m]
    /\ UNCHANGED lines

-----------------------------------------------------------------------------
(* Lists of children.                                                        *)

\* ERR_CHECK: an error of a call is returned by the caller as it is.
errCheck(p) ==
    /\ pstate[p] = "shell"
    /\ mem[p].stack # <<>>
    /\ mem[p].ret # SUCCESS
    /\ Top(mem[p]).role = "self"
    /\ Local(p, Return(mem[p], mem[p].ret))

\* Runs the children of n one after the other, whatever their status.
RunChildren(p) ==
    LET m == mem[p]  f == Top(m)  kids == NodeOf(m).kids
    IN  Local(p, IF f.pc <= Len(kids)
                 THEN Call(m, [f EXCEPT !.pc = f.pc + 1], kids[f.pc])
                 ELSE Return(m, SUCCESS))

\* EXEC_FLAG_EXIT is not looked at here.
executeProgramNode(p) == Interprets(p, "PROGRAM") /\ RunChildren(p)

\* Nodes that run their only list.
executeCompleteCommandNode(p) == Interprets(p, "COMPLETE_COMMAND") /\ RunChildren(p)
executeBraceGroupNode(p) == Interprets(p, "BRACE_GROUP") /\ RunChildren(p)
executeElseClauseNode(p) == Interprets(p, "ELSE_CLAUSE") /\ RunChildren(p)

executeListNode(p) ==
    /\ Interprets(p, "LIST")
    /\ LET m == mem[p]  f == Top(m)  kids == NodeOf(m).kids
           stop == f.pc > Len(kids) \/ (f.pc > 1 /\ "EXIT" \in m.flags)
           bg == "BACKGROUND" \in Ast[kids[f.pc]].flags
       IN  Local(p, IF stop
                    THEN Return(m, SUCCESS)
                    ELSE Call([m EXCEPT !.flags = IF bg THEN @ \cup {"BG"} ELSE @ \ {"BG"}],
                              [f EXCEPT !.pc = f.pc + 1], kids[f.pc]))

executeAndOrNode(p) ==
    /\ Interprets(p, "AND_OR")
    /\ LET m == mem[p]  f == Top(m)  kids == NodeOf(m).kids
           prev == Ast[kids[f.pc - 1]].flags
           skip == /\ f.pc > 1
                   /\ \/ "AND" \in prev /\ m.status # 0
                      \/ "OR" \in prev /\ m.status = 0
           next == [f EXCEPT !.pc = f.pc + 1]
       IN  Local(p, IF f.pc > Len(kids) THEN Return(m, SUCCESS)
                    ELSE IF skip THEN SetTop(m, next) ELSE Call(m, next, kids[f.pc]))

-----------------------------------------------------------------------------
(* Conditionals and loops.                                                   *)

executeIfClauseNode(p) ==
    /\ Interprets(p, "IF_CLAUSE")
    /\ LET m == mem[p]  f == Top(m)  kids == NodeOf(m).kids
           branch == IF m.status = 0 THEN 2 ELSE 3
       IN  Local(p, IF f.pc = 1 THEN Call(m, [f EXCEPT !.pc = 2], kids[1])
                    ELSE IF f.pc = 2 /\ branch <= Len(kids)
                    THEN Call(m, [f EXCEPT !.pc = 3], kids[branch])
                    ELSE Return(m, SUCCESS))

\* A loop that never ran its body reports 0.
LoopReturn(m) == Return([m EXCEPT !.status = IF Top(m).ran THEN @ ELSE 0], SUCCESS)

\* pc 1: before the first test, 2: the test returned, 3: the body returned.
ConditionLoop(p, goesOn) ==
    LET m == mem[p]  f == Top(m)  kids == NodeOf(m).kids
    IN  Local(p, IF f.pc = 2
                 THEN IF goesOn
                      THEN Call(m, [f EXCEPT !.pc = 3, !.ran = TRUE], kids[2])
                      ELSE LoopReturn(m)
                 ELSE IF f.pc = 3 /\ "EXIT" \in m.flags
                      THEN LoopReturn(m)
                      ELSE Call(m, [f EXCEPT !.pc = 2], kids[1]))

executeWhileClauseNode(p) == /\ Interprets(p, "WHILE_CLAUSE")
                             /\ ConditionLoop(p, mem[p].status = 0)

executeUntilClauseNode(p) == /\ Interprets(p, "UNTIL_CLAUSE")
                             /\ ConditionLoop(p, mem[p].status # 0)

\* The last child is the body, those before it are the words.
executeForClauseNode(p) ==
    /\ Interprets(p, "FOR_CLAUSE")
    /\ LET m == mem[p]  f == Top(m)  kids == NodeOf(m).kids
           stop == f.pc > Len(kids) - 1 \/ (f.ran /\ "EXIT" \in m.flags)
       IN  \/ stop /\ Local(p, LoopReturn(m))
           \/ /\ ~stop
              /\ Local(p, Call(m, [f EXCEPT !.pc = f.pc + 1, !.ran = TRUE], kids[Len(kids)]))
           \/ /\ ~stop /\ "FALLIBLE" \in NodeOf(m).flags          \* hashTableInsert fails
              /\ Local(p, Return(m, ERROR_DEFAULT))

\* Past the first item that ran, the loop is reached again only by falling through.
executeCaseClauseNode(p) ==
    /\ Interprets(p, "CASE_CLAUSE")
    /\ LET m == mem[p]  f == Top(m)  items == NodeOf(m).kids
           item == Ast[items[f.pc]]
           taken == f.ran \/ "MATCH" \in item.flags
           after == [f EXCEPT !.ran = TRUE,
                              !.pc = IF "SEMI_AND" \in item.flags THEN f.pc + 1
                                                                   ELSE Len(items) + 1]
       IN  Local(p, IF f.pc > Len(items) THEN LoopReturn(m)
                    ELSE IF ~taken THEN SetTop(m, [f EXCEPT !.pc = f.pc + 1])
                    ELSE IF item.kids = <<>> THEN SetTop(m, after)
                    ELSE Call(m, after, item.kids[1]))

\* functionListInsert copies the name and the body; where that fails the list stays as it was.
executeFunctionDefinition(p) ==
    /\ Interprets(p, "FUNCTION_DEF")
    /\ LET m == mem[p]  def == NodeOf(m)
       IN  \/ Local(p, Return([m EXCEPT !.funs[def.word] = def.kids[1]], SUCCESS))
           \/ "FALLIBLE" \in def.flags /\ Local(p, Return(m, ERROR_FILE_NOT_FOUND))

-----------------------------------------------------------------------------
(* Pipelines and subshells.                                                  *)

negated(w) == IF w = 0 THEN 1 ELSE 0

childStatus_Raw(w) == WEXITSTATUS(w)

\* The status of a pipeline or a subshell: a child killed by a signal reports 1.
childStatus(w) == IF WIFEXITED(w) THEN WEXITSTATUS(w) ELSE 1

\* One child is run in the shell itself.
PipelineOfOne(p) ==
    /\ Interprets(p, "PIPELINE") /\ Len(NodeOf(mem[p]).kids) = 1
    /\ LET m == mem[p]  f == Top(m)
           bang == "BANG" \in NodeOf(m).flags
       IN  Local(p, IF f.pc = 1
                    THEN Call(m, [f EXCEPT !.pc = 2], NodeOf(m).kids[1])
                    ELSE Return([m EXCEPT !.status = IF bang THEN negated(@) ELSE @], SUCCESS))

ManyStages(p) == Interprets(p, "PIPELINE") /\ Len(NodeOf(mem[p]).kids) > 1

\* fork() for stage f.pc; the child runs the stage with EXEC_FLAG_CHILD_PROCESS set.
PipelineFork(p) ==
    /\ ManyStages(p)
    /\ LET m == mem[p]  f == Top(m)  kids == NodeOf(m).kids
           child == Forked([m EXCEPT !.flags = @ \cup {"CHILD_PROCESS"}])
       IN  /\ f.pc <= Len(kids)
           /\ \E c \in Pid :
                 Fork(p, c, SetTop(m, [f EXCEPT !.pc = f.pc + 1, !.pids = Append(f.pids, c)]),
                      Call(child, Top(child), kids[f.pc]), "fg")

\* pipe() or fork() fails: the stages that run already are not waited for.
PipelineForkFails(p) ==
    /\ ForkFails
    /\ ManyStages(p)
    /\ LET m == mem[p]  f == Top(m)
           stages == {f.pids[i] : i \in 1..Len(f.pids)}
       IN  /\ f.pc <= Len(NodeOf(m).kids)
           /\ mem' = [mem EXCEPT ![p] = Return(m, ERROR_DEFAULT)]
           /\ job' = [q \in Pid |-> IF q \in stages THEN "lost" ELSE job[q]]
           /\ UNCHANGED <<pstate, parent, code, lines>>

PipelineWait_First(p) ==
    /\ ManyStages(p)
    /\ LET m == mem[p]  c == Top(m).pids[1]
       IN  /\ Top(m).pc > Len(NodeOf(m).kids) /\ Top(m).pids # <<>>
           /\ Reap(p, c, Return([m EXCEPT !.status = childStatus(code[c])], SUCCESS))

\* The stages are waited for in the order they were started; the last one gives the status.
PipelineWait(p) ==
    /\ ManyStages(p)
    /\ LET m == mem[p]  f == Top(m)  n == NodeOf(m)
           c == f.pids[1]
           st == childStatus(code[c])
           done == [m EXCEPT !.status = IF "BANG" \in n.flags THEN negated(st) ELSE st]
       IN  /\ f.pc > Len(n.kids) /\ f.pids # <<>>
           /\ Reap(p, c, IF Len(f.pids) > 1 THEN SetTop(m, [f EXCEPT !.pids = Tail(f.pids)])
                                            ELSE Return(done, SUCCESS))

executePipelineNode(p) ==
    PipelineOfOne(p) \/ PipelineFork(p) \/ PipelineForkFails(p) \/ PipelineWait(p)

SubshellFork(p) ==
    /\ Interprets(p, "SUBSHELL")
    /\ LET m == mem[p]  f == Top(m)  child == Forked(m)
       IN  /\ f.pids = <<>>
           /\ \E c \in Pid : Fork(p, c, SetTop(m, [f EXCEPT !.pids = <<c>>]),
                                  Call(child, Top(child), NodeOf(m).kids[1]), "fg")

SubshellForkFails(p) ==
    /\ ForkFails
    /\ Interprets(p, "SUBSHELL") /\ Top(mem[p]).pids = <<>>
    /\ Local(p, Return(mem[p], ERROR_DEFAULT))

SubshellWait(p) ==
    /\ Interprets(p, "SUBSHELL")
    /\ LET m == mem[p]  c == Top(m).pids[1]
       IN  /\ Top(m).pids # <<>>
           /\ Reap(p, c, Return([m EXCEPT !.status = childStatus(code[c])], SUCCESS))

executeSubshellNode(p) == SubshellFork(p) \/ SubshellForkFails(p) \/ SubshellWait(p)

ForkedChildExits_Returns(p) ==
    /\ pstate[p] = "shell"
    /\ mem[p].stack # <<>>
    /\ Top(mem[p]).role = "child"
    /\ NodeOf(mem[p]).type \in {"PIPELINE", "SUBSHELL"}
    /\ Local(p, Return(mem[p], mem[p].ret))

\* The call a stage or a subshell made returned to the frame of its fork: exit().  A
\* subshell reports an error of the call, a stage does not.
ForkedChildExits(p) ==
    /\ pstate[p] = "shell"
    /\ mem[p].stack # <<>>
    /\ Top(mem[p]).role = "child"
    /\ NodeOf(mem[p]).type \in {"PIPELINE", "SUBSHELL"}
    /\ Exit(p, IF NodeOf(mem[p]).type = "SUBSHELL" /\ mem[p].ret # SUCCESS
               THEN mem[p].ret ELSE mem[p].status)

-----------------------------------------------------------------------------
(* Simple commands.                                                          *)

Body(m) == m.funs[NodeOf(m).word]

\* The order of executeSimpleCommandNode: special builtin, function, regular builtin,
\* external program.  NODE_CMD_WORD may be missing: kind "assignment".
CommandKind(m) ==
    LET w == NodeOf(m).word
    IN  IF w = "" THEN "assignment"
        ELSE IF w \in SpecialBuiltin THEN "builtin"
        ELSE IF Body(m) # NoNode THEN "function"
        ELSE IF w \in RegularBuiltin THEN "builtin" ELSE "external"

\* Only handlePrefix runs; last_exec_status stays as it was.
AssignmentCommand(p) ==
    /\ Interprets(p, "SIMPLE_COMMAND") /\ CommandKind(mem[p]) = "assignment"
    /\ \/ Local(p, Return(mem[p], SUCCESS))
       \/ /\ "FALLIBLE" \in NodeOf(mem[p]).flags
          /\ Local(p, Return(mem[p], ERROR_FILE_NOT_FOUND))

\* The function is called without the command's arguments, assignments and redirections.
FunctionCall(p) ==
    /\ Interprets(p, "SIMPLE_COMMAND") /\ CommandKind(mem[p]) = "function"
    /\ LET m == mem[p]  f == Top(m)
       IN  Local(p, IF f.pc = 1 THEN Call(m, [f EXCEPT !.pc = 2], Body(m))
                                ELSE Return(m, SUCCESS))

\* The statuses the builtin leaves; exit without an operand keeps the last one.
BuiltinResult(m) == IF "NO_ARG" \in NodeOf(m).flags THEN {m.status} ELSE NodeOf(m).outcome

AfterBuiltin_NoFlag(m, st) == [m EXCEPT !.status = st]

AfterBuiltin(m, st) ==
    [m EXCEPT !.status = st,
              !.flags = IF NodeOf(m).word = "exit" /\ "MANY_ARGS" \notin NodeOf(m).flags
                        THEN @ \cup {"EXIT"} ELSE @]

\* A failed redirection skips the builtin and is forgotten.  In a pipeline stage the
\* process ends with the builtin.
executeBuiltinCommand(p) ==
    /\ Interprets(p, "SIMPLE_COMMAND") /\ CommandKind(mem[p]) = "builtin"
    /\ LET m == mem[p]
           Leave(mm) == IF "CHILD_PROCESS" \in m.flags THEN Exit(p, mm.status)
                                                       ELSE Local(p, Return(mm, SUCCESS))
       IN  \/ \E st \in BuiltinResult(m) : Leave(AfterBuiltin(m, st))
           \/ "FALLIBLE" \in NodeOf(m).flags /\ Leave(m)

\* The process that becomes the program: the forked child, or a pipeline stage itself.
BecomesProgram(p) ==
    /\ pstate[p] = "shell"
    /\ mem[p].stack # <<>>
    /\ mem[p].ret = SUCCESS
    /\ NodeOf(mem[p]).type = "SIMPLE_COMMAND"
    /\ CommandKind(mem[p]) = "external"
    /\ Top(mem[p]).role = "child" \/ "CHILD_PROCESS" \in mem[p].flags

RunsInShell(p) ==
    /\ Interprets(p, "SIMPLE_COMMAND")
    /\ CommandKind(mem[p]) = "external"
    /\ "CHILD_PROCESS" \notin mem[p].flags

\* With EXEC_FLAG_BG the shell goes on at once and keeps last_exec_status.
ExternalFork(p) ==
    /\ RunsInShell(p)
    /\ LET m == mem[p]  f == Top(m)
       IN  /\ f.pids = <<>>
           /\ \E c \in Pid :
                 IF "BG" \in m.flags
                 THEN Fork(p, c, Return(m, SUCCESS), Forked(m), "bg")
                 ELSE Fork(p, c, SetTop(m, [f EXCEPT !.pids = <<c>>]), Forked(m), "fg")

ExternalForkFails(p) ==
    /\ ForkFails
    /\ RunsInShell(p) /\ Top(mem[p]).pids = <<>>
    /\ Local(p, Return(mem[p], ERROR_DEFAULT))

ExternalWait(p) ==
    /\ RunsInShell(p)
    /\ LET m == mem[p]  c == Top(m).pids[1]
           st == IF WIFEXITED(code[c]) THEN WEXITSTATUS(code[c]) ELSE 128 + WTERMSIG(code[c])
       IN  /\ Top(m).pids # <<>>
           /\ Reap(p, c, Return([m EXCEPT !.status = st], SUCCESS))

\* Redirections, then execve; the outcome of the program is fixed here and seen when it
\* ends.  Command not found and cannot execute are outcomes 127 and 126.
ExternalExec(p) ==
    /\ BecomesProgram(p)
    /\ \/ \E w \in NodeOf(mem[p]).outcome :
             /\ pstate' = [pstate EXCEPT ![p] = "exec"]
             /\ code' = [code EXCEPT ![p] = w]
             /\ mem' = [mem EXCEPT ![p] = executorCtor]
             /\ UNCHANGED <<parent, job, lines>>
       \/ "FALLIBLE" \in NodeOf(mem[p]).flags /\ Exit(p, ERROR_FILE_NOT_FOUND)

executeExternalProgram(p) ==
    ExternalFork(p) \/ ExternalForkFails(p) \/ ExternalWait(p) \/ ExternalExec(p)

executeSimpleCommandNode(p) ==
    \/ AssignmentCommand(p)
    \/ FunctionCall(p)
    \/ executeBuiltinCommand(p)
    \/ executeExternalProgram(p)

\* External: the program that replaced the process ends.
ProgramEnds(p) == pstate[p] = "exec" /\ Exit(p, code[p])

-----------------------------------------------------------------------------
(* The session: runInteractive submits line after line, runScript one program. *)

AtPrompt == pstate[Shell] = "shell" /\ mem[Shell].stack = <<>>

runLine ==
    /\ AtPrompt
    /\ lines # <<>>
    /\ "EXIT" \notin mem[Shell].flags
    /\ mem' = [mem EXCEPT ![Shell] = [@ EXCEPT !.stack = <<FrameOf(Head(lines))>>,
                                               !.ret = SUCCESS]]
    /\ lines' = Tail(lines)
    /\ UNCHANGED <<pstate, parent, code, job>>

\* main returns 0 whatever the last status is.
mainReturns ==
    /\ AtPrompt
    /\ lines = <<>> \/ "EXIT" \in mem[Shell].flags
    /\ Exit(Shell, 0)

-----------------------------------------------------------------------------

executeNode(p) ==
    \/ errCheck(p)
    \/ executeProgramNode(p)
    \/ executeCompleteCommandNode(p)
    \/ executeListNode(p)
    \/ executeAndOrNode(p)
    \/ executePipelineNode(p)
    \/ executeSimpleCommandNode(p)
    \/ executeBraceGroupNode(p)
    \/ executeSubshellNode(p)
    \/ executeIfClauseNode(p)
    \/ executeElseClauseNode(p)
    \/ executeWhileClauseNode(p)
    \/ executeUntilClauseNode(p)
    \/ executeForClauseNode(p)
    \/ executeCaseClauseNode(p)
    \/ executeFunctionDefinition(p)
    \/ ForkedChildExits(p)

Finished == /\ pstate[Shell] = "zombie"
            /\ \A p \in Pid \ {Shell} : pstate[p] = "free"
            /\ UNCHANGED vars

Init ==
    /\ pstate = [p \in Pid |-> IF p = Shell THEN "shell" ELSE "free"]
    /\ parent = [p \in Pid |-> IF p = Shell THEN "launcher" ELSE "init"]
    /\ code = [p \in Pid |-> 0]
    /\ mem = [p \in Pid |-> executorCtor]
    /\ job = [p \in Pid |-> "fg"]
    /\ lines \in Session

Next == \/ \E p \in Pid : executeNode(p) \/ ProgramEnds(p)
        \/ runLine
        \/ mainReturns
        \/ Finished

Spec == Init /\ [][Next]_vars

\* The kernel schedules every process; an external program ends sooner or later.
Fairness == /\ \A p \in Pid : WF_vars(executeNode(p) \/ ProgramEnds(p))
            /\ WF_vars(runLine \/ mainReturns)

FairSpec == Spec /\ Fairness

-----------------------------------------------------------------------------
(* Properties.                                                               *)

TypeOK ==
    /\ pstate \in [Pid -> {"free", "shell", "exec", "zombie"}]
    /\ parent \in [Pid -> Pid \cup {"init", "launcher"}]
    /\ code \in [Pid -> WaitStatus]
    /\ mem \in [Pid -> Memory]
    /\ job \in [Pid -> {"fg", "bg", "lost"}]
    /\ lines \in Seq(Node)

\* A forked process never returns into the calls its parent was in when it forked
\* (executePipelineNode and executeSubshellNode exit() after the child's executeNode,
\* executeExternalProgram never gets past execve): two shells would go on with the
\* same script.
NoReturnPastFork ==
    \A p \in Pid : pstate[p] = "shell" /\ p # Shell =>
        /\ mem[p].base \in 1..Len(mem[p].stack)
        /\ mem[p].stack[mem[p].base].role = "child"

\* The children p still has to wait for are written down in the call it is in.
Awaited(p) ==
    IF pstate[p] # "shell" \/ mem[p].stack = <<>> THEN {}
    ELSE IF Top(mem[p]).role = "child" THEN {}
    ELSE {Top(mem[p]).pids[i] : i \in 1..Len(Top(mem[p]).pids)}

ChildrenOf(p) == {c \in Pid : parent[c] = p /\ pstate[c] # "free"}

\* The children of a process are exactly those the current call waits for, except the
\* background programs, which nobody waits for (the zombies of CHANGELOG.md:32), and
\* the stages a failed pipe() or fork() made executePipelineNode forget.  So a command
\* starts only when the foreground command before it has been reaped, and waitpid is
\* never called for a process that is not a child or was reaped already.
ForegroundAwaited ==
    \A p \in Pid : {c \in ChildrenOf(p) : job[c] = "fg"} = Awaited(p)

\* Every session of the instance comes to its end and leaves no process behind: exit unwinds
\* nested lists, loops and calls (executeListNode, executeWhileClauseNode, builtinExit).
SessionEnds == <>[](pstate[Shell] = "zombie" /\ \A p \in Pid \ {Shell} : pstate[p] = "free")

-----------------------------------------------------------------------------
(* What the program is said to do, and does not.                             *)

\* The calls p made itself, from the one it was forked in: those below are a copy.
OwnCalls(p) == {i \in 1..Len(mem[p].stack) : i >= mem[p].base}

\* exit.h:16, "Exit shell with optional exit code": after exit no further command is
\* started in that process.  Only lists and loop bodies look at EXEC_FLAG_EXIT.
StartsCommand(p) ==
    /\ pstate[p] = "shell" /\ pstate'[p] = "shell"
    /\ Len(mem'[p].stack) > Len(mem[p].stack)
    /\ NodeOf(mem'[p]).type = "SIMPLE_COMMAND"

ExitStops == [][\A p \in Pid : StartsCommand(p) => "EXIT" \notin mem[p].flags]_vars

\* CHANGELOG.md:62, "Builtins working in pipelines": a stage that is a compound command
\* ends only when its lists have been run to their end or exit was called.
StageRunsWhole ==
    [][\A p \in Pid \ {Shell} :
         pstate[p] = "shell" /\ pstate'[p] # "shell" /\ "EXIT" \notin mem[p].flags =>
             \A i \in OwnCalls(p) :
                 LET f == mem[p].stack[i]
                 IN  Ast[f.node].type = "LIST" => f.pc > Len(Ast[f.node].kids)]_vars

=============================================================================
