------------------------------- MODULE Session -------------------------------
(***************************************************************************)
(* A session from main to its return (src/shell.c) with the memory it      *)
(* uses: the lines readline returns, the FILEs the lexer reads from, the   *)
(* syntax trees, and the copies of function bodies in the function list    *)
(* (src/data-structures/function-list.c), which outlive the lines they     *)
(* were defined on.  Commands are definitions and calls; module Execute    *)
(* has the other constructs, module Parser the tree while it is built.     *)
(***************************************************************************)
EXTENDS Naturals, Sequences, SequencesExt

CONSTANTS
    Name,           \* command names
    SpecialBuiltin, \* those of special_builtins, which are found before functions
    ListId, List,   \* the lists of commands that lines and function bodies consist of
    Rejected,       \* a line with a syntax error
    Empty,          \* the empty line
    Inputs,         \* the sequences of lines a session may read
    MaxDepth        \* how many calls fit on the C stack

\* body is only looked at in a definition.
Statement == [op : {"DEFINE", "CALL"}, name : Name, body : ListId]
Line == ListId \cup {Rejected, Empty}

ASSUME SessionAssumption ==
    /\ SpecialBuiltin \subseteq Name
    /\ List \in [ListId -> Seq(Statement)]
    /\ Rejected \notin ListId /\ Empty \notin ListId
    /\ Inputs \subseteq Seq(Line)
    /\ MaxDepth \in Nat \ {0}

\* At a terminal, cyprsh file, cyprsh -c string, and commands from a pipe.  In the last three
\* the whole input is parsed at once: it is one line here.
Mode == {"INTERACTIVE", "FILE", "STRING", "STDIN"}

VARIABLES
    mode,
    lines,          \* what is not read yet
    pc,
    heap,           \* the blocks allocated so far: what they are and how often they were freed
    table,          \* the variable table: a block, or NULL when it was destroyed
    line, file, input, tree,   \* blocks: the line, the FILE made last, lexer->input, ast_root
    functions,      \* the function list, newest entry first
    calls,          \* the C stack: the list each executeNode runs and its next command
    exiting,        \* EXEC_FLAG_EXIT
    latest,         \* history: the definition of each name that succeeded last
    dangling        \* history: a body was replaced while it was running

vars == <<mode, lines, pc, heap, table, line, file, input, tree, functions, calls, exiting,
          latest, dangling>>

NULL == 0

\* Blocks.
Block(kind) == [kind |-> kind, freed |-> 0]
With(kind) == Append(heap, Block(kind))
New == Len(heap) + 1

\* Both free and fclose; of NULL they do nothing.
Free(h, b) == IF b = NULL THEN h ELSE [h EXCEPT ![b].freed = @ + 1]
Live(b) == heap[b].freed = 0

-----------------------------------------------------------------------------
(* main up to the first line.                                                *)

\* Without memory populateEnvTable destroys the table; main goes on either way.
populateEnvTable ==
    /\ pc = "IMPORT"
    /\ \/ heap' = With("TABLE") /\ table' = New
       \/ heap' = Free(With("TABLE"), New) /\ table' = NULL
    /\ pc' = IF mode = "INTERACTIVE" THEN "READLINE" ELSE "OPEN"
    /\ UNCHANGED <<mode, lines, line, file, input, tree, functions, calls, exiting, latest, dangling>>

\* The end of the input leaves the loop, an empty line is skipped.
readline ==
    /\ pc = "READLINE"
    /\ IF lines = <<>> THEN pc' = "CLEANUP" /\ UNCHANGED <<lines, heap, line>>
       ELSE /\ lines' = (IF Head(lines) = Empty THEN Tail(lines) ELSE lines)
            /\ line' = New
            /\ heap' = IF Head(lines) = Empty THEN Free(With("LINE"), New) ELSE With("LINE")
            /\ pc' = IF Head(lines) = Empty THEN "READLINE" ELSE "OPEN"
    /\ UNCHANGED <<mode, table, file, input, tree, functions, calls, exiting, latest, dangling>>

\* fmemopen of the line or the string, open and fdopen of the file.
OpenInput ==
    /\ pc = "OPEN"
    /\ \/ mode # "STDIN" /\ heap' = With("FILE") /\ file' = New /\ pc' = "RESET" /\ UNCHANGED lines
       \/ mode = "STDIN" /\ pc' = "RESET" /\ UNCHANGED <<lines, heap, file>>
       \/ /\ mode = "INTERACTIVE"
          /\ heap' = Free(heap, line) /\ lines' = Tail(lines) /\ pc' = "READLINE"
          /\ UNCHANGED file
       \/ mode \in {"FILE", "STRING"} /\ pc' = "RETURN" /\ UNCHANGED <<lines, heap, file>>
    /\ UNCHANGED <<mode, table, line, input, tree, functions, calls, exiting, latest, dangling>>

lexerReset_KeepsOpen == input' = file /\ heap' = heap

\* lexerCtor and lexerReset give the lexer its input; the FILE of the line before is closed.
lexerReset == input' = file /\ heap' = Free(heap, input)

ResetLexer ==
    /\ pc = "RESET"
    /\ lexerReset
    /\ pc' = "PRIME"
    /\ UNCHANGED <<mode, lines, table, line, file, tree, functions, calls, exiting, latest, dangling>>

\* parserReset reads two tokens.  Then the root of the tree is made.
parserReset ==
    /\ pc = "PRIME"
    /\ \/ heap' = With("TREE") /\ tree' = New /\ pc' = "ANALYZE" /\ UNCHANGED <<lines, input>>
       \/ /\ mode = "INTERACTIVE"
          /\ heap' = Free(heap, line) /\ lines' = Tail(lines) /\ pc' = "READLINE"
          /\ UNCHANGED <<tree, input>>
       \/ /\ mode # "INTERACTIVE"
          /\ heap' = Free(heap, input) /\ input' = NULL /\ pc' = "FCLOSE"
          /\ UNCHANGED <<lines, tree>>
    /\ UNCHANGED <<mode, table, line, file, functions, calls, exiting, latest, dangling>>

-----------------------------------------------------------------------------
(* A line.                                                                   *)

FrameOf(block, list) == [block |-> block, list |-> list, next |-> 1]

\* analyze frees the tree of a line it rejects.
analyze ==
    /\ pc = "ANALYZE"
    /\ \/ /\ Head(lines) = Rejected
          /\ heap' = Free(heap, tree) /\ pc' = "REJECT" /\ UNCHANGED calls
       \/ /\ Head(lines) # Rejected
          /\ pc' = "RUN" /\ UNCHANGED heap
          /\ calls' = IF Head(lines) = Empty THEN <<>> ELSE <<FrameOf(tree, Head(lines))>>
    /\ UNCHANGED <<mode, lines, table, line, file, input, tree, functions, exiting, latest, dangling>>

\* After the line: the tree is freed, and with it the line or the lexer's FILE.
Release(next) ==
    /\ IF mode = "INTERACTIVE"
       THEN heap' = Free(Free(heap, tree), line) /\ pc' = next /\ UNCHANGED input
       ELSE heap' = Free(Free(heap, tree), input) /\ pc' = "FCLOSE" /\ input' = NULL
    /\ lines' = Tail(lines)
    /\ UNCHANGED <<mode, table, line, file, tree, functions, calls, exiting, latest, dangling>>

\* The caller frees the tree of a rejected line as well.
LineRejected == pc = "REJECT" /\ Release("READLINE")

LineDone == pc = "RUN" /\ calls = <<>> /\ Release(IF exiting THEN "CLEANUP" ELSE "READLINE")

-----------------------------------------------------------------------------
(* The function list and the commands.                                       *)

Top == Last(calls)
Commands == List[Top.list]
Command == Commands[Top.next]
Advanced == Append(Front(calls), [Top EXCEPT !.next = @ + 1])

Running == pc = "RUN" /\ calls # <<>>
RunsNext == Running /\ Top.next <= Len(Commands) /\ ~(exiting /\ Top.next > 1)

Entries(name) == {k \in DOMAIN functions : functions[k].name = name}

\* The first entry of the name.
functionListFind(name) == functions[CHOOSE k \in Entries(name) : \A j \in Entries(name) : k <= j]

\* The newest entry comes first.
Entry(name, block, body) == [name |-> name, block |-> block, list |-> body]
Prepended(name, block, body) == <<Entry(name, block, body)>> \o functions

functionListInsert_NoCopy(name, body) ==
    /\ functions' = Prepended(name, Top.block, body)
    /\ UNCHANGED <<heap, dangling>>

functionListInsert_NoSearch(name, body) ==
    /\ functions' = Prepended(name, New, body)
    /\ heap' = With("TREE")
    /\ UNCHANGED dangling

functionListInsert_KeepsOld(name, body) ==
    /\ functions' = IF Entries(name) = {} THEN Prepended(name, New, body) ELSE functions
    /\ heap' = IF Entries(name) = {} THEN With("TREE") ELSE heap
    /\ UNCHANGED dangling

\* An entry of the name gets a copy of the body and the old body is freed; else a new entry.
functionListInsert(name, body) ==
    \/ \E k \in Entries(name) :
         /\ functions' = [functions EXCEPT ![k] = Entry(name, New, body)]
         /\ heap' = Free(With("TREE"), functions[k].block)
         /\ dangling' = (dangling \/ \E c \in ToSet(calls) : c.block = functions[k].block)
    \/ /\ Entries(name) = {}
       /\ functions' = Prepended(name, New, body)
       /\ heap' = With("TREE")
       /\ UNCHANGED dangling

executeFunctionDefinition ==
    /\ RunsNext /\ Command.op = "DEFINE"
    /\ functionListInsert(Command.name, Command.body)
    /\ latest' = [latest EXCEPT ![Command.name] = Command.body]
    /\ calls' = Advanced
    /\ UNCHANGED <<mode, lines, pc, table, line, file, input, tree, exiting>>

\* Without memory nothing is changed; the error ends the line.
DefinitionFails ==
    /\ RunsNext /\ Command.op = "DEFINE"
    /\ calls' = <<>>
    /\ UNCHANGED <<mode, lines, pc, heap, table, line, file, input, tree, functions, exiting,
                   latest, dangling>>

\* Special builtin, function, or a command that changes nothing here.
executeSimpleCommandNode ==
    /\ RunsNext /\ Command.op = "CALL"
    /\ LET name == Command.name
       IN  IF name \notin SpecialBuiltin /\ Entries(name) # {}
           THEN /\ Len(calls) < MaxDepth
                /\ LET f == functionListFind(name)
                   IN  calls' = Append(Advanced, FrameOf(f.block, f.list))
                /\ UNCHANGED exiting
           ELSE calls' = Advanced /\ exiting' = (exiting \/ name = "exit")
    /\ UNCHANGED <<mode, lines, pc, heap, table, line, file, input, tree, functions, latest, dangling>>

\* The end of executeListNode: of the list, or after exit.
ReturnFromList ==
    /\ Running /\ ~RunsNext
    /\ calls' = Front(calls)
    /\ UNCHANGED <<mode, lines, pc, heap, table, line, file, input, tree, functions, exiting,
                   latest, dangling>>

\* The process dies: of a block that was freed twice, of a body that was freed while it runs
\* (it may also seem to work), of a C stack that is full.
Dies ==
    /\ pc \notin {"DONE", "DEAD"}
    /\ \/ \E b \in DOMAIN heap : heap[b].freed > 1
       \/ Running /\ ~Live(Top.block)
       \/ RunsNext /\ Len(calls) = MaxDepth
    /\ pc' = "DEAD"
    /\ UNCHANGED <<mode, lines, heap, table, line, file, input, tree, functions, calls, exiting,
                   latest, dangling>>

-----------------------------------------------------------------------------
(* The end.  The function list is never destroyed.                           *)

\* parserDtor and lexerDtor at the end of runInteractive.
Cleanup ==
    /\ pc = "CLEANUP"
    /\ heap' = Free(heap, input) /\ input' = NULL
    /\ pc' = "RETURN"
    /\ UNCHANGED <<mode, lines, table, line, file, tree, functions, calls, exiting, latest, dangling>>

\* fclose of main and of runString.
CloseInput ==
    /\ pc = "FCLOSE"
    /\ heap' = Free(heap, file)
    /\ pc' = "RETURN"
    /\ UNCHANGED <<mode, lines, table, line, file, input, tree, functions, calls, exiting,
                   latest, dangling>>

\* A destroyed table has no data.
hashTableDtor == heap' = Free(heap, table)

mainReturns ==
    /\ pc = "RETURN"
    /\ hashTableDtor /\ table' = NULL
    /\ pc' = "DONE"
    /\ UNCHANGED <<mode, lines, line, file, input, tree, functions, calls, exiting, latest, dangling>>

Init ==
    /\ mode \in Mode
    /\ lines \in Inputs /\ (mode # "INTERACTIVE" => Len(lines) = 1)
    /\ pc = "IMPORT"
    /\ heap = <<>> /\ table = NULL
    /\ line = NULL /\ file = NULL /\ input = NULL /\ tree = NULL
    /\ functions = <<>> /\ calls = <<>> /\ exiting = FALSE
    /\ latest = [n \in Name |-> Empty] /\ dangling = FALSE

Next ==
    \/ populateEnvTable \/ readline \/ OpenInput \/ ResetLexer \/ parserReset
    \/ analyze \/ LineRejected \/ LineDone
    \/ executeFunctionDefinition \/ DefinitionFails \/ executeSimpleCommandNode \/ ReturnFromList
    \/ Dies \/ Cleanup \/ CloseInput \/ mainReturns

Spec == Init /\ [][Next]_vars

-----------------------------------------------------------------------------
(* Properties.                                                               *)

BlockId == DOMAIN heap \cup {NULL}

\* Types; and a name has one entry in the function list.
TypeOK ==
    /\ mode \in Mode /\ lines \in Seq(Line)
    /\ pc \in {"IMPORT", "READLINE", "OPEN", "RESET", "PRIME", "ANALYZE", "REJECT", "RUN",
               "CLEANUP", "FCLOSE", "RETURN", "DONE", "DEAD"}
    /\ heap \in Seq([kind : {"TABLE", "LINE", "FILE", "TREE"}, freed : Nat])
    /\ {table, line, file, input, tree} \subseteq BlockId
    /\ functions \in Seq([name : Name, block : DOMAIN heap, list : ListId])
    /\ calls \in Seq([block : DOMAIN heap, list : ListId, next : Nat \ {0}])
    /\ Len(calls) <= MaxDepth
    /\ exiting \in BOOLEAN /\ dangling \in BOOLEAN
    /\ latest \in [Name -> ListId \cup {Empty}]
    /\ \A j, k \in DOMAIN functions : functions[j].name = functions[k].name => j = k

\* What is read is live: the FILE and the line under it while the lexer reads, the tree while
\* it is built and run, the bodies of all functions at any time, also of those defined on lines
\* freed long ago, and each body that runs unless a function was redefined while it ran.
UsesLive ==
    /\ pc \in {"PRIME", "ANALYZE"} =>
         /\ input = file
         /\ mode # "STDIN" => Live(file)
         /\ mode = "INTERACTIVE" => Live(line)
    /\ pc \in {"ANALYZE", "RUN"} => Live(tree)
    /\ \A f \in ToSet(functions) : Live(f.block)
    /\ ~dangling => \A c \in ToSet(calls) : Live(c.block)

\* A name calls the last definition of it that succeeded, on whatever line and in whatever
\* call that was, also after a redefinition that failed.
FindsLatest ==
    \A n \in Name : IF Entries(n) = {} THEN latest[n] = Empty ELSE functionListFind(n).list = latest[n]

\* A session at the terminal has one FILE open at most; when it ends everything but the
\* bodies of the functions was freed, and once, except the tree of a rejected line.
AllFreed ==
    mode = "INTERACTIVE" =>
        /\ pc \notin {"RESET", "DEAD"} =>
             \A a, b \in DOMAIN heap : {heap[a].kind, heap[b].kind} = {"FILE"} /\ Live(a) /\ Live(b) => a = b
        /\ \A b \in DOMAIN heap : heap[b].kind # "TREE" => heap[b].freed <= 1
        /\ pc = "DONE" =>
             \A b \in DOMAIN heap : Live(b) <=> \E f \in ToSet(functions) : f.block = b

\* Violated: README.md:44 runs a command with -c; the FILE of its text is closed twice.
FreedOnce == \A b \in DOMAIN heap : heap[b].freed <= 1
=============================================================================
