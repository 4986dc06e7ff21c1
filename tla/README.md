# A TLA+ model of CyprSH

CyprSH is an interactive POSIX-like shell in C (`src/src/`, about 6,700 lines).  This
directory holds TLA+ modules that model its core logic, TLC configurations that
model-check them on small instances, and TLAPS proofs of theorems that hold for every
value of the constants.  Paths below are those of the repository (`src/` is its root, so
the C sources are in `src/src/`).

`PROJECT.json` lists the components, the runs, the definition-to-source map, the hazards
with the properties that cover them, the mutants that show that each property can fail,
and the findings.

## 1. Inventory

One process runs `main` (`shell.c`), which reads a line, a script or the argument of `-c`
and passes it through lexer, parser and executor.  The parser pulls tokens from the lexer
(two tokens of lookahead); the executor walks the finished tree recursively and forks.
Everything shares one `ExecuteEnvironment` (variable table, function list, flags, status),
which `fork` copies.  There are no threads and no signal handlers: the concurrency is that
of processes connected by pipes.

| Component | State | Operations | What is hard | What makes it correct |
|---|---|---|---|---|
| Session: `shell.c` | the input `FILE`, the current line, the tree of a program, the exit flag | `main`, `runInteractive`, `runScript`, `runString`, `mainCleanUp` | several owners of the input and of the tree; lines go on after an error | each line is run once and in order; everything is released once; `exit` ends the session |
| Executor: `execution/execute.c` | the C stack of `executeXxxNode` calls; `flags`, `last_exec_status`; child processes | one function per node type, `fork`, `waitpid`, `execve`, builtins | a forked child stands in its parent's recursion; flags that outlive the command they were set for; background jobs; fork failures half way | one shell per script; each foreground child waited for once; `exit` unwinds |
| Pipes of a pipeline: `executePipelineNode` | descriptors of the shell and of each stage, `prev_stdin`, `pids[]` | `pipe`, `fork`, `dup2`, `close`, `waitpid` | programs run while later stages are still being set up; pipes fill; calls fail | no end of a pipe is held by a process that does not use it; the shell gets back |
| Variable table: `data-structures/hash-table.c` | slots (empty, full, tombstone), capacity, `currentSize` | constructor, insert, resize, remove, lookup, iteration | collisions, tombstones, growth that fails half way, 32-bit overflow | it is a map; `currentSize` is exact, for it sizes the `envp` of every program |
| Syntax parser and tree: `syntax-analysis/`, `abstract-syntax-tree.c` | two tokens, the tree, local nodes not attached yet | one function per nonterminal, make/attach/free a node | error paths that free what is not in the tree yet; which level consumes a separator; end of input inside a loop | accepted trees are ones the executor can walk and are the program; an error frees everything once |
| Lexer: `lexical-analysis/tokenize.c` | state stack, one character of lookahead, half a word with the quoting of each character, line number | `getToken` with a handler for each state, `lexerReset` | quotes that nest and span lines; lookahead at the end of an operator; what a rejected line leaves behind | tokens and values depend on the text only |
| Expansion: `execution/expansion/`, `expander.c` | position, state stack, output; the variable table | `expandWord` with a handler for each state; it calls itself for the word in braces | braces in braces; operators that assign; unclosed braces and parentheses; borders between quotes | a word is expanded to what it means or refused, and the expansion ends |
| Redirections: `handleRedirect`, `executeBuiltinCommand`, `utilities/file.c` | descriptors of the shell and of its child, the three saved copies, stdio's buffers | open, dup, save and restore round a builtin | failure half way, flush order, buffers duplicated by `fork` | each command runs with its descriptors, the shell has its own back, output arrives |
| Function list: `function-list.c` | name to body (a copied tree) | define, find | redefinition while the body runs, definition that fails | a call runs the last body; a running body stays alive |
| Builtins: `shell-builtin-commands/` | variables, working directory, flags | `exit`, `cd`, `export`, `unset`, `echo`, `pwd`, `true`, `false` | `cd` changes two variables and the directory, each may fail | `PWD`, `OLDPWD` and the directory agree |
| Environment import, buffers, state stack, string helpers, messages | - | helpers | failing allocations | - |

The hazards themselves, with their lines, are in `PROJECT.json`.

## 2. Modules

| Module | Models | Role |
|---|---|---|
| `Execute` | `execute.c`, `exit.c`, the loop of `runInteractive`, the end of `main` | processes and control flow |
| `Pipeline` | `executePipelineNode` call by call | descriptors, pipes, programs |
| `EnvMap` | the contract in `hash-table.h` | abstract map |
| `HashTable` | `hash-table.c` | the table, shown to implement `EnvMap` |
| `Lexer` | `tokenize.c` | characters to tokens, line after line |
| `Parser` | `syntax-parser.c`, `abstract-syntax-tree.c` | the grammar as instructions on calls and nodes |
| `Grammar` | - | the grammar of POSIX, and what the parser takes of it: the reference for `Parser` |
| `Redirect` | `handleRedirect`, `executeBuiltinCommand`, `file.c`, stdio | the descriptors and the output of simple commands |
| `Expansion` | `expansion.c`, `parameter.c`, `tilde.c`, `command.c`, `expander.c` | `expandWord`, handler by handler |
| `Command` | `handlePrefix`, `handleSuffix`, the builtins, `env.c` | simple commands on the variables; composes `Expansion` |
| `Word` | - | what a word means: the reference for `Command` and `Expansion` |
| `Session` | `shell.c`, `function-list.c`, and who frees what in lexer, parser and executor | lines, files, trees, functions |

`MCX` instantiates `X` for TLC (`MCParser` and `MCCommand` with the references `Grammar` and
`Word`), `XProofs` holds the theorems about `X` (for `Execute`,
`Pipeline`, `HashTable`, `Parser`, `Lexer`, `Redirect`, `Command` and `Session`).

### Execute

`executeNode` is recursive C, so a process is its C stack: `mem[p].stack` has one frame per
`executeXxxNode` call that has not returned.  A frame is the node, the place in the
function (`pc`), the role (a forked child's frame has role `"child"`) and the pids the call
waits for.  `Fork` copies `mem[p]` to a free slot of the process table; `base` remembers
the frame the child was forked in, so that everything below it is a copy of the parent's.
One action per function, split where the function forks or waits: `PipelineFork`,
`PipelineForkFails`, `PipelineWait`, `SubshellFork`, `ExternalFork`, `ExternalExec` and so
on.  `EXEC_FLAG_BG`, `EXEC_FLAG_CHILD_PROCESS` and `EXEC_FLAG_EXIT` are the set
`mem[p].flags`, set and cleared where the code does, and `last_exec_status` keeps its
8 bits.

Abstracted: words, variables and descriptors.  A command has the set of wait statuses its
program may end with; a redirection or assignment may fail when the node says `FALLIBLE`;
whether a case pattern matches is a flag of the node.  That the parser only builds nodes
with the children the executor takes is an assumption here (`AstAssumption`) and the
property `TreeFits` of `Parser`, proved for every input (`AcceptedTreesFit`).

### Pipeline

The same function one level below: every `pipe`, `fork`, `dup2`, `close` and `waitpid` is
a step of its own.  `fds[p]` is a descriptor table, `loc[p]` holds the locals (`i`,
`prev_stdin`, `file_descriptors`), copied by `fork`.  The kernel and the programs are
external: a pipe holds `Capacity` items, `pipe` returns the two lowest free
descriptors, a read waits while the pipe is empty and somebody holds its write end, a write
without a reader ends the program with SIGPIPE.  Stage 1 produces (for ever when
`endless`), the others copy, a stage in `quits` may stop at any time, as `head` does.

Simplified: `pipe` and `fork` share the outcomes of the code's two error returns, and a
stage's program is one process (a compound stage holds the same descriptors as its
children).

### HashTable and EnvMap

`data` is the slot array, `Hash1`/`Hash2` are arbitrary functions, `Modulus` is 2^32.
`hashTableInsert` is split as the code is: the load test and the allocation, one step for
each item `hashTableResize` moves, the store.  So the invariants also speak about a half
moved table, and an insert may fail at each allocation, for lack of a prime, or because an
item finds no slot (the rollback).  `hashTableNextPrime` follows the list, then the search
for a prime, then the error at the last prime.

`EnvMap` is what `hash-table.h` promises: an insert changes one name or, when it fails,
nothing; a removal takes one name out; a lookup returns the last value.  `HashTable`
implements it under the refinement `map[k]` = the value in the full slot with key `k`,
taken from the old array while items move.

### Parser

Each `analyzeXxx` function is a sequence of instructions (take a token, require one, make a
node, set a flag, attach, call another function), chosen by the current and the next token
as the code chooses.  `stack` holds the calls that have not returned with the node they
work on, `heap` the nodes and how often each was freed.  On an error, `ReturnError` frees
what that level of the code frees (the local list, and-or list or pipeline that is not in
the tree yet), and `analyze` and its caller free the rest.

A token is its kind; values matter for reserved words and assignments only.  All
redirection operators are one token.  `malloc` does not fail here, and `ASTCopyTree`
(function definitions) is a step of `Session`.

`Grammar` is the reference for what is accepted.  `Posix` has the rules of XCU 2.10.2, and
`Taken` is `Posix` with the rules in which the code is narrower replaced; section 5 lists the
five.  `ProgramsAccepted` says that the parser accepts the programs of `Taken` to the last
token and no others, with two laxities (`OddName`, `OpenItem`) and one ambiguity
(`KeywordAsName`).  So it does not say that POSIX programs are accepted: `CHANGELOG.md:46`
("Recursive descent parser following POSIX grammar") promises that, and the five rules are
where the code breaks the promise.

### Lexer

One action per handler: `handleCharacter` takes the next character (the lookahead if there
is one) and calls the handler of the state on top of `stack`.  `buff` is the word so far
with the `QuoteType` of each character, as `buffer` and `type_buffer` are.  `tokens` is a
history of what the calls returned, with the places they were read from.  A character is a
class: one letter and one digit stand for all.  `lexerReset` may come between any two
tokens, as it does after a rejected line, and starts a new text.  Each push may fail for
want of memory.

The references are written without states and without the code's tests: `Joined` removes
continuations, `TokenFrom` looks for the longest token at a place of the text as XCU 2.3 and
the comments of `tokenize.h` describe it (only plain digits right before `<` or `>` are an
`IO_NUM`), `QuoteRemoved` removes quotes from a piece of text.  `Differs` names the four
places where the code's tokens are others (section 5), and `TokensRight` leaves just these
out.  Substitutions are no part of the reference: to the lexer `$(a b)` is two words and two
operators.

### Redirect

`fds[p]` is the descriptor table of the shell and of the child that runs, `saved` the
copies that `executeBuiltinCommand` makes, `stdout[p]` stdio's buffer with its mode: line
buffered on a terminal, else full, chosen at the first output.  `readline` prints a prompt
first, so an interactive shell is line buffered (`prompted`).  One action for each `dup`,
each redirection and the restore.  `home` is a history variable: the descriptors the shell
should have between commands.  `due` is another: what each file should receive if every
command's output went where its redirections say (`Meant`).

`clean` restricts the properties to commands that name the descriptors 0 to 2, when no `dup`
failed and no builtin ran while one of them was closed.  What happens otherwise is in the
model; section 5 lists it.

### Expansion, Command and Word

`Expansion` works on characters as the code does: `frames` are the nested calls of
`expandWord`, each with its position, state and output; each call of a handler is a step.
`Command` runs a session of simple commands, one a line: the assignments one by one, a call
of `expandWord` for each word, then the builtin or the program.  `own` is the table the line
began with, which a child leaves as it was.  The table is a map from names to texts
(`EnvMap` is the contract, `HashTable` its implementation); an insert may fail wherever the
code inserts, with each of its errors, and so may the lookup of a name in a full table, whose
error `${...}` and `~` pass on.  `cd -` reads the old value of `OLDPWD` after it was freed: the
model lets it be empty or the old text.  `right`, `told`, `before` and `visited` are history:
who set `PWD` and `OLDPWD` last, which of them the last `cd` could set, where it began, and
where the shell has been.

`Word` stands above both and maps no code: it builds words from pieces (text, variable,
brace with an operator and a word, tilde, ..., each in its own kind of quotes), writes them
as the characters and quoting types a command has (`Render`, `Written`) and says what POSIX
(XCU 2.6) makes of them (`Meaning`), the variables that `${name=word}` sets included.  Where
the code does something else there is a named difference (`Differs`, `ReadsOwn`; section 5
lists them), and `ArgumentsRight` leaves just the words with one of them out; each exclusion
is needed, the run fails without it.  Not judged are the words with a `RAW` piece (any text):
of them it is checked that the expansion keeps inside its input and ends.  Arithmetic,
command substitution, `%` and `#` occur only there.  Field splitting and patterns are not in
`Meaning`, because the shell has none.  These definitions are recursive; `Expansion` and
`Command` see only characters and types, so that they can be proved about.

### Session

`heap` lists the blocks in the order they were allocated, with their kind (table, line,
`FILE`, tree) and how often they were freed.  The steps are those of `runInteractive`,
`runScript` and `runString`.  While a line runs, `calls` is the C stack: each frame is a
list of statements in some tree.  A statement defines a function or calls one; everything
else a command does is in the other modules.  A definition copies the body; a redefinition
frees the old one at once, also when it is running (`dangling`).  `MaxDepth` bounds the C
stack; at the bound the process may die, as it does of infinite recursion.

## 3. Runs

| Run | Shows |
|---|---|
| `execute` | `NoReturnPastFork`, `ForegroundAwaited`, `SessionEnds` |
| `exit_stops`, `stage_runs_whole` | two promises the executor breaks |
| `pipeline` | `StageWired`, `ShellLetsGo`, `NothingLost`, `LeakOnFailure`, `PipelineReturns`, `EndWithShell` |
| `hashtable` | the table is a map (`IsMap`), `EnvpFits`, `Findable`, `LoadBelow`, `ProbesAllBelowOverflow` |
| `parser` | `TreeFits`, `NothingDropped`, `ErrorFreesAll`, `ProgramsAccepted`, `Terminates` |
| `lexer` | `StackShape`, `TokensRight`, `ValuesRight`, `GetTokenReturns` |
| `redirect` | `FdsRestored`, `RunsRedirected`, `Delivered` |
| `redirected_output` | a promise a redirected builtin breaks in a script |
| `command` | `ArgumentsRight`, `DirectoriesRight`, `Terminates` |
| `session` | `UsesLive`, `FindsLatest`, `AllFreed` |
| `session_freed_once` | `-c` closes its `FILE` twice, a script file too, and a rejected line's tree is freed twice |

Every passing run also checks its module's `TypeOK`.

**Bounds, and why they are enough.**

- *Executor*: four process slots, seven small programs in six sessions.  The longest
  needs three processes at once (a pipeline of three stages) and one more for a background
  program left from the line before.  Every node type and every flag occurs; assignments,
  redirections and definitions fail, with one error for all of theirs; in run `execute`
  `fork` may fail at any time, so also when the process table is full.  The two small runs
  that show a broken promise let no `fork` fail.
- *Pipeline*: three stages are the smallest pipeline with a stage that has both a
  predecessor and a successor, which is where `prev_stdin` and the new pipe coexist.  One
  item per pipe makes every write of a second item wait.  Four of seven descriptors are
  open already: the other three are just what the calls need at once, and `pipe` and `fork`
  fail because they may fail at any time.  The descriptors 0 to 2 are open at the start: a
  shell that was started with one of them closed is not covered.
- *Table*: capacities 2 and 3 come from the list, 5 and 7 from the search for a prime, and
  7 stands for `CLOSEST_UMAX32_PRIME`.  The search from twice the old capacity would go
  beyond 7 and does not run here; the proofs cover it.  The names collide at every
  capacity.  With `Modulus` 8 the probe sum overflows from capacity 5 on, as it does in 32
  bits from 98317 on, and three names share two slots of the table of 7, so that an item
  finds no slot in the grown table and the growth is rolled back.
- *Parser*: twenty-two programs with every construct, among them the POSIX programs that
  CyprSH does not take, and all programs that differ from one of them by one token (cut
  short, left out, replaced by one of ten): errors at every place of every function.
  `ProgramsAccepted` judges every one of these inputs.
- *Lexer*: all texts of up to four characters over eleven classes, every operator between
  a word, a number or nothing and each character that might belong to it, every quote
  inside every other; two texts, so that each kind of leftover meets each kind of start.
  No token or handler looks further than one character behind its own.
- *Redirections*: up to two redirections in a command (a third has nothing new to
  interact with) and up to three commands; seven descriptors leave a builtin one free
  besides its copies, or none in a script, so every call fails somewhere for want of one.
- *Commands*: words of up to three pieces from all kinds of pieces, quotes of each type
  around and inside braces, operators nested three deep, a variable that is set, one that is
  empty and one that is not set, all raw texts of up to three characters behind each
  opening; and all sessions of two commands (three with a `cd` first) out of a set of lines.
  Borders between two pieces are where an expansion can go wrong; the third piece is for
  what follows a nested brace.
- *Session*: up to four lines of eight: one to define, one to redefine, one to call, one
  that fails.

**Deadlock.**  `pipeline`, `redirect`, `redirected_output`, `command` and the two `session`
runs turn the deadlock check off: the shell ends there (or, in `pipeline`, may stay open
for ever without doing anything; that a stage abandoned by a failed `fork` waits then is
described by `EndWithShell`).  In `command` a session that stopped half way would violate
`Terminates`.  The other modules have an explicit step for the end.

**Fairness.**  The kernel runs every process that can run, so each process has weak
fairness, never strong: `Execute` for each process and for the main loop of the shell,
`Pipeline` for the shell's calls, for each stage's set-up and program and for the stop of
a program that is said to stop early, `Parser`, `Lexer` (inside a call of `getToken`) and
`Command` for their only thread; in `Command` running out of memory is not fair, so that
an endless loop does not count as ended by it.  Closing the session
is not fair, because the user need not do it.  Loops of a script end only by `exit`: a
script that loops for ever is no error of the shell, so no such session is in the
instance, and `SessionEnds` is about these sessions.

## 4. Proofs

All theorems have the form `Spec => []P`, but for `TableIsMap`, which is the refinement
`Spec => IsMap`, and `OutputDelivered`, which has a hypothesis (below).  Each is proved
from an inductive invariant, one lemma per action; TLC checked every invariant on the run's
instance before it was proved.  The assumptions are those named in the component's module
(`AstAssumption` and the ones beside it, `PipelineAssumption`, `TableAssumption`,
`InputAssumption`, `LaunchesAssumption`, `NamesAssumption`); TLC evaluates them on every run.

- `ExecuteProofs!TypeCorrect`, `NeverReturnsPastFork`, `WaitsForItsChildren`.  The first
  two are one inductive invariant `Inv == TypeOK /\ NoReturnPastFork`: that a return finds a
  frame below it needs the base frame of a forked process to have role `"child"`, and that
  needs typed stacks.  The lemmas first show that each way to change a process's memory
  (push, pop, move the `pc`, set a flag or status) keeps it `Good`, then go through the node
  types.  `AwaitInv` adds to `ForegroundAwaited` what makes it inductive: nobody
  waits in a child's copy of its parent's calls (`Rooted`), the calls below the topmost one
  wait for nobody (`Quiet`), and the topmost one neither, unless it is a pipeline, a subshell
  or an external command about to wait (`Waiting`).
- `PipelineProofs!TypeCorrect`, `StagesWired`, `ShellHoldsNoEnd`, `LeakBounded`,
  `PipelineLosesNothing`, for every number of stages and descriptors.  The strengthening
  says exactly which descriptors each process holds at each call, as a function of its
  locals; each of the first properties is one place of it.  `PipelineLosesNothing` adds a
  conservation law (`Flow`): what the first stage has sent is what the last one has got and
  what is parked in a pipe or held by a stage.
- `HashTableProofs!TypeCorrect`, `SizeExact`, `ItemsFindable`, `LoadFactorKept`,
  `EverySlotProbed`, `TableIsMap`, for every set of names, every pair of hash functions,
  list of prime capacities and modulus.  `IInv` adds to `Findable` that no key is in two
  slots (otherwise a removal leaves one behind and `currentSize` is wrong), that the values
  of an insert in progress are there, and, while items move, that the new table holds just
  the items of the old one that were passed (`Moving`).  None of this uses that the probe
  sequence visits every slot, so it also covers capacities at which the sum overflows.
  `EverySlotProbed` is the number theory: two probes that meet differ by a multiple of the
  step, and a prime capacity divides none of these.  `LoadFactorKept` needs that the next
  capacity is larger, which the list and the search for a prime both give.  `TableIsMap`
  maps each action to an action of `EnvMap` or to a stutter; the move of one item is a
  stutter because of `Moving`.
- `ParserProofs!ParserTypes`, `SyntaxErrorsFreeAll`, `AcceptedTreeIsWhole`, `NothingLeaks`,
  `AcceptedTreesFit`, for every input.  `ParserInv` says that the heap is a forest (`Forest`): every node has
  one parent, is a root or is freed, a tree is freed as a whole, and the roots are
  `ast_root` and the nodes of the calls that have not attached theirs.  That no call leaves
  such a node behind is a property of the code of the functions, so the first half of the
  module is a small type system for it: a function either inserts its node as it makes it
  (`OpenCode`), or makes it first, builds it and ends by attaching it (`StartCode`,
  `BuildCode`), whatever branches it takes.  `InTree` is a recursive function; that it has
  a value, and which, is shown by the smallest node at which it would not.

  `AcceptedTreesFit` needs more: which children and flags a node has when each instruction
  runs.  The second half of the module is a program logic for the table `Code`.  A
  `Knowledge` is what a call knows: the types of the nodes it still has to add to its
  caller's node, the states (children and flags so far) its own node may be in, and the
  tokens the current one may be.  `Leads(c, A, B)` says that code `c` takes a call that knows
  `A` to its end with `B` known, or to a syntax error.  The functions of the parser call each
  other recursively, so the judgement is defined as a greatest fixed point: it holds when
  some set of judgements contains it and is `Closed`, that is, each of its judgements follows
  from others of the set by one instruction.  `Goes` lists what every function of the parser
  leads from and to, and each line of it is checked against the code of that function.
  `TreeInv`, the inductive invariant, then says that every call of the stack is on such a way
  (`Informed`), that its node is newer than those of the calls below it (`Placed`) and in a
  state it knows (`Stated`), that every node is either worked on by a call and has no operator
  yet, or complete (`Tended`, `Built`), and that its children differ and its flags are among
  those of its type (`Sound`).  That the operator of an and-or list reaches a pipeline that
  has none, and disturbs no other list, uses that every node has one parent (`Forest`).
- `LexerProofs!TypeCorrect`, `StackBounded`, for every text.  Together they are one
  inductive invariant: the handlers pop the stack unconditionally, so that it stays typed
  needs its shape, and that a position stays in the text needs the lookahead's type.  It
  follows that `STACK_CAPACITY` (128) is never reached and `stackPop` never fails.
- `RedirectProofs!TypeCorrect`, `ShellKeepsDescriptors`, `CommandsRunRedirected`,
  `OutputDelivered`, for every session, every list of redirections and every limit on
  descriptors.  `Kept` strengthens `FdsRestored`: while a builtin runs, the copies made so
  far stand at numbers from 3 on and hold the shell's descriptors (`CopiesHold`), and every
  redirection of a standard descriptor leaves the descriptors from 3 on as they are, because
  what it opens goes to a free number and is closed again.  `Follows` adds that the standard
  descriptors are what the redirections done so far mean (`Meant`), `Intact` that the shell
  keeps its three descriptors open, every buffer is line buffered and empty,
  and each file has received what was due.  `OutputDelivered` assumes that the shell is
  started with its three standard descriptors open (as every start of the run `redirect`
  is): when one is closed, a saved copy or a file takes its number, and section 5 says what
  happens then.
- `CommandProofs!TypeCorrect`, `ArgumentForEachWord`, `DirectoriesFollow`, for every word,
  closed or not, and every session, set of names and of directories.  `CommandInv` has three
  parts.  `CallsInv`: every call of `expandWord` stands inside its text, and every call but
  the topmost is in the state `NORMAL`, because the handler of the brace leaves its state
  before it calls.  That a handler never moves behind the end needs that the search for
  the closing brace stops in the text; `BraceEnd` is a recursive function, and that it has a
  value there is shown by the smallest place at which it would not (`BraceEndIs`).
  `ArgumentsInv`: the next argument is the next word's.  `DirectoriesInv`: what `cd` set last
  names a directory the shell was in, the present one or the one before it if the insert and
  `getcwd` worked, in the shell's table and in the copy `own` that it has again after a
  child.  What a failed insert or `getcwd` leaves is a directory the shell was in, and no
  more.  The expansion can set a variable too, by `${name:=word}`; it never sets `PWD` or
  `OLDPWD`, because the name it assigns to has the `=` in it (`BraceTypeIs`, section 5) and no name
  has (`NamesAssumption`).
- `SessionProofs!TypeCorrect`, `ReadsAreLive`, `CallsFindLatest`, `SessionFreesAll`, for
  every input, mode and function body.  The strengthening says which block plays which role
  (`Roles`), that the bodies in the function list are different blocks and live (`Bodies`),
  that a running list is in the tree, in a listed body, or `dangling` (`Runs`), and what each
  `pc` has open (`Reads`).  `Accounts` adds for `SessionFreesAll` that every live block has
  one of these roles.

**Model-checked only.**  Liveness (`SessionEnds`, `PipelineReturns`, `EndWithShell`,
`Terminates`, `GetTokenReturns`) is outside what the prover can do here.  `TokensRight`,
`ValuesRight`, `NothingDropped`, `ProgramsAccepted` (of `Grammar`) and `ArgumentsRight` (of
`Word`) compare with recursive references, whose induction is outside it as well; `ArgumentForEachWord` proves the
first conjunct of `ArgumentsRight`.

## 5. What the checks found

Four runs expect a violation; each quotes the sentence of the repository it contradicts.

1. `exit 3 || cmd` runs `cmd`, and a script goes on with the line after `exit`: only lists
   and loop bodies look at `EXEC_FLAG_EXIT`.
2. `{ true; cmd; } | cat` never runs `cmd`: `EXEC_FLAG_CHILD_PROCESS` is still set for the
   commands inside the stage, so the first one ends the process.
3. In a script `echo a > f` leaves `f` empty: the restore does not flush, the output is
   written when the shell exits, to its own standard output.
4. `-c` closes its `FILE` in `lexerDtor` and again in `runString`.  The same invariant
   fails for a script file, which `main` closes again, and for the tree of a line with a
   syntax error, which `analyze` and its caller both free; each is a finding.

The models keep the following behaviour of the code as well.  Where a text of the repository
says otherwise it is named; these texts are general, the code does in part what they say, and
the property of the passing run says which part.

- *Executor*: `{ a; b; } &` is waited for, because the inner list clears `EXEC_FLAG_BG`; a
  background command leaves the status of an older command; background processes are not
  reaped (`CHANGELOG.md:32` says so).
- *Table*: when no slot is empty any more, an insert of a new name fails although there are
  tombstones.
- *Parser*, against "Recursive descent parser following POSIX grammar" (`CHANGELOG.md:46`;
  the limitations in `README.md:23-27` name heredocs only).  These POSIX programs are not
  accepted (`Taken`): a newline between the commands of a body; `;` or `&` before `;;` or
  `;&`; an item of a `case` with a newline and no command; `for name`, a newline and `do`;
  redirections of a compound command.  `if (`, `while (` and `until (` are taken for the
  start of a function definition.  Accepted without being in the grammar: a reserved word as
  the name of a command, any word as the name of a function, an item without `;;` before the
  next one.  `echo a ) echo b` runs `echo a`, drops the rest and reports success.
- *Lexer*, against "full POSIX token recognition" (`CHANGELOG.md:44`) and, for the first,
  "digits immediately before < or >" (`tokenize.h:40`): quoted digits or an empty quoted word
  before `<` or `>` count as an `IO_NUM` (`''<f`, `\1<f`); a backslash and a newline between
  tokens start a word; they also separate the characters of an operator (`&\` newline `&`);
  `{`, `}` and `!` are tokens also when a word goes on behind them (`{a`).  `<<<` is no POSIX
  operator.  In double quotes a backslash before an ordinary character pushes the character
  twice; a continuation line counts as two lines.
- *Expansion*, against the lists in `CHANGELOG.md:16-28`.  Parameters: positional parameters
  are always empty, though `CHANGELOG.md:20` lists them and `README.md:113-123` shows
  `greet world` with `$1`; `$0` gives nothing; `${?}`, `${$}`, `${#}` and `${!}` give nothing.
  Operators: `${U:=w}` sets a variable with the name `U:=w`; the words after `=` and `+` are
  not expanded.  Length: `${#U}` of a name that is not set gives nothing.  Quoting: the word
  in braces has lost its quotes, so a quoted `$`, `{`, `}` or leading `~` in it is special; a
  lone `$` before a quoted name, brace or parenthesis takes it; the name of a user goes on in
  quotes (`~r"a"`).  Not implemented: `%` and `#` give nothing, `$((...))` gives nothing,
  `$(...)` is an error (the last two are open in `README.md`'s status list); there is no
  field splitting and there are no patterns.  When the table has no empty slot, a `${...}`
  of a name that is not set is an error, and so is `~` without `HOME`.
- *Commands*: only the words after the command's name are expanded, not the values of
  assignments; the command's own assignments are in force when its words are expanded
  (`X=b echo $X` prints `b`, POSIX the old value); assignments before a builtin stay; a
  builtin whose redirection or word fails leaves the status of the command before it;
  functions ignore the assignments, words and redirections of their call; `export` reports
  success for an argument it could not split; `cd -` reads freed memory (with `PWD` set the
  built shell always says `cd: : No such file or directory`); a `cd` that fails has changed
  `OLDPWD`; after a failed insert or `getcwd` `PWD` keeps the directory before.
- *Redirections*: `n>f` with n from 3 to 5 overwrites a builtin's saved copies; `3>f`
  closes what it opened when 3 is the lowest free number; `n>&m` closes m when it is 3 or
  more; when a standard descriptor is closed, a saved copy or a file takes its number; a
  `dup` that fails leaves the redirection in force.
- *Session*: a function that redefines itself frees the body that is running; the function
  list is never freed; `main` returns 0 whatever happened, unless it cannot open its file; a
  failed import of the environment is ignored.

## 6. Not modelled, and the plan

Not modelled because nothing there can go wrong in a way a model shows: message printing,
string helpers, plain growable buffers, the history file.  `builtin-command-linked-list.c`
and `functionListDtor` are never called.

Left out of the models: failing allocations of the parser (`ASTaddChild`'s result is
ignored in places), more than `MAX_ARGS` arguments, trees of more than 32767 children,
`findPath`, and the patterns of `case`.

Done: the modules of section 2 and the theorems of section 4.  What is left is a model of
the parser's failing allocations, with the error paths of `ASTaddChild`.
