------------------------------- MODULE Command -------------------------------
(***************************************************************************)
(* Simple commands on the variables: their assignments (handlePrefix),     *)
(* their words (handleSuffix with expandWord of module Expansion), and the *)
(* builtins cd, export, unset, echo, pwd, true and false.  A session is    *)
(* one command per line.  The table starts as populateEnvTable makes it    *)
(* of the environment.  What the commands do to descriptors is module      *)
(* Redirect.                                                               *)
(***************************************************************************)
EXTENDS Expansion, SequencesExt

CONSTANTS
    Launches,            \* [lines, environ, dir]: the commands of a session, one a line, the
                         \* environment as texts name=value, and the working directory
    Pwd, OldPwd, Path,   \* the names PWD, OLDPWD and PATH
    Dirs                 \* the absolute paths of the directories there are

\* The characters of a text, and a line of a session.
Text == Seq(STRING)
IsLine(c) ==
    /\ c.assigns \in Seq(Text)
    /\ c.words \in Seq(ToSet(c.words)) /\ \A w \in ToSet(c.words) : w.chars \in Text

ASSUME LaunchesAssumption ==
    \A start \in Launches :
        /\ start.lines \in Seq(ToSet(start.lines)) /\ \A c \in ToSet(start.lines) : IsLine(c)
        /\ start.dir \in Dirs

\* PWD and OLDPWD are names, and no name has an = in it.
ASSUME NamesAssumption == IsName(Pwd) /\ IsName(OldPwd) /\ Pwd # OldPwd /\ "=" \notin NameChar

VARIABLES
    commands,   \* those that are left; the first one runs
    pc,         \* what it does: PREFIX, EXPAND its words, or RUN
    at,         \* which assignment, word or argument is next
    argv,       \* argv[1], argv[2], ... as far as they are expanded
    own,        \* the table the line began with: the shell's while a child runs
    cwd,        \* the working directory
    before,     \* where the last cd that knew its target began
    right,      \* which of PWD and OLDPWD cd was the last to set
    told,       \* the ones the last cd, or the last one that went anywhere, could set
    visited     \* the directories the shell has been in

expansion == <<word, frames, result>>
places == <<cwd, before, told, visited>>
vars == <<commands, pc, at, argv, own, places, right, expansion, table, last_exec_status>>

Command == commands[1]
IsExternal == Command.kind = "EXTERNAL"

Without(t, keys) == [k \in DOMAIN t \ keys |-> t[k]]

HasEq(s) == \E n \in DOMAIN s : s[n] = "="

\* The name is what stands before the first =.
splitAssignment(s) ==
    LET eq == Min({n \in DOMAIN s : s[n] = "="})
    IN  [key |-> SubSeq(s, 1, eq - 1), value |-> SubSeq(s, eq + 1, Len(s))]

Assigned(t, s) ==
    IF HasEq(s) THEN hashTableInsert(t, splitAssignment(s).key, splitAssignment(s).value) ELSE t

\* Of a name that is there twice the last value counts; a text without = is left out.  An
\* import that fails, which shell.c does not look at, is in module Session.
populateEnvTable(environ) ==
    LET entries == {n \in DOMAIN environ : HasEq(environ[n])}
        key(n) == splitAssignment(environ[n]).key
        last(k) == Max({n \in entries : key(n) = k})
    IN  [k \in {key(n) : n \in entries} |-> splitAssignment(environ[last(k)]).value]

-----------------------------------------------------------------------------
\* The line is done with the status s, the table t and the directory variables r.
Finish(s, t, r) ==
    /\ commands' = Tail(commands)
    /\ last_exec_status' = s
    /\ table' = t /\ own' = [table |-> t, right |-> r] /\ right' = r
    /\ pc' = "PREFIX" /\ at' = 1 /\ argv' = <<>>
    /\ UNCHANGED expansion

\* A child leaves the variables of the shell alone.
ChildEnds(s) == Finish(s, own.table, own.right)

\* An assignment or a word failed with the error st: the shell does not run the builtin and
\* keeps the status of the command before, a child exits with st.
Refused(st) ==
    \/ ~IsExternal /\ Finish(last_exec_status, table, right)
    \/ IsExternal /\ ChildEnds(st)

Code == [ERROR_DEFAULT |-> 1, ERROR_MALLOC_FAILURE |-> 3, ERROR_INT_OVERFLOW |-> 4,
         ERROR_INDEX_OUT_OF_BOUNDS |-> 5, ERROR_EXPANSION_FAILURE |-> 14]

ForkFails ==
    /\ commands # <<>> /\ IsExternal /\ pc = "PREFIX" /\ at = 1
    /\ ChildEnds(last_exec_status)
    /\ UNCHANGED places

\* handlePrefix: the values are not expanded, and stay when a builtin is done.
Prefix ==
    /\ commands # <<>> /\ pc = "PREFIX" /\ at <= Len(Command.assigns)
    /\ LET s == Command.assigns[at]
       IN  \/ /\ table' = Assigned(table, s)
              /\ right' = right \ {splitAssignment(s).key}
              /\ at' = at + 1
              /\ UNCHANGED <<commands, pc, argv, own, expansion, last_exec_status>>
           \/ \E st \in InsertError : Refused(Code[st])
    /\ UNCHANGED places

\* After the assignments come the words, if there is a command.
PrefixDone ==
    /\ commands # <<>> /\ pc = "PREFIX" /\ at > Len(Command.assigns)
    /\ \/ /\ Command.kind = "NONE"
          /\ Finish(last_exec_status, table, right)
       \/ /\ Command.kind # "NONE"
          /\ at' = 1
          /\ IF Command.words = <<>>
             THEN pc' = "RUN" /\ UNCHANGED expansion
             ELSE pc' = "EXPAND" /\ Calls(Command.words[1])
          /\ UNCHANGED <<commands, argv, own, right, table, last_exec_status>>
    /\ UNCHANGED places

\* handleSuffix: one call of expandWord for each word, one argument for each call.
Expand ==
    /\ pc = "EXPAND" /\ expandWord
    /\ UNCHANGED <<commands, pc, at, argv, own, places, right, last_exec_status>>

OutOfMemory ==
    /\ pc = "EXPAND" /\ Fails
    /\ UNCHANGED <<commands, pc, at, argv, own, places, right, last_exec_status>>

Expanded ==
    /\ pc = "EXPAND" /\ result.st = "SUCCESS"
    /\ argv' = Append(argv, result.output)
    /\ IF at < Len(Command.words)
       THEN at' = at + 1 /\ pc' = "EXPAND" /\ Calls(Command.words[at + 1])
       ELSE at' = 1 /\ pc' = "RUN" /\ UNCHANGED expansion
    /\ UNCHANGED <<commands, own, places, right, table, last_exec_status>>

ExpandFails ==
    /\ pc = "EXPAND" /\ result.st \in DOMAIN Code
    /\ Refused(Code[result.st])
    /\ UNCHANGED places

-----------------------------------------------------------------------------
(* The builtins.                                                             *)

Runs(kinds) == pc = "RUN" /\ Command.kind \in kinds

\* chdir and getcwd: the absolute path of a directory text.
PathOf(dir) ==
    LET full == IF dir[1] = "/" THEN dir ELSE IF cwd = <<"/">> THEN cwd \o dir ELSE cwd \o <<"/">> \o dir
    IN  IF Len(full) > 1 /\ Last(full) = "/" THEN Front(full) ELSE full
chdirWorks(dir) == dir # <<>> /\ PathOf(dir) \in Dirs

Back == argv # <<>> /\ argv[1] = <<"-">>
TargetName == IF Back THEN OldPwd ELSE Home
KnowsTarget == (argv # <<>> /\ ~Back) \/ TargetName \in DOMAIN table

\* target points into the table.  Saving PWD frees the block of OLDPWD that cd - is about to
\* read: the allocator overwrites its start, the old value may be there or not.
Targets(saved) ==
    IF argv # <<>> /\ ~Back THEN {argv[1]}
    ELSE {table[TargetName]} \cup (IF Back /\ saved THEN {<<>>} ELSE {})

\* PWD is saved if it is set and there is memory.
MaySave == {saved \in BOOLEAN : saved => Pwd \in DOMAIN table}

\* PWD becomes OLDPWD before chdir; the result of the insert is not looked at.
SavesPwd(saved) == IF saved THEN hashTableInsert(table, OldPwd, table[Pwd]) ELSE table
SavedRight(saved) == IF saved THEN (right \ {OldPwd}) \cup {k \in {OldPwd} : Pwd \in right} ELSE right
SavedTold(saved) == (told \ {OldPwd}) \cup {k \in {OldPwd} : saved /\ Pwd \in right \cap told}

\* chdir refuses: OLDPWD is PWD all the same.
Stays(saved) ==
    /\ Finish(1, SavesPwd(saved), SavedRight(saved))
    /\ told' = SavedTold(saved)
    /\ UNCHANGED <<cwd, visited>>

\* chdir goes to dir, which PWD says as text; without memory, or when getcwd fails, PWD keeps
\* its value.
Goes(saved, dir, text) ==
    /\ cwd' = dir /\ visited' = visited \cup {dir}
    /\ \/ /\ Finish(0, hashTableInsert(SavesPwd(saved), Pwd, text), SavedRight(saved) \cup {Pwd})
          /\ told' = SavedTold(saved) \cup {Pwd}
       \/ /\ Finish(0, SavesPwd(saved), SavedRight(saved))
          /\ told' = SavedTold(saved) \ {Pwd}

builtinCd_KeepsText ==
    /\ Runs({"cd"})
    /\ \/ ~KnowsTarget /\ Finish(1, table, right) /\ UNCHANGED places
       \/ /\ KnowsTarget
          /\ before' = cwd
          /\ \E saved \in MaySave : \E target \in Targets(saved) :
                \/ ~chdirWorks(target) /\ Stays(saved)
                \/ chdirWorks(target) /\ Goes(saved, PathOf(target), target)

builtinCd ==
    /\ Runs({"cd"})
    /\ \/ ~KnowsTarget /\ Finish(1, table, right) /\ UNCHANGED places
       \/ /\ KnowsTarget
          /\ before' = cwd
          /\ \E saved \in MaySave : \E target \in Targets(saved) :
                \/ ~chdirWorks(target) /\ Stays(saved)
                \/ chdirWorks(target) /\ Goes(saved, PathOf(target), PathOf(target))

\* An argument without =, or one that cannot be split for want of memory, is passed over.
builtinExport ==
    /\ Runs({"export"})
    /\ \/ /\ at <= Len(argv) /\ HasEq(argv[at])
          /\ \/ /\ table' = Assigned(table, argv[at])
                /\ right' = right \ {splitAssignment(argv[at]).key}
                /\ at' = at + 1
                /\ UNCHANGED <<commands, pc, argv, own, expansion, last_exec_status>>
             \/ Finish(1, table, right)
       \/ /\ at <= Len(argv)
          /\ at' = at + 1
          /\ UNCHANGED <<commands, pc, argv, own, right, expansion, table, last_exec_status>>
       \/ at > Len(argv) /\ Finish(0, table, right)
    /\ UNCHANGED places

builtinUnset ==
    /\ Runs({"unset"})
    /\ Finish(0, Without(table, ToSet(argv)), right \ ToSet(argv))
    /\ UNCHANGED places

Statuses == [echo |-> {0}, pwd |-> {0, 1}, true |-> {0}, false |-> {1}]

OtherBuiltin ==
    /\ Runs(DOMAIN Statuses)
    /\ \E s \in Statuses[Command.kind] : Finish(s, table, right)
    /\ UNCHANGED places

\* The child: no memory for the environment, no PATH, not found, not executable, or the
\* program's own status.
External ==
    /\ Runs({"EXTERNAL"})
    /\ \E s \in {1} \cup (IF Path \in DOMAIN table THEN {0, 126, 127} ELSE {}) : ChildEnds(s)
    /\ UNCHANGED places

-----------------------------------------------------------------------------
Init ==
    /\ \E start \in Launches :
        /\ commands = start.lines
        /\ table = populateEnvTable(start.environ)
        /\ cwd = start.dir
    /\ own = [table |-> table, right |-> {}]
    /\ pc = "PREFIX" /\ at = 1 /\ argv = <<>>
    /\ before = cwd /\ right = {} /\ told = {} /\ visited = {cwd}
    /\ last_exec_status = 0
    /\ word = <<>> /\ frames = <<>> /\ result = [st |-> "SUCCESS", output |-> <<>>]

Run ==
    \/ Prefix \/ PrefixDone \/ ForkFails \/ Expand \/ Expanded \/ ExpandFails
    \/ builtinCd \/ builtinExport \/ builtinUnset \/ OtherBuiltin \/ External

Next == Run \/ OutOfMemory

\* The shell runs, and a program it waits for ends.  That expandWord ends owes nothing to a
\* lack of memory.
Spec == Init /\ [][Next]_vars /\ WF_vars(Run)

-----------------------------------------------------------------------------
(* Properties.                                                               *)

\* Every component has a value of the code's types, and the expander is in order: no call reads
\* behind its input, and one is left exactly while the expansion runs (expandWord).
TypeOK ==
    /\ ExpanderOK
    /\ pc \in {"PREFIX", "EXPAND", "RUN"} /\ (pc # "PREFIX" => commands # <<>>)
    /\ result = Running => pc = "EXPAND"
    /\ commands # <<>> => Len(argv) <= Len(Command.words)
    /\ last_exec_status \in 0..127
    /\ {cwd, before} \subseteq visited /\ visited \subseteq Dirs
    /\ right \subseteq {Pwd, OldPwd} \cap DOMAIN table /\ told \subseteq {Pwd, OldPwd}

\* A command runs with one argument for each of its words.
ArgumentsComplete == pc = "RUN" => Len(argv) = Len(Command.words)

\* Until something else sets or unsets them, PWD and OLDPWD are directories the shell has been
\* in, whatever of cd fails, so that cd - goes nowhere else.  When its inserts and getcwd work,
\* PWD is the working directory, also after a cd that chdir refused, and OLDPWD is where the last
\* cd began; a failed one leaves the name behind, and the cd after it does not make OLDPWD
\* right again before PWD is (builtinCd).
DirectoriesRight ==
    /\ Pwd \in right => table[Pwd] \in visited /\ (Pwd \in told => table[Pwd] = cwd)
    /\ OldPwd \in right => table[OldPwd] \in visited /\ (OldPwd \in told => table[OldPwd] = before)

\* No word keeps expandWord busy for ever, closed or not: every session ends.
Terminates == <>(commands = <<>>)
=============================================================================
