------------------------------ MODULE Redirect ------------------------------
(***************************************************************************)
(* Redirections (executeBuiltinCommand, executeExternalProgram,            *)
(* handlePrefix, handleSuffix and handleRedirect of                        *)
(* src/execution/execute.c): what a session of commands does to the        *)
(* descriptors of the shell and of its children, and where the output      *)
(* arrives that the builtins leave in stdio's buffer.  The shell waits for *)
(* each child, so one process runs at a time.  The kernel, stdio and the   *)
(* programs are external: the place in a file and what is truncated are    *)
(* left out, a file receives a sequence of items.                          *)
(***************************************************************************)
EXTENDS Integers, Sequences

CONSTANTS
    File,       \* the files that redirections name
    Item,       \* what commands print
    MaxFd,      \* the limit on open descriptors
    Starts,     \* the descriptors a shell may have when its first command runs
    Sessions    \* the sequences of commands to run

Terminal == "terminal"
Nowhere == "nowhere"

Fd == 0..MaxFd - 1
Std == 0..2

\* What a descriptor refers to.
Opened(file, write) == [file |-> file, write |-> write]
Closed == Opened(Nowhere, FALSE)
Description == [file : File \cup {Terminal}, write : BOOLEAN] \cup {Closed}

Op == {"LESS", "GREAT", "LESSGREAT", "LESSAND", "GREATAND", "HEREDOC"}

\* fd is the number before the operator, or -1; to is the number after >& or <&, -1 for a
\* minus sign and -2 for a word that is no number; file is the name after the other operators.
Redirection == [op : Op, fd : Nat \cup {-1}, file : File, to : Nat \cup {-1, -2}]

\* BUILTIN runs in the shell, SUBSHELL is a builtin in a forked process, EXTERNAL a program
\* and ONLY has redirections and no command word.
Kind == {"BUILTIN", "SUBSHELL", "EXTERNAL", "ONLY"}
Command == [kind : Kind, redirs : Seq(Redirection), prints : Item]

ASSUME RedirectAssumption ==
    /\ MaxFd \in Nat /\ MaxFd >= 3
    /\ Terminal \notin File /\ Nowhere \notin File
    /\ Starts \subseteq [Fd -> Description]
    /\ Sessions \subseteq Seq(Command)

VARIABLES
    prompted,   \* readline wrote a prompt to the terminal
    session, now,       \* the commands that are left, the one that runs included
    pc, at,     \* where it is, and at which of its redirections
    child,      \* the running process is a child
    fds,        \* the descriptors of the shell and of its child
    saved,      \* saved_stdin, saved_stdout and saved_stderr
    stdout,     \* stdio's buffer and its mode in the shell and in its child
    received,   \* what each file and the terminal received
    home,       \* the descriptors that commands leave the shell with: those it started with,
                \* and what a redirection without a command made of them
    clean,      \* no command named a descriptor from 3 on, no builtin ran while a standard
                \* descriptor was closed, no dup failed
    due         \* what each file and the terminal should receive

vars == <<prompted, session, now, pc, at, child, fds, saved, stdout, received, home, clean, due>>

Process == {"shell", "child"}
Me == IF child THEN "child" ELSE "shell"
cmd == session[now]

-----------------------------------------------------------------------------
(* The kernel's descriptor tables and stdio.                                 *)

\* open and dup return the lowest free descriptor.
IsLowest(f, fd) == f[fd] = Closed /\ \A n \in Fd : f[n] = Closed => fd <= n
Full(f) == \A n \in Fd : f[n] # Closed

IsOpen(f, fd) == fd \in Fd /\ f[fd] # Closed

\* Both after dup2(from, to).
Dup2(f, from, to) == IF IsOpen(f, from) /\ to \in Fd THEN [f EXCEPT ![to] = f[from]] ELSE f
Close(f, fd) == IF fd \in Fd THEN [f EXCEPT ![fd] = Closed] ELSE f

\* stdout is line buffered if descriptor 1 is a terminal when it is first printed to.
ModeFor(f) == IF f[1].file = Terminal THEN "LINE" ELSE "FULL"

\* write(1, items): a descriptor that is closed or not open for writing takes nothing.
Written(r, f, items) ==
    IF f[1].write THEN [r EXCEPT ![f[1].file] = @ \o items] ELSE r

\* printf of a line by process p.
Printf(p, item) ==
    LET mode == IF stdout[p].mode = "NONE" THEN ModeFor(fds[p]) ELSE stdout[p].mode
        buff == Append(stdout[p].buff, item)
    IN  IF mode = "LINE"
        THEN /\ received' = Written(received, fds[p], buff)
             /\ stdout' = [stdout EXCEPT ![p] = [mode |-> mode, buff |-> <<>>]]
        ELSE /\ received' = received
             /\ stdout' = [stdout EXCEPT ![p] = [mode |-> mode, buff |-> buff]]

\* exit flushes what is left in the buffer.
Flush(p) ==
    /\ received' = Written(received, fds[p], stdout[p].buff)
    /\ stdout' = [stdout EXCEPT ![p].buff = <<>>]

-----------------------------------------------------------------------------
(* What the redirections of a command mean (for the properties).             *)

getDefaultFD(r) ==
    IF r.fd # -1 THEN r.fd ELSE IF r.op \in {"GREAT", "GREATAND"} THEN 1 ELSE 0

Target(r) == Opened(r.file, r.op # "LESS")

Effect(r, f) ==
    CASE r.op = "HEREDOC" -> f
      [] r.op \in {"LESSAND", "GREATAND"} /\ r.to = -1 -> [f EXCEPT ![getDefaultFD(r)] = Closed]
      [] r.op \in {"LESSAND", "GREATAND"} /\ r.to \in Fd -> [f EXCEPT ![getDefaultFD(r)] = f[r.to]]
      [] OTHER -> [f EXCEPT ![getDefaultFD(r)] = Target(r)]

\* The descriptors of a command after its first n redirections, each seeing those before it.
Meant(redirs, f, n) ==
    LET after[k \in 0..Len(redirs)] == IF k = 0 THEN f ELSE Effect(redirs[k], after[k - 1])
    IN  after[n]

\* The redirections name only the three standard descriptors.
Names(r) == {getDefaultFD(r)} \cup (IF r.op \in {"LESSAND", "GREATAND"} THEN {r.to} \cap Nat ELSE {})
NamesStd(c) == \A n \in DOMAIN c.redirs : Names(c.redirs[n]) \subseteq Std

Closes(r) == r.op \in {"LESSAND", "GREATAND"} /\ r.to = -1

\* Closing a standard descriptor gives its number to the next file that is opened.
StaysOpen(c) == \A n \in DOMAIN c.redirs : ~Closes(c.redirs[n])
AllOpen(f) == \A n \in Std : f[n] # Closed

-----------------------------------------------------------------------------
(* Starting a command.                                                       *)

\* A redirection without a command is done in the shell itself, a builtin first saves three
\* descriptors, the other commands fork.
Start ==
    /\ pc = "NEXT" /\ now <= Len(session)
    /\ at' = 1
    /\ clean' = (clean /\ NamesStd(cmd) /\ (cmd.kind = "BUILTIN" => AllOpen(fds["shell"])))
    /\ \/ /\ cmd.kind = "ONLY" /\ pc' = "REDIRECT"
          /\ UNCHANGED <<child, fds, stdout>>
       \/ /\ cmd.kind = "BUILTIN" /\ pc' = "SAVE"
          /\ UNCHANGED <<child, fds, stdout>>
       \/ /\ cmd.kind \in {"SUBSHELL", "EXTERNAL"}
          /\ pc' = IF cmd.kind = "SUBSHELL" THEN "SAVE" ELSE "REDIRECT"
          /\ child' = TRUE
          /\ fds' = [fds EXCEPT !["child"] = fds["shell"]]
          /\ stdout' = [stdout EXCEPT !["child"] = stdout["shell"]]
    /\ UNCHANGED <<prompted, session, now, saved, received, home, due>>

Done == pc' = "NEXT" /\ now' = now + 1

ForkFails ==
    /\ pc = "NEXT" /\ now <= Len(session) /\ cmd.kind \in {"SUBSHELL", "EXTERNAL"}
    /\ Done
    /\ UNCHANGED <<prompted, session, at, child, fds, saved, stdout, received, home, clean, due>>

\* A dup at the start of executeBuiltinCommand; that it failed is not looked at.
Save ==
    /\ pc = "SAVE"
    /\ LET from == Len(saved)
       IN  \/ \E copy \in Fd :
                /\ IsOpen(fds[Me], from) /\ IsLowest(fds[Me], copy)
                /\ fds' = [fds EXCEPT ![Me][copy] = fds[Me][from]]
                /\ saved' = Append(saved, copy)
                /\ UNCHANGED clean
           \/ /\ ~IsOpen(fds[Me], from) \/ Full(fds[Me])
              /\ saved' = Append(saved, -1)
              /\ clean' = FALSE
              /\ UNCHANGED fds
    /\ pc' = IF Len(saved) = 2 THEN "REDIRECT" ELSE "SAVE"
    /\ UNCHANGED <<prompted, session, now, at, child, stdout, received, home, due>>

-----------------------------------------------------------------------------
(* handleRedirect.                                                           *)

Redirected_Swapped(f, target, source) ==
    LET g == Dup2(f, source, target)
    IN  IF target >= 3 THEN Close(g, target) ELSE g

\* dup2(target, source), and the target is closed from 3 on.
Redirected(f, target, source) ==
    LET g == Dup2(f, target, source)
    IN  IF target >= 3 THEN Close(g, target) ELSE g

AfterRedirects_SkipsRestore(ok) ==
    CASE cmd.kind = "ONLY" -> "LEAVE"
      [] cmd.kind = "EXTERNAL" -> IF ok THEN "EXEC" ELSE "EXIT"
      [] OTHER -> IF ok THEN "RUN" ELSE IF child THEN "EXIT" ELSE "LEAVE"

\* What follows the redirections: a builtin that is skipped still restores its descriptors, a
\* child that would run a program exits.
AfterRedirects(ok) ==
    CASE cmd.kind = "ONLY" -> "LEAVE"
      [] cmd.kind = "EXTERNAL" -> IF ok THEN "EXEC" ELSE "EXIT"
      [] OTHER -> IF ok THEN "RUN" ELSE "RESTORE"

\* The redirection left the descriptors f and succeeded or not.
Becomes(f, ok) ==
    /\ fds' = [fds EXCEPT ![Me] = f]
    /\ pc' = IF ok THEN "REDIRECT" ELSE AfterRedirects(FALSE)

OpenFile(f, r, source) ==
    \/ Becomes(f, FALSE)
    \/ \E target \in Fd :
        /\ IsLowest(f, target)
        /\ Becomes(Redirected([f EXCEPT ![target] = Target(r)], target, source), source \in Fd)

DupFile(f, r, source) ==
    \/ r.to = -1 /\ Becomes(Close(f, source), TRUE)
    \/ r.to = -2 /\ Becomes(f, FALSE)
    \/ r.to >= 0 /\ Becomes(Redirected(f, r.to, source), IsOpen(f, r.to) /\ source \in Fd)

handleRedirect(r) ==
    \/ r.op = "HEREDOC" /\ Becomes(fds[Me], TRUE)
    \/ r.op \in {"LESS", "GREAT", "LESSGREAT"} /\ OpenFile(fds[Me], r, getDefaultFD(r))
    \/ r.op \in {"LESSAND", "GREATAND"} /\ DupFile(fds[Me], r, getDefaultFD(r))

\* handlePrefix and handleSuffix: the redirections in the order of the text, up to a failure.
Redirect ==
    /\ pc = "REDIRECT"
    /\ \/ at <= Len(cmd.redirs) /\ handleRedirect(cmd.redirs[at]) /\ at' = at + 1
       \/ at > Len(cmd.redirs) /\ pc' = AfterRedirects(TRUE) /\ UNCHANGED <<fds, at>>
    /\ UNCHANGED <<prompted, session, now, child, saved, stdout, received, home, clean, due>>

\* The shell keeps what a redirection without a command did.
Leave ==
    /\ pc = "LEAVE"
    /\ home' = fds["shell"]
    /\ Done
    /\ UNCHANGED <<prompted, session, at, child, fds, saved, stdout, received, clean, due>>

-----------------------------------------------------------------------------
(* Running the command and coming back.                                      *)

\* The output of the command is due where its redirections send it.
Due == due' = Written(due, Meant(cmd.redirs, home, Len(cmd.redirs)), <<cmd.prints>>)

RunBuiltin ==
    /\ pc = "RUN"
    /\ Printf(Me, cmd.prints)
    /\ Due
    /\ pc' = "RESTORE"
    /\ UNCHANGED <<prompted, session, now, at, child, fds, saved, home, clean>>

Restored_KeepsCopies(f) == Dup2(Dup2(Dup2(f, saved[1], 0), saved[2], 1), saved[3], 2)

Restored_KeepsStdout(f) ==
    Close(Close(Close(Dup2(Dup2(f, saved[1], 0), saved[3], 2), saved[1]), saved[2]), saved[3])

Restored(f) ==
    LET g == Dup2(Dup2(Dup2(f, saved[1], 0), saved[2], 1), saved[3], 2)
    IN  Close(Close(Close(g, saved[1]), saved[2]), saved[3])

\* The end of executeBuiltinCommand, in the shell or in a child that exits.
Restore ==
    /\ pc = "RESTORE"
    /\ fds' = [fds EXCEPT ![Me] = Restored(@)]
    /\ saved' = <<>>
    /\ \/ child /\ pc' = "EXIT" /\ UNCHANGED now
       \/ ~child /\ Done
    /\ UNCHANGED <<prompted, session, at, child, stdout, received, home, clean, due>>

\* execve replaces the child with its buffer; the program writes without one.
Exec ==
    /\ pc = "EXEC"
    /\ received' = Written(received, fds["child"], <<cmd.prints>>)
    /\ Due
    /\ child' = FALSE
    /\ Done
    /\ UNCHANGED <<prompted, session, at, fds, saved, stdout, home, clean>>

\* The program cannot be found or run.
ExecFails ==
    /\ pc = "EXEC"
    /\ pc' = "EXIT"
    /\ UNCHANGED <<prompted, session, now, at, child, fds, saved, stdout, received, home, clean, due>>

\* exit of a child: the shell stops waiting.
Exit ==
    /\ pc = "EXIT"
    /\ Flush("child")
    /\ child' = FALSE
    /\ Done
    /\ UNCHANGED <<prompted, session, at, fds, saved, home, clean, due>>

\* The end of the session.
End ==
    /\ pc = "NEXT" /\ now > Len(session)
    /\ Flush("shell")
    /\ pc' = "DONE"
    /\ UNCHANGED <<prompted, session, now, at, child, fds, saved, home, clean, due>>

Nothing == [f \in File \cup {Terminal, Nowhere} |-> <<>>]

Init ==
    /\ prompted \in BOOLEAN
    /\ session \in Sessions /\ now = 1
    /\ pc = "NEXT" /\ at = 1 /\ child = FALSE
    /\ \E f \in Starts : fds = [p \in Process |-> f] /\ home = f
    /\ saved = <<>>
    /\ stdout = [p \in Process |-> [mode |-> IF prompted THEN "LINE" ELSE "NONE", buff |-> <<>>]]
    /\ received = Nothing /\ due = Nothing
    /\ clean = TRUE

Next ==
    \/ Start \/ ForkFails \/ Save \/ Redirect \/ Leave \/ RunBuiltin \/ Restore
    \/ Exec \/ ExecFails \/ Exit \/ End

Spec == Init /\ [][Next]_vars

-----------------------------------------------------------------------------
(* Properties.                                                               *)

\* Types; and three descriptors are saved while a builtin's redirections and the builtin run,
\* and none when they are over, whatever failed.
TypeOK ==
    /\ prompted \in BOOLEAN
    /\ session \in Seq(Command) /\ now \in 1..Len(session) + 1 /\ at \in Nat \ {0}
    /\ pc \in {"NEXT", "SAVE", "REDIRECT", "LEAVE", "RUN", "RESTORE", "EXEC", "EXIT", "DONE"}
    /\ fds \in [Process -> [Fd -> Description]] /\ home \in [Fd -> Description]
    /\ saved \in Seq(Fd \cup {-1})
    /\ stdout \in [Process -> [mode : {"NONE", "LINE", "FULL"}, buff : Seq(Item)]]
    /\ child \in BOOLEAN /\ clean \in BOOLEAN
    /\ IF pc \in {"NEXT", "DONE"} THEN saved = <<>> /\ ~child
       ELSE /\ now <= Len(session)
            /\ (child <=> cmd.kind \in {"SUBSHELL", "EXTERNAL"})
            /\ pc \in {"SAVE", "RUN", "RESTORE"} => cmd.kind \in {"BUILTIN", "SUBSHELL"}
            /\ pc = "LEAVE" => cmd.kind = "ONLY"
            /\ pc = "EXEC" => cmd.kind = "EXTERNAL"
            /\ pc = "EXIT" => child
            /\ CASE pc = "SAVE" -> Len(saved) <= 2
                 [] pc = "RUN" \/ pc = "RESTORE" -> Len(saved) = 3
                 [] pc = "REDIRECT" -> Len(saved) = IF cmd.kind \in {"ONLY", "EXTERNAL"} THEN 0 ELSE 3
                 [] OTHER -> saved = <<>>

\* After each command the shell has the descriptors it had before it, all of them and no more,
\* whatever the command redirected, and also when a redirection failed half way.
FdsRestored == clean /\ pc \in {"NEXT", "DONE"} => fds["shell"] = home

\* A builtin or a program runs with the standard descriptors that its redirections say, each
\* redirection seeing what those before it did.
RunsRedirected ==
    clean /\ pc \in {"RUN", "EXEC"} /\ AllOpen(home) /\ StaysOpen(cmd) =>
        \A n \in Std : fds[Me][n] = Meant(cmd.redirs, home, Len(cmd.redirs))[n]

AllStayOpen == \A n \in DOMAIN session : StaysOpen(session[n])

\* In a session at the terminal all output arrives where it should, once and in its order.
Delivered == prompted /\ clean /\ AllStayOpen /\ pc = "DONE" => received = due

\* README.md:12 lists the redirections, README.md:71-79 show echo to a file: what a command
\* printed is in the file.
RedirectedOutput == clean /\ AllStayOpen /\ pc = "DONE" => received = due
=============================================================================
