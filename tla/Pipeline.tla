------------------------------ MODULE Pipeline ------------------------------
(***************************************************************************)
(* executePipelineNode (src/execution/execute.c) below the level of module *)
(* Execute: one pipeline of N stages with the descriptor tables of its     *)
(* processes.  Each pipe, fork, dup2, close and waitpid call is a step, so *)
(* that the shell, the stages that are still being set up and the programs *)
(* that run already interleave.                                            *)
(*                                                                         *)
(* The kernel (pipes, descriptor allocation, SIGPIPE) and the programs in  *)
(* the stages are external: stage 1 produces, the others copy what they    *)
(* read, any of them may stop early when quits says so.                    *)
(***************************************************************************)
EXTENDS Integers, FiniteSets

CONSTANTS
    N,          \* num_children of the pipeline node
    OpenMax,    \* descriptors a process may have open
    OpenBefore, \* those the shell has open already: 0..2, a script, ends that leaked earlier
    Capacity,   \* what a pipe holds before a writer blocks
    Items,      \* what a finite producer writes
    CallsFail   \* TRUE when pipe() or fork() may fail at any time

ASSUME PipelineAssumption ==
    /\ N \in Nat /\ N >= 2
    /\ OpenMax \in Nat
    /\ 0..2 \subseteq OpenBefore /\ OpenBefore \subseteq 0..(OpenMax - 1)
    /\ Capacity \in Nat \ {0}
    /\ Items \in Nat
    /\ CallsFail \in BOOLEAN

Shell == 0
Stage == 1..N
Proc == 0..N
Pipe == 1..(N - 1)

Fd == 0..(OpenMax - 1)
STDIN_FILENO == 0
STDOUT_FILENO == 1

\* What a descriptor refers to: nothing, a file of the shell's, an end of a pipe.
Closed == [kind |-> "closed", no |-> 0]
Std(d) == [kind |-> "std", no |-> d]
ReadEnd(k) == [kind |-> "read", no |-> k]
WriteEnd(k) == [kind |-> "write", no |-> k]
File == {Closed} \cup {Std(d) : d \in OpenBefore} \cup {ReadEnd(k) : k \in Pipe} \cup {WriteEnd(k) : k \in Pipe}

Inherited == [d \in Fd |-> IF d \in OpenBefore THEN Std(d) ELSE Closed]

VARIABLES
    fds,      \* fds[p]: the descriptor table of p
    at,       \* at[p]: the next call p makes
    loc,      \* loc[p]: the locals of executePipelineNode in p, copied by fork
    buf,      \* buf[k]: items in pipe k
    held,     \* held[s]: stage s has read an item and not passed it on
    sent,     \* items a finite producer has written
    got,      \* items the last stage has read
    how,      \* how[s]: what ended stage s
    endless,  \* stage 1 never stops by itself (yes)
    quits     \* the stages that stop before the end of their input (head)

progs == <<held, sent, got, how>>
vars == <<fds, at, loc, buf, held, sent, got, how, endless, quits>>

\* i: the stage; prev: prev_stdin; r, w: file_descriptors[0] and [1].
Locals == [i : 1..(N + 1), prev : Fd \cup {-1}, r : Fd \cup {-1}, w : Fd \cup {-1}]

ShellAt == {"pipe", "fork", "closePrev", "closeWrite", "wait", "done", "failed", "exited"}
StageAt == {"unborn", "dupIn", "closePrev", "dupOut", "closeWrite", "closeRead", "run", "ended"}

Init ==
    /\ fds = [p \in Proc |-> IF p = Shell THEN Inherited ELSE [d \in Fd |-> Closed]]
    /\ at = [p \in Proc |-> IF p = Shell THEN "pipe" ELSE "unborn"]
    /\ loc = [p \in Proc |-> [i |-> 1, prev |-> -1, r |-> -1, w |-> -1]]
    /\ buf = [k \in Pipe |-> 0]
    /\ held = [s \in Stage |-> FALSE]
    /\ sent = 0
    /\ got = 0
    /\ how = [s \in Stage |-> "none"]
    /\ endless \in BOOLEAN
    /\ quits \in SUBSET Stage
    /\ endless => quits # {}        \* the user does not start what nothing ever ends

-----------------------------------------------------------------------------
(* Descriptor calls of process p; close(-1) and dup2(-1, _) fail and change nothing. *)

close(p, d) == fds' = [fds EXCEPT ![p] = [e \in Fd |-> IF e = d THEN Closed ELSE fds[p][e]]]
dup2(p, d, e) == fds' = [fds EXCEPT ![p][e] = IF d \in Fd THEN fds[p][d] ELSE @]
Goto(p, l) == at' = [at EXCEPT ![p] = l]

Free(p) == {d \in Fd : fds[p][d] = Closed}

-----------------------------------------------------------------------------
(* The shell.                                                                *)

\* pipe() takes the two lowest free descriptors.
MakePipe ==
    /\ at[Shell] = "pipe" /\ loc[Shell].i < N
    /\ \E r, w \in Free(Shell) :
          /\ r < w
          /\ \A d \in Free(Shell) : d < w => d = r
          /\ fds' = [fds EXCEPT ![Shell][r] = ReadEnd(loc[Shell].i),
                                ![Shell][w] = WriteEnd(loc[Shell].i)]
          /\ loc' = [loc EXCEPT ![Shell].r = r, ![Shell].w = w]
    /\ Goto(Shell, "fork")
    /\ UNCHANGED <<buf, endless, quits, progs>>

\* The error return leaves prev_stdin open and the stages so far running.
PipeFails ==
    /\ at[Shell] = "pipe" /\ loc[Shell].i < N
    /\ CallsFail \/ Cardinality(Free(Shell)) < 2
    /\ Goto(Shell, "failed")
    /\ UNCHANGED <<fds, loc, buf, endless, quits, progs>>

\* file_descriptors of the last stage stay {-1, -1}.
LastStage ==
    /\ at[Shell] = "pipe" /\ loc[Shell].i = N
    /\ loc' = [loc EXCEPT ![Shell].r = -1, ![Shell].w = -1]
    /\ Goto(Shell, "fork")
    /\ UNCHANGED <<fds, buf, endless, quits, progs>>

ForkStage ==
    /\ at[Shell] = "fork"
    /\ LET s == loc[Shell].i
       IN  /\ at' = [at EXCEPT ![Shell] = "closePrev", ![s] = "dupIn"]
           /\ fds' = [fds EXCEPT ![s] = fds[Shell]]
           /\ loc' = [loc EXCEPT ![s] = loc[Shell]]
    /\ UNCHANGED <<buf, endless, quits, progs>>

\* This one leaves the new pipe open as well.
ForkFails ==
    /\ CallsFail
    /\ at[Shell] = "fork"
    /\ Goto(Shell, "failed")
    /\ UNCHANGED <<fds, loc, buf, endless, quits, progs>>

ParentClosesPrev_Forgets ==
    /\ at[Shell] = "closePrev"
    /\ UNCHANGED fds
    /\ Goto(Shell, "closeWrite")
    /\ UNCHANGED <<loc, buf, endless, quits, progs>>

ParentClosesPrev ==
    /\ at[Shell] = "closePrev"
    /\ close(Shell, loc[Shell].prev)
    /\ Goto(Shell, "closeWrite")
    /\ UNCHANGED <<loc, buf, endless, quits, progs>>

ParentClosesWrite_Forgets ==
    /\ at[Shell] = "closeWrite"
    /\ LET l == loc[Shell]
       IN  /\ UNCHANGED fds
           /\ IF l.i < N
              THEN /\ loc' = [loc EXCEPT ![Shell] = [l EXCEPT !.prev = l.r, !.i = l.i + 1]]
                   /\ Goto(Shell, "pipe")
              ELSE /\ loc' = [loc EXCEPT ![Shell] = [l EXCEPT !.i = 1]]
                   /\ Goto(Shell, "wait")
    /\ UNCHANGED <<buf, endless, quits, progs>>

ParentClosesWrite_OffByOne ==
    /\ at[Shell] = "closeWrite"
    /\ LET l == loc[Shell]
       IN  IF l.i <= N
           THEN /\ close(Shell, l.w)
                /\ loc' = [loc EXCEPT ![Shell] = [l EXCEPT !.prev = l.r, !.i = l.i + 1]]
                /\ Goto(Shell, "pipe")
           ELSE /\ loc' = [loc EXCEPT ![Shell] = [l EXCEPT !.i = 1]]
                /\ Goto(Shell, "wait")
                /\ UNCHANGED fds
    /\ UNCHANGED <<buf, endless, quits, progs>>

\* The last stage has no pipe of its own; the waitpid loop starts again at the first.
ParentClosesWrite ==
    /\ at[Shell] = "closeWrite"
    /\ LET l == loc[Shell]
       IN  IF l.i < N
           THEN /\ close(Shell, l.w)
                /\ loc' = [loc EXCEPT ![Shell] = [l EXCEPT !.prev = l.r, !.i = l.i + 1]]
                /\ Goto(Shell, "pipe")
           ELSE /\ loc' = [loc EXCEPT ![Shell] = [l EXCEPT !.i = 1]]
                /\ Goto(Shell, "wait")
                /\ UNCHANGED fds
    /\ UNCHANGED <<buf, endless, quits, progs>>

waitpid ==
    /\ at[Shell] = "wait"
    /\ at[loc[Shell].i] = "ended"
    /\ loc' = [loc EXCEPT ![Shell].i = @ + 1]
    /\ Goto(Shell, IF loc[Shell].i < N THEN "wait" ELSE "done")
    /\ UNCHANGED <<fds, buf, endless, quits, progs>>

\* Some time after the pipeline the session ends.
ShellExits ==
    /\ at[Shell] \in {"done", "failed"}
    /\ fds' = [fds EXCEPT ![Shell] = [d \in Fd |-> Closed]]
    /\ Goto(Shell, "exited")
    /\ UNCHANGED <<loc, buf, endless, quits, progs>>

executePipelineNode ==
    \/ MakePipe \/ PipeFails \/ LastStage
    \/ ForkStage \/ ForkFails
    \/ ParentClosesPrev \/ ParentClosesWrite
    \/ waitpid

-----------------------------------------------------------------------------
(* A forked stage connects itself.                                           *)

\* Does nothing in the first stage.
ChildDupsStdin(s) ==
    /\ at[s] = "dupIn"
    /\ dup2(s, loc[s].prev, STDIN_FILENO)
    /\ Goto(s, "closePrev")
    /\ UNCHANGED <<loc, buf, endless, quits, progs>>

ChildClosesPrev(s) ==
    /\ at[s] = "closePrev"
    /\ close(s, loc[s].prev)
    /\ Goto(s, IF s < N THEN "dupOut" ELSE "run")
    /\ UNCHANGED <<loc, buf, endless, quits, progs>>

ChildDupsStdout_Prev(s) ==
    /\ at[s] = "dupOut"
    /\ dup2(s, loc[s].r, STDOUT_FILENO)
    /\ Goto(s, "closeWrite")
    /\ UNCHANGED <<loc, buf, endless, quits, progs>>

ChildDupsStdout(s) ==
    /\ at[s] = "dupOut"
    /\ dup2(s, loc[s].w, STDOUT_FILENO)
    /\ Goto(s, "closeWrite")
    /\ UNCHANGED <<loc, buf, endless, quits, progs>>

ChildClosesWrite(s) ==
    /\ at[s] = "closeWrite"
    /\ close(s, loc[s].w)
    /\ Goto(s, "closeRead")
    /\ UNCHANGED <<loc, buf, endless, quits, progs>>

ChildClosesRead_Forgets(s) ==
    /\ at[s] = "closeRead"
    /\ Goto(s, "run")
    /\ UNCHANGED <<fds, loc, buf, endless, quits, progs>>

ChildClosesRead(s) ==
    /\ at[s] = "closeRead"
    /\ close(s, loc[s].r)
    /\ Goto(s, "run")
    /\ UNCHANGED <<loc, buf, endless, quits, progs>>

ConnectStage(s) ==
    \/ ChildDupsStdin(s) \/ ChildClosesPrev(s)
    \/ ChildDupsStdout(s) \/ ChildClosesWrite(s) \/ ChildClosesRead(s)

-----------------------------------------------------------------------------
(* External: the programs, and what read and write do.                       *)

Holders(f) == {p \in Proc : \E d \in Fd : fds[p][d] = f}
Stdin(s) == fds[s][STDIN_FILENO]
Stdout(s) == fds[s][STDOUT_FILENO]

End(s, reason) ==
    /\ at' = [at EXCEPT ![s] = "ended"]
    /\ fds' = [fds EXCEPT ![s] = [d \in Fd |-> Closed]]
    /\ how' = [how EXCEPT ![s] = reason]
    /\ UNCHANGED <<loc, buf, held, sent, got, endless, quits>>

HasItem(s) == IF s = 1 THEN endless \/ sent < Items ELSE held[s]

\* Read from a pipe: an item, the end of the input, or (not enabled) wait for one.
Read(s) ==
    /\ at[s] = "run" /\ s > 1 /\ ~held[s]
    /\ LET k == Stdin(s).no
       IN  \/ /\ Stdin(s).kind = "read" /\ buf[k] > 0
              /\ buf' = [buf EXCEPT ![k] = @ - 1]
              /\ held' = [held EXCEPT ![s] = TRUE]
              /\ got' = IF s = N /\ ~endless THEN got + 1 ELSE got
              /\ UNCHANGED <<fds, at, loc, sent, how, endless, quits>>
           \/ /\ Stdin(s).kind = "read" /\ buf[k] = 0 /\ Holders(WriteEnd(k)) = {}
              /\ End(s, "eof")
           \/ Stdin(s).kind # "read" /\ End(s, "error")

\* Write to a pipe: room for the item, SIGPIPE without a reader, or wait.  A standard
\* output that is no pipe takes everything.
Write(s) ==
    /\ at[s] = "run" /\ HasItem(s)
    /\ LET k == Stdout(s).no
           passed == /\ held' = IF s = 1 THEN held ELSE [held EXCEPT ![s] = FALSE]
                     /\ sent' = IF s = 1 /\ ~endless THEN sent + 1 ELSE sent
                     /\ UNCHANGED <<fds, at, loc, got, how, endless, quits>>
       IN  \/ /\ Stdout(s).kind = "write" /\ Holders(ReadEnd(k)) # {} /\ buf[k] < Capacity
              /\ buf' = [buf EXCEPT ![k] = @ + 1]
              /\ passed
           \/ Stdout(s).kind = "write" /\ Holders(ReadEnd(k)) = {} /\ End(s, "sigpipe")
           \/ Stdout(s).kind = "std" /\ UNCHANGED buf /\ passed
           \/ Stdout(s).kind \in {"read", "closed"} /\ End(s, "error")

ProducerDone(s) == at[s] = "run" /\ s = 1 /\ ~HasItem(s) /\ End(s, "eof")

Quit(s) == at[s] = "run" /\ s \in quits /\ End(s, "quit")

Program(s) == Read(s) \/ Write(s) \/ ProducerDone(s)

-----------------------------------------------------------------------------

Next == \/ executePipelineNode
        \/ ShellExits
        \/ \E s \in Stage : ConnectStage(s) \/ Program(s) \/ Quit(s)

Spec == Init /\ [][Next]_vars

\* The kernel schedules every process; a program that stops early does so in the end.
\* The session may stay open for ever.
Fairness == /\ WF_vars(executePipelineNode)
            /\ \A s \in Stage : WF_vars(ConnectStage(s) \/ Program(s)) /\ WF_vars(Quit(s))

FairSpec == Spec /\ Fairness

-----------------------------------------------------------------------------
(* Properties.                                                               *)

TypeOK ==
    /\ fds \in [Proc -> [Fd -> File]]
    /\ at \in [Proc -> ShellAt \cup StageAt]
    /\ loc \in [Proc -> Locals]
    /\ at[Shell] \notin {"done", "failed", "exited"} => loc[Shell].i \in Stage
    /\ buf \in [Pipe -> 0..Capacity]
    /\ held \in [Stage -> BOOLEAN]
    /\ sent \in 0..Items
    /\ got \in Nat
    /\ how \in [Stage -> {"none", "eof", "sigpipe", "quit", "error"}]
    /\ endless \in BOOLEAN
    /\ quits \in SUBSET Stage

\* A stage starts its command with standard input and output on the right pipes and
\* without any other end of a pipe: neither its own read end (execute.c:567) nor the end
\* of an earlier pipe the shell had not closed yet when it forked.
Wired(s) ==
    [d \in Fd |-> IF d = STDIN_FILENO /\ s > 1 THEN ReadEnd(s - 1)
                  ELSE IF d = STDOUT_FILENO /\ s < N THEN WriteEnd(s)
                  ELSE Inherited[d]]

StageWired == \A s \in Stage : at[s] = "run" => fds[s] = Wired(s)

\* When the shell waits for the stages it holds no end of a pipe any more, so that end
\* of file and SIGPIPE depend on the stages alone; after the pipeline its descriptors
\* are those it had before.
ShellLetsGo == at[Shell] \in {"wait", "done"} => fds[Shell] = Inherited

\* A pipeline in which no program stops early loses nothing: when it is over all that
\* was written has reached the last stage.
NothingLost ==
    at[Shell] = "done" /\ quits = {} =>
        /\ \A s \in Stage : how[s] = "eof"
        /\ sent = Items /\ got = Items
        /\ \A k \in Pipe : buf[k] = 0

\* After a failed pipe() or fork() only the ends the two error returns leave open stay
\* open in the shell: prev_stdin, and both ends of the new pipe when it was fork.
LeakOnFailure ==
    at[Shell] = "failed" =>
        LET l == loc[Shell]
            new == IF l.r = l.prev THEN {} ELSE {l.r, l.w}
        IN  \A d \in Fd : fds[Shell][d] # Inherited[d] => d \in {l.prev} \cup new

\* The shell gets back to its session: no wait for stages that wait for each other, for
\* an input that never ends or for a reader that is gone.
PipelineReturns == <>(at[Shell] \in {"done", "failed"})

\* Stages a failure left behind end with the shell at the latest: until then one that
\* writes may wait for the read end the shell leaked.
EndWithShell ==
    at[Shell] = "exited" ~> \A s \in Stage : at[s] \in {"unborn", "ended"}

=============================================================================
