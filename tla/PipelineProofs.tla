--------------------------- MODULE PipelineProofs ---------------------------
(***************************************************************************)
(* Theorems about module Pipeline, for every number of stages and every    *)
(* set of descriptors the shell has open before.                           *)
(***************************************************************************)
EXTENDS Pipeline, FiniteSetTheorems, TLAPS

-----------------------------------------------------------------------------
(* The inductive invariant: what each descriptor table holds between calls.  *)

\* A stage's copies of prev_stdin and file_descriptors, and the shell's at its fork.
LocalsOf(l, s) ==
    /\ l.i = s
    /\ IF s = 1 THEN l.prev = -1 ELSE l.prev \in Fd \ OpenBefore
    /\ IF s < N THEN l.r \in Fd \ OpenBefore /\ l.w \in Fd \ OpenBefore /\ l.r # l.w
                     /\ l.r # l.prev /\ l.w # l.prev
                ELSE l.r = -1 /\ l.w = -1

\* The table after the calls in D: dup2 of standard input and output, close of prev_stdin
\* and of the two ends of the new pipe.
Table(l, s, D) ==
    [d \in Fd |-> IF "in" \in D /\ d = STDIN_FILENO /\ s > 1 THEN ReadEnd(s - 1)
                  ELSE IF "out" \in D /\ d = STDOUT_FILENO /\ s < N THEN WriteEnd(s)
                  ELSE IF "prev" \notin D /\ d = l.prev THEN ReadEnd(s - 1)
                  ELSE IF "r" \notin D /\ d = l.r THEN ReadEnd(s)
                  ELSE IF "w" \notin D /\ d = l.w THEN WriteEnd(s)
                  ELSE Inherited[d]]

\* What a stage at call a has, with locals l and descriptors f.
StageFits(s, a, l, f) ==
    /\ a \in StageAt
    /\ a \in {"dupIn", "closePrev", "dupOut", "closeWrite", "closeRead"} => LocalsOf(l, s)
    /\ a \in {"dupOut", "closeWrite", "closeRead"} => s < N
    /\ a = "dupIn" => f = Table(l, s, {})
    /\ a = "closePrev" => f = Table(l, s, {"in"})
    /\ a = "dupOut" => f = Table(l, s, {"in", "prev"})
    /\ a = "closeWrite" => f = Table(l, s, {"in", "out", "prev"})
    /\ a = "closeRead" => f = Table(l, s, {"in", "out", "prev", "w"})
    /\ a = "run" => f = Wired(s)

\* The same for the shell.  After a failure only ends of the two pipes it knew are open.
ShellFits(a, l, f) ==
    /\ a \in ShellAt
    /\ a \in {"pipe", "fork", "closePrev", "closeWrite", "wait"} => l.i \in Stage
    /\ a = "pipe" =>
          /\ IF l.i = 1 THEN l.prev = -1 /\ l.r = -1
                        ELSE l.prev \in Fd \ OpenBefore /\ l.r = l.prev
          /\ f = Table(l, l.i, {"r", "w"})
    /\ a \in {"fork", "closePrev", "closeWrite"} => LocalsOf(l, l.i)
    /\ a \in {"fork", "closePrev"} => f = Table(l, l.i, {})
    /\ a = "closeWrite" => f = Table(l, l.i, {"prev"})
    /\ a \in {"wait", "done"} => f = Inherited
    /\ a = "failed" =>
          \A d \in Fd : f[d] # Inherited[d] =>
              d = l.prev \/ (l.r # l.prev /\ d \in {l.r, l.w})

Fits(p) == IF p = Shell THEN ShellFits(at[p], loc[p], fds[p])
                        ELSE StageFits(p, at[p], loc[p], fds[p])

IInv == TypeOK /\ \A p \in Proc : Fits(p)

-----------------------------------------------------------------------------
(* Types.                                                                    *)

LEMMA Constants ==
    /\ N \in Nat /\ N >= 2
    /\ Shell \in Proc /\ Shell \notin Stage /\ Stage \subseteq Proc
    /\ \A s \in Stage : s \in Nat /\ s \in Proc /\ s # Shell
    /\ Proc = Stage \cup {Shell}
    /\ STDIN_FILENO \in Fd /\ STDOUT_FILENO \in Fd /\ STDIN_FILENO # STDOUT_FILENO
    /\ STDIN_FILENO \in OpenBefore /\ STDOUT_FILENO \in OpenBefore
    /\ -1 \notin Fd
    /\ Fd \subseteq Nat
    /\ Capacity \in Nat \ {0} /\ Items \in Nat /\ CallsFail \in BOOLEAN
  BY PipelineAssumption
     DEF PipelineAssumption, Shell, Stage, Proc, Fd, STDIN_FILENO, STDOUT_FILENO

LEMMA Ends ==
    /\ Closed \in File
    /\ \A d \in Fd : Inherited[d] \in File
    /\ \A k \in Pipe : ReadEnd(k) \in File /\ WriteEnd(k) \in File
    /\ \A j, k \in Nat : ReadEnd(j) # Closed /\ WriteEnd(j) # Closed /\ ReadEnd(j) # WriteEnd(k)
    /\ \A d : Std(d) # Closed
  BY PipelineAssumption DEF PipelineAssumption, File, Closed, Inherited, ReadEnd, WriteEnd, Std, Fd

\* A step that only changes process p: its descriptors, its next call and its locals.
Moves(p) ==
    /\ \A q \in Proc \ {p} : fds'[q] = fds[q] /\ at'[q] = at[q] /\ loc'[q] = loc[q]

LEMMA StepInv ==
    ASSUME IInv, NEW p \in Proc, Moves(p), TypeOK', Fits(p)'
    PROVE  IInv'
  <1>1. ASSUME NEW q \in Proc, q # p PROVE Fits(q)'
    <2>1. fds'[q] = fds[q] /\ at'[q] = at[q] /\ loc'[q] = loc[q]
      BY <1>1 DEF Moves
    <2>2. Fits(q)
      BY DEF IInv
    <2> QED BY <2>1, <2>2 DEF Fits
  <1> QED BY <1>1 DEF IInv

-----------------------------------------------------------------------------
(* The descriptor calls.                                                     *)

LEMMA CloseType ==
    ASSUME TypeOK, NEW p \in Proc, NEW d, close(p, d)
    PROVE  /\ fds' \in [Proc -> [Fd -> File]]
           /\ fds'[p] \in [Fd -> File]
           /\ \A e \in Fd : fds'[p][e] = IF e = d THEN Closed ELSE fds[p][e]
           /\ \A q \in Proc \ {p} : fds'[q] = fds[q]
  BY Ends DEF TypeOK, close

LEMMA DupType ==
    ASSUME TypeOK, NEW p \in Proc, NEW d, NEW e \in Fd, dup2(p, d, e)
    PROVE  /\ fds' \in [Proc -> [Fd -> File]]
           /\ fds'[p] = [fds[p] EXCEPT ![e] = IF d \in Fd THEN fds[p][d] ELSE fds[p][e]]
           /\ \A q \in Proc \ {p} : fds'[q] = fds[q]
  BY DEF TypeOK, dup2

LEMMA GotoType ==
    ASSUME TypeOK, NEW p \in Proc, NEW l \in ShellAt \cup StageAt, Goto(p, l)
    PROVE  /\ at' \in [Proc -> ShellAt \cup StageAt]
           /\ at'[p] = l
           /\ \A q \in Proc \ {p} : at'[q] = at[q]
  BY DEF TypeOK, Goto

-----------------------------------------------------------------------------
(* What the calls of a stage make of its table, one lemma for each call.     *)

LEMMA TableDupStdin ==
    ASSUME NEW s \in Stage, NEW l, LocalsOf(l, s),
           NEW f, f = Table(l, s, {})
    PROVE  [f EXCEPT ![STDIN_FILENO] = IF l.prev \in Fd THEN f[l.prev] ELSE f[STDIN_FILENO]]
             = Table(l, s, {"in"})
  <1> DEFINE g == [f EXCEPT ![STDIN_FILENO] = IF l.prev \in Fd THEN f[l.prev] ELSE f[STDIN_FILENO]]
             h == Table(l, s, {"in"})
  <1>1. /\ DOMAIN f = Fd /\ f = [d \in Fd |-> f[d]]
        /\ g = [d \in Fd |-> g[d]] /\ h = [d \in Fd |-> h[d]]
    BY DEF Table
  <1>2. \A d \in Fd \ {STDIN_FILENO} : g[d] = f[d] /\ f[d] = h[d]
    BY <1>1 DEF Table
  <1>3. g[STDIN_FILENO] = h[STDIN_FILENO]
    <2>1. CASE s = 1
      BY <1>1, <2>1, Constants DEF Table, LocalsOf
    <2>2. CASE s # 1
      BY <1>1, <2>2, Constants DEF Table, LocalsOf, Stage
    <2> QED BY <2>1, <2>2
  <1> HIDE DEF g, h
  <1>4. \A d \in Fd : g[d] = h[d]
    BY <1>2, <1>3
  <1>5. [d \in Fd |-> g[d]] = [d \in Fd |-> h[d]]
    BY <1>4
  <1>6. g = h
    BY <1>1, <1>5
  <1> QED BY <1>6 DEF g, h

LEMMA TableDupStdout ==
    ASSUME NEW s \in Stage, NEW l, LocalsOf(l, s), s < N,
           NEW f, f = Table(l, s, {"in", "prev"})
    PROVE  [f EXCEPT ![STDOUT_FILENO] = IF l.w \in Fd THEN f[l.w] ELSE f[STDOUT_FILENO]]
             = Table(l, s, {"in", "out", "prev"})
  <1> DEFINE g == [f EXCEPT ![STDOUT_FILENO] = IF l.w \in Fd THEN f[l.w] ELSE f[STDOUT_FILENO]]
             h == Table(l, s, {"in", "out", "prev"})
  <1>1. /\ DOMAIN f = Fd /\ f = [d \in Fd |-> f[d]]
        /\ g = [d \in Fd |-> g[d]] /\ h = [d \in Fd |-> h[d]]
    BY DEF Table
  <1>2. \A d \in Fd \ {STDOUT_FILENO} : g[d] = f[d] /\ f[d] = h[d]
    BY <1>1 DEF Table
  <1>3. g[STDOUT_FILENO] = h[STDOUT_FILENO]
    BY <1>1, Constants DEF Table, LocalsOf
  <1> HIDE DEF g, h
  <1>4. \A d \in Fd : g[d] = h[d]
    BY <1>2, <1>3
  <1>5. [d \in Fd |-> g[d]] = [d \in Fd |-> h[d]]
    BY <1>4
  <1>6. g = h
    BY <1>1, <1>5
  <1> QED BY <1>6 DEF g, h

\* The ends the locals name are neither inherited nor the same.
LEMMA LocalsApart ==
    ASSUME NEW s \in Stage, NEW l, LocalsOf(l, s)
    PROVE  /\ s = 1 => l.prev \notin Fd
           /\ s # 1 => l.prev \in Fd \ OpenBefore
           /\ s < N => l.r \in Fd \ OpenBefore /\ l.w \in Fd \ OpenBefore /\ l.r # l.w
                       /\ l.r # l.prev /\ l.w # l.prev
           /\ ~(s < N) => l.r \notin Fd /\ l.w \notin Fd
  BY Constants DEF LocalsOf

LEMMA UnusedClosed ==
    \A d \in Fd \ OpenBefore : Inherited[d] = Closed /\ d # STDIN_FILENO /\ d # STDOUT_FILENO
  BY Constants DEF Inherited

LEMMA TableClosePrev ==
    ASSUME NEW s \in Stage, NEW l, LocalsOf(l, s), NEW D,
           NEW f, f = Table(l, s, D),
           NEW g \in [Fd -> File], \A e \in Fd : g[e] = IF e = l.prev THEN Closed ELSE f[e]
    PROVE  g = Table(l, s, D \cup {"prev"})
  <1> DEFINE t == Table(l, s, D \cup {"prev"})
  <1>1. t = [e \in Fd |-> t[e]]
    BY DEF Table
  <1>2. \A e \in Fd : g[e] = t[e]
    BY LocalsApart, UnusedClosed DEF Table
  <1> HIDE DEF t
  <1>3. g = t
    BY <1>1, <1>2
  <1> QED BY <1>3 DEF t

LEMMA TableCloseWrite ==
    ASSUME NEW s \in Stage, NEW l, LocalsOf(l, s), NEW D,
           NEW f, f = Table(l, s, D),
           NEW g \in [Fd -> File], \A e \in Fd : g[e] = IF e = l.w THEN Closed ELSE f[e]
    PROVE  g = Table(l, s, D \cup {"w"})
  <1> DEFINE t == Table(l, s, D \cup {"w"})
  <1>1. t = [e \in Fd |-> t[e]]
    BY DEF Table
  <1>2. \A e \in Fd : g[e] = t[e]
    BY LocalsApart, UnusedClosed DEF Table
  <1> HIDE DEF t
  <1>3. g = t
    BY <1>1, <1>2
  <1> QED BY <1>3 DEF t

LEMMA TableCloseRead ==
    ASSUME NEW s \in Stage, NEW l, LocalsOf(l, s), NEW D,
           NEW f, f = Table(l, s, D),
           NEW g \in [Fd -> File], \A e \in Fd : g[e] = IF e = l.r THEN Closed ELSE f[e]
    PROVE  g = Table(l, s, D \cup {"r"})
  <1> DEFINE t == Table(l, s, D \cup {"r"})
  <1>1. t = [e \in Fd |-> t[e]]
    BY DEF Table
  <1>2. \A e \in Fd : g[e] = t[e]
    BY LocalsApart, UnusedClosed DEF Table
  <1> HIDE DEF t
  <1>3. g = t
    BY <1>1, <1>2
  <1> QED BY <1>3 DEF t

\* Standard input and output in their place and the rest closed.
LEMMA TableWired ==
    ASSUME NEW s \in Stage, NEW l
    PROVE  /\ Table(l, s, {"in", "out", "prev", "r", "w"}) = Wired(s)
           /\ s = N /\ LocalsOf(l, s) => Table(l, s, {"in", "prev"}) = Wired(s)
           /\ Table(l, s, {"prev", "r", "w"}) = Inherited
  BY Constants DEF Table, Wired, Inherited, LocalsOf

-----------------------------------------------------------------------------
(* The stages.                                                               *)

LEMMA DupsStdinInv ==
    ASSUME IInv, NEW s \in Stage, ChildDupsStdin(s)
    PROVE  IInv'
  <1> DEFINE l == loc[s]
  <1>1. s \in Proc /\ s # Shell /\ TypeOK /\ StageFits(s, at[s], loc[s], fds[s]) /\ STDIN_FILENO \in Fd
    BY Constants DEF IInv, Fits
  <1>2. at[s] = "dupIn" /\ dup2(s, l.prev, STDIN_FILENO) /\ Goto(s, "closePrev") /\ loc' = loc
    BY DEF ChildDupsStdin
  <1>3. /\ fds' \in [Proc -> [Fd -> File]] /\ \A q \in Proc \ {s} : fds'[q] = fds[q]
        /\ fds'[s] = [fds[s] EXCEPT ![STDIN_FILENO] = IF l.prev \in Fd THEN fds[s][l.prev]
                                                     ELSE fds[s][STDIN_FILENO]]
    BY <1>1, <1>2, DupType
  <1>4. /\ at' \in [Proc -> ShellAt \cup StageAt] /\ at'[s] = "closePrev"
        /\ \A q \in Proc \ {s} : at'[q] = at[q]
    BY <1>1, <1>2, GotoType DEF StageAt
  <1>5. LocalsOf(l, s) /\ fds[s] = Table(l, s, {})
    BY <1>1, <1>2 DEF StageFits
  <1>6. fds'[s] = Table(l, s, {"in"})
    BY <1>3, <1>5, TableDupStdin
  <1>7. Fits(s)'
    BY <1>1, <1>2, <1>4, <1>5, <1>6 DEF Fits, StageFits, StageAt
  <1>8. TypeOK'
    BY <1>1, <1>2, <1>3, <1>4, Constants DEF TypeOK, ChildDupsStdin, progs
  <1>9. Moves(s)
    BY <1>2, <1>3, <1>4 DEF Moves
  <1> QED BY <1>1, <1>7, <1>8, <1>9, StepInv

LEMMA ClosesPrevInv ==
    ASSUME IInv, NEW s \in Stage, ChildClosesPrev(s)
    PROVE  IInv'
  <1> DEFINE l == loc[s]
  <1>1. s \in Proc /\ s # Shell /\ TypeOK /\ StageFits(s, at[s], loc[s], fds[s])
    BY Constants DEF IInv, Fits
  <1>2. at[s] = "closePrev" /\ close(s, l.prev) /\ Goto(s, IF s < N THEN "dupOut" ELSE "run") /\ loc' = loc
    BY DEF ChildClosesPrev
  <1>3. /\ fds' \in [Proc -> [Fd -> File]] /\ \A q \in Proc \ {s} : fds'[q] = fds[q]
        /\ fds'[s] \in [Fd -> File]
        /\ \A e \in Fd : fds'[s][e] = IF e = l.prev THEN Closed ELSE fds[s][e]
    BY <1>1, <1>2, CloseType
  <1>4. /\ at' \in [Proc -> ShellAt \cup StageAt] /\ at'[s] = IF s < N THEN "dupOut" ELSE "run"
        /\ \A q \in Proc \ {s} : at'[q] = at[q]
    BY <1>1, <1>2, GotoType DEF StageAt
  <1>5. LocalsOf(l, s) /\ fds[s] = Table(l, s, {"in"})
    BY <1>1, <1>2 DEF StageFits
  <1>6. fds'[s] = Table(l, s, {"in", "prev"})
    BY <1>3, <1>5, TableClosePrev
  <1>7. Fits(s)'
    <2>1. CASE s < N
      BY <1>1, <1>2, <1>4, <1>5, <1>6, <2>1 DEF Fits, StageFits, StageAt
    <2>2. CASE ~(s < N)
      <3>1. s = N
        BY <2>2, Constants DEF Stage
      <3>2. fds'[s] = Wired(s)
        BY <1>5, <1>6, <3>1, TableWired
      <3> QED BY <1>1, <1>4, <2>2, <3>2 DEF Fits, StageFits, StageAt
    <2> QED BY <2>1, <2>2
  <1>8. TypeOK'
    BY <1>1, <1>2, <1>3, <1>4, Constants DEF TypeOK, ChildClosesPrev, progs
  <1>9. Moves(s)
    BY <1>2, <1>3, <1>4 DEF Moves
  <1> QED BY <1>1, <1>7, <1>8, <1>9, StepInv

LEMMA DupsStdoutInv ==
    ASSUME IInv, NEW s \in Stage, ChildDupsStdout(s)
    PROVE  IInv'
  <1> DEFINE l == loc[s]
  <1>1. /\ s \in Proc /\ s # Shell /\ TypeOK /\ StageFits(s, at[s], loc[s], fds[s])
        /\ STDOUT_FILENO \in Fd
    BY Constants DEF IInv, Fits
  <1>2. at[s] = "dupOut" /\ dup2(s, l.w, STDOUT_FILENO) /\ Goto(s, "closeWrite") /\ loc' = loc
    BY DEF ChildDupsStdout
  <1>3. /\ fds' \in [Proc -> [Fd -> File]] /\ \A q \in Proc \ {s} : fds'[q] = fds[q]
        /\ fds'[s] = [fds[s] EXCEPT ![STDOUT_FILENO] = IF l.w \in Fd THEN fds[s][l.w]
                                                      ELSE fds[s][STDOUT_FILENO]]
    BY <1>1, <1>2, DupType
  <1>4. /\ at' \in [Proc -> ShellAt \cup StageAt] /\ at'[s] = "closeWrite"
        /\ \A q \in Proc \ {s} : at'[q] = at[q]
    BY <1>1, <1>2, GotoType DEF StageAt
  <1>5. LocalsOf(l, s) /\ s < N /\ fds[s] = Table(l, s, {"in", "prev"})
    BY <1>1, <1>2 DEF StageFits
  <1>6. fds'[s] = Table(l, s, {"in", "out", "prev"})
    BY <1>3, <1>5, TableDupStdout
  <1>7. Fits(s)'
    BY <1>1, <1>2, <1>4, <1>5, <1>6 DEF Fits, StageFits, StageAt
  <1>8. TypeOK'
    BY <1>1, <1>2, <1>3, <1>4, Constants DEF TypeOK, ChildDupsStdout, progs
  <1>9. Moves(s)
    BY <1>2, <1>3, <1>4 DEF Moves
  <1> QED BY <1>1, <1>7, <1>8, <1>9, StepInv

LEMMA ClosesWriteInv ==
    ASSUME IInv, NEW s \in Stage, ChildClosesWrite(s)
    PROVE  IInv'
  <1> DEFINE l == loc[s]
  <1>1. s \in Proc /\ s # Shell /\ TypeOK /\ StageFits(s, at[s], loc[s], fds[s])
    BY Constants DEF IInv, Fits
  <1>2. at[s] = "closeWrite" /\ close(s, l.w) /\ Goto(s, "closeRead") /\ loc' = loc
    BY DEF ChildClosesWrite
  <1>3. /\ fds' \in [Proc -> [Fd -> File]] /\ \A q \in Proc \ {s} : fds'[q] = fds[q]
        /\ fds'[s] \in [Fd -> File]
        /\ \A e \in Fd : fds'[s][e] = IF e = l.w THEN Closed ELSE fds[s][e]
    BY <1>1, <1>2, CloseType
  <1>4. /\ at' \in [Proc -> ShellAt \cup StageAt] /\ at'[s] = "closeRead"
        /\ \A q \in Proc \ {s} : at'[q] = at[q]
    BY <1>1, <1>2, GotoType DEF StageAt
  <1>5. LocalsOf(l, s) /\ fds[s] = Table(l, s, {"in", "out", "prev"})
    BY <1>1, <1>2 DEF StageFits
  <1>6. fds'[s] = Table(l, s, {"in", "out", "prev", "w"})
    BY <1>3, <1>5, TableCloseWrite
  <1>7. Fits(s)'
    BY <1>1, <1>2, <1>4, <1>5, <1>6 DEF Fits, StageFits, StageAt
  <1>8. TypeOK'
    BY <1>1, <1>2, <1>3, <1>4, Constants DEF TypeOK, ChildClosesWrite, progs
  <1>9. Moves(s)
    BY <1>2, <1>3, <1>4 DEF Moves
  <1> QED BY <1>1, <1>7, <1>8, <1>9, StepInv

LEMMA ClosesReadInv ==
    ASSUME IInv, NEW s \in Stage, ChildClosesRead(s)
    PROVE  IInv'
  <1> DEFINE l == loc[s]
  <1>1. s \in Proc /\ s # Shell /\ TypeOK /\ StageFits(s, at[s], loc[s], fds[s])
    BY Constants DEF IInv, Fits
  <1>2. at[s] = "closeRead" /\ close(s, l.r) /\ Goto(s, "run") /\ loc' = loc
    BY DEF ChildClosesRead
  <1>3. /\ fds' \in [Proc -> [Fd -> File]] /\ \A q \in Proc \ {s} : fds'[q] = fds[q]
        /\ fds'[s] \in [Fd -> File]
        /\ \A e \in Fd : fds'[s][e] = IF e = l.r THEN Closed ELSE fds[s][e]
    BY <1>1, <1>2, CloseType
  <1>4. /\ at' \in [Proc -> ShellAt \cup StageAt] /\ at'[s] = "run"
        /\ \A q \in Proc \ {s} : at'[q] = at[q]
    BY <1>1, <1>2, GotoType DEF StageAt
  <1>5. LocalsOf(l, s) /\ fds[s] = Table(l, s, {"in", "out", "prev", "w"})
    BY <1>1, <1>2 DEF StageFits
  <1>6. fds'[s] = Table(l, s, {"in", "out", "prev", "r", "w"})
    BY <1>3, <1>5, TableCloseRead
  <1>7. Fits(s)'
    BY <1>1, <1>4, <1>6, TableWired DEF Fits, StageFits, StageAt
  <1>8. TypeOK'
    BY <1>1, <1>2, <1>3, <1>4, Constants DEF TypeOK, ChildClosesRead, progs
  <1>9. Moves(s)
    BY <1>2, <1>3, <1>4 DEF Moves
  <1> QED BY <1>1, <1>7, <1>8, <1>9, StepInv

\* A program that ends closes everything it has.
LEMMA EndInv ==
    ASSUME IInv, NEW s \in Stage, NEW reason \in {"eof", "sigpipe", "quit", "error"}, End(s, reason)
    PROVE  IInv'
  <1>1. s \in Proc /\ s # Shell /\ TypeOK /\ Closed \in File
    BY Constants, Ends DEF IInv
  <1>2. /\ at' \in [Proc -> ShellAt \cup StageAt] /\ at'[s] = "ended"
        /\ \A q \in Proc \ {s} : at'[q] = at[q]
    BY <1>1 DEF End, TypeOK, StageAt
  <1>3. fds' \in [Proc -> [Fd -> File]] /\ \A q \in Proc \ {s} : fds'[q] = fds[q]
    BY <1>1 DEF End, TypeOK
  <1>4. TypeOK'
    BY <1>1, <1>2, <1>3, Constants DEF TypeOK, End
  <1>5. Fits(s)'
    BY <1>1, <1>2 DEF Fits, StageFits, StageAt
  <1>6. Moves(s)
    BY <1>2, <1>3 DEF Moves, End
  <1> QED BY <1>1, <1>4, <1>5, <1>6, StepInv

\* Reading and writing leave the descriptors alone.
LEMMA DataInv ==
    ASSUME IInv, TypeOK', UNCHANGED <<fds, at, loc>>
    PROVE  IInv'
  BY DEF IInv, Fits

LEMMA ReadInv ==
    ASSUME IInv, NEW s \in Stage, Read(s)
    PROVE  IInv'
  <1> DEFINE k == Stdin(s).no
  <1>1. CASE End(s, "eof") \/ End(s, "error")
    BY <1>1, EndInv
  <1>2. CASE /\ buf[k] > 0
             /\ buf' = [buf EXCEPT ![k] = @ - 1]
             /\ held' = [held EXCEPT ![s] = TRUE]
             /\ got' = IF s = N /\ ~endless THEN got + 1 ELSE got
             /\ UNCHANGED <<fds, at, loc, sent, how, endless, quits>>
    <2>1. buf' \in [Pipe -> 0..Capacity]
      <3>1. buf \in [Pipe -> 0..Capacity]
        BY DEF IInv, TypeOK
      <3>2. k \in Pipe => buf[k] - 1 \in 0..Capacity
        BY <1>2, <3>1, Constants
      <3> QED BY <1>2, <3>1, <3>2
    <2>2. TypeOK'
      BY <1>2, <2>1 DEF IInv, TypeOK
    <2> QED BY <1>2, <2>2, DataInv
  <1> QED BY <1>1, <1>2 DEF Read

LEMMA WriteInv ==
    ASSUME IInv, NEW s \in Stage, Write(s)
    PROVE  IInv'
  <1> DEFINE k == Stdout(s).no
             passed == /\ held' = IF s = 1 THEN held ELSE [held EXCEPT ![s] = FALSE]
                       /\ sent' = IF s = 1 /\ ~endless THEN sent + 1 ELSE sent
                       /\ UNCHANGED <<fds, at, loc, got, how, endless, quits>>
  <1>1. CASE End(s, "sigpipe") \/ End(s, "error")
    BY <1>1, EndInv
  <1>2. CASE /\ \/ buf[k] < Capacity /\ buf' = [buf EXCEPT ![k] = @ + 1]
                \/ UNCHANGED buf
             /\ passed
    <2>1. buf \in [Pipe -> 0..Capacity]
      BY DEF IInv, TypeOK
    <2>2. buf' \in [Pipe -> 0..Capacity]
      BY <1>2, <2>1, Constants
    <2>3. sent' \in 0..Items
      <3>1. sent \in 0..Items
        BY DEF IInv, TypeOK
      <3>2. s = 1 /\ ~endless => sent < Items
        BY DEF Write, HasItem
      <3> QED BY <1>2, <3>1, <3>2, Constants
    <2>4. TypeOK'
      BY <1>2, <2>2, <2>3 DEF IInv, TypeOK
    <2> QED BY <1>2, <2>4, DataInv
  <1> QED BY <1>1, <1>2 DEF Write

-----------------------------------------------------------------------------
(* The shell.                                                                *)

LEMMA ShellBasics ==
    ASSUME IInv
    PROVE  /\ TypeOK /\ Shell \in Proc /\ ShellFits(at[Shell], loc[Shell], fds[Shell])
           /\ loc[Shell] \in Locals
           /\ fds[Shell] \in [Fd -> File]
  BY Constants DEF IInv, Fits, TypeOK

\* The descriptors pipe() returns were free, so they are new and not inherited.
LEMMA TableMakePipe ==
    ASSUME NEW s \in Stage, s < N, NEW l,
           s = 1 => l.prev = -1, s # 1 => l.prev \in Fd \ OpenBefore,
           NEW f, f = Table(l, s, {"r", "w"}),
           NEW r \in Fd, NEW w \in Fd, f[r] = Closed, f[w] = Closed, r < w,
           NEW k, k.i = s, k.prev = l.prev, k.r = r, k.w = w,
           NEW g \in [Fd -> File],
           \A e \in Fd : g[e] = IF e = w THEN WriteEnd(s) ELSE IF e = r THEN ReadEnd(s) ELSE f[e]
    PROVE  LocalsOf(k, s) /\ g = Table(k, s, {})
  <1>1. /\ \A d \in OpenBefore : Inherited[d] = Std(d) /\ d \in Fd
        /\ s \in Nat /\ s - 1 \in Int
    BY PipelineAssumption DEF Inherited, PipelineAssumption, Fd, Stage
  <1>2. s # 1 => s - 1 \in Nat
    BY <1>1 DEF Stage
  <1>3. ASSUME NEW d \in Fd, f[d] = Closed PROVE d \notin OpenBefore /\ d # l.prev
    <2>1. s # 1 /\ d = l.prev => f[d] = ReadEnd(s - 1)
      BY Constants DEF Table
    <2>2. s = 1 => l.prev \notin Fd
      BY Constants
    <2>3. d \in OpenBefore => f[d] = Std(d)
      <3>1. d \in OpenBefore => d # l.prev
        BY Constants, <1>1
      <3> QED BY <1>1, <3>1 DEF Table
    <2>4. \A j \in Nat : ReadEnd(j) # Closed
      BY Ends
    <2>5. \A e : Std(e) # Closed
      BY Ends
    <2> QED BY <1>2, <1>3, <2>1, <2>2, <2>3, <2>4, <2>5
  <1>4. r \in Fd \ OpenBefore /\ w \in Fd \ OpenBefore /\ r # w /\ r # l.prev /\ w # l.prev
    <2>1. r # w
      BY Constants
    <2> QED BY <1>3, <2>1
  <1>5. LocalsOf(k, s)
    BY <1>4 DEF LocalsOf
  <1> DEFINE t == Table(k, s, {})
  <1>6. t = [e \in Fd |-> t[e]]
    BY DEF Table
  <1>7. \A e \in Fd : g[e] = t[e]
    BY <1>4 DEF Table
  <1> HIDE DEF t
  <1>8. g = t
    BY <1>6, <1>7
  <1> QED BY <1>5, <1>8 DEF t

LEMMA MakePipeInv ==
    ASSUME IInv, MakePipe
    PROVE  IInv'
  <1> DEFINE l == loc[Shell]
             f == fds[Shell]
  <1>1. at[Shell] = "pipe" /\ l.i < N /\ Goto(Shell, "fork")
    BY DEF MakePipe
  <1>2. TypeOK /\ Shell \in Proc /\ ShellFits("pipe", l, f) /\ l \in Locals /\ f \in [Fd -> File]
    BY <1>1, ShellBasics
  <1>3. PICK s \in Stage :
          /\ s = l.i /\ s < N /\ f = Table(l, s, {"r", "w"})
          /\ IF s = 1 THEN l.prev = -1 ELSE l.prev \in Fd \ OpenBefore
    BY <1>1, <1>2 DEF ShellFits
  <1>4. PICK r \in Free(Shell), w \in Free(Shell) :
          /\ r < w
          /\ fds' = [fds EXCEPT ![Shell][r] = ReadEnd(s), ![Shell][w] = WriteEnd(s)]
          /\ loc' = [loc EXCEPT ![Shell].r = r, ![Shell].w = w]
    BY <1>3 DEF MakePipe
  <1>5. r \in Fd /\ w \in Fd /\ f[r] = Closed /\ f[w] = Closed
    BY <1>4 DEF Free
  <1>6. ReadEnd(s) \in File /\ WriteEnd(s) \in File
    BY <1>3, Constants, Ends DEF Pipe, Stage
  <1>7. /\ fds' \in [Proc -> [Fd -> File]] /\ fds'[Shell] \in [Fd -> File]
        /\ \A e \in Fd : fds'[Shell][e] = IF e = w THEN WriteEnd(s) ELSE IF e = r THEN ReadEnd(s) ELSE f[e]
        /\ \A q \in Proc \ {Shell} : fds'[q] = fds[q]
    BY <1>4, <1>2, <1>5, <1>6 DEF TypeOK
  <1>8. /\ loc'[Shell] = [l EXCEPT !.r = r, !.w = w]
        /\ \A q \in Proc \ {Shell} : loc'[q] = loc[q]
        /\ DOMAIN loc' = Proc /\ loc' = [q \in Proc |-> loc'[q]]
    BY <1>4, <1>2 DEF TypeOK
  <1>9. /\ at' \in [Proc -> ShellAt \cup StageAt] /\ at'[Shell] = "fork"
        /\ \A q \in Proc \ {Shell} : at'[q] = at[q]
    BY <1>1, <1>2, GotoType DEF ShellAt
  <1> DEFINE k == loc'[Shell]
             g == fds'[Shell]
  <1>10. LocalsOf(k, s) /\ k \in Locals /\ g = Table(k, s, {}) /\ k.i = s
    <2>1. /\ l \in Locals /\ l.i = s /\ s < N /\ f = Table(l, s, {"r", "w"})
          /\ s = 1 => l.prev = -1
          /\ s # 1 => l.prev \in Fd \ OpenBefore
          /\ r \in Fd /\ w \in Fd /\ f[r] = Closed /\ f[w] = Closed /\ r < w
          /\ k.i = s /\ k.prev = l.prev /\ k.r = r /\ k.w = w /\ k \in Locals
          /\ g \in [Fd -> File]
          /\ \A e \in Fd : g[e] = IF e = w THEN WriteEnd(s) ELSE IF e = r THEN ReadEnd(s) ELSE f[e]
      BY <1>4, <1>2, <1>3, <1>5, <1>7, <1>8 DEF Locals
    <2> HIDE DEF l, f, k, g
    <2>2. LocalsOf(k, s) /\ g = Table(k, s, {})
      BY <2>1, TableMakePipe
    <2> QED BY <2>1, <2>2
  <1>11. loc' \in [Proc -> Locals]
    BY <1>2, <1>8, <1>10 DEF TypeOK
  <1>12. TypeOK'
    BY <1>2, <1>3, <1>7, <1>9, <1>10, <1>11 DEF TypeOK, MakePipe, progs
  <1>13. Fits(Shell)'
    BY <1>3, <1>9, <1>10 DEF Fits, ShellFits, ShellAt
  <1>14. Moves(Shell)
    BY <1>7, <1>8, <1>9 DEF Moves
  <1> QED BY <1>2, <1>12, <1>13, <1>14, StepInv

LEMMA LastStageInv ==
    ASSUME IInv, LastStage
    PROVE  IInv'
  <1> DEFINE l == loc[Shell]
             k == [l EXCEPT !.r = -1, !.w = -1]
  <1>1. at[Shell] = "pipe" /\ l.i = N /\ Goto(Shell, "fork") /\ fds' = fds
        /\ loc' = [loc EXCEPT ![Shell].r = -1, ![Shell].w = -1]
    BY DEF LastStage
  <1>2. /\ TypeOK /\ Shell \in Proc /\ ShellFits("pipe", l, fds[Shell]) /\ l \in Locals
        /\ loc \in [Proc -> Locals]
    BY <1>1, ShellBasics DEF TypeOK
  <1>3. /\ k \in Locals /\ k.i = N /\ k.prev = l.prev /\ k.r = -1 /\ k.w = -1
        /\ loc'[Shell] = k /\ loc' \in [Proc -> Locals]
        /\ \A q \in Proc \ {Shell} : loc'[q] = loc[q]
    BY <1>1, <1>2 DEF Locals
  <1>4. /\ at' \in [Proc -> ShellAt \cup StageAt] /\ at'[Shell] = "fork"
        /\ \A q \in Proc \ {Shell} : at'[q] = at[q]
    BY <1>1, <1>2, GotoType DEF ShellAt
  <1> HIDE DEF k
  <1>5. LocalsOf(k, N) /\ N \in Stage
    BY <1>1, <1>2, <1>3, Constants DEF LocalsOf, ShellFits
  <1>6. fds[Shell] = Table(k, N, {})
    BY <1>1, <1>2, <1>3, Constants DEF ShellFits, Table
  <1>7. TypeOK'
    BY <1>1, <1>2, <1>3, <1>4, <1>5 DEF TypeOK, LastStage, progs
  <1>8. Fits(Shell)'
    BY <1>1, <1>3, <1>4, <1>5, <1>6 DEF Fits, ShellFits, ShellAt
  <1>9. Moves(Shell)
    BY <1>1, <1>3, <1>4 DEF Moves
  <1> QED BY <1>2, <1>7, <1>8, <1>9, StepInv

LEMMA ForkStageInv ==
    ASSUME IInv, ForkStage
    PROVE  IInv'
  <1> DEFINE l == loc[Shell]
  <1>1. /\ TypeOK /\ Shell \in Proc /\ ShellFits("fork", l, fds[Shell])
        /\ l \in Locals /\ fds[Shell] \in [Fd -> File]
    BY ShellBasics DEF ForkStage
  <1>2. PICK s \in Stage : s = l.i /\ LocalsOf(l, s) /\ fds[Shell] = Table(l, s, {})
    BY <1>1 DEF ShellFits
  <1>3. s \in Proc /\ s # Shell
    BY <1>2, Constants
  <1>4. /\ at' = [at EXCEPT ![Shell] = "closePrev", ![s] = "dupIn"]
        /\ fds' = [fds EXCEPT ![s] = fds[Shell]]
        /\ loc' = [loc EXCEPT ![s] = loc[Shell]]
    BY <1>2 DEF ForkStage
  <1>5. /\ at' \in [Proc -> ShellAt \cup StageAt] /\ at'[Shell] = "closePrev" /\ at'[s] = "dupIn"
        /\ \A q \in Proc \ {Shell, s} : at'[q] = at[q]
    BY <1>1, <1>3, <1>4 DEF TypeOK, ShellAt, StageAt
  <1>6. /\ fds' \in [Proc -> [Fd -> File]] /\ fds'[s] = fds[Shell] /\ fds'[Shell] = fds[Shell]
        /\ \A q \in Proc \ {s} : fds'[q] = fds[q]
    BY <1>1, <1>3, <1>4 DEF TypeOK
  <1>7. /\ loc' \in [Proc -> Locals] /\ loc'[s] = l /\ loc'[Shell] = l
        /\ \A q \in Proc \ {s} : loc'[q] = loc[q]
    BY <1>1, <1>3, <1>4 DEF TypeOK
  <1>8. TypeOK'
    BY <1>1, <1>2, <1>5, <1>6, <1>7 DEF TypeOK, ForkStage, progs
  <1>9. Fits(Shell)'
    BY <1>2, <1>5, <1>6, <1>7 DEF Fits, ShellFits, ShellAt
  <1>10. Fits(s)'
    BY <1>2, <1>3, <1>5, <1>6, <1>7 DEF Fits, StageFits, StageAt
  <1>11. ASSUME NEW q \in Proc, q # Shell, q # s PROVE Fits(q)'
    <2>1. fds'[q] = fds[q] /\ at'[q] = at[q] /\ loc'[q] = loc[q]
      BY <1>5, <1>6, <1>7, <1>11
    <2>2. Fits(q)
      BY DEF IInv
    <2> QED BY <2>1, <2>2 DEF Fits
  <1> QED BY <1>8, <1>9, <1>10, <1>11 DEF IInv

LEMMA ParentClosesPrevInv ==
    ASSUME IInv, ParentClosesPrev
    PROVE  IInv'
  <1> DEFINE l == loc[Shell]
             s == l.i
  <1>1. at[Shell] = "closePrev" /\ close(Shell, l.prev) /\ Goto(Shell, "closeWrite") /\ loc' = loc
    BY DEF ParentClosesPrev
  <1>2. TypeOK /\ Shell \in Proc /\ ShellFits("closePrev", l, fds[Shell])
    BY <1>1, ShellBasics
  <1>3. s \in Stage /\ LocalsOf(l, s) /\ fds[Shell] = Table(l, s, {})
    BY <1>2 DEF ShellFits
  <1>4. /\ fds' \in [Proc -> [Fd -> File]] /\ fds'[Shell] \in [Fd -> File]
        /\ \A e \in Fd : fds'[Shell][e] = IF e = l.prev THEN Closed ELSE fds[Shell][e]
        /\ \A q \in Proc \ {Shell} : fds'[q] = fds[q]
    BY <1>1, <1>2, CloseType
  <1>5. /\ at' \in [Proc -> ShellAt \cup StageAt] /\ at'[Shell] = "closeWrite"
        /\ \A q \in Proc \ {Shell} : at'[q] = at[q]
    BY <1>1, <1>2, GotoType DEF ShellAt
  <1>6. fds'[Shell] = Table(l, s, {"prev"})
    <2>1. fds'[Shell] = Table(l, s, {} \cup {"prev"})
      BY <1>3, <1>4, TableClosePrev
    <2> QED BY <2>1
  <1>7. TypeOK'
    BY <1>1, <1>2, <1>3, <1>4, <1>5 DEF TypeOK, ParentClosesPrev, progs
  <1>8. Fits(Shell)'
    BY <1>1, <1>3, <1>5, <1>6 DEF Fits, ShellFits, ShellAt
  <1>9. Moves(Shell)
    BY <1>1, <1>4, <1>5 DEF Moves
  <1> QED BY <1>2, <1>7, <1>8, <1>9, StepInv

LEMMA ParentClosesWriteInv ==
    ASSUME IInv, ParentClosesWrite
    PROVE  IInv'
  <1> DEFINE l == loc[Shell]
  <1>1. at[Shell] = "closeWrite"
    BY DEF ParentClosesWrite
  <1>2. /\ TypeOK /\ Shell \in Proc /\ ShellFits("closeWrite", l, fds[Shell]) /\ l \in Locals
        /\ loc \in [Proc -> Locals]
    BY <1>1, ShellBasics DEF TypeOK
  <1>3. PICK s \in Stage : s = l.i /\ LocalsOf(l, s) /\ fds[Shell] = Table(l, s, {"prev"})
    BY <1>2 DEF ShellFits
  <1>4. CASE s < N
    <2> DEFINE k == [l EXCEPT !.prev = l.r, !.i = s + 1]
    <2>1. /\ close(Shell, l.w) /\ Goto(Shell, "pipe")
          /\ loc' = [loc EXCEPT ![Shell] = k]
      BY <1>3, <1>4 DEF ParentClosesWrite
    <2>2. /\ fds' \in [Proc -> [Fd -> File]] /\ fds'[Shell] \in [Fd -> File]
          /\ \A e \in Fd : fds'[Shell][e] = IF e = l.w THEN Closed ELSE fds[Shell][e]
          /\ \A q \in Proc \ {Shell} : fds'[q] = fds[q]
      BY <1>2, <2>1, CloseType
    <2>3. /\ at' \in [Proc -> ShellAt \cup StageAt] /\ at'[Shell] = "pipe"
          /\ \A q \in Proc \ {Shell} : at'[q] = at[q]
      BY <1>2, <2>1, GotoType DEF ShellAt
    <2>4. fds'[Shell] = Table(l, s, {"prev", "w"})
      <3>1. fds'[Shell] = Table(l, s, {"prev"} \cup {"w"})
        BY <1>3, <2>2, TableCloseWrite
      <3>2. {"prev"} \cup {"w"} = {"prev", "w"}
        OBVIOUS
      <3> QED BY <3>1, <3>2
    <2>5. s + 1 \in Stage /\ s + 1 # 1 /\ s \in Nat /\ s + 1 \in 1..(N + 1)
      BY <1>4, Constants DEF Stage
    <2>6. /\ k \in Locals /\ k.i = s + 1 /\ k.prev = l.r /\ k.r = l.r
      BY <1>2, <2>5 DEF Locals
    <2>7. l.r \in Fd \ OpenBefore /\ l.w \in Fd \ OpenBefore
      BY <1>3, <1>4 DEF LocalsOf
    <2>8. /\ loc'[Shell] = k /\ loc' \in [Proc -> Locals]
          /\ \A q \in Proc \ {Shell} : loc'[q] = loc[q]
      BY <1>2, <2>1, <2>6
    <2> HIDE DEF k
    <2>9. Table(l, s, {"prev", "w"}) = Table(k, s + 1, {"r", "w"})
      <3>1. (s + 1) - 1 = s
        BY <2>5
      <3> QED BY <2>6, <3>1 DEF Table
    <2>10. Fits(Shell)'
      BY <2>3, <2>4, <2>5, <2>6, <2>7, <2>8, <2>9 DEF Fits, ShellFits, ShellAt
    <2>11. TypeOK'
      BY <1>2, <2>2, <2>3, <2>5, <2>6, <2>8 DEF TypeOK, ParentClosesWrite, progs
    <2>12. Moves(Shell)
      BY <2>2, <2>3, <2>8 DEF Moves
    <2> QED BY <1>2, <2>10, <2>11, <2>12, StepInv
  <1>5. CASE ~(s < N)
    <2> DEFINE k == [l EXCEPT !.i = 1]
    <2>1. fds' = fds /\ Goto(Shell, "wait") /\ loc' = [loc EXCEPT ![Shell] = k]
      BY <1>3, <1>5 DEF ParentClosesWrite
    <2>2. /\ at' \in [Proc -> ShellAt \cup StageAt] /\ at'[Shell] = "wait"
          /\ \A q \in Proc \ {Shell} : at'[q] = at[q]
      BY <1>2, <2>1, GotoType DEF ShellAt
    <2>3. k \in Locals /\ k.i = 1 /\ 1 \in Stage
      BY <1>2, Constants DEF Locals, Stage
    <2>4. /\ loc'[Shell] = k /\ loc' \in [Proc -> Locals]
          /\ \A q \in Proc \ {Shell} : loc'[q] = loc[q]
      BY <1>2, <2>1, <2>3
    <2>5. fds[Shell] = Inherited
      <3>1. s = N /\ l.r \notin Fd /\ l.w \notin Fd
        BY <1>3, <1>5, Constants, LocalsApart DEF Stage
      <3> QED BY <1>3, <3>1, Constants DEF Table, Inherited
    <2> HIDE DEF k
    <2>6. Fits(Shell)'
      BY <2>1, <2>2, <2>3, <2>4, <2>5 DEF Fits, ShellFits, ShellAt
    <2>7. TypeOK'
      BY <1>2, <2>1, <2>2, <2>3, <2>4 DEF TypeOK, ParentClosesWrite, progs
    <2>8. Moves(Shell)
      BY <2>1, <2>2, <2>4 DEF Moves
    <2> QED BY <1>2, <2>6, <2>7, <2>8, StepInv
  <1> QED BY <1>4, <1>5

\* The two error returns: nothing is closed.
LEMMA FailsInv ==
    ASSUME IInv, PipeFails \/ ForkFails
    PROVE  IInv'
  <1> DEFINE l == loc[Shell]
  <1>1. /\ at[Shell] \in {"pipe", "fork"} /\ Goto(Shell, "failed")
        /\ UNCHANGED <<fds, loc, buf, endless, quits, progs>>
    BY DEF PipeFails, ForkFails
  <1>2. TypeOK /\ Shell \in Proc /\ ShellFits(at[Shell], l, fds[Shell])
    BY ShellBasics
  <1>3. /\ at' \in [Proc -> ShellAt \cup StageAt] /\ at'[Shell] = "failed"
        /\ \A q \in Proc \ {Shell} : at'[q] = at[q]
    BY <1>1, <1>2, GotoType DEF ShellAt
  <1>4. ASSUME NEW d \in Fd, fds[Shell][d] # Inherited[d]
        PROVE  d = l.prev \/ (l.r # l.prev /\ d \in {l.r, l.w})
    <2>1. CASE at[Shell] = "pipe"
      BY <1>2, <1>4, <2>1 DEF ShellFits, Table
    <2>2. CASE at[Shell] = "fork"
      <3>1. PICK s \in Stage : LocalsOf(l, s) /\ fds[Shell] = Table(l, s, {})
        BY <1>2, <2>2 DEF ShellFits
      <3>2. d \in {l.prev, l.r, l.w}
        BY <1>4, <3>1 DEF Table
      <3>3. s < N => l.r # l.prev
        BY <3>1, LocalsApart
      <3>4. ~(s < N) => l.r \notin Fd /\ l.w \notin Fd
        BY <3>1, LocalsApart
      <3> QED BY <3>2, <3>3, <3>4
    <2> QED BY <1>1, <2>1, <2>2
  <1>5. Fits(Shell)'
    BY <1>1, <1>3, <1>4 DEF Fits, ShellFits, ShellAt
  <1>6. TypeOK'
    BY <1>1, <1>2, <1>3 DEF TypeOK, progs
  <1>7. Moves(Shell)
    BY <1>1, <1>3 DEF Moves
  <1> QED BY <1>2, <1>5, <1>6, <1>7, StepInv

LEMMA WaitpidInv ==
    ASSUME IInv, waitpid
    PROVE  IInv'
  <1> DEFINE l == loc[Shell]
             k == [l EXCEPT !.i = l.i + 1]
             dst == IF l.i < N THEN "wait" ELSE "done"
  <1>1. at[Shell] = "wait" /\ loc' = [loc EXCEPT ![Shell].i = @ + 1] /\ Goto(Shell, dst) /\ fds' = fds
    BY DEF waitpid
  <1>2. /\ TypeOK /\ Shell \in Proc /\ ShellFits("wait", l, fds[Shell]) /\ l \in Locals
        /\ loc \in [Proc -> Locals]
    BY <1>1, ShellBasics DEF TypeOK
  <1>3. l.i \in Stage /\ fds[Shell] = Inherited
    BY <1>2 DEF ShellFits
  <1>4. l.i + 1 \in 1..(N + 1) /\ (l.i < N => l.i + 1 \in Stage)
    BY <1>3, Constants DEF Stage
  <1>5. k \in Locals /\ k.i = l.i + 1
    BY <1>2, <1>4 DEF Locals
  <1>6. /\ loc'[Shell] = k /\ loc' \in [Proc -> Locals]
        /\ \A q \in Proc \ {Shell} : loc'[q] = loc[q]
    BY <1>1, <1>2, <1>5
  <1>7. /\ at' \in [Proc -> ShellAt \cup StageAt] /\ at'[Shell] = dst
        /\ \A q \in Proc \ {Shell} : at'[q] = at[q]
    BY <1>1, <1>2, GotoType DEF ShellAt
  <1> HIDE DEF k
  <1>8. Fits(Shell)'
    BY <1>1, <1>3, <1>4, <1>5, <1>6, <1>7 DEF Fits, ShellFits, ShellAt
  <1>9. TypeOK'
    BY <1>1, <1>2, <1>4, <1>5, <1>6, <1>7 DEF TypeOK, waitpid, progs
  <1>10. Moves(Shell)
    BY <1>1, <1>6, <1>7 DEF Moves
  <1> QED BY <1>2, <1>8, <1>9, <1>10, StepInv

LEMMA ShellExitsInv ==
    ASSUME IInv, ShellExits
    PROVE  IInv'
  <1>1. TypeOK /\ Shell \in Proc /\ Closed \in File
    BY ShellBasics, Ends
  <1>2. /\ fds' \in [Proc -> [Fd -> File]]
        /\ \A q \in Proc \ {Shell} : fds'[q] = fds[q]
    BY <1>1 DEF ShellExits, TypeOK
  <1>3. /\ at' \in [Proc -> ShellAt \cup StageAt] /\ at'[Shell] = "exited"
        /\ \A q \in Proc \ {Shell} : at'[q] = at[q]
    BY <1>1, GotoType DEF ShellExits, ShellAt
  <1>4. TypeOK'
    BY <1>1, <1>2, <1>3 DEF TypeOK, ShellExits, progs
  <1>5. Fits(Shell)'
    BY <1>3 DEF Fits, ShellFits, ShellAt
  <1>6. Moves(Shell)
    BY <1>2, <1>3 DEF Moves, ShellExits
  <1> QED BY <1>1, <1>4, <1>5, <1>6, StepInv

-----------------------------------------------------------------------------
(* The whole system.                                                         *)

LEMMA InitInv == Init => IInv
  <1> SUFFICES ASSUME Init PROVE IInv
    OBVIOUS
  <1>1. TypeOK
    <2>1. Inherited \in [Fd -> File] /\ [d \in Fd |-> Closed] \in [Fd -> File]
      BY Ends DEF Inherited
    <2>2. [i |-> 1, prev |-> -1, r |-> -1, w |-> -1] \in Locals /\ 1 \in Stage
      BY Constants DEF Locals, Stage
    <2> QED BY <2>1, <2>2, Constants DEF Init, TypeOK, ShellAt, StageAt
  <1>2. ASSUME NEW p \in Proc PROVE Fits(p)
    <2>1. CASE p = Shell
      <3> DEFINE l == [i |-> 1, prev |-> -1, r |-> -1, w |-> -1]
      <3>1. at[p] = "pipe" /\ loc[p] = l /\ fds[p] = Inherited
        BY <1>2, <2>1 DEF Init
      <3>2. Inherited = Table(l, 1, {"r", "w"})
        BY Constants DEF Table, Inherited
      <3>3. 1 \in Stage
        BY Constants DEF Stage
      <3> QED BY <2>1, <3>1, <3>2, <3>3 DEF Fits, ShellFits, ShellAt
    <2>2. CASE p # Shell
      BY <1>2, <2>2 DEF Init, Fits, StageFits, StageAt
    <2> QED BY <2>1, <2>2
  <1> QED BY <1>1, <1>2 DEF IInv

LEMMA NextInv == IInv /\ [Next]_vars => IInv'
  <1> SUFFICES ASSUME IInv, [Next]_vars PROVE IInv'
    OBVIOUS
  <1>1. CASE executePipelineNode
    BY <1>1, MakePipeInv, FailsInv, LastStageInv, ForkStageInv, ParentClosesPrevInv,
       ParentClosesWriteInv, WaitpidInv DEF executePipelineNode
  <1>2. CASE ShellExits
    BY <1>2, ShellExitsInv
  <1>3. ASSUME NEW s \in Stage, ConnectStage(s) PROVE IInv'
    BY <1>3, DupsStdinInv, ClosesPrevInv, DupsStdoutInv, ClosesWriteInv, ClosesReadInv DEF ConnectStage
  <1>4. ASSUME NEW s \in Stage, Program(s) \/ Quit(s) PROVE IInv'
    BY <1>4, ReadInv, WriteInv, EndInv DEF Program, ProducerDone, Quit
  <1>5. CASE UNCHANGED vars
    BY <1>5 DEF vars, progs, IInv, TypeOK, Fits
  <1> QED BY <1>1, <1>2, <1>3, <1>4, <1>5 DEF Next

\* Every variable keeps its type; the shell's stage index stays inside the array of
\* stages and the buffers inside the capacity of a pipe.
THEOREM TypeCorrect == Spec => []TypeOK
  <1>1. IInv => TypeOK
    BY DEF IInv
  <1> QED BY <1>1, InitInv, NextInv, PTL DEF Spec

\* However many stages there are and whatever descriptors were open before, a stage runs
\* its command with exactly the two ends that belong to it.
THEOREM StagesWired == Spec => []StageWired
  <1>1. IInv => StageWired
    BY Constants DEF IInv, StageWired, Fits, StageFits
  <1> QED BY <1>1, InitInv, NextInv, PTL DEF Spec

\* The shell never waits, or comes back, with an end of a pipe still open.
THEOREM ShellHoldsNoEnd == Spec => []ShellLetsGo
  <1>1. IInv => ShellLetsGo
    BY Constants DEF IInv, ShellLetsGo, Fits, ShellFits
  <1> QED BY <1>1, InitInv, NextInv, PTL DEF Spec

\* What a failed pipe() or fork() leaks is bounded by the three descriptors in the locals.
THEOREM LeakBounded == Spec => []LeakOnFailure
  <1>1. IInv => LeakOnFailure
    BY Constants DEF IInv, LeakOnFailure, Fits, ShellFits
  <1> QED BY <1>1, InitInv, NextInv, PTL DEF Spec

-----------------------------------------------------------------------------
(* Where the items are.                                                      *)

\* Cell <<k, j>> is place j of pipe k, and for j = 0 the item a stage in the middle has in hand.
Cells == Stage \X (0..Capacity)
Full(k, j) == IF j = 0 THEN 1 < k /\ k < N /\ held[k] ELSE k < N /\ j <= buf[k]
Parked == {c \in Cells : Full(c[1], c[2])}

\* What was written was read by the last stage or is in between.
Flow == ~endless => sent = got + Cardinality(Parked)

LEMMA CellIs == \A k \in Stage, j \in 0..Capacity : <<k, j>> \in Parked <=> Full(k, j)
  BY DEF Parked, Cells

LEMMA ParkedIs ==
    /\ IsFiniteSet(Parked) /\ Cardinality(Parked) \in Nat
    /\ \A c \in Cells : c = <<c[1], c[2]>> /\ c[1] \in Stage /\ c[2] \in 0..Capacity
  <1>1. IsFiniteSet(Stage) /\ IsFiniteSet(0..Capacity)
    <2>1. 1 \in Int /\ N \in Int /\ 0 \in Int /\ Capacity \in Int
      BY Constants
    <2>2. IsFiniteSet(1..N) /\ IsFiniteSet(0..Capacity)
      BY <2>1, FS_Interval
    <2> QED BY <2>2 DEF Stage
  <1>2. IsFiniteSet(Cells)
    BY <1>1, FS_Product DEF Cells
  <1>3. IsFiniteSet(Parked)
    BY <1>2, FS_Subset DEF Parked
  <1>4. Cardinality(Parked) \in Nat
    BY <1>3, FS_CardinalityType
  <1> QED BY <1>3, <1>4 DEF Cells

LEMMA PutItem ==
    ASSUME NEW S, IsFiniteSet(S), NEW b, b \notin S
    PROVE  IsFiniteSet(S \cup {b}) /\ Cardinality(S \cup {b}) = Cardinality(S) + 1
  BY FS_AddElement

LEMMA TakeItem ==
    ASSUME NEW S, IsFiniteSet(S), NEW a \in S
    PROVE  /\ IsFiniteSet(S \ {a}) /\ Cardinality(S \ {a}) = Cardinality(S) - 1
           /\ Cardinality(S) \in Nat \ {0}
  BY FS_RemoveElement, FS_CardinalityType, FS_EmptySet

LEMMA MoveItem ==
    ASSUME NEW S, IsFiniteSet(S), NEW a \in S, NEW b, b \notin S
    PROVE  Cardinality((S \ {a}) \cup {b}) = Cardinality(S)
  <1>1. IsFiniteSet(S \ {a}) /\ Cardinality(S \ {a}) = Cardinality(S) - 1 /\ Cardinality(S) \in Nat
    BY TakeItem
  <1>2. Cardinality((S \ {a}) \cup {b}) = Cardinality(S \ {a}) + 1
    BY <1>1, PutItem
  <1> QED BY <1>1, <1>2

\* A program has the ends StageWired says.
LEMMA RunsWired ==
    ASSUME IInv, NEW s \in Stage, at[s] = "run"
    PROVE  /\ s > 1 => Stdin(s).kind = "read" /\ Stdin(s).no = s - 1 /\ s - 1 \in Pipe /\ s - 1 \in Stage /\ s - 1 < N
           /\ s < N => Stdout(s).kind = "write" /\ Stdout(s).no = s /\ s \in Pipe
           /\ s = N => Stdout(s).kind = "std"
  <1>1. fds[s] = Wired(s) /\ s \in Nat /\ s >= 1 /\ s <= N /\ N \in Nat
    BY Constants DEF IInv, Fits, StageFits, Stage
  <1>2. s > 1 => Stdin(s) = ReadEnd(s - 1)
    BY <1>1, Constants DEF Stdin, Wired
  <1>3. s < N => Stdout(s) = WriteEnd(s)
    BY <1>1, Constants DEF Stdout, Wired
  <1>4. s = N => Stdout(s) = Std(STDOUT_FILENO)
    BY <1>1, Constants DEF Stdout, Wired, Inherited
  <1> QED BY <1>1, <1>2, <1>3, <1>4 DEF ReadEnd, WriteEnd, Std, Pipe, Stage

LEMMA ReadFlow ==
    ASSUME IInv, Flow, NEW s \in Stage, at[s] = "run", s > 1, ~held[s],
           buf[s - 1] > 0, buf' = [buf EXCEPT ![s - 1] = @ - 1], held' = [held EXCEPT ![s] = TRUE],
           got' = IF s = N /\ ~endless THEN got + 1 ELSE got, UNCHANGED <<sent, endless>>
    PROVE  Flow'
  <1> SUFFICES ASSUME ~endless PROVE sent = got' + Cardinality(Parked')
    BY DEF Flow
  <1> DEFINE a == <<s - 1, buf[s - 1]>>  b == <<s, 0>>
  <1>1. /\ s - 1 \in Pipe /\ s - 1 \in Stage /\ s - 1 < N /\ buf[s - 1] \in 0..Capacity /\ Capacity \in Nat /\ got \in Nat
        /\ buf \in [Pipe -> 0..Capacity] /\ held \in [Stage -> BOOLEAN] /\ sent = got + Cardinality(Parked)
        /\ 0 \in 0..Capacity /\ Pipe \subseteq Stage /\ s \in Nat /\ s <= N /\ N \in Nat
    <2>1. s - 1 \in Pipe /\ s - 1 \in Stage /\ s - 1 < N
      BY RunsWired
    <2>2. /\ Capacity \in Nat /\ got \in Nat /\ buf \in [Pipe -> 0..Capacity] /\ held \in [Stage -> BOOLEAN]
      BY Constants DEF IInv, TypeOK
    <2>3. sent = got + Cardinality(Parked)
      BY DEF Flow
    <2>4. 0 \in 0..Capacity /\ Pipe \subseteq Stage /\ s \in Nat /\ s <= N /\ N \in Nat
      BY <2>2, Constants DEF Stage, Pipe
    <2> QED BY <2>1, <2>2, <2>3, <2>4
  <1>2. a \in Parked /\ b \notin Parked
    BY <1>1, CellIs DEF Full
  <1>3. ASSUME NEW c \in Cells
        PROVE  Full(c[1], c[2])' <=> IF c = a THEN FALSE ELSE IF c = b THEN s < N ELSE Full(c[1], c[2])
    <2>1. PICK k \in Stage, j \in 0..Capacity : c = <<k, j>>
      BY ParkedIs, <1>3
    <2>2. c[1] = k /\ c[2] = j /\ (c = a <=> k = s - 1 /\ j = buf[s - 1]) /\ (c = b <=> k = s /\ j = 0)
      BY <2>1
    <2>3. Full(k, j)' <=> IF k = s - 1 /\ j = buf[s - 1] THEN FALSE ELSE IF k = s /\ j = 0 THEN s < N ELSE Full(k, j)
      <3>1. k \in Nat /\ j \in Nat /\ (k < N => k \in Pipe) /\ k >= 1
        BY Constants DEF Stage, Pipe
      <3>2. CASE j = 0
        BY <1>1, <3>1, <3>2 DEF Full
      <3>3. CASE j # 0 /\ k = s - 1
        BY <1>1, <3>1, <3>3 DEF Full
      <3>4. CASE j # 0 /\ k # s - 1
        BY <1>1, <3>1, <3>4 DEF Full
      <3> QED BY <3>2, <3>3, <3>4
    <2> QED BY <2>2, <2>3
  <1>4. CASE s < N
    <2>1. Parked' = (Parked \ {a}) \cup {b}
      <3>1. b \in Cells /\ Parked \subseteq Cells /\ b # a
        BY <1>1 DEF Cells, Parked
      <3>2. \A c \in Cells : Full(c[1], c[2])' <=> c \in (Parked \ {a}) \cup {b}
        BY <1>3, <1>4, <3>1 DEF Parked
      <3>3. Parked' = {c \in Cells : Full(c[1], c[2])'}
        BY DEF Parked, Cells
      <3> QED BY <3>1, <3>2, <3>3
    <2>2. Cardinality(Parked') = Cardinality(Parked)
      BY <1>2, <2>1, ParkedIs, MoveItem
    <2> QED BY <1>1, <1>4, <2>2
  <1>5. CASE s = N
    <2>1. Parked' = Parked \ {a}
      <3>1. Parked \subseteq Cells
        BY DEF Parked
      <3>2. \A c \in Cells : Full(c[1], c[2])' <=> c \in Parked \ {a}
        BY <1>2, <1>1, <1>3, <1>5, <3>1 DEF Parked
      <3>3. Parked' = {c \in Cells : Full(c[1], c[2])'}
        BY DEF Parked, Cells
      <3> QED BY <3>1, <3>2, <3>3
    <2>2. Cardinality(Parked') = Cardinality(Parked) - 1 /\ Cardinality(Parked) \in Nat
      BY <1>2, <2>1, ParkedIs, TakeItem
    <2> QED BY <1>1, <1>5, <2>2
  <1> QED BY <1>1, <1>4, <1>5

LEMMA WriteFlow ==
    ASSUME IInv, Flow, NEW s \in Stage, at[s] = "run", HasItem(s),
           IF s < N THEN buf[s] < Capacity /\ buf' = [buf EXCEPT ![s] = @ + 1] ELSE UNCHANGED buf,
           held' = IF s = 1 THEN held ELSE [held EXCEPT ![s] = FALSE],
           sent' = IF s = 1 /\ ~endless THEN sent + 1 ELSE sent, UNCHANGED <<got, endless>>
    PROVE  Flow'
  <1> SUFFICES ASSUME ~endless PROVE sent' = got + Cardinality(Parked')
    BY DEF Flow
  <1> DEFINE a == <<s, 0>>  b == <<s, buf[s] + 1>>
  <1>1. /\ Capacity \in Nat /\ got \in Nat /\ (s < N => s \in Pipe /\ buf[s] \in 0..Capacity)
        /\ buf \in [Pipe -> 0..Capacity] /\ held \in [Stage -> BOOLEAN] /\ sent = got + Cardinality(Parked)
        /\ 0 \in 0..Capacity /\ Pipe \subseteq Stage /\ s \in Nat /\ s <= N /\ N \in Nat /\ N > 1 /\ s >= 1
    <2>1. s < N => s \in Pipe
      BY RunsWired
    <2>2. /\ Capacity \in Nat /\ got \in Nat /\ buf \in [Pipe -> 0..Capacity] /\ held \in [Stage -> BOOLEAN]
      BY Constants DEF IInv, TypeOK
    <2>3. sent = got + Cardinality(Parked)
      BY DEF Flow
    <2>4. /\ 0 \in 0..Capacity /\ Pipe \subseteq Stage /\ s \in Nat /\ s <= N /\ N \in Nat /\ N > 1 /\ s >= 1
      BY <2>2, Constants DEF Stage, Pipe
    <2> QED BY <2>1, <2>2, <2>3, <2>4
  <1>2. (s < N => b \in Cells /\ b \notin Parked) /\ (1 < s /\ s < N => a \in Parked)
    <2>1. s < N => buf[s] + 1 \in 0..Capacity /\ ~(buf[s] + 1 <= buf[s]) /\ buf[s] + 1 # 0
      BY <1>1
    <2>2. 1 < s => held[s]
      BY <1>1 DEF HasItem
    <2> QED BY <1>1, <2>1, <2>2, CellIs DEF Full, Cells
  <1>3. ASSUME NEW c \in Cells
        PROVE  Full(c[1], c[2])' <=> IF c = a THEN FALSE ELSE IF s < N /\ c = b THEN TRUE ELSE Full(c[1], c[2])
    <2>1. PICK k \in Stage, j \in 0..Capacity : c = <<k, j>>
      BY ParkedIs, <1>3
    <2>2. c[1] = k /\ c[2] = j /\ (c = b <=> k = s /\ j = buf[s] + 1) /\ (c = a <=> k = s /\ j = 0)
      BY <2>1
    <2>3. Full(k, j)' <=> IF k = s /\ j = 0 THEN FALSE ELSE IF s < N /\ k = s /\ j = buf[s] + 1 THEN TRUE ELSE Full(k, j)
      <3>1. k \in Nat /\ j \in Nat /\ (k < N => k \in Pipe) /\ k >= 1
        BY Constants DEF Stage, Pipe
      <3>2. CASE j = 0
        BY <1>1, <3>1, <3>2 DEF Full
      <3>3. CASE j # 0 /\ k = s
        BY <1>1, <3>1, <3>3 DEF Full
      <3>4. CASE j # 0 /\ k # s
        BY <1>1, <3>1, <3>4 DEF Full
      <3> QED BY <3>2, <3>3, <3>4
    <2> QED BY <2>2, <2>3
  <1>p. Parked \subseteq Cells /\ Parked' = {c \in Cells : Full(c[1], c[2])'}
    BY DEF Parked, Cells
  <1>n. s < N => a # b
    <2>1. s < N => buf[s] + 1 # 0
      BY <1>1
    <2> QED BY <2>1
  <1>4. CASE s = 1
    <2>1. a \notin Parked
      BY <1>1, <1>4, CellIs DEF Full
    <2>2. \A c \in Cells : Full(c[1], c[2])' <=> c \in Parked \cup {b}
      BY <1>1, <1>2, <1>3, <1>4, <2>1 DEF Parked
    <2>3. Parked' = Parked \cup {b}
      BY <1>1, <1>2, <1>4, <1>p, <2>2
    <2>4. Cardinality(Parked') = Cardinality(Parked) + 1 /\ Cardinality(Parked) \in Nat
      BY <1>1, <1>2, <1>4, <2>3, ParkedIs, PutItem
    <2> QED BY <1>1, <1>4, <2>4
  <1>5. CASE 1 < s /\ s < N
    <2>1. \A c \in Cells : Full(c[1], c[2])' <=> c \in (Parked \ {a}) \cup {b}
      BY <1>2, <1>3, <1>5 DEF Parked
    <2>2. Parked' = (Parked \ {a}) \cup {b}
      BY <1>2, <1>5, <1>p, <2>1
    <2>3. Cardinality(Parked') = Cardinality(Parked)
      BY <1>2, <1>5, <2>2, ParkedIs, MoveItem
    <2> QED BY <1>1, <1>5, <2>3
  <1>6. CASE s = N
    <2>1. a \notin Parked
      BY <1>1, <1>6, CellIs DEF Full
    <2>2. \A c \in Cells : Full(c[1], c[2])' <=> c \in Parked
      BY <1>1, <1>3, <1>6, <2>1 DEF Parked
    <2>3. Parked' = Parked
      BY <1>p, <2>2
    <2> QED BY <1>1, <1>6, <2>3
  <1> QED BY <1>1, <1>4, <1>5, <1>6

\* The other steps leave the items alone.
LEMMA FlowSame ==
    ASSUME Flow, UNCHANGED <<buf, held, sent, got, endless>>
    PROVE  Flow'
  <1>1. Parked' = Parked
    BY DEF Parked, Full, Cells
  <1> QED BY <1>1 DEF Flow

LEMMA FlowStep == IInv /\ Flow /\ [Next]_vars => Flow'
  <1> SUFFICES ASSUME IInv, Flow, [Next]_vars PROVE Flow'
    OBVIOUS
  <1>1. ASSUME NEW s \in Stage, Read(s) PROVE Flow'
    <2>1. CASE End(s, "eof") \/ End(s, "error")
      BY <2>1, FlowSame DEF End
    <2>2. CASE ~End(s, "eof") /\ ~End(s, "error")
      <3>1. at[s] = "run" /\ s > 1 /\ ~held[s] /\ Stdin(s).no = s - 1
        BY <1>1, RunsWired DEF Read
      <3> QED BY <1>1, <2>2, <3>1, ReadFlow DEF Read
    <2> QED BY <2>1, <2>2
  <1>2. ASSUME NEW s \in Stage, Write(s) PROVE Flow'
    <2>1. CASE End(s, "sigpipe") \/ End(s, "error")
      BY <2>1, FlowSame DEF End
    <2>2. CASE ~End(s, "sigpipe") /\ ~End(s, "error")
      <3>1. at[s] = "run" /\ HasItem(s) /\ (s < N => Stdout(s).kind = "write" /\ Stdout(s).no = s)
            /\ (s = N => Stdout(s).kind = "std")
        BY <1>2, RunsWired DEF Write
      <3>2. s < N \/ s = N
        BY Constants DEF Stage
      <3>3. IF s < N THEN buf[s] < Capacity /\ buf' = [buf EXCEPT ![s] = @ + 1] ELSE UNCHANGED buf
        BY <1>2, <2>2, <3>1, <3>2, Constants DEF Write
      <3>4. /\ held' = IF s = 1 THEN held ELSE [held EXCEPT ![s] = FALSE]
            /\ sent' = IF s = 1 /\ ~endless THEN sent + 1 ELSE sent
            /\ UNCHANGED <<got, endless>>
        BY <1>2, <2>2 DEF Write
      <3> QED BY <3>1, <3>3, <3>4, WriteFlow
    <2> QED BY <2>1, <2>2
  <1>3. CASE executePipelineNode \/ ShellExits
    BY <1>3, FlowSame DEF executePipelineNode, MakePipe, PipeFails, LastStage, ForkStage, ForkFails,
       ParentClosesPrev, ParentClosesWrite, waitpid, ShellExits, progs
  <1>4. ASSUME NEW s \in Stage, ConnectStage(s) PROVE Flow'
    BY <1>4, FlowSame DEF ConnectStage, ChildDupsStdin, ChildClosesPrev, ChildDupsStdout,
       ChildClosesWrite, ChildClosesRead, progs
  <1>5. ASSUME NEW s \in Stage, ProducerDone(s) \/ Quit(s) PROVE Flow'
    BY <1>5, FlowSame DEF ProducerDone, Quit, End
  <1>6. CASE UNCHANGED vars
    BY <1>6, FlowSame DEF vars
  <1> QED BY <1>1, <1>2, <1>3, <1>4, <1>5, <1>6 DEF Next, Program

-----------------------------------------------------------------------------
(* The order in which stages are born and end.                               *)

\* The shell forks the stages in their order and then waits for each.
Births ==
    LET a == at[Shell]  i == loc[Shell].i
    IN  \A s \in Stage :
          /\ a \in {"pipe", "fork"} => (at[s] # "unborn" <=> s < i)
          /\ a \in {"closePrev", "closeWrite"} => (at[s] # "unborn" <=> s <= i)
          /\ a \in {"wait", "done"} => at[s] # "unborn"
          /\ a = "wait" /\ s < i => at[s] = "ended"
          /\ a = "done" => at[s] = "ended"

\* A stage neither appears nor disappears, and stays ended.
Stays == \A s \in Stage : (at'[s] = "unborn" <=> at[s] = "unborn") /\ (at[s] = "ended" => at'[s] = "ended")

LEMMA BirthsStay ==
    ASSUME Births, Stays, UNCHANGED <<at[Shell], loc[Shell]>>
    PROVE  Births'
  BY DEF Births, Stays

LEMMA StageStays ==
    ASSUME IInv, NEW s \in Stage, ConnectStage(s) \/ Program(s) \/ Quit(s)
    PROVE  /\ Stays /\ at'[Shell] = at[Shell] /\ loc' = loc /\ at[s] \notin {"unborn", "ended"} /\ at'[s] # "unborn"
           /\ \A t \in Stage \ {s} : at'[t] = at[t]
  <1>1. at \in [Proc -> ShellAt \cup StageAt] /\ Stage \subseteq Proc /\ Shell \in Proc \ Stage
    BY Constants DEF IInv, TypeOK
  <1>2. ASSUME NEW l, l \notin {"unborn"}, at' = [at EXCEPT ![s] = l], at[s] \notin {"unborn", "ended"}
        PROVE  /\ Stays /\ at'[Shell] = at[Shell] /\ at'[s] # "unborn"
               /\ \A t \in Stage \ {s} : at'[t] = at[t]
    BY <1>1, <1>2 DEF Stays
  <1>3. CASE ConnectStage(s)
    <2>1. loc' = loc /\ at[s] \notin {"unborn", "ended"} /\
          \E l \in {"closePrev", "dupOut", "closeWrite", "closeRead", "run"} : at' = [at EXCEPT ![s] = l]
      BY <1>3 DEF ConnectStage, ChildDupsStdin, ChildClosesPrev, ChildDupsStdout,
         ChildClosesWrite, ChildClosesRead, Goto
    <2> QED BY <1>2, <2>1
  <1>4. CASE Program(s) \/ Quit(s)
    <2>1. loc' = loc /\ at[s] = "run" /\ (at' = at \/ at' = [at EXCEPT ![s] = "ended"])
      BY <1>4 DEF Program, Read, Write, ProducerDone, Quit, End
    <2>2. CASE at' = at
      BY <1>1, <2>1, <2>2 DEF Stays
    <2> QED BY <1>2, <2>1, <2>2
  <1> QED BY <1>3, <1>4

LEMMA BirthsStep == IInv /\ Births /\ [Next]_vars => Births'
  <1> SUFFICES ASSUME IInv, Births, [Next]_vars PROVE Births'
    OBVIOUS
  <1>0. /\ at \in [Proc -> ShellAt \cup StageAt] /\ loc \in [Proc -> Locals] /\ Shell \in Proc
        /\ \A s \in Stage : s \in Proc /\ s # Shell /\ s \in Nat /\ 1 <= s /\ s <= N
        /\ N \in Nat /\ (at[Shell] \in {"pipe", "fork", "closePrev", "closeWrite", "wait"} => loc[Shell].i \in Stage)
    BY Constants, ShellBasics DEF TypeOK, ShellFits, Stage
  <1>1. ASSUME NEW s \in Stage, ConnectStage(s) \/ Program(s) \/ Quit(s) PROVE Births'
    BY <1>1, StageStays, BirthsStay
  <1>2. CASE MakePipe \/ LastStage
    <2>1. at[Shell] = "pipe" /\ at'[Shell] = "fork" /\ \A s \in Stage : at'[s] = at[s]
      BY <1>0, <1>2 DEF MakePipe, LastStage, Goto
    <2>2. loc'[Shell].i = loc[Shell].i
      <3>1. loc[Shell] \in Locals /\ \E r, w : loc' = [loc EXCEPT ![Shell].r = r, ![Shell].w = w]
        BY <1>0, <1>2 DEF MakePipe, LastStage
      <3>2. PICK r, w : loc' = [loc EXCEPT ![Shell].r = r, ![Shell].w = w]
        BY <3>1
      <3>3. loc'[Shell] = [[loc[Shell] EXCEPT !.r = r] EXCEPT !.w = w]
        BY <1>0, <3>2
      <3> QED BY <3>1, <3>3 DEF Locals
    <2> QED BY <1>0, <2>1, <2>2 DEF Births
  <1>3. CASE PipeFails \/ ForkFails \/ ShellExits
    <2>1. at'[Shell] \in {"failed", "exited"}
      BY <1>0, <1>3 DEF PipeFails, ForkFails, ShellExits, Goto
    <2> QED BY <2>1 DEF Births
  <1>4. CASE ForkStage
    <2>1. /\ at[Shell] = "fork" /\ at'[Shell] = "closePrev" /\ loc'[Shell] = loc[Shell]
          /\ \A s \in Stage : at'[s] = IF s = loc[Shell].i THEN "dupIn" ELSE at[s]
      BY <1>0, <1>4 DEF ForkStage
    <2> QED BY <1>0, <2>1 DEF Births
  <1>5. CASE ParentClosesPrev
    <2>1. /\ at[Shell] = "closePrev" /\ at'[Shell] = "closeWrite" /\ loc'[Shell] = loc[Shell]
          /\ \A s \in Stage : at'[s] = at[s]
      BY <1>0, <1>5 DEF ParentClosesPrev, Goto
    <2> QED BY <1>0, <2>1 DEF Births
  <1>6. CASE ParentClosesWrite
    <2>1. CASE loc[Shell].i < N
      <3>1. /\ at[Shell] = "closeWrite" /\ at'[Shell] = "pipe" /\ loc'[Shell].i = loc[Shell].i + 1
            /\ \A s \in Stage : at'[s] = at[s]
        <4> DEFINE l == loc[Shell]
                   m == [l EXCEPT !.prev = l.r, !.i = l.i + 1]
        <4>1. at[Shell] = "closeWrite" /\ loc' = [loc EXCEPT ![Shell] = m] /\ at' = [at EXCEPT ![Shell] = "pipe"]
          BY <1>6, <2>1 DEF ParentClosesWrite, Goto
        <4>2. m.i = l.i + 1
          BY <1>0 DEF Locals
        <4> HIDE DEF m
        <4> QED BY <1>0, <4>1, <4>2
      <3> QED BY <1>0, <3>1 DEF Births
    <2>2. CASE ~(loc[Shell].i < N)
      <3>1. /\ at[Shell] = "closeWrite" /\ at'[Shell] = "wait" /\ loc'[Shell].i = 1
            /\ \A s \in Stage : at'[s] = at[s]
        BY <1>0, <1>6, <2>2 DEF ParentClosesWrite, Goto, Locals
      <3>2. \A s \in Stage : s <= loc[Shell].i /\ ~(s < 1)
        BY <1>0, <2>2, <3>1
      <3> QED BY <1>0, <3>1, <3>2 DEF Births
    <2> QED BY <2>1, <2>2
  <1>7. CASE waitpid
    <2> DEFINE i == loc[Shell].i
    <2>1. /\ at[Shell] = "wait" /\ at[i] = "ended" /\ i \in Stage /\ loc'[Shell].i = i + 1
          /\ at'[Shell] = (IF i < N THEN "wait" ELSE "done") /\ \A s \in Stage : at'[s] = at[s]
      BY <1>0, <1>7 DEF waitpid, Goto, Locals
    <2>2. \A s \in Stage : s < i + 1 => s < i \/ s = i
      BY <1>0, <2>1
    <2>3. ~(i < N) => \A s \in Stage : s < i \/ s = i
      BY <1>0, <2>1
    <2>4. \A s \in Stage : at[s] # "unborn" /\ (s < i => at[s] = "ended")
      BY <2>1 DEF Births
    <2> QED BY <2>1, <2>2, <2>3, <2>4 DEF Births
  <1>8. CASE UNCHANGED vars
    BY <1>8 DEF vars, Births
  <1> QED BY <1>1, <1>2, <1>3, <1>4, <1>5, <1>6, <1>7, <1>8 DEF Next, executePipelineNode

\* Between its birth and its end a stage has the write end of its pipe, and the read end of the
\* one before.
LEMMA StageHolds ==
    ASSUME IInv, NEW s \in Stage, at[s] \notin {"unborn", "ended"}
    PROVE  /\ s < N => Holders(WriteEnd(s)) # {}
           /\ s > 1 => Holders(ReadEnd(s - 1)) # {}
  <1>0. /\ at[s] \in {"dupIn", "closePrev", "dupOut", "closeWrite", "closeRead", "run"}
        /\ StageFits(s, at[s], loc[s], fds[s]) /\ s \in Proc /\ s \in Nat /\ s >= 1
        /\ {STDIN_FILENO, STDOUT_FILENO} \subseteq OpenBefore \cap Fd /\ STDIN_FILENO # STDOUT_FILENO
    BY Constants DEF IInv, Fits, StageFits, StageAt, Stage
  <1>1. ASSUME s < N PROVE \E d \in Fd : fds[s][d] = WriteEnd(s)
    <2>1. CASE at[s] \in {"dupIn", "closePrev", "dupOut"}
      <3>1. /\ loc[s].w \in Fd \ OpenBefore /\ loc[s].w # loc[s].r /\ loc[s].w # loc[s].prev
            /\ \E D \in SUBSET {"in", "prev"} : fds[s] = Table(loc[s], s, D)
        BY <1>0, <1>1, <2>1 DEF StageFits, LocalsOf
      <3>2. fds[s][loc[s].w] = WriteEnd(s)
        BY <1>0, <3>1 DEF Table
      <3> QED BY <3>1, <3>2
    <2>2. CASE at[s] \in {"closeWrite", "closeRead", "run"}
      <3>1. fds[s][STDOUT_FILENO] = WriteEnd(s)
        BY <1>0, <1>1, <2>2 DEF StageFits, Table, Wired
      <3> QED BY <1>0, <3>1
    <2> QED BY <1>0, <2>1, <2>2
  <1>2. ASSUME s > 1 PROVE \E d \in Fd : fds[s][d] = ReadEnd(s - 1)
    <2>1. CASE at[s] = "dupIn"
      <3>1. loc[s].prev \in Fd \ OpenBefore /\ fds[s] = Table(loc[s], s, {})
        BY <1>0, <1>2, <2>1 DEF StageFits, LocalsOf
      <3>2. fds[s][loc[s].prev] = ReadEnd(s - 1)
        BY <3>1 DEF Table
      <3> QED BY <3>1, <3>2
    <2>2. CASE at[s] # "dupIn"
      <3>1. fds[s][STDIN_FILENO] = ReadEnd(s - 1)
        BY <1>0, <1>2, <2>2 DEF StageFits, Table, Wired
      <3> QED BY <1>0, <3>1
    <2> QED BY <2>1, <2>2
  <1> QED BY <1>0, <1>1, <1>2 DEF Holders

\* Until the next stage is born the shell has the read end for it.
LEMMA ShellHolds ==
    ASSUME IInv
    PROVE  LET a == at[Shell]  i == loc[Shell].i
           IN  /\ a \in {"pipe", "fork"} /\ i > 1 => Holders(ReadEnd(i - 1)) # {}
               /\ a \in {"closePrev", "closeWrite"} /\ i < N => Holders(ReadEnd(i)) # {}
  <1> DEFINE a == at[Shell]  l == loc[Shell]
  <1>0. ShellFits(a, l, fds[Shell]) /\ Shell \in Proc
    BY ShellBasics
  <1>1. ASSUME a \in {"pipe", "fork"}, l.i > 1 PROVE \E d \in Fd : fds[Shell][d] = ReadEnd(l.i - 1)
    <2>1. l.i \in Stage /\ l.prev \in Fd \ OpenBefore /\ \E D \in SUBSET {"r", "w"} : fds[Shell] = Table(l, l.i, D)
      BY <1>0, <1>1, Constants DEF ShellFits, LocalsOf
    <2>2. fds[Shell][l.prev] = ReadEnd(l.i - 1)
      BY <2>1 DEF Table
    <2> QED BY <2>1, <2>2
  <1>2. ASSUME a \in {"closePrev", "closeWrite"}, l.i < N PROVE \E d \in Fd : fds[Shell][d] = ReadEnd(l.i)
    <2>1. l.r \in Fd \ OpenBefore /\ l.r # l.prev /\ \E D \in SUBSET {"prev"} : fds[Shell] = Table(l, l.i, D)
      BY <1>0, <1>2 DEF ShellFits, LocalsOf
    <2>2. fds[Shell][l.r] = ReadEnd(l.i)
      BY <2>1 DEF Table
    <2> QED BY <2>1, <2>2
  <1> QED BY <1>0, <1>1, <1>2 DEF Holders

ShellWell == at[Shell] \notin {"failed", "exited"}

\* Without a program that stops early a stage ends when it read all there is: the stage before it
\* ended first and left nothing in the pipe.
InOrder ==
    quits = {} /\ ShellWell =>
        /\ ~endless
        /\ \A s \in Stage : at[s] = "ended" =>
             /\ how[s] = "eof"
             /\ s = 1 => sent = Items
             /\ s > 1 => ~held[s] /\ at[s - 1] = "ended" /\ buf[s - 1] = 0

\* Who writes has a reader.
LEMMA ReaderThere ==
    ASSUME IInv, Births, InOrder, quits = {}, ShellWell, NEW s \in Stage, s < N, at[s] = "run"
    PROVE  Holders(ReadEnd(s)) # {}
  <1>1. s \in Nat /\ s >= 1 /\ s + 1 \in Stage /\ s + 1 > 1 /\ (s + 1) - 1 = s /\ N \in Nat
    BY Constants DEF Stage
  <1>2. CASE at[s + 1] = "unborn"
    <2> DEFINE a == at[Shell]  i == loc[Shell].i
    <2>1. a \in ShellAt /\ (a \in {"pipe", "fork", "closePrev", "closeWrite"} => i \in Stage /\ i \in Nat)
      BY ShellBasics, Constants DEF ShellFits
    <2>2. a \in {"pipe", "fork"} => i = s + 1
      <3>1. a \in {"pipe", "fork"} => s < i /\ ~(s + 1 < i)
        BY <1>1, <1>2 DEF Births
      <3> QED BY <1>1, <2>1, <3>1
    <2>3. a \in {"closePrev", "closeWrite"} => i = s
      <3>1. a \in {"closePrev", "closeWrite"} => s <= i /\ ~(s + 1 <= i)
        BY <1>1, <1>2 DEF Births
      <3> QED BY <1>1, <2>1, <3>1
    <2>4. a \in {"pipe", "fork", "closePrev", "closeWrite"}
      <3>1. a \notin {"wait", "done"}
        BY <1>1, <1>2 DEF Births
      <3> QED BY <2>1, <3>1 DEF ShellWell, ShellAt
    <2> QED BY <1>1, <2>2, <2>3, <2>4, ShellHolds
  <1>3. CASE at[s + 1] = "ended"
    BY <1>1, <1>3 DEF InOrder
  <1>4. CASE at[s + 1] \notin {"unborn", "ended"}
    BY <1>1, <1>4, StageHolds
  <1> QED BY <1>2, <1>3, <1>4

\* A stage that reads the end of its input comes after one that ended.
LEMMA WriterGone ==
    ASSUME IInv, Births, ShellWell, NEW s \in Stage, s > 1, at[s] = "run", Holders(WriteEnd(s - 1)) = {}
    PROVE  at[s - 1] = "ended"
  <1>1. s \in Nat /\ s - 1 \in Stage /\ s - 1 < s /\ s - 1 < N /\ N \in Nat
    BY Constants DEF Stage
  <1>2. at[s - 1] \in {"unborn", "ended"}
    BY <1>1, StageHolds
  <1>3. at[s - 1] # "unborn"
    <2> DEFINE a == at[Shell]  i == loc[Shell].i
    <2>1. a \in ShellAt /\ (a \in {"pipe", "fork", "closePrev", "closeWrite"} => i \in Nat)
      BY ShellBasics, Constants DEF ShellFits
    <2>2. CASE a \in {"pipe", "fork"}
      <3>1. s < i
        BY <2>2 DEF Births
      <3>2. s - 1 < i
        BY <1>1, <2>1, <2>2, <3>1
      <3> QED BY <1>1, <2>2, <3>2 DEF Births
    <2>3. CASE a \in {"closePrev", "closeWrite"}
      <3>1. s <= i
        BY <2>3 DEF Births
      <3>2. s - 1 <= i
        BY <1>1, <2>1, <2>3, <3>1
      <3> QED BY <1>1, <2>3, <3>2 DEF Births
    <2>4. CASE a \in {"wait", "done"}
      BY <1>1, <2>4 DEF Births
    <2> QED BY <2>1, <2>2, <2>3, <2>4 DEF ShellAt, ShellWell
  <1> QED BY <1>2, <1>3

LEMMA InOrderStep == IInv /\ Births /\ InOrder /\ [Next]_vars => InOrder'
  <1> SUFFICES ASSUME IInv, Births, InOrder, [Next]_vars, quits' = {}, ShellWell' PROVE InOrder'
    BY DEF InOrder
  <1> USE DEF InOrder
  <1>0. /\ at \in [Proc -> ShellAt \cup StageAt] /\ Shell \in Proc
        /\ \A s \in Stage : s \in Proc /\ s # Shell /\ s \in Nat /\ (s > 1 => s - 1 \in Stage /\ s - 1 \in Pipe)
        /\ held \in [Stage -> BOOLEAN] /\ how \in [Stage -> {"none", "eof", "sigpipe", "quit", "error"}]
        /\ buf \in [Pipe -> 0..Capacity] /\ sent \in Nat /\ sent <= Items
    BY Constants DEF IInv, TypeOK, Stage, Pipe
  <1>1. /\ quits = {} /\ endless' = endless
    BY DEF Next, vars, executePipelineNode, MakePipe, PipeFails, LastStage, ForkStage, ForkFails,
       ParentClosesPrev, ParentClosesWrite, waitpid, ShellExits, ConnectStage, ChildDupsStdin, ChildClosesPrev,
       ChildDupsStdout, ChildClosesWrite, ChildClosesRead, Program, Read, Write, ProducerDone, Quit, End
  <1>2. CASE executePipelineNode \/ ShellExits
    <2>1. ShellWell /\ UNCHANGED <<how, held, sent, buf>>
      BY <1>0, <1>2 DEF ShellWell, executePipelineNode, MakePipe, PipeFails, LastStage, ForkStage, ForkFails,
         ParentClosesPrev, ParentClosesWrite, waitpid, ShellExits, progs, Goto
    <2>2. \A s \in Stage : at'[s] = at[s] \/ (at[s] = "unborn" /\ at'[s] = "dupIn")
      <3>1. CASE ForkStage
        <4>1. at[Shell] = "fork" /\ \A s \in Stage : at'[s] = IF s = loc[Shell].i THEN "dupIn" ELSE at[s]
          BY <1>0, <3>1 DEF ForkStage
        <4>2. \A s \in Stage : s = loc[Shell].i => at[s] = "unborn"
          BY <1>0, <4>1 DEF Births
        <4> QED BY <4>1, <4>2
      <3> QED BY <1>0, <1>2, <3>1 DEF executePipelineNode, MakePipe, PipeFails, LastStage, ForkFails,
         ParentClosesPrev, ParentClosesWrite, waitpid, ShellExits, Goto
    <2>3. ASSUME NEW s \in Stage, at'[s] = "ended"
          PROVE  /\ how[s] = "eof" /\ (s = 1 => sent = Items) /\ at[s] = "ended"
                 /\ s > 1 => ~held[s] /\ at[s - 1] = "ended" /\ buf[s - 1] = 0 /\ at'[s - 1] = "ended"
      BY <1>0, <1>1, <2>1, <2>2, <2>3
    <2> QED BY <1>1, <2>1, <2>3
  <1>3. ASSUME NEW s \in Stage, ConnectStage(s) \/ Program(s) \/ Quit(s) PROVE InOrder'
    <2>0. /\ Stays /\ at'[Shell] = at[Shell] /\ at[s] \notin {"unborn", "ended"}
          /\ \A t \in Stage \ {s} : at'[t] = at[t]
      BY <1>3, StageStays
    <2>1. ShellWell /\ ~endless
      BY <1>1, <2>0 DEF ShellWell
    <2>2. ASSUME NEW t \in Stage, t # s, at'[t] = "ended"
          PROVE  /\ how[t] = "eof" /\ (t = 1 => sent = Items)
                 /\ t > 1 => ~held[t] /\ at[t - 1] = "ended" /\ buf[t - 1] = 0 /\ at'[t - 1] = "ended" /\ t - 1 # s
      <3>1. at[t] = "ended"
        BY <2>0, <2>2
      <3> QED BY <1>0, <1>1, <2>0, <2>1, <3>1 DEF Stays
    <2>3. ASSUME \A t \in Stage \ {s} : how'[t] = how[t] /\ held'[t] = held[t] /\ (t = 1 => sent' = sent)
                                       /\ (t > 1 /\ t - 1 # s => (buf[t - 1] = 0 => buf'[t - 1] = 0)),
                 at'[s] = "ended" => /\ how'[s] = "eof" /\ (s = 1 => sent' = Items)
                                     /\ s > 1 => ~held'[s] /\ at'[s - 1] = "ended" /\ buf'[s - 1] = 0
          PROVE  InOrder'
      BY <1>1, <2>1, <2>2, <2>3
    <2>4. CASE ConnectStage(s)
      BY <2>3, <2>4, <1>0 DEF ConnectStage, ChildDupsStdin, ChildClosesPrev, ChildDupsStdout, ChildClosesWrite,
         ChildClosesRead, progs, Goto
    <2>5. CASE End(s, "eof") /\ (s = 1 => sent = Items) /\ (s > 1 => ~held[s] /\ at[s - 1] = "ended" /\ buf[s - 1] = 0)
      <3>1. how'[s] = "eof" /\ \A t \in Stage \ {s} : how'[t] = how[t]
        BY <1>0, <2>5 DEF End
      <3>2. s > 1 => at'[s - 1] = "ended"
        BY <1>0, <2>0, <2>5 DEF Stays
      <3> QED BY <2>3, <2>5, <3>1, <3>2 DEF End
    <2>6. CASE ProducerDone(s)
      <3>1. sent = Items
        BY <1>0, <2>1, <2>6, Constants DEF ProducerDone, HasItem
      <3> QED BY <2>5, <2>6, <3>1 DEF ProducerDone
    <2>7. CASE Quit(s)
      BY <1>1, <2>7 DEF Quit
    <2>8. CASE Read(s)
      <3>1. /\ at[s] = "run" /\ s > 1 /\ ~held[s] /\ s # 1
            /\ Stdin(s).kind = "read" /\ Stdin(s).no = s - 1 /\ s - 1 \in Pipe
        BY <1>0, <2>8, RunsWired DEF Read
      <3>2. CASE buf[s - 1] = 0 /\ Holders(WriteEnd(s - 1)) = {} /\ End(s, "eof")
        BY <2>1, <2>5, <3>1, <3>2, WriterGone
      <3>3. CASE /\ buf[s - 1] > 0 /\ buf' = [buf EXCEPT ![s - 1] = @ - 1]
                 /\ held' = [held EXCEPT ![s] = TRUE] /\ UNCHANGED <<at, sent, how>>
        <4>1. \A t \in Stage \ {s} : held'[t] = held[t] /\ (t > 1 => buf'[t - 1] = buf[t - 1])
          BY <1>0, <3>3
        <4> QED BY <2>0, <2>3, <3>3, <4>1
      <3> QED BY <2>8, <3>1, <3>2, <3>3 DEF Read
    <2>9. CASE Write(s)
      <3>1. /\ at[s] = "run" /\ (s < N => Stdout(s).kind = "write" /\ Stdout(s).no = s /\ s \in Pipe)
            /\ (s = N => Stdout(s).kind = "std") /\ (s < N \/ s = N)
        BY <2>9, RunsWired, Constants DEF Write, Stage
      <3>2. s < N => Holders(ReadEnd(s)) # {}
        BY <1>1, <2>1, <3>1, ReaderThere
      <3>3. /\ held' = IF s = 1 THEN held ELSE [held EXCEPT ![s] = FALSE]
            /\ sent' = IF s = 1 /\ ~endless THEN sent + 1 ELSE sent
            /\ UNCHANGED <<at, how>>
            /\ buf' = buf \/ buf' = [buf EXCEPT ![s] = @ + 1]
        BY <2>9, <3>1, <3>2 DEF Write
      <3>4. \A t \in Stage \ {s} : held'[t] = held[t] /\ (t > 1 /\ t - 1 # s => buf'[t - 1] = buf[t - 1])
        BY <1>0, <3>3
      <3>5. \A t \in Stage \ {s} : t = 1 => sent' = sent
        BY <3>3
      <3> QED BY <2>0, <2>3, <3>3, <3>4, <3>5
    <2> QED BY <1>3, <2>4, <2>6, <2>7, <2>8, <2>9 DEF Program
  <1>4. CASE UNCHANGED vars
    BY <1>4, <1>1 DEF vars, ShellWell
  <1> QED BY <1>2, <1>3, <1>4 DEF Next

\* What the first stage wrote has reached the last when the shell is back, for pipes of any
\* capacity and however the calls of the processes interleave: the order of the close calls
\* (execute.c:543-583) never takes a reader from a writer or ends an input early.
THEOREM PipelineLosesNothing == Spec => []NothingLost
  <1> DEFINE J == IInv /\ Flow /\ Births /\ InOrder
  <1>1. Init => J
    <2> SUFFICES ASSUME Init PROVE J
      OBVIOUS
    <2>1. Parked = {}
      <3>1. ASSUME NEW k \in Stage, NEW j \in 0..Capacity PROVE ~Full(k, j)
        <4>1. ~held[k] /\ (k < N => buf[k] = 0)
          BY Constants DEF Init, Pipe, Stage
        <4>2. j \in Nat /\ (j <= 0 => j = 0)
          BY Constants
        <4> QED BY <4>1, <4>2 DEF Full
      <3> QED BY <3>1, ParkedIs DEF Parked
    <2>2. Flow
      BY <2>1, FS_EmptySet DEF Flow, Init
    <2>3. at[Shell] = "pipe" /\ loc[Shell].i = 1 /\ \A s \in Stage : at[s] = "unborn" /\ ~(s < 1)
      BY Constants DEF Init, Stage
    <2>4. Births
      BY <2>3 DEF Births
    <2>5. InOrder
      BY <2>3 DEF InOrder, Init
    <2> QED BY <2>2, <2>4, <2>5, InitInv
  <1>2. J /\ [Next]_vars => J'
    BY NextInv, FlowStep, BirthsStep, InOrderStep
  <1>3. J => NothingLost
    <2> SUFFICES ASSUME J, at[Shell] = "done", quits = {}
                 PROVE  /\ \A s \in Stage : how[s] = "eof"
                        /\ sent = Items /\ got = Items /\ \A k \in Pipe : buf[k] = 0
      BY DEF NothingLost
    <2>1. \A s \in Stage : at[s] = "ended"
      BY DEF Births
    <2>2. /\ ~endless /\ \A s \in Stage : how[s] = "eof" /\ (s = 1 => sent = Items)
                                          /\ (s > 1 => ~held[s] /\ buf[s - 1] = 0)
      BY <2>1 DEF InOrder, ShellWell
    <2>3. 1 \in Stage /\ \A k \in Pipe : k + 1 \in Stage /\ k + 1 > 1 /\ (k + 1) - 1 = k
      BY Constants DEF Stage, Pipe
    <2>4. sent = Items /\ \A k \in Pipe : buf[k] = 0
      BY <2>2, <2>3
    <2>5. ASSUME NEW k \in Stage, NEW j \in 0..Capacity PROVE ~Full(k, j)
      <3>1. k < N => buf[k] = 0
        BY <2>4, Constants DEF Stage, Pipe
      <3> QED BY <2>2, <3>1 DEF Full
    <2>6. Parked = {}
      BY <2>5, ParkedIs DEF Parked
    <2>7. sent = got /\ got \in Nat
      BY <2>2, <2>6, FS_EmptySet DEF Flow, IInv, TypeOK
    <2> QED BY <2>2, <2>4, <2>7
  <1> QED BY <1>1, <1>2, <1>3, PTL DEF Spec
=============================================================================
