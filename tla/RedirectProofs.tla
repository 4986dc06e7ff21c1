--------------------------- MODULE RedirectProofs ---------------------------
(***************************************************************************)
(* Theorems about module Redirect, for every session, every limit on       *)
(* descriptors and every failure of open, dup and fork.                    *)
(***************************************************************************)
EXTENDS Redirect, FiniteSetTheorems, TLAPS

USE RedirectAssumption

-----------------------------------------------------------------------------
(* Tables of descriptors.                                                    *)

Table == [Fd -> Description]

\* Arithmetic of the three copies.
LEMMA AtMostTwo ==
    ASSUME NEW n \in Nat, n <= 2
    PROVE  /\ n \in 0..2
           /\ n # 2 => n + 1 <= 2
           /\ \A k \in 1..n : k - 1 \in 0..2
    OBVIOUS

LEMMA StdIsFd == Std \subseteq Fd /\ Fd \subseteq Nat /\ 0 \in Std /\ 1 \in Std /\ 2 \in Std
  BY DEF Std, Fd

LEMMA ClosedIs == Closed \in Description /\ Closed.write = FALSE
  BY DEF Description, Closed, Opened

LEMMA TargetIs ==
    ASSUME NEW r \in Redirection
    PROVE  Target(r) \in Description
  BY DEF Redirection, Target, Opened, Description

LEMMA Dup2Type ==
    ASSUME NEW f \in Table, NEW from, NEW to
    PROVE  Dup2(f, from, to) \in Table
  BY DEF Table, Dup2, IsOpen

LEMMA CloseType ==
    ASSUME NEW f \in Table, NEW fd
    PROVE  Close(f, fd) \in Table
  BY ClosedIs DEF Table, Close

LEMMA RedirectedType ==
    ASSUME NEW f \in Table, NEW target, NEW source
    PROVE  Redirected(f, target, source) \in Table
  BY Dup2Type, CloseType DEF Redirected

LEMMA RestoredType ==
    ASSUME NEW f \in Table
    PROVE  Restored(f) \in Table
  <1> DEFINE g == Dup2(Dup2(Dup2(f, saved[1], 0), saved[2], 1), saved[3], 2)
  <1>1. g \in Table
    BY Dup2Type
  <1>2. Close(Close(Close(g, saved[1]), saved[2]), saved[3]) \in Table
    <2> HIDE DEF g
    <2> QED BY <1>1, CloseType
  <1> QED BY <1>2 DEF Restored

\* A dup2 between two descriptors changes the second alone.
LEMMA Dup2Is ==
    ASSUME NEW f \in Table, NEW from, NEW to, NEW fd \in Fd
    PROVE  /\ fd # to => Dup2(f, from, to)[fd] = f[fd]
           /\ IsOpen(f, from) /\ to = fd => Dup2(f, from, to)[fd] = f[from]
  BY DEF Table, Dup2, IsOpen

LEMMA CloseIs ==
    ASSUME NEW f \in Table, NEW from, NEW fd \in Fd
    PROVE  /\ fd # from => Close(f, from)[fd] = f[fd]
           /\ fd = from => Close(f, from)[fd] = Closed
  BY DEF Table, Close

-----------------------------------------------------------------------------
(* The command that runs, and the types.                                     *)

LEMMA CommandIs ==
    ASSUME session \in Seq(Command), now \in 1..Len(session) + 1, now <= Len(session)
    PROVE  /\ cmd \in Command /\ cmd.kind \in Kind /\ cmd.redirs \in Seq(Redirection)
           /\ cmd.prints \in Item
           /\ now + 1 \in 1..Len(session) + 1
  <1>1. now \in 1..Len(session)
    OBVIOUS
  <1>2. cmd \in Command
    BY <1>1 DEF cmd
  <1> QED BY <1>1, <1>2 DEF Command

LEMMA SourceIs ==
    ASSUME NEW r \in Redirection
    PROVE  getDefaultFD(r) \in Nat
  BY DEF getDefaultFD, Redirection

LEMMA MeIsProcess == child \in BOOLEAN => Me \in Process
  BY DEF Me, Process

\* What handleRedirect does to the descriptors of the process, whatever the outcome.
LEMMA RedirectSteps ==
    ASSUME TypeOK, pc = "REDIRECT", at <= Len(cmd.redirs), handleRedirect(cmd.redirs[at])
    PROVE  \E f \in Table, ok \in BOOLEAN : Becomes(f, ok)
  <1> DEFINE r == cmd.redirs[at]
  <1>1. r \in Redirection /\ fds[Me] \in Table
    BY CommandIs, MeIsProcess DEF TypeOK, Table
  <1>2. CASE r.op = "HEREDOC" /\ Becomes(fds[Me], TRUE)
    BY <1>1, <1>2
  <1>3. CASE OpenFile(fds[Me], r, getDefaultFD(r))
    <2>1. ASSUME NEW target \in Fd,
                 Becomes(Redirected([fds[Me] EXCEPT ![target] = Target(r)], target, getDefaultFD(r)),
                         getDefaultFD(r) \in Fd)
          PROVE  \E f \in Table, ok \in BOOLEAN : Becomes(f, ok)
      <3>1. [fds[Me] EXCEPT ![target] = Target(r)] \in Table
        BY <1>1, TargetIs DEF Table
      <3>2. Redirected([fds[Me] EXCEPT ![target] = Target(r)], target, getDefaultFD(r)) \in Table
        BY <3>1, RedirectedType
      <3>3. (getDefaultFD(r) \in Fd) \in BOOLEAN
        OBVIOUS
      <3> QED BY <2>1, <3>2, <3>3
    <2> QED BY <1>1, <1>3, <2>1 DEF OpenFile
  <1>4. CASE DupFile(fds[Me], r, getDefaultFD(r))
    BY <1>1, <1>4, CloseType, RedirectedType DEF DupFile, IsOpen
  <1> QED BY <1>2, <1>3, <1>4 DEF handleRedirect

LEMMA TypeInit == Init => TypeOK
  <1> SUFFICES ASSUME Init PROVE TypeOK
    OBVIOUS
  <1>1. \A f \in Starts : [p \in Process |-> f] \in [Process -> [Fd -> Description]]
    OBVIOUS
  <1>2. fds \in [Process -> [Fd -> Description]] /\ home \in [Fd -> Description]
    BY <1>1 DEF Init
  <1>3. <<>> \in Seq(Item) /\ <<>> \in Seq(Fd \cup {-1})
    OBVIOUS
  <1>4. stdout \in [Process -> [mode : {"NONE", "LINE", "FULL"}, buff : Seq(Item)]]
    BY <1>3 DEF Init
  <1>5. session \in Seq(Command) /\ now \in 1..Len(session) + 1
    BY DEF Init
  <1>6. prompted \in BOOLEAN /\ child \in BOOLEAN /\ clean \in BOOLEAN /\ at \in Nat \ {0}
    <2>1. prompted \in BOOLEAN /\ child = FALSE /\ clean = TRUE
      BY DEF Init
    <2>2. at \in Nat \ {0}
      BY DEF Init
    <2> QED BY <2>1, <2>2
  <1>7. saved \in Seq(Fd \cup {-1}) /\ pc = "NEXT" /\ saved = <<>>
    BY <1>3 DEF Init
  <1>8. ~child
    <2>1. child = FALSE
      BY DEF Init
    <2> QED BY <2>1
  <1> QED BY <1>2, <1>4, <1>5, <1>6, <1>7, <1>8 DEF TypeOK

\* The pieces of TypeOK that say where a command is; each action changes few of the others.
Place ==
    IF pc \in {"NEXT", "DONE"} THEN saved = <<>> /\ ~child
    ELSE /\ now <= Len(session)
         /\ (child <=> cmd.kind \in {"SUBSHELL", "EXTERNAL"})
         /\ pc \in {"SAVE", "RUN", "RESTORE"} => cmd.kind \in {"BUILTIN", "SUBSHELL"}
         /\ pc = "LEAVE" => cmd.kind = "ONLY"
         /\ pc = "EXEC" => cmd.kind = "EXTERNAL"
         /\ pc = "EXIT" => child
         /\ CASE pc = "SAVE" -> Len(saved) <= 2
              [] pc = "RUN" \/ pc = "RESTORE" -> Len(saved) = 3
              [] pc = "REDIRECT" -> Len(saved) = IF cmd.kind \in {"ONLY", "EXTERNAL"} THEN 0 ELSE 3
              [] OTHER -> saved = <<>>

Types ==
    /\ session \in Seq(Command) /\ now \in 1..Len(session) + 1 /\ at \in Nat \ {0}
    /\ pc \in {"NEXT", "SAVE", "REDIRECT", "LEAVE", "RUN", "RESTORE", "EXEC", "EXIT", "DONE"}
    /\ fds \in [Process -> [Fd -> Description]] /\ home \in [Fd -> Description]
    /\ saved \in Seq(Fd \cup {-1})
    /\ stdout \in [Process -> [mode : {"NONE", "LINE", "FULL"}, buff : Seq(Item)]]

Flags == prompted \in BOOLEAN /\ child \in BOOLEAN /\ clean \in BOOLEAN

LEMMA TypeParts == TypeOK <=> Types /\ Flags /\ Place
  BY DEF TypeOK, Types, Flags, Place

LEMMA TypesStep == TypeOK /\ [Next]_vars => Types'
  <1> SUFFICES ASSUME TypeOK, Next PROVE Types'
    BY DEF TypeOK, Types, vars
  <1> USE DEF TypeOK, Types
  <1>1. CASE Start
    <2>1. pc' \in {"NEXT", "SAVE", "REDIRECT", "LEAVE", "RUN", "RESTORE", "EXEC", "EXIT", "DONE"}
      BY <1>1 DEF Start
    <2>2. fds' \in [Process -> [Fd -> Description]]
      BY <1>1 DEF Start, Process
    <2>3. stdout' \in [Process -> [mode : {"NONE", "LINE", "FULL"}, buff : Seq(Item)]]
      BY <1>1 DEF Start, Process
    <2> QED BY <1>1, <2>1, <2>2, <2>3 DEF Start
  <1>2. CASE ForkFails
    BY <1>2 DEF ForkFails, Done
  <1>3. CASE Save
    <2>1. fds' \in [Process -> [Fd -> Description]] /\ saved' \in Seq(Fd \cup {-1})
      <3>1. ASSUME NEW copy \in Fd, IsOpen(fds[Me], Len(saved)),
                   fds' = [fds EXCEPT ![Me][copy] = fds[Me][Len(saved)]], saved' = Append(saved, copy)
            PROVE  fds' \in [Process -> [Fd -> Description]] /\ saved' \in Seq(Fd \cup {-1})
        <4>1. Me \in Process /\ fds[Me] \in [Fd -> Description] /\ fds[Me][Len(saved)] \in Description
          BY <3>1, MeIsProcess DEF IsOpen
        <4> QED BY <3>1, <4>1
      <3>2. CASE saved' = Append(saved, -1) /\ UNCHANGED fds
        BY <3>2
      <3> QED BY <1>3, <3>1, <3>2 DEF Save
    <2> QED BY <1>3, <2>1 DEF Save
  <1>4. CASE Redirect
    <2>1. CASE at <= Len(cmd.redirs) /\ handleRedirect(cmd.redirs[at]) /\ at' = at + 1
      <3>1. PICK f \in Table, ok \in BOOLEAN : Becomes(f, ok)
        BY <1>4, <2>1, RedirectSteps DEF Redirect
      <3>2. fds' \in [Process -> [Fd -> Description]]
        BY <3>1, MeIsProcess DEF Becomes, Table
      <3>3. pc' \in {"NEXT", "SAVE", "REDIRECT", "LEAVE", "RUN", "RESTORE", "EXEC", "EXIT", "DONE"}
        BY <3>1 DEF Becomes, AfterRedirects
      <3> QED BY <1>4, <2>1, <3>2, <3>3 DEF Redirect
    <2>2. CASE pc' = AfterRedirects(TRUE) /\ UNCHANGED <<fds, at>>
      BY <1>4, <2>2 DEF Redirect, AfterRedirects
    <2> QED BY <1>4, <2>1, <2>2 DEF Redirect
  <1>5. CASE Leave
    <2>1. home' \in [Fd -> Description]
      BY <1>5 DEF Leave, Process
    <2> QED BY <1>5, <2>1 DEF Leave, Done
  <1>6. CASE RunBuiltin
    <2>1. Append(stdout[Me].buff, cmd.prints) \in Seq(Item) /\ <<>> \in Seq(Item)
      BY <1>6, CommandIs, MeIsProcess DEF RunBuiltin
    <2>2. stdout[Me].mode \in {"NONE", "LINE", "FULL"} /\ ModeFor(fds[Me]) \in {"NONE", "LINE", "FULL"}
      BY MeIsProcess DEF ModeFor
    <2>3. stdout' \in [Process -> [mode : {"NONE", "LINE", "FULL"}, buff : Seq(Item)]]
      <3> DEFINE mode == IF stdout[Me].mode = "NONE" THEN ModeFor(fds[Me]) ELSE stdout[Me].mode
                 buff == Append(stdout[Me].buff, cmd.prints)
      <3>1. \/ stdout' = [stdout EXCEPT ![Me] = [mode |-> mode, buff |-> <<>>]]
            \/ stdout' = [stdout EXCEPT ![Me] = [mode |-> mode, buff |-> buff]]
        BY <1>6 DEF RunBuiltin, Printf
      <3>2. mode \in {"NONE", "LINE", "FULL"} /\ buff \in Seq(Item)
        BY <2>1, <2>2
      <3>3. ASSUME NEW m \in {"NONE", "LINE", "FULL"}, NEW b \in Seq(Item),
                   stdout' = [stdout EXCEPT ![Me] = [mode |-> m, buff |-> b]]
            PROVE  stdout' \in [Process -> [mode : {"NONE", "LINE", "FULL"}, buff : Seq(Item)]]
        BY <3>3
      <3> HIDE DEF mode, buff
      <3> QED BY <2>1, <3>1, <3>2, <3>3
    <2> QED BY <1>6, <2>3 DEF RunBuiltin
  <1>7. CASE Restore
    <2>1. fds' \in [Process -> [Fd -> Description]]
      BY <1>7, MeIsProcess, RestoredType DEF Restore, Table
    <2>2. saved' \in Seq(Fd \cup {-1})
      BY <1>7 DEF Restore
    <2>3. now' \in 1..Len(session) + 1
      BY <1>7 DEF Restore, Done
    <2>4. pc' \in {"NEXT", "EXIT"}
      BY <1>7 DEF Restore, Done
    <2> QED BY <1>7, <2>1, <2>2, <2>3, <2>4 DEF Restore
  <1>8. CASE Exec
    BY <1>8 DEF Exec, Done
  <1>9. CASE ExecFails
    BY <1>9 DEF ExecFails
  <1>10. CASE Exit
    <2>1. stdout' \in [Process -> [mode : {"NONE", "LINE", "FULL"}, buff : Seq(Item)]]
      <3>1. <<>> \in Seq(Item) /\ stdout' = [stdout EXCEPT !["child"].buff = <<>>]
        BY <1>10 DEF Exit, Flush
      <3> QED BY <3>1
    <2> QED BY <1>10, <2>1 DEF Exit, Done
  <1>11. CASE End
    <2>1. stdout' \in [Process -> [mode : {"NONE", "LINE", "FULL"}, buff : Seq(Item)]]
      <3>1. <<>> \in Seq(Item) /\ stdout' = [stdout EXCEPT !["shell"].buff = <<>>]
        BY <1>11 DEF End, Flush
      <3> QED BY <3>1
    <2> QED BY <1>11, <2>1 DEF End
  <1> QED BY <1>1, <1>2, <1>3, <1>4, <1>5, <1>6, <1>7, <1>8, <1>9, <1>10, <1>11 DEF Next

LEMMA FlagsStep == TypeOK /\ [Next]_vars => Flags'
  <1> SUFFICES ASSUME TypeOK, [Next]_vars PROVE Flags'
    OBVIOUS
  <1>1. prompted' \in BOOLEAN
    BY DEF TypeOK, vars, Next, Start, ForkFails, Save, Redirect, Leave, RunBuiltin, Restore, Exec,
           ExecFails, Exit, End
  <1>2. child' \in BOOLEAN
    BY DEF TypeOK, vars, Next, Start, ForkFails, Save, Redirect, Leave, RunBuiltin, Restore, Exec,
           ExecFails, Exit, End
  <1>3. clean' \in BOOLEAN
    BY DEF TypeOK, vars, Next, Start, ForkFails, Save, Redirect, Leave, RunBuiltin, Restore, Exec,
           ExecFails, Exit, End
  <1> QED BY <1>1, <1>2, <1>3 DEF Flags

LEMMA PlaceStep == TypeOK /\ [Next]_vars => Place'
  <1> SUFFICES ASSUME TypeOK, Next PROVE Place'
    BY DEF TypeOK, Place, vars, cmd
  <1>0. Place /\ session \in Seq(Command) /\ now \in 1..Len(session) + 1 /\ saved \in Seq(Fd \cup {-1})
    BY TypeParts DEF Types
  <1>1. CASE Start
    <2>1. cmd.kind \in Kind /\ cmd' = cmd
      BY <1>0, <1>1, CommandIs DEF Start, cmd
    <2>2. ~child /\ saved' = <<>> /\ now' <= Len(session')
      BY <1>0, <1>1 DEF Start, Place
    <2>3. CASE cmd.kind \in {"ONLY", "BUILTIN"}
      <3>1. child' = child /\ pc' \in {"REDIRECT", "SAVE"} /\ (pc' = "SAVE" <=> cmd.kind = "BUILTIN")
        BY <1>1, <2>3 DEF Start
      <3>2. Len(saved') = 0
        BY <2>2
      <3> QED BY <2>1, <2>2, <2>3, <3>1, <3>2 DEF Place
    <2>4. CASE cmd.kind \in {"SUBSHELL", "EXTERNAL"}
      <3>1. child' = TRUE
        BY <1>1, <2>4 DEF Start
      <3>2. child'
        BY <3>1
      <3>3. pc' \in {"REDIRECT", "SAVE"} /\ (pc' = "SAVE" <=> cmd.kind = "SUBSHELL")
        BY <1>1, <2>4 DEF Start
      <3>4. Len(saved') = 0
        BY <2>2
      <3> QED BY <2>1, <2>2, <2>4, <3>2, <3>3, <3>4 DEF Place
    <2> QED BY <2>1, <2>3, <2>4 DEF Kind
  <1>2. CASE ForkFails
    BY <1>0, <1>2 DEF ForkFails, Place, Done
  <1>3. CASE Save
    <2>1. Len(saved') = Len(saved) + 1 /\ cmd' = cmd
      BY <1>0, <1>3 DEF Save, cmd
    <2>2. child' = child /\ now' = now /\ session' = session
      BY <1>3 DEF Save
    <2>6. pc' = IF Len(saved) = 2 THEN "REDIRECT" ELSE "SAVE"
      BY <1>3 DEF Save
    <2>3. /\ Len(saved) <= 2 /\ cmd.kind \in {"BUILTIN", "SUBSHELL"} /\ now <= Len(session)
          /\ (child <=> cmd.kind \in {"SUBSHELL", "EXTERNAL"})
      BY <1>0, <1>3 DEF Save, Place
    <2>4. child' <=> cmd'.kind \in {"SUBSHELL", "EXTERNAL"}
      BY <2>1, <2>2, <2>3
    <2>5. (pc' = "SAVE" /\ Len(saved') <= 2) \/ (pc' = "REDIRECT" /\ Len(saved') = 3)
      <3>1. Len(saved) \in Nat
        BY <1>0
      <3>2. CASE Len(saved) = 2
        BY <2>1, <2>6, <3>2
      <3>3. CASE Len(saved) # 2
        <4>1. Len(saved) + 1 <= 2
          <5>1. Len(saved) <= 2
            BY <2>3
          <5> QED BY <3>1, <3>3, <5>1, AtMostTwo
        <4> QED BY <2>1, <2>6, <3>3, <4>1
      <3> QED BY <3>2, <3>3
    <2> QED BY <2>1, <2>2, <2>3, <2>4, <2>5 DEF Place
  <1>4. CASE Redirect
    <2>1. cmd.kind \in Kind /\ cmd' = cmd /\ now' <= Len(session')
      BY <1>0, <1>4, CommandIs DEF Redirect, cmd, Place
    <2>2. \E ok \in BOOLEAN : pc' = AfterRedirects(ok) \/ pc' = "REDIRECT"
      <3>1. CASE at <= Len(cmd.redirs) /\ handleRedirect(cmd.redirs[at])
        <4>1. PICK f \in Table, ok \in BOOLEAN : Becomes(f, ok)
          BY <1>4, <3>1, RedirectSteps DEF Redirect
        <4> QED BY <4>1 DEF Becomes
      <3> QED BY <1>4, <3>1 DEF Redirect
    <2>3. child' = child /\ saved' = saved
      BY <1>4 DEF Redirect
    <2>4. /\ (child <=> cmd.kind \in {"SUBSHELL", "EXTERNAL"})
          /\ Len(saved) = IF cmd.kind \in {"ONLY", "EXTERNAL"} THEN 0 ELSE 3
      BY <1>0, <1>4 DEF Redirect, Place
    <2>5. cmd.kind \in {"ONLY", "EXTERNAL"} => saved = <<>>
      BY <1>0, <2>4
    <2> QED BY <2>1, <2>2, <2>3, <2>4, <2>5 DEF Place, AfterRedirects, Kind
  <1>5. CASE Leave
    <2>1. ~child /\ saved = <<>>
      BY <1>0, <1>5 DEF Leave, Place
    <2> QED BY <1>5, <2>1 DEF Leave, Place, Done
  <1>6. CASE RunBuiltin
    BY <1>0, <1>6 DEF RunBuiltin, Place, cmd
  <1>7. CASE Restore
    <2>1. saved' = <<>>
      BY <1>7 DEF Restore
    <2>2. CASE child /\ pc' = "EXIT" /\ UNCHANGED now
      BY <1>0, <1>7, <2>1, <2>2 DEF Restore, Place, cmd
    <2>3. CASE ~child /\ Done
      BY <1>7, <2>1, <2>3 DEF Restore, Place, Done
    <2> QED BY <1>7, <2>2, <2>3 DEF Restore
  <1>8. CASE Exec
    <2>1. child' = FALSE
      BY <1>8 DEF Exec
    <2>2. ~child' /\ saved' = <<>> /\ pc' = "NEXT"
      BY <1>0, <1>8, <2>1 DEF Exec, Place, Done
    <2> QED BY <2>2 DEF Place
  <1>9. CASE ExecFails
    BY <1>0, <1>9 DEF ExecFails, Place, cmd
  <1>10. CASE Exit
    <2>1. child' = FALSE
      BY <1>10 DEF Exit
    <2>2. ~child' /\ saved' = <<>> /\ pc' = "NEXT"
      BY <1>0, <1>10, <2>1 DEF Exit, Place, Done
    <2> QED BY <2>2 DEF Place
  <1>11. CASE End
    BY <1>0, <1>11 DEF End, Place
  <1> QED BY <1>1, <1>2, <1>3, <1>4, <1>5, <1>6, <1>7, <1>8, <1>9, <1>10, <1>11 DEF Next

\* Every descriptor table is one the kernel can have, and three descriptors are saved exactly
\* while a builtin may use its own, in every session.
THEOREM TypeCorrect == Spec => []TypeOK
  <1>1. TypeOK /\ [Next]_vars => TypeOK'
    <2>1. TypeOK' <=> Types' /\ Flags' /\ Place'
      BY DEF TypeOK, Types, Flags, Place
    <2> QED BY <2>1, TypesStep, FlagsStep, PlaceStep
  <1> QED BY <1>1, TypeInit, PTL DEF Spec

-----------------------------------------------------------------------------
(* The descriptors of the shell.                                             *)

IsCopy(fd) == \E k \in 1..Len(saved) : saved[k] = fd

\* The copies stand where nothing was, and hold what the shell had; besides the standard
\* descriptors and the copies nothing has changed.
CopiesHold ==
    /\ \A k \in 1..Len(saved) : /\ saved[k] \in Fd \ Std
                                /\ home[saved[k]] = Closed
                                /\ fds["shell"][saved[k]] = home[k - 1]
    /\ \A k, l \in 1..Len(saved) : saved[k] = saved[l] => k = l
    /\ \A fd \in Fd \ Std : ~IsCopy(fd) => fds["shell"][fd] = home[fd]
    /\ pc = "SAVE" => \A n \in Std : fds["shell"][n] = home[n]

InBuiltin == ~child /\ cmd.kind = "BUILTIN" /\ pc \in {"SAVE", "REDIRECT", "RUN", "RESTORE"}

Kept ==
    clean =>
        /\ pc \in {"NEXT", "DONE"} \/ child => fds["shell"] = home
        /\ pc \notin {"NEXT", "DONE"} => NamesStd(cmd)
        /\ InBuiltin => AllOpen(home) /\ CopiesHold

\* A standard descriptor that a builtin redirects: only standard ones change, because what
\* handleRedirect opens stands at a free number, which is no copy, and is closed again.
LEMMA BuiltinRedirects ==
    ASSUME TypeOK, clean, InBuiltin, AllOpen(home), CopiesHold, NamesStd(cmd),
           pc = "REDIRECT", at <= Len(cmd.redirs), handleRedirect(cmd.redirs[at])
    PROVE  \A fd \in Fd \ Std : fds'["shell"][fd] = fds["shell"][fd]
  <1> DEFINE r == cmd.redirs[at]
             f == fds["shell"]
             source == getDefaultFD(r)
  <1>1. r \in Redirection /\ f \in Table /\ Me = "shell" /\ "shell" \in Process /\ at \in DOMAIN cmd.redirs
    BY CommandIs DEF TypeOK, Table, InBuiltin, Me, Process
  <1>2. source \in Std /\ (r.op \in {"LESSAND", "GREATAND"} /\ r.to >= 0 => r.to \in Std)
    BY <1>1 DEF NamesStd, Names, Redirection
  <1>3. ASSUME NEW g \in Table, NEW ok, Becomes(g, ok), \A fd \in Fd \ Std : g[fd] = f[fd]
        PROVE  \A fd \in Fd \ Std : fds'["shell"][fd] = f[fd]
    BY <1>1, <1>3 DEF Becomes, TypeOK
  <1> HIDE DEF r, source
  <1>4. CASE r.op = "HEREDOC" /\ Becomes(f, TRUE)
    BY <1>1, <1>3, <1>4
  <1>5. CASE OpenFile(f, r, source)
    <2>1. ASSUME NEW target \in Fd, IsLowest(f, target),
                 Becomes(Redirected([f EXCEPT ![target] = Target(r)], target, source), source \in Fd)
          PROVE  \A fd \in Fd \ Std : fds'["shell"][fd] = f[fd]
      <3> DEFINE g == [f EXCEPT ![target] = Target(r)]
                 h == Dup2(g, target, source)
      <3>1. g \in Table /\ f[target] = Closed
        BY <1>1, <2>1, TargetIs DEF Table, IsLowest
      <3>2. \A fd \in Fd : fd # target => g[fd] = f[fd]
        BY <1>1 DEF Table
      <3> HIDE DEF g
      <3>3. h \in Table /\ \A fd \in Fd \ Std : h[fd] = g[fd]
        BY <1>2, <3>1, Dup2Type, Dup2Is
      <3> HIDE DEF h
      <3>4. CASE target >= 3
        <4>1. Redirected(g, target, source) = Close(h, target) /\ Close(h, target) \in Table
          BY <3>3, <3>4, CloseType DEF Redirected, h
        <4>2. \A fd \in Fd \ Std : Close(h, target)[fd] = f[fd]
          BY <3>1, <3>2, <3>3, CloseIs
        <4> QED BY <1>3, <2>1, <4>1, <4>2 DEF g
      <3>5. CASE ~(target >= 3)
        <4>1. target \in Std
          BY <3>5 DEF Fd, Std
        <4>2. Redirected(g, target, source) = h
          BY <3>5 DEF Redirected, h
        <4> QED BY <1>3, <2>1, <3>2, <3>3, <4>1, <4>2 DEF g
      <3> QED BY <3>4, <3>5
    <2> QED BY <1>1, <1>3, <1>5, <2>1 DEF OpenFile
  <1>6. CASE DupFile(f, r, source) /\ r.op \in {"LESSAND", "GREATAND"}
    <2>1. CASE Becomes(Close(f, source), TRUE)
      <3>1. \A fd \in Fd \ Std : Close(f, source)[fd] = f[fd]
        BY <1>1, <1>2, CloseIs
      <3> QED BY <1>1, <1>3, <2>1, <3>1, CloseType
    <2>2. CASE Becomes(f, FALSE)
      BY <1>1, <1>3, <2>2
    <2>3. CASE r.to >= 0 /\ Becomes(Redirected(f, r.to, source), IsOpen(f, r.to) /\ source \in Fd)
      <3>1. Redirected(f, r.to, source) = Dup2(f, r.to, source)
        BY <1>2, <1>6, <2>3 DEF Redirected, Std
      <3>2. \A fd \in Fd \ Std : Dup2(f, r.to, source)[fd] = f[fd]
        BY <1>1, <1>2, Dup2Is
      <3> QED BY <1>1, <1>3, <2>3, <3>1, <3>2, Dup2Type
    <2> QED BY <1>6, <2>1, <2>2, <2>3 DEF DupFile
  <1> QED BY <1>1, <1>4, <1>5, <1>6 DEF handleRedirect, r, source

\* Putting the three copies back gives the shell its descriptors again.
LEMMA RestoredIs ==
    ASSUME TypeOK, AllOpen(home), CopiesHold, Len(saved) = 3
    PROVE  Restored(fds["shell"]) = home
  <1> DEFINE f == fds["shell"]
             a == Dup2(f, saved[1], 0)
             b == Dup2(a, saved[2], 1)
             c == Dup2(b, saved[3], 2)
             d == Close(c, saved[1])
             e == Close(d, saved[2])
             g == Close(e, saved[3])
  <1>1. f \in Table /\ home \in Table
    BY DEF TypeOK, Table, Process
  <1>2. a \in Table /\ b \in Table /\ c \in Table /\ d \in Table /\ e \in Table /\ g \in Table
    <2>1. a \in Table
      BY <1>1, Dup2Type
    <2> HIDE DEF a
    <2>2. b \in Table
      BY <2>1, Dup2Type
    <2> HIDE DEF b
    <2>3. c \in Table
      BY <2>2, Dup2Type
    <2> HIDE DEF c
    <2>4. d \in Table
      BY <2>3, CloseType
    <2> HIDE DEF d
    <2>5. e \in Table
      BY <2>4, CloseType
    <2> HIDE DEF e
    <2> QED BY <2>1, <2>2, <2>3, <2>4, <2>5, CloseType
  <1>3. /\ saved[1] \in Fd \ Std /\ saved[2] \in Fd \ Std /\ saved[3] \in Fd \ Std
        /\ saved[1] # saved[2] /\ saved[2] # saved[3] /\ saved[1] # saved[3]
        /\ f[saved[1]] = home[0] /\ f[saved[2]] = home[1] /\ f[saved[3]] = home[2]
        /\ home[saved[1]] = Closed /\ home[saved[2]] = Closed /\ home[saved[3]] = Closed
    <2>1. 1 \in 1..Len(saved) /\ 2 \in 1..Len(saved) /\ 3 \in 1..Len(saved)
      OBVIOUS
    <2>2. 1 - 1 = 0 /\ 2 - 1 = 1 /\ 3 - 1 = 2
      OBVIOUS
    <2> QED BY <2>1, <2>2 DEF CopiesHold
  <1>4. home[0] # Closed /\ home[1] # Closed /\ home[2] # Closed
    BY StdIsFd DEF AllOpen
  <1>5. \A fd \in Fd \ Std : fd \notin {saved[1], saved[2], saved[3]} => f[fd] = home[fd]
    <2>1. \A fd : IsCopy(fd) => fd \in {saved[1], saved[2], saved[3]}
      BY DEF IsCopy
    <2> QED BY <2>1 DEF CopiesHold
  <1>6. \A fd \in Fd : (fd # 0 => a[fd] = f[fd]) /\ (fd = 0 => a[fd] = home[0])
    BY <1>1, <1>3, <1>4, Dup2Is, StdIsFd DEF IsOpen
  <1> HIDE DEF a
  <1>7. \A fd \in Fd : (fd # 1 => b[fd] = a[fd]) /\ (fd = 1 => b[fd] = home[1])
    <2>1. IsOpen(a, saved[2]) /\ a[saved[2]] = home[1]
      BY <1>3, <1>4, <1>6, StdIsFd DEF IsOpen
    <2> QED BY <1>2, <2>1, Dup2Is, StdIsFd
  <1> HIDE DEF b
  <1>8. \A fd \in Fd : (fd # 2 => c[fd] = b[fd]) /\ (fd = 2 => c[fd] = home[2])
    <2>1. IsOpen(b, saved[3]) /\ b[saved[3]] = home[2]
      BY <1>3, <1>4, <1>6, <1>7, StdIsFd DEF IsOpen
    <2> QED BY <1>2, <2>1, Dup2Is, StdIsFd
  <1> HIDE DEF c
  <1>9. \A fd \in Fd : d[fd] = IF fd = saved[1] THEN Closed ELSE c[fd]
    BY <1>2, CloseIs
  <1> HIDE DEF d
  <1>10. \A fd \in Fd : e[fd] = IF fd = saved[2] THEN Closed ELSE d[fd]
    BY <1>2, CloseIs
  <1> HIDE DEF e
  <1>11. \A fd \in Fd : g[fd] = IF fd = saved[3] THEN Closed ELSE e[fd]
    BY <1>2, CloseIs
  <1> HIDE DEF g
  <1>12. ASSUME NEW fd \in Fd PROVE g[fd] = home[fd]
    <2>1. CASE fd \in Std
      <3>1. fd \notin {saved[1], saved[2], saved[3]}
        BY <1>3, <2>1
      <3>2. g[fd] = c[fd]
        BY <1>9, <1>10, <1>11, <3>1
      <3>3. fd = 0 \/ fd = 1 \/ fd = 2
        BY <2>1 DEF Std
      <3> QED BY <1>6, <1>7, <1>8, <3>2, <3>3
    <2>2. CASE fd \in {saved[1], saved[2], saved[3]}
      BY <1>3, <1>9, <1>10, <1>11, <2>2
    <2>3. CASE fd \notin Std /\ fd \notin {saved[1], saved[2], saved[3]}
      <3>1. g[fd] = c[fd]
        BY <1>9, <1>10, <1>11, <2>3
      <3>2. fd # 0 /\ fd # 1 /\ fd # 2
        BY <2>3, StdIsFd
      <3> QED BY <1>5, <1>6, <1>7, <1>8, <2>3, <3>1, <3>2
    <2> QED BY <2>1, <2>2, <2>3
  <1>13. g = home
    BY <1>1, <1>2, <1>12 DEF Table
  <1> QED BY <1>13 DEF Restored, a, b, c, d, e, g

LEMMA KeptInit == Init => Kept
  <1> SUFFICES ASSUME Init PROVE Kept
    OBVIOUS
  <1>1. PICK f \in Starts : fds = [p \in Process |-> f] /\ home = f
    BY DEF Init
  <1>2. fds["shell"] = home /\ pc = "NEXT"
    BY <1>1 DEF Init, Process
  <1> QED BY <1>2 DEF Kept, InBuiltin

\* A dup of a builtin: the copy stands where nothing was.
LEMMA SaveKeeps ==
    ASSUME TypeOK, Kept, Save, clean', ~child
    PROVE  CopiesHold'
  <1> DEFINE f == fds["shell"]
             from == Len(saved)
  <1>1. clean /\ Me = "shell" /\ "shell" \in Process /\ f \in Table /\ pc = "SAVE"
    BY DEF Save, Me, Process, TypeOK, Table
  <1>2. InBuiltin /\ AllOpen(home) /\ CopiesHold
    BY <1>1 DEF Kept, InBuiltin, TypeOK
  <1>3. PICK copy \in Fd : /\ IsOpen(f, from) /\ IsLowest(f, copy)
                           /\ fds' = [fds EXCEPT !["shell"][copy] = f[from]]
                           /\ saved' = Append(saved, copy)
    <2>1. ~(clean' = FALSE)
      OBVIOUS
    <2> QED BY <1>1, <2>1 DEF Save
  <1>4. Len(saved) \in 0..2 /\ saved \in Seq(Fd \cup {-1}) /\ Len(saved') = Len(saved) + 1
    <2>1. saved \in Seq(Fd \cup {-1})
      BY DEF TypeOK
    <2>2. Len(saved) <= 2
      BY <1>1 DEF TypeOK
    <2>3. Len(saved) \in Nat
      BY <2>1
    <2>4. Len(saved') = Len(saved) + 1
      BY <1>3, <2>1
    <2>5. Len(saved) \in 0..2
      BY <2>2, <2>3, AtMostTwo
    <2> QED BY <2>1, <2>4, <2>5
  <1>5. /\ saved'[Len(saved) + 1] = copy
        /\ \A k \in 1..Len(saved) : saved'[k] = saved[k]
    BY <1>3, <1>4
  <1>6. home' = home /\ from \in Std /\ f[from] = home[from] /\ f[copy] = Closed
    BY <1>1, <1>2, <1>3, <1>4 DEF Save, Std, CopiesHold, IsLowest
  <1>7. copy \notin Std /\ \A k \in 1..Len(saved) : saved[k] # copy
    <2>1. ASSUME copy \in Std PROVE FALSE
      BY <1>1, <1>2, <1>6, <2>1 DEF CopiesHold, AllOpen
    <2>2. ASSUME NEW k \in 1..Len(saved), saved[k] = copy PROVE FALSE
      <3>1. k - 1 \in Std
        <4>1. Len(saved) \in Nat
          BY <1>4
        <4>2. Len(saved) <= 2
          BY <1>1 DEF TypeOK
        <4>3. k - 1 \in 0..2
          BY <4>1, <4>2, AtMostTwo
        <4> QED BY <4>3 DEF Std
      <3> QED BY <1>2, <1>6, <2>2, <3>1 DEF CopiesHold, AllOpen
    <2> QED BY <2>1, <2>2
  <1>8. home[copy] = Closed
    BY <1>2, <1>6, <1>7 DEF CopiesHold, IsCopy
  <1>9. \A fd \in Fd : fds'["shell"][fd] = IF fd = copy THEN home[from] ELSE f[fd]
    BY <1>1, <1>3, <1>6 DEF TypeOK
  <1>10. ASSUME NEW k \in 1..Len(saved')
         PROVE  /\ saved'[k] \in Fd \ Std /\ home'[saved'[k]] = Closed
                /\ fds'["shell"][saved'[k]] = home'[k - 1]
    <2>1. CASE k \in 1..Len(saved)
      BY <1>2, <1>5, <1>6, <1>7, <1>9, <2>1 DEF CopiesHold
    <2>2. CASE k = Len(saved) + 1
      <3>1. k - 1 = from
        BY <1>4, <2>2
      <3> QED BY <1>5, <1>6, <1>7, <1>8, <1>9, <2>2, <3>1
    <2> QED BY <1>4, <2>1, <2>2
  <1>11. ASSUME NEW k \in 1..Len(saved'), NEW l \in 1..Len(saved'), saved'[k] = saved'[l]
         PROVE  k = l
    <2>1. (k \in 1..Len(saved) \/ k = Len(saved) + 1) /\ (l \in 1..Len(saved) \/ l = Len(saved) + 1)
      BY <1>4
    <2> QED BY <1>2, <1>5, <1>7, <1>11, <2>1 DEF CopiesHold
  <1>12. ASSUME NEW fd \in Fd \ Std, ~IsCopy(fd)'
         PROVE  fds'["shell"][fd] = home'[fd]
    <2>1. fd # copy /\ ~IsCopy(fd)
      BY <1>4, <1>5, <1>12 DEF IsCopy
    <2> QED BY <1>2, <1>6, <1>9, <2>1 DEF CopiesHold
  <1>13. \A n \in Std : fds'["shell"][n] = home'[n]
    BY <1>1, <1>2, <1>6, <1>7, <1>9, StdIsFd DEF CopiesHold
  <1> QED BY <1>10, <1>11, <1>12, <1>13 DEF CopiesHold

LEMMA KeptStep == TypeOK /\ Kept /\ [Next]_vars => Kept'
  <1> SUFFICES ASSUME TypeOK, Kept, [Next]_vars, clean' PROVE Kept'
    BY DEF Kept
  <1>1. CASE UNCHANGED vars
    BY <1>1 DEF Kept, InBuiltin, CopiesHold, IsCopy, vars, cmd
  <1>2. CASE Start
    <2>1. clean /\ NamesStd(cmd) /\ (cmd.kind = "BUILTIN" => AllOpen(fds["shell"]))
      BY <1>2 DEF Start
    <2>2. /\ cmd' = cmd /\ fds["shell"] = home /\ home' = home /\ fds'["shell"] = fds["shell"]
          /\ saved = <<>> /\ saved' = <<>>
      BY <1>2, <2>1 DEF Start, cmd, Kept, TypeOK, Process
    <2>3. CopiesHold'
      BY <2>2 DEF CopiesHold, IsCopy
    <2>4. pc' \notin {"NEXT", "DONE"}
      BY <1>2 DEF Start
    <2> QED BY <2>1, <2>2, <2>3, <2>4 DEF Kept, InBuiltin
  <1>3. CASE ForkFails
    BY <1>3 DEF ForkFails, Done, Kept, InBuiltin
  <1>4. CASE Save
    <2>1. clean /\ cmd' = cmd /\ home' = home /\ pc' \in {"SAVE", "REDIRECT"} /\ child' = child /\ NamesStd(cmd)
      BY <1>4 DEF Save, Kept, cmd
    <2>2. CASE child
      <3>1. fds'["shell"] = fds["shell"]
        BY <1>4, <2>2 DEF Save, Me, TypeOK, Process
      <3> QED BY <2>1, <2>2, <3>1 DEF Kept, InBuiltin
    <2>3. CASE ~child
      <3>1. InBuiltin /\ AllOpen(home)
        BY <1>4, <2>1, <2>3 DEF Save, Kept, InBuiltin, TypeOK
      <3>2. ~child'
        BY <2>1, <2>3
      <3>3. CopiesHold'
        BY <1>4, <2>3, SaveKeeps
      <3> QED BY <2>1, <3>1, <3>2, <3>3 DEF Kept
    <2> QED BY <2>2, <2>3
  <1>5. CASE Redirect
    <2>1. /\ clean /\ cmd' = cmd /\ home' = home /\ child' = child /\ saved' = saved /\ NamesStd(cmd)
          /\ cmd.kind \in Kind
      BY <1>5, CommandIs DEF Redirect, Kept, cmd, TypeOK
    <2>2. pc' \notin {"SAVE", "NEXT", "DONE"}
      <3>1. CASE at <= Len(cmd.redirs) /\ handleRedirect(cmd.redirs[at])
        <4>1. PICK f \in Table, ok \in BOOLEAN : Becomes(f, ok)
          BY <1>5, <3>1, RedirectSteps DEF Redirect
        <4> QED BY <4>1 DEF Becomes, AfterRedirects
      <3> QED BY <1>5, <3>1 DEF Redirect, AfterRedirects
    <2>3. CASE child
      <3>1. fds'["shell"] = fds["shell"]
        <4>1. CASE at <= Len(cmd.redirs) /\ handleRedirect(cmd.redirs[at])
          <5>1. PICK f \in Table, ok \in BOOLEAN : Becomes(f, ok)
            BY <1>5, <4>1, RedirectSteps DEF Redirect
          <5> QED BY <2>3, <5>1 DEF Becomes, Me, TypeOK, Process
        <4> QED BY <1>5, <4>1 DEF Redirect
      <3> QED BY <2>1, <2>2, <2>3, <3>1 DEF Kept, InBuiltin
    <2>4. CASE ~child /\ cmd.kind = "BUILTIN"
      <3>1. InBuiltin /\ AllOpen(home) /\ CopiesHold /\ pc = "REDIRECT"
        BY <1>5, <2>1, <2>4 DEF Redirect, Kept, InBuiltin
      <3>2. \A fd \in Fd \ Std : fds'["shell"][fd] = fds["shell"][fd]
        <4>1. CASE at <= Len(cmd.redirs) /\ handleRedirect(cmd.redirs[at])
          BY <2>1, <3>1, <4>1, BuiltinRedirects
        <4> QED BY <1>5, <4>1 DEF Redirect
      <3>3. CopiesHold'
        <4>1. \A fd : IsCopy(fd)' <=> IsCopy(fd)
          BY <2>1 DEF IsCopy
        <4> QED BY <2>1, <2>2, <3>1, <3>2, <4>1 DEF CopiesHold
      <3>4. ~child'
        BY <2>1, <2>4
      <3> QED BY <2>1, <2>2, <3>1, <3>3, <3>4 DEF Kept
    <2>5. CASE ~child /\ cmd.kind # "BUILTIN"
      <3>1. ~child'
        BY <2>1, <2>5
      <3> QED BY <2>1, <2>2, <2>5, <3>1 DEF Kept, InBuiltin
    <2> QED BY <2>3, <2>4, <2>5
  <1>6. CASE Leave
    <2>1. home' = fds'["shell"] /\ pc' = "NEXT"
      BY <1>6 DEF Leave, Done
    <2> QED BY <2>1 DEF Kept, InBuiltin
  <1>7. CASE RunBuiltin
    <2>1. /\ clean /\ cmd' = cmd /\ home' = home /\ child' = child /\ saved' = saved /\ fds' = fds
          /\ pc = "RUN" /\ pc' = "RESTORE"
      BY <1>7 DEF RunBuiltin, cmd
    <2>2. InBuiltin' <=> InBuiltin
      BY <2>1 DEF InBuiltin
    <2>3. CopiesHold => CopiesHold'
      BY <2>1 DEF CopiesHold, IsCopy
    <2> QED BY <2>1, <2>2, <2>3 DEF Kept
  <1>8. CASE Restore
    <2>1. /\ clean /\ home' = home /\ child' = child /\ session' = session /\ NamesStd(cmd)
          /\ Me \in Process /\ pc = "RESTORE"
      BY <1>8, MeIsProcess DEF Restore, Kept, TypeOK
    <2>2. CASE child
      <3>1. fds'["shell"] = home /\ pc' = "EXIT" /\ now' = now
        BY <1>8, <2>1, <2>2 DEF Restore, Me, TypeOK, Process, Kept
      <3> QED BY <2>1, <2>2, <3>1 DEF Kept, InBuiltin, cmd
    <2>3. CASE ~child
      <3>1. InBuiltin /\ AllOpen(home) /\ CopiesHold /\ Len(saved) = 3
        BY <2>1, <2>3 DEF TypeOK, InBuiltin, Kept
      <3>2. fds'["shell"] = Restored(fds["shell"]) /\ pc' = "NEXT"
        BY <1>8, <2>1, <2>3 DEF Restore, Me, TypeOK, Process, Done
      <3> QED BY <2>1, <3>1, <3>2, RestoredIs DEF Kept, InBuiltin
    <2> QED BY <2>2, <2>3
  <1>9. CASE Exec
    <2>1. child /\ fds' = fds /\ home' = home /\ clean /\ pc' = "NEXT"
      BY <1>9 DEF Exec, TypeOK, Done
    <2> QED BY <2>1 DEF Kept, InBuiltin
  <1>10. CASE ExecFails
    <2>1. child /\ fds' = fds /\ home' = home /\ clean /\ pc' = "EXIT" /\ cmd' = cmd /\ child' = child /\ NamesStd(cmd)
      BY <1>10 DEF ExecFails, TypeOK, cmd, Kept
    <2> QED BY <2>1 DEF Kept, InBuiltin
  <1>11. CASE Exit
    <2>1. child /\ fds' = fds /\ home' = home /\ clean /\ pc' = "NEXT"
      BY <1>11 DEF Exit, TypeOK, Done
    <2> QED BY <2>1 DEF Kept, InBuiltin
  <1>12. CASE End
    <2>1. pc = "NEXT" /\ fds' = fds /\ home' = home /\ clean /\ pc' = "DONE"
      BY <1>12 DEF End
    <2> QED BY <2>1 DEF Kept, InBuiltin
  <1> QED BY <1>1, <1>2, <1>3, <1>4, <1>5, <1>6, <1>7, <1>8, <1>9, <1>10, <1>11, <1>12 DEF Next

\* A command leaves the shell with the descriptors it had, for every list of redirections of the
\* standard descriptors and every failure among them.
THEOREM ShellKeepsDescriptors == Spec => []FdsRestored
  <1>1. TypeOK /\ Kept /\ [Next]_vars => Kept'
    BY KeptStep
  <1>2. Kept => FdsRestored
    BY DEF Kept, FdsRestored
  <1> QED BY <1>1, <1>2, KeptInit, TypeCorrect, PTL DEF Spec

-----------------------------------------------------------------------------
(* What the redirections of a command mean, one after the other.             *)

\* A set of numbers has a smallest one.
LEMMA Smallest ==
    ASSUME NEW S \in SUBSET Nat, NEW n \in S
    PROVE  \E m \in S : \A k \in S : m <= k
  <1> DEFINE T == {0..m : m \in S}
  <1>1. T \subseteq FiniteSubsetsOf(Nat) /\ T # {}
    <2>1. \A m \in S : 0..m \in SUBSET Nat /\ IsFiniteSet(0..m)
      <3> SUFFICES ASSUME NEW m \in S PROVE 0..m \in SUBSET Nat /\ IsFiniteSet(0..m)
        OBVIOUS
      <3>1. 0 \in Int /\ m \in Int
        OBVIOUS
      <3> QED BY <3>1, FS_Interval
    <2> QED BY <2>1 DEF FiniteSubsetsOf
  <1>2. PICK x \in T : \A y \in T : ~(<<y, x>> \in StrictSubsetOrdering(Nat))
    <2>1. IsWellFoundedOn(StrictSubsetOrdering(Nat), FiniteSubsetsOf(Nat))
      BY FS_StrictSubsetOrderingWellFounded
    <2> HIDE DEF T
    <2> QED BY <1>1, <2>1, WFMin
  <1>3. PICK m \in S : x = 0..m
    BY <1>2
  <1>4. ASSUME NEW k \in S, k < m PROVE FALSE
    <2>1. 0..k \in T /\ 0..k \subseteq Nat /\ 0..m \subseteq Nat
      OBVIOUS
    <2>2. 0..k \subseteq 0..m /\ m \in 0..m /\ m \notin 0..k
      BY <1>4
    <2> QED BY <1>2, <1>3, <2>1, <2>2 DEF StrictSubsetOrdering
  <1> QED BY <1>4

LEMMA EffectType ==
    ASSUME NEW r \in Redirection, NEW f \in Table
    PROVE  Effect(r, f) \in Table
  BY TargetIs, ClosedIs DEF Effect, Table

\* f and what the first n redirections make of it.
Course(rs, f, n) ==
    {g \in [0..n -> Table] : g[0] = f /\ \A k \in 1..n : g[k] = Effect(rs[k], g[k - 1])}

LEMMA CourseExists ==
    ASSUME NEW rs \in Seq(Redirection), NEW f \in Table
    PROVE  \A n \in 0..Len(rs) : Course(rs, f, n) # {}
  <1> DEFINE S == {n \in 0..Len(rs) : Course(rs, f, n) = {}}
  <1>1. SUFFICES ASSUME NEW z \in S PROVE FALSE
    OBVIOUS
  <1>2. PICK n \in S : \A k \in S : n <= k
    <2>1. S \in SUBSET Nat
      OBVIOUS
    <2> HIDE DEF S
    <2> QED BY <1>1, <2>1, Smallest
  <1>3. n # 0
    <2> DEFINE g == [k \in 0..0 |-> f]
    <2>1. g \in Course(rs, f, 0)
      BY DEF Course
    <2> QED BY <2>1
  <1>4. n - 1 \in 0..Len(rs) /\ n \in 1..Len(rs) /\ ~(n <= n - 1)
    BY <1>3
  <1>5. PICK g : g \in Course(rs, f, n - 1)
    BY <1>2, <1>4
  <1> DEFINE h == [k \in 0..n |-> IF k = n THEN Effect(rs[n], g[n - 1]) ELSE g[k]]
  <1>6. g \in [0..(n - 1) -> Table] /\ g[0] = f /\ \A k \in 1..(n - 1) : g[k] = Effect(rs[k], g[k - 1])
    BY <1>5 DEF Course
  <1>7. rs[n] \in Redirection
    BY <1>4
  <1>8. h \in [0..n -> Table]
    <2>1. Effect(rs[n], g[n - 1]) \in Table
      BY <1>4, <1>6, <1>7, EffectType
    <2>2. ASSUME NEW k \in 0..n, k # n PROVE g[k] \in Table
      BY <1>4, <1>6, <2>2
    <2> QED BY <2>1, <2>2
  <1>9. h[0] = f
    BY <1>4, <1>6
  <1>10. ASSUME NEW k \in 1..n PROVE h[k] = Effect(rs[k], h[k - 1])
    <2>1. CASE k = n
      BY <1>4, <2>1
    <2>2. CASE k # n
      BY <1>4, <1>6, <2>2
    <2> QED BY <2>1, <2>2
  <1>11. h \in Course(rs, f, n)
    <2> HIDE DEF h
    <2> QED BY <1>8, <1>9, <1>10 DEF Course
  <1> QED BY <1>11

LEMMA MeantIs ==
    ASSUME NEW rs \in Seq(Redirection), NEW f \in Table
    PROVE  /\ Meant(rs, f, 0) = f
           /\ \A n \in 1..Len(rs) : Meant(rs, f, n) = Effect(rs[n], Meant(rs, f, n - 1))
           /\ \A n \in 0..Len(rs) : Meant(rs, f, n) \in Table
  <1> DEFINE body(g) == [k \in 0..Len(rs) |-> IF k = 0 THEN f ELSE Effect(rs[k], g[k - 1])]
             after == CHOOSE g : g = body(g)
  <1>1. Len(rs) \in Nat
    OBVIOUS
  <1>2. \A n : Meant(rs, f, n) = after[n]
    BY DEF Meant
  <1>3. PICK g : g \in Course(rs, f, Len(rs))
    BY <1>1, CourseExists
  <1>4. /\ g \in [0..Len(rs) -> Table] /\ g[0] = f
        /\ \A k \in 1..Len(rs) : g[k] = Effect(rs[k], g[k - 1])
    BY <1>3 DEF Course
  <1>5. g = body(g)
    BY <1>1, <1>4
  <1>6. after = body(after)
    BY <1>5
  <1> HIDE DEF after
  <1> DEFINE S == {n \in 0..Len(rs) : after[n] \notin Table}
  <1>7. after[0] = f
    BY <1>1, <1>6
  <1>8. ASSUME NEW n \in 1..Len(rs) PROVE after[n] = Effect(rs[n], after[n - 1])
    BY <1>6
  <1>9. \A n \in 0..Len(rs) : after[n] \in Table
    <2>1. SUFFICES ASSUME NEW z \in S PROVE FALSE
      OBVIOUS
    <2>2. PICK n \in S : \A k \in S : n <= k
      <3>1. S \in SUBSET Nat
        OBVIOUS
      <3> HIDE DEF S
      <3> QED BY <2>1, <3>1, Smallest
    <2>3. n # 0
      BY <1>7
    <2>4. n - 1 \in 0..Len(rs) /\ n \in 1..Len(rs) /\ ~(n <= n - 1)
      BY <2>3
    <2>5. after[n - 1] \in Table /\ rs[n] \in Redirection
      BY <2>2, <2>4
    <2> QED BY <1>8, <2>4, <2>5, EffectType
  <1> QED BY <1>2, <1>7, <1>8, <1>9

-----------------------------------------------------------------------------
(* A redirection that succeeds does what it means.                           *)

\* The standard descriptors are open and refer to the same.
Alike(f, g) == \A n \in Std : f[n] = g[n] /\ f[n] # Closed

\* The lowest free number is no standard one when those are open; the new descriptor is
\* copied to the source and closed.
LEMMA OpenMeans ==
    ASSUME NEW f \in Table, NEW g \in Table, Alike(f, g),
           NEW r \in Redirection, r.op \in {"LESS", "GREAT", "LESSGREAT"}, getDefaultFD(r) \in Std,
           NEW target \in Fd, IsLowest(f, target)
    PROVE  Alike(Redirected([f EXCEPT ![target] = Target(r)], target, getDefaultFD(r)), Effect(r, g))
  <1> DEFINE source == getDefaultFD(r)
             a == [f EXCEPT ![target] = Target(r)]
             b == Dup2(a, target, source)
             c == Close(b, target)
  <1>1. Target(r) \in Description /\ Target(r) # Closed
    <2>1. r.file \in File /\ r.file # Nowhere
      BY DEF Redirection
    <2>2. Target(r).file = r.file /\ Closed.file = Nowhere
      BY DEF Target, Opened, Closed
    <2> QED BY <2>1, <2>2, TargetIs
  <1>2. target \notin Std /\ target >= 3
    BY DEF IsLowest, Alike, Std, Fd
  <1>3. Redirected(a, target, source) = c
    BY <1>2 DEF Redirected
  <1>4. a \in Table /\ a[target] = Target(r) /\ \A n \in Std : a[n] = f[n]
    BY <1>1, <1>2 DEF Table
  <1> HIDE DEF a
  <1>5. b \in Table /\ \A n \in Std : b[n] = IF n = source THEN Target(r) ELSE f[n]
    <2>1. IsOpen(a, target)
      BY <1>1, <1>4 DEF IsOpen
    <2> QED BY <1>4, <2>1, Dup2Type, Dup2Is, StdIsFd
  <1> HIDE DEF b
  <1>6. \A n \in Std : c[n] = IF n = source THEN Target(r) ELSE f[n]
    BY <1>2, <1>5, CloseIs, StdIsFd
  <1>7. Effect(r, g) = [g EXCEPT ![source] = Target(r)]
    BY DEF Effect
  <1>8. \A n \in Std : Effect(r, g)[n] = IF n = source THEN Target(r) ELSE g[n]
    BY <1>7, StdIsFd DEF Table
  <1> HIDE DEF c, source
  <1>9. Alike(c, Effect(r, g))
    BY <1>1, <1>6, <1>8 DEF Alike
  <1> QED BY <1>3, <1>9 DEF a, source

LEMMA DupMeans ==
    ASSUME NEW f \in Table, NEW g \in Table, Alike(f, g),
           NEW r \in Redirection, r.op \in {"LESSAND", "GREATAND"}, getDefaultFD(r) \in Std, r.to \in Std
    PROVE  Alike(Redirected(f, r.to, getDefaultFD(r)), Effect(r, g))
  <1> DEFINE source == getDefaultFD(r)
  <1>1. Redirected(f, r.to, source) = Dup2(f, r.to, source)
    BY DEF Redirected, Std
  <1>2. IsOpen(f, r.to)
    BY StdIsFd DEF Alike, IsOpen
  <1>3. \A n \in Std : Dup2(f, r.to, source)[n] = IF n = source THEN f[r.to] ELSE f[n]
    BY <1>2, Dup2Is, StdIsFd
  <1>4. r.to \in Fd /\ r.to # -1 /\ r.op # "HEREDOC"
    <2>1. r.to \in Fd /\ r.to # -1
      BY StdIsFd DEF Std
    <2> QED BY <2>1
  <1>5. Effect(r, g) = [g EXCEPT ![source] = g[r.to]]
    BY <1>4 DEF Effect
  <1>6. \A n \in Std : Effect(r, g)[n] = IF n = source THEN g[r.to] ELSE g[n]
    BY <1>5, StdIsFd DEF Table
  <1> HIDE DEF source
  <1>7. Alike(Dup2(f, r.to, source), Effect(r, g))
    BY <1>3, <1>6 DEF Alike
  <1> QED BY <1>1, <1>7 DEF source

\* The same of handleRedirect: it goes on only when it did what the redirection means.
LEMMA RedirectMeans ==
    ASSUME TypeOK, NEW r \in Redirection, Names(r) \subseteq Std, ~Closes(r), pc = "REDIRECT",
           now <= Len(session), cmd.kind # "ONLY",
           NEW g \in Table, Alike(fds[Me], g), handleRedirect(r), pc' \in {"REDIRECT", "RUN", "EXEC"}
    PROVE  pc' = "REDIRECT" /\ \E f \in Table : fds' = [fds EXCEPT ![Me] = f] /\ Alike(f, Effect(r, g))
  <1>1. fds[Me] \in Table /\ getDefaultFD(r) \in Std /\ getDefaultFD(r) \in Fd
    BY MeIsProcess, StdIsFd DEF TypeOK, Table, Names
  <1>2. AfterRedirects(FALSE) \notin {"REDIRECT", "RUN", "EXEC"}
    BY DEF AfterRedirects
  <1>3. ASSUME NEW f, NEW ok, Becomes(f, ok)
        PROVE  pc' = "REDIRECT" /\ ok /\ fds' = [fds EXCEPT ![Me] = f]
    <2>1. ok
      BY <1>2, <1>3 DEF Becomes
    <2> QED BY <1>3, <2>1 DEF Becomes
  <1>4. CASE r.op = "HEREDOC" /\ Becomes(fds[Me], TRUE)
    <2>1. Effect(r, g) = g
      BY <1>4 DEF Effect
    <2> QED BY <1>1, <1>3, <1>4, <2>1
  <1>5. CASE r.op \in {"LESS", "GREAT", "LESSGREAT"} /\ OpenFile(fds[Me], r, getDefaultFD(r))
    <2>1. ~Becomes(fds[Me], FALSE)
      BY <1>3
    <2>2. PICK target \in Fd :
              /\ IsLowest(fds[Me], target)
              /\ Becomes(Redirected([fds[Me] EXCEPT ![target] = Target(r)], target, getDefaultFD(r)),
                         getDefaultFD(r) \in Fd)
      BY <1>5, <2>1 DEF OpenFile
    <2> DEFINE f == Redirected([fds[Me] EXCEPT ![target] = Target(r)], target, getDefaultFD(r))
    <2>3. f \in Table
      <3>1. [fds[Me] EXCEPT ![target] = Target(r)] \in Table
        BY <1>1, TargetIs DEF Table
      <3> QED BY <3>1, RedirectedType
    <2>4. Alike(f, Effect(r, g))
      BY <1>1, <1>5, <2>2, OpenMeans
    <2>5. pc' = "REDIRECT" /\ fds' = [fds EXCEPT ![Me] = f]
      BY <1>3, <2>2
    <2> HIDE DEF f
    <2> QED BY <2>3, <2>4, <2>5
  <1>6. CASE r.op \in {"LESSAND", "GREATAND"} /\ DupFile(fds[Me], r, getDefaultFD(r))
    <2>1. r.to # -1 /\ ~Becomes(fds[Me], FALSE)
      BY <1>3, <1>6 DEF Closes
    <2>2. r.to >= 0 /\ Becomes(Redirected(fds[Me], r.to, getDefaultFD(r)),
                              IsOpen(fds[Me], r.to) /\ getDefaultFD(r) \in Fd)
      BY <1>6, <2>1 DEF DupFile
    <2>3. r.to \in Std
      BY <1>6, <2>2 DEF Names, Redirection
    <2> DEFINE f == Redirected(fds[Me], r.to, getDefaultFD(r))
    <2>4. f \in Table
      BY <1>1, RedirectedType
    <2>5. Alike(f, Effect(r, g))
      BY <1>1, <1>6, <2>3, DupMeans
    <2>6. pc' = "REDIRECT" /\ fds' = [fds EXCEPT ![Me] = f]
      BY <1>3, <2>2
    <2> HIDE DEF f
    <2> QED BY <2>4, <2>5, <2>6
  <1> QED BY <1>4, <1>5, <1>6 DEF handleRedirect

-----------------------------------------------------------------------------
(* A command runs with the descriptors that its redirections mean.           *)

Going == {"SAVE", "REDIRECT", "RUN", "EXEC"}

\* What the redirections before the one at hand mean is what the process has.
Follows ==
    clean /\ AllOpen(home) /\ pc \in Going /\ StaysOpen(cmd) /\ cmd.kind # "ONLY" =>
        /\ at \in 1..Len(cmd.redirs) + 1
        /\ pc = "SAVE" => at = 1
        /\ pc \in {"RUN", "EXEC"} => at = Len(cmd.redirs) + 1
        /\ Alike(fds[Me], Meant(cmd.redirs, home, at - 1))

LEMMA FollowsInit == Init => Follows
  BY DEF Init, Follows, Going

LEMMA FollowsStep == TypeOK /\ Kept /\ Follows /\ [Next]_vars => Follows'
  <1> SUFFICES ASSUME TypeOK, Kept, Follows, [Next]_vars,
                      clean', AllOpen(home'), pc' \in Going, StaysOpen(cmd'), cmd'.kind # "ONLY"
               PROVE  /\ at' \in 1..Len(cmd'.redirs) + 1
                      /\ pc' = "SAVE" => at' = 1
                      /\ pc' \in {"RUN", "EXEC"} => at' = Len(cmd'.redirs) + 1
                      /\ Alike(fds'[Me'], Meant(cmd'.redirs, home', at' - 1))
    BY DEF Follows
  <1>1. CASE UNCHANGED vars
    <2>1. clean' = clean /\ home' = home /\ pc' = pc /\ cmd' = cmd /\ at' = at /\ fds' = fds /\ Me' = Me
      BY <1>1 DEF vars, cmd, Me
    <2> QED BY <2>1 DEF Follows
  <1>2. CASE Start
    <2>1. clean /\ cmd' = cmd /\ home' = home /\ at' = 1 /\ pc' \in {"SAVE", "REDIRECT"}
      BY <1>2 DEF Start, cmd
    <2>2. fds["shell"] = home /\ ~child /\ "shell" \in Process /\ "child" \in Process
      BY <1>2, <2>1 DEF Start, Kept, TypeOK, Process
    <2>3. fds'[Me'] = home
      <3>1. CASE cmd.kind = "BUILTIN"
        BY <1>2, <2>2, <3>1 DEF Start, Me
      <3>2. CASE cmd.kind \in {"SUBSHELL", "EXTERNAL"}
        <4>1. child' = TRUE /\ fds' = [fds EXCEPT !["child"] = fds["shell"]]
          BY <1>2, <3>2 DEF Start
        <4>2. Me' = "child"
          BY <4>1 DEF Me
        <4> QED BY <2>2, <4>1, <4>2 DEF TypeOK
      <3> QED BY <1>2, <2>1, <3>1, <3>2 DEF Start
    <2>4. cmd.redirs \in Seq(Redirection) /\ home \in Table
      BY <1>2, CommandIs DEF Start, TypeOK, Table
    <2>5. Meant(cmd.redirs, home, 0) = home /\ Len(cmd.redirs) \in Nat
      BY <2>4, MeantIs
    <2>6. Alike(home, Meant(cmd.redirs, home, 0))
      BY <2>1, <2>5 DEF Alike, AllOpen
    <2> QED BY <2>1, <2>3, <2>5, <2>6
  <1>3. CASE Save
    <2>1. /\ cmd' = cmd /\ home' = home /\ at' = at /\ Me' = Me /\ pc = "SAVE" /\ pc' \in {"SAVE", "REDIRECT"}
      BY <1>3 DEF Save, cmd, Me
    <2>2. clean /\ \E copy \in Fd : /\ IsLowest(fds[Me], copy) /\ IsOpen(fds[Me], Len(saved))
                                    /\ fds' = [fds EXCEPT ![Me][copy] = fds[Me][Len(saved)]]
      <3>1. ~(clean' = FALSE)
        OBVIOUS
      <3> QED BY <1>3, <3>1 DEF Save
    <2>3. at \in 1..Len(cmd.redirs) + 1 /\ at = 1 /\ Alike(fds[Me], Meant(cmd.redirs, home, at - 1))
      BY <2>1, <2>2 DEF Follows, Going
    <2>4. PICK copy \in Fd : /\ IsLowest(fds[Me], copy)
                             /\ fds' = [fds EXCEPT ![Me][copy] = fds[Me][Len(saved)]]
      BY <2>2
    <2>5. copy \notin Std
      BY <2>3, <2>4 DEF IsLowest, Alike
    <2>6. \A n \in Std : fds'[Me][n] = fds[Me][n]
      <3>1. Me \in Process /\ fds[Me] \in Table
        BY MeIsProcess DEF TypeOK, Table
      <3>2. fds'[Me] = [fds[Me] EXCEPT ![copy] = fds[Me][Len(saved)]]
        BY <2>4, <3>1 DEF TypeOK
      <3> QED BY <2>5, <3>1, <3>2, StdIsFd DEF Table
    <2>7. Alike(fds'[Me], Meant(cmd.redirs, home, at - 1))
      BY <2>3, <2>6 DEF Alike
    <2> QED BY <2>1, <2>3, <2>7
  <1>4. CASE Redirect
    <2>1. /\ cmd' = cmd /\ home' = home /\ Me' = Me /\ pc = "REDIRECT" /\ clean
      BY <1>4 DEF Redirect, cmd, Me
    <2>2. at \in 1..Len(cmd.redirs) + 1 /\ Alike(fds[Me], Meant(cmd.redirs, home, at - 1))
      BY <2>1 DEF Follows, Going
    <2>3. /\ cmd.redirs \in Seq(Redirection) /\ home \in Table /\ now <= Len(session)
          /\ Len(cmd.redirs) \in Nat /\ Me \in Process
      BY <2>1, CommandIs, MeIsProcess DEF TypeOK, Table
    <2>4. CASE at <= Len(cmd.redirs) /\ handleRedirect(cmd.redirs[at]) /\ at' = at + 1
      <3> DEFINE r == cmd.redirs[at]
                 g == Meant(cmd.redirs, home, at - 1)
      <3>1. at \in 1..Len(cmd.redirs) /\ at - 1 \in 0..Len(cmd.redirs)
        BY <2>2, <2>3, <2>4
      <3>2. g \in Table /\ Meant(cmd.redirs, home, at) = Effect(r, g)
        BY <2>3, <3>1, MeantIs
      <3>3. r \in Redirection /\ Names(r) \subseteq Std /\ ~Closes(r)
        BY <2>1, <2>3, <3>1 DEF Kept, NamesStd, StaysOpen
      <3>4. handleRedirect(r) /\ Alike(fds[Me], g) /\ cmd.kind # "ONLY"
        BY <2>1, <2>2, <2>4
      <3>5. pc' \in {"REDIRECT", "RUN", "EXEC"}
        <4>1. PICK f \in Table, ok \in BOOLEAN : Becomes(f, ok)
          BY <1>4, <2>4, RedirectSteps DEF Redirect
        <4>2. pc' # "SAVE"
          BY <4>1 DEF Becomes, AfterRedirects
        <4> QED BY <4>2 DEF Going
      <3>6. pc' = "REDIRECT" /\ \E f \in Table : fds' = [fds EXCEPT ![Me] = f] /\ Alike(f, Effect(r, g))
        <4> HIDE DEF r, g
        <4> QED BY <2>1, <2>3, <3>2, <3>3, <3>4, <3>5, RedirectMeans
      <3>7. Alike(fds'[Me], Effect(r, g))
        BY <2>3, <3>6 DEF TypeOK
      <3>8. at' \in 1..Len(cmd.redirs) + 1 /\ at' - 1 = at
        BY <2>3, <2>4, <3>1
      <3> QED BY <2>1, <3>2, <3>6, <3>7, <3>8
    <2>5. CASE at > Len(cmd.redirs) /\ pc' = AfterRedirects(TRUE) /\ UNCHANGED <<fds, at>>
      <3>1. at = Len(cmd.redirs) + 1
        BY <2>2, <2>3, <2>5
      <3>2. pc' # "SAVE"
        BY <2>5 DEF AfterRedirects
      <3> QED BY <2>1, <2>2, <2>5, <3>1, <3>2
    <2> QED BY <1>4, <2>4, <2>5 DEF Redirect
  <1>5. CASE Leave \/ ForkFails \/ RunBuiltin \/ Restore \/ Exec \/ ExecFails \/ Exit \/ End
    BY <1>5 DEF Leave, ForkFails, RunBuiltin, Restore, Exec, ExecFails, Exit, End, Done, Going
  <1> QED BY <1>1, <1>2, <1>3, <1>4, <1>5 DEF Next

\* A builtin or a program runs with the standard descriptors that its redirections mean, one
\* after the other, for every list of them.
THEOREM CommandsRunRedirected == Spec => []RunsRedirected
  <1>1. TypeOK /\ Kept /\ [Next]_vars => Kept'
    BY KeptStep
  <1>2. TypeOK /\ Kept /\ Follows /\ [Next]_vars => Follows'
    BY FollowsStep
  <1>3. TypeOK /\ Follows => RunsRedirected
    <2> SUFFICES ASSUME TypeOK, Follows, clean, pc \in {"RUN", "EXEC"}, AllOpen(home), StaysOpen(cmd)
                 PROVE  \A n \in Std : fds[Me][n] = Meant(cmd.redirs, home, Len(cmd.redirs))[n]
      BY DEF RunsRedirected
    <2>1. cmd.kind # "ONLY" /\ pc \in Going
      BY DEF TypeOK, Going
    <2>2. Len(cmd.redirs) \in Nat
      BY CommandIs DEF TypeOK
    <2>3. at - 1 = Len(cmd.redirs)
      BY <2>1, <2>2 DEF Follows
    <2> QED BY <2>1, <2>3 DEF Follows, Alike
  <1> QED BY <1>1, <1>2, <1>3, KeptInit, FollowsInit, TypeCorrect, PTL DEF Spec

-----------------------------------------------------------------------------
(* The output of a session at the terminal.                                  *)

Log == [File \cup {Terminal, Nowhere} -> Seq(Item)]

Emptied == [mode |-> "LINE", buff |-> <<>>]

AtTerminal == prompted /\ clean /\ AllStayOpen

\* The buffers are line buffered and empty, also the one that a child is given; the shell keeps
\* its standard descriptors, which only a redirection without a command can change.
Intact ==
    AtTerminal =>
        /\ AllOpen(home)
        /\ pc \in {"REDIRECT", "LEAVE"} /\ cmd.kind = "ONLY" => AllOpen(fds["shell"])
        /\ stdout["shell"] = Emptied /\ (child => stdout["child"] = Emptied)
        /\ received \in Log /\ received = due

LEMMA WrittenIs ==
    ASSUME NEW r \in Log, NEW f \in Table, NEW items \in Seq(Item)
    PROVE  /\ Written(r, f, items) \in Log
           /\ items = <<>> => Written(r, f, items) = r
  <1>1. 1 \in Fd
    BY StdIsFd
  <1>2. f[1].file \in File \cup {Terminal, Nowhere}
    BY <1>1 DEF Table, Description, Opened, Closed
  <1>3. r[f[1].file] \in Seq(Item)
    BY <1>2 DEF Log
  <1>4. r[f[1].file] \o items \in Seq(Item)
    BY <1>3
  <1>5. items = <<>> => r[f[1].file] \o items = r[f[1].file]
    BY <1>3
  <1> QED BY <1>2, <1>4, <1>5 DEF Log, Written

LEMMA OutputInit == (\A f \in Starts : AllOpen(f)) /\ Init => Intact
  <1> SUFFICES ASSUME \A f \in Starts : AllOpen(f), Init, prompted PROVE Intact
    BY DEF Intact, AtTerminal
  <1>1. AllOpen(home) /\ pc = "NEXT" /\ child = FALSE
    BY DEF Init
  <1>2. stdout["shell"] = Emptied
    BY DEF Init, Emptied, Process
  <1>3. received \in Log /\ received = due
    <2>1. <<>> \in Seq(Item)
      OBVIOUS
    <2>2. Nothing \in Log
      BY <2>1 DEF Nothing, Log
    <2> QED BY <2>2 DEF Init
  <1>4. ~child
    BY <1>1
  <1> QED BY <1>1, <1>2, <1>3, <1>4 DEF Intact

\* A redirection that closes nothing leaves the standard descriptors open, also when it fails.
LEMMA StillOpen ==
    ASSUME TypeOK, NEW r \in Redirection, Names(r) \subseteq Std, ~Closes(r), AllOpen(fds[Me]),
           handleRedirect(r)
    PROVE  \E f \in Table : fds' = [fds EXCEPT ![Me] = f] /\ AllOpen(f)
  <1> DEFINE d == fds[Me]
  <1>1. d \in Table /\ getDefaultFD(r) \in Std /\ Alike(d, d)
    BY MeIsProcess DEF TypeOK, Table, Names, Alike, AllOpen
  <1>2. ASSUME NEW f \in Table, NEW ok, Becomes(f, ok), AllOpen(f)
        PROVE  \E g \in Table : fds' = [fds EXCEPT ![Me] = g] /\ AllOpen(g)
    BY <1>2 DEF Becomes
  <1>3. CASE \E ok \in BOOLEAN : Becomes(d, ok)
    BY <1>1, <1>2, <1>3
  <1>4. CASE r.op \in {"LESS", "GREAT", "LESSGREAT"} /\ ~Becomes(d, FALSE) /\ OpenFile(d, r, getDefaultFD(r))
    <2>1. PICK target \in Fd :
              /\ IsLowest(d, target)
              /\ Becomes(Redirected([d EXCEPT ![target] = Target(r)], target, getDefaultFD(r)),
                         getDefaultFD(r) \in Fd)
      BY <1>4 DEF OpenFile
    <2> DEFINE f == Redirected([d EXCEPT ![target] = Target(r)], target, getDefaultFD(r))
    <2>2. f \in Table
      <3>1. [d EXCEPT ![target] = Target(r)] \in Table
        BY <1>1, TargetIs DEF Table
      <3> QED BY <3>1, RedirectedType
    <2>3. AllOpen(f)
      BY <1>1, <1>4, <2>1, OpenMeans DEF Alike, AllOpen
    <2>4. Becomes(f, getDefaultFD(r) \in Fd)
      BY <2>1
    <2> HIDE DEF f
    <2> QED BY <1>2, <2>2, <2>3, <2>4
  <1>5. CASE r.op \in {"LESSAND", "GREATAND"} /\ ~Becomes(d, FALSE) /\ DupFile(d, r, getDefaultFD(r))
    <2>1. r.to # -1
      BY <1>5 DEF Closes
    <2>2. r.to >= 0 /\ Becomes(Redirected(d, r.to, getDefaultFD(r)), IsOpen(d, r.to) /\ getDefaultFD(r) \in Fd)
      BY <1>5, <2>1 DEF DupFile
    <2>3. r.to \in Std
      BY <1>5, <2>2 DEF Names, Redirection
    <2> DEFINE f == Redirected(d, r.to, getDefaultFD(r))
    <2>4. f \in Table
      BY <1>1, RedirectedType
    <2>5. AllOpen(f)
      BY <1>1, <1>5, <2>3, DupMeans DEF Alike, AllOpen
    <2>6. Becomes(f, IsOpen(d, r.to) /\ getDefaultFD(r) \in Fd)
      BY <2>2
    <2> HIDE DEF f
    <2> QED BY <1>2, <2>4, <2>5, <2>6
  <1> QED BY <1>3, <1>4, <1>5 DEF handleRedirect

\* The line that a builtin prints and what is due go to the same place.
LEMMA RunIntact ==
    ASSUME TypeOK, RunsRedirected, Intact, AtTerminal, RunBuiltin
    PROVE  /\ stdout'["shell"] = Emptied /\ (child => stdout'["child"] = Emptied)
           /\ received' \in Log /\ received' = due'
  <1>1. /\ Me \in Process /\ fds[Me] \in Table /\ cmd.prints \in Item /\ pc = "RUN" /\ now <= Len(session)
        /\ now \in DOMAIN session
    BY CommandIs, MeIsProcess DEF TypeOK, Table, RunBuiltin
  <1>2. stdout[Me] = Emptied /\ received \in Log /\ received = due /\ AllOpen(home)
    BY DEF Intact, Me
  <1>3. Append(stdout[Me].buff, cmd.prints) = <<cmd.prints>> /\ <<cmd.prints>> \in Seq(Item)
    BY <1>1, <1>2 DEF Emptied
  <1>4. received' = Written(received, fds[Me], <<cmd.prints>>) /\ stdout' = [stdout EXCEPT ![Me] = Emptied]
    <2>1. stdout[Me].mode = "LINE"
      BY <1>2 DEF Emptied
    <2> QED BY <1>3, <2>1 DEF RunBuiltin, Printf, Emptied
  <1>5. fds[Me][1] = Meant(cmd.redirs, home, Len(cmd.redirs))[1]
    BY <1>1, <1>2, StdIsFd DEF RunsRedirected, AtTerminal, AllStayOpen, cmd
  <1>6. due' = Written(due, fds[Me], <<cmd.prints>>)
    BY <1>5 DEF RunBuiltin, Due, Written
  <1>7. stdout'["shell"] = Emptied /\ (child => stdout'["child"] = Emptied)
    BY <1>1, <1>2, <1>4 DEF TypeOK, Process, Me, Intact
  <1> QED BY <1>1, <1>2, <1>3, <1>4, <1>6, <1>7, WrittenIs

LEMMA IntactStep == TypeOK /\ Kept /\ RunsRedirected /\ Intact /\ [Next]_vars => Intact'
  <1> SUFFICES ASSUME TypeOK, Kept, RunsRedirected, Intact, [Next]_vars, AtTerminal'
               PROVE  Intact'
    BY DEF Intact
  <1>1. AtTerminal
    <2>1. prompted' = prompted /\ session' = session
      BY DEF vars, Next, Start, ForkFails, Save, Redirect, Leave, RunBuiltin, Restore, Exec, ExecFails, Exit, End
    <2>2. clean' => clean
      BY DEF vars, Next, Start, ForkFails, Save, Redirect, Leave, RunBuiltin, Restore, Exec, ExecFails, Exit, End
    <2> QED BY <2>1, <2>2 DEF AtTerminal, AllStayOpen
  <1>2. /\ AllOpen(home) /\ received \in Log /\ received = due
        /\ stdout["shell"] = Emptied /\ (child => stdout["child"] = Emptied)
    BY <1>1 DEF Intact
  <1>3. CASE UNCHANGED vars
    BY <1>1, <1>3 DEF vars, Intact, cmd
  <1>4. CASE Start
    <2>1. cmd' = cmd /\ home' = home /\ received' = received /\ due' = due /\ clean /\ ~child
      BY <1>1, <1>4 DEF Start, cmd, AtTerminal, TypeOK
    <2>2. fds["shell"] = home /\ fds'["shell"] = fds["shell"]
      BY <1>4, <2>1 DEF Start, Kept, TypeOK, Process
    <2>3. stdout'["shell"] = Emptied /\ (child' => stdout'["child"] = Emptied)
      <3>1. CASE UNCHANGED <<child, fds, stdout>>
        BY <1>2, <3>1
      <3>2. CASE stdout' = [stdout EXCEPT !["child"] = stdout["shell"]]
        BY <1>2, <3>2 DEF TypeOK, Process
      <3> QED BY <1>4, <3>1, <3>2 DEF Start
    <2> QED BY <1>2, <2>1, <2>2, <2>3 DEF Intact
  <1>5. CASE ForkFails
    BY <1>2, <1>5 DEF ForkFails, Done, Intact
  <1>6. CASE Save
    <2>1. /\ cmd' = cmd /\ home' = home /\ received' = received /\ due' = due /\ stdout' = stdout
          /\ child' = child /\ cmd.kind # "ONLY"
      BY <1>6 DEF Save, cmd, TypeOK
    <2> QED BY <1>2, <2>1 DEF Intact
  <1>7. CASE Redirect
    <2>1. /\ cmd' = cmd /\ home' = home /\ received' = received /\ due' = due /\ stdout' = stdout
          /\ child' = child /\ pc = "REDIRECT"
      BY <1>7 DEF Redirect, cmd
    <2>2. cmd.kind = "ONLY" => AllOpen(fds'["shell"])
      <3> SUFFICES ASSUME cmd.kind = "ONLY" PROVE AllOpen(fds'["shell"])
        OBVIOUS
      <3>1. /\ AllOpen(fds["shell"]) /\ ~child /\ Me = "shell" /\ "shell" \in Process /\ now \in DOMAIN session
            /\ cmd.redirs \in Seq(Redirection)
        BY <1>1, <2>1, CommandIs DEF Intact, TypeOK, Me, Process
      <3>2. CASE at <= Len(cmd.redirs) /\ handleRedirect(cmd.redirs[at])
        <4> DEFINE r == cmd.redirs[at]
        <4>1. at \in DOMAIN cmd.redirs /\ r \in Redirection
          BY <3>1, <3>2 DEF TypeOK
        <4>2. Names(r) \subseteq Std /\ ~Closes(r)
          BY <1>1, <2>1, <3>1, <4>1 DEF Kept, NamesStd, StaysOpen, AtTerminal, AllStayOpen, cmd
        <4>3. \E f \in Table : fds' = [fds EXCEPT ![Me] = f] /\ AllOpen(f)
          BY <3>1, <3>2, <4>1, <4>2, StillOpen
        <4> QED BY <3>1, <4>3 DEF TypeOK
      <3> QED BY <1>7, <3>1, <3>2 DEF Redirect
    <2> QED BY <1>2, <2>1, <2>2 DEF Intact
  <1>8. CASE Leave
    <2>1. AllOpen(home') /\ pc' = "NEXT" /\ received' = received /\ due' = due /\ stdout' = stdout /\ child' = child
      BY <1>1, <1>8 DEF Leave, Done, Intact, TypeOK
    <2> QED BY <1>2, <2>1 DEF Intact
  <1>9. CASE RunBuiltin
    <2>1. home' = home /\ pc' = "RESTORE" /\ child' = child
      BY <1>9 DEF RunBuiltin
    <2> QED BY <1>1, <1>2, <1>9, <2>1, RunIntact DEF Intact
  <1>10. CASE Restore
    <2>1. /\ home' = home /\ pc' \in {"EXIT", "NEXT"} /\ child' = child
          /\ received' = received /\ due' = due /\ stdout' = stdout
      BY <1>10 DEF Restore, Done
    <2> QED BY <1>2, <2>1 DEF Intact
  <1>11. CASE Exec
    <2>1. home' = home /\ pc' = "NEXT" /\ ~child' /\ stdout' = stdout
      BY <1>11 DEF Exec, Done
    <2>2. /\ child /\ Me = "child" /\ Me \in Process /\ fds[Me] \in Table /\ cmd.prints \in Item /\ pc = "EXEC"
          /\ now \in DOMAIN session
      BY <1>11, CommandIs DEF Exec, TypeOK, Table, Process, Me
    <2>3. fds["child"][1] = Meant(cmd.redirs, home, Len(cmd.redirs))[1]
      BY <1>1, <1>2, <2>2, StdIsFd DEF RunsRedirected, AtTerminal, AllStayOpen, cmd
    <2>4. /\ due' = Written(due, fds["child"], <<cmd.prints>>)
          /\ received' = Written(received, fds["child"], <<cmd.prints>>)
      BY <1>11, <2>3 DEF Exec, Due, Written
    <2>5. <<cmd.prints>> \in Seq(Item)
      BY <2>2
    <2> QED BY <1>2, <2>1, <2>2, <2>4, <2>5, WrittenIs DEF Intact
  <1>12. CASE ExecFails
    BY <1>2, <1>12 DEF ExecFails, Intact
  <1>13. CASE Exit
    <2>1. home' = home /\ pc' = "NEXT" /\ ~child' /\ due' = due /\ child
      BY <1>13 DEF Exit, Done, TypeOK
    <2>2. stdout["child"].buff = <<>> /\ <<>> \in Seq(Item) /\ fds["child"] \in Table
      BY <1>2, <2>1 DEF Emptied, TypeOK, Table, Process
    <2>3. received' = received /\ stdout'["shell"] = stdout["shell"]
      BY <1>2, <1>13, <2>2, WrittenIs DEF Exit, Flush, TypeOK, Process
    <2> QED BY <1>2, <2>1, <2>3 DEF Intact
  <1>14. CASE End
    <2>1. home' = home /\ pc' = "DONE" /\ child' = child /\ due' = due /\ ~child
      BY <1>14 DEF End, TypeOK
    <2>2. stdout["shell"].buff = <<>> /\ <<>> \in Seq(Item) /\ fds["shell"] \in Table
      BY <1>2 DEF Emptied, TypeOK, Table, Process
    <2>3. received' = received
      BY <1>2, <1>14, <2>2, WrittenIs DEF End, Flush
    <2>4. stdout'["shell"] = Emptied
      <3>1. stdout' = [stdout EXCEPT !["shell"].buff = <<>>]
        BY <1>14 DEF End, Flush
      <3>2. stdout'["shell"] = [stdout["shell"] EXCEPT !.buff = <<>>]
        BY <3>1 DEF TypeOK, Process
      <3> QED BY <1>2, <3>2 DEF Emptied
    <2> QED BY <1>2, <2>1, <2>3, <2>4 DEF Intact
  <1> QED BY <1>3, <1>4, <1>5, <1>6, <1>7, <1>8, <1>9, <1>10, <1>11, <1>12, <1>13, <1>14 DEF Next

\* In a session at the terminal all output arrives where its redirections send it, once and in its
\* order, when the shell was started with its three standard descriptors open.
THEOREM OutputDelivered == (\A f \in Starts : AllOpen(f)) => (Spec => []Delivered)
  <1> SUFFICES ASSUME \A f \in Starts : AllOpen(f) PROVE Spec => []Delivered
    OBVIOUS
  <1>1. Init => Intact
    BY OutputInit
  <1>2. TypeOK /\ Kept /\ [Next]_vars => Kept'
    BY KeptStep
  <1>3. TypeOK /\ Kept /\ RunsRedirected /\ Intact /\ [Next]_vars => Intact'
    BY IntactStep
  <1>4. Intact => Delivered
    BY DEF Intact, AtTerminal, Delivered
  <1> QED BY <1>1, <1>2, <1>3, <1>4, KeptInit, CommandsRunRedirected, TypeCorrect, PTL DEF Spec
=============================================================================
