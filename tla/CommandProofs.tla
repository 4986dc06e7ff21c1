---------------------------- MODULE CommandProofs ----------------------------
(***************************************************************************)
(* Proofs about module Command and the expansion of words it calls: the    *)
(* calls of expandWord stay inside their texts, a command gets one         *)
(* argument for each word, and PWD and OLDPWD follow the directory.        *)
(***************************************************************************)
EXTENDS Command, FiniteSetTheorems, WellFoundedInduction, TLAPS

\* A call of expandWord: a record with its fields, a text, and a place in it.
States == {"NORMAL", "DOLLAR", "TILDE", "BRACE", "ARITHMETIC", "COMMAND_SUB"}
IsFrame(f) ==
    /\ f = [input |-> f.input, types |-> f.types, pos |-> f.pos, state |-> f.state, output |-> f.output]
    /\ f.input \in Text /\ f.pos \in 0..Len(f.input) /\ f.state \in States

FramesOK(fs) ==
    /\ fs \in Seq(ToSet(fs))
    /\ \A n \in 1..Len(fs) : IsFrame(fs[n]) /\ (n < Len(fs) => fs[n].state = "NORMAL")

\* The calls that run, and what the first one returned.
CallsInv ==
    /\ FramesOK(frames)
    /\ (frames # <<>>) = (result = Running)
    /\ result.st \in Status

\* How far the command has come.
ArgumentsInv ==
    /\ commands \in Seq(ToSet(commands)) /\ \A c \in ToSet(commands) : IsLine(c)
    /\ argv \in Seq(ToSet(argv))
    /\ pc \in {"PREFIX", "EXPAND", "RUN"} /\ at \in Nat \ {0}
    /\ pc # "PREFIX" => commands # <<>>
    /\ pc = "PREFIX" => argv = <<>>
    /\ pc = "EXPAND" => Len(argv) = at - 1 /\ at <= Len(Command.words)
    /\ pc = "RUN" => Len(argv) = Len(Command.words)
    /\ result = Running => pc = "EXPAND"

\* What cd set is there: directories of the set been; of those in sure, PWD is the directory dir
\* and OLDPWD the one from which cd came.
Knows(t, r, dir, from, been, sure) ==
    /\ r \subseteq {Pwd, OldPwd} \cap DOMAIN t
    /\ Pwd \in r => t[Pwd] \in been /\ (Pwd \in sure => t[Pwd] = dir)
    /\ OldPwd \in r => t[OldPwd] \in been /\ (OldPwd \in sure => t[OldPwd] = from)

\* Where the shell is and was.
PlacesInv == {cwd, before} \subseteq visited /\ visited \subseteq Dirs /\ told \subseteq {Pwd, OldPwd}

\* It is in the shell, and in the copy the shell gets back from a child.
DirectoriesInv ==
    /\ PlacesInv
    /\ Knows(table, right, cwd, before, visited, told) /\ Knows(own.table, own.right, cwd, before, visited, told)
    /\ last_exec_status \in 0..127

CommandInv == CallsInv /\ ArgumentsInv /\ DirectoriesInv

-----------------------------------------------------------------------------
(* Sequences of any elements.                                                *)

LEMMA SequenceIs ==
    ASSUME NEW S, NEW s \in Seq(S)
    PROVE  s \in Seq(ToSet(s)) /\ Len(s) \in Nat /\ DOMAIN s = 1..Len(s)
  <1>1. /\ Len(s) \in Nat /\ DOMAIN s = 1..Len(s)
        /\ s = [i \in 1..Len(s) |-> s[i]]
    OBVIOUS
  <1>2. \A i \in 1..Len(s) : s[i] \in ToSet(s)
    BY <1>1 DEF ToSet
  <1>3. [i \in 1..Len(s) |-> s[i]] \in [1..Len(s) -> ToSet(s)]
    BY <1>2
  <1> QED BY <1>1, <1>3

LEMMA AppendIs ==
    ASSUME NEW s, s \in Seq(ToSet(s)), NEW x
    PROVE  LET t == Append(s, x)
           IN  /\ t \in Seq(ToSet(t)) /\ Len(t) = Len(s) + 1
               /\ \A i \in 1..Len(s) : t[i] = s[i]
               /\ t[Len(s) + 1] = x
  <1> DEFINE T == ToSet(s) \cup {x}
  <1>1. s \in Seq(T) /\ x \in T
    <2>1. ToSet(s) \subseteq T /\ x \in T
      OBVIOUS
    <2> HIDE DEF T
    <2> QED BY <2>1
  <1> HIDE DEF T
  <1>2. /\ Append(s, x) \in Seq(T) /\ Len(Append(s, x)) = Len(s) + 1
        /\ \A i \in 1..Len(s) : Append(s, x)[i] = s[i]
        /\ Append(s, x)[Len(s) + 1] = x
    BY <1>1
  <1> QED BY <1>2, SequenceIs

LEMMA TailIs ==
    ASSUME NEW s, s \in Seq(ToSet(s)), s # <<>>
    PROVE  /\ Tail(s) \in Seq(ToSet(Tail(s))) /\ ToSet(Tail(s)) \subseteq ToSet(s)
           /\ s[1] \in ToSet(s)
  <1> DEFINE T == ToSet(s)
  <1>0. s \in Seq(T)
    OBVIOUS
  <1>1. s[1] \in T
    <2>1. 1 \in DOMAIN s
      <3> HIDE DEF T
      <3> QED BY <1>0
    <2> QED BY <2>1 DEF ToSet
  <1> HIDE DEF T
  <1>2. Tail(s) \in Seq(T)
    BY <1>0
  <1>3. ToSet(Tail(s)) \subseteq T
    BY <1>2 DEF ToSet
  <1> QED BY <1>1, <1>2, <1>3, SequenceIs DEF T

\* A text without its first characters, or a part of it.
LEMMA PartIs ==
    ASSUME NEW s \in Text, NEW a \in Nat, NEW b \in Int, 1 <= a, b <= Len(s)
    PROVE  SubSeq(s, a, b) \in Text
  BY DEF Text

LEMMA TailText ==
    ASSUME NEW s \in Text, s # <<>>
    PROVE  Tail(s) \in Text
  BY DEF Text

-----------------------------------------------------------------------------
(* The smallest number of a set.                                             *)

\* A set of numbers has a smallest one.
LEMMA Smallest ==
    ASSUME NEW S \in SUBSET Nat, NEW n \in S
    PROVE  \E m \in S : \A k \in S : m <= k
  <1> DEFINE T == {0..m : m \in S}
  <1>1. T \subseteq FiniteSubsetsOf(Nat) /\ T # {}
    <2>1. \A m \in S : 0..m \in SUBSET Nat /\ IsFiniteSet(0..m)
      <3> SUFFICES ASSUME NEW m \in S PROVE 0..m \in SUBSET Nat /\ IsFiniteSet(0..m)
        OBVIOUS
      <3>1. 0 \in Int /\ m \in Int
        OBVIOUS
      <3> QED BY <3>1, FS_Interval
    <2> QED BY <2>1 DEF FiniteSubsetsOf
  <1>2. PICK x \in T : \A y \in T : ~(<<y, x>> \in StrictSubsetOrdering(Nat))
    <2>1. IsWellFoundedOn(StrictSubsetOrdering(Nat), FiniteSubsetsOf(Nat))
      BY FS_StrictSubsetOrderingWellFounded
    <2> HIDE DEF T
    <2> QED BY <1>1, <2>1, WFMin
  <1>3. PICK m \in S : x = 0..m
    BY <1>2
  <1>4. ASSUME NEW k \in S, k < m PROVE FALSE
    <2>1. 0..k \in T /\ 0..k \subseteq Nat /\ 0..m \subseteq Nat
      OBVIOUS
    <2>2. 0..k \subseteq 0..m /\ m \in 0..m /\ m \notin 0..k
      BY <1>4
    <2> QED BY <1>2, <1>3, <2>1, <2>2 DEF StrictSubsetOrdering
  <1> QED BY <1>4

LEMMA MinIs ==
    ASSUME NEW S \in SUBSET Nat, S # {}
    PROVE  Min(S) \in S
  <1>1. PICK n \in S : TRUE
    OBVIOUS
  <1>2. \E m \in S : \A k \in S : m <= k
    BY <1>1, Smallest
  <1> QED BY <1>2 DEF Min

\* Least gives an element of the set, or its default.
LEMMA LeastIs ==
    ASSUME NEW S \in SUBSET Nat, NEW d
    PROVE  Least(S, d) \in S \/ Least(S, d) = d
  BY MinIs DEF Least

-----------------------------------------------------------------------------
(* The calls of expandWord.                                                  *)

LEMMA FrameIs ==
    ASSUME NEW f, IsFrame(f), Len(f.input) \in Nat, NEW n \in Nat, f.pos + n <= Len(f.input),
           NEW o, NEW st \in States
    PROVE  IsFrame(Moved(f, n, o, st)) /\ Moved(f, n, o, st).state = st
  BY DEF IsFrame, Moved

LEMMA NewFrameIs ==
    ASSUME NEW in \in Text, NEW ty
    PROVE  IsFrame(expanderCtor(in, ty))
  <1>1. 0 \in 0..Len(in)
    BY DEF Text
  <1> QED BY <1>1 DEF expanderCtor, IsFrame, States

\* The last call becomes another.
LEMMA ReplaceLast ==
    ASSUME NEW fs, FramesOK(fs), fs # <<>>, NEW f, IsFrame(f)
    PROVE  LET gs == [fs EXCEPT ![Len(fs)] = f]
           IN  FramesOK(gs) /\ gs # <<>> /\ Len(gs) = Len(fs) /\ gs[Len(gs)] = f
  <1> DEFINE gs == [fs EXCEPT ![Len(fs)] = f]
             T == ToSet(fs) \cup {f}
  <1>1. fs \in Seq(T) /\ f \in T
    <2>1. ToSet(fs) \subseteq T /\ f \in T /\ fs \in Seq(ToSet(fs))
      BY DEF FramesOK
    <2> HIDE DEF T
    <2> QED BY <2>1
  <1> HIDE DEF T
  <1>2. Len(fs) \in Nat \ {0}
    BY <1>1
  <1>3. gs \in Seq(T) /\ Len(gs) = Len(fs) /\ \A i \in 1..Len(fs) : gs[i] = IF i = Len(fs) THEN f ELSE fs[i]
    BY <1>1, <1>2
  <1> HIDE DEF gs
  <1>4. gs \in Seq(ToSet(gs)) /\ gs # <<>> /\ gs[Len(gs)] = f
    BY <1>2, <1>3, SequenceIs
  <1>5. \A n \in 1..Len(gs) : IsFrame(gs[n]) /\ (n < Len(gs) => gs[n].state = "NORMAL")
    BY <1>2, <1>3 DEF FramesOK
  <1> QED BY <1>3, <1>4, <1>5 DEF FramesOK, gs

\* A call is put on top of one in the state NORMAL.
LEMMA PushFrame ==
    ASSUME NEW fs, FramesOK(fs), fs # <<>>, fs[Len(fs)].state = "NORMAL", NEW f, IsFrame(f)
    PROVE  FramesOK(Append(fs, f)) /\ Append(fs, f) # <<>>
  <1> DEFINE gs == Append(fs, f)
  <1>1. fs \in Seq(ToSet(fs)) /\ Len(fs) \in Nat
    BY DEF FramesOK
  <1>2. /\ gs \in Seq(ToSet(gs)) /\ Len(gs) = Len(fs) + 1
        /\ \A i \in 1..Len(fs) : gs[i] = fs[i]
        /\ gs[Len(fs) + 1] = f
    BY <1>1, AppendIs
  <1> HIDE DEF gs
  <1>3. ASSUME NEW n \in 1..Len(gs) PROVE IsFrame(gs[n]) /\ (n < Len(gs) => gs[n].state = "NORMAL")
    <2>1. CASE n = Len(gs)
      BY <1>1, <1>2, <2>1
    <2>2. CASE n # Len(gs)
      <3>1. n \in 1..Len(fs) /\ (n < Len(fs) \/ n = Len(fs))
        BY <1>1, <1>2, <2>2
      <3> QED BY <1>2, <3>1 DEF FramesOK
    <2> QED BY <2>1, <2>2
  <1>4. gs # <<>>
    BY <1>1, <1>2
  <1> QED BY <1>2, <1>3, <1>4 DEF FramesOK, gs

\* The last call goes.
LEMMA PopFrame ==
    ASSUME NEW fs, FramesOK(fs), Len(fs) > 1
    PROVE  LET gs == SubSeq(fs, 1, Len(fs) - 1)
           IN  /\ FramesOK(gs) /\ gs # <<>> /\ Len(gs) = Len(fs) - 1
               /\ gs[Len(gs)] = fs[Len(fs) - 1] /\ gs[Len(gs)].state = "NORMAL"
  <1> DEFINE gs == SubSeq(fs, 1, Len(fs) - 1)
             T == ToSet(fs)
  <1>1. fs \in Seq(T)
    BY DEF FramesOK
  <1> HIDE DEF T
  <1>2. /\ gs \in Seq(T) /\ Len(gs) = Len(fs) - 1 /\ Len(fs) \in Nat
        /\ \A i \in 1..Len(gs) : gs[i] = fs[i]
    BY <1>1
  <1> HIDE DEF gs
  <1>3. gs \in Seq(ToSet(gs)) /\ gs # <<>> /\ gs[Len(gs)] = fs[Len(fs) - 1]
    BY <1>2, SequenceIs
  <1>4. \A n \in 1..Len(gs) : IsFrame(gs[n]) /\ gs[n].state = "NORMAL"
    BY <1>2 DEF FramesOK
  <1>5. Len(gs) \in 1..Len(gs)
    BY <1>2
  <1> QED BY <1>2, <1>3, <1>4, <1>5 DEF FramesOK, gs

LEMMA OneFrame ==
    ASSUME NEW f, IsFrame(f)
    PROVE  FramesOK(<<f>>) /\ <<f>> # <<>>
  <1>1. <<f>> \in Seq({f}) /\ Len(<<f>>) = 1 /\ <<f>>[1] = f
    OBVIOUS
  <1>2. <<f>> \in Seq(ToSet(<<f>>))
    BY <1>1, SequenceIs
  <1> QED BY <1>1, <1>2 DEF FramesOK

LEMMA NoFrame == FramesOK(<<>>)
  <1>1. <<>> \in Seq(ToSet(<<>>)) /\ Len(<<>>) = 0
    OBVIOUS
  <1> QED BY <1>1 DEF FramesOK

-----------------------------------------------------------------------------
(* The call that runs.                                                       *)

LEMMA TopIs ==
    ASSUME CallsInv, result = Running
    PROVE  /\ frames # <<>> /\ Len(frames) \in Nat \ {0} /\ DOMAIN frames = 1..Len(frames)
           /\ IsFrame(Top) /\ Top = frames[Len(frames)]
           /\ Top.input \in Text /\ Len(Top.input) \in Nat /\ Top.pos \in 0..Len(Top.input)
           /\ Rest \in Nat /\ Top.pos + Rest = Len(Top.input)
  <1>1. frames # <<>> /\ frames \in Seq(ToSet(frames))
    BY DEF CallsInv, FramesOK
  <1>2. Len(frames) \in Nat \ {0} /\ DOMAIN frames = 1..Len(frames)
    <2>1. PICK S : frames \in Seq(S)
      BY <1>1
    <2> QED BY <1>1, <2>1
  <1>3. IsFrame(Top) /\ Top = frames[Len(frames)]
    BY <1>2 DEF Top, CallsInv, FramesOK
  <1>4. Top.input \in Text /\ Top.pos \in 0..Len(Top.input)
    BY <1>3 DEF IsFrame
  <1>5. Len(Top.input) \in Nat
    BY <1>4 DEF Text
  <1> QED BY <1>1, <1>2, <1>3, <1>4, <1>5 DEF Rest

\* The next characters are a text.
LEMMA CharsIs ==
    ASSUME CallsInv, result = Running, NEW k \in Int, k <= Rest
    PROVE  Chars(1, k) \in Text
  <1>1. /\ Top.input \in Text /\ Len(Top.input) \in Nat /\ Top.pos \in 0..Len(Top.input)
        /\ Top.pos + Rest = Len(Top.input) /\ Rest \in Nat
    BY TopIs
  <1>2. Top.pos + 1 \in Nat /\ Top.pos + k \in Int /\ 1 <= Top.pos + 1 /\ Top.pos + k <= Len(Top.input)
    BY <1>1
  <1> QED BY <1>1, <1>2, PartIs DEF Chars

\* A handler that reads what is there leaves the calls in order.
LEMMA MovesKeep ==
    ASSUME CallsInv, result = Running, NEW n \in 0..Rest, NEW s, NEW st \in States, Moves(n, s, st)
    PROVE  CallsInv' /\ word' = word /\ result' = result
  <1> DEFINE f == Moved(Top, n, s, st)
  <1>1. /\ frames # <<>> /\ Len(frames) \in Nat \ {0} /\ DOMAIN frames = 1..Len(frames)
        /\ IsFrame(Top) /\ Top = frames[Len(frames)]
        /\ Top.pos \in 0..Len(Top.input) /\ Top.pos + Rest = Len(Top.input) /\ Len(Top.input) \in Nat /\ Rest \in Nat
    BY TopIs
  <1>2. IsFrame(f)
    <2>1. n \in Nat /\ Top.pos + n <= Len(Top.input)
      BY <1>1
    <2> QED BY <1>1, <2>1, FrameIs
  <1>3. frames' = [frames EXCEPT ![Len(frames)] = f]
    BY DEF Moves
  <1> HIDE DEF f
  <1>4. FramesOK(frames') /\ frames' # <<>>
    BY <1>1, <1>2, <1>3, ReplaceLast DEF CallsInv
  <1>5. result' = result /\ word' = word
    BY DEF Moves
  <1> QED BY <1>1, <1>4, <1>5 DEF CallsInv

LEMMA AppendsKeep ==
    ASSUME CallsInv, result = Running, NEW n \in 0..Rest, NEW s, Appends(n, s)
    PROVE  CallsInv' /\ word' = word /\ table' = table /\ result' = result
  <1>1. Moves(n, s, "NORMAL") /\ table' = table /\ "NORMAL" \in States
    BY DEF Appends, States
  <1> QED BY <1>1, MovesKeep

LEMMA ErrorKeeps ==
    ASSUME NEW st \in Status \ {"RUNNING"}, Error(st)
    PROVE  CallsInv' /\ word' = word /\ result' # Running
  <1>1. frames' = <<>> /\ result' = [st |-> st, output |-> <<>>] /\ word' = word
    BY DEF Error
  <1>2. result' # Running /\ result'.st = st
    BY <1>1 DEF Running
  <1> QED BY <1>1, <1>2, NoFrame DEF CallsInv

-----------------------------------------------------------------------------
(* Where a brace ends.                                                       *)

LEMMA NestedIs ==
    ASSUME CallsInv, result = Running, NEW n \in 1..Rest
    PROVE  Nested(n) \in n..Rest
  <1> DEFINE close == IF CharAt(n) = "{" THEN "}" ELSE ")"
             S == {k \in n + 1..Rest : Count(CharAt(n), n, k) = Count(close, n, k)}
  <1>1. Rest \in Nat
    BY TopIs
  <1>2. S \in SUBSET Nat /\ S \subseteq n..Rest /\ Rest \in n..Rest
    <2>1. n + 1..Rest \in SUBSET Nat /\ n + 1..Rest \subseteq n..Rest /\ Rest \in n..Rest
      BY <1>1
    <2> QED BY <2>1
  <1>3. Nested(n) = Least(S, Rest)
    BY DEF Nested
  <1> HIDE DEF S
  <1> QED BY <1>2, <1>3, LeastIs

\* What is skipped is at least the $.
LEMMA SkipIs ==
    ASSUME CallsInv, result = Running, NEW n \in 1..Rest, n < Rest
    PROVE  skipNestedOrQuoted(n) \in n + 1..Rest + 1
  <1>1. Rest \in Nat
    BY TopIs
  <1>2. CASE CharAt(n + 1) \in {"{", "("}
    <2>1. n + 1 \in 1..Rest
      BY <1>1
    <2>2. Nested(n + 1) \in n + 1..Rest
      BY <2>1, NestedIs
    <2>3. skipNestedOrQuoted(n) = Nested(n + 1) + 1
      BY <1>2 DEF skipNestedOrQuoted
    <2> QED BY <1>1, <2>2, <2>3
  <1>3. CASE CharAt(n + 1) \notin {"{", "("}
    <2> DEFINE S == {k \in n + 2..Rest : CharAt(k) \notin NameChar}
    <2>1. S \in SUBSET Nat /\ S \subseteq n + 1..Rest + 1 /\ Rest + 1 \in n + 1..Rest + 1 /\ n + 2 \in n + 1..Rest + 1
      BY <1>1
    <2>2. skipNestedOrQuoted(n) \in {Least(S, Rest + 1), n + 2}
      BY <1>3 DEF skipNestedOrQuoted
    <2> HIDE DEF S
    <2> QED BY <2>1, <2>2, LeastIs
  <1> QED BY <1>2, <1>3

\* The recursion of BraceEnd, and its solutions from the place k on.
EndFrom(g, n) ==
    IF n > Rest \/ CharAt(n) = "}" THEN n
    ELSE IF n < Rest /\ CharAt(n) = "$" THEN g[skipNestedOrQuoted(n)]
    ELSE g[n + 1]

Ends(k) == {g \in [k..Rest + 1 -> 1..Rest + 1] : \A n \in k..Rest + 1 : g[n] = EndFrom(g, n)}

\* One place is computed from the places behind it.
LEMMA EndFromIs ==
    ASSUME CallsInv, result = Running, NEW n \in 1..Rest + 1, NEW g, NEW h,
           \A i \in n + 1..Rest + 1 : g[i] \in 1..Rest + 1 /\ h[i] = g[i]
    PROVE  EndFrom(g, n) \in 1..Rest + 1 /\ EndFrom(h, n) = EndFrom(g, n)
  <1>1. Rest \in Nat
    BY TopIs
  <1>2. CASE n > Rest \/ CharAt(n) = "}"
    BY <1>2 DEF EndFrom
  <1>3. CASE ~(n > Rest \/ CharAt(n) = "}") /\ n < Rest /\ CharAt(n) = "$"
    <2>1. n \in 1..Rest
      BY <1>1, <1>3
    <2>2. skipNestedOrQuoted(n) \in n + 1..Rest + 1
      BY <1>3, <2>1, SkipIs
    <2>3. EndFrom(g, n) = g[skipNestedOrQuoted(n)] /\ EndFrom(h, n) = h[skipNestedOrQuoted(n)]
      BY <1>3 DEF EndFrom
    <2> QED BY <2>2, <2>3
  <1>4. CASE ~(n > Rest \/ CharAt(n) = "}") /\ ~(n < Rest /\ CharAt(n) = "$")
    <2>0. ~(n > Rest)
      BY <1>4
    <2>1. n + 1 \in n + 1..Rest + 1
      BY <1>1, <2>0
    <2>2. EndFrom(g, n) = g[n + 1] /\ EndFrom(h, n) = h[n + 1]
      BY <1>4 DEF EndFrom
    <2> QED BY <2>1, <2>2
  <1> QED BY <1>2, <1>3, <1>4

\* The recursion has a solution, built from the last place to the first.
LEMMA EndsExist ==
    ASSUME CallsInv, result = Running
    PROVE  Ends(1) # {}
  <1>1. Rest \in Nat
    BY TopIs
  <1> DEFINE S == {j \in Nat : j <= Rest /\ Ends(Rest + 1 - j) = {}}
  <1>2. SUFFICES ASSUME S # {} PROVE FALSE
    <2>1. Rest \in Nat /\ Rest <= Rest /\ Rest + 1 - Rest = 1
      BY <1>1
    <2> QED BY <2>1
  <1>3. PICK j \in S : \A i \in S : j <= i
    <2>1. S \in SUBSET Nat
      OBVIOUS
    <2>2. PICK z : z \in S
      BY <1>2
    <2> HIDE DEF S
    <2> QED BY <2>1, <2>2, Smallest
  <1> DEFINE k == Rest + 1 - j
  <1>4. j \in Nat /\ k \in 1..Rest + 1 /\ Ends(k) = {}
    BY <1>1
  <1>5. PICK g : \A n \in k + 1..Rest + 1 : g[n] \in 1..Rest + 1 /\ g[n] = EndFrom(g, n)
    <2>1. CASE j = 0
      BY <1>1, <2>1
    <2>2. CASE j # 0
      <3>1. j - 1 \in Nat /\ j - 1 <= Rest /\ ~(j <= j - 1) /\ Rest + 1 - (j - 1) = k + 1
        BY <1>1, <1>4, <2>2
      <3>2. Ends(k + 1) # {}
        BY <1>3, <3>1
      <3>3. PICK g : g \in Ends(k + 1)
        BY <3>2
      <3> QED BY <3>3 DEF Ends
    <2> QED BY <2>1, <2>2
  <1> HIDE DEF k, S
  <1> DEFINE h == [n \in k..Rest + 1 |-> IF n = k THEN EndFrom(g, k) ELSE g[n]]
  <1>6. \A n \in k + 1..Rest + 1 : n \in k..Rest + 1 /\ n # k /\ h[n] = g[n]
    BY <1>1, <1>4
  <1>7. h[k] = EndFrom(g, k) /\ k \in k..Rest + 1
    BY <1>1, <1>4
  <1> HIDE DEF h
  <1>8. ASSUME NEW n \in k..Rest + 1 PROVE h[n] \in 1..Rest + 1 /\ h[n] = EndFrom(h, n)
    <2>1. n \in 1..Rest + 1 /\ \A i \in n + 1..Rest + 1 : i \in k + 1..Rest + 1
      BY <1>1, <1>4
    <2>2. EndFrom(g, n) \in 1..Rest + 1 /\ EndFrom(h, n) = EndFrom(g, n)
      BY <1>5, <1>6, <2>1, EndFromIs
    <2>3. CASE n = k
      BY <1>7, <2>2, <2>3
    <2>4. CASE n # k
      <3>1. n \in k + 1..Rest + 1
        BY <1>1, <1>4, <2>4
      <3> QED BY <1>5, <1>6, <2>2, <3>1
    <2> QED BY <2>3, <2>4
  <1>9. h \in Ends(k)
    <2>1. h = [n \in k..Rest + 1 |-> h[n]]
      BY DEF h
    <2> QED BY <1>8, <2>1 DEF Ends
  <1> QED BY <1>4, <1>9

LEMMA BraceEndIs ==
    ASSUME CallsInv, result = Running
    PROVE  BraceEnd \in 1..Rest + 1
  <1> DEFINE body(f) == [n \in 1..Rest + 1 |-> EndFrom(f, n)]
             end == CHOOSE f : f = body(f)
  <1>1. BraceEnd = end[1]
    BY DEF BraceEnd, EndFrom
  <1>2. PICK g : g \in Ends(1)
    BY EndsExist
  <1>3. g = body(g)
    BY <1>2 DEF Ends
  <1>4. end = body(end)
    BY <1>3
  <1>5. Rest \in Nat
    BY TopIs
  <1> HIDE DEF end
  <1>6. \A n \in 1..Rest + 1 : end[n] = EndFrom(end, n)
    BY <1>4
  <1> DEFINE S == {j \in Nat : j <= Rest /\ end[Rest + 1 - j] \notin 1..Rest + 1}
  <1>7. S = {}
    <2> SUFFICES ASSUME S # {} PROVE FALSE
      OBVIOUS
    <2>1. PICK j \in S : \A i \in S : j <= i
      <3>1. S \in SUBSET Nat
        OBVIOUS
      <3>2. PICK z : z \in S
        OBVIOUS
      <3> HIDE DEF S
      <3> QED BY <3>1, <3>2, Smallest
    <2> DEFINE n == Rest + 1 - j
    <2>2. n \in 1..Rest + 1 /\ end[n] \notin 1..Rest + 1
      BY <1>5
    <2>3. ASSUME NEW i \in n + 1..Rest + 1 PROVE end[i] \in 1..Rest + 1
      <3>1. Rest + 1 - i \in Nat /\ Rest + 1 - i <= Rest /\ ~(j <= Rest + 1 - i) /\ Rest + 1 - (Rest + 1 - i) = i
        BY <1>5, <2>2
      <3> QED BY <2>1, <3>1
    <2> HIDE DEF n
    <2>4. EndFrom(end, n) \in 1..Rest + 1
      BY <2>2, <2>3, EndFromIs
    <2> QED BY <1>6, <2>2, <2>4
  <1>8. Rest \in Nat /\ Rest <= Rest /\ Rest + 1 - Rest = 1
    BY <1>5
  <1> QED BY <1>1, <1>7, <1>8

-----------------------------------------------------------------------------
(* What a brace says.                                                        *)

LEMMA AssignOperator ==
    ASSUME NEW c \in DOMAIN Operator, Operator[c] = "ASSIGN"
    PROVE  c = "="
  <1>1. c \in {"-", "=", "?", "+"}
    BY DEF Operator
  <1>2. CASE c = "-"
    BY <1>2 DEF Operator
  <1>3. CASE c = "?"
    BY <1>3 DEF Operator
  <1>4. CASE c = "+"
    BY <1>4 DEF Operator
  <1> QED BY <1>1, <1>2, <1>3, <1>4

LEMMA ParameterLengthIs ==
    ASSUME NEW s \in Text, s # <<>>
    PROVE  ParameterLength(s) \in 1..Len(s) /\ Len(s) \in Nat \ {0}
  <1>1. Len(s) \in Nat \ {0}
    BY DEF Text
  <1> DEFINE S == {n \in 1..Len(s) - 1 : s[n + 1] \notin NameChar}
  <1>2. S \in SUBSET Nat /\ S \subseteq 1..Len(s) /\ Len(s) \in 1..Len(s) /\ 1 \in 1..Len(s)
    <2>1. 1..Len(s) - 1 \in SUBSET Nat /\ 1..Len(s) - 1 \subseteq 1..Len(s) /\ Len(s) \in 1..Len(s) /\ 1 \in 1..Len(s)
      BY <1>1
    <2> QED BY <2>1
  <1>3. ParameterLength(s) \in {Least(S, Len(s)), 1}
    BY DEF ParameterLength
  <1> HIDE DEF S
  <1> QED BY <1>1, <1>2, <1>3, LeastIs

\* The word in a brace is part of its text, and a brace that assigns has an = in it.
LEMMA BraceTypeIs ==
    ASSUME NEW s \in Text
    PROVE  LET b == findBraceType(s)
           IN  b.word \in Text /\ (b.op = "ASSIGN" => HasEq(s))
  <1>0. <<>> \in Text
    BY DEF Text
  <1>1. NoOperator.word \in Text /\ NoOperator.op # "ASSIGN"
    BY <1>0 DEF NoOperator
  <1>2. CASE s = <<>>
    BY <1>1, <1>2 DEF findBraceType
  <1>3. CASE s # <<>> /\ s[1] = "#" /\ IsName(Tail(s))
    <2>1. findBraceType(s) = [NoOperator EXCEPT !.op = "LENGTH", !.name = Tail(s)]
      BY <1>3 DEF findBraceType
    <2>2. findBraceType(s).word = <<>> /\ findBraceType(s).op = "LENGTH"
      BY <2>1 DEF NoOperator
    <2> QED BY <1>0, <2>2
  <1>4. CASE s # <<>> /\ ~(s[1] = "#" /\ IsName(Tail(s)))
    <2> DEFINE len == ParameterLength(s)
               name == SubSeq(s, 1, len)
               after == SubSeq(s, len + 1, Len(s))
               colon == after # <<>> /\ after[1] = ":"
               ops == IF colon THEN Tail(after) ELSE after
    <2>1. len \in 1..Len(s) /\ Len(s) \in Nat \ {0}
      BY <1>4, ParameterLengthIs
    <2>2. findBraceType(s) =
            IF after = <<>> THEN [NoOperator EXCEPT !.op = "PLAIN", !.name = name]
            ELSE IF ops # <<>> /\ ops[1] \in DOMAIN Operator
                 THEN [op |-> Operator[ops[1]], colon |-> colon, name |-> name, word |-> Tail(ops)]
            ELSE IF ~colon /\ ops[1] \in {"%", "#"}
                 THEN [NoOperator EXCEPT !.op = "REMOVE", !.name = name]
            ELSE NoOperator
      BY <1>4 DEF findBraceType
    <2>3. /\ after \in Text /\ Len(after) \in Nat
          /\ \A i \in 1..Len(after) : len + i \in DOMAIN s /\ after[i] = s[len + i]
      BY <2>1 DEF Text
    <2> HIDE DEF len, after
    <2>4. ASSUME ops # <<>>
          PROVE  /\ ops \in Text
                 /\ \E i \in DOMAIN s : ops[1] = s[i]
      <3>1. CASE colon
        <4>1. Tail(after) \in Seq(STRING) /\ Tail(after) # <<>>
          BY <2>3, <2>4, <3>1 DEF Text
        <4>2. Len(after) >= 2 /\ Tail(after)[1] = after[2]
          BY <2>3, <3>1, <4>1 DEF Text
        <4>3. 2 \in 1..Len(after)
          BY <2>3, <4>2
        <4> QED BY <2>3, <3>1, <4>1, <4>2, <4>3 DEF Text
      <3>2. CASE ~colon
        <4>1. 1 \in 1..Len(after)
          BY <2>3, <2>4, <3>2 DEF Text
        <4> QED BY <2>3, <3>2, <4>1
      <3> QED BY <3>1, <3>2
    <2> HIDE DEF colon, name
    <2>5. CASE after = <<>>
      <3>1. findBraceType(s).word = <<>> /\ findBraceType(s).op = "PLAIN"
        BY <2>2, <2>5 DEF NoOperator
      <3> QED BY <1>0, <3>1
    <2>6. CASE after # <<>> /\ ops # <<>> /\ ops[1] \in DOMAIN Operator
      <3>1. findBraceType(s).word = Tail(ops) /\ findBraceType(s).op = Operator[ops[1]]
        BY <2>2, <2>6
      <3>2. Tail(ops) \in Text
        BY <2>4, <2>6, TailText
      <3>3. Operator[ops[1]] = "ASSIGN" => HasEq(s)
        BY <2>4, <2>6, AssignOperator DEF HasEq
      <3> QED BY <3>1, <3>2, <3>3
    <2>7. CASE after # <<>> /\ ~(ops # <<>> /\ ops[1] \in DOMAIN Operator) /\ ~colon /\ ops[1] \in {"%", "#"}
      <3>1. findBraceType(s).word = <<>> /\ findBraceType(s).op = "REMOVE"
        BY <2>2, <2>7 DEF NoOperator
      <3> QED BY <1>0, <3>1
    <2>8. CASE after # <<>> /\ ~(ops # <<>> /\ ops[1] \in DOMAIN Operator) /\ ~(~colon /\ ops[1] \in {"%", "#"})
      BY <1>1, <2>2, <2>8
    <2> QED BY <2>5, <2>6, <2>7, <2>8
  <1> QED BY <1>2, <1>3, <1>4

-----------------------------------------------------------------------------
(* The handlers.                                                             *)

\* What a step of expandWord may do to the variables: it sets a name with an = in it.
Sets(t, u) == u = t \/ \E key, v : HasEq(key) /\ u = hashTableInsert(t, key, v)

\* The calls stay in order, the word stays, and no variable that is a name is set.
Expands == CallsInv' /\ word' = word /\ Sets(table, table')

LEMMA AppendsExpand ==
    ASSUME CallsInv, result = Running, NEW n \in 0..Rest, NEW s, Appends(n, s)
    PROVE  Expands
  BY AppendsKeep DEF Expands, Sets

LEMMA MovesExpand ==
    ASSUME CallsInv, result = Running, NEW n \in 0..Rest, NEW s, NEW st \in States, Moves(n, s, st),
           table' = table
    PROVE  Expands
  BY MovesKeep DEF Expands, Sets

LEMMA ErrorExpands ==
    ASSUME NEW st \in Status \ {"RUNNING"}, Error(st), table' = table
    PROVE  Expands
  BY ErrorKeeps DEF Expands, Sets

LEMMA LookupExpands ==
    ASSUME NEW name, LookupFails(name)
    PROVE  Expands
  <1>1. "ERROR_INDEX_OUT_OF_BOUNDS" \in Status \ {"RUNNING"}
    BY DEF Status, InsertError
  <1> QED BY <1>1, ErrorExpands DEF LookupFails

LEMMA NormalExpands ==
    ASSUME CallsInv, expandNormal
    PROVE  Expands
  <1>1. result = Running /\ Rest > 0 /\ Rest \in Nat
    BY TopIs DEF expandNormal, Handles
  <1>2. 1 \in 0..Rest /\ {"DOLLAR", "TILDE"} \subseteq States
    BY <1>1 DEF States
  <1>3. CASE Moves(1, <<>>, "DOLLAR") /\ table' = table
    BY <1>1, <1>2, <1>3, MovesExpand
  <1>4. CASE Moves(1, <<>>, "TILDE") /\ table' = table
    BY <1>1, <1>2, <1>4, MovesExpand
  <1>5. CASE Appends(1, <<CharAt(1)>>)
    BY <1>1, <1>2, <1>5, AppendsExpand
  <1> QED BY <1>3, <1>4, <1>5 DEF expandNormal

LEMMA NameLengthIs ==
    ASSUME CallsInv, result = Running, Rest > 0
    PROVE  NameLength \in 0..Rest
  <1> DEFINE S == {n \in 1..Rest - 1 : TypeAt(n + 1) # TypeAt(1) \/ CharAt(n + 1) \notin NameChar}
  <1>1. Rest \in Nat
    BY TopIs
  <1>2. S \in SUBSET Nat /\ S \subseteq 0..Rest /\ Rest \in 0..Rest
    <2>1. 1..Rest - 1 \in SUBSET Nat /\ 1..Rest - 1 \subseteq 0..Rest /\ Rest \in 0..Rest
      BY <1>1
    <2> QED BY <2>1
  <1>3. NameLength = Least(S, Rest)
    BY DEF NameLength
  <1> HIDE DEF S
  <1> QED BY <1>2, <1>3, LeastIs

LEMMA DollarExpands ==
    ASSUME CallsInv, expandDollar
    PROVE  Expands
  <1>1. result = Running /\ Rest \in Nat
    BY TopIs DEF expandDollar, Handles
  <1>2. 0 \in 0..Rest /\ {"BRACE", "ARITHMETIC", "COMMAND_SUB"} \subseteq States
    BY <1>1 DEF States
  <1>3. Rest > 0 => 1 \in 0..Rest
    BY <1>1
  <1>4. CASE Rest = 0 /\ Appends(0, <<"$">>)
    BY <1>1, <1>2, <1>4, AppendsExpand
  <1>5. CASE Starts(<<"{">>) /\ Moves(1, <<>>, "BRACE") /\ table' = table
    <2>0. Len(<<"{">>) = 1
      OBVIOUS
    <2>1. 1 \in 0..Rest
      <3>1. Rest >= Len(<<"{">>)
        BY <1>5 DEF Starts
      <3> QED BY <1>1, <2>0, <3>1
    <2> QED BY <1>1, <1>2, <1>5, <2>1, MovesExpand
  <1>6. CASE Starts(<<"(", "(">>) /\ Moves(2, <<>>, "ARITHMETIC") /\ table' = table
    <2>1. 2 \in 0..Rest
      BY <1>1, <1>6 DEF Starts
    <2> QED BY <1>1, <1>2, <1>6, <2>1, MovesExpand
  <1>7. CASE Starts(<<"(">>) /\ Moves(1, <<>>, "COMMAND_SUB") /\ table' = table
    <2>0. Len(<<"(">>) = 1
      OBVIOUS
    <2>1. 1 \in 0..Rest
      <3>1. Rest >= Len(<<"(">>)
        BY <1>7 DEF Starts
      <3> QED BY <1>1, <2>0, <3>1
    <2> QED BY <1>1, <1>2, <1>7, <2>1, MovesExpand
  <1>8. CASE Rest > 0 /\ Appends(1, Special[CharAt(1)])
    BY <1>1, <1>3, <1>8, AppendsExpand
  <1>9. CASE Rest > 0 /\ Appends(NameLength, Value(Chars(1, NameLength)))
    BY <1>1, <1>9, NameLengthIs, AppendsExpand
  <1>10. CASE Rest > 0 /\ Appends(0, <<"$">>)
    BY <1>1, <1>2, <1>10, AppendsExpand
  <1> QED BY <1>4, <1>5, <1>6, <1>7, <1>8, <1>9, <1>10 DEF expandDollar

LEMMA TildeExpands ==
    ASSUME CallsInv, expandTilde
    PROVE  Expands
  <1>1. result = Running /\ Rest \in Nat
    BY TopIs DEF expandTilde, Handles
  <1> DEFINE S == {n \in 0..Rest - 1 : CharAt(n + 1) = "/" /\ TypeAt(n + 1) = "UNQUOTED"}
  <1>2. TildeEnd \in 0..Rest
    <2>1. S \in SUBSET Nat /\ S \subseteq 0..Rest /\ Rest \in 0..Rest
      <3>1. 0..Rest - 1 \in SUBSET Nat /\ 0..Rest - 1 \subseteq 0..Rest /\ Rest \in 0..Rest
        BY <1>1
      <3> QED BY <3>1
    <2>2. TildeEnd = Least(S, Rest)
      BY DEF TildeEnd
    <2> HIDE DEF S
    <2> QED BY <2>1, <2>2, LeastIs
  <1>3. (\E s : Appends(0, s) \/ Appends(TildeEnd, s)) \/ LookupFails(Home)
    BY Zenon DEF expandTilde
  <1>4. 0 \in 0..Rest
    BY <1>1
  <1> QED BY <1>1, <1>2, <1>3, <1>4, AppendsExpand, LookupExpands

LEMMA ArithmeticExpands ==
    ASSUME CallsInv, expandArithmetic
    PROVE  Expands
  <1>1. result = Running /\ Rest \in Nat
    BY TopIs DEF expandArithmetic, Handles
  <1> DEFINE ends == {n \in 1..Rest - 1 : CharAt(n) = ")" /\ CharAt(n + 1) = ")"}
  <1>2. \/ ends # {} /\ Appends(Min(ends) + 1, <<>>)
        \/ Error("ERROR_EXPANSION_FAILURE") /\ table' = table
    BY DEF expandArithmetic
  <1>3. ends \in SUBSET Nat /\ ends \subseteq 1..Rest - 1
    <2>1. 1..Rest - 1 \in SUBSET Nat
      BY <1>1
    <2> QED BY <2>1
  <1> HIDE DEF ends
  <1>4. CASE ends # {} /\ Appends(Min(ends) + 1, <<>>)
    <2>1. Min(ends) \in 1..Rest - 1
      BY <1>3, <1>4, MinIs
    <2>2. Min(ends) + 1 \in 0..Rest
      BY <1>1, <2>1
    <2> QED BY <1>1, <1>4, <2>2, AppendsExpand
  <1>5. "ERROR_EXPANSION_FAILURE" \in Status \ {"RUNNING"}
    BY DEF Status
  <1> QED BY <1>2, <1>4, <1>5, ErrorExpands

LEMMA CommandSubExpands ==
    ASSUME CallsInv, expandCommandSub
    PROVE  Expands
  <1>1. "ERROR_DEFAULT" \in Status \ {"RUNNING"}
    BY DEF Status
  <1> QED BY <1>1, ErrorExpands DEF expandCommandSub

\* The word of a brace gets a call of its own.
LEMMA ExpandsWordExpands ==
    ASSUME CallsInv, result = Running, NEW n \in 0..Rest, NEW b, b.word \in Text, ExpandsWord(n, b)
    PROVE  Expands
  <1>1. /\ frames # <<>> /\ IsFrame(Top) /\ Top.pos \in 0..Len(Top.input) /\ Rest \in Nat
        /\ Top.pos + Rest = Len(Top.input) /\ Len(Top.input) \in Nat
    BY TopIs
  <1> DEFINE f == Moved(Top, n, <<>>, "NORMAL")
             fs == [frames EXCEPT ![Len(frames)] = f]
             g == expanderCtor(b.word, <<>>)
  <1>2. IsFrame(f) /\ f.state = "NORMAL"
    <2>1. n \in Nat /\ Top.pos + n <= Len(Top.input) /\ "NORMAL" \in States
      BY <1>1 DEF States
    <2> QED BY <1>1, <2>1, FrameIs
  <1>3. IsFrame(g)
    BY NewFrameIs
  <1>4. frames' = Append(fs, g) /\ word' = word /\ table' = table /\ result' = result
    BY DEF ExpandsWord
  <1> HIDE DEF f, g
  <1>5. FramesOK(fs) /\ fs # <<>> /\ fs[Len(fs)] = f
    BY <1>1, <1>2, ReplaceLast DEF CallsInv
  <1> HIDE DEF fs
  <1>6. FramesOK(frames') /\ frames' # <<>>
    BY <1>2, <1>3, <1>4, <1>5, PushFrame
  <1> QED BY <1>1, <1>4, <1>6 DEF CallsInv, Expands, Sets

LEMMA AssignsExpand ==
    ASSUME CallsInv, result = Running, NEW n \in 0..Rest, NEW b, NEW text, HasEq(text), Assigns(n, b, text)
    PROVE  Expands
  <1>1. Sets(table, table')
    BY DEF Assigns, Sets
  <1>2. "NORMAL" \in States /\ InsertError \subseteq Status \ {"RUNNING"} /\ "ERROR_MALLOC_FAILURE" \in InsertError
    BY DEF States, Status, InsertError
  <1>3. CASE Moves(n, b.word, "NORMAL")
    BY <1>1, <1>2, <1>3, MovesKeep DEF Expands
  <1>4. CASE \E st \in InsertError : Error(st)
    BY <1>1, <1>2, <1>4, ErrorKeeps DEF Expands
  <1> QED BY <1>2, <1>3, <1>4 DEF Assigns

LEMMA ParameterExpands ==
    ASSUME CallsInv, expandParameter
    PROVE  Expands
  <1>1. result = Running /\ Rest \in Nat
    BY TopIs DEF expandParameter, Handles
  <1> DEFINE end == BraceEnd
             text == Chars(1, end - 1)
             b == findBraceType(text)
  <1>2. end \in 1..Rest + 1
    BY <1>1, BraceEndIs
  <1>3. \/ end > Rest /\ Error("ERROR_EXPANSION_FAILURE") /\ table' = table
        \/ end <= Rest /\ evalBraceExpansion(end, b, text)
    BY DEF expandParameter
  <1>4. "ERROR_EXPANSION_FAILURE" \in Status \ {"RUNNING"}
    BY DEF Status
  <1> HIDE DEF end
  <1>5. CASE end > Rest /\ Error("ERROR_EXPANSION_FAILURE") /\ table' = table
    BY <1>4, <1>5, ErrorExpands
  <1>6. CASE end <= Rest /\ evalBraceExpansion(end, b, text)
    <2>1. end \in 0..Rest /\ end - 1 \in Int /\ end - 1 <= Rest
      BY <1>1, <1>2, <1>6
    <2>2. text \in Text
      BY <1>1, <2>1, CharsIs
    <2> HIDE DEF text
    <2>3. b.word \in Text /\ (b.op = "ASSIGN" => HasEq(text))
      BY <2>2, BraceTypeIs
    <2> HIDE DEF b
    <2>4. \/ \E s : Appends(end, s)
          \/ ExpandsWord(end, b)
          \/ b.op = "ASSIGN" /\ Assigns(end, b, text)
          \/ Error("ERROR_EXPANSION_FAILURE") /\ table' = table
          \/ LookupFails(b.name)
      BY <1>6, Zenon DEF evalBraceExpansion
    <2>5. CASE \E s : Appends(end, s)
      BY <1>1, <2>1, <2>5, AppendsExpand
    <2>6. CASE ExpandsWord(end, b)
      BY <1>1, <2>1, <2>3, <2>6, ExpandsWordExpands
    <2>7. CASE b.op = "ASSIGN" /\ Assigns(end, b, text)
      BY <1>1, <2>1, <2>3, <2>7, AssignsExpand
    <2>8. CASE Error("ERROR_EXPANSION_FAILURE") /\ table' = table
      BY <1>4, <2>8, ErrorExpands
    <2> QED BY <2>4, <2>5, <2>6, <2>7, <2>8, LookupExpands
  <1> QED BY <1>3, <1>5, <1>6

LEMMA ReturnExpands ==
    ASSUME CallsInv, Return
    PROVE  Expands
  <1>1. result = Running
    BY DEF Return
  <1>2. frames # <<>> /\ Len(frames) \in Nat \ {0} /\ FramesOK(frames) /\ word' = word /\ table' = table
    BY <1>1, TopIs DEF CallsInv, Return
  <1>3. CASE /\ Len(frames) = 1 /\ frames' = <<>>
             /\ result' = [st |-> "SUCCESS", output |-> Top.output]
    <2>1. result'.st = "SUCCESS" /\ result' # Running
      BY <1>3 DEF Running
    <2>2. frames' = <<>> /\ result'.st \in Status
      BY <1>3, <2>1 DEF Status
    <2> QED BY <1>2, <2>1, <2>2, NoFrame DEF CallsInv, Expands, Sets
  <1>4. CASE Len(frames) > 1 /\ ~(Len(frames) = 1)
    <2> DEFINE caller == frames[Len(frames) - 1]
               fs == SubSeq(frames, 1, Len(frames) - 1)
               f == Moved(caller, 0, Top.output, caller.state)
    <2>1. frames' = [fs EXCEPT ![Len(frames) - 1] = f] /\ result' = result
      BY <1>4 DEF Return
    <2>2. FramesOK(fs) /\ fs # <<>> /\ Len(fs) = Len(frames) - 1
      BY <1>2, <1>4, PopFrame
    <2>3. IsFrame(f)
      <3>1. Len(frames) - 1 \in 1..Len(frames)
        BY <1>2, <1>4
      <3>2. IsFrame(caller)
        BY <1>2, <3>1 DEF FramesOK
      <3> HIDE DEF caller
      <3>3. /\ caller.pos \in 0..Len(caller.input) /\ caller.state \in States /\ caller.input \in Text
        BY <3>2 DEF IsFrame
      <3>4. Len(caller.input) \in Nat
        BY <3>3 DEF Text
      <3>5. 0 \in Nat /\ caller.pos + 0 <= Len(caller.input)
        BY <3>3, <3>4
      <3> QED BY <3>2, <3>3, <3>4, <3>5, FrameIs
    <2> HIDE DEF f, fs
    <2>4. FramesOK(frames') /\ frames' # <<>>
      <3>1. frames' = [fs EXCEPT ![Len(fs)] = f]
        BY <2>1, <2>2
      <3> QED BY <2>2, <2>3, <3>1, ReplaceLast
    <2> QED BY <1>1, <1>2, <2>1, <2>4 DEF CallsInv, Expands, Sets
  <1> QED BY <1>2, <1>3, <1>4 DEF Return

\* A step of expandWord, with the memory it needs or without.
LEMMA ExpandWordExpands ==
    ASSUME CallsInv, expandWord \/ Fails
    PROVE  Expands /\ result = Running
  <1>1. result = Running
    BY DEF expandWord, expandNormal, expandDollar, expandTilde, expandArithmetic, expandCommandSub,
           expandParameter, Handles, Return, Fails
  <1>2. CASE Fails
    <2>1. "ERROR_MALLOC_FAILURE" \in Status \ {"RUNNING"}
      BY DEF Status, InsertError
    <2> QED BY <1>1, <1>2, <2>1, ErrorExpands DEF Fails
  <1> QED BY <1>1, <1>2, NormalExpands, DollarExpands, TildeExpands, ArithmeticExpands,
             CommandSubExpands, ParameterExpands, ReturnExpands DEF expandWord

-----------------------------------------------------------------------------
(* PWD and OLDPWD.                                                           *)

\* What is set with an = in its name is neither of them.
LEMMA NamesHaveNoEq == ~HasEq(Pwd) /\ ~HasEq(OldPwd)
  BY NamesAssumption DEF HasEq, IsName

\* To set another variable, or to forget what was set, changes nothing.
LEMMA InsertKnows ==
    ASSUME NEW t, NEW r, NEW dir, NEW from, NEW been, NEW sure, Knows(t, r, dir, from, been, sure), NEW k, NEW v
    PROVE  Knows(hashTableInsert(t, k, v), r \ {k}, dir, from, been, sure)
  <1> DEFINE u == hashTableInsert(t, k, v)
  <1>1. DOMAIN u = DOMAIN t \cup {k} /\ \A n \in DOMAIN t : n # k => u[n] = t[n]
    BY DEF hashTableInsert
  <1> HIDE DEF u
  <1>2. r \ {k} \subseteq {Pwd, OldPwd} \cap DOMAIN u
    BY <1>1 DEF Knows
  <1>3. Pwd \in r \ {k} => u[Pwd] \in been /\ (Pwd \in sure => u[Pwd] = dir)
    BY <1>1 DEF Knows
  <1>4. OldPwd \in r \ {k} => u[OldPwd] \in been /\ (OldPwd \in sure => u[OldPwd] = from)
    BY <1>1 DEF Knows
  <1>5. Knows(u, r \ {k}, dir, from, been, sure)
    BY <1>2, <1>3, <1>4 DEF Knows
  <1> QED BY <1>5 DEF u

LEMMA FewerKnow ==
    ASSUME NEW t, NEW r, NEW dir, NEW from, NEW been, NEW sure, Knows(t, r, dir, from, been, sure), NEW q, q \subseteq r
    PROVE  Knows(t, q, dir, from, been, sure)
  BY DEF Knows

LEMMA AssignedKnows ==
    ASSUME NEW t, NEW r, NEW dir, NEW from, NEW been, NEW sure, Knows(t, r, dir, from, been, sure), NEW s
    PROVE  Knows(Assigned(t, s), r \ {splitAssignment(s).key}, dir, from, been, sure)
  <1> DEFINE k == splitAssignment(s).key
             v == splitAssignment(s).value
  <1>1. Assigned(t, s) = hashTableInsert(t, k, v) \/ Assigned(t, s) = t
    BY DEF Assigned
  <1> HIDE DEF k, v
  <1>2. CASE Assigned(t, s) = t
    <2>1. r \ {k} \subseteq r
      OBVIOUS
    <2>2. Knows(t, r \ {k}, dir, from, been, sure)
      BY <2>1, FewerKnow
    <2> QED BY <1>2, <2>2 DEF k
  <1>3. CASE Assigned(t, s) = hashTableInsert(t, k, v)
    <2>1. Knows(hashTableInsert(t, k, v), r \ {k}, dir, from, been, sure)
      BY InsertKnows
    <2> QED BY <1>3, <2>1 DEF k
  <1> QED BY <1>1, <1>2, <1>3

\* What the expansion of a word sets is neither of them.
LEMMA SetsKnows ==
    ASSUME NEW t, NEW u, NEW r, NEW dir, NEW from, NEW been, NEW sure, Knows(t, r, dir, from, been, sure), Sets(t, u)
    PROVE  Knows(u, r, dir, from, been, sure)
  <1>1. CASE u = t
    BY <1>1
  <1>2. CASE \E key, v : HasEq(key) /\ u = hashTableInsert(t, key, v)
    <2>1. PICK key, v : HasEq(key) /\ u = hashTableInsert(t, key, v)
      BY <1>2
    <2>2. key # Pwd /\ key # OldPwd
      BY <2>1, NamesHaveNoEq
    <2>3. r \ {key} = r
      BY <2>2 DEF Knows
    <2>4. Knows(u, r \ {key}, dir, from, been, sure)
      BY <2>1, InsertKnows
    <2> QED BY <2>3, <2>4
  <1> QED BY <1>1, <1>2 DEF Sets

\* cd saves PWD in OLDPWD, or cannot: then OLDPWD is what it was, and not where cd began.
LEMMA SavedKnows ==
    ASSUME Knows(table, right, cwd, before, visited, told), NEW saved \in MaySave
    PROVE  Knows(SavesPwd(saved), SavedRight(saved), cwd, cwd, visited, SavedTold(saved))
  <1>1. Pwd # OldPwd /\ saved \in BOOLEAN
    BY NamesAssumption DEF MaySave
  <1>2. /\ Pwd \in SavedTold(saved) <=> Pwd \in told
        /\ OldPwd \in SavedTold(saved) <=> saved /\ Pwd \in right \cap told
    BY <1>1 DEF SavedTold
  <1>3. CASE saved
    <2>1. Pwd \in DOMAIN table /\ SavesPwd(saved) = hashTableInsert(table, OldPwd, table[Pwd])
      BY <1>3 DEF MaySave, SavesPwd
    <2>2. SavedRight(saved) = (right \ {OldPwd}) \cup {k \in {OldPwd} : Pwd \in right}
      BY <1>3 DEF SavedRight
    <2> DEFINE u == SavesPwd(saved)
    <2>3. DOMAIN u = DOMAIN table \cup {OldPwd} /\ u[OldPwd] = table[Pwd] /\ u[Pwd] = table[Pwd]
      BY <1>1, <2>1 DEF hashTableInsert
    <2> HIDE DEF u
    <2>4. /\ SavedRight(saved) \subseteq {Pwd, OldPwd} \cap DOMAIN u
          /\ Pwd \in SavedRight(saved) <=> Pwd \in right
          /\ OldPwd \in SavedRight(saved) <=> Pwd \in right
      BY <1>1, <2>2, <2>3 DEF Knows
    <2>5. Knows(u, SavedRight(saved), cwd, cwd, visited, SavedTold(saved))
      BY <1>2, <2>3, <2>4 DEF Knows
    <2> QED BY <2>5 DEF u
  <1>4. CASE ~saved
    <2>1. SavesPwd(saved) = table /\ SavedRight(saved) = right
      BY <1>4 DEF SavesPwd, SavedRight
    <2> QED BY <1>2, <1>4, <2>1 DEF Knows
  <1> QED BY <1>1, <1>3, <1>4

\* cd comes to a directory and writes it into PWD, or cannot.
LEMMA WrittenKnows ==
    ASSUME NEW t, NEW r, NEW dir, NEW from, NEW been, NEW sure, Knows(t, r, dir, from, been, sure), NEW to
    PROVE  /\ Knows(hashTableInsert(t, Pwd, to), r \cup {Pwd}, to, from, been \cup {to}, sure \cup {Pwd})
           /\ Knows(t, r, to, from, been \cup {to}, sure \ {Pwd})
  <1>1. Pwd # OldPwd
    BY NamesAssumption
  <1> DEFINE u == hashTableInsert(t, Pwd, to)
  <1>2. DOMAIN u = DOMAIN t \cup {Pwd} /\ u[Pwd] = to /\ \A n \in DOMAIN t : n # Pwd => u[n] = t[n]
    BY DEF hashTableInsert
  <1> HIDE DEF u
  <1>3. Knows(u, r \cup {Pwd}, to, from, been \cup {to}, sure \cup {Pwd})
    BY <1>1, <1>2 DEF Knows
  <1>4. Knows(t, r, to, from, been \cup {to}, sure \ {Pwd})
    BY <1>1 DEF Knows
  <1> QED BY <1>3, <1>4 DEF u

-----------------------------------------------------------------------------
(* The commands.                                                             *)

LEMMA CommandIs ==
    ASSUME ArgumentsInv, commands # <<>>
    PROVE  /\ IsLine(Command) /\ Command.words \in Seq(ToSet(Command.words)) /\ Len(Command.words) \in Nat
           /\ \A n \in 1..Len(Command.words) : Command.words[n].chars \in Text
  <1>1. Command \in ToSet(commands)
    BY TailIs DEF ArgumentsInv, Command
  <1>2. IsLine(Command)
    BY <1>1 DEF ArgumentsInv
  <1>3. Command.words \in Seq(ToSet(Command.words)) /\ \A w \in ToSet(Command.words) : w.chars \in Text
    BY <1>2 DEF IsLine
  <1>4. Len(Command.words) \in Nat /\ DOMAIN Command.words = 1..Len(Command.words)
    BY <1>3, SequenceIs
  <1>5. \A n \in 1..Len(Command.words) : Command.words[n] \in ToSet(Command.words)
    BY <1>4 DEF ToSet
  <1> QED BY <1>2, <1>3, <1>4, <1>5

\* A line that is done leaves the next one at its beginning.
LEMMA FinishKeeps ==
    ASSUME CommandInv, commands # <<>>, result # Running, NEW s \in 0..127, NEW t, NEW r, Finish(s, t, r),
           PlacesInv', Knows(t, r, cwd', before', visited', told')
    PROVE  CommandInv'
  <1>1. /\ commands' = Tail(commands) /\ last_exec_status' = s /\ table' = t
        /\ own' = [table |-> t, right |-> r] /\ right' = r
        /\ pc' = "PREFIX" /\ at' = 1 /\ argv' = <<>>
        /\ word' = word /\ frames' = frames /\ result' = result
    BY DEF Finish, expansion
  <1>2. CallsInv'
    BY <1>1 DEF CommandInv, CallsInv
  <1>3. ArgumentsInv'
    <2>1. /\ commands \in Seq(ToSet(commands)) /\ \A c \in ToSet(commands) : IsLine(c)
      BY DEF CommandInv, ArgumentsInv
    <2>2. /\ Tail(commands) \in Seq(ToSet(Tail(commands))) /\ \A c \in ToSet(Tail(commands)) : IsLine(c)
      BY <2>1, TailIs
    <2>3. <<>> \in Seq(ToSet(<<>>))
      OBVIOUS
    <2> QED BY <1>1, <2>2, <2>3 DEF ArgumentsInv
  <1>4. own'.table = t /\ own'.right = r
    BY <1>1
  <1>5. DirectoriesInv'
    BY <1>1, <1>4 DEF DirectoriesInv
  <1> QED BY <1>2, <1>3, <1>5 DEF CommandInv

LEMMA ChildKeeps ==
    ASSUME CommandInv, commands # <<>>, result # Running, NEW s \in 0..127, ChildEnds(s),
           UNCHANGED places
    PROVE  CommandInv'
  <1>1. Finish(s, own.table, own.right)
    BY DEF ChildEnds
  <1>2. PlacesInv' /\ Knows(own.table, own.right, cwd', before', visited', told')
    BY DEF CommandInv, DirectoriesInv, PlacesInv, places
  <1> QED BY <1>1, <1>2, FinishKeeps

LEMMA ShellKeeps ==
    ASSUME CommandInv, commands # <<>>, result # Running, NEW s \in 0..127, Finish(s, table, right),
           UNCHANGED places
    PROVE  CommandInv'
  <1>1. PlacesInv' /\ Knows(table, right, cwd', before', visited', told')
    BY DEF CommandInv, DirectoriesInv, PlacesInv, places
  <1> QED BY <1>1, FinishKeeps

LEMMA CodeIs == \A st \in DOMAIN Code : Code[st] \in 0..127
  <1> SUFFICES ASSUME NEW st \in DOMAIN Code PROVE Code[st] \in 0..127
    OBVIOUS
  <1>1. CASE st = "ERROR_DEFAULT"
    BY <1>1 DEF Code
  <1>2. CASE st = "ERROR_MALLOC_FAILURE"
    BY <1>2 DEF Code
  <1>3. CASE st = "ERROR_INDEX_OUT_OF_BOUNDS"
    BY <1>3 DEF Code
  <1>4. CASE st = "ERROR_EXPANSION_FAILURE"
    BY <1>4 DEF Code
  <1>5. CASE st = "ERROR_INT_OVERFLOW"
    BY <1>5 DEF Code
  <1> QED BY <1>1, <1>2, <1>3, <1>4, <1>5 DEF Code

LEMMA RefusedKeeps ==
    ASSUME CommandInv, commands # <<>>, result # Running, NEW st \in DOMAIN Code, Refused(Code[st]),
           UNCHANGED places
    PROVE  CommandInv'
  <1>1. Code[st] \in 0..127
    BY CodeIs
  <1>2. last_exec_status \in 0..127
    BY DEF CommandInv, DirectoriesInv
  <1> QED BY <1>1, <1>2, ShellKeeps, ChildKeeps DEF Refused

-----------------------------------------------------------------------------
(* The steps of a session.                                                   *)

\* No word is expanded before or behind the words.
LEMMA NothingRuns ==
    ASSUME CommandInv, pc # "EXPAND"
    PROVE  result # Running
  BY DEF CommandInv, ArgumentsInv

\* A step that changes a variable and goes on with the next assignment or argument.
LEMMA NextAtKeeps ==
    ASSUME CommandInv, pc # "EXPAND", at' = at + 1, Knows(table', right', cwd, before, visited, told),
           UNCHANGED places,
           UNCHANGED <<commands, pc, argv, own, expansion, last_exec_status>>
    PROVE  CommandInv'
  <1>1. CallsInv'
    BY DEF CommandInv, CallsInv, expansion
  <1>2. ArgumentsInv'
    BY DEF CommandInv, ArgumentsInv, expansion, Command
  <1>3. DirectoriesInv'
    BY DEF CommandInv, DirectoriesInv, PlacesInv, places
  <1> QED BY <1>1, <1>2, <1>3 DEF CommandInv

LEMMA PrefixKeeps ==
    ASSUME CommandInv, Prefix
    PROVE  CommandInv'
  <1>1. commands # <<>> /\ pc = "PREFIX" /\ UNCHANGED places /\ result # Running
    BY NothingRuns DEF Prefix
  <1> DEFINE s == Command.assigns[at]
  <1>2. \/ /\ table' = Assigned(table, s)
           /\ right' = right \ {splitAssignment(s).key}
           /\ at' = at + 1
           /\ UNCHANGED <<commands, pc, argv, own, expansion, last_exec_status>>
        \/ \E st \in InsertError : Refused(Code[st])
    BY DEF Prefix
  <1> HIDE DEF s
  <1>3. CASE /\ table' = Assigned(table, s)
             /\ right' = right \ {splitAssignment(s).key}
             /\ at' = at + 1
             /\ UNCHANGED <<commands, pc, argv, own, expansion, last_exec_status>>
    <2>1. Knows(table', right', cwd, before, visited, told)
      BY <1>3, AssignedKnows DEF CommandInv, DirectoriesInv
    <2> QED BY <1>1, <1>3, <2>1, NextAtKeeps
  <1>4. CASE \E st \in InsertError : Refused(Code[st])
    <2>1. PICK st \in DOMAIN Code : Refused(Code[st])
      BY <1>4 DEF Code, InsertError
    <2> QED BY <1>1, <2>1, RefusedKeeps
  <1> QED BY <1>2, <1>3, <1>4

\* The call for a word starts at its beginning.
LEMMA CallsKeep ==
    ASSUME NEW w, w.chars \in Text, Calls(w)
    PROVE  CallsInv' /\ result' = Running
  <1>1. frames' = <<expanderCtor(w.chars, w.types)>> /\ result' = Running
    BY DEF Calls
  <1>2. FramesOK(<<expanderCtor(w.chars, w.types)>>) /\ <<expanderCtor(w.chars, w.types)>> # <<>>
    BY NewFrameIs, OneFrame
  <1>3. Running.st \in Status
    BY DEF Running, Status
  <1> QED BY <1>1, <1>2, <1>3 DEF CallsInv

LEMMA PrefixDoneKeeps ==
    ASSUME CommandInv, PrefixDone
    PROVE  CommandInv'
  <1>1. commands # <<>> /\ pc = "PREFIX" /\ UNCHANGED places /\ result # Running
    BY NothingRuns DEF PrefixDone
  <1>2. last_exec_status \in 0..127 /\ argv = <<>>
    BY <1>1 DEF CommandInv, DirectoriesInv, ArgumentsInv
  <1>3. CASE Finish(last_exec_status, table, right)
    BY <1>1, <1>2, <1>3, ShellKeeps
  <1>4. CASE /\ Command.kind # "NONE"
             /\ at' = 1
             /\ IF Command.words = <<>>
                THEN pc' = "RUN" /\ UNCHANGED expansion
                ELSE pc' = "EXPAND" /\ Calls(Command.words[1])
             /\ UNCHANGED <<commands, argv, own, right, table, last_exec_status>>
    <2>1. /\ Command.words \in Seq(ToSet(Command.words)) /\ Len(Command.words) \in Nat
          /\ \A n \in 1..Len(Command.words) : Command.words[n].chars \in Text
      BY <1>1, CommandIs DEF CommandInv
    <2>2. Command' = Command
      BY <1>4 DEF Command
    <2>3. DirectoriesInv'
      BY <1>1, <1>4 DEF CommandInv, DirectoriesInv, PlacesInv, places
    <2>4. CASE Command.words = <<>>
      <3>1. CallsInv'
        BY <1>4, <2>4 DEF CommandInv, CallsInv, expansion
      <3>2. Len(argv) = Len(Command.words)
        BY <1>2, <2>4
      <3>3. ArgumentsInv'
        BY <1>1, <1>4, <2>2, <2>4, <3>2 DEF CommandInv, ArgumentsInv, expansion
      <3> QED BY <2>3, <3>1, <3>3 DEF CommandInv
    <2>5. CASE Command.words # <<>>
      <3>1. Len(Command.words) >= 1 /\ Command.words[1].chars \in Text
        BY <2>1, <2>5
      <3>2. CallsInv' /\ result' = Running
        BY <1>4, <2>5, <3>1, CallsKeep
      <3>3. Len(argv) = 0
        BY <1>2
      <3>4. ArgumentsInv'
        BY <1>1, <1>4, <2>1, <2>2, <2>5, <3>1, <3>2, <3>3 DEF CommandInv, ArgumentsInv
      <3> QED BY <2>3, <3>2, <3>4 DEF CommandInv
    <2> QED BY <2>4, <2>5
  <1> QED BY <1>3, <1>4 DEF PrefixDone

LEMMA ForkFailsKeeps ==
    ASSUME CommandInv, ForkFails
    PROVE  CommandInv'
  <1>1. commands # <<>> /\ pc = "PREFIX" /\ UNCHANGED places /\ result # Running
        /\ ChildEnds(last_exec_status)
    BY NothingRuns DEF ForkFails
  <1>2. last_exec_status \in 0..127
    BY DEF CommandInv, DirectoriesInv
  <1> QED BY <1>1, <1>2, ChildKeeps

LEMMA ExpandKeeps ==
    ASSUME CommandInv, Expand \/ OutOfMemory
    PROVE  CommandInv'
  <1>1. /\ pc = "EXPAND" /\ (expandWord \/ Fails)
        /\ UNCHANGED <<commands, pc, at, argv, own, places, right, last_exec_status>>
    BY DEF Expand, OutOfMemory
  <1>2. CallsInv' /\ Sets(table, table')
    BY <1>1, ExpandWordExpands DEF CommandInv, Expands
  <1>3. ArgumentsInv'
    BY <1>1 DEF CommandInv, ArgumentsInv, Command
  <1>4. Knows(table', right, cwd, before, visited, told)
    BY <1>2, SetsKnows DEF CommandInv, DirectoriesInv
  <1>5. DirectoriesInv'
    BY <1>1, <1>4 DEF CommandInv, DirectoriesInv, PlacesInv, places
  <1> QED BY <1>2, <1>3, <1>5 DEF CommandInv

LEMMA ExpandedKeeps ==
    ASSUME CommandInv, Expanded
    PROVE  CommandInv'
  <1>1. /\ pc = "EXPAND" /\ result.st = "SUCCESS" /\ argv' = Append(argv, result.output)
        /\ UNCHANGED <<commands, own, places, right, table, last_exec_status>>
    BY DEF Expanded
  <1>2. /\ commands # <<>> /\ at \in Nat \ {0} /\ Len(argv) = at - 1 /\ at <= Len(Command.words)
        /\ argv \in Seq(ToSet(argv))
    BY <1>1 DEF CommandInv, ArgumentsInv
  <1>3. argv' \in Seq(ToSet(argv')) /\ Len(argv') = at
    BY <1>1, <1>2, AppendIs
  <1>4. Command' = Command
    BY <1>1 DEF Command
  <1>5. DirectoriesInv'
    BY <1>1 DEF CommandInv, DirectoriesInv, PlacesInv, places
  <1>6. /\ Len(Command.words) \in Nat
        /\ \A n \in 1..Len(Command.words) : Command.words[n].chars \in Text
    BY <1>2, CommandIs DEF CommandInv
  <1>7. CASE at < Len(Command.words) /\ at' = at + 1 /\ pc' = "EXPAND" /\ Calls(Command.words[at + 1])
    <2>1. Command.words[at + 1].chars \in Text
      BY <1>2, <1>6, <1>7
    <2>2. CallsInv' /\ result' = Running
      BY <1>7, <2>1, CallsKeep
    <2>3. ArgumentsInv'
      BY <1>1, <1>2, <1>3, <1>4, <1>6, <1>7 DEF CommandInv, ArgumentsInv
    <2> QED BY <1>5, <2>2, <2>3 DEF CommandInv
  <1>8. CASE ~(at < Len(Command.words)) /\ at' = 1 /\ pc' = "RUN" /\ UNCHANGED expansion
    <2>1. CallsInv'
      BY <1>8 DEF CommandInv, CallsInv, expansion
    <2>2. at = Len(Command.words)
      BY <1>2, <1>6, <1>8
    <2>3. result' # Running
      BY <1>1, <1>8 DEF Running, expansion
    <2>4. ArgumentsInv'
      BY <1>1, <1>2, <1>3, <1>4, <1>8, <2>2, <2>3 DEF CommandInv, ArgumentsInv
    <2> QED BY <1>5, <2>1, <2>4 DEF CommandInv
  <1> QED BY <1>7, <1>8 DEF Expanded

LEMMA ExpandFailsKeeps ==
    ASSUME CommandInv, ExpandFails
    PROVE  CommandInv'
  <1>1. pc = "EXPAND" /\ result.st \in DOMAIN Code /\ Refused(Code[result.st]) /\ UNCHANGED places
    BY DEF ExpandFails
  <1>2. result # Running
    BY <1>1 DEF Running, Code
  <1>3. commands # <<>>
    BY <1>1 DEF CommandInv, ArgumentsInv
  <1> QED BY <1>1, <1>2, <1>3, RefusedKeeps

\* A builtin or a program runs with its command.
LEMMA RunsIs ==
    ASSUME CommandInv, NEW kinds, Runs(kinds)
    PROVE  commands # <<>> /\ pc = "RUN" /\ result # Running
  BY NothingRuns DEF Runs, CommandInv, ArgumentsInv

LEMMA StaysKeeps ==
    ASSUME CommandInv, commands # <<>>, result # Running, NEW saved \in MaySave, before' = cwd, Stays(saved)
    PROVE  CommandInv'
  <1>1. /\ Finish(1, SavesPwd(saved), SavedRight(saved)) /\ told' = SavedTold(saved)
        /\ cwd' = cwd /\ visited' = visited
    BY DEF Stays
  <1>2. PlacesInv /\ Knows(table, right, cwd, before, visited, told)
    BY DEF CommandInv, DirectoriesInv
  <1>3. Knows(SavesPwd(saved), SavedRight(saved), cwd', before', visited', told')
    BY <1>1, <1>2, SavedKnows
  <1>4. PlacesInv'
    BY <1>1, <1>2 DEF PlacesInv, SavedTold
  <1>5. 1 \in 0..127
    OBVIOUS
  <1> QED BY <1>1, <1>3, <1>4, <1>5, FinishKeeps

LEMMA GoesKeeps ==
    ASSUME CommandInv, commands # <<>>, result # Running, NEW saved \in MaySave, before' = cwd,
           NEW dir \in Dirs, Goes(saved, dir, dir)
    PROVE  CommandInv'
  <1> DEFINE t == SavesPwd(saved)
             r == SavedRight(saved)
             sure == SavedTold(saved)
             u == hashTableInsert(t, Pwd, dir)
  <1>1. /\ cwd' = dir /\ visited' = visited \cup {dir}
        /\ \/ Finish(0, u, r \cup {Pwd}) /\ told' = sure \cup {Pwd}
           \/ Finish(0, t, r) /\ told' = sure \ {Pwd}
    BY DEF Goes
  <1>2. PlacesInv /\ Knows(table, right, cwd, before, visited, told)
    BY DEF CommandInv, DirectoriesInv
  <1>3. Knows(t, r, cwd, cwd, visited, sure)
    BY <1>2, SavedKnows
  <1>4. sure \subseteq {Pwd, OldPwd}
    BY <1>2 DEF PlacesInv, SavedTold
  <1> HIDE DEF t, r, sure
  <1>5. /\ Knows(u, r \cup {Pwd}, dir, cwd, visited \cup {dir}, sure \cup {Pwd})
        /\ Knows(t, r, dir, cwd, visited \cup {dir}, sure \ {Pwd})
    BY <1>3, WrittenKnows
  <1> HIDE DEF u
  <1>6. PlacesInv'
    BY <1>1, <1>2, <1>4 DEF PlacesInv
  <1>7. 0 \in 0..127
    OBVIOUS
  <1>8. CASE Finish(0, u, r \cup {Pwd}) /\ told' = sure \cup {Pwd}
    <2>1. Knows(u, r \cup {Pwd}, cwd', before', visited', told')
      BY <1>1, <1>5, <1>8
    <2> QED BY <1>6, <1>7, <1>8, <2>1, FinishKeeps
  <1>9. CASE Finish(0, t, r) /\ told' = sure \ {Pwd}
    <2>1. Knows(t, r, cwd', before', visited', told')
      BY <1>1, <1>5, <1>9
    <2> QED BY <1>6, <1>7, <1>9, <2>1, FinishKeeps
  <1> QED BY <1>1, <1>8, <1>9

LEMMA CdKeeps ==
    ASSUME CommandInv, builtinCd
    PROVE  CommandInv'
  <1>1. commands # <<>> /\ result # Running
    BY RunsIs DEF builtinCd
  <1>2. CASE Finish(1, table, right) /\ UNCHANGED places
    <2>1. 1 \in 0..127
      OBVIOUS
    <2> QED BY <1>1, <1>2, <2>1, ShellKeeps
  <1>3. ASSUME before' = cwd, NEW saved \in MaySave, NEW target \in Targets(saved),
               \/ Stays(saved)
               \/ chdirWorks(target) /\ Goes(saved, PathOf(target), PathOf(target))
        PROVE  CommandInv'
    <2>1. CASE Stays(saved)
      BY <1>1, <1>3, <2>1, StaysKeeps
    <2>2. CASE chdirWorks(target) /\ Goes(saved, PathOf(target), PathOf(target))
      <3>1. PathOf(target) \in Dirs
        BY <2>2 DEF chdirWorks
      <3> DEFINE dir == PathOf(target)
      <3>2. dir \in Dirs /\ Goes(saved, dir, dir)
        BY <2>2, <3>1
      <3> HIDE DEF dir
      <3> QED BY <1>1, <1>3, <3>2, GoesKeeps
    <2> QED BY <1>3, <2>1, <2>2
  <1> QED BY <1>2, <1>3 DEF builtinCd

LEMMA ExportKeeps ==
    ASSUME CommandInv, builtinExport
    PROVE  CommandInv'
  <1>1. commands # <<>> /\ pc = "RUN" /\ result # Running /\ UNCHANGED places
    BY RunsIs DEF builtinExport
  <1>2. 0 \in 0..127 /\ 1 \in 0..127
    OBVIOUS
  <1>3. CASE Finish(0, table, right) \/ Finish(1, table, right)
    BY <1>1, <1>2, <1>3, ShellKeeps
  <1>4. CASE /\ at' = at + 1
             /\ UNCHANGED <<commands, pc, argv, own, right, expansion, table, last_exec_status>>
    <2>1. Knows(table', right', cwd, before, visited, told)
      BY <1>4 DEF CommandInv, DirectoriesInv
    <2> QED BY <1>1, <1>4, <2>1, NextAtKeeps
  <1>5. CASE /\ table' = Assigned(table, argv[at])
             /\ right' = right \ {splitAssignment(argv[at]).key}
             /\ at' = at + 1
             /\ UNCHANGED <<commands, pc, argv, own, expansion, last_exec_status>>
    <2>1. Knows(table', right', cwd, before, visited, told)
      BY <1>5, AssignedKnows DEF CommandInv, DirectoriesInv
    <2> QED BY <1>1, <1>5, <2>1, NextAtKeeps
  <1> QED BY <1>3, <1>4, <1>5 DEF builtinExport

LEMMA UnsetKeeps ==
    ASSUME CommandInv, builtinUnset
    PROVE  CommandInv'
  <1>1. commands # <<>> /\ result # Running /\ UNCHANGED places
        /\ Finish(0, Without(table, ToSet(argv)), right \ ToSet(argv))
    BY RunsIs DEF builtinUnset
  <1> DEFINE K == ToSet(argv)
  <1>2. Knows(table, right, cwd, before, visited, told) /\ PlacesInv
    BY DEF CommandInv, DirectoriesInv
  <1> HIDE DEF K
  <1>3. Knows(Without(table, K), right \ K, cwd, before, visited, told)
    BY <1>2 DEF Knows, Without
  <1>4. Finish(0, Without(table, K), right \ K) /\ 0 \in 0..127
    BY <1>1 DEF K
  <1>5. PlacesInv' /\ Knows(Without(table, K), right \ K, cwd', before', visited', told')
    BY <1>1, <1>2, <1>3 DEF PlacesInv, places
  <1> QED BY <1>1, <1>4, <1>5, FinishKeeps

LEMMA OthersKeep ==
    ASSUME CommandInv, OtherBuiltin \/ External
    PROVE  CommandInv'
  <1>1. commands # <<>> /\ result # Running /\ UNCHANGED places
    BY RunsIs DEF OtherBuiltin, External
  <1>2. CASE OtherBuiltin
    <2>1. PICK s \in Statuses[Command.kind] : Finish(s, table, right)
      BY <1>2 DEF OtherBuiltin
    <2>2. Statuses[Command.kind] \subseteq 0..127
      <3>1. Command.kind \in {"echo", "pwd", "true", "false"}
        BY <1>2 DEF OtherBuiltin, Runs, Statuses
      <3> DEFINE k == Command.kind
      <3> HIDE DEF k
      <3>2. ASSUME k \in {"echo", "pwd", "true", "false"} PROVE Statuses[k] \subseteq 0..127
        BY <3>2 DEF Statuses
      <3> QED BY <3>1, <3>2 DEF k
    <2>3. s \in 0..127
      BY <2>1, <2>2
    <2> QED BY <1>1, <2>1, <2>3, ShellKeeps
  <1>3. CASE External
    <2>1. PICK s \in {1} \cup (IF Path \in DOMAIN table THEN {0, 126, 127} ELSE {}) : ChildEnds(s)
      BY <1>3 DEF External
    <2>2. s \in 0..127
      BY <2>1
    <2> QED BY <1>1, <2>1, <2>2, ChildKeeps
  <1> QED BY <1>2, <1>3

-----------------------------------------------------------------------------
(* The theorems.                                                             *)

LEMMA InitCommand == Init => CommandInv
  <1> SUFFICES ASSUME Init PROVE CommandInv
    OBVIOUS
  <1>1. PICK start \in Launches : commands = start.lines /\ cwd = start.dir
    BY DEF Init
  <1>2. /\ commands \in Seq(ToSet(commands)) /\ \A c \in ToSet(commands) : IsLine(c)
        /\ cwd \in Dirs
    BY <1>1, LaunchesAssumption
  <1>3. /\ own = [table |-> table, right |-> {}] /\ pc = "PREFIX" /\ at = 1 /\ argv = <<>>
        /\ before = cwd /\ right = {} /\ told = {} /\ visited = {cwd} /\ last_exec_status = 0
        /\ frames = <<>> /\ result = [st |-> "SUCCESS", output |-> <<>>]
    BY DEF Init
  <1>4. result.st = "SUCCESS" /\ result # Running
    BY <1>3 DEF Running
  <1>5. CallsInv
    BY <1>3, <1>4, NoFrame DEF CallsInv, Status
  <1>6. ArgumentsInv
    <2>1. <<>> \in Seq(ToSet(<<>>))
      OBVIOUS
    <2> QED BY <1>2, <1>3, <1>4, <2>1 DEF ArgumentsInv
  <1>7. DirectoriesInv
    <2>1. own.right = {}
      BY <1>3
    <2> QED BY <1>2, <1>3, <2>1 DEF DirectoriesInv, PlacesInv, Knows
  <1> QED BY <1>5, <1>6, <1>7 DEF CommandInv

LEMMA StepCommand == CommandInv /\ [Next]_vars => CommandInv'
  <1> SUFFICES ASSUME CommandInv, [Next]_vars PROVE CommandInv'
    OBVIOUS
  <1>1. CASE Next
    BY <1>1, PrefixKeeps, PrefixDoneKeeps, ForkFailsKeeps, ExpandKeeps, ExpandedKeeps, ExpandFailsKeeps,
       CdKeeps, ExportKeeps, UnsetKeeps, OthersKeep DEF Next, Run
  <1>2. CASE UNCHANGED vars
    <2>1. /\ UNCHANGED <<commands, pc, at, argv, own, places, right>>
          /\ UNCHANGED <<word, frames, result, table, last_exec_status>>
      BY <1>2 DEF vars, expansion
    <2>2. CallsInv'
      BY <2>1 DEF CommandInv, CallsInv
    <2>3. ArgumentsInv'
      BY <2>1 DEF CommandInv, ArgumentsInv, Command
    <2>4. DirectoriesInv'
      BY <2>1 DEF CommandInv, DirectoriesInv, PlacesInv, places
    <2> QED BY <2>2, <2>3, <2>4 DEF CommandInv
  <1> QED BY <1>1, <1>2

LEMMA CommandInvariance == Spec => []CommandInv
  <1> QED BY InitCommand, StepCommand, PTL DEF Spec

\* No call of expandWord reads behind its text, one is left exactly while a word is expanded, and
\* every component has its type (expansion.c, execute.c), for every word and every session.
THEOREM TypeCorrect == Spec => []TypeOK
  <1>1. CommandInv => TypeOK
    <2> SUFFICES ASSUME CommandInv PROVE TypeOK
      OBVIOUS
    <2>1. FramesOK(frames) /\ (frames # <<>>) = (result = Running) /\ result.st \in Status
      BY DEF CommandInv, CallsInv
    <2>2. DOMAIN frames = 1..Len(frames)
      BY <2>1, SequenceIs DEF FramesOK
    <2>3. ExpanderOK
      BY <2>1, <2>2 DEF ExpanderOK, FramesOK, IsFrame, States
    <2>4. commands # <<>> => Len(argv) <= Len(Command.words)
      <3> SUFFICES ASSUME commands # <<>> PROVE Len(argv) <= Len(Command.words)
        OBVIOUS
      <3>1. Len(Command.words) \in Nat
        BY CommandIs DEF CommandInv
      <3> QED BY <3>1 DEF CommandInv, ArgumentsInv
    <2> QED BY <2>3, <2>4 DEF TypeOK, CommandInv, ArgumentsInv, DirectoriesInv, PlacesInv, Knows
  <1> QED BY <1>1, CommandInvariance, PTL

\* A command runs when every one of its words is expanded, each to one argument (handleSuffix).
THEOREM ArgumentForEachWord == Spec => []ArgumentsComplete
  <1>1. CommandInv => ArgumentsComplete
    BY DEF CommandInv, ArgumentsInv, ArgumentsComplete
  <1> QED BY <1>1, CommandInvariance, PTL

\* Until an assignment, export or unset changes them, PWD and OLDPWD are directories the shell has
\* been in, wherever chdir, getcwd or an insert of cd fails (builtinCd); PWD is the working directory
\* unless its last insert or getcwd failed, OLDPWD is where the last cd began unless its insert
\* failed or PWD was already behind.  ${name:=word} never changes them, and what an external
\* command's child sets the shell never sees.
THEOREM DirectoriesFollow == Spec => []DirectoriesRight
  <1>1. CommandInv => DirectoriesRight
    BY DEF CommandInv, DirectoriesInv, Knows, DirectoriesRight
  <1> QED BY <1>1, CommandInvariance, PTL
=============================================================================
