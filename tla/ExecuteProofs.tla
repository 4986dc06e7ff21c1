--------------------------- MODULE ExecuteProofs ---------------------------
(***************************************************************************)
(* Theorems about module Execute, for every syntax tree, session and       *)
(* process table.                                                          *)
(***************************************************************************)
EXTENDS Execute, SequenceTheorems, TLAPS

-----------------------------------------------------------------------------
(* The operators on the memory of one process.                               *)

\* A memory that is in the middle of a call.
Busy == {m \in Memory : m.stack # <<>>}

\* What a node of the tree is made of.
LEMMA NodeFields ==
    ASSUME NEW n \in Node
    PROVE  /\ Ast[n].type \in NodeType
           /\ Ast[n].flags \in SUBSET NodeFlag
           /\ Ast[n].kids \in Seq(Node)
           /\ Ast[n].word \in Word
           /\ Ast[n].outcome \subseteq WaitStatus
  BY AstAssumption DEF AstAssumption

LEMMA FrameOfType ==
    ASSUME NEW n \in Node
    PROVE  FrameOf(n) \in Frame
  BY EmptySeq DEF FrameOf, Frame

LEMMA CtorType == executorCtor \in Memory
  BY EmptySeq DEF executorCtor, Memory, StatusEnum, SUCCESS, ExecFlag, Status

LEMMA TopType ==
    ASSUME NEW m \in Busy
    PROVE  /\ m.stack \in Seq(Frame)
           /\ Len(m.stack) \in Nat \ {0}
           /\ Top(m) \in Frame
           /\ Top(m).node \in Node
  <1>1. m \in Memory /\ m.stack \in Seq(Frame) /\ m.stack # <<>>
    BY DEF Busy, Memory
  <1>2. Len(m.stack) \in Nat \ {0}
    BY <1>1, EmptySeq
  <1>3. Top(m) \in Frame
    BY <1>1, <1>2, ElementOfSeq DEF Top
  <1> QED BY <1>1, <1>2, <1>3 DEF Frame

\* Replacing the topmost frame: same depth, the frames below unchanged.
LEMMA SetTopType ==
    ASSUME NEW m \in Busy, NEW f \in Frame
    PROVE  /\ SetTop(m, f) \in Busy
           /\ SetTop(m, f).base = m.base
           /\ SetTop(m, f).ret = m.ret
           /\ SetTop(m, f).flags = m.flags
           /\ SetTop(m, f).status = m.status
           /\ Len(SetTop(m, f).stack) = Len(m.stack)
           /\ \A i \in 1..Len(m.stack) :
                 SetTop(m, f).stack[i] = IF i = Len(m.stack) THEN f ELSE m.stack[i]
  <1> DEFINE s == [m.stack EXCEPT ![Len(m.stack)] = f]
  <1>1. m \in Memory /\ m.stack \in Seq(Frame) /\ Len(m.stack) \in 1..Len(m.stack)
    BY TopType DEF Busy
  <1>2. /\ s \in Seq(Frame)
        /\ Len(s) = Len(m.stack)
        /\ \A i \in 1..Len(m.stack) : s[i] = IF i = Len(m.stack) THEN f ELSE m.stack[i]
    BY <1>1, ExceptSeq
  <1>3. s # <<>>
    BY <1>1, <1>2, EmptySeq
  <1> HIDE DEF s
  <1>4. SetTop(m, f) = [m EXCEPT !.stack = s]
    BY DEF SetTop, s
  <1> QED BY <1>1, <1>2, <1>3, <1>4 DEF Busy, Memory

\* executeNode(n) from the topmost call, which becomes f.
LEMMA CallType ==
    ASSUME NEW m \in Busy, NEW f \in Frame, NEW n \in Node
    PROVE  /\ Call(m, f, n) \in Busy
           /\ Call(m, f, n).base = m.base
           /\ Call(m, f, n).ret = m.ret
           /\ Call(m, f, n).flags = m.flags
           /\ Call(m, f, n).status = m.status
           /\ Len(Call(m, f, n).stack) = Len(m.stack) + 1
           /\ \A i \in 1..Len(m.stack) :
                 Call(m, f, n).stack[i] = IF i = Len(m.stack) THEN f ELSE m.stack[i]
           /\ Top(Call(m, f, n)) = FrameOf(n)
  <1> DEFINE s == [m.stack EXCEPT ![Len(m.stack)] = f]
             t == Append(s, FrameOf(n))
  <1>1. m \in Memory /\ m.stack \in Seq(Frame) /\ Len(m.stack) \in 1..Len(m.stack)
    BY TopType DEF Busy
  <1>2. /\ s \in Seq(Frame)
        /\ Len(s) = Len(m.stack)
        /\ \A i \in 1..Len(m.stack) : s[i] = IF i = Len(m.stack) THEN f ELSE m.stack[i]
    BY <1>1, ExceptSeq
  <1>3. FrameOf(n) \in Frame
    BY FrameOfType
  <1> HIDE DEF s
  <1>4. /\ t \in Seq(Frame)
        /\ t # <<>>
        /\ Len(t) = Len(m.stack) + 1
        /\ \A i \in 1..Len(m.stack) : t[i] = IF i = Len(m.stack) THEN f ELSE m.stack[i]
        /\ t[Len(m.stack) + 1] = FrameOf(n)
    BY <1>2, <1>3, AppendProperties
  <1>5. Call(m, f, n) = [m EXCEPT !.stack = t]
    BY DEF Call, s
  <1> HIDE DEF t
  <1> QED BY <1>1, <1>4, <1>5 DEF Busy, Memory, Top

\* Returning st to the call below.
LEMMA ReturnType ==
    ASSUME NEW m \in Busy, NEW st \in StatusEnum
    PROVE  /\ Return(m, st) \in Memory
           /\ Return(m, st).base = m.base
           /\ Return(m, st).ret = st
           /\ Return(m, st).flags = m.flags
           /\ Return(m, st).status = m.status
           /\ Len(Return(m, st).stack) = Len(m.stack) - 1
           /\ \A i \in 1..(Len(m.stack) - 1) : Return(m, st).stack[i] = m.stack[i]
  <1> DEFINE s == SubSeq(m.stack, 1, Len(m.stack) - 1)
  <1>1. m \in Memory /\ m.stack \in Seq(Frame) /\ Len(m.stack) \in Nat \ {0}
    BY TopType DEF Busy
  <1>2. \A i \in 1..(Len(m.stack) - 1) : m.stack[i] \in Frame
    BY <1>1, ElementOfSeq
  <1>3. /\ s \in Seq(Frame)
        /\ Len(s) = Len(m.stack) - 1
        /\ \A i \in 1..(Len(m.stack) - 1) : s[i] = m.stack[i]
    BY <1>1, <1>2, SubSeqProperties
  <1> HIDE DEF s
  <1>4. Return(m, st) = [m EXCEPT !.stack = s, !.ret = st]
    BY DEF Return, s
  <1> QED BY <1>1, <1>3, <1>4 DEF Memory

\* The child's copy at a fork: same depth, the topmost frame is the fork's.
LEMMA ForkedType ==
    ASSUME NEW m \in Busy
    PROVE  /\ Forked(m) \in Busy
           /\ Forked(m).base = Len(m.stack)
           /\ Len(Forked(m).stack) = Len(m.stack)
           /\ Top(Forked(m)).role = "child"
           /\ Forked(m).flags = m.flags
  <1> DEFINE f == [Top(m) EXCEPT !.role = "child"]
  <1>1. f \in Frame /\ f.role = "child"
    BY TopType DEF Frame
  <1> HIDE DEF f
  <1>2. /\ SetTop(m, f) \in Busy
        /\ Len(SetTop(m, f).stack) = Len(m.stack)
        /\ SetTop(m, f).stack[Len(m.stack)] = f
        /\ SetTop(m, f).flags = m.flags
        /\ Len(m.stack) \in Nat \ {0}
    <2>1. Len(m.stack) \in Nat \ {0} /\ Len(m.stack) \in 1..Len(m.stack)
      BY TopType
    <2> QED BY <1>1, <2>1, SetTopType
  <1> DEFINE k == SetTop(m, f)
  <1> HIDE DEF k
  <1>3. Forked(m) = [k EXCEPT !.base = Len(m.stack)]
    BY DEF Forked, f, k
  <1>4. /\ k \in Busy /\ Len(k.stack) = Len(m.stack)
        /\ k.stack[Len(m.stack)] = f /\ k.flags = m.flags
    BY <1>2 DEF k
  <1> QED BY <1>1, <1>2, <1>3, <1>4 DEF Busy, Memory, Top

-----------------------------------------------------------------------------
(* Good(p, m): process p may hold the memory m.                              *)

\* The frame a forked process was born in is still there.
Anchored(m) == m.base \in 1..Len(m.stack) /\ m.stack[m.base].role = "child"

Good(p, m) == m \in Memory /\ (p # Shell => Anchored(m))

\* Going on from a call the process made itself keeps the frame of the fork.
LEMMA StepGood ==
    ASSUME NEW p, NEW m \in Busy, Good(p, m), Top(m).role = "self"
    PROVE  /\ \A f \in Frame : Good(p, SetTop(m, f))
           /\ \A f \in Frame, n \in Node : Good(p, Call(m, f, n))
           /\ \A st \in StatusEnum : Good(p, Return(m, st))
  <1>1. Len(m.stack) \in Nat \ {0} /\ m \in Memory
    BY TopType DEF Good
  <1>2. p # Shell => m.base \in 1..(Len(m.stack) - 1) /\ m.stack[m.base].role = "child"
    BY <1>1 DEF Good, Anchored, Top
  <1>3. ASSUME NEW f \in Frame PROVE Good(p, SetTop(m, f))
    BY <1>1, <1>2, SetTopType DEF Good, Anchored, Busy
  <1>4. ASSUME NEW f \in Frame, NEW n \in Node PROVE Good(p, Call(m, f, n))
    BY <1>1, <1>2, CallType DEF Good, Anchored, Busy
  <1>5. ASSUME NEW st \in StatusEnum PROVE Good(p, Return(m, st))
    BY <1>1, <1>2, ReturnType DEF Good, Anchored
  <1> QED BY <1>3, <1>4, <1>5

\* Changes of the environment leave the stack alone.
LEMMA FieldGood ==
    ASSUME NEW p, NEW m \in Busy, Good(p, m)
    PROVE  /\ \A fl \in SUBSET ExecFlag :
                 LET k == [m EXCEPT !.flags = fl]
                 IN  k \in Busy /\ Good(p, k) /\ k.stack = m.stack
           /\ \A st \in Status :
                 LET k == [m EXCEPT !.status = st]
                 IN  k \in Busy /\ Good(p, k) /\ k.stack = m.stack
           /\ \A w \in Word, n \in Node :
                 LET k == [m EXCEPT !.funs[w] = n]
                 IN  k \in Busy /\ Good(p, k) /\ k.stack = m.stack
  BY DEF Good, Anchored, Busy, Memory

-----------------------------------------------------------------------------
(* The two invariants together, and what the process primitives keep of them. *)

Inv == TypeOK /\ NoReturnPastFork

\* What Inv says of one process.
LEMMA InvGood ==
    ASSUME Inv, NEW p \in Pid, pstate[p] = "shell"
    PROVE  Good(p, mem[p])
  BY DEF Inv, TypeOK, NoReturnPastFork, Good, Anchored

LEMMA LocalInv ==
    ASSUME Inv, NEW p \in Pid, NEW m, Good(p, m), Local(p, m)
    PROVE  Inv'
  BY DEF Inv, TypeOK, NoReturnPastFork, Good, Anchored, Local

LEMMA ForkInv ==
    ASSUME Inv, NEW p \in Pid, NEW c \in Pid, NEW pm, NEW cm, NEW j \in {"fg", "bg", "lost"},
           pstate[p] = "shell",
           Good(p, pm), cm \in Memory, Anchored(cm), Fork(p, c, pm, cm, j)
    PROVE  Inv'
  BY DEF Inv, TypeOK, NoReturnPastFork, Good, Anchored, Fork

LEMMA ReapInv ==
    ASSUME Inv, NEW p \in Pid, NEW c, NEW m, Good(p, m), Reap(p, c, m)
    PROVE  Inv'
  <1>1. 0 \in WaitStatus
    BY DEF WaitStatus
  <1> QED BY <1>1 DEF Inv, TypeOK, NoReturnPastFork, Good, Anchored, Reap

LEMMA ExitInv ==
    ASSUME Inv, NEW p \in Pid, NEW w \in WaitStatus, Exit(p, w)
    PROVE  Inv'
  <1>1. 0 \in WaitStatus
    BY DEF WaitStatus
  <1>2. executorCtor \in Memory
    BY CtorType
  <1>3. TypeOK'
    BY <1>1, <1>2 DEF Inv, TypeOK, Exit
  <1>4. NoReturnPastFork'
    BY DEF Inv, TypeOK, NoReturnPastFork, Exit
  <1> QED BY <1>3, <1>4 DEF Inv

-----------------------------------------------------------------------------
(* The node a process is at.                                                 *)

LEMMA BusyFields ==
    ASSUME NEW m \in Busy
    PROVE  /\ Top(m) \in Frame
           /\ Top(m).pc \in Nat \ {0}
           /\ Top(m).pids \in Seq(Pid)
           /\ NodeOf(m).kids \in Seq(Node)
           /\ Len(NodeOf(m).kids) \in Nat
           /\ \A i \in 1..Len(NodeOf(m).kids) : NodeOf(m).kids[i] \in Node
           /\ NodeOf(m).word \in Word
           /\ NodeOf(m).outcome \subseteq WaitStatus
  <1>1. Top(m) \in Frame /\ Top(m).node \in Node
    BY TopType
  <1>2. NodeOf(m).kids \in Seq(Node) /\ NodeOf(m).word \in Word /\ NodeOf(m).outcome \subseteq WaitStatus
    BY <1>1, NodeFields DEF NodeOf
  <1>3. /\ Len(NodeOf(m).kids) \in Nat
        /\ \A i \in 1..Len(NodeOf(m).kids) : NodeOf(m).kids[i] \in Node
    BY <1>2, ElementOfSeq, LenProperties
  <1> QED BY <1>1, <1>2, <1>3 DEF Frame

LEMMA Interpreting ==
    ASSUME Inv, NEW p \in Pid, NEW t, Interprets(p, t)
    PROVE  /\ pstate[p] = "shell"
           /\ mem[p] \in Busy
           /\ Good(p, mem[p])
           /\ Top(mem[p]).role = "self"
           /\ NodeOf(mem[p]).type = t
  BY InvGood DEF Interprets, Busy, Good

LEMMA FrameUpdates ==
    ASSUME NEW f \in Frame
    PROVE  /\ \A k \in Nat \ {0} : [f EXCEPT !.pc = k] \in Frame
           /\ \A k \in Nat \ {0} : [f EXCEPT !.pc = k, !.ran = TRUE] \in Frame
           /\ \A k \in Nat \ {0} : [f EXCEPT !.ran = TRUE, !.pc = k] \in Frame
           /\ \A s \in Seq(Pid) : [f EXCEPT !.pids = s] \in Frame
           /\ \A k \in Nat \ {0}, s \in Seq(Pid) : [f EXCEPT !.pc = k, !.pids = s] \in Frame
  BY DEF Frame

\* A call returns after setting last_exec_status or the function list.
LEMMA ReturnGood ==
    ASSUME NEW p, NEW m \in Busy, Good(p, m), Top(m).role = "self", NEW st \in StatusEnum
    PROVE  /\ \A v \in Status : Good(p, Return([m EXCEPT !.status = v], st))
           /\ \A fl \in SUBSET ExecFlag, v \in Status :
                 Good(p, Return([m EXCEPT !.status = v, !.flags = fl], st))
           /\ \A w \in Word, n \in Node : Good(p, Return([m EXCEPT !.funs[w] = n], st))
  <1>1. ASSUME NEW v \in Status PROVE Good(p, Return([m EXCEPT !.status = v], st))
    <2> DEFINE k == [m EXCEPT !.status = v]
    <2>1. k \in Busy /\ Good(p, k) /\ k.stack = m.stack
      BY FieldGood
    <2>2. Top(k).role = "self"
      BY <2>1 DEF Top
    <2> QED BY <2>1, <2>2, StepGood
  <1>2. ASSUME NEW fl \in SUBSET ExecFlag, NEW v \in Status
        PROVE  Good(p, Return([m EXCEPT !.status = v, !.flags = fl], st))
    <2> DEFINE k == [m EXCEPT !.status = v]
               k2 == [k EXCEPT !.flags = fl]
    <2>1. k \in Busy /\ Good(p, k) /\ k.stack = m.stack
      BY FieldGood
    <2> HIDE DEF k
    <2>2. k2 \in Busy /\ Good(p, k2) /\ k2.stack = m.stack
      BY <2>1, FieldGood
    <2>3. Top(k2).role = "self"
      BY <2>2 DEF Top
    <2>4. Good(p, Return(k2, st))
      BY <2>2, <2>3, StepGood
    <2> QED BY <2>4 DEF k
  <1>3. ASSUME NEW w \in Word, NEW n \in Node PROVE Good(p, Return([m EXCEPT !.funs[w] = n], st))
    <2> DEFINE k == [m EXCEPT !.funs[w] = n]
    <2>1. k \in Busy /\ Good(p, k) /\ k.stack = m.stack
      BY FieldGood
    <2>2. Top(k).role = "self"
      BY <2>1 DEF Top
    <2> QED BY <2>1, <2>2, StepGood
  <1> QED BY <1>1, <1>2, <1>3

LEMMA LoopReturnGood ==
    ASSUME NEW p, NEW m \in Busy, Good(p, m), Top(m).role = "self"
    PROVE  Good(p, LoopReturn(m))
  <1>1. m.status \in Status /\ 0 \in Status
    BY DEF Busy, Memory, Status
  <1>2. SUCCESS \in StatusEnum
    BY DEF StatusEnum
  <1> QED BY <1>1, <1>2, ReturnGood DEF LoopReturn

\* The ways in which the operations below go on from the topmost call.
LEMMA MoveGood ==
    ASSUME NEW p, NEW m \in Busy, Good(p, m), Top(m).role = "self"
    PROVE  /\ Top(m).pc + 1 \in Nat \ {0}
           /\ \A k \in Nat \ {0}, n \in Node : Good(p, Call(m, [Top(m) EXCEPT !.pc = k], n))
           /\ \A k \in Nat \ {0}, n \in Node :
                 Good(p, Call(m, [Top(m) EXCEPT !.pc = k, !.ran = TRUE], n))
           /\ \A k \in Nat \ {0}, n \in Node :
                 Good(p, Call(m, [Top(m) EXCEPT !.ran = TRUE, !.pc = k], n))
           /\ \A k \in Nat \ {0} : Good(p, SetTop(m, [Top(m) EXCEPT !.pc = k]))
           /\ \A k \in Nat \ {0} : Good(p, SetTop(m, [Top(m) EXCEPT !.ran = TRUE, !.pc = k]))
           /\ \A s \in Seq(Pid) : Good(p, SetTop(m, [Top(m) EXCEPT !.pids = s]))
           /\ \A k \in Nat \ {0}, s \in Seq(Pid) :
                 Good(p, SetTop(m, [Top(m) EXCEPT !.pc = k, !.pids = s]))
           /\ Good(p, Return(m, SUCCESS))
           /\ Good(p, Return(m, ERROR_DEFAULT))
           /\ Good(p, Return(m, ERROR_FILE_NOT_FOUND))
  <1>1. Top(m) \in Frame /\ Top(m).pc \in Nat \ {0}
    BY BusyFields
  <1>2. SUCCESS \in StatusEnum /\ ERROR_DEFAULT \in StatusEnum /\ ERROR_FILE_NOT_FOUND \in StatusEnum
    BY DEF StatusEnum
  <1> DEFINE f == Top(m)
  <1>3. f \in Frame /\ f.pc + 1 \in Nat \ {0}
    BY <1>1
  <1> HIDE DEF f
  <1>4. /\ \A k \in Nat \ {0}, n \in Node : Good(p, Call(m, [f EXCEPT !.pc = k], n))
        /\ \A k \in Nat \ {0}, n \in Node : Good(p, Call(m, [f EXCEPT !.pc = k, !.ran = TRUE], n))
        /\ \A k \in Nat \ {0}, n \in Node : Good(p, Call(m, [f EXCEPT !.ran = TRUE, !.pc = k], n))
    BY <1>3, FrameUpdates, StepGood
  <1>5. /\ \A k \in Nat \ {0} : Good(p, SetTop(m, [f EXCEPT !.pc = k]))
        /\ \A k \in Nat \ {0} : Good(p, SetTop(m, [f EXCEPT !.ran = TRUE, !.pc = k]))
        /\ \A s \in Seq(Pid) : Good(p, SetTop(m, [f EXCEPT !.pids = s]))
        /\ \A k \in Nat \ {0}, s \in Seq(Pid) : Good(p, SetTop(m, [f EXCEPT !.pc = k, !.pids = s]))
    BY <1>3, FrameUpdates, StepGood
  <1>6. /\ Good(p, Return(m, SUCCESS))
        /\ Good(p, Return(m, ERROR_DEFAULT))
        /\ Good(p, Return(m, ERROR_FILE_NOT_FOUND))
    BY <1>2, StepGood
  <1> QED BY <1>3, <1>4, <1>5, <1>6 DEF f

-----------------------------------------------------------------------------
(* One lemma for each operation of executeNode.                              *)

LEMMA ErrCheckInv ==
    ASSUME Inv, NEW p \in Pid, errCheck(p)
    PROVE  Inv'
  <1>1. mem[p] \in Busy /\ Good(p, mem[p]) /\ Top(mem[p]).role = "self"
    BY InvGood DEF errCheck, Busy, Good
  <1>2. mem[p].ret \in StatusEnum
    BY <1>1 DEF Busy, Memory
  <1> QED BY <1>1, <1>2, StepGood, LocalInv DEF errCheck

\* A node that runs its children in turn.
LEMMA RunChildrenInv ==
    ASSUME Inv, NEW p \in Pid, NEW t, Interprets(p, t), RunChildren(p)
    PROVE  Inv'
  <1> DEFINE m == mem[p]
             kids == NodeOf(m).kids
  <1>1. m \in Busy /\ Good(p, m) /\ Top(m).role = "self"
    BY Interpreting
  <1>2. /\ Top(m).pc \in Nat \ {0} /\ Len(kids) \in Nat
        /\ \A i \in 1..Len(kids) : kids[i] \in Node
    BY <1>1, BusyFields
  <1>3. CASE Top(m).pc <= Len(kids)
    <2>1. kids[Top(m).pc] \in Node
      BY <1>2, <1>3
    <2>2. Good(p, Call(m, [Top(m) EXCEPT !.pc = Top(m).pc + 1], kids[Top(m).pc]))
      BY <1>1, <2>1, MoveGood
    <2> QED BY <1>3, <2>2, LocalInv DEF RunChildren
  <1>4. CASE ~(Top(m).pc <= Len(kids))
    <2>1. Good(p, Return(m, SUCCESS))
      BY <1>1, MoveGood
    <2> QED BY <1>4, <2>1, LocalInv DEF RunChildren
  <1> QED BY <1>3, <1>4

LEMMA ListInv ==
    ASSUME Inv, NEW p \in Pid, executeListNode(p)
    PROVE  Inv'
  <1> DEFINE m == mem[p]
             f == Top(m)
             kids == NodeOf(m).kids
             stop == f.pc > Len(kids) \/ (f.pc > 1 /\ "EXIT" \in m.flags)
             bg == "BACKGROUND" \in Ast[kids[f.pc]].flags
             fl == IF bg THEN m.flags \cup {"BG"} ELSE m.flags \ {"BG"}
             k == [m EXCEPT !.flags = fl]
  <1>1. m \in Busy /\ Good(p, m) /\ f.role = "self"
    BY Interpreting DEF executeListNode
  <1>2. f.pc \in Nat \ {0} /\ Len(kids) \in Nat /\ \A i \in 1..Len(kids) : kids[i] \in Node
    BY <1>1, BusyFields
  <1>3. Local(p, IF stop THEN Return(m, SUCCESS) ELSE Call(k, [f EXCEPT !.pc = f.pc + 1], kids[f.pc]))
    BY DEF executeListNode
  <1>4. CASE stop
    <2>1. Good(p, Return(m, SUCCESS))
      BY <1>1, MoveGood
    <2> QED BY <1>3, <1>4, <2>1, LocalInv
  <1>5. CASE ~stop
    <2>1. kids[f.pc] \in Node
      BY <1>2, <1>5
    <2>2. fl \in SUBSET ExecFlag
      BY <1>1 DEF Busy, Memory, ExecFlag
    <2> HIDE DEF fl
    <2>3. k \in Busy /\ Good(p, k) /\ k.stack = m.stack
      BY <1>1, <2>2, FieldGood
    <2>4. Top(k) = f
      BY <2>3 DEF Top
    <2> HIDE DEF k
    <2>5. Good(p, Call(k, [f EXCEPT !.pc = f.pc + 1], kids[f.pc]))
      <3>1. Good(p, Call(k, [Top(k) EXCEPT !.pc = Top(k).pc + 1], kids[f.pc]))
        BY <1>1, <2>1, <2>3, <2>4, MoveGood
      <3> QED BY <2>4, <3>1
    <2> QED BY <1>3, <1>5, <2>5, LocalInv
  <1> QED BY <1>4, <1>5

LEMMA AndOrInv ==
    ASSUME Inv, NEW p \in Pid, executeAndOrNode(p)
    PROVE  Inv'
  <1> DEFINE m == mem[p]
             f == Top(m)
             kids == NodeOf(m).kids
             next == [f EXCEPT !.pc = f.pc + 1]
  <1>1. m \in Busy /\ Good(p, m) /\ f.role = "self"
    BY Interpreting DEF executeAndOrNode
  <1>2. f.pc \in Nat \ {0} /\ Len(kids) \in Nat /\ \A i \in 1..Len(kids) : kids[i] \in Node
    BY <1>1, BusyFields
  <1>3. \/ Local(p, Return(m, SUCCESS))
        \/ Local(p, SetTop(m, next))
        \/ f.pc <= Len(kids) /\ Local(p, Call(m, next, kids[f.pc]))
    BY <1>2 DEF executeAndOrNode
  <1>4. /\ Good(p, Return(m, SUCCESS))
        /\ Good(p, SetTop(m, next))
        /\ f.pc <= Len(kids) => Good(p, Call(m, next, kids[f.pc]))
    <2>1. Good(p, Return(m, SUCCESS)) /\ f.pc + 1 \in Nat \ {0}
      BY <1>1, MoveGood
    <2>2. Good(p, SetTop(m, next))
      BY <1>1, <2>1, MoveGood
    <2>3. ASSUME f.pc <= Len(kids) PROVE Good(p, Call(m, next, kids[f.pc]))
      <3>1. kids[f.pc] \in Node
        BY <1>2, <2>3
      <3> QED BY <1>1, <2>1, <3>1, MoveGood
    <2> QED BY <2>1, <2>2, <2>3
  <1> QED BY <1>3, <1>4, LocalInv

LEMMA IfInv ==
    ASSUME Inv, NEW p \in Pid, executeIfClauseNode(p)
    PROVE  Inv'
  <1> DEFINE m == mem[p]
             f == Top(m)
             kids == NodeOf(m).kids
             branch == IF m.status = 0 THEN 2 ELSE 3
  <1>1. m \in Busy /\ Good(p, m) /\ f.role = "self" /\ NodeOf(m).type = "IF_CLAUSE"
    BY Interpreting DEF executeIfClauseNode
  <1>2. f.pc \in Nat \ {0} /\ Len(kids) \in Nat /\ \A i \in 1..Len(kids) : kids[i] \in Node
    BY <1>1, BusyFields
  <1>3. 1 <= Len(kids)
    <2>1. Top(m).node \in Node
      BY <1>1, TopType
    <2>2. Len(kids) \in 2..3
      BY <1>1, <2>1, AstAssumption DEF AstAssumption, NodeOf
    <2> QED BY <2>2
  <1>4. /\ kids[1] \in Node
        /\ branch <= Len(kids) => kids[branch] \in Node
    BY <1>2, <1>3
  <1>5. \/ Local(p, Call(m, [f EXCEPT !.pc = 2], kids[1]))
        \/ branch <= Len(kids) /\ Local(p, Call(m, [f EXCEPT !.pc = 3], kids[branch]))
        \/ Local(p, Return(m, SUCCESS))
    BY DEF executeIfClauseNode
  <1> HIDE DEF branch
  <1>6. /\ Good(p, Call(m, [f EXCEPT !.pc = 2], kids[1]))
        /\ branch <= Len(kids) => Good(p, Call(m, [f EXCEPT !.pc = 3], kids[branch]))
        /\ Good(p, Return(m, SUCCESS))
    <2>1. 2 \in Nat \ {0} /\ 3 \in Nat \ {0}
      OBVIOUS
    <2> QED BY <1>1, <1>4, <2>1, MoveGood
  <1> QED BY <1>5, <1>6, LocalInv

LEMMA ConditionLoopInv ==
    ASSUME Inv, NEW p \in Pid, NEW t \in {"WHILE_CLAUSE", "UNTIL_CLAUSE"}, Interprets(p, t),
           NEW goesOn, ConditionLoop(p, goesOn)
    PROVE  Inv'
  <1> DEFINE m == mem[p]
             f == Top(m)
             kids == NodeOf(m).kids
  <1>1. m \in Busy /\ Good(p, m) /\ f.role = "self" /\ NodeOf(m).type = t
    BY Interpreting
  <1>2. \A i \in 1..Len(kids) : kids[i] \in Node
    BY <1>1, BusyFields
  <1>3. Len(kids) = 2
    BY <1>1, TopType, AstAssumption DEF AstAssumption, NodeOf
  <1>4. kids[1] \in Node /\ kids[2] \in Node
    BY <1>2, <1>3
  <1>5. \/ Local(p, Call(m, [f EXCEPT !.pc = 3, !.ran = TRUE], kids[2]))
        \/ Local(p, Call(m, [f EXCEPT !.pc = 2], kids[1]))
        \/ Local(p, LoopReturn(m))
    BY DEF ConditionLoop
  <1>6. 2 \in Nat \ {0} /\ 3 \in Nat \ {0}
    OBVIOUS
  <1>7. Good(p, Call(m, [f EXCEPT !.pc = 3, !.ran = TRUE], kids[2]))
    BY <1>1, <1>4, <1>6, MoveGood
  <1>8. Good(p, Call(m, [f EXCEPT !.pc = 2], kids[1]))
    BY <1>1, <1>4, <1>6, MoveGood
  <1>9. Good(p, LoopReturn(m))
    BY <1>1, LoopReturnGood
  <1> QED BY <1>5, <1>7, <1>8, <1>9, LocalInv

LEMMA ForInv ==
    ASSUME Inv, NEW p \in Pid, executeForClauseNode(p)
    PROVE  Inv'
  <1> DEFINE m == mem[p]
             f == Top(m)
             kids == NodeOf(m).kids
  <1>1. m \in Busy /\ Good(p, m) /\ f.role = "self" /\ NodeOf(m).type = "FOR_CLAUSE"
    BY Interpreting DEF executeForClauseNode
  <1>2. Len(kids) \in Nat /\ \A i \in 1..Len(kids) : kids[i] \in Node
    BY <1>1, BusyFields
  <1>3. Len(kids) >= 1
    BY <1>1, TopType, AstAssumption DEF AstAssumption, NodeOf
  <1>4. kids[Len(kids)] \in Node
    BY <1>2, <1>3
  <1>5. \/ Local(p, LoopReturn(m))
        \/ Local(p, Call(m, [f EXCEPT !.pc = f.pc + 1, !.ran = TRUE], kids[Len(kids)]))
        \/ Local(p, Return(m, ERROR_DEFAULT))
    BY DEF executeForClauseNode
  <1>6. Good(p, Return(m, ERROR_DEFAULT)) /\ f.pc + 1 \in Nat \ {0}
    BY <1>1, MoveGood
  <1>7. Good(p, Call(m, [f EXCEPT !.pc = f.pc + 1, !.ran = TRUE], kids[Len(kids)]))
    BY <1>1, <1>4, <1>6, MoveGood
  <1>8. Good(p, LoopReturn(m))
    BY <1>1, LoopReturnGood
  <1> QED BY <1>5, <1>6, <1>7, <1>8, LocalInv

LEMMA CaseInv ==
    ASSUME Inv, NEW p \in Pid, executeCaseClauseNode(p)
    PROVE  Inv'
  <1> DEFINE m == mem[p]
             f == Top(m)
             items == NodeOf(m).kids
             item == Ast[items[f.pc]]
             k == IF "SEMI_AND" \in item.flags THEN f.pc + 1 ELSE Len(items) + 1
             after == [f EXCEPT !.ran = TRUE, !.pc = k]
             taken == f.ran \/ "MATCH" \in item.flags
  <1>1. m \in Busy /\ Good(p, m) /\ f.role = "self"
    BY Interpreting DEF executeCaseClauseNode
  <1>2. f.pc \in Nat \ {0} /\ Len(items) \in Nat /\ \A i \in 1..Len(items) : items[i] \in Node
    BY <1>1, BusyFields
  <1>3. k \in Nat \ {0}
    BY <1>2
  <1>4. \/ Local(p, LoopReturn(m))
        \/ /\ f.pc <= Len(items)
           /\ \/ Local(p, SetTop(m, [f EXCEPT !.pc = f.pc + 1]))
              \/ Local(p, SetTop(m, after))
              \/ item.kids # <<>> /\ Local(p, Call(m, after, item.kids[1]))
    <2>1. Local(p, IF f.pc > Len(items) THEN LoopReturn(m)
                   ELSE IF ~taken THEN SetTop(m, [f EXCEPT !.pc = f.pc + 1])
                   ELSE IF item.kids = <<>> THEN SetTop(m, after)
                   ELSE Call(m, after, item.kids[1]))
      BY DEF executeCaseClauseNode
    <2> HIDE DEF after, taken, item
    <2> QED BY <1>2, <2>1
  <1> HIDE DEF k
  <1>5. Good(p, LoopReturn(m))
    BY <1>1, LoopReturnGood
  <1>6. Good(p, SetTop(m, [f EXCEPT !.pc = f.pc + 1]))
    BY <1>1, MoveGood
  <1>7. Good(p, SetTop(m, after))
    BY <1>1, <1>3, MoveGood
  <1>8. ASSUME f.pc <= Len(items), item.kids # <<>>
        PROVE  Good(p, Call(m, after, item.kids[1]))
    <2>1. items[f.pc] \in Node
      BY <1>2, <1>8
    <2>2. item.kids \in Seq(Node)
      BY <2>1, NodeFields
    <2>3. item.kids[1] \in Node
      BY <2>2, <1>8, EmptySeq, ElementOfSeq
    <2> QED BY <1>1, <1>3, <2>3, MoveGood
  <1> QED BY <1>4, <1>5, <1>6, <1>7, <1>8, LocalInv

LEMMA FunctionDefinitionInv ==
    ASSUME Inv, NEW p \in Pid, executeFunctionDefinition(p)
    PROVE  Inv'
  <1> DEFINE m == mem[p]
             def == NodeOf(m)
  <1>1. m \in Busy /\ Good(p, m) /\ Top(m).role = "self" /\ def.type = "FUNCTION_DEF"
    BY Interpreting DEF executeFunctionDefinition
  <1>2. /\ Len(def.kids) \in Nat /\ \A i \in 1..Len(def.kids) : def.kids[i] \in Node
        /\ def.word \in Word
    BY <1>1, BusyFields
  <1>3. Len(def.kids) >= 1
    BY <1>1, TopType, AstAssumption DEF AstAssumption, NodeOf
  <1>4. def.kids[1] \in Node /\ SUCCESS \in StatusEnum
    BY <1>2, <1>3 DEF StatusEnum
  <1>5. Good(p, Return([m EXCEPT !.funs[def.word] = def.kids[1]], SUCCESS))
    BY <1>1, <1>2, <1>4, ReturnGood
  <1>6. Good(p, Return(m, ERROR_FILE_NOT_FOUND))
    BY <1>1, MoveGood
  <1>7. \/ Local(p, Return([m EXCEPT !.funs[def.word] = def.kids[1]], SUCCESS))
        \/ Local(p, Return(m, ERROR_FILE_NOT_FOUND))
    BY DEF executeFunctionDefinition
  <1> QED BY <1>5, <1>6, <1>7, LocalInv

LEMMA StatusValues ==
    /\ \A v \in Status : negated(v) \in Status
    /\ \A w \in WaitStatus : childStatus(w) \in Status
    /\ \A w \in WaitStatus : ~WIFEXITED(w) => 128 + WTERMSIG(w) \in Status
    /\ \A w \in WaitStatus : WIFEXITED(w) => WEXITSTATUS(w) \in Status
    /\ Status \subseteq WaitStatus
    /\ StatusEnum \subseteq WaitStatus
  BY DEF negated, childStatus, Status, WaitStatus, WIFEXITED, WEXITSTATUS, WTERMSIG,
         StatusEnum, SUCCESS, ERROR_DEFAULT, ERROR_FILE_NOT_FOUND

\* The memory a forked child starts with is anchored at the frame of the fork.
LEMMA ForkedGood ==
    ASSUME NEW m \in Busy
    PROVE  /\ Forked(m) \in Memory /\ Anchored(Forked(m))
           /\ \A n \in Node : LET k == Call(Forked(m), Top(Forked(m)), n)
                              IN  k \in Memory /\ Anchored(k)
  <1> DEFINE c == Forked(m)
  <1>1. /\ c \in Busy /\ c.base = Len(m.stack) /\ Len(c.stack) = Len(m.stack)
        /\ Top(c).role = "child"
    BY ForkedType
  <1>2. Len(m.stack) \in Nat \ {0}
    BY TopType
  <1> HIDE DEF c
  <1>3. Top(c) \in Frame /\ Top(c) = c.stack[Len(m.stack)]
    BY <1>1, TopType DEF Top
  <1>4. c \in Memory /\ Anchored(c)
    BY <1>1, <1>2, <1>3 DEF Busy, Anchored
  <1>5. ASSUME NEW n \in Node
        PROVE  Call(c, Top(c), n) \in Memory /\ Anchored(Call(c, Top(c), n))
    <2> DEFINE k == Call(c, Top(c), n)
    <2>1. k \in Busy /\ k.base = c.base /\ Len(k.stack) = Len(c.stack) + 1
      BY <1>1, <1>3, CallType
    <2>2. Len(c.stack) \in 1..Len(c.stack)
      BY <1>1, <1>2
    <2>3. k.stack[Len(c.stack)] = Top(c)
      BY <1>1, <1>3, <2>2, CallType
    <2> HIDE DEF k
    <2>4. k \in Memory /\ Anchored(k)
      BY <1>1, <1>2, <2>1, <2>2, <2>3 DEF Busy, Anchored
    <2> QED BY <2>4 DEF k
  <1> QED BY <1>4, <1>5 DEF c

LEMMA PipelineOfOneInv ==
    ASSUME Inv, NEW p \in Pid, PipelineOfOne(p)
    PROVE  Inv'
  <1> DEFINE m == mem[p]
             f == Top(m)
             kids == NodeOf(m).kids
             v == IF "BANG" \in NodeOf(m).flags THEN negated(m.status) ELSE m.status
  <1>1. m \in Busy /\ Good(p, m) /\ f.role = "self" /\ Len(kids) = 1
    BY Interpreting DEF PipelineOfOne
  <1>2. kids[1] \in Node /\ 2 \in Nat \ {0} /\ SUCCESS \in StatusEnum
    BY <1>1, BusyFields DEF StatusEnum
  <1>3. v \in Status
    BY <1>1, StatusValues DEF Busy, Memory
  <1>4. \/ Local(p, Call(m, [f EXCEPT !.pc = 2], kids[1]))
        \/ Local(p, Return([m EXCEPT !.status = v], SUCCESS))
    BY DEF PipelineOfOne
  <1> HIDE DEF v
  <1>5. Good(p, Call(m, [f EXCEPT !.pc = 2], kids[1]))
    BY <1>1, <1>2, MoveGood
  <1>6. Good(p, Return([m EXCEPT !.status = v], SUCCESS))
    BY <1>1, <1>2, <1>3, ReturnGood
  <1> QED BY <1>4, <1>5, <1>6, LocalInv

LEMMA PipelineForkInv ==
    ASSUME Inv, NEW p \in Pid, PipelineFork(p)
    PROVE  Inv'
  <1> DEFINE m == mem[p]
             f == Top(m)
             kids == NodeOf(m).kids
             fl == m.flags \cup {"CHILD_PROCESS"}
             mc == [m EXCEPT !.flags = fl]
             child == Forked(mc)
  <1>1. m \in Busy /\ Good(p, m) /\ f.role = "self" /\ pstate[p] = "shell"
    BY Interpreting DEF PipelineFork, ManyStages
  <1>2. PICK c \in Pid :
          Fork(p, c, SetTop(m, [f EXCEPT !.pc = f.pc + 1, !.pids = Append(f.pids, c)]),
               Call(child, Top(child), kids[f.pc]), "fg")
    BY DEF PipelineFork
  <1>3. f.pc \in Nat \ {0} /\ f.pids \in Seq(Pid) /\ kids[f.pc] \in Node
    BY <1>1, BusyFields DEF PipelineFork
  <1>4. Append(f.pids, c) \in Seq(Pid) /\ f.pc + 1 \in Nat \ {0}
    BY <1>3, AppendProperties
  <1>5. Good(p, SetTop(m, [f EXCEPT !.pc = f.pc + 1, !.pids = Append(f.pids, c)]))
    BY <1>1, <1>4, MoveGood
  <1>6. fl \in SUBSET ExecFlag
    BY <1>1 DEF Busy, Memory, ExecFlag
  <1> HIDE DEF fl
  <1>7. mc \in Busy
    BY <1>1, <1>6, FieldGood
  <1> HIDE DEF mc
  <1>8. Call(child, Top(child), kids[f.pc]) \in Memory /\ Anchored(Call(child, Top(child), kids[f.pc]))
    BY <1>3, <1>7, ForkedGood
  <1> QED BY <1>1, <1>2, <1>5, <1>8, ForkInv

LEMMA PipelineForkFailsInv ==
    ASSUME Inv, NEW p \in Pid, PipelineForkFails(p)
    PROVE  Inv'
  <1>1. mem[p] \in Busy /\ Good(p, mem[p]) /\ Top(mem[p]).role = "self"
    BY Interpreting DEF PipelineForkFails, ManyStages
  <1>2. Good(p, Return(mem[p], ERROR_DEFAULT))
    BY <1>1, MoveGood
  <1> QED BY <1>2 DEF PipelineForkFails, Inv, TypeOK, NoReturnPastFork, Good, Anchored

LEMMA PipelineWaitInv ==
    ASSUME Inv, NEW p \in Pid, PipelineWait(p)
    PROVE  Inv'
  <1> DEFINE m == mem[p]
             f == Top(m)
             n == NodeOf(m)
             c == f.pids[1]
             st == childStatus(code[c])
             v == IF "BANG" \in n.flags THEN negated(st) ELSE st
             rest == SetTop(m, [f EXCEPT !.pids = Tail(f.pids)])
             done == Return([m EXCEPT !.status = v], SUCCESS)
  <1>1. m \in Busy /\ Good(p, m) /\ f.role = "self" /\ f.pids # <<>>
    BY Interpreting DEF PipelineWait, ManyStages
  <1>2. f.pids \in Seq(Pid) /\ SUCCESS \in StatusEnum
    BY <1>1, BusyFields DEF StatusEnum
  <1>3. c \in Pid /\ Tail(f.pids) \in Seq(Pid)
    BY <1>1, <1>2, EmptySeq, ElementOfSeq, HeadTailProperties
  <1>4. code[c] \in WaitStatus
    BY <1>3 DEF Inv, TypeOK
  <1>5. v \in Status
    BY <1>4, StatusValues
  <1>6. Reap(p, c, IF Len(f.pids) > 1 THEN rest ELSE done)
    BY DEF PipelineWait
  <1> HIDE DEF v
  <1>7. Good(p, rest)
    BY <1>1, <1>3, MoveGood
  <1>8. Good(p, done)
    BY <1>1, <1>2, <1>5, ReturnGood
  <1> HIDE DEF rest, done
  <1> QED BY <1>6, <1>7, <1>8, ReapInv

LEMMA SubshellInv ==
    ASSUME Inv, NEW p \in Pid, executeSubshellNode(p)
    PROVE  Inv'
  <1> DEFINE m == mem[p]
             f == Top(m)
             kids == NodeOf(m).kids
             child == Forked(m)
  <1>1. /\ m \in Busy /\ Good(p, m) /\ f.role = "self" /\ pstate[p] = "shell"
        /\ NodeOf(m).type = "SUBSHELL"
    BY Interpreting DEF executeSubshellNode, SubshellFork, SubshellForkFails, SubshellWait
  <1>2. /\ f.pids \in Seq(Pid) /\ SUCCESS \in StatusEnum
        /\ \A i \in 1..Len(kids) : kids[i] \in Node
    BY <1>1, BusyFields DEF StatusEnum
  <1>3. CASE SubshellFork(p)
    <2>1. PICK c \in Pid : Fork(p, c, SetTop(m, [f EXCEPT !.pids = <<c>>]),
                                Call(child, Top(child), kids[1]), "fg")
      BY <1>3 DEF SubshellFork
    <2>2. kids[1] \in Node
      BY <1>1, <1>2, TopType, AstAssumption DEF AstAssumption, NodeOf
    <2>3. <<c>> \in Seq(Pid)
      OBVIOUS
    <2>4. Good(p, SetTop(m, [f EXCEPT !.pids = <<c>>]))
      BY <1>1, <2>3, MoveGood
    <2>5. Call(child, Top(child), kids[1]) \in Memory /\ Anchored(Call(child, Top(child), kids[1]))
      BY <1>1, <2>2, ForkedGood
    <2> QED BY <1>1, <2>1, <2>4, <2>5, ForkInv
  <1>4. CASE SubshellForkFails(p)
    <2>1. Good(p, Return(m, ERROR_DEFAULT))
      BY <1>1, MoveGood
    <2> QED BY <1>4, <2>1, LocalInv DEF SubshellForkFails
  <1>5. CASE SubshellWait(p)
    <2> DEFINE c == f.pids[1]
               v == childStatus(code[c])
    <2>1. c \in Pid
      BY <1>2, <1>5, EmptySeq, ElementOfSeq DEF SubshellWait
    <2>2. v \in Status
      BY <2>1, StatusValues DEF Inv, TypeOK
    <2>3. Reap(p, c, Return([m EXCEPT !.status = v], SUCCESS))
      BY <1>5 DEF SubshellWait
    <2> HIDE DEF v
    <2>4. Good(p, Return([m EXCEPT !.status = v], SUCCESS))
      BY <1>1, <1>2, <2>2, ReturnGood
    <2> QED BY <2>3, <2>4, ReapInv
  <1> QED BY <1>3, <1>4, <1>5 DEF executeSubshellNode

LEMMA ForkedChildExitsInv ==
    ASSUME Inv, NEW p \in Pid, ForkedChildExits(p)
    PROVE  Inv'
  <1>1. mem[p] \in Memory
    BY DEF Inv, TypeOK
  <1>2. mem[p].ret \in WaitStatus /\ mem[p].status \in WaitStatus
    BY <1>1, StatusValues DEF Memory
  <1> QED BY <1>2, ExitInv DEF ForkedChildExits

-----------------------------------------------------------------------------
(* Simple commands.                                                          *)

LEMMA AssignmentInv ==
    ASSUME Inv, NEW p \in Pid, AssignmentCommand(p)
    PROVE  Inv'
  <1>1. mem[p] \in Busy /\ Good(p, mem[p]) /\ Top(mem[p]).role = "self"
    BY Interpreting DEF AssignmentCommand
  <1>2. Good(p, Return(mem[p], SUCCESS)) /\ Good(p, Return(mem[p], ERROR_FILE_NOT_FOUND))
    BY <1>1, MoveGood
  <1> QED BY <1>2, LocalInv DEF AssignmentCommand

LEMMA FunctionCallInv ==
    ASSUME Inv, NEW p \in Pid, FunctionCall(p)
    PROVE  Inv'
  <1> DEFINE m == mem[p]
             f == Top(m)
  <1>1. m \in Busy /\ Good(p, m) /\ f.role = "self" /\ CommandKind(m) = "function"
    BY Interpreting DEF FunctionCall
  <1>2. Body(m) # NoNode
    BY <1>1 DEF CommandKind
  <1>3. NodeOf(m).word \in Word /\ m.funs \in [Word -> Node \cup {NoNode}]
    BY <1>1, BusyFields DEF Busy, Memory
  <1>4. Body(m) \in Node /\ 2 \in Nat \ {0}
    BY <1>2, <1>3 DEF Body
  <1>5. \/ Local(p, Call(m, [f EXCEPT !.pc = 2], Body(m)))
        \/ Local(p, Return(m, SUCCESS))
    BY DEF FunctionCall
  <1>6. Good(p, Call(m, [f EXCEPT !.pc = 2], Body(m))) /\ Good(p, Return(m, SUCCESS))
    BY <1>1, <1>4, MoveGood
  <1> QED BY <1>5, <1>6, LocalInv

LEMMA BuiltinInv ==
    ASSUME Inv, NEW p \in Pid, executeBuiltinCommand(p)
    PROVE  Inv'
  <1> DEFINE m == mem[p]
  <1>1. m \in Busy /\ Good(p, m) /\ Top(m).role = "self" /\ CommandKind(m) = "builtin"
    BY Interpreting DEF executeBuiltinCommand
  <1>2. NodeOf(m).word \in SpecialBuiltin \cup RegularBuiltin
    BY <1>1 DEF CommandKind
  <1>3. Top(m).node \in Node /\ NodeOf(m).outcome \subseteq Status
    BY <1>1, <1>2, TopType, AstAssumption DEF AstAssumption, NodeOf
  <1>4. m.status \in Status /\ m.flags \in SUBSET ExecFlag /\ SUCCESS \in StatusEnum
    BY <1>1 DEF Busy, Memory, StatusEnum
  <1>5. CASE \E st \in BuiltinResult(m) :
               LET mm == AfterBuiltin(m, st)
               IN  IF "CHILD_PROCESS" \in m.flags THEN Exit(p, mm.status)
                                                  ELSE Local(p, Return(mm, SUCCESS))
    <2>1. PICK st \in BuiltinResult(m) :
            LET mm == AfterBuiltin(m, st)
            IN  Exit(p, mm.status) \/ Local(p, Return(mm, SUCCESS))
      BY <1>5
    <2>2. st \in Status
      BY <1>3, <1>4, <2>1 DEF BuiltinResult
    <2> DEFINE fl == IF NodeOf(m).word = "exit" /\ "MANY_ARGS" \notin NodeOf(m).flags THEN m.flags \cup {"EXIT"} ELSE m.flags
    <2>3. fl \in SUBSET ExecFlag
      BY <1>4 DEF ExecFlag
    <2>4. AfterBuiltin(m, st) = [m EXCEPT !.status = st, !.flags = fl]
      BY DEF AfterBuiltin
    <2> HIDE DEF fl
    <2>5. AfterBuiltin(m, st).status = st
      BY <1>1, <2>4 DEF Busy, Memory
    <2>6. Good(p, Return(AfterBuiltin(m, st), SUCCESS))
      <3>1. Good(p, Return([m EXCEPT !.status = st, !.flags = fl], SUCCESS))
        BY <1>1, <1>4, <2>2, <2>3, ReturnGood
      <3> QED BY <2>4, <3>1
    <2>7. st \in WaitStatus
      BY <2>2, StatusValues
    <2> QED BY <2>1, <2>5, <2>6, <2>7, ExitInv, LocalInv
  <1>6. CASE Exit(p, m.status) \/ Local(p, Return(m, SUCCESS))
    <2>1. m.status \in WaitStatus
      BY <1>4, StatusValues
    <2>2. Good(p, Return(m, SUCCESS))
      BY <1>1, MoveGood
    <2> QED BY <1>6, <2>1, <2>2, ExitInv, LocalInv
  <1> QED BY <1>5, <1>6 DEF executeBuiltinCommand

LEMMA RunningInShell ==
    ASSUME Inv, NEW p \in Pid, RunsInShell(p)
    PROVE  /\ mem[p] \in Busy /\ Good(p, mem[p]) /\ Top(mem[p]).role = "self"
           /\ pstate[p] = "shell"
  BY Interpreting DEF RunsInShell

LEMMA ExternalForkInv ==
    ASSUME Inv, NEW p \in Pid, ExternalFork(p)
    PROVE  Inv'
  <1> DEFINE m == mem[p]
             f == Top(m)
  <1>1. m \in Busy /\ Good(p, m) /\ f.role = "self" /\ pstate[p] = "shell"
    BY RunningInShell DEF ExternalFork
  <1>2. PICK c \in Pid :
          \/ Fork(p, c, Return(m, SUCCESS), Forked(m), "bg")
          \/ Fork(p, c, SetTop(m, [f EXCEPT !.pids = <<c>>]), Forked(m), "fg")
    BY DEF ExternalFork
  <1>3. <<c>> \in Seq(Pid)
    OBVIOUS
  <1>4. Good(p, Return(m, SUCCESS)) /\ Good(p, SetTop(m, [f EXCEPT !.pids = <<c>>]))
    BY <1>1, <1>3, MoveGood
  <1>5. Forked(m) \in Memory /\ Anchored(Forked(m))
    BY <1>1, ForkedGood
  <1> QED BY <1>1, <1>2, <1>4, <1>5, ForkInv

LEMMA ExternalWaitInv ==
    ASSUME Inv, NEW p \in Pid, ExternalWait(p)
    PROVE  Inv'
  <1> DEFINE m == mem[p]
             c == Top(m).pids[1]
             v == IF WIFEXITED(code[c]) THEN WEXITSTATUS(code[c]) ELSE 128 + WTERMSIG(code[c])
  <1>1. m \in Busy /\ Good(p, m) /\ Top(m).role = "self" /\ Top(m).pids # <<>>
    BY RunningInShell DEF ExternalWait
  <1>2. Top(m).pids \in Seq(Pid) /\ SUCCESS \in StatusEnum
    BY <1>1, BusyFields DEF StatusEnum
  <1>3. c \in Pid
    BY <1>1, <1>2, EmptySeq, ElementOfSeq
  <1>4. code[c] \in WaitStatus
    BY <1>3 DEF Inv, TypeOK
  <1>5. v \in Status
    BY <1>4, StatusValues
  <1>6. Reap(p, c, Return([m EXCEPT !.status = v], SUCCESS))
    BY DEF ExternalWait
  <1> HIDE DEF v
  <1>7. Good(p, Return([m EXCEPT !.status = v], SUCCESS))
    BY <1>1, <1>2, <1>5, ReturnGood
  <1> QED BY <1>6, <1>7, ReapInv

LEMMA ExternalExecInv ==
    ASSUME Inv, NEW p \in Pid, ExternalExec(p)
    PROVE  Inv'
  <1>1. mem[p] \in Busy
    BY DEF ExternalExec, BecomesProgram, Inv, TypeOK, Busy
  <1>2. NodeOf(mem[p]).outcome \subseteq WaitStatus
    BY <1>1, BusyFields
  <1>3. CASE \E w \in NodeOf(mem[p]).outcome :
               /\ pstate' = [pstate EXCEPT ![p] = "exec"]
               /\ code' = [code EXCEPT ![p] = w]
               /\ mem' = [mem EXCEPT ![p] = executorCtor]
               /\ UNCHANGED <<parent, job, lines>>
    BY <1>2, <1>3, CtorType DEF Inv, TypeOK, NoReturnPastFork
  <1>4. CASE Exit(p, ERROR_FILE_NOT_FOUND)
    <2>1. ERROR_FILE_NOT_FOUND \in WaitStatus
      BY DEF WaitStatus, ERROR_FILE_NOT_FOUND
    <2> QED BY <1>4, <2>1, ExitInv
  <1> QED BY <1>3, <1>4 DEF ExternalExec

LEMMA ExternalProgramInv ==
    ASSUME Inv, NEW p \in Pid, executeExternalProgram(p)
    PROVE  Inv'
  <1>1. CASE ExternalForkFails(p)
    <2>1. Good(p, Return(mem[p], ERROR_DEFAULT))
      BY <1>1, RunningInShell, MoveGood DEF ExternalForkFails
    <2> QED BY <1>1, <2>1, LocalInv DEF ExternalForkFails
  <1> QED BY <1>1, ExternalForkInv, ExternalWaitInv, ExternalExecInv DEF executeExternalProgram

-----------------------------------------------------------------------------
(* The whole system.                                                         *)

LEMMA ExecuteNodeInv ==
    ASSUME Inv, NEW p \in Pid, executeNode(p)
    PROVE  Inv'
  <1>1. CASE executeProgramNode(p) \/ executeCompleteCommandNode(p) \/ executeBraceGroupNode(p)
             \/ executeElseClauseNode(p)
    BY <1>1, RunChildrenInv
       DEF executeProgramNode, executeCompleteCommandNode, executeBraceGroupNode, executeElseClauseNode
  <1>2. CASE executeWhileClauseNode(p) \/ executeUntilClauseNode(p)
    BY <1>2, ConditionLoopInv DEF executeWhileClauseNode, executeUntilClauseNode
  <1>3. CASE executePipelineNode(p)
    BY <1>3, PipelineOfOneInv, PipelineForkInv, PipelineForkFailsInv, PipelineWaitInv
       DEF executePipelineNode
  <1>4. CASE executeSimpleCommandNode(p)
    BY <1>4, AssignmentInv, FunctionCallInv, BuiltinInv, ExternalProgramInv
       DEF executeSimpleCommandNode
  <1> QED BY <1>1, <1>2, <1>3, <1>4, ErrCheckInv, ListInv, AndOrInv, SubshellInv, IfInv, ForInv,
             CaseInv, FunctionDefinitionInv, ForkedChildExitsInv DEF executeNode

LEMMA RunLineInv == ASSUME Inv, runLine PROVE Inv'
  <1> DEFINE first == FrameOf(Head(lines))
             m == [mem[Shell] EXCEPT !.stack = <<first>>, !.ret = SUCCESS]
  <1>1. lines \in Seq(Node) /\ lines # <<>> /\ Shell \in Pid
    BY ProcessAssumption DEF runLine, Inv, TypeOK, ProcessAssumption
  <1>2. first \in Frame /\ Tail(lines) \in Seq(Node)
    BY <1>1, HeadTailProperties, FrameOfType
  <1>3. mem' = [mem EXCEPT ![Shell] = m] /\ lines' = Tail(lines)
        /\ UNCHANGED <<pstate, parent, code, job>>
    BY DEF runLine
  <1> HIDE DEF first
  <1>4. <<first>> \in Seq(Frame) /\ SUCCESS \in StatusEnum /\ mem[Shell] \in Memory
    BY <1>1, <1>2 DEF Inv, TypeOK, StatusEnum
  <1>5. m \in Memory
    BY <1>4 DEF Memory
  <1> HIDE DEF m
  <1> QED BY <1>1, <1>2, <1>3, <1>5 DEF Inv, TypeOK, NoReturnPastFork

LEMMA InitInv == Init => Inv
  <1>1. 0 \in WaitStatus
    BY DEF WaitStatus
  <1> QED BY <1>1, CtorType, ProcessAssumption DEF Init, Inv, TypeOK, NoReturnPastFork, ProcessAssumption

LEMMA NextInv == Inv /\ [Next]_vars => Inv'
  <1> SUFFICES ASSUME Inv, [Next]_vars PROVE Inv'
    OBVIOUS
  <1>1. CASE \E p \in Pid : executeNode(p)
    BY <1>1, ExecuteNodeInv
  <1>2. CASE \E p \in Pid : ProgramEnds(p)
    BY <1>2, ExitInv DEF ProgramEnds, Inv, TypeOK
  <1>3. CASE runLine
    BY <1>3, RunLineInv
  <1>4. CASE mainReturns
    <2>1. 0 \in WaitStatus /\ Shell \in Pid
      BY ProcessAssumption DEF WaitStatus, ProcessAssumption
    <2> QED BY <1>4, <2>1, ExitInv DEF mainReturns
  <1>5. CASE Finished \/ UNCHANGED vars
    BY <1>5 DEF Finished, vars, Inv, TypeOK, NoReturnPastFork
  <1> QED BY <1>1, <1>2, <1>3, <1>4, <1>5 DEF Next

\* Every variable keeps its type: in particular a wait status that was a signal number
\* never ends up in last_exec_status, and a call only ever returns an error code.
THEOREM TypeCorrect == Spec => []TypeOK
  <1>1. Inv => TypeOK
    BY DEF Inv
  <1> QED BY <1>1, InitInv, NextInv, PTL DEF Spec

\* No forked child returns into the calls of its parent, whatever the program is: the
\* frame of its fork stays on its stack until it exits or executes another program.
THEOREM NeverReturnsPastFork == Spec => []NoReturnPastFork
  <1>1. Inv => NoReturnPastFork
    BY DEF Inv
  <1> QED BY <1>1, InitInv, NextInv, PTL DEF Spec

-----------------------------------------------------------------------------
(* What a process still has to wait for is in the call it is in.             *)

\* Nobody waits in a child's copy of its parent's calls: m was never forked, or still has
\* the frame of its fork.
Rooted(m) == m.base = 0 \/ Anchored(m)

\* The calls of the process below the topmost one wait for nobody.
Quiet(m) == \A i \in (m.base + 1)..(Len(m.stack) - 1) : m.stack[i].pids = <<>>

\* Nor does the topmost one.
Resting(m) == m.stack # <<>> /\ Top(m).role = "self" => Top(m).pids = <<>>

\* The topmost call is about to wait: a pipeline of many stages, a subshell, or a program
\* the shell started in the foreground.
Waiting(m) ==
    LET f == Top(m)  n == NodeOf(m)
    IN  /\ m.ret = SUCCESS
        /\ \A i, j \in 1..Len(f.pids) : f.pids[i] = f.pids[j] => i = j
        /\ \/ n.type = "PIPELINE" /\ Len(n.kids) > 1
           \/ n.type = "SUBSHELL" /\ Len(f.pids) = 1
           \/ /\ n.type = "SIMPLE_COMMAND" /\ CommandKind(m) = "external"
              /\ "CHILD_PROCESS" \notin m.flags /\ Len(f.pids) = 1

Idle(m) == Rooted(m) /\ Quiet(m) /\ Resting(m)
Tidy(m) == Rooted(m) /\ Quiet(m) /\ (Resting(m) \/ Waiting(m))

\* The strengthening of ForegroundAwaited.
AwaitInv == Inv /\ ForegroundAwaited /\ \A p \in Pid : pstate[p] = "shell" => Tidy(mem[p])

\* The children a memory has written down.
Pending(m) == IF m.stack = <<>> \/ Top(m).role = "child" THEN {}
              ELSE {Top(m).pids[i] : i \in 1..Len(Top(m).pids)}

LEMMA AwaitedIs ==
    ASSUME NEW p \in Pid
    PROVE  Awaited(p) = IF pstate[p] = "shell" THEN Pending(mem[p]) ELSE {}
  BY DEF Awaited, Pending

LEMMA RestingIs ==
    ASSUME NEW m \in Memory
    PROVE  /\ Resting(m) => Pending(m) = {}
           /\ Pending(m) = {} => Resting(m)
  <1>1. CASE m.stack = <<>> \/ Top(m).role = "child"
    BY <1>1 DEF Resting, Pending
  <1>2. CASE m.stack # <<>> /\ Top(m).role # "child"
    <2>1. m \in Busy
      BY <1>2 DEF Busy
    <2>2. Top(m).role = "self" /\ Top(m).pids \in Seq(Pid)
      BY <1>2, <2>1, TopType DEF Frame
    <2> DEFINE s == Top(m).pids
    <2>3. s \in Seq(Pid) /\ Len(s) \in Nat
      BY <2>2, LenProperties
    <2>4. Pending(m) = {s[i] : i \in 1..Len(s)} /\ (Resting(m) <=> s = <<>>)
      BY <1>2, <2>2 DEF Pending, Resting
    <2> HIDE DEF s
    <2>5. s = <<>> => Len(s) = 0
      BY <2>3, EmptySeq
    <2>6. s # <<>> => 1 \in 1..Len(s)
      BY <2>3, EmptySeq
    <2>7. {s[i] : i \in 1..Len(s)} = {} <=> s = <<>>
      <3>1. ASSUME s = <<>> PROVE {s[i] : i \in 1..Len(s)} = {}
        BY <2>5, <3>1
      <3>2. ASSUME s # <<>> PROVE {s[i] : i \in 1..Len(s)} # {}
        BY <2>6, <3>2
      <3> QED BY <3>1, <3>2
    <2> QED BY <2>4, <2>7
  <1> QED BY <1>1, <1>2

\* The stack after SetTop and Call, whatever the frame and the node are.
LEMMA SetTopStack ==
    ASSUME NEW m \in Busy, NEW f
    PROVE  /\ SetTop(m, f).base = m.base
           /\ Len(SetTop(m, f).stack) = Len(m.stack)
           /\ \A i \in 1..Len(m.stack) :
                 SetTop(m, f).stack[i] = IF i = Len(m.stack) THEN f ELSE m.stack[i]
           /\ \E S : SetTop(m, f).stack \in Seq(S)
  <1> DEFINE S == Frame \cup {f}
             s == [m.stack EXCEPT ![Len(m.stack)] = f]
  <1>1. m \in Memory /\ m.stack \in Seq(S) /\ Len(m.stack) \in 1..Len(m.stack) /\ f \in S
    BY TopType DEF Busy
  <1> HIDE DEF S
  <1>2. /\ s \in Seq(S)
        /\ Len(s) = Len(m.stack)
        /\ \A i \in 1..Len(m.stack) : s[i] = IF i = Len(m.stack) THEN f ELSE m.stack[i]
    BY <1>1, ExceptSeq
  <1> HIDE DEF s
  <1>3. SetTop(m, f) = [m EXCEPT !.stack = s]
    BY DEF SetTop, s
  <1>4. SetTop(m, f).stack = s /\ SetTop(m, f).base = m.base
    BY <1>1, <1>3 DEF Memory
  <1> QED BY <1>2, <1>4

LEMMA CallStack ==
    ASSUME NEW m \in Busy, NEW f, NEW n
    PROVE  /\ Call(m, f, n).base = m.base
           /\ Len(Call(m, f, n).stack) = Len(m.stack) + 1
           /\ \A i \in 1..Len(m.stack) :
                 Call(m, f, n).stack[i] = IF i = Len(m.stack) THEN f ELSE m.stack[i]
           /\ Top(Call(m, f, n)) = FrameOf(n)
  <1> DEFINE s == SetTop(m, f).stack
             t == Append(s, FrameOf(n))
  <1>1. /\ m \in Memory /\ Len(s) = Len(m.stack) /\ Len(m.stack) \in Nat
        /\ \A i \in 1..Len(m.stack) : s[i] = IF i = Len(m.stack) THEN f ELSE m.stack[i]
    BY SetTopStack, TopType DEF Busy
  <1>2. PICK T : s \in Seq(T)
    BY SetTopStack
  <1>3. Call(m, f, n) = [m EXCEPT !.stack = t]
    BY <1>1 DEF Call, SetTop, Memory
  <1> HIDE DEF s
  <1> DEFINE S == T \cup {FrameOf(n)}
  <1>4. s \in Seq(S) /\ FrameOf(n) \in S
    BY <1>2
  <1> HIDE DEF S
  <1>5. /\ t \in Seq(S)
        /\ Len(t) = Len(m.stack) + 1
        /\ \A i \in 1..Len(m.stack) : t[i] = IF i = Len(m.stack) THEN f ELSE m.stack[i]
        /\ t[Len(m.stack) + 1] = FrameOf(n)
    BY <1>1, <1>4, AppendProperties
  <1> HIDE DEF t
  <1>6. Call(m, f, n).stack = t /\ Call(m, f, n).base = m.base
    BY <1>1, <1>3 DEF Memory
  <1> QED BY <1>5, <1>6 DEF Top

\* What the topmost call does next, when it waits for nobody, leaves nobody to wait for.
\* k is m with other fields of its environment.
LEMMA StepIdle ==
    ASSUME NEW m \in Busy, Tidy(m), Top(m).role = "self", Top(m).pids = <<>>,
           NEW k \in Busy, k.stack = m.stack, k.base = m.base
    PROVE  \A f, n : f.pids = <<>> => Idle(SetTop(k, f)) /\ Idle(Call(k, f, n))
  <1> DEFINE N == Len(m.stack)
  <1>1. /\ N \in Nat \ {0} /\ N = Len(k.stack) /\ m.base \in Nat /\ m.stack # <<>>
        /\ \A i \in 1..N : k.stack[i] = m.stack[i]
    BY TopType DEF Busy, Memory
  <1>2. Rooted(m) /\ (m.base # 0 => m.base \in 1..(N - 1) /\ m.stack[m.base].role = "child")
    BY <1>1 DEF Tidy, Rooted, Anchored, Top
  <1>3. \A i \in (m.base + 1)..N : m.stack[i].pids = <<>>
    BY <1>1 DEF Tidy, Quiet, Top
  <1>4. ASSUME NEW f, f.pids = <<>> PROVE Idle(SetTop(k, f))
    <2> DEFINE x == SetTop(k, f)
    <2>1. /\ x.base = m.base /\ Len(x.stack) = N
          /\ \A i \in 1..N : x.stack[i] = IF i = N THEN f ELSE m.stack[i]
      BY <1>1, SetTopStack
    <2> HIDE DEF x
    <2>2. Rooted(x)
      BY <1>1, <1>2, <2>1 DEF Rooted, Anchored
    <2>3. Quiet(x)
      BY <1>1, <1>3, <2>1 DEF Quiet
    <2>4. Top(x) = f
      BY <1>1, <2>1 DEF Top
    <2> QED BY <1>4, <2>2, <2>3, <2>4 DEF Idle, Resting, x
  <1>5. ASSUME NEW f, NEW n, f.pids = <<>> PROVE Idle(Call(k, f, n))
    <2> DEFINE x == Call(k, f, n)
    <2>1. /\ x.base = m.base /\ Len(x.stack) = N + 1
          /\ \A i \in 1..N : x.stack[i] = IF i = N THEN f ELSE m.stack[i]
          /\ Top(x) = FrameOf(n)
      BY <1>1, CallStack
    <2> HIDE DEF x
    <2>2. Rooted(x)
      BY <1>1, <1>2, <2>1 DEF Rooted, Anchored
    <2>3. Quiet(x)
      <3> SUFFICES ASSUME NEW i \in (x.base + 1)..(Len(x.stack) - 1) PROVE x.stack[i].pids = <<>>
        BY DEF Quiet
      <3>1. i \in (m.base + 1)..N /\ i \in 1..N
        BY <1>1, <2>1
      <3> QED BY <1>3, <1>5, <2>1, <3>1
    <2>4. Top(x).pids = <<>>
      BY <2>1 DEF FrameOf
    <2> QED BY <2>2, <2>3, <2>4 DEF Idle, Resting, x
  <1> QED BY <1>4, <1>5

\* A return finds the frame of a fork, a call that waits for nobody, or nothing.
LEMMA ReturnIdle ==
    ASSUME NEW m \in Busy, Tidy(m), Top(m).role = "self",
           NEW k \in Busy, k.stack = m.stack, k.base = m.base, NEW st \in StatusEnum
    PROVE  Idle(Return(k, st))
  <1> DEFINE N == Len(m.stack)
             x == Return(k, st)
  <1>1. N \in Nat \ {0} /\ N = Len(k.stack) /\ m.base \in Nat
    BY TopType DEF Busy, Memory
  <1>2. m.base # 0 => m.base \in 1..(N - 1) /\ m.stack[m.base].role = "child"
    BY <1>1 DEF Tidy, Rooted, Anchored, Top
  <1>3. \A i \in (m.base + 1)..(N - 1) : m.stack[i].pids = <<>>
    BY DEF Tidy, Quiet
  <1>4. /\ x \in Memory /\ x.base = m.base /\ Len(x.stack) = N - 1
        /\ \A i \in 1..(N - 1) : x.stack[i] = m.stack[i]
    BY <1>1, ReturnType
  <1> HIDE DEF x
  <1>5. Rooted(x) /\ Quiet(x)
    <2>1. Rooted(x)
      BY <1>1, <1>2, <1>4 DEF Rooted, Anchored
    <2>2. Quiet(x)
      <3> SUFFICES ASSUME NEW i \in (x.base + 1)..(Len(x.stack) - 1) PROVE x.stack[i].pids = <<>>
        BY DEF Quiet
      <3>1. i \in (m.base + 1)..(N - 1) /\ i \in 1..(N - 1)
        BY <1>1, <1>4
      <3> QED BY <1>3, <1>4, <3>1
    <2> QED BY <2>1, <2>2
  <1>6. Resting(x)
    <2> SUFFICES ASSUME x.stack # <<>>, Top(x).role = "self" PROVE Top(x).pids = <<>>
      BY DEF Resting
    <2>1. N - 1 \in 1..(N - 1)
      <3>1. x.stack \in Seq(Frame) /\ Len(x.stack) # 0
        BY <1>4, EmptySeq DEF Memory
      <3> QED BY <1>1, <1>4, <3>1
    <2>2. Top(x) = m.stack[N - 1]
      BY <1>4, <2>1 DEF Top
    <2>3. m.base # N - 1
      <3>1. "child" # "self"
        OBVIOUS
      <3> QED BY <1>1, <1>2, <2>1, <2>2, <3>1
    <2>4. N - 1 \in (m.base + 1)..(N - 1)
      BY <1>1, <1>2, <2>1, <2>3
    <2> QED BY <1>3, <2>2, <2>4
  <1> QED BY <1>5, <1>6 DEF Idle, x

\* The children of q that were started in the foreground.
ForegroundOf(q) == {c \in ChildrenOf(q) : job[c] = "fg"}

\* AwaitInv, process by process.
LEMMA AwaitInvIs ==
    AwaitInv <=> /\ Inv
                 /\ \A q \in Pid : /\ ForegroundOf(q) = IF pstate[q] = "shell" THEN Pending(mem[q]) ELSE {}
                                   /\ pstate[q] = "shell" => Tidy(mem[q])
  BY AwaitedIs DEF AwaitInv, ForegroundAwaited, ForegroundOf

LEMMA AwaitInvIsNext ==
    AwaitInv' <=> /\ Inv'
                  /\ \A q \in Pid : /\ ForegroundOf(q)' = IF pstate'[q] = "shell" THEN Pending(mem'[q]) ELSE {}
                                    /\ pstate'[q] = "shell" => Tidy(mem'[q])
  <1>1. \A q \in Pid : Awaited(q)' = IF pstate'[q] = "shell" THEN Pending(mem'[q]) ELSE {}
    BY DEF Awaited, Pending
  <1> QED BY <1>1 DEF AwaitInv, ForegroundAwaited, ForegroundOf

LEMMA IdleIsTidy ==
    ASSUME NEW m \in Memory, Idle(m)
    PROVE  Tidy(m) /\ Pending(m) = {}
  BY RestingIs DEF Idle, Tidy

LEMMA LocalAwaits ==
    ASSUME AwaitInv, Inv', NEW p \in Pid, pstate[p] = "shell", Resting(mem[p]),
           NEW m, Idle(m), Local(p, m)
    PROVE  AwaitInv'
  <1>1. Inv /\ mem \in [Pid -> Memory] /\ m \in Memory
    <2>1. mem \in [Pid -> Memory] /\ mem' \in [Pid -> Memory] /\ mem' = [mem EXCEPT ![p] = m]
      BY DEF AwaitInv, Inv, TypeOK, Local
    <2> QED BY <2>1 DEF AwaitInv
  <1>2. Pending(mem[p]) = {} /\ Pending(m) = {} /\ Tidy(m)
    BY <1>1, RestingIs, IdleIsTidy
  <1>3. ASSUME NEW q \in Pid
        PROVE  /\ ForegroundOf(q)' = ForegroundOf(q)
               /\ pstate'[q] = pstate[q]
               /\ mem'[q] = IF q = p THEN m ELSE mem[q]
    BY <1>1 DEF Local, ForegroundOf, ChildrenOf
  <1> QED BY <1>2, <1>3, AwaitInvIs, AwaitInvIsNext

LEMMA ForkAwaits ==
    ASSUME AwaitInv, Inv', NEW p \in Pid, pstate[p] = "shell", NEW c \in Pid,
           NEW pm, NEW cm \in Memory, NEW j,
           Tidy(pm), Idle(cm), Fork(p, c, pm, cm, j),
           Pending(pm) = IF j = "fg" THEN Pending(mem[p]) \cup {c} ELSE Pending(mem[p])
    PROVE  AwaitInv'
  <1>1. Inv /\ mem \in [Pid -> Memory] /\ pstate \in [Pid -> {"free", "shell", "exec", "zombie"}]
        /\ parent \in [Pid -> Pid \cup {"init", "launcher"}] /\ job \in [Pid -> {"fg", "bg", "lost"}]
    BY DEF AwaitInv, Inv, TypeOK
  <1>2. Pending(cm) = {} /\ Tidy(cm)
    BY IdleIsTidy
  <1>3. /\ pstate[c] = "free" /\ c # p
        /\ \A q \in Pid : pstate'[q] = IF q = c THEN "shell" ELSE pstate[q]
        /\ \A q \in Pid : parent'[q] = IF q = c THEN p ELSE parent[q]
        /\ \A q \in Pid : job'[q] = IF q = c THEN j ELSE job[q]
        /\ \A q \in Pid : mem'[q] = IF q = c THEN cm ELSE IF q = p THEN pm ELSE mem[q]
    BY <1>1 DEF Fork
  <1>4. ASSUME NEW q \in Pid, q # p PROVE ForegroundOf(q)' = ForegroundOf(q)
    BY <1>3, <1>4 DEF ForegroundOf, ChildrenOf
  <1>5. ForegroundOf(p)' = IF j = "fg" THEN ForegroundOf(p) \cup {c} ELSE ForegroundOf(p)
    BY <1>3 DEF ForegroundOf, ChildrenOf
  <1>6. ForegroundOf(c) = {}
    BY <1>3, AwaitInvIs
  <1>7. ForegroundOf(p) = Pending(mem[p])
    BY AwaitInvIs
  <1>8. ASSUME NEW q \in Pid
        PROVE  /\ ForegroundOf(q)' = IF pstate'[q] = "shell" THEN Pending(mem'[q]) ELSE {}
               /\ pstate'[q] = "shell" => Tidy(mem'[q])
    <2>1. CASE q = p
      BY <1>3, <1>5, <1>7, <2>1
    <2>2. CASE q = c
      BY <1>2, <1>3, <1>4, <1>6, <2>2
    <2>3. CASE q # p /\ q # c
      BY <1>3, <1>4, <2>3, AwaitInvIs
    <2> QED BY <2>1, <2>2, <2>3
  <1> QED BY <1>8, AwaitInvIsNext

LEMMA ReapAwaits ==
    ASSUME AwaitInv, Inv', NEW p \in Pid, pstate[p] = "shell", NEW c \in Pid, NEW m,
           Tidy(m), Pending(m) = Pending(mem[p]) \ {c}, Reap(p, c, m)
    PROVE  AwaitInv'
  <1>1. mem \in [Pid -> Memory] /\ pstate \in [Pid -> {"free", "shell", "exec", "zombie"}]
        /\ parent \in [Pid -> Pid \cup {"init", "launcher"}] /\ job \in [Pid -> {"fg", "bg", "lost"}]
    BY DEF AwaitInv, Inv, TypeOK
  <1>2. /\ c # p /\ parent[c] = p /\ pstate[c] = "zombie"
        /\ \A q \in Pid : pstate'[q] = IF q = c THEN "free" ELSE pstate[q]
        /\ \A q \in Pid : parent'[q] = IF q = c THEN "init" ELSE parent[q]
        /\ \A q \in Pid : job'[q] = IF q = c THEN "fg" ELSE job[q]
        /\ \A q \in Pid : mem'[q] = IF q = p THEN m ELSE mem[q]
    BY <1>1 DEF Reap
  <1>3. \A q \in Pid : q # p => ForegroundOf(q)' = ForegroundOf(q)
    BY <1>2 DEF ForegroundOf, ChildrenOf
  <1>4. ForegroundOf(p)' = ForegroundOf(p) \ {c}
    BY <1>2 DEF ForegroundOf, ChildrenOf
  <1>5. ASSUME NEW q \in Pid
        PROVE  /\ ForegroundOf(q)' = IF pstate'[q] = "shell" THEN Pending(mem'[q]) ELSE {}
               /\ pstate'[q] = "shell" => Tidy(mem'[q])
    <2>1. CASE q = p
      BY <1>2, <1>4, <2>1, AwaitInvIs
    <2>2. CASE q # p
      BY <1>2, <1>3, <2>2, AwaitInvIs
    <2> QED BY <2>1, <2>2
  <1> QED BY <1>5, AwaitInvIsNext

LEMMA ExitAwaits ==
    ASSUME AwaitInv, Inv', NEW p \in Pid, pstate[p] # "free", NEW w, Exit(p, w)
    PROVE  AwaitInv'
  <1> DEFINE freed == {q \in Pid : \/ q = p /\ parent[p] = "init"
                                   \/ q # p /\ parent[q] = p /\ pstate[q] = "zombie"}
  <1>1. mem \in [Pid -> Memory] /\ parent \in [Pid -> Pid \cup {"init", "launcher"}]
    BY DEF AwaitInv, Inv, TypeOK
  <1>2. "init" \notin Pid
    BY ProcessAssumption DEF ProcessAssumption
  <1>3. /\ \A q \in Pid : pstate'[q] = IF q \in freed THEN "free" ELSE IF q = p THEN "zombie" ELSE pstate[q]
        /\ \A q \in Pid : parent'[q] = IF parent[q] = p THEN "init" ELSE parent[q]
        /\ \A q \in Pid : job'[q] = IF q \in freed THEN "fg" ELSE job[q]
        /\ \A q \in Pid : q # p => mem'[q] = mem[q]
    BY <1>1 DEF Exit
  <1>4. pstate'[p] # "shell" /\ ForegroundOf(p)' = {}
    BY <1>2, <1>3 DEF ForegroundOf, ChildrenOf
  <1>5. ASSUME NEW q \in Pid, q # p
        PROVE  ForegroundOf(q)' = ForegroundOf(q)
    <2> SUFFICES ASSUME NEW c \in Pid
                 PROVE  /\ parent'[c] = q <=> parent[c] = q
                        /\ parent[c] = q => (pstate'[c] = "free" <=> pstate[c] = "free") /\ job'[c] = job[c]
      BY DEF ForegroundOf, ChildrenOf
    <2>1. parent'[c] = q <=> parent[c] = q
      BY <1>2, <1>3, <1>5
    <2>2. ASSUME parent[c] = q PROVE (pstate'[c] = "free" <=> pstate[c] = "free") /\ job'[c] = job[c]
      <3>1. c \notin freed
        BY <1>2, <1>5, <2>2
      <3>2. pstate'[c] = (IF c = p THEN "zombie" ELSE pstate[c]) /\ job'[c] = job[c]
        BY <1>3, <3>1
      <3> HIDE DEF freed
      <3> QED BY <3>2
    <2> QED BY <2>1, <2>2
  <1>6. ASSUME NEW q \in Pid
        PROVE  /\ ForegroundOf(q)' = IF pstate'[q] = "shell" THEN Pending(mem'[q]) ELSE {}
               /\ pstate'[q] = "shell" => Tidy(mem'[q])
    <2>1. CASE q = p
      BY <1>4, <2>1
    <2>2. CASE q # p
      <3>1. mem'[q] = mem[q]
        BY <1>3, <2>2
      <3>2. pstate'[q] = "shell" <=> pstate[q] = "shell"
        <4>1. ASSUME q \in freed PROVE pstate[q] # "shell" /\ pstate'[q] # "shell"
          BY <1>3, <2>2, <4>1
        <4>2. ASSUME q \notin freed PROVE pstate'[q] = pstate[q]
          BY <1>3, <2>2, <4>2
        <4> QED BY <4>1, <4>2
      <3> QED BY <1>5, <2>2, <3>1, <3>2, AwaitInvIs
    <2> QED BY <2>1, <2>2
  <1> QED BY <1>6, AwaitInvIsNext

-----------------------------------------------------------------------------
(* The operations of executeNode, for AwaitInv.                              *)

\* Changes of the environment, as the operations make them.
LEMMA FieldStack ==
    ASSUME NEW m \in Busy
    PROVE  /\ \A fl \in SUBSET ExecFlag : LET k == [m EXCEPT !.flags = fl]
                                          IN  k \in Busy /\ k.stack = m.stack /\ k.base = m.base
           /\ \A v \in Status : LET k == [m EXCEPT !.status = v]
                                IN  k \in Busy /\ k.stack = m.stack /\ k.base = m.base
           /\ \A v \in Status, fl \in SUBSET ExecFlag :
                 LET k == [m EXCEPT !.status = v, !.flags = fl]
                 IN  k \in Busy /\ k.stack = m.stack /\ k.base = m.base
           /\ \A w \in Word, n \in Node : LET k == [m EXCEPT !.funs[w] = n]
                                          IN  k \in Busy /\ k.stack = m.stack /\ k.base = m.base
  BY DEF Busy, Memory

\* The same for the calls and returns of an operation that waits for nobody.
LEMMA MoveIdle ==
    ASSUME NEW m \in Busy, Tidy(m), Top(m).role = "self"
    PROVE  /\ \A st \in StatusEnum : Idle(Return(m, st))
           /\ \A st \in StatusEnum, v \in Status : Idle(Return([m EXCEPT !.status = v], st))
           /\ Idle(LoopReturn(m))
           /\ Top(m).pids = <<>> =>
                 /\ \A pc, n : Idle(Call(m, [Top(m) EXCEPT !.pc = pc], n))
                 /\ \A pc, n : Idle(Call(m, [Top(m) EXCEPT !.pc = pc, !.ran = TRUE], n))
                 /\ \A pc, n : Idle(Call(m, [Top(m) EXCEPT !.ran = TRUE, !.pc = pc], n))
                 /\ \A pc : Idle(SetTop(m, [Top(m) EXCEPT !.pc = pc]))
                 /\ \A pc : Idle(SetTop(m, [Top(m) EXCEPT !.ran = TRUE, !.pc = pc]))
  <1>1. ASSUME NEW st \in StatusEnum PROVE Idle(Return(m, st))
    BY <1>1, ReturnIdle
  <1>2. ASSUME NEW st \in StatusEnum, NEW v \in Status PROVE Idle(Return([m EXCEPT !.status = v], st))
    <2> DEFINE k == [m EXCEPT !.status = v]
    <2>1. k \in Busy /\ k.stack = m.stack /\ k.base = m.base
      BY FieldStack
    <2> HIDE DEF k
    <2>2. Idle(Return(k, st))
      BY <2>1, ReturnIdle
    <2> QED BY <2>2 DEF k
  <1>3. Idle(LoopReturn(m))
    <2>1. m.status \in Status /\ 0 \in Status /\ SUCCESS \in StatusEnum
      BY DEF Busy, Memory, Status, StatusEnum
    <2> QED BY <1>2, <2>1 DEF LoopReturn
  <1>4. ASSUME Top(m).pids = <<>>
        PROVE  /\ \A pc, n : Idle(Call(m, [Top(m) EXCEPT !.pc = pc], n))
               /\ \A pc, n : Idle(Call(m, [Top(m) EXCEPT !.pc = pc, !.ran = TRUE], n))
               /\ \A pc, n : Idle(Call(m, [Top(m) EXCEPT !.ran = TRUE, !.pc = pc], n))
               /\ \A pc : Idle(SetTop(m, [Top(m) EXCEPT !.pc = pc]))
               /\ \A pc : Idle(SetTop(m, [Top(m) EXCEPT !.ran = TRUE, !.pc = pc]))
    <2>1. Top(m) \in Frame
      BY TopType
    <2>2. /\ \A pc : [Top(m) EXCEPT !.pc = pc].pids = <<>>
          /\ \A pc : [Top(m) EXCEPT !.pc = pc, !.ran = TRUE].pids = <<>>
          /\ \A pc : [Top(m) EXCEPT !.ran = TRUE, !.pc = pc].pids = <<>>
      BY <1>4, <2>1 DEF Frame
    <2>3. \A f, n : f.pids = <<>> => Idle(SetTop(m, f)) /\ Idle(Call(m, f, n))
      BY <1>4, StepIdle
    <2> QED BY <2>2, <2>3
  <1> QED BY <1>1, <1>2, <1>3, <1>4

\* A process at a call whose type never waits.
LEMMA Unwaiting ==
    ASSUME AwaitInv, NEW p \in Pid, NEW t, Interprets(p, t),
           t \notin {"PIPELINE", "SUBSHELL", "SIMPLE_COMMAND"}
    PROVE  /\ pstate[p] = "shell" /\ mem[p] \in Busy /\ Tidy(mem[p])
           /\ Top(mem[p]).role = "self" /\ Top(mem[p]).pids = <<>> /\ Resting(mem[p])
  <1>1. Inv
    BY DEF AwaitInv
  <1>2. /\ pstate[p] = "shell" /\ mem[p] \in Busy /\ Top(mem[p]).role = "self"
        /\ NodeOf(mem[p]).type = t
    BY <1>1, Interpreting
  <1>3. Tidy(mem[p]) /\ mem[p].stack # <<>>
    BY <1>2 DEF AwaitInv, Busy
  <1>4. ~Waiting(mem[p])
    BY <1>2 DEF Waiting
  <1> QED BY <1>2, <1>3, <1>4 DEF Tidy, Resting

\* Operations that only move in the tree.
LEMMA WalkAwaits ==
    ASSUME AwaitInv, Inv', NEW p \in Pid,
           \/ \E t \in {"PROGRAM", "COMPLETE_COMMAND", "BRACE_GROUP", "ELSE_CLAUSE"} :
                 Interprets(p, t) /\ RunChildren(p)
           \/ executeAndOrNode(p)
           \/ executeIfClauseNode(p)
           \/ executeWhileClauseNode(p)
           \/ executeUntilClauseNode(p)
           \/ executeForClauseNode(p)
           \/ executeCaseClauseNode(p)
    PROVE  AwaitInv'
  <1> DEFINE m == mem[p]
  <1>1. /\ pstate[p] = "shell" /\ m \in Busy /\ Tidy(m)
        /\ Top(m).role = "self" /\ Top(m).pids = <<>> /\ Resting(m)
    BY Unwaiting DEF executeAndOrNode, executeIfClauseNode, executeWhileClauseNode,
       executeUntilClauseNode, executeForClauseNode, executeCaseClauseNode
  <1>2. /\ Idle(Return(m, SUCCESS)) /\ Idle(Return(m, ERROR_DEFAULT)) /\ Idle(LoopReturn(m))
        /\ \A pc, n : Idle(Call(m, [Top(m) EXCEPT !.pc = pc], n))
        /\ \A pc, n : Idle(Call(m, [Top(m) EXCEPT !.pc = pc, !.ran = TRUE], n))
        /\ \A pc, n : Idle(Call(m, [Top(m) EXCEPT !.ran = TRUE, !.pc = pc], n))
        /\ \A pc : Idle(SetTop(m, [Top(m) EXCEPT !.pc = pc]))
        /\ \A pc : Idle(SetTop(m, [Top(m) EXCEPT !.ran = TRUE, !.pc = pc]))
    BY <1>1, MoveIdle DEF StatusEnum
  <1>3. \E x : Local(p, x) /\ Idle(x)
    <2>1. CASE RunChildren(p)
      BY <1>2, <2>1 DEF RunChildren
    <2>2. CASE executeAndOrNode(p)
      BY <1>2, <2>2 DEF executeAndOrNode
    <2>3. CASE executeIfClauseNode(p)
      BY <1>2, <2>3 DEF executeIfClauseNode
    <2>4. CASE executeWhileClauseNode(p) \/ executeUntilClauseNode(p)
      BY <1>2, <2>4 DEF executeWhileClauseNode, executeUntilClauseNode, ConditionLoop
    <2>5. CASE executeForClauseNode(p)
      BY <1>2, <2>5 DEF executeForClauseNode
    <2>6. CASE executeCaseClauseNode(p)
      BY <1>2, <2>6 DEF executeCaseClauseNode
    <2> QED BY <2>1, <2>2, <2>3, <2>4, <2>5, <2>6
  <1> QED BY <1>1, <1>3, LocalAwaits


\* A process at any call.
LEMMA AtCall ==
    ASSUME AwaitInv, NEW p \in Pid, NEW t, Interprets(p, t)
    PROVE  /\ pstate[p] = "shell" /\ mem[p] \in Busy /\ mem[p] \in Memory /\ Tidy(mem[p])
           /\ mem[p].ret = SUCCESS
           /\ Top(mem[p]).role = "self" /\ NodeOf(mem[p]).type = t
           /\ Top(mem[p]) \in Frame /\ Top(mem[p]).pids \in Seq(Pid)
           /\ Len(Top(mem[p]).pids) \in Nat
           /\ Pending(mem[p]) = {Top(mem[p]).pids[i] : i \in 1..Len(Top(mem[p]).pids)}
           /\ ForegroundOf(p) = Pending(mem[p])
  <1>1. Inv
    BY DEF AwaitInv
  <1>2. /\ pstate[p] = "shell" /\ mem[p] \in Busy /\ Top(mem[p]).role = "self"
        /\ NodeOf(mem[p]).type = t /\ mem[p].stack # <<>> /\ mem[p].ret = SUCCESS
    BY <1>1, Interpreting DEF Interprets
  <1>3. Tidy(mem[p])
    BY <1>2 DEF AwaitInv
  <1>4. Top(mem[p]).pids \in Seq(Pid) /\ Len(Top(mem[p]).pids) \in Nat /\ Top(mem[p]) \in Frame
    BY <1>2, BusyFields, LenProperties
  <1>5. Pending(mem[p]) = {Top(mem[p]).pids[i] : i \in 1..Len(Top(mem[p]).pids)}
    BY <1>2 DEF Pending
  <1>6. ForegroundOf(p) = Pending(mem[p])
    BY <1>2, AwaitInvIs
  <1> QED BY <1>2, <1>3, <1>4, <1>5, <1>6 DEF Busy

LEMMA ErrCheckAwaits ==
    ASSUME AwaitInv, Inv', NEW p \in Pid, errCheck(p)
    PROVE  AwaitInv'
  <1>1. /\ pstate[p] = "shell" /\ mem[p] \in Busy /\ Top(mem[p]).role = "self" /\ mem[p].ret # SUCCESS
        /\ mem[p].ret \in StatusEnum
    BY InvGood DEF errCheck, Busy, Good, AwaitInv, Memory
  <1>2. Tidy(mem[p]) /\ Resting(mem[p])
    BY <1>1 DEF AwaitInv, Tidy, Waiting
  <1>3. Idle(Return(mem[p], mem[p].ret))
    BY <1>1, <1>2, MoveIdle
  <1> QED BY <1>1, <1>2, <1>3, LocalAwaits DEF errCheck

LEMMA ListAwaits ==
    ASSUME AwaitInv, Inv', NEW p \in Pid, executeListNode(p)
    PROVE  AwaitInv'
  <1> DEFINE m == mem[p]
             f == Top(m)
             kids == NodeOf(m).kids
             stop == f.pc > Len(kids) \/ (f.pc > 1 /\ "EXIT" \in m.flags)
             bg == "BACKGROUND" \in Ast[kids[f.pc]].flags
             fl == IF bg THEN m.flags \cup {"BG"} ELSE m.flags \ {"BG"}
             k == [m EXCEPT !.flags = fl]
             next == [f EXCEPT !.pc = f.pc + 1]
  <1>1. /\ pstate[p] = "shell" /\ m \in Busy /\ Tidy(m)
        /\ f.role = "self" /\ f.pids = <<>> /\ Resting(m)
    BY Unwaiting DEF executeListNode
  <1>2. Local(p, IF stop THEN Return(m, SUCCESS) ELSE Call(k, next, kids[f.pc]))
    BY DEF executeListNode
  <1>3. Idle(Return(m, SUCCESS))
    BY <1>1, MoveIdle DEF StatusEnum
  <1>4. Idle(Call(k, next, kids[f.pc]))
    <2>1. fl \in SUBSET ExecFlag
      BY <1>1 DEF Busy, Memory, ExecFlag
    <2> HIDE DEF fl
    <2>2. k \in Busy /\ k.stack = m.stack /\ k.base = m.base
      BY <1>1, <2>1, FieldStack
    <2>3. next.pids = <<>>
      BY <1>1, TopType DEF Frame
    <2> HIDE DEF k, next
    <2> QED BY <1>1, <2>2, <2>3, StepIdle
  <1> HIDE DEF k, stop, next
  <1> QED BY <1>1, <1>2, <1>3, <1>4, LocalAwaits

LEMMA FunctionDefinitionAwaits ==
    ASSUME AwaitInv, Inv', NEW p \in Pid, executeFunctionDefinition(p)
    PROVE  AwaitInv'
  <1> DEFINE m == mem[p]
             def == NodeOf(m)
             k == [m EXCEPT !.funs[def.word] = def.kids[1]]
  <1>1. /\ pstate[p] = "shell" /\ m \in Busy /\ Tidy(m) /\ Top(m).role = "self" /\ Resting(m)
    BY Unwaiting DEF executeFunctionDefinition
  <1>2. def.type = "FUNCTION_DEF"
    BY AtCall DEF executeFunctionDefinition
  <1>3. /\ Len(def.kids) \in Nat /\ \A i \in 1..Len(def.kids) : def.kids[i] \in Node
        /\ def.word \in Word
    BY <1>1, BusyFields
  <1>4. Len(def.kids) >= 1
    BY <1>1, <1>2, TopType, AstAssumption DEF AstAssumption, NodeOf
  <1>5. def.kids[1] \in Node
    BY <1>3, <1>4
  <1>6. k \in Busy /\ k.stack = m.stack /\ k.base = m.base
    BY <1>1, <1>3, <1>5, FieldStack
  <1>7. Local(p, Return(k, SUCCESS)) \/ Local(p, Return(m, ERROR_FILE_NOT_FOUND))
    BY DEF executeFunctionDefinition
  <1>8. SUCCESS \in StatusEnum /\ ERROR_FILE_NOT_FOUND \in StatusEnum
    BY DEF StatusEnum
  <1> HIDE DEF k
  <1>9. Idle(Return(k, SUCCESS)) /\ Idle(Return(m, ERROR_FILE_NOT_FOUND))
    BY <1>1, <1>6, <1>8, ReturnIdle
  <1> QED BY <1>1, <1>7, <1>9, LocalAwaits

\* The child's copy of the memory at a fork.
LEMMA ForkedIdle ==
    ASSUME NEW m \in Busy
    PROVE  /\ Idle(Forked(m)) /\ Forked(m) \in Memory
           /\ \A n \in Node : LET k == Call(Forked(m), Top(Forked(m)), n)
                              IN  Idle(k) /\ k \in Memory
  <1> DEFINE c == Forked(m)
  <1>1. /\ c \in Busy /\ c.base = Len(m.stack) /\ Len(c.stack) = Len(m.stack)
        /\ Top(c).role = "child" /\ Len(m.stack) \in Nat
    BY ForkedType, TopType
  <1>2. c \in Memory /\ Anchored(c)
    BY ForkedGood
  <1>3. ASSUME NEW n \in Node
        PROVE  Call(c, Top(c), n) \in Memory /\ Anchored(Call(c, Top(c), n))
    BY ForkedGood
  <1> HIDE DEF c
  <1>4. Idle(c)
    <2>1. Quiet(c)
      BY <1>1 DEF Quiet
    <2> QED BY <1>1, <1>2, <2>1 DEF Idle, Rooted, Resting
  <1>5. ASSUME NEW n \in Node PROVE Idle(Call(c, Top(c), n))
    <2> DEFINE k == Call(c, Top(c), n)
    <2>1. k.base = Len(m.stack) /\ Len(k.stack) = Len(m.stack) + 1 /\ Top(k) = FrameOf(n)
      BY <1>1, CallStack
    <2>2. Anchored(k)
      BY <1>3
    <2> HIDE DEF k
    <2>3. Quiet(k)
      BY <1>1, <2>1 DEF Quiet
    <2>4. Resting(k)
      BY <2>1 DEF Resting, FrameOf
    <2> QED BY <2>2, <2>3, <2>4 DEF Idle, Rooted, k
  <1> QED BY <1>2, <1>3, <1>4, <1>5 DEF c

\* Only the topmost call changes, and not its node: it is the same command.
LEMMA SetTopKeeps ==
    ASSUME NEW m \in Busy, Tidy(m), Top(m).role = "self",
           NEW f \in Frame, f.role = "self", f.node = Top(m).node
    PROVE  LET k == SetTop(m, f)
           IN  /\ k \in Memory /\ k.stack # <<>> /\ Rooted(k) /\ Quiet(k) /\ Top(k) = f
               /\ NodeOf(k) = NodeOf(m) /\ CommandKind(k) = CommandKind(m)
               /\ k.ret = m.ret /\ k.flags = m.flags
               /\ Pending(k) = {f.pids[i] : i \in 1..Len(f.pids)}
  <1> DEFINE N == Len(m.stack)
             k == SetTop(m, f)
  <1>1. N \in Nat \ {0} /\ m.base \in Nat /\ m \in Memory
    BY TopType DEF Busy, Memory
  <1>2. Rooted(m) /\ (m.base # 0 => m.base \in 1..(N - 1) /\ m.stack[m.base].role = "child")
    BY <1>1 DEF Tidy, Rooted, Anchored, Top
  <1>3. \A i \in (m.base + 1)..(N - 1) : m.stack[i].pids = <<>>
    BY DEF Tidy, Quiet
  <1>4. /\ k \in Busy /\ k.base = m.base /\ Len(k.stack) = N /\ k.ret = m.ret /\ k.flags = m.flags
        /\ \A i \in 1..N : k.stack[i] = IF i = N THEN f ELSE m.stack[i]
    BY SetTopType
  <1>5. k.funs = m.funs
    BY <1>1 DEF SetTop, Memory
  <1> HIDE DEF k
  <1>6. Top(k) = f
    BY <1>1, <1>4 DEF Top
  <1>7. NodeOf(k) = NodeOf(m)
    BY <1>6 DEF NodeOf
  <1>8. CommandKind(k) = CommandKind(m)
    BY <1>5, <1>7 DEF CommandKind, Body
  <1>9. Rooted(k)
    BY <1>1, <1>2, <1>4 DEF Rooted, Anchored
  <1>10. Quiet(k)
    BY <1>1, <1>3, <1>4 DEF Quiet
  <1>11. Pending(k) = {f.pids[i] : i \in 1..Len(f.pids)}
    BY <1>4, <1>6 DEF Pending, Busy
  <1> QED BY <1>4, <1>6, <1>7, <1>8, <1>9, <1>10, <1>11 DEF Busy, k


LEMMA PipelineOfOneAwaits ==
    ASSUME AwaitInv, Inv', NEW p \in Pid, PipelineOfOne(p)
    PROVE  AwaitInv'
  <1> DEFINE m == mem[p]
             f == Top(m)
             v == IF "BANG" \in NodeOf(m).flags THEN negated(m.status) ELSE m.status
  <1>1. /\ pstate[p] = "shell" /\ m \in Busy /\ Tidy(m) /\ f.role = "self"
        /\ NodeOf(m).type = "PIPELINE" /\ Len(NodeOf(m).kids) = 1
    BY AtCall DEF PipelineOfOne
  <1>2. Resting(m) /\ f.pids = <<>>
    BY <1>1 DEF Tidy, Waiting, Resting, Busy
  <1>3. v \in Status /\ SUCCESS \in StatusEnum
    BY <1>1, StatusValues DEF Busy, Memory, StatusEnum
  <1>4. \/ Local(p, Call(m, [f EXCEPT !.pc = 2], NodeOf(m).kids[1]))
        \/ Local(p, Return([m EXCEPT !.status = v], SUCCESS))
    BY DEF PipelineOfOne
  <1> HIDE DEF v
  <1>5. Idle(Call(m, [f EXCEPT !.pc = 2], NodeOf(m).kids[1]))
    BY <1>1, <1>2, MoveIdle
  <1>6. Idle(Return([m EXCEPT !.status = v], SUCCESS))
    BY <1>1, <1>3, MoveIdle
  <1> QED BY <1>1, <1>2, <1>4, <1>5, <1>6, LocalAwaits

LEMMA AppendPids ==
    ASSUME NEW s \in Seq(Pid), NEW c \in Pid, c \notin {s[i] : i \in 1..Len(s)},
           \A i, j \in 1..Len(s) : s[i] = s[j] => i = j
    PROVE  LET t == Append(s, c)
           IN  /\ t \in Seq(Pid)
               /\ {t[i] : i \in 1..Len(t)} = {s[i] : i \in 1..Len(s)} \cup {c}
               /\ \A i, j \in 1..Len(t) : t[i] = t[j] => i = j
  <1> DEFINE t == Append(s, c)
  <1>1. /\ t \in Seq(Pid) /\ Len(s) \in Nat /\ Len(t) = Len(s) + 1
        /\ \A i \in 1..Len(s) : t[i] = s[i]
        /\ t[Len(s) + 1] = c
    BY AppendProperties
  <1> HIDE DEF t
  <1>2. {t[i] : i \in 1..Len(t)} = {s[i] : i \in 1..Len(s)} \cup {c}
    BY <1>1
  <1>3. \A i, j \in 1..Len(t) : t[i] = t[j] => i = j
    <2> SUFFICES ASSUME NEW i \in 1..Len(t), NEW j \in 1..Len(t), t[i] = t[j] PROVE i = j
      OBVIOUS
    <2>1. CASE i \in 1..Len(s) /\ j \in 1..Len(s)
      BY <1>1, <2>1
    <2>2. CASE i = Len(s) + 1 /\ j = Len(s) + 1
      BY <2>2
    <2>3. CASE i \in 1..Len(s) /\ j = Len(s) + 1
      BY <1>1, <2>3
    <2>4. CASE j \in 1..Len(s) /\ i = Len(s) + 1
      BY <1>1, <2>4
    <2> QED BY <1>1, <2>1, <2>2, <2>3, <2>4
  <1> QED BY <1>1, <1>2, <1>3 DEF t

LEMMA TailPids ==
    ASSUME NEW s \in Seq(Pid), s # <<>>, \A i, j \in 1..Len(s) : s[i] = s[j] => i = j
    PROVE  LET t == Tail(s)
           IN  /\ t \in Seq(Pid)
               /\ Len(t) = Len(s) - 1
               /\ {t[i] : i \in 1..Len(t)} = {s[i] : i \in 1..Len(s)} \ {s[1]}
               /\ \A i, j \in 1..Len(t) : t[i] = t[j] => i = j
  <1> DEFINE t == Tail(s)
  <1>1. /\ t \in Seq(Pid) /\ Len(s) \in Nat \ {0} /\ Len(t) = Len(s) - 1
        /\ \A i \in 1..Len(t) : t[i] = s[i + 1]
    BY HeadTailProperties, EmptySeq
  <1> HIDE DEF t
  <1>2. {t[i] : i \in 1..Len(t)} = {s[i] : i \in 1..Len(s)} \ {s[1]}
    <2>1. ASSUME NEW i \in 1..Len(t) PROVE t[i] \in {s[j] : j \in 1..Len(s)} \ {s[1]}
      <3>1. i + 1 \in 1..Len(s) /\ 1 \in 1..Len(s) /\ i + 1 # 1
        BY <1>1
      <3> QED BY <1>1, <3>1
    <2>2. ASSUME NEW j \in 1..Len(s), s[j] # s[1] PROVE s[j] \in {t[i] : i \in 1..Len(t)}
      <3>1. j - 1 \in 1..Len(t) /\ (j - 1) + 1 = j
        BY <1>1, <2>2
      <3> QED BY <1>1, <3>1
    <2> QED BY <2>1, <2>2
  <1>3. \A i, j \in 1..Len(t) : t[i] = t[j] => i = j
    <2> SUFFICES ASSUME NEW i \in 1..Len(t), NEW j \in 1..Len(t), t[i] = t[j] PROVE i = j
      OBVIOUS
    <2>1. i + 1 \in 1..Len(s) /\ j + 1 \in 1..Len(s)
      BY <1>1
    <2> QED BY <1>1, <2>1
  <1> QED BY <1>1, <1>2, <1>3 DEF t

\* A fork takes a slot that is nobody's child.
LEMMA FreeIsNew ==
    ASSUME AwaitInv, NEW p \in Pid, NEW t, Interprets(p, t), NEW c \in Pid, pstate[c] = "free"
    PROVE  c \notin Pending(mem[p])
  BY AtCall DEF ForegroundOf, ChildrenOf

LEMMA PipelineForkAwaits ==
    ASSUME AwaitInv, Inv', NEW p \in Pid, PipelineFork(p)
    PROVE  AwaitInv'
  <1> DEFINE m == mem[p]
             f == Top(m)
             kids == NodeOf(m).kids
             mc == [m EXCEPT !.flags = @ \cup {"CHILD_PROCESS"}]
             child == Forked(mc)
             cm == Call(child, Top(child), kids[f.pc])
             g(c) == [f EXCEPT !.pc = f.pc + 1, !.pids = Append(f.pids, c)]
  <1>1. /\ pstate[p] = "shell" /\ m \in Busy /\ Tidy(m) /\ f.role = "self" /\ m.ret = SUCCESS
        /\ NodeOf(m).type = "PIPELINE" /\ Len(kids) > 1
        /\ f \in Frame /\ f.pids \in Seq(Pid) /\ Len(f.pids) \in Nat
        /\ Pending(m) = {f.pids[i] : i \in 1..Len(f.pids)}
        /\ Interprets(p, "PIPELINE")
    BY AtCall DEF PipelineFork, ManyStages
  <1>2. PICK c \in Pid : Fork(p, c, SetTop(m, g(c)), cm, "fg")
    BY DEF PipelineFork
  <1>3. pstate[c] = "free" /\ c \notin Pending(m)
    BY <1>1, <1>2, FreeIsNew DEF Fork
  <1>4. Idle(cm) /\ cm \in Memory
    <2>1. kids[f.pc] \in Node
      BY <1>1, BusyFields DEF PipelineFork
    <2>2. mc \in Busy
      <3>1. m.flags \cup {"CHILD_PROCESS"} \in SUBSET ExecFlag
        BY <1>1 DEF Busy, Memory, ExecFlag
      <3> QED BY <1>1, <3>1, FieldStack
    <2> HIDE DEF mc
    <2> QED BY <2>1, <2>2, ForkedIdle
  <1>5. \A i, j \in 1..Len(f.pids) : f.pids[i] = f.pids[j] => i = j
    <2>1. CASE Resting(m)
      <3>1. f.pids = <<>>
        BY <1>1, <2>1 DEF Resting, Busy
      <3>2. Len(f.pids) = 0
        BY <3>1
      <3> QED BY <3>2
    <2>2. CASE Waiting(m)
      BY <2>2 DEF Waiting
    <2> QED BY <1>1, <2>1, <2>2 DEF Tidy
  <1> DEFINE s == Append(f.pids, c)
  <1>6. /\ s \in Seq(Pid)
        /\ {s[i] : i \in 1..Len(s)} = Pending(m) \cup {c}
        /\ \A i, j \in 1..Len(s) : s[i] = s[j] => i = j
    BY <1>1, <1>3, <1>5, AppendPids
  <1>7. g(c) \in Frame /\ g(c).role = "self" /\ g(c).node = f.node /\ g(c).pids = s
    <2>1. f.pc + 1 \in Nat \ {0}
      BY <1>1, BusyFields
    <2>2. g(c) = [f EXCEPT !.pc = f.pc + 1, !.pids = s]
      OBVIOUS
    <2> HIDE DEF s, g
    <2> QED BY <1>1, <1>6, <2>1, <2>2 DEF Frame
  <1> DEFINE k == SetTop(m, g(c))
  <1>8. /\ k \in Memory /\ k.stack # <<>> /\ Rooted(k) /\ Quiet(k) /\ Top(k) = g(c)
        /\ NodeOf(k) = NodeOf(m) /\ k.ret = m.ret
        /\ Pending(k) = {g(c).pids[i] : i \in 1..Len(g(c).pids)}
    BY <1>1, <1>7, SetTopKeeps
  <1>9. Fork(p, c, k, cm, "fg")
    BY <1>2
  <1> HIDE DEF k, cm, g, s
  <1>10. Pending(k) = Pending(m) \cup {c}
    BY <1>6, <1>7, <1>8
  <1>11. Tidy(k)
    <2>1. Waiting(k)
      BY <1>1, <1>6, <1>7, <1>8 DEF Waiting
    <2> QED BY <1>8, <2>1 DEF Tidy
  <1> QED BY <1>1, <1>4, <1>9, <1>10, <1>11, ForkAwaits


\* The stages that run are not waited for: nobody is left in the foreground.
LEMMA PipelineForkFailsAwaits ==
    ASSUME AwaitInv, Inv', NEW p \in Pid, PipelineForkFails(p)
    PROVE  AwaitInv'
  <1> DEFINE m == mem[p]
             k == Return(m, ERROR_DEFAULT)
  <1>1. /\ pstate[p] = "shell" /\ m \in Busy /\ Tidy(m) /\ Top(m).role = "self"
        /\ ForegroundOf(p) = {Top(m).pids[i] : i \in 1..Len(Top(m).pids)}
    BY AtCall DEF PipelineForkFails, ManyStages
  <1>2. /\ mem \in [Pid -> Memory] /\ job \in [Pid -> {"fg", "bg", "lost"}]
        /\ ERROR_DEFAULT \in StatusEnum
    BY DEF AwaitInv, Inv, TypeOK, StatusEnum
  <1>3. /\ \A q \in Pid : mem'[q] = IF q = p THEN k ELSE mem[q]
        /\ \A q \in Pid : job'[q] = IF q \in ForegroundOf(p) THEN "lost" ELSE job[q]
        /\ pstate' = pstate /\ parent' = parent
    BY <1>1, <1>2 DEF PipelineForkFails
  <1>4. Idle(k) /\ k \in Memory
    BY <1>1, <1>2, ReturnType, MoveIdle
  <1>5. Tidy(k) /\ Pending(k) = {}
    BY <1>4, IdleIsTidy
  <1>6. ForegroundOf(p)' = {}
    BY <1>3 DEF ForegroundOf, ChildrenOf
  <1>7. ASSUME NEW q \in Pid, q # p PROVE ForegroundOf(q)' = ForegroundOf(q)
    <2>1. \A c \in Pid : parent[c] = q => c \notin ForegroundOf(p)
      BY <1>7 DEF ForegroundOf, ChildrenOf
    <2> QED BY <1>3, <2>1 DEF ForegroundOf, ChildrenOf
  <1> HIDE DEF k
  <1>8. ASSUME NEW q \in Pid
        PROVE  /\ ForegroundOf(q)' = IF pstate'[q] = "shell" THEN Pending(mem'[q]) ELSE {}
               /\ pstate'[q] = "shell" => Tidy(mem'[q])
    <2>1. CASE q = p
      BY <1>1, <1>3, <1>5, <1>6, <2>1
    <2>2. CASE q # p
      BY <1>3, <1>7, <2>2, AwaitInvIs
    <2> QED BY <2>1, <2>2
  <1> QED BY <1>8, AwaitInvIsNext

\* A process that calls waitpid.
LEMMA AtWait ==
    ASSUME AwaitInv, NEW p \in Pid, NEW t, Interprets(p, t), Top(mem[p]).pids # <<>>
    PROVE  /\ Waiting(mem[p])
           /\ Top(mem[p]).pids[1] \in Pid
           /\ code[Top(mem[p]).pids[1]] \in WaitStatus
           /\ Len(Top(mem[p]).pids) \in Nat \ {0}
           /\ Len(Top(mem[p]).pids) = 1 => Pending(mem[p]) = {Top(mem[p]).pids[1]}
  <1> DEFINE s == Top(mem[p]).pids
  <1>1. /\ s \in Seq(Pid) /\ Tidy(mem[p]) /\ Top(mem[p]).role = "self"
        /\ Pending(mem[p]) = {s[i] : i \in 1..Len(s)} /\ mem[p] \in Busy
    BY AtCall
  <1>2. Waiting(mem[p])
    BY <1>1 DEF Tidy, Resting, Busy
  <1> HIDE DEF s
  <1>3. Len(s) \in Nat \ {0}
    BY <1>1, EmptySeq DEF s
  <1>4. s[1] \in Pid
    BY <1>1, <1>3, ElementOfSeq
  <1>5. code[s[1]] \in WaitStatus
    BY <1>4 DEF AwaitInv, Inv, TypeOK
  <1>6. Len(s) = 1 => {s[i] : i \in 1..Len(s)} = {s[1]}
    OBVIOUS
  <1> QED BY <1>1, <1>2, <1>3, <1>4, <1>5, <1>6 DEF s

\* The only or the last child is reaped and the call returns.
LEMMA ReapLastAwaits ==
    ASSUME AwaitInv, Inv', NEW p \in Pid, NEW t, Interprets(p, t), Len(Top(mem[p]).pids) = 1,
           NEW v \in Status, Reap(p, Top(mem[p]).pids[1], Return([mem[p] EXCEPT !.status = v], SUCCESS))
    PROVE  AwaitInv'
  <1> DEFINE m == mem[p]
             c == Top(m).pids[1]
             k == Return([m EXCEPT !.status = v], SUCCESS)
  <1>1. Top(m).pids # <<>>
    <2>1. Len(<<>>) = 0
      OBVIOUS
    <2> QED BY <2>1
  <1>2. pstate[p] = "shell" /\ m \in Busy /\ Tidy(m) /\ Top(m).role = "self"
    BY AtCall
  <1>3. c \in Pid /\ Pending(m) = {c}
    BY <1>1, AtWait
  <1>4. SUCCESS \in StatusEnum
    BY DEF StatusEnum
  <1>5. Idle(k) /\ k \in Memory
    <2> DEFINE m2 == [m EXCEPT !.status = v]
    <2>1. m2 \in Busy
      BY <1>2, FieldStack
    <2> HIDE DEF m2
    <2>2. Return(m2, SUCCESS) \in Memory
      BY <1>4, <2>1, ReturnType
    <2>3. Idle(k)
      BY <1>2, <1>4, MoveIdle
    <2> QED BY <2>2, <2>3 DEF m2
  <1>6. Reap(p, c, k)
    OBVIOUS
  <1> HIDE DEF k
  <1>7. Tidy(k) /\ Pending(k) = Pending(m) \ {c}
    BY <1>3, <1>5, IdleIsTidy
  <1> QED BY <1>2, <1>3, <1>6, <1>7, ReapAwaits

LEMMA PipelineWaitAwaits ==
    ASSUME AwaitInv, Inv', NEW p \in Pid, PipelineWait(p)
    PROVE  AwaitInv'
  <1> DEFINE m == mem[p]
             f == Top(m)
             n == NodeOf(m)
             c == f.pids[1]
             st == childStatus(code[c])
             v == IF "BANG" \in n.flags THEN negated(st) ELSE st
             g == [f EXCEPT !.pids = Tail(f.pids)]
             rest == SetTop(m, g)
             done == Return([m EXCEPT !.status = v], SUCCESS)
  <1>1. /\ Interprets(p, "PIPELINE") /\ f.pids # <<>> /\ Len(n.kids) > 1
        /\ Reap(p, c, IF Len(f.pids) > 1 THEN rest ELSE done)
    BY DEF PipelineWait, ManyStages
  <1>2. /\ pstate[p] = "shell" /\ m \in Busy /\ Tidy(m) /\ f.role = "self" /\ f \in Frame
        /\ f.pids \in Seq(Pid) /\ Pending(m) = {f.pids[i] : i \in 1..Len(f.pids)}
        /\ n.type = "PIPELINE" /\ m.ret = SUCCESS
    BY <1>1, AtCall
  <1>3. /\ Waiting(m) /\ c \in Pid /\ code[c] \in WaitStatus /\ Len(f.pids) \in Nat \ {0}
    BY <1>1, AtWait
  <1>4. v \in Status
    BY <1>3, StatusValues
  <1> HIDE DEF v
  <1>5. CASE Len(f.pids) = 1
    BY <1>1, <1>4, <1>5, ReapLastAwaits
  <1>6. CASE Len(f.pids) > 1
    <2> DEFINE s == f.pids
               r == Tail(s)
    <2>1. \A i, j \in 1..Len(s) : s[i] = s[j] => i = j
      BY <1>3 DEF Waiting
    <2>2. /\ r \in Seq(Pid)
          /\ {r[i] : i \in 1..Len(r)} = {s[i] : i \in 1..Len(s)} \ {s[1]}
          /\ \A i, j \in 1..Len(r) : r[i] = r[j] => i = j
      BY <1>1, <1>2, <2>1, TailPids
    <2>3. g = [f EXCEPT !.pids = r]
      OBVIOUS
    <2> HIDE DEF r, g
    <2>4. g \in Frame /\ g.role = "self" /\ g.node = f.node /\ g.pids = r
      BY <1>2, <2>2, <2>3 DEF Frame
    <2>5. /\ rest \in Memory /\ rest.stack # <<>> /\ Rooted(rest) /\ Quiet(rest) /\ Top(rest) = g
          /\ NodeOf(rest) = n /\ rest.ret = m.ret
          /\ Pending(rest) = {g.pids[i] : i \in 1..Len(g.pids)}
      BY <1>2, <2>4, SetTopKeeps
    <2>6. Reap(p, c, rest)
      BY <1>1, <1>6
    <2> HIDE DEF rest
    <2>7. Pending(rest) = Pending(m) \ {c}
      <3>1. Pending(rest) = {r[i] : i \in 1..Len(r)}
        BY <2>4, <2>5
      <3>2. {s[i] : i \in 1..Len(s)} = Pending(m) /\ s[1] = c
        BY <1>2
      <3> HIDE DEF s, c
      <3> QED BY <2>2, <3>1, <3>2
    <2>8. Waiting(rest)
      BY <1>1, <1>2, <2>2, <2>4, <2>5 DEF Waiting
    <2>9. Tidy(rest)
      BY <2>5, <2>8 DEF Tidy
    <2>10. c \in Pid /\ pstate[p] = "shell"
      BY <1>2, <1>3
    <2> HIDE DEF c
    <2> QED BY <2>6, <2>7, <2>9, <2>10, ReapAwaits
  <1>7. Len(f.pids) = 1 \/ Len(f.pids) > 1
    <2> DEFINE L == Len(f.pids)
    <2>1. L \in Nat \ {0}
      BY <1>3
    <2> HIDE DEF L
    <2>2. L = 1 \/ L > 1
      BY <2>1
    <2> QED BY <2>2 DEF L
  <1> QED BY <1>5, <1>6, <1>7

\* A child is forked for the topmost call, which waited for nobody, and is waited for.
LEMMA ForkOneAwaits ==
    ASSUME AwaitInv, Inv', NEW p \in Pid, NEW t, Interprets(p, t), Top(mem[p]).pids = <<>>,
           \/ t = "SUBSHELL"
           \/ /\ t = "SIMPLE_COMMAND" /\ CommandKind(mem[p]) = "external"
              /\ "CHILD_PROCESS" \notin mem[p].flags,
           NEW c \in Pid, NEW cm \in Memory, Idle(cm),
           Fork(p, c, SetTop(mem[p], [Top(mem[p]) EXCEPT !.pids = <<c>>]), cm, "fg")
    PROVE  AwaitInv'
  <1> DEFINE m == mem[p]
             g == [Top(m) EXCEPT !.pids = <<c>>]
             k == SetTop(m, g)
  <1>1. /\ pstate[p] = "shell" /\ m \in Busy /\ Tidy(m) /\ Top(m).role = "self" /\ m.ret = SUCCESS
        /\ NodeOf(m).type = t /\ Top(m) \in Frame
        /\ Pending(m) = {Top(m).pids[i] : i \in 1..Len(Top(m).pids)}
    BY AtCall
  <1>2. Pending(m) = {}
    <2>1. Len(Top(m).pids) = 0
      OBVIOUS
    <2> QED BY <1>1, <2>1
  <1>3. <<c>> \in Seq(Pid)
    OBVIOUS
  <1>4. g \in Frame /\ g.role = "self" /\ g.node = Top(m).node /\ g.pids = <<c>>
    BY <1>1, <1>3 DEF Frame
  <1> HIDE DEF g
  <1>5. /\ k \in Memory /\ k.stack # <<>> /\ Rooted(k) /\ Quiet(k) /\ Top(k) = g
        /\ NodeOf(k) = NodeOf(m) /\ CommandKind(k) = CommandKind(m)
        /\ k.ret = m.ret /\ k.flags = m.flags
        /\ Pending(k) = {g.pids[i] : i \in 1..Len(g.pids)}
    BY <1>1, <1>4, SetTopKeeps
  <1>6. Fork(p, c, k, cm, "fg")
    BY DEF g
  <1> HIDE DEF k
  <1>7. Len(g.pids) = 1 /\ g.pids[1] = c
    BY <1>4
  <1>8. Pending(k) = Pending(m) \cup {c}
    BY <1>2, <1>5, <1>7
  <1>9. Waiting(k)
    BY <1>1, <1>5, <1>7 DEF Waiting
  <1>10. Tidy(k)
    BY <1>5, <1>9 DEF Tidy
  <1> QED BY <1>1, <1>6, <1>8, <1>10, ForkAwaits


LEMMA SubshellAwaits ==
    ASSUME AwaitInv, Inv', NEW p \in Pid, executeSubshellNode(p)
    PROVE  AwaitInv'
  <1> DEFINE m == mem[p]
             f == Top(m)
             kids == NodeOf(m).kids
             child == Forked(m)
             cm == Call(child, Top(child), kids[1])
  <1>1. Interprets(p, "SUBSHELL")
    BY DEF executeSubshellNode, SubshellFork, SubshellForkFails, SubshellWait
  <1>2. /\ pstate[p] = "shell" /\ m \in Busy /\ Tidy(m) /\ f.role = "self"
        /\ NodeOf(m).type = "SUBSHELL"
    BY <1>1, AtCall
  <1>3. CASE SubshellFork(p)
    <2>1. PICK c \in Pid : Fork(p, c, SetTop(m, [f EXCEPT !.pids = <<c>>]), cm, "fg") /\ f.pids = <<>>
      BY <1>3 DEF SubshellFork
    <2>2. kids[1] \in Node
      <3>1. \A i \in 1..Len(kids) : kids[i] \in Node
        BY <1>2, BusyFields
      <3> QED BY <1>2, <3>1, TopType, AstAssumption DEF AstAssumption, NodeOf
    <2>3. cm \in Memory /\ Idle(cm)
      BY <1>2, <2>2, ForkedIdle
    <2> HIDE DEF cm
    <2> QED BY <1>1, <2>1, <2>3, ForkOneAwaits
  <1>4. CASE SubshellForkFails(p)
    <2>1. Local(p, Return(m, ERROR_DEFAULT)) /\ f.pids = <<>> /\ ERROR_DEFAULT \in StatusEnum
      BY <1>4 DEF SubshellForkFails, StatusEnum
    <2>2. Resting(m) /\ Idle(Return(m, ERROR_DEFAULT))
      BY <1>2, <2>1, MoveIdle DEF Resting
    <2> QED BY <1>2, <2>1, <2>2, LocalAwaits
  <1>5. CASE SubshellWait(p)
    <2> DEFINE v == childStatus(code[f.pids[1]])
    <2>1. f.pids # <<>> /\ Reap(p, f.pids[1], Return([m EXCEPT !.status = v], SUCCESS))
      BY <1>5 DEF SubshellWait
    <2>2. Waiting(m) /\ code[f.pids[1]] \in WaitStatus
      BY <1>1, <2>1, AtWait
    <2>3. Len(f.pids) = 1
      BY <1>2, <2>2 DEF Waiting
    <2>4. v \in Status
      BY <2>2, StatusValues
    <2> HIDE DEF v
    <2> QED BY <1>1, <2>1, <2>3, <2>4, ReapLastAwaits
  <1> QED BY <1>3, <1>4, <1>5 DEF executeSubshellNode

\* A command that does not start a program returns at once or calls its function's body.
LEMMA CommandAwaits ==
    ASSUME AwaitInv, Inv', NEW p \in Pid,
           AssignmentCommand(p) \/ FunctionCall(p) \/ executeBuiltinCommand(p)
    PROVE  AwaitInv'
  <1> DEFINE m == mem[p]
             f == Top(m)
  <1>1. Interprets(p, "SIMPLE_COMMAND") /\ CommandKind(m) # "external"
    BY DEF AssignmentCommand, FunctionCall, executeBuiltinCommand
  <1>2. /\ pstate[p] = "shell" /\ m \in Busy /\ Tidy(m) /\ f.role = "self"
        /\ NodeOf(m).type = "SIMPLE_COMMAND"
    BY <1>1, AtCall
  <1>3. Resting(m) /\ f.pids = <<>>
    BY <1>1, <1>2 DEF Tidy, Waiting, Resting, Busy
  <1>4. /\ Idle(Return(m, SUCCESS)) /\ Idle(Return(m, ERROR_FILE_NOT_FOUND))
        /\ \A n : Idle(Call(m, [f EXCEPT !.pc = 2], n))
    BY <1>2, <1>3, MoveIdle DEF StatusEnum
  <1>5. CASE AssignmentCommand(p)
    BY <1>2, <1>3, <1>4, <1>5, LocalAwaits DEF AssignmentCommand
  <1>6. CASE FunctionCall(p)
    <2>1. Local(p, Call(m, [f EXCEPT !.pc = 2], Body(m))) \/ Local(p, Return(m, SUCCESS))
      BY <1>6 DEF FunctionCall
    <2> QED BY <1>2, <1>3, <1>4, <2>1, LocalAwaits
  <1>7. CASE executeBuiltinCommand(p)
    <2>1. \/ \E st \in BuiltinResult(m) :
                LET mm == AfterBuiltin(m, st)
                IN  Exit(p, mm.status) \/ Local(p, Return(mm, SUCCESS))
          \/ Exit(p, m.status) \/ Local(p, Return(m, SUCCESS))
      BY <1>7 DEF executeBuiltinCommand
    <2>2. ASSUME NEW st \in BuiltinResult(m), Local(p, Return(AfterBuiltin(m, st), SUCCESS))
          PROVE  AwaitInv'
      <3> DEFINE fl == IF NodeOf(m).word = "exit" /\ "MANY_ARGS" \notin NodeOf(m).flags
                       THEN m.flags \cup {"EXIT"} ELSE m.flags
                 k == AfterBuiltin(m, st)
      <3>1. st \in Status
        <4>1. NodeOf(m).word \in SpecialBuiltin \cup RegularBuiltin
          BY <1>7 DEF executeBuiltinCommand, CommandKind
        <4>2. NodeOf(m).outcome \subseteq Status
          BY <1>2, <4>1, TopType, AstAssumption DEF AstAssumption, NodeOf
        <4> QED BY <1>2, <2>2, <4>2 DEF BuiltinResult, Busy, Memory
      <3>2. fl \in SUBSET ExecFlag /\ SUCCESS \in StatusEnum
        BY <1>2 DEF Busy, Memory, ExecFlag, StatusEnum
      <3>3. k = [m EXCEPT !.status = st, !.flags = fl]
        BY DEF AfterBuiltin
      <3> HIDE DEF fl, k
      <3>4. k \in Busy /\ k.stack = m.stack /\ k.base = m.base
        BY <1>2, <3>1, <3>2, <3>3, FieldStack
      <3>5. Idle(Return(k, SUCCESS))
        BY <1>2, <3>2, <3>4, ReturnIdle
      <3>6. Local(p, Return(k, SUCCESS))
        BY <2>2 DEF k
      <3> QED BY <1>2, <1>3, <3>5, <3>6, LocalAwaits
    <2>3. pstate[p] # "free"
      BY <1>2
    <2> QED BY <1>2, <1>3, <1>4, <2>1, <2>2, <2>3, ExitAwaits, LocalAwaits
  <1> QED BY <1>5, <1>6, <1>7

LEMMA ExternalForkAwaits ==
    ASSUME AwaitInv, Inv', NEW p \in Pid, ExternalFork(p)
    PROVE  AwaitInv'
  <1> DEFINE m == mem[p]
             f == Top(m)
  <1>1. /\ Interprets(p, "SIMPLE_COMMAND") /\ CommandKind(m) = "external"
        /\ "CHILD_PROCESS" \notin m.flags /\ f.pids = <<>>
    BY DEF ExternalFork, RunsInShell
  <1>2. pstate[p] = "shell" /\ m \in Busy /\ m \in Memory /\ Tidy(m) /\ f.role = "self"
    BY <1>1, AtCall
  <1>3. PICK c \in Pid :
          \/ Fork(p, c, Return(m, SUCCESS), Forked(m), "bg")
          \/ Fork(p, c, SetTop(m, [f EXCEPT !.pids = <<c>>]), Forked(m), "fg")
    BY DEF ExternalFork
  <1>4. Forked(m) \in Memory /\ Idle(Forked(m))
    BY <1>2, ForkedIdle
  <1>5. CASE Fork(p, c, Return(m, SUCCESS), Forked(m), "bg")
    <2>1. SUCCESS \in StatusEnum
      BY DEF StatusEnum
    <2>2. Idle(Return(m, SUCCESS)) /\ Return(m, SUCCESS) \in Memory
      BY <1>2, <2>1, MoveIdle, ReturnType
    <2>3. Tidy(Return(m, SUCCESS)) /\ Pending(Return(m, SUCCESS)) = {}
      BY <2>2, IdleIsTidy
    <2>4. Pending(m) = {}
      BY <1>1, <1>2, RestingIs DEF Resting
    <2>5. Pending(Return(m, SUCCESS)) = IF "bg" = "fg" THEN Pending(m) \cup {c} ELSE Pending(m)
      BY <2>3, <2>4
    <2> QED BY <1>2, <1>4, <1>5, <2>3, <2>5, ForkAwaits
  <1>6. CASE Fork(p, c, SetTop(m, [f EXCEPT !.pids = <<c>>]), Forked(m), "fg")
    BY <1>1, <1>4, <1>6, ForkOneAwaits
  <1> QED BY <1>3, <1>5, <1>6

LEMMA ExternalWaitAwaits ==
    ASSUME AwaitInv, Inv', NEW p \in Pid, ExternalWait(p)
    PROVE  AwaitInv'
  <1> DEFINE m == mem[p]
             c == Top(m).pids[1]
             v == IF WIFEXITED(code[c]) THEN WEXITSTATUS(code[c]) ELSE 128 + WTERMSIG(code[c])
  <1>1. /\ Interprets(p, "SIMPLE_COMMAND") /\ Top(m).pids # <<>>
        /\ Reap(p, c, Return([m EXCEPT !.status = v], SUCCESS))
    BY DEF ExternalWait, RunsInShell
  <1>2. Waiting(m) /\ code[c] \in WaitStatus /\ NodeOf(m).type = "SIMPLE_COMMAND"
    BY <1>1, AtWait, AtCall
  <1>3. Len(Top(m).pids) = 1
    BY <1>2 DEF Waiting
  <1>4. v \in Status
    BY <1>2, StatusValues
  <1> HIDE DEF v
  <1> QED BY <1>1, <1>3, <1>4, ReapLastAwaits

\* What becomes a program was not waiting for anybody.
LEMMA ExternalExecAwaits ==
    ASSUME AwaitInv, Inv', NEW p \in Pid, ExternalExec(p)
    PROVE  AwaitInv'
  <1> DEFINE m == mem[p]
  <1>1. /\ pstate[p] = "shell" /\ m.stack # <<>> /\ NodeOf(m).type = "SIMPLE_COMMAND"
        /\ Top(m).role = "child" \/ "CHILD_PROCESS" \in m.flags
    BY DEF ExternalExec, BecomesProgram
  <1>2. m \in Memory /\ Tidy(m) /\ mem \in [Pid -> Memory]
        /\ pstate \in [Pid -> {"free", "shell", "exec", "zombie"}]
    BY <1>1 DEF AwaitInv, Inv, TypeOK
  <1>3. Resting(m)
    BY <1>1, <1>2 DEF Tidy, Resting, Waiting
  <1>4. ForegroundOf(p) = {}
    BY <1>1, <1>2, <1>3, RestingIs, AwaitInvIs
  <1>5. CASE /\ pstate' = [pstate EXCEPT ![p] = "exec"]
             /\ mem' = [mem EXCEPT ![p] = executorCtor]
             /\ UNCHANGED <<parent, job, lines>>
    <2>1. /\ \A q \in Pid : pstate'[q] = IF q = p THEN "exec" ELSE pstate[q]
          /\ \A q \in Pid : q # p => mem'[q] = mem[q]
          /\ parent' = parent /\ job' = job
      BY <1>2, <1>5
    <2>2. \A q \in Pid : ForegroundOf(q)' = ForegroundOf(q)
      BY <1>1, <2>1 DEF ForegroundOf, ChildrenOf
    <2>3. ASSUME NEW q \in Pid
          PROVE  /\ ForegroundOf(q)' = IF pstate'[q] = "shell" THEN Pending(mem'[q]) ELSE {}
                 /\ pstate'[q] = "shell" => Tidy(mem'[q])
      <3>1. CASE q = p
        BY <1>4, <2>1, <2>2, <3>1
      <3>2. CASE q # p
        BY <2>1, <2>2, <3>2, AwaitInvIs
      <3> QED BY <3>1, <3>2
    <2> QED BY <2>3, AwaitInvIsNext
  <1>6. CASE Exit(p, ERROR_FILE_NOT_FOUND)
    <2>1. pstate[p] # "free"
      BY <1>1
    <2> QED BY <1>6, <2>1, ExitAwaits
  <1> QED BY <1>5, <1>6 DEF ExternalExec

LEMMA ExecuteNodeAwaits ==
    ASSUME AwaitInv, NEW p \in Pid, executeNode(p)
    PROVE  AwaitInv'
  <1>1. Inv'
    BY ExecuteNodeInv DEF AwaitInv
  <1>2. CASE \/ executeProgramNode(p) \/ executeCompleteCommandNode(p)
             \/ executeBraceGroupNode(p) \/ executeElseClauseNode(p)
    <2>1. \E t \in {"PROGRAM", "COMPLETE_COMMAND", "BRACE_GROUP", "ELSE_CLAUSE"} :
             Interprets(p, t) /\ RunChildren(p)
      BY <1>2 DEF executeProgramNode, executeCompleteCommandNode, executeBraceGroupNode, executeElseClauseNode
    <2> QED BY <1>1, <2>1, WalkAwaits
  <1>3. CASE \/ executeAndOrNode(p) \/ executeIfClauseNode(p) \/ executeWhileClauseNode(p)
             \/ executeUntilClauseNode(p) \/ executeForClauseNode(p) \/ executeCaseClauseNode(p)
    BY <1>1, <1>3, WalkAwaits
  <1>4. CASE executePipelineNode(p)
    BY <1>1, <1>4, PipelineOfOneAwaits, PipelineForkAwaits, PipelineForkFailsAwaits, PipelineWaitAwaits
       DEF executePipelineNode
  <1>5. CASE executeSimpleCommandNode(p)
    <2>1. CASE ExternalForkFails(p)
      <3>1. /\ Interprets(p, "SIMPLE_COMMAND") /\ Top(mem[p]).pids = <<>>
            /\ Local(p, Return(mem[p], ERROR_DEFAULT)) /\ ERROR_DEFAULT \in StatusEnum
        BY <2>1 DEF ExternalForkFails, RunsInShell, StatusEnum
      <3>2. pstate[p] = "shell" /\ mem[p] \in Busy /\ Tidy(mem[p]) /\ Top(mem[p]).role = "self"
        BY <3>1, AtCall
      <3>3. Resting(mem[p]) /\ Idle(Return(mem[p], ERROR_DEFAULT))
        BY <3>1, <3>2, MoveIdle DEF Resting
      <3> QED BY <1>1, <3>1, <3>2, <3>3, LocalAwaits
    <2> QED BY <1>1, <1>5, <2>1, CommandAwaits, ExternalForkAwaits, ExternalWaitAwaits, ExternalExecAwaits
            DEF executeSimpleCommandNode, executeExternalProgram
  <1>6. CASE ForkedChildExits(p)
    <2>1. pstate[p] # "free" /\ \E w : Exit(p, w)
      BY <1>6 DEF ForkedChildExits
    <2> QED BY <1>1, <2>1, ExitAwaits
  <1> QED BY <1>1, <1>2, <1>3, <1>4, <1>5, <1>6, ErrCheckAwaits, ListAwaits, SubshellAwaits,
             FunctionDefinitionAwaits DEF executeNode

LEMMA RunLineAwaits ==
    ASSUME AwaitInv, runLine
    PROVE  AwaitInv'
  <1> DEFINE first == FrameOf(Head(lines))
             k == [mem[Shell] EXCEPT !.stack = <<first>>, !.ret = SUCCESS]
  <1>1. Inv'
    BY RunLineInv DEF AwaitInv
  <1>2. Shell \in Pid /\ pstate[Shell] = "shell" /\ mem[Shell].stack = <<>>
    BY ProcessAssumption DEF ProcessAssumption, runLine, AtPrompt
  <1>3. mem[Shell] \in Memory /\ Tidy(mem[Shell])
    BY <1>2 DEF AwaitInv, Inv, TypeOK
  <1>4. Local(Shell, k) \/ (mem' = [mem EXCEPT ![Shell] = k] /\ UNCHANGED <<pstate, parent, code, job>>)
    BY DEF runLine
  <1>5. Idle(k)
    <2>1. k.base = mem[Shell].base /\ k.stack = <<first>>
      BY <1>3 DEF Memory
    <2>2. mem[Shell].base = 0
      BY <1>2, <1>3 DEF Tidy, Rooted, Anchored
    <2>3. first.pids = <<>>
      BY DEF FrameOf
    <2> HIDE DEF first, k
    <2>4. Top(k) = first /\ Len(k.stack) = 1
      BY <2>1 DEF Top
    <2> QED BY <2>1, <2>2, <2>3, <2>4 DEF Idle, Rooted, Quiet, Resting
  <1>6. k \in Memory
    <2>1. mem'[Shell] \in Memory /\ mem \in [Pid -> Memory] /\ mem' = [mem EXCEPT ![Shell] = k]
      BY <1>1, <1>2 DEF AwaitInv, Inv, TypeOK, runLine
    <2> QED BY <1>2, <2>1
  <1>7. Tidy(k) /\ Pending(k) = {} /\ Pending(mem[Shell]) = {}
    BY <1>2, <1>5, <1>6, IdleIsTidy DEF Pending
  <1> HIDE DEF k
  <1>8. /\ \A q \in Pid : mem'[q] = IF q = Shell THEN k ELSE mem[q]
        /\ pstate' = pstate /\ parent' = parent /\ job' = job
    BY <1>4 DEF AwaitInv, Inv, TypeOK, Local
  <1>9. \A q \in Pid : ForegroundOf(q)' = ForegroundOf(q)
    BY <1>8 DEF ForegroundOf, ChildrenOf
  <1> QED BY <1>1, <1>2, <1>7, <1>8, <1>9, AwaitInvIs, AwaitInvIsNext

LEMMA InitAwaits == Init => AwaitInv
  <1> SUFFICES ASSUME Init PROVE AwaitInv
    OBVIOUS
  <1>1. Inv
    BY InitInv
  <1>2. /\ \A q \in Pid : mem[q] = executorCtor
        /\ \A q \in Pid : parent[q] = IF q = Shell THEN "launcher" ELSE "init"
        /\ "init" \notin Pid /\ "launcher" \notin Pid
    BY ProcessAssumption DEF ProcessAssumption, Init
  <1>3. Idle(executorCtor)
    BY DEF executorCtor, Idle, Rooted, Quiet, Resting
  <1>4. Tidy(executorCtor) /\ Pending(executorCtor) = {}
    BY <1>3, CtorType, IdleIsTidy
  <1>5. \A q \in Pid : ForegroundOf(q) = {}
    BY <1>2 DEF ForegroundOf, ChildrenOf
  <1> QED BY <1>1, <1>2, <1>4, <1>5, AwaitInvIs

LEMMA NextAwaits == AwaitInv /\ [Next]_vars => AwaitInv'
  <1> SUFFICES ASSUME AwaitInv, [Next]_vars PROVE AwaitInv'
    OBVIOUS
  <1>1. Inv'
    BY NextInv DEF AwaitInv
  <1>2. CASE \E p \in Pid : executeNode(p)
    BY <1>2, ExecuteNodeAwaits
  <1>3. CASE \E p \in Pid : ProgramEnds(p)
    <2>1. PICK p \in Pid : pstate[p] # "free" /\ Exit(p, code[p])
      BY <1>3 DEF ProgramEnds
    <2> QED BY <1>1, <2>1, ExitAwaits
  <1>4. CASE runLine
    BY <1>4, RunLineAwaits
  <1>5. CASE mainReturns
    <2>1. Shell \in Pid /\ pstate[Shell] # "free" /\ Exit(Shell, 0)
      BY <1>5, ProcessAssumption DEF ProcessAssumption, mainReturns, AtPrompt
    <2> QED BY <1>1, <2>1, ExitAwaits
  <1>6. CASE Finished \/ UNCHANGED vars
    <2>1. UNCHANGED vars
      BY <1>6 DEF Finished
    <2>2. /\ pstate' = pstate /\ parent' = parent /\ mem' = mem /\ job' = job
          /\ \A q \in Pid : ForegroundOf(q)' = ForegroundOf(q)
      BY <2>1 DEF vars, ForegroundOf, ChildrenOf
    <2> QED BY <1>1, <2>2, AwaitInvIs, AwaitInvIsNext
  <1> QED BY <1>2, <1>3, <1>4, <1>5, <1>6 DEF Next

\* At every moment, and for every program, the children a process started in the foreground
\* are those its topmost call is about to wait for: a command starts only when the one
\* before it was reaped, and waitpid is never asked for somebody else's child.
THEOREM WaitsForItsChildren == Spec => []ForegroundAwaited
  <1>1. AwaitInv => ForegroundAwaited
    BY DEF AwaitInv
  <1> QED BY <1>1, InitAwaits, NextAwaits, PTL DEF Spec

=============================================================================
