--------------------------- MODULE SessionProofs ---------------------------
(***************************************************************************)
(* Theorems about module Session, for all commands, all inputs and every   *)
(* failing allocation.                                                     *)
(***************************************************************************)
EXTENDS Session, SequenceTheorems, TLAPS

Kinds == {"TABLE", "LINE", "FILE", "TREE"}
Record == [kind : Kinds, freed : Nat]
EntryOf(blocks) == [name : Name, block : blocks, list : ListId]
CallOf(blocks) == [block : blocks, list : ListId, next : Nat \ {0}]

-----------------------------------------------------------------------------
(* Blocks and sequences.                                                     *)

LEMMA SeqMono ==
    ASSUME NEW S, NEW T, S \subseteq T, NEW s \in Seq(S)
    PROVE  s \in Seq(T)
  OBVIOUS

LEMMA FrontIs ==
    ASSUME NEW S, NEW s \in Seq(S), s # <<>>
    PROVE  /\ Front(s) \in Seq(S) /\ Len(Front(s)) = Len(s) - 1
           /\ \A k \in 1..Len(s) - 1 : Front(s)[k] = s[k]
  <1>1. Len(s) \in Nat \ {0} /\ 1 \in Int /\ Len(s) - 1 \in Int
    OBVIOUS
  <1>2. \A i \in 1..Len(s) - 1 : s[i] \in S
    BY <1>1
  <1> DEFINE n == Len(s) - 1
  <1>3. /\ SubSeq(s, 1, n) \in Seq(S)
        /\ Len(SubSeq(s, 1, n)) = IF 1 <= n THEN n - 1 + 1 ELSE 0
        /\ \A i \in 1..n - 1 + 1 : SubSeq(s, 1, n)[i] = s[1 + i - 1]
    <2> HIDE DEF n
    <2>1. n \in Int /\ \A i \in 1..n : s[i] \in S
      BY <1>1, <1>2 DEF n
    <2> QED BY <2>1, SubSeqProperties
  <1>4. n \in Nat
    BY <1>1
  <1>5. Front(s) = SubSeq(s, 1, n)
    BY DEF Front
  <1> HIDE DEF n
  <1>6. Len(SubSeq(s, 1, n)) = n /\ \A i \in 1..n : SubSeq(s, 1, n)[i] = s[i]
    BY <1>3, <1>4
  <1> QED BY <1>3, <1>5, <1>6 DEF n

LEMMA FreeIs ==
    ASSUME NEW h \in Seq(Record), NEW b \in DOMAIN h \cup {NULL}
    PROVE  /\ Free(h, b) \in Seq(Record) /\ DOMAIN Free(h, b) = DOMAIN h
           /\ \A c \in DOMAIN h : Free(h, b)[c].kind = h[c].kind
           /\ \A c \in DOMAIN h : c # b => Free(h, b)[c] = h[c]
  <1>1. CASE b = NULL
    BY <1>1 DEF Free
  <1>2. CASE b # NULL
    <2>1. b \in DOMAIN h /\ h[b] \in Record /\ Free(h, b) = [h EXCEPT ![b].freed = @ + 1]
      BY <1>2 DEF Free
    <2>2. [h[b] EXCEPT !.freed = @ + 1] \in Record /\ [h[b] EXCEPT !.freed = @ + 1].kind = h[b].kind
      BY <2>1 DEF Record
    <2>3. Free(h, b) = [h EXCEPT ![b] = [h[b] EXCEPT !.freed = @ + 1]]
      BY <2>1
    <2> QED BY <2>1, <2>2, <2>3
  <1> QED BY <1>1, <1>2

LEMMA WithIs ==
    ASSUME heap \in Seq(Record), NEW kind \in Kinds
    PROVE  /\ With(kind) \in Seq(Record) /\ DOMAIN With(kind) = DOMAIN heap \cup {New}
           /\ New \notin DOMAIN heap /\ New # NULL
           /\ With(kind)[New].kind = kind /\ With(kind)[New].freed = 0
           /\ \A c \in DOMAIN heap : With(kind)[c] = heap[c]
  BY DEF With, New, Block, Record, Kinds, NULL

LEMMA PrependedIs ==
    ASSUME NEW S, functions \in Seq(S), NEW name, NEW block, NEW body,
           [name |-> name, block |-> block, list |-> body] \in S
    PROVE  /\ Prepended(name, block, body) \in Seq(S)
           /\ Len(Prepended(name, block, body)) = Len(functions) + 1
           /\ Prepended(name, block, body)[1] = [name |-> name, block |-> block, list |-> body]
           /\ \A k \in DOMAIN functions : Prepended(name, block, body)[k + 1] = functions[k]
           /\ \A k \in 2..Len(functions) + 1 : k - 1 \in DOMAIN functions /\ Prepended(name, block, body)[k] = functions[k - 1]
  BY DEF Prepended, Entry

-----------------------------------------------------------------------------
(* Types.                                                                    *)

Heap == heap \in Seq(Record) /\ {table, line, file, input, tree} \subseteq BlockId
Stack == /\ calls \in Seq(CallOf(DOMAIN heap)) /\ Len(calls) <= MaxDepth
Functions == functions \in Seq(EntryOf(DOMAIN heap))
Unique == \A j, k \in DOMAIN functions : functions[j].name = functions[k].name => j = k
Rest ==
    /\ mode \in Mode /\ lines \in Seq(Line)
    /\ pc \in {"IMPORT", "READLINE", "OPEN", "RESET", "PRIME", "ANALYZE", "REJECT", "RUN",
               "CLEANUP", "FCLOSE", "RETURN", "DONE", "DEAD"}
    /\ exiting \in BOOLEAN /\ dangling \in BOOLEAN
    /\ latest \in [Name -> ListId \cup {Empty}]

LEMMA TypeParts == TypeOK <=> Heap /\ Stack /\ Functions /\ Unique /\ Rest
  BY DEF TypeOK, Heap, Stack, Functions, Unique, Rest, Record, Kinds, EntryOf, CallOf

Grown == /\ heap' \in Seq(Record) /\ DOMAIN heap \subseteq DOMAIN heap'
         /\ \A c \in DOMAIN heap : heap'[c].kind = heap[c].kind

LEMMA GrownSame == heap \in Seq(Record) /\ heap' = heap => Grown
  BY DEF Grown

LEMMA GrownWith ==
    ASSUME heap \in Seq(Record), NEW kind \in Kinds, heap' = With(kind)
    PROVE  Grown /\ New \in DOMAIN heap' /\ heap'[New].kind = kind
  <1>1. /\ With(kind) \in Seq(Record) /\ DOMAIN With(kind) = DOMAIN heap \cup {New} /\ With(kind)[New].kind = kind
        /\ \A c \in DOMAIN heap : With(kind)[c] = heap[c]
    BY WithIs
  <1> QED BY <1>1 DEF Grown

LEMMA GrownFree ==
    ASSUME heap \in Seq(Record), NEW b \in DOMAIN heap \cup {NULL}, heap' = Free(heap, b)
    PROVE  Grown
  <1>1. /\ Free(heap, b) \in Seq(Record) /\ DOMAIN Free(heap, b) = DOMAIN heap
        /\ \A c \in DOMAIN heap : Free(heap, b)[c].kind = heap[c].kind
    BY FreeIs
  <1> QED BY <1>1 DEF Grown

LEMMA GrownFreeWith ==
    ASSUME heap \in Seq(Record), NEW kind \in Kinds, NEW b \in DOMAIN heap \cup {NULL, New},
           heap' = Free(With(kind), b)
    PROVE  Grown /\ New \in DOMAIN heap' /\ heap'[New].kind = kind
  <1>1. With(kind) \in Seq(Record) /\ b \in DOMAIN With(kind) \cup {NULL}
    BY WithIs
  <1>2. /\ heap' \in Seq(Record) /\ DOMAIN heap' = DOMAIN With(kind)
        /\ \A c \in DOMAIN With(kind) : heap'[c].kind = With(kind)[c].kind
    BY <1>1, FreeIs
  <1>3. DOMAIN With(kind) = DOMAIN heap \cup {New} /\ With(kind)[New].kind = kind
        /\ \A c \in DOMAIN heap : With(kind)[c].kind = heap[c].kind
    BY WithIs
  <1> QED BY <1>2, <1>3 DEF Grown

LEMMA GrownFreeTwice ==
    ASSUME heap \in Seq(Record), NEW a \in DOMAIN heap \cup {NULL}, NEW b \in DOMAIN heap \cup {NULL},
           heap' = Free(Free(heap, a), b)
    PROVE  Grown
  <1>1. Free(heap, a) \in Seq(Record) /\ b \in DOMAIN Free(heap, a) \cup {NULL}
    BY FreeIs
  <1>2. /\ heap' \in Seq(Record) /\ DOMAIN heap' = DOMAIN Free(heap, a)
        /\ \A c \in DOMAIN Free(heap, a) : heap'[c].kind = Free(heap, a)[c].kind
    BY <1>1, FreeIs
  <1>3. DOMAIN Free(heap, a) = DOMAIN heap /\ \A c \in DOMAIN heap : Free(heap, a)[c].kind = heap[c].kind
    BY FreeIs
  <1> QED BY <1>2, <1>3 DEF Grown

\* The next command is one.
LEMMA CommandIs ==
    ASSUME TypeOK, RunsNext
    PROVE  /\ calls # <<>> /\ Len(calls) \in Nat \ {0} /\ Top = calls[Len(calls)]
           /\ Top \in CallOf(DOMAIN heap) /\ Command \in Statement
  <1>1. calls \in Seq(CallOf(DOMAIN heap)) /\ calls # <<>>
    BY DEF TypeOK, CallOf, RunsNext, Running
  <1>2. Len(calls) \in Nat \ {0} /\ Top = calls[Len(calls)] /\ Top \in CallOf(DOMAIN heap)
    BY <1>1 DEF Top, Last
  <1>3. Commands \in Seq(Statement) /\ Top.next \in Nat \ {0} /\ Top.next <= Len(Commands)
    BY <1>2, SessionAssumption DEF Commands, CallOf, RunsNext
  <1>4. Command \in Statement
    BY <1>3 DEF Command
  <1> QED BY <1>1, <1>2, <1>4

\* Advancing and returning keep the calls.
LEMMA AdvancedIs ==
    ASSUME TypeOK, RunsNext
    PROVE  /\ Advanced \in Seq(CallOf(DOMAIN heap)) /\ Len(Advanced) = Len(calls)
           /\ \A k \in DOMAIN calls : Advanced[k].block = calls[k].block
  <1>1. calls \in Seq(CallOf(DOMAIN heap)) /\ Len(calls) \in Nat \ {0} /\ Top \in CallOf(DOMAIN heap)
    BY CommandIs, TypeParts DEF Stack
  <1>2. /\ [Top EXCEPT !.next = @ + 1] \in CallOf(DOMAIN heap)
        /\ [Top EXCEPT !.next = @ + 1].block = Top.block
    BY <1>1 DEF CallOf
  <1>3. /\ Front(calls) \in Seq(CallOf(DOMAIN heap)) /\ Len(Front(calls)) = Len(calls) - 1
        /\ \A k \in 1..Len(calls) - 1 : Front(calls)[k] = calls[k]
    BY <1>1, FrontIs
  <1>4. Top.block = calls[Len(calls)].block
    BY CommandIs
  <1>5. Len(Advanced) = Len(calls) /\ Advanced \in Seq(CallOf(DOMAIN heap))
    BY <1>1, <1>2, <1>3 DEF Advanced
  <1>6. ASSUME NEW k \in DOMAIN calls PROVE Advanced[k].block = calls[k].block
    <2>1. CASE k = Len(calls)
      BY <1>1, <1>2, <1>3, <1>4, <2>1 DEF Advanced
    <2>2. CASE k # Len(calls)
      <3>1. k \in 1..Len(calls) - 1
        BY <1>1, <2>2
      <3> QED BY <1>1, <1>2, <1>3, <3>1 DEF Advanced
    <2> QED BY <2>1, <2>2
  <1> QED BY <1>5, <1>6

LEMMA FindIs ==
    ASSUME TypeOK, NEW name, Entries(name) # {}
    PROVE  \E k \in Entries(name) : Entries(name) = {k} /\ functionListFind(name) = functions[k]
  <1>1. PICK k \in Entries(name) : TRUE
    OBVIOUS
  <1>2. k \in Nat
    BY <1>1 DEF Entries, TypeOK
  <1>3. Entries(name) = {k}
    BY <1>1, TypeParts DEF Unique, Entries
  <1>4. k = CHOOSE i \in Entries(name) : \A j \in Entries(name) : i <= j
    BY <1>2, <1>3
  <1> QED BY <1>1, <1>3, <1>4 DEF functionListFind

LEMMA BlocksIn == TypeOK => /\ heap \in Seq(Record)
                            /\ {table, line, file, input, tree} \subseteq DOMAIN heap \cup {NULL}
                            /\ {"TABLE", "LINE", "FILE", "TREE"} = Kinds
  BY TypeParts DEF Heap, BlockId, Kinds

\* The body an entry of the list stands for.
LEMMA EntryIs ==
    ASSUME TypeOK, NEW k \in DOMAIN functions
    PROVE  /\ functions[k] \in EntryOf(DOMAIN heap)
           /\ functions[k].block \in DOMAIN heap /\ functions[k].list \in ListId /\ functions[k].name \in Name
  <1>1. functions[k] \in EntryOf(DOMAIN heap)
    BY TypeParts DEF Functions
  <1> QED BY <1>1 DEF EntryOf

LEMMA InsertGrows ==
    ASSUME TypeOK, NEW name, NEW body, functionListInsert(name, body)
    PROVE  Grown /\ New \in DOMAIN heap' /\ heap'[New].kind = "TREE"
  <1>1. CASE heap' = With("TREE")
    BY <1>1, BlocksIn, GrownWith
  <1>2. ASSUME NEW k \in Entries(name), heap' = Free(With("TREE"), functions[k].block)
        PROVE  Grown /\ New \in DOMAIN heap' /\ heap'[New].kind = "TREE"
    <2>1. functions[k].block \in DOMAIN heap \cup {NULL, New}
      BY EntryIs DEF Entries
    <2> QED BY <1>2, <2>1, BlocksIn, GrownFreeWith
  <1> QED BY <1>1, <1>2 DEF functionListInsert

LEMMA HeapStep == TypeOK /\ [Next]_vars => Grown /\ Heap'
  <1> SUFFICES ASSUME TypeOK, [Next]_vars PROVE Grown /\ Heap'
    OBVIOUS
  <1> USE DEF Heap, BlockId
  <1>0. /\ heap \in Seq(Record)
        /\ {table, line, file, input, tree} \subseteq DOMAIN heap \cup {NULL}
        /\ {"TABLE", "LINE", "FILE", "TREE"} = Kinds
    BY BlocksIn
  <1>s. ASSUME heap' = heap PROVE Grown
    BY <1>0, <1>s, GrownSame
  <1>w. ASSUME NEW kind \in Kinds, heap' = With(kind) PROVE Grown /\ New \in DOMAIN heap'
    BY <1>0, <1>w, GrownWith
  <1>f. ASSUME NEW b \in DOMAIN heap \cup {NULL}, heap' = Free(heap, b) PROVE Grown
    BY <1>0, <1>f, GrownFree
  <1>g. ASSUME Grown PROVE heap' \in Seq(Record) /\ DOMAIN heap \subseteq DOMAIN heap'
    BY <1>g DEF Grown
  <1>1. CASE populateEnvTable
    <2>1. Grown /\ New \in DOMAIN heap'
      BY <1>0, <1>1, <1>w, GrownFreeWith DEF populateEnvTable
    <2> QED BY <1>0, <1>1, <1>g, <2>1 DEF populateEnvTable
  <1>2. CASE readline
    <2>1. CASE lines = <<>>
      BY <1>0, <1>2, <1>s, <1>g, <2>1 DEF readline
    <2>2. CASE lines # <<>>
      <3>1. Grown /\ New \in DOMAIN heap'
        BY <1>0, <1>2, <1>w, <2>2, GrownFreeWith DEF readline
      <3> QED BY <1>0, <1>2, <1>g, <2>2, <3>1 DEF readline
    <2> QED BY <2>1, <2>2
  <1>3. CASE OpenInput
    <2>1. CASE heap' = With("FILE") /\ file' = New
      BY <1>0, <1>3, <1>w, <1>g, <2>1 DEF OpenInput
    <2>2. CASE file' = file /\ (heap' = heap \/ heap' = Free(heap, line))
      <3>1. Grown
        BY <1>0, <1>s, <1>f, <2>2
      <3> QED BY <1>0, <1>3, <1>g, <2>2, <3>1 DEF OpenInput
    <2> QED BY <1>3, <2>1, <2>2 DEF OpenInput
  <1>4. CASE ResetLexer
    <2>1. Grown
      BY <1>0, <1>4, <1>f DEF ResetLexer, lexerReset
    <2> QED BY <1>0, <1>4, <1>g, <2>1 DEF ResetLexer, lexerReset
  <1>5. CASE parserReset
    <2>1. CASE heap' = With("TREE") /\ tree' = New /\ input' = input
      BY <1>0, <1>5, <1>w, <1>g, <2>1 DEF parserReset
    <2>2. CASE heap' = Free(heap, line) /\ tree' = tree /\ input' = input
      BY <1>0, <1>5, <1>f, <1>g, <2>2 DEF parserReset
    <2>3. CASE heap' = Free(heap, input) /\ tree' = tree /\ input' = NULL
      BY <1>0, <1>5, <1>f, <1>g, <2>3 DEF parserReset
    <2> QED BY <1>5, <2>1, <2>2, <2>3 DEF parserReset
  <1>6. CASE analyze
    <2>1. Grown
      BY <1>0, <1>6, <1>s, <1>f DEF analyze
    <2> QED BY <1>0, <1>6, <1>g, <2>1 DEF analyze
  <1>7. ASSUME NEW next, Release(next) PROVE Grown /\ Heap'
    <2>1. Grown
      BY <1>0, <1>7, GrownFreeTwice DEF Release
    <2> QED BY <1>0, <1>7, <1>g, <2>1 DEF Release
  <1>8. CASE executeFunctionDefinition
    <2>1. Grown
      BY <1>8, InsertGrows DEF executeFunctionDefinition
    <2> QED BY <1>0, <1>8, <1>g, <2>1 DEF executeFunctionDefinition
  <1>9. CASE DefinitionFails \/ executeSimpleCommandNode \/ ReturnFromList \/ Dies \/ UNCHANGED vars
    <2>1. heap' = heap /\ UNCHANGED <<table, line, file, input, tree>>
      BY <1>9 DEF DefinitionFails, executeSimpleCommandNode, ReturnFromList, Dies, vars
    <2> QED BY <1>0, <1>s, <1>g, <2>1
  <1>10. CASE Cleanup
    <2>1. Grown
      BY <1>0, <1>10, <1>f DEF Cleanup
    <2> QED BY <1>0, <1>10, <1>g, <2>1 DEF Cleanup
  <1>11. CASE CloseInput
    <2>1. Grown
      BY <1>0, <1>11, <1>f DEF CloseInput
    <2> QED BY <1>0, <1>11, <1>g, <2>1 DEF CloseInput
  <1>12. CASE mainReturns
    <2>1. Grown
      BY <1>0, <1>12, <1>f DEF mainReturns, hashTableDtor
    <2> QED BY <1>0, <1>12, <1>g, <2>1 DEF mainReturns
  <1> QED BY <1>1, <1>2, <1>3, <1>4, <1>5, <1>6, <1>7, <1>8, <1>9, <1>10, <1>11, <1>12
          DEF Next, LineRejected, LineDone

\* While a line is worked on it is the first of those left, and it has a tree when it is parsed.
Progress ==
    /\ \/ pc \in {"OPEN", "RESET", "PRIME", "ANALYZE", "REJECT", "RUN"}
       \/ pc = "IMPORT" /\ mode # "INTERACTIVE"
       => lines # <<>>
    /\ pc = "ANALYZE" => tree # NULL

LEMMA CallsGrow ==
    ASSUME Grown, NEW c \in Seq(CallOf(DOMAIN heap))
    PROVE  c \in Seq(CallOf(DOMAIN heap'))
  <1>1. CallOf(DOMAIN heap) \subseteq CallOf(DOMAIN heap')
    BY DEF Grown, CallOf
  <1> QED BY <1>1, SeqMono

LEMMA StackStep == TypeOK /\ Progress /\ [Next]_vars => Stack'
  <1> SUFFICES ASSUME TypeOK, Progress, [Next]_vars PROVE Stack'
    OBVIOUS
  <1>0. Grown /\ calls \in Seq(CallOf(DOMAIN heap)) /\ Len(calls) <= MaxDepth /\ MaxDepth \in Nat \ {0}
    BY HeapStep, TypeParts, SessionAssumption DEF Stack
  <1>1. ASSUME calls' \in Seq(CallOf(DOMAIN heap)), Len(calls') <= MaxDepth PROVE Stack'
    BY <1>0, <1>1, CallsGrow DEF Stack
  <1>2. CASE calls' = calls \/ calls' = <<>>
    <2>1. CASE calls' = <<>>
      <3>1. calls' \in Seq(CallOf(DOMAIN heap)) /\ Len(calls') = 0
        BY <2>1
      <3> QED BY <1>0, <1>1, <3>1
    <2> QED BY <1>0, <1>1, <1>2, <2>1
  <1>3. CASE analyze
    <2>1. CASE calls' = <<FrameOf(tree, Head(lines))>> /\ Head(lines) # Rejected /\ Head(lines) # Empty
      <3>1. lines # <<>> /\ lines \in Seq(Line) /\ tree \in DOMAIN heap
        BY <1>3, BlocksIn, TypeParts DEF analyze, Progress, Rest
      <3>2. Head(lines) \in ListId
        BY <2>1, <3>1 DEF Line
      <3>3. FrameOf(tree, Head(lines)) \in CallOf(DOMAIN heap)
        BY <3>1, <3>2 DEF FrameOf, CallOf
      <3>4. calls' \in Seq(CallOf(DOMAIN heap)) /\ Len(calls') <= MaxDepth
        BY <1>0, <2>1, <3>3
      <3> QED BY <1>1, <3>4
    <2> QED BY <1>2, <1>3, <2>1 DEF analyze
  <1>4. CASE RunsNext /\ calls' = Advanced
    BY <1>0, <1>1, <1>4, AdvancedIs
  <1>5. CASE executeSimpleCommandNode
    <2> DEFINE f == functionListFind(Command.name)
    <2>1. CASE /\ Entries(Command.name) # {} /\ Len(calls) < MaxDepth /\ RunsNext
               /\ calls' = Append(Advanced, FrameOf(f.block, f.list))
      <3>1. f.block \in DOMAIN heap /\ f.list \in ListId
        BY <2>1, FindIs, EntryIs DEF Entries
      <3>2. FrameOf(f.block, f.list) \in CallOf(DOMAIN heap)
        BY <3>1 DEF FrameOf, CallOf
      <3>3. Advanced \in Seq(CallOf(DOMAIN heap)) /\ Len(Advanced) = Len(calls)
        BY <2>1, AdvancedIs
      <3>4. calls' \in Seq(CallOf(DOMAIN heap)) /\ Len(calls') = Len(calls) + 1
        BY <2>1, <3>2, <3>3
      <3>5. Len(calls') <= MaxDepth
        <4>1. Len(calls) \in Nat /\ Len(calls) < MaxDepth /\ MaxDepth \in Nat
          BY <1>0, <2>1
        <4> QED BY <3>4, <4>1
      <3> QED BY <1>1, <3>4, <3>5
    <2> QED BY <1>4, <1>5, <2>1 DEF executeSimpleCommandNode
  <1>6. CASE ReturnFromList
    <2>1. calls # <<>> /\ calls' = Front(calls)
      BY <1>6 DEF ReturnFromList, Running
    <2>2. calls' \in Seq(CallOf(DOMAIN heap)) /\ Len(calls') = Len(calls) - 1
      BY <1>0, <2>1, FrontIs
    <2> QED BY <1>0, <1>1, <2>2
  <1> QED BY <1>2, <1>3, <1>4, <1>5, <1>6
          DEF Next, vars, populateEnvTable, readline, OpenInput, ResetLexer, parserReset, LineRejected,
              LineDone, Release, executeFunctionDefinition, DefinitionFails, Dies, Cleanup, CloseInput,
              mainReturns

LEMMA FunctionsGrow ==
    ASSUME Grown, NEW f \in Seq(EntryOf(DOMAIN heap))
    PROVE  f \in Seq(EntryOf(DOMAIN heap'))
  <1>1. EntryOf(DOMAIN heap) \subseteq EntryOf(DOMAIN heap')
    BY DEF Grown, EntryOf
  <1> QED BY <1>1, SeqMono

LEMMA InsertTypes ==
    ASSUME TypeOK, NEW name \in Name, NEW body \in ListId, functionListInsert(name, body)
    PROVE  Functions' /\ Unique'
  <1>1. Grown /\ New \in DOMAIN heap' /\ functions \in Seq(EntryOf(DOMAIN heap'))
    BY InsertGrows, FunctionsGrow, TypeParts DEF Functions
  <1>2. [name |-> name, block |-> New, list |-> body] \in EntryOf(DOMAIN heap')
    BY <1>1 DEF EntryOf
  <1>3. ASSUME NEW k \in Entries(name),
               functions' = [functions EXCEPT ![k] = [name |-> name, block |-> New, list |-> body]]
        PROVE  Functions' /\ Unique'
    <2>1. k \in DOMAIN functions /\ functions[k].name = name
      BY DEF Entries
    <2>2. functions' \in Seq(EntryOf(DOMAIN heap')) /\ DOMAIN functions' = DOMAIN functions
      BY <1>1, <1>2, <1>3, <2>1
    <2>3. \A j \in DOMAIN functions : functions'[j].name = functions[j].name
      BY <1>1, <1>3, <2>1
    <2> QED BY <2>2, <2>3, TypeParts DEF Functions, Unique
  <1>4. CASE Entries(name) = {} /\ functions' = Prepended(name, New, body)
    <2> DEFINE e == [name |-> name, block |-> New, list |-> body]
    <2>1. /\ functions' \in Seq(EntryOf(DOMAIN heap')) /\ Len(functions') = Len(functions) + 1
          /\ functions'[1] = e
          /\ \A k \in 2..Len(functions) + 1 : k - 1 \in DOMAIN functions /\ functions'[k] = functions[k - 1]
      BY <1>1, <1>2, <1>4, PrependedIs
    <2>2. ASSUME NEW j \in DOMAIN functions', NEW k \in DOMAIN functions', functions'[j].name = functions'[k].name
          PROVE  j = k
      <3>1. Len(functions) \in Nat /\ j \in 1..Len(functions) + 1 /\ k \in 1..Len(functions) + 1
        BY <1>1, <2>1
      <3>2. \A i \in DOMAIN functions : functions[i].name # name
        BY <1>4 DEF Entries
      <3>3. \A i \in 2..Len(functions) + 1 : functions'[i].name # name
        BY <2>1, <3>2
      <3>4. functions'[1].name = name
        BY <2>1
      <3>5. CASE j = 1 \/ k = 1
        <4>1. (j = 1 \/ j \in 2..Len(functions) + 1) /\ (k = 1 \/ k \in 2..Len(functions) + 1)
          BY <3>1
        <4> QED BY <2>2, <3>3, <3>4, <3>5, <4>1
      <3>6. CASE j # 1 /\ k # 1
        <4>1. j \in 2..Len(functions) + 1 /\ k \in 2..Len(functions) + 1
          BY <3>1, <3>6
        <4>2. j - 1 = k - 1
          BY <2>1, <2>2, <4>1, TypeParts DEF Unique
        <4> QED BY <4>1, <4>2
      <3> QED BY <3>5, <3>6
    <2> QED BY <2>1, <2>2 DEF Functions, Unique
  <1> QED BY <1>3, <1>4 DEF functionListInsert, Entry

LEMMA FunctionsStep == TypeOK /\ [Next]_vars => Functions' /\ Unique'
  <1> SUFFICES ASSUME TypeOK, [Next]_vars PROVE Functions' /\ Unique'
    OBVIOUS
  <1>1. CASE functions' = functions
    BY <1>1, HeapStep, FunctionsGrow, TypeParts DEF Functions, Unique
  <1>2. CASE executeFunctionDefinition
    <2>1. Command.name \in Name /\ Command.body \in ListId
      BY <1>2, CommandIs DEF executeFunctionDefinition, Statement
    <2> QED BY <1>2, <2>1, InsertTypes DEF executeFunctionDefinition
  <1> QED BY <1>1, <1>2
          DEF Next, vars, populateEnvTable, readline, OpenInput, ResetLexer, parserReset, analyze,
              LineRejected, LineDone, Release, DefinitionFails, executeSimpleCommandNode, ReturnFromList,
              Dies, Cleanup, CloseInput, mainReturns

LEMMA RestStep == TypeOK /\ Progress /\ [Next]_vars => Rest' /\ Progress'
  <1> SUFFICES ASSUME TypeOK, Progress, [Next]_vars PROVE Rest' /\ Progress'
    OBVIOUS
  <1>0. Rest /\ lines \in Seq(Line) /\ \A l \in Seq(Line) : l # <<>> => Tail(l) \in Seq(Line)
    BY TypeParts DEF Rest
  <1>1. mode' = mode
    BY DEF Next, vars, populateEnvTable, readline, OpenInput, ResetLexer, parserReset, analyze,
           LineRejected, LineDone, Release, executeFunctionDefinition, DefinitionFails,
           executeSimpleCommandNode, ReturnFromList, Dies, Cleanup, CloseInput, mainReturns
  <1>2. exiting' \in BOOLEAN
    BY <1>0 DEF Rest, Next, vars, populateEnvTable, readline, OpenInput, ResetLexer, parserReset,
           analyze, LineRejected, LineDone, Release, executeFunctionDefinition, DefinitionFails,
           executeSimpleCommandNode, ReturnFromList, Dies, Cleanup, CloseInput, mainReturns
  <1>3. dangling' \in BOOLEAN
    BY <1>0 DEF Rest, Next, vars, populateEnvTable, readline, OpenInput, ResetLexer, parserReset,
           analyze, LineRejected, LineDone, Release, executeFunctionDefinition, functionListInsert,
           DefinitionFails, executeSimpleCommandNode, ReturnFromList, Dies, Cleanup, CloseInput,
           mainReturns
  <1>4. latest' \in [Name -> ListId \cup {Empty}]
    <2>1. CASE executeFunctionDefinition
      <3>1. Command.name \in Name /\ Command.body \in ListId
        BY <2>1, CommandIs DEF executeFunctionDefinition, Statement
      <3> QED BY <1>0, <2>1, <3>1 DEF executeFunctionDefinition, Rest
    <2> QED BY <1>0, <2>1
            DEF Rest, Next, vars, populateEnvTable, readline, OpenInput, ResetLexer, parserReset,
                analyze, LineRejected, LineDone, Release, DefinitionFails, executeSimpleCommandNode,
                ReturnFromList, Dies, Cleanup, CloseInput, mainReturns
  <1>5. lines' \in Seq(Line)
    BY <1>0 DEF Progress, Next, vars, populateEnvTable, readline, OpenInput, ResetLexer, parserReset,
           analyze, LineRejected, LineDone, Release, executeFunctionDefinition, DefinitionFails,
           executeSimpleCommandNode, ReturnFromList, Dies, Cleanup, CloseInput, mainReturns
  <1>6. pc' \in {"IMPORT", "READLINE", "OPEN", "RESET", "PRIME", "ANALYZE", "REJECT", "RUN",
                 "CLEANUP", "FCLOSE", "RETURN", "DONE", "DEAD"}
    BY <1>0 DEF Rest, Next, vars, populateEnvTable, readline, OpenInput, ResetLexer, parserReset,
           analyze, LineRejected, LineDone, Release, executeFunctionDefinition, DefinitionFails,
           executeSimpleCommandNode, ReturnFromList, Dies, Cleanup, CloseInput, mainReturns
  <1>7. Progress'
    <2>1. CASE populateEnvTable \/ readline
      BY <1>1, <2>1 DEF Progress, populateEnvTable, readline
    <2>2. CASE OpenInput
      BY <1>1, <2>2 DEF Progress, OpenInput
    <2>3. CASE ResetLexer
      BY <1>1, <2>3 DEF Progress, ResetLexer
    <2>4. CASE parserReset
      BY <1>1, <2>4, WithIs, BlocksIn DEF Progress, parserReset
    <2>5. CASE analyze
      BY <1>1, <2>5 DEF Progress, analyze
    <2>6. CASE LineRejected \/ LineDone
      BY <1>1, <2>6 DEF Progress, LineRejected, LineDone, Release
    <2>7. CASE UNCHANGED <<pc, lines, tree>>
      BY <1>1, <2>7 DEF Progress
    <2>8. CASE Dies \/ Cleanup \/ CloseInput \/ mainReturns
      BY <1>1, <2>8 DEF Progress, Dies, Cleanup, CloseInput, mainReturns
    <2> QED BY <2>1, <2>2, <2>3, <2>4, <2>5, <2>6, <2>7, <2>8
            DEF Next, vars, executeFunctionDefinition, DefinitionFails, executeSimpleCommandNode,
                ReturnFromList
  <1> QED BY <1>1, <1>2, <1>3, <1>4, <1>5, <1>6, <1>7, <1>0 DEF Rest

LEMMA TypeInit == Init => TypeOK /\ Progress
  <1> SUFFICES ASSUME Init PROVE TypeOK /\ Progress
    OBVIOUS
  <1>1. Heap /\ Stack /\ Functions /\ Unique
    BY SessionAssumption DEF Init, Heap, BlockId, Stack, Functions, Unique, NULL
  <1>2. Rest
    BY SessionAssumption DEF Init, Rest
  <1>3. Progress
    <2>1. mode # "INTERACTIVE" => lines # <<>>
      BY DEF Init
    <2> QED BY <2>1 DEF Init, Progress
  <1> QED BY <1>1, <1>2, <1>3, TypeParts

LEMMA TypeStep == TypeOK /\ Progress /\ [Next]_vars => TypeOK' /\ Progress'
  <1>1. TypeOK' <=> Heap' /\ Stack' /\ Functions' /\ Unique' /\ Rest'
    BY DEF TypeOK, Heap, Stack, Functions, Unique, Rest, Record, Kinds, EntryOf, CallOf
  <1> QED BY <1>1, HeapStep, StackStep, FunctionsStep, RestStep

\* A session's state is well typed, and no name has two entries in the function list, for all
\* commands and inputs (functionListInsert looks for the name first).
THEOREM TypeCorrect == Spec => []TypeOK
  <1>1. Spec => [](TypeOK /\ Progress)
    BY TypeInit, TypeStep, PTL DEF Spec
  <1> QED BY <1>1, PTL

-----------------------------------------------------------------------------
(* Who owns which block.                                                     *)

OfKind(b, kind) == b # NULL => heap[b].kind = kind

\* A variable refers to a block of its kind.
Roles == /\ OfKind(table, "TABLE") /\ OfKind(line, "LINE") /\ OfKind(tree, "TREE")
         /\ OfKind(file, "FILE") /\ OfKind(input, "FILE")

\* Each function has a body of its own that lives.
Bodies ==
    /\ \A k \in DOMAIN functions :
         /\ heap[functions[k].block].kind = "TREE" /\ Live(functions[k].block)
         /\ functions[k].block # tree
    /\ \A j, k \in DOMAIN functions : functions[j].block = functions[k].block => j = k

\* What runs is part of the tree of the line or the body of a function.
Runs ==
    /\ pc \in {"ANALYZE", "RUN"} \/ calls # <<>> => tree # NULL /\ Live(tree)
    /\ calls # <<>> => pc \in {"RUN", "DEAD"}
    /\ ~dangling => \A k \in DOMAIN calls :
                       \/ calls[k].block = tree
                       \/ \E j \in DOMAIN functions : functions[j].block = calls[k].block

\* From its opening to the end of the parse a FILE and the line under it live.
Reads ==
    /\ pc \in {"RESET", "PRIME", "ANALYZE"} /\ mode # "STDIN" => file # NULL /\ Live(file)
    /\ pc = "RESET" /\ mode # "STDIN" => file # input
    /\ pc \in {"PRIME", "ANALYZE"} => input = file
    /\ pc \in {"OPEN", "RESET", "PRIME", "ANALYZE"} /\ mode = "INTERACTIVE" => line # NULL /\ Live(line)

IInv == TypeOK /\ Progress /\ Roles /\ Bodies /\ Runs /\ Reads

LEMMA RolesStep == IInv /\ [Next]_vars => Roles'
  <1> SUFFICES ASSUME IInv, [Next]_vars PROVE Roles'
    OBVIOUS
  <1>0. /\ Grown /\ heap \in Seq(Record) /\ TypeOK /\ Roles
        /\ {table, line, file, input, tree} \subseteq DOMAIN heap \cup {NULL}
        /\ {"TABLE", "LINE", "FILE", "TREE"} = Kinds
    BY HeapStep, BlocksIn DEF IInv
  <1>1. ASSUME NEW b \in DOMAIN heap \cup {NULL}, NEW kind, OfKind(b, kind) PROVE b # NULL => heap'[b].kind = kind
    BY <1>0, <1>1 DEF Grown, OfKind
  <1>2. CASE UNCHANGED <<table, line, file, input, tree>>
    BY <1>0, <1>1, <1>2 DEF Roles, OfKind
  <1>3. CASE populateEnvTable
    <2>1. CASE heap' = With("TABLE") /\ table' = New
      BY <1>0, <1>1, <1>3, <2>1, GrownWith DEF populateEnvTable, Roles, OfKind
    <2>2. CASE table' = NULL
      BY <1>0, <1>1, <1>3, <2>2 DEF populateEnvTable, Roles, OfKind
    <2> QED BY <1>3, <2>1, <2>2 DEF populateEnvTable
  <1>4. CASE readline
    <2>1. CASE lines # <<>>
      <3>1. heap'[New].kind = "LINE"
        BY <1>0, <1>4, <2>1, GrownWith, GrownFreeWith DEF readline
      <3> QED BY <1>0, <1>1, <1>4, <2>1, <3>1 DEF readline, Roles, OfKind
    <2> QED BY <1>2, <1>4, <2>1 DEF readline
  <1>5. CASE OpenInput
    <2>1. CASE heap' = With("FILE") /\ file' = New
      BY <1>0, <1>1, <1>5, <2>1, GrownWith DEF OpenInput, Roles, OfKind
    <2> QED BY <1>2, <1>5, <2>1 DEF OpenInput
  <1>6. CASE ResetLexer
    BY <1>0, <1>1, <1>6 DEF ResetLexer, lexerReset, Roles, OfKind
  <1>7. CASE parserReset
    <2>1. CASE heap' = With("TREE") /\ tree' = New /\ input' = input
      BY <1>0, <1>1, <1>7, <2>1, GrownWith DEF parserReset, Roles, OfKind
    <2>2. CASE input' = NULL /\ tree' = tree
      BY <1>0, <1>1, <1>7, <2>2 DEF parserReset, Roles, OfKind
    <2> QED BY <1>2, <1>7, <2>1, <2>2 DEF parserReset
  <1>8. ASSUME NEW next, Release(next) PROVE Roles'
    <2>1. CASE input' = NULL
      BY <1>0, <1>1, <1>8, <2>1 DEF Release, Roles, OfKind
    <2> QED BY <1>2, <1>8, <2>1 DEF Release
  <1>9. CASE Cleanup
    BY <1>0, <1>1, <1>9 DEF Cleanup, Roles, OfKind
  <1>10. CASE mainReturns
    BY <1>0, <1>1, <1>10 DEF mainReturns, Roles, OfKind
  <1> QED BY <1>2, <1>3, <1>4, <1>5, <1>6, <1>7, <1>8, <1>9, <1>10
          DEF Next, vars, analyze, LineRejected, LineDone, executeFunctionDefinition, DefinitionFails,
              executeSimpleCommandNode, ReturnFromList, Dies, CloseInput

\* Freeing a block that is no tree, or the tree of the line, spares the bodies.
LEMMA Spares ==
    ASSUME IInv, [Next]_vars, ~executeFunctionDefinition, NEW k \in DOMAIN functions
    PROVE  heap'[functions[k].block] = heap[functions[k].block]
  <1> DEFINE b == functions[k].block
  <1>0. /\ TypeOK /\ heap \in Seq(Record) /\ b \in DOMAIN heap /\ heap[b].kind = "TREE"
        /\ {table, line, file, input, tree} \subseteq DOMAIN heap \cup {NULL}
        /\ {"TABLE", "LINE", "FILE", "TREE"} = Kinds
    BY BlocksIn, EntryIs DEF IInv, Bodies
  <1>1. b \notin {table, line, file, input, tree}
    BY <1>0 DEF IInv, Roles, OfKind, Bodies, NULL
  <1>2. ASSUME NEW a \in DOMAIN heap \cup {NULL}, b # a PROVE Free(heap, a)[b] = heap[b]
    BY <1>0, <1>2, FreeIs
  <1>3. ASSUME NEW kind \in Kinds PROVE With(kind)[b] = heap[b] /\ Free(With(kind), New)[b] = heap[b]
    <2>1. /\ With(kind) \in Seq(Record) /\ New \in DOMAIN With(kind) /\ b \in DOMAIN With(kind) /\ b # New
          /\ With(kind)[b] = heap[b]
      BY <1>0, WithIs
    <2> QED BY <2>1, FreeIs
  <1>4. ASSUME NEW a \in DOMAIN heap \cup {NULL}, NEW c \in DOMAIN heap \cup {NULL}, b # a, b # c
        PROVE  Free(Free(heap, a), c)[b] = heap[b]
    <2>1. Free(heap, a) \in Seq(Record) /\ DOMAIN Free(heap, a) = DOMAIN heap
      BY <1>0, FreeIs
    <2>2. Free(Free(heap, a), c)[b] = Free(heap, a)[b]
      <3> DEFINE g == Free(heap, a)
      <3>1. g \in Seq(Record) /\ c \in DOMAIN g \cup {NULL} /\ b \in DOMAIN g /\ b # c
        BY <1>0, <1>4, <2>1
      <3> HIDE DEF g
      <3>2. Free(g, c)[b] = g[b]
        BY <3>1, FreeIs
      <3> QED BY <3>2 DEF g
    <2> QED BY <1>2, <1>4, <2>2
  <1> HIDE DEF b
  <1>5. CASE heap' = heap
    BY <1>5 DEF b
  <1>6. CASE \E a \in {table, line, file, input, tree} : heap' = Free(heap, a)
    BY <1>0, <1>1, <1>2, <1>6 DEF b
  <1>7. CASE \E kind \in Kinds : heap' = With(kind) \/ heap' = Free(With(kind), New)
    BY <1>3, <1>7 DEF b
  <1>8. CASE \E a, c \in {table, line, file, input, tree} : heap' = Free(Free(heap, a), c)
    BY <1>0, <1>1, <1>4, <1>8 DEF b
  <1> QED BY <1>0, <1>5, <1>6, <1>7, <1>8
          DEF Next, vars, populateEnvTable, readline, OpenInput, ResetLexer, lexerReset, parserReset,
              analyze, LineRejected, LineDone, Release, DefinitionFails, executeSimpleCommandNode,
              ReturnFromList, Dies, Cleanup, CloseInput, mainReturns, hashTableDtor

\* A definition frees the body it replaces and nothing else.
LEMMA InsertHeap ==
    ASSUME IInv, NEW name, NEW body, functionListInsert(name, body)
    PROVE  /\ heap'[New].kind = "TREE" /\ heap'[New].freed = 0 /\ New \notin DOMAIN heap /\ New # tree
           /\ \/ \E k \in Entries(name) :
                   /\ functions' = [functions EXCEPT ![k] = Entry(name, New, body)]
                   /\ dangling' = (dangling \/ \E c \in ToSet(calls) : c.block = functions[k].block)
                   /\ \A b \in DOMAIN heap : b # functions[k].block => heap'[b] = heap[b]
              \/ /\ functions' = Prepended(name, New, body) /\ dangling' = dangling
                 /\ \A b \in DOMAIN heap : heap'[b] = heap[b]
  <1>0. /\ TypeOK /\ heap \in Seq(Record) /\ "TREE" \in Kinds /\ tree \in DOMAIN heap \cup {NULL}
    BY BlocksIn DEF IInv, Kinds
  <1>1. /\ With("TREE") \in Seq(Record) /\ DOMAIN With("TREE") = DOMAIN heap \cup {New}
        /\ New \notin DOMAIN heap /\ New # NULL /\ New # tree
        /\ With("TREE")[New].kind = "TREE" /\ With("TREE")[New].freed = 0
        /\ \A c \in DOMAIN heap : With("TREE")[c] = heap[c]
    BY <1>0, WithIs
  <1>2. ASSUME NEW k \in Entries(name), heap' = Free(With("TREE"), functions[k].block)
        PROVE  /\ heap'[New].kind = "TREE" /\ heap'[New].freed = 0
               /\ \A b \in DOMAIN heap : b # functions[k].block => heap'[b] = heap[b]
    <2>1. functions[k].block \in DOMAIN heap
      BY <1>0, EntryIs DEF Entries
    <2>2. \A b \in DOMAIN With("TREE") : b # functions[k].block => heap'[b] = With("TREE")[b]
      BY <1>1, <1>2, <2>1, FreeIs
    <2> QED BY <1>1, <2>1, <2>2
  <1> QED BY <1>1, <1>2 DEF functionListInsert

LEMMA InsertBodies ==
    ASSUME IInv, NEW name, NEW body, functionListInsert(name, body), tree' = tree
    PROVE  Bodies'
  <1>0. /\ Bodies /\ functions \in Seq(EntryOf(DOMAIN heap))
        /\ \A k \in DOMAIN functions : functions[k].block \in DOMAIN heap
        /\ heap'[New].kind = "TREE" /\ heap'[New].freed = 0 /\ New \notin DOMAIN heap /\ New # tree
    BY InsertHeap, EntryIs, TypeParts DEF IInv, Functions
  <1>1. CASE \E k \in Entries(name) :
                /\ functions' = [functions EXCEPT ![k] = Entry(name, New, body)]
                /\ \A b \in DOMAIN heap : b # functions[k].block => heap'[b] = heap[b]
    <2>1. PICK k \in DOMAIN functions :
             /\ functions' = [functions EXCEPT ![k] = Entry(name, New, body)]
             /\ \A b \in DOMAIN heap : b # functions[k].block => heap'[b] = heap[b]
      BY <1>1 DEF Entries
    <2>2. DOMAIN functions' = DOMAIN functions /\ functions'[k].block = New
      BY <1>0, <2>1 DEF Entry
    <2>3. \A j \in DOMAIN functions : j # k =>
             /\ functions'[j] = functions[j] /\ functions'[j].block # New
             /\ heap'[functions[j].block] = heap[functions[j].block]
      BY <1>0, <2>1 DEF Bodies
    <2> QED BY <1>0, <2>2, <2>3 DEF Bodies, Live
  <1>2. CASE functions' = Prepended(name, New, body) /\ \A b \in DOMAIN heap : heap'[b] = heap[b]
    <2>1. /\ Len(functions') = Len(functions) + 1 /\ functions' \in Seq({Entry(name, New, body)} \cup EntryOf(DOMAIN heap))
          /\ functions'[1].block = New
          /\ \A k \in 2..Len(functions) + 1 : k - 1 \in DOMAIN functions /\ functions'[k] = functions[k - 1]
      <3>1. functions \in Seq({Entry(name, New, body)} \cup EntryOf(DOMAIN heap))
        BY <1>0, SeqMono
      <3>2. Entry(name, New, body) = [name |-> name, block |-> New, list |-> body]
        BY DEF Entry
      <3> QED BY <1>2, <3>1, <3>2, PrependedIs
    <2>2. \A k \in DOMAIN functions' : k = 1 \/ k \in 2..Len(functions) + 1
      BY <1>0, <2>1
    <2>3. \A k \in 2..Len(functions) + 1 :
             /\ functions'[k].block \in DOMAIN heap /\ functions'[k].block # New /\ functions'[k].block # tree
             /\ heap'[functions'[k].block].kind = "TREE" /\ heap'[functions'[k].block].freed = 0
      BY <1>0, <1>2, <2>1 DEF Bodies, Live
    <2>4. \A j, k \in 2..Len(functions) + 1 : functions'[j].block = functions'[k].block => j = k
      <3> TAKE j, k \in 2..Len(functions) + 1
      <3>1. functions'[j].block = functions'[k].block => j - 1 = k - 1
        BY <1>0, <2>1 DEF Bodies
      <3>2. j \in Int /\ k \in Int
        OBVIOUS
      <3> QED BY <3>1, <3>2
    <2> QED BY <1>0, <2>1, <2>2, <2>3, <2>4 DEF Bodies, Live
  <1> QED BY <1>1, <1>2, InsertHeap

LEMMA BodiesStep == IInv /\ [Next]_vars => Bodies'
  <1> SUFFICES ASSUME IInv, [Next]_vars PROVE Bodies'
    OBVIOUS
  <1>0. Bodies /\ TypeOK /\ \A k \in DOMAIN functions : functions[k].block \in DOMAIN heap
    BY EntryIs DEF IInv
  <1>1. CASE executeFunctionDefinition
    BY <1>1, InsertBodies DEF executeFunctionDefinition
  <1>2. CASE ~executeFunctionDefinition
    <2>1. \A k \in DOMAIN functions : heap'[functions[k].block] = heap[functions[k].block]
      BY <1>2, Spares
    <2>2. functions' = functions
      BY <1>2 DEF Next, vars, populateEnvTable, readline, OpenInput, ResetLexer, parserReset, analyze,
             LineRejected, LineDone, Release, DefinitionFails, executeSimpleCommandNode, ReturnFromList,
             Dies, Cleanup, CloseInput, mainReturns
    <2>3. tree' = tree \/ tree' \notin DOMAIN heap
      <3>1. New \notin DOMAIN heap
        BY <1>0, BlocksIn, WithIs DEF Kinds
      <3> QED BY <1>2, <3>1
              DEF Next, vars, populateEnvTable, readline, OpenInput, ResetLexer, parserReset, analyze,
                  LineRejected, LineDone, Release, DefinitionFails, executeSimpleCommandNode,
                  ReturnFromList, Dies, Cleanup, CloseInput, mainReturns
    <2> QED BY <1>0, <2>1, <2>2, <2>3 DEF Bodies, Live
  <1> QED BY <1>1, <1>2

LEMMA RunsStep == IInv /\ [Next]_vars => Runs'
  <1> SUFFICES ASSUME IInv, [Next]_vars PROVE Runs'
    OBVIOUS
  <1>0. /\ TypeOK /\ Runs /\ Bodies /\ heap \in Seq(Record)
        /\ {table, line, file, input, tree} \subseteq DOMAIN heap \cup {NULL}
        /\ \A k \in DOMAIN functions : functions[k].block \in DOMAIN heap
    BY BlocksIn, EntryIs DEF IInv
  <1>1. ASSUME calls = <<>>, calls' = calls, pc' \notin {"ANALYZE", "RUN"} PROVE Runs'
    BY <1>1 DEF Runs
  <1>2. CASE populateEnvTable \/ readline \/ OpenInput \/ ResetLexer
    BY <1>0, <1>1, <1>2 DEF Runs, populateEnvTable, readline, OpenInput, ResetLexer
  <1>3. CASE parserReset
    <2>1. calls = <<>> /\ calls' = calls
      BY <1>0, <1>3 DEF Runs, parserReset
    <2>2. CASE heap' = With("TREE") /\ tree' = New
      <3>1. New # NULL /\ heap'[New].freed = 0
        BY <1>0, <2>2, WithIs DEF Kinds
      <3> QED BY <2>1, <2>2, <3>1 DEF Runs, Live
    <2> QED BY <1>1, <1>3, <2>1, <2>2 DEF parserReset
  <1>4. CASE analyze
    <2>1. calls = <<>> /\ tree' = tree /\ tree # NULL /\ Live(tree)
      BY <1>0, <1>4 DEF Runs, analyze
    <2>2. CASE heap' = heap /\ pc' = "RUN" /\ (calls' = <<>> \/ calls' = <<FrameOf(tree, Head(lines))>>)
      <3>1. \A k \in DOMAIN calls' : calls'[k].block = tree
        <4>1. CASE calls' = <<FrameOf(tree, Head(lines))>>
          <5>1. \A k \in DOMAIN calls' : k = 1
            BY <4>1
          <5> QED BY <4>1, <5>1 DEF FrameOf
        <4> QED BY <2>2, <4>1
      <3> QED BY <2>1, <2>2, <3>1 DEF Runs, Live
    <2>3. CASE heap' = Free(heap, tree) /\ pc' = "REJECT" /\ calls' = calls
      BY <1>1, <2>1, <2>3
    <2> QED BY <1>4, <2>2, <2>3 DEF analyze
  <1>5. CASE LineRejected \/ LineDone
    <2>1. calls = <<>> /\ calls' = calls /\ pc' \notin {"ANALYZE", "RUN"}
      BY <1>0, <1>5 DEF Runs, LineRejected, LineDone, Release
    <2> QED BY <1>1, <2>1
  <1>6. CASE executeFunctionDefinition
    <2>1. /\ RunsNext /\ pc = "RUN" /\ pc' = pc /\ tree' = tree /\ calls' = Advanced
          /\ functionListInsert(Command.name, Command.body)
      BY <1>6 DEF executeFunctionDefinition, RunsNext, Running
    <2>2. tree # NULL /\ tree \in DOMAIN heap /\ Live(tree)
      BY <1>0, <2>1 DEF Runs
    <2>3. /\ Len(Advanced) = Len(calls) /\ DOMAIN calls' = DOMAIN calls
          /\ \A k \in DOMAIN calls : calls'[k].block = calls[k].block
      <3>1. calls \in Seq(CallOf(DOMAIN heap)) /\ Advanced \in Seq(CallOf(DOMAIN heap))
        BY <1>0, <2>1, AdvancedIs, TypeParts DEF Stack
      <3> QED BY <1>0, <2>1, <3>1, AdvancedIs
    <2>4. ASSUME NEW k \in Entries(Command.name),
                 functions' = [functions EXCEPT ![k] = Entry(Command.name, New, Command.body)],
                 dangling' = (dangling \/ \E c \in ToSet(calls) : c.block = functions[k].block),
                 \A b \in DOMAIN heap : b # functions[k].block => heap'[b] = heap[b]
          PROVE  Runs'
      <3>1. k \in DOMAIN functions /\ functions[k].block # tree
        BY <1>0 DEF Entries, Bodies
      <3>2. heap'[tree] = heap[tree]
        BY <2>2, <2>4, <3>1
      <3>3. /\ \A j \in DOMAIN functions : j # k => functions'[j] = functions[j]
            /\ DOMAIN functions' = DOMAIN functions
        <4>1. functions \in Seq(EntryOf(DOMAIN heap))
          BY <1>0, TypeParts DEF Functions
        <4> QED BY <2>4, <3>1, <4>1
      <3>4. ASSUME ~dangling', NEW c \in DOMAIN calls
            PROVE  calls'[c].block = tree \/ \E j \in DOMAIN functions' : functions'[j].block = calls'[c].block
        <4>1. ~dangling /\ calls[c].block # functions[k].block
          BY <2>4, <3>4 DEF ToSet
        <4>2. calls[c].block = tree \/ \E j \in DOMAIN functions : j # k /\ functions[j].block = calls[c].block
          BY <1>0, <4>1 DEF Runs
        <4> QED BY <2>3, <3>3, <4>2
      <3> QED BY <2>1, <2>2, <2>3, <3>2, <3>4 DEF Runs, Live
    <2>5. ASSUME functions' = Prepended(Command.name, New, Command.body), dangling' = dangling,
                 \A b \in DOMAIN heap : heap'[b] = heap[b]
          PROVE  Runs'
      <3>1. \A j \in DOMAIN functions : j + 1 \in DOMAIN functions' /\ functions'[j + 1] = functions[j]
        <4>1. functions \in Seq({Entry(Command.name, New, Command.body)} \cup EntryOf(DOMAIN heap))
          BY <1>0, SeqMono, TypeParts DEF Functions
        <4>2. Entry(Command.name, New, Command.body) = [name |-> Command.name, block |-> New, list |-> Command.body]
          BY DEF Entry
        <4>3. /\ Len(functions') = Len(functions) + 1
              /\ functions' \in Seq({Entry(Command.name, New, Command.body)} \cup EntryOf(DOMAIN heap))
              /\ \A j \in DOMAIN functions : functions'[j + 1] = functions[j]
          BY <2>5, <4>1, <4>2, PrependedIs
        <4> QED BY <4>1, <4>3
      <3>2. heap'[tree] = heap[tree]
        BY <2>2, <2>5
      <3>3. ASSUME ~dangling, NEW c \in DOMAIN calls
            PROVE  calls'[c].block = tree \/ \E j \in DOMAIN functions' : functions'[j].block = calls'[c].block
        BY <1>0, <2>3, <3>1, <3>3 DEF Runs
      <3> QED BY <2>1, <2>2, <2>3, <2>5, <3>2, <3>3 DEF Runs, Live
    <2> QED BY <2>1, <2>4, <2>5, InsertHeap
  <1>7. CASE executeSimpleCommandNode
    <2> DEFINE f == functionListFind(Command.name)
    <2>1. /\ RunsNext /\ pc = "RUN" /\ UNCHANGED <<pc, heap, tree, functions, dangling>>
          /\ \/ calls' = Advanced
             \/ Entries(Command.name) # {} /\ calls' = Append(Advanced, FrameOf(f.block, f.list))
      BY <1>7 DEF executeSimpleCommandNode, RunsNext, Running
    <2>2. tree # NULL /\ Live(tree)
      BY <1>0, <2>1 DEF Runs
    <2>3. /\ Len(Advanced) = Len(calls) /\ Advanced \in Seq(CallOf(DOMAIN heap)) /\ calls \in Seq(CallOf(DOMAIN heap))
          /\ \A k \in DOMAIN calls : Advanced[k].block = calls[k].block
      BY <1>0, <2>1, AdvancedIs, TypeParts DEF Stack
    <2>4. ASSUME ~dangling, NEW k \in DOMAIN calls'
          PROVE  calls'[k].block = tree \/ \E j \in DOMAIN functions : functions[j].block = calls'[k].block
      <3>1. CASE k \in DOMAIN calls
        <4>1. calls'[k] = Advanced[k]
          BY <2>1, <2>3, <3>1
        <4> QED BY <1>0, <2>3, <2>4, <3>1, <4>1 DEF Runs
      <3>2. CASE k \notin DOMAIN calls
        <4>1. Entries(Command.name) # {} /\ calls'[k] = FrameOf(f.block, f.list)
          BY <2>1, <2>3, <2>4, <3>2
        <4>2. \E j \in DOMAIN functions : functions[j] = f
          BY <1>0, <4>1, FindIs DEF Entries
        <4> QED BY <4>1, <4>2 DEF FrameOf
      <3> QED BY <3>1, <3>2
    <2> QED BY <2>1, <2>2, <2>4 DEF Runs, Live
  <1>8. CASE ReturnFromList
    <2>1. calls # <<>> /\ calls' = Front(calls) /\ pc = "RUN" /\ UNCHANGED <<pc, heap, tree, functions, dangling>>
      BY <1>8 DEF ReturnFromList, Running
    <2>2. \A k \in DOMAIN calls' : k \in DOMAIN calls /\ calls'[k] = calls[k]
      <3>1. /\ calls \in Seq(CallOf(DOMAIN heap)) /\ Len(calls') = Len(calls) - 1
            /\ calls' \in Seq(CallOf(DOMAIN heap)) /\ \A k \in 1..Len(calls) - 1 : calls'[k] = calls[k]
        BY <1>0, <2>1, FrontIs, TypeParts DEF Stack
      <3> QED BY <3>1
    <2> QED BY <1>0, <2>1, <2>2 DEF Runs, Live
  <1>9. CASE DefinitionFails
    BY <1>0, <1>9 DEF Runs, DefinitionFails, RunsNext, Running, Live
  <1>10. CASE Dies \/ UNCHANGED vars
    BY <1>0, <1>10 DEF Runs, Dies, vars, Live
  <1>11. CASE Cleanup \/ CloseInput \/ mainReturns
    <2>1. calls = <<>> /\ calls' = calls /\ pc' \notin {"ANALYZE", "RUN"}
      BY <1>0, <1>11 DEF Runs, Cleanup, CloseInput, mainReturns
    <2> QED BY <1>1, <2>1
  <1> QED BY <1>2, <1>3, <1>4, <1>5, <1>6, <1>7, <1>8, <1>9, <1>10, <1>11 DEF Next

LEMMA ReadsStep == IInv /\ [Next]_vars => Reads'
  <1> SUFFICES ASSUME IInv, [Next]_vars PROVE Reads'
    OBVIOUS
  <1>0. /\ TypeOK /\ Reads /\ Roles /\ Rest /\ heap \in Seq(Record)
        /\ {table, line, file, input, tree} \subseteq DOMAIN heap \cup {NULL}
        /\ {"TABLE", "LINE", "FILE", "TREE"} = Kinds
    BY BlocksIn, TypeParts DEF IInv
  <1>1. ASSUME pc' \notin {"OPEN", "RESET", "PRIME", "ANALYZE"} PROVE Reads'
    BY <1>1 DEF Reads
  <1>2. ASSUME NEW kind \in Kinds, NEW b \in DOMAIN heap PROVE With(kind)[b] = heap[b]
    BY <1>0, WithIs
  <1>3. CASE populateEnvTable
    BY <1>3 DEF Reads, populateEnvTable
  <1>4. CASE readline
    <2>1. CASE lines # <<>> /\ Head(lines) # Empty
      <3>1. heap' = With("LINE") /\ line' = New /\ pc' = "OPEN"
        BY <1>4, <2>1 DEF readline
      <3>2. New # NULL /\ heap'[New].freed = 0
        BY <1>0, <3>1, WithIs
      <3> QED BY <3>1, <3>2 DEF Reads, Live
    <2>2. CASE lines = <<>> \/ Head(lines) = Empty
      <3>1. pc' \in {"CLEANUP", "READLINE"}
        BY <1>4, <2>2 DEF readline
      <3> QED BY <1>1, <3>1
    <2> QED BY <2>1, <2>2
  <1>5. CASE OpenInput
    <2>1. CASE heap' = With("FILE") /\ file' = New /\ pc' = "RESET"
      <3>1. New # NULL /\ heap'[New].freed = 0 /\ New \notin DOMAIN heap
        BY <1>0, <2>1, WithIs
      <3>2. New # input
        BY <1>0, <3>1
      <3>3. UNCHANGED <<mode, line, input>> /\ pc = "OPEN"
        BY <1>5 DEF OpenInput
      <3>4. mode = "INTERACTIVE" => line # NULL /\ heap'[line].freed = 0
        BY <1>0, <1>2, <2>1, <3>3 DEF Reads, Live
      <3> QED BY <2>1, <3>1, <3>2, <3>3, <3>4 DEF Reads, Live
    <2>2. CASE mode = "STDIN" /\ pc' = "RESET"
      BY <1>5, <2>2 DEF OpenInput, Reads
    <2> QED BY <1>1, <1>5, <2>1, <2>2 DEF OpenInput
  <1>6. CASE ResetLexer
    <2>1. /\ pc = "RESET" /\ pc' = "PRIME" /\ input' = file /\ heap' = Free(heap, input)
          /\ UNCHANGED <<mode, line, file>>
      BY <1>6 DEF ResetLexer, lexerReset
    <2>2. \A c \in DOMAIN heap : c # input => heap'[c] = heap[c]
      BY <1>0, <2>1, FreeIs
    <2>3. mode # "STDIN" => file # NULL /\ heap'[file].freed = 0
      BY <1>0, <2>1, <2>2 DEF Reads, Live
    <2>4. mode = "INTERACTIVE" => line # NULL /\ heap'[line].freed = 0
      BY <1>0, <2>1, <2>2 DEF Reads, Live, Roles, OfKind
    <2> QED BY <2>1, <2>3, <2>4 DEF Reads, Live
  <1>7. CASE parserReset
    <2>1. CASE heap' = With("TREE") /\ pc' = "ANALYZE" /\ input' = input
      <3>1. pc = "PRIME" /\ UNCHANGED <<mode, line, file, input>>
        BY <1>7, <2>1 DEF parserReset
      <3>2. mode # "STDIN" => file # NULL /\ heap'[file].freed = 0
        BY <1>0, <1>2, <2>1, <3>1 DEF Reads, Live
      <3>3. mode = "INTERACTIVE" => line # NULL /\ heap'[line].freed = 0
        BY <1>0, <1>2, <2>1, <3>1 DEF Reads, Live
      <3> QED BY <1>0, <2>1, <3>1, <3>2, <3>3 DEF Reads, Live
    <2> QED BY <1>1, <1>7, <2>1 DEF parserReset
  <1>8. CASE UNCHANGED vars
    BY <1>0, <1>8 DEF vars, Reads, Live
  <1>9. CASE /\ ~populateEnvTable /\ ~readline /\ ~OpenInput /\ ~ResetLexer /\ ~parserReset
             /\ ~UNCHANGED vars
    <2>1. pc' \notin {"OPEN", "RESET", "PRIME", "ANALYZE"}
      BY <1>9 DEF Next, analyze, LineRejected, LineDone, Release, executeFunctionDefinition,
             DefinitionFails, executeSimpleCommandNode, RunsNext, ReturnFromList, Running, Dies,
             Cleanup, CloseInput, mainReturns
    <2> QED BY <1>1, <2>1
  <1> QED BY <1>3, <1>4, <1>5, <1>6, <1>7, <1>8, <1>9

LEMMA MemoryInvariant == Spec => []IInv
  <1>1. Init => IInv
    <2> SUFFICES ASSUME Init PROVE IInv
      OBVIOUS
    <2>1. Roles /\ Bodies
      BY DEF Init, Roles, OfKind, Bodies
    <2>2. Runs /\ Reads
      BY DEF Init, Runs, Reads
    <2> QED BY <2>1, <2>2, TypeInit DEF IInv
  <1>2. IInv /\ [Next]_vars => IInv'
    <2> SUFFICES ASSUME IInv, [Next]_vars PROVE IInv'
      OBVIOUS
    <2>1. TypeOK' /\ Progress'
      BY TypeStep DEF IInv
    <2> QED BY <2>1, RolesStep, BodiesStep, RunsStep, ReadsStep DEF IInv
  <1> QED BY <1>1, <1>2, PTL DEF Spec

\* What is read is live (the order of free, lexerReset and ASTCopyTree in shell.c and
\* function-list.c): the input while the lexer reads, the tree while it runs, all function
\* bodies for ever, and the bodies that run unless one was replaced while it ran.
THEOREM ReadsAreLive == Spec => []UsesLive
  <1>1. IInv => UsesLive
    <2> SUFFICES ASSUME IInv PROVE UsesLive
      OBVIOUS
    <2>1. /\ pc \in {"PRIME", "ANALYZE"} =>
                input = file /\ (mode # "STDIN" => Live(file)) /\ (mode = "INTERACTIVE" => Live(line))
          /\ pc \in {"ANALYZE", "RUN"} => Live(tree)
      BY DEF IInv, Reads, Runs
    <2>2. \A f \in ToSet(functions) : Live(f.block)
      BY DEF IInv, Bodies, ToSet
    <2>3. ASSUME ~dangling, NEW c \in ToSet(calls) PROVE Live(c.block)
      <3>1. PICK k \in DOMAIN calls : c = calls[k]
        BY DEF ToSet
      <3>2. Live(tree) /\ (c.block = tree \/ \E j \in DOMAIN functions : functions[j].block = c.block)
        BY <2>3, <3>1 DEF IInv, Runs
      <3> QED BY <3>2 DEF IInv, Bodies
    <2> QED BY <2>1, <2>2, <2>3 DEF UsesLive
  <1> QED BY <1>1, MemoryInvariant, PTL

-----------------------------------------------------------------------------
(* What a name calls.                                                        *)

LatestOf(n) == \/ Entries(n) = {} /\ latest[n] = Empty
               \/ \E k \in Entries(n) : functions[k].list = latest[n]

AllLatest == \A n \in Name : LatestOf(n)

LEMMA LatestIs == TypeOK => (FindsLatest <=> \A n \in Name : LatestOf(n))
  <1> SUFFICES ASSUME TypeOK, NEW n \in Name
               PROVE  (IF Entries(n) = {} THEN latest[n] = Empty ELSE functionListFind(n).list = latest[n])
                      <=> LatestOf(n)
    BY DEF FindsLatest
  <1>1. CASE Entries(n) = {}
    BY <1>1 DEF LatestOf
  <1>2. CASE Entries(n) # {}
    BY <1>2, FindIs DEF LatestOf
  <1> QED BY <1>1, <1>2

LEMMA LatestStep == TypeOK /\ (\A n \in Name : LatestOf(n)) /\ [Next]_vars => \A n \in Name : LatestOf(n)'
  <1> SUFFICES ASSUME TypeOK, \A n \in Name : LatestOf(n), [Next]_vars, NEW n \in Name PROVE LatestOf(n)'
    OBVIOUS
  <1>1. CASE executeFunctionDefinition
    <2> DEFINE name == Command.name  body == Command.body
    <2>1. name \in Name /\ body \in ListId /\ functionListInsert(name, body) /\ latest' = [latest EXCEPT ![name] = body]
      BY <1>1, CommandIs DEF executeFunctionDefinition, Statement
    <2>2. latest \in [Name -> ListId \cup {Empty}] /\ functions \in Seq(EntryOf(DOMAIN heap))
      BY TypeParts DEF Rest, Functions
    <2>e. Entry(name, New, body).name = name /\ Entry(name, New, body).list = body
      BY DEF Entry
    <2> HIDE DEF name, body
    <2>3. ASSUME NEW k \in Entries(name), functions' = [functions EXCEPT ![k] = Entry(name, New, body)]
          PROVE  LatestOf(n)'
      <3>1. k \in DOMAIN functions /\ functions[k].name = name
        BY DEF Entries
      <3>2. /\ DOMAIN functions' = DOMAIN functions /\ functions'[k] = Entry(name, New, body)
            /\ \A j \in DOMAIN functions : j # k => functions'[j] = functions[j]
        BY <2>2, <2>3, <3>1
      <3>3. Entries(n)' = Entries(n)
        BY <2>e, <3>1, <3>2 DEF Entries
      <3>4. CASE n = name
        <4>1. latest'[n] = body
          BY <2>1, <2>2, <3>4
        <4> QED BY <2>3, <2>e, <3>2, <3>3, <3>4, <4>1 DEF LatestOf
      <3>5. CASE n # name
        <4>1. latest'[n] = latest[n] /\ k \notin Entries(n)
          BY <2>1, <2>2, <3>1, <3>5 DEF Entries
        <4>2. \A j \in Entries(n) : functions'[j] = functions[j]
          BY <3>2, <4>1 DEF Entries
        <4> QED BY <3>3, <4>1, <4>2 DEF LatestOf
      <3> QED BY <3>4, <3>5
    <2>4. CASE functions' = Prepended(name, New, body) /\ Entries(name) = {}
      <3>1. /\ Len(functions') = Len(functions) + 1 /\ functions' \in Seq({Entry(name, New, body)} \cup EntryOf(DOMAIN heap))
            /\ functions'[1] = Entry(name, New, body)
            /\ \A k \in DOMAIN functions : functions'[k + 1] = functions[k]
            /\ \A k \in 2..Len(functions) + 1 : k - 1 \in DOMAIN functions /\ functions'[k] = functions[k - 1]
        <4>1. functions \in Seq({Entry(name, New, body)} \cup EntryOf(DOMAIN heap))
          BY <2>2, SeqMono
        <4>2. Entry(name, New, body) = [name |-> name, block |-> New, list |-> body]
          BY DEF Entry
        <4> QED BY <2>4, <4>1, <4>2, PrependedIs
      <3>2. 1 \in DOMAIN functions' /\ \A k \in DOMAIN functions : k + 1 \in DOMAIN functions'
        BY <2>2, <3>1
      <3>3. CASE n = name
        <4>1. latest'[n] = body /\ 1 \in Entries(n)'
          BY <2>1, <2>2, <2>e, <3>1, <3>2, <3>3 DEF Entries
        <4> QED BY <2>e, <3>1, <4>1 DEF LatestOf
      <3>4. CASE n # name
        <4>1. latest'[n] = latest[n]
          BY <2>1, <2>2, <3>4
        <4>2. \A k \in Entries(n) : k + 1 \in Entries(n)' /\ functions'[k + 1] = functions[k]
          BY <3>1, <3>2 DEF Entries
        <4>3. ASSUME Entries(n) = {} PROVE Entries(n)' = {}
          <5>1. ASSUME NEW k \in DOMAIN functions', functions'[k].name = n PROVE FALSE
            <6>1. k = 1 \/ k \in 2..Len(functions) + 1
              BY <2>2, <3>1
            <6>2. k # 1
              BY <2>e, <3>1, <3>4, <5>1
            <6>3. k - 1 \in Entries(n)
              BY <3>1, <5>1, <6>1, <6>2 DEF Entries
            <6> QED BY <4>3, <6>3
          <5> QED BY <5>1 DEF Entries
        <4> QED BY <4>1, <4>2, <4>3 DEF LatestOf
      <3> QED BY <3>3, <3>4
    <2> QED BY <2>1, <2>3, <2>4 DEF functionListInsert
  <1>2. CASE ~executeFunctionDefinition
    <2>1. UNCHANGED <<functions, latest>>
      BY <1>2 DEF Next, vars, populateEnvTable, readline, OpenInput, ResetLexer, parserReset, analyze,
             LineRejected, LineDone, Release, DefinitionFails, executeSimpleCommandNode, ReturnFromList,
             Dies, Cleanup, CloseInput, mainReturns
    <2> QED BY <2>1 DEF LatestOf, Entries
  <1> QED BY <1>1, <1>2

LEMMA AllLatestStep == TypeOK /\ AllLatest /\ [Next]_vars => AllLatest'
  BY LatestStep DEF AllLatest

\* A name calls its last definition that succeeded, whatever was defined, redefined or failed
\* before (functionListInsert, functionListFind).
THEOREM CallsFindLatest == Spec => []FindsLatest
  <1>1. Init => AllLatest
    BY DEF Init, AllLatest, LatestOf, Entries
  <1>2. TypeOK /\ AllLatest => FindsLatest
    BY LatestIs DEF AllLatest
  <1> QED BY <1>1, <1>2, AllLatestStep, TypeCorrect, PTL DEF Spec

-----------------------------------------------------------------------------
(* Every block is accounted for, at the terminal.                            *)

BodyBlocks == {functions[k].block : k \in DOMAIN functions}

\* Who still has to free what: the table and the lexer's FILE at any time, the line from readline
\* to the end of its command, the FILE that is not the lexer's yet, the tree until it ran.
Held ==
    {table, input} \cup BodyBlocks
        \cup (IF pc \in {"OPEN", "RESET", "PRIME", "ANALYZE", "REJECT", "RUN"} THEN {line} ELSE {})
        \cup (IF pc = "RESET" THEN {file} ELSE {})
        \cup (IF pc \in {"ANALYZE", "RUN"} THEN {tree} ELSE {})

Alive(h, S) == \A b \in DOMAIN h : h[b].freed = 0 <=> b \in S
Once(h) == \A b \in DOMAIN h : h[b].kind # "TREE" => h[b].freed <= 1

\* What lives is what somebody holds: nothing leaks, and nothing held was freed.
Accounts ==
    mode = "INTERACTIVE" =>
        /\ Once(heap) /\ (pc # "DEAD" => Alive(heap, Held))
        /\ pc = "IMPORT" => table = NULL
        /\ pc # "FCLOSE" /\ (pc \in {"RETURN", "DONE"} => input = NULL)
        /\ pc = "DONE" => table = NULL

LEMMA FreeAlive ==
    ASSUME NEW h \in Seq(Record), NEW b \in DOMAIN h \cup {NULL}, NEW S, Alive(h, S)
    PROVE  /\ Alive(Free(h, b), S \ {b})
           /\ Once(h) /\ (b \in S \cup {NULL} \/ h[b].kind = "TREE") => Once(Free(h, b))
  <1>1. CASE b = NULL
    <2>1. Free(h, b) = h /\ b \notin DOMAIN h
      BY <1>1 DEF Free, NULL
    <2> QED BY <2>1 DEF Alive
  <1>2. CASE b # NULL
    <2>1. b \in DOMAIN h /\ h[b] \in Record /\ Free(h, b) = [h EXCEPT ![b] = [h[b] EXCEPT !.freed = @ + 1]]
      BY <1>2 DEF Free
    <2>2. h[b].freed \in Nat /\ [h[b] EXCEPT !.freed = @ + 1].freed = h[b].freed + 1
          /\ [h[b] EXCEPT !.freed = @ + 1].kind = h[b].kind
      BY <2>1 DEF Record
    <2>3. /\ DOMAIN Free(h, b) = DOMAIN h /\ Free(h, b)[b].freed = h[b].freed + 1
          /\ Free(h, b)[b].kind = h[b].kind
          /\ \A c \in DOMAIN h : c # b => Free(h, b)[c] = h[c]
      BY <2>1, <2>2
    <2>4. Alive(Free(h, b), S \ {b})
      BY <2>1, <2>2, <2>3 DEF Alive
    <2>5. Once(h) /\ (b \in S \/ h[b].kind = "TREE") => Once(Free(h, b))
      BY <2>1, <2>2, <2>3 DEF Alive, Once
    <2> QED BY <1>2, <2>4, <2>5
  <1> QED BY <1>1, <1>2

LEMMA WithAlive ==
    ASSUME heap \in Seq(Record), NEW kind \in Kinds, NEW S, Alive(heap, S)
    PROVE  /\ Alive(With(kind), S \cup {New})
           /\ Once(heap) => Once(With(kind))
  <1>1. /\ DOMAIN With(kind) = DOMAIN heap \cup {New} /\ New \notin DOMAIN heap /\ With(kind)[New].freed = 0
        /\ \A c \in DOMAIN heap : With(kind)[c] = heap[c]
    BY WithIs
  <1> QED BY <1>1 DEF Alive, Once

LEMMA AliveSame ==
    ASSUME NEW h, NEW S, NEW T, Alive(h, S), \A b \in DOMAIN h : b \in S <=> b \in T
    PROVE  Alive(h, T)
  BY DEF Alive

\* Nothing that is held is held twice.
LEMMA HeldIs ==
    ASSUME IInv
    PROVE  /\ heap \in Seq(Record) /\ {"TABLE", "LINE", "FILE", "TREE"} = Kinds
           /\ {table, line, file, input, tree} \subseteq DOMAIN heap \cup {NULL} /\ BodyBlocks \subseteq DOMAIN heap
           /\ New \notin DOMAIN heap \cup {NULL} /\ NULL \notin DOMAIN heap
           /\ \A b \in BodyBlocks : heap[b].kind = "TREE" /\ b # tree
           /\ \A b \in {table} \ {NULL} : heap[b].kind = "TABLE"
           /\ \A b \in {line} \ {NULL} : heap[b].kind = "LINE"
           /\ \A b \in {file, input} \ {NULL} : heap[b].kind = "FILE"
           /\ \A b \in {tree} \ {NULL} : heap[b].kind = "TREE"
  <1>1. /\ TypeOK /\ heap \in Seq(Record) /\ {table, line, file, input, tree} \subseteq DOMAIN heap \cup {NULL}
        /\ {"TABLE", "LINE", "FILE", "TREE"} = Kinds
    BY BlocksIn DEF IInv
  <1>2. New \notin DOMAIN heap /\ New # NULL
    BY <1>1, WithIs DEF Kinds
  <1>3. BodyBlocks \subseteq DOMAIN heap /\ \A b \in BodyBlocks : heap[b].kind = "TREE" /\ b # tree
    BY <1>1, EntryIs DEF BodyBlocks, IInv, Bodies
  <1>4. NULL \notin DOMAIN heap
    BY <1>1 DEF NULL
  <1> QED BY <1>1, <1>2, <1>3, <1>4 DEF IInv, Roles, OfKind

\* A definition exchanges the body it replaces for its own.
LEMMA InsertAccounts ==
    ASSUME IInv, NEW name, NEW body, functionListInsert(name, body), NEW S,
           Once(heap), Alive(heap, BodyBlocks \cup S), S \cap BodyBlocks = {}, New \notin S
    PROVE  Once(heap') /\ Alive(heap', BodyBlocks' \cup S)
  <1>0. /\ heap \in Seq(Record) /\ "TREE" \in Kinds /\ BodyBlocks \subseteq DOMAIN heap /\ New \notin DOMAIN heap
        /\ \A b \in BodyBlocks : heap[b].kind = "TREE"
        /\ functions \in Seq(EntryOf(DOMAIN heap))
        /\ \A j, k \in DOMAIN functions : functions[j].block = functions[k].block => j = k
    BY HeldIs, TypeParts DEF IInv, Bodies, Functions, Kinds
  <1>1. /\ With("TREE") \in Seq(Record) /\ DOMAIN With("TREE") = DOMAIN heap \cup {New}
        /\ \A c \in DOMAIN heap : With("TREE")[c] = heap[c]
    BY <1>0, WithIs
  <1>2. Once(With("TREE")) /\ Alive(With("TREE"), BodyBlocks \cup S \cup {New})
    BY <1>0, WithAlive
  <1>3. ASSUME NEW k \in Entries(name), functions' = [functions EXCEPT ![k] = Entry(name, New, body)],
               heap' = Free(With("TREE"), functions[k].block)
        PROVE  Once(heap') /\ Alive(heap', BodyBlocks' \cup S)
    <2> DEFINE old == functions[k].block
    <2>1. k \in DOMAIN functions /\ old \in BodyBlocks
      BY DEF Entries, BodyBlocks
    <2>2. BodyBlocks' = (BodyBlocks \ {old}) \cup {New}
      <3>1. DOMAIN functions' = DOMAIN functions /\ functions'[k].block = New
        BY <1>0, <1>3, <2>1 DEF Entry
      <3>2. \A j \in DOMAIN functions : j # k => functions'[j] = functions[j] /\ functions[j].block # old
        BY <1>0, <1>3, <2>1
      <3> QED BY <2>1, <3>1, <3>2 DEF BodyBlocks
    <2>3. With("TREE")[old].kind = "TREE" /\ old \in DOMAIN With("TREE")
      BY <1>0, <1>1, <2>1
    <2> HIDE DEF old
    <2>4. Once(heap') /\ Alive(heap', (BodyBlocks \cup S \cup {New}) \ {old})
      <3>1. heap' = Free(With("TREE"), old)
        BY <1>3 DEF old
      <3> DEFINE h == With("TREE")  T == BodyBlocks \cup S \cup {New}
      <3>2. h \in Seq(Record) /\ old \in DOMAIN h \cup {NULL} /\ Alive(h, T) /\ Once(h) /\ h[old].kind = "TREE"
        BY <1>1, <1>2, <2>3
      <3> HIDE DEF h, T
      <3>3. Alive(Free(h, old), T \ {old}) /\ Once(Free(h, old))
        BY <3>2, FreeAlive
      <3> QED BY <3>1, <3>3 DEF h, T
    <2>5. old \notin S /\ old # New
      BY <1>0, <2>1
    <2>6. (BodyBlocks \cup S \cup {New}) \ {old} = BodyBlocks' \cup S
      BY <2>2, <2>5
    <2> QED BY <2>4, <2>6
  <1>4. CASE functions' = Prepended(name, New, body) /\ heap' = With("TREE")
    <2>1. /\ Len(functions') = Len(functions) + 1 /\ functions'[1].block = New
          /\ functions' \in Seq({Entry(name, New, body)} \cup EntryOf(DOMAIN heap))
          /\ \A k \in DOMAIN functions : functions'[k + 1] = functions[k]
          /\ \A k \in 2..Len(functions) + 1 : k - 1 \in DOMAIN functions /\ functions'[k] = functions[k - 1]
      <3>1. functions \in Seq({Entry(name, New, body)} \cup EntryOf(DOMAIN heap))
        BY <1>0, SeqMono
      <3>2. Entry(name, New, body) = [name |-> name, block |-> New, list |-> body]
        BY DEF Entry
      <3> QED BY <1>4, <3>1, <3>2, PrependedIs
    <2>2. DOMAIN functions' = {1} \cup 2..Len(functions) + 1 /\ DOMAIN functions \subseteq Nat
      BY <1>0, <2>1
    <2>3. \A k \in DOMAIN functions : k + 1 \in DOMAIN functions'
      BY <1>0, <2>1
    <2>4. BodyBlocks' = BodyBlocks \cup {New}
      BY <2>1, <2>2, <2>3 DEF BodyBlocks
    <2>5. BodyBlocks \cup S \cup {New} = BodyBlocks' \cup S
      BY <2>4
    <2> QED BY <1>2, <1>4, <2>5
  <1> QED BY <1>3, <1>4 DEF functionListInsert

LEMMA AccountsStep == IInv /\ Accounts /\ [Next]_vars => Accounts'
  <1> SUFFICES ASSUME IInv, Accounts, [Next]_vars, mode' = "INTERACTIVE" PROVE Accounts'
    BY DEF Accounts
  <1>0. /\ heap \in Seq(Record) /\ {"TABLE", "LINE", "FILE", "TREE"} = Kinds
        /\ {table, line, file, input, tree} \subseteq DOMAIN heap \cup {NULL} /\ BodyBlocks \subseteq DOMAIN heap
        /\ New \notin DOMAIN heap \cup {NULL} /\ NULL \notin DOMAIN heap
        /\ \A b \in BodyBlocks : heap[b].kind = "TREE" /\ b # tree
        /\ \A b \in {table} \ {NULL} : heap[b].kind = "TABLE"
        /\ \A b \in {line} \ {NULL} : heap[b].kind = "LINE"
        /\ \A b \in {file, input} \ {NULL} : heap[b].kind = "FILE"
        /\ \A b \in {tree} \ {NULL} : heap[b].kind = "TREE"
    BY HeldIs
  <1>1. mode = "INTERACTIVE"
    BY DEF Next, vars, populateEnvTable, readline, OpenInput, ResetLexer, parserReset, analyze,
           LineRejected, LineDone, Release, executeFunctionDefinition, DefinitionFails,
           executeSimpleCommandNode, ReturnFromList, Dies, Cleanup, CloseInput, mainReturns
  <1>2. /\ Once(heap) /\ (pc # "DEAD" => Alive(heap, Held))
        /\ pc = "IMPORT" => table = NULL
        /\ pc # "FCLOSE" /\ (pc \in {"RETURN", "DONE"} => input = NULL)
        /\ pc = "DONE" => table = NULL
    BY <1>1 DEF Accounts
  <1>3. ASSUME Once(heap'), Alive(heap', Held'), pc' \notin {"FCLOSE", "IMPORT", "RETURN", "DONE"}
        PROVE  Accounts'
    BY <1>3 DEF Accounts, Alive, Once
  <1>w. ASSUME NEW kind \in Kinds, pc # "DEAD"
        PROVE  Once(With(kind)) /\ Alive(With(kind), Held \cup {New}) /\ DOMAIN With(kind) = DOMAIN heap \cup {New}
               /\ With(kind) \in Seq(Record)
    BY <1>0, <1>2, <1>w, WithAlive, WithIs
  <1>f. ASSUME NEW b \in DOMAIN heap \cup {NULL}, b \in Held \cup {NULL} \/ heap[b].kind = "TREE", pc # "DEAD"
        PROVE  Once(Free(heap, b)) /\ Alive(Free(heap, b), Held \ {b}) /\ DOMAIN Free(heap, b) = DOMAIN heap
               /\ Free(heap, b) \in Seq(Record)
    BY <1>0, <1>2, <1>f, FreeAlive, FreeIs
  <1>h. ASSUME NEW kind \in Kinds, pc # "DEAD"
        PROVE  Once(Free(With(kind), New)) /\ Alive(Free(With(kind), New), Held)
               /\ DOMAIN Free(With(kind), New) = DOMAIN heap \cup {New}
    <2> DEFINE h == With(kind)  T == Held \cup {New}  n == New
    <2>1. h \in Seq(Record) /\ n \in DOMAIN h \cup {NULL} /\ Alive(h, T) /\ Once(h) /\ n \in T
      BY <1>w, <1>h
    <2> HIDE DEF h, T, n
    <2>2. Alive(Free(h, n), T \ {n}) /\ Once(Free(h, n)) /\ DOMAIN Free(h, n) = DOMAIN h
      BY <2>1, FreeAlive, FreeIs
    <2>3. New \notin Held
      BY <1>0 DEF Held
    <2>4. (Held \cup {New}) \ {New} = Held
      BY <2>3
    <2> QED BY <2>2, <2>4, <1>w, <1>h DEF h, T, n
  <1>4. CASE populateEnvTable
    <2>1. pc = "IMPORT" /\ pc' = "READLINE" /\ UNCHANGED <<input, functions>>
      BY <1>1, <1>4 DEF populateEnvTable
    <2>2. Held = {NULL, input} \cup BodyBlocks /\ BodyBlocks' = BodyBlocks
      BY <1>2, <2>1 DEF Held, BodyBlocks
    <2>3. CASE heap' = With("TABLE") /\ table' = New
      <3>1. Held' = {New, input} \cup BodyBlocks /\ DOMAIN heap' = DOMAIN heap \cup {New}
        BY <1>0, <1>w, <2>1, <2>2, <2>3 DEF Held
      <3>2. Alive(heap', Held \cup {New}) /\ Once(heap')
        BY <1>0, <1>w, <2>1, <2>3
      <3>3. \A b \in DOMAIN heap' : b \in Held \cup {New} <=> b \in Held'
        BY <1>0, <2>2, <3>1
      <3> QED BY <1>3, <2>1, <3>2, <3>3, AliveSame
    <2>4. CASE heap' = Free(With("TABLE"), New) /\ table' = NULL
      <3>1. Held' = Held /\ Alive(heap', Held) /\ Once(heap')
        BY <1>0, <1>h, <2>1, <2>2, <2>4 DEF Held
      <3> QED BY <1>3, <2>1, <3>1
    <2> QED BY <1>4, <2>3, <2>4 DEF populateEnvTable
  <1>5. CASE readline
    <2>1. pc = "READLINE" /\ UNCHANGED <<table, input, functions, file, tree>> /\ BodyBlocks' = BodyBlocks
      BY <1>5 DEF readline, BodyBlocks
    <2>2. CASE lines = <<>>
      <3>1. Held' = Held /\ heap' = heap /\ pc' = "CLEANUP"
        BY <1>5, <2>1, <2>2 DEF readline, Held
      <3> QED BY <1>2, <1>3, <2>1, <3>1
    <2>3. CASE lines # <<>> /\ Head(lines) = Empty
      <3>1. Held' = Held /\ heap' = Free(With("LINE"), New) /\ pc' = "READLINE"
        BY <1>5, <2>1, <2>3 DEF readline, Held
      <3>2. Alive(heap', Held) /\ Once(heap')
        BY <1>0, <1>h, <2>1, <3>1
      <3> QED BY <1>3, <3>1, <3>2
    <2>4. CASE lines # <<>> /\ Head(lines) # Empty
      <3>1. heap' = With("LINE") /\ pc' = "OPEN" /\ line' = New
        BY <1>5, <2>4 DEF readline
      <3>2. Held' = Held \cup {New}
        BY <2>1, <3>1 DEF Held
      <3>3. Alive(heap', Held \cup {New}) /\ Once(heap')
        BY <1>0, <1>w, <2>1, <3>1
      <3> QED BY <1>3, <3>1, <3>2, <3>3
    <2> QED BY <2>2, <2>3, <2>4
  <1>6. CASE OpenInput
    <2>1. pc = "OPEN" /\ UNCHANGED <<table, input, functions, line, tree>> /\ BodyBlocks' = BodyBlocks
      BY <1>6 DEF OpenInput, BodyBlocks
    <2>2. CASE heap' = With("FILE") /\ file' = New /\ pc' = "RESET"
      <3>1. Held' = Held \cup {New}
        BY <2>1, <2>2 DEF Held
      <3>2. Alive(heap', Held \cup {New}) /\ Once(heap')
        BY <1>0, <1>w, <2>1, <2>2
      <3> QED BY <1>3, <2>2, <3>1, <3>2
    <2>3. CASE heap' = Free(heap, line) /\ pc' = "READLINE"
      <3>1. Held = {table, input, line} \cup BodyBlocks /\ Held' = {table, input} \cup BodyBlocks
        BY <2>1, <2>3 DEF Held
      <3>2. Alive(heap', Held \ {line}) /\ Once(heap') /\ DOMAIN heap' = DOMAIN heap
        BY <1>0, <1>f, <2>1, <2>3, <3>1
      <3>3. \A b \in DOMAIN heap' : b \in Held \ {line} <=> b \in Held'
        BY <1>0, <3>1, <3>2
      <3> QED BY <1>3, <2>3, <3>2, <3>3, AliveSame
    <2> QED BY <1>1, <1>6, <2>2, <2>3 DEF OpenInput
  <1>7. CASE ResetLexer
    <2>1. /\ pc = "RESET" /\ pc' = "PRIME" /\ input' = file /\ heap' = Free(heap, input)
          /\ UNCHANGED <<table, functions, line, file, tree>> /\ BodyBlocks' = BodyBlocks
      BY <1>7 DEF ResetLexer, lexerReset, BodyBlocks
    <2>2. file # input
      BY <1>1, <2>1 DEF IInv, Reads
    <2>3. Held = {table, input, line, file} \cup BodyBlocks /\ Held' = {table, line, file} \cup BodyBlocks
      BY <2>1 DEF Held
    <2>4. Alive(heap', Held \ {input}) /\ Once(heap') /\ DOMAIN heap' = DOMAIN heap
      BY <1>0, <1>f, <2>1, <2>3
    <2>5. \A b \in DOMAIN heap' : b \in Held \ {input} <=> b \in Held'
      BY <1>0, <2>2, <2>3, <2>4
    <2> QED BY <1>3, <2>1, <2>4, <2>5, AliveSame
  <1>8. CASE parserReset
    <2>1. pc = "PRIME" /\ UNCHANGED <<table, functions, line, file>> /\ BodyBlocks' = BodyBlocks
      BY <1>8 DEF parserReset, BodyBlocks
    <2>2. Held = {table, input, line} \cup BodyBlocks
      BY <2>1 DEF Held
    <2>3. CASE heap' = With("TREE") /\ tree' = New /\ pc' = "ANALYZE" /\ input' = input
      <3>1. Held' = Held \cup {New}
        BY <2>1, <2>2, <2>3 DEF Held
      <3>2. Alive(heap', Held \cup {New}) /\ Once(heap')
        BY <1>0, <1>w, <2>1, <2>3
      <3> QED BY <1>3, <2>3, <3>1, <3>2
    <2>4. CASE heap' = Free(heap, line) /\ pc' = "READLINE" /\ input' = input
      <3>1. Held' = {table, input} \cup BodyBlocks
        BY <2>1, <2>4 DEF Held
      <3>2. Alive(heap', Held \ {line}) /\ Once(heap') /\ DOMAIN heap' = DOMAIN heap
        BY <1>0, <1>f, <2>1, <2>2, <2>4
      <3>3. \A b \in DOMAIN heap' : b \in Held \ {line} <=> b \in Held'
        BY <1>0, <2>2, <3>1, <3>2
      <3> QED BY <1>3, <2>4, <3>2, <3>3, AliveSame
    <2> QED BY <1>1, <1>8, <2>3, <2>4 DEF parserReset
  <1>9. CASE analyze
    <2>1. pc = "ANALYZE" /\ UNCHANGED <<table, functions, line, file, input, tree>> /\ BodyBlocks' = BodyBlocks
      BY <1>9 DEF analyze, BodyBlocks
    <2>2. Held = {table, input, line, tree} \cup BodyBlocks
      BY <2>1 DEF Held
    <2>3. CASE heap' = Free(heap, tree) /\ pc' = "REJECT"
      <3>1. Held' = {table, input, line} \cup BodyBlocks
        BY <2>1, <2>3 DEF Held
      <3>2. Alive(heap', Held \ {tree}) /\ Once(heap') /\ DOMAIN heap' = DOMAIN heap
        BY <1>0, <1>f, <2>1, <2>2, <2>3
      <3>3. \A b \in DOMAIN heap' : b \in Held \ {tree} <=> b \in Held'
        BY <1>0, <2>2, <3>1, <3>2
      <3> QED BY <1>3, <2>3, <3>2, <3>3, AliveSame
    <2>4. CASE heap' = heap /\ pc' = "RUN"
      <3>1. Held' = Held
        BY <2>1, <2>2, <2>4 DEF Held
      <3> QED BY <1>2, <1>3, <2>1, <2>4, <3>1
    <2> QED BY <1>9, <2>3, <2>4 DEF analyze
  <1>10. CASE LineRejected \/ LineDone
    <2>1. /\ pc \in {"REJECT", "RUN"} /\ pc' \in {"READLINE", "CLEANUP"} /\ heap' = Free(Free(heap, tree), line)
          /\ UNCHANGED <<table, functions, file, input, tree>> /\ BodyBlocks' = BodyBlocks
      BY <1>1, <1>10 DEF LineRejected, LineDone, Release, BodyBlocks
    <2>2. /\ {table, input, line} \cup BodyBlocks \subseteq Held /\ Held \subseteq {table, input, line, tree} \cup BodyBlocks
          /\ Held' = {table, input} \cup BodyBlocks
      BY <2>1 DEF Held
    <2> DEFINE h == Free(heap, tree)  T == Held \ {tree}
    <2>3. Alive(h, T) /\ Once(h) /\ DOMAIN h = DOMAIN heap /\ h \in Seq(Record)
      BY <1>0, <1>f, <2>1
    <2>4. line \in T \cup {NULL} /\ line \in DOMAIN h \cup {NULL}
      BY <1>0, <2>2, <2>3
    <2>5. heap' = Free(h, line)
      BY <2>1
    <2> HIDE DEF h, T
    <2>6. Alive(heap', T \ {line}) /\ Once(heap') /\ DOMAIN heap' = DOMAIN h
      BY <2>3, <2>4, <2>5, FreeAlive, FreeIs
    <2>7. \A b \in DOMAIN heap' : b \in T \ {line} <=> b \in Held'
      BY <1>0, <2>2, <2>3, <2>6 DEF T
    <2> QED BY <1>3, <2>1, <2>6, <2>7, AliveSame
  <1>11. CASE executeFunctionDefinition
    <2>1. pc = "RUN" /\ UNCHANGED <<pc, table, line, file, input, tree>> /\ functionListInsert(Command.name, Command.body)
      BY <1>11 DEF executeFunctionDefinition, RunsNext, Running
    <2> DEFINE S == {table, input, line, tree}
    <2>2. Held = BodyBlocks \cup S /\ Held' = BodyBlocks' \cup S
      BY <2>1 DEF Held
    <2>3. S \cap BodyBlocks = {} /\ New \notin S
      BY <1>0
    <2>4. Alive(heap, BodyBlocks \cup S) /\ Once(heap)
      BY <1>2, <2>1, <2>2
    <2> HIDE DEF S
    <2>5. Once(heap') /\ Alive(heap', BodyBlocks' \cup S)
      BY <2>1, <2>3, <2>4, InsertAccounts
    <2> QED BY <1>3, <2>1, <2>2, <2>5
  <1>12. CASE DefinitionFails \/ executeSimpleCommandNode \/ ReturnFromList \/ UNCHANGED vars
    <2>1. UNCHANGED <<pc, heap, table, line, file, input, tree, functions>>
      BY <1>12 DEF DefinitionFails, executeSimpleCommandNode, ReturnFromList, vars
    <2>2. Held' = Held
      BY <2>1 DEF Held, BodyBlocks
    <2> QED BY <1>2, <2>1, <2>2 DEF Accounts, Once, Alive
  <1>13. CASE Dies
    BY <1>2, <1>13 DEF Dies, Accounts, Once
  <1>14. CASE Cleanup
    <2>1. /\ pc = "CLEANUP" /\ pc' = "RETURN" /\ heap' = Free(heap, input) /\ input' = NULL
          /\ UNCHANGED <<table, functions>> /\ BodyBlocks' = BodyBlocks
      BY <1>14 DEF Cleanup, BodyBlocks
    <2>2. Held = {table, input} \cup BodyBlocks /\ Held' = {table, NULL} \cup BodyBlocks
      BY <2>1 DEF Held
    <2>3. Alive(heap', Held \ {input}) /\ Once(heap') /\ DOMAIN heap' = DOMAIN heap
      BY <1>0, <1>f, <2>1, <2>2
    <2>4. \A b \in DOMAIN heap' : b \in Held \ {input} <=> b \in Held'
      BY <1>0, <2>2, <2>3
    <2>5. Alive(heap', Held')
      BY <2>3, <2>4, AliveSame
    <2> QED BY <2>1, <2>3, <2>5 DEF Accounts, Once, Alive
  <1>15. CASE CloseInput
    BY <1>2, <1>15 DEF CloseInput
  <1>16. CASE mainReturns
    <2>1. /\ pc = "RETURN" /\ pc' = "DONE" /\ heap' = Free(heap, table) /\ table' = NULL
          /\ UNCHANGED <<input, functions>> /\ BodyBlocks' = BodyBlocks /\ input = NULL
      BY <1>2, <1>16 DEF mainReturns, hashTableDtor, BodyBlocks
    <2>2. Held = {table, NULL} \cup BodyBlocks /\ Held' = {NULL} \cup BodyBlocks
      BY <2>1 DEF Held
    <2>3. Alive(heap', Held \ {table}) /\ Once(heap') /\ DOMAIN heap' = DOMAIN heap
      BY <1>0, <1>f, <2>1, <2>2
    <2>4. \A b \in DOMAIN heap' : b \in Held \ {table} <=> b \in Held'
      BY <1>0, <2>2, <2>3
    <2>5. Alive(heap', Held')
      BY <2>3, <2>4, AliveSame
    <2> QED BY <2>1, <2>3, <2>5 DEF Accounts, Once, Alive
  <1> QED BY <1>4, <1>5, <1>6, <1>7, <1>8, <1>9, <1>10, <1>11, <1>12, <1>13, <1>14, <1>15, <1>16 DEF Next

\* A session at a terminal has one FILE open between lines, frees everything once but the tree of
\* a rejected line, and leaves the function bodies (free, lexerReset, parserDtor and hashTableDtor
\* on every path of runInteractive and main).
THEOREM SessionFreesAll == Spec => []AllFreed
  <1>1. Init => Accounts
    BY DEF Init, Accounts, Once, Alive, Held, BodyBlocks
  <1>2. IInv /\ Accounts => AllFreed
    <2> SUFFICES ASSUME IInv, Accounts, mode = "INTERACTIVE" PROVE AllFreed
      BY DEF AllFreed
    <2>1. Once(heap) /\ (pc # "DEAD" => Alive(heap, Held))
      BY DEF Accounts
    <2>2. ASSUME pc \notin {"RESET", "DEAD"}, NEW a \in DOMAIN heap, heap[a].kind = "FILE", Live(a) PROVE a = input
      <3>1. a \in {table, input, line, tree} \cup BodyBlocks
        BY <2>1, <2>2 DEF Alive, Live, Held
      <3> QED BY <2>2, <3>1, HeldIs
    <2>3. ASSUME pc = "DONE", NEW b \in DOMAIN heap PROVE Live(b) <=> \E f \in ToSet(functions) : f.block = b
      <3>1. Held = {NULL} \cup BodyBlocks /\ b # NULL
        BY <2>3, HeldIs DEF Accounts, Held
      <3> QED BY <2>1, <2>3, <3>1 DEF Alive, Live, BodyBlocks, ToSet
    <2>4. ASSUME pc \notin {"RESET", "DEAD"}, NEW a \in DOMAIN heap, NEW b \in DOMAIN heap,
                 {heap[a].kind, heap[b].kind} = {"FILE"}, Live(a), Live(b)
          PROVE  a = b
      BY <2>2, <2>4
    <2> QED BY <2>1, <2>3, <2>4 DEF AllFreed, Once
  <1> QED BY <1>1, <1>2, AccountsStep, MemoryInvariant, PTL DEF Spec
=============================================================================
