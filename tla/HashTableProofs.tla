-------------------------- MODULE HashTableProofs ---------------------------
(***************************************************************************)
(* Theorems about module HashTable, for every set of names and values,     *)
(* every pair of hash functions, every list of capacities and every width  *)
(* of the probe's sum.                                                     *)
(***************************************************************************)
EXTENDS HashTable, FiniteSetTheorems, TLAPS

-----------------------------------------------------------------------------
(* Probing, in tables no operation is at work on.                            *)

\* The way of k leads to slot x.
Reaches(d, c, k, x) ==
    \E i \in 0..(c - 1) : Probe(c, k, i) = x /\ \A j \in 0..(i - 1) : ~Stops(d, c, k, j)

WellFormed(d, c) ==
    /\ c \in Nat \ {0, 1}
    /\ d \in [0..(c - 1) -> Slot]
    /\ \A x \in 0..(c - 1) : d[x].state = "FULL" => d[x].key \in Key /\ Reaches(d, c, d[x].key, x)

LEMMA ModRange == \A a \in Nat, c \in Nat \ {0} : a % c \in 0..(c - 1)
  BY SMT

\* A probe stays in the table, whatever the width of the sum.
LEMMA ProbeInTable ==
  ASSUME NEW c \in Nat \ {0, 1}, NEW k \in Key, NEW i \in Nat
  PROVE  Probe(c, k, i) \in 0..(c - 1)
<1> DEFINE base == Hash1[k] % c
           step == (Hash2[k] % (c - 1)) + 1
           sum == (base + i * step) % Modulus
<1>1. base \in Nat
  <2>1. Hash1[k] \in Nat BY TableAssumption
  <2> QED BY <2>1, ModRange
<1>2. step \in Nat
  <2>1. Hash2[k] \in Nat /\ c - 1 \in Nat \ {0} BY TableAssumption
  <2>2. Hash2[k] % (c - 1) \in 0..(c - 1 - 1) BY <2>1, ModRange
  <2> QED BY <2>2
<1>3. sum \in Nat
  <2> HIDE DEF base, step
  <2>1. i * step \in Nat BY <1>2
  <2>2. base + i * step \in Nat BY <1>1, <2>1
  <2>3. Modulus \in Nat \ {0} BY TableAssumption
  <2> QED BY <2>2, <2>3, ModRange
<1>4. sum % c \in 0..(c - 1)
  <2> HIDE DEF sum
  <2> QED BY <1>3, ModRange
<1> QED BY <1>4 DEF Probe

\* A name that is in the table is found in its slot and nowhere else.
LEMMA FindsItem ==
  ASSUME NEW d, NEW c, WellFormed(d, c), NEW y \in 0..(c - 1), d[y].state = "FULL"
  PROVE  /\ Finds(d, c, d[y].key, y)
         /\ \A x : Finds(d, c, d[y].key, x) => x = y
<1> DEFINE k == d[y].key
<1>1. c \in Nat \ {0, 1} BY DEF WellFormed
<1>2. PICK i \in 0..(c - 1) : Probe(c, k, i) = y /\ \A j \in 0..(i - 1) : ~Stops(d, c, k, j)
  BY DEF WellFormed, Reaches
<1>3. Stops(d, c, k, i) BY <1>2 DEF Stops
<1> HIDE DEF k
<1>4. Finds(d, c, k, y)
  BY <1>2, <1>3 DEF Finds
<1>5. ASSUME NEW x, Finds(d, c, k, x) PROVE x = y
  <2>1. ~ \A j \in 0..(c - 1) : ~Stops(d, c, k, j) BY <1>3
  <2>2. PICK h \in 0..(c - 1) :
           /\ Stops(d, c, k, h)
           /\ \A j \in 0..(h - 1) : ~Stops(d, c, k, j)
           /\ d[Probe(c, k, h)].state = "FULL" => x = Probe(c, k, h)
    BY <1>5, <2>1 DEF Finds
  <2>3. h = i BY <1>1, <1>2, <1>3, <2>2
  <2> QED BY <1>2, <2>2, <2>3
<1> QED BY <1>4, <1>5 DEF k

\* The slot found for k is the first visit of its way to that slot, and holds k or no item.
LEMMA FoundSlot ==
  ASSUME NEW d, NEW c, WellFormed(d, c), NEW k \in Key, NEW x \in 0..(c - 1), Finds(d, c, k, x)
  PROVE  /\ \E i \in 0..(c - 1) :
               /\ Probe(c, k, i) = x
               /\ \A j \in 0..(i - 1) : ~Stops(d, c, k, j) /\ Probe(c, k, j) # x
         /\ d[x].state = "FULL" => d[x].key = k
<1>1. c \in Nat \ {0, 1} BY DEF WellFormed
<1>2. x # -1 BY <1>1
<1>3. PICK i \in 0..(c - 1) :
         LET passed == {j \in 0..(i - 1) : d[Probe(c, k, j)].state = "DELETED"}
         IN  /\ Stops(d, c, k, i)
             /\ \A j \in 0..(i - 1) : ~Stops(d, c, k, j)
             /\ IF d[Probe(c, k, i)].state = "FULL" \/ passed = {}
                THEN x = Probe(c, k, i)
                ELSE \E j \in passed : (\A h \in passed : j <= h) /\ x = Probe(c, k, j)
  BY <1>2 DEF Finds
<1>4. CASE x = Probe(c, k, i)
  BY <1>3, <1>4 DEF Stops
<1>5. CASE x # Probe(c, k, i)
  <2>1. PICK j \in 0..(i - 1) :
           /\ d[Probe(c, k, j)].state = "DELETED" /\ x = Probe(c, k, j)
           /\ \A h \in 0..(i - 1) : d[Probe(c, k, h)].state = "DELETED" => j <= h
    BY <1>3, <1>5
  <2>2. j \in 0..(c - 1) /\ \A h \in 0..(j - 1) : ~Stops(d, c, k, h) /\ Probe(c, k, h) # x
    BY <1>1, <1>3, <2>1
  <2> QED BY <2>1, <2>2
<1> QED BY <1>4, <1>5

\* The table d with slot x set to s.
Put(d, x, s) == [d EXCEPT ![x] = s]

\* Storing an item for k in the slot found for k leaves a well-formed table.
LEMMA Stored ==
  ASSUME NEW d, NEW c, WellFormed(d, c), NEW k \in Key, NEW v \in Value \cup {Unset},
         NEW x \in 0..(c - 1), Finds(d, c, k, x)
  PROVE  /\ WellFormed(Put(d, x, Full(k, v)), c)
         /\ Items(Put(d, x, Full(k, v))) = Items(d) \cup {x}
<1> DEFINE e == Put(d, x, Full(k, v))
<1>1. c \in Nat \ {0, 1} /\ d \in [0..(c - 1) -> Slot] BY DEF WellFormed
<1>2. Full(k, v) \in Slot /\ Full(k, v).state = "FULL" /\ Full(k, v).key = k
  BY DEF Full, Slot
<1>3. /\ e \in [0..(c - 1) -> Slot]
      /\ e[x] = Full(k, v)
      /\ \A y \in 0..(c - 1) : y # x => e[y] = d[y]
  BY <1>1, <1>2 DEF Put
<1>4. ASSUME NEW y \in 0..(c - 1), d[y].state = "FULL", d[y].key = k
      PROVE  y = x
  BY <1>4, FindsItem
<1> HIDE DEF e
<1>5. Reaches(e, c, k, x)
  <2>1. PICK i \in 0..(c - 1) :
           /\ Probe(c, k, i) = x
           /\ \A j \in 0..(i - 1) : ~Stops(d, c, k, j) /\ Probe(c, k, j) # x
    BY FoundSlot
  <2>2. \A j \in 0..(i - 1) : Probe(c, k, j) \in 0..(c - 1) BY <1>1, ProbeInTable
  <2>3. \A j \in 0..(i - 1) : ~Stops(e, c, k, j) BY <1>3, <2>1, <2>2 DEF Stops
  <2> QED BY <2>1, <2>3 DEF Reaches
<1>6. ASSUME NEW y \in 0..(c - 1), y # x, d[y].state = "FULL"
      PROVE  d[y].key \in Key /\ Reaches(e, c, d[y].key, y)
  <2> DEFINE q == d[y].key
  <2>1. q \in Key /\ Reaches(d, c, q, y) BY <1>6 DEF WellFormed
  <2>2. q # k BY <1>4, <1>6
  <2> HIDE DEF q
  <2>3. PICK i \in 0..(c - 1) : Probe(c, q, i) = y /\ \A j \in 0..(i - 1) : ~Stops(d, c, q, j)
    BY <2>1 DEF Reaches
  <2>4. ASSUME NEW j \in 0..(i - 1) PROVE Probe(c, q, j) \in 0..(c - 1)
    <3>1. j \in Nat /\ q \in Key /\ c \in Nat \ {0, 1} BY <1>1, <2>1
    <3> QED BY <3>1, ProbeInTable
  <2>5. \A j \in 0..(i - 1) : ~Stops(e, c, q, j)
    BY <1>2, <1>3, <2>2, <2>3, <2>4 DEF Stops
  <2>6. Reaches(e, c, q, y) BY <2>3, <2>5 DEF Reaches
  <2> QED BY <2>1, <2>6 DEF q
<1>7. \A y \in 0..(c - 1) : e[y].state = "FULL" => e[y].key \in Key /\ Reaches(e, c, e[y].key, y)
  BY <1>2, <1>3, <1>5, <1>6
<1>8. Items(e) = Items(d) \cup {x}
  BY <1>1, <1>2, <1>3 DEF Items
<1> QED BY <1>1, <1>3, <1>7, <1>8 DEF WellFormed, e

\* So does removing an item: a tombstone keeps the ways that led across it.
LEMMA Removed ==
  ASSUME NEW d, NEW c, WellFormed(d, c), NEW x \in 0..(c - 1), d[x].state = "FULL"
  PROVE  /\ WellFormed(Put(d, x, Deleted), c)
         /\ Items(Put(d, x, Deleted)) = Items(d) \ {x}
<1> DEFINE e == Put(d, x, Deleted)
<1>1. c \in Nat \ {0, 1} /\ d \in [0..(c - 1) -> Slot] BY DEF WellFormed
<1>2. Deleted \in Slot /\ Deleted.state = "DELETED" BY DEF Deleted, Slot
<1>3. /\ e \in [0..(c - 1) -> Slot]
      /\ e[x] = Deleted
      /\ \A y \in 0..(c - 1) : y # x => e[y] = d[y]
  BY <1>1, <1>2 DEF Put
<1> HIDE DEF e
<1>4. ASSUME NEW y \in 0..(c - 1), y # x, d[y].state = "FULL"
      PROVE  d[y].key \in Key /\ Reaches(e, c, d[y].key, y)
  <2> DEFINE q == d[y].key
  <2>1. q \in Key /\ Reaches(d, c, q, y) BY <1>4 DEF WellFormed
  <2> HIDE DEF q
  <2>2. PICK i \in 0..(c - 1) : Probe(c, q, i) = y /\ \A j \in 0..(i - 1) : ~Stops(d, c, q, j)
    BY <2>1 DEF Reaches
  <2>3. ASSUME NEW j \in 0..(i - 1) PROVE Probe(c, q, j) \in 0..(c - 1)
    <3>1. j \in Nat
      BY <1>1, <2>2
    <3> QED BY <1>1, <2>1, <3>1, ProbeInTable
  <2>4. \A j \in 0..(i - 1) : ~Stops(e, c, q, j)
    BY <1>2, <1>3, <2>2, <2>3 DEF Stops
  <2>5. Reaches(e, c, q, y) BY <2>2, <2>4 DEF Reaches
  <2> QED BY <2>1, <2>5 DEF q
<1>5. \A y \in 0..(c - 1) : e[y].state = "FULL" => e[y].key \in Key /\ Reaches(e, c, e[y].key, y)
  BY <1>2, <1>3, <1>4
<1>6. Items(e) = Items(d) \ {x}
  BY <1>1, <1>2, <1>3 DEF Items
<1> QED BY <1>1, <1>3, <1>5, <1>6 DEF WellFormed, e

\* A new table has no items.
LEMMA NewTable ==
  ASSUME NEW c \in Nat \ {0, 1}
  PROVE  WellFormed(Fresh(c), c) /\ Items(Fresh(c)) = {}
<1>1. Empty \in Slot /\ Empty.state = "EMPTY" BY DEF Empty, Slot
<1>2. Fresh(c) \in [0..(c - 1) -> Slot] /\ \A x \in 0..(c - 1) : Fresh(c)[x] = Empty
  BY <1>1 DEF Fresh
<1> QED BY <1>1, <1>2 DEF WellFormed, Items

LEMMA ItemsFinite ==
  ASSUME NEW d, NEW c, WellFormed(d, c)
  PROVE  /\ IsFiniteSet(Items(d)) /\ Items(d) \subseteq 0..(c - 1)
         /\ Cardinality(DOMAIN d) = c
<1>1. c \in Nat \ {0, 1} /\ DOMAIN d = 0..(c - 1) BY DEF WellFormed
<1>2. IsFiniteSet(0..(c - 1)) /\ Cardinality(0..(c - 1)) = c BY <1>1, FS_Interval
<1>3. Items(d) \subseteq 0..(c - 1) BY <1>1 DEF Items
<1> QED BY <1>1, <1>2, <1>3, FS_Subset

LEMMA CapacityPrime ==
  ASSUME NEW n \in 1..Len(Capacities)
  PROVE  Capacities[n] \in Nat \ {0, 1} /\ isPrime(Capacities[n])
<1>1. Capacities[n] \in Nat /\ isPrime(Capacities[n]) BY TableAssumption
<1>2. Capacities[n] > 1 BY <1>1 DEF isPrime
<1> QED BY <1>1, <1>2

LEMMA NextCapacity ==
  ASSUME NEW num \in Nat \ {0, 1}, NEW c, hashTableNextPrime(num, c), c # 0
  PROVE  c \in Nat \ {0, 1}
<1>1. CASE num >= LastCapacity
  <2>1. PICK s \in Nat : closestHigherPrime(s, c)
    <3>1. num + 1 \in Nat /\ num * 2 \in Nat OBVIOUS
    <3> QED BY <1>1, <3>1 DEF hashTableNextPrime
  <2>2. c = 2 \/ (s > 2 /\ c \in s..MaxPrime) BY <2>1 DEF closestHigherPrime
  <2> QED BY <2>2, TableAssumption
<1>2. CASE ~(num >= LastCapacity)
  <2>1. PICK n \in 1..Len(Capacities) : c = Capacities[n] BY <1>2 DEF hashTableNextPrime
  <2> QED BY <2>1, CapacityPrime
<1> QED BY <1>1, <1>2

-----------------------------------------------------------------------------
(* The inductive invariant.                                                  *)

HasArg == pc # "idle" => arg.key \in Key /\ arg.value \in Value

AtRest == WellFormed(data, capacity) /\ currentSize = Cardinality(Items(data))

\* The items of the old table that have been moved.
Done == {y \in Items(old) : y < next}

\* The new table holds one item for each that has been moved, and no other name.
Moving ==
    /\ \E n \in Nat \ {0, 1} : WellFormed(old, n) /\ next \in 0..n
    /\ WellFormed(data, capacity)
    /\ currentSize = Cardinality(Items(old))
    /\ Cardinality(Items(data)) = Cardinality(Done)
    /\ \A x \in Items(data) : \E y \in Done : old[y].key = data[x].key

IInv ==
    /\ TypeOK
    /\ HasArg
    /\ pc # "move" => AtRest
    /\ pc = "move" => Moving

LEMMA InitInv == Init => IInv
<1> SUFFICES ASSUME Init PROVE IInv OBVIOUS
<1>1. Capacities[1] \in Nat \ {0, 1} BY CapacityPrime, TableAssumption
<1>2. WellFormed(data, capacity) /\ Items(data) = {} BY <1>1, NewTable DEF Init
<1>3. AtRest BY <1>2, FS_EmptySet DEF AtRest, Init
<1>4. TypeOK BY <1>2 DEF Init, TypeOK, WellFormed, NoData, NoArg, Result
<1> QED BY <1>3, <1>4 DEF IInv, HasArg, Init

\* A failed insert that leaves a well-formed table of the recorded size.
LEMMA FailsInv ==
  ASSUME IInv, NEW st \in Error, NEW d, NEW c, InsertFails(st, d, c),
         WellFormed(d, c), currentSize = Cardinality(Items(d))
  PROVE  IInv'
<1>1. AtRest' BY DEF InsertFails, AtRest
<1>2. TypeOK'
  BY DEF InsertFails, IInv, TypeOK, WellFormed, NoData, NoArg, Result
<1> QED BY <1>1, <1>2 DEF IInv, HasArg, InsertFails

LEMMA InsertBeginsInv ==
  ASSUME IInv, NEW k \in Key, NEW v \in Value, InsertBegins(k, v)
  PROVE  IInv'
<1>1. AtRest' BY DEF IInv, AtRest, InsertBegins
<1>2. TypeOK' BY DEF IInv, TypeOK, InsertBegins
<1>3. HasArg' /\ pc' # "move" BY DEF HasArg, InsertBegins
<1> QED BY <1>1, <1>2, <1>3 DEF IInv

LEMMA ResizeBeginsInv ==
  ASSUME IInv, ResizeBegins
  PROVE  IInv'
<1>1. pc = "resize" /\ AtRest /\ HasArg BY DEF ResizeBegins, IInv
<1>2. PICK c : /\ hashTableNextPrime(capacity, c)
               /\ \/ c = 0 /\ InsertFails("ERROR_INT_OVERFLOW", data, capacity)
                  \/ c # 0 /\ InsertFails("ERROR_MALLOC_FAILURE", data, capacity)
                  \/ /\ c # 0
                     /\ data' = Fresh(c) /\ capacity' = c
                     /\ old' = data /\ next' = 0 /\ pc' = "move"
                     /\ UNCHANGED <<currentSize, arg, res>>
  BY DEF ResizeBegins
<1>3. CASE \E st \in Error : InsertFails(st, data, capacity)
  <2>1. PICK st \in Error : InsertFails(st, data, capacity) BY <1>3
  <2>2. PICK d, e : d = data /\ e = capacity OBVIOUS
  <2>3. InsertFails(st, d, e) /\ WellFormed(d, e) /\ currentSize = Cardinality(Items(d))
    BY <1>1, <2>1, <2>2 DEF AtRest
  <2> QED BY <2>3, FailsInv
<1>4. CASE /\ c # 0
           /\ data' = Fresh(c) /\ capacity' = c
           /\ old' = data /\ next' = 0 /\ pc' = "move"
           /\ UNCHANGED <<currentSize, arg, res>>
  <2>1. c \in Nat \ {0, 1} BY <1>1, <1>2, <1>4, NextCapacity DEF AtRest, WellFormed
  <2>2. WellFormed(Fresh(c), c) /\ Items(Fresh(c)) = {} BY <2>1, NewTable
  <2>3. WellFormed(data', capacity') /\ Items(data') = {} BY <1>4, <2>2
  <2>4. WellFormed(old', capacity) /\ next' \in 0..capacity /\ capacity \in Nat \ {0, 1}
    BY <1>1, <1>4 DEF AtRest, WellFormed
  <2>5. Done' = {} BY <1>4, <2>4, ItemsFinite DEF Done
  <2>6. currentSize' = Cardinality(Items(old')) BY <1>1, <1>4 DEF AtRest
  <2>7. Moving' BY <2>3, <2>4, <2>5, <2>6 DEF Moving
  <2>8. TypeOK' BY <1>4, <2>3, <2>4 DEF TypeOK, IInv, WellFormed
  <2> QED BY <1>4, <2>7, <2>8 DEF IInv, HasArg, ResizeBegins
<1> QED BY <1>2, <1>3, <1>4 DEF Error

LEMMA MoveItemInv ==
  ASSUME IInv, MoveItem
  PROVE  IInv'
<1>1. pc = "move" /\ Moving /\ HasArg /\ next \in DOMAIN old BY DEF MoveItem, IInv
<1>2. PICK n \in Nat \ {0, 1} : WellFormed(old, n) /\ next \in 0..n BY <1>1 DEF Moving
<1>3. /\ WellFormed(data, capacity) /\ capacity \in Nat \ {0, 1} /\ DOMAIN data = 0..(capacity - 1)
      /\ old \in [0..(n - 1) -> Slot] /\ DOMAIN old = 0..(n - 1)
  BY <1>1, <1>2 DEF Moving, WellFormed
<1>4. next \in 0..(n - 1) /\ next + 1 \in 0..n BY <1>1, <1>2, <1>3
<1>5. IsFiniteSet(Items(old)) /\ IsFiniteSet(Items(data)) /\ IsFiniteSet(Done)
  <2>1. IsFiniteSet(Items(old)) /\ IsFiniteSet(Items(data)) BY <1>2, <1>3, ItemsFinite
  <2>2. Done \in SUBSET Items(old) BY DEF Done
  <2> QED BY <2>1, <2>2, FS_Subset
<1>6. Items(old) \subseteq 0..(n - 1) BY <1>2, ItemsFinite
<1>7. ASSUME old[next].state # "FULL", next' = next + 1,
             UNCHANGED <<data, capacity, currentSize, pc, old, arg, res>>
      PROVE  IInv'
  <2>1. next \notin Items(old) BY <1>7 DEF Items
  <2>2. Done' = Done BY <1>4, <1>6, <1>7, <2>1 DEF Done
  <2>3. Moving' BY <1>1, <1>2, <1>4, <1>7, <2>2 DEF Moving
  <2>4. TypeOK' BY <1>4, <1>7 DEF TypeOK, IInv
  <2> QED BY <1>1, <1>7, <2>3, <2>4 DEF IInv, HasArg
<1>8. ASSUME old[next].state = "FULL",
             NEW x \in DOMAIN data, Finds(data, capacity, old[next].key, x),
             data' = [data EXCEPT ![x] = old[next]], next' = next + 1,
             UNCHANGED <<capacity, currentSize, pc, old, arg, res>>
      PROVE  IInv'
  <2> DEFINE k == old[next].key
             v == old[next].value
  <2>1. k \in Key /\ v \in Value \cup {Unset} /\ old[next] = Full(k, v)
    BY <1>2, <1>3, <1>4, <1>8 DEF WellFormed, Slot, Full
  <2>2. x \in 0..(capacity - 1) BY <1>3
  <2> HIDE DEF k, v
  <2>3. PICK d, c, q, w, z : d = data /\ c = capacity /\ q = k /\ w = v /\ z = x OBVIOUS
  <2>4. WellFormed(Put(d, z, Full(q, w)), c) /\ Items(Put(d, z, Full(q, w))) = Items(d) \cup {z}
    <3>1. Finds(d, c, q, z) BY <1>8, <2>3 DEF k
    <3>2. WellFormed(d, c) /\ q \in Key /\ w \in Value \cup {Unset} /\ z \in 0..(c - 1)
      BY <1>3, <2>1, <2>2, <2>3
    <3> QED BY <3>1, <3>2, Stored
  <2>5. data' = Put(d, z, Full(q, w)) BY <1>8, <2>1, <2>3 DEF Put
  <2>6. WellFormed(data', capacity') /\ Items(data') = Items(data) \cup {x}
    BY <1>8, <2>3, <2>4, <2>5
  <2>7. x \notin Items(data)
    <3>1. SUFFICES ASSUME x \in Items(data) PROVE FALSE OBVIOUS
    <3>2. data[x].state = "FULL" /\ d[z].state = "FULL" BY <2>3, <3>1 DEF Items
    <3>3. d[z].key = q BY <1>3, <1>8, <2>1, <2>2, <2>3, <3>2, FoundSlot DEF k
    <3>4. PICK y \in Done : old[y].key = k BY <1>1, <2>3, <3>1, <3>3 DEF Moving
    <3>5. y \in 0..(n - 1) /\ old[y].state = "FULL" /\ y # next
      BY <1>4, <1>6, <3>4 DEF Done, Items
    <3>6. PICK o, m : o = old /\ m = next OBVIOUS
    <3>7. y = m
      <4>1. WellFormed(o, n) /\ m \in 0..(n - 1) /\ o[m].state = "FULL" /\ o[y].state = "FULL" /\ o[y].key = o[m].key
        BY <1>2, <1>4, <1>8, <3>4, <3>5, <3>6 DEF k
      <4>2. Finds(o, n, o[y].key, y) BY <3>5, <4>1, FindsItem
      <4> QED BY <4>1, <4>2, FindsItem
    <3> QED BY <3>5, <3>6, <3>7
  <2>8. Done' = Done \cup {next} /\ next \notin Done
    <3>1. next \in Items(old) BY <1>1, <1>8 DEF Items
    <3>2. \A y \in Items(old) : y < next + 1 <=> y < next \/ y = next BY <1>4, <1>6
    <3>3. Done' = {y \in Items(old) : y < next + 1} BY <1>8 DEF Done, Items
    <3>4. \A y : y \in Done <=> y \in Items(old) /\ y < next BY DEF Done
    <3>5. \A y : y \in Done' <=> y \in Items(old) /\ y < next + 1 BY <3>3
    <3>6. ~(next < next) BY <1>4
    <3>7. \A y : y \in Done' <=> y \in Done \/ y = next BY <3>1, <3>2, <3>4, <3>5
    <3> QED BY <3>4, <3>6, <3>7
  <2>9. Cardinality(Items(data')) = Cardinality(Done')
    <3>1. Cardinality(Items(data) \cup {x}) = Cardinality(Items(data)) + 1
      BY <1>5, <2>7, FS_AddElement
    <3>2. Cardinality(Done \cup {next}) = Cardinality(Done) + 1
      BY <1>5, <2>8, FS_AddElement
    <3> QED BY <1>1, <2>6, <2>8, <3>1, <3>2 DEF Moving
  <2>10. \A y \in Items(data') : \E h \in Done' : old'[h].key = data'[y].key
    <3> SUFFICES ASSUME NEW y \in Items(data') PROVE \E h \in Done' : old'[h].key = data'[y].key
      OBVIOUS
    <3>1. CASE y = x BY <1>3, <1>8, <2>8, <3>1
    <3>2. CASE y # x
      <4>1. y \in Items(data) /\ data'[y] = data[y] BY <1>8, <2>6, <3>2 DEF Items
      <4> QED BY <1>1, <1>8, <2>8, <4>1 DEF Moving
    <3> QED BY <3>1, <3>2
  <2>11. Moving' BY <1>1, <1>2, <1>4, <1>8, <2>6, <2>9, <2>10 DEF Moving
  <2>12. TypeOK' BY <1>4, <1>8, <2>6 DEF TypeOK, IInv, WellFormed
  <2> QED BY <1>1, <1>8, <2>11, <2>12 DEF IInv, HasArg
<1>9. ASSUME InsertFails("ERROR_INDEX_OUT_OF_BOUNDS", old, Cardinality(DOMAIN old))
      PROVE  IInv'
  <2>1. Cardinality(DOMAIN old) = n BY <1>2, ItemsFinite
  <2>2. PICK d : d = old OBVIOUS
  <2>3. InsertFails("ERROR_INDEX_OUT_OF_BOUNDS", d, n) BY <1>9, <2>1, <2>2
  <2>4. WellFormed(d, n) /\ currentSize = Cardinality(Items(d)) BY <1>1, <1>2, <2>2 DEF Moving
  <2> QED BY <2>3, <2>4, FailsInv DEF Error
<1> QED BY <1>7, <1>8, <1>9 DEF MoveItem

LEMMA ResizeEndsInv ==
  ASSUME IInv, ResizeEnds
  PROVE  IInv'
<1>1. pc = "move" /\ Moving /\ next \notin DOMAIN old BY DEF ResizeEnds, IInv
<1>2. PICK n \in Nat \ {0, 1} : WellFormed(old, n) /\ next \in 0..n BY <1>1 DEF Moving
<1>3. next = n BY <1>1, <1>2 DEF WellFormed
<1>4. Items(old) \subseteq 0..(n - 1) BY <1>2, ItemsFinite
<1>5. Done = Items(old)
  <2>1. \A y \in Items(old) : y < next BY <1>3, <1>4
  <2> QED BY <2>1 DEF Done
<1>6. AtRest' BY <1>1, <1>5 DEF ResizeEnds, AtRest, Moving
<1>7. TypeOK' BY DEF ResizeEnds, IInv, TypeOK, NoData
<1> QED BY <1>6, <1>7 DEF IInv, HasArg, ResizeEnds

LEMMA StoreItemInv ==
  ASSUME IInv, StoreItem
  PROVE  IInv'
<1>1. pc = "store" /\ AtRest /\ arg.key \in Key /\ arg.value \in Value
  BY DEF StoreItem, IInv, HasArg
<1>2. WellFormed(data, capacity) /\ DOMAIN data = 0..(capacity - 1) /\ IsFiniteSet(Items(data))
  BY <1>1, ItemsFinite DEF AtRest, WellFormed
<1>3. ASSUME NEW x \in DOMAIN data,
             Finds(data, capacity, arg.key, x),
             data' = [data EXCEPT ![x] = Full(arg.key, arg.value)],
             currentSize' = IF data[x].state = "FULL" THEN currentSize ELSE currentSize + 1,
             pc' = "idle", arg' = NoArg, res' = Result("insert", "SUCCESS", Unset),
             UNCHANGED <<capacity, old, next>>
      PROVE  IInv'
  <2>1. PICK d, c, q, w : d = data /\ c = capacity /\ q = arg.key /\ w = arg.value OBVIOUS
  <2>2. WellFormed(Put(d, x, Full(q, w)), c) /\ Items(Put(d, x, Full(q, w))) = Items(d) \cup {x}
    <3>1. Finds(d, c, q, x) BY <1>3, <2>1
    <3>2. WellFormed(d, c) /\ q \in Key /\ w \in Value \cup {Unset} /\ x \in 0..(c - 1)
      BY <1>1, <1>2, <2>1
    <3> QED BY <3>1, <3>2, Stored
  <2>3. data' = Put(d, x, Full(q, w)) BY <1>3, <2>1 DEF Put
  <2>4. WellFormed(data', capacity') /\ Items(data') = Items(data) \cup {x}
    BY <1>3, <2>1, <2>2, <2>3
  <2>5. currentSize' = Cardinality(Items(data) \cup {x})
    <3>1. x \in Items(data) <=> data[x].state = "FULL" BY DEF Items
    <3> QED BY <1>1, <1>2, <1>3, <3>1, FS_AddElement DEF AtRest
  <2>6. AtRest' BY <2>4, <2>5 DEF AtRest
  <2>7. TypeOK'
    <3>1. currentSize' \in Nat BY <1>3 DEF IInv, TypeOK
    <3> QED BY <1>3, <2>4, <3>1 DEF IInv, TypeOK, WellFormed, NoArg, Result
  <2> QED BY <1>3, <2>6, <2>7 DEF IInv, HasArg
<1>4. ASSUME NEW st \in Error, InsertFails(st, data, capacity)
      PROVE  IInv'
  <2>1. PICK d, c : d = data /\ c = capacity OBVIOUS
  <2>2. InsertFails(st, d, c) /\ WellFormed(d, c) /\ currentSize = Cardinality(Items(d))
    BY <1>1, <1>4, <2>1 DEF AtRest
  <2> QED BY <2>2, FailsInv
<1> QED BY <1>3, <1>4 DEF StoreItem, Error

LEMMA RemoveInv ==
  ASSUME IInv, NEW k \in Key, hashTableRemove(k)
  PROVE  IInv'
<1>1. pc = "idle" /\ AtRest /\ capacity \in Nat
  BY DEF hashTableRemove, IInv, AtRest, WellFormed
<1>2. PICK x \in -1..(capacity - 1) :
         IF x = -1 \/ data[x].state # "FULL" THEN UNCHANGED <<data, currentSize>>
         ELSE /\ data' = [data EXCEPT ![x] = Deleted]
              /\ currentSize' = currentSize - 1
  BY DEF hashTableRemove
<1>3. CASE UNCHANGED <<data, currentSize>>
  <2>1. AtRest' BY <1>1, <1>3 DEF hashTableRemove, AtRest
  <2>2. TypeOK' BY <1>3 DEF hashTableRemove, IInv, TypeOK, Result
  <2> QED BY <1>1, <2>1, <2>2 DEF IInv, HasArg, hashTableRemove
<1>4. CASE /\ x # -1 /\ data[x].state = "FULL"
           /\ data' = [data EXCEPT ![x] = Deleted]
           /\ currentSize' = currentSize - 1
  <2>1. x \in 0..(capacity - 1) BY <1>1, <1>4
  <2>2. PICK d, c : d = data /\ c = capacity OBVIOUS
  <2>3. WellFormed(d, c) /\ x \in 0..(c - 1) /\ d[x].state = "FULL"
    BY <1>1, <1>4, <2>1, <2>2 DEF AtRest
  <2>4. WellFormed(Put(d, x, Deleted), c) /\ Items(Put(d, x, Deleted)) = Items(d) \ {x}
    BY <2>3, Removed
  <2>5. data' = Put(d, x, Deleted) BY <1>4, <2>2 DEF Put
  <2>6. WellFormed(data', capacity') /\ Items(data') = Items(data) \ {x}
    BY <2>2, <2>4, <2>5 DEF hashTableRemove
  <2>7. x \in Items(data) /\ IsFiniteSet(Items(data)) /\ IsFiniteSet(Items(data) \ {x})
    <3>1. IsFiniteSet(Items(data)) BY <1>1, ItemsFinite DEF AtRest
    <3>2. x \in Items(data) BY <1>1, <1>4, <2>1 DEF Items, AtRest, WellFormed
    <3> QED BY <3>1, <3>2, FS_RemoveElement
  <2>8. currentSize' = Cardinality(Items(data) \ {x})
    BY <1>1, <1>4, <2>7, FS_RemoveElement DEF AtRest
  <2>9. currentSize' \in Nat BY <2>7, <2>8, FS_CardinalityType
  <2>10. AtRest' BY <2>6, <2>8 DEF AtRest
  <2>11. TypeOK' BY <2>6, <2>9 DEF hashTableRemove, IInv, TypeOK, WellFormed, Result
  <2> QED BY <1>1, <2>10, <2>11 DEF IInv, HasArg, hashTableRemove
<1> QED BY <1>2, <1>3, <1>4

LEMMA GetValueInv ==
  ASSUME IInv, NEW k \in Key, hashTableGetValue(k)
  PROVE  IInv'
<1>1. AtRest' BY DEF IInv, AtRest, hashTableGetValue
<1>2. TypeOK'
  <2>1. res'.st \in Error \cup {"SUCCESS"} BY DEF hashTableGetValue, Result, Error
  <2> QED BY <2>1 DEF IInv, TypeOK, hashTableGetValue
<1> QED BY <1>1, <1>2 DEF IInv, HasArg, hashTableGetValue

LEMMA NextInv == IInv /\ [Next]_vars => IInv'
<1> SUFFICES ASSUME IInv, [Next]_vars PROVE IInv' OBVIOUS
<1>1. ASSUME NEW k \in Key, NEW v \in Value, hashTableInsert(k, v) PROVE IInv'
  BY <1>1, InsertBeginsInv DEF hashTableInsert
<1>2. ASSUME NEW k \in Key, hashTableRemove(k) PROVE IInv' BY <1>2, RemoveInv
<1>3. ASSUME NEW k \in Key, hashTableGetValue(k) PROVE IInv' BY <1>3, GetValueInv
<1>4. CASE InsertGoesOn
  BY <1>4, ResizeBeginsInv, MoveItemInv, ResizeEndsInv, StoreItemInv DEF InsertGoesOn
<1>5. CASE UNCHANGED vars
  BY <1>5 DEF vars, IInv, TypeOK, HasArg, AtRest, Moving, Done
<1> QED BY <1>1, <1>2, <1>3, <1>4, <1>5 DEF Next

LEMMA Invariance == Spec => []IInv
BY InitInv, NextInv, PTL DEF Spec

-----------------------------------------------------------------------------
(* The theorems.                                                             *)

\* The variables of hash-table.c keep their types; the counter never wraps below zero.
THEOREM TypeCorrect == Spec => []TypeOK
<1>1. IInv => TypeOK BY DEF IInv
<1> QED BY <1>1, Invariance, PTL

\* currentSize, from which buildEnvp (execute.c:346) allocates envp, is the number of
\* items the iterator yields, whatever was inserted, updated, removed or failed.
THEOREM SizeExact == Spec => []EnvpFits
<1>1. IInv => EnvpFits BY DEF IInv, AtRest, Moving, EnvpFits, Current
<1> QED BY <1>1, Invariance, PTL

\* hashTableFindIndex finds every item in its slot, also while the table is being moved.
THEOREM ItemsFindable == Spec => []Findable
<1>1. IInv => Findable
  <2> SUFFICES ASSUME IInv PROVE Findable OBVIOUS
  <2>1. ASSUME NEW d, NEW c, WellFormed(d, c)
        PROVE  /\ Cardinality(DOMAIN d) = c
               /\ \A x \in Items(d) : Finds(d, c, d[x].key, x)
    <3>1. \A x \in Items(d) : x \in 0..(c - 1) /\ d[x].state = "FULL"
      BY <2>1, ItemsFinite DEF Items
    <3> QED BY <2>1, <3>1, FindsItem, ItemsFinite
  <2>2. CASE pc # "move"
    BY <2>1, <2>2 DEF IInv, AtRest, Findable, Current
  <2>3. CASE pc = "move"
    <3>1. PICK n : WellFormed(old, n) BY <2>3 DEF IInv, Moving
    <3>2. WellFormed(data, capacity) BY <2>3 DEF IInv, Moving
    <3> QED BY <2>1, <2>3, <3>1, <3>2 DEF Findable, Current
  <2> QED BY <2>2, <2>3
<1> QED BY <1>1, Invariance, PTL
-----------------------------------------------------------------------------
(* The load factor.  The counter bounds it before an insert, and one item    *)
(* more must still fit when the insert has grown the table.                  *)

Load(size, c) == size > 0 => size * LOAD_FACTOR_DENUM < c * LOAD_FACTOR_NUM

LoadInv ==
    /\ isPrime(capacity)
    /\ pc = "move" => isPrime(Cardinality(DOMAIN old))
    /\ pc \in {"idle", "resize"} => Load(currentSize, capacity)
    /\ pc = "move" => Load(currentSize, Cardinality(DOMAIN old))
    /\ pc \in {"move", "store"} => Load(currentSize + 1, capacity)

\* hashTableNextPrime returns a larger prime, also from the last entry of the list on.
LEMMA NextIsLargerPrime ==
  ASSUME NEW num \in Nat \ {0, 1}, NEW c, hashTableNextPrime(num, c), c # 0
  PROVE  isPrime(c) /\ c \in Nat /\ c > num
<1>1. CASE num >= LastCapacity
  <2>1. PICK s \in Nat : closestHigherPrime(s, c) /\ s > num
    <3>1. num + 1 \in Nat /\ num * 2 \in Nat /\ num + 1 > num /\ num * 2 > num OBVIOUS
    <3> QED BY <1>1, <3>1 DEF hashTableNextPrime
  <2>2. s > 2 BY <2>1
  <2>3. c \in s..MaxPrime /\ isPrime(c) BY <2>1, <2>2 DEF closestHigherPrime
  <2> QED BY <2>1, <2>3, TableAssumption
<1>2. CASE ~(num >= LastCapacity)
  <2>1. PICK n \in 1..Len(Capacities) : c = Capacities[n] /\ c > num BY <1>2 DEF hashTableNextPrime
  <2> QED BY <2>1, CapacityPrime
<1> QED BY <1>1, <1>2

\* From one prime to a larger one the table grows by two slots, or from 2 to 3 or more: that
\* is room for the item the growth was for.
LEMMA GrowthSuffices ==
  ASSUME NEW a \in Nat, NEW b \in Nat, isPrime(a), isPrime(b), a < b,
         NEW size \in Nat, Load(size, a)
  PROVE  Load(size, b) /\ Load(size + 1, b)
<1>1. CASE a = 2
  BY <1>1 DEF Load, LOAD_FACTOR_NUM, LOAD_FACTOR_DENUM
<1>2. CASE a # 2
  <2>1. a >= 3 /\ b > 3 BY <1>2 DEF isPrime
  <2>2. a % 2 = 1 BY <1>2, <2>1 DEF isPrime
  <2>3. b % 2 = 1 BY <2>1 DEF isPrime
  <2>4. b >= a + 2 BY <2>2, <2>3
  <2> QED BY <2>1, <2>4 DEF Load, LOAD_FACTOR_NUM, LOAD_FACTOR_DENUM
<1> QED BY <1>1, <1>2

LEMMA LessLoad ==
  ASSUME NEW c \in Nat, NEW size \in Nat, Load(size + 1, c)
  PROVE  Load(size, c)
BY DEF Load, LOAD_FACTOR_NUM, LOAD_FACTOR_DENUM

LEMMA InitLoad == Init => LoadInv
<1> SUFFICES ASSUME Init PROVE LoadInv OBVIOUS
<1>1. isPrime(capacity) BY CapacityPrime, TableAssumption DEF Init
<1> QED BY <1>1 DEF Init, LoadInv, Load

LEMMA NextLoad ==
  ASSUME IInv, LoadInv, [Next]_vars
  PROVE  LoadInv'
<1>1. capacity \in Nat \ {0, 1} /\ currentSize \in Nat BY DEF IInv, TypeOK
<1>2. ASSUME NEW k \in Key, NEW v \in Value, InsertBegins(k, v) PROVE LoadInv'
  <2>1. CASE Overloaded(currentSize, capacity)
    BY <1>2, <2>1 DEF InsertBegins, LoadInv
  <2>2. CASE ~Overloaded(currentSize, capacity)
    <3>1. Load(currentSize + 1, capacity)
      BY <1>1, <2>2 DEF Overloaded, Load, LOAD_FACTOR_NUM, LOAD_FACTOR_DENUM
    <3> QED BY <1>2, <2>2, <3>1 DEF InsertBegins, LoadInv
  <2> QED BY <2>1, <2>2
<1>3. CASE ResizeBegins
  <2>1. pc = "resize" /\ Load(currentSize, capacity) /\ isPrime(capacity)
    BY <1>3 DEF ResizeBegins, LoadInv
  <2>2. PICK c : /\ hashTableNextPrime(capacity, c)
                 /\ \/ c = 0 /\ InsertFails("ERROR_INT_OVERFLOW", data, capacity)
                    \/ c # 0 /\ InsertFails("ERROR_MALLOC_FAILURE", data, capacity)
                    \/ /\ c # 0
                       /\ data' = Fresh(c) /\ capacity' = c
                       /\ old' = data /\ next' = 0 /\ pc' = "move"
                       /\ UNCHANGED <<currentSize, arg, res>>
    BY <1>3 DEF ResizeBegins
  <2>3. CASE pc' = "idle" /\ capacity' = capacity /\ currentSize' = currentSize
    BY <2>1, <2>3 DEF LoadInv
  <2>4. CASE /\ c # 0
             /\ data' = Fresh(c) /\ capacity' = c
             /\ old' = data /\ next' = 0 /\ pc' = "move"
             /\ UNCHANGED <<currentSize, arg, res>>
    <3>1. isPrime(c) /\ c \in Nat /\ c > capacity BY <1>1, <2>2, <2>4, NextIsLargerPrime
    <3>2. Load(currentSize + 1, c) BY <1>1, <2>1, <3>1, GrowthSuffices
    <3>3. Cardinality(DOMAIN old') = capacity
      <4>1. WellFormed(data, capacity) BY <2>1 DEF IInv, AtRest
      <4> QED BY <2>4, <4>1, ItemsFinite
    <3> QED BY <2>1, <2>4, <3>1, <3>2, <3>3 DEF LoadInv
  <2> QED BY <2>2, <2>3, <2>4 DEF InsertFails
<1>4. CASE MoveItem
  <2>1. pc = "move" BY <1>4 DEF MoveItem
  <2>2. CASE InsertFails("ERROR_INDEX_OUT_OF_BOUNDS", old, Cardinality(DOMAIN old))
    BY <2>1, <2>2 DEF InsertFails, LoadInv
  <2>3. CASE UNCHANGED <<capacity, currentSize, pc, old>>
    BY <2>1, <2>3 DEF LoadInv
  <2> QED BY <1>4, <2>2, <2>3 DEF MoveItem
<1>5. CASE ResizeEnds
  BY <1>5 DEF ResizeEnds, LoadInv
<1>6. CASE StoreItem
  <2>1. pc = "store" /\ Load(currentSize + 1, capacity) /\ isPrime(capacity)
    BY <1>6 DEF StoreItem, LoadInv
  <2>2. Load(currentSize, capacity) BY <1>1, <2>1, LessLoad
  <2>3. pc' = "idle" /\ capacity' = capacity /\ currentSize' \in {currentSize, currentSize + 1}
    BY <1>6 DEF StoreItem, InsertFails
  <2>4. Load(currentSize', capacity') BY <2>1, <2>2, <2>3
  <2> QED BY <2>1, <2>3, <2>4 DEF LoadInv
<1>7. ASSUME NEW k \in Key, hashTableRemove(k) PROVE LoadInv'
  <2>1. pc = "idle" /\ Load(currentSize, capacity) /\ isPrime(capacity)
    BY <1>7 DEF hashTableRemove, LoadInv
  <2>2. pc' = "idle" /\ capacity' = capacity /\ currentSize' \in {currentSize, currentSize - 1}
    BY <1>7, <2>1 DEF hashTableRemove
  <2>3. Load(currentSize - 1, capacity)
    BY <1>1, <2>1 DEF Load, LOAD_FACTOR_NUM, LOAD_FACTOR_DENUM
  <2>4. Load(currentSize', capacity') BY <2>1, <2>2, <2>3
  <2> QED BY <2>1, <2>2, <2>4 DEF LoadInv
<1>8. ASSUME NEW k \in Key, hashTableGetValue(k) PROVE LoadInv'
  BY <1>8 DEF hashTableGetValue, LoadInv
<1>9. CASE UNCHANGED vars
  BY <1>9 DEF vars, LoadInv
<1> QED BY <1>2, <1>3, <1>4, <1>5, <1>6, <1>7, <1>8, <1>9 DEF Next, hashTableInsert, InsertGoesOn

LEMMA LoadInvariance == Spec => []LoadInv
<1>1. IInv /\ LoadInv /\ [Next]_vars => LoadInv' BY NextLoad
<1> QED BY <1>1, InitLoad, Invariance, PTL DEF Spec

\* The load factor of hash-table.c:61 holds between any two operations, whatever failed.
THEOREM LoadFactorKept == Spec => []LoadBelow
<1>1. LoadInv => LoadBelow BY DEF LoadInv, LoadBelow, Load
<1> QED BY <1>1, LoadInvariance, PTL
-----------------------------------------------------------------------------
(* Prime capacities.  isPrime decides by trial division; that a prime has no *)
(* divisor and divides no product of smaller numbers follows by taking the   *)
(* smallest divisor, and the smallest such factor.                           *)

\* A set of numbers has a smallest one.
LEMMA Smallest ==
  ASSUME NEW S \in SUBSET Nat, NEW n \in S
  PROVE  \E m \in S : \A k \in S : m <= k
<1> DEFINE T == {0..m : m \in S}
<1>1. T \subseteq FiniteSubsetsOf(Nat) /\ T # {}
  <2>1. \A m \in S : 0..m \in SUBSET Nat /\ IsFiniteSet(0..m)
    <3> SUFFICES ASSUME NEW m \in S PROVE 0..m \in SUBSET Nat /\ IsFiniteSet(0..m) OBVIOUS
    <3>1. 0 \in Int /\ m \in Int OBVIOUS
    <3> QED BY <3>1, FS_Interval
  <2> QED BY <2>1 DEF FiniteSubsetsOf
<1>2. PICK x \in T : \A y \in T : ~(<<y, x>> \in StrictSubsetOrdering(Nat))
  <2>1. IsWellFoundedOn(StrictSubsetOrdering(Nat), FiniteSubsetsOf(Nat))
    BY FS_StrictSubsetOrderingWellFounded
  <2> HIDE DEF T
  <2> QED BY <1>1, <2>1, WFMin
<1>3. PICK m \in S : x = 0..m BY <1>2
<1>4. ASSUME NEW k \in S, k < m PROVE FALSE
  <2>1. 0..k \in T /\ 0..k \subseteq Nat /\ 0..m \subseteq Nat OBVIOUS
  <2>2. 0..k \subseteq 0..m /\ m \in 0..m /\ m \notin 0..k BY <1>4
  <2>3. <<0..k, 0..m>> \in StrictSubsetOrdering(Nat)
    BY <2>1, <2>2 DEF StrictSubsetOrdering
  <2> QED BY <1>2, <1>3, <2>1, <2>3
<1>5. \A k \in S : m <= k BY <1>4
<1> QED BY <1>5

LEMMA Division ==
  ASSUME NEW a \in Nat, NEW d \in Nat \ {0}
  PROVE  a \div d \in Nat /\ a % d \in 0..(d - 1) /\ a = (d * (a \div d)) + (a % d)
BY SMT

LEMMA Remainder ==
  ASSUME NEW d \in Nat \ {0}, NEW q \in Int, NEW r \in 0..(d - 1), d * q + r \in Nat
  PROVE  (d * q + r) % d = r
<1> DEFINE a == d * q + r
<1>1. PICK h \in Nat, s \in 0..(d - 1) : h = (a \div d) /\ s = (a % d) /\ a = d * h + s
  BY Division
<1>2. d * q + r = d * h + s BY <1>1
<1>3. CASE q < h
  <2>1. q + 1 <= h BY <1>3
  <2>2. d * (q + 1) <= d * h BY <2>1, SMT
  <2>3. d * (q + 1) = d * q + d BY SMT
  <2> QED BY <1>2, <2>2, <2>3
<1>4. CASE h < q
  <2>1. h + 1 <= q BY <1>4
  <2>2. d * (h + 1) <= d * q BY <2>1, SMT
  <2>3. d * (h + 1) = d * h + d BY SMT
  <2> QED BY <1>2, <2>2, <2>3
<1>5. CASE h = q BY <1>1, <1>2, <1>5
<1> QED BY <1>3, <1>4, <1>5

Divides(d, a) == \E q \in Int : a = d * q

LEMMA NoRemainder ==
  ASSUME NEW a \in Nat, NEW d \in Nat \ {0}
  PROVE  a % d = 0 <=> Divides(d, a)
<1>1. ASSUME a % d = 0 PROVE Divides(d, a)
  <2>1. PICK h \in Nat : h = (a \div d) /\ a = d * h + 0 BY <1>1, Division
  <2>2. h \in Int /\ a = d * h BY <2>1, SMT
  <2> QED BY <2>2 DEF Divides
<1>2. ASSUME Divides(d, a) PROVE a % d = 0
  <2>1. PICK q \in Int : a = d * q BY <1>2 DEF Divides
  <2>2. 0 \in 0..(d - 1) /\ d * q + 0 = a BY <2>1, SMT
  <2>3. (d * q + 0) % d = 0 BY <2>2, Remainder
  <2> QED BY <2>2, <2>3
<1> QED BY <1>1, <1>2

LEMMA DividesProduct ==
  ASSUME NEW e \in Int, NEW d \in Int, NEW a \in Int, Divides(e, d), Divides(d, a)
  PROVE  Divides(e, a)
<1>1. PICK q \in Int : d = e * q BY DEF Divides
<1>2. PICK r \in Int : a = d * r BY DEF Divides
<1>3. a = e * (q * r) /\ q * r \in Int BY <1>1, <1>2, SMT
<1> QED BY <1>3 DEF Divides

\* Trial division by numbers of the forms 6n - 1 and 6n + 1 finds every divisor.
LEMMA PrimeHasNoDivisor ==
  ASSUME NEW p \in Nat, isPrime(p), NEW a \in 2..(p - 1), Divides(a, p)
  PROVE  FALSE
<1> DEFINE S == {d \in 2..(p - 1) : Divides(d, p)}
<1>1. PICK d \in S : \A k \in S : d <= k
  <2>1. S \in SUBSET Nat /\ a \in S OBVIOUS
  <2> HIDE DEF S
  <2> QED BY <2>1, Smallest
<1>2. d \in 2..(p - 1) /\ Divides(d, p) OBVIOUS
<1>3. p % d = 0 BY <1>2, NoRemainder
<1>4. PICK q \in Nat : q = (p \div d) /\ p = d * q
  <2>0. d \in Nat \ {0} BY <1>2
  <2>1. PICK h \in Nat : h = (p \div d) /\ p = d * h + 0 BY <2>0, <1>3, Division
  <2> QED BY <2>1, <1>2, SMT
<1>5. q \in S
  <2>1. q > 1
    <3>1. CASE q = 0 BY <1>2, <1>4, <3>1, SMT
    <3>2. CASE q = 1 BY <1>2, <1>4, <3>2, SMT
    <3> QED BY <3>1, <3>2
  <2>2. q < p
    <3>1. 2 * q <= d * q BY <1>2, SMT
    <3> QED BY <1>4, <2>1, <3>1
  <2>3. p = q * d BY <1>2, <1>4, SMT
  <2>4. Divides(q, p) BY <1>2, <2>3 DEF Divides
  <2> QED BY <2>1, <2>2, <2>4
<1>6. d <= q BY <1>1, <1>5
<1>7. p > 3 /\ p % 2 # 0 /\ p % 3 # 0
  <2>1. p # 2 BY <1>2
  <2>2. p # 3
    <3>1. SUFFICES ASSUME p = 3 PROVE FALSE OBVIOUS
    <3>2. d = 2 BY <1>2, <3>1
    <3> QED BY <1>3, <3>1, <3>2
  <2> QED BY <2>1, <2>2 DEF isPrime
<1>8. ASSUME NEW e \in {2, 3} PROVE d % e # 0
  <2>1. SUFFICES ASSUME d % e = 0 PROVE FALSE OBVIOUS
  <2>2. Divides(e, d) BY <1>2, <2>1, NoRemainder
  <2>3. Divides(e, p) BY <1>2, <2>2, DividesProduct
  <2>4. p % e = 0 BY <2>3, NoRemainder
  <2> QED BY <1>7, <2>4
<1>9. d % 6 \in {1, 5} /\ d >= 5
  BY <1>2, <1>8
<1>10. \A m \in {k \in 5..p : k % 6 = 5 /\ k <= p \div k} : p % m # 0 /\ p % (m + 2) # 0
  BY <1>7 DEF isPrime
<1>11. CASE d % 6 = 5
  BY <1>2, <1>3, <1>4, <1>6, <1>9, <1>10, <1>11
<1>12. CASE d % 6 = 1
  <2> DEFINE m == d - 2
  <2>1. m % 6 = 5 /\ m \in 5..p BY <1>2, <1>9, <1>12
  <2>2. m <= p \div m
    <3>0. m \in Nat \ {0} /\ m < d BY <2>1
    <3> HIDE DEF m
    <3>1. PICK h \in Nat, s \in 0..(m - 1) : h = (p \div m) /\ p = m * h + s BY <3>0, Division
    <3>2. SUFFICES ASSUME h < m PROVE FALSE BY <2>1, <3>1
    <3>3. m * h <= m * (m - 1) BY <2>1, <3>2, SMT
    <3>4. m * (m - 1) = m * m - m BY <2>1, SMT
    <3>5. p < m * m BY <2>1, <3>1, <3>3, <3>4
    <3>6. m * m <= m * q /\ m * q <= d * q BY <1>2, <1>6, <3>0, SMT
    <3>7. m * m \in Nat /\ m * q \in Nat /\ d * q \in Nat BY <1>2, <3>0, SMT
    <3> QED BY <1>4, <3>5, <3>6, <3>7
  <2>3. p % (m + 2) # 0 BY <1>10, <2>1, <2>2
  <2>4. m + 2 = d BY <1>2
  <2> QED BY <1>3, <2>3, <2>4
<1> QED BY <1>9, <1>11, <1>12

\* Euclid: a prime divides no product of two numbers below it.
LEMMA PrimeDividesFactor ==
  ASSUME NEW p \in Nat, isPrime(p), NEW a \in 1..(p - 1), NEW b \in 1..(p - 1), Divides(p, a * b)
  PROVE  FALSE
<1> DEFINE S == {x \in 1..(p - 1) : Divides(p, x * b)}
<1>1. PICK x \in S : \A k \in S : x <= k
  <2>1. S \in SUBSET Nat /\ a \in S OBVIOUS
  <2> HIDE DEF S
  <2> QED BY <2>1, Smallest
<1>2. x \in 1..(p - 1) OBVIOUS
<1>3. PICK t \in Int : x * b = p * t BY DEF Divides
<1>4. CASE x = 1
  <2>1. b = p * t BY <1>3, <1>4, SMT
  <2>2. CASE t <= 0
    <3>1. p * t <= 0 BY <2>2, SMT
    <3> QED BY <2>1, <3>1
  <2>3. CASE t >= 1
    <3>1. p * t >= p BY <2>3, SMT
    <3> QED BY <2>1, <3>1
  <2> QED BY <2>2, <2>3
<1>5. CASE x > 1
  <2>0. x \in Nat \ {0} BY <1>2
  <2> HIDE DEF S
  <2>1. PICK q \in Nat, r \in 0..(x - 1) : p = (x * q) + r BY <2>0, Division
  <2>2. CASE r = 0
    <3>1. p = x * q BY <1>2, <2>1, <2>2
    <3>2. Divides(x, p) /\ x \in 2..(p - 1) BY <1>2, <1>5, <3>1 DEF Divides
    <3> QED BY <3>2, PrimeHasNoDivisor
  <2>3. CASE r # 0
    <3>1. r * b = p * (b - q * t)
      <4>1. r = p - x * q BY <1>2, <2>1
      <4>2. r * b = p * b - q * (x * b) BY <1>2, <4>1, SMT
      <4>3. q * (p * t) = p * (q * t) BY SMT
      <4>4. p * (b - q * t) = p * b - p * (q * t) BY SMT
      <4> QED BY <1>3, <4>2, <4>3, <4>4
    <3>2. b - q * t \in Int BY SMT
    <3>3. Divides(p, r * b) BY <3>1, <3>2 DEF Divides
    <3>4. r \in S BY <1>2, <2>1, <2>3, <3>3 DEF S
    <3> QED BY <1>1, <1>2, <2>1, <3>4
  <2> QED BY <2>2, <2>3
<1> QED BY <1>2, <1>4, <1>5

-----------------------------------------------------------------------------
(* The probe sequence.                                                       *)

\* Below the width of the sum the slots are an arithmetic progression modulo a prime.
LEMMA ProbesProgress ==
  ASSUME NEW c \in Nat \ {0, 1}, NEW k \in Key,
         (c - 1) * (c - 1) + (c - 1) < Modulus
  PROVE  \E base \in 0..(c - 1), step \in 1..(c - 1) :
            \A i \in 0..(c - 1) : base + i * step \in Nat /\ Probe(c, k, i) = (base + i * step) % c
<1> DEFINE base == Hash1[k] % c
           step == (Hash2[k] % (c - 1)) + 1
<1>1. base \in 0..(c - 1)
  <2>1. Hash1[k] \in Nat BY TableAssumption
  <2> QED BY <2>1, ModRange
<1>2. step \in 1..(c - 1)
  <2>1. Hash2[k] \in Nat /\ c - 1 \in Nat \ {0} BY TableAssumption
  <2>2. Hash2[k] % (c - 1) \in 0..(c - 1 - 1) BY <2>1, ModRange
  <2> QED BY <2>2
<1>3. \A i \in 0..(c - 1) : Probe(c, k, i) = ((base + i * step) % Modulus) % c BY DEF Probe
<1> HIDE DEF base, step
<1>4. Modulus \in Nat \ {0} BY TableAssumption
<1>5. ASSUME NEW i \in 0..(c - 1)
      PROVE  base + i * step \in Nat /\ (base + i * step) % Modulus = base + i * step
  <2>1. i * step \in Nat BY <1>2, SMT
  <2>2. i * step <= (c - 1) * (c - 1)
    <3>1. i * step <= (c - 1) * step BY <1>2, SMT
    <3>2. (c - 1) * step <= (c - 1) * (c - 1) BY <1>2, SMT
    <3>3. (c - 1) * step \in Nat /\ (c - 1) * (c - 1) \in Nat BY <1>2, SMT
    <3> QED BY <2>1, <3>1, <3>2, <3>3
  <2>3. PICK n \in Nat : n = base + i * step BY <1>1, <2>1
  <2>4. n \in 0..(Modulus - 1)
    <3>1. (c - 1) * (c - 1) \in Nat BY SMT
    <3> QED BY <1>1, <1>4, <2>1, <2>2, <2>3, <3>1
  <2>5. Modulus * 0 + n = n BY <1>4
  <2>6. n % Modulus = n BY <1>4, <2>4, <2>5, Remainder
  <2> QED BY <2>3, <2>6
<1> QED BY <1>1, <1>2, <1>3, <1>5

\* In a table of a prime capacity such a progression meets no slot twice.
LEMMA NoSlotTwice ==
  ASSUME NEW c \in Nat \ {0, 1}, isPrime(c), NEW base \in 0..(c - 1), NEW step \in 1..(c - 1),
         NEW i \in 0..(c - 1), NEW j \in 0..(c - 1), i < j,
         base + i * step \in Nat, base + j * step \in Nat,
         (base + i * step) % c = (base + j * step) % c
  PROVE  FALSE
<1>1. PICK q \in Nat, r \in 0..(c - 1) : base + i * step = (c * q) + r /\ r = (base + i * step) % c
  BY Division
<1>2. PICK h \in Nat : base + j * step = (c * h) + r
  <2>1. PICK h \in Nat, s \in 0..(c - 1) : base + j * step = (c * h) + s /\ s = (base + j * step) % c
    BY Division
  <2> QED BY <1>1, <2>1
<1>3. (j - i) * step = j * step - i * step BY SMT
<1>4. c * (h - q) = c * h - c * q BY SMT
<1>5. i * step \in Nat /\ j * step \in Nat /\ c * q \in Nat /\ c * h \in Nat BY SMT
<1>6. (j - i) * step = c * (h - q) BY <1>1, <1>2, <1>3, <1>4, <1>5
<1>7. h - q \in Int /\ j - i \in 1..(c - 1) OBVIOUS
<1>8. Divides(c, (j - i) * step) BY <1>6, <1>7 DEF Divides
<1> QED BY <1>7, <1>8, PrimeDividesFactor

LEMMA PrimeProbesEverySlot ==
  ASSUME NEW c \in Nat \ {0, 1}, isPrime(c), (c - 1) * (c - 1) + (c - 1) < Modulus
  PROVE  ProbesEverySlot(c)
<1> SUFFICES ASSUME NEW k \in Key PROVE {Probe(c, k, i) : i \in 0..(c - 1)} = 0..(c - 1)
  BY DEF ProbesEverySlot
<1>1. PICK base \in 0..(c - 1), step \in 1..(c - 1) :
         \A i \in 0..(c - 1) : base + i * step \in Nat /\ Probe(c, k, i) = (base + i * step) % c
  BY ProbesProgress
<1> DEFINE S == 0..(c - 1)
           f == [i \in S |-> Probe(c, k, i)]
<1>2. f \in [S -> S] BY ProbeInTable
<1>3. ASSUME NEW i \in S, NEW j \in S, f[i] = f[j] PROVE i = j
  <2>1. (base + i * step) % c = (base + j * step) % c BY <1>1, <1>3
  <2>2. ~(i < j) BY <1>1, <2>1, NoSlotTwice
  <2>3. ~(j < i) BY <1>1, <2>1, NoSlotTwice
  <2> QED BY <2>2, <2>3
<1>4. f \in Injection(S, S)
  <2>1. \A i, j \in DOMAIN f : f[i] = f[j] => i = j BY <1>3
  <2> HIDE DEF f, S
  <2> QED BY <1>2, <2>1 DEF Injection, IsInjective
<1>5. IsFiniteSet(S) BY FS_Interval
<1>6. f \in Surjection(S, S)
  <2> HIDE DEF f, S
  <2> QED BY <1>4, <1>5, FS_Injection
<1>7. \A x \in S : \E i \in S : f[i] = x BY <1>6 DEF Surjection
<1> QED BY <1>2, <1>7

\* hash-table.c:268: the loop looks at every slot, because the capacity is a prime, in every
\* table whose probe sum does not overflow.
THEOREM EverySlotProbed == Spec => []ProbesAllBelowOverflow
<1>1. IInv /\ LoadInv => ProbesAllBelowOverflow
  BY PrimeProbesEverySlot DEF IInv, TypeOK, LoadInv, ProbesAllBelowOverflow
<1> QED BY <1>1, Invariance, LoadInvariance, PTL
-----------------------------------------------------------------------------
(* The table implements the map of EnvMap.                                   *)

\* Beyond IInv: items have values, and the two tables of a growth agree on what was moved.
MapInv ==
    /\ \A x \in Items(data) : data[x].value \in Value
    /\ pc = "idle" => arg = NoArg
    /\ pc = "move" =>
         /\ \A x \in Items(old) : old[x].value \in Value
         /\ \A x \in Items(data) : \E y \in Done : data[x] = old[y]
         /\ \A y \in Done : \E x \in Items(data) : data[x] = old[y]

\* The value of a name is that of its item.
LEMMA ValueOfItem ==
  ASSUME NEW d, NEW c, WellFormed(d, c), NEW x \in Items(d)
  PROVE  ValueOf(d, d[x].key) = d[x].value
<1> DEFINE k == d[x].key
<1>1. DOMAIN d = 0..(c - 1) /\ x \in 0..(c - 1) /\ d[x].state = "FULL" BY DEF WellFormed, Items
<1>2. ASSUME NEW y \in DOMAIN d, d[y].state = "FULL", d[y].key = k PROVE y = x
  <2>1. Finds(d, c, d[y].key, y) BY <1>1, <1>2, FindsItem
  <2> QED BY <1>1, <1>2, <2>1, FindsItem
<1> HIDE DEF k
<1>3. \E y \in DOMAIN d : d[y].state = "FULL" /\ d[y].key = k BY <1>1 DEF k
<1>4. (CHOOSE y \in DOMAIN d : d[y].state = "FULL" /\ d[y].key = k) = x BY <1>2, <1>3
<1>5. ValueOf(d, k) = d[x].value BY <1>3, <1>4 DEF ValueOf
<1> QED BY <1>5 DEF k

LEMMA ValueOfOther ==
  ASSUME NEW d, NEW k, \A x \in Items(d) : d[x].key # k
  PROVE  ValueOf(d, k) = Unset
BY DEF ValueOf, Items

\* Tables with the same items give every name the same value.
LEMMA SameItems ==
  ASSUME NEW d, NEW c, WellFormed(d, c), NEW e, NEW b, WellFormed(e, b),
         \A x \in Items(d) : \E y \in Items(e) : d[x] = e[y],
         \A y \in Items(e) : \E x \in Items(d) : d[x] = e[y],
         NEW k
  PROVE  ValueOf(d, k) = ValueOf(e, k)
<1>1. CASE \E x \in Items(d) : d[x].key = k
  <2>1. PICK x \in Items(d) : d[x].key = k BY <1>1
  <2>2. PICK y \in Items(e) : d[x] = e[y] OBVIOUS
  <2>3. ValueOf(d, k) = d[x].value BY <2>1, ValueOfItem
  <2>4. ValueOf(e, k) = e[y].value
    <3>1. ValueOf(e, e[y].key) = e[y].value BY ValueOfItem
    <3> QED BY <2>1, <2>2, <3>1
  <2> QED BY <2>2, <2>3, <2>4
<1>2. CASE \A x \in Items(d) : d[x].key # k
  <2>1. \A y \in Items(e) : e[y].key # k
    <3> SUFFICES ASSUME NEW y \in Items(e) PROVE e[y].key # k OBVIOUS
    <3>1. PICK x \in Items(d) : d[x] = e[y] OBVIOUS
    <3> QED BY <1>2, <3>1
  <2>2. ValueOf(e, k) = Unset BY <2>1, ValueOfOther
  <2> QED BY <1>2, <2>2, ValueOfOther
<1> QED BY <1>1, <1>2

\* A name that is looked up and not found, or found to be no item, has no item.
LEMMA NotFound ==
  ASSUME NEW d, NEW c, WellFormed(d, c), NEW k, NEW x, Finds(d, c, k, x),
         x = -1 \/ d[x].state # "FULL"
  PROVE  \A y \in Items(d) : d[y].key # k
<1> SUFFICES ASSUME NEW y \in Items(d), d[y].key = k PROVE FALSE OBVIOUS
<1>1. y \in 0..(c - 1) /\ d[y].state = "FULL" BY ItemsFinite DEF Items
<1>2. x = y BY <1>1, FindsItem
<1>3. y # -1
  <2>1. c \in Nat BY DEF WellFormed
  <2> QED BY <1>1, <2>1
<1> QED BY <1>1, <1>2, <1>3

LEMMA ValueStored ==
  ASSUME NEW d, NEW c, WellFormed(d, c), NEW k \in Key, NEW v \in Value \cup {Unset},
         NEW x \in 0..(c - 1), Finds(d, c, k, x), NEW q
  PROVE  ValueOf(Put(d, x, Full(k, v)), q) = IF q = k THEN v ELSE ValueOf(d, q)
<1> DEFINE e == Put(d, x, Full(k, v))
<1>1. WellFormed(e, c) /\ Items(e) = Items(d) \cup {x} BY Stored
<1>2. d[x].state = "FULL" => d[x].key = k
  BY FoundSlot
<1>3. e[x] = Full(k, v) /\ \A y \in 0..(c - 1) : y # x => e[y] = d[y]
  <2>1. DOMAIN d = 0..(c - 1) BY DEF WellFormed
  <2> QED BY <2>1 DEF Put
<1> HIDE DEF e
<1>4. CASE q = k
  <2>1. x \in Items(e) /\ e[x].key = k /\ e[x].value = v BY <1>1, <1>3 DEF Full
  <2> QED BY <1>1, <1>4, <2>1, ValueOfItem DEF e
<1>5. CASE q # k /\ \E y \in Items(d) : d[y].key = q
  <2>1. PICK y \in Items(d) : d[y].key = q BY <1>5
  <2>2. y \in 0..(c - 1) /\ d[y].state = "FULL" BY ItemsFinite DEF Items
  <2>3. y # x
    <3>1. DOMAIN d = 0..(c - 1) BY DEF WellFormed
    <3> QED BY <1>2, <1>5, <2>1, <2>2, <3>1
  <2>4. y \in Items(e) /\ e[y] = d[y] BY <1>1, <1>3, <2>2, <2>3
  <2>5. ValueOf(d, q) = d[y].value BY <2>1, ValueOfItem
  <2>6. ValueOf(e, q) = e[y].value
    <3>1. ValueOf(e, e[y].key) = e[y].value BY <1>1, <2>4, ValueOfItem
    <3> QED BY <2>1, <2>4, <3>1
  <2> QED BY <1>5, <2>4, <2>5, <2>6 DEF e
<1>6. CASE q # k /\ \A y \in Items(d) : d[y].key # q
  <2>1. \A y \in Items(e) : e[y].key # q
    <3> SUFFICES ASSUME NEW y \in Items(e) PROVE e[y].key # q OBVIOUS
    <3>1. y \in 0..(c - 1) BY <1>1, ItemsFinite
    <3> QED BY <1>1, <1>3, <1>6, <3>1 DEF Full
  <2> QED BY <1>6, <2>1, ValueOfOther DEF e
<1> QED BY <1>4, <1>5, <1>6

LEMMA ValueRemoved ==
  ASSUME NEW d, NEW c, WellFormed(d, c), NEW x \in 0..(c - 1), d[x].state = "FULL", NEW q
  PROVE  ValueOf(Put(d, x, Deleted), q) = IF q = d[x].key THEN Unset ELSE ValueOf(d, q)
<1> DEFINE e == Put(d, x, Deleted)
<1>1. WellFormed(e, c) /\ Items(e) = Items(d) \ {x} BY Removed
<1>2. \A y \in 0..(c - 1) : y # x => e[y] = d[y]
  <2>1. DOMAIN d = 0..(c - 1) BY DEF WellFormed
  <2> QED BY <2>1 DEF Put
<1>3. \A y \in Items(e) : y \in Items(d) /\ y # x /\ e[y] = d[y]
  <2>1. Items(d) \subseteq 0..(c - 1) BY ItemsFinite
  <2> HIDE DEF e
  <2> QED BY <1>1, <1>2, <2>1
<1> HIDE DEF e
<1>4. CASE q = d[x].key
  <2>1. \A y \in Items(e) : e[y].key # q
    <3> SUFFICES ASSUME NEW y \in Items(e), e[y].key = q PROVE FALSE OBVIOUS
    <3>1. y \in 0..(c - 1) /\ d[y].state = "FULL" /\ d[y].key = d[x].key /\ y # x
      BY <1>3, <1>4, ItemsFinite DEF Items
    <3>2. Finds(d, c, d[y].key, y) BY <3>1, FindsItem
    <3> QED BY <3>1, <3>2, FindsItem
  <2> QED BY <1>4, <2>1, ValueOfOther DEF e
<1>5. CASE q # d[x].key /\ \E y \in Items(d) : d[y].key = q
  <2>1. PICK y \in Items(d) : d[y].key = q BY <1>5
  <2>2. y \in Items(e) /\ e[y] = d[y] BY <1>1, <1>3, <1>5, <2>1
  <2>3. ValueOf(d, q) = d[y].value BY <2>1, ValueOfItem
  <2>4. ValueOf(e, q) = e[y].value
    <3>1. ValueOf(e, e[y].key) = e[y].value BY <1>1, <2>2, ValueOfItem
    <3> QED BY <2>1, <2>2, <3>1
  <2> QED BY <1>5, <2>2, <2>3, <2>4 DEF e
<1>6. CASE q # d[x].key /\ \A y \in Items(d) : d[y].key # q
  <2>1. \A y \in Items(e) : e[y].key # q BY <1>3, <1>6
  <2> QED BY <1>6, <2>1, ValueOfOther DEF e
<1> QED BY <1>4, <1>5, <1>6

LEMMA InitMap == Init => MapInv
<1> SUFFICES ASSUME Init PROVE MapInv OBVIOUS
<1>1. Items(data) = {} BY CapacityPrime, TableAssumption, NewTable DEF Init
<1> QED BY <1>1 DEF Init, MapInv

LEMMA MoveItemMap ==
  ASSUME IInv, MapInv, MoveItem
  PROVE  MapInv'
<1>1. pc = "move" /\ Moving /\ next \in DOMAIN old BY DEF MoveItem, IInv
<1>2. PICK n \in Nat \ {0, 1} : WellFormed(old, n) /\ next \in 0..n BY <1>1 DEF Moving
<1>3. /\ WellFormed(data, capacity) /\ DOMAIN data = 0..(capacity - 1)
      /\ DOMAIN old = 0..(n - 1) /\ Items(old) \subseteq 0..(n - 1) /\ next \in 0..(n - 1)
  BY <1>1, <1>2, ItemsFinite DEF Moving, WellFormed
<1>4. CASE InsertFails("ERROR_INDEX_OUT_OF_BOUNDS", old, Cardinality(DOMAIN old))
  <2>1. pc' = "idle" /\ arg' = NoArg /\ data' = old BY <1>4 DEF InsertFails
  <2>2. \A x \in Items(data') : data'[x].value \in Value BY <1>1, <2>1 DEF MapInv
  <2> QED BY <2>1, <2>2 DEF MapInv
<1>5. CASE old[next].state # "FULL" /\ next' = next + 1 /\ UNCHANGED <<data, pc, old>>
  <2>1. Done' = Done
    <3>1. next \notin Items(old) BY <1>5 DEF Items
    <3> QED BY <1>3, <1>5, <3>1 DEF Done
  <2> QED BY <1>1, <1>5, <2>1 DEF MapInv
<1>6. ASSUME NEW x \in DOMAIN data, old[next].state = "FULL", Finds(data, capacity, old[next].key, x),
             data' = [data EXCEPT ![x] = old[next]], next' = next + 1, UNCHANGED <<pc, old>>
      PROVE  MapInv'
  <2>1. next \in Items(old) BY <1>1, <1>6 DEF Items
  <2>2. \A y : y \in Done' <=> y \in Done \/ y = next
    <3>1. \A y \in Items(old) : y < next + 1 <=> y < next \/ y = next BY <1>3
    <3>2. Done' = {y \in Items(old) : y < next + 1} BY <1>6 DEF Done, Items
    <3> QED BY <2>1, <3>1, <3>2 DEF Done
  <2>3. data'[x] = old[next] /\ \A y \in DOMAIN data : y # x => data'[y] = data[y] BY <1>6
  <2>4. \A y : y \in Items(data') <=> y \in Items(data) \/ y = x
    <3>1. DOMAIN data' = DOMAIN data BY <1>6
    <3> QED BY <1>6, <2>3, <3>1 DEF Items
  <2>5. \A y \in Items(data) : y # x => data'[y] = data[y] BY <2>3 DEF Items
  <2>6. x \notin Items(data)
    <3>1. SUFFICES ASSUME x \in Items(data) PROVE FALSE OBVIOUS
    <3>2. PICK k : k = old[next].key OBVIOUS
    <3>3. data[x].state = "FULL" /\ k \in Key
      BY <1>2, <1>3, <1>6, <3>1, <3>2 DEF Items, WellFormed
    <3>4. data[x].key = k
      <4>1. PICK d, c : d = data /\ c = capacity OBVIOUS
      <4>2. WellFormed(d, c) /\ x \in 0..(c - 1) /\ Finds(d, c, k, x) /\ d[x].state = "FULL"
        BY <1>3, <1>6, <3>2, <3>3, <4>1
      <4> QED BY <3>3, <4>1, <4>2, FoundSlot
    <3>5. PICK y \in Done : data[x] = old[y] BY <1>1, <3>1 DEF MapInv
    <3>6. y \in 0..(n - 1) /\ y # next /\ old[y].state = "FULL" /\ old[y].key = k
      BY <1>3, <3>4, <3>5 DEF Done, Items
    <3>7. PICK o, m : o = old /\ m = next OBVIOUS
    <3>8. /\ WellFormed(o, n) /\ m \in 0..(n - 1) /\ o[m].state = "FULL" /\ o[m].key = k
          /\ o[y].state = "FULL" /\ o[y].key = k
      BY <1>2, <1>3, <1>6, <3>2, <3>6, <3>7
    <3>9. Finds(o, n, k, y) BY <3>6, <3>8, FindsItem
    <3>10. y = m BY <3>8, <3>9, FindsItem
    <3> QED BY <3>6, <3>7, <3>10
  <2>7. \A y \in Items(data') : data'[y].value \in Value
    BY <1>1, <2>1, <2>3, <2>4, <2>5 DEF MapInv
  <2>8. \A y \in Items(data') : \E h \in Done' : data'[y] = old[h]
    BY <1>1, <2>2, <2>3, <2>4, <2>5 DEF MapInv
  <2>9. \A h \in Done' : \E y \in Items(data') : data'[y] = old[h]
    <3> SUFFICES ASSUME NEW h \in Done' PROVE \E y \in Items(data') : data'[y] = old[h] OBVIOUS
    <3>1. CASE h = next BY <2>3, <2>4, <3>1
    <3>2. CASE h \in Done
      <4>1. PICK y \in Items(data) : data[y] = old[h] BY <1>1, <3>2 DEF MapInv
      <4> QED BY <2>4, <2>5, <2>6, <4>1
    <3> QED BY <2>2, <3>1, <3>2
  <2>10. \A y \in Items(old') : old'[y].value \in Value BY <1>1, <1>6 DEF MapInv
  <2>11. old' = old /\ pc' = "move" BY <1>1, <1>6
  <2> QED BY <2>7, <2>8, <2>9, <2>10, <2>11 DEF MapInv
<1> QED BY <1>4, <1>5, <1>6 DEF MoveItem

LEMMA NextMap ==
  ASSUME IInv, MapInv, [Next]_vars
  PROVE  MapInv'
<1>1. ASSUME NEW k \in Key, NEW v \in Value, InsertBegins(k, v) PROVE MapInv'
  BY <1>1 DEF InsertBegins, MapInv
<1>2. CASE ResizeBegins
  <2>1. PICK c : /\ hashTableNextPrime(capacity, c)
                 /\ \/ c = 0 /\ InsertFails("ERROR_INT_OVERFLOW", data, capacity)
                    \/ c # 0 /\ InsertFails("ERROR_MALLOC_FAILURE", data, capacity)
                    \/ /\ c # 0
                       /\ data' = Fresh(c) /\ capacity' = c
                       /\ old' = data /\ next' = 0 /\ pc' = "move"
                       /\ UNCHANGED <<currentSize, arg, res>>
    BY <1>2 DEF ResizeBegins
  <2>2. CASE pc' = "idle" /\ data' = data /\ arg' = NoArg
    BY <2>2 DEF MapInv
  <2>3. CASE c # 0 /\ data' = Fresh(c) /\ old' = data /\ next' = 0 /\ pc' = "move"
    <3>1. pc = "resize" /\ WellFormed(data, capacity) BY <1>2 DEF ResizeBegins, IInv, AtRest
    <3>2. c \in Nat \ {0, 1} BY <2>1, <2>3, <3>1, NextCapacity DEF WellFormed
    <3>3. Items(data') = {} BY <2>3, <3>2, NewTable
    <3>4. Done' = {} BY <2>3, <3>1, ItemsFinite DEF Done
    <3>5. \A x \in Items(old') : old'[x].value \in Value BY <2>3 DEF MapInv
    <3> QED BY <2>3, <3>3, <3>4, <3>5 DEF MapInv
  <2> QED BY <2>1, <2>2, <2>3 DEF InsertFails
<1>3. CASE MoveItem
  BY <1>3, MoveItemMap
<1>4. CASE ResizeEnds
  BY <1>4 DEF ResizeEnds, MapInv
<1>5. CASE StoreItem
  <2>1. pc = "store" /\ arg.value \in Value BY <1>5 DEF StoreItem, IInv, HasArg
  <2>2. pc' = "idle" /\ arg' = NoArg BY <1>5 DEF StoreItem, InsertFails
  <2>3. CASE data' = data BY <2>2, <2>3 DEF MapInv
  <2>4. CASE \E x \in DOMAIN data : data' = [data EXCEPT ![x] = Full(arg.key, arg.value)]
    <3>1. PICK x \in DOMAIN data : data' = [data EXCEPT ![x] = Full(arg.key, arg.value)] BY <2>4
    <3>2. DOMAIN data' = DOMAIN data /\ data'[x] = Full(arg.key, arg.value)
          /\ \A y \in DOMAIN data : y # x => data'[y] = data[y]
      BY <3>1
    <3>3. \A y \in Items(data') : data'[y].value \in Value
      BY <2>1, <3>2 DEF MapInv, Items, Full
    <3> QED BY <2>2, <3>3 DEF MapInv
  <2> QED BY <1>5, <2>3, <2>4 DEF StoreItem, InsertFails
<1>6. ASSUME NEW k \in Key, hashTableRemove(k) PROVE MapInv'
  <2>1. pc = "idle" /\ pc' = "idle" /\ arg' = arg BY <1>6 DEF hashTableRemove
  <2>2. \A y \in Items(data') : y \in Items(data) /\ data'[y] = data[y]
    <3>1. CASE data' = data BY <3>1
    <3>2. CASE \E x : data' = [data EXCEPT ![x] = Deleted]
      <4>1. PICK x : data' = [data EXCEPT ![x] = Deleted] BY <3>2
      <4>2. DOMAIN data' = DOMAIN data BY <4>1
      <4>3. \A y \in DOMAIN data : data'[y] = IF y = x THEN Deleted ELSE data[y] BY <4>1
      <4> QED BY <4>2, <4>3 DEF Items, Deleted
    <3> QED BY <1>6, <3>1, <3>2 DEF hashTableRemove
  <2> QED BY <2>1, <2>2 DEF MapInv
<1>7. ASSUME NEW k \in Key, hashTableGetValue(k) PROVE MapInv'
  BY <1>7 DEF hashTableGetValue, MapInv
<1>8. CASE UNCHANGED vars
  BY <1>8 DEF vars, MapInv, Done
<1> QED BY <1>1, <1>2, <1>3, <1>4, <1>5, <1>6, <1>7, <1>8 DEF Next, hashTableInsert, InsertGoesOn

LEMMA MapInvariance == Spec => []MapInv
<1>1. IInv /\ MapInv /\ [Next]_vars => MapInv' BY NextMap
<1> QED BY <1>1, InitMap, Invariance, PTL DEF Spec
\* Of the variables of EnvMap, map and pending are computed; res is res.
AbsMap == [k \in Key |-> ValueOf(Current, k)]
AbsPending == IF arg = NoArg THEN {} ELSE {<<arg.key, arg.value>>}

LEMMA MapInit == Init => Map!Init
<1> SUFFICES ASSUME Init PROVE Map!Init OBVIOUS
<1>1. WellFormed(Fresh(Capacities[1]), Capacities[1]) /\ Items(Fresh(Capacities[1])) = {}
  BY CapacityPrime, TableAssumption, NewTable
<1>2. Items(data) = {} BY <1>1 DEF Init
<1>3. Current = data BY DEF Init, Current
<1>4. AbsMap = [k \in Key |-> Unset] BY <1>2, <1>3, ValueOfOther DEF AbsMap
<1>5. AbsPending = {} BY DEF Init, AbsPending
<1>6. res = Result("none", "SUCCESS", Unset) BY DEF Init
<1> QED BY <1>4, <1>5, <1>6 DEF Map!Init, AbsMap, AbsPending, Map!Result, Result

\* Only the operations themselves change the map: an insert that begins, grows the table or
\* moves an item is invisible, and one that fails leaves the map as it was.
LEMMA InsertBeginsMaps ==
  ASSUME IInv, MapInv, NEW k \in Key, NEW v \in Value, InsertBegins(k, v)
  PROVE  Map!BeginInsert(k, v)
<1>1. AbsPending = {} BY DEF InsertBegins, MapInv, AbsPending
<1>2. arg' # NoArg /\ arg'.key = k /\ arg'.value = v
  BY TableAssumption DEF InsertBegins, NoArg
<1>3. AbsPending' = {<<k, v>>} BY <1>2 DEF AbsPending
<1>4. Current' = Current /\ res' = res BY DEF InsertBegins, Current
<1>5. AbsMap' = AbsMap BY <1>4 DEF AbsMap
<1> QED BY <1>1, <1>3, <1>4, <1>5 DEF Map!BeginInsert, AbsMap, AbsPending

LEMMA FailureMaps ==
  ASSUME IInv, pc # "idle", NEW st \in Error, NEW d, NEW c, InsertFails(st, d, c), d = Current
  PROVE  \E k \in Key, v \in Value : Map!EndInsert(k, v)
<1>1. arg.key \in Key /\ arg.value \in Value BY DEF IInv, HasArg
<1>2. AbsPending = {<<arg.key, arg.value>>} /\ AbsPending' = {}
  BY <1>1, TableAssumption DEF InsertFails, AbsPending, NoArg
<1>3. Current' = Current BY DEF InsertFails, Current
<1>4. AbsMap' = AbsMap BY <1>3 DEF AbsMap
<1>5. res' = Result("insert", st, Unset) BY DEF InsertFails
<1>6. Map!EndInsert(arg.key, arg.value)
  BY <1>2, <1>4, <1>5 DEF Map!EndInsert, AbsMap, AbsPending, Map!Result, Result
<1> QED BY <1>1, <1>6

LEMMA SuccessMaps ==
  ASSUME IInv, pc = "store", NEW x \in DOMAIN data, Finds(data, capacity, arg.key, x),
         data' = [data EXCEPT ![x] = Full(arg.key, arg.value)],
         pc' = "idle", arg' = NoArg, res' = Result("insert", "SUCCESS", Unset)
  PROVE  \E k \in Key, v \in Value : Map!EndInsert(k, v)
<1>1. arg.key \in Key /\ arg.value \in Value /\ WellFormed(data, capacity)
  BY DEF IInv, HasArg, AtRest
<1>2. AbsPending = {<<arg.key, arg.value>>} /\ AbsPending' = {}
  BY <1>1, TableAssumption DEF AbsPending, NoArg
<1>3. Current = data /\ Current' = data' BY DEF Current
<1>4. PICK d, c, k, v : d = data /\ c = capacity /\ k = arg.key /\ v = arg.value OBVIOUS
<1>5. /\ WellFormed(d, c) /\ k \in Key /\ v \in Value \cup {Unset}
      /\ x \in 0..(c - 1) /\ Finds(d, c, k, x)
  BY <1>1, <1>4 DEF WellFormed
<1>6. data' = Put(d, x, Full(k, v)) BY <1>4 DEF Put
<1>7. \A q : ValueOf(data', q) = IF q = k THEN v ELSE ValueOf(d, q)
  <2> SUFFICES ASSUME NEW q PROVE ValueOf(Put(d, x, Full(k, v)), q) = IF q = k THEN v ELSE ValueOf(d, q)
    BY <1>6
  <2> QED BY <1>5, ValueStored
<1>8. \A q : ValueOf(Current', q) = IF q = arg.key THEN arg.value ELSE ValueOf(Current, q)
  BY <1>3, <1>4, <1>7
<1>9. AbsMap' = [AbsMap EXCEPT ![arg.key] = arg.value]
  <2>1. AbsMap' = [q \in Key |-> ValueOf(Current', q)] BY DEF AbsMap
  <2> QED BY <1>8, <2>1 DEF AbsMap
<1>10. Map!EndInsert(arg.key, arg.value)
  BY <1>2, <1>9 DEF Map!EndInsert, AbsMap, AbsPending, Map!Result, Result
<1> QED BY <1>1, <1>10

LEMMA InsertGoesOnMaps ==
  ASSUME IInv, MapInv, InsertGoesOn
  PROVE  (\E k \in Key, v \in Value : Map!EndInsert(k, v)) \/ UNCHANGED Map!vars
<1>1. CASE ResizeBegins
  <2>1. pc = "resize" /\ Current = data BY <1>1 DEF ResizeBegins, Current
  <2>2. PICK c : \/ c = 0 /\ InsertFails("ERROR_INT_OVERFLOW", data, capacity)
                 \/ c # 0 /\ InsertFails("ERROR_MALLOC_FAILURE", data, capacity)
                 \/ old' = data /\ pc' = "move" /\ UNCHANGED <<arg, res>>
    BY <1>1 DEF ResizeBegins
  <2>3. CASE \E st \in Error : InsertFails(st, data, capacity)
    <3>1. PICK st \in Error : InsertFails(st, data, capacity) BY <2>3
    <3>2. PICK d, e : d = data /\ e = capacity OBVIOUS
    <3>3. pc # "idle" /\ InsertFails(st, d, e) /\ d = Current BY <2>1, <3>1, <3>2
    <3> QED BY <3>3, FailureMaps
  <2>4. CASE old' = data /\ pc' = "move" /\ UNCHANGED <<arg, res>>
    <3>1. Current' = Current /\ AbsPending' = AbsPending BY <2>1, <2>4 DEF Current, AbsPending
    <3>2. AbsMap' = AbsMap BY <3>1 DEF AbsMap
    <3> QED BY <2>4, <3>1, <3>2 DEF Map!vars, AbsMap, AbsPending
  <2> QED BY <2>2, <2>3, <2>4 DEF Error
<1>2. CASE MoveItem
  <2>1. pc = "move" /\ Current = old BY <1>2 DEF MoveItem, Current
  <2>2. CASE InsertFails("ERROR_INDEX_OUT_OF_BOUNDS", old, Cardinality(DOMAIN old))
    <3>1. PICK d, e : d = old /\ e = Cardinality(DOMAIN old) OBVIOUS
    <3>2. pc # "idle" /\ InsertFails("ERROR_INDEX_OUT_OF_BOUNDS", d, e) /\ d = Current
      BY <2>1, <2>2, <3>1
    <3>3. "ERROR_INDEX_OUT_OF_BOUNDS" \in Error BY DEF Error
    <3> QED BY <3>2, <3>3, FailureMaps
  <2>3. CASE UNCHANGED <<pc, old, arg, res>>
    <3>1. Current' = Current /\ AbsPending' = AbsPending BY <2>1, <2>3 DEF Current, AbsPending
    <3>2. AbsMap' = AbsMap BY <3>1 DEF AbsMap
    <3> QED BY <2>3, <3>1, <3>2 DEF Map!vars, AbsMap, AbsPending
  <2> QED BY <1>2, <2>2, <2>3 DEF MoveItem
<1>3. CASE ResizeEnds
  <2>1. pc = "move" /\ Moving /\ next \notin DOMAIN old BY <1>3 DEF ResizeEnds, IInv
  <2>2. PICK n \in Nat \ {0, 1} : WellFormed(old, n) /\ next \in 0..n BY <2>1 DEF Moving
  <2>3. next = n BY <2>1, <2>2 DEF WellFormed
  <2>4. Done = Items(old)
    <3>1. Items(old) \subseteq 0..(n - 1) BY <2>2, ItemsFinite
    <3>2. \A y \in Items(old) : y < next BY <2>3, <3>1
    <3> QED BY <3>2 DEF Done
  <2>5. Current = old /\ Current' = data BY <1>3, <2>1 DEF ResizeEnds, Current
  <2>6. \A k : ValueOf(data, k) = ValueOf(old, k)
    <3>1. PICK d, c, o : d = data /\ c = capacity /\ o = old OBVIOUS
    <3>2. WellFormed(d, c) /\ WellFormed(o, n) BY <2>1, <2>2, <3>1 DEF Moving
    <3>3. /\ \A x \in Items(d) : \E y \in Items(o) : d[x] = o[y]
          /\ \A y \in Items(o) : \E x \in Items(d) : d[x] = o[y]
      BY <2>1, <2>4, <3>1 DEF MapInv
    <3>4. \A k : ValueOf(d, k) = ValueOf(o, k) BY <3>2, <3>3, SameItems
    <3> QED BY <3>1, <3>4
  <2>7. AbsMap' = AbsMap
    <3>1. AbsMap' = [k \in Key |-> ValueOf(data, k)] BY <2>5 DEF AbsMap
    <3> QED BY <2>5, <2>6, <3>1 DEF AbsMap
  <2>8. AbsPending' = AbsPending /\ res' = res BY <1>3 DEF ResizeEnds, AbsPending
  <2> QED BY <2>7, <2>8 DEF Map!vars, AbsMap, AbsPending
<1>4. CASE StoreItem
  <2>1. pc = "store" /\ Current = data BY <1>4 DEF StoreItem, Current
  <2>2. CASE \E st \in Error : InsertFails(st, data, capacity)
    <3>1. PICK st \in Error : InsertFails(st, data, capacity) BY <2>2
    <3>2. PICK d, e : d = data /\ e = capacity OBVIOUS
    <3>3. pc # "idle" /\ InsertFails(st, d, e) /\ d = Current BY <2>1, <3>1, <3>2
    <3> QED BY <3>3, FailureMaps
  <2>3. CASE \E x \in DOMAIN data :
               /\ Finds(data, capacity, arg.key, x)
               /\ data' = [data EXCEPT ![x] = Full(arg.key, arg.value)]
               /\ pc' = "idle" /\ arg' = NoArg
               /\ res' = Result("insert", "SUCCESS", Unset)
    BY <2>1, <2>3, SuccessMaps
  <2> QED BY <1>4, <2>2, <2>3 DEF StoreItem, Error
<1> QED BY <1>1, <1>2, <1>3, <1>4 DEF InsertGoesOn

LEMMA RemoveMaps ==
  ASSUME IInv, MapInv, NEW k \in Key, hashTableRemove(k)
  PROVE  Map!Remove(k)
<1>1. pc = "idle" /\ pc' = "idle" /\ arg = NoArg /\ arg' = NoArg /\ WellFormed(data, capacity)
  BY DEF hashTableRemove, MapInv, IInv, AtRest
<1>2. AbsPending = {} /\ AbsPending' = {} /\ Current = data /\ Current' = data'
  BY <1>1 DEF AbsPending, Current
<1>3. PICK d, c : d = data /\ c = capacity OBVIOUS
<1>4. WellFormed(d, c) /\ c \in Nat BY <1>1, <1>3 DEF WellFormed
<1>5. PICK x \in -1..(c - 1) :
         /\ Finds(d, c, k, x)
         /\ IF x = -1 \/ d[x].state # "FULL" THEN data' = d ELSE data' = Put(d, x, Deleted)
  BY <1>3 DEF hashTableRemove, Put
<1>6. \A q : ValueOf(data', q) = IF q = k THEN Unset ELSE ValueOf(d, q)
  <2>1. CASE x = -1 \/ d[x].state # "FULL"
    <3>1. \A y \in Items(d) : d[y].key # k BY <1>4, <1>5, <2>1, NotFound
    <3>2. ValueOf(d, k) = Unset BY <3>1, ValueOfOther
    <3> QED BY <1>5, <2>1, <3>2
  <2>2. CASE x # -1 /\ d[x].state = "FULL"
    <3>1. x \in 0..(c - 1) BY <1>4, <2>2
    <3>2. d[x].key = k BY <1>4, <1>5, <2>2, <3>1, FoundSlot
    <3>3. \A q : ValueOf(Put(d, x, Deleted), q) = IF q = d[x].key THEN Unset ELSE ValueOf(d, q)
      BY <1>4, <2>2, <3>1, ValueRemoved
    <3> QED BY <1>5, <2>2, <3>2, <3>3
  <2> QED BY <2>1, <2>2
<1>7. \A q : ValueOf(Current', q) = IF q = k THEN Unset ELSE ValueOf(Current, q)
  BY <1>2, <1>3, <1>6
<1>8. AbsMap' = [AbsMap EXCEPT ![k] = Unset]
  <2>1. AbsMap' = [q \in Key |-> ValueOf(Current', q)] BY DEF AbsMap
  <2> QED BY <1>7, <2>1 DEF AbsMap
<1>9. res' = Result("remove", "SUCCESS", Unset) BY DEF hashTableRemove
<1> QED BY <1>2, <1>8, <1>9 DEF Map!Remove, AbsMap, AbsPending, Map!Result, Result

LEMMA GetValueMaps ==
  ASSUME IInv, MapInv, NEW k \in Key, hashTableGetValue(k)
  PROVE  Map!GetValue(k)
<1>1. pc = "idle" /\ arg = NoArg /\ WellFormed(data, capacity)
  BY DEF hashTableGetValue, MapInv, IInv, AtRest
<1>2. UNCHANGED <<data, pc, old, arg>> BY DEF hashTableGetValue
<1>3. AbsPending = {} /\ AbsPending' = {} /\ Current = data /\ Current' = Current
  BY <1>1, <1>2 DEF AbsPending, Current
<1>4. AbsMap' = AbsMap /\ AbsMap[k] = ValueOf(data, k) BY <1>3 DEF AbsMap
<1>5. PICK d, c : d = data /\ c = capacity OBVIOUS
<1>6. WellFormed(d, c) /\ c \in Nat BY <1>1, <1>5 DEF WellFormed
<1>7. PICK x \in -1..(c - 1) :
         /\ Finds(d, c, k, x)
         /\ res' = IF x = -1 THEN Result("get", "ERROR_INDEX_OUT_OF_BOUNDS", Unset)
                   ELSE IF d[x].state # "FULL" THEN Result("get", "ERROR_HTAB_ITEM", Unset)
                   ELSE Result("get", "SUCCESS", d[x].value)
  BY <1>5 DEF hashTableGetValue
<1>8. CASE x = -1 \/ d[x].state # "FULL"
  <2>1. \A y \in Items(d) : d[y].key # k BY <1>6, <1>7, <1>8, NotFound
  <2>2. AbsMap[k] = Unset BY <1>4, <1>5, <2>1, ValueOfOther
  <2>3. \E e \in Error : res' = Result("get", e, Unset) BY <1>7, <1>8 DEF Error
  <2> QED BY <1>3, <1>4, <2>2, <2>3 DEF Map!GetValue, AbsMap, AbsPending, Map!Result, Result
<1>9. CASE x # -1 /\ d[x].state = "FULL"
  <2>1. x \in 0..(c - 1) /\ x \in Items(d) BY <1>6, <1>9 DEF Items, WellFormed
  <2>2. d[x].key = k BY <1>6, <1>7, <1>9, <2>1, FoundSlot
  <2>3. ValueOf(d, d[x].key) = d[x].value BY <1>6, <2>1, ValueOfItem
  <2>4. d[x].value \in Value BY <1>5, <2>1 DEF MapInv
  <2>5. AbsMap[k] = d[x].value /\ AbsMap[k] # Unset
    BY <1>4, <1>5, <2>2, <2>3, <2>4, TableAssumption
  <2>6. res' = Result("get", "SUCCESS", AbsMap[k]) BY <1>7, <1>9, <2>5
  <2> QED BY <1>3, <1>4, <2>5, <2>6 DEF Map!GetValue, AbsMap, AbsPending, Map!Result, Result
<1> QED BY <1>8, <1>9

LEMMA NextMaps ==
  ASSUME IInv, MapInv, [Next]_vars
  PROVE  [Map!Next]_(Map!vars)
<1>1. ASSUME NEW k \in Key, NEW v \in Value, hashTableInsert(k, v) PROVE Map!Next
  BY <1>1, InsertBeginsMaps DEF hashTableInsert, Map!Next
<1>2. ASSUME NEW k \in Key, hashTableRemove(k) PROVE Map!Next
  BY <1>2, RemoveMaps DEF Map!Next
<1>3. ASSUME NEW k \in Key, hashTableGetValue(k) PROVE Map!Next
  BY <1>3, GetValueMaps DEF Map!Next
<1>4. CASE InsertGoesOn
  BY <1>4, InsertGoesOnMaps DEF Map!Next
<1>5. CASE UNCHANGED vars
  BY <1>5 DEF vars, Map!vars, Current
<1> QED BY <1>1, <1>2, <1>3, <1>4, <1>5 DEF Next

\* hash-table.c implements the map that hash-table.h promises: no growth, failure, rollback
\* or removal changes or loses the value of another name, and every lookup finds the value
\* of the last insert that succeeded.
THEOREM TableIsMap == Spec => IsMap
<1>1. IInv /\ MapInv /\ [Next]_vars => [Map!Next]_(Map!vars) BY NextMaps
<1> QED BY <1>1, MapInit, Invariance, MapInvariance, PTL DEF Spec, IsMap, Map!Spec
=============================================================================
