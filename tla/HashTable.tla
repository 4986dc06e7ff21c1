----------------------------- MODULE HashTable ------------------------------
(***************************************************************************)
(* The hash table of shell variables (src/data-structures/hash-table.c):   *)
(* open addressing with double hashing, deleted slots kept as tombstones,  *)
(* growth to the next prime capacity.  Each pass of hashTableResize's loop *)
(* is a step, so that the invariants speak of a table that is half moved.  *)
(***************************************************************************)
EXTENDS Integers, Sequences, FiniteSets

CONSTANTS
    Key, Value,
    Unset,           \* stands for a NULL key or value
    Hash1, Hash2,    \* hash1 and hash2: functions from Key to Nat
    Modulus,         \* uint32_t arithmetic is modulo 2^32
    Capacities,      \* hashtable_prime_capacities
    MaxPrime         \* CLOSEST_UMAX32_PRIME

LOAD_FACTOR_NUM == 11
LOAD_FACTOR_DENUM == 16

\* Trial division by 5, 7, 11, 13, ...
isPrime(n) ==
    \/ n \in {2, 3}
    \/ /\ n > 3 /\ n % 2 # 0 /\ n % 3 # 0
       /\ \A m \in {q \in 5..n : q % 6 = 5 /\ q <= n \div q} : n % m # 0 /\ n % (m + 2) # 0

ASSUME TableAssumption ==
    /\ Unset \notin Key /\ Unset \notin Value
    /\ Hash1 \in [Key -> Nat] /\ Hash2 \in [Key -> Nat]
    /\ Modulus \in Nat \ {0}
    /\ Capacities \in Seq(Nat) /\ Len(Capacities) > 0
    /\ \A n \in 1..Len(Capacities) : isPrime(Capacities[n])
    /\ MaxPrime \in Nat /\ isPrime(MaxPrime)

VARIABLES
    data,          \* table->data, a function on 0..(capacity - 1)
    capacity,      \* table->capacity
    currentSize,   \* table->currentSize
    pc,            \* idle, or the next part of the hashTableInsert in progress
    old,           \* old_data while hashTableResize moves the items
    next,          \* i of that loop
    arg,           \* key and value of the insert in progress
    res            \* what the last operation returned

vars == <<data, capacity, currentSize, pc, old, next, arg, res>>

Slot == [state : {"EMPTY", "FULL", "DELETED"}, key : Key \cup {Unset}, value : Value \cup {Unset}]
Empty == [state |-> "EMPTY", key |-> Unset, value |-> Unset]
Deleted == [state |-> "DELETED", key |-> Unset, value |-> Unset]
Full(k, v) == [state |-> "FULL", key |-> k, value |-> v]

NoData == [x \in {} |-> Empty]
NoArg == [key |-> Unset, value |-> Unset]
Fresh(c) == [x \in 0..(c - 1) |-> Empty]

Error == {"ERROR_INDEX_OUT_OF_BOUNDS", "ERROR_MALLOC_FAILURE", "ERROR_INT_OVERFLOW", "ERROR_HTAB_ITEM"}
Result(op, st, v) == [op |-> op, st |-> st, value |-> v]

-----------------------------------------------------------------------------
(* Probing.                                                                  *)

Probe_NoOffset(c, k, i) == (((Hash1[k] % c) + i * (Hash2[k] % (c - 1))) % Modulus) % c

\* The i-th slot tried for k in a table of c slots; the sum is a uint32_t.
Probe(c, k, i) == (((Hash1[k] % c) + i * ((Hash2[k] % (c - 1)) + 1)) % Modulus) % c

\* The search ends at the i-th slot.
Stops(d, c, k, i) ==
    LET s == d[Probe(c, k, i)]
    IN  s.state = "EMPTY" \/ (s.state = "FULL" /\ s.key = k)

\* hashTableFindIndex(table, k) returns x: the slot of k, else the first tombstone passed
\* on the way to an empty slot, else that empty slot.  Without an empty slot a tombstone
\* is remembered but -1 is returned.
Finds(d, c, k, x) ==
    \/ x = -1 /\ \A i \in 0..(c - 1) : ~Stops(d, c, k, i)
    \/ \E i \in 0..(c - 1) :
          LET passed == {j \in 0..(i - 1) : d[Probe(c, k, j)].state = "DELETED"}
          IN  /\ Stops(d, c, k, i)
              /\ \A j \in 0..(i - 1) : ~Stops(d, c, k, j)
              /\ IF d[Probe(c, k, i)].state = "FULL" \/ passed = {}
                 THEN x = Probe(c, k, i)
                 ELSE \E j \in passed : (\A h \in passed : j <= h) /\ x = Probe(c, k, j)

-----------------------------------------------------------------------------
(* Capacities.                                                               *)

\* closestHigherPrime(num) returns p: the first prime from num on (even candidates are
\* skipped, they are no primes).
closestHigherPrime(num, p) ==
    IF num <= 2 THEN p = 2
    ELSE p \in num..MaxPrime /\ isPrime(p) /\ \A q \in num..(p - 1) : ~isPrime(q)

LastCapacity == Capacities[Len(Capacities)]

\* hashTableNextPrime turns num into c: the next entry of the list (by binary search),
\* then a prime near twice the number; 0 stands for the error when no prime is left.
hashTableNextPrime(num, c) ==
    IF num >= LastCapacity
    THEN IF num >= MaxPrime THEN c = 0
         ELSE closestHigherPrime(IF num >= MaxPrime \div 2 THEN num + 1 ELSE num * 2, c)
    ELSE \E n \in 1..Len(Capacities) :
            /\ c = Capacities[n] /\ c > num
            /\ \A m \in 1..Len(Capacities) : Capacities[m] > num => c <= Capacities[m]

-----------------------------------------------------------------------------
(* hashTableInsert.                                                          *)

Overloaded_Never(size, c) == FALSE

Overloaded(size, c) == (size + 1) * LOAD_FACTOR_DENUM >= c * LOAD_FACTOR_NUM

\* The table may grow also when the key is there already.
InsertBegins(k, v) ==
    /\ pc = "idle"
    /\ arg' = [key |-> k, value |-> v]
    /\ pc' = IF Overloaded(currentSize, capacity) THEN "resize" ELSE "store"
    /\ UNCHANGED <<data, capacity, currentSize, old, next, res>>

\* The operation in progress returns st and leaves the table d with c slots behind.
InsertFails(st, d, c) ==
    /\ data' = d /\ capacity' = c
    /\ pc' = "idle" /\ old' = NoData /\ next' = 0 /\ arg' = NoArg
    /\ res' = Result("insert", st, Unset)
    /\ UNCHANGED currentSize

ResizeBegins ==
    /\ pc = "resize"
    /\ \E c \in (0..MaxPrime) \cup {Capacities[n] : n \in 1..Len(Capacities)} :
          /\ hashTableNextPrime(capacity, c)
          /\ \/ c = 0 /\ InsertFails("ERROR_INT_OVERFLOW", data, capacity)
             \/ c # 0 /\ InsertFails("ERROR_MALLOC_FAILURE", data, capacity)
             \/ /\ c # 0
                /\ data' = Fresh(c) /\ capacity' = c
                /\ old' = data /\ next' = 0 /\ pc' = "move"
                /\ UNCHANGED <<currentSize, arg, res>>

\* An item without a slot in the new table is dropped.
MoveItem_Drops ==
    /\ pc = "move" /\ next \in DOMAIN old
    /\ LET s == old[next]
       IN  \/ /\ s.state = "FULL" => Finds(data, capacity, s.key, -1)
              /\ next' = next + 1
              /\ UNCHANGED <<data, capacity, currentSize, pc, old, arg, res>>
           \/ /\ s.state = "FULL"
              /\ \E x \in DOMAIN data :
                    /\ Finds(data, capacity, s.key, x)
                    /\ data' = [data EXCEPT ![x] = s]
              /\ next' = next + 1
              /\ UNCHANGED <<capacity, currentSize, pc, old, arg, res>>

\* An item without a slot in the new table brings the old one back.
MoveItem ==
    /\ pc = "move" /\ next \in DOMAIN old
    /\ LET s == old[next]
       IN  \/ /\ s.state # "FULL"
              /\ next' = next + 1
              /\ UNCHANGED <<data, capacity, currentSize, pc, old, arg, res>>
           \/ /\ s.state = "FULL"
              /\ \E x \in DOMAIN data :
                    /\ Finds(data, capacity, s.key, x)
                    /\ data' = [data EXCEPT ![x] = s]
              /\ next' = next + 1
              /\ UNCHANGED <<capacity, currentSize, pc, old, arg, res>>
           \/ /\ s.state = "FULL" /\ Finds(data, capacity, s.key, -1)
              /\ InsertFails("ERROR_INDEX_OUT_OF_BOUNDS", old, Cardinality(DOMAIN old))

ResizeEnds ==
    /\ pc = "move" /\ next \notin DOMAIN old
    /\ pc' = "store" /\ old' = NoData /\ next' = 0
    /\ UNCHANGED <<data, capacity, currentSize, arg, res>>

StoreItem_CountsUpdates ==
    /\ pc = "store"
    /\ \E x \in DOMAIN data :
          /\ Finds(data, capacity, arg.key, x)
          /\ data' = [data EXCEPT ![x] = Full(arg.key, arg.value)]
    /\ currentSize' = currentSize + 1
    /\ pc' = "idle" /\ arg' = NoArg
    /\ res' = Result("insert", "SUCCESS", Unset)
    /\ UNCHANGED <<capacity, old, next>>

\* A tombstone that is reused counts as a new item.
StoreItem ==
    /\ pc = "store"
    /\ \/ \E x \in DOMAIN data :
             /\ Finds(data, capacity, arg.key, x)
             /\ data' = [data EXCEPT ![x] = Full(arg.key, arg.value)]
             /\ currentSize' = IF data[x].state = "FULL" THEN currentSize ELSE currentSize + 1
             /\ pc' = "idle" /\ arg' = NoArg
             /\ res' = Result("insert", "SUCCESS", Unset)
             /\ UNCHANGED <<capacity, old, next>>
       \/ /\ ~Finds(data, capacity, arg.key, -1)
          /\ InsertFails("ERROR_MALLOC_FAILURE", data, capacity)
       \/ /\ Finds(data, capacity, arg.key, -1)
          /\ InsertFails("ERROR_INDEX_OUT_OF_BOUNDS", data, capacity)

-----------------------------------------------------------------------------
(* The other operations.                                                     *)

hashTableRemove_Empties(k) ==
    /\ pc = "idle"
    /\ \E x \in -1..(capacity - 1) :
          /\ Finds(data, capacity, k, x)
          /\ IF x = -1 \/ data[x].state # "FULL" THEN UNCHANGED <<data, currentSize>>
             ELSE /\ data' = [data EXCEPT ![x] = Empty]
                  /\ currentSize' = currentSize - 1
    /\ res' = Result("remove", "SUCCESS", Unset)
    /\ UNCHANGED <<capacity, pc, old, next, arg>>

hashTableRemove_AlwaysCounts(k) ==
    /\ pc = "idle"
    /\ \E x \in -1..(capacity - 1) :
          /\ Finds(data, capacity, k, x)
          /\ data' = IF x = -1 THEN data ELSE [data EXCEPT ![x] = Deleted]
    /\ currentSize' = currentSize - 1
    /\ res' = Result("remove", "SUCCESS", Unset)
    /\ UNCHANGED <<capacity, pc, old, next, arg>>

hashTableRemove(k) ==
    /\ pc = "idle"
    /\ \E x \in -1..(capacity - 1) :
          /\ Finds(data, capacity, k, x)
          /\ IF x = -1 \/ data[x].state # "FULL" THEN UNCHANGED <<data, currentSize>>
             ELSE /\ data' = [data EXCEPT ![x] = Deleted]
                  /\ currentSize' = currentSize - 1
    /\ res' = Result("remove", "SUCCESS", Unset)
    /\ UNCHANGED <<capacity, pc, old, next, arg>>

hashTableGetValue(k) ==
    /\ pc = "idle"
    /\ \E x \in -1..(capacity - 1) :
          /\ Finds(data, capacity, k, x)
          /\ res' = IF x = -1 THEN Result("get", "ERROR_INDEX_OUT_OF_BOUNDS", Unset)
                    ELSE IF data[x].state # "FULL" THEN Result("get", "ERROR_HTAB_ITEM", Unset)
                    ELSE Result("get", "SUCCESS", data[x].value)
    /\ UNCHANGED <<data, capacity, currentSize, pc, old, next, arg>>

\* What hashTableIterNext yields until it returns 0: every full slot of d once.
Items(d) == {x \in DOMAIN d : d[x].state = "FULL"}

-----------------------------------------------------------------------------

\* hashTableCtor.
Init ==
    /\ capacity = Capacities[1]
    /\ data = Fresh(Capacities[1])
    /\ currentSize = 0
    /\ pc = "idle"
    /\ old = NoData /\ next = 0 /\ arg = NoArg
    /\ res = Result("none", "SUCCESS", Unset)

hashTableInsert(k, v) == InsertBegins(k, v)
InsertGoesOn == ResizeBegins \/ MoveItem \/ ResizeEnds \/ StoreItem

Next == \/ \E k \in Key : \/ \E v \in Value : hashTableInsert(k, v)
                          \/ hashTableRemove(k)
                          \/ hashTableGetValue(k)
        \/ InsertGoesOn

Spec == Init /\ [][Next]_vars

-----------------------------------------------------------------------------
(* Properties.                                                               *)

TypeOK ==
    /\ capacity \in Nat \ {0, 1}
    /\ data \in [0..(capacity - 1) -> Slot]
    /\ currentSize \in Nat
    /\ pc \in {"idle", "resize", "move", "store"}
    /\ DOMAIN old \subseteq Nat /\ \A x \in DOMAIN old : old[x] \in Slot
    /\ next \in Nat
    /\ arg.key \in Key \cup {Unset} /\ arg.value \in Value \cup {Unset}
    /\ res.st \in Error \cup {"SUCCESS"}

\* The table that holds the variables, also while its items are being moved.
Current == IF pc = "move" THEN old ELSE data

\* buildEnvp (execute.c:346) allocates hashTableGetCurrSize strings and writes one for
\* each item the iterator yields: the counter has to be exact after every sequence of
\* inserts, updates, removals, reused tombstones, growths and failures.
EnvpFits == currentSize = Cardinality(Items(Current))

\* Every item is found where it is: no slot on its way was emptied, by a removal or by
\* moving the items in another order than they came.
Findable ==
    /\ \A x \in Items(Current) : Finds(Current, Cardinality(DOMAIN Current), Current[x].key, x)
    /\ pc = "move" => \A x \in Items(data) : Finds(data, capacity, data[x].key, x)

\* The load factor promised in hash-table.c:61 holds when the insert is over.
LoadBelow ==
    pc = "idle" /\ currentSize > 0 => currentSize * LOAD_FACTOR_DENUM < capacity * LOAD_FACTOR_NUM

ProbesEverySlot(c) == \A k \in Key : {Probe(c, k, i) : i \in 0..(c - 1)} = 0..(c - 1)

\* The capacities chosen make the probe sequence of every key visit every slot, as
\* hash-table.c:268 says ("guaranteed because of a prime number"), as long as the largest
\* base + i * step is a uint32_t: it is not from capacity 98317 on, the last of the list.
ProbesAllBelowOverflow ==
    (capacity - 1) * (capacity - 1) + (capacity - 1) < Modulus => ProbesEverySlot(capacity)

\* The table is a map: a failed operation, a growth and a rollback change no variable,
\* a lookup finds the value of the last successful insert, a removed name stays removed.
ValueOf(d, k) ==
    IF \E x \in DOMAIN d : d[x].state = "FULL" /\ d[x].key = k
    THEN d[CHOOSE x \in DOMAIN d : d[x].state = "FULL" /\ d[x].key = k].value
    ELSE Unset

Map == INSTANCE EnvMap
       WITH map <- [k \in Key |-> ValueOf(Current, k)],
            pending <- IF arg = NoArg THEN {} ELSE {<<arg.key, arg.value>>}

IsMap == Map!Spec
=============================================================================
