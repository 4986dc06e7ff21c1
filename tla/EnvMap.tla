------------------------------- MODULE EnvMap -------------------------------
(***************************************************************************)
(* What src/data-structures/hash-table.h promises the rest of the shell: a *)
(* map from variable names to values.  An operation that fails changes     *)
(* nothing; a lookup tells the value of the last successful insert.        *)
(***************************************************************************)
CONSTANTS
    Key,       \* names of variables
    Value,     \* their values
    Unset,     \* the value of a name that is not in the map
    Error      \* status codes other than SUCCESS

VARIABLES
    map,       \* map[k]: the value of k or Unset
    pending,   \* the insert that has begun, or {}
    res        \* the result of the last operation that ended

vars == <<map, pending, res>>

Result(op, st, v) == [op |-> op, st |-> st, value |-> v]

Init ==
    /\ map = [k \in Key |-> Unset]
    /\ pending = {}
    /\ res = Result("none", "SUCCESS", Unset)

BeginInsert(k, v) ==
    /\ pending = {}
    /\ pending' = {<<k, v>>}
    /\ UNCHANGED <<map, res>>

EndInsert(k, v) ==
    /\ pending = {<<k, v>>}
    /\ pending' = {}
    /\ \/ map' = [map EXCEPT ![k] = v] /\ res' = Result("insert", "SUCCESS", Unset)
       \/ UNCHANGED map /\ \E e \in Error : res' = Result("insert", e, Unset)

Remove(k) ==
    /\ pending = {}
    /\ map' = [map EXCEPT ![k] = Unset]
    /\ res' = Result("remove", "SUCCESS", Unset)
    /\ UNCHANGED pending

GetValue(k) ==
    /\ pending = {}
    /\ IF map[k] # Unset THEN res' = Result("get", "SUCCESS", map[k])
                         ELSE \E e \in Error : res' = Result("get", e, Unset)
    /\ UNCHANGED <<map, pending>>

Next == \E k \in Key : \/ \E v \in Value : BeginInsert(k, v) \/ EndInsert(k, v)
                       \/ Remove(k)
                       \/ GetValue(k)

Spec == Init /\ [][Next]_vars
=============================================================================
