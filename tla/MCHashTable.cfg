SPECIFICATION Spec
CONSTANTS
    k1 = k1
    k2 = k2
    k3 = k3
    k4 = k4
    k5 = k5
    v1 = v1
    v2 = v2
    Unset = Unset
    Key <- MCKey
    Value = {v1, v2}
    Hash1 <- MCHash1
    Hash2 <- MCHash2
    Modulus = 8
    Capacities <- MCCapacities
    MaxPrime = 7
INVARIANTS
    TypeOK
    EnvpFits
    Findable
    LoadBelow
    ProbesAllBelowOverflow
PROPERTIES
    IsMap
SYMMETRY MCSymmetry
