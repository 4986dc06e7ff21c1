------------------------------ MODULE MCSession ------------------------------
(***************************************************************************)
(* Module Session on all sequences of up to MaxLines of eight lines:       *)
(* definitions, calls, nested and recursive calls, a function that         *)
(* defines itself or its caller anew while it runs, a function with the    *)
(* name of a special builtin, exit, an empty line and a syntax error.      *)
(***************************************************************************)
EXTENDS Session

CONSTANT MaxLines

Calls(name) == [op |-> "CALL", name |-> name, body |-> "callG"]
Defines(name, body) == [op |-> "DEFINE", name |-> name, body |-> body]

MCName == {"f", "g", "exit"}
MCSpecial == {"exit"}

MCList ==
    [callF |-> <<Calls("f")>>,
     callG |-> <<Calls("g")>>,
     leave |-> <<Calls("exit"), Calls("f")>>,
     again |-> <<Defines("f", "callG"), Calls("f"), Calls("g")>>,
     defF  |-> <<Defines("f", "again"), Calls("f")>>,
     defG  |-> <<Defines("g", "leave"), Defines("f", "callG")>>,
     defX  |-> <<Defines("exit", "callF"), Defines("g", "callF"), Calls("g")>>]

MCInputs == UNION {[1..n -> {"callF", "callG", "leave", "defF", "defG", "defX", Rejected, Empty}] :
                   n \in 0..MaxLines}
MCListId == DOMAIN MCList
=============================================================================
