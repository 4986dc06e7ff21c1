----------------------------- MODULE MCRedirect -----------------------------
(***************************************************************************)
(* Module Redirect on sessions of two commands and an echo after them.     *)
(* The shell at a terminal has three descriptors, the one that runs a      *)
(* script a fourth; seven descriptors leave one or none free in a builtin. *)
(***************************************************************************)
EXTENDS Redirect

CONSTANTS file1, file2

MCFile == {file1, file2}
MCItem == {1, 2, 3}

OnTerminal == [n \in Fd |-> IF n \in Std THEN Opened(Terminal, TRUE) ELSE Closed]
MCStarts == {OnTerminal, [OnTerminal EXCEPT ![3] = Opened(file1, FALSE)]}

R(op, fd, to) == [op |-> op, fd |-> fd, file |-> file1, to |-> to]
RG(op, fd) == [op |-> op, fd |-> fd, file |-> file2, to |-> 0]

\* > < <> 2> 2>&1 >&2 <&1 >&- and a word that is no number; then the descriptors from 3 on.
Standard == {RG("GREAT", -1), R("GREAT", 2, 0), R("LESS", -1, 0), R("LESSGREAT", 1, 0),
             R("GREATAND", 2, 1), R("GREATAND", -1, 2), R("LESSAND", -1, 1),
             R("GREATAND", -1, -1), R("GREATAND", -1, -2), R("HEREDOC", -1, 0)}
Others == {R("GREAT", 3, 0), R("GREAT", 5, 0), R("GREATAND", -1, 3), R("GREAT", 9, 0)}

C(kind, redirs, prints) == [kind |-> kind, redirs |-> redirs, prints |-> prints]
Two == {<<>>} \cup {<<r>> : r \in Standard \cup Others} \cup (Standard \X Standard)
        \cup {<<r, s>> : r \in Others, s \in {RG("GREAT", -1), R("GREATAND", 2, 1), R("GREATAND", -1, 3)}}
One == {<<>>} \cup {<<r>> : r \in Standard \cup Others}

MCSessions ==
    {<<C(k, rs, 1), C(l, ss, 2), C("BUILTIN", <<>>, 3)>> : k \in Kind, rs \in One, l \in Kind, ss \in {<<>>, <<RG("GREAT", -1)>>}}
    \cup {<<C(k, rs, 1), C("BUILTIN", <<>>, 2)>> : k \in Kind, rs \in Two}
    \cup {<<C("ONLY", <<r>>, 1), C("BUILTIN", ss, 2)>> : r \in Standard, ss \in Two}
=============================================================================
