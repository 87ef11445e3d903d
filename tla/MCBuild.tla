-------------------------------- MODULE MCBuild --------------------------------
(* Build for TLC: what the processes are asked.                             *)
EXTENDS Build, TLC

Names(c, kind) == \E i \in DOMAIN c.inputs : c.inputs[i] = kind

\* One process is asked for anything but ll files, the others for one file each
\* that takes a temporary one.
Neighbours ==
    {c \in Call : /\ Len(c.inputs) = 1
                  /\ \E kind \in {"source", "ir", "bitcode", "text"} : Names(c, kind)}
Together ==
    {r \in [Proc -> {c \in Call : ~ Names(c, "ir")} \cup Neighbours] :
        \A p \in Proc : IF p \in Promised THEN ~ Names(r[p], "ir") ELSE r[p] \in Neighbours}

\* One process is asked for ll files and objects.
LinkIr == [Proc -> {c \in Call : \A i \in DOMAIN c.inputs : c.inputs[i] \in {"ir", "object"}}]
=============================================================================
