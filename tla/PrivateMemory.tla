--------------------------- MODULE PrivateMemory ---------------------------
(***************************************************************************)
(* What fork promises a process about its private memory (spec 4.3 and    *)
(* the copy-on-write fork scenario of section 8): every live process has   *)
(* its own contents for each of its private pages; a write changes the     *)
(* writer's page only; fork gives the child a copy of the parent's pages   *)
(* at the moment of the fork.  A page never written reads as zero (an      *)
(* anonymous object fills new pages with zeros).                           *)
(***************************************************************************)
CONSTANTS
    Procs,      \* process slots
    Init0,      \* the process that exists at the start
    AreaIds,    \* the private pages of a process
    Values,     \* values a user program writes
    Zero        \* the contents of a page nobody wrote

VARIABLES live, mem

Zeros == [a \in AreaIds |-> Zero]

Init ==
    /\ live = {Init0}
    /\ mem = [p \in Procs |-> Zeros]

Write(p, a, v) ==
    /\ p \in live
    /\ mem' = [mem EXCEPT ![p][a] = v]
    /\ UNCHANGED live

Fork(p, c) ==
    /\ p \in live /\ c \notin live
    /\ live' = live \cup {c}
    /\ mem' = [mem EXCEPT ![c] = mem[p]]

\* An exited process's slot holds nothing until it is reused.
Exit(p) ==
    /\ p \in live
    /\ live' = live \ {p}
    /\ mem' = [mem EXCEPT ![p] = Zeros]

Next ==
    \/ \E p \in Procs, a \in AreaIds, v \in Values : Write(p, a, v)
    \/ \E p, c \in Procs : Fork(p, c)
    \/ \E p \in Procs : Exit(p)

Spec == Init /\ [][Next]_<<live, mem>>
=============================================================================
