------------------------------ MODULE FifoMutex ------------------------------
(***************************************************************************)
(* What git operations on a scenario repository rely on: for every key at  *)
(* most one call is inside its task, calls of one key enter in the order   *)
(* in which they asked, and no call waits forever.                         *)
(***************************************************************************)
EXTENDS Naturals, Sequences

CONSTANTS
    Calls,   \* the calls of the critical section
    Keys,    \* what they lock
    KeyOf    \* KeyOf[c]: the key call c locks

VARIABLES
    queue,   \* queue[k]: calls that asked for k and have not left it
    inside   \* calls whose task is running

vars == <<queue, inside>>

Init ==
    /\ queue = [k \in Keys |-> <<>>]
    /\ inside = {}

Queued == UNION {{queue[k][n] : n \in 1..Len(queue[k])} : k \in Keys}

Ask(c) ==
    /\ c \notin Queued
    /\ queue' = [queue EXCEPT ![KeyOf[c]] = Append(@, c)]
    /\ UNCHANGED inside

Enter(c) ==
    /\ queue[KeyOf[c]] # <<>>
    /\ c = Head(queue[KeyOf[c]])
    /\ c \notin inside
    /\ inside' = inside \cup {c}
    /\ UNCHANGED queue

Leave(c) ==
    /\ c \in inside
    /\ inside' = inside \ {c}
    /\ queue' = [queue EXCEPT ![KeyOf[c]] = Tail(@)]

Next == \E c \in Calls : Ask(c) \/ Enter(c) \/ Leave(c)

Spec ==
    /\ Init /\ [][Next]_vars
    /\ \A c \in Calls : WF_vars(Enter(c)) /\ WF_vars(Leave(c))
=============================================================================
