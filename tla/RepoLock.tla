------------------------------- MODULE RepoLock -------------------------------
(***************************************************************************)
(* withRepoLock of workspace/index.ts: git commands on one repository are  *)
(* serialised by a chain of promises.  repoQueues maps a key to the        *)
(* promise at the end of its chain; a call awaits that promise and leaves  *)
(* its own behind, `previous.then(() => slot)`, which settles only when    *)
(* the predecessor's has settled and its own slot is released.             *)
(*                                                                         *)
(* One element of Calls is one call of withRepoLock.  The turn of the      *)
(* event loop between two awaits is one action; settling a chained         *)
(* promise is a microtask, so an action of its own.                        *)
(***************************************************************************)
EXTENDS Naturals, FiniteSets

CONSTANTS
    Calls,    \* calls of withRepoLock
    Keys,     \* resolved repository paths
    KeyOf,    \* KeyOf[c]: resolve(repoPath) of call c
    NoCall    \* the promise that is already resolved; an absent map entry

ASSUME RepoLockAssumption ==
    /\ KeyOf \in [Calls -> Keys]
    /\ NoCall \notin Calls

VARIABLES
    pc,          \* "idle", "waiting", "running" or "left"
    previous,    \* previous[c]: the call whose chained promise c awaits
    settled,     \* calls whose chained promise has resolved
    repoQueues,  \* repoQueues[k]: the call whose chained promise is mapped to k
    clock,       \* history: number of calls made so far
    ticket       \* history: ticket[c] is c's place in that order

vars == <<pc, previous, settled, repoQueues, clock, ticket>>

Init ==
    /\ pc = [c \in Calls |-> "idle"]
    /\ previous = [c \in Calls |-> NoCall]
    /\ settled = {}
    /\ repoQueues = [k \in Keys |-> NoCall]
    /\ clock = 0
    /\ ticket = [c \in Calls |-> 0]

-----------------------------------------------------------------------------
\* Mutated form: the chained promise is not left in the map.
ArriveUnchained(c) ==
    /\ pc[c] = "idle"
    /\ pc' = [pc EXCEPT ![c] = "waiting"]
    /\ previous' = [previous EXCEPT ![c] = repoQueues[KeyOf[c]]]
    /\ repoQueues' = [repoQueues EXCEPT ![KeyOf[c]] = IF @ = NoCall THEN c ELSE @]
    /\ clock' = clock + 1
    /\ ticket' = [ticket EXCEPT ![c] = clock']
    /\ UNCHANGED settled

\* Reading the end of the chain and putting the new end in its place happen
\* in the turn of the call, before its first await.
Arrive(c) ==
    /\ pc[c] = "idle"
    /\ pc' = [pc EXCEPT ![c] = "waiting"]
    /\ previous' = [previous EXCEPT ![c] = repoQueues[KeyOf[c]]]
    /\ repoQueues' = [repoQueues EXCEPT ![KeyOf[c]] = c]
    /\ clock' = clock + 1
    /\ ticket' = [ticket EXCEPT ![c] = clock']
    /\ UNCHANGED settled

\* `await previous` returns and the task is called in the same turn.
Enter(c) ==
    /\ pc[c] = "waiting"
    /\ previous[c] \in settled \cup {NoCall}
    /\ pc' = [pc EXCEPT ![c] = "running"]
    /\ UNCHANGED <<previous, settled, repoQueues, clock, ticket>>

\* Mutated form: the map entry is deleted whoever it belongs to.
LeaveDeletesAlways(c) ==
    /\ pc[c] = "running"
    /\ pc' = [pc EXCEPT ![c] = "left"]
    /\ repoQueues' = [repoQueues EXCEPT ![KeyOf[c]] = NoCall]
    /\ UNCHANGED <<previous, settled, clock, ticket>>

\* Mutated form: the entry is kept, so the map grows with every repository.
LeaveKeepsEntry(c) ==
    /\ pc[c] = "running"
    /\ pc' = [pc EXCEPT ![c] = "left"]
    /\ UNCHANGED <<previous, settled, repoQueues, clock, ticket>>

\* The task resolves or throws; either way `finally` releases the slot and
\* drops the map entry when nobody has queued up behind.
Leave(c) ==
    /\ pc[c] = "running"
    /\ pc' = [pc EXCEPT ![c] = "left"]
    /\ repoQueues' = [repoQueues EXCEPT ![KeyOf[c]] = IF @ = c THEN NoCall ELSE @]
    /\ UNCHANGED <<previous, settled, clock, ticket>>

\* `previous.then(() => slot)`: the predecessor first, then c's own slot.
Settle(c) ==
    /\ c \notin settled
    /\ previous[c] \in settled \cup {NoCall}
    /\ pc[c] = "left"
    /\ settled' = settled \cup {c}
    /\ UNCHANGED <<pc, previous, repoQueues, clock, ticket>>

Next == \E c \in Calls : Arrive(c) \/ Enter(c) \/ Leave(c) \/ Settle(c)

\* Promises are resolved by the event loop, and a task is a git command that
\* returns.  A call need not be made.
Fairness ==
    \A c \in Calls : WF_vars(Enter(c)) /\ WF_vars(Leave(c)) /\ WF_vars(Settle(c))

Spec == Init /\ [][Next]_vars /\ Fairness

-----------------------------------------------------------------------------
Arrived(c) == pc[c] # "idle"
Rivals(c)  == {d \in Calls : d # c /\ KeyOf[d] = KeyOf[c]}

\* Type invariant of the lock.
TypeOK ==
    /\ pc \in [Calls -> {"idle", "waiting", "running", "left"}]
    /\ previous \in [Calls -> Calls \cup {NoCall}]
    /\ settled \in SUBSET Calls
    /\ repoQueues \in [Keys -> Calls \cup {NoCall}]
    /\ clock \in Nat
    /\ ticket \in [Calls -> Nat]

\* At most one git task runs on a repository at a time.
MutualExclusion ==
    \A c \in Calls : pc[c] = "running" => \A d \in Rivals(c) : pc[d] # "running"

\* A call that has entered was not overtaken: every call of its repository
\* made before it has left.
FirstComeFirstServed ==
    \A c \in Calls : pc[c] \in {"running", "left"} =>
        \A d \in Rivals(c) : Arrived(d) /\ ticket[d] < ticket[c] => pc[d] = "left"

\* repoQueues holds an entry exactly for the repositories somebody is using,
\* so the map does not grow over a long matrix, and an entry that is dropped
\* never belonged to a call that others still wait behind.
MapHoldsOnlyBusyRepos ==
    \A k \in Keys :
        repoQueues[k] # NoCall <=>
            \E c \in Calls : KeyOf[c] = k /\ pc[c] \in {"waiting", "running"}

\* The members of a set in the order of their ranks.
Place(S, rank, c) == 1 + Cardinality({d \in S : rank[d] < rank[c]})
InOrder(S, rank) ==
    [n \in 1..Cardinality(S) |-> CHOOSE c \in S : Place(S, rank, c) = n]

\* The calls that have asked for a repository and not left it.
Held(k) == {c \in Calls : KeyOf[c] = k /\ pc[c] \in {"waiting", "running"}}

\* The abstract lock, its queues read off the order of the calls.
Queues == [k \in Keys |-> InOrder(Held(k), ticket)]
Running == {c \in Calls : pc[c] = "running"}

Mutex == INSTANCE FifoMutex WITH queue <- Queues, inside <- Running

\* The promise chain implements a first-in first-out lock for each key.
ImplementsFifoMutex == Mutex!Spec
=============================================================================
