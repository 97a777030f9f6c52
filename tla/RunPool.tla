------------------------------- MODULE RunPool -------------------------------
(***************************************************************************)
(* The promise pool of runner/pool.ts: `concurrency` lanes share one       *)
(* cursor, each lane takes the next index and awaits the worker on it.     *)
(* A lane's iteration up to the await runs in one turn of the event loop,  *)
(* so reading and advancing the cursor is one step.  A worker that rejects *)
(* is swallowed: to the lane, rejecting and resolving are the same return. *)
(* Items are numbered from 1 (index 0 of the source is item 1).            *)
(***************************************************************************)
EXTENDS Naturals, FiniteSets

CONSTANTS
    Total,   \* number of items
    Limit    \* the `limit` argument, after Math.floor

ASSUME PoolAssumption == Total \in Nat /\ Limit \in Nat

VARIABLES
    cursor,  \* next item to hand out
    lane     \* lane[l]: the item lane l awaits, Free or Exited

poolVars == <<cursor, lane>>

Items  == 1..Total
Free   == 0            \* between two items, or not opened yet
Exited == Total + 1    \* the lane's promise has resolved

\* No lane is opened for an empty list; otherwise max(1, min(limit, total)).
Concurrency ==
    IF Total = 0 \/ Limit >= Total THEN Total ELSE IF Limit = 0 THEN 1 ELSE Limit

Lanes == 1..Concurrency

Launched == cursor > 1

InFlight == {lane[l] : l \in Lanes} \cap Items

PoolSettled == \A l \in Lanes : lane[l] = Exited

-----------------------------------------------------------------------------
PoolInit ==
    /\ cursor = 1
    /\ lane = [l \in Lanes |-> Free]

\* Every lane runs synchronously to its first await before any worker
\* continues, so the loop that opens the lanes hands out the first items.
Launch ==
    /\ ~Launched
    /\ Lanes # {}
    /\ lane' = [l \in Lanes |-> l]
    /\ cursor' = Concurrency + 1

Take(l) ==
    /\ Launched
    /\ lane[l] = Free
    /\ cursor <= Total
    /\ lane' = [lane EXCEPT ![l] = cursor]
    /\ cursor' = cursor + 1

\* Mutated form: a rejecting worker ends its lane, the error not swallowed.
ReturnLeaks(l) ==
    /\ lane[l] \in Items
    /\ \E next \in {Free, Exited} : lane' = [lane EXCEPT ![l] = next]
    /\ UNCHANGED cursor

\* The worker settles; what it rejected with is dropped.
Return(l) ==
    /\ lane[l] \in Items
    /\ lane' = [lane EXCEPT ![l] = Free]
    /\ UNCHANGED cursor

\* Mutated form: the bound is off by one and nobody leaves at Total + 1.
ExitLate(l) ==
    /\ Launched /\ lane[l] = Free /\ cursor > Total + 1
    /\ lane' = [lane EXCEPT ![l] = Exited]
    /\ cursor' = cursor + 1

\* The cursor is advanced before the bound is tested, so it runs past Total.
Exit(l) ==
    /\ Launched
    /\ lane[l] = Free
    /\ cursor > Total
    /\ lane' = [lane EXCEPT ![l] = Exited]
    /\ cursor' = cursor + 1

PoolStep(l) == Take(l) \/ Return(l) \/ Exit(l)

PoolNext == Launch \/ \E l \in Lanes : PoolStep(l)

PoolSpec == PoolInit /\ [][PoolNext]_poolVars

-----------------------------------------------------------------------------
\* Type invariant: the cursor ends one past Total for every lane that exits.
PoolTypeOK ==
    /\ cursor \in 1..(Total + Concurrency + 1)
    /\ lane \in [Lanes -> Items \cup {Free, Exited}]

\* Two lanes never await the same item, and what a lane holds is behind the
\* cursor: the shared cursor hands an index to exactly one lane.
LanesDisjoint ==
    \A l, m \in Lanes :
        /\ lane[l] \in Items => lane[l] < cursor
        /\ lane[l] \in Items /\ lane[m] = lane[l] => l = m

\* A lane exits only when nothing is left to hand out, so one rejecting
\* worker cannot make the pool resolve with items that never ran.
ExitOnlyWhenDrained ==
    (\E l \in Lanes : lane[l] = Exited) => cursor > Total
=============================================================================
