--------------------------- MODULE RepoLock_proofs ---------------------------
(***************************************************************************)
(* Mutual exclusion and order of the repository lock, for any number of    *)
(* calls and repositories.                                                 *)
(***************************************************************************)
EXTENDS RepoLock, Sequences, FiniteSetTheorems, TLAPS

-----------------------------------------------------------------------------
(***************************************************************************)
(* Mutual exclusion is not inductive: that a waiting call may enter says   *)
(* nothing of its rivals unless the promise it awaits is known to stand    *)
(* for all of them.  The strengthening follows the chain: the awaited      *)
(* promise belongs to the latest earlier call of the same repository, a    *)
(* call with nothing to await had no unfinished predecessor, and the map   *)
(* points at the latest call of all, or at nothing once all have left.     *)
(***************************************************************************)
Active(c) == pc[c] \in {"waiting", "running"}

\* Tickets order the calls made so far and are bounded by the clock.
TicketsOrdered ==
    \A c \in Calls :
        /\ Arrived(c) => ticket[c] > 0 /\ ticket[c] <= clock
        /\ \A d \in Calls : Arrived(c) /\ Arrived(d) /\ ticket[c] = ticket[d] => c = d

\* A chained promise settles only after its call has left.
SettledHaveLeft == \A c \in settled : pc[c] = "left"

\* A call with no promise to await found no unfinished rival before it.
HeadsHaveNoElders ==
    \A c \in Calls : Arrived(c) /\ previous[c] = NoCall =>
        \A d \in Rivals(c) : Arrived(d) /\ ticket[d] < ticket[c] => pc[d] = "left"

\* The awaited promise belongs to the latest earlier call of the repository.
ChainIsTight ==
    \A c \in Calls : Arrived(c) /\ previous[c] # NoCall =>
        /\ previous[c] \in Rivals(c)
        /\ Arrived(previous[c])
        /\ ticket[previous[c]] < ticket[c]
        /\ \A d \in Rivals(c) : Arrived(d) /\ ticket[d] < ticket[c] =>
             ticket[d] <= ticket[previous[c]]

\* A mapped promise is that of the repository's latest call, still active.
MapPointsAtTail ==
    \A k \in Keys : repoQueues[k] # NoCall =>
        /\ KeyOf[repoQueues[k]] = k
        /\ Active(repoQueues[k])
        /\ \A d \in Calls : Arrived(d) /\ KeyOf[d] = k => ticket[d] <= ticket[repoQueues[k]]

\* An absent entry means that every call of the repository has left.
AbsentMeansQuiet ==
    \A k \in Keys : repoQueues[k] = NoCall =>
        \A d \in Calls : Arrived(d) /\ KeyOf[d] = k => pc[d] = "left"

IInv ==
    /\ TypeOK
    /\ TicketsOrdered
    /\ SettledHaveLeft
    /\ HeadsHaveNoElders
    /\ ChainIsTight
    /\ MapPointsAtTail
    /\ AbsentMeansQuiet
    /\ FirstComeFirstServed

-----------------------------------------------------------------------------
\* Every reachable state has the types the lock's bookkeeping expects.
THEOREM TypeCorrect == Spec => []TypeOK
<1>1. Init => TypeOK
  BY RepoLockAssumption DEF Init, TypeOK
<1>2. TypeOK /\ [Next]_vars => TypeOK'
  <2> SUFFICES ASSUME TypeOK, [Next]_vars PROVE TypeOK'
    OBVIOUS
  <2> USE RepoLockAssumption DEF TypeOK
  <2>1. ASSUME NEW c \in Calls, Arrive(c) PROVE TypeOK'
    BY <2>1 DEF Arrive
  <2>2. ASSUME NEW c \in Calls, Enter(c) PROVE TypeOK'
    BY <2>2 DEF Enter
  <2>3. ASSUME NEW c \in Calls, Leave(c) PROVE TypeOK'
    BY <2>3 DEF Leave
  <2>4. ASSUME NEW c \in Calls, Settle(c) PROVE TypeOK'
    BY <2>4 DEF Settle
  <2>5. CASE UNCHANGED vars
    BY <2>5 DEF vars
  <2> QED
    BY <2>1, <2>2, <2>3, <2>4, <2>5 DEF Next
<1> QED
  BY <1>1, <1>2, PTL DEF Spec

\* The initial state satisfies the inductive invariant: nobody has called.
LEMMA InitIInv == Init => IInv
  BY RepoLockAssumption
  DEF Init, IInv, TypeOK, TicketsOrdered, SettledHaveLeft, HeadsHaveNoElders,
      ChainIsTight, MapPointsAtTail, AbsentMeansQuiet, FirstComeFirstServed,
      Arrived, Active, Rivals

\* A call joins the chain behind every earlier call of its repository.
LEMMA ArriveIInv ==
    ASSUME IInv, NEW c \in Calls, Arrive(c)
    PROVE  IInv'
<1> DEFINE k == KeyOf[c]
<1> USE RepoLockAssumption
<1>0. /\ TypeOK /\ TypeOK'
      /\ pc[c] = "idle"
      /\ k \in Keys
  <2>1. TypeOK /\ pc[c] = "idle" /\ k \in Keys
    BY DEF IInv, TypeOK, Arrive
  <2>2. TypeOK'
    BY <2>1 DEF TypeOK, Arrive
  <2> QED BY <2>1, <2>2
<1>1. /\ ticket'[c] = clock + 1 /\ clock' = clock + 1
      /\ Arrived(c)' /\ pc'[c] = "waiting"
      /\ previous'[c] = repoQueues[k]
      /\ repoQueues'[k] = c
      /\ settled' = settled
  BY <1>0 DEF Arrive, Arrived, TypeOK
<1>2. \A d \in Calls : d # c =>
        /\ pc'[d] = pc[d] /\ ticket'[d] = ticket[d] /\ previous'[d] = previous[d]
        /\ (Arrived(d)' <=> Arrived(d)) /\ (Active(d)' <=> Active(d))
  BY <1>0 DEF Arrive, Arrived, Active, TypeOK
<1>3. \A j \in Keys : j # k => repoQueues'[j] = repoQueues[j]
  BY <1>0 DEF Arrive, TypeOK
<1>4. \A d \in Calls : Arrived(d) => d # c /\ ticket[d] \in Nat /\ ticket[d] < clock + 1
  BY <1>0 DEF IInv, TicketsOrdered, Arrived, TypeOK
<1>5. TicketsOrdered'
  BY <1>0, <1>1, <1>2, <1>4 DEF IInv, TicketsOrdered, TypeOK
<1>6. SettledHaveLeft'
  BY <1>0, <1>1, <1>2 DEF IInv, SettledHaveLeft, TypeOK
<1>7. \A d \in Calls : d # c => \A e \in Calls :
        Arrived(d) /\ Arrived(e)' /\ ticket'[e] < ticket'[d] => Arrived(e) /\ e # c
  BY <1>0, <1>1, <1>2, <1>4 DEF TypeOK
<1>8. HeadsHaveNoElders'
  <2> SUFFICES ASSUME NEW d \in Calls, Arrived(d)', previous'[d] = NoCall,
                      NEW e \in Rivals(d), Arrived(e)', ticket'[e] < ticket'[d]
               PROVE  pc'[e] = "left"
    BY DEF HeadsHaveNoElders, Rivals
  <2>1. CASE d = c
    BY <2>1, <1>0, <1>1, <1>2 DEF IInv, AbsentMeansQuiet, Rivals
  <2>2. CASE d # c
    BY <2>2, <1>1, <1>2, <1>7 DEF IInv, HeadsHaveNoElders, Rivals
  <2> QED BY <2>1, <2>2
<1>9. ChainIsTight'
  <2> SUFFICES ASSUME NEW d \in Calls, Arrived(d)', previous'[d] # NoCall
               PROVE  /\ previous'[d] \in Rivals(d)
                      /\ pc'[previous'[d]] # "idle"
                      /\ ticket'[previous'[d]] < ticket'[d]
                      /\ \A e \in Rivals(d) : Arrived(e)' /\ ticket'[e] < ticket'[d] =>
                           ticket'[e] <= ticket'[previous'[d]]
    BY DEF ChainIsTight, Arrived, Rivals
  <2>1. CASE d = c
    <3> DEFINE p == repoQueues[k]
    <3>1. p \in Calls /\ KeyOf[p] = k /\ Active(p)
      BY <2>1, <1>0, <1>1 DEF IInv, MapPointsAtTail, TypeOK
    <3>2. Arrived(p) /\ p # c
      BY <3>1, <1>0 DEF Active, Arrived
    <3>3. \A e \in Rivals(c) : Arrived(e) => ticket[e] <= ticket[p]
      BY <2>1, <1>0, <1>1 DEF IInv, MapPointsAtTail, Rivals
    <3> QED
      BY <2>1, <3>1, <3>2, <3>3, <1>1, <1>2, <1>4 DEF Rivals, Arrived
  <2>2. CASE d # c
    <3>1. /\ Arrived(d) /\ previous'[d] = previous[d] /\ previous[d] # NoCall
          /\ previous[d] \in Rivals(d) /\ Arrived(previous[d])
          /\ previous[d] # c
      BY <2>2, <1>0, <1>2, <1>4 DEF IInv, ChainIsTight
    <3>2. /\ ticket[previous[d]] < ticket[d]
          /\ \A e \in Rivals(d) : Arrived(e) /\ ticket[e] < ticket[d] =>
               ticket[e] <= ticket[previous[d]]
      BY <3>1 DEF IInv, ChainIsTight
    <3>3. previous[d] \in Calls /\ pc'[previous[d]] = pc[previous[d]]
          /\ ticket'[previous[d]] = ticket[previous[d]] /\ ticket'[d] = ticket[d]
      BY <2>2, <3>1, <1>2 DEF Rivals
    <3> QED
      BY <2>2, <3>1, <3>2, <3>3, <1>2, <1>7 DEF Rivals, Arrived
  <2> QED BY <2>1, <2>2
<1>10. MapPointsAtTail'
  <2> SUFFICES ASSUME NEW j \in Keys, repoQueues'[j] # NoCall
               PROVE  /\ KeyOf[repoQueues'[j]] = j
                      /\ pc'[repoQueues'[j]] \in {"waiting", "running"}
                      /\ \A d \in Calls : Arrived(d)' /\ KeyOf[d] = j =>
                           ticket'[d] <= ticket'[repoQueues'[j]]
    BY DEF MapPointsAtTail, Active, Arrived
  <2>1. CASE j = k
    BY <2>1, <1>0, <1>1, <1>2, <1>4 DEF Active, TypeOK
  <2>2. CASE j # k
    <3> DEFINE q == repoQueues[j]
    <3>1. repoQueues'[j] = q /\ q \in Calls /\ KeyOf[q] = j /\ q # c /\ Active(q)
      BY <2>2, <1>0, <1>3 DEF IInv, MapPointsAtTail, TypeOK
    <3>2. \A d \in Calls : Arrived(d) /\ KeyOf[d] = j => ticket[d] <= ticket[q]
      BY <2>2, <3>1 DEF IInv, MapPointsAtTail
    <3> QED
      BY <2>2, <3>1, <3>2, <1>1, <1>2 DEF Active
  <2> QED BY <2>1, <2>2
<1>11. AbsentMeansQuiet'
  BY <1>0, <1>1, <1>2, <1>3 DEF IInv, AbsentMeansQuiet, TypeOK
<1>12. FirstComeFirstServed'
  <2> SUFFICES ASSUME NEW d \in Calls, pc'[d] \in {"running", "left"},
                      NEW e \in Rivals(d), Arrived(e)', ticket'[e] < ticket'[d]
               PROVE  pc'[e] = "left"
    BY DEF FirstComeFirstServed, Rivals
  <2>1. d # c /\ Arrived(d) /\ pc[d] \in {"running", "left"}
    BY <1>1, <1>2 DEF Arrived
  <2> QED
    BY <2>1, <1>1, <1>2, <1>7 DEF IInv, FirstComeFirstServed, Rivals
<1> QED
  BY <1>0, <1>5, <1>6, <1>8, <1>9, <1>10, <1>11, <1>12 DEF IInv

\* A call enters only when every earlier call of its repository has left.
LEMMA EnterIInv ==
    ASSUME IInv, NEW c \in Calls, Enter(c)
    PROVE  IInv'
<1> USE RepoLockAssumption
<1>0. TypeOK /\ pc[c] = "waiting"
  BY DEF IInv, Enter
<1>1. /\ pc' = [pc EXCEPT ![c] = "running"]
      /\ previous' = previous /\ settled' = settled /\ repoQueues' = repoQueues
      /\ clock' = clock /\ ticket' = ticket
  BY DEF Enter
<1>2. TypeOK'
  BY <1>0, <1>1 DEF TypeOK
<1>3. \A d \in Calls :
        /\ Arrived(d)' <=> Arrived(d)
        /\ Active(d)' <=> Active(d)
        /\ pc'[d] = "left" <=> pc[d] = "left"
        /\ d # c => pc'[d] = pc[d]
  BY <1>0, <1>1 DEF TypeOK, Arrived, Active
<1>4. \A d \in Rivals(c) : Arrived(d) /\ ticket[d] < ticket[c] => pc[d] = "left"
  <2>1. Arrived(c)
    BY <1>0 DEF Arrived
  <2>2. CASE previous[c] = NoCall
    BY <2>1, <2>2 DEF IInv, HeadsHaveNoElders
  <2>3. CASE previous[c] # NoCall
    <3> DEFINE p == previous[c]
    <3>1. p \in settled /\ pc[p] = "left"
      BY <2>3 DEF Enter, IInv, SettledHaveLeft
    <3>2. /\ p \in Rivals(c) /\ Arrived(p)
          /\ \A d \in Rivals(c) : Arrived(d) /\ ticket[d] < ticket[c] => ticket[d] <= ticket[p]
      BY <2>1, <2>3 DEF IInv, ChainIsTight
    <3> SUFFICES ASSUME NEW d \in Rivals(c), Arrived(d), ticket[d] < ticket[c]
                 PROVE  pc[d] = "left"
      OBVIOUS
    <3>3. CASE d = p
      BY <3>1, <3>3
    <3>4. CASE d # p
      <4>1. d \in Rivals(p) /\ p \in Calls /\ d \in Calls
        BY <3>2, <3>4 DEF Rivals
      <4>2. ticket[d] \in Nat /\ ticket[p] \in Nat /\ ticket[d] <= ticket[p] /\ ticket[d] # ticket[p]
        BY <1>0, <3>2, <3>4, <4>1 DEF IInv, TicketsOrdered, TypeOK
      <4> QED
        BY <3>1, <4>1, <4>2 DEF IInv, FirstComeFirstServed
    <3> QED BY <3>3, <3>4
  <2> QED BY <2>2, <2>3
<1>5. TicketsOrdered'
  BY <1>1, <1>3 DEF IInv, TicketsOrdered
<1>6. SettledHaveLeft'
  BY <1>0, <1>1, <1>3 DEF IInv, SettledHaveLeft, TypeOK
<1>7. HeadsHaveNoElders'
  BY <1>1, <1>3 DEF IInv, HeadsHaveNoElders, Rivals
<1>8. ChainIsTight'
  BY <1>1, <1>3 DEF IInv, ChainIsTight, Rivals
<1>9. MapPointsAtTail'
  BY <1>0, <1>1, <1>3 DEF IInv, MapPointsAtTail, TypeOK
<1>10. AbsentMeansQuiet'
  BY <1>1, <1>3 DEF IInv, AbsentMeansQuiet
<1>11. FirstComeFirstServed'
  <2> SUFFICES ASSUME NEW d \in Calls, pc'[d] \in {"running", "left"},
                      NEW e \in Rivals(d), Arrived(e), ticket[e] < ticket[d]
               PROVE  pc[e] = "left"
    BY <1>1, <1>3 DEF FirstComeFirstServed, Rivals
  <2>1. CASE d = c
    BY <2>1, <1>4
  <2>2. CASE d # c
    BY <2>2, <1>3 DEF IInv, FirstComeFirstServed
  <2> QED BY <2>1, <2>2
<1> QED
  BY <1>2, <1>5, <1>6, <1>7, <1>8, <1>9, <1>10, <1>11 DEF IInv

\* A call that leaves drops the map entry only when it is the latest.
LEMMA LeaveIInv ==
    ASSUME IInv, NEW c \in Calls, Leave(c)
    PROVE  IInv'
<1> USE RepoLockAssumption
<1>0. TypeOK /\ pc[c] = "running" /\ KeyOf[c] \in Keys
  BY DEF IInv, Leave
<1>1. /\ pc' = [pc EXCEPT ![c] = "left"]
      /\ repoQueues' = [repoQueues EXCEPT ![KeyOf[c]] = IF @ = c THEN NoCall ELSE @]
      /\ previous' = previous /\ settled' = settled
      /\ clock' = clock /\ ticket' = ticket
  BY DEF Leave
<1>2. TypeOK'
  BY <1>0, <1>1 DEF TypeOK
<1>3. \A d \in Calls :
        /\ Arrived(d)' <=> Arrived(d)
        /\ d # c => pc'[d] = pc[d]
        /\ pc[d] = "left" => pc'[d] = "left"
        /\ pc'[d] \in {"running", "left"} => pc[d] \in {"running", "left"}
  BY <1>0, <1>1 DEF TypeOK, Arrived
<1>4. pc'[c] = "left"
  BY <1>0, <1>1 DEF TypeOK
<1>5. TicketsOrdered'
  BY <1>1, <1>3 DEF IInv, TicketsOrdered
<1>6. SettledHaveLeft'
  BY <1>0, <1>1, <1>3 DEF IInv, SettledHaveLeft, TypeOK
<1>7. HeadsHaveNoElders'
  BY <1>1, <1>3 DEF IInv, HeadsHaveNoElders, Rivals
<1>8. ChainIsTight'
  BY <1>1, <1>3 DEF IInv, ChainIsTight, Rivals
<1>9. FirstComeFirstServed'
  BY <1>1, <1>3 DEF IInv, FirstComeFirstServed, Rivals
<1>10. MapPointsAtTail'
  <2> SUFFICES ASSUME NEW j \in Keys, repoQueues'[j] # NoCall
               PROVE  /\ KeyOf[repoQueues'[j]] = j
                      /\ pc'[repoQueues'[j]] \in {"waiting", "running"}
                      /\ \A d \in Calls : Arrived(d)' /\ KeyOf[d] = j =>
                           ticket'[d] <= ticket'[repoQueues'[j]]
    BY DEF MapPointsAtTail, Active, Arrived
  <2>1. repoQueues'[j] = repoQueues[j] /\ repoQueues[j] # NoCall /\ repoQueues[j] \in Calls
    BY <1>0, <1>1 DEF TypeOK
  <2>2. repoQueues[j] # c
    BY <1>0, <1>1, <2>1 DEF IInv, MapPointsAtTail, TypeOK
  <2>3. /\ KeyOf[repoQueues[j]] = j
        /\ Active(repoQueues[j])
        /\ \A d \in Calls : Arrived(d) /\ KeyOf[d] = j => ticket[d] <= ticket[repoQueues[j]]
    BY <2>1 DEF IInv, MapPointsAtTail
  <2> QED
    BY <1>1, <1>3, <2>1, <2>2, <2>3 DEF Active
<1>11. AbsentMeansQuiet'
  <2> SUFFICES ASSUME NEW j \in Keys, repoQueues'[j] = NoCall,
                      NEW d \in Calls, Arrived(d), KeyOf[d] = j
               PROVE  pc'[d] = "left"
    BY <1>3 DEF AbsentMeansQuiet
  <2>1. CASE repoQueues[j] = NoCall
    BY <2>1, <1>3 DEF IInv, AbsentMeansQuiet
  <2>2. CASE repoQueues[j] # NoCall
    <3>1. j = KeyOf[c] /\ repoQueues[j] = c
      BY <2>2, <1>0, <1>1 DEF TypeOK
    <3>2. \A e \in Calls : Arrived(e) /\ KeyOf[e] = j => ticket[e] <= ticket[c]
      BY <2>2, <3>1 DEF IInv, MapPointsAtTail
    <3>3. CASE d = c
      BY <3>3, <1>4
    <3>4. CASE d # c
      <4>1. Arrived(c) /\ d \in Rivals(c)
        BY <1>0, <3>1, <3>4 DEF Arrived, Rivals
      <4>2. ticket[d] \in Nat /\ ticket[c] \in Nat /\ ticket[d] # ticket[c]
        BY <1>0, <3>4, <4>1 DEF IInv, TicketsOrdered, TypeOK
      <4>3. ticket[d] < ticket[c]
        BY <3>2, <4>2
      <4> QED
        BY <1>0, <1>3, <4>1, <4>3 DEF IInv, FirstComeFirstServed
    <3> QED BY <3>3, <3>4
  <2> QED BY <2>1, <2>2
<1> QED
  BY <1>2, <1>5, <1>6, <1>7, <1>8, <1>9, <1>10, <1>11 DEF IInv

\* Settling a chained promise changes nothing but what may be awaited.
LEMMA SettleIInv ==
    ASSUME IInv, NEW c \in Calls, Settle(c)
    PROVE  IInv'
<1>1. /\ settled' = settled \cup {c} /\ pc[c] = "left"
      /\ pc' = pc /\ previous' = previous /\ repoQueues' = repoQueues
      /\ clock' = clock /\ ticket' = ticket
  BY DEF Settle
<1>2. TypeOK' /\ SettledHaveLeft'
  BY <1>1 DEF IInv, TypeOK, SettledHaveLeft
<1>3. /\ TicketsOrdered' /\ HeadsHaveNoElders' /\ ChainIsTight' /\ MapPointsAtTail'
      /\ AbsentMeansQuiet' /\ FirstComeFirstServed'
  BY <1>1
  DEF IInv, TicketsOrdered, HeadsHaveNoElders, ChainIsTight, MapPointsAtTail,
      AbsentMeansQuiet, FirstComeFirstServed, Arrived, Active, Rivals
<1> QED
  BY <1>2, <1>3 DEF IInv

-----------------------------------------------------------------------------
\* The strengthened invariant holds in every reachable state.
THEOREM Inductive == Spec => []IInv
<1>1. IInv /\ [Next]_vars => IInv'
  <2> SUFFICES ASSUME IInv, [Next]_vars PROVE IInv'
    OBVIOUS
  <2>1. CASE Next
    BY <2>1, ArriveIInv, EnterIInv, LeaveIInv, SettleIInv DEF Next
  <2>2. CASE UNCHANGED vars
    BY <2>2
    DEF vars, IInv, TypeOK, TicketsOrdered, SettledHaveLeft, HeadsHaveNoElders,
        ChainIsTight, MapPointsAtTail, AbsentMeansQuiet, FirstComeFirstServed,
        Arrived, Active, Rivals
  <2> QED BY <2>1, <2>2
<1> QED
  BY InitIInv, <1>1, PTL DEF Spec

\* No repository ever has two git tasks running at once: of two running
\* calls one asked first, and it would have had to leave.
THEOREM Exclusion == Spec => []MutualExclusion
<1>1. IInv => MutualExclusion
  <2> SUFFICES ASSUME IInv, NEW c \in Calls, NEW d \in Rivals(c),
                      pc[c] = "running", pc[d] = "running"
               PROVE  FALSE
    BY DEF MutualExclusion
  <2>1. d \in Calls /\ d # c /\ c \in Rivals(d) /\ Arrived(c) /\ Arrived(d)
    BY DEF Rivals, Arrived
  <2>2. ticket[c] \in Nat /\ ticket[d] \in Nat /\ ticket[c] # ticket[d]
    BY <2>1 DEF IInv, TypeOK, TicketsOrdered
  <2>3. CASE ticket[d] < ticket[c]
    BY <2>1, <2>3 DEF IInv, FirstComeFirstServed
  <2>4. CASE ticket[c] < ticket[d]
    BY <2>1, <2>4 DEF IInv, FirstComeFirstServed
  <2> QED
    BY <2>2, <2>3, <2>4
<1> QED
  BY <1>1, Inductive, PTL

\* A call never overtakes an earlier call of its repository.
THEOREM NoOvertaking == Spec => []FirstComeFirstServed
<1>1. IInv => FirstComeFirstServed
  BY DEF IInv
<1> QED
  BY <1>1, Inductive, PTL

\* The map of queues has an entry exactly for the repositories in use.
THEOREM MapBounded == Spec => []MapHoldsOnlyBusyRepos
<1>1. IInv => MapHoldsOnlyBusyRepos
  <2> SUFFICES ASSUME IInv, NEW k \in Keys
               PROVE  repoQueues[k] # NoCall <=> \E c \in Calls : KeyOf[c] = k /\ Active(c)
    BY DEF MapHoldsOnlyBusyRepos, Active
  <2>1. ASSUME repoQueues[k] # NoCall
        PROVE  \E c \in Calls : KeyOf[c] = k /\ Active(c)
    BY <2>1 DEF IInv, TypeOK, MapPointsAtTail
  <2>2. ASSUME NEW c \in Calls, KeyOf[c] = k, Active(c)
        PROVE  repoQueues[k] # NoCall
    BY <2>2 DEF IInv, AbsentMeansQuiet, Active, Arrived
  <2> QED BY <2>1, <2>2
<1> QED
  BY <1>1, Inductive, PTL

-----------------------------------------------------------------------------
(***************************************************************************)
(* The chain implements FifoMutex: the queue of a repository is its        *)
(* unfinished calls in the order of their tickets.  A call that asks is    *)
(* behind all others, and one that enters or leaves is the first.          *)
(***************************************************************************)
Ranked(S, rank) ==
    /\ IsFiniteSet(S)
    /\ \A c \in S : rank[c] \in Nat
    /\ \A c, d \in S : rank[c] = rank[d] => c = d

\* The members of a ranked set take the places from 1 to their number.
LEMMA PlacesTaken ==
    ASSUME NEW S, NEW rank, Ranked(S, rank)
    PROVE  /\ Cardinality(S) \in Nat
           /\ \A c \in S : Place(S, rank, c) \in 1..Cardinality(S)
           /\ \A c, d \in S : Place(S, rank, c) = Place(S, rank, d) => c = d
           /\ \A n \in 1..Cardinality(S) : \E c \in S : Place(S, rank, c) = n
<1> DEFINE Below(c) == {d \in S : rank[d] < rank[c]}
           place == [c \in S |-> Place(S, rank, c)]
           n == Cardinality(S)
<1>1. n \in Nat
  BY FS_CardinalityType DEF Ranked
<1>2. \A c \in S : IsFiniteSet(Below(c)) /\ Cardinality(Below(c)) \in Nat
  BY FS_Subset, FS_CardinalityType DEF Ranked
<1>3. ASSUME NEW c \in S PROVE Cardinality(Below(c)) < n
  <2>1. Below(c) \in SUBSET S /\ c \notin Below(c)
    BY DEF Ranked
  <2>2. Cardinality(Below(c)) <= n /\ (n = Cardinality(Below(c)) => S = Below(c))
    BY <2>1, FS_Subset DEF Ranked
  <2> HIDE DEF Below, n
  <2> QED
    BY <1>1, <1>2, <2>1, <2>2
<1>4. ASSUME NEW c \in S, NEW d \in S, rank[c] < rank[d]
      PROVE  Cardinality(Below(c)) < Cardinality(Below(d))
  <2>1. Below(c) \in SUBSET Below(d) /\ c \notin Below(c) /\ c \in Below(d)
    BY <1>4 DEF Ranked
  <2>2. /\ Cardinality(Below(c)) <= Cardinality(Below(d))
        /\ Cardinality(Below(d)) = Cardinality(Below(c)) => Below(d) = Below(c)
    BY <1>2, <2>1, FS_Subset
  <2> HIDE DEF Below
  <2> QED
    BY <1>2, <2>1, <2>2
<1>5. \A c \in S : place[c] = 1 + Cardinality(Below(c))
  BY DEF Place
<1>6. \A c \in S : place[c] \in 1..n
  <2> HIDE DEF place, Below, n
  <2> QED
    BY <1>1, <1>2, <1>3, <1>5
<1>7. \A c, d \in S : place[c] = place[d] => c = d
  <2> SUFFICES ASSUME NEW c \in S, NEW d \in S, c # d PROVE place[c] # place[d]
    OBVIOUS
  <2>1. rank[c] < rank[d] \/ rank[d] < rank[c]
    BY DEF Ranked
  <2>2. Cardinality(Below(c)) # Cardinality(Below(d))
    <3> HIDE DEF Below
    <3> QED
      BY <1>2, <1>4, <2>1
  <2> HIDE DEF place, Below
  <2> QED
    BY <1>2, <1>5, <2>2
<1>8. place \in Surjection(S, 1..n)
  <2>1. place \in [S -> 1..n]
    BY <1>6
  <2>2. place \in Injection(S, 1..n)
    BY <1>7, <2>1 DEF Injection, IsInjective
  <2>3. IsFiniteSet(1..n) /\ Cardinality(1..n) = n
    <3>1. IsFiniteSet(1..n) /\ Cardinality(1..n) = IF 1 > n THEN 0 ELSE n - 1 + 1
      BY <1>1, FS_Interval
    <3> QED
      BY <1>1, <3>1
  <2> HIDE DEF place
  <2>4. n = Cardinality(1..n) <=> place \in Surjection(S, 1..n)
    BY <2>2, <2>3, FS_Injection
  <2> QED
    BY <2>3, <2>4
<1>9. \A k \in 1..n : \E c \in S : place[c] = k
  BY <1>8 DEF Surjection
<1> QED
  BY <1>1, <1>6, <1>7, <1>9

\* The order of a ranked set, and how it is recognised.
LEMMA OrderIs ==
    ASSUME NEW S, NEW rank, Ranked(S, rank)
    PROVE  /\ InOrder(S, rank) \in Seq(S) /\ Len(InOrder(S, rank)) = Cardinality(S)
           /\ \A n \in 1..Cardinality(S) : Place(S, rank, InOrder(S, rank)[n]) = n
           /\ \A c \in S : \E n \in 1..Cardinality(S) : InOrder(S, rank)[n] = c
           /\ \A q \in Seq(S) :
                 Len(q) = Cardinality(S) /\ (\A n \in 1..Len(q) : Place(S, rank, q[n]) = n) =>
                     q = InOrder(S, rank)
<1> DEFINE o == InOrder(S, rank)
           m == Cardinality(S)
<1>1. /\ m \in Nat
      /\ \A c \in S : Place(S, rank, c) \in 1..m
      /\ \A c, d \in S : Place(S, rank, c) = Place(S, rank, d) => c = d
      /\ \A n \in 1..m : \E c \in S : Place(S, rank, c) = n
  BY PlacesTaken
<1>2. o = [n \in 1..m |-> CHOOSE c \in S : Place(S, rank, c) = n]
  BY DEF InOrder
<1> HIDE DEF o, m
<1>3. \A n \in 1..m : o[n] \in S /\ Place(S, rank, o[n]) = n
  BY <1>1, <1>2
<1>4. o \in Seq(S) /\ Len(o) = m
  <2>1. o \in [1..m -> S]
    BY <1>2, <1>3
  <2> QED
    BY <1>1, <2>1
<1>5. \A c \in S : \E n \in 1..m : o[n] = c
  BY <1>1, <1>3
<1>6. ASSUME NEW q \in Seq(S), Len(q) = m, \A n \in 1..Len(q) : Place(S, rank, q[n]) = n
      PROVE  q = o
  <2>1. \A n \in 1..m : q[n] \in S /\ q[n] = o[n]
    BY <1>1, <1>3, <1>6
  <2>2. q = [n \in 1..m |-> q[n]]
    BY <1>6
  <2>3. o = [n \in 1..m |-> o[n]]
    BY <1>2
  <2> QED
    BY <2>1, <2>2, <2>3
<1> QED
  BY <1>3, <1>4, <1>5, <1>6 DEF o, m

\* Ranks elsewhere do not matter.
LEMMA SameOrder ==
    ASSUME NEW S, NEW rank, NEW next, \A d \in S : next[d] = rank[d]
    PROVE  /\ InOrder(S, next) = InOrder(S, rank)
           /\ Ranked(S, rank) => Ranked(S, next)
<1>1. \A c \in S : {d \in S : next[d] < next[c]} = {d \in S : rank[d] < rank[c]}
  OBVIOUS
<1>2. \A c \in S : Place(S, next, c) = Place(S, rank, c)
  BY <1>1 DEF Place
<1>3. \A n : (CHOOSE c \in S : Place(S, next, c) = n) = (CHOOSE c \in S : Place(S, rank, c) = n)
  BY <1>2
<1>4. InOrder(S, next) = InOrder(S, rank)
  BY <1>3 DEF InOrder
<1> QED
  BY <1>4 DEF Ranked

\* Who has the highest rank is the last.
LEMMA LastInOrder ==
    ASSUME NEW S, NEW rank, Ranked(S, rank), NEW c, c \notin S, rank[c] \in Nat,
           \A d \in S : rank[d] < rank[c]
    PROVE  /\ Ranked(S \cup {c}, rank)
           /\ InOrder(S \cup {c}, rank) = Append(InOrder(S, rank), c)
<1> DEFINE T == S \cup {c}
           o == InOrder(S, rank)
           q == Append(o, c)
           m == Cardinality(S)
<1>1. IsFiniteSet(T) /\ Cardinality(T) = m + 1 /\ m \in Nat
  BY FS_AddElement, FS_CardinalityType DEF Ranked
<1>2. Ranked(T, rank)
  BY <1>1 DEF Ranked
<1>3. /\ o \in Seq(S) /\ Len(o) = m
      /\ \A n \in 1..m : Place(S, rank, o[n]) = n
  BY OrderIs
<1>4. \A d \in S : Place(T, rank, d) = Place(S, rank, d)
  <2>1. \A d \in S : {e \in T : rank[e] < rank[d]} = {e \in S : rank[e] < rank[d]}
    BY DEF Ranked
  <2> QED
    BY <2>1 DEF Place
<1>5. Place(T, rank, c) = m + 1
  <2>1. {e \in T : rank[e] < rank[c]} = S
    OBVIOUS
  <2> QED
    BY <1>1, <2>1 DEF Place
<1> HIDE DEF T, o, m
<1>6. /\ q \in Seq(T) /\ Len(q) = m + 1 /\ q[m + 1] = c
      /\ \A n \in 1..m : q[n] = o[n] /\ o[n] \in S
  BY <1>1, <1>3 DEF T
<1>7. \A n \in 1..Len(q) : Place(T, rank, q[n]) = n
  <2> HIDE DEF q
  <2> QED
    BY <1>1, <1>3, <1>4, <1>5, <1>6
<1> HIDE DEF q
<1>8. q = InOrder(T, rank)
  BY <1>1, <1>2, <1>6, <1>7, OrderIs
<1> QED
  BY <1>2, <1>8 DEF T, o, q

\* Who has the lowest rank is the first.
LEMMA FirstInOrder ==
    ASSUME NEW S, NEW rank, Ranked(S, rank), NEW c \in S,
           \A d \in S : d # c => rank[c] < rank[d]
    PROVE  /\ Ranked(S \ {c}, rank)
           /\ InOrder(S, rank) # <<>> /\ Head(InOrder(S, rank)) = c
           /\ InOrder(S \ {c}, rank) = Tail(InOrder(S, rank))
<1> DEFINE T == S \ {c}
           o == InOrder(S, rank)
           q == Tail(o)
           m == Cardinality(S)
<1>1. IsFiniteSet(T) /\ Cardinality(T) = m - 1 /\ m \in Nat /\ m # 0
  BY FS_RemoveElement, FS_CardinalityType, FS_EmptySet DEF Ranked
<1>2. Ranked(T, rank)
  BY <1>1 DEF Ranked
<1>3. /\ o \in Seq(S) /\ Len(o) = m
      /\ \A n \in 1..m : Place(S, rank, o[n]) = n
      /\ \A d, e \in S : Place(S, rank, d) = Place(S, rank, e) => d = e
  BY OrderIs, PlacesTaken
<1>4. Place(S, rank, c) = 1
  <2>1. {e \in S : rank[e] < rank[c]} = {}
    BY DEF Ranked
  <2> QED
    BY <2>1, FS_EmptySet DEF Place
<1>5. \A d \in T : Place(S, rank, d) = Place(T, rank, d) + 1
  <2> SUFFICES ASSUME NEW d \in T PROVE Place(S, rank, d) = Place(T, rank, d) + 1
    OBVIOUS
  <2> DEFINE B == {e \in T : rank[e] < rank[d]}
             A == {e \in S : rank[e] < rank[d]}
  <2>1. A = B \cup {c} /\ c \notin B
    OBVIOUS
  <2>2. IsFiniteSet(B) /\ Cardinality(B) \in Nat
    BY <1>1, FS_Subset, FS_CardinalityType
  <2> HIDE DEF A, B
  <2>3. Cardinality(A) = Cardinality(B) + 1
    BY <2>1, <2>2, FS_AddElement
  <2> QED
    BY <2>2, <2>3 DEF Place, A, B
<1> HIDE DEF T, o, m
<1>6. o # <<>> /\ Head(o) = c
  <2>1. 1 \in 1..m /\ o[1] \in S /\ Place(S, rank, o[1]) = 1
    BY <1>1, <1>3
  <2>2. o[1] = c
    BY <1>3, <1>4, <2>1
  <2> QED
    BY <1>1, <1>3, <2>2
<1>7. /\ q \in Seq(S) /\ Len(q) = m - 1
      /\ \A n \in 1..(m - 1) : q[n] = o[n + 1] /\ o[n + 1] \in S /\ n + 1 \in 1..m
  BY <1>1, <1>3, <1>6
<1>8. \A n \in 1..(m - 1) : q[n] \in T
  <2> SUFFICES ASSUME NEW n \in 1..(m - 1) PROVE q[n] # c
    BY <1>7 DEF T
  <2>1. Place(S, rank, q[n]) = n + 1 /\ n + 1 # 1
    BY <1>1, <1>3, <1>7
  <2> QED
    BY <1>4, <2>1
<1>9. q \in Seq(T)
  <2> HIDE DEF q
  <2>1. q \in [1..(m - 1) -> T] /\ m - 1 \in Nat
    BY <1>1, <1>7, <1>8
  <2> QED
    BY <2>1
<1>10. \A n \in 1..Len(q) : Place(T, rank, q[n]) = n
  <2> SUFFICES ASSUME NEW n \in 1..(m - 1) PROVE Place(T, rank, q[n]) = n
    BY <1>7
  <2>1. Place(S, rank, q[n]) = n + 1 /\ Place(S, rank, q[n]) = Place(T, rank, q[n]) + 1
    BY <1>3, <1>5, <1>7, <1>8
  <2>2. Place(T, rank, q[n]) \in 1..Cardinality(T)
    BY <1>2, <1>8, PlacesTaken
  <2> HIDE DEF q
  <2>3. Place(T, rank, q[n]) \in Nat /\ n \in Nat
    BY <1>1, <2>2
  <2> QED
    BY <2>1, <2>3
<1> HIDE DEF q
<1>11. q = InOrder(T, rank)
  BY <1>1, <1>2, <1>7, <1>9, <1>10, OrderIs
<1> QED
  BY <1>2, <1>6, <1>11 DEF T, o, q

\* Only finitely many calls have been made, so an order has its places.
FinitelyMany == IsFiniteSet({c \in Calls : Arrived(c)})

LEMMA NextFinitelyMany == FinitelyMany /\ TypeOK /\ [Next]_vars => FinitelyMany'
<1> SUFFICES ASSUME FinitelyMany, TypeOK, [Next]_vars PROVE FinitelyMany'
  OBVIOUS
<1> DEFINE A == {c \in Calls : Arrived(c)}
<1>1. ASSUME NEW c \in Calls, Arrive(c) PROVE FinitelyMany'
  <2>1. A' = A \cup {c}
    BY <1>1 DEF Arrive, Arrived, TypeOK
  <2>2. IsFiniteSet(A \cup {c})
    BY FS_AddElement DEF FinitelyMany
  <2> QED
    BY <2>1, <2>2 DEF FinitelyMany
<1>2. ASSUME NEW c \in Calls, Enter(c) \/ Leave(c) \/ Settle(c) PROVE FinitelyMany'
  <2>1. A' = A
    BY <1>2 DEF Enter, Leave, Settle, Arrived, TypeOK
  <2> QED
    BY <2>1 DEF FinitelyMany
<1>3. CASE UNCHANGED vars
  <2>1. A' = A
    BY <1>3 DEF vars, Arrived
  <2> QED
    BY <2>1 DEF FinitelyMany
<1> QED
  BY <1>1, <1>2, <1>3 DEF Next

LEMMA HeldRanked ==
    ASSUME IInv, FinitelyMany, NEW k \in Keys
    PROVE  Ranked(Held(k), ticket)
<1>1. Held(k) \in SUBSET {c \in Calls : Arrived(c)}
  BY DEF Held, Arrived
<1>2. IsFiniteSet(Held(k))
  BY <1>1, FS_Subset DEF FinitelyMany
<1>3. \A c \in Held(k) : ticket[c] \in Nat
  BY DEF Held, IInv, TypeOK
<1>4. \A c, d \in Held(k) : ticket[c] = ticket[d] => c = d
  BY <1>1 DEF IInv, TicketsOrdered
<1> QED
  BY <1>2, <1>3, <1>4 DEF Ranked

\* The members of the queues are the calls under way.
LEMMA QueuedAre ==
    ASSUME IInv, FinitelyMany
    PROVE  \A c \in Mutex!Queued : c \in Calls /\ Active(c)
<1> SUFFICES ASSUME NEW k \in Keys, NEW n \in 1..Len(Queues[k])
             PROVE  Queues[k][n] \in Calls /\ Active(Queues[k][n])
  BY DEF Mutex!Queued
<1>1. Queues[k] = InOrder(Held(k), ticket) /\ Ranked(Held(k), ticket)
  BY HeldRanked DEF Queues
<1>2. InOrder(Held(k), ticket) \in Seq(Held(k))
  BY <1>1, OrderIs
<1>3. Queues[k][n] \in Held(k)
  BY <1>1, <1>2
<1> QED
  BY <1>3 DEF Held, Active

\* Who asks queues up behind all others.
LEMMA ArriveAsks ==
    ASSUME IInv, FinitelyMany, NEW c \in Calls, Arrive(c)
    PROVE  Mutex!Ask(c)
<1> DEFINE k == KeyOf[c]
<1>0. TypeOK /\ pc[c] = "idle" /\ k \in Keys
  BY RepoLockAssumption DEF IInv, Arrive
<1>1. /\ pc' = [pc EXCEPT ![c] = "waiting"] /\ ticket'[c] = clock + 1
      /\ \A d \in Calls : d # c => ticket'[d] = ticket[d]
  BY <1>0 DEF Arrive, TypeOK
<1>2. c \notin Mutex!Queued
  BY <1>0, QueuedAre DEF Active
<1>3. Running' = Running
  BY <1>0, <1>1 DEF Running, TypeOK
<1>4. \A j \in Keys : Held(j)' = IF j = k THEN Held(k) \cup {c} ELSE Held(j)
  BY <1>0, <1>1 DEF Held, TypeOK
<1>5. \A j \in Keys : c \notin Held(j) /\ \A d \in Held(j) : ticket'[d] = ticket[d]
  BY <1>0, <1>1 DEF Held
<1>6. \A j \in Keys : Ranked(Held(j), ticket') /\ InOrder(Held(j), ticket') = InOrder(Held(j), ticket)
  BY <1>5, HeldRanked, SameOrder
<1>7. InOrder(Held(k) \cup {c}, ticket') = Append(InOrder(Held(k), ticket), c)
  <2>1. \A d \in Held(k) : ticket'[d] < ticket'[c]
    <3>1. \A d \in Held(k) : d \in Calls /\ Arrived(d) /\ ticket'[d] = ticket[d]
      BY <1>0, <1>5 DEF Held, Arrived
    <3>2. \A d \in Calls : Arrived(d) => ticket[d] \in Nat /\ ticket[d] <= clock
      BY <1>0 DEF IInv, TicketsOrdered, TypeOK
    <3>3. clock \in Nat
      BY <1>0 DEF TypeOK
    <3> QED
      BY <1>1, <3>1, <3>2, <3>3
  <2>2. ticket'[c] \in Nat
    BY <1>0, <1>1 DEF TypeOK
  <2>3. c \notin Held(k) /\ Ranked(Held(k), ticket')
    BY <1>0, <1>5, <1>6
  <2>4. InOrder(Held(k) \cup {c}, ticket') = Append(InOrder(Held(k), ticket'), c)
    BY <2>1, <2>2, <2>3, LastInOrder
  <2> QED
    BY <1>0, <1>6, <2>4
<1>8. Queues' = [Queues EXCEPT ![k] = Append(@, c)]
  <2>1. \A j \in Keys : Queues'[j] = IF j = k THEN Append(Queues[k], c) ELSE Queues[j]
    BY <1>0, <1>4, <1>6, <1>7 DEF Queues
  <2>2. DOMAIN Queues = Keys /\ DOMAIN Queues' = Keys
    BY DEF Queues
  <2> QED
    BY <2>1, <2>2 DEF Queues
<1> QED
  BY <1>2, <1>3, <1>8 DEF Mutex!Ask

\* A call that no earlier one of its repository waits before is the first.
LEMMA FirstOfHeld ==
    ASSUME IInv, FinitelyMany, NEW c \in Calls, Active(c),
           \A d \in Rivals(c) : Arrived(d) /\ ticket[d] < ticket[c] => pc[d] = "left"
    PROVE  LET H == Held(KeyOf[c]) IN
           /\ Ranked(H \ {c}, ticket)
           /\ InOrder(H, ticket) # <<>> /\ Head(InOrder(H, ticket)) = c
           /\ InOrder(H \ {c}, ticket) = Tail(InOrder(H, ticket))
<1> DEFINE H == Held(KeyOf[c])
<1>1. KeyOf[c] \in Keys /\ TypeOK
  BY RepoLockAssumption DEF IInv
<1>2. Ranked(H, ticket) /\ c \in H
  BY <1>1, HeldRanked DEF Held, Active
<1>3. \A d \in H : d # c => ticket[c] < ticket[d]
  <2> SUFFICES ASSUME NEW d \in H, d # c PROVE ticket[c] < ticket[d]
    OBVIOUS
  <2>1. d \in Rivals(c) /\ d \in Calls /\ Arrived(d) /\ pc[d] # "left"
    BY DEF Held, Rivals, Arrived
  <2>2. ticket[d] \in Nat /\ ticket[c] \in Nat /\ ~(ticket[d] < ticket[c])
    BY <1>1, <2>1 DEF TypeOK
  <2>3. ticket[d] # ticket[c]
    BY <1>2, <2>1 DEF Ranked
  <2> QED
    BY <2>2, <2>3
<1> HIDE DEF H
<1>4. /\ Ranked(H \ {c}, ticket)
      /\ InOrder(H, ticket) # <<>> /\ Head(InOrder(H, ticket)) = c
      /\ InOrder(H \ {c}, ticket) = Tail(InOrder(H, ticket))
  BY <1>2, <1>3, FirstInOrder
<1> QED
  BY <1>4 DEF H

\* Who enters is the first of the queue, and stays in it.
LEMMA EnterEnters ==
    ASSUME IInv, FinitelyMany, NEW c \in Calls, Enter(c)
    PROVE  Mutex!Enter(c)
<1> DEFINE k == KeyOf[c]
<1>0. TypeOK /\ pc[c] = "waiting" /\ k \in Keys
  BY RepoLockAssumption DEF IInv, Enter
<1>1. pc' = [pc EXCEPT ![c] = "running"] /\ ticket' = ticket
  BY DEF Enter
<1>2. \A d \in Rivals(c) : Arrived(d) /\ ticket[d] < ticket[c] => pc[d] = "left"
  <2>1. FirstComeFirstServed' /\ pc'[c] = "running"
    BY <1>0, <1>1, EnterIInv DEF IInv, TypeOK
  <2>2. \A d \in Rivals(c) : d \in Calls /\ d # c /\ pc'[d] = pc[d]
    BY <1>0, <1>1 DEF Rivals, TypeOK
  <2> QED
    BY <1>1, <2>1, <2>2 DEF FirstComeFirstServed, Rivals, Arrived
<1>3. Active(c)
  BY <1>0 DEF Active
<1>4. Queues[k] = InOrder(Held(k), ticket)
  BY <1>0 DEF Queues
<1>5. Queues[k] # <<>> /\ Head(Queues[k]) = c
  BY <1>2, <1>3, <1>4, FirstOfHeld
<1>6. c \notin Running /\ Running' = Running \cup {c}
  BY <1>0, <1>1 DEF Running, TypeOK
<1>7. \A j \in Keys : Held(j)' = Held(j)
  BY <1>0, <1>1 DEF Held, TypeOK
<1>8. Queues' = Queues
  BY <1>1, <1>7 DEF Queues
<1> QED
  BY <1>5, <1>6, <1>8 DEF Mutex!Enter

\* Who leaves was the first.
LEMMA LeaveLeaves ==
    ASSUME IInv, FinitelyMany, NEW c \in Calls, Leave(c)
    PROVE  Mutex!Leave(c)
<1> DEFINE k == KeyOf[c]
<1>0. TypeOK /\ pc[c] = "running" /\ k \in Keys
  BY RepoLockAssumption DEF IInv, Leave
<1>1. pc' = [pc EXCEPT ![c] = "left"] /\ ticket' = ticket
  BY DEF Leave
<1>2. \A d \in Rivals(c) : Arrived(d) /\ ticket[d] < ticket[c] => pc[d] = "left"
  BY <1>0 DEF IInv, FirstComeFirstServed
<1>3. Active(c)
  BY <1>0 DEF Active
<1>4. InOrder(Held(k) \ {c}, ticket) = Tail(InOrder(Held(k), ticket))
  BY <1>2, <1>3, FirstOfHeld
<1>5. c \in Running /\ Running' = Running \ {c}
  BY <1>0, <1>1 DEF Running, TypeOK
<1>6. \A j \in Keys : Held(j)' = IF j = k THEN Held(k) \ {c} ELSE Held(j)
  BY <1>0, <1>1 DEF Held, TypeOK
<1>7. Queues' = [Queues EXCEPT ![k] = Tail(@)]
  <2>1. \A j \in Keys : Queues'[j] = IF j = k THEN Tail(Queues[k]) ELSE Queues[j]
    BY <1>0, <1>1, <1>4, <1>6 DEF Queues
  <2>2. DOMAIN Queues = Keys /\ DOMAIN Queues' = Keys
    BY DEF Queues
  <2> QED
    BY <2>1, <2>2 DEF Queues
<1> QED
  BY <1>5, <1>7 DEF Mutex!Leave

LEMMA InitMutex == Init => Mutex!Init /\ FinitelyMany
<1> SUFFICES ASSUME Init PROVE Mutex!Init /\ FinitelyMany
  OBVIOUS
<1>1. {c \in Calls : Arrived(c)} = {} /\ Running = {} /\ \A k \in Keys : Held(k) = {}
  BY DEF Init, Arrived, Running, Held
<1>2. FinitelyMany
  BY <1>1, FS_EmptySet DEF FinitelyMany
<1>3. InOrder({}, ticket) = <<>>
  <2>1. Ranked({}, ticket)
    BY FS_EmptySet DEF Ranked
  <2>2. <<>> \in Seq({}) /\ Len(<<>>) = 0 /\ Cardinality({}) = 0
    BY FS_EmptySet
  <2> QED
    BY <2>1, <2>2, OrderIs
<1>4. Queues = [k \in Keys |-> <<>>]
  BY <1>1, <1>3 DEF Queues
<1> QED
  BY <1>1, <1>2, <1>4 DEF Mutex!Init

LEMMA NextMutex ==
    ASSUME IInv, FinitelyMany, [Next]_vars
    PROVE  [Mutex!Next]_(Mutex!vars)
<1>1. ASSUME NEW c \in Calls, Arrive(c) \/ Enter(c) \/ Leave(c) PROVE Mutex!Next
  BY <1>1, ArriveAsks, EnterEnters, LeaveLeaves DEF Mutex!Next
<1>2. ASSUME pc' = pc, ticket' = ticket PROVE UNCHANGED Mutex!vars
  <2>1. Running' = Running /\ \A k \in Keys : Held(k)' = Held(k)
    BY <1>2 DEF Running, Held
  <2>2. Queues' = Queues
    BY <1>2, <2>1 DEF Queues
  <2> QED
    BY <2>1, <2>2 DEF Mutex!vars
<1>3. ASSUME NEW c \in Calls, Settle(c) PROVE UNCHANGED Mutex!vars
  BY <1>2, <1>3 DEF Settle
<1>4. CASE UNCHANGED vars
  BY <1>2, <1>4 DEF vars
<1> QED
  BY <1>1, <1>3, <1>4 DEF Next

\* The chain of promises is a first-in first-out lock for each repository: the
\* steps of withRepoLock are those of FifoMutex or change nothing it shows.
\* (That nobody waits for ever is the part of ImplementsFifoMutex that needs
\* fairness, and is model-checked.)
THEOREM ChainIsFifoMutex == Spec => Mutex!Init /\ [][Mutex!Next]_(Mutex!vars)
<1>1. Spec => []FinitelyMany
  <2>1. TypeOK /\ FinitelyMany /\ [Next]_vars => FinitelyMany'
    BY NextFinitelyMany
  <2>2. Init => FinitelyMany
    BY InitMutex
  <2> QED
    BY <2>1, <2>2, TypeCorrect, PTL DEF Spec
<1>2. IInv /\ FinitelyMany /\ [Next]_vars => [Mutex!Next]_(Mutex!vars)
  BY NextMutex
<1>3. Init => Mutex!Init
  BY InitMutex
<1> QED
  BY <1>1, <1>2, <1>3, Inductive, PTL DEF Spec
=============================================================================
