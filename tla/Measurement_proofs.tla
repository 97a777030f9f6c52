-------------------------- MODULE Measurement_proofs --------------------------
(***************************************************************************)
(* What a session of the Pi adapter reports, for every number of fallback  *)
(* texts, every agent and every length of the session.                     *)
(*                                                                         *)
(* Only the session's own variables matter: a step of Measurement is a     *)
(* step of the session, the hearing of an event, or leaves them alone.     *)
(***************************************************************************)
EXTENDS Measurement, FoldFacts

\* A prompt outlives the race only if the timer has fired, and a fired timer
\* sends no further prompt; while the race is on, there is one to wait for.
PromptKept ==
    /\ prompting => prompts = requests + 1
    /\ prompting => stage = "race" \/ timer = "fired"
    /\ stage = "race" => prompting
    /\ stage = "setup" => requests = 0 /\ prompts = 0

\* An abort is the timer's, and no timer is armed outside the race.
TimerKept ==
    /\ timer = "fired" <=> abort # "none"
    /\ timer = "armed" => stage = "race"
    /\ stage = "setup" => timer = "none"

\* What has been read is still so.
ReadingKept ==
    /\ stage \in {"setup", "race"} => result.kind = "none" /\ ~lateEvents
    /\ stage \in {"shutdown", "over"} => result.kind \in {"session", "error"}
    /\ result.kind = "session" =>
          /\ result.requests = requests /\ prompts = requests + 1
          /\ result.timedOut <=> timer = "fired"
          /\ ~result.timedOut => ~lateEvents

IInv == SessionTypeOK /\ PromptKept /\ TimerKept /\ ReadingKept

Results == [kind : {"none", "session", "error"}, timedOut : BOOLEAN, requests : 0..MaxFallbacks]

LEMMA Ranges ==
    /\ 0 \in 0..MaxFallbacks
    /\ 0 \in 0..(MaxFallbacks + 1) /\ 1 \in 0..(MaxFallbacks + 1)
  BY PiSessionAssumption

LEMMA Outcomes ==
    /\ Nothing \in Results /\ Nothing.kind = "none"
    /\ Error \in Results /\ Error.kind = "error"
    /\ Silence \in [tool : BOOLEAN, text : BOOLEAN]
  <1>1. Nothing \in Results /\ Nothing.kind = "none"
    BY Ranges DEF Results, Nothing
  <1>2. Error \in Results /\ Error.kind = "error"
    BY Ranges, <1>1 DEF Results, Error, Nothing
  <1>3. Silence \in [tool : BOOLEAN, text : BOOLEAN]
    BY DEF Silence
  <1> QED
    BY <1>1, <1>2, <1>3

LEMMA ReadingTold ==
    ASSUME requests \in 0..MaxFallbacks
    PROVE  /\ Reading \in Results /\ Reading.kind = "session"
           /\ Reading.requests = requests /\ (Reading.timedOut <=> timer = "fired")
  BY DEF Results, Reading

LEMMA InitIInv == Init => IInv
  <1> SUFFICES ASSUME Init PROVE IInv
    OBVIOUS
  <1>1. SessionTypeOK
    BY Ranges, Outcomes DEF Init, SessionInit, SessionTypeOK, Results
  <1>2. PromptKept /\ TimerKept /\ ReadingKept
    BY Outcomes DEF Init, SessionInit, PromptKept, TimerKept, ReadingKept
  <1> QED
    BY <1>1, <1>2 DEF IInv

\* Who ends the race has a result that is true of the session.
LEMMA RaceEnds ==
    ASSUME IInv, prompting' \in BOOLEAN, stage = "race",
           NEW outcome \in {Reading, Error}, EndRace(outcome),
           prompting' => timer = "fired",
           UNCHANGED <<heard, requests, prompts, lateEvents>>,
           abort' \in {"none", "pending", "settled"}, timer = "fired" <=> abort' # "none"
    PROVE  IInv'
  <1> USE PiSessionAssumption, Outcomes, ReadingTold
  <1>1. SessionTypeOK'
    BY DEF EndRace, IInv, SessionTypeOK, Results
  <1>2. PromptKept'
    BY DEF EndRace, IInv, SessionTypeOK, PromptKept
  <1>3. TimerKept'
    BY DEF EndRace, IInv, SessionTypeOK, TimerKept
  <1>4. ReadingKept'
    <2>1. prompts = requests + 1 /\ ~lateEvents
      BY DEF IInv, PromptKept, ReadingKept
    <2> QED
      BY <2>1 DEF EndRace, IInv, SessionTypeOK, ReadingKept
  <1> QED
    BY <1>1, <1>2, <1>3, <1>4 DEF IInv

\* A promise that settles after the race was ended changes nothing else.
LEMMA RaceIsOver ==
    ASSUME IInv, prompting' \in BOOLEAN, stage # "race", NEW outcome, EndRace(outcome),
           prompting' => prompting,
           UNCHANGED <<heard, requests, prompts, lateEvents>>,
           abort' \in {"none", "pending", "settled"}, timer = "fired" <=> abort' # "none"
    PROVE  IInv'
  BY DEF EndRace, IInv, SessionTypeOK, PromptKept, TimerKept, ReadingKept

LEMMA SessionStepKeeps == ASSUME IInv, SessionStep PROVE IInv'
  <1> USE PiSessionAssumption DEF IInv
  <1>1. CASE SetupFails
    BY <1>1, Outcomes
       DEF SetupFails, SessionTypeOK, PromptKept, TimerKept, ReadingKept, Results
  <1>2. CASE Begin
    <2>1. SessionTypeOK'
      BY <1>2, Ranges DEF Begin, SessionTypeOK
    <2>2. PromptKept'
      BY <1>2 DEF Begin, PromptKept
    <2>3. TimerKept'
      BY <1>2 DEF Begin, TimerKept
    <2>4. ReadingKept'
      BY <1>2 DEF Begin, ReadingKept
    <2> QED
      BY <2>1, <2>2, <2>3, <2>4
  <1>3. CASE PromptAgain
    \* The timer has not fired, so the race is on and nothing has been read.
    <2>1. stage = "race" /\ prompts = requests + 1 /\ requests < MaxFallbacks
      BY <1>3 DEF PromptAgain, PromptKept, AsksAgain
    <2> QED
      BY <1>3, <2>1 DEF PromptAgain, SessionTypeOK, PromptKept, TimerKept, ReadingKept
  <1>4. CASE LoopReturns \/ PromptRejects
    <2>1. PICK outcome \in {Reading, Error} :
              prompting' = FALSE /\ EndRace(outcome) /\
              UNCHANGED <<abort, heard, requests, prompts, lateEvents>>
      BY <1>4 DEF LoopReturns, PromptRejects
    <2>2. abort' \in {"none", "pending", "settled"} /\ (timer = "fired" <=> abort' # "none")
      BY <2>1 DEF SessionTypeOK, TimerKept
    <2>3. CASE stage = "race"
      BY <2>1, <2>2, <2>3, RaceEnds
    <2>4. CASE stage # "race"
      BY <2>1, <2>2, <2>4, RaceIsOver
    <2> QED
      BY <2>3, <2>4
  <1>5. CASE TimerFires
    BY <1>5 DEF TimerFires, SessionTypeOK, PromptKept, TimerKept, ReadingKept
  <1>6. CASE AbortSettles
    <2>1. /\ timer = "fired" /\ abort' = "settled" /\ EndRace(Reading)
          /\ UNCHANGED <<prompting, heard, requests, prompts, lateEvents>>
      BY <1>6 DEF AbortSettles, TimerKept
    <2>2. prompting' \in BOOLEAN /\ prompting' = prompting
      BY <2>1 DEF SessionTypeOK
    <2>3. CASE stage = "race"
      BY <2>1, <2>2, <2>3, RaceEnds
    <2>4. CASE stage # "race"
      BY <2>1, <2>2, <2>4, RaceIsOver
    <2> QED
      BY <2>3, <2>4
  <1>7. CASE ShutDown
    BY <1>7, Outcomes
       DEF ShutDown, SessionTypeOK, PromptKept, TimerKept, ReadingKept, Results
  <1> QED
    BY <1>1, <1>2, <1>3, <1>4, <1>5, <1>6, <1>7 DEF SessionStep

\* An event that is heard after the reading is one of a prompt that the timer
\* has outrun.
LEMMA HearKeeps ==
    ASSUME IInv, NEW event \in {"start", "tool", "text", "other"}, Hear(event) PROVE IInv'
  <1>1. heard' \in [tool : BOOLEAN, text : BOOLEAN]
    BY Outcomes DEF IInv, SessionTypeOK, Hear
  <1>2. SessionTypeOK'
    BY <1>1 DEF IInv, SessionTypeOK, Hear
  <1>3. PromptKept' /\ TimerKept' /\ ReadingKept'
    BY DEF IInv, SessionTypeOK, Hear, PromptKept, TimerKept, ReadingKept
  <1> QED
    BY <1>2, <1>3 DEF IInv

LEMMA NextKeeps == IInv /\ [Next]_vars => IInv'
  <1> SUFFICES ASSUME IInv, [Next]_vars PROVE IInv'
    OBVIOUS
  <1>1. CASE SessionStep
    BY <1>1, SessionStepKeeps
  <1>2. CASE \E event \in PiEvents : Emit(event)
    <2>1. PICK event \in PiEvents : Hear(Notice(event))
      BY <1>2 DEF Emit
    <2>2. Notice(event) \in {"start", "tool", "text", "other"}
      BY DEF Notice
    <2> QED
      BY <2>1, <2>2, HearKeeps
  <1>3. CASE UNCHANGED sessionVars
    BY <1>3 DEF sessionVars, IInv, SessionTypeOK, PromptKept, TimerKept, ReadingKept
  <1> QED
    BY <1>1, <1>2, <1>3 DEF Next, ReadLine, Derive, vars

LEMMA Invariant == Spec => []IInv
  BY InitIInv, NextKeeps, PTL DEF Spec

-----------------------------------------------------------------------------
\* Type correctness of a session (runSession, driveClarificationLoop).
THEOREM SessionTypeCorrect == Spec => []SessionTypeOK
  <1>1. IInv => SessionTypeOK
    BY DEF IInv
  <1> QED
    BY <1>1, Invariant, PTL

\* No fallback text is sent after the count of them was read, and the tokens and
\* cost of a session that is not reported as timed out were read when its agent
\* was through.
THEOREM ReadingsAreFinal == Spec => []ReportIsFinal
  <1>1. IInv => ReportIsFinal
    BY DEF IInv, PromptKept, ReadingKept, ReportIsFinal
  <1> QED
    BY <1>1, Invariant, PTL

\* The timer aborts only a session that is reported as timed out or fails.
THEOREM AbortIsReported == Spec => []AbortedIsTold
  <1>1. IInv => AbortedIsTold
    BY DEF IInv, SessionTypeOK, TimerKept, ReadingKept, AbortedIsTold
  <1> QED
    BY <1>1, Invariant, PTL

-----------------------------------------------------------------------------
(* Sums over finite sets: what MapThenSumSet returns does not depend on the *)
(* order it takes the elements in.                                         *)

First(s) == CHOOSE x \in s : TRUE

Summed(f, it, s) == IF s = {} THEN 0 ELSE f[First(s)] + it[s \ {First(s)}]

IsSum(f, S, it) == it = [s \in SUBSET S |-> Summed(f, it, s)]

SumOver(f, S) == MapThenSumSet(LAMBDA x : f[x], S)

LEMMA OneLess ==
    ASSUME NEW s, IsFiniteSet(s), s # {}
    PROVE  LET r == s \ {First(s)} IN
           /\ First(s) \in s /\ r \subseteq s /\ IsFiniteSet(r)
           /\ Cardinality(r) \in Nat /\ Cardinality(s) = Cardinality(r) + 1
  <1>1. First(s) \in s
    BY DEF First
  <1>2. IsFiniteSet(s \ {First(s)}) /\ Cardinality(s \ {First(s)}) = Cardinality(s) - 1
    BY <1>1, FS_RemoveElement
  <1>3. Cardinality(s) \in Nat /\ Cardinality(s \ {First(s)}) \in Nat
    BY <1>2, FS_CardinalityType
  <1> QED
    BY <1>1, <1>2, <1>3

\* The recursive function of a sum exists, and only one on each finite set.
LEMMA SumExists ==
    ASSUME NEW f, NEW S, IsFiniteSet(S)
    PROVE  \E it : IsSum(f, S, it)
  <1> DEFINE Upto(g, n) == \A s \in SUBSET S : Cardinality(s) <= n => g[s] = Summed(f, g, s)
             T == {n \in Nat : \E g : Upto(g, n)}
  <1>0. \A s \in SUBSET S : IsFiniteSet(s) /\ Cardinality(s) \in Nat
    BY FS_Subset, FS_CardinalityType
  <1>1. 0 \in T
    <2>1. \A s \in SUBSET S : Cardinality(s) <= 0 => s = {}
      BY <1>0, FS_EmptySet
    <2>2. Upto([s \in SUBSET S |-> 0], 0)
      BY <2>1 DEF Summed
    <2> QED
      BY <2>2
  <1>2. ASSUME NEW n \in Nat, n \in T PROVE n + 1 \in T
    <2>1. PICK g : Upto(g, n)
      BY <1>2
    <2> DEFINE h == [s \in SUBSET S |-> Summed(f, g, s)]
    <2>2. ASSUME NEW s \in SUBSET S, Cardinality(s) <= n + 1 PROVE h[s] = Summed(f, h, s)
      <3>1. CASE s = {}
        BY <3>1 DEF Summed
      <3>2. CASE s # {}
        <4> DEFINE r == s \ {First(s)}
        <4>1. r \in SUBSET S /\ Cardinality(r) <= n
          BY <1>0, <2>2, <3>2, OneLess
        <4>2. h[r] = g[r]
          BY <4>1, <2>1
        <4> QED
          BY <4>2, <3>2 DEF Summed
      <3> QED
        BY <3>1, <3>2
    <2>3. Upto(h, n + 1)
      BY <2>2
    <2> HIDE DEF Upto, h
    <2> QED
      BY <2>3
  <1> HIDE DEF T
  <1>3. Nat \subseteq T
    BY <1>1, <1>2, Induct
  <1>4. Cardinality(S) \in T
    BY <1>0, <1>3
  <1>5. PICK g : Upto(g, Cardinality(S))
    BY <1>4 DEF T
  <1>6. \A s \in SUBSET S : Cardinality(s) <= Cardinality(S)
    BY FS_Subset, FS_CardinalityType
  <1>7. \A s \in SUBSET S : g[s] = Summed(f, g, s)
    BY <1>5, <1>6
  <1> DEFINE it == [s \in SUBSET S |-> g[s]]
  <1>8. \A s \in SUBSET S : Summed(f, it, s) = Summed(f, g, s)
    BY DEF Summed
  <1>9. IsSum(f, S, it)
    BY <1>7, <1>8 DEF IsSum
  <1> QED
    BY <1>9

LEMMA SumUnique ==
    ASSUME NEW f, NEW S, NEW it, IsSum(f, S, it), NEW R, NEW jt, IsSum(f, R, jt)
    PROVE  \A s \in SUBSET (S \cap R) : IsFiniteSet(s) => it[s] = jt[s]
  <1> DEFINE Same(n) == \A s \in SUBSET (S \cap R) :
                            IsFiniteSet(s) /\ Cardinality(s) = n => it[s] = jt[s]
             T == {n \in Nat : Same(n)}
  <1>0. \A s \in SUBSET (S \cap R) : it[s] = Summed(f, it, s) /\ jt[s] = Summed(f, jt, s)
    BY DEF IsSum
  <1>1. 0 \in T
    BY <1>0, FS_EmptySet DEF Summed
  <1>2. ASSUME NEW n \in Nat, n \in T PROVE n + 1 \in T
    <2>1. ASSUME NEW s \in SUBSET (S \cap R), IsFiniteSet(s), Cardinality(s) = n + 1
          PROVE  it[s] = jt[s]
      <3> DEFINE r == s \ {First(s)}
      <3>1. s # {}
        BY <2>1, FS_EmptySet
      <3>2. r \in SUBSET (S \cap R) /\ IsFiniteSet(r) /\ Cardinality(r) = n
        BY <2>1, <3>1, OneLess
      <3>3. it[r] = jt[r]
        BY <1>2, <3>2
      <3> QED
        BY <1>0, <3>1, <3>3 DEF Summed
    <2> QED
      BY <2>1, <1>2
  <1> HIDE DEF T
  <1>3. Nat \subseteq T
    BY <1>1, <1>2, Induct
  <1>4. ASSUME NEW s \in SUBSET (S \cap R), IsFiniteSet(s) PROVE it[s] = jt[s]
    BY <1>3, <1>4, FS_CardinalityType DEF T
  <1> QED
    BY <1>4

LEMMA SumIs == ASSUME NEW f, NEW S PROVE SumOver(f, S) = (CHOOSE it : IsSum(f, S, it))[S]
  BY DEF SumOver, MapThenSumSet, MapThenFoldSet, IsSum, Summed, First

LEMMA SumStep ==
    ASSUME NEW f, NEW S, IsFiniteSet(S)
    PROVE  SumOver(f, S) = IF S = {} THEN 0 ELSE f[First(S)] + SumOver(f, S \ {First(S)})
  <1> DEFINE it == CHOOSE g : IsSum(f, S, g)
             R == S \ {First(S)}
             jt == CHOOSE g : IsSum(f, R, g)
  <1>1. IsFiniteSet(R) /\ R \subseteq S
    BY FS_Subset
  <1>2. IsSum(f, S, it) /\ IsSum(f, R, jt)
    BY <1>1, SumExists
  <1>3. SumOver(f, S) = it[S] /\ SumOver(f, R) = jt[R]
    BY SumIs
  <1> HIDE DEF it, jt
  <1>4. it[R] = jt[R]
    BY <1>1, <1>2, SumUnique
  <1>5. it[S] = Summed(f, it, S)
    BY <1>2 DEF IsSum
  <1> QED
    BY <1>3, <1>4, <1>5 DEF Summed

LEMMA SumIsNat ==
    ASSUME NEW D, NEW f \in [D -> Nat]
    PROVE  \A S \in SUBSET D : IsFiniteSet(S) => SumOver(f, S) \in Nat
  <1> DEFINE P(n) == \A S \in SUBSET D : IsFiniteSet(S) /\ Cardinality(S) = n => SumOver(f, S) \in Nat
             T == {n \in Nat : P(n)}
  <1>1. P(0)
    <2>1. \A S \in SUBSET D : IsFiniteSet(S) /\ Cardinality(S) = 0 => S = {}
      BY FS_EmptySet
    <2>2. SumOver(f, {}) = 0
      BY SumStep, FS_EmptySet
    <2> QED
      BY <2>1, <2>2
  <1>2. ASSUME NEW n \in Nat, P(n) PROVE P(n + 1)
    <2>1. ASSUME NEW S \in SUBSET D, IsFiniteSet(S), Cardinality(S) = n + 1
          PROVE  SumOver(f, S) \in Nat
      <3>1. S # {}
        BY <2>1, FS_EmptySet
      <3>2. /\ First(S) \in S /\ S \ {First(S)} \in SUBSET D /\ IsFiniteSet(S \ {First(S)})
            /\ Cardinality(S \ {First(S)}) = n
        BY <2>1, <3>1, OneLess
      <3>3. f[First(S)] \in Nat /\ SumOver(f, S \ {First(S)}) \in Nat
        BY <1>2, <3>2
      <3> QED
        BY <2>1, <3>1, <3>3, SumStep
    <2> QED
      BY <2>1
  <1> HIDE DEF P
  <1>3. Nat \subseteq T
    <2>1. 0 \in T /\ \A n \in Nat : n \in T => n + 1 \in T
      BY <1>1, <1>2
    <2> HIDE DEF T
    <2> QED
      BY <2>1, Induct
  <1>4. \A n \in Nat : P(n)
    BY <1>3
  <1> QED
    BY <1>4, FS_CardinalityType DEF P

\* A sum may be taken in any order.
LEMMA SumSplit ==
    ASSUME NEW D, NEW f \in [D -> Nat]
    PROVE  \A S \in SUBSET D : IsFiniteSet(S) =>
             \A a \in S : SumOver(f, S) = f[a] + SumOver(f, S \ {a})
  <1> DEFINE Splits(S) == \A a \in S : SumOver(f, S) = f[a] + SumOver(f, S \ {a})
             P(n) == \A S \in SUBSET D : IsFiniteSet(S) /\ Cardinality(S) = n => Splits(S)
             T == {n \in Nat : P(n)}
  <1>1. P(0)
    BY FS_EmptySet
  <1>2. ASSUME NEW n \in Nat, P(n) PROVE P(n + 1)
    <2>1. ASSUME NEW S \in SUBSET D, IsFiniteSet(S), Cardinality(S) = n + 1, NEW a \in S
          PROVE  SumOver(f, S) = f[a] + SumOver(f, S \ {a})
      <3> DEFINE c == First(S)
                 R == S \ {c}
                 Q == S \ {a}
      <3>1. S # {}
        OBVIOUS
      <3>2. c \in S /\ R \in SUBSET D /\ IsFiniteSet(R) /\ Cardinality(R) = n
        BY <2>1, <3>1, OneLess
      <3>3. SumOver(f, S) = f[c] + SumOver(f, R)
        BY <2>1, <3>1, SumStep
      <3> HIDE DEF c
      <3>4. CASE a = c
        BY <3>3, <3>4
      <3>5. CASE a # c
        <4>1. a \in R /\ c \in Q /\ Q \in SUBSET D /\ IsFiniteSet(Q) /\ Cardinality(Q) = n
          <5>1. IsFiniteSet(Q) /\ Cardinality(Q) = Cardinality(S) - 1
            BY <2>1, FS_RemoveElement
          <5> QED
            BY <2>1, <3>2, <3>5, <5>1
        <4>2. R \ {a} = Q \ {c} /\ IsFiniteSet(R \ {a}) /\ R \ {a} \in SUBSET D
          BY <3>2, FS_Subset
        <4>3. SumOver(f, Q) = f[c] + SumOver(f, Q \ {c})
          BY <1>2, <4>1
        <4>4. SumOver(f, R) = f[a] + SumOver(f, R \ {a})
          BY <1>2, <3>2, <4>1
        <4>5. SumOver(f, R \ {a}) \in Nat /\ f[a] \in Nat /\ f[c] \in Nat
          BY <3>2, <4>2, SumIsNat
        <4> QED
          BY <4>2, <4>3, <4>4, <4>5, <3>3
      <3> QED
        BY <3>4, <3>5
    <2> QED
      BY <2>1
  <1> HIDE DEF P
  <1>3. Nat \subseteq T
    <2>1. 0 \in T /\ \A n \in Nat : n \in T => n + 1 \in T
      BY <1>1, <1>2
    <2> HIDE DEF T
    <2> QED
      BY <2>1, Induct
  <1>4. \A n \in Nat : P(n)
    BY <1>3
  <1>5. ASSUME NEW S \in SUBSET D, IsFiniteSet(S) PROVE Splits(S)
    BY <1>4, <1>5, FS_CardinalityType DEF P
  <1> QED
    BY <1>5

\* Only the values in the set matter.
LEMMA SumSame ==
    ASSUME NEW D, NEW f \in [D -> Nat], NEW E, NEW g \in [E -> Nat]
    PROVE  \A S \in SUBSET (D \cap E) :
               IsFiniteSet(S) /\ (\A x \in S : f[x] = g[x]) => SumOver(f, S) = SumOver(g, S)
  <1> DEFINE P(n) == \A S \in SUBSET (D \cap E) :
                 IsFiniteSet(S) /\ Cardinality(S) = n /\ (\A x \in S : f[x] = g[x]) =>
                     SumOver(f, S) = SumOver(g, S)
             T == {n \in Nat : P(n)}
  <1>1. P(0)
    BY SumStep, FS_EmptySet
  <1>2. ASSUME NEW n \in Nat, P(n) PROVE P(n + 1)
    <2>1. ASSUME NEW S \in SUBSET (D \cap E), IsFiniteSet(S), Cardinality(S) = n + 1,
                 \A x \in S : f[x] = g[x]
          PROVE  SumOver(f, S) = SumOver(g, S)
      <3>1. S # {}
        BY <2>1, FS_EmptySet
      <3>2. /\ First(S) \in S /\ S \ {First(S)} \in SUBSET (D \cap E)
            /\ IsFiniteSet(S \ {First(S)}) /\ Cardinality(S \ {First(S)}) = n
        BY <2>1, <3>1, OneLess
      <3>3. SumOver(f, S \ {First(S)}) = SumOver(g, S \ {First(S)}) /\ f[First(S)] = g[First(S)]
        BY <1>2, <2>1, <3>2
      <3>4. /\ SumOver(f, S) = f[First(S)] + SumOver(f, S \ {First(S)})
            /\ SumOver(g, S) = g[First(S)] + SumOver(g, S \ {First(S)})
        BY <2>1, <3>1, SumStep
      <3> QED
        BY <3>3, <3>4
    <2> QED
      BY <2>1
  <1> HIDE DEF P
  <1>3. Nat \subseteq T
    <2>1. 0 \in T /\ \A n \in Nat : n \in T => n + 1 \in T
      BY <1>1, <1>2
    <2> HIDE DEF T
    <2> QED
      BY <2>1, Induct
  <1>4. \A n \in Nat : P(n)
    BY <1>3
  <1> QED
    BY <1>4, FS_CardinalityType DEF P
-----------------------------------------------------------------------------
(* The trace and the counters.                                             *)

LineTypes == TraceEventTypes \cup {"_meta", "__tracer_error__", "text_delta", "other"}

LineType == [type : LineTypes, tool : Tools \cup {None}, path : Paths \cup {None},
             input : Nat \cup {None}, output : Nat \cup {None},
             marked : BOOLEAN, plain : BOOLEAN]

Unrendered == [Blank EXCEPT !.type = "__tracer_error__"]

\* What a line of the trace can be.
Written == {Meta, Unrendered} \cup {Translate(e) : e \in PiEvents}

CountersType ==
    [ toolCallsTotal   : Nat,
      toolCallsPerType : [Tools -> Nat],
      filesReadUnique  : SUBSET Paths,
      firstWriteSeen   : BOOLEAN,
      turnsToFirstEdit : Nat \cup {None},
      writeEditCount   : [Paths -> Nat],
      bashCommands     : Nat,
      tokensInTotal    : Nat,
      tokensOutTotal   : Nat,
      tokensInUpfront  : Nat \cup {None},
      perTurnInput     : Seq(Nat),
      currentTurn      : Nat ]

\* The first edit is counted from the turn it was made in.
EditInTime == counters.turnsToFirstEdit \in 1..Max({1, counters.currentTurn}) \cup {None}

TraceKept ==
    /\ trace \in Seq(Written \cap LineType)
    /\ Len(trace) \in 1..(MaxEvents + 1)
    /\ read \in 0..Len(trace)

\* What the derivation keeps for the rules are events.
EventsKept ==
    /\ events \in Seq(LineType) /\ Len(events) <= read
    /\ \A i \in 1..Len(events) : IsTraceEvent(events[i])

MeasuresTyped ==
    /\ counters \in CountersType /\ EditInTime
    /\ metrics = None \/ (metrics.rules \in Profiles /\ metrics.window \in Windows)

\* The line from which the flags of the clarification loop can be told: the
\* agent starts there for the last time, or the session does.
Tells(s, lines, flags) ==
    /\ lines[s].type \in {"_meta", "agent_start"}
    /\ \A i \in (s + 1)..Len(lines) : lines[i].type # "agent_start"
    /\ ~flags.tool => \A i \in (s + 1)..Len(lines) : lines[i].type # "tool_execution_start"
    /\ flags.text => \E i \in (s + 1)..Len(lines) : lines[i].type = "message_text_delta"

FlagsTold == \E s \in 1..Len(trace) : Tells(s, trace, heard)

LEMMA MaxOfTwo ==
    ASSUME NEW a \in Nat, NEW b \in Nat
    PROVE  Max({a, b}) = IF a >= b THEN a ELSE b
  <1>1. ASSUME a >= b PROVE Max({a, b}) = a
    <2>1. \A x \in {a, b} : (\A y \in {a, b} : x >= y) <=> x = a
      BY <1>1
    <2> QED
      BY <2>1 DEF Max
  <1>2. ASSUME ~(a >= b) PROVE Max({a, b}) = b
    <2>1. \A x \in {a, b} : (\A y \in {a, b} : x >= y) <=> x = b
      BY <1>2
    <2> QED
      BY <2>1 DEF Max
  <1> QED
    BY <1>1, <1>2

LEMMA NoneIsNoValue == None \notin Tools /\ None \notin Paths /\ None \notin Nat
  BY MetricsAssumption

LEMMA LinesTyped ==
    /\ Meta \in Written \cap LineType /\ Meta.type = "_meta"
    /\ Unrendered \in Written \cap LineType /\ Unrendered.type = "__tracer_error__"
    /\ \A e \in PiEvents : Translate(e) # None => Line(Translate(e)) \in Written \cap LineType
  <1>1. ASSUME NEW line \in LineType, NEW type \in LineTypes
        PROVE  /\ [line EXCEPT !.type = type] \in LineType
               /\ [line EXCEPT !.type = type].type = type
    BY <1>1 DEF LineType
  <1>2. Blank \in LineType
    BY DEF Blank, LineType, LineTypes
  <1>3. Meta \in LineType /\ Meta.type = "_meta"
    BY <1>1, <1>2 DEF Meta, LineTypes
  <1>4. Unrendered \in LineType /\ Unrendered.type = "__tracer_error__"
    BY <1>1, <1>2 DEF Unrendered, LineTypes
  <1>5. ASSUME NEW e \in PiEvents, Translate(e) # None
        PROVE  Line(Translate(e)) \in Written \cap LineType
    <2>1. e \in LineType
      BY EventsAssumption DEF LineType, LineTypes
    <2>2. Translate(e) \in LineType
      BY <2>1, <1>5, <1>1 DEF Translate, LineTypes, TraceEventTypes
    <2>3. Translate(e) \in Written
      BY DEF Written
    <2>4. Line(Translate(e)) \in {Translate(e), Unrendered}
      BY DEF Line, Unrendered
    <2> QED
      BY <2>2, <2>3, <2>4, <1>4 DEF Written
  <1> QED
    BY <1>3, <1>4, <1>5 DEF Written

MInv == IInv /\ TraceKept /\ EventsKept /\ FlagsTold /\ MeasuresTyped

LEMMA InitMInv == Init => MInv
  <1> SUFFICES ASSUME Init PROVE MInv
    OBVIOUS
  <1>1. TraceKept
    BY LinesTyped, MeasurementAssumption DEF Init, TraceKept
  <1>2. FlagsTold
    BY LinesTyped DEF Init, SessionInit, Silence, FlagsTold, Tells
  <1>3. MeasuresTyped
    BY DEF Init, NewCounters, CountersType, EditInTime, MeasuresTyped
  <1>4. EventsKept
    BY DEF Init, EventsKept
  <1> QED
    BY <1>1, <1>2, <1>3, <1>4, InitIInv DEF MInv

\* What the agent may make the loop hear.
LEMMA WhatIsHeard ==
    ASSUME NEW e \in PiEvents
    PROVE  LET written == Translate(e) IN
           /\ Notice(e) \in {"start", "tool", "text", "other"}
           /\ Notice(e) = "start" => written # None /\ Line(written).type = "agent_start"
           /\ Notice(e) = "text" => written # None /\ Line(written).type = "message_text_delta"
           /\ written # None /\ Line(written).type = "agent_start" => Notice(e) = "start"
           /\ written # None /\ Line(written).type = "tool_execution_start" => Notice(e) = "tool"
  <1>1. /\ e.type \in (TraceEventTypes \ {"message_text_delta"}) \cup {"text_delta", "other"}
        /\ ~e.plain => e.type = "tool_execution_start"
        /\ Translate(e) = None => e.type = "other"
        /\ \A type : [e EXCEPT !.type = type].type = type /\ [e EXCEPT !.type = type].plain = e.plain
    BY EventsAssumption
  <1>2. CASE e.type = "other"
    BY <1>1, <1>2 DEF Translate, Notice
  <1>3. CASE e.type = "text_delta"
    BY <1>1, <1>3 DEF Translate, Line, Notice
  <1>4. CASE e.type \notin {"other", "text_delta"}
    BY <1>1, <1>4, LinesTyped DEF Translate, Line, Notice, Unrendered, TraceEventTypes
  <1> QED
    BY <1>2, <1>3, <1>4

\* A line more, and the flags that go with it.
LEMMA OneLineMore ==
    ASSUME NEW S, NEW lines \in Seq(S), NEW line, NEW s \in 1..Len(lines),
           NEW before \in [tool : BOOLEAN, text : BOOLEAN],
           NEW after \in [tool : BOOLEAN, text : BOOLEAN],
           Tells(s, lines, before), line.type # "agent_start",
           line.type = "tool_execution_start" => after.tool,
           before.tool => after.tool,
           after.text => before.text \/ line.type = "message_text_delta"
    PROVE  Tells(s, Append(lines, line), after)
  <1> DEFINE more == Append(lines, line)
  <1>1. /\ Len(more) = Len(lines) + 1 /\ more[Len(more)] = line
        /\ \A i \in 1..Len(lines) : more[i] = lines[i]
    OBVIOUS
  <1> HIDE DEF more
  <1>2. \A i \in (s + 1)..Len(more) : i = Len(more) \/ i \in (s + 1)..Len(lines)
    BY <1>1
  <1>3. \A i \in (s + 1)..Len(lines) : i \in (s + 1)..Len(more) /\ more[i] = lines[i]
    BY <1>1
  <1>4. Len(more) \in (s + 1)..Len(more) /\ more[s] = lines[s]
    BY <1>1
  <1>5. Tells(s, more, after)
    BY <1>1, <1>2, <1>3, <1>4 DEF Tells
  <1> QED
    BY <1>5 DEF more

LEMMA EmitKeepsTrace == ASSUME MInv, NEW e \in PiEvents, Emit(e) PROVE TraceKept' /\ FlagsTold'
  <1> DEFINE written == Translate(e)
             line == Line(written)
  <1>1. /\ heard' = CASE Notice(e) = "start" -> Silence
                      [] Notice(e) = "tool"  -> [heard EXCEPT !.tool = TRUE]
                      [] Notice(e) = "text"  -> [heard EXCEPT !.text = TRUE]
                      [] Notice(e) = "other" -> heard
        /\ trace' = IF written = None THEN trace ELSE Append(trace, line)
        /\ Len(trace) <= MaxEvents /\ read' = read
    BY DEF Emit, Hear
  <1>2. written # None => line \in Written \cap LineType
    BY LinesTyped
  <1>3. /\ Notice(e) \in {"start", "tool", "text", "other"}
        /\ Notice(e) = "start" => written # None /\ line.type = "agent_start"
        /\ Notice(e) = "text" => written # None /\ line.type = "message_text_delta"
        /\ written # None /\ line.type = "agent_start" => Notice(e) = "start"
        /\ written # None /\ line.type = "tool_execution_start" => Notice(e) = "tool"
    BY WhatIsHeard
  <1>4. heard \in [tool : BOOLEAN, text : BOOLEAN] /\ TraceKept /\ FlagsTold
    BY DEF MInv, IInv, SessionTypeOK
  <1> HIDE DEF written, line
  <1>5. TraceKept'
    <2>1. CASE written = None
      BY <1>1, <1>4, <2>1 DEF TraceKept
    <2>2. CASE written # None
      BY <1>1, <1>2, <1>4, <2>2, MeasurementAssumption DEF TraceKept
    <2> QED
      BY <2>1, <2>2
  <1>6. PICK s \in 1..Len(trace) : Tells(s, trace, heard)
    BY <1>4 DEF FlagsTold
  <1>7. heard' \in [tool : BOOLEAN, text : BOOLEAN]
    BY <1>1, <1>3, <1>4 DEF Silence
  <1>8. CASE Notice(e) = "start"
    <2>1. trace' = Append(trace, line) /\ line.type = "agent_start" /\ heard' = Silence
      BY <1>1, <1>3, <1>8
    <2>2. Len(trace') \in 1..Len(trace') /\ trace'[Len(trace')] = line
      BY <2>1, <1>4 DEF TraceKept
    <2>3. (Len(trace') + 1)..Len(trace') = {}
      BY <2>2
    <2>4. Tells(Len(trace'), trace', heard')
      BY <2>1, <2>2, <2>3 DEF Tells, Silence
    <2> QED
      BY <2>2, <2>4, <1>5 DEF FlagsTold
  <1>9. CASE Notice(e) # "start"
    <2>1. /\ heard.tool => heard'.tool
          /\ Notice(e) = "tool" => heard'.tool
          /\ heard'.text => heard.text \/ Notice(e) = "text"
      BY <1>1, <1>3, <1>4, <1>9
    <2>2. CASE written = None
      <3>1. trace' = trace /\ (heard.tool => heard'.tool) /\ (heard'.text => heard.text)
        BY <1>1, <1>3, <2>1, <2>2
      <3>2. Tells(s, trace', heard')
        BY <1>6, <3>1 DEF Tells
      <3> QED
        BY <3>1, <3>2, <1>5 DEF FlagsTold
    <2>3. CASE written # None
      <3>1. trace' = Append(trace, line)
        BY <1>1, <2>3
      <3>2. Tells(s, trace', heard')
        <4>1. trace \in Seq(Written \cap LineType)
          BY <1>4 DEF TraceKept
        <4>2. line.type # "agent_start" /\ (line.type = "tool_execution_start" => heard'.tool)
          BY <1>3, <1>9, <2>1, <2>3
        <4>3. heard'.text => heard.text \/ line.type = "message_text_delta"
          BY <1>3, <2>1
        <4> QED
          BY <1>4, <1>6, <1>7, <2>1, <3>1, <4>1, <4>2, <4>3, OneLineMore
      <3>3. s \in 1..Len(trace')
        BY <3>1, <1>4 DEF TraceKept
      <3> QED
        BY <3>2, <3>3, <1>5 DEF FlagsTold
    <2> QED
      BY <2>2, <2>3
  <1> QED
    BY <1>5, <1>8, <1>9

\* What the call of a tool does to the counters, field by field.
Called(c, line, next) ==
    /\ next \in CountersType
    /\ next.toolCallsTotal = c.toolCallsTotal + 1
    /\ next.toolCallsPerType = Bump(c.toolCallsPerType, line.tool)
    /\ next.bashCommands = IF line.tool = "bash" THEN c.bashCommands + 1 ELSE c.bashCommands
    /\ next.filesReadUnique = IF Explores(c, line) THEN c.filesReadUnique \cup {line.path}
                              ELSE c.filesReadUnique
    /\ next.firstWriteSeen <=> c.firstWriteSeen \/ Edits(line)
    /\ next.turnsToFirstEdit = IF Edits(line) /\ ~c.firstWriteSeen
                               THEN Max({c.currentTurn, 1}) ELSE c.turnsToFirstEdit
    /\ next.writeEditCount =
           IF Edits(line) /\ line.path # None
           THEN Bump(c.writeEditCount, line.path) ELSE c.writeEditCount
    /\ next.tokensInTotal = c.tokensInTotal /\ next.tokensInUpfront = c.tokensInUpfront
    /\ next.perTurnInput = c.perTurnInput /\ next.currentTurn = c.currentTurn

LEMMA CallCounted ==
    ASSUME NEW c \in CountersType, NEW line \in LineType
    PROVE  line.tool # None => Called(c, line, HandleToolStart(c, line))
  <1> SUFFICES ASSUME line.tool # None PROVE Called(c, line, HandleToolStart(c, line))
    OBVIOUS
  <1> DEFINE next == HandleToolStart(c, line)
             first == Max({c.currentTurn, 1})
             known == IF Explores(c, line) THEN c.filesReadUnique \cup {line.path}
                      ELSE c.filesReadUnique
             seen == c.firstWriteSeen \/ Edits(line)
             toFirst == IF Edits(line) /\ ~c.firstWriteSeen THEN first ELSE c.turnsToFirstEdit
             edited == IF Edits(line) /\ line.path # None
                       THEN Bump(c.writeEditCount, line.path) ELSE c.writeEditCount
             perType == Bump(c.toolCallsPerType, line.tool)
             bashes == IF line.tool = "bash" THEN c.bashCommands + 1 ELSE c.bashCommands
  <1>1. next = [c EXCEPT !.toolCallsTotal = c.toolCallsTotal + 1, !.toolCallsPerType = perType,
                         !.bashCommands = bashes, !.filesReadUnique = known,
                         !.firstWriteSeen = seen, !.turnsToFirstEdit = toFirst,
                         !.writeEditCount = edited]
    BY DEF HandleToolStart
  <1>2. first \in Nat
    BY MaxOfTwo DEF CountersType
  <1>3. toFirst \in Nat \cup {None} /\ bashes \in Nat /\ c.toolCallsTotal + 1 \in Nat
    BY <1>2 DEF CountersType
  <1>4. known \in SUBSET Paths
    BY DEF CountersType, LineType, Explores
  <1>5. perType \in [Tools -> Nat] /\ edited \in [Paths -> Nat]
    BY DEF CountersType, LineType, Bump
  <1>6. seen \in BOOLEAN
    BY DEF CountersType, Edits
  <1> HIDE DEF next, first, known, seen, toFirst, edited, perType, bashes
  <1>7. next \in CountersType
    BY <1>1, <1>3, <1>4, <1>5, <1>6 DEF CountersType
  <1>8. /\ next.toolCallsTotal = c.toolCallsTotal + 1 /\ next.toolCallsPerType = perType
        /\ next.bashCommands = bashes /\ next.filesReadUnique = known
        /\ next.firstWriteSeen = seen /\ next.turnsToFirstEdit = toFirst
        /\ next.writeEditCount = edited
        /\ next.tokensInTotal = c.tokensInTotal /\ next.tokensInUpfront = c.tokensInUpfront
        /\ next.perTurnInput = c.perTurnInput /\ next.currentTurn = c.currentTurn
    BY <1>1 DEF CountersType
  <1> QED
    BY <1>7, <1>8 DEF Called, next, first, known, seen, toFirst, edited, perType, bashes

\* What the end of a turn does to them.
LEMMA TurnCounted ==
    ASSUME NEW c \in CountersType, NEW line \in LineType
    PROVE  LET next == HandleTurnEnd(c, line) IN
           /\ next \in CountersType
           /\ next.perTurnInput =
                  IF line.input = None THEN c.perTurnInput ELSE Append(c.perTurnInput, line.input)
           /\ next.tokensInTotal =
                  IF line.input = None THEN c.tokensInTotal ELSE c.tokensInTotal + line.input
           /\ next.tokensInUpfront =
                  IF c.tokensInUpfront = None THEN line.input ELSE c.tokensInUpfront
           /\ next = [c EXCEPT !.perTurnInput = next.perTurnInput,
                               !.tokensInTotal = next.tokensInTotal,
                               !.tokensInUpfront = next.tokensInUpfront,
                               !.tokensOutTotal = next.tokensOutTotal]
  <1> DEFINE next == HandleTurnEnd(c, line)
             turns == IF line.input = None THEN c.perTurnInput ELSE Append(c.perTurnInput, line.input)
             in == IF line.input = None THEN c.tokensInTotal ELSE c.tokensInTotal + line.input
             up == IF c.tokensInUpfront = None THEN line.input ELSE c.tokensInUpfront
             out == IF line.output = None THEN c.tokensOutTotal ELSE c.tokensOutTotal + line.output
  <1>1. next = [c EXCEPT !.perTurnInput = turns, !.tokensInTotal = in, !.tokensInUpfront = up,
                         !.tokensOutTotal = out]
    BY DEF HandleTurnEnd
  <1>2. turns \in Seq(Nat) /\ in \in Nat /\ out \in Nat /\ up \in Nat \cup {None}
    BY DEF CountersType, LineType
  <1> HIDE DEF next, turns, in, up, out
  <1>3. next \in CountersType
    BY <1>1, <1>2 DEF CountersType
  <1>4. /\ next.perTurnInput = turns /\ next.tokensInTotal = in /\ next.tokensInUpfront = up
        /\ next.tokensOutTotal = out
    BY <1>1 DEF CountersType
  <1>5. next = [c EXCEPT !.perTurnInput = next.perTurnInput,
                         !.tokensInTotal = next.tokensInTotal,
                         !.tokensInUpfront = next.tokensInUpfront,
                         !.tokensOutTotal = next.tokensOutTotal]
    BY <1>1, <1>4
  <1> QED
    BY <1>3, <1>4, <1>5 DEF next, turns, in, up

LEMMA CountTyped ==
    ASSUME NEW c \in CountersType, NEW line \in LineType
    PROVE  Count(c, line) \in CountersType
  <1>1. CASE line.type = "turn_start"
    <2>1. Count(c, line) = [c EXCEPT !.currentTurn = c.currentTurn + 1]
      BY <1>1 DEF Count
    <2>2. c.currentTurn + 1 \in Nat
      BY DEF CountersType
    <2>3. \A n \in Nat : [c EXCEPT !.currentTurn = n] \in CountersType
      BY DEF CountersType
    <2> QED
      BY <2>1, <2>2, <2>3
  <1>2. CASE line.type = "tool_execution_start"
    <2>1. Count(c, line) = HandleToolStart(c, line)
      BY <1>2 DEF Count
    <2>2. line.tool = None => HandleToolStart(c, line) = c
      BY DEF HandleToolStart
    <2>3. line.tool # None => Called(c, line, HandleToolStart(c, line))
      BY CallCounted
    <2>4. \A next : Called(c, line, next) => next \in CountersType
      BY DEF Called
    <2> QED
      BY <2>1, <2>2, <2>3, <2>4
  <1>3. CASE line.type = "turn_end"
    <2>1. Count(c, line) = HandleTurnEnd(c, line)
      BY <1>3 DEF Count
    <2> QED
      BY <2>1, TurnCounted
  <1>4. CASE line.type \notin {"turn_start", "tool_execution_start", "turn_end"}
    BY <1>4 DEF Count
  <1> QED
    BY <1>1, <1>2, <1>3, <1>4

\* The turn of the first edit is fixed when it is made.
LEMMA CountInTime ==
    ASSUME NEW c \in CountersType, NEW line \in LineType,
           c.turnsToFirstEdit \in 1..Max({1, c.currentTurn}) \cup {None}
    PROVE  LET next == Count(c, line) IN
           next.turnsToFirstEdit \in 1..Max({1, next.currentTurn}) \cup {None}
  <1> DEFINE next == Count(c, line)
  <1>1. c.currentTurn \in Nat
    BY DEF CountersType
  <1>2. CASE line.type = "turn_start"
    <2>1. next.currentTurn = c.currentTurn + 1 /\ next.turnsToFirstEdit = c.turnsToFirstEdit
      BY <1>2 DEF Count, CountersType
    <2> QED
      BY <2>1, <1>1, MaxOfTwo
  <1>3. CASE line.type = "tool_execution_start"
    <2>1. next = HandleToolStart(c, line)
      BY <1>3 DEF Count
    <2>2. CASE line.tool = None
      BY <2>1, <2>2 DEF HandleToolStart
    <2>3. CASE line.tool # None
      <3>1. Called(c, line, next)
        BY <2>1, <2>3, CallCounted
      <3>2. Max({c.currentTurn, 1}) \in 1..Max({1, c.currentTurn})
        BY <1>1, MaxOfTwo
      <3> HIDE DEF next
      <3>3. /\ next.turnsToFirstEdit \in {Max({c.currentTurn, 1}), c.turnsToFirstEdit}
            /\ next.currentTurn = c.currentTurn
        BY <3>1 DEF Called
      <3> QED
        BY <3>2, <3>3 DEF next
    <2> QED
      BY <2>2, <2>3
  <1>4. CASE line.type = "turn_end"
    <2>1. next = HandleTurnEnd(c, line)
      BY <1>4 DEF Count
    <2>2. next.turnsToFirstEdit = c.turnsToFirstEdit /\ next.currentTurn = c.currentTurn
      BY <2>1 DEF HandleTurnEnd, CountersType
    <2> QED
      BY <2>2
  <1>5. CASE line.type \notin {"turn_start", "tool_execution_start", "turn_end"}
    BY <1>5 DEF Count
  <1> QED
    BY <1>2, <1>3, <1>4, <1>5

LEMMA NextKeepsMInv == MInv /\ [Next]_vars => MInv'
  <1> SUFFICES ASSUME MInv, [Next]_vars PROVE MInv'
    OBVIOUS
  <1>1. IInv'
    BY NextKeeps DEF MInv
  <1>2. CASE ReadLine
    <2>1. /\ read' = read + 1 /\ read < Len(trace) /\ counters' = Count(counters, trace[read + 1])
          /\ UNCHANGED <<trace, heard, metrics>>
      BY <1>2 DEF ReadLine, sessionVars
    <2>2. TraceKept' /\ FlagsTold'
      BY <2>1 DEF MInv, TraceKept, FlagsTold
    <2>3. trace[read + 1] \in LineType
      BY <2>1 DEF MInv, TraceKept
    <2>4. counters' \in CountersType /\ EditInTime'
      BY <2>1, <2>3, CountTyped, CountInTime DEF MInv, MeasuresTyped, EditInTime
    <2>5. EventsKept'
      <3> DEFINE line == trace[read + 1]
      <3>1. /\ events \in Seq(LineType) /\ Len(events) <= read /\ read \in Nat
            /\ \A i \in 1..Len(events) : IsTraceEvent(events[i])
            /\ line \in LineType
        BY <2>3 DEF MInv, EventsKept, TraceKept
      <3>2. events' = IF IsTraceEvent(line) THEN Append(events, line) ELSE events
        BY <1>2 DEF ReadLine
      <3> HIDE DEF line
      <3>3. CASE IsTraceEvent(line)
        <4>1. /\ events' \in Seq(LineType) /\ Len(events') = Len(events) + 1
              /\ \A i \in 1..Len(events') : events'[i] = IF i = Len(events) + 1 THEN line ELSE events[i]
          BY <3>1, <3>2, <3>3
        <4> QED
          BY <2>1, <3>1, <3>3, <4>1 DEF EventsKept
      <3>4. CASE ~IsTraceEvent(line)
        BY <2>1, <3>1, <3>2, <3>4 DEF EventsKept
      <3> QED
        BY <3>3, <3>4
    <2> QED
      BY <1>1, <2>1, <2>2, <2>4, <2>5 DEF MInv, MeasuresTyped
  <1>3. CASE \E event \in PiEvents : Emit(event)
    <2>1. TraceKept' /\ FlagsTold'
      BY <1>3, EmitKeepsTrace
    <2>2. UNCHANGED <<read, events, counters, metrics>>
      BY <1>3 DEF Emit
    <2> QED
      BY <1>1, <2>1, <2>2 DEF MInv, EventsKept, MeasuresTyped, EditInTime
  <1>4. CASE Derive
    <2>1. UNCHANGED <<trace, read, events, counters, heard>>
      BY <1>4 DEF Derive, sessionVars
    <2>2. \E rules \in Profiles, window \in Windows :
              metrics' = [rules |-> rules, window |-> window, values |-> MetricsOf(rules, window)]
      BY <1>4 DEF Derive
    <2>3. metrics'.rules \in Profiles /\ metrics'.window \in Windows
      BY <2>2
    <2> QED
      BY <1>1, <2>1, <2>3 DEF MInv, TraceKept, EventsKept, FlagsTold, MeasuresTyped, EditInTime
  <1>5. CASE SessionStep /\ UNCHANGED measures
    <2>1. UNCHANGED <<trace, read, events, counters, metrics, heard>>
      BY <1>5 DEF measures, SessionStep, SetupFails, Begin, PromptAgain, LoopReturns,
                  PromptRejects, TimerFires, AbortSettles, ShutDown
    <2> QED
      BY <1>1, <2>1 DEF MInv, TraceKept, EventsKept, FlagsTold, MeasuresTyped, EditInTime
  <1>6. CASE UNCHANGED vars
    <2>1. UNCHANGED <<trace, read, events, counters, metrics, heard>>
      BY <1>6 DEF vars, measures, sessionVars
    <2> QED
      BY <1>1, <2>1 DEF MInv, TraceKept, EventsKept, FlagsTold, MeasuresTyped, EditInTime
  <1> QED
    BY <1>2, <1>3, <1>4, <1>5, <1>6 DEF Next

LEMMA MeasuredInvariant == Spec => []MInv
  BY InitMInv, NextKeepsMInv, PTL DEF Spec

-----------------------------------------------------------------------------
\* Type correctness of a session and its metrics (runSession, Tracer.record,
\* deriveLayer2Metrics).
THEOREM MeasurementTypeCorrect == Spec => []TypeOK
  <1>1. MInv => TypeOK
    <2> SUFFICES ASSUME MInv PROVE TypeOK
      OBVIOUS
    <2>1. trace \in Seq(Written)
      BY DEF MInv, TraceKept
    <2>2. /\ counters.perTurnInput \in Seq(Nat) /\ counters.filesReadUnique \subseteq Paths
          /\ counters.turnsToFirstEdit \in (1..Max({1, counters.currentTurn})) \cup {None}
      BY DEF MInv, MeasuresTyped, CountersType, EditInTime
    <2>3. /\ SessionTypeOK /\ Len(trace) \in 1..(MaxEvents + 1) /\ read \in 0..Len(trace)
          /\ Len(events) <= read
      BY DEF MInv, IInv, TraceKept, EventsKept
    <2>4. metrics = None \/ (metrics.rules \in Profiles /\ metrics.window \in Windows)
      BY DEF MInv, MeasuresTyped
    <2> QED
      BY <2>1, <2>2, <2>3, <2>4 DEF TypeOK, Written, Unrendered
  <1> QED
    BY <1>1, MeasuredInvariant, PTL

\* Whenever the clarification loop prompts again (driveClarificationLoop), the
\* trace shows that the agent has said something and called no tool since it
\* last started, whatever has been recorded in between.
THEOREM RequestsExplained == Spec => RequestsAreExplained
  <1> DEFINE Explained ==
          requests' > requests =>
          \E s \in 1..Len(trace) :
            /\ trace[s].type \in {"_meta", "agent_start"}
            /\ \A i \in (s + 1)..Len(trace) :
                   trace[i].type \notin {"agent_start", "tool_execution_start"}
            /\ \E i \in (s + 1)..Len(trace) : trace[i].type = "message_text_delta"
  <1>1. MInv /\ [Next]_vars => [Explained]_vars
    <2> SUFFICES ASSUME MInv, Next, requests' > requests PROVE Explained
      BY DEF vars
    <2>1. requests \in Nat
      BY PiSessionAssumption DEF MInv, IInv, SessionTypeOK
    <2>2. AsksAgain
      BY <2>1 DEF Next, Emit, Hear, ReadLine, Derive, sessionVars, SessionStep, SetupFails, Begin,
                  PromptAgain, LoopReturns, PromptRejects, TimerFires, AbortSettles, ShutDown
    <2>3. PICK s \in 1..Len(trace) : Tells(s, trace, heard)
      BY DEF MInv, FlagsTold
    <2> QED
      BY <2>2, <2>3 DEF AsksAgain, Tells
  <1> QED
    BY <1>1, MeasuredInvariant, PTL DEF Spec, RequestsAreExplained

-----------------------------------------------------------------------------
(* The counters and the lines that were read: the first n lines of t.      *)

OfType(t, n, type) == {i \in 1..n : t[i].type = type}
Calls(t, n) == {i \in OfType(t, n, "tool_execution_start") : t[i].tool # None}
CallsOf(t, n, tool) == {i \in Calls(t, n) : t[i].tool = tool}
EditLines(t, n) == {i \in Calls(t, n) : Edits(t[i])}
EditsTo(t, n, path) == {i \in EditLines(t, n) : t[i].path = path}
Early(t, n) == {i \in 1..n : \A e \in EditLines(t, n) : i < e}
EarlyReads(t, n) == {i \in Calls(t, n) \cap Early(t, n) : t[i].tool = "read"}
Inputs(t, n) == {i \in OfType(t, n, "turn_end") : t[i].input # None}
Repeats(t, n) == {i \in EditLines(t, n) : t[i].path # None /\
                     \E j \in EditLines(t, n) : j < i /\ t[j].path = t[i].path}

\* A set of lines, after one more was read that may belong to it.
With(S, n, belongs) == IF belongs THEN S \cup {n + 1} ELSE S

Calling(line) == line.type = "tool_execution_start" /\ line.tool # None

LEMMA CardinalityWith ==
    ASSUME NEW n \in Nat, NEW S \in SUBSET (1..n), NEW belongs \in BOOLEAN
    PROVE  /\ IsFiniteSet(S) /\ Cardinality(S) \in Nat
           /\ Cardinality(With(S, n, belongs)) = IF belongs THEN Cardinality(S) + 1 ELSE Cardinality(S)
  <1>1. IsFiniteSet(1..n)
    BY FS_Interval
  <1>2. IsFiniteSet(S) /\ Cardinality(S) \in Nat
    BY <1>1, FS_Subset, FS_CardinalityType
  <1>3. n + 1 \notin S
    BY SMT
  <1>4. Cardinality(S \cup {n + 1}) = Cardinality(S) + 1
    BY <1>2, <1>3, FS_AddElement
  <1> QED
    BY <1>2, <1>4 DEF With

\* Every set is one of lines that were read, and grows by the line read next.
LEMMA LinesGrow ==
    ASSUME NEW t, NEW n \in Nat
    PROVE  LET line == t[n + 1] IN
           /\ \A type : /\ OfType(t, n, type) \subseteq 1..n
                        /\ OfType(t, n + 1, type) = With(OfType(t, n, type), n, line.type = type)
           /\ Calls(t, n) \subseteq 1..n
           /\ Calls(t, n + 1) = With(Calls(t, n), n, Calling(line))
           /\ \A tool : /\ CallsOf(t, n, tool) \subseteq 1..n
                        /\ CallsOf(t, n + 1, tool) =
                               With(CallsOf(t, n, tool), n, Calling(line) /\ line.tool = tool)
           /\ EditLines(t, n) \subseteq 1..n
           /\ EditLines(t, n + 1) = With(EditLines(t, n), n, Calling(line) /\ Edits(line))
           /\ \A path : /\ EditsTo(t, n, path) \subseteq 1..n
                        /\ EditsTo(t, n + 1, path) =
                               With(EditsTo(t, n, path), n,
                                    Calling(line) /\ Edits(line) /\ line.path = path)
           /\ Inputs(t, n) \subseteq 1..n
           /\ Inputs(t, n + 1) =
                  With(Inputs(t, n), n, line.type = "turn_end" /\ line.input # None)
  <1>0. 1..(n + 1) = 1..n \cup {n + 1}
    OBVIOUS
  <1>1. \A type : /\ OfType(t, n, type) \subseteq 1..n
                  /\ OfType(t, n + 1, type) = With(OfType(t, n, type), n, t[n + 1].type = type)
    BY <1>0 DEF OfType, With
  <1> HIDE DEF With
  <1>2. /\ Calls(t, n) \subseteq 1..n
        /\ Calls(t, n + 1) = With(Calls(t, n), n, Calling(t[n + 1]))
    BY <1>0, <1>1 DEF Calls, Calling, With
  <1>3. \A tool : /\ CallsOf(t, n, tool) \subseteq 1..n
                  /\ CallsOf(t, n + 1, tool) =
                         With(CallsOf(t, n, tool), n, Calling(t[n + 1]) /\ t[n + 1].tool = tool)
    BY <1>2 DEF CallsOf, With
  <1>4. /\ EditLines(t, n) \subseteq 1..n
        /\ EditLines(t, n + 1) = With(EditLines(t, n), n, Calling(t[n + 1]) /\ Edits(t[n + 1]))
    BY <1>2 DEF EditLines, With
  <1>5. \A path : /\ EditsTo(t, n, path) \subseteq 1..n
                  /\ EditsTo(t, n + 1, path) =
                         With(EditsTo(t, n, path), n,
                              Calling(t[n + 1]) /\ Edits(t[n + 1]) /\ t[n + 1].path = path)
    BY <1>4 DEF EditsTo, With
  <1>6. /\ Inputs(t, n) \subseteq 1..n
        /\ Inputs(t, n + 1) =
               With(Inputs(t, n), n, t[n + 1].type = "turn_end" /\ t[n + 1].input # None)
    BY <1>1 DEF Inputs, With
  <1> QED
    BY <1>1, <1>2, <1>3, <1>4, <1>5, <1>6

\* The first edit ends the early lines; an edit is repeated if its file was
\* edited before.
LEMMA EarlyGrows ==
    ASSUME NEW t, NEW n \in Nat
    PROVE  LET line == t[n + 1] IN
           /\ Early(t, n) \subseteq 1..n
           /\ EditLines(t, n) = {} => Early(t, n) = 1..n
           /\ Early(t, n + 1) = With(Early(t, n), n, EditLines(t, n + 1) = {})
           /\ Repeats(t, n) \subseteq 1..n
           /\ Repeats(t, n + 1) =
                  With(Repeats(t, n), n, /\ Calling(line) /\ Edits(line) /\ line.path # None
                                         /\ EditsTo(t, n, line.path) # {})
  <1> DEFINE E == EditLines(t, n)
             F == EditLines(t, n + 1)
  <1>0. 1..(n + 1) = 1..n \cup {n + 1}
    OBVIOUS
  <1>1. /\ E \subseteq 1..n
        /\ F = With(E, n, Calling(t[n + 1]) /\ Edits(t[n + 1]))
    BY LinesGrow
  <1>2. /\ Early(t, n) = {i \in 1..n : \A e \in E : i < e}
        /\ Early(t, n + 1) = {i \in 1..(n + 1) : \A e \in F : i < e}
        /\ Repeats(t, n) = {i \in E : t[i].path # None /\ \E j \in E : j < i /\ t[j].path = t[i].path}
        /\ Repeats(t, n + 1) =
              {i \in F : t[i].path # None /\ \E j \in F : j < i /\ t[j].path = t[i].path}
        /\ EditsTo(t, n, t[n + 1].path) = {i \in E : t[i].path = t[n + 1].path}
    BY DEF Early, Repeats, EditsTo
  <1> HIDE DEF E, F
  <1>3. \A e \in F : e \in E \/ e = n + 1
    BY <1>1 DEF With
  <1>4. \A e \in E : e \in F /\ e \in 1..n
    BY <1>1 DEF With
  <1>5. \A i \in 1..n : i < n + 1
    OBVIOUS
  <1>6. F # {} => ~ \A e \in F : n + 1 < e
    BY <1>3, <1>4
  <1>7. Early(t, n + 1) = With(Early(t, n), n, F = {})
    <2>1. ASSUME NEW i \in 1..n PROVE (\A e \in F : i < e) <=> (\A e \in E : i < e)
      BY <1>3, <1>4, <1>5
    <2> QED
      BY <1>0, <1>2, <1>6, <2>1 DEF With
  <1>8. Repeats(t, n + 1) =
            With(Repeats(t, n), n, /\ Calling(t[n + 1]) /\ Edits(t[n + 1]) /\ t[n + 1].path # None
                                   /\ EditsTo(t, n, t[n + 1].path) # {})
    <2>1. n + 1 \notin E
      BY <1>4
    <2>2. ASSUME NEW i \in E
          PROVE  (\E j \in F : j < i /\ t[j].path = t[i].path) <=>
                 (\E j \in E : j < i /\ t[j].path = t[i].path)
      BY <1>3, <1>4
    <2>3. (\E j \in F : j < n + 1 /\ t[j].path = t[n + 1].path) <=>
          EditsTo(t, n, t[n + 1].path) # {}
      BY <1>2, <1>3, <1>4, <1>5
    <2>4. n + 1 \in F <=> Calling(t[n + 1]) /\ Edits(t[n + 1])
      BY <1>1, <2>1 DEF With
    <2> DEFINE before == EditsTo(t, n, t[n + 1].path)
               belongs == /\ Calling(t[n + 1]) /\ Edits(t[n + 1]) /\ t[n + 1].path # None
                          /\ before # {}
    <2>5. n + 1 \in Repeats(t, n + 1) <=> belongs
      <3> HIDE DEF before
      <3>1. n + 1 \in Repeats(t, n + 1) <=>
                n + 1 \in F /\ t[n + 1].path # None /\
                \E j \in F : j < n + 1 /\ t[j].path = t[n + 1].path
        BY <1>2
      <3>2. (\E j \in F : j < n + 1 /\ t[j].path = t[n + 1].path) <=> before # {}
        BY <2>3 DEF before
      <3> QED
        BY <3>1, <3>2, <2>4
    <2>6. ASSUME NEW i, i # n + 1
          PROVE  i \in Repeats(t, n + 1) <=> i \in Repeats(t, n)
      <3>1. i \in F <=> i \in E
        BY <1>3, <1>4, <2>6
      <3> QED
        BY <1>2, <2>2, <3>1
    <2>7. Repeats(t, n) \subseteq E
      BY <1>2
    <2> HIDE DEF belongs
    <2>8. Repeats(t, n + 1) = With(Repeats(t, n), n, belongs)
      BY <2>1, <2>5, <2>6, <2>7 DEF With
    <2> QED
      BY <2>8 DEF belongs
  <1> QED
    BY <1>1, <1>2, <1>7, <1>8 DEF E, F

Billed(line) == line.type = "turn_end" /\ line.input # None

\* What one line does to the counters, whatever it is.
Counted(c, line, d) ==
    /\ d \in CountersType
    /\ IF Calling(line) THEN Called(c, line, d)
       ELSE /\ d.toolCallsTotal = c.toolCallsTotal /\ d.toolCallsPerType = c.toolCallsPerType
            /\ d.bashCommands = c.bashCommands /\ d.filesReadUnique = c.filesReadUnique
            /\ d.firstWriteSeen = c.firstWriteSeen /\ d.turnsToFirstEdit = c.turnsToFirstEdit
            /\ d.writeEditCount = c.writeEditCount
    /\ d.currentTurn = IF line.type = "turn_start" THEN c.currentTurn + 1 ELSE c.currentTurn
    /\ IF Billed(line)
       THEN /\ d.perTurnInput = Append(c.perTurnInput, line.input)
            /\ d.tokensInTotal = c.tokensInTotal + line.input
            /\ d.tokensInUpfront = IF c.tokensInUpfront = None THEN line.input
                                   ELSE c.tokensInUpfront
       ELSE /\ d.perTurnInput = c.perTurnInput /\ d.tokensInTotal = c.tokensInTotal
            /\ d.tokensInUpfront = c.tokensInUpfront

LEMMA CountIsCounted ==
    ASSUME NEW c \in CountersType, NEW line \in LineType
    PROVE  Counted(c, line, Count(c, line))
  <1> DEFINE d == Count(c, line)
  <1>0. d \in CountersType
    BY CountTyped
  <1>1. CASE line.type = "turn_start"
    <2>1. ~Calling(line) /\ ~Billed(line)
      BY <1>1 DEF Calling, Billed
    <2>2. d = [c EXCEPT !.currentTurn = c.currentTurn + 1]
      BY <1>1 DEF Count
    <2> QED
      BY <1>0, <1>1, <2>1, <2>2 DEF Counted, CountersType
  <1>2. CASE Calling(line)
    <2>1. line.type = "tool_execution_start" /\ line.tool # None /\ ~Billed(line)
      BY <1>2 DEF Calling, Billed
    <2>2. d = HandleToolStart(c, line)
      BY <2>1 DEF Count
    <2>3. Called(c, line, d)
      BY <2>1, <2>2, CallCounted
    <2> HIDE DEF d
    <2>4. /\ d.tokensInTotal = c.tokensInTotal /\ d.tokensInUpfront = c.tokensInUpfront
          /\ d.perTurnInput = c.perTurnInput /\ d.currentTurn = c.currentTurn
      BY <2>3 DEF Called
    <2> QED
      BY <1>0, <1>2, <2>1, <2>3, <2>4 DEF Counted, d
  <1>3. CASE line.type = "turn_end"
    <2>1. ~Calling(line) /\ (Billed(line) <=> line.input # None)
      BY <1>3 DEF Calling, Billed
    <2>2. d = HandleTurnEnd(c, line)
      BY <1>3 DEF Count
    <2>3. /\ d.perTurnInput =
                 IF line.input = None THEN c.perTurnInput ELSE Append(c.perTurnInput, line.input)
          /\ d.tokensInTotal =
                 IF line.input = None THEN c.tokensInTotal ELSE c.tokensInTotal + line.input
          /\ d.tokensInUpfront =
                 IF c.tokensInUpfront = None THEN line.input ELSE c.tokensInUpfront
      BY <2>2, TurnCounted
    <2>4. /\ d.toolCallsTotal = c.toolCallsTotal /\ d.toolCallsPerType = c.toolCallsPerType
          /\ d.bashCommands = c.bashCommands /\ d.filesReadUnique = c.filesReadUnique
          /\ d.firstWriteSeen = c.firstWriteSeen /\ d.turnsToFirstEdit = c.turnsToFirstEdit
          /\ d.writeEditCount = c.writeEditCount /\ d.currentTurn = c.currentTurn
      BY <2>2 DEF HandleTurnEnd, CountersType
    <2> QED
      BY <1>0, <1>3, <2>1, <2>3, <2>4 DEF Counted
  <1>4. CASE ~Calling(line) /\ line.type \notin {"turn_start", "turn_end"}
    <2>1. d = c /\ ~Billed(line)
      BY <1>4 DEF Count, Calling, HandleToolStart, Billed
    <2> QED
      BY <1>0, <1>4, <2>1 DEF Counted
  <1> QED
    BY <1>1, <1>2, <1>3, <1>4

\* Calls, by tool.
CallsTold(c, t, n) ==
    /\ c.toolCallsTotal = Cardinality(Calls(t, n))
    /\ \A tool \in Tools : c.toolCallsPerType[tool] = Cardinality(CallsOf(t, n, tool))
    /\ c.bashCommands = Cardinality(CallsOf(t, n, "bash"))

\* Turns and files up to the first edit.
FirstEditTold(c, t, n) ==
    /\ c.currentTurn = Cardinality(OfType(t, n, "turn_start"))
    /\ c.firstWriteSeen <=> EditLines(t, n) # {}
    /\ c.turnsToFirstEdit =
           IF EditLines(t, n) = {} THEN None
           ELSE Max({1, Cardinality(Early(t, n) \cap OfType(t, n, "turn_start"))})
    /\ c.filesReadUnique = {t[i].path : i \in EarlyReads(t, n)} \ {None}

Extra(c) == [p \in Paths |-> Max({c.writeEditCount[p], 1}) - 1]

\* Edits, by file.
RepeatsTold(c, t, n) ==
    /\ \A p \in Paths : c.writeEditCount[p] = Cardinality(EditsTo(t, n, p))
    /\ SumOver(Extra(c), Paths) = Cardinality(Repeats(t, n))

InputOf(t) == [i \in 1..Len(t) |-> IF t[i].input = None THEN 0 ELSE t[i].input]

\* Tokens; the mean of the turns is below any bound of theirs.
TokensTold(c, t, n) ==
    /\ c.tokensInTotal = SumOver(InputOf(t), Inputs(t, n))
    /\ c.tokensInUpfront = IF Inputs(t, n) = {} THEN None ELSE t[Min(Inputs(t, n))].input
    /\ \A m \in Nat : (\A k \in 1..Len(c.perTurnInput) : c.perTurnInput[k] <= m) =>
                          c.tokensInTotal <= Len(c.perTurnInput) * m

LEMMA CallsStillTold ==
    ASSUME NEW c \in CountersType, NEW t, NEW n \in Nat, t[n + 1] \in LineType,
           NEW d, Counted(c, t[n + 1], d), CallsTold(c, t, n)
    PROVE  CallsTold(d, t, n + 1)
  <1> DEFINE line == t[n + 1]
  <1>1. \A tool : /\ CallsOf(t, n, tool) \subseteq 1..n
                  /\ CallsOf(t, n + 1, tool) =
                         With(CallsOf(t, n, tool), n, Calling(line) /\ line.tool = tool)
    BY LinesGrow
  <1>2. \A tool : Cardinality(CallsOf(t, n + 1, tool)) =
                      IF Calling(line) /\ line.tool = tool THEN Cardinality(CallsOf(t, n, tool)) + 1
                      ELSE Cardinality(CallsOf(t, n, tool))
    <2> SUFFICES ASSUME NEW tool
                 PROVE  Cardinality(CallsOf(t, n + 1, tool)) =
                            IF Calling(line) /\ line.tool = tool
                            THEN Cardinality(CallsOf(t, n, tool)) + 1
                            ELSE Cardinality(CallsOf(t, n, tool))
      OBVIOUS
    <2> DEFINE belongs == Calling(line) /\ line.tool = tool
    <2>1. belongs \in BOOLEAN /\ CallsOf(t, n, tool) \in SUBSET (1..n)
      BY <1>1
    <2>2. CallsOf(t, n + 1, tool) = With(CallsOf(t, n, tool), n, belongs)
      BY <1>1
    <2> HIDE DEF belongs
    <2>3. Cardinality(CallsOf(t, n + 1, tool)) =
              IF belongs THEN Cardinality(CallsOf(t, n, tool)) + 1
              ELSE Cardinality(CallsOf(t, n, tool))
      BY <2>1, <2>2, CardinalityWith
    <2> QED
      BY <2>3 DEF belongs
  <1>3. Cardinality(Calls(t, n + 1)) =
            IF Calling(line) THEN Cardinality(Calls(t, n)) + 1 ELSE Cardinality(Calls(t, n))
    <2>1. Calls(t, n) \subseteq 1..n /\ Calls(t, n + 1) = With(Calls(t, n), n, Calling(line))
      BY LinesGrow
    <2> QED
      BY <2>1, CardinalityWith DEF Calling
  <1>4. c.toolCallsPerType \in [Tools -> Nat]
    BY DEF CountersType
  <1> HIDE DEF line
  <1>5. CASE Calling(line)
    <2>1. Called(c, line, d)
      BY <1>5 DEF Counted, line
    <2>2. /\ d.toolCallsTotal = c.toolCallsTotal + 1
          /\ d.toolCallsPerType = Bump(c.toolCallsPerType, line.tool)
          /\ d.bashCommands = IF line.tool = "bash" THEN c.bashCommands + 1 ELSE c.bashCommands
      BY <2>1 DEF Called
    <2>3. \A tool \in Tools : d.toolCallsPerType[tool] =
              IF line.tool = tool THEN c.toolCallsPerType[tool] + 1 ELSE c.toolCallsPerType[tool]
      BY <2>2, <1>4 DEF Bump
    <2> QED
      BY <1>2, <1>3, <1>5, <2>2, <2>3 DEF CallsTold
  <1>6. CASE ~Calling(line)
    <2>1. /\ d.toolCallsTotal = c.toolCallsTotal /\ d.toolCallsPerType = c.toolCallsPerType
          /\ d.bashCommands = c.bashCommands
      BY <1>6 DEF Counted, line
    <2> QED
      BY <1>2, <1>3, <1>6, <2>1 DEF CallsTold
  <1> QED
    BY <1>5, <1>6

LEMMA FirstEditStillTold ==
    ASSUME NEW c \in CountersType, NEW t, NEW n \in Nat, t[n + 1] \in LineType,
           NEW d, Counted(c, t[n + 1], d), FirstEditTold(c, t, n)
    PROVE  FirstEditTold(d, t, n + 1)
  <1> DEFINE line == t[n + 1]
             E == EditLines(t, n)
             F == EditLines(t, n + 1)
             turns == OfType(t, n, "turn_start")
             turnsNext == OfType(t, n + 1, "turn_start")
             reads == EarlyReads(t, n)
             readsNext == EarlyReads(t, n + 1)
  <1>1. /\ turns \subseteq 1..n /\ turnsNext = With(turns, n, line.type = "turn_start")
        /\ E \subseteq 1..n /\ F = With(E, n, Calling(line) /\ Edits(line))
        /\ Calls(t, n) \subseteq 1..n /\ Calls(t, n + 1) = With(Calls(t, n), n, Calling(line))
    BY LinesGrow
  <1>2. /\ Early(t, n) \subseteq 1..n /\ (E = {} => Early(t, n) = 1..n)
        /\ Early(t, n + 1) = With(Early(t, n), n, F = {})
    BY EarlyGrows
  <1>3. readsNext = With(reads, n, Calling(line) /\ line.tool = "read" /\ F = {})
    <2>1. /\ reads = {i \in Calls(t, n) \cap Early(t, n) : t[i].tool = "read"}
          /\ readsNext = {i \in Calls(t, n + 1) \cap Early(t, n + 1) : t[i].tool = "read"}
      BY DEF EarlyReads
    <2> HIDE DEF F, reads, readsNext
    <2>2. n + 1 \notin 1..n
      OBVIOUS
    <2> QED
      BY <1>1, <1>2, <2>1, <2>2 DEF With
  <1>4. Early(t, n + 1) \cap turnsNext =
            With(Early(t, n) \cap turns, n, F = {} /\ line.type = "turn_start")
    <2> HIDE DEF F, turns, turnsNext
    <2>1. n + 1 \notin 1..n
      OBVIOUS
    <2> QED
      BY <1>1, <1>2, <2>1 DEF With
  <1>5. Cardinality(turnsNext) =
            IF line.type = "turn_start" THEN Cardinality(turns) + 1 ELSE Cardinality(turns)
    BY <1>1, CardinalityWith
  <1>6. /\ c.currentTurn = Cardinality(turns)
        /\ c.firstWriteSeen <=> E # {}
        /\ c.turnsToFirstEdit =
               IF E = {} THEN None ELSE Max({1, Cardinality(Early(t, n) \cap turns)})
        /\ c.filesReadUnique = {t[i].path : i \in reads} \ {None}
    BY DEF FirstEditTold
  <1>7. /\ d.currentTurn = IF line.type = "turn_start" THEN c.currentTurn + 1 ELSE c.currentTurn
        /\ Calling(line) => Called(c, line, d)
        /\ ~Calling(line) => /\ d.firstWriteSeen = c.firstWriteSeen
                             /\ d.turnsToFirstEdit = c.turnsToFirstEdit
                             /\ d.filesReadUnique = c.filesReadUnique
    BY DEF Counted
  <1>8. Calling(line) =>
            /\ d.filesReadUnique = IF Explores(c, line) THEN c.filesReadUnique \cup {line.path}
                                   ELSE c.filesReadUnique
            /\ d.firstWriteSeen <=> c.firstWriteSeen \/ Edits(line)
            /\ d.turnsToFirstEdit = IF Edits(line) /\ ~c.firstWriteSeen
                                    THEN Max({c.currentTurn, 1}) ELSE c.turnsToFirstEdit
    BY <1>7 DEF Called
  <1>9. c.firstWriteSeen \in BOOLEAN /\ d.firstWriteSeen \in BOOLEAN
    BY DEF CountersType, Counted
  <1>10. d.currentTurn = Cardinality(turnsNext)
    BY <1>5, <1>6, <1>7
  <1>11. d.firstWriteSeen <=> F # {}
    BY <1>1, <1>6, <1>7, <1>8, <1>9 DEF With
  <1>12. d.turnsToFirstEdit =
            IF F = {} THEN None ELSE Max({1, Cardinality(Early(t, n + 1) \cap turnsNext)})
    <2> HIDE DEF line, E, F, turns, turnsNext
    <2>1. F # {} => Early(t, n + 1) \cap turnsNext = Early(t, n) \cap turns
      BY <1>4 DEF With
    <2>2. CASE Calling(line) /\ Edits(line)
      <3>1. F # {}
        BY <1>1, <2>2 DEF With
      <3>2. CASE E = {}
        <4>1. Early(t, n) \cap turns = turns
          BY <1>1, <1>2, <3>2
        <4>2. {c.currentTurn, 1} = {1, Cardinality(turns)}
          BY <1>6
        <4> QED
          BY <1>6, <1>8, <2>1, <2>2, <3>1, <3>2, <4>1, <4>2
      <3>3. CASE E # {}
        BY <1>6, <1>8, <2>1, <2>2, <3>1, <3>3
      <3> QED
        BY <3>2, <3>3
    <2>3. CASE ~(Calling(line) /\ Edits(line))
      <3>1. F = E
        BY <1>1, <2>3 DEF With
      <3>2. d.turnsToFirstEdit = c.turnsToFirstEdit
        BY <1>7, <1>8, <2>3
      <3> QED
        BY <1>6, <2>1, <3>1, <3>2
    <2> QED
      BY <2>2, <2>3
  <1>13. d.filesReadUnique = {t[i].path : i \in readsNext} \ {None}
    <2> HIDE DEF E, F, turns, turnsNext, reads, readsNext
    <2>1. CASE Calling(line) /\ line.tool = "read" /\ F = {}
      <3>1. E = {} /\ ~c.firstWriteSeen
        BY <1>1, <1>6, <2>1 DEF With
      <3>2. readsNext = reads \cup {n + 1}
        BY <1>3, <2>1 DEF With
      <3>3. {t[i].path : i \in readsNext} = {t[i].path : i \in reads} \cup {line.path}
        BY <3>2
      <3>4. Explores(c, line) <=> line.path # None
        BY <2>1, <3>1 DEF Explores
      <3> QED
        BY <1>6, <1>8, <2>1, <3>3, <3>4
    <2>2. CASE ~(Calling(line) /\ line.tool = "read" /\ F = {})
      <3>1. readsNext = reads
        BY <1>3, <2>2 DEF With
      <3>2. Calling(line) => ~Explores(c, line)
        <4>1. line.tool = "read" => ~Edits(line)
          BY DEF Edits
        <4> QED
          BY <1>1, <1>6, <2>2, <4>1 DEF Explores, With
      <3>3. d.filesReadUnique = c.filesReadUnique
        BY <1>7, <1>8, <3>2
      <3> QED
        BY <1>6, <3>1, <3>3
    <2> QED
      BY <2>1, <2>2
  <1> QED
    BY <1>10, <1>11, <1>12, <1>13 DEF FirstEditTold

LEMMA ExtraTyped ==
    ASSUME NEW c \in CountersType
    PROVE  /\ Extra(c) \in [Paths -> Nat]
           /\ \A p \in Paths : Extra(c)[p] = IF c.writeEditCount[p] = 0 THEN 0
                                             ELSE c.writeEditCount[p] - 1
  <1>1. \A p \in Paths : c.writeEditCount[p] \in Nat
    BY DEF CountersType
  <1>2. \A p \in Paths : Max({c.writeEditCount[p], 1}) - 1 \in Nat /\
            Max({c.writeEditCount[p], 1}) - 1 = IF c.writeEditCount[p] = 0 THEN 0
                                                ELSE c.writeEditCount[p] - 1
    BY <1>1, MaxOfTwo
  <1> QED
    BY <1>2 DEF Extra

LEMMA RepeatsStillTold ==
    ASSUME NEW c \in CountersType, NEW t, NEW n \in Nat, t[n + 1] \in LineType,
           NEW d, Counted(c, t[n + 1], d), RepeatsTold(c, t, n)
    PROVE  RepeatsTold(d, t, n + 1)
  <1> DEFINE line == t[n + 1]
             editing == Calling(line) /\ Edits(line) /\ line.path # None
             again == editing /\ EditsTo(t, n, line.path) # {}
  <1>0. d \in CountersType /\ editing \in BOOLEAN /\ again \in BOOLEAN
    BY DEF Counted
  <1>1. Repeats(t, n) \subseteq 1..n /\ Repeats(t, n + 1) = With(Repeats(t, n), n, again)
    BY EarlyGrows
  <1>2. Cardinality(Repeats(t, n + 1)) =
            IF again THEN Cardinality(Repeats(t, n)) + 1 ELSE Cardinality(Repeats(t, n))
    <2> HIDE DEF again
    <2> QED
      BY <1>0, <1>1, CardinalityWith
  <1>3. ASSUME NEW p \in Paths
        PROVE  /\ EditsTo(t, n, p) \subseteq 1..n
               /\ Cardinality(EditsTo(t, n + 1, p)) =
                      IF editing /\ line.path = p THEN Cardinality(EditsTo(t, n, p)) + 1
                      ELSE Cardinality(EditsTo(t, n, p))
    <2> DEFINE belongs == Calling(line) /\ Edits(line) /\ line.path = p
    <2>0. \A path : /\ EditsTo(t, n, path) \subseteq 1..n
                    /\ EditsTo(t, n + 1, path) =
                           With(EditsTo(t, n, path), n,
                                Calling(line) /\ Edits(line) /\ line.path = path)
      BY LinesGrow
    <2>1. belongs \in BOOLEAN /\ EditsTo(t, n, p) \in SUBSET (1..n)
      BY <2>0
    <2>2. EditsTo(t, n + 1, p) = With(EditsTo(t, n, p), n, belongs)
      BY <2>0
    <2>3. belongs <=> editing /\ line.path = p
      BY NoneIsNoValue
    <2> HIDE DEF belongs, editing
    <2>4. Cardinality(EditsTo(t, n + 1, p)) =
              IF belongs THEN Cardinality(EditsTo(t, n, p)) + 1
              ELSE Cardinality(EditsTo(t, n, p))
      BY <2>1, <2>2, CardinalityWith
    <2> QED
      BY <2>1, <2>3, <2>4
  <1>4. /\ \A p \in Paths : c.writeEditCount[p] = Cardinality(EditsTo(t, n, p))
        /\ SumOver(Extra(c), Paths) = Cardinality(Repeats(t, n))
    BY DEF RepeatsTold
  <1>5. c.writeEditCount \in [Paths -> Nat]
    BY DEF CountersType
  <1>6. IsFiniteSet(Paths)
    BY MetricsAssumption
  <1>7. Extra(c) \in [Paths -> Nat] /\ Extra(d) \in [Paths -> Nat]
    BY <1>0, ExtraTyped
  <1>8. CASE editing
    <2>1. Called(c, line, d) /\ Edits(line) /\ line.path # None
      BY <1>8 DEF Counted
    <2>2. d.writeEditCount = Bump(c.writeEditCount, line.path)
      BY <2>1 DEF Called
    <2>3. line.path \in Paths
      BY <2>1 DEF LineType
    <2> DEFINE a == line.path
    <2> HIDE DEF line, editing, again
    <2>4. \A p \in Paths : d.writeEditCount[p] =
              IF a = p THEN c.writeEditCount[p] + 1 ELSE c.writeEditCount[p]
      BY <1>5, <2>2, <2>3 DEF Bump
    <2>5. \A p \in Paths : d.writeEditCount[p] = Cardinality(EditsTo(t, n + 1, p))
      BY <1>3, <1>4, <1>8, <2>4
    <2>6. again <=> c.writeEditCount[a] # 0
      <3>1. IsFiniteSet(EditsTo(t, n, a))
        BY <1>3, <2>3, CardinalityWith
      <3>2. EditsTo(t, n, a) = {} <=> Cardinality(EditsTo(t, n, a)) = 0
        BY <3>1, FS_EmptySet
      <3> QED
        BY <1>4, <1>8, <2>3, <3>2 DEF again
    <2>7. Extra(d)[a] = IF again THEN Extra(c)[a] + 1 ELSE Extra(c)[a]
      BY <1>0, <1>5, <2>3, <2>4, <2>6, ExtraTyped
    <2> DEFINE rest == Paths \ {a}
    <2>8. \A p \in rest : Extra(c)[p] = Extra(d)[p]
      BY <1>0, <2>4, ExtraTyped
    <2>9. SumOver(Extra(c), rest) = SumOver(Extra(d), rest) /\ SumOver(Extra(c), rest) \in Nat
      <3>1. rest \in SUBSET (Paths \cap Paths) /\ rest \in SUBSET Paths /\ IsFiniteSet(rest)
        BY <1>6, FS_Subset
      <3> QED
        BY <1>7, <2>8, <3>1, SumSame, SumIsNat
    <2>10. /\ SumOver(Extra(c), Paths) = Extra(c)[a] + SumOver(Extra(c), rest)
           /\ SumOver(Extra(d), Paths) = Extra(d)[a] + SumOver(Extra(d), rest)
      BY <1>6, <1>7, <2>3, SumSplit
    <2>11. Extra(c)[a] \in Nat
      BY <1>7, <2>3
    <2>12. SumOver(Extra(d), Paths) = Cardinality(Repeats(t, n + 1))
      BY <1>2, <1>4, <2>7, <2>9, <2>10, <2>11
    <2> QED
      BY <2>5, <2>12 DEF RepeatsTold
  <1>9. CASE ~editing
    <2>1. d.writeEditCount = c.writeEditCount
      <3>1. CASE Calling(line)
        <4>1. Called(c, line, d)
          BY <3>1 DEF Counted
        <4> QED
          BY <1>9, <3>1, <4>1 DEF Called
      <3>2. CASE ~Calling(line)
        BY <3>2 DEF Counted
      <3> QED
        BY <3>1, <3>2
    <2>2. Extra(d) = Extra(c)
      BY <2>1 DEF Extra
    <2> HIDE DEF line, editing
    <2>3. ~again
      BY <1>9
    <2> HIDE DEF again
    <2> QED
      BY <1>2, <1>3, <1>4, <1>9, <2>1, <2>2, <2>3 DEF RepeatsTold
  <1> QED
    BY <1>8, <1>9

\* A line more, at the end, is not the least of those that count.
LEMMA LeastWith ==
    ASSUME NEW n \in Nat, NEW S \in SUBSET (1..n)
    PROVE  /\ S # {} => Min(S) \in S /\ Min(S \cup {n + 1}) = Min(S)
           /\ Min({n + 1}) = n + 1
  <1>1. ASSUME S # {} PROVE Min(S) \in S /\ Min(S \cup {n + 1}) = Min(S)
    <2>1. PICK x \in S : \A y \in S : x <= y
      BY <1>1, Least
    <2>2. \A z \in S : (\A y \in S : z <= y) => z = x
      BY <2>1
    <2>3. Min(S) = x
      BY <2>1, <2>2 DEF Min
    <2>4. \A y \in S \cup {n + 1} : x <= y
      BY <2>1
    <2>5. \A z \in S \cup {n + 1} : (\A y \in S \cup {n + 1} : z <= y) => z = x
      BY <2>1
    <2>6. Min(S \cup {n + 1}) = x
      BY <2>1, <2>4, <2>5 DEF Min
    <2> QED
      BY <2>1, <2>3, <2>6
  <1>2. Min({n + 1}) = n + 1
    BY DEF Min
  <1> QED
    BY <1>1, <1>2

LEMMA MoreTurns ==
    ASSUME NEW total \in Nat, NEW turns \in Nat, NEW m \in Nat, NEW x \in Nat,
           total <= turns * m, x <= m
    PROVE  total + x <= (turns + 1) * m
  <1>1. (turns + 1) * m = turns * m + m /\ turns * m \in Nat
    OBVIOUS
  <1> QED
    BY <1>1

LEMMA TokensStillTold ==
    ASSUME NEW c \in CountersType, NEW t \in Seq(LineType), NEW n \in Nat, n < Len(t),
           NEW d, Counted(c, t[n + 1], d), TokensTold(c, t, n)
    PROVE  TokensTold(d, t, n + 1)
  <1> DEFINE line == t[n + 1]
             billed == Inputs(t, n)
             billedNext == Inputs(t, n + 1)
  <1>0. line \in LineType
    OBVIOUS
  <1>1. billed \subseteq 1..n /\ billedNext = With(billed, n, Billed(line))
    BY LinesGrow DEF Billed
  <1>2. /\ c.tokensInTotal = SumOver(InputOf(t), billed)
        /\ c.tokensInUpfront = IF billed = {} THEN None ELSE t[Min(billed)].input
    BY DEF TokensTold
  <1>3. c.tokensInTotal \in Nat /\ c.perTurnInput \in Seq(Nat)
    BY DEF CountersType
  <1>4. InputOf(t) \in [1..Len(t) -> Nat]
    <2>1. \A i \in 1..Len(t) : t[i] \in LineType
      OBVIOUS
    <2>2. \A i \in 1..Len(t) : t[i].input \in Nat \cup {None}
      BY <2>1 DEF LineType
    <2> QED
      BY <2>2 DEF InputOf
  <1>5. CASE Billed(line)
    <2>1. /\ d.perTurnInput = Append(c.perTurnInput, line.input)
          /\ d.tokensInTotal = c.tokensInTotal + line.input
          /\ d.tokensInUpfront = IF c.tokensInUpfront = None THEN line.input ELSE c.tokensInUpfront
      BY <1>5 DEF Counted
    <2>2. line.input \in Nat /\ InputOf(t)[n + 1] = line.input
      <3>1. line.input \in Nat /\ line.input # None
        BY <1>0, <1>5 DEF LineType, Billed
      <3> QED
        BY <3>1 DEF InputOf
    <2>3. \A i \in billed : t[i].input \in Nat
      <3>1. \A i \in billed : i \in 1..Len(t) /\ t[i].input # None
        BY <1>1 DEF Inputs
      <3>2. \A l \in LineType : l.input \in Nat \cup {None}
        BY DEF LineType
      <3> QED
        BY <3>1, <3>2
    <2> HIDE DEF line, billed, billedNext
    <2>4. billedNext = billed \cup {n + 1} /\ n + 1 \notin billed
      BY <1>1, <1>5 DEF With
    <2>5. d.tokensInTotal = SumOver(InputOf(t), billedNext)
      <3>1. IsFiniteSet(billedNext) /\ billedNext \in SUBSET (1..Len(t))
        <4>1. Len(t) \in Nat /\ IsFiniteSet(1..Len(t))
          BY FS_Interval
        <4>2. 1..n \subseteq 1..Len(t) /\ n + 1 \in 1..Len(t)
          BY <4>1
        <4>3. billedNext \in SUBSET (1..Len(t))
          BY <1>1, <2>4, <4>2
        <4> QED
          BY <4>1, <4>3, FS_Subset
      <3>2. billedNext \ {n + 1} = billed
        BY <2>4
      <3>3. SumOver(InputOf(t), billedNext) = InputOf(t)[n + 1] + SumOver(InputOf(t), billed)
        <4>1. \A a \in billedNext :
                  SumOver(InputOf(t), billedNext) =
                      InputOf(t)[a] + SumOver(InputOf(t), billedNext \ {a})
          <5> DEFINE D == 1..Len(t)
                     f == InputOf(t)
          <5>1. f \in [D -> Nat] /\ billedNext \in SUBSET D /\ IsFiniteSet(billedNext)
            BY <1>4, <3>1
          <5> HIDE DEF D, f
          <5>2. \A a \in billedNext : SumOver(f, billedNext) = f[a] + SumOver(f, billedNext \ {a})
            BY <5>1, SumSplit
          <5> QED
            BY <5>2 DEF f
        <4> QED
          BY <2>4, <3>2, <4>1
      <3> QED
        BY <1>2, <1>3, <2>1, <2>2, <3>3
    <2>6. d.tokensInUpfront = IF billedNext = {} THEN None ELSE t[Min(billedNext)].input
      <3>1. CASE billed = {}
        <4>1. billedNext = {n + 1} /\ Min(billedNext) = n + 1
          BY <2>4, <3>1, LeastWith
        <4> QED
          BY <1>2, <2>1, <3>1, <4>1 DEF line
      <3>2. CASE billed # {}
        <4>1. Min(billed) \in billed /\ Min(billedNext) = Min(billed)
          BY <1>1, <2>4, <3>2, LeastWith
        <4>2. c.tokensInUpfront = t[Min(billed)].input /\ c.tokensInUpfront # None
          BY <1>2, <2>3, <3>2, <4>1, NoneIsNoValue
        <4> QED
          BY <2>1, <2>4, <4>1, <4>2
      <3> QED
        BY <3>1, <3>2
    <2>7. ASSUME NEW m \in Nat, \A k \in 1..Len(d.perTurnInput) : d.perTurnInput[k] <= m
          PROVE  d.tokensInTotal <= Len(d.perTurnInput) * m
      <3>1. /\ Len(d.perTurnInput) = Len(c.perTurnInput) + 1
            /\ d.perTurnInput[Len(c.perTurnInput) + 1] = line.input
            /\ \A k \in 1..Len(c.perTurnInput) : d.perTurnInput[k] = c.perTurnInput[k]
        BY <1>3, <2>1, <2>2
      <3>2. Len(c.perTurnInput) \in Nat
        BY <1>3
      <3>3. line.input <= m /\ \A k \in 1..Len(c.perTurnInput) : c.perTurnInput[k] <= m
        BY <2>7, <3>1, <3>2
      <3>4. c.tokensInTotal <= Len(c.perTurnInput) * m
        BY <3>3 DEF TokensTold
      <3> QED
        BY <1>3, <2>1, <2>2, <3>1, <3>2, <3>3, <3>4, MoreTurns
    <2> QED
      BY <2>5, <2>6, <2>7 DEF TokensTold, billedNext
  <1>6. CASE ~Billed(line)
    <2>1. billedNext = billed
      BY <1>1, <1>6 DEF With
    <2>2. /\ d.perTurnInput = c.perTurnInput /\ d.tokensInTotal = c.tokensInTotal
          /\ d.tokensInUpfront = c.tokensInUpfront
      BY <1>6 DEF Counted
    <2> QED
      BY <2>1, <2>2 DEF TokensTold
  <1> QED
    BY <1>5, <1>6

Told(c, t, n) ==
    CallsTold(c, t, n) /\ FirstEditTold(c, t, n) /\ RepeatsTold(c, t, n) /\ TokensTold(c, t, n)

LEMMA SumOfZeros ==
    ASSUME NEW D, NEW f \in [D -> Nat]
    PROVE  \A S \in SUBSET D :
               IsFiniteSet(S) /\ (\A x \in S : f[x] = 0) => SumOver(f, S) = 0
  <1> DEFINE zeros == [x \in D |-> 0]
             P(n) == \A S \in SUBSET D : IsFiniteSet(S) /\ Cardinality(S) = n => SumOver(zeros, S) = 0
             T == {n \in Nat : P(n)}
  <1>1. P(0)
    <2>1. \A S \in SUBSET D : IsFiniteSet(S) /\ Cardinality(S) = 0 => S = {}
      BY FS_EmptySet
    <2>2. SumOver(zeros, {}) = 0
      BY SumStep, FS_EmptySet
    <2> QED
      BY <2>1, <2>2
  <1>2. ASSUME NEW n \in Nat, P(n) PROVE P(n + 1)
    <2>1. ASSUME NEW S \in SUBSET D, IsFiniteSet(S), Cardinality(S) = n + 1
          PROVE  SumOver(zeros, S) = 0
      <3>1. S # {}
        BY <2>1, FS_EmptySet
      <3>2. /\ First(S) \in S /\ S \ {First(S)} \in SUBSET D /\ IsFiniteSet(S \ {First(S)})
            /\ Cardinality(S \ {First(S)}) = n
        BY <2>1, <3>1, OneLess
      <3>3. zeros[First(S)] = 0 /\ SumOver(zeros, S \ {First(S)}) = 0
        BY <1>2, <3>2
      <3> QED
        BY <2>1, <3>1, <3>3, SumStep
    <2> QED
      BY <2>1
  <1>3. zeros \in [D -> Nat] /\ \A x \in D : zeros[x] = 0
    OBVIOUS
  <1> HIDE DEF P, zeros
  <1>4. Nat \subseteq T
    <2>1. 0 \in T /\ \A n \in Nat : n \in T => n + 1 \in T
      BY <1>1, <1>2
    <2> HIDE DEF T
    <2> QED
      BY <2>1, Induct
  <1>5. \A n \in Nat : P(n)
    BY <1>4
  <1>6. ASSUME NEW S \in SUBSET D, IsFiniteSet(S), \A x \in S : f[x] = 0 PROVE SumOver(f, S) = 0
    <2>1. SumOver(zeros, S) = 0
      BY <1>5, <1>6, FS_CardinalityType DEF P
    <2>2. S \in SUBSET (D \cap D) /\ \A x \in S : f[x] = zeros[x]
      BY <1>3, <1>6
    <2> QED
      BY <1>3, <1>6, <2>1, <2>2, SumSame
  <1> QED
    BY <1>6

\* Before the first line all counts are zero.
LEMMA NothingTold == ASSUME NEW t PROVE Told(NewCounters, t, 0)
  <1> DEFINE c == NewCounters
  <1>0. 1..0 = {}
    OBVIOUS
  <1>1. /\ \A type : OfType(t, 0, type) = {}
        /\ Calls(t, 0) = {} /\ \A tool : CallsOf(t, 0, tool) = {}
        /\ EditLines(t, 0) = {} /\ \A path : EditsTo(t, 0, path) = {}
        /\ Early(t, 0) = {} /\ EarlyReads(t, 0) = {} /\ Inputs(t, 0) = {} /\ Repeats(t, 0) = {}
    BY <1>0 DEF OfType, Calls, CallsOf, EditLines, EditsTo, Early, EarlyReads, Inputs, Repeats
  <1>2. Cardinality({}) = 0 /\ IsFiniteSet({})
    BY FS_EmptySet
  <1>3. CallsTold(c, t, 0)
    BY <1>1, <1>2 DEF CallsTold, NewCounters
  <1>4. FirstEditTold(c, t, 0)
    BY <1>1, <1>2 DEF FirstEditTold, NewCounters
  <1>5. RepeatsTold(c, t, 0)
    <2>1. c \in CountersType
      BY DEF NewCounters, CountersType
    <2>2. \A p \in Paths : c.writeEditCount[p] = 0
      BY DEF NewCounters
    <2>3. Extra(c) \in [Paths -> Nat] /\ \A p \in Paths : Extra(c)[p] = 0
      BY <2>1, <2>2, ExtraTyped
    <2>4. SumOver(Extra(c), Paths) = 0
      BY <2>3, SumOfZeros, MetricsAssumption
    <2> QED
      BY <1>1, <1>2, <2>2, <2>4 DEF RepeatsTold
  <1>6. TokensTold(c, t, 0)
    <2>1. SumOver(InputOf(t), {}) = 0
      BY <1>2, SumStep
    <2>2. c.tokensInTotal = 0 /\ c.tokensInUpfront = None /\ Len(c.perTurnInput) = 0
      BY DEF NewCounters
    <2>3. \A m \in Nat : c.tokensInTotal <= Len(c.perTurnInput) * m
      BY <2>2
    <2> HIDE DEF c
    <2> QED
      BY <1>1, <2>1, <2>2, <2>3 DEF TokensTold
  <1> QED
    BY <1>3, <1>4, <1>5, <1>6 DEF Told

\* Lines that have not been read do not matter.
LEMMA UnreadLines ==
    ASSUME NEW t \in Seq(LineType), NEW line \in LineType, NEW n \in 0..Len(t), NEW c, Told(c, t, n)
    PROVE  Told(c, Append(t, line), n)
  <1> DEFINE u == Append(t, line)
  <1>0. u \in Seq(LineType) /\ \A i \in 1..n : u[i] = t[i]
    OBVIOUS
  <1> HIDE DEF u
  <1>1. \A type : OfType(u, n, type) = OfType(t, n, type)
    BY <1>0 DEF OfType
  <1>2. Calls(u, n) = Calls(t, n) /\ Calls(t, n) \subseteq 1..n
    BY <1>0, <1>1 DEF Calls, OfType
  <1>3. \A tool : CallsOf(u, n, tool) = CallsOf(t, n, tool)
    BY <1>0, <1>2 DEF CallsOf
  <1>4. EditLines(u, n) = EditLines(t, n) /\ EditLines(t, n) \subseteq 1..n
    BY <1>0, <1>2 DEF EditLines
  <1>5. \A path : EditsTo(u, n, path) = EditsTo(t, n, path)
    BY <1>0, <1>4 DEF EditsTo
  <1>6. Early(u, n) = Early(t, n)
    BY <1>4 DEF Early
  <1>7. /\ EarlyReads(u, n) = EarlyReads(t, n)
        /\ {u[i].path : i \in EarlyReads(t, n)} = {t[i].path : i \in EarlyReads(t, n)}
    BY <1>0, <1>2, <1>6 DEF EarlyReads
  <1>8. Inputs(u, n) = Inputs(t, n) /\ Inputs(t, n) \subseteq 1..n
    BY <1>0, <1>1 DEF Inputs, OfType
  <1>9. Repeats(u, n) = Repeats(t, n)
    BY <1>0, <1>4 DEF Repeats
  <1>10. SumOver(InputOf(u), Inputs(t, n)) = SumOver(InputOf(t), Inputs(t, n))
    <2>1. \A l \in LineType : l.input \in Nat \cup {None}
      BY DEF LineType
    <2>2. \A i \in 1..Len(t) : t[i].input \in Nat \cup {None}
      BY <2>1
    <2>3. \A i \in 1..Len(u) : u[i].input \in Nat \cup {None}
      BY <1>0, <2>1
    <2>4. InputOf(t) \in [1..Len(t) -> Nat] /\ InputOf(u) \in [1..Len(u) -> Nat]
      BY <2>2, <2>3 DEF InputOf
    <2>5. n \in Nat /\ n <= Len(t) /\ Len(u) = Len(t) + 1 /\ Len(t) \in Nat
      BY DEF u
    <2>6. \A i \in Inputs(t, n) : i \in 1..Len(t) /\ i \in 1..Len(u) /\ u[i] = t[i]
      BY <1>0, <1>8, <2>5
    <2>7. \A i \in Inputs(t, n) : InputOf(u)[i] = InputOf(t)[i]
      BY <2>6 DEF InputOf
    <2>8. IsFiniteSet(Inputs(t, n))
      BY <1>8, <2>5, CardinalityWith
    <2>9. Inputs(t, n) \in SUBSET ((1..Len(u)) \cap (1..Len(t)))
      BY <2>6
    <2> DEFINE D == 1..Len(u)
               E == 1..Len(t)
               f == InputOf(u)
               g == InputOf(t)
               S == Inputs(t, n)
    <2>10. f \in [D -> Nat] /\ g \in [E -> Nat] /\ S \in SUBSET (D \cap E)
      BY <2>4, <2>9
    <2> HIDE DEF D, E, f, g
    <2>11. SumOver(f, S) = SumOver(g, S)
      BY <2>7, <2>8, <2>10, SumSame DEF f, g
    <2> QED
      BY <2>11 DEF f, g
  <1>11. Inputs(t, n) # {} => u[Min(Inputs(t, n))] = t[Min(Inputs(t, n))]
    <2>1. n \in Nat
      OBVIOUS
    <2> QED
      BY <1>0, <1>8, <2>1, LeastWith
  <1>12. CallsTold(c, u, n)
    BY <1>2, <1>3 DEF Told, CallsTold
  <1>13. FirstEditTold(c, u, n)
    BY <1>1, <1>4, <1>6, <1>7 DEF Told, FirstEditTold
  <1>14. RepeatsTold(c, u, n)
    BY <1>5, <1>9 DEF Told, RepeatsTold
  <1>15. TokensTold(c, u, n)
    BY <1>8, <1>10, <1>11 DEF Told, TokensTold
  <1> QED
    BY <1>12, <1>13, <1>14, <1>15 DEF Told, u

CountersTold == Told(counters, trace, read)

LEMMA NextKeepsTold == MInv /\ CountersTold /\ [Next]_vars => CountersTold'
  <1> SUFFICES ASSUME MInv, CountersTold, [Next]_vars PROVE CountersTold'
    OBVIOUS
  <1>1. /\ counters \in CountersType /\ trace \in Seq(LineType) /\ read \in 0..Len(trace)
        /\ read \in Nat
    BY DEF MInv, TraceKept, MeasuresTyped
  <1>2. CASE ReadLine
    <2>1. /\ read' = read + 1 /\ read < Len(trace) /\ counters' = Count(counters, trace[read + 1])
          /\ trace' = trace
      BY <1>2 DEF ReadLine
    <2>2. trace[read + 1] \in LineType
      BY <1>1, <2>1
    <2>3. Counted(counters, trace[read + 1], counters')
      BY <1>1, <2>1, <2>2, CountIsCounted
    <2>4. Told(counters', trace, read + 1)
      BY <1>1, <2>1, <2>2, <2>3, CallsStillTold, FirstEditStillTold, RepeatsStillTold, TokensStillTold
         DEF CountersTold, Told
    <2> QED
      BY <2>1, <2>4 DEF CountersTold
  <1>3. CASE \E event \in PiEvents : Emit(event)
    <2>1. PICK event \in PiEvents : Emit(event)
      BY <1>3
    <2>2. /\ read' = read /\ counters' = counters
          /\ trace' = IF Translate(event) = None THEN trace ELSE Append(trace, Line(Translate(event)))
      BY <2>1 DEF Emit
    <2>3. Translate(event) # None => Line(Translate(event)) \in LineType
      BY LinesTyped
    <2> QED
      BY <1>1, <2>2, <2>3, UnreadLines DEF CountersTold
  <1>4. CASE UNCHANGED <<counters, trace, read>>
    BY <1>4 DEF CountersTold
  <1>5. CASE Derive
    BY <1>4, <1>5 DEF Derive
  <1>6. CASE SessionStep /\ UNCHANGED measures
    BY <1>4, <1>6 DEF measures
  <1>7. CASE UNCHANGED vars
    BY <1>4, <1>7 DEF vars, measures
  <1> QED
    BY <1>2, <1>3, <1>5, <1>6, <1>7 DEF Next

LEMMA ToldInvariant == Spec => [](MInv /\ CountersTold)
  <1>1. Init => MInv /\ CountersTold
    <2>1. Init => CountersTold
      BY NothingTold DEF Init, CountersTold
    <2> QED
      BY <2>1, InitMInv
  <1>2. (MInv /\ CountersTold) /\ [Next]_vars => (MInv /\ CountersTold)'
    BY NextKeepsMInv, NextKeepsTold
  <1> QED
    BY <1>1, <1>2, PTL DEF Spec

LEMMA SumOfInputs ==
    ASSUME NEW t, NEW S, \A i \in S : t[i].input # None /\ i \in 1..Len(t)
    PROVE  MapThenSumSet(LAMBDA i : t[i].input, S) = SumOver(InputOf(t), S)
  <1> DEFINE f == InputOf(t)
             Same(it) == it = [s \in SUBSET S |-> IF s = {} THEN 0
                                                  ELSE t[First(s)].input + it[s \ {First(s)}]]
  <1>1. \A s \in SUBSET S : s # {} => f[First(s)] = t[First(s)].input
    <2>1. \A s \in SUBSET S : s # {} => First(s) \in S
      BY DEF First
    <2> QED
      BY <2>1 DEF InputOf
  <1>2. \A it : IsSum(f, S, it) <=> Same(it)
    BY <1>1 DEF IsSum, Summed
  <1>3. MapThenSumSet(LAMBDA i : t[i].input, S) = (CHOOSE it : Same(it))[S]
    BY DEF MapThenSumSet, MapThenFoldSet, First
  <1> HIDE DEF Same
  <1> QED
    BY <1>2, <1>3, SumIs

LEMMA SumOfExtra ==
    ASSUME NEW c
    PROVE  MapThenSumSet(LAMBDA p : Max({c.writeEditCount[p], 1}) - 1, Paths) = SumOver(Extra(c), Paths)
  <1> DEFINE Same(it) == it = [s \in SUBSET Paths |->
                                  IF s = {} THEN 0
                                  ELSE (Max({c.writeEditCount[First(s)], 1}) - 1) +
                                       it[s \ {First(s)}]]
  <1>1. \A s \in SUBSET Paths :
            s # {} => Extra(c)[First(s)] = Max({c.writeEditCount[First(s)], 1}) - 1
    <2>1. \A s \in SUBSET Paths : s # {} => First(s) \in Paths
      BY DEF First
    <2> QED
      BY <2>1 DEF Extra
  <1>2. \A it : IsSum(Extra(c), Paths, it) <=> Same(it)
    BY <1>1 DEF IsSum, Summed
  <1>3. MapThenSumSet(LAMBDA p : Max({c.writeEditCount[p], 1}) - 1, Paths) =
            (CHOOSE it : Same(it))[Paths]
    BY DEF MapThenSumSet, MapThenFoldSet, First
  <1> HIDE DEF Same
  <1> QED
    BY <1>2, <1>3, SumIs

\* A sequence of numbers that is not empty has a largest one.
LEMMA Largest ==
    ASSUME NEW s \in Seq(Nat), s # <<>>
    PROVE  /\ Max(ToSet(s)) \in Nat
           /\ \A k \in 1..Len(s) : s[k] <= Max(ToSet(s))
  <1> DEFINE P(n) == \E x \in ToSet(s) : \A k \in 1..n : k <= Len(s) => s[k] <= x
             T == {n \in Nat : P(n)}
  <1>1. ToSet(s) = {s[k] : k \in 1..Len(s)} /\ Len(s) \in Nat /\ Len(s) > 0
    BY DEF ToSet
  <1>2. P(0)
    <2>1. s[1] \in ToSet(s)
      BY <1>1
    <2>2. 1..0 = {}
      OBVIOUS
    <2> QED
      BY <2>1, <2>2
  <1>3. ASSUME NEW n \in Nat, P(n) PROVE P(n + 1)
    <2>1. PICK x \in ToSet(s) : \A k \in 1..n : k <= Len(s) => s[k] <= x
      BY <1>3
    <2>2. \A k \in 1..Len(s) : s[k] \in ToSet(s) /\ s[k] \in Nat
      BY <1>1
    <2>3. x \in Nat
      BY <1>1
    <2>4. \A k \in 1..(n + 1) : k \in 1..n \/ k = n + 1
      OBVIOUS
    <2>5. CASE n + 1 > Len(s) \/ s[n + 1] <= x
      <3>1. \A k \in 1..(n + 1) : k <= Len(s) => s[k] <= x
        BY <1>1, <2>1, <2>4, <2>5
      <3> QED
        BY <3>1
    <2>6. CASE ~(n + 1 > Len(s) \/ s[n + 1] <= x)
      <3>1. n + 1 \in 1..Len(s) /\ x <= s[n + 1]
        BY <1>1, <2>2, <2>3, <2>6
      <3>2. \A k \in 1..n : k <= Len(s) => s[k] <= s[n + 1]
        <4>1. \A k \in 1..n : k <= Len(s) => k \in 1..Len(s)
          BY <1>1
        <4> QED
          BY <2>1, <2>2, <2>3, <3>1, <4>1
      <3> QED
        BY <2>2, <2>4, <3>1, <3>2
    <2> HIDE DEF P
    <2> QED
      BY <2>5, <2>6
  <1> HIDE DEF P
  <1>4. Nat \subseteq T
    <2>1. 0 \in T /\ \A n \in Nat : n \in T => n + 1 \in T
      BY <1>2, <1>3
    <2> HIDE DEF T
    <2> QED
      BY <2>1, Induct
  <1>5. P(Len(s))
    BY <1>1, <1>4
  <1>6. PICK x \in ToSet(s) : \A k \in 1..Len(s) : s[k] <= x
    BY <1>1, <1>5 DEF P
  <1>7. x \in Nat /\ \A y \in ToSet(s) : y \in Nat /\ x >= y
    BY <1>1, <1>6
  <1>8. \A y \in ToSet(s) : (\A z \in ToSet(s) : y >= z) => y = x
    BY <1>7
  <1>9. Max(ToSet(s)) = x
    BY <1>7, <1>8 DEF Max
  <1> QED
    BY <1>6, <1>7, <1>9

LEMMA WholeTrace == ASSUME MInv, CountersTold PROVE CountersAgree
  <1> DEFINE m == BuildResult(counters, 1, 0)
             c == counters
             t == trace
             n == read
             largest == IF c.perTurnInput # <<>> THEN Max(ToSet(c.perTurnInput)) ELSE 0
             average == IF c.perTurnInput # <<>> THEN <<c.tokensInTotal, Len(c.perTurnInput)>>
                        ELSE <<0, 1>>
  <1>0. /\ c \in CountersType /\ t \in Seq(LineType) /\ n \in 0..Len(t) /\ n \in Nat
        /\ Len(t) \in Nat
    BY DEF MInv, TraceKept, MeasuresTyped
  <1>1. /\ m.tool_calls_total = c.toolCallsTotal
        /\ m.tool_calls_per_type =
               [x \in {y \in Tools : c.toolCallsPerType[y] > 0} |-> c.toolCallsPerType[x]]
        /\ m.bash_commands_count = c.bashCommands
        /\ m.files_read_unique = Cardinality(c.filesReadUnique)
    BY DEF BuildResult
  <1>3. /\ m.turns_to_first_edit = c.turnsToFirstEdit
        /\ m.tokens_in_total = c.tokensInTotal
        /\ m.tokens_in_upfront = IF c.tokensInUpfront = None THEN 0 ELSE c.tokensInUpfront
    BY DEF BuildResult
  <1>4. 1 > 0
    OBVIOUS
  <1>5. m.context_utilization_max_pct = largest /\ m.context_utilization_avg_pct = average
    BY <1>4 DEF BuildResult
  <1>2. m.repeated_file_edits = SumOver(Extra(c), Paths)
    BY SumOfExtra DEF BuildResult
  <1> HIDE DEF m
  <1>6. CallsTold(c, t, n) /\ FirstEditTold(c, t, n) /\ RepeatsTold(c, t, n) /\ TokensTold(c, t, n)
    BY DEF CountersTold, Told
  <1>7. \A i \in Calls(t, n) : i \in 1..Len(t) /\ t[i].tool \in Tools
    <2>1. \A i \in Calls(t, n) : i \in 1..Len(t) /\ t[i] \in LineType /\ t[i].tool # None
      BY <1>0 DEF Calls, OfType
    <2> QED
      BY <2>1 DEF LineType
  <1>8. m.tool_calls_per_type =
            [x \in {t[i].tool : i \in Calls(t, n)} |-> Cardinality(CallsOf(t, n, x))]
    <2>1. \A x \in Tools : c.toolCallsPerType[x] = Cardinality(CallsOf(t, n, x))
      BY <1>6 DEF CallsTold
    <2>2. ASSUME NEW x PROVE Cardinality(CallsOf(t, n, x)) > 0 <=> CallsOf(t, n, x) # {}
      <3>1. CallsOf(t, n, x) \in SUBSET (1..n)
        BY <1>0, LinesGrow
      <3>2. IsFiniteSet(CallsOf(t, n, x)) /\ Cardinality(CallsOf(t, n, x)) \in Nat
        BY <1>0, <3>1, CardinalityWith
      <3>3. Cardinality(CallsOf(t, n, x)) = 0 <=> CallsOf(t, n, x) = {}
        BY <3>2, FS_EmptySet
      <3> QED
        BY <3>2, <3>3
    <2>3. \A x : CallsOf(t, n, x) # {} <=> x \in {t[i].tool : i \in Calls(t, n)}
      BY DEF CallsOf
    <2>4. \A x \in Tools : c.toolCallsPerType[x] > 0 <=> x \in {t[i].tool : i \in Calls(t, n)}
      BY <2>1, <2>2, <2>3
    <2>5. {y \in Tools : c.toolCallsPerType[y] > 0} = {t[i].tool : i \in Calls(t, n)}
      BY <1>7, <2>4
    <2> QED
      BY <1>1, <1>7, <2>1, <2>5
  <1>9. m.tokens_in_total = MapThenSumSet(LAMBDA i : t[i].input, Inputs(t, n))
    <2>1. \A i \in Inputs(t, n) : t[i].input # None /\ i \in 1..Len(t)
      BY <1>0 DEF Inputs, OfType
    <2>2. MapThenSumSet(LAMBDA i : t[i].input, Inputs(t, n)) = SumOver(InputOf(t), Inputs(t, n))
      BY <2>1, SumOfInputs
    <2> QED
      BY <1>3, <1>6, <2>2 DEF TokensTold
  <1>10. m.tokens_in_upfront = IF Inputs(t, n) = {} THEN 0 ELSE t[Min(Inputs(t, n))].input
    <2>1. Inputs(t, n) # {} => t[Min(Inputs(t, n))].input # None
      <3>1. Inputs(t, n) # {} => Min(Inputs(t, n)) \in Inputs(t, n)
        <4>1. Inputs(t, n) \in SUBSET (1..n)
          BY <1>0, LinesGrow
        <4> QED
          BY <1>0, <4>1, LeastWith
      <3> QED
        BY <3>1 DEF Inputs
    <2> QED
      BY <1>3, <1>6, <2>1 DEF TokensTold
  <1>11. m.context_utilization_avg_pct[1] <=
             m.context_utilization_avg_pct[2] * m.context_utilization_max_pct
    <2>1. CASE c.perTurnInput = <<>>
      BY <1>5, <2>1
    <2>2. CASE c.perTurnInput # <<>>
      <3>1. c.perTurnInput \in Seq(Nat)
        BY <1>0 DEF CountersType
      <3>2. /\ Max(ToSet(c.perTurnInput)) \in Nat
            /\ \A k \in 1..Len(c.perTurnInput) : c.perTurnInput[k] <= Max(ToSet(c.perTurnInput))
        BY <2>2, <3>1, Largest
      <3>3. c.tokensInTotal <= Len(c.perTurnInput) * Max(ToSet(c.perTurnInput))
        BY <1>6, <3>2 DEF TokensTold
      <3> QED
        BY <1>5, <2>2, <3>3
    <2> QED
      BY <2>1, <2>2
  <1>12. m.turns_to_first_edit =
             IF EditLines(t, n) = {} THEN None
             ELSE Max({1, Cardinality(Early(t, n) \cap OfType(t, n, "turn_start"))})
    BY <1>3, <1>6 DEF FirstEditTold
  <1>13. m.files_read_unique = Cardinality({t[i].path : i \in EarlyReads(t, n)} \ {None})
    BY <1>1, <1>6 DEF FirstEditTold
  <1>14. /\ m.tool_calls_total = Cardinality(Calls(t, n))
         /\ m.bash_commands_count = Cardinality(CallsOf(t, n, "bash"))
         /\ m.repeated_file_edits = Cardinality(Repeats(t, n))
    BY <1>1, <1>2, <1>6 DEF CallsTold, RepeatsTold
  <1> QED
    BY <1>8, <1>9, <1>10, <1>11, <1>12, <1>13, <1>14
       DEF CountersAgree, m, Calls, CallsOf, EditLines, Early, EarlyReads, Inputs, Repeats, OfType

\* After every line of the trace, the counters of the single pass of
\* deriveLayer2Metrics (handleToolStart, handleTurnEnd, buildResult) are what the
\* lines read so far say when they are looked at as a whole.
THEOREM CountersTellTheTrace == Spec => []CountersAgree
  <1>1. MInv /\ CountersTold => CountersAgree
    BY WholeTrace
  <1> QED
    BY <1>1, ToldInvariant, PTL

-----------------------------------------------------------------------------
(* What the rules of a profile count (MetricEvaluator).                    *)

Ordered(rules) == Len(rules) \in Nat /\ DOMAIN rules = 1..Len(rules)

States(rules) == [RuleIds(rules) -> Nat]

Served(rule, event, s) == [s EXCEPT ![rule.id] = Evaluate(rule, event, s[rule.id])]

\* A rule touches the state of its id alone, and keeps the states a list of numbers.
ServesEach(rules, event) ==
    \A k \in 1..Len(rules), s \in States(rules) :
        /\ rules[k].id \in RuleIds(rules)
        /\ Served(rules[k], event, s) \in States(rules)
        /\ \A id \in RuleIds(rules) :
              Served(rules[k], event, s)[id] =
                  IF rules[k].id = id THEN Evaluate(rules[k], event, s[id]) ELSE s[id]

LEMMA ServedTyped ==
    ASSUME NEW rules, Ordered(rules), NEW event
    PROVE  ServesEach(rules, event)
  <1> SUFFICES ASSUME NEW k \in 1..Len(rules), NEW s \in States(rules)
               PROVE  /\ rules[k].id \in RuleIds(rules)
                      /\ Served(rules[k], event, s) \in States(rules)
                      /\ \A id \in RuleIds(rules) :
                            Served(rules[k], event, s)[id] =
                                IF rules[k].id = id THEN Evaluate(rules[k], event, s[id]) ELSE s[id]
    BY DEF ServesEach
  <1>1. rules[k].id \in RuleIds(rules)
    BY DEF Ordered, RuleIds
  <1>2. \A m \in Nat : Evaluate(rules[k], event, m) \in Nat
    BY MaxOfTwo DEF Evaluate
  <1>3. s[rules[k].id] \in Nat
    BY <1>1 DEF States
  <1>4. Evaluate(rules[k], event, s[rules[k].id]) \in Nat
    BY <1>2, <1>3
  <1> QED
    BY <1>1, <1>4 DEF Served, States

\* An event is served by one rule after the other.
LEMMA DispatchServes ==
    ASSUME NEW rules, Ordered(rules), NEW event, NEW states \in States(rules)
    PROVE  \E acc \in [0..Len(rules) -> States(rules)] :
              /\ acc[0] = states
              /\ \A k \in 0..(Len(rules) - 1) : acc[k + 1] = Served(rules[k + 1], event, acc[k])
              /\ Dispatch(rules, states, event) = acc[Len(rules)]
  <1> DEFINE n == Len(rules)
             S == States(rules)
             F == [i \in 1..n |-> [s \in S |-> Served(rules[i], event, s)]]
             Same(it) == it = [s \in SUBSET (1..n) |->
                                 IF s = {} THEN states
                                 ELSE Served(rules[Topmost(s)], event, it[s \ {Topmost(s)}])]
             it == CHOOSE g : Same(g)
             acc == [k \in 0..n |-> it[1..k]]
  <1>0. n \in Nat /\ DOMAIN rules = 1..n
    BY DEF Ordered
  <1>1. F \in [1..n -> [S -> S]]
    <2>1. ServesEach(rules, event)
      BY ServedTyped
    <2> QED
      BY <2>1 DEF ServesEach
  <1>2. PICK g : FoldsTo(g, n, S, states, F)
    <2>1. states \in S
      OBVIOUS
    <2> HIDE DEF F, S, n
    <2>2. n \in Nat
      BY <1>0
    <2> QED
      BY ONLY <1>1, <2>1, <2>2, FoldMade
  <1>3. Same(g)
    <2>1. ASSUME NEW s \in SUBSET (1..n), s # {}
          PROVE  g[s] = Served(rules[Topmost(s)], event, g[s \ {Topmost(s)}])
      <3>1. Topmost(s) \in 1..n /\ s \ {Topmost(s)} \in SUBSET (1..n)
        BY <1>0, <2>1, LastOfSome
      <3>2. g[s \ {Topmost(s)}] \in S
        BY <1>2, <3>1 DEF FoldsTo
      <3> QED
        BY <1>2, <2>1, <3>1, <3>2 DEF FoldsTo
    <2> QED
      BY <1>2, <2>1 DEF FoldsTo
  <1>4. Same(it)
    BY <1>3
  <1>5. Dispatch(rules, states, event) = it[1..n]
    BY <1>0 DEF Dispatch, FoldLeft, MapThenFoldSet, Served, Topmost
  <1> HIDE DEF it
  <1>6. acc[0] = states
    <2>1. 0 \in 0..n /\ 1..0 = {} /\ {} \in SUBSET (1..n)
      BY <1>0
    <2>2. it[{}] = states
      BY <1>4, <2>1
    <2> QED
      BY <2>1, <2>2
  <1>7. ASSUME NEW k \in 0..(n - 1) PROVE acc[k + 1] = Served(rules[k + 1], event, acc[k])
    <2>1. /\ k \in Nat /\ k \in 0..n /\ k + 1 \in 0..n
          /\ 1..(k + 1) \in SUBSET (1..n) /\ 1..k \in SUBSET (1..n)
      BY <1>0, <1>7
    <2>2. Topmost(1..(k + 1)) = k + 1 /\ (1..(k + 1)) \ {k + 1} = 1..k /\ 1..(k + 1) # {}
      BY <2>1, LastOfFirst
    <2>3. it[1..(k + 1)] = Served(rules[Topmost(1..(k + 1))], event,
                                  it[(1..(k + 1)) \ {Topmost(1..(k + 1))}])
      BY <1>4, <2>1, <2>2
    <2> QED
      BY <2>1, <2>2, <2>3
  <1> HIDE DEF acc
  <1>8. acc \in [0..n -> S]
    <2> DEFINE T == {k \in Nat : k <= n => acc[k] \in S}
    <2>1. 0 \in T
      BY <1>6
    <2>2. ASSUME NEW k \in Nat, k \in T PROVE k + 1 \in T
      <3>1. CASE k + 1 <= n
        <4>1. k \in 0..(n - 1) /\ acc[k] \in S /\ k + 1 \in 1..n
          BY <1>0, <2>2, <3>1
        <4>2. acc[k + 1] = Served(rules[k + 1], event, acc[k])
          BY <1>7, <4>1
        <4>3. \A j \in 1..n, s \in S : Served(rules[j], event, s) \in S
          <5>1. ServesEach(rules, event)
            BY ServedTyped
          <5> QED
            BY <5>1 DEF ServesEach
        <4>4. acc[k + 1] \in S
          BY <4>1, <4>2, <4>3
        <4> QED
          BY <4>4
      <3>2. CASE ~(k + 1 <= n)
        BY <3>2
      <3> QED
        BY <3>1, <3>2
    <2> HIDE DEF T
    <2>3. Nat \subseteq T
      BY <2>1, <2>2, Induct
    <2>4. \A k \in 0..n : acc[k] \in S
      BY <1>0, <2>3 DEF T
    <2> QED
      BY <2>4 DEF acc
  <1>9. Dispatch(rules, states, event) = acc[n]
    BY <1>0, <1>5 DEF acc
  <1> QED
    BY <1>6, <1>7, <1>8, <1>9

\* The rules that share an id, the first n of those that an event counts for,
\* and whether they count or only ask for a depth.
SameId(rules, id) == {k \in 1..Len(rules) : rules[k].id = id}
Firing(rules, id, event, n) == {k \in 1..n : rules[k].id = id /\ Matches(rules[k], event)}
Counting(rules, id) == \A k \in SameId(rules, id) : rules[k].kind # "tool_call_max_depth"
Deep(rules, id) == \A k \in SameId(rules, id) : rules[k].kind = "tool_call_max_depth"

LEMMA FiringGrows ==
    ASSUME NEW rules, NEW id, NEW event, NEW n \in Nat
    PROVE  /\ Firing(rules, id, event, 0) = {}
           /\ IsFiniteSet(Firing(rules, id, event, n))
           /\ Cardinality(Firing(rules, id, event, n)) \in Nat
           /\ IF rules[n + 1].id = id /\ Matches(rules[n + 1], event)
              THEN /\ Firing(rules, id, event, n + 1) # {}
                   /\ Cardinality(Firing(rules, id, event, n + 1)) =
                          Cardinality(Firing(rules, id, event, n)) + 1
              ELSE Firing(rules, id, event, n + 1) = Firing(rules, id, event, n)
  <1> DEFINE fires == rules[n + 1].id = id /\ Matches(rules[n + 1], event)
             R == Firing(rules, id, event, n)
  <1>1. Firing(rules, id, event, 0) = {} /\ R \subseteq 1..n
    BY DEF Firing
  <1>2. Firing(rules, id, event, n + 1) = With(R, n, fires)
    BY DEF Firing, With
  <1>3. fires \in BOOLEAN
    BY DEF Matches
  <1> HIDE DEF R, fires
  <1>4. /\ IsFiniteSet(R) /\ Cardinality(R) \in Nat
        /\ Cardinality(With(R, n, fires)) = IF fires THEN Cardinality(R) + 1 ELSE Cardinality(R)
    BY <1>1, <1>3, CardinalityWith
  <1>5. IF fires THEN With(R, n, fires) # {} ELSE With(R, n, fires) = R
    BY DEF With
  <1> QED
    BY <1>1, <1>2, <1>4, <1>5 DEF R, fires

\* What an event adds to the states.
LEMMA DispatchCounts ==
    ASSUME NEW rules, Ordered(rules), NEW event, NEW states \in States(rules)
    PROVE  /\ Dispatch(rules, states, event) \in States(rules)
           /\ \A id \in RuleIds(rules) :
                /\ Counting(rules, id) =>
                      Dispatch(rules, states, event)[id] =
                          states[id] + Cardinality(Firing(rules, id, event, Len(rules)))
                /\ Deep(rules, id) /\ states[id] \in {0, 1} =>
                      Dispatch(rules, states, event)[id] =
                          IF Firing(rules, id, event, Len(rules)) # {} THEN 1 ELSE states[id]
  <1>0. Len(rules) \in Nat
    BY DEF Ordered
  <1>1. PICK acc \in [0..Len(rules) -> States(rules)] :
           /\ acc[0] = states
           /\ \A k \in 0..(Len(rules) - 1) : acc[k + 1] = Served(rules[k + 1], event, acc[k])
           /\ Dispatch(rules, states, event) = acc[Len(rules)]
    BY DispatchServes
  <1>a. ServesEach(rules, event)
    BY ServedTyped
  <1>2. ASSUME NEW id \in RuleIds(rules)
        PROVE  /\ Counting(rules, id) =>
                      Dispatch(rules, states, event)[id] =
                          states[id] + Cardinality(Firing(rules, id, event, Len(rules)))
               /\ Deep(rules, id) /\ states[id] \in {0, 1} =>
                      Dispatch(rules, states, event)[id] =
                          IF Firing(rules, id, event, Len(rules)) # {} THEN 1 ELSE states[id]
    <2> DEFINE Fired(k) == Firing(rules, id, event, k)
               P(k) == /\ Counting(rules, id) => acc[k][id] = states[id] + Cardinality(Fired(k))
                       /\ Deep(rules, id) /\ states[id] \in {0, 1} =>
                              acc[k][id] = IF Fired(k) # {} THEN 1 ELSE states[id]
               T == {k \in Nat : k <= Len(rules) => P(k)}
    <2>1. states[id] \in Nat
      BY DEF States
    <2>2. Fired(0) = {} /\ Cardinality(Fired(0)) = 0
      BY FiringGrows, FS_EmptySet
    <2>3. P(0)
      BY <1>1, <2>1, <2>2
    <2>4. ASSUME NEW k \in Nat, k \in T PROVE k + 1 \in T
      <3> SUFFICES ASSUME k + 1 <= Len(rules) PROVE P(k + 1)
        OBVIOUS
      <3> DEFINE rule == rules[k + 1]
                 s == acc[k]
      <3>1. P(k) /\ k \in 0..(Len(rules) - 1) /\ k \in 0..Len(rules) /\ k + 1 \in 1..Len(rules)
        BY <1>0, <2>4
      <3>2. s \in States(rules) /\ acc[k + 1] = Served(rule, event, s)
        BY <1>1, <3>1
      <3>3. Served(rule, event, s)[id] = IF rule.id = id THEN Evaluate(rule, event, s[id]) ELSE s[id]
        <4> HIDE DEF s, T, P
        <4> QED
          BY <1>a, <3>1, <3>2 DEF ServesEach
      <3>4. acc[k + 1][id] = IF rule.id = id THEN Evaluate(rule, event, s[id]) ELSE s[id]
        BY <3>2, <3>3
      <3>5. s[id] \in Nat
        BY <3>2 DEF States
      <3>6. /\ Cardinality(Fired(k)) \in Nat
            /\ IF rule.id = id /\ Matches(rule, event)
               THEN Fired(k + 1) # {} /\ Cardinality(Fired(k + 1)) = Cardinality(Fired(k)) + 1
               ELSE Fired(k + 1) = Fired(k)
        BY FiringGrows
      <3>7. rule.id = id => k + 1 \in SameId(rules, id)
        BY <3>1 DEF SameId
      <3>8. ASSUME Counting(rules, id) PROVE acc[k + 1][id] = states[id] + Cardinality(Fired(k + 1))
        <4>1. rule.id = id => rule.kind # "tool_call_max_depth"
          BY <3>7, <3>8 DEF Counting
        <4>2. acc[k + 1][id] = IF rule.id = id /\ Matches(rule, event) THEN s[id] + 1 ELSE s[id]
          BY <3>4, <4>1 DEF Evaluate
        <4>3. s[id] = states[id] + Cardinality(Fired(k))
          BY <3>1, <3>8
        <4> HIDE DEF Fired, s, rule
        <4> QED
          BY <2>1, <3>6, <4>2, <4>3
      <3>9. ASSUME Deep(rules, id), states[id] \in {0, 1}
            PROVE  acc[k + 1][id] = IF Fired(k + 1) # {} THEN 1 ELSE states[id]
        <4>1. rule.id = id => rule.kind = "tool_call_max_depth"
          BY <3>7, <3>9 DEF Deep
        <4>2. s[id] = IF Fired(k) # {} THEN 1 ELSE states[id]
          BY <3>1, <3>9
        <4>3. Max({s[id], 1}) = 1
          BY <3>9, <4>2, MaxOfTwo
        <4>4. acc[k + 1][id] = IF rule.id = id /\ Matches(rule, event) THEN 1 ELSE s[id]
          BY <3>4, <4>1, <4>3 DEF Evaluate
        <4> HIDE DEF Fired, s, rule
        <4> QED
          BY <3>6, <4>2, <4>4
      <3> QED
        BY <3>8, <3>9
    <2> HIDE DEF P
    <2>5. Nat \subseteq T
      <3>1. 0 \in T
        BY <2>3
      <3> HIDE DEF T
      <3> QED
        BY <2>4, <3>1, Induct
    <2>6. P(Len(rules))
      BY <1>0, <2>5
    <2> QED
      BY <1>1, <2>6 DEF P
  <1>3. Dispatch(rules, states, event) \in States(rules)
    BY <1>0, <1>1
  <1> QED
    BY <1>2, <1>3

\* A sum in which some of the terms have grown by one.
LEMMA SumRaised ==
    ASSUME NEW D, NEW f \in [D -> Nat], NEW g \in [D -> Nat], NEW B
    PROVE  (\A x \in D : g[x] = IF x \in B THEN f[x] + 1 ELSE f[x]) =>
               \A S \in SUBSET D :
                   IsFiniteSet(S) => SumOver(g, S) = SumOver(f, S) + Cardinality(S \cap B)
  <1> SUFFICES ASSUME \A x \in D : g[x] = IF x \in B THEN f[x] + 1 ELSE f[x]
               PROVE  \A S \in SUBSET D : IsFiniteSet(S) =>
                          SumOver(g, S) = SumOver(f, S) + Cardinality(S \cap B)
    OBVIOUS
  <1> DEFINE Raised(S) == SumOver(g, S) = SumOver(f, S) + Cardinality(S \cap B)
             P(n) == \A S \in SUBSET D : IsFiniteSet(S) /\ Cardinality(S) = n => Raised(S)
             T == {n \in Nat : P(n)}
  <1>1. P(0)
    <2>1. \A S \in SUBSET D : IsFiniteSet(S) /\ Cardinality(S) = 0 => S = {}
      BY FS_EmptySet
    <2>2. SumOver(g, {}) = 0 /\ SumOver(f, {}) = 0 /\ Cardinality({} \cap B) = 0
      BY SumStep, FS_EmptySet
    <2> QED
      BY <2>1, <2>2
  <1>2. ASSUME NEW n \in Nat, P(n) PROVE P(n + 1)
    <2>1. ASSUME NEW S \in SUBSET D, IsFiniteSet(S), Cardinality(S) = n + 1 PROVE Raised(S)
      <3> DEFINE a == First(S)
                 R == S \ {a}
      <3>1. S # {}
        BY <2>1, FS_EmptySet
      <3>2. a \in S /\ R \in SUBSET D /\ IsFiniteSet(R) /\ Cardinality(R) = n
        BY <2>1, <3>1, OneLess
      <3>3. SumOver(g, S) = g[a] + SumOver(g, R) /\ SumOver(f, S) = f[a] + SumOver(f, R)
        BY <2>1, <3>1, SumStep
      <3> HIDE DEF a
      <3>4. SumOver(g, R) = SumOver(f, R) + Cardinality(R \cap B)
        BY <1>2, <3>2
      <3>5. IsFiniteSet(R \cap B) /\ Cardinality(R \cap B) \in Nat
        BY <3>2, FS_Subset, FS_CardinalityType
      <3>6. Cardinality(S \cap B) =
                IF a \in B THEN Cardinality(R \cap B) + 1 ELSE Cardinality(R \cap B)
        <4>1. CASE a \in B
          <5>1. S \cap B = (R \cap B) \cup {a} /\ a \notin R \cap B
            BY <3>2, <4>1
          <5> QED
            BY <3>5, <4>1, <5>1, FS_AddElement
        <4>2. CASE a \notin B
          <5>1. S \cap B = R \cap B
            BY <4>2
          <5> QED
            BY <4>2, <5>1
        <4> QED
          BY <4>1, <4>2
      <3>7. SumOver(f, R) \in Nat /\ f[a] \in Nat /\ a \in D
        BY <3>2, SumIsNat
      <3>8. g[a] = IF a \in B THEN f[a] + 1 ELSE f[a]
        BY <3>7
      <3> HIDE DEF R
      <3> QED
        BY <3>3, <3>4, <3>5, <3>6, <3>7, <3>8
    <2> QED
      BY <2>1
  <1> HIDE DEF P
  <1>3. Nat \subseteq T
    <2>1. 0 \in T /\ \A n \in Nat : n \in T => n + 1 \in T
      BY <1>1, <1>2
    <2> HIDE DEF T
    <2> QED
      BY <2>1, Induct
  <1>4. \A n \in Nat : P(n)
    BY <1>3
  <1>5. ASSUME NEW S \in SUBSET D, IsFiniteSet(S) PROVE Raised(S)
    BY <1>4, <1>5, FS_CardinalityType DEF P
  <1> QED
    BY <1>5

\* The events are dispatched in their order.
LEMMA RunDispatches ==
    ASSUME NEW rules, Ordered(rules), NEW E, NEW ev \in Seq(E)
    PROVE  \E acc \in [0..Len(ev) -> States(rules)] :
              /\ acc[0] = [id \in RuleIds(rules) |-> 0]
              /\ \A j \in 0..(Len(ev) - 1) : acc[j + 1] = Dispatch(rules, acc[j], ev[j + 1])
              /\ RunMetricKinds(rules, ev) = acc[Len(ev)]
  <1> DEFINE n == Len(ev)
             S == States(rules)
             zero == [id \in RuleIds(rules) |-> 0]
             F == [i \in 1..n |-> [s \in S |-> Dispatch(rules, s, ev[i])]]
             Same(it) == it = [s \in SUBSET (1..n) |->
                                 IF s = {} THEN zero
                                 ELSE Dispatch(rules, it[s \ {Topmost(s)}], ev[Topmost(s)])]
             it == CHOOSE g : Same(g)
             acc == [k \in 0..n |-> it[1..k]]
  <1>0. n \in Nat /\ DOMAIN ev = 1..n /\ zero \in S
    BY DEF States
  <1>1. F \in [1..n -> [S -> S]]
    BY DispatchCounts
  <1>2. PICK g : FoldsTo(g, n, S, zero, F)
    <2> HIDE DEF F, S, n, zero
    <2>1. n \in Nat /\ zero \in S
      BY <1>0
    <2> QED
      BY ONLY <1>1, <2>1, FoldMade
  <1>3. Same(g)
    <2>1. ASSUME NEW s \in SUBSET (1..n), s # {}
          PROVE  g[s] = Dispatch(rules, g[s \ {Topmost(s)}], ev[Topmost(s)])
      <3>1. Topmost(s) \in 1..n /\ s \ {Topmost(s)} \in SUBSET (1..n)
        BY <1>0, <2>1, LastOfSome
      <3>2. g[s \ {Topmost(s)}] \in S
        BY <1>2, <3>1 DEF FoldsTo
      <3> QED
        BY <1>2, <2>1, <3>1, <3>2 DEF FoldsTo
    <2> QED
      BY <1>2, <2>1 DEF FoldsTo
  <1>4. Same(it)
    BY <1>3
  <1>5. RunMetricKinds(rules, ev) = it[1..n]
    BY <1>0 DEF RunMetricKinds, FoldLeft, MapThenFoldSet, Topmost
  <1> HIDE DEF it
  <1>6. acc[0] = zero
    <2>1. 0 \in 0..n /\ 1..0 = {} /\ {} \in SUBSET (1..n)
      BY <1>0
    <2>2. it[{}] = zero
      BY <1>4, <2>1
    <2> QED
      BY <2>1, <2>2
  <1>7. ASSUME NEW k \in 0..(n - 1) PROVE acc[k + 1] = Dispatch(rules, acc[k], ev[k + 1])
    <2>1. /\ k \in Nat /\ k \in 0..n /\ k + 1 \in 0..n
          /\ 1..(k + 1) \in SUBSET (1..n) /\ 1..k \in SUBSET (1..n)
      BY <1>0, <1>7
    <2>2. Topmost(1..(k + 1)) = k + 1 /\ (1..(k + 1)) \ {k + 1} = 1..k /\ 1..(k + 1) # {}
      BY <2>1, LastOfFirst
    <2>3. it[1..(k + 1)] = Dispatch(rules, it[(1..(k + 1)) \ {Topmost(1..(k + 1))}],
                                    ev[Topmost(1..(k + 1))])
      BY <1>4, <2>1, <2>2
    <2> QED
      BY <2>1, <2>2, <2>3
  <1> HIDE DEF acc
  <1>8. acc \in [0..n -> S]
    <2> DEFINE T == {k \in Nat : k <= n => acc[k] \in S}
    <2>1. 0 \in T
      BY <1>0, <1>6
    <2>2. ASSUME NEW k \in Nat, k \in T PROVE k + 1 \in T
      <3>1. CASE k + 1 <= n
        <4>1. k \in 0..(n - 1) /\ acc[k] \in S
          BY <1>0, <2>2, <3>1
        <4>2. acc[k + 1] = Dispatch(rules, acc[k], ev[k + 1])
          BY <1>7, <4>1
        <4>3. \A event, s : s \in S => Dispatch(rules, s, event) \in S
          BY DispatchCounts
        <4>4. acc[k + 1] \in S
          BY <4>1, <4>2, <4>3
        <4> QED
          BY <4>4
      <3>2. CASE ~(k + 1 <= n)
        BY <3>2
      <3> QED
        BY <3>1, <3>2
    <2> HIDE DEF T
    <2>3. Nat \subseteq T
      BY <2>1, <2>2, Induct
    <2>4. \A k \in 0..n : acc[k] \in S
      BY <1>0, <2>3 DEF T
    <2> QED
      BY <2>4 DEF acc
  <1>9. RunMetricKinds(rules, ev) = acc[n]
    BY <1>0, <1>5 DEF acc
  <1> QED
    BY <1>6, <1>7, <1>8, <1>9

\* The events that a rule counts, and how many they are for each of the rules.
HitsIn(rule, ev, n) == {i \in 1..n : Matches(rule, ev[i])}
Tally(rules, ev, n) == [k \in 1..Len(rules) |-> Cardinality(HitsIn(rules[k], ev, n))]

LEMMA HitsGrow ==
    ASSUME NEW rule, NEW ev, NEW n \in Nat
    PROVE  /\ HitsIn(rule, ev, 0) = {}
           /\ IsFiniteSet(HitsIn(rule, ev, n)) /\ Cardinality(HitsIn(rule, ev, n)) \in Nat
           /\ IF Matches(rule, ev[n + 1])
              THEN /\ HitsIn(rule, ev, n + 1) # {}
                   /\ Cardinality(HitsIn(rule, ev, n + 1)) = Cardinality(HitsIn(rule, ev, n)) + 1
              ELSE HitsIn(rule, ev, n + 1) = HitsIn(rule, ev, n)
           /\ HitsIn(rule, ev, n) # {} => HitsIn(rule, ev, n + 1) # {}
  <1> DEFINE hit == Matches(rule, ev[n + 1])
             R == HitsIn(rule, ev, n)
  <1>1. HitsIn(rule, ev, 0) = {} /\ R \subseteq 1..n
    BY DEF HitsIn
  <1>2. HitsIn(rule, ev, n + 1) = With(R, n, hit)
    BY DEF HitsIn, With
  <1>3. hit \in BOOLEAN
    BY DEF Matches
  <1> HIDE DEF R, hit
  <1>4. /\ IsFiniteSet(R) /\ Cardinality(R) \in Nat
        /\ Cardinality(With(R, n, hit)) = IF hit THEN Cardinality(R) + 1 ELSE Cardinality(R)
    BY <1>1, <1>3, CardinalityWith
  <1>5. /\ IF hit THEN With(R, n, hit) # {} ELSE With(R, n, hit) = R
        /\ R # {} => With(R, n, hit) # {}
    BY DEF With
  <1> QED
    BY <1>1, <1>2, <1>4, <1>5 DEF R, hit

\* What all events together amount to.
LEMMA RunCounts ==
    ASSUME NEW rules, Ordered(rules), NEW E, NEW ev \in Seq(E)
    PROVE  /\ RunMetricKinds(rules, ev) \in States(rules)
           /\ \A id \in RuleIds(rules) :
                /\ Counting(rules, id) =>
                      RunMetricKinds(rules, ev)[id] =
                          SumOver(Tally(rules, ev, Len(ev)), SameId(rules, id))
                /\ Deep(rules, id) =>
                      RunMetricKinds(rules, ev)[id] =
                          IF \E k \in SameId(rules, id) : HitsIn(rules[k], ev, Len(ev)) # {}
                          THEN 1 ELSE 0
  <1>0. Len(rules) \in Nat /\ Len(ev) \in Nat
    BY DEF Ordered
  <1>1. PICK acc \in [0..Len(ev) -> States(rules)] :
           /\ acc[0] = [id \in RuleIds(rules) |-> 0]
           /\ \A j \in 0..(Len(ev) - 1) : acc[j + 1] = Dispatch(rules, acc[j], ev[j + 1])
           /\ RunMetricKinds(rules, ev) = acc[Len(ev)]
    BY RunDispatches
  <1>2. \A n \in Nat : Tally(rules, ev, n) \in [1..Len(rules) -> Nat]
    BY HitsGrow DEF Tally
  <1>3. ASSUME NEW id \in RuleIds(rules)
        PROVE  /\ Counting(rules, id) =>
                      RunMetricKinds(rules, ev)[id] =
                          SumOver(Tally(rules, ev, Len(ev)), SameId(rules, id))
               /\ Deep(rules, id) =>
                      RunMetricKinds(rules, ev)[id] =
                          IF \E k \in SameId(rules, id) : HitsIn(rules[k], ev, Len(ev)) # {}
                          THEN 1 ELSE 0
    <2> DEFINE S == SameId(rules, id)
               Amount(j) == SumOver(Tally(rules, ev, j), S)
               Hit(j) == \E k \in S : HitsIn(rules[k], ev, j) # {}
               P(j) == /\ Counting(rules, id) => acc[j][id] = Amount(j)
                       /\ Deep(rules, id) => acc[j][id] = IF Hit(j) THEN 1 ELSE 0
               T == {j \in Nat : j <= Len(ev) => P(j)}
    <2>1. S \in SUBSET (1..Len(rules)) /\ IsFiniteSet(S)
      <3>1. S \in SUBSET (1..Len(rules))
        BY DEF SameId
      <3>2. IsFiniteSet(1..Len(rules))
        BY <1>0, FS_Interval
      <3> QED
        BY <3>1, <3>2, FS_Subset
    <2>2. P(0)
      <3>1. \A k \in 1..Len(rules) : Tally(rules, ev, 0)[k] = 0
        BY HitsGrow, FS_EmptySet DEF Tally
      <3>2. Amount(0) = 0
        BY <1>2, <2>1, <3>1, SumOfZeros
      <3>3. ~Hit(0)
        BY HitsGrow
      <3>4. acc[0][id] = 0
        BY <1>1, <1>3
      <3> QED
        BY <3>2, <3>3, <3>4
    <2>3. ASSUME NEW j \in Nat, j \in T PROVE j + 1 \in T
      <3> SUFFICES ASSUME j + 1 <= Len(ev) PROVE P(j + 1)
        OBVIOUS
      <3> DEFINE e == ev[j + 1]
                 B == {k \in 1..Len(rules) : Matches(rules[k], e)}
                 fired == Firing(rules, id, e, Len(rules))
      <3>1. P(j) /\ j \in 0..(Len(ev) - 1) /\ j \in 0..Len(ev)
        <4> HIDE DEF P
        <4> QED
          BY <1>0, <2>3
      <3>2. acc[j] \in States(rules) /\ acc[j + 1] = Dispatch(rules, acc[j], e)
        BY <1>1, <3>1
      <3>3. fired = S \cap B
        BY DEF Firing, SameId
      <3>4. /\ Counting(rules, id) => acc[j + 1][id] = acc[j][id] + Cardinality(fired)
            /\ Deep(rules, id) /\ acc[j][id] \in {0, 1} =>
                   acc[j + 1][id] = IF fired # {} THEN 1 ELSE acc[j][id]
        <4>1. \A event, s : s \in States(rules) => \A x \in RuleIds(rules) :
                /\ Counting(rules, x) =>
                      Dispatch(rules, s, event)[x] =
                          s[x] + Cardinality(Firing(rules, x, event, Len(rules)))
                /\ Deep(rules, x) /\ s[x] \in {0, 1} =>
                      Dispatch(rules, s, event)[x] =
                          IF Firing(rules, x, event, Len(rules)) # {} THEN 1 ELSE s[x]
          BY DispatchCounts
        <4> QED
          BY <1>3, <3>2, <4>1
      <3>5. Amount(j + 1) = Amount(j) + Cardinality(S \cap B)
        <4>1. \A k \in 1..Len(rules) :
                 Tally(rules, ev, j + 1)[k] =
                     IF k \in B THEN Tally(rules, ev, j)[k] + 1 ELSE Tally(rules, ev, j)[k]
          BY HitsGrow DEF Tally
        <4> DEFINE D == 1..Len(rules)
                   f == Tally(rules, ev, j)
                   g == Tally(rules, ev, j + 1)
        <4>2. f \in [D -> Nat] /\ g \in [D -> Nat] /\ S \in SUBSET D
          <5>1. j \in Nat /\ j + 1 \in Nat
            BY <2>3
          <5> QED
            BY ONLY <1>2, <2>1, <5>1
        <4>3. \A x \in D : g[x] = IF x \in B THEN f[x] + 1 ELSE f[x]
          BY <4>1
        <4> HIDE DEF S, B, D, f, g
        <4>4. (\A x \in D : g[x] = IF x \in B THEN f[x] + 1 ELSE f[x]) =>
                 \A X \in SUBSET D :
                     IsFiniteSet(X) => SumOver(g, X) = SumOver(f, X) + Cardinality(X \cap B)
          BY ONLY <4>2, SumRaised
        <4>5. SumOver(g, S) = SumOver(f, S) + Cardinality(S \cap B)
          BY ONLY <2>1, <4>2, <4>3, <4>4
        <4> QED
          BY <4>5 DEF f, g
      <3>6. Hit(j + 1) <=> Hit(j) \/ S \cap B # {}
        <4>1. \A k \in S : HitsIn(rules[k], ev, j + 1) # {} <=>
                              HitsIn(rules[k], ev, j) # {} \/ k \in B
          BY <2>1, HitsGrow
        <4> HIDE DEF S, B
        <4> QED
          BY <4>1
      <3> HIDE DEF S, B, fired, e, Amount, Hit
      <3> QED
        BY <3>1, <3>3, <3>4, <3>5, <3>6
    <2> HIDE DEF P
    <2>4. Nat \subseteq T
      <3>1. 0 \in T
        BY <2>2
      <3> HIDE DEF T
      <3> QED
        BY <2>3, <3>1, Induct
    <2>5. P(Len(ev))
      BY <1>0, <2>4
    <2> QED
      BY <1>1, <2>5 DEF P
  <1>4. RunMetricKinds(rules, ev) \in States(rules)
    BY <1>0, <1>1
  <1> QED
    BY <1>3, <1>4

\* The lines of a trace that a rule counts.
HeardIn(rule, t, n) == {i \in 1..n : IsTraceEvent(t[i]) /\ Matches(rule, t[i])}

LEMMA HeardGrows ==
    ASSUME NEW rule, NEW t, NEW n \in Nat
    PROVE  /\ HeardIn(rule, t, 0) = {}
           /\ IsFiniteSet(HeardIn(rule, t, n)) /\ Cardinality(HeardIn(rule, t, n)) \in Nat
           /\ Cardinality(HeardIn(rule, t, n + 1)) =
                  IF IsTraceEvent(t[n + 1]) /\ Matches(rule, t[n + 1])
                  THEN Cardinality(HeardIn(rule, t, n)) + 1 ELSE Cardinality(HeardIn(rule, t, n))
  <1> DEFINE hit == IsTraceEvent(t[n + 1]) /\ Matches(rule, t[n + 1])
             R == HeardIn(rule, t, n)
  <1>1. HeardIn(rule, t, 0) = {} /\ R \subseteq 1..n
    BY DEF HeardIn
  <1>2. HeardIn(rule, t, n + 1) = With(R, n, hit)
    BY DEF HeardIn, With
  <1>3. hit \in BOOLEAN
    BY DEF IsTraceEvent, Matches
  <1> HIDE DEF R, hit
  <1>4. /\ IsFiniteSet(R) /\ Cardinality(R) \in Nat
        /\ Cardinality(With(R, n, hit)) = IF hit THEN Cardinality(R) + 1 ELSE Cardinality(R)
    BY <1>1, <1>3, CardinalityWith
  <1> QED
    BY <1>1, <1>2, <1>4 DEF R, hit

\* The events kept for the rules are what the lines read so far say to each.
EventsTold ==
    \A rules \in Profiles : \A k \in 1..Len(rules) :
        Cardinality(HitsIn(rules[k], events, Len(events))) =
            Cardinality(HeardIn(rules[k], trace, read))

LEMMA EventsStillTold ==
    ASSUME NEW rule, NEW t \in Seq(LineType), NEW n \in Nat, n < Len(t),
           NEW ev \in Seq(LineType), NEW next,
           next = IF IsTraceEvent(t[n + 1]) THEN Append(ev, t[n + 1]) ELSE ev,
           Cardinality(HitsIn(rule, ev, Len(ev))) = Cardinality(HeardIn(rule, t, n))
    PROVE  Cardinality(HitsIn(rule, next, Len(next))) = Cardinality(HeardIn(rule, t, n + 1))
  <1> DEFINE line == t[n + 1]
  <1>1. line \in LineType /\ Len(ev) \in Nat
    OBVIOUS
  <1>2. CASE IsTraceEvent(line)
    <2>1. /\ next = Append(ev, line) /\ Len(next) = Len(ev) + 1 /\ next[Len(ev) + 1] = line
          /\ \A i \in 1..Len(ev) : next[i] = ev[i]
      BY <1>1, <1>2
    <2>2. HitsIn(rule, next, Len(ev)) = HitsIn(rule, ev, Len(ev))
      BY <2>1 DEF HitsIn
    <2>3. Cardinality(HitsIn(rule, next, Len(ev) + 1)) =
              IF Matches(rule, line) THEN Cardinality(HitsIn(rule, next, Len(ev))) + 1
                                     ELSE Cardinality(HitsIn(rule, next, Len(ev)))
      <3>1. \A m \in Nat : IF Matches(rule, next[m + 1])
                THEN Cardinality(HitsIn(rule, next, m + 1)) = Cardinality(HitsIn(rule, next, m)) + 1
                ELSE HitsIn(rule, next, m + 1) = HitsIn(rule, next, m)
        BY HitsGrow
      <3> QED
        BY <1>1, <2>1, <3>1
    <2>4. Cardinality(HeardIn(rule, t, n + 1)) =
              IF Matches(rule, line) THEN Cardinality(HeardIn(rule, t, n)) + 1
                                     ELSE Cardinality(HeardIn(rule, t, n))
      BY <1>2, HeardGrows
    <2> QED
      BY <2>1, <2>2, <2>3, <2>4
  <1>3. CASE ~IsTraceEvent(line)
    BY <1>3, HeardGrows
  <1> QED
    BY <1>2, <1>3

\* metrics.json is made of a session that is over and a trace that is read.
MetricsMade ==
    metrics # None =>
        /\ stage = "over" /\ result.kind = "session" /\ read = Len(trace)
        /\ metrics.values # None =>
               metrics.values = FlattenLayer2(BuildResult(counters, metrics.window, prompts - 1),
                                              RunMetricKinds(metrics.rules, events))

RInv == MInv /\ CountersTold /\ EventsTold /\ MetricsMade

\* When the session is over nothing that is measured changes any more.
LEMMA OverIsOver ==
    ASSUME IInv, stage = "over", SessionStep \/ (\E event \in PiEvents : Emit(event)),
           UNCHANGED measures \/ (\E event \in PiEvents : Emit(event))
    PROVE  UNCHANGED <<stage, result, prompts, measures>>
  <1>1. ~ \E event \in PiEvents : Emit(event)
    BY DEF Emit, Hear
  <1>2. SessionStep /\ UNCHANGED measures
    BY <1>1
  <1> QED
    BY <1>2 DEF SessionStep, SetupFails, Begin, PromptAgain, LoopReturns, PromptRejects, TimerFires,
                AbortSettles, ShutDown, EndRace, IInv, PromptKept, TimerKept, AsksAgain

LEMMA NextKeepsRInv == RInv /\ [Next]_vars => RInv'
  <1> SUFFICES ASSUME RInv, [Next]_vars PROVE RInv'
    OBVIOUS
  <1>0. MInv' /\ CountersTold'
    BY NextKeepsMInv, NextKeepsTold DEF RInv
  <1>1. /\ trace \in Seq(LineType) /\ read \in 0..Len(trace) /\ read \in Nat /\ Len(trace) \in Nat
        /\ events \in Seq(LineType) /\ IInv
    BY DEF RInv, MInv, TraceKept, EventsKept
  <1>2. CASE ReadLine
    <2>1. /\ read < Len(trace) /\ read' = read + 1 /\ trace' = trace /\ metrics = None
          /\ events' = IF IsTraceEvent(trace[read + 1]) THEN Append(events, trace[read + 1])
                       ELSE events
          /\ metrics' = metrics
      BY <1>2 DEF ReadLine, Measuring
    <2>2. EventsTold'
      BY <1>1, <2>1, EventsStillTold DEF RInv, EventsTold
    <2> QED
      BY <1>0, <2>1, <2>2 DEF RInv, MetricsMade
  <1>3. CASE Derive
    <2>1. /\ stage = "over" /\ result.kind = "session" /\ read = Len(trace)
          /\ UNCHANGED <<stage, result, prompts, trace, read, events, counters>>
      BY <1>3 DEF Derive, Measuring, sessionVars
    <2>2. PICK rules \in Profiles, window \in Windows :
              metrics' = [rules |-> rules, window |-> window, values |-> MetricsOf(rules, window)]
      BY <1>3 DEF Derive
    <2>3. result.requests = prompts - 1
      <3>1. result.requests = requests /\ prompts = requests + 1 /\ requests \in Nat
        BY <1>1, <2>1 DEF IInv, SessionTypeOK, ReadingKept
      <3> QED
        BY <3>1
    <2>4. metrics'.values # None =>
              metrics'.values = FlattenLayer2(BuildResult(counters, metrics'.window, prompts - 1),
                                              RunMetricKinds(metrics'.rules, events))
      BY <2>2, <2>3 DEF MetricsOf
    <2>5. MetricsMade'
      BY <2>1, <2>4 DEF MetricsMade
    <2> QED
      BY <1>0, <2>1, <2>5 DEF RInv, EventsTold
  <1>4. CASE \E event \in PiEvents : Emit(event)
    <2>1. PICK event \in PiEvents : Emit(event)
      BY <1>4
    <2>2. /\ read' = read /\ events' = events /\ metrics' = metrics
          /\ trace' = IF Translate(event) = None THEN trace ELSE Append(trace, Line(Translate(event)))
          /\ stage # "over"
      BY <2>1 DEF Emit, Hear
    <2>3. Translate(event) # None => Line(Translate(event)) \in LineType
      BY LinesTyped
    <2>4. \A i \in 1..read : trace'[i] = trace[i]
      BY <1>1, <2>2, <2>3
    <2>5. \A rule : HeardIn(rule, trace', read) = HeardIn(rule, trace, read)
      BY <2>4 DEF HeardIn
    <2>6. EventsTold'
      BY <2>2, <2>5 DEF RInv, EventsTold
    <2>7. metrics' = None
      BY <2>2 DEF RInv, MetricsMade
    <2> QED
      BY <1>0, <2>6, <2>7 DEF RInv, MetricsMade
  <1>5. CASE SessionStep /\ UNCHANGED measures
    <2>1. UNCHANGED <<trace, read, events, counters, metrics>>
      BY <1>5 DEF measures
    <2>2. EventsTold'
      BY <2>1 DEF RInv, EventsTold
    <2>3. stage = "over" => UNCHANGED <<stage, result, prompts>>
      BY <1>1, <1>5, OverIsOver
    <2>4. MetricsMade'
      BY <2>1, <2>3 DEF RInv, MetricsMade
    <2> QED
      BY <1>0, <2>2, <2>4 DEF RInv
  <1>6. CASE UNCHANGED vars
    BY <1>0, <1>6 DEF vars, measures, sessionVars, RInv, EventsTold, MetricsMade
  <1> QED
    BY <1>2, <1>3, <1>4, <1>5, <1>6 DEF Next

LEMMA RulesInvariant == Spec => []RInv
  <1>1. Init => RInv
    <2> SUFFICES ASSUME Init PROVE RInv
      OBVIOUS
    <2>1. MInv /\ CountersTold
      BY InitMInv, NothingTold DEF Init, CountersTold
    <2>2. EventsTold
      <3>1. read = 0 /\ events = <<>> /\ Len(events) = 0
        BY DEF Init
      <3> QED
        BY <3>1, HitsGrow, HeardGrows DEF EventsTold
    <2>3. MetricsMade
      BY DEF Init, MetricsMade
    <2> QED
      BY <2>1, <2>2, <2>3 DEF RInv
  <1> QED
    BY <1>1, NextKeepsRInv, PTL DEF Spec

LinesOf(rules, t) ==
    [k \in 1..Len(rules) |->
        Cardinality({i \in DOMAIN t : IsTraceEvent(t[i]) /\ Matches(rules[k], t[i])})]

LEMMA SumOfLines ==
    ASSUME NEW rules, NEW t, NEW S \in SUBSET (1..Len(rules))
    PROVE  MapThenSumSet(
               LAMBDA k : Cardinality({i \in DOMAIN t : IsTraceEvent(t[i]) /\ Matches(rules[k], t[i])}),
               S) = SumOver(LinesOf(rules, t), S)
  <1> DEFINE Lines(k) ==
                 Cardinality({i \in DOMAIN t : IsTraceEvent(t[i]) /\ Matches(rules[k], t[i])})
             Same(it) == it = [s \in SUBSET S |-> IF s = {} THEN 0
                                                  ELSE Lines(First(s)) + it[s \ {First(s)}]]
  <1>1. \A s \in SUBSET S : s # {} => LinesOf(rules, t)[First(s)] = Lines(First(s))
    <2>1. \A s \in SUBSET S : s # {} => First(s) \in 1..Len(rules)
      BY DEF First
    <2> QED
      BY <2>1 DEF LinesOf
  <1>2. \A it : IsSum(LinesOf(rules, t), S, it) <=> Same(it)
    BY <1>1 DEF IsSum, Summed
  <1>3. MapThenSumSet(LAMBDA k : Lines(k), S) = (CHOOSE it : Same(it))[S]
    BY DEF MapThenSumSet, MapThenFoldSet, First
  <1> HIDE DEF Same
  <1> QED
    BY <1>2, <1>3, SumIs

\* A metric is what all rules of its id count together: their sum if they
\* count, and 1 or 0 if all they ask for is a depth.
SharedStates ==
    metrics # None /\ metrics.values # None =>
        LET rules == metrics.rules
            Hits(k) == {i \in DOMAIN trace : IsTraceEvent(trace[i]) /\ Matches(rules[k], trace[i])}
        IN  \A id \in RuleIds(rules) :
              LET same == {k \in DOMAIN rules : rules[k].id = id}
                  deep == {k \in same : rules[k].kind = "tool_call_max_depth"}
              IN  /\ deep = {} =>
                       metrics.values[id] = MapThenSumSet(LAMBDA k : Cardinality(Hits(k)), same)
                  /\ deep = same =>
                       metrics.values[id] = IF \E k \in same : Hits(k) # {} THEN 1 ELSE 0

LEMMA WhatRulesCount == ASSUME RInv PROVE SharedStates
  <1> SUFFICES ASSUME metrics # None, metrics.values # None,
                      NEW id \in RuleIds(metrics.rules)
               PROVE  LET rules == metrics.rules
                          Hits(k) == {i \in DOMAIN trace :
                                         IsTraceEvent(trace[i]) /\ Matches(rules[k], trace[i])}
                          same == {k \in DOMAIN rules : rules[k].id = id}
                          deep == {k \in same : rules[k].kind = "tool_call_max_depth"}
                      IN  /\ deep = {} =>
                               metrics.values[id] = MapThenSumSet(LAMBDA k : Cardinality(Hits(k)), same)
                          /\ deep = same =>
                               metrics.values[id] = IF \E k \in same : Hits(k) # {} THEN 1 ELSE 0
    BY DEF SharedStates
  <1> DEFINE rules == metrics.rules
             Hits(k) == {i \in DOMAIN trace : IsTraceEvent(trace[i]) /\ Matches(rules[k], trace[i])}
             same == {k \in DOMAIN rules : rules[k].id = id}
             deep == {k \in same : rules[k].kind = "tool_call_max_depth"}
             found == RunMetricKinds(rules, events)
             tally == Tally(rules, events, Len(events))
             lines == LinesOf(rules, trace)
  <1>1. /\ trace \in Seq(LineType) /\ events \in Seq(LineType) /\ read = Len(trace)
        /\ rules \in Profiles /\ EventsTold
        /\ metrics.values = FlattenLayer2(BuildResult(counters, metrics.window, prompts - 1), found)
    BY DEF RInv, MInv, TraceKept, EventsKept, MeasuresTyped, MetricsMade
  <1>2. Ordered(rules)
    BY <1>1, RulesAssumption DEF Ordered
  <1>3. same = SameId(rules, id) /\ same \in SUBSET (1..Len(rules)) /\ IsFiniteSet(same)
    <2>1. same = SameId(rules, id) /\ same \in SUBSET (1..Len(rules))
      BY <1>2 DEF Ordered, SameId
    <2>2. IsFiniteSet(1..Len(rules))
      BY <1>2, FS_Interval DEF Ordered
    <2> QED
      BY <2>1, <2>2, FS_Subset
  <1>4. /\ found \in States(rules)
        /\ Counting(rules, id) => found[id] = SumOver(tally, same)
        /\ Deep(rules, id) =>
               found[id] = IF \E k \in same : HitsIn(rules[k], events, Len(events)) # {} THEN 1 ELSE 0
    <2>1. /\ found \in States(rules)
          /\ \A x \in RuleIds(rules) :
                /\ Counting(rules, x) => found[x] = SumOver(tally, SameId(rules, x))
                /\ Deep(rules, x) =>
                       found[x] = IF \E k \in SameId(rules, x) :
                                        HitsIn(rules[k], events, Len(events)) # {}
                                  THEN 1 ELSE 0
      <3>1. \A e \in Seq(LineType) :
                /\ RunMetricKinds(rules, e) \in States(rules)
                /\ \A x \in RuleIds(rules) :
                     /\ Counting(rules, x) =>
                           RunMetricKinds(rules, e)[x] =
                               SumOver(Tally(rules, e, Len(e)), SameId(rules, x))
                     /\ Deep(rules, x) =>
                           RunMetricKinds(rules, e)[x] =
                               IF \E k \in SameId(rules, x) : HitsIn(rules[k], e, Len(e)) # {}
                               THEN 1 ELSE 0
        BY <1>2, RunCounts
      <3> QED
        BY <1>1, <3>1
    <2>2. id \in RuleIds(rules)
      OBVIOUS
    <2> HIDE DEF found, tally, same
    <2> QED
      BY <1>3, <2>1, <2>2
  <1>5. metrics.values[id] = found[id]
    <2>1. DOMAIN found = RuleIds(rules)
      BY <1>4 DEF States
    <2> HIDE DEF found
    <2> QED
      BY <1>1, <2>1 DEF FlattenLayer2, Spread
  <1>6. \A k \in 1..Len(rules) :
            /\ Hits(k) = HeardIn(rules[k], trace, Len(trace))
            /\ Cardinality(HitsIn(rules[k], events, Len(events))) = Cardinality(Hits(k))
            /\ HitsIn(rules[k], events, Len(events)) # {} <=> Hits(k) # {}
    <2> TAKE k \in 1..Len(rules)
    <2>1. Hits(k) = HeardIn(rules[k], trace, Len(trace))
      BY <1>1 DEF HeardIn
    <2>2. Cardinality(HitsIn(rules[k], events, Len(events))) = Cardinality(Hits(k))
      BY <1>1, <2>1 DEF EventsTold
    <2>3. IsFiniteSet(HitsIn(rules[k], events, Len(events))) /\ IsFiniteSet(Hits(k))
      <3>1. Len(events) \in Nat /\ Len(trace) \in Nat
        BY <1>1
      <3>2. IsFiniteSet(HeardIn(rules[k], trace, Len(trace)))
        BY <3>1, HeardGrows
      <3>3. IsFiniteSet(HitsIn(rules[k], events, Len(events)))
        BY <3>1, HitsGrow
      <3> QED
        BY <2>1, <3>2, <3>3
    <2> QED
      BY <2>1, <2>2, <2>3, FS_EmptySet
  <1>7. tally \in [1..Len(rules) -> Nat] /\ lines \in [1..Len(rules) -> Nat]
    BY <1>1, <1>6, HitsGrow DEF Tally, LinesOf
  <1>8. \A k \in 1..Len(rules) : tally[k] = lines[k]
    BY <1>6 DEF Tally, LinesOf
  <1>9. deep = {} => metrics.values[id] = MapThenSumSet(LAMBDA k : Cardinality(Hits(k)), same)
    <2>1. deep = {} => Counting(rules, id)
      BY <1>3 DEF Counting
    <2>2. SumOver(tally, same) = SumOver(lines, same)
      <3> DEFINE D == 1..Len(rules)
      <3>1. same \in SUBSET (D \cap D) /\ \A x \in same : tally[x] = lines[x]
        BY <1>3, <1>8
      <3>2. tally \in [D -> Nat] /\ lines \in [D -> Nat]
        BY <1>7
      <3>3. IsFiniteSet(same)
        BY <1>3
      <3> HIDE DEF tally, lines, same, D
      <3>4. \A X \in SUBSET (D \cap D) :
               IsFiniteSet(X) /\ (\A x \in X : tally[x] = lines[x]) =>
                   SumOver(tally, X) = SumOver(lines, X)
        BY ONLY <3>2, SumSame
      <3> QED
        BY ONLY <3>1, <3>3, <3>4
    <2>3. MapThenSumSet(LAMBDA k : Cardinality(Hits(k)), same) = SumOver(lines, same)
      BY <1>3, SumOfLines
    <2> QED
      BY <1>4, <1>5, <2>1, <2>2, <2>3
  <1>10. deep = same => metrics.values[id] = IF \E k \in same : Hits(k) # {} THEN 1 ELSE 0
    <2>1. deep = same => Deep(rules, id)
      BY <1>3 DEF Deep
    <2>2. (\E k \in same : Hits(k) # {}) <=>
              \E k \in same : HitsIn(rules[k], events, Len(events)) # {}
      BY <1>3, <1>6
    <2> QED
      BY <1>4, <1>5, <2>1, <2>2
  <1> QED
    BY <1>9, <1>10

\* Of a rule that shares its id with no other, that is what it counts itself.
LEMMA WhatOneRuleCounts == ASSUME RInv PROVE RulesAgree
  <1> SUFFICES ASSUME metrics # None, metrics.values # None, NEW n \in DOMAIN metrics.rules,
                      \A l \in DOMAIN metrics.rules \ {n} :
                          metrics.rules[l].id # metrics.rules[n].id
               PROVE  LET rules == metrics.rules
                          Hits(k) == {i \in DOMAIN trace :
                                         IsTraceEvent(trace[i]) /\ Matches(rules[k], trace[i])}
                      IN  metrics.values[rules[n].id] =
                              IF rules[n].kind # "tool_call_max_depth" THEN Cardinality(Hits(n))
                              ELSE IF Hits(n) # {} THEN 1 ELSE 0
    BY DEF RulesAgree
  <1> DEFINE rules == metrics.rules
             Hits(k) == {i \in DOMAIN trace : IsTraceEvent(trace[i]) /\ Matches(rules[k], trace[i])}
             id == rules[n].id
             same == {k \in DOMAIN rules : rules[k].id = id}
             deep == {k \in same : rules[k].kind = "tool_call_max_depth"}
             lines == LinesOf(rules, trace)
  <1>1. same = {n} /\ id \in RuleIds(rules)
    BY DEF RuleIds
  <1>2. DOMAIN rules = 1..Len(rules) /\ IsFiniteSet({n})
    <2>1. rules \in Profiles
      BY DEF RInv, MInv, MeasuresTyped
    <2>2. Ordered(rules)
      BY <2>1, RulesAssumption DEF Ordered
    <2> QED
      BY <2>2, FS_Singleton DEF Ordered
  <1>3. /\ deep = {} => metrics.values[id] = MapThenSumSet(LAMBDA k : Cardinality(Hits(k)), same)
        /\ deep = same =>
               metrics.values[id] = IF \E k \in same : Hits(k) # {} THEN 1 ELSE 0
    BY <1>1, WhatRulesCount DEF SharedStates
  <1>4. CASE rules[n].kind = "tool_call_max_depth"
    <2>1. deep = same
      BY <1>1, <1>4
    <2>2. metrics.values[id] = IF \E k \in {n} : Hits(k) # {} THEN 1 ELSE 0
      BY <1>1, <1>3, <2>1
    <2> QED
      BY <1>4, <2>2
  <1>5. CASE rules[n].kind # "tool_call_max_depth"
    <2>1. deep = {}
      BY <1>1, <1>5
    <2>2. MapThenSumSet(LAMBDA k : Cardinality(Hits(k)), same) = SumOver(lines, {n})
      <3>1. {n} \in SUBSET (1..Len(rules))
        BY <1>2
      <3>2. MapThenSumSet(LAMBDA k : Cardinality(Hits(k)), {n}) = SumOver(lines, {n})
        BY <3>1, SumOfLines
      <3> QED
        BY <1>1, <3>2
    <2>3. lines[n] = Cardinality(Hits(n)) /\ Cardinality(Hits(n)) \in Nat
      <3>1. lines[n] = Cardinality(Hits(n))
        BY <1>2 DEF LinesOf
      <3>2. trace \in Seq(LineType)
        BY DEF RInv, MInv, TraceKept
      <3>3. IsFiniteSet(1..Len(trace)) /\ DOMAIN trace = 1..Len(trace)
        BY <3>2, FS_Interval
      <3>4. Hits(n) \subseteq 1..Len(trace)
        BY <3>3
      <3> QED
        BY <3>1, <3>3, <3>4, FS_Subset, FS_CardinalityType
    <2>4. SumOver(lines, {n}) = lines[n]
      <3> HIDE DEF lines
      <3>1. First({n}) = n /\ {n} \ {n} = {} /\ {n} # {}
        BY DEF First
      <3>2. SumOver(lines, {}) = 0
        BY SumStep, FS_EmptySet
      <3>3. SumOver(lines, {n}) = lines[n] + SumOver(lines, {})
        BY <1>2, <3>1, SumStep
      <3> QED
        BY <2>3, <3>2, <3>3
    <2> QED
      BY <1>3, <1>5, <2>1, <2>2, <2>3, <2>4
  <1> QED
    BY <1>4, <1>5

\* A metric that a profile declares is what its rule counts in the trace, or 1 or
\* 0 if it asks for a depth, whatever the other rules are, provided that none has
\* its id (runMetricKindsOverEvents dispatches event by event and rule by rule).
THEOREM RulesCountTheTrace == Spec => []RulesAgree
  <1>1. RInv => RulesAgree
    BY WhatOneRuleCounts
  <1> QED
    BY <1>1, RulesInvariant, PTL

\* The names of the framework's metrics do not depend on what was measured.
Keys == {"tool_calls_total", "tool_calls_per_type", "files_read_unique", "turns_to_first_edit",
         "repeated_file_edits", "clarification_requests_count", "bash_commands_count",
         "tokens_in_total", "tokens_out_total", "tokens_in_upfront", "context_window_size",
         "context_utilization_max_pct", "context_utilization_avg_pct"}

LEMMA FrameworkNames ==
    /\ \A c, window, asked : DOMAIN BuildResult(c, window, asked) = Keys
    /\ FrameworkKeys = Keys
  <1>1. ASSUME NEW c, NEW window, NEW asked PROVE DOMAIN BuildResult(c, window, asked) = Keys
    <2> DEFINE known == window > 0 /\ c.perTurnInput # <<>>
    <2>1. ASSUME NEW v1, NEW v2, NEW v3, NEW v4, NEW v5, NEW v6, NEW v7, NEW v8, NEW v9, NEW v10,
                 NEW v11, NEW v12, NEW v13
          PROVE  DOMAIN [ tool_calls_total |-> v1, tool_calls_per_type |-> v2,
                          files_read_unique |-> v3, turns_to_first_edit |-> v4,
                          repeated_file_edits |-> v5, clarification_requests_count |-> v6,
                          bash_commands_count |-> v7, tokens_in_total |-> v8,
                          tokens_out_total |-> v9, tokens_in_upfront |-> v10,
                          context_window_size |-> v11, context_utilization_max_pct |-> v12,
                          context_utilization_avg_pct |-> v13 ] = Keys
      BY DEF Keys
    <2> QED
      BY ONLY <2>1 DEF BuildResult
  <1> QED
    BY <1>1 DEF FrameworkKeys

LEMMA WhatTheRowShows == ASSUME RInv PROVE CellsAreMeasured
  <1> SUFFICES ASSUME metrics # None, metrics.values # None, Parses(metrics.rules)
               PROVE  LET ids == RuleIds(metrics.rules)
                          bundle == [c \in StaticColumns |-> <<"bundle", c>>]
                          framework == BuildResult(counters, metrics.window, prompts - 1)
                          row == Row(metrics.values, bundle)
                      IN  /\ DOMAIN row = StaticColumns \cup (ids \ FrameworkKeys)
                          /\ \A c \in MetricColumns \ ids : row[c] = framework[c]
                          /\ \A c \in StaticColumns \ (MetricColumns \cup ids) : row[c] = bundle[c]
                          /\ \A c \in ids \cap DOMAIN row : row[c] = metrics.values[c]
    BY DEF CellsAreMeasured
  <1> DEFINE ids == RuleIds(metrics.rules)
             bundle == [c \in StaticColumns |-> <<"bundle", c>>]
             framework == BuildResult(counters, metrics.window, prompts - 1)
             found == RunMetricKinds(metrics.rules, events)
             values == metrics.values
             row == Row(values, bundle)
             fixed == [c \in StaticColumns |-> IF c \in MetricColumns THEN values[c] ELSE bundle[c]]
             extra == [key \in DOMAIN values \ FrameworkKeys |-> values[key]]
  <1>1. /\ events \in Seq(LineType) /\ metrics.rules \in Profiles
        /\ values = FlattenLayer2(framework, found)
    BY DEF RInv, MInv, EventsKept, MeasuresTyped, MetricsMade
  <1>2. DOMAIN found = ids
    <2>1. Ordered(metrics.rules)
      BY <1>1, RulesAssumption DEF Ordered
    <2>2. found \in States(metrics.rules)
      BY <1>1, <2>1, RunCounts
    <2> QED
      BY <2>2 DEF States
  <1>3. DOMAIN framework = FrameworkKeys
    BY FrameworkNames
  <1>4. /\ MetricColumns \subseteq StaticColumns /\ MetricColumns \subseteq FrameworkKeys
        /\ StaticColumns \cap FrameworkKeys \subseteq MetricColumns
    BY FrameworkNames DEF StaticColumns, MetricColumns, Keys
  <1>5. row = Spread(fixed, extra)
    BY DEF Row
  <1>6. values = Spread(framework, found)
    BY <1>1 DEF FlattenLayer2
  <1> HIDE DEF found, framework, ids, row, values
  <1>7. /\ DOMAIN values = FrameworkKeys \cup ids
        /\ \A c \in FrameworkKeys \ ids : values[c] = framework[c]
    BY <1>2, <1>3, <1>6 DEF Spread
  <1>8. /\ DOMAIN fixed = StaticColumns /\ DOMAIN extra = ids \ FrameworkKeys
        /\ \A c \in MetricColumns : fixed[c] = values[c]
        /\ \A c \in StaticColumns \ MetricColumns : fixed[c] = bundle[c]
        /\ \A c \in ids \ FrameworkKeys : extra[c] = values[c]
    BY <1>4, <1>7
  <1> HIDE DEF fixed, extra, bundle
  <1>9. /\ DOMAIN row = StaticColumns \cup (ids \ FrameworkKeys)
        /\ \A c \in DOMAIN row : row[c] = IF c \in ids \ FrameworkKeys THEN extra[c] ELSE fixed[c]
    BY <1>5, <1>8 DEF Spread
  <1>10. \A c \in MetricColumns \ ids : row[c] = framework[c]
    BY <1>4, <1>7, <1>8, <1>9
  <1>11. \A c \in StaticColumns \ (MetricColumns \cup ids) : row[c] = bundle[c]
    BY <1>8, <1>9
  <1>12. \A c \in ids \cap DOMAIN row : row[c] = values[c]
    BY <1>4, <1>8, <1>9
  <1> QED
    BY <1>9, <1>10, <1>11, <1>12 DEF ids, bundle, framework, row, values

\* The row of a run shows what was measured: only a rule takes the place of a
\* column or of a metric of the framework, and only the one of its name
\* (flattenLayer2, collectAggregatedRows).
THEOREM CellsShowTheMetrics == Spec => []CellsAreMeasured
  <1>1. RInv => CellsAreMeasured
    BY WhatTheRowShows
  <1> QED
    BY <1>1, RulesInvariant, PTL
=============================================================================
