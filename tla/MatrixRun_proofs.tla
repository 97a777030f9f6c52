--------------------------- MODULE MatrixRun_proofs ---------------------------
(***************************************************************************)
(* Safety of the promise pool and of the matrix loop for every matrix,     *)
(* parallelism, cap, choice of failing awaits and number of failures.  The *)
(* inductive invariant IInv of the matrix loop has one part for each thing *)
(* the code keeps in step:                                                 *)
(*   PoolIInv       lanes and cursor of the promise pool;                  *)
(*   Accounted      an entry under way is the entry of a lane;             *)
(*   ReportsKept    slots of `reports` against the stages;                 *)
(*   BudgetKept     the tracker against the entries under way;             *)
(*   ArtifactsKept  the run directory against the stage;                   *)
(*   GateKept       an entry is skipped only after the trip;               *)
(*   SummariesKept  the summary on disk against the report;                *)
(*   LoadsKept      the cached definitions against stages and reports;     *)
(*   CloseKept      manifest and tables against reports and directories;   *)
(*   OutputsKept    what was to be written against how runAll ended.       *)
(* From it follow the runs' invariants and that every step is a step of    *)
(* BudgetedMatrix or leaves its ledger alone.                              *)
(***************************************************************************)
EXTENDS MatrixRun, FiniteSetTheorems, TLAPS

-----------------------------------------------------------------------------
(* The promise pool, for every number of items and every limit.  PoolIInv  *)
(* adds to its properties the account of the cursor: it passes Total + 1   *)
(* only by one for every lane that has exited.                             *)

Gone == {l \in Lanes : lane[l] = Exited}

PoolIInv ==
    /\ cursor \in Nat \ {0}
    /\ lane \in [Lanes -> Items \cup {Free, Exited}]
    /\ cursor <= Total + 1 + Cardinality(Gone)
    /\ LanesDisjoint
    /\ ExitOnlyWhenDrained

\* The number of lanes is a natural number and does not exceed that of items.
LEMMA ConcurrencyBound == Concurrency \in Nat /\ Concurrency <= Total
BY PoolAssumption DEF Concurrency

\* Lanes are finitely many, so the lanes that have exited can be counted.
LEMMA LanesFinite ==
    /\ IsFiniteSet(Lanes) /\ Cardinality(Lanes) = Concurrency
    /\ IsFiniteSet(Gone) /\ Cardinality(Gone) \in Nat /\ Cardinality(Gone) <= Concurrency
<1>1. IsFiniteSet(Lanes) /\ Cardinality(Lanes) = Concurrency
  BY ConcurrencyBound, FS_Interval DEF Lanes
<1>2. Gone \subseteq Lanes
  BY DEF Gone
<1>3. IsFiniteSet(Gone) /\ Cardinality(Gone) <= Cardinality(Lanes)
  BY <1>1, <1>2, FS_Subset
<1> QED
  BY <1>1, <1>3, FS_CardinalityType

LEMMA PoolInitIInv == PoolInit => PoolIInv
<1> SUFFICES ASSUME PoolInit PROVE PoolIInv
  OBVIOUS
<1> USE PoolAssumption
<1>1. cursor = 1 /\ \A l \in Lanes : lane[l] = Free
  BY DEF PoolInit
<1>2. lane \in [Lanes -> Items \cup {Free, Exited}]
  BY DEF PoolInit
<1>3. Free \notin Items /\ Free # Exited
  BY DEF Free, Items, Exited
<1> QED
  BY <1>1, <1>2, <1>3, LanesFinite DEF PoolIInv, LanesDisjoint, ExitOnlyWhenDrained

\* No step changes how many lanes have exited except Exit, by one.
LEMMA LaunchIInv == PoolIInv /\ Launch => PoolIInv'
<1> SUFFICES ASSUME PoolIInv, Launch PROVE PoolIInv'
  OBVIOUS
<1> USE PoolAssumption, ConcurrencyBound
<1>1. lane' = [l \in Lanes |-> l] /\ cursor' = Concurrency + 1
  BY DEF Launch
<1>2. \A l \in Lanes : l \in Items /\ l < cursor' /\ l # Exited
  BY <1>1 DEF Lanes, Items, Exited
<1>3. lane' \in [Lanes -> Items \cup {Free, Exited}]
  BY <1>1, <1>2
<1>3a. Gone' = {}
  BY <1>1, <1>2 DEF Gone
<1>4. Cardinality(Gone') = 0
  BY <1>3a, FS_EmptySet
<1> QED
  BY <1>1, <1>2, <1>3, <1>4 DEF PoolIInv, LanesDisjoint, ExitOnlyWhenDrained

LEMMA TakeIInv == ASSUME PoolIInv, NEW l \in Lanes, Take(l) PROVE PoolIInv'
<1> USE PoolAssumption, LanesFinite
<1>1. /\ lane[l] = Free /\ cursor <= Total
      /\ lane' = [lane EXCEPT ![l] = cursor] /\ cursor' = cursor + 1
  BY DEF Take
<1>2. cursor \in Items /\ cursor # Exited /\ Free # Exited
  BY <1>1 DEF PoolIInv, Items, Exited, Free
<1>3. lane' \in [Lanes -> Items \cup {Free, Exited}]
  BY <1>1, <1>2 DEF PoolIInv
<1>4. Gone' = Gone
  BY <1>1, <1>2 DEF Gone, PoolIInv
<1>5. LanesDisjoint'
  BY <1>1, <1>2 DEF PoolIInv, LanesDisjoint, Items
<1>6. ExitOnlyWhenDrained'
  BY <1>1, <1>2 DEF PoolIInv, ExitOnlyWhenDrained
<1> QED
  BY <1>1, <1>3, <1>4, <1>5, <1>6 DEF PoolIInv

LEMMA ReturnIInv == ASSUME PoolIInv, NEW l \in Lanes, Return(l) PROVE PoolIInv'
<1> USE PoolAssumption
<1>1. lane[l] \in Items /\ lane' = [lane EXCEPT ![l] = Free] /\ cursor' = cursor
  BY DEF Return
<1>2. Free \notin Items /\ Exited \notin Items /\ Free # Exited
  BY DEF Items, Exited, Free
<1>3. lane' \in [Lanes -> Items \cup {Free, Exited}]
  BY <1>1 DEF PoolIInv
<1>4. Gone' = Gone
  BY <1>1, <1>2 DEF Gone, PoolIInv
<1>5. LanesDisjoint'
  BY <1>1, <1>2 DEF PoolIInv, LanesDisjoint
<1>6. ExitOnlyWhenDrained'
  BY <1>1, <1>2 DEF PoolIInv, ExitOnlyWhenDrained
<1> QED
  BY <1>1, <1>3, <1>4, <1>5, <1>6 DEF PoolIInv

LEMMA ExitIInv == ASSUME PoolIInv, NEW l \in Lanes, Exit(l) PROVE PoolIInv'
<1> USE PoolAssumption, LanesFinite
<1>1. /\ lane[l] = Free /\ cursor > Total
      /\ lane' = [lane EXCEPT ![l] = Exited] /\ cursor' = cursor + 1
  BY DEF Exit
<1>2. Exited \notin Items /\ Free # Exited
  BY DEF Items, Exited, Free
<1>3. lane' \in [Lanes -> Items \cup {Free, Exited}]
  BY <1>1 DEF PoolIInv
<1>4. Gone' = Gone \cup {l} /\ l \notin Gone
  BY <1>1, <1>2 DEF Gone, PoolIInv
<1>5. Cardinality(Gone') = Cardinality(Gone) + 1
  BY <1>4, FS_AddElement
<1>6. LanesDisjoint'
  BY <1>1, <1>2 DEF PoolIInv, LanesDisjoint, Items
<1>7. ExitOnlyWhenDrained'
  BY <1>1 DEF PoolIInv, ExitOnlyWhenDrained
<1> QED
  BY <1>1, <1>3, <1>5, <1>6, <1>7 DEF PoolIInv

\* Stated of one step of the pool, so that what is built on it can cite it.
LEMMA PoolStepIInv == PoolIInv /\ [PoolNext]_poolVars => PoolIInv'
<1> SUFFICES ASSUME PoolIInv, [PoolNext]_poolVars PROVE PoolIInv'
  OBVIOUS
<1>1. CASE Launch
  BY <1>1, LaunchIInv
<1>2. ASSUME NEW l \in Lanes, PoolStep(l) PROVE PoolIInv'
  BY <1>2, TakeIInv, ReturnIInv, ExitIInv DEF PoolStep
<1>3. CASE UNCHANGED poolVars
  BY <1>3 DEF poolVars, PoolIInv, LanesDisjoint, ExitOnlyWhenDrained, Gone
<1> QED
  BY <1>1, <1>2, <1>3 DEF PoolNext

LEMMA PoolTypeFromIInv == PoolIInv => PoolTypeOK
BY PoolAssumption, ConcurrencyBound, LanesFinite DEF PoolIInv, PoolTypeOK

THEOREM PoolInductive == PoolSpec => []PoolIInv
BY PoolInitIInv, PoolStepIInv, PTL DEF PoolSpec

\* The cursor stays within one step of a lane past the end.
THEOREM PoolTypeCorrect == PoolSpec => []PoolTypeOK
BY PoolInductive, PoolTypeFromIInv, PTL

\* The shared cursor hands every item to one lane only.
THEOREM PoolDisjoint == PoolSpec => []LanesDisjoint
<1>1. PoolIInv => LanesDisjoint
  BY DEF PoolIInv
<1> QED
  BY <1>1, PoolInductive, PTL

\* No lane leaves while there is work to hand out.
THEOREM PoolDrained == PoolSpec => []ExitOnlyWhenDrained
<1>1. PoolIInv => ExitOnlyWhenDrained
  BY DEF PoolIInv
<1> QED
  BY <1>1, PoolInductive, PTL

-----------------------------------------------------------------------------
(* The matrix loop.                                                         *)

Accounted ==
    /\ phase = "setup" => ~Launched
    /\ \A i \in Items :
          /\ stage[i] = "todo" <=> i >= cursor
          /\ stage[i] \in {"todo", "done", "missed"} \/ \E l \in Lanes : lane[l] = i

ReportsKept ==
    \A i \in Items :
        /\ failure[i] # "PoolMissError"
        /\ stage[i] \in {"evaluate", "measure", "summary", "release"} => outcome[i] \in Outcomes
        /\ stage[i] = "done" => report[i] # Absent /\ report[i].error # "PoolMissError"
        /\ Closed => stage[i] \in {"done", "missed"} /\ report[i] # Absent

\* Below the cap the tracker has not tripped; at the trip what the entries
\* still under way may add is paid for by the entry that tripped it.
BudgetKept ==
    /\ ~aborted => cumulative < Cap
    /\ aborted => /\ cumulative + Cardinality(Paid) * MaxCost < Cap + Concurrency * MaxCost
                  /\ Cardinality(Paid) <= Concurrency - 1

BeforeSummary ==
    {"todo", "skip_init", "skip_summary", "profile", "await_profile", "await_scenario",
     "mkdir", "config", "prepare", "session", "evaluate", "measure", "summary"}

ArtifactsKept ==
    \A i \in Items :
        /\ stage[i] \in BeforeSummary => disk[i].summary = Absent
        /\ stage[i] \in {"prepare", "session", "evaluate", "measure", "summary"} =>
              disk[i].config = "whole"
        /\ stage[i] \in {"measure", "summary"} => disk[i].tests = "whole"
        /\ stage[i] = "summary" => disk[i].metrics = "whole"
        /\ disk[i].summary \notin {Absent, "error"} =>
              disk[i].config = "whole" /\ disk[i].tests = "whole" /\ disk[i].metrics = "whole"

\* Nothing is skipped before the trip, and no run fails with the name of the
\* budget's own error; past the setup the lanes have been opened.
GateKept ==
    /\ \A i \in Items :
          /\ stage[i] \in {"skip_init", "skip_summary"} => aborted
          /\ failure[i] # "BudgetExceededError"
    /\ phase \notin {"setup", "rejected"} => Launched

\* An entry reports when it is done.  The summary of a completed run says what
\* the report says; an entry that fails with a summary already written, or is
\* reported with one, needed a failure, or two.
SummaryTells(i) ==
    /\ stage[i] \notin {"done", "missed"} => report[i] = Absent
    /\ stage[i] = "missed" =>
          disk[i].summary = Absent /\ (report[i] # Absent => report[i].status = "error")
    /\ stage[i] \in {"config", "prepare", "session", "evaluate", "measure", "summary", "release"} =>
          disk[i].dir
    /\ stage[i] = "release" => disk[i].summary = DeriveStatus(outcome[i])
    /\ stage[i] \in {"unwind", "catch"} => disk[i].summary = Absent \/ faults >= 1
    /\ stage[i] = "done" /\ report[i].status # "error" =>
          disk[i].summary = report[i].status /\ disk[i].dir
    /\ stage[i] = "done" /\ report[i].status = "error" =>
          disk[i].summary \in {Absent, "error"} \/ faults >= 2

SummariesKept == \A i \in Items : SummaryTells(i)

RunStages ==
    {"mkdir", "config", "prepare", "session", "evaluate", "measure", "summary", "release"}

\* A run that got past its definitions found both of them, and one that failed
\* to load found a rejected promise; a settled promise stays what it is.
LoadTells(i) ==
    /\ stage[i] = "await_scenario" => cache[ProfileOf[i]] = "ready"
    /\ stage[i] \in RunStages => \A d \in Needs(i) : cache[d] = "ready"
    /\ failure[i] = "LoadError" => \E d \in Needs(i) : cache[d] = "rejected"
    /\ report[i] # Absent =>
          /\ report[i].status # "error" => \A d \in Needs(i) : cache[d] = "ready"
          /\ report[i].error = "LoadError" => \E d \in Needs(i) : cache[d] = "rejected"

LoadsKept == \A i \in Items : LoadTells(i)

\* The manifest is the reports', and a table is of the directories there are.
RowsOfDirs == [i \in RunDirs |-> RowOf(disk[i])]

CloseKept ==
    /\ phase \in {"emit_csv", "emit_jsonl", "returned"} => manifest # Absent
    /\ manifest # Absent => Closed /\ \A i \in Items : manifest[i] = report[i].status
    /\ \A tag \in {"csv", "jsonl"} : tables[tag] # Absent =>
          manifest # Absent /\ tables[tag] = RowsOfDirs

\* What the spec asks for is written whole as long as nothing failed.
OutputsKept ==
    /\ phase # "rejected" => torn = {}
    /\ phase \in {"emit_jsonl", "returned"} /\ "csv" \in Emit => tables["csv"] # Absent
    /\ phase = "returned" /\ "jsonl" \in Emit => tables["jsonl"] # Absent

IInv ==
    /\ TypeOK /\ PoolIInv /\ Accounted /\ ReportsKept /\ BudgetKept /\ ArtifactsKept
    /\ GateKept /\ SummariesKept /\ LoadsKept /\ CloseKept /\ OutputsKept

-----------------------------------------------------------------------------
(* Facts about the constants and the operators. *)

\* What is billed for a session lies between nothing and MaxCost.
LEMMA BilledBound ==
    ASSUME NEW o \in Outcomes \cup {Absent}
    PROVE  Billed(o) \in Nat /\ Billed(o) <= MaxCost
BY MatrixAssumption DEF Billed, OutcomeSet

\* A status is derived from every outcome, and it is never "error".
LEMMA StatusType ==
    ASSUME NEW o \in Outcomes
    PROVE  DeriveStatus(o) \in Statuses /\ DeriveStatus(o) # "error"
BY MatrixAssumption DEF DeriveStatus, OutcomeSet, Statuses

LEMMA SomeLane == Concurrency \in Nat \ {0} /\ 1 \in Lanes
BY MatrixAssumption, PoolAssumption DEF Concurrency, Lanes

\* Multiplication by MaxCost, in the three forms the budget needs.
LEMMA CostArithmetic ==
    ASSUME NEW m \in Nat, NEW n \in Nat
    PROVE  /\ m * MaxCost \in Nat
           /\ m <= n => m * MaxCost <= n * MaxCost
           /\ (m + 1) * MaxCost = m * MaxCost + MaxCost
<1>1. MaxCost \in Nat
  BY MatrixAssumption
<1>2. m * MaxCost \in Nat
  BY <1>1
<1>3. (m + 1) * MaxCost = m * MaxCost + MaxCost
  BY <1>1
<1>4. ASSUME m <= n PROVE m * MaxCost <= n * MaxCost
  <2>1. PICK k \in Nat : n = m + k
    BY <1>4
  <2>2. n * MaxCost = m * MaxCost + k * MaxCost /\ k * MaxCost \in Nat
    BY <1>1, <2>1
  <2> QED
    BY <1>1, <1>2, <2>2
<1> QED
  BY <1>2, <1>3, <1>4

\* Each entry under way has a lane of its own.
LEMMA PaidBound ==
    ASSUME TypeOK, Accounted
    PROVE  /\ IsFiniteSet(Paid)
           /\ Cardinality(Paid) \in Nat
           /\ Cardinality(Paid) <= Concurrency
<1>1. IsFiniteSet(Items)
  BY PoolAssumption, FS_Interval DEF Items
<1>2. IsFiniteSet(Paid)
  BY <1>1, FS_Subset DEF Paid
<1>3. Cardinality(Paid) \in Nat
  BY <1>2, FS_CardinalityType
<1>4. \A i \in Paid : \E l \in Lanes : lane[l] = i
  BY DEF Paid, PaidStages, Accounted
<1> DEFINE f == [i \in Paid |-> CHOOSE l \in Lanes : lane[l] = i]
<1>5. f \in [Paid -> Lanes] /\ \A i \in Paid : lane[f[i]] = i
  BY <1>4
<1> HIDE DEF f
<1>6. ASSUME Cardinality(Lanes) < Cardinality(Paid) PROVE FALSE
  <2>0. IsFiniteSet(Lanes) /\ f \in [Paid -> Lanes]
    BY <1>5, LanesFinite
  <2>1. \E x, y \in Paid : x # y /\ f[x] = f[y]
    BY <1>2, <1>6, <2>0, FS_PigeonHole
  <2> QED
    BY <1>5, <2>1
<1> QED
  BY <1>2, <1>3, <1>6, LanesFinite, ConcurrencyBound

-----------------------------------------------------------------------------
(* Every step of the matrix is a step of the pool, or leaves it alone. *)

LEMMA EntryFrame ==
    ASSUME NEW i \in Items, EntryStep(i)
    PROVE  UNCHANGED <<phase, poolVars, manifest, tables, torn>>
BY DEF EntryStep, StartHookThrows, SkipStep, SkipInit, SkipSummary, SkipFails, LoadStep,
    RequestProfile, RequestScenario, EnterRun, LoadFailed, RunStep, MakeRunDir, WriteConfig,
    Prepare, SessionEnds, Evaluate, Measure, Summarise, RunFails, Unwind, EndStep, Complete,
    Catch, CatchFails, budgetVars, closeVars, entryVars

LEMMA StepsOfPool == Next => [PoolNext]_poolVars
<1> SUFFICES ASSUME Next PROVE [PoolNext]_poolVars
  OBVIOUS
<1>1. CASE OpenPool
  BY <1>1 DEF OpenPool, PoolNext
<1>2. CASE SetupFails
  BY <1>2 DEF SetupFails
<1>3. CASE CloseStep
  BY <1>3 DEF CloseStep, CloseReports, WriteManifest, CloseFails, EmitTable
<1>4. ASSUME NEW l \in Lanes, LaneStep(l) PROVE PoolNext
  BY <1>4 DEF LaneStep, TakeEntry, ReturnLane, ExitLane, PoolStep, PoolNext
<1>5. ASSUME NEW i \in Items, EntryStep(i) PROVE UNCHANGED poolVars
  BY <1>5, EntryFrame
<1>6. ASSUME NEW d \in Defs, LoadSettles(d) PROVE UNCHANGED poolVars
  BY <1>6 DEF LoadSettles, DefinitionLoads, DefinitionRejects
<1> QED
  BY <1>1, <1>2, <1>3, <1>4, <1>5, <1>6 DEF Next

-----------------------------------------------------------------------------
(* Type correctness. *)

LEMMA Names ==
    /\ {"torn", "whole", "none"} \subseteq FileStates
    /\ {"torn", "clipped", "whole", "none"} \subseteq ConfigStates
    /\ "error" \in Statuses
    /\ {"LoadError", "RunError", "TokenOverflowError", "BudgetExceededError"} \subseteq ErrorNames
BY DEF FileStates, ConfigStates, Statuses, ErrorNames

LEMMA GotoType ==
    ASSUME TypeOK, NEW i \in Items, NEW s \in Stages, Goto(i, s)
    PROVE  stage' \in [Items -> Stages]
BY DEF TypeOK, Goto

LEMMA FailedType ==
    ASSUME TypeOK, NEW i \in Items, NEW e \in ErrorNames \cup {Absent}, Report(i, Failed(e))
    PROVE  /\ stage' \in [Items -> Stages]
           /\ report' \in [Items -> [status : Statuses, error : ErrorNames \cup {Absent}]
                                     \cup {Absent}]
<1>1. "done" \in Stages
  BY DEF Stages
<1> QED
  BY <1>1, GotoType, Names DEF Report, Failed, TypeOK

LEMMA PartialType ==
    ASSUME TypeOK, NEW i \in Items
    PROVE  PartialInit(i) \subseteq Directories /\ LeftBy(i) \subseteq Directories
<1>1. disk[i] \in Directories
  BY DEF TypeOK
<1>2. PartialInit(i) \subseteq Directories
  BY <1>1, Names DEF PartialInit, Directories
<1> QED
  BY <1>1, <1>2, Names DEF LeftBy, Directories

\* Each action of an entry moves its own stage, to one of the stages.
LEMMA EntryGoes ==
    ASSUME NEW i \in Items, EntryStep(i)
    PROVE  \E s \in Stages : Goto(i, s)
<1>1. CASE StartHookThrows(i)
  BY <1>1 DEF StartHookThrows, Stages
<1>2. CASE SkipStep(i)
  BY <1>2 DEF SkipStep, SkipInit, SkipSummary, SkipFails, Report, Stages
<1>3. CASE LoadStep(i)
  BY <1>3 DEF LoadStep, RequestProfile, RequestScenario, EnterRun, LoadFailed, Stages
<1>4. CASE RunStep(i)
  <2>1. CASE \E o \in Outcomes : SessionEnds(i, o)
    BY <2>1 DEF SessionEnds, Stages
  <2>2. CASE RunFails(i)
    BY <2>2 DEF RunFails, Stages
  <2> QED
    BY <1>4, <2>1, <2>2 DEF RunStep, MakeRunDir, WriteConfig, Prepare, Evaluate, Measure,
        Summarise, Unwind, Stages
<1>5. CASE EndStep(i)
  BY <1>5 DEF EndStep, Complete, Catch, CatchFails, Report, Stages
<1> QED
  BY <1>1, <1>2, <1>3, <1>4, <1>5 DEF EntryStep

\* The run directory stays a run directory.
LEMMA EntryDisk ==
    ASSUME TypeOK, ReportsKept, NEW i \in Items, EntryStep(i)
    PROVE  disk' \in [Items -> Directories]
<1> USE Names
<1>0. disk \in [Items -> Directories]
  BY DEF TypeOK
<1>1. CASE StartHookThrows(i) \/ LoadStep(i)
  BY <1>0, <1>1 DEF StartHookThrows, LoadStep, RequestProfile, RequestScenario, EnterRun, LoadFailed
<1>2. CASE SkipInit(i)
  <2> DEFINE made == [disk EXCEPT ![i].dir = TRUE]
  <2>1. made \in [Items -> Directories]
    BY <1>0 DEF Directories
  <2>2. disk' = [made EXCEPT ![i].config = "whole"]
    BY <1>2 DEF SkipInit
  <2> QED
    BY <2>1, <2>2 DEF Directories
<1>3. CASE SkipSummary(i)
  BY <1>0, <1>3 DEF SkipSummary, Directories
<1>4. CASE SkipFails(i)
  BY <1>0, <1>4, PartialType DEF SkipFails
<1>5. CASE RunFails(i)
  BY <1>0, <1>5, PartialType DEF RunFails
<1>6. CASE Summarise(i)
  <2>1. DeriveStatus(outcome[i]) \in Statuses
    BY <1>6, StatusType DEF Summarise, ReportsKept
  <2> QED
    BY <1>0, <1>6, <2>1 DEF Summarise, Directories
<1>7. CASE RunStep(i) /\ ~RunFails(i) /\ ~Summarise(i)
  <2>1. CASE MakeRunDir(i)
    BY <1>0, <2>1 DEF MakeRunDir, Directories
  <2>2. CASE WriteConfig(i)
    BY <1>0, <2>2 DEF WriteConfig, Directories
  <2>3. CASE Evaluate(i)
    BY <1>0, <2>3 DEF Evaluate, Directories
  <2>4. CASE Measure(i)
    BY <1>0, <2>4 DEF Measure, Directories
  <2>5. CASE Prepare(i) \/ Unwind(i) \/ \E o \in Outcomes : SessionEnds(i, o)
    BY <1>0, <2>5 DEF Prepare, SessionEnds, Unwind
  <2> QED
    BY <1>7, <2>1, <2>2, <2>3, <2>4, <2>5 DEF RunStep
<1>8. CASE Catch(i)
  <2> DEFINE made == [disk EXCEPT ![i].dir = TRUE]
  <2>1. made \in [Items -> Directories]
    BY <1>0 DEF Directories
  <2>2. disk' = [made EXCEPT ![i].summary = "error"]
    BY <1>8 DEF Catch
  <2> QED
    BY <2>1, <2>2 DEF Directories
<1>9. CASE Complete(i)
  BY <1>0, <1>9 DEF Complete
<1>10. CASE CatchFails(i)
  <2>1. PICK made \in {disk[i].dir, TRUE} : disk' = [disk EXCEPT ![i].dir = made]
    BY <1>10 DEF CatchFails
  <2>2. made \in BOOLEAN
    BY <1>0, <2>1 DEF Directories
  <2> QED
    BY <1>0, <2>1, <2>2 DEF Directories
<1> QED
  BY <1>1, <1>2, <1>3, <1>4, <1>5, <1>6, <1>7, <1>8, <1>9, <1>10
  DEF EntryStep, SkipStep, EndStep

\* What an entry notes about itself: outcome, error and report.
LEMMA EntryNotes ==
    ASSUME TypeOK, ReportsKept, NEW i \in Items, EntryStep(i)
    PROVE  /\ outcome' \in [Items -> Outcomes \cup {Absent}]
           /\ failure' \in [Items -> ErrorNames \cup {Absent}]
           /\ report' \in [Items -> [status : Statuses, error : ErrorNames \cup {Absent}]
                                     \cup {Absent}]
<1> USE Names
<1>1. CASE StartHookThrows(i) \/ SkipInit(i)
  BY <1>1 DEF StartHookThrows, SkipInit, TypeOK
<1>2. CASE SkipSummary(i) \/ SkipFails(i)
  BY <1>2, FailedType DEF SkipSummary, SkipFails, TypeOK
<1>3. CASE LoadStep(i)
  BY <1>3 DEF LoadStep, RequestProfile, RequestScenario, EnterRun, LoadFailed, TypeOK
<1>4. CASE RunStep(i)
  BY <1>4 DEF RunStep, MakeRunDir, WriteConfig, Prepare, SessionEnds, Evaluate, Measure,
      Summarise, RunFails, Unwind, TypeOK
<1>5. CASE Complete(i)
  <2>1. DeriveStatus(outcome[i]) \in Statuses
    BY <1>5, StatusType DEF Complete, ReportsKept
  <2> QED
    BY <1>5, <2>1 DEF Complete, Report, Succeeded, TypeOK
<1>6. CASE Catch(i) \/ CatchFails(i)
  <2>1. failure[i] \in ErrorNames \cup {Absent}
    BY DEF TypeOK
  <2> QED
    BY <1>6, <2>1, FailedType DEF Catch, CatchFails, TypeOK
<1> QED
  BY <1>1, <1>2, <1>3, <1>4, <1>5, <1>6 DEF EntryStep, SkipStep, EndStep

\* Shared state an entry may touch: caches, budget, failures.
LEMMA EntryShared ==
    ASSUME TypeOK, NEW i \in Items, EntryStep(i)
    PROVE  /\ cache' \in [Defs -> {"absent", "loading", "ready", "rejected"}]
           /\ cumulative' \in Nat /\ aborted' \in BOOLEAN /\ spent' \in Nat
           /\ faults' \in 0..MaxFaults
<1> USE MatrixAssumption DEF TypeOK, MayFail, budgetVars
<1>1. CASE StartHookThrows(i) \/ SkipStep(i)
  BY <1>1 DEF StartHookThrows, SkipStep, SkipInit, SkipSummary, SkipFails
<1>2. CASE LoadStep(i)
  BY <1>2 DEF LoadStep, RequestProfile, RequestScenario, EnterRun, LoadFailed, Requested
<1>3. CASE RunStep(i)
  BY <1>3 DEF RunStep, MakeRunDir, WriteConfig, Prepare, SessionEnds, Evaluate, Measure,
      Summarise, RunFails, Unwind
<1>4. CASE EndStep(i)
  <2>1. Billed(outcome[i]) \in Nat
    BY BilledBound
  <2>2. CASE Complete(i)
    <3>1. cumulative' = cumulative + Billed(outcome[i])
      BY <2>2 DEF Complete, RecordRun
    <3>2. aborted' \in BOOLEAN
      BY <2>2 DEF Complete, RecordRun
    <3>3. UNCHANGED <<cache, faults>> /\ spent' = spent + Billed(outcome[i])
      BY <2>2 DEF Complete
    <3> QED
      BY <2>1, <3>1, <3>2, <3>3
  <2>3. CASE Catch(i)
    BY <2>1, <2>3 DEF Catch
  <2>4. CASE CatchFails(i)
    BY <2>1, <2>4 DEF CatchFails
  <2> QED
    BY <1>4, <2>2, <2>3, <2>4 DEF EndStep
<1> QED
  BY <1>1, <1>2, <1>3, <1>4 DEF EntryStep

LEMMA EntryType ==
    ASSUME TypeOK, ReportsKept, NEW i \in Items, EntryStep(i)
    PROVE  TypeOK'
<1>1. PoolTypeOK'
  BY EntryFrame DEF poolVars, PoolTypeOK, TypeOK
<1>2. stage' \in [Items -> Stages]
  BY EntryGoes, GotoType
<1>3. UNCHANGED <<phase, manifest, tables, torn>>
  BY EntryFrame
<1> QED
  BY <1>1, <1>2, <1>3, EntryDisk, EntryNotes, EntryShared DEF TypeOK

\* The rows of the directories there are make a table.
LEMMA RowsOfDirsType == RowsOfDirs \in Tables /\ RowsOfDirs # Absent
<1>1. \A i \in RunDirs : RowOf(disk[i]) \in Rows
  BY DEF RowOf, Rows
<1>2. RowsOfDirs \in [RunDirs -> Rows]
  BY <1>1 DEF RowsOfDirs
<1>3. RunDirs \in SUBSET Items
  BY DEF RunDirs
<1> QED
  BY <1>2, <1>3, AbsentAssumption DEF Tables

\* Opening and closing the pool, its lanes and the loads.
LEMMA OtherType ==
    ASSUME TypeOK, PoolIInv, ReportsKept, PoolIInv',
           \/ OpenPool \/ SetupFails \/ CloseStep
           \/ \E l \in Lanes : LaneStep(l)
           \/ \E d \in Defs : LoadSettles(d)
    PROVE  TypeOK'
<1> USE Names
<1>1. PoolTypeOK'
  <2>1. (PoolIInv => PoolTypeOK)'
    BY PoolTypeFromIInv, PTL
  <2> QED
    BY <2>1
<1>2. {"todo", "profile", "skip_init"} \subseteq Stages /\ Gate \in Stages
  BY DEF Stages, Gate
<1>3. CASE OpenPool
  BY <1>1, <1>2, <1>3 DEF OpenPool, TypeOK, budgetVars, closeVars
<1>4. CASE SetupFails
  BY <1>1, <1>4, MatrixAssumption DEF SetupFails, MayFail, TypeOK, entryVars, budgetVars, closeVars
<1>5. CASE \E l \in Lanes : LaneStep(l)
  <2>1. PICK l \in Lanes : LaneStep(l)
    BY <1>5
  <2>2. stage' \in [Items -> Stages]
    BY <1>2, <2>1 DEF LaneStep, TakeEntry, ReturnLane, ExitLane, Goto, TypeOK, entryVars
  <2>3. UNCHANGED <<phase, cache, outcome, failure, disk, report, budgetVars, closeVars, faults>>
    BY <2>1 DEF LaneStep, TakeEntry, ReturnLane, ExitLane, entryVars
  <2> QED
    BY <1>1, <2>2, <2>3 DEF TypeOK, budgetVars, closeVars
<1>6. CASE \E d \in Defs : LoadSettles(d)
  <2>1. UNCHANGED <<phase, poolVars, stage, outcome, failure, disk, report, budgetVars, closeVars>>
    BY <1>6 DEF LoadSettles, DefinitionLoads, DefinitionRejects
  <2>2. /\ cache' \in [Defs -> {"absent", "loading", "ready", "rejected"}]
        /\ faults' \in 0..MaxFaults
    BY <1>6, MatrixAssumption DEF LoadSettles, DefinitionLoads, DefinitionRejects, MayFail, TypeOK
  <2> QED
    BY <1>1, <2>1, <2>2 DEF TypeOK, budgetVars, closeVars
<1>7. CASE CloseReports
  <2>1. report' \in [Items -> [status : Statuses, error : ErrorNames \cup {Absent}] \cup {Absent}]
    BY <1>7 DEF CloseReports, Failed, ErrorNames, TypeOK
  <2> QED
    BY <1>1, <1>7, <2>1 DEF CloseReports, TypeOK, budgetVars, closeVars
<1>8. CASE WriteManifest
  <2>1. \A i \in Items : report[i].status \in Statuses
    BY <1>8 DEF WriteManifest, ReportsKept, Closed, TypeOK
  <2>2. manifest' \in [Items -> Statuses]
    BY <1>8, <2>1 DEF WriteManifest
  <2> QED
    BY <1>1, <1>8, <2>2 DEF WriteManifest, TypeOK, entryVars, budgetVars
<1>9. CASE CloseFails
  <2>1. torn' \subseteq {"manifest", "csv", "jsonl"}
    <3>1. Emit \subseteq {"csv", "jsonl"} /\ torn \subseteq {"manifest", "csv", "jsonl"}
      BY MatrixAssumption DEF TypeOK
    <3>2. torn' = torn \/ \E f \in Emit \cup {"manifest"} : torn' = torn \cup {f}
      BY <1>9 DEF CloseFails
    <3> QED
      BY <3>1, <3>2
  <2>2. UNCHANGED <<entryVars, budgetVars, manifest, tables>> /\ phase' = "rejected"
    BY <1>9 DEF CloseFails
  <2>3. faults' \in 0..MaxFaults
    BY <1>9, MatrixAssumption DEF CloseFails, MayFail, TypeOK
  <2> QED
    BY <1>1, <2>1, <2>2, <2>3 DEF TypeOK, entryVars, budgetVars
<1>10. ASSUME NEW tag \in {"csv", "jsonl"}, EmitTable(tag) PROVE TypeOK'
  <2>1. phase' \in {"emit_jsonl", "returned", "rejected"}
    BY <1>10 DEF EmitTable, AfterEmit
  <2>3. tables' \in [{"csv", "jsonl"} -> Tables \cup {Absent}]
    BY <1>10, RowsOfDirsType DEF EmitTable, RowsOfDirs, TypeOK
  <2>4. UNCHANGED <<entryVars, budgetVars, manifest, torn, faults>>
    BY <1>10 DEF EmitTable
  <2> QED
    BY <1>1, <2>1, <2>3, <2>4 DEF TypeOK, entryVars, budgetVars
<1> QED
  BY <1>3, <1>4, <1>5, <1>6, <1>7, <1>8, <1>9, <1>10 DEF CloseStep

-----------------------------------------------------------------------------
(* The other parts of the invariant, over the steps of an entry. *)

LEMMA EntryAccounted ==
    ASSUME TypeOK, Accounted, NEW i \in Items, EntryStep(i)
    PROVE  Accounted'
<1>1. UNCHANGED <<phase, poolVars>>
  BY EntryFrame
<1>2. stage[i] \notin {"todo", "done", "missed"}
  BY DEF EntryStep, StartHookThrows, SkipStep, SkipInit, SkipSummary, SkipFails, LoadStep,
      RequestProfile, RequestScenario, EnterRun, LoadFailed, RunStep, MakeRunDir, WriteConfig,
      Prepare, SessionEnds, Evaluate, Measure, Summarise, RunFails, Unwind, EndStep, Complete,
      Catch, CatchFails
<1>3. stage'[i] # "todo"
  BY DEF EntryStep, StartHookThrows, SkipStep, SkipInit, SkipSummary, SkipFails, LoadStep,
      RequestProfile, RequestScenario, EnterRun, LoadFailed, RunStep, MakeRunDir, WriteConfig,
      Prepare, SessionEnds, Evaluate, Measure, Summarise, RunFails, Unwind, EndStep, Complete,
      Catch, CatchFails, Goto, Report, TypeOK
<1>4. \A j \in Items \ {i} : stage'[j] = stage[j]
  BY EntryGoes DEF Goto, TypeOK
<1> QED
  BY <1>1, <1>2, <1>3, <1>4 DEF Accounted, poolVars, Launched

LEMMA EntryArtifacts ==
    ASSUME TypeOK, ReportsKept, ArtifactsKept, NEW i \in Items, EntryStep(i)
    PROVE  ArtifactsKept'
<1>1. \A j \in Items \ {i} : stage'[j] = stage[j] /\ disk'[j] = disk[j]
  <2>1. \A j \in Items \ {i} : stage'[j] = stage[j]
    BY EntryGoes DEF Goto, TypeOK
  <2>2. \A j \in Items \ {i} : disk'[j] = disk[j]
    BY DEF EntryStep, StartHookThrows, SkipStep, SkipInit, SkipSummary, SkipFails, LoadStep,
      RequestProfile, RequestScenario, EnterRun, LoadFailed, RunStep, MakeRunDir, WriteConfig,
      Prepare, SessionEnds, Evaluate, Measure, Summarise, RunFails, Unwind, EndStep, Complete,
      Catch, CatchFails, TypeOK
  <2> QED
    BY <2>1, <2>2
<1> DEFINE Kept(st, d) ==
        /\ st \in BeforeSummary => d.summary = Absent
        /\ st \in {"prepare", "session", "evaluate", "measure", "summary"} => d.config = "whole"
        /\ st \in {"measure", "summary"} => d.tests = "whole"
        /\ st = "summary" => d.metrics = "whole"
        /\ d.summary \notin {Absent, "error"} =>
              d.config = "whole" /\ d.tests = "whole" /\ d.metrics = "whole"
<1>2. \A j \in Items : Kept(stage[j], disk[j])
  BY DEF ArtifactsKept
<1>3. Kept(stage'[i], disk'[i])
  <2> USE DEF TypeOK, Directories, Goto, Report, BeforeSummary
  <2>0. \A left \in PartialInit(i) : left.summary = disk[i].summary
    BY DEF PartialInit
  <2>1. CASE StartHookThrows(i) \/ SkipStep(i)
    <3>1. CASE StartHookThrows(i) \/ SkipSummary(i)
      BY <1>2, <3>1 DEF StartHookThrows, SkipSummary
    <3>2. CASE SkipInit(i)
      BY <1>2, <3>2 DEF SkipInit
    <3>3. CASE SkipFails(i)
      <4>1. disk'[i].summary = Absent /\ stage'[i] = "done"
        BY <1>2, <2>0, <3>3 DEF SkipFails
      <4> QED
        BY <4>1
    <3> QED
      BY <2>1, <3>1, <3>2, <3>3 DEF SkipStep
  <2>2. CASE LoadStep(i)
    BY <1>2, <2>2 DEF LoadStep, RequestProfile, RequestScenario, EnterRun, LoadFailed
  <2>3. CASE MakeRunDir(i) \/ WriteConfig(i) \/ Prepare(i)
    BY <1>2, <2>3 DEF MakeRunDir, WriteConfig, Prepare
  <2>4. CASE Unwind(i) \/ \E o \in Outcomes : SessionEnds(i, o)
    BY <1>2, <2>4 DEF SessionEnds, Unwind
  <2>5. CASE Evaluate(i) \/ Measure(i)
    BY <1>2, <2>5 DEF Evaluate, Measure
  <2>6. CASE Summarise(i)
    BY <1>2, <2>6 DEF Summarise
  <2>7. CASE RunFails(i)
    <3>1. stage'[i] \in {"unwind", "catch"}
      BY <2>7 DEF RunFails
    <3>2. PICK left \in LeftBy(i) : disk' = [disk EXCEPT ![i] = left]
      BY <2>7 DEF RunFails
    <3>3. disk'[i] = left
      BY <3>2
    <3>4. CASE stage[i] \in {"mkdir", "config", "evaluate", "measure"}
      <4>1. disk[i].summary = Absent
        BY <1>2, <3>4
      <4>2. left.summary = disk[i].summary
        BY <2>0, <3>2, <3>4 DEF LeftBy
      <4> QED
        BY <3>1, <3>3, <4>1, <4>2
    <3>5. CASE stage[i] \notin {"mkdir", "config", "evaluate", "measure"}
      <4>1. left = disk[i]
        BY <3>2, <3>5 DEF LeftBy
      <4> QED
        BY <1>2, <3>1, <3>3, <4>1
    <3> QED
      BY <3>4, <3>5
  <2>8. CASE EndStep(i)
    BY <1>2, <2>8 DEF EndStep, Complete, Catch, CatchFails
  <2> QED
    BY <2>1, <2>2, <2>3, <2>4, <2>5, <2>6, <2>7, <2>8 DEF EntryStep, RunStep
<1>4. \A j \in Items : Kept(stage'[j], disk'[j])
  BY <1>1, <1>2, <1>3
<1> QED
  BY <1>4 DEF ArtifactsKept

LEMMA EntryReports ==
    ASSUME TypeOK, ReportsKept, NEW i \in Items, EntryStep(i)
    PROVE  ReportsKept'
<1>1. UNCHANGED <<phase, poolVars>>
  BY EntryFrame
<1>2. ~Closed /\ ~Closed'
  BY <1>1 DEF ReportsKept, Closed, poolVars, Launched,
      EntryStep, StartHookThrows, SkipStep, SkipInit, SkipSummary, SkipFails, LoadStep,
      RequestProfile, RequestScenario, EnterRun, LoadFailed, RunStep, MakeRunDir, WriteConfig,
      Prepare, SessionEnds, Evaluate, Measure, Summarise, RunFails, Unwind, EndStep, Complete,
      Catch, CatchFails
<1>3. \A j \in Items \ {i} : stage'[j] = stage[j]
  BY EntryGoes DEF Goto, TypeOK
<1>4. \A j \in Items \ {i} :
         outcome'[j] = outcome[j] /\ failure'[j] = failure[j] /\ report'[j] = report[j]
  BY DEF EntryStep, StartHookThrows, SkipStep, SkipInit, SkipSummary, SkipFails, LoadStep,
      RequestProfile, RequestScenario, EnterRun, LoadFailed, RunStep, MakeRunDir, WriteConfig,
      Prepare, SessionEnds, Evaluate, Measure, Summarise, RunFails, Unwind, EndStep, Complete,
      Catch, CatchFails, Report, TypeOK
<1>5. failure'[i] # "PoolMissError"
  BY DEF ReportsKept, EntryStep, StartHookThrows, SkipStep, SkipInit, SkipSummary, SkipFails,
      LoadStep, RequestProfile, RequestScenario, EnterRun, LoadFailed, RunStep, MakeRunDir,
      WriteConfig, Prepare, SessionEnds, Evaluate, Measure, Summarise, RunFails, Unwind, EndStep,
      Complete, Catch, CatchFails, TypeOK
<1>6. stage'[i] \in {"evaluate", "measure", "summary", "release"} => outcome'[i] \in Outcomes
  <2> USE DEF TypeOK, Goto, Report
  <2>1. CASE StartHookThrows(i) \/ SkipStep(i) \/ LoadStep(i) \/ EndStep(i)
    BY <2>1 DEF StartHookThrows, SkipStep, SkipInit, SkipSummary, SkipFails, LoadStep,
      RequestProfile, RequestScenario, EnterRun, LoadFailed, EndStep, Complete, Catch, CatchFails
  <2>2. CASE RunStep(i)
    BY <2>2 DEF ReportsKept, RunStep, MakeRunDir, WriteConfig, Prepare, SessionEnds, Evaluate,
      Measure, Summarise, RunFails, Unwind
  <2> QED
    BY <2>1, <2>2 DEF EntryStep
<1>7. stage'[i] = "done" => report'[i] # Absent /\ report'[i].error # "PoolMissError"
  <2> USE AbsentAssumption, Names DEF TypeOK, Goto, Report
  <2>1. CASE SkipSummary(i) \/ SkipFails(i)
    BY <2>1 DEF SkipSummary, SkipFails, Failed
  <2>2. CASE StartHookThrows(i) \/ SkipInit(i) \/ LoadStep(i)
    BY <2>2 DEF StartHookThrows, SkipInit, LoadStep, RequestProfile, RequestScenario, EnterRun,
      LoadFailed
  <2>3. CASE RunStep(i)
    BY <2>3 DEF RunStep, MakeRunDir, WriteConfig, Prepare, SessionEnds, Evaluate,
      Measure, Summarise, RunFails, Unwind
  <2>4. CASE Complete(i)
    <3>1. DeriveStatus(outcome[i]) \in Statuses /\ "PoolMissError" \in ErrorNames
      BY <2>4, StatusType DEF Complete, ReportsKept, ErrorNames
    <3> QED
      BY <2>4, <3>1 DEF Complete, Succeeded
  <2>5. CASE Catch(i) \/ CatchFails(i)
    BY <2>5 DEF Catch, CatchFails, Failed, ReportsKept
  <2> QED
    BY <2>1, <2>2, <2>3, <2>4, <2>5 DEF EntryStep, SkipStep, EndStep
<1> QED
  BY <1>2, <1>3, <1>4, <1>5, <1>6, <1>7 DEF ReportsKept

-----------------------------------------------------------------------------
(* The budget. *)

\* While the tracker has not moved, fewer entries under way keep the bound.
LEMMA BudgetShrinks ==
    ASSUME TypeOK, Accounted, BudgetKept, UNCHANGED <<cumulative, aborted>>,
           aborted => Paid' \subseteq Paid
    PROVE  BudgetKept'
<1>1. CASE ~aborted
  BY <1>1 DEF BudgetKept
<1>2. CASE aborted
  <2>1. Paid' \subseteq Paid
    BY <1>2
  <2>2. /\ Cardinality(Paid') \in Nat
        /\ Cardinality(Paid') <= Cardinality(Paid)
        /\ Cardinality(Paid) \in Nat
    BY <2>1, PaidBound, FS_Subset, FS_CardinalityType
  <2>3. /\ Cardinality(Paid') * MaxCost <= Cardinality(Paid) * MaxCost
        /\ Cardinality(Paid') * MaxCost \in Nat /\ Cardinality(Paid) * MaxCost \in Nat
        /\ Concurrency * MaxCost \in Nat
    BY <2>2, CostArithmetic, SomeLane
  <2> QED
    BY <1>2, <2>2, <2>3, SomeLane, MatrixAssumption DEF BudgetKept, TypeOK
<1> QED
  BY <1>1, <1>2 DEF TypeOK

\* The entry whose cost is recorded is under way no longer: what it adds to
\* the recorded cost it takes from what is outstanding.
LEMMA CompleteBudget ==
    ASSUME TypeOK, Accounted, BudgetKept, NEW i \in Items, Complete(i)
    PROVE  BudgetKept'
<1> DEFINE n == Cardinality(Paid)
           b == Billed(outcome[i])
<1>1. b \in Nat /\ b <= MaxCost
  BY BilledBound DEF TypeOK
<1>2. i \in Paid /\ Paid' = Paid \ {i}
  BY DEF Complete, Report, Goto, Paid, PaidStages, TypeOK
<1>3. IsFiniteSet(Paid) /\ n \in Nat /\ n <= Concurrency
  BY PaidBound
<1>4. Cardinality(Paid') = n - 1 /\ n - 1 \in Nat
  <2>1. Cardinality(Paid \ {i}) = n - 1 /\ IsFiniteSet(Paid \ {i})
    BY <1>2, <1>3, FS_RemoveElement
  <2>2. Cardinality(Paid \ {i}) \in Nat
    BY <2>1, FS_CardinalityType
  <2> QED
    BY <1>2, <2>1, <2>2
<1>5. n * MaxCost = (n - 1) * MaxCost + MaxCost /\ (n - 1) * MaxCost \in Nat
  <2>1. ((n - 1) + 1) * MaxCost = (n - 1) * MaxCost + MaxCost
    BY <1>4, CostArithmetic
  <2>2. (n - 1) + 1 = n
    BY <1>3
  <2> QED
    BY <1>4, <2>1, <2>2, CostArithmetic
<1>6. n * MaxCost <= Concurrency * MaxCost /\ Concurrency * MaxCost \in Nat /\ n * MaxCost \in Nat
  BY <1>3, SomeLane, CostArithmetic
<1>7. cumulative' = cumulative + b /\ (aborted' <=> (aborted \/ cumulative' >= Cap))
  BY DEF Complete, RecordRun
<1>8. cumulative + n * MaxCost < Cap + Concurrency * MaxCost
  <2>1. CASE aborted
    BY <2>1 DEF BudgetKept
  <2>2. CASE ~aborted
    BY <1>6, <2>2, MatrixAssumption DEF BudgetKept, TypeOK
  <2> QED
    BY <2>1, <2>2
<1>9. cumulative' + Cardinality(Paid') * MaxCost < Cap + Concurrency * MaxCost
  BY <1>1, <1>4, <1>5, <1>6, <1>7, <1>8, MatrixAssumption DEF TypeOK
<1>10. Cardinality(Paid') <= Concurrency - 1
  BY <1>3, <1>4, SomeLane
<1>11. ~aborted' => cumulative' < Cap
  BY <1>1, <1>7, MatrixAssumption DEF TypeOK
<1> QED
  BY <1>9, <1>10, <1>11 DEF BudgetKept

\* Only Complete moves the tracker, and no step of an entry starts another.
LEMMA EntryBudget ==
    ASSUME TypeOK, Accounted, BudgetKept, NEW i \in Items, EntryStep(i)
    PROVE  BudgetKept'
<1>1. CASE Complete(i)
  BY <1>1, CompleteBudget
<1>2. CASE ~Complete(i)
  <2>1. UNCHANGED <<cumulative, aborted>>
    BY <1>2 DEF EntryStep, StartHookThrows, SkipStep, SkipInit, SkipSummary, SkipFails, LoadStep,
      RequestProfile, RequestScenario, EnterRun, LoadFailed, RunStep, MakeRunDir, WriteConfig,
      Prepare, SessionEnds, Evaluate, Measure, Summarise, RunFails, Unwind, EndStep, Catch,
      CatchFails, budgetVars
  <2>2. \A j \in Items \ {i} : stage'[j] = stage[j]
    BY EntryGoes DEF Goto, TypeOK
  <2>3. stage'[i] \in PaidStages => stage[i] \in PaidStages
    BY <1>2 DEF PaidStages, EntryStep, StartHookThrows, SkipStep, SkipInit, SkipSummary,
      SkipFails, LoadStep, RequestProfile, RequestScenario, EnterRun, LoadFailed, RunStep,
      MakeRunDir, WriteConfig, Prepare, SessionEnds, Evaluate, Measure, Summarise, RunFails,
      Unwind, EndStep, Catch, CatchFails, Goto, Report, TypeOK
  <2>4. Paid' \subseteq Paid
    BY <2>2, <2>3 DEF Paid
  <2> QED
    BY <2>1, <2>4, BudgetShrinks
<1> QED
  BY <1>1, <1>2

-----------------------------------------------------------------------------
(* Summaries, definitions and the close, over the steps of an entry. *)

\* A step of an entry is its own: it leaves the others alone, and what it
\* touches that is shared only grows.
LEMMA EntryFrameOthers ==
    ASSUME TypeOK, NEW i \in Items, EntryStep(i)
    PROVE  /\ \A j \in Items \ {i} :
                 /\ stage'[j] = stage[j] /\ disk'[j] = disk[j] /\ outcome'[j] = outcome[j]
                 /\ failure'[j] = failure[j] /\ report'[j] = report[j]
           /\ aborted => aborted'
           /\ faults' \in {faults, faults + 1}
           /\ \A d \in Defs : cache[d] \in {"ready", "rejected"} => cache'[d] = cache[d]
<1>1. \A j \in Items \ {i} : stage'[j] = stage[j]
  BY EntryGoes DEF Goto, TypeOK
<1>2. \A j \in Items \ {i} : disk'[j] = disk[j]
  BY DEF EntryStep, StartHookThrows, SkipStep, SkipInit, SkipSummary, SkipFails, LoadStep,
      RequestProfile, RequestScenario, EnterRun, LoadFailed, RunStep, MakeRunDir, WriteConfig,
      Prepare, SessionEnds, Evaluate, Measure, Summarise, RunFails, Unwind, EndStep, Complete,
      Catch, CatchFails, TypeOK
<1>3. \A j \in Items \ {i} :
         outcome'[j] = outcome[j] /\ failure'[j] = failure[j] /\ report'[j] = report[j]
  BY DEF EntryStep, StartHookThrows, SkipStep, SkipInit, SkipSummary, SkipFails, LoadStep,
      RequestProfile, RequestScenario, EnterRun, LoadFailed, RunStep, MakeRunDir, WriteConfig,
      Prepare, SessionEnds, Evaluate, Measure, Summarise, RunFails, Unwind, EndStep, Complete,
      Catch, CatchFails, Report, TypeOK
<1>4. aborted => aborted'
  BY DEF EntryStep, StartHookThrows, SkipStep, SkipInit, SkipSummary, SkipFails, LoadStep,
      RequestProfile, RequestScenario, EnterRun, LoadFailed, RunStep, MakeRunDir, WriteConfig,
      Prepare, SessionEnds, Evaluate, Measure, Summarise, RunFails, Unwind, EndStep, Complete,
      RecordRun, Catch, CatchFails, budgetVars
<1>5. faults' \in {faults, faults + 1}
  BY DEF EntryStep, StartHookThrows, SkipStep, SkipInit, SkipSummary, SkipFails, LoadStep,
      RequestProfile, RequestScenario, EnterRun, LoadFailed, RunStep, MakeRunDir, WriteConfig,
      Prepare, SessionEnds, Evaluate, Measure, Summarise, RunFails, Unwind, EndStep, Complete,
      Catch, CatchFails
<1>6. \A d \in Defs : cache[d] \in {"ready", "rejected"} => cache'[d] = cache[d]
  <2>1. cache' = cache \/ \E d \in Defs : cache' = Requested(d)
    BY MatrixAssumption DEF EntryStep, StartHookThrows, SkipStep, SkipInit, SkipSummary, SkipFails,
      LoadStep, RequestProfile, RequestScenario, EnterRun, LoadFailed, RunStep, MakeRunDir,
      WriteConfig, Prepare, SessionEnds, Evaluate, Measure, Summarise, RunFails, Unwind, EndStep,
      Complete, Catch, CatchFails
  <2> QED
    BY <2>1 DEF Requested, TypeOK
<1> QED
  BY <1>1, <1>2, <1>3, <1>4, <1>5, <1>6

LEMMA EntryGate ==
    ASSUME TypeOK, GateKept, NEW i \in Items, EntryStep(i)
    PROVE  GateKept'
<1>1. UNCHANGED <<phase, poolVars>>
  BY EntryFrame
<1>2. /\ \A j \in Items \ {i} : stage'[j] = stage[j] /\ failure'[j] = failure[j]
      /\ aborted => aborted'
  BY EntryFrameOthers
<1>3. stage'[i] \in {"skip_init", "skip_summary"} => stage[i] = "skip_init"
  <2> USE DEF Goto, Report, TypeOK
  <2>1. CASE StartHookThrows(i) \/ SkipStep(i) \/ LoadStep(i) \/ EndStep(i)
    BY <2>1 DEF StartHookThrows, SkipStep, SkipInit, SkipSummary, SkipFails, LoadStep,
      RequestProfile, RequestScenario, EnterRun, LoadFailed, EndStep, Complete, Catch, CatchFails
  <2>2. CASE RunStep(i)
    BY <2>2 DEF RunStep, MakeRunDir, WriteConfig, Prepare, SessionEnds, Evaluate,
      Measure, Summarise, RunFails, Unwind
  <2> QED
    BY <2>1, <2>2 DEF EntryStep
<1>4. failure'[i] # "BudgetExceededError"
  BY DEF GateKept, EntryStep, StartHookThrows, SkipStep, SkipInit, SkipSummary, SkipFails,
      LoadStep, RequestProfile, RequestScenario, EnterRun, LoadFailed, RunStep, MakeRunDir,
      WriteConfig, Prepare, SessionEnds, Evaluate, Measure, Summarise, RunFails, Unwind, EndStep,
      Complete, Catch, CatchFails, TypeOK
<1> QED
  BY <1>1, <1>2, <1>3, <1>4 DEF GateKept, Launched, poolVars

\* The summary of the entry that moves.
LEMMA EntrySummaryOwn ==
    ASSUME TypeOK, ReportsKept, ArtifactsKept, SummariesKept, NEW i \in Items, EntryStep(i)
    PROVE  SummaryTells(i)'
<1> USE AbsentAssumption, Names, MatrixAssumption DEF TypeOK, Directories, Goto, Report
<1>0. SummaryTells(i)
  BY DEF SummariesKept
<1>a. stage[i] \in BeforeSummary => disk[i].summary = Absent
  BY DEF ArtifactsKept
<1>b. faults \in Nat
  OBVIOUS
<1>c. \A left \in PartialInit(i) : left.summary = disk[i].summary
  BY DEF PartialInit
<1>1. CASE StartHookThrows(i)
  <2>1. /\ stage[i] \in {"skip_init", "profile"} /\ stage'[i] = "missed"
        /\ UNCHANGED <<disk, report>>
    BY <1>1 DEF StartHookThrows
  <2> QED
    BY <1>0, <1>a, <2>1 DEF SummaryTells, BeforeSummary
<1>2. CASE SkipInit(i)
  <2>1. /\ stage[i] = "skip_init" /\ stage'[i] = "skip_summary" /\ UNCHANGED report
    BY <1>2 DEF SkipInit
  <2> QED
    BY <1>0, <2>1 DEF SummaryTells
<1>3. CASE SkipSummary(i) \/ SkipFails(i)
  <2>1. stage'[i] = "done" /\ report'[i] = Failed("BudgetExceededError")
    BY <1>3 DEF SkipSummary, SkipFails
  <2>2. disk'[i].summary \in {Absent, "error"}
    <3>1. CASE SkipSummary(i)
      BY <3>1 DEF SkipSummary
    <3>2. CASE SkipFails(i)
      BY <1>a, <1>c, <3>2 DEF SkipFails, BeforeSummary
    <3> QED
      BY <1>3, <3>1, <3>2
  <2> QED
    BY <2>1, <2>2 DEF SummaryTells, Failed
<1>4. CASE LoadStep(i)
  <2>1. /\ stage[i] \in {"profile", "await_profile", "await_scenario"}
        /\ stage'[i] \in {"await_profile", "await_scenario", "mkdir", "catch"}
        /\ UNCHANGED <<disk, report>>
    BY <1>4 DEF LoadStep, RequestProfile, RequestScenario, EnterRun, LoadFailed
  <2> QED
    BY <1>0, <1>a, <2>1 DEF SummaryTells, BeforeSummary
<1>5. CASE MakeRunDir(i)
  BY <1>0, <1>5 DEF MakeRunDir, SummaryTells
<1>6. CASE WriteConfig(i) \/ Prepare(i) \/ Evaluate(i) \/ Measure(i)
  <2>1. /\ stage[i] \in {"config", "prepare", "evaluate", "measure"}
        /\ stage'[i] \in {"prepare", "session", "measure", "summary"}
        /\ disk'[i].dir = disk[i].dir /\ UNCHANGED report
    BY <1>6 DEF WriteConfig, Prepare, Evaluate, Measure
  <2> QED
    BY <1>0, <2>1 DEF SummaryTells
<1>7. CASE \E o \in Outcomes : SessionEnds(i, o)
  <2>1. /\ stage[i] = "session" /\ stage'[i] \in {"unwind", "evaluate"}
        /\ UNCHANGED <<disk, report>>
    BY <1>7 DEF SessionEnds
  <2> QED
    BY <1>0, <1>a, <2>1 DEF SummaryTells, BeforeSummary
<1>8. CASE Summarise(i)
  <2>1. /\ stage[i] = "summary" /\ stage'[i] = "release" /\ UNCHANGED <<outcome, report>>
        /\ disk' = [disk EXCEPT ![i].summary = DeriveStatus(outcome[i])]
    BY <1>8 DEF Summarise
  <2>2. disk'[i].summary = DeriveStatus(outcome[i]) /\ disk'[i].dir = disk[i].dir
    BY <2>1
  <2> QED
    BY <1>0, <2>1, <2>2 DEF SummaryTells
<1>9. CASE RunFails(i)
  <2>1. /\ stage[i] \notin {"done", "missed"} /\ stage'[i] \in {"unwind", "catch"}
        /\ UNCHANGED report /\ faults' = faults + 1
    BY <1>9 DEF RunFails
  <2>2. faults' >= 1
    BY <1>b, <2>1
  <2> QED
    BY <1>0, <2>1, <2>2 DEF SummaryTells
<1>10. CASE Unwind(i)
  BY <1>0, <1>10 DEF Unwind, SummaryTells
<1>11. CASE Complete(i)
  <2>1. /\ stage[i] = "release" /\ stage'[i] = "done" /\ UNCHANGED disk
        /\ report'[i] = Succeeded(DeriveStatus(outcome[i]))
    BY <1>11 DEF Complete
  <2>2. DeriveStatus(outcome[i]) # "error"
    BY <2>1, StatusType DEF ReportsKept
  <2> QED
    BY <1>0, <2>1, <2>2 DEF SummaryTells, Succeeded
<1>12. CASE Catch(i)
  <2>1. /\ stage'[i] = "done" /\ report'[i] = Failed(failure[i]) /\ disk'[i].summary = "error"
    BY <1>12 DEF Catch
  <2> QED
    BY <2>1 DEF SummaryTells, Failed
<1>13. CASE CatchFails(i)
  <2>1. /\ stage[i] = "catch" /\ stage'[i] = "done" /\ report'[i] = Failed(failure[i])
        /\ disk'[i].summary = disk[i].summary /\ faults' = faults + 1
    BY <1>13 DEF CatchFails
  <2>2. disk[i].summary = Absent \/ faults >= 1
    BY <1>0, <2>1 DEF SummaryTells
  <2>3. disk'[i].summary = Absent \/ faults' >= 2
    BY <1>b, <2>1, <2>2
  <2> QED
    BY <2>1, <2>3 DEF SummaryTells, Failed
<1> QED
  BY <1>1, <1>2, <1>3, <1>4, <1>5, <1>6, <1>7, <1>8, <1>9, <1>10, <1>11, <1>12, <1>13
  DEF EntryStep, SkipStep, RunStep, EndStep

\* An entry whose own slots stand still keeps telling the truth: failures
\* only add up.
LEMMA SummaryStands ==
    ASSUME TypeOK, NEW j \in Items, SummaryTells(j),
           stage'[j] = stage[j], disk'[j] = disk[j], outcome'[j] = outcome[j],
           report'[j] = report[j], faults' \in {faults, faults + 1}
    PROVE  SummaryTells(j)'
<1>1. (faults >= 1 => faults' >= 1) /\ (faults >= 2 => faults' >= 2)
  BY MatrixAssumption DEF TypeOK
<1> QED
  BY <1>1 DEF SummaryTells

LEMMA EntrySummaries ==
    ASSUME TypeOK, ReportsKept, ArtifactsKept, SummariesKept, NEW i \in Items, EntryStep(i)
    PROVE  SummariesKept'
<1>1. SummaryTells(i)'
  BY EntrySummaryOwn
<1>2. ASSUME NEW j \in Items, j # i PROVE SummaryTells(j)'
  BY <1>2, SummaryStands, EntryFrameOthers DEF SummariesKept
<1> QED
  BY <1>1, <1>2 DEF SummariesKept

\* A settled promise stays settled, so that what an entry found out stands.
LEMMA LoadStands ==
    ASSUME NEW j \in Items, LoadTells(j),
           stage'[j] = stage[j], failure'[j] = failure[j],
           report'[j] = report[j],
           \A d \in Defs : cache[d] \in {"ready", "rejected"} => cache'[d] = cache[d]
    PROVE  LoadTells(j)'
<1>1. ProfileOf[j] \in Defs /\ Needs(j) \subseteq Defs
  BY MatrixAssumption DEF Needs
<1> QED
  BY <1>1 DEF LoadTells, RunStages, Needs

LEMMA EntryLoadOwn ==
    ASSUME TypeOK, ReportsKept, SummariesKept, LoadsKept, NEW i \in Items, EntryStep(i)
    PROVE  LoadTells(i)'
<1> USE DEF TypeOK, Goto, Report
<1>0. LoadTells(i) /\ SummaryTells(i)
  BY DEF LoadsKept, SummariesKept
<1>a. ProfileOf[i] \in Needs(i) /\ ScenarioOf[i] \in Needs(i) /\ Needs(i) \subseteq Defs
  BY MatrixAssumption DEF Needs
<1>b. \A d \in Needs(i) : cache[d] \in {"ready", "rejected"} => cache'[d] = cache[d]
  BY <1>a, EntryFrameOthers
<1>c. stage[i] \notin {"done", "missed"}
  BY DEF EntryStep, StartHookThrows, SkipStep, SkipInit, SkipSummary, SkipFails, LoadStep,
      RequestProfile, RequestScenario, EnterRun, LoadFailed, RunStep, MakeRunDir, WriteConfig,
      Prepare, SessionEnds, Evaluate, Measure, Summarise, RunFails, Unwind, EndStep, Complete,
      Catch, CatchFails
<1>d. report[i] = Absent
  BY <1>0, <1>c DEF SummaryTells
<1>1. CASE StartHookThrows(i) \/ SkipInit(i)
  <2>1. stage'[i] \in {"missed", "skip_summary"} /\ failure'[i] = failure[i] /\ report'[i] = report[i]
    BY <1>1 DEF StartHookThrows, SkipInit
  <2> QED
    BY <1>0, <1>b, <1>d, <2>1 DEF LoadTells, RunStages
<1>2. CASE SkipSummary(i) \/ SkipFails(i)
  <2>1. /\ stage'[i] = "done" /\ failure'[i] = failure[i]
        /\ report'[i] = Failed("BudgetExceededError")
    BY <1>2, Names DEF SkipSummary, SkipFails, Failed
  <2> QED
    BY <1>0, <1>b, <2>1 DEF LoadTells, RunStages, Failed
<1>3. CASE RequestProfile(i) \/ RequestScenario(i)
  <2>1. /\ stage'[i] \in {"await_profile", "await_scenario"}
        /\ stage'[i] = "await_scenario" => cache[ProfileOf[i]] = "ready"
        /\ UNCHANGED <<failure, report>>
    BY <1>3 DEF RequestProfile, RequestScenario
  <2> QED
    BY <1>0, <1>a, <1>b, <1>d, <2>1 DEF LoadTells, RunStages
<1>4. CASE EnterRun(i)
  <2>1. /\ stage[i] = "await_scenario" /\ stage'[i] = "mkdir"
        /\ cache[ScenarioOf[i]] = "ready" /\ cache[ProfileOf[i]] = "ready"
        /\ UNCHANGED <<cache, failure, report>>
    BY <1>0, <1>4 DEF EnterRun, LoadTells
  <2> QED
    BY <1>0, <1>d, <2>1 DEF LoadTells, RunStages, Needs
<1>5. CASE LoadFailed(i)
  <2>1. /\ stage'[i] = "catch" /\ UNCHANGED <<cache, report>>
        /\ cache[ProfileOf[i]] = "rejected" \/ cache[ScenarioOf[i]] = "rejected"
    BY <1>5 DEF LoadFailed
  <2> QED
    BY <1>a, <1>d, <2>1 DEF LoadTells, RunStages
<1>6. CASE RunStep(i)
  <2>1. UNCHANGED <<cache, report>>
    BY <1>6 DEF RunStep, MakeRunDir, WriteConfig, Prepare, SessionEnds, Evaluate, Measure,
       Summarise, RunFails, Unwind
  <2>2. /\ stage'[i] # "await_scenario"
        /\ stage'[i] \in RunStages => stage[i] \in RunStages
    BY <1>6 DEF RunStep, MakeRunDir, WriteConfig, Prepare, SessionEnds, Evaluate, Measure,
       Summarise, RunFails, Unwind, RunStages
  <2>3. failure'[i] \in {failure[i], "RunError", "TokenOverflowError"}
    BY <1>6 DEF RunStep, MakeRunDir, WriteConfig, Prepare, SessionEnds, Evaluate, Measure,
       Summarise, RunFails, Unwind
  <2> QED
    BY <1>0, <1>d, <2>1, <2>2, <2>3 DEF LoadTells
<1>7. CASE Complete(i)
  <2>1. /\ stage[i] = "release" /\ stage'[i] = "done" /\ UNCHANGED <<cache, failure>>
        /\ report'[i] = Succeeded(DeriveStatus(outcome[i]))
    BY <1>7 DEF Complete
  <2>2. Absent # "LoadError"
    BY AbsentAssumption, Names
  <2> QED
    BY <1>0, <2>1, <2>2 DEF LoadTells, RunStages, Succeeded
<1>8. CASE Catch(i) \/ CatchFails(i)
  <2>1. /\ stage'[i] = "done" /\ UNCHANGED <<cache, failure>>
        /\ report'[i] = Failed(failure[i])
    BY <1>8 DEF Catch, CatchFails
  <2> QED
    BY <1>0, <2>1 DEF LoadTells, RunStages, Failed
<1> QED
  BY <1>1, <1>2, <1>3, <1>4, <1>5, <1>6, <1>7, <1>8 DEF EntryStep, SkipStep, LoadStep, EndStep

LEMMA EntryLoads ==
    ASSUME TypeOK, ReportsKept, SummariesKept, LoadsKept, NEW i \in Items, EntryStep(i)
    PROVE  LoadsKept'
<1>1. LoadTells(i)'
  BY EntryLoadOwn
<1>2. ASSUME NEW j \in Items, j # i PROVE LoadTells(j)'
  BY <1>2, LoadStands, EntryFrameOthers DEF LoadsKept
<1> QED
  BY <1>1, <1>2 DEF LoadsKept

\* Before the close there is no manifest and no table; afterwards no entry is
\* left to take a step.
LEMMA EntryClose ==
    ASSUME TypeOK, ReportsKept, CloseKept, OutputsKept, NEW i \in Items, EntryStep(i)
    PROVE  CloseKept' /\ OutputsKept'
<1>1. UNCHANGED <<phase, poolVars, manifest, tables, torn>>
  BY EntryFrame
<1>2. stage[i] \notin {"done", "missed"}
  BY DEF EntryStep, StartHookThrows, SkipStep, SkipInit, SkipSummary, SkipFails, LoadStep,
      RequestProfile, RequestScenario, EnterRun, LoadFailed, RunStep, MakeRunDir, WriteConfig,
      Prepare, SessionEnds, Evaluate, Measure, Summarise, RunFails, Unwind, EndStep, Complete,
      Catch, CatchFails
<1>3. ~Closed
  BY <1>2 DEF ReportsKept
<1>4. manifest = Absent /\ \A tag \in {"csv", "jsonl"} : tables[tag] = Absent
  BY <1>3 DEF CloseKept
<1> QED
  BY <1>1, <1>4 DEF CloseKept, OutputsKept

-----------------------------------------------------------------------------
(* The steps that are not an entry's. *)

LEMMA EntryIInv ==
    ASSUME IInv, PoolIInv', NEW i \in Items, EntryStep(i)
    PROVE  IInv'
BY EntryType, EntryAccounted, EntryReports, EntryBudget, EntryArtifacts, EntryGate,
   EntrySummaries, EntryLoads, EntryClose DEF IInv

\* Taking an entry, settling a load and closing tell nothing new of an entry:
\* what its report, its directory and its definitions say stands.
LEMMA EntriesStand ==
    ASSUME TypeOK, ArtifactsKept, SummariesKept, LoadsKept,
           UNCHANGED <<outcome, failure, disk, report>>,
           faults' \in {faults, faults + 1},
           \A d \in Defs : cache[d] \in {"ready", "rejected"} => cache'[d] = cache[d],
           \A j \in Items : \/ stage'[j] = stage[j]
                            \/ stage[j] = "todo" /\ stage'[j] \in {"skip_init", "profile"}
    PROVE  SummariesKept' /\ LoadsKept'
<1>1. ASSUME NEW j \in Items, stage'[j] = stage[j] PROVE SummaryTells(j)' /\ LoadTells(j)'
  BY <1>1, SummaryStands, LoadStands DEF SummariesKept, LoadsKept
<1>2. ASSUME NEW j \in Items, stage[j] = "todo", stage'[j] \in {"skip_init", "profile"}
      PROVE  SummaryTells(j)' /\ LoadTells(j)'
  <2>1. report[j] = Absent
    BY <1>2 DEF SummariesKept, SummaryTells
  <2>2. SummaryTells(j)'
    BY <1>2, <2>1 DEF SummaryTells
  <2>3. failure[j] = "LoadError" => \E d \in Needs(j) : cache'[d] = "rejected"
    BY MatrixAssumption DEF LoadsKept, LoadTells, Needs
  <2>4. LoadTells(j)'
    BY <1>2, <2>1, <2>3 DEF LoadTells, RunStages, Needs
  <2> QED
    BY <2>2, <2>4
<1> QED
  BY <1>1, <1>2 DEF SummariesKept, LoadsKept

\* Before the close nothing is written of it.
LEMMA NotYetClosed ==
    ASSUME CloseKept, OutputsKept, ~Closed, UNCHANGED <<manifest, tables, torn>>,
           phase # "rejected", phase' \notin {"emit_csv", "emit_jsonl", "returned"}
    PROVE  CloseKept' /\ OutputsKept'
BY DEF CloseKept, OutputsKept

\* The lanes open on the first entries; nothing was under way before.
LEMMA OpenIInv == ASSUME IInv, PoolIInv', OpenPool PROVE IInv'
<1> USE PoolAssumption, ConcurrencyBound DEF IInv
<1>1. TypeOK'
  BY OtherType
<1>2. /\ lane' = [l \in Lanes |-> l] /\ cursor' = Concurrency + 1
      /\ stage' = [i \in Items |-> IF i <= Concurrency THEN Gate ELSE "todo"]
      /\ \A i \in Items : stage[i] = "todo"
      /\ Gate \in {"skip_init", "profile"}
      /\ phase = "setup" /\ phase' = "pool"
      /\ UNCHANGED <<cache, outcome, failure, disk, report, budgetVars>>
  BY DEF OpenPool, Launch, Gate, Accounted, Launched, Items, PoolIInv
<1>3. Accounted'
  BY <1>2 DEF Accounted, Items, Lanes
<1>4. ReportsKept'
  BY <1>2 DEF ReportsKept, Closed
<1>5. ArtifactsKept'
  <2>1. \A i \in Items : stage'[i] \in {"todo", "skip_init", "profile"}
    BY <1>2
  <2>2. \A i \in Items : disk'[i] = disk[i] /\ disk[i].summary = Absent
    BY <1>2 DEF ArtifactsKept, BeforeSummary
  <2> QED
    BY <2>1, <2>2 DEF ArtifactsKept
<1>6. aborted => Paid' \subseteq Paid
  BY <1>2 DEF Gate, Paid, PaidStages
<1>7. BudgetKept'
  BY <1>2, <1>6, BudgetShrinks DEF budgetVars
<1>8. GateKept'
  <2>1. Gate = "skip_init" => aborted
    BY DEF Gate
  <2>2. cursor' > 1
    BY <1>2, SomeLane
  <2> QED
    BY <1>2, <2>1, <2>2 DEF GateKept, Launched, budgetVars
<1>9. SummariesKept' /\ LoadsKept'
  <2>1. faults' = faults
    BY DEF OpenPool
  <2> QED
    BY <1>2, <2>1, EntriesStand
<1>10. CloseKept' /\ OutputsKept'
  <2>1. UNCHANGED <<manifest, tables, torn>>
    BY DEF OpenPool, closeVars
  <2> QED
    BY <1>2, <2>1, NotYetClosed DEF Closed
<1> QED
  BY <1>1, <1>3, <1>4, <1>5, <1>7, <1>8, <1>9, <1>10

LEMMA LaneIInv == ASSUME IInv, PoolIInv', NEW l \in Lanes, LaneStep(l) PROVE IInv'
<1> USE PoolAssumption DEF IInv
<1>1. TypeOK'
  BY OtherType
<1>2. UNCHANGED <<phase, cache, outcome, failure, disk, report, budgetVars, faults>>
  BY DEF LaneStep, TakeEntry, ReturnLane, ExitLane, entryVars
<1>2a. CloseKept' /\ OutputsKept'
  <2>1. phase = "pool" /\ UNCHANGED <<manifest, tables, torn>>
    BY DEF LaneStep, TakeEntry, ReturnLane, ExitLane, closeVars
  <2> QED
    BY <1>2, <2>1, NotYetClosed DEF Closed
<1>3. CASE TakeEntry(l)
  <2>1. /\ cursor \in Items /\ lane[l] = Free /\ phase = "pool"
        /\ lane' = [lane EXCEPT ![l] = cursor] /\ cursor' = cursor + 1
        /\ stage' = [stage EXCEPT ![cursor] = Gate]
        /\ Gate \in {"skip_init", "profile"} /\ stage[cursor] = "todo"
        /\ (aborted => Gate = "skip_init")
    BY <1>3 DEF TakeEntry, Take, Goto, Gate, Items, PoolIInv, Accounted
  <2>2. Free \notin Items
    BY DEF Free, Items
  <2>3. Accounted'
    BY <1>2, <2>1, <2>2 DEF Accounted, Launched, Items, PoolIInv, TypeOK
  <2>4. ReportsKept'
    BY <1>2, <2>1 DEF ReportsKept, Closed, TypeOK
  <2>5. ArtifactsKept'
    <3>1. \A i \in Items : stage'[i] = IF i = cursor THEN Gate ELSE stage[i]
      BY <2>1 DEF TypeOK
    <3>2. \A i \in Items \ {cursor} : stage'[i] = stage[i] /\ disk'[i] = disk[i]
      BY <1>2, <3>1
    <3>3. /\ stage'[cursor] \in {"skip_init", "profile"}
          /\ disk'[cursor] = disk[cursor] /\ disk[cursor].summary = Absent
      BY <1>2, <2>1, <3>1 DEF ArtifactsKept, BeforeSummary
    <3> QED
      BY <3>2, <3>3 DEF ArtifactsKept
  <2>6. aborted => Paid' \subseteq Paid
    BY <2>1 DEF Paid, PaidStages, TypeOK
  <2>7. BudgetKept'
    BY <1>2, <2>6, BudgetShrinks DEF budgetVars
  <2>8. \A j \in Items : stage'[j] = IF j = cursor THEN Gate ELSE stage[j]
    BY <2>1 DEF TypeOK
  <2>9. GateKept'
    <3>1. Gate = "skip_init" => aborted
      BY DEF Gate
    <3>2. cursor' > 1
      BY <2>1 DEF Items
    <3> QED
      BY <1>2, <2>1, <2>8, <3>1, <3>2 DEF GateKept, Launched, budgetVars
  <2>10. SummariesKept' /\ LoadsKept'
    BY <1>2, <2>1, <2>8, EntriesStand
  <2> QED
    BY <1>1, <1>2a, <2>3, <2>4, <2>5, <2>7, <2>9, <2>10
<1>4. CASE ReturnLane(l) \/ ExitLane(l)
  <2>1. /\ UNCHANGED stage /\ phase = "pool"
        /\ \E next \in {Free, Exited} : lane' = [lane EXCEPT ![l] = next]
        /\ lane[l] \notin Items \/ stage[lane[l]] \in {"done", "missed"}
        /\ \A i \in Items : i >= cursor' <=> i >= cursor
    BY <1>4 DEF ReturnLane, ExitLane, Return, Exit, entryVars, Free, Items, PoolIInv
  <2>2. Accounted'
    BY <1>2, <2>1 DEF Accounted, PoolIInv
  <2>3. ReportsKept' /\ ArtifactsKept'
    BY <1>2, <2>1 DEF ReportsKept, ArtifactsKept, Closed
  <2>4. BudgetKept'
    BY <1>2, <2>1 DEF BudgetKept, Paid, budgetVars
  <2>5. GateKept'
    <3>1. Launched'
      BY <1>4, <2>1 DEF GateKept, Launched, ReturnLane, ExitLane, Return, Exit, PoolIInv
    <3> QED
      BY <1>2, <2>1, <3>1 DEF GateKept, budgetVars
  <2>6. SummariesKept' /\ LoadsKept'
    BY <1>2, <2>1, EntriesStand
  <2> QED
    BY <1>1, <1>2a, <2>2, <2>3, <2>4, <2>5, <2>6
<1> QED
  BY <1>3, <1>4 DEF LaneStep

LEMMA CloseFailsAt ==
    CloseFails => /\ phase \in {"manifest", "emit_csv", "emit_jsonl"} /\ phase' = "rejected"
                  /\ UNCHANGED <<entryVars, report>>
<1>1. ASSUME NEW tag \in {"csv", "jsonl"}, Emitting(tag) PROVE phase \in {"emit_csv", "emit_jsonl"}
  BY <1>1 DEF Emitting
<1> QED
  BY <1>1, MatrixAssumption DEF CloseFails, entryVars

\* When every lane has exited the cursor is past the last entry, so that each
\* entry has been taken and none is under way.
LEMMA CloseIInv == ASSUME IInv, PoolIInv', CloseStep PROVE IInv'
<1> USE PoolAssumption DEF IInv
<1>1. TypeOK'
  BY OtherType
<1>2. UNCHANGED <<poolVars, stage, outcome, failure, disk, cumulative, aborted>>
  BY DEF CloseStep, CloseReports, WriteManifest, CloseFails, EmitTable, entryVars, budgetVars
<1>3. phase # "setup" /\ phase' # "setup"
  BY CloseFailsAt DEF CloseStep, CloseReports, WriteManifest, EmitTable, Emitting, AfterEmit
<1>4. Accounted' /\ ArtifactsKept' /\ BudgetKept'
  BY <1>2, <1>3 DEF Accounted, ArtifactsKept, BudgetKept, Paid, poolVars
<1>4a. GateKept'
  <2>1. phase # "rejected"
    BY CloseFailsAt DEF CloseStep, CloseReports, WriteManifest, EmitTable, Emitting
  <2> QED
    BY <1>2, <1>3, <2>1 DEF GateKept, Launched, poolVars
<1>4b. faults' \in {faults, faults + 1} /\ UNCHANGED cache
  BY DEF CloseStep, CloseReports, WriteManifest, CloseFails, EmitTable, entryVars
<1>5. CASE CloseReports
  <2>1. cursor > Total /\ \A l \in Lanes : lane[l] \notin Items
    BY <1>5, SomeLane DEF CloseReports, PoolSettled, PoolIInv, ExitOnlyWhenDrained, Exited, Items
  <2>2. \A i \in Items : stage[i] \in {"done", "missed"}
    BY <2>1 DEF Accounted, Items, PoolIInv
  <2>3. \A i \in Items : report'[i] = IF report[i] = Absent THEN Failed("PoolMissError") ELSE report[i]
    BY <1>5 DEF CloseReports
  <2>4. Failed("PoolMissError") # Absent
    BY AbsentAssumption, Names DEF Failed, ErrorNames
  <2>5. ReportsKept'
    BY <1>2, <2>2, <2>3, <2>4 DEF ReportsKept
  <2>6. faults' = faults
    BY <1>5 DEF CloseReports
  <2>7. SummariesKept'
    <3>1. ASSUME NEW i \in Items, report[i] = Absent PROVE SummaryTells(i)'
      <4>1. stage[i] = "missed" /\ disk[i].summary = Absent
        BY <2>2, <3>1 DEF ReportsKept, SummariesKept, SummaryTells
      <4> QED
        BY <1>2, <2>3, <3>1, <4>1 DEF SummaryTells, Failed
    <3>2. ASSUME NEW i \in Items, report[i] # Absent PROVE SummaryTells(i)'
      BY <1>2, <2>3, <2>6, <3>2, SummaryStands DEF SummariesKept
    <3> QED
      BY <3>1, <3>2 DEF SummariesKept
  <2>8. LoadsKept'
    <3>1. ASSUME NEW i \in Items, report[i] = Absent PROVE LoadTells(i)'
      BY <1>2, <1>4b, <2>3, <3>1 DEF LoadsKept, LoadTells, Failed, Needs
    <3>2. ASSUME NEW i \in Items, report[i] # Absent PROVE LoadTells(i)'
      BY <1>2, <1>4b, <2>3, <3>2, LoadStands DEF LoadsKept
    <3> QED
      BY <3>1, <3>2 DEF LoadsKept
  <2>9. CloseKept' /\ OutputsKept'
    <3>1. phase = "pool" /\ phase' = "manifest" /\ UNCHANGED <<manifest, tables, torn>>
      BY <1>5 DEF CloseReports, closeVars
    <3> QED
      BY <3>1, NotYetClosed DEF Closed
  <2> QED
    BY <1>1, <1>4, <1>4a, <2>5, <2>7, <2>8, <2>9
<1>6. CASE ~CloseReports
  <2>1. UNCHANGED report /\ phase \in {"manifest", "emit_csv", "emit_jsonl"}
    BY <1>6, CloseFailsAt DEF CloseStep, WriteManifest, EmitTable, Emitting, entryVars
  <2>2. Closed
    BY <2>1 DEF Closed
  <2>3. ReportsKept'
    BY <1>2, <2>1, <2>2 DEF ReportsKept
  <2>4. SummariesKept' /\ LoadsKept'
    BY <1>2, <1>4b, <2>1, EntriesStand
  <2>5. Closed'
    <3>1. Launched /\ UNCHANGED poolVars
      BY <1>2, <2>1 DEF GateKept
    <3>2. Launched'
      BY <3>1 DEF Launched, poolVars
    <3>3. phase' \in {"emit_csv", "emit_jsonl", "returned", "rejected"}
      BY <1>6 DEF CloseStep, WriteManifest, CloseFails, EmitTable, AfterEmit
    <3> QED
      BY <3>2, <3>3 DEF Closed
  <2>6. UNCHANGED <<RunDirs, RowsOfDirs>>
    BY <1>2 DEF RunDirs, RowsOfDirs
  <2>7. CloseKept' /\ OutputsKept'
    <3>1. CASE WriteManifest
      <4>1. /\ manifest = Absent \/ Closed
            /\ manifest' = [i \in Items |-> report[i].status] /\ phase' = "emit_csv"
            /\ phase = "manifest" /\ UNCHANGED <<report, disk, tables, torn>>
        BY <2>1, <2>2, <3>1 DEF WriteManifest, entryVars
      <4>2. \A i \in Items : report[i].status \in Statuses
        BY <2>2 DEF ReportsKept, TypeOK
      <4>3. manifest' # Absent
        BY <4>1, <4>2, AbsentAssumption
      <4> QED
        BY <2>5, <2>6, <4>1, <4>3 DEF CloseKept, OutputsKept
    <3>2. CASE CloseFails
      <4>1. phase' = "rejected" /\ UNCHANGED <<report, disk, manifest, tables>>
        BY <3>2 DEF CloseFails, entryVars
      <4> QED
        BY <2>5, <2>6, <4>1 DEF CloseKept, OutputsKept
    <3>3. ASSUME NEW tag \in {"csv", "jsonl"}, EmitTable(tag) PROVE CloseKept' /\ OutputsKept'
      <4>1. phase \in {"emit_csv", "emit_jsonl"} /\ UNCHANGED <<report, disk, manifest, torn>>
        BY <3>3 DEF EmitTable, Emitting, entryVars
      <4>2. manifest # Absent
        BY <4>1 DEF CloseKept
      <4>3. \A t \in {"csv", "jsonl"} :
               \/ tables'[t] = tables[t]
               \/ tables'[t] = RowsOfDirs
        BY <3>3 DEF EmitTable, RowsOfDirs, TypeOK
      <4>4. CloseKept'
        BY <2>5, <2>6, <4>1, <4>2, <4>3 DEF CloseKept
      <4>5. /\ phase = IF tag = "csv" THEN "emit_csv" ELSE "emit_jsonl"
            /\ phase' \in {AfterEmit(tag), "rejected"}
            /\ phase' = AfterEmit(tag) /\ tag \in Emit => tables'[tag] # Absent
        BY <3>3, RowsOfDirsType DEF EmitTable, Emitting, RowsOfDirs, TypeOK, AfterEmit
      <4>6. tables["csv"] # Absent => tables'["csv"] # Absent
        BY <4>3, RowsOfDirsType
      <4>7. OutputsKept'
        <5>1. CASE tag = "csv"
          BY <4>1, <4>5, <5>1 DEF OutputsKept, AfterEmit
        <5>2. CASE tag = "jsonl"
          BY <4>1, <4>5, <4>6, <5>2 DEF OutputsKept, AfterEmit
        <5> QED
          BY <5>1, <5>2
      <4> QED
        BY <4>4, <4>7
    <3> QED
      BY <1>6, <3>1, <3>2, <3>3 DEF CloseStep
  <2> QED
    BY <1>1, <1>4, <1>4a, <2>3, <2>4, <2>7
<1> QED
  BY <1>5, <1>6

LEMMA SetupIInv == ASSUME IInv, PoolIInv', SetupFails PROVE IInv'
<1> USE DEF IInv
<1>1. TypeOK'
  BY OtherType
<1>2. /\ UNCHANGED <<poolVars, entryVars, budgetVars>> /\ faults' = faults + 1
      /\ phase = "setup" /\ phase' = "rejected" /\ ~Launched
  BY DEF SetupFails, Accounted
<1>3. Accounted' /\ ReportsKept' /\ BudgetKept' /\ ArtifactsKept'
  BY <1>2 DEF Accounted, ReportsKept, BudgetKept, ArtifactsKept, Closed, Launched,
      Paid, poolVars, entryVars, budgetVars
<1>4. GateKept'
  BY <1>2 DEF GateKept, poolVars, entryVars, budgetVars
<1>5. SummariesKept' /\ LoadsKept'
  BY <1>2, EntriesStand DEF entryVars
<1>6. CloseKept' /\ OutputsKept'
  <2>1. UNCHANGED <<manifest, tables, torn>>
    BY DEF SetupFails, closeVars
  <2> QED
    BY <1>2, <2>1, NotYetClosed DEF Closed
<1> QED
  BY <1>1, <1>3, <1>4, <1>5, <1>6

LEMMA LoadIInv == ASSUME IInv, PoolIInv', NEW d \in Defs, LoadSettles(d) PROVE IInv'
<1> USE DEF IInv
<1>1. TypeOK'
  BY OtherType
<1>2. /\ UNCHANGED <<phase, poolVars, stage, outcome, failure, disk, report, budgetVars, closeVars>>
      /\ faults' \in {faults, faults + 1}
  BY DEF LoadSettles, DefinitionLoads, DefinitionRejects
<1>3. Accounted' /\ ReportsKept' /\ BudgetKept' /\ ArtifactsKept' /\ GateKept'
  BY <1>2 DEF Accounted, ReportsKept, BudgetKept, ArtifactsKept, GateKept, Closed, Launched,
      Paid, poolVars, budgetVars
<1>4. \A e \in Defs : cache[e] \in {"ready", "rejected"} => cache'[e] = cache[e]
  BY DEF LoadSettles, DefinitionLoads, DefinitionRejects, TypeOK
<1>5. SummariesKept' /\ LoadsKept'
  BY <1>2, <1>4, EntriesStand
<1>6. CloseKept' /\ OutputsKept'
  BY <1>2 DEF CloseKept, OutputsKept, Closed, Launched, RunDirs, RowsOfDirs, poolVars, closeVars
<1> QED
  BY <1>1, <1>3, <1>5, <1>6

LEMMA InitIInv == Init => IInv
<1> SUFFICES ASSUME Init PROVE IInv
  OBVIOUS
<1> USE MatrixAssumption, PoolAssumption
<1>1. PoolIInv
  BY PoolInitIInv DEF Init
<1>2. TypeOK
  <2>1. EmptyDir \in Directories
    BY DEF EmptyDir, Directories, ConfigStates, FileStates
  <2>2. disk \in [Items -> Directories]
    BY <2>1 DEF Init
  <2>3. PoolTypeOK
    BY <1>1, PoolTypeFromIInv
  <2>4. stage \in [Items -> Stages]
    BY DEF Init, Stages
  <2>5. /\ cache \in [Defs -> {"absent", "loading", "ready", "rejected"}]
        /\ outcome \in [Items -> Outcomes \cup {Absent}]
        /\ failure \in [Items -> ErrorNames \cup {Absent}]
    BY DEF Init
  <2>6. /\ report \in [Items -> [status : Statuses, error : ErrorNames \cup {Absent}]
                                \cup {Absent}]
        /\ tables \in [{"csv", "jsonl"} -> Tables \cup {Absent}] /\ torn = {}
    BY DEF Init
  <2>7. /\ phase = "setup" /\ cumulative = 0 /\ aborted = FALSE /\ spent = 0
        /\ manifest = Absent /\ faults \in 0..MaxFaults
    BY DEF Init
  <2> QED
    BY <2>2, <2>3, <2>4, <2>5, <2>6, <2>7 DEF TypeOK
<1>3. Accounted
  BY DEF Init, PoolInit, Accounted, Launched, Items
<1>4. ReportsKept /\ ArtifactsKept
  BY AbsentAssumption, ConcurrencyBound
     DEF Init, PoolInit, ReportsKept, ArtifactsKept, Closed, EmptyDir, BeforeSummary, ErrorNames
<1>5. BudgetKept
  BY DEF Init, BudgetKept
<1>6. GateKept
  BY AbsentAssumption DEF Init, GateKept, ErrorNames
<1>7. SummariesKept /\ LoadsKept
  BY AbsentAssumption DEF Init, SummariesKept, SummaryTells, LoadsKept, LoadTells, RunStages,
      EmptyDir, ErrorNames
<1>8. CloseKept /\ OutputsKept
  BY DEF Init, CloseKept, OutputsKept
<1> QED
  BY <1>1, <1>2, <1>3, <1>4, <1>5, <1>6, <1>7, <1>8 DEF IInv

THEOREM Inductive == Spec => []IInv
<1>1. IInv /\ [Next]_vars => IInv'
  <2> SUFFICES ASSUME IInv, [Next]_vars PROVE IInv'
    OBVIOUS
  <2>1. PoolIInv'
    BY StepsOfPool, PoolStepIInv DEF IInv, vars
  <2>2. CASE OpenPool
    BY <2>1, <2>2, OpenIInv
  <2>3. CASE SetupFails
    BY <2>1, <2>3, SetupIInv
  <2>4. CASE CloseStep
    BY <2>1, <2>4, CloseIInv
  <2>5. CASE \E l \in Lanes : LaneStep(l)
    BY <2>1, <2>5, LaneIInv
  <2>6. CASE \E i \in Items : EntryStep(i)
    BY <2>1, <2>6, EntryIInv
  <2>7. CASE \E d \in Defs : LoadSettles(d)
    BY <2>1, <2>7, LoadIInv
  <2>8. CASE UNCHANGED vars
    BY <2>8 DEF vars, poolVars, entryVars, budgetVars, closeVars, IInv, TypeOK, PoolTypeOK,
        PoolIInv, LanesDisjoint, ExitOnlyWhenDrained, Gone, Accounted, Launched, ReportsKept,
        Closed, BudgetKept, Paid, ArtifactsKept, GateKept, SummariesKept, SummaryTells,
        LoadsKept, LoadTells, CloseKept, OutputsKept, RunDirs, RowsOfDirs
  <2> QED
    BY <2>2, <2>3, <2>4, <2>5, <2>6, <2>7, <2>8 DEF Next
<1> QED
  BY <1>1, InitIInv, PTL DEF Spec

-----------------------------------------------------------------------------
\* The state of the loop keeps its type.
THEOREM TypeCorrect == Spec => []TypeOK
<1>1. IInv => TypeOK
  BY DEF IInv
<1> QED
  BY <1>1, Inductive, PTL

\* No entry is given to two lanes, whatever else the lanes wait for.
THEOREM EntriesHandedOutOnce == Spec => []LanesDisjoint
<1>1. IInv => LanesDisjoint
  BY DEF IInv, PoolIInv
<1> QED
  BY <1>1, Inductive, PTL

\* No lane of the matrix loop leaves while entries are left.
THEOREM DrainedBeforeExit == Spec => []ExitOnlyWhenDrained
<1>1. IInv => ExitOnlyWhenDrained
  BY DEF IInv, PoolIInv
<1> QED
  BY <1>1, Inductive, PTL

\* The recorded cost stays below the cap plus one session for each lane.
THEOREM CostIsBounded == Spec => []CostBounded
<1>1. IInv => CostBounded
  <2> SUFFICES ASSUME IInv PROVE CostBounded
    OBVIOUS
  <2>1. Cardinality(Paid) * MaxCost \in Nat /\ Concurrency * MaxCost \in Nat
    BY PaidBound, SomeLane, CostArithmetic DEF IInv
  <2> QED
    BY <2>1, MatrixAssumption DEF IInv, BudgetKept, CostBounded, TypeOK
<1> QED
  BY <1>1, Inductive, PTL

\* At the trip all lanes but one at most still run, and nobody joins them.
THEOREM OvershootIsBounded == Spec => []OvershootBounded
<1>1. IInv => OvershootBounded
  BY DEF IInv, BudgetKept, OvershootBounded
<1> QED
  BY <1>1, Inductive, PTL

\* No slot of the reports is lost between the lanes and the manifest.
THEOREM SlotsAreFilled == Spec => []SlotsFilled
<1>1. IInv => SlotsFilled
  BY DEF IInv, ReportsKept, SlotsFilled
<1> QED
  BY <1>1, Inductive, PTL

\* The summary is the last artifact of a run, whatever fails.
THEOREM SummaryIsLast == Spec => []SummaryLast
<1>1. IInv => SummaryLast
  BY DEF IInv, ArtifactsKept, SummaryLast
<1> QED
  BY <1>1, Inductive, PTL

\* A run the manifest does not list as an error is complete on disk; a summary
\* that contradicts the manifest took two failures.
LEMMA ManifestTells ==
    ASSUME IInv, manifest # Absent, NEW i \in Items
    PROVE  /\ manifest[i] # "error" =>
                 /\ disk[i].summary = manifest[i] /\ disk[i].summary \notin {Absent, "error"}
                 /\ disk[i].config = "whole" /\ disk[i].tests = "whole"
                 /\ disk[i].metrics = "whole" /\ disk[i].dir
           /\ faults <= 1 => disk[i].summary \in {Absent, manifest[i]}
<1>1. Closed /\ manifest[i] = report[i].status
  BY DEF IInv, CloseKept
<1>2. stage[i] \in {"done", "missed"} /\ report[i] # Absent /\ report[i].status \in Statuses
  BY <1>1 DEF IInv, ReportsKept, TypeOK
<1>3. SummaryTells(i)
  BY DEF IInv, SummariesKept
<1>4. CASE stage[i] = "missed"
  BY <1>1, <1>2, <1>3, <1>4 DEF SummaryTells
<1>5. CASE stage[i] = "done" /\ manifest[i] # "error"
  <2>1. /\ disk[i].summary = manifest[i] /\ disk[i].summary \notin {Absent, "error"}
        /\ disk[i].dir
    BY <1>1, <1>2, <1>3, <1>5, AbsentAssumption, MatrixAssumption DEF SummaryTells
  <2> QED
    BY <1>5, <2>1 DEF IInv, ArtifactsKept
<1>6. CASE stage[i] = "done" /\ manifest[i] = "error"
  <2>1. disk[i].summary \in {Absent, "error"} \/ faults >= 2
    BY <1>1, <1>3, <1>6 DEF SummaryTells
  <2>2. faults \in Nat
    BY MatrixAssumption DEF IInv, TypeOK
  <2> QED
    BY <1>6, <2>1, <2>2
<1> QED
  BY <1>2, <1>4, <1>5, <1>6

\* The manifest and the summaries on disk tell the same story: a run listed as
\* completed is complete on disk with that status, whatever failed, and it
\* takes two failures to leave a summary that contradicts the manifest.
THEOREM SummariesAgreeAlways == Spec => []SummariesAgree
<1>1. IInv => SummariesAgree
  BY ManifestTells DEF SummariesAgree
<1> QED
  BY <1>1, Inductive, PTL

\* The tables tell the story of the manifest: a run that is not an error there
\* has a full row, after at most one failure no run that is an error there is
\* reported with a duration, and a runAll that returned left both files whole.
THEOREM TablesAreSound == Spec => []TablesSound
<1>1. IInv => TablesSound
  <2> SUFFICES ASSUME IInv PROVE TablesSound
    OBVIOUS
  <2>1. ASSUME NEW tag \in {"csv", "jsonl"}, tables[tag] # Absent
        PROVE  manifest # Absent /\ tables[tag] = RowsOfDirs
    BY <2>1 DEF IInv, CloseKept
  <2>2. DOMAIN RowsOfDirs = RunDirs /\ \A i \in RunDirs : RowsOfDirs[i] = RowOf(disk[i])
    BY DEF RowsOfDirs
  <2>3. ASSUME NEW i \in Items, manifest # Absent, manifest[i] # "error"
        PROVE  i \in RunDirs /\ RowsOfDirs[i] = FullRow
    <3>1. i \in RunDirs
      BY <2>3, ManifestTells DEF RunDirs
    <3>2. RowOf(disk[i]) = FullRow
      BY <2>3, ManifestTells DEF RowOf, FullRow
    <3> QED
      BY <2>2, <3>1, <3>2
  <2>4. ASSUME NEW i \in RunDirs, manifest # Absent, faults <= 1, RowsOfDirs[i].usage
        PROVE  manifest[i] # "error"
    <3>1. i \in Items
      BY DEF RunDirs
    <3>2. RowOf(disk[i]).usage
      BY <2>2, <2>4
    <3>3. disk[i].summary \notin {Absent, "error"}
      BY <3>2 DEF RowOf
    <3> QED
      BY <2>4, <3>1, <3>3, ManifestTells
  <2>5. tables["csv"] = Absent \/ tables["jsonl"] = Absent \/ tables["csv"] = tables["jsonl"]
    BY <2>1
  <2>6. phase = "returned" =>
           manifest # Absent /\ torn = {} /\ \A tag \in Emit : tables[tag] # Absent
    BY MatrixAssumption DEF IInv, CloseKept, OutputsKept
  <2>7. ASSUME NEW tag \in {"csv", "jsonl"}, tables[tag] # Absent
        PROVE  /\ manifest # Absent
               /\ \A i \in Items : manifest[i] # "error" =>
                     i \in DOMAIN tables[tag] /\ tables[tag][i] = FullRow
               /\ faults <= 1 => \A i \in DOMAIN tables[tag] :
                     tables[tag][i].usage => manifest[i] # "error"
    BY <2>1, <2>2, <2>3, <2>4, <2>7
  <2> QED
    BY <2>5, <2>6, <2>7 DEF TablesSound
<1> QED
  BY <1>1, Inductive, PTL

\* The cached rejection of a definition fails every entry that needs it.
THEOREM BrokenDefinitionFails == Spec => []BrokenDefinitionFailsAll
<1>1. IInv => BrokenDefinitionFailsAll
  <2> SUFFICES ASSUME IInv, NEW i \in Items, report[i] # Absent, report[i].error = "LoadError"
               PROVE  \E d \in Needs(i) : \A j \in Items :
                         d \in Needs(j) /\ report[j] # Absent => report[j].status = "error"
    BY DEF BrokenDefinitionFailsAll
  <2>1. PICK d \in Needs(i) : cache[d] = "rejected"
    BY DEF IInv, LoadsKept, LoadTells
  <2>2. \A j \in Items : d \in Needs(j) /\ report[j] # Absent => report[j].status = "error"
    BY <2>1 DEF IInv, LoadsKept, LoadTells
  <2> QED
    BY <2>2
<1> QED
  BY <1>1, Inductive, PTL

-----------------------------------------------------------------------------
(* Every step of the loop is a step of BudgetedMatrix, or leaves its ledger *)
(* alone.                                                                   *)

\* The instance counts as this module does.
LEMMA SameCardinality == ASSUME NEW S PROVE Ledger!Cardinality(S) = Cardinality(S)
BY DEF Ledger!Cardinality, Cardinality

\* The ledger by the stage of the entry.
LEMMA VerdictByStage ==
    ASSUME NEW i \in Items
    PROVE  /\ stage[i] \in {"todo", "skip_init", "skip_summary"} => Verdict(i) = "waiting"
           /\ stage[i] \in PaidStages => Verdict(i) = "running"
           /\ stage[i] = "missed" => Verdict(i) = "failed"
           /\ stage[i] = "done" /\ report[i].status # "error" => Verdict(i) = "completed"
           /\ stage[i] = "done" /\ report[i].status = "error" =>
                 Verdict(i) = IF report[i].error = "BudgetExceededError" THEN "skipped" ELSE "failed"
BY DEF Verdict, PaidStages

\* The same of the next state.
LEMMA VerdictByStageNext ==
    ASSUME NEW i \in Items
    PROVE  /\ stage'[i] \in {"todo", "skip_init", "skip_summary"} => Verdict(i)' = "waiting"
           /\ stage'[i] \in PaidStages => Verdict(i)' = "running"
           /\ stage'[i] = "missed" => Verdict(i)' = "failed"
           /\ stage'[i] = "done" /\ report'[i].status # "error" => Verdict(i)' = "completed"
           /\ stage'[i] = "done" /\ report'[i].status = "error" =>
                 Verdict(i)' = IF report'[i].error = "BudgetExceededError" THEN "skipped" ELSE "failed"
BY DEF Verdict, PaidStages

LEMMA PaidAreRunning == ASSUME TypeOK PROVE Ledger!Are("running") = Paid
<1>1. \A i \in Items : Verdict(i) = "running" <=> stage[i] \in PaidStages
  <2> SUFFICES ASSUME NEW i \in Items PROVE Verdict(i) = "running" <=> stage[i] \in PaidStages
    OBVIOUS
  <2>1. stage[i] \in PaidStages \cup {"todo", "skip_init", "skip_summary", "missed", "done"}
    BY DEF TypeOK, Stages, PaidStages
  <2>2. Verdict(i) = "running" => stage[i] \in PaidStages
    BY <2>1, VerdictByStage
  <2> QED
    BY <2>2, VerdictByStage
<1> QED
  BY <1>1 DEF Ledger!Are, Paid

\* An entry whose stage and report stand keeps its verdict.
LEMMA VerdictStands ==
    ASSUME NEW j \in Items, stage'[j] = stage[j], report'[j] = report[j]
    PROVE  Verdict(j)' = Verdict(j)
BY DEF Verdict

LEMMA LedgerStands ==
    ASSUME \A j \in Items : Verdict(j)' = Verdict(j), UNCHANGED <<cumulative, aborted>>,
           Closed' <=> Closed
    PROVE  UNCHANGED Ledger!vars
<1>1. [j \in Items |-> Verdict(j)]' = [j \in Items |-> Verdict(j)]
  OBVIOUS
<1>2. Closed' = Closed
  BY DEF Closed
<1> QED
  BY <1>1, <1>2 DEF Ledger!vars

LEMMA PaidFit == TypeOK /\ Accounted => Cardinality(Paid) <= Concurrency
BY PaidBound

\* Entries that pass the gate start, and all that run then have lanes.
LEMMA LedgerStarts ==
    ASSUME TypeOK, TypeOK', Accounted', ~aborted, UNCHANGED <<cumulative, aborted>>,
           Closed' <=> Closed,
           \A j \in Items : \/ Verdict(j)' = Verdict(j)
                            \/ Verdict(j) = "waiting" /\ Verdict(j)' = "running"
    PROVE  Ledger!Start
<1> DEFINE batch == {j \in Items : Verdict(j) = "waiting" /\ Verdict(j)' = "running"}
<1>1. batch \in SUBSET Ledger!Are("waiting")
  BY DEF Ledger!Are
<1>2. Ledger!Are("running")' = Paid'
  <2>1. (TypeOK => Ledger!Are("running") = Paid)'
    <3>1. TypeOK => Ledger!Are("running") = Paid
      BY PaidAreRunning
    <3> QED
      BY PaidAreRunning, PTL
  <2> QED
    BY <2>1
<1>3. Ledger!Are("running") \cup batch = Ledger!Are("running")'
  BY DEF Ledger!Are
<1>4. Cardinality(Paid') <= Concurrency
  <2>1. (TypeOK /\ Accounted => Cardinality(Paid) <= Concurrency)'
    BY PaidFit, PTL
  <2> QED
    BY <2>1
<1>5. [j \in Items |-> Verdict(j)]'
        = [j \in Items |-> IF j \in batch THEN "running" ELSE [k \in Items |-> Verdict(k)][j]]
  OBVIOUS
<1>6. Closed' = Closed
  BY DEF Closed
<1> HIDE DEF batch
<1> QED
  BY <1>1, <1>2, <1>3, <1>4, <1>5, <1>6, SameCardinality DEF Ledger!Start

\* One entry changes its verdict; the others keep theirs.
LEMMA OneVerdict ==
    ASSUME NEW i \in Items, NEW v, Verdict(i)' = v,
           \A j \in Items \ {i} : Verdict(j)' = Verdict(j)
    PROVE  [j \in Items |-> Verdict(j)]' = [[j \in Items |-> Verdict(j)] EXCEPT ![i] = v]
OBVIOUS

LEMMA LedgerFails ==
    ASSUME NEW i \in Items, Verdict(i) \in {"waiting", "running"}, Verdict(i)' = "failed",
           \A j \in Items \ {i} : Verdict(j)' = Verdict(j),
           UNCHANGED <<cumulative, aborted>>, Closed' <=> Closed
    PROVE  Ledger!Next
<1>1. Closed' = Closed
  BY DEF Closed
<1>2. [j \in Items |-> Verdict(j)]' = [[j \in Items |-> Verdict(j)] EXCEPT ![i] = "failed"]
  BY OneVerdict
<1>3. Ledger!Fail(i)
  BY <1>1, <1>2 DEF Ledger!Fail
<1> QED
  BY <1>3 DEF Ledger!Next

LEMMA LedgerSkips ==
    ASSUME NEW i \in Items, Verdict(i) = "waiting", Verdict(i)' = "skipped", aborted,
           \A j \in Items \ {i} : Verdict(j)' = Verdict(j),
           UNCHANGED <<cumulative, aborted>>, Closed' <=> Closed
    PROVE  Ledger!Next
<1>1. Closed' = Closed
  BY DEF Closed
<1>2. [j \in Items |-> Verdict(j)]' = [[j \in Items |-> Verdict(j)] EXCEPT ![i] = "skipped"]
  BY OneVerdict
<1>3. Ledger!Skip(i)
  BY <1>1, <1>2 DEF Ledger!Skip
<1> QED
  BY <1>3 DEF Ledger!Next

\* runSingleRun returns: the entry completes at the cost that is recorded.
LEMMA LedgerCompletes ==
    ASSUME IInv, NEW i \in Items, Complete(i),
           \A j \in Items \ {i} : Verdict(j)' = Verdict(j), Closed' <=> Closed
    PROVE  Ledger!Next
<1>1. Closed' = Closed
  BY DEF Closed
<1>2. /\ stage[i] = "release" /\ stage'[i] = "done"
      /\ report'[i] = Succeeded(DeriveStatus(outcome[i]))
  BY DEF Complete, Report, Goto, IInv, TypeOK
<1>3. Verdict(i) = "running"
  BY <1>2, VerdictByStage DEF PaidStages
<1>4. report'[i].status # "error"
  BY <1>2, StatusType DEF IInv, ReportsKept, Succeeded
<1>5. Verdict(i)' = "completed"
  BY <1>2, <1>4, VerdictByStageNext
<1>6. [j \in Items |-> Verdict(j)]' = [[j \in Items |-> Verdict(j)] EXCEPT ![i] = "completed"]
  BY <1>5, OneVerdict
<1>7. Billed(outcome[i]) \in 0..MaxCost
  <2>1. outcome[i] \in Outcomes \cup {Absent}
    BY DEF IInv, TypeOK
  <2> QED
    BY <2>1, BilledBound, MatrixAssumption
<1>8. cumulative' = cumulative + Billed(outcome[i])
  BY DEF Complete, RecordRun
<1>9. aborted' = (aborted \/ cumulative' >= Cap)
  BY DEF Complete, RecordRun
<1>10. Ledger!Complete(i, Billed(outcome[i]))
  BY <1>1, <1>3, <1>6, <1>8, <1>9 DEF Ledger!Complete
<1> QED
  BY <1>7, <1>10 DEF Ledger!Next

LEMMA EntryLedger ==
    ASSUME IInv, NEW i \in Items, EntryStep(i)
    PROVE  [Ledger!Next]_(Ledger!vars)
<1> USE DEF IInv, TypeOK, Goto, Report
<1>1. \A j \in Items \ {i} : Verdict(j)' = Verdict(j)
  BY EntryFrameOthers, VerdictStands
<1>2. Closed' <=> Closed
  BY EntryFrame DEF Closed, Launched, poolVars
<1>3. CASE Complete(i)
  BY <1>1, <1>2, <1>3, LedgerCompletes
<1>4. CASE ~Complete(i)
  <2>1. UNCHANGED <<cumulative, aborted>>
    BY <1>4 DEF EntryStep, StartHookThrows, SkipStep, SkipInit, SkipSummary, SkipFails, LoadStep,
      RequestProfile, RequestScenario, EnterRun, LoadFailed, RunStep, MakeRunDir, WriteConfig,
      Prepare, SessionEnds, Evaluate, Measure, Summarise, RunFails, Unwind, EndStep, Catch,
      CatchFails, budgetVars
  <2>2. CASE StartHookThrows(i)
    <3>1. stage[i] \in {"skip_init", "profile"} /\ stage'[i] = "missed"
      BY <2>2 DEF StartHookThrows
    <3>2. Verdict(i) \in {"waiting", "running"} /\ Verdict(i)' = "failed"
      BY <3>1, VerdictByStage, VerdictByStageNext DEF PaidStages
    <3> QED
      BY <1>1, <1>2, <2>1, <3>2, LedgerFails
  <2>3. CASE SkipInit(i)
    <3>1. stage[i] = "skip_init" /\ stage'[i] = "skip_summary"
      BY <2>3 DEF SkipInit
    <3>2. Verdict(i)' = Verdict(i)
      BY <3>1, VerdictByStage, VerdictByStageNext
    <3> QED
      BY <1>1, <1>2, <2>1, <3>2, LedgerStands
  <2>4. CASE SkipSummary(i) \/ SkipFails(i)
    <3>1. /\ stage[i] \in {"skip_init", "skip_summary"} /\ stage'[i] = "done"
          /\ report'[i] = Failed("BudgetExceededError")
      BY <2>4 DEF SkipSummary, SkipFails
    <3>2. aborted
      BY <3>1 DEF GateKept
    <3>3. Verdict(i) = "waiting" /\ Verdict(i)' = "skipped"
      BY <3>1, VerdictByStage, VerdictByStageNext DEF Failed
    <3> QED
      BY <1>1, <1>2, <2>1, <3>2, <3>3, LedgerSkips
  <2>5. CASE LoadStep(i) \/ RunStep(i)
    <3>1. stage[i] \in PaidStages /\ stage'[i] \in PaidStages
      <4>1. CASE LoadStep(i)
        BY <4>1 DEF LoadStep, RequestProfile, RequestScenario, EnterRun, LoadFailed, PaidStages
      <4>2. CASE RunStep(i)
        BY <4>2 DEF RunStep, MakeRunDir, WriteConfig, Prepare, SessionEnds, Evaluate, Measure,
            Summarise, RunFails, Unwind, PaidStages
      <4> QED
        BY <2>5, <4>1, <4>2
    <3>2. Verdict(i)' = Verdict(i)
      BY <3>1, VerdictByStage, VerdictByStageNext
    <3> QED
      BY <1>1, <1>2, <2>1, <3>2, LedgerStands
  <2>6. CASE Catch(i) \/ CatchFails(i)
    <3>1. /\ stage[i] = "catch" /\ stage'[i] = "done" /\ report'[i] = Failed(failure[i])
      BY <2>6 DEF Catch, CatchFails
    <3>2. failure[i] # "BudgetExceededError"
      BY DEF GateKept
    <3>3. report'[i].status = "error" /\ report'[i].error # "BudgetExceededError"
      BY <3>1, <3>2 DEF Failed
    <3>4. Verdict(i) = "running" /\ Verdict(i)' = "failed"
      BY <3>1, <3>3, VerdictByStage, VerdictByStageNext DEF PaidStages
    <3> QED
      BY <1>1, <1>2, <2>1, <3>4, LedgerFails
  <2> QED
    BY <1>4, <2>2, <2>3, <2>4, <2>5, <2>6 DEF EntryStep, SkipStep, EndStep
<1> QED
  BY <1>3, <1>4

\* Opening the lanes and taking an entry start runs, unless the tracker has
\* tripped.
LEMMA LaneLedger ==
    ASSUME IInv, IInv', OpenPool \/ \E l \in Lanes : LaneStep(l)
    PROVE  [Ledger!Next]_(Ledger!vars)
<1>1. UNCHANGED <<cumulative, aborted, report>>
  BY DEF OpenPool, LaneStep, TakeEntry, ReturnLane, ExitLane, budgetVars, entryVars
<1>2. ~Closed /\ ~Closed'
  BY DEF OpenPool, LaneStep, TakeEntry, ReturnLane, ExitLane, Closed
<1>3. \A j \in Items : \/ stage'[j] = stage[j]
                       \/ stage[j] = "todo" /\ stage'[j] = Gate
  <2>1. CASE OpenPool
    BY <2>1 DEF OpenPool, IInv, Accounted, Launched, PoolIInv, Items
  <2>2. CASE \E l \in Lanes : LaneStep(l)
    <3>1. PICK l \in Lanes : LaneStep(l)
      BY <2>2
    <3>2. CASE TakeEntry(l)
      BY <3>2, PoolAssumption DEF TakeEntry, Take, Goto, IInv, TypeOK, Accounted, Items, PoolIInv
    <3>3. CASE ReturnLane(l) \/ ExitLane(l)
      BY <3>3 DEF ReturnLane, ExitLane, entryVars
    <3> QED
      BY <3>1, <3>2, <3>3 DEF LaneStep
  <2> QED
    BY <2>1, <2>2
<1>4. CASE aborted
  <2>1. \A j \in Items : Verdict(j)' = Verdict(j)
    <3>1. Gate = "skip_init"
      BY <1>4 DEF Gate
    <3>2. ASSUME NEW j \in Items, stage'[j] = stage[j] PROVE Verdict(j)' = Verdict(j)
      BY <1>1, <3>2, VerdictStands
    <3>3. ASSUME NEW j \in Items, stage[j] = "todo", stage'[j] = Gate
          PROVE  Verdict(j)' = Verdict(j)
      BY <3>1, <3>3, VerdictByStage, VerdictByStageNext
    <3> QED
      BY <1>3, <3>2, <3>3
  <2> QED
    BY <1>1, <1>2, <2>1, LedgerStands
<1>5. CASE ~aborted
  <2>1. \A j \in Items : \/ Verdict(j)' = Verdict(j)
                         \/ Verdict(j) = "waiting" /\ Verdict(j)' = "running"
    <3>1. Gate = "profile"
      BY <1>5 DEF Gate
    <3>2. ASSUME NEW j \in Items, stage'[j] = stage[j] PROVE Verdict(j)' = Verdict(j)
      BY <1>1, <3>2, VerdictStands
    <3>3. ASSUME NEW j \in Items, stage[j] = "todo", stage'[j] = Gate
          PROVE  Verdict(j) = "waiting" /\ Verdict(j)' = "running"
      BY <3>1, <3>3, VerdictByStage, VerdictByStageNext DEF PaidStages
    <3> QED
      BY <1>3, <3>2, <3>3
  <2>2. TypeOK /\ TypeOK' /\ Accounted'
    BY DEF IInv
  <2>3. Ledger!Start
    BY <1>1, <1>2, <1>5, <2>1, <2>2, LedgerStarts
  <2> QED
    BY <2>3 DEF Ledger!Next
<1> QED
  BY <1>4, <1>5

\* Every entry has its verdict when the reports are closed.
LEMMA CloseLedger ==
    ASSUME IInv, IInv', CloseStep
    PROVE  [Ledger!Next]_(Ledger!vars)
<1>1. UNCHANGED <<stage, poolVars, cumulative, aborted>>
  BY DEF CloseStep, CloseReports, WriteManifest, CloseFails, EmitTable, entryVars, budgetVars
<1>2. CASE CloseReports
  <2>1. ~Closed
    BY <1>2 DEF CloseReports, Closed
  <2>2. Closed'
    BY <1>2 DEF CloseReports, Closed
  <2>3. \A i \in Items : stage[i] \in {"done", "missed"}
    BY <1>1, <2>2 DEF IInv, ReportsKept
  <2>4. \A j \in Items : Verdict(j)' = Verdict(j)
    <3>1. ASSUME NEW j \in Items, stage[j] = "missed" PROVE Verdict(j)' = Verdict(j)
      BY <1>1, <3>1, VerdictByStage, VerdictByStageNext
    <3>2. ASSUME NEW j \in Items, stage[j] = "done" PROVE Verdict(j)' = Verdict(j)
      <4>1. report'[j] = report[j]
        BY <1>2, <3>2 DEF CloseReports, IInv, ReportsKept
      <4> QED
        BY <1>1, <4>1, VerdictStands
    <3> QED
      BY <2>3, <3>1, <3>2
  <2>5. \A j \in Items : Verdict(j) \notin {"waiting", "running"}
    BY <2>3, VerdictByStage
  <2>6. Ledger!Are("waiting") \cup Ledger!Are("running") = {}
    BY <2>5 DEF Ledger!Are
  <2>7. Closed' = TRUE
    BY <2>2 DEF Closed
  <2>8. [j \in Items |-> Verdict(j)]' = [j \in Items |-> Verdict(j)]
    BY <2>4
  <2>9. Ledger!Close
    BY <1>1, <2>1, <2>6, <2>7, <2>8 DEF Ledger!Close
  <2> QED
    BY <2>9 DEF Ledger!Next
<1>3. CASE ~CloseReports
  <2>1. UNCHANGED report /\ phase \in {"manifest", "emit_csv", "emit_jsonl"}
    BY <1>3, CloseFailsAt DEF CloseStep, WriteManifest, EmitTable, Emitting, entryVars
  <2>2. phase' \in {"emit_csv", "emit_jsonl", "returned", "rejected"}
    BY <1>3 DEF CloseStep, WriteManifest, CloseFails, EmitTable, AfterEmit
  <2>3. Launched'
    BY <1>1, <2>1 DEF IInv, GateKept, Launched, poolVars
  <2>4. Closed /\ Closed'
    BY <2>1, <2>2, <2>3 DEF Closed
  <2>5. \A j \in Items : Verdict(j)' = Verdict(j)
    BY <1>1, <2>1, VerdictStands
  <2> QED
    BY <1>1, <2>4, <2>5, LedgerStands
<1> QED
  BY <1>2, <1>3

\* A failed setup and a settled load change no verdict.
LEMMA OtherLedger ==
    ASSUME IInv, SetupFails \/ (\E d \in Defs : LoadSettles(d)) \/ UNCHANGED vars
    PROVE  UNCHANGED Ledger!vars
<1>1. UNCHANGED <<stage, report, poolVars, cumulative, aborted>>
  BY DEF SetupFails, LoadSettles, DefinitionLoads, DefinitionRejects, vars, entryVars, budgetVars
<1>2. \A j \in Items : Verdict(j)' = Verdict(j)
  BY <1>1, VerdictStands
<1>3. CASE SetupFails
  <2>1. ~Closed /\ ~Closed'
    BY <1>1, <1>3 DEF SetupFails, Closed, IInv, Accounted, Launched, poolVars
  <2> QED
    BY <1>1, <1>2, <2>1, LedgerStands
<1>4. CASE ~SetupFails
  <2>1. UNCHANGED phase
    BY <1>4 DEF LoadSettles, DefinitionLoads, DefinitionRejects, vars
  <2>2. Closed' <=> Closed
    BY <1>1, <2>1 DEF Closed, Launched, poolVars
  <2> QED
    BY <1>1, <1>2, <2>2, LedgerStands
<1> QED
  BY <1>3, <1>4

LEMMA InitLedger == Init => Ledger!Init
<1> SUFFICES ASSUME Init PROVE Ledger!Init
  OBVIOUS
<1>1. \A i \in Items : Verdict(i) = "waiting"
  BY VerdictByStage DEF Init
<1>2. Closed = FALSE
  BY DEF Init, PoolInit, Closed, Launched
<1> QED
  BY <1>1, <1>2 DEF Ledger!Init, Init

LEMMA NextLedger == IInv /\ IInv' /\ [Next]_vars => [Ledger!Next]_(Ledger!vars)
<1> SUFFICES ASSUME IInv, IInv', [Next]_vars PROVE [Ledger!Next]_(Ledger!vars)
  OBVIOUS
<1>1. CASE OpenPool \/ \E l \in Lanes : LaneStep(l)
  BY <1>1, LaneLedger
<1>2. CASE CloseStep
  BY <1>2, CloseLedger
<1>3. CASE \E i \in Items : EntryStep(i)
  BY <1>3, EntryLedger
<1>4. CASE SetupFails \/ (\E d \in Defs : LoadSettles(d)) \/ UNCHANGED vars
  BY <1>4, OtherLedger
<1> QED
  BY <1>1, <1>2, <1>3, <1>4 DEF Next

\* The matrix loop implements BudgetedMatrix: files, lanes, caches and failing
\* awaits hidden, every behaviour is one the ledger allows.
THEOREM KeepsTheLedger == Spec => ImplementsBudgetedMatrix
BY InitLedger, NextLedger, Inductive, PTL DEF Spec, ImplementsBudgetedMatrix, Ledger!Spec
=============================================================================
