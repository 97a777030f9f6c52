----------------------------- MODULE RunLifecycle -----------------------------
(***************************************************************************)
(* runSingleRun of runner/index.ts, seen as the life of what it acquires:  *)
(* the workspace of the strategy, the directory of the agent pin and the   *)
(* trace's file descriptor.  The workspace is that of module Workspaces,   *)
(* shared with the other runs of the matrix.  What a run computes and      *)
(* writes is the matter of module MatrixRun.                               *)
(***************************************************************************)
EXTENDS Workspaces

CONSTANT Pinned   \* runs whose profile declares pinned_agents

ASSUME RunLifecycleAssumption == Pinned \subseteq Runs

VARIABLES
    at,        \* at[r]: the await of runSingleRun
    ending,    \* ending[r]: "none", or how the function is about to end
    agentDir,  \* agentDir[r]: "none", "partial" or "staged"
    fd         \* fd[r]: "none", "open" or "closed"

runVars == <<at, ending, agentDir, fd>>
vars == <<runVars, wsVars>>

Awaits == {"idle", "workspace", "context", "pin", "session", "results", "unpin", "release", "over"}

Init ==
    /\ WsInit
    /\ at = [r \in Runs |-> "idle"]
    /\ ending = [r \in Runs |-> "none"]
    /\ agentDir = [r \in Runs |-> "none"]
    /\ fd = [r \in Runs |-> "none"]

Await(r, a) == at' = [at EXCEPT ![r] = a]

Ends(r, how) == ending' = [ending EXCEPT ![r] = how]

Throws(r) == Await(r, "over") /\ Ends(r, "threw")

WsFault ==
    /\ Fault
    /\ UNCHANGED <<step, repoVars, treeVars, active, procVars, lockVars>>

-----------------------------------------------------------------------------
\* initRun, the prompt and the strategy look-up hold nothing and are left out.
EnterRun(r) ==
    /\ at[r] = "idle"
    /\ BeginPrepare(r)
    /\ Await(r, "workspace")
    /\ UNCHANGED <<ending, agentDir, fd>>

WorkspaceReady(r) ==
    /\ Living(r) /\ at[r] = "workspace" /\ step[r] = "held"
    /\ Await(r, "context")
    /\ UNCHANGED <<ending, agentDir, fd, wsVars>>

WorkspaceRejects(r) ==
    /\ Living(r) /\ at[r] = "workspace" /\ step[r] = "failed"
    /\ Throws(r)
    /\ UNCHANGED <<agentDir, fd, wsVars>>

ContextReady(r) ==
    /\ Living(r) /\ at[r] = "context"
    /\ Await(r, "pin")
    /\ UNCHANGED <<ending, agentDir, fd, wsVars>>

\* A command of upfront_context exits with another code than 0.
ContextRejects(r) ==
    /\ Living(r) /\ at[r] = "context" /\ WsFault
    /\ Throws(r)
    /\ UNCHANGED <<agentDir, fd>>

\* The pin is staged, the tracer opened and the session started in one turn.
PinReady(r) ==
    /\ Living(r) /\ at[r] = "pin"
    /\ agentDir' = [agentDir EXCEPT ![r] = IF r \in Pinned THEN "staged" ELSE "none"]
    /\ fd' = [fd EXCEPT ![r] = "open"]
    /\ Await(r, "session")
    /\ UNCHANGED <<ending, wsVars>>

\* prepareAgentPin rejects, before or after it has created its directory.
PinRejects(r) ==
    /\ Living(r) /\ at[r] = "pin" /\ r \in Pinned /\ WsFault
    /\ \E left \in {"none", "partial"} : agentDir' = [agentDir EXCEPT ![r] = left]
    /\ Throws(r)
    /\ UNCHANGED fd

\* The constructor of Tracer throws: opening the file, or writing _meta to it.
TracerThrows(r) ==
    /\ Living(r) /\ at[r] = "pin" /\ WsFault
    /\ agentDir' = [agentDir EXCEPT ![r] = IF r \in Pinned THEN "staged" ELSE "none"]
    /\ \E left \in {"none", "open"} : fd' = [fd EXCEPT ![r] = left]
    /\ Throws(r)

-----------------------------------------------------------------------------
\* The session resolves; the trace is closed before anyone reads it.
SessionEnds(r) ==
    /\ Living(r) /\ at[r] = "session"
    /\ fd' = [fd EXCEPT ![r] = "closed"]
    /\ Await(r, "results")
    /\ UNCHANGED <<ending, agentDir, wsVars>>

\* `finally` up to its first await: close the trace, then unpin if pinned.
EnterFinally(r, how) ==
    /\ Ends(r, how)
    /\ fd' = [fd EXCEPT ![r] = "closed"]
    /\ Await(r, IF r \in Pinned THEN "unpin" ELSE "release")
    /\ UNCHANGED agentDir

\* Mutated form: the session is started before the try block.
SessionRejectsOutside(r) ==
    /\ Living(r) /\ at[r] = "session" /\ WsFault
    /\ fd' = [fd EXCEPT ![r] = "closed"]
    /\ Throws(r)
    /\ UNCHANGED agentDir

SessionRejects(r) ==
    /\ Living(r) /\ at[r] = "session" /\ WsFault
    /\ EnterFinally(r, "threw")

\* Token cap, workspace copy, oracle, plugins, metrics and summary.
ResultsReady(r) ==
    /\ Living(r) /\ at[r] = "results"
    /\ EnterFinally(r, "returned")
    /\ UNCHANGED wsVars

ResultsReject(r) ==
    /\ Living(r) /\ at[r] = "results" /\ WsFault
    /\ EnterFinally(r, "threw")

Unpin(r) ==
    /\ Living(r) /\ at[r] = "unpin"
    /\ agentDir' = [agentDir EXCEPT ![r] = "none"]
    /\ Await(r, "release")
    /\ UNCHANGED <<ending, fd, wsVars>>

\* agentPin.cleanup rejects: the rest of `finally` does not run.
UnpinRejects(r) ==
    /\ Living(r) /\ at[r] = "unpin" /\ WsFault
    /\ \E left \in {"partial", "staged"} : agentDir' = [agentDir EXCEPT ![r] = left]
    /\ Throws(r)
    /\ UNCHANGED fd

\* wsHandle.cleanup is called ...
Release(r) ==
    /\ at[r] = "release"
    /\ QueueRemove(r)
    /\ UNCHANGED runVars

\* ... and settles; a rejection replaces what the function was to return.
Released(r) ==
    /\ Living(r) /\ at[r] = "release" /\ step[r] = "gone"
    /\ IF r \in active THEN Throws(r) ELSE Await(r, "over") /\ UNCHANGED ending
    /\ UNCHANGED <<agentDir, fd, wsVars>>

-----------------------------------------------------------------------------
AcquireStep(r) ==
    \/ WorkspaceReady(r) \/ WorkspaceRejects(r) \/ ContextReady(r) \/ ContextRejects(r)
    \/ PinReady(r) \/ PinRejects(r) \/ TracerThrows(r)

UseStep(r) == SessionEnds(r) \/ SessionRejects(r) \/ ResultsReady(r) \/ ResultsReject(r)

FinallyStep(r) == Unpin(r) \/ UnpinRejects(r) \/ Release(r) \/ Released(r)

RunStep(r) == AcquireStep(r) \/ UseStep(r) \/ FinallyStep(r)

WorkspaceStep(r) == (PrepareStep(r) \/ DestroyStep(r)) /\ UNCHANGED runVars

LockStep(c) == LockSettles(c) /\ UNCHANGED runVars

Next ==
    \/ \E r \in Runs : EnterRun(r) \/ RunStep(r) \/ WorkspaceStep(r)
    \/ \E c \in LockCalls : LockStep(c)
    \/ \E r \in Runs : OrphanEnds(r) /\ UNCHANGED runVars
    \/ (ProcessEnds \/ Restart) /\ UNCHANGED runVars

\* Every await settles; nothing has to start a run or end the process.
Fairness ==
    /\ \A r \in Runs : WF_vars(RunStep(r)) /\ WF_vars(WorkspaceStep(r))
    /\ \A c \in LockCalls : WF_vars(LockStep(c))

Spec == Init /\ [][Next]_vars /\ Fairness

-----------------------------------------------------------------------------
\* Type invariant of the run's resources.
TypeOK ==
    /\ WsTypeOK
    /\ at \in [Runs -> Awaits]
    /\ ending \in [Runs -> {"none", "returned", "threw"}]
    /\ agentDir \in [Runs -> {"none", "partial", "staged"}]
    /\ fd \in [Runs -> {"none", "open", "closed"}]

\* The agent and its oracle work in a directory that exists, with its branch
\* and its record, and with the handlers that would remove it registered,
\* whatever other runs of the scenario create and tear down meanwhile.
WorksInItsWorkspace ==
    \A r \in Runs : Living(r) /\ at[r] \in {"session", "results"} =>
        step[r] = "held" /\ r \in worktrees \cap branches \cap active /\ handlers

\* A run gives back what it acquired.  One that returns leaves no worktree, no
\* staged agent directory and no open trace; of one whose session or results
\* failed, only a failing unpin keeps the workspace.
GivesBack ==
    \A r \in Runs : Living(r) /\ at[r] = "over" =>
        /\ fd[r] = "closed" /\ agentDir[r] = "none" => step[r] = "gone"
        /\ ending[r] = "returned" =>
               r \notin worktrees \cup active /\ agentDir[r] = "none" /\ fd[r] = "closed"

\* A run that starts comes to an end, in a process that lives.
EveryRunEnds == \A r \in Runs : at[r] = "workspace" ~> at[r] = "over" \/ ~Living(r)

\* "The handle's cleanup runs from the finally block at the bottom of this
\* function" (runner/index.ts:523): a run that is over, whether it returned or
\* threw, has had the cleanup of its handle called.
CleanupRuns == \A r \in Runs : Living(r) /\ at[r] = "over" => step[r] # "held"
=============================================================================
