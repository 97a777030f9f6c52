------------------------------ MODULE Workspaces ------------------------------
(***************************************************************************)
(* The git_worktree strategy of workspace/index.ts: each run turns the     *)
(* scenario's directory into a repository unless it is one already, adds a *)
(* worktree of its own under the repository's lock, and destroys it under  *)
(* that lock.  The exit handlers destroy what activeWorkspaces still       *)
(* records.  The lock is RepoLock, with two calls for each run.  A process *)
(* that was ended may be followed by another on the same directories, with *)
(* the runs that were not begun.                                           *)
(*                                                                         *)
(* git runs in processes of its own: a command starts and ends in separate *)
(* steps, commands that write the same lock file exclude each other by     *)
(* failing, and a command under way outlives a process that is killed.     *)
(***************************************************************************)
EXTENDS Naturals, FiniteSets

CONSTANTS
    Runs,       \* runs of the matrix, each with a fresh workspace id
    Repos,      \* scenario code directories
    RepoOf,     \* RepoOf[r]: the directory of run r's scenario
    NoRun,      \* nobody
    MaxFaults,  \* bound: operations that fail by themselves in one behaviour
    MaxRestarts \* bound: processes that follow an ended one

ASSUME WorkspacesAssumption ==
    /\ RepoOf \in [Runs -> Repos]
    /\ NoRun \notin Runs \cup (Runs \X {"add", "remove"})
    /\ MaxFaults \in Nat /\ MaxRestarts \in Nat

VARIABLES
    step,        \* step[r]: where prepare or destroy of run r stands
    underway,    \* runs with a command of prepareScenarioRepo under way
    repository,  \* repository[p]: "absent", without a commit "empty" or "staged",
                 \* with a commit "hollow" (of no file) or "committed"
    gitLock,     \* gitLock[p]: who holds config.lock and index.lock
    worktrees,   \* runs whose worktree directory is on disk
    branches,    \* runs whose branch facet/<id> exists
    active,      \* activeWorkspaces
    handlers,    \* cleanupRegistered
    alive,       \* the process runs
    lost,        \* runs of processes that have ended
    restarts,    \* processes that followed one
    unremoved,   \* history: runs whose worktree the handlers tried to remove in vain
    failures,    \* operations that failed by themselves so far
    pc, previous, settled, repoQueues, clock, ticket   \* the lock

repoVars == <<underway, repository, gitLock>>
treeVars == <<worktrees, branches>>
procVars == <<handlers, alive, lost, restarts, unremoved>>
lockVars == <<pc, previous, settled, repoQueues, clock, ticket>>
wsVars   == <<step, repoVars, treeVars, active, procVars, failures, lockVars>>

LockCalls == Runs \X {"add", "remove"}

Lock == INSTANCE RepoLock WITH
    Calls  <- LockCalls,
    Keys   <- Repos,
    KeyOf  <- [c \in LockCalls |-> RepoOf[c[1]]],
    NoCall <- NoRun

Commands == {"init", "email", "name", "add", "commit"}

\* The process of run r is there to take its next step.
Living(r) == alive /\ r \notin lost

\* Mutated form: the initial commit is forgotten.
FollowingNoCommit(c) ==
    [init |-> "email", email |-> "name", name |-> "add", add |-> "mkroot", commit |-> "mkroot"][c]

\* Mutated form: nothing is added before the commit, which may be empty.
FollowingNoAdd(c) ==
    [init |-> "email", email |-> "name", name |-> "commit", add |-> "commit", commit |-> "mkroot"][c]

\* What prepareScenarioRepo awaits after each command; after the last one the
\* caller enters createGitWorktree.
Following(c) ==
    [init |-> "email", email |-> "name", name |-> "add", add |-> "commit", commit |-> "mkroot"][c]

\* What a command makes of the repository; the commit is made --allow-empty.
After(c, state) ==
    CASE c = "init" /\ state = "absent" -> "empty"
      [] c = "add" /\ state = "empty" -> "staged"
      [] c = "commit" -> IF state = "empty" THEN "hollow" ELSE "committed"
      [] OTHER -> state

LockFile(c) == IF c \in {"add", "commit"} THEN "index" ELSE "config"

\* Settled for the caller of prepare: it has a handle or an error.
Prepared == {"held", "queue_remove", "removing", "removed", "gone"}
Steps == {"idle", "inspect", "mkroot", "queue_add", "adding", "worktree_made", "add_failed",
          "failed"} \cup Commands \cup Prepared

Goto(r, s) == step' = [step EXCEPT ![r] = s]
MayFail == failures < MaxFaults
Fault   == MayFail /\ failures' = failures + 1

-----------------------------------------------------------------------------
WsInit ==
    /\ step = [r \in Runs |-> "idle"]
    /\ underway = {}
    /\ repository \in [Repos -> {"absent", "committed"}]
    /\ gitLock = [p \in Repos |-> [config |-> NoRun, index |-> NoRun]]
    /\ worktrees = {} /\ branches = {} /\ active = {}
    /\ handlers = FALSE /\ alive = TRUE /\ lost = {} /\ restarts = 0 /\ unremoved = {}
    /\ failures = 0
    /\ Lock!Init

\* prepare is called: stat, then checkIsRepo.
BeginPrepare(r) ==
    /\ Living(r) /\ step[r] = "idle"
    /\ Goto(r, "inspect")
    /\ UNCHANGED <<repoVars, treeVars, active, procVars, failures, lockVars>>

\* createGitWorktree registers the handlers before its first await.
EnterCreate(r) == Goto(r, "mkroot") /\ handlers' = TRUE

\* checkIsRepo and rev-parse: a directory whose own .git exists is taken as
\* it is, whether or not it has a commit.
Inspect(r) ==
    /\ Living(r) /\ step[r] = "inspect"
    /\ IF repository[RepoOf[r]] = "absent"
       THEN Goto(r, "init") /\ UNCHANGED handlers
       ELSE EnterCreate(r)
    /\ UNCHANGED <<repoVars, treeVars, active, alive, lost, restarts, unremoved, failures, lockVars>>

BeginCommand(r) ==
    /\ Living(r) /\ step[r] \in Commands /\ r \notin underway
    /\ gitLock[RepoOf[r]][LockFile(step[r])] = NoRun
    /\ gitLock' = [gitLock EXCEPT ![RepoOf[r]][LockFile(step[r])] = r]
    /\ underway' = underway \cup {r}
    /\ UNCHANGED <<step, repository, treeVars, active, procVars, failures, lockVars>>

\* The lock file of another command exists: git gives up, prepare throws.
CommandBlocked(r) ==
    /\ Living(r) /\ step[r] \in Commands /\ r \notin underway
    /\ gitLock[RepoOf[r]][LockFile(step[r])] # NoRun
    /\ Goto(r, "failed")
    /\ UNCHANGED <<repoVars, treeVars, active, procVars, failures, lockVars>>

Unlock(r) ==
    /\ gitLock' = [gitLock EXCEPT ![RepoOf[r]][LockFile(step[r])] = NoRun]
    /\ underway' = underway \ {r}

EndCommand(r) ==
    /\ Living(r) /\ r \in underway
    /\ Unlock(r)
    /\ repository' = [repository EXCEPT ![RepoOf[r]] = After(step[r], @)]
    /\ IF step[r] = "commit"
       THEN EnterCreate(r)
       ELSE Goto(r, Following(step[r])) /\ UNCHANGED handlers
    /\ UNCHANGED <<treeVars, active, alive, lost, restarts, unremoved, failures, lockVars>>

CommandFails(r) ==
    /\ Living(r) /\ r \in underway /\ Fault
    /\ Unlock(r)
    /\ Goto(r, "failed")
    /\ UNCHANGED <<repository, treeVars, active, procVars, lockVars>>

\* A command whose process has ended ends by itself, with its work done or not.
OrphanEnds(r) ==
    /\ ~Living(r) /\ r \in underway
    /\ Unlock(r)
    /\ \/ repository' = [repository EXCEPT ![RepoOf[r]] = After(step[r], @)]
       \/ UNCHANGED repository
    /\ UNCHANGED <<step, treeVars, active, procVars, failures, lockVars>>

-----------------------------------------------------------------------------
(* createGitWorktree *)

\* The workspace root exists; withRepoLock is called in the same turn.
QueueAdd(r) ==
    /\ Living(r) /\ step[r] = "mkroot"
    /\ Lock!Arrive(<<r, "add">>)
    /\ Goto(r, "queue_add")
    /\ UNCHANGED <<repoVars, treeVars, active, procVars, failures>>

MakeRootFails(r) ==
    /\ Living(r) /\ step[r] = "mkroot" /\ Fault
    /\ Goto(r, "failed")
    /\ UNCHANGED <<repoVars, treeVars, active, procVars, lockVars>>

BeginAdd(r) ==
    /\ Living(r) /\ step[r] = "queue_add"
    /\ Lock!Enter(<<r, "add">>)
    /\ Goto(r, "adding")
    /\ UNCHANGED <<repoVars, treeVars, active, procVars, failures>>

\* git worktree add ends, whether or not the process still waits for it.  It
\* needs a commit to check out.
GitAdds(r) ==
    /\ step[r] = "adding"
    /\ repository[RepoOf[r]] \in {"hollow", "committed"}
    /\ worktrees' = worktrees \cup {r}
    /\ branches' = branches \cup {r}
    /\ Goto(r, "worktree_made")
    /\ UNCHANGED <<repoVars, active, procVars, failures, lockVars>>

GitRefusesAdd(r) ==
    /\ step[r] = "adding"
    /\ \/ repository[RepoOf[r]] \notin {"hollow", "committed"} /\ UNCHANGED <<failures, branches>>
       \/ Fault /\ branches' \in {branches, branches \cup {r}}
    /\ Goto(r, "add_failed")
    /\ UNCHANGED <<repoVars, worktrees, active, procVars, lockVars>>

\* Mutated form: the record goes under another key than the workspace.
ResumeAddMisfiles(r) ==
    /\ Living(r) /\ step[r] = "worktree_made"
    /\ Lock!Leave(<<r, "add">>)
    /\ active' = active \cup {<<r, "add">>}
    /\ Goto(r, "held")
    /\ UNCHANGED <<repoVars, treeVars, procVars, failures>>

\* The lock is released and the workspace recorded, with no turn of another
\* task or a signal handler in between.
ResumeAdd(r) ==
    /\ Living(r) /\ step[r] = "worktree_made"
    /\ Lock!Leave(<<r, "add">>)
    /\ active' = active \cup {r}
    /\ Goto(r, "held")
    /\ UNCHANGED <<repoVars, treeVars, procVars, failures>>

\* Mutated form: a failing task does not release its slot.
ThrowAddKeepsLock(r) ==
    /\ Living(r) /\ step[r] = "add_failed"
    /\ Goto(r, "failed")
    /\ UNCHANGED <<repoVars, treeVars, active, procVars, failures, lockVars>>

ThrowAdd(r) ==
    /\ Living(r) /\ step[r] = "add_failed"
    /\ Lock!Leave(<<r, "add">>)
    /\ Goto(r, "failed")
    /\ UNCHANGED <<repoVars, treeVars, active, procVars, failures>>

-----------------------------------------------------------------------------
(* destroyWorkspace: the record of a handle is always there. *)

QueueRemove(r) ==
    /\ Living(r) /\ step[r] = "held"
    /\ Lock!Arrive(<<r, "remove">>)
    /\ Goto(r, "queue_remove")
    /\ UNCHANGED <<repoVars, treeVars, active, procVars, failures>>

BeginRemove(r) ==
    /\ Living(r) /\ step[r] = "queue_remove"
    /\ Lock!Enter(<<r, "remove">>)
    /\ Goto(r, "removing")
    /\ UNCHANGED <<repoVars, treeVars, active, procVars, failures>>

\* worktree remove and branch -D: what either reports is ignored.
GitRemoves(r) ==
    /\ Living(r) /\ step[r] = "removing"
    /\ \/ worktrees' = worktrees \ {r} /\ branches' = branches \ {r} /\ UNCHANGED failures
       \/ Fault /\ worktrees' = worktrees \ {r} /\ UNCHANGED branches
       \/ Fault /\ UNCHANGED treeVars
    /\ Lock!Leave(<<r, "remove">>)
    /\ Goto(r, "removed")
    /\ UNCHANGED <<repoVars, active, procVars>>

\* Mutated form: rm takes the workspace root.
ForgetEveryWorkspace(r) ==
    /\ Living(r) /\ step[r] = "removed"
    /\ worktrees' = {}
    /\ active' = active \ {r}
    /\ Goto(r, "gone")
    /\ UNCHANGED <<branches, repoVars, procVars, failures, lockVars>>

\* rm of what is left, then the record is dropped.
ForgetWorkspace(r) ==
    /\ Living(r) /\ step[r] = "removed"
    /\ worktrees' = worktrees \ {r}
    /\ active' = active \ {r}
    /\ Goto(r, "gone")
    /\ UNCHANGED <<branches, repoVars, procVars, failures, lockVars>>

\* rm rejects: the record stays for the exit handlers.
ForgetFails(r) ==
    /\ Living(r) /\ step[r] = "removed" /\ r \in worktrees /\ Fault
    /\ Goto(r, "gone")
    /\ UNCHANGED <<treeVars, active, repoVars, procVars, lockVars>>

-----------------------------------------------------------------------------
LockSettles(c) ==
    /\ Living(c[1])
    /\ Lock!Settle(c)
    /\ UNCHANGED <<step, repoVars, treeVars, active, procVars, failures>>

\* Mutated form: the handlers empty the map and remove nothing.
ProcessEndsUnclean ==
    /\ alive /\ alive' = FALSE
    /\ active' = {}
    /\ UNCHANGED <<step, repoVars, treeVars, handlers, lost, restarts, unremoved, failures, lockVars>>

\* SIGINT, SIGTERM or the end of the program.  Once registered, the handlers
\* remove every recorded workspace synchronously; before that nothing runs.
\* worktree remove and rm may both fail, and so may branch -D: the handlers
\* swallow that (it does not count in MaxFaults) and clear the map all the same.
ProcessEnds ==
    /\ alive /\ alive' = FALSE
    /\ IF handlers
       THEN /\ \E stuck \in SUBSET (active \cap worktrees) :
                  /\ worktrees' = worktrees \ (active \ stuck)
                  /\ unremoved' = unremoved \cup stuck
            /\ \E kept \in SUBSET active : branches' = branches \ (active \ kept)
            /\ active' = {}
       ELSE UNCHANGED <<treeVars, active, unremoved>>
    /\ UNCHANGED <<step, repoVars, handlers, lost, restarts, failures, lockVars>>

\* Another process with the runs that were not begun, each with a fresh id.  It
\* has the files of the first one, and none of its memory.
Restart ==
    /\ ~alive /\ restarts < MaxRestarts
    /\ alive' = TRUE /\ restarts' = restarts + 1
    /\ lost' = {r \in Runs : step[r] # "idle"}
    /\ handlers' = FALSE /\ active' = {}
    /\ repoQueues' = [p \in Repos |-> NoRun]
    /\ UNCHANGED <<step, repoVars, treeVars, unremoved, failures, pc, previous, settled, clock, ticket>>

\* Steps the event loop and git bring about for run r.
PrepareStep(r) ==
    \/ Inspect(r) \/ BeginCommand(r) \/ CommandBlocked(r) \/ EndCommand(r) \/ CommandFails(r)
    \/ QueueAdd(r) \/ MakeRootFails(r) \/ BeginAdd(r) \/ GitAdds(r) \/ GitRefusesAdd(r)
    \/ ResumeAdd(r) \/ ThrowAdd(r)

DestroyStep(r) == BeginRemove(r) \/ GitRemoves(r) \/ ForgetWorkspace(r) \/ ForgetFails(r)

-----------------------------------------------------------------------------
\* Type invariant of the workspaces.
WsTypeOK ==
    /\ step \in [Runs -> Steps]
    /\ underway \subseteq Runs
    /\ repository \in [Repos -> {"absent", "empty", "staged", "hollow", "committed"}]
    /\ gitLock \in [Repos -> [config : Runs \cup {NoRun}, index : Runs \cup {NoRun}]]
    /\ worktrees \subseteq Runs /\ branches \subseteq Runs /\ active \subseteq Runs
    /\ handlers \in BOOLEAN /\ alive \in BOOLEAN
    /\ lost \subseteq Runs /\ restarts \in 0..MaxRestarts /\ unremoved \subseteq Runs
    /\ failures \in 0..MaxFaults
    /\ Lock!TypeOK

\* A worktree left on disk when the process has ended belongs to a run whose
\* `worktree add` was under way, or the handlers came to it and could not remove
\* it: none is forgotten, also not one whose destruction had failed or was never
\* asked for.
OnlyInFlightLeftBehind ==
    \A r \in worktrees : ~Living(r) => step[r] = "worktree_made" \/ r \in unremoved

\* However the initialisations of a fresh scenario interfere, one of them gets
\* through: if nothing fails by itself and every run of the process has settled,
\* the repository has its commit and some run got a workspace.  The exception is
\* a repository that an earlier process left in the middle of its
\* initialisation, which nobody completes.
InitRaceHasAWinner ==
    failures = 0 /\ alive =>
        \A p \in Repos :
            LET users == {r \in Runs \ lost : RepoOf[r] = p}
            IN  users # {} /\ (\A r \in users : step[r] \in Prepared \cup {"failed"}) =>
                    \/ /\ repository[p] = "committed"
                       /\ \E r \in users : step[r] \in Prepared
                    \/ \E r \in lost : RepoOf[r] = p /\ step[r] \in Commands

\* No agent works on less than the scenario's files: however initialisations
\* raced, failed or were cut off by the end of their process, and although the
\* commit may be empty, a worktree is made only of one that has them all.
WholeScenario == \A r \in worktrees : repository[RepoOf[r]] = "committed"
=============================================================================
