------------------------- MODULE RunLifecycle_proofs -------------------------
(***************************************************************************)
(* Runs and their workspaces, for any number of runs, of repositories, of  *)
(* failing operations and of processes that follow an ended one.           *)
(***************************************************************************)
EXTENDS RunLifecycle, TLAPS

-----------------------------------------------------------------------------
(***************************************************************************)
(* The repositories.  That a worktree is made only of a repository with    *)
(* its files is not inductive: it needs to know how far the repository is  *)
(* when a run is about to issue a command, whatever the other runs and the *)
(* commands of ended processes have made of it.                            *)
(***************************************************************************)
\* A command under way is the one its run stands at.
UnderwayIsACommand == \A r \in underway : step[r] \in Commands

\* A command finds what the commands before it have made of the repository.
CommandsInOrder ==
    \A r \in Runs :
        /\ step[r] \in {"email", "name", "add"} => repository[RepoOf[r]] # "absent"
        /\ step[r] = "commit" => repository[RepoOf[r]] \in {"staged", "committed"}

\* The commit that is allowed to be empty never is.
NeverHollow == \A p \in Repos : repository[p] # "hollow"

RepositoryInv == UnderwayIsACommand /\ CommandsInOrder /\ NeverHollow /\ WholeScenario

(***************************************************************************)
(* The initialisation race.  While nothing fails by itself, a repository   *)
(* that is not ready has a run that is getting it ready: the one whose     *)
(* command holds the lock file another one failed on.                      *)
(***************************************************************************)
Users(p) == {r \in Runs \ lost : RepoOf[r] = p}
Fresh    == {"idle", "inspect"}
OnItsWay == {"mkroot", "queue_add", "adding", "worktree_made"} \cup Prepared

\* A lock file of git belongs to a command under way on that repository.
LockFilesHeld ==
    \A p \in Repos : \A f \in {"config", "index"} : gitLock[p][f] # NoRun =>
        /\ gitLock[p][f] \in underway
        /\ RepoOf[gitLock[p][f]] = p
        /\ LockFile(step[gitLock[p][f]]) = f

InTheMaking(p) == \E r \in Runs : RepoOf[r] = p /\ step[r] \in Commands
Untouched(p)   == repository[p] = "absent" /\ \A r \in Users(p) : step[r] \in Fresh
Ready(p) ==
    /\ repository[p] = "committed"
    /\ \/ \A r \in Users(p) : step[r] \in Fresh
       \/ \E r \in Users(p) : step[r] \in OnItsWay

RaceGoesOn == failures = 0 => \A p \in Repos : InTheMaking(p) \/ Untouched(p) \/ Ready(p)

(***************************************************************************)
(* The records.  The exit handlers find every workspace of the process but *)
(* the one whose `worktree add` has not been answered yet.                 *)
(***************************************************************************)
Holding == {"held", "queue_remove", "removing", "removed"}

\* A run that holds a workspace is recorded, its worktree and branch exist until
\* they are removed, and the handlers are registered since before it was made.
HoldersRecorded ==
    \A r \in Runs : Living(r) =>
        /\ step[r] \in Holding => r \in active
        /\ step[r] \in {"worktree_made", "held"} => r \in worktrees \cap branches
        /\ step[r] \in OnItsWay \cup {"add_failed"} => handlers

\* A worktree on disk is recorded, or its `worktree add` was under way, or the
\* handlers have tried to remove it.
WorktreesAccounted ==
    \A r \in worktrees :
        step[r] = "worktree_made" \/ (Living(r) /\ r \in active) \/ r \in unremoved

\* Nothing is recorded before the handlers are registered.
RecordsHandled == active # {} => handlers

\* What the handlers tried in vain to remove was of the process that ended.
UnremovedLost ==
    /\ \A r \in worktrees \cup unremoved : step[r] # "idle"
    /\ \A r \in unremoved : ~Living(r)

RecordInv == HoldersRecorded /\ WorktreesAccounted /\ RecordsHandled /\ UnremovedLost

WsInv == WsTypeOK /\ RepositoryInv /\ LockFilesHeld /\ RaceGoesOn /\ RecordInv

(***************************************************************************)
(* The run.  Where runSingleRun stands says where its workspace stands and *)
(* what else it holds.                                                     *)
(***************************************************************************)
\* The workspace of a run, by the await of runSingleRun.
WorkspaceFollows ==
    \A r \in Runs :
        /\ at[r] = "idle" <=> step[r] = "idle"
        /\ at[r] = "workspace" => step[r] \notin Prepared \ {"held"}
        /\ at[r] \in {"context", "pin", "session", "results", "unpin"} => step[r] = "held"
        /\ at[r] = "release" => step[r] \in Prepared
        /\ at[r] = "over" => step[r] \in {"failed", "held", "gone"}

\* The pin and the trace of a run, by the await of runSingleRun.
ResourcesFollow ==
    \A r \in Runs :
        /\ at[r] \in {"idle", "workspace", "context", "pin"} =>
               fd[r] = "none" /\ agentDir[r] = "none"
        /\ at[r] \in {"results", "unpin", "release"} => fd[r] = "closed"
        /\ at[r] \in {"session", "results"} /\ r \notin Pinned => agentDir[r] = "none"
        /\ at[r] = "release" => agentDir[r] = "none"

\* What is left of a run that is over, by how far its workspace has come.
EndingsFollow ==
    \A r \in Runs : at[r] = "over" =>
        /\ step[r] = "failed" => fd[r] = "none" /\ ending[r] = "threw"
        /\ step[r] = "held" =>
               ending[r] = "threw" /\ ~(fd[r] = "closed" /\ agentDir[r] = "none")
        /\ step[r] = "gone" => fd[r] = "closed" /\ agentDir[r] = "none"
        /\ ending[r] = "returned" /\ Living(r) => r \notin active

RunInv == WorkspaceFollows /\ ResourcesFollow /\ EndingsFollow

IInv == TypeOK /\ WsInv /\ RunInv

-----------------------------------------------------------------------------
(* What a step may be *)

\* The steps of the runs as the workspaces see them.
WsNext ==
    \/ \E r \in Runs :
           BeginPrepare(r) \/ PrepareStep(r) \/ QueueRemove(r) \/ DestroyStep(r) \/ OrphanEnds(r)
    \/ \E c \in LockCalls : LockSettles(c)
    \/ ProcessEnds \/ Restart \/ WsFault \/ UNCHANGED wsVars

\* Whatever a run does, its workspaces take one of their own steps, fail once

\* more, or stay as they are.
LEMMA StepIsWsNext == [Next]_vars => WsNext
<1> SUFFICES ASSUME [Next]_vars PROVE WsNext
  OBVIOUS
<1>1. ASSUME NEW r \in Runs, EnterRun(r) PROVE WsNext
  BY <1>1 DEF EnterRun, WsNext
<1>2. ASSUME NEW r \in Runs, AcquireStep(r) PROVE WsNext
  BY <1>2 DEF AcquireStep, WorkspaceReady, WorkspaceRejects, ContextReady, ContextRejects,
              PinReady, PinRejects, TracerThrows, WsNext
<1>3. ASSUME NEW r \in Runs, UseStep(r) PROVE WsNext
  BY <1>3 DEF UseStep, SessionEnds, SessionRejects, ResultsReady, ResultsReject, WsNext
<1>4. ASSUME NEW r \in Runs, FinallyStep(r) PROVE WsNext
  BY <1>4 DEF FinallyStep, Unpin, UnpinRejects, Release, Released, WsNext
<1>5. ASSUME NEW r \in Runs, WorkspaceStep(r) PROVE WsNext
  BY <1>5 DEF WorkspaceStep, WsNext
<1>6. CASE UNCHANGED vars
  BY <1>6 DEF vars, WsNext
<1> QED
  BY <1>1, <1>2, <1>3, <1>4, <1>5, <1>6 DEF Next, RunStep, LockStep, WsNext

-----------------------------------------------------------------------------
(* Types *)

\* The key function and the missing call the lock is given are what it assumes.
LEMMA LockConstants ==
    /\ [c \in LockCalls |-> RepoOf[c[1]]] \in [LockCalls -> Repos]
    /\ NoRun \notin LockCalls
  BY WorkspacesAssumption DEF LockCalls

\* A step of the lock, or none, preserves the types of its variables.
LEMMA LockTyped ==
    ASSUME Lock!TypeOK,
           \/ \E c \in LockCalls : Lock!Arrive(c) \/ Lock!Enter(c) \/ Lock!Leave(c) \/ Lock!Settle(c)
           \/ UNCHANGED lockVars
    PROVE  Lock!TypeOK'
<1> USE LockConstants DEF Lock!TypeOK
<1>1. ASSUME NEW c \in LockCalls, Lock!Arrive(c) PROVE Lock!TypeOK'
  BY <1>1 DEF Lock!Arrive
<1>2. ASSUME NEW c \in LockCalls, Lock!Enter(c) PROVE Lock!TypeOK'
  BY <1>2 DEF Lock!Enter
<1>3. ASSUME NEW c \in LockCalls, Lock!Leave(c) PROVE Lock!TypeOK'
  BY <1>3 DEF Lock!Leave
<1>4. ASSUME NEW c \in LockCalls, Lock!Settle(c) PROVE Lock!TypeOK'
  BY <1>4 DEF Lock!Settle
<1>5. CASE UNCHANGED lockVars
  BY <1>5 DEF lockVars
<1> QED
  BY <1>1, <1>2, <1>3, <1>4, <1>5

\* The types of the workspaces without those of the lock.
TreeTypeOK ==
    /\ step \in [Runs -> Steps]
    /\ underway \subseteq Runs
    /\ repository \in [Repos -> {"absent", "empty", "staged", "hollow", "committed"}]
    /\ gitLock \in [Repos -> [config : Runs \cup {NoRun}, index : Runs \cup {NoRun}]]
    /\ worktrees \subseteq Runs /\ branches \subseteq Runs /\ active \subseteq Runs
    /\ handlers \in BOOLEAN /\ alive \in BOOLEAN
    /\ lost \subseteq Runs /\ restarts \in 0..MaxRestarts /\ unremoved \subseteq Runs
    /\ failures \in 0..MaxFaults

\* Every step of the workspaces moves the lock by one of its own steps, or

\* starts it anew with its process.
LEMMA LockFollows ==
    ASSUME WsNext, Lock!TypeOK
    PROVE  Lock!TypeOK'
<1>1. ASSUME NEW r \in Runs, PrepareStep(r) PROVE Lock!TypeOK'
  <2>1. <<r, "add">> \in LockCalls
    BY DEF LockCalls
  <2> QED
    BY <1>1, <2>1, LockTyped
    DEF PrepareStep, Inspect, BeginCommand, CommandBlocked, EndCommand, CommandFails, QueueAdd,
        MakeRootFails, BeginAdd, GitAdds, GitRefusesAdd, ResumeAdd, ThrowAdd
<1>2. ASSUME NEW r \in Runs, QueueRemove(r) \/ DestroyStep(r) PROVE Lock!TypeOK'
  <2>1. <<r, "remove">> \in LockCalls
    BY DEF LockCalls
  <2> QED
    BY <1>2, <2>1, LockTyped
    DEF QueueRemove, DestroyStep, BeginRemove, GitRemoves, ForgetWorkspace, ForgetFails
<1>3. ASSUME NEW r \in Runs, BeginPrepare(r) \/ OrphanEnds(r) PROVE Lock!TypeOK'
  BY <1>3, LockTyped DEF BeginPrepare, OrphanEnds
<1>4. ASSUME NEW c \in LockCalls, LockSettles(c) PROVE Lock!TypeOK'
  BY <1>4, LockTyped DEF LockSettles
<1>5. CASE Restart
  BY <1>5, LockConstants DEF Restart, Lock!TypeOK
<1>6. CASE ProcessEnds \/ WsFault \/ UNCHANGED wsVars
  BY <1>6, LockTyped DEF ProcessEnds, WsFault, wsVars
<1> QED
  BY <1>1, <1>2, <1>3, <1>4, <1>5, <1>6 DEF WsNext

\* Both lock files of git are known ones.
LEMMA LockFileTyped == \A c : LockFile(c) \in {"config", "index"}
  BY DEF LockFile

\* A command leaves a repository in one of its states.
LEMMA AfterTyped ==
    ASSUME NEW c, NEW s \in {"absent", "empty", "staged", "hollow", "committed"}
    PROVE  After(c, s) \in {"absent", "empty", "staged", "hollow", "committed"}
  BY DEF After

\* Taking and dropping a lock file of git keeps its type.
LEMMA GitLockTyped ==
    ASSUME NEW who \in Runs \cup {NoRun}, NEW p \in Repos, NEW c, TreeTypeOK
    PROVE  [gitLock EXCEPT ![p][LockFile(c)] = who]
               \in [Repos -> [config : Runs \cup {NoRun}, index : Runs \cup {NoRun}]]
  BY LockFileTyped DEF TreeTypeOK

\* Each step of a run's preparation preserves the types: what follows a command

\* is known, because only a command is ever under way.
LEMMA PrepareTyped ==
    ASSUME TreeTypeOK, UnderwayIsACommand, NEW r \in Runs, PrepareStep(r)
    PROVE  TreeTypeOK'
<1>0. RepoOf[r] \in Repos /\ NoRun \in Runs \cup {NoRun} /\ r \in Runs \cup {NoRun} /\ MaxFaults \in Nat
  BY WorkspacesAssumption
<1>1. CASE Inspect(r) \/ CommandBlocked(r) \/ QueueAdd(r) \/ BeginAdd(r) \/ GitAdds(r)
           \/ ResumeAdd(r) \/ ThrowAdd(r)
  BY <1>1
  DEF TreeTypeOK, Inspect, CommandBlocked, QueueAdd, BeginAdd, GitAdds, ResumeAdd, ThrowAdd,
      EnterCreate, Goto, Steps, Commands, Prepared, repoVars, treeVars, procVars
<1>2. CASE BeginCommand(r)
  BY <1>0, <1>2, GitLockTyped DEF TreeTypeOK, BeginCommand, treeVars, procVars
<1>3. CASE EndCommand(r)
  <2>1. After(step[r], repository[RepoOf[r]])
            \in {"absent", "empty", "staged", "hollow", "committed"}
    BY <1>0, AfterTyped DEF TreeTypeOK
  <2>2. gitLock' \in [Repos -> [config : Runs \cup {NoRun}, index : Runs \cup {NoRun}]]
    BY <1>0, <1>3, GitLockTyped DEF EndCommand, Unlock
  <2>3. step' \in [Runs -> Steps]
    <3>1. CASE step[r] = "commit"
      BY <1>3, <3>1 DEF EndCommand, EnterCreate, Goto, TreeTypeOK, Steps
    <3>2. CASE step[r] # "commit"
      <4>1. Following(step[r]) \in Steps
        BY <1>3, <3>2 DEF Following, Commands, Steps, EndCommand, UnderwayIsACommand
      <4>2. step' = [step EXCEPT ![r] = Following(step[r])]
        BY <1>3, <3>2 DEF EndCommand, Goto
      <4> QED BY <4>1, <4>2 DEF TreeTypeOK
    <3> QED BY <3>1, <3>2
  <2> QED
    BY <1>3, <2>1, <2>2, <2>3
    DEF TreeTypeOK, EndCommand, EnterCreate, Unlock, treeVars
<1>4. CASE CommandFails(r)
  BY <1>0, <1>4, GitLockTyped
  DEF TreeTypeOK, CommandFails, Unlock, Fault, MayFail, Goto, Steps, treeVars, procVars
<1>5. CASE MakeRootFails(r) \/ GitRefusesAdd(r)
  BY <1>0, <1>5
  DEF TreeTypeOK, MakeRootFails, GitRefusesAdd, Fault, MayFail, Goto, Steps, repoVars, treeVars,
      procVars
<1> QED
  BY <1>1, <1>2, <1>3, <1>4, <1>5 DEF PrepareStep

\* Every step of the workspaces preserves their types.
LEMMA TreeTyped ==
    ASSUME TreeTypeOK, UnderwayIsACommand, WsNext
    PROVE  TreeTypeOK'
<1> USE WorkspacesAssumption
<1>1. ASSUME NEW r \in Runs, BeginPrepare(r) \/ QueueRemove(r) PROVE TreeTypeOK'
  BY <1>1
  DEF TreeTypeOK, BeginPrepare, QueueRemove, Goto, Steps, Prepared, repoVars, treeVars, procVars
<1>2. ASSUME NEW r \in Runs, DestroyStep(r) PROVE TreeTypeOK'
  <2>1. CASE BeginRemove(r) \/ ForgetWorkspace(r) \/ ForgetFails(r)
    BY <2>1
    DEF TreeTypeOK, BeginRemove, ForgetWorkspace, ForgetFails, Goto, Steps, Prepared, Fault,
        MayFail, repoVars, treeVars, procVars
  <2>2. CASE GitRemoves(r)
    BY <2>2
    DEF TreeTypeOK, GitRemoves, Goto, Steps, Prepared, Fault, MayFail, repoVars, treeVars, procVars
  <2> QED BY <1>2, <2>1, <2>2 DEF DestroyStep
<1>3. ASSUME NEW r \in Runs, OrphanEnds(r) PROVE TreeTypeOK'
  <2>1. After(step[r], repository[RepoOf[r]])
            \in {"absent", "empty", "staged", "hollow", "committed"}
    BY AfterTyped DEF TreeTypeOK
  <2>2. gitLock' \in [Repos -> [config : Runs \cup {NoRun}, index : Runs \cup {NoRun}]]
    BY <1>3, GitLockTyped DEF OrphanEnds, Unlock
  <2>3. repository' \in [Repos -> {"absent", "empty", "staged", "hollow", "committed"}]
    BY <1>3, <2>1 DEF OrphanEnds, TreeTypeOK
  <2> QED
    BY <1>3, <2>2, <2>3 DEF TreeTypeOK, OrphanEnds, Unlock, treeVars, procVars
<1>4. CASE ProcessEnds
  BY <1>4 DEF TreeTypeOK, ProcessEnds, repoVars, treeVars
<1>5. CASE Restart
  <2>1. restarts' \in 0..MaxRestarts
    BY <1>5 DEF TreeTypeOK, Restart
  <2>2. lost' \subseteq Runs /\ handlers' = FALSE /\ active' = {} /\ alive' = TRUE
    BY <1>5 DEF Restart
  <2> QED
    BY <1>5, <2>1, <2>2 DEF TreeTypeOK, Restart, repoVars, treeVars
<1>6. CASE WsFault \/ UNCHANGED wsVars \/ \E c \in LockCalls : LockSettles(c)
  BY <1>6
  DEF TreeTypeOK, WsFault, LockSettles, Fault, MayFail, wsVars, repoVars, treeVars, procVars
<1>7. ASSUME NEW r \in Runs, PrepareStep(r) PROVE TreeTypeOK'
  BY <1>7, PrepareTyped
<1> QED
  BY <1>1, <1>2, <1>3, <1>4, <1>5, <1>6, <1>7 DEF WsNext

-----------------------------------------------------------------------------
(* The repositories *)

\* A command that finds what it should brings its repository forward, and never

\* back: what was initialised, added or committed stays so.
LEMMA AfterForward ==
    ASSUME NEW c \in Commands, NEW s \in {"absent", "empty", "staged", "committed"},
           c \in {"email", "name", "add"} => s # "absent",
           c = "commit" => s \in {"staged", "committed"}
    PROVE  /\ After(c, s) \in {"empty", "staged", "committed"}
           /\ s \in {"staged", "committed"} => After(c, s) \in {"staged", "committed"}
           /\ s = "committed" => After(c, s) = "committed"
           /\ c = "add" => After(c, s) \in {"staged", "committed"}
           /\ c = "commit" => After(c, s) = "committed"
  BY DEF After, Commands

\* The end of a command of run r, waited for or not.
LEMMA CommandEnds ==
    ASSUME TreeTypeOK, RepositoryInv, NEW r \in underway,
           repository' = [repository EXCEPT ![RepoOf[r]] = After(step[r], @)]
    PROVE  /\ \A p \in Repos :
                /\ repository'[p] \in {"absent", "empty", "staged", "committed"}
                /\ repository[p] # "absent" => repository'[p] # "absent"
                /\ repository[p] \in {"staged", "committed"} =>
                       repository'[p] \in {"staged", "committed"}
                /\ repository[p] = "committed" => repository'[p] = "committed"
           /\ repository'[RepoOf[r]] # "absent"
           /\ step[r] = "add" => repository'[RepoOf[r]] \in {"staged", "committed"}
           /\ step[r] = "commit" => repository'[RepoOf[r]] = "committed"
<1> DEFINE s == repository[RepoOf[r]]
           t == After(step[r], s)
<1>1. r \in Runs /\ RepoOf[r] \in Repos /\ step[r] \in Commands
  BY WorkspacesAssumption DEF TreeTypeOK, RepositoryInv, UnderwayIsACommand
<1>2. s \in {"absent", "empty", "staged", "committed"}
  BY <1>1 DEF TreeTypeOK, RepositoryInv, NeverHollow
<1>3. /\ t \in {"empty", "staged", "committed"}
      /\ s \in {"staged", "committed"} => t \in {"staged", "committed"}
      /\ s = "committed" => t = "committed"
      /\ step[r] = "add" => t \in {"staged", "committed"}
      /\ step[r] = "commit" => t = "committed"
  <2>1. step[r] \in {"email", "name", "add"} => s # "absent"
    BY <1>1 DEF RepositoryInv, CommandsInOrder
  <2>2. step[r] = "commit" => s \in {"staged", "committed"}
    BY <1>1 DEF RepositoryInv, CommandsInOrder
  <2> QED BY <1>1, <1>2, <2>1, <2>2, AfterForward
<1>4. \A p \in Repos : repository'[p] = IF p = RepoOf[r] THEN t ELSE repository[p]
  BY <1>1 DEF TreeTypeOK
<1>5. \A p \in Repos : repository[p] \in {"absent", "empty", "staged", "committed"}
  BY DEF TreeTypeOK, RepositoryInv, NeverHollow
<1> HIDE DEF s, t
<1> QED
  BY <1>1, <1>3, <1>4, <1>5 DEF s

\* A step that leaves the repositories alone and brings no run to a command

\* keeps the commands in order.
LEMMA QuietSteps ==
    ASSUME TreeTypeOK, RepositoryInv, NEW r \in Runs, NEW s \in Steps \ Commands,
           step' = [step EXCEPT ![r] = s], UNCHANGED repoVars, r \notin underway,
           \A q \in worktrees' : q \in worktrees \/ repository[RepoOf[q]] = "committed"
    PROVE  RepositoryInv'
<1>1. UnderwayIsACommand'
  BY DEF RepositoryInv, UnderwayIsACommand, TreeTypeOK, repoVars
<1>2. CommandsInOrder' /\ NeverHollow' /\ WholeScenario'
  BY DEF RepositoryInv, CommandsInOrder, NeverHollow, WholeScenario, TreeTypeOK, repoVars, Commands
<1> QED
  BY <1>1, <1>2 DEF RepositoryInv

\* No preparation step puts a repository out of order, or makes a worktree of
\* one without its files.
LEMMA PrepareKeepsRepositories ==
    ASSUME TreeTypeOK, RepositoryInv, NEW r \in Runs, PrepareStep(r)
    PROVE  RepositoryInv'
<1>0. /\ RepoOf[r] \in Repos
      /\ step[r] \notin Commands => r \notin underway
  BY WorkspacesAssumption DEF RepositoryInv, UnderwayIsACommand
<1>1. CASE Inspect(r)
  <2>1. CASE repository[RepoOf[r]] = "absent"
    <3>1. /\ step' = [step EXCEPT ![r] = "init"] /\ step[r] = "inspect"
          /\ UNCHANGED <<underway, repository, worktrees>>
      BY <1>1, <2>1 DEF Inspect, Goto, repoVars, treeVars
    <3> QED
      BY <1>0, <3>1
      DEF RepositoryInv, UnderwayIsACommand, CommandsInOrder, NeverHollow, WholeScenario,
          TreeTypeOK, Commands
  <2>2. CASE repository[RepoOf[r]] # "absent"
    BY <1>0, <1>1, <2>2, QuietSteps DEF Inspect, EnterCreate, Goto, treeVars, Steps, Commands
  <2> QED BY <2>1, <2>2
<1>2. CASE BeginCommand(r)
  BY <1>2
  DEF BeginCommand, treeVars, RepositoryInv, UnderwayIsACommand, CommandsInOrder, NeverHollow,
      WholeScenario
<1>3. CASE CommandBlocked(r) \/ MakeRootFails(r) \/ ThrowAdd(r)
  BY <1>0, <1>3, QuietSteps
  DEF CommandBlocked, MakeRootFails, ThrowAdd, Goto, treeVars, Steps, Commands
<1>4. CASE CommandFails(r)
  <2>1. /\ step' = [step EXCEPT ![r] = "failed"] /\ underway' = underway \ {r}
        /\ UNCHANGED <<repository, worktrees>>
    BY <1>4 DEF CommandFails, Unlock, Goto, treeVars
  <2> QED
    BY <1>0, <2>1
    DEF RepositoryInv, UnderwayIsACommand, CommandsInOrder, NeverHollow, WholeScenario,
        TreeTypeOK, Commands
<1>5. CASE EndCommand(r)
  <2> DEFINE next == IF step[r] = "commit" THEN "mkroot" ELSE Following(step[r])
  <2>1. /\ step' = [step EXCEPT ![r] = next] /\ underway' = underway \ {r}
        /\ repository' = [repository EXCEPT ![RepoOf[r]] = After(step[r], @)]
        /\ UNCHANGED worktrees /\ r \in underway /\ step[r] \in Commands
    BY <1>5
    DEF EndCommand, EnterCreate, Unlock, Goto, treeVars, RepositoryInv, UnderwayIsACommand
  <2>2. /\ next \in {"email", "name", "add", "commit", "mkroot"}
        /\ next = "commit" => step[r] = "add"
    BY <2>1 DEF Following, Commands
  <2>3. /\ \A p \in Repos :
              /\ repository'[p] \in {"absent", "empty", "staged", "committed"}
              /\ repository[p] # "absent" => repository'[p] # "absent"
              /\ repository[p] \in {"staged", "committed"} =>
                     repository'[p] \in {"staged", "committed"}
              /\ repository[p] = "committed" => repository'[p] = "committed"
        /\ repository'[RepoOf[r]] # "absent"
        /\ step[r] = "add" => repository'[RepoOf[r]] \in {"staged", "committed"}
    BY <2>1, CommandEnds
  <2> HIDE DEF next
  <2>4. UnderwayIsACommand' /\ NeverHollow' /\ WholeScenario'
    BY <2>1, <2>3, WorkspacesAssumption
    DEF RepositoryInv, UnderwayIsACommand, NeverHollow, WholeScenario, TreeTypeOK
  <2>5. CommandsInOrder'
    BY <2>1, <2>2, <2>3, WorkspacesAssumption DEF RepositoryInv, CommandsInOrder, TreeTypeOK
  <2> QED BY <2>4, <2>5 DEF RepositoryInv
<1>6. CASE QueueAdd(r) \/ BeginAdd(r) \/ GitRefusesAdd(r) \/ ResumeAdd(r)
  BY <1>0, <1>6, QuietSteps
  DEF QueueAdd, BeginAdd, GitRefusesAdd, ResumeAdd, Goto, treeVars, Steps, Commands, Prepared
<1>7. CASE GitAdds(r)
  <2>1. repository[RepoOf[r]] = "committed"
    BY <1>0, <1>7 DEF GitAdds, RepositoryInv, NeverHollow
  <2> QED
    BY <1>0, <1>7, <2>1, QuietSteps DEF GitAdds, Goto, Steps, Commands
<1> QED
  BY <1>1, <1>2, <1>3, <1>4, <1>5, <1>6, <1>7 DEF PrepareStep

\* Nor does any other step.
LEMMA RepositoriesKept ==
    ASSUME TreeTypeOK, RepositoryInv, WsNext
    PROVE  RepositoryInv'
<1>1. ASSUME NEW r \in Runs, PrepareStep(r) PROVE RepositoryInv'
  BY <1>1, PrepareKeepsRepositories
<1>2. ASSUME NEW r \in Runs, BeginPrepare(r) \/ QueueRemove(r) \/ DestroyStep(r)
      PROVE  RepositoryInv'
  <2>1. step[r] \notin Commands => r \notin underway
    BY DEF RepositoryInv, UnderwayIsACommand
  <2>2. worktrees' \subseteq worktrees /\ UNCHANGED repoVars
    BY <1>2
    DEF BeginPrepare, QueueRemove, DestroyStep, BeginRemove, GitRemoves, ForgetWorkspace,
        ForgetFails, treeVars
  <2>3. step[r] \notin Commands
    BY <1>2
    DEF BeginPrepare, QueueRemove, DestroyStep, BeginRemove, GitRemoves, ForgetWorkspace,
        ForgetFails, Commands
  <2>4. \E s \in {"inspect", "queue_remove", "removing", "removed", "gone"} :
            step' = [step EXCEPT ![r] = s]
    BY <1>2
    DEF BeginPrepare, QueueRemove, DestroyStep, BeginRemove, GitRemoves, ForgetWorkspace,
        ForgetFails, Goto
  <2> QED
    BY <2>1, <2>2, <2>3, <2>4, QuietSteps DEF Steps, Commands, Prepared
<1>3. ASSUME NEW r \in Runs, OrphanEnds(r) PROVE RepositoryInv'
  <2>1. /\ r \in underway /\ underway' = underway \ {r}
        /\ UNCHANGED <<step, worktrees>>
        /\ \/ repository' = [repository EXCEPT ![RepoOf[r]] = After(step[r], @)]
           \/ repository' = repository
    BY <1>3 DEF OrphanEnds, Unlock, treeVars
  <2>2. CASE repository' = repository
    BY <2>1, <2>2
    DEF RepositoryInv, UnderwayIsACommand, CommandsInOrder, NeverHollow, WholeScenario
  <2>3. CASE repository' = [repository EXCEPT ![RepoOf[r]] = After(step[r], @)]
    <3>1. \A p \in Repos :
              /\ repository'[p] \in {"absent", "empty", "staged", "committed"}
              /\ repository[p] # "absent" => repository'[p] # "absent"
              /\ repository[p] \in {"staged", "committed"} =>
                     repository'[p] \in {"staged", "committed"}
              /\ repository[p] = "committed" => repository'[p] = "committed"
      BY <2>1, <2>3, CommandEnds
    <3> QED
      BY <2>1, <3>1, WorkspacesAssumption
      DEF RepositoryInv, UnderwayIsACommand, CommandsInOrder, NeverHollow, WholeScenario, TreeTypeOK
  <2> QED BY <2>1, <2>2, <2>3
<1>4. ASSUME \/ ProcessEnds \/ Restart \/ WsFault \/ UNCHANGED wsVars
             \/ \E c \in LockCalls : LockSettles(c)
      PROVE  RepositoryInv'
  <2>1. UNCHANGED <<step, underway, repository>> /\ worktrees' \subseteq worktrees
    BY <1>4 DEF ProcessEnds, Restart, WsFault, LockSettles, wsVars, repoVars, treeVars
  <2> QED
    BY <2>1 DEF RepositoryInv, UnderwayIsACommand, CommandsInOrder, NeverHollow, WholeScenario
<1> QED
  BY <1>1, <1>2, <1>3, <1>4 DEF WsNext

-----------------------------------------------------------------------------
(* The lock files of git *)

\* Lock files are taken and dropped with the command they stand for.
LEMMA LockFilesKept ==
    ASSUME TreeTypeOK, UnderwayIsACommand, LockFilesHeld, WsNext
    PROVE  LockFilesHeld'
<1> USE WorkspacesAssumption
<1>1. ASSUME NEW r \in Runs, BeginCommand(r) PROVE LockFilesHeld'
  <2> DEFINE k == RepoOf[r]
             g == LockFile(step[r])
  <2>1. /\ gitLock' = [gitLock EXCEPT ![k][g] = r] /\ underway' = underway \cup {r}
        /\ step' = step /\ k \in Repos /\ g \in {"config", "index"}
    BY <1>1, LockFileTyped DEF BeginCommand
  <2>2. \A p \in Repos : \A f \in {"config", "index"} :
            gitLock'[p][f] = IF p = k /\ f = g THEN r ELSE gitLock[p][f]
    <3> HIDE DEF k, g
    <3> QED BY <2>1 DEF TreeTypeOK
  <2> QED
    BY <2>1, <2>2 DEF LockFilesHeld
<1>2. ASSUME NEW r \in underway, Unlock(r),
             \A q \in underway : q # r => step'[q] = step[q]
      PROVE  LockFilesHeld'
  <2> DEFINE k == RepoOf[r]
             g == LockFile(step[r])
  <2>1. /\ gitLock' = [gitLock EXCEPT ![k][g] = NoRun] /\ underway' = underway \ {r}
        /\ k \in Repos /\ g \in {"config", "index"} /\ r \in Runs
    BY <1>2, LockFileTyped DEF Unlock, TreeTypeOK
  <2>2. \A p \in Repos : \A f \in {"config", "index"} :
            gitLock'[p][f] = IF p = k /\ f = g THEN NoRun ELSE gitLock[p][f]
    <3> HIDE DEF k, g
    <3> QED BY <2>1 DEF TreeTypeOK
  <2> QED
    BY <1>2, <2>1, <2>2 DEF LockFilesHeld
<1>3. ASSUME NEW r \in Runs, EndCommand(r) \/ CommandFails(r) \/ OrphanEnds(r)
      PROVE  LockFilesHeld'
  <2>1. /\ r \in underway /\ Unlock(r)
        /\ \A q \in underway : q # r => step'[q] = step[q]
    BY <1>3 DEF EndCommand, CommandFails, OrphanEnds, EnterCreate, Goto, TreeTypeOK
  <2> QED BY <1>2, <2>1
<1>4. ASSUME UNCHANGED <<gitLock, underway>>, \A q \in underway : step'[q] = step[q]
      PROVE  LockFilesHeld'
  BY <1>4 DEF LockFilesHeld
<1>5. ASSUME NEW r \in Runs, BeginPrepare(r) \/ QueueRemove(r) \/ DestroyStep(r)
      PROVE  LockFilesHeld'
  BY <1>4, <1>5
  DEF BeginPrepare, QueueRemove, DestroyStep, BeginRemove, GitRemoves, ForgetWorkspace,
      ForgetFails, Goto, TreeTypeOK, UnderwayIsACommand, Commands, repoVars
<1>6. ASSUME NEW r \in Runs,
             \/ Inspect(r) \/ CommandBlocked(r) \/ QueueAdd(r) \/ MakeRootFails(r) \/ BeginAdd(r)
             \/ GitAdds(r) \/ GitRefusesAdd(r) \/ ResumeAdd(r) \/ ThrowAdd(r)
      PROVE  LockFilesHeld'
  BY <1>4, <1>6
  DEF Inspect, EnterCreate, CommandBlocked, QueueAdd, MakeRootFails, BeginAdd, GitAdds,
      GitRefusesAdd, ResumeAdd, ThrowAdd, Goto, TreeTypeOK, UnderwayIsACommand, Commands, repoVars
<1>7. ASSUME \/ ProcessEnds \/ Restart \/ WsFault \/ UNCHANGED wsVars
             \/ \E c \in LockCalls : LockSettles(c)
      PROVE  LockFilesHeld'
  BY <1>4, <1>7 DEF ProcessEnds, Restart, WsFault, LockSettles, wsVars, repoVars
<1> QED
  BY <1>1, <1>3, <1>5, <1>6, <1>7 DEF WsNext, PrepareStep

-----------------------------------------------------------------------------
(* The initialisation race *)

\* A run that moves on, with nothing failing by itself and the repositories as
\* they are, leaves no repository without somebody to get it ready.
LEMMA RaceMoves ==
    ASSUME TreeTypeOK, NEW p \in Repos, InTheMaking(p) \/ Untouched(p) \/ Ready(p),
           NEW r \in Runs, NEW s, step' = [step EXCEPT ![r] = s],
           UNCHANGED <<repository, lost>>,
           \/ step[r] \in OnItsWay /\ s \in OnItsWay
           \/ step[r] \in Fresh /\ s \in Fresh \cup Commands
           \/ step[r] \in Fresh /\ s \in OnItsWay /\ repository[RepoOf[r]] # "absent" /\ r \notin lost
           \/ /\ step[r] \in Commands
              /\ \E q \in Runs \ {r} : RepoOf[q] = RepoOf[r] /\ step[q] \in Commands
           \/ step[r] = "adding" /\ repository[RepoOf[r]] # "committed"
           \/ step[r] = "add_failed"
    PROVE  (InTheMaking(p) \/ Untouched(p) \/ Ready(p))'
<1>1. /\ step'[r] = s
      /\ \A q \in Runs : q # r => step'[q] = step[q]
      /\ Users(p)' = Users(p) /\ Users(p) \subseteq Runs
      /\ \A q \in Users(p) : RepoOf[q] = p /\ q \notin lost
      /\ repository'[p] = repository[p]
  BY DEF TreeTypeOK, Users
<1>2. CASE InTheMaking(p)
  <2> PICK q \in Runs : RepoOf[q] = p /\ step[q] \in Commands
    BY <1>2 DEF InTheMaking
  <2>1. CASE q # r
    BY <1>1, <2>1 DEF InTheMaking
  <2>2. CASE q = r
    <3>1. PICK d \in Runs \ {r} : RepoOf[d] = p /\ step[d] \in Commands
      BY <2>2 DEF OnItsWay, Fresh, Commands, Prepared
    <3> QED
      BY <1>1, <3>1 DEF InTheMaking
  <2> QED BY <2>1, <2>2
<1>3. CASE Untouched(p)
  <2>1. CASE r \in Users(p)
    <3>1. step[r] \in Fresh /\ RepoOf[r] = p /\ repository[p] = "absent"
      BY <1>1, <1>3, <2>1 DEF Untouched
    <3>2. s \in Fresh \cup Commands
      BY <3>1 DEF OnItsWay, Fresh, Commands, Prepared
    <3>3. CASE s \in Commands
      BY <1>1, <3>1, <3>3 DEF InTheMaking
    <3>4. CASE s \in Fresh
      BY <1>1, <1>3, <3>4 DEF Untouched
    <3> QED BY <3>2, <3>3, <3>4
  <2>2. CASE r \notin Users(p)
    BY <1>1, <1>3, <2>2 DEF Untouched
  <2> QED BY <2>1, <2>2
<1>4. CASE Ready(p)
  <2>1. CASE r \notin Users(p)
    <3>1. \A q \in Users(p) : step'[q] = step[q]
      BY <1>1, <2>1
    <3> QED
      BY <1>1, <1>4, <3>1 DEF Ready
  <2>2. CASE r \in Users(p)
    <3>1. /\ RepoOf[r] = p /\ repository[p] = "committed"
          /\ (\A q \in Users(p) : step[q] \in Fresh) \/ (\E q \in Users(p) : step[q] \in OnItsWay)
      BY <1>1, <1>4, <2>2 DEF Ready
    <3>2. CASE s \in OnItsWay
      BY <1>1, <2>2, <3>1, <3>2 DEF Ready
    <3>3. CASE s \in Commands
      BY <1>1, <3>1, <3>3 DEF InTheMaking
    <3>4. CASE s \in Fresh /\ step[r] \in Fresh
      <4>1. CASE \A q \in Users(p) : step[q] \in Fresh
        BY <1>1, <3>1, <3>4, <4>1 DEF Ready
      <4>2. CASE \E q \in Users(p) : step[q] \in OnItsWay
        <5>1. PICK q \in Users(p) : step[q] \in OnItsWay
          BY <4>2
        <5>2. q # r
          BY <3>4, <5>1 DEF Fresh, OnItsWay, Prepared
        <5> QED
          BY <1>1, <3>1, <5>1, <5>2 DEF Ready
      <4> QED BY <3>1, <4>1, <4>2
    <3>5. CASE /\ step[r] \in Commands
               /\ \E q \in Runs \ {r} : RepoOf[q] = p /\ step[q] \in Commands
      BY <1>1, <3>5 DEF InTheMaking
    <3>6. CASE step[r] = "add_failed"
      <4>1. PICK q \in Users(p) : step[q] \in OnItsWay
        BY <2>2, <3>1, <3>6 DEF Fresh
      <4>2. q # r
        BY <3>6, <4>1 DEF OnItsWay, Prepared
      <4> QED
        BY <1>1, <3>1, <4>1, <4>2 DEF Ready
    <3> QED
      BY <3>1, <3>2, <3>3, <3>4, <3>5, <3>6 DEF Fresh
  <2> QED BY <2>1, <2>2
<1> QED
  BY <1>2, <1>3, <1>4

\* No preparation step leaves a repository without somebody to get it ready,
\* unless an operation has failed by itself.
LEMMA PrepareKeepsRace ==
    ASSUME TreeTypeOK, RepositoryInv, LockFilesHeld, RaceGoesOn, NEW r \in Runs, PrepareStep(r)
    PROVE  RaceGoesOn'
<1> SUFFICES ASSUME failures' = 0, NEW p \in Repos
             PROVE  (InTheMaking(p) \/ Untouched(p) \/ Ready(p))'
  BY DEF RaceGoesOn
<1>0. RepoOf[r] \in Repos /\ failures \in Nat
  BY WorkspacesAssumption DEF TreeTypeOK
<1>1. failures = 0 /\ ~CommandFails(r) /\ ~MakeRootFails(r)
  BY <1>0
  DEF PrepareStep, Inspect, BeginCommand, CommandBlocked, EndCommand, CommandFails, QueueAdd,
      MakeRootFails, BeginAdd, GitAdds, GitRefusesAdd, ResumeAdd, ThrowAdd, Fault
<1>2. InTheMaking(p) \/ Untouched(p) \/ Ready(p)
  BY <1>1 DEF RaceGoesOn
<1>3. CASE Inspect(r)
  <2>1. UNCHANGED <<repository, lost>> /\ step[r] \in Fresh /\ r \notin lost
    BY <1>3 DEF Inspect, Living, repoVars, Fresh
  <2>2. CASE repository[RepoOf[r]] = "absent"
    <3>1. step' = [step EXCEPT ![r] = "init"] /\ "init" \in Fresh \cup Commands
      BY <1>3, <2>2 DEF Inspect, Goto, Commands
    <3> QED BY <1>2, <2>1, <3>1, RaceMoves
  <2>3. CASE repository[RepoOf[r]] # "absent"
    <3>1. step' = [step EXCEPT ![r] = "mkroot"] /\ "mkroot" \in OnItsWay
      BY <1>3, <2>3 DEF Inspect, EnterCreate, Goto, OnItsWay
    <3> QED BY <1>2, <2>1, <2>3, <3>1, RaceMoves
  <2> QED BY <2>2, <2>3
<1>4. CASE BeginCommand(r)
  BY <1>2, <1>4 DEF BeginCommand, procVars, InTheMaking, Untouched, Ready, Users
<1>5. CASE CommandBlocked(r)
  <2> DEFINE q == gitLock[RepoOf[r]][LockFile(step[r])]
  <2>1. q \in underway /\ RepoOf[q] = RepoOf[r] /\ q # r
    BY <1>0, <1>5, LockFileTyped DEF CommandBlocked, LockFilesHeld
  <2>2. q \in Runs \ {r} /\ step[q] \in Commands
    BY <2>1 DEF RepositoryInv, UnderwayIsACommand, TreeTypeOK
  <2>3. UNCHANGED <<repository, lost>> /\ step[r] \in Commands /\ step' = [step EXCEPT ![r] = "failed"]
    BY <1>5 DEF CommandBlocked, Goto, repoVars, procVars
  <2> QED
    BY <1>2, <2>1, <2>2, <2>3, RaceMoves
<1>6. CASE EndCommand(r)
  <2>1. /\ r \in underway /\ step[r] \in Commands /\ r \notin lost /\ lost' = lost
        /\ repository' = [repository EXCEPT ![RepoOf[r]] = After(step[r], @)]
    BY <1>6 DEF EndCommand, Living, RepositoryInv, UnderwayIsACommand
  <2>2. CASE step[r] = "commit"
    <3>1. step' = [step EXCEPT ![r] = "mkroot"]
      BY <1>6, <2>2 DEF EndCommand, EnterCreate, Goto
    <3>2. repository'[RepoOf[r]] = "committed"
      BY <2>1, <2>2, CommandEnds
    <3>3. CASE p = RepoOf[r]
      <4>1. r \in Users(p)' /\ step'[r] \in OnItsWay
        BY <2>1, <3>1, <3>3 DEF Users, OnItsWay, TreeTypeOK
      <4> QED
        BY <3>2, <3>3, <4>1 DEF Ready
    <3>4. CASE p # RepoOf[r]
      <4>1. repository'[p] = repository[p] /\ Users(p)' = Users(p)
        BY <2>1, <3>4 DEF TreeTypeOK, Users
      <4>2. \A q \in Runs : RepoOf[q] = p => step'[q] = step[q]
        BY <3>1, <3>4 DEF TreeTypeOK
      <4> QED
        BY <1>2, <4>1, <4>2 DEF InTheMaking, Untouched, Ready, Users
    <3> QED BY <3>3, <3>4
  <2>3. CASE step[r] # "commit"
    <3>1. step' = [step EXCEPT ![r] = Following(step[r])]
      BY <1>6, <2>3 DEF EndCommand, Goto
    <3>2. CASE p = RepoOf[r]
      <4>1. CASE step[r] \in {"init", "email", "name", "add"}
        <5>1. Following(step[r]) \in Commands
          BY <4>1 DEF Following, Commands
        <5> QED
          BY <3>1, <3>2, <5>1 DEF InTheMaking, TreeTypeOK
      <4> QED
        BY <2>1, <2>3, <4>1 DEF Commands
    <3>3. CASE p # RepoOf[r]
      <4>1. repository'[p] = repository[p] /\ Users(p)' = Users(p)
        BY <2>1, <3>3 DEF TreeTypeOK, Users
      <4>2. \A q \in Runs : RepoOf[q] = p => step'[q] = step[q]
        BY <3>1, <3>3 DEF TreeTypeOK
      <4> QED
        BY <1>2, <4>1, <4>2 DEF InTheMaking, Untouched, Ready, Users
    <3> QED BY <3>2, <3>3
  <2> QED BY <2>2, <2>3
<1>7. CASE QueueAdd(r) \/ BeginAdd(r) \/ GitAdds(r) \/ ResumeAdd(r)
  <2>1. UNCHANGED <<repository, lost>> /\ step[r] \in OnItsWay
    BY <1>7 DEF QueueAdd, BeginAdd, GitAdds, ResumeAdd, OnItsWay, repoVars, procVars
  <2>2. \E s \in OnItsWay : step' = [step EXCEPT ![r] = s]
    BY <1>7 DEF QueueAdd, BeginAdd, GitAdds, ResumeAdd, OnItsWay, Goto, Prepared
  <2> QED BY <1>2, <2>1, <2>2, RaceMoves
<1>8. CASE GitRefusesAdd(r) \/ ThrowAdd(r)
  <2>1. /\ UNCHANGED <<repository, lost>> /\ \E s : step' = [step EXCEPT ![r] = s]
        /\ \/ step[r] = "adding" /\ repository[RepoOf[r]] # "committed"
           \/ step[r] = "add_failed"
    BY <1>0, <1>8, <1>1 DEF GitRefusesAdd, ThrowAdd, Goto, Fault, repoVars, procVars
  <2> QED BY <1>2, <2>1, RaceMoves
<1> QED
  BY <1>1, <1>3, <1>4, <1>5, <1>6, <1>7, <1>8 DEF PrepareStep

\* Nor does any other step: an ended process leaves its commands to end, and
\* the runs that follow it have not begun.
LEMMA RaceKept ==
    ASSUME TreeTypeOK, RepositoryInv, LockFilesHeld, RaceGoesOn, WsNext
    PROVE  RaceGoesOn'
<1>1. ASSUME NEW r \in Runs, PrepareStep(r) PROVE RaceGoesOn'
  BY <1>1, PrepareKeepsRace
<1>2. ASSUME NEW r \in Runs, BeginPrepare(r) \/ QueueRemove(r) \/ DestroyStep(r)
      PROVE  RaceGoesOn'
  <2>1. /\ UNCHANGED <<repository, lost>>
        /\ failures' = 0 => failures = 0
    BY <1>2
    DEF BeginPrepare, QueueRemove, DestroyStep, BeginRemove, GitRemoves, ForgetWorkspace,
        ForgetFails, repoVars, procVars, Fault, TreeTypeOK
  <2>2. CASE BeginPrepare(r)
    <3>1. step[r] \in Fresh /\ step' = [step EXCEPT ![r] = "inspect"] /\ "inspect" \in Fresh
      BY <2>2 DEF BeginPrepare, Goto, Fresh
    <3>2. ASSUME failures' = 0, NEW p \in Repos
          PROVE  (InTheMaking(p) \/ Untouched(p) \/ Ready(p))'
      BY <2>1, <3>1, <3>2, RaceMoves DEF RaceGoesOn
    <3> QED
      BY <3>2 DEF RaceGoesOn
  <2>3. CASE QueueRemove(r) \/ DestroyStep(r)
    <3>1. step[r] \in OnItsWay /\ \E s \in OnItsWay : step' = [step EXCEPT ![r] = s]
      BY <2>3
      DEF QueueRemove, DestroyStep, BeginRemove, GitRemoves, ForgetWorkspace, ForgetFails,
          Goto, OnItsWay, Prepared
    <3>2. ASSUME failures' = 0, NEW p \in Repos
          PROVE  (InTheMaking(p) \/ Untouched(p) \/ Ready(p))'
      BY <2>1, <3>1, <3>2, RaceMoves DEF RaceGoesOn
    <3> QED
      BY <3>2 DEF RaceGoesOn
  <2> QED BY <1>2, <2>2, <2>3
<1>3. ASSUME NEW r \in Runs, OrphanEnds(r) PROVE RaceGoesOn'
  <2> SUFFICES ASSUME failures' = 0, NEW p \in Repos
               PROVE  (InTheMaking(p) \/ Untouched(p) \/ Ready(p))'
    BY DEF RaceGoesOn
  <2>1. /\ step' = step /\ lost' = lost /\ failures = 0 /\ step[r] \in Commands
        /\ \A q \in Repos : q # RepoOf[r] => repository'[q] = repository[q]
    BY <1>3 DEF OrphanEnds, procVars, RepositoryInv, UnderwayIsACommand, TreeTypeOK
  <2>2. InTheMaking(p) \/ Untouched(p) \/ Ready(p)
    BY <2>1 DEF RaceGoesOn
  <2>3. CASE p = RepoOf[r]
    BY <2>1, <2>3 DEF InTheMaking
  <2>4. CASE p # RepoOf[r]
    BY <2>1, <2>2, <2>4 DEF InTheMaking, Untouched, Ready, Users
  <2> QED BY <2>3, <2>4
<1>4. CASE Restart
  <2> SUFFICES ASSUME failures' = 0, NEW p \in Repos
               PROVE  (InTheMaking(p) \/ Untouched(p) \/ Ready(p))'
    BY DEF RaceGoesOn
  <2>1. /\ UNCHANGED <<step, repository>> /\ failures = 0
        /\ \A q \in Users(p)' : step[q] = "idle"
    BY <1>4 DEF Restart, repoVars, Users
  <2>2. InTheMaking(p) \/ Untouched(p) \/ Ready(p)
    BY <2>1 DEF RaceGoesOn
  <2> QED
    BY <2>1, <2>2 DEF InTheMaking, Untouched, Ready, Fresh
<1>5. ASSUME \/ ProcessEnds \/ WsFault \/ UNCHANGED wsVars
             \/ \E c \in LockCalls : LockSettles(c)
      PROVE  RaceGoesOn'
  <2>1. /\ UNCHANGED <<step, repository, lost>>
        /\ failures' = 0 => failures = 0
    BY <1>5 DEF ProcessEnds, WsFault, LockSettles, wsVars, repoVars, procVars, Fault, TreeTypeOK
  <2> QED
    BY <2>1 DEF RaceGoesOn, InTheMaking, Untouched, Ready, Users
<1> QED
  BY <1>1, <1>2, <1>3, <1>4, <1>5 DEF WsNext

-----------------------------------------------------------------------------
(* The records of the exit handlers *)

\* What a step of run r leaves alone, of the other runs and of the process.
OthersStay(r) ==
    /\ alive' = alive /\ lost' = lost /\ unremoved' = unremoved
    /\ \A q \in Runs : q # r =>
        /\ step'[q] = step[q]
        /\ q \in worktrees' <=> q \in worktrees
        /\ q \in branches' <=> q \in branches
        /\ q \in active' <=> q \in active
    /\ handlers => handlers'

\* A step of a run keeps the records if it keeps its own.
LEMMA OwnRecordSuffices ==
    ASSUME TreeTypeOK, TreeTypeOK', RecordInv, NEW r \in Runs, OthersStay(r),
           Living(r) => /\ step'[r] \in Holding => r \in active'
                        /\ step'[r] \in {"worktree_made", "held"} => r \in worktrees' \cap branches'
                        /\ step'[r] \in OnItsWay \cup {"add_failed"} => handlers',
           r \in worktrees' =>
              step'[r] = "worktree_made" \/ (Living(r) /\ r \in active') \/ r \in unremoved,
           step'[r] # "idle",
           r \in active' => handlers'
    PROVE  RecordInv'
<1>1. \A q \in Runs : Living(q)' <=> Living(q)
  BY DEF OthersStay, Living
<1>2. HoldersRecorded'
  BY <1>1 DEF RecordInv, HoldersRecorded, OthersStay
<1>3. WorktreesAccounted'
  BY <1>1 DEF RecordInv, WorktreesAccounted, OthersStay, TreeTypeOK
<1>4. RecordsHandled'
  BY DEF RecordInv, RecordsHandled, OthersStay, TreeTypeOK
<1>5. UnremovedLost'
  BY <1>1 DEF RecordInv, UnremovedLost, OthersStay, TreeTypeOK
<1> QED
  BY <1>2, <1>3, <1>4, <1>5 DEF RecordInv

\* Preparing a workspace records it in the turn that gets its handle.
LEMMA PrepareKeepsRecords ==
    ASSUME TreeTypeOK, TreeTypeOK', UnderwayIsACommand, RecordInv, NEW r \in Runs, PrepareStep(r)
    PROVE  RecordInv'
<1> USE DEF RecordInv, HoldersRecorded, WorktreesAccounted, RecordsHandled, UnremovedLost
<1>1. CASE Inspect(r)
  <2>1. OthersStay(r)
    BY <1>1 DEF Inspect, EnterCreate, Goto, OthersStay, TreeTypeOK, treeVars
  <2>2. /\ UNCHANGED <<worktrees, active>> /\ step[r] = "inspect" /\ Living(r)
        /\ \/ step'[r] = "init" /\ handlers' = handlers
           \/ step'[r] = "mkroot" /\ handlers' = TRUE
    BY <1>1 DEF Inspect, EnterCreate, Goto, TreeTypeOK, treeVars
  <2> QED
    BY <2>1, <2>2, OwnRecordSuffices DEF OnItsWay, Prepared, Holding
<1>2. CASE BeginCommand(r) \/ CommandBlocked(r) \/ CommandFails(r) \/ MakeRootFails(r) \/ ThrowAdd(r)
  <2>1. OthersStay(r)
    BY <1>2
    DEF BeginCommand, CommandBlocked, CommandFails, MakeRootFails, ThrowAdd, Goto, OthersStay,
        TreeTypeOK, treeVars, procVars
  <2>2. UNCHANGED <<worktrees, active, handlers>> /\ step'[r] \in Commands \cup {"failed"}
    BY <1>2
    DEF BeginCommand, CommandBlocked, CommandFails, MakeRootFails, ThrowAdd, Goto, TreeTypeOK,
        treeVars, procVars
  <2>3. step[r] # "worktree_made"
    BY <1>2
    DEF BeginCommand, CommandBlocked, CommandFails, MakeRootFails, ThrowAdd, UnderwayIsACommand,
        Commands
  <2> QED
    BY <2>1, <2>2, <2>3, OwnRecordSuffices DEF OnItsWay, Prepared, Holding, Commands
<1>3. CASE EndCommand(r)
  <2>1. OthersStay(r)
    BY <1>3 DEF EndCommand, EnterCreate, Goto, OthersStay, TreeTypeOK, treeVars
  <2>2. /\ UNCHANGED <<worktrees, active>> /\ step[r] \in Commands /\ Living(r)
        /\ \/ step'[r] \in Commands /\ handlers' = handlers
           \/ step'[r] = "mkroot" /\ handlers' = TRUE
    <3>1. step[r] \in Commands /\ UNCHANGED <<worktrees, active>> /\ Living(r)
      BY <1>3 DEF EndCommand, UnderwayIsACommand, treeVars
    <3>2. CASE step[r] = "commit"
      BY <1>3, <3>1, <3>2 DEF EndCommand, EnterCreate, Goto, TreeTypeOK
    <3>3. CASE step[r] = "add"
      BY <1>3, <3>1, <3>3 DEF EndCommand, Goto, Following, Commands, TreeTypeOK
    <3>4. CASE step[r] \in {"init", "email", "name"}
      BY <1>3, <3>1, <3>4 DEF EndCommand, Goto, Following, Commands, TreeTypeOK
    <3> QED
      BY <3>1, <3>2, <3>3, <3>4 DEF Commands
  <2>3. step[r] # "worktree_made"
    BY <2>2 DEF Commands
  <2> QED
    BY <2>1, <2>2, <2>3, OwnRecordSuffices DEF OnItsWay, Prepared, Holding, Commands
<1>4. CASE QueueAdd(r) \/ BeginAdd(r)
  <2>1. OthersStay(r)
    BY <1>4 DEF QueueAdd, BeginAdd, Goto, OthersStay, TreeTypeOK, treeVars, procVars
  <2>2. /\ UNCHANGED <<worktrees, active, handlers>> /\ step'[r] \in {"queue_add", "adding"}
        /\ step[r] \in {"mkroot", "queue_add"}
    BY <1>4 DEF QueueAdd, BeginAdd, Goto, TreeTypeOK, treeVars, procVars
  <2> QED
    BY <2>1, <2>2, OwnRecordSuffices DEF OnItsWay, Prepared, Holding
<1>5. CASE GitAdds(r)
  <2>1. OthersStay(r)
    BY <1>5 DEF GitAdds, Goto, OthersStay, TreeTypeOK, procVars
  <2>2. /\ step[r] = "adding" /\ step'[r] = "worktree_made" /\ r \in worktrees' \cap branches'
        /\ UNCHANGED <<active, handlers>>
    BY <1>5 DEF GitAdds, Goto, TreeTypeOK, procVars
  <2> QED
    BY <2>1, <2>2, OwnRecordSuffices DEF OnItsWay, Holding
<1>6. CASE GitRefusesAdd(r)
  <2>1. OthersStay(r)
    BY <1>6 DEF GitRefusesAdd, Goto, OthersStay, TreeTypeOK, procVars
  <2>2. /\ step[r] = "adding" /\ step'[r] = "add_failed"
        /\ UNCHANGED <<worktrees, active, handlers>>
    BY <1>6 DEF GitRefusesAdd, Goto, TreeTypeOK, procVars
  <2> QED
    BY <2>1, <2>2, OwnRecordSuffices DEF OnItsWay, Holding
<1>7. CASE ResumeAdd(r)
  <2>1. OthersStay(r)
    BY <1>7 DEF ResumeAdd, Goto, OthersStay, TreeTypeOK, treeVars, procVars
  <2>2. /\ step[r] = "worktree_made" /\ step'[r] = "held" /\ Living(r) /\ r \in active'
        /\ UNCHANGED <<worktrees, branches, handlers>>
    BY <1>7 DEF ResumeAdd, Goto, TreeTypeOK, treeVars, procVars
  <2> QED
    BY <2>1, <2>2, OwnRecordSuffices DEF OnItsWay
<1> QED
  BY <1>1, <1>2, <1>3, <1>4, <1>5, <1>6, <1>7 DEF PrepareStep

\* A workspace leaves the records only with its worktree, or when the handlers
\* have tried to remove it at the end of the process.
LEMMA RecordsKept ==
    ASSUME TreeTypeOK, TreeTypeOK', UnderwayIsACommand, RecordInv, WsNext
    PROVE  RecordInv'
<1> USE DEF RecordInv, HoldersRecorded, WorktreesAccounted, RecordsHandled, UnremovedLost
<1>1. ASSUME NEW r \in Runs, PrepareStep(r) PROVE RecordInv'
  BY <1>1, PrepareKeepsRecords
<1>2. ASSUME NEW r \in Runs, BeginPrepare(r) \/ QueueRemove(r) \/ BeginRemove(r) PROVE RecordInv'
  <2>1. OthersStay(r)
    BY <1>2 DEF BeginPrepare, QueueRemove, BeginRemove, Goto, OthersStay, TreeTypeOK, treeVars, procVars
  <2>2. /\ UNCHANGED <<worktrees, active, handlers>>
        /\ \/ step[r] = "idle" /\ step'[r] = "inspect"
           \/ step[r] = "held" /\ step'[r] = "queue_remove"
           \/ step[r] = "queue_remove" /\ step'[r] = "removing"
    BY <1>2 DEF BeginPrepare, QueueRemove, BeginRemove, Goto, TreeTypeOK, treeVars, procVars
  <2> QED
    BY <2>1, <2>2, OwnRecordSuffices DEF OnItsWay, Prepared, Holding
<1>3. ASSUME NEW r \in Runs, GitRemoves(r) PROVE RecordInv'
  <2>1. OthersStay(r)
    BY <1>3 DEF GitRemoves, Goto, OthersStay, TreeTypeOK, treeVars, procVars
  <2>2. /\ step[r] = "removing" /\ step'[r] = "removed" /\ Living(r)
        /\ UNCHANGED <<active, handlers>>
    BY <1>3 DEF GitRemoves, Goto, TreeTypeOK, procVars
  <2> QED
    BY <2>1, <2>2, OwnRecordSuffices DEF OnItsWay, Prepared, Holding
<1>4. ASSUME NEW r \in Runs, ForgetWorkspace(r) PROVE RecordInv'
  <2>1. OthersStay(r)
    BY <1>4 DEF ForgetWorkspace, Goto, OthersStay, TreeTypeOK, procVars
  <2>2. /\ step[r] = "removed" /\ step'[r] = "gone" /\ Living(r)
        /\ r \notin worktrees' /\ r \notin active' /\ handlers' = handlers
    BY <1>4 DEF ForgetWorkspace, Goto, TreeTypeOK, procVars
  <2> QED
    BY <2>1, <2>2, OwnRecordSuffices DEF OnItsWay, Prepared, Holding
<1>5. ASSUME NEW r \in Runs, ForgetFails(r) PROVE RecordInv'
  <2>1. OthersStay(r)
    BY <1>5 DEF ForgetFails, Goto, OthersStay, TreeTypeOK, treeVars, procVars
  <2>2. /\ step[r] = "removed" /\ step'[r] = "gone" /\ Living(r)
        /\ UNCHANGED <<worktrees, active, handlers>>
    BY <1>5 DEF ForgetFails, Goto, TreeTypeOK, treeVars, procVars
  <2> QED
    BY <2>1, <2>2, OwnRecordSuffices DEF OnItsWay, Prepared, Holding
<1>6. CASE ProcessEnds
  <2>1. \A r \in Runs : ~Living(r)'
    BY <1>6 DEF ProcessEnds, Living
  <2>2. WorktreesAccounted'
    <3> SUFFICES ASSUME NEW r \in worktrees' PROVE step[r] = "worktree_made" \/ r \in unremoved'
      BY <1>6 DEF ProcessEnds
    <3>1. CASE handlers
      <4>1. PICK stuck \in SUBSET (active \cap worktrees) :
               /\ worktrees' = worktrees \ (active \ stuck)
               /\ unremoved' = unremoved \cup stuck
        BY <1>6, <3>1 DEF ProcessEnds
      <4> QED BY <4>1
    <3>2. CASE ~handlers
      <4>1. r \in worktrees /\ active = {} /\ unremoved' = unremoved
        BY <1>6, <3>2 DEF ProcessEnds, treeVars
      <4> QED BY <4>1
    <3> QED BY <3>1, <3>2
  <2>3. RecordsHandled'
    BY <1>6 DEF ProcessEnds
  <2>4. step' = step /\ worktrees' \cup unremoved' \subseteq worktrees \cup unremoved
    BY <1>6 DEF ProcessEnds, treeVars
  <2>4a. unremoved' \subseteq Runs
    BY DEF TreeTypeOK
  <2>5. UnremovedLost' /\ HoldersRecorded'
    BY <2>1, <2>4, <2>4a
  <2> QED
    BY <2>2, <2>3, <2>5
<1>7. CASE Restart
  <2>1. \A r \in Runs : Living(r)' => step'[r] = "idle"
    BY <1>7 DEF Restart, Living
  <2>2. WorktreesAccounted'
    BY <1>7 DEF Restart, Living, treeVars
  <2>2a. worktrees' = worktrees /\ unremoved' = unremoved /\ step' = step /\ unremoved \subseteq Runs
    BY <1>7 DEF Restart, treeVars, TreeTypeOK
  <2>3. UnremovedLost'
    BY <2>1, <2>2a
  <2>4. HoldersRecorded' /\ RecordsHandled'
    BY <1>7, <2>1 DEF Restart, Holding, OnItsWay, Prepared
  <2> QED
    BY <2>2, <2>3, <2>4
<1>8. ASSUME \/ WsFault \/ UNCHANGED wsVars \/ \E c \in LockCalls : LockSettles(c)
             \/ \E r \in Runs : OrphanEnds(r)
      PROVE  RecordInv'
  BY <1>8 DEF WsFault, LockSettles, OrphanEnds, wsVars, treeVars, procVars, Living
<1> QED
  BY <1>1, <1>2, <1>3, <1>4, <1>5, <1>6, <1>7, <1>8 DEF WsNext, DestroyStep

-----------------------------------------------------------------------------
(* The runs *)

\* The types of the run's own variables.
RunTypeOK ==
    /\ at \in [Runs -> Awaits]
    /\ ending \in [Runs -> {"none", "returned", "threw"}]
    /\ agentDir \in [Runs -> {"none", "partial", "staged"}]
    /\ fd \in [Runs -> {"none", "open", "closed"}]

\* A run's step changes the variables of that run only.
OthersRun(r) ==
    /\ RunTypeOK'
    /\ alive' = alive /\ lost' = lost /\ active' = active
    /\ \A q \in Runs : q # r =>
        /\ step'[q] = step[q]
        /\ at'[q] = at[q] /\ ending'[q] = ending[q]
        /\ agentDir'[q] = agentDir[q] /\ fd'[q] = fd[q]

\* RunInv is about one run at a time.
RunInvOf(r) ==
    /\ at[r] = "idle" <=> step[r] = "idle"
    /\ at[r] = "workspace" => step[r] \notin Prepared \ {"held"}
    /\ at[r] \in {"context", "pin", "session", "results", "unpin"} => step[r] = "held"
    /\ at[r] = "release" => step[r] \in Prepared
    /\ at[r] = "over" => step[r] \in {"failed", "held", "gone"}
    /\ at[r] \in {"idle", "workspace", "context", "pin"} => fd[r] = "none" /\ agentDir[r] = "none"
    /\ at[r] \in {"results", "unpin", "release"} => fd[r] = "closed"
    /\ at[r] \in {"session", "results"} /\ r \notin Pinned => agentDir[r] = "none"
    /\ at[r] = "release" => agentDir[r] = "none"
    /\ at[r] = "over" =>
        /\ step[r] = "failed" => fd[r] = "none" /\ ending[r] = "threw"
        /\ step[r] = "held" =>
               ending[r] = "threw" /\ ~(fd[r] = "closed" /\ agentDir[r] = "none")
        /\ step[r] = "gone" => fd[r] = "closed" /\ agentDir[r] = "none"
        /\ ending[r] = "returned" /\ Living(r) => r \notin active

\* Which is the same thing, before a step and after it.
LEMMA RunByRun ==
    /\ RunInv <=> \A r \in Runs : RunInvOf(r)
    /\ RunInv' <=> \A r \in Runs : RunInvOf(r)'
  BY DEF RunInv, RunInvOf, WorkspaceFollows, ResourcesFollow, EndingsFollow

\* So a step of one run keeps it for the others.
LEMMA OwnRunSuffices ==
    ASSUME RunInv, NEW r \in Runs, OthersRun(r), RunInvOf(r)'
    PROVE  RunInv' /\ RunTypeOK'
<1>1. \A q \in Runs : RunInvOf(q)
  BY RunByRun
<1>2. \A q \in Runs : q # r => RunInvOf(q)'
  BY <1>1 DEF OthersRun, RunInvOf, Living
<1>3. \A q \in Runs : RunInvOf(q)'
  BY <1>2
<1> QED
  BY <1>3, RunByRun DEF OthersRun

\* Entering and acquiring: a run that throws here still has what it acquired.
LEMMA AcquireKeepsRun ==
    ASSUME TreeTypeOK, RunTypeOK, RunInv, NEW r \in Runs, EnterRun(r) \/ AcquireStep(r)
    PROVE  RunInv' /\ RunTypeOK'
<1>1. RunInvOf(r)
  BY RunByRun
<1> USE DEF Await, Ends, Throws, RunTypeOK, Awaits
<1>2. CASE EnterRun(r)
  <2>1. OthersRun(r)
    BY <1>2 DEF EnterRun, BeginPrepare, Goto, OthersRun, TreeTypeOK, procVars
  <2>2. /\ at'[r] = "workspace" /\ step'[r] = "inspect" /\ at[r] = "idle"
        /\ UNCHANGED <<ending, agentDir, fd>>
    BY <1>2 DEF EnterRun, BeginPrepare, Goto, TreeTypeOK
  <2>3. RunInvOf(r)'
    BY <1>1, <2>2 DEF RunInvOf, Prepared
  <2> QED BY <2>1, <2>3, OwnRunSuffices
<1>3. ASSUME AcquireStep(r) PROVE OthersRun(r) /\ step' = step /\ active' = active
  BY <1>3
  DEF AcquireStep, WorkspaceReady, WorkspaceRejects, ContextReady, ContextRejects, PinReady,
      PinRejects, TracerThrows, WsFault, OthersRun, wsVars, procVars
<1>4. CASE WorkspaceReady(r) \/ ContextReady(r) \/ PinReady(r)
  <2>1. step' = step /\ OthersRun(r)
    BY <1>3, <1>4 DEF AcquireStep
  <2>2. CASE WorkspaceReady(r)
    BY <1>1, <2>1, <2>2, OwnRunSuffices DEF WorkspaceReady, RunInvOf, Prepared
  <2>3. CASE ContextReady(r)
    BY <1>1, <2>1, <2>3, OwnRunSuffices DEF ContextReady, RunInvOf, Prepared
  <2>4. CASE PinReady(r)
    BY <1>1, <2>1, <2>4, OwnRunSuffices DEF PinReady, RunInvOf, Prepared
  <2> QED BY <1>4, <2>2, <2>3, <2>4
<1>5. CASE WorkspaceRejects(r) \/ ContextRejects(r)
  <2>1. step' = step /\ OthersRun(r)
    BY <1>3, <1>5 DEF AcquireStep
  <2>2. /\ at'[r] = "over" /\ ending'[r] = "threw" /\ UNCHANGED <<agentDir, fd>>
        /\ \/ at[r] = "workspace" /\ step[r] = "failed"
           \/ at[r] = "context"
    BY <1>5 DEF WorkspaceRejects, ContextRejects
  <2>3. RunInvOf(r)'
    BY <1>1, <2>1, <2>2 DEF RunInvOf, Prepared
  <2> QED BY <2>1, <2>3, OwnRunSuffices
<1>6. CASE PinRejects(r) \/ TracerThrows(r)
  <2>1. step' = step /\ OthersRun(r)
    BY <1>3, <1>6 DEF AcquireStep
  <2>2. /\ at'[r] = "over" /\ ending'[r] = "threw" /\ at[r] = "pin"
        /\ fd'[r] # "closed"
    BY <1>1, <1>6 DEF PinRejects, TracerThrows, RunInvOf
  <2>3. RunInvOf(r)'
    BY <1>1, <2>1, <2>2 DEF RunInvOf, Prepared
  <2> QED BY <2>1, <2>3, OwnRunSuffices
<1> QED
  BY <1>2, <1>4, <1>5, <1>6 DEF AcquireStep

\* The session, its results and the finally block.
LEMMA FinallyKeepsRun ==
    ASSUME TreeTypeOK, RunTypeOK, RunInv, NEW r \in Runs, UseStep(r) \/ FinallyStep(r)
    PROVE  RunInv' /\ RunTypeOK'
<1>1. RunInvOf(r)
  BY RunByRun
<1> USE DEF Await, Ends, Throws, RunTypeOK, Awaits
<1>2. OthersRun(r) /\ (~Release(r) => step' = step)
  BY DEF UseStep, SessionEnds, SessionRejects, ResultsReady, ResultsReject, EnterFinally,
         FinallyStep, Unpin, UnpinRejects, Release, Released, QueueRemove, Goto, WsFault,
         OthersRun, TreeTypeOK, wsVars, procVars, runVars
<1>3. CASE SessionEnds(r)
  <2>1. RunInvOf(r)'
    BY <1>1, <1>2, <1>3 DEF SessionEnds, Release, QueueRemove, RunInvOf, Prepared, wsVars
  <2> QED BY <1>2, <2>1, OwnRunSuffices
<1>4. CASE SessionRejects(r) \/ ResultsReady(r) \/ ResultsReject(r)
  <2>1. /\ step' = step /\ at[r] \in {"session", "results"} /\ agentDir' = agentDir
        /\ fd'[r] = "closed" /\ at'[r] = IF r \in Pinned THEN "unpin" ELSE "release"
    BY <1>4 DEF SessionRejects, ResultsReady, ResultsReject, EnterFinally, WsFault, wsVars
  <2>2. RunInvOf(r)'
    BY <1>1, <2>1 DEF RunInvOf, Prepared
  <2> QED BY <1>2, <2>2, OwnRunSuffices
<1>5. CASE Unpin(r)
  <2>1. RunInvOf(r)'
    BY <1>1, <1>2, <1>5 DEF Unpin, RunInvOf, Prepared, wsVars
  <2> QED BY <1>2, <2>1, OwnRunSuffices
<1>6. CASE UnpinRejects(r)
  <2>1. /\ step' = step /\ at[r] = "unpin" /\ at'[r] = "over" /\ ending'[r] = "threw"
        /\ agentDir'[r] # "none"
    BY <1>6 DEF UnpinRejects, WsFault
  <2>2. RunInvOf(r)'
    BY <1>1, <2>1 DEF RunInvOf, Prepared
  <2> QED BY <1>2, <2>2, OwnRunSuffices
<1>7. CASE Release(r)
  <2>1. step[r] = "held" /\ step'[r] = "queue_remove" /\ at[r] = "release" /\ UNCHANGED runVars
    BY <1>7 DEF Release, QueueRemove, Goto, TreeTypeOK
  <2>2. RunInvOf(r)'
    BY <1>1, <2>1 DEF RunInvOf, Prepared, runVars
  <2> QED BY <1>2, <2>2, OwnRunSuffices
<1>8. CASE Released(r)
  <2>1. /\ step' = step /\ step[r] = "gone" /\ at[r] = "release" /\ at'[r] = "over"
        /\ UNCHANGED <<agentDir, fd, active>>
        /\ r \in active => ending'[r] = "threw"
    BY <1>8 DEF Released, wsVars
  <2>2. RunInvOf(r)'
    BY <1>1, <2>1 DEF RunInvOf, Prepared
  <2> QED BY <1>2, <2>2, OwnRunSuffices
<1> QED
  BY <1>3, <1>4, <1>5, <1>6, <1>7, <1>8 DEF UseStep, FinallyStep

\* The workspace moves under a run that waits for it, and for no other.
LEMMA WorkspaceKeepsRun ==
    ASSUME TreeTypeOK, UnderwayIsACommand, RunTypeOK, RunInv, NEW r \in Runs, WorkspaceStep(r)
    PROVE  RunInv' /\ RunTypeOK'
<1> USE DEF Goto, TreeTypeOK, treeVars, procVars, repoVars
<1>1. /\ RunTypeOK' /\ UNCHANGED runVars /\ RunInvOf(r) /\ \A q \in Runs : RunInvOf(q)
  BY RunByRun DEF WorkspaceStep, RunTypeOK, runVars
<1>2. /\ alive' = alive /\ lost' = lost
      /\ \A q \in Runs : q # r => step'[q] = step[q] /\ (q \in active' <=> q \in active)
  <2>1. CASE PrepareStep(r)
    BY <2>1
    DEF PrepareStep, Inspect, BeginCommand, CommandBlocked, EndCommand, EnterCreate, CommandFails,
        QueueAdd, MakeRootFails, BeginAdd, GitAdds, GitRefusesAdd, ResumeAdd, ThrowAdd
  <2>2. CASE DestroyStep(r)
    BY <2>2 DEF DestroyStep, BeginRemove, GitRemoves, ForgetWorkspace, ForgetFails
  <2> QED BY <2>1, <2>2 DEF WorkspaceStep
<1>3. \A q \in Runs : q # r => RunInvOf(q)'
  BY <1>1, <1>2 DEF RunInvOf, Living, runVars
<1>4. CASE PrepareStep(r)
  <2>1. step[r] \in Steps \ ({"idle", "failed"} \cup Prepared)
    BY <1>4
    DEF PrepareStep, Inspect, BeginCommand, CommandBlocked, EndCommand, CommandFails, QueueAdd,
        MakeRootFails, BeginAdd, GitAdds, GitRefusesAdd, ResumeAdd, ThrowAdd, UnderwayIsACommand,
        Prepared, Commands
  <2>2. at[r] = "workspace"
    BY <1>1, <2>1 DEF RunInvOf, RunTypeOK, Awaits, Prepared
  <2>3. step'[r] \notin {"idle"} \cup (Prepared \ {"held"})
    <3>1. CASE EndCommand(r)
      <4>1. Following(step[r]) \in {"email", "name", "add", "commit", "mkroot"}
        BY <3>1 DEF EndCommand, UnderwayIsACommand, Commands, Following
      <4> QED
        BY <3>1, <4>1 DEF EndCommand, EnterCreate, Prepared
    <3>2. CASE ~EndCommand(r)
      BY <1>4, <2>1, <3>2
      DEF PrepareStep, Inspect, EnterCreate, BeginCommand, CommandBlocked, CommandFails, QueueAdd,
          MakeRootFails, BeginAdd, GitAdds, GitRefusesAdd, ResumeAdd, ThrowAdd, Prepared
    <3> QED BY <3>1, <3>2
  <2>4. RunInvOf(r)'
    BY <1>1, <2>2, <2>3 DEF RunInvOf, runVars
  <2> QED
    BY <1>1, <1>3, <2>4, RunByRun
<1>5. CASE DestroyStep(r)
  <2>1. step[r] \in Prepared \ {"held", "gone"} /\ step'[r] \in Prepared
    BY <1>5 DEF DestroyStep, BeginRemove, GitRemoves, ForgetWorkspace, ForgetFails, Prepared
  <2>2. at[r] = "release"
    BY <1>1, <2>1 DEF RunInvOf, RunTypeOK, Awaits, Prepared
  <2>3. RunInvOf(r)'
    BY <1>1, <2>1, <2>2 DEF RunInvOf, runVars, Prepared
  <2> QED
    BY <1>1, <1>3, <2>3, RunByRun
<1> QED
  BY <1>4, <1>5 DEF WorkspaceStep

\* The end of a process, its successor and the git commands it left behind
\* change nothing of a run that is over but who is still there to ask.
LEMMA OtherStepsKeepRun ==
    ASSUME TreeTypeOK, RunTypeOK, RunInv,
           \/ \E c \in LockCalls : LockStep(c)
           \/ \E r \in Runs : OrphanEnds(r) /\ UNCHANGED runVars
           \/ (ProcessEnds \/ Restart) /\ UNCHANGED runVars
           \/ UNCHANGED vars
    PROVE  RunInv' /\ RunTypeOK'
<1>1. step' = step /\ UNCHANGED runVars /\ \A r \in Runs : RunInvOf(r)
  BY RunByRun
  DEF LockStep, LockSettles, OrphanEnds, ProcessEnds, Restart, vars, wsVars
<1>2. ASSUME NEW r \in Runs, Living(r)', at[r] = "over"
      PROVE  Living(r) /\ (r \in active' <=> r \in active)
  <2>1. CASE Restart
    <3>1. step[r] = "idle"
      BY <1>2, <2>1 DEF Restart, Living
    <3> QED
      BY <1>1, <1>2, <3>1 DEF RunInvOf
  <2>2. CASE ~Restart
    BY <1>2, <2>2
    DEF LockStep, LockSettles, OrphanEnds, ProcessEnds, vars, wsVars, procVars, Living
  <2> QED BY <2>1, <2>2
<1>3. \A r \in Runs : RunInvOf(r)'
  <2> SUFFICES ASSUME NEW r \in Runs PROVE RunInvOf(r)'
    OBVIOUS
  <2>1. CASE at[r] = "over"
    BY <1>1, <1>2, <2>1 DEF RunInvOf, runVars
  <2>2. CASE at[r] # "over"
    BY <1>1, <2>2 DEF RunInvOf, runVars
  <2> QED BY <2>1, <2>2
<1> QED
  BY <1>1, <1>3, RunByRun DEF RunTypeOK, runVars

-----------------------------------------------------------------------------
(* The theorems *)

\* Before the first run everything is as it should be: no run has begun.
LEMMA InitIInv == Init => IInv
<1> SUFFICES ASSUME Init PROVE IInv
  OBVIOUS
<1> USE WorkspacesAssumption DEF Init, WsInit
<1>1. Lock!TypeOK
  BY LockConstants DEF Lock!Init, Lock!TypeOK
<1>2. TypeOK
  <2>1. gitLock \in [Repos -> [config : Runs \cup {NoRun}, index : Runs \cup {NoRun}]]
    OBVIOUS
  <2>2. repository \in [Repos -> {"absent", "empty", "staged", "hollow", "committed"}]
    OBVIOUS
  <2>3. restarts \in 0..MaxRestarts /\ failures \in 0..MaxFaults
    OBVIOUS
  <2>4. step \in [Runs -> Steps] /\ at \in [Runs -> Awaits]
    BY DEF Steps, Awaits
  <2> QED
    BY <1>1, <2>1, <2>2, <2>3, <2>4 DEF TypeOK, WsTypeOK
<1>3. RepositoryInv
  BY DEF RepositoryInv, UnderwayIsACommand, CommandsInOrder, NeverHollow, WholeScenario
<1>4. LockFilesHeld
  BY DEF LockFilesHeld
<1>5. RaceGoesOn
  <2>1. \A p \in Repos : \A r \in Users(p) : step[r] \in Fresh
    BY DEF Users, Fresh
  <2>2. \A p \in Repos : repository[p] \in {"absent", "committed"}
    OBVIOUS
  <2> QED BY <2>1, <2>2 DEF RaceGoesOn, Untouched, Ready
<1>6. RecordInv
  BY DEF RecordInv, HoldersRecorded, WorktreesAccounted, RecordsHandled, UnremovedLost,
      Holding, OnItsWay, Prepared
<1>7. RunInv
  BY DEF RunInv, WorkspaceFollows, ResourcesFollow, EndingsFollow, Prepared
<1> QED
  BY <1>2, <1>3, <1>4, <1>5, <1>6, <1>7 DEF IInv, WsInv, TypeOK

\* Every step keeps it.
LEMMA StepIInv == IInv /\ [Next]_vars => IInv'
<1> SUFFICES ASSUME IInv, [Next]_vars PROVE IInv'
  OBVIOUS
<1>1. /\ TreeTypeOK /\ Lock!TypeOK /\ RunTypeOK
      /\ RepositoryInv /\ UnderwayIsACommand /\ LockFilesHeld /\ RaceGoesOn /\ RecordInv /\ RunInv
  BY DEF IInv, WsInv, TypeOK, WsTypeOK, TreeTypeOK, RunTypeOK, RepositoryInv
<1>2. WsNext
  BY StepIsWsNext
<1>3. TreeTypeOK' /\ Lock!TypeOK'
  BY <1>1, <1>2, TreeTyped, LockFollows
<1>4. RepositoryInv' /\ LockFilesHeld' /\ RaceGoesOn'
  BY <1>1, <1>2, RepositoriesKept, LockFilesKept, RaceKept
<1>5. RecordInv'
  BY <1>1, <1>2, <1>3, RecordsKept
<1>6. RunInv' /\ RunTypeOK'
  <2>1. ASSUME NEW r \in Runs, EnterRun(r) \/ AcquireStep(r) PROVE RunInv' /\ RunTypeOK'
    BY <1>1, <2>1, AcquireKeepsRun
  <2>2. ASSUME NEW r \in Runs, UseStep(r) \/ FinallyStep(r) PROVE RunInv' /\ RunTypeOK'
    BY <1>1, <2>2, FinallyKeepsRun
  <2>3. ASSUME NEW r \in Runs, WorkspaceStep(r) PROVE RunInv' /\ RunTypeOK'
    BY <1>1, <2>3, WorkspaceKeepsRun
  <2> QED
    BY <1>1, <2>1, <2>2, <2>3, OtherStepsKeepRun DEF Next, RunStep
<1> QED
  BY <1>3, <1>4, <1>5, <1>6 DEF IInv, WsInv, TypeOK, WsTypeOK, TreeTypeOK, RunTypeOK

\* The strengthened invariant holds in every reachable state.
THEOREM Inductive == Spec => []IInv
  BY InitIInv, StepIInv, PTL DEF Spec

\* Every reachable state of the runs and their workspaces has its types, across
\* any number of ended processes.
THEOREM TypeCorrect == Spec => []TypeOK
<1>1. IInv => TypeOK
  BY DEF IInv
<1> QED
  BY <1>1, Inductive, PTL

\* No agent ever works on less than its scenario's files: whatever raced, failed
\* or was cut off, a worktree is made only of a repository that has them.
THEOREM NoPartialScenario == Spec => []WholeScenario
<1>1. IInv => WholeScenario
  BY DEF IInv, WsInv, RepositoryInv
<1> QED
  BY <1>1, Inductive, PTL

\* However many runs race to initialise a fresh scenario, one gets through.
THEOREM RaceHasAWinner == Spec => []InitRaceHasAWinner
<1>1. IInv => InitRaceHasAWinner
  <2> DEFINE Settled(p) == \A r \in Users(p) : step[r] \in Prepared \cup {"failed"}
             Winner(p) == /\ repository[p] = "committed"
                          /\ \E r \in Users(p) : step[r] \in Prepared
             CutOff(p) == \E r \in lost : RepoOf[r] = p /\ step[r] \in Commands
  <2> SUFFICES ASSUME IInv, failures = 0, NEW p \in Repos, Users(p) # {}, Settled(p)
               PROVE  Winner(p) \/ CutOff(p)
    BY DEF InitRaceHasAWinner, Users
  <2>1. CASE InTheMaking(p)
    <3> PICK r \in Runs : RepoOf[r] = p /\ step[r] \in Commands
      BY <2>1 DEF InTheMaking
    <3>1. r \notin Users(p)
      BY DEF Commands, Prepared
    <3> QED BY <3>1 DEF Users
  <2>2. CASE Untouched(p)
    BY <2>2 DEF Untouched, Fresh, Prepared
  <2>3. CASE Ready(p)
    BY <2>3 DEF Ready, Fresh, OnItsWay, Prepared
  <2> QED
    BY <2>1, <2>2, <2>3 DEF IInv, WsInv, RaceGoesOn
<1> QED
  BY <1>1, Inductive, PTL

\* When the process has ended, only a worktree whose creation had not been
\* answered, or that the exit handlers could not remove, is left on disk.
THEOREM NothingLeftBehind == Spec => []OnlyInFlightLeftBehind
<1>1. IInv => OnlyInFlightLeftBehind
  BY DEF IInv, WsInv, RecordInv, WorktreesAccounted, OnlyInFlightLeftBehind
<1> QED
  BY <1>1, Inductive, PTL

\* An agent and its oracle work in a directory that is there, and recorded.
THEOREM WorksWhereItShould == Spec => []WorksInItsWorkspace
<1>1. IInv => WorksInItsWorkspace
  <2> SUFFICES ASSUME IInv, NEW r \in Runs, Living(r), at[r] \in {"session", "results"}
               PROVE  step[r] = "held" /\ r \in worktrees \cap branches \cap active /\ handlers
    BY DEF WorksInItsWorkspace
  <2>1. step[r] = "held"
    BY DEF IInv, RunInv, WorkspaceFollows
  <2> QED
    BY <2>1 DEF IInv, WsInv, RecordInv, HoldersRecorded, Holding, OnItsWay, Prepared
<1> QED
  BY <1>1, Inductive, PTL

\* A run that returns leaves nothing of what it acquired, and one that throws
\* with nothing else left has given its workspace back.
THEOREM GivesEverythingBack == Spec => []GivesBack
<1>1. IInv => GivesBack
  <2> SUFFICES ASSUME IInv, NEW r \in Runs, Living(r), at[r] = "over"
               PROVE  /\ fd[r] = "closed" /\ agentDir[r] = "none" => step[r] = "gone"
                      /\ ending[r] = "returned" =>
                             r \notin worktrees \cup active /\ agentDir[r] = "none" /\ fd[r] = "closed"
    BY DEF GivesBack
  <2>1. step[r] \in {"failed", "held", "gone"}
    BY DEF IInv, RunInv, WorkspaceFollows
  <2>2. /\ step[r] = "failed" => fd[r] = "none" /\ ending[r] = "threw"
        /\ step[r] = "held" =>
               ending[r] = "threw" /\ ~(fd[r] = "closed" /\ agentDir[r] = "none")
        /\ step[r] = "gone" => fd[r] = "closed" /\ agentDir[r] = "none"
        /\ ending[r] = "returned" => r \notin active
    BY DEF IInv, RunInv, EndingsFollow
  <2>3. r \in worktrees => step[r] = "worktree_made" \/ r \in active
    BY DEF IInv, WsInv, RecordInv, WorktreesAccounted, UnremovedLost
  <2> QED
    BY <2>1, <2>2, <2>3
<1> QED
  BY <1>1, Inductive, PTL
=============================================================================
