----------------------------- MODULE Provenance -----------------------------
(***************************************************************************)
(* Which content of its input directories an experiment reads, and which   *)
(* content its manifest says it read.  `facet run` reads the spec, the     *)
(* scenario directories and the profile directories several times, with    *)
(* awaits between: the validator hashes them, the definitions are loaded   *)
(* once into the caches of runAll, prompts, scripts and agents are read    *)
(* by every run, the code of a scenario comes from the commit its          *)
(* repository holds, and writeManifest hashes every directory again at     *)
(* the end.  An author may save a file or rehash a preset at any moment.   *)
(*                                                                         *)
(* The content of a directory is the number of the edit that made it, and  *)
(* Digest says which contents hash alike: an edit may put older files back, *)
(* or touch only what hashDirectory skips (.git, node_modules, whatever is *)
(* no regular file) while the loaders read it, through a link for example. *)
(* A hash is represented by a content that has it.  Reading one directory  *)
(* is one step.  The caches are keyed by the ids of the spec: an id stands *)
(* for one directory.                                                      *)
(***************************************************************************)
EXTENDS Integers, Sequences, FiniteSets

CONSTANTS
    ScenarioSeq,   \* spec.scenarios
    LevelSeq,      \* the levels of all extension_select factors, in order
    FirstOfLast,   \* where the levels of the last such factor begin
    Presets,       \* the profile directories that are in npm packages
    Repetitions,   \* design.repetitions
    Parallelism,   \* design.parallelism
    Refused,       \* <<d, v>>: content the validator and the loaders refuse
    Unchecked,     \* <<d, v>>: content only the runner refuses
    Unhashable,    \* <<d, v>>: content with a file that cannot be read
    Digest,        \* Digest[d][v]: what hashDirectory makes of content v of d
    None, TBD,     \* nothing read; the placeholder hash of a spec
    MaxChanges, MaxExperiments   \* bounds: what an author changes, calls of facet run

Scenarios == {ScenarioSeq[k] : k \in DOMAIN ScenarioSeq}
Profiles  == {LevelSeq[k] : k \in DOMAIN LevelSeq}
Dirs      == Scenarios \cup Profiles
Versions  == 0..MaxChanges
Declared  == Versions \cup {TBD}
Seen      == Versions \cup {None}

\* validateSpec assigns the levels of a factor where collectFactorAxes appends
\* them: only the last extension_select factor is checked.
Checked == Scenarios \cup {LevelSeq[k] : k \in FirstOfLast..Len(LevelSeq)}
CheckOrder == ScenarioSeq \o SubSeq(LevelSeq, FirstOfLast, Len(LevelSeq))

\* expandMatrix: scenarios, profiles, repetitions, the last varying fastest.
PerScenario   == Len(LevelSeq) * Repetitions
Entries       == 1..(Len(ScenarioSeq) * PerScenario)
ScenarioOf(i) == ScenarioSeq[((i - 1) \div PerScenario) + 1]
ProfileOf(i)  == LevelSeq[(((i - 1) \div Repetitions) % Len(LevelSeq)) + 1]

\* What a run reads, and from which directory.
FromProfile  == {"definition", "live"}
FromScenario == {"meta", "prompt", "code", "oracle"}
Kinds        == FromProfile \cup FromScenario
Source(i, k) == IF k \in FromProfile THEN ProfileOf(i) ELSE ScenarioOf(i)

ASSUME InputsAssumption ==
    /\ ScenarioSeq \in Seq(Scenarios) /\ Len(ScenarioSeq) \in Nat \ {0}
    /\ LevelSeq \in Seq(Profiles) /\ Len(LevelSeq) \in Nat \ {0}
    /\ FirstOfLast \in 1..Len(LevelSeq)
    /\ Scenarios \cap Profiles = {}
    /\ Presets \subseteq Profiles
    /\ Repetitions \in Nat \ {0} /\ Parallelism \in Nat \ {0}
    /\ Refused \subseteq Dirs \X Nat /\ Unchecked \subseteq Dirs \X Nat
    /\ Unhashable \subseteq Dirs \X Nat
    /\ None \notin Nat /\ TBD \notin Nat
    /\ MaxChanges \in Nat /\ MaxExperiments \in Nat

VARIABLES
    tree,        \* the content of every directory
    recorded,    \* package.json#facet.hash of every preset
    repo,        \* the scenarios that have a repository of their own
    index,       \* what is staged in it
    head,        \* its commit
    spec,        \* the hashes spec.yaml declares
    changes,     \* how often the author changed anything
    experiments, \* how many times facet run was called
    phase,       \* where the command is
    todo,        \* the directories the validator or the manifest has yet to read
    valid,       \* no issue of severity error so far
    loaded,      \* the spec the command parsed
    bundled,     \* the copy of the spec in the bundle
    stage,       \* where every entry of the matrix is
    cache,       \* the content the caches of runAll hold
    read,        \* what every entry has read
    alreadyRepo, \* what an entry's check for a repository said
    manifest,    \* the hashes of the manifest
    checked      \* history: the content and the recorded hash the validator saw

author  == <<tree, recorded, spec, changes>>
command == <<experiments, phase, todo, valid, loaded, bundled, manifest, checked>>
runs    == <<stage, cache, read, alreadyRepo>>
git     == <<repo, index, head>>
vars    == <<author, git, command, runs>>

Idle     == {"idle", "rejected", "failed", "finished"}
Making   == {"init", "add", "commit"}   \* the repository of the scenario
Stages   == {"waiting", "scenario", "prompt", "workspace", "worktree", "live",
             "session", "refused", "ended"} \cup Making
InFlight == {i \in Entries : stage[i] \notin {"waiting", "refused", "ended"}}
Unread   == [d \in Dirs |-> None]

TypeOK ==
    /\ tree \in [Dirs -> Versions]
    /\ recorded \in [Presets -> Seen]
    /\ repo \subseteq Scenarios
    /\ index \in [Scenarios -> Seen] /\ head \in [Scenarios -> Seen]
    /\ spec \in [Dirs -> Declared] /\ changes \in 0..MaxChanges
    /\ experiments \in 0..MaxExperiments
    /\ phase \in Idle \cup {"validate", "open", "loop", "close"}
    /\ todo \in Seq(Dirs) /\ valid \in BOOLEAN
    /\ loaded \in [Dirs -> Declared] /\ bundled \in [Dirs -> Declared]
    /\ stage \in [Entries -> Stages]
    /\ cache \in [Dirs -> Seen]
    /\ read \in [Entries -> [Kinds -> Seen]]
    /\ alreadyRepo \in [Entries -> {"unasked", "yes", "no"}]
    /\ manifest \in [Dirs -> Seen]
    /\ checked \in [Dirs -> [content : Seen, hash : Seen]]

\* A preset's recorded hash was made by hashing the content of some moment.
Init ==
    /\ tree = [d \in Dirs |-> 0]
    /\ recorded \in [Presets -> {None, 0}]
    /\ repo = {}
    /\ index = [s \in Scenarios |-> None] /\ head = [s \in Scenarios |-> None]
    /\ spec \in [Dirs -> {TBD, 0, MaxChanges}] /\ changes = 0
    /\ experiments = 0 /\ phase = "idle" /\ todo = <<>> /\ valid = TRUE
    /\ loaded = spec /\ bundled = spec
    /\ stage = [i \in Entries |-> "waiting"]
    /\ cache = Unread /\ manifest = Unread
    /\ read = [i \in Entries |-> [k \in Kinds |-> None]]
    /\ alreadyRepo = [i \in Entries |-> "unasked"]
    /\ checked = [d \in Dirs |-> [content |-> None, hash |-> None]]

-----------------------------------------------------------------------------
(* The author of the experiment, at any moment.                             *)

Change ==
    /\ changes < MaxChanges
    /\ changes' = changes + 1
    /\ UNCHANGED <<git, command, runs>>

Edit(d) ==
    /\ Change
    /\ tree' = [tree EXCEPT ![d] = @ + 1]
    /\ UNCHANGED <<recorded, spec>>

\* Saving spec.yaml with the hash a directory has now, or the placeholder.
SaveSpec(d) ==
    /\ Change
    /\ \E h \in {tree[d], TBD} : spec' = [spec EXCEPT ![d] = h]
    /\ UNCHANGED <<tree, recorded>>

\* facet hash-profile.
HashProfile(p) ==
    /\ Change
    /\ <<p, tree[p]>> \notin Unhashable
    /\ recorded' = [recorded EXCEPT ![p] = tree[p]]
    /\ UNCHANGED <<tree, spec>>

-----------------------------------------------------------------------------
(* facet run: the spec is parsed, and the validator reads every directory.  *)

LoadSpec ==
    /\ phase \in Idle /\ experiments < MaxExperiments
    /\ experiments' = experiments + 1
    /\ loaded' = spec
    /\ phase' = "validate" /\ todo' = CheckOrder /\ valid' = TRUE
    /\ stage' = [i \in Entries |-> "waiting"]
    /\ cache' = Unread /\ manifest' = Unread
    /\ read' = [i \in Entries |-> [k \in Kinds |-> None]]
    /\ alreadyRepo' = [i \in Entries |-> "unasked"]
    /\ checked' = [d \in Dirs |-> [content |-> None, hash |-> None]]
    /\ UNCHANGED <<author, git, bundled>>

\* Two contents have one hash.
SameHash(d, v, w) ==
    v = w \/ (v \in Versions /\ w \in Versions /\ Digest[d][v] = Digest[d][w])

\* checkPresetCompatibility compares the two written hashes of a preset; the
\* content of the other directories is hashed, and one that cannot be hashed
\* is a warning.
HashAgrees(d) ==
    \/ loaded[d] = TBD
    \/ d \in Presets /\ (recorded[d] = None \/ SameHash(d, recorded[d], loaded[d]))
    \/ d \notin Presets /\ (SameHash(d, tree[d], loaded[d]) \/ <<d, tree[d]>> \in Unhashable)

AcceptsAnyHash(d)    == <<d, tree[d]>> \notin Refused
AcceptsAnyContent(d) == HashAgrees(d)
Accepts(d) == <<d, tree[d]>> \notin Refused /\ HashAgrees(d)

Validate ==
    /\ phase = "validate" /\ todo # <<>>
    /\ LET d == Head(todo)
       IN  /\ valid' = (valid /\ Accepts(d))
           /\ checked' = [checked EXCEPT ![d] =
                  [content |-> tree[d],
                   hash |-> IF d \in Presets THEN recorded[d] ELSE None]]
    /\ todo' = Tail(todo)
    /\ UNCHANGED <<author, git, runs, experiments, phase, loaded, bundled, manifest>>

\* Issues, or an API key that is not set, end the command.
Refuse ==
    /\ phase = "validate" /\ todo = <<>>
    /\ phase' = "rejected"
    /\ UNCHANGED <<author, git, runs, experiments, todo, valid, loaded, bundled,
                   manifest, checked>>

Accept ==
    /\ phase = "validate" /\ todo = <<>> /\ valid
    /\ phase' = "open"
    /\ UNCHANGED <<author, git, runs, experiments, todo, valid, loaded, bundled,
                   manifest, checked>>

\* initBundle copies spec.yaml as it is now.
InitBundle ==
    /\ phase = "open"
    /\ bundled' = spec /\ phase' = "loop"
    /\ UNCHANGED <<author, git, runs, experiments, todo, valid, loaded, manifest,
                   checked>>

-----------------------------------------------------------------------------
(* The entries of the matrix.                                               *)

Note(i, k, v) == read' = [read EXCEPT ![i][k] = v]
GoTo(i, s)    == stage' = [stage EXCEPT ![i] = s]
Lane(i) ==
    /\ phase = "loop"
    /\ UNCHANGED <<author, command>>

\* Lanes take entries in order.
Taken(i) ==
    /\ stage[i] = "waiting" /\ \A j \in 1..(i - 1) : stage[j] # "waiting"
    /\ Cardinality(InFlight) < Parallelism

\* A tripped budget ends an entry before it reads anything.
Skip(i) ==
    /\ Lane(i)
    /\ Taken(i)
    /\ GoTo(i, "ended")
    /\ UNCHANGED <<git, cache, read, alreadyRepo>>

\* getProfile and getScenario: the first request loads, later ones share it,
\* a rejection included.
Cached(d) == IF cache[d] = None THEN tree[d] ELSE cache[d]

LoadProfile(i) ==
    LET d == ProfileOf(i)
        v == Cached(d)
    IN  /\ Lane(i)
        /\ Taken(i)
        /\ cache' = [cache EXCEPT ![d] = v]
        /\ Note(i, "definition", v)
        /\ GoTo(i, IF <<d, v>> \in Refused \cup Unchecked THEN "refused" ELSE "scenario")
        /\ UNCHANGED <<git, alreadyRepo>>

\* loadScenarioDefinition takes any code_dir; prepareScenarioRepo refuses one.
LoadScenario(i) ==
    LET d == ScenarioOf(i)
        v == Cached(d)
    IN  /\ Lane(i)
        /\ stage[i] = "scenario"
        /\ cache' = [cache EXCEPT ![d] = v]
        /\ Note(i, "meta", v)
        /\ GoTo(i, IF <<d, v>> \in Refused THEN "refused" ELSE "prompt")
        /\ UNCHANGED <<git, alreadyRepo>>

ReadPrompt(i) ==
    /\ Lane(i)
    /\ stage[i] = "prompt"
    /\ Note(i, "prompt", tree[ScenarioOf(i)])
    /\ GoTo(i, "workspace")
    /\ UNCHANGED <<git, cache, alreadyRepo>>

\* prepareScenarioRepo, with the run's awaits between its git commands; other
\* runs of the scenario may be between theirs.  The configuration of the new
\* repository (two more commands) is part of its `git init`.
CheckRepoEachTime(i) ==
    LET s == ScenarioOf(i)
    IN  /\ Lane(i)
        /\ stage[i] = "workspace" /\ <<s, read[i]["meta"]>> \notin Unchecked
        /\ alreadyRepo' = [alreadyRepo EXCEPT ![i] = IF s \in repo THEN "yes" ELSE "no"]
        /\ GoTo(i, "init")
        /\ UNCHANGED <<git, cache, read>>

CheckRepo(i) ==
    LET s == ScenarioOf(i)
    IN  /\ Lane(i)
        /\ stage[i] = "workspace" /\ <<s, read[i]["meta"]>> \notin Unchecked
        /\ alreadyRepo' = [alreadyRepo EXCEPT ![i] = IF s \in repo THEN "yes" ELSE "no"]
        /\ GoTo(i, IF s \in repo THEN "worktree" ELSE "init")
        /\ UNCHANGED <<git, cache, read>>

\* A code_dir on the denylist.
RefuseCodeDir(i) ==
    /\ Lane(i)
    /\ stage[i] = "workspace" /\ <<ScenarioOf(i), read[i]["meta"]>> \in Unchecked
    /\ GoTo(i, "refused")
    /\ UNCHANGED <<git, cache, read, alreadyRepo>>

InitRepo(i) ==
    /\ Lane(i)
    /\ stage[i] = "init" /\ GoTo(i, "add")
    /\ repo' = repo \cup {ScenarioOf(i)}
    /\ UNCHANGED <<index, head, cache, read, alreadyRepo>>

AddFiles(i) ==
    /\ Lane(i)
    /\ stage[i] = "add" /\ GoTo(i, "commit")
    /\ index' = [index EXCEPT ![ScenarioOf(i)] = tree[ScenarioOf(i)]]
    /\ UNCHANGED <<repo, head, cache, read, alreadyRepo>>

\* Whatever is staged by now, by this run or by another one.
Commit(i) ==
    /\ Lane(i)
    /\ stage[i] = "commit" /\ GoTo(i, "worktree")
    /\ head' = [head EXCEPT ![ScenarioOf(i)] = index[ScenarioOf(i)]]
    /\ UNCHANGED <<repo, index, cache, read, alreadyRepo>>

\* The worktree is made of HEAD; git refuses one of a repository without a
\* commit, and the run fails.
AddWorktree(i) ==
    LET s == ScenarioOf(i)
    IN  /\ Lane(i)
        /\ stage[i] = "worktree" /\ head[s] # None
        /\ Note(i, "code", head[s])
        /\ GoTo(i, "live")
        /\ UNCHANGED <<git, cache, alreadyRepo>>

\* The scripts of upfront_context and the pinned agents, if there are any.
ReadLiveFiles(i) ==
    /\ Lane(i)
    /\ stage[i] = "live"
    /\ \E v \in {None, tree[ProfileOf(i)]} : Note(i, "live", v)
    /\ GoTo(i, "session")
    /\ UNCHANGED <<git, cache, alreadyRepo>>

\* After the session the oracle's script is run from the scenario directory.
Evaluate(i) ==
    /\ Lane(i)
    /\ stage[i] = "session"
    /\ Note(i, "oracle", tree[ScenarioOf(i)])
    /\ GoTo(i, "ended")
    /\ UNCHANGED <<git, cache, alreadyRepo>>

\* A run that fails for another reason reads no more.
RunFails(i) ==
    /\ Lane(i)
    /\ stage[i] \in {"prompt", "workspace", "worktree", "live", "session"} \cup Making
    /\ GoTo(i, "ended")
    /\ UNCHANGED <<git, cache, read, alreadyRepo>>

-----------------------------------------------------------------------------
(* writeManifest hashes every scenario and every profile level.             *)

CloseLoop ==
    /\ phase = "loop"
    /\ \A i \in Entries : stage[i] \in {"refused", "ended"}
    /\ phase' = "close" /\ todo' = ScenarioSeq \o LevelSeq
    /\ UNCHANGED <<author, git, runs, experiments, valid, loaded, bundled, manifest,
                   checked>>

\* hashDirectory, of the tree as it is now.
LiveHash(d) == tree[d]

HashNext ==
    /\ phase = "close" /\ todo # <<>>
    /\ <<Head(todo), tree[Head(todo)]>> \notin Unhashable
    /\ manifest' = [manifest EXCEPT ![Head(todo)] = LiveHash(Head(todo))]
    /\ todo' = Tail(todo)
    /\ UNCHANGED <<author, git, runs, experiments, phase, valid, loaded, bundled,
                   checked>>

\* hashDirectory or loadProfilePackage throws: there is no manifest.
HashFails ==
    /\ phase = "close" /\ todo # <<>>
    /\ <<Head(todo), tree[Head(todo)]>> \in Refused \cup Unhashable
    /\ phase' = "failed"
    /\ UNCHANGED <<author, git, runs, experiments, todo, valid, loaded, bundled,
                   manifest, checked>>

WriteManifest ==
    /\ phase = "close" /\ todo = <<>>
    /\ phase' = "finished"
    /\ UNCHANGED <<author, git, runs, experiments, todo, valid, loaded, bundled,
                   manifest, checked>>

AuthorStep  == \/ \E d \in Dirs : Edit(d) \/ SaveSpec(d)
               \/ \E p \in Presets : HashProfile(p)
EntryStep(i) == \/ Skip(i) \/ LoadProfile(i) \/ LoadScenario(i) \/ ReadPrompt(i)
                \/ CheckRepo(i) \/ RefuseCodeDir(i) \/ InitRepo(i) \/ AddFiles(i)
                \/ Commit(i) \/ AddWorktree(i) \/ ReadLiveFiles(i) \/ Evaluate(i)
                \/ RunFails(i)
CommandStep == \/ LoadSpec \/ Validate \/ Refuse \/ Accept \/ InitBundle
               \/ CloseLoop \/ HashNext \/ HashFails \/ WriteManifest
Next == AuthorStep \/ CommandStep \/ \E i \in Entries : EntryStep(i)
Spec == Init /\ [][Next]_vars

-----------------------------------------------------------------------------
(* What the records of an experiment are worth.                             *)

\* The validator compared the declared hash of a directory: a checked one that
\* could be hashed, or a preset that carried a recorded hash.
Compared(d) ==
    /\ d \in Checked
    /\ IF d \in Presets THEN checked[d].hash # None
                       ELSE <<d, checked[d].content>> \notin Unhashable

\* An edit was taken back: content v lay between two contents with hash h.
TakenBack(d, v, h) ==
    \E a, c \in 0..tree[d] : a < v /\ v < c /\ SameHash(d, a, h) /\ SameHash(d, c, h)

\* The rule by which a reader may trust a bundle.  Where the spec in it is the
\* one that was run and pins a hash, the validator compared that hash, and the
\* manifest shows the same hash, every run read content of that hash, however
\* the directories, the spec and the recorded hashes were changed meanwhile:
\* definitions, prompts, scripts, agents and oracle, everything but the code.
\* The one exception is an edit that was taken back before the manifest was
\* written.  (What the hash does not cover, it says nothing of.)
PinnedMeansPinned ==
    phase = "finished" =>
        \A i \in Entries, k \in Kinds \ {"code"} :
            LET d == Source(i, k)
            IN  /\ Compared(d) /\ loaded[d] # TBD /\ read[i][k] # None
                /\ SameHash(d, loaded[d], bundled[d]) /\ SameHash(d, manifest[d], loaded[d])
                => SameHash(d, read[i][k], loaded[d]) \/ TakenBack(d, read[i][k], loaded[d])

\* Two runs of a scenario both found no repository, and both make one.
RepoRace(s) ==
    \E i, j \in Entries : /\ i # j /\ ScenarioOf(i) = s /\ ScenarioOf(j) = s
                          /\ alreadyRepo[i] = "no" /\ alreadyRepo[j] = "no"

\* All cells of an experiment with one profile, and with one scenario, are
\* given the same definition, and all runs of a scenario start from the same
\* code, whatever is edited while they run: the matrix stays a comparison.  For
\* code that takes that no two runs make the repository at once: then each may
\* commit what it finds, and a worktree is made of whichever commit is there.
CellsComparable ==
    \A i, j \in Entries, k \in {"definition", "meta", "code"} :
        Source(i, k) = Source(j, k) /\ None \notin {read[i][k], read[j][k]}
            => read[i][k] = read[j][k] \/ (k = "code" /\ RepoRace(ScenarioOf(i)))

\* The complete list of reasons for which an entry of an accepted experiment
\* has its inputs refused: an edit since the validator read them, a level the
\* validator did not read, or a file the validator leaves to the runner.
RefusalHasACause ==
    \A i \in Entries : stage[i] = "refused" =>
        \E k \in {"definition", "meta"} :
            LET d == Source(i, k)
            IN  /\ read[i][k] # None /\ <<d, read[i][k]>> \in Refused \cup Unchecked
                /\ \/ d \notin Checked
                   \/ <<d, read[i][k]>> \in Unchecked
                   \/ read[i][k] # checked[d].content

\* validator/index.ts:214-217: a run under a hash that is not that of its
\* scenario "would silently produce results tagged with the wrong hash".  When
\* nothing was edited between the check of a pinned scenario and the end of the
\* experiment, its runs worked on the code the manifest records.
CodeIsRecorded ==
    phase = "finished" =>
        \A i \in Entries :
            LET s == ScenarioOf(i)
                v == read[i]["code"]
            IN  /\ SameHash(s, loaded[s], checked[s].content) /\ SameHash(s, manifest[s], loaded[s])
                => v = None \/ SameHash(s, v, manifest[s])
=============================================================================
