-------------------------- MODULE Provenance_proofs --------------------------
(***************************************************************************)
(* Proofs about Provenance.  Contents are numbered in the order in which   *)
(* they came to be, so what is read between two moments at which a         *)
(* directory has one hash has that hash, or is an edit that was taken      *)
(* back: the invariant Inv bounds everything read from below by the        *)
(* content the validator compared and from above by the present one.       *)
(***************************************************************************)
EXTENDS Provenance, TLAPS

\* a is a content that was there by the time of content b.
By(a, b) == a # None => a <= b

Passed(d)   == checked[d].content # None
Listed(d)   == \E k \in 1..Len(todo) : todo[k] = d
Running     == phase \notin {"idle", "validate", "rejected"}

\* A content is numbered by the edits of its directory.
Bounded == \A d \in Dirs : tree[d] <= changes
Types   == TypeOK /\ Bounded

\* Everything read is of the present or the past.
Past ==
    /\ \A p \in Presets : By(recorded[p], tree[p])
    /\ \A d \in Dirs : By(cache[d], tree[d]) /\ By(manifest[d], tree[d])
    /\ \A i \in Entries, k \in Kinds \ {"code"} : By(read[i][k], tree[Source(i, k)])

\* The validator reads every checked directory before the matrix is opened.
AllPassed ==
    /\ phase = "validate" => \A d \in Checked : Passed(d) \/ Listed(d)
    /\ Running => valid /\ \A d \in Checked : Passed(d)

\* The content whose hash the validator compared: the present one, or the one
\* the recorded hash of a preset was made of.
Witness(d) == IF d \in Presets THEN checked[d].hash ELSE checked[d].content

\* What the validator let pass.
Vouched ==
    valid => \A d \in Checked : Passed(d) =>
        /\ <<d, checked[d].content>> \notin Refused
        /\ Compared(d) =>
               /\ Witness(d) \in Nat /\ Witness(d) <= tree[d]
               /\ loaded[d] # TBD => SameHash(d, Witness(d), loaded[d])

\* What runs read is not older than what was compared.
Floor ==
    \A d \in Dirs : Compared(d) =>
        /\ cache[d] # None => Witness(d) <= cache[d]
        /\ \A i \in Entries, k \in Kinds \ {"code"} :
               Source(i, k) = d /\ read[i][k] # None => Witness(d) <= read[i][k]

\* Nothing is read before the loop, nothing is recorded before its end, and
\* what the manifest records is not older than what was read.
Order ==
    /\ phase \in {"validate", "open", "loop"} => manifest = Unread
    /\ phase \in {"validate", "open"} =>
           cache = Unread /\ \A i \in Entries, k \in Kinds : read[i][k] = None
    /\ \A i \in Entries, k \in Kinds \ {"code"} :
           LET d == Source(i, k)
           IN  manifest[d] # None => By(read[i][k], manifest[d])

\* Where a shared definition was read from.
Shared ==
    \A i \in Entries, k \in {"definition", "meta"} :
        read[i][k] # None => read[i][k] = cache[Source(i, k)]

\* One run that makes the repository, and no other that found none: there is no
\* commit before its own, and no second one after it.
Repos ==
    /\ \A s \in Scenarios : s \notin repo => head[s] = None
    /\ \A i \in Entries :
           /\ stage[i] \in {"waiting", "scenario", "prompt", "workspace"}
                  => alreadyRepo[i] = "unasked"
           /\ stage[i] \in Making => alreadyRepo[i] = "no"
           /\ stage[i] \in {"add", "commit"} => ScenarioOf(i) \in repo
           /\ ~ RepoRace(ScenarioOf(i)) =>
                  /\ stage[i] \in Making => head[ScenarioOf(i)] = None
                  /\ read[i]["code"] # None => read[i]["code"] = head[ScenarioOf(i)]

Inv == /\ Types /\ Past /\ AllPassed /\ Vouched /\ Floor /\ Order /\ Shared /\ Repos
       /\ RefusalHasACause

-----------------------------------------------------------------------------
(* The matrix: every entry has a scenario and a profile of the spec.        *)

LEMMA Quotient ==
    ASSUME NEW n \in Nat, NEW p \in Nat \ {0}, NEW m \in Nat, n < m * p
    PROVE  n \div p \in 0..(m - 1)
<1>1. n = p * (n \div p) + (n % p) /\ n % p \in 0..(p - 1) /\ n \div p \in Int
  BY SMT
<1>2. n \div p >= 0
  BY <1>1, SMT
<1>3. n \div p < m
  BY <1>1, <1>2, SMT
<1> QED BY <1>1, <1>2, <1>3

LEMMA MatrixIsOfSpec ==
    \A i \in Entries : ScenarioOf(i) \in Scenarios /\ ProfileOf(i) \in Profiles
<1> SUFFICES ASSUME NEW i \in Entries
             PROVE  ScenarioOf(i) \in Scenarios /\ ProfileOf(i) \in Profiles
  OBVIOUS
<1> DEFINE S == Len(ScenarioSeq)
           L == Len(LevelSeq)
<1>1. S \in Nat \ {0} /\ L \in Nat \ {0} /\ Repetitions \in Nat \ {0}
  BY InputsAssumption
<1>2. PerScenario \in Nat \ {0}
  BY <1>1, SMT DEF PerScenario
<1>3. i - 1 \in Nat /\ i - 1 < S * PerScenario
  BY <1>1, <1>2, SMT DEF Entries
<1>4. (i - 1) \div PerScenario \in 0..(S - 1)
  <2> HIDE DEF S
  <2> QED BY <1>1, <1>2, <1>3, Quotient
<1>5. ((i - 1) \div PerScenario) + 1 \in DOMAIN ScenarioSeq
  BY <1>1, <1>4, InputsAssumption
<1>6. (i - 1) \div Repetitions \in Int
  BY <1>1, <1>3, SMT
<1>7. ((i - 1) \div Repetitions) % L \in 0..(L - 1)
  BY <1>1, <1>6, SMT
<1>8. (((i - 1) \div Repetitions) % L) + 1 \in DOMAIN LevelSeq
  BY <1>1, <1>7, InputsAssumption
<1> QED BY <1>5, <1>8 DEF ScenarioOf, ProfileOf, Scenarios, Profiles

LEMMA Sources ==
    \A i \in Entries, k \in Kinds :
        /\ Source(i, k) \in Dirs
        /\ k \in {"meta", "prompt", "code", "oracle"} => Source(i, k) = ScenarioOf(i)
        /\ k \in {"definition", "live"} => Source(i, k) = ProfileOf(i)
BY MatrixIsOfSpec DEF Source, Dirs, FromProfile, FromScenario, Kinds

\* What the validator is to read is exactly what counts as checked.
LEMMA CheckOrderLists ==
    /\ CheckOrder \in Seq(Dirs)
    /\ \A d \in Checked : \E k \in 1..Len(CheckOrder) : CheckOrder[k] = d
<1> DEFINE S == Len(ScenarioSeq)
           L == Len(LevelSeq)
           last == SubSeq(LevelSeq, FirstOfLast, L)
<1>1. /\ ScenarioSeq \in Seq(Dirs) /\ LevelSeq \in Seq(Dirs)
      /\ S \in Nat /\ L \in Nat /\ FirstOfLast \in 1..L
  BY InputsAssumption DEF Dirs
<1>2. /\ last \in Seq(Dirs) /\ Len(last) = L - FirstOfLast + 1
      /\ \A k \in 1..Len(last) : last[k] = LevelSeq[FirstOfLast + k - 1]
  BY <1>1
<1>3. /\ CheckOrder \in Seq(Dirs) /\ Len(CheckOrder) = S + Len(last)
      /\ \A k \in 1..S : CheckOrder[k] = ScenarioSeq[k]
      /\ \A k \in 1..Len(last) : CheckOrder[S + k] = last[k]
  BY <1>1, <1>2 DEF CheckOrder
<1>4. ASSUME NEW d \in Scenarios
      PROVE  \E k \in 1..Len(CheckOrder) : CheckOrder[k] = d
  BY <1>1, <1>2, <1>3 DEF Scenarios
<1>5. ASSUME NEW n \in FirstOfLast..L
      PROVE  \E k \in 1..Len(CheckOrder) : CheckOrder[k] = LevelSeq[n]
  <2> DEFINE k == n - FirstOfLast + 1
  <2>1. k \in 1..Len(last) /\ S + k \in 1..Len(CheckOrder)
    BY <1>1, <1>2, <1>3
  <2>2. CheckOrder[S + k] = last[k]
    BY <2>1, <1>3
  <2>3. last[k] = LevelSeq[FirstOfLast + k - 1]
    BY <2>1, <1>2
  <2>4. FirstOfLast + k - 1 = n
    BY <1>1
  <2> HIDE DEF k, last, S, L
  <2> QED BY <2>1, <2>2, <2>3, <2>4
<1> QED BY <1>3, <1>4, <1>5 DEF Checked
-----------------------------------------------------------------------------
(* What a step of an entry does to what is read.                            *)

Reading(i) ==
    \E k \in Kinds \ {"code"}, v \in Versions :
        /\ read' = [read EXCEPT ![i][k] = v]
        /\ \/ /\ k \in {"definition", "meta"}
              /\ v = Cached(Source(i, k))
              /\ cache' = [cache EXCEPT ![Source(i, k)] = v]
           \/ /\ k \in {"prompt", "live", "oracle"}
              /\ v = tree[Source(i, k)]
              /\ cache' = cache

Coding(i) ==
    /\ AddWorktree(i)
    /\ read' = [read EXCEPT ![i]["code"] = head[ScenarioOf(i)]]
    /\ cache' = cache

\* The live files may be none at all.
Missing(i) ==
    /\ read' = [read EXCEPT ![i]["live"] = None]
    /\ cache' = cache

GitTypes ==
    /\ repo \subseteq Scenarios
    /\ index \in [Scenarios -> Seen] /\ head \in [Scenarios -> Seen]
    /\ alreadyRepo \in [Entries -> {"unasked", "yes", "no"}]

Effect(i) ==
    /\ phase = "loop"
    /\ UNCHANGED <<author, command>>
    /\ GitTypes'
    /\ \E s \in Stages : stage' = [stage EXCEPT ![i] = s]
    /\ Reading(i) \/ Coding(i) \/ Missing(i) \/ UNCHANGED <<read, cache>>

LEMMA EntryEffect ==
    ASSUME TypeOK, NEW i \in Entries, EntryStep(i)
    PROVE  Effect(i)
<1> USE DEF Lane, GoTo, Note, Kinds, FromProfile, FromScenario, Stages, Making
<1>a. /\ ScenarioOf(i) \in Dirs /\ ScenarioOf(i) \in Scenarios /\ ProfileOf(i) \in Dirs
      /\ tree[ScenarioOf(i)] \in Versions /\ tree[ProfileOf(i)] \in Versions
      /\ \A k \in {"meta", "prompt", "oracle"} : Source(i, k) = ScenarioOf(i)
      /\ \A k \in {"definition", "live"} : Source(i, k) = ProfileOf(i)
  BY MatrixIsOfSpec, Sources DEF Dirs, TypeOK
<1>b. Cached(ScenarioOf(i)) \in Versions /\ Cached(ProfileOf(i)) \in Versions
  BY <1>a DEF Cached, TypeOK, Seen
<1>c. GitTypes
  BY DEF TypeOK, GitTypes
<1>d. UNCHANGED <<git, alreadyRepo>> => GitTypes'
  BY <1>c DEF GitTypes, git
<1>1. CASE LoadProfile(i)
  BY <1>1, <1>a, <1>b, <1>d DEF LoadProfile, Effect, Reading
<1>2. CASE LoadScenario(i)
  BY <1>2, <1>a, <1>b, <1>d DEF LoadScenario, Effect, Reading
<1>3. CASE ReadPrompt(i)
  BY <1>3, <1>a, <1>d DEF ReadPrompt, Effect, Reading
<1>4. CASE CheckRepo(i)
  <2>1. GitTypes'
    BY <1>4, <1>c DEF CheckRepo, GitTypes, git
  <2> QED BY <1>4, <2>1 DEF CheckRepo, Effect
<1>5. CASE InitRepo(i)
  <2>1. GitTypes'
    BY <1>5, <1>a, <1>c DEF InitRepo, GitTypes
  <2> QED BY <1>5, <2>1 DEF InitRepo, Effect
<1>6. CASE AddFiles(i)
  <2>1. tree[ScenarioOf(i)] \in Seen
    BY <1>a DEF Seen
  <2>2. GitTypes'
    BY <1>6, <2>1, <1>c DEF AddFiles, GitTypes
  <2> QED BY <1>6, <2>2 DEF AddFiles, Effect
<1>7. CASE Commit(i)
  <2>1. GitTypes'
    BY <1>7, <1>a, <1>c DEF Commit, GitTypes
  <2> QED BY <1>7, <2>1 DEF Commit, Effect
<1>8. CASE AddWorktree(i)
  BY <1>8, <1>d DEF AddWorktree, Effect, Coding
<1>9. CASE ReadLiveFiles(i)
  <2>1. CASE Note(i, "live", None)
    BY <1>9, <2>1, <1>d DEF ReadLiveFiles, Effect, Missing
  <2>2. CASE Note(i, "live", tree[ProfileOf(i)])
    BY <1>9, <2>2, <1>a, <1>d DEF ReadLiveFiles, Effect, Reading
  <2> QED BY <1>9, <2>1, <2>2 DEF ReadLiveFiles
<1>10. CASE Evaluate(i)
  BY <1>10, <1>a, <1>d DEF Evaluate, Effect, Reading
<1>11. CASE RunFails(i) \/ Skip(i) \/ RefuseCodeDir(i)
  BY <1>11, <1>d DEF RunFails, Skip, RefuseCodeDir, Effect
<1> QED BY <1>1, <1>2, <1>3, <1>4, <1>5, <1>6, <1>7, <1>8, <1>9, <1>10, <1>11 DEF EntryStep

\* One reading of one entry changes nothing else.
LEMMA OneReading ==
    ASSUME TypeOK, NEW i \in Entries, NEW k \in Kinds, NEW v \in Seen,
           read' = [read EXCEPT ![i][k] = v]
    PROVE  /\ read' \in [Entries -> [Kinds -> Seen]]
           /\ read'[i][k] = v
           /\ \A j \in Entries, l \in Kinds :
                  j # i \/ l # k => read'[j][l] = read[j][l]
<1> DEFINE row == [read[i] EXCEPT ![k] = v]
<1>1. read \in [Entries -> [Kinds -> Seen]]
  BY DEF TypeOK
<1>2. row \in [Kinds -> Seen] /\ row[k] = v /\ \A l \in Kinds \ {k} : row[l] = read[i][l]
  BY <1>1
<1>3. read' = [read EXCEPT ![i] = row]
  OBVIOUS
<1> HIDE DEF row
<1> QED BY <1>1, <1>2, <1>3

-----------------------------------------------------------------------------
(* Types.                                                                   *)

LEMMA TypesInit == Init => Types
<1> SUFFICES ASSUME Init PROVE Types
  OBVIOUS
<1> USE InputsAssumption DEF Init, Versions, Seen
<1>1. 0 \in Versions /\ MaxChanges \in Versions
  OBVIOUS
<1>2. tree \in [Dirs -> Versions] /\ Bounded /\ changes \in 0..MaxChanges
  BY DEF Bounded
<1>3. recorded \in [Presets -> Seen] /\ GitTypes
  BY DEF GitTypes
<1>4. {TBD, 0, MaxChanges} \subseteq Declared
  BY <1>1 DEF Declared
<1>5. spec \in [Dirs -> Declared] /\ loaded \in [Dirs -> Declared] /\ bundled \in [Dirs -> Declared]
  BY <1>4
<1>6. stage \in [Entries -> Stages] /\ todo \in Seq(Dirs) /\ valid \in BOOLEAN
  BY DEF Stages
<1>7. cache \in [Dirs -> Seen] /\ manifest \in [Dirs -> Seen]
  BY DEF Unread
<1>8. read \in [Entries -> [Kinds -> Seen]]
  OBVIOUS
<1>9. checked \in [Dirs -> [content : Seen, hash : Seen]]
  OBVIOUS
<1>10. phase \in Idle /\ experiments \in 0..MaxExperiments
  BY DEF Idle
<1> QED BY <1>2, <1>3, <1>5, <1>6, <1>7, <1>8, <1>9, <1>10 DEF Types, TypeOK, GitTypes

LEMMA TypesNext == Types /\ [Next]_vars => Types'
<1> SUFFICES ASSUME Types, [Next]_vars PROVE Types'
  OBVIOUS
<1> USE DEF Types
<1>a. MaxChanges \in Nat /\ tree \in [Dirs -> Versions] /\ changes \in 0..MaxChanges
  BY InputsAssumption DEF TypeOK
<1>1. ASSUME NEW d \in Dirs, Edit(d) PROVE Types'
  <2>1. tree' \in [Dirs -> Versions] /\ changes' \in 0..MaxChanges /\ Bounded'
    BY <1>1, <1>a DEF Edit, Change, Bounded, Versions
  <2> QED BY <1>1, <2>1 DEF Edit, Change, TypeOK, git, command, runs
<1>2. ASSUME NEW d \in Dirs, SaveSpec(d) PROVE Types'
  BY <1>2, <1>a DEF SaveSpec, Change, TypeOK, Bounded, git, command, runs, Declared, Versions
<1>3. ASSUME NEW p \in Presets, HashProfile(p) PROVE Types'
  <2>1. p \in Dirs
    BY InputsAssumption DEF Dirs
  <2> QED BY <1>3, <2>1, <1>a DEF HashProfile, Change, TypeOK, Bounded, git, command, runs,
             Seen, Versions
<1>4. ASSUME NEW i \in Entries, EntryStep(i) PROVE Types'
  <2>1. Effect(i)
    BY <1>4, EntryEffect
  <2>2. UNCHANGED <<author, command>> /\ GitTypes' /\ stage' \in [Entries -> Stages]
    BY <2>1 DEF Effect, TypeOK
  <2>3. read' \in [Entries -> [Kinds -> Seen]] /\ cache' \in [Dirs -> Seen]
    <3>1. CASE Reading(i)
      <4> PICK k \in Kinds \ {"code"}, v \in Versions :
               /\ read' = [read EXCEPT ![i][k] = v]
               /\ cache' = cache \/ cache' = [cache EXCEPT ![Source(i, k)] = v]
        BY <3>1 DEF Reading
      <4>1. v \in Seen
        BY DEF Seen
      <4>2. read' \in [Entries -> [Kinds -> Seen]]
        BY <4>1, OneReading
      <4>3. cache' \in [Dirs -> Seen]
        BY <4>1, Sources DEF TypeOK
      <4> QED BY <4>2, <4>3
    <3>2. CASE Coding(i)
      <4>1. head[ScenarioOf(i)] \in Seen /\ "code" \in Kinds
        BY MatrixIsOfSpec DEF TypeOK, Kinds, FromScenario
      <4> QED BY <3>2, <4>1, OneReading DEF Coding, TypeOK
    <3>3. CASE Missing(i)
      <4>1. None \in Seen /\ "live" \in Kinds
        BY DEF Seen, Kinds, FromProfile
      <4> QED BY <3>3, <4>1, OneReading DEF Missing, TypeOK
    <3>4. CASE UNCHANGED <<read, cache>>
      BY <3>4 DEF TypeOK
    <3> QED BY <2>1, <3>1, <3>2, <3>3, <3>4 DEF Effect
  <2> QED BY <2>2, <2>3 DEF TypeOK, GitTypes, Bounded, author, command
<1>5. CASE LoadSpec
  <2>1. None \in Seen
    BY DEF Seen
  <2>2. cache' \in [Dirs -> Seen] /\ manifest' \in [Dirs -> Seen]
    BY <1>5, <2>1 DEF LoadSpec, Unread
  <2>3. read' \in [Entries -> [Kinds -> Seen]] /\ stage' \in [Entries -> Stages]
    BY <1>5, <2>1 DEF LoadSpec, Stages
  <2>4. checked' \in [Dirs -> [content : Seen, hash : Seen]]
    BY <1>5, <2>1 DEF LoadSpec
  <2>5. experiments' \in 0..MaxExperiments
    BY <1>5, InputsAssumption DEF LoadSpec, TypeOK
  <2>6. todo' \in Seq(Dirs) /\ valid' \in BOOLEAN /\ loaded' \in [Dirs -> Declared]
    BY <1>5, CheckOrderLists DEF LoadSpec, TypeOK
  <2> QED BY <1>5, <2>2, <2>3, <2>4, <2>5, <2>6 DEF LoadSpec, TypeOK, Bounded, author, git
<1>6. CASE Validate
  <2>1. /\ Head(todo) \in Dirs /\ Tail(todo) \in Seq(Dirs)
    BY <1>6 DEF Validate, TypeOK
  <2>2. checked' \in [Dirs -> [content : Seen, hash : Seen]]
    BY <1>6, <2>1 DEF Validate, TypeOK, Seen
  <2>3. valid' \in BOOLEAN
    BY <1>6 DEF Validate
  <2> QED BY <1>6, <2>1, <2>2, <2>3 DEF Validate, TypeOK, Bounded, author, git, runs
<1>7. CASE Refuse \/ Accept \/ InitBundle \/ HashFails \/ WriteManifest
  BY <1>7 DEF Refuse, Accept, InitBundle, HashFails, WriteManifest, TypeOK, Bounded,
     author, git, runs, Idle
<1>8. CASE CloseLoop
  <2>1. ScenarioSeq \o LevelSeq \in Seq(Dirs)
    BY InputsAssumption DEF Dirs
  <2> QED BY <1>8, <2>1 DEF CloseLoop, TypeOK, Bounded, author, git, runs
<1>9. CASE HashNext
  BY <1>9 DEF HashNext, LiveHash, TypeOK, Bounded, author, git, runs, Seen
<1>10. CASE UNCHANGED vars
  BY <1>10 DEF vars, author, git, command, runs, TypeOK, Bounded
<1> QED BY <1>1, <1>2, <1>3, <1>4, <1>5, <1>6, <1>7, <1>8, <1>9, <1>10
        DEF Next, AuthorStep, CommandStep

\* Every variable keeps its type.
THEOREM TypeCorrect == Spec => []TypeOK
<1>1. Spec => []Types
  BY TypesInit, TypesNext, PTL DEF Spec
<1> QED BY <1>1, PTL DEF Types
-----------------------------------------------------------------------------
(* The entries keep the invariant.                                          *)

\* During the loop what can be read lies between what the validator compared
\* and the present content.
LEMMA CachedBounds ==
    ASSUME Inv, phase = "loop", NEW d \in Dirs
    PROVE  /\ tree[d] \in Nat /\ Cached(d) \in Nat
           /\ cache[d] # None => cache[d] = Cached(d)
           /\ Cached(d) <= tree[d]
           /\ Compared(d) => Witness(d) <= tree[d] /\ Witness(d) <= Cached(d)
<1>1. tree[d] \in Nat /\ cache[d] \in Nat \cup {None}
  BY InputsAssumption DEF Inv, Types, TypeOK, Versions, Seen
<1>2. cache[d] # None => cache[d] <= tree[d]
  BY DEF Inv, Past, By
<1>3. Compared(d) => Witness(d) <= tree[d]
  BY DEF Inv, AllPassed, Vouched, Running, Compared
<1>4. Compared(d) /\ cache[d] # None => Witness(d) <= cache[d]
  BY DEF Inv, Floor
<1> QED BY <1>1, <1>2, <1>3, <1>4 DEF Cached

\* A reading of anything but code within those bounds.
LEMMA ReadingKeeps ==
    ASSUME Inv, NEW i \in Entries, Effect(i), Reading(i)
    PROVE  Past' /\ Floor' /\ Order' /\ Shared'
<1>1. PICK k \in Kinds \ {"code"}, v \in Versions :
        /\ read' = [read EXCEPT ![i][k] = v]
        /\ \/ /\ k \in {"definition", "meta"}
              /\ v = Cached(Source(i, k))
              /\ cache' = [cache EXCEPT ![Source(i, k)] = v]
           \/ /\ k \in {"prompt", "live", "oracle"}
              /\ v = tree[Source(i, k)]
              /\ cache' = cache
  BY DEF Reading
<1> DEFINE D == Source(i, k)
<1>2. /\ TypeOK /\ phase = "loop" /\ UNCHANGED <<author, command>>
      /\ v \in Nat /\ v \in Seen /\ D \in Dirs /\ v # None
  BY Sources, InputsAssumption DEF Inv, Types, Effect, Versions, Seen
<1>3. /\ read'[i][k] = v
      /\ \A j \in Entries, l \in Kinds : j # i \/ l # k => read'[j][l] = read[j][l]
  BY <1>1, <1>2, OneReading
<1>4. cache \in [Dirs -> Seen]
  BY <1>2 DEF TypeOK
<1>5. \A d \in Dirs : cache'[d] = cache[d] \/ (d = D /\ cache'[d] = v)
  BY <1>1, <1>2, <1>4
<1>6. v <= tree[D] /\ (Compared(D) => Witness(D) <= v)
  BY <1>1, <1>2, CachedBounds
<1>7. /\ \A d \in Dirs : /\ Compared(d)' = Compared(d) /\ Witness(d)' = Witness(d)
                          /\ tree'[d] = tree[d]
      /\ manifest' = manifest
  BY <1>2 DEF Compared, Witness, author, command
<1>8. Past'
  <2>1. \A p \in Presets : By(recorded'[p], tree'[p])
    BY <1>2 DEF Inv, Past, author
  <2>2. \A d \in Dirs : By(cache'[d], tree'[d]) /\ By(manifest'[d], tree'[d])
    BY <1>5, <1>6, <1>7 DEF Inv, Past, By
  <2>3. ASSUME NEW j \in Entries, NEW l \in Kinds \ {"code"}
        PROVE  By(read'[j][l], tree'[Source(j, l)])
    <3>1. By(read[j][l], tree[Source(j, l)])
      BY DEF Inv, Past
    <3>2. CASE j = i /\ l = k
      BY <3>2, <1>2, <1>3, <1>6, <1>7 DEF By
    <3>3. CASE j # i \/ l # k
      BY <3>1, <3>3, <1>3, <1>7, Sources DEF By
    <3> QED BY <3>2, <3>3
  <2> QED BY <2>1, <2>2, <2>3 DEF Past
<1>9. Floor'
  <2> SUFFICES ASSUME NEW d \in Dirs, Compared(d)
      PROVE /\ cache'[d] # None => Witness(d) <= cache'[d]
            /\ \A j \in Entries, l \in Kinds \ {"code"} :
                  Source(j, l) = d /\ read'[j][l] # None => Witness(d) <= read'[j][l]
    BY <1>7 DEF Floor
  <2>1. cache'[d] # None => Witness(d) <= cache'[d]
    BY <1>5, <1>6 DEF Inv, Floor
  <2>2. ASSUME NEW j \in Entries, NEW l \in Kinds \ {"code"},
               Source(j, l) = d, read'[j][l] # None
        PROVE  Witness(d) <= read'[j][l]
    <3>1. read[j][l] # None => Witness(d) <= read[j][l]
      BY <2>2 DEF Inv, Floor
    <3>2. CASE j = i /\ l = k
      BY <2>2, <3>2, <1>3, <1>6
    <3>3. CASE j # i \/ l # k
      BY <2>2, <3>1, <3>3, <1>3
    <3> QED BY <3>2, <3>3
  <2> QED BY <2>1, <2>2
<1>10. Order'
  <2>1. manifest' = Unread /\ phase' = "loop"
    BY <1>2 DEF Inv, Order, command
  <2> QED BY <2>1, Sources DEF Order, Unread
<1>11. Shared'
  <2>1. ASSUME NEW j \in Entries, NEW l \in {"definition", "meta"}, read'[j][l] # None
        PROVE  read'[j][l] = cache'[Source(j, l)]
    <3>1. l \in Kinds /\ Source(j, l) \in Dirs
      BY Sources DEF Kinds, FromProfile, FromScenario
    <3>2. CASE j = i /\ l = k
      BY <3>2, <1>1, <1>2, <1>3, <1>4
    <3>3. CASE j # i \/ l # k
      <4>1. read[j][l] # None /\ read[j][l] = cache[Source(j, l)]
        BY <2>1, <3>1, <3>3, <1>3 DEF Inv, Shared
      <4>2. cache'[Source(j, l)] = cache[Source(j, l)]
        BY <4>1, <3>1, <1>1, <1>2, <1>4 DEF Cached
      <4> QED BY <4>1, <4>2, <3>1, <3>3, <1>3
    <3> QED BY <3>2, <3>3
  <2> QED BY <2>1 DEF Shared
<1> QED BY <1>8, <1>9, <1>10, <1>11

\* Code, live files that are not there, or nothing at all.
LEMMA OtherKeeps ==
    ASSUME Inv, NEW i \in Entries, Effect(i),
           Coding(i) \/ Missing(i) \/ UNCHANGED <<read, cache>>
    PROVE  Past' /\ Floor' /\ Order' /\ Shared'
<1>1. /\ TypeOK /\ phase = "loop" /\ UNCHANGED <<author, command>> /\ cache' = cache
      /\ {"code", "live"} \subseteq Kinds /\ None \in Seen
      /\ head[ScenarioOf(i)] \in Seen
  BY MatrixIsOfSpec DEF Inv, Types, TypeOK, Effect, Coding, Missing, Kinds, FromScenario,
     FromProfile, Seen
<1>2. \A j \in Entries, l \in Kinds \ {"code"} : read'[j][l] \in {read[j][l], None}
  <2>1. CASE Coding(i)
    BY <2>1, <1>1, OneReading DEF Coding
  <2>2. CASE Missing(i)
    BY <2>2, <1>1, OneReading DEF Missing
  <2> QED BY <2>1, <2>2
<1>3. \A d \in Dirs : Compared(d)' = Compared(d) /\ Witness(d)' = Witness(d)
  BY <1>1 DEF Compared, Witness, command
<1>4. Past'
  BY <1>1, <1>2 DEF Inv, Past, By, author, command
<1>5. Floor'
  BY <1>1, <1>2, <1>3 DEF Inv, Floor
<1>6. manifest' = Unread /\ phase' = "loop"
  BY <1>1 DEF Inv, Order, command
<1>7. Order'
  BY <1>6, Sources DEF Order, Unread
<1>8. Shared'
  <2>1. {"definition", "meta"} \subseteq Kinds \ {"code"}
    BY DEF Kinds, FromProfile, FromScenario
  <2> QED BY <1>1, <1>2, <2>1 DEF Inv, Shared
<1> QED BY <1>4, <1>5, <1>7, <1>8

\* A step of one entry leaves the code the other entries have.
LEMMA CodeOfOthers ==
    ASSUME TypeOK, NEW i \in Entries, EntryStep(i)
    PROVE  /\ \A j \in Entries \ {i} : /\ read'[j]["code"] = read[j]["code"]
                                       /\ stage'[j] = stage[j]
           /\ ~ AddWorktree(i) => read'[i]["code"] = read[i]["code"]
<1>1. Effect(i)
  BY EntryEffect
<1>2. "code" \in Kinds /\ "live" \in Kinds /\ None \in Seen /\ Versions \subseteq Seen
      /\ head[ScenarioOf(i)] \in Seen
  BY MatrixIsOfSpec DEF Kinds, FromScenario, FromProfile, Seen, TypeOK
<1>3. \A j \in Entries \ {i} : stage'[j] = stage[j]
  BY <1>1 DEF Effect, TypeOK
<1>4. CASE Reading(i)
  <2>1. PICK k \in Kinds \ {"code"}, v \in Seen : read' = [read EXCEPT ![i][k] = v]
    BY <1>4, <1>2 DEF Reading
  <2> QED BY <2>1, <1>2, <1>3, OneReading
<1>5. CASE Missing(i)
  BY <1>5, <1>2, <1>3, OneReading DEF Missing
<1>6. CASE UNCHANGED <<read, cache>>
  BY <1>6, <1>3
<1>7. CASE Coding(i)
  <2>1. \A j \in Entries \ {i} : read'[j]["code"] = read[j]["code"]
    BY <1>7, <1>2, OneReading DEF Coding
  <2> QED BY <2>1, <1>3, <1>7 DEF Coding
<1> QED BY <1>1, <1>4, <1>5, <1>6, <1>7 DEF Effect

\* A race that was recorded stays recorded, and only a run's own check adds to it.
LEMMA RaceStays ==
    ASSUME Inv, NEW i \in Entries, EntryStep(i), NEW s \in Scenarios, RepoRace(s)
    PROVE  RepoRace(s)'
<1>1. PICK a \in Entries, b \in Entries :
          /\ a # b /\ ScenarioOf(a) = s /\ ScenarioOf(b) = s
          /\ alreadyRepo[a] = "no" /\ alreadyRepo[b] = "no"
  BY DEF RepoRace
<1>2. ASSUME NEW j \in Entries, alreadyRepo[j] = "no" PROVE alreadyRepo'[j] = "no"
  <2>1. CASE CheckRepo(i)
    <3>1. alreadyRepo[i] = "unasked" /\ alreadyRepo \in [Entries -> {"unasked", "yes", "no"}]
      BY <2>1 DEF CheckRepo, Inv, Repos, Types, TypeOK
    <3>2. j # i
      BY <3>1, <1>2
    <3> QED BY <2>1, <3>1, <3>2, <1>2 DEF CheckRepo
  <2>2. CASE ~ CheckRepo(i)
    BY <2>2, <1>2 DEF EntryStep, Skip, LoadProfile, LoadScenario, ReadPrompt, RefuseCodeDir,
       InitRepo, AddFiles, Commit, AddWorktree, ReadLiveFiles, Evaluate, RunFails
  <2> QED BY <2>1, <2>2
<1> QED BY <1>1, <1>2 DEF RepoRace

\* The repositories of the scenarios, action by action.
LEMMA ReposEntry == ASSUME Inv, NEW i \in Entries, EntryStep(i) PROVE Repos'
<1> DEFINE S == ScenarioOf(i)
<1>1. /\ TypeOK /\ Repos /\ S \in Scenarios /\ \A j \in Entries : ScenarioOf(j) \in Scenarios
      /\ \A j \in Entries \ {i} : /\ read'[j]["code"] = read[j]["code"]
                                  /\ stage'[j] = stage[j]
      /\ ~ AddWorktree(i) => read'[i]["code"] = read[i]["code"]
      /\ \A j \in Entries : RepoRace(ScenarioOf(j)) => RepoRace(ScenarioOf(j))'
  BY MatrixIsOfSpec, CodeOfOthers, RaceStays DEF Inv, Types
<1>2. /\ stage \in [Entries -> Stages] /\ repo \subseteq Scenarios
      /\ head \in [Scenarios -> Seen] /\ alreadyRepo \in [Entries -> {"unasked", "yes", "no"}]
  BY <1>1 DEF TypeOK
<1>3. CASE Skip(i) \/ LoadProfile(i) \/ LoadScenario(i) \/ ReadPrompt(i) \/ RefuseCodeDir(i)
           \/ ReadLiveFiles(i) \/ Evaluate(i) \/ RunFails(i)
  <2>1. UNCHANGED <<git, alreadyRepo>> /\ ~ AddWorktree(i) /\ stage'[i] \notin Making
    <3>1. stage[i] # "worktree" \/ RunFails(i)
      BY <1>3 DEF Skip, Taken, LoadProfile, LoadScenario, ReadPrompt, RefuseCodeDir,
         ReadLiveFiles, Evaluate
    <3>2. UNCHANGED <<git, alreadyRepo>> /\ stage'[i] \in
             {"refused", "ended", "scenario", "prompt", "workspace", "session"}
      BY <1>2, <1>3 DEF Skip, LoadProfile, LoadScenario, ReadPrompt, RefuseCodeDir,
         ReadLiveFiles, Evaluate, RunFails, GoTo
    <3>3. ~ AddWorktree(i)
      BY <1>2, <3>2 DEF AddWorktree, GoTo, Stages
    <3> QED BY <3>2, <3>3 DEF Making
  <2>2. alreadyRepo[i] = "unasked" \/ stage'[i] \notin
             {"waiting", "scenario", "prompt", "workspace"}
    BY <1>1, <1>2, <1>3 DEF Repos, Skip, Taken, LoadProfile, LoadScenario, ReadPrompt,
       RefuseCodeDir, ReadLiveFiles, Evaluate, RunFails, GoTo
  <2> QED BY <1>1, <2>1, <2>2 DEF Repos, git, Making
<1>4. CASE CheckRepo(i)
  <2>1. /\ stage'[i] = (IF S \in repo THEN "worktree" ELSE "init")
        /\ alreadyRepo'[i] = (IF S \in repo THEN "yes" ELSE "no")
        /\ \A j \in Entries \ {i} : alreadyRepo'[j] = alreadyRepo[j]
        /\ UNCHANGED git /\ read' = read
    BY <1>2, <1>4 DEF CheckRepo, GoTo
  <2>2. stage'[i] \in Making => S \notin repo
    BY <2>1 DEF Making
  <2> QED BY <1>1, <2>1, <2>2 DEF Repos, git
<1>5. CASE InitRepo(i)
  <2>1. /\ stage[i] \in Making /\ stage'[i] = "add" /\ "add" \in Making
        /\ repo' = repo \cup {S} /\ head' = head /\ alreadyRepo' = alreadyRepo /\ read' = read
    BY <1>2, <1>5 DEF InitRepo, GoTo, Making
  <2> QED BY <1>1, <2>1 DEF Repos
<1>6. CASE AddFiles(i)
  <2>1. /\ stage[i] = "add" /\ "add" \in Making /\ stage'[i] = "commit"
        /\ repo' = repo /\ head' = head /\ alreadyRepo' = alreadyRepo /\ read' = read
    BY <1>2, <1>6 DEF AddFiles, GoTo, Making
  <2> QED BY <1>1, <2>1 DEF Repos
<1>7. CASE Commit(i)
  <2>1. /\ stage[i] = "commit" /\ stage[i] \in Making /\ stage'[i] = "worktree"
        /\ stage'[i] \notin Making
        /\ repo' = repo /\ alreadyRepo' = alreadyRepo /\ read' = read
        /\ \A s \in Scenarios \ {S} : head'[s] = head[s]
    BY <1>2, <1>7 DEF Commit, GoTo, Making
  <2>2. S \in repo /\ alreadyRepo[i] = "no" /\ (~ RepoRace(S) => head[S] = None)
    BY <1>1, <2>1 DEF Repos
  <2>3. ASSUME NEW j \in Entries, ~ RepoRace(ScenarioOf(j)), ScenarioOf(j) = S
        PROVE  read[j]["code"] = None /\ (j # i => stage[j] \notin Making)
    <3>1. read[j]["code"] = None
      BY <2>2, <2>3, <1>1 DEF Repos
    <3>2. ASSUME j # i, stage[j] \in Making PROVE FALSE
      BY <3>2, <2>2, <2>3, <1>1 DEF Repos, RepoRace
    <3> QED BY <3>1, <3>2
  <2>4. \A s \in Scenarios : s \notin repo' => head'[s] = None
    BY <1>1, <2>1, <2>2 DEF Repos
  <2>5. ASSUME NEW j \in Entries
        PROVE  /\ stage'[j] \in {"waiting", "scenario", "prompt", "workspace"}
                      => alreadyRepo'[j] = "unasked"
               /\ stage'[j] \in Making => alreadyRepo'[j] = "no"
               /\ stage'[j] \in {"add", "commit"} => ScenarioOf(j) \in repo'
    BY <1>1, <2>1 DEF Repos
  <2>6. ASSUME NEW j \in Entries, ~ RepoRace(ScenarioOf(j))'
        PROVE  /\ stage'[j] \in Making => head'[ScenarioOf(j)] = None
               /\ read'[j]["code"] # None => read'[j]["code"] = head'[ScenarioOf(j)]
    <3>1. ~ RepoRace(ScenarioOf(j))
      BY <1>1, <2>6
    <3>2. CASE ScenarioOf(j) = S
      BY <1>1, <2>1, <2>3, <3>1, <3>2
    <3>3. CASE ScenarioOf(j) # S
      <4>1. head'[ScenarioOf(j)] = head[ScenarioOf(j)] /\ j # i
        BY <1>1, <2>1, <3>3
      <4> QED BY <1>1, <2>1, <3>1, <4>1 DEF Repos
    <3> QED BY <3>2, <3>3
  <2> QED BY <2>4, <2>5, <2>6 DEF Repos
<1>8. CASE AddWorktree(i)
  <2>1. /\ stage'[i] = "live" /\ stage'[i] \notin Making
        /\ UNCHANGED <<git, alreadyRepo>> /\ read'[i]["code"] = head[S]
    <3>1. "code" \in Kinds /\ head[S] \in Seen
      BY <1>1, <1>2 DEF Kinds, FromScenario
    <3>2. read'[i]["code"] = head[S]
      BY <1>8, <1>1, <3>1, OneReading DEF AddWorktree, Note
    <3> QED BY <1>2, <1>8, <3>2 DEF AddWorktree, GoTo, Making
  <2> QED BY <1>1, <2>1 DEF Repos, git
<1> QED BY <1>3, <1>4, <1>5, <1>6, <1>7, <1>8 DEF EntryStep

\* Where a definition is refused it is not the content the validator read.
LEMMA EntryRefusal ==
    ASSUME Inv, NEW i \in Entries, EntryStep(i)
    PROVE  RefusalHasACause'
<1>1. Effect(i) /\ TypeOK /\ Types'
  BY EntryEffect, TypesNext DEF Inv, Types, Next
<1>2. phase = "loop" /\ UNCHANGED <<author, command>>
  BY <1>1 DEF Effect
<1> DEFINE Bad(j, k) ==
        /\ read[j][k] # None /\ <<Source(j, k), read[j][k]>> \in Refused \cup Unchecked
        /\ \/ Source(j, k) \notin Checked
           \/ <<Source(j, k), read[j][k]>> \in Unchecked
           \/ read[j][k] # checked[Source(j, k)].content
<1>3. \A j \in Entries : stage[j] = "refused" => \E k \in {"definition", "meta"} : Bad(j, k)
  BY DEF Inv, RefusalHasACause
<1>4. \A d \in Checked : <<d, checked[d].content>> \notin Refused
  BY <1>2 DEF Inv, AllPassed, Vouched, Running
<1>5. ASSUME NEW j \in Entries, stage'[j] = "refused", stage[j] # "refused"
      PROVE  \E k \in {"definition", "meta"} : Bad(j, k)'
  <2>1. j = i
    BY <1>1, <1>5 DEF Effect, TypeOK
  <2>2. CASE LoadProfile(i)
    <3>1. <<ProfileOf(i), Cached(ProfileOf(i))>> \in Refused \cup Unchecked
      BY <2>1, <2>2, <1>1, <1>5 DEF LoadProfile, GoTo, TypeOK
    <3>2. "definition" \in Kinds /\ Cached(ProfileOf(i)) \in Seen /\ ProfileOf(i) \in Dirs
      BY <1>1, MatrixIsOfSpec DEF Kinds, FromProfile, Cached, TypeOK, Seen, Dirs
    <3>3. read'[i]["definition"] = Cached(ProfileOf(i)) /\ Source(i, "definition") = ProfileOf(i)
      BY <2>2, <3>2, <1>1, OneReading, Sources DEF LoadProfile, Note
    <3>4. Cached(ProfileOf(i)) # None
      BY <3>1, InputsAssumption
    <3>5. Bad(i, "definition")'
      BY <3>1, <3>3, <3>4, <1>2, <1>4 DEF command
    <3> QED BY <2>1, <3>5
  <2>3. CASE LoadScenario(i)
    <3>1. <<ScenarioOf(i), Cached(ScenarioOf(i))>> \in Refused
      BY <2>1, <2>3, <1>1, <1>5 DEF LoadScenario, GoTo, TypeOK
    <3>2. "meta" \in Kinds /\ Cached(ScenarioOf(i)) \in Seen /\ ScenarioOf(i) \in Dirs
      BY <1>1, MatrixIsOfSpec DEF Kinds, FromScenario, Cached, TypeOK, Seen, Dirs
    <3>3. read'[i]["meta"] = Cached(ScenarioOf(i)) /\ Source(i, "meta") = ScenarioOf(i)
      BY <2>3, <3>2, <1>1, OneReading, Sources DEF LoadScenario, Note
    <3>4. Cached(ScenarioOf(i)) # None
      BY <3>1, InputsAssumption
    <3>5. Bad(i, "meta")'
      BY <3>1, <3>3, <3>4, <1>2, <1>4 DEF command
    <3> QED BY <2>1, <3>5
  <2>4. CASE RefuseCodeDir(i)
    <3>1. <<ScenarioOf(i), read[i]["meta"]>> \in Unchecked /\ read' = read
      BY <2>1, <2>4, <1>1, <1>5 DEF RefuseCodeDir, GoTo, TypeOK
    <3>2. read[i]["meta"] # None /\ Source(i, "meta") = ScenarioOf(i)
      BY <3>1, InputsAssumption, Sources DEF Kinds, FromScenario
    <3>3. Bad(i, "meta")'
      BY <3>1, <3>2
    <3> QED BY <2>1, <3>3
  <2>5. CASE \/ Skip(i) \/ ReadPrompt(i) \/ CheckRepo(i) \/ InitRepo(i) \/ AddFiles(i)
             \/ Commit(i) \/ AddWorktree(i) \/ ReadLiveFiles(i) \/ Evaluate(i) \/ RunFails(i)
    BY <2>1, <2>5, <1>1, <1>5 DEF Skip, ReadPrompt, CheckRepo, InitRepo, AddFiles, Commit,
       AddWorktree, ReadLiveFiles, Evaluate, RunFails, GoTo, TypeOK
  <2> QED BY <2>2, <2>3, <2>4, <2>5 DEF EntryStep
<1>6. ASSUME NEW j \in Entries, stage'[j] = "refused", stage[j] = "refused"
      PROVE  \E k \in {"definition", "meta"} : Bad(j, k)'
  <2>1. j # i
    BY <1>6, <1>1 DEF EntryStep, Skip, Taken, LoadProfile, LoadScenario, ReadPrompt, CheckRepo,
       RefuseCodeDir, InitRepo, AddFiles, Commit, AddWorktree, ReadLiveFiles, Evaluate,
       RunFails, Making
  <2>2. \A k \in {"definition", "meta"} : read'[j][k] = read[j][k]
    <3>1. {"definition", "meta"} \subseteq Kinds /\ {"code", "live"} \subseteq Kinds
          /\ None \in Seen /\ Versions \subseteq Seen /\ head[ScenarioOf(i)] \in Seen
      BY <1>1, MatrixIsOfSpec DEF Kinds, FromProfile, FromScenario, Seen, TypeOK
    <3>2. CASE read' = read
      BY <3>2
    <3>3. ASSUME NEW k \in Kinds, NEW v \in Seen, read' = [read EXCEPT ![i][k] = v]
          PROVE  \A l \in {"definition", "meta"} : read'[j][l] = read[j][l]
      BY <2>1, <3>1, <3>3, <1>1, OneReading
    <3>4. read' = read \/ \E k \in Kinds, v \in Seen : read' = [read EXCEPT ![i][k] = v]
      BY <3>1, <1>1 DEF Effect, Reading, Coding, Missing
    <3> QED BY <3>2, <3>3, <3>4
  <2> QED BY <2>2, <1>2, <1>3, <1>6 DEF command
<1> QED BY <1>5, <1>6 DEF RefusalHasACause

LEMMA InvEntry == ASSUME Inv, NEW i \in Entries, EntryStep(i) PROVE Inv'
<1>1. Effect(i) /\ Types'
  BY EntryEffect, TypesNext DEF Inv, Types, Next
<1>2. Past' /\ Floor' /\ Order' /\ Shared'
  BY <1>1, ReadingKeeps, OtherKeeps DEF Effect
<1>3. AllPassed' /\ Vouched'
  BY <1>1 DEF Effect, Inv, AllPassed, Vouched, Passed, Listed, Running, Compared, Witness, author,
     command
<1> QED BY <1>1, <1>2, <1>3, EntryRefusal, ReposEntry DEF Inv
-----------------------------------------------------------------------------
(* The author and the command keep the invariant.                           *)

\* Contents only grow, and what was read, compared or parsed stays as it is.
LEMMA InvAuthor == ASSUME Inv, AuthorStep PROVE Inv'
<1>1. Types'
  BY TypesNext DEF Inv, Next
<1>2. Presets \subseteq Dirs
  BY InputsAssumption DEF Dirs
<1>3. UNCHANGED <<git, command, runs>>
  BY DEF AuthorStep, Edit, SaveSpec, HashProfile, Change
<1>4. \A d \in Dirs : tree[d] \in Nat /\ tree'[d] \in Nat /\ tree[d] <= tree'[d]
  <2>1. tree \in [Dirs -> Versions] /\ tree' \in [Dirs -> Versions] /\ Versions \subseteq Nat
    BY <1>1 DEF Inv, Types, TypeOK, Versions
  <2>a. \A d \in Dirs : tree[d] \in Nat /\ tree'[d] \in Nat
    BY <2>1
  <2>2. ASSUME NEW e \in Dirs, Edit(e) PROVE \A d \in Dirs : tree[d] <= tree'[d]
    <3>1. \A d \in Dirs : tree'[d] = IF d = e THEN tree[d] + 1 ELSE tree[d]
      BY <2>1, <2>2 DEF Edit
    <3> QED BY <2>a, <3>1
  <2>3. CASE tree' = tree
    BY <2>a, <2>3
  <2> QED BY <2>a, <2>2, <2>3 DEF AuthorStep, SaveSpec, HashProfile
<1>5. Past'
  <2>1. ASSUME NEW p \in Presets PROVE By(recorded'[p], tree'[p])
    <3>1. recorded[p] \in Nat \cup {None} /\ By(recorded[p], tree[p]) /\ p \in Dirs
      BY <1>2 DEF Inv, Types, TypeOK, Past, Seen, Versions
    <3>2. recorded'[p] = recorded[p] \/ recorded'[p] = tree[p]
      BY DEF AuthorStep, Edit, SaveSpec, HashProfile, Inv, Types, TypeOK
    <3> QED BY <1>4, <3>1, <3>2, InputsAssumption DEF By
  <2>2. ASSUME NEW d \in Dirs PROVE By(cache'[d], tree'[d]) /\ By(manifest'[d], tree'[d])
    <3>1. /\ cache[d] \in Nat \cup {None} /\ By(cache[d], tree[d])
          /\ manifest[d] \in Nat \cup {None} /\ By(manifest[d], tree[d])
      BY DEF Inv, Types, TypeOK, Past, Seen, Versions
    <3> QED BY <1>3, <1>4, <3>1 DEF By, runs, command
  <2>3. ASSUME NEW i \in Entries, NEW k \in Kinds \ {"code"}
        PROVE  By(read'[i][k], tree'[Source(i, k)])
    <3>1. read[i][k] \in Nat \cup {None} /\ By(read[i][k], tree[Source(i, k)])
      BY DEF Inv, Types, TypeOK, Past, Seen, Versions
    <3> QED BY <1>3, <1>4, <3>1, Sources DEF By, runs
  <2> QED BY <2>1, <2>2, <2>3 DEF Past
<1>6. Vouched'
  <2> SUFFICES ASSUME valid, NEW d \in Checked, Passed(d)
      PROVE /\ <<d, checked[d].content>> \notin Refused
            /\ Compared(d) =>
                   /\ Witness(d) \in Nat /\ Witness(d) <= tree'[d]
                   /\ loaded[d] # TBD => SameHash(d, Witness(d), loaded[d])
    BY <1>3 DEF Vouched, Passed, Compared, Witness, SameHash, command
  <2>1. /\ <<d, checked[d].content>> \notin Refused
        /\ Compared(d) =>
               /\ Witness(d) \in Nat /\ Witness(d) <= tree[d]
               /\ loaded[d] # TBD => SameHash(d, Witness(d), loaded[d])
    BY DEF Inv, Vouched
  <2>2. d \in Dirs
    BY CheckOrderLists
  <2> QED BY <1>4, <2>1, <2>2
<1>7. AllPassed' /\ Floor' /\ Order' /\ Shared' /\ Repos' /\ RefusalHasACause'
  BY <1>3 DEF Inv, AllPassed, Passed, Listed, Running, Floor, Compared, Witness, Order, Shared,
     Repos, RepoRace, RefusalHasACause, command, runs, git
<1> QED BY <1>1, <1>5, <1>6, <1>7 DEF Inv

\* A new experiment has read nothing, and has every checked directory before it.
LEMMA InvLoad == ASSUME Inv, LoadSpec PROVE Inv'
<1>1. Types'
  BY TypesNext DEF Inv, Next, CommandStep
<1>2. /\ UNCHANGED <<author, git>>
      /\ alreadyRepo' = [i \in Entries |-> "unasked"]
      /\ phase' = "validate" /\ todo' = CheckOrder
      /\ stage' = [i \in Entries |-> "waiting"]
      /\ cache' = Unread /\ manifest' = Unread
      /\ read' = [i \in Entries |-> [k \in Kinds |-> None]]
      /\ checked' = [d \in Dirs |-> [content |-> None, hash |-> None]]
  BY DEF LoadSpec
<1>3. /\ \A d \in Dirs : cache'[d] = None
      /\ \A i \in Entries, k \in Kinds : read'[i][k] = None
      /\ \A d \in Checked : ~ Passed(d)'
  <2>1. Checked \subseteq Dirs
    BY CheckOrderLists
  <2> QED BY <1>2, <2>1 DEF Unread, Passed
<1>4. Past' /\ Floor' /\ Order' /\ Shared' /\ Repos'
  <2>1. \A p \in Presets : By(recorded'[p], tree'[p])
    BY <1>2 DEF Inv, Past, author
  <2>2. {"definition", "meta", "code"} \subseteq Kinds
    BY DEF Kinds, FromProfile, FromScenario
  <2>3. \A d \in Dirs : manifest'[d] = None
    BY <1>2 DEF Unread
  <2>4. Repos'
    BY <1>2, <1>3, <2>2 DEF Inv, Repos, git, Making
  <2> QED BY <1>2, <1>3, <2>1, <2>2, <2>3, <2>4 DEF Past, By, Floor, Order, Shared
<1>5. AllPassed'
  BY <1>2, CheckOrderLists DEF AllPassed, Listed, Running
<1>6. Vouched' /\ RefusalHasACause'
  BY <1>2, <1>3 DEF Vouched, RefusalHasACause
<1> QED BY <1>1, <1>4, <1>5, <1>6 DEF Inv

\* What the validator compares is not newer than the present content: a hash
\* it computes is that content, and a recorded one was made of an older one.
LEMMA InvValidate == ASSUME Inv, Validate PROVE Inv'
<1>1. Types'
  BY TypesNext DEF Inv, Next, CommandStep
<1>0. Head(todo) \in Dirs
  BY DEF Validate, Inv, Types, TypeOK
<1>D. PICK D \in Dirs : D = Head(todo)
  BY <1>0
<1>2. /\ phase = "validate" /\ phase' = "validate" /\ todo \in Seq(Dirs) /\ todo # <<>>
      /\ todo' = Tail(todo) /\ D \in Dirs
      /\ UNCHANGED <<author, git, runs, loaded, manifest>>
      /\ valid' = (valid /\ Accepts(D))
  BY <1>D DEF Validate, Inv, Types, TypeOK
<1>3. /\ checked'[D].content = tree[D]
      /\ checked'[D].hash = (IF D \in Presets THEN recorded[D] ELSE None)
      /\ \A d \in Dirs \ {D} : checked'[d] = checked[d]
  BY <1>2, <1>D DEF Validate, Inv, Types, TypeOK
<1>4. \A d \in Checked : d \in Dirs
  <2>1. Checked \subseteq Dirs
    BY InputsAssumption DEF Checked, Dirs, Scenarios, Profiles
  <2> QED BY <2>1
<1>5. tree[D] \in Nat /\ tree[D] # None
  BY <1>2, InputsAssumption DEF Inv, Types, TypeOK, Versions
<1>6. AllPassed'
  <2>1. ASSUME NEW d \in Checked PROVE Passed(d)' \/ Listed(d)'
    <3>1. CASE d = D
      BY <3>1, <1>3, <1>5 DEF Passed
    <3>2. CASE d # D /\ Passed(d)
      BY <3>2, <1>3, <1>4 DEF Passed
    <3>3. CASE d # D /\ ~ Passed(d)
      <4>1. PICK k \in 1..Len(todo) : todo[k] = d
        BY <3>3, <1>2 DEF Inv, AllPassed, Listed
      <4>2. k - 1 \in 1..Len(Tail(todo)) /\ Tail(todo)[k - 1] = todo[k]
        BY <4>1, <3>3, <1>2, <1>D
      <4> QED BY <4>1, <4>2, <1>2 DEF Listed
    <3> QED BY <3>1, <3>2, <3>3
  <2> QED BY <1>2, <2>1 DEF AllPassed, Running
<1>7. Vouched'
  <2> SUFFICES ASSUME valid, Accepts(D), NEW d \in Checked, Passed(d)'
      PROVE /\ <<d, checked'[d].content>> \notin Refused
            /\ Compared(d)' =>
                   /\ Witness(d)' \in Nat /\ Witness(d)' <= tree[d]
                   /\ loaded[d] # TBD => SameHash(d, Witness(d)', loaded[d])
    BY <1>2 DEF Vouched, SameHash, author
  <2>1. CASE d # D
    BY <2>1, <1>3, <1>4 DEF Inv, Vouched, Passed, Compared, Witness
  <2>2. CASE d = D
    <3>1. <<D, tree[D]>> \notin Refused
      BY DEF Accepts
    <3>2. ASSUME Compared(D)'
          PROVE  /\ Witness(D)' \in Nat /\ Witness(D)' <= tree[D]
                 /\ loaded[D] # TBD => SameHash(D, Witness(D)', loaded[D])
      <4>1. CASE D \in Presets
        <5>1. recorded[D] # None /\ Witness(D)' = recorded[D]
          BY <4>1, <3>2, <1>3 DEF Compared, Witness
        <5>2. recorded[D] \in Nat /\ recorded[D] <= tree[D]
          BY <4>1, <5>1 DEF Inv, Past, By, Types, TypeOK, Seen, Versions
        <5>3. loaded[D] # TBD => SameHash(D, recorded[D], loaded[D])
          BY <4>1, <5>1 DEF Accepts, HashAgrees
        <5> QED BY <5>1, <5>2, <5>3
      <4>2. CASE D \notin Presets
        <5>1. Witness(D)' = tree[D] /\ <<D, tree[D]>> \notin Unhashable
          BY <4>2, <3>2, <1>3 DEF Compared, Witness
        <5>2. loaded[D] # TBD => SameHash(D, tree[D], loaded[D])
          BY <4>2, <5>1 DEF Accepts, HashAgrees
        <5> QED BY <5>1, <5>2, <1>5
      <4> QED BY <4>1, <4>2
    <3> QED BY <2>2, <3>1, <3>2, <1>3
  <2> QED BY <2>1, <2>2
<1>8. /\ \A d \in Dirs : cache[d] = None
      /\ \A i \in Entries, k \in Kinds : read[i][k] = None
      /\ \A i \in Entries : stage[i] # "refused"
  BY <1>2 DEF Inv, Order, Unread, RefusalHasACause, Kinds, FromProfile, FromScenario
<1>9. Past' /\ Order' /\ Shared' /\ Repos'
  BY <1>2 DEF Inv, Past, Order, Shared, Repos, RepoRace, author, runs, git
<1>10. Floor' /\ RefusalHasACause'
  BY <1>2, <1>8 DEF Floor, RefusalHasACause, runs
<1> QED BY <1>1, <1>6, <1>7, <1>9, <1>10 DEF Inv

LEMMA InvCommand == ASSUME Inv, CommandStep PROVE Inv'
<1>1. Types'
  BY TypesNext DEF Inv, Next
<1>2. CASE Refuse \/ InitBundle \/ CloseLoop \/ HashFails \/ WriteManifest
  <2>1. /\ UNCHANGED <<author, git, runs, valid, loaded, manifest, checked>>
        /\ phase' \in {"rejected", "loop", "close", "failed", "finished"}
        /\ phase' # "rejected" => Running
        /\ phase' = "loop" => phase = "open"
    BY <1>2 DEF Refuse, InitBundle, CloseLoop, HashFails, WriteManifest, Running
  <2> QED BY <1>1, <2>1 DEF Inv, Past, AllPassed, Passed, Running, Vouched, Floor, Compared,
             Witness, SameHash, Order, Shared, Repos, RepoRace, RefusalHasACause, author, runs, git
<1>3. CASE Accept
  <2>1. /\ UNCHANGED <<author, git, runs, valid, loaded, manifest, checked>>
        /\ phase = "validate" /\ phase' = "open" /\ valid /\ todo = <<>>
    BY <1>3 DEF Accept
  <2>2. \A d \in Checked : Passed(d)
    BY <2>1 DEF Inv, AllPassed, Listed
  <2>3. AllPassed'
    BY <2>1, <2>2 DEF AllPassed, Passed
  <2> QED BY <1>1, <2>1, <2>3 DEF Inv, Past, Passed, Vouched, Floor, Compared,
             Witness, SameHash, Order, Shared, Repos, RepoRace, RefusalHasACause, author, runs, git
<1>4. CASE HashNext
  <2>1. /\ UNCHANGED <<author, git, runs, valid, loaded, checked, phase>>
        /\ phase = "close" /\ Head(todo) \in Dirs
        /\ manifest' = [manifest EXCEPT ![Head(todo)] = tree[Head(todo)]]
    BY <1>4 DEF HashNext, LiveHash, Inv, Types, TypeOK
  <2>2. \A d \in Dirs : manifest'[d] \in {manifest[d], tree[d]}
    BY <2>1 DEF Inv, Types, TypeOK
  <2>3. ASSUME NEW i \in Entries, NEW k \in Kinds \ {"code"},
               manifest'[Source(i, k)] # None
        PROVE  By(read'[i][k], manifest'[Source(i, k)])
    <3>1. By(read[i][k], tree[Source(i, k)])
      BY DEF Inv, Past
    <3>2. manifest[Source(i, k)] # None => By(read[i][k], manifest[Source(i, k)])
      BY DEF Inv, Order
    <3> QED BY <2>1, <2>2, <2>3, <3>1, <3>2, Sources DEF By, runs
  <2>4. Order'
    BY <2>1, <2>3 DEF Order
  <2>5. \A d \in Dirs : By(manifest'[d], tree[d])
    <3>1. \A d \in Dirs : tree[d] \in Int /\ By(manifest[d], tree[d])
      BY DEF Inv, Past, Types, TypeOK, Versions
    <3>2. \A d \in Dirs : tree[d] <= tree[d]
      BY <3>1
    <3> QED BY <2>2, <3>1, <3>2 DEF By
  <2>6. Past'
    BY <2>1, <2>5 DEF Inv, Past, author, runs
  <2> QED BY <1>1, <2>1, <2>4, <2>6 DEF Inv, AllPassed, Passed, Running, Vouched, Floor,
             Compared, Witness, SameHash, Shared, Repos, RepoRace, RefusalHasACause, author, runs,
             git
<1> QED BY <1>2, <1>3, <1>4, InvLoad, InvValidate DEF CommandStep

LEMMA InvInit == Init => Inv
<1> SUFFICES ASSUME Init PROVE Inv
  OBVIOUS
<1>1. Types
  BY TypesInit
<1>2. /\ \A d \in Dirs : cache[d] = None /\ tree[d] = 0 /\ checked[d].content = None
      /\ \A i \in Entries, k \in Kinds : read[i][k] = None
      /\ \A i \in Entries : stage[i] # "refused"
      /\ phase = "idle" /\ manifest = Unread /\ cache = Unread
  BY DEF Init, Unread
<1>m. \A d \in Dirs : manifest[d] = None
  BY <1>2 DEF Unread
<1>3. \A p \in Presets : p \in Dirs /\ recorded[p] \in {None, 0}
  BY InputsAssumption DEF Init, Dirs
<1>4. Past
  <2>1. \A p \in Presets : By(recorded[p], tree[p])
    BY <1>2, <1>3 DEF By
  <2> QED BY <1>2, <1>m, <2>1 DEF Past, By
<1>5. AllPassed /\ Floor /\ Order
  BY <1>2 DEF AllPassed, Running, Floor, Order, By
<1>6. Vouched
  <2>1. Checked \subseteq Dirs
    BY InputsAssumption DEF Checked, Dirs, Scenarios, Profiles
  <2> QED BY <1>2, <2>1 DEF Vouched, Passed
<1>7. Shared /\ RefusalHasACause
  BY <1>2 DEF Shared, RefusalHasACause, Kinds, FromProfile, FromScenario
<1>8. Repos
  BY <1>2 DEF Init, Repos, Making, Kinds, FromScenario
<1> QED BY <1>1, <1>4, <1>5, <1>6, <1>7, <1>8 DEF Inv

LEMMA InvStutter == ASSUME Inv, UNCHANGED vars PROVE Inv'
<1>1. Types'
  BY TypesNext DEF Inv
<1> QED BY <1>1 DEF Inv, Past, AllPassed, Passed, Listed, Running, Vouched, Floor, Compared,
           Witness, SameHash, Order, Shared, Repos, RepoRace, RefusalHasACause, vars, author, git,
           command, runs

LEMMA Invariance == Spec => []Inv
<1>1. Inv /\ [Next]_vars => Inv'
  BY InvAuthor, InvCommand, InvEntry, InvStutter DEF Next
<1> QED BY InvInit, <1>1, PTL DEF Spec

-----------------------------------------------------------------------------
(* What follows from it.                                                    *)

\* In a finished experiment whose bundle pins a hash that was compared, and
\* whose manifest shows it, whatever a run read, its code apart, has that hash,
\* or lies between two contents that have it.
THEOREM PinnedTrusted == Spec => []PinnedMeansPinned
<1>1. Inv => PinnedMeansPinned
  <2> SUFFICES ASSUME Inv, phase = "finished", NEW i \in Entries, NEW k \in Kinds \ {"code"},
                      Compared(Source(i, k)), loaded[Source(i, k)] # TBD, read[i][k] # None,
                      SameHash(Source(i, k), manifest[Source(i, k)], loaded[Source(i, k)])
               PROVE  \/ SameHash(Source(i, k), read[i][k], loaded[Source(i, k)])
                      \/ TakenBack(Source(i, k), read[i][k], loaded[Source(i, k)])
    BY DEF PinnedMeansPinned
  <2>0. PICK D \in Dirs : D = Source(i, k)
    BY Sources
  <2>1. PICK w \in Nat : w = Witness(D) /\ w <= tree[D] /\ SameHash(D, w, loaded[D])
    <3>1. D \in Checked /\ Passed(D) /\ valid
      BY <2>0 DEF Compared, Inv, AllPassed, Running
    <3> QED BY <2>0, <3>1 DEF Inv, Vouched
  <2>2. PICK v \in Nat : v = read[i][k]
    BY DEF Inv, Types, TypeOK, Seen, Versions
  <2>3. w <= v
    BY <2>0, <2>1, <2>2 DEF Inv, Floor
  <2>4. CASE w = v
    BY <2>0, <2>1, <2>2, <2>4
  <2>5. CASE w # v /\ manifest[D] = v
    BY <2>0, <2>2, <2>5
  <2>6. CASE w # v /\ manifest[D] # v
    <3>1. manifest[D] \in Nat /\ manifest[D] # None /\ tree[D] \in Nat
      <4>1. manifest[D] \in Seen /\ loaded[D] \in Declared /\ tree[D] \in Nat
        BY <2>0 DEF Inv, Types, TypeOK, Versions
      <4>2. loaded[D] \in Nat /\ loaded[D] # None
        BY <2>0, <4>1, InputsAssumption DEF Declared, Versions
      <4>3. manifest[D] # None
        BY <2>0, <4>2, InputsAssumption DEF SameHash, Versions
      <4> QED BY <4>1, <4>3, InputsAssumption DEF Seen, Versions
    <3>2. v <= manifest[D] /\ manifest[D] <= tree[D]
      BY <2>0, <2>2, <3>1 DEF Inv, Order, Past, By
    <3>3. w < v /\ v < manifest[D] /\ w \in 0..tree[D] /\ manifest[D] \in 0..tree[D]
      BY <2>1, <2>2, <2>3, <2>6, <3>1, <3>2
    <3>4. TakenBack(D, v, loaded[D])
      BY <2>0, <2>1, <3>3 DEF TakenBack
    <3> QED BY <2>0, <2>2, <3>4
  <2> QED BY <2>4, <2>5, <2>6
<1> QED BY <1>1, Invariance, PTL

\* Cells of one profile, or of one scenario, share its definition, and those of
\* one scenario its code as well, unless two runs made its repository at once.
THEOREM ComparableCells == Spec => []CellsComparable
<1>1. Inv => CellsComparable
  <2> SUFFICES ASSUME Inv, NEW i \in Entries, NEW j \in Entries,
                      NEW k \in {"definition", "meta", "code"},
                      Source(i, k) = Source(j, k), read[i][k] # None, read[j][k] # None
               PROVE  read[i][k] = read[j][k] \/ (k = "code" /\ RepoRace(ScenarioOf(i)))
    BY DEF CellsComparable
  <2>1. CASE k \in {"definition", "meta"}
    BY <2>1 DEF Inv, Shared
  <2>2. CASE k = "code" /\ ~ RepoRace(ScenarioOf(i))
    <3>1. ScenarioOf(i) = ScenarioOf(j)
      BY <2>2 DEF Source, FromProfile
    <3> QED BY <2>2, <3>1 DEF Inv, Repos
  <2> QED BY <2>1, <2>2
<1> QED BY <1>1, Invariance, PTL

\* The validator and the loaders agree on what they both read: an entry is
\* refused only for one of the three listed causes.
THEOREM RefusalsExplained == Spec => []RefusalHasACause
BY Invariance, PTL DEF Inv
=============================================================================
