------------------------- MODULE GitSubmoduleExtra -------------------------
(***************************************************************************)
(* common/scripts/git-submodule-extra.mjs init, which every Maven build    *)
(* runs first: it writes .gitmodules from the settings, adds what the      *)
(* index lacks, checks out what is not initialized and corrects the urls.  *)
(* Its git commands run at the same time, in processes of their own; the   *)
(* first that fails ends init(), the others go on, and the script's exit   *)
(* code is 0 all the same.                                                 *)
(***************************************************************************)
EXTENDS Git, Sequences

CONSTANTS
  DefaultFiles,   \* what settings.default.json may hold: a list of submodules,
  OverrideFiles,  \* None (no file) or Bad (no JSON); and settings.override.json
  Bad,
  Root,           \* directory of the repository
  MaxRetries,     \* rounds in which the system has too many open files
  MaxFaults,      \* bound on failed clones and reads
  MaxEdits        \* bound on what the developer changes

Lists == (DefaultFiles \cup OverrideFiles) \ {None, Bad}

ASSUME SettingsAssumption ==
  /\ Root \notin Paths /\ Bad # None
  /\ MaxRetries \in Nat \ {0} /\ MaxFaults \in Nat /\ MaxEdits \in Nat
  /\ Lists \subseteq Seq([path : Paths, url : Urls])

VARIABLES
  ignored,        \* whether .gitignore lists .gitmodules
  files,          \* the two settings files
  pc,             \* where init() is
  stage,          \* which of the three calls of getSubmoduleStatuses()
  retries,        \* graceful-fs: how often the queued read was tried
  gitSubmodules,  \* the settings, None: undefined
  moduleStatuses, \* status and url of every submodule in the index
  snapshot,       \* zx: directory every "git remote -v" was bound to
  cwd,            \* directory of the process
  newSubmodules,  \* what addMissingSubmodules() found
  outcome,        \* of the last run: "none", "running", "done", "failed"
  faults, edits

answers == <<moduleStatuses, snapshot>>
settings == <<files, gitSubmodules, retries>>
vars == <<repository, cmd, ignored, settings, pc, stage, answers, cwd, newSubmodules,
          outcome, faults, edits>>

\* lodash merges lists by position and what is at one position key by key.
mergeEntries(entry, override) ==
  [key \in DOMAIN entry \cup DOMAIN override |->
     IF key \in DOMAIN override THEN override[key] ELSE entry[key]]
merge(list, override) ==
  IF override = None THEN list ELSE IF list = None THEN override
  ELSE [i \in DOMAIN list \cup DOMAIN override |->
          IF i \notin DOMAIN override THEN list[i] ELSE IF i \notin DOMAIN list THEN override[i]
          ELSE mergeEntries(list[i], override[i])]

\* No submodule is listed twice, whichever of the files can be read (the code
\* does not look whether one is).
ASSUME PathsAssumption ==
  \A list \in (DefaultFiles \cup {None}) \ {Bad}, override \in (OverrideFiles \cup {None}) \ {Bad} :
    LET merged == merge(list, override) IN
    merged # None => \A i, j \in DOMAIN merged : merged[i].path = merged[j].path => i = j

Fault == faults < MaxFaults /\ faults' = faults + 1
Fails == pc' = "ended" /\ outcome' = "failed"

Empty == [p \in {} |-> None]

\* A fresh clone, with some of the submodules in the index.
Init ==
  /\ pinned \in {f \in [Paths -> Commits \cup {None}] :
                   \A p, q \in Paths : f[p] # None /\ f[q] # None => f[p] = f[q]}
  /\ gitmodules = [p \in Paths |-> None] /\ config = gitmodules /\ work = gitmodules
  /\ staged = FALSE /\ missing = {p \in Paths : pinned[p] = None}
  /\ cmd = [p \in Paths |-> NoCommand]
  /\ ignored \in BOOLEAN /\ files \in [default : DefaultFiles, override : OverrideFiles]
  /\ pc = "idle" /\ stage = 1 /\ retries = 0 /\ gitSubmodules = None
  /\ moduleStatuses = Empty /\ snapshot = Empty /\ cwd = Root /\ newSubmodules = {}
  /\ outcome = "none" /\ faults = 0 /\ edits = 0

-----------------------------------------------------------------------------
(* Settings                                                                 *)

Starts ==
  /\ pc = "idle" /\ pc' = "default" /\ outcome' = "running"
  /\ gitSubmodules' = None /\ newSubmodules' = {} /\ stage' = 1 /\ cwd' = Root
  /\ UNCHANGED <<repository, cmd, ignored, files, retries, answers, faults, edits>>

\* graceful-fs queues what finds too many open files, and tries it again until
\* its time is up.
Enqueue ==
  /\ pc \in {"default", "override", "write"} /\ retries = 0 /\ Fault /\ retries' = 1
  /\ UNCHANGED <<repository, cmd, ignored, files, gitSubmodules, pc, stage, answers, cwd,
                 newSubmodules, outcome, edits>>
Retry ==
  /\ retries \in 1..(MaxRetries - 1) /\ retries' = retries + 1
  /\ UNCHANGED <<repository, cmd, ignored, files, gitSubmodules, pc, stage, answers, cwd,
                 newSubmodules, outcome, faults, edits>>
Read == {files[pc]} \cup (IF retries = MaxRetries THEN {None} ELSE {})

\* What cannot be read counts as {}; what is no JSON throws.
getRepoFile ==
  /\ pc \in DOMAIN files /\ retries' = 0
  /\ \E content \in Read :
       \/ content = Bad /\ Fails /\ UNCHANGED gitSubmodules
       \/ /\ content # Bad /\ gitSubmodules' = merge(gitSubmodules, content)
          /\ pc' = IF pc = "default" THEN "override" ELSE "write"
          /\ UNCHANGED outcome
  /\ UNCHANGED <<repository, cmd, ignored, files, stage, answers, cwd, newSubmodules, faults,
                 edits>>

Entries == {gitSubmodules[i] : i \in DOMAIN gitSubmodules}
Configured == {e.path : e \in Entries}
UrlFor(p) == (CHOOSE e \in Entries : e.path = p).url

createSubmoduleFile ==
  /\ pc = "write" /\ retries' = 0
  /\ \/ (gitSubmodules = None \/ retries = MaxRetries) /\ Fails /\ UNCHANGED gitmodules
     \/ /\ gitSubmodules # None /\ pc' = "status" /\ UNCHANGED outcome
        /\ gitmodules' = [p \in Paths |-> IF p \in Configured THEN UrlFor(p) ELSE None]
  /\ UNCHANGED <<pinned, staged, config, work, missing, cmd, ignored, files, gitSubmodules,
                 stage, answers, cwd, newSubmodules, faults, edits>>

-----------------------------------------------------------------------------
(* getSubmoduleStatuses(): one command, then one for every submodule, each   *)
(* in the submodule's directory.                                            *)

getSubmoduleStatus ==
  /\ pc = "status"
  /\ \/ NoMapping /\ Fails /\ UNCHANGED answers
     \/ /\ ~NoMapping /\ pc' = "remotes" /\ UNCHANGED outcome
        /\ moduleStatuses' = [p \in InIndex |-> [status |-> StatusOf(p), url |-> None]]
        /\ snapshot' = [p \in InIndex |-> None]
  /\ UNCHANGED <<repository, cmd, ignored, settings, stage, cwd, newSubmodules, faults, edits>>

doNotSyncCwd(dir) == cwd   \* mutated: the directory stays where cd() left it

\* zx: whenever an asynchronous call starts or goes on, the process goes to the
\* directory of the call's context.
syncCwd(dir) == dir
ChdirWorks(from, p) == from = Root /\ p \notin missing

\* getRemote() up to its await, for one submodule after the other.
getRemote(p) ==
  /\ pc = "remotes" /\ snapshot[p] = None
  /\ \/ /\ ChdirWorks(syncCwd(Root), p) /\ cwd' = p
        /\ snapshot' = [snapshot EXCEPT ![p] = p] /\ UNCHANGED <<pc, outcome>>
     \/ ~ChdirWorks(syncCwd(Root), p) /\ Fails /\ UNCHANGED <<snapshot, cwd>>
  /\ UNCHANGED <<repository, cmd, ignored, settings, stage, moduleStatuses, newSubmodules,
                 faults, edits>>

runInCwd(p) == cwd   \* mutated: it runs where the process is by then

\* The command runs in the directory it was bound to.
run(p) == snapshot[p]

RemoteAnswers(p) ==
  /\ pc = "remotes" /\ \A q \in DOMAIN snapshot : snapshot[q] # None
  /\ moduleStatuses[p].url = None
  /\ moduleStatuses' = [moduleStatuses EXCEPT ![p].url = RemoteIn(run(p))]
  /\ UNCHANGED <<repository, cmd, ignored, settings, pc, stage, snapshot, cwd, newSubmodules,
                 outcome, faults, edits>>

Answered == pc = "remotes" /\ \A p \in DOMAIN moduleStatuses : moduleStatuses[p].url # None

-----------------------------------------------------------------------------
(* The three passes                                                         *)

addMissingSubmodules ==
  /\ Answered /\ stage = 1 /\ pc' = "add"
  /\ newSubmodules' = Configured \ DOMAIN moduleStatuses
  /\ cmd' = [p \in Paths |-> IF p \in newSubmodules' THEN Command("clone", UrlFor(p))
                             ELSE NoCommand]

InitializeCommand(p) == Command(IF config[p] \in Urls THEN "checkout" ELSE "register", None)

initializeAllSubmodules ==   \* mutated: the status is not looked at
  /\ Answered /\ stage = 2 /\ pc' = "initialize"
  /\ cmd' = [p \in Paths |-> IF p \in DOMAIN moduleStatuses THEN InitializeCommand(p)
                             ELSE NoCommand]
  /\ UNCHANGED newSubmodules

initializeSubmodules ==
  /\ Answered /\ stage = 2 /\ pc' = "initialize"
  /\ cmd' = [p \in Paths |->
       IF p \in DOMAIN moduleStatuses /\ moduleStatuses[p].status = "uninitialized"
       THEN InitializeCommand(p) ELSE NoCommand]
  /\ UNCHANGED newSubmodules

updateRemotes ==
  /\ Answered /\ stage = 3 /\ pc' = "update"
  /\ cmd' = [p \in Paths |->
       IF p \in Configured \cap DOMAIN moduleStatuses /\ moduleStatuses[p].url # UrlFor(p)
       THEN Command("remap", UrlFor(p)) ELSE NoCommand]
  /\ UNCHANGED newSubmodules

Passes ==
  /\ addMissingSubmodules \/ initializeSubmodules \/ updateRemotes
  /\ cwd' = syncCwd(Root)
  /\ UNCHANGED <<repository, ignored, settings, stage, answers, outcome, faults, edits>>

AwaitNext ==
  \/ pc = "add" /\ pc' = "unstage" /\ UNCHANGED <<stage, outcome>>
  \/ pc = "initialize" /\ pc' = "status" /\ stage' = 3 /\ UNCHANGED outcome
  \/ pc = "update" /\ pc' = "ended" /\ outcome' = "done" /\ UNCHANGED stage

AwaitsAllSettled ==   \* mutated: what failed counts as done
  /\ \A p \in Paths : ~running(p)
  /\ AwaitNext
  /\ UNCHANGED <<repository, cmd, ignored, settings, answers, cwd, newSubmodules, faults, edits>>

\* Promise.all: everything is done, or something has failed.
AwaitsAll ==
  /\ \/ (\A p \in Paths : cmd[p].step \in {"none", "done"}) /\ AwaitNext
     \/ /\ pc \in {"add", "initialize", "update"} /\ \E p \in Paths : cmd[p].step = "failed"
        /\ Fails /\ UNCHANGED stage
  /\ UNCHANGED <<repository, cmd, ignored, settings, answers, cwd, newSubmodules, faults, edits>>

Unstaged(next) ==
  /\ pc = "unstage" /\ next
  /\ UNCHANGED <<pinned, gitmodules, config, work, missing, cmd, ignored, settings, answers, cwd,
                 newSubmodules, faults, edits>>
GoesOn == pc' = "status" /\ stage' = 2 /\ UNCHANGED outcome

unstageAddedOnly ==   \* mutated: only what is staged is restored
  Unstaged(staged' = FALSE /\ GoesOn)
unstageNothing ==     \* mutated: .gitmodules is looked for without being restored
  Unstaged(UNCHANGED staged /\ GoesOn)

\* "git status" shows .gitmodules when it is staged or not ignored; "git restore"
\* fails when git does not know the file.
unstageGitModulesFile ==
  Unstaged(\/ ~staged /\ ~ignored /\ Fails /\ UNCHANGED <<staged, stage>>
           \/ (staged \/ ignored) /\ staged' = FALSE /\ GoesOn)

\* The process ends when its children have.
Exits ==
  /\ pc = "ended" /\ \A p \in Paths : ~running(p)
  /\ pc' = "idle" /\ cmd' = [p \in Paths |-> NoCommand]
  /\ UNCHANGED <<repository, ignored, settings, stage, answers, cwd, newSubmodules, outcome,
                 faults, edits>>

CommandRuns(p) ==
  /\ (GitStep(p) /\ UNCHANGED faults) \/ (CannotClone(p) /\ Fault)
  /\ UNCHANGED <<ignored, settings, pc, stage, answers, cwd, newSubmodules, outcome, edits>>

-----------------------------------------------------------------------------
(* The developer checks out another commit at any time, also while a build   *)
(* runs; between two runs a directory is emptied or removed, the settings    *)
(* change.                                                                  *)

Develops ==
  /\ edits < MaxEdits /\ edits' = edits + 1
  /\ \/ \E p \in Paths, c \in Commits :
          /\ work[p] # None /\ work[p].commit # c
          /\ work' = [work EXCEPT ![p].commit = c] /\ UNCHANGED <<missing, files>>
     \/ \E p \in InIndex : /\ pc = "idle" /\ work[p] # None /\ work' = [work EXCEPT ![p] = None]
                           /\ missing' \in {missing, missing \cup {p}} /\ UNCHANGED files
     \/ /\ pc = "idle"
        /\ \E f \in DefaultFiles, g \in OverrideFiles :
             files' = [default |-> f, override |-> g] /\ files' # files
        /\ UNCHANGED <<work, missing>>
  /\ UNCHANGED <<pinned, gitmodules, staged, config, cmd, ignored, gitSubmodules, retries, pc,
                 stage, answers, cwd, newSubmodules, outcome, faults>>

Script ==
  \/ getRepoFile \/ Enqueue \/ Retry \/ createSubmoduleFile
  \/ getSubmoduleStatus \/ Passes \/ AwaitsAll \/ unstageGitModulesFile \/ Exits
  \/ \E p \in DOMAIN snapshot : getRemote(p) \/ RemoteAnswers(p)

Next == Starts \/ Script \/ (\E p \in Paths : CommandRuns(p)) \/ Develops
Spec == Init /\ [][Next]_vars

\* Builds are repeated, the script and git's processes run on.
FairSpec ==
  /\ Spec /\ WF_vars(Starts) /\ WF_vars(Script)
  /\ \A p \in Paths : WF_vars(CommandRuns(p))

-----------------------------------------------------------------------------
(* Properties                                                               *)

\* Types; commands only run between their start and the end of the process.
TypeOK ==
  /\ GitTypeOK
  /\ ignored \in BOOLEAN /\ files \in [default : DefaultFiles, override : OverrideFiles]
  /\ pc \in {"idle", "default", "override", "write", "status", "remotes", "add", "unstage",
             "initialize", "update", "ended"}
  /\ stage \in 1..3 /\ retries \in 0..MaxRetries
  /\ gitSubmodules \in Seq([path : Paths, url : Urls]) \cup {None}
  /\ DOMAIN moduleStatuses \subseteq Paths /\ DOMAIN snapshot = DOMAIN moduleStatuses
  /\ \A p \in DOMAIN snapshot : snapshot[p] \in Paths \cup {None}
  /\ cwd \in Paths \cup {Root} /\ newSubmodules \subseteq Paths
  /\ outcome \in {"none", "running", "done", "failed"}
  /\ faults \in 0..MaxFaults /\ edits \in 0..MaxEdits
  /\ (\E p \in Paths : running(p)) => pc \in {"add", "initialize", "update", "ended"}

\* The url noted for a submodule is the origin of that submodule, although all
\* submodules are asked at the same time by one process with one directory.
RemoteIsOwn ==
  pc = "remotes" => \A p \in DOMAIN moduleStatuses :
    moduleStatuses[p].url \in {None, RemoteIn(p)}

\* When init() ends well, every submodule of the settings is in the index,
\* active and checked out, from the url of the settings.
DoneIsReady ==
  pc = "ended" /\ outcome = "done" =>
    \A e \in Entries : /\ e.path \in InIndex /\ config[e.path] # None
                       /\ work[e.path] # None /\ work[e.path].url = e.url

\* ... and .gitmodules is not left in the index, to be committed by accident.
DoneIsUnstaged == pc = "ended" /\ outcome = "done" => ~staged

\* No step but the developer's moves the commit of a submodule that git reported
\* as checked out, however long ago init() read that report and whatever commit
\* the developer went to since.  The code passes over the others: a checkout
\* that git reports as uninitialized, because the commands that added it found
\* .git/config locked, goes to the commit in the index.
KeepsCheckouts ==
  [][pc # "idle" /\ edits' = edits => \A p \in DOMAIN moduleStatuses :
       moduleStatuses[p].status # "uninitialized" /\ work[p] # None =>
         work'[p] # None /\ work'[p].commit = work[p].commit]_vars

\* README.md:18, ".gitmodules ... must be listed in .gitignore, otherwise the
\* initialization fails": so it does in a clone whose index has every submodule.
\* A run that adds one stages .gitmodules, finds it and ends well.
UnignoredFails == (~ignored /\ InIndex = Paths) => [](outcome # "done")

\* Repeated builds make the settings' submodules ready, whatever failed and
\* whichever command found a lock taken, as long as nothing in the index lacks
\* its settings and no directory was removed.
OnDisk == merge(files.default, files.override)
Workable ==
  /\ ignored /\ files.default # Bad /\ files.override # Bad /\ OnDisk # None
  /\ InIndex \subseteq {OnDisk[i].path : i \in DOMAIN OnDisk} /\ missing \cap InIndex = {}
Ready ==
  \A i \in DOMAIN OnDisk : work[OnDisk[i].path] # None /\ work[OnDisk[i].path].url = OnDisk[i].url
BecomesReady == <>[]Workable => <>[](Workable /\ Ready)
=============================================================================
