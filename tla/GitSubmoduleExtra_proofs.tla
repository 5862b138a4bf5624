--------------------- MODULE GitSubmoduleExtra_proofs ---------------------
(***************************************************************************)
(* Proofs about git-submodule-extra.mjs init(): types, the urls it notes,  *)
(* what holds when it ends well, the checkouts it keeps, and the need of   *)
(* .gitignore.                                                             *)
(***************************************************************************)
EXTENDS GitSubmoduleExtra, TLAPS

Adding == {"clone", "setUrl", "addPath", "map", "addMap", "activate"}
Initializing == {"register", "checkout"}
Remapping == {"remap", "sync"}
Going == Adding \cup Initializing \cup Remapping
Entry == [path : Paths, url : Urls]
Setting(p, url) == [path |-> p, url |-> url]
Status == [status : {"uninitialized", "initialized", "checked out"},
           url : Urls \cup {None, SuperUrl}]

Known == IF gitSubmodules = None THEN {} ELSE Entries

GitTypes ==
  /\ pinned \in [Paths -> Commits \cup {None}]
  /\ gitmodules \in [Paths -> Urls \cup {None}] /\ config \in [Paths -> Urls \cup {NoUrl, None}]
  /\ work \in [Paths -> Checkouts \cup {None}]
  /\ missing \subseteq Paths /\ (\A p \in missing : work[p] = None) /\ staged \in BOOLEAN
CmdTypes ==
  cmd \in [Paths -> [step : Going \cup {"none", "done", "failed"},
                    url : Urls \cup {None}, locked : BOOLEAN]]
ScriptTypes ==
  /\ ignored \in BOOLEAN /\ files \in [default : DefaultFiles, override : OverrideFiles]
  /\ pc \in {"idle", "default", "override", "write", "status", "remotes", "add", "unstage",
             "initialize", "update", "ended"}
  /\ stage \in 1..3 /\ retries \in 0..MaxRetries
  /\ gitSubmodules \in Seq(Entry) \cup {None}
  /\ DOMAIN moduleStatuses \subseteq Paths
  /\ moduleStatuses \in [DOMAIN moduleStatuses -> Status]
  /\ snapshot \in [DOMAIN moduleStatuses -> Paths \cup {None}]
  /\ cwd \in Paths \cup {Root} /\ newSubmodules \subseteq Paths
  /\ outcome \in {"none", "running", "done", "failed"}
  /\ faults \in 0..MaxFaults /\ edits \in 0..MaxEdits
TypeInv == GitTypes /\ CmdTypes /\ ScriptTypes

\* A command holds the lock of the file it writes, alone.
LockInv ==
  /\ \A p \in Paths : cmd[p].locked => cmd[p].step \in Going \ {"clone", "checkout"}
  /\ \A p, q \in Paths : cmd[p].locked /\ cmd[q].locked
                         /\ FileOf[cmd[p].step] = FileOf[cmd[q].step] => p = q

\* Which commands run when, and what init() has done by then.
PhaseInv ==
  /\ \A p \in Paths :
       /\ cmd[p].step \in Adding => pc \in {"add", "ended"}
       /\ cmd[p].step \in Initializing => pc \in {"initialize", "ended"}
       /\ cmd[p].step \in Remapping => pc \in {"update", "ended"}
       /\ cmd[p].step \in Going => outcome \in {"running", "failed"}
  /\ pc \notin {"idle", "ended"} => outcome = "running"
  /\ pc = "ended" => outcome \in {"done", "failed"}
  /\ pc \in {"default", "override", "write", "add", "unstage"} => stage = 1
  /\ pc = "initialize" => stage = 2
  /\ pc = "update" => stage = 3

\* A command only starts where its steps make sense.
CmdInv ==
  \A p \in Paths :
    /\ cmd[p].step \in Adding \cup Remapping =>
         Setting(p, cmd[p].url) \in Known
    /\ cmd[p].step \in {"setUrl", "addPath"} => work[p] # None
    /\ cmd[p].step \in Remapping => gitmodules[p] # None
    /\ cmd[p].step = "register" => gitmodules[p] # None
    /\ cmd[p].step = "checkout" => config[p] \in Urls
    /\ cmd[p].step \in Initializing =>
         pinned[p] # None /\ p \in DOMAIN moduleStatuses
         /\ moduleStatuses[p].status = "uninitialized"

Ended == pc = "ended" /\ outcome = "done"

\* .gitmodules says what the settings say, once it is written.
SettingsInv ==
  /\ pc = "default" => gitSubmodules = None
  /\ pc = "override" => gitSubmodules \in (DefaultFiles \cup {None}) \ {Bad}
  /\ pc \notin {"idle", "default", "override", "ended"} =>
       \A e, f \in Known : e.path = f.path => e = f
  /\ (pc \in {"status", "remotes", "add", "unstage", "initialize", "update"} \/ Ended) =>
       gitSubmodules # None /\ \A e \in Known : gitmodules[e.path] = e.url

\* While the remotes are asked for, what is known of the submodules is true.
StatusInv ==
  pc = "remotes" =>
    /\ DOMAIN moduleStatuses = InIndex
    /\ \A p \in DOMAIN moduleStatuses :
         /\ gitmodules[p] # None
         /\ moduleStatuses[p].status = "uninitialized" <=> config[p] = None \/ work[p] = None
         /\ snapshot[p] \in {p, None}
         /\ moduleStatuses[p].url \in {None, IF work[p] = None THEN SuperUrl ELSE work[p].url}

AfterUnstage == (pc \in {"status", "remotes"} /\ stage \in {2, 3}) \/ pc \in {"initialize", "update"} \/ Ended
AfterInitialize == (pc \in {"status", "remotes"} /\ stage = 3) \/ pc = "update" \/ Ended

\* How far every submodule of the settings has come.
ReadyInv ==
  \A e \in Known : LET p == e.path IN
    /\ pc = "add" => pinned[p] # None \/ cmd[p].step \in {"clone", "setUrl", "addPath", "failed"}
    /\ pc = "unstage" \/ AfterUnstage => pinned[p] # None
    /\ pc = "initialize" => (config[p] # None /\ work[p] # None)
                            \/ cmd[p].step \in Initializing \cup {"failed"}
    /\ AfterInitialize => config[p] # None /\ work[p] # None
    /\ pc = "update" => work[p].url = e.url \/ cmd[p].step \in Remapping \cup {"failed"}
    /\ Ended => work[p].url = e.url

UnstagedInv == AfterUnstage => ~staged

IInv == TypeInv /\ LockInv /\ PhaseInv /\ CmdInv /\ SettingsInv /\ StatusInv /\ ReadyInv /\ UnstagedInv
-----------------------------------------------------------------------------
(* Facts about constants and the settings.                                  *)

LEMMA FollowingIs ==
  /\ DOMAIN Following = Going
  /\ Following["clone"] = "setUrl" /\ Following["setUrl"] = "addPath"
  /\ Following["addPath"] = "map" /\ Following["map"] = "addMap" /\ Following["addMap"] = "activate"
  /\ Following["activate"] = "done"
  /\ Following["register"] = "checkout" /\ Following["checkout"] = "done"
  /\ Following["remap"] = "sync" /\ Following["sync"] = "done"
BY DEF Following, Going, Adding, Initializing, Remapping

LEMMA FileOfIs == DOMAIN FileOf = Going \ {"clone", "checkout"}
BY DEF FileOf, Going, Adding, Initializing, Remapping

\* Of two entries with all keys, the override's is left.
LEMMA MergedEntry ==
  ASSUME NEW e \in Entry, NEW f \in Entry
  PROVE  mergeEntries(e, f) \in Entry
<1>1. DOMAIN e = {"path", "url"} /\ DOMAIN f = {"path", "url"}
  BY DEF Entry
<1>2. mergeEntries(e, f) = [key \in {"path", "url"} |-> f[key]]
  BY <1>1 DEF mergeEntries
<1>3. [key \in {"path", "url"} |-> f[key]] = [path |-> f.path, url |-> f.url]
  OBVIOUS
<1> QED
  BY <1>2, <1>3 DEF Entry

\* Merged lists are lists.
LEMMA MergeType ==
  ASSUME NEW list \in Seq(Entry) \cup {None}, NEW override \in Seq(Entry) \cup {None}
  PROVE  merge(list, override) \in Seq(Entry) \cup {None}
<1>1. CASE list = None \/ override = None
  BY <1>1 DEF merge
<1>2. CASE list # None /\ override # None
  <2>1. /\ list \in Seq(Entry) /\ override \in Seq(Entry)
        /\ DOMAIN list = 1..Len(list) /\ DOMAIN override = 1..Len(override)
        /\ Len(list) \in Nat /\ Len(override) \in Nat
    BY <1>2
  <2> DEFINE n == IF Len(list) < Len(override) THEN Len(override) ELSE Len(list)
             f == [i \in 1..n |->
                     IF i \notin DOMAIN override THEN list[i]
                     ELSE IF i \notin DOMAIN list THEN override[i]
                     ELSE mergeEntries(list[i], override[i])]
  <2>2. n \in Nat /\ DOMAIN list \cup DOMAIN override = 1..n
    BY <2>1
  <2>3. merge(list, override) = f
    BY <1>2, <2>2 DEF merge
  <2>4. \A i \in 1..n : f[i] \in Entry
    BY <2>1, <2>2, MergedEntry
  <2>5. f \in [1..n -> Entry]
    BY <2>4
  <2>6. f \in Seq(Entry)
    BY <2>2, <2>5
  <2> QED
    BY <2>3, <2>6
<1> QED
  BY <1>1, <1>2

LEMMA KnownType ==
  ASSUME gitSubmodules \in Seq(Entry) \cup {None}
  PROVE  /\ Known \subseteq Entry
         /\ \A e \in Known : e.path \in Paths /\ e.url \in Urls /\ e.url # None
<1>1. ASSUME gitSubmodules # None
      PROVE  Entries \subseteq Entry
  BY <1>1 DEF Entries
<1>2. \A e \in Entry : e.path \in Paths /\ e.url \in Urls /\ e.url # None
  BY GitAssumption DEF Entry
<1> QED
  BY <1>1, <1>2 DEF Known

\* A path of the settings has one url.
LEMMA UrlForIs ==
  ASSUME gitSubmodules \in Seq(Entry) \cup {None}, gitSubmodules # None,
         \A e, f \in Known : e.path = f.path => e = f
  PROVE  /\ \A e \in Known : UrlFor(e.path) = e.url /\ e.path \in Configured
         /\ \A p \in Configured :
              p \in Paths /\ UrlFor(p) \in Urls /\ Setting(p, UrlFor(p)) \in Known
<1>1. Known = Entries
  BY DEF Known
<1>2. ASSUME NEW e \in Known
      PROVE  UrlFor(e.path) = e.url /\ e.path \in Configured
  <2>1. (CHOOSE f \in Entries : f.path = e.path) = e
    BY <1>1
  <2> QED
    BY <1>1, <2>1 DEF UrlFor, Configured
<1>3. ASSUME NEW p \in Configured
      PROVE  p \in Paths /\ UrlFor(p) \in Urls /\ Setting(p, UrlFor(p)) \in Known
  <2>1. PICK e \in Known : e.path = p
    BY <1>1 DEF Configured
  <2>2. e \in Entry /\ UrlFor(p) = e.url
    BY <1>2, <2>1, KnownType
  <2>3. Setting(p, UrlFor(p)) = e
    BY <2>1, <2>2 DEF Setting, Entry
  <2> QED
    BY <2>1, <2>2, <2>3, KnownType
<1> QED
  BY <1>2, <1>3

LEMMA InitIInv == Init => IInv
<1> SUFFICES ASSUME Init PROVE IInv
  OBVIOUS
<1> USE DEF Init
<1>1. TypeInv
  <2>1. /\ moduleStatuses \in [DOMAIN moduleStatuses -> Status]
        /\ snapshot \in [DOMAIN moduleStatuses -> Paths \cup {None}]
        /\ DOMAIN moduleStatuses \subseteq Paths
    BY DEF Empty
  <2>2. cmd \in [Paths -> [step : Going \cup {"none", "done", "failed"},
                           url : Urls \cup {None}, locked : BOOLEAN]]
    BY DEF NoCommand
  <2>3. retries \in 0..MaxRetries /\ faults \in 0..MaxFaults /\ edits \in 0..MaxEdits
    BY SettingsAssumption
  <2>4. /\ pinned \in [Paths -> Commits \cup {None}]
        /\ gitmodules \in [Paths -> Urls \cup {None}] /\ config \in [Paths -> Urls \cup {NoUrl, None}]
        /\ work \in [Paths -> Checkouts \cup {None}]
        /\ missing \subseteq Paths /\ (\A p \in missing : work[p] = None) /\ staged \in BOOLEAN
    OBVIOUS
  <2> QED
    BY <2>1, <2>2, <2>3, <2>4 DEF TypeInv, GitTypes, CmdTypes, ScriptTypes
<1>2. LockInv
  BY DEF LockInv, NoCommand
<1>3. PhaseInv
  BY DEF PhaseInv, NoCommand, Adding, Initializing, Remapping, Going
<1>4. CmdInv
  BY DEF CmdInv, NoCommand, Adding, Initializing, Remapping
<1>5. SettingsInv /\ StatusInv /\ UnstagedInv
  BY DEF SettingsInv, StatusInv, UnstagedInv, AfterUnstage, Ended
<1>6. ReadyInv
  BY DEF ReadyInv, Known, Ended, AfterUnstage, AfterInitialize
<1> QED
  BY <1>1, <1>2, <1>3, <1>4, <1>5, <1>6 DEF IInv

-----------------------------------------------------------------------------
(* The commands.  A step of one command only concerns its own submodule;     *)
(* LocalStep says what it must keep there.                                  *)

\* The command for p goes to step s.
Moves(p, s) ==
  /\ UNCHANGED <<ignored, files, gitSubmodules, retries, pc, stage, moduleStatuses, snapshot,
                 cwd, newSubmodules, outcome, edits>>
  /\ faults' \in 0..MaxFaults
  /\ cmd[p].step \in Going /\ CmdTypes'
  /\ cmd'[p].step = s /\ cmd'[p].url = cmd[p].url /\ ~cmd'[p].locked
  /\ \A q \in Paths \ {p} :
       /\ cmd'[q] = cmd[q] /\ pinned'[q] = pinned[q] /\ gitmodules'[q] = gitmodules[q]
       /\ config'[q] = config[q] /\ work'[q] = work[q]

\* What was there stays, .gitmodules keeps to the settings, only adding stages,
\* and the kind of the command stays.
Keeps(p, s) ==
  /\ \A kind \in {Adding, Initializing, Remapping} : s \in kind => cmd[p].step \in kind
  /\ pinned[p] # None => pinned'[p] # None
  /\ config[p] # None => config'[p] # None
  /\ work[p] # None => work'[p] # None /\ (work'[p].url = work[p].url \/ work'[p].url = gitmodules[p])
  /\ gitmodules[p] # None => gitmodules'[p] # None
  /\ gitmodules'[p] = gitmodules[p]
     \/ (cmd[p].step \in Adding \cup Remapping /\ gitmodules'[p] = cmd[p].url)
  /\ staged' => staged \/ cmd[p].step \in Adding

\* The next step makes sense, and a finished command has done its work.
Prepares(p, s) ==
  /\ s \in {"setUrl", "addPath"} => work'[p] # None
  /\ s = "checkout" => config'[p] \in Urls
  /\ s # "register"
  /\ cmd[p].step \in {"clone", "setUrl", "addPath"} =>
       pinned'[p] # None \/ s \in {"clone", "setUrl", "addPath", "failed"}
  /\ cmd[p].step \in Initializing =>
       (config'[p] # None /\ work'[p] # None) \/ s \in Initializing \cup {"failed"}
  /\ cmd[p].step \in Remapping /\ work[p] # None =>
       work'[p].url = gitmodules[p] \/ s \in Remapping \cup {"failed"}

LEMMA EntryOfCommand ==
  ASSUME IInv, NEW p \in Paths, cmd[p].step \in Adding \cup Remapping
  PROVE  /\ cmd[p].url \in Urls /\ cmd[p].url # None
         /\ \A e \in Known : pc # "ended" /\ e.path = p => e.url = cmd[p].url
<1> DEFINE f == Setting(p, cmd[p].url)
<1>1. f \in Known /\ f.path = p /\ f.url = cmd[p].url
  BY DEF IInv, CmdInv, Setting
<1>2. pc # "ended" => pc \notin {"idle", "default", "override", "ended"}
  BY DEF IInv, PhaseInv, Adding, Remapping
<1>3. \A e \in Known : pc # "ended" /\ e.path = p => e = f
  BY <1>1, <1>2 DEF IInv, SettingsInv
<1>4. cmd[p].url \in Urls /\ cmd[p].url # None
  BY <1>1, KnownType DEF IInv, TypeInv, ScriptTypes
<1> QED
  BY <1>1, <1>3, <1>4

LEMMA LocalStep ==
  ASSUME IInv, NEW p \in Paths, NEW s, Moves(p, s), Keeps(p, s), Prepares(p, s), GitTypes'
  PROVE  IInv'
<1>0. Known' = Known
  BY DEF Moves, Known, Entries
<1>1. TypeInv'
  BY DEF TypeInv, ScriptTypes, IInv, Moves
<1>2. LockInv'
  BY DEF LockInv, IInv, Moves
<1>3. PhaseInv'
  <2>1. cmd'[p].step \in Going => cmd[p].step \in Going
    BY DEF Moves
  <2>2. /\ cmd'[p].step \in Adding => cmd[p].step \in Adding
        /\ cmd'[p].step \in Initializing => cmd[p].step \in Initializing
        /\ cmd'[p].step \in Remapping => cmd[p].step \in Remapping
    BY DEF Moves, Keeps
  <2> QED
    BY <2>1, <2>2 DEF PhaseInv, IInv, Moves
<1>4. CmdInv'
  <2>1. CmdInv /\ \A q \in Paths : cmd'[q].url = cmd[q].url
    BY DEF IInv, Moves
  <2>2. ASSUME NEW q \in Paths, cmd'[q].step \in Adding \cup Remapping
        PROVE  Setting(q, cmd'[q].url) \in Known
    BY <2>1, <2>2 DEF CmdInv, Moves, Keeps
  <2>3. ASSUME NEW q \in Paths, cmd'[q].step \in {"setUrl", "addPath"}
        PROVE  work'[q] # None
    BY <2>1, <2>3 DEF CmdInv, Moves, Prepares
  <2>4. ASSUME NEW q \in Paths, cmd'[q].step \in Remapping \/ cmd'[q].step = "register"
        PROVE  gitmodules'[q] # None
    BY <2>1, <2>4 DEF CmdInv, Moves, Keeps, Prepares
  <2>5. ASSUME NEW q \in Paths, cmd'[q].step = "checkout"
        PROVE  config'[q] \in Urls
    BY <2>1, <2>5 DEF CmdInv, Moves, Prepares
  <2>6. ASSUME NEW q \in Paths, cmd'[q].step \in Initializing
        PROVE  pinned'[q] # None /\ q \in DOMAIN moduleStatuses
               /\ moduleStatuses[q].status = "uninitialized"
    BY <2>1, <2>6 DEF CmdInv, Moves, Keeps
  <2>7. UNCHANGED moduleStatuses
    BY DEF Moves
  <2> QED
    BY <1>0, <2>2, <2>3, <2>4, <2>5, <2>6, <2>7 DEF CmdInv
<1>n. ~Ended /\ pc \in {"add", "initialize", "update", "ended"} /\ pc' = pc /\ ~Ended' /\ stage' = stage
  BY DEF Ended, IInv, PhaseInv, Going, Moves
<1>5. SettingsInv'
  <2>1. \A e \in Known : pc # "ended" /\ gitmodules[e.path] = e.url => gitmodules'[e.path] = e.url
    <3> SUFFICES ASSUME NEW e \in Known, pc # "ended", gitmodules[e.path] = e.url
                 PROVE  gitmodules'[e.path] = e.url
      OBVIOUS
    <3>1. e.path \in Paths
      BY KnownType DEF IInv, TypeInv, ScriptTypes
    <3>2. CASE e.path # p
      BY <3>1, <3>2 DEF Moves
    <3>3. CASE e.path = p
      BY <3>3, EntryOfCommand DEF Keeps
    <3> QED
      BY <3>2, <3>3
  <2> QED
    BY <1>0, <1>n, <2>1 DEF SettingsInv, IInv, Moves
<1>6. StatusInv'
  BY <1>n DEF StatusInv
<1>7. ReadyInv'
  <2> SUFFICES ASSUME NEW e \in Known
               PROVE  LET q == e.path IN
      /\ pc = "add" => pinned'[q] # None \/ cmd'[q].step \in {"clone", "setUrl", "addPath", "failed"}
      /\ pc \in {"initialize", "update"} => pinned'[q] # None
      /\ pc = "initialize" => (config'[q] # None /\ work'[q] # None)
                              \/ cmd'[q].step \in Initializing \cup {"failed"}
      /\ pc = "update" => config'[q] # None /\ work'[q] # None
      /\ pc = "update" => work'[q].url = e.url \/ cmd'[q].step \in Remapping \cup {"failed"}
    BY <1>0, <1>n DEF ReadyInv, AfterUnstage, AfterInitialize
  <2> DEFINE q == e.path
  <2>1. q \in Paths
    BY KnownType DEF IInv, TypeInv, ScriptTypes
  <2>2. /\ pc = "add" => pinned[q] # None \/ cmd[q].step \in {"clone", "setUrl", "addPath", "failed"}
        /\ pc \in {"initialize", "update"} => pinned[q] # None
        /\ pc = "initialize" => (config[q] # None /\ work[q] # None)
                                \/ cmd[q].step \in Initializing \cup {"failed"}
        /\ pc = "update" => config[q] # None /\ work[q] # None
        /\ pc = "update" => work[q].url = e.url \/ cmd[q].step \in Remapping \cup {"failed"}
    BY DEF IInv, ReadyInv, AfterUnstage, AfterInitialize
  <2>3. CASE q # p
    BY <2>1, <2>2, <2>3 DEF Moves
  <2>4. CASE q = p
    <3>1. cmd'[q].step = s /\ cmd[q].step \in Going
      BY <2>4 DEF Moves
    <3>2. pc = "update" => gitmodules[q] = e.url
      BY DEF IInv, SettingsInv
    <3>3. Keeps(q, s) /\ Prepares(q, s)
      BY <2>4
    <3>4. cmd[q].step # "failed"
      BY <3>1 DEF Going, Adding, Initializing, Remapping
    <3> QED
      BY <2>2, <3>1, <3>2, <3>3, <3>4 DEF Keeps, Prepares
  <2> QED
    BY <2>3, <2>4
<1>8. UnstagedInv'
  BY <1>n DEF UnstagedInv, AfterUnstage, IInv, PhaseInv, Keeps, Adding, Initializing, Remapping
<1> QED
  BY <1>1, <1>2, <1>3, <1>4, <1>5, <1>6, <1>7, <1>8 DEF IInv

\* What CommandRuns leaves alone.
Others ==
  /\ UNCHANGED <<ignored, files, gitSubmodules, retries, pc, stage, moduleStatuses, snapshot,
                 cwd, newSubmodules, outcome, edits>>
  /\ faults' \in 0..MaxFaults

LEMMA GoesMoves ==
  ASSUME IInv, NEW p \in Paths, NEW s \in Going \cup {"done", "failed"}, Goes(p, s), Others,
         cmd[p].step \in Going,
         \A q \in Paths \ {p} : /\ pinned'[q] = pinned[q] /\ gitmodules'[q] = gitmodules[q]
                                /\ config'[q] = config[q] /\ work'[q] = work[q]
  PROVE  Moves(p, s)
<1>1. CmdTypes /\ cmd[p] \in [step : Going \cup {"none", "done", "failed"},
                             url : Urls \cup {None}, locked : BOOLEAN]
  BY DEF IInv, TypeInv, CmdTypes
<1>2. cmd' = [cmd EXCEPT ![p] = [step |-> s, url |-> cmd[p].url, locked |-> FALSE]]
  BY DEF Goes, Command
<1>3. CmdTypes'
  BY <1>1, <1>2 DEF CmdTypes
<1> QED
  BY <1>1, <1>2, <1>3 DEF Moves, Others, CmdTypes

LEMMA TakesLockStep ==
  ASSUME IInv, NEW p \in Paths, TakesLock(p), Others
  PROVE  IInv'
<1>1. /\ cmd[p].step \in Going \ {"clone", "checkout"}
      /\ cmd' = [cmd EXCEPT ![p].locked = TRUE]
      /\ \A q \in Paths : ~(cmd[q].locked /\ FileOf[cmd[q].step] = FileOf[cmd[p].step])
      /\ UNCHANGED <<pinned, gitmodules, staged, config, work, missing>>
      /\ CmdTypes
  BY FileOfIs DEF TakesLock, WritesNext, HoldsLock, repository, IInv, TypeInv
<1>2. /\ CmdTypes' /\ cmd'[p].locked
      /\ \A q \in Paths : cmd'[q].step = cmd[q].step /\ cmd'[q].url = cmd[q].url
      /\ \A q \in Paths \ {p} : cmd'[q] = cmd[q]
  BY <1>1 DEF CmdTypes
<1>3. Known' = Known
  BY DEF Known, Entries, Others
<1>4. TypeInv'
  BY <1>1, <1>2 DEF TypeInv, GitTypes, ScriptTypes, IInv, Others
<1>5. LockInv'
  BY <1>1, <1>2 DEF LockInv, IInv
<1>6. PhaseInv'
  BY <1>2 DEF PhaseInv, IInv, Others
<1>7. CmdInv'
  BY <1>1, <1>2, <1>3 DEF CmdInv, IInv, Others
<1>8. SettingsInv' /\ StatusInv' /\ UnstagedInv'
  BY <1>1, <1>3 DEF SettingsInv, StatusInv, UnstagedInv, AfterUnstage, Ended, IInv, InIndex, Others
<1>9. ReadyInv'
  <2>1. \A e \in Known : e.path \in Paths
    BY KnownType DEF IInv, TypeInv, ScriptTypes
  <2> QED
    BY <1>1, <1>2, <1>3, <2>1
    DEF ReadyInv, AfterUnstage, AfterInitialize, Ended, IInv, Others
<1> QED
  BY <1>4, <1>5, <1>6, <1>7, <1>8, <1>9 DEF IInv

LEMMA FindsLockStep ==
  ASSUME IInv, NEW p \in Paths, FindsLock(p), Others
  PROVE  IInv'
<1> DEFINE s == IF cmd[p].step \in OnlyWarns THEN Following[cmd[p].step] ELSE "failed"
<1>1. /\ cmd[p].step \in Going /\ Goes(p, s)
      /\ UNCHANGED <<pinned, gitmodules, staged, config, work, missing>>
  BY FileOfIs DEF FindsLock, WritesNext, repository
<1>2. \/ cmd[p].step = "setUrl" /\ s = "addPath"
      \/ cmd[p].step = "activate" /\ s = "done"
      \/ cmd[p].step = "remap" /\ s = "sync"
      \/ s = "failed"
  BY FollowingIs DEF OnlyWarns
<1> HIDE DEF s
<1>3. s \in Going \cup {"done", "failed"}
  BY <1>2 DEF Going, Adding, Remapping
<1>4. Moves(p, s)
  BY <1>1, <1>3, GoesMoves
<1>5. Keeps(p, s)
  BY <1>1, <1>2 DEF Keeps, Adding, Initializing, Remapping
<1>6. Prepares(p, s)
  BY <1>1, <1>2 DEF Prepares, IInv, CmdInv, Initializing, Remapping
<1>7. GitTypes'
  BY <1>1 DEF GitTypes, IInv, TypeInv
<1> QED
  BY <1>4, <1>5, <1>6, <1>7, LocalStep

LEMMA WritesStep ==
  ASSUME IInv, NEW p \in Paths, Writes(p), Others
  PROVE  IInv'
<1> DEFINE step == cmd[p].step
           s == Following[step]
<1>1. /\ step \in Going \ {"clone", "checkout"} /\ Goes(p, s) /\ missing' = missing
      /\ pinned' = IF step = "addPath" THEN [pinned EXCEPT ![p] = work[p].commit] ELSE pinned
      /\ gitmodules' = IF step \in {"map", "remap"} THEN [gitmodules EXCEPT ![p] = cmd[p].url]
                       ELSE gitmodules
      /\ staged' = (staged \/ step = "addMap")
      /\ work' = IF step = "sync" /\ work[p] # None
                 THEN [work EXCEPT ![p].url = gitmodules[p]] ELSE work
  BY DEF Writes, IInv, LockInv
<1>2. config' = IF step = "setUrl" THEN [config EXCEPT ![p] = cmd[p].url]
                ELSE IF step = "activate" /\ config[p] = None THEN [config EXCEPT ![p] = NoUrl]
                ELSE IF step \in {"register", "sync"} THEN [config EXCEPT ![p] = gitmodules[p]]
                ELSE config
  BY DEF Writes
<1>3. /\ \/ step = "setUrl" /\ s = "addPath"
         \/ step = "addPath" /\ s = "map"
         \/ step = "map" /\ s = "addMap"
         \/ step = "addMap" /\ s = "activate"
         \/ step = "activate" /\ s = "done"
         \/ step = "register" /\ s = "checkout"
         \/ step = "remap" /\ s = "sync"
         \/ step = "sync" /\ s = "done"
      /\ s \in Going \cup {"done", "failed"}
  <2>1. \A t \in Going \ {"clone", "checkout"} :
          \/ t = "setUrl" \/ t = "addPath" \/ t = "map" \/ t = "addMap" \/ t = "activate"
          \/ t = "register" \/ t = "remap" \/ t = "sync"
    BY DEF Going, Adding, Initializing, Remapping
  <2>2. {"addPath", "map", "addMap", "activate", "checkout", "sync"} \subseteq Going
    BY DEF Going, Adding, Initializing, Remapping
  <2> QED
    BY <1>1, <2>1, <2>2, FollowingIs
<1>4. /\ step \in Adding \cup Remapping => cmd[p].url \in Urls /\ cmd[p].url # None
      /\ step \in {"setUrl", "addPath"} => work[p] # None
      /\ step \in {"register", "remap", "sync"} => gitmodules[p] # None
      /\ step \in Initializing => pinned[p] # None
  BY EntryOfCommand DEF IInv, CmdInv, Remapping
<1> HIDE DEF s
<1>5. GitTypes
  BY DEF IInv, TypeInv
<1>6. /\ work[p] # None => work[p].commit \in Commits /\ work[p].commit # None
      /\ work[p] # None => [work[p] EXCEPT !.url = gitmodules[p]]
                           = [url |-> gitmodules[p], commit |-> work[p].commit]
  <2>1. work[p] # None => work[p] \in Checkouts
    BY <1>5 DEF GitTypes
  <2>2. \A w \in Checkouts : /\ w.commit \in Commits /\ w.commit # None
                           /\ [w EXCEPT !.url = gitmodules[p]]
                              = [url |-> gitmodules[p], commit |-> w.commit]
    BY GitAssumption DEF Checkouts
  <2> QED
    BY <2>1, <2>2
<1>7. Moves(p, s)
  <2>1. \A q \in Paths \ {p} : /\ pinned'[q] = pinned[q] /\ gitmodules'[q] = gitmodules[q]
                              /\ config'[q] = config[q] /\ work'[q] = work[q]
    BY <1>1, <1>2, <1>5 DEF GitTypes
  <2> QED
    BY <1>1, <1>3, <2>1, GoesMoves
<1>8. GitTypes'
  <2>1. work' \in [Paths -> Checkouts \cup {None}] /\ \A q \in missing' : work'[q] = None
    <3>1. CASE step = "sync" /\ work[p] # None
      <4>1. work' = [work EXCEPT ![p] = [url |-> gitmodules[p], commit |-> work[p].commit]]
        BY <1>1, <1>5, <1>6, <3>1 DEF GitTypes
      <4>2. [url |-> gitmodules[p], commit |-> work[p].commit] \in Checkouts
        BY <1>4, <1>5, <1>6, <3>1 DEF GitTypes, Checkouts
      <4> QED
        BY <1>1, <1>5, <3>1, <4>1, <4>2 DEF GitTypes
    <3>2. CASE ~(step = "sync" /\ work[p] # None)
      BY <1>1, <1>5, <3>2 DEF GitTypes
    <3> QED
      BY <3>1, <3>2
  <2>2. pinned' \in [Paths -> Commits \cup {None}]
    BY <1>1, <1>4, <1>5, <1>6 DEF GitTypes
  <2>3. gitmodules' \in [Paths -> Urls \cup {None}] /\ config' \in [Paths -> Urls \cup {NoUrl, None}]
    BY <1>1, <1>2, <1>4, <1>5 DEF GitTypes, Adding, Remapping
  <2> QED
    BY <1>1, <1>5, <2>1, <2>2, <2>3 DEF GitTypes
<1>9. \/ work'[p] = work[p]
      \/ /\ step = "sync" /\ work[p] # None /\ work'[p] # None /\ work'[p].url = gitmodules[p]
         /\ work'[p].commit = work[p].commit
  <2>1. CASE step = "sync" /\ work[p] # None
    <3>1. work'[p] = [url |-> gitmodules[p], commit |-> work[p].commit]
      BY <1>1, <1>5, <1>6, <2>1 DEF GitTypes
    <3>2. [url |-> gitmodules[p], commit |-> work[p].commit] \in Checkouts
      BY <1>4, <1>5, <1>6, <2>1 DEF GitTypes, Checkouts
    <3> QED
      BY <2>1, <3>1, <3>2, GitAssumption
  <2>2. CASE ~(step = "sync" /\ work[p] # None)
    BY <1>1, <2>2
  <2> QED
    BY <2>1, <2>2
<1>10. Keeps(p, s)
  BY <1>1, <1>2, <1>3, <1>4, <1>5, <1>6, <1>9 DEF Keeps, Adding, Initializing, Remapping, GitTypes
<1>11. Prepares(p, s)
  BY <1>1, <1>2, <1>3, <1>4, <1>5, <1>6, <1>9 DEF Prepares, Adding, Initializing, Remapping, GitTypes
<1> QED
  BY <1>7, <1>8, <1>10, <1>11, LocalStep

LEMMA ClonesStep ==
  ASSUME IInv, NEW p \in Paths, Clones(p), Others
  PROVE  IInv'
<1>1. /\ cmd[p].step = "clone" /\ Goes(p, "setUrl") /\ missing' = missing \ {p}
      /\ UNCHANGED <<pinned, gitmodules, staged, config>>
      /\ work[p] # None => work' = work
  BY FollowingIs DEF Clones
<1>2. cmd[p].url \in Urls
  BY <1>1, EntryOfCommand DEF Adding
<1>3. GitTypes
  BY DEF IInv, TypeInv
<1>4. work' \in [Paths -> Checkouts \cup {None}] /\ work'[p] # None
      /\ \A q \in Paths \ {p} : work'[q] = work[q]
  <2>1. CASE work[p] # None
    BY <1>1, <1>3, <2>1 DEF GitTypes
  <2>2. CASE work[p] = None
    <3>1. PICK c \in Commits : work' = [work EXCEPT ![p] = [url |-> cmd[p].url, commit |-> c]]
      BY <2>2 DEF Clones
    <3>2. [url |-> cmd[p].url, commit |-> c] \in Checkouts
      BY <1>2 DEF Checkouts
    <3> QED
      BY <1>3, <3>1, <3>2, GitAssumption DEF GitTypes
  <2> QED
    BY <2>1, <2>2
<1>5. Moves(p, "setUrl")
  BY <1>1, <1>4, GoesMoves DEF Going, Adding
<1>6. GitTypes'
  BY <1>1, <1>3, <1>4 DEF GitTypes
<1>7. Keeps(p, "setUrl") /\ Prepares(p, "setUrl")
  BY <1>1, <1>4 DEF Keeps, Prepares, Adding, Initializing, Remapping
<1> QED
  BY <1>5, <1>6, <1>7, LocalStep

LEMMA ChecksOutStep ==
  ASSUME IInv, NEW p \in Paths, ChecksOut(p), Others
  PROVE  IInv'
<1> DEFINE w == [url |-> IF work[p] = None THEN config[p] ELSE work[p].url, commit |-> pinned[p]]
<1>1. /\ cmd[p].step = "checkout" /\ Goes(p, "done") /\ missing' = missing \ {p}
      /\ UNCHANGED <<pinned, gitmodules, staged, config>>
  BY DEF ChecksOut
<1>2. work' = [work EXCEPT ![p] = w]
  BY DEF ChecksOut
<1>3. GitTypes
  BY DEF IInv, TypeInv
<1>4. config[p] \in Urls /\ pinned[p] # None
  BY <1>1 DEF IInv, CmdInv, Initializing
<1>5. w \in Checkouts /\ w # None /\ (work[p] # None => w.url = work[p].url)
  BY <1>3, <1>4, GitAssumption DEF GitTypes, Checkouts
<1> HIDE DEF w
<1>6. /\ work' \in [Paths -> Checkouts \cup {None}] /\ work'[p] = w
      /\ \A q \in Paths \ {p} : work'[q] = work[q]
  BY <1>2, <1>3, <1>5 DEF GitTypes
<1>7. Moves(p, "done")
  BY <1>1, <1>6, GoesMoves DEF Going, Initializing
<1>8. GitTypes'
  BY <1>1, <1>3, <1>6 DEF GitTypes
<1>9. Keeps(p, "done") /\ Prepares(p, "done")
  BY <1>1, <1>4, <1>5, <1>6, GitAssumption DEF Keeps, Prepares, Adding, Initializing, Remapping
<1> QED
  BY <1>7, <1>8, <1>9, LocalStep

LEMMA CannotCloneStep ==
  ASSUME IInv, NEW p \in Paths, CannotClone(p), Others
  PROVE  IInv'
<1>1. /\ cmd[p].step \in {"clone", "checkout"} /\ Goes(p, "failed")
      /\ UNCHANGED <<pinned, gitmodules, staged, config, work, missing>>
  BY DEF CannotClone, repository
<1>2. Moves(p, "failed")
  BY <1>1, GoesMoves DEF Going, Adding, Initializing
<1>3. GitTypes'
  BY <1>1 DEF IInv, TypeInv, GitTypes
<1>4. Keeps(p, "failed") /\ Prepares(p, "failed")
  BY <1>1 DEF Keeps, Prepares, Adding, Initializing, Remapping
<1> QED
  BY <1>2, <1>3, <1>4, LocalStep

LEMMA CommandStep ==
  ASSUME IInv, NEW p \in Paths, CommandRuns(p)
  PROVE  IInv'
<1>1. Others
  BY SettingsAssumption
  DEF CommandRuns, Others, settings, answers, Fault, IInv, TypeInv, ScriptTypes
<1>2. CASE CannotClone(p)
  BY <1>1, <1>2, CannotCloneStep
<1>3. CASE GitStep(p)
  BY <1>1, <1>3, TakesLockStep, FindsLockStep, WritesStep, ClonesStep, ChecksOutStep DEF GitStep
<1> QED
  BY <1>2, <1>3 DEF CommandRuns

-----------------------------------------------------------------------------
(* init() and the developer.                                                *)

\* No command runs.
Quiet == \A p \in Paths : cmd[p].step \notin Going

LEMMA QuietPhases ==
  ASSUME IInv, pc \notin {"add", "initialize", "update", "ended"}
  PROVE  Quiet
BY DEF Quiet, IInv, PhaseInv, Going

\* While no command runs and none is started, only the rest of init() counts.
LEMMA QuietStep ==
  ASSUME IInv, Quiet, UNCHANGED cmd, GitTypes', ScriptTypes',
         pc' \notin {"idle", "ended"} => outcome' = "running",
         pc' = "ended" => outcome' \in {"done", "failed"},
         pc' \in {"default", "override", "write", "add", "unstage"} => stage' = 1,
         pc' = "initialize" => stage' = 2,
         pc' = "update" => stage' = 3
  PROVE  TypeInv' /\ LockInv' /\ PhaseInv' /\ CmdInv'
<1>1. TypeInv'
  BY DEF TypeInv, CmdTypes, IInv
<1>2. LockInv'
  BY DEF LockInv, IInv
<1>3. PhaseInv'
  BY DEF PhaseInv, Quiet, Going
<1>4. CmdInv'
  BY DEF CmdInv, Quiet, Going, Adding, Initializing, Remapping
<1> QED
  BY <1>1, <1>2, <1>3, <1>4

LEMMA StartsStep ==
  ASSUME IInv, Starts
  PROVE  IInv'
<1>1. /\ pc = "idle" /\ pc' = "default" /\ outcome' = "running" /\ stage' = 1
      /\ gitSubmodules' = None /\ newSubmodules' = {} /\ cwd' = Root
      /\ UNCHANGED <<pinned, gitmodules, staged, config, work, missing, cmd, ignored, files,
                     retries, moduleStatuses, snapshot, faults, edits>>
  BY DEF Starts, repository, answers
<1>2. GitTypes' /\ ScriptTypes'
  BY <1>1 DEF IInv, TypeInv, GitTypes, ScriptTypes
<1>3. TypeInv' /\ LockInv' /\ PhaseInv' /\ CmdInv'
  BY <1>1, <1>2, QuietPhases, QuietStep
<1>4. SettingsInv' /\ StatusInv' /\ ReadyInv' /\ UnstagedInv'
  BY <1>1 DEF SettingsInv, StatusInv, ReadyInv, UnstagedInv, AfterUnstage, Ended, Known
<1> QED
  BY <1>3, <1>4 DEF IInv

LEMMA EnqueueStep ==
  ASSUME IInv, Enqueue \/ Retry
  PROVE  IInv'
<1>1. /\ pc \in {"default", "override", "write"} \/ retries' = retries + 1
      /\ retries' \in 0..MaxRetries /\ faults' \in 0..MaxFaults
      /\ UNCHANGED <<pinned, gitmodules, staged, config, work, missing, cmd, ignored, files,
                     gitSubmodules, pc, stage, moduleStatuses, snapshot, cwd, newSubmodules,
                     outcome, edits>>
  BY SettingsAssumption
  DEF Enqueue, Retry, Fault, repository, answers, IInv, TypeInv, ScriptTypes
<1>2. TypeInv'
  BY <1>1 DEF IInv, TypeInv, GitTypes, CmdTypes, ScriptTypes
<1>3. LockInv' /\ PhaseInv' /\ UnstagedInv'
  BY <1>1 DEF IInv, LockInv, PhaseInv, UnstagedInv, AfterUnstage, Ended
<1>4. Known' = Known
  BY <1>1 DEF Known, Entries
<1>5. CmdInv' /\ SettingsInv' /\ StatusInv' /\ ReadyInv'
  BY <1>1, <1>4
  DEF IInv, CmdInv, SettingsInv, StatusInv, InIndex, ReadyInv, AfterUnstage, AfterInitialize, Ended
<1> QED
  BY <1>2, <1>3, <1>5 DEF IInv

LEMMA getRepoFileStep ==
  ASSUME IInv, getRepoFile
  PROVE  IInv'
<1>1. /\ pc \in DOMAIN files /\ retries' = 0
      /\ UNCHANGED <<pinned, gitmodules, staged, config, work, missing, cmd, ignored, files,
                     stage, moduleStatuses, snapshot, cwd, newSubmodules, faults, edits>>
  BY DEF getRepoFile, repository, answers
<1>2. pc \in {"default", "override"} /\ outcome = "running" /\ stage = 1
  BY <1>1 DEF IInv, TypeInv, ScriptTypes, PhaseInv
<1>3. PICK content \in Read :
        \/ content = Bad /\ Fails /\ UNCHANGED gitSubmodules
        \/ /\ content # Bad /\ gitSubmodules' = merge(gitSubmodules, content)
           /\ pc' = IF pc = "default" THEN "override" ELSE "write"
           /\ UNCHANGED outcome
  BY DEF getRepoFile
<1>4. content \in (IF pc = "default" THEN DefaultFiles ELSE OverrideFiles) \cup {None}
  BY <1>2 DEF Read, IInv, TypeInv, ScriptTypes
<1>5. content # Bad => content \in Seq(Entry) \cup {None}
  BY <1>4, SettingsAssumption DEF Lists, Entry
<1>6. gitSubmodules' \in Seq(Entry) \cup {None}
  BY <1>3, <1>5, MergeType DEF IInv, TypeInv, ScriptTypes
<1>7. GitTypes' /\ ScriptTypes'
  <2>1. pc' \in {"override", "write", "ended"} /\ outcome' \in {"running", "failed"}
        /\ retries' \in 0..MaxRetries
    BY <1>1, <1>2, <1>3, SettingsAssumption DEF Fails
  <2> QED
    BY <1>1, <1>6, <2>1 DEF IInv, TypeInv, GitTypes, ScriptTypes
<1>8. TypeInv' /\ LockInv' /\ PhaseInv' /\ CmdInv'
  <2>1. Quiet
    BY <1>2, QuietPhases
  <2> QED
    BY <1>1, <1>2, <1>3, <1>7, <2>1, QuietStep DEF Fails
<1>9. SettingsInv'
  <2>1. CASE content = Bad
    BY <1>3, <2>1 DEF SettingsInv, Fails, Ended
  <2>2. CASE content # Bad /\ pc = "default"
    <3>1. gitSubmodules' = content /\ pc' = "override"
      BY <1>3, <2>2 DEF IInv, SettingsInv, merge
    <3>2. content \in (DefaultFiles \cup {None}) \ {Bad}
      BY <1>4, <2>2
    <3> QED
      BY <3>1, <3>2 DEF SettingsInv, Ended
  <2>3. CASE content # Bad /\ pc = "override"
    <3>1. /\ gitSubmodules' = merge(gitSubmodules, content) /\ pc' = "write"
          /\ gitSubmodules \in (DefaultFiles \cup {None}) \ {Bad}
          /\ content \in (OverrideFiles \cup {None}) \ {Bad}
      BY <1>3, <1>4, <2>3 DEF IInv, SettingsInv
    <3>2. gitSubmodules' # None => \A i, j \in DOMAIN gitSubmodules' :
            gitSubmodules'[i].path = gitSubmodules'[j].path => i = j
      BY <3>1, PathsAssumption
    <3>3. \A e, f \in Known' : e.path = f.path => e = f
      BY <3>2 DEF Known, Entries
    <3> QED
      BY <3>1, <3>3 DEF SettingsInv, Ended
  <2> QED
    BY <1>2, <2>1, <2>2, <2>3
<1>10. StatusInv' /\ ReadyInv' /\ UnstagedInv'
  BY <1>2, <1>3
  DEF StatusInv, ReadyInv, UnstagedInv, AfterUnstage, AfterInitialize, Ended, Fails
<1> QED
  BY <1>8, <1>9, <1>10 DEF IInv

LEMMA createSubmoduleFileStep ==
  ASSUME IInv, createSubmoduleFile
  PROVE  IInv'
<1>1. /\ pc = "write" /\ retries' = 0
      /\ \/ Fails /\ UNCHANGED gitmodules
         \/ /\ gitSubmodules # None /\ pc' = "status" /\ UNCHANGED outcome
            /\ gitmodules' = [p \in Paths |-> IF p \in Configured THEN UrlFor(p) ELSE None]
      /\ UNCHANGED <<pinned, staged, config, work, missing, cmd, ignored, files, gitSubmodules,
                     stage, moduleStatuses, snapshot, cwd, newSubmodules, faults, edits>>
  BY DEF createSubmoduleFile, answers
<1>2. outcome = "running" /\ stage = 1 /\ Known' = Known
  BY <1>1 DEF IInv, PhaseInv, Known, Entries
<1>3. \A e \in Known : e.path \in Paths /\ e.url \in Urls
  BY KnownType DEF IInv, TypeInv, ScriptTypes
<1>4. ASSUME gitSubmodules # None, NEW e \in Known
      PROVE  UrlFor(e.path) = e.url /\ e.path \in Configured
  BY <1>1, <1>4, UrlForIs DEF IInv, SettingsInv, TypeInv, ScriptTypes
<1>5. \A p \in Configured : gitSubmodules # None => UrlFor(p) \in Urls
  BY <1>3, <1>4 DEF Configured, Known
<1>6. GitTypes'
  BY <1>1, <1>5 DEF IInv, TypeInv, GitTypes
<1>7. ScriptTypes'
  <2>1. pc' \in {"status", "ended"} /\ outcome' \in {"running", "failed"}
        /\ retries' \in 0..MaxRetries
    BY <1>1, <1>2, SettingsAssumption DEF Fails
  <2> QED
    BY <1>1, <2>1 DEF IInv, TypeInv, ScriptTypes
<1>8. TypeInv' /\ LockInv' /\ PhaseInv' /\ CmdInv'
  <2>1. Quiet
    BY <1>1, QuietPhases
  <2> QED
    BY <1>1, <1>2, <1>6, <1>7, <2>1, QuietStep DEF Fails
<1>9. SettingsInv'
  <2>1. CASE pc' = "status"
    BY <1>1, <1>2, <1>3, <1>4, <2>1 DEF SettingsInv, IInv, Fails
  <2>2. CASE Fails
    BY <2>2 DEF SettingsInv, Ended, Fails
  <2> QED
    BY <1>1, <2>1, <2>2
<1>10. StatusInv' /\ ReadyInv' /\ UnstagedInv'
  BY <1>1, <1>2
  DEF StatusInv, ReadyInv, UnstagedInv, AfterUnstage, AfterInitialize, Ended, Fails
<1> QED
  BY <1>8, <1>9, <1>10 DEF IInv

LEMMA getSubmoduleStatusStep ==
  ASSUME IInv, getSubmoduleStatus
  PROVE  IInv'
<1>1. /\ pc = "status" /\ outcome = "running"
      /\ \/ Fails /\ UNCHANGED <<moduleStatuses, snapshot>>
         \/ /\ ~NoMapping /\ pc' = "remotes" /\ UNCHANGED outcome
            /\ moduleStatuses' = [p \in InIndex |-> [status |-> StatusOf(p), url |-> None]]
            /\ snapshot' = [p \in InIndex |-> None]
      /\ UNCHANGED <<pinned, gitmodules, staged, config, work, missing, cmd, ignored, files,
                     gitSubmodules, retries, stage, cwd, newSubmodules, faults, edits>>
  BY DEF getSubmoduleStatus, answers, repository, settings, IInv, PhaseInv
<1>2. Known' = Known
  BY <1>1 DEF Known, Entries
<1>3. GitTypes'
  BY <1>1 DEF IInv, TypeInv, GitTypes
<1>4. ScriptTypes'
  <2>1. CASE Fails
    BY <1>1, <2>1 DEF IInv, TypeInv, ScriptTypes, Fails
  <2>2. CASE pc' = "remotes"
    <3>1. \A p \in InIndex : [status |-> StatusOf(p), url |-> None] \in Status
      BY DEF Status, StatusOf
    <3>2. /\ moduleStatuses' = [p \in InIndex |-> [status |-> StatusOf(p), url |-> None]]
          /\ snapshot' = [p \in InIndex |-> None] /\ InIndex \subseteq Paths
      BY <1>1, <2>2 DEF Fails, InIndex
    <3>3. /\ DOMAIN moduleStatuses' = InIndex
          /\ moduleStatuses' \in [InIndex -> Status]
          /\ snapshot' \in [InIndex -> Paths \cup {None}]
      BY <3>1, <3>2
    <3>4. /\ DOMAIN moduleStatuses' \subseteq Paths
          /\ moduleStatuses' \in [DOMAIN moduleStatuses' -> Status]
          /\ snapshot' \in [DOMAIN moduleStatuses' -> Paths \cup {None}]
      BY <3>2, <3>3
    <3>5. outcome' = "running"
      BY <1>1, <2>2 DEF Fails
    <3> QED
      BY <1>1, <2>2, <3>4, <3>5 DEF IInv, TypeInv, ScriptTypes
  <2> QED
    BY <1>1, <2>1, <2>2
<1>5. TypeInv' /\ LockInv' /\ PhaseInv' /\ CmdInv'
  <2>1. Quiet
    BY <1>1, QuietPhases
  <2> QED
    BY <1>1, <1>3, <1>4, <2>1, QuietStep DEF Fails
<1>6. SettingsInv'
  BY <1>1, <1>2 DEF SettingsInv, IInv, Fails, Ended
<1>7. StatusInv'
  <2>1. CASE pc' = "remotes"
    <3>1. /\ ~NoMapping /\ snapshot' = [p \in InIndex |-> None]
          /\ moduleStatuses' = [p \in InIndex |-> [status |-> StatusOf(p), url |-> None]]
      BY <1>1, <2>1 DEF Fails
    <3>2. \A p \in InIndex : gitmodules[p] # None
      BY <3>1 DEF NoMapping
    <3>3. \A p \in InIndex : StatusOf(p) = "uninitialized" <=> config[p] = None \/ work[p] = None
      BY DEF StatusOf
    <3>4. InIndex' = InIndex
      BY <1>1 DEF InIndex
    <3>5. /\ DOMAIN moduleStatuses' = InIndex
          /\ \A p \in InIndex : /\ moduleStatuses'[p].status = StatusOf(p)
                                /\ moduleStatuses'[p].url = None /\ snapshot'[p] = None
      BY <3>1
    <3> QED
      BY <1>1, <3>2, <3>3, <3>4, <3>5 DEF StatusInv
  <2>2. CASE Fails
    BY <2>2 DEF StatusInv, Fails
  <2> QED
    BY <1>1, <2>1, <2>2
<1>8. ReadyInv' /\ UnstagedInv'
  BY <1>1, <1>2
  DEF IInv, ReadyInv, UnstagedInv, AfterUnstage, AfterInitialize, Ended, Fails
<1> QED
  BY <1>5, <1>6, <1>7, <1>8 DEF IInv

LEMMA getRemoteStep ==
  ASSUME IInv, NEW p \in DOMAIN snapshot, getRemote(p)
  PROVE  IInv'
<1>1. /\ pc = "remotes" /\ outcome = "running"
      /\ \/ /\ cwd' = p /\ snapshot' = [snapshot EXCEPT ![p] = p] /\ UNCHANGED <<pc, outcome>>
         \/ Fails /\ UNCHANGED <<snapshot, cwd>>
      /\ UNCHANGED <<pinned, gitmodules, staged, config, work, missing, cmd, ignored, files,
                     gitSubmodules, retries, stage, moduleStatuses, newSubmodules, faults, edits>>
  BY DEF getRemote, repository, settings, IInv, PhaseInv
<1>2. Known' = Known /\ InIndex' = InIndex
  BY <1>1 DEF Known, Entries, InIndex
<1>3. ScriptTypes /\ p \in Paths /\ DOMAIN snapshot = DOMAIN moduleStatuses
  BY DEF IInv, TypeInv, ScriptTypes
<1>4. snapshot' \in [DOMAIN moduleStatuses -> Paths \cup {None}] /\ cwd' \in Paths \cup {Root}
  BY <1>1, <1>3 DEF ScriptTypes
<1>5. GitTypes' /\ ScriptTypes'
  BY <1>1, <1>3, <1>4 DEF IInv, TypeInv, GitTypes, ScriptTypes, Fails
<1>6. TypeInv' /\ LockInv' /\ PhaseInv' /\ CmdInv'
  <2>1. Quiet
    BY <1>1, QuietPhases
  <2> QED
    BY <1>1, <1>5, <2>1, QuietStep DEF Fails
<1>7. SettingsInv' /\ ReadyInv' /\ UnstagedInv'
  BY <1>1, <1>2
  DEF IInv, SettingsInv, ReadyInv, UnstagedInv, AfterUnstage, AfterInitialize, Ended, Fails
<1>8. StatusInv'
  BY <1>1, <1>2, <1>3 DEF StatusInv, IInv, Fails, ScriptTypes
<1> QED
  BY <1>6, <1>7, <1>8 DEF IInv

LEMMA RemoteAnswersStep ==
  ASSUME IInv, NEW p \in DOMAIN snapshot, RemoteAnswers(p)
  PROVE  IInv'
<1> DEFINE url == IF work[p] = None THEN SuperUrl ELSE work[p].url
<1>1. /\ pc = "remotes" /\ snapshot[p] # None
      /\ moduleStatuses' = [moduleStatuses EXCEPT ![p].url = RemoteIn(snapshot[p])]
      /\ UNCHANGED <<pinned, gitmodules, staged, config, work, missing, cmd, ignored, files,
                     gitSubmodules, retries, pc, stage, snapshot, cwd, newSubmodules, outcome,
                     faults, edits>>
  BY DEF RemoteAnswers, run, repository, settings
<1>2. Known' = Known /\ InIndex' = InIndex
  BY <1>1 DEF Known, Entries, InIndex
<1>3. ScriptTypes /\ GitTypes /\ StatusInv /\ p \in DOMAIN moduleStatuses /\ p \in Paths
  BY DEF IInv, TypeInv, ScriptTypes
<1>4. RemoteIn(snapshot[p]) = url /\ url \in Urls \cup {SuperUrl}
  BY <1>1, <1>3, GitAssumption DEF StatusInv, RemoteIn, GitTypes, Checkouts
<1> HIDE DEF url
<1>5. /\ DOMAIN moduleStatuses' = DOMAIN moduleStatuses
      /\ moduleStatuses' \in [DOMAIN moduleStatuses -> Status]
      /\ \A q \in DOMAIN moduleStatuses :
           /\ moduleStatuses'[q].status = moduleStatuses[q].status
           /\ moduleStatuses'[q].url = IF q = p THEN url ELSE moduleStatuses[q].url
  BY <1>1, <1>3, <1>4 DEF ScriptTypes, Status
<1>6. GitTypes' /\ ScriptTypes'
  BY <1>1, <1>3, <1>5 DEF GitTypes, ScriptTypes
<1>7. TypeInv' /\ LockInv' /\ PhaseInv' /\ CmdInv'
  <2>1. Quiet /\ PhaseInv
    BY <1>1, QuietPhases DEF IInv
  <2> QED
    BY <1>1, <1>6, <2>1, QuietStep DEF PhaseInv
<1>8. SettingsInv' /\ ReadyInv' /\ UnstagedInv'
  BY <1>1, <1>2
  DEF IInv, SettingsInv, ReadyInv, UnstagedInv, AfterUnstage, AfterInitialize, Ended
<1>9. StatusInv'
  BY <1>1, <1>2, <1>3, <1>5 DEF StatusInv, url
<1> QED
  BY <1>7, <1>8, <1>9 DEF IInv

LEMMA PassStep ==
  ASSUME IInv, Answered, cwd' = Root,
         UNCHANGED <<pinned, gitmodules, staged, config, work, missing, ignored, files,
                     gitSubmodules, retries, stage, moduleStatuses, snapshot, outcome, faults,
                     edits>>,
         newSubmodules' \subseteq Paths, CmdTypes', \A p \in Paths : ~cmd'[p].locked,
         \/ /\ pc' = "add" /\ stage = 1
            /\ \A p \in Paths : cmd'[p].step \in {"none", "clone"}
         \/ /\ pc' = "initialize" /\ stage = 2
            /\ \A p \in Paths : cmd'[p].step \in Initializing \cup {"none"}
         \/ /\ pc' = "update" /\ stage = 3
            /\ \A p \in Paths : cmd'[p].step \in {"none", "remap"}
  PROVE  /\ TypeInv' /\ LockInv' /\ PhaseInv' /\ SettingsInv' /\ StatusInv' /\ UnstagedInv'
         /\ Known' = Known
<1>1. pc = "remotes" /\ outcome = "running" /\ Known' = Known /\ gitSubmodules # None
      /\ \A e, f \in Known : e.path = f.path => e = f
  BY DEF Answered, IInv, PhaseInv, Known, Entries, SettingsInv
<1>2. pc' \in {"add", "initialize", "update"} /\ stage' = stage /\ outcome' = "running"
  BY <1>1
<1>3. TypeInv'
  BY <1>2 DEF TypeInv, GitTypes, ScriptTypes, IInv
<1>4. LockInv'
  BY DEF LockInv
<1>5. PhaseInv'
  BY <1>2 DEF PhaseInv, Going, Adding, Initializing, Remapping
<1>6. SettingsInv'
  BY <1>1, <1>2 DEF SettingsInv, IInv
<1>7. StatusInv'
  BY <1>2 DEF StatusInv
<1>8. UnstagedInv'
  BY <1>1, <1>2 DEF UnstagedInv, AfterUnstage, Ended, IInv
<1> QED
  BY <1>1, <1>3, <1>4, <1>5, <1>6, <1>7, <1>8

LEMMA addMissingStep ==
  ASSUME IInv, Passes, addMissingSubmodules
  PROVE  IInv'
<1> DEFINE new == Configured \ DOMAIN moduleStatuses
<1>1. /\ Answered /\ stage = 1 /\ pc' = "add" /\ cwd' = Root /\ newSubmodules' = new
      /\ cmd' = [p \in Paths |-> IF p \in new THEN Command("clone", UrlFor(p)) ELSE NoCommand]
      /\ UNCHANGED <<pinned, gitmodules, staged, config, work, missing, ignored, files,
                     gitSubmodules, retries, stage, moduleStatuses, snapshot, outcome, faults,
                     edits>>
  BY DEF Passes, addMissingSubmodules, syncCwd, repository, settings, answers
<1>2. /\ gitSubmodules \in Seq(Entry) \cup {None} /\ gitSubmodules # None
      /\ \A e, f \in Known : e.path = f.path => e = f
      /\ DOMAIN moduleStatuses = InIndex
  BY <1>1 DEF Answered, IInv, SettingsInv, StatusInv, TypeInv, ScriptTypes
<1>3. /\ \A e \in Known : e.path \in Paths /\ e.path \in Configured
      /\ \A p \in Configured : p \in Paths /\ UrlFor(p) \in Urls /\ Setting(p, UrlFor(p)) \in Known
  BY <1>2, UrlForIs, KnownType
<1>4. /\ CmdTypes' /\ new \subseteq Paths
      /\ \A p \in Paths : /\ ~cmd'[p].locked /\ cmd'[p].step \in {"none", "clone"}
                          /\ p \in new <=> cmd'[p].step = "clone"
                          /\ p \in new => cmd'[p].url = UrlFor(p)
  BY <1>1, <1>3 DEF CmdTypes, Command, NoCommand, Going, Adding
<1>5. /\ TypeInv' /\ LockInv' /\ PhaseInv' /\ SettingsInv' /\ StatusInv' /\ UnstagedInv'
      /\ Known' = Known
  BY <1>1, <1>4, PassStep
<1>6. CmdInv'
  <2>1. ASSUME NEW p \in Paths, cmd'[p].step \in Adding \cup Remapping
        PROVE  Setting(p, cmd'[p].url) \in Known
    BY <1>3, <1>4, <2>1 DEF Adding, Remapping
  <2> QED
    BY <1>4, <1>5, <2>1 DEF CmdInv, Initializing, Remapping
<1>7. ReadyInv'
  <2>1. ASSUME NEW e \in Known
        PROVE  pinned[e.path] # None \/ cmd'[e.path].step = "clone"
    BY <1>2, <1>3, <1>4 DEF InIndex
  <2> QED
    BY <1>1, <1>5, <2>1 DEF ReadyInv, AfterUnstage, AfterInitialize, Ended
<1> QED
  BY <1>5, <1>6, <1>7 DEF IInv

LEMMA initializeStep ==
  ASSUME IInv, Passes, initializeSubmodules
  PROVE  IInv'
<1> DEFINE empty == {p \in DOMAIN moduleStatuses : moduleStatuses[p].status = "uninitialized"}
<1>1. /\ Answered /\ stage = 2 /\ pc' = "initialize" /\ cwd' = Root /\ UNCHANGED newSubmodules
      /\ cmd' = [p \in Paths |-> IF p \in empty THEN InitializeCommand(p) ELSE NoCommand]
      /\ UNCHANGED <<pinned, gitmodules, staged, config, work, missing, ignored, files,
                     gitSubmodules, retries, stage, moduleStatuses, snapshot, outcome, faults,
                     edits>>
  BY DEF Passes, initializeSubmodules, syncCwd, repository, settings, answers
<1>2. /\ DOMAIN moduleStatuses = InIndex /\ newSubmodules \subseteq Paths
      /\ \A p \in InIndex : pinned[p] # None /\ gitmodules[p] # None
      /\ \A p \in InIndex : p \in empty <=> config[p] = None \/ work[p] = None
      /\ \A e \in Known : e.path \in InIndex
  <2>1. \A e \in Known : e.path \in Paths /\ pinned[e.path] # None
    BY <1>1, KnownType
    DEF Answered, IInv, ReadyInv, AfterUnstage, TypeInv, ScriptTypes
  <2> QED
    BY <1>1, <2>1 DEF Answered, IInv, StatusInv, InIndex, TypeInv, ScriptTypes
<1> HIDE DEF empty
<1>3. /\ CmdTypes'
      /\ \A p \in Paths :
           /\ ~cmd'[p].locked /\ cmd'[p].step \in Initializing \cup {"none"}
           /\ p \in empty <=> cmd'[p].step \in Initializing
           /\ cmd'[p].step = "checkout" => config[p] \in Urls
  BY <1>1 DEF CmdTypes, InitializeCommand, Command, NoCommand, Going, Initializing
<1>4. /\ TypeInv' /\ LockInv' /\ PhaseInv' /\ SettingsInv' /\ StatusInv' /\ UnstagedInv'
      /\ Known' = Known
  BY <1>1, <1>2, <1>3, PassStep
<1>5. CmdInv'
  BY <1>1, <1>2, <1>3, <1>4 DEF CmdInv, Adding, Initializing, Remapping, empty
<1>6. ReadyInv'
  <2>1. \A e \in Known : /\ e.path \in Paths /\ pinned[e.path] # None
                         /\ (config[e.path] # None /\ work[e.path] # None)
                            \/ cmd'[e.path].step \in Initializing
    BY <1>2, <1>3 DEF InIndex
  <2> QED
    BY <1>1, <1>4, <2>1 DEF ReadyInv, AfterUnstage, AfterInitialize, Ended
<1> QED
  BY <1>4, <1>5, <1>6 DEF IInv

LEMMA updateRemotesStep ==
  ASSUME IInv, Passes, updateRemotes
  PROVE  IInv'
<1> DEFINE moved == {p \in Configured \cap DOMAIN moduleStatuses :
                       moduleStatuses[p].url # UrlFor(p)}
<1>1. /\ Answered /\ stage = 3 /\ pc' = "update" /\ cwd' = Root /\ UNCHANGED newSubmodules
      /\ cmd' = [p \in Paths |-> IF p \in moved THEN Command("remap", UrlFor(p)) ELSE NoCommand]
      /\ UNCHANGED <<pinned, gitmodules, staged, config, work, missing, ignored, files,
                     gitSubmodules, retries, stage, moduleStatuses, snapshot, outcome, faults,
                     edits>>
  BY DEF Passes, updateRemotes, syncCwd, repository, settings, answers
<1>2. /\ gitSubmodules \in Seq(Entry) \cup {None} /\ gitSubmodules # None
      /\ \A e, f \in Known : e.path = f.path => e = f
      /\ newSubmodules \subseteq Paths
  BY <1>1 DEF Answered, IInv, SettingsInv, TypeInv, ScriptTypes
<1>3. /\ \A e \in Known : e.path \in Paths /\ UrlFor(e.path) = e.url /\ e.path \in Configured
      /\ \A p \in Configured : p \in Paths /\ UrlFor(p) \in Urls /\ Setting(p, UrlFor(p)) \in Known
  BY <1>2, UrlForIs, KnownType
<1>4. /\ \A p \in DOMAIN moduleStatuses : gitmodules[p] # None
      /\ \A e \in Known : /\ pinned[e.path] # None /\ config[e.path] # None /\ work[e.path] # None
                         /\ e.path \in DOMAIN moduleStatuses
                         /\ moduleStatuses[e.path].url = work[e.path].url
  <2>1. \A e \in Known : pinned[e.path] # None /\ config[e.path] # None /\ work[e.path] # None
    BY <1>1 DEF Answered, IInv, ReadyInv, AfterUnstage, AfterInitialize
  <2> QED
    BY <1>1, <1>3, <2>1 DEF Answered, IInv, StatusInv, InIndex
<1>5. moved \subseteq Configured /\ moved \subseteq DOMAIN moduleStatuses
      /\ \A e \in Known : e.path \in moved \/ work[e.path].url = e.url
  BY <1>3, <1>4
<1> HIDE DEF moved
<1>6. /\ CmdTypes'
      /\ \A p \in Paths : /\ ~cmd'[p].locked /\ cmd'[p].step \in {"none", "remap"}
                          /\ p \in moved <=> cmd'[p].step = "remap"
                          /\ p \in moved => cmd'[p].url = UrlFor(p)
  BY <1>1, <1>3, <1>5 DEF CmdTypes, Command, NoCommand, Going, Remapping
<1>7. /\ TypeInv' /\ LockInv' /\ PhaseInv' /\ SettingsInv' /\ StatusInv' /\ UnstagedInv'
      /\ Known' = Known
  BY <1>1, <1>2, <1>6, PassStep
<1>8. CmdInv'
  <2>1. ASSUME NEW p \in Paths, cmd'[p].step \in Adding \cup Remapping
        PROVE  Setting(p, cmd'[p].url) \in Known /\ gitmodules[p] # None
    BY <1>3, <1>4, <1>5, <1>6, <2>1 DEF Adding, Remapping
  <2> QED
    BY <1>1, <1>6, <1>7, <2>1 DEF CmdInv, Initializing
<1>9. ReadyInv'
  BY <1>1, <1>3, <1>4, <1>5, <1>6, <1>7
  DEF ReadyInv, AfterUnstage, AfterInitialize, Ended, Remapping
<1> QED
  BY <1>7, <1>8, <1>9 DEF IInv

LEMMA AwaitsAllStep ==
  ASSUME IInv, AwaitsAll
  PROVE  IInv'
<1>1. /\ UNCHANGED <<pinned, gitmodules, staged, config, work, missing, cmd, ignored, files,
                     gitSubmodules, retries, moduleStatuses, snapshot, cwd, newSubmodules, faults,
                     edits>>
      /\ pc \in {"add", "initialize", "update"} /\ outcome = "running"
  BY DEF AwaitsAll, AwaitNext, repository, settings, answers, IInv, PhaseInv
<1>2. Known' = Known /\ \A e \in Known : e.path \in Paths
  BY <1>1, KnownType DEF Known, Entries, IInv, TypeInv, ScriptTypes
<1>3. CASE Fails /\ UNCHANGED stage
  <2>1. TypeInv'
    BY <1>1, <1>3 DEF IInv, TypeInv, GitTypes, CmdTypes, ScriptTypes, Fails
  <2>2. LockInv' /\ CmdInv'
    BY <1>1, <1>2 DEF IInv, LockInv, CmdInv
  <2>3. PhaseInv'
    BY <1>1, <1>3 DEF IInv, PhaseInv, Fails
  <2>4. SettingsInv' /\ StatusInv' /\ ReadyInv' /\ UnstagedInv'
    BY <1>3 DEF SettingsInv, StatusInv, ReadyInv, UnstagedInv, AfterUnstage, AfterInitialize, Ended, Fails
  <2> QED
    BY <2>1, <2>2, <2>3, <2>4 DEF IInv
<1>4. CASE (\A p \in Paths : cmd[p].step \in {"none", "done"}) /\ AwaitNext
  <2>1. Quiet
    BY <1>4 DEF Quiet, Going, Adding, Initializing, Remapping
  <2>2. \/ pc = "add" /\ pc' = "unstage" /\ UNCHANGED <<stage, outcome>>
        \/ pc = "initialize" /\ pc' = "status" /\ stage' = 3 /\ UNCHANGED outcome
        \/ pc = "update" /\ pc' = "ended" /\ outcome' = "done" /\ UNCHANGED stage
    BY <1>4 DEF AwaitNext
  <2>3. pc = "add" => stage = 1
    BY DEF IInv, PhaseInv
  <2>4. GitTypes' /\ ScriptTypes'
    BY <1>1, <2>2 DEF IInv, TypeInv, GitTypes, ScriptTypes
  <2>5. TypeInv' /\ LockInv' /\ PhaseInv' /\ CmdInv'
    BY <1>1, <2>1, <2>2, <2>3, <2>4, QuietStep
  <2>6. SettingsInv'
    BY <1>1, <1>2, <2>2 DEF IInv, SettingsInv
  <2>7. StatusInv'
    BY <2>2 DEF StatusInv
  <2>8. ReadyInv'
    <3>1. \A e \in Known : cmd[e.path].step \in {"none", "done"}
      BY <1>2, <1>4
    <3>2. CASE pc = "add"
      <4>1. \A e \in Known : pinned[e.path] # None
        BY <3>1, <3>2 DEF IInv, ReadyInv
      <4> QED
        BY <1>1, <1>2, <2>2, <2>3, <3>2, <4>1 DEF ReadyInv, AfterUnstage, AfterInitialize, Ended
    <3>3. CASE pc = "initialize"
      <4>1. \A e \in Known : pinned[e.path] # None /\ config[e.path] # None /\ work[e.path] # None
        BY <3>1, <3>3 DEF IInv, ReadyInv, AfterUnstage, Initializing
      <4> QED
        BY <1>1, <1>2, <2>2, <3>3, <4>1 DEF ReadyInv, AfterUnstage, AfterInitialize, Ended
    <3>4. CASE pc = "update"
      <4>1. \A e \in Known : /\ pinned[e.path] # None /\ config[e.path] # None
                             /\ work[e.path] # None /\ work[e.path].url = e.url
        BY <3>1, <3>4 DEF IInv, ReadyInv, AfterUnstage, AfterInitialize, Remapping
      <4> QED
        BY <1>1, <1>2, <2>2, <3>4, <4>1 DEF ReadyInv, AfterUnstage, AfterInitialize, Ended
    <3> QED
      BY <1>1, <3>2, <3>3, <3>4
  <2>9. UnstagedInv'
    BY <1>1, <2>2, <2>3 DEF IInv, UnstagedInv, AfterUnstage, Ended
  <2> QED
    BY <2>5, <2>6, <2>7, <2>8, <2>9 DEF IInv
<1> QED
  BY <1>3, <1>4 DEF AwaitsAll

LEMMA unstageStep ==
  ASSUME IInv, unstageGitModulesFile
  PROVE  IInv'
<1>1. /\ pc = "unstage" /\ outcome = "running"
      /\ \/ Fails /\ UNCHANGED <<staged, stage>>
         \/ staged' = FALSE /\ pc' = "status" /\ stage' = 2 /\ UNCHANGED outcome
      /\ UNCHANGED <<pinned, gitmodules, config, work, missing, cmd, ignored, files,
                     gitSubmodules, retries, moduleStatuses, snapshot, cwd, newSubmodules, faults,
                     edits>>
  BY DEF unstageGitModulesFile, Unstaged, GoesOn, settings, answers, IInv, PhaseInv
<1>2. Known' = Known
  BY <1>1 DEF Known, Entries
<1>3. GitTypes' /\ ScriptTypes'
  <2>1. staged \in BOOLEAN /\ stage \in 1..3
    BY DEF IInv, TypeInv, GitTypes, ScriptTypes
  <2>2. staged' \in BOOLEAN
    BY <1>1, <2>1, Zenon
  <2>3. stage' \in 1..3 /\ pc' \in {"status", "ended"} /\ outcome' \in {"running", "failed"}
    BY <1>1, <2>1 DEF Fails
  <2>4. GitTypes'
    BY <1>1, <2>2 DEF IInv, TypeInv, GitTypes
  <2>5. ScriptTypes'
    BY <1>1, <2>3 DEF IInv, TypeInv, ScriptTypes
  <2> QED
    BY <2>4, <2>5
<1>4. TypeInv' /\ LockInv' /\ PhaseInv' /\ CmdInv'
  <2>1. Quiet
    BY <1>1, QuietPhases
  <2> QED
    BY <1>1, <1>3, <2>1, QuietStep DEF Fails
<1>5. SettingsInv' /\ StatusInv' /\ ReadyInv'
  BY <1>1, <1>2
  DEF IInv, SettingsInv, StatusInv, ReadyInv, AfterUnstage, AfterInitialize, Ended, Fails
<1>6. UnstagedInv'
  BY <1>1 DEF UnstagedInv, AfterUnstage, Ended, Fails
<1> QED
  BY <1>4, <1>5, <1>6 DEF IInv

LEMMA ExitsStep ==
  ASSUME IInv, Exits
  PROVE  IInv'
<1>1. /\ pc = "ended" /\ pc' = "idle" /\ cmd' = [p \in Paths |-> NoCommand]
      /\ UNCHANGED <<pinned, gitmodules, staged, config, work, missing, ignored, files,
                     gitSubmodules, retries, stage, moduleStatuses, snapshot, cwd, newSubmodules,
                     outcome, faults, edits>>
  BY DEF Exits, repository, settings, answers
<1>2. CmdTypes' /\ \A p \in Paths : cmd'[p].step = "none" /\ ~cmd'[p].locked
  BY <1>1 DEF CmdTypes, NoCommand
<1>3. TypeInv'
  BY <1>1, <1>2 DEF IInv, TypeInv, GitTypes, ScriptTypes
<1>4. LockInv' /\ PhaseInv' /\ CmdInv'
  BY <1>1, <1>2 DEF LockInv, PhaseInv, CmdInv, Going, Adding, Initializing, Remapping
<1>5. SettingsInv' /\ StatusInv' /\ ReadyInv' /\ UnstagedInv'
  BY <1>1
  DEF SettingsInv, StatusInv, ReadyInv, UnstagedInv, AfterUnstage, AfterInitialize, Ended
<1> QED
  BY <1>3, <1>4, <1>5 DEF IInv

\* Only commits change.
SameUrls == /\ \A q \in Paths : work'[q] = None <=> work[q] = None
            /\ \A q \in Paths : work[q] # None => work'[q].url = work[q].url

\* What the developer does: it is between two runs, or only a commit changes.
LEMMA DevelopsStep ==
  ASSUME IInv, Develops
  PROVE  IInv'
<1>1. UNCHANGED <<pinned, gitmodules, staged, config, cmd, ignored, gitSubmodules, retries, pc,
                  stage, moduleStatuses, snapshot, cwd, newSubmodules, outcome, faults>>
  BY DEF Develops, answers
<1>2. edits' \in 0..MaxEdits
  BY SettingsAssumption DEF Develops, IInv, TypeInv, ScriptTypes
<1>3. files' \in [default : DefaultFiles, override : OverrideFiles]
  BY DEF Develops, IInv, TypeInv, ScriptTypes
<1>4. GitTypes
  BY DEF IInv, TypeInv
<1>5. /\ work' \in [Paths -> Checkouts \cup {None}]
      /\ missing' \subseteq Paths /\ \A p \in missing' : work'[p] = None
      /\ pc = "idle" \/ SameUrls
  <2>1. ASSUME NEW p \in Paths, NEW c \in Commits, work[p] # None,
               work' = [work EXCEPT ![p].commit = c], UNCHANGED missing
        PROVE  <1>5!:
    <3>1. \A w \in Checkouts : /\ [w EXCEPT !.commit = c] \in Checkouts
                              /\ [w EXCEPT !.commit = c].url = w.url /\ w # None
      BY GitAssumption DEF Checkouts
    <3>2. work[p] \in Checkouts /\ work' = [work EXCEPT ![p] = [work[p] EXCEPT !.commit = c]]
      BY <1>4, <2>1 DEF GitTypes
    <3> DEFINE w == [work[p] EXCEPT !.commit = c]
    <3>3. w \in Checkouts /\ w.url = work[p].url /\ w # None
      BY <3>1, <3>2
    <3> HIDE DEF w
    <3>4. work'[p] = w /\ \A q \in Paths \ {p} : work'[q] = work[q]
      BY <1>4, <3>2 DEF GitTypes, w
    <3> QED
      BY <1>4, <2>1, <3>2, <3>3, <3>4 DEF GitTypes, SameUrls, w
  <2>2. ASSUME NEW p \in InIndex, pc = "idle", work' = [work EXCEPT ![p] = None],
               missing' \in {missing, missing \cup {p}}
        PROVE  <1>5!:
    BY <1>4, <2>2 DEF GitTypes, InIndex
  <2>3. CASE UNCHANGED <<work, missing>>
    BY <1>4, <2>3 DEF GitTypes, SameUrls
  <2> QED
    BY <2>1, <2>2, <2>3 DEF Develops
<1>6. GitTypes' /\ ScriptTypes'
  BY <1>1, <1>2, <1>3, <1>4, <1>5 DEF IInv, TypeInv, GitTypes, ScriptTypes
<1>7. Known' = Known /\ InIndex' = InIndex
  BY <1>1 DEF Known, Entries, InIndex
<1>8. TypeInv' /\ LockInv' /\ PhaseInv' /\ SettingsInv' /\ UnstagedInv'
  <2>1. TypeInv' /\ LockInv'
    BY <1>1, <1>6 DEF IInv, TypeInv, CmdTypes, LockInv
  <2>2. PhaseInv' /\ SettingsInv' /\ UnstagedInv'
    BY <1>1, <1>7 DEF IInv, PhaseInv, SettingsInv, UnstagedInv, AfterUnstage, Ended
  <2> QED
    BY <2>1, <2>2
<1>9. CmdInv'
  <2>1. CASE pc = "idle"
    BY <1>1, <1>7, <2>1 DEF IInv, PhaseInv, CmdInv, Adding, Initializing, Remapping
  <2>2. CASE SameUrls
    <3>1. \A q \in Paths : work[q] # None => work'[q] # None
      BY <2>2 DEF SameUrls
    <3>2. CmdInv
      BY DEF IInv
    <3> QED
      BY <1>1, <1>7, <3>1, <3>2 DEF CmdInv
  <2> QED
    BY <1>5, <2>1, <2>2
<1>10. StatusInv' /\ ReadyInv'
  <2>1. CASE pc = "idle"
    BY <1>1, <2>1 DEF StatusInv, ReadyInv, AfterUnstage, AfterInitialize, Ended
  <2>2. CASE SameUrls
    <3>0. /\ DOMAIN moduleStatuses \subseteq Paths /\ StatusInv /\ ReadyInv
          /\ \A q \in Paths : work'[q] = None <=> work[q] = None
          /\ \A q \in Paths : work[q] # None => work'[q].url = work[q].url
      BY <2>2 DEF SameUrls, IInv, TypeInv, ScriptTypes
    <3>1. StatusInv'
      BY <1>1, <1>7, <3>0 DEF StatusInv
    <3>2. \A e \in Known : e.path \in Paths
      BY KnownType DEF IInv, TypeInv, ScriptTypes
    <3>3. ReadyInv'
      BY <1>1, <1>7, <3>0, <3>2 DEF ReadyInv, AfterUnstage, AfterInitialize, Ended
    <3> QED
      BY <3>1, <3>3
  <2> QED
    BY <1>5, <2>1, <2>2
<1> QED
  BY <1>8, <1>9, <1>10 DEF IInv

LEMMA NextStep == IInv /\ [Next]_vars => IInv'
<1> SUFFICES ASSUME IInv, [Next]_vars
             PROVE  IInv'
  OBVIOUS
<1>1. CASE Starts
  BY <1>1, StartsStep
<1>2. CASE Script
  BY <1>2, getRepoFileStep, EnqueueStep, createSubmoduleFileStep, getSubmoduleStatusStep,
     addMissingStep, initializeStep, updateRemotesStep, AwaitsAllStep, unstageStep, ExitsStep,
     getRemoteStep, RemoteAnswersStep
  DEF Script, Passes
<1>3. CASE \E p \in Paths : CommandRuns(p)
  BY <1>3, CommandStep
<1>4. CASE Develops
  BY <1>4, DevelopsStep
<1>5. CASE UNCHANGED vars
  <2>1. UNCHANGED <<pinned, gitmodules, staged, config, work, missing, cmd, ignored, files,
                    gitSubmodules, retries, pc, stage, moduleStatuses, snapshot, cwd,
                    newSubmodules, outcome, faults, edits>>
    BY <1>5 DEF vars, settings, answers, repository
  <2>2. Known' = Known /\ InIndex' = InIndex
    BY <2>1 DEF Known, Entries, InIndex
  <2>3. TypeInv'
    BY <2>1 DEF IInv, TypeInv, GitTypes, CmdTypes, ScriptTypes
  <2>4. LockInv' /\ PhaseInv' /\ CmdInv'
    BY <2>1, <2>2 DEF IInv, LockInv, PhaseInv, CmdInv
  <2>5. SettingsInv' /\ StatusInv' /\ UnstagedInv'
    BY <2>1, <2>2 DEF IInv, SettingsInv, StatusInv, UnstagedInv, AfterUnstage, Ended
  <2>6. ReadyInv'
    BY <2>1, <2>2 DEF IInv, ReadyInv, AfterUnstage, AfterInitialize, Ended
  <2> QED
    BY <2>3, <2>4, <2>5, <2>6 DEF IInv
<1> QED
  BY <1>1, <1>2, <1>3, <1>4, <1>5 DEF Next

-----------------------------------------------------------------------------
(* Theorems                                                                 *)

LEMMA AlwaysIInv == Spec => []IInv
BY InitIInv, NextStep, PTL DEF Spec

\* Types, and that commands only run between their start and the end of the
\* process, in every state of the submodule script.
THEOREM TypeCorrect == Spec => []TypeOK
<1>1. IInv => TypeOK
  <2> SUFFICES ASSUME IInv
               PROVE  TypeOK
    OBVIOUS
  <2>1. GitTypes /\ CmdTypes /\ ScriptTypes
    BY DEF IInv, TypeInv
  <2>2. GitTypeOK
    <3>1. cmd \in [Paths -> [step : Steps, url : Urls \cup {None}, locked : BOOLEAN]]
      BY <2>1, FollowingIs DEF CmdTypes, Steps
    <3>2. \A p \in Paths : cmd[p].locked => cmd[p].step \in DOMAIN FileOf
      BY FileOfIs DEF IInv, LockInv
    <3>3. \A p, q \in Paths : cmd[p].locked /\ HoldsLock(q, FileOf[cmd[p].step]) => p = q
      BY DEF IInv, LockInv, HoldsLock
    <3> QED
      BY <2>1, <3>1, <3>2, <3>3 DEF GitTypeOK, GitTypes
  <2>3. (\E p \in Paths : running(p)) => pc \in {"add", "initialize", "update", "ended"}
    BY FollowingIs DEF running, IInv, PhaseInv, Going
  <2> QED
    BY <2>1, <2>2, <2>3 DEF TypeOK, ScriptTypes, Entry
<1> QED
  BY <1>1, AlwaysIInv, PTL

\* The url noted for a submodule is the origin of that submodule, although one
\* process with one directory asks all of them.
THEOREM RemotesAreOwn == Spec => []RemoteIsOwn
<1>1. IInv => RemoteIsOwn
  BY DEF IInv, StatusInv, RemoteIsOwn, RemoteIn
<1> QED
  BY <1>1, AlwaysIInv, PTL

\* When init() ends well, every submodule of the settings is in the index,
\* registered and checked out, from the url of the settings.
THEOREM DoneMeansReady == Spec => []DoneIsReady
<1>1. IInv => DoneIsReady
  <2> SUFFICES ASSUME IInv, pc = "ended", outcome = "done", NEW e \in Entries
               PROVE  /\ e.path \in InIndex /\ config[e.path] # None
                      /\ work[e.path] # None /\ work[e.path].url = e.url
    BY DEF DoneIsReady
  <2>1. e \in Known /\ e.path \in Paths
    BY KnownType DEF Known, Ended, IInv, SettingsInv, TypeInv, ScriptTypes
  <2> QED
    BY <2>1 DEF IInv, ReadyInv, AfterUnstage, AfterInitialize, Ended, InIndex
<1> QED
  BY <1>1, AlwaysIInv, PTL

\* ... and .gitmodules is not left in the index, to be committed by accident.
THEOREM DoneMeansUnstaged == Spec => []DoneIsUnstaged
<1>1. IInv => DoneIsUnstaged
  BY DEF IInv, UnstagedInv, AfterUnstage, Ended, DoneIsUnstaged
<1> QED
  BY <1>1, AlwaysIInv, PTL

\* No step of a run but the developer's moves the commit of a submodule whose
\* status git did not give as uninitialized.  (The commands of another run that
\* lost the lock of .git/config may leave a checkout git calls uninitialized;
\* the theorem does not say that its commit stays.)
THEOREM CheckoutsKept == Spec => KeepsCheckouts
<1> DEFINE Kept == pc # "idle" /\ edits' = edits => \A p \in DOMAIN moduleStatuses :
                     moduleStatuses[p].status # "uninitialized" /\ work[p] # None =>
                       work'[p] # None /\ work'[p].commit = work[p].commit
<1>1. IInv /\ [Next]_vars => [Kept]_vars
  <2> SUFFICES ASSUME IInv, [Next]_vars, pc # "idle", edits' = edits,
                      NEW p \in DOMAIN moduleStatuses,
                      moduleStatuses[p].status # "uninitialized", work[p] # None
               PROVE  work'[p] # None /\ work'[p].commit = work[p].commit
    OBVIOUS
  <2>0. p \in Paths /\ GitTypes
    BY DEF IInv, TypeInv, ScriptTypes
  <2>1. CASE UNCHANGED work
    BY <2>1
  <2>2. CASE \E q \in Paths : Writes(q)
    <3>1. PICK q \in Paths : Writes(q)
      BY <2>2
    <3>2. \/ UNCHANGED work
          \/ work' = [work EXCEPT ![q] = [work[q] EXCEPT !.url = gitmodules[q]]] /\ work[q] # None
             /\ gitmodules[q] # None
      BY <3>1 DEF Writes, IInv, CmdInv, Remapping
    <3>3. CASE work' = [work EXCEPT ![q] = [work[q] EXCEPT !.url = gitmodules[q]]] /\ work[q] # None
               /\ gitmodules[q] # None
      <4>1. \A w \in Checkouts, u \in Urls : /\ [w EXCEPT !.url = u] \in Checkouts
                                          /\ [w EXCEPT !.url = u].commit = w.commit
        BY DEF Checkouts
      <4>2. CASE p = q
        BY <2>0, <3>3, <4>1, <4>2, GitAssumption DEF GitTypes
      <4>3. CASE p # q
        BY <2>0, <3>3, <4>3 DEF GitTypes
      <4> QED
        BY <4>2, <4>3
    <3> QED
      BY <2>1, <3>2, <3>3
  <2>3. CASE \E q \in Paths : Clones(q)
    BY <2>0, <2>3 DEF Clones, GitTypes
  <2>4. CASE \E q \in Paths : ChecksOut(q)
    <3>1. PICK q \in Paths : ChecksOut(q)
      BY <2>4
    <3>2. p # q
      BY <3>1 DEF ChecksOut, IInv, CmdInv, Initializing
    <3> QED
      BY <2>0, <3>1, <3>2 DEF ChecksOut, GitTypes
  <2> QED
    <3>1. CASE Script \/ Starts \/ UNCHANGED vars
      BY <2>1, <3>1
      DEF Script, Starts, getRepoFile, Enqueue, Retry, createSubmoduleFile, getSubmoduleStatus,
          Passes, AwaitsAll, unstageGitModulesFile, Unstaged, Exits, getRemote, RemoteAnswers,
          vars, repository
    <3>2. CASE \E q \in Paths : CommandRuns(q)
      BY <2>1, <2>2, <2>3, <2>4, <3>2
      DEF CommandRuns, GitStep, TakesLock, FindsLock, CannotClone, repository
    <3>3. ~Develops
      BY DEF Develops, IInv, TypeInv, ScriptTypes
    <3> QED
      BY <3>1, <3>2, <3>3 DEF Next
<1> QED
  BY <1>1, AlwaysIInv, PTL DEF Spec, KeepsCheckouts

\* README.md:18: without .gitignore, no run ends well in a clone whose index has
\* every submodule already, so that nothing is added.
THEOREM IgnoredIsNeeded == Spec => UnignoredFails
<1> DEFINE Unignored == ~ignored /\ InIndex = Paths
           UInv == /\ ~ignored /\ InIndex = Paths /\ staged = FALSE /\ stage = 1
                   /\ pc \notin {"initialize", "update"} /\ outcome # "done"
                   /\ \A p \in Paths : cmd[p].step \in {"none", "done", "failed"}
<1>1. Init /\ Unignored => UInv
  BY DEF Init, NoCommand
<1>2. IInv /\ UInv /\ [Next]_vars => UInv'
  <2> SUFFICES ASSUME IInv, UInv, [Next]_vars
               PROVE  UInv'
    OBVIOUS
  <2>1. CASE UNCHANGED vars
    BY <2>1 DEF vars, repository, settings, answers, InIndex
  <2>2. CASE \E p \in Paths : CommandRuns(p)
    BY <2>2, FollowingIs, FileOfIs, EntryOfCommand
    DEF CommandRuns, GitStep, CannotClone, TakesLock, FindsLock, Writes, Clones, ChecksOut,
        WritesNext, IInv, LockInv, Going, Adding, Initializing, Remapping
  <2>3. CASE Starts \/ Develops
    BY <2>3 DEF Starts, Develops, repository, InIndex
  <2>4. CASE Enqueue \/ Retry \/ getRepoFile
    BY <2>4 DEF Enqueue, Retry, getRepoFile, repository, InIndex, Fails, IInv, TypeInv, ScriptTypes
  <2>5. CASE createSubmoduleFile \/ getSubmoduleStatus
    BY <2>5 DEF createSubmoduleFile, getSubmoduleStatus, repository, settings, InIndex, Fails
  <2>6. CASE \E p \in DOMAIN snapshot : getRemote(p) \/ RemoteAnswers(p)
    BY <2>6 DEF getRemote, RemoteAnswers, repository, settings, InIndex, Fails
  <2>7. CASE Passes
    <3>1. addMissingSubmodules /\ Answered
      BY <2>7 DEF Passes, addMissingSubmodules, initializeSubmodules, updateRemotes
    <3>2. DOMAIN moduleStatuses = Paths /\ Configured \subseteq Paths
      <4>1. gitSubmodules \in Seq(Entry) /\ Known = Entries
        BY <3>1 DEF Answered, IInv, TypeInv, ScriptTypes, SettingsInv, Known
      <4>2. Configured \subseteq Paths
        BY <4>1, KnownType DEF Configured
      <4> QED
        BY <3>1, <4>2 DEF Answered, IInv, StatusInv
    <3>3. \A p \in Paths : cmd'[p].step = "none"
      BY <3>1, <3>2 DEF addMissingSubmodules, NoCommand
    <3> QED
      BY <2>7, <3>1, <3>3 DEF addMissingSubmodules, Passes, repository, InIndex
  <2>8. CASE AwaitsAll
    BY <2>8 DEF AwaitsAll, AwaitNext, Fails, repository, InIndex
  <2>9. CASE unstageGitModulesFile
    BY <2>9 DEF unstageGitModulesFile, Unstaged, Fails, InIndex
  <2>10. CASE Exits
    BY <2>10 DEF Exits, NoCommand, repository, InIndex
  <2> QED
    BY <2>1, <2>2, <2>3, <2>4, <2>5, <2>6, <2>7, <2>8, <2>9, <2>10 DEF Next, Script
<1>3. UInv => outcome # "done"
  OBVIOUS
<1> QED
  BY <1>1, <1>2, <1>3, AlwaysIInv, PTL DEF Spec, UnignoredFails
=============================================================================
