-------------------------------- MODULE Git --------------------------------
(***************************************************************************)
(* The part of git that git-submodule-extra.mjs uses (code outside of this *)
(* repository): the index, the file .gitmodules, .git/config, the          *)
(* checkouts of the submodules, and three commands, each a process of its  *)
(* own.  A command writes a file under the file's lock; one that finds the *)
(* lock taken gives up at once, or goes on without writing where git only  *)
(* warns.                                                                  *)
(***************************************************************************)
EXTENDS Integers

CONSTANTS
  Paths, Urls, Commits,
  SuperUrl,    \* origin of the repository the submodules are in
  NoUrl,       \* in .git/config: active, but without a url
  None

Checkouts == [url : Urls, commit : Commits]

ASSUME GitAssumption ==
  /\ None \notin Paths \cup Urls \cup Commits \cup Checkouts \cup {SuperUrl}
  /\ SuperUrl \notin Urls /\ NoUrl \notin Urls \cup {None}

VARIABLES
  pinned,      \* commit of every submodule in the index; None: it is not there
  gitmodules,  \* url of every submodule in .gitmodules, or None
  staged,      \* whether .gitmodules is in the index
  config,      \* url of every submodule in .git/config, NoUrl, or None: not active
  work,        \* checkout of every submodule, [url, commit]; None: empty
  missing,     \* submodules whose directory does not exist
  cmd          \* the command that runs for every submodule

repository == <<pinned, gitmodules, staged, config, work, missing>>

NoCommand == [step |-> "none", url |-> None, locked |-> FALSE]
Command(first, url) == [step |-> first, url |-> url, locked |-> FALSE]

\* The steps of "submodule add", "submodule update --init", "submodule set-url".
Following ==
  [clone |-> "setUrl", setUrl |-> "addPath", addPath |-> "map", map |-> "addMap",
   addMap |-> "activate", activate |-> "done", register |-> "checkout", checkout |-> "done",
   remap |-> "sync", sync |-> "done"]
FileOf ==
  [setUrl |-> "config", addPath |-> "index", map |-> "gitmodules", addMap |-> "index",
   activate |-> "config", register |-> "config", remap |-> "gitmodules", sync |-> "config"]
OnlyWarns == {"setUrl", "activate", "remap"}
Steps == DOMAIN Following \cup {"none", "done", "failed"}

running(p) == cmd[p].step \in DOMAIN Following
Goes(p, step) == cmd' = [cmd EXCEPT ![p] = Command(step, cmd[p].url)]

-----------------------------------------------------------------------------
(* Steps of the commands.                                                   *)

HoldsLock(q, file) == cmd[q].locked /\ FileOf[cmd[q].step] = file
WritesNext(p) == cmd[p].step \in DOMAIN FileOf /\ ~cmd[p].locked

TakesLockAnyway(p) ==   \* mutated: nobody looks whether the lock is free
  /\ WritesNext(p) /\ cmd' = [cmd EXCEPT ![p].locked = TRUE] /\ UNCHANGED repository

TakesLock(p) ==
  /\ WritesNext(p) /\ \A q \in Paths : ~HoldsLock(q, FileOf[cmd[p].step])
  /\ cmd' = [cmd EXCEPT ![p].locked = TRUE] /\ UNCHANGED repository

FindsLock(p) ==
  /\ WritesNext(p) /\ \E q \in Paths : HoldsLock(q, FileOf[cmd[p].step])
  /\ Goes(p, IF cmd[p].step \in OnlyWarns THEN Following[cmd[p].step] ELSE "failed")
  /\ UNCHANGED repository

Writes(p) ==
  LET step == cmd[p].step  url == cmd[p].url IN
  /\ cmd[p].locked /\ Goes(p, Following[step])
  /\ pinned' = IF step = "addPath" THEN [pinned EXCEPT ![p] = work[p].commit] ELSE pinned
  /\ gitmodules' = IF step \in {"map", "remap"} THEN [gitmodules EXCEPT ![p] = url] ELSE gitmodules
  /\ staged' = (staged \/ step = "addMap")
  /\ config' = CASE step = "setUrl" -> [config EXCEPT ![p] = url]
                 [] step = "activate" /\ config[p] = None -> [config EXCEPT ![p] = NoUrl]
                 [] step \in {"register", "sync"} -> [config EXCEPT ![p] = gitmodules[p]]
                 [] OTHER -> config
  /\ work' = IF step = "sync" /\ work[p] # None
             THEN [work EXCEPT ![p].url = gitmodules[p]] ELSE work
  /\ UNCHANGED missing

\* A repository that is already there is added as it is.
Clones(p) ==
  /\ cmd[p].step = "clone" /\ Goes(p, Following["clone"]) /\ missing' = missing \ {p}
  /\ IF work[p] # None THEN UNCHANGED work
     ELSE \E c \in Commits : work' = [work EXCEPT ![p] = [url |-> cmd[p].url, commit |-> c]]
  /\ UNCHANGED <<pinned, gitmodules, staged, config>>

ChecksOut(p) ==
  /\ cmd[p].step = "checkout" /\ Goes(p, "done")
  /\ work' = [work EXCEPT ![p] = [url |-> IF @ = None THEN config[p] ELSE @.url,
                                  commit |-> pinned[p]]]
  /\ missing' = missing \ {p}
  /\ UNCHANGED <<pinned, gitmodules, staged, config>>

\* The server cannot be reached.
CannotClone(p) ==
  /\ cmd[p].step \in {"clone", "checkout"} /\ work[p] = None
  /\ Goes(p, "failed") /\ UNCHANGED repository

GitStep(p) == TakesLock(p) \/ FindsLock(p) \/ Writes(p) \/ Clones(p) \/ ChecksOut(p)

-----------------------------------------------------------------------------
(* Answers of "submodule status", "remote -v" and "status --short".         *)

InIndex == {p \in Paths : pinned[p] # None}
NoMapping == \E p \in InIndex : gitmodules[p] = None     \* "submodule status" dies
StatusOf(p) ==
  IF config[p] = None \/ work[p] = None THEN "uninitialized"
  ELSE IF work[p].commit = pinned[p] THEN "initialized" ELSE "checked out"

\* An empty directory belongs to the repository around it.
RemoteIn(dir) == IF work[dir] = None THEN SuperUrl ELSE work[dir].url

GitTypeOK ==
  /\ pinned \in [Paths -> Commits \cup {None}]
  /\ gitmodules \in [Paths -> Urls \cup {None}] /\ config \in [Paths -> Urls \cup {NoUrl, None}]
  /\ work \in [Paths -> Checkouts \cup {None}]
  /\ missing \subseteq {p \in Paths : work[p] = None} /\ staged \in BOOLEAN
  /\ cmd \in [Paths -> [step : Steps, url : Urls \cup {None}, locked : BOOLEAN]]
  /\ \A p \in Paths : cmd[p].locked => cmd[p].step \in DOMAIN FileOf
  /\ \A p, q \in Paths : cmd[p].locked /\ HoldsLock(q, FileOf[cmd[p].step]) => p = q
=============================================================================
