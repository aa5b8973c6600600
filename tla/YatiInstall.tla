----------------------------- MODULE YatiInstall -----------------------------
(***************************************************************************)
(* The install of an update: InstallInternal and InstallInternalStream of  *)
(* source/yati/yati.cpp, against the content storages, the content meta    *)
(* databases and the application record of the console.                    *)
(*                                                                         *)
(* The versions of one update are installed in attempts, each of which may *)
(* fail at any call and be cut off at any step.  Versions may share        *)
(* contents.  How the data of one content gets into its placeholder is one *)
(* step; the threads that do it are those of ThreadedTransfer.             *)
(***************************************************************************)
EXTENDS Naturals, FiniteSets

CONSTANTS
    MaxVersion,
    Contents,        (* Contents[v]: the content ids of version v          *)
    Meta,            (* Meta[v]: that of its cnmt                          *)
    Faults,          (* the calls that may fail, and "crash"               *)
    MaxFaults,       (* bound: how often                                   *)
    MaxAttempts      (* bound: installs                                    *)

Version == 1 .. MaxVersion
Storage == {"nand", "sd"}
Content == UNION {Contents[v] : v \in Version}

ASSUME YatiInstallAssumption ==
    /\ MaxVersion \in Nat \ {0}
    /\ DOMAIN Contents = Version /\ DOMAIN Meta = Version
    /\ \A v \in Version : Meta[v] \in Contents[v]
    /\ Faults \subseteq {"install", "list", "check", "ticket", "remove",
                         "register", "commit", "record", "crash"}
    /\ MaxFaults \in Nat /\ MaxAttempts \in Nat

VARIABLES
    content,         (* of each storage: the registered contents           *)
    db,              (* the versions its meta database lists ...           *)
    disk,            (* ... and as of its last commit                      *)
    record,          (* ApplicationRecord: version and storage             *)
    pc,
    job,             (* package, target and settings of the attempt        *)
    todo,            (* contents that are still to be installed            *)
    place, whole,    (* placeholders that exist; that are complete         *)
    skipped,         (* contents that were not installed again             *)
    where, keys, key, (* removal: storage, listed keys left, key at hand   *)
    outcome,
    torn,            (* history: keys whose contents a removal has touched *)
    attempts, faults

consoleVars == <<content, db, disk, record>>
ncaVars     == <<todo, place, whole, skipped>>
removeVars  == <<where, keys, key>>
countVars   == <<attempts, faults>>
vars == <<consoleVars, pc, job, ncaVars, removeVars, outcome, torn, countVars>>

Job == [version : Version, target : Storage, stream : BOOLEAN,
        skip : BOOLEAN, ticket_only : BOOLEAN, allow_downgrade : BOOLEAN]

NoRecord == <<0, "nand">>

TypeOK ==
    /\ content \in [Storage -> SUBSET Content]
    /\ db \in [Storage -> SUBSET Version]
    /\ disk \in [Storage -> SUBSET Version]
    /\ record \in (Version \X Storage) \cup {NoRecord}
    /\ pc \in {"idle", "cnmt", "ncas", "check", "ticket", "list", "next",
               "remove", "commit_removal", "register", "set", "commit", "push",
               "launch", "cleanup", "done"}
    /\ job \in Job
    /\ todo \subseteq Content /\ place \subseteq Content
    /\ whole \subseteq place /\ skipped \subseteq Content
    /\ where \in Storage /\ keys \subseteq Version /\ key \in Version
    /\ outcome \in {"none", "ok", "skip", "fail"}
    /\ torn \subseteq Storage \X Version
    /\ attempts \in 0 .. MaxAttempts /\ faults \in 0 .. MaxFaults

(* Nothing is installed, or a version in one of the storages or in both    *)
Init ==
    /\ db \in [Storage -> {{}} \cup {{v} : v \in Version}]
    /\ disk = db
    /\ content = [s \in Storage |-> UNION {Contents[v] : v \in db[s]}]
    /\ record \in {r \in Version \X Storage : r[1] \in db[r[2]]}
                  \cup {NoRecord}
    /\ record = NoRecord <=> \A s \in Storage : db[s] = {}
    /\ pc = "idle"
    /\ job = [version |-> 1, target |-> "sd", stream |-> FALSE, skip |-> FALSE,
              ticket_only |-> FALSE, allow_downgrade |-> FALSE]
    /\ todo = {} /\ place = {} /\ whole = {} /\ skipped = {}
    /\ where = "nand" /\ keys = {} /\ key = 1
    /\ outcome = "none" /\ torn = {} /\ attempts = 0 /\ faults = 0

Goto(p) == pc' = p
target == job.target
version == job.version

(* A call of kind f fails, and with it the attempt. *)
Fault(f) == f \in Faults /\ faults < MaxFaults /\ faults' = faults + 1

Fails(f, places) ==
    /\ pc \in places
    /\ Fault(f)
    /\ outcome' = "fail"
    /\ Goto("cleanup")
    /\ UNCHANGED <<consoleVars, job, ncaVars, removeVars, torn, attempts>>

-----------------------------------------------------------------------------
(* InstallCnmtNca, InstallNca *)

(* Setup.  A stream install never skips a title, and takes the contents in *)
(* the order of the package; the other one starts with the cnmt.           *)
Begin(j) ==
    /\ pc = "idle" /\ attempts < MaxAttempts
    /\ job' = IF j.stream THEN [j EXCEPT !.skip = FALSE] ELSE j
    /\ todo' = IF j.stream THEN Contents[j.version] ELSE {Meta[j.version]}
    /\ skipped' = {}
    /\ outcome' = "none"
    /\ attempts' = attempts + 1
    /\ Goto(IF j.stream THEN "ncas" ELSE "cnmt")
    /\ UNCHANGED <<consoleVars, place, whole, removeVars, torn, faults>>

(* Mutant: contents of either storage are skipped. *)
HasAnywhere(c) == (job.skip \/ job.ticket_only)
                  /\ \E s \in Storage : c \in content[s]

(* ncmContentStorageHas *)
Has(c) == (job.skip \/ job.ticket_only) /\ c \in content[target]

Skip(c) ==
    /\ pc \in {"cnmt", "ncas"}
    /\ c \in todo \ place /\ Has(c)
    /\ skipped' = skipped \cup {c}
    /\ todo' = todo \ {c}
    /\ UNCHANGED <<consoleVars, pc, job, place, whole, removeVars, outcome,
                   torn, countVars>>

(* One content after the other. *)
CreatePlaceHolder(c) ==
    /\ pc \in {"cnmt", "ncas"}
    /\ c \in todo \ place /\ ~Has(c)
    /\ place \subseteq whole
    /\ place' = place \cup {c}
    /\ UNCHANGED <<consoleVars, pc, job, todo, whole, skipped, removeVars,
                   outcome, torn, countVars>>

(* The threads have written the data, and the hash is right. *)
Fill(c) ==
    /\ pc \in {"cnmt", "ncas"}
    /\ c \in todo \cap place
    /\ whole' = whole \cup {c}
    /\ todo' = todo \ {c}
    /\ UNCHANGED <<consoleVars, pc, job, place, skipped, removeVars, outcome,
                   torn, countVars>>

(* The cnmt is looked at before the contents it names are installed, in a  *)
(* stream after them.                                                      *)
Installed ==
    /\ pc \in {"cnmt", "ncas"} /\ todo = {}
    /\ Goto(IF pc = "cnmt" \/ job.stream THEN "check" ELSE "ticket")
    /\ UNCHANGED <<consoleVars, job, ncaVars, removeVars, outcome, torn,
                   countVars>>

-----------------------------------------------------------------------------
(* GetLatestVersion, ShouldSkip *)

(* Mutant: the databases are not compared with the package. *)
NeverSkip(seen) == FALSE

(* seen: the storages whose database could be listed; a failure to list is *)
(* passed over.                                                            *)
ShouldSkip(seen) ==
    \/ \E s \in seen : \E k \in db[s] :
          \/ job.skip /\ k = version
          \/ ~job.allow_downgrade /\ version < k
    \/ job.skip /\ version \in db[target]

Check ==
    /\ pc = "check"
    /\ \E seen \in SUBSET Storage :
          /\ \/ seen = Storage /\ UNCHANGED faults
             \/ seen # Storage /\ Fault("list")
          /\ \/ /\ ShouldSkip(seen)
                /\ outcome' = "skip"
                /\ Goto("cleanup")
                /\ UNCHANGED todo
             \/ /\ ~ShouldSkip(seen)
                /\ Goto(IF job.stream THEN "ticket" ELSE "ncas")
                /\ todo' = IF job.stream THEN {}
                           ELSE Contents[version] \ {Meta[version]}
                /\ UNCHANGED outcome
    /\ UNCHANGED <<consoleVars, job, place, whole, skipped, removeVars, torn,
                   attempts>>

ImportTickets ==
    /\ pc = "ticket"
    /\ where' = "nand"
    /\ Goto("list")
    /\ UNCHANGED <<consoleVars, job, ncaVars, keys, key, outcome, torn,
                   countVars>>

-----------------------------------------------------------------------------
(* RemoveInstalledNcas *)

List ==
    /\ pc = "list"
    /\ keys' = db[where]
    /\ Goto("next")
    /\ UNCHANGED <<consoleVars, job, ncaVars, where, key, outcome, torn,
                   countVars>>

ToRegister == Contents[version] \ skipped

NextKey ==
    /\ pc = "next"
    /\ \/ /\ keys # {}
          /\ key' \in keys
          /\ keys' = keys \ {key'}
          /\ Goto("remove")
          /\ UNCHANGED <<where, todo>>
       \/ /\ keys = {} /\ where = "nand"
          /\ where' = "sd"
          /\ Goto("list")
          /\ UNCHANGED <<keys, key, todo>>
       \/ /\ keys = {} /\ where = "sd"
          /\ todo' = ToRegister
          /\ Goto("register")
          /\ UNCHANGED removeVars
    /\ UNCHANGED <<consoleVars, job, place, whole, skipped, outcome, torn,
                   countVars>>

(* Mutant: what the package will use again is deleted too. *)
AllOfIt == content[where] \cap Contents[key]

(* The contents of the key, save those that were skipped *)
ToDelete == (content[where] \cap Contents[key]) \ skipped

Users(s, c) == {<<s, v>> : v \in {u \in Version : c \in Contents[u]}}

(* ncm::Delete *)
DeleteContent(c) ==
    /\ pc = "remove" /\ c \in ToDelete
    /\ content' = [content EXCEPT ![where] = @ \ {c}]
    /\ torn' = torn \cup Users(where, c)
    /\ UNCHANGED <<db, disk, record, pc, job, ncaVars, removeVars, outcome,
                   countVars>>

(* ncmContentMetaDatabaseRemove *)
RemoveKey ==
    /\ pc = "remove" /\ ToDelete = {}
    /\ db' = [db EXCEPT ![where] = @ \ {key}]
    /\ Goto("commit_removal")
    /\ UNCHANGED <<content, disk, record, job, ncaVars, removeVars, outcome,
                   torn, countVars>>

(* A commit writes all that has changed. *)
Committed(s) ==
    /\ disk' = [disk EXCEPT ![s] = db[s]]
    /\ torn' = {t \in torn : t[1] = s => t[2] \in db[s]}

CommitRemoval ==
    /\ pc = "commit_removal"
    /\ Committed(where)
    /\ Goto("next")
    /\ UNCHANGED <<content, db, record, job, ncaVars, removeVars, outcome,
                   countVars>>

-----------------------------------------------------------------------------
(* RegisterNcasAndPushRecord *)

(* The cnmt goes first. *)
Turn(c) == c \in todo /\ (Meta[version] \in todo => c = Meta[version])

(* ncm::Register deletes a content of the same name ... *)
DeleteForRegister(c) ==
    /\ pc = "register" /\ Turn(c)
    /\ c \in content[target]
    /\ content' = [content EXCEPT ![target] = @ \ {c}]
    /\ UNCHANGED <<db, disk, record, pc, job, ncaVars, removeVars, outcome,
                   torn, countVars>>

(* ... and turns the placeholder into it. *)
Register(c) ==
    /\ pc = "register" /\ Turn(c)
    /\ c \in whole \ content[target]
    /\ content' = [content EXCEPT ![target] = @ \cup {c}]
    /\ place' = place \ {c} /\ whole' = whole \ {c}
    /\ todo' = todo \ {c}
    /\ UNCHANGED <<db, disk, record, pc, job, skipped, removeVars, outcome,
                   torn, countVars>>

(* Mutant: the title is listed when its cnmt is registered. *)
MetaRegistered == Meta[version] \notin todo

AllRegistered == todo = {}

Registered ==
    /\ pc = "register" /\ AllRegistered
    /\ Goto("set")
    /\ UNCHANGED <<consoleVars, job, ncaVars, removeVars, outcome, torn,
                   countVars>>

Set ==
    /\ pc = "set"
    /\ db' = [db EXCEPT ![target] = @ \cup {version}]
    /\ Goto("commit")
    /\ UNCHANGED <<content, disk, record, job, ncaVars, removeVars, outcome,
                   torn, countVars>>

Commit ==
    /\ pc = "commit"
    /\ Committed(target)
    /\ Goto("push")
    /\ UNCHANGED <<content, db, record, job, ncaVars, removeVars, outcome,
                   countVars>>

PushApplicationRecord ==
    /\ pc = "push"
    /\ record' = <<version, target>>
    /\ Goto("launch")
    /\ UNCHANGED <<content, db, disk, job, ncaVars, removeVars, outcome, torn,
                   countVars>>

(* avmPushLaunchVersion *)
PushLaunchVersion ==
    /\ pc = "launch"
    /\ outcome' = "ok"
    /\ Goto("cleanup")
    /\ UNCHANGED <<consoleVars, job, ncaVars, removeVars, torn, countVars>>

(* The placeholders that are left are deleted. *)
Cleanup ==
    /\ pc = "cleanup"
    /\ place' = {} /\ whole' = {}
    /\ Goto("done")
    /\ UNCHANGED <<consoleVars, job, todo, skipped, removeVars, outcome, torn,
                   countVars>>

Return ==
    /\ pc = "done"
    /\ Goto("idle")
    /\ UNCHANGED <<consoleVars, job, ncaVars, removeVars, outcome, torn,
                   countVars>>

-----------------------------------------------------------------------------

Call ==
    \/ Fails("install", {"cnmt", "ncas"}) \/ Fails("check", {"check"})
    \/ Fails("ticket", {"ticket"})
    \/ Fails("remove", {"list", "remove"})
    \/ Fails("register", {"register"})
    \/ Fails("commit", {"commit_removal", "set", "commit"})
    \/ Fails("record", {"push", "launch"})

(* Power is lost: what was not committed is gone.  No placeholder is ever  *)
(* used again.                                                             *)
Crash ==
    /\ Fault("crash")
    /\ db' = disk
    /\ place' = {} /\ whole' = {}
    /\ outcome' = "none"
    /\ Goto("idle")
    /\ UNCHANGED <<content, disk, record, job, todo, skipped, removeVars, torn,
                   attempts>>

(* Nobody installs any more. *)
Rest == pc = "idle" /\ attempts = MaxAttempts /\ UNCHANGED vars

Next ==
    \/ \E j \in Job : Begin(j)
    \/ \E c \in Content : Skip(c) \/ CreatePlaceHolder(c) \/ Fill(c)
    \/ Installed \/ Check \/ ImportTickets
    \/ List \/ NextKey \/ (\E c \in Content : DeleteContent(c)) \/ RemoveKey
    \/ CommitRemoval
    \/ \E c \in Content : DeleteForRegister(c) \/ Register(c)
    \/ Registered \/ Set \/ Commit
    \/ PushApplicationRecord \/ PushLaunchVersion \/ Cleanup \/ Return
    \/ Call \/ Crash \/ Rest

Spec == Init /\ [][Next]_vars

-----------------------------------------------------------------------------

(* Nothing that was installed is deleted before all of the new version is  *)
(* at hand: in a complete placeholder, or in the storage it goes to.       *)
ReadyBeforeRemoval ==
    [][(\E s \in Storage : content[s] \ content'[s] # {}) =>
          Contents[version] \subseteq whole' \cup content'[target]]_vars

(* A listed version has all its contents, also after a failure or a loss   *)
(* of power at any step, save one whose removal was under way.             *)
ListedIsWhole ==
    \A s \in Storage : \A v \in db[s] \cup disk[s] :
        Contents[v] \subseteq content[s] \/ <<s, v>> \in torn

(* An install that reports success has left its version, and no other, for *)
(* good and whole; the record points to it.                                *)
SuccessIsInstalled ==
    pc = "done" /\ outcome = "ok" =>
        /\ disk = [s \in Storage |-> IF s = target THEN {version} ELSE {}]
        /\ Contents[version] \subseteq content[target]
        /\ record = <<version, target>>

(* An install does not remove a newer version unless the user allowed it;  *)
(* only a loss of power undoes what was not committed.                     *)
NoDowngrade ==
    [][\A s \in Storage : \A k \in db[s] \ db'[s] :
          job.allow_downgrade \/ k <= version \/ db' = disk]_vars
=============================================================================
