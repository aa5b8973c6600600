-------------------------- MODULE YatiInstallProofs --------------------------
(***************************************************************************)
(* Theorems about YatiInstall, for every set of versions and contents and  *)
(* any number of attempts and faults.                                      *)
(***************************************************************************)
EXTENDS YatiInstall, TLAPS

-----------------------------------------------------------------------------
(* Types *)

LEMMA Init_Type == Init => TypeOK
  <1> SUFFICES ASSUME Init PROVE TypeOK
    OBVIOUS
  <1> USE YatiInstallAssumption DEF Init, Version
  <1>1. \A s \in Storage : db[s] \subseteq Version
    OBVIOUS
  <1>2. content \in [Storage -> SUBSET Content]
    BY <1>1 DEF Content
  <1>3. db \in [Storage -> SUBSET Version]
    OBVIOUS
  <1>4. record \in (Version \X Storage) \cup {NoRecord}
    OBVIOUS
  <1>5. job \in Job
    BY DEF Job, Storage
  <1> QED BY <1>2, <1>3, <1>4, <1>5 DEF TypeOK, Storage

(* Up to where every content of the package is in its placeholder *)
LEMMA Installing_Type ==
    ASSUME TypeOK,
           \/ \E j \in Job : Begin(j)
           \/ \E c \in Content : Skip(c) \/ CreatePlaceHolder(c) \/ Fill(c)
           \/ Installed \/ Check \/ ImportTickets
    PROVE  TypeOK'
  <1> USE DEF TypeOK, consoleVars, ncaVars, removeVars, countVars, Goto
  <1>0. \A j \in Job : Contents[j.version] \subseteq Content /\ Meta[j.version] \in Content
    BY YatiInstallAssumption DEF Content, Job
  <1>1. ASSUME NEW j \in Job, Begin(j) PROVE TypeOK'
    <2>1. job' \in Job /\ job'.version = j.version
      BY <1>1 DEF Begin, Job
    <2> QED BY <1>0, <1>1, <2>1, YatiInstallAssumption DEF Begin
  <1>2. ASSUME NEW c \in Content, Skip(c) \/ CreatePlaceHolder(c) \/ Fill(c) PROVE TypeOK'
    BY <1>2 DEF Skip, CreatePlaceHolder, Fill
  <1>3. CASE Installed \/ ImportTickets
    BY <1>3 DEF Installed, ImportTickets, Storage
  <1>4. CASE Check
    <2>1. faults' \in 0 .. MaxFaults
      BY <1>4, YatiInstallAssumption DEF Check, Fault
    <2> QED BY <1>0, <1>4, <2>1 DEF Check, version
  <1> QED BY <1>1, <1>2, <1>3, <1>4

LEMMA Removing_Type ==
    ASSUME TypeOK,
           \/ List \/ NextKey \/ (\E c \in Content : DeleteContent(c)) \/ RemoveKey
           \/ CommitRemoval
    PROVE  TypeOK'
  <1> USE DEF TypeOK, consoleVars, ncaVars, removeVars, countVars, Goto
  <1>1. CASE List \/ RemoveKey
    BY <1>1 DEF List, RemoveKey
  <1>2. CASE NextKey
    <2>1. ToRegister \subseteq Content
      BY DEF ToRegister, Content, version, Job
    <2> QED BY <1>2, <2>1 DEF NextKey, Storage
  <1>3. ASSUME NEW c \in Content, DeleteContent(c) PROVE TypeOK'
    <2>1. Users(where, c) \subseteq Storage \X Version
      BY DEF Users
    <2> QED BY <1>3, <2>1 DEF DeleteContent
  <1>4. CASE CommitRemoval
    <2>1. torn' \subseteq torn /\ disk' \in [Storage -> SUBSET Version]
      BY <1>4 DEF CommitRemoval, Committed
    <2> QED BY <1>4, <2>1 DEF CommitRemoval
  <1> QED BY <1>1, <1>2, <1>3, <1>4

LEMMA Registering_Type ==
    ASSUME TypeOK,
           \/ \E c \in Content : DeleteForRegister(c) \/ Register(c)
           \/ Registered \/ Set \/ Commit
           \/ PushApplicationRecord \/ PushLaunchVersion \/ Cleanup \/ Return
    PROVE  TypeOK'
  <1> USE DEF TypeOK, consoleVars, ncaVars, removeVars, countVars, Goto
  <1>0. version \in Version /\ target \in Storage
    BY DEF version, target, Job
  <1>1. ASSUME NEW c \in Content, DeleteForRegister(c) \/ Register(c) PROVE TypeOK'
    <2>1. whole' \subseteq place'
      BY <1>1 DEF DeleteForRegister, Register
    <2> QED BY <1>0, <1>1, <2>1 DEF DeleteForRegister, Register
  <1>2. CASE Registered \/ Set \/ PushApplicationRecord \/ PushLaunchVersion
             \/ Cleanup \/ Return
    BY <1>0, <1>2 DEF Registered, Set, PushApplicationRecord, PushLaunchVersion,
                      Cleanup, Return
  <1>3. CASE Commit
    <2>1. torn' \subseteq torn /\ disk' \in [Storage -> SUBSET Version]
      BY <1>3 DEF Commit, Committed
    <2> QED BY <1>3, <2>1 DEF Commit
  <1> QED BY <1>1, <1>2, <1>3

(* What a failed call leaves alone: all but where the attempt goes on. *)
LEMMA CallFails ==
    ASSUME Call
    PROVE  /\ UNCHANGED <<consoleVars, job, ncaVars, removeVars, torn, attempts>>
           /\ pc' = "cleanup" /\ outcome' = "fail"
           /\ faults < MaxFaults /\ faults' = faults + 1
           /\ \E f \in Faults : f = "commit" \/ pc \notin {"commit_removal", "set", "commit"}
  BY DEF Call, Fails, Fault, Goto

LEMMA Next_Type == TypeOK /\ [Next]_vars => TypeOK'
  <1> SUFFICES ASSUME TypeOK, [Next]_vars PROVE TypeOK'
    OBVIOUS
  <1> USE YatiInstallAssumption
      DEF TypeOK, consoleVars, ncaVars, removeVars, countVars
  <1>1. CASE Call
    BY <1>1, CallFails
  <1>2. CASE Crash
    BY <1>2 DEF Crash, Fault, Goto
  <1>3. CASE Rest \/ UNCHANGED vars
    BY <1>3 DEF Rest, vars
  <1> QED BY <1>1, <1>2, <1>3, Installing_Type, Removing_Type, Registering_Type
          DEF Next

(* Every variable stays within its type. *)
THEOREM TypeCorrect == Spec => []TypeOK
  BY Init_Type, Next_Type, PTL DEF Spec

-----------------------------------------------------------------------------
(* The contents of the package *)

(* The contents that are dealt with before the check *)
Needed == IF pc = "cnmt" \/ (pc = "check" /\ ~job.stream) THEN {Meta[version]}
          ELSE Contents[version]

Removing == {"list", "next", "remove", "commit_removal"}

(* The contents of the package are still to be installed, complete in a    *)
(* placeholder, or in the storage already; when removal starts, none is to *)
(* be installed any more, and removal leaves the third kind alone.         *)
Gathered ==
    /\ pc = "cnmt" => ~job.stream
    /\ pc \in {"cnmt", "ncas"} => Needed \subseteq todo \cup whole \cup skipped
    /\ pc \in {"check", "ticket"} \cup Removing => Needed \subseteq whole \cup skipped
    /\ pc \in {"cnmt", "ncas", "check", "ticket"} \cup Removing
          => skipped \subseteq content[target]
    /\ pc = "register" => /\ todo \subseteq whole
                          /\ Contents[version] \ todo \subseteq content[target]
    /\ pc \in {"set", "commit", "push", "launch"}
          => Contents[version] \subseteq content[target]

LEMMA Init_Gathered == Init => Gathered
  BY DEF Init, Gathered, Removing

LEMMA Next_Gathered == TypeOK /\ Gathered /\ [Next]_vars => Gathered'
  <1> SUFFICES ASSUME TypeOK, Gathered, [Next]_vars PROVE Gathered'
    OBVIOUS
  <1> USE DEF TypeOK, Gathered, Needed, Removing, version, target, consoleVars,
              ncaVars, removeVars, countVars, Goto
  <1>1. ASSUME NEW j \in Job, Begin(j) PROVE Gathered'
    <2>1. /\ job'.version = j.version /\ job'.stream = j.stream
          /\ pc' = IF j.stream THEN "ncas" ELSE "cnmt"
          /\ todo' = IF j.stream THEN Contents[j.version] ELSE {Meta[j.version]}
          /\ skipped' = {}
      BY <1>1 DEF Begin, Job
    <2> QED BY <2>1 DEF Job
  <1>2. ASSUME NEW c \in Content, Skip(c) \/ CreatePlaceHolder(c) \/ Fill(c)
        PROVE  Gathered'
    BY <1>2 DEF Skip, CreatePlaceHolder, Fill, Has
  <1>3. CASE Installed
    BY <1>3 DEF Installed
  <1>4. CASE Check
    <2>1. Contents[version] \subseteq {Meta[version]} \cup (Contents[version] \ {Meta[version]})
      OBVIOUS
    <2> QED BY <1>4, <2>1 DEF Check
  <1>5. CASE ImportTickets \/ List \/ RemoveKey \/ CommitRemoval
    BY <1>5 DEF ImportTickets, List, RemoveKey, CommitRemoval
  <1>6. CASE NextKey
    BY <1>6 DEF NextKey, ToRegister
  <1>7. ASSUME NEW c \in Content, DeleteContent(c) PROVE Gathered'
    BY <1>7 DEF DeleteContent, ToDelete
  <1>8. ASSUME NEW c \in Content, DeleteForRegister(c) \/ Register(c) PROVE Gathered'
    BY <1>8 DEF DeleteForRegister, Register, Turn, Job
  <1>9. CASE Registered
    BY <1>9 DEF Registered, AllRegistered
  <1>10. CASE Set \/ Commit \/ PushApplicationRecord \/ PushLaunchVersion \/ Cleanup
              \/ Return
    BY <1>10 DEF Set, Commit, PushApplicationRecord, PushLaunchVersion, Cleanup,
                 Return
  <1>11. CASE Call \/ Crash
    BY <1>11, CallFails DEF Crash
  <1>12. CASE Rest \/ UNCHANGED vars
    BY <1>12 DEF Rest, vars
  <1> QED BY <1>1, <1>2, <1>3, <1>4, <1>5, <1>6, <1>7, <1>8, <1>9, <1>10, <1>11,
             <1>12 DEF Next

LEMMA GatheredInvariant == Spec => []Gathered
  <1>1. Spec => []TypeOK
    BY TypeCorrect
  <1> QED BY <1>1, Init_Gathered, Next_Gathered, PTL DEF Spec

(* A content is deleted only in the removal and just before its successor  *)
(* is registered.                                                          *)
LEMMA Deletions ==
    ASSUME TypeOK, [Next]_vars, NEW s \in Storage, content[s] \ content'[s] # {}
    PROVE  \E c \in Content : DeleteContent(c) \/ DeleteForRegister(c)
  <1> USE DEF TypeOK, consoleVars
  <1>1. (\E c \in Content : Register(c)) => content[s] \subseteq content'[s]
    BY DEF Register
  <1> QED BY <1>1, CallFails
     DEF Next, vars, Begin, Skip, CreatePlaceHolder, Fill, Installed, Check,
         ImportTickets, List, NextKey, RemoveKey, CommitRemoval, Registered, Set,
         Commit, PushApplicationRecord, PushLaunchVersion, Cleanup, Return, Crash,
         Rest

(* Nothing that was installed is deleted before all of the new version is  *)
(* at hand, whatever fails and wherever an earlier attempt was cut off.    *)
THEOREM NothingRemovedTooEarly == Spec => ReadyBeforeRemoval
  <1> DEFINE Shrinks == \E s \in Storage : content[s] \ content'[s] # {}
             Ready == Contents[version] \subseteq whole' \cup content'[target]
  <1>1. ASSUME TypeOK, Gathered, [Next]_vars, Shrinks
        PROVE  Ready
    <2>1. PICK c \in Content : DeleteContent(c) \/ DeleteForRegister(c)
      BY <1>1, Deletions
    <2>2. CASE DeleteContent(c)
      BY <1>1, <2>2 DEF TypeOK, Gathered, Removing, Needed, DeleteContent, ToDelete,
                        ncaVars, target, version
    <2>3. CASE DeleteForRegister(c)
      BY <1>1, <2>3 DEF TypeOK, Gathered, DeleteForRegister, Turn, ncaVars, target,
                        version
    <2> QED BY <2>1, <2>2, <2>3
  <1>2. TypeOK /\ Gathered /\ [Next]_vars => [Shrinks => Ready]_vars
    BY <1>1
  <1> QED BY <1>2, TypeCorrect, GatheredInvariant, PTL DEF Spec, ReadyBeforeRemoval

-----------------------------------------------------------------------------
(* Downgrades *)

(* A database that could not be listed is not compared, so nothing of the  *)
(* kind holds when listing may fail.                                       *)
ListingWorks == "list" \notin Faults

(* Once the check has let the package pass, nothing newer is installed, or *)
(* the user wants it so, and what is removed was listed after the check.   *)
Allowed(versions) == job.allow_downgrade \/ \A v \in versions : v <= version

Compared ==
    /\ pc \in {"ticket"} \cup Removing \/ (pc = "ncas" /\ ~job.stream)
          => \A s \in Storage : Allowed(db[s])
    /\ pc \in {"next", "remove", "commit_removal"} => Allowed(keys)
    /\ pc = "remove" => Allowed({key})

LEMMA Next_Compared ==
    ListingWorks /\ TypeOK /\ Gathered /\ Compared /\ [Next]_vars => Compared'
  <1> SUFFICES ASSUME ListingWorks, TypeOK, Gathered, Compared, [Next]_vars
               PROVE  Compared'
    OBVIOUS
  <1> USE DEF TypeOK, Compared, Allowed, Removing, version, consoleVars, ncaVars,
              removeVars, countVars, Goto
  <1>1. ASSUME NEW j \in Job, Begin(j) PROVE Compared'
    BY <1>1 DEF Begin, Job
  <1>2. ASSUME NEW c \in Content,
               Skip(c) \/ CreatePlaceHolder(c) \/ Fill(c) \/ DeleteContent(c)
                  \/ DeleteForRegister(c) \/ Register(c)
        PROVE  Compared'
    BY <1>2 DEF Skip, CreatePlaceHolder, Fill, DeleteContent, DeleteForRegister,
                Register
  <1>3. CASE Installed
    BY <1>3 DEF Installed, Gathered
  <1>4. CASE Check
    <2>1. PICK seen \in SUBSET Storage :
             /\ seen = Storage
             /\ \/ pc' = "cleanup"
                \/ ~ShouldSkip(seen) /\ pc' = IF job.stream THEN "ticket" ELSE "ncas"
      BY <1>4 DEF Check, Fault, ListingWorks
    <2>2. UNCHANGED <<db, job>>
      BY <1>4 DEF Check
    <2>3. pc' = "cleanup" \/ \A s \in Storage : Allowed(db[s])
      <3>1. ASSUME ~ShouldSkip(seen), NEW s \in Storage, NEW v \in db[s],
                   ~job.allow_downgrade
            PROVE  v <= version
        <4>1. ~(version < v)
          BY <2>1, <3>1 DEF ShouldSkip
        <4>2. version \in Nat /\ v \in Nat
          BY DEF Version, Job
        <4> QED BY <4>1, <4>2
      <3> QED BY <2>1, <3>1
    <2> QED BY <1>4, <2>1, <2>2, <2>3 DEF Check
  <1>5. CASE ImportTickets \/ List \/ NextKey \/ RemoveKey \/ CommitRemoval
    BY <1>5 DEF ImportTickets, List, NextKey, RemoveKey, CommitRemoval
  <1>6. CASE Registered \/ Set \/ Commit \/ PushApplicationRecord \/ PushLaunchVersion
             \/ Cleanup \/ Return
    BY <1>6 DEF Registered, Set, Commit, PushApplicationRecord, PushLaunchVersion,
                Cleanup, Return
  <1>7. CASE Call \/ Crash
    BY <1>7, CallFails DEF Crash
  <1>8. CASE Rest \/ UNCHANGED vars
    BY <1>8 DEF Rest, vars
  <1> QED BY <1>1, <1>2, <1>3, <1>4, <1>5, <1>6, <1>7, <1>8 DEF Next

(* A key leaves a database only in the removal, or because power is lost.  *)
LEMMA Removals ==
    ASSUME TypeOK, [Next]_vars, NEW s \in Storage, NEW k \in db[s] \ db'[s]
    PROVE  db' = disk \/ (pc = "remove" /\ k = key)
  <1> USE DEF TypeOK, consoleVars
  <1>1. Set => db[s] \subseteq db'[s]
    BY DEF Set
  <1>2. RemoveKey => pc = "remove" /\ (k = key \/ k \in db'[s])
    BY DEF RemoveKey
  <1> QED BY <1>1, <1>2, CallFails
     DEF Next, vars, Begin, Skip, CreatePlaceHolder, Fill, Installed, Check,
         ImportTickets, List, NextKey, DeleteContent, CommitRemoval,
         DeleteForRegister, Register, Registered, Commit, PushApplicationRecord,
         PushLaunchVersion, Cleanup, Return, Crash, Rest

(* A newer version is removed only when the user allowed it: between the   *)
(* check and the removal no key appears that was not compared.             *)
THEOREM NewerVersionsStay ==
    ASSUME ListingWorks
    PROVE  Spec => NoDowngrade
  <1> DEFINE Kept == \A s \in Storage : \A k \in db[s] \ db'[s] :
                        job.allow_downgrade \/ k <= version \/ db' = disk
  <1>1. Init => Compared
    BY DEF Init, Compared, Removing
  <1>2. TypeOK /\ Compared /\ [Next]_vars => [Kept]_vars
    <2>1. SUFFICES ASSUME TypeOK, Compared, [Next]_vars,
                          NEW s \in Storage, NEW k \in db[s] \ db'[s], db' # disk
                   PROVE  job.allow_downgrade \/ k <= version
      OBVIOUS
    <2>2. pc = "remove" /\ k = key
      BY <2>1, Removals
    <2> QED BY <2>1, <2>2 DEF Compared, Allowed
  <1>3. TypeOK /\ Gathered /\ Compared /\ [Next]_vars => Compared'
    BY Next_Compared
  <1> QED BY <1>1, <1>2, <1>3, TypeCorrect, GatheredInvariant, PTL DEF Spec, NoDowngrade

-----------------------------------------------------------------------------
(* Databases and commits *)

(* A key that was removed and whose commit failed is on disk still, while  *)
(* its contents are gone and the attempt goes on to another step.          *)
CommitWorks == "commit" \notin Faults

(* The storage whose database differs from its last commit, if any does *)
Uncommitted(s) == (pc = "commit_removal" /\ s = where) \/ (pc = "commit" /\ s = target)

OnlyTheNew == [s \in Storage |-> IF s = target THEN {version} ELSE {}]

(* The removal leaves no key behind, so a content that is deleted to be    *)
(* registered again belongs to no listed version.                          *)
Emptied ==
    /\ \A s \in Storage : ~Uncommitted(s) => disk[s] = db[s]
    /\ pc = "commit_removal" => disk[where] \subseteq db[where] \cup {key}
    /\ pc \in Removing /\ where = "sd" => db["nand"] = {}
    /\ pc \in {"next", "commit_removal"} => db[where] \subseteq keys
    /\ pc = "remove" => db[where] \subseteq keys \cup {key}
    /\ pc \in {"register", "set"} => \A s \in Storage : db[s] = {}
    /\ pc \in {"commit", "push", "launch"} => db = OnlyTheNew
    /\ pc = "commit" => disk[target] = {}

(* What an attempt that succeeded has done *)
Succeeded ==
    /\ pc = "launch" => record = <<version, target>>
    /\ pc \in {"cleanup", "done"} /\ outcome = "ok" =>
          /\ db = OnlyTheNew
          /\ record = <<version, target>>
          /\ Contents[version] \subseteq content[target]

InstallInv == TypeOK /\ Gathered /\ Emptied /\ Succeeded /\ ListedIsWhole

LEMMA Next_Emptied ==
    CommitWorks /\ TypeOK /\ Emptied /\ [Next]_vars => Emptied'
  <1> SUFFICES ASSUME CommitWorks, TypeOK, Emptied, [Next]_vars PROVE Emptied'
    OBVIOUS
  <1> USE DEF TypeOK, Emptied, Uncommitted, Removing, OnlyTheNew, version, target,
              consoleVars, ncaVars, removeVars, countVars, Goto
  <1>1. ASSUME NEW j \in Job, Begin(j) PROVE Emptied'
    BY <1>1 DEF Begin
  <1>2. ASSUME NEW c \in Content,
               Skip(c) \/ CreatePlaceHolder(c) \/ Fill(c) \/ DeleteContent(c)
                  \/ DeleteForRegister(c) \/ Register(c)
        PROVE  Emptied'
    BY <1>2 DEF Skip, CreatePlaceHolder, Fill, DeleteContent, DeleteForRegister,
                Register
  <1>3. CASE Installed \/ Check \/ ImportTickets \/ List
    BY <1>3 DEF Installed, Check, ImportTickets, List
  <1>4. CASE NextKey
    BY <1>4 DEF NextKey, Storage
  <1>5. CASE RemoveKey
    BY <1>5 DEF RemoveKey
  <1>6. CASE CommitRemoval
    BY <1>6 DEF CommitRemoval, Committed
  <1>7. CASE Registered
    BY <1>7 DEF Registered
  <1>8. CASE Set
    <2>1. /\ pc = "set" /\ pc' = "commit"
          /\ db' = [db EXCEPT ![target] = @ \cup {version}]
          /\ UNCHANGED <<disk, job, where, keys, key>>
      BY <1>8 DEF Set
    <2>2. \A s \in Storage : db[s] = {} /\ disk[s] = {}
      BY <2>1
    <2>3. db' = OnlyTheNew
      BY <2>1, <2>2
    <2> QED BY <2>1, <2>2, <2>3 DEF Job
  <1>9. CASE Commit
    BY <1>9 DEF Commit, Committed
  <1>10. CASE PushApplicationRecord \/ PushLaunchVersion \/ Cleanup \/ Return
    BY <1>10 DEF PushApplicationRecord, PushLaunchVersion, Cleanup, Return
  <1>11. CASE Call
    <2>1. pc \notin {"commit_removal", "set", "commit"}
      BY <1>11, CallFails DEF CommitWorks
    <2> QED BY <1>11, <2>1, CallFails
  <1>12. CASE Crash
    BY <1>12 DEF Crash
  <1>13. CASE Rest \/ UNCHANGED vars
    BY <1>13 DEF Rest, vars
  <1> QED BY <1>1, <1>2, <1>3, <1>4, <1>5, <1>6, <1>7, <1>8, <1>9, <1>10, <1>11,
             <1>12, <1>13 DEF Next

LEMMA Next_Succeeded ==
    TypeOK /\ Gathered /\ Emptied /\ Succeeded /\ [Next]_vars => Succeeded'
  <1> SUFFICES ASSUME TypeOK, Gathered, Emptied, Succeeded, [Next]_vars
               PROVE  Succeeded'
    OBVIOUS
  <1> USE DEF Succeeded, OnlyTheNew, version, target, consoleVars, ncaVars,
              removeVars, countVars, Goto
  <1>1. ASSUME NEW c \in Content,
               Skip(c) \/ CreatePlaceHolder(c) \/ Fill(c) \/ DeleteContent(c)
                  \/ DeleteForRegister(c) \/ Register(c)
        PROVE  Succeeded'
    BY <1>1 DEF Skip, CreatePlaceHolder, Fill, DeleteContent, DeleteForRegister,
                Register
  <1>2. CASE (\E j \in Job : Begin(j)) \/ Installed \/ Check \/ ImportTickets \/ List
             \/ NextKey \/ RemoveKey \/ CommitRemoval \/ Registered \/ Set \/ Commit
    BY <1>2 DEF Begin, Installed, Check, ImportTickets, List, NextKey, RemoveKey,
                CommitRemoval, Registered, Set, Commit
  <1>3. CASE PushApplicationRecord
    BY <1>3 DEF PushApplicationRecord
  <1>4. CASE PushLaunchVersion
    BY <1>4 DEF PushLaunchVersion, Emptied, Gathered
  <1>5. CASE Cleanup \/ Return
    BY <1>5 DEF Cleanup, Return
  <1>6. CASE Call \/ Crash
    BY <1>6, CallFails DEF Crash
  <1>7. CASE Rest \/ UNCHANGED vars
    BY <1>7 DEF Rest, vars
  <1> QED BY <1>1, <1>2, <1>3, <1>4, <1>5, <1>6, <1>7 DEF Next

(* A commit forgets what was torn of the keys that are gone. *)
LEMMA Commit_Listed ==
    ASSUME TypeOK, ListedIsWhole, NEW s \in Storage, Committed(s),
           UNCHANGED <<content, db>>
    PROVE  ListedIsWhole'
  <1> SUFFICES ASSUME NEW r \in Storage, NEW v \in db[r] \cup disk'[r],
                      <<r, v>> \notin torn'
               PROVE  Contents[v] \subseteq content[r]
    BY DEF ListedIsWhole
  <1>1. v \in db[r] \cup disk[r] /\ <<r, v>> \notin torn
    BY DEF TypeOK, Committed
  <1> QED BY <1>1 DEF ListedIsWhole

LEMMA Next_Listed ==
    CommitWorks /\ TypeOK /\ Gathered /\ Emptied /\ ListedIsWhole /\ [Next]_vars
        => ListedIsWhole'
  <1> SUFFICES ASSUME CommitWorks, TypeOK, Gathered, Emptied, ListedIsWhole,
                      [Next]_vars
               PROVE  ListedIsWhole'
    OBVIOUS
  <1>0. TypeOK'
    BY Next_Type
  <1>1. CASE UNCHANGED <<content, db, disk, torn>>
    BY <1>1 DEF ListedIsWhole
  <1>2. ASSUME NEW c \in Content, DeleteContent(c) PROVE ListedIsWhole'
    <2> SUFFICES ASSUME NEW s \in Storage, NEW v \in db[s] \cup disk[s],
                        <<s, v>> \notin torn'
                 PROVE  Contents[v] \subseteq content'[s]
      BY <1>2 DEF DeleteContent, ListedIsWhole
    <2>1. /\ content' = [content EXCEPT ![where] = @ \ {c}]
          /\ torn' = torn \cup Users(where, c)
      BY <1>2 DEF DeleteContent
    <2>2. v \in Version /\ Contents[v] \subseteq content[s]
      BY <2>1 DEF TypeOK, ListedIsWhole
    <2>3. s = where => c \notin Contents[v]
      BY <2>1, <2>2 DEF Users
    <2> QED BY <2>1, <2>2, <2>3 DEF TypeOK
  <1>3. CASE RemoveKey
    <2>1. /\ \A s \in Storage : db'[s] \subseteq db[s]
          /\ UNCHANGED <<content, disk, torn>>
      BY <1>3 DEF RemoveKey, TypeOK
    <2> QED BY <2>1 DEF ListedIsWhole
  <1>4. CASE CommitRemoval
    BY <1>4, Commit_Listed DEF CommitRemoval, TypeOK
  <1>5. ASSUME NEW c \in Content, DeleteForRegister(c) \/ Register(c)
        PROVE  ListedIsWhole'
    <2>1. pc = "register" /\ UNCHANGED <<db, disk>>
      BY <1>5 DEF DeleteForRegister, Register
    <2>2. \A s \in Storage : db[s] = {} /\ disk[s] = {}
      BY <2>1 DEF Emptied, Uncommitted
    <2> QED BY <2>1, <2>2 DEF ListedIsWhole
  <1>6. CASE Set
    <2>1. /\ pc = "set" /\ UNCHANGED <<content, disk, torn>>
          /\ db' = [db EXCEPT ![target] = @ \cup {version}]
      BY <1>6 DEF Set
    <2>2. /\ \A s \in Storage : db[s] = {} /\ disk[s] = {}
          /\ Contents[version] \subseteq content[target]
      BY <2>1 DEF Emptied, Uncommitted, Gathered
    <2> QED BY <2>1, <2>2 DEF ListedIsWhole, TypeOK
  <1>7. CASE Commit
    BY <1>7, Commit_Listed DEF Commit, TypeOK, target, Job
  <1>8. CASE Crash
    <2>1. db' = disk /\ UNCHANGED <<content, disk, torn>>
      BY <1>8 DEF Crash
    <2> QED BY <2>1 DEF ListedIsWhole
  <1> USE DEF consoleVars
  <1>9. ASSUME NEW c \in Content, Skip(c) \/ CreatePlaceHolder(c) \/ Fill(c)
        PROVE  ListedIsWhole'
    BY <1>1, <1>9 DEF Skip, CreatePlaceHolder, Fill
  <1>10. CASE (\E j \in Job : Begin(j)) \/ Installed \/ Check \/ ImportTickets \/ List
              \/ NextKey \/ Registered
    BY <1>1, <1>10 DEF Begin, Installed, Check, ImportTickets, List, NextKey, Registered
  <1>11. CASE PushApplicationRecord \/ PushLaunchVersion \/ Cleanup \/ Return \/ Call
              \/ Rest \/ UNCHANGED vars
    BY <1>1, <1>11, CallFails DEF PushApplicationRecord, PushLaunchVersion, Cleanup,
                                  Return, Rest, vars
  <1> QED BY <1>2, <1>3, <1>4, <1>5, <1>6, <1>7, <1>8, <1>9, <1>10, <1>11 DEF Next

LEMMA InstallInvariant ==
    ASSUME CommitWorks
    PROVE  Spec => []InstallInv
  <1>1. Init => Emptied /\ Succeeded /\ ListedIsWhole
    <2> SUFFICES ASSUME Init PROVE Emptied /\ Succeeded /\ ListedIsWhole
      OBVIOUS
    <2>1. Emptied /\ Succeeded
      BY DEF Init, Emptied, Uncommitted, Removing, Succeeded
    <2>2. ASSUME NEW s \in Storage, NEW v \in db[s] \cup disk[s]
          PROVE  Contents[v] \subseteq content[s]
      BY DEF Init
    <2> QED BY <2>1, <2>2 DEF ListedIsWhole
  <1>2. TypeOK /\ Gathered /\ Emptied /\ Succeeded /\ ListedIsWhole /\ [Next]_vars
            => Emptied' /\ Succeeded' /\ ListedIsWhole'
    BY Next_Emptied, Next_Succeeded, Next_Listed
  <1> QED BY <1>1, <1>2, TypeCorrect, GatheredInvariant, PTL DEF Spec, InstallInv

(* A listed version has all its contents, save one whose removal was under *)
(* way, whatever call fails and whenever power is lost.                    *)
THEOREM ListedVersionsAreWhole ==
    ASSUME CommitWorks
    PROVE  Spec => []ListedIsWhole
  BY InstallInvariant, PTL DEF InstallInv

(* Success means that this version, and no other, is installed for good,   *)
(* whole, and that the record points to it.                                *)
THEOREM SuccessMeansInstalled ==
    ASSUME CommitWorks
    PROVE  Spec => []SuccessIsInstalled
  <1>1. InstallInv => SuccessIsInstalled
    <2> SUFFICES ASSUME InstallInv, pc = "done", outcome = "ok"
                 PROVE  /\ disk = OnlyTheNew
                        /\ Contents[version] \subseteq content[target]
                        /\ record = <<version, target>>
      BY DEF SuccessIsInstalled, OnlyTheNew
    <2>1. db = OnlyTheNew /\ record = <<version, target>>
          /\ Contents[version] \subseteq content[target]
      BY DEF InstallInv, Succeeded
    <2>2. \A s \in Storage : disk[s] = db[s]
      BY DEF InstallInv, Emptied, Uncommitted
    <2>3. disk = db
      BY <2>2 DEF InstallInv, TypeOK
    <2> QED BY <2>1, <2>3
  <1> QED BY <1>1, InstallInvariant, PTL

=============================================================================
