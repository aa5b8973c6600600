----------------------------- MODULE FileDownload -----------------------------
(***************************************************************************)
(* A download to a file with Flag_Cache: DownloadInternal and Cache of     *)
(* source/download.cpp, for the requests of one path.                      *)
(*                                                                         *)
(* The server has one version of the file at a time, and the ETag names    *)
(* it.  A file is the sequence of its blocks, and a block is named by the  *)
(* version it came from.  The program may be ended at any step, in good    *)
(* order or not; what is in memory is lost then.                           *)
(***************************************************************************)
EXTENDS Naturals, Sequences

CONSTANTS
    Worker,          (* the threads that download                          *)
    Size,            (* Size[v]: blocks of version v of the file           *)
    Untagged,        (* versions that are served without an ETag           *)
    Faults,          (* what may go wrong                                  *)
    MaxFaults,       (* bound: how often                                   *)
    Overlap,         (* two downloads of the path at the same time         *)
    TempNames        (* bound: names of temporary files before they repeat *)

Version == DOMAIN Size

ASSUME FileDownloadAssumption ==
    /\ Size \in Seq(Nat) /\ Size # <<>>
    /\ \A v \in Version : Size[v] > 0
    /\ Untagged \subseteq Version
    /\ Faults \subseteq {"create", "network", "write", "delete", "rename",
                         "json", "crash"}
    /\ MaxFaults \in Nat
    /\ Overlap \in BOOLEAN
    /\ TempNames \in Nat \ {0}

NoFile == <<0>>      (* there is no such file: no version is 0             *)
NoTag  == 0

Whole(v) == [i \in 1 .. Size[v] |-> v]

VARIABLES
    server,          (* the version the server has                         *)
    dst,             (* the file that is downloaded to                     *)
    tmp,             (* the temporary files                                *)
    count,           (* of GetDownloadTempPath                             *)
    etag,            (* Cache: what is recorded for the path, in memory    *)
    json,            (* and in etag_v2.json                                *)
    running,
    pc, name, sent,  (* of each worker: place, temporary file, the ETag it *)
    resp, off, ok,   (* sent, version of the answer, blocks got, success   *)
    faults           (* faults so far                                      *)

diskVars   == <<dst, tmp, json>>
memoryVars == <<count, etag, running>>
workerVars == <<pc, name, sent, resp, off, ok>>
vars == <<server, diskVars, memoryVars, workerVars, faults>>

File == Seq(Version) \cup {NoFile}

TypeOK ==
    /\ server \in Version
    /\ dst \in File
    /\ tmp \in [0 .. TempNames - 1 -> File]
    /\ count \in 0 .. TempNames - 1
    /\ etag \in Version \cup {NoTag}
    /\ json \in Version \cup {NoTag}
    /\ running \in BOOLEAN
    /\ pc \in [Worker -> {"idle", "get", "perform", "write", "set", "delete",
                          "rename", "remove", "return"}]
    /\ name \in [Worker -> 0 .. TempNames - 1]
    /\ sent \in [Worker -> Version \cup {NoTag}]
    /\ resp \in [Worker -> Version]
    /\ off \in [Worker -> Nat]
    /\ \A w \in Worker : off[w] <= Size[resp[w]]
    /\ ok \in [Worker -> BOOLEAN]
    /\ faults \in 0 .. MaxFaults

Init ==
    /\ server = 1
    /\ dst = NoFile /\ tmp = [n \in 0 .. TempNames - 1 |-> NoFile]
    /\ count = 0 /\ etag = NoTag /\ json = NoTag /\ running = TRUE
    /\ pc = [w \in Worker |-> "idle"]
    /\ name = [w \in Worker |-> 0] /\ sent = [w \in Worker |-> NoTag]
    /\ resp = [w \in Worker |-> 1] /\ off = [w \in Worker |-> 0]
    /\ ok = [w \in Worker |-> FALSE]
    /\ faults = 0

Fault(f) == f \in Faults /\ faults < MaxFaults /\ faults' = faults + 1

At(w, p) == running /\ pc[w] = p
Goto(w, p) == pc' = [pc EXCEPT ![w] = p]
Fail(w) == ok' = [ok EXCEPT ![w] = FALSE] /\ Goto(w, "remove")

-----------------------------------------------------------------------------
(* A new version on the server *)
Update ==
    /\ server + 1 \in Version
    /\ server' = server + 1
    /\ UNCHANGED <<diskVars, memoryVars, workerVars, faults>>

(* Creates and opens the temporary file.  One that is there already is     *)
(* kept as it is and written over.                                         *)
Start(w) ==
    /\ At(w, "idle")
    /\ Overlap \/ \A x \in Worker : pc[x] = "idle"
    /\ count' = (count + 1) % TempNames
    /\ name' = [name EXCEPT ![w] = count]
    /\ \/ /\ Fault("create")
          /\ ok' = [ok EXCEPT ![w] = FALSE]
          /\ Goto(w, "return")
          /\ UNCHANGED tmp
       \/ /\ tmp' = [tmp EXCEPT ![count] = IF @ = NoFile THEN <<>> ELSE @]
          /\ Goto(w, "get")
          /\ UNCHANGED <<ok, faults>>
    /\ UNCHANGED <<server, dst, json, etag, running, sent, resp, off>>

(* Mutant: the ETag of a file that is not there is sent. *)
TagAnyway == etag

(* Cache::get: the recorded ETag, if the file still exists *)
TagToSend == IF dst # NoFile THEN etag ELSE NoTag

Get(w) ==
    /\ At(w, "get")
    /\ sent' = [sent EXCEPT ![w] = TagToSend]
    /\ Goto(w, "perform")
    /\ UNCHANGED <<server, diskVars, memoryVars, name, resp, off, ok, faults>>

(* The server's answer: 304 to the ETag of the version it has, or else the *)
(* file and its ETag.                                                      *)
NotModified(w) ==
    /\ At(w, "perform")
    /\ sent[w] = server
    /\ resp' = [resp EXCEPT ![w] = server]
    /\ off' = [off EXCEPT ![w] = 0]
    /\ ok' = [ok EXCEPT ![w] = TRUE]
    /\ Goto(w, "remove")
    /\ UNCHANGED <<server, diskVars, memoryVars, name, sent, faults>>

Modified(w) ==
    /\ At(w, "perform")
    /\ sent[w] # server
    /\ resp' = [resp EXCEPT ![w] = server]
    /\ off' = [off EXCEPT ![w] = 0]
    /\ Goto(w, "write")
    /\ UNCHANGED <<server, diskVars, memoryVars, name, sent, ok, faults>>

NetworkFails(w) ==
    /\ At(w, "perform") \/ At(w, "write")
    /\ Fault("network")
    /\ Fail(w)
    /\ UNCHANGED <<server, diskVars, memoryVars, name, sent, resp, off>>

(* File f with v written at block i + 1 *)
Overwritten(f, i, v) == [j \in 1 .. (IF i + 1 > Len(f) THEN i + 1 ELSE Len(f))
                            |-> IF j = i + 1 THEN v ELSE f[j]]

MoreData(w) == off[w] < Size[resp[w]]

(* WriteFileCallback, which fails the transfer when the write does.  The   *)
(* buffer of CHUNK_SIZE is reserved but has no size, so that all data is   *)
(* written directly.                                                       *)
Write(w) ==
    /\ At(w, "write")
    /\ MoreData(w)
    /\ \/ /\ Fault("write")
          /\ Fail(w)
          /\ UNCHANGED <<tmp, off>>
       \/ /\ tmp' = [tmp EXCEPT ![name[w]] = Overwritten(@, off[w], resp[w])]
          /\ off' = [off EXCEPT ![w] = @ + 1]
          /\ UNCHANGED <<pc, ok, faults>>
    /\ UNCHANGED <<server, dst, json, memoryVars, name, sent, resp>>

(* Mutants: the last block is not waited for; an ETag is recorded that is  *)
(* not that of the file.                                                   *)
AlmostDone(w) == At(w, "write") /\ off[w] + 1 >= Size[resp[w]]
TagOfServer(w) == server

(* curl_easy_perform returns CURLE_OK *)
Performed(w) == At(w, "write") /\ ~MoreData(w)

TagReceived(w) == IF resp[w] \in Untagged THEN etag ELSE resp[w]

(* Cache::set *)
Set(w) ==
    /\ Performed(w)
    /\ etag' = TagReceived(w)
    /\ Goto(w, "delete")
    /\ UNCHANGED <<server, diskVars, count, running, name, sent, resp, off, ok,
                   faults>>

(* DeleteFile(e.GetPath()), whose result is ignored *)
DeleteOld(w) ==
    /\ At(w, "delete")
    /\ \/ dst' = NoFile /\ UNCHANGED faults
       \/ Fault("delete") /\ UNCHANGED dst
    /\ Goto(w, "rename")
    /\ UNCHANGED <<server, tmp, json, memoryVars, name, sent, resp, off, ok>>

(* RenameFile, which refuses to replace a file *)
Rename(w) ==
    /\ At(w, "rename")
    /\ \/ /\ dst = NoFile
          /\ dst' = tmp[name[w]]
          /\ tmp' = [tmp EXCEPT ![name[w]] = NoFile]
          /\ ok' = [ok EXCEPT ![w] = TRUE]
          /\ UNCHANGED faults
       \/ /\ \/ dst # NoFile /\ UNCHANGED faults
             \/ dst = NoFile /\ Fault("rename")
          /\ ok' = [ok EXCEPT ![w] = FALSE]
          /\ UNCHANGED <<dst, tmp>>
    /\ Goto(w, "remove")
    /\ UNCHANGED <<server, json, memoryVars, name, sent, resp, off>>

(* DeleteFile(tmp_buf) *)
Remove(w) ==
    /\ At(w, "remove")
    /\ tmp' = [tmp EXCEPT ![name[w]] = NoFile]
    /\ Goto(w, "return")
    /\ UNCHANGED <<server, dst, json, memoryVars, name, sent, resp, off, ok,
                   faults>>

Return(w) ==
    /\ At(w, "return")
    /\ Goto(w, "idle")
    /\ UNCHANGED <<server, diskVars, memoryVars, name, sent, resp, off, ok,
                   faults>>

-----------------------------------------------------------------------------
(* The program ends: the last worker to leave writes the JSON file         *)
(* (Cache::exit), unless the program is killed.  Both are counted with the *)
(* faults.                                                                 *)
Stopped ==
    /\ running' = FALSE
    /\ count' = 0
    /\ etag' = NoTag
    /\ pc' = [w \in Worker |-> "idle"]
    /\ UNCHANGED <<server, dst, tmp, name, sent, resp, off, ok>>

Quit ==
    /\ running
    /\ \A w \in Worker : pc[w] = "idle"
    /\ \/ faults < MaxFaults /\ faults' = faults + 1 /\ json' = etag
       \/ Fault("json") /\ json' = NoTag
    /\ Stopped

Crash ==
    /\ running
    /\ Fault("crash")
    /\ Stopped
    /\ UNCHANGED json

(* Cache::init *)
Restart ==
    /\ ~running
    /\ running' = TRUE
    /\ etag' = json
    /\ UNCHANGED <<server, diskVars, count, workerVars, faults>>

-----------------------------------------------------------------------------

Download(w) == Start(w) \/ Get(w) \/ NotModified(w) \/ Modified(w)
               \/ Write(w) \/ Set(w) \/ DeleteOld(w) \/ Rename(w)
               \/ Remove(w) \/ Return(w)

Next ==
    \/ Update \/ Quit \/ Crash \/ Restart
    \/ \E w \in Worker : Download(w) \/ NetworkFails(w)

Spec == Init /\ [][Next]_vars

(* Downloads go on and are asked for again; the program is started again.  *)
FairSpec == /\ Spec
            /\ WF_vars(Restart)
            /\ \A w \in Worker : WF_vars(Download(w))

-----------------------------------------------------------------------------

(* The file is never a part of a version, or parts of two. *)
NeverTorn == dst = NoFile \/ \E v \in Version : dst = Whole(v)

(* A download that succeeds leaves the version of the server's answer in   *)
(* the file, also when the answer is that it was there already.            *)
SuccessIsServed ==
    \A w \in Worker : pc[w] = "return" /\ ok[w] => dst = Whole(resp[w])

(* Whatever failed, downloading again and again gets the version the       *)
(* server has: no failure leaves an ETag that keeps an old file for ever.  *)
Recovers == []<>(dst = Whole(server))

(* include/download.hpp: "the received etag is then saved on success":     *)
(* between downloads, the recorded ETag is that of the file.               *)
SavedOnSuccess ==
    (\A w \in Worker : pc[w] = "idle") /\ dst # NoFile /\ etag # NoTag =>
        dst = Whole(etag)
=============================================================================
