-------------------------- MODULE FileDownloadProofs --------------------------
(***************************************************************************)
(* Theorems about FileDownload, for every sequence of versions and any     *)
(* number of workers, temporary names and faults.                          *)
(***************************************************************************)
EXTENDS FileDownload, TLAPS

-----------------------------------------------------------------------------
(* Sizes, versions and files *)

LEMMA Versions ==
    /\ Version \subseteq Nat \ {0}
    /\ \A v \in Version : Size[v] \in Nat \ {0}
    /\ 1 \in Version
    /\ NoTag \notin Version
  <1>1. Version = 1 .. Len(Size) /\ Len(Size) \in Nat \ {0}
    BY FileDownloadAssumption DEF Version
  <1>2. ASSUME NEW v \in Version PROVE Size[v] \in Nat \ {0}
    BY <1>1, FileDownloadAssumption
  <1> QED BY <1>1, <1>2 DEF NoTag

LEMMA WholeFile ==
    ASSUME NEW v \in Version
    PROVE  /\ Whole(v) \in Seq(Version) /\ Len(Whole(v)) = Size[v]
           /\ Whole(v) # NoFile
  <1>1. Size[v] \in Nat \ {0} /\ v # 0
    BY Versions
  <1>2. Whole(v) \in Seq(Version) /\ Len(Whole(v)) = Size[v]
    BY <1>1 DEF Whole
  <1>3. Whole(v)[1] = v
    BY <1>1 DEF Whole
  <1>4. NoFile[1] = 0
    BY DEF NoFile
  <1> QED BY <1>1, <1>2, <1>3, <1>4

(* A block is written within the file or at its end. *)
LEMMA WriteBlock ==
    ASSUME NEW f \in Seq(Version), NEW i \in 0 .. Len(f), NEW v \in Version
    PROVE  /\ Overwritten(f, i, v) \in Seq(Version)
           /\ Len(Overwritten(f, i, v)) = IF i + 1 > Len(f) THEN i + 1 ELSE Len(f)
           /\ Overwritten(f, i, v)[i + 1] = v
           /\ \A j \in 1 .. Len(f) : j # i + 1 => Overwritten(f, i, v)[j] = f[j]
  <1> DEFINE n == IF i + 1 > Len(f) THEN i + 1 ELSE Len(f)
             g == [j \in 1 .. n |-> IF j = i + 1 THEN v ELSE f[j]]
  <1>1. n \in Nat /\ n >= i + 1 /\ n >= Len(f) /\ i + 1 \in 1 .. n
    OBVIOUS
  <1>2. \A j \in 1 .. n : j # i + 1 => j \in 1 .. Len(f)
    OBVIOUS
  <1>3. \A j \in 1 .. n : g[j] \in Version
    BY <1>2
  <1> HIDE DEF n
  <1>4. g \in Seq(Version) /\ Len(g) = n
    BY <1>1, <1>3
  <1>5. g[i + 1] = v /\ \A j \in 1 .. Len(f) : j # i + 1 => g[j] = f[j]
    BY <1>1
  <1>6. g = Overwritten(f, i, v)
    BY DEF Overwritten, n
  <1> HIDE DEF g
  <1> QED BY <1>4, <1>5, <1>6 DEF n

(* A file whose every block is of version v, and all of them *)
LEMMA AllBlocks ==
    ASSUME NEW v \in Version, NEW f \in Seq(Version), Len(f) = Size[v],
           \A j \in 1 .. Size[v] : f[j] = v
    PROVE  f = Whole(v)
  <1>1. Size[v] \in Nat
    BY Versions
  <1> QED BY <1>1 DEF Whole

LEMMA Empty ==
    <<>> \in Seq(Version) /\ Len(<<>>) = 0 /\ <<>> # NoFile
  BY DEF NoFile

LEMMA OneMore ==
    ASSUME NEW h \in [Worker -> Nat], NEW w \in Worker
    PROVE  /\ [h EXCEPT ![w] = @ + 1] \in [Worker -> Nat]
           /\ [h EXCEPT ![w] = @ + 1][w] = h[w] + 1
  OBVIOUS

LEMMA NextName ==
    ASSUME NEW n \in 0 .. TempNames - 1
    PROVE  (n + 1) % TempNames \in 0 .. TempNames - 1
  BY FileDownloadAssumption

-----------------------------------------------------------------------------
(* The assumptions of the theorems *)

(* A newer version is not shorter.  A temporary file that a crash has left *)
(* is written over but never cut off, so that a shorter version would keep *)
(* the end of a longer one.                                                *)
GrowingSizes == \A v, u \in Version : v <= u => Size[v] <= Size[u]

(* The path is downloaded to by one request at a time. *)
OneAtATime == ~Overlap

(* DeleteFile of the old file, whose result is ignored, does not fail. *)
DeleteWorks == "delete" \notin Faults

-----------------------------------------------------------------------------
(* The inductive invariants *)

(* One request at most is under way, and none when the program is not.     *)
Alone ==
    /\ \A w, x \in Worker : pc[w] # "idle" /\ pc[x] # "idle" => w = x
    /\ running \/ \A w \in Worker : pc[w] = "idle"

(* No temporary file is longer than the version the server has. *)
Leftovers ==
    \A n \in 0 .. TempNames - 1 : tmp[n] # NoFile => Len(tmp[n]) <= Size[server]

(* The temporary file of a request exists until it is renamed or removed.  *)
(* It begins with the blocks received, has nothing behind the version that *)
(* is being received, and in the end is that version.                      *)
Writing ==
    \A w \in Worker :
        /\ pc[w] \in {"get", "perform", "write", "delete", "rename"} =>
               tmp[name[w]] # NoFile
        /\ pc[w] \in {"write", "delete", "rename"} => resp[w] <= server
        /\ pc[w] = "write" =>
               /\ off[w] <= Len(tmp[name[w]])
               /\ Len(tmp[name[w]]) <= Size[resp[w]]
               /\ \A i \in 1 .. off[w] : tmp[name[w]][i] = resp[w]
        /\ pc[w] \in {"delete", "rename"} => tmp[name[w]] = Whole(resp[w])

TornInv == TypeOK /\ Alone /\ Leftovers /\ Writing /\ NeverTorn

(* No tag is recorded or sent that the server has not given out, and none  *)
(* that is newer than the version being received.                          *)
GivenOut ==
    /\ etag <= server /\ json <= server
    /\ \A w \in Worker :
        /\ pc[w] = "perform" => sent[w] <= server
        /\ pc[w] \in {"write", "delete", "rename"} =>
               etag <= resp[w] /\ json <= resp[w]

(* The tag of the version the server has is only recorded for that         *)
(* version, but for the moment in which the old file is not yet deleted.   *)
Recorded ==
    /\ dst # NoFile /\ json = server => dst = Whole(server)
    /\ dst # NoFile /\ etag = server =>
           dst = Whole(server) \/ \E w \in Worker : pc[w] = "delete"
    /\ \A w \in Worker :
           pc[w] = "perform" /\ sent[w] = server => dst = Whole(server)

(* What a request leaves: nothing in the way of the new file, and that     *)
(* file once it has succeeded.                                             *)
Served ==
    \A w \in Worker :
        /\ pc[w] = "rename" => dst = NoFile
        /\ pc[w] \in {"remove", "return"} /\ ok[w] => dst = Whole(resp[w])

ServedInv == TornInv /\ GivenOut /\ Recorded /\ Served

-----------------------------------------------------------------------------
(* A file is only ever a version *)

LEMMA TornInit ==
    Init => TornInv
  <1> SUFFICES ASSUME Init PROVE TornInv
    OBVIOUS
  <1> USE DEF Init
  <1>1. TypeOK
    BY Versions, FileDownloadAssumption DEF TypeOK, File, NoTag
  <1>2. Alone /\ Leftovers /\ Writing /\ NeverTorn
    BY DEF Alone, Leftovers, Writing, NeverTorn
  <1> QED BY <1>1, <1>2 DEF TornInv

LEMMA SameFile ==
    ASSUME NeverTorn, dst' = dst
    PROVE  NeverTorn'
  BY DEF NeverTorn

LEMMA StartKeepsTornInv ==
    ASSUME OneAtATime, TornInv, NEW w \in Worker, Start(w)
    PROVE  TornInv'
  <1> USE Versions, FileDownloadAssumption DEF At, Goto, Fault, diskVars,
      memoryVars, workerVars, Start
  <1>1. TypeOK'
    <2>1. tmp' \in [0 .. TempNames - 1 -> File]
      <3>1. tmp \in [0 .. TempNames - 1 -> File] /\ <<>> \in File
        BY Empty DEF TornInv, TypeOK, File
      <3>2. tmp' = tmp \/ tmp' = [tmp EXCEPT ![count] = <<>>]
        BY <3>1 DEF TornInv, TypeOK
      <3> QED BY <3>1, <3>2
    <2>2. count' \in 0 .. TempNames - 1 /\ name' \in [Worker -> 0 .. TempNames - 1]
      BY NextName DEF TornInv, TypeOK
    <2>3. pc' \in [Worker -> {"idle", "get", "perform", "write", "set",
                              "delete", "rename", "remove", "return"}]
      BY DEF TornInv, TypeOK
    <2>4. ok' \in [Worker -> BOOLEAN]
      <3>1. ok \in [Worker -> BOOLEAN]
        BY DEF TornInv, TypeOK
      <3>2. \/ ok' = ok
            \/ ok' = [ok EXCEPT ![w] = FALSE]
            \/ ok' = [ok EXCEPT ![w] = TRUE]
        BY Zenon
      <3> QED BY <3>1, <3>2
    <2>5. faults' \in 0 .. MaxFaults
      <3>1. faults \in 0 .. MaxFaults /\ MaxFaults \in Nat
        BY DEF TornInv, TypeOK
      <3>2. faults' = faults \/ (faults < MaxFaults /\ faults' = faults + 1)
        BY Zenon
      <3> QED BY <3>1, <3>2
    <2> QED BY <2>1, <2>2, <2>3, <2>4, <2>5 DEF TornInv, TypeOK
  <1>2. Alone'
    BY OneAtATime DEF TornInv, TypeOK, Alone, OneAtATime
  <1>3. Leftovers'
    <2> SUFFICES ASSUME NEW n \in 0 .. TempNames - 1, tmp'[n] # NoFile
                 PROVE  Len(tmp'[n]) <= Size[server]
      BY DEF Leftovers
    <2>1. CASE tmp'[n] = tmp[n]
      BY <2>1 DEF TornInv, Leftovers
    <2>2. CASE tmp'[n] = <<>>
      BY <2>2, Empty DEF TornInv, TypeOK
    <2> QED BY <2>1, <2>2 DEF TornInv, TypeOK
  <1>4. Writing'
    <2>1. \A x \in Worker : x # w => pc'[x] = "idle"
      BY OneAtATime DEF TornInv, TypeOK, OneAtATime
    <2>2. pc'[w] = "return" \/ pc'[w] = "get"
      BY DEF TornInv, TypeOK
    <2>3. pc'[w] = "get" => tmp'[name'[w]] # NoFile
      BY Empty DEF TornInv, TypeOK
    <2> QED BY <2>1, <2>2, <2>3 DEF Writing
  <1>5. NeverTorn'
    BY SameFile DEF TornInv
  <1> QED BY <1>1, <1>2, <1>3, <1>4, <1>5 DEF TornInv

LEMMA GetKeepsTornInv ==
    ASSUME TornInv, NEW w \in Worker, Get(w)
    PROVE  TornInv'
  <1> USE Versions, FileDownloadAssumption DEF At, Goto, Fault, diskVars,
      memoryVars, workerVars, Get, TagToSend
  <1>1. TypeOK'
    BY DEF TornInv, TypeOK, File, NoTag
  <1>2. Alone'
    BY DEF TornInv, TypeOK, Alone
  <1>3. Leftovers'
    BY DEF TornInv, Leftovers
  <1>4. Writing'
    BY DEF TornInv, TypeOK, Alone, Writing
  <1>5. NeverTorn'
    BY SameFile DEF TornInv
  <1> QED BY <1>1, <1>2, <1>3, <1>4, <1>5 DEF TornInv

LEMMA NotModifiedKeepsTornInv ==
    ASSUME TornInv, NEW w \in Worker, NotModified(w)
    PROVE  TornInv'
  <1> USE Versions, FileDownloadAssumption DEF At, Goto, Fault, diskVars,
      memoryVars, workerVars, NotModified
  <1>1. TypeOK'
    BY DEF TornInv, TypeOK, File, NoTag
  <1>2. Alone'
    BY DEF TornInv, TypeOK, Alone
  <1>3. Leftovers'
    BY DEF TornInv, Leftovers
  <1>4. Writing'
    BY DEF TornInv, TypeOK, Alone, Writing
  <1>5. NeverTorn'
    BY SameFile DEF TornInv
  <1> QED BY <1>1, <1>2, <1>3, <1>4, <1>5 DEF TornInv

LEMMA ModifiedKeepsTornInv ==
    ASSUME TornInv, NEW w \in Worker, Modified(w)
    PROVE  TornInv'
  <1> USE Versions, FileDownloadAssumption DEF At, Goto, Fault, diskVars,
      memoryVars, workerVars, Modified
  <1>1. TypeOK'
    BY DEF TornInv, TypeOK, File, NoTag
  <1>2. Alone'
    BY DEF TornInv, TypeOK, Alone
  <1>3. Leftovers'
    BY DEF TornInv, Leftovers
  <1>4. Writing'
    <2>1. \A x \in Worker : x # w => pc'[x] = "idle"
      BY DEF TornInv, TypeOK, Alone
    <2>2. /\ pc'[w] = "write" /\ resp'[w] = server /\ off'[w] = 0
          /\ tmp' = tmp /\ name' = name /\ server' = server
      BY DEF TornInv, TypeOK
    <2>3. /\ tmp[name[w]] # NoFile /\ name[w] \in 0 .. TempNames - 1
          /\ server \in Nat /\ tmp[name[w]] \in File
      BY DEF TornInv, TypeOK, Writing
    <2>4. Len(tmp[name[w]]) \in Nat /\ Len(tmp[name[w]]) <= Size[server]
      BY <2>3 DEF TornInv, Leftovers, File
    <2> QED BY <2>1, <2>2, <2>3, <2>4 DEF Writing
  <1>5. NeverTorn'
    BY SameFile DEF TornInv
  <1> QED BY <1>1, <1>2, <1>3, <1>4, <1>5 DEF TornInv

LEMMA NetworkFailsKeepsTornInv ==
    ASSUME TornInv, NEW w \in Worker, NetworkFails(w)
    PROVE  TornInv'
  <1> USE Versions, FileDownloadAssumption DEF At, Goto, Fault, diskVars,
      memoryVars, workerVars, NetworkFails, Fail
  <1>1. TypeOK'
    BY DEF TornInv, TypeOK, File, NoTag
  <1>2. Alone'
    BY DEF TornInv, TypeOK, Alone
  <1>3. Leftovers'
    BY DEF TornInv, Leftovers
  <1>4. Writing'
    BY DEF TornInv, TypeOK, Alone, Writing
  <1>5. NeverTorn'
    BY SameFile DEF TornInv
  <1> QED BY <1>1, <1>2, <1>3, <1>4, <1>5 DEF TornInv

LEMMA WriteKeepsTornInv ==
    ASSUME GrowingSizes, TornInv, NEW w \in Worker, Write(w)
    PROVE  TornInv'
  <1> DEFINE f == tmp[name[w]]
             v == resp[w]
             g == Overwritten(f, off[w], v)
  <1>d. /\ pc[w] = "write" /\ off[w] < Size[v]
        /\ server \in Version /\ v \in Version /\ name[w] \in 0 .. TempNames - 1
        /\ off[w] \in Nat /\ f \in File
    BY DEF TornInv, TypeOK, Write, At, MoreData
  <1>e. /\ f # NoFile /\ v <= server /\ off[w] <= Len(f) /\ Len(f) <= Size[v]
        /\ \A i \in 1 .. off[w] : f[i] = v
    BY <1>d DEF TornInv, Writing
  <1>f. Size[v] \in Nat /\ Size[server] \in Nat /\ Size[v] <= Size[server]
    BY <1>d, <1>e, Versions, GrowingSizes DEF GrowingSizes
  <1>g. \/ UNCHANGED <<tmp, off>> /\ pc' = [pc EXCEPT ![w] = "remove"]
        \/ /\ tmp' = [tmp EXCEPT ![name[w]] = g]
           /\ off' = [off EXCEPT ![w] = @ + 1]
           /\ UNCHANGED <<pc, ok, faults>>
    BY <1>d DEF TornInv, TypeOK, Write, Fail, Goto
  <1>h. server' \in Version /\ server' = server /\ resp' = resp /\ name' = name
    BY <1>d DEF Write
  <1> HIDE DEF f, v, g
  <1>0. /\ f \in Seq(Version) /\ v \in Version /\ v <= server /\ off[w] \in 0 .. Len(f)
        /\ off[w] < Size[v] /\ Len(f) <= Size[v] /\ Size[v] <= Size[server]
        /\ Size[v] \in Nat /\ Size[server] \in Nat /\ name[w] \in 0 .. TempNames - 1
        /\ \A i \in 1 .. off[w] : f[i] = v
        /\ Len(f) \in Nat /\ off[w] \in Nat
    BY <1>d, <1>e, <1>f DEF File
  <1>a. /\ g \in Seq(Version) /\ Len(g) = (IF off[w] + 1 > Len(f) THEN off[w] + 1 ELSE Len(f))
        /\ g[off[w] + 1] = v
        /\ \A j \in 1 .. Len(f) : j # off[w] + 1 => g[j] = f[j]
    BY <1>0, WriteBlock DEF g
  <1>b. /\ g # NoFile /\ Len(g) <= Size[v] /\ off[w] + 1 <= Len(g)
        /\ \A i \in 1 .. off[w] + 1 : g[i] = v
    <2>1. Len(g) <= Size[v] /\ off[w] + 1 <= Len(g)
      BY <1>0, <1>a
    <2>2. ASSUME NEW i \in 1 .. off[w] + 1 PROVE g[i] = v
      <3>1. CASE i = off[w] + 1
        BY <1>a, <3>1
      <3>2. CASE i # off[w] + 1
        <4>1. i \in 1 .. off[w] /\ i \in 1 .. Len(f)
          BY <1>0, <3>2
        <4> QED BY <1>0, <1>a, <3>2, <4>1
      <3> QED BY <3>1, <3>2
    <2>3. g # NoFile
      <3>1. g[1] = v
        BY <1>0, <2>2
      <3> QED BY <1>0, <3>1, Versions DEF NoFile
    <2> QED BY <2>1, <2>2, <2>3
  <1> USE FileDownloadAssumption DEF At, Goto, Fault, diskVars, memoryVars,
      workerVars, Write, Fail
  <1>1. TypeOK'
    <2>1. tmp' \in [0 .. TempNames - 1 -> File]
      <3>1. tmp \in [0 .. TempNames - 1 -> File] /\ g \in File
        BY <1>a DEF TornInv, TypeOK, File
      <3>2. CASE tmp' = tmp
        BY <3>1, <3>2
      <3>3. CASE tmp' = [tmp EXCEPT ![name[w]] = g]
        BY <3>1, <3>3
      <3> QED BY <1>g, <3>2, <3>3
    <2>2. off' \in [Worker -> Nat] /\ \A x \in Worker : off'[x] <= Size[resp[x]]
      <3>1. off \in [Worker -> Nat] /\ \A x \in Worker : off[x] <= Size[resp[x]]
        BY DEF TornInv, TypeOK
      <3>2. CASE off' = off
        BY <3>1, <3>2
      <3>3. CASE off' = [off EXCEPT ![w] = @ + 1]
        <4>1. off' \in [Worker -> Nat] /\ off'[w] = off[w] + 1
          <5>1. /\ [off EXCEPT ![w] = @ + 1] \in [Worker -> Nat]
                /\ [off EXCEPT ![w] = @ + 1][w] = off[w] + 1
            BY <3>1, OneMore
          <5> QED BY <5>1, <3>3
        <4>2. off'[w] <= Size[v]
          <5>1. off[w] \in Nat /\ Size[v] \in Nat /\ off[w] < Size[v]
            BY <1>0
          <5> QED BY <4>1, <5>1
        <4>3. \A x \in Worker : x # w => off'[x] = off[x]
          BY <3>1, <3>3
        <4> QED BY <3>1, <4>1, <4>2, <4>3 DEF v
      <3> QED BY <1>g, <3>2, <3>3
    <2>3. pc' \in [Worker -> {"idle", "get", "perform", "write", "set",
                              "delete", "rename", "remove", "return"}]
      BY <1>g DEF TornInv, TypeOK
    <2>4. ok' \in [Worker -> BOOLEAN]
      <3>1. ok \in [Worker -> BOOLEAN]
        BY DEF TornInv, TypeOK
      <3>2. \/ ok' = ok
            \/ ok' = [ok EXCEPT ![w] = FALSE]
            \/ ok' = [ok EXCEPT ![w] = TRUE]
        BY Zenon
      <3> QED BY <3>1, <3>2
    <2>5. faults' \in 0 .. MaxFaults
      <3>1. faults \in 0 .. MaxFaults /\ MaxFaults \in Nat
        BY DEF TornInv, TypeOK
      <3>2. faults' = faults \/ (faults < MaxFaults /\ faults' = faults + 1)
        BY Zenon
      <3> QED BY <3>1, <3>2
    <2> QED BY <2>1, <2>2, <2>3, <2>4, <2>5 DEF TornInv, TypeOK
  <1>2. Alone'
    BY DEF TornInv, TypeOK, Alone
  <1>3. Leftovers'
    <2>1. Len(g) <= Size[server]
      <3>1. Len(g) \in Nat /\ Len(g) <= Size[v]
        BY <1>a, <1>b
      <3> QED BY <3>1, <1>0
    <2> QED BY <1>g, <1>h, <2>1, <1>0 DEF TornInv, TypeOK, Leftovers
  <1>4. Writing'
    <2>1. \A x \in Worker : x # w => pc'[x] = "idle" /\ pc[x] = "idle"
      BY DEF TornInv, TypeOK, Alone
    <2>2. CASE UNCHANGED <<tmp, off>> /\ pc' = [pc EXCEPT ![w] = "remove"]
      BY <2>1, <2>2 DEF TornInv, TypeOK, Writing
    <2>3. CASE /\ tmp' = [tmp EXCEPT ![name[w]] = g]
               /\ off' = [off EXCEPT ![w] = @ + 1]
               /\ UNCHANGED <<pc, ok, faults>>
      <3>1. /\ tmp'[name[w]] = g /\ off'[w] = off[w] + 1 /\ pc'[w] = "write"
            /\ name' = name /\ resp' = resp /\ server' = server
        BY <2>3, <1>0 DEF TornInv, TypeOK
      <3> QED BY <2>1, <3>1, <1>0, <1>b DEF Writing, v
    <2> QED BY <1>g, <2>2, <2>3
  <1>5. NeverTorn'
    BY SameFile DEF TornInv
  <1> QED BY <1>1, <1>2, <1>3, <1>4, <1>5 DEF TornInv

LEMMA SetKeepsTornInv ==
    ASSUME TornInv, NEW w \in Worker, Set(w)
    PROVE  TornInv'
  <1> USE Versions, FileDownloadAssumption DEF At, Goto, Fault, diskVars,
      memoryVars, workerVars, Set, Performed, MoreData, TagReceived
  <1>1. TypeOK'
    BY AllBlocks DEF TornInv, TypeOK, File, Alone, Writing, NoTag
  <1>2. Alone'
    BY DEF TornInv, TypeOK, Alone
  <1>3. Leftovers'
    BY AllBlocks DEF TornInv, TypeOK, File, Alone, Leftovers, Writing
  <1>4. Writing'
    <2>1. \A x \in Worker : x # w => pc'[x] = "idle"
      BY DEF TornInv, TypeOK, Alone
    <2>2. pc'[w] = "delete" /\ tmp' = tmp /\ name' = name /\ resp' = resp
          /\ server' = server
      BY DEF TornInv, TypeOK
    <2>3. /\ tmp[name[w]] \in Seq(Version) /\ resp[w] \in Version
          /\ resp[w] <= server /\ tmp[name[w]] # NoFile
          /\ Len(tmp[name[w]]) = Size[resp[w]]
          /\ \A i \in 1 .. Size[resp[w]] : tmp[name[w]][i] = resp[w]
      <3>1. /\ tmp[name[w]] \in File /\ resp[w] \in Version /\ off[w] \in Nat
            /\ off[w] <= Size[resp[w]] /\ ~(off[w] < Size[resp[w]])
        BY DEF TornInv, TypeOK
      <3>2. Size[resp[w]] \in Nat /\ off[w] = Size[resp[w]]
        <4>1. Size[resp[w]] \in Nat
          BY <3>1, Versions
        <4> QED BY <3>1, <4>1
      <3>3. /\ tmp[name[w]] # NoFile /\ resp[w] <= server
            /\ off[w] <= Len(tmp[name[w]]) /\ Len(tmp[name[w]]) <= Size[resp[w]]
            /\ \A i \in 1 .. off[w] : tmp[name[w]][i] = resp[w]
        BY DEF TornInv, Writing
      <3>4. tmp[name[w]] \in Seq(Version)
        BY <3>1, <3>3 DEF File
      <3> QED BY <3>1, <3>2, <3>3, <3>4
    <2>4. tmp[name[w]] = Whole(resp[w])
      BY <2>3, AllBlocks
    <2> QED BY <2>1, <2>2, <2>3, <2>4 DEF Writing
  <1>5. NeverTorn'
    BY SameFile DEF TornInv
  <1> QED BY <1>1, <1>2, <1>3, <1>4, <1>5 DEF TornInv

LEMMA DeleteOldKeepsTornInv ==
    ASSUME TornInv, NEW w \in Worker, DeleteOld(w)
    PROVE  TornInv'
  <1> USE Versions, FileDownloadAssumption DEF At, Goto, Fault, diskVars,
      memoryVars, workerVars, DeleteOld
  <1>1. TypeOK'
    <2>1. /\ dst' = dst \/ dst' = NoFile
          /\ faults' = faults \/ (faults < MaxFaults /\ faults' = faults + 1)
      BY Zenon
    <2>2. dst' \in File /\ faults' \in 0 .. MaxFaults
      BY <2>1 DEF TornInv, TypeOK, File
    <2>3. pc' \in [Worker -> {"idle", "get", "perform", "write", "set",
                              "delete", "rename", "remove", "return"}]
      BY DEF TornInv, TypeOK
    <2> QED BY <2>2, <2>3 DEF TornInv, TypeOK
  <1>2. Alone'
    BY DEF TornInv, TypeOK, Alone
  <1>3. Leftovers'
    BY DEF TornInv, Leftovers
  <1>4. Writing'
    BY DEF TornInv, TypeOK, Alone, Writing
  <1>5. NeverTorn'
    <2>1. CASE dst' = NoFile
      BY <2>1 DEF NeverTorn
    <2>2. CASE dst' = dst
      BY <2>2, SameFile DEF TornInv
    <2> QED BY <2>1, <2>2
  <1> QED BY <1>1, <1>2, <1>3, <1>4, <1>5 DEF TornInv

LEMMA RenameKeepsTornInv ==
    ASSUME TornInv, NEW w \in Worker, Rename(w)
    PROVE  TornInv'
  <1> USE Versions, FileDownloadAssumption DEF At, Goto, Fault, diskVars,
      memoryVars, workerVars, Rename
  <1>a. /\ tmp[name[w]] = Whole(resp[w]) /\ resp[w] \in Version
        /\ Whole(resp[w]) \in Seq(Version)
    BY WholeFile DEF TornInv, TypeOK, Writing
  <1>b. dst' = dst \/ dst' = Whole(resp[w])
    BY <1>a
  <1>c. tmp' = tmp \/ tmp' = [tmp EXCEPT ![name[w]] = NoFile]
    OBVIOUS
  <1>d. pc' = [pc EXCEPT ![w] = "remove"]
    OBVIOUS
  <1>1. TypeOK'
    <2>1. dst' \in File
      BY <1>a, <1>b DEF TornInv, TypeOK, File
    <2>2. tmp' \in [0 .. TempNames - 1 -> File]
      BY <1>c DEF TornInv, TypeOK, File
    <2>3. pc' \in [Worker -> {"idle", "get", "perform", "write", "set",
                              "delete", "rename", "remove", "return"}]
      BY <1>d DEF TornInv, TypeOK
    <2>4. ok' \in [Worker -> BOOLEAN]
      <3>1. ok \in [Worker -> BOOLEAN]
        BY DEF TornInv, TypeOK
      <3>2. \/ ok' = ok
            \/ ok' = [ok EXCEPT ![w] = FALSE]
            \/ ok' = [ok EXCEPT ![w] = TRUE]
        BY Zenon
      <3> QED BY <3>1, <3>2
    <2>5. faults' \in 0 .. MaxFaults
      <3>1. faults \in 0 .. MaxFaults /\ MaxFaults \in Nat
        BY DEF TornInv, TypeOK
      <3>2. faults' = faults \/ (faults < MaxFaults /\ faults' = faults + 1)
        BY Zenon
      <3> QED BY <3>1, <3>2
    <2> QED BY <2>1, <2>2, <2>3, <2>4, <2>5 DEF TornInv, TypeOK
  <1>2. Alone'
    BY DEF TornInv, TypeOK, Alone
  <1>3. Leftovers'
    <2>1. server' = server /\ tmp \in [0 .. TempNames - 1 -> File]
      BY DEF TornInv, TypeOK
    <2>2. \A n \in 0 .. TempNames - 1 : tmp'[n] = tmp[n] \/ tmp'[n] = NoFile
      BY <1>c, <2>1
    <2> HIDE DEF Rename
    <2> QED BY <2>1, <2>2 DEF TornInv, Leftovers
  <1>4. Writing'
    <2>1. \A x \in Worker : pc'[x] \in {"idle", "remove"}
      BY <1>d DEF TornInv, TypeOK, Alone
    <2> QED BY <2>1 DEF Writing
  <1>5. NeverTorn'
    BY <1>a, <1>b DEF TornInv, NeverTorn, Version
  <1> QED BY <1>1, <1>2, <1>3, <1>4, <1>5 DEF TornInv

LEMMA RemoveKeepsTornInv ==
    ASSUME TornInv, NEW w \in Worker, Remove(w)
    PROVE  TornInv'
  <1> USE Versions, FileDownloadAssumption DEF At, Goto, Fault, diskVars,
      memoryVars, workerVars, Remove
  <1>1. TypeOK'
    BY DEF TornInv, TypeOK, File, NoTag
  <1>2. Alone'
    BY DEF TornInv, TypeOK, Alone
  <1>3. Leftovers'
    BY DEF TornInv, TypeOK, Leftovers
  <1>4. Writing'
    <2>1. \A x \in Worker : pc'[x] \in {"idle", "return"}
      BY DEF TornInv, TypeOK, Alone
    <2> QED BY <2>1 DEF Writing
  <1>5. NeverTorn'
    BY SameFile DEF TornInv
  <1> QED BY <1>1, <1>2, <1>3, <1>4, <1>5 DEF TornInv

LEMMA ReturnKeepsTornInv ==
    ASSUME TornInv, NEW w \in Worker, Return(w)
    PROVE  TornInv'
  <1> USE Versions, FileDownloadAssumption DEF At, Goto, Fault, diskVars,
      memoryVars, workerVars, Return
  <1>1. TypeOK'
    BY DEF TornInv, TypeOK, File, NoTag
  <1>2. Alone'
    BY DEF TornInv, TypeOK, Alone
  <1>3. Leftovers'
    BY DEF TornInv, Leftovers
  <1>4. Writing'
    BY DEF TornInv, TypeOK, Alone, Writing
  <1>5. NeverTorn'
    BY SameFile DEF TornInv
  <1> QED BY <1>1, <1>2, <1>3, <1>4, <1>5 DEF TornInv

LEMMA UpdateKeepsTornInv ==
    ASSUME GrowingSizes, TornInv, Update
    PROVE  TornInv'
  <1> USE Versions, FileDownloadAssumption DEF Fault, diskVars, memoryVars,
      workerVars, Update
  <1>1. TypeOK'
    BY DEF TornInv, TypeOK, NoTag
  <1>2. Alone'
    BY DEF TornInv, TypeOK, Alone
  <1>3. Leftovers'
    <2>1. server \in Version /\ server + 1 \in Version
          /\ Size[server] \in Nat /\ Size[server + 1] \in Nat
          /\ Size[server] <= Size[server + 1]
      BY GrowingSizes DEF TornInv, TypeOK, GrowingSizes
    <2> SUFFICES ASSUME NEW n \in 0 .. TempNames - 1, tmp[n] # NoFile
                 PROVE  Len(tmp[n]) <= Size[server + 1]
      BY DEF Leftovers
    <2>2. Len(tmp[n]) \in Nat /\ Len(tmp[n]) <= Size[server]
      BY DEF TornInv, TypeOK, File, Leftovers
    <2> QED BY <2>1, <2>2
  <1>4. Writing'
    <2>1. \A w \in Worker : resp[w] <= server => resp[w] <= server'
      <3>1. server \in Nat /\ server' = server + 1
        BY DEF TornInv, TypeOK
      <3>2. \A w \in Worker : resp[w] \in Nat
        BY DEF TornInv, TypeOK
      <3> QED BY <3>1, <3>2
    <2> QED BY <2>1 DEF TornInv, Writing
  <1>5. NeverTorn'
    BY SameFile DEF TornInv
  <1> QED BY <1>1, <1>2, <1>3, <1>4, <1>5 DEF TornInv

LEMMA QuitKeepsTornInv ==
    ASSUME TornInv, Quit
    PROVE  TornInv'
  <1> USE Versions, FileDownloadAssumption DEF Fault, diskVars, memoryVars,
      workerVars, Quit, Stopped
  <1>1. TypeOK'
    <2>1. pc' \in [Worker -> {"idle", "get", "perform", "write", "set",
                              "delete", "rename", "remove", "return"}]
      OBVIOUS
    <2>2. count' \in 0 .. TempNames - 1
      OBVIOUS
    <2>3. json' \in Version \cup {NoTag} /\ faults' \in 0 .. MaxFaults
      <3>1. /\ etag \in Version \cup {NoTag} /\ faults \in 0 .. MaxFaults
            /\ MaxFaults \in Nat
        BY DEF TornInv, TypeOK
      <3>2. /\ json' = etag \/ json' = NoTag
            /\ faults < MaxFaults /\ faults' = faults + 1
        BY Zenon
      <3> QED BY <3>1, <3>2
    <2>4. etag' \in Version \cup {NoTag} /\ running' \in BOOLEAN
      OBVIOUS
    <2> QED BY <2>1, <2>2, <2>3, <2>4 DEF TornInv, TypeOK
  <1>2. Alone'
    BY DEF TornInv, TypeOK, Alone
  <1>3. Leftovers'
    BY DEF TornInv, TypeOK, File, Leftovers
  <1>4. Writing'
    BY DEF TornInv, TypeOK, Writing
  <1>5. NeverTorn'
    BY SameFile DEF TornInv
  <1> QED BY <1>1, <1>2, <1>3, <1>4, <1>5 DEF TornInv

LEMMA CrashKeepsTornInv ==
    ASSUME TornInv, Crash
    PROVE  TornInv'
  <1> USE Versions, FileDownloadAssumption DEF Fault, diskVars, memoryVars,
      workerVars, Crash, Stopped
  <1>1. TypeOK'
    <2>1. pc' \in [Worker -> {"idle", "get", "perform", "write", "set",
                              "delete", "rename", "remove", "return"}]
      OBVIOUS
    <2>2. count' \in 0 .. TempNames - 1
      OBVIOUS
    <2>3. json' \in Version \cup {NoTag} /\ faults' \in 0 .. MaxFaults
      <3>1. /\ json \in Version \cup {NoTag} /\ faults \in 0 .. MaxFaults
            /\ MaxFaults \in Nat
        BY DEF TornInv, TypeOK
      <3>2. json' = json /\ faults < MaxFaults /\ faults' = faults + 1
        BY Zenon
      <3> QED BY <3>1, <3>2
    <2>4. etag' \in Version \cup {NoTag} /\ running' \in BOOLEAN
      OBVIOUS
    <2> QED BY <2>1, <2>2, <2>3, <2>4 DEF TornInv, TypeOK
  <1>2. Alone'
    BY DEF TornInv, TypeOK, Alone
  <1>3. Leftovers'
    BY DEF TornInv, TypeOK, File, Leftovers
  <1>4. Writing'
    BY DEF TornInv, TypeOK, Writing
  <1>5. NeverTorn'
    BY SameFile DEF TornInv
  <1> QED BY <1>1, <1>2, <1>3, <1>4, <1>5 DEF TornInv

LEMMA RestartKeepsTornInv ==
    ASSUME TornInv, Restart
    PROVE  TornInv'
  <1> USE Versions, FileDownloadAssumption DEF Fault, diskVars, memoryVars,
      workerVars, Restart
  <1>1. TypeOK'
    BY DEF TornInv, TypeOK, NoTag
  <1>2. Alone'
    BY DEF TornInv, TypeOK, Alone
  <1>3. Leftovers'
    BY DEF TornInv, TypeOK, File, Leftovers
  <1>4. Writing'
    BY DEF TornInv, TypeOK, Writing
  <1>5. NeverTorn'
    BY SameFile DEF TornInv
  <1> QED BY <1>1, <1>2, <1>3, <1>4, <1>5 DEF TornInv

LEMMA TornStep ==
    OneAtATime /\ GrowingSizes /\ TornInv /\ [Next]_vars => TornInv'
  <1> SUFFICES ASSUME OneAtATime, GrowingSizes, TornInv, [Next]_vars PROVE TornInv'
    OBVIOUS
  <1>1. CASE Update
    BY <1>1, UpdateKeepsTornInv
  <1>2. CASE Quit
    BY <1>2, QuitKeepsTornInv
  <1>3. CASE Crash
    BY <1>3, CrashKeepsTornInv
  <1>4. CASE Restart
    BY <1>4, RestartKeepsTornInv
  <1>5. CASE \E w \in Worker : Start(w)
    BY <1>5, StartKeepsTornInv
  <1>6. CASE \E w \in Worker : Get(w)
    BY <1>6, GetKeepsTornInv
  <1>7. CASE \E w \in Worker : NotModified(w)
    BY <1>7, NotModifiedKeepsTornInv
  <1>8. CASE \E w \in Worker : Modified(w)
    BY <1>8, ModifiedKeepsTornInv
  <1>9. CASE \E w \in Worker : NetworkFails(w)
    BY <1>9, NetworkFailsKeepsTornInv
  <1>10. CASE \E w \in Worker : Write(w)
    BY <1>10, WriteKeepsTornInv
  <1>11. CASE \E w \in Worker : Set(w)
    BY <1>11, SetKeepsTornInv
  <1>12. CASE \E w \in Worker : DeleteOld(w)
    BY <1>12, DeleteOldKeepsTornInv
  <1>13. CASE \E w \in Worker : Rename(w)
    BY <1>13, RenameKeepsTornInv
  <1>14. CASE \E w \in Worker : Remove(w)
    BY <1>14, RemoveKeepsTornInv
  <1>15. CASE \E w \in Worker : Return(w)
    BY <1>15, ReturnKeepsTornInv
  <1>16. CASE UNCHANGED vars
    BY <1>16 DEF TornInv, TypeOK, Alone, Leftovers, Writing, NeverTorn,
        vars, diskVars,
              memoryVars, workerVars
  <1> QED BY <1>1, <1>2, <1>3, <1>4, <1>5, <1>6, <1>7, <1>8, <1>9, <1>10,
      <1>11, <1>12, <1>13, <1>14, <1>15, <1>16 DEF Next, Download

(* Assuming that newer versions are not shorter and that the path is       *)
(* downloaded to by one request at a time, the file is never a part of a   *)
(* version, or parts of two, whatever fails and wherever the program ends. *)
THEOREM FileNeverTorn ==
    ASSUME OneAtATime, GrowingSizes
    PROVE  Spec => []NeverTorn
  <1>1. TornInv /\ [Next]_vars => TornInv'
    BY TornStep, OneAtATime, GrowingSizes
  <1>2. TornInv => NeverTorn
    BY DEF TornInv
  <1> QED BY <1>1, <1>2, TornInit, PTL DEF Spec

-----------------------------------------------------------------------------
(* A success leaves what was asked for *)

LEMMA Numbers ==
    ASSUME TypeOK
    PROVE  /\ server \in Nat /\ etag \in Nat /\ json \in Nat
           /\ \A w \in Worker : resp[w] \in Nat /\ sent[w] \in Nat
  <1>1. \A v \in Version \cup {NoTag} : v \in Nat
    BY Versions DEF NoTag
  <1>2. server \in Nat /\ etag \in Nat /\ json \in Nat
    BY <1>1 DEF TypeOK
  <1>3. ASSUME NEW w \in Worker PROVE resp[w] \in Nat /\ sent[w] \in Nat
    <2>1. resp[w] \in Version /\ sent[w] \in Version \cup {NoTag}
      BY DEF TypeOK
    <2> QED BY <1>1, <2>1
  <1> QED BY <1>2, <1>3

LEMMA ServedInit ==
    Init => ServedInv
  <1> SUFFICES ASSUME Init PROVE ServedInv
    OBVIOUS
  <1>1. TornInv
    BY TornInit
  <1>2. GivenOut /\ Recorded /\ Served
    BY DEF Init, GivenOut, Recorded, Served, NoTag
  <1> QED BY <1>1, <1>2 DEF ServedInv

LEMMA StartKeepsServedInv ==
    ASSUME OneAtATime, ServedInv, TornInv', NEW w \in Worker, Start(w)
    PROVE  ServedInv'
  <1> USE Versions DEF At, Goto, Fault, diskVars, memoryVars, workerVars, Start,
      ServedInv, TornInv, TypeOK, NoTag, OneAtATime
  <1>1. GivenOut'
    BY OneAtATime DEF GivenOut, Alone, Writing
  <1>2. Recorded'
    BY OneAtATime DEF Recorded, GivenOut, Alone, Writing, Served
  <1>3. Served'
    BY OneAtATime DEF Recorded, GivenOut, Alone, Writing, Served
  <1> QED BY <1>1, <1>2, <1>3 DEF ServedInv

LEMMA GetKeepsServedInv ==
    ASSUME ServedInv, TornInv', NEW w \in Worker, Get(w)
    PROVE  ServedInv'
  <1> USE Versions DEF At, Goto, Fault, diskVars, memoryVars, workerVars,
      Get, TagToSend,
      ServedInv, TornInv, TypeOK, NoTag
  <1>1. GivenOut'
    BY DEF GivenOut, Alone, Writing
  <1>2. Recorded'
    BY DEF Recorded, GivenOut, Alone, Writing, Served
  <1>3. Served'
    BY DEF Recorded, GivenOut, Alone, Writing, Served
  <1> QED BY <1>1, <1>2, <1>3 DEF ServedInv

LEMMA NotModifiedKeepsServedInv ==
    ASSUME ServedInv, TornInv', NEW w \in Worker, NotModified(w)
    PROVE  ServedInv'
  <1> USE Versions DEF At, Goto, Fault, diskVars, memoryVars, workerVars,
      NotModified,
      ServedInv, TornInv, TypeOK, NoTag
  <1>1. GivenOut'
    BY DEF GivenOut, Alone, Writing
  <1>2. Recorded'
    BY DEF Recorded, GivenOut, Alone, Writing, Served
  <1>3. Served'
    BY DEF Recorded, GivenOut, Alone, Writing, Served
  <1> QED BY <1>1, <1>2, <1>3 DEF ServedInv

LEMMA ModifiedKeepsServedInv ==
    ASSUME ServedInv, TornInv', NEW w \in Worker, Modified(w)
    PROVE  ServedInv'
  <1> USE Versions DEF At, Goto, Fault, diskVars, memoryVars, workerVars,
      Modified,
      ServedInv, TornInv, TypeOK, NoTag
  <1>1. GivenOut'
    BY DEF GivenOut, Alone, Writing
  <1>2. Recorded'
    BY DEF Recorded, GivenOut, Alone, Writing, Served
  <1>3. Served'
    BY DEF Recorded, GivenOut, Alone, Writing, Served
  <1> QED BY <1>1, <1>2, <1>3 DEF ServedInv

LEMMA NetworkFailsKeepsServedInv ==
    ASSUME ServedInv, TornInv', NEW w \in Worker, NetworkFails(w)
    PROVE  ServedInv'
  <1> USE Versions DEF At, Goto, Fault, diskVars, memoryVars, workerVars,
      NetworkFails, Fail,
      ServedInv, TornInv, TypeOK, NoTag
  <1>1. GivenOut'
    BY DEF GivenOut, Alone, Writing
  <1>2. Recorded'
    BY DEF Recorded, GivenOut, Alone, Writing, Served
  <1>3. Served'
    BY DEF Recorded, GivenOut, Alone, Writing, Served
  <1> QED BY <1>1, <1>2, <1>3 DEF ServedInv

LEMMA WriteKeepsServedInv ==
    ASSUME ServedInv, TornInv', NEW w \in Worker, Write(w)
    PROVE  ServedInv'
  <1> USE Versions DEF At, Goto, Fault, diskVars, memoryVars, workerVars,
      Write, MoreData, Fail,
      ServedInv, TornInv, TypeOK, NoTag
  <1>1. GivenOut'
    BY DEF GivenOut, Alone, Writing
  <1>2. Recorded'
    <2>1. /\ \A x \in Worker : x # w => pc[x] = "idle"
          /\ pc' = pc \/ pc' = [pc EXCEPT ![w] = "remove"]
      BY DEF Alone
    <2>2. /\ pc[w] = "write" /\ \A x \in Worker : pc'[x] # "perform"
          /\ dst' = dst /\ etag' = etag /\ json' = json /\ server' = server
      <3>1. pc[w] = "write" /\ UNCHANGED <<dst, etag, json, server>>
        OBVIOUS
      <3>2. \A x \in Worker : pc'[x] = pc[x] \/ pc'[x] = "remove"
        BY <2>1
      <3> QED BY <2>1, <3>1, <3>2
    <2>3. \A x \in Worker : pc[x] # "delete"
      BY <2>1, <2>2
    <2> HIDE DEF ServedInv, TornInv, TypeOK, Write
    <2> QED BY <2>2, <2>3 DEF Recorded, ServedInv
  <1>3. Served'
    <2>1. /\ \A x \in Worker : x # w => pc[x] = "idle"
          /\ \/ pc' = pc
             \/ pc' = [pc EXCEPT ![w] = "remove"] /\ ok' = [ok EXCEPT ![w] = FALSE]
      BY DEF Alone
    <2>2. \A x \in Worker : x # w => pc'[x] = "idle"
      BY <2>1
    <2>3. pc'[w] = "write" \/ (pc'[w] = "remove" /\ ~ok'[w])
      BY <2>1
    <2> HIDE DEF ServedInv, TornInv, TypeOK, Write
    <2> QED BY <2>2, <2>3 DEF Served
  <1> QED BY <1>1, <1>2, <1>3 DEF ServedInv

LEMMA SetKeepsServedInv ==
    ASSUME ServedInv, TornInv', NEW w \in Worker, Set(w)
    PROVE  ServedInv'
  <1> USE Versions DEF At, Goto, Fault, diskVars, memoryVars, workerVars,
      Set, Performed, MoreData, TagReceived,
      ServedInv, TornInv, TypeOK, NoTag
  <1>1. GivenOut'
    BY DEF GivenOut, Alone, Writing
  <1>2. Recorded'
    BY DEF Recorded, GivenOut, Alone, Writing, Served
  <1>3. Served'
    BY DEF Recorded, GivenOut, Alone, Writing, Served
  <1> QED BY <1>1, <1>2, <1>3 DEF ServedInv

LEMMA DeleteOldKeepsServedInv ==
    ASSUME DeleteWorks, ServedInv, TornInv', NEW w \in Worker, DeleteOld(w)
    PROVE  ServedInv'
  <1> USE Versions DEF At, Goto, Fault, diskVars, memoryVars, workerVars,
      DeleteOld,
      ServedInv, TornInv, TypeOK, NoTag, DeleteWorks
  <1>1. GivenOut'
    BY DeleteWorks DEF GivenOut, Alone, Writing
  <1>2. Recorded'
    BY DeleteWorks DEF Recorded, GivenOut, Alone, Writing, Served
  <1>3. Served'
    BY DeleteWorks DEF Recorded, GivenOut, Alone, Writing, Served
  <1> QED BY <1>1, <1>2, <1>3 DEF ServedInv

LEMMA RenameKeepsServedInv ==
    ASSUME ServedInv, TornInv', NEW w \in Worker, Rename(w)
    PROVE  ServedInv'
  <1> USE Versions DEF At, Goto, Fault, diskVars, memoryVars, workerVars,
      Rename,
      ServedInv, TornInv, TypeOK, NoTag
  <1>1. GivenOut'
    BY DEF GivenOut, Alone, Writing
  <1>2. Recorded'
    <2>1. /\ dst = NoFile /\ pc[w] = "rename" /\ pc'[w] = "remove"
          /\ \A x \in Worker : x # w => pc[x] = "idle" /\ pc'[x] = "idle"
          /\ UNCHANGED <<server, json, etag>>
      BY DEF Served, Alone
    <2>2. dst' = NoFile \/ dst' = Whole(resp[w])
      BY <2>1 DEF Writing
    <2>3. /\ etag <= resp[w] /\ json <= resp[w] /\ resp[w] <= server
          /\ server \in Nat /\ resp[w] \in Nat /\ etag \in Nat /\ json \in Nat
      <3>1. etag <= resp[w] /\ json <= resp[w] /\ resp[w] <= server
        BY <2>1 DEF GivenOut, Writing
      <3> QED BY <3>1, Numbers
    <2>4. (etag = server \/ json = server) => resp[w] = server
      BY <2>3
    <2>5. \A x \in Worker : pc'[x] # "perform"
      BY <2>1
    <2> QED BY <2>1, <2>2, <2>4, <2>5 DEF Recorded
  <1>3. Served'
    BY DEF Recorded, GivenOut, Alone, Writing, Served
  <1> QED BY <1>1, <1>2, <1>3 DEF ServedInv

LEMMA RemoveKeepsServedInv ==
    ASSUME ServedInv, TornInv', NEW w \in Worker, Remove(w)
    PROVE  ServedInv'
  <1> USE Versions DEF At, Goto, Fault, diskVars, memoryVars, workerVars,
      Remove,
      ServedInv, TornInv, TypeOK, NoTag
  <1>1. GivenOut'
    BY DEF GivenOut, Alone, Writing
  <1>2. Recorded'
    BY DEF Recorded, GivenOut, Alone, Writing, Served
  <1>3. Served'
    BY DEF Recorded, GivenOut, Alone, Writing, Served
  <1> QED BY <1>1, <1>2, <1>3 DEF ServedInv

LEMMA ReturnKeepsServedInv ==
    ASSUME ServedInv, TornInv', NEW w \in Worker, Return(w)
    PROVE  ServedInv'
  <1> USE Versions DEF At, Goto, Fault, diskVars, memoryVars, workerVars,
      Return,
      ServedInv, TornInv, TypeOK, NoTag
  <1>1. GivenOut'
    BY DEF GivenOut, Alone, Writing
  <1>2. Recorded'
    BY DEF Recorded, GivenOut, Alone, Writing, Served
  <1>3. Served'
    BY DEF Recorded, GivenOut, Alone, Writing, Served
  <1> QED BY <1>1, <1>2, <1>3 DEF ServedInv

LEMMA UpdateKeepsServedInv ==
    ASSUME ServedInv, TornInv', Update
    PROVE  ServedInv'
  <1> USE Versions DEF Fault, diskVars, memoryVars, workerVars, Update,
      ServedInv, TornInv, TypeOK, NoTag
  <1>1. GivenOut'
    <2>1. /\ server \in Nat /\ server' = server + 1 /\ etag \in Nat /\ json \in Nat
          /\ etag' = etag /\ json' = json
      OBVIOUS
    <2>2. etag' <= server' /\ json' <= server'
      BY <2>1 DEF GivenOut
    <2>3. \A w \in Worker : sent[w] \in Nat
      BY Numbers
    <2>4. \A w \in Worker : pc[w] = "perform" => sent[w] <= server'
      BY <2>1, <2>3 DEF GivenOut
    <2> QED BY <2>2, <2>4 DEF GivenOut
  <1>2. Recorded'
    BY DEF Recorded, GivenOut, Alone
  <1>3. Served'
    BY DEF Served, Alone
  <1> QED BY <1>1, <1>2, <1>3 DEF ServedInv

LEMMA QuitKeepsServedInv ==
    ASSUME ServedInv, TornInv', Quit
    PROVE  ServedInv'
  <1> USE Versions DEF Fault, diskVars, memoryVars, workerVars, Quit, Stopped,
      ServedInv, TornInv, TypeOK, NoTag
  <1>1. GivenOut'
    BY DEF GivenOut, Alone
  <1>2. Recorded'
    BY DEF Recorded, GivenOut, Alone
  <1>3. Served'
    BY DEF Served, Alone
  <1> QED BY <1>1, <1>2, <1>3 DEF ServedInv

LEMMA CrashKeepsServedInv ==
    ASSUME ServedInv, TornInv', Crash
    PROVE  ServedInv'
  <1> USE Versions DEF Fault, diskVars, memoryVars, workerVars, Crash, Stopped,
      ServedInv, TornInv, TypeOK, NoTag
  <1>1. GivenOut'
    BY DEF GivenOut, Alone
  <1>2. Recorded'
    BY DEF Recorded, GivenOut, Alone
  <1>3. Served'
    BY DEF Served, Alone
  <1> QED BY <1>1, <1>2, <1>3 DEF ServedInv

LEMMA RestartKeepsServedInv ==
    ASSUME ServedInv, TornInv', Restart
    PROVE  ServedInv'
  <1> USE Versions DEF Fault, diskVars, memoryVars, workerVars, Restart,
      ServedInv, TornInv, TypeOK, NoTag
  <1>1. GivenOut'
    BY DEF GivenOut, Alone
  <1>2. Recorded'
    BY DEF Recorded, GivenOut, Alone
  <1>3. Served'
    BY DEF Served, Alone
  <1> QED BY <1>1, <1>2, <1>3 DEF ServedInv

LEMMA ServedStep ==
    ASSUME OneAtATime, GrowingSizes, DeleteWorks, ServedInv, [Next]_vars
    PROVE  ServedInv'
  <1>0. TornInv'
    BY TornStep, OneAtATime, GrowingSizes DEF ServedInv
  <1>1. CASE Update
    BY <1>0, <1>1, UpdateKeepsServedInv
  <1>2. CASE Quit
    BY <1>0, <1>2, QuitKeepsServedInv
  <1>3. CASE Crash
    BY <1>0, <1>3, CrashKeepsServedInv
  <1>4. CASE Restart
    BY <1>0, <1>4, RestartKeepsServedInv
  <1>5. CASE \E w \in Worker : Start(w)
    BY OneAtATime, DeleteWorks, <1>0, <1>5, StartKeepsServedInv
  <1>6. CASE \E w \in Worker : Get(w)
    BY OneAtATime, DeleteWorks, <1>0, <1>6, GetKeepsServedInv
  <1>7. CASE \E w \in Worker : NotModified(w)
    BY OneAtATime, DeleteWorks, <1>0, <1>7, NotModifiedKeepsServedInv
  <1>8. CASE \E w \in Worker : Modified(w)
    BY OneAtATime, DeleteWorks, <1>0, <1>8, ModifiedKeepsServedInv
  <1>9. CASE \E w \in Worker : NetworkFails(w)
    BY OneAtATime, DeleteWorks, <1>0, <1>9, NetworkFailsKeepsServedInv
  <1>10. CASE \E w \in Worker : Write(w)
    BY OneAtATime, DeleteWorks, <1>0, <1>10, WriteKeepsServedInv
  <1>11. CASE \E w \in Worker : Set(w)
    BY OneAtATime, DeleteWorks, <1>0, <1>11, SetKeepsServedInv
  <1>12. CASE \E w \in Worker : DeleteOld(w)
    BY OneAtATime, DeleteWorks, <1>0, <1>12, DeleteOldKeepsServedInv
  <1>13. CASE \E w \in Worker : Rename(w)
    BY OneAtATime, DeleteWorks, <1>0, <1>13, RenameKeepsServedInv
  <1>14. CASE \E w \in Worker : Remove(w)
    BY OneAtATime, DeleteWorks, <1>0, <1>14, RemoveKeepsServedInv
  <1>15. CASE \E w \in Worker : Return(w)
    BY OneAtATime, DeleteWorks, <1>0, <1>15, ReturnKeepsServedInv
  <1>16. CASE UNCHANGED vars
    BY <1>0, <1>16 DEF ServedInv, GivenOut, Recorded, Served, vars,
        diskVars, memoryVars,
              workerVars
  <1> QED BY <1>1, <1>2, <1>3, <1>4, <1>5, <1>6, <1>7, <1>8, <1>9, <1>10,
      <1>11, <1>12, <1>13, <1>14, <1>15, <1>16 DEF Next, Download

(* If besides deleting the old file works, a download that succeeds leaves *)
(* the version of the server's answer in the file, also when the answer is *)
(* that it was there already: no failure, crash or restart leaves a tag    *)
(* for a file that is another version.                                     *)
THEOREM SuccessServed ==
    ASSUME OneAtATime, GrowingSizes, DeleteWorks
    PROVE  Spec => []SuccessIsServed
  <1>1. ServedInv /\ [Next]_vars => ServedInv'
    BY ServedStep, OneAtATime, GrowingSizes, DeleteWorks
  <1>2. ServedInv => SuccessIsServed
    BY DEF ServedInv, Served, SuccessIsServed
  <1> QED BY <1>1, <1>2, ServedInit, PTL DEF Spec

=============================================================================
