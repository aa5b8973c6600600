------------------------- MODULE InstallStreamProofs -------------------------
(***************************************************************************)
(* Theorems about InstallStream, for files and buffers of every size, and  *)
(* any number of sessions.                                                 *)
(***************************************************************************)
EXTENDS InstallStream, SequenceTheorems, TLAPS

-----------------------------------------------------------------------------
(* The assumptions of the theorems *)

(* The menu started the server, and stops it when it goes. *)
OwnServer == ~WasEnabled

(* A session with one file, or with files that are larger than the buffer, *)
(* which the host sends in full.  In the FTP folder, where files queue, no *)
(* install of the latter fails.                                            *)
OneFile(s) == s.files = 1
Large(s) == s.size > MaxBuffer /\ "abort" \notin s.events
Unfailing(s) == /\ Large(s)
                /\ s.folder = "ftp"
                /\ s.events \cap {"fail", "cancel"} = {}

Orderly == \A s \in Sessions :
               OneFile(s) \/ Unfailing(s) \/ (Large(s) /\ s.folder = "mtp")

(* A host that sends its files in full to a menu that is not left has files *)
(* that are larger than the buffer.                                         *)
LargeUnlessLeft ==
    \A s \in Sessions : s.events \cap {"abort", "leave"} = {} => Large(s)

-----------------------------------------------------------------------------
(* The inductive invariant *)

(* Where the server, the install and the main thread are *)
Starting == {"start_state", "start_source", "start_new"}
Pushing  == {"push_head", "push_body", "push_wait", "push_woken"}
Reading  == {"read", "chunk", "chunk_wait", "chunk_woken", "finish"}
Boxed    == {"box", "join"}
Stopping == {"stop", "stop_disable", "gone"}
Leaving  == {"leave", "exit_server"} \cup Stopping

(* The main thread, the menu and the install: the box is there as long as  *)
(* the install is, and the state of the menu and INSTALL_STATE follow it.  *)
Life ==
    /\ install # "none" <=> main \in Boxed
    /\ m_state = "Progress" <=> main \in Boxed
    /\ main = "settle" => m_state = "Failed"
    /\ INSTALL_STATE =
           IF m_state \in {"None", "Connected"} \/ install = "start"
           THEN "None"
           ELSE IF install \in Reading \cup {"capture"}
           THEN "Progress" ELSE "Finished"
    /\ m_source = 0 => m_state = "None" \/ main = "gone"
    /\ m_state = "None" => m_source = 0 /\ (enabled \/ main \in Leaving)
    /\ main \in Leaving \/ pop => "leave" \in session.events

(* The main thread and the server: the menu goes after the server has. *)
Exits ==
    /\ main \in Stopping => server = "stopped"
    /\ server = "stopped" => main \in Stopping \cup {"exit_server"}
    /\ stop => main \in Stopping

(* The queue: the file in progress is its first and has the menu's stream. *)
Queued ==
    /\ \A i, j \in DOMAIN queued_files : queued_files[i] = queued_files[j] =>
           i = j
    /\ \A i \in DOMAIN queued_files :
           queued_files[i] <= session.files /\ host[queued_files[i]] # "new"
    /\ Mtp => Len(queued_files) <= 1 /\ server # "next"
    /\ in_progress /\ server # "stopped" =>
           queued_files # <<>> /\ m_source = queued_files[1]
    /\ ~in_progress /\ server = "idle" => queued_files = <<>>
    /\ server \in Starting =>
           ~in_progress /\ queued_files # <<>> /\ cur = queued_files[1]
    /\ server = "start_source" => m_source # 0
    /\ server \in Pushing \cup {"close_wait"} => in_progress /\ cur = m_source
    /\ server \in Pushing => /\ host[cur] = "open"
                             /\ left >= 1 /\ sent[cur] + left <= session.size
    /\ \A f \in File : sent[f] > 0 /\ host[f] \in {"open", "error"} =>
           in_progress /\ queued_files # <<>> /\ queued_files[1] = f
    /\ \A f \in File : sent[f] <= session.size

(* Nothing has happened to a file that waits for its turn. *)
Waiting(f) ==
    \/ host[f] = "new"
    \/ \E i \in DOMAIN queued_files :
           queued_files[i] = f /\ (i > 1 \/ ~in_progress)

(* And its stream is not the one that the menu has. *)
Untouched ==
    /\ \A f \in File : Waiting(f) =>
           /\ host[f] \in {"new", "open"}
           /\ sent[f] = 0 /\ m_buffer[f] = <<>> /\ outcome[f] = "none"
    /\ m_source # 0 => ~Waiting(m_source)

(* The stream that is read is the menu's, and its outcome comes with the   *)
(* end of the install.                                                     *)
Alive ==
    /\ install \in Reading \cup {"disable"} => source = m_source
    /\ m_source # 0 =>
           (outcome[m_source] = "none" <=> INSTALL_STATE # "Finished")

(* A file was started, and nothing else may be started until its install   *)
(* has begun.                                                              *)
Connected == m_state = "Connected" /\ main = "frame"

Starts ==
    /\ server \in Starting => (enabled \/ main \in Leaving) /\ ~Connected
    /\ server \in {"start_source", "start_new"} => m_state # "Progress"
    /\ Connected /\ server = "next" => in_progress \/ queued_files = <<>>

(* With one file there is nothing else to start. *)
Single ==
    OneFile(session) =>
        /\ host[1] = "new" => m_state = "None" /\ queued_files = <<>>
        /\ queued_files # <<>> /\ ~in_progress => m_state = "None"

(* With large files the first is not closed before its install has begun,  *)
(* as the buffer cannot hold all of it.                                    *)
Held ==
    Large(session) /\ (Connected \/ install = "start") =>
        /\ enabled /\ in_progress /\ server # "close_wait"
        /\ host[m_source] # "error" /\ m_active[m_source]
        /\ sent[m_source] = Len(m_buffer[m_source])

(* In a session without failures every install succeeds: the stream is     *)
(* disabled when all of the file is in it.                                 *)
Successful ==
    Unfailing(session) =>
        /\ ~cancelled /\ rc = "ok" /\ main # "settle" /\ m_state # "Failed"
        /\ install # "disable"
        /\ enabled \/ main \in Leaving
        /\ \A f \in File : host[f] = "error" => ~enabled
        /\ in_progress /\ server \notin {"close_wait", "stopped"} =>
               m_active[m_source]
        /\ install \in Reading \cup {"start", "capture"} =>
               m_active[m_source] \/ sent[m_source] = session.size
        /\ install \in {"chunk", "chunk_wait", "chunk_woken"} =>
               need >= 1 /\ Len(got[source]) + need <= session.want

(* The parts together, with the order of the blocks *)
StreamInv ==
    TypeOK /\ Life /\ Exits /\ Queued /\ Untouched /\ Alive /\ Starts
    /\ Single /\ Held /\ Successful /\ InOrder

-----------------------------------------------------------------------------
(* Lemmas *)

LEMMA SessionFacts ==
    ASSUME TypeOK, Orderly
    PROVE  /\ session.files \in File /\ session.size \in 1 .. FileSize
           /\ session.want \in 1 .. session.size
           /\ session.folder \in {"ftp", "mtp"}
           /\ OneFile(session) \/ Unfailing(session)
              \/ (Large(session) /\ session.folder = "mtp")
           /\ Unfailing(session) => Large(session) /\ session.folder = "ftp"
  <1>1. session \in Sessions /\ session \in Session
    BY InstallStreamAssumption DEF TypeOK
  <1>2. session.files \in File /\ session.size \in 1 .. FileSize
        /\ session.want \in 1 .. FileSize /\ session.folder \in {"ftp", "mtp"}
    BY <1>1 DEF Session
  <1>3. session.want <= session.size
    BY <1>1, InstallStreamAssumption
  <1>4. session.want \in 1 .. session.size
    BY <1>2, <1>3
  <1> QED BY <1>1, <1>2, <1>4 DEF Orderly, Unfailing

(* Sequences and their indices *)
LEMMA Indices ==
    ASSUME NEW S, NEW q \in Seq(S)
    PROVE  /\ DOMAIN q = 1 .. Len(q) /\ Len(q) \in Nat
           /\ q # <<>> <=> Len(q) >= 1
           /\ \A i \in 1 .. Len(q) : q[i] \in S
           /\ q # <<>> => Head(q) = q[1] /\ q[1] \in S
  OBVIOUS

(* The queue is a sequence of files *)
LEMMA QueueFacts ==
    ASSUME TypeOK
    PROVE  /\ queued_files \in Seq(File) /\ Len(queued_files) \in Nat
           /\ DOMAIN queued_files = 1 .. Len(queued_files)
           /\ \A i \in DOMAIN queued_files : queued_files[i] \in File
           /\ queued_files # <<>> =>
                  /\ Head(queued_files) = queued_files[1]
                  /\ 1 \in DOMAIN queued_files /\ queued_files[1] \in File
  BY Indices DEF TypeOK

(* While the server runs, the file in progress is the first of the queue *)
LEMMA InProgress ==
    ASSUME TypeOK, Queued, Untouched, in_progress, server # "stopped"
    PROVE  /\ queued_files # <<>> /\ m_source = queued_files[1]
           /\ m_source \in File /\ m_source # 0 /\ ~Waiting(m_source)
  <1>1. queued_files # <<>> /\ m_source = queued_files[1]
    BY DEF Queued
  <1>2. m_source \in File
    BY <1>1, QueueFacts
  <1>3. m_source # 0
    BY <1>2 DEF File
  <1> QED BY <1>1, <1>2, <1>3 DEF Untouched

(* In a session with one file the queue never holds two *)
LEMMA OneInQueue ==
    ASSUME TypeOK, Queued, OneFile(session), queued_files # <<>>
    PROVE  Len(queued_files) = 1
  <1>1. \A i \in DOMAIN queued_files : queued_files[i] = 1
    BY QueueFacts DEF Queued, OneFile, File
  <1>2. \A i \in DOMAIN queued_files : i = 1
    BY <1>1, QueueFacts DEF Queued
  <1> QED BY <1>2

(* The queue with a file at its end (queued_files.push_back) *)
LEMMA Appended ==
    ASSUME NEW q \in Seq(File), NEW f \in File
    PROVE  /\ Append(q, f) \in Seq(File) /\ Append(q, f) # <<>>
           /\ Len(Append(q, f)) = Len(q) + 1
           /\ \A i \in 1 .. Len(q) : Append(q, f)[i] = q[i]
           /\ Append(q, f)[Len(q) + 1] = f
  OBVIOUS

(* It is another queue *)
LEMMA Longer ==
    ASSUME NEW q \in Seq(File), NEW f \in File
    PROVE  Append(q, f) # q
  <1> SUFFICES ASSUME Append(q, f) = q PROVE FALSE
    OBVIOUS
  <1>1. Len(Append(q, f)) = Len(q) + 1 /\ Len(q) \in Nat
    BY Appended
  <1>2. Len(q) = Len(q) + 1
    BY <1>1, Zenon
  <1> QED BY <1>2

(* The queue without its first file (queued_files.pop_front) *)
LEMMA TailOf ==
    ASSUME NEW q \in Seq(File), q # <<>>
    PROVE  /\ Tail(q) \in Seq(File) /\ Len(Tail(q)) = Len(q) - 1
           /\ \A i \in 1 .. Len(q) - 1 : Tail(q)[i] = q[i + 1]
  OBVIOUS

(* The queue without its k-th file (queued_files.erase) *)
LEMMA WithoutOne ==
    ASSUME NEW D, NEW q \in Seq(D), NEW k \in 1 .. Len(q)
    PROVE  /\ Without(q, k) \in Seq(D) /\ Len(Without(q, k)) = Len(q) - 1
           /\ \A i \in 1 .. Len(q) - 1 :
                  Without(q, k)[i] = q[IF i < k THEN i ELSE i + 1]
  <1> DEFINE a == SubSeq(q, 1, k - 1)
             b == SubSeq(q, k + 1, Len(q))
  <1>1. a \in Seq(D) /\ Len(a) = k - 1 /\ \A i \in 1 .. k - 1 : a[i] = q[i]
    BY SubSeqProperties
  <1>2. b \in Seq(D) /\ Len(b) = Len(q) - k
        /\ \A i \in 1 .. Len(q) - k : b[i] = q[k + i]
    <2>1. CASE k < Len(q)
      BY SubSeqProperties
    <2>2. CASE k = Len(q)
      BY <2>2
    <2> QED BY <2>2
  <1> HIDE DEF a, b
  <1>3. a \o b \in Seq(D) /\ Len(a \o b) = Len(q) - 1
        /\ \A i \in 1 .. Len(q) - 1 :
               (a \o b)[i] = IF i < k THEN a[i] ELSE b[i - (k - 1)]
    <2>1. a \o b \in Seq(D) /\ Len(a \o b) = Len(a) + Len(b)
          /\ \A i \in 1 .. Len(a) + Len(b) :
                 (a \o b)[i] = IF i <= Len(a) THEN a[i] ELSE b[i - Len(a)]
      BY <1>1, <1>2, ConcatProperties, Zenon
    <2> QED BY <1>1, <1>2, <2>1
  <1>4. ASSUME NEW i \in 1 .. Len(q) - 1
        PROVE  (a \o b)[i] = q[IF i < k THEN i ELSE i + 1]
    <2>1. CASE i < k
      BY <1>1, <2>1
    <2>2. CASE ~(i < k)
      <3>1. i - (k - 1) \in 1 .. Len(q) - k /\ k + (i - (k - 1)) = i + 1
        BY <2>2
      <3> QED BY <1>2, <1>3, <3>1
    <2> QED BY <2>1, <2>2
  <1> QED BY <1>3, <1>4 DEF Without, a, b

(* The blocks of a file *)
Block == 1 .. FileSize

(* Blocks of the buffer before the blocks that are written to it *)
LEMMA Joined ==
    ASSUME NEW a \in Seq(Block), NEW b \in Seq(Block)
    PROVE  /\ a \o b \in Seq(Block) /\ Len(a \o b) = Len(a) + Len(b)
           /\ \A i \in 1 .. Len(a) + Len(b) :
                  (a \o b)[i] = IF i <= Len(a) THEN a[i] ELSE b[i - Len(a)]
  BY ConcatProperties

(* Reading from the front of a buffer is writing to the end of the file *)
LEMMA Regrouped ==
    ASSUME NEW a \in Seq(Block), NEW b \in Seq(Block), NEW c \in Seq(Block)
    PROVE  (a \o b) \o c = a \o (b \o c)
  BY ConcatAssociative

(* The first m blocks of a file, and the n blocks after them *)
First(m) == [i \in 1 .. m |-> i]
After(m, n) == [i \in 1 .. n |-> m + i]

(* What the host was told is taken, over a write and over a read *)
LEMMA Pushed ==
    ASSUME NEW g \in Seq(Block), NEW b \in Seq(Block),
           NEW m \in Nat, NEW n \in Nat, m + n <= FileSize
    PROVE  /\ b \o After(m, n) \in Seq(Block)
           /\ Len(b \o After(m, n)) = Len(b) + n
           /\ g \o b = First(m) => g \o (b \o After(m, n)) = First(m + n)
  <1> DEFINE w == [i \in 1 .. n |-> m + i]
             c == b \o w
             u == [i \in 1 .. m |-> i]
  <1>1. w \in Seq(Block) /\ Len(w) = n /\ \A i \in 1 .. n : w[i] = m + i
    <2>1. \A i \in 1 .. n : m + i \in 1 .. m + n
      OBVIOUS
    <2>2. \A i \in 1 .. n : m + i \in Block
      BY InstallStreamAssumption DEF Block
    <2> QED BY <2>2
  <1>2. u \in Seq(Block) /\ Len(u) = m /\ \A i \in 1 .. m : u[i] = i
    <2>1. \A i \in 1 .. m : i \in Block
      BY InstallStreamAssumption DEF Block
    <2> QED BY <2>1
  <1> HIDE DEF w, u
  <1>3. c \in Seq(Block) /\ Len(c) = Len(b) + n
    BY <1>1, Joined
  <1>4. g \o b = u => g \o c = u \o w
    <2>1. g \o c = (g \o b) \o w
      BY Regrouped
    <2> QED BY <2>1
  <1>5. u \o w \in Seq(Block) /\ Len(u \o w) = m + n
        /\ \A i \in 1 .. m + n :
               (u \o w)[i] = IF i <= m THEN u[i] ELSE w[i - m]
    <2>1. u \o w \in Seq(Block) /\ Len(u \o w) = Len(u) + Len(w)
          /\ \A i \in 1 .. Len(u) + Len(w) :
                 (u \o w)[i] = IF i <= Len(u) THEN u[i] ELSE w[i - Len(u)]
      BY <1>1, <1>2, Joined
    <2> QED BY <1>1, <1>2, <2>1
  <1>6. ASSUME NEW i \in 1 .. m + n PROVE (u \o w)[i] = i
    <2>1. CASE i <= m
      BY <1>2, <2>1
    <2>2. CASE ~(i <= m)
      <3>1. i - m \in 1 .. n /\ m + (i - m) = i
        BY <2>2
      <3> QED BY <1>1, <1>5, <3>1
    <2> QED BY <2>1, <2>2
  <1>7. u \o w = [i \in 1 .. m + n |-> i]
    <2> DEFINE x == u \o w
    <2>1. x \in Seq(Block) /\ Len(x) = m + n /\ \A i \in 1 .. m + n : x[i] = i
      BY <1>5, <1>6
    <2> HIDE DEF x
    <2>2. x = [i \in 1 .. m + n |-> i]
      BY <2>1
    <2> QED BY <2>2 DEF x
  <1> QED BY <1>3, <1>4, <1>7 DEF w, u, First, After

(* A read of the first n blocks of the buffer *)
LEMMA Taken ==
    ASSUME NEW g \in Seq(Block), NEW b \in Seq(Block), NEW n \in 0 .. Len(b)
    PROVE  /\ g \o SubSeq(b, 1, n) \in Seq(Block)
           /\ Len(g \o SubSeq(b, 1, n)) = Len(g) + n
           /\ Erased(b, n) \in Seq(Block) /\ Len(Erased(b, n)) = Len(b) - n
           /\ (g \o SubSeq(b, 1, n)) \o Erased(b, n) = g \o b
  <1> DEFINE c == SubSeq(b, 1, n)
             d == SubSeq(b, n + 1, Len(b))
  <1>1. c \in Seq(Block) /\ Len(c) = n /\ \A i \in 1 .. n : c[i] = b[i]
    <2>1. \A i \in 1 .. n : b[i] \in Block
      OBVIOUS
    <2>2. c \in Seq(Block) /\ Len(c) = (IF 1 <= n THEN n - 1 + 1 ELSE 0)
          /\ \A i \in 1 .. n - 1 + 1 : c[i] = b[1 + i - 1]
      BY SubSeqProperties
    <2> QED BY <2>2
  <1>2. d \in Seq(Block) /\ Len(d) = Len(b) - n
        /\ \A i \in 1 .. Len(b) - n : d[i] = b[n + i]
    <2>1. \A i \in n + 1 .. Len(b) : b[i] \in Block
      OBVIOUS
    <2>2. d \in Seq(Block)
            /\ Len(d) = (IF n + 1 <= Len(b) THEN Len(b) - (n + 1) + 1 ELSE 0)
          /\ \A i \in 1 .. Len(b) - (n + 1) + 1 : d[i] = b[n + 1 + i - 1]
      BY SubSeqProperties
    <2> QED BY <2>2
  <1> HIDE DEF c, d
  <1>3. c \o d = b
    <2> DEFINE x == c \o d
    <2>1. x \in Seq(Block) /\ Len(x) = Len(b)
          /\ \A i \in 1 .. Len(b) : x[i] = IF i <= n THEN c[i] ELSE d[i - n]
      BY <1>1, <1>2
    <2>2. ASSUME NEW i \in 1 .. Len(b) PROVE x[i] = b[i]
      <3>1. CASE i <= n
        BY <1>1, <3>1
      <3>2. CASE ~(i <= n)
        <4>1. i - n \in 1 .. Len(b) - n /\ n + (i - n) = i
          BY <3>2
        <4> QED BY <1>2, <2>1, <4>1
      <3> QED BY <3>1, <3>2
    <2> HIDE DEF x
    <2>3. x = b
      BY <2>1, <2>2
    <2> QED BY <2>3 DEF x
  <1>4. (g \o c) \o d = g \o b
    <2>1. (g \o c) \o d = g \o (c \o d)
      BY <1>1, <1>2, Regrouped
    <2> QED BY <1>3, <2>1
  <1>5. g \o c \in Seq(Block) /\ Len(g \o c) = Len(g) + n
    BY <1>1
  <1> QED BY <1>2, <1>4, <1>5 DEF c, d, Erased

(* Open: the new file is at the end of the queue, and untouched *)
LEMMA OpenKeeps ==
    ASSUME OwnServer, Orderly, StreamInv, NEW f \in File, Open(f)
    PROVE  StreamInv'
  <1> USE DEF Open, sharedVars, hostVars, streamVars, menuVars, mainVars,
              serverVars, installVars
  <1>0. /\ TypeOK /\ Life /\ Exits /\ Queued /\ Untouched /\ Alive /\ Starts
        /\ Single /\ Held /\ Successful /\ InOrder
    BY DEF StreamInv
  <1>s. /\ session.files \in File /\ session.size \in 1 .. FileSize
        /\ session.want \in 1 .. session.size
        /\ session.folder \in {"ftp", "mtp"}
        /\ OneFile(session) \/ Unfailing(session)
           \/ (Large(session) /\ session.folder = "mtp")
        /\ Unfailing(session) => Large(session) /\ session.folder = "ftp"
    BY <1>0, SessionFacts
  <1>a. /\ server = "idle"
        /\ main \notin Stopping
        /\ host[f] = "new"
        /\ f <= session.files
        /\ cur' = f
        /\ UNCHANGED <<session, left, in_progress, enabled, sent, menuVars,
                       streamVars, mainVars, install, installVars>>
    BY <1>0 DEF Exits
  <1>b. \/ /\ enabled /\ (Mtp => ~in_progress /\ queued_files = <<>>)
           /\ queued_files' = Append(queued_files, f)
           /\ host' = [host EXCEPT ![f] = "open"]
           /\ server' = IF Mtp THEN "start_state" ELSE "next"
        \/ /\ host' = [host EXCEPT ![f] = "refused"]
           /\ UNCHANGED <<queued_files, server>>
    OBVIOUS
  <1> HIDE DEF Open
  <1>c. /\ queued_files \in Seq(File)
        /\ DOMAIN queued_files = 1 .. Len(queued_files)
        /\ Len(queued_files) \in Nat
        /\ queued_files # <<>> <=> Len(queued_files) >= 1
        /\ host \in [File -> {"new", "open", "error", "closed", "refused"}]
    BY <1>0 DEF TypeOK
  <1>d. queued_files' = Append(queued_files, f) =>
           /\ queued_files' \in Seq(File) /\ queued_files' # <<>>
           /\ DOMAIN queued_files' = 1 .. Len(queued_files) + 1
           /\ Len(queued_files') = Len(queued_files) + 1
           /\ \A i \in 1 .. Len(queued_files) :
                  queued_files'[i] = queued_files[i]
           /\ queued_files'[Len(queued_files) + 1] = f
    BY <1>c
  <1>e. /\ sent[f] = 0 /\ m_buffer[f] = <<>> /\ outcome[f] = "none"
        /\ m_source # 0 => m_source # f
        /\ \A i \in 1 .. Len(queued_files) : queued_files[i] # f
    BY <1>0, <1>a DEF Untouched, Waiting, Queued
  <1>g. queued_files' = Append(queued_files, f) => queued_files' # queued_files
    BY <1>c, Longer, Zenon
  <1>f. Connected => in_progress /\ ~OneFile(session)
    <2>1. CASE OneFile(session)
      <3>1. f = 1
        BY <1>a, <2>1 DEF OneFile, File
      <3> QED BY <1>0, <1>a, <2>1, <3>1 DEF Single, Connected
    <2>2. CASE ~OneFile(session)
      BY <1>0, <1>s, <2>2 DEF Held
    <2> QED BY <2>1, <2>2
  <1>1. TypeOK'
    <2>1. queued_files' \in Seq(File)
      BY <1>b, <1>c
    <2>2. host' \in [File -> {"new", "open", "error", "closed", "refused"}]
      BY <1>b, <1>c
    <2>3. server' \in ServerPc /\ cur' \in File
      BY <1>a, <1>b DEF ServerPc, InCallback
    <2> QED BY SMTT(30), <1>0, <1>a, <2>1, <2>2, <2>3 DEF TypeOK
  <1>2. Life'
    BY <1>0, <1>a DEF Life
  <1>3. Exits'
    BY <1>0, <1>a, <1>b DEF Exits
  <1>4. Queued'
    <2>1. CASE queued_files' = Append(queued_files, f)
      <3>1. /\ (Mtp => ~in_progress /\ queued_files = <<>>)
            /\ host' = [host EXCEPT ![f] = "open"]
            /\ server' = IF Mtp THEN "start_state" ELSE "next"
        <4>1. queued_files' # queued_files
          BY <1>g, <2>1, Zenon
        <4> QED BY <1>b, <4>1
      <3>2. \A i, j \in DOMAIN queued_files' :
                queued_files'[i] = queued_files'[j] => i = j
        BY <1>0, <1>e, <2>1 DEF Queued
      <3>3. \A i \in DOMAIN queued_files' :
                /\ queued_files'[i] <= session.files
                /\ host'[queued_files'[i]] # "new"
        BY <1>0, <1>a, <1>c, <2>1, <3>1 DEF Queued
      <3>4. queued_files # <<>> => queued_files'[1] = queued_files[1]
        BY <2>1
      <3>5. \A g \in File : sent[g] > 0 /\ host'[g] \in {"open", "error"} =>
                in_progress /\ queued_files # <<>> /\ queued_files[1] = g
        BY <1>0, <1>e, <3>1 DEF Queued
      <3>6. queued_files = <<>> =>
                queued_files'[1] = f /\ Len(queued_files') = 1
        BY <2>1
      <3>7. /\ ~in_progress => queued_files = <<>>
            /\ in_progress => queued_files # <<>> /\ m_source = queued_files[1]
            /\ \A g \in File : sent[g] <= session.size
        BY <1>0, <1>a DEF Queued
      <3>8. /\ server' \in {"start_state", "next"}
            /\ (server' = "start_state" <=> Mtp)
        BY <3>1
      <3> QED BY <1>a, <2>1, <3>1, <3>2, <3>3, <3>5, <3>7
                 DEF Queued, Mtp, Starting, Pushing
    <2>2. CASE /\ host' = [host EXCEPT ![f] = "refused"]
               /\ UNCHANGED <<queued_files, server>>
      <3>1. \A i \in DOMAIN queued_files :
                /\ queued_files[i] <= session.files
                /\ host'[queued_files[i]] # "new"
        BY <1>0, <2>2 DEF Queued
      <3>2. \A g \in File : sent[g] > 0 /\ host'[g] \in {"open", "error"} =>
                in_progress /\ queued_files # <<>> /\ queued_files[1] = g
        BY <1>0, <2>2 DEF Queued
      <3> QED BY <1>0, <1>a, <2>2 DEF Queued, Mtp, Pushing
    <2> QED BY <1>b, <2>1, <2>2
  <1>5. Untouched'
    <2>1. \A g \in File : g # f /\ Waiting(g)' => Waiting(g)
      BY <1>a, <1>b, <1>c DEF Waiting
    <2>2. Waiting(f)' => host'[f] = "open"
      BY <1>b, <1>c, <1>e DEF Waiting
    <2>3. \A g \in File : g # f => host'[g] = host[g]
      BY <1>b, <1>c
    <2>4. m_source \in 0 .. NumFiles /\ (m_source # 0 => m_source \in File)
      BY <1>0 DEF TypeOK, File
    <2> QED BY <1>0, <1>a, <1>e, <2>1, <2>2, <2>3, <2>4 DEF Untouched
  <1>6. Alive'
    BY <1>0, <1>a DEF Alive
  <1>7. Starts'
    <2>1. /\ server' \in {"start_state", "next", "idle"}
          /\ (server' = "start_state" => enabled /\ ~in_progress)
      BY <1>a, <1>b
    <2>2. Connected' <=> Connected
      BY <1>a DEF Connected
    <2> QED BY <1>a, <1>f, <2>1, <2>2 DEF Starts, Starting
  <1>8. Single'
    <2> SUFFICES ASSUME OneFile(session)
                 PROVE  host'[1] # "new" /\ m_state = "None"
      BY <1>a DEF Single
    <2>1. f = 1
      BY <1>a DEF OneFile, File
    <2> QED BY <1>0, <1>a, <1>b, <1>c, <2>1 DEF Single
  <1>9. Held'
    <2>1. server' # "close_wait"
      BY <1>a, <1>b
    <2>2. in_progress => m_source \in File
      BY <1>0, <1>a, <1>c DEF Queued
    <2>3. \A g \in File : host[g] # "error" => host'[g] # "error"
      BY <1>b, <1>c
    <2> QED BY <1>0, <1>a, <2>1, <2>2, <2>3 DEF Held, Connected
  <1>10. Successful'
    <2>1. \A g \in File : host'[g] = "error" => host[g] = "error"
      BY <1>b, <1>c
    <2>2. server' \notin {"close_wait", "stopped"}
      BY <1>a, <1>b
    <2> QED BY <1>0, <1>a, <2>1 DEF Successful
  <1>11. InOrder'
    BY <1>0, <1>a DEF InOrder
  <1> QED BY <1>1, <1>2, <1>3, <1>4, <1>5, <1>6, <1>7, <1>8, <1>9, <1>10, <1>11
             DEF StreamInv

(* StartNext: the first of the queue is started when none is in progress *)
LEMMA StartNextKeeps ==
    ASSUME OwnServer, Orderly, StreamInv, StartNext
    PROVE  StreamInv'
  <1> USE DEF StartNext, sharedVars, hostVars, streamVars, menuVars, mainVars,
              serverVars, installVars
  <1>0. /\ TypeOK /\ Life /\ Exits /\ Queued /\ Untouched /\ Alive /\ Starts
        /\ Single /\ Held /\ Successful /\ InOrder
    BY DEF StreamInv
  <1>s. /\ session.files \in File /\ session.size \in 1 .. FileSize
        /\ session.want \in 1 .. session.size
        /\ session.folder \in {"ftp", "mtp"}
        /\ OneFile(session) \/ Unfailing(session)
           \/ (Large(session) /\ session.folder = "mtp")
        /\ Unfailing(session) => Large(session) /\ session.folder = "ftp"
    BY <1>0, SessionFacts
  <1>a. /\ queued_files \in Seq(File)
        /\ queued_files # <<>> =>
               Head(queued_files) = queued_files[1] /\ queued_files[1] \in File
    BY <1>0 DEF TypeOK
  <1>1. TypeOK'
    <2>1. server' \in ServerPc /\ cur' \in File
      BY <1>0, <1>a DEF TypeOK, ServerPc, InCallback
    <2> QED BY SMTT(30), <1>0, <2>1 DEF TypeOK
  <1>2. Life'
    BY <1>0 DEF Life
  <1>3. Exits'
    BY <1>0 DEF Exits
  <1>4. Queued'
    <2>1. ~Mtp
      BY <1>0 DEF Queued
    <2>2. \/ /\ server' = "start_state"
             /\ ~in_progress
             /\ queued_files # <<>>
             /\ cur' = queued_files[1]
          \/ /\ server' = "idle"
             /\ (in_progress \/ queued_files = <<>>)
             /\ cur' = cur
      BY <1>a
    <2>3. /\ UNCHANGED <<session, queued_files, in_progress, host, sent,
                         m_source, left>>
          /\ server = "next"
      OBVIOUS
    <2> HIDE DEF StartNext
    <2> QED BY <1>0, <2>2, <2>3 DEF Queued, Mtp, Starting, Pushing
  <1>5. Untouched'
    BY <1>0 DEF Untouched, Waiting
  <1>6. Alive'
    BY <1>0 DEF Alive
  <1>7. Starts'
    <2>1. server' \in {"start_state", "idle"} /\ server = "next"
          /\ (server' = "start_state" => ~in_progress /\ queued_files # <<>>)
      OBVIOUS
    <2>2. enabled \/ main \in Leaving \/ server' = "idle"
      <3>1. CASE OneFile(session)
        BY <1>0, <3>1 DEF Single, Life
      <3>2. CASE Unfailing(session)
        BY <1>0, <3>2 DEF Successful
      <3>3. CASE session.folder = "mtp"
        BY <1>0, <3>3 DEF Queued, Mtp
      <3> QED BY <1>s, <3>1, <3>2, <3>3
    <2>3. UNCHANGED <<enabled, main, m_state, queued_files, in_progress>>
      OBVIOUS
    <2> HIDE DEF StartNext
    <2> QED BY <1>0, <2>1, <2>2, <2>3 DEF Starts, Connected, Starting
  <1>8. Single'
    BY <1>0 DEF Single
  <1>9. Held'
    BY <1>0 DEF Held, Connected
  <1>10. Successful'
    BY <1>0 DEF Successful
  <1>11. InOrder'
    BY <1>0 DEF InOrder
  <1> QED BY <1>1, <1>2, <1>3, <1>4, <1>5, <1>6, <1>7, <1>8, <1>9, <1>10, <1>11
             DEF StreamInv

(* StartState: the start goes on only if the menu is not busy *)
LEMMA StartStateKeeps ==
    ASSUME OwnServer, Orderly, StreamInv, StartState
    PROVE  StreamInv'
  <1> USE DEF StartState, StartFails, StateBusy, MenuFree, sharedVars,
              hostVars, streamVars, menuVars, mainVars, serverVars, installVars
  <1>0. /\ TypeOK /\ Life /\ Exits /\ Queued /\ Untouched /\ Alive /\ Starts
        /\ Single /\ Held /\ Successful /\ InOrder
    BY DEF StreamInv
  <1>a. ~stop
    BY <1>0 DEF Exits
  <1>1. TypeOK'
    <2>1. server' \in ServerPc /\ queued_files' = queued_files /\ host' = host
      BY <1>a DEF ServerPc, InCallback
    <2> QED BY SMTT(30), <1>0, <2>1 DEF TypeOK
  <1>2. Life'
    BY <1>0 DEF Life
  <1>3. Exits'
    BY <1>0 DEF Exits
  <1>4. Queued'
    BY <1>0 DEF Queued, Exits, Starting, Pushing, Mtp
  <1>5. Untouched'
    BY <1>0 DEF Untouched, Waiting, Exits
  <1>6. Alive'
    BY <1>0 DEF Alive
  <1>7. Starts'
    BY <1>0 DEF Starts, Connected, Starting
  <1>8. Single'
    BY <1>0 DEF Single
  <1>9. Held'
    BY <1>0 DEF Held, Connected, Exits
  <1>10. Successful'
    BY <1>0 DEF Successful, Exits
  <1>11. InOrder'
    BY <1>0 DEF InOrder
  <1> QED BY <1>1, <1>2, <1>3, <1>4, <1>5, <1>6, <1>7, <1>8, <1>9, <1>10, <1>11
             DEF StreamInv

(* StartSource: the start goes on when the stream before it is over *)
LEMMA StartSourceKeeps ==
    ASSUME OwnServer, Orderly, StreamInv, StartSource
    PROVE  StreamInv'
  <1> USE DEF StartSource, StartFails, sharedVars, hostVars, streamVars,
              menuVars, mainVars, serverVars, installVars
  <1>0. /\ TypeOK /\ Life /\ Exits /\ Queued /\ Untouched /\ Alive /\ Starts
        /\ Single /\ Held /\ Successful /\ InOrder
    BY DEF StreamInv
  <1>a. ~stop
    BY <1>0 DEF Exits
  <1>1. TypeOK'
    <2>1. server' \in ServerPc /\ queued_files' = queued_files /\ host' = host
      BY <1>a DEF ServerPc, InCallback
    <2> QED BY SMTT(30), <1>0, <2>1 DEF TypeOK
  <1>2. Life'
    BY <1>0 DEF Life
  <1>3. Exits'
    BY <1>0 DEF Exits
  <1>4. Queued'
    BY <1>0 DEF Queued, Exits, Starting, Pushing, Mtp
  <1>5. Untouched'
    BY <1>0 DEF Untouched, Waiting, Exits
  <1>6. Alive'
    BY <1>0 DEF Alive
  <1>7. Starts'
    BY <1>0 DEF Starts, Connected, Starting
  <1>8. Single'
    BY <1>0 DEF Single
  <1>9. Held'
    BY <1>0 DEF Held, Connected, Exits
  <1>10. Successful'
    BY <1>0 DEF Successful, Exits
  <1>11. InOrder'
    BY <1>0 DEF InOrder
  <1> QED BY <1>1, <1>2, <1>3, <1>4, <1>5, <1>6, <1>7, <1>8, <1>9, <1>10, <1>11
             DEF StreamInv

(* StartNew: the stream of the menu is that of the first of the queue *)
LEMMA StartNewKeeps ==
    ASSUME OwnServer, Orderly, StreamInv, StartNew
    PROVE  StreamInv'
  <1> USE DEF StartNew, MenuFree, sharedVars, hostVars, streamVars, menuVars,
              mainVars, serverVars, installVars
  <1>0. /\ TypeOK /\ Life /\ Exits /\ Queued /\ Untouched /\ Alive /\ Starts
        /\ Single /\ Held /\ Successful /\ InOrder
    BY DEF StreamInv
  <1>s. /\ session.files \in File /\ session.size \in 1 .. FileSize
        /\ session.want \in 1 .. session.size
        /\ session.folder \in {"ftp", "mtp"}
        /\ OneFile(session) \/ Unfailing(session)
           \/ (Large(session) /\ session.folder = "mtp")
        /\ Unfailing(session) => Large(session) /\ session.folder = "ftp"
    BY <1>0, SessionFacts
  <1>a. /\ server = "start_new"
        /\ main \notin Boxed
        /\ main # "settle"
        /\ main \notin Stopping
        /\ install = "none" /\ ~Connected /\ m_state # "Progress"
        /\ ~in_progress /\ queued_files # <<>> /\ cur = queued_files[1]
        /\ cur \in File /\ cur # 0
    BY <1>0 DEF TypeOK, Life, Exits, Starts, Starting, Queued, File
  <1>b. /\ m_source' = cur /\ m_active' = [m_active EXCEPT ![cur] = TRUE]
        /\ INSTALL_STATE' = "None"
        /\ m_state' = "Connected"
        /\ in_progress' = TRUE
        /\ server' = "idle"
        /\ UNCHANGED <<session, cur, left, queued_files, enabled, host, sent,
                       stop, m_buffer, main, pop, cancelled, install, source,
                       need, rc, got, outcome>>
    OBVIOUS
  <1> HIDE DEF StartNew
  <1>c. /\ queued_files \in Seq(File)
        /\ DOMAIN queued_files = 1 .. Len(queued_files)
        /\ Len(queued_files) \in Nat /\ Len(queued_files) >= 1
    BY <1>0, <1>a DEF TypeOK
  <1>d. /\ host[cur] \in {"new", "open"} /\ host[cur] # "new"
        /\ sent[cur] = 0 /\ m_buffer[cur] = <<>> /\ outcome[cur] = "none"
    BY <1>0, <1>a DEF Untouched, Waiting, Queued
  <1>1. TypeOK'
    <2>1. m_source' \in 0 .. NumFiles
      BY <1>a, <1>b DEF File
    <2>2. m_active' \in [File -> BOOLEAN]
      BY <1>0, <1>b DEF TypeOK
    <2>3. server' \in ServerPc
      BY <1>b DEF ServerPc
    <2> QED BY SMTT(30), <1>0, <1>b, <2>1, <2>3 DEF TypeOK
  <1>2. Life'
    BY <1>0, <1>a, <1>b DEF Life
  <1>3. Exits'
    BY <1>0, <1>a, <1>b DEF Exits
  <1>4. Queued'
    BY <1>0, <1>a, <1>b DEF Queued, Starting, Pushing, Mtp
  <1>5. Untouched'
    <2>1. \A g \in File : Waiting(g)' => Waiting(g)
      BY <1>b DEF Waiting
    <2>2. ~Waiting(cur)'
      BY <1>0, <1>a, <1>b, <1>c DEF Waiting, Queued
    <2> QED BY <1>0, <1>b, <2>1, <2>2 DEF Untouched
  <1>6. Alive'
    BY <1>a, <1>b, <1>d DEF Alive, Reading
  <1>7. Starts'
    BY <1>b DEF Starts, Starting
  <1>8. Single'
    BY <1>0, <1>a, <1>b DEF Single
  <1>9. Held'
    <2>1. Connected' => enabled
      BY <1>0, <1>a, <1>b DEF Starts, Connected, Starting, Leaving
    <2>2. m_active'[cur]
      BY <1>0, <1>b DEF TypeOK
    <2> QED BY <1>a, <1>b, <1>d, <2>1, <2>2 DEF Held
  <1>10. Successful'
    BY <1>0, <1>b DEF TypeOK, Successful
  <1>11. InOrder'
    BY <1>0, <1>b DEF InOrder
  <1> QED BY <1>1, <1>2, <1>3, <1>4, <1>5, <1>6, <1>7, <1>8, <1>9, <1>10, <1>11
             DEF StreamInv

(* Write: a write starts on the first of the queue only *)
LEMMA WriteKeeps ==
    ASSUME OwnServer, Orderly, StreamInv, NEW f \in File, Write(f)
    PROVE  StreamInv'
  <1> USE DEF Write, Smaller, sharedVars, hostVars, streamVars, menuVars,
              mainVars, serverVars, installVars
  <1>0. /\ TypeOK /\ Life /\ Exits /\ Queued /\ Untouched /\ Alive /\ Starts
        /\ Single /\ Held /\ Successful /\ InOrder
    BY DEF StreamInv
  <1>s. /\ session.files \in File /\ session.size \in 1 .. FileSize
        /\ session.want \in 1 .. session.size
        /\ session.folder \in {"ftp", "mtp"}
        /\ OneFile(session) \/ Unfailing(session)
           \/ (Large(session) /\ session.folder = "mtp")
        /\ Unfailing(session) => Large(session) /\ session.folder = "ftp"
    BY <1>0, SessionFacts
  <1>a. /\ server = "idle" /\ host[f] = "open" /\ sent[f] < session.size
        /\ main \notin Stopping
        /\ queued_files # <<>>
        /\ Head(queued_files) = f
        /\ cur' = f
        /\ UNCHANGED <<session, sharedVars, sent, menuVars, streamVars,
                       mainVars, install, installVars>>
    BY <1>0 DEF Exits
  <1>b. \/ /\ ~enabled
           /\ host' = [host EXCEPT ![f] = "error"]
           /\ UNCHANGED <<server, left>>
        \/ /\ enabled
           /\ left' \in 1 .. Smaller(WriteMax, session.size - sent[f])
           /\ server' = "push_head"
           /\ UNCHANGED host
    OBVIOUS
  <1> HIDE DEF Write
  <1>c. /\ queued_files[1] = f
        /\ in_progress
        /\ m_source = f
        /\ f # 0
        /\ ~Waiting(f)
        /\ \A i \in DOMAIN queued_files : queued_files[i] \in File
    <2>1. in_progress
      BY <1>0, <1>a DEF Queued
    <2> QED BY <1>0, <1>a, <2>1, InProgress, QueueFacts
  <1>d. /\ sent \in [File -> 0 .. FileSize] /\ sent[f] \in Nat
        /\ host \in [File -> {"new", "open", "error", "closed", "refused"}]
        /\ left \in 0 .. WriteMax
    BY <1>0 DEF TypeOK
  <1>e. left' # left =>
            left' >= 1 /\ left' <= WriteMax /\ sent[f] + left' <= session.size
    BY <1>b, <1>d, <1>s, InstallStreamAssumption
  <1>g. server' = "push_head" =>
            left' >= 1 /\ left' <= WriteMax /\ sent[f] + left' <= session.size
    BY <1>a, <1>b, <1>d, <1>s, InstallStreamAssumption
  <1>1. TypeOK'
    <2>1. host' \in [File -> {"new", "open", "error", "closed", "refused"}]
      BY <1>b, <1>d
    <2>2. left' \in 0 .. WriteMax
      BY <1>b, <1>d, <1>s, InstallStreamAssumption
    <2>3. server' \in ServerPc /\ cur' \in File
      BY <1>a, <1>b DEF ServerPc, InCallback
    <2> QED BY SMTT(30), <1>0, <1>a, <2>1, <2>2, <2>3 DEF TypeOK
  <1>2. Life'
    BY <1>0, <1>a DEF Life
  <1>3. Exits'
    BY <1>0, <1>a, <1>b DEF Exits
  <1>4. Queued'
    <2>1. \A g \in File : g # f => host'[g] = host[g]
      BY <1>b, <1>d
    <2>2. host'[f] # "new" /\ (server' = "push_head" => host'[f] = "open")
      BY <1>a, <1>b, <1>d
    <2>3. server' \in {"idle", "push_head"}
      BY <1>a, <1>b
    <2>4. \A i \in DOMAIN queued_files :
              /\ queued_files[i] <= session.files
              /\ host'[queued_files[i]] # "new"
      BY <1>0, <2>1, <2>2, QueueFacts DEF Queued
    <2>5. \A g \in File : sent[g] > 0 /\ host'[g] \in {"open", "error"} =>
              queued_files[1] = g
      BY <1>0, <1>c, <2>1 DEF Queued
    <2> QED BY <1>0, <1>a, <1>g, <2>2, <2>3, <2>4, <2>5
               DEF Queued, Mtp, Starting, Pushing
  <1>5. Untouched'
    <2>1. \A g \in File : g # f => host'[g] = host[g]
      BY <1>b, <1>d
    <2>2. \A g \in File : Waiting(g)' => Waiting(g) /\ g # f
      BY <1>a, <1>b, <1>c, <1>d DEF Waiting
    <2> QED BY <1>0, <1>a, <1>c, <2>1, <2>2 DEF Untouched
  <1>6. Alive'
    BY <1>0, <1>a DEF Alive
  <1>7. Starts'
    BY <1>a, <1>b DEF Starts, Starting
  <1>8. Single'
    <2>1. \A g \in File : host'[g] = "new" => host[g] = "new"
      BY <1>b, <1>d
    <2>2. 1 \in File
      BY InstallStreamAssumption DEF File
    <2> QED BY <1>0, <1>a, <2>1, <2>2 DEF Single
  <1>9. Held'
    BY <1>0, <1>a, <1>b DEF Held, Connected
  <1>10. Successful'
    BY <1>0, <1>a, <1>b DEF Successful
  <1>11. InOrder'
    BY <1>0, <1>a DEF InOrder
  <1> QED BY <1>1, <1>2, <1>3, <1>4, <1>5, <1>6, <1>7, <1>8, <1>9, <1>10, <1>11
             DEF StreamInv

(* PushHead: the wait for room in the buffer begins *)
LEMMA PushHeadKeeps ==
    ASSUME OwnServer, Orderly, StreamInv, PushHead
    PROVE  StreamInv'
  <1> USE DEF PushHead, PushReturns, sharedVars, hostVars, streamVars,
              menuVars, mainVars, serverVars, installVars
  <1>0. /\ TypeOK /\ Life /\ Exits /\ Queued /\ Untouched /\ Alive /\ Starts
        /\ Single /\ Held /\ Successful /\ InOrder
    BY DEF StreamInv
  <1>s. /\ session.files \in File /\ session.size \in 1 .. FileSize
        /\ session.want \in 1 .. session.size
        /\ session.folder \in {"ftp", "mtp"}
        /\ OneFile(session) \/ Unfailing(session)
           \/ (Large(session) /\ session.folder = "mtp")
        /\ Unfailing(session) => Large(session) /\ session.folder = "ftp"
    BY <1>0, SessionFacts
  <1>a. /\ server = "push_head" /\ ~stop /\ in_progress /\ cur = m_source
        /\ queued_files # <<>>
        /\ m_source = queued_files[1]
        /\ cur \in File
        /\ cur # 0
        /\ host[cur] = "open" /\ left >= 1 /\ sent[cur] + left <= session.size
        /\ ~Waiting(cur)
        /\ UNCHANGED <<session, cur, sharedVars, menuVars, streamVars,
                       mainVars, install, installVars>>
    <2>1. server \in Pushing /\ server # "stopped"
      BY DEF Pushing
    <2>2. /\ in_progress /\ cur = m_source /\ host[cur] = "open" /\ left >= 1
          /\ sent[cur] + left <= session.size
      BY <1>0, <2>1 DEF Queued
    <2>3. ~stop
      BY <1>0 DEF Exits
    <2>4. server = "push_head"
          /\ UNCHANGED <<session, cur, sharedVars, menuVars, streamVars,
                         mainVars, install, installVars>>
      OBVIOUS
    <2> QED BY <1>0, <2>2, <2>3, InProgress
  <1>b. \/ /\ INSTALL_STATE = "Finished" /\ server' = "idle" /\ left' = 0
           /\ sent' = [sent EXCEPT ![cur] = @ + left] /\ UNCHANGED host
        \/ /\ server' = "push_body" /\ UNCHANGED <<left, hostVars>>
    BY <1>a
  <1> HIDE DEF PushHead
  <1>d. /\ sent \in [File -> 0 .. FileSize]
        /\ sent[cur] \in Nat
        /\ left \in Nat
    BY <1>0 DEF TypeOK
  <1>1. TypeOK'
    <2>1. sent' \in [File -> 0 .. FileSize]
      BY <1>a, <1>b, <1>d, <1>s, InstallStreamAssumption
    <2>2. left' \in 0 .. WriteMax
      BY <1>0, <1>b, InstallStreamAssumption DEF TypeOK
    <2>3. server' \in ServerPc
      BY <1>b DEF ServerPc, InCallback
    <2> QED BY SMTT(30), <1>0, <1>a, <1>b, <2>1, <2>2, <2>3 DEF TypeOK
  <1>2. Life'
    BY <1>0, <1>a DEF Life
  <1>3. Exits'
    BY <1>0, <1>a, <1>b DEF Exits
  <1>4. Queued'
    <2>1. \A g \in File : sent'[g] <= session.size
      BY <1>0, <1>a, <1>b, <1>d DEF Queued
    <2>2. \A g \in File : g # cur => sent'[g] = sent[g]
      BY <1>b, <1>d
    <2>3. server' \in {"idle", "push_body"} /\ host' = host
      BY <1>b
    <2>4. server' = "push_body" => left' = left /\ sent' = sent
      BY <1>b
    <2> QED BY <1>0, <1>a, <2>1, <2>2, <2>3, <2>4
               DEF Queued, Mtp, Starting, Pushing
  <1>5. Untouched'
    <2>1. \A g \in File : g # cur => sent'[g] = sent[g]
      BY <1>b, <1>d
    <2>2. \A g \in File : Waiting(g)' => Waiting(g) /\ g # cur
      BY <1>a, <1>b DEF Waiting
    <2> QED BY <1>0, <1>a, <1>b, <2>1, <2>2 DEF Untouched
  <1>6. Alive'
    BY <1>0, <1>a DEF Alive
  <1>7. Starts'
    BY <1>b DEF Starts, Starting
  <1>8. Single'
    <2>1. host' = host
      BY <1>b
    <2> QED BY <1>0, <1>a, <2>1 DEF Single
  <1>9. Held'
    BY <1>0, <1>a, <1>b DEF Life, Held, Connected
  <1>10. Successful'
    BY <1>0, <1>a, <1>b DEF Successful
  <1>11. InOrder'
    <2>1. \A g \in File : outcome[g] = "none" => sent'[g] = sent[g]
      BY <1>0, <1>a, <1>b, <1>d DEF Alive
    <2> QED BY <1>0, <1>a, <2>1 DEF InOrder
  <1> QED BY <1>1, <1>2, <1>3, <1>4, <1>5, <1>6, <1>7, <1>8, <1>9, <1>10, <1>11
             DEF StreamInv

(* PushBody: the blocks are put behind those of the buffer, in order *)
LEMMA PushBodyKeeps ==
    ASSUME OwnServer, Orderly, StreamInv, PushBody
    PROVE  StreamInv'
  <1> USE DEF PushBody, PushReturns, WokenInstall, sharedVars, hostVars,
              streamVars, menuVars, mainVars, serverVars, installVars
  <1>0. /\ TypeOK /\ Life /\ Exits /\ Queued /\ Untouched /\ Alive /\ Starts
        /\ Single /\ Held /\ Successful /\ InOrder
    BY DEF StreamInv
  <1>s. /\ session.files \in File /\ session.size \in 1 .. FileSize
        /\ session.want \in 1 .. session.size
        /\ session.folder \in {"ftp", "mtp"}
        /\ OneFile(session) \/ Unfailing(session)
           \/ (Large(session) /\ session.folder = "mtp")
        /\ Unfailing(session) => Large(session) /\ session.folder = "ftp"
    BY <1>0, SessionFacts
  <1> DEFINE b == m_buffer[m_source]
             n == Fitting(left, b)
             w == [i \in 1 .. n |-> sent[cur] + i]
  <1>a. /\ server \in {"push_body", "push_woken"}
        /\ ~stop
        /\ in_progress
        /\ cur = m_source
        /\ queued_files # <<>>
        /\ m_source = queued_files[1]
        /\ cur \in File
        /\ cur # 0
        /\ host[cur] = "open" /\ left >= 1 /\ sent[cur] + left <= session.size
        /\ ~Waiting(cur)
        /\ UNCHANGED <<session, cur, sharedVars, menuVars, m_active, mainVars,
                       installVars>>
    <2>1. server \in Pushing /\ server # "stopped"
      BY DEF Pushing
    <2>2. /\ in_progress /\ cur = m_source /\ host[cur] = "open" /\ left >= 1
          /\ sent[cur] + left <= session.size
      BY <1>0, <2>1 DEF Queued
    <2>3. ~stop
      BY <1>0 DEF Exits
    <2>4. server \in {"push_body", "push_woken"}
          /\ UNCHANGED <<session, cur, sharedVars, menuVars, m_active,
                         mainVars, installVars>>
      OBVIOUS
    <2> QED BY <1>0, <2>2, <2>3, InProgress
  <1>b. \/ /\ server' = "push_wait"
           /\ UNCHANGED <<left, hostVars, m_buffer, install>>
        \/ /\ ~m_active[m_source] /\ server' = "idle" /\ left' = 0
           /\ host' = [host EXCEPT ![cur] = "error"]
           /\ UNCHANGED <<sent, m_buffer, install>>
        \/ /\ m_active[m_source] /\ Len(b) < MaxBuffer
           /\ m_buffer' = [m_buffer EXCEPT ![m_source] = b \o w]
           /\ install' = WokenInstall(m_source)
           /\ sent' = [sent EXCEPT ![cur] = @ + n]
           /\ left' = left - n
           /\ server' = IF n = left THEN "idle" ELSE "push_head"
           /\ UNCHANGED host
    BY <1>a
  <1> HIDE DEF PushBody
  <1>d. /\ sent \in [File -> 0 .. FileSize]
        /\ sent[cur] \in Nat
        /\ left \in Nat
        /\ left \in 0 .. WriteMax
        /\ host \in [File -> {"new", "open", "error", "closed", "refused"}]
        /\ m_buffer \in [File -> Seq(Block)] /\ got \in [File -> Seq(Block)]
        /\ b \in Seq(Block) /\ Len(b) \in 0 .. MaxBuffer
    <2>1. /\ sent \in [File -> 0 .. FileSize] /\ left \in 0 .. WriteMax
          /\ host \in [File -> {"new", "open", "error", "closed", "refused"}]
          /\ m_buffer \in [File -> Seq(Block)] /\ got \in [File -> Seq(Block)]
          /\ \A g \in File : Len(m_buffer[g]) \in 0 .. MaxBuffer
      BY <1>0 DEF TypeOK, Block
    <2> QED BY <1>a, <2>1
  <1>k. m_buffer[cur] = b /\ m_buffer[m_source] = b
    BY <1>a
  <1> HIDE DEF b
  <1>e. Len(b) < MaxBuffer => n \in 1 .. left /\ Len(b) + n <= MaxBuffer
    <2>1. Len(b) \in Nat /\ left \in Nat /\ left >= 1 /\ MaxBuffer \in Nat
      BY <1>a, <1>d, InstallStreamAssumption
    <2> QED BY <2>1 DEF Fitting, Smaller
  <1>t. /\ sent[cur] + left \in Nat
        /\ sent[cur] + left <= FileSize
        /\ session.size \in Nat
    BY SMTT(30), <1>a, <1>d, <1>s, InstallStreamAssumption
  <1> HIDE DEF n
  <1>g. Len(b) < MaxBuffer =>
            /\ b \o w \in Seq(Block) /\ Len(b \o w) = Len(b) + n
            /\ got[cur] \o b = [i \in 1 .. sent[cur] |-> i] =>
                   got[cur] \o (b \o w) = [i \in 1 .. sent[cur] + n |-> i]
    <2> SUFFICES ASSUME Len(b) < MaxBuffer
                 PROVE  /\ b \o w \in Seq(Block) /\ Len(b \o w) = Len(b) + n
                        /\ got[cur] \o b = [i \in 1 .. sent[cur] |-> i] =>
                               got[cur] \o (b \o w) =
                                   [i \in 1 .. sent[cur] + n |-> i]
      OBVIOUS
    <2>1. n \in Nat /\ sent[cur] + n <= FileSize
      BY <1>d, <1>e, <1>t, InstallStreamAssumption
    <2>2. got[cur] \in Seq(Block) /\ b \in Seq(Block) /\ sent[cur] \in Nat
      BY <1>a, <1>d
    <2> DEFINE m == sent[cur]
               g == got[cur]
    <2>3. g \in Seq(Block) /\ m \in Nat /\ m + n <= FileSize
      BY <2>1, <2>2
    <2> HIDE DEF m, g
    <2>4. /\ b \o After(m, n) \in Seq(Block)
          /\ Len(b \o After(m, n)) = Len(b) + n
          /\ g \o b = First(m) => g \o (b \o After(m, n)) = First(m + n)
      BY ZenonT(40), <2>1, <2>2, <2>3, Pushed
    <2> QED BY <2>4 DEF m, g, First, After
  <1> HIDE DEF w
  <1>j. /\ sent'[cur] \in sent[cur] .. sent[cur] + left
        /\ left' \in 0 .. left /\ sent'[cur] + left' <= sent[cur] + left
        /\ server' \in {"push_wait", "push_head", "idle"}
        /\ server' # "idle" => left' >= 1 /\ host' = host
    <2>1. CASE /\ server' = "push_wait"
               /\ UNCHANGED <<left, hostVars, m_buffer, install>>
      BY <1>a, <1>d, <2>1
    <2>2. CASE left' = 0 /\ server' = "idle" /\ sent' = sent
      BY <1>d, <2>2
    <2>3. CASE /\ m_active[m_source] /\ Len(b) < MaxBuffer
               /\ sent' = [sent EXCEPT ![cur] = @ + n]
               /\ left' = left - n
               /\ server' = IF n = left THEN "idle" ELSE "push_head"
               /\ UNCHANGED host
      <3>1. sent'[cur] = sent[cur] + n /\ left' = left - n
        BY <1>a, <1>d, <2>3
      <3>2. n \in 1 .. left
        BY <1>e, <2>3
      <3> QED BY <1>d, <2>3, <3>2
    <2> QED BY <1>b, <2>1, <2>2, <2>3
  <1>h. /\ \A g \in File : g # cur => /\ sent'[g] = sent[g]
                                      /\ host'[g] = host[g]
                                      /\ m_buffer'[g] = m_buffer[g]
        /\ host'[cur] # "new"
        /\ server' \in {"idle", "push_wait", "push_head"}
        /\ server' # "idle" => host' = host
        /\ sent'[cur] + left' <= session.size /\ sent'[cur] <= session.size
        /\ server' # "idle" => left' >= 1
        /\ left' \in 0 .. WriteMax
    <2>1. \A g \in File : g # cur => /\ sent'[g] = sent[g]
                                     /\ host'[g] = host[g]
                                     /\ m_buffer'[g] = m_buffer[g]
      BY <1>a, <1>b, <1>d
    <2>2. host'[cur] # "new"
      BY <1>a, <1>b, <1>d
    <2>3. sent'[cur] + left' <= session.size /\ sent'[cur] <= session.size
      BY <1>a, <1>d, <1>j, <1>t
    <2>4. left' \in 0 .. WriteMax
      BY <1>d, <1>j, InstallStreamAssumption
    <2> QED BY <1>j, <2>1, <2>2, <2>3, <2>4
  <1>i. /\ install' \in InstallPc
        /\ \A p \in InstallPc \ {"chunk_wait", "chunk_woken"} :
               install' = p <=> install = p
    BY <1>0, <1>b DEF TypeOK, InstallPc
  <1>1. TypeOK'
    <2>1. sent' \in [File -> 0 .. FileSize]
      <3>1. sent'[cur] \in 0 .. FileSize
        BY <1>d, <1>j, <1>t, InstallStreamAssumption
      <3>2. sent' = sent \/ sent' = [sent EXCEPT ![cur] = sent'[cur]]
        BY <1>b
      <3> QED BY <1>d, <3>1, <3>2
    <2>2. host' \in [File -> {"new", "open", "error", "closed", "refused"}]
      BY <1>b, <1>d
    <2>3. m_buffer' \in [File -> Seq(Block)]
      BY <1>a, <1>b, <1>d, <1>g
    <2>4. \A g \in File : Len(m_buffer'[g]) \in 0 .. MaxBuffer
      <3>1. Len(m_buffer'[cur]) \in 0 .. MaxBuffer
        <4>1. \/ m_buffer' = m_buffer
              \/ /\ Len(b) < MaxBuffer
                 /\ m_buffer' = [m_buffer EXCEPT ![cur] = b \o w]
          BY <1>a, <1>b
        <4>2. Len(b) < MaxBuffer => Len(b \o w) \in 0 .. MaxBuffer
          BY <1>e, <1>g
        <4> QED BY <1>d, <1>k, <4>1, <4>2
      <3> QED BY ZenonT(40), <1>0, <1>h, <3>1 DEF TypeOK
    <2>5. server' \in ServerPc
      BY <1>h DEF ServerPc, InCallback
    <2> QED BY <1>0, <1>a, <1>h, <1>i, <2>1, <2>2, <2>3, <2>4, <2>5
               DEF TypeOK, Block
  <1>2. Life'
    BY <1>0, <1>a, <1>b DEF Life, Reading
  <1>3. Exits'
    BY <1>0, <1>a, <1>b DEF Exits
  <1>4. Queued'
    <2>1. \A g \in File : sent'[g] <= session.size
      BY <1>0, <1>h DEF Queued
    <2>2. \A i \in DOMAIN queued_files :
              /\ queued_files[i] <= session.files
              /\ host'[queued_files[i]] # "new"
      BY <1>0, <1>h, QueueFacts DEF Queued
    <2> QED BY <1>0, <1>a, <1>h, <2>2 DEF Queued, Mtp, Starting, Pushing
  <1>5. Untouched'
    <2>2. \A g \in File : Waiting(g)' => Waiting(g) /\ g # cur
      BY <1>a, <1>h DEF Waiting
    <2> QED BY <1>0, <1>a, <1>h, <2>2 DEF Untouched
  <1>6. Alive'
    BY <1>0, <1>a, <1>b DEF Alive
  <1>7. Starts'
    BY <1>b DEF Starts, Starting
  <1>8. Single'
    <2>1. \A g \in File : host'[g] = "new" => host[g] = "new"
      BY <1>h
    <2>2. 1 \in File
      BY InstallStreamAssumption DEF File
    <2> QED BY <1>0, <1>a, <2>1, <2>2 DEF Single
  <1>9. Held'
    <2> SUFFICES ASSUME Large(session), Connected \/ install = "start"
                 PROVE  /\ host'[m_source] # "error" /\ server' # "close_wait"
                        /\ sent'[m_source] = Len(m_buffer'[m_source])
      BY <1>0, <1>a, <1>i DEF Held, Connected
    <2>1. m_active[m_source] /\ sent[m_source] = Len(b)
      BY <1>0, <1>k DEF Held
    <2>2. CASE m_buffer' = m_buffer /\ sent' = sent /\ host' = host
      BY <1>a, <1>h, <1>k, <2>1, <2>2
    <2>3. CASE m_buffer' = [m_buffer EXCEPT ![m_source] = b \o w]
               /\ sent' = [sent EXCEPT ![cur] = @ + n] /\ host' = host
               /\ Len(b) < MaxBuffer
      <3>1. /\ m_buffer'[m_source] = b \o w
            /\ sent'[m_source] = sent[m_source] + n
        BY <1>a, <1>d, <2>3
      <3> QED BY ZenonT(40), <1>a, <1>g, <1>h, <2>1, <2>3, <3>1
    <2> QED BY <1>b, <2>1, <2>2, <2>3
  <1>10. Successful'
    BY <1>0, <1>a, <1>b DEF Successful
  <1>11. InOrder'
    <2>1. CASE m_buffer' = m_buffer /\ sent' = sent
      BY <1>0, <1>a, <2>1 DEF InOrder
    <2>2. CASE m_buffer' = [m_buffer EXCEPT ![m_source] = b \o w]
               /\ sent' = [sent EXCEPT ![cur] = @ + n] /\ Len(b) < MaxBuffer
      <3>1. m_buffer'[cur] = b \o w /\ sent'[cur] = sent[cur] + n
        BY <1>a, <1>d, <2>2
      <3>2. outcome[cur] = "none" =>
                got[cur] \o b = [i \in 1 .. sent[cur] |-> i]
        BY <1>0, <1>a, <1>k DEF InOrder
      <3>3. outcome[cur] = "none" =>
                got[cur] \o m_buffer'[cur] = [i \in 1 .. sent'[cur] |-> i]
        BY <1>g, <2>2, <3>1, <3>2
      <3>4. \A g \in File : g # cur => (outcome[g] = "none" =>
                got[g] \o m_buffer'[g] = [i \in 1 .. sent'[g] |-> i])
        BY <1>0, <1>h DEF InOrder
      <3> QED BY <1>a, <3>3, <3>4 DEF InOrder
    <2> QED BY <1>b, <2>1, <2>2
  <1> QED BY <1>1, <1>2, <1>3, <1>4, <1>5, <1>6, <1>7, <1>8, <1>9, <1>10, <1>11
             DEF StreamInv

(* Close: the stream is disabled, or the file leaves the queue *)
LEMMA CloseKeeps ==
    ASSUME OwnServer, Orderly, StreamInv, NEW f \in File, Close(f)
    PROVE  StreamInv'
  <1> USE DEF Close, Disabled, WokenInstall, sharedVars, hostVars, streamVars,
              menuVars, mainVars, serverVars, installVars
  <1>0. /\ TypeOK /\ Life /\ Exits /\ Queued /\ Untouched /\ Alive /\ Starts
        /\ Single /\ Held /\ Successful /\ InOrder
    BY DEF StreamInv
  <1>s. /\ session.files \in File /\ session.size \in 1 .. FileSize
        /\ session.want \in 1 .. session.size
        /\ session.folder \in {"ftp", "mtp"}
        /\ OneFile(session) \/ Unfailing(session)
           \/ (Large(session) /\ session.folder = "mtp")
        /\ Unfailing(session) => Large(session) /\ session.folder = "ftp"
    BY <1>0, SessionFacts
  <1>a. /\ server = "idle" /\ cur' = f /\ host[f] \in {"open", "error"}
        /\ main \notin Stopping /\ left' = left
        /\ UNCHANGED <<session, in_progress, enabled, sent, menuVars, m_buffer,
                       mainVars, installVars>>
    BY <1>0 DEF Exits
  <1>t. \/ host[f] = "error" \/ sent[f] = session.size
        \/ "abort" \in session.events \/ main = "exit_server"
    OBVIOUS
  <1>b. \/ /\ queued_files # <<>> /\ Head(queued_files) = f
           /\ server' = "close_wait"
           /\ m_active' = Disabled(m_source)
           /\ install' = WokenInstall(m_source)
           /\ UNCHANGED <<queued_files, host>>
        \/ /\ ~(queued_files # <<>> /\ Head(queued_files) = f)
           /\ server' = IF Mtp THEN "idle" ELSE "next"
           /\ \/ \E i \in DOMAIN queued_files :
                    /\ queued_files[i] = f
                    /\ queued_files' = Without(queued_files, i)
              \/ /\ \A i \in DOMAIN queued_files : queued_files[i] # f
                 /\ UNCHANGED queued_files
           /\ host' = [host EXCEPT ![f] = "closed"]
           /\ UNCHANGED <<m_active, install>>
    OBVIOUS
  <1> HIDE DEF Close
  <1> DEFINE First1 == queued_files # <<>> /\ Head(queued_files) = f
  <1>d. /\ host \in [File -> {"new", "open", "error", "closed", "refused"}]
        /\ m_active \in [File -> BOOLEAN] /\ install \in InstallPc
    BY <1>0 DEF TypeOK
  (* The file that is being installed *)
  <1>e. First1 => /\ in_progress /\ f = m_source
                  /\ m_source # 0 /\ ~Waiting(m_source)
                  /\ queued_files[1] = f
    <2> SUFFICES ASSUME First1 PROVE in_progress /\ queued_files[1] = f
      BY <1>0, <1>a, InProgress
    <2> QED BY <1>0, <1>a DEF Queued
  (* Another file leaves the queue. *)
  <1>g. ~First1 =>
            /\ queued_files' \in Seq(File)
            /\ \A j \in DOMAIN queued_files' : \E i \in DOMAIN queued_files :
                   /\ queued_files'[j] = queued_files[i] /\ queued_files[i] # f
                   /\ j > 1 => i > 1
            /\ \A j, k \in DOMAIN queued_files' :
                   queued_files'[j] = queued_files'[k] => j = k
            /\ queued_files # <<>> => /\ queued_files' # <<>>
                                      /\ queued_files'[1] = queued_files[1]
            /\ queued_files = <<>> => queued_files' = <<>>
            /\ Len(queued_files') <= Len(queued_files)
    <2> SUFFICES ASSUME ~First1
                 PROVE  /\ queued_files' \in Seq(File)
                        /\ \A j \in DOMAIN queued_files' :
                               \E i \in DOMAIN queued_files :
                               /\ queued_files'[j] = queued_files[i]
                               /\ queued_files[i] # f
                               /\ j > 1 => i > 1
                        /\ \A j, k \in DOMAIN queued_files' :
                               queued_files'[j] = queued_files'[k] => j = k
                        /\ queued_files # <<>> =>
                               /\ queued_files' # <<>>
                               /\ queued_files'[1] = queued_files[1]
                        /\ queued_files = <<>> => queued_files' = <<>>
                        /\ Len(queued_files') <= Len(queued_files)
      OBVIOUS
    <2>1. \A i, j \in DOMAIN queued_files :
              queued_files[i] = queued_files[j] => i = j
      BY <1>0 DEF Queued
    <2>2. CASE /\ \A i \in DOMAIN queued_files : queued_files[i] # f
               /\ queued_files' = queued_files
      BY <1>0, <2>1, <2>2, QueueFacts
    <2>3. ASSUME NEW i \in DOMAIN queued_files, queued_files[i] = f,
                 queued_files' = Without(queued_files, i)
          PROVE  /\ queued_files' \in Seq(File)
                 /\ \A j \in DOMAIN queued_files' :
                        \E l \in DOMAIN queued_files :
                        /\ queued_files'[j] = queued_files[l]
                        /\ queued_files[l] # f
                        /\ j > 1 => l > 1
                 /\ \A j, k \in DOMAIN queued_files' :
                        queued_files'[j] = queued_files'[k] => j = k
                 /\ queued_files # <<>> /\ queued_files' # <<>>
                 /\ queued_files'[1] = queued_files[1]
                 /\ Len(queued_files') <= Len(queued_files)
      <3>1. /\ queued_files \in Seq(File) /\ Len(queued_files) \in Nat
            /\ DOMAIN queued_files = 1 .. Len(queued_files)
            /\ queued_files # <<>>
            /\ i \in 1 .. Len(queued_files) /\ i # 1
        BY <1>0, <2>3, QueueFacts
      <3>2. /\ queued_files' \in Seq(File)
            /\ Len(queued_files') = Len(queued_files) - 1
            /\ \A j \in 1 .. Len(queued_files) - 1 :
                   queued_files'[j] = queued_files[IF j < i THEN j ELSE j + 1]
        BY <2>3, <3>1, WithoutOne
      <3>3. DOMAIN queued_files' = 1 .. Len(queued_files) - 1
        BY <3>2
      <3>4. queued_files' # <<>> /\ queued_files'[1] = queued_files[1]
        BY <3>1, <3>2
      <3>5. \A j \in DOMAIN queued_files' : \E l \in DOMAIN queued_files :
                /\ queued_files'[j] = queued_files[l] /\ l # i
                /\ j > 1 => l > 1
        <4> SUFFICES ASSUME NEW j \in DOMAIN queued_files'
                     PROVE  \E l \in DOMAIN queued_files :
                                /\ queued_files'[j] = queued_files[l] /\ l # i
                                /\ j > 1 => l > 1
          OBVIOUS
        <4> DEFINE l == IF j < i THEN j ELSE j + 1
        <4>1. l \in DOMAIN queued_files /\ l # i /\ (j > 1 => l > 1)
          BY <3>3
        <4>2. queued_files'[j] = queued_files[l]
          BY <3>2
        <4> QED BY <4>1, <4>2
      <3>6. \A j, k \in DOMAIN queued_files' :
                queued_files'[j] = queued_files'[k] => j = k
        <4> SUFFICES ASSUME NEW j \in DOMAIN queued_files',
                            NEW k \in DOMAIN queued_files',
                            queued_files'[j] = queued_files'[k]
                     PROVE  j = k
          OBVIOUS
        <4> DEFINE l(x) == IF x < i THEN x ELSE x + 1
        <4>1. l(j) \in DOMAIN queued_files /\ l(k) \in DOMAIN queued_files
          BY <3>3
        <4>2. queued_files[l(j)] = queued_files[l(k)]
          BY <3>2
        <4>3. l(j) = l(k)
          <5> HIDE DEF l
          <5> QED BY <2>1, <4>1, <4>2
        <4> QED BY <3>3, <4>3
      <3>7. \A l \in DOMAIN queued_files : l # i => queued_files[l] # f
        BY <2>1, <2>3
      <3>8. \A j \in DOMAIN queued_files' : \E l \in DOMAIN queued_files :
                /\ queued_files'[j] = queued_files[l] /\ queued_files[l] # f
                /\ j > 1 => l > 1
        BY <3>5, <3>7
      <3>9. Len(queued_files') <= Len(queued_files)
        BY <3>2
      <3> QED BY <3>2, <3>4, <3>6, <3>8
    <2> QED BY <1>b, <2>2, <2>3
  <1>h. /\ First1 => /\ server' = "close_wait"
                     /\ m_active' = Disabled(m_source)
                     /\ install' = WokenInstall(m_source)
                     /\ UNCHANGED <<queued_files, host>>
        /\ ~First1 => /\ server' = IF Mtp THEN "idle" ELSE "next"
                      /\ host' = [host EXCEPT ![f] = "closed"]
                      /\ UNCHANGED <<m_active, install>>
    BY <1>b
  <1>i. /\ \A g \in File : g # f => host'[g] = host[g]
        /\ First1 => host'[f] = host[f]
        /\ ~First1 => host'[f] = "closed"
    BY <1>d, <1>h
  <1>j. /\ install' \in InstallPc
        /\ \A p \in InstallPc \ {"chunk_wait", "chunk_woken"} :
               install' = p <=> install = p
    BY <1>d, <1>h DEF InstallPc
  <1> HIDE DEF First1
  <1>1. TypeOK'
    <2>1. queued_files' \in Seq(File)
      BY <1>0, <1>g, <1>h DEF TypeOK
    <2>2. m_active' \in [File -> BOOLEAN]
      BY <1>d, <1>h
    <2>3. host' \in [File -> {"new", "open", "error", "closed", "refused"}]
      BY <1>d, <1>h
    <2>4. server' \in ServerPc
      BY <1>h DEF ServerPc, InCallback
    <2>5. cur' \in File
      BY <1>a
    <2> QED BY SMTT(30), <1>0, <1>a, <1>j, <2>1, <2>2, <2>3, <2>4, <2>5
               DEF TypeOK
  <1>2. Life'
    <2>1. /\ install' = "none" <=> install = "none"
          /\ install' = "start" <=> install = "start"
          /\ install' \in Reading \cup {"capture"} <=>
                 install \in Reading \cup {"capture"}
      BY <1>d, <1>j DEF Reading
    <2> QED BY <1>0, <1>a, <2>1 DEF Life
  <1>3. Exits'
    BY <1>0, <1>a, <1>h DEF Exits
  <1>4. Queued'
    <2>1. CASE First1
      BY <1>0, <1>a, <1>e, <1>h, <2>1 DEF Queued, Mtp, Starting, Pushing
    <2>2. CASE ~First1
      <3>1. \A j \in DOMAIN queued_files' :
                /\ queued_files'[j] <= session.files
                /\ host'[queued_files'[j]] # "new"
        BY <1>0, <1>g, <1>i, <2>2 DEF Queued
      <3>2. Mtp => Len(queued_files') <= 1 /\ server' # "next"
        BY <1>0, <1>g, <1>h DEF Queued
      <3>3. server' \in {"idle", "next"} /\ (server' = "idle" => Mtp)
        BY <1>h, <2>2
      <3>4. in_progress => queued_files' # <<>> /\ m_source = queued_files'[1]
        BY <1>0, <1>a, <1>g, <2>2 DEF Queued
      <3>5. ~in_progress => queued_files' = <<>>
        BY <1>0, <1>a, <1>g, <2>2 DEF Queued
      <3>6. \A g \in File : sent[g] > 0 /\ host'[g] \in {"open", "error"} =>
                in_progress /\ queued_files' # <<>> /\ queued_files'[1] = g
        BY <1>0, <1>g, <1>i, <2>2 DEF Queued
      <3>7. \A j, k \in DOMAIN queued_files' :
                queued_files'[j] = queued_files'[k] => j = k
        BY <1>g, <2>2
      <3>8. \A g \in File : sent[g] <= session.size
        BY <1>0 DEF Queued
      <3> QED BY <1>a, <3>1, <3>2, <3>3, <3>4, <3>5, <3>6, <3>7, <3>8
                 DEF Queued, Mtp, Starting, Pushing
    <2> QED BY <2>1, <2>2
  <1>5. Untouched'
    <2>1. CASE First1
      BY <1>0, <1>a, <1>h, <2>1 DEF Untouched, Waiting
    <2>2. CASE ~First1
      <3>1. \A g \in File : Waiting(g)' => Waiting(g) /\ g # f
        BY <1>a, <1>g, <1>i, <2>2 DEF Waiting
      <3>2. m_source # 0 => m_source \in File
        BY <1>0 DEF TypeOK, File
      <3> QED BY <1>0, <1>a, <1>i, <3>1, <3>2 DEF Untouched
    <2> QED BY <2>1, <2>2
  <1>6. Alive'
    <2>1. install' \in Reading \cup {"disable"} =>
              install \in Reading \cup {"disable"}
      BY <1>h DEF Reading
    <2> QED BY <1>0, <1>a, <2>1 DEF Alive
  <1>7. Starts'
    <2>1. server' \in {"close_wait", "idle", "next"}
      BY <1>h
    <2>2. server' = "next" /\ ~in_progress => queued_files' = <<>>
      BY <1>0, <1>a, <1>g, <1>h DEF Queued
    <2> QED BY <1>a, <2>1, <2>2 DEF Starts, Starting
  <1>8. Single'
    <2>1. \A g \in File : host'[g] = "new" => host[g] = "new"
      BY <1>i
    <2>2. 1 \in File
      BY InstallStreamAssumption DEF File
    <2>3. queued_files = <<>> => queued_files' = <<>>
      BY <1>g, <1>h
    <2>4. ~in_progress => queued_files' = <<>>
      BY <1>0, <1>a, <2>3 DEF Queued
    <2> QED BY <1>0, <1>a, <2>1, <2>2, <2>3 DEF Single
  <1>9. Held'
    <2> SUFFICES ASSUME Large(session), Connected \/ install = "start"
                 PROVE  /\ server' # "close_wait" /\ host'[m_source] # "error"
                        /\ m_active'[m_source]
      BY <1>0, <1>a, <1>j DEF Held, Connected
    <2>1. /\ in_progress /\ host[m_source] # "error" /\ m_active[m_source]
          /\ sent[m_source] = Len(m_buffer[m_source])
      BY <1>0 DEF Held
    <2>2. m_source \in File
      BY <1>0, <1>a, <2>1, InProgress
    <2>3. Len(m_buffer[m_source]) <= MaxBuffer
      BY <1>0, <2>2 DEF TypeOK
    <2>4. main # "exit_server"
      BY <1>0 DEF Connected, Life, Boxed
    <2>5. ~First1
      <3> SUFFICES ASSUME First1 PROVE FALSE
        OBVIOUS
      <3>1. sent[m_source] = session.size
        BY <1>e, <1>t, <2>1, <2>4 DEF Large
      <3> QED BY <1>s, <2>1, <2>3, <3>1, InstallStreamAssumption DEF Large
    <2> QED BY <1>h, <1>i, <2>1, <2>2, <2>5
  <1>10. Successful'
    <2> SUFFICES ASSUME Unfailing(session)
                 PROVE  Successful'
      BY <1>a DEF Successful
    <2>1. \A g \in File : host'[g] = "error" => ~enabled
      BY <1>0, <1>i DEF Successful
    <2>2. CASE First1
      <3>1. install \in Reading \cup {"start", "capture"} =>
                sent[m_source] = session.size
        <4> SUFFICES ASSUME install \in Reading \cup {"start", "capture"}
                     PROVE  sent[m_source] = session.size
          OBVIOUS
        <4>1. main \in Boxed
          BY <1>0 DEF Life, Reading
        <4>2. enabled
          BY <1>0, <4>1 DEF Successful, Boxed, Leaving, Stopping
        <4> QED BY <1>0, <1>e, <1>t, <2>2, <4>1, <4>2
                   DEF Successful, Unfailing, Large, Boxed
      <3>2. install' \in Reading \cup {"start", "capture"} =>
                install \in Reading \cup {"start", "capture"}
        BY <1>d, <1>j DEF Reading
      <3>3. install' \in {"chunk", "chunk_wait", "chunk_woken"} =>
                install \in {"chunk", "chunk_wait", "chunk_woken"}
        BY <1>d, <1>j
      <3>4. install' # "disable"
        BY <1>0, <1>j DEF Successful
      <3>5. server' = "close_wait"
        BY <1>h, <2>2
      <3> QED BY <1>0, <1>a, <2>1, <3>1, <3>2, <3>3, <3>4, <3>5 DEF Successful
    <2>3. CASE ~First1
      <3>1. /\ server' \in {"idle", "next"}
            /\ m_active' = m_active
            /\ install' = install
        BY <1>h, <2>3
      <3> QED BY <1>0, <1>a, <2>1, <3>1 DEF Successful
    <2> QED BY <2>2, <2>3
  <1>11. InOrder'
    BY <1>0, <1>a DEF InOrder
  <1> QED BY <1>1, <1>2, <1>3, <1>4, <1>5, <1>6, <1>7, <1>8, <1>9, <1>10, <1>11
             DEF StreamInv

(* CloseReturns: the install is over and the next file may start *)
LEMMA CloseReturnsKeeps ==
    ASSUME OwnServer, Orderly, StreamInv, CloseReturns
    PROVE  StreamInv'
  <1> USE DEF CloseReturns, CloseMayReturn, sharedVars, hostVars, streamVars,
              menuVars, mainVars, serverVars, installVars
  <1>0. /\ TypeOK /\ Life /\ Exits /\ Queued /\ Untouched /\ Alive /\ Starts
        /\ Single /\ Held /\ Successful /\ InOrder
    BY DEF StreamInv
  <1>s. /\ session.files \in File /\ session.size \in 1 .. FileSize
        /\ session.want \in 1 .. session.size
        /\ session.folder \in {"ftp", "mtp"}
        /\ OneFile(session) \/ Unfailing(session)
           \/ (Large(session) /\ session.folder = "mtp")
        /\ Unfailing(session) => Large(session) /\ session.folder = "ftp"
    BY <1>0, SessionFacts
  <1>a. /\ server = "close_wait" /\ INSTALL_STATE # "Progress"
        /\ UNCHANGED <<session, cur, left, enabled, sent, menuVars, streamVars,
                       mainVars, install, installVars>>
    BY DEF CloseMayReturn
  <1>b. /\ in_progress' = FALSE
        /\ queued_files' = Tail(queued_files)
        /\ host' = [host EXCEPT ![cur] = "closed"]
        /\ server' = IF Mtp THEN "idle" ELSE "next"
    OBVIOUS
  <1> HIDE DEF CloseReturns
  <1>d. /\ host \in [File -> {"new", "open", "error", "closed", "refused"}]
        /\ cur \in File
    BY <1>0 DEF TypeOK
  <1>e. /\ in_progress /\ cur = m_source /\ queued_files # <<>>
        /\ m_source = queued_files[1]
        /\ \A i, j \in DOMAIN queued_files :
               queued_files[i] = queued_files[j] => i = j
    BY <1>0, <1>a DEF Queued
  <1>g. /\ queued_files' \in Seq(File)
        /\ DOMAIN queued_files' = 1 .. Len(queued_files) - 1
        /\ Len(queued_files') = Len(queued_files) - 1
        /\ \A i \in DOMAIN queued_files' :
               /\ i + 1 \in DOMAIN queued_files
               /\ queued_files'[i] = queued_files[i + 1]
               /\ queued_files[i + 1] # cur
    <2>1. /\ queued_files' \in Seq(File)
          /\ Len(queued_files') = Len(queued_files) - 1
          /\ \A i \in 1 .. Len(queued_files) - 1 :
                 queued_files'[i] = queued_files[i + 1]
      BY <1>0, <1>b, <1>e, QueueFacts
    <2>2. DOMAIN queued_files' = 1 .. Len(queued_files) - 1
      BY <2>1
    <2>3. \A i \in DOMAIN queued_files' : i + 1 \in DOMAIN queued_files
      BY <2>2
    <2>4. \A i \in DOMAIN queued_files' :
              i + 1 # 1 /\ 1 \in DOMAIN queued_files
      BY <2>2
    <2> QED BY <1>e, <2>1
  <1>h. Len(queued_files) = 1 => queued_files' = <<>>
    BY <1>g
  <1>i. /\ \A g \in File : g # cur => host'[g] = host[g]
        /\ host'[cur] = "closed"
    BY <1>b, <1>d
  <1>1. TypeOK'
    <2>1. host' \in [File -> {"new", "open", "error", "closed", "refused"}]
      BY <1>b, <1>d
    <2>2. server' \in ServerPc
      BY <1>b DEF ServerPc
    <2> QED BY ZenonT(40), <1>0, <1>a, <1>b, <1>g, <2>2 DEF TypeOK
  <1>2. Life'
    BY <1>0, <1>a DEF Life
  <1>3. Exits'
    BY <1>0, <1>a, <1>b DEF Exits
  <1>4. Queued'
    <2>1. \A j \in DOMAIN queued_files' :
              /\ queued_files'[j] <= session.files
              /\ host'[queued_files'[j]] # "new"
      BY <1>0, <1>g, <1>i DEF Queued
    <2>2. \A j, k \in DOMAIN queued_files' :
              queued_files'[j] = queued_files'[k] => j = k
      <3> SUFFICES ASSUME NEW j \in DOMAIN queued_files',
                          NEW k \in DOMAIN queued_files',
                          queued_files'[j] = queued_files'[k]
                   PROVE  j = k
        OBVIOUS
      <3>1. j + 1 = k + 1
        BY <1>e, <1>g
      <3> QED BY <1>g, <3>1
    <2>3. Mtp => queued_files' = <<>>
      <3> SUFFICES ASSUME Mtp PROVE Len(queued_files) = 1
        BY <1>h
      <3>1. Len(queued_files) <= 1
        BY <1>0 DEF Queued
      <3> QED BY <1>e, <3>1, QueueFacts
    <2>4. \A g \in File : sent[g] > 0 /\ host'[g] \in {"open", "error"} =>
              FALSE
      BY <1>0, <1>e, <1>i DEF Queued
    <2>5. server' \in {"idle", "next"} /\ (server' = "idle" <=> Mtp)
      BY <1>b
    <2>6. \A g \in File : sent[g] <= session.size
      BY <1>0 DEF Queued
    <2>7. Mtp => Len(queued_files') <= 1
      BY <2>3
    <2> QED BY <1>a, <1>b, <2>1, <2>2, <2>3, <2>4, <2>6, <2>7
               DEF Queued, Mtp, Starting, Pushing
  <1>5. Untouched'
    <2>1. \A g \in File : Waiting(g)' => Waiting(g) /\ g # cur
      <3> SUFFICES ASSUME NEW g \in File, Waiting(g)'
                   PROVE  Waiting(g) /\ g # cur
        OBVIOUS
      <3>1. CASE host'[g] = "new"
        BY <1>i, <3>1 DEF Waiting
      <3>2. CASE \E i \in DOMAIN queued_files' : queued_files'[i] = g
        <4>1. PICK i \in DOMAIN queued_files' : queued_files'[i] = g
          BY <3>2
        <4>2. /\ i + 1 \in DOMAIN queued_files
              /\ queued_files[i + 1] = g
              /\ g # cur
          BY <1>g, <4>1
        <4>3. i + 1 > 1
          BY QueueFacts
        <4> QED BY <4>2, <4>3 DEF Waiting
      <3> QED BY <3>1, <3>2 DEF Waiting
    <2>2. \A g \in File : Waiting(g)' =>
              /\ host'[g] \in {"new", "open"}
              /\ sent'[g] = 0 /\ m_buffer'[g] = <<>> /\ outcome'[g] = "none"
      BY <1>0, <1>a, <1>i, <2>1 DEF Untouched
    <2>3. ~Waiting(m_source)'
      BY <1>a, <1>e, <1>g, <1>i DEF Waiting
    <2> QED BY <2>2, <2>3 DEF Untouched
  <1>6. Alive'
    BY <1>0, <1>a DEF Alive
  <1>7. Starts'
    <2>1. server' \in {"idle", "next"}
      BY <1>b
    <2>2. Connected => queued_files' = <<>>
      <3> SUFFICES ASSUME Connected PROVE queued_files' = <<>>
        OBVIOUS
      <3>1. CASE OneFile(session)
        BY <1>0, <1>h, <3>1, OneInQueue, <1>e
      <3>2. CASE Large(session)
        BY <1>0, <1>a, <3>2 DEF Held
      <3> QED BY <1>s, <3>1, <3>2
    <2> QED BY <1>a, <2>1, <2>2 DEF Starts, Starting, Connected
  <1>8. Single'
    <2> SUFFICES ASSUME OneFile(session)
                 PROVE  host'[1] # "new" /\ queued_files' = <<>>
      BY <1>a DEF Single
    <2>1. Len(queued_files) = 1
      BY <1>0, <1>e, OneInQueue
    <2>2. \A g \in File : host'[g] = "new" => host[g] = "new"
      BY <1>i
    <2>3. host[1] # "new" /\ 1 \in File
      BY <1>0, <1>e, InstallStreamAssumption DEF Single, File
    <2> QED BY <1>h, <2>1, <2>2, <2>3
  <1>9. Held'
    BY <1>0, <1>a DEF Held, Connected
  <1>10. Successful'
    BY <1>0, <1>a, <1>b DEF Successful
  <1>11. InOrder'
    BY <1>0, <1>a DEF InOrder
  <1> QED BY <1>1, <1>2, <1>3, <1>4, <1>5, <1>6, <1>7, <1>8, <1>9, <1>10, <1>11
             DEF StreamInv

(* ServerExit: the thread of the server ends, in no callback *)
LEMMA ServerExitKeeps ==
    ASSUME OwnServer, Orderly, StreamInv, ServerExit
    PROVE  StreamInv'
  <1> USE DEF ServerExit, sharedVars, hostVars, streamVars, menuVars, mainVars,
              serverVars, installVars
  <1>0. /\ TypeOK /\ Life /\ Exits /\ Queued /\ Untouched /\ Alive /\ Starts
        /\ Single /\ Held /\ Successful /\ InOrder
    BY DEF StreamInv
  <1>1. TypeOK'
    BY <1>0 DEF TypeOK, ServerPc, MainPc
  <1>2. Life'
    BY <1>0 DEF Life
  <1>3. Exits'
    BY <1>0 DEF Exits
  <1>4. Queued'
    BY <1>0 DEF Queued, Starting, Pushing, Mtp
  <1>5. Untouched'
    BY <1>0 DEF Untouched, Waiting
  <1>6. Alive'
    BY <1>0 DEF Alive
  <1>7. Starts'
    BY DEF Starts, Starting
  <1>8. Single'
    BY <1>0 DEF Single
  <1>9. Held'
    BY <1>0 DEF Held, Connected
  <1>10. Successful'
    BY <1>0 DEF Successful
  <1>11. InOrder'
    BY <1>0 DEF InOrder
  <1> QED BY <1>1, <1>2, <1>3, <1>4, <1>5, <1>6, <1>7, <1>8, <1>9, <1>10, <1>11
             DEF StreamInv

(* InstallBegins: the thread of the box runs *)
LEMMA InstallBeginsKeeps ==
    ASSUME OwnServer, Orderly, StreamInv, InstallBegins
    PROVE  StreamInv'
  <1> USE DEF InstallBegins, sharedVars, hostVars, streamVars, menuVars,
              mainVars, serverVars, installVars
  <1>0. /\ TypeOK /\ Life /\ Exits /\ Queued /\ Untouched /\ Alive /\ Starts
        /\ Single /\ Held /\ Successful /\ InOrder
    BY DEF StreamInv
  <1>1. TypeOK'
    BY <1>0 DEF TypeOK, InstallPc
  <1>2. Life'
    BY <1>0 DEF Life
  <1>3. Exits'
    BY <1>0 DEF Exits
  <1>4. Queued'
    BY <1>0 DEF Queued, Mtp
  <1>5. Untouched'
    BY <1>0 DEF Untouched, Waiting
  <1>6. Alive'
    BY <1>0 DEF Life, Alive, Reading
  <1>7. Starts'
    BY <1>0 DEF Starts, Connected
  <1>8. Single'
    BY <1>0 DEF Single
  <1>9. Held'
    BY <1>0 DEF Held
  <1>10. Successful'
    BY <1>0 DEF Successful
  <1>11. InOrder'
    BY <1>0 DEF InOrder
  <1> QED BY <1>1, <1>2, <1>3, <1>4, <1>5, <1>6, <1>7, <1>8, <1>9, <1>10, <1>11
             DEF StreamInv

(* Capture: the install takes the stream of the menu *)
LEMMA CaptureKeeps ==
    ASSUME OwnServer, Orderly, StreamInv, Capture
    PROVE  StreamInv'
  <1> USE DEF Capture, sharedVars, hostVars, streamVars, menuVars, mainVars,
              serverVars, installVars
  <1>0. /\ TypeOK /\ Life /\ Exits /\ Queued /\ Untouched /\ Alive /\ Starts
        /\ Single /\ Held /\ Successful /\ InOrder
    BY DEF StreamInv
  <1>1. TypeOK'
    BY <1>0 DEF TypeOK, InstallPc
  <1>2. Life'
    BY <1>0 DEF Life, Reading
  <1>3. Exits'
    BY <1>0 DEF Exits
  <1>4. Queued'
    BY <1>0 DEF Queued, Mtp
  <1>5. Untouched'
    BY <1>0 DEF Untouched, Waiting
  <1>6. Alive'
    BY <1>0 DEF Alive
  <1>7. Starts'
    BY <1>0 DEF Starts, Connected
  <1>8. Single'
    BY <1>0 DEF Single
  <1>9. Held'
    BY <1>0 DEF Held, Connected
  <1>10. Successful'
    BY <1>0 DEF Successful
  <1>11. InOrder'
    BY <1>0 DEF InOrder
  <1> QED BY <1>1, <1>2, <1>3, <1>4, <1>5, <1>6, <1>7, <1>8, <1>9, <1>10, <1>11
             DEF StreamInv

(* InstallRead: a part of the file is asked for, or the install ends *)
LEMMA InstallReadKeeps ==
    ASSUME OwnServer, Orderly, StreamInv, InstallRead
    PROVE  StreamInv'
  <1> USE DEF InstallRead, Smaller, sharedVars, hostVars, streamVars, menuVars,
              mainVars, serverVars, installVars
  <1>0. /\ TypeOK /\ Life /\ Exits /\ Queued /\ Untouched /\ Alive /\ Starts
        /\ Single /\ Held /\ Successful /\ InOrder
    BY DEF StreamInv
  <1>s. /\ session.files \in File /\ session.size \in 1 .. FileSize
        /\ session.want \in 1 .. session.size
        /\ session.folder \in {"ftp", "mtp"}
        /\ OneFile(session) \/ Unfailing(session)
           \/ (Large(session) /\ session.folder = "mtp")
        /\ Unfailing(session) => Large(session) /\ session.folder = "ftp"
    BY <1>0, SessionFacts
  <1>d. /\ source = m_source
        /\ m_source \in File
        /\ m_source # 0
        /\ ~Waiting(m_source)
        /\ ~stop
    <2>1. m_source # 0 /\ source = m_source /\ ~stop
      BY <1>0 DEF Life, Alive, Exits, Reading, Boxed, Stopping
    <2> QED BY SMTT(30), <1>0, <2>1 DEF TypeOK, File, Untouched
  <1>e. /\ got \in [File -> Seq(1 .. FileSize)] /\ Len(got[source]) \in Nat
        /\ need \in 0 .. ReadMax
    BY <1>0 DEF TypeOK
  <1>g. install' = "chunk" =>
            /\ need' >= 1 /\ need' \in 0 .. ReadMax
            /\ Len(got[source]) + need' <= session.want
    <2> SUFFICES ASSUME install' = "chunk"
                 PROVE  /\ need' >= 1 /\ need' \in 0 .. ReadMax
                        /\ Len(got[source]) + need' <= session.want
      OBVIOUS
    <2>1. /\ Len(got[source]) < session.want
          /\ need' \in 1 .. Smaller(ReadMax, session.want - Len(got[source]))
      OBVIOUS
    <2>2. session.want \in Nat
      BY <1>s
    <2> HIDE DEF InstallRead
    <2> QED BY <2>1, <2>2, InstallStreamAssumption
  <1>h. install' # "chunk" => need' = need /\ install' = "finish"
    OBVIOUS
  <1>i. install' \in {"chunk", "finish"} /\ rc' \in {"ok", "fail"}
    BY <1>0 DEF TypeOK
  <1>1. TypeOK'
    <2>1. need' \in 0 .. ReadMax
      BY <1>e, <1>g
    <2>2. install' \in InstallPc
      BY DEF InstallPc
    <2> QED BY SMTT(30), <1>0, <1>i, <2>1, <2>2 DEF TypeOK
  <1>2. Life'
    BY <1>0 DEF Life, Reading
  <1>3. Exits'
    BY <1>0 DEF Exits
  <1>4. Queued'
    BY <1>0 DEF Queued, Mtp
  <1>5. Untouched'
    BY <1>0 DEF Untouched, Waiting
  <1>6. Alive'
    BY <1>0 DEF Alive, Reading
  <1>7. Starts'
    BY <1>0 DEF Starts, Connected
  <1>8. Single'
    BY <1>0 DEF Single
  <1>9. Held'
    BY <1>0 DEF Held, Connected
  <1>10. Successful'
    <2> SUFFICES ASSUME Unfailing(session)
                 PROVE  Successful'
      BY DEF Successful
    <2>1. rc' = rc
      BY <1>0 DEF Successful, Unfailing
    <2>2. /\ UNCHANGED <<session, serverVars, sharedVars, hostVars, menuVars,
                         streamVars, mainVars, source, got, outcome>>
          /\ install = "read"
      OBVIOUS
    <2> HIDE DEF InstallRead
    <2> QED BY <1>0, <1>g, <1>i, <2>1, <2>2 DEF Successful, Reading
  <1>11. InOrder'
    BY <1>0 DEF InOrder
  <1> QED BY <1>1, <1>2, <1>3, <1>4, <1>5, <1>6, <1>7, <1>8, <1>9, <1>10, <1>11
             DEF StreamInv

(* ReadChunk: the blocks are taken off the front of the buffer, in order *)
LEMMA ReadChunkKeeps ==
    ASSUME OwnServer, Orderly, StreamInv, ReadChunk
    PROVE  StreamInv'
  <1> USE DEF ReadChunk, WokenServer, sharedVars, hostVars, streamVars,
              menuVars, mainVars, serverVars, installVars
  <1>0. /\ TypeOK /\ Life /\ Exits /\ Queued /\ Untouched /\ Alive /\ Starts
        /\ Single /\ Held /\ Successful /\ InOrder
    BY DEF StreamInv
  <1>s. /\ session.files \in File /\ session.size \in 1 .. FileSize
        /\ session.want \in 1 .. session.size
        /\ session.folder \in {"ftp", "mtp"}
        /\ OneFile(session) \/ Unfailing(session)
           \/ (Large(session) /\ session.folder = "mtp")
        /\ Unfailing(session) => Large(session) /\ session.folder = "ftp"
    BY <1>0, SessionFacts
  <1> DEFINE b == m_buffer[source]
             n == Smaller(need, Len(b))
  <1>a. /\ install \in {"chunk", "chunk_woken"}
        /\ UNCHANGED <<session, cur, left, sharedVars, hostVars, menuVars,
                       m_active, mainVars, source, outcome>>
    OBVIOUS
  <1>d. /\ source = m_source
        /\ m_source \in File
        /\ m_source # 0
        /\ ~Waiting(m_source)
        /\ ~stop
    <2>1. m_source # 0 /\ source = m_source /\ ~stop
      BY <1>0 DEF Life, Alive, Exits, Reading, Boxed, Stopping
    <2> QED BY SMTT(30), <1>0, <2>1 DEF TypeOK, File, Untouched
  <1>b. \/ /\ m_active[source] /\ b = <<>> /\ install' = "chunk_wait"
           /\ UNCHANGED <<m_buffer, got, need, rc, server>>
        \/ /\ ~m_active[source] /\ b = <<>>
           /\ install' = "finish" /\ need' = 0 /\ rc' = "fail"
           /\ UNCHANGED <<m_buffer, got, server>>
        \/ /\ b # <<>>
           /\ got' = [got EXCEPT ![source] = @ \o SubSeq(b, 1, n)]
           /\ m_buffer' = [m_buffer EXCEPT ![source] = Erased(b, n)]
           /\ server' = WokenServer(source)
           /\ need' = need - n
           /\ install' = IF n = need THEN "read" ELSE "chunk"
           /\ UNCHANGED rc
    BY <1>d
  <1> HIDE DEF ReadChunk
  <1>e. /\ got \in [File -> Seq(Block)] /\ m_buffer \in [File -> Seq(Block)]
        /\ b \in Seq(Block)
        /\ got[source] \in Seq(Block)
        /\ Len(got[source]) \in Nat
        /\ Len(b) \in 0 .. MaxBuffer
        /\ need \in 0 .. ReadMax
        /\ server \in ServerPc
    BY <1>0, <1>d DEF TypeOK, Block
  <1>g. n \in 0 .. Len(b) /\ n \in 0 .. need
    <2>1. Len(b) \in Nat /\ need \in Nat
      BY <1>e
    <2> HIDE DEF b
    <2> QED BY <2>1 DEF Smaller
  <1> HIDE DEF n
  <1>h. /\ got[source] \o SubSeq(b, 1, n) \in Seq(Block)
        /\ Len(got[source] \o SubSeq(b, 1, n)) = Len(got[source]) + n
        /\ Erased(b, n) \in Seq(Block) /\ Len(Erased(b, n)) = Len(b) - n
        /\ (got[source] \o SubSeq(b, 1, n)) \o Erased(b, n) = got[source] \o b
    <2> DEFINE g == got[source]
    <2>1. g \in Seq(Block) /\ b \in Seq(Block) /\ n \in 0 .. Len(b)
      BY <1>e, <1>g
    <2> HIDE DEF g, b
    <2>2. /\ g \o SubSeq(b, 1, n) \in Seq(Block)
          /\ Len(g \o SubSeq(b, 1, n)) = Len(g) + n
          /\ Erased(b, n) \in Seq(Block) /\ Len(Erased(b, n)) = Len(b) - n
          /\ (g \o SubSeq(b, 1, n)) \o Erased(b, n) = g \o b
      BY <2>1, Taken
    <2> QED BY <2>2 DEF g
  <1>i. /\ \A g \in File : g # source =>
               got'[g] = got[g] /\ m_buffer'[g] = m_buffer[g]
        /\ \/ m_buffer' = m_buffer /\ got' = got
           \/ /\ m_buffer' = [m_buffer EXCEPT ![source] = Erased(b, n)]
              /\ got' = [got EXCEPT ![source] = @ \o SubSeq(b, 1, n)]
    BY <1>b, <1>e
  <1>j. /\ server' \in ServerPc
        /\ \A p \in ServerPc \ {"push_wait", "push_woken"} : server' = p <=>
               server = p
        /\ install' \in {"chunk_wait", "finish", "read", "chunk"}
    BY <1>b, <1>e DEF ServerPc, InCallback
  <1>1. TypeOK'
    <2>1. got' \in [File -> Seq(Block)]
      BY <1>e, <1>h, <1>i
    <2>2. m_buffer' \in [File -> Seq(Block)]
      BY <1>e, <1>h, <1>i
    <2>3. \A g \in File : Len(m_buffer'[g]) \in 0 .. MaxBuffer
      <3>1. Len(m_buffer'[source]) \in 0 .. MaxBuffer
        BY <1>d, <1>e, <1>h, <1>i, InstallStreamAssumption
      <3> QED BY SMTT(30), <1>0, <1>i, <3>1 DEF TypeOK
    <2>4. need' \in 0 .. ReadMax
      <3>1. need' = need \/ need' = 0 \/ need' = need - n
        BY <1>b
      <3> QED BY <1>e, <1>g, <3>1, InstallStreamAssumption
    <2>5. install' \in InstallPc /\ rc' \in {"ok", "fail"}
      BY <1>0, <1>b DEF TypeOK, InstallPc
    <2> QED BY SMTT(30), <1>0, <1>a, <1>j, <2>1, <2>2, <2>3, <2>4, <2>5
               DEF TypeOK, Block
  <1>2. Life'
    BY <1>0, <1>a, <1>j DEF Life, Reading
  <1>3. Exits'
    <2>1. server' = "stopped" <=> server = "stopped"
      BY <1>e, <1>j
    <2> QED BY <1>0, <1>a, <2>1 DEF Exits
  <1>4. Queued'
    <2>1. /\ server' \in Pushing <=> server \in Pushing
          /\ server' \in Pushing \cup {"close_wait"} <=>
                 server \in Pushing \cup {"close_wait"}
          /\ server' \in Starting <=> server \in Starting
          /\ \A p \in {"next", "stopped", "idle", "start_source"} :
                 server' = p <=> server = p
      BY <1>e, <1>j DEF Pushing, Starting
    <2> QED BY <1>0, <1>a, <2>1 DEF Queued, Mtp
  <1>5. Untouched'
    <2>1. \A g \in File : Waiting(g)' => Waiting(g) /\ g # source
      BY <1>a, <1>d DEF Waiting
    <2>2. ~Waiting(m_source)'
      BY <1>a, <1>d DEF Waiting
    <2> QED BY <1>0, <1>a, <1>i, <2>1, <2>2 DEF Untouched
  <1>6. Alive'
    BY <1>0, <1>a, <1>d DEF Alive
  <1>7. Starts'
    <2>1. /\ server' \in Starting <=> server \in Starting
          /\ \A p \in {"next", "start_source", "start_new"} : server' = p <=>
                 server = p
      BY <1>e, <1>j DEF Starting
    <2> QED BY <1>0, <1>a, <2>1 DEF Starts, Connected
  <1>8. Single'
    BY <1>0, <1>a DEF Single
  <1>9. Held'
    <2>1. ~Connected' /\ install' # "start"
      BY <1>0, <1>a, <1>j DEF Life, Connected
    <2> QED BY <2>1 DEF Held
  <1>10. Successful'
    <2> SUFFICES ASSUME Unfailing(session)
                 PROVE  Successful'
      BY <1>a DEF Successful
    <2>1. need >= 1 /\ Len(got[source]) + need <= session.want
      BY <1>0, <1>a DEF Successful
    <2>2. m_active[source] \/ sent[source] = session.size
      BY <1>0, <1>a, <1>d DEF Successful, Reading
    <2>3. ~(~m_active[source] /\ b = <<>>)
      <3> SUFFICES ASSUME ~m_active[source], b = <<>> PROVE FALSE
        OBVIOUS
      <3>1. outcome[source] = "none"
        BY <1>0, <1>a, <1>d DEF Alive, Life, Reading
      <3>2. got[source] \o b = [i \in 1 .. sent[source] |-> i]
        BY <1>0, <1>d, <3>1 DEF InOrder
      <3>3. got[source] \o b = got[source]
        <4> DEFINE g == got[source]
        <4>1. g \in Seq(Block)
          BY <1>e
        <4> HIDE DEF g
        <4>2. g \o <<>> = g
          BY <4>1
        <4> QED BY <4>2
      <3>4. sent[source] = session.size /\ session.size \in Nat
        BY <1>s, <2>2
      <3>5. Len([i \in 1 .. session.size |-> i]) = session.size
        BY <3>4
      <3>6. Len(got[source]) = session.size
        BY <3>2, <3>3, <3>4, <3>5, Zenon
      <3> QED BY <1>s, <2>1, <3>6, <1>e
    <2>4. install' = "chunk_wait" => need' = need /\ got' = got
      BY <1>b
    <2>5. install' = "chunk" =>
              need' >= 1 /\ Len(got'[source]) + need' <= session.want
      <3> SUFFICES ASSUME install' = "chunk"
                   PROVE  /\ need' >= 1
                          /\ Len(got'[source]) + need' <= session.want
        OBVIOUS
      <3>1. /\ got' = [got EXCEPT ![source] = @ \o SubSeq(b, 1, n)]
            /\ need' = need - n /\ n # need
        BY <1>b
      <3>2. got'[source] = got[source] \o SubSeq(b, 1, n)
        BY <1>d, <1>e, <3>1
      <3>3. Len(got'[source]) = Len(got[source]) + n
        BY <1>h, <3>2
      <3>4. /\ n \in Nat
            /\ need \in Nat
            /\ Len(got[source]) \in Nat
            /\ session.want \in Nat
            /\ n <= need
        BY <1>e, <1>g, <1>s
      <3> QED BY <2>1, <3>1, <3>4
    <2>6. rc' = rc
      BY <1>b, <2>3
    <2>7. server' \in {"close_wait", "stopped"} <=>
              server \in {"close_wait", "stopped"}
      BY <1>e, <1>j
    <2> QED BY <1>0, <1>a, <1>d, <1>j, <2>2, <2>4, <2>5, <2>6, <2>7
               DEF Successful
  <1>11. InOrder'
    <2>1. outcome[source] = "none" =>
              got'[source] \o m_buffer'[source] =
                  [i \in 1 .. sent[source] |-> i]
      <3>1. got'[source] \o m_buffer'[source] = got[source] \o b
        BY <1>e, <1>h, <1>i
      <3> QED BY <1>0, <1>d, <3>1 DEF InOrder
    <2>2. \A g \in File : g # source => (outcome[g] = "none" =>
              got'[g] \o m_buffer'[g] = [i \in 1 .. sent[g] |-> i])
      BY <1>0, <1>i DEF InOrder
    <2> HIDE DEF b
    <2> QED BY <1>a, <2>1, <2>2 DEF InOrder
  <1> QED BY <1>1, <1>2, <1>3, <1>4, <1>5, <1>6, <1>7, <1>8, <1>9, <1>10, <1>11
             DEF StreamInv

(* InstallEnds: the outcome of the file is known *)
LEMMA InstallEndsKeeps ==
    ASSUME OwnServer, Orderly, StreamInv, InstallEnds
    PROVE  StreamInv'
  <1> USE DEF InstallEnds, sharedVars, hostVars, streamVars, menuVars,
              mainVars, serverVars, installVars
  <1>0. /\ TypeOK /\ Life /\ Exits /\ Queued /\ Untouched /\ Alive /\ Starts
        /\ Single /\ Held /\ Successful /\ InOrder
    BY DEF StreamInv
  <1>d. /\ source = m_source
        /\ m_source \in File
        /\ m_source # 0
        /\ ~Waiting(m_source)
        /\ ~stop
    <2>1. m_source # 0 /\ source = m_source /\ ~stop
      BY <1>0 DEF Life, Alive, Exits, Reading, Boxed, Stopping
    <2> QED BY SMTT(30), <1>0, <2>1 DEF TypeOK, File, Untouched
  <1>1. TypeOK'
    <2>1. outcome' \in [File -> {"none", "ok", "fail"}]
      BY <1>0 DEF TypeOK
    <2>2. install' \in InstallPc
      BY DEF InstallPc
    <2> QED BY ZenonT(40), <1>0, <2>2 DEF TypeOK
  <1>2. Life'
    BY <1>0 DEF Life, Reading
  <1>3. Exits'
    BY <1>0 DEF Exits
  <1>4. Queued'
    BY <1>0 DEF Queued, Mtp
  <1>5. Untouched'
    <2>1. \A g \in File : Waiting(g)' => Waiting(g) /\ g # source
      BY <1>d DEF Waiting
    <2>2. ~Waiting(m_source)'
      BY <1>d DEF Waiting
    <2>3. \A g \in File : g # source => outcome'[g] = outcome[g]
      BY <1>0
    <2> QED BY <1>0, <2>1, <2>2 DEF Untouched
  <1>6. Alive'
    <2>1. outcome'[m_source] = rc /\ rc # "none"
      BY <1>0, <1>d DEF TypeOK
    <2> QED BY <1>d, <2>1 DEF Alive
  <1>7. Starts'
    BY <1>0 DEF Starts, Connected
  <1>8. Single'
    BY <1>0 DEF Single
  <1>9. Held'
    BY <1>0 DEF Held, Connected
  <1>10. Successful'
    BY <1>0 DEF Successful, Reading
  <1>11. InOrder'
    BY <1>0 DEF TypeOK, InOrder
  <1> QED BY <1>1, <1>2, <1>3, <1>4, <1>5, <1>6, <1>7, <1>8, <1>9, <1>10, <1>11
             DEF StreamInv

(* InstallDisables: a failed install wakes the writer *)
LEMMA InstallDisablesKeeps ==
    ASSUME OwnServer, Orderly, StreamInv, InstallDisables
    PROVE  StreamInv'
  <1> USE DEF InstallDisables, Disabled, WokenServer, sharedVars, hostVars,
              streamVars, menuVars, mainVars, serverVars, installVars
  <1>0. /\ TypeOK /\ Life /\ Exits /\ Queued /\ Untouched /\ Alive /\ Starts
        /\ Single /\ Held /\ Successful /\ InOrder
    BY DEF StreamInv
  <1>1. TypeOK'
    <2>1. m_active' \in [File -> BOOLEAN]
      BY <1>0 DEF TypeOK
    <2>2. server' \in ServerPc
      BY <1>0 DEF TypeOK, ServerPc, InCallback
    <2>3. install' \in InstallPc
      BY DEF InstallPc
    <2> QED BY SMTT(30), <1>0, <2>1, <2>2, <2>3 DEF TypeOK
  <1>2. Life'
    BY <1>0 DEF Life, Reading
  <1>3. Exits'
    BY <1>0 DEF Exits
  <1>4. Queued'
    BY <1>0 DEF Queued, Starting, Pushing, Mtp
  <1>5. Untouched'
    BY <1>0 DEF Untouched, Waiting
  <1>6. Alive'
    BY <1>0 DEF Alive
  <1>7. Starts'
    BY <1>0 DEF Starts, Connected, Starting
  <1>8. Single'
    BY <1>0 DEF Single
  <1>9. Held'
    BY <1>0 DEF Life, Held, Connected
  <1>10. Successful'
    BY <1>0 DEF Successful
  <1>11. InOrder'
    BY <1>0 DEF InOrder
  <1> QED BY <1>1, <1>2, <1>3, <1>4, <1>5, <1>6, <1>7, <1>8, <1>9, <1>10, <1>11
             DEF StreamInv

(* Update: the box is pushed once for a file that was started *)
LEMMA UpdateKeeps ==
    ASSUME OwnServer, Orderly, StreamInv, Update
    PROVE  StreamInv'
  <1> USE DEF Update, OnTop, sharedVars, hostVars, streamVars, menuVars,
              mainVars, serverVars, installVars
  <1>0. /\ TypeOK /\ Life /\ Exits /\ Queued /\ Untouched /\ Alive /\ Starts
        /\ Single /\ Held /\ Successful /\ InOrder
    BY DEF StreamInv
  <1>s. /\ session.files \in File /\ session.size \in 1 .. FileSize
        /\ session.want \in 1 .. session.size
        /\ session.folder \in {"ftp", "mtp"}
        /\ OneFile(session) \/ Unfailing(session)
           \/ (Large(session) /\ session.folder = "mtp")
        /\ Unfailing(session) => Large(session) /\ session.folder = "ftp"
    BY <1>0, SessionFacts
  <1>1. TypeOK'
    <2>1. pop' \in BOOLEAN
      <3> DEFINE l == "leave" \in session.events
      <3>1. l \in BOOLEAN
        OBVIOUS
      <3>2. pop' \in {FALSE, l}
        OBVIOUS
      <3> HIDE DEF l
      <3> QED BY <3>1, <3>2, Zenon
    <2>2. install' \in InstallPc /\ main' \in MainPc
      BY <1>0 DEF TypeOK, InstallPc, MainPc
    <2> QED BY ZenonT(40), <1>0, <2>1, <2>2 DEF TypeOK
  <1>2. Life'
    BY <1>0 DEF Life, Boxed, Leaving, Stopping
  <1>3. Exits'
    BY <1>0 DEF Exits, Stopping
  <1>4. Queued'
    BY <1>0 DEF Queued, Mtp
  <1>5. Untouched'
    BY <1>0 DEF Untouched, Waiting
  <1>6. Alive'
    BY <1>0 DEF Alive, Reading
  <1>7. Starts'
    BY <1>0 DEF Starts, Connected, Starting, Leaving
  <1>8. Single'
    BY <1>0 DEF Single
  <1>9. Held'
    BY <1>0 DEF Held, Connected
  <1>10. Successful'
    <2> SUFFICES ASSUME Unfailing(session)
                 PROVE  Successful'
      BY DEF Successful
    <2>1. install' = "start" => m_active[m_source]
      BY <1>0, <1>s DEF Held, Connected
    <2>2. /\ install' \in {"start", install}
          /\ install = "none"
          /\ main' # "settle"
          /\ m_state' \in {"Progress", m_state}
          /\ (main' \in Leaving \/ enabled)
          /\ main = "frame" /\ (cancelled' = FALSE \/ cancelled' = cancelled)
          /\ UNCHANGED <<session, serverVars, sharedVars, hostVars, m_source,
                         INSTALL_STATE, stop, streamVars, installVars>>
      BY <1>0 DEF Life, Boxed, Successful, Leaving, Stopping
    <2> HIDE DEF Update
    <2> QED BY <1>0, <2>1, <2>2 DEF Successful
  <1>11. InOrder'
    BY <1>0 DEF InOrder
  <1> QED BY <1>1, <1>2, <1>3, <1>4, <1>5, <1>6, <1>7, <1>8, <1>9, <1>10, <1>11
             DEF StreamInv

(* Cancel: the stop token of the box *)
LEMMA CancelKeeps ==
    ASSUME OwnServer, Orderly, StreamInv, Cancel
    PROVE  StreamInv'
  <1> USE DEF Cancel, sharedVars, hostVars, streamVars, menuVars, mainVars,
              serverVars, installVars
  <1>0. /\ TypeOK /\ Life /\ Exits /\ Queued /\ Untouched /\ Alive /\ Starts
        /\ Single /\ Held /\ Successful /\ InOrder
    BY DEF StreamInv
  <1>s. /\ session.files \in File /\ session.size \in 1 .. FileSize
        /\ session.want \in 1 .. session.size
        /\ session.folder \in {"ftp", "mtp"}
        /\ OneFile(session) \/ Unfailing(session)
           \/ (Large(session) /\ session.folder = "mtp")
        /\ Unfailing(session) => Large(session) /\ session.folder = "ftp"
    BY <1>0, SessionFacts
  <1>1. TypeOK'
    BY <1>0 DEF TypeOK, MainPc
  <1>2. Life'
    BY <1>0 DEF Life, Boxed, Leaving, Stopping
  <1>3. Exits'
    BY <1>0 DEF Exits, Stopping
  <1>4. Queued'
    BY <1>0 DEF Queued, Mtp
  <1>5. Untouched'
    BY <1>0 DEF Untouched, Waiting
  <1>6. Alive'
    BY <1>0 DEF Alive
  <1>7. Starts'
    BY <1>0 DEF Starts, Connected, Stopping, Leaving
  <1>8. Single'
    BY <1>0 DEF Single
  <1>9. Held'
    BY <1>0 DEF Held, Connected
  <1>10. Successful'
    <2>1. ~Unfailing(session)
      BY DEF Unfailing
    <2> QED BY <2>1 DEF Successful
  <1>11. InOrder'
    BY <1>0 DEF InOrder
  <1> QED BY <1>1, <1>2, <1>3, <1>4, <1>5, <1>6, <1>7, <1>8, <1>9, <1>10, <1>11
             DEF StreamInv

(* BoxEnds: the box waits for its thread *)
LEMMA BoxEndsKeeps ==
    ASSUME OwnServer, Orderly, StreamInv, BoxEnds
    PROVE  StreamInv'
  <1> USE DEF BoxEnds, sharedVars, hostVars, streamVars, menuVars, mainVars,
              serverVars, installVars
  <1>0. /\ TypeOK /\ Life /\ Exits /\ Queued /\ Untouched /\ Alive /\ Starts
        /\ Single /\ Held /\ Successful /\ InOrder
    BY DEF StreamInv
  <1>1. TypeOK'
    BY <1>0 DEF TypeOK, MainPc
  <1>2. Life'
    BY <1>0 DEF Life, Boxed, Leaving, Stopping
  <1>3. Exits'
    BY <1>0 DEF Exits, Stopping
  <1>4. Queued'
    BY <1>0 DEF Queued, Mtp
  <1>5. Untouched'
    BY <1>0 DEF Untouched, Waiting
  <1>6. Alive'
    BY <1>0 DEF Alive
  <1>7. Starts'
    BY <1>0 DEF Starts, Connected, Stopping, Leaving
  <1>8. Single'
    BY <1>0 DEF Single
  <1>9. Held'
    BY DEF Held, Connected
  <1>10. Successful'
    BY <1>0 DEF Successful, Stopping, Leaving
  <1>11. InOrder'
    BY <1>0 DEF InOrder
  <1> QED BY <1>1, <1>2, <1>3, <1>4, <1>5, <1>6, <1>7, <1>8, <1>9, <1>10, <1>11
             DEF StreamInv

(* BoxDone: the outcome is the state of the menu *)
LEMMA BoxDoneKeeps ==
    ASSUME OwnServer, Orderly, StreamInv, BoxDone
    PROVE  StreamInv'
  <1> USE DEF BoxDone, AfterBox, ThreadExited, sharedVars, hostVars,
              streamVars, menuVars, mainVars, serverVars, installVars
  <1>0. /\ TypeOK /\ Life /\ Exits /\ Queued /\ Untouched /\ Alive /\ Starts
        /\ Single /\ Held /\ Successful /\ InOrder
    BY DEF StreamInv
  <1>1. TypeOK'
    <2>1. /\ install' \in InstallPc
          /\ main' \in MainPc
          /\ source' \in 0 .. NumFiles
      BY InstallStreamAssumption DEF InstallPc, MainPc
    <2>2. m_state' \in {"None", "Connected", "Progress", "Done", "Failed"}
      OBVIOUS
    <2> QED BY SMTT(30), <1>0, <2>1 DEF TypeOK
  <1>2. Life'
    BY <1>0 DEF Life, Boxed, Leaving, Stopping, Reading
  <1>3. Exits'
    BY <1>0 DEF Exits, Stopping
  <1>4. Queued'
    BY <1>0 DEF Queued, Mtp
  <1>5. Untouched'
    BY <1>0 DEF Untouched, Waiting
  <1>6. Alive'
    BY <1>0 DEF Alive, Reading
  <1>7. Starts'
    BY <1>0 DEF Starts, Connected, Stopping, Leaving
  <1>8. Single'
    BY <1>0 DEF Life, Single
  <1>9. Held'
    BY DEF Held, Connected
  <1>10. Successful'
    BY <1>0 DEF Successful, Stopping, Leaving, Reading
  <1>11. InOrder'
    BY <1>0 DEF InOrder
  <1> QED BY <1>1, <1>2, <1>3, <1>4, <1>5, <1>6, <1>7, <1>8, <1>9, <1>10, <1>11
             DEF StreamInv

(* Settle: install mode is disabled after a failed install *)
LEMMA SettleKeeps ==
    ASSUME OwnServer, Orderly, StreamInv, Settle
    PROVE  StreamInv'
  <1> USE DEF Settle, AfterBox, SharedFree, InCallback, sharedVars, hostVars,
              streamVars, menuVars, mainVars, serverVars, installVars
  <1>0. /\ TypeOK /\ Life /\ Exits /\ Queued /\ Untouched /\ Alive /\ Starts
        /\ Single /\ Held /\ Successful /\ InOrder
    BY DEF StreamInv
  <1>1. TypeOK'
    <2>1. main' \in MainPc
      BY DEF MainPc
    <2> QED BY ZenonT(40), <1>0, <2>1 DEF TypeOK
  <1>2. Life'
    BY <1>0 DEF Life, Boxed, Leaving, Stopping
  <1>3. Exits'
    BY <1>0 DEF Exits, Stopping
  <1>4. Queued'
    BY <1>0 DEF Queued, Mtp
  <1>5. Untouched'
    BY <1>0 DEF Untouched, Waiting
  <1>6. Alive'
    BY <1>0 DEF Alive
  <1>7. Starts'
    BY <1>0 DEF Life, Starts, Connected, Starting
  <1>8. Single'
    BY <1>0 DEF Single
  <1>9. Held'
    BY <1>0 DEF Life, Held, Connected
  <1>10. Successful'
    BY <1>0 DEF Successful
  <1>11. InOrder'
    BY <1>0 DEF InOrder
  <1> QED BY <1>1, <1>2, <1>3, <1>4, <1>5, <1>6, <1>7, <1>8, <1>9, <1>10, <1>11
             DEF StreamInv

(* Leave: install mode is disabled by the menu that goes *)
LEMMA LeaveKeeps ==
    ASSUME OwnServer, Orderly, StreamInv, Leave
    PROVE  StreamInv'
  <1> USE DEF Leave, AfterDisable, SharedFree, InCallback, sharedVars,
              hostVars, streamVars, menuVars, mainVars, serverVars, installVars
  <1>0. /\ TypeOK /\ Life /\ Exits /\ Queued /\ Untouched /\ Alive /\ Starts
        /\ Single /\ Held /\ Successful /\ InOrder
    BY DEF StreamInv
  <1>a. main' = "exit_server"
    BY DEF OwnServer
  <1>1. TypeOK'
    <2>1. main' \in MainPc
      BY DEF MainPc
    <2> QED BY ZenonT(40), <1>0, <2>1 DEF TypeOK
  <1>2. Life'
    BY <1>0 DEF Life, Boxed, Leaving, Stopping
  <1>3. Exits'
    BY <1>0, <1>a DEF Exits, Stopping
  <1>4. Queued'
    BY <1>0 DEF Queued, Mtp
  <1>5. Untouched'
    BY <1>0 DEF Untouched, Waiting
  <1>6. Alive'
    BY <1>0 DEF Alive
  <1>7. Starts'
    BY DEF Starts, Connected, Stopping, Leaving
  <1>8. Single'
    BY <1>0 DEF Single
  <1>9. Held'
    BY <1>0 DEF Life, Held, Connected, Boxed
  <1>10. Successful'
    BY <1>0 DEF Successful, Stopping, Leaving
  <1>11. InOrder'
    BY <1>0 DEF InOrder
  <1> QED BY <1>1, <1>2, <1>3, <1>4, <1>5, <1>6, <1>7, <1>8, <1>9, <1>10, <1>11
             DEF StreamInv

(* ServerJoined: the menu goes after the thread of the server has ended *)
LEMMA ServerJoinedKeeps ==
    ASSUME OwnServer, Orderly, StreamInv, ServerJoined
    PROVE  StreamInv'
  <1> USE DEF ServerJoined, sharedVars, hostVars, streamVars, menuVars,
              mainVars, serverVars, installVars
  <1>0. /\ TypeOK /\ Life /\ Exits /\ Queued /\ Untouched /\ Alive /\ Starts
        /\ Single /\ Held /\ Successful /\ InOrder
    BY DEF StreamInv
  <1>1. TypeOK'
    BY <1>0 DEF TypeOK, MainPc
  <1>2. Life'
    BY <1>0 DEF Life, Boxed, Leaving, Stopping
  <1>3. Exits'
    BY DEF Exits, Stopping
  <1>4. Queued'
    BY <1>0 DEF Queued, Mtp
  <1>5. Untouched'
    BY <1>0 DEF Untouched, Waiting
  <1>6. Alive'
    BY <1>0 DEF Alive
  <1>7. Starts'
    BY DEF Starts, Starting
  <1>8. Single'
    BY <1>0 DEF Single
  <1>9. Held'
    BY <1>0 DEF Held, Connected
  <1>10. Successful'
    BY <1>0 DEF Successful, Stopping, Leaving
  <1>11. InOrder'
    BY <1>0 DEF InOrder
  <1> QED BY <1>1, <1>2, <1>3, <1>4, <1>5, <1>6, <1>7, <1>8, <1>9, <1>10, <1>11
             DEF StreamInv

(* RequestStop: the stop of the menu *)
LEMMA RequestStopKeeps ==
    ASSUME OwnServer, Orderly, StreamInv, RequestStop
    PROVE  StreamInv'
  <1> USE DEF RequestStop, sharedVars, hostVars, streamVars, menuVars,
              mainVars, serverVars, installVars
  <1>0. /\ TypeOK /\ Life /\ Exits /\ Queued /\ Untouched /\ Alive /\ Starts
        /\ Single /\ Held /\ Successful /\ InOrder
    BY DEF StreamInv
  <1>1. TypeOK'
    BY <1>0 DEF TypeOK, MainPc
  <1>2. Life'
    BY <1>0 DEF Life, Boxed, Leaving, Stopping
  <1>3. Exits'
    BY <1>0 DEF Exits, Stopping
  <1>4. Queued'
    BY <1>0 DEF Queued, Mtp
  <1>5. Untouched'
    BY <1>0 DEF Untouched, Waiting
  <1>6. Alive'
    BY <1>0 DEF Alive
  <1>7. Starts'
    BY <1>0 DEF Starts, Exits, Starting, Stopping
  <1>8. Single'
    BY <1>0 DEF Single
  <1>9. Held'
    BY <1>0 DEF Held, Connected
  <1>10. Successful'
    BY <1>0 DEF Successful, Stopping, Leaving
  <1>11. InOrder'
    BY <1>0 DEF InOrder
  <1> QED BY <1>1, <1>2, <1>3, <1>4, <1>5, <1>6, <1>7, <1>8, <1>9, <1>10, <1>11
             DEF StreamInv

(* StopDisable: the destructor disables the stream *)
LEMMA StopDisableKeeps ==
    ASSUME OwnServer, Orderly, StreamInv, StopDisable
    PROVE  StreamInv'
  <1> USE DEF StopDisable, Disabled, WokenInstall, WokenServer, sharedVars,
              hostVars, streamVars, menuVars, mainVars, serverVars, installVars
  <1>0. /\ TypeOK /\ Life /\ Exits /\ Queued /\ Untouched /\ Alive /\ Starts
        /\ Single /\ Held /\ Successful /\ InOrder
    BY DEF StreamInv
  <1>1. TypeOK'
    <2>1. m_active' \in [File -> BOOLEAN]
      BY <1>0 DEF TypeOK
    <2>2. server' \in ServerPc
      BY <1>0 DEF TypeOK, ServerPc, InCallback
    <2>3. install' \in InstallPc
      BY <1>0 DEF TypeOK, InstallPc
    <2>4. main' \in MainPc /\ m_source' \in 0 .. NumFiles
      BY InstallStreamAssumption DEF MainPc
    <2> QED BY SMTT(30), <1>0, <2>1, <2>2, <2>3, <2>4 DEF TypeOK
  <1>2. Life'
    BY <1>0 DEF Life, Boxed, Leaving, Stopping
  <1>3. Exits'
    BY <1>0 DEF Exits, Stopping
  <1>4. Queued'
    BY <1>0 DEF Queued, Exits, Pushing, Stopping, Mtp
  <1>5. Untouched'
    BY <1>0 DEF Untouched, Waiting
  <1>6. Alive'
    BY <1>0 DEF Life, Alive, Reading, Boxed
  <1>7. Starts'
    BY <1>0 DEF Starts, Exits, Starting, Stopping
  <1>8. Single'
    BY <1>0 DEF Single
  <1>9. Held'
    BY <1>0 DEF Life, Held, Connected, Boxed
  <1>10. Successful'
    BY <1>0 DEF Life, Successful, Exits, Boxed, Stopping, Leaving, Reading
  <1>11. InOrder'
    BY <1>0 DEF InOrder
  <1> QED BY <1>1, <1>2, <1>3, <1>4, <1>5, <1>6, <1>7, <1>8, <1>9, <1>10, <1>11
             DEF StreamInv

(* A step that changes nothing *)
LEMMA StutterKeeps ==
    ASSUME StreamInv, UNCHANGED vars
    PROVE  StreamInv'
  <1> USE DEF vars, sharedVars, hostVars, streamVars, menuVars, mainVars,
              serverVars, installVars
  <1>0. /\ TypeOK /\ Life /\ Exits /\ Queued /\ Untouched /\ Alive /\ Starts
        /\ Single /\ Held /\ Successful /\ InOrder
    BY DEF StreamInv
  <1>1. TypeOK' /\ Life' /\ Exits'
    BY <1>0 DEF TypeOK, Life, Exits
  <1>2. Queued' /\ Alive' /\ Starts'
    BY <1>0 DEF Queued, Mtp, Alive, Starts, Connected
  <1>3. Untouched'
    BY <1>0 DEF Untouched, Waiting
  <1>4. Single' /\ Held'
    BY <1>0 DEF Single, Held, Connected
  <1>5. Successful' /\ InOrder'
    BY <1>0 DEF Successful, InOrder
  <1> QED BY <1>1, <1>2, <1>3, <1>4, <1>5 DEF StreamInv

(* The invariant holds at first, when nothing was sent, *)
LEMMA StreamInit ==
    ASSUME Init
    PROVE  StreamInv
  <1> USE DEF Init
  <1>0. /\ session \in Sessions /\ session \in Session /\ 1 \in File
        /\ 0 \notin File /\ File = 1 .. NumFiles /\ session.size \in Nat
    BY InstallStreamAssumption DEF Session, File
  <1>1. TypeOK
    <2>1. cur \in File /\ left \in 0 .. WriteMax /\ need \in 0 .. ReadMax
          /\ m_source \in 0 .. NumFiles /\ source \in 0 .. NumFiles
      BY <1>0, InstallStreamAssumption
    <2>2. sent \in [File -> 0 .. FileSize]
      BY InstallStreamAssumption
    <2>3. /\ m_buffer \in [File -> Seq(1 .. FileSize)]
          /\ \A f \in File : Len(m_buffer[f]) \in 0 .. MaxBuffer
          /\ got \in [File -> Seq(1 .. FileSize)]
      BY InstallStreamAssumption
    <2>4. /\ host \in [File -> {"new", "open", "error", "closed", "refused"}]
          /\ m_active \in [File -> BOOLEAN]
          /\ outcome \in [File -> {"none", "ok", "fail"}]
          /\ queued_files \in Seq(File)
      OBVIOUS
    <2> QED BY ZenonT(40), <2>1, <2>2, <2>3, <2>4
               DEF TypeOK, ServerPc, MainPc, InstallPc
  <1>2. Life /\ Exits /\ Alive /\ Starts
    BY DEF Life, Exits, Alive, Starts, Boxed, Leaving, Stopping, Connected
  <1>3. Queued
    BY <1>0 DEF Queued, Starting, Pushing
  <1>4. Untouched
    BY DEF Untouched
  <1>5. Single /\ Held /\ Successful
    BY DEF Single, Held, Connected, Successful, Reading
  <1>6. InOrder
    <2>1. ASSUME NEW f \in File
          PROVE  got[f] \o m_buffer[f] = [i \in 1 .. sent[f] |-> i]
      <3>1. got[f] = <<>> /\ m_buffer[f] = <<>> /\ sent[f] = 0
        OBVIOUS
      <3>2. [i \in 1 .. 0 |-> i] = <<>>
        OBVIOUS
      <3> QED BY <3>2
    <2> QED BY DEF InOrder
  <1> QED BY <1>1, <1>2, <1>3, <1>4, <1>5, <1>6 DEF StreamInv

(* and every step keeps it. *)
LEMMA StreamStep ==
    ASSUME OwnServer, Orderly, StreamInv, [Next]_vars
    PROVE  StreamInv'
  <1>1. CASE Server
    BY <1>1, StartNextKeeps, StartStateKeeps, StartSourceKeeps, StartNewKeeps,
       PushHeadKeeps, PushBodyKeeps, CloseReturnsKeeps, ServerExitKeeps
       DEF Server
  <1>2. CASE \E f \in File : Open(f)
    BY <1>2, OpenKeeps
  <1>3. CASE Host
    BY <1>3, WriteKeeps, CloseKeeps DEF Host
  <1>4. CASE Install
    BY <1>4, InstallBeginsKeeps, CaptureKeeps, InstallReadKeeps,
       ReadChunkKeeps, InstallEndsKeeps, InstallDisablesKeeps DEF Install
  <1>5. CASE Main
    BY <1>5, BoxEndsKeeps, BoxDoneKeeps, SettleKeeps, LeaveKeeps,
       ServerJoinedKeeps, RequestStopKeeps, StopDisableKeeps DEF Main
  <1>6. CASE Update \/ Cancel
    BY <1>6, UpdateKeeps, CancelKeeps
  <1>7. CASE Quiet \/ UNCHANGED vars
    BY <1>7, StutterKeeps DEF Quiet
  <1> QED BY <1>1, <1>2, <1>3, <1>4, <1>5, <1>6, <1>7 DEF Next

-----------------------------------------------------------------------------
(* Theorems *)

(* The invariant holds, and with it the type invariant, in every session   *)
(* that is orderly.                                                        *)
THEOREM StreamInvariant ==
    ASSUME OwnServer, Orderly
    PROVE  Spec => []StreamInv
  <1>1. Init => StreamInv
    BY StreamInit
  <1>2. StreamInv /\ [Next]_vars => StreamInv'
    BY StreamStep
  <1> QED BY <1>1, <1>2, PTL DEF Spec

(* The stream the installer reads is the menu's: no file that the host     *)
(* opens meanwhile puts another in its place (OnInstallStart), and the     *)
(* menu does not free it before the install is over.                       *)
THEOREM SourceOutlivesInstall ==
    ASSUME OwnServer, Orderly
    PROVE  Spec => []SourceAlive
  <1>1. StreamInv => SourceAlive
    BY DEF StreamInv, SourceAlive, Life, Alive, Boxed, Reading
  <1> QED BY <1>1, StreamInvariant, PTL

(* Every block the host was told is taken reaches the installer once and   *)
(* in order, for every size of the buffer, of the writes and of the reads. *)
THEOREM StreamInOrder ==
    ASSUME OwnServer, Orderly
    PROVE  Spec => []InOrder
  <1>1. StreamInv => InOrder
    BY DEF StreamInv
  <1> QED BY <1>1, StreamInvariant, PTL

(* What a close that waits has waited for *)
LEMMA ClosedAfterInstall ==
    ASSUME OwnServer, Orderly, StreamInv, CloseReturns, Large(session),
           "leave" \notin session.events
    PROVE  outcome[cur] # "none"
  <1>0. TypeOK /\ Life /\ Exits /\ Queued /\ Untouched /\ Alive /\ Held
    BY DEF StreamInv
  <1>1. server = "close_wait" /\ INSTALL_STATE # "Progress"
    BY DEF CloseReturns, CloseMayReturn
  <1>2. in_progress /\ cur = m_source
    BY <1>0, <1>1 DEF Queued
  <1>3. m_source # 0
    BY <1>0, <1>1, <1>2, InProgress
  <1>4. install # "start" /\ ~(m_state = "Connected" /\ main = "frame")
    BY <1>0, <1>1 DEF Held, Connected
  <1>5. main \in {"frame", "box", "join", "settle"}
    BY <1>0 DEF TypeOK, MainPc, Life, Leaving, Stopping
  <1>6. m_state \notin {"None", "Connected"}
    BY <1>0, <1>3, <1>4, <1>5 DEF Life, Boxed
  <1>7. INSTALL_STATE = "Finished"
    BY <1>0, <1>1, <1>4, <1>6 DEF Life
  <1> QED BY <1>0, <1>2, <1>3, <1>7 DEF Alive

(* A file whose blocks were taken has an outcome when it is closed: the
   close that finds no install to wait for is that of an untouched file. *)
LEMMA CloseWaitsStep ==
    ASSUME OwnServer, Orderly, LargeUnlessLeft, StreamInv, CloseWaits,
           [Next]_vars
    PROVE  CloseWaits'
  <1> SUFFICES ASSUME session.events \cap {"abort", "leave"} = {},
                      session' = session,
                      NEW f \in File, host'[f] = "closed", sent'[f] > 0
               PROVE  outcome'[f] # "none"
    <2>1. session' = session
      BY DEF Next, Server, Host, Install, Main, Quiet, vars, Open, StartNext,
             StartState, StartSource, StartNew, Write, PushHead, PushBody,
             Close, CloseReturns, ServerExit, InstallBegins, Capture,
             InstallRead, ReadChunk, InstallEnds, InstallDisables, Update,
             Cancel, BoxEnds, BoxDone, Settle, Leave, ServerJoined,
             RequestStop, StopDisable
    <2> QED BY <2>1 DEF CloseWaits
  <1>0. /\ TypeOK /\ Life /\ Exits /\ Queued /\ Untouched /\ Alive /\ Starts
        /\ Single /\ Held /\ Successful /\ InOrder
    BY DEF StreamInv
  <1>1. Large(session) /\ "leave" \notin session.events
    BY <1>0 DEF LargeUnlessLeft, TypeOK
  <1>2. host[f] = "closed" /\ sent[f] > 0 => outcome[f] # "none"
    BY DEF CloseWaits
  <1>3. /\ host \in [File -> {"new", "open", "error", "closed", "refused"}]
        /\ sent \in [File -> 0 .. FileSize] /\ cur \in File
        /\ outcome \in [File -> {"none", "ok", "fail"}] /\ rc # "none"
    BY <1>0 DEF TypeOK
  <1> USE DEF sharedVars, hostVars, streamVars, menuVars, mainVars, serverVars,
              installVars
  <1>4. ASSUME NEW g \in File, Close(g) PROVE outcome'[f] # "none"
    <2>1. UNCHANGED <<sent, outcome, in_progress>> /\ server = "idle"
      BY <1>4 DEF Close
    <2>2. \/ host' = host
          \/ /\ ~(queued_files # <<>> /\ Head(queued_files) = g)
             /\ host' = [host EXCEPT ![g] = "closed"]
             /\ host[g] \in {"open", "error"}
      BY <1>4 DEF Close
    <2>3. CASE host' = host
      BY <1>2, <2>1, <2>3
    <2>4. CASE /\ ~(queued_files # <<>> /\ Head(queued_files) = g)
               /\ host' = [host EXCEPT ![g] = "closed"]
               /\ host[g] \in {"open", "error"}
      <3>1. sent[g] \in Nat /\ ~(sent[g] > 0)
        BY <1>0, <1>3, <2>4 DEF Queued
      <3> QED BY <1>2, <2>1, <2>4, <3>1
    <2> QED BY <2>2, <2>3, <2>4
  <1>5. CASE CloseReturns
    <2>1. outcome[cur] # "none"
      BY <1>1, <1>5, ClosedAfterInstall
    <2> QED BY <1>2, <1>5, <2>1 DEF CloseReturns
  <1>6. CASE PushHead \/ PushBody
    <2>1. outcome' = outcome /\ host[cur] = "open"
          /\ (host' = host \/ host' = [host EXCEPT ![cur] = "error"])
      BY <1>0, <1>6 DEF PushHead, PushBody, PushReturns, Queued, Pushing
    <2>2. \A g \in File : g # cur => sent'[g] = sent[g]
      BY <1>3, <1>6 DEF PushHead, PushBody, PushReturns
    <2> QED BY <1>2, <1>3, <2>1, <2>2
  <1>7. CASE InstallEnds
    BY <1>2, <1>3, <1>7 DEF InstallEnds
  <1>8. ASSUME NEW g \in File, Open(g) \/ Write(g) PROVE outcome'[f] # "none"
    <2>1. UNCHANGED <<sent, outcome>>
          /\ \/ host' = host
             \/ \E h \in {"open", "refused", "error"} :
                    host' = [host EXCEPT ![g] = h]
      BY <1>8 DEF Open, Write
    <2> QED BY <1>2, <1>3, <2>1
  <1>9. CASE StartNext \/ StartState \/ StartSource \/ StartNew \/ ServerExit
    <2>1. UNCHANGED <<sent, outcome>>
          /\ (host' = host \/ host' = [host EXCEPT ![cur] = "refused"])
      BY <1>9
         DEF StartNext, StartState, StartSource, StartNew, ServerExit,
             StartFails
    <2> QED BY <1>2, <1>3, <2>1
  <1>10. CASE InstallBegins \/ Capture \/ InstallRead \/ ReadChunk
                \/ InstallDisables
    <2>1. UNCHANGED <<host, sent, outcome>>
      BY <1>10
         DEF InstallBegins, Capture, InstallRead, ReadChunk, InstallDisables
    <2> QED BY <1>2, <2>1
  <1>11. CASE Main \/ Update \/ Cancel \/ Quiet \/ UNCHANGED vars
    <2>1. UNCHANGED <<host, sent, outcome>>
      BY <1>11
         DEF Main, Update, Cancel, Quiet, BoxEnds, BoxDone, Settle, Leave,
             ServerJoined, RequestStop, StopDisable, vars
    <2> QED BY <1>2, <2>1
  <1> QED BY <1>4, <1>5, <1>6, <1>7, <1>8, <1>9, <1>10, <1>11
             DEF Next, Server, Host, Install

(* OnInstallClose returns after the install of the file that was sent: with *)
(* files larger than the buffer the host's close cannot come before the     *)
(* install has begun.                                                       *)
THEOREM ClosesWait ==
    ASSUME OwnServer, Orderly, LargeUnlessLeft
    PROVE  Spec => []CloseWaits
  <1>1. Init => CloseWaits
    BY DEF Init, CloseWaits
  <1>2. StreamInv /\ CloseWaits /\ [Next]_vars => CloseWaits'
    BY CloseWaitsStep
  <1> QED BY <1>1, <1>2, StreamInvariant, PTL DEF Spec

(* The menu is destroyed after the server thread has left its callbacks,   *)
(* whatever the host and the install do: the menu that started the server  *)
(* waits for it before it stops its own streams.                           *)
THEOREM MenuOutlivesCallbacks ==
    ASSUME OwnServer
    PROVE  Spec => []MenuAlive
  <1>1. Init => Exits
    BY DEF Init, Exits, Stopping
  <1>2. ASSUME Exits, [Next]_vars PROVE Exits'
    <2> USE DEF Exits, Stopping, sharedVars, hostVars, streamVars, menuVars,
                mainVars, serverVars, installVars
    <2>1. CASE Server
      BY <1>2, <2>1
         DEF Server, StartNext, StartState, StartSource, StartNew, PushHead,
             PushBody, PushReturns, CloseReturns, ServerExit
    <2>2. CASE Host \/ \E f \in File : Open(f)
      BY <1>2, <2>2 DEF Host, Write, Close, Open
    <2>3. CASE Install
      BY <1>2, <2>3
         DEF Install, InstallBegins, Capture, InstallRead, ReadChunk,
             InstallEnds, InstallDisables, WokenServer
    <2>4. CASE Leave
      BY <1>2, <2>4 DEF Leave, AfterDisable, OwnServer
    <2>5. CASE BoxEnds \/ BoxDone \/ Settle \/ ServerJoined \/ RequestStop
                 \/ StopDisable
      BY <1>2, <2>5
         DEF BoxEnds, BoxDone, Settle, ServerJoined, RequestStop, StopDisable,
             AfterBox, WokenServer
    <2>6. CASE Update \/ Cancel
      <3>1. /\ main' \in {"box", "leave", "join"} /\ main \in {"frame", "box"}
            /\ UNCHANGED <<server, stop>>
        BY <2>6 DEF Update, Cancel, OnTop
      <3> QED BY <1>2, <3>1
    <2>7. CASE Quiet \/ UNCHANGED vars
      BY <1>2, <2>7 DEF Quiet, vars
    <2> QED BY <1>2, <2>1, <2>2, <2>3, <2>4, <2>5, <2>6, <2>7 DEF Next, Main
  <1>3. Exits => MenuAlive
    BY DEF Exits, Stopping, MenuAlive, SharedFree, InCallback
  <1> QED BY <1>1, <1>2, <1>3, PTL DEF Spec

=============================================================================
