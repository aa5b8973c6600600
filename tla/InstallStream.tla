---------------------------- MODULE InstallStream ----------------------------
(***************************************************************************)
(* Installing from a stream: source/ui/menus/install_stream_menu_base.cpp, *)
(* source/yati/source/stream.cpp, and the install folders of               *)
(* source/ftpsrv_helper.cpp and source/haze_helper.cpp that feed it.       *)
(*                                                                         *)
(* Three threads.  The server thread serves the host's calls on the        *)
(* install folder, one at a time; it keeps g_shared_data.mutex while it is *)
(* inside a callback of the menu.  The install thread belongs to the       *)
(* progress box and reads the stream.  The main thread runs the menu, or   *)
(* the box on top of it, and destroys both.  The mutex of a Stream is only *)
(* held for a moment (condvarWait releases it), so what happens under it   *)
(* is one step; m_mutex of the menu is held for longer in one place, the   *)
(* box's done callback ("settle").                                         *)
(*                                                                         *)
(* Stream f is the Stream object made for file f; the unit of data is a    *)
(* block, numbered from 1 in each file.                                    *)
(***************************************************************************)
EXTENDS Naturals, Sequences

CONSTANTS
    NumFiles,        (* most files the host sends                          *)
    FileSize,        (* most blocks in a file                              *)
    MaxBuffer,       (* MAX_BUFFER_SIZE                                    *)
    WriteMax,        (* most blocks in one write of the host ...           *)
    ReadMax,         (* ... and in one read of the installer               *)
    WasEnabled,      (* the server ran before the menu was opened, and     *)
                     (* keeps running after it is closed                   *)
    Sessions         (* what the menu may be opened for                    *)

File == 1 .. NumFiles

(* One folder feeds the menu: "ftp" queues files, "mtp" takes one at a     *)
(* time.  The host sends that many files of that size, the installer reads *)
(* so many blocks of each before it succeeds.  Besides, the install may    *)
(* fail, the host close a file it has not sent in full, the user answer    *)
(* yes to "Are you sure you wish to cancel?" or press B in the menu.       *)
Session == [folder : {"ftp", "mtp"}, files : File, size : 1 .. FileSize,
            want : 1 .. FileSize,
            events : SUBSET {"fail", "abort", "cancel", "leave"}]

ASSUME InstallStreamAssumption ==
    /\ NumFiles \in Nat \ {0}
    /\ FileSize \in Nat \ {0}
    /\ MaxBuffer \in Nat \ {0}
    /\ WriteMax \in Nat \ {0}
    /\ ReadMax \in Nat \ {0}
    /\ WasEnabled \in BOOLEAN
    /\ Sessions \subseteq Session
    /\ \A s \in Sessions : s.want <= s.size

(* Where the server thread is while it holds g_shared_data.mutex, each in  *)
(* one of the three callbacks OnInstallStart, OnInstallWrite and           *)
(* OnInstallClose.                                                         *)
InCallback == {"start_state", "start_source", "start_new", "push_head",
               "push_body", "push_wait", "push_woken", "close_wait"}

VARIABLES
    session,         (* the session this is                                *)
    server,          (* where the server thread is                         *)
    cur,             (* the file it is serving                             *)
    left,            (* blocks left to push in this write                  *)
    queued_files, in_progress, enabled,             (* g_shared_data       *)
    host,            (* what the host did with each file                   *)
    sent,            (* blocks of each file the server took                *)
    m_source,        (* the menu's stream, 0 for none                      *)
    m_state, INSTALL_STATE, stop,
    m_buffer, m_active,                             (* of each stream      *)
    main,            (* where the main thread is                           *)
    pop,             (* the menu is to be popped                           *)
    install,         (* where the install thread is                        *)
    source,          (* the stream InstallFromSource was given             *)
    need,            (* blocks left to read in this ReadChunk              *)
    cancelled,       (* RequestExit on the progress box                    *)
    rc,              (* what InstallFromSource returned                    *)
    got,             (* the blocks of each file the installer read         *)
    outcome          (* "ok" or "fail" once a file's install returned      *)

sharedVars  == <<queued_files, in_progress, enabled>>
hostVars    == <<host, sent>>
streamVars  == <<m_buffer, m_active>>
menuVars    == <<m_source, m_state, INSTALL_STATE, stop>>
mainVars    == <<main, pop, cancelled>>
serverVars  == <<server, cur, left>>
installVars == <<source, need, rc, got, outcome>>
vars == <<session, serverVars, sharedVars, hostVars, menuVars, streamVars,
          mainVars, install, installVars>>

ServerPc  == InCallback \cup {"idle", "next", "stopped"}
MainPc    == {"frame", "box", "join", "settle", "leave", "exit_server",
              "stop", "stop_disable", "gone"}
InstallPc == {"none", "start", "capture", "read", "chunk", "chunk_wait",
              "chunk_woken", "finish", "disable", "exited"}

TypeOK ==
    /\ session \in Sessions
    /\ server \in ServerPc
    /\ cur \in File
    /\ left \in 0 .. WriteMax
    /\ queued_files \in Seq(File)
    /\ in_progress \in BOOLEAN
    /\ enabled \in BOOLEAN
    /\ host \in [File -> {"new", "open", "error", "closed", "refused"}]
    /\ sent \in [File -> 0 .. FileSize]
    /\ m_source \in 0 .. NumFiles
    /\ m_state \in {"None", "Connected", "Progress", "Done", "Failed"}
    /\ INSTALL_STATE \in {"None", "Progress", "Finished"}
    /\ stop \in BOOLEAN
    /\ m_buffer \in [File -> Seq(1 .. FileSize)]
    /\ \A f \in File : Len(m_buffer[f]) \in 0 .. MaxBuffer
    /\ m_active \in [File -> BOOLEAN]
    /\ main \in MainPc
    /\ pop \in BOOLEAN
    /\ install \in InstallPc
    /\ source \in 0 .. NumFiles
    /\ need \in 0 .. ReadMax
    /\ cancelled \in BOOLEAN
    /\ rc \in {"ok", "fail"}
    /\ got \in [File -> Seq(1 .. FileSize)]
    /\ outcome \in [File -> {"none", "ok", "fail"}]

Init ==
    /\ session \in Sessions
    /\ server = "idle" /\ cur = 1 /\ left = 0
    /\ queued_files = <<>> /\ in_progress = FALSE /\ enabled = TRUE
    /\ host = [f \in File |-> "new"]
    /\ sent = [f \in File |-> 0]
    /\ m_source = 0 /\ m_state = "None" /\ INSTALL_STATE = "None"
    /\ stop = FALSE
    /\ m_buffer = [f \in File |-> <<>>]
    /\ m_active = [f \in File |-> FALSE]
    /\ main = "frame" /\ pop = FALSE
    /\ install = "none" /\ source = 0 /\ need = 0 /\ rc = "ok"
    /\ cancelled = FALSE
    /\ got = [f \in File |-> <<>>]
    /\ outcome = [f \in File |-> "none"]

Mtp == session.folder = "mtp"

SharedFree == server \notin InCallback
MenuFree   == main # "settle"        \* m_mutex

Smaller(a, b) == IF a < b THEN a ELSE b

(* Mutant: the wake-up is forgotten. *)
ServerSleepsOn(s) == server

(* condvarWakeOne on can_read and on can_write of stream s *)
WokenInstall(s) == IF install = "chunk_wait" /\ source = s THEN "chunk_woken"
                   ELSE install
WokenServer(s) == IF server = "push_wait" /\ m_source = s THEN "push_woken"
                  ELSE server

(* Mutant: the stream stays enabled. *)
StillEnabled(s) == m_active

(* Stream::Disable, but for its wake-ups *)
Disabled(s) == IF s = 0 THEN m_active ELSE [m_active EXCEPT ![s] = FALSE]

(* Mutant: a read takes everything out of the buffer.                      *)
Cleared(b, n) == <<>>

(* How much of a write fits, and what a read of n blocks leaves behind     *)
Fitting(size, b) == Smaller(size, MaxBuffer - Len(b))
Erased(b, n) == SubSeq(b, n + 1, Len(b))

(* Mutants: the close does not wait for the install, or also for one that  *)
(* never began; the server is not stopped.                                 *)
CloseAtOnce == TRUE
CloseAfterFinish == INSTALL_STATE = "Finished"
ServerGoesOn == "stop"

(* What the polling loops of the menu and the two destructors wait for *)
StateBusy == m_state = "Progress"
CloseMayReturn == INSTALL_STATE # "Progress"
ThreadExited == install = "exited"
AfterDisable == IF WasEnabled THEN "stop" ELSE "exit_server"

-----------------------------------------------------------------------------
(* The server thread: opening a file *)

(* vfs_install_open queues the file; FsInstallProxy::OpenFile takes it     *)
(* only when there is no other, and starts it under the same lock.         *)
Open(f) ==
    /\ server = "idle" /\ main # "exit_server"
    /\ f <= session.files /\ host[f] = "new"
    /\ cur' = f
    /\ \/ /\ enabled
          /\ Mtp => ~in_progress /\ queued_files = <<>>
          /\ queued_files' = Append(queued_files, f)
          /\ host' = [host EXCEPT ![f] = "open"]
          /\ server' = IF Mtp THEN "start_state" ELSE "next"
       \/ /\ ~enabled \/ (Mtp /\ (in_progress \/ queued_files # <<>>))
          /\ host' = [host EXCEPT ![f] = "refused"]
          /\ UNCHANGED <<queued_files, server>>
    /\ UNCHANGED <<session, left, in_progress, enabled, sent, menuVars,
                   streamVars, mainVars, install, installVars>>

(* on_thing: the first file of the queue is started if none is. *)
StartNext ==
    /\ server = "next"
    /\ IF ~in_progress /\ queued_files # <<>>
       THEN server' = "start_state" /\ cur' = Head(queued_files)
       ELSE server' = "idle" /\ UNCHANGED cur
    /\ UNCHANGED <<session, left, sharedVars, hostVars, menuVars, streamVars,
                   mainVars, install, installVars>>

(* OnInstallStart returns false: the queue is given up. *)
StartFails ==
    /\ server' = "idle"
    /\ queued_files' = <<>>
    /\ host' = IF Mtp THEN [host EXCEPT ![cur] = "refused"] ELSE host

(* OnInstallStart polls until the previous install is over, first the      *)
(* menu's state, then the previous stream; stop ends the polling.          *)
StartState ==
    /\ server = "start_state"
    /\ MenuFree
    /\ ~StateBusy \/ stop
    /\ IF StateBusy THEN StartFails
       ELSE /\ server' = IF m_source = 0 THEN "start_new" ELSE "start_source"
            /\ UNCHANGED <<queued_files, host>>
    /\ UNCHANGED <<session, cur, left, in_progress, enabled, sent, menuVars,
                   streamVars, mainVars, install, installVars>>

StartSource ==
    LET over == ~m_active[m_source] /\ INSTALL_STATE # "Progress" IN
    /\ server = "start_source"
    /\ over \/ stop
    /\ IF over THEN server' = "start_new" /\ UNCHANGED <<queued_files, host>>
       ELSE StartFails
    /\ UNCHANGED <<session, cur, left, in_progress, enabled, sent, menuVars,
                   streamVars, mainVars, install, installVars>>

StartNew ==
    /\ server = "start_new"
    /\ MenuFree
    /\ m_source' = cur
    /\ m_active' = [m_active EXCEPT ![cur] = TRUE]
    /\ INSTALL_STATE' = "None"
    /\ m_state' = "Connected"
    /\ in_progress' = TRUE
    /\ server' = "idle"
    /\ UNCHANGED <<session, cur, left, queued_files, enabled, hostVars, stop,
                   m_buffer, mainVars, install, installVars>>

-----------------------------------------------------------------------------
(* The server thread: writing *)

(* vfs_install_write, WriteFile: only the first file of the queue is       *)
(* ready, and nothing is taken once the install mode is disabled.          *)
Write(f) ==
    /\ server = "idle" /\ main # "exit_server"
    /\ host[f] = "open" /\ sent[f] < session.size
    /\ queued_files # <<>> /\ Head(queued_files) = f
    /\ cur' = f
    /\ \/ /\ ~enabled
          /\ host' = [host EXCEPT ![f] = "error"]
          /\ UNCHANGED <<server, left>>
       \/ /\ enabled
          /\ left' \in 1 .. Smaller(WriteMax, session.size - sent[f])
          /\ server' = "push_head"
          /\ UNCHANGED host
    /\ UNCHANGED <<session, sharedVars, sent, menuVars, streamVars, mainVars,
                   install, installVars>>

(* Push returns, with what is left of the write taken or refused. *)
PushReturns(ok) ==
    /\ server' = "idle"
    /\ left' = 0
    /\ IF ok THEN sent' = [sent EXCEPT ![cur] = @ + left] /\ UNCHANGED host
             ELSE host' = [host EXCEPT ![cur] = "error"] /\ UNCHANGED sent

(* The head of Push's loop, outside the mutex of the stream. *)
PushHead ==
    /\ server = "push_head"
    /\ IF stop THEN PushReturns(FALSE)
       ELSE IF INSTALL_STATE = "Finished" THEN PushReturns(TRUE)
       ELSE server' = "push_body" /\ UNCHANGED <<left, hostVars>>
    /\ UNCHANGED <<session, cur, sharedVars, menuVars, streamVars, mainVars,
                   install, installVars>>

(* Its body, under the mutex: wait once for room, give up on a disabled    *)
(* stream, otherwise append what fits and wake the reader.                 *)
PushBody ==
    LET b == m_buffer[m_source]
        n == Fitting(left, b)
    IN
    /\ \/ /\ server = "push_body"
          /\ m_active[m_source] /\ Len(b) >= MaxBuffer
          /\ server' = "push_wait"
          /\ UNCHANGED <<left, hostVars, m_buffer, install>>
       \/ /\ server \in {"push_body", "push_woken"}
          /\ ~m_active[m_source]
          /\ PushReturns(FALSE)
          /\ UNCHANGED <<m_buffer, install>>
       \/ /\ server \in {"push_body", "push_woken"}
          /\ m_active[m_source] /\ Len(b) < MaxBuffer
          /\ m_buffer' = [m_buffer EXCEPT
                            ![m_source] = b \o [i \in 1 .. n |-> sent[cur] + i]]
          /\ install' = WokenInstall(m_source)
          /\ sent' = [sent EXCEPT ![cur] = @ + n]
          /\ left' = left - n
          /\ server' = IF n = left THEN "idle" ELSE "push_head"
          /\ UNCHANGED host
    /\ UNCHANGED <<session, cur, sharedVars, menuVars, m_active, mainVars,
                   installVars>>

-----------------------------------------------------------------------------
(* The server thread: closing *)

(* queued_files.erase *)
Without(q, i) == SubSeq(q, 1, i - 1) \o SubSeq(q, i + 1, Len(q))

(* The file being installed: Disable, then wait in OnInstallClose. *)
Close(f) ==
    /\ server = "idle"
    /\ \/ host[f] = "error"
       \/ /\ host[f] = "open"
          /\ \/ sent[f] = session.size
             \/ "abort" \in session.events
             \/ main = "exit_server"
    /\ cur' = f
    /\ IF queued_files # <<>> /\ Head(queued_files) = f
       THEN /\ server' = "close_wait"
            /\ m_active' = Disabled(m_source)
            /\ install' = WokenInstall(m_source)
            /\ UNCHANGED <<queued_files, host>>
       ELSE /\ server' = IF Mtp THEN "idle" ELSE "next"
            /\ \/ \E i \in DOMAIN queued_files :
                     /\ queued_files[i] = f
                     /\ queued_files' = Without(queued_files, i)
               \/ /\ \A i \in DOMAIN queued_files : queued_files[i] # f
                  /\ UNCHANGED queued_files
            /\ host' = [host EXCEPT ![f] = "closed"]
            /\ UNCHANGED <<m_active, install>>
    /\ UNCHANGED <<session, left, in_progress, enabled, sent, menuVars,
                   m_buffer, mainVars, installVars>>

CloseReturns ==
    /\ server = "close_wait"
    /\ CloseMayReturn
    /\ in_progress' = FALSE
    /\ queued_files' = Tail(queued_files)
    /\ host' = [host EXCEPT ![cur] = "closed"]
    /\ server' = IF Mtp THEN "idle" ELSE "next"
    /\ UNCHANGED <<session, cur, left, enabled, sent, menuVars, streamVars,
                   mainVars, install, installVars>>

(* ftpsrv::Exit and libhaze::Exit wait for the server, which closes the    *)
(* files that are still open first.                                        *)
ServerExit ==
    /\ server = "idle" /\ main = "exit_server"
    /\ \A f \in File : host[f] \notin {"open", "error"}
    /\ server' = "stopped"
    /\ UNCHANGED <<session, cur, left, sharedVars, hostVars, menuVars,
                   streamVars, mainVars, install, installVars>>

-----------------------------------------------------------------------------
(* The install thread: the callback of the progress box *)

InstallBegins ==
    /\ install = "start"
    /\ INSTALL_STATE' = "Progress"
    /\ install' = "capture"
    /\ UNCHANGED <<session, serverVars, sharedVars, hostVars, m_source,
                   m_state, stop, streamVars, mainVars, installVars>>

(* m_source.get() is an argument of InstallFromSource. *)
Capture ==
    /\ install = "capture"
    /\ source' = m_source
    /\ rc' = "ok"
    /\ install' = "read"
    /\ UNCHANGED <<session, serverVars, sharedVars, hostVars, menuVars,
                   streamVars, mainVars, need, got, outcome>>

(* The installer reads on, to its last block, unless it is cancelled or    *)
(* something else fails.                                                   *)
InstallRead ==
    /\ install = "read"
    /\ \/ /\ ~cancelled /\ Len(got[source]) < session.want
          /\ need' \in 1 .. Smaller(ReadMax, session.want - Len(got[source]))
          /\ install' = "chunk"
          /\ UNCHANGED rc
       \/ /\ ~cancelled /\ Len(got[source]) = session.want
          /\ install' = "finish"
          /\ UNCHANGED <<need, rc>>
       \/ /\ cancelled \/ "fail" \in session.events
          /\ install' = "finish"
          /\ rc' = "fail"
          /\ UNCHANGED need
    /\ UNCHANGED <<session, serverVars, sharedVars, hostVars, menuVars,
                   streamVars, mainVars, source, got, outcome>>

(* One round of ReadChunk's loop: wait once for data, give up on a stream  *)
(* that is drained and disabled, otherwise take what there is.             *)
ReadChunk ==
    LET b == m_buffer[source]
        n == Smaller(need, Len(b))
    IN
    /\ \/ /\ install = "chunk" /\ ~stop
          /\ m_active[source] /\ b = <<>>
          /\ install' = "chunk_wait"
          /\ UNCHANGED <<m_buffer, got, need, rc, server>>
       \/ /\ install \in {"chunk", "chunk_woken"}
          /\ stop \/ (~m_active[source] /\ b = <<>>)
          /\ install' = "finish"
          /\ need' = 0
          /\ rc' = "fail"
          /\ UNCHANGED <<m_buffer, got, server>>
       \/ /\ install \in {"chunk", "chunk_woken"}
          /\ ~stop /\ b # <<>>
          /\ got' = [got EXCEPT ![source] = @ \o SubSeq(b, 1, n)]
          /\ m_buffer' = [m_buffer EXCEPT ![source] = Erased(b, n)]
          /\ server' = WokenServer(source)
          /\ need' = need - n
          /\ install' = IF n = need THEN "read" ELSE "chunk"
          /\ UNCHANGED rc
    /\ UNCHANGED <<session, cur, left, sharedVars, hostVars, menuVars,
                   m_active, mainVars, source, outcome>>

InstallEnds ==
    /\ install = "finish"
    /\ INSTALL_STATE' = "Finished"
    /\ outcome' = [outcome EXCEPT ![source] = rc]
    /\ install' = IF rc = "ok" THEN "exited" ELSE "disable"
    /\ UNCHANGED <<session, serverVars, sharedVars, hostVars, m_source,
                   m_state, stop, streamVars, mainVars, source, need, rc,
                   got>>

(* After a failure the menu's stream is disabled, whichever it is by now. *)
InstallDisables ==
    /\ install = "disable"
    /\ m_active' = Disabled(m_source)
    /\ server' = WokenServer(m_source)
    /\ install' = "exited"
    /\ UNCHANGED <<session, cur, left, sharedVars, hostVars, menuVars,
                   m_buffer, mainVars, installVars>>

-----------------------------------------------------------------------------
(* The main thread *)

(* Mutant: the menu goes before the box that was pushed on top of it. *)
MenuFirst == IF pop' THEN "leave" ELSE "box"

(* The widget on top gets the next frame; only it is popped. *)
OnTop == "box"

(* A frame of the menu: B asks for it to be popped, and a file that was    *)
(* started gets its progress box, also in that same frame.                 *)
Update ==
    /\ main = "frame"
    /\ pop' \in {FALSE, "leave" \in session.events}
    /\ \/ /\ m_state = "Connected"
          /\ m_state' = "Progress"
          /\ install' = "start"
          /\ cancelled' = FALSE
          /\ main' = OnTop
       \/ /\ m_state # "Connected" /\ pop'
          /\ main' = "leave"
          /\ UNCHANGED <<m_state, install, cancelled>>
    /\ UNCHANGED <<session, serverVars, sharedVars, hostVars, m_source,
                   INSTALL_STATE, stop, streamVars, installVars>>

(* RequestExit and SetPop after the question was answered with yes. *)
Cancel ==
    /\ "cancel" \in session.events
    /\ main = "box"
    /\ cancelled' = TRUE
    /\ main' = "join"
    /\ UNCHANGED <<session, serverVars, sharedVars, hostVars, menuVars,
                   streamVars, pop, install, installVars>>

(* The thread has called RequestExit: the box pops itself. *)
BoxEnds ==
    /\ main = "box" /\ install = "exited"
    /\ main' = "join"
    /\ UNCHANGED <<session, serverVars, sharedVars, hostVars, menuVars,
                   streamVars, pop, install, installVars, cancelled>>

AfterBox == IF pop THEN "leave" ELSE "frame"

(* ~ProgressBox waits for its thread; then the done callback. *)
BoxDone ==
    /\ main = "join" /\ ThreadExited
    /\ install' = "none"
    /\ source' = 0
    /\ m_state' = IF rc = "ok" THEN "Done" ELSE "Failed"
    /\ main' = IF rc = "ok" THEN AfterBox ELSE "settle"
    /\ UNCHANGED <<session, serverVars, sharedVars, hostVars, m_source,
                   INSTALL_STATE, stop, streamVars, pop, need, rc, got,
                   outcome, cancelled>>

(* OnDisableInstallMode, called with m_mutex held ... *)
Settle ==
    /\ main = "settle" /\ SharedFree
    /\ enabled' = FALSE
    /\ main' = AfterBox
    /\ UNCHANGED <<session, serverVars, queued_files, in_progress, hostVars,
                   menuVars, streamVars, pop, install, installVars,
                   cancelled>>

(* ... and again in the destructor of the FTP or MTP menu, which then      *)
(* stops the server it started.                                            *)
Leave ==
    /\ main = "leave" /\ SharedFree
    /\ enabled' = FALSE
    /\ main' = AfterDisable
    /\ UNCHANGED <<session, serverVars, queued_files, in_progress, hostVars,
                   menuVars, streamVars, pop, install, installVars,
                   cancelled>>

ServerJoined ==
    /\ main = "exit_server" /\ server = "stopped"
    /\ main' = "stop"
    /\ UNCHANGED <<session, serverVars, sharedVars, hostVars, menuVars,
                   streamVars, pop, install, installVars, cancelled>>

(* ~Menu: request_stop, then Disable; then the members go. *)
RequestStop ==
    /\ main = "stop"
    /\ stop' = TRUE
    /\ main' = IF m_source = 0 THEN "gone" ELSE "stop_disable"
    /\ UNCHANGED <<session, serverVars, sharedVars, hostVars, m_source,
                   m_state, INSTALL_STATE, streamVars, pop, install,
                   installVars, cancelled>>

StopDisable ==
    /\ main = "stop_disable"
    /\ m_active' = Disabled(m_source)
    /\ install' = WokenInstall(m_source)
    /\ server' = WokenServer(m_source)
    /\ m_source' = 0
    /\ main' = "gone"
    /\ UNCHANGED <<session, cur, left, sharedVars, hostVars, m_state,
                   INSTALL_STATE, stop, m_buffer, pop, installVars,
                   cancelled>>

-----------------------------------------------------------------------------

Server == StartNext \/ StartState \/ StartSource \/ StartNew
          \/ PushHead \/ PushBody \/ CloseReturns \/ ServerExit

Host == \E f \in File : Write(f) \/ Close(f)

Install == InstallBegins \/ Capture \/ InstallRead \/ ReadChunk \/ InstallEnds
           \/ InstallDisables

Main == BoxEnds \/ BoxDone \/ Settle \/ Leave \/ ServerJoined \/ RequestStop
        \/ StopDisable

(* Nothing to do but to wait for the user or for a new file. *)
Quiet ==
    /\ server \in {"idle", "stopped"} /\ install = "none"
    /\ main \in {"frame", "gone"}
    /\ UNCHANGED vars

Next == Server \/ (\E f \in File : Open(f)) \/ Host \/ Install \/ Main \/ Update
        \/ Cancel \/ Quiet

Spec == Init /\ [][Next]_vars

(* The threads are scheduled, and the main loop draws frames.  The host    *)
(* goes on with a file it has opened: the server sets no timeout (its      *)
(* configuration says 0), so nothing here ends if the host never calls     *)
(* again.  Neither the host nor the user has to start anything.            *)
Fairness ==
    /\ WF_vars(Server) /\ WF_vars(Host) /\ WF_vars(Install) /\ WF_vars(Main)
    /\ WF_vars(m_state = "Connected" /\ Update)

FairSpec == Spec /\ Fairness

-----------------------------------------------------------------------------

(* What the host was told is taken is what the installer has read followed *)
(* by what is in the buffer, in order, with nothing lost and nothing       *)
(* twice, until the install is over: whatever way writes, reads, a write   *)
(* split at the room that was left, and the wake-ups interleave.           *)
InOrder ==
    \A f \in File : outcome[f] = "none" =>
        got[f] \o m_buffer[f] = [i \in 1 .. sent[f] |-> i]

(* OnInstallClose returns after the install of the file that was sent,     *)
(* unless it was cut short.                                                *)
CloseWaits ==
    session.events \cap {"abort", "leave"} = {} =>
        \A f \in File :
            host[f] = "closed" /\ sent[f] > 0 => outcome[f] # "none"

(* The stream the installer reads is the menu's: OnInstallStart has not    *)
(* put another one in its place, nor has the menu gone, and freed it.      *)
SourceAlive ==
    install \in {"read", "chunk", "chunk_wait", "chunk_woken", "finish",
                "disable"} => source # 0 /\ source = m_source

(* The server thread is in no callback of a menu that was destroyed.       *)
MenuAlive == SharedFree \/ main # "gone"

(* What the host opened and goes on to send in full is dealt with, unless  *)
(* the menu is left: each of its calls returns, and the files that wait in *)
(* the queue are reached one after another.                                *)
Served ==
    \A f \in File :
        host[f] = "open" /\ session.events \subseteq {"fail", "cancel"}
            ~> host[f] # "open"

(* A box that is to be popped, because its install ended or the user gave  *)
(* up on it, gives the main thread back.                                   *)
BoxCloses == main = "join" ~> main \notin {"join", "settle"}

(* Leaving the menu is not held up for good by the server it waits for.    *)
MenuCloses == main = "leave" ~> main = "gone"
=============================================================================
