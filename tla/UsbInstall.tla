------------------------------ MODULE UsbInstall ------------------------------
(***************************************************************************)
(* Installing over USB: the menu of source/ui/menus/usb_menu.cpp, the      *)
(* exchange of source/usb/usb_installer.cpp over the endpoints of          *)
(* source/usb/base.cpp and usbds.cpp, and the script tools/usb_install.py  *)
(* on the host.                                                            *)
(*                                                                         *)
(* An exchange is a header from the console, the host's result and, for    *)
(* some headers, data.  The console gives a transfer up after a timeout or *)
(* when the cancel event is set; the host never does.  A timeout may fire  *)
(* at any moment: how slow the host is, is not modelled.  A block is the   *)
(* unit of data.                                                           *)
(***************************************************************************)
EXTENDS Naturals, Sequences

CONSTANTS
    NumFiles,        (* files given to the script                          *)
    FileSize,        (* blocks in each                                     *)
    ReadMax,         (* most blocks in one Read of the installer           *)
    Faults           (* "open", "read": the host cannot open or read a     *)
                     (* file; "damage": data arrives with a wrong crc;     *)
                     (* "install": the installer fails; "unplug"; "late":  *)
                     (* a transfer completes while it is given up          *)

File == 1 .. NumFiles

ASSUME UsbInstallAssumption ==
    /\ NumFiles \in Nat \ {0} /\ FileSize \in Nat \ {0}
    /\ ReadMax \in Nat \ {0}
    /\ Faults \subseteq {"open", "read", "damage", "install", "unplug",
                       "late"}

VARIABLES
    thread,          (* the connection thread of the menu                  *)
    install,         (* the thread of the progress box                     *)
    main,            (* where the main thread is                           *)
    pop,             (* the menu is to be popped                           *)
    m_state,
    stop, cancel,    (* the menu's stop token; the cancel event, which     *)
                     (* stays set                                          *)
    exit,            (* RequestExit on the progress box                    *)
    m_was_connected, m_names,
    file,            (* the file being installed                           *)
    got,             (* what was read of each file                         *)
    rc,              (* of the install                                     *)
    header, stage,   (* the exchange that is under way                     *)
    in, out,         (* the endpoints, to the host and to the console      *)
    host,            (* where the script is                                *)
    taken, source    (* the header it took last, the file it has open      *)

menuVars == <<main, pop, m_state, stop, cancel, exit>>
threadVars == <<thread, m_was_connected, m_names>>
installVars == <<install, file, got, rc>>
exchangeVars == <<header, stage, in, out>>
hostVars == <<host, taken, source>>
vars == <<menuVars, threadVars, installVars, exchangeVars, hostVars>>

(* SendPacket and SendDataPacket have one layout, and a command is where   *)
(* the upper half of an offset is: CMD_QUIT, the RESULT_OK that opens the  *)
(* connection and the read of nothing that closes a file look the same.    *)
DataHeader(off, size) == [arg2 |-> 0, arg3 |-> off, size |-> size]
CMD_OPEN(index) == [arg2 |-> 1, arg3 |-> index, size |-> 0]
Zero == DataHeader(0, 0)

(* What the script writes.  A result says how much data follows it. *)
Result(ok, len) == [kind |-> "result", ok |-> ok, len |-> len]
Names == [kind |-> "names"]
Data(f, off, size) ==
    [kind |-> "data", blocks |-> [i \in 1 .. size |-> <<f, off + i>>]]
Damaged == [kind |-> "damaged"]

Reading == {"greet", "command", "transfer"}
Writing == {"greet_result", "names", "open_result", "open_error", "result",
            "data", "read_error", "close_result", "bye"}

TypeOK ==
    /\ thread \in {"poll", "hello", "ended"}
    /\ install \in {"none", "begin", "next", "open", "read", "reading",
                    "close", "closing", "ended"}
    /\ main \in {"frame", "box", "join", "leave", "stop", "wait", "quit",
                 "quitting", "gone"}
    /\ m_state \in {"None", "WaitForFileList", "StartingTransfer", "Progress",
                    "Done", "Failed"}
    /\ {pop, stop, cancel, exit, m_was_connected} \subseteq BOOLEAN
    /\ m_names \in 0 .. NumFiles
    /\ file \in 0 .. NumFiles
    /\ got \in [File -> Seq(File \X (1 .. FileSize))]
    /\ rc \in {"ok", "fail"}
    /\ stage \in {"idle", "send", "answer", "data", "failed", "done"}
    /\ in \in {"none", "posted", "taken"}
    /\ host \in Reading \cup Writing
                \cup {"absent", "unplugged", "ended", "exception"}
    /\ source \in 0 .. NumFiles

Init ==
    /\ thread = "poll" /\ m_was_connected = FALSE /\ m_names = 0
    /\ install = "none" /\ file = 0 /\ rc = "ok"
    /\ got = [f \in File |-> <<>>]
    /\ main = "frame" /\ pop = FALSE /\ m_state = "None"
    /\ stop = FALSE /\ cancel = FALSE /\ exit = FALSE
    /\ header = Zero /\ stage = "idle" /\ in = "none" /\ out = <<>>
    /\ host = "absent" /\ taken = Zero /\ source = 0

Configured == host \notin {"absent", "unplugged"}

-----------------------------------------------------------------------------
(* One exchange: SendAndVerify, and the TransferAll for what follows *)

Send(h) ==
    /\ stage = "idle"
    /\ header' = h
    /\ in' = "posted"
    /\ stage' = "send"
    /\ UNCHANGED out

(* out holds a mark while a buffer waits for the host, then the packet.    *)
Posted == <<[kind |-> "posted"]>>
Arrived == out \notin {<<>>, Posted}

Sent ==
    /\ stage = "send" /\ in = "taken"
    /\ in' = "none"
    /\ out' = Posted
    /\ stage' = "answer"
    /\ UNCHANGED <<menuVars, threadVars, installVars, header, hostVars>>

(* Mutant: the result itself is not looked at. *)
VerifyCrc(packet) == packet.kind = "result"

(* ResultPacket::Verify *)
Verify(packet) == packet.kind = "result" /\ packet.ok

(* The list of names and the blocks of a file follow their result, unless  *)
(* there are none.                                                         *)
Answered ==
    /\ stage = "answer" /\ Arrived
    /\ IF ~Verify(out[1]) THEN stage' = "failed" /\ out' = <<>>
       ELSE IF out[1].len > 0 /\ (thread = "hello" \/ install = "reading")
       THEN stage' = "data" /\ out' = Posted
       ELSE stage' = "done" /\ UNCHANGED out
    /\ UNCHANGED <<menuVars, threadVars, installVars, header, in, hostVars>>

Received ==
    /\ stage = "data" /\ Arrived
    /\ stage' = "done"
    /\ UNCHANGED <<menuVars, threadVars, installVars, header, in, out,
                   hostVars>>

(* Mutant: only the user ends a wait. *)
OnlyCancelled == cancel

TimesOut == TRUE

(* WaitTransferCompletion times out or is cancelled, and takes the buffer  *)
(* back.  A transfer that has completed is not given up, unless it did so  *)
(* in between.                                                             *)
GiveUp ==
    /\ stage \in {"send", "answer", "data"}
    /\ TimesOut
    /\ (in # "taken" /\ ~Arrived) \/ "late" \in Faults
    /\ stage' = "failed"
    /\ in' = "none"
    /\ out' = <<>>
    /\ UNCHANGED <<menuVars, threadVars, installVars, header, hostVars>>

(* The one who made the exchange goes on. *)
Over(result) ==
    /\ stage = result
    /\ stage' = "idle"
    /\ out' = <<>>
    /\ UNCHANGED <<header, in>>

-----------------------------------------------------------------------------
(* The connection thread: ThreadFunction with WaitForConnection *)

(* While the console is not configured the wait can only time out or be    *)
(* cancelled; a configured console does not look at the cancel event here. *)
Poll ==
    /\ thread = "poll"
    /\ \/ /\ stop \/ (~Configured /\ cancel)
          /\ thread' = "ended"
          /\ UNCHANGED <<m_state, m_was_connected, exchangeVars>>
       \/ /\ ~stop /\ ~Configured
          /\ m_state' = "None"
          /\ UNCHANGED <<thread, m_was_connected, exchangeVars>>
       \/ /\ ~stop /\ Configured
          /\ m_state' = "WaitForFileList"
          /\ m_was_connected' = FALSE
          /\ Send(Zero)
          /\ thread' = "hello"
    /\ UNCHANGED <<main, pop, stop, cancel, exit, m_names, installVars,
                   hostVars>>

(* Mutant: the thread keeps polling. *)
PollAgain == "poll"

AfterConnect == "ended"

Connected ==
    /\ thread = "hello"
    /\ m_names' = IF out = <<Names>> THEN NumFiles ELSE 0
    /\ Over("done")
    /\ m_was_connected' = TRUE
    /\ m_state' = "StartingTransfer"
    /\ thread' = AfterConnect
    /\ UNCHANGED <<main, pop, stop, cancel, exit, installVars, hostVars>>

NotConnected ==
    /\ thread = "hello"
    /\ Over("failed")
    /\ thread' = "poll"
    /\ UNCHANGED <<menuVars, m_was_connected, m_names, installVars, hostVars>>

-----------------------------------------------------------------------------
(* The install thread: the callback of the progress box *)

Register ==
    /\ install = "begin"
    /\ install' = "next"
    /\ UNCHANGED <<menuVars, threadVars, file, got, rc, exchangeVars,
                   hostVars>>

OpenFile ==
    /\ install = "next"
    /\ IF file < m_names
       THEN Send(CMD_OPEN(file + 1)) /\ file' = file + 1 /\ install' = "open"
       ELSE install' = "ended" /\ UNCHANGED <<file, exchangeVars>>
    /\ UNCHANGED <<menuVars, threadVars, got, rc, hostVars>>

(* A file that was not opened is not closed. *)
Opened ==
    /\ install = "open"
    /\ \/ Over("done") /\ install' = "read" /\ UNCHANGED rc
       \/ Over("failed") /\ install' = "ended" /\ rc' = "fail"
    /\ UNCHANGED <<menuVars, threadVars, file, got, hostVars>>

(* InstallFromSource: reads to the end of the file *)
Read ==
    /\ install = "read" /\ ~exit
    /\ \E n \in 1 .. ReadMax :
         /\ Len(got[file]) + n <= FileSize
         /\ Send(DataHeader(Len(got[file]), n))
    /\ install' = "reading"
    /\ UNCHANGED <<menuVars, threadVars, file, got, rc, hostVars>>

CrcMatches(packet) == packet.kind # "damaged"
Blocks(packet) == IF packet.kind = "data" THEN packet.blocks ELSE <<>>

(* A read of nothing is the end of the file. *)
ReadDone ==
    /\ install = "reading"
    /\ Over("done") /\ CrcMatches(out[1])
    /\ got' = [got EXCEPT ![file] = @ \o Blocks(out[1])]
    /\ install' = IF Blocks(out[1]) = <<>> THEN "close" ELSE "read"
    /\ UNCHANGED <<menuVars, threadVars, file, rc, hostVars>>

(* It fails with a read, when the box was cancelled, or for a reason of    *)
(* its own; the cancel event is set before the file is closed.             *)
InstallFails ==
    /\ \/ install = "reading" /\ Over("failed")
       \/ install = "reading" /\ Over("done") /\ ~CrcMatches(out[1])
       \/ /\ install = "read" /\ (exit \/ "install" \in Faults)
          /\ UNCHANGED exchangeVars
    /\ rc' = "fail"
    /\ cancel' = TRUE
    /\ install' = "close"
    /\ UNCHANGED <<main, pop, m_state, stop, exit, threadVars, file, got,
                   hostVars>>

AllRead ==
    /\ install = "read" /\ ~exit
    /\ Len(got[file]) = FileSize
    /\ install' = "close"
    /\ UNCHANGED <<menuVars, threadVars, file, got, rc, exchangeVars,
                   hostVars>>

CloseFile ==
    /\ install = "close"
    /\ Send(Zero)
    /\ install' = "closing"
    /\ UNCHANGED <<menuVars, threadVars, file, got, rc, hostVars>>

(* Whether it was closed is not looked at. *)
Closed ==
    /\ install = "closing"
    /\ Over("done") \/ Over("failed")
    /\ install' = IF rc = "ok" THEN "next" ELSE "ended"
    /\ UNCHANGED <<menuVars, threadVars, file, got, rc, hostVars>>

-----------------------------------------------------------------------------
(* The main thread *)

(* A frame of the menu.  The box goes on top of it, also when B was        *)
(* pressed in the same frame.                                              *)
Update ==
    /\ main = "frame"
    /\ pop' \in {pop, TRUE}
    /\ \/ /\ m_state = "StartingTransfer"
          /\ m_state' = "Progress"
          /\ install' = "begin"
          /\ main' = "box"
       \/ /\ m_state # "StartingTransfer" /\ pop'
          /\ main' = "leave"
          /\ UNCHANGED <<m_state, install>>
    /\ UNCHANGED <<stop, cancel, exit, threadVars, file, got, rc,
                   exchangeVars, hostVars>>

(* RequestExit signals the event once it is registered. *)
CancelBox ==
    /\ main = "box"
    /\ exit' = TRUE
    /\ cancel' = (cancel \/ install \notin {"begin", "ended"})
    /\ main' = "join"
    /\ UNCHANGED <<pop, m_state, stop, threadVars, installVars, exchangeVars,
                   hostVars>>

BoxEnds ==
    /\ main = "box" /\ install = "ended"
    /\ main' = "join"
    /\ UNCHANGED <<pop, m_state, stop, cancel, exit, threadVars, installVars,
                   exchangeVars, hostVars>>

BoxDone ==
    /\ main = "join" /\ install = "ended"
    /\ install' = "none"
    /\ m_state' = IF rc = "ok" THEN "Done" ELSE "Failed"
    /\ pop' = (pop \/ rc = "ok")
    /\ main' = "frame"
    /\ UNCHANGED <<stop, cancel, exit, threadVars, file, got, rc,
                   exchangeVars, hostVars>>

(* ~Menu: a thread that still runs is cancelled, then stopped. *)
Leave ==
    /\ main = "leave"
    /\ IF thread = "ended" THEN main' = "wait" /\ UNCHANGED cancel
       ELSE main' = "stop" /\ cancel' = TRUE
    /\ UNCHANGED <<pop, m_state, stop, exit, threadVars, installVars,
                   exchangeVars, hostVars>>

(* Mutant: the cancel event is enough. *)
NoStop == stop

RequestStop == TRUE

Stop ==
    /\ main = "stop"
    /\ stop' = RequestStop
    /\ main' = "wait"
    /\ UNCHANGED <<pop, m_state, cancel, exit, threadVars, installVars,
                   exchangeVars, hostVars>>

(* Mutant: the thread is not waited for. *)
DoNotWait == TRUE

ThreadExited == thread = "ended"

Join ==
    /\ main = "wait" /\ ThreadExited
    /\ main' = "quit"
    /\ UNCHANGED <<pop, m_state, stop, cancel, exit, threadVars, installVars,
                   exchangeVars, hostVars>>

(* ~Usb says goodbye, for one second. *)
Quit ==
    /\ main = "quit"
    /\ IF m_was_connected /\ Configured
       THEN Send(Zero) /\ main' = "quitting"
       ELSE main' = "gone" /\ UNCHANGED exchangeVars
    /\ UNCHANGED <<pop, m_state, stop, cancel, exit, threadVars, installVars,
                   hostVars>>

QuitDone ==
    /\ main = "quitting"
    /\ Over("done") \/ Over("failed")
    /\ main' = "gone"
    /\ UNCHANGED <<pop, m_state, stop, cancel, exit, threadVars, installVars,
                   hostVars>>

-----------------------------------------------------------------------------
(* The script *)

Plug ==
    /\ host = "absent" /\ main # "gone"
    /\ host' = "greet"
    /\ UNCHANGED <<menuVars, threadVars, installVars, exchangeVars, taken,
                   source>>

Unplug ==
    /\ "unplug" \in Faults
    /\ host \in Reading \cup Writing
    /\ host' = "unplugged"
    /\ UNCHANGED <<menuVars, threadVars, installVars, exchangeVars, taken,
                   source>>

(* What a header means depends on where the script is. *)
Understood(h) ==
    CASE host = "greet"                     -> {"greet_result"}
      [] host = "command" /\ h.arg2 = 0     -> {"bye"}
      [] host = "command" /\ h.arg2 = 1     ->
            {"open_result"}
            \cup (IF "open" \in Faults THEN {"open_error"} ELSE {})
      [] host = "transfer" /\ h = Zero      -> {"close_result"}
      [] host = "transfer" /\ h # Zero      ->
            {"result"} \cup (IF "read" \in Faults THEN {"read_error"} ELSE {})

Take ==
    /\ host \in Reading /\ in = "posted"
    /\ in' = "taken"
    /\ taken' = header
    /\ source' = IF host = "command" /\ header.arg2 = 1 THEN header.arg3
                 ELSE source
    /\ host' \in Understood(header)
    /\ UNCHANGED <<menuVars, threadVars, installVars, header, stage, out>>

Smaller(a, b) == IF a < b THEN a ELSE b

(* A header with the upper half of its offset set is past the end. *)
Available == IF taken.arg2 = 1 THEN 0
             ELSE Smaller(taken.size, FileSize - taken.arg3)

(* A read that fails with BlockingIOError, or a seek backwards in a stream, *)
(* leaves the script in its file loop.  Any other OSError leaves the loop,  *)
(* is answered where the file was opened, and the script is back among the  *)
(* commands.                                                                *)
Written ==
    CASE host = "greet_result" -> {<<Result(TRUE, NumFiles), "names">>}
      [] host = "names"        -> {<<Names, "command">>}
      [] host = "open_result"  -> {<<Result(TRUE, FileSize), "transfer">>}
      [] host = "open_error"   -> {<<Result(FALSE, 0), "command">>}
      [] host = "result"       -> {<<Result(TRUE, Available), "data">>}
      [] host = "data"         ->
            {<<Data(source, taken.arg3, Available), "transfer">>}
            \cup (IF "damage" \in Faults THEN {<<Damaged, "transfer">>}
                  ELSE {})
      [] host = "read_error"   ->
            {<<Result(FALSE, 0), "transfer">>, <<Result(FALSE, 0), "command">>}
      [] host = "close_result" -> {<<Result(TRUE, 0), "command">>}
      [] host = "bye"          -> {<<Result(TRUE, 0), "ended">>}

(* A write waits until the console has posted a buffer. *)
Write ==
    /\ host \in Writing /\ out = Posted
    /\ \E w \in Written : out' = <<w[1]>> /\ host' = w[2]
    /\ UNCHANGED <<menuVars, threadVars, installVars, header, stage, in,
                   taken, source>>

(* The device has gone. *)
Exception ==
    /\ main = "gone" /\ host \in Reading \cup Writing
    /\ host' = "exception"
    /\ UNCHANGED <<menuVars, threadVars, installVars, exchangeVars, taken,
                   source>>

-----------------------------------------------------------------------------

Exchange == Sent \/ Answered \/ Received \/ GiveUp

Thread == Poll \/ Connected \/ NotConnected

Install == Register \/ OpenFile \/ Opened \/ Read \/ ReadDone \/ InstallFails
           \/ AllRead \/ CloseFile \/ Closed

Main == BoxEnds \/ BoxDone \/ Leave \/ Stop \/ Join \/ Quit \/ QuitDone

Host == Take \/ Write \/ Exception

Gone == main = "gone" /\ UNCHANGED vars

Next == Exchange \/ Thread \/ Install \/ Main \/ Update \/ CancelBox
        \/ Plug \/ Unplug \/ Host \/ Gone

Spec == Init /\ [][Next]_vars

(* Every transfer ends, at the latest with its timeout; the threads run.   *)
(* Nothing is assumed of the host.                                         *)
Fairness ==
    /\ WF_vars(Exchange) /\ WF_vars(Thread) /\ WF_vars(Install)
    /\ WF_vars(Main)
    /\ WF_vars(m_state = "StartingTransfer" /\ Update)
    /\ WF_vars(pop /\ Update)

FairSpec == Spec /\ Fairness

-----------------------------------------------------------------------------

(* The endpoints have one user at a time: the connection thread, then the  *)
(* install thread, then the destructor's goodbye.                          *)
OneUser ==
    /\ install # "none" => thread = "ended" /\ main \in {"box", "join"}
    /\ main \in {"quit", "quitting", "gone"} => thread = "ended"

(* An install that says it succeeded has read every file of the host, each *)
(* from its first block to its last.                                       *)
SuccessIsComplete ==
    m_state = "Done" =>
        \A f \in File : got[f] = [i \in 1 .. FileSize |-> <<f, i>>]

(* Leaving the menu ends, whatever the host does. *)
LeaveEnds == main = "leave" ~> main = "gone"

(* An install ends, whatever the host does. *)
InstallEnds == main = "box" ~> main # "box"
=============================================================================
