--------------------------- MODULE UsbInstallProofs ---------------------------
(***************************************************************************)
(* Theorems about UsbInstall, for every number and size of files, any      *)
(* sizes of reads and any faults.                                          *)
(***************************************************************************)
EXTENDS UsbInstall, TLAPS

(* The connection thread lives while the menu waits for a connection: it   *)
(* is not running any more when the menu is told to start the install, and *)
(* it never comes back.                                                    *)
ConnectionInv ==
    thread # "ended" =>
        /\ main \in {"frame", "leave", "stop", "wait"}
        /\ m_state # "StartingTransfer"
        /\ install = "none"

InstallInv == install # "none" => main \in {"box", "join"}

UserInv == ConnectionInv /\ InstallInv

LEMMA Init_UserInv == Init => UserInv
  BY DEF Init, UserInv, ConnectionInv, InstallInv

(* An exchange only moves data: who uses the endpoints does not change.    *)
LEMMA Exchange_UserInv ==
    ASSUME UserInv, Exchange \/ Plug \/ Unplug \/ Host PROVE UserInv'
  <1>1. UNCHANGED <<menuVars, threadVars, installVars>>
    BY DEF Exchange, Sent, Answered, Received, GiveUp, Plug, Unplug, Host,
           Take, Write, Exception
  <1> QED BY <1>1 DEF UserInv, ConnectionInv, InstallInv, menuVars,
                      threadVars, installVars

LEMMA Thread_UserInv == ASSUME UserInv, Thread PROVE UserInv'
  <1>1. UNCHANGED <<main, install>> /\ thread # "ended"
    BY DEF Thread, Poll, Connected, NotConnected, menuVars, installVars
  <1>2. m_state' = "StartingTransfer" => thread' = "ended"
    BY DEF Thread, Poll, Connected, AfterConnect, NotConnected, menuVars,
           UserInv, ConnectionInv
  <1> QED BY <1>1, <1>2 DEF UserInv, ConnectionInv, InstallInv

LEMMA Install_UserInv == ASSUME UserInv, Install PROVE UserInv'
  <1>1. UNCHANGED <<main, m_state, thread>>
        /\ install # "none" /\ install' # "none"
    BY DEF Install, Register, OpenFile, Opened, Read, ReadDone, InstallFails,
           AllRead, CloseFile, Closed, menuVars, threadVars
  <1> QED BY <1>1 DEF UserInv, ConnectionInv, InstallInv

LEMMA Menu_UserInv ==
    ASSUME UserInv, Main \/ Update \/ CancelBox PROVE UserInv'
  <1>0. UNCHANGED thread
    BY DEF Main, BoxEnds, BoxDone, Leave, Stop, Join, Quit, QuitDone, Update,
           CancelBox, threadVars
  <1>1. CASE Update
    <2>1. \/ m_state = "StartingTransfer" /\ main' = "box"
          \/ main' = "leave" /\ UNCHANGED <<m_state, install>>
             /\ main = "frame"
      BY <1>1 DEF Update
    <2> QED BY <1>0, <2>1 DEF UserInv, ConnectionInv, InstallInv
  <1>2. CASE BoxDone
    <2>1. main = "join" /\ install' = "none"
      BY <1>2 DEF BoxDone
    <2> QED BY <1>0, <2>1 DEF UserInv, ConnectionInv, InstallInv
  <1>3. CASE BoxEnds \/ CancelBox
    <2>1. main = "box" /\ main' = "join" /\ UNCHANGED <<m_state, install>>
      BY <1>3 DEF BoxEnds, CancelBox, installVars
    <2> QED BY <1>0, <2>1 DEF UserInv, ConnectionInv, InstallInv
  <1>4. CASE Leave \/ Stop
    <2>1. main \in {"leave", "stop"} /\ main' \in {"stop", "wait"}
          /\ UNCHANGED <<m_state, install>>
      BY <1>4 DEF Leave, Stop, installVars
    <2> QED BY <1>0, <2>1 DEF UserInv, ConnectionInv, InstallInv
  <1>5. CASE Join
    BY <1>0, <1>5 DEF Join, ThreadExited, installVars, UserInv, ConnectionInv,
                      InstallInv
  <1>6. CASE Quit \/ QuitDone
    <2>1. main \in {"quit", "quitting"} /\ UNCHANGED <<m_state, install>>
      BY <1>6 DEF Quit, QuitDone, installVars
    <2> QED BY <1>0, <2>1 DEF UserInv, ConnectionInv, InstallInv
  <1> QED BY <1>1, <1>2, <1>3, <1>4, <1>5, <1>6 DEF Main

LEMMA Next_UserInv == UserInv /\ [Next]_vars => UserInv'
  <1> SUFFICES ASSUME UserInv, [Next]_vars PROVE UserInv'
    OBVIOUS
  <1>1. CASE UNCHANGED vars
    BY <1>1 DEF vars, menuVars, threadVars, installVars, UserInv,
                ConnectionInv, InstallInv
  <1> QED BY <1>1, Exchange_UserInv, Thread_UserInv, Install_UserInv,
             Menu_UserInv DEF Next, Gone

(* The endpoints have one user at a time: the connection thread of the     *)
(* menu, then the thread of the progress box, then the goodbye of ~Usb     *)
(* (usb_menu.cpp, usb_installer.cpp).  No lock keeps them apart, only the  *)
(* order of m_state, the box and the join.                                 *)
THEOREM OneUserAtATime == Spec => []OneUser
  <1>1. UserInv => OneUser
    BY DEF UserInv, ConnectionInv, InstallInv, OneUser
  <1>2. Spec => []UserInv
    BY Init_UserInv, Next_UserInv, PTL DEF Spec
  <1> QED BY <1>1, <1>2, PTL

-----------------------------------------------------------------------------
(* A transfer that has completed is not given up. *)
InTime == "late" \notin Faults

(* Blocks of a file, after the first off of them; all its blocks *)
Run(f, off, n) == [i \in 1 .. n |-> <<f, off + i>>]
Whole(f) == Run(f, 0, FileSize)

(* Concatenation by a name *)
Cat(s, t) == s \o t

LEMMA Run_Append ==
    ASSUME NEW f, NEW a \in Nat, NEW n \in Nat
    PROVE  /\ Len(Run(f, 0, a)) = a
           /\ Cat(Run(f, 0, a), Run(f, a, n)) = Run(f, 0, a + n)
           /\ Run(f, a, n) = <<>> => n = 0
  <1>1. Run(f, 0, a) \in Seq({f} \X Nat) /\ Run(f, a, n) \in Seq({f} \X Nat)
        /\ Len(Run(f, 0, a)) = a /\ Len(Run(f, a, n)) = n
    BY DEF Run
  <1>2. \A i \in 1 .. a : Run(f, 0, a)[i] = <<f, i>>
    BY DEF Run
  <1>3. \A i \in 1 .. n : Run(f, a, n)[i] = <<f, a + i>>
    BY DEF Run
  <1>4. Cat(Run(f, 0, a), Run(f, a, n)) = Run(f, 0, a + n)
    BY <1>1, <1>2, <1>3 DEF Run, Cat
  <1> QED BY <1>1, <1>4

LEMMA Run_Empty == ASSUME NEW f PROVE Run(f, 0, 0) = <<>>
  BY DEF Run

(* What the host says: a result, with what follows it, or an error *)
Granted(n) == <<Result(TRUE, n)>>
Refused == <<Result(FALSE, 0)>>

(* The packets differ in their kind. *)
LEMMA Packets ==
    /\ Posted # <<>>
    /\ Refused \notin {<<>>, Posted} /\ ~Verify(Refused[1])
    /\ \A n : /\ Granted(n) \notin {<<>>, Posted, Refused, <<Names>>}
              /\ Verify(Granted(n)[1]) /\ Granted(n)[1].len = n
    /\ <<Names>> \notin {<<>>, Posted}
    /\ <<Damaged>> \notin {<<>>, Posted} /\ ~CrcMatches(<<Damaged>>[1])
    /\ \A f, off, n :
         /\ <<Data(f, off, n)>> \notin {<<>>, Posted}
         /\ Blocks(<<Data(f, off, n)>>[1]) = Run(f, off, n)
  BY DEF Posted, Result, Data, Names, Damaged, Run, Granted, Refused, Verify,
         CrcMatches, Blocks

-----------------------------------------------------------------------------
(* The shape of an exchange, whoever makes it *)
Shape ==
    /\ stage \in {"idle", "send", "answer", "data", "failed", "done"}
    /\ stage \in {"idle", "failed", "send"} => out = <<>>
    /\ stage = "send" => in \in {"posted", "taken"}
    /\ stage # "send" => in = "none"
    /\ in = "taken" \/ stage \in {"answer", "data"} => taken = header
    /\ stage \in {"answer", "data"} => out # <<>>
    /\ stage = "done" => Arrived

(* The host has the header and owes the result; it has written it. *)
Asked == in = "taken" \/ (stage = "answer" /\ out = Posted)
Told == stage = "answer" /\ Arrived

(* What the host writes, case by case *)
LEMMA Write_Cases ==
    ASSUME Write
    PROVE  /\ out = Posted /\ UNCHANGED <<header, stage, in, taken, source>>
           /\ \/ host = "greet_result" /\ out' = Granted(NumFiles)
                 /\ host' = "names"
              \/ host = "names" /\ out' = <<Names>> /\ host' = "command"
              \/ host = "open_result" /\ out' = Granted(FileSize)
                 /\ host' = "transfer"
              \/ host = "open_error" /\ out' = Refused
                 /\ host' = "command"
              \/ host = "result" /\ out' = Granted(Available)
                 /\ host' = "data"
              \/ /\ host = "data" /\ host' = "transfer"
                 /\ out' \in {<<Damaged>>,
                              <<Data(source, taken.arg3, Available)>>}
              \/ host = "read_error" /\ out' = Refused
                 /\ host' \in {"transfer", "command"}
              \/ host = "close_result" /\ out' = Granted(0)
                 /\ host' = "command"
              \/ host = "bye" /\ out' = Granted(0) /\ host' = "ended"
  <1>1. PICK w \in Written : out' = <<w[1]>> /\ host' = w[2]
    BY DEF Write
  <1>2. host \in Writing /\ out = Posted
        /\ UNCHANGED <<header, stage, in, taken, source>>
    BY DEF Write
  <1>3. host = "greet_result" => out' = Granted(NumFiles) /\ host' = "names"
    BY <1>1 DEF Written, Result, Granted, Refused
  <1>4. host = "names" => out' = <<Names>> /\ host' = "command"
    BY <1>1 DEF Written
  <1>5. host = "open_result" => out' = Granted(FileSize) /\ host' = "transfer"
    BY <1>1 DEF Written, Result, Granted, Refused
  <1>6. host = "open_error" => out' = Refused /\ host' = "command"
    BY <1>1 DEF Written, Result, Granted, Refused
  <1>7. host = "result" => out' = Granted(Available) /\ host' = "data"
    BY <1>1 DEF Written, Result, Granted, Refused
  <1>8. host = "data" =>
           /\ host' = "transfer"
           /\ out' \in {<<Damaged>>, <<Data(source, taken.arg3, Available)>>}
    BY <1>1 DEF Written
  <1>9. host = "read_error" =>
           out' = Refused /\ host' \in {"transfer", "command"}
    <2> SUFFICES ASSUME host = "read_error"
                 PROVE  out' = Refused /\ host' \in {"transfer", "command"}
      OBVIOUS
    <2>1. \/ w = <<Result(FALSE, 0), "transfer">>
          \/ w = <<Result(FALSE, 0), "command">>
      BY <1>1 DEF Written
    <2>2. CASE w = <<Result(FALSE, 0), "transfer">>
      BY <1>1, <2>2 DEF Refused
    <2>3. CASE w = <<Result(FALSE, 0), "command">>
      BY <1>1, <2>3 DEF Refused
    <2> QED BY <2>1, <2>2, <2>3
  <1>10. host = "close_result" => out' = Granted(0) /\ host' = "command"
    BY <1>1 DEF Written, Result, Granted, Refused
  <1>11. host = "bye" => out' = Granted(0) /\ host' = "ended"
    BY <1>1 DEF Written, Result, Granted, Refused
  <1> QED BY <1>2, <1>3, <1>4, <1>5, <1>6, <1>7, <1>8, <1>9, <1>10, <1>11
             DEF Writing

(* What a result leads to *)
LEMMA Answered_Cases ==
    ASSUME Answered
    PROVE  /\ stage = "answer" /\ Arrived /\ UNCHANGED <<header, in>>
           /\ UNCHANGED <<menuVars, threadVars, installVars, hostVars>>
           /\ out = Refused => stage' = "failed" /\ out' = <<>>
           /\ \A n \in Nat : out = Granted(n) =>
                IF n > 0 /\ (thread = "hello" \/ install = "reading")
                THEN stage' = "data" /\ out' = Posted
                ELSE stage' = "done" /\ out' = out
           /\ stage' \in {"failed", "data", "done"}
  BY Packets DEF Answered

(* What the headers mean *)
LEMMA Headers ==
    /\ Zero.arg2 = 0 /\ Zero = DataHeader(0, 0)
    /\ \A i : /\ CMD_OPEN(i).arg2 = 1 /\ CMD_OPEN(i).arg3 = i
              /\ CMD_OPEN(i) # Zero
    /\ \A off, n : /\ DataHeader(off, n).arg2 = 0
                   /\ DataHeader(off, n).arg3 = off
                   /\ DataHeader(off, n).size = n
                   /\ n # 0 => DataHeader(off, n) # Zero
  BY DEF Zero, DataHeader, CMD_OPEN

LEMMA Take_Cases ==
    ASSUME Take
    PROVE  /\ in = "posted" /\ in' = "taken" /\ taken' = header
           /\ UNCHANGED <<header, stage, out>>
           /\ UNCHANGED <<menuVars, threadVars, installVars>>
           /\ \/ host = "greet" /\ host' = "greet_result"
              \/ host = "command" /\ header.arg2 = 1 /\ source' = header.arg3
                 /\ host' \in {"open_result", "open_error"}
              \/ host = "command" /\ header.arg2 # 1
              \/ host = "transfer" /\ header = Zero /\ host' = "close_result"
              \/ host = "transfer" /\ header # Zero /\ UNCHANGED source
                 /\ host' \in {"result", "read_error"}
  BY DEF Take, Understood, Reading

LEMMA Available_Is ==
    /\ \A i : taken = CMD_OPEN(i) => Available = 0
    /\ \A off \in Nat, n \in Nat :
         taken = DataHeader(off, n) /\ off + n <= FileSize => Available = n
  BY Headers, UsbInstallAssumption DEF Available, Smaller

LEMMA Next_Shape == Shape /\ [Next]_vars => Shape'
  <1> SUFFICES ASSUME Shape, [Next]_vars PROVE Shape'
    OBVIOUS
  <1> USE DEF exchangeVars, hostVars
  <1>1. CASE UNCHANGED <<exchangeVars, taken>>
    BY <1>1 DEF Shape, Arrived
  <1>2. ASSUME NEW h, Send(h), UNCHANGED taken PROVE Shape'
    BY <1>2 DEF Send, Shape, Arrived
  <1>3. ASSUME Over("done") \/ Over("failed"), UNCHANGED taken PROVE Shape'
    BY <1>3 DEF Over, Shape, Arrived
  <1>4. CASE Exchange
    <2>1. CASE Sent
      BY <2>1, Packets DEF Sent, Shape, Arrived
    <2>2. CASE Answered
      BY <2>2, Packets DEF Answered, Shape, Arrived
    <2>3. CASE Received
      BY <2>3 DEF Received, Shape, Arrived
    <2>4. CASE GiveUp
      BY <2>4 DEF GiveUp, Shape, Arrived
    <2> QED BY <1>4, <2>1, <2>2, <2>3, <2>4 DEF Exchange
  <1>5. CASE Take
    BY <1>5 DEF Take, Shape, Arrived
  <1>6. CASE Write
    <2>1. UNCHANGED <<header, stage, in, taken>> /\ out = Posted
      BY <1>6 DEF Write
    <2>2. Arrived'
      BY Write_Cases, <1>6, Packets DEF Arrived
    <2>3. out' # <<>>
      BY <2>2 DEF Arrived
    <2> QED BY <2>1, <2>2, <2>3, Packets DEF Shape, Arrived
  <1> QED BY <1>1, <1>2, <1>3, <1>4, <1>5, <1>6
             DEF Next, Thread, Install, Main, Host, Gone, vars, Poll,
                 Connected, NotConnected, Register, OpenFile, Opened, Read,
                 ReadDone, InstallFails, AllRead, CloseFile, Closed, Update,
                 CancelBox, BoxEnds, BoxDone, Leave, Stop, Join, Quit,
                 QuitDone, Plug, Unplug, Exception

-----------------------------------------------------------------------------
(* Connecting: the script's greeting is the result and the names of this   *)
(* attempt, as one that was given up leaves it in a write.                 *)
HelloInv ==
    thread # "ended" =>
        /\ m_state \in {"None", "WaitForFileList"}
        /\ host \in {"absent", "greet", "greet_result", "names", "command",
                     "unplugged"}
        /\ thread \in {"poll", "hello"}
        /\ thread = "poll" => stage = "idle"
        /\ host = "command" => stage \in {"data", "done"} /\ out = <<Names>>
        /\ Asked => host \in {"greet_result", "unplugged"}
        /\ Told => out = Granted(NumFiles) /\ host \in {"names", "unplugged"}
        /\ stage = "data" => \/ out = Posted /\ host \in {"names", "unplugged"}
                             \/ /\ out = <<Names>>
                                /\ host \in {"command", "unplugged"}
        /\ stage = "done" => /\ out = <<Names>>
                             /\ host \in {"command", "unplugged"}

LEMMA Exchange_HelloInv ==
    ASSUME InTime, UserInv, Shape, HelloInv, Exchange \/ Plug \/ Unplug \/ Host
    PROVE  HelloInv'
  <1> SUFFICES ASSUME thread # "ended" PROVE HelloInv'
    <2>1. UNCHANGED thread
      BY DEF Exchange, Sent, Answered, Received, GiveUp, Plug, Unplug, Host,
             Take, Write, Exception, threadVars
    <2> QED BY <2>1 DEF HelloInv
  <1>0. UNCHANGED <<thread, m_state>>
    BY DEF Exchange, Sent, Answered, Received, GiveUp, Plug, Unplug, Host,
           Take, Write, Exception, threadVars, menuVars
  <1> USE <1>0 DEF Shape, HelloInv, Asked, Told
  <1>1. CASE Sent
    BY <1>1, Packets DEF Sent, hostVars, Arrived
  <1>2. CASE Answered
    <2>1. stage = "answer" /\ Arrived
      BY <1>2, Answered_Cases
    <2>2. out = Granted(NumFiles) /\ host \in {"names", "unplugged"}
          /\ thread # "poll" /\ m_state \in {"None", "WaitForFileList"}
      BY <2>1
    <2>3. stage' = "data" /\ out' = Posted /\ UNCHANGED <<host, in>>
      BY <1>2, <1>0, <2>2, Answered_Cases, UsbInstallAssumption DEF hostVars
    <2> QED BY <2>2, <2>3, Packets DEF Arrived
  <1>3. CASE Received
    BY <1>3 DEF Received, hostVars, Arrived
  <1>4. CASE GiveUp
    BY <1>4, Packets DEF GiveUp, InTime, hostVars, Arrived
  <1>5. CASE Plug \/ Unplug
    BY <1>5 DEF Plug, Unplug, exchangeVars, Arrived
  <1>6. CASE Take
    BY <1>6, Take_Cases
  <1>7. CASE Write
    BY <1>7, Write_Cases, Packets DEF Arrived
  <1>8. CASE Exception
    BY <1>8 DEF Exception, UserInv, ConnectionInv, exchangeVars
  <1> QED BY <1>1, <1>2, <1>3, <1>4, <1>5, <1>6, <1>7, <1>8 DEF Exchange, Host

LEMMA Next_HelloInv ==
    ASSUME InTime, UserInv, Shape, HelloInv, [Next]_vars PROVE HelloInv'
  <1>1. ASSUME thread' # "ended", ~(Exchange \/ Plug \/ Unplug \/ Host)
        PROVE  HelloInv'
    <2>1. CASE UNCHANGED <<thread, m_state, exchangeVars, hostVars>>
      BY <2>1 DEF HelloInv, Asked, Told, Arrived, exchangeVars, hostVars
    <2>2. CASE Poll
      BY <2>2, <1>1
         DEF Poll, Configured, Send, HelloInv, Shape, Asked, Told, hostVars,
             exchangeVars
    <2>3. CASE NotConnected
      BY <2>3, Packets
         DEF NotConnected, Over, HelloInv, Shape, Asked, Told, Arrived,
             hostVars, menuVars
    <2>4. CASE Install
      BY <2>4, <1>1, Install_UserInv
         DEF Install, Register, OpenFile, Opened, Read, ReadDone, InstallFails,
             AllRead, CloseFile, Closed, threadVars, UserInv, ConnectionInv
    <2>5. CASE Main \/ Update \/ CancelBox
      <3>1. thread # "ended"
        BY <2>5, <1>1
           DEF Main, Update, CancelBox, BoxEnds, BoxDone, Leave, Stop, Join,
               Quit, QuitDone, threadVars
      <3>2. main \in {"frame", "leave", "stop", "wait"}
            /\ m_state # "StartingTransfer"
        BY <3>1 DEF UserInv, ConnectionInv
      <3>3. UNCHANGED <<thread, m_state, exchangeVars, hostVars>>
        BY <2>5, <3>2
           DEF Main, Update, CancelBox, BoxEnds, BoxDone, Leave, Stop, Join,
               Quit, QuitDone, threadVars
      <3> QED BY <3>3, <2>1
    <2>6. CASE Connected
      BY <2>6, <1>1 DEF Connected, AfterConnect
    <2> QED BY <1>1, <2>1, <2>2, <2>3, <2>4, <2>5, <2>6
               DEF Next, Thread, Gone, vars, threadVars, menuVars
  <1>2. CASE thread' = "ended"
    BY <1>2 DEF HelloInv
  <1> QED BY <1>1, <1>2, Exchange_HelloInv

-----------------------------------------------------------------------------
(* Between the names and the install, which starts with nothing read *)
Fresh == file = 0 /\ rc = "ok" /\ got = [f \in File |-> <<>>]

StartInv ==
    /\ thread # "ended" => Fresh
    /\ m_state = "StartingTransfer" /\ main = "frame" =>
         /\ Fresh /\ m_names = NumFiles
         /\ stage = "idle" /\ host \in {"command", "unplugged"}

LEMMA Next_StartInv ==
    ASSUME InTime, UserInv, Shape, HelloInv, StartInv, [Next]_vars
    PROVE  StartInv'
  <1> USE DEF Fresh
  <1>1. CASE Exchange \/ Plug \/ Unplug \/ Host
    <2>1. UNCHANGED <<menuVars, threadVars, installVars>>
      BY <1>1
         DEF Exchange, Sent, Answered, Received, GiveUp, Plug, Unplug, Host,
             Take, Write, Exception
    <2>2. stage = "idle" /\ host \in {"command", "unplugged"} /\ main = "frame"
            => stage' = "idle" /\ host' \in {"command", "unplugged"}
      BY <1>1, Packets
         DEF Exchange, Sent, Answered, Received, GiveUp, Plug, Unplug, Host,
             Take, Write, Exception, Shape, exchangeVars, hostVars
    <2> QED BY <2>1, <2>2 DEF StartInv, menuVars, threadVars, installVars
  <1>2. CASE Poll \/ NotConnected
    BY <1>2 DEF Poll, NotConnected, StartInv, HelloInv, installVars, menuVars
  <1>3. CASE Connected
    BY <1>3 DEF Connected, StartInv, HelloInv, Over, installVars, hostVars
  <1>4. CASE Install
    <2>1. UNCHANGED <<thread, m_state, main>> /\ install # "none"
      BY <1>4
         DEF Install, Register, OpenFile, Opened, Read, ReadDone, InstallFails,
             AllRead, CloseFile, Closed, menuVars, threadVars
    <2> QED BY <2>1 DEF StartInv, UserInv, ConnectionInv, InstallInv
  <1>5. CASE Main \/ Update \/ CancelBox
    <2>1. UNCHANGED <<threadVars, file, got, rc>>
      BY <1>5
         DEF Main, Update, CancelBox, BoxEnds, BoxDone, Leave, Stop, Join,
             Quit, QuitDone, installVars
    <2>2. m_state' = "StartingTransfer" /\ main' = "frame" => FALSE
      BY <1>5
         DEF Main, Update, CancelBox, BoxEnds, BoxDone, Leave, Stop, Join,
             Quit, QuitDone
    <2> QED BY <2>1, <2>2 DEF StartInv, threadVars
  <1>6. CASE UNCHANGED vars
    BY <1>6
       DEF vars, menuVars, threadVars, installVars, exchangeVars, hostVars,
           StartInv
  <1> QED BY <1>1, <1>2, <1>3, <1>4, <1>5, <1>6 DEF Next, Thread, Gone

-----------------------------------------------------------------------------
(* An install without an error so far *)
Good == install # "none" /\ rc = "ok"

(* It has the files before the current one, and of that one the first     *)
(* blocks; it asks for those that come next.                               *)
Asks(n, k) ==
    /\ k >= 1 /\ n + k <= FileSize
    /\ got[file] = Run(file, 0, n) /\ header = DataHeader(n, k)

FilesInv ==
    /\ install \in {"begin", "next", "open", "read", "reading", "close",
                    "closing", "ended"}
    /\ m_names = NumFiles
    /\ file \in 0 .. NumFiles
    /\ file = 0 => install \in {"begin", "next"}
    /\ install = "begin" => file = 0
    /\ DOMAIN got = File
    /\ \A f \in File : /\ f < file => got[f] = Whole(f)
                       /\ f > file => got[f] = <<>>
    /\ install = "open" => got[file] = <<>> /\ header = CMD_OPEN(file)
    /\ install = "read" => \E n \in 0 .. FileSize : got[file] = Run(file, 0, n)
    /\ install = "reading" => \E n \in Nat, k \in Nat : Asks(n, k)
    /\ install \in {"close", "closing", "next", "ended"} /\ file # 0
         => got[file] = Whole(file)
    /\ install = "closing" => header = Zero
    /\ install = "ended" => file = NumFiles

(* The host has the file open; it is where it does not listen any more     *)
Serves == host = "transfer" /\ source = file
Lost == host \in {"data", "unplugged"}

(* Meanwhile the script is where the install takes it to be, or in a write *)
(* that nobody reads.  A file that could not be closed is still open when  *)
(* the next is asked for: the host takes that for a read past the end, and *)
(* opens nothing.                                                          *)
OpenTalk ==
    /\ host # "absent"
    /\ in = "posted" => host \in {"command", "transfer", "close_result"}
                         \/ Lost
    /\ Asked => host \in {"open_result", "open_error", "result", "read_error",
                          "unplugged"}
    /\ Asked /\ host = "open_result" => source = file
    /\ stage # "data"
    /\ Told => \/ out = Refused
               \/ (Serves \/ Lost) /\ \E n \in Nat : out = Granted(n)
    /\ stage = "done" => Serves \/ Lost

ReadTalk ==
    /\ host # "absent"
    /\ in = "posted" => Serves \/ Lost
    /\ Asked => \/ host \in {"result", "read_error"} /\ source = file
                \/ host = "unplugged"
    /\ Told => \/ out = Refused
               \/ /\ out = Granted(header.size)
                  /\ Lost /\ (host = "data" => source = file)
    /\ stage = "data" /\ out = Posted =>
         Lost /\ (host = "data" => source = file)
    /\ (stage = "data" /\ Arrived) \/ stage = "done" =>
         /\ out \in {<<Damaged>>, <<Data(file, header.arg3, header.size)>>}
         /\ Serves \/ Lost

CloseTalk ==
    /\ host # "absent"
    /\ in = "posted" => host = "transfer" \/ Lost
    /\ Asked => host \in {"close_result", "unplugged"}
    /\ stage # "data"
    /\ Told => out = Granted(0) /\ host \in {"command", "unplugged"}
    /\ stage = "done" => host \in {"command", "unplugged"}
    /\ stage = "failed" => host \in {"transfer", "close_result"} \/ Lost

TalkInv ==
    /\ host # "absent"
    /\ install \in {"begin", "next", "read", "close", "ended"}
         => stage = "idle"
    /\ install = "begin" => host \in {"command", "unplugged"}
    /\ install = "next" =>
         host \in {"command", "transfer", "close_result"} \/ Lost
    /\ install = "read" => Serves \/ Lost
    /\ install = "close" => host = "transfer" \/ Lost
    /\ install = "open" => OpenTalk
    /\ install = "reading" => ReadTalk
    /\ install = "closing" => CloseTalk

GoodInv == Good => FilesInv /\ TalkInv

(* The exchange and the host only change what they say. *)
LEMMA Talking ==
    ASSUME Exchange \/ Unplug \/ Host
    PROVE  UNCHANGED <<menuVars, threadVars, installVars, header>>
  BY DEF Exchange, Sent, Answered, Received, GiveUp, Unplug, Host, Take, Write,
         Exception, exchangeVars

LEMMA Talking_Files ==
    ASSUME FilesInv, Exchange \/ Unplug \/ Host PROVE FilesInv'
  BY Talking DEF FilesInv, Asks, installVars, threadVars

LEMMA Open_Talk ==
    ASSUME InTime, Shape, FilesInv, OpenTalk, install = "open",
           thread = "ended", main # "gone", Exchange \/ Unplug \/ Host
    PROVE  OpenTalk'
  <1>0. /\ UNCHANGED <<file, thread, install, header>>
        /\ header = CMD_OPEN(file)
    BY Talking DEF FilesInv, installVars, threadVars
  <1> USE <1>0 DEF Shape, OpenTalk, Asked, Told, Serves, Lost
  <1>1. CASE Sent
    BY <1>1, Packets DEF Sent, hostVars, Arrived
  <1>2. CASE Answered
    <2>1. stage = "answer" /\ Arrived /\ UNCHANGED <<in, hostVars>>
      BY <1>2, Answered_Cases
    <2>2. CASE out = Refused
      BY <1>2, <2>1, <2>2, Answered_Cases DEF Arrived, hostVars
    <2>3. ASSUME NEW n \in Nat, out = Granted(n), Serves \/ Lost
          PROVE  OpenTalk'
      <3>1. stage' = "done"
        BY <1>2, <2>3, Answered_Cases
      <3> QED BY <2>1, <2>3, <3>1 DEF hostVars
    <2> QED BY <2>1, <2>2, <2>3
  <1>3. CASE Received
    BY <1>3 DEF Received
  <1>4. CASE GiveUp
    BY <1>4, Packets DEF GiveUp, InTime, hostVars, Arrived
  <1>5. CASE Unplug
    BY <1>5 DEF Unplug, exchangeVars, Arrived
  <1>6. CASE Take
    BY <1>6, Take_Cases, Headers
  <1>7. CASE Write
    <2>4. /\ out = Posted /\ UNCHANGED <<header, stage, in, taken, source>>
          /\ host # "unplugged" /\ host' # "absent"
      BY <1>7, Write_Cases
    <2>5. stage = "answer" /\ Asked
      BY <2>4, Packets DEF Shape, Arrived
    <2>1. /\ out = Posted /\ UNCHANGED <<header, stage, in, taken, source>>
          /\ stage = "answer" /\ taken = CMD_OPEN(file)
          /\ host \in {"open_result", "open_error", "result", "read_error"}
      BY <2>4, <2>5
    <2>2. Available = 0
      BY <2>1, Available_Is
    <2>3. \/ out' = Refused
          \/ \E n \in Nat : out' = Granted(n) /\ (Serves \/ Lost)'
      BY <1>7, <2>1, <2>2, Write_Cases, UsbInstallAssumption
    <2> QED BY <2>1, <2>3, <2>4, Packets DEF Arrived
  <1> QED BY <1>1, <1>2, <1>3, <1>4, <1>5, <1>6, <1>7
             DEF Exchange, Host, Exception

LEMMA Read_Talk ==
    ASSUME InTime, Shape, FilesInv, ReadTalk, install = "reading",
           thread = "ended", main # "gone", Exchange \/ Unplug \/ Host
    PROVE  ReadTalk'
  <1>0. /\ UNCHANGED <<file, thread, install, header>>
    BY Talking DEF installVars, threadVars
  <1>9. PICK n \in Nat, k \in Nat : Asks(n, k)
    BY DEF FilesInv
  <1>10. /\ header = DataHeader(n, k) /\ header.arg3 = n /\ header.size = k
         /\ header.arg2 = 0 /\ header # Zero
         /\ k > 0 /\ n + k <= FileSize
    BY <1>9, Headers DEF Asks
  <1> USE <1>0 DEF Shape, ReadTalk, Asked, Told, Serves, Lost
  <1>1. CASE Sent
    BY <1>1, Packets DEF Sent, hostVars, Arrived
  <1>2. CASE Answered
    <2>1. stage = "answer" /\ Arrived /\ UNCHANGED <<in, hostVars>>
      BY <1>2, Answered_Cases
    <2>2. CASE out = Refused
      BY <1>2, <2>1, <2>2, Answered_Cases DEF Arrived, hostVars
    <2>3. ASSUME out = Granted(k), Lost, host = "data" => source = file
          PROVE  ReadTalk'
      <3>1. stage' = "data" /\ out' = Posted
        BY <1>2, <1>10, <2>3, Answered_Cases
      <3> QED BY <2>1, <2>3, <3>1, <1>10 DEF hostVars, Arrived
    <2> QED BY <1>10, <2>1, <2>2, <2>3
  <1>3. CASE Received
    BY <1>3 DEF Received, hostVars, Arrived
  <1>4. CASE GiveUp
    BY <1>4, Packets DEF GiveUp, InTime, hostVars, Arrived
  <1>5. CASE Unplug
    BY <1>5 DEF Unplug, exchangeVars, Arrived
  <1>6. CASE Take
    BY <1>6, <1>10, Take_Cases
  <1>7. CASE Write
    <2>1. /\ out = Posted /\ UNCHANGED <<header, stage, in, taken, source>>
          /\ stage \in {"answer", "data"} /\ taken = header
          /\ stage = "answer" => host \in {"result", "read_error"}
          /\ stage = "data" => host = "data"
          /\ source = file
      BY <1>7, Write_Cases, Packets
    <2>2. Available = k
      BY <1>10, <2>1, Available_Is
    <2>3. CASE stage = "answer"
      BY <1>7, <1>10, <2>1, <2>2, <2>3, Write_Cases, Packets DEF Arrived
    <2>4. CASE stage = "data"
      BY <1>7, <1>10, <2>1, <2>2, <2>4, Write_Cases, Packets DEF Arrived
    <2> QED BY <2>1, <2>3, <2>4
  <1> QED BY <1>1, <1>2, <1>3, <1>4, <1>5, <1>6, <1>7
             DEF Exchange, Host, Exception

LEMMA Close_Talk ==
    ASSUME InTime, Shape, FilesInv, CloseTalk, install = "closing",
           thread = "ended", main # "gone", Exchange \/ Unplug \/ Host
    PROVE  CloseTalk'
  <1>0. /\ UNCHANGED <<file, thread, install, header>>
        /\ header = Zero
    BY Talking DEF FilesInv, installVars, threadVars
  <1> USE <1>0 DEF Shape, CloseTalk, Asked, Told, Lost
  <1>1. CASE Sent
    BY <1>1, Packets DEF Sent, hostVars, Arrived
  <1>2. CASE Answered
    <2>1. stage = "answer" /\ Arrived /\ UNCHANGED <<in, hostVars>>
      BY <1>2, Answered_Cases
    <2>2. out = Granted(0) /\ host \in {"command", "unplugged"}
      BY <2>1
    <2>3. stage' = "done"
      BY <1>2, <2>2, Answered_Cases
    <2> QED BY <2>1, <2>2, <2>3 DEF hostVars
  <1>3. CASE Received
    BY <1>3 DEF Received
  <1>4. CASE GiveUp
    BY <1>4, Packets DEF GiveUp, InTime, hostVars, Arrived
  <1>5. CASE Unplug
    BY <1>5 DEF Unplug, exchangeVars, Arrived
  <1>6. CASE Take
    BY <1>6, Take_Cases
  <1>7. CASE Write
    <2>1. out = Posted /\ stage = "answer" /\ host = "close_result"
      BY <1>7, Write_Cases, Packets
    <2> QED BY <1>7, <2>1, Write_Cases, Packets DEF Arrived
  <1> QED BY <1>1, <1>2, <1>3, <1>4, <1>5, <1>6, <1>7
             DEF Exchange, Host, Exception

LEMMA Talking_Good ==
    ASSUME InTime, UserInv, Shape, GoodInv, Exchange \/ Plug \/ Unplug \/ Host
    PROVE  GoodInv'
  <1> SUFFICES ASSUME Good' PROVE (FilesInv /\ TalkInv)'
    BY DEF GoodInv
  <1>1. CASE Plug
    BY <1>1 DEF Plug, Good, GoodInv, TalkInv, installVars
  <1>2. CASE Exchange \/ Unplug \/ Host
    <2>1. UNCHANGED <<menuVars, threadVars, installVars, header>>
      BY <1>2, Talking
    <2>2. Good /\ FilesInv /\ TalkInv
      BY <2>1 DEF Good, GoodInv, installVars
    <2>10. install' = install
      BY <2>1 DEF installVars
    <2>3. thread = "ended" /\ main # "gone"
      BY <2>2 DEF Good, UserInv, ConnectionInv, InstallInv
    <2>4. FilesInv'
      BY <1>2, <2>2, Talking_Files
    <2>5. CASE install \in {"begin", "next", "read", "close", "ended"}
      <3>1. stage = "idle" /\ in = "none" /\ out = <<>>
        BY <2>2, <2>5 DEF Shape, TalkInv
      <3>2. CASE Unplug
        BY <2>2, <2>4, <2>5, <2>10, <3>1, <3>2
           DEF TalkInv, Unplug, exchangeVars, Lost
      <3>3. ~Exchange /\ ~Host
        BY <2>3, <3>1, Packets
           DEF Exchange, Sent, Answered, Received, GiveUp, Host, Take, Write,
               Exception
      <3> QED BY <1>2, <3>2, <3>3
    <2>6. CASE install = "open"
      BY <1>2, <2>2, <2>3, <2>6, <2>4, <2>10, Open_Talk DEF TalkInv, OpenTalk
    <2>7. CASE install = "reading"
      BY <1>2, <2>2, <2>3, <2>7, <2>4, <2>10, Read_Talk DEF TalkInv, ReadTalk
    <2>8. CASE install = "closing"
      BY <1>2, <2>2, <2>3, <2>8, <2>4, <2>10, Close_Talk DEF TalkInv, CloseTalk
    <2> QED BY <2>2, <2>5, <2>6, <2>7, <2>8 DEF FilesInv
  <1> QED BY <1>1, <1>2

(* The steps of the install: a request is made from where the host is, and *)
(* what it answers is the next part of the file.                           *)
LEMMA Install_Good ==
    ASSUME InTime, UserInv, Shape, GoodInv, Install PROVE GoodInv'
  <1> SUFFICES ASSUME Good' PROVE (FilesInv /\ TalkInv)'
    BY DEF GoodInv
  <1>0. Good /\ FilesInv /\ TalkInv /\ UNCHANGED <<m_names, host, source>>
    BY DEF Install, Register, OpenFile, Opened, Read, ReadDone, InstallFails,
           AllRead, CloseFile, Closed, Good, GoodInv, threadVars, hostVars
  <1> USE <1>0 DEF FilesInv, TalkInv
  <1>1. CASE Register
    BY <1>1 DEF Register, exchangeVars, Lost
  <1>2. CASE OpenFile
    <2>1. CASE file < m_names
      <3>1. /\ Send(CMD_OPEN(file + 1))
            /\ file' = file + 1 /\ install' = "open"
            /\ install = "next" /\ UNCHANGED got /\ file + 1 \in File
        BY <1>2, <2>1, UsbInstallAssumption DEF OpenFile, File
      <3>2. FilesInv'
        BY <3>1, UsbInstallAssumption DEF Send, File
      <3>3. in' = "posted" /\ stage' = "send" /\ out' = <<>>
        BY <3>1 DEF Send, Shape
      <3> QED BY <3>1, <3>2, <3>3 DEF OpenTalk, Asked, Told, Lost
    <2>2. CASE ~(file < m_names)
      BY <1>2, <2>2, UsbInstallAssumption DEF OpenFile, exchangeVars
    <2> QED BY <2>1, <2>2
  <1>3. CASE Opened
    <2>1. stage = "done" /\ install' = "read" /\ stage' = "idle"
          /\ UNCHANGED <<file, got>>
      BY <1>3 DEF Opened, Over, Good
    <2>2. got[file] = Run(file, 0, 0) /\ install = "open" /\ (Serves \/ Lost)
      BY <1>3, <2>1, Run_Empty DEF Opened, OpenTalk
    <2> QED BY <2>1, <2>2, UsbInstallAssumption DEF Serves, Lost
  <1>4. CASE Read
    <2>1. PICK n \in 0 .. FileSize : got[file] = Run(file, 0, n)
      BY <1>4 DEF Read
    <2>2. Len(got[file]) = n
      BY <2>1, Run_Append
    <2>3. PICK k \in 1 .. ReadMax : n + k <= FileSize /\ Send(DataHeader(n, k))
      BY <1>4, <2>2 DEF Read
    <2>4. UNCHANGED <<file, got>> /\ install = "read" /\ install' = "reading"
      BY <1>4 DEF Read
    <2>5. Asks(n, k)' /\ n \in Nat /\ k \in Nat
      BY <2>1, <2>3, <2>4, UsbInstallAssumption DEF Asks, Send
    <2>6. FilesInv'
      BY <2>4, <2>5
    <2>7. in' = "posted" /\ stage' = "send" /\ out' = <<>>
      BY <2>3 DEF Send, Shape
    <2> QED BY <2>4, <2>6, <2>7 DEF ReadTalk, Asked, Told, Serves, Lost
  <1>5. CASE ReadDone
    <2>1. PICK n \in Nat, k \in Nat : Asks(n, k)
      BY <1>5 DEF ReadDone
    <2>2. stage = "done" /\ install = "reading" /\ CrcMatches(out[1])
          /\ stage' = "idle" /\ UNCHANGED file
      BY <1>5 DEF ReadDone, Over
    <2>3. out = <<Data(file, n, k)>> /\ (Serves \/ Lost)
      BY <2>1, <2>2, Packets, Headers DEF ReadTalk, Asks
    <2>4. Blocks(out[1]) = Run(file, n, k) /\ Run(file, n, k) # <<>>
      BY <2>1, <2>3, Packets, Run_Append DEF Asks
    <2>5. /\ install' = "read"
          /\ got' = [got EXCEPT ![file] = @ \o Run(file, n, k)]
      BY <1>5, <2>4 DEF ReadDone
    <2>6. file \in File
      BY <2>2 DEF File
    <2>7. got'[file] = Run(file, 0, n + k)
      <3>1. got'[file] = Cat(got[file], Run(file, n, k))
        BY <2>5, <2>6 DEF Cat
      <3> QED BY <2>1, <3>1, Run_Append DEF Asks
    <2>10. /\ DOMAIN got' = File
           /\ \A f \in File : f # file => got'[f] = got[f]
      BY <2>5, <2>6
    <2>8. n + k \in 0 .. FileSize
      BY <2>1, UsbInstallAssumption DEF Asks
    <2>9. FilesInv'
      <3>1. \E m \in 0 .. FileSize : got'[file'] = Run(file', 0, m)
        BY <2>2, <2>7, <2>8
      <3>2. \A f \in File : /\ f < file' => got'[f] = Whole(f)
                           /\ f > file' => got'[f] = <<>>
        BY <2>2, <2>10, UsbInstallAssumption DEF File
      <3>3. file # 0 /\ install' = "read"
        BY <2>2, <2>5
      <3> HIDE DEF TalkInv
      <3> QED BY <2>2, <3>1, <3>2, <3>3, <2>10
    <2> QED BY <2>2, <2>3, <2>5, <2>9 DEF Serves, Lost
  <1>6. CASE InstallFails
    BY <1>6 DEF InstallFails, Good
  <1>7. CASE AllRead
    <2>1. PICK n \in 0 .. FileSize : got[file] = Run(file, 0, n)
      BY <1>7 DEF AllRead
    <2>2. n = FileSize
      BY <1>7, <2>1, Run_Append DEF AllRead
    <2> QED BY <1>7, <2>1, <2>2 DEF AllRead, Whole, exchangeVars, Serves, Lost
  <1>8. CASE CloseFile
    <2>1. /\ install = "close" /\ install' = "closing"
          /\ UNCHANGED <<file, got>>
          /\ in' = "posted" /\ stage' = "send" /\ out' = <<>> /\ header' = Zero
      BY <1>8 DEF CloseFile, Send, Shape
    <2> QED BY <2>1 DEF CloseTalk, Asked, Told, Lost
  <1>9. CASE Closed
    <2>1. /\ install = "closing" /\ install' = "next"
          /\ UNCHANGED <<file, got>>
          /\ stage \in {"done", "failed"} /\ stage' = "idle"
      BY <1>9 DEF Closed, Over, Good
    <2> QED BY <2>1 DEF CloseTalk, Lost
  <1> QED BY <1>1, <1>2, <1>3, <1>4, <1>5, <1>6, <1>7, <1>8, <1>9 DEF Install

LEMMA Next_GoodInv ==
    ASSUME InTime, UserInv, Shape, StartInv, GoodInv, [Next]_vars
    PROVE  GoodInv'
  <1>1. CASE Thread
    <2>1. UNCHANGED install /\ thread # "ended"
      BY <1>1 DEF Thread, Poll, Connected, NotConnected, installVars
    <2> QED BY <2>1 DEF GoodInv, Good, UserInv, ConnectionInv
  <1>2. CASE Update
    <2>1. CASE UNCHANGED <<threadVars, installVars, exchangeVars, hostVars>>
      BY <2>1
         DEF threadVars, installVars, exchangeVars, hostVars, GoodInv, Good,
             FilesInv, TalkInv, Asks, OpenTalk, ReadTalk, CloseTalk, Asked,
             Told, Arrived, Serves, Lost
    <2>2. CASE m_state = "StartingTransfer"
      <3>1. /\ Fresh /\ m_names = NumFiles /\ stage = "idle"
            /\ host \in {"command", "unplugged"} /\ install' = "begin"
        BY <1>2, <2>2 DEF Update, StartInv
      <3>2. UNCHANGED <<file, got, m_names, stage, host>>
        BY <1>2 DEF Update, threadVars, exchangeVars, hostVars
      <3>3. FilesInv'
        BY <3>1, <3>2, UsbInstallAssumption DEF FilesInv, Fresh, File
      <3> QED BY <3>1, <3>2, <3>3 DEF TalkInv, GoodInv
    <2> QED BY <1>2, <2>1, <2>2 DEF Update, installVars
  <1>3. CASE BoxDone
    BY <1>3 DEF BoxDone, GoodInv, Good
  <1>4. CASE Quit \/ QuitDone
    BY <1>4 DEF Quit, QuitDone, installVars, GoodInv, Good, UserInv, InstallInv
  <1>5. CASE UNCHANGED <<threadVars, installVars, exchangeVars, hostVars>>
    BY <1>5
       DEF threadVars, installVars, exchangeVars, hostVars, GoodInv, Good,
           FilesInv, TalkInv, Asks, OpenTalk, ReadTalk, CloseTalk, Asked, Told,
           Arrived, Serves, Lost
  <1> QED BY <1>1, <1>2, <1>3, <1>4, <1>5, Talking_Good, Install_Good
             DEF Next, Main, BoxEnds, Leave, Stop, Join, CancelBox, Gone, vars

-----------------------------------------------------------------------------
DoneInv ==
    m_state = "Done" => install = "none" /\ \A f \in File : got[f] = Whole(f)

LEMMA Next_DoneInv ==
    ASSUME InTime, UserInv, GoodInv, DoneInv, [Next]_vars PROVE DoneInv'
  <1>1. CASE UNCHANGED <<m_state, install, got>>
    BY <1>1 DEF DoneInv
  <1>2. CASE Thread
    BY <1>2
       DEF Thread, Poll, Connected, NotConnected, DoneInv, installVars,
           menuVars
  <1>3. CASE Update
    BY <1>3 DEF Update, DoneInv
  <1>4. CASE BoxDone
    <2>1. rc = "ok" => Good /\ FilesInv /\ file = NumFiles
      BY <1>4 DEF BoxDone, Good, GoodInv, FilesInv
    <2>2. rc = "ok" => \A f \in File : got[f] = Whole(f)
      BY <2>1, <1>4, UsbInstallAssumption DEF FilesInv, File, BoxDone
    <2> QED BY <2>2, <1>4 DEF BoxDone, DoneInv
  <1>5. CASE Install
    BY <1>5
       DEF Install, Register, OpenFile, Opened, Read, ReadDone, InstallFails,
           AllRead, CloseFile, Closed, DoneInv, menuVars
  <1> QED BY <1>1, <1>2, <1>3, <1>4, <1>5, Talking
             DEF Next, Main, BoxEnds, Leave, Stop, Join, Quit, QuitDone,
                 CancelBox, Plug, Gone, vars, installVars, menuVars

CompleteInv == UserInv /\ Shape /\ HelloInv /\ StartInv /\ GoodInv /\ DoneInv

LEMMA Init_CompleteInv == Init => CompleteInv
  BY Init_UserInv
     DEF Init, CompleteInv, Shape, HelloInv, StartInv, Fresh, GoodInv, Good,
         DoneInv, Asked, Told, Arrived

(* An install that says it succeeded has read every file of the host, each *)
(* from its first block to its last (usb_menu.cpp, usb_installer.cpp,      *)
(* tools/usb_install.py): whatever the host fails to open or read, damages *)
(* or leaves unanswered, whenever the user cancels and the cable is pulled,*)
(* as long as no transfer completes in the moment it is given up.          *)
THEOREM SuccessIsWhole == InTime => (Spec => []SuccessIsComplete)
  <1> SUFFICES ASSUME InTime PROVE Spec => []SuccessIsComplete
    OBVIOUS
  <1>1. CompleteInv => SuccessIsComplete
    BY DEF CompleteInv, DoneInv, SuccessIsComplete, Whole, Run
  <1>2. CompleteInv /\ [Next]_vars => CompleteInv'
    BY Next_UserInv, Next_Shape, Next_HelloInv, Next_StartInv, Next_GoodInv,
       Next_DoneInv DEF CompleteInv
  <1>3. Spec => []CompleteInv
    BY Init_CompleteInv, <1>2, PTL DEF Spec
  <1> QED BY <1>1, <1>3, PTL

-----------------------------------------------------------------------------
(* Types.  What the host hands out comes from a header it took: the types  *)
(* of the headers and of the packets on their way are part of the          *)
(* invariant, and so is the file the script has open.                      *)

Pair == File \X (1 .. FileSize)

Header == [arg2 : {0}, arg3 : 0 .. FileSize, size : 0 .. FileSize]
          \cup [arg2 : {1}, arg3 : File, size : {0}]

Serving == {"open_result", "open_error", "transfer", "result", "data",
            "read_error", "close_result"}

TypeInv ==
    /\ TypeOK
    /\ header \in Header /\ taken \in Header
    /\ host \in Serving => source \in File
    /\ install \notin {"none", "begin", "next", "ended"} => file \in File
    /\ out # <<>> => Blocks(out[1]) \in Seq(Pair)
    /\ stage = "done" => out # <<>>

(* The headers the console sends *)
LEMMA Header_Types ==
    /\ Zero \in Header
    /\ \A i \in File : CMD_OPEN(i) \in Header
    /\ \A off \in 0 .. FileSize, n \in 0 .. FileSize :
           DataHeader(off, n) \in Header
  BY UsbInstallAssumption DEF Header, Zero, CMD_OPEN, DataHeader

(* What the packets carry *)
LEMMA Blocks_Types ==
    /\ Blocks(Posted[1]) = <<>> /\ Blocks(Names) = <<>>
    /\ Blocks(Damaged) = <<>> /\ \A n : Blocks(Granted(n)[1]) = <<>>
    /\ Blocks(Refused[1]) = <<>>
    /\ \A f, off, n : Blocks(Data(f, off, n)) = Run(f, off, n)
  BY DEF Blocks, Posted, Names, Damaged, Data, Granted, Refused, Result, Run

(* The blocks the script sends are blocks of the file it has open. *)
LEMMA Data_Types ==
    ASSUME TypeInv, host = "data"
    PROVE  Run(source, taken.arg3, Available) \in Seq(Pair)
  <1>1. source \in File
    BY DEF TypeInv, Serving
  <1>2. taken \in Header
    BY DEF TypeInv
  <1>3. CASE taken.arg2 = 1
    <2>1. Available = 0
      BY <1>3 DEF Available
    <2> QED BY <2>1 DEF Run
  <1>4. CASE taken.arg2 # 1
    <2>1. taken.arg3 \in 0 .. FileSize /\ taken.size \in 0 .. FileSize
      BY <1>2, <1>4 DEF Header
    <2>2. Available \in Nat /\ taken.arg3 + Available <= FileSize
      BY <1>4, <2>1, UsbInstallAssumption DEF Available, Smaller
    <2> HIDE DEF Pair
    <2>3. \A i \in 1 .. Available : <<source, taken.arg3 + i>> \in Pair
      BY <1>1, <2>1, <2>2, UsbInstallAssumption DEF Pair
    <2> QED BY <2>2, <2>3 DEF Run
  <1> QED BY <1>3, <1>4

(* The invariant holds at first, and every step keeps it. *)
LEMMA Init_Type == Init => TypeInv
  <1> SUFFICES ASSUME Init PROVE TypeInv
    OBVIOUS
  <1>1. {pop, stop, cancel, exit, m_was_connected} \subseteq BOOLEAN
    BY Zenon DEF Init
  <1>2. got \in [File -> Seq(Pair)]
    BY DEF Init
  <1>3. m_names \in 0 .. NumFiles /\ file \in 0 .. NumFiles
        /\ source \in 0 .. NumFiles
    BY UsbInstallAssumption DEF Init
  <1>4. TypeOK
    BY <1>1, <1>2, <1>3 DEF Init, TypeOK, Reading, Writing, Pair
  <1> QED BY <1>4, Header_Types DEF Init, TypeInv, Serving

(* Who the exchange is made for stays as it is. *)
LEMMA Exchange_Type == ASSUME TypeInv, Exchange PROVE TypeInv'
  <1>1. UNCHANGED <<menuVars, threadVars, installVars, header, hostVars>>
    BY DEF Exchange, Sent, Answered, Received, GiveUp
  <1>2. stage' \in {"answer", "data", "done", "failed"}
    BY DEF Exchange, Sent, Answered, Received, GiveUp
  <1>3. in' \in {"none", in}
    BY DEF Exchange, Sent, Answered, Received, GiveUp
  <1>4. /\ out' \in {<<>>, Posted, out}
        /\ stage' = "done" => out' = out /\ out # <<>>
    BY DEF Exchange, Sent, Answered, Received, GiveUp, Arrived
  <1>5. TypeOK'
    BY <1>1, <1>2, <1>3
       DEF TypeInv, TypeOK, menuVars, threadVars, installVars, hostVars
  <1>6. out' # <<>> => Blocks(out'[1]) \in Seq(Pair)
    <2>1. CASE out' = Posted
      BY <2>1, Blocks_Types
    <2>2. CASE out' = out
      BY <2>2 DEF TypeInv
    <2> QED BY <1>4, <2>1, <2>2
  <1> QED BY <1>1, <1>4, <1>5, <1>6
          DEF TypeInv, threadVars, installVars, hostVars

(* The connection thread *)
LEMMA Thread_Type == ASSUME TypeInv, Thread PROVE TypeInv'
  <1>1. UNCHANGED <<main, pop, stop, cancel, exit, installVars, hostVars>>
    BY DEF Thread, Poll, Connected, NotConnected, menuVars
  <1>2. /\ thread' \in {"poll", "hello", "ended"}
        /\ m_names' \in {m_names, 0, NumFiles}
        /\ m_state' \in {m_state, "None", "WaitForFileList",
                         "StartingTransfer"}
    BY DEF Thread, Poll, Connected, AfterConnect, NotConnected, TypeInv,
           TypeOK, menuVars
  <1>5. m_names' \in 0 .. NumFiles
    BY <1>2, UsbInstallAssumption DEF TypeInv, TypeOK
  <1>6. m_was_connected' \in {m_was_connected, TRUE, FALSE}
    BY Zenon DEF Thread, Poll, Connected, NotConnected
  <1>7. {pop', stop', cancel', exit', m_was_connected'} \subseteq BOOLEAN
    BY <1>1, <1>6, Zenon DEF TypeInv, TypeOK
  <1>3. /\ header' \in {header, Zero} /\ in' \in {in, "posted"}
        /\ stage' \in {stage, "send", "idle"} /\ out' \in {<<>>, out}
        /\ stage' = "done" => out' = out /\ stage = "done"
    BY DEF Thread, Poll, Connected, NotConnected, Send, Over, exchangeVars
  <1>4. TypeOK'
    BY <1>1, <1>2, <1>3, <1>5, <1>7 DEF TypeInv, TypeOK, installVars, hostVars
  <1> QED BY <1>1, <1>3, <1>4, Header_Types
          DEF TypeInv, installVars, hostVars

(* The install: it asks for blocks within the file that it reads. *)
LEMMA Install_Type == ASSUME TypeInv, Install PROVE TypeInv'
  <1>1. UNCHANGED <<main, pop, m_state, stop, exit, threadVars, hostVars>>
    BY DEF Install, Register, OpenFile, Opened, Read, ReadDone, InstallFails,
           AllRead, CloseFile, Closed, menuVars
  <1>2. cancel' \in {cancel, TRUE} /\ rc' \in {rc, "fail"}
    BY DEF Install, Register, OpenFile, Opened, Read, ReadDone, InstallFails,
           AllRead, CloseFile, Closed, menuVars
  <1>3. install' \in {"next", "open", "read", "reading", "close", "closing",
                      "ended"}
    BY DEF Install, Register, OpenFile, Opened, Read, ReadDone, InstallFails,
           AllRead, CloseFile, Closed
  <1>4. /\ in' \in {in, "posted"} /\ stage' \in {stage, "send", "idle"}
        /\ out' \in {<<>>, out}
        /\ stage' = "done" => out' = out /\ stage = "done"
    BY DEF Install, Register, OpenFile, Opened, Read, ReadDone, InstallFails,
           AllRead, CloseFile, Closed, Send, Over, exchangeVars
  <1>5. \/ file' = file
        \/ file \in 0 .. NumFiles /\ file < m_names /\ file' = file + 1
    BY DEF Install, Register, OpenFile, Opened, Read, ReadDone, InstallFails,
           AllRead, CloseFile, Closed, TypeInv, TypeOK
  <1>6. file' \in 0 .. NumFiles
    BY <1>5, UsbInstallAssumption DEF TypeInv, TypeOK
  <1>7. install' \notin {"none", "begin", "next", "ended"} => file' \in File
    <2>1. \/ install \notin {"none", "begin", "next", "ended"} /\ file' = file
          \/ install' \in {"next", "ended"}
          \/ file' = file + 1 /\ file \in 0 .. NumFiles /\ file < m_names
      BY DEF Install, Register, OpenFile, Opened, Read, ReadDone,
             InstallFails, AllRead, CloseFile, Closed, TypeInv, TypeOK
    <2> QED BY <1>6, <2>1, UsbInstallAssumption DEF TypeInv, TypeOK, File
  <1>8. header' \in Header
    <2>1. CASE OpenFile
      <3>1. file < m_names => file + 1 \in File
        BY UsbInstallAssumption DEF TypeInv, TypeOK, File
      <3> QED BY <2>1, <3>1, Header_Types
              DEF OpenFile, Send, exchangeVars, TypeInv
    <2>2. CASE Read
      <3>1. PICK n \in 1 .. ReadMax : /\ Len(got[file]) + n <= FileSize
                                      /\ Send(DataHeader(Len(got[file]), n))
        BY <2>2 DEF Read
      <3>2. got[file] \in Seq(Pair)
        BY <2>2 DEF Read, TypeInv, TypeOK, Pair
      <3>3. Len(got[file]) \in 0 .. FileSize /\ n \in 0 .. FileSize
        BY <3>1, <3>2, UsbInstallAssumption
      <3> QED BY <3>1, <3>3, Header_Types DEF Send
    <2>3. CASE CloseFile
      BY <2>3, Header_Types DEF CloseFile, Send
    <2> QED BY <2>1, <2>2, <2>3
            DEF Install, Register, Opened, ReadDone, InstallFails, AllRead,
                Closed, Over, exchangeVars, TypeInv
  <1>9. got' \in [File -> Seq(Pair)]
    <2>1. got \in [File -> Seq(Pair)]
      BY DEF TypeInv, TypeOK, Pair
    <2>2. CASE ReadDone
      <3>1. Blocks(out[1]) \in Seq(Pair) /\ file \in File
        BY <2>2 DEF ReadDone, Over, TypeInv
      <3>2. got' = [got EXCEPT ![file] = @ \o Blocks(out[1])]
        BY <2>2 DEF ReadDone
      <3> QED BY <2>1, <3>1, <3>2
    <2>3. CASE got' = got
      BY <2>1, <2>3
    <2> QED BY <2>2, <2>3
            DEF Install, Register, OpenFile, Opened, Read, InstallFails,
                AllRead, CloseFile, Closed
  <1>10. {pop', stop', cancel', exit', m_was_connected'} \subseteq BOOLEAN
    BY <1>1, <1>2, Zenon DEF TypeInv, TypeOK, threadVars
  <1>11. TypeOK'
    BY <1>1, <1>2, <1>3, <1>4, <1>6, <1>9, <1>10
       DEF TypeInv, TypeOK, threadVars, hostVars, Pair
  <1> QED BY <1>1, <1>4, <1>7, <1>8, <1>11
          DEF TypeInv, threadVars, hostVars

(* The main thread *)
LEMMA Menu_Type == ASSUME TypeInv, Main \/ Update \/ CancelBox PROVE TypeInv'
  <1>1. UNCHANGED <<threadVars, file, got, rc, hostVars>>
    BY DEF Main, BoxEnds, BoxDone, Leave, Stop, Join, Quit, QuitDone, Update,
           CancelBox, installVars
  <1>2. /\ main' \in {"frame", "box", "join", "leave", "stop", "wait", "quit",
                      "quitting", "gone"}
        /\ m_state' \in {m_state, "Progress", "Done", "Failed"}
        /\ install' \in {install, "begin", "none"}
    BY DEF Main, BoxEnds, BoxDone, Leave, Stop, Join, Quit, QuitDone, Update,
           CancelBox, installVars
  <1>3. {pop', stop', cancel', exit'} \subseteq BOOLEAN
    <2>1. {pop, stop, cancel, exit} \subseteq BOOLEAN
      BY DEF TypeInv, TypeOK
    <2> QED BY <2>1
            DEF Main, BoxEnds, BoxDone, Leave, Stop, RequestStop, Join, Quit,
                QuitDone, Update, CancelBox
  <1>4. /\ header' \in {header, Zero} /\ in' \in {in, "posted"}
        /\ stage' \in {stage, "send", "idle"} /\ out' \in {<<>>, out}
        /\ stage' = "done" => out' = out /\ stage = "done"
    BY DEF Main, BoxEnds, BoxDone, Leave, Stop, Join, Quit, QuitDone, Update,
           CancelBox, Send, Over, exchangeVars
  <1>5. TypeOK'
    BY <1>1, <1>2, <1>3, <1>4 DEF TypeInv, TypeOK, threadVars, hostVars
  <1> QED BY <1>1, <1>2, <1>4, <1>5, Header_Types
          DEF TypeInv, threadVars, hostVars

(* The script: it serves the file that a header named. *)
LEMMA Host_Type == ASSUME TypeInv, Plug \/ Unplug \/ Host PROVE TypeInv'
  <1>1. UNCHANGED <<menuVars, threadVars, installVars, header, stage>>
    BY DEF Plug, Unplug, Host, Take, Write, Exception, exchangeVars
  <1>2. CASE Plug \/ Unplug \/ Exception
    <2>1. UNCHANGED <<exchangeVars, taken, source>>
          /\ host' \in {"greet", "unplugged", "exception"}
      BY <1>2 DEF Plug, Unplug, Exception
    <2>2. TypeOK'
      BY <1>1, <2>1 DEF TypeInv, TypeOK, menuVars, threadVars, installVars,
                        exchangeVars, Reading
    <2> QED BY <1>1, <2>1, <2>2
            DEF TypeInv, threadVars, installVars, exchangeVars, Serving
  <1>3. CASE Take
    <2>1. header \in Header
      BY DEF TypeInv
    <2>2. header.arg2 \in {0, 1} /\ (header.arg2 = 1 => header.arg3 \in File)
      BY <2>1 DEF Header
    <2>3. /\ in' = "taken" /\ taken' = header /\ out' = out
          /\ \/ host' \in {"greet_result", "bye"}
                /\ source' \in {source} \cup File
             \/ host = "command" /\ source' \in File
                /\ host' \in {"open_result", "open_error"}
             \/ host = "transfer" /\ source' = source
                /\ host' \in {"close_result", "result", "read_error"}
      BY <1>3, <2>2 DEF Take, Understood, Reading
    <2>4. source' \in 0 .. NumFiles
      BY <2>3, UsbInstallAssumption DEF TypeInv, TypeOK, File
    <2>5. TypeOK'
      BY <1>1, <2>3, <2>4
         DEF TypeInv, TypeOK, menuVars, threadVars, installVars, Writing
    <2> QED BY <1>1, <2>1, <2>3, <2>5
            DEF TypeInv, threadVars, installVars, Serving
  <1>4. CASE Write
    <2>1. /\ UNCHANGED <<in, taken, source>>
          /\ \/ out' \in {<<Names>>, <<Damaged>>}
             \/ out' = Refused
             \/ \E n : out' = Granted(n)
             \/ host = "data" /\ out' = <<Data(source, taken.arg3, Available)>>
          /\ \/ host' \in {"names", "command", "ended"}
             \/ host \in Serving /\ host' \in {"transfer", "data"}
      <3>1. \A n : out' = Granted(n) => \E m : out' = Granted(m)
        OBVIOUS
      <3> HIDE DEF Granted
      <3> QED BY <1>4, <3>1, Write_Cases DEF Serving
    <2>2. out' # <<>> /\ Blocks(out'[1]) \in Seq(Pair)
      <3>1. <<>> \in Seq(Pair)
        OBVIOUS
      <3>2. \A p : <<p>> # <<>> /\ <<p>>[1] = p
        OBVIOUS
      <3>3. CASE /\ host = "data"
                 /\ out' = <<Data(source, taken.arg3, Available)>>
        BY <3>2, <3>3, Blocks_Types, Data_Types, Zenon
      <3>4. CASE out' \in {<<Names>>, <<Damaged>>}
        BY <3>1, <3>2, <3>4, Blocks_Types, Zenon
      <3>5. CASE out' = Refused \/ \E n : out' = Granted(n)
        BY <3>1, <3>5, Blocks_Types, Packets, Zenon
      <3> QED BY <2>1, <3>3, <3>4, <3>5
    <2>3. TypeOK'
      BY <1>1, <2>1 DEF TypeInv, TypeOK, menuVars, threadVars, installVars,
                        Reading, Writing
    <2> QED BY <1>1, <2>1, <2>2, <2>3
            DEF TypeInv, threadVars, installVars, Serving
  <1> QED BY <1>2, <1>3, <1>4 DEF Host

(* All steps *)
LEMMA Next_Type == TypeInv /\ [Next]_vars => TypeInv'
  <1> SUFFICES ASSUME TypeInv, [Next]_vars PROVE TypeInv'
    OBVIOUS
  <1>1. CASE UNCHANGED vars
    BY <1>1 DEF vars, menuVars, threadVars, installVars, exchangeVars,
                hostVars, TypeInv, TypeOK
  <1> QED BY <1>1, Exchange_Type, Thread_Type, Install_Type, Menu_Type,
             Host_Type DEF Next, Gone

(* Every variable stays in its type, for every host and every fault, also  *)
(* with late transfers: the console installs blocks of files the host has  *)
(* announced, whatever it made of the answers.                             *)
THEOREM TypeCorrect == Spec => []TypeOK
  <1>1. TypeInv => TypeOK
    BY DEF TypeInv
  <1> QED BY <1>1, Init_Type, Next_Type, PTL DEF Spec

=============================================================================
