------------------------------- MODULE PushPull -------------------------------
(***************************************************************************)
(* A file on a network mount: PushPullThreadData of                        *)
(* source/utils/devoptab_common.cpp, which joins the file calls to a       *)
(* thread in curl_easy_perform by a bounded buffer, and the calls of       *)
(* source/utils/devoptab_webdav.cpp (the FTP and HTTP mounts have the same *)
(* ones) that start, restart and end that thread.                          *)
(*                                                                         *)
(* The file calls are made one at a time, under the mutex of the device.   *)
(* Everything between taking the mutex of the thread data and releasing it *)
(* (or sleeping, which releases it) is one step.  The unit of data is a    *)
(* block: block n of the remote file is the number n, and a file that is   *)
(* written gets the blocks 1, 2, 3, ...                                    *)
(***************************************************************************)
EXTENDS Naturals, Sequences

CONSTANTS
    Size,            (* blocks of the remote file, and of a file written   *)
    MaxBuffer,       (* MAX_BUFFER_SIZE                                    *)
    ChunkMax,        (* most blocks in one callback of curl ...            *)
    CallMax,         (* ... and in one file call                           *)
    NetworkMayFail,
    SlowConnect      (* curl asks for data to send only when the first     *)
                     (* write has put some in the buffer                   *)

ASSUME PushPullAssumption ==
    /\ Size \in Nat
    /\ MaxBuffer \in Nat \ {0}
    /\ ChunkMax \in 1 .. MaxBuffer
    /\ CallMax \in Nat \ {0}
    /\ {NetworkMayFail, SlowConnect} \subseteq BOOLEAN

VARIABLES
    mode,            (* how the file is open                               *)
    off, last_off,   (* the position, and where the download stands        *)
    main,            (* where the thread that makes the file calls is      *)
    want,            (* blocks left in this read or write                  *)
    data,            (* the blocks this read, or the last, has delivered   *)
    closing,         (* ~PushPullThreadData is called by the close         *)
    curl,            (* where the thread of the transfer is                *)
    chunk,           (* blocks in the write callback it is in              *)
    moved,           (* dlnow or ulnow is not zero                         *)
    paused,          (* curl_easy_pause                                    *)
    pos,             (* blocks of the remote file received                 *)
    sent,            (* the blocks the remote side was sent                *)
    res,             (* what curl_easy_perform returns                     *)
    buffer, finished, error

fileVars == <<mode, off, last_off>>
callVars == <<want, data, closing>>
curlVars == <<chunk, moved, paused, pos, sent, res>>
objVars  == <<finished, error>>
vars == <<fileVars, main, callVars, curl, curlVars, buffer, objVars>>

MainPc == {"idle", "create", "pull", "pull_wait", "push", "push_wait",
           "cancel", "resume", "join"}
CurlPc == {"none", "perform", "deliver", "deliver_wait", "pausing", "resuming",
           "ended", "exited"}

TypeOK ==
    /\ mode \in {"closed", "read", "write"}
    /\ off \in 0 .. Size
    /\ last_off \in 0 .. Size
    /\ main \in MainPc
    /\ want \in 0 .. CallMax
    /\ data \in Seq(1 .. Size)
    /\ closing \in BOOLEAN
    /\ curl \in CurlPc
    /\ chunk \in 0 .. ChunkMax
    /\ moved \in BOOLEAN
    /\ paused \in BOOLEAN
    /\ pos \in 0 .. Size
    /\ sent \in Seq(1 .. Size)
    /\ res \in {"ok", "fail"}
    /\ buffer \in Seq(1 .. Size)
    /\ Len(buffer) <= MaxBuffer
    /\ finished \in BOOLEAN
    /\ error \in BOOLEAN

Init ==
    /\ mode = "closed" /\ off = 0 /\ last_off = 0
    /\ main = "idle" /\ want = 0 /\ data = <<>> /\ closing = FALSE
    /\ curl = "none" /\ chunk = 0 /\ moved = FALSE /\ paused = FALSE
    /\ pos = 0 /\ sent = <<>> /\ res = "ok"
    /\ buffer = <<>> /\ finished = FALSE /\ error = FALSE

Smaller(a, b) == IF a < b THEN a ELSE b

From(n, k) == [i \in 1 .. k |-> n + i]
Rest(s, n) == SubSeq(s, n + 1, Len(s))

(* Mutants: curl is not woken; a seek is not noticed; an upload ends with  *)
(* data in the buffer; a failure is not passed on.                         *)
CurlSleepsOn == curl
NeverMoved == FALSE
EndsEarly == finished
NothingFailed == FALSE

(* condvarWakeOne on can_push and on can_pull *)
WokenCurl == IF curl = "deliver_wait" THEN "deliver" ELSE curl
WokenPush == IF main = "push_wait" THEN "push" ELSE main
WokenPull == IF main = "pull_wait" THEN "pull" ELSE main

-----------------------------------------------------------------------------
(* The file calls *)

Open(m) ==
    /\ mode = "closed" /\ main = "idle"
    /\ m \in {"read", "write"}
    /\ mode' = m
    /\ sent' = <<>>
    /\ res' = "ok"
    /\ UNCHANGED <<off, last_off, main, callVars, curl, chunk, moved, paused,
                   pos, buffer, objVars>>

Seek(to) ==
    /\ mode = "read" /\ main = "idle"
    /\ off' = to
    /\ UNCHANGED <<mode, last_off, main, callVars, curl, curlVars, buffer,
                   objVars>>

(* A read somewhere else than where the last one ended deletes the         *)
(* transfer, and starts another one from there.                            *)
PositionChanged == off # last_off

Read(len) ==
    /\ mode = "read" /\ main = "idle"
    /\ off < Size
    /\ want' = Smaller(len, Size - off)
    /\ data' = <<>>
    /\ last_off' = IF PositionChanged THEN off ELSE last_off
    /\ main' = IF curl = "none" THEN "create"
               ELSE IF PositionChanged THEN "cancel" ELSE "pull"
    /\ UNCHANGED <<mode, off, closing, curl, curlVars, buffer, objVars>>

Write(len) ==
    /\ mode = "write" /\ main = "idle"
    /\ off < Size
    /\ want' = Smaller(len, Size - off)
    /\ main' = IF curl = "none" THEN "create" ELSE "push"
    /\ UNCHANGED <<fileVars, data, closing, curl, curlVars, buffer, objVars>>

(* CreatePushData, CreatePullData: a new transfer, from off, or -EIO.      *)
Create ==
    /\ main = "create"
    /\ \/ /\ main' = IF mode = "read" THEN "pull" ELSE "push"
          /\ curl' = "perform"
          /\ buffer' = <<>>
          /\ finished' = FALSE /\ error' = FALSE
          /\ moved' = FALSE /\ paused' = FALSE
          /\ pos' = off
          /\ UNCHANGED want
       \/ /\ main' = "idle"
          /\ want' = 0
          /\ UNCHANGED <<curl, buffer, objVars, moved, paused, pos>>
    /\ UNCHANGED <<fileVars, data, closing, chunk, sent, res>>

(* PullData: take what there is, and sleep until there is all of it or no  *)
(* more will come.                                                         *)
PullData ==
    LET n == IF error THEN 0 ELSE Smaller(want, Len(buffer))
        returns == n = want \/ finished \/ error
    IN
    /\ main = "pull"
    /\ data' = data \o SubSeq(buffer, 1, n)
    /\ buffer' = Rest(buffer, n)
    /\ curl' = WokenCurl
    /\ IF returns
       THEN /\ main' = "idle"
            /\ want' = 0
            /\ off' = off + Len(data')
            /\ last_off' = off'
       ELSE /\ main' = "pull_wait"
            /\ want' = want - n
            /\ UNCHANGED <<off, last_off>>
    /\ UNCHANGED <<mode, closing, curlVars, objVars>>

(* PushData: put in what fits, and sleep until all of it did or nobody     *)
(* wants it.                                                               *)
PushData ==
    LET n == IF error \/ finished THEN 0
             ELSE Smaller(want, MaxBuffer - Len(buffer))
    IN
    /\ main = "push"
    /\ buffer' = buffer \o From(off, n)
    /\ off' = off + n
    /\ IF n = want \/ error \/ finished
       THEN main' = "idle" /\ want' = 0
       ELSE main' = "push_wait" /\ want' = want - n
    /\ UNCHANGED <<mode, last_off, data, closing, curl, curlVars, objVars>>

Close ==
    /\ mode # "closed" /\ main = "idle"
    /\ IF curl = "none"
       THEN mode' = "closed" /\ off' = 0 /\ last_off' = 0 /\ data' = <<>>
            /\ UNCHANGED <<main, closing>>
       ELSE main' = "cancel" /\ closing' = TRUE
            /\ UNCHANGED <<fileVars, data>>
    /\ UNCHANGED <<want, curl, curlVars, buffer, objVars>>

(* ~PushPullThreadData: Cancel, first under the mutex, then without it,    *)
(* and the wait for the thread.                                            *)
Cancel ==
    /\ main = "cancel"
    /\ finished' = TRUE
    /\ curl' = WokenCurl
    /\ main' = "resume"
    /\ UNCHANGED <<fileVars, callVars, curlVars, buffer, error>>

Resume ==
    /\ main = "resume"
    /\ paused' = FALSE
    /\ main' = "join"
    /\ UNCHANGED <<fileVars, callVars, curl, chunk, moved, pos, sent, res,
                   buffer, objVars>>

Join ==
    /\ main = "join" /\ curl = "exited"
    /\ curl' = "none"
    /\ closing' = FALSE
    /\ IF closing
       THEN /\ main' = "idle"
            /\ mode' = "closed" /\ off' = 0 /\ last_off' = 0 /\ data' = <<>>
       ELSE main' = "create" /\ UNCHANGED <<fileVars, data>>
    /\ UNCHANGED <<want, curlVars, buffer, objVars>>

-----------------------------------------------------------------------------
(* The thread of the transfer *)

(* The write callback gets a chunk ...                                     *)
Receive ==
    /\ curl = "perform" /\ mode = "read" /\ pos < Size
    /\ chunk' \in 1 .. Smaller(ChunkMax, Size - pos)
    /\ moved' = TRUE
    /\ curl' = "deliver"
    /\ UNCHANGED <<fileVars, main, callVars, paused, pos, sent, res, buffer,
                   objVars>>

(* ... which goes into the buffer in one piece, once there is room.        *)
NoRoom == Len(buffer) + chunk > MaxBuffer

Deliver ==
    /\ curl = "deliver"
    /\ main' = WokenPull
    /\ \/ /\ error \/ finished
          /\ curl' = "ended" /\ res' = "fail" /\ chunk' = 0
          /\ UNCHANGED <<buffer, pos>>
       \/ /\ ~error /\ ~finished
          /\ NoRoom
          /\ curl' = "deliver_wait"
          /\ UNCHANGED <<buffer, pos, res, chunk>>
       \/ /\ ~error /\ ~finished
          /\ ~NoRoom
          /\ buffer' = buffer \o From(pos, chunk)
          /\ pos' = pos + chunk
          /\ curl' = "perform" /\ chunk' = 0
          /\ UNCHANGED res
    /\ UNCHANGED <<fileVars, callVars, moved, paused, sent, objVars>>

(* There is nothing to send, and there will be nothing more. *)
EndOfUpload == finished /\ buffer = <<>>

(* The read callback: nothing yet pauses the transfer, nothing more ends   *)
(* it, and the remote side answers.                                        *)
Send ==
    /\ curl = "perform" /\ mode = "write" /\ ~paused
    /\ SlowConnect => moved \/ buffer # <<>> \/ finished
    /\ \/ /\ buffer = <<>> /\ ~finished
          /\ curl' = "pausing"
          /\ UNCHANGED <<main, buffer, sent, moved, res>>
       \/ /\ EndOfUpload
          /\ curl' = "ended" /\ res' = "ok"
          /\ UNCHANGED <<main, buffer, sent, moved>>
       \/ /\ buffer # <<>>
          /\ \E n \in 1 .. Smaller(ChunkMax, Len(buffer)) :
                /\ sent' = sent \o SubSeq(buffer, 1, n)
                /\ buffer' = Rest(buffer, n)
          /\ main' = WokenPush
          /\ moved' = TRUE
          /\ UNCHANGED <<curl, res>>
    /\ UNCHANGED <<fileVars, callVars, chunk, paused, pos, objVars>>

(* progress_callback: nothing at all before the first block has moved; a   *)
(* download that nobody wants any more is aborted; an upload is paused     *)
(* while there is nothing to send.                                         *)
Progress ==
    /\ curl = "perform" /\ moved
    /\ \/ /\ mode = "read" /\ finished
          /\ curl' = "ended" /\ res' = "fail"
       \/ /\ mode = "write" /\ ~paused /\ ~finished /\ buffer = <<>>
          /\ curl' = "pausing"
          /\ UNCHANGED res
       \/ /\ mode = "write" /\ paused /\ (finished \/ buffer # <<>>)
          /\ curl' = "resuming"
          /\ UNCHANGED res
    /\ UNCHANGED <<fileVars, main, callVars, chunk, moved, paused, pos, sent,
                   buffer, objVars>>

(* curl_easy_pause, without the mutex. *)
SetPause ==
    /\ curl \in {"pausing", "resuming"}
    /\ paused' = (curl = "pausing")
    /\ curl' = "perform"
    /\ UNCHANGED <<fileVars, main, callVars, chunk, moved, pos, sent, res,
                   buffer, objVars>>

(* curl_easy_perform returns. *)
Received ==
    /\ curl = "perform" /\ mode = "read" /\ pos = Size
    /\ curl' = "ended" /\ res' = "ok"
    /\ UNCHANGED <<fileVars, main, callVars, chunk, moved, paused, pos, sent,
                   buffer, objVars>>

NetworkFails ==
    /\ NetworkMayFail
    /\ curl = "perform" /\ ~paused
    /\ curl' = "ended" /\ res' = "fail"
    /\ UNCHANGED <<fileVars, main, callVars, chunk, moved, paused, pos, sent,
                   buffer, objVars>>

Failed == res # "ok"

ThreadEnds ==
    /\ curl = "ended"
    /\ finished' = TRUE
    /\ error' = Failed
    /\ main' = IF main = "push_wait" THEN WokenPush ELSE WokenPull
    /\ curl' = "exited"
    /\ UNCHANGED <<fileVars, callVars, curlVars, buffer>>

-----------------------------------------------------------------------------

Calls == (\E m \in {"read", "write"} : Open(m)) \/ (\E to \in 0 .. Size : Seek(to))
         \/ (\E len \in 1 .. CallMax : Read(len) \/ Write(len)) \/ Close

Main == Create \/ PullData \/ PushData \/ Cancel \/ Resume \/ Join

Curl == Receive \/ Deliver \/ Send \/ Progress \/ SetPause \/ Received
        \/ NetworkFails \/ ThreadEnds

Next == Calls \/ Main \/ Curl

Spec == Init /\ [][Next]_vars

(* Both threads run, the network goes on or fails, and curl calls its      *)
(* progress callback from time to time, also while it is paused.           *)
Fairness == WF_vars(Main) /\ WF_vars(Curl)

FairSpec == Spec /\ Fairness

-----------------------------------------------------------------------------

(* A read delivers the blocks at its position, whatever was buffered by    *)
(* the transfer of an earlier position.                                    *)
ReadsFile ==
    data = From(IF main \in {"pull", "pull_wait"} THEN off
                ELSE last_off - Len(data), Len(data))

(* A read is only cut short, or finds nothing, when its transfer failed:   *)
(* no interleaving of the end of the download and the wait for data makes  *)
(* the file look shorter than it is.                                       *)
ShortOnlyOnError ==
    [][main = "pull" /\ main' = "idle" /\ off' < off + Len(data) + want => error]_vars

(* Once a file was closed, and its upload did not fail, the remote side    *)
(* has every block that was written, in order.                             *)
UploadComplete ==
    [][mode = "write" /\ mode' = "closed" /\ curl = "exited" /\ res = "ok"
        => sent = From(0, off)]_vars

(* Every read, write and close returns. *)
CallsReturn == main # "idle" ~> main = "idle"
=============================================================================
