-------------------------- MODULE ThreadedTransfer --------------------------
(***************************************************************************)
(* thread::Transfer and thread::TransferPull of                            *)
(* source/threaded_file_transfer.cpp: a read, a decompress and a write     *)
(* thread joined by two ring buffers, and the calling thread ("main"),     *)
(* which waits for the cancel or the done event, or pulls the output       *)
(* itself, and then joins the workers.                                     *)
(*                                                                         *)
(* The unit of data is what one call of the read callback delivers: unit n *)
(* is the n-th such block, and a std::vector is the sequence of the units  *)
(* in it.  Offsets count units.  A worker blocked in condvarWait is a      *)
(* worker at stage "wait": every condition variable of the code has one    *)
(* possible waiter, so waking it moves that worker to "relock".            *)
(***************************************************************************)
EXTENDS RingBuf, Sequences

CONSTANTS
    Size,       (* write_size, the size the caller announced              *)
    Avail,      (* what the source really holds: beyond it rfunc reads 0  *)
    DFunc,      (* whether the caller passed a decompress callback        *)
    Kept,       (* the units dfunc passes on; the others vanish in it     *)
    FlushMax,   (* temp_buf_flush_max, in units                           *)
    Pull,       (* TransferPull: the caller consumes the output           *)
    MayFail,    (* the workers whose callback may return an error, and    *)
                (* "pull" when the consumer may stop early                *)
    MayCancel   (* whether the user may cancel the progress box           *)

Worker == {"read", "decompress", "write"}
Thread == Worker \cup {"main"}
Nobody == "nobody"

ASSUME TransferAssumption ==
    /\ Size \in Nat
    /\ Avail \in 0 .. Size
    /\ DFunc \in BOOLEAN
    /\ Kept \subseteq 1 .. Size
    /\ FlushMax \in Nat \ {0}
    /\ Pull \in BOOLEAN
    /\ MayFail \subseteq Worker \cup {"pull"}
    /\ MayCancel \in BOOLEAN

Unit   == 1 .. Size
Vector == Seq(Unit)

(* The functions that enter a monitor, and the mutex of each. *)
Call == {"SetDecompressBuf", "GetDecompressBuf", "SetWriteBuf",
         "GetWriteBuf", "SetPullBuf", "GetPullBuf"}

Mutex == {"read_mutex", "write_mutex", "pull_mutex"}

MutexOf == [c \in Call |->
    IF c \in {"SetDecompressBuf", "GetDecompressBuf"} THEN "read_mutex"
    ELSE IF c \in {"SetWriteBuf", "GetWriteBuf"} THEN "write_mutex"
    ELSE "pull_mutex"]

Location == Call \cup {"loop", "rfunc", "dfunc", "flush", "wfunc", "exit",
                       "report", "done", "waiting", "pull", "join",
                       "closing", "returned"}

Stage == {"out", "lock", "sleep", "wait", "relock", "inside"}

VARIABLES
    pc,                 (* where each thread is                           *)
    stage,              (* how far it is in the monitor call pc names     *)
    mutex,              (* the owner of each mutex                        *)
    read_buffers, write_buffers,
    buf,                (* the vector local to each worker                *)
    temp_buf,           (* decompressFuncInternal's second vector         *)
    pull_buffer,
    pull_partial,       (* pull_buffer_offset > 0                         *)
    read_offset, decompress_offset, write_offset,
    running,            (* read_running, decompress_running, write_running *)
    rc,                 (* what each worker's function returned           *)
    result,             (* read_result, ..., pull_result                  *)
    cancelled,          (* the progress box was told to stop              *)
    done,               (* m_uevent_done, never cleared                   *)
    output,             (* everything wfunc, or the consumer, was given   *)
    ret                 (* what TransferInternal returned                 *)

monitors == <<read_buffers, write_buffers, pull_buffer, pull_partial>>
offsets  == <<read_offset, decompress_offset, write_offset>>
outcome  == <<running, rc, result, done, ret>>
vars == <<pc, stage, mutex, buf, temp_buf, monitors, offsets, outcome,
          cancelled, output>>

Status == {"ok", "fail"}

TypeOK ==
    /\ pc \in [Thread -> Location]
    /\ stage \in [Thread -> Stage]
    /\ mutex \in [Mutex -> Thread \cup {Nobody}]
    /\ read_buffers \in Ring(Vector)
    /\ write_buffers \in Ring(Vector)
    /\ buf \in [Worker -> Vector]
    /\ temp_buf \in Vector
    /\ pull_buffer \in Vector
    /\ pull_partial \in BOOLEAN
    /\ read_offset \in 0 .. Size
    /\ decompress_offset \in Nat
    /\ write_offset \in Nat
    /\ running \in [Worker -> BOOLEAN]
    /\ rc \in [Worker -> Status]
    /\ result \in [Worker \cup {"pull"} -> Status]
    /\ cancelled \in BOOLEAN
    /\ done \in BOOLEAN
    /\ output \in Vector
    /\ ret \in Status \cup {"none"}

Init ==
    /\ pc = [t \in Thread |->
                IF t = "main" THEN IF Pull THEN "pull" ELSE "waiting"
                ELSE "loop"]
    /\ stage = [t \in Thread |-> "out"]
    /\ mutex = [m \in Mutex |-> Nobody]
    /\ read_buffers = EmptyRing(<<>>)
    /\ write_buffers = EmptyRing(<<>>)
    /\ buf = [t \in Worker |-> <<>>]
    /\ temp_buf = <<>>
    /\ pull_buffer = <<>>
    /\ pull_partial = FALSE
    /\ read_offset = 0
    /\ decompress_offset = 0
    /\ write_offset = 0
    /\ running = [t \in Worker |-> TRUE]
    /\ rc = [t \in Worker |-> "ok"]
    /\ result = [t \in Worker \cup {"pull"} |-> "ok"]
    /\ cancelled = FALSE
    /\ done = FALSE
    /\ output = <<>>
    /\ ret = "none"

(* Mutant: a cancelled progress box is not looked at. *)
ResultsWithoutCancel == \A t \in DOMAIN result : result[t] = "ok"

(* GetResults(): the progress box first, then the four stored results. *)
GetResults == ~cancelled /\ \A t \in DOMAIN result : result[t] = "ok"

(* Mutant: SetPullBuf does not wait for the consumer. *)
NotReadyButForPull(c) ==
    \/ c = "SetDecompressBuf" /\ ringbuf_free(read_buffers) = 0
    \/ c = "GetDecompressBuf" /\ ringbuf_size(read_buffers) = 0
    \/ c = "SetWriteBuf"      /\ ringbuf_free(write_buffers) = 0
    \/ c = "GetWriteBuf"      /\ ringbuf_size(write_buffers) = 0
    \/ c = "GetPullBuf"       /\ pull_buffer = <<>>

-----------------------------------------------------------------------------
(***************************************************************************)
(* Entering a monitor.  Every Get and Set function has the same shape:     *)
(* lock; if the ring is not ready, either return at once because the other *)
(* side has stopped, or wait ONCE; then GetResults; then push or pop.      *)
(***************************************************************************)

NotReady(c) ==
    \/ c = "SetDecompressBuf" /\ ringbuf_free(read_buffers) = 0
    \/ c = "GetDecompressBuf" /\ ringbuf_size(read_buffers) = 0
    \/ c = "SetWriteBuf"      /\ ringbuf_free(write_buffers) = 0
    \/ c = "GetWriteBuf"      /\ ringbuf_size(write_buffers) = 0
    \/ c = "SetPullBuf"       /\ pull_buffer # <<>>
    \/ c = "GetPullBuf"       /\ pull_buffer = <<>>

(* The flag each function tests before it waits.  SetWriteBuf tests the    *)
(* flag of the thread that is calling it, which is still set.              *)
OtherSideStopped(c) ==
    \/ c = "SetDecompressBuf" /\ ~running["write"]
    \/ c = "GetDecompressBuf" /\ ~running["read"]
    \/ c \in {"SetWriteBuf", "GetWriteBuf"} /\ ~running["decompress"]

(* Where a thread goes when the function returns success without having    *)
(* moved any data: a Get leaves an empty vector, which ends the loop.      *)
AfterEarlyReturn == [c \in Call |->
    IF c = "GetDecompressBuf" THEN "flush"
    ELSE IF c = "GetWriteBuf" THEN "exit" ELSE "loop"]

Goto(t, l) == /\ pc' = [pc EXCEPT ![t] = l]
              /\ stage' = [stage EXCEPT ![t] = IF l \in Call THEN "lock" ELSE "out"]

(* Mutant: the mutex is not taken. *)
LockNothing(t) ==
    /\ stage[t] = "lock"
    /\ stage' = [stage EXCEPT ![t] = IF NotReady(pc[t]) THEN "sleep" ELSE "inside"]
    /\ UNCHANGED <<pc, mutex, buf, temp_buf, monitors, offsets, outcome, cancelled,
                   output>>

LockMutex(t) ==
    /\ stage[t] = "lock"
    /\ mutex[MutexOf[pc[t]]] = Nobody
    /\ mutex' = [mutex EXCEPT ![MutexOf[pc[t]]] = t]
    /\ \/ /\ ~NotReady(pc[t])
          /\ stage' = [stage EXCEPT ![t] = "inside"]
          /\ UNCHANGED <<pc, buf>>
       \/ /\ NotReady(pc[t])
          /\ ~OtherSideStopped(pc[t])
          /\ stage' = [stage EXCEPT ![t] = "sleep"]
          /\ UNCHANGED <<pc, buf>>
       \/ \* the scope guard is not armed yet: the mutex stays locked
          /\ NotReady(pc[t])
          /\ OtherSideStopped(pc[t])
          /\ Goto(t, AfterEarlyReturn[pc[t]])
          /\ buf' = IF pc[t] \in {"GetDecompressBuf", "GetWriteBuf"}
                    THEN [buf EXCEPT ![t] = <<>>] ELSE buf
    /\ UNCHANGED <<temp_buf, monitors, offsets, outcome, cancelled, output>>

(* condvarWait releases the mutex and starts waiting in one step ... *)
CondvarWait(t) ==
    /\ stage[t] = "sleep"
    /\ stage' = [stage EXCEPT ![t] = "wait"]
    /\ mutex' = [mutex EXCEPT ![MutexOf[pc[t]]] = Nobody]
    /\ UNCHANGED <<pc, buf, temp_buf, monitors, offsets, outcome, cancelled,
                   output>>

(* ... and returns with the mutex; the ring is not looked at again. *)
Relock(t) ==
    /\ stage[t] = "relock"
    /\ mutex[MutexOf[pc[t]]] = Nobody
    /\ mutex' = [mutex EXCEPT ![MutexOf[pc[t]]] = t]
    /\ stage' = [stage EXCEPT ![t] = "inside"]
    /\ UNCHANGED <<pc, buf, temp_buf, monitors, offsets, outcome, cancelled,
                   output>>

(* condvarWakeOne on the condition variable that t waits on inside c. *)
WakeOne(s, t, c) ==
    IF pc[t] = c /\ s[t] = "wait" THEN [s EXCEPT ![t] = "relock"] ELSE s

Release(c) == mutex' = [mutex EXCEPT ![MutexOf[c]] = Nobody]

(* R_TRY(GetResults()) with the mutex held: the function returns the error. *)
GiveUp(t) ==
    /\ t \in Worker
    /\ stage[t] = "inside"
    /\ ~GetResults
    /\ Release(pc[t])
    /\ Goto(t, "exit")
    /\ rc' = [rc EXCEPT ![t] = "fail"]
    /\ UNCHANGED <<buf, temp_buf, monitors, offsets, running, result, done,
                   ret, cancelled, output>>

(* The worker t, still holding the mutex of c, leaves c with success: it   *)
(* wakes u, which may be waiting inside d, unlocks, and goes on at l.      *)
Leave(t, c, u, d, l) ==
    /\ pc[t] = c /\ stage[t] = "inside" /\ GetResults
    /\ Release(c)
    /\ pc' = [pc EXCEPT ![t] = l]
    /\ stage' = WakeOne([stage EXCEPT ![t] =
                            IF l \in Call THEN "lock" ELSE "out"], u, d)

(* Mutant: the last block is not read. *)
ReadLoopShort ==
    /\ pc["read"] = "loop"
    /\ Goto("read", IF read_offset + 1 < Size /\ GetResults
                    THEN "rfunc" ELSE "exit")
    /\ UNCHANGED <<mutex, buf, temp_buf, monitors, offsets, outcome, cancelled,
                   output>>

-----------------------------------------------------------------------------
(* The read thread: readFuncInternal *)

ReadLoop ==
    /\ pc["read"] = "loop"
    /\ Goto("read", IF read_offset < Size /\ GetResults THEN "rfunc" ELSE "exit")
    /\ UNCHANGED <<mutex, buf, temp_buf, monitors, offsets, outcome, cancelled,
                   output>>

(* Read(): the callback delivers the next unit, reports the end of the     *)
(* source by reading nothing, or fails.                                    *)
ReadData ==
    /\ pc["read"] = "rfunc"
    /\ \/ /\ read_offset < Avail
          /\ read_offset' = read_offset + 1
          /\ buf' = [buf EXCEPT !["read"] = <<read_offset + 1>>]
          /\ Goto("read", "SetDecompressBuf")
          /\ UNCHANGED rc
       \/ /\ read_offset = Avail
          /\ Goto("read", "exit")
          /\ UNCHANGED <<read_offset, buf, rc>>
       \/ /\ "read" \in MayFail
          /\ Goto("read", "exit")
          /\ rc' = [rc EXCEPT !["read"] = "fail"]
          /\ UNCHANGED <<read_offset, buf>>
    /\ UNCHANGED <<mutex, temp_buf, monitors, decompress_offset, write_offset,
                   running, result, done, ret, cancelled, output>>

SetDecompressBuf ==
    /\ Leave("read", "SetDecompressBuf", "decompress", "GetDecompressBuf", "loop")
    /\ read_buffers' = ringbuf_push(read_buffers, buf["read"])
    /\ buf' = [buf EXCEPT !["read"] = PushTakes(read_buffers)]
    /\ UNCHANGED <<temp_buf, write_buffers, pull_buffer, pull_partial,
                   offsets, outcome, cancelled, output>>

-----------------------------------------------------------------------------
(* The decompress thread: decompressFuncInternal *)

DecompressLoop ==
    /\ pc["decompress"] = "loop"
    /\ Goto("decompress", IF decompress_offset < Size /\ GetResults
                          THEN "GetDecompressBuf" ELSE "flush")
    /\ UNCHANGED <<mutex, buf, temp_buf, monitors, offsets, outcome, cancelled,
                   output>>

(* An empty vector ends the loop; without dfunc the offset moves on before *)
(* the vector is handed over.                                              *)
GetDecompressBuf ==
    LET v == PopTakes(read_buffers) IN
    /\ Leave("decompress", "GetDecompressBuf", "read", "SetDecompressBuf",
             IF v = <<>> THEN "flush" ELSE IF DFunc THEN "dfunc" ELSE "SetWriteBuf")
    /\ read_buffers' = ringbuf_pop(read_buffers, buf["decompress"])
    /\ buf' = [buf EXCEPT !["decompress"] = v]
    /\ decompress_offset' = decompress_offset + (IF DFunc THEN 0 ELSE Len(v))
    /\ UNCHANGED <<temp_buf, write_buffers, pull_buffer, pull_partial,
                   read_offset, write_offset, outcome, cancelled, output>>

(* dfunc on a unit: it keeps the unit to itself, or passes it on, into     *)
(* temp_buf, which is handed over when it is full; or it fails.            *)
Decompress ==
    LET u    == Head(buf["decompress"])
        full == Len(temp_buf) + 1 = FlushMax
    IN
    /\ pc["decompress"] = "dfunc"
    /\ \/ /\ u \in Kept
          /\ temp_buf' = Append(temp_buf, u)
          /\ decompress_offset' = decompress_offset + 1
          /\ Goto("decompress", IF full THEN "SetWriteBuf" ELSE "loop")
          /\ UNCHANGED rc
       \/ /\ u \notin Kept
          /\ Goto("decompress", "loop")
          /\ UNCHANGED <<temp_buf, decompress_offset, rc>>
       \/ /\ "decompress" \in MayFail
          /\ Goto("decompress", "exit")
          /\ rc' = [rc EXCEPT !["decompress"] = "fail"]
          /\ UNCHANGED <<temp_buf, decompress_offset>>
    /\ UNCHANGED <<mutex, buf, monitors, read_offset, write_offset, running,
                   result, done, ret, cancelled, output>>

(* After the loop what is left in temp_buf is handed over as well. *)
Flush ==
    /\ pc["decompress"] = "flush"
    /\ Goto("decompress", IF temp_buf = <<>> THEN "exit" ELSE "SetWriteBuf")
    /\ UNCHANGED <<mutex, buf, temp_buf, monitors, offsets, outcome, cancelled,
                   output>>

(* temp_buf is emptied after the swap; a temp_buf that was not full was    *)
(* the last one.                                                           *)
SetWriteBuf ==
    /\ Leave("decompress", "SetWriteBuf", "write", "GetWriteBuf",
             IF DFunc /\ Len(temp_buf) < FlushMax THEN "exit" ELSE "loop")
    /\ IF DFunc
       THEN /\ write_buffers' = ringbuf_push(write_buffers, temp_buf)
            /\ temp_buf' = <<>>
            /\ UNCHANGED buf
       ELSE /\ write_buffers' = ringbuf_push(write_buffers, buf["decompress"])
            /\ buf' = [buf EXCEPT !["decompress"] = PushTakes(write_buffers)]
            /\ UNCHANGED temp_buf
    /\ UNCHANGED <<read_buffers, pull_buffer, pull_partial, offsets, outcome,
                   cancelled, output>>

-----------------------------------------------------------------------------
(* The write thread: writeFuncInternal *)

WriteLoop ==
    /\ pc["write"] = "loop"
    /\ Goto("write", IF write_offset < Size /\ GetResults
                     THEN "GetWriteBuf" ELSE "exit")
    /\ UNCHANGED <<mutex, buf, temp_buf, monitors, offsets, outcome, cancelled,
                   output>>

GetWriteBuf ==
    LET v == PopTakes(write_buffers) IN
    /\ Leave("write", "GetWriteBuf", "decompress", "SetWriteBuf",
             IF v = <<>> THEN "exit" ELSE IF Pull THEN "SetPullBuf" ELSE "wfunc")
    /\ write_buffers' = ringbuf_pop(write_buffers, buf["write"])
    /\ buf' = [buf EXCEPT !["write"] = v]
    /\ UNCHANGED <<temp_buf, read_buffers, pull_buffer, pull_partial, offsets,
                   outcome, cancelled, output>>

WriteData ==
    /\ pc["write"] = "wfunc"
    /\ \/ /\ output' = output \o buf["write"]
          /\ write_offset' = write_offset + Len(buf["write"])
          /\ Goto("write", "loop")
          /\ UNCHANGED rc
       \/ /\ "write" \in MayFail
          /\ Goto("write", "exit")
          /\ rc' = [rc EXCEPT !["write"] = "fail"]
          /\ UNCHANGED <<output, write_offset>>
    /\ UNCHANGED <<mutex, buf, temp_buf, monitors, read_offset,
                   decompress_offset, running, result, done, ret, cancelled>>

SetPullBuf ==
    /\ Leave("write", "SetPullBuf", "main", "GetPullBuf", "loop")
    /\ pull_buffer' = buf["write"]
    /\ buf' = [buf EXCEPT !["write"] = pull_buffer]
    /\ write_offset' = write_offset + Len(buf["write"])
    /\ UNCHANGED <<temp_buf, read_buffers, write_buffers, pull_partial,
                   read_offset, decompress_offset, outcome, cancelled, output>>

-----------------------------------------------------------------------------
(* The end of a worker.  The scope guard of its function clears its flag   *)
(* before its caller stores the result the function returned.              *)

Exit(t) ==
    /\ pc[t] = "exit"
    /\ Goto(t, "report")
    /\ running' = [running EXCEPT ![t] = FALSE]
    /\ UNCHANGED <<mutex, buf, temp_buf, monitors, offsets, rc, result, done,
                   ret, cancelled, output>>

(* Mutant: the event is signalled, but the result is not stored. *)
ReportWithoutResult(t) ==
    /\ t \in Worker
    /\ pc[t] = "report"
    /\ Goto(t, "done")
    /\ done' = (done \/ t = "write" \/ rc[t] = "fail")
    /\ UNCHANGED <<mutex, buf, temp_buf, monitors, offsets, running, rc, result,
                   ret, cancelled, output>>

(* SetReadResult, SetDecompressResult, SetWriteResult: the last one        *)
(* signals the done event whatever the result.                             *)
Report(t) ==
    /\ t \in Worker
    /\ pc[t] = "report"
    /\ pc' = [pc EXCEPT ![t] = "done"]
    /\ result' = [result EXCEPT ![t] = rc[t]]
    /\ stage' = IF t = "read" THEN WakeOne(stage, "decompress", "GetDecompressBuf")
                ELSE IF t = "decompress" THEN WakeOne(stage, "write", "GetWriteBuf")
                ELSE WakeOne(stage, "decompress", "SetWriteBuf")
    /\ done' = (done \/ t = "write" \/ rc[t] = "fail")
    /\ UNCHANGED <<mutex, buf, temp_buf, monitors, offsets, running, rc, ret,
                   cancelled, output>>

-----------------------------------------------------------------------------
(* The calling thread: TransferInternal *)

(* waitMulti: the progress event only redraws the bar and waits again. *)
WaitForEvent ==
    /\ pc["main"] = "waiting"
    /\ cancelled \/ done
    /\ Goto("main", "join")
    /\ UNCHANGED <<mutex, buf, temp_buf, monitors, offsets, outcome, cancelled,
                   output>>

(* The consumer: the pull callback starts with GetResults.  It asks for no *)
(* more than Size and may be told to stop before that.                     *)
PullStart ==
    /\ pc["main"] = "pull"
    /\ GetResults
    /\ Len(output) < Size
    /\ Goto("main", "GetPullBuf")
    /\ UNCHANGED <<mutex, buf, temp_buf, monitors, offsets, outcome, cancelled,
                   output>>

(* The consumer asks for less than the buffer holds, or for the rest. *)
GetPullBuf ==
    /\ Leave("main", "GetPullBuf", "write", "SetPullBuf", "pull")
    /\ output' = output \o pull_buffer
    /\ pull_buffer' = <<>>
    /\ pull_partial' = FALSE
    /\ UNCHANGED <<buf, temp_buf, read_buffers, write_buffers, offsets, outcome,
                   cancelled>>

GetPullBufPart ==
    /\ pc["main"] = "GetPullBuf" /\ stage["main"] = "inside" /\ GetResults
    /\ ~pull_partial
    /\ pull_partial' = TRUE
    /\ Release("GetPullBuf")
    /\ Goto("main", "pull")
    /\ UNCHANGED <<buf, temp_buf, read_buffers, write_buffers, pull_buffer,
                   offsets, outcome, cancelled, output>>

(* sfunc returns: SetPullResult. *)
PullEnd(r) ==
    /\ \/ /\ pc["main"] = "pull"
          /\ \/ ~GetResults /\ r = "fail"
             \/ Len(output) = Size /\ r = "ok"
             \/ "pull" \in MayFail
          /\ UNCHANGED mutex
       \/ /\ pc["main"] = "GetPullBuf" /\ stage["main"] = "inside"
          /\ ~GetResults /\ r = "fail"
          /\ Release("GetPullBuf")
    /\ Goto("main", "join")
    /\ result' = [result EXCEPT !["pull"] = r]
    /\ done' = (done \/ r = "fail")
    /\ UNCHANGED <<buf, temp_buf, monitors, offsets, running, rc, ret,
                   cancelled, output>>

(* Mutants: the mutexes are released but nobody is woken; the condition    *)
(* variables of the pull buffer are left out.                              *)
UnlockOnly ==
    /\ pc["main"] = "join"
    /\ \E t \in Worker : running[t]
    /\ mutex' = [m \in Mutex |-> Nobody]
    /\ UNCHANGED <<pc, stage, buf, temp_buf, monitors, offsets, outcome,
                   cancelled, output>>

WakeAllButPull ==
    /\ pc["main"] = "join"
    /\ \E t \in Worker : running[t]
    /\ stage' = [t \in Thread |-> IF stage[t] = "wait" /\ pc[t] # "SetPullBuf"
                                  THEN "relock" ELSE stage[t]]
    /\ mutex' = [m \in Mutex |-> Nobody]
    /\ UNCHANGED <<pc, buf, temp_buf, monitors, offsets, outcome, cancelled,
                   output>>

(* The join loop, while a running flag is set: WakeAllThreads, whose       *)
(* mutexUnlock calls release the mutexes whoever holds them.               *)
WakeAllThreads ==
    /\ pc["main"] = "join"
    /\ \E t \in Worker : running[t]
    /\ stage' = [t \in Thread |-> IF stage[t] = "wait" THEN "relock" ELSE stage[t]]
    /\ mutex' = [m \in Mutex |-> Nobody]
    /\ UNCHANGED <<pc, buf, temp_buf, monitors, offsets, outcome, cancelled,
                   output>>

(* The loop ends: the value to return is computed ... *)
Results ==
    /\ pc["main"] = "join"
    /\ \A t \in Worker : ~running[t]
    /\ ret' = IF GetResults THEN "ok" ELSE "fail"
    /\ Goto("main", "closing")
    /\ UNCHANGED <<mutex, buf, temp_buf, monitors, offsets, running, rc, result,
                   done, cancelled, output>>

(* ... and returned once the scope guards have seen every thread exit. *)
Return ==
    /\ pc["main"] = "closing"
    /\ \A t \in Worker : pc[t] = "done"
    /\ Goto("main", "returned")
    /\ UNCHANGED <<mutex, buf, temp_buf, monitors, offsets, outcome, cancelled,
                   output>>

(* RequestExit of the progress box, from the UI thread. *)
Cancel ==
    /\ MayCancel
    /\ ~cancelled
    /\ pc["main"] # "returned"
    /\ cancelled' = TRUE
    /\ UNCHANGED <<pc, stage, mutex, buf, temp_buf, monitors, offsets, outcome,
                   output>>

Finished == pc["main"] = "returned" /\ UNCHANGED vars

-----------------------------------------------------------------------------

Monitor(t) == LockMutex(t) \/ CondvarWait(t) \/ Relock(t) \/ GiveUp(t)

End(t) == Exit(t) \/ Report(t)

Reader == ReadLoop \/ ReadData \/ SetDecompressBuf

Decompressor == DecompressLoop \/ GetDecompressBuf \/ Decompress \/ Flush
                \/ SetWriteBuf

Writer == WriteLoop \/ GetWriteBuf \/ WriteData \/ SetPullBuf

Main == WaitForEvent \/ PullStart \/ GetPullBuf \/ GetPullBufPart
        \/ (\E r \in Status : PullEnd(r)) \/ WakeAllThreads \/ Results \/ Return

Next ==
    \/ \E t \in Thread : Monitor(t)
    \/ \E t \in Worker : End(t)
    \/ Reader \/ Decompressor \/ Writer \/ Main
    \/ Cancel \/ Finished

Spec == Init /\ [][Next]_vars

(* Every thread is scheduled as long as it can run, and a callback that    *)
(* was called returns.  Nothing obliges the user to cancel.                *)
Fairness ==
    /\ \A t \in Thread : WF_vars(Monitor(t))
    /\ \A t \in Worker : WF_vars(End(t))
    /\ WF_vars(Reader) /\ WF_vars(Decompressor) /\ WF_vars(Writer)
    /\ WF_vars(Main)

FairSpec == Spec /\ Fairness

-----------------------------------------------------------------------------
(* What the caller may rely on *)

Passes(n) == ~DFunc \/ n \in Kept

Last(i) == IF i = 1 THEN 0 ELSE output[i - 1]

(* What is written is the source, in order: no block comes twice or too    *)
(* early, and none that the decompressor passes on is skipped, however the *)
(* threads interleave and whatever is cancelled on the way.                *)
InOrder ==
    \A i \in DOMAIN output :
        /\ Last(i) < output[i]
        /\ \A n \in Last(i) + 1 .. output[i] - 1 : ~Passes(n)

(* Success is returned only when every block of the source was written. *)
SuccessIsComplete ==
    pc["main"] = "returned" /\ ret = "ok" =>
        \A n \in 1 .. Avail : Passes(n) => \E i \in DOMAIN output : output[i] = n

(* When a worker's function returned an error, so does the transfer: the   *)
(* caller is not told of success by GetResults running before the worker   *)
(* has stored what it returned.                                            *)
ErrorIsReported ==
    pc["main"] = "returned" /\ (\E t \in Worker : rc[t] = "fail") => ret = "fail"

(* As long as the caller only waits, the mutex of a monitor is owned by    *)
(* the one thread that works inside it; WakeAllThreads unlocks mutexes it  *)
(* does not own, so nothing of the kind holds once the join loop runs.     *)
MutualExclusion ==
    pc["main"] \notin {"join", "closing", "returned"} =>
        \A t \in Thread : stage[t] \in {"sleep", "inside"} =>
                             mutex[MutexOf[pc[t]]] = t

(* The call returns: no interleaving of the waits, the wake-ups that are   *)
(* sent without the mutex and the flags leaves a thread asleep for good.   *)
Termination == <>(pc["main"] = "returned")

(* Cancelling the progress box always ends the transfer, also one whose    *)
(* workers all sleep: the join loop repeats WakeAllThreads until they end. *)
CancelEnds == cancelled ~> (pc["main"] = "returned")

(* Nothing is written after the call has returned, and until then only the *)
(* next block is: the transfer implements the copy its callers rely on.    *)
Copy == INSTANCE OrderedCopy
            WITH Total <- Size,
                 ret <- IF pc["main"] = "returned" THEN ret ELSE "none"

ImplementsCopy == Copy!CopySpec
=============================================================================
