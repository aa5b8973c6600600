---------------------------- MODULE DownloadQueue ----------------------------
(***************************************************************************)
(* Asynchronous downloads: the request queue, its thread and the workers   *)
(* of source/download.cpp, the event list of source/evman.cpp that takes   *)
(* the results back, and the main thread of source/app.cpp that makes the  *)
(* requests, calls the callbacks and shuts all of it down.                 *)
(*                                                                         *)
(* A request stands for an Api with its callback and stop token.  What a   *)
(* worker does with a request is one step ("run"); FileDownload is about   *)
(* that.  A UEvent is a flag that a wait clears.                           *)
(***************************************************************************)
EXTENDS Naturals, Sequences, FiniteSets, SequencesExt

CONSTANTS
    NumWorkers,      (* MAX_THREADS                                        *)
    Requests,        (* what the menus may ask for                         *)
    HighPriority,    (* the requests that go to the front of the queue     *)
    MayStop,         (* the requests whose owner may go first              *)
    QuitAfter,       (* bound: a program is launched once so many requests *)
                     (* were made                                          *)
    NotCreated       (* workers whose Create failed                        *)

Worker == 1 .. NumWorkers

ASSUME DownloadQueueAssumption ==
    /\ NumWorkers \in Nat \ {0}
    /\ HighPriority \subseteq Requests /\ MayStop \subseteq Requests
    /\ NotCreated \subseteq Worker
    /\ QuitAfter \in Nat
    /\ "launch" \notin Requests /\ "none" \notin Requests

VARIABLES
    g_running,
    m_entries,       (* ThreadQueue: requests that wait for a worker       *)
    taken,           (* how many of them this scan has given to workers    *)
    slot,            (* the worker the scan looks at                       *)
    queue_event, queue,          (* m_uevent and place of the queue thread *)
    m_api, m_in_progress,        (* of each worker                         *)
    thread_event, worker,        (* m_uevent and place of each worker      *)
    result,          (* the request whose download a worker has performed  *)
    events,          (* evman: LaunchNroEventData and DownloadEventData    *)
    main,            (* where the main thread is                           *)
    asked,           (* requests made                                      *)
    stopped,         (* requests whose stop token was triggered            *)
    answers,         (* calls of each request's callback                   *)
    freed            (* curl handles that were cleaned up; 0 is the share  *)

queueVars  == <<m_entries, taken, slot, queue>>
workerVars == <<m_api, worker, result>>
mainVars   == <<main, asked, stopped, answers, freed>>
vars == <<g_running, queueVars, queue_event, m_in_progress, thread_event,
          workerVars, events, mainVars>>

MainPc == {"loop", "quit", "signal", "widgets", "join_queue",
           "join_workers", "cleanup", "gone"}

Event == [kind : {"download"}, callback : Requests, result : Requests]
         \cup {[kind |-> "launch"]}

TypeOK ==
    /\ g_running \in BOOLEAN
    /\ m_entries \in Seq(Requests)
    /\ taken \in 0 .. Len(m_entries)
    /\ slot \in 1 .. NumWorkers + 1
    /\ queue_event \in BOOLEAN
    /\ queue \in {"wait", "lock", "scan", "erase", "exited"}
    /\ m_api \in [Worker -> Requests \cup {"none"}]
    /\ m_in_progress \in [Worker -> BOOLEAN]
    /\ thread_event \in [Worker -> BOOLEAN]
    /\ worker \in [Worker -> {"wait", "run", "answer", "push", "clear",
                              "signal", "exited"}]
    /\ result \in [Worker -> Requests \cup {"none"}]
    /\ events \in Seq(Event)
    /\ main \in MainPc
    /\ asked \subseteq Requests
    /\ stopped \subseteq Requests
    /\ answers \in [Requests -> Nat]
    /\ freed \subseteq 0 .. NumWorkers

Init ==
    /\ g_running = TRUE
    /\ m_entries = <<>> /\ taken = 0 /\ slot = 1
    /\ queue_event = FALSE /\ queue = "wait"
    /\ m_api = [w \in Worker |-> "none"]
    /\ m_in_progress = [w \in Worker |-> FALSE]
    /\ thread_event = [w \in Worker |-> FALSE]
    /\ worker = [w \in Worker |->
                    IF w \in NotCreated THEN "exited" ELSE "wait"]
    /\ result = [w \in Worker |-> "none"]
    /\ events = <<>>
    /\ main = "loop" /\ asked = {} /\ stopped = {}
    /\ answers = [r \in Requests |-> 0]
    /\ freed = {}

(* m_mutex of the queue, which the scan holds from beginning to end *)
QueueFree == queue \notin {"scan", "erase"}

-----------------------------------------------------------------------------
(* The main thread: requests, and the event loop of App::Loop *)

(* m_quit ends the loop after the frame it was set in. *)
InLoop == main \in {"loop", "quit"}

(* ThreadQueue::Add *)
Queued(r) == IF r \in HighPriority THEN <<r>> \o m_entries
             ELSE Append(m_entries, r)

Add(r) ==
    /\ InLoop /\ QueueFree
    /\ r \notin asked
    /\ asked' = asked \cup {r}
    /\ m_entries' = Queued(r)
    /\ queue_event' = TRUE
    /\ UNCHANGED <<g_running, taken, slot, queue, m_in_progress, thread_event,
                   workerVars, events, main, stopped, answers, freed>>

(* The widget that made the request is popped, and its stop source goes    *)
(* with it.                                                                *)
Stop(r) ==
    /\ InLoop
    /\ r \in (asked \cap MayStop) \ stopped
    /\ stopped' = stopped \cup {r}
    /\ UNCHANGED <<g_running, queueVars, queue_event, m_in_progress,
                   thread_event, workerVars, events, main, asked, answers,
                   freed>>

(* nro_launch; in the last frame it would change nothing any more.  This   *)
(* evman::push replaces a launch that still waits, so there is never more  *)
(* than one.                                                               *)
Launch ==
    /\ main = "loop"
    /\ Cardinality(asked) >= QuitAfter
    /\ \/ /\ \A i \in DOMAIN events : events[i].kind # "launch"
          /\ events' = Append(events, [kind |-> "launch"])
       \/ \E i \in DOMAIN events :
            /\ events[i].kind = "launch"
            /\ events' = Append(RemoveAt(events, i), [kind |-> "launch"])
    /\ UNCHANGED <<g_running, queueVars, queue_event, m_in_progress,
                   thread_event, workerVars, mainVars>>

(* Mutant: the token is not looked at again. *)
CallbackAnyway(r) == TRUE

MayCall(r) == r \notin stopped

(* One event of the main loop: the callback of a download, unless its      *)
(* owner has gone; a launch quits.                                         *)
Pop ==
    /\ InLoop
    /\ events # <<>>
    /\ events' = Tail(events)
    /\ LET e == Head(events) IN
         \/ /\ e.kind = "launch"
            /\ main' = "quit"
            /\ UNCHANGED answers
         \/ /\ e.kind = "download"
            /\ answers' = IF MayCall(e.callback)
                          THEN [answers EXCEPT ![e.callback] = @ + 1]
                          ELSE answers
            /\ UNCHANGED main
    /\ UNCHANGED <<g_running, queueVars, queue_event, m_in_progress,
                   thread_event, workerVars, asked, stopped, freed>>

-----------------------------------------------------------------------------
(* The main thread: App::~App *)

(* curl::ExitSignal, the flag and then the events *)
ExitFlag ==
    /\ main = "quit"
    /\ g_running' = FALSE
    /\ main' = "signal"
    /\ UNCHANGED <<queueVars, queue_event, m_in_progress, thread_event,
                   workerVars, events, asked, stopped, answers, freed>>

(* Mutant: the queue thread is forgotten. *)
SignalWorkers ==
    /\ thread_event' = [w \in Worker |-> TRUE]
    /\ UNCHANGED queue_event

SignalAll ==
    /\ queue_event' = TRUE
    /\ thread_event' = [w \in Worker |-> TRUE]

ExitSignal ==
    /\ main = "signal"
    /\ SignalAll
    /\ main' = "widgets"
    /\ UNCHANGED <<g_running, queueVars, m_in_progress, workerVars, events,
                   asked, stopped, answers, freed>>

(* The widgets are destroyed, their stop tokens with them; then curl::Exit *)
(* signals once more.  It joins the queue thread, and each worker before   *)
(* it frees the worker's handle; the share goes last.                      *)
PopWidgets ==
    /\ main = "widgets"
    /\ stopped' = asked
    /\ SignalAll
    /\ main' = "join_queue"
    /\ UNCHANGED <<g_running, queueVars, m_in_progress, workerVars, events,
                   asked, answers, freed>>

CloseQueue ==
    /\ main = "join_queue" /\ queue = "exited"
    /\ main' = "join_workers"
    /\ UNCHANGED <<g_running, queueVars, queue_event, m_in_progress,
                   thread_event, workerVars, events, asked, stopped, answers,
                   freed>>

(* Mutant: the handle goes without waiting for the thread. *)
DoNotWait(w) == TRUE

Joined(w) == worker[w] = "exited"

CloseWorker(w) ==
    /\ main = "join_workers"
    /\ w \notin freed /\ \A v \in 1 .. w - 1 : v \in freed
    /\ Joined(w)
    /\ freed' = freed \cup {w}
    /\ main' = IF w = NumWorkers THEN "cleanup" ELSE "join_workers"
    /\ UNCHANGED <<g_running, queueVars, queue_event, m_in_progress,
                   thread_event, workerVars, events, asked, stopped, answers>>

Cleanup ==
    /\ main = "cleanup"
    /\ freed' = freed \cup {0}
    /\ main' = "gone"
    /\ UNCHANGED <<g_running, queueVars, queue_event, m_in_progress,
                   thread_event, workerVars, events, asked, stopped, answers>>

-----------------------------------------------------------------------------
(* The queue thread *)

Wake ==
    /\ queue = "wait" /\ queue_event
    /\ queue_event' = FALSE
    /\ queue' = IF g_running THEN "lock" ELSE "exited"
    /\ UNCHANGED <<g_running, m_entries, taken, slot, m_in_progress,
                   thread_event, workerVars, events, mainVars>>

(* The head of the loop, after a round *)
NextRound == queue' = IF g_running THEN "wait" ELSE "exited"

Lock ==
    /\ queue = "lock"
    /\ IF m_entries = <<>> THEN NextRound ELSE queue' = "scan"
    /\ taken' = 0 /\ slot' = 1
    /\ UNCHANGED <<g_running, m_entries, queue_event, m_in_progress,
                   thread_event, workerVars, events, mainVars>>

(* ThreadEntry::Setup *)
Setup(w, r) ==
    /\ m_api' = [m_api EXCEPT ![w] = r]
    /\ m_in_progress' = [m_in_progress EXCEPT ![w] = TRUE]
    /\ thread_event' = [thread_event EXCEPT ![w] = TRUE]

(* One test of the scan: entry taken + 1 and worker slot.  The first free  *)
(* worker gets it; the scan ends when there is none, or no entry is left,  *)
(* or at once when the program quits.                                      *)
Scan ==
    /\ queue = "scan"
    /\ \/ /\ ~g_running
          /\ queue' = "exited"
          /\ UNCHANGED <<taken, slot, m_api, m_in_progress, thread_event>>
       \/ /\ g_running /\ m_in_progress[slot]
          /\ slot' = slot + 1
          /\ queue' = IF slot = NumWorkers THEN "erase" ELSE "scan"
          /\ UNCHANGED <<taken, m_api, m_in_progress, thread_event>>
       \/ /\ g_running /\ ~m_in_progress[slot]
          /\ Setup(slot, m_entries[taken + 1])
          /\ taken' = taken + 1
          /\ slot' = 1
          /\ queue' = IF taken + 1 = Len(m_entries) THEN "erase" ELSE "scan"
    /\ UNCHANGED <<g_running, m_entries, queue_event, worker, result, events,
                   mainVars>>

(* Mutant: all entries are erased. *)
EraseAll == <<>>

Remaining == SubSeq(m_entries, taken + 1, Len(m_entries))

Erase ==
    /\ queue = "erase"
    /\ m_entries' = Remaining
    /\ taken' = 0
    /\ NextRound
    /\ UNCHANGED <<g_running, slot, queue_event, m_in_progress, thread_event,
                   workerVars, events, mainVars>>

-----------------------------------------------------------------------------
(* A worker *)

WakeWorker(w) ==
    /\ worker[w] = "wait" /\ thread_event[w]
    /\ thread_event' = [thread_event EXCEPT ![w] = FALSE]
    /\ worker' = [worker EXCEPT ![w] = IF g_running THEN "run" ELSE "exited"]
    /\ UNCHANGED <<g_running, queueVars, queue_event, m_in_progress, m_api,
                   result, events, mainVars>>

(* Mutant: the worker counts as free before it has answered.               *)
RunFrees(w) ==
    /\ worker[w] = "run"
    /\ result' = [result EXCEPT ![w] = m_api[w]]
    /\ m_in_progress' = [m_in_progress EXCEPT ![w] = FALSE]
    /\ worker' = [worker EXCEPT ![w] = "answer"]
    /\ UNCHANGED <<g_running, queueVars, queue_event, thread_event, m_api,
                   events, mainVars>>

(* DownloadInternal or UploadInternal, on the worker's curl handle.  They  *)
(* return early when the token was triggered or the program quits.         *)
Run(w) ==
    /\ worker[w] = "run"
    /\ result' = [result EXCEPT ![w] = m_api[w]]
    /\ worker' = [worker EXCEPT ![w] = "answer"]
    /\ UNCHANGED <<g_running, queueVars, queue_event, m_in_progress,
                   thread_event, m_api, events, mainVars>>

Answer(w) ==
    /\ worker[w] = "answer"
    /\ worker' = [worker EXCEPT ![w] =
                    IF g_running /\ MayCall(m_api[w]) THEN "push" ELSE "clear"]
    /\ UNCHANGED <<g_running, queueVars, queue_event, m_in_progress,
                   thread_event, m_api, result, events, mainVars>>

PushResult(w) ==
    /\ worker[w] = "push"
    /\ events' = Append(events, [kind |-> "download", callback |-> m_api[w],
                                 result |-> result[w]])
    /\ worker' = [worker EXCEPT ![w] = "clear"]
    /\ UNCHANGED <<g_running, queueVars, queue_event, m_in_progress,
                   thread_event, m_api, result, mainVars>>

(* m_api stays what it was, but nobody looks at it before Setup sets it.   *)
ClearProgress(w) ==
    /\ worker[w] = "clear"
    /\ m_in_progress' = [m_in_progress EXCEPT ![w] = FALSE]
    /\ m_api' = [m_api EXCEPT ![w] = "none"]
    /\ result' = [result EXCEPT ![w] = "none"]
    /\ worker' = [worker EXCEPT ![w] = "signal"]
    /\ UNCHANGED <<g_running, queueVars, queue_event, thread_event, events,
                   mainVars>>

(* Mutant: the queue is not told. *)
KeepEvent == queue_event

SpaceFree == TRUE

SignalQueue(w) ==
    /\ worker[w] = "signal"
    /\ queue_event' = SpaceFree
    /\ worker' = [worker EXCEPT ![w] = IF g_running THEN "wait" ELSE "exited"]
    /\ UNCHANGED <<g_running, queueVars, m_in_progress, thread_event, m_api,
                   result, events, mainVars>>

-----------------------------------------------------------------------------

Main == ExitFlag \/ ExitSignal \/ PopWidgets \/ CloseQueue
        \/ (\E w \in Worker : CloseWorker(w)) \/ Cleanup

QueueThread == Wake \/ Lock \/ Scan \/ Erase

WorkerThread(w) == WakeWorker(w) \/ Run(w) \/ Answer(w) \/ PushResult(w)
                   \/ ClearProgress(w) \/ SignalQueue(w)

(* Everything has ended. *)
Gone == main = "gone" /\ UNCHANGED vars

Next ==
    \/ \E r \in Requests : Add(r) \/ Stop(r)
    \/ Launch \/ Pop
    \/ Main \/ QueueThread
    \/ \E w \in Worker : WorkerThread(w)
    \/ Gone

Spec == Init /\ [][Next]_vars

(* The threads are scheduled, a transfer ends, and the main loop takes the *)
(* events.  Nobody has to ask for anything, or to quit.                    *)
Fairness ==
    /\ WF_vars(Main) /\ WF_vars(Pop) /\ WF_vars(QueueThread)
    /\ \A w \in Worker : WF_vars(WorkerThread(w))

FairSpec == Spec /\ Fairness

-----------------------------------------------------------------------------

(* No wake-up is lost: the queue thread sleeps on a queue that is not      *)
(* empty only while every worker has a request, or is about to signal.     *)
NoLostWakeup ==
    queue = "wait" /\ ~queue_event /\ m_entries # <<>> =>
        \A w \in Worker : m_in_progress[w] \/ worker[w] = "signal"

(* A worker that was given a request has been told of it, and keeps it     *)
(* until its result is on the way: no other request takes its place.       *)
RequestKept ==
    /\ \A w \in Worker : worker[w] \in {"run", "answer", "push"} =>
            m_in_progress[w] /\ m_api[w] # "none"
    /\ \A i \in 1 .. Len(events) : events[i].kind = "download" =>
            events[i].callback = events[i].result

(* A handle is cleaned up after its last use: those of the workers and the *)
(* share they all use.                                                     *)
HandlesAlive ==
    \A w \in Worker : worker[w] = "run" => {0, w} \cap freed = {}

(* A callback is called once at most, and never after its owner has gone,  *)
(* wherever between the worker and the main loop the result is then.       *)
CallbackOnce ==
    [][\A r \in Requests : answers'[r] # answers[r] =>
          r \notin stopped /\ answers[r] = 0]_vars

(* Every request is answered, unless its owner goes or the program quits:  *)
(* again and again no request is left unanswered.                          *)
Answered ==
    []<>(\A r \in asked : answers[r] > 0 \/ r \in stopped \/ main # "loop")

(* Quitting ends all threads. *)
ExitEnds == main = "quit" ~> main = "gone"
=============================================================================
