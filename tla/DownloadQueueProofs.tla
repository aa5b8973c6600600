------------------------- MODULE DownloadQueueProofs -------------------------
(***************************************************************************)
(* Theorems about DownloadQueue, for every number of workers, every set of *)
(* requests and any of the workers not created.                            *)
(***************************************************************************)
EXTENDS DownloadQueue, SequenceTheorems, TLAPS

Busy(w) == m_in_progress[w] \/ worker[w] = "signal"

(* Sequences and counters on the one hand, tables of the workers on the    *)
(* other: the parts of TypeOK.                                             *)
QueueType ==
    /\ m_entries \in Seq(Requests)
    /\ taken \in 0 .. Len(m_entries)
    /\ slot \in 1 .. NumWorkers + 1

PlaceType ==
    /\ g_running \in BOOLEAN
    /\ queue_event \in BOOLEAN
    /\ queue \in {"wait", "lock", "scan", "erase", "exited"}
    /\ main \in MainPc
    /\ asked \subseteq Requests
    /\ stopped \subseteq Requests
    /\ answers \in [Requests -> Nat]

WorkerType ==
    /\ m_api \in [Worker -> Requests \cup {"none"}]
    /\ m_in_progress \in [Worker -> BOOLEAN]
    /\ thread_event \in [Worker -> BOOLEAN]
    /\ worker \in [Worker -> {"wait", "run", "answer", "push", "clear",
                              "signal", "exited"}]
    /\ result \in [Worker -> Requests \cup {"none"}]

EventType == events \in Seq(Event)

FreedType == freed \subseteq 0 .. NumWorkers

(* The scan looks at an entry and at a worker.  Without an event pending,  *)
(* the workers it has passed are busy, and all of them are once it has     *)
(* given up on an entry, also when it sleeps on it.                        *)
ScanInv ==
    /\ queue = "scan" => taken < Len(m_entries) /\ slot <= NumWorkers
    /\ queue = "scan" /\ ~queue_event => \A w \in 1 .. slot - 1 : Busy(w)
    /\ queue = "erase" /\ ~queue_event /\ taken < Len(m_entries) =>
          \A w \in Worker : Busy(w)

(* A worker that has a request, or was told of one, is in progress; one    *)
(* that was told of it has not begun.                                      *)
WorkInv ==
    \A w \in Worker :
        /\ worker[w] \in {"run", "answer", "push", "clear"} =>
              m_in_progress[w] /\ m_api[w] # "none"
        /\ worker[w] \in {"answer", "push"} => result[w] = m_api[w]
        /\ g_running /\ thread_event[w] =>
              /\ m_in_progress[w] /\ m_api[w] # "none"
              /\ worker[w] \notin {"run", "answer", "push", "clear"}

EventInv ==
    \A i \in 1 .. Len(events) :
        events[i].kind = "download" => events[i].callback = events[i].result

(* Handles are freed in the order of the shutdown. *)
FreeInv ==
    /\ \A w \in Worker : w \in freed => worker[w] = "exited"
    /\ main \in {"cleanup", "gone"} => Worker \subseteq freed
    /\ 0 \in freed => main = "gone"

(* The program runs until it quits. *)
RunInv == g_running <=> main \in {"loop", "quit"}

TypeParts == QueueType /\ PlaceType /\ WorkerType /\ EventType /\ FreedType

IInv == /\ TypeParts /\ ScanInv /\ NoLostWakeup /\ WorkInv /\ EventInv
        /\ FreeInv /\ RunInv

LEMMA TypeOfParts == TypeParts <=> TypeOK
  BY DEF TypeParts, QueueType, PlaceType, WorkerType, EventType, FreedType,
         TypeOK

LEMMA Workers == /\ NumWorkers \in Nat \ {0} /\ "none" \notin Requests
                 /\ \A w \in Worker : w \in 1 .. NumWorkers /\ w # 0
  BY DownloadQueueAssumption DEF Worker

-----------------------------------------------------------------------------
(* Sequences *)

LEMMA AppendEvent ==
    ASSUME EventType, EventInv, NEW e \in Event,
           e.kind = "download" => e.callback = e.result,
           events' = Append(events, e)
    PROVE  EventType' /\ EventInv'
  BY DEF EventType, EventInv

(* A sequence without one of its elements: the others, in their order.     *)
LEMMA RemoveAtFacts ==
    ASSUME NEW S, NEW s \in Seq(S), NEW i \in 1 .. Len(s)
    PROVE  /\ RemoveAt(s, i) \in Seq(S)
           /\ Len(RemoveAt(s, i)) = Len(s) - 1
           /\ \A j \in 1 .. Len(s) - 1 :
                 RemoveAt(s, i)[j] = s[IF j < i THEN j ELSE j + 1]
           /\ \A j \in 1 .. Len(RemoveAt(s, i)) :
                 \E k \in 1 .. Len(s) : RemoveAt(s, i)[j] = s[k]
  <1> DEFINE a == SubSeq(s, 1, i - 1)
             b == SubSeq(s, i + 1, Len(s))
  <1>1. a \in Seq(S) /\ Len(a) = i - 1
        /\ \A j \in 1 .. i - 1 : a[j] = s[j]
    <2>1. \A j \in 1 .. i - 1 : s[j] \in S
      OBVIOUS
    <2> QED BY <2>1, SubSeqProperties
  <1>2. b \in Seq(S) /\ Len(b) = Len(s) - i
        /\ \A j \in 1 .. Len(s) - i : b[j] = s[i + j]
    <2>1. \A j \in i + 1 .. Len(s) : s[j] \in S
      OBVIOUS
    <2>2. /\ SubSeq(s, i + 1, Len(s)) \in Seq(S)
          /\ Len(SubSeq(s, i + 1, Len(s))) =
                IF i + 1 <= Len(s) THEN Len(s) - (i + 1) + 1 ELSE 0
          /\ \A j \in 1 .. Len(s) - (i + 1) + 1 :
                SubSeq(s, i + 1, Len(s))[j] = s[i + 1 + j - 1]
      BY <2>1, SubSeqProperties
    <2>3. \A j \in Nat : i + 1 + j - 1 = i + j
      OBVIOUS
    <2> QED BY <2>2, <2>3
  <1>3. RemoveAt(s, i) = a \o b
    BY DEF RemoveAt
  <1> HIDE DEF a, b
  <1> DEFINE c == a \o b
  <1>4. /\ c \in Seq(S) /\ Len(c) = Len(a) + Len(b)
        /\ \A j \in 1 .. Len(a) + Len(b) :
              c[j] = IF j <= Len(a) THEN a[j] ELSE b[j - Len(a)]
    BY <1>1, <1>2, ConcatProperties, Zenon
  <1>5. RemoveAt(s, i) = c
    BY <1>3
  <1> HIDE DEF c
  <1>6. Len(c) = Len(s) - 1 /\ i \in Nat /\ Len(s) \in Nat
    BY <1>1, <1>2, <1>4
  <1>7. ASSUME NEW j \in 1 .. Len(s) - 1
        PROVE  c[j] = s[IF j < i THEN j ELSE j + 1]
    <2>0. /\ j \in 1 .. Len(a) + Len(b) /\ j \in Nat
          /\ c[j] = IF j <= i - 1 THEN a[j] ELSE b[j - (i - 1)]
      BY <1>1, <1>2, <1>4, <1>6
    <2>1. CASE j < i
      <3>1. j <= i - 1 /\ j \in 1 .. i - 1
        BY <1>6, <2>0, <2>1
      <3> QED BY <1>1, <2>0, <2>1, <3>1
    <2>2. CASE ~(j < i)
      <3>1. c[j] = b[j - (i - 1)]
        BY <1>6, <2>0, <2>2
      <3>2. b[j - (i - 1)] = s[i + (j - (i - 1))] /\ i + (j - (i - 1)) = j + 1
        BY <1>2, <1>6, <2>2
      <3> QED BY <2>2, <3>1, <3>2
    <2> QED BY <2>1, <2>2
  <1>8. \A j \in 1 .. Len(c) : \E k \in 1 .. Len(s) : c[j] = s[k]
    <2> SUFFICES ASSUME NEW j \in 1 .. Len(c)
                 PROVE  \E k \in 1 .. Len(s) : c[j] = s[k]
      OBVIOUS
    <2>1. j \in 1 .. Len(s) - 1
          /\ (IF j < i THEN j ELSE j + 1) \in 1 .. Len(s)
      BY <1>6
    <2> QED BY <1>7, <2>1
  <1> QED BY <1>4, <1>5, <1>6, <1>7, <1>8

-----------------------------------------------------------------------------
(* The invariant holds initially and each action keeps it. *)

LEMMA Init_IInv == Init => IInv
  <1> SUFFICES ASSUME Init PROVE IInv
    OBVIOUS
  <1>1. QueueType /\ PlaceType /\ EventType /\ FreedType
    <2>1. QueueType
      BY Workers DEF Init, QueueType
    <2>2. PlaceType
      BY DEF Init, PlaceType, MainPc
    <2>3. EventType
      BY DEF Init, EventType
    <2>4. FreedType
      BY DEF Init, FreedType
    <2> QED BY <2>1, <2>2, <2>3, <2>4
  <1>2. WorkerType
    BY DEF Init, WorkerType
  <1>3. ScanInv /\ NoLostWakeup /\ WorkInv /\ EventInv /\ FreeInv /\ RunInv
    BY Workers DEF Init, ScanInv, NoLostWakeup, WorkInv, EventInv, FreeInv,
                   RunInv
  <1> QED BY <1>1, <1>2, <1>3 DEF IInv, TypeParts

(* What an action leaves alone stays right. *)
LEMMA QueueKept ==
    ASSUME QueueType, ScanInv, NoLostWakeup, QueueType',
           UNCHANGED <<queueVars, queue_event, m_in_progress>>,
           \A w \in Worker : worker[w] = "signal" => worker'[w] = "signal"
    PROVE  ScanInv' /\ NoLostWakeup'
  BY Workers DEF QueueType, ScanInv, NoLostWakeup, Busy, queueVars, Worker

LEMMA Add_IInv == ASSUME IInv, NEW r \in Requests, Add(r) PROVE IInv'
  <1>1. QueueType'
    <2>1. <<r>> \o m_entries \in Seq(Requests)
          /\ Append(m_entries, r) \in Seq(Requests)
          /\ Len(<<r>> \o m_entries) = Len(m_entries) + 1
          /\ Len(Append(m_entries, r)) = Len(m_entries) + 1
      BY DEF IInv, TypeParts, QueueType
    <2>2. m_entries' \in Seq(Requests) /\ Len(m_entries') = Len(m_entries) + 1
      BY <2>1 DEF Add, Queued
    <2> QED BY <2>2 DEF Add, IInv, TypeParts, QueueType
  <1>2. PlaceType' /\ WorkerType' /\ EventType' /\ FreedType'
    BY DEF Add, IInv, TypeParts, PlaceType, WorkerType, EventType, FreedType,
           workerVars
  <1>3. ScanInv' /\ NoLostWakeup'
    BY DEF Add, QueueFree, ScanInv, NoLostWakeup
  <1>4. WorkInv' /\ EventInv' /\ FreeInv' /\ RunInv'
    BY DEF Add, IInv, WorkInv, EventInv, FreeInv, RunInv, workerVars
  <1> QED BY <1>1, <1>2, <1>3, <1>4 DEF IInv, TypeParts

LEMMA Stop_IInv == ASSUME IInv, NEW r \in Requests, Stop(r) PROVE IInv'
  <1>1. TypeParts'
    BY DEF Stop, IInv, TypeParts, QueueType, PlaceType, WorkerType, EventType,
           FreedType, queueVars, workerVars
  <1>2. ScanInv' /\ NoLostWakeup'
    BY <1>1, QueueKept DEF Stop, IInv, TypeParts, workerVars
  <1>3. WorkInv' /\ EventInv' /\ FreeInv' /\ RunInv'
    BY DEF Stop, IInv, WorkInv, EventInv, FreeInv, RunInv, workerVars
  <1> QED BY <1>1, <1>2, <1>3 DEF IInv

LEMMA Launch_IInv == ASSUME IInv, Launch PROVE IInv'
  <1> DEFINE launch == [kind |-> "launch"]
  <1>0. launch \in Event /\ launch.kind # "download"
    BY DEF Event
  <1>1. EventType' /\ EventInv'
    <2>1. CASE events' = Append(events, launch)
      BY <1>0, <2>1, AppendEvent DEF IInv, TypeParts
    <2>2. ASSUME NEW i \in DOMAIN events,
                 events' = Append(RemoveAt(events, i), launch)
          PROVE  EventType' /\ EventInv'
      <3>1. events \in Seq(Event) /\ i \in 1 .. Len(events)
        BY DEF IInv, TypeParts, EventType
      <3>0. /\ RemoveAt(events, i) \in Seq(Event)
            /\ \A j \in 1 .. Len(RemoveAt(events, i)) :
                  \E k \in 1 .. Len(events) :
                    RemoveAt(events, i)[j] = events[k]
        BY <3>1, RemoveAtFacts, SMTT(60)
      <3> DEFINE rest == RemoveAt(events, i)
      <3>2. rest \in Seq(Event)
            /\ \A j \in 1 .. Len(rest) :
                  \E k \in 1 .. Len(events) : rest[j] = events[k]
        BY <3>0
      <3> HIDE DEF rest
      <3>3. \A j \in 1 .. Len(rest) : rest[j].kind = "download" =>
                rest[j].callback = rest[j].result
        BY <3>2 DEF IInv, EventInv
      <3>4. events' = Append(rest, launch)
        BY <2>2 DEF rest
      <3> HIDE DEF launch
      <3> QED BY <1>0, <3>2, <3>3, <3>4 DEF EventType, EventInv
    <2> QED BY <2>1, <2>2 DEF Launch
  <1>2. QueueType' /\ PlaceType' /\ WorkerType' /\ FreedType'
    BY DEF Launch, IInv, TypeParts, QueueType, PlaceType, WorkerType,
           FreedType, queueVars, workerVars, mainVars
  <1>3. ScanInv' /\ NoLostWakeup'
    BY <1>2, QueueKept DEF Launch, IInv, TypeParts, workerVars
  <1>4. WorkInv' /\ FreeInv' /\ RunInv'
    BY DEF Launch, IInv, WorkInv, FreeInv, RunInv, workerVars, mainVars
  <1> QED BY <1>1, <1>2, <1>3, <1>4 DEF IInv, TypeParts

LEMMA Pop_IInv == ASSUME IInv, Pop PROVE IInv'
  <1>1. EventType' /\ EventInv'
    <2>1. events \in Seq(Event) /\ events # <<>> /\ events' = Tail(events)
      BY DEF Pop, IInv, TypeParts, EventType
    <2>2. /\ events' \in Seq(Event)
          /\ \A i \in 1 .. Len(events') :
                i + 1 \in 1 .. Len(events) /\ events'[i] = events[i + 1]
      BY <2>1
    <2> QED BY <2>2 DEF IInv, EventType, EventInv
  <1>2. PlaceType'
    <2>1. Head(events) \in Event
      BY DEF Pop, IInv, TypeParts, EventType
    <2>2. main' \in MainPc
      BY DEF Pop, IInv, TypeParts, PlaceType, MainPc
    <2>3. answers' \in [Requests -> Nat]
      BY DEF Pop, IInv, TypeParts, PlaceType
    <2> QED BY <2>2, <2>3 DEF Pop, IInv, TypeParts, PlaceType, queueVars
  <1>3. QueueType' /\ WorkerType' /\ FreedType'
    BY DEF Pop, IInv, TypeParts, QueueType, WorkerType, FreedType, queueVars,
           workerVars
  <1>4. ScanInv' /\ NoLostWakeup'
    BY <1>3, QueueKept DEF Pop, IInv, TypeParts, workerVars
  <1>5. WorkInv'
    BY DEF Pop, IInv, WorkInv, workerVars
  <1>6. FreeInv' /\ RunInv'
    BY DEF Pop, InLoop, IInv, FreeInv, RunInv, workerVars
  <1> QED BY <1>1, <1>2, <1>3, <1>4, <1>5, <1>6 DEF IInv, TypeParts

(* The shutdown: everything but the places, events and handles is kept.   *)
LEMMA Main_IInv == ASSUME IInv, Main PROVE IInv'
  <1>0. UNCHANGED <<queueVars, m_in_progress, workerVars, events>>
    BY DEF Main, ExitFlag, ExitSignal, PopWidgets, CloseQueue, CloseWorker,
           Cleanup
  <1>1. QueueType' /\ EventType' /\ EventInv'
    BY <1>0 DEF IInv, TypeParts, QueueType, EventType, EventInv, queueVars
  <1>2. PlaceType'
    BY <1>0 DEF Main, ExitFlag, ExitSignal, SignalAll, PopWidgets, CloseQueue,
                CloseWorker, Cleanup, IInv, TypeParts, PlaceType, MainPc,
                queueVars
  <1>3. WorkerType'
    BY <1>0 DEF Main, ExitFlag, ExitSignal, SignalAll, PopWidgets, CloseQueue,
                CloseWorker, Cleanup, IInv, TypeParts, WorkerType, workerVars
  <1>4. FreedType'
    <2>1. \/ freed' = freed
          \/ \E w \in 0 .. NumWorkers : freed' = freed \cup {w}
      BY Workers DEF Main, ExitFlag, ExitSignal, PopWidgets, CloseQueue,
                     CloseWorker, Cleanup, Worker
    <2> QED BY <2>1 DEF IInv, TypeParts, FreedType
  <1>5. ScanInv' /\ NoLostWakeup'
    <2>1. queue_event' = queue_event \/ queue_event' = TRUE
      BY DEF Main, ExitFlag, ExitSignal, SignalAll, PopWidgets, CloseQueue,
             CloseWorker, Cleanup
    <2>2. CASE queue_event' = queue_event
      BY <1>0, <1>1, <2>2, QueueKept DEF IInv, TypeParts, workerVars
    <2>3. CASE queue_event' = TRUE
      BY <1>0, <2>3 DEF IInv, ScanInv, NoLostWakeup, queueVars
    <2> QED BY <2>1, <2>2, <2>3
  <1>6. WorkInv'
    <2>1. ~g_running' \/ UNCHANGED <<g_running, thread_event>>
      BY DEF Main, ExitFlag, ExitSignal, PopWidgets, CloseQueue, CloseWorker,
             Cleanup, IInv, RunInv
    <2> QED BY <1>0, <2>1 DEF IInv, WorkInv, workerVars
  <1>7. FreeInv'
    <2>1. CASE ExitFlag \/ ExitSignal \/ PopWidgets \/ CloseQueue
      BY <1>0, <2>1 DEF ExitFlag, ExitSignal, PopWidgets, CloseQueue, IInv,
                        FreeInv, workerVars
    <2>2. ASSUME NEW w \in Worker, CloseWorker(w) PROVE FreeInv'
      <3>1. freed' = freed \cup {w} /\ worker[w] = "exited" /\ w # 0
            /\ worker' = worker /\ main = "join_workers" /\ 0 \notin freed
        BY <1>0, <2>2, Workers DEF CloseWorker, Joined, IInv, FreeInv,
                                   workerVars
      <3>2. main' \in {"cleanup", "gone"} => Worker \subseteq freed'
        <4>1. main' \in {"cleanup", "gone"} =>
                w = NumWorkers /\ \A v \in 1 .. w - 1 : v \in freed
          BY <2>2 DEF CloseWorker
        <4> QED BY <3>1, <4>1, Workers DEF Worker
      <3> QED BY <3>1, <3>2 DEF IInv, FreeInv
    <2>3. CASE Cleanup
      BY <1>0, <2>3, Workers DEF Cleanup, IInv, FreeInv, workerVars
    <2> QED BY <2>1, <2>2, <2>3 DEF Main
  <1>8. RunInv'
    BY DEF Main, ExitFlag, ExitSignal, PopWidgets, CloseQueue, CloseWorker,
           Cleanup, IInv, RunInv
  <1> QED BY <1>1, <1>2, <1>3, <1>4, <1>5, <1>6, <1>7, <1>8
          DEF IInv, TypeParts

LEMMA Wake_IInv == ASSUME IInv, Wake \/ Lock PROVE IInv'
  <1>0. UNCHANGED <<g_running, m_entries, m_in_progress, thread_event,
                    workerVars, events, mainVars>>
    BY DEF Wake, Lock, queueVars
  <1>1. QueueType'
    BY <1>0, Workers DEF Wake, Lock, IInv, TypeParts, QueueType
  <1>2. PlaceType' /\ WorkerType' /\ EventType' /\ FreedType'
    BY <1>0 DEF Wake, Lock, NextRound, IInv, TypeParts, PlaceType, WorkerType,
                EventType, FreedType, workerVars, mainVars
  <1>3. ScanInv' /\ NoLostWakeup'
    BY <1>0, Workers DEF Wake, Lock, NextRound, IInv, TypeParts, QueueType,
                         ScanInv, NoLostWakeup
  <1>4. WorkInv' /\ EventInv' /\ FreeInv' /\ RunInv'
    BY <1>0 DEF IInv, WorkInv, EventInv, FreeInv, RunInv, workerVars, mainVars
  <1> QED BY <1>1, <1>2, <1>3, <1>4 DEF IInv, TypeParts

(* The scan passes a busy worker, or gives a free one the next entry.     *)
LEMMA Scan_IInv == ASSUME IInv, Scan PROVE IInv'
  <1>0. /\ UNCHANGED <<g_running, m_entries, queue_event, worker, result,
                       events, mainVars>>
        /\ queue = "scan" /\ taken < Len(m_entries) /\ slot \in Worker
    BY Workers DEF Scan, IInv, TypeParts, QueueType, ScanInv, Worker
  <1>1. EventType' /\ FreedType' /\ EventInv' /\ FreeInv' /\ RunInv'
    BY <1>0 DEF IInv, TypeParts, EventType, FreedType, EventInv, FreeInv,
                RunInv, mainVars
  <1>2. PlaceType'
    BY <1>0 DEF Scan, IInv, TypeParts, PlaceType, mainVars
  <1>3. CASE ~g_running
    <2>1. UNCHANGED <<taken, slot, m_api, m_in_progress, thread_event>>
          /\ queue' = "exited"
      BY <1>3 DEF Scan
    <2> QED BY <1>0, <1>1, <1>2, <2>1
            DEF IInv, TypeParts, QueueType, WorkerType, ScanInv, NoLostWakeup,
                WorkInv
  <1>4. CASE g_running /\ m_in_progress[slot]
    <2>1. /\ UNCHANGED <<taken, m_api, m_in_progress, thread_event>>
          /\ slot' = slot + 1
          /\ queue' = IF slot = NumWorkers THEN "erase" ELSE "scan"
      BY <1>4 DEF Scan
    <2>2. QueueType'
      BY <1>0, <2>1, Workers DEF IInv, TypeParts, QueueType, Worker
    <2>3. WorkerType' /\ WorkInv'
      BY <1>0, <2>1 DEF IInv, TypeParts, WorkerType, WorkInv
    <2>4. ScanInv' /\ NoLostWakeup'
      <3>1. \A w \in Worker : Busy(w)' <=> Busy(w)
        BY <1>0, <2>1 DEF Busy
      <3>2. ~queue_event => \A w \in 1 .. slot : Busy(w)
        BY <1>0, <1>4, Workers DEF IInv, ScanInv, Busy, Worker
      <3> HIDE DEF Busy
      <3> QED BY <1>0, <2>1, <3>1, <3>2, Workers
              DEF ScanInv, NoLostWakeup, Worker
    <2> QED BY <1>1, <1>2, <2>2, <2>3, <2>4 DEF IInv, TypeParts
  <1>5. CASE g_running /\ ~m_in_progress[slot]
    <2> DEFINE r == m_entries[taken + 1]
    <2>1. /\ Setup(slot, r)
          /\ taken' = taken + 1
          /\ slot' = 1
          /\ queue' = IF taken + 1 = Len(m_entries) THEN "erase" ELSE "scan"
      BY <1>5 DEF Scan
    <2>2. r \in Requests /\ r # "none"
      BY <1>0, Workers DEF IInv, TypeParts, QueueType
    <2> HIDE DEF r
    <2>3. QueueType'
      BY <1>0, <2>1, Workers DEF IInv, TypeParts, QueueType
    <2>4. WorkerType'
      BY <1>0, <2>1, <2>2 DEF Setup, IInv, TypeParts, WorkerType
    <2>5. WorkInv'
      <3> SUFFICES ASSUME NEW w \in Worker
                   PROVE  WorkInv!(w)'
        BY DEF WorkInv
      <3> QED BY <1>0, <1>5, <2>1, <2>2
              DEF Setup, IInv, TypeParts, WorkerType, WorkInv
    <2>6. ScanInv' /\ NoLostWakeup'
      BY <1>0, <2>1, <2>3, Workers DEF IInv, TypeParts, QueueType, ScanInv,
                                       NoLostWakeup
    <2> QED BY <1>1, <1>2, <2>3, <2>4, <2>5, <2>6 DEF IInv, TypeParts
  <1> QED BY <1>3, <1>4, <1>5

LEMMA Erase_IInv == ASSUME IInv, Erase PROVE IInv'
  <1>0. /\ UNCHANGED <<g_running, slot, queue_event, m_in_progress,
                       thread_event, workerVars, events, mainVars>>
        /\ queue = "erase" /\ queue' \in {"wait", "exited"}
    BY DEF Erase, NextRound
  <1>1. QueueType' /\ (m_entries' # <<>> => taken < Len(m_entries))
    <2>1. m_entries \in Seq(Requests) /\ taken \in 0 .. Len(m_entries)
      BY DEF IInv, TypeParts, QueueType
    <2>2. m_entries' \in Seq(Requests)
          /\ Len(m_entries') = Len(m_entries) - taken
      <3>1. \A i \in taken + 1 .. Len(m_entries) : m_entries[i] \in Requests
        BY <2>1
      <3>2. m_entries' = SubSeq(m_entries, taken + 1, Len(m_entries))
        BY DEF Erase, Remaining
      <3>3. /\ SubSeq(m_entries, taken + 1, Len(m_entries)) \in Seq(Requests)
            /\ Len(SubSeq(m_entries, taken + 1, Len(m_entries))) =
                  IF taken + 1 <= Len(m_entries)
                  THEN Len(m_entries) - (taken + 1) + 1 ELSE 0
        BY <2>1, <3>1, SubSeqProperties
      <3> QED BY <2>1, <3>2, <3>3
    <2>3. taken' = 0 /\ slot' \in 1 .. NumWorkers + 1
      BY DEF Erase, IInv, TypeParts, QueueType
    <2> QED BY <2>1, <2>2, <2>3 DEF QueueType
  <1>2. PlaceType' /\ WorkerType' /\ EventType' /\ FreedType'
    BY <1>0 DEF IInv, TypeParts, PlaceType, WorkerType, EventType, FreedType,
                workerVars, mainVars
  <1>3. ScanInv' /\ NoLostWakeup'
    BY <1>0, <1>1 DEF IInv, ScanInv, NoLostWakeup, Busy, workerVars
  <1>4. WorkInv' /\ EventInv' /\ FreeInv' /\ RunInv'
    BY <1>0 DEF IInv, WorkInv, EventInv, FreeInv, RunInv, workerVars, mainVars
  <1> QED BY <1>1, <1>2, <1>3, <1>4 DEF IInv, TypeParts

(* What all steps of a worker that runs have in common. *)
LEMMA WorkerKept ==
    ASSUME IInv, NEW w \in Worker, WorkerThread(w)
    PROVE  QueueType' /\ FreedType' /\ FreeInv' /\ RunInv' /\ PlaceType'
  <1>1. UNCHANGED <<g_running, queueVars, mainVars>>
        /\ queue_event' \in {queue_event, TRUE, FALSE}
    BY DEF WorkerThread, WakeWorker, Run, Answer, PushResult, ClearProgress,
           SignalQueue, SpaceFree
  <1>2. queue_event' \in BOOLEAN
    BY <1>1 DEF IInv, TypeParts, PlaceType
  <1>3. worker[w] # "exited"
        /\ \A v \in Worker \ {w} : worker'[v] = worker[v]
    BY DEF WorkerThread, WakeWorker, Run, Answer, PushResult, ClearProgress,
           SignalQueue, IInv, TypeParts, WorkerType
  <1>4. FreeInv'
    BY <1>1, <1>3 DEF IInv, FreeInv, mainVars
  <1>5. QueueType' /\ FreedType' /\ RunInv'
    BY <1>1 DEF IInv, TypeParts, QueueType, FreedType, RunInv, queueVars,
                mainVars
  <1>6. PlaceType'
    BY <1>1, <1>2 DEF IInv, TypeParts, PlaceType, queueVars, mainVars
  <1> QED BY <1>4, <1>5, <1>6

LEMMA WakeWorker_IInv ==
    ASSUME IInv, NEW w \in Worker, WakeWorker(w) PROVE IInv'
  <1>1. QueueType' /\ FreedType' /\ FreeInv' /\ RunInv' /\ PlaceType'
    BY WorkerKept DEF WorkerThread
  <1>2. EventType' /\ EventInv'
    BY DEF WakeWorker, IInv, TypeParts, EventType, EventInv
  <1>3. WorkerType'
    BY DEF WakeWorker, IInv, TypeParts, WorkerType
  <1>4. ScanInv' /\ NoLostWakeup'
    <2>1. \A v \in Worker : worker[v] = "signal" => worker'[v] = "signal"
      BY DEF WakeWorker, IInv, TypeParts, WorkerType
    <2> QED BY <1>1, <2>1, QueueKept DEF WakeWorker, IInv, TypeParts
  <1>5. WorkInv'
    <2> SUFFICES ASSUME NEW v \in Worker PROVE WorkInv!(v)'
      BY DEF WorkInv
    <2> QED BY DEF WakeWorker, IInv, TypeParts, WorkerType, WorkInv
  <1> QED BY <1>1, <1>2, <1>3, <1>4, <1>5 DEF IInv, TypeParts

LEMMA Run_IInv ==
    ASSUME IInv, NEW w \in Worker, Run(w) \/ Answer(w) PROVE IInv'
  <1>1. QueueType' /\ FreedType' /\ FreeInv' /\ RunInv' /\ PlaceType'
    BY WorkerKept DEF WorkerThread
  <1>2. EventType' /\ EventInv'
    BY DEF Run, Answer, IInv, TypeParts, EventType, EventInv
  <1>3. WorkerType'
    BY DEF Run, Answer, IInv, TypeParts, WorkerType
  <1>4. ScanInv' /\ NoLostWakeup'
    <2>1. \A v \in Worker : worker[v] = "signal" => worker'[v] = "signal"
      BY DEF Run, Answer, IInv, TypeParts, WorkerType
    <2> QED BY <1>1, <2>1, QueueKept DEF Run, Answer, IInv, TypeParts
  <1>5. WorkInv'
    <2> SUFFICES ASSUME NEW v \in Worker PROVE WorkInv!(v)'
      BY DEF WorkInv
    <2> QED BY DEF Run, Answer, IInv, TypeParts, WorkerType, WorkInv
  <1> QED BY <1>1, <1>2, <1>3, <1>4, <1>5 DEF IInv, TypeParts

LEMMA PushResult_IInv ==
    ASSUME IInv, NEW w \in Worker, PushResult(w) PROVE IInv'
  <1>1. QueueType' /\ FreedType' /\ FreeInv' /\ RunInv' /\ PlaceType'
    BY WorkerKept DEF WorkerThread
  <1>2. EventType' /\ EventInv'
    <2> DEFINE e == [kind |-> "download", callback |-> m_api[w],
                     result |-> result[w]]
    <2>1. m_api[w] \in Requests /\ result[w] = m_api[w]
      BY DEF PushResult, IInv, TypeParts, WorkerType, WorkInv
    <2>2. e \in Event /\ e.callback = e.result
      BY <2>1 DEF Event
    <2>3. events' = Append(events, e)
      BY DEF PushResult
    <2> HIDE DEF e
    <2> QED BY <2>2, <2>3, AppendEvent DEF IInv, TypeParts
  <1>3. WorkerType'
    BY DEF PushResult, IInv, TypeParts, WorkerType
  <1>4. ScanInv' /\ NoLostWakeup'
    <2>1. \A v \in Worker : worker[v] = "signal" => worker'[v] = "signal"
      BY DEF PushResult, IInv, TypeParts, WorkerType
    <2> QED BY <1>1, <2>1, QueueKept DEF PushResult, IInv, TypeParts
  <1>5. WorkInv'
    <2> SUFFICES ASSUME NEW v \in Worker PROVE WorkInv!(v)'
      BY DEF WorkInv
    <2> QED BY DEF PushResult, IInv, TypeParts, WorkerType, WorkInv
  <1> QED BY <1>1, <1>2, <1>3, <1>4, <1>5 DEF IInv, TypeParts

(* A worker that gives up its request is about to signal: it stays busy.   *)
LEMMA ClearProgress_IInv ==
    ASSUME IInv, NEW w \in Worker, ClearProgress(w) PROVE IInv'
  <1>1. QueueType' /\ FreedType' /\ FreeInv' /\ RunInv' /\ PlaceType'
    BY WorkerKept DEF WorkerThread
  <1>2. EventType' /\ EventInv'
    BY DEF ClearProgress, IInv, TypeParts, EventType, EventInv
  <1>3. WorkerType'
    BY DEF ClearProgress, IInv, TypeParts, WorkerType
  <1>4. ScanInv' /\ NoLostWakeup'
    <2>1. \A v \in Worker : Busy(v) => Busy(v)'
      BY DEF ClearProgress, IInv, TypeParts, WorkerType, Busy
    <2>2. UNCHANGED <<m_entries, taken, slot, queue, queue_event>>
      BY DEF ClearProgress, queueVars
    <2>3. \A v \in 1 .. slot - 1 : queue = "scan" => v \in Worker
      BY Workers DEF IInv, TypeParts, QueueType, Worker
    <2>4. NoLostWakeup <=> (queue = "wait" /\ ~queue_event /\ m_entries # <<>>
                              => \A v \in Worker : Busy(v))
      BY DEF NoLostWakeup, Busy
    <2>5. NoLostWakeup' <=> (queue = "wait" /\ ~queue_event /\ m_entries # <<>>
                              => \A v \in Worker : Busy(v)')
      BY <2>2 DEF NoLostWakeup, Busy
    <2> HIDE DEF Busy
    <2> QED BY <2>1, <2>2, <2>3, <2>4, <2>5 DEF IInv, ScanInv
  <1>5. WorkInv'
    <2> SUFFICES ASSUME NEW v \in Worker PROVE WorkInv!(v)'
      BY DEF WorkInv
    <2> QED BY DEF ClearProgress, IInv, TypeParts, WorkerType, WorkInv
  <1> QED BY <1>1, <1>2, <1>3, <1>4, <1>5 DEF IInv, TypeParts

LEMMA SignalQueue_IInv ==
    ASSUME IInv, NEW w \in Worker, SignalQueue(w) PROVE IInv'
  <1>1. QueueType' /\ FreedType' /\ FreeInv' /\ RunInv' /\ PlaceType'
    BY WorkerKept DEF WorkerThread
  <1>2. EventType' /\ EventInv'
    BY DEF SignalQueue, IInv, TypeParts, EventType, EventInv
  <1>3. WorkerType'
    BY DEF SignalQueue, IInv, TypeParts, WorkerType
  <1>4. ScanInv' /\ NoLostWakeup'
    BY DEF SignalQueue, SpaceFree, queueVars, IInv, ScanInv, NoLostWakeup
  <1>5. WorkInv'
    <2> SUFFICES ASSUME NEW v \in Worker PROVE WorkInv!(v)'
      BY DEF WorkInv
    <2> QED BY DEF SignalQueue, IInv, TypeParts, WorkerType, WorkInv
  <1> QED BY <1>1, <1>2, <1>3, <1>4, <1>5 DEF IInv, TypeParts

LEMMA Next_IInv == IInv /\ [Next]_vars => IInv'
  <1> SUFFICES ASSUME IInv, [Next]_vars PROVE IInv'
    OBVIOUS
  <1>1. ASSUME NEW r \in Requests, Add(r) \/ Stop(r) PROVE IInv'
    BY <1>1, Add_IInv, Stop_IInv
  <1>2. CASE Launch \/ Pop
    BY <1>2, Launch_IInv, Pop_IInv
  <1>3. CASE Main
    BY <1>3, Main_IInv
  <1>4. CASE QueueThread
    BY <1>4, Wake_IInv, Scan_IInv, Erase_IInv DEF QueueThread
  <1>5. ASSUME NEW w \in Worker, WorkerThread(w) PROVE IInv'
    BY <1>5, WakeWorker_IInv, Run_IInv, PushResult_IInv, ClearProgress_IInv,
       SignalQueue_IInv DEF WorkerThread
  <1>6. CASE UNCHANGED vars
    <2>1. TypeParts'
      BY <1>6 DEF vars, queueVars, workerVars, mainVars, IInv, TypeParts,
                  QueueType, PlaceType, WorkerType, EventType, FreedType
    <2>2. ScanInv' /\ NoLostWakeup'
      BY <1>6, <2>1, QueueKept DEF vars, workerVars, IInv, TypeParts
    <2>3. WorkInv' /\ EventInv' /\ FreeInv' /\ RunInv'
      BY <1>6 DEF vars, workerVars, mainVars, IInv, WorkInv, EventInv,
                  FreeInv, RunInv
    <2> QED BY <2>1, <2>2, <2>3 DEF IInv
  <1> QED BY <1>1, <1>2, <1>3, <1>4, <1>5, <1>6 DEF Next, Gone

LEMMA Spec_IInv == Spec => []IInv
  BY Init_IInv, Next_IInv, PTL DEF Spec

-----------------------------------------------------------------------------

(* Every variable keeps its type: no counter of the scan runs past the     *)
(* queue or the workers, and no thread is anywhere but at its places       *)
(* (ThreadQueueFunc and ThreadFunc in download.cpp).                       *)
THEOREM TypeCorrect == Spec => []TypeOK
  <1>1. IInv => TypeOK
    BY TypeOfParts DEF IInv
  <1> QED BY <1>1, Spec_IInv, PTL

(* The queue thread never sleeps on a request while a worker is free, and  *)
(* no signal of a worker or of Add is lost between its scan and its wait.  *)
THEOREM WakeupsArrive == Spec => []NoLostWakeup
  <1>1. IInv => NoLostWakeup
    BY DEF IInv
  <1> QED BY <1>1, Spec_IInv, PTL

(* From Setup to the event its result travels in, a worker has one request *)
(* and nobody replaces it: a callback gets the result of its own request.  *)
THEOREM RequestsAreKept == Spec => []RequestKept
  <1>1. IInv => RequestKept
    BY DEF IInv, WorkInv, EventInv, RequestKept
  <1> QED BY <1>1, Spec_IInv, PTL

(* curl::Exit frees no handle that a worker still uses, nor the share.     *)
THEOREM HandlesOutliveUse == Spec => []HandlesAlive
  <1>1. IInv => HandlesAlive
    <2> SUFFICES ASSUME IInv, NEW w \in Worker, worker[w] = "run"
                 PROVE  {0, w} \cap freed = {}
      BY DEF HandlesAlive
    <2>1. w \notin freed
      BY DEF IInv, FreeInv
    <2>2. 0 \notin freed
      BY <2>1 DEF IInv, FreeInv
    <2> QED BY <2>1, <2>2
  <1> QED BY <1>1, Spec_IInv, PTL

-----------------------------------------------------------------------------
(* The way of a request: the queue, a worker, an event.  A worker that has *)
(* pushed the result does not count any more.                              *)
InQueue(i, r) == i \in taken + 1 .. Len(m_entries) /\ m_entries[i] = r
Holds(w, r) == m_in_progress[w] /\ worker[w] # "clear" /\ m_api[w] = r
Sent(i, r) == /\ i \in 1 .. Len(events) /\ events[i].kind = "download"
              /\ events[i].callback = r

(* It is at one place, until it is answered. *)
Once(r) ==
    /\ r \notin asked \/ answers[r] # 0 =>
         /\ \A i \in Nat : ~InQueue(i, r) /\ ~Sent(i, r)
         /\ \A w \in Worker : ~Holds(w, r)
    /\ \A i, j \in Nat : /\ InQueue(i, r) /\ InQueue(j, r) => i = j
                         /\ ~(InQueue(i, r) /\ Sent(j, r))
                         /\ Sent(i, r) /\ Sent(j, r) => i = j
    /\ \A v, w \in Worker : Holds(v, r) /\ Holds(w, r) => v = w
    /\ \A i \in Nat, w \in Worker : /\ ~(InQueue(i, r) /\ Holds(w, r))
                                    /\ ~(Sent(i, r) /\ Holds(w, r))
    /\ r \notin asked => answers[r] = 0

(* Between two rounds of the scan nothing is taken. *)
RoundInv ==
    /\ queue \in {"wait", "lock"} => taken = 0
    /\ queue = "exited" => ~g_running

OnceInv == RoundInv /\ \A r \in Requests : Once(r)

LEMMA Next_RoundInv ==
    ASSUME IInv, RoundInv, Next PROVE RoundInv'
  <1>1. CASE UNCHANGED <<taken, queue>> /\ (g_running' => g_running)
    BY <1>1 DEF RoundInv
  <1>2. ASSUME NEW r \in Requests, Add(r) \/ Stop(r) PROVE RoundInv'
    BY <1>1, <1>2 DEF Add, Stop, queueVars
  <1>3. CASE Launch \/ Pop \/ Main \/ Gone
    BY <1>1, <1>3 DEF Launch, Pop, Main, ExitFlag, ExitSignal, PopWidgets,
       CloseQueue, CloseWorker, Cleanup, Gone, vars, queueVars
  <1>4. CASE QueueThread
    BY <1>4 DEF QueueThread, Wake, Lock, Scan, Erase, NextRound, RoundInv
  <1>5. ASSUME NEW w \in Worker, WorkerThread(w) PROVE RoundInv'
    BY <1>1, <1>5 DEF WorkerThread, WakeWorker, Run, Answer, PushResult,
       ClearProgress, SignalQueue, queueVars
  <1> QED BY <1>2, <1>3, <1>4, <1>5 DEF Next

(* A place may be left. *)
LEMMA Once_Leave ==
    ASSUME NEW r \in Requests, Once(r), UNCHANGED <<asked, answers>>,
           \A i \in Nat : /\ InQueue(i, r)' => InQueue(i, r)
                          /\ Sent(i, r)' => Sent(i, r),
           \A w \in Worker : Holds(w, r)' => Holds(w, r)
    PROVE  Once(r)'
  BY DEF Once

(* The same entries and events *)
LEMMA Once_Worker ==
    ASSUME NEW r \in Requests, Once(r),
           UNCHANGED <<asked, answers, taken, m_entries, events>>,
           \A w \in Worker : Holds(w, r)' => Holds(w, r)
    PROVE  Once(r)'
  <1>1. \A i \in Nat : /\ InQueue(i, r)' <=> InQueue(i, r)
                       /\ Sent(i, r)' <=> Sent(i, r)
    BY DEF InQueue, Sent
  <1> QED BY <1>1, Once_Leave

LEMMA Add_Once ==
    ASSUME IInv, OnceInv, NEW r \in Requests, Add(r), NEW q \in Requests
    PROVE  Once(q)'
  <1>1. /\ taken = 0 /\ taken' = 0 /\ r \notin asked
        /\ asked' = asked \cup {r} /\ UNCHANGED <<answers, events>>
    BY DEF Add, InLoop, QueueFree, IInv, RunInv, OnceInv, RoundInv, TypeParts,
           PlaceType
  <1>2. m_entries \in Seq(Requests) /\ Len(m_entries) \in Nat
    BY DEF IInv, TypeParts, QueueType
  <1>3. \A i \in Nat : Sent(i, q)' <=> Sent(i, q)
    BY <1>1 DEF Sent
  <1>4. \A w \in Worker : Holds(w, q)' <=> Holds(w, q)
    BY DEF Add, Holds, workerVars
  <1>5. Once(q) /\ Once(r)
    BY DEF OnceInv
  <1>6. CASE m_entries' = <<r>> \o m_entries
    <2>1. /\ Len(m_entries') = Len(m_entries) + 1 /\ m_entries'[1] = r
          /\ \A i \in 2 .. Len(m_entries) + 1 :
                m_entries'[i] = m_entries[i - 1]
      BY <1>2, <1>6
    <2>2. \A i \in Nat : InQueue(i, q)' =>
             \/ i = 1 /\ q = r
             \/ i # 1 /\ i - 1 \in Nat /\ InQueue(i - 1, q)
      <3> SUFFICES ASSUME NEW i \in Nat, InQueue(i, q)'
                   PROVE  \/ i = 1 /\ q = r
                          \/ i # 1 /\ i - 1 \in Nat /\ InQueue(i - 1, q)
        OBVIOUS
      <3>1. i \in 1 .. Len(m_entries) + 1 /\ m_entries'[i] = q
        BY <1>1, <1>2, <2>1 DEF InQueue
      <3>2. CASE i = 1
        BY <2>1, <3>1, <3>2
      <3>3. CASE i # 1
        BY <1>1, <1>2, <2>1, <3>1, <3>3 DEF InQueue
      <3> QED BY <3>2, <3>3
    <2>3. q = r => \A i \in Nat : ~InQueue(i, q) /\ ~Sent(i, q)
      BY <1>1, <1>5 DEF Once
    <2>4. q = r => \A w \in Worker : ~Holds(w, q)
      BY <1>1, <1>5 DEF Once
    <2> QED BY <1>1, <1>3, <1>4, <1>5, <2>2, <2>3, <2>4 DEF Once
  <1>7. CASE m_entries' = Append(m_entries, r)
    <2>2. \A i \in Nat : InQueue(i, q)' =>
             (i = Len(m_entries) + 1 /\ q = r) \/ InQueue(i, q)
      BY <1>1, <1>2, <1>7 DEF InQueue
    <2>3. q = r => \A i \in Nat : ~InQueue(i, q) /\ ~Sent(i, q)
      BY <1>1, <1>5 DEF Once
    <2>4. q = r => \A w \in Worker : ~Holds(w, q)
      BY <1>1, <1>5 DEF Once
    <2> QED BY <1>1, <1>3, <1>4, <1>5, <2>2, <2>3, <2>4 DEF Once
  <1> QED BY <1>6, <1>7 DEF Add, Queued

LEMMA Launch_Once ==
    ASSUME IInv, OnceInv, Launch, NEW q \in Requests PROVE Once(q)'
  <1> DEFINE launch == [kind |-> "launch"]
  <1>1. launch.kind # "download"
    OBVIOUS
  <1>2. UNCHANGED <<asked, answers, taken, m_entries>>
        /\ \A w \in Worker : Holds(w, q)' <=> Holds(w, q)
    BY DEF Launch, queueVars, workerVars, mainVars, Holds
  <1>3. \A i \in Nat : InQueue(i, q)' <=> InQueue(i, q)
    BY <1>2 DEF InQueue
  <1>4. Once(q) /\ events \in Seq(Event) /\ Len(events) \in Nat
    BY DEF OnceInv, IInv, TypeParts, EventType
  <1> HIDE DEF launch
  <1>5. CASE events' = Append(events, launch)
    <2>1. \A i \in Nat : Sent(i, q)' => Sent(i, q)
      BY <1>1, <1>4, <1>5 DEF Sent
    <2> QED BY <1>2, <1>3, <1>4, <2>1, Once_Leave
  <1>6. ASSUME NEW k \in DOMAIN events,
               events' = Append(RemoveAt(events, k), launch)
        PROVE  Once(q)'
    <2> DEFINE rest == RemoveAt(events, k)
    <2>0. k \in 1 .. Len(events)
      BY <1>4
    <2>1. /\ rest \in Seq(Event) /\ Len(rest) = Len(events) - 1
          /\ \A j \in 1 .. Len(events) - 1 :
                rest[j] = events[IF j < k THEN j ELSE j + 1]
      BY <1>4, <2>0, RemoveAtFacts, SMTT(60)
    <2>2. events' = Append(rest, launch)
      BY <1>6
    <2> HIDE DEF rest
    <2>3. \A i \in Nat : Sent(i, q)' =>
             /\ i < k => Sent(i, q)
             /\ ~(i < k) => Sent(i + 1, q)
      <3>1. /\ Len(events') = Len(events)
            /\ \A i \in 1 .. Len(events) - 1 : events'[i] = rest[i]
            /\ events'[Len(events)] = launch
        BY <1>4, <2>0, <2>1, <2>2
      <3> SUFFICES ASSUME NEW i \in Nat, Sent(i, q)'
                   PROVE  /\ i < k => Sent(i, q)
                          /\ ~(i < k) => Sent(i + 1, q)
        OBVIOUS
      <3>2. i \in 1 .. Len(events) /\ events'[i].kind = "download"
            /\ events'[i].callback = q
        BY <3>1 DEF Sent
      <3>3. i \in 1 .. Len(events) - 1
        BY <1>1, <1>4, <3>1, <3>2
      <3>4. events'[i] = events[IF i < k THEN i ELSE i + 1]
        BY <2>1, <3>1, <3>3
      <3>5. CASE i < k
        BY <3>2, <3>4, <3>5 DEF Sent
      <3>6. CASE ~(i < k)
        BY <1>4, <3>2, <3>3, <3>4, <3>6 DEF Sent
      <3> QED BY <3>5, <3>6
    <2>4. \A i \in Nat : i + 1 \in Nat
      OBVIOUS
    <2>5. \A i, j \in Nat : Sent(i, q)' /\ Sent(j, q)' => i = j
      BY <1>4, <2>0, <2>3, <2>4 DEF Once
    <2>6. \A i \in Nat : Sent(i, q)' => \E j \in Nat : Sent(j, q)
      BY <2>3, <2>4
    <2> QED BY <1>2, <1>3, <1>4, <2>5, <2>6 DEF Once
  <1> QED BY <1>5, <1>6 DEF Launch, launch

LEMMA Pop_Once ==
    ASSUME IInv, OnceInv, Pop, NEW q \in Requests PROVE Once(q)'
  <1>1. /\ UNCHANGED <<asked, taken, m_entries>>
        /\ \A w \in Worker : Holds(w, q)' <=> Holds(w, q)
    BY DEF Pop, queueVars, workerVars, Holds
  <1>2. \A i \in Nat : InQueue(i, q)' <=> InQueue(i, q)
    BY <1>1 DEF InQueue
  <1>3. /\ Once(q) /\ events \in Seq(Event) /\ events # <<>>
        /\ events' = Tail(events) /\ answers \in [Requests -> Nat]
    BY DEF OnceInv, IInv, TypeParts, EventType, PlaceType, Pop
  <1>4. \A i \in Nat : Sent(i, q)' => Sent(i + 1, q) /\ i # 0
    BY <1>3 DEF Sent
  <1>5. \A i \in Nat : i + 1 \in Nat /\ (i # 0 => i + 1 # 1)
    OBVIOUS
  <1>6. CASE UNCHANGED answers
    BY <1>1, <1>2, <1>3, <1>4, <1>5, <1>6 DEF Once
  <1>7. CASE answers' # answers
    <2>1. Head(events).kind = "download"
          /\ answers' = [answers EXCEPT ![Head(events).callback] = @ + 1]
      BY <1>7 DEF Pop
    <2>2. answers'[q] # answers[q] => Sent(1, q)
      BY <1>3, <2>1 DEF Sent
    <2>3. CASE Sent(1, q)
      <3>1. \A i \in Nat : ~Sent(i, q)' /\ ~InQueue(i, q)'
        BY <1>2, <1>3, <1>4, <1>5, <2>3 DEF Once
      <3>2. \A w \in Worker : ~Holds(w, q)'
        BY <1>1, <1>3, <2>3 DEF Once
      <3>3. q \in asked
        BY <1>3, <2>3 DEF Once
      <3> QED BY <1>1, <3>1, <3>2, <3>3 DEF Once
    <2>4. CASE ~Sent(1, q)
      BY <1>1, <1>2, <1>3, <1>4, <1>5, <2>2, <2>4 DEF Once
    <2> QED BY <2>3, <2>4
  <1> QED BY <1>6, <1>7

LEMMA Scan_Once ==
    ASSUME IInv, OnceInv, Scan, NEW q \in Requests PROVE Once(q)'
  <1>0. /\ UNCHANGED <<g_running, m_entries, queue_event, worker, result,
                       events, asked, answers>>
        /\ queue = "scan" /\ taken < Len(m_entries) /\ slot \in Worker
        /\ taken \in Nat /\ Len(m_entries) \in Nat
    BY Workers DEF Scan, IInv, TypeParts, QueueType, ScanInv, Worker, mainVars
  <1>1. Once(q)
    BY DEF OnceInv
  <1>2. CASE UNCHANGED <<taken, m_api, m_in_progress>>
    BY <1>0, <1>1, <1>2, Once_Worker DEF Holds
  <1>3. CASE g_running /\ ~m_in_progress[slot]
    <2> DEFINE r == m_entries[taken + 1]
    <2>1. /\ Setup(slot, r) /\ taken' = taken + 1
      BY <1>3 DEF Scan
    <2>2. r = q <=> InQueue(taken + 1, q)
      BY <1>0 DEF InQueue
    <2> HIDE DEF r
    <2>3. \A i \in Nat : InQueue(i, q)' => InQueue(i, q) /\ i # taken + 1
      BY <1>0, <2>1 DEF InQueue
    <2>4. \A i \in Nat : Sent(i, q)' <=> Sent(i, q)
      BY <1>0 DEF Sent
    <2>5. \A w \in Worker : Holds(w, q)' => Holds(w, q) \/ (w = slot /\ r = q)
      BY <1>0, <2>1 DEF Setup, Holds, IInv, TypeParts, WorkerType
    <2>6. ~Holds(slot, q)
      BY <1>3 DEF Holds
    <2>7. taken + 1 \in Nat
      BY <1>0
    <2> QED BY <1>0, <1>1, <2>2, <2>3, <2>4, <2>5, <2>6, <2>7 DEF Once
  <1> QED BY <1>2, <1>3 DEF Scan

LEMMA Erase_Once ==
    ASSUME IInv, OnceInv, Erase, NEW q \in Requests PROVE Once(q)'
  <1>1. UNCHANGED <<asked, answers, events>>
        /\ \A w \in Worker : Holds(w, q)' <=> Holds(w, q)
    BY DEF Erase, workerVars, mainVars, Holds
  <1>2. m_entries \in Seq(Requests) /\ taken \in 0 .. Len(m_entries)
        /\ Len(m_entries) \in Nat /\ taken' = 0
        /\ m_entries' = SubSeq(m_entries, taken + 1, Len(m_entries))
    BY DEF Erase, Remaining, IInv, TypeParts, QueueType
  <1>3. /\ Len(m_entries') = Len(m_entries) - taken
        /\ \A i \in 1 .. Len(m_entries) - taken :
              m_entries'[i] = m_entries[taken + i]
    BY <1>2
  <1>4. \A i \in Nat : InQueue(i, q)' => taken + i \in Nat
                                         /\ InQueue(taken + i, q)
    BY <1>2, <1>3 DEF InQueue
  <1>5. \A i \in Nat : Sent(i, q)' <=> Sent(i, q)
    BY <1>1 DEF Sent
  <1>6. Once(q)
    BY DEF OnceInv
  <1>7. \A i, j \in Nat : InQueue(i, q)' /\ InQueue(j, q)' => i = j
    BY <1>2, <1>4, <1>6 DEF Once
  <1> QED BY <1>1, <1>4, <1>5, <1>6, <1>7 DEF Once

LEMMA Worker_Once ==
    ASSUME IInv, OnceInv, NEW w \in Worker, WorkerThread(w), NEW q \in Requests
    PROVE  Once(q)'
  <1>1. UNCHANGED <<asked, answers, taken, m_entries>> /\ Once(q)
    BY DEF WorkerThread, WakeWorker, Run, Answer, PushResult, ClearProgress,
           SignalQueue, queueVars, mainVars, OnceInv
  <1>2. \A v \in Worker : Holds(v, q)' => Holds(v, q)
    BY DEF WorkerThread, WakeWorker, Run, Answer, PushResult, ClearProgress,
           SignalQueue, Holds, IInv, TypeParts, WorkerType
  <1>3. CASE UNCHANGED events
    BY <1>1, <1>2, <1>3, Once_Worker
  <1>4. CASE PushResult(w)
    <2> DEFINE e == [kind |-> "download", callback |-> m_api[w],
                     result |-> result[w]]
    <2>1. events' = Append(events, e) /\ e.callback = m_api[w]
          /\ events \in Seq(Event) /\ Len(events) \in Nat /\ e \in Event
      BY <1>4 DEF PushResult, IInv, TypeParts, WorkerType, WorkInv, EventType,
                  Event
    <2>2. e.callback = q <=> Holds(w, q)
      BY <1>4 DEF PushResult, IInv, WorkInv, Holds
    <2>3. ~Holds(w, q)'
      BY <1>4 DEF PushResult, IInv, TypeParts, WorkerType, Holds
    <2> HIDE DEF e
    <2>4. \A i \in Nat : Sent(i, q)' => \/ Sent(i, q)
                                        \/ i = Len(events) + 1 /\ Holds(w, q)
      BY <2>1, <2>2 DEF Sent
    <2>5. \A i \in Nat : InQueue(i, q)' <=> InQueue(i, q)
      BY <1>1 DEF InQueue
    <2> QED BY <1>1, <1>2, <2>1, <2>3, <2>4, <2>5 DEF Once
  <1> QED BY <1>3, <1>4 DEF WorkerThread, WakeWorker, Run, Answer,
                            ClearProgress, SignalQueue

LEMMA Next_OnceInv == IInv /\ OnceInv /\ [Next]_vars => OnceInv'
  <1> SUFFICES ASSUME IInv, OnceInv, [Next]_vars PROVE OnceInv'
    OBVIOUS
  <1>1. CASE UNCHANGED vars
    BY <1>1, Once_Worker
       DEF vars, queueVars, workerVars, mainVars, OnceInv, RoundInv, Holds
  <1>2. ASSUME Next, NEW q \in Requests PROVE Once(q)'
    <2>1. CASE UNCHANGED <<asked, answers, taken, m_entries, events, worker,
                           m_api, m_in_progress>>
      BY <2>1, Once_Worker DEF OnceInv, Holds
    <2>2. CASE Main \/ Wake \/ \E r \in Requests : Stop(r)
      BY <2>1, <2>2 DEF Main, ExitFlag, ExitSignal, PopWidgets, CloseQueue,
         CloseWorker, Cleanup, Wake, Stop, queueVars, workerVars, mainVars
    <2>3. CASE Lock
      <3>1. taken' = taken
        BY <2>3 DEF Lock, OnceInv, RoundInv
      <3> QED BY <2>1, <2>3, <3>1 DEF Lock, workerVars, mainVars
    <2> QED BY <1>1, <1>2, <2>2, <2>3, Add_Once, Launch_Once, Pop_Once,
               Scan_Once, Erase_Once, Worker_Once
            DEF Next, QueueThread, Gone, OnceInv
  <1> QED BY <1>1, <1>2, Next_RoundInv DEF OnceInv

LEMMA Init_OnceInv == Init => OnceInv
  BY DEF Init, OnceInv, RoundInv, Once, InQueue, Holds, Sent

(* No step calls a callback a second time, or one whose owner has gone: a  *)
(* request is in the queue, with one worker or in one event at a time, and *)
(* the main loop looks at the stop token again, as the owner may go after  *)
(* the worker has looked (download.cpp, evman, App::Loop).                 *)
THEOREM CallbacksComeOnce == Spec => CallbackOnce
  <1>1. ASSUME IInv, OnceInv, [Next]_vars
        PROVE  [\A r \in Requests : answers'[r] # answers[r] =>
                   r \notin stopped /\ answers[r] = 0]_vars
    <2>1. CASE UNCHANGED vars
      BY <2>1
    <2>2. ASSUME Next, NEW r \in Requests, answers'[r] # answers[r]
          PROVE  r \notin stopped /\ answers[r] = 0
      <3>1. CASE Pop
        <4>1. Head(events).kind = "download" /\ events # <<>>
              /\ answers' = IF MayCall(Head(events).callback)
                            THEN [answers EXCEPT ![Head(events).callback] =
                                    @ + 1]
                            ELSE answers
          BY <2>2, <3>1 DEF Pop
        <4>2. Head(events).callback = r /\ MayCall(r)
          BY <2>2, <4>1 DEF IInv, TypeParts, PlaceType
        <4>3. Sent(1, r)
          BY <4>1, <4>2 DEF Sent, IInv, TypeParts, EventType
        <4>4. Once(r) /\ 1 \in Nat
          BY <1>1 DEF OnceInv
        <4> QED BY <4>2, <4>3, <4>4 DEF MayCall, Once
      <3>2. CASE ~Pop
        BY <2>2, <3>2
           DEF Next, Add, Stop, Launch, Main, ExitFlag, ExitSignal, PopWidgets,
               CloseQueue, CloseWorker, Cleanup, QueueThread, Wake, Lock, Scan,
               Erase, WorkerThread, WakeWorker, Run, Answer, PushResult,
               ClearProgress, SignalQueue, Gone, vars, mainVars
      <3> QED BY <3>1, <3>2
    <2> QED BY <1>1, <2>1, <2>2
  <1>2. Spec => [](IInv /\ OnceInv)
    BY Init_IInv, Init_OnceInv, Next_IInv, Next_OnceInv, PTL DEF Spec
  <1> QED BY <1>1, <1>2, PTL DEF Spec, CallbackOnce
=============================================================================
