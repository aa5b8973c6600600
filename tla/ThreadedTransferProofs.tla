----------------------- MODULE ThreadedTransferProofs -----------------------
(***************************************************************************)
(* Theorems about ThreadedTransfer, for every size, capacity, callback and *)
(* mode the constants allow.                                               *)
(***************************************************************************)
EXTENDS ThreadedTransfer, TLAPS

-----------------------------------------------------------------------------
(* Ring buffers *)

LEMMA RingTypes ==
    ASSUME NEW V, NEW ring \in Ring(V), NEW v \in V
    PROVE  /\ ringbuf_push(ring, v) \in Ring(V)
           /\ ringbuf_pop(ring, v) \in Ring(V)
           /\ PushTakes(ring) \in V
           /\ PopTakes(ring) \in V
  BY CapAssumption
     DEF Ring, Slot, Index, SlotOf, Step, ringbuf_push, ringbuf_pop,
         PushTakes, PopTakes

LEMMA EmptyRingType ==
    ASSUME NEW V, NEW v \in V
    PROVE  EmptyRing(v) \in Ring(V)
  BY CapAssumption DEF Ring, Slot, Index, EmptyRing

-----------------------------------------------------------------------------
(* Types *)

(* A thread is past "out" only inside one of the monitor functions. *)
InCall == \A t \in Thread : stage[t] # "out" => pc[t] \in Call

TypeInv == TypeOK /\ InCall

LEMMA Goto_Type ==
    ASSUME TypeInv, NEW t \in Thread, NEW l \in Location, Goto(t, l)
    PROVE  /\ pc' \in [Thread -> Location]
           /\ stage' \in [Thread -> Stage]
           /\ InCall'
  BY DEF TypeInv, TypeOK, InCall, Goto, Stage

LEMMA Leave_Type ==
    ASSUME TypeInv, NEW t \in Thread, NEW c \in Call, NEW u \in Thread,
           NEW d \in Call, NEW l \in Location, Leave(t, c, u, d, l)
    PROVE  /\ pc' \in [Thread -> Location]
           /\ stage' \in [Thread -> Stage]
           /\ mutex' \in [Mutex -> Thread \cup {Nobody}]
           /\ InCall'
  <1>1. /\ pc' \in [Thread -> Location]
        /\ mutex' \in [Mutex -> Thread \cup {Nobody}]
    BY DEF TypeInv, TypeOK, Leave, Release
  <1> DEFINE s == [stage EXCEPT ![t] = IF l \in Call THEN "lock" ELSE "out"]
  <1>2. s \in [Thread -> Stage]
    BY DEF TypeInv, TypeOK, Stage
  <1>3. stage' = IF pc[u] = d /\ s[u] = "wait" THEN [s EXCEPT ![u] = "relock"] ELSE s
    BY DEF Leave, WakeOne
  <1>4. stage' \in [Thread -> Stage]
    BY <1>2, <1>3 DEF Stage
  <1>5. ASSUME NEW x \in Thread, stage'[x] # "out"
        PROVE  pc'[x] \in Call
    <2>1. CASE x = t
      BY <1>2, <1>3, <1>5, <2>1 DEF Leave, TypeInv, TypeOK
    <2>2. CASE x # t
      BY <1>2, <1>3, <1>5, <2>2 DEF Leave, TypeInv, TypeOK, InCall
    <2> QED BY <2>1, <2>2
  <1> QED BY <1>1, <1>4, <1>5 DEF InCall

LEMMA NothingRaised ==
    ASSUME TypeInv, UNCHANGED vars
    PROVE  TypeInv'
  BY DEF TypeInv, TypeOK, InCall, vars, monitors, offsets, outcome

(* The monitor steps: entering, waiting, reacquiring, giving up. *)
LEMMA Monitor_Type ==
    ASSUME TypeInv, NEW t \in Thread, Monitor(t)
    PROVE  TypeInv'
  <1> USE DEF TypeInv, TypeOK
  <1>1. CASE LockMutex(t)
    <2>1. pc[t] \in Call
      BY <1>1 DEF LockMutex, InCall
    <2>2. AfterEarlyReturn[pc[t]] \in Location
      BY <2>1 DEF AfterEarlyReturn, Location
    <2>3. mutex' \in [Mutex -> Thread \cup {Nobody}]
      BY <1>1 DEF LockMutex
    <2>4. CASE UNCHANGED <<pc, buf>> /\ \E l \in {"inside", "sleep"} :
                    stage' = [stage EXCEPT ![t] = l]
      BY <1>1, <2>1, <2>3, <2>4
         DEF LockMutex, Stage, InCall, monitors, offsets, outcome
    <2>5. CASE Goto(t, AfterEarlyReturn[pc[t]])
      <3>1. /\ pc' \in [Thread -> Location]
            /\ stage' \in [Thread -> Stage]
            /\ InCall'
        BY <2>2, <2>5, Goto_Type
      <3>2. buf' \in [Worker -> Vector]
        <4>1. <<>> \in Vector
          BY DEF Vector
        <4> QED BY <1>1, <4>1 DEF LockMutex
      <3> QED BY <1>1, <2>3, <3>1, <3>2 DEF LockMutex, monitors, offsets, outcome
    <2> QED BY <1>1, <2>4, <2>5 DEF LockMutex
  <1>2. CASE CondvarWait(t)
    BY <1>2 DEF CondvarWait, Stage, InCall, monitors, offsets, outcome
  <1>3. CASE Relock(t)
    BY <1>3 DEF Relock, Stage, InCall, monitors, offsets, outcome
  <1>4. CASE GiveUp(t)
    <2>1. /\ pc' \in [Thread -> Location]
          /\ stage' \in [Thread -> Stage]
          /\ InCall'
      BY <1>4, Goto_Type DEF GiveUp, Location
    <2>2. mutex' \in [Mutex -> Thread \cup {Nobody}]
      BY <1>4 DEF GiveUp, Release
    <2> QED BY <1>4, <2>1, <2>2 DEF GiveUp, Status, monitors, offsets
  <1> QED BY <1>1, <1>2, <1>3, <1>4 DEF Monitor

LEMMA End_Type ==
    ASSUME TypeInv, NEW t \in Worker, End(t)
    PROVE  TypeInv'
  <1> USE DEF TypeInv, TypeOK
  <1>1. CASE Exit(t)
    <2>1. /\ pc' \in [Thread -> Location]
          /\ stage' \in [Thread -> Stage]
          /\ InCall'
      BY <1>1, Goto_Type DEF Exit, Location, Thread
    <2> QED BY <1>1, <2>1 DEF Exit, monitors, offsets
  <1>2. CASE Report(t)
    <2>1. PICK u \in Thread, d \in Call : stage' = WakeOne(stage, u, d)
      BY <1>2 DEF Report, Thread, Worker, Call
    <2>2. stage' \in [Thread -> Stage]
      BY <2>1 DEF WakeOne, Stage
    <2>3. pc' \in [Thread -> Location]
      BY <1>2 DEF Report, Location
    <2>4. InCall'
      <3> SUFFICES ASSUME NEW x \in Thread, stage'[x] # "out"
                   PROVE  pc'[x] \in Call
        BY DEF InCall
      <3>1. stage[x] # "out"
        BY <2>1 DEF WakeOne
      <3>2. pc[x] \in Call
        BY <3>1 DEF InCall
      <3>3. x # t
        BY <1>2, <3>2 DEF Report, Call
      <3> QED BY <1>2, <3>2, <3>3 DEF Report
    <2>5. result' \in [Worker \cup {"pull"} -> Status]
      BY <1>2 DEF Report
    <2>6. done' \in BOOLEAN
      BY <1>2 DEF Report
    <2> QED BY <1>2, <2>2, <2>3, <2>4, <2>5, <2>6 DEF Report, monitors, offsets
  <1> QED BY <1>1, <1>2 DEF End

LEMMA SubVector ==
    ASSUME NEW v \in Vector
    PROVE  /\ <<>> \in Vector
           /\ Len(v) \in Nat
           /\ v # <<>> => Head(v) \in Unit
           /\ \A u \in Unit : Append(v, u) \in Vector
           /\ \A x \in Vector : v \o x \in Vector
  BY DEF Vector

LEMMA Reader_Type ==
    ASSUME TypeInv, Reader
    PROVE  TypeInv'
  <1> USE DEF TypeInv, TypeOK
  <1>1. CASE ReadLoop
    BY <1>1, Goto_Type
       DEF ReadLoop, Thread, Worker, Location, Call, monitors, offsets, outcome
  <1>2. CASE ReadData
    <2>1. /\ pc' \in [Thread -> Location]
          /\ stage' \in [Thread -> Stage]
          /\ InCall'
      BY <1>2, Goto_Type DEF ReadData, Thread, Worker, Location, Call
    <2>2. read_offset < Avail => <<read_offset + 1>> \in Vector
      BY TransferAssumption DEF Vector, Unit
    <2>3. read_offset' \in 0 .. Size /\ buf' \in [Worker -> Vector]
      BY <1>2, <2>2, TransferAssumption DEF ReadData
    <2>4. rc' \in [Worker -> Status]
      BY <1>2 DEF ReadData, Status
    <2> QED BY <1>2, <2>1, <2>3, <2>4 DEF ReadData, monitors
  <1>3. CASE SetDecompressBuf
    <2>1. /\ pc' \in [Thread -> Location]
          /\ stage' \in [Thread -> Stage]
          /\ mutex' \in [Mutex -> Thread \cup {Nobody}]
          /\ InCall'
      BY <1>3, Leave_Type DEF SetDecompressBuf, Thread, Worker, Location, Call
    <2>2. buf["read"] \in Vector
      BY DEF Worker
    <2>3. /\ read_buffers' \in Ring(Vector)
          /\ buf' \in [Worker -> Vector]
      BY <1>3, <2>2, RingTypes DEF SetDecompressBuf
    <2> QED BY <1>3, <2>1, <2>3 DEF SetDecompressBuf, offsets, outcome
  <1> QED BY <1>1, <1>2, <1>3 DEF Reader

LEMMA Decompressor_Type ==
    ASSUME TypeInv, Decompressor
    PROVE  TypeInv'
  <1> USE DEF TypeInv, TypeOK
  <1>1. CASE DecompressLoop
    BY <1>1, Goto_Type
       DEF DecompressLoop, Thread, Worker, Location, Call, monitors, offsets, outcome
  <1>2. CASE GetDecompressBuf
    <2> DEFINE v == PopTakes(read_buffers)
    <2>1. PICK l \in Location : Leave("decompress", "GetDecompressBuf", "read",
                                     "SetDecompressBuf", l)
      BY <1>2 DEF GetDecompressBuf, Location, Call
    <2>2. /\ pc' \in [Thread -> Location]
          /\ stage' \in [Thread -> Stage]
          /\ mutex' \in [Mutex -> Thread \cup {Nobody}]
          /\ InCall'
      BY <2>1, Leave_Type DEF Thread, Worker, Call
    <2>3. buf["decompress"] \in Vector
      BY DEF Worker
    <2>4. /\ read_buffers' \in Ring(Vector)
          /\ v \in Vector
          /\ buf' \in [Worker -> Vector]
      BY <1>2, <2>3, RingTypes DEF GetDecompressBuf
    <2>5. decompress_offset' \in Nat
      BY <1>2, <2>4, SubVector DEF GetDecompressBuf
    <2> QED BY <1>2, <2>2, <2>4, <2>5 DEF GetDecompressBuf, outcome
  <1>3. CASE Decompress
    <2>1. /\ pc' \in [Thread -> Location]
          /\ stage' \in [Thread -> Stage]
          /\ InCall'
      BY <1>3, Goto_Type DEF Decompress, Thread, Worker, Location, Call
    <2>2. Kept \subseteq Unit
      BY TransferAssumption DEF Unit
    <2>3. \A u \in Unit : Append(temp_buf, u) \in Vector
      BY SubVector
    <2>4. temp_buf' \in Vector
      BY <1>3, <2>2, <2>3 DEF Decompress
    <2>5. decompress_offset' \in Nat
      BY <1>3 DEF Decompress
    <2>6. rc' \in [Worker -> Status]
      BY <1>3 DEF Decompress, Status
    <2> QED BY <1>3, <2>1, <2>4, <2>5, <2>6 DEF Decompress, monitors
  <1>4. CASE Flush
    BY <1>4, Goto_Type
       DEF Flush, Thread, Worker, Location, Call, monitors, offsets, outcome
  <1>5. CASE SetWriteBuf
    <2>1. PICK l \in Location : Leave("decompress", "SetWriteBuf", "write",
                                     "GetWriteBuf", l)
      BY <1>5 DEF SetWriteBuf, Location
    <2>2. /\ pc' \in [Thread -> Location]
          /\ stage' \in [Thread -> Stage]
          /\ mutex' \in [Mutex -> Thread \cup {Nobody}]
          /\ InCall'
      BY <2>1, Leave_Type DEF Thread, Worker, Call
    <2>3. buf["decompress"] \in Vector /\ <<>> \in Vector
      BY SubVector DEF Worker
    <2>4. /\ write_buffers' \in Ring(Vector)
          /\ buf' \in [Worker -> Vector]
          /\ temp_buf' \in Vector
      <3>1. /\ ringbuf_push(write_buffers, temp_buf) \in Ring(Vector)
            /\ ringbuf_push(write_buffers, buf["decompress"]) \in Ring(Vector)
            /\ PushTakes(write_buffers) \in Vector
        BY <2>3, RingTypes
      <3> QED BY <1>5, <2>3, <3>1 DEF SetWriteBuf
    <2> QED BY <1>5, <2>2, <2>4 DEF SetWriteBuf, offsets, outcome
  <1> QED BY <1>1, <1>2, <1>3, <1>4, <1>5 DEF Decompressor

LEMMA Writer_Type ==
    ASSUME TypeInv, Writer
    PROVE  TypeInv'
  <1> USE DEF TypeInv, TypeOK
  <1>0. buf["write"] \in Vector
    BY DEF Worker
  <1>1. CASE WriteLoop
    BY <1>1, Goto_Type
       DEF WriteLoop, Thread, Worker, Location, Call, monitors, offsets, outcome
  <1>2. CASE GetWriteBuf
    <2>1. PICK l \in Location : Leave("write", "GetWriteBuf", "decompress",
                                     "SetWriteBuf", l)
      BY <1>2 DEF GetWriteBuf, Location, Call
    <2>2. /\ pc' \in [Thread -> Location]
          /\ stage' \in [Thread -> Stage]
          /\ mutex' \in [Mutex -> Thread \cup {Nobody}]
          /\ InCall'
      BY <2>1, Leave_Type DEF Thread, Worker, Call
    <2>3. /\ write_buffers' \in Ring(Vector)
          /\ buf' \in [Worker -> Vector]
      BY <1>0, <1>2, RingTypes DEF GetWriteBuf
    <2> QED BY <1>2, <2>2, <2>3 DEF GetWriteBuf, offsets, outcome
  <1>3. CASE WriteData
    <2>1. /\ pc' \in [Thread -> Location]
          /\ stage' \in [Thread -> Stage]
          /\ InCall'
      BY <1>3, Goto_Type DEF WriteData, Thread, Worker, Location, Call
    <2>2. /\ output \o buf["write"] \in Vector
          /\ Len(buf["write"]) \in Nat
      BY <1>0, SubVector
    <2>3. /\ output' \in Vector
          /\ write_offset' \in Nat
      <3> DEFINE more == output \o buf["write"]
                 n    == Len(buf["write"])
      <3>1. \/ output' = more /\ write_offset' = write_offset + n
            \/ UNCHANGED <<output, write_offset>>
        BY <1>3 DEF WriteData
      <3>2. more \in Vector /\ n \in Nat
        BY <2>2
      <3> HIDE DEF more, n
      <3> QED BY <3>1, <3>2
    <2>4. rc' \in [Worker -> Status]
      BY <1>3 DEF WriteData, Status
    <2> QED BY <1>3, <2>1, <2>3, <2>4 DEF WriteData, monitors
  <1>4. CASE SetPullBuf
    <2>1. /\ pc' \in [Thread -> Location]
          /\ stage' \in [Thread -> Stage]
          /\ mutex' \in [Mutex -> Thread \cup {Nobody}]
          /\ InCall'
      BY <1>4, Leave_Type DEF SetPullBuf, Thread, Worker, Location, Call
    <2>2. write_offset' \in Nat
      BY <1>0, <1>4, SubVector DEF SetPullBuf
    <2> QED BY <1>0, <1>4, <2>1, <2>2 DEF SetPullBuf, outcome
  <1> QED BY <1>1, <1>2, <1>3, <1>4 DEF Writer

LEMMA Main_Type ==
    ASSUME TypeInv, Main
    PROVE  TypeInv'
  <1> USE DEF TypeInv, TypeOK
  <1>1. CASE WaitForEvent
    BY <1>1, Goto_Type DEF WaitForEvent, Thread, Location, monitors, offsets, outcome
  <1>2. CASE PullStart
    BY <1>2, Goto_Type
       DEF PullStart, Thread, Location, Call, monitors, offsets, outcome
  <1>3. CASE GetPullBuf
    <2>1. /\ pc' \in [Thread -> Location]
          /\ stage' \in [Thread -> Stage]
          /\ mutex' \in [Mutex -> Thread \cup {Nobody}]
          /\ InCall'
      BY <1>3, Leave_Type DEF GetPullBuf, Thread, Worker, Location, Call
    <2>2. output' \in Vector /\ pull_buffer' \in Vector
      BY <1>3, SubVector DEF GetPullBuf
    <2> QED BY <1>3, <2>1, <2>2 DEF GetPullBuf, offsets, outcome
  <1>4. CASE GetPullBufPart
    <2>1. mutex' \in [Mutex -> Thread \cup {Nobody}]
      BY <1>4 DEF GetPullBufPart, Release
    <2> QED BY <1>4, <2>1, Goto_Type
            DEF GetPullBufPart, Thread, Location, offsets, outcome
  <1>5. ASSUME NEW r \in Status, PullEnd(r)
        PROVE  TypeInv'
    <2>1. mutex' \in [Mutex -> Thread \cup {Nobody}]
      BY <1>5 DEF PullEnd, Release
    <2>2. /\ pc' \in [Thread -> Location]
          /\ stage' \in [Thread -> Stage]
          /\ InCall'
      BY <1>5, Goto_Type DEF PullEnd, Thread, Location
    <2>3. result' \in [Worker \cup {"pull"} -> Status] /\ done' \in BOOLEAN
      BY <1>5 DEF PullEnd
    <2> QED BY <1>5, <2>1, <2>2, <2>3 DEF PullEnd, monitors, offsets
  <1>6. CASE WakeAllThreads
    BY <1>6 DEF WakeAllThreads, Stage, InCall, monitors, offsets, outcome
  <1>7. CASE Results
    BY <1>7, Goto_Type DEF Results, Thread, Location, Status, monitors, offsets
  <1>8. CASE Return
    BY <1>8, Goto_Type DEF Return, Thread, Location, monitors, offsets, outcome
  <1> QED BY <1>1, <1>2, <1>3, <1>4, <1>5, <1>6, <1>7, <1>8 DEF Main

LEMMA Init_Type == Init => TypeInv
  <1> SUFFICES ASSUME Init PROVE TypeInv
    OBVIOUS
  <1>1. <<>> \in Vector
    BY DEF Vector
  <1>2. EmptyRing(<<>>) \in Ring(Vector)
    BY <1>1, EmptyRingType
  <1>3. /\ pc \in [Thread -> Location]
        /\ stage \in [Thread -> Stage]
        /\ InCall
    BY DEF Init, InCall, Location, Stage
  <1>4. mutex \in [Mutex -> Thread \cup {Nobody}]
    BY DEF Init
  <1>5. 0 \in 0 .. Size
    BY TransferAssumption
  <1> QED BY <1>1, <1>2, <1>3, <1>4, <1>5 DEF Init, TypeInv, TypeOK, Status

LEMMA Next_Type == TypeInv /\ [Next]_vars => TypeInv'
  <1> SUFFICES ASSUME TypeInv, [Next]_vars PROVE TypeInv'
    OBVIOUS
  <1>1. CASE Cancel
    BY <1>1 DEF Cancel, TypeInv, TypeOK, InCall, monitors, offsets, outcome
  <1>2. CASE Finished
    BY <1>2, NothingRaised DEF Finished
  <1> QED BY <1>1, <1>2, NothingRaised, Monitor_Type, End_Type, Reader_Type,
             Decompressor_Type, Writer_Type, Main_Type
          DEF Next

LEMMA TypeInvariant == Spec => []TypeInv
  BY Init_Type, Next_Type, PTL DEF Spec

(* Every variable keeps its type; in particular the ring indices stay in   *)
(* range however often a push or a pop is made on a full or an empty ring. *)
THEOREM TypeCorrect == Spec => []TypeOK
  BY TypeInvariant, PTL DEF TypeInv

-----------------------------------------------------------------------------
(* Mutual exclusion *)

Waiting == pc["main"] \notin {"join", "closing", "returned"}

Works(t) == stage[t] \in {"sleep", "inside"}

LEMMA ExclusionUnfolded ==
    MutualExclusion <=>
        (Waiting => \A t \in Thread : Works(t) => mutex[MutexOf[pc[t]]] = t)
  BY DEF MutualExclusion, Waiting, Works

(* The join loop is never left for an earlier place. *)
LEMMA StaysJoined ==
    ASSUME TypeInv, [Next]_vars, ~Waiting
    PROVE  ~Waiting'
  <1> USE DEF Waiting, TypeInv, TypeOK, Thread
  <1>1. ASSUME NEW t \in Thread, Monitor(t) PROVE ~Waiting'
    <2>1. stage[t] # "out"
      BY <1>1 DEF Monitor, LockMutex, CondvarWait, Relock, GiveUp
    <2>2. t # "main"
      BY <2>1 DEF InCall, Call
    <2> QED BY <1>1, <2>2
            DEF Monitor, LockMutex, CondvarWait, Relock, GiveUp, Goto
  <1>2. ASSUME NEW t \in Worker, End(t) PROVE ~Waiting'
    BY <1>2 DEF End, Exit, Report, Goto, Worker
  <1>3. CASE Reader
    BY <1>3 DEF Reader, ReadLoop, ReadData, SetDecompressBuf, Goto, Leave
  <1>4. CASE Decompressor
    BY <1>4 DEF Decompressor, DecompressLoop, GetDecompressBuf, Decompress,
                Flush, SetWriteBuf, Goto, Leave
  <1>5. CASE Writer
    BY <1>5 DEF Writer, WriteLoop, GetWriteBuf, WriteData, SetPullBuf, Goto, Leave
  <1>6. CASE Main
    BY <1>6 DEF Main, WaitForEvent, PullStart, GetPullBuf, GetPullBufPart,
                PullEnd, WakeAllThreads, Results, Return, Goto, Leave
  <1>7. CASE Cancel \/ Finished \/ UNCHANGED vars
    BY <1>7 DEF Cancel, Finished, vars
  <1> QED BY <1>1, <1>2, <1>3, <1>4, <1>5, <1>6, <1>7 DEF Next

(* A step after which t is outside, and that leaves every mutex alone. *)
LEMMA Goto_Exclusion ==
    ASSUME TypeInv, MutualExclusion, Waiting, NEW t \in Thread, NEW l,
           Goto(t, l), UNCHANGED mutex
    PROVE  MutualExclusion'
  <1> SUFFICES ASSUME NEW x \in Thread, Works(x)'
               PROVE  (mutex[MutexOf[pc[x]]] = x)'
    BY ExclusionUnfolded DEF MutualExclusion, Works
  <1>1. x # t
    BY DEF Goto, Works, TypeInv, TypeOK
  <1>2. pc'[x] = pc[x] /\ stage'[x] = stage[x]
    BY <1>1 DEF Goto, TypeInv, TypeOK
  <1> QED BY <1>2, ExclusionUnfolded DEF Works

(* A step that releases the mutex of the call that t was working in. *)
LEMMA Release_Exclusion ==
    ASSUME TypeInv, MutualExclusion, Waiting, NEW t \in Thread,
           Works(t), Release(pc[t]), ~Works(t)',
           \A x \in Thread \ {t} : pc'[x] = pc[x] /\ (Works(x)' => Works(x))
    PROVE  MutualExclusion'
  <1> SUFFICES ASSUME NEW x \in Thread, Works(x)'
               PROVE  (mutex[MutexOf[pc[x]]] = x)'
    BY ExclusionUnfolded DEF MutualExclusion, Works
  <1>1. x # t /\ pc'[x] = pc[x] /\ Works(x)
    OBVIOUS
  <1>2. pc[x] \in Call /\ pc[t] \in Call
    BY <1>1 DEF Works, TypeInv, InCall
  <1>3. mutex[MutexOf[pc[x]]] = x /\ mutex[MutexOf[pc[t]]] = t
    BY <1>1, ExclusionUnfolded
  <1>4. MutexOf[pc[x]] \in Mutex
    BY <1>2 DEF MutexOf, Mutex
  <1> QED BY <1>1, <1>3, <1>4 DEF Release, TypeInv, TypeOK

LEMMA Leave_Exclusion ==
    ASSUME TypeInv, MutualExclusion, Waiting, NEW t \in Thread, NEW c \in Call,
           NEW u \in Thread, NEW d \in Call, NEW l, Leave(t, c, u, d, l)
    PROVE  MutualExclusion'
  <1>1. Works(t) /\ Release(pc[t])
    BY DEF Leave, Works
  <1> DEFINE s == [stage EXCEPT ![t] = IF l \in Call THEN "lock" ELSE "out"]
  <1>2. stage' = IF pc[u] = d /\ s[u] = "wait" THEN [s EXCEPT ![u] = "relock"] ELSE s
    BY DEF Leave, WakeOne
  <1>3. ~Works(t)'
    BY <1>2 DEF Works, TypeInv, TypeOK
  <1>4. ASSUME NEW x \in Thread \ {t}
        PROVE  pc'[x] = pc[x] /\ (Works(x)' => Works(x))
    BY <1>2 DEF Leave, Works, TypeInv, TypeOK
  <1> QED BY <1>1, <1>3, <1>4, Release_Exclusion

(* A step that takes the free mutex m for t. *)
LEMMA Lock_Exclusion ==
    ASSUME TypeInv, MutualExclusion, Waiting, NEW t \in Thread,
           stage[t] # "out", mutex[MutexOf[pc[t]]] = Nobody,
           mutex' = [mutex EXCEPT ![MutexOf[pc[t]]] = t],
           Works(t)' => pc'[t] = pc[t],
           \A x \in Thread \ {t} : pc'[x] = pc[x] /\ stage'[x] = stage[x]
    PROVE  MutualExclusion'
  <1> SUFFICES ASSUME NEW x \in Thread, Works(x)'
               PROVE  (mutex[MutexOf[pc[x]]] = x)'
    BY ExclusionUnfolded DEF MutualExclusion, Works
  <1>1. MutexOf[pc[t]] \in Mutex
    BY DEF TypeInv, InCall, MutexOf, Mutex, Call
  <1>2. CASE x = t
    BY <1>1, <1>2 DEF TypeInv, TypeOK
  <1>3. CASE x # t
    <2>1. pc'[x] = pc[x] /\ Works(x)
      BY <1>3 DEF Works
    <2>2. mutex[MutexOf[pc[x]]] = x
      BY <2>1, ExclusionUnfolded
    <2>3. x # Nobody
      BY DEF Thread, Worker, Nobody
    <2> QED BY <1>1, <2>1, <2>2, <2>3 DEF TypeInv, TypeOK
  <1> QED BY <1>2, <1>3

LEMMA Next_Exclusion == TypeInv /\ MutualExclusion /\ [Next]_vars => MutualExclusion'
  <1> SUFFICES ASSUME TypeInv, MutualExclusion, [Next]_vars, Waiting'
               PROVE  MutualExclusion'
    BY ExclusionUnfolded DEF MutualExclusion, Waiting
  <1>0. Waiting
    BY StaysJoined
  <1>a. /\ "read" \in Thread /\ "decompress" \in Thread
        /\ "write" \in Thread /\ "main" \in Thread
    BY DEF Thread, Worker
  <1>1. ASSUME NEW t \in Thread, Monitor(t) PROVE MutualExclusion'
    <2> USE DEF TypeInv, TypeOK, Works
    <2>1. CASE LockMutex(t)
      BY <1>0, <2>1, Lock_Exclusion DEF LockMutex, Goto
    <2>2. CASE CondvarWait(t)
      BY <1>0, <2>2, Release_Exclusion DEF CondvarWait, Release
    <2>3. CASE Relock(t)
      BY <1>0, <2>3, Lock_Exclusion DEF Relock
    <2>4. CASE GiveUp(t)
      BY <1>0, <2>4, Release_Exclusion DEF GiveUp, Goto
    <2> QED BY <1>1, <2>1, <2>2, <2>3, <2>4 DEF Monitor
  <1>2. ASSUME NEW t \in Worker, End(t) PROVE MutualExclusion'
    <2>1. CASE Exit(t)
      BY <1>0, <2>1, Goto_Exclusion DEF Exit, Thread
    <2>2. CASE Report(t)
      <3>1. ASSUME NEW x \in Thread, Works(x)'
            PROVE  Works(x) /\ pc'[x] = pc[x]
        <4>1. Works(x)
          BY <2>2, <3>1 DEF Report, WakeOne, Works, TypeInv, TypeOK
        <4>2. pc[x] \in Call
          BY <4>1 DEF Works, TypeInv, InCall
        <4>3. x # t
          BY <2>2, <4>2 DEF Report, Call
        <4> QED BY <2>2, <4>1, <4>3 DEF Report, TypeInv, TypeOK
      <3> QED BY <1>0, <2>2, <3>1, ExclusionUnfolded DEF Report, Works, MutualExclusion
    <2> QED BY <1>2, <2>1, <2>2 DEF End
  <1>3. CASE Reader
    BY <1>0, <1>3, <1>a, Goto_Exclusion, Leave_Exclusion
       DEF Reader, ReadLoop, ReadData, SetDecompressBuf, Call
  <1>4. CASE Decompressor
    BY <1>0, <1>4, <1>a, Goto_Exclusion, Leave_Exclusion
       DEF Decompressor, DecompressLoop, GetDecompressBuf, Decompress, Flush,
           SetWriteBuf, Call
  <1>5. CASE Writer
    BY <1>0, <1>5, <1>a, Goto_Exclusion, Leave_Exclusion
       DEF Writer, WriteLoop, GetWriteBuf, WriteData, SetPullBuf, Call
  <1>6. CASE Main
    <2>1. CASE GetPullBuf
      BY <1>0, <1>a, <2>1, Leave_Exclusion DEF GetPullBuf, Call
    <2>2. CASE GetPullBufPart
      BY <1>0, <1>a, <2>2, Release_Exclusion
         DEF GetPullBufPart, Goto, Works, Call, TypeInv, TypeOK
    <2>3. CASE WaitForEvent \/ PullStart
      BY <1>0, <1>a, <2>3, Goto_Exclusion DEF WaitForEvent, PullStart
    <2>4. CASE (\E r \in Status : PullEnd(r)) \/ WakeAllThreads \/ Results \/ Return
      BY <1>0, <2>4 DEF PullEnd, WakeAllThreads, Results, Return, Waiting, Goto,
                        TypeInv, TypeOK, Thread
    <2> QED BY <1>6, <2>1, <2>2, <2>3, <2>4 DEF Main
  <1>7. CASE Cancel \/ Finished \/ UNCHANGED vars
    BY <1>7 DEF Cancel, Finished, vars, MutualExclusion
  <1> QED BY <1>1, <1>2, <1>3, <1>4, <1>5, <1>6, <1>7 DEF Next

(* Until the join loop runs, only the owner of a monitor's mutex works     *)
(* inside it, in spite of the early returns that leave a mutex locked.     *)
THEOREM MonitorsExclude == Spec => []MutualExclusion
  <1>1. Init => MutualExclusion
    BY DEF Init, MutualExclusion
  <1> QED BY <1>1, TypeInvariant, Next_Exclusion, PTL DEF Spec

-----------------------------------------------------------------------------
(* Errors: what each worker returned and what is stored of it.  A running  *)
(* flag is cleared before the result is stored, so the join loop may see   *)
(* three cleared flags and a result missing; what saves the caller is that *)
(* it only starts to join once the write result is stored, or cancelled.   *)

(* The callbacks that read and decompress do not fail: ErrorIsReported is  *)
(* not true when they may (the join loop trusts flags that are cleared     *)
(* before the results are stored).                                         *)
OnlyTheEndFails == MayFail \subseteq {"write", "pull"}

Ends == {"exit", "report", "done"}

(* Why a worker may find that GetResults fails *)
Root == cancelled \/ result["pull"] = "fail" \/ (~Pull /\ result["write"] = "fail")

Places ==
    /\ pc["read"] \in {"loop", "rfunc", "SetDecompressBuf"} \cup Ends
    /\ pc["decompress"] \in {"loop", "GetDecompressBuf", "dfunc", "flush",
                             "SetWriteBuf"} \cup Ends
    /\ pc["write"] \in {"loop", "GetWriteBuf"} \cup Ends
                       \cup (IF Pull THEN {"SetPullBuf"} ELSE {"wfunc"})
    /\ pc["main"] \in {"join", "closing", "returned"}
                      \cup (IF Pull THEN {"pull", "GetPullBuf"} ELSE {"waiting"})

Reports ==
    /\ \A t \in Worker :
          /\ running[t] <=> pc[t] \notin {"report", "done"}
          /\ result[t] = IF pc[t] = "done" THEN rc[t] ELSE "ok"
          /\ rc[t] = "fail" => pc[t] \in Ends
          /\ rc[t] = "fail" => Root \/ (t = "write" /\ ~Pull)
    /\ result["pull"] = "fail" => Pull /\ ~Waiting

Joins ==
    /\ done => Root \/ pc["write"] = "done"
    /\ ~Pull /\ ~Waiting => cancelled \/ done
    /\ ret # "none" <=> pc["main"] \in {"closing", "returned"}
    /\ ret # "none" => \A t \in Worker : ~running[t]
    /\ ret = "ok" => \A t \in Worker : rc[t] = "ok"
    /\ ret = "ok" /\ ~Pull => pc["write"] = "done"
    /\ pc["main"] = "returned" => \A t \in Worker : pc[t] = "done"

ErrorInv == Places /\ Reports /\ Joins

-----------------------------------------------------------------------------

LEMMA ErrorUnchanged ==
    ASSUME ErrorInv, UNCHANGED <<pc, running, rc, result, cancelled, done, ret>>
    PROVE  ErrorInv'
  BY DEF ErrorInv, Places, Reports, Joins, Root, Waiting

LEMMA StoredResults ==
    ASSUME TypeInv, ErrorInv
    PROVE  GetResults <=> ~Root
  BY DEF TypeInv, TypeOK, ErrorInv, Reports, GetResults, Root, Worker, Status

(* A worker goes to another place of its function, and not to its end. *)
LEMMA Goto_Error ==
    ASSUME TypeInv, ErrorInv, NEW t \in Worker, NEW l,
           pc[t] \notin Ends, pc' = [pc EXCEPT ![t] = l],
           l \notin {"report", "done"},
           Places', UNCHANGED <<running, rc, result, cancelled, done, ret>>
    PROVE  ErrorInv'
  <1> USE DEF TypeInv, TypeOK
  <1>1. pc'["main"] = pc["main"]
    BY DEF Worker
  <1>2. Waiting' <=> Waiting
    BY <1>1 DEF Waiting
  <1>3. Root' <=> Root
    BY DEF Root
  <1>4. Reports'
    BY <1>2, <1>3 DEF ErrorInv, Reports, Ends, Thread
  <1>5. Joins'
    BY <1>1, <1>2, <1>3 DEF ErrorInv, Joins, Ends, Thread, Reports
  <1> QED BY <1>4, <1>5 DEF ErrorInv

LEMMA Monitor_Error ==
    ASSUME OnlyTheEndFails, TypeInv, ErrorInv, NEW t \in Thread, Monitor(t)
    PROVE  ErrorInv'
  <1> USE DEF TypeInv, TypeOK
  <1>1. CASE LockMutex(t)
    <2>1. CASE UNCHANGED pc
      BY <1>1, <2>1, ErrorUnchanged DEF LockMutex, outcome
    <2>2. CASE OtherSideStopped(pc[t]) /\ Goto(t, AfterEarlyReturn[pc[t]])
      <3>1. pc[t] \in Call \ {"SetPullBuf", "GetPullBuf"}
        BY <1>1, <2>2 DEF OtherSideStopped, Call
      <3>2. /\ t \in Worker
            /\ AfterEarlyReturn[pc[t]] \in {"flush", "exit", "loop"}
            /\ pc[t] = "GetDecompressBuf" => AfterEarlyReturn[pc[t]] = "flush"
        BY <3>1 DEF AfterEarlyReturn, Thread, ErrorInv, Places, Ends, Call
      <3>3. Places'
        BY <2>2, <3>1, <3>2 DEF ErrorInv, Places, Ends, Goto, Thread, Worker, AfterEarlyReturn, Call
      <3>4. pc[t] \notin Ends
        BY <3>1 DEF Ends, Call
      <3> QED BY <1>1, <2>2, <3>2, <3>3, <3>4, Goto_Error DEF LockMutex, outcome, Goto
    <2> QED BY <1>1, <2>1, <2>2 DEF LockMutex
  <1>2. CASE CondvarWait(t) \/ Relock(t)
    BY <1>2, ErrorUnchanged DEF CondvarWait, Relock, outcome
  <1>3. CASE GiveUp(t)
    <2>1. pc[t] \in Call
      BY <1>3 DEF GiveUp, InCall
    <2>2. Root
      BY <1>3, StoredResults DEF GiveUp
    <2>3. Root' <=> Root
      BY <1>3 DEF GiveUp, Root
    <2>4. pc' = [pc EXCEPT ![t] = "exit"] /\ t \in Worker
      BY <1>3 DEF GiveUp, Goto
    <2>5. Places'
      BY <2>4 DEF ErrorInv, Places, Ends, Worker
    <2>6. Waiting' <=> Waiting
      BY <2>4 DEF Waiting, Worker
    <2>7. Reports'
      BY <1>3, <2>1, <2>2, <2>3, <2>4, <2>6 DEF ErrorInv, Reports, Ends, Call, GiveUp
    <2>8. running[t]
      BY <2>1, <2>4 DEF ErrorInv, Reports, Call
    <2>9. Joins'
      BY <1>3, <2>1, <2>2, <2>3, <2>4, <2>6, <2>8 DEF ErrorInv, Joins, Ends, Call, GiveUp, Worker
    <2> QED BY <2>5, <2>7, <2>9 DEF ErrorInv
  <1> QED BY <1>1, <1>2, <1>3 DEF Monitor

LEMMA End_Error ==
    ASSUME OnlyTheEndFails, TypeInv, ErrorInv, NEW t \in Worker, End(t)
    PROVE  ErrorInv'
  <1> USE DEF TypeInv, TypeOK
  <1>0. pc'["main"] = pc["main"] /\ (Waiting' <=> Waiting)
    BY DEF End, Exit, Report, Goto, Waiting, Worker, Thread
  <1>1. CASE Exit(t)
    <2>1. Root' <=> Root
      BY <1>1 DEF Exit, Root
    <2>2. Places'
      BY <1>1 DEF ErrorInv, Places, Ends, Worker, Exit, Goto
    <2>3. Reports'
      BY <1>0, <1>1, <2>1 DEF ErrorInv, Reports, Ends, Exit, Goto, Thread
    <2>4. Joins'
      BY <1>0, <1>1, <2>1 DEF ErrorInv, Joins, Ends, Exit, Goto, Worker
    <2> QED BY <2>2, <2>3, <2>4 DEF ErrorInv
  <1>2. CASE Report(t)
    <2>1. Root => Root'
      BY <1>2 DEF Report, Root, ErrorInv, Reports, Worker
    <2>2. Places'
      BY <1>2 DEF ErrorInv, Places, Ends, Worker, Report
    <2>3. Reports'
      BY <1>0, <1>2, <2>1 DEF ErrorInv, Reports, Ends, Report, Worker, Thread
    <2>4. done' => Root' \/ pc'["write"] = "done"
      BY <1>2, <2>1 DEF ErrorInv, Joins, Reports, Report, Worker, Thread
    <2>5. Joins'
      BY <1>0, <1>2, <2>1, <2>4 DEF ErrorInv, Joins, Ends, Report, Worker
    <2> QED BY <2>2, <2>3, <2>5 DEF ErrorInv
  <1> QED BY <1>1, <1>2 DEF End

LEMMA Leave_Goes ==
    ASSUME NEW t, NEW c, NEW u, NEW d, NEW l, Leave(t, c, u, d, l)
    PROVE  pc[t] = c /\ pc' = [pc EXCEPT ![t] = l] /\ GetResults
  BY DEF Leave

LEMMA Reader_Error ==
    ASSUME OnlyTheEndFails, TypeInv, ErrorInv, Reader
    PROVE  ErrorInv'
  <1> USE DEF TypeInv, TypeOK, Thread, Worker
  <1>1. /\ pc["read"] \in {"loop", "rfunc", "SetDecompressBuf"}
        /\ \E l \in {"loop", "rfunc", "SetDecompressBuf", "exit"} :
              pc' = [pc EXCEPT !["read"] = l]
        /\ UNCHANGED <<running, rc, result, cancelled, done, ret>>
    BY DEF Reader, ReadLoop, ReadData, SetDecompressBuf, Leave, Goto, outcome,
           OnlyTheEndFails
  <1>2. Places'
    BY <1>1 DEF ErrorInv, Places, Ends
  <1> QED BY <1>1, <1>2, Goto_Error DEF Ends

LEMMA Decompressor_Error ==
    ASSUME OnlyTheEndFails, TypeInv, ErrorInv, Decompressor
    PROVE  ErrorInv'
  <1> USE DEF TypeInv, TypeOK, Thread, Worker
  <1>1. /\ pc["decompress"] \in {"loop", "GetDecompressBuf", "dfunc", "flush",
                                "SetWriteBuf"}
        /\ \E l \in {"loop", "GetDecompressBuf", "dfunc", "flush",
                      "SetWriteBuf", "exit"} :
              pc' = [pc EXCEPT !["decompress"] = l]
        /\ UNCHANGED <<running, rc, result, cancelled, done, ret>>
    BY DEF Decompressor, DecompressLoop, GetDecompressBuf, Decompress, Flush,
           SetWriteBuf, Leave, Goto, outcome, OnlyTheEndFails
  <1>2. Places'
    BY <1>1 DEF ErrorInv, Places, Ends
  <1> QED BY <1>1, <1>2, Goto_Error DEF Ends

LEMMA Writer_Error ==
    ASSUME OnlyTheEndFails, TypeInv, ErrorInv, Writer
    PROVE  ErrorInv'
  <1> USE DEF TypeInv, TypeOK, Thread, Worker
  <1> DEFINE here == {"loop", "GetWriteBuf"}
                     \cup IF Pull THEN {"SetPullBuf"} ELSE {"wfunc"}
  <1>1. /\ pc["write"] \in here
        /\ \E l \in here \cup {"exit"} : pc' = [pc EXCEPT !["write"] = l]
        /\ UNCHANGED <<running, result, cancelled, done, ret>>
        /\ \/ UNCHANGED rc
           \/ /\ pc["write"] = "wfunc" /\ pc' = [pc EXCEPT !["write"] = "exit"]
              /\ rc' = [rc EXCEPT !["write"] = "fail"]
    BY DEF Writer, WriteLoop, GetWriteBuf, WriteData, SetPullBuf, Leave, Goto,
           outcome, ErrorInv, Places, Ends
  <1>2. Places'
    BY <1>1 DEF ErrorInv, Places, Ends
  <1>3. CASE UNCHANGED rc
    BY <1>1, <1>2, <1>3, Goto_Error DEF Ends
  <1>4. CASE /\ pc["write"] = "wfunc" /\ pc' = [pc EXCEPT !["write"] = "exit"]
             /\ rc' = [rc EXCEPT !["write"] = "fail"]
    <2>1. ~Pull
      BY <1>4 DEF ErrorInv, Places, Ends
    <2>2. (Waiting' <=> Waiting) /\ (Root' <=> Root)
      BY <1>1, <1>4 DEF Waiting, Root
    <2>3. Reports'
      BY <1>1, <1>4, <2>1, <2>2 DEF ErrorInv, Reports, Ends
    <2>4. running["write"]
      BY <1>4 DEF ErrorInv, Reports
    <2>5. Joins'
      BY <1>1, <1>4, <2>2, <2>4 DEF ErrorInv, Joins
    <2> QED BY <1>2, <2>3, <2>5 DEF ErrorInv
  <1> QED BY <1>1, <1>3, <1>4

LEMMA Main_Error ==
    ASSUME OnlyTheEndFails, TypeInv, ErrorInv, Main
    PROVE  ErrorInv'
  <1> USE DEF TypeInv, TypeOK, Thread, Worker
  <1>1. CASE WaitForEvent \/ PullStart
    <2>1. /\ UNCHANGED outcome /\ UNCHANGED cancelled
          /\ \/ /\ pc["main"] = "waiting" /\ pc' = [pc EXCEPT !["main"] = "join"]
                /\ cancelled \/ done
             \/ /\ pc["main"] = "pull"
                /\ pc' = [pc EXCEPT !["main"] = "GetPullBuf"]
      BY <1>1 DEF WaitForEvent, PullStart, Goto
    <2>2. Places'
      BY <2>1 DEF ErrorInv, Places
    <2>3. (Root' <=> Root) /\ (Waiting' => Waiting)
      BY <2>1 DEF Root, outcome, Waiting
    <2>4. Reports'
      BY <2>1, <2>3 DEF ErrorInv, Reports, outcome
    <2>5. Joins'
      BY <2>1, <2>3 DEF ErrorInv, Places, Joins, outcome, Waiting
    <2> QED BY <2>2, <2>4, <2>5 DEF ErrorInv
  <1>2. CASE GetPullBuf \/ GetPullBufPart
    <2>1. /\ UNCHANGED outcome /\ UNCHANGED cancelled
          /\ pc["main"] = "GetPullBuf" /\ pc' = [pc EXCEPT !["main"] = "pull"]
      BY <1>2 DEF GetPullBuf, GetPullBufPart, Goto, Leave
    <2>2. Places'
      BY <2>1 DEF ErrorInv, Places
    <2>3. (Root' <=> Root) /\ (Waiting' <=> Waiting)
      BY <2>1 DEF Root, outcome, Waiting
    <2>4. Reports'
      BY <2>1, <2>3 DEF ErrorInv, Reports, outcome
    <2>5. Joins'
      BY <2>1, <2>3 DEF ErrorInv, Places, Joins, outcome, Waiting
    <2> QED BY <2>2, <2>4, <2>5 DEF ErrorInv
  <1>3. ASSUME NEW r \in Status, PullEnd(r) PROVE ErrorInv'
    <2>1. /\ UNCHANGED <<running, rc, ret, cancelled>>
          /\ pc["main"] \in {"pull", "GetPullBuf"}
          /\ pc' = [pc EXCEPT !["main"] = "join"]
          /\ result' = [result EXCEPT !["pull"] = r]
          /\ done' = (done \/ r = "fail")
      BY <1>3 DEF PullEnd, Goto
    <2>2. Pull /\ Waiting /\ ~Waiting'
      BY <2>1 DEF ErrorInv, Places, Waiting
    <2>3. result["pull"] = "ok"
      BY <2>2 DEF ErrorInv, Reports, Status
    <2>4. (Root => Root') /\ (r = "fail" => Root')
      BY <2>1, <2>3 DEF Root
    <2>5. Places'
      BY <2>1, <2>2 DEF ErrorInv, Places
    <2>6. Reports'
      BY <2>1, <2>2, <2>4 DEF ErrorInv, Reports
    <2>7. Joins'
      BY <2>1, <2>2, <2>4 DEF ErrorInv, Joins, Places
    <2> QED BY <2>5, <2>6, <2>7 DEF ErrorInv
  <1>4. CASE WakeAllThreads
    BY <1>4, ErrorUnchanged DEF WakeAllThreads, outcome
  <1>5. CASE Results
    <2>1. /\ pc["main"] = "join" /\ pc' = [pc EXCEPT !["main"] = "closing"]
          /\ \A t \in Worker : ~running[t]
          /\ ret' = IF GetResults THEN "ok" ELSE "fail"
          /\ UNCHANGED <<running, rc, result, done, cancelled>>
      BY <1>5 DEF Results, Goto
    <2>2. ~Waiting /\ ~Waiting' /\ (Root' <=> Root)
      BY <2>1 DEF Waiting, Root
    <2>3. Places'
      BY <2>1 DEF ErrorInv, Places
    <2>4. Reports'
      BY <2>1, <2>2 DEF ErrorInv, Reports
    <2>5. ret' = "ok" => ~Root
      BY <2>1, StoredResults
    <2>6. ret' = "ok" /\ ~Pull => pc["write"] = "done"
      BY <2>2, <2>5 DEF ErrorInv, Joins, Root
    <2>7. ret' = "ok" => \A t \in Worker : rc[t] = "ok"
      BY <2>5, <2>6 DEF ErrorInv, Reports, Root, Status
    <2>8. Joins'
      BY <2>1, <2>2, <2>5, <2>6, <2>7 DEF ErrorInv, Joins
    <2> QED BY <2>3, <2>4, <2>8 DEF ErrorInv
  <1>6. CASE Return
    <2>1. /\ pc["main"] = "closing" /\ pc' = [pc EXCEPT !["main"] = "returned"]
          /\ \A t \in Worker : pc[t] = "done"
          /\ UNCHANGED outcome /\ UNCHANGED cancelled
      BY <1>6 DEF Return, Goto
    <2>2. ~Waiting /\ ~Waiting' /\ (Root' <=> Root)
      BY <2>1 DEF Waiting, Root, outcome
    <2>3. Places'
      BY <2>1 DEF ErrorInv, Places
    <2>4. Reports'
      BY <2>1, <2>2 DEF ErrorInv, Reports, outcome
    <2>5. Joins'
      BY <2>1, <2>2 DEF ErrorInv, Joins, outcome
    <2> QED BY <2>3, <2>4, <2>5 DEF ErrorInv
  <1> QED BY <1>1, <1>2, <1>3, <1>4, <1>5, <1>6 DEF Main

LEMMA Init_Error == Init => ErrorInv
  BY DEF Init, ErrorInv, Places, Reports, Joins, Waiting, Thread, Worker

LEMMA Next_Error ==
    ASSUME OnlyTheEndFails, TypeInv, ErrorInv, [Next]_vars
    PROVE  ErrorInv'
  <1>1. CASE Cancel
    <2>1. cancelled' /\ Root' /\ UNCHANGED <<pc, outcome>>
      BY <1>1 DEF Cancel, Root
    <2> QED BY <2>1 DEF ErrorInv, Places, Reports, Joins, outcome, Waiting
  <1>2. CASE Finished \/ UNCHANGED vars
    BY <1>2, ErrorUnchanged DEF Finished, vars, outcome
  <1> QED BY <1>1, <1>2, Monitor_Error, End_Error, Reader_Error,
             Decompressor_Error, Writer_Error, Main_Error DEF Next

LEMMA ErrorInvariant ==
    ASSUME OnlyTheEndFails
    PROVE  Spec => []ErrorInv
  <1>1. TypeInv /\ ErrorInv /\ [Next]_vars => ErrorInv'
    BY Next_Error
  <1> QED BY <1>1, Init_Error, TypeInvariant, PTL DEF Spec

(* A transfer whose write callback failed, or whose consumer stopped with  *)
(* an error, does not return success: the result is stored before the join *)
(* loop can see that all workers have ended.                               *)
THEOREM ErrorsAreReported ==
    ASSUME OnlyTheEndFails
    PROVE  Spec => []ErrorIsReported
  <1>1. TypeInv /\ ErrorInv => ErrorIsReported
    BY DEF TypeInv, TypeOK, ErrorInv, Joins, ErrorIsReported, Status
  <1> QED BY <1>1, ErrorInvariant, TypeInvariant, PTL

-----------------------------------------------------------------------------
(* The pipeline of a plain copy *)

(* Nothing is decompressed and the source holds what was announced.  The   *)
(* order is not kept otherwise: a thread woken by the end of the one       *)
(* before it pops an empty ring and gets the block an earlier pop left.    *)
PlainCopy == OnlyTheEndFails /\ ~DFunc /\ Avail = Size

(* The caller still waits or pulls and nothing went wrong: until then the  *)
(* pipeline below is intact; afterwards the rings are torn down in any     *)
(* order and only what was written counts.                                 *)
Live == Waiting /\ ~cancelled /\ rc["write"] = "ok"

One(b) == IF b THEN 1 ELSE 0

(* Blocks that the reader, the decompressor and the writer have in hand *)
rHold == One(pc["read"] = "SetDecompressBuf")
dHold == One(pc["decompress"] = "SetWriteBuf")
wHold == One(pc["write"] \in {"wfunc", "SetPullBuf"})

(* The index k steps after this one *)
Ahead(index, k) == IF index + k >= 2 * Cap THEN index + k - 2 * Cap ELSE index + k

(* The ring holds the n blocks after the first b. *)
Holds(ring, b, n) ==
    /\ n \in 0 .. Cap
    /\ ringbuf_size(ring) = n
    /\ \A k \in 0 .. n - 1 : ring.slot[SlotOf(Ahead(ring.r, k))] = <<b + k + 1>>

(* Blocks waiting in the two rings *)
ToDecompress == read_offset - rHold - decompress_offset
ToWrite == decompress_offset - dHold - write_offset - wHold

(* t will not look at the ring again before it pushes or pops. *)
Entered(t, c) == pc[t] = c /\ stage[t] \in {"relock", "inside"}

-----------------------------------------------------------------------------
(* Rings that hold consecutive blocks *)

LEMMA EmptyHolds ==
    ASSUME NEW v, NEW b
    PROVE  Holds(EmptyRing(v), b, 0)
  BY CapAssumption DEF Holds, EmptyRing, ringbuf_size

(* The indices run modulo 2 * Cap. *)
LEMMA Indices ==
    ASSUME NEW r \in 0 .. 2 * Cap - 1, NEW k \in 0 .. Cap - 1
    PROVE  /\ SlotOf(Ahead(r, k)) \in 0 .. Cap - 1
           /\ Ahead(r, 0) = r
           /\ k > 0 => Ahead(Step(r), k - 1) = Ahead(r, k)
           /\ \A j \in 0 .. Cap - 1 :
                 SlotOf(Ahead(r, j)) = SlotOf(Ahead(r, k)) => j = k
  <1>1. Cap \in Nat \ {0}
    BY CapAssumption
  <1> QED BY <1>1 DEF SlotOf, Ahead, Step

LEMMA Sizes ==
    ASSUME NEW ring, ring.r \in 0 .. 2 * Cap - 1, ring.w \in 0 .. 2 * Cap - 1,
           NEW n \in 0 .. Cap, ringbuf_size(ring) = n
    PROVE  /\ n < Cap => \A new : new.r = ring.r /\ new.w = Step(ring.w)
                                     => ringbuf_size(new) = n + 1
           /\ n > 0 => \A new : new.r = Step(ring.r) /\ new.w = ring.w
                                   => ringbuf_size(new) = n - 1
           /\ n < Cap => ring.w = Ahead(ring.r, n)
  <1>1. PICK r \in 0 .. 2 * Cap - 1, w \in 0 .. 2 * Cap - 1 :
            ring.r = r /\ ring.w = w
    OBVIOUS
  <1>2. Cap \in Nat \ {0}
    BY CapAssumption
  <1>3. n = IF w < r THEN w - r + 2 * Cap ELSE w - r
    BY <1>1 DEF ringbuf_size
  <1>4. n < Cap => n + 1 = IF Step(w) < r THEN Step(w) - r + 2 * Cap ELSE Step(w) - r
    BY <1>2, <1>3 DEF Step
  <1>5. n > 0 => n - 1 = IF w < Step(r) THEN w - Step(r) + 2 * Cap ELSE w - Step(r)
    BY <1>2, <1>3 DEF Step
  <1>6. n < Cap => w = Ahead(r, n)
    BY <1>2, <1>3 DEF Ahead
  <1> QED BY <1>1, <1>4, <1>5, <1>6 DEF ringbuf_size

LEMMA PushHolds ==
    ASSUME NEW ring \in Ring(Vector), NEW b \in Nat, NEW n \in Nat, n < Cap,
           Holds(ring, b, n)
    PROVE  Holds(ringbuf_push(ring, <<b + n + 1>>), b, n + 1)
  <1> DEFINE v == <<b + n + 1>>
             new == ringbuf_push(ring, v)
  <1>1. /\ new.slot = [ring.slot EXCEPT ![SlotOf(ring.w)] = v]
        /\ new.r = ring.r /\ new.w = Step(ring.w)
    BY DEF ringbuf_push
  <1>2. /\ ring.slot \in [0 .. Cap - 1 -> Vector]
        /\ ring.r \in 0 .. 2 * Cap - 1 /\ ring.w \in 0 .. 2 * Cap - 1
    BY DEF Ring, Slot, Index
  <1>3. ringbuf_size(ring) = n /\ Cap \in Nat \ {0}
    BY CapAssumption DEF Holds
  <1> HIDE DEF new, v
  <1>4. ringbuf_size(new) = n + 1
    BY <1>1, <1>2, <1>3, Sizes
  <1>5. SlotOf(ring.w) = SlotOf(Ahead(ring.r, n)) /\ SlotOf(ring.w) \in 0 .. Cap - 1
    <2>1. n \in 0 .. Cap - 1 /\ n \in 0 .. Cap
      BY <1>3
    <2>2. ring.w = Ahead(ring.r, n)
      BY <1>2, <1>3, <2>1, Sizes
    <2> QED BY <1>2, <2>1, <2>2, Indices
  <1>6. ASSUME NEW k \in 0 .. n
        PROVE  new.slot[SlotOf(Ahead(ring.r, k))] = <<b + k + 1>>
    <2>1. CASE k = n
      BY <1>1, <1>2, <1>5, <2>1 DEF v
    <2>2. CASE k # n
      <3>1. k \in 0 .. n - 1 /\ k \in 0 .. Cap - 1 /\ n \in 0 .. Cap - 1
        BY <1>3, <2>2
      <3>2. SlotOf(Ahead(ring.r, k)) # SlotOf(Ahead(ring.r, n))
        BY <1>2, <2>2, <3>1, Indices
      <3>3. SlotOf(Ahead(ring.r, k)) \in 0 .. Cap - 1
        BY <1>2, <3>1, Indices
      <3>4. ring.slot[SlotOf(Ahead(ring.r, k))] = <<b + k + 1>>
        BY <3>1 DEF Holds
      <3> QED BY <1>1, <1>2, <1>5, <3>2, <3>3, <3>4
    <2> QED BY <2>1, <2>2
  <1>7. \A k \in 0 .. (n + 1) - 1 : k \in 0 .. n
    OBVIOUS
  <1> QED BY <1>1, <1>3, <1>4, <1>6, <1>7 DEF Holds, new, v

LEMMA PopHolds ==
    ASSUME NEW ring \in Ring(Vector), NEW b \in Nat, NEW n \in Nat, n > 0,
           Holds(ring, b, n), NEW v
    PROVE  /\ PopTakes(ring) = <<b + 1>>
           /\ Holds(ringbuf_pop(ring, v), b + 1, n - 1)
  <1> DEFINE new == ringbuf_pop(ring, v)
  <1>1. /\ new.slot = [ring.slot EXCEPT ![SlotOf(ring.r)] = v]
        /\ new.r = Step(ring.r) /\ new.w = ring.w
    BY DEF ringbuf_pop
  <1>2. /\ ring.slot \in [0 .. Cap - 1 -> Vector]
        /\ ring.r \in 0 .. 2 * Cap - 1 /\ ring.w \in 0 .. 2 * Cap - 1
    BY DEF Ring, Slot, Index
  <1>3. ringbuf_size(ring) = n /\ Cap \in Nat \ {0} /\ n <= Cap
    BY CapAssumption DEF Holds
  <1> HIDE DEF new
  <1>4. ringbuf_size(new) = n - 1
    BY <1>1, <1>2, <1>3, Sizes
  <1>5. 0 \in 0 .. Cap - 1 /\ Ahead(ring.r, 0) = ring.r
    <2>1. 0 \in 0 .. Cap - 1
      BY <1>3
    <2> QED BY <1>2, <2>1, Indices
  <1>6. PopTakes(ring) = <<b + 1>>
    <2>1. 0 \in 0 .. n - 1 /\ b + 0 + 1 = b + 1
      OBVIOUS
    <2> QED BY <1>5, <2>1 DEF Holds, PopTakes
  <1>7. ASSUME NEW k \in 0 .. (n - 1) - 1
        PROVE  new.slot[SlotOf(Ahead(new.r, k))] = <<(b + 1) + k + 1>>
    <2>1. /\ k + 1 \in 0 .. n - 1 /\ k + 1 \in 0 .. Cap - 1 /\ 0 \in 0 .. Cap - 1
          /\ b + (k + 1) + 1 = (b + 1) + k + 1 /\ (k + 1) - 1 = k
      BY <1>3
    <2>2. Ahead(new.r, k) = Ahead(ring.r, k + 1)
      <3>1. k + 1 > 0
        OBVIOUS
      <3>2. Ahead(Step(ring.r), (k + 1) - 1) = Ahead(ring.r, k + 1)
        BY <1>2, <2>1, <3>1, Indices
      <3> QED BY <1>1, <2>1, <3>2
    <2>3. /\ SlotOf(Ahead(ring.r, k + 1)) # SlotOf(Ahead(ring.r, 0))
          /\ SlotOf(Ahead(ring.r, k + 1)) \in 0 .. Cap - 1
      BY <1>2, <2>1, Indices
    <2>4. ring.slot[SlotOf(Ahead(ring.r, k + 1))] = <<b + (k + 1) + 1>>
      BY <2>1 DEF Holds
    <2> QED BY <1>1, <1>2, <1>5, <2>1, <2>2, <2>3, <2>4
  <1>8. n - 1 \in 0 .. Cap
    BY <1>3
  <1> QED BY <1>4, <1>6, <1>7, <1>8 DEF Holds, new

-----------------------------------------------------------------------------
(* The invariant of the pipeline.  The offsets say which block is where: a *)
(* thread that got into a monitor finds room, or a block, whatever the     *)
(* wake-ups did, and a thread ends only when it has passed on every block. *)

ReadSide ==
    /\ Holds(read_buffers, decompress_offset, ToDecompress)
    /\ pc["read"] = "SetDecompressBuf" => buf["read"] = <<read_offset>>
    /\ pc["read"] = "rfunc" => read_offset < Size
    /\ pc["read"] \in Ends => read_offset = Size
    /\ Entered("read", "SetDecompressBuf") => ToDecompress < Cap
    /\ pc["decompress"] = "GetDecompressBuf" => decompress_offset < Size
    /\ Entered("decompress", "GetDecompressBuf") => ToDecompress > 0
    /\ pc["decompress"] \in Ends \cup {"flush"} => decompress_offset = Size

WriteSide ==
    /\ Holds(write_buffers, write_offset + wHold, ToWrite)
    /\ pc["decompress"] = "SetWriteBuf" => buf["decompress"] = <<decompress_offset>>
    /\ wHold = 1 => buf["write"] = <<write_offset + 1>>
    /\ Entered("decompress", "SetWriteBuf") => ToWrite < Cap
    /\ pc["write"] = "GetWriteBuf" => write_offset < Size
    /\ Entered("write", "GetWriteBuf") => ToWrite > 0
    /\ pc["write"] \in Ends => write_offset = Size

PullSide ==
    /\ pull_buffer = <<>> \/ pull_buffer = <<write_offset>>
    /\ ~Pull => pull_buffer = <<>>
    /\ Len(output) = write_offset - Len(pull_buffer)
    /\ Entered("write", "SetPullBuf") => pull_buffer = <<>>
    /\ Entered("main", "GetPullBuf") => pull_buffer # <<>>

Calm == temp_buf = <<>> /\ pc["decompress"] # "dfunc" /\ \A t \in Worker : rc[t] = "ok"

Pipe == Calm /\ ReadSide /\ WriteSide /\ PullSide

PipeInv == Live => Pipe

-----------------------------------------------------------------------------

LEMMA StaysLive ==
    ASSUME TypeInv, ErrorInv, [Next]_vars, Live'
    PROVE  Live
  <1> USE DEF TypeInv, TypeOK
  <1>1. Waiting
    BY StaysJoined DEF Live
  <1>2. ~cancelled
    <2>1. cancelled' = cancelled \/ cancelled' = TRUE
      BY DEF Next, Monitor, LockMutex, CondvarWait, Relock, GiveUp, End, Exit,
             Report, Reader, ReadLoop, ReadData, SetDecompressBuf, Decompressor,
             DecompressLoop, GetDecompressBuf, Decompress, Flush, SetWriteBuf,
             Writer, WriteLoop, GetWriteBuf, WriteData, SetPullBuf, Main,
             WaitForEvent, PullStart, GetPullBuf, GetPullBufPart, PullEnd,
             WakeAllThreads, Results, Return, Cancel, Finished, vars
    <2> QED BY <2>1 DEF Live
  <1>3. rc["write"] = "ok"
    <2>1. rc' = rc \/ \E t \in Worker : rc' = [rc EXCEPT ![t] = "fail"]
      BY DEF Next, Monitor, LockMutex, CondvarWait, Relock, GiveUp, End, Exit,
             Report, Reader, ReadLoop, ReadData, SetDecompressBuf, Decompressor,
             DecompressLoop, GetDecompressBuf, Decompress, Flush, SetWriteBuf,
             Writer, WriteLoop, GetWriteBuf, WriteData, SetPullBuf, Main,
             WaitForEvent, PullStart, GetPullBuf, GetPullBufPart, PullEnd,
             WakeAllThreads, Results, Return, Cancel, Finished, vars, outcome,
             Worker
    <2> QED BY <2>1 DEF Live, Worker
  <1> QED BY <1>1, <1>2, <1>3 DEF Live

LEMMA LiveIsSound ==
    ASSUME TypeInv, ErrorInv, Live
    PROVE  GetResults
  BY StoredResults DEF TypeInv, TypeOK, ErrorInv, Reports, Live, Root, Worker,
                       Status

(* Only stages change, and who gets into a monitor had waited for what he  *)
(* wants, was woken for it before, or finds it there.                      *)
LEMMA Stage_Pipe ==
    ASSUME TypeInv, Pipe,
           UNCHANGED <<pc, buf, temp_buf, monitors, offsets, rc, output>>,
           \A t \in Thread : \A c \in Call :
               Entered(t, c)' => Entered(t, c) \/ ~NotReady(c)
    PROVE  Pipe'
  <1> USE DEF TypeInv, TypeOK, Pipe
  <1>1. /\ rHold' = rHold /\ dHold' = dHold /\ wHold' = wHold
        /\ ToDecompress' = ToDecompress /\ ToWrite' = ToWrite
    BY DEF rHold, dHold, wHold, ToDecompress, ToWrite, offsets
  <1>2. Calm'
    BY DEF Calm
  <1>3. ReadSide'
    <2>1. Entered("read", "SetDecompressBuf")' => ToDecompress < Cap
      <3>1. ~NotReady("SetDecompressBuf") => ToDecompress < Cap
        BY CapAssumption DEF NotReady, ReadSide, Holds, ringbuf_free
      <3> QED BY <3>1 DEF ReadSide, Thread, Worker, Call
    <2>2. Entered("decompress", "GetDecompressBuf")' => ToDecompress > 0
      <3>1. ~NotReady("GetDecompressBuf") => ToDecompress > 0
        BY CapAssumption DEF NotReady, ReadSide, Holds
      <3> QED BY <3>1 DEF ReadSide, Thread, Worker, Call
    <2>3. Holds(read_buffers, decompress_offset, ToDecompress)'
      BY <1>1 DEF ReadSide, monitors, offsets, Holds
    <2> QED BY <1>1, <2>1, <2>2, <2>3 DEF ReadSide, offsets
  <1>4. WriteSide'
    <2>1. Entered("decompress", "SetWriteBuf")' => ToWrite < Cap
      <3>1. ~NotReady("SetWriteBuf") => ToWrite < Cap
        BY CapAssumption DEF NotReady, WriteSide, Holds, ringbuf_free
      <3> QED BY <3>1 DEF WriteSide, Thread, Worker, Call
    <2>2. Entered("write", "GetWriteBuf")' => ToWrite > 0
      <3>1. ~NotReady("GetWriteBuf") => ToWrite > 0
        BY CapAssumption DEF NotReady, WriteSide, Holds
      <3> QED BY <3>1 DEF WriteSide, Thread, Worker, Call
    <2>3. Holds(write_buffers, write_offset + wHold, ToWrite)'
      BY <1>1 DEF WriteSide, monitors, offsets, Holds
    <2> QED BY <1>1, <2>1, <2>2, <2>3 DEF WriteSide, offsets
  <1>5. PullSide'
    BY DEF PullSide, monitors, offsets, NotReady, Thread, Worker, Call
  <1> QED BY <1>2, <1>3, <1>4, <1>5

LEMMA Monitor_Pipe ==
    ASSUME PlainCopy, TypeInv, ErrorInv, Live, Pipe, NEW t \in Thread, Monitor(t)
    PROVE  Pipe'
  <1> USE DEF TypeInv, TypeOK
  <1>1. CASE LockMutex(t)
    <2>1. UNCHANGED <<temp_buf, monitors, offsets, rc, output>> /\ stage[t] = "lock"
      BY <1>1 DEF LockMutex, outcome
    <2>2. CASE UNCHANGED <<pc, buf>>
      <3>1. \/ stage' = [stage EXCEPT ![t] = "sleep"]
            \/ stage' = [stage EXCEPT ![t] = "inside"] /\ ~NotReady(pc[t])
            \/ NotReady(pc[t]) /\ Goto(t, AfterEarlyReturn[pc[t]])
        BY <1>1 DEF LockMutex
      <3>2. \A u \in Thread : \A c \in Call :
               Entered(u, c)' => Entered(u, c) \/ ~NotReady(c)
        BY <2>2, <3>1 DEF Entered, Goto
      <3> QED BY <2>1, <2>2, <3>2, Stage_Pipe
    <2>3. CASE OtherSideStopped(pc[t]) /\ NotReady(pc[t])
      <3>1. CASE pc[t] = "SetDecompressBuf"
        <4>1. pc["write"] \in {"report", "done"} /\ pc["read"] = "SetDecompressBuf"
          BY <2>3, <3>1 DEF OtherSideStopped, ErrorInv, Places, Reports, Ends, Thread, Worker
        <4>2. write_offset = Size /\ rHold = 1 /\ wHold = 0
          BY <4>1 DEF Pipe, WriteSide, Ends, rHold, wHold, One
        <4>3. ToDecompress \in Nat /\ ToWrite \in Nat /\ dHold \in {0, 1}
          BY DEF Pipe, ReadSide, WriteSide, Holds, dHold, One
        <4> QED BY <4>2, <4>3, TransferAssumption DEF ToDecompress, ToWrite
      <3>2. CASE pc[t] = "GetDecompressBuf"
        <4>1. pc["read"] \in {"report", "done"} /\ pc["decompress"] = "GetDecompressBuf"
          BY <2>3, <3>2 DEF OtherSideStopped, ErrorInv, Places, Reports, Ends, Thread, Worker
        <4>2. read_offset = Size /\ rHold = 0 /\ decompress_offset < Size
          BY <4>1 DEF Pipe, ReadSide, Ends, rHold, One
        <4>3. ToDecompress > 0
          BY <4>2, TransferAssumption DEF ToDecompress
        <4> QED BY <2>3, <3>2, <4>3 DEF NotReady, Pipe, ReadSide, Holds
      <3>3. CASE pc[t] = "SetWriteBuf"
        BY <2>3, <3>3 DEF OtherSideStopped, ErrorInv, Places, Reports, Ends, Thread, Worker
      <3>4. CASE pc[t] = "GetWriteBuf"
        <4>1. pc["decompress"] \in {"report", "done"} /\ pc["write"] = "GetWriteBuf"
          BY <2>3, <3>4 DEF OtherSideStopped, ErrorInv, Places, Reports, Ends, Thread, Worker
        <4>2. decompress_offset = Size /\ dHold = 0 /\ wHold = 0 /\ write_offset < Size
          BY <4>1 DEF Pipe, ReadSide, WriteSide, Ends, dHold, wHold, One
        <4>3. ToWrite > 0
          BY <4>2, TransferAssumption DEF ToWrite
        <4> QED BY <2>3, <3>4, <4>3 DEF NotReady, Pipe, WriteSide, Holds
      <3> QED BY <2>3, <3>1, <3>2, <3>3, <3>4 DEF OtherSideStopped
    <2> QED BY <1>1, <2>2, <2>3 DEF LockMutex
  <1>2. CASE CondvarWait(t) \/ Relock(t)
    <2>1. UNCHANGED <<pc, buf, temp_buf, monitors, offsets, rc, output>>
      BY <1>2 DEF CondvarWait, Relock, outcome
    <2>2. \A u \in Thread : \A c \in Call : Entered(u, c)' => Entered(u, c)
      BY <1>2 DEF CondvarWait, Relock, Entered
    <2> QED BY <2>1, <2>2, Stage_Pipe
  <1>3. CASE GiveUp(t)
    BY <1>3, LiveIsSound DEF GiveUp
  <1> QED BY <1>1, <1>2, <1>3 DEF Monitor

LEMMA End_Pipe ==
    ASSUME PlainCopy, TypeInv, ErrorInv, Live, Pipe, NEW t \in Worker, End(t)
    PROVE  Pipe'
  <1> USE DEF TypeInv, TypeOK, Thread, Worker
  <1>1. /\ UNCHANGED <<buf, temp_buf, monitors, offsets, rc, output>>
        /\ \/ pc[t] = "exit" /\ pc' = [pc EXCEPT ![t] = "report"]
              /\ stage' = [stage EXCEPT ![t] = "out"]
           \/ pc[t] = "report" /\ pc' = [pc EXCEPT ![t] = "done"]
              /\ stage' = IF t = "read" THEN WakeOne(stage, "decompress", "GetDecompressBuf")
                          ELSE IF t = "decompress" THEN WakeOne(stage, "write", "GetWriteBuf")
                          ELSE WakeOne(stage, "decompress", "SetWriteBuf")
    BY DEF End, Exit, Report, Goto, outcome, Call
  <1>2. pc[t] \in Ends /\ pc'[t] \in Ends /\ \A u \in Thread \ {t} : pc'[u] = pc[u]
    BY <1>1 DEF Ends
  <1>3. /\ rHold' = rHold /\ dHold' = dHold /\ wHold' = wHold
        /\ ToDecompress' = ToDecompress /\ ToWrite' = ToWrite
    BY <1>1 DEF rHold, dHold, wHold, ToDecompress, ToWrite, offsets
  <1>4. \A u \in Thread \ {"decompress", "write"} : \A c \in Call :
            Entered(u, c)' => Entered(u, c)
    BY <1>1, <1>2 DEF Entered, WakeOne, Call, Ends
  <1>5. Calm'
    BY <1>1, <1>2 DEF Calm, Pipe, Ends
  <1>6. Holds(read_buffers, decompress_offset, ToDecompress)'
        /\ Holds(write_buffers, write_offset + wHold, ToWrite)'
    BY <1>1, <1>3 DEF Pipe, ReadSide, WriteSide, monitors, offsets
  <1>7. Entered("decompress", "GetDecompressBuf")' => ToDecompress > 0
    <2>1. CASE Entered("decompress", "GetDecompressBuf")
      BY <2>1 DEF Pipe, ReadSide
    <2>2. CASE t = "read" /\ pc["decompress"] = "GetDecompressBuf"
      <3>1. read_offset = Size /\ rHold = 0 /\ decompress_offset < Size
        BY <1>2, <2>2 DEF Pipe, ReadSide, rHold, One, Ends
      <3> QED BY <3>1, TransferAssumption DEF ToDecompress
    <2> QED BY <1>1, <1>2, <2>1, <2>2 DEF Entered, WakeOne, Ends
  <1>8. Entered("decompress", "SetWriteBuf")' => ToWrite < Cap
    <2>1. CASE Entered("decompress", "SetWriteBuf")
      BY <2>1 DEF Pipe, WriteSide
    <2>2. CASE t = "write" /\ pc["decompress"] = "SetWriteBuf"
      <3>1. write_offset = Size /\ dHold = 1 /\ wHold = 0
        BY <1>2, <2>2 DEF Pipe, WriteSide, dHold, wHold, One, Ends
      <3>2. ToDecompress \in Nat /\ ToWrite \in Nat /\ rHold \in {0, 1}
        BY DEF Pipe, ReadSide, WriteSide, Holds, rHold, One
      <3> QED BY <3>1, <3>2, TransferAssumption DEF ToWrite, ToDecompress
    <2> QED BY <1>1, <1>2, <2>1, <2>2 DEF Entered, WakeOne, Ends
  <1>9. Entered("write", "GetWriteBuf")' => ToWrite > 0
    <2>1. CASE Entered("write", "GetWriteBuf")
      BY <2>1 DEF Pipe, WriteSide
    <2>2. CASE t = "decompress" /\ pc["write"] = "GetWriteBuf"
      <3>1. decompress_offset = Size /\ dHold = 0 /\ wHold = 0 /\ write_offset < Size
        BY <1>2, <2>2 DEF Pipe, ReadSide, WriteSide, dHold, wHold, One, Ends
      <3> QED BY <3>1, TransferAssumption DEF ToWrite
    <2> QED BY <1>1, <1>2, <2>1, <2>2 DEF Entered, WakeOne, Ends
  <1>10. Entered("write", "SetPullBuf")' => Entered("write", "SetPullBuf")
    BY <1>1, <1>2 DEF Entered, WakeOne, Ends
  <1>11. ReadSide'
    BY <1>1, <1>2, <1>3, <1>4, <1>6, <1>7 DEF Pipe, ReadSide, Ends, Call, offsets
  <1>12. WriteSide'
    BY <1>1, <1>2, <1>3, <1>6, <1>8, <1>9 DEF Pipe, WriteSide, Ends, offsets
  <1>13. PullSide'
    BY <1>1, <1>4, <1>10 DEF Pipe, PullSide, monitors, offsets, Call
  <1> QED BY <1>5, <1>11, <1>12, <1>13 DEF Pipe

(* What a step of one thread leaves alone. *)
LEMMA ReadSide_Frame ==
    ASSUME ReadSide,
           UNCHANGED <<read_buffers, read_offset, decompress_offset, pc["read"],
                       pc["decompress"], buf["read"]>>,
           Entered("read", "SetDecompressBuf")' => Entered("read", "SetDecompressBuf"),
           Entered("decompress", "GetDecompressBuf")'
               => Entered("decompress", "GetDecompressBuf")
    PROVE  ReadSide'
  <1>1. ToDecompress' = ToDecompress
    BY DEF ToDecompress, rHold
  <1> QED BY <1>1 DEF ReadSide

LEMMA WriteSide_Frame ==
    ASSUME WriteSide,
           UNCHANGED <<write_buffers, decompress_offset, write_offset,
                       pc["decompress"], pc["write"], buf["decompress"],
                       buf["write"]>>,
           Entered("decompress", "SetWriteBuf")' => Entered("decompress", "SetWriteBuf"),
           Entered("write", "GetWriteBuf")' => Entered("write", "GetWriteBuf")
    PROVE  WriteSide'
  <1>1. wHold' = wHold /\ ToWrite' = ToWrite
    BY DEF ToWrite, dHold, wHold
  <1> QED BY <1>1 DEF WriteSide

LEMMA PullSide_Frame ==
    ASSUME PullSide, UNCHANGED <<pull_buffer, write_offset, output>>,
           Entered("write", "SetPullBuf")' => Entered("write", "SetPullBuf"),
           Entered("main", "GetPullBuf")' => Entered("main", "GetPullBuf")
    PROVE  PullSide'
  BY DEF PullSide

LEMMA Reader_Pipe ==
    ASSUME PlainCopy, TypeInv, ErrorInv, Live, Pipe, Reader
    PROVE  Pipe'
  <1> USE DEF TypeInv, TypeOK, Thread, Worker
  <1>1. CASE ReadLoop
    <2>1. /\ pc["read"] = "loop"
          /\ pc' = [pc EXCEPT !["read"] = IF read_offset < Size THEN "rfunc" ELSE "exit"]
          /\ stage' = [stage EXCEPT !["read"] = "out"]
          /\ UNCHANGED <<buf, temp_buf, monitors, offsets, outcome, output>>
      BY <1>1, LiveIsSound DEF ReadLoop, Goto, Call
    <2>2. Calm' /\ WriteSide' /\ PullSide'
      BY <2>1, WriteSide_Frame, PullSide_Frame
         DEF Calm, Pipe, Entered, monitors, offsets, outcome
    <2>3. rHold' = 0 /\ rHold = 0 /\ ToDecompress' = ToDecompress
      BY <2>1 DEF rHold, One, ToDecompress, offsets
    <2>4. ReadSide'
      BY <2>1, <2>3, TransferAssumption DEF Pipe, ReadSide, Entered, Ends, monitors, offsets
    <2> QED BY <2>2, <2>4 DEF Pipe
  <1>2. CASE ReadData
    <2>1. read_offset < Avail
      BY <1>2, TransferAssumption DEF ReadData, Pipe, ReadSide, PlainCopy
    <2>2. /\ pc["read"] = "rfunc"
          /\ read_offset' = read_offset + 1
          /\ buf' = [buf EXCEPT !["read"] = <<read_offset + 1>>]
          /\ pc' = [pc EXCEPT !["read"] = "SetDecompressBuf"]
          /\ stage' = [stage EXCEPT !["read"] = "lock"]
          /\ UNCHANGED <<temp_buf, monitors, decompress_offset, write_offset, rc, output>>
      BY <1>2, <2>1, TransferAssumption
         DEF ReadData, Goto, Call, PlainCopy, OnlyTheEndFails
    <2>3. Calm' /\ WriteSide' /\ PullSide'
      BY <2>2, WriteSide_Frame, PullSide_Frame DEF Calm, Pipe, Entered, monitors
    <2>4. rHold' = 1 /\ rHold = 0 /\ ToDecompress' = ToDecompress
      BY <2>2, TransferAssumption DEF rHold, One, ToDecompress
    <2>5. ReadSide'
      BY <2>2, <2>4 DEF Pipe, ReadSide, Entered, Ends, monitors
    <2> QED BY <2>3, <2>5 DEF Pipe
  <1>3. CASE SetDecompressBuf
    <2>1. /\ Entered("read", "SetDecompressBuf")
          /\ pc' = [pc EXCEPT !["read"] = "loop"]
          /\ stage' = WakeOne([stage EXCEPT !["read"] = "out"], "decompress",
                              "GetDecompressBuf")
          /\ read_buffers' = ringbuf_push(read_buffers, buf["read"])
          /\ buf' = [buf EXCEPT !["read"] = PushTakes(read_buffers)]
          /\ UNCHANGED <<temp_buf, write_buffers, pull_buffer, offsets, rc, output>>
      BY <1>3 DEF SetDecompressBuf, Leave, Entered, Call, outcome
    <2>2. Calm' /\ WriteSide' /\ PullSide'
      BY <2>1, WriteSide_Frame, PullSide_Frame
         DEF Calm, Pipe, Entered, WakeOne, offsets
    <2>3. rHold = 1 /\ rHold' = 0 /\ ToDecompress \in Nat /\ ToDecompress < Cap
      BY <2>1 DEF rHold, One, Entered, Pipe, ReadSide, Holds
    <2>4. ToDecompress' = ToDecompress + 1
          /\ read_offset = decompress_offset + ToDecompress + 1
      BY <2>1, <2>3, TransferAssumption DEF ToDecompress, offsets
    <2>5. buf["read"] = <<decompress_offset + ToDecompress + 1>>
      BY <2>1, <2>4 DEF Pipe, ReadSide, Entered
    <2>6. Holds(read_buffers', decompress_offset, ToDecompress + 1)
      BY <2>1, <2>3, <2>5, PushHolds DEF Pipe, ReadSide
    <2>7. Holds(read_buffers, decompress_offset, ToDecompress)'
      BY <2>1, <2>4, <2>6 DEF offsets
    <2>8. ReadSide'
      BY <2>1, <2>3, <2>4, <2>7 DEF Pipe, ReadSide, Entered, Ends, WakeOne, offsets
    <2> QED BY <2>2, <2>8 DEF Pipe
  <1> QED BY <1>1, <1>2, <1>3 DEF Reader

LEMMA Decompressor_Pipe ==
    ASSUME PlainCopy, TypeInv, ErrorInv, Live, Pipe, Decompressor
    PROVE  Pipe'
  <1> USE DEF TypeInv, TypeOK, Thread, Worker
  <1>1. CASE DecompressLoop
    <2>1. /\ pc["decompress"] = "loop"
          /\ IF decompress_offset < Size
             THEN /\ pc' = [pc EXCEPT !["decompress"] = "GetDecompressBuf"]
                  /\ stage' = [stage EXCEPT !["decompress"] = "lock"]
             ELSE /\ pc' = [pc EXCEPT !["decompress"] = "flush"]
                  /\ stage' = [stage EXCEPT !["decompress"] = "out"]
          /\ UNCHANGED <<buf, temp_buf, monitors, offsets, outcome, output>>
      BY <1>1, LiveIsSound DEF DecompressLoop, Goto, Call
    <2>2. /\ rHold' = rHold /\ dHold' = dHold /\ wHold' = wHold
          /\ ToDecompress' = ToDecompress /\ ToWrite' = ToWrite
      BY <2>1 DEF rHold, dHold, wHold, ToDecompress, ToWrite, offsets
    <2>3. Calm' /\ PullSide'
      BY <2>1, PullSide_Frame DEF Calm, Pipe, Entered, monitors, offsets, outcome
    <2>4. decompress_offset <= Size
      <3>1. ToDecompress \in Nat /\ rHold \in {0, 1}
        BY DEF Pipe, ReadSide, Holds, rHold, One
      <3> QED BY <3>1, TransferAssumption DEF ToDecompress
    <2>5. ReadSide'
      BY <2>1, <2>2, <2>4, TransferAssumption
         DEF Pipe, ReadSide, Entered, Ends, monitors, offsets
    <2>6. WriteSide'
      BY <2>1, <2>2 DEF Pipe, WriteSide, Entered, monitors, offsets
    <2> QED BY <2>3, <2>5, <2>6 DEF Pipe
  <1>2. CASE GetDecompressBuf
    <2>1. ToDecompress > 0 /\ ToDecompress \in Nat
      BY <1>2 DEF GetDecompressBuf, Leave, Pipe, ReadSide, Entered, Holds
    <2>2. /\ PopTakes(read_buffers) = <<decompress_offset + 1>>
          /\ Holds(ringbuf_pop(read_buffers, buf["decompress"]),
                   decompress_offset + 1, ToDecompress - 1)
      BY <2>1, PopHolds DEF Pipe, ReadSide
    <2>3. /\ Entered("decompress", "GetDecompressBuf")
          /\ pc' = [pc EXCEPT !["decompress"] = "SetWriteBuf"]
          /\ stage' = WakeOne([stage EXCEPT !["decompress"] = "lock"], "read",
                              "SetDecompressBuf")
          /\ read_buffers' = ringbuf_pop(read_buffers, buf["decompress"])
          /\ buf' = [buf EXCEPT !["decompress"] = <<decompress_offset + 1>>]
          /\ decompress_offset' = decompress_offset + 1
          /\ UNCHANGED <<temp_buf, write_buffers, pull_buffer, read_offset,
                         write_offset, rc, output>>
      BY <1>2, <2>2 DEF GetDecompressBuf, Leave, Entered, Call, outcome, PlainCopy
    <2>4. /\ rHold' = rHold /\ wHold' = wHold /\ dHold = 0 /\ dHold' = 1
          /\ ToDecompress' = ToDecompress - 1 /\ ToWrite' = ToWrite
      <3>1. /\ rHold' = rHold /\ wHold' = wHold /\ dHold = 0 /\ dHold' = 1
            /\ rHold \in {0, 1} /\ wHold \in {0, 1}
        BY <2>3 DEF rHold, dHold, wHold, Entered, One
      <3> QED BY <2>3, <3>1, TransferAssumption DEF ToDecompress, ToWrite
    <2>5. Calm' /\ PullSide'
      BY <2>3, PullSide_Frame DEF Calm, Pipe, Entered, WakeOne
    <2>6. Holds(read_buffers, decompress_offset, ToDecompress)'
      BY <2>2, <2>3, <2>4
    <2>7. ToDecompress' < Cap
      BY <2>1, <2>4, CapAssumption DEF Pipe, ReadSide, Holds
    <2>8. ReadSide'
      BY <2>3, <2>6, <2>7 DEF Pipe, ReadSide, Entered, Ends, WakeOne
    <2>9. WriteSide'
      BY <2>3, <2>4 DEF Pipe, WriteSide, Entered, Ends, WakeOne
    <2> QED BY <2>5, <2>8, <2>9 DEF Pipe
  <1>3. CASE Decompress
    BY <1>3 DEF Decompress, Pipe, Calm
  <1>4. CASE Flush
    <2>1. /\ pc["decompress"] = "flush"
          /\ pc' = [pc EXCEPT !["decompress"] = "exit"]
          /\ stage' = [stage EXCEPT !["decompress"] = "out"]
          /\ UNCHANGED <<buf, temp_buf, monitors, offsets, outcome, output>>
      BY <1>4 DEF Flush, Goto, Call, Pipe, Calm
    <2>2. /\ rHold' = rHold /\ dHold' = dHold /\ wHold' = wHold
          /\ ToDecompress' = ToDecompress /\ ToWrite' = ToWrite
      BY <2>1 DEF rHold, dHold, wHold, ToDecompress, ToWrite, offsets
    <2>3. Calm' /\ PullSide'
      BY <2>1, PullSide_Frame DEF Calm, Pipe, Entered, monitors, offsets, outcome
    <2>4. ReadSide'
      BY <2>1, <2>2 DEF Pipe, ReadSide, Entered, Ends, monitors, offsets
    <2>5. WriteSide'
      BY <2>1, <2>2 DEF Pipe, WriteSide, Entered, monitors, offsets
    <2> QED BY <2>3, <2>4, <2>5 DEF Pipe
  <1>5. CASE SetWriteBuf
    <2>1. /\ Entered("decompress", "SetWriteBuf")
          /\ pc' = [pc EXCEPT !["decompress"] = "loop"]
          /\ stage' = WakeOne([stage EXCEPT !["decompress"] = "out"], "write",
                              "GetWriteBuf")
          /\ write_buffers' = ringbuf_push(write_buffers, buf["decompress"])
          /\ buf' = [buf EXCEPT !["decompress"] = PushTakes(write_buffers)]
          /\ UNCHANGED <<temp_buf, read_buffers, pull_buffer, offsets, rc, output>>
      BY <1>5 DEF SetWriteBuf, Leave, Entered, Call, outcome, PlainCopy
    <2>2. /\ wHold' = wHold /\ dHold = 1 /\ dHold' = 0 /\ wHold \in {0, 1}
          /\ ToWrite \in Nat /\ ToWrite < Cap
      BY <2>1 DEF dHold, wHold, One, Entered, Pipe, WriteSide, Holds
    <2>3. ToWrite' = ToWrite + 1
          /\ decompress_offset = (write_offset + wHold) + ToWrite + 1
      BY <2>1, <2>2 DEF ToWrite, offsets
    <2>4. buf["decompress"] = <<(write_offset + wHold) + ToWrite + 1>>
      BY <2>1, <2>3 DEF Pipe, WriteSide, Entered
    <2>5. Holds(write_buffers', write_offset + wHold, ToWrite + 1)
      <3>1. write_offset + wHold \in Nat
        BY <2>2
      <3> QED BY <2>1, <2>2, <2>4, <3>1, PushHolds DEF Pipe, WriteSide
    <2>6. Holds(write_buffers, write_offset + wHold, ToWrite)'
      BY <2>1, <2>2, <2>3, <2>5 DEF offsets
    <2>7. WriteSide'
      BY <2>1, <2>2, <2>3, <2>6 DEF Pipe, WriteSide, Entered, WakeOne, offsets
    <2>8. ToDecompress' = ToDecompress
      BY <2>1 DEF ToDecompress, rHold, offsets
    <2>9. ReadSide'
      BY <2>1, <2>8 DEF Pipe, ReadSide, Entered, Ends, WakeOne, offsets
    <2>10. Calm' /\ PullSide'
      BY <2>1, PullSide_Frame DEF Calm, Pipe, Entered, WakeOne, offsets
    <2> QED BY <2>7, <2>9, <2>10 DEF Pipe
  <1> QED BY <1>1, <1>2, <1>3, <1>4, <1>5 DEF Decompressor

LEMMA Writer_Pipe ==
    ASSUME PlainCopy, TypeInv, ErrorInv, Live, Pipe, Writer, Live'
    PROVE  Pipe'
  <1> USE DEF TypeInv, TypeOK, Thread, Worker
  <1>1. CASE WriteLoop
    <2>1. /\ pc["write"] = "loop"
          /\ IF write_offset < Size
             THEN /\ pc' = [pc EXCEPT !["write"] = "GetWriteBuf"]
                  /\ stage' = [stage EXCEPT !["write"] = "lock"]
             ELSE /\ pc' = [pc EXCEPT !["write"] = "exit"]
                  /\ stage' = [stage EXCEPT !["write"] = "out"]
          /\ UNCHANGED <<buf, temp_buf, monitors, offsets, outcome, output>>
      BY <1>1, LiveIsSound DEF WriteLoop, Goto, Call
    <2>2. /\ dHold' = dHold /\ wHold' = wHold /\ wHold = 0
          /\ ToDecompress' = ToDecompress /\ ToWrite' = ToWrite
      BY <2>1 DEF rHold, dHold, wHold, One, ToDecompress, ToWrite, offsets
    <2>3. Calm' /\ ReadSide' /\ PullSide'
      BY <2>1, ReadSide_Frame, PullSide_Frame
         DEF Calm, Pipe, Entered, monitors, offsets, outcome
    <2>4. write_offset <= Size
      <3>1. ToDecompress \in Nat /\ ToWrite \in Nat /\ rHold \in {0, 1} /\ dHold \in {0, 1}
        BY DEF Pipe, ReadSide, WriteSide, Holds, rHold, dHold, One
      <3> QED BY <2>2, <3>1, TransferAssumption DEF ToDecompress, ToWrite
    <2>5. WriteSide'
      BY <2>1, <2>2, <2>4, TransferAssumption
         DEF Pipe, WriteSide, Entered, Ends, monitors, offsets
    <2> QED BY <2>3, <2>5 DEF Pipe
  <1>2. CASE GetWriteBuf
    <2>1. ToWrite > 0 /\ ToWrite \in Nat /\ wHold = 0
      BY <1>2 DEF GetWriteBuf, Leave, Pipe, WriteSide, Entered, Holds, wHold, One
    <2>2. /\ PopTakes(write_buffers) = <<write_offset + 1>>
          /\ Holds(ringbuf_pop(write_buffers, buf["write"]),
                   write_offset + 1, ToWrite - 1)
      BY <2>1, PopHolds DEF Pipe, WriteSide
    <2>3. /\ Entered("write", "GetWriteBuf")
          /\ pc' = [pc EXCEPT !["write"] = IF Pull THEN "SetPullBuf" ELSE "wfunc"]
          /\ stage' = WakeOne([stage EXCEPT !["write"] = IF Pull THEN "lock" ELSE "out"],
                              "decompress", "SetWriteBuf")
          /\ write_buffers' = ringbuf_pop(write_buffers, buf["write"])
          /\ buf' = [buf EXCEPT !["write"] = <<write_offset + 1>>]
          /\ UNCHANGED <<temp_buf, read_buffers, pull_buffer, offsets, rc, output>>
      <3>1. PopTakes(write_buffers) # <<>>
        BY <2>2
      <3>2. Leave("write", "GetWriteBuf", "decompress", "SetWriteBuf",
                  IF Pull THEN "SetPullBuf" ELSE "wfunc")
        BY <1>2, <3>1 DEF GetWriteBuf
      <3> QED BY <1>2, <2>2, <3>2 DEF GetWriteBuf, Leave, Entered, Call, outcome
    <2>4. /\ rHold' = rHold /\ dHold' = dHold /\ wHold' = 1
          /\ ToDecompress' = ToDecompress /\ ToWrite' = ToWrite - 1
      <3>1. rHold' = rHold /\ dHold' = dHold /\ wHold' = 1 /\ dHold \in {0, 1}
        BY <2>3 DEF rHold, dHold, wHold, Entered, One
      <3> QED BY <2>1, <2>3, <3>1 DEF ToDecompress, ToWrite, offsets
    <2>5. Calm' /\ PullSide'
      BY <2>3, PullSide_Frame DEF Calm, Pipe, Entered, WakeOne, offsets
    <2>6. Holds(write_buffers, write_offset + wHold, ToWrite)'
      BY <2>2, <2>3, <2>4 DEF offsets
    <2>7. ToWrite' < Cap
      BY <2>1, <2>4, CapAssumption DEF Pipe, WriteSide, Holds
    <2>8. WriteSide'
      BY <2>3, <2>6, <2>7 DEF Pipe, WriteSide, Entered, Ends, WakeOne, offsets
    <2>9. ReadSide'
      BY <2>3, <2>4 DEF Pipe, ReadSide, Entered, Ends, WakeOne, offsets
    <2> QED BY <2>5, <2>8, <2>9 DEF Pipe
  <1>3. CASE WriteData
    <2>1. ~Pull
      BY <1>3 DEF WriteData, ErrorInv, Places, Ends
    <2>2. wHold = 1 /\ buf["write"] = <<write_offset + 1>>
      BY <1>3 DEF WriteData, wHold, One, Pipe, WriteSide
    <2>3. /\ pc["write"] = "wfunc"
          /\ output' = output \o <<write_offset + 1>>
          /\ write_offset' = write_offset + 1
          /\ pc' = [pc EXCEPT !["write"] = "loop"]
          /\ stage' = [stage EXCEPT !["write"] = "out"]
          /\ UNCHANGED <<buf, temp_buf, monitors, read_offset, decompress_offset, rc>>
      BY <1>3, <2>2 DEF WriteData, Goto, Call, Live, Status
    <2>4. wHold' = 0 /\ ToWrite' = ToWrite /\ dHold' = dHold
      BY <2>2, <2>3 DEF wHold, One, ToWrite, dHold
    <2>5. Calm' /\ ReadSide'
      BY <2>3, ReadSide_Frame DEF Calm, Pipe, Entered, monitors
    <2>6. Holds(write_buffers, write_offset + wHold, ToWrite)'
      BY <2>2, <2>3, <2>4 DEF Pipe, WriteSide, monitors
    <2>7. WriteSide'
      BY <2>3, <2>4, <2>6 DEF Pipe, WriteSide, Entered, Ends
    <2>8. Len(output') = Len(output) + 1 /\ Len(output) \in Nat
      BY <2>3 DEF Vector
    <2>9. PullSide'
      BY <2>1, <2>3, <2>8 DEF Pipe, PullSide, Entered, ErrorInv, Places, Ends, monitors
    <2> QED BY <2>5, <2>7, <2>9 DEF Pipe
  <1>4. CASE SetPullBuf
    <2>1. pull_buffer = <<>> /\ buf["write"] = <<write_offset + 1>> /\ wHold = 1
      BY <1>4 DEF SetPullBuf, Leave, Entered, Pipe, PullSide, WriteSide, wHold, One
    <2>2. Pull
      BY <1>4 DEF SetPullBuf, Leave, ErrorInv, Places, Ends
    <2>3. /\ pc["write"] = "SetPullBuf"
          /\ pc' = [pc EXCEPT !["write"] = "loop"]
          /\ stage' = WakeOne([stage EXCEPT !["write"] = "out"], "main", "GetPullBuf")
          /\ pull_buffer' = <<write_offset + 1>>
          /\ buf' = [buf EXCEPT !["write"] = <<>>]
          /\ write_offset' = write_offset + 1
          /\ UNCHANGED <<temp_buf, read_buffers, write_buffers, read_offset,
                         decompress_offset, rc, output>>
      BY <1>4, <2>1 DEF SetPullBuf, Leave, Call, outcome
    <2>4. wHold' = 0 /\ ToWrite' = ToWrite
      BY <2>1, <2>3 DEF wHold, One, ToWrite, dHold
    <2>5. Calm' /\ ReadSide'
      BY <2>3, ReadSide_Frame DEF Calm, Pipe, Entered, WakeOne
    <2>6. Holds(write_buffers, write_offset + wHold, ToWrite)'
      BY <2>1, <2>3, <2>4 DEF Pipe, WriteSide
    <2>7. WriteSide'
      BY <2>3, <2>4, <2>6 DEF Pipe, WriteSide, Entered, Ends, WakeOne
    <2>8. PullSide'
      BY <2>1, <2>2, <2>3 DEF Pipe, PullSide, Entered, WakeOne
    <2> QED BY <2>5, <2>7, <2>8 DEF Pipe
  <1> QED BY <1>1, <1>2, <1>3, <1>4 DEF Writer

LEMMA Main_Pipe ==
    ASSUME PlainCopy, TypeInv, ErrorInv, Live, Pipe, Main, Live'
    PROVE  Pipe'
  <1> USE DEF TypeInv, TypeOK, Thread, Worker
  <1>1. CASE PullStart \/ GetPullBufPart
    <2>1. /\ \E l \in {"pull", "GetPullBuf"} : Goto("main", l)
          /\ UNCHANGED <<buf, temp_buf, read_buffers, write_buffers, pull_buffer,
                         offsets, rc, output>>
      BY <1>1 DEF PullStart, GetPullBufPart, monitors, outcome
    <2>2. /\ \A t \in Worker : pc'[t] = pc[t] /\ stage'[t] = stage[t]
          /\ stage'["main"] \in {"out", "lock"}
      BY <2>1 DEF Goto
    <2> QED BY <2>1, <2>2, ReadSide_Frame, WriteSide_Frame, PullSide_Frame
            DEF Calm, Pipe, Entered, offsets
  <1>2. CASE GetPullBuf
    <2>1. pull_buffer = <<write_offset>>
      BY <1>2 DEF GetPullBuf, Leave, Entered, Pipe, PullSide
    <2>2. /\ pc["main"] = "GetPullBuf"
          /\ pc' = [pc EXCEPT !["main"] = "pull"]
          /\ stage' = WakeOne([stage EXCEPT !["main"] = "out"], "write", "SetPullBuf")
          /\ output' = output \o <<write_offset>>
          /\ pull_buffer' = <<>>
          /\ UNCHANGED <<buf, temp_buf, read_buffers, write_buffers, offsets, rc>>
      BY <1>2, <2>1 DEF GetPullBuf, Leave, Call, outcome
    <2>3. Calm' /\ ReadSide' /\ WriteSide'
      BY <2>2, ReadSide_Frame, WriteSide_Frame
         DEF Calm, Pipe, Entered, WakeOne, offsets
    <2>4. Len(output') = Len(output) + 1 /\ Len(output) \in Nat
      BY <2>2 DEF Vector
    <2>5. PullSide'
      BY <2>1, <2>2, <2>4 DEF Pipe, PullSide, Entered, WakeOne, offsets
    <2> QED BY <2>3, <2>5 DEF Pipe
  <1>3. CASE WaitForEvent \/ (\E r \in Status : PullEnd(r)) \/ WakeAllThreads
             \/ Results \/ Return
    BY <1>3 DEF WaitForEvent, PullEnd, WakeAllThreads, Results, Return, Goto,
                Live, Waiting
  <1> QED BY <1>1, <1>2, <1>3 DEF Main

LEMMA Init_Pipe == PlainCopy /\ Init => PipeInv
  <1> SUFFICES ASSUME PlainCopy, Init PROVE Pipe
    BY DEF PipeInv
  <1>1. /\ pc["read"] = "loop" /\ pc["decompress"] = "loop" /\ pc["write"] = "loop"
        /\ \A t \in Thread : stage[t] = "out"
        /\ \A t \in Worker : rc[t] = "ok"
        /\ read_offset = 0 /\ decompress_offset = 0 /\ write_offset = 0
        /\ temp_buf = <<>> /\ pull_buffer = <<>> /\ output = <<>>
    BY DEF Init, Thread, Worker
  <1>2. /\ rHold = 0 /\ dHold = 0 /\ wHold = 0
        /\ ToDecompress = 0 /\ ToWrite = 0 /\ write_offset + wHold = 0
    <2>1. rHold = 0 /\ dHold = 0 /\ wHold = 0
      BY <1>1 DEF rHold, dHold, wHold, One
    <2> QED BY <1>1, <2>1 DEF ToDecompress, ToWrite
  <1>3. Holds(read_buffers, 0, 0) /\ Holds(write_buffers, 0, 0)
    BY EmptyHolds DEF Init
  <1>4. Calm
    BY <1>1 DEF Calm
  <1>5. ReadSide
    BY <1>1, <1>2, <1>3 DEF ReadSide, Ends, Entered
  <1>6. WriteSide
    BY <1>1, <1>2, <1>3 DEF WriteSide, Ends, Entered
  <1>7. PullSide
    <2>1. Len(<<>>) = 0 /\ stage["write"] = "out" /\ stage["main"] = "out"
      BY <1>1 DEF Thread, Worker
    <2>2. Len(output) = 0 /\ Len(pull_buffer) = 0 /\ 0 = 0 - 0
      BY <1>1, <2>1
    <2>3. Len(output) = write_offset - Len(pull_buffer)
      BY <1>1, <2>2
    <2> QED BY <1>1, <2>1, <2>3 DEF PullSide, Entered
  <1> QED BY <1>4, <1>5, <1>6, <1>7 DEF Pipe

LEMMA Next_Pipe ==
    ASSUME PlainCopy, TypeInv, ErrorInv, PipeInv, [Next]_vars
    PROVE  PipeInv'
  <1> SUFFICES ASSUME Live' PROVE Pipe'
    BY DEF PipeInv
  <1>1. Live /\ Pipe
    BY StaysLive DEF PipeInv
  <1>2. CASE Cancel
    BY <1>2 DEF Cancel, Live
  <1>3. CASE Finished \/ UNCHANGED vars
    <2>1. UNCHANGED <<pc, stage, buf, temp_buf, monitors, offsets, rc, output>>
      BY <1>3 DEF Finished, vars, outcome
    <2> QED BY <1>1, <2>1, Stage_Pipe DEF Entered
  <1> QED BY <1>1, <1>2, <1>3, Monitor_Pipe, End_Pipe, Reader_Pipe,
             Decompressor_Pipe, Writer_Pipe, Main_Pipe DEF Next

-----------------------------------------------------------------------------
(* Every block asked for is pulled, unless the pull reports an error. *)
TakesAll == ~Pull \/ "pull" \notin MayFail

(* What was written, also after the pipeline was torn down *)
OutputInv ==
    /\ \A i \in DOMAIN output : output[i] = i
    /\ ~Pull =>
         /\ Len(output) = write_offset
         /\ pc["write"] = "wfunc" => buf["write"] = <<write_offset + 1>>
         /\ pc["write"] = "done" /\ ~cancelled /\ rc["write"] = "ok"
               => write_offset = Size
    /\ Pull /\ TakesAll /\ ~Waiting /\ result["pull"] = "ok" => Len(output) = Size
    /\ TakesAll /\ ret = "ok" => Len(output) = Size

CopyInv == TypeInv /\ ErrorInv /\ PipeInv /\ OutputInv

LEMMA Counting ==
    ASSUME NEW s \in Vector, \A i \in DOMAIN s : s[i] = i
    PROVE  \A i \in DOMAIN (s \o <<Len(s) + 1>>) : (s \o <<Len(s) + 1>>)[i] = i
  <1>1. /\ Len(s) \in Nat /\ DOMAIN s = 1 .. Len(s)
        /\ DOMAIN (s \o <<Len(s) + 1>>) = 1 .. Len(s) + 1
    BY DEF Vector
  <1>2. ASSUME NEW i \in 1 .. Len(s) + 1
        PROVE  (s \o <<Len(s) + 1>>)[i] = i
    BY <1>1, <1>2 DEF Vector
  <1> QED BY <1>1, <1>2

(* A writer that ended of itself had written everything. *)
LEMMA WriterEnds ==
    ASSUME TypeInv, ErrorInv, PipeInv, ~Pull, pc["write"] \in {"exit", "report"},
           ~cancelled, rc["write"] = "ok"
    PROVE  write_offset = Size
  <1>1. ~Root
    BY DEF TypeInv, TypeOK, ErrorInv, Reports, Root, Status, Worker
  <1>2. Waiting
    BY <1>1 DEF ErrorInv, Joins
  <1> QED BY <1>2 DEF PipeInv, Live, Pipe, WriteSide, Ends

LEMMA Output_Frame ==
    ASSUME OutputInv, cancelled => cancelled', Waiting' => Waiting, Waiting => Waiting',
           UNCHANGED <<output, write_offset, buf["write"], pc["write"], rc["write"],
                       result["pull"], ret>>
    PROVE  OutputInv'
  BY DEF OutputInv

LEMMA Writer_Output ==
    ASSUME PlainCopy, TypeInv, ErrorInv, PipeInv, OutputInv, Writer, ErrorInv'
    PROVE  OutputInv'
  <1> USE DEF TypeInv, TypeOK, Thread, Worker
  <1>1. /\ UNCHANGED <<cancelled, result, ret>>
        /\ \E l \in Location \ {"done"} : pc' = [pc EXCEPT !["write"] = l]
    BY DEF Writer, WriteLoop, GetWriteBuf, WriteData, SetPullBuf, Leave, Goto,
           outcome, Location, Call
  <1>2. Waiting' <=> Waiting
    BY <1>1 DEF Waiting
  <1>3. pc'["write"] # "done"
    BY <1>1
  <1>4. CASE WriteLoop
    <2>1. UNCHANGED <<output, write_offset, buf>> /\ pc'["write"] # "wfunc"
      BY <1>4 DEF WriteLoop, Goto, offsets
    <2> QED BY <1>1, <1>2, <1>3, <2>1 DEF OutputInv
  <1>5. CASE GetWriteBuf
    <2>1. UNCHANGED <<output, write_offset>>
      BY <1>5 DEF GetWriteBuf, offsets
    <2>2. ASSUME ~Pull, pc'["write"] = "wfunc"
          PROVE  buf'["write"] = <<write_offset + 1>>
      <3>1. ~Root /\ pc["write"] = "GetWriteBuf" /\ stage["write"] = "inside"
        BY <1>5, StoredResults DEF GetWriteBuf, Leave
      <3>2. Waiting /\ ~cancelled /\ rc["write"] = "ok"
        BY <2>2, <3>1 DEF ErrorInv, Joins, Reports, Root, Ends, Status
      <3>3. Pipe
        BY <3>2 DEF PipeInv, Live
      <3>4. ToWrite > 0 /\ ToWrite \in Nat /\ wHold = 0
        BY <3>1, <3>3 DEF Pipe, WriteSide, Entered, Holds, wHold, One
      <3>5. PopTakes(write_buffers) = <<write_offset + 1>>
        BY <3>3, <3>4, PopHolds DEF Pipe, WriteSide
      <3> QED BY <1>5, <3>5 DEF GetWriteBuf
    <2> QED BY <1>1, <1>2, <1>3, <2>1, <2>2 DEF OutputInv
  <1>6. CASE WriteData
    <2>1. ~Pull /\ pc'["write"] # "wfunc"
      BY <1>6 DEF WriteData, ErrorInv, Places, Ends, Goto
    <2>2. CASE UNCHANGED <<output, write_offset>>
      BY <1>1, <1>2, <1>3, <2>1, <2>2 DEF OutputInv
    <2>3. CASE /\ output' = output \o buf["write"]
               /\ write_offset' = write_offset + Len(buf["write"])
      <3>1. Len(output) = write_offset /\ buf["write"] = <<Len(output) + 1>>
        BY <1>6, <2>1 DEF OutputInv, WriteData
      <3>2. /\ \A i \in DOMAIN output' : output'[i] = i
            /\ Len(output') = Len(output) + 1
        <4>1. \A i \in DOMAIN output : output[i] = i
          BY DEF OutputInv
        <4>2. output' = output \o <<Len(output) + 1>>
          BY <2>3, <3>1
        <4> QED BY <4>1, <4>2, Counting DEF Vector
      <3>3. write_offset' = write_offset + 1
        BY <2>3, <3>1
      <3>4. ret # "ok"
        BY <1>6 DEF WriteData, ErrorInv, Joins, Reports
      <3> QED BY <1>1, <1>2, <1>3, <2>1, <3>1, <3>2, <3>3, <3>4 DEF OutputInv
    <2> QED BY <1>6, <2>2, <2>3 DEF WriteData
  <1>7. CASE SetPullBuf
    <2>1. Pull /\ UNCHANGED output
      BY <1>7 DEF SetPullBuf, Leave, ErrorInv, Places, Ends
    <2> QED BY <1>1, <1>2, <2>1 DEF OutputInv
  <1> QED BY <1>4, <1>5, <1>6, <1>7 DEF Writer

LEMMA Main_Output ==
    ASSUME PlainCopy, TypeInv, ErrorInv, PipeInv, OutputInv, Main
    PROVE  OutputInv'
  <1> USE DEF TypeInv, TypeOK, Thread, Worker
  <1>1. UNCHANGED <<write_offset, buf, rc, cancelled>> /\ pc'["write"] = pc["write"]
    BY DEF Main, WaitForEvent, PullStart, GetPullBuf, GetPullBufPart, PullEnd,
           WakeAllThreads, Results, Return, Goto, Leave, offsets, outcome
  <1>2. CASE WaitForEvent
    <2>1. ~Pull /\ UNCHANGED <<output, ret>>
      BY <1>2 DEF WaitForEvent, ErrorInv, Places, outcome
    <2> QED BY <1>1, <2>1 DEF OutputInv
  <1>3. CASE PullStart \/ GetPullBufPart \/ WakeAllThreads \/ Return
    <2>1. UNCHANGED <<output, result, ret>> /\ (Waiting' <=> Waiting)
      BY <1>3 DEF PullStart, GetPullBufPart, WakeAllThreads, Return, Goto, outcome,
                  Waiting
    <2> QED BY <1>1, <2>1, Output_Frame
  <1>4. CASE GetPullBuf
    <2>1. /\ pc["main"] = "GetPullBuf" /\ stage["main"] = "inside" /\ ~Root
          /\ Waiting /\ Waiting' /\ output' = output \o pull_buffer
          /\ UNCHANGED ret
      BY <1>4, StoredResults DEF GetPullBuf, Leave, Waiting, outcome
    <2>2. Pull /\ rc["write"] = "ok" /\ ~cancelled /\ ret # "ok"
      BY <2>1 DEF ErrorInv, Places, Reports, Joins, Root, Status
    <2>3. Pipe
      BY <2>1, <2>2 DEF PipeInv, Live
    <2>4. pull_buffer = <<write_offset>> /\ Len(output) = write_offset - 1
      BY <2>1, <2>3 DEF Pipe, PullSide, Entered
    <2>5. output' = output \o <<Len(output) + 1>>
      BY <2>1, <2>4
    <2>6. \A i \in DOMAIN output' : output'[i] = i
      BY <2>5, Counting DEF OutputInv
    <2> QED BY <2>1, <2>2, <2>6 DEF OutputInv
  <1>5. ASSUME NEW r \in Status, PullEnd(r) PROVE OutputInv'
    <2>1. Pull /\ UNCHANGED <<output, ret>>
      BY <1>5 DEF PullEnd, ErrorInv, Places
    <2>2. TakesAll /\ result'["pull"] = "ok" => Len(output) = Size
      BY <1>5, <2>1 DEF PullEnd, TakesAll
    <2> QED BY <2>1, <2>2 DEF OutputInv
  <1>6. CASE Results
    <2>1. /\ UNCHANGED <<output, result>> /\ ~Waiting /\ ~Waiting'
          /\ ret' = "ok" => ~Root
      BY <1>6, StoredResults DEF Results, Goto, Waiting
    <2>2. ret' = "ok" /\ TakesAll => Len(output) = Size
      <3>1. CASE Pull
        BY <2>1, <3>1 DEF OutputInv, Root, Status
      <3>2. CASE ~Pull
        <4>1. ~Root => pc["write"] = "done" /\ ~cancelled /\ rc["write"] = "ok"
          BY <2>1, <3>2 DEF ErrorInv, Joins, Reports, Root, Status
        <4> QED BY <2>1, <3>2, <4>1 DEF OutputInv
      <3> QED BY <3>1, <3>2
    <2> QED BY <1>1, <2>1, <2>2 DEF OutputInv
  <1> QED BY <1>2, <1>3, <1>4, <1>5, <1>6 DEF Main

LEMMA Next_Output ==
    ASSUME PlainCopy, TypeInv, ErrorInv, PipeInv, OutputInv, [Next]_vars
    PROVE  OutputInv'
  <1> USE DEF TypeInv, TypeOK, Thread, Worker
  <1>1. ASSUME NEW t \in Thread, Monitor(t) PROVE OutputInv'
    <2>1. /\ UNCHANGED <<output, write_offset, cancelled, result, ret>>
          /\ \/ pc' = pc
             \/ /\ t \in Worker
                /\ \E l \in Location \ {"done", "wfunc"} : pc' = [pc EXCEPT ![t] = l]
          /\ pc'["write"] = pc["write"] => buf'["write"] = buf["write"]
          /\ pc'["write"] = pc["write"] => rc'["write"] = rc["write"]
      <3>1. CASE LockMutex(t)
        <4>1. UNCHANGED <<output, write_offset, cancelled, result, ret, rc>>
          BY <3>1 DEF LockMutex, offsets, outcome
        <4>2. CASE UNCHANGED <<pc, buf>>
          BY <4>1, <4>2 DEF Location
        <4>3. CASE OtherSideStopped(pc[t]) /\ Goto(t, AfterEarlyReturn[pc[t]])
          <5>1. pc[t] \in Call \ {"SetPullBuf", "GetPullBuf"}
            BY <4>3 DEF OtherSideStopped, Call
          <5>2. AfterEarlyReturn[pc[t]] \in {"flush", "exit", "loop"} /\ t \in Worker
            BY <5>1 DEF AfterEarlyReturn, ErrorInv, Places, Ends, Call
          <5>3. pc'[t] # pc[t] /\ \A u \in Worker \ {t} : buf'[u] = buf[u]
            BY <3>1, <4>3, <5>1, <5>2 DEF LockMutex, Goto, Call
          <5> QED BY <4>1, <4>3, <5>1, <5>2, <5>3 DEF Goto, Location
        <4> QED BY <3>1, <4>2, <4>3 DEF LockMutex
      <3>2. CASE CondvarWait(t) \/ Relock(t)
        BY <3>2 DEF CondvarWait, Relock, offsets, outcome, Location
      <3>3. CASE GiveUp(t)
        <4>1. pc[t] \in Call
          BY <3>3 DEF GiveUp, InCall
        <4> QED BY <3>3, <4>1 DEF GiveUp, Goto, offsets, Location, Call
      <3> QED BY <1>1, <3>1, <3>2, <3>3 DEF Monitor
    <2>2. Waiting' <=> Waiting
      BY <2>1 DEF Waiting
    <2>3. CASE pc'["write"] = pc["write"]
      BY <2>1, <2>2, <2>3, Output_Frame
    <2>4. CASE pc'["write"] # pc["write"]
      <3>1. pc'["write"] \notin {"done", "wfunc"}
        BY <2>1, <2>4
      <3> QED BY <2>1, <2>2, <3>1 DEF OutputInv
    <2> QED BY <2>3, <2>4
  <1>2. ASSUME NEW t \in Worker, End(t) PROVE OutputInv'
    <2>1. /\ UNCHANGED <<output, write_offset, buf, rc, cancelled, ret>>
          /\ pc[t] \in {"exit", "report"}
          /\ \E l \in {"report", "done"} : pc' = [pc EXCEPT ![t] = l]
          /\ result'["pull"] = result["pull"]
      BY <1>2 DEF End, Exit, Report, Goto, offsets
    <2>2. Waiting' <=> Waiting
      BY <2>1 DEF Waiting
    <2>3. CASE t # "write"
      BY <2>1, <2>2, <2>3, Output_Frame
    <2>4. CASE t = "write"
      BY <2>1, <2>2, <2>4, WriterEnds DEF OutputInv
    <2> QED BY <2>3, <2>4
  <1>3. CASE Reader \/ Decompressor
    <2>1. /\ UNCHANGED <<output, write_offset, cancelled, result, ret>>
          /\ \E t \in {"read", "decompress"} : \E l \in Location : pc' = [pc EXCEPT ![t] = l]
          /\ buf'["write"] = buf["write"] /\ rc'["write"] = rc["write"]
      BY <1>3 DEF Reader, ReadLoop, ReadData, SetDecompressBuf, Decompressor,
                  DecompressLoop, GetDecompressBuf, Decompress, Flush, SetWriteBuf,
                  Leave, Goto, offsets, outcome, Location, Call
    <2>2. pc'["write"] = pc["write"] /\ (Waiting' <=> Waiting)
      BY <2>1 DEF Waiting
    <2> QED BY <2>1, <2>2, Output_Frame
  <1>4. CASE Writer
    BY <1>4, Writer_Output, Next_Error DEF PlainCopy
  <1>5. CASE Main
    BY <1>5, Main_Output
  <1>6. CASE Cancel \/ Finished \/ UNCHANGED vars
    <2>1. UNCHANGED <<output, write_offset, buf, pc, outcome>> /\ (cancelled => cancelled')
      BY <1>6 DEF Cancel, Finished, vars, offsets
    <2> QED BY <2>1, Output_Frame DEF outcome, Waiting
  <1> QED BY <1>1, <1>2, <1>3, <1>4, <1>5, <1>6 DEF Next

LEMMA CopyInvariant ==
    ASSUME PlainCopy
    PROVE  Spec => []CopyInv
  <1>1. Init => PipeInv /\ OutputInv
    <2>1. Init => OutputInv
      BY DEF Init, OutputInv, Thread, Worker, Waiting, TakesAll
    <2> QED BY <2>1, Init_Pipe
  <1>2. TypeInv /\ ErrorInv /\ PipeInv /\ OutputInv /\ [Next]_vars
            => PipeInv' /\ OutputInv'
    BY Next_Pipe, Next_Output
  <1>3. OnlyTheEndFails
    BY DEF PlainCopy
  <1>4. Spec => []TypeInv
    BY TypeInvariant
  <1>5. Spec => []ErrorInv
    BY <1>3, ErrorInvariant
  <1> QED BY <1>1, <1>2, <1>4, <1>5, PTL DEF Spec, CopyInv

-----------------------------------------------------------------------------
(* What a plain copy gives its caller *)

(* However the three workers and the consumer interleave, and wherever the *)
(* transfer is cancelled or fails, wfunc or the consumer was given the     *)
(* blocks of the source one after the other.                               *)
THEOREM BlocksInOrder ==
    ASSUME PlainCopy
    PROVE  Spec => []InOrder
  <1>1. CopyInv => InOrder
    <2>1. SUFFICES ASSUME CopyInv, NEW i \in DOMAIN output
                   PROVE  /\ Last(i) < output[i]
                          /\ Last(i) + 1 .. output[i] - 1 = {}
      BY DEF InOrder
    <2>2. \A j \in DOMAIN output : output[j] = j
      BY <2>1 DEF CopyInv, OutputInv
    <2>3. i \in Nat \ {0} /\ output[i] = i
      BY <2>1, <2>2 DEF CopyInv, TypeInv, TypeOK, Vector
    <2>4. Last(i) = i - 1
      BY <2>1, <2>2, <2>3 DEF Last, CopyInv, TypeInv, TypeOK, Vector
    <2> QED BY <2>3, <2>4
  <1> QED BY <1>1, CopyInvariant, PTL

(* Success is returned only when every block was handed on.                *)
THEOREM SuccessHasAllBlocks ==
    ASSUME PlainCopy, TakesAll
    PROVE  Spec => []SuccessIsComplete
  <1>1. CopyInv => SuccessIsComplete
    <2>1. SUFFICES ASSUME CopyInv, ret = "ok", NEW n \in 1 .. Avail
                   PROVE  \E i \in DOMAIN output : output[i] = n
      BY DEF SuccessIsComplete
    <2>2. Len(output) = Size /\ \A j \in DOMAIN output : output[j] = j
      BY <2>1 DEF CopyInv, OutputInv
    <2>3. n \in DOMAIN output
      BY <2>2 DEF PlainCopy, CopyInv, TypeInv, TypeOK, Vector
    <2> QED BY <2>2, <2>3
  <1> QED BY <1>1, CopyInvariant, PTL

(* The transfer implements the copy: each of its steps appends the next    *)
(* block, returns, or changes nothing its caller sees.                     *)
THEOREM TransferImplementsCopy ==
    ASSUME PlainCopy, TakesAll
    PROVE  Spec => ImplementsCopy
  <1> DEFINE seen == IF pc["main"] = "returned" THEN ret ELSE "none"
  <1> USE DEF Worker, Thread
  <1>1. Init => Copy!CopyInit
    BY DEF Init, Copy!CopyInit
  <1>2. ASSUME CopyInv, CopyInv', [Next]_vars
        PROVE  [Copy!CopyBlock \/ Copy!ReturnSuccess \/ Copy!ReturnFailure]_(Copy!copyVars)
    <2> USE <1>2 DEF CopyInv, TypeInv, TypeOK
    <2>1. CASE Return
      <3>1. pc["main"] = "closing" /\ pc'["main"] = "returned"
            /\ UNCHANGED <<ret, output>>
        BY <2>1 DEF Return, Goto, outcome
      <3>2. ret = "ok" \/ ret = "fail"
        BY <3>1 DEF ErrorInv, Joins, Status
      <3>3. ret = "ok" => Len(output) = Size
        BY DEF OutputInv
      <3> QED BY <3>1, <3>2, <3>3 DEF Copy!ReturnSuccess, Copy!ReturnFailure
    <2>2. CASE UNCHANGED output /\ (pc'["main"] = "returned" <=> pc["main"] = "returned")
               /\ (pc["main"] = "returned" => UNCHANGED ret)
      BY <2>2 DEF Copy!copyVars
    <2>3. CASE WriteData /\ output' = output \o buf["write"]
      <3>1. pc["write"] = "wfunc" /\ pc'["main"] = pc["main"] /\ UNCHANGED ret
        BY <2>3 DEF WriteData, Goto
      <3>2. ~Pull /\ pc["main"] # "returned"
        BY <3>1 DEF ErrorInv, Places, Joins, Ends
      <3>3. buf["write"] = <<Len(output) + 1>>
        BY <3>1, <3>2 DEF OutputInv
      <3>4. Len(output) + 1 \in Unit
        <4>1. buf["write"] \in Seq(Unit)
          BY DEF Vector
        <4>2. buf["write"][1] = Len(output) + 1 /\ 1 \in DOMAIN buf["write"]
          BY <3>3
        <4> QED BY <4>1, <4>2
      <3>5. /\ output' = Append(output, Len(output) + 1) /\ ret' = ret
            /\ pc'["main"] = pc["main"]
        BY <2>3, <3>1, <3>3
      <3> QED BY <3>2, <3>4, <3>5, TransferAssumption DEF Copy!CopyBlock, Unit
    <2>4. CASE GetPullBuf
      <3>1. /\ pc["main"] = "GetPullBuf" /\ pc'["main"] = "pull" /\ ~Root
            /\ stage["main"] = "inside" /\ Waiting /\ output' = output \o pull_buffer
            /\ UNCHANGED ret
        BY <2>4, StoredResults DEF GetPullBuf, Leave, Waiting, outcome
      <3>2. Pull /\ rc["write"] = "ok" /\ ~cancelled
        BY <3>1 DEF ErrorInv, Places, Reports, Root, Status
      <3>3. PullSide
        BY <3>1, <3>2 DEF PipeInv, Live, Pipe
      <3>4. pull_buffer = <<write_offset>> /\ Len(output) = write_offset - 1
        BY <3>1, <3>3 DEF PullSide, Entered
      <3>5. pull_buffer = <<Len(output) + 1>>
        BY <3>4
      <3>6. Len(output) + 1 \in Unit
        <4>1. pull_buffer \in Seq(Unit) /\ pull_buffer[1] = Len(output) + 1
              /\ 1 \in DOMAIN pull_buffer
          BY <3>5 DEF Vector
        <4> QED BY <4>1
      <3> QED BY <3>1, <3>5, <3>6, TransferAssumption DEF Copy!CopyBlock, Unit, Vector
    <2>5. CASE Results
      BY <2>2, <2>5 DEF Results, Goto
    <2>6. ASSUME NEW t \in Thread, Monitor(t)
          PROVE  /\ UNCHANGED <<output, ret>>
                 /\ pc'["main"] = "returned" <=> pc["main"] = "returned"
      <3>1. CASE LockMutex(t)
        <4>1. pc[t] \in Call
          BY <3>1 DEF LockMutex, InCall
        <4>2. AfterEarlyReturn[pc[t]] # "returned" /\ pc[t] # "returned"
          BY <4>1 DEF AfterEarlyReturn, Call
        <4> QED BY <3>1, <4>2 DEF LockMutex, Goto, outcome
      <3>2. CASE CondvarWait(t) \/ Relock(t) \/ GiveUp(t)
        BY <3>2 DEF CondvarWait, Relock, GiveUp, Goto, outcome
      <3> QED BY <2>6, <3>1, <3>2 DEF Monitor
    <2>7. CASE \E t \in Worker : End(t)
      BY <2>2, <2>7 DEF End, Exit, Report, Goto
    <2>8. CASE Reader \/ Decompressor
      BY <2>2, <2>8 DEF Reader, ReadLoop, ReadData, SetDecompressBuf, Decompressor,
                  DecompressLoop, GetDecompressBuf, Decompress, Flush, SetWriteBuf,
                  Leave, Goto, outcome
    <2>9. CASE WriteLoop \/ GetWriteBuf \/ SetPullBuf \/ (WriteData /\ UNCHANGED output)
      BY <2>2, <2>9 DEF WriteLoop, GetWriteBuf, WriteData, SetPullBuf, Leave, Goto, outcome
    <2>10. CASE WaitForEvent \/ PullStart \/ GetPullBufPart \/ WakeAllThreads
                \/ (\E r \in Status : PullEnd(r))
      BY <2>2, <2>10 DEF WaitForEvent, PullStart, GetPullBufPart, WakeAllThreads,
                         PullEnd, Goto, outcome
    <2>11. CASE Cancel \/ Finished \/ UNCHANGED vars
      BY <2>2, <2>11 DEF Cancel, Finished, vars, outcome
    <2>12. WriteData => output' = output \o buf["write"] \/ UNCHANGED output
      BY DEF WriteData
    <2>13. CASE \E t \in Thread : Monitor(t)
      BY <2>2, <2>6, <2>13
    <2> QED BY <2>1, <2>3, <2>4, <2>5, <2>7, <2>8, <2>9, <2>10, <2>11, <2>12, <2>13
            DEF Next, Writer, Main
  <1> QED BY <1>1, <1>2, CopyInvariant, PTL DEF Spec, ImplementsCopy, Copy!CopySpec
=============================================================================
