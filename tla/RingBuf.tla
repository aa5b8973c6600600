------------------------------- MODULE RingBuf -------------------------------
(***************************************************************************)
(* RingBuf<Size> of threaded_file_transfer.cpp (yati.cpp has the same      *)
(* class with four slots).  The indices run modulo twice the capacity so   *)
(* that full and empty differ; nothing in the class tests for either.      *)
(*                                                                         *)
(* A push or a pop SWAPS the caller's vector with the slot's, so a slot    *)
(* that was popped keeps whatever the popper held before, and popping an   *)
(* empty ring hands out such a leftover.  The off field of a slot is left  *)
(* out: only the data is followed.                                         *)
(*                                                                         *)
(* The % of the code is only ever applied to an index at most one step     *)
(* outside its range; it is written as the conditional subtraction it is   *)
(* there, which keeps every operator linear in Cap.                        *)
(***************************************************************************)
EXTENDS Integers

CONSTANT Cap            (* number of slots, the class's template argument *)

ASSUME CapAssumption == Cap \in Nat \ {0}

Slot  == 0 .. Cap - 1
Index == 0 .. 2 * Cap - 1

(* The rings whose slots hold members of V. *)
Ring(V) == [slot : [Slot -> V], r : Index, w : Index]

EmptyRing(v) == [slot |-> [i \in Slot |-> v], r |-> 0, w |-> 0]

(* index % ringbuf_capacity(), and (index + 1U) % (ringbuf_capacity() * 2U) *)
SlotOf(index) == IF index < Cap THEN index ELSE index - Cap

(* Mutants: the index is not wrapped; a pop leaves the read index alone.   *)
StepPastTheEnd(index) == index + 1
PopKeepsIndex(ring, v) == [ring EXCEPT !.slot[SlotOf(ring.r)] = v]

Step(index) == IF index = 2 * Cap - 1 THEN 0 ELSE index + 1

ringbuf_size(ring) ==
    IF ring.w < ring.r THEN ring.w - ring.r + 2 * Cap ELSE ring.w - ring.r

(* Unsigned in the code: below zero it is a huge number, which every       *)
(* caller reads as "there is room", as any value but zero is read here.    *)
ringbuf_free(ring) == Cap - ringbuf_size(ring)

(* The vector the next push, or the next pop, swaps out of the ring. *)
PushTakes(ring) == ring.slot[SlotOf(ring.w)]
PopTakes(ring)  == ring.slot[SlotOf(ring.r)]

ringbuf_push(ring, v) ==
    [slot |-> [ring.slot EXCEPT ![SlotOf(ring.w)] = v],
     r    |-> ring.r,
     w    |-> Step(ring.w)]

ringbuf_pop(ring, v) ==
    [slot |-> [ring.slot EXCEPT ![SlotOf(ring.r)] = v],
     r    |-> Step(ring.r),
     w    |-> ring.w]

=============================================================================
