---------------------------- MODULE OrderedCopy ----------------------------
(***************************************************************************)
(* What a transfer promises its caller: the blocks of the source reach the *)
(* destination one after the other, each once; the call returns success    *)
(* only when all of them did; and nothing is written after it returned.    *)
(***************************************************************************)
EXTENDS Naturals, Sequences

CONSTANT Total          (* the number of blocks of the source *)

VARIABLES output, ret

copyVars == <<output, ret>>

CopyInit == output = <<>> /\ ret = "none"

CopyBlock ==
    /\ ret = "none"
    /\ Len(output) < Total
    /\ output' = Append(output, Len(output) + 1)
    /\ UNCHANGED ret

ReturnSuccess == ret = "none" /\ Len(output) = Total /\ ret' = "ok" /\ UNCHANGED output

ReturnFailure == ret = "none" /\ ret' = "fail" /\ UNCHANGED output

CopySpec == CopyInit /\ [][CopyBlock \/ ReturnSuccess \/ ReturnFailure]_copyVars
=============================================================================
