----------------------------- MODULE StreamFifo -----------------------------
(***************************************************************************)
(* What the input port of a decoder channel promises: the decoder firmware *)
(* is handed the client's stream packets in the order of submission, one   *)
(* holder at a time, and the end-of-stream marker stays in its place       *)
(* behind the packets sent before it.  A flush takes back what the decoder *)
(* has not been given yet.                                                 *)
(***************************************************************************)
EXTENDS Naturals, Sequences, SequencesExt

CONSTANTS
    Buf,         \* stream buffers
    Eos          \* the end-of-stream marker

VARIABLES
    waiting,     \* submitted and not yet handed over, oldest first
    decoding     \* held by the decoder

fifoVars == <<waiting, decoding>>

Packet == Buf \cup {Eos}
InPort == ToSet(waiting) \cup decoding

Init == waiting = <<>> /\ decoding = {}

Submit(p) ==
    /\ p \notin InPort
    /\ waiting' = Append(waiting, p)
    /\ UNCHANGED decoding

HandOver ==
    /\ waiting # <<>>
    /\ decoding' = decoding \cup {Head(waiting)}
    /\ waiting' = Tail(waiting)

Return(p) ==
    /\ p \in decoding
    /\ decoding' = decoding \ {p}
    /\ UNCHANGED waiting

Flush ==
    /\ waiting' = <<>>
    /\ UNCHANGED decoding

Next ==
    \/ \E p \in Packet : Submit(p) \/ Return(p)
    \/ HandOver
    \/ Flush

Spec == Init /\ [][Next]_fifoVars
=============================================================================
