------------------------------ MODULE Channel ------------------------------
(***************************************************************************)
(* What a program that asks before it sends may rely on from an output     *)
(* device: a channel of one message.  While the line is good every message *)
(* is delivered once, in the order of sending.  A line that is lost is     *)
(* lost for good: from then on messages vanish.                            *)
(***************************************************************************)
EXTENDS Naturals, Sequences

CONSTANT Message

VARIABLES put, delivered, lost

InFlight == Len(put) - Len(delivered)

ChannelInit == put = << >> /\ delivered = << >> /\ lost = FALSE

Put == /\ lost \/ InFlight = 0
       /\ \E m \in Message : put' = Append(put, m)
       /\ UNCHANGED <<delivered, lost>>

Deliver == /\ ~lost /\ InFlight = 1
           /\ delivered' = put
           /\ UNCHANGED <<put, lost>>

Lose == /\ ~lost
        /\ lost' = TRUE
        /\ UNCHANGED <<put, delivered>>

ChannelNext == Put \/ Deliver \/ Lose

ChannelSpec == ChannelInit /\ [][ChannelNext]_<<put, delivered, lost>>
=============================================================================
