----------------------------- MODULE KencPacket -----------------------------
(***************************************************************************)
(* A KMA2 packet as both ends see it once it has been parsed               *)
(* (kenc_wire_packet in src/src/internal.h, src/src/packet.c).             *)
(*                                                                         *)
(* `codes` stands for the tokens: what decides them is the audio run since *)
(* the encoder's stream was zeroed, so they are that sequence of frames.   *)
(* `short` says that the packet holds fewer than KENC_PACKET_SAMPLES.      *)
(***************************************************************************)
EXTENDS KencNative

CONSTANTS Audio,          \* what one push may carry (960 samples)
          EpochMax,       \* the last epoch: UINT64_MAX
          PtsMax,         \* the last PTS: UINT64_MAX
          PtsStep,        \* one packet of PTS (40 ms)
          EpochPackets    \* options.epoch_packets

ASSUME PacketAssumption ==
    /\ EpochMax \in Nat
    /\ PtsMax \in Nat
    /\ PtsStep \in Nat \ {0}
    /\ EpochPackets \in Nat \ {0}

Flags == {"RESET", "END", "DISCONTINUITY", "EPOCH_PREROLL"}

Frames == Audio \cup {Junk}
Codes == Seq(Frames)

Epochs == 0..EpochMax
Times64 == 0..PtsMax

\* What follows in a uint64_t: after the last number comes 0.
EpochAfter(epoch) == (epoch + 1) % (EpochMax + 1)
PtsAfter(pts) == (pts + PtsStep) % (PtsMax + 1)

Packets ==
    [epoch : Epochs, index : Nat, pts_ms : Times64,
     flags : SUBSET Flags, short : BOOLEAN, codes : Codes]

Reset(p) == "RESET" \in p.flags

\* What kenc_packet_write emits and kenc_packet_read lets through.
WellFormed(p) ==
    /\ p.flags \cap {"DISCONTINUITY", "EPOCH_PREROLL"} # {} => Reset(p)
    /\ Reset(p) => p.index = 0

\* The order of the numbers packets carry.
Before(p, q) ==
    \/ p.epoch < q.epoch
    \/ p.epoch = q.epoch /\ p.index < q.index
=============================================================================
