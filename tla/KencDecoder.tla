---------------------------- MODULE KencDecoder ----------------------------
(***************************************************************************)
(* One kenc_decoder (src/src/decoder.c), given any packet that parses.     *)
(*                                                                         *)
(* `played` and `heard` are history: the packets the decoder has turned    *)
(* into PCM since it was created or reset by its owner, and what its       *)
(* native stream had run when it did so for the last of them, which is     *)
(* what that PCM was computed from.                                        *)
(*                                                                         *)
(* A pull refused before the decoder is assigned to (a packet that does    *)
(* not parse, an index outside the epoch, a short packet without END, a    *)
(* marker of the other profile, an epoch already reached) is a stuttering  *)
(* step, and so is a refused change of profile.                            *)
(***************************************************************************)
EXTENDS KencPacket

VARIABLES dec_native, dec_epoch, dec_next_index, dec_last_pts,
          dec_epoch_start, dec_has_epoch, dec_needs_reset,  \* struct kenc_decoder
          played, heard                                     \* history

decVars == <<dec_native, dec_epoch, dec_next_index, dec_last_pts,
             dec_epoch_start, dec_has_epoch, dec_needs_reset, played, heard>>

DecoderInit ==
    /\ dec_native = NativeCreate
    /\ dec_epoch = 0
    /\ dec_next_index = 0
    /\ dec_last_pts = 0
    /\ dec_epoch_start = "C0"
    /\ dec_has_epoch = FALSE
    /\ dec_needs_reset = TRUE
    /\ played = << >>
    /\ heard = << >>

-----------------------------------------------------------------------------
\* kenc_decoder_set_epoch_start
SelectDecoderProfile(profile) ==
    /\ ~dec_has_epoch
    /\ dec_epoch_start' = profile
    /\ dec_native' = SetPreroll(dec_native, LeadIn(profile))
    /\ UNCHANGED <<dec_epoch, dec_next_index, dec_last_pts, dec_has_epoch,
                   dec_needs_reset, played, heard>>

\* kenc_decoder_reset
ResetDecoder ==
    /\ dec_native' = NativeReset(dec_native)
    /\ dec_has_epoch' = FALSE
    /\ dec_needs_reset' = TRUE
    /\ played' = << >>
    /\ heard' = << >>
    /\ UNCHANGED <<dec_epoch, dec_next_index, dec_last_pts, dec_epoch_start>>

-----------------------------------------------------------------------------
\* Mutant of Considered: the marker is not compared with the profile.
ConsideredAnyProfile(p) ==
    /\ p.index < EpochPackets
    /\ p.short => "END" \in p.flags

\* A packet the pull looks at: in range, full unless it is the last one, and,
\* when it starts an epoch, marked with the decoder's profile.
Considered(p) ==
    /\ p.index < EpochPackets
    /\ p.short => "END" \in p.flags
    /\ Reset(p) => ("EPOCH_PREROLL" \in p.flags <=> dec_epoch_start = "C5R4")

\* Mutant of Joins: the epoch being played may start again.
JoinsAgain(p) == Reset(p) /\ (dec_has_epoch => p.epoch >= dec_epoch)

\* It starts an epoch after all those this decoder has reached ...
Joins(p) == Reset(p) /\ (dec_has_epoch => p.epoch > dec_epoch)

\* ... or it directly continues the packet decoded last.
Continues(p) ==
    /\ ~Reset(p)
    /\ ~dec_needs_reset
    /\ dec_has_epoch
    /\ p.epoch = dec_epoch
    /\ p.index = dec_next_index
    /\ dec_last_pts <= PtsMax - PtsStep
    /\ p.pts_ms = PtsAfter(dec_last_pts)

\* Mutant of PullNative: a RESET packet does not reset the stream.
PullOnOldStream(p) == dec_native

\* The stream the packet is decoded on.
PullNative(p) == IF Reset(p) THEN NativeReset(dec_native) ELSE dec_native

\* kenc_decoder_pull_s16 returning KENC_OK.
PullPlays(p) ==
    /\ Considered(p)
    /\ Joins(p) \/ Continues(p)
    /\ dec_native' = RunFrame(PullNative(p), p.codes)
    /\ dec_epoch' = p.epoch
    /\ dec_next_index' = p.index + 1
    /\ dec_last_pts' = p.pts_ms
    /\ dec_has_epoch' = TRUE
    /\ dec_needs_reset' = ("END" \in p.flags \/ p.index + 1 = EpochPackets)
    /\ played' = Append(played, p)
    /\ heard' = Current(dec_native')
    /\ UNCHANGED dec_epoch_start

\* The inference fails: where the decoder stands is unchanged, but the native
\* stream is not to be continued.
PullFails(p) ==
    /\ Considered(p)
    /\ Joins(p) \/ Continues(p)
    /\ dec_native' \in FailedDecode(PullNative(p), p.codes)
    /\ dec_needs_reset' = TRUE
    /\ UNCHANGED <<dec_epoch, dec_next_index, dec_last_pts, dec_epoch_start,
                   dec_has_epoch, played, heard>>

\* Anything but the next packet, and not the start of an epoch: the rest of
\* the epoch is given up.
PullLosesSync(p) ==
    /\ Considered(p)
    /\ ~Reset(p)
    /\ ~Continues(p)
    /\ dec_needs_reset' = TRUE
    /\ UNCHANGED <<dec_native, dec_epoch, dec_next_index, dec_last_pts,
                   dec_epoch_start, dec_has_epoch, played, heard>>

\* An early return: nothing is assigned.
PullRefused(p) ==
    /\ ~Considered(p) \/ (Reset(p) /\ ~Joins(p))
    /\ UNCHANGED decVars

Pull(p) == PullPlays(p) \/ PullFails(p) \/ PullLosesSync(p)

\* What its owner does to a decoder that receives one of the packets of wire.
DecoderNext(wire) ==
    \/ \E profile \in Profiles : SelectDecoderProfile(profile)
    \/ ResetDecoder
    \/ \E p \in wire : Pull(p)

-----------------------------------------------------------------------------
(* Properties *)

LastPlayed == played[Len(played)]

\* Where in `played` the epoch being played began.
EpochStart == Len(played) - LastPlayed.index

\* The decoder's fields are in range, and the bookkeeping of the epoch agrees
\* with itself: an index is awaited only inside an epoch.
DecoderTypeOK ==
    /\ dec_native \in NativeType(Codes \cup {Junk})
    /\ dec_epoch \in Epochs
    /\ dec_next_index \in 0..EpochPackets
    /\ dec_last_pts \in Times64
    /\ dec_epoch_start \in Profiles
    /\ dec_has_epoch \in BOOLEAN
    /\ dec_needs_reset \in BOOLEAN
    /\ played \in Seq(Packets)
    /\ heard \in Seq(Codes \cup {Junk})

\* What is played is a whole beginning of every epoch it touches, in order:
\* each packet either starts an epoch after all those before it, or directly
\* continues the one played before it, which was not marked END.  Holds
\* whatever arrives, and through failed inferences.
PlayedInOrder ==
    \A k \in 1..Len(played) :
        IF Reset(played[k])
        THEN \A j \in 1..k - 1 : played[j].epoch < played[k].epoch
        ELSE /\ k > 1
             /\ played[k].epoch = played[k - 1].epoch
             /\ played[k].index = played[k - 1].index + 1
             /\ played[k].pts_ms = played[k - 1].pts_ms + PtsStep
             /\ "END" \notin played[k - 1].flags

\* The PCM of a packet is computed from the lead-in of the decoder's profile
\* and its epoch's packets up to that one: never on top of what a failed or
\* refused pull, an earlier epoch or the other profile left in the banks.
HeardIsItsEpoch ==
    played # << >> =>
        LET first == EpochStart
            lead  == LeadIn(dec_epoch_start)
        IN  heard = Times(lead, played[first].codes)
                      \o [j \in 1..LastPlayed.index + 1 |-> played[first + j - 1].codes]

-----------------------------------------------------------------------------
(* The inductive invariant of the decoder *)

\* The decoder stands behind the packet played last.
AtLastPlayed ==
    /\ dec_has_epoch <=> played # << >>
    /\ played # << >> =>
          /\ dec_epoch = LastPlayed.epoch
          /\ dec_next_index = LastPlayed.index + 1
          /\ dec_last_pts = LastPlayed.pts_ms
          /\ LastPlayed.index < Len(played)

\* It takes a continuation only on the stream that PCM came from.
Synchronised ==
    ~dec_needs_reset =>
        /\ dec_has_epoch
        /\ ~dec_native.preroll
        /\ Current(dec_native) = heard
        /\ dec_next_index < EpochPackets
        /\ "END" \notin LastPlayed.flags

\* Played numbers only go up.
PlayedForward ==
    \A j, k \in 1..Len(played) : j < k => Before(played[j], played[k])

DecoderInv ==
    /\ DecoderTypeOK
    /\ dec_native.preroll_packets = LeadIn(dec_epoch_start)
    /\ AtLastPlayed
    /\ Synchronised
    /\ PlayedForward
    /\ PlayedInOrder
    /\ HeardIsItsEpoch
=============================================================================
