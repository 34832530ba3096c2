----------------------------- MODULE KencStream -----------------------------
(***************************************************************************)
(* An encoder, a decoder and whoever carries the packets between them.     *)
(*                                                                         *)
(* The carrier hands the decoder any packet the encoder has emitted, any   *)
(* number of times, in any order, or never: a network that loses, repeats, *)
(* delays and reorders.  It does not damage packets: those do not parse.   *)
(* The two ends are reset and configured independently of one another.     *)
(***************************************************************************)
EXTENDS KencEncoder, KencDecoder, FiniteSets

vars == <<encVars, decVars>>

Init == EncoderInit /\ DecoderInit

EncoderStep == EncoderNext /\ UNCHANGED decVars

DecoderStep == DecoderNext(sent) /\ UNCHANGED encVars

Next == EncoderStep \/ DecoderStep

Spec == Init /\ [][Next]_vars

-----------------------------------------------------------------------------
(* Properties *)

TypeOK == EncoderTypeOK /\ DecoderTypeOK

\* The tokens the decoder's stream had run when it produced the PCM heard last
\* are, one by one, those the encoder computed for that epoch: the lead-in is
\* as long on both sides, and token k was computed from the first k frames of
\* the same audio.  No loss, repetition, reordering, reset, failed inference or
\* change of profile at either end makes a decoder play a packet on state other
\* than the one its encoder computed it for.
DecodesTheEncodersEpoch ==
    played # << >> =>
        LET whole == LastPlayed.codes
            lead  == LeadIn(dec_epoch_start)
        IN  /\ Len(heard) = Len(whole)
            /\ \A k \in 1..Len(heard) :
                  heard[k] = SubSeq(whole, 1, IF k <= lead THEN lead + 1 ELSE k)

\* Only what was sent is played, and no packet is played again until the owner
\* resets the decoder, however often the carrier delivers it.
PlayedOnce ==
    /\ \A k \in 1..Len(played) : played[k] \in sent
    /\ \A j, k \in 1..Len(played) : played[j] = played[k] => j = k

-----------------------------------------------------------------------------
(* What the two ends implement *)

Final(s) == s[Len(s)]

SentOf(e) == {p \in sent : p.epoch = e}

Numbered(packets, index) == CHOOSE p \in packets : p.index = index

\* The audio behind the packets of an epoch: what each one's codes end with.
Published(packets) ==
    [k \in 1..Cardinality(packets) |-> Final(Numbered(packets, k - 1).codes)]

\* The audio behind what the decoder's stream has run, without the lead-in.
HeardAudio ==
    [k \in 1..Len(heard) - LeadIn(dec_epoch_start) |->
        Final(heard[LeadIn(dec_epoch_start) + k])]

Playback ==
    INSTANCE KencPlayback WITH
        pushed <- [e \in {p.epoch : p \in sent} |-> Published(SentOf(e))],
        at     <- IF dec_has_epoch THEN <<dec_epoch>> ELSE << >>,
        heard  <- IF dec_has_epoch THEN HeardAudio ELSE << >>

\* The two ends and any carrier implement the listener of KencPlayback: what
\* the decoder plays of an epoch is the audio pushed into that epoch, frame by
\* frame from its start, and the epochs it plays only go up.
ImplementsPlayback == Playback!Spec

-----------------------------------------------------------------------------
(* What the refinement rests on, besides the invariants of the two ends *)

\* Whatever was played came out of the encoder.
OnlySent == \A k \in 1..Len(played) : played[k] \in sent

\* The packets of an epoch are numbered from 0 without a gap, through every
\* reset and every failed push: as many as there are, that far they are numbered.
NumberedFromZero ==
    \A e \in Epochs :
        /\ IsFiniteSet(SentOf(e))
        /\ \A k \in 0..EpochPackets :
              k < Cardinality(SentOf(e)) <=> \E p \in SentOf(e) : p.index = k

\* The packets of the epoch being played were played from its first one on.
PlayedFromZero ==
    played # << >> =>
        \A k \in 0..LastPlayed.index :
            /\ played[EpochStart + k].epoch = LastPlayed.epoch
            /\ played[EpochStart + k].index = k
=============================================================================
