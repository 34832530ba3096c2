---------------------------- MODULE KencEncoder ----------------------------
(***************************************************************************)
(* One kenc_encoder (src/src/encoder.c) and the packets it has emitted.    *)
(*                                                                         *)
(* `sent` only grows: whoever carries the packets may lose, repeat and     *)
(* reorder them, and a packet that may arrive again is one that is still   *)
(* there.                                                                  *)
(*                                                                         *)
(* A call that an early return refuses (wrong sample count, wrong PTS, a   *)
(* short buffer, a profile change inside a running sequence, an exhausted  *)
(* encoder) assigns nothing: it is a stuttering step.                      *)
(***************************************************************************)
EXTENDS KencPacket

VARIABLES enc_native, enc_epoch, enc_index, enc_last_pts, enc_flags,
          enc_epoch_start, enc_emitted, enc_exhausted,   \* struct kenc_encoder
          sent                                           \* what came out of it

encVars == <<enc_native, enc_epoch, enc_index, enc_last_pts, enc_flags,
             enc_epoch_start, enc_emitted, enc_exhausted, sent>>

EncoderInit ==
    /\ enc_native = NativeCreate
    /\ enc_epoch = 0
    /\ enc_index = 0
    /\ enc_last_pts = 0
    /\ enc_flags = {"RESET"}
    /\ enc_epoch_start = "C0"
    /\ enc_emitted = FALSE
    /\ enc_exhausted = FALSE
    /\ sent = {}

\* Inside a running sequence: the next packet has to continue the last one.
Running == enc_emitted /\ "DISCONTINUITY" \notin enc_flags

-----------------------------------------------------------------------------
\* kenc_encoder_set_epoch_start
SelectEncoderProfile(profile) ==
    /\ ~Running
    /\ enc_epoch_start' = profile
    /\ enc_native' = SetPreroll(enc_native, LeadIn(profile))
    /\ UNCHANGED <<enc_epoch, enc_index, enc_last_pts, enc_flags,
                   enc_emitted, enc_exhausted, sent>>

\* Mutant of ResetFrom: the last epoch is not noticed.
ResetNeverExhausts(n) ==
    /\ enc_epoch' = IF Running /\ enc_epoch # EpochMax THEN enc_epoch + 1 ELSE enc_epoch
    /\ enc_index' = 0
    /\ enc_flags' = {"RESET", "DISCONTINUITY"}
    /\ enc_native' = NativeReset(n)
    /\ UNCHANGED <<enc_last_pts, enc_epoch_start, enc_emitted, enc_exhausted, sent>>

\* kenc_encoder_reset, of an encoder whose native stream is n by then.  A
\* number that no packet carries yet is not skipped; after the last number
\* there is none left.
ResetFrom(n) ==
    /\ enc_epoch' = IF Running /\ enc_epoch # EpochMax THEN enc_epoch + 1 ELSE enc_epoch
    /\ enc_exhausted' = (enc_exhausted \/ (Running /\ enc_epoch = EpochMax))
    /\ enc_index' = 0
    /\ enc_flags' = {"RESET", "DISCONTINUITY"}
    /\ enc_native' = NativeReset(n)
    /\ UNCHANGED <<enc_last_pts, enc_epoch_start, enc_emitted, sent>>

ResetEncoder == ResetFrom(enc_native)

-----------------------------------------------------------------------------
\* The epoch is full: the next packet opens a new one.
Boundary == enc_index = EpochPackets

\* Mutant of PushAccepted: the sum may wrap.
PushAcceptsWrappedPts(pts) ==
    /\ ~enc_exhausted
    /\ Running => pts = PtsAfter(enc_last_pts)
    /\ Boundary => enc_epoch # EpochMax

PushAccepted(pts) ==
    /\ ~enc_exhausted
    /\ Running => /\ enc_last_pts <= PtsMax - PtsStep
                  /\ pts = PtsAfter(enc_last_pts)
    /\ Boundary => enc_epoch # EpochMax

\* The header a push builds before it touches the stream ...
PushEpoch == IF Boundary THEN EpochAfter(enc_epoch) ELSE enc_epoch
PushIndex == IF Boundary THEN 0 ELSE enc_index
PushFlags ==
    LET flags == IF Boundary THEN {"RESET"} ELSE enc_flags
    IN  IF "RESET" \in flags /\ enc_epoch_start = "C5R4"
        THEN flags \cup {"EPOCH_PREROLL"}
        ELSE flags

Packet(pts, codes) ==
    [epoch |-> PushEpoch, index |-> PushIndex, pts_ms |-> pts,
     flags |-> PushFlags, short |-> FALSE, codes |-> codes]

\* Mutant of PushNative: the boundary does not zero the stream.
PushOnOldState == enc_native

\* ... and the stream the frame is run on.
PushNative == IF Boundary THEN NativeReset(enc_native) ELSE enc_native

\* kenc_encoder_push_s16 returning KENC_OK.
Push(pcm, pts) ==
    /\ PushAccepted(pts)
    /\ enc_native' = RunFrame(PushNative, pcm)
    /\ sent' = sent \cup {Packet(pts, Current(enc_native'))}
    /\ enc_epoch' = PushEpoch
    /\ enc_index' = PushIndex + 1
    /\ enc_flags' = {}
    /\ enc_last_pts' = pts
    /\ enc_emitted' = TRUE
    /\ UNCHANGED <<enc_epoch_start, enc_exhausted>>

\* The inference fails: the encoder resets itself and no packet comes out.
PushFails(pcm, pts) ==
    /\ PushAccepted(pts)
    /\ \E native \in FailedEncode(PushNative, pcm) : ResetFrom(native)

EncoderNext ==
    \/ \E profile \in Profiles : SelectEncoderProfile(profile)
    \/ ResetEncoder
    \/ \E pcm \in Audio, pts \in Times64 : Push(pcm, pts)
    \/ \E pcm \in Audio, pts \in Times64 : PushFails(pcm, pts)

EncoderSpec == EncoderInit /\ [][EncoderNext]_encVars

-----------------------------------------------------------------------------
(* Properties *)

\* The fields of the encoder and every packet it emits are in range, and the
\* packets are such that a decoder parses them.
EncoderTypeOK ==
    /\ enc_native \in NativeType(Frames)
    /\ enc_epoch \in Epochs
    /\ enc_index \in 0..EpochPackets
    /\ enc_last_pts \in Times64
    /\ enc_flags \in SUBSET Flags
    /\ enc_epoch_start \in Profiles
    /\ enc_emitted \in BOOLEAN
    /\ enc_exhausted \in BOOLEAN
    /\ \A p \in sent : p \in Packets /\ WellFormed(p) /\ p.index < EpochPackets

\* A packet that leaves the encoder comes after every packet that left it
\* before, in (epoch, index) order, so no number is used twice: not after a
\* reset, a failed push, a boundary, nor at the end of the number space
\* (encoder.c: kenc_encoder_reset and the exhausted flag).
EmitsForward ==
    [][\A p \in sent' \ sent, q \in sent : Before(q, p)]_encVars

\* Two packets of one (epoch, index) are the same packet.
NumbersUnique ==
    \A p, q \in sent : p.epoch = q.epoch /\ p.index = q.index => p = q

\* A RESET packet computed from zeroed state behind the lead-in its marker
\* announces, or one that continues the packet before it in its epoch.
FromOwnEpoch(p, others) ==
    IF Reset(p)
    THEN \E pcm \in Audio :
            p.codes = Times(1 + (IF "EPOCH_PREROLL" \in p.flags THEN Preroll ELSE 0), pcm)
    ELSE \E q \in others, pcm \in Audio :
            /\ q.epoch = p.epoch
            /\ q.index = p.index - 1
            /\ p.codes = Append(q.codes, pcm)

\* The tokens of a packet depend on its own epoch and nothing else.  A failed
\* push, a boundary or a change of profile must leave nothing behind.
EpochsIndependent == \A p \in sent : FromOwnEpoch(p, sent)

\* The packet that directly precedes p: in its epoch, or full before it.
Precedes(q, p) ==
    \/ q.epoch = p.epoch /\ q.index = p.index - 1
    \/ q.epoch = p.epoch - 1 /\ q.index = EpochPackets - 1 /\ p.index = 0

OnTimeline(p, others) ==
    \/ "DISCONTINUITY" \in p.flags
    \/ \A q \in others : p = q \/ Before(p, q)
    \/ \E q \in others : Precedes(q, p) /\ p.pts_ms = q.pts_ms + PtsStep

\* Only a packet marked DISCONTINUITY, or the very first one, may break the
\* timeline: any other one is PtsStep later than a packet that precedes it
\* directly, across the epoch boundary as well.
TimelineMarked == \A p \in sent : OnTimeline(p, sent)

-----------------------------------------------------------------------------
(* The inductive invariant of the encoder *)

\* Nothing emitted yet, and nothing tried.
AtStart ==
    /\ enc_flags = {"RESET"}
    /\ enc_index = 0
    /\ ~enc_emitted /\ ~enc_exhausted
    /\ sent = {}
    /\ Fresh(enc_native)

\* Reset by its owner or by a failed push.
AtDiscontinuity ==
    /\ enc_flags = {"RESET", "DISCONTINUITY"}
    /\ enc_index = 0
    /\ ~enc_emitted => sent = {}
    /\ Fresh(enc_native)

\* Behind a packet whose history is the current bank.
InEpoch ==
    /\ enc_flags = {}
    /\ enc_emitted /\ ~enc_exhausted
    /\ enc_index # 0
    /\ ~enc_native.preroll
    /\ \E q \in sent :
          /\ q.epoch = enc_epoch
          /\ q.index = enc_index - 1
          /\ q.pts_ms = enc_last_pts
          /\ q.codes = Current(enc_native)

\* The number the encoder stands at is unused and above all used ones.
NumberUnused ==
    ~enc_exhausted =>
        \A p \in sent : \/ p.epoch < enc_epoch
                        \/ p.epoch = enc_epoch /\ p.index < enc_index

LeadInSelected == enc_native.preroll_packets = LeadIn(enc_epoch_start)

\* The encoder is at one of its three points, its number is unused, and its
\* native stream holds what its next packet will be computed from.
EncoderInv ==
    /\ EncoderTypeOK
    /\ AtStart \/ AtDiscontinuity \/ InEpoch
    /\ NumberUnused
    /\ LeadInSelected
=============================================================================
