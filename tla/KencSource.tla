------------------------------ MODULE KencSource ------------------------------
(***************************************************************************)
(* kenc_file_source (src/src/source.c): playback of an accepted file, mono *)
(* through a kenc_decoder, stereo frame by frame with overlap.             *)
(*                                                                         *)
(* The reader has accepted the file (KencReader), so what it still does is *)
(* to hand over record after record from where it was sought to.  Every    *)
(* call on a source runs to its end before the next one.                   *)
(***************************************************************************)
EXTENDS KencDecoder

CONSTANTS FileSamples,   \* info.samples
          FileStride,        \* samples per record: 960, or 47520 of stereo
          FileProfiles,  \* info.profile
          FileStarts     \* the epoch-start marker of a mono file

ASSUME SourceAssumption ==
    /\ FileSamples \in Nat \ {0}
    /\ FileStride \in Nat \ {0}
    /\ FileProfiles \subseteq {"mono", "stereo"} /\ FileStarts \subseteq Profiles

VARIABLES s_profile, s_start,   \* source->info.profile, source->epoch_start
          s_reader,             \* the record the reader stands at
          s_position,           \* source->position, in samples
          s_faulted,
          s_overlap,            \* the record whose tail is held: <<>> or <<n>>
          out                   \* history: the last PCM handed over

sourceVars == <<s_profile, s_start, s_reader, s_position, s_faulted, s_overlap, out>>

FileRecords == (FileSamples + FileStride - 1) \div FileStride

\* validate_info: a file lasts a day at most, so the numbers of its records are
\* numbers of packets.
ASSUME FileAssumption ==
    /\ 0..FileRecords - 1 \subseteq Audio
    /\ (FileRecords - 1) \div EpochPackets <= EpochMax
    /\ (FileRecords - 1) * PtsStep <= PtsMax

Mono == s_profile = "mono"

\* Record n of a mono file (validate_record has seen to it).
FilePacket(n) ==
    [epoch |-> n \div EpochPackets, index |-> n % EpochPackets, pts_ms |-> n * PtsStep,
     flags |-> IF n % EpochPackets # 0 THEN {}
               ELSE IF s_start = "C5R4" THEN {"RESET", "EPOCH_PREROLL"} ELSE {"RESET"},
     short |-> FALSE, codes |-> <<n>>]

\* source_create: the decoder is given the profile of the file.
SourceInit ==
    /\ s_profile \in FileProfiles
    /\ s_start \in IF s_profile = "mono" THEN FileStarts ELSE {"C0"}
    /\ s_reader = 0
    /\ s_position = 0
    /\ s_faulted = FALSE
    /\ s_overlap = << >>
    /\ out = << >>
    /\ dec_native = SetPreroll(NativeCreate, LeadIn(s_start))
    /\ dec_epoch = 0
    /\ dec_next_index = 0
    /\ dec_last_pts = 0
    /\ dec_epoch_start = s_start
    /\ dec_has_epoch = FALSE
    /\ dec_needs_reset = TRUE
    /\ played = << >>
    /\ heard = << >>

Remaining == FileSamples - s_position
PullCount == IF Remaining < FileStride THEN Remaining ELSE FileStride

\* What a stereo frame becomes once the tail held is blended into it.
Blend(n) == s_overlap \o <<n>>

Emit(from) ==
    /\ out' = [record |-> s_reader, at |-> s_position, count |-> PullCount, from |-> from]
    /\ s_position' = s_position + PullCount

-----------------------------------------------------------------------------
Playable == ~s_faulted /\ s_position < FileSamples

\* kenc_file_source_pull_f32 of a mono file, decode_next included: whatever the
\* decoder answers, the reader has moved on.
PullMono ==
    /\ Playable /\ Mono
    /\ s_reader < FileRecords
    /\ s_reader * FileStride = s_position
    /\ LET p == FilePacket(s_reader)
       IN  /\ Pull(p) \/ PullRefused(p)
           /\ IF played' # played
              THEN Emit(heard') /\ UNCHANGED s_faulted
              ELSE s_faulted' = TRUE /\ UNCHANGED <<s_position, out>>
    /\ s_reader' = s_reader + 1
    /\ UNCHANGED <<s_profile, s_start, s_overlap>>

\* The same of a stereo file.
PullStereo ==
    /\ Playable /\ ~Mono
    /\ s_reader < FileRecords
    /\ s_reader * FileStride = s_position
    /\ Emit(Blend(s_reader))
    /\ s_overlap' = <<s_reader>>
    /\ s_reader' = s_reader + 1
    /\ UNCHANGED <<s_profile, s_start, s_faulted, decVars>>

\* kenc_stereo_decode_frame fails, or yields a sample that is not finite: the
\* tail held stays as it is.
PullStereoFails ==
    /\ Playable /\ ~Mono
    /\ s_reader < FileRecords
    /\ s_faulted' = TRUE
    /\ s_reader' = s_reader + 1
    /\ UNCHANGED <<s_profile, s_start, s_position, s_overlap, out, decVars>>

\* The reader fails, has nothing left, or stands somewhere else.
PullReaderFails ==
    /\ Playable
    /\ s_faulted' = TRUE
    /\ UNCHANGED <<s_profile, s_start, s_reader, s_position, s_overlap, out, decVars>>

-----------------------------------------------------------------------------
Span == IF Mono THEN EpochPackets * FileStride ELSE FileStride

\* Mutant of SeekStart: a stereo seek goes straight to its frame.
SeekStartNoPreroll(sample) == (sample \div Span) * Span

\* The boundary a seek answers with, and where the decoding has to begin for
\* the overlap to be there: a stereo frame earlier.
SeekBoundary(sample) == (sample \div Span) * Span
SeekStart(sample) ==
    IF ~Mono /\ SeekBoundary(sample) > 0 THEN SeekBoundary(sample) - Span
    ELSE SeekBoundary(sample)

\* A mono source has a decoder, a stereo source has none.
SeekReset == IF Mono THEN ResetDecoder ELSE UNCHANGED decVars

\* kenc_file_source_seek that has nothing to decode ahead
SeekPlain(sample) ==
    /\ SeekStart(sample) = SeekBoundary(sample)
    /\ s_reader' = SeekStart(sample) \div FileStride
    /\ s_position' = SeekStart(sample)
    /\ SeekReset
    /\ s_overlap' = << >>
    /\ s_faulted' = FALSE
    /\ UNCHANGED <<s_profile, s_start, out>>

\* ... that decodes the frame before its boundary ...
SeekPreroll(sample) ==
    /\ SeekStart(sample) # SeekBoundary(sample)
    /\ s_reader' = SeekStart(sample) \div FileStride + 1
    /\ s_position' = SeekBoundary(sample)
    /\ SeekReset
    /\ s_overlap' = <<SeekStart(sample) \div FileStride>>
    /\ s_faulted' = FALSE
    /\ UNCHANGED <<s_profile, s_start, out>>

\* ... and fails in that: the source is neither here nor there, and says so.
SeekPrerollFails(sample) ==
    /\ SeekStart(sample) # SeekBoundary(sample)
    /\ s_reader' \in {SeekStart(sample) \div FileStride, SeekStart(sample) \div FileStride + 1}
    /\ s_position' = SeekStart(sample)
    /\ SeekReset
    /\ s_overlap' = << >>
    /\ s_faulted' = TRUE
    /\ UNCHANGED <<s_profile, s_start, out>>

SourceNext ==
    \/ PullMono
    \/ PullStereo
    \/ PullStereoFails
    \/ PullReaderFails
    \/ \E sample \in 0..FileSamples - 1 :
          SeekPlain(sample) \/ SeekPreroll(sample) \/ SeekPrerollFails(sample)

allSourceVars == <<sourceVars, decVars>>

SourceSpec == SourceInit /\ [][SourceNext]_allSourceVars

-----------------------------------------------------------------------------
(* Properties *)

\* What record n is played as when the file is played from its beginning.
Continuous(n) ==
    IF Mono
    THEN LET first == n - (n % EpochPackets)
         IN  Times(LeadIn(s_start), <<first>>) \o [k \in 1..n - first + 1 |-> <<first + k - 1>>]
    ELSE IF n = 0 THEN <<n>> ELSE <<n - 1, n>>

\* The PCM at a position depends on the position and the file alone: not on the
\* seeks that led there, nor on any failure before.  (FILE-FORMAT.md: "the
\* sought epoch decodes exactly as in continuous playback"; "the requested
\* frame's overlap matches continuous playback exactly".)
PlaysAsContinuous ==
    out # << >> =>
        /\ out.from = Continuous(out.record)
        /\ out.at = out.record * FileStride
        /\ out.count = IF out.at + FileStride > FileSamples THEN FileSamples - out.at ELSE FileStride

-----------------------------------------------------------------------------
\* What holds between any two calls.
SourceTypeOK ==
    /\ s_profile \in {"mono", "stereo"} /\ s_start \in Profiles
    /\ s_reader \in Nat /\ s_faulted \in BOOLEAN

\* The decoder of a mono file was last heard playing a record of it, on just
\* what the file played from its beginning would have had it run.
MonoStands ==
    /\ dec_epoch_start = s_start
    /\ Mono /\ played # << >> =>
          \E n \in 0..FileRecords - 1 : LastPlayed = FilePacket(n) /\ heard = Continuous(n)

\* The tail a stereo source holds is that of the record before the next one.
StereoStands ==
    ~ Mono /\ ~ s_faulted => s_overlap = IF s_reader = 0 THEN << >> ELSE <<s_reader - 1>>

SourceInv ==
    /\ SourceTypeOK /\ DecoderInv /\ MonoStands /\ StereoStands /\ PlaysAsContinuous
=============================================================================
