------------------------- MODULE KencStreamProofs --------------------------
(*****************************************************************************)
(* The encoder's numbers are used once, in order, and its epochs are         *)
(* computed from themselves, for every size of the number space, every epoch *)
(* length, every lead-in and every set of audio frames. With a decoder and a *)
(* network that loses, repeats and reorders, what is played is what was      *)
(* sent, once, on the state it was encoded for, and the whole implements the *)
(* listener of KencPlayback.                                                 *)
(*****************************************************************************)
EXTENDS KencStream, KencDecoderProofs, FiniteSetTheorems

-----------------------------------------------------------------------------
(* The encoder *)

\* The numbers packets carry are numbers.
LEMMA SentNumbers ==
    ASSUME EncoderTypeOK
    PROVE  \A p \in sent : /\ p.epoch \in Epochs /\ p.epoch \in Nat
                           /\ p.index \in Nat /\ p.index < EpochPackets
                           /\ p.pts_ms \in Nat
                           /\ p.codes \in Seq(Frames)
                           /\ p.flags \in SUBSET Flags
<1> SUFFICES ASSUME NEW p \in sent
             PROVE  /\ p.epoch \in Epochs /\ p.epoch \in Nat
                    /\ p.index \in Nat /\ p.index < EpochPackets
                    /\ p.pts_ms \in Nat
                    /\ p.codes \in Seq(Frames)
                    /\ p.flags \in SUBSET Flags
  OBVIOUS
<1>1. p \in Packets /\ p.index < EpochPackets
  BY DEF EncoderTypeOK
<1>2. /\ p.epoch \in Epochs /\ p.index \in Nat /\ p.pts_ms \in Times64
      /\ p.codes \in Codes /\ p.flags \in SUBSET Flags
  BY <1>1 DEF Packets
<1> QED BY <1>1, <1>2, PacketAssumption DEF Epochs, Times64, Codes

\* The step of an encoder reset, its own or that of a failed push, whatever the
\* native stream holds by then.
LEMMA ResetKeepsInv ==
    ASSUME EncoderInv,
           NEW n \in NativeType(Frames),
           n.preroll_packets = enc_native.preroll_packets,
           ResetFrom(n)
    PROVE  EncoderInv'
<1>1. /\ enc_native' \in NativeType(Frames)
      /\ Fresh(enc_native')
      /\ enc_native'.preroll_packets = enc_native.preroll_packets
  BY ResetFresh DEF ResetFrom
<1>2. EncoderTypeOK'
  BY <1>1, PacketAssumption
  DEF EncoderInv, EncoderTypeOK, ResetFrom, Running, Epochs, Times64, Flags
<1>3. AtDiscontinuity'
  BY <1>1 DEF EncoderInv, AtStart, AtDiscontinuity, InEpoch, ResetFrom
<1>4. NumberUnused'
  <2>1. CASE Running
    <3>1. InEpoch
      BY <2>1 DEF EncoderInv, AtStart, AtDiscontinuity, Running
    <3>2. \A p \in sent : p.epoch \in Epochs /\ p.epoch <= enc_epoch
      BY <3>1, SentNumbers DEF EncoderInv, InEpoch, NumberUnused, EncoderTypeOK, Epochs
    <3>3. enc_exhausted' \/ enc_epoch' = enc_epoch + 1
      BY <2>1 DEF ResetFrom
    <3>4. sent' = sent
      BY DEF ResetFrom
    <3> QED BY <3>2, <3>3, <3>4, PacketAssumption DEF EncoderInv, EncoderTypeOK, NumberUnused, Epochs
  <2>2. CASE ~Running
    BY <2>2
    DEF EncoderInv, AtStart, AtDiscontinuity, InEpoch, NumberUnused, ResetFrom, Running
  <2> QED BY <2>1, <2>2
<1>5. LeadInSelected'
  BY <1>1 DEF EncoderInv, LeadInSelected, ResetFrom
<1> QED BY <1>2, <1>3, <1>4, <1>5 DEF EncoderInv

\* An accepted push starts an epoch on a fresh stream, or continues the one the
\* encoder is in on the stream its last packet left.
LEMMA PushStartsOrContinues ==
    ASSUME EncoderInv, NEW pts \in Times64, PushAccepted(pts)
    PROVE  /\ PushNative \in NativeType(Frames)
           /\ PushNative.preroll_packets = LeadIn(enc_epoch_start)
           /\ PushEpoch \in Epochs
           /\ PushIndex \in Nat /\ PushIndex < EpochPackets
           /\ \/ "RESET" \in PushFlags /\ PushIndex = 0 /\ Fresh(PushNative)
              \/ /\ PushFlags = {} /\ InEpoch /\ ~Boundary
                 /\ PushIndex = enc_index /\ PushEpoch = enc_epoch
                 /\ PushNative = enc_native
<1>1. enc_native \in NativeType(Frames) /\ enc_native.preroll_packets = LeadIn(enc_epoch_start)
  BY DEF EncoderInv, EncoderTypeOK, LeadInSelected
<1>2. enc_epoch \in Epochs /\ enc_index \in 0..EpochPackets
  BY DEF EncoderInv, EncoderTypeOK
<1>3. CASE Boundary
  <2>1. PushNative = NativeReset(enc_native) /\ PushIndex = 0
        /\ PushEpoch = enc_epoch + 1 /\ enc_epoch # EpochMax
        /\ "RESET" \in PushFlags
    BY <1>2, <1>3, NumbersAfter DEF PushNative, PushIndex, PushEpoch, PushFlags, PushAccepted
  <2> QED BY <1>1, <1>2, <2>1, ResetFresh, PacketAssumption DEF Epochs
<1>4. CASE ~Boundary
  <2>1. PushNative = enc_native /\ PushIndex = enc_index /\ PushEpoch = enc_epoch
    BY <1>4 DEF PushNative, PushIndex, PushEpoch
  <2>2. PushIndex \in Nat /\ PushIndex < EpochPackets
    BY <1>2, <1>4, <2>1, PacketAssumption DEF Boundary
  <2>3. CASE InEpoch
    <3>1. PushFlags = {}
      BY <1>4, <2>3 DEF PushFlags, InEpoch
    <3> QED BY <1>1, <1>2, <1>4, <2>1, <2>2, <2>3, <3>1
  <2>4. CASE AtStart \/ AtDiscontinuity
    <3>1. "RESET" \in PushFlags /\ PushIndex = 0 /\ Fresh(PushNative)
      BY <1>4, <2>1, <2>4 DEF PushFlags, AtStart, AtDiscontinuity
    <3> QED BY <1>1, <1>2, <2>1, <2>2, <3>1
  <2> QED BY <2>3, <2>4 DEF EncoderInv
<1> QED BY <1>3, <1>4

\* The header a push builds: what a decoder will parse, with the marker of the
\* selected profile on RESET packets and nowhere else.
LEMMA PushHeader ==
    ASSUME EncoderInv, NEW pts \in Times64, PushAccepted(pts),
           NEW codes \in Codes
    PROVE  /\ Packet(pts, codes) \in Packets
           /\ WellFormed(Packet(pts, codes))
           /\ Packet(pts, codes).index < EpochPackets
           /\ "EPOCH_PREROLL" \in PushFlags
                 <=> "RESET" \in PushFlags /\ enc_epoch_start = "C5R4"
<1>1. PushFlags \in SUBSET Flags
      /\ (PushFlags \cap {"DISCONTINUITY", "EPOCH_PREROLL"} # {} => "RESET" \in PushFlags)
      /\ ("EPOCH_PREROLL" \in PushFlags
             <=> "RESET" \in PushFlags /\ enc_epoch_start = "C5R4")
  BY DEF EncoderInv, AtStart, AtDiscontinuity, InEpoch, PushFlags, Flags
<1>2. /\ PushEpoch \in Epochs /\ PushIndex \in Nat /\ PushIndex < EpochPackets
      /\ "RESET" \in PushFlags => PushIndex = 0
  BY PushStartsOrContinues
<1>3. Packet(pts, codes) \in Packets
  BY <1>1, <1>2 DEF Packet, Packets
<1>4. Packet(pts, codes).flags = PushFlags /\ Packet(pts, codes).index = PushIndex
  BY DEF Packet
<1> QED BY <1>1, <1>2, <1>3, <1>4 DEF WellFormed, Reset

\* The packet of an accepted push comes after every packet emitted before.
LEMMA PushEmitsForward ==
    ASSUME EncoderInv, NEW pts \in Times64, PushAccepted(pts), NEW codes,
           NEW q \in sent
    PROVE  Before(q, Packet(pts, codes))
<1>1. q.epoch \in Nat /\ q.index \in Nat
  BY SentNumbers DEF EncoderInv
<1>2. q.epoch < enc_epoch \/ (q.epoch = enc_epoch /\ q.index < enc_index)
  BY DEF EncoderInv, NumberUnused, PushAccepted
<1>3. Packet(pts, codes).epoch = PushEpoch /\ Packet(pts, codes).index = PushIndex
  BY DEF Packet
<1>4. enc_epoch \in Nat
  BY PacketAssumption DEF EncoderInv, EncoderTypeOK, Epochs
<1>5. CASE Boundary
  <2>1. PushEpoch = enc_epoch + 1
    BY <1>5, NumbersAfter DEF PushEpoch, PushAccepted, EncoderInv, EncoderTypeOK
  <2> QED BY <1>1, <1>2, <1>3, <1>4, <1>5, <2>1 DEF Before, PushIndex
<1>6. CASE ~Boundary
  BY <1>1, <1>2, <1>3, <1>4, <1>6 DEF Before, PushEpoch, PushIndex
<1> QED BY <1>5, <1>6

\* What an accepted push computes: the tokens of a RESET packet from its
\* lead-in and its own audio, those of another one from its predecessor's.
LEMMA PushComputes ==
    ASSUME EncoderInv, NEW pcm \in Audio, NEW pts \in Times64, Push(pcm, pts)
    PROVE  /\ enc_native' \in NativeType(Frames)
           /\ enc_native'.preroll_packets = LeadIn(enc_epoch_start)
           /\ ~enc_native'.preroll
           /\ Current(enc_native') \in Codes
           /\ "RESET" \in PushFlags =>
                 Current(enc_native') = Times(LeadIn(enc_epoch_start) + 1, pcm)
           /\ "RESET" \notin PushFlags =>
                 /\ InEpoch /\ ~Boundary
                 /\ Current(enc_native') = Append(Current(enc_native), pcm)
<1>1. PushAccepted(pts) /\ enc_native' = RunFrame(PushNative, pcm)
  BY DEF Push
<1>2. pcm \in Frames
  BY DEF Frames
<1>3. /\ PushNative \in NativeType(Frames)
      /\ PushNative.preroll_packets = LeadIn(enc_epoch_start)
      /\ \/ "RESET" \in PushFlags /\ Fresh(PushNative)
         \/ PushFlags = {} /\ InEpoch /\ ~Boundary /\ PushNative = enc_native
  BY <1>1, PushStartsOrContinues
<1>4. /\ enc_native' \in NativeType(Frames)
      /\ ~enc_native'.preroll
      /\ enc_native'.preroll_packets = PushNative.preroll_packets
      /\ Fresh(PushNative) =>
            Current(enc_native') = Times(PushNative.preroll_packets + 1, pcm)
      /\ ~PushNative.preroll =>
            Current(enc_native') = Append(Current(PushNative), pcm)
  BY <1>1, <1>2, <1>3, RunFrameType
<1>5. Current(enc_native') \in Codes
  BY <1>4 DEF Current, NativeType, Codes
<1>6. InEpoch => ~enc_native.preroll
  BY DEF InEpoch
<1> QED BY <1>3, <1>4, <1>5, <1>6

\* A push numbers, marks and runs one frame.
LEMMA PushKeepsInv ==
    ASSUME EncoderInv, NEW pcm \in Audio, NEW pts \in Times64, Push(pcm, pts)
    PROVE  EncoderInv'
<1> DEFINE packet == Packet(pts, Current(enc_native'))
<1>1. PushAccepted(pts) /\ ~enc_exhausted
  BY DEF Push, PushAccepted
<1>2. /\ enc_native' \in NativeType(Frames)
      /\ enc_native'.preroll_packets = LeadIn(enc_epoch_start)
      /\ ~enc_native'.preroll
      /\ Current(enc_native') \in Codes
  BY PushComputes
<1>3. packet \in Packets /\ WellFormed(packet) /\ packet.index < EpochPackets
  BY <1>1, <1>2, PushHeader
<1>4. PushEpoch \in Epochs /\ PushIndex \in Nat /\ PushIndex < EpochPackets
  BY <1>1, PushStartsOrContinues
<1>5. sent' = sent \cup {packet}
  BY DEF Push
<1>6. /\ enc_epoch' = PushEpoch /\ enc_index' = PushIndex + 1
      /\ enc_flags' = {} /\ enc_last_pts' = pts
      /\ enc_epoch_start' = enc_epoch_start /\ enc_exhausted' = enc_exhausted
  BY DEF Push
<1>7. enc_emitted'
  BY DEF Push
<1>8. EncoderTypeOK'
  <2>1. \A p \in sent' : p \in Packets /\ WellFormed(p) /\ p.index < EpochPackets
    BY <1>3, <1>5 DEF EncoderInv, EncoderTypeOK
  <2>2. enc_index' \in 0..EpochPackets
    BY <1>4, <1>6, PacketAssumption
  <2>3. enc_emitted' \in BOOLEAN
    BY DEF Push
  <2> HIDE DEF packet
  <2> QED BY <1>2, <1>4, <1>6, <2>1, <2>2, <2>3 DEF EncoderInv, EncoderTypeOK
<1>9. /\ packet.epoch = PushEpoch /\ packet.index = PushIndex /\ packet.pts_ms = pts
      /\ packet.codes = Current(enc_native')
  BY DEF Packet
<1>10. \A q \in sent : Before(q, packet)
  BY <1>1, PushEmitsForward
<1> HIDE DEF packet
<1>11. InEpoch'
  <2>1. enc_index' # 0 /\ enc_index' - 1 = PushIndex
    BY <1>4, <1>6
  <2> QED BY <1>1, <1>2, <1>5, <1>6, <1>7, <1>9, <2>1 DEF InEpoch
<1>12. NumberUnused'
  <2>1. \A q \in sent : q.epoch \in Nat /\ q.index \in Nat
    BY SentNumbers DEF EncoderInv
  <2> QED BY <1>4, <1>5, <1>6, <1>9, <1>10, <2>1 DEF NumberUnused, Before
<1>13. LeadInSelected'
  BY <1>2, <1>6 DEF LeadInSelected
<1> QED BY <1>8, <1>11, <1>12, <1>13 DEF EncoderInv

\* Every step of the encoder is a push that emits one packet, or emits none.
LEMMA EncoderStepInv ==
    ASSUME EncoderInv, [EncoderNext]_encVars
    PROVE  EncoderInv'
<1>1. CASE UNCHANGED encVars
  BY <1>1 DEF encVars, EncoderInv, EncoderTypeOK, AtStart, AtDiscontinuity, InEpoch,
              NumberUnused, LeadInSelected
<1>2. ASSUME NEW profile \in Profiles, SelectEncoderProfile(profile)
      PROVE  EncoderInv'
  <2> DEFINE n == enc_native
             k == LeadIn(profile)
             r == [n EXCEPT !.preroll_packets = k]
  <2>1. n \in NativeType(Frames) /\ k \in {0, Preroll}
    BY DEF EncoderInv, EncoderTypeOK, LeadIn
  <2>2. enc_native' = r
    BY <1>2 DEF SelectEncoderProfile, SetPreroll
  <2> HIDE DEF k
  <2>3. /\ r \in NativeType(Frames)
        /\ r.states = n.states /\ r.bank = n.bank
        /\ r.preroll_packets = k
    BY <2>1 DEF NativeType
  <2>4. r.preroll = n.preroll
    BY <2>1 DEF NativeType
  <2>5. Fresh(n) => Fresh(r)
    BY <2>3, <2>4 DEF Fresh
  <2> HIDE DEF r
  <2>6. EncoderTypeOK'
    BY <1>2, <2>2, <2>3 DEF EncoderInv, EncoderTypeOK, SelectEncoderProfile
  <2>7. ~InEpoch
    BY <1>2 DEF SelectEncoderProfile, Running, InEpoch
  <2>8. (AtStart \/ AtDiscontinuity)'
    BY <1>2, <2>2, <2>5, <2>7
    DEF EncoderInv, AtStart, AtDiscontinuity, SelectEncoderProfile
  <2>9. NumberUnused' /\ LeadInSelected'
    BY <1>2, <2>2, <2>3
    DEF EncoderInv, NumberUnused, LeadInSelected, SelectEncoderProfile, k
  <2> QED BY <2>6, <2>8, <2>9 DEF EncoderInv
<1>3. CASE ResetEncoder
  <2>1. enc_native \in NativeType(Frames)
    BY DEF EncoderInv, EncoderTypeOK
  <2> QED BY <1>3, <2>1, ResetKeepsInv DEF ResetEncoder
<1>4. ASSUME NEW pcm \in Audio, NEW pts \in Times64, Push(pcm, pts)
      PROVE  EncoderInv'
  BY <1>4, PushKeepsInv
<1>5. ASSUME NEW pcm \in Audio, NEW pts \in Times64, PushFails(pcm, pts)
      PROVE  EncoderInv'
  <2>1. PICK native \in FailedEncode(PushNative, pcm) : ResetFrom(native)
    BY <1>5 DEF PushFails
  <2>2. PushAccepted(pts)
    BY <1>5 DEF PushFails
  <2>3. /\ PushNative \in NativeType(Frames)
        /\ PushNative.preroll_packets = LeadIn(enc_epoch_start)
    BY <2>2, PushStartsOrContinues
  <2>4. pcm \in Frames /\ Junk \in Frames
    BY DEF Frames
  <2>5. /\ native \in NativeType(Frames)
        /\ native.preroll_packets = PushNative.preroll_packets
    BY <2>3, <2>4, FailedType
  <2>6. native.preroll_packets = enc_native.preroll_packets
    BY <2>3, <2>5 DEF EncoderInv, LeadInSelected
  <2> QED BY <2>1, <2>5, <2>6, ResetKeepsInv
<1> QED BY <1>1, <1>2, <1>3, <1>4, <1>5 DEF EncoderNext

\* A new encoder has sent nothing.
LEMMA EncoderInitInv ==
    ASSUME EncoderInit
    PROVE  EncoderInv
<1>1. NativeCreate \in NativeType(Frames) /\ Fresh(NativeCreate)
  BY CreateFresh
<1>2. NativeCreate.preroll_packets = 0
  BY DEF NativeCreate
<1>3. EncoderTypeOK
  <2>1. 0 \in Epochs /\ 0 \in 0..EpochPackets /\ 0 \in Times64
    BY PacketAssumption DEF Epochs, Times64
  <2>2. enc_emitted \in BOOLEAN /\ enc_exhausted \in BOOLEAN
    BY DEF EncoderInit
  <2>3. {"RESET"} \in SUBSET Flags /\ "C0" \in Profiles
    BY DEF Flags, Profiles
  <2> QED BY <1>1, <2>1, <2>2, <2>3 DEF EncoderInit, EncoderTypeOK
<1>4. AtStart
  BY <1>1 DEF EncoderInit, AtStart
<1>5. NumberUnused /\ LeadInSelected
  BY <1>2 DEF EncoderInit, NumberUnused, LeadInSelected, LeadIn
<1> QED BY <1>3, <1>4, <1>5 DEF EncoderInv

\* Type correctness and the encoder's bookkeeping, in every reachable state.
THEOREM EncoderInvariant == EncoderSpec => []EncoderInv
<1>1. EncoderInit => EncoderInv
  BY EncoderInitInv
<1>2. EncoderInv /\ [EncoderNext]_encVars => EncoderInv'
  BY EncoderStepInv
<1> QED BY <1>1, <1>2, PTL DEF EncoderSpec

\* The fields and the emitted packets stay in range.
THEOREM EncoderTypeCorrect == EncoderSpec => []EncoderTypeOK
<1>1. EncoderInv => EncoderTypeOK
  BY DEF EncoderInv
<1> QED BY <1>1, EncoderInvariant, PTL

\* A step emits nothing, or one packet by an accepted push.
LEMMA WhatASteppedEncoderEmits ==
    ASSUME EncoderInv, [EncoderNext]_encVars
    PROVE  \/ sent' = sent
           \/ \E pcm \in Audio, pts \in Times64 :
                 /\ Push(pcm, pts)
                 /\ PushAccepted(pts)
                 /\ sent' = sent \cup {Packet(pts, Current(enc_native'))}
<1>1. CASE \E pcm \in Audio, pts \in Times64 : Push(pcm, pts)
  BY <1>1 DEF Push
<1>2. CASE ~\E pcm \in Audio, pts \in Times64 : Push(pcm, pts)
  BY <1>2 DEF EncoderNext, encVars, SelectEncoderProfile, ResetEncoder, ResetFrom, PushFails
<1> QED BY <1>1, <1>2

\* No number is used twice: what is emitted comes after all that was.
THEOREM EncoderEmitsForward == EncoderSpec => EmitsForward
<1>1. ASSUME EncoderInv, [EncoderNext]_encVars
      PROVE  \A p \in sent' \ sent, q \in sent : Before(q, p)
  <2>1. CASE sent' = sent
    BY <2>1
  <2>2. CASE \E pcm \in Audio, pts \in Times64 :
               /\ PushAccepted(pts)
               /\ sent' = sent \cup {Packet(pts, Current(enc_native'))}
    BY <1>1, <2>2, PushEmitsForward
  <2> QED BY <1>1, <2>1, <2>2, WhatASteppedEncoderEmits
<1>2. EncoderInv /\ [EncoderNext]_encVars
        => [\A p \in sent' \ sent, q \in sent : Before(q, p)]_encVars
  BY <1>1
<1> QED BY <1>2, EncoderInvariant, PTL DEF EncoderSpec, EmitsForward

-----------------------------------------------------------------------------
(* What the packets are, from the same invariant *)

\* One packet per number.
THEOREM EncoderNumbersUnique == EncoderSpec => []NumbersUnique
<1>1. EncoderInit => NumbersUnique
  BY DEF EncoderInit, NumbersUnique
<1>2. ASSUME EncoderInv, NumbersUnique, [EncoderNext]_encVars
      PROVE  NumbersUnique'
  <2>1. CASE sent' = sent
    BY <1>2, <2>1 DEF NumbersUnique
  <2>2. ASSUME NEW pcm \in Audio, NEW pts \in Times64, PushAccepted(pts),
               sent' = sent \cup {Packet(pts, Current(enc_native'))}
        PROVE  NumbersUnique'
    <3> DEFINE packet == Packet(pts, Current(enc_native'))
    <3>1. \A q \in sent : Before(q, packet)
      BY <1>2, <2>2, PushEmitsForward
    <3>2. \A q \in sent : q.epoch \in Nat /\ q.index \in Nat
      BY <1>2, SentNumbers DEF EncoderInv
    <3> HIDE DEF packet
    <3>3. \A q \in sent : ~(q.epoch = packet.epoch /\ q.index = packet.index)
      BY <3>1, <3>2 DEF Before
    <3>4. sent' = sent \cup {packet}
      BY <2>2 DEF packet
    <3> QED BY <1>2, <3>3, <3>4 DEF NumbersUnique
  <2> QED BY <1>2, <2>1, <2>2, WhatASteppedEncoderEmits
<1>3. EncoderInv /\ NumbersUnique /\ [EncoderNext]_encVars => NumbersUnique'
  BY <1>2
<1> QED BY <1>1, <1>3, EncoderInvariant, PTL DEF EncoderSpec

\* The tokens of a packet are computed from its own epoch alone.
THEOREM EncoderEpochsIndependent == EncoderSpec => []EpochsIndependent
<1>1. EncoderInit => EpochsIndependent
  BY DEF EncoderInit, EpochsIndependent
<1>2. ASSUME EncoderInv, EpochsIndependent, [EncoderNext]_encVars
      PROVE  EpochsIndependent'
  <2>1. CASE sent' = sent
    BY <1>2, <2>1 DEF EpochsIndependent
  <2>2. ASSUME NEW pcm \in Audio, NEW pts \in Times64, Push(pcm, pts), PushAccepted(pts),
               sent' = sent \cup {Packet(pts, Current(enc_native'))}
        PROVE  EpochsIndependent'
    <3> DEFINE packet == Packet(pts, Current(enc_native'))
    <3>1. /\ packet.epoch = PushEpoch /\ packet.index = PushIndex
          /\ packet.flags = PushFlags /\ packet.codes = Current(enc_native')
      BY DEF Packet
    <3>2. Current(enc_native') \in Codes
      BY <1>2, <2>2, PushComputes
    <3>3. "EPOCH_PREROLL" \in PushFlags
            <=> "RESET" \in PushFlags /\ enc_epoch_start = "C5R4"
      BY <1>2, <2>2, <3>2, PushHeader
    <3>4. ASSUME "RESET" \in PushFlags
          PROVE  FromOwnEpoch(packet, sent')
      <4>1. Current(enc_native') = Times(LeadIn(enc_epoch_start) + 1, pcm)
        BY <1>2, <2>2, <3>4, PushComputes
      <4>2. LeadIn(enc_epoch_start) + 1
              = 1 + (IF "EPOCH_PREROLL" \in PushFlags THEN Preroll ELSE 0)
        BY <3>3, <3>4, PrerollAssumption DEF LeadIn
      <4>3. Reset(packet)
        BY <3>1, <3>4 DEF Reset
      <4> HIDE DEF packet
      <4> QED BY <3>1, <4>1, <4>2, <4>3 DEF FromOwnEpoch
    <3>5. ASSUME "RESET" \notin PushFlags
          PROVE  FromOwnEpoch(packet, sent')
      <4>1. /\ InEpoch /\ ~Boundary
            /\ Current(enc_native') = Append(Current(enc_native), pcm)
        BY <1>2, <2>2, <3>5, PushComputes
      <4>2. PICK q \in sent : /\ q.epoch = enc_epoch /\ q.index = enc_index - 1
                              /\ q.codes = Current(enc_native)
        BY <4>1 DEF InEpoch
      <4>3. packet.epoch = q.epoch /\ packet.index - 1 = q.index
        BY <3>1, <4>1, <4>2 DEF PushEpoch, PushIndex
      <4>4. ~Reset(packet)
        BY <3>1, <3>5 DEF Reset
      <4>5. q \in sent'
        BY <2>2
      <4> HIDE DEF packet
      <4> QED BY <3>1, <4>1, <4>2, <4>3, <4>4, <4>5 DEF FromOwnEpoch
    <3>6. FromOwnEpoch(packet, sent')
      BY <3>4, <3>5
    <3>7. \A p \in sent : FromOwnEpoch(p, sent')
      BY <1>2, <2>2 DEF EpochsIndependent, FromOwnEpoch
    <3>8. sent' = sent \cup {packet}
      BY <2>2
    <3> HIDE DEF packet
    <3> QED BY <3>6, <3>7, <3>8 DEF EpochsIndependent
  <2> QED BY <1>2, <2>1, <2>2, WhatASteppedEncoderEmits
<1>3. EncoderInv /\ EpochsIndependent /\ [EncoderNext]_encVars => EpochsIndependent'
  BY <1>2
<1> QED BY <1>1, <1>3, EncoderInvariant, PTL DEF EncoderSpec

\* Only DISCONTINUITY packets break the timeline.
THEOREM EncoderTimelineMarked == EncoderSpec => []TimelineMarked
<1>1. EncoderInit => TimelineMarked
  BY DEF EncoderInit, TimelineMarked
<1>2. ASSUME EncoderInv, TimelineMarked, [EncoderNext]_encVars
      PROVE  TimelineMarked'
  <2>1. CASE sent' = sent
    BY <1>2, <2>1 DEF TimelineMarked
  <2>2. ASSUME NEW pts \in Times64, PushAccepted(pts),
               sent' = sent \cup {Packet(pts, Current(enc_native'))}
        PROVE  TimelineMarked'
    <3> DEFINE packet == Packet(pts, Current(enc_native'))
    <3>1. /\ packet.epoch = PushEpoch /\ packet.index = PushIndex
          /\ packet.flags = PushFlags /\ packet.pts_ms = pts
      BY DEF Packet
    <3>2. \A q \in sent : Before(q, packet)
      BY <1>2, <2>2, PushEmitsForward
    <3>3. sent' = sent \cup {packet}
      BY <2>2
    <3>4. enc_epoch \in Nat /\ enc_index \in Nat
      BY <1>2, PacketAssumption DEF EncoderInv, EncoderTypeOK, Epochs
    <3> HIDE DEF packet
    <3>5. ASSUME AtStart PROVE OnTimeline(packet, sent')
      BY <3>3, <3>5 DEF AtStart, OnTimeline
    <3>6. ASSUME AtDiscontinuity PROVE OnTimeline(packet, sent')
      <4>1. "DISCONTINUITY" \in PushFlags
        BY <3>6, PacketAssumption DEF AtDiscontinuity, PushFlags, Boundary
      <4> QED BY <3>1, <4>1 DEF OnTimeline
    <3>7. ASSUME InEpoch PROVE OnTimeline(packet, sent')
      <4>1. PICK q \in sent : /\ q.epoch = enc_epoch /\ q.index = enc_index - 1
                              /\ q.pts_ms = enc_last_pts
        BY <3>7 DEF InEpoch
      <4>2. Running
        BY <3>7 DEF InEpoch, Running
      <4>3. packet.pts_ms = q.pts_ms + PtsStep
        <5>1. /\ pts = PtsAfter(enc_last_pts) /\ enc_last_pts <= PtsMax - PtsStep
              /\ enc_last_pts \in Times64
          BY <1>2, <2>2, <4>2 DEF PushAccepted, EncoderInv, EncoderTypeOK
        <5> QED BY <3>1, <4>1, <5>1, NumbersAfter
      <4>4. CASE Boundary
        <5>1. PushEpoch = enc_epoch + 1
          BY <1>2, <2>2, <4>4, NumbersAfter DEF PushEpoch, PushAccepted, EncoderInv, EncoderTypeOK
        <5> QED BY <3>1, <3>3, <3>4, <4>1, <4>3, <4>4, <5>1
                DEF OnTimeline, Precedes, PushIndex, Boundary
      <4>5. CASE ~Boundary
        BY <3>1, <3>3, <3>4, <4>1, <4>3, <4>5
        DEF OnTimeline, Precedes, PushEpoch, PushIndex
      <4> QED BY <4>4, <4>5
    <3>8. OnTimeline(packet, sent')
      BY <1>2, <3>5, <3>6, <3>7 DEF EncoderInv
    <3>9. \A p \in sent : OnTimeline(p, sent')
      BY <1>2, <3>2, <3>3 DEF TimelineMarked, OnTimeline
    <3> QED BY <3>3, <3>8, <3>9 DEF TimelineMarked
  <2> QED BY <1>2, <2>1, <2>2, WhatASteppedEncoderEmits
<1>3. EncoderInv /\ TimelineMarked /\ [EncoderNext]_encVars => TimelineMarked'
  BY <1>2
<1> QED BY <1>1, <1>3, EncoderInvariant, PTL DEF EncoderSpec

-----------------------------------------------------------------------------
(* Encoder, network and decoder *)

\* The composition does nothing to the encoder that the encoder does not do.
LEMMA StreamHasEncoder == Spec => EncoderSpec
<1>1. Init => EncoderInit
  BY DEF Init
<1>2. [Next]_vars => [EncoderNext]_encVars
  BY DEF Next, EncoderStep, DecoderStep, vars, encVars
<1> QED BY <1>1, <1>2, PTL DEF Spec, EncoderSpec

\* A decoder on this network keeps its invariant, since what is sent parses.
LEMMA StreamStepDecoderInv ==
    ASSUME DecoderInv, EncoderTypeOK, [Next]_vars
    PROVE  DecoderInv'
<1>1. CASE UNCHANGED decVars
  BY <1>1
  DEF decVars, DecoderInv, DecoderTypeOK, AtLastPlayed, Synchronised, PlayedForward,
      PlayedInOrder, HeardIsItsEpoch, LastPlayed, EpochStart
<1>2. CASE DecoderNext(sent)
  BY <1>2, DecoderStepInv DEF EncoderTypeOK
<1> QED BY <1>1, <1>2 DEF Next, EncoderStep, DecoderStep, vars

\* The decoder keeps its invariant on every network.
THEOREM StreamDecoderInvariant == Spec => []DecoderInv
<1>1. Init => DecoderInv
  BY DecoderInitInv DEF Init
<1>2. DecoderInv /\ EncoderTypeOK /\ [Next]_vars => DecoderInv'
  BY StreamStepDecoderInv
<1>3. Spec => []EncoderTypeOK
  BY StreamHasEncoder, EncoderTypeCorrect, PTL
<1> QED BY <1>1, <1>2, <1>3, PTL DEF Spec

\* Both ends stay in range.
THEOREM StreamTypeCorrect == Spec => []TypeOK
<1>1. DecoderInv => DecoderTypeOK
  BY DEF DecoderInv
<1>2. EncoderTypeOK /\ DecoderTypeOK => TypeOK
  BY DEF TypeOK
<1> QED BY <1>1, <1>2, StreamHasEncoder, EncoderTypeCorrect, StreamDecoderInvariant, PTL

-----------------------------------------------------------------------------
\* What a step plays was sent, and what was sent stays sent.
LEMMA StepPlaysOnlySent ==
    ASSUME DecoderInv, EncoderTypeOK, OnlySent, [Next]_vars
    PROVE  OnlySent'
<1>1. sent \subseteq sent'
  BY DEF Next, EncoderStep, DecoderStep, EncoderNext, vars, encVars,
         SelectEncoderProfile, ResetEncoder, ResetFrom, Push, PushFails
<1>2. CASE played' = played
  BY <1>1, <1>2 DEF OnlySent
<1>3. ASSUME NEW p \in sent, PullPlays(p) PROVE OnlySent'
  <2>1. played \in Seq(Packets) /\ p \in Packets /\ played' = Append(played, p)
    BY <1>3 DEF DecoderInv, DecoderTypeOK, EncoderTypeOK, PullPlays
  <2>2. /\ Len(played) \in Nat
        /\ Len(played') = Len(played) + 1
        /\ \A k \in 1..Len(played) : played'[k] = played[k]
        /\ played'[Len(played')] = p
    BY <2>1, PlayedGrows
  <2> QED BY <1>1, <1>3, <2>2 DEF OnlySent
<1>4. CASE played' = << >>
  BY <1>4, EmptySeq DEF OnlySent
<1> QED
  BY <1>2, <1>3, <1>4
  DEF Next, EncoderStep, DecoderStep, DecoderNext, vars, decVars, Pull,
      SelectDecoderProfile, ResetDecoder, PullFails, PullLosesSync

\* What is played was sent, whatever the network loses, repeats and reorders.
THEOREM StreamPlaysOnlySent == Spec => []OnlySent
<1>1. Init => OnlySent
  BY EmptySeq DEF Init, DecoderInit, OnlySent
<1>2. DecoderInv /\ EncoderTypeOK /\ OnlySent /\ [Next]_vars => OnlySent'
  BY StepPlaysOnlySent
<1> QED
  BY <1>1, <1>2, StreamHasEncoder, EncoderTypeCorrect, StreamDecoderInvariant, PTL DEF Spec

\* No packet is played twice before the decoder's owner resets it, and none
\* that the encoder did not send.
THEOREM StreamPlaysOnce == Spec => []PlayedOnce
<1>1. DecoderInv /\ OnlySent => PlayedOnce
  <2> SUFFICES ASSUME DecoderInv, OnlySent,
                      NEW j \in 1..Len(played), NEW k \in 1..Len(played),
                      played[j] = played[k]
               PROVE  j = k
    BY DEF PlayedOnce, OnlySent
  <2>1. played \in Seq(Packets) /\ Len(played) \in Nat
    BY LenProperties DEF DecoderInv, DecoderTypeOK
  <2>2. played[j].epoch \in Nat /\ played[j].index \in Nat
    BY <2>1, PlayedNumbers
  <2>3. ~Before(played[j], played[k]) /\ ~Before(played[k], played[j])
    BY <2>2 DEF Before
  <2>4. ~(j < k) /\ ~(k < j)
    BY <2>3 DEF DecoderInv, PlayedForward
  <2> QED BY <2>1, <2>4
<1> QED BY <1>1, StreamDecoderInvariant, StreamPlaysOnlySent, PTL

-----------------------------------------------------------------------------
\* A packet that starts an epoch is heard behind its own lead-in, which is as
\* long as the one it was encoded behind.
LEMMA JoinDecodes ==
    ASSUME DecoderInv, EncoderTypeOK, EpochsIndependent,
           NEW p \in sent, Reset(p), PullPlays(p)
    PROVE  DecodesTheEncodersEpoch'
<1> DEFINE lead == LeadIn(dec_epoch_start)
<1>1. p \in Packets /\ p.codes \in Heard /\ p.codes \in Seq(Frames)
  BY DEF EncoderTypeOK, Packets, Heard, Codes
<1>2. lead \in Nat /\ dec_epoch_start' = dec_epoch_start
  BY PrerollAssumption DEF LeadIn, PullPlays
<1>3. (IF "EPOCH_PREROLL" \in p.flags THEN Preroll ELSE 0) = lead
  BY DEF PullPlays, Considered, LeadIn
<1>4. PICK pcm \in Audio : p.codes = Times(1 + lead, pcm)
  BY <1>3 DEF EpochsIndependent, FromOwnEpoch
<1>5. Len(p.codes) = lead + 1
  <2>1. pcm \in Audio /\ 1 + lead \in Nat
    BY <1>2
  <2>2. Len(Times(1 + lead, pcm)) = 1 + lead
    BY <2>1, TimesType
  <2> QED BY <1>2, <1>4, <2>2
<1>6. heard' = Times(lead + 1, p.codes)
  BY <1>1, PullHears
<1>7. Len(heard') = lead + 1 /\ \A k \in 1..lead + 1 : heard'[k] = p.codes
  <2>1. lead + 1 \in Nat
    BY <1>2
  <2>2. /\ Len(Times(lead + 1, p.codes)) = lead + 1
        /\ \A k \in 1..lead + 1 : Times(lead + 1, p.codes)[k] = p.codes
    BY <1>1, <2>1, TimesType
  <2> QED BY <1>6, <2>2
<1>8. SubSeq(p.codes, 1, lead + 1) = p.codes
  BY <1>1, <1>5, SubSeqFull
<1>9. LastPlayed' = p
  BY <1>1, PlayedGrows DEF DecoderInv, DecoderTypeOK, PullPlays
<1>10. LeadIn(dec_epoch_start)' = lead
  BY <1>2
<1> HIDE DEF lead
<1>11. \A k \in 1..lead + 1 : k <= lead \/ k = lead + 1
  BY <1>2
<1> QED BY <1>2, <1>5, <1>7, <1>8, <1>9, <1>10, <1>11 DEF DecodesTheEncodersEpoch

\* A packet that continues is heard on the history it was encoded on, because
\* its number names its predecessor, which is the packet played last.
LEMMA ContinuationDecodes ==
    ASSUME DecoderInv, EncoderTypeOK, EpochsIndependent, NumbersUnique, OnlySent,
           DecodesTheEncodersEpoch,
           NEW p \in sent, ~Reset(p), PullPlays(p)
    PROVE  DecodesTheEncodersEpoch'
<1> DEFINE lead == LeadIn(dec_epoch_start)
           n == Len(heard)
<1>1. p \in Packets /\ p.codes \in Heard /\ p.codes \in Seq(Frames)
  BY DEF EncoderTypeOK, Packets, Heard, Codes
<1>2. lead \in Nat /\ dec_epoch_start' = dec_epoch_start
  BY PrerollAssumption DEF LeadIn, PullPlays
<1>3. Continues(p) /\ played # << >>
  BY DEF DecoderInv, AtLastPlayed, PullPlays, Joins, Continues
<1>4. /\ played \in Seq(Packets) /\ Len(played) \in 1..Len(played)
      /\ LastPlayed \in sent
  BY <1>3, EmptySeq DEF DecoderInv, DecoderTypeOK, OnlySent, LastPlayed
<1>5. p.epoch = LastPlayed.epoch /\ p.index = LastPlayed.index + 1
  BY <1>3 DEF DecoderInv, AtLastPlayed, Continues
<1>6. PICK q \in sent, pcm \in Audio :
         /\ q.epoch = p.epoch /\ q.index = p.index - 1
         /\ p.codes = Append(q.codes, pcm)
  BY DEF EpochsIndependent, FromOwnEpoch
<1>7. LastPlayed.index \in Nat
  BY <1>4, SentNumbers
<1>8. q = LastPlayed
  BY <1>4, <1>5, <1>6, <1>7 DEF NumbersUnique
<1>9. q.codes \in Seq(Frames) /\ pcm \in Frames
  BY SentNumbers DEF Frames
<1>10. heard \in Seq(Heard) /\ n \in Nat
  BY LenProperties DEF DecoderInv, DecoderTypeOK, Heard
<1>11. n = Len(q.codes) /\ n >= lead + 1
  <2>1. n = Len(q.codes)
    BY <1>3, <1>8 DEF DecodesTheEncodersEpoch
  <2>2. n = lead + LastPlayed.index + 1
    <3> DEFINE first == EpochStart
               c(j) == played[first + j - 1].codes
               tail == [j \in 1..LastPlayed.index + 1 |-> c(j)]
    <3>1. heard = Times(lead, played[first].codes) \o tail
      BY <1>3 DEF DecoderInv, HeardIsItsEpoch
    <3>2. Len(played) \in Nat /\ LastPlayed.index < Len(played)
      BY <1>3, <1>4, LenProperties DEF DecoderInv, AtLastPlayed
    <3>3. \A j \in 1..LastPlayed.index + 1 : first + j - 1 \in 1..Len(played)
      BY <1>7, <3>2 DEF EpochStart
    <3>4. first \in 1..Len(played)
      BY <1>7, <3>2 DEF EpochStart
    <3> HIDE DEF first
    <3>5. \A j \in 1..LastPlayed.index + 1 : c(j) \in Heard
      BY <1>4, <3>3, PlayedNumbers DEF Heard
    <3>6. played[first].codes \in Heard
      BY <1>4, <3>4, PlayedNumbers DEF Heard
    <3> HIDE DEF c
    <3>7. tail \in Seq(Heard) /\ Len(tail) = LastPlayed.index + 1
      BY <1>7, <3>5
    <3>8. /\ Times(lead, played[first].codes) \in Seq(Heard)
          /\ Len(Times(lead, played[first].codes)) = lead
      BY <1>2, <3>6, TimesType
    <3>9. Len(Times(lead, played[first].codes) \o tail)
            = Len(Times(lead, played[first].codes)) + Len(tail)
      BY <3>7, <3>8, ConcatProperties
    <3>10. n = lead + (LastPlayed.index + 1)
      BY <3>1, <3>7, <3>8, <3>9
    <3> HIDE DEF tail, lead, n
    <3> QED BY <1>2, <1>7, <3>10
  <2> QED BY <1>2, <1>7, <2>1, <2>2
<1>12. heard' = Append(heard, p.codes)
  BY <1>1, PullHears
<1>13. /\ Len(heard') = n + 1
       /\ \A k \in 1..n : heard'[k] = heard[k]
       /\ heard'[n + 1] = p.codes
  BY <1>1, <1>10, <1>12, AppendProperties
<1>14. Len(p.codes) = n + 1 /\ p.codes = q.codes \o <<pcm>>
  BY <1>6, <1>9, <1>11, AppendProperties, AppendIsConcat
<1>15. \A m \in 1..n : SubSeq(p.codes, 1, m) = SubSeq(q.codes, 1, m)
  <2> TAKE m \in 1..n
  <2>1. 1 \in 1..Len(q.codes) /\ m \in 1..Len(q.codes)
    BY <1>10, <1>11
  <2>2. <<pcm>> \in Seq(Frames)
    BY <1>9
  <2> QED BY <1>9, <1>14, <2>1, <2>2, SubSeqOfConcat1
<1>16. SubSeq(p.codes, 1, n + 1) = p.codes
  BY <1>1, <1>14, SubSeqFull
<1>17. \A k \in 1..n : heard[k] = SubSeq(q.codes, 1, IF k <= lead THEN lead + 1 ELSE k)
  BY <1>3, <1>8 DEF DecodesTheEncodersEpoch
<1>18. LastPlayed' = p
  BY <1>1, PlayedGrows DEF DecoderInv, DecoderTypeOK, PullPlays
<1>19. LeadIn(dec_epoch_start)' = lead
  BY <1>2
<1> HIDE DEF lead, n
<1>20. \A k \in 1..n + 1 :
          heard'[k] = SubSeq(p.codes, 1, IF k <= lead THEN lead + 1 ELSE k)
  <2> TAKE k \in 1..n + 1
  <2>1. CASE k = n + 1
    BY <1>2, <1>10, <1>11, <1>13, <1>16, <2>1
  <2>2. CASE k # n + 1
    <3>1. k \in 1..n /\ (IF k <= lead THEN lead + 1 ELSE k) \in 1..n
      BY <1>2, <1>10, <1>11, <2>2
    <3> QED BY <1>13, <1>15, <1>17, <3>1
  <2> QED BY <2>1, <2>2
<1> QED BY <1>13, <1>14, <1>18, <1>19, <1>20 DEF DecodesTheEncodersEpoch

\* Whatever the network does, the PCM of a packet is computed on the tokens its
\* encoder computed it for.
THEOREM StreamDecodesTheEncodersEpoch == Spec => []DecodesTheEncodersEpoch
<1> DEFINE Inv == DecoderInv /\ EncoderTypeOK /\ EpochsIndependent /\ NumbersUnique /\ OnlySent
<1>1. Init => DecodesTheEncodersEpoch
  BY DEF Init, DecoderInit, DecodesTheEncodersEpoch
<1>2. ASSUME Inv, DecodesTheEncodersEpoch, [Next]_vars
      PROVE  DecodesTheEncodersEpoch'
  <2>1. ASSUME NEW p \in sent, PullPlays(p) PROVE DecodesTheEncodersEpoch'
    BY <1>2, <2>1, JoinDecodes, ContinuationDecodes
  <2>2. CASE played' = << >>
    BY <2>2 DEF DecodesTheEncodersEpoch
  <2>3. CASE UNCHANGED <<played, heard, dec_epoch_start>>
    BY <1>2, <2>3 DEF DecodesTheEncodersEpoch, LastPlayed
  <2>4. ASSUME NEW profile \in Profiles, SelectDecoderProfile(profile)
        PROVE  DecodesTheEncodersEpoch'
    <3>1. played' = played /\ played = << >>
      BY <1>2, <2>4 DEF SelectDecoderProfile, DecoderInv, AtLastPlayed
    <3> QED BY <3>1 DEF DecodesTheEncodersEpoch
  <2> QED
    BY <1>2, <2>1, <2>2, <2>3, <2>4
    DEF Next, EncoderStep, DecoderStep, DecoderNext, vars, decVars, Pull,
        ResetDecoder, PullFails, PullLosesSync
<1>3. Inv /\ DecodesTheEncodersEpoch /\ [Next]_vars => DecodesTheEncodersEpoch'
  BY <1>2
<1>4. Spec => []Inv
  BY StreamHasEncoder, StreamDecoderInvariant, EncoderTypeCorrect,
     EncoderEpochsIndependent, EncoderNumbersUnique, StreamPlaysOnlySent, PTL
<1> QED BY <1>1, <1>3, <1>4, PTL DEF Spec

-----------------------------------------------------------------------------
(* What the two ends implement *)

\* Where numbers are used once, the packet with a number is the one that has it.
LEMMA NumberedIs ==
    ASSUME NEW S, NEW q \in S, NEW i, q.index = i,
           \A p \in S : p.index = i => p = q
    PROVE  Numbered(S, i) = q
  BY DEF Numbered

\* The audio published with a packet is what its codes end with.
LEMMA PublishedIs ==
    ASSUME NEW S, NEW c \in Nat, Cardinality(S) = c,
           \A p, q \in S : p.index = q.index => p = q,
           NEW q \in S, NEW k \in 1..c, q.index = k - 1
    PROVE  Published(S)[k] = Final(q.codes)
<1>1. Numbered(S, k - 1) = q
  <2>1. \A p \in S : p.index = k - 1 => p = q
    OBVIOUS
  <2> QED BY <2>1, NumberedIs
<1> QED BY <1>1 DEF Published

\* As much audio is published of an epoch as it has packets.
LEMMA PublishedLength ==
    ASSUME NEW S, NEW c \in Nat, Cardinality(S) = c
    PROVE  /\ DOMAIN Published(S) = 1..c
           /\ Published(S) = [k \in 1..c |-> Published(S)[k]]
           /\ Len(Published(S)) = c
  BY DEF Published

\* The next packet of an epoch adds its audio at the end.
LEMMA PublishedGrows ==
    ASSUME NEW S, IsFiniteSet(S), NEW n, n \notin S, n.index = Cardinality(S),
           \A p, q \in S \cup {n} : p.index = q.index => p = q,
           \A k \in 0..Cardinality(S) - 1 : \E p \in S : p.index = k
    PROVE  /\ Published(S \cup {n}) = Append(Published(S), Final(n.codes))
           /\ Cardinality(S) = 0 => Published(S \cup {n}) = <<Final(n.codes)>>
<1> DEFINE c == Cardinality(S)
           T == S \cup {n}
           a == Final(n.codes)
<1>1. c \in Nat /\ Cardinality(T) = c + 1
  BY FS_CardinalityType, FS_AddElement
<1>2. \A p, q \in S : p.index = q.index => p = q
  OBVIOUS
<1>3. Published(T)[c + 1] = a
  <2>1. c + 1 \in 1..c + 1 /\ n \in T /\ n.index = (c + 1) - 1 /\ c + 1 \in Nat
    BY <1>1
  <2> HIDE DEF T
  <2>2. \A p, q \in T : p.index = q.index => p = q
    BY DEF T
  <2> QED BY <1>1, <2>1, <2>2, PublishedIs
<1>4. ASSUME NEW k \in 1..c PROVE Published(T)[k] = Published(S)[k]
  <2>0. k - 1 \in 0..c - 1
    BY <1>1
  <2>1. PICK p \in S : p.index = k - 1
    BY <2>0
  <2>2. Published(S)[k] = Final(p.codes)
    <3> HIDE DEF c
    <3> QED BY <1>1, <1>2, <2>1, PublishedIs DEF c
  <2>3. Published(T)[k] = Final(p.codes)
    <3>1. k \in 1..c + 1 /\ p \in T /\ c + 1 \in Nat
      BY <1>1
    <3>2. \A x, y \in T : x.index = y.index => x = y
      OBVIOUS
    <3> HIDE DEF T, c
    <3> QED BY <1>1, <2>1, <3>1, <3>2, PublishedIs
  <2> QED BY <2>2, <2>3
<1> HIDE DEF c, T
<1>5. /\ Published(S) = [k \in 1..c |-> Published(S)[k]]
      /\ Published(T) = [k \in 1..c + 1 |-> Published(T)[k]]
      /\ Len(Published(S)) = c
  <2>1. c + 1 \in Nat
    BY <1>1
  <2> QED BY <1>1, <2>1, PublishedLength DEF c
<1>6. Append(Published(S), a) = [k \in 1..c + 1 |-> IF k = c + 1 THEN a ELSE Published(S)[k]]
  <2> DEFINE s == Published(S)
             V == {s[k] : k \in 1..c} \cup {a}
  <2>1. s \in Seq(V) /\ a \in V
    BY <1>1, <1>5
  <2> HIDE DEF s, V
  <2>2. Len(s) = c
    BY <1>5 DEF s
  <2>3. Append(s, a) \in Seq(V) /\ Len(Append(s, a)) = c + 1
        /\ (\A k \in 1..c : Append(s, a)[k] = s[k]) /\ Append(s, a)[c + 1] = a
    BY <2>1, <2>2, AppendProperties
  <2> DEFINE t == [k \in 1..c + 1 |-> IF k = c + 1 THEN a ELSE s[k]]
  <2>4. \A k \in 1..c + 1 : k = c + 1 \/ k \in 1..c
    BY <1>1
  <2>5. \A k \in 1..c : s[k] \in V
    BY <2>1, <2>2, ElementOfSeq
  <2>6. t \in Seq(V) /\ Len(t) = c + 1
    <3>1. \A k \in 1..c + 1 : t[k] \in V
      BY <2>1, <2>4, <2>5
    <3>2. c + 1 \in Nat
      BY <1>1
    <3> QED BY <3>1, <3>2
  <2>7. \A k \in 1..c + 1 : t[k] = Append(s, a)[k]
    BY <1>1, <2>3, <2>4
  <2> HIDE DEF t
  <2>8. t = Append(s, a)
    BY <2>3, <2>6, <2>7, SeqEqual
  <2> QED BY <2>8 DEF s, t
<1>7. Published(T) = Append(Published(S), a)
  <2>1. \A k \in 1..c + 1 : k = c + 1 \/ k \in 1..c
    BY <1>1
  <2>2. \A k \in 1..c + 1 : Published(T)[k] = IF k = c + 1 THEN a ELSE Published(S)[k]
    BY <1>3, <1>4, <2>1
  <2>3. [k \in 1..c + 1 |-> Published(T)[k]]
          = [k \in 1..c + 1 |-> IF k = c + 1 THEN a ELSE Published(S)[k]]
    BY <2>2
  <2>4. Published(T) = [k \in 1..c + 1 |-> IF k = c + 1 THEN a ELSE Published(S)[k]]
    BY ONLY <1>5, <2>3
  <2> QED BY ONLY <2>4, <1>6
<1>8. c = 0 => Published(T) = <<a>>
  <2> SUFFICES ASSUME c = 0 PROVE Published(T) = <<a>>
    OBVIOUS
  <2>1. <<a>> = [k \in 1..1 |-> a]
    OBVIOUS
  <2>2. \A k \in 1..1 : Published(T)[k] = a
    BY <1>3
  <2> QED BY <1>5, <2>1, <2>2
<1> QED BY <1>7, <1>8 DEF c, T

-----------------------------------------------------------------------------
(* The numbers of the packets of an epoch *)

\* The encoder takes the number after the last one of the epoch it is in, or the
\* first one of an epoch in which nothing was sent.
LEMMA PushTakesTheNext ==
    ASSUME EncoderInv, NumberedFromZero, NEW pts \in Times64, PushAccepted(pts)
    PROVE  /\ PushEpoch \in Epochs /\ PushIndex \in Nat /\ PushIndex < EpochPackets
           /\ IsFiniteSet(SentOf(PushEpoch)) /\ Cardinality(SentOf(PushEpoch)) = PushIndex
           /\ \A q \in sent : q.epoch \in Nat /\ q.epoch <= PushEpoch
           /\ PushIndex = 0 => \A q \in sent : q.epoch < PushEpoch
           /\ \A q \in SentOf(PushEpoch) : q.index < PushIndex
<1>1. /\ PushEpoch \in Epochs /\ PushIndex \in Nat /\ PushIndex < EpochPackets
      /\ \/ "RESET" \in PushFlags /\ PushIndex = 0
         \/ PushFlags = {} /\ InEpoch /\ ~Boundary
  BY PushStartsOrContinues
<1>2. \A q \in sent : q.epoch \in Nat /\ q.index \in Nat
  BY SentNumbers DEF EncoderInv
<1>3. PushEpoch \in Nat
  BY <1>1, PacketAssumption DEF Epochs
<1>4. ASSUME NEW q \in sent
      PROVE  q.epoch < PushEpoch \/ (q.epoch = PushEpoch /\ q.index < PushIndex)
  <2>1. Before(q, Packet(pts, << >>))
    BY PushEmitsForward
  <2> QED BY <2>1 DEF Before, Packet
<1>5. IsFiniteSet(SentOf(PushEpoch)) /\ Cardinality(SentOf(PushEpoch)) \in Nat
  BY <1>1, FS_CardinalityType DEF NumberedFromZero
<1>6. \A q \in SentOf(PushEpoch) : q.index < PushIndex
  BY <1>2, <1>3, <1>4 DEF SentOf
<1>7. Cardinality(SentOf(PushEpoch)) = PushIndex
  <2>1. PushIndex \in 0..EpochPackets
    BY <1>1, PacketAssumption
  <2>2. ~ (PushIndex < Cardinality(SentOf(PushEpoch)))
    <3>1. ~ \E p \in SentOf(PushEpoch) : p.index = PushIndex
      BY <1>1, <1>6
    <3> QED BY <1>1, <2>1, <3>1 DEF NumberedFromZero
  <2>3. PushIndex # 0 => PushIndex - 1 < Cardinality(SentOf(PushEpoch))
    <3> SUFFICES ASSUME PushIndex # 0
                 PROVE  PushIndex - 1 < Cardinality(SentOf(PushEpoch))
      OBVIOUS
    <3>1. PushFlags = {} /\ InEpoch /\ ~Boundary
      BY <1>1 DEF PushFlags, PushIndex, InEpoch, Boundary
    <3>2. PushEpoch = enc_epoch /\ PushIndex = enc_index
      BY <3>1 DEF PushEpoch, PushIndex
    <3>3. \E q \in SentOf(PushEpoch) : q.index = PushIndex - 1
      BY <3>1, <3>2 DEF InEpoch, SentOf
    <3>4. PushIndex - 1 \in 0..EpochPackets
      BY <1>1, PacketAssumption
    <3> QED BY <1>1, <3>3, <3>4 DEF NumberedFromZero
  <2> QED BY <1>1, <1>5, <2>2, <2>3
<1>8. PushIndex = 0 => \A q \in sent : q.epoch < PushEpoch
  BY <1>2, <1>3, <1>4
<1>9. \A q \in sent : q.epoch \in Nat /\ q.epoch <= PushEpoch
  BY <1>2, <1>3, <1>4
<1> QED BY <1>1, <1>5, <1>6, <1>7, <1>8, <1>9

\* What a push does to the packets of the epochs.
LEMMA PushSends ==
    ASSUME EncoderInv, NumberedFromZero, NEW pcm \in Audio, NEW pts \in Times64,
           Push(pcm, pts), NEW e, e = PushEpoch,
           NEW n, n = Packet(pts, Current(enc_native'))
    PROVE  /\ e \in Epochs /\ n.epoch = e /\ n.index = Cardinality(SentOf(e))
           /\ n.index \in Nat /\ n.index < EpochPackets
           /\ n \notin SentOf(e) /\ IsFiniteSet(SentOf(e))
           /\ sent' = sent \cup {n}
           /\ SentOf(e)' = SentOf(e) \cup {n}
           /\ \A f \in Epochs \ {e} : SentOf(f)' = SentOf(f)
<1>1. PushAccepted(pts) /\ sent' = sent \cup {n}
  BY DEF Push, Packet
<1>2. n.epoch = e /\ n.index = PushIndex
  BY DEF Packet
<1>3. /\ e \in Epochs /\ PushIndex \in Nat /\ PushIndex < EpochPackets
      /\ IsFiniteSet(SentOf(e)) /\ Cardinality(SentOf(e)) = PushIndex
      /\ \A q \in SentOf(e) : q.index < PushIndex
  BY <1>1, PushTakesTheNext
<1>4. n \notin SentOf(e)
  BY <1>2, <1>3
<1>5. SentOf(e)' = SentOf(e) \cup {n}
  BY <1>1, <1>2 DEF SentOf
<1>6. \A f \in Epochs \ {e} : SentOf(f)' = SentOf(f)
  BY <1>1, <1>2 DEF SentOf
<1> QED BY <1>1, <1>2, <1>3, <1>4, <1>5, <1>6

\* A push leaves the packets of its epoch numbered without a gap.
LEMMA PushNumbers ==
    ASSUME EncoderInv, NumberedFromZero, NEW pcm \in Audio, NEW pts \in Times64, Push(pcm, pts)
    PROVE  NumberedFromZero'
<1>1. PICK e : e = PushEpoch
  OBVIOUS
<1>2. PICK n : n = Packet(pts, Current(enc_native'))
  OBVIOUS
<1>3. /\ e \in Epochs /\ n.epoch = e /\ n.index = Cardinality(SentOf(e))
      /\ n.index \in Nat /\ n.index < EpochPackets
      /\ n \notin SentOf(e) /\ IsFiniteSet(SentOf(e))
      /\ SentOf(e)' = SentOf(e) \cup {n}
      /\ \A f \in Epochs \ {e} : SentOf(f)' = SentOf(f)
  BY <1>1, <1>2, PushSends
<1>4. /\ IsFiniteSet(SentOf(e) \cup {n})
      /\ Cardinality(SentOf(e) \cup {n}) = n.index + 1
  BY <1>3, FS_AddElement
<1>5. ASSUME NEW k \in 0..EpochPackets
      PROVE  k < n.index + 1 <=> \E p \in SentOf(e) \cup {n} : p.index = k
  <2>1. k < n.index <=> \E p \in SentOf(e) : p.index = k
    BY <1>3 DEF NumberedFromZero
  <2> QED BY <1>3, <2>1, PacketAssumption
<1>6. ASSUME NEW f \in Epochs, f # e
      PROVE  /\ IsFiniteSet(SentOf(f)')
             /\ \A k \in 0..EpochPackets :
                   k < Cardinality(SentOf(f)') <=> \E p \in SentOf(f)' : p.index = k
  BY <1>3, <1>6 DEF NumberedFromZero
<1>7. /\ IsFiniteSet(SentOf(e)')
      /\ \A k \in 0..EpochPackets :
            k < Cardinality(SentOf(e)') <=> \E p \in SentOf(e)' : p.index = k
  BY <1>3, <1>4, <1>5
<1>8. ASSUME NEW f \in Epochs
      PROVE  /\ IsFiniteSet(SentOf(f)')
             /\ \A k \in 0..EpochPackets :
                   k < Cardinality(SentOf(f)') <=> \E p \in SentOf(f)' : p.index = k
  BY <1>6, <1>7
<1> QED BY <1>8 DEF NumberedFromZero

\* No step leaves a gap.
LEMMA StepNumbers ==
    ASSUME EncoderInv, NumberedFromZero, [EncoderNext]_encVars
    PROVE  NumberedFromZero'
<1>1. CASE sent' = sent
  <2>1. \A e \in Epochs : SentOf(e)' = SentOf(e)
    BY <1>1 DEF SentOf
  <2> QED BY <2>1 DEF NumberedFromZero
<1>2. CASE \E pcm \in Audio, pts \in Times64 : Push(pcm, pts)
  BY <1>2, PushNumbers
<1> QED BY <1>1, <1>2, WhatASteppedEncoderEmits

\* The packets of every epoch are numbered from 0 without a gap, whatever is
\* reset and whatever fails.
THEOREM EncoderNumbersFromZero == EncoderSpec => []NumberedFromZero
<1>1. EncoderInit => NumberedFromZero
  <2> SUFFICES ASSUME EncoderInit PROVE NumberedFromZero
    OBVIOUS
  <2>1. \A e \in Epochs : SentOf(e) = {}
    BY DEF EncoderInit, SentOf
  <2> QED BY <2>1, FS_EmptySet, PacketAssumption DEF NumberedFromZero
<1>2. EncoderInv /\ NumberedFromZero /\ [EncoderNext]_encVars => NumberedFromZero'
  BY StepNumbers
<1> QED BY <1>1, <1>2, EncoderInvariant, PTL DEF EncoderSpec

-----------------------------------------------------------------------------
(* The epoch being played *)

\* A packet that is played is the first of its epoch, or the next one.
LEMMA PullPlaysFromZero ==
    ASSUME DecoderInv, PlayedFromZero, NEW p \in Packets, WellFormed(p), PullPlays(p)
    PROVE  PlayedFromZero'
<1> DEFINE n == Len(played)
<1>1. /\ played \in Seq(Packets) /\ played' = Append(played, p)
      /\ Joins(p) \/ Continues(p)
  BY DEF DecoderInv, DecoderTypeOK, PullPlays
<1>2. /\ n \in Nat /\ Len(played') = n + 1
      /\ \A k \in 1..n : played'[k] = played[k]
      /\ played'[n + 1] = p /\ LastPlayed' = p
  BY <1>1, PlayedGrows
<1>3. EpochStart' = n + 1 - p.index /\ p.index \in Nat
  BY <1>2 DEF EpochStart, Packets
<1>4. CASE Reset(p)
  <2>1. p.index = 0
    BY <1>4 DEF WellFormed
  <2> QED BY <1>2, <1>3, <2>1 DEF PlayedFromZero
<1>5. CASE ~ Reset(p)
  <2>1. /\ played # << >> /\ n >= 1 /\ LastPlayed = played[n]
        /\ p.epoch = LastPlayed.epoch /\ p.index = LastPlayed.index + 1
        /\ LastPlayed.index \in Nat /\ LastPlayed.index < n
    <3>1. Continues(p) /\ dec_has_epoch
      BY <1>1, <1>5 DEF Joins, Continues
    <3>2. played # << >>
      BY <3>1 DEF DecoderInv, AtLastPlayed
    <3>3. n >= 1
      BY <1>1, <1>2, <3>2, EmptySeq
    <3>4. LastPlayed = played[n] /\ LastPlayed.index \in Nat
      BY <1>1, <1>2, <3>3, PlayedNumbers DEF LastPlayed
    <3> QED BY <3>1, <3>2, <3>3, <3>4 DEF DecoderInv, AtLastPlayed, Continues
  <2>2. EpochStart' = EpochStart /\ EpochStart = n - LastPlayed.index
    BY <1>2, <1>3, <2>1 DEF EpochStart
  <2>3. ASSUME NEW k \in 0..p.index
        PROVE  played'[EpochStart' + k].epoch = p.epoch /\ played'[EpochStart' + k].index = k
    <3>1. CASE k = p.index
      <4>1. EpochStart' + k = n + 1
        BY <1>2, <1>3, <3>1
      <4> QED BY <1>2, <3>1, <4>1
    <3>2. CASE k # p.index
      <4>1. k \in 0..LastPlayed.index /\ EpochStart + k \in 1..n
        BY <1>2, <2>1, <2>2, <3>2
      <4>2. played'[EpochStart + k] = played[EpochStart + k]
        BY <1>2, <4>1
      <4> QED BY <2>1, <2>2, <4>1, <4>2 DEF PlayedFromZero
    <3> QED BY <3>1, <3>2
  <2> QED BY <1>2, <2>3 DEF PlayedFromZero
<1> QED BY <1>4, <1>5

\* No step of the stream breaks that.
LEMMA StepPlaysFromZero ==
    ASSUME DecoderInv, EncoderTypeOK, PlayedFromZero, [Next]_vars
    PROVE  PlayedFromZero'
<1>1. CASE played' = played
  BY <1>1 DEF PlayedFromZero, LastPlayed, EpochStart
<1>2. CASE \E p \in sent : PullPlays(p)
  <2>1. PICK p \in sent : PullPlays(p)
    BY <1>2
  <2>2. p \in Packets /\ WellFormed(p)
    BY DEF EncoderTypeOK
  <2> QED BY <2>1, <2>2, PullPlaysFromZero
<1>3. CASE played' = << >>
  BY <1>3 DEF PlayedFromZero
<1> QED
  BY <1>1, <1>2, <1>3
  DEF Next, EncoderStep, DecoderStep, DecoderNext, vars, decVars, Pull, PullFails,
      PullLosesSync, ResetDecoder, SelectDecoderProfile

\* What is played of an epoch starts with its first packet and has no gap.
THEOREM StreamPlaysFromZero == Spec => []PlayedFromZero
<1>1. Init => PlayedFromZero
  BY DEF Init, DecoderInit, PlayedFromZero
<1>2. DecoderInv /\ EncoderTypeOK /\ PlayedFromZero /\ [Next]_vars => PlayedFromZero'
  BY StepPlaysFromZero
<1> QED BY <1>1, <1>2, StreamHasEncoder, EncoderTypeCorrect, StreamDecoderInvariant, PTL DEF Spec

-----------------------------------------------------------------------------
(* The refinement *)

\* The frame that is pushed is what the codes of its packet end with.
LEMMA PushEndsWithItsFrame ==
    ASSUME EncoderInv, NEW pcm \in Audio, NEW pts \in Times64, Push(pcm, pts)
    PROVE  Final(Current(enc_native')) = pcm
<1>1. /\ enc_native \in NativeType(Frames) /\ pcm \in Frames
      /\ LeadIn(enc_epoch_start) \in Nat
  BY PrerollAssumption DEF EncoderInv, EncoderTypeOK, Frames, LeadIn
<1>2. Current(enc_native) \in Seq(Frames)
  BY <1>1 DEF Current, NativeType
<1>3. CASE "RESET" \in PushFlags
  <2> DEFINE k == LeadIn(enc_epoch_start) + 1
  <2>1. Current(enc_native') = Times(k, pcm) /\ k \in Nat /\ k \in 1..k
    BY <1>1, <1>3, PushComputes
  <2> HIDE DEF k
  <2> QED BY <1>1, <2>1, TimesType DEF Final
<1>4. CASE "RESET" \notin PushFlags
  <2>1. Current(enc_native') = Append(Current(enc_native), pcm)
    BY <1>4, PushComputes
  <2> QED BY <1>1, <1>2, <2>1, AppendProperties DEF Final
<1> QED BY <1>3, <1>4

\* A push publishes its frame, at the end of the newest epoch or as a new one.
LEMMA PushPublishes ==
    ASSUME EncoderInv, NumberedFromZero, NumbersUnique',
           NEW pcm \in Audio, NEW pts \in Times64, Push(pcm, pts), UNCHANGED decVars
    PROVE  \E e \in Epochs : Playback!Extend(e, pcm) \/ Playback!Open(e, pcm)
<1>1. PICK e : e = PushEpoch
  OBVIOUS
<1>2. PICK n : n = Packet(pts, Current(enc_native'))
  OBVIOUS
<1> DEFINE S == SentOf(e)
           D == {p.epoch : p \in sent}
           P == [f \in D |-> Published(SentOf(f))]
<1>3. /\ e \in Epochs /\ n.epoch = e /\ n.index = Cardinality(S)
      /\ n.index \in Nat /\ n.index < EpochPackets
      /\ n \notin S /\ IsFiniteSet(S)
      /\ sent' = sent \cup {n}
      /\ SentOf(e)' = S \cup {n}
      /\ \A f \in Epochs \ {e} : SentOf(f)' = SentOf(f)
  BY <1>1, <1>2, PushSends
<1>4. /\ \A q \in sent : q.epoch \in Epochs /\ q.epoch \in Nat /\ q.epoch <= e
      /\ n.index = 0 => \A q \in sent : q.epoch < e
  <2>1. PushAccepted(pts) /\ n.index = PushIndex
    BY <1>2 DEF Push, Packet
  <2>2. \A q \in sent : q.epoch \in Epochs
    BY SentNumbers DEF EncoderInv
  <2> QED BY <1>1, <2>1, <2>2, PushTakesTheNext
<1>5. Final(n.codes) = pcm
  BY <1>2, PushEndsWithItsFrame DEF Packet
<1>6. /\ Published(S \cup {n}) = Append(Published(S), pcm)
      /\ n.index = 0 => Published(S \cup {n}) = <<pcm>>
  <2>1. \A p, q \in S \cup {n} : p.index = q.index => p = q
    <3>1. \A p \in S \cup {n} : p \in sent' /\ p.epoch = e
      BY <1>3 DEF SentOf
    <3> QED BY <3>1 DEF NumbersUnique
  <2>2. \A k \in 0..Cardinality(S) - 1 : \E p \in S : p.index = k
    <3>1. \A k \in 0..Cardinality(S) - 1 : k \in 0..EpochPackets /\ k < Cardinality(S)
      BY <1>3, PacketAssumption
    <3> QED BY <1>3, <3>1 DEF NumberedFromZero
  <2> HIDE DEF S
  <2> QED BY <1>3, <1>5, <2>1, <2>2, PublishedGrows
<1>7. {p.epoch : p \in sent'} = D \cup {e}
  BY <1>3
<1>8. /\ Published(SentOf(e)') = Published(S \cup {n})
      /\ \A f \in D \ {e} : Published(SentOf(f)') = Published(SentOf(f))
  BY <1>3, <1>4
<1> DEFINE Q == [f \in {p.epoch : p \in sent'} |-> Published(SentOf(f)')]
<1>9. UNCHANGED <<dec_has_epoch, dec_epoch, dec_epoch_start, heard>>
  BY DEF decVars
<1>10. CASE n.index = 0
  <2>1. \A f \in D : f < e
    BY <1>4, <1>10
  <2>2. Q = [f \in D \cup {e} |-> IF f = e THEN <<pcm>> ELSE P[f]]
    <3>1. \A f \in D \cup {e} : Published(SentOf(f)') = IF f = e THEN <<pcm>> ELSE P[f]
      BY <1>6, <1>8, <1>10
    <3> QED BY <1>7, <3>1
  <2>3. Playback!Open(e, pcm)
    BY <1>9, <2>1, <2>2 DEF Playback!Open, HeardAudio
  <2> QED BY <1>3, <2>3
<1>11. CASE n.index # 0
  <2>1. e \in D /\ \A f \in D : f <= e
    <3>1. S # {}
      BY <1>3, <1>11, FS_EmptySet
    <3> QED BY <1>4, <3>1 DEF SentOf
  <2>2. Len(P[e]) < EpochPackets
    <3>1. Len(Published(S)) = n.index
      <4> HIDE DEF S
      <4> QED BY <1>3, PublishedLength
    <3> QED BY <1>3, <2>1, <3>1
  <2>3. Q = [P EXCEPT ![e] = Append(P[e], pcm)]
    <3>1. \A f \in D : Published(SentOf(f)') = IF f = e THEN Append(P[e], pcm) ELSE P[f]
      BY <1>6, <1>8, <2>1
    <3>2. {p.epoch : p \in sent'} = D
      BY <1>7, <2>1
    <3> QED BY <2>1, <3>1, <3>2
  <2>4. Playback!Extend(e, pcm)
    BY <1>9, <2>1, <2>2, <2>3 DEF Playback!Extend, HeardAudio
  <2> QED BY <1>3, <2>4
<1> QED BY <1>3, <1>10, <1>11

\* What has been heard of an epoch is the beginning of what was published of it.
HeardIsPublished ==
    dec_has_epoch =>
        LET whole == Published(SentOf(dec_epoch))
        IN  /\ LastPlayed.index \in Nat /\ LastPlayed.index < Len(whole)
            /\ Len(HeardAudio) = LastPlayed.index + 1
            /\ HeardAudio = SubSeq(whole, 1, LastPlayed.index + 1)

\* What a decoder has heard is what was published, as far as it has come.
LEMMA HeardFromItsStart ==
    ASSUME DecoderInv, EncoderTypeOK, NumbersUnique, NumberedFromZero, OnlySent, PlayedFromZero
    PROVE  HeardIsPublished
<1> SUFFICES ASSUME dec_has_epoch
             PROVE  LET whole == Published(SentOf(dec_epoch))
                    IN  /\ LastPlayed.index \in Nat /\ LastPlayed.index < Len(whole)
                        /\ Len(HeardAudio) = LastPlayed.index + 1
                        /\ HeardAudio = SubSeq(whole, 1, LastPlayed.index + 1)
  BY DEF HeardIsPublished
<1> DEFINE l == LastPlayed.index
           lead == LeadIn(dec_epoch_start)
           first == EpochStart
           e == dec_epoch
           S == SentOf(e)
           c == Cardinality(S)
           W == Published(S)
           C == [j \in 1..l + 1 |-> played[first + j - 1].codes]
<1>1. /\ played \in Seq(Packets) /\ played # << >> /\ Len(played) \in Nat /\ Len(played) >= 1
      /\ e = LastPlayed.epoch /\ l < Len(played) /\ e \in Epochs
  <2>1. /\ played \in Seq(Packets) /\ played # << >> /\ dec_epoch \in Epochs
        /\ dec_epoch = LastPlayed.epoch /\ LastPlayed.index < Len(played)
    BY DEF DecoderInv, DecoderTypeOK, AtLastPlayed
  <2>2. Len(played) \in Nat /\ Len(played) >= 1
    BY <2>1, EmptySeq, LenProperties
  <2> QED BY <2>1, <2>2
<1>2. l \in Nat /\ first = Len(played) - l /\ first \in Nat /\ first >= 1
  <2>1. l \in Nat
    BY <1>1, PlayedNumbers DEF LastPlayed
  <2> QED BY <1>1, <2>1 DEF EpochStart
<1>3. ASSUME NEW k \in 1..l + 1
      PROVE  /\ first + k - 1 \in 1..Len(played)
             /\ played[first + k - 1] \in S /\ played[first + k - 1].index = k - 1
             /\ played[first + k - 1].codes \in Codes
  <2>1. first + k - 1 \in 1..Len(played) /\ k - 1 \in 0..l /\ first + (k - 1) = first + k - 1
    BY <1>1, <1>2
  <2>2. played[first + k - 1].epoch = e /\ played[first + k - 1].index = k - 1
    BY <1>1, <2>1 DEF PlayedFromZero
  <2>3. played[first + k - 1] \in sent
    BY <2>1 DEF OnlySent
  <2> QED BY <1>1, <2>1, <2>2, <2>3, PlayedNumbers DEF SentOf
<1>4. c \in Nat /\ IsFiniteSet(S) /\ \A p, q \in S : p.index = q.index => p = q
  <2>1. IsFiniteSet(S)
    BY <1>1 DEF NumberedFromZero
  <2>2. \A p, q \in S : p.index = q.index => p = q
    BY DEF SentOf, NumbersUnique
  <2> QED BY <2>1, <2>2, FS_CardinalityType
<1>5. l < c
  <2>1. l + 1 \in 1..l + 1 /\ (l + 1) - 1 = l
    BY <1>2
  <2>2. \E p \in S : p.index = l
    BY <1>3, <2>1
  <2>3. l \in 0..EpochPackets
    BY <1>2, <2>2, PacketAssumption DEF SentOf, EncoderTypeOK
  <2> QED BY <1>1, <2>2, <2>3 DEF NumberedFromZero
<1>6. Len(W) = c /\ W = [k \in 1..c |-> W[k]]
  <2> HIDE DEF S
  <2> QED BY <1>4, PublishedLength
<1>7. ASSUME NEW k \in 1..l + 1
      PROVE  k \in 1..c /\ W[k] = Final(played[first + k - 1].codes)
  <2>1. k \in 1..c
    BY <1>2, <1>4, <1>5
  <2> DEFINE q == played[first + k - 1]
  <2>2. q \in S /\ q.index = k - 1
    BY <1>3
  <2> HIDE DEF S, q, c
  <2>3. Published(S)[k] = Final(q.codes)
    BY <1>4, <2>1, <2>2, PublishedIs DEF c
  <2> QED BY <2>1, <2>3 DEF q
<1>8. /\ lead \in Nat /\ Len(heard) = lead + l + 1
      /\ \A k \in 1..l + 1 : heard[lead + k] = played[first + k - 1].codes
  <2> DEFINE t == Times(lead, played[first].codes)
  <2>1. lead \in Nat
    BY PrerollAssumption DEF LeadIn
  <2>2. heard = t \o C
    BY <1>1 DEF DecoderInv, HeardIsItsEpoch
  <2>3. played[first].codes \in Codes
    <3>1. 1 \in 1..l + 1 /\ first + 1 - 1 = first
      BY <1>2
    <3> QED BY <1>3, <3>1
  <2>4. t \in Seq(Codes) /\ Len(t) = lead
    <3> HIDE DEF lead
    <3> QED BY <2>1, <2>3, TimesType
  <2>5. C \in Seq(Codes) /\ Len(C) = l + 1 /\ \A k \in 1..l + 1 : C[k] = played[first + k - 1].codes
    <3>1. l + 1 \in Nat /\ \A k \in 1..l + 1 : played[first + k - 1].codes \in Codes
      BY <1>2, <1>3
    <3> DEFINE m == l + 1
               g(k) == played[first + k - 1].codes
    <3>2. C = [k \in 1..m |-> g(k)] /\ m \in Nat /\ \A k \in 1..m : g(k) \in Codes
      BY <3>1
    <3> HIDE DEF C, m, g
    <3>3. C \in Seq(Codes) /\ Len(C) = m /\ \A k \in 1..m : C[k] = g(k)
      BY <3>2
    <3> QED BY <3>3 DEF m, g
  <2> HIDE DEF t, C, lead
  <2>6. Len(t \o C) = lead + l + 1 /\ \A k \in 1..l + 1 : (t \o C)[lead + k] = C[k]
    <3>1. /\ Len(t \o C) = Len(t) + Len(C)
          /\ \A i \in 1..Len(t) + Len(C) : (t \o C)[i] = IF i <= Len(t) THEN t[i] ELSE C[i - Len(t)]
      BY <2>4, <2>5, ConcatProperties
    <3>2. ASSUME NEW k \in 1..l + 1 PROVE (t \o C)[lead + k] = C[k]
      <4>1. /\ lead + k \in 1..Len(t) + Len(C) /\ ~ (lead + k <= Len(t))
            /\ (lead + k) - Len(t) = k
        BY <1>2, <2>1, <2>4, <2>5
      <4> QED BY <3>1, <4>1
    <3>3. Len(t \o C) = lead + (l + 1)
      BY <2>4, <2>5, <3>1
    <3>4. lead + (l + 1) = lead + l + 1
      BY <1>2, <2>1
    <3> QED BY <3>2, <3>3, <3>4
  <2> QED BY <2>1, <2>2, <2>5, <2>6 DEF lead
<1>9. HeardAudio = [k \in 1..l + 1 |-> W[k]]
  <2>1. Len(heard) - lead = l + 1
    BY <1>2, <1>8
  <2>2. HeardAudio = [k \in 1..l + 1 |-> Final(heard[lead + k])]
    BY <2>1 DEF HeardAudio
  <2>3. \A k \in 1..l + 1 : Final(heard[lead + k]) = W[k]
    BY <1>7, <1>8
  <2> QED BY <2>2, <2>3
<1>10. SubSeq(W, 1, l + 1) = [k \in 1..l + 1 |-> W[k]]
  <2> DEFINE V == {W[k] : k \in 1..c}
  <2>1. W \in Seq(V)
    BY <1>4, <1>6
  <2> HIDE DEF W, V
  <2>2. 1 \in 1..Len(W) + 1 /\ l + 1 \in 0..Len(W)
    BY <1>2, <1>4, <1>5, <1>6
  <2> QED BY <1>2, <2>1, <2>2, SubSeqProperties
<1>11. Len(HeardAudio) = l + 1
  <2>1. l + 1 \in Nat
    BY <1>2
  <2> QED BY <1>9, <2>1
<1> QED BY <1>2, <1>5, <1>6, <1>9, <1>10, <1>11

\* A packet that is played is one the listener joins at, or goes on with.
LEMMA PullListens ==
    ASSUME DecoderInv, EncoderTypeOK, HeardIsPublished, HeardIsPublished',
           NEW p \in sent, PullPlays(p), UNCHANGED encVars
    PROVE  (\E e \in Epochs : Playback!Join(e)) \/ Playback!Continue
<1> DEFINE D == {q.epoch : q \in sent}
           P == [f \in D |-> Published(SentOf(f))]
<1>1. /\ p \in Packets /\ WellFormed(p) /\ p.epoch \in Epochs /\ p.epoch \in D
      /\ Joins(p) \/ Continues(p)
      /\ dec_epoch' = p.epoch /\ dec_has_epoch'
  BY DEF EncoderTypeOK, Packets, PullPlays
<1>2. sent' = sent
  BY DEF encVars
<1>3. LastPlayed' = p
  <2>1. played \in Seq(Packets) /\ played' = Append(played, p)
    BY DEF DecoderInv, DecoderTypeOK, PullPlays
  <2> QED BY <1>1, <2>1, PlayedGrows
<1>4. /\ P[p.epoch] = Published(SentOf(p.epoch))
      /\ p.index \in Nat /\ p.index < Len(P[p.epoch])
      /\ HeardAudio' = SubSeq(P[p.epoch], 1, p.index + 1)
  <2>1. P[p.epoch] = Published(SentOf(p.epoch))
    BY <1>1
  <2>2. Published(SentOf(dec_epoch))' = Published(SentOf(p.epoch))
    BY <1>1, <1>2 DEF SentOf
  <2> QED BY <1>1, <1>3, <2>1, <2>2 DEF HeardIsPublished
<1>5. P' = P
  BY <1>2 DEF SentOf
<1>6. CASE Joins(p)
  <2>1. p.index = 0
    BY <1>1, <1>6 DEF Joins, WellFormed
  <2>2. HeardAudio' = <<P[p.epoch][1]>>
    <3>1. HeardAudio' = SubSeq(P[p.epoch], 1, 1)
      BY <1>4, <2>1
    <3> DEFINE x == P[p.epoch]
    <3> HIDE DEF x
    <3>2. SubSeq(x, 1, 1) = [k \in 1..1 |-> x[k]]
      OBVIOUS
    <3>3. [k \in 1..1 |-> x[k]] = <<x[1]>>
      OBVIOUS
    <3> QED BY <3>1, <3>2, <3>3 DEF x
  <2>3. dec_has_epoch => p.epoch > dec_epoch
    BY <1>6 DEF Joins
  <2>4. Playback!Join(p.epoch)
    BY <1>1, <1>5, <2>2, <2>3 DEF Playback!Join
  <2> QED BY <1>1, <2>4
<1>7. CASE Continues(p)
  <2>1. /\ dec_has_epoch /\ p.epoch = dec_epoch /\ p.index = dec_next_index
        /\ dec_next_index = LastPlayed.index + 1
    BY <1>7 DEF Continues, DecoderInv, AtLastPlayed
  <2>2. Len(HeardAudio) = p.index
    BY <2>1 DEF HeardIsPublished
  <2>3. Playback!Continue
    BY <1>1, <1>4, <1>5, <2>1, <2>2 DEF Playback!Continue
  <2> QED BY <2>3
<1> QED BY <1>1, <1>6, <1>7

\* Every step of the two ends and the carrier is a step of the listener, or none.
LEMMA StepPlaysBack ==
    ASSUME EncoderInv, DecoderInv, NumberedFromZero, NumbersUnique',
           HeardIsPublished, HeardIsPublished', [Next]_vars
    PROVE  [Playback!Next]_(Playback!playbackVars)
<1>1. CASE UNCHANGED vars
  BY <1>1 DEF vars, encVars, decVars, Playback!playbackVars, HeardAudio, SentOf
<1>2. CASE EncoderStep
  <2>1. UNCHANGED decVars /\ [EncoderNext]_encVars
    BY <1>2 DEF EncoderStep
  <2>2. CASE sent' = sent
    BY <2>1, <2>2 DEF decVars, Playback!playbackVars, HeardAudio, SentOf
  <2>3. CASE \E pcm \in Audio, pts \in Times64 : Push(pcm, pts)
    BY <2>1, <2>3, PushPublishes DEF Playback!Next
  <2> QED BY <2>1, <2>2, <2>3, WhatASteppedEncoderEmits
<1>3. CASE DecoderStep
  <2>1. UNCHANGED encVars /\ DecoderNext(sent)
    BY <1>3 DEF DecoderStep
  <2>2. ASSUME NEW profile \in Profiles, SelectDecoderProfile(profile)
        PROVE  UNCHANGED Playback!playbackVars
    BY <2>1, <2>2 DEF SelectDecoderProfile, encVars, Playback!playbackVars, SentOf
  <2>3. CASE ResetDecoder
    BY <2>1, <2>3 DEF ResetDecoder, encVars, SentOf, Playback!Next, Playback!Forget
  <2>4. ASSUME NEW p \in sent, PullPlays(p) PROVE Playback!Next
    BY <2>1, <2>4, PullListens DEF EncoderInv, Playback!Next
  <2>5. ASSUME NEW p \in sent, PullFails(p) \/ PullLosesSync(p)
        PROVE  UNCHANGED Playback!playbackVars
    <3>1. UNCHANGED <<sent, dec_has_epoch, dec_epoch, dec_epoch_start, heard>>
      BY <2>1, <2>5 DEF PullFails, PullLosesSync, encVars
    <3> QED BY <3>1 DEF Playback!playbackVars, HeardAudio, SentOf
  <2> QED BY <2>1, <2>2, <2>3, <2>4, <2>5 DEF DecoderNext, Pull
<1> QED BY <1>1, <1>2, <1>3 DEF Next

\* An encoder, a decoder and a carrier that loses, repeats and reorders implement
\* the listener of KencPlayback: what is heard of an epoch is what was pushed
\* into it, frame by frame from its start, and the epochs only go up.
THEOREM StreamImplementsPlayback == Spec => ImplementsPlayback
<1>1. Init => Playback!Init
  <2> SUFFICES ASSUME Init PROVE Playback!Init
    OBVIOUS
  <2>1. sent = {} /\ dec_has_epoch = FALSE
    BY DEF Init, EncoderInit, DecoderInit
  <2>2. [f \in {p.epoch : p \in sent} |-> Published(SentOf(f))] = << >>
    BY <2>1
  <2> QED BY <2>1, <2>2 DEF Playback!Init
<1>2. Spec => []HeardIsPublished
  <2>1. /\ DecoderInv /\ EncoderTypeOK /\ NumbersUnique /\ NumberedFromZero /\ OnlySent /\ PlayedFromZero
        => HeardIsPublished
    BY HeardFromItsStart
  <2> QED
    BY <2>1, StreamHasEncoder, StreamDecoderInvariant, EncoderTypeCorrect, EncoderNumbersUnique,
       EncoderNumbersFromZero, StreamPlaysOnlySent, StreamPlaysFromZero, PTL
<1>3. /\ EncoderInv /\ DecoderInv /\ NumberedFromZero /\ NumbersUnique'
      /\ HeardIsPublished /\ HeardIsPublished' /\ [Next]_vars
      => [Playback!Next]_(Playback!playbackVars)
  BY StepPlaysBack
<1>4. Spec => [](EncoderInv /\ DecoderInv /\ NumberedFromZero /\ NumbersUnique)
  BY StreamHasEncoder, EncoderInvariant, StreamDecoderInvariant, EncoderNumbersFromZero,
     EncoderNumbersUnique, PTL
<1> QED BY <1>1, <1>2, <1>3, <1>4, PTL DEF Spec, ImplementsPlayback, Playback!Spec
=============================================================================
