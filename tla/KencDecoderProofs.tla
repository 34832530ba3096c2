------------------------- MODULE KencDecoderProofs -------------------------
(*****************************************************************************)
(* The decoder's invariant, kept by every call whatever packet that parses   *)
(* it is given.                                                              *)
(*****************************************************************************)
EXTENDS KencDecoder, KencNativeProofs

-----------------------------------------------------------------------------
(* The decoder *)

Heard == Codes \cup {Junk}

\* A sum that is in range does not wrap.
LEMMA BelowModulus ==
    ASSUME NEW n \in Nat, NEW K \in Nat \ {0}, n < K PROVE n % K = n
  OBVIOUS

LEMMA InRange ==
    ASSUME NEW n \in Nat, NEW M \in Nat, n <= M PROVE n % (M + 1) = n
<1>1. M + 1 \in Nat \ {0} /\ n < M + 1
  OBVIOUS
<1> QED BY <1>1, BelowModulus

\* The PTS and the epoch that follow one which is not the last.
LEMMA NumbersAfter ==
    /\ \A pts \in Times64 : pts <= PtsMax - PtsStep => PtsAfter(pts) = pts + PtsStep
    /\ \A epoch \in Epochs : epoch # EpochMax => EpochAfter(epoch) = epoch + 1
<1>1. ASSUME NEW pts \in Times64, pts <= PtsMax - PtsStep PROVE PtsAfter(pts) = pts + PtsStep
  <2>1. pts + PtsStep \in Nat /\ PtsMax \in Nat /\ pts + PtsStep <= PtsMax
    BY <1>1, PacketAssumption DEF Times64
  <2> QED BY <2>1, InRange DEF PtsAfter
<1>2. ASSUME NEW epoch \in Epochs, epoch # EpochMax PROVE EpochAfter(epoch) = epoch + 1
  <2>1. epoch + 1 \in Nat /\ EpochMax \in Nat /\ epoch + 1 <= EpochMax
    BY <1>2, PacketAssumption DEF Epochs
  <2> QED BY <2>1, InRange DEF EpochAfter
<1> QED BY <1>1, <1>2

\* What appending a packet does to the history of played ones.
LEMMA PlayedGrows ==
    ASSUME played \in Seq(Packets), NEW p \in Packets, played' = Append(played, p)
    PROVE  /\ played' \in Seq(Packets)
           /\ Len(played) \in Nat
           /\ Len(played') = Len(played) + 1
           /\ \A k \in 1..Len(played) : played'[k] = played[k]
           /\ played'[Len(played')] = p
           /\ LastPlayed' = p
           /\ played' # << >>
  BY AppendProperties, LenProperties DEF LastPlayed

\* The stream a packet is run on: zeroed when it starts an epoch, else the one
\* the PCM heard last came from.
LEMMA PullRuns ==
    ASSUME DecoderInv, NEW p \in Packets, Joins(p) \/ Continues(p)
    PROVE  /\ PullNative(p) \in NativeType(Heard)
           /\ PullNative(p).preroll_packets = LeadIn(dec_epoch_start)
           /\ p.codes \in Heard
           /\ Reset(p) => Fresh(PullNative(p))
           /\ ~Reset(p) => /\ Continues(p)
                           /\ PullNative(p) = dec_native
                           /\ ~dec_native.preroll
                           /\ Current(dec_native) = heard
<1>1. dec_native \in NativeType(Heard) /\ dec_native.preroll_packets = LeadIn(dec_epoch_start)
  BY DEF DecoderInv, DecoderTypeOK, Heard
<1>2. p.codes \in Heard
  BY DEF Packets, Heard
<1>3. CASE Reset(p)
  <2>1. PullNative(p) = NativeReset(dec_native)
    BY <1>3 DEF PullNative
  <2> QED BY <1>1, <1>2, <1>3, <2>1, ResetFresh
<1>4. CASE ~Reset(p)
  <2>1. PullNative(p) = dec_native /\ Continues(p)
    BY <1>4 DEF PullNative, Joins
  <2>2. ~dec_native.preroll /\ Current(dec_native) = heard
    BY <2>1 DEF DecoderInv, Synchronised, Continues
  <2> QED BY <1>1, <1>2, <1>4, <2>1, <2>2
<1> QED BY <1>3, <1>4

\* What a pull that plays hears.
LEMMA PullHears ==
    ASSUME DecoderInv, NEW p \in Packets, PullPlays(p)
    PROVE  /\ dec_native' \in NativeType(Heard)
           /\ dec_native'.preroll_packets = LeadIn(dec_epoch_start)
           /\ ~dec_native'.preroll
           /\ heard' = Current(dec_native')
           /\ heard' \in Seq(Heard)
           /\ Reset(p) => heard' = Times(LeadIn(dec_epoch_start) + 1, p.codes)
           /\ ~Reset(p) => heard' = Append(heard, p.codes)
<1>1. (Joins(p) \/ Continues(p)) /\ dec_native' = RunFrame(PullNative(p), p.codes)
      /\ heard' = Current(dec_native')
  BY DEF PullPlays
<1>2. /\ PullNative(p) \in NativeType(Heard)
      /\ PullNative(p).preroll_packets = LeadIn(dec_epoch_start)
      /\ p.codes \in Heard
      /\ Reset(p) => Fresh(PullNative(p))
      /\ ~Reset(p) => PullNative(p) = dec_native /\ ~dec_native.preroll
                      /\ Current(dec_native) = heard
  BY <1>1, PullRuns
<1>3. /\ dec_native' \in NativeType(Heard)
      /\ ~dec_native'.preroll
      /\ dec_native'.preroll_packets = PullNative(p).preroll_packets
      /\ Fresh(PullNative(p)) =>
           heard' = Times(PullNative(p).preroll_packets + 1, p.codes)
      /\ ~PullNative(p).preroll => heard' = Append(Current(PullNative(p)), p.codes)
  BY <1>1, <1>2, RunFrameType
<1>4. heard' \in Seq(Heard)
  BY <1>1, <1>3 DEF Current, NativeType
<1> QED BY <1>1, <1>2, <1>3, <1>4

\* The numbers of what was played are numbers.
LEMMA PlayedNumbers ==
    ASSUME played \in Seq(Packets)
    PROVE  \A k \in 1..Len(played) :
              /\ played[k] \in Packets
              /\ played[k].epoch \in Nat /\ played[k].index \in Nat
              /\ played[k].codes \in Codes
<1> SUFFICES ASSUME NEW k \in 1..Len(played)
             PROVE  /\ played[k] \in Packets
                    /\ played[k].epoch \in Nat /\ played[k].index \in Nat
                    /\ played[k].codes \in Codes
  OBVIOUS
<1>1. played[k] \in Packets
  BY ElementOfSeq
<1> QED BY <1>1, PacketAssumption DEF Packets, Epochs

\* A packet that joins or continues comes after all that was played.
LEMMA PullPlaysForward ==
    ASSUME DecoderInv, NEW p \in Packets, Joins(p) \/ Continues(p),
           NEW k \in 1..Len(played)
    PROVE  Before(played[k], p) /\ (Reset(p) => played[k].epoch < p.epoch)
<1>1. played \in Seq(Packets) /\ Len(played) \in Nat /\ played # << >>
  BY LenProperties, EmptySeq DEF DecoderInv, DecoderTypeOK
<1>2. /\ dec_has_epoch
      /\ dec_epoch = LastPlayed.epoch
      /\ dec_next_index = LastPlayed.index + 1
  BY <1>1 DEF DecoderInv, AtLastPlayed
<1>3. /\ played[k].epoch \in Nat /\ played[k].index \in Nat
      /\ LastPlayed.epoch \in Nat /\ LastPlayed.index \in Nat
      /\ p.epoch \in Nat
  BY <1>1, PlayedNumbers, PacketAssumption DEF LastPlayed, Packets, Epochs
<1>4. k = Len(played) \/ Before(played[k], LastPlayed)
  BY <1>1 DEF DecoderInv, PlayedForward, LastPlayed
<1>5. played[k].epoch <= LastPlayed.epoch
  BY <1>3, <1>4 DEF Before, LastPlayed
<1>6. CASE Reset(p)
  BY <1>2, <1>3, <1>5, <1>6 DEF Joins, Continues, Before
<1>7. CASE ~Reset(p)
  BY <1>2, <1>3, <1>4, <1>7 DEF Joins, Continues, Before, LastPlayed
<1> QED BY <1>6, <1>7

\* Order of what is played, after one more.
LEMMA PullPlaysInOrder ==
    ASSUME DecoderInv, NEW p \in Packets, PullPlays(p)
    PROVE  PlayedForward' /\ PlayedInOrder'
<1>1. played \in Seq(Packets) /\ played' = Append(played, p) /\ (Joins(p) \/ Continues(p))
  BY DEF DecoderInv, DecoderTypeOK, PullPlays
<1> DEFINE n == Len(played)
<1>2. /\ n \in Nat /\ Len(played') = n + 1
      /\ \A k \in 1..n : played'[k] = played[k]
      /\ played'[n + 1] = p
  BY <1>1, PlayedGrows
<1>3. \A k \in 1..n : Before(played[k], p) /\ (Reset(p) => played[k].epoch < p.epoch)
  BY <1>1, PullPlaysForward
<1>4. CASE Reset(p)
  <2> HIDE DEF n
  <2>1. PlayedForward'
    BY <1>2, <1>3 DEF DecoderInv, PlayedForward, n
  <2>2. PlayedInOrder'
    BY <1>2, <1>3, <1>4 DEF DecoderInv, PlayedInOrder, n
  <2> QED BY <2>1, <2>2
<1>5. CASE ~Reset(p)
  <2>1. Continues(p)
    BY <1>1, <1>5 DEF Joins
  <2>2. /\ played # << >> /\ "END" \notin LastPlayed.flags
        /\ p.epoch = LastPlayed.epoch
        /\ p.index = LastPlayed.index + 1
        /\ dec_last_pts = LastPlayed.pts_ms /\ dec_last_pts <= PtsMax - PtsStep
        /\ p.pts_ms = PtsAfter(dec_last_pts)
    BY <2>1 DEF DecoderInv, AtLastPlayed, Synchronised, Continues
  <2>21. dec_last_pts \in Times64
    BY DEF DecoderInv, DecoderTypeOK
  <2>22. p.pts_ms = LastPlayed.pts_ms + PtsStep
    BY <2>2, <2>21, NumbersAfter
  <2>3. n # 0 /\ LastPlayed = played[n]
    BY <1>1, <2>2, EmptySeq DEF LastPlayed
  <2> HIDE DEF n
  <2>4. PlayedForward'
    BY <1>2, <1>3 DEF DecoderInv, PlayedForward, n
  <2>5. PlayedInOrder'
    <3> SUFFICES ASSUME NEW k \in 1..Len(played')
                 PROVE  IF Reset(played'[k])
                          THEN \A j \in 1..(k - 1) : played'[j].epoch < played'[k].epoch
                          ELSE /\ k > 1
                               /\ played'[k].epoch = played'[k - 1].epoch
                               /\ played'[k].index = played'[k - 1].index + 1
                               /\ played'[k].pts_ms = played'[k - 1].pts_ms + PtsStep
                               /\ "END" \notin played'[k - 1].flags
      BY DEF PlayedInOrder
    <3>1. CASE k \in 1..n
      <4>1. played'[k] = played[k] /\ \A j \in 1..(k - 1) : played'[j] = played[j]
        BY <1>2, <3>1
      <4>2. k \in 1..Len(played)
        BY <3>1 DEF n
      <4>3. k > 1 => played'[k - 1] = played[k - 1]
        BY <4>1, <3>1, <1>2
      <4> QED BY <4>1, <4>2, <4>3 DEF DecoderInv, PlayedInOrder
    <3>2. CASE k = n + 1
      <4>1. played'[k] = p /\ k > 1 /\ played'[k - 1] = LastPlayed
        BY <1>2, <2>3, <3>2
      <4> QED BY <4>1, <1>5, <2>2, <2>22
    <3> QED BY <1>2, <3>1, <3>2
  <2> QED BY <2>4, <2>5
<1> QED BY <1>4, <1>5

\* The history the PCM came from is the lead-in and the epoch so far.
LEMMA PullPlaysItsEpoch ==
    ASSUME DecoderInv, NEW p \in Packets, WellFormed(p), PullPlays(p)
    PROVE  HeardIsItsEpoch'
<1> DEFINE n == Len(played)
           lead == LeadIn(dec_epoch_start)
           first == n + 1 - p.index
           tail == [j \in 1..p.index + 1 |-> played'[first + j - 1].codes]
<1>1. played \in Seq(Packets) /\ played' = Append(played, p) /\ (Joins(p) \/ Continues(p))
  BY DEF DecoderInv, DecoderTypeOK, PullPlays
<1>2. /\ n \in Nat /\ Len(played') = n + 1
      /\ \A k \in 1..n : played'[k] = played[k]
      /\ played'[n + 1] = p /\ LastPlayed' = p
  BY <1>1, PlayedGrows
<1>3. lead \in Nat /\ dec_epoch_start' = dec_epoch_start
  BY PrerollAssumption DEF LeadIn, PullPlays
<1>4. p.codes \in Heard /\ p.index \in Nat
  BY DEF Packets, Heard
<1>5. SUFFICES heard' = Times(lead, played'[first].codes) \o tail
  <2>1. EpochStart' = first
    <3>1. EpochStart' = Len(played') - LastPlayed'.index
      BY DEF EpochStart
    <3> QED BY <1>2, <1>4, <3>1
  <2>2. LeadIn(dec_epoch_start)' = lead
    BY <1>3
  <2>3. LastPlayed'.index = p.index
    BY <1>2
  <2> HIDE DEF first, lead
  <2> QED BY <2>1, <2>2, <2>3 DEF HeardIsItsEpoch
<1>6. CASE Reset(p)
  <2>1. p.index = 0 /\ first = n + 1
    BY <1>2, <1>6 DEF WellFormed
  <2>2. tail = <<p.codes>> /\ played'[first].codes = p.codes
    BY <1>2, <2>1
  <2>3. Times(lead, p.codes) \in Seq(Heard)
    BY <1>3, <1>4, TimesType
  <2>4. Times(lead, p.codes) \o <<p.codes>> = Append(Times(lead, p.codes), p.codes)
    BY <1>4, <2>3, AppendIsConcat
  <2>5. Append(Times(lead, p.codes), p.codes) = Times(lead + 1, p.codes)
    BY <1>3, <1>4, TimesAppend
  <2>6. heard' = Times(lead + 1, p.codes)
    BY <1>6, PullHears
  <2> QED BY <2>2, <2>4, <2>5, <2>6
<1>7. CASE ~Reset(p)
  <2>1. /\ played # << >> /\ p.index = LastPlayed.index + 1
        /\ LastPlayed.index \in Nat /\ LastPlayed.index < n
    <3>1. Continues(p) /\ played # << >>
      BY <1>1, <1>7 DEF DecoderInv, AtLastPlayed, Joins, Continues
    <3>2. n # 0 /\ LastPlayed = played[n]
      BY <1>1, <3>1, EmptySeq DEF LastPlayed
    <3> QED BY <1>1, <1>2, <3>1, <3>2, PlayedNumbers DEF DecoderInv, AtLastPlayed, Continues
  <2> DEFINE old == [j \in 1..p.index |-> played[first + j - 1].codes]
  <2>2. first = EpochStart /\ first \in 1..n
    BY <1>2, <2>1 DEF EpochStart
  <2>3. heard = Times(lead, played[first].codes) \o old
    BY <2>1, <2>2 DEF DecoderInv, HeardIsItsEpoch
  <2>4. played'[first].codes = played[first].codes /\ played[first].codes \in Heard
    BY <1>1, <1>2, <2>2, PlayedNumbers DEF Heard
  <2>5. Times(lead, played[first].codes) \in Seq(Heard)
    BY <1>3, <2>4, TimesType
  <2>6. \A j \in 1..p.index : first + j - 1 \in 1..n
    BY <1>2, <1>4, <2>2
  <2>7. old \in Seq(Heard) /\ Len(old) = p.index
    <3>1. \A j \in 1..p.index : played[first + j - 1].codes \in Heard
      BY <1>1, <2>6, PlayedNumbers DEF Heard
    <3> HIDE DEF first
    <3> QED BY <1>4, <3>1
  <2>8. tail = Append(old, p.codes)
    <3>1. \A j \in 1..p.index : tail[j] = old[j]
      BY <1>2, <1>4, <2>6
    <3>2. tail[p.index + 1] = p.codes
      BY <1>2, <1>4
    <3>3. tail \in Seq(Heard) /\ Len(tail) = p.index + 1
      <4>1. \A j \in 1..p.index + 1 : tail[j] \in Heard
        <5>1. \A j \in 1..p.index : old[j] \in Heard
          BY <2>7, ElementOfSeq
        <5>2. \A j \in 1..p.index + 1 : j \in 1..p.index \/ j = p.index + 1
          BY <1>4
        <5> HIDE DEF tail, old
        <5> QED BY <1>4, <3>1, <3>2, <5>1, <5>2
      <4> DEFINE t(j) == played'[first + j - 1].codes
      <4>2. \A j \in 1..p.index + 1 : t(j) \in Heard
        BY <4>1
      <4> HIDE DEF t
      <4>3. [j \in 1..p.index + 1 |-> t(j)] \in Seq(Heard)
            /\ Len([j \in 1..p.index + 1 |-> t(j)]) = p.index + 1
        BY <1>4, <4>2
      <4> QED BY <4>3 DEF t
    <3>4. /\ Append(old, p.codes) \in Seq(Heard)
          /\ Len(Append(old, p.codes)) = p.index + 1
          /\ \A j \in 1..p.index : Append(old, p.codes)[j] = old[j]
          /\ Append(old, p.codes)[p.index + 1] = p.codes
      BY <1>4, <2>7, AppendProperties
    <3> HIDE DEF tail, old
    <3>5. \A j \in 1..Len(tail) : tail[j] = Append(old, p.codes)[j]
      <4>1. \A j \in 1..p.index + 1 : j \in 1..p.index \/ j = p.index + 1
        BY <1>4
      <4> QED BY <3>1, <3>2, <3>3, <3>4, <4>1
    <3> QED BY <3>3, <3>4, <3>5, SeqEqual
  <2> HIDE DEF old, tail, first, lead
  <2>9. heard' = Append(heard, p.codes)
    BY <1>7, PullHears
  <2>10. heard \in Seq(Heard)
    BY DEF DecoderInv, DecoderTypeOK, Heard
  <2>11. heard' = heard \o <<p.codes>>
    BY <1>4, <2>9, <2>10, AppendIsConcat
  <2>12. tail = old \o <<p.codes>>
    BY <1>4, <2>7, <2>8, AppendIsConcat
  <2>13. <<p.codes>> \in Seq(Heard)
    BY <1>4
  <2> QED BY <2>3, <2>4, <2>5, <2>7, <2>11, <2>12, <2>13, ConcatAssociative
<1> QED BY <1>6, <1>7

\* A pull plays one packet.
LEMMA PullPlaysKeepsInv ==
    ASSUME DecoderInv, NEW p \in Packets, WellFormed(p), PullPlays(p)
    PROVE  DecoderInv'
<1>1. /\ played \in Seq(Packets) /\ played' = Append(played, p)
      /\ Joins(p) \/ Continues(p)
      /\ p.index < EpochPackets
  BY DEF DecoderInv, DecoderTypeOK, PullPlays, Considered
<1>2. /\ played' \in Seq(Packets) /\ played' # << >> /\ LastPlayed' = p
      /\ Len(played) \in Nat /\ Len(played') = Len(played) + 1
  BY <1>1, PlayedGrows
<1>3. /\ dec_native' \in NativeType(Heard)
      /\ dec_native'.preroll_packets = LeadIn(dec_epoch_start)
      /\ ~dec_native'.preroll
      /\ heard' = Current(dec_native')
      /\ heard' \in Seq(Heard)
  BY PullHears
<1>4. /\ dec_epoch' = p.epoch /\ dec_next_index' = p.index + 1
      /\ dec_last_pts' = p.pts_ms /\ dec_epoch_start' = dec_epoch_start
  BY DEF PullPlays
<1>5. /\ dec_has_epoch'
      /\ dec_needs_reset' = ("END" \in p.flags \/ p.index + 1 = EpochPackets)
  BY DEF PullPlays
<1>6. p.epoch \in Epochs /\ p.index \in Nat /\ p.pts_ms \in Times64
  BY DEF Packets
<1>7. DecoderTypeOK'
  <2>1. dec_has_epoch' \in BOOLEAN /\ dec_needs_reset' \in BOOLEAN
    BY <1>5 DEF PullPlays
  <2>2. dec_next_index' \in 0..EpochPackets
    BY <1>1, <1>4, <1>6, PacketAssumption
  <2>3. dec_epoch_start' \in Profiles
    BY <1>4 DEF DecoderInv, DecoderTypeOK
  <2> QED BY <1>2, <1>3, <1>4, <1>6, <2>1, <2>2, <2>3 DEF DecoderTypeOK, Heard
<1>8. AtLastPlayed'
  <2>1. p.index < Len(played')
    <3>1. CASE Reset(p)
      BY <1>2, <3>1 DEF WellFormed
    <3>2. CASE ~Reset(p)
      <4>1. p.index = LastPlayed.index + 1 /\ LastPlayed.index < Len(played)
            /\ played # << >>
        BY <1>1, <3>2 DEF DecoderInv, AtLastPlayed, Joins, Continues
      <4>2. LastPlayed.index \in Nat
        BY <1>1, <4>1, PlayedNumbers, EmptySeq, <1>2 DEF LastPlayed
      <4> QED BY <1>2, <4>1, <4>2
    <3> QED BY <3>1, <3>2
  <2> QED BY <1>2, <1>4, <1>5, <2>1 DEF AtLastPlayed
<1>9. Synchronised'
  <2>1. ~dec_needs_reset' => "END" \notin p.flags /\ p.index + 1 # EpochPackets
    BY <1>5
  <2>2. p.index + 1 # EpochPackets => dec_next_index' < EpochPackets
    BY <1>1, <1>4, <1>6, PacketAssumption
  <2>3. (Current(dec_native) = heard)'
    BY <1>3
  <2> QED BY <1>2, <1>3, <1>5, <2>1, <2>2, <2>3 DEF Synchronised
<1>10. PlayedForward' /\ PlayedInOrder'
  BY PullPlaysInOrder
<1>11. HeardIsItsEpoch'
  BY PullPlaysItsEpoch
<1>12. (dec_native.preroll_packets = LeadIn(dec_epoch_start))'
  BY <1>3, <1>4
<1> QED BY <1>7, <1>8, <1>9, <1>10, <1>11, <1>12 DEF DecoderInv

\* A pull that fails or gives the epoch up keeps what was played and heard.
LEMMA PullWithoutPcmKeepsInv ==
    ASSUME DecoderInv, NEW p \in Packets, PullFails(p) \/ PullLosesSync(p)
    PROVE  DecoderInv'
<1>1. /\ dec_native' \in NativeType(Heard)
      /\ dec_native'.preroll_packets = LeadIn(dec_epoch_start)
  <2>1. CASE PullLosesSync(p)
    BY <2>1 DEF PullLosesSync, DecoderInv, DecoderTypeOK, Heard
  <2>2. CASE PullFails(p)
    <3>1. /\ Joins(p) \/ Continues(p)
          /\ dec_native' \in FailedDecode(PullNative(p), p.codes)
      BY <2>2 DEF PullFails
    <3>2. /\ PullNative(p) \in NativeType(Heard)
          /\ PullNative(p).preroll_packets = LeadIn(dec_epoch_start)
          /\ p.codes \in Heard
      BY <3>1, PullRuns
    <3> QED BY <3>1, <3>2, FailedType DEF Heard
  <2> QED BY <2>1, <2>2
<1>2. /\ dec_needs_reset'
      /\ dec_has_epoch' = dec_has_epoch
  BY DEF PullFails, PullLosesSync
<1>3. UNCHANGED <<dec_epoch, dec_next_index, dec_last_pts, dec_epoch_start, played, heard>>
  BY DEF PullFails, PullLosesSync
<1>4. DecoderTypeOK'
  <2>1. dec_has_epoch' \in BOOLEAN /\ dec_needs_reset' \in BOOLEAN
    BY <1>2 DEF DecoderInv, DecoderTypeOK, PullFails, PullLosesSync
  <2> QED BY <1>1, <1>3, <2>1 DEF DecoderInv, DecoderTypeOK, Heard
<1>5. AtLastPlayed'
  BY <1>2, <1>3 DEF DecoderInv, AtLastPlayed, LastPlayed
<1>6. Synchronised'
  BY <1>2 DEF Synchronised
<1>7. PlayedForward' /\ PlayedInOrder' /\ HeardIsItsEpoch'
  BY <1>3
  DEF DecoderInv, PlayedForward, PlayedInOrder, HeardIsItsEpoch, LastPlayed, EpochStart
<1> QED BY <1>1, <1>3, <1>4, <1>5, <1>6, <1>7 DEF DecoderInv

\* A reset forgets the epoch and what was heard in it.
LEMMA ResetDecoderKeepsInv ==
    ASSUME DecoderInv, ResetDecoder
    PROVE  DecoderInv'
<1>1. /\ dec_native' \in NativeType(Heard)
      /\ dec_native'.preroll_packets = dec_native.preroll_packets
  BY ResetFresh DEF ResetDecoder, DecoderInv, DecoderTypeOK, Heard
<1>2. dec_needs_reset' /\ ~dec_has_epoch'
  BY DEF ResetDecoder
<1>3. /\ played' = << >> /\ heard' = << >>
      /\ UNCHANGED <<dec_epoch, dec_next_index, dec_last_pts, dec_epoch_start>>
  BY DEF ResetDecoder
<1>4. Len(played') = 0 /\ played' \in Seq(Packets) /\ heard' \in Seq(Heard)
  BY <1>3, EmptySeq
<1>5. DecoderTypeOK'
  <2>1. dec_has_epoch' \in BOOLEAN /\ dec_needs_reset' \in BOOLEAN
    BY DEF ResetDecoder
  <2> QED BY <1>1, <1>3, <1>4, <2>1 DEF DecoderInv, DecoderTypeOK, Heard
<1>6. AtLastPlayed' /\ Synchronised'
  BY <1>2, <1>3 DEF AtLastPlayed, Synchronised
<1>7. PlayedForward' /\ PlayedInOrder' /\ HeardIsItsEpoch'
  BY <1>3, <1>4 DEF PlayedForward, PlayedInOrder, HeardIsItsEpoch
<1> QED BY <1>1, <1>3, <1>5, <1>6, <1>7 DEF DecoderInv

\* Another profile is selected before the first packet.
LEMMA SelectDecoderProfileKeepsInv ==
    ASSUME DecoderInv, NEW profile \in Profiles, SelectDecoderProfile(profile)
    PROVE  DecoderInv'
<1> DEFINE n == dec_native
           k == LeadIn(profile)
           r == [n EXCEPT !.preroll_packets = k]
<1>1. n \in NativeType(Heard) /\ k \in {0, Preroll}
  BY DEF DecoderInv, DecoderTypeOK, LeadIn, Heard
<1>2. dec_native' = r /\ dec_epoch_start' = profile
  BY DEF SelectDecoderProfile, SetPreroll
<1> HIDE DEF k
<1>3. r \in NativeType(Heard) /\ r.preroll_packets = k
  BY <1>1 DEF NativeType
<1> HIDE DEF r
<1>4. UNCHANGED <<dec_epoch, dec_next_index, dec_last_pts, played, heard>>
      /\ dec_has_epoch' = dec_has_epoch /\ dec_needs_reset' = dec_needs_reset
      /\ ~dec_has_epoch
  BY DEF SelectDecoderProfile
<1>5. DecoderTypeOK'
  BY <1>2, <1>3, <1>4 DEF DecoderInv, DecoderTypeOK, Heard
<1>6. played = << >> /\ dec_needs_reset
  BY <1>4 DEF DecoderInv, AtLastPlayed, Synchronised
<1>7. AtLastPlayed' /\ Synchronised'
  BY <1>4, <1>6 DEF AtLastPlayed, Synchronised
<1>8. PlayedForward' /\ PlayedInOrder' /\ HeardIsItsEpoch'
  BY <1>4, <1>6, EmptySeq DEF DecoderInv, PlayedForward, PlayedInOrder, HeardIsItsEpoch
<1> QED BY <1>2, <1>3, <1>5, <1>7, <1>8 DEF DecoderInv, k

\* Whatever parses may be given to a decoder, in any order.
LEMMA DecoderStepInv ==
    ASSUME DecoderInv, NEW wire, \A p \in wire : p \in Packets /\ WellFormed(p),
           DecoderNext(wire)
    PROVE  DecoderInv'
<1>1. CASE \E profile \in Profiles : SelectDecoderProfile(profile)
  BY <1>1, SelectDecoderProfileKeepsInv
<1>2. CASE ResetDecoder
  BY <1>2, ResetDecoderKeepsInv
<1>3. ASSUME NEW p \in wire, Pull(p) PROVE DecoderInv'
  BY <1>3, PullPlaysKeepsInv, PullWithoutPcmKeepsInv DEF Pull
<1> QED BY <1>1, <1>2, <1>3 DEF DecoderNext

\* A new decoder has played nothing.
LEMMA DecoderInitInv ==
    ASSUME DecoderInit
    PROVE  DecoderInv
<1>1. NativeCreate \in NativeType(Heard) /\ NativeCreate.preroll_packets = 0
  BY CreateFresh DEF NativeCreate
<1>2. played \in Seq(Packets) /\ heard \in Seq(Heard) /\ Len(played) = 0
  BY EmptySeq DEF DecoderInit
<1>3. DecoderTypeOK
  <2>1. 0 \in Epochs /\ 0 \in 0..EpochPackets /\ 0 \in Times64
    BY PacketAssumption DEF Epochs, Times64
  <2>2. dec_has_epoch \in BOOLEAN /\ dec_needs_reset \in BOOLEAN
    BY DEF DecoderInit
  <2>3. "C0" \in Profiles
    BY DEF Profiles
  <2> QED BY <1>1, <1>2, <2>1, <2>2, <2>3 DEF DecoderInit, DecoderTypeOK, Heard
<1>4. AtLastPlayed /\ Synchronised
  BY DEF DecoderInit, AtLastPlayed, Synchronised
<1>5. PlayedForward /\ PlayedInOrder /\ HeardIsItsEpoch
  BY <1>2 DEF DecoderInit, PlayedForward, PlayedInOrder, HeardIsItsEpoch
<1> QED BY <1>1, <1>3, <1>4, <1>5 DEF DecoderInit, DecoderInv, LeadIn
=============================================================================
