--------------------------- MODULE KencEpochStream ---------------------------
(***************************************************************************)
(* The epoch-start runtime of the Python tools (tools/epoch_stream.py):    *)
(* two peers select a profile, by advertisements or by the header of a     *)
(* packet file; one encodes a stream, the other decodes it.  A run of a    *)
(* graph may raise at any call; encode_stream and decode_stream are then   *)
(* called again on the same objects.                                       *)
(*                                                                         *)
(* As in KencNative, the streaming state is the sequence of what was run   *)
(* since it was zeroed.  What a run returns is a function of that sequence *)
(* and stands for it: a code packet is the sequence the encoder had run,   *)
(* an audio packet the sequence of code packets the decoder had run.       *)
(* An advertisement is the set of its bits, and {} for none or 0.          *)
(***************************************************************************)
EXTENDS Integers, Sequences

CONSTANTS Preroll,       \* PREROLL_PACKETS
          EpochPackets,  \* the epoch lengths a caller asks for, 0 for None
          MaxPackets,    \* bound on the length of a stream
          MaxRaises,     \* bound on the runs of a graph that raise
          Margin,        \* packets the lookahead probe keeps after its position
          None           \* _states of an object that was reset

ASSUME EpochStreamAssumption ==
    /\ Preroll \in Nat \ {0}
    /\ EpochPackets \subseteq Nat
    /\ {MaxPackets, MaxRaises} \subseteq Nat
    /\ Margin \in Nat /\ Margin > 4    \* one more than the deepest probe
    /\ None \notin Seq(Nat) \cup Seq(Seq(Nat))

VARIABLES knows,     \* side -> the profile bits its release supports
          bits,      \* side -> its advertisement
          header,    \* of the file, or the empty set: the peers are linked
          profile,   \* side -> the profile it selected
          stage,     \* select, encode, decode, done
          length,    \* packets of the stream
          epoch,     \* epoch_packets
          enc, dec,  \* the StreamEncoder and the StreamDecoder
          coded,     \* what encode_stream has so far
          played,    \* what decode_stream has so far
          raises

vars == <<knows, bits, header, profile, stage, length, epoch, enc, dec, coded,
          played, raises>>

Native == INSTANCE KencNative WITH Junk <- None

-----------------------------------------------------------------------------
Refused == "refused"
Bits == {"c0", "c5r4", "future", "wide"}    \* wide: any bit from 32 on
Marker == [C0 |-> 0, C5R4 |-> 1]
Bit == [C0 |-> "c0", C5R4 |-> "c5r4"]
LeadIn(p) == IF p = "C5R4" THEN Preroll ELSE 0

FromMarker(marker) ==
    IF \E p \in DOMAIN Marker : Marker[p] = marker
    THEN CHOOSE p \in DOMAIN Marker : Marker[p] = marker
    ELSE Refused

Advertisement(profiles) == {Bit["C0"]} \cup {Bit[p] : p \in profiles}

\* Mutant of Negotiate: a peer's own bits are enough.
NegotiatePeerOnly(supported, local, peer) ==
    IF "c0" \notin local \/ ~ local \subseteq supported THEN Refused
    ELSE IF peer = {} THEN "C0"
    ELSE IF "c0" \notin peer \/ "wide" \in peer THEN Refused
    ELSE IF "c5r4" \in peer THEN "C5R4" ELSE "C0"

Negotiate(supported, local, peer) ==
    IF "c0" \notin local \/ ~ local \subseteq supported THEN Refused
    ELSE IF peer = {} THEN "C0"
    ELSE IF "c0" \notin peer \/ "wide" \in peer THEN Refused
    ELSE IF "c5r4" \in local \cap peer THEN "C5R4" ELSE "C0"

\* kenc_epoch_start_negotiate of src/src/context.c.
NegotiateNative(supported, local, peer) ==
    IF \/ "c0" \notin local
       \/ ~ local \subseteq supported
       \/ peer # {} /\ "c0" \notin peer
    THEN Refused
    ELSE IF "c5r4" \in local \cap peer THEN "C5R4" ELSE "C0"

\* Mutant of HeaderProfile: version 1 has no marker, so its byte is not read.
HeaderProfileUnread(h) ==
    IF ~ h.magic \/ h.version \notin {1, 2} THEN Refused
    ELSE IF h.version = 1 THEN "C0"
    ELSE IF FromMarker(h.marker) = "C0" \/ h.kind # 1 THEN Refused
    ELSE FromMarker(h.marker)

HeaderProfile(h) ==
    IF ~ h.magic \/ h.version \notin {1, 2} THEN Refused
    ELSE IF h.version = 1 THEN IF h.marker = 0 THEN "C0" ELSE Refused
    ELSE IF FromMarker(h.marker) = "C0" \/ h.kind # 1 THEN Refused
    ELSE FromMarker(h.marker)

\* The header the native writer gives a mono file.
HeaderOf(p) ==
    [magic |-> TRUE, version |-> Marker[p] + 1, marker |-> Marker[p], kind |-> 1]

\* The same header with one of its fields changed.
Damaged(h) ==
    {[h EXCEPT !.magic = FALSE]}
        \cup {[h EXCEPT !.version = v] : v \in 0..3}
        \cup {[h EXCEPT !.marker = b] : b \in 0..2}
        \cup {[h EXCEPT !.kind = k] : k \in 0..2}

-----------------------------------------------------------------------------
Times(k, frame) == [i \in 1..k |-> frame]
Created(p) == [preroll |-> LeadIn(p), states |-> None]
Reset(object) == [object EXCEPT !.states = None]

\* The states the packet itself is run on: those of the packet before it, or
\* zeroed ones after the lead-in.
Lead(object, packet) ==
    IF object.states = None THEN Times(object.preroll, packet) ELSE object.states

Primed(object, packet) == [object EXCEPT !.states = Lead(object, packet)]

\* StreamEncoder.push and StreamDecoder.pull that return.
Push(object, packet) ==
    [object EXCEPT !.states = Append(Lead(object, packet), packet)]
Pull(object, packet) == Push(object, packet)

\* What they leave when a run raises: in the lead-in, in the run of the packet,
\* or, of an encoder, in the quantizer that follows it.
PushRaises(object, packet) ==
    {object, Primed(object, packet), Push(object, packet)}
PullRaises(object, packet) == {object, Primed(object, packet)}

\* Mutant of EpochStarts: a stream goes on with the state it finds.
EpochStartsAfterFirst(packets, every) ==
    {i \in 0..packets - 1 : every # 0 /\ i > 0 /\ i % every = 0}

EpochStarts(packets, every) ==
    {i \in 0..packets - 1 : i = 0 \/ (every # 0 /\ i % every = 0)}

\* The object that index of a stream of n packets meets.
AtIndex(object, n, every, index) ==
    IF index \in EpochStarts(n, every) THEN Reset(object) ELSE object

\* encode_stream or decode_stream of all packets: the object after each one,
\* and what they return.
Moved(object, packets, every) ==
    LET at[i \in 0..Len(packets)] ==
            IF i = 0 THEN object
            ELSE Push(AtIndex(at[i - 1], Len(packets), every, i - 1), packets[i])
    IN  at

Stream(object, packets, every) ==
    LET at == Moved(object, packets, every)
    IN  [i \in 1..Len(packets) |-> at[i].states]

\* Mutant of Perturbed: one packet fewer is replaced.
PerturbedLate(source, position, depth) ==
    [i \in DOMAIN source |-> IF i > position + depth + 2 THEN 0 ELSE source[i]]

\* The source with noise from packet position + depth + 1 on (counted from 0).
Perturbed(source, position, depth) ==
    [i \in DOMAIN source |-> IF i > position + depth + 1 THEN 0 ELSE source[i]]

\* What the probe renders: the source up to some packets after each position,
\* as it is and with noise at each depth.
Segment(source, p) == SubSeq(source, 1, p + Margin)
Probed(source, probes, depths) ==
    UNION {{Segment(source, p)} \cup {Perturbed(Segment(source, p), p, d) : d \in depths}
              : p \in probes}

\* The output up to the probe does not notice the noise.
Unmoved(render, source, p, depth) ==
    LET segment == Segment(source, p)
    IN  SubSeq(render[segment], 1, p + 1)
            = SubSeq(render[Perturbed(segment, p, depth)], 1, p + 1)

\* The least depth at which no output up to a probe changes, or None.
AddedLookahead(render, source, probes, depths) ==
    LET unmoved == {d \in depths : \A p \in probes : Unmoved(render, source, p, d)}
    IN  IF unmoved = {} THEN None ELSE CHOOSE d \in unmoved : \A e \in unmoved : d <= e

-----------------------------------------------------------------------------
Sides == {"encoder", "decoder"}
OtherSide(s) == IF s = "encoder" THEN "decoder" ELSE "encoder"
Releases == {{}, {"c0"}, {"c0", "c5r4"}, {"c0", "c5r4", "future"}}
Packet(i) == i    \* the audio of packet i, different from noise, which is 0

Init ==
    /\ knows \in [Sides -> Releases]
    /\ bits \in [Sides -> SUBSET Bits]
    /\ \A s \in Sides : bits[s] # {} => knows[s] # {}
    /\ header = {}
    /\ profile = [s \in Sides |-> Refused]
    /\ stage = "select"
    /\ length = 0 /\ epoch = 0
    /\ enc = Created("C0") /\ dec = Created("C0")
    /\ coded = << >> /\ played = << >>
    /\ raises = 0

\* A release from before the profiles negotiates nothing and is C0.
Selected(s) ==
    IF knows[s] = {} THEN "C0" ELSE Negotiate(knows[s], bits[s], bits[OtherSide(s)])

Start ==
    /\ enc' = Created(profile'["encoder"])
    /\ dec' = Created(profile'["decoder"])
    /\ stage' = IF Refused \in {profile'[s] : s \in Sides} THEN "done" ELSE "encode"
    /\ length' \in 0..MaxPackets
    /\ epoch' \in EpochPackets
    /\ UNCHANGED <<knows, bits, coded, played, raises>>

\* Both ends of a link negotiate.
SelectByLink ==
    /\ stage = "select"
    /\ profile' = [s \in Sides |-> Selected(s)]
    /\ Start
    /\ UNCHANGED header

\* A native writer selects, and the header of its file says what.
SelectByFile ==
    /\ stage = "select" /\ \A s \in Sides : knows[s] = {}
    /\ \E p \in DOMAIN Marker : \E h \in {HeaderOf(p)} \cup Damaged(HeaderOf(p)) :
          /\ header' = {h}
          /\ profile' = [encoder |-> p, decoder |-> HeaderProfile(h)]
    /\ Start

Encode ==
    /\ stage = "encode" /\ Len(coded) < length
    /\ enc' = Push(AtIndex(enc, length, epoch, Len(coded)), Packet(Len(coded) + 1))
    /\ coded' = Append(coded, enc'.states)
    /\ UNCHANGED <<knows, bits, header, profile, stage, length, epoch, dec, played, raises>>

EncodeRaises ==
    /\ stage = "encode" /\ Len(coded) < length /\ raises < MaxRaises
    /\ enc' \in PushRaises(AtIndex(enc, length, epoch, Len(coded)), Packet(Len(coded) + 1))
    /\ coded' = << >>
    /\ raises' = raises + 1
    /\ UNCHANGED <<knows, bits, header, profile, stage, length, epoch, dec, played>>

\* encode_stream returns; a stream without a whole packet is an error.
Encoded ==
    /\ stage = "encode" /\ Len(coded) = length
    /\ stage' = IF length = 0 THEN "done" ELSE "decode"
    /\ UNCHANGED <<knows, bits, header, profile, length, epoch, enc, dec, coded,
                   played, raises>>

Decode ==
    /\ stage = "decode" /\ Len(played) < length
    /\ dec' = Pull(AtIndex(dec, length, epoch, Len(played)), coded[Len(played) + 1])
    /\ played' = Append(played, dec'.states)
    /\ UNCHANGED <<knows, bits, header, profile, stage, length, epoch, enc, coded, raises>>

DecodeRaises ==
    /\ stage = "decode" /\ Len(played) < length /\ raises < MaxRaises
    /\ dec' \in PullRaises(AtIndex(dec, length, epoch, Len(played)), coded[Len(played) + 1])
    /\ played' = << >>
    /\ raises' = raises + 1
    /\ UNCHANGED <<knows, bits, header, profile, stage, length, epoch, enc, coded>>

Decoded ==
    /\ stage = "decode" /\ Len(played) = length
    /\ stage' = "done"
    /\ UNCHANGED <<knows, bits, header, profile, length, epoch, enc, dec, coded,
                   played, raises>>

Next ==
    \/ SelectByLink \/ SelectByFile
    \/ Encode \/ EncodeRaises \/ Encoded
    \/ Decode \/ DecodeRaises \/ Decoded

Spec == Init /\ [][Next]_vars

-----------------------------------------------------------------------------
\* Two linked peers that both select a profile select the same one, whatever
\* releases they are of, and each one what the native runtime would select;
\* advertisements made by the code are never refused.
SidesAgree ==
    stage # "select" /\ header = {} =>
        /\ Refused \notin {profile[s] : s \in Sides}
              => profile["encoder"] = profile["decoder"]
        /\ \A s \in Sides :
              knows[s] # {} /\ "wide" \notin bits[OtherSide(s)] =>
                  profile[s] = NegotiateNative(knows[s], bits[s], bits[OtherSide(s)])
        /\ (\A s \in Sides : knows[s] # {} =>
                \E ps \in SUBSET DOMAIN Marker :
                    /\ \A p \in ps : Bit[p] \in knows[s]
                    /\ bits[s] = Advertisement(ps))
              => Refused \notin {profile[s] : s \in Sides}

\* A header of which one field is not what the writer wrote is refused, or it
\* still names the writer's profile: it never names another one.
NoDamageMisleads ==
    header # {} => profile["decoder"] \in {Refused, profile["encoder"]}

\* Packet i, counted from 1, is the first of an epoch.
Boundary(i, every) == i = 1 \/ (every # 0 /\ (i - 1) % every = 0)

\* A native stream of the profile, after each of the packets: it is reset at
\* each epoch start.
Natives(p, packets, every) ==
    LET at[i \in 0..Len(packets)] ==
            IF i = 0 THEN Native!SetPreroll(Native!NativeCreate, Native!LeadIn(p))
            ELSE Native!RunFrame(
                     IF Boundary(i, every)
                     THEN Native!NativeReset(at[i - 1]) ELSE at[i - 1],
                     packets[i])
    IN  at

\* What it runs.
NativeStream(p, packets, every) ==
    LET at == Natives(p, packets, every)
    IN  [i \in 1..Len(packets) |-> Native!Current(at[i])]

\* The tools verify the runtime that is shipped: packet by packet the codes and
\* the audio are those of a native stream of the same profile, also after runs
\* that raised anywhere, before on the same objects.
AsTheNativeStream ==
    stage # "select" /\ Refused \notin {profile[s] : s \in Sides} =>
        /\ coded = NativeStream(profile["encoder"], [i \in 1..Len(coded) |-> Packet(i)], epoch)
        /\ played = NativeStream(profile["decoder"], SubSeq(coded, 1, Len(played)), epoch)

\* A rendering that looks ahead by d packets.
Ahead(audio, d) ==
    [a \in audio |-> [i \in DOMAIN a |-> IF i + d \in DOMAIN a THEN a[i + d] ELSE 0]]

\* The probe measures what it says, on a rendering that looks ahead by d
\* packets, and encoding and decoding an epoch stream adds no lookahead.
LookaheadIsMeasured ==
    stage = "done" /\ played # << >> =>
        LET source == [i \in 1..MaxPackets + Margin |-> Packet(i)]
            probes == 0..MaxPackets
            depths == 0..3
            audio == Probed(source, probes, depths)
            streamed ==
                [a \in audio |->
                    Stream(Reset(dec), Stream(Reset(enc), a, epoch), epoch)]
            Measured(render) == AddedLookahead(render, source, probes, depths)
        IN  /\ Measured(streamed) = 0
            /\ \A d \in 1..3 : Measured(Ahead(audio, d)) = d
            /\ Measured(Ahead(audio, 4)) = None
-----------------------------------------------------------------------------
\* What holds between any two steps: what a side knows and advertises is fixed,
\* and a profile is selected once, by the link or by the header of a file.
SelectionStands ==
    /\ knows \in [Sides -> Releases] /\ bits \in [Sides -> SUBSET Bits]
    /\ \A s \in Sides : bits[s] # {} => knows[s] # {}
    /\ stage = "select" => header = {}

SelectionInv == SelectionStands /\ SidesAgree /\ NoDamageMisleads

\* A stream packet by packet: at the start of an epoch a packet is run on the
\* lead-in, and every other one on what the packet before it was run on.
Continues(out, packets, p, every) ==
    \A i \in DOMAIN out :
        out[i] = IF Boundary(i, every) THEN Times(LeadIn(p) + 1, packets[i])
                 ELSE Append(out[i - 1], packets[i])

\* What one end has put out so far: it stands behind its last packet, and so the
\* next one goes on from there; what it held when it began does not matter.
EndStands(object, out, packets, p) ==
    /\ object.preroll = LeadIn(p)
    /\ out # << >> => object.states = out[Len(out)]
    /\ Continues(out, packets, p, epoch)

EndType(Frame) == [preroll : Nat, states : {None} \cup Seq(Frame)]
EpochTypeOK ==
    /\ stage \in {"select", "encode", "decode", "done"}
    /\ profile \in [Sides -> DOMAIN Marker \cup {Refused}]
    /\ length \in Nat /\ epoch \in Nat
    /\ enc \in EndType(Nat) /\ dec \in EndType(Seq(Nat))
    /\ coded \in Seq(Seq(Nat)) /\ played \in Seq(Seq(Seq(Nat)))

EpochInv ==
    /\ EpochTypeOK
    /\ Len(coded) <= length /\ Len(played) <= Len(coded)
    /\ stage = "select" => coded = << >>
    /\ stage \in {"select", "encode"} => played = << >>
    /\ stage = "decode" => Len(coded) = length
    /\ EndStands(enc, coded, [i \in 1..Len(coded) |-> Packet(i)], profile["encoder"])
    /\ EndStands(dec, played, coded, profile["decoder"])
=============================================================================
