----------------------------- MODULE KencNative -----------------------------
(***************************************************************************)
(* The streaming state of one kenc_native_stream (src/src/onnx.c): twelve  *)
(* tensors held twice, in two banks.  A network run reads the current bank *)
(* and writes the other one; the banks change places only when the caller  *)
(* accepts the run.                                                        *)
(*                                                                         *)
(* The tensors are a function of what was run since they were zeroed, so a *)
(* bank holds exactly that: the sequence of the frames run.  Two streams   *)
(* that hold the same sequence compute the same thing.  A run that fails   *)
(* half way leaves tensors that no sequence of frames yields: <<Junk>>.    *)
(***************************************************************************)
EXTENDS Integers, Sequences

CONSTANTS Preroll,   \* KENC_PREROLL_PACKETS
          Junk       \* what a failed run leaves, different from every frame

ASSUME PrerollAssumption == Preroll \in Nat \ {0}

Banks == 0..1
Other(bank) == 1 - bank

\* The epoch-start profiles, and the lead-in each one asks for.
Profiles == {"C0", "C5R4"}
LeadIn(profile) == IF profile = "C5R4" THEN Preroll ELSE 0

Zeroed == [b \in Banks |-> << >>]

NativeCreate ==
    [states |-> Zeroed, bank |-> 0, preroll |-> TRUE, preroll_packets |-> 0]

NativeReset(n) ==
    [n EXCEPT !.states = Zeroed, !.bank = 0, !.preroll = TRUE]

SetPreroll(n, packets) == [n EXCEPT !.preroll_packets = packets]

\* What the next run reads.
Current(n) == n.states[n.bank]

\* frame, run k times.
Times(k, frame) == [i \in 1..k |-> frame]

\* k lead-in runs: each one reads a bank, writes the other and toggles.
LeadInRuns(n, k, frame) ==
    IF k = 0 THEN n
    ELSE LET last == (n.bank + k) % 2
         IN  [n EXCEPT
                !.states = [b \in Banks |->
                    Current(n) \o Times(IF b = last THEN k ELSE k - 1, frame)],
                !.bank = last]

\* preroll(), run to its end by the first frame of an epoch.
Primed(n, frame) ==
    IF n.preroll
    THEN [LeadInRuns(n, n.preroll_packets, frame) EXCEPT !.preroll = FALSE]
    ELSE n

\* The network run of a frame, before the caller has accepted its result ...
NetworkRun(n, frame) ==
    [n EXCEPT !.states = [b \in Banks |->
        IF b = n.bank THEN Current(n) ELSE Append(Current(n), frame)]]

\* ... and after: kenc_native_encode and kenc_native_decode returning KENC_OK.
RunFrame(n, frame) ==
    LET run == NetworkRun(Primed(n, frame), frame)
    IN  [run EXCEPT !.bank = Other(run.bank)]

\* RunWithBinding failed: the bank it was writing is not to be trusted.
Spoiled(n) ==
    [n EXCEPT !.states = [b \in Banks |->
        IF b = n.bank THEN Current(n) ELSE <<Junk>>]]

\* The streams an unsuccessful encode or decode can leave: a lead-in run fails
\* (the flag stays set), the network run fails, or a later step refuses its
\* result (the quantizer, a token out of range, a sample that is not finite).
FailedInLeadIn(n, frame) ==
    IF n.preroll
    THEN {Spoiled(LeadInRuns(n, k, frame)) : k \in 0..(n.preroll_packets - 1)}
    ELSE {}

FailedEncode(n, frame) ==
    FailedInLeadIn(n, frame)
        \cup {Spoiled(Primed(n, frame)), NetworkRun(Primed(n, frame), frame)}

\* A decode runs the quantizer first, and that may already fail.
FailedDecode(n, frame) == FailedEncode(n, frame) \cup {n}

-----------------------------------------------------------------------------
\* The shape of a native stream over the frames of Frame.
NativeType(Frame) ==
    [states : [Banks -> Seq(Frame)], bank : Banks, preroll : BOOLEAN,
     preroll_packets : {0, Preroll}]

\* A stream as kenc_native_reset leaves it.
Fresh(n) == n.states = Zeroed /\ n.bank = 0 /\ n.preroll
=============================================================================
