-------------------------- MODULE KencNativeProofs --------------------------
(*****************************************************************************)
(* What the operators of KencNative keep and compute, for every length of    *)
(* the lead-in; and what counting along a stream or a file rests on.  The    *)
(* proofs about streams and files cite these lemmas.                         *)
(*****************************************************************************)
EXTENDS KencNative, SequenceTheorems, WellFoundedInduction, TLAPS

-----------------------------------------------------------------------------
(* Counting *)

\* A set of numbers has a least one.
LEMMA LeastNumber ==
    ASSUME NEW T \in SUBSET Nat, T # {} PROVE \E n \in T : \A m \in T : n <= m
<1>1. PICK x \in T : \A y \in T : ~ (<<y, x>> \in OpToRel(<, Nat))
  BY WFMin, NatLessThanWellFounded
<1>2. \A y \in T : ~ (y < x)
  BY <1>1 DEF OpToRel
<1> QED BY <1>2

\* What holds of 0, and of n + 1 when of n, holds of every number up to R.
LEMMA UpTo ==
    ASSUME NEW R \in Nat, NEW P \in SUBSET Nat, 0 \in P,
           \A n \in 0..R - 1 : n \in P => n + 1 \in P
    PROVE  \A n \in 0..R : n \in P
<1> DEFINE T == {n \in 0..R : n \notin P}
<1>1. SUFFICES ASSUME T # {} PROVE FALSE
  OBVIOUS
<1>2. PICK n \in T : \A m \in T : n <= m
  <2>1. T \in SUBSET Nat
    OBVIOUS
  <2> HIDE DEF T
  <2> QED BY <1>1, <2>1, LeastNumber
<1>3. n # 0 /\ n - 1 \in 0..R - 1
  BY <1>2
<1>4. n - 1 \notin T
  BY <1>2, <1>3
<1>5. n - 1 \in P
  BY <1>3, <1>4
<1>6. n - 1 + 1 \in P
  BY <1>3, <1>5
<1> QED BY <1>2, <1>6

\* A step for every value gives a value for every number up to n.
LEMMA Steps ==
    ASSUME NEW S, NEW a \in S, NEW n \in Nat, NEW G \in [1..n -> [S -> S]]
    PROVE  \E h \in [0..n -> S] :
               h[0] = a /\ \A i \in 1..n : h[i] = G[i][h[i - 1]]
<1> DEFINE Is(h, m) == /\ h \in [0..m -> S] /\ h[0] = a
                       /\ \A i \in 1..m : h[i] = G[i][h[i - 1]]
           P == {m \in Nat : \E h : Is(h, m)}
<1>1. 0 \in P
  <2> DEFINE h == [i \in 0..0 |-> a]
  <2>1. h \in [0..0 -> S] /\ h[0] = a
    OBVIOUS
  <2>2. Is(h, 0)
    BY <2>1
  <2> QED BY <2>2
<1>2. ASSUME NEW m \in 0..n - 1, m \in P PROVE m + 1 \in P
  <2>1. PICK h : Is(h, m)
    BY <1>2
  <2> DEFINE g == [i \in 0..m + 1 |-> IF i = m + 1 THEN G[m + 1][h[m]] ELSE h[i]]
  <2>2. h[m] \in S /\ m + 1 \in 1..n /\ 0 # m + 1
    <3>1. m \in Nat /\ m \in 0..m
      OBVIOUS
    <3> QED BY <2>1, <3>1
  <2>3. G[m + 1][h[m]] \in S
    BY <2>2
  <2>4. \A i \in 0..m : h[i] \in S
    BY <2>1
  <2>5. \A i \in 0..m + 1 : i # m + 1 => i \in 0..m
    OBVIOUS
  <2>6. g \in [0..m + 1 -> S]
    BY <2>3, <2>4, <2>5
  <2>7. g[m + 1] = G[m + 1][h[m]]
    OBVIOUS
  <2>11. \A i \in 0..m : g[i] = h[i]
    <3>1. \A i \in 0..m : i \in 0..m + 1 /\ i # m + 1
      OBVIOUS
    <3> QED BY <3>1
  <2> HIDE DEF g
  <2>8. g[0] = a
    BY <2>1, <2>11
  <2>9. ASSUME NEW i \in 1..m + 1 PROVE g[i] = G[i][g[i - 1]]
    <3>1. CASE i = m + 1
      <4>1. i - 1 = m /\ m \in 0..m
        BY <3>1
      <4> QED BY <3>1, <4>1, <2>7, <2>11
    <3>2. CASE i # m + 1
      <4>1. i \in 1..m /\ i \in 0..m /\ i - 1 \in 0..m
        BY <3>2
      <4> QED BY <4>1, <2>1, <2>11
    <3> QED BY <3>1, <3>2
  <2>10. Is(g, m + 1)
    BY <2>6, <2>8, <2>9
  <2> HIDE DEF Is, g
  <2>12. m + 1 \in Nat
    OBVIOUS
  <2> QED BY <2>10, <2>12
<1>3. n \in P
  <2>1. P \in SUBSET Nat
    OBVIOUS
  <2> HIDE DEF P
  <2>2. \A m \in 0..n : m \in P
    BY <1>1, <1>2, <2>1, UpTo
  <2> QED BY <2>2
<1> QED BY <1>3

-----------------------------------------------------------------------------
(* The native stream *)

\* Running a frame k times appends k frames.
LEMMA TimesType ==
    ASSUME NEW Frame, NEW f \in Frame, NEW k \in Nat
    PROVE  /\ Times(k, f) \in Seq(Frame)
           /\ Len(Times(k, f)) = k
           /\ \A i \in 1..k : Times(k, f)[i] = f
  BY DEF Times

\* One frame behind a lead-in of k is the frame k + 1 times.
LEMMA TimesAppend ==
    ASSUME NEW Frame, NEW f \in Frame, NEW k \in Nat
    PROVE  Append(Times(k, f), f) = Times(k + 1, f)
<1>1. Times(k, f) \in Seq(Frame) /\ Len(Times(k, f)) = k
  BY TimesType
<1>2. Times(k + 1, f) \in Seq(Frame) /\ Len(Times(k + 1, f)) = k + 1
      /\ \A i \in 1..k + 1 : Times(k + 1, f)[i] = f
  BY TimesType
<1>3. /\ Append(Times(k, f), f) \in Seq(Frame)
      /\ Len(Append(Times(k, f), f)) = k + 1
      /\ \A i \in 1..k + 1 : Append(Times(k, f), f)[i] = f
  <2>1. /\ Append(Times(k, f), f) \in Seq(Frame)
        /\ Len(Append(Times(k, f), f)) = k + 1
        /\ \A i \in 1..k : Append(Times(k, f), f)[i] = Times(k, f)[i]
        /\ Append(Times(k, f), f)[k + 1] = f
    BY <1>1, AppendProperties
  <2>2. \A i \in 1..k : Times(k, f)[i] = f
    BY TimesType
  <2>3. \A i \in 1..k + 1 : i \in 1..k \/ i = k + 1
    OBVIOUS
  <2> QED BY <2>1, <2>2, <2>3
<1> QED
  BY <1>2, <1>3, SeqEqual

\* Nothing before a sequence leaves the sequence.
LEMMA EmptyConcat ==
    ASSUME NEW Frame, NEW s \in Seq(Frame)
    PROVE  << >> \o s = s
  OBVIOUS

\* Changing fields of a native stream keeps its shape.
LEMMA Update ==
    ASSUME NEW S, NEW B, NEW P, NEW K,
           NEW n \in [states : S, bank : B, preroll : P, preroll_packets : K],
           NEW s \in S, NEW b \in B, NEW p \in P
    PROVE  /\ [n EXCEPT !.states = s, !.bank = b, !.preroll = p]
                 \in [states : S, bank : B, preroll : P, preroll_packets : K]
           /\ [n EXCEPT !.states = s, !.bank = b]
                 \in [states : S, bank : B, preroll : P, preroll_packets : K]
           /\ [n EXCEPT !.states = s]
                 \in [states : S, bank : B, preroll : P, preroll_packets : K]
           /\ [n EXCEPT !.preroll = p]
                 \in [states : S, bank : B, preroll : P, preroll_packets : K]
  OBVIOUS

\* The created stream and the reset one are well formed; the reset is fresh
\* whatever was in the banks, and keeps the lead-in length.
LEMMA CreateFresh ==
    ASSUME NEW Frame
    PROVE  NativeCreate \in NativeType(Frame) /\ Fresh(NativeCreate)
  BY EmptySeq, PrerollAssumption DEF NativeCreate, NativeType, Fresh, Zeroed, Banks

\* A reset stream is a new one.
LEMMA ResetFresh ==
    ASSUME NEW Frame, NEW n \in NativeType(Frame)
    PROVE  /\ NativeReset(n) \in NativeType(Frame)
           /\ Fresh(NativeReset(n))
           /\ NativeReset(n).preroll_packets = n.preroll_packets
<1>1. Zeroed \in [Banks -> Seq(Frame)] /\ 0 \in Banks
  BY EmptySeq DEF Zeroed, Banks
<1>2. NativeReset(n) \in NativeType(Frame)
  <2> DEFINE S == [Banks -> Seq(Frame)]
             B == BOOLEAN
             K == {0, Preroll}
             T == TRUE
  <2>1. Zeroed \in S /\ 0 \in Banks /\ T \in B
    BY <1>1
  <2>2. n \in [states : S, bank : Banks, preroll : B, preroll_packets : K]
    BY DEF NativeType
  <2>3. SUFFICES [n EXCEPT !.states = Zeroed, !.bank = 0, !.preroll = T]
                   \in [states : S, bank : Banks, preroll : B, preroll_packets : K]
    BY DEF NativeReset, NativeType
  <2> HIDE DEF S, B, K, T
  <2> QED BY <2>1, <2>2, Update
<1>3. NativeReset(n).states = Zeroed /\ NativeReset(n).bank = 0
  BY DEF NativeReset, NativeType
<1>4. NativeReset(n).preroll
  BY DEF NativeReset, NativeType
<1>5. NativeReset(n).preroll_packets = n.preroll_packets
  BY DEF NativeReset, NativeType
<1> QED BY <1>2, <1>3, <1>4, <1>5 DEF Fresh

\* Lead-in runs: the current bank ends with k copies of the frame.
LEMMA LeadInRunsType ==
    ASSUME NEW Frame, NEW n \in NativeType(Frame), NEW f \in Frame, NEW k \in Nat
    PROVE  /\ LeadInRuns(n, k, f) \in NativeType(Frame)
           /\ LeadInRuns(n, k, f).preroll = n.preroll
           /\ LeadInRuns(n, k, f).preroll_packets = n.preroll_packets
           /\ k = 0 => Current(LeadInRuns(n, k, f)) = Current(n)
           /\ k # 0 => Current(LeadInRuns(n, k, f)) = Current(n) \o Times(k, f)
<1>1. Current(n) \in Seq(Frame)
  BY DEF Current, NativeType
<1>2. CASE k = 0
  BY <1>2 DEF LeadInRuns
<1>3. CASE k # 0
  <2> DEFINE last == (n.bank + k) % 2
             s(b) == Current(n) \o Times(IF b = last THEN k ELSE k - 1, f)
             states == [b \in Banks |-> s(b)]
             r == [n EXCEPT !.states = states, !.bank = last]
  <2>1. last \in Banks
    BY DEF Banks, NativeType
  <2>2. \A b \in Banks : s(b) \in Seq(Frame)
    <3>1. Times(k, f) \in Seq(Frame) /\ Times(k - 1, f) \in Seq(Frame)
      BY <1>3, TimesType
    <3> QED BY <3>1, <1>1
  <2>3. LeadInRuns(n, k, f) = r
    BY <1>3 DEF LeadInRuns
  <2>4. s(last) = Current(n) \o Times(k, f)
    OBVIOUS
  <2> HIDE DEF s, last
  <2>5. states \in [Banks -> Seq(Frame)] /\ states[last] = s(last)
    BY <2>1, <2>2
  <2> HIDE DEF states
  <2>6. r \in NativeType(Frame)
    BY <2>1, <2>5, Update DEF NativeType
  <2>7. /\ r.states = states /\ r.bank = last
        /\ r.preroll_packets = n.preroll_packets
    BY DEF NativeType
  <2>8. r.preroll = n.preroll
    BY DEF NativeType
  <2> HIDE DEF r
  <2> QED
    BY <1>3, <2>3, <2>4, <2>5, <2>6, <2>7, <2>8 DEF Current
<1> QED BY <1>2, <1>3

\* preroll() clears the flag; on a fresh stream the lead-in is all there is.
LEMMA PrimedType ==
    ASSUME NEW Frame, NEW n \in NativeType(Frame), NEW f \in Frame
    PROVE  /\ Primed(n, f) \in NativeType(Frame)
           /\ ~Primed(n, f).preroll
           /\ Primed(n, f).preroll_packets = n.preroll_packets
           /\ Fresh(n) => Current(Primed(n, f)) = Times(n.preroll_packets, f)
           /\ ~n.preroll => Primed(n, f) = n
<1> DEFINE k == n.preroll_packets
           run == LeadInRuns(n, k, f)
           r == [run EXCEPT !.preroll = FALSE]
<1>1. k \in Nat
  BY PrerollAssumption DEF NativeType
<1>2. /\ run \in NativeType(Frame)
      /\ run.preroll_packets = k
      /\ k = 0 => Current(run) = Current(n)
      /\ k # 0 => Current(run) = Current(n) \o Times(k, f)
  BY <1>1, LeadInRunsType
<1>3. CASE ~n.preroll
  <2>1. Primed(n, f) = n
    BY <1>3 DEF Primed
  <2> QED BY <2>1, <1>3 DEF Fresh
<1>4. CASE n.preroll
  <2>1. Primed(n, f) = r
    BY <1>4 DEF Primed
  <2> HIDE DEF run
  <2>2. r \in NativeType(Frame)
    <3> DEFINE S == [Banks -> Seq(Frame)]
               B == BOOLEAN
               K == {0, Preroll}
               F == FALSE
    <3>1. F \in B
      OBVIOUS
    <3>2. run \in [states : S, bank : Banks, preroll : B, preroll_packets : K]
      BY <1>2 DEF NativeType
    <3>3. SUFFICES [run EXCEPT !.preroll = F]
                     \in [states : S, bank : Banks, preroll : B, preroll_packets : K]
      BY DEF NativeType
    <3> HIDE DEF S, B, K, F
    <3> QED BY <3>1, <3>2, Update
  <2>3. r.preroll_packets = k /\ r.states = run.states /\ r.bank = run.bank
    BY <1>2 DEF NativeType
  <2>4. ~r.preroll
    BY <1>2 DEF NativeType
  <2>5. Current(r) = Current(run)
    BY <2>3 DEF Current
  <2>6. ASSUME Fresh(n) PROVE Current(run) = Times(k, f)
    <3>1. Current(n) = << >>
      BY <2>6 DEF Fresh, Current, Zeroed, Banks
    <3>2. CASE k = 0
      <4>1. Times(k, f) \in Seq(Frame) /\ Len(Times(k, f)) = 0
        BY <3>2, <1>1, TimesType
      <4>2. Times(k, f) = << >>
        BY <4>1, EmptySeq
      <4> QED BY <4>2, <3>1, <3>2, <1>2
    <3>3. CASE k # 0
      BY <3>1, <3>3, <1>1, <1>2, TimesType, EmptyConcat
    <3> QED BY <3>2, <3>3
  <2> HIDE DEF k, r
  <2> QED BY <1>4, <2>1, <2>2, <2>3, <2>4, <2>5, <2>6 DEF k
<1> QED BY <1>3, <1>4 DEF NativeType

\* A network run leaves the current bank alone, and its caller gets the next
\* history from the other one.
LEMMA NetworkRunType ==
    ASSUME NEW Frame, NEW n \in NativeType(Frame), NEW f \in Frame
    PROVE  /\ NetworkRun(n, f) \in NativeType(Frame)
           /\ NetworkRun(n, f).preroll = n.preroll
           /\ NetworkRun(n, f).preroll_packets = n.preroll_packets
           /\ NetworkRun(n, f).bank = n.bank
           /\ NetworkRun(n, f).states[Other(n.bank)] = Append(Current(n), f)
<1> DEFINE states == [b \in Banks |->
                        IF b = n.bank THEN Current(n) ELSE Append(Current(n), f)]
           r == [n EXCEPT !.states = states]
<1>1. Current(n) \in Seq(Frame) /\ Append(Current(n), f) \in Seq(Frame)
  BY AppendProperties DEF Current, NativeType
<1>2. n.bank \in Banks /\ Other(n.bank) \in Banks /\ Other(n.bank) # n.bank
  BY DEF NativeType, Banks, Other
<1>3. states \in [Banks -> Seq(Frame)] /\ states[Other(n.bank)] = Append(Current(n), f)
  BY <1>1, <1>2
<1>4. NetworkRun(n, f) = r
  BY DEF NetworkRun
<1> HIDE DEF states
<1>5. r \in NativeType(Frame)
  BY <1>3, Update DEF NativeType
<1>6. /\ r.states = states /\ r.bank = n.bank
      /\ r.preroll_packets = n.preroll_packets
  BY DEF NativeType
<1>7. r.preroll = n.preroll
  BY DEF NativeType
<1> QED BY <1>3, <1>4, <1>5, <1>6, <1>7

\* An accepted run: on a fresh stream it hears the lead-in and the frame, on a
\* primed one it appends the frame to what was heard.
LEMMA RunFrameType ==
    ASSUME NEW Frame, NEW n \in NativeType(Frame), NEW f \in Frame
    PROVE  /\ RunFrame(n, f) \in NativeType(Frame)
           /\ ~RunFrame(n, f).preroll
           /\ RunFrame(n, f).preroll_packets = n.preroll_packets
           /\ Fresh(n) => Current(RunFrame(n, f)) = Times(n.preroll_packets + 1, f)
           /\ ~n.preroll => Current(RunFrame(n, f)) = Append(Current(n), f)
<1> DEFINE p == Primed(n, f)
           run == NetworkRun(p, f)
           r == [run EXCEPT !.bank = Other(run.bank)]
<1>1. p \in NativeType(Frame) /\ ~p.preroll /\ p.preroll_packets = n.preroll_packets
  BY PrimedType
<1>2. /\ Fresh(n) => Current(p) = Times(n.preroll_packets, f)
      /\ ~n.preroll => p = n
  BY PrimedType
<1> HIDE DEF p
<1>3. /\ run \in NativeType(Frame)
      /\ run.preroll_packets = p.preroll_packets
      /\ run.bank = p.bank
      /\ run.states[Other(p.bank)] = Append(Current(p), f)
  BY <1>1, NetworkRunType
<1>4. run.preroll = p.preroll
  BY <1>1, NetworkRunType
<1>5. RunFrame(n, f) = r
  BY DEF RunFrame, p
<1> HIDE DEF run
<1>6. Other(run.bank) \in Banks
  BY <1>3 DEF NativeType, Banks, Other
<1>7. r \in NativeType(Frame)
  BY <1>3, <1>6 DEF NativeType
<1>8. /\ r.states = run.states /\ r.bank = Other(run.bank)
      /\ r.preroll_packets = run.preroll_packets
  BY <1>3 DEF NativeType
<1>9. r.preroll = run.preroll
  BY <1>3 DEF NativeType
<1>10. Current(r) = Append(Current(p), f)
  BY <1>3, <1>8 DEF Current
<1>11. n.preroll_packets \in Nat
  BY PrerollAssumption DEF NativeType
<1>12. Append(Times(n.preroll_packets, f), f) = Times(n.preroll_packets + 1, f)
  BY <1>11, TimesAppend
<1> HIDE DEF r
<1>13. Fresh(n) => Current(r) = Times(n.preroll_packets + 1, f)
  BY <1>2, <1>10, <1>12
<1>14. ~n.preroll => Current(r) = Append(Current(n), f)
  BY <1>2, <1>10
<1>15. ~r.preroll /\ r.preroll_packets = n.preroll_packets
  BY <1>1, <1>3, <1>4, <1>8, <1>9
<1> QED BY <1>5, <1>7, <1>13, <1>14, <1>15

\* Whatever a failed run leaves has the shape of a stream, and keeps its
\* lead-in length: a later reset finds nothing else to repair.
LEMMA SpoiledType ==
    ASSUME NEW Frame, Junk \in Frame, NEW n \in NativeType(Frame)
    PROVE  /\ Spoiled(n) \in NativeType(Frame)
           /\ Spoiled(n).preroll_packets = n.preroll_packets
<1> DEFINE states == [b \in Banks |-> IF b = n.bank THEN Current(n) ELSE <<Junk>>]
           r == [n EXCEPT !.states = states]
<1>1. Current(n) \in Seq(Frame) /\ <<Junk>> \in Seq(Frame)
  BY DEF Current, NativeType
<1>2. states \in [Banks -> Seq(Frame)]
  BY <1>1
<1>3. Spoiled(n) = r
  BY DEF Spoiled
<1> HIDE DEF states
<1>4. r \in NativeType(Frame)
  BY <1>2, Update DEF NativeType
<1>5. r.preroll_packets = n.preroll_packets
  BY DEF NativeType
<1> QED BY <1>3, <1>4, <1>5

\* A failed call leaves a stream of the same kind.
LEMMA FailedType ==
    ASSUME NEW Frame, Junk \in Frame, NEW n \in NativeType(Frame), NEW f \in Frame
    PROVE  /\ \A e \in FailedEncode(n, f) :
                  e \in NativeType(Frame) /\ e.preroll_packets = n.preroll_packets
           /\ \A e \in FailedDecode(n, f) :
                  e \in NativeType(Frame) /\ e.preroll_packets = n.preroll_packets
<1> DEFINE Good(e) == e \in NativeType(Frame) /\ e.preroll_packets = n.preroll_packets
<1>1. ASSUME NEW k \in 0..(n.preroll_packets - 1)
      PROVE  Good(Spoiled(LeadInRuns(n, k, f)))
  <2>1. k \in Nat
    BY PrerollAssumption DEF NativeType
  <2>2. Good(LeadInRuns(n, k, f))
    BY <2>1, LeadInRunsType
  <2> QED BY <2>2, SpoiledType
<1>2. \A e \in FailedInLeadIn(n, f) : Good(e)
  BY <1>1 DEF FailedInLeadIn
<1>3. Good(Primed(n, f))
  BY PrimedType
<1>4. Good(Spoiled(Primed(n, f))) /\ Good(NetworkRun(Primed(n, f), f))
  BY <1>3, SpoiledType, NetworkRunType
<1>5. \A e \in FailedEncode(n, f) : Good(e)
  BY <1>2, <1>4 DEF FailedEncode
<1>6. \A e \in FailedDecode(n, f) : Good(e)
  BY <1>5 DEF FailedDecode
<1> QED BY <1>5, <1>6
=============================================================================
