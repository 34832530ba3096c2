-------------------------- MODULE KencFileProofs ---------------------------
(*****************************************************************************)
(* The packet file and what is played from it. The writer's invariant says   *)
(* where each appended record is in the file and that a unit of the header   *)
(* is there only when all the rest is; the reader's, that it stands where    *)
(* the scan of its copy has found the next record; and the two together,     *)
(* that what is copied behind a whole header is a file that nobody changes   *)
(* any more. Of a file that anybody changes, the reader plays from what it   *)
(* opened, or gives up, unless a change was such as no look can tell.        *)
(* Then the source: at each record number its decoder holds what             *)
(* the encoder held there, so that a seek back to the start of an epoch      *)
(* finds what continuous playback had. All of it for every length of a file, *)
(* every size of a record, any seeks and any failures.                       *)
(*****************************************************************************)
EXTENDS KencFile, KencSource, KencDecoderProofs

-----------------------------------------------------------------------------
(* The file, its writer and its reader *)

\* A number is so many whole spans and a rest.
LEMMA DivMod ==
    ASSUME NEW n \in Nat, NEW E \in Nat \ {0}
    PROVE  n \div E \in Nat /\ n % E \in 0..E - 1 /\ n = E * (n \div E) + (n % E)
  OBVIOUS

-----------------------------------------------------------------------------
(* Arithmetic of records and index entries *)

\* Products of numbers.
LEMMA Product == ASSUME NEW a \in Nat, NEW b \in Nat PROVE a * b \in Nat
  OBVIOUS

\* A product grows with its factors.
LEMMA ProductGrows ==
    ASSUME NEW a \in Nat, NEW b \in Nat, NEW S \in Nat, a <= b
    PROVE  a * S <= b * S
<1>1. b - a \in Nat
  OBVIOUS
<1>2. (b - a) * S \in Nat
  BY <1>1, Product
<1>3. b * S = a * S + (b - a) * S
  OBVIOUS
<1>4. a * S \in Nat
  BY Product
<1> QED BY <1>2, <1>3, <1>4

\* ... and a factor is less when the product is.
LEMMA FactorLess ==
    ASSUME NEW a \in Nat, NEW b \in Nat, NEW S \in Nat, a * S < b * S
    PROVE  a < b
<1>1. SUFFICES ASSUME b <= a PROVE FALSE
  OBVIOUS
<1>2. b * S <= a * S
  BY <1>1, ProductGrows
<1>3. a * S \in Nat /\ b * S \in Nat
  BY Product
<1> QED BY <1>2, <1>3

\* A multiple of E is divided by it without a rest.
LEMMA MultipleOf ==
    ASSUME NEW q \in Nat, NEW E \in Nat \ {0}
    PROVE  (q * E) % E = 0 /\ (q * E) \div E = q
<1> DEFINE n == q * E
           a == n \div E
           b == n % E
<1>1. n \in Nat /\ E * a \in Nat
  <2>1. n \in Nat
    BY Product
  <2> QED BY <2>1, DivMod, Product
<1>2. a \in Nat /\ b \in 0..E - 1 /\ n = E * a + b
  BY <1>1, DivMod
<1>3. n = q * E /\ E * a = a * E
  BY <1>2
<1> HIDE DEF n, a, b
<1>4. a <= q
  <2>1. SUFFICES ASSUME q < a PROVE FALSE
    BY <1>2
  <2>2. (q + 1) * E <= a * E
    BY <1>2, <2>1, ProductGrows
  <2>3. (q + 1) * E = q * E + E
    OBVIOUS
  <2> QED BY <1>1, <1>2, <1>3, <2>2, <2>3
<1>5. q <= a
  <2>1. SUFFICES ASSUME a < q PROVE FALSE
    BY <1>2
  <2>2. (a + 1) * E <= q * E
    BY <1>2, <2>1, ProductGrows
  <2>3. (a + 1) * E = a * E + E
    BY <1>2
  <2> QED BY <1>1, <1>2, <1>3, <2>2, <2>3
<1>6. a = q
  BY <1>2, <1>4, <1>5
<1>7. b = 0
  BY <1>1, <1>2, <1>3, <1>6
<1> QED BY <1>6, <1>7 DEF n, a, b

\* An info that can be in a header.
KnownInfo(info) == info.profile \in {"mono", "stereo"} /\ info.samples \in Nat

\* How many records and index entries a file has.
LEMMA Numbers ==
    ASSUME NEW info, KnownInfo(info)
    PROVE  /\ RecordsFor(info) \in Nat /\ IndexesFor(info) \in Nat
           /\ FirstOffset(info) \in Nat /\ FirstOffset(info) = HeaderUnits + IndexesFor(info)
           /\ HeaderUnits \in Nat \ {0}
           /\ info.samples <= RecordsFor(info) * Stride
<1> USE ContainerAssumption DEF KnownInfo
<1>1. /\ info.samples \div Stride \in Nat /\ info.samples % Stride \in 0..Stride - 1
      /\ info.samples = Stride * (info.samples \div Stride) + (info.samples % Stride)
  BY DivMod
<1>2. RecordsFor(info) \in Nat
  BY <1>1 DEF RecordsFor
<1>3. IndexesFor(info) \in Nat
  <2>1. RecordsFor(info) + EpochRecords - 1 \in Nat
    BY <1>2
  <2>2. (RecordsFor(info) + EpochRecords - 1) \div EpochRecords \in Nat
    BY <2>1, DivMod
  <2> QED BY <1>2, <2>2 DEF IndexesFor
<1>4. info.samples <= RecordsFor(info) * Stride
  <2> DEFINE a == info.samples \div Stride
             b == info.samples % Stride
             R == RecordsFor(info)
  <2>1. a \in Nat /\ b \in 0..Stride - 1 /\ info.samples = Stride * a + b
    BY <1>1
  <2>2. R = a + (IF b # 0 THEN 1 ELSE 0)
    BY DEF RecordsFor
  <2> SUFFICES info.samples <= R * Stride
    OBVIOUS
  <2> HIDE DEF a, b, R
  <2>3. Stride * a \in Nat /\ Stride * a = a * Stride /\ (a + 1) * Stride = a * Stride + Stride
    BY <2>1, Product
  <2>4. R = a + 1 \/ (R = a /\ b = 0)
    BY <2>1, <2>2
  <2>5. CASE R = a + 1
    <3>1. R * Stride = Stride * a + Stride
      BY <2>3, <2>5
    <3> HIDE <2>5
    <3> QED BY <2>1, <2>3, <3>1
  <2>6. CASE R = a /\ b = 0
    <3>1. R * Stride = Stride * a
      BY <2>3, <2>6
    <3> QED BY <2>1, <2>3, <2>6, <3>1
  <2> QED BY <2>4, <2>5, <2>6
<1> QED BY <1>2, <1>3, <1>4 DEF FirstOffset

\* The entry of a record that begins something is in the index, and belongs to
\* no other record.
LEMMA Slots ==
    ASSUME NEW info, KnownInfo(info), NEW n \in 0..RecordsFor(info) - 1, Indexed(info, n)
    PROVE  /\ IndexSlot(info, n) \in 0..IndexesFor(info) - 1
           /\ \A m \in 0..RecordsFor(info) - 1 :
                 Indexed(info, m) /\ IndexSlot(info, m) = IndexSlot(info, n) => m = n
<1> USE ContainerAssumption
<1> DEFINE R == RecordsFor(info)
<1>1. R \in Nat
  BY Numbers
<1>2. CASE info.profile = "stereo"
  BY <1>1, <1>2 DEF IndexSlot, IndexesFor
<1>3. CASE info.profile = "mono"
  <2> DEFINE E == EpochRecords
             I == IndexesFor(info)
  <2>1. I = (R + E - 1) \div E
    BY <1>3 DEF IndexesFor
  <2>2. R + E - 1 \in Nat
    BY <1>1
  <2>3. I \in Nat /\ (R + E - 1) % E \in 0..E - 1 /\ R + E - 1 = E * I + ((R + E - 1) % E)
    BY <2>1, <2>2, DivMod
  <2>4. \A m \in 0..R - 1 : Indexed(info, m) =>
           m \div E \in Nat /\ m = (m \div E) * E /\ IndexSlot(info, m) = m \div E
    <3> TAKE m \in 0..R - 1
    <3> HAVE Indexed(info, m)
    <3>1. m \in Nat /\ m % E = 0
      BY <1>1, <1>3 DEF Indexed
    <3>2. m \div E \in Nat /\ m = E * (m \div E) + (m % E)
      BY <3>1, DivMod
    <3>3. E * (m \div E) = (m \div E) * E /\ E * (m \div E) \in Nat
      BY <3>2, Product
    <3> QED BY <1>3, <3>1, <3>2, <3>3 DEF IndexSlot
  <2> DEFINE q == n \div E
  <2>5. q \in Nat /\ n = q * E /\ IndexSlot(info, n) = q
    BY <2>4
  <2>6. R <= I * E
    <3> DEFINE r == (R + E - 1) % E
    <3>1. r \in 0..E - 1 /\ R + E - 1 = E * I + r /\ E * I = I * E /\ E * I \in Nat
      BY <2>3, Product
    <3> HIDE DEF r, R, I
    <3> QED BY <1>1, <3>1
  <2> HIDE DEF q, R, I
  <2>7. q * E < I * E
    <3>1. n \in Nat /\ n < R
      BY <1>1 DEF R
    <3>2. I * E \in Nat
      BY <2>3, Product
    <3> QED BY <1>1, <2>5, <2>6, <3>1, <3>2
  <2>8. q < I
    BY <2>3, <2>5, <2>7, FactorLess
  <2>9. IndexSlot(info, n) \in 0..I - 1
    BY <2>3, <2>5, <2>8
  <2>10. ASSUME NEW m \in 0..R - 1, Indexed(info, m), IndexSlot(info, m) = IndexSlot(info, n)
         PROVE  m = n
    BY <2>4, <2>5, <2>10
  <2> QED BY <2>9, <2>10 DEF R, I
<1> QED BY <1>2, <1>3 DEF KnownInfo

-----------------------------------------------------------------------------
(* The scan *)

\* Where the scan stands after the record at this offset.
Behind(f, info, n, offset) ==
    IF offset # Nowhere /\ RecordThere(f, info, n, offset)
    THEN offset + 1 + f[offset + 1].size ELSE Nowhere

\* The offsets up to the n-th record.
IsScan(f, info, at, n) ==
    at = [m \in 0..n |-> IF m = 0 THEN FirstOffset(info) ELSE Behind(f, info, m - 1, at[m - 1])]

\* The scan that Offsets describes exists.
LEMMA ScanExists ==
    ASSUME NEW f, NEW info, NEW R \in Nat
    PROVE  \E at : IsScan(f, info, at, R)
<1> DEFINE P == {n \in Nat : \E at : IsScan(f, info, at, n)}
<1>1. 0 \in P
  <2> DEFINE at == [m \in 0..0 |-> FirstOffset(info)]
  <2>1. at = [m \in 0..0 |-> IF m = 0 THEN FirstOffset(info) ELSE Behind(f, info, m - 1, at[m - 1])]
    <3>1. \A m \in 0..0 : m = 0
      OBVIOUS
    <3> QED BY <3>1
  <2> QED BY <2>1 DEF IsScan
<1>2. ASSUME NEW n \in 0..R - 1, n \in P PROVE n + 1 \in P
  <2>1. PICK h : IsScan(f, info, h, n)
    BY <1>2
  <2> DEFINE step(g, m) == IF m = 0 THEN FirstOffset(info) ELSE Behind(f, info, m - 1, g[m - 1])
             at == [m \in 0..n + 1 |-> IF m = n + 1 THEN Behind(f, info, n, h[n]) ELSE h[m]]
  <2>2. \A m \in 0..n : h[m] = step(h, m)
    BY <2>1 DEF IsScan
  <2>3. \A m \in 0..n + 1 : at[m] = step(at, m)
    <3> TAKE m \in 0..n + 1
    <3>1. CASE m = n + 1
      <4>1. m # 0 /\ m - 1 = n /\ n \in 0..n + 1 /\ n # n + 1
        BY <1>2, <3>1
      <4>2. at[m] = Behind(f, info, n, h[n])
        BY <3>1
      <4>3. at[n] = h[n]
        BY <4>1
      <4> QED BY <4>1, <4>2, <4>3
    <3>2. CASE m # n + 1
      <4>1. m \in 0..n
        BY <1>2, <3>2
      <4>2. at[m] = h[m]
        BY <3>2
      <4>3. m # 0 => m - 1 \in 0..n + 1 /\ m - 1 # n + 1
        BY <4>1
      <4>4. m # 0 => at[m - 1] = h[m - 1]
        BY <4>3
      <4> HIDE DEF at
      <4> QED BY <2>2, <4>1, <4>2, <4>4
    <3> QED BY <3>1, <3>2
  <2>4. at = [m \in 0..n + 1 |-> at[m]]
    OBVIOUS
  <2> HIDE DEF at
  <2>5. at = [m \in 0..n + 1 |-> step(at, m)]
    BY <2>3, <2>4
  <2>6. IsScan(f, info, at, n + 1)
    BY <2>5 DEF IsScan
  <2> QED BY <1>2, <2>6
<1>3. R \in P
  <2> HIDE DEF P
  <2>1. P \in SUBSET Nat
    BY DEF P
  <2>2. \A n \in 0..R - 1 : n \in P => n + 1 \in P
    BY <1>2
  <2> QED BY <1>1, <2>1, <2>2, UpTo
<1> QED BY <1>3

\* The scan begins behind the index and goes on behind each record.
LEMMA ScanSteps ==
    ASSUME NEW f, NEW info, KnownInfo(info)
    PROVE  /\ Offsets(f, info)[0] = FirstOffset(info)
           /\ \A n \in 0..RecordsFor(info) - 1 :
                 Offsets(f, info)[n + 1] = Behind(f, info, n, Offsets(f, info)[n])
<1> DEFINE R == RecordsFor(info)
           P(h) == h = [n \in 0..R |->
                           IF n = 0 THEN FirstOffset(info)
                           ELSE IF h[n - 1] # Nowhere /\ RecordThere(f, info, n - 1, h[n - 1])
                           THEN h[n - 1] + 1 + f[h[n - 1] + 1].size
                           ELSE Nowhere]
           at == Offsets(f, info)
<1>1. R \in Nat
  BY Numbers
<1>2. \E h : P(h)
  <2>1. PICK h : IsScan(f, info, h, R)
    BY <1>1, ScanExists
  <2>2. P(h)
    <3> HIDE DEF R
    <3> QED BY <2>1 DEF IsScan, Behind
  <2> HIDE DEF P
  <2> QED BY <2>2
<1>3. at = CHOOSE h : P(h)
  BY DEF Offsets
<1>4. P(at)
  <2> HIDE DEF P, at
  <2> QED BY <1>2, <1>3
<1> HIDE DEF at, R
<1>5. \A n \in 0..R : at[n] = IF n = 0 THEN FirstOffset(info) ELSE Behind(f, info, n - 1, at[n - 1])
  BY <1>4 DEF Behind
<1>6. at[0] = FirstOffset(info)
  BY <1>1, <1>5
<1>7. ASSUME NEW n \in 0..R - 1 PROVE at[n + 1] = Behind(f, info, n, at[n])
  <2>1. n + 1 \in 0..R /\ n + 1 # 0 /\ (n + 1) - 1 = n
    BY <1>1
  <2> QED BY <1>5, <2>1
<1> QED BY <1>6, <1>7 DEF at, R

\* An offset is a number, or the scan has stopped before.
LEMMA OffsetsAreNumbers ==
    ASSUME NEW f, OfUnits(f), NEW info, KnownInfo(info)
    PROVE  \A n \in 0..RecordsFor(info) : Offsets(f, info)[n] \in Nat \cup {Nowhere}
<1> DEFINE at == Offsets(f, info)
           R == RecordsFor(info)
           P == {n \in Nat : at[n] \in Nat \cup {Nowhere}}
<1>1. R \in Nat /\ FirstOffset(info) \in Nat
  BY Numbers
<1>2. /\ at[0] = FirstOffset(info)
      /\ \A n \in 0..R - 1 : at[n + 1] = Behind(f, info, n, at[n])
  BY ScanSteps
<1> HIDE DEF at, R
<1>3. \A n \in 0..R - 1 : n \in P => n + 1 \in P
  <2> TAKE n \in 0..R - 1
  <2> HAVE n \in P
  <2>1. at[n] \in Nat \cup {Nowhere} /\ n + 1 \in Nat
    BY <1>1
  <2>2. CASE at[n] # Nowhere /\ RecordThere(f, info, n, at[n])
    <3>1. at[n] \in Nat /\ at[n] < Len(f) /\ f[at[n] + 1].is = "length"
      BY <2>1, <2>2 DEF RecordThere
    <3>2. at[n] + 1 \in 1..Len(f)
      BY <3>1 DEF OfUnits
    <3>3. f[at[n] + 1].size \in Nat
      BY <3>1, <3>2 DEF OfUnits
    <3>4. at[n + 1] = at[n] + 1 + f[at[n] + 1].size
      BY <1>2, <2>2 DEF Behind
    <3>5. at[n + 1] \in Nat
      BY <3>1, <3>3, <3>4
    <3> QED BY <2>1, <3>5
  <2>3. CASE ~(at[n] # Nowhere /\ RecordThere(f, info, n, at[n]))
    BY <1>2, <2>1, <2>3 DEF Behind
  <2> QED BY <2>2, <2>3
<1>4. 0 \in P /\ P \in SUBSET Nat
  BY <1>1, <1>2
<1>5. \A n \in 0..R : n \in P
  <2> HIDE DEF P
  <2> QED BY <1>1, <1>3, <1>4, UpTo
<1> QED BY <1>5 DEF at, R

\* A scan that gets to the end has found every record.
LEMMA AllThere ==
    ASSUME NEW f, OfUnits(f), NEW info, KnownInfo(info),
           Offsets(f, info)[RecordsFor(info)] # Nowhere
    PROVE  /\ \A n \in 0..RecordsFor(info) : Offsets(f, info)[n] \in Nat
           /\ \A n \in 0..RecordsFor(info) - 1 :
                 /\ RecordThere(f, info, n, Offsets(f, info)[n])
                 /\ Offsets(f, info)[n + 1] =
                        Offsets(f, info)[n] + 1 + f[Offsets(f, info)[n] + 1].size
<1> DEFINE at == Offsets(f, info)
           R == RecordsFor(info)
           P == {k \in Nat : k <= R => at[R - k] # Nowhere}
<1>1. R \in Nat
  BY Numbers
<1>2. \A n \in 0..R - 1 : at[n + 1] = Behind(f, info, n, at[n])
  BY ScanSteps
<1>3. \A n \in 0..R : at[n] \in Nat \cup {Nowhere}
  BY OffsetsAreNumbers
<1>4. at[R] # Nowhere
  OBVIOUS
<1> HIDE DEF at, R
<1>5. \A k \in 0..R - 1 : k \in P => k + 1 \in P
  <2> TAKE k \in 0..R - 1
  <2> HAVE k \in P
  <2> DEFINE n == R - (k + 1)
  <2>1. n \in 0..R - 1 /\ n + 1 = R - k /\ k \in Nat /\ k <= R /\ k + 1 \in Nat
    BY <1>1
  <2>2. at[n + 1] # Nowhere
    BY <2>1
  <2>3. at[n] # Nowhere
    <3> HIDE DEF n
    <3> QED BY <1>2, <2>1, <2>2 DEF Behind
  <2> QED BY <2>1, <2>3
<1>6. 0 \in P /\ P \in SUBSET Nat
  <2>1. R - 0 = R
    BY <1>1
  <2> QED BY <1>4, <2>1
<1>7. \A k \in 0..R : k \in P
  <2> HIDE DEF P
  <2> QED BY <1>1, <1>5, <1>6, UpTo
<1>8. \A n \in 0..R : at[n] # Nowhere
  <2> TAKE n \in 0..R
  <2>1. R - n \in 0..R /\ R - (R - n) = n
    BY <1>1
  <2>2. R - n \in P
    BY <1>7, <2>1
  <2> QED BY <2>1, <2>2
<1>9. \A n \in 0..R : at[n] \in Nat
  BY <1>3, <1>8
<1>10. ASSUME NEW n \in 0..R - 1
       PROVE  RecordThere(f, info, n, at[n]) /\ at[n + 1] = at[n] + 1 + f[at[n] + 1].size
  <2>1. n + 1 \in 0..R
    BY <1>1
  <2>2. at[n + 1] # Nowhere /\ at[n + 1] = Behind(f, info, n, at[n])
    BY <1>2, <1>8, <2>1
  <2> QED BY <2>2 DEF Behind
<1> QED BY <1>9, <1>10 DEF at, R

-----------------------------------------------------------------------------
(* The reader *)

\* Division by a span: the quotient is where the number falls.
LEMMA Quotient ==
    ASSUME NEW n \in Nat, NEW D \in Nat \ {0}
    PROVE  /\ n \div D \in Nat
           /\ (n \div D) * D <= n
           /\ n < (n \div D + 1) * D
<1> DEFINE q == n \div D
           r == n % D
<1>1. q \in Nat /\ r \in 0..D - 1 /\ n = D * q + r
  BY DivMod
<1> SUFFICES q \in Nat /\ q * D <= n /\ n < (q + 1) * D
  OBVIOUS
<1> HIDE DEF q, r
<1>2. D * q = q * D /\ q * D \in Nat /\ (q + 1) * D = q * D + D
  BY <1>1, Product
<1> QED BY <1>1, <1>2

\* The order of the factors does not matter.
LEMMA Factors ==
    ASSUME NEW a \in Nat, NEW b \in Nat, NEW c \in Nat
    PROVE  (a * b) * c = a * (c * b)
  OBVIOUS

\* What begins at this record is the last start at or before the sample.
LEMMA StartIs ==
    ASSUME NEW info, NEW sample, NEW n \in 0..RecordsFor(info) - 1, KnownInfo(info),
           Indexed(info, n), n * Stride <= sample,
           \A m \in 0..RecordsFor(info) - 1 : Indexed(info, m) /\ m * Stride <= sample => m <= n
    PROVE  StartFor(info, sample) = n
<1> DEFINE starts == {m \in 0..RecordsFor(info) - 1 : Indexed(info, m) /\ m * Stride <= sample}
           P(k) == k \in starts /\ \A m \in starts : m <= k
<1>1. P(n)
  OBVIOUS
<1>2. StartFor(info, sample) = CHOOSE k : P(k)
  BY DEF StartFor
<1>3. RecordsFor(info) \in Nat /\ starts \subseteq 0..RecordsFor(info) - 1
  BY Numbers
<1>4. \A k : P(k) => k = n
  <2> HIDE DEF starts
  <2>1. n \in Nat /\ \A k \in starts : k \in Nat
    BY <1>3
  <2> QED BY <1>1, <2>1
<1> HIDE DEF P
<1>5. P(CHOOSE k : P(k))
  BY <1>1
<1> QED BY <1>2, <1>4, <1>5

\* The index entry a sample falls under is that of the start nearest to it.
LEMMA SlotOfSample ==
    ASSUME NEW info, KnownInfo(info), NEW sample \in 0..info.samples - 1, NEW slot,
           slot = sample \div (Stride * (IF info.profile = "mono" THEN EpochRecords ELSE 1))
    PROVE  /\ slot \in 0..IndexesFor(info) - 1
           /\ StartFor(info, sample) \in 0..RecordsFor(info) - 1
           /\ Indexed(info, StartFor(info, sample))
           /\ IndexSlot(info, StartFor(info, sample)) = slot
<1> USE ContainerAssumption
<1> DEFINE R == RecordsFor(info)
           E == IF info.profile = "mono" THEN EpochRecords ELSE 1
           n == slot * E
<1>1. R \in Nat /\ info.samples \in Nat /\ sample \in Nat /\ sample < info.samples
      /\ info.samples <= R * Stride /\ R * Stride \in Nat
  BY Numbers, Product DEF KnownInfo
<1>2. E \in Nat \ {0}
  OBVIOUS
<1>3. slot = sample \div (Stride * E)
  OBVIOUS
<1> HIDE DEF E
<1>4. Stride * E \in Nat \ {0}
  BY <1>2
<1>5. slot \in Nat /\ slot * (Stride * E) <= sample /\ sample < (slot + 1) * (Stride * E)
  BY <1>1, <1>3, <1>4, Quotient
<1>6. n \in Nat /\ n % E = 0 /\ n \div E = slot
  BY <1>2, <1>5, Product, MultipleOf
<1>7. n * Stride = slot * (Stride * E)
  <2>1. slot \in Nat /\ E \in Nat /\ Stride \in Nat
    BY <1>2, <1>5
  <2> QED BY ONLY <2>1, Factors
<1>8. n \in 0..R - 1
  <2>1. n * Stride < R * Stride
    <3> DEFINE a == n * Stride
               b == R * Stride
    <3>1. a \in Nat
      BY <1>6, Product
    <3>2. a <= sample /\ sample < info.samples /\ info.samples <= b /\ b \in Nat
      BY <1>1, <1>5, <1>7
    <3> HIDE DEF a, b
    <3>3. a < b
      BY <1>1, <3>1, <3>2
    <3> QED BY <3>3 DEF a, b
  <2>2. n < R
    <3> HIDE DEF n
    <3> QED BY <1>1, <1>6, <2>1, FactorLess
  <2> HIDE DEF n
  <2> QED BY <1>1, <1>6, <2>2
<1>9. Indexed(info, n) /\ IndexSlot(info, n) = slot
  <2>1. CASE info.profile = "mono"
    BY <1>6, <2>1 DEF Indexed, IndexSlot, E
  <2>2. CASE info.profile = "stereo"
    <3>1. E = 1
      BY <2>2 DEF E
    <3>2. n = slot
      BY <1>5, <3>1
    <3> QED BY <2>2, <3>2 DEF Indexed, IndexSlot
  <2> QED BY <2>1, <2>2 DEF KnownInfo
<1>10. ASSUME NEW m \in 0..R - 1, Indexed(info, m), m * Stride <= sample
       PROVE  m <= n
  <2>1. m \in Nat
    BY <1>1
  <2>2. PICK p \in Nat : m = p * E
    <3>1. CASE info.profile = "mono"
      <4>1. E = EpochRecords /\ m % E = 0
        BY <1>10, <3>1 DEF Indexed, E
      <4>2. m \div E \in Nat /\ m = E * (m \div E) + (m % E)
        BY <1>2, <2>1, DivMod
      <4>3. E * (m \div E) = (m \div E) * E /\ E * (m \div E) \in Nat
        BY <1>2, <4>2, Product
      <4>4. m % E = 0 /\ (m \div E) * E + 0 = (m \div E) * E
        BY <4>1, <4>2, <4>3
      <4>5. m = (m \div E) * E
        BY <4>2, <4>3, <4>4
      <4> QED BY <4>2, <4>5
    <3>2. CASE info.profile = "stereo"
      <4>1. E = 1 /\ m * 1 = m
        BY <2>1, <3>2 DEF E
      <4> QED BY <2>1, <4>1
    <3> QED BY <3>1, <3>2 DEF KnownInfo
  <2>3. p * (Stride * E) = m * Stride
    BY <1>2, <2>2
  <2>4. p * (Stride * E) < (slot + 1) * (Stride * E)
    <3> DEFINE a == p * (Stride * E)
               b == (slot + 1) * (Stride * E)
    <3>1. a \in Nat /\ b \in Nat
      BY <1>4, <1>5, Product
    <3>2. a <= sample /\ sample < b
      BY <1>5, <1>10, <2>3
    <3> HIDE DEF a, b
    <3>3. a < b
      BY <1>1, <3>1, <3>2
    <3> QED BY <3>3 DEF a, b
  <2>5. p < slot + 1
    <3>1. slot + 1 \in Nat /\ Stride * E \in Nat
      BY <1>4, <1>5
    <3> QED BY <2>4, <3>1, FactorLess
  <2>6. p <= slot
    BY <1>5, <2>5
  <2>7. p * E <= slot * E
    BY <1>2, <1>5, <2>6, ProductGrows
  <2> QED BY <2>2, <2>7
<1>11. StartFor(info, sample) = n
  <2>1. n * Stride <= sample
    BY <1>5, <1>7
  <2> HIDE DEF n
  <2> QED BY <1>8, <1>9, <1>10, <2>1, StartIs
<1>12. slot \in 0..IndexesFor(info) - 1
  <2> HIDE DEF n
  <2> QED BY <1>8, <1>9, Slots
<1> HIDE DEF n
<1> QED BY <1>8, <1>9, <1>11, <1>12

\* The index entry of a sample, in an accepted file, is where the scan has found
\* the start nearest to the sample.
LEMMA EntryOfSample ==
    ASSUME NEW f, NEW info, KnownInfo(info), Accepts(f, info), NEW sample \in 0..info.samples - 1,
           NEW slot,
           slot = sample \div (Stride * (IF info.profile = "mono" THEN EpochRecords ELSE 1))
    PROVE  /\ slot \in 0..IndexesFor(info) - 1
           /\ StartFor(info, sample) \in 0..RecordsFor(info) - 1
           /\ f[HeaderUnits + slot + 1] =
                IndexUnit(StartFor(info, sample), Offsets(f, info)[StartFor(info, sample)])
<1>1. /\ slot \in 0..IndexesFor(info) - 1
      /\ StartFor(info, sample) \in 0..RecordsFor(info) - 1
      /\ Indexed(info, StartFor(info, sample))
      /\ IndexSlot(info, StartFor(info, sample)) = slot
  BY SlotOfSample
<1> QED BY <1>1 DEF Accepts

\* Playback from the beginning begins at the first record, which is behind the
\* index.
LEMMA StartOfFile ==
    ASSUME NEW info, KnownInfo(info), ValidInfo(info)
    PROVE  /\ StartFor(info, 0) = 0
           /\ 0 \in 0..RecordsFor(info) - 1 /\ Indexed(info, 0) /\ IndexSlot(info, 0) = 0
           /\ 0 \in 0..IndexesFor(info) - 1
<1> USE ContainerAssumption
<1> DEFINE R == RecordsFor(info)
<1>1. R \in Nat /\ info.samples \in Nat /\ info.samples <= R * Stride /\ info.samples > 0
  BY Numbers DEF KnownInfo, ValidInfo
<1>2. 0 < R
  <2> HIDE DEF R
  <2>1. SUFFICES ASSUME R = 0 PROVE FALSE
    BY <1>1
  <2>2. R * Stride = 0
    BY <2>1
  <2> QED BY <1>1, <2>2
<1>3. 0 % EpochRecords = 0 /\ 0 \div EpochRecords = 0
  <2>1. 0 * EpochRecords = 0
    OBVIOUS
  <2>2. (0 * EpochRecords) % EpochRecords = 0 /\ (0 * EpochRecords) \div EpochRecords = 0
    BY MultipleOf
  <2> QED BY <2>1, <2>2
<1>4. Indexed(info, 0) /\ IndexSlot(info, 0) = 0
  BY <1>3 DEF Indexed, IndexSlot, KnownInfo
<1>5. 0 \in 0..R - 1
  BY <1>1, <1>2
<1>6. 0 \in 0..IndexesFor(info) - 1
  BY <1>4, <1>5, Slots
<1>7. ASSUME NEW m \in 0..R - 1, m * Stride <= 0 PROVE m <= 0
  <2>1. m \in Nat
    BY <1>1
  <2>2. SUFFICES ASSUME 1 <= m PROVE FALSE
    BY <2>1
  <2>3. 1 * Stride <= m * Stride
    BY <2>1, <2>2, ProductGrows
  <2>4. 1 * Stride = Stride /\ Stride > 0 /\ m * Stride \in Nat
    BY <2>1, Product
  <2> QED BY <1>7, <2>3, <2>4
<1>8. 0 * Stride <= 0
  OBVIOUS
<1> HIDE DEF R
<1>9. StartFor(info, 0) = 0
  BY <1>4, <1>5, <1>7, <1>8, StartIs DEF R
<1> QED BY <1>4, <1>5, <1>6, <1>9 DEF R

\* The empty sequence is one of units.
LEMMA NoUnits == OfUnits(<< >>)
<1>1. Len(<< >>) = 0 /\ << >> = [k \in 1..0 |-> << >>[k]]
  OBVIOUS
<1> QED BY <1>1 DEF OfUnits

\* A sequence of units with one more.
LEMMA OneMoreUnit ==
    ASSUME NEW f, OfUnits(f), NEW unit, unit.is = "length" => unit.size \in Nat
    PROVE  /\ OfUnits(Append(f, unit)) /\ Len(Append(f, unit)) = Len(f) + 1
           /\ Append(f, unit)[Len(f) + 1] = unit
           /\ \A k \in 1..Len(f) : Append(f, unit)[k] = f[k]
<1> DEFINE U == {f[k] : k \in 1..Len(f)} \cup {unit}
           g == Append(f, unit)
<1>1. Len(f) \in Nat /\ f = [k \in 1..Len(f) |-> f[k]]
  BY DEF OfUnits
<1>2. f \in Seq(U)
  <2>1. \A k \in 1..Len(f) : f[k] \in U
    OBVIOUS
  <2> HIDE DEF U
  <2> QED BY <1>1, <2>1
<1>3. unit \in U
  OBVIOUS
<1> HIDE DEF U
<1>4. g \in Seq(U) /\ Len(g) = Len(f) + 1 /\ g[Len(f) + 1] = unit
      /\ \A k \in 1..Len(f) : g[k] = f[k]
  BY <1>2, <1>3
<1> HIDE DEF g
<1>5. Len(g) \in Nat /\ g = [k \in 1..Len(g) |-> g[k]]
  BY <1>4
<1>6. \A k \in 1..Len(g) : g[k].is = "length" => g[k].size \in Nat
  <2> TAKE k \in 1..Len(g)
  <2>1. k = Len(f) + 1 \/ k \in 1..Len(f)
    BY <1>1, <1>4
  <2>2. CASE k = Len(f) + 1
    BY <1>4, <2>2
  <2>3. CASE k \in 1..Len(f)
    BY <1>4, <2>3 DEF OfUnits
  <2> QED BY <2>1, <2>2, <2>3
<1> QED BY <1>4, <1>5, <1>6 DEF OfUnits, g

\* A reader that is not ready yet promises little.
LEMMA NotReady ==
    ASSUME OfUnits(r_copied), OfUnits(r_snapshot), r_pc # "ready",
           r_pc \in {"copy", "scan"} => r_info \in Headers
    PROVE  ReaderInv
  BY DEF ReaderInv, PlaysFromIndex

\* kenc_file_reader_create gives up, or the reader is freed.
LEMMA RefuseKeeps == ASSUME Refuse PROVE ReaderInv'
<1>1. r_copied' = << >> /\ r_snapshot' = << >> /\ r_pc' = "closed"
  BY DEF Refuse
<1> QED BY <1>1, NoUnits DEF ReaderInv, PlaysFromIndex, OfUnits

\* The file is opened.
LEMMA OpenReaderKeeps == ASSUME ReaderInv, OpenReader PROVE ReaderInv'
  BY DEF OpenReader, playVars, ReaderInv, PlaysFromIndex, OfUnits

\* A unit of the header is read.
LEMMA ReadHeaderKeeps == ASSUME ReaderInv, OfUnits(file), ReadHeader PROVE ReaderInv'
<1>1. CASE Len(r_copied) < Len(file)
  <2>1. r_copied' = Append(r_copied, file[Len(r_copied) + 1])
        /\ r_pc' = "header" /\ r_snapshot' = r_snapshot
    BY <1>1 DEF ReadHeader, ReadUnit
  <2>2. Len(r_copied) \in Nat /\ Len(file) \in Nat /\ OfUnits(r_snapshot)
    BY DEF ReaderInv, OfUnits
  <2>3. Len(r_copied) + 1 \in 1..Len(file)
    BY <1>1, <2>2
  <2>4. OfUnits(r_copied')
    BY <2>1, <2>3, OneMoreUnit DEF ReaderInv, OfUnits
  <2> QED BY <2>1, <2>2, <2>4 DEF ReaderInv, PlaysFromIndex, OfUnits
<1>2. CASE ~(Len(r_copied) < Len(file))
  BY <1>2, RefuseKeeps DEF ReadHeader, ReadUnit
<1> QED BY <1>1, <1>2

\* A unit of the file is copied.
LEMMA CopyUnitKeeps == ASSUME ReaderInv, OfUnits(file), CopyUnit PROVE ReaderInv'
<1>1. CASE Len(r_copied) < Len(file)
  <2>1. r_copied' = Append(r_copied, file[Len(r_copied) + 1])
        /\ r_pc = "copy" /\ r_pc' = "copy" /\ r_snapshot' = r_snapshot /\ r_info' = r_info
    BY <1>1 DEF CopyUnit, ReadUnit
  <2>2. Len(r_copied) \in Nat /\ Len(file) \in Nat /\ OfUnits(r_snapshot) /\ r_info \in Headers
    BY <2>1 DEF ReaderInv, OfUnits
  <2>3. Len(r_copied) + 1 \in 1..Len(file)
    BY <1>1, <2>2
  <2>4. OfUnits(r_copied')
    BY <2>1, <2>3, OneMoreUnit DEF ReaderInv, OfUnits
  <2> QED BY <2>1, <2>2, <2>4 DEF ReaderInv, PlaysFromIndex, OfUnits
<1>2. CASE ~(Len(r_copied) < Len(file))
  BY <1>2, RefuseKeeps DEF CopyUnit, ReadUnit
<1> QED BY <1>1, <1>2

\* The header is parsed.
LEMMA ParseHeaderKeeps == ASSUME ReaderInv, ParseHeader PROVE ReaderInv'
<1>1. CASE Refuse
  BY <1>1, RefuseKeeps
<1>2. ASSUME NEW info \in Headers, r_info' = info, r_copied' = << >>, r_pc' = "copy",
             r_snapshot' = r_snapshot
      PROVE  ReaderInv'
  <2>1. OfUnits(r_copied')
    BY <1>2, NoUnits
  <2> QED BY <1>2, <2>1 DEF ReaderInv, PlaysFromIndex, OfUnits
<1> QED BY <1>1, <1>2 DEF ParseHeader

\* The copy is sealed.
LEMMA SealKeeps == ASSUME ReaderInv, Seal PROVE ReaderInv'
<1>1. CASE Unchanged
  <2>1. r_snapshot' = r_copied /\ r_copied' = << >> /\ r_pc = "copy" /\ r_pc' = "scan"
        /\ r_info' = r_info
    BY <1>1 DEF Seal
  <2>2. OfUnits(r_copied) /\ r_info \in Headers
    BY <2>1 DEF ReaderInv
  <2>3. OfUnits(r_snapshot') /\ OfUnits(r_copied')
    BY <2>1, <2>2, NoUnits
  <2> QED BY <2>1, <2>2, <2>3 DEF ReaderInv, PlaysFromIndex, OfUnits
<1>2. CASE ~Unchanged
  BY <1>2, RefuseKeeps DEF Seal
<1> QED BY <1>1, <1>2

\* The copy is accepted, or not.
LEMMA ScanKeeps == ASSUME ReaderInv, Scan PROVE ReaderInv'
<1>1. CASE CopyAccepted
  <2>1. /\ r_pc = "scan" /\ r_pc' = "ready" /\ r_info' = r_info /\ r_snapshot' = r_snapshot
        /\ r_copied' = r_copied
        /\ r_index' = [slot \in 0..IndexesFor(r_info) - 1 |-> r_snapshot[HeaderUnits + slot + 1]]
        /\ r_position' = 0 /\ r_offset' = r_index'[0].offset /\ delivered' = << >> /\ from' = 0
    BY <1>1 DEF Scan
  <2>2. OfUnits(r_copied) /\ OfUnits(r_snapshot) /\ r_info \in Headers
    BY <2>1 DEF ReaderInv
  <2>3. Accepts(r_snapshot, r_info)
    BY <1>1 DEF CopyAccepted
  <2>4. KnownInfo(r_info) /\ ValidInfo(r_info)
    BY <2>2, <2>3, ReaderAssumption DEF KnownInfo, Accepts, HeaderSays
  <2>5. /\ StartFor(r_info, 0) = 0
        /\ 0 \in 0..RecordsFor(r_info) - 1 /\ Indexed(r_info, 0) /\ IndexSlot(r_info, 0) = 0
        /\ 0 \in 0..IndexesFor(r_info) - 1
    BY <2>4, StartOfFile
  <2>6. r_offset' = Offsets(r_snapshot, r_info)[0]
    <3>1. r_snapshot[HeaderUnits + 0 + 1] = IndexUnit(0, Offsets(r_snapshot, r_info)[0])
      BY <2>3, <2>5 DEF Accepts
    <3>2. r_index'[0] = r_snapshot[HeaderUnits + 0 + 1]
      BY <2>1, <2>5
    <3> QED BY <2>1, <3>1, <3>2 DEF IndexUnit
  <2>7. RecordsFor(r_info) \in Nat /\ r_info.samples \in Nat /\ r_info.samples > 0
    BY <2>4, Numbers DEF KnownInfo, ValidInfo
  <2>8. PlaysFromIndex'
    <3>1. Len(<< >>) = 0 /\ 0 + 0 = 0
      OBVIOUS
    <3> QED BY <2>1, <2>5, <2>6, <3>1 DEF PlaysFromIndex
  <2>9. (r_index = [slot \in 0..IndexesFor(r_info) - 1 |-> r_snapshot[HeaderUnits + slot + 1]])'
    BY <2>1
  <2>10. from' \in 0..r_info'.samples - 1 /\ r_position' \in 0..RecordsFor(r_info')
    BY <2>1, <2>7
  <2>11. delivered' \in Seq({RecordAt(r_snapshot', r_info', n) : n \in 0..RecordsFor(r_info') - 1})
    BY <2>1
  <2> HIDE DEF Accepts
  <2> QED BY <2>1, <2>2, <2>3, <2>8, <2>9, <2>10, <2>11 DEF ReaderInv
<1>2. CASE ~CopyAccepted
  BY <1>2, RefuseKeeps DEF Scan
<1> QED BY <1>1, <1>2

\* A record is read.
LEMMA NextRecordKeeps == ASSUME ReaderInv, NextRecord PROVE ReaderInv'
<1> DEFINE S == r_snapshot
           at == Offsets(S, r_info)
           R == RecordsFor(r_info)
           start == StartFor(r_info, from)
           record == S[r_offset + 2].of
           Recs == {RecordAt(S, r_info, n) : n \in 0..R - 1}
<1>1. /\ r_pc = "ready" /\ r_position < R /\ RecordThere(S, r_info, r_position, r_offset)
      /\ delivered' = Append(delivered, record) /\ r_offset' = r_offset + record.size + 1
      /\ r_position' = r_position + 1
      /\ UNCHANGED <<r_pc, r_size, r_copied, r_info, r_snapshot, r_index, from>>
  BY DEF NextRecord
<1>2. /\ OfUnits(r_copied) /\ OfUnits(S) /\ r_info \in Headers /\ Accepts(S, r_info)
      /\ from \in 0..r_info.samples - 1 /\ r_position \in 0..R /\ delivered \in Seq(Recs)
      /\ r_index = [slot \in 0..IndexesFor(r_info) - 1 |-> S[HeaderUnits + slot + 1]]
  BY <1>1 DEF ReaderInv
<1>3. /\ r_position = start + Len(delivered) /\ r_offset = at[r_position]
      /\ \A k \in 1..Len(delivered) : delivered[k] = RecordAt(S, r_info, start + k - 1)
  BY <1>1 DEF ReaderInv, PlaysFromIndex
<1>4. KnownInfo(r_info)
  BY <1>2, ReaderAssumption DEF KnownInfo
<1>5. R \in Nat /\ r_position \in 0..R - 1 /\ r_position + 1 \in 0..R
  <2>1. R \in Nat
    BY <1>4, Numbers
  <2> HIDE DEF R
  <2> QED BY <1>1, <1>2, <2>1
<1>6. start \in 0..R - 1
  <2>1. StartFor(r_info, from) \in 0..RecordsFor(r_info) - 1
    BY <1>2, <1>4, SlotOfSample
  <2> QED BY <2>1
<1>7. at[R] # Nowhere
  <2>1. at[R] = Len(S) /\ Len(S) \in Nat
    BY <1>2 DEF Accepts, OfUnits
  <2> HIDE DEF at, R, S
  <2> QED BY <2>1 DEF Nowhere
<1>8. /\ \A n \in 0..R : at[n] \in Nat
      /\ \A n \in 0..R - 1 : at[n + 1] = at[n] + 1 + S[at[n] + 1].size
  BY <1>2, <1>4, <1>7, AllThere
<1>9. record = RecordAt(S, r_info, r_position)
  BY <1>3 DEF RecordAt
<1>10. r_offset' = at[r_position + 1]
  <2>1. S[r_offset + 1].size = record.size /\ S[r_offset + 1].is = "length"
        /\ r_offset < Len(S)
    BY <1>1 DEF RecordThere
  <2>2. r_offset \in Nat
    BY <1>3, <1>5, <1>8
  <2>3. r_offset + 1 \in 1..Len(S) /\ Len(S) \in Nat
    BY <1>2, <2>1, <2>2 DEF OfUnits
  <2>4. S[r_offset + 1].size \in Nat
    BY <1>2, <2>1, <2>3 DEF OfUnits
  <2>5. at[r_position + 1] = r_offset + 1 + S[r_offset + 1].size
    BY <1>3, <1>5, <1>8
  <2>6. record.size \in Nat /\ at[r_position + 1] = r_offset + 1 + record.size
    BY <2>1, <2>4, <2>5
  <2> HIDE DEF at, record, S
  <2>7. r_offset + 1 + record.size = r_offset + record.size + 1
    BY <2>2, <2>6
  <2> QED BY <1>1, <2>6, <2>7
<1>11. record \in Recs
  BY <1>5, <1>9
<1> HIDE DEF record, Recs, start, R
<1>12. /\ delivered' \in Seq(Recs) /\ Len(delivered') = Len(delivered) + 1 /\ Len(delivered) \in Nat
       /\ delivered'[Len(delivered) + 1] = record
       /\ \A k \in 1..Len(delivered) : delivered'[k] = delivered[k]
  BY <1>1, <1>2, <1>11
<1>13. r_position' = start + Len(delivered')
  <2>1. start \in Nat
    BY <1>5, <1>6
  <2> QED BY <1>1, <1>3, <1>12, <2>1
<1>14. \A k \in 1..Len(delivered') : delivered'[k] = RecordAt(S, r_info, start + k - 1)
  <2> TAKE k \in 1..Len(delivered')
  <2>1. k = Len(delivered) + 1 \/ k \in 1..Len(delivered)
    BY <1>12
  <2>2. CASE k = Len(delivered) + 1
    <3>1. start + k - 1 = r_position
      BY <1>3, <1>5, <1>6, <1>12, <2>2
    <3> QED BY <1>9, <1>12, <2>2, <3>1
  <2>3. CASE k \in 1..Len(delivered)
    BY <1>3, <1>12, <2>3
  <2> QED BY <2>1, <2>2, <2>3
<1>15. PlaysFromIndex'
  <2>1. /\ r_position' = StartFor(r_info', from') + Len(delivered')
        /\ r_offset' = Offsets(r_snapshot', r_info')[r_position']
        /\ \A k \in 1..Len(delivered') :
              delivered'[k] = RecordAt(r_snapshot', r_info', StartFor(r_info', from') + k - 1)
    BY <1>1, <1>10, <1>13, <1>14 DEF start
  <2> QED BY <2>1 DEF PlaysFromIndex
<1>16. r_position' \in 0..R
  BY <1>1, <1>5
<1> HIDE DEF Accepts
<1> QED BY <1>1, <1>2, <1>12, <1>15, <1>16 DEF ReaderInv, Recs, R

\* A seek, of however long a file and to whichever sample.
LEMMA ReaderSeekKeeps == ASSUME ReaderInv, NEW sample \in SampleRange, Seek(sample) PROVE ReaderInv'
<1> DEFINE S == r_snapshot
           slot == SeekSlot(sample)
           start == StartFor(r_info, sample)
<1>1. /\ r_pc = "ready" /\ sample < r_info.samples
      /\ r_position' = r_index[slot].record /\ r_offset' = r_index[slot].offset
      /\ delivered' = << >> /\ from' = sample
      /\ UNCHANGED <<r_pc, r_size, r_copied, r_info, r_snapshot, r_index>>
  BY DEF Seek
<1>2. /\ OfUnits(r_copied) /\ OfUnits(S) /\ r_info \in Headers /\ Accepts(S, r_info)
      /\ r_index = [k \in 0..IndexesFor(r_info) - 1 |-> S[HeaderUnits + k + 1]]
  BY <1>1 DEF ReaderInv
<1>3. KnownInfo(r_info) /\ sample \in 0..r_info.samples - 1
  BY <1>1, <1>2, ReaderAssumption DEF KnownInfo, SampleRange
<1>4. /\ slot \in 0..IndexesFor(r_info) - 1 /\ start \in 0..RecordsFor(r_info) - 1
      /\ S[HeaderUnits + slot + 1] = IndexUnit(start, Offsets(S, r_info)[start])
  BY <1>2, <1>3, EntryOfSample DEF SeekSlot
<1>5. RecordsFor(r_info) \in Nat
  BY <1>3, Numbers
<1> HIDE DEF slot, start
<1>6. r_index[slot] = IndexUnit(start, Offsets(S, r_info)[start])
  BY <1>2, <1>4
<1>7. r_position' = start /\ r_offset' = Offsets(S, r_info)[start]
  BY <1>1, <1>6 DEF IndexUnit
<1>8. r_position' = start + Len(delivered') /\ start \in 0..RecordsFor(r_info)
  <2>1. Len(<< >>) = 0
    OBVIOUS
  <2> QED BY <1>1, <1>4, <1>5, <1>7, <2>1
<1>9. PlaysFromIndex'
  <2>1. /\ r_position' = StartFor(r_info', from') + Len(delivered')
        /\ r_offset' = Offsets(r_snapshot', r_info')[r_position']
        /\ \A k \in 1..Len(delivered') :
              delivered'[k] = RecordAt(r_snapshot', r_info', StartFor(r_info', from') + k - 1)
    BY <1>1, <1>7, <1>8 DEF start
  <2> QED BY <2>1 DEF PlaysFromIndex
<1>10. delivered' \in Seq({RecordAt(r_snapshot', r_info', n) : n \in 0..RecordsFor(r_info') - 1})
  BY <1>1
<1> HIDE DEF Accepts
<1> QED BY <1>1, <1>2, <1>3, <1>7, <1>8, <1>9, <1>10 DEF ReaderInv

\* Nothing happens to the reader.
LEMMA ReaderWaits == ASSUME ReaderInv, UNCHANGED readerVars PROVE ReaderInv'
<1> HIDE DEF Accepts
<1> QED BY DEF readerVars, playVars, ReaderInv, PlaysFromIndex, OfUnits

\* Every step of the reader keeps what it plays from the index.
LEMMA ReaderStep == ASSUME ReaderInv, OfUnits(file), ReaderNext PROVE ReaderInv'
<1>1. CASE Opening
  <2> USE <1>1
  <2>1. CASE OpenReader BY <2>1, OpenReaderKeeps
  <2>2. CASE ReadHeader BY <2>2, ReadHeaderKeeps
  <2>3. CASE ParseHeader BY <2>3, ParseHeaderKeeps
  <2>4. CASE CopyUnit BY <2>4, CopyUnitKeeps
  <2>5. CASE Seal BY <2>5, SealKeeps
  <2>6. CASE Scan BY <2>6, ScanKeeps
  <2> QED BY <2>1, <2>2, <2>3, <2>4, <2>5, <2>6 DEF Opening
<1>2. CASE NextRecord
  BY <1>2, NextRecordKeeps
<1>3. ASSUME NEW sample \in SampleRange, Seek(sample) PROVE ReaderInv'
  BY <1>3, ReaderSeekKeeps
<1>4. CASE FreeReader
  BY <1>4, RefuseKeeps DEF FreeReader
<1> QED BY <1>1, <1>2, <1>3, <1>4 DEF ReaderNext

-----------------------------------------------------------------------------
(* The writer *)

\* A file is a sequence of units before and after a write.
LEMMA UnitWritten ==
    ASSUME NEW f, OfUnits(f), NEW offset \in Nat, NEW unit, unit.is = "length" => unit.size \in Nat
    PROVE  /\ OfUnits(WriteAt(f, offset, unit))
           /\ Len(WriteAt(f, offset, unit)) = IF offset < Len(f) THEN Len(f) ELSE offset + 1
<1> DEFINE N == IF offset < Len(f) THEN Len(f) ELSE offset + 1
           g == WriteAt(f, offset, unit)
<1>1. Len(f) \in Nat
  BY DEF OfUnits
<1>2. N \in Nat /\ offset + 1 \in 1..N /\ Len(f) <= N /\ offset <= N
  BY <1>1
<1>3. g = [k \in 1..N |-> IF k = offset + 1 THEN unit ELSE IF k <= Len(f) THEN f[k] ELSE Hole]
  BY DEF WriteAt
<1> HIDE DEF N, g
<1>4. g = [k \in 1..N |-> g[k]] /\ Len(g) = N
  BY <1>2, <1>3
<1>5. g[offset + 1] = unit
  BY <1>2, <1>3
<1>6. \A k \in 1..Len(f) : k # offset + 1 => g[k] = f[k]
  BY <1>1, <1>2, <1>3
<1>8. \A k \in 1..N : g[k].is = "length" => g[k].size \in Nat
  <2> TAKE k \in 1..N
  <2>1. CASE k = offset + 1
    BY <1>5, <2>1
  <2>2. CASE k # offset + 1 /\ k <= Len(f)
    <3>1. k \in 1..Len(f)
      BY <1>1, <1>2, <2>2
    <3> QED BY <1>6, <2>2, <3>1 DEF OfUnits
  <2>3. CASE k # offset + 1 /\ ~(k <= Len(f))
    <3>1. g[k] = Hole
      BY <1>3, <2>3
    <3> QED BY <3>1 DEF Hole
  <2> QED BY <2>1, <2>2, <2>3
<1>9. OfUnits(g)
  BY <1>2, <1>4, <1>8 DEF OfUnits
<1> QED BY <1>4, <1>9 DEF N, g

\* Numbers of a file that is being written.
LEMMA WriterNumbers ==
    ASSUME WriterTypeOK, w_info # NoInfo
    PROVE  /\ KnownInfo(w_info) /\ ValidInfo(w_info)
           /\ RecordsFor(w_info) \in Nat /\ IndexesFor(w_info) \in Nat
           /\ FirstOffset(w_info) \in Nat /\ FirstOffset(w_info) = HeaderUnits + IndexesFor(w_info)
           /\ HeaderUnits \in Nat \ {0}
           /\ w_position \in 0..RecordsFor(w_info) /\ w_position \in Nat
           /\ w_position = Len(appended)
           /\ w_offset \in Nat /\ w_offset >= FirstOffset(w_info)
           /\ w_at \in Nat /\ OfUnits(file) /\ Len(file) \in Nat
<1>1. KnownInfo(w_info)
  BY WriterAssumption DEF WriterTypeOK, KnownInfo
<1> QED BY <1>1, Numbers DEF WriterTypeOK, OfUnits

\* What is a record has a size.
LEMMA SizeOfRecord ==
    ASSUME NEW record \in MonoRecords(Nat) \cup StereoRecords
    PROVE  record.size \in Nat \ {0}
<1>1. record.size \in Sizes
  BY DEF MonoRecords, StereoRecords
<1> QED BY <1>1, ContainerAssumption

\* The record at this offset stays when nothing of it is written.
LEMMA RecordStays ==
    ASSUME NEW f, OfUnits(f), NEW g, NEW record, NEW offset \in Nat, NEW units \in Nat,
           Len(g) \in Nat, Len(f) <= Len(g),
           \A k \in 1..Len(f) : k > offset /\ k <= offset + units => g[k] = f[k],
           WrittenAt(f, record, offset, units)
    PROVE  WrittenAt(g, record, offset, units)
<1>1. Len(f) \in Nat
  BY DEF OfUnits
<1>2. ASSUME units > 0
      PROVE  offset + units <= Len(g) /\ g[offset + 1] = LengthUnit(record.size)
  <2>1. offset + 1 \in 1..Len(f)
    BY <1>1, <1>2 DEF WrittenAt
  <2>2. g[offset + 1] = f[offset + 1]
    BY <1>1, <1>2, <2>1 DEF WrittenAt
  <2> QED BY <1>1, <1>2, <2>2 DEF WrittenAt
<1>3. ASSUME NEW k \in 1..units - 1 PROVE g[offset + 1 + k] = RecordUnit(record, k)
  <2>1. offset + 1 + k \in 1..Len(f) /\ offset + 1 + k > offset /\ offset + 1 + k <= offset + units
    BY <1>1, <1>3 DEF WrittenAt
  <2>2. g[offset + 1 + k] = f[offset + 1 + k]
    BY <2>1
  <2> QED BY <1>3, <2>2 DEF WrittenAt
<1> QED BY <1>2, <1>3 DEF WrittenAt

\* A writer that has records left to append has not begun the header.
LEMMA NoHeaderYet ==
    ASSUME WriterTypeOK, w_info # NoInfo, HeaderStands, w_position < RecordsFor(w_info)
    PROVE  \A k \in 1..HeaderUnits : k <= Len(file) => file[k].is # "header"
<1>1. w_position \in Nat /\ RecordsFor(w_info) \in Nat
  BY WriterNumbers
<1>2. ~Appended
  BY <1>1 DEF Appended
<1> QED BY <1>2 DEF HeaderStands

\* The writer is created.
LEMMA CreateWriterKeeps ==
    ASSUME WriterInv, NEW info \in Infos, CreateWriter(info) PROVE WriterInv'
<1>1. /\ w_info = NoInfo /\ file = << >> /\ ValidInfo(info) /\ w_info' = info
      /\ w_index' = [slot \in 0..IndexesFor(info) - 1 |-> IndexUnit(0, 0)]
      /\ w_offset' = FirstOffset(info)
      /\ UNCHANGED <<w_position, w_finished, w_pc, w_record, w_at, appended, file>>
  BY DEF CreateWriter
<1>2. w_pc = "idle" /\ w_position = 0 /\ appended = << >> /\ OfUnits(file) /\ w_at \in Nat
  BY <1>1 DEF WriterInv, WriterTypeOK
<1>3. KnownInfo(info)
  BY WriterAssumption DEF KnownInfo
<1>4. RecordsFor(info) \in Nat /\ FirstOffset(info) \in Nat
  BY <1>3, Numbers
<1>5. Len(file) = 0 /\ Len(appended) = 0
  BY <1>1, <1>2
<1>6. info # NoInfo
  BY <1>3 DEF KnownInfo, NoInfo
<1>7. OfUnits(file')
  BY <1>1, <1>2
<1>8. \A slot \in 0..IndexesFor(info) - 1 : w_index'[slot].is = "index"
  BY <1>1 DEF IndexUnit
<1>9. WriterTypeOK'
  <2>1. w_position' \in 0..RecordsFor(w_info') /\ w_position' = Len(appended')
    BY <1>1, <1>2, <1>4, <1>5
  <2>2. w_offset' \in Nat /\ w_offset' >= FirstOffset(w_info')
    BY <1>1, <1>4
  <2>3. appended' \in Seq(MonoRecords(Nat) \cup StereoRecords)
    BY <1>1, <1>2
  <2>4. (w_index = [slot \in 0..IndexesFor(w_info) - 1 |-> w_index[slot]])'
    BY <1>1
  <2> QED BY <1>1, <1>2, <1>6, <1>7, <1>8, <2>1, <2>2, <2>3, <2>4 DEF WriterTypeOK
<1>10. \E place \in [0..w_position' -> FirstOffset(w_info')..w_offset'] : AppendedStands(place)'
  <2> DEFINE place == [n \in 0..0 |-> FirstOffset(info)]
  <2>1. place \in [0..w_position' -> FirstOffset(w_info')..w_offset']
    BY <1>1, <1>2, <1>4
  <2>2. AppendedStands(place)'
    <3>1. 0..w_position' - 1 = {}
      BY <1>1, <1>2
    <3>2. place[0] = FirstOffset(w_info') /\ place[w_position'] = w_offset'
      BY <1>1, <1>2
    <3> HIDE DEF place
    <3> QED BY <3>1, <3>2 DEF AppendedStands
  <2> HIDE DEF place
  <2> QED BY <2>1, <2>2
<1>11. AppendStands' /\ FinishStands'
  BY <1>1, <1>2 DEF AppendStands, FinishStands
<1>12. HeaderStands'
  <2>1. \A k \in 1..HeaderUnits : ~(k <= Len(file'))
    BY <1>1, <1>5
  <2> QED BY <2>1 DEF HeaderStands
<1> QED BY <1>9, <1>10, <1>11, <1>12 DEF WriterInv

\* What a write does to the file on disk.
LEMMA FileWritten ==
    ASSUME OfUnits(file), NEW offset, NEW unit, file' = WriteAt(file, offset, unit),
           offset \in Nat, unit.is = "length" => unit.size \in Nat
    PROVE  /\ OfUnits(file')
           /\ Len(file') = IF offset < Len(file) THEN Len(file) ELSE offset + 1
           /\ file'[offset + 1] = unit
           /\ \A k \in 1..Len(file) : k # offset + 1 => file'[k] = file[k]
           /\ \A k \in 1..offset : k > Len(file) => file'[k] = Hole
<1> DEFINE g == WriteAt(file, offset, unit)
<1>1. OfUnits(g)
  BY ONLY OfUnits(file), offset \in Nat, unit.is = "length" => unit.size \in Nat, UnitWritten
<1>2. Len(g) = IF offset < Len(file) THEN Len(file) ELSE offset + 1
  BY ONLY OfUnits(file), offset \in Nat, unit.is = "length" => unit.size \in Nat, UnitWritten
<1>3. g[offset + 1] = unit
  <2>1. offset + 1 \in 1..(IF offset < Len(file) THEN Len(file) ELSE offset + 1)
    BY DEF OfUnits
  <2> QED BY <2>1 DEF WriteAt
<1>4. \A k \in 1..Len(file) : k # offset + 1 => g[k] = file[k]
  <2> TAKE k \in 1..Len(file)
  <2>1. k \in 1..(IF offset < Len(file) THEN Len(file) ELSE offset + 1) /\ k <= Len(file)
    BY DEF OfUnits
  <2> QED BY <2>1 DEF WriteAt
<1>5. \A k \in 1..offset : k > Len(file) => g[k] = Hole
  <2> TAKE k \in 1..offset
  <2> HAVE k > Len(file)
  <2>1. /\ k \in 1..(IF offset < Len(file) THEN Len(file) ELSE offset + 1)
        /\ ~(k <= Len(file)) /\ k # offset + 1
    BY DEF OfUnits
  <2> QED BY <2>1 DEF WriteAt
<1>6. file' = g
  OBVIOUS
<1> HIDE DEF g
<1> QED BY <1>1, <1>2, <1>3, <1>4, <1>5, <1>6

\* What is appended stays where it is when the file is written behind it or before it.
LEMMA PlacesStay ==
    ASSUME WriterTypeOK, w_info # NoInfo,
           NEW place \in [0..w_position -> FirstOffset(w_info)..w_offset], AppendedStands(place),
           UNCHANGED <<w_info, w_position, w_offset, w_index, appended>>,
           Len(file') \in Nat, Len(file) <= Len(file'),
           \A k \in 1..Len(file) : k > FirstOffset(w_info) /\ k <= w_offset => file'[k] = file[k]
    PROVE  AppendedStands(place)'
<1>1. /\ w_position \in Nat /\ FirstOffset(w_info) \in Nat /\ w_offset \in Nat
      /\ OfUnits(file) /\ Len(file) \in Nat /\ w_position = Len(appended)
  BY WriterNumbers
<1>2. ASSUME NEW n \in 0..w_position - 1
      PROVE  WrittenAt(file, appended[n + 1], place[n], appended[n + 1].size + 1)'
  <2> DEFINE record == appended[n + 1]
  <2>1. /\ place[n + 1] = place[n] + record.size + 1 /\ place[n + 1] <= w_offset
        /\ WrittenAt(file, record, place[n], record.size + 1)
    BY <1>2 DEF AppendedStands
  <2>2. n \in 0..w_position /\ n + 1 \in 1..Len(appended)
    BY <1>1
  <2>3. place[n] \in Nat /\ place[n] >= FirstOffset(w_info)
    BY <1>1, <2>2
  <2>4. record \in MonoRecords(Nat) \cup StereoRecords
    BY <2>2 DEF WriterTypeOK
  <2>5. record.size \in Nat
    BY <2>4, SizeOfRecord
  <2> DEFINE units == record.size + 1
  <2>6. units \in Nat /\ place[n] + units <= w_offset
    <3> HIDE DEF record
    <3> QED BY <1>1, <2>1, <2>3, <2>5
  <2>7. \A k \in 1..Len(file) : k > place[n] /\ k <= place[n] + units => file'[k] = file[k]
    <3> HIDE DEF units
    <3> TAKE k \in 1..Len(file)
    <3> HAVE k > place[n] /\ k <= place[n] + units
    <3>1. k > FirstOffset(w_info) /\ k <= w_offset
      BY <1>1, <2>3, <2>6
    <3> QED BY <3>1
  <2>8. WrittenAt(file, record, place[n], units)
    BY <2>1
  <2> HIDE DEF record, units
  <2>9. WrittenAt(file', record, place[n], units)
    BY <1>1, <2>3, <2>6, <2>7, <2>8, RecordStays
  <2> QED BY <2>9 DEF record, units
<1> QED BY <1>2 DEF AppendedStands

\* A record is about to be appended: its index entry is new.
LEMMA AppendRecordKeeps ==
    ASSUME WriterInv, w_info # NoInfo, NEW record \in CallerRecords, AppendRecord(record)
    PROVE  WriterInv'
<1> DEFINE slot == IndexSlot(w_info, w_position)
<1>1. /\ w_pc = "idle" /\ w_position < RecordsFor(w_info)
      /\ ValidRecord(w_info, w_position, record)
      /\ w_index' = IF Indexed(w_info, w_position)
                    THEN [w_index EXCEPT ![slot] = IndexUnit(w_position, w_offset)]
                    ELSE w_index
      /\ w_record' = record /\ w_at' = 0 /\ w_pc' = "append"
      /\ UNCHANGED <<w_info, w_position, w_offset, w_finished, appended, file>>
  BY DEF AppendRecord
<1>2. WriterTypeOK /\ HeaderStands
  BY DEF WriterInv
<1>3. /\ KnownInfo(w_info) /\ RecordsFor(w_info) \in Nat /\ w_position \in Nat
      /\ w_position \in 0..RecordsFor(w_info) - 1
  BY <1>1, <1>2, WriterNumbers
<1>4. /\ w_index = [k \in 0..IndexesFor(w_info) - 1 |-> w_index[k]]
      /\ \A k \in 0..IndexesFor(w_info) - 1 : w_index[k].is = "index"
  BY <1>2 DEF WriterTypeOK
<1>5. Indexed(w_info, w_position) =>
         /\ slot \in 0..IndexesFor(w_info) - 1
         /\ \A n \in 0..RecordsFor(w_info) - 1 :
               Indexed(w_info, n) /\ IndexSlot(w_info, n) = slot => n = w_position
  BY <1>3, Slots
<1> HIDE DEF slot
<1>6. /\ w_index' = [k \in 0..IndexesFor(w_info) - 1 |-> w_index'[k]]
      /\ \A k \in 0..IndexesFor(w_info) - 1 : k = slot \/ w_index'[k] = w_index[k]
      /\ Indexed(w_info, w_position) => w_index'[slot] = IndexUnit(w_position, w_offset)
      /\ \A k \in 0..IndexesFor(w_info) - 1 : w_index'[k].is = "index"
      /\ ~Indexed(w_info, w_position) => w_index' = w_index
  BY <1>1, <1>4, <1>5 DEF IndexUnit
<1>7. WriterTypeOK'
  <2> HIDE DEF IndexesFor, RecordsFor
  <2> QED BY <1>1, <1>2, <1>6 DEF WriterTypeOK, OfUnits
<1>8. record \in MonoRecords(Nat) \cup StereoRecords
  <2>1. 0..RecordsFor(w_info) \subseteq Nat
    BY <1>3
  <2> QED BY <2>1 DEF CallerRecords, MonoRecords, StereoRecords
<1>9. record.size \in Nat
  BY <1>8, SizeOfRecord
<1>10. AppendStands'
  <2>1. Indexed(w_info, w_position) => w_index'[slot] = IndexUnit(w_position, w_offset)
    BY <1>6
  <2>2. WrittenAt(file, record, w_offset, 0)'
    BY <1>1 DEF WrittenAt
  <2> QED BY <1>1, <1>8, <1>9, <2>1, <2>2 DEF AppendStands, slot, WrittenAt
<1>11. FinishStands'
  BY <1>1 DEF FinishStands
<1>12. HeaderStands'
  <2>1. \A k \in 1..HeaderUnits : k <= Len(file) => file[k].is # "header"
    BY <1>1, <1>2, NoHeaderYet
  <2> QED BY <1>1, <2>1 DEF HeaderStands
<1>13. PICK place \in [0..w_position -> FirstOffset(w_info)..w_offset] : AppendedStands(place)
  BY DEF WriterInv
<1>14. AppendedStands(place)'
  <2>1. ASSUME NEW n \in 0..w_position - 1, Indexed(w_info, n)
        PROVE  w_index'[IndexSlot(w_info, n)] = IndexUnit(n, place[n])
    <3>1. n \in 0..RecordsFor(w_info) - 1 /\ n # w_position
      BY <1>3
    <3>2. IndexSlot(w_info, n) \in 0..IndexesFor(w_info) - 1
      BY <1>3, <2>1, <3>1, Slots
    <3>3. w_index[IndexSlot(w_info, n)] = IndexUnit(n, place[n])
      BY <1>13, <2>1 DEF AppendedStands
    <3>4. w_index'[IndexSlot(w_info, n)] = w_index[IndexSlot(w_info, n)]
      <4>1. CASE Indexed(w_info, w_position)
        <5>1. IndexSlot(w_info, n) # slot
          BY <1>5, <2>1, <3>1, <4>1
        <5> QED BY <1>6, <3>2, <5>1
      <4>2. CASE ~Indexed(w_info, w_position)
        BY <1>6, <4>2
      <4> QED BY <4>1, <4>2
    <3> QED BY <3>3, <3>4
  <2>2. \A n \in 0..w_position - 1 :
           Indexed(w_info, n) => w_index'[IndexSlot(w_info, n)] = IndexUnit(n, place[n])
    BY <2>1
  <2> QED BY <1>1, <1>13, <2>2 DEF AppendedStands, WrittenAt
<1>15. \E p \in [0..w_position' -> FirstOffset(w_info')..w_offset'] : AppendedStands(p)'
  BY <1>1, <1>13, <1>14
<1> QED BY <1>7, <1>10, <1>11, <1>12, <1>15 DEF WriterInv

\* A unit of the record is written.
LEMMA AppendUnitKeeps == ASSUME WriterInv, w_info # NoInfo, AppendUnit PROVE WriterInv'
<1> DEFINE unit == IF w_at = 0 THEN LengthUnit(w_record.size) ELSE RecordUnit(w_record, w_at)
           offset == w_offset + w_at
<1>1. /\ w_pc = "append" /\ w_at <= w_record.size
      /\ file' = WriteAt(file, offset, unit) /\ w_at' = w_at + 1
      /\ UNCHANGED <<w_info, w_position, w_offset, w_index, w_finished, w_pc, w_record, appended>>
  BY DEF AppendUnit, Transfer
<1>2. WriterTypeOK /\ AppendStands /\ HeaderStands
  BY DEF WriterInv
<1>3. /\ w_record \in MonoRecords(Nat) \cup StereoRecords
      /\ w_position < RecordsFor(w_info) /\ ValidRecord(w_info, w_position, w_record)
      /\ WrittenAt(file, w_record, w_offset, w_at)
      /\ Indexed(w_info, w_position) =>
            w_index[IndexSlot(w_info, w_position)] = IndexUnit(w_position, w_offset)
  BY <1>1, <1>2 DEF AppendStands
<1>4. w_record.size \in Nat
  BY <1>3, SizeOfRecord
<1>5. /\ RecordsFor(w_info) \in Nat /\ w_position \in Nat /\ FirstOffset(w_info) \in Nat
      /\ HeaderUnits \in Nat /\ IndexesFor(w_info) \in Nat
      /\ FirstOffset(w_info) = HeaderUnits + IndexesFor(w_info)
      /\ w_offset \in Nat /\ w_offset >= FirstOffset(w_info) /\ w_at \in Nat
      /\ OfUnits(file) /\ Len(file) \in Nat
  BY <1>2, WriterNumbers
<1>6. offset \in Nat /\ offset >= HeaderUnits /\ offset >= w_offset
  BY <1>5
<1>7. unit.is = "length" => unit.size \in Nat
  BY <1>4 DEF LengthUnit, RecordUnit
<1> HIDE DEF offset, unit
<1>8. /\ OfUnits(file')
      /\ Len(file') = IF offset < Len(file) THEN Len(file) ELSE offset + 1
      /\ file'[offset + 1] = unit
      /\ \A k \in 1..Len(file) : k # offset + 1 => file'[k] = file[k]
      /\ \A k \in 1..offset : k > Len(file) => file'[k] = Hole
  BY <1>1, <1>5, <1>6, <1>7, FileWritten
<1>9. Len(file') \in Nat /\ Len(file) <= Len(file') /\ offset + 1 <= Len(file')
  BY <1>5, <1>6, <1>8
<1>10. WriterTypeOK'
  <2>1. w_at' \in Nat
    BY <1>1, <1>5
  <2> QED BY <1>1, <1>2, <1>8, <2>1 DEF WriterTypeOK
<1>11. AppendStands'
  <2>1. WrittenAt(file', w_record, w_offset, w_at + 1)
    <3>1. w_offset + (w_at + 1) <= Len(file')
      BY <1>5, <1>9 DEF offset
    <3>2. file'[w_offset + 1] = LengthUnit(w_record.size)
      <4>1. CASE w_at = 0
        BY <1>5, <1>8, <4>1 DEF offset, unit
      <4>2. CASE w_at # 0
        <5>1. w_offset + 1 \in 1..Len(file) /\ w_offset + 1 # offset + 1
              /\ file[w_offset + 1] = LengthUnit(w_record.size)
          BY <1>3, <1>5, <4>2 DEF WrittenAt, offset
        <5> QED BY <1>8, <5>1
      <4> QED BY <4>1, <4>2
    <3>3. ASSUME NEW k \in 1..w_at PROVE file'[w_offset + 1 + k] = RecordUnit(w_record, k)
      <4>1. CASE k = w_at
        <5>1. w_offset + 1 + k = offset + 1 /\ w_at # 0
          BY <1>5, <4>1 DEF offset
        <5> QED BY <1>8, <4>1, <5>1 DEF unit
      <4>2. CASE k # w_at
        <5>1. k \in 1..w_at - 1 /\ w_offset + 1 + k \in 1..Len(file) /\ w_offset + 1 + k # offset + 1
          BY <1>3, <1>5, <3>3, <4>2 DEF WrittenAt, offset
        <5>2. file[w_offset + 1 + k] = RecordUnit(w_record, k)
          BY <1>3, <5>1 DEF WrittenAt
        <5> QED BY <1>8, <5>1, <5>2
      <4> QED BY <4>1, <4>2
    <3>4. (w_at + 1) - 1 = w_at
      BY <1>5
    <3> QED BY <3>1, <3>2, <3>3, <3>4 DEF WrittenAt
  <2>2. w_at + 1 <= w_record.size + 1
    BY <1>1, <1>4, <1>5
  <2> QED BY <1>1, <1>3, <2>1, <2>2 DEF AppendStands
<1>12. FinishStands'
  BY <1>1 DEF FinishStands
<1>13. HeaderStands'
  <2>1. \A k \in 1..HeaderUnits : k <= Len(file) => file[k].is # "header"
    BY <1>2, <1>3, NoHeaderYet
  <2>2. ASSUME NEW k \in 1..HeaderUnits, k <= Len(file') PROVE file'[k].is # "header"
    <3>1. k \in 1..offset /\ k # offset + 1
      BY <1>5, <1>6
    <3>2. CASE k <= Len(file)
      BY <1>5, <1>8, <2>1, <3>1, <3>2
    <3>3. CASE ~(k <= Len(file))
      <4>1. file'[k] = Hole
        BY <1>5, <1>8, <3>1, <3>3
      <4> QED BY <4>1 DEF Hole
    <3> QED BY <3>2, <3>3
  <2> QED BY <2>2 DEF HeaderStands
<1>14. PICK place \in [0..w_position -> FirstOffset(w_info)..w_offset] : AppendedStands(place)
  BY DEF WriterInv
<1>15. AppendedStands(place)'
  <2>1. \A k \in 1..Len(file) : k > FirstOffset(w_info) /\ k <= w_offset => file'[k] = file[k]
    BY <1>5, <1>6, <1>8
  <2> QED BY <1>1, <1>2, <1>9, <1>14, <2>1, PlacesStay
<1>16. \E p \in [0..w_position' -> FirstOffset(w_info')..w_offset'] : AppendedStands(p)'
  BY <1>1, <1>14, <1>15
<1> QED BY <1>10, <1>11, <1>12, <1>13, <1>16 DEF WriterInv

\* What the writer knows when the file and the writer's places are as they were.
LEMMA SameFileKeeps ==
    ASSUME WriterInv, w_info # NoInfo, w_pc' \in {"idle", "finish"},
           UNCHANGED <<w_info, w_position, w_offset, w_index, appended, file>>,
           w_at' \in Nat, FinishStands'
    PROVE  WriterInv'
<1>1. WriterTypeOK'
  BY DEF WriterInv, WriterTypeOK, OfUnits
<1>2. AppendStands'
  BY DEF AppendStands
<1>3. HeaderStands'
  BY DEF WriterInv, HeaderStands, Appended
<1>4. PICK place \in [0..w_position -> FirstOffset(w_info)..w_offset] : AppendedStands(place)
  BY DEF WriterInv
<1>5. AppendedStands(place)'
  BY <1>4 DEF AppendedStands, WrittenAt
<1>6. \E p \in [0..w_position' -> FirstOffset(w_info')..w_offset'] : AppendedStands(p)'
  BY <1>4, <1>5
<1> QED BY <1>1, <1>2, <1>3, <1>6 DEF WriterInv

\* A write fails.
LEMMA TransferFailsKeeps == ASSUME WriterInv, w_info # NoInfo, TransferFails PROVE WriterInv'
<1>1. /\ w_pc' = "idle" /\ w_at' = 0
      /\ UNCHANGED <<w_info, w_position, w_offset, w_index, appended, file>>
  BY DEF TransferFails, Idle
<1>2. FinishStands'
  BY <1>1 DEF FinishStands
<1> QED BY <1>1, <1>2, SameFileKeeps

\* The file is finished.
LEMMA FinishReturnsKeeps == ASSUME WriterInv, w_info # NoInfo, FinishReturns PROVE WriterInv'
<1>1. /\ w_pc' = "idle" /\ w_at' = 0
      /\ UNCHANGED <<w_info, w_position, w_offset, w_index, appended, file>>
  BY DEF FinishReturns, Idle
<1>2. FinishStands'
  BY <1>1 DEF FinishStands
<1> QED BY <1>1, <1>2, SameFileKeeps

\* The index is about to be written.
LEMMA FinishKeeps == ASSUME WriterInv, Finish PROVE WriterInv'
<1>1. /\ w_info # NoInfo /\ w_pc' = "finish" /\ w_at' = 0
      /\ w_position = RecordsFor(w_info) /\ Len(file) = w_offset
      /\ UNCHANGED <<w_info, w_position, w_offset, w_index, appended, file>>
  BY DEF Finish, Writing
<1>2. FirstOffset(w_info) \in Nat /\ IndexesFor(w_info) \in Nat
  BY <1>1, WriterNumbers DEF WriterInv
<1>3. FinishStands'
  <2>1. \A slot \in 0..IndexesFor(w_info) - 1 : ~(slot < 0)
    BY <1>2
  <2> QED BY <1>1, <1>2, <2>1 DEF FinishStands, Appended
<1> QED BY <1>1, <1>3, SameFileKeeps

\* A record is appended.
LEMMA AppendReturnsKeeps == ASSUME WriterInv, w_info # NoInfo, AppendReturns PROVE WriterInv'
<1> DEFINE size == w_record.size
<1>1. /\ w_pc = "append" /\ w_at = size + 1
      /\ w_position' = w_position + 1 /\ w_offset' = w_offset + size + 1
      /\ appended' = Append(appended, w_record)
      /\ w_pc' = "idle" /\ w_at' = 0
      /\ UNCHANGED <<w_info, w_index, w_finished, file>>
  BY DEF AppendReturns, Idle
<1>2. WriterTypeOK /\ AppendStands /\ HeaderStands
  BY DEF WriterInv
<1>3. /\ w_record \in MonoRecords(Nat) \cup StereoRecords
      /\ w_position < RecordsFor(w_info) /\ ValidRecord(w_info, w_position, w_record)
      /\ WrittenAt(file, w_record, w_offset, size + 1)
      /\ Indexed(w_info, w_position) =>
            w_index[IndexSlot(w_info, w_position)] = IndexUnit(w_position, w_offset)
  BY <1>1, <1>2 DEF AppendStands
<1>4. size \in Nat
  BY <1>3, SizeOfRecord
<1>5. /\ RecordsFor(w_info) \in Nat /\ w_position \in Nat /\ w_position = Len(appended)
      /\ FirstOffset(w_info) \in Nat /\ w_offset \in Nat /\ w_offset >= FirstOffset(w_info)
  BY <1>2, WriterNumbers
<1>6. appended \in Seq(MonoRecords(Nat) \cup StereoRecords)
  BY <1>2 DEF WriterTypeOK
<1> DEFINE Recs == MonoRecords(Nat) \cup StereoRecords
<1>7. /\ appended' \in Seq(Recs) /\ Len(appended') = w_position + 1
      /\ appended'[w_position + 1] = w_record
      /\ \A n \in 1..w_position : appended'[n] = appended[n]
  <2> HIDE DEF Recs
  <2> QED BY <1>1, <1>3, <1>5, <1>6 DEF Recs
<1> HIDE DEF size
<1>8. WriterTypeOK'
  <2>1. w_position' \in 0..RecordsFor(w_info) /\ w_position' = Len(appended')
    BY <1>1, <1>3, <1>5, <1>7
  <2>2. w_offset' \in Nat /\ w_offset' >= FirstOffset(w_info)
    BY <1>1, <1>4, <1>5
  <2> QED BY <1>1, <1>2, <1>7, <2>1, <2>2 DEF WriterTypeOK, OfUnits
<1>9. AppendStands' /\ FinishStands'
  BY <1>1 DEF AppendStands, FinishStands
<1>10. HeaderStands'
  <2>1. \A k \in 1..HeaderUnits : k <= Len(file) => file[k].is # "header"
    BY <1>2, <1>3, NoHeaderYet
  <2> QED BY <1>1, <2>1 DEF HeaderStands
<1>11. PICK place \in [0..w_position -> FirstOffset(w_info)..w_offset] : AppendedStands(place)
  BY DEF WriterInv
<1>18. PICK next : next = [n \in 0..w_position' |-> IF n = w_position' THEN w_offset' ELSE place[n]]
  OBVIOUS
<1>12. /\ \A n \in 0..w_position : next[n] = place[n]
       /\ next[w_position + 1] = w_offset'
       /\ next \in [0..w_position' -> FirstOffset(w_info')..w_offset']
  <2>1. \A n \in 0..w_position : n \in 0..w_position' /\ n # w_position'
    BY <1>1, <1>5
  <2>2. \A n \in 0..w_position' : n = w_position' \/ n \in 0..w_position
    BY <1>1, <1>5
  <2>3. \A x \in FirstOffset(w_info)..w_offset : x \in FirstOffset(w_info')..w_offset'
    BY <1>1, <1>4, <1>5
  <2>4. w_offset' \in FirstOffset(w_info')..w_offset' /\ w_position' \in 0..w_position'
    BY <1>1, <1>4, <1>5
  <2>5. \A n \in 0..w_position' : next[n] \in FirstOffset(w_info')..w_offset'
    BY <1>18, <2>2, <2>3, <2>4
  <2> QED BY <1>1, <1>5, <1>18, <2>1, <2>4, <2>5
<1>13. place[0] = FirstOffset(w_info) /\ place[w_position] = w_offset
  BY <1>11 DEF AppendedStands
<1>14. next[0] = FirstOffset(w_info') /\ next[w_position'] = w_offset'
  <2>1. 0 \in 0..w_position
    BY <1>5
  <2> QED BY <1>1, <1>12, <1>13, <2>1
<1>15. ASSUME NEW n \in 0..w_position' - 1
       PROVE  /\ ValidRecord(w_info, n, appended'[n + 1])
              /\ next[n + 1] = next[n] + appended'[n + 1].size + 1
              /\ next[n + 1] <= w_offset'
              /\ WrittenAt(file, appended'[n + 1], next[n], appended'[n + 1].size + 1)
              /\ Indexed(w_info, n) => w_index[IndexSlot(w_info, n)] = IndexUnit(n, next[n])
  <2>1. CASE n = w_position
    <3>1. next[n] = w_offset /\ next[n + 1] = w_offset + size + 1 /\ appended'[n + 1] = w_record
      <4>1. w_position \in 0..w_position
        BY <1>5
      <4> QED BY <1>1, <1>7, <1>12, <1>13, <2>1, <4>1
    <3>2. next[n + 1] <= w_offset'
      BY <1>1, <1>4, <1>5, <3>1
    <3> QED BY <1>3, <2>1, <3>1, <3>2 DEF size
  <2>2. CASE n # w_position
    <3>1. n \in 0..w_position - 1 /\ n \in 0..w_position /\ n + 1 \in 0..w_position
          /\ n + 1 \in 1..w_position
      BY <1>1, <1>5, <2>2
    <3>2. next[n] = place[n] /\ next[n + 1] = place[n + 1] /\ appended'[n + 1] = appended[n + 1]
      BY <1>7, <1>12, <3>1
    <3>3. /\ ValidRecord(w_info, n, appended[n + 1])
          /\ place[n + 1] = place[n] + appended[n + 1].size + 1
          /\ place[n + 1] <= w_offset
          /\ WrittenAt(file, appended[n + 1], place[n], appended[n + 1].size + 1)
          /\ Indexed(w_info, n) => w_index[IndexSlot(w_info, n)] = IndexUnit(n, place[n])
      BY <1>11, <3>1 DEF AppendedStands
    <3>4. place[n + 1] \in FirstOffset(w_info)..w_offset
      BY <3>1
    <3>5. place[n + 1] <= w_offset'
      BY <1>1, <1>4, <1>5, <3>4
    <3> QED BY <3>2, <3>3, <3>5
  <2> QED BY <2>1, <2>2
<1>16. AppendedStands(next)'
  BY <1>1, <1>14, <1>15 DEF AppendedStands
<1>17. \E p \in [0..w_position' -> FirstOffset(w_info')..w_offset'] : AppendedStands(p)'
  BY <1>12, <1>16
<1> QED BY <1>8, <1>9, <1>10, <1>17 DEF WriterInv

\* A write below the records leaves them where they are.
LEMMA BelowRecords ==
    ASSUME WriterInv, w_info # NoInfo,
           UNCHANGED <<w_info, w_position, w_offset, w_index, appended>>, w_pc' = "finish",
           Len(file') = Len(file), OfUnits(file'), w_at' \in Nat,
           \A k \in 1..Len(file) : k > FirstOffset(w_info) => file'[k] = file[k],
           FinishStands', HeaderStands'
    PROVE  WriterInv'
<1>1. WriterTypeOK /\ Len(file) \in Nat /\ FirstOffset(w_info) \in Nat
  BY WriterNumbers DEF WriterInv
<1>2. WriterTypeOK'
  BY <1>1 DEF WriterTypeOK
<1>3. AppendStands'
  BY DEF AppendStands
<1>4. PICK place \in [0..w_position -> FirstOffset(w_info)..w_offset] : AppendedStands(place)
  BY DEF WriterInv
<1>5. AppendedStands(place)'
  <2>1. Len(file') \in Nat /\ Len(file) <= Len(file')
    BY <1>1
  <2>2. \A k \in 1..Len(file) : k > FirstOffset(w_info) /\ k <= w_offset => file'[k] = file[k]
    OBVIOUS
  <2> QED BY <1>1, <1>4, <2>1, <2>2, PlacesStay
<1>6. \E p \in [0..w_position' -> FirstOffset(w_info')..w_offset'] : AppendedStands(p)'
  BY <1>4, <1>5
<1> QED BY <1>2, <1>3, <1>6 DEF WriterInv

\* A unit of the index or the header is written.
LEMMA FinishUnitKeeps ==
    ASSUME WriterInv, w_info # NoInfo, FinishUnit
    PROVE  /\ WriterInv'
           /\ Len(file') = Len(file)
           /\ \A k \in 1..HeaderUnits : file[k].is = "header" => file'[k] = file[k]
           /\ (\A k \in 1..HeaderUnits : file[k].is = "header") => file' = file
<1> DEFINE I == IndexesFor(w_info)
           unit == IF w_at < I THEN w_index[w_at] ELSE HeaderUnit(w_info, w_at - I + 1)
           offset == IF w_at < I THEN HeaderUnits + w_at ELSE w_at - I
<1>1. /\ w_pc = "finish" /\ w_at < FirstOffset(w_info)
      /\ file' = WriteAt(file, offset, unit) /\ w_at' = w_at + 1
      /\ UNCHANGED <<w_info, w_position, w_offset, w_index, w_finished, w_pc, w_record, appended>>
  BY DEF FinishUnit, Transfer
<1>2. WriterTypeOK /\ FinishStands /\ HeaderStands
  BY DEF WriterInv
<1>3. /\ Appended /\ w_position = RecordsFor(w_info) /\ Len(file) = w_offset
      /\ \A slot \in 0..I - 1 : slot < w_at => file[HeaderUnits + slot + 1] = w_index[slot]
  BY <1>1, <1>2 DEF FinishStands, Appended
<1>4. /\ FirstOffset(w_info) \in Nat /\ HeaderUnits \in Nat \ {0} /\ I \in Nat
      /\ FirstOffset(w_info) = HeaderUnits + I
      /\ w_offset \in Nat /\ w_offset >= FirstOffset(w_info) /\ w_at \in Nat
      /\ OfUnits(file) /\ Len(file) \in Nat
  BY <1>2, WriterNumbers
<1>5. \A slot \in 0..I - 1 : w_index[slot].is = "index"
  BY <1>2 DEF WriterTypeOK
<1> HIDE DEF I
<1>6. offset \in Nat /\ offset < FirstOffset(w_info) /\ offset < Len(file)
  BY <1>1, <1>3, <1>4
<1>7. unit.is \in {"index", "header"}
  <2>1. CASE w_at < I
    <3>1. w_at \in 0..I - 1
      BY <1>4, <2>1
    <3> QED BY <1>5, <2>1, <3>1
  <2>2. CASE ~(w_at < I)
    BY <2>2 DEF HeaderUnit
  <2> QED BY <2>1, <2>2
<1>8. /\ OfUnits(file') /\ Len(file') = Len(file) /\ file'[offset + 1] = unit
      /\ \A k \in 1..Len(file) : k # offset + 1 => file'[k] = file[k]
  <2>1. unit.is = "length" => unit.size \in Nat
    BY <1>7
  <2> HIDE DEF unit, offset
  <2> QED BY <1>1, <1>4, <1>6, <2>1, FileWritten
<1>9. FirstOffset(w_info) <= Len(file) /\ HeaderUnits <= Len(file)
  BY <1>3, <1>4
<1>10. \A slot \in 0..I - 1 : slot < w_at + 1 => file'[HeaderUnits + slot + 1] = w_index[slot]
  <2> TAKE slot \in 0..I - 1
  <2> HAVE slot < w_at + 1
  <2>1. HeaderUnits + slot + 1 \in 1..Len(file)
    BY <1>4, <1>9
  <2>2. CASE slot = w_at
    <3>1. offset + 1 = HeaderUnits + slot + 1 /\ unit = w_index[slot]
      BY <1>4, <2>2
    <3> QED BY <1>8, <3>1
  <2>3. CASE slot # w_at
    <3>1. slot < w_at /\ HeaderUnits + slot + 1 # offset + 1
      BY <1>1, <1>4, <2>3
    <3> QED BY <1>3, <1>8, <2>1, <3>1
  <2> QED BY <2>2, <2>3
<1>11. FinishStands'
  <2>1. Appended'
    BY <1>1, <1>3, <1>8 DEF Appended
  <2>2. w_at + 1 <= FirstOffset(w_info)
    BY <1>1, <1>4
  <2> QED BY <1>1, <1>10, <2>1, <2>2 DEF FinishStands, I
<1>12. \A k \in 1..HeaderUnits :
          /\ k \in 1..Len(file)
          /\ k # offset + 1 => file'[k] = file[k]
          /\ k = offset + 1 => w_at >= I /\ file'[k] = HeaderUnit(w_info, k)
  <2> TAKE k \in 1..HeaderUnits
  <2>1. k \in 1..Len(file)
    BY <1>4, <1>9
  <2>2. ASSUME k = offset + 1 PROVE w_at >= I /\ file'[k] = HeaderUnit(w_info, k)
    <3>1. w_at >= I /\ k = w_at - I + 1
      BY <1>4, <2>2
    <3>2. unit = HeaderUnit(w_info, k)
      BY <1>4, <3>1
    <3> QED BY <1>8, <2>2, <3>1, <3>2
  <2> QED BY <1>8, <2>1, <2>2
<1>13. \A k \in 1..HeaderUnits : file[k].is = "header" =>
          /\ file[k] = HeaderUnit(w_info, k)
          /\ \A slot \in 0..I - 1 : file[HeaderUnits + slot + 1] = w_index[slot]
  BY <1>2, <1>12 DEF HeaderStands, I
<1>14. (\E k \in 1..HeaderUnits : file'[k].is = "header")
          => \A slot \in 0..I - 1 : file'[HeaderUnits + slot + 1] = w_index[slot]
  <2> SUFFICES ASSUME NEW k \in 1..HeaderUnits, file'[k].is = "header", NEW slot \in 0..I - 1
               PROVE  file'[HeaderUnits + slot + 1] = w_index[slot]
    OBVIOUS
  <2>1. HeaderUnits + slot + 1 \in 1..Len(file)
    BY <1>4, <1>9
  <2>2. CASE k = offset + 1
    <3>1. slot < w_at + 1
      BY <1>4, <1>12, <2>2
    <3> QED BY <1>10, <3>1
  <2>3. CASE k # offset + 1
    <3>1. file[HeaderUnits + slot + 1] = w_index[slot]
      BY <1>12, <1>13, <2>3
    <3>2. CASE slot < w_at + 1
      BY <1>10, <3>2
    <3>3. CASE ~(slot < w_at + 1)
      <4>1. HeaderUnits + slot + 1 # offset + 1
        BY <1>4, <3>3
      <4> QED BY <1>8, <2>1, <3>1, <4>1
    <3> QED BY <3>2, <3>3
  <2> QED BY <2>2, <2>3
<1>15. HeaderStands'
  <2>1. Appended'
    BY <1>1, <1>3, <1>8 DEF Appended
  <2>2. \A k \in 1..HeaderUnits : file'[k].is = "header" => file'[k] = HeaderUnit(w_info, k)
    BY <1>12, <1>13
  <2> QED BY <1>1, <1>14, <2>1, <2>2 DEF HeaderStands, I
<1>16. \A k \in 1..Len(file) : k > FirstOffset(w_info) => file'[k] = file[k]
  <2> HIDE DEF offset
  <2> QED BY <1>4, <1>6, <1>8
<1>17. WriterInv'
  <2>1. w_at' \in Nat
    BY <1>1, <1>4
  <2> QED BY <1>1, <1>8, <1>11, <1>15, <1>16, <2>1, BelowRecords
<1>18. \A k \in 1..HeaderUnits : file[k].is = "header" => file'[k] = file[k]
  BY <1>12, <1>13
<1>19. ASSUME \A k \in 1..HeaderUnits : file[k].is = "header" PROVE file' = file
  <2>1. \A slot \in 0..I - 1 : file[HeaderUnits + slot + 1] = w_index[slot]
    <3>1. 1 \in 1..HeaderUnits
      BY <1>4
    <3> QED BY <1>13, <1>19, <3>1
  <2>2. file[offset + 1] = unit
    <3>1. CASE w_at < I
      <4>1. w_at \in 0..I - 1
        BY <1>4, <3>1
      <4> QED BY <2>1, <3>1, <4>1
    <3>2. CASE ~(w_at < I)
      <4>1. offset + 1 \in 1..HeaderUnits /\ offset + 1 = w_at - I + 1
        BY <1>1, <1>4, <3>2
      <4>2. file[offset + 1] = HeaderUnit(w_info, offset + 1)
        BY <1>13, <1>19, <4>1
      <4> QED BY <3>2, <4>1, <4>2
    <3> QED BY <3>1, <3>2
  <2> HIDE DEF offset, unit
  <2>3. \A k \in 1..Len(file) : file'[k] = file[k]
    BY <1>8, <2>2
  <2>4. file = [k \in 1..Len(file) |-> file[k]] /\ file' = [k \in 1..Len(file') |-> file'[k]]
    BY <1>4, <1>8 DEF OfUnits
  <2>5. [k \in 1..Len(file') |-> file'[k]] = [k \in 1..Len(file) |-> file[k]]
    BY <1>8, <2>3
  <2> QED BY ONLY <2>4, <2>5
<1> QED BY <1>8, <1>17, <1>18, <1>19

\* Nothing happens to the writer.
LEMMA WriterWaits == ASSUME WriterInv, UNCHANGED <<writerVars, file>> PROVE WriterInv'
<1> USE DEF writerVars
<1>1. WriterTypeOK'
  BY DEF WriterInv, WriterTypeOK, OfUnits
<1>2. CASE w_info = NoInfo
  BY <1>1, <1>2 DEF WriterInv
<1>3. CASE w_info # NoInfo
  <2>1. AppendStands' /\ FinishStands' /\ HeaderStands'
    BY <1>3 DEF WriterInv, AppendStands, FinishStands, HeaderStands, Appended, WrittenAt
  <2>2. PICK place \in [0..w_position -> FirstOffset(w_info)..w_offset] : AppendedStands(place)
    BY <1>3 DEF WriterInv
  <2>3. AppendedStands(place)'
    BY <2>2 DEF AppendedStands, WrittenAt
  <2>4. \E p \in [0..w_position' -> FirstOffset(w_info')..w_offset'] : AppendedStands(p)'
    BY <2>2, <2>3
  <2> QED BY <1>1, <2>1, <2>4 DEF WriterInv
<1> QED BY <1>2, <1>3

\* Every step of the writer keeps what it knows of the file.
LEMMA WriterStep == ASSUME WriterInv, WriterNext PROVE WriterInv'
<1>1. ASSUME NEW info \in Infos, CreateWriter(info) PROVE WriterInv'
  BY <1>1, CreateWriterKeeps
<1>2. w_pc # "idle" \/ Writing => w_info # NoInfo
  BY DEF WriterInv, WriterTypeOK, Writing
<1>3. ASSUME w_info # NoInfo, NEW record \in CallerRecords, AppendRecord(record) PROVE WriterInv'
  BY <1>3, AppendRecordKeeps
<1>4. CASE AppendUnit
  BY <1>2, <1>4, AppendUnitKeeps DEF AppendUnit
<1>5. CASE AppendReturns
  BY <1>2, <1>5, AppendReturnsKeeps DEF AppendReturns
<1>6. CASE Finish
  BY <1>6, FinishKeeps
<1>7. CASE FinishUnit
  BY <1>2, <1>7, FinishUnitKeeps DEF FinishUnit
<1>8. CASE FinishReturns
  BY <1>2, <1>8, FinishReturnsKeeps DEF FinishReturns
<1>9. CASE TransferFails
  BY <1>2, <1>9, TransferFailsKeeps DEF TransferFails
<1> QED BY <1>1, <1>3, <1>4, <1>5, <1>6, <1>7, <1>8, <1>9 DEF WriterNext

-----------------------------------------------------------------------------
(* A file with a header *)

\* What a header that reads back says of the writer.
LEMMA HeaderIsOurs ==
    ASSUME WriterInv, NEW info, HeaderSays(file, info)
    PROVE  /\ w_info # NoInfo /\ info = w_info /\ Appended
           /\ \A k \in 1..HeaderUnits : k <= Len(file) /\ file[k].is = "header"
           /\ \A slot \in 0..IndexesFor(w_info) - 1 : file[HeaderUnits + slot + 1] = w_index[slot]
<1>1. 1 \in 1..HeaderUnits
  BY ContainerAssumption
<1>2. OfUnits(file)
  BY DEF WriterInv, WriterTypeOK
<1>3. \A k \in 1..HeaderUnits :
         /\ k \in 1..Len(file) /\ file[k] = HeaderUnit(info, k) /\ file[k].is = "header"
  BY <1>2 DEF HeaderSays, HeaderUnit, OfUnits
<1>4. w_info # NoInfo
  <2>1. SUFFICES ASSUME file = << >> PROVE FALSE
    BY DEF WriterInv, WriterTypeOK
  <2>2. Len(file) = 0
    BY <2>1
  <2> QED BY <1>1, <1>3, <2>2
<1>5. HeaderStands
  BY <1>4 DEF WriterInv
<1>6. \A k \in 1..HeaderUnits : k <= Len(file)
  BY <1>2, <1>3 DEF OfUnits
<1>7. /\ file[1] = HeaderUnit(w_info, 1) /\ Appended
      /\ \A slot \in 0..IndexesFor(w_info) - 1 : file[HeaderUnits + slot + 1] = w_index[slot]
  BY <1>1, <1>3, <1>5, <1>6 DEF HeaderStands
<1>8. info = w_info
  <2>1. HeaderUnit(info, 1).of = info /\ HeaderUnit(w_info, 1).of = w_info
    BY DEF HeaderUnit
  <2>2. HeaderUnit(info, 1) = HeaderUnit(w_info, 1)
    BY <1>1, <1>3, <1>7
  <2> QED BY <2>1, <2>2
<1> QED BY <1>3, <1>4, <1>6, <1>7, <1>8

\* The scan finds a record of a complete file where the writer has put it.
LEMMA RecordFound ==
    ASSUME WriterInv, w_info # NoInfo, Appended,
           NEW place \in [0..w_position -> FirstOffset(w_info)..w_offset], AppendedStands(place),
           NEW n \in 0..w_position - 1
    PROVE  /\ place[n] \in Nat /\ RecordThere(file, w_info, n, place[n])
           /\ place[n + 1] = place[n] + 1 + file[place[n] + 1].size
           /\ file[place[n] + 2].of = appended[n + 1]
<1> DEFINE record == appended[n + 1]
           p == place[n]
<1>1. /\ w_position \in Nat /\ FirstOffset(w_info) \in Nat /\ w_offset \in Nat
      /\ w_position = Len(appended) /\ OfUnits(file) /\ Len(file) \in Nat
  BY WriterNumbers DEF WriterInv
<1>2. Len(file) = w_offset
  BY DEF Appended
<1>3. /\ ValidRecord(w_info, n, record) /\ place[n + 1] = p + record.size + 1
      /\ place[n + 1] <= w_offset /\ WrittenAt(file, record, p, record.size + 1)
  BY DEF AppendedStands
<1>4. p \in Nat
  <2>1. n \in 0..w_position
    BY <1>1
  <2> QED BY <1>1, <2>1
<1>5. record.size \in Nat \ {0}
  <2>1. n + 1 \in 1..Len(appended)
    BY <1>1
  <2>2. record \in MonoRecords(Nat) \cup StereoRecords
    BY <2>1 DEF WriterInv, WriterTypeOK
  <2> HIDE DEF record
  <2> QED BY <2>2, SizeOfRecord
<1> HIDE DEF record, p
<1>6. /\ file[p + 1] = LengthUnit(record.size)
      /\ \A k \in 1..record.size : file[p + 1 + k] = RecordUnit(record, k)
  <2>1. record.size + 1 > 0 /\ (record.size + 1) - 1 = record.size
    BY <1>5
  <2> QED BY <1>3, <2>1 DEF WrittenAt
<1>7. file[p + 1].is = "length" /\ file[p + 1].size = record.size
  BY <1>6 DEF LengthUnit
<1>8. file[p + 2] = RecordUnit(record, 1)
  <2>1. 1 \in 1..record.size /\ p + 1 + 1 = p + 2
    BY <1>4, <1>5
  <2> QED BY <1>6, <2>1
<1>9. file[p + 2].is = "record" /\ file[p + 2].of = record
  BY <1>8 DEF RecordUnit
<1>10. p < Len(file) /\ p + 1 + record.size <= Len(file)
  BY <1>1, <1>2, <1>3, <1>4, <1>5
<1>11. RecordThere(file, w_info, n, p)
  BY <1>3, <1>6, <1>7, <1>9, <1>10 DEF RecordThere
<1>12. place[n + 1] = p + 1 + file[p + 1].size
  <2>1. p + record.size + 1 = p + 1 + record.size
    BY <1>4, <1>5
  <2> QED BY <1>3, <1>7, <2>1
<1> QED BY <1>4, <1>9, <1>11, <1>12 DEF p, record

\* A file with a header is complete.
LEMMA HeaderMeansComplete ==
    ASSUME WriterInv, NEW info, HeaderSays(file, info)
    PROVE  info = w_info /\ Accepts(file, info) /\ RecordsIn(file, info) = appended /\ Appended
<1>1. /\ w_info # NoInfo /\ info = w_info /\ Appended
      /\ \A slot \in 0..IndexesFor(w_info) - 1 : file[HeaderUnits + slot + 1] = w_index[slot]
  BY HeaderIsOurs
<1> DEFINE R == RecordsFor(w_info)
           at == Offsets(file, w_info)
<1>2. /\ KnownInfo(w_info) /\ R \in Nat /\ w_position = R /\ Len(file) = w_offset
      /\ w_position = Len(appended) /\ FirstOffset(w_info) \in Nat
  BY <1>1, WriterNumbers DEF WriterInv, Appended
<1>3. PICK place \in [0..w_position -> FirstOffset(w_info)..w_offset] : AppendedStands(place)
  BY <1>1 DEF WriterInv
<1>4. place[0] = FirstOffset(w_info) /\ place[R] = Len(file)
  BY <1>2, <1>3 DEF AppendedStands
<1>5. \A n \in 0..R - 1 :
         /\ place[n] \in Nat /\ RecordThere(file, w_info, n, place[n])
         /\ place[n + 1] = place[n] + 1 + file[place[n] + 1].size
         /\ file[place[n] + 2].of = appended[n + 1]
  BY <1>1, <1>2, <1>3, RecordFound
<1>6. /\ at[0] = FirstOffset(w_info)
      /\ \A n \in 0..R - 1 : at[n + 1] = Behind(file, w_info, n, at[n])
  BY <1>2, ScanSteps
<1> HIDE DEF at, R
<1>7. \A n \in 0..R : at[n] = place[n]
  <2> DEFINE P == {n \in Nat : at[n] = place[n]}
  <2>1. 0 \in P /\ P \in SUBSET Nat
    BY <1>4, <1>6
  <2>2. \A n \in 0..R - 1 : n \in P => n + 1 \in P
    <3> TAKE n \in 0..R - 1
    <3> HAVE n \in P
    <3>1. at[n] = place[n] /\ at[n] # Nowhere /\ n + 1 \in Nat
      BY <1>2, <1>5 DEF Nowhere
    <3>2. at[n + 1] = place[n + 1]
      BY <1>5, <1>6, <3>1 DEF Behind
    <3> QED BY <3>1, <3>2
  <2>3. \A n \in 0..R : n \in P
    <3> HIDE DEF P
    <3> QED BY <1>2, <2>1, <2>2, UpTo
  <2> QED BY <2>3
<1>8. at[R] = Len(file)
  BY <1>2, <1>4, <1>7
<1>9. ASSUME NEW n \in 0..R - 1, Indexed(w_info, n)
      PROVE  file[HeaderUnits + IndexSlot(w_info, n) + 1] = IndexUnit(n, at[n])
  <2>1. IndexSlot(w_info, n) \in 0..IndexesFor(w_info) - 1
    BY <1>2, <1>9, Slots DEF R
  <2>2. w_index[IndexSlot(w_info, n)] = IndexUnit(n, place[n])
    BY <1>2, <1>3, <1>9 DEF AppendedStands
  <2>3. at[n] = place[n]
    BY <1>2, <1>7
  <2> QED BY <1>1, <2>1, <2>2, <2>3
<1>10. Accepts(file, w_info)
  BY <1>1, <1>8, <1>9 DEF Accepts, at, R
<1>11. RecordsIn(file, w_info) = appended
  <2>1. RecordsIn(file, w_info) = [n \in 1..R |-> file[at[n - 1] + 2].of]
    BY DEF RecordsIn, RecordAt, at, R
  <2>2. \A n \in 1..R : file[at[n - 1] + 2].of = appended[n]
    <3> TAKE n \in 1..R
    <3>1. n - 1 \in 0..R - 1 /\ n - 1 \in 0..R /\ (n - 1) + 1 = n
      BY <1>2
    <3> QED BY <1>5, <1>7, <3>1
  <2>3. appended = [n \in 1..R |-> appended[n]]
    <3>1. appended \in Seq(MonoRecords(Nat) \cup StereoRecords)
      BY DEF WriterInv, WriterTypeOK
    <3> QED BY <1>2, <3>1
  <2> QED BY <2>1, <2>2, <2>3
<1> QED BY <1>1, <1>10, <1>11

\* Nobody changes a file that has a header.
LEMMA CompleteStays ==
    ASSUME WriterInv, WriterNext, NEW info, HeaderSays(file, info)
    PROVE  file' = file
<1>1. /\ w_info # NoInfo /\ Appended
      /\ \A k \in 1..HeaderUnits : k <= Len(file) /\ file[k].is = "header"
  BY HeaderIsOurs
<1>2. w_position = RecordsFor(w_info) /\ RecordsFor(w_info) \in Nat
  BY <1>1, WriterNumbers DEF Appended, WriterInv
<1>3. CASE AppendUnit
  <2>1. w_position < RecordsFor(w_info)
    BY <1>1, <1>3 DEF AppendUnit, WriterInv, AppendStands
  <2> QED BY <1>2, <2>1
<1>4. CASE FinishUnit
  BY <1>1, <1>4, FinishUnitKeeps
<1>5. CASE ~(AppendUnit \/ FinishUnit)
  BY <1>5 DEF WriterNext, CreateWriter, AppendRecord, AppendReturns, Finish, FinishReturns,
              TransferFails
<1> QED BY <1>3, <1>4, <1>5

\* A header unit stays in the file.
LEMMA HeaderUnitStays ==
    ASSUME WriterInv, WriterNext, NEW k \in 1..HeaderUnits, k <= Len(file), file[k].is = "header"
    PROVE  k <= Len(file') /\ file'[k] = file[k]
<1>1. w_info # NoInfo
  <2>1. SUFFICES ASSUME file = << >> PROVE FALSE
    BY DEF WriterInv, WriterTypeOK
  <2>2. Len(file) = 0 /\ k > 0
    BY <2>1
  <2> QED BY <2>2
<1>2. Appended
  BY <1>1 DEF WriterInv, HeaderStands
<1>3. w_position = RecordsFor(w_info) /\ RecordsFor(w_info) \in Nat
  BY <1>1, <1>2, WriterNumbers DEF Appended, WriterInv
<1>4. CASE AppendUnit
  <2>1. w_position < RecordsFor(w_info)
    BY <1>1, <1>4 DEF AppendUnit, WriterInv, AppendStands
  <2> QED BY <1>3, <2>1
<1>5. CASE FinishUnit
  BY <1>1, <1>5, FinishUnitKeeps
<1>6. CASE ~(AppendUnit \/ FinishUnit)
  BY <1>6 DEF WriterNext, CreateWriter, AppendRecord, AppendReturns, Finish, FinishReturns,
              TransferFails
<1> QED BY <1>4, <1>5, <1>6

-----------------------------------------------------------------------------
(* The reader and the writer *)

\* A step of the writer leaves what is being copied as it is.
LEMMA WriterKeepsCopy ==
    ASSUME WriterInv, ReaderInv, CopyStands, WriterNext, UNCHANGED readerVars
    PROVE  CopyStands'
<1> USE DEF readerVars, playVars
<1>1. /\ r_pc' = r_pc /\ r_copied' = r_copied /\ r_info' = r_info /\ r_snapshot' = r_snapshot
      /\ WriterInv /\ CopyStands /\ OfUnits(r_copied) /\ Len(r_copied) \in Nat
  BY DEF ReaderInv, OfUnits
<1>2. CASE r_pc = "header"
  <2>1. Len(r_copied) <= HeaderUnits
    BY <1>1, <1>2 DEF CopyStands
  <2>2. ASSUME NEW k \in 1..Len(r_copied), r_copied[k].is = "header"
        PROVE  k <= Len(file') /\ file'[k] = r_copied[k]
    <3>1. k <= Len(file) /\ file[k] = r_copied[k]
      BY <1>1, <1>2, <2>2 DEF CopyStands
    <3>2. k \in 1..HeaderUnits
      BY <1>1, <2>1, ContainerAssumption
    <3>3. file[k].is = "header"
      BY <2>2, <3>1
    <3> QED BY <1>1, <3>1, <3>2, <3>3, HeaderUnitStays
  <2> QED BY <1>1, <1>2, <2>1, <2>2 DEF CopyStands
<1>3. CASE r_pc \in {"copy", "scan", "ready"}
  <2>1. HeaderSays(file, r_info)
    BY <1>1, <1>3 DEF CopyStands
  <2>2. file' = file
    BY <1>1, <2>1, CompleteStays
  <2> QED BY <1>1, <1>3, <2>2 DEF CopyStands, HeaderSays
<1>4. CASE r_pc \notin {"header", "copy", "scan", "ready"}
  BY <1>1, <1>4 DEF CopyStands
<1> QED BY <1>2, <1>3, <1>4

\* A unit is read, or the reader gives up.
LEMMA UnitRead ==
    ASSUME OfUnits(file), OfUnits(r_copied), NEW units, ReadUnit(units), ~Refuse
    PROVE  /\ Len(r_copied) < units /\ Len(r_copied) + 1 \in 1..Len(file)
           /\ Len(r_copied) \in Nat /\ Len(r_copied') = Len(r_copied) + 1
           /\ r_copied'[Len(r_copied) + 1] = file[Len(r_copied) + 1]
           /\ \A k \in 1..Len(r_copied) : r_copied'[k] = r_copied[k]
           /\ UNCHANGED <<file, r_pc, r_info, r_snapshot>>
<1>1. /\ Len(r_copied) < units /\ Len(r_copied) < Len(file)
      /\ r_copied' = Append(r_copied, file[Len(r_copied) + 1])
      /\ UNCHANGED <<file, r_pc, r_info, r_snapshot>>
  BY DEF ReadUnit, diskVars
<1>2. Len(r_copied) \in Nat /\ Len(r_copied) + 1 \in 1..Len(file)
  BY <1>1 DEF OfUnits
<1>3. file[Len(r_copied) + 1].is = "length" => file[Len(r_copied) + 1].size \in Nat
  BY <1>2 DEF OfUnits
<1> QED BY <1>1, <1>2, <1>3, OneMoreUnit

\* The reader gives up.
LEMMA RefuseKeepsCopy == ASSUME Refuse PROVE CopyStands'
  BY DEF Refuse, CopyStands

\* A step of the reader copies what is in the file.
LEMMA ReaderKeepsCopy ==
    ASSUME OfUnits(file), ReaderInv, CopyStands, ReaderNext, UNCHANGED file
    PROVE  CopyStands'
<1>1. /\ CopyStands /\ OfUnits(r_copied) /\ OfUnits(file)
      /\ Len(r_copied) \in Nat /\ Len(file) \in Nat
  BY DEF ReaderInv, OfUnits
<1>2. CASE Refuse
  BY <1>2, RefuseKeepsCopy
<1>3. CASE OpenReader
  <2>1. r_pc' = "header" /\ r_copied' = << >>
    BY <1>1, <1>3 DEF OpenReader, CopyStands
  <2>2. Len(<< >>) = 0
    OBVIOUS
  <2> QED BY <2>1, <2>2, ContainerAssumption DEF CopyStands
<1>4. CASE ReadHeader /\ ~Refuse
  <2>1. r_pc = "header"
    BY <1>4 DEF ReadHeader
  <2>2. /\ Len(r_copied) < HeaderUnits /\ Len(r_copied) + 1 \in 1..Len(file)
        /\ Len(r_copied') = Len(r_copied) + 1
        /\ r_copied'[Len(r_copied) + 1] = file[Len(r_copied) + 1]
        /\ \A k \in 1..Len(r_copied) : r_copied'[k] = r_copied[k]
        /\ UNCHANGED <<file, r_pc, r_info, r_snapshot>>
    BY <1>1, <1>4, UnitRead DEF ReadHeader
  <2>3. Len(r_copied') <= HeaderUnits
    BY <1>1, <2>2, ContainerAssumption
  <2>4. ASSUME NEW k \in 1..Len(r_copied'), r_copied'[k].is = "header"
        PROVE  k <= Len(file) /\ file[k] = r_copied'[k]
    <3>1. k = Len(r_copied) + 1 \/ k \in 1..Len(r_copied)
      BY <1>1, <2>2
    <3>2. CASE k = Len(r_copied) + 1
      BY <1>1, <2>2, <3>2
    <3>3. CASE k \in 1..Len(r_copied)
      BY <1>1, <2>1, <2>2, <2>4, <3>3 DEF CopyStands
    <3> QED BY <3>1, <3>2, <3>3
  <2> QED BY <2>1, <2>2, <2>3, <2>4 DEF CopyStands
<1>5. CASE ParseHeader /\ ~Refuse
  <2>1. PICK info : HeaderSays(r_copied, info) /\ r_info' = info
    BY <1>5 DEF ParseHeader
  <2>2. /\ r_pc = "header" /\ Len(r_copied) = HeaderUnits
        /\ r_pc' = "copy" /\ r_copied' = << >>
    BY <1>5 DEF ParseHeader
  <2>3. \A k \in 1..HeaderUnits : k \in 1..Len(file) /\ file[k] = HeaderUnit(info, k)
    <3> TAKE k \in 1..HeaderUnits
    <3>1. r_copied[k] = HeaderUnit(info, k) /\ k \in 1..Len(r_copied)
      BY <2>1, <2>2 DEF HeaderSays
    <3>2. r_copied[k].is = "header"
      BY <3>1 DEF HeaderUnit
    <3>3. k <= Len(file) /\ file[k] = r_copied[k]
      BY <1>1, <2>2, <3>1, <3>2 DEF CopyStands
    <3> QED BY <1>1, <3>1, <3>3, ContainerAssumption
  <2>4. HeaderSays(file, info)
    <3>1. DOMAIN file = 1..Len(file)
      BY <1>1 DEF OfUnits
    <3> QED BY <2>1, <2>3, <3>1 DEF HeaderSays
  <2>5. HeaderSays(file', r_info')
    BY <2>1, <2>4
  <2>6. Len(<< >>) = 0
    OBVIOUS
  <2> QED BY <1>1, <2>2, <2>5, <2>6 DEF CopyStands
<1>6. CASE CopyUnit /\ ~Refuse
  <2>1. r_pc = "copy" /\ ReadUnit(r_size)
    BY <1>6 DEF CopyUnit
  <2>2. /\ Len(r_copied) + 1 \in 1..Len(file)
        /\ Len(r_copied') = Len(r_copied) + 1
        /\ r_copied'[Len(r_copied) + 1] = file[Len(r_copied) + 1]
        /\ \A k \in 1..Len(r_copied) : r_copied'[k] = r_copied[k]
        /\ UNCHANGED <<file, r_pc, r_info, r_snapshot>>
    BY <1>1, <1>6, <2>1, UnitRead
  <2>3. Len(r_copied') <= Len(file)
    BY <1>1, <2>2
  <2>4. \A k \in 1..Len(r_copied') : r_copied'[k] = file[k]
    <3> TAKE k \in 1..Len(r_copied')
    <3>1. k = Len(r_copied) + 1 \/ k \in 1..Len(r_copied)
      BY <1>1, <2>2
    <3> QED BY <1>1, <2>1, <2>2, <3>1 DEF CopyStands
  <2>5. HeaderSays(file, r_info)
    BY <1>1, <2>1 DEF CopyStands
  <2>6. HeaderSays(file', r_info')
    BY <2>2, <2>5
  <2> QED BY <2>1, <2>2, <2>3, <2>4, <2>6 DEF CopyStands
<1>7. CASE Seal /\ ~Refuse
  <2>1. /\ r_pc = "copy" /\ r_pc' = "scan" /\ Len(r_copied) = Len(file)
        /\ r_snapshot' = r_copied /\ r_copied' = << >> /\ r_info' = r_info
    BY <1>7 DEF Seal, Unchanged
  <2>2. HeaderSays(file, r_info) /\ \A k \in 1..Len(r_copied) : r_copied[k] = file[k]
    BY <1>1, <2>1 DEF CopyStands
  <2>3. /\ r_copied = [k \in 1..Len(r_copied) |-> r_copied[k]]
        /\ file = [k \in 1..Len(file) |-> file[k]]
    BY <1>1 DEF OfUnits
  <2>4. [k \in 1..Len(r_copied) |-> r_copied[k]] = [k \in 1..Len(file) |-> file[k]]
    BY <2>1, <2>2
  <2>5. r_copied = file
    BY ONLY <2>3, <2>4
  <2>6. HeaderSays(file', r_info')
    BY <2>1, <2>2
  <2> QED BY <2>1, <2>5, <2>6 DEF CopyStands
<1>8. ASSUME r_pc \in {"scan", "ready"}, r_pc' = "ready", UNCHANGED <<r_info, r_snapshot>>
      PROVE  CopyStands'
  <2>1. HeaderSays(file, r_info) /\ r_snapshot = file
    BY <1>1, <1>8 DEF CopyStands
  <2>2. HeaderSays(file', r_info') /\ r_snapshot' = file'
    BY <1>8, <2>1
  <2> QED BY <1>8, <2>2 DEF CopyStands
<1>9. CASE Scan /\ ~Refuse
  BY <1>8, <1>9 DEF Scan
<1>10. CASE NextRecord
  BY <1>8, <1>10 DEF NextRecord
<1>11. ASSUME NEW sample \in SampleRange, Seek(sample) PROVE CopyStands'
  BY <1>8, <1>11 DEF Seek
<1> QED BY <1>2, <1>3, <1>4, <1>5, <1>6, <1>7, <1>9, <1>10, <1>11 DEF ReaderNext, Opening, FreeReader

-----------------------------------------------------------------------------
(* A file that is changed while it is copied *)

\* A part of a file is a sequence of units.
LEMMA UnitsCut ==
    ASSUME NEW f, OfUnits(f), NEW n \in 0..Len(f) - 1
    PROVE  OfUnits([k \in 1..n |-> f[k]])
<1> DEFINE g == [k \in 1..n |-> f[k]]
<1>1. n \in Nat /\ Len(f) \in Nat /\ \A k \in 1..n : k \in 1..Len(f)
  BY DEF OfUnits
<1>2. Len(g) = n /\ g = [k \in 1..Len(g) |-> g[k]] /\ \A k \in 1..n : g[k] = f[k]
  BY <1>1
<1> HIDE DEF g
<1>3. OfUnits(g)
  BY <1>1, <1>2 DEF OfUnits
<1> QED BY <1>3 DEF g

\* A change of the file leaves a trace, or the history knows.
LEMMA ChangeKeepsCopy ==
    ASSUME CopyIsSoFar, UNCHANGED <<readerVars, opened>>, Blurs,
           Stamped \/ UNCHANGED <<file, touched>>
    PROVE  CopyIsSoFar'
<1>1. UNCHANGED <<r_pc, r_copied, r_snapshot, r_size, opened>>
  BY DEF readerVars
<1>2. /\ r_pc \in {"header", "copy"} /\ touched' = "hidden" => blurred'
      /\ ~blurred' => ~blurred
      /\ r_pc \in {"header", "copy"} /\ touched = "hidden" => blurred
  BY DEF Blurs, CopyIsSoFar
<1>3. CASE UNCHANGED <<file, touched>>
  BY <1>1, <1>2, <1>3 DEF CopyIsSoFar
<1>4. CASE Stamped
  <2>1. touched' \in {"seen", "hidden"}
    BY <1>4 DEF Stamped, CopyIsSoFar
  <2> QED BY <1>1, <1>2, <2>1 DEF CopyIsSoFar
<1> QED BY <1>3, <1>4

\* What others leave behind is a sequence of units.
LEMMA OthersKeep ==
    ASSUME FileInv, NEW units, OfUnits(units), Others(units) PROVE FileInv'
<1>1. /\ OfUnits(file') /\ maker' = "others" /\ maker' # "writer"
      /\ UNCHANGED <<readerVars, opened>> /\ UNCHANGED readerVars
  BY DEF Others
<1>2. ReaderInv'
  BY <1>1, ReaderWaits DEF FileInv
<1>3. CopyIsSoFar'
  BY <1>1, ChangeKeepsCopy DEF Others, FileInv
<1> QED BY <1>1, <1>2, <1>3 DEF FileInv

\* Others write a unit, or cut the file.
LEMMA RewritingKeeps == ASSUME FileInv, Overwrite \/ Cut PROVE FileInv'
<1>1. OfUnits(file)
  BY DEF FileInv
<1>2. CASE Overwrite
  <2>1. PICK version \in Versions : \E k \in DOMAIN version : Others(WriteAt(file, k - 1, version[k]))
    BY <1>2 DEF Overwrite
  <2>2. PICK k \in DOMAIN version : Others(WriteAt(file, k - 1, version[k]))
    BY <2>1
  <2>3. OfUnits(version)
    BY VersionsAssumption
  <2>4. DOMAIN version = 1..Len(version) /\ Len(version) \in Nat
    BY <2>3 DEF OfUnits
  <2>5. k \in 1..Len(version) /\ k - 1 \in Nat
    BY <2>4
  <2>6. version[k].is = "length" => version[k].size \in Nat
    BY <2>3, <2>5 DEF OfUnits
  <2>7. OfUnits(WriteAt(file, k - 1, version[k]))
    BY <1>1, <2>5, <2>6, UnitWritten
  <2> QED BY <2>2, <2>7, OthersKeep
<1>3. CASE Cut
  <2>1. PICK n \in 0..Len(file) - 1 : Others([k \in 1..n |-> file[k]])
    BY <1>3 DEF Cut
  <2>2. OfUnits([k \in 1..n |-> file[k]])
    BY <1>1, UnitsCut
  <2> QED BY <2>1, <2>2, OthersKeep
<1> QED BY <1>2, <1>3

\* A step of the reader keeps to the file it has opened.
LEMMA FollowingKeepsCopy ==
    ASSUME CopyIsSoFar, OfUnits(file), OfUnits(r_copied), ReaderNext, Follows
    PROVE  CopyIsSoFar'
<1>1. /\ CopyIsSoFar /\ OfUnits(r_copied) /\ OfUnits(file)
      /\ Len(r_copied) \in Nat /\ Len(file) \in Nat
      /\ ReaderNext
  BY DEF OfUnits
<1>2. /\ r_pc # "closed" /\ r_pc' # "closed" => opened' = opened /\ blurred' = blurred
      /\ r_pc = "closed" => opened' = file
  BY DEF Follows
<1>3. file' = file
  BY <1>1 DEF ReaderNext, Opening, OpenReader, ReadHeader, ParseHeader, CopyUnit, ReadUnit,
              Seal, Scan, NextRecord, Seek, FreeReader, diskVars
<1>4. OpenReader \/ touched' = touched
  BY <1>1 DEF ReaderNext, Opening, ReadHeader, ParseHeader, CopyUnit, ReadUnit,
              Seal, Scan, NextRecord, Seek, FreeReader, diskVars
<1>5. CASE Refuse /\ touched' = touched
  BY <1>1, <1>5 DEF Refuse, CopyIsSoFar
<1>6. CASE OpenReader
  <2>1. /\ r_pc = "closed" /\ r_pc' = "header" /\ r_copied' = r_copied /\ r_size' = Len(file)
        /\ touched' = "no"
    BY <1>6 DEF OpenReader
  <2>2. opened' = file /\ r_copied = << >>
    BY <1>1, <1>2, <2>1 DEF CopyIsSoFar
  <2>3. Len(r_copied') = 0
    BY <2>1, <2>2
  <2> QED BY <1>1, <1>3, <2>1, <2>2, <2>3 DEF CopyIsSoFar
<1>7. ASSUME NEW units, ReadUnit(units), ~Refuse, touched' = touched,
             r_pc \in {"header", "copy"}
      PROVE  CopyIsSoFar'
  <2>1. /\ Len(r_copied) + 1 \in 1..Len(file) /\ Len(r_copied') = Len(r_copied) + 1
        /\ r_copied'[Len(r_copied) + 1] = file[Len(r_copied) + 1]
        /\ \A k \in 1..Len(r_copied) : r_copied'[k] = r_copied[k]
        /\ r_pc' = r_pc
    BY <1>1, <1>7, UnitRead
  <2>2. r_size' = r_size /\ opened' = opened /\ blurred' = blurred
    BY <1>2, <1>7, <2>1 DEF ReadUnit
  <2>3. touched = "no" => \A k \in 1..Len(r_copied') : r_copied'[k] = file[k]
    <3> HAVE touched = "no"
    <3> TAKE k \in 1..Len(r_copied')
    <3>1. k = Len(r_copied) + 1 \/ k \in 1..Len(r_copied)
      BY <1>1, <2>1
    <3> QED BY <1>1, <1>7, <2>1, <3>1 DEF CopyIsSoFar
  <2>4. Len(r_copied') <= Len(file)
    BY <1>1, <2>1
  <2> QED BY <1>1, <1>3, <1>7, <2>1, <2>2, <2>3, <2>4 DEF CopyIsSoFar
<1>8. CASE ParseHeader /\ ~Refuse
  <2>1. /\ r_pc = "header" /\ r_pc' = "copy" /\ r_copied' = << >> /\ r_size' = r_size
        /\ touched' = touched
    BY <1>8 DEF ParseHeader, diskVars
  <2>2. Len(r_copied') = 0
    BY <2>1
  <2>3. opened' = opened /\ blurred' = blurred
    BY <1>2, <2>1
  <2> QED BY <1>1, <1>3, <2>1, <2>2, <2>3 DEF CopyIsSoFar
<1>9. CASE Seal /\ ~Refuse
  <2>1. /\ r_pc = "copy" /\ r_pc' = "scan" /\ Len(r_copied) = Len(file) /\ touched # "seen"
        /\ r_snapshot' = r_copied /\ touched' = touched
    BY <1>9 DEF Seal, Unchanged, diskVars
  <2>2. opened' = opened /\ blurred' = blurred
    BY <1>2, <2>1
  <2>3. ASSUME ~blurred PROVE r_copied = opened
    <3>1. touched = "no" /\ file = opened
      BY <1>1, <2>1, <2>3 DEF CopyIsSoFar
    <3>2. \A k \in 1..Len(r_copied) : r_copied[k] = file[k]
      BY <1>1, <2>1, <3>1 DEF CopyIsSoFar
    <3>3. /\ r_copied = [k \in 1..Len(r_copied) |-> r_copied[k]]
          /\ file = [k \in 1..Len(file) |-> file[k]]
      BY <1>1 DEF OfUnits
    <3>4. [k \in 1..Len(r_copied) |-> r_copied[k]] = [k \in 1..Len(file) |-> file[k]]
      BY <2>1, <3>2
    <3> QED BY ONLY <3>1, <3>3, <3>4
  <2> QED BY <1>1, <2>1, <2>2, <2>3 DEF CopyIsSoFar
<1>10. ASSUME r_pc \in {"scan", "ready"}, r_pc' = "ready", r_snapshot' = r_snapshot,
              touched' = touched
       PROVE  CopyIsSoFar'
  BY <1>1, <1>2, <1>10 DEF CopyIsSoFar
<1>11. CASE Scan /\ ~Refuse
  BY <1>10, <1>11 DEF Scan, diskVars
<1>12. CASE NextRecord
  BY <1>10, <1>12 DEF NextRecord, diskVars
<1>13. ASSUME NEW sample \in SampleRange, Seek(sample) PROVE CopyIsSoFar'
  BY <1>10, <1>13 DEF Seek, diskVars
<1> QED BY <1>1, <1>4, <1>5, <1>6, <1>7, <1>8, <1>9, <1>11, <1>12, <1>13
        DEF ReaderNext, Opening, OpenReader, ReadHeader, CopyUnit, FreeReader, diskVars

-----------------------------------------------------------------------------
(* The reader, and whoever makes the file *)

\* There is no reader yet, and no file or one that others have left.
LEMMA FileInitInv == ASSUME FileInit PROVE FileInv
<1> USE DEF FileInit, WriterInit, ReaderInit
<1>1. OfUnits(r_copied) /\ OfUnits(r_snapshot) /\ (file = << >> => OfUnits(file))
  BY NoUnits
<1>2. OfUnits(file)
  BY <1>1, VersionsAssumption
<1>3. maker = "writer" => WriterInv
  <2>1. appended \in Seq(MonoRecords(Nat) \cup StereoRecords)
    OBVIOUS
  <2> QED BY <1>2, <2>1 DEF WriterInv, WriterTypeOK
<1>4. ReaderInv
  BY <1>1 DEF ReaderInv, PlaysFromIndex
<1>5. CopyStands
  BY DEF CopyStands
<1>6. CopyIsSoFar
  BY DEF CopyIsSoFar
<1> QED BY <1>2, <1>3, <1>4, <1>5, <1>6 DEF FileInv

\* A step of the writer writes to the file, and says so, or leaves it alone.
LEMMA WriterIsSeen == ASSUME WriterNext PROVE Stamped \/ UNCHANGED <<file, touched>>
  BY DEF WriterNext, CreateWriter, AppendRecord, AppendUnit, AppendReturns, Finish, FinishUnit,
         FinishReturns, TransferFails, Transfer

\* Every step of the reader, of the writer and of others keeps the invariant.
LEMMA FileStep == ASSUME FileInv, [FileNext]_fileVars PROVE FileInv'
<1>1. CASE WriterActs
  <2>1. WriterInv /\ ReaderInv /\ CopyStands /\ CopyIsSoFar /\ WriterNext /\ Blurs
        /\ UNCHANGED readerVars /\ UNCHANGED <<readerVars, opened>>
    BY <1>1 DEF WriterActs, FileInv
  <2>2. WriterInv' /\ ReaderInv'
    BY <2>1, WriterStep, ReaderWaits
  <2>3. CopyStands'
    BY <2>1, WriterKeepsCopy
  <2>4. CopyIsSoFar'
    BY <2>1, WriterIsSeen, ChangeKeepsCopy
  <2> QED BY <2>2, <2>3, <2>4 DEF FileInv, WriterInv, WriterTypeOK
<1>2. CASE ReaderNext /\ Follows
  <2>1. file' = file
    BY <1>2 DEF ReaderNext, Opening, OpenReader, ReadHeader, ParseHeader, CopyUnit, ReadUnit,
                Seal, Scan, NextRecord, Seek, FreeReader, diskVars
  <2>2. OfUnits(file) /\ OfUnits(r_copied) /\ ReaderInv /\ CopyIsSoFar
    BY DEF FileInv, ReaderInv
  <2>3. ReaderInv' /\ CopyIsSoFar'
    BY <1>2, <2>2, ReaderStep, FollowingKeepsCopy
  <2>4. maker' = "writer" => WriterInv' /\ CopyStands'
    <3> SUFFICES ASSUME maker = "writer" PROVE WriterInv' /\ CopyStands'
      BY <1>2 DEF Follows
    <3>1. WriterInv /\ CopyStands
      BY DEF FileInv
    <3>2. UNCHANGED <<writerVars, file>>
      BY <1>2, <2>1 DEF Follows
    <3> QED BY <1>2, <2>1, <2>2, <3>1, <3>2, WriterWaits, ReaderKeepsCopy
  <2> QED BY <2>1, <2>2, <2>3, <2>4 DEF FileInv
<1>3. CASE UNCHANGED fileVars
  <2>1. UNCHANGED readerVars /\ UNCHANGED <<writerVars, file>> /\ UNCHANGED maker
    BY <1>3 DEF fileVars
  <2>2. (WriterInv => WriterInv') /\ ReaderInv'
    BY <2>1, WriterWaits, ReaderWaits DEF FileInv
  <2>3. CopyStands => CopyStands'
    BY <2>1 DEF CopyStands, readerVars, HeaderSays
  <2>4. CopyIsSoFar'
    BY <1>3 DEF fileVars, readerVars, FileInv, CopyIsSoFar
  <2>5. OfUnits(file')
    BY <2>1 DEF FileInv
  <2> QED BY <2>1, <2>2, <2>3, <2>4, <2>5 DEF FileInv
<1> QED BY <1>1, <1>2, <1>3, RewritingKeeps DEF FileNext

\* What the writer knows of the file, and the reader of its copy, whoever makes
\* the file.
THEOREM FileInvariant == FileSpec => []FileInv
<1>1. FileInit => FileInv
  BY FileInitInv
<1>2. FileInv /\ [FileNext]_fileVars => FileInv'
  BY FileStep
<1> QED BY <1>1, <1>2, PTL DEF FileSpec

\* A file of the writer that says it is complete is.
THEOREM FileCompleteOrUnreadable == FileSpec => []CompleteOrUnreadable
<1>1. FileInv => CompleteOrUnreadable
  BY HeaderMeansComplete DEF FileInv, CompleteOrUnreadable
<1> QED BY <1>1, FileInvariant, PTL

\* Playback begins at the index entry, and whatever becomes of the file, also
\* while it is copied, what is read are the records of the accepted copy.
THEOREM FilePlaysFromIndex == FileSpec => []PlaysFromIndex
<1>1. FileInv => PlaysFromIndex
  BY DEF FileInv, ReaderInv
<1> QED BY <1>1, FileInvariant, PTL

\* A reader plays from the file as it was when it was opened, whatever is
\* written to it, except for changes that leave its size and its stamps.
THEOREM FileCopyIsOfOneMoment == FileSpec => []CopyIsOfOneMoment
<1>1. FileInv => CopyIsOfOneMoment
  BY DEF FileInv, CopyIsSoFar, CopyIsOfOneMoment
<1> QED BY <1>1, FileInvariant, PTL

\* What is accepted has everything.
THEOREM FileAcceptedHasAll == FileSpec => []AcceptedHasAll
<1>1. FileInv => AcceptedHasAll
  <2> SUFFICES ASSUME FileInv, maker = "writer", r_pc = "ready" PROVE HasAll
    BY DEF AcceptedHasAll
  <2>1. HeaderSays(file, r_info) /\ r_snapshot = file
    BY DEF FileInv, CopyStands
  <2>2. r_info = w_info /\ RecordsIn(file, r_info) = appended /\ Appended
    BY <2>1, HeaderMeansComplete DEF FileInv
  <2>3. w_info # NoInfo /\ w_position = Len(appended)
    <3>1. w_info # NoInfo
      BY <2>1, HeaderIsOurs DEF FileInv
    <3> QED BY <3>1 DEF FileInv, WriterInv, WriterTypeOK
  <2> QED BY <2>1, <2>2, <2>3 DEF HasAll, Appended
<1> QED BY <1>1, FileInvariant, PTL

-----------------------------------------------------------------------------
(* The file source *)

-----------------------------------------------------------------------------
(* Numbers of records *)

\* The first number of an epoch.
LEMMA FirstInEpoch ==
    ASSUME NEW n \in Nat, NEW E \in Nat \ {0}
    PROVE  n - (n % E) \in Nat /\ n - (n % E) <= n
<1>1. n \div E \in Nat /\ n % E \in 0..E - 1 /\ n = E * (n \div E) + (n % E)
  BY DivMod
<1>2. E * (n \div E) \in Nat
  BY <1>1
<1> QED BY <1>1, <1>2

\* Two frames one after the other.
LEMMA Pair == ASSUME NEW a \in Nat, NEW b \in Nat PROVE <<a>> \o <<b>> = <<a, b>>
<1> DEFINE x == <<a>> \o <<b>>
           y == <<a, b>>
<1>1. <<a>> \in Seq(Nat) /\ <<b>> \in Seq(Nat) /\ y \in Seq(Nat)
  OBVIOUS
<1>2. Len(<<a>>) = 1 /\ Len(<<b>>) = 1 /\ Len(y) = 2
  OBVIOUS
<1>3. x \in Seq(Nat) /\ Len(x) = 2
  BY <1>1, <1>2, ConcatProperties
<1>4. x[1] = a /\ x[2] = b /\ y[1] = a /\ y[2] = b
  BY <1>1, <1>2
<1> HIDE DEF x, y
<1>5. \A k \in 1..Len(x) : x[k] = y[k]
  <2>1. \A k \in 1..2 : k = 1 \/ k = 2
    OBVIOUS
  <2> QED BY <1>3, <1>4, <2>1
<1>6. x = y
  BY <1>1, <1>2, <1>3, <1>5, SeqEqual
<1> QED BY <1>6 DEF x, y

\* A multiple of a span is as many spans, and one before it is not below zero.
LEMMA Multiples ==
    ASSUME NEW q \in Nat, NEW S \in Nat \ {0}
    PROVE  /\ q * S \in Nat /\ (q * S > 0 => q * S - S \in Nat)
           /\ S > 0
  OBVIOUS

\* A file has a number of records.
LEMMA RecordNumbers == FileRecords \in Nat
<1>1. FileSamples + FileStride - 1 \in Nat
  BY SourceAssumption
<1> QED BY <1>1, SourceAssumption, DivMod DEF FileRecords

\* No greater number has a greater quotient.
LEMMA DivGrows ==
    ASSUME NEW n \in Nat, NEW m \in Nat, n <= m, NEW E \in Nat \ {0}
    PROVE  n \div E <= m \div E
  BY DivMod

\* One frame more is that frame appended.
LEMMA TimesGrows ==
    ASSUME NEW n \in Nat, NEW m \in Nat, n <= m, NEW E \in Nat
    PROVE  n * E \in Nat /\ n * E <= m * E
  OBVIOUS

\* A record of the file is a packet that parses.
LEMMA FilePacketIsPacket ==
    ASSUME NEW n \in Nat, n < FileRecords
    PROVE  FilePacket(n) \in Packets /\ WellFormed(FilePacket(n))
<1>1. n \in 0..FileRecords - 1 /\ n \in Audio /\ FileRecords - 1 \in Nat /\ n <= FileRecords - 1
  BY RecordNumbers, FileAssumption
<1>2. n \div EpochPackets \in Nat /\ n % EpochPackets \in Nat
  <2>1. n \div EpochPackets \in Nat /\ n % EpochPackets \in 0..EpochPackets - 1
    BY DivMod, PacketAssumption
  <2> QED BY <2>1, PacketAssumption
<1>3. n \div EpochPackets <= (FileRecords - 1) \div EpochPackets
  BY <1>1, DivGrows, PacketAssumption
<1>4. n \div EpochPackets \in Epochs
  <2>1. (FileRecords - 1) \div EpochPackets \in Nat
    BY <1>1, DivMod, PacketAssumption
  <2> QED BY <1>2, <1>3, <2>1, FileAssumption, PacketAssumption DEF Epochs
<1>5. n * PtsStep \in Times64
  <2>1. n * PtsStep \in Nat /\ n * PtsStep <= (FileRecords - 1) * PtsStep
    BY <1>1, TimesGrows, PacketAssumption
  <2>2. (FileRecords - 1) * PtsStep \in Nat
    BY <1>1, TimesGrows, PacketAssumption
  <2> QED BY <2>1, <2>2, FileAssumption, PacketAssumption DEF Times64
<1>6. <<n>> \in Codes
  <2>1. n \in Frames
    BY <1>1 DEF Frames
  <2> QED BY <2>1 DEF Codes
<1> DEFINE flags == IF n % EpochPackets # 0 THEN {}
                    ELSE IF s_start = "C5R4" THEN {"RESET", "EPOCH_PREROLL"} ELSE {"RESET"}
<1>7. flags \in SUBSET Flags /\ ("RESET" \in flags => n % EpochPackets = 0)
      /\ (flags \cap {"DISCONTINUITY", "EPOCH_PREROLL"} # {} => "RESET" \in flags)
  BY DEF Flags
<1> DEFINE short == FALSE
<1>8. short \in BOOLEAN
  OBVIOUS
<1>9. FilePacket(n) = [epoch |-> n \div EpochPackets, index |-> n % EpochPackets, pts_ms |-> n * PtsStep,
                       flags |-> flags, short |-> short, codes |-> <<n>>]
  BY DEF FilePacket
<1> HIDE DEF flags, short
<1>10. FilePacket(n) \in Packets
  BY <1>2, <1>4, <1>5, <1>6, <1>7, <1>8, <1>9 DEF Packets
<1> QED BY <1>7, <1>9, <1>10 DEF WellFormed, Reset

\* What the packet of a record says (the writer numbered it).
LEMMA FilePacketFields ==
    ASSUME NEW n \in Nat
    PROVE  /\ FilePacket(n).epoch = n \div EpochPackets
           /\ FilePacket(n).index = n % EpochPackets
           /\ FilePacket(n).codes = <<n>>
           /\ Reset(FilePacket(n)) <=> n % EpochPackets = 0
  BY DEF FilePacket, Reset

-----------------------------------------------------------------------------
(* What is heard *)

\* The first record of an epoch, played from the beginning.
LEMMA ContinuousStarts ==
    ASSUME Mono, NEW n \in Nat, n % EpochPackets = 0, s_start \in Profiles
    PROVE  Continuous(n) = Times(LeadIn(s_start) + 1, <<n>>)
<1>1. n - (n % EpochPackets) = n /\ n - n + 1 = 1
  OBVIOUS
<1>2. [k \in 1..1 |-> <<n + k - 1>>] = << <<n>> >>
  OBVIOUS
<1>3. Continuous(n) = Times(LeadIn(s_start), <<n>>) \o << <<n>> >>
  <2> DEFINE first == n - (n % EpochPackets)
  <2>1. Continuous(n) = Times(LeadIn(s_start), <<first>>) \o [k \in 1..n - first + 1 |-> <<first + k - 1>>]
    BY DEF Continuous
  <2>2. first = n
    BY <1>1
  <2> HIDE DEF first
  <2>3. [k \in 1..n - first + 1 |-> <<first + k - 1>>] = << <<n>> >>
    BY <1>1, <1>2, <2>2
  <2> QED BY <2>1, <2>2, <2>3
<1>4. LeadIn(s_start) \in Nat
  BY PrerollAssumption DEF LeadIn
<1>5. <<n>> \in Seq(Nat)
  OBVIOUS
<1>6. Times(LeadIn(s_start), <<n>>) \in Seq(Seq(Nat))
  BY <1>4, <1>5, TimesType
<1>7. Times(LeadIn(s_start), <<n>>) \o << <<n>> >> = Append(Times(LeadIn(s_start), <<n>>), <<n>>)
  BY <1>5, <1>6, AppendIsConcat
<1>8. Append(Times(LeadIn(s_start), <<n>>), <<n>>) = Times(LeadIn(s_start) + 1, <<n>>)
  BY <1>4, <1>5, TimesAppend
<1> QED BY <1>3, <1>7, <1>8

\* The one behind a record of the same epoch.
LEMMA ContinuousGoesOn ==
    ASSUME Mono, NEW n \in Nat, NEW m \in Nat, n = m + 1,
           n - (n % EpochPackets) = m - (m % EpochPackets), s_start \in Profiles
    PROVE  Continuous(n) = Append(Continuous(m), <<n>>)
<1> DEFINE first == m - (m % EpochPackets)
           lead == Times(LeadIn(s_start), <<first>>)
           old == [k \in 1..m - first + 1 |-> <<first + k - 1>>]
           new == [k \in 1..n - first + 1 |-> <<first + k - 1>>]
<1>1. Continuous(m) = lead \o old /\ Continuous(n) = lead \o new
  BY DEF Continuous
<1>2. first \in Nat /\ first <= m
  BY FirstInEpoch, PacketAssumption
<1>3. LeadIn(s_start) \in Nat /\ <<n>> \in Seq(Nat) /\ <<first>> \in Seq(Nat)
  BY <1>2, PrerollAssumption DEF LeadIn
<1>4. lead \in Seq(Seq(Nat))
  BY <1>3, TimesType
<1> HIDE DEF first, lead
<1>5. /\ old \in Seq(Seq(Nat)) /\ Len(old) = m - first + 1
      /\ new \in Seq(Seq(Nat)) /\ Len(new) = m - first + 2
  <2>1. \A k \in 1..n - first + 1 : <<first + k - 1>> \in Seq(Nat)
    BY <1>2
  <2>2. \A k \in 1..m - first + 1 : <<first + k - 1>> \in Seq(Nat)
    BY <1>2
  <2>3. m - first + 1 \in Nat /\ n - first + 1 = m - first + 2
    BY <1>2
  <2> DEFINE e(k) == <<first + k - 1>>
  <2>4. /\ \A k \in 1..n - first + 1 : e(k) \in Seq(Nat)
        /\ \A k \in 1..m - first + 1 : e(k) \in Seq(Nat)
    BY <2>1, <2>2
  <2>5. n - first + 1 \in Nat
    BY <1>2
  <2> DEFINE L == m - first + 1
             M == n - first + 1
             S == Seq(Nat)
  <2>6. /\ L \in Nat /\ \A k \in 1..L : e(k) \in S
        /\ M \in Nat /\ \A k \in 1..M : e(k) \in S
    BY <2>3, <2>4, <2>5
  <2> HIDE DEF e, L, M, S
  <2>7. [k \in 1..L |-> e(k)] \in Seq(S) /\ Len([k \in 1..L |-> e(k)]) = L
    BY <2>6
  <2>8. [k \in 1..M |-> e(k)] \in Seq(S) /\ Len([k \in 1..M |-> e(k)]) = M
    BY <2>6
  <2> QED BY <2>3, <2>7, <2>8 DEF e, L, M, S
<1>6. /\ \A k \in 1..m - first + 1 : new[k] = old[k]
      /\ new[m - first + 2] = <<n>>
  BY <1>2
<1>7. /\ Append(old, <<n>>) \in Seq(Seq(Nat))
      /\ Len(Append(old, <<n>>)) = m - first + 2
      /\ \A k \in 1..m - first + 1 : Append(old, <<n>>)[k] = old[k]
      /\ Append(old, <<n>>)[m - first + 2] = <<n>>
  <2> DEFINE S == Seq(Nat)
             x == <<n>>
  <2>0. x \in S /\ old \in Seq(S)
    BY <1>3, <1>5
  <2> HIDE DEF old, S, x
  <2>1. /\ Append(old, x) \in Seq(S)
        /\ Len(Append(old, x)) = Len(old) + 1
        /\ \A k \in 1..Len(old) : Append(old, x)[k] = old[k]
        /\ Append(old, x)[Len(old) + 1] = x
    BY <2>0, AppendProperties
  <2>2. Len(old) + 1 = m - first + 2
    BY <1>2, <1>5
  <2> QED BY <1>5, <2>1, <2>2 DEF S, x
<1> HIDE DEF old, new
<1>8. new = Append(old, <<n>>)
  <2>1. \A k \in 1..Len(new) : new[k] = Append(old, <<n>>)[k]
    <3>1. \A k \in 1..m - first + 2 : k \in 1..m - first + 1 \/ k = m - first + 2
      BY <1>2
    <3> QED BY <1>5, <1>6, <1>7, <3>1
  <2> QED BY <1>5, <1>7, <2>1, SeqEqual
<1>9. new = old \o << <<n>> >>
  BY <1>3, <1>5, <1>8, AppendIsConcat
<1>10. << <<n>> >> \in Seq(Seq(Nat))
  BY <1>3
<1>11. lead \o (old \o << <<n>> >>) = (lead \o old) \o << <<n>> >>
  BY <1>4, <1>5, <1>10, ConcatAssociative
<1>12. (lead \o old) \o << <<n>> >> = Append(lead \o old, <<n>>)
  <2>1. lead \o old \in Seq(Seq(Nat))
    BY <1>4, <1>5
  <2> QED BY <1>3, <2>1, AppendIsConcat
<1> QED BY <1>1, <1>9, <1>11, <1>12

\* What a pull plays is what the file played from its beginning would be there.
LEMMA PullPlaysContinuous ==
    ASSUME SourceInv, Mono, NEW n \in Nat, n < FileRecords, PullPlays(FilePacket(n))
    PROVE  heard' = Continuous(n) /\ LastPlayed' = FilePacket(n)
<1> DEFINE p == FilePacket(n)
<1>1. p \in Packets /\ WellFormed(p) /\ DecoderInv /\ s_start \in Profiles /\ dec_epoch_start = s_start
  BY FilePacketIsPacket DEF SourceInv, SourceTypeOK, MonoStands
<1>2. /\ p.epoch = n \div EpochPackets /\ p.index = n % EpochPackets /\ p.codes = <<n>>
      /\ Reset(p) <=> n % EpochPackets = 0
  BY FilePacketFields
<1>3. played' = Append(played, p) /\ (Joins(p) \/ Continues(p)) /\ played \in Seq(Packets)
  BY DEF PullPlays, SourceInv, DecoderInv, DecoderTypeOK
<1> HIDE DEF p
<1>4. LastPlayed' = p
  BY <1>1, <1>3, PlayedGrows
<1>5. CASE Reset(p)
  <2>1. heard' = Times(LeadIn(dec_epoch_start) + 1, p.codes)
    BY <1>1, <1>5, PullHears DEF p
  <2> QED BY <1>1, <1>2, <1>4, <1>5, <2>1, ContinuousStarts DEF p
<1>6. CASE ~ Reset(p)
  <2>1. heard' = Append(heard, p.codes)
    BY <1>1, <1>6, PullHears DEF p
  <2>2. /\ dec_has_epoch /\ p.epoch = dec_epoch /\ p.index = dec_next_index
    BY <1>3, <1>6 DEF Joins, Continues
  <2>3. /\ played # << >> /\ dec_epoch = LastPlayed.epoch /\ dec_next_index = LastPlayed.index + 1
    BY <1>1, <2>2 DEF DecoderInv, AtLastPlayed
  <2>4. PICK m \in 0..FileRecords - 1 : LastPlayed = FilePacket(m) /\ heard = Continuous(m)
    BY <2>3 DEF SourceInv, MonoStands
  <2>5. m \in Nat
    BY <2>4
  <2>6. n \div EpochPackets = m \div EpochPackets /\ n % EpochPackets = (m % EpochPackets) + 1
    BY <1>2, <2>2, <2>3, <2>4, <2>5, FilePacketFields
  <2>7. n = m + 1 /\ n - (n % EpochPackets) = m - (m % EpochPackets)
    <3>1. /\ n = EpochPackets * (n \div EpochPackets) + (n % EpochPackets)
          /\ m = EpochPackets * (m \div EpochPackets) + (m % EpochPackets)
      BY <2>5, DivMod, PacketAssumption
    <3>2. /\ m \div EpochPackets \in Nat /\ m % EpochPackets \in 0..EpochPackets - 1
      BY <2>5, DivMod, PacketAssumption
    <3> QED BY <2>5, <2>6, <3>1, <3>2, PacketAssumption
  <2>8. Continuous(n) = Append(Continuous(m), <<n>>)
    BY <1>1, <2>5, <2>7, ContinuousGoesOn
  <2> QED BY <1>2, <1>4, <2>1, <2>4, <2>8 DEF p
<1> QED BY <1>5, <1>6

-----------------------------------------------------------------------------
(* The calls *)

\* The file a source plays never changes.
LEMMA ContinuousStays ==
    ASSUME UNCHANGED <<s_profile, s_start>>
    PROVE  /\ Mono' = Mono /\ \A n : Continuous(n)' = Continuous(n)
           /\ \A n : FilePacket(n)' = FilePacket(n)
  BY DEF Mono, Continuous, FilePacket

\* A source starts before the first record.
LEMMA SourceInitInv == SourceInit => SourceInv
<1> SUFFICES ASSUME SourceInit PROVE SourceInv
  OBVIOUS
<1>1. s_profile \in {"mono", "stereo"} /\ s_start \in Profiles
  BY SourceAssumption DEF SourceInit, Profiles
<1>2. /\ NativeCreate \in NativeType(Heard) /\ LeadIn(s_start) \in {0, Preroll}
  BY CreateFresh DEF LeadIn
<1>3. /\ dec_native \in NativeType(Heard) /\ dec_native.preroll_packets = LeadIn(s_start)
  BY <1>2 DEF SourceInit, SetPreroll, NativeType
<1>4. played = << >> /\ played \in Seq(Packets) /\ heard \in Seq(Heard) /\ Len(played) = 0
  BY EmptySeq DEF SourceInit
<1>5. DecoderTypeOK
  <2>1. 0 \in Epochs /\ 0 \in 0..EpochPackets /\ 0 \in Times64
    BY PacketAssumption DEF Epochs, Times64
  <2>2. dec_has_epoch \in BOOLEAN /\ dec_needs_reset \in BOOLEAN
    BY DEF SourceInit
  <2> QED BY <1>1, <1>3, <1>4, <2>1, <2>2 DEF SourceInit, DecoderTypeOK, Heard
<1>6. AtLastPlayed /\ Synchronised
  BY DEF SourceInit, AtLastPlayed, Synchronised
<1>7. PlayedForward /\ PlayedInOrder /\ HeardIsItsEpoch
  BY <1>4 DEF PlayedForward, PlayedInOrder, HeardIsItsEpoch
<1>8. DecoderInv
  BY <1>3, <1>5, <1>6, <1>7 DEF DecoderInv, SourceInit
<1>9. MonoStands /\ StereoStands /\ PlaysAsContinuous
  BY DEF SourceInit, MonoStands, StereoStands, PlaysAsContinuous
<1> QED BY <1>1, <1>8, <1>9 DEF SourceInv, SourceTypeOK, SourceInit

\* What is handed over lies where the record does in the file.
LEMMA EmitsInPlace ==
    ASSUME SourceTypeOK, UNCHANGED <<s_profile, s_start>>, s_reader * FileStride = s_position,
           NEW blend, blend = Continuous(s_reader), Emit(blend)
    PROVE  PlaysAsContinuous'
<1>1. s_position \in Nat
  BY SourceAssumption, TimesGrows DEF SourceTypeOK
<1>2. PullCount = IF s_position + FileStride > FileSamples THEN FileSamples - s_position ELSE FileStride
  BY <1>1, SourceAssumption DEF PullCount, Remaining
<1>3. (Continuous(out.record))' = Continuous(s_reader)
  <2>1. out'.record = s_reader
    BY DEF Emit
  <2> QED BY <2>1 DEF Continuous, Mono
<1> QED BY <1>2, <1>3 DEF Emit, PlaysAsContinuous

\* A step that gives out nothing leaves what was given out in place.
LEMMA OutStays ==
    ASSUME PlaysAsContinuous, UNCHANGED <<s_profile, s_start, out>>
    PROVE  PlaysAsContinuous'
<1>1. (Continuous(out.record))' = Continuous(out.record)
  BY DEF Continuous, Mono
<1> QED BY <1>1 DEF PlaysAsContinuous

\* A step that leaves the decoder alone keeps its invariant.
LEMMA DecoderStays == ASSUME DecoderInv, UNCHANGED decVars PROVE DecoderInv'
  BY DEF DecoderInv, decVars, DecoderTypeOK, AtLastPlayed, Synchronised, PlayedForward, PlayedInOrder,
         HeardIsItsEpoch, LastPlayed, EpochStart

\* A step that leaves the decoder and the position alone keeps them together.
LEMMA MonoStays ==
    ASSUME MonoStands, UNCHANGED <<s_profile, s_start, played, heard, dec_epoch_start>>
    PROVE  MonoStands'
<1>1. \A n : Continuous(n)' = Continuous(n) /\ FilePacket(n)' = FilePacket(n)
  BY ContinuousStays
<1>2. Mono' = Mono /\ LastPlayed' = LastPlayed
  BY DEF Mono, LastPlayed
<1>3. CASE ~ (Mono /\ played # << >>)
  BY <1>2, <1>3 DEF MonoStands
<1>4. CASE Mono /\ played # << >>
  <2>1. PICK n \in 0..FileRecords - 1 : LastPlayed = FilePacket(n) /\ heard = Continuous(n)
    BY <1>4 DEF MonoStands
  <2>2. LastPlayed' = FilePacket(n)' /\ heard' = Continuous(n)'
    BY <1>1, <1>2, <2>1
  <2> QED BY <2>2 DEF MonoStands
<1> QED BY <1>3, <1>4

\* A mono pull decodes the record at the position and gives out its frame.
LEMMA PullMonoKeeps == ASSUME SourceInv, PullMono PROVE SourceInv'
<1> DEFINE n == s_reader
           p == FilePacket(n)
<1>1. /\ Mono /\ n \in Nat /\ n < FileRecords /\ n * FileStride = s_position
      /\ Pull(p) \/ PullRefused(p)
      /\ IF played' # played THEN Emit(heard') /\ UNCHANGED s_faulted
         ELSE s_faulted' = TRUE /\ UNCHANGED <<s_position, out>>
      /\ s_reader' = n + 1 /\ UNCHANGED <<s_profile, s_start, s_overlap>>
  BY DEF PullMono, SourceInv, SourceTypeOK
<1>2. p \in Packets /\ WellFormed(p)
  BY <1>1, FilePacketIsPacket
<1>3. SourceTypeOK'
  <2>1. s_faulted' \in BOOLEAN
    BY <1>1 DEF SourceInv, SourceTypeOK
  <2> QED BY <1>1, <2>1 DEF SourceInv, SourceTypeOK
<1>4. StereoStands'
  BY <1>1 DEF StereoStands, Mono
<1>5. CASE PullPlays(p)
  <2>1. DecoderInv'
    BY <1>2, <1>5, PullPlaysKeepsInv DEF SourceInv
  <2>2. heard' = Continuous(n) /\ LastPlayed' = FilePacket(n) /\ dec_epoch_start' = dec_epoch_start
    BY <1>1, <1>5, PullPlaysContinuous DEF PullPlays
  <2>4. MonoStands'
    <3>1. PICK k \in 0..FileRecords - 1 : k = n
      BY <1>1, RecordNumbers
    <3>2. Continuous(k)' = Continuous(k) /\ FilePacket(k)' = FilePacket(k)
      BY <1>1, ContinuousStays
    <3>3. LastPlayed' = FilePacket(k)' /\ heard' = Continuous(k)'
      BY <2>2, <3>1, <3>2
    <3>4. (dec_epoch_start = s_start)'
      BY <1>1, <2>2 DEF SourceInv, MonoStands
    <3> QED BY <3>3, <3>4 DEF MonoStands
  <2>5. played' # played
    <3>1. played \in Seq(Packets) /\ played' = Append(played, p)
      BY <1>5 DEF PullPlays, SourceInv, DecoderInv, DecoderTypeOK
    <3>2. Len(played) \in Nat /\ Len(played') = Len(played) + 1
      BY <1>2, <3>1, PlayedGrows
    <3> QED BY <3>2
  <2>6. PlaysAsContinuous'
    BY <1>1, <2>2, <2>5, EmitsInPlace DEF SourceInv
  <2> QED BY <1>3, <1>4, <2>1, <2>4, <2>6 DEF SourceInv
<1>6. CASE PullFails(p) \/ PullLosesSync(p) \/ PullRefused(p)
  <2>1. UNCHANGED <<played, heard, dec_epoch_start>>
    BY <1>6 DEF PullFails, PullLosesSync, PullRefused, decVars
  <2>2. DecoderInv'
    BY <1>2, <1>6, PullWithoutPcmKeepsInv, DecoderStays DEF SourceInv, PullRefused
  <2>3. MonoStands'
    BY <1>1, <2>1, MonoStays DEF SourceInv
  <2>4. PlaysAsContinuous'
    BY <1>1, <2>1, OutStays DEF SourceInv
  <2> QED BY <1>3, <1>4, <2>2, <2>3, <2>4 DEF SourceInv
<1> QED BY <1>1, <1>5, <1>6 DEF Pull

\* A stereo record is blended with the tail of the one before it.
LEMMA PullStereoKeeps == ASSUME SourceInv, PullStereo PROVE SourceInv'
<1>1. /\ ~ Mono /\ ~ s_faulted /\ s_reader \in Nat /\ s_reader * FileStride = s_position
      /\ Emit(Blend(s_reader)) /\ s_overlap' = <<s_reader>> /\ s_reader' = s_reader + 1
      /\ UNCHANGED <<s_profile, s_start, s_faulted>> /\ UNCHANGED decVars
  BY DEF PullStereo, Playable, SourceInv, SourceTypeOK
<1>2. s_overlap = IF s_reader = 0 THEN << >> ELSE <<s_reader - 1>>
  BY <1>1 DEF SourceInv, StereoStands
<1>3. Blend(s_reader) = Continuous(s_reader)
  <2>1. CASE s_reader = 0
    <3>1. Blend(s_reader) = << >> \o <<s_reader>>
      BY <1>2, <2>1 DEF Blend
    <3>2. << >> \o <<s_reader>> = <<s_reader>>
      <4>1. <<s_reader>> \in Seq(Nat)
        BY <1>1
      <4> QED BY <4>1, EmptyConcat
    <3> QED BY <1>1, <2>1, <3>1, <3>2 DEF Continuous
  <2>2. CASE s_reader # 0
    <3>1. Blend(s_reader) = <<s_reader - 1>> \o <<s_reader>>
      BY <1>2, <2>2 DEF Blend
    <3>2. <<s_reader - 1>> \o <<s_reader>> = <<s_reader - 1, s_reader>>
      <4>1. s_reader - 1 \in Nat
        BY <1>1, <2>2
      <4> QED BY <4>1, <1>1, Pair
    <3> QED BY <1>1, <2>2, <3>1, <3>2 DEF Continuous
  <2> QED BY <2>1, <2>2
<1>4. PlaysAsContinuous'
  BY <1>1, <1>3, EmitsInPlace DEF SourceInv
<1>5. StereoStands'
  BY <1>1 DEF StereoStands
<1>6. SourceTypeOK'
  BY <1>1 DEF SourceInv, SourceTypeOK
<1>7. MonoStands'
  BY <1>1, MonoStays DEF SourceInv, decVars
<1> QED BY <1>1, <1>4, <1>5, <1>6, <1>7, DecoderStays DEF SourceInv

\* A failed pull faults the source; nothing is given out.
LEMMA PullFaultKeeps ==
    ASSUME SourceInv, PullStereoFails \/ PullReaderFails
    PROVE  SourceInv'
<1>1. /\ s_faulted' = TRUE /\ s_reader' \in Nat
      /\ UNCHANGED <<s_profile, s_start, out>> /\ UNCHANGED decVars
  BY DEF PullStereoFails, PullReaderFails, SourceInv, SourceTypeOK
<1>2. SourceTypeOK' /\ StereoStands'
  BY <1>1 DEF SourceInv, SourceTypeOK, StereoStands
<1>3. MonoStands'
  BY <1>1, MonoStays DEF SourceInv, decVars
<1> QED BY <1>1, <1>2, <1>3, OutStays, DecoderStays DEF SourceInv

-----------------------------------------------------------------------------
(* Seeks *)

\* A span has frames.
LEMMA SpanNumbers == Span \in Nat \ {0}
<1>1. EpochPackets * FileStride \in Nat \ {0}
  BY PacketAssumption, SourceAssumption
<1> QED BY <1>1, SourceAssumption DEF Span

\* Where a seek begins is a number of whole spans.
LEMMA SeekNumbers ==
    ASSUME NEW sample \in 0..FileSamples - 1
    PROVE  /\ SeekBoundary(sample) \in Nat /\ SeekStart(sample) \in Nat
           /\ SeekStart(sample) \div FileStride \in Nat
           /\ ~ Mono /\ SeekStart(sample) = SeekBoundary(sample) => SeekStart(sample) = 0
<1>1. sample \in Nat /\ sample \div Span \in Nat
  BY SpanNumbers, DivMod, SourceAssumption
<1>2. /\ SeekBoundary(sample) \in Nat /\ Span > 0
      /\ SeekBoundary(sample) > 0 => SeekBoundary(sample) - Span \in Nat
  BY <1>1, SpanNumbers, Multiples DEF SeekBoundary
<1>3. SeekStart(sample) \in Nat
  BY <1>2 DEF SeekStart
<1>4. SeekStart(sample) \div FileStride \in Nat
  BY <1>3, DivMod, SourceAssumption
<1>5. ~ Mono /\ SeekStart(sample) = SeekBoundary(sample) => SeekStart(sample) = 0
  BY <1>2, SpanNumbers DEF SeekStart
<1> QED BY <1>2, <1>3, <1>4, <1>5

\* The decoder of a mono source starts over, a stereo source has none.
LEMMA SeekResetKeeps ==
    ASSUME SourceInv, SeekReset, UNCHANGED <<s_profile, s_start, out>>
    PROVE  DecoderInv' /\ MonoStands' /\ PlaysAsContinuous'
<1>1. PlaysAsContinuous'
  BY OutStays DEF SourceInv
<1>2. CASE Mono
  <2>1. ResetDecoder
    BY <1>2 DEF SeekReset
  <2>2. DecoderInv'
    BY <2>1, ResetDecoderKeepsInv DEF SourceInv
  <2>3. MonoStands'
    BY <2>1 DEF ResetDecoder, MonoStands, SourceInv
  <2> QED BY <1>1, <2>2, <2>3
<1>3. CASE ~ Mono
  <2>1. UNCHANGED decVars
    BY <1>3 DEF SeekReset
  <2>2. MonoStands'
    BY <2>1, MonoStays DEF SourceInv, decVars
  <2> QED BY <1>1, <2>1, <2>2, DecoderStays DEF SourceInv
<1> QED BY <1>2, <1>3

\* A seek goes back to the start of an epoch and decodes to its target without
\* giving anything out.
LEMMA SeekKeeps ==
    ASSUME SourceInv, NEW sample \in 0..FileSamples - 1,
           SeekPlain(sample) \/ SeekPreroll(sample) \/ SeekPrerollFails(sample)
    PROVE  SourceInv'
<1>1. UNCHANGED <<s_profile, s_start, out>> /\ SeekReset
  BY DEF SeekPlain, SeekPreroll, SeekPrerollFails
<1>2. DecoderInv' /\ MonoStands' /\ PlaysAsContinuous'
  BY <1>1, SeekResetKeeps
<1> DEFINE k == SeekStart(sample) \div FileStride
<1>3. k \in Nat
  BY SeekNumbers
<1>4. s_reader' = k \/ s_reader' = k + 1
  BY DEF SeekPlain, SeekPreroll, SeekPrerollFails
<1>5. SourceTypeOK'
  <2>1. s_reader' \in Nat
    BY <1>3, <1>4
  <2>2. s_faulted' \in BOOLEAN
    BY DEF SeekPlain, SeekPreroll, SeekPrerollFails
  <2> QED BY <1>1, <2>1, <2>2 DEF SourceInv, SourceTypeOK
<1>6. StereoStands'
  <2>1. CASE SeekPlain(sample)
    <3>1. s_reader' = k /\ s_overlap' = << >> /\ SeekStart(sample) = SeekBoundary(sample)
      BY <2>1 DEF SeekPlain
    <3>2. ~ Mono => k = 0
      <4>1. ASSUME ~ Mono PROVE k = 0
        <5>1. SeekStart(sample) = 0
          BY <3>1, <4>1, SeekNumbers
        <5> QED BY <5>1, SourceAssumption
      <4> QED BY <4>1
    <3> HIDE DEF k
    <3> QED BY <1>1, <3>1, <3>2 DEF StereoStands, Mono
  <2>2. CASE SeekPreroll(sample)
    <3>1. s_reader' = k + 1 /\ s_overlap' = <<k>>
      BY <2>2 DEF SeekPreroll
    <3> HIDE DEF k
    <3>2. s_reader' # 0 /\ s_reader' - 1 = k
      BY <1>3, <3>1
    <3> QED BY <3>1, <3>2 DEF StereoStands
  <2>3. CASE SeekPrerollFails(sample)
    BY <2>3 DEF SeekPrerollFails, StereoStands
  <2> QED BY <2>1, <2>2, <2>3
<1> QED BY <1>2, <1>5, <1>6 DEF SourceInv

\* Nothing happens.
LEMMA SourceStutter == ASSUME SourceInv, UNCHANGED allSourceVars PROVE SourceInv'
<1>1. UNCHANGED sourceVars /\ UNCHANGED decVars
  BY DEF allSourceVars
<1>2. MonoStands'
  BY <1>1, MonoStays DEF SourceInv, sourceVars, decVars
<1>3. SourceTypeOK' /\ StereoStands'
  BY <1>1 DEF SourceInv, sourceVars, SourceTypeOK, StereoStands, Mono
<1> QED BY <1>1, <1>2, <1>3, OutStays, DecoderStays DEF SourceInv, sourceVars

\* At each record number the decoder of a source holds what the encoder held
\* there, whatever was sought before.
THEOREM SourceInvariant == SourceSpec => []SourceInv
<1>1. SourceInv /\ [SourceNext]_allSourceVars => SourceInv'
  BY SourceStutter, PullMonoKeeps, PullStereoKeeps, PullFaultKeeps, SeekKeeps DEF SourceNext
<1> QED BY <1>1, SourceInitInv, PTL DEF SourceSpec

\* What a source plays at a place is what playing from the start would have
\* played there, after any seeks and failures.
THEOREM SourcePlaysAsContinuous == SourceSpec => []PlaysAsContinuous
<1>1. SourceInv => PlaysAsContinuous
  BY DEF SourceInv
<1> QED BY <1>1, SourceInvariant, PTL
=============================================================================
