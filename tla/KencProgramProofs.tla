------------------------- MODULE KencProgramProofs -------------------------
(*****************************************************************************)
(* The programs a user runs.  What a kenc command leaves when it ends, is    *)
(* killed or loses power, for any number of commands, records and units of a *)
(* header, and any interference of others.  What the sandbox of a conversion *)
(* reads, and what a success leaves, for any number of sources, blocks,      *)
(* outputs and processes, whatever these processes do.                       *)
(*****************************************************************************)
EXTENDS KencCommand, KencConverter, SequenceTheorems, TLAPS

-----------------------------------------------------------------------------
(* The commands *)

\* An update of a file changes the fields it names.
LEMMA WithRecordIs ==
    ASSUME NEW f \in FileType, NEW version \in Nat
    PROVE  /\ WithRecord(f, version) \in FileType
           /\ WithRecord(f, version).body = Append(f.body, version)
           /\ WithRecord(f, version).header = f.header
<1>1. f.body \in Seq(Nat)
  BY DEF FileType
<1>2. Append(f.body, version) \in Seq(Nat)
  BY <1>1
<1> QED BY <1>2 DEF FileType, WithRecord

\* A file with its header overwritten keeps its body.
LEMMA WithHeaderIs ==
    ASSUME NEW f \in FileType, f.header < HeaderUnits
    PROVE  /\ WithHeader(f) \in FileType
           /\ WithHeader(f).body = f.body
<1>1. f.header + 1 \in 0..HeaderUnits
  BY CommandAssumption DEF FileType
<1> QED BY <1>1 DEF FileType, WithHeader

\* A synchronized file is on disk as it is in memory.
LEMMA SynchronizedIs ==
    ASSUME NEW f \in FileType
    PROVE  /\ Synchronized(f) \in FileType
           /\ Synchronized(f).body = f.body
           /\ Synchronized(f).header = f.header
           /\ Synchronized(f).synced
  BY DEF FileType, Synchronized

\* A file that was just created is empty.
LEMMA EmptyFile == Empty \in FileType /\ Empty.body = << >> /\ Empty.header = 0
<1>1. << >> \in Seq(Nat)
  BY EmptySeq
<1> QED BY <1>1, CommandAssumption DEF Empty, FileType

\* A command that somebody else's step does not touch stands where it stood.
LEMMA OthersStand ==
    ASSUME CommandTypeOK, NEW c \in Commands, Stands(c),
           input' \in Nat, input <= input', power' = power,
           c_pc'[c] = c_pc[c], c_seen'[c] = c_seen[c], c_result'[c] = c_result[c],
           Created(c)' <=> Created(c),
           Created(c) => files'[c] = files[c]
    PROVE  Stands(c)'
<1>1. c_seen[c] \in Nat /\ input \in Nat
  BY CommandAssumption DEF CommandTypeOK
<1>2. MadeFrom(c) \subseteq MadeFrom(c)'
  BY <1>1 DEF MadeFrom
<1>3. Created(c) => (BodyWhole(c)' <=> BodyWhole(c))
  BY DEF BodyWhole
<1>4. Finished(c)' <=> Finished(c)
  BY <1>3 DEF Finished
<1>5. c_seen'[c] <= input'
  BY <1>1 DEF Stands
<1>6. power' /\ Created(c)' =>
          /\ Len(files'[c].body) <= Records
          /\ \A k \in 1..Len(files'[c].body) : files'[c].body[k] \in MadeFrom(c)'
          /\ files'[c].header > 0 \/ c_pc'[c] = "header" => BodyWhole(c)'
  BY <1>2, <1>3 DEF Stands
<1> QED BY <1>4, <1>5, <1>6 DEF Stands

\* Before any command nothing is published.
LEMMA CommandInitInv == CommandInit => CommandInv
<1> SUFFICES ASSUME CommandInit PROVE CommandInv
  OBVIOUS
<1>1. DOMAIN files = {}
  BY EmptySeq DEF CommandInit
<1>2. CommandTypeOK
  BY <1>1, CommandAssumption DEF CommandInit, CommandTypeOK
<1>3. ASSUME NEW c \in Commands PROVE Stands(c)
  BY <1>1, <1>3 DEF CommandInit, Stands, Created, Finished
<1> QED BY <1>2, <1>3 DEF CommandInv

\* If one command takes a step and the others are as they were, the invariant is
\* about that one.
LEMMA OneMoves ==
    ASSUME CommandInv, NEW c \in Commands,
           input' = input, power' = power,
           \A d \in Commands \ {c} :
               /\ c_pc'[d] = c_pc[d] /\ c_seen'[d] = c_seen[d] /\ c_result'[d] = c_result[d]
               /\ d \in DOMAIN files' <=> d \in DOMAIN files
               /\ d \in DOMAIN files => files'[d] = files[d],
           CommandTypeOK', Stands(c)'
    PROVE  CommandInv'
<1>1. ASSUME NEW d \in Commands, d # c PROVE Stands(d)'
  <2>1. input' \in Nat /\ input <= input'
    BY CommandAssumption DEF CommandInv, CommandTypeOK
  <2> QED BY <1>1, <2>1, OthersStand DEF CommandInv, Created
<1> QED BY <1>1 DEF CommandInv

\* A new place in the program changes nothing else.
LEMMA FailsKeepsInv ==
    ASSUME CommandInv, NEW c \in Commands, Fails(c), UNCHANGED <<input, power>>
    PROVE  CommandInv'
<1>1. /\ c_pc' = [c_pc EXCEPT ![c] = "ended"]
      /\ c_result' = [c_result EXCEPT ![c] = "failure"]
      /\ UNCHANGED <<files, c_seen>>
  BY DEF Fails, Goto
<1>2. CommandTypeOK'
  BY <1>1 DEF CommandInv, CommandTypeOK
<1>3. c_pc'[c] = "ended" /\ c_result'[c] = "failure"
  BY <1>1 DEF CommandInv, CommandTypeOK
<1>4. Stands(c)'
  BY <1>1, <1>3 DEF CommandInv, Stands, Created, BodyWhole, MadeFrom
<1>5. \A d \in Commands \ {c} : c_pc'[d] = c_pc[d] /\ c_result'[d] = c_result[d]
  BY <1>1 DEF CommandInv, CommandTypeOK
<1> QED BY <1>1, <1>2, <1>4, <1>5, OneMoves

\* A command is killed at any point.
LEMMA KillKeepsInv ==
    ASSUME CommandInv, NEW c \in Commands, Kill(c)
    PROVE  CommandInv'
<1>1. /\ c_pc' = [c_pc EXCEPT ![c] = "ended"]
      /\ c_result' = [c_result EXCEPT ![c] = "killed"]
      /\ UNCHANGED <<input, files, c_seen, power>>
  BY DEF Kill
<1>2. CommandTypeOK'
  BY <1>1 DEF CommandInv, CommandTypeOK
<1>3. c_pc'[c] = "ended" /\ c_result'[c] = "killed"
  BY <1>1 DEF CommandInv, CommandTypeOK
<1>4. Stands(c)'
  BY <1>1, <1>3 DEF CommandInv, Stands, Created, BodyWhole, MadeFrom
<1>5. \A d \in Commands \ {c} : c_pc'[d] = c_pc[d] /\ c_result'[d] = c_result[d]
  BY <1>1 DEF CommandInv, CommandTypeOK
<1> QED BY <1>1, <1>2, <1>4, <1>5, OneMoves

\* What comes before the output is created: options, input, models.
LEMMA OpenInputKeepsInv ==
    ASSUME CommandInv, NEW c \in Commands, OpenInput(c)
    PROVE  CommandInv'
<1>1. /\ c_pc[c] = "open"
      /\ c_pc' = [c_pc EXCEPT ![c] = "create"]
      /\ c_seen' = [c_seen EXCEPT ![c] = input]
      /\ UNCHANGED <<input, files, c_result, power>>
  BY DEF OpenInput, At, Goto
<1>2. CommandTypeOK'
  BY <1>1 DEF CommandInv, CommandTypeOK
<1>3. c_pc'[c] = "create" /\ c_seen'[c] = input
  BY <1>1 DEF CommandInv, CommandTypeOK
<1>4. Stands(c)'
  <2>1. input <= input
    BY CommandAssumption DEF CommandInv, CommandTypeOK
  <2>2. ~Created(c) /\ c_result[c] # "success"
    BY <1>1 DEF CommandInv, Stands
  <2> QED BY <1>1, <1>3, <2>1, <2>2 DEF CommandInv, Stands, Created
<1>5. \A d \in Commands \ {c} : c_pc'[d] = c_pc[d] /\ c_seen'[d] = c_seen[d]
  BY <1>1 DEF CommandInv, CommandTypeOK
<1> QED BY <1>1, <1>2, <1>4, <1>5, OneMoves

\* A command creates its temporary output.
LEMMA CreateOutputKeepsInv ==
    ASSUME CommandInv, NEW c \in Commands, CreateOutput(c)
    PROVE  CommandInv'
<1>1. c_pc[c] = "create" /\ UNCHANGED <<input, power>>
  BY DEF CreateOutput, At
<1>2. CASE path = "none"
  <2>1. /\ files' = [d \in DOMAIN files \cup {c} |-> IF d = c THEN Empty ELSE files[d]]
        /\ c_pc' = [c_pc EXCEPT ![c] = "record"]
        /\ UNCHANGED <<c_seen, c_result>>
    BY <1>2 DEF CreateOutput, Goto
  <2>2. ~Created(c) /\ c_result[c] # "success"
    BY <1>1 DEF CommandInv, Stands
  <2>3. c_pc'[c] = "record" /\ files'[c] = Empty /\ c \in DOMAIN files'
    BY <2>1 DEF CommandInv, CommandTypeOK
  <2>4. CommandTypeOK'
    BY <1>1, <2>1, EmptyFile DEF CommandInv, CommandTypeOK
  <2>5. Stands(c)'
    <3>1. Len(files'[c].body) = 0 /\ files'[c].header = 0
      BY <2>3, EmptyFile, EmptySeq
    <3>2. c_seen'[c] <= input' /\ (~power' => FALSE)
      BY <1>1, <2>1 DEF CommandInv, Stands
    <3>3. Len(files'[c].body) <= Records /\ 1..Len(files'[c].body) = {} /\ ~(files'[c].header > 0)
      BY <3>1, CommandAssumption
    <3> QED BY <2>1, <2>2, <2>3, <3>2, <3>3 DEF Stands, Created
  <2>6. \A d \in Commands \ {c} :
            /\ c_pc'[d] = c_pc[d]
            /\ d \in DOMAIN files' <=> d \in DOMAIN files
            /\ d \in DOMAIN files => files'[d] = files[d]
    BY <2>1 DEF CommandInv, CommandTypeOK
  <2> QED BY <1>1, <2>1, <2>4, <2>5, <2>6, OneMoves
<1>3. CASE path # "none"
  BY <1>1, <1>3, FailsKeepsInv DEF CreateOutput
<1> QED BY <1>2, <1>3

\* A record is made from a version of the input no older than the one seen first.
LEMMA WriteRecordKeepsInv ==
    ASSUME CommandInv, NEW c \in Commands, WriteRecord(c)
    PROVE  CommandInv'
<1> DEFINE f == files[c]
           b == Append(f.body, Source(c))
<1>1. /\ c_pc[c] = "record" /\ Len(f.body) < Records
      /\ files' = [files EXCEPT ![c] = WithRecord(f, Source(c))]
      /\ UNCHANGED <<input, power, c_pc, c_seen, c_result>>
  BY DEF WriteRecord, At, Put
<1>2. Created(c) /\ c_result[c] # "success" /\ power
  BY <1>1 DEF CommandInv, Stands, CommandTypeOK
<1>3. f \in FileType /\ f.body \in Seq(Nat)
  BY <1>2 DEF CommandInv, CommandTypeOK, Created, FileType
<1>4. Source(c) \in Nat /\ Source(c) \in MadeFrom(c)
  <2>1. input \in Nat /\ c_seen[c] \in Nat
    BY CommandAssumption DEF CommandInv, CommandTypeOK
  <2>2. c_seen[c] <= input
    BY DEF CommandInv, Stands
  <2> QED BY <2>1, <2>2 DEF Source, MadeFrom
<1>5. b \in Seq(Nat) /\ Len(b) = Len(f.body) + 1
      /\ b[Len(f.body) + 1] = Source(c)
      /\ \A k \in 1..Len(f.body) : b[k] = f.body[k]
  BY <1>3, <1>4, AppendProperties
<1>6. files'[c] \in FileType /\ files'[c].body = b /\ files'[c].header = f.header
  <2>1. files'[c] = WithRecord(f, Source(c))
    BY <1>1, <1>2 DEF Created
  <2> QED BY <2>1, <1>3, <1>4, WithRecordIs
<1>7. DOMAIN files' = DOMAIN files /\ \A d \in DOMAIN files \ {c} : files'[d] = files[d]
  BY <1>1
<1>8. CommandTypeOK'
  BY <1>1, <1>6, <1>7 DEF CommandInv, CommandTypeOK
<1>9. Stands(c)'
  <2>1. ~(f.header > 0)
    <3>1. SUFFICES ASSUME f.header > 0 PROVE FALSE
      OBVIOUS
    <3>2. f.body = [k \in 1..Records |-> c_seen[c]]
      BY <1>2, <3>1 DEF CommandInv, Stands, BodyWhole
    <3>3. Len(f.body) = Records
      BY <1>3, <3>2, CommandAssumption, LenProperties
    <3> QED BY <1>1, <3>3, CommandAssumption
  <2>2. Len(b) <= Records
    BY <1>1, <1>3, <1>5, CommandAssumption, LenProperties
  <2>3. \A k \in 1..Len(f.body) : f.body[k] \in MadeFrom(c)
    BY <1>2 DEF CommandInv, Stands
  <2>4. \A k \in 1..Len(b) : b[k] \in MadeFrom(c)
    <3>1. ASSUME NEW k \in 1..Len(b) PROVE k \in 1..Len(f.body) \/ k = Len(f.body) + 1
      BY <1>3, <1>5, LenProperties
    <3> HIDE DEF b
    <3> QED BY <3>1, <2>3, <1>4, <1>5
  <2>5. MadeFrom(c)' = MadeFrom(c) /\ Created(c)' /\ c_seen[c] <= input
    BY <1>1, <1>2, <1>7 DEF MadeFrom, Created, CommandInv, Stands
  <2> HIDE DEF f, b
  <2>6. /\ Len(files'[c].body) <= Records
        /\ \A k \in 1..Len(files'[c].body) : files'[c].body[k] \in MadeFrom(c)'
        /\ ~(files'[c].header > 0)
    BY <2>1, <2>2, <2>4, <2>5, <1>6
  <2> QED BY <2>5, <2>6, <1>1, <1>2 DEF Stands
<1> QED BY <1>1, <1>7, <1>8, <1>9, OneMoves

\* Behind the last record, an input that is as it was means that every record is
\* made from it.
LEMMA EndRecordsKeepsInv ==
    ASSUME CommandInv, NEW c \in Commands, EndRecords(c)
    PROVE  CommandInv'
<1>1. c_pc[c] = "record" /\ Len(files[c].body) = Records /\ UNCHANGED <<input, power>>
  BY DEF EndRecords, At
<1>2. CASE InputUnchanged(c)
  <2>1. /\ c_pc' = [c_pc EXCEPT ![c] = "header"]
        /\ UNCHANGED <<files, c_seen, c_result>>
    BY <1>2 DEF EndRecords, Goto
  <2>2. Created(c) /\ c_result[c] # "success" /\ power
    BY <1>1 DEF CommandInv, Stands, CommandTypeOK
  <2>3. MadeFrom(c) \subseteq {c_seen[c]}
    BY <1>2, CommandAssumption
    DEF CommandInv, CommandTypeOK, InputUnchanged, MadeFrom, Commands
  <2>4. files[c].body \in Seq(Nat)
    BY <2>2 DEF CommandInv, CommandTypeOK, Created, FileType
  <2>5. \A k \in 1..Records : files[c].body[k] = c_seen[c]
    BY <1>1, <2>2, <2>3 DEF CommandInv, Stands
  <2>6. BodyWhole(c)
    BY <1>1, <2>4, <2>5, LenProperties DEF BodyWhole
  <2>7. CommandTypeOK'
    BY <1>1, <2>1 DEF CommandInv, CommandTypeOK
  <2>8. c_pc'[c] = "header" /\ \A d \in Commands \ {c} : c_pc'[d] = c_pc[d]
    BY <2>1 DEF CommandInv, CommandTypeOK
  <2>9. Stands(c)'
    BY <1>1, <2>1, <2>2, <2>6, <2>8 DEF CommandInv, Stands, Created, BodyWhole, MadeFrom
  <2> QED BY <1>1, <2>1, <2>7, <2>8, <2>9, OneMoves
<1>3. CASE ~InputUnchanged(c)
  BY <1>1, <1>3, FailsKeepsInv DEF EndRecords
<1> QED BY <1>2, <1>3

\* A command writes its header last.
LEMMA WriteHeaderKeepsInv ==
    ASSUME CommandInv, NEW c \in Commands, WriteHeader(c)
    PROVE  CommandInv'
<1> DEFINE f == files[c]
<1>1. /\ c_pc[c] = "header" /\ f.header < HeaderUnits
      /\ files' = [files EXCEPT ![c] = WithHeader(f)]
      /\ UNCHANGED <<input, power, c_pc, c_seen, c_result>>
  BY DEF WriteHeader, At, Put
<1>2. Created(c) /\ c_result[c] # "success" /\ power /\ BodyWhole(c)
  BY <1>1 DEF CommandInv, Stands, CommandTypeOK
<1>3. f \in FileType
  BY <1>2 DEF CommandInv, CommandTypeOK, Created
<1>5. files'[c] \in FileType /\ files'[c].body = f.body
  <2>1. files'[c] = WithHeader(f)
    BY <1>1, <1>2 DEF Created
  <2> QED BY <2>1, <1>1, <1>3, WithHeaderIs
<1>6. DOMAIN files' = DOMAIN files /\ \A d \in DOMAIN files \ {c} : files'[d] = files[d]
  BY <1>1
<1>7. CommandTypeOK'
  BY <1>1, <1>5, <1>6 DEF CommandInv, CommandTypeOK
<1>8. Stands(c)'
  BY <1>1, <1>2, <1>5, <1>6 DEF CommandInv, Stands, Created, BodyWhole, MadeFrom
<1> QED BY <1>1, <1>6, <1>7, <1>8, OneMoves

\* fsync makes the file durable, or fails.
LEMMA SyncKeepsInv ==
    ASSUME CommandInv, NEW c \in Commands, Sync(c)
    PROVE  CommandInv'
<1> DEFINE f == files[c]
<1>1. /\ c_pc[c] = "header" /\ f.header = HeaderUnits
      /\ files' = [files EXCEPT ![c] = Synchronized(f)]
      /\ c_pc' = [c_pc EXCEPT ![c] = "close"]
      /\ UNCHANGED <<input, power, c_seen, c_result>>
  BY DEF Sync, At, Put, Goto
<1>2. Created(c) /\ c_result[c] # "success" /\ power /\ BodyWhole(c)
  BY <1>1 DEF CommandInv, Stands, CommandTypeOK
<1>3. f \in FileType
  BY <1>2 DEF CommandInv, CommandTypeOK, Created
<1>4. /\ files'[c] \in FileType /\ files'[c].body = f.body
      /\ files'[c].header = HeaderUnits /\ files'[c].synced
  <2>1. f.header = HeaderUnits
    BY <1>1
  <2>2. files'[c] = Synchronized(f)
    BY <1>1, <1>2 DEF Created
  <2> QED BY <2>1, <2>2, <1>3, SynchronizedIs
<1>5. DOMAIN files' = DOMAIN files /\ \A d \in DOMAIN files \ {c} : files'[d] = files[d]
  BY <1>1
<1>6. CommandTypeOK'
  BY <1>1, <1>4, <1>5 DEF CommandInv, CommandTypeOK
<1>7. c_pc'[c] = "close" /\ \A d \in Commands \ {c} : c_pc'[d] = c_pc[d]
  BY <1>1 DEF CommandInv, CommandTypeOK
<1>8. Finished(c)'
  BY <1>1, <1>2, <1>4, <1>5 DEF Finished, Created, BodyWhole
<1>9. Stands(c)'
  BY <1>1, <1>2, <1>4, <1>7, <1>8 DEF CommandInv, Stands, Created, BodyWhole, MadeFrom, Finished
<1> QED BY <1>1, <1>5, <1>6, <1>7, <1>9, OneMoves

\* A command closes its output.
LEMMA CloseKeepsInv ==
    ASSUME CommandInv, NEW c \in Commands, Close(c)
    PROVE  CommandInv'
<1>1. /\ c_pc[c] = "close"
      /\ c_pc' = [c_pc EXCEPT ![c] = "ended"]
      /\ c_result' = [c_result EXCEPT ![c] = "success"]
      /\ UNCHANGED <<input, power, files, c_seen>>
  BY DEF Close, At, Goto
<1>2. Finished(c)
  BY <1>1 DEF CommandInv, Stands
<1>3. CommandTypeOK'
  BY <1>1 DEF CommandInv, CommandTypeOK
<1>4. c_pc'[c] = "ended" /\ c_result'[c] = "success"
  BY <1>1 DEF CommandInv, CommandTypeOK
<1>5. Stands(c)'
  BY <1>1, <1>2, <1>4 DEF CommandInv, Stands, Created, BodyWhole, MadeFrom, Finished
<1>6. \A d \in Commands \ {c} : c_pc'[d] = c_pc[d] /\ c_result'[d] = c_result[d]
  BY <1>1 DEF CommandInv, CommandTypeOK
<1> QED BY <1>1, <1>3, <1>5, <1>6, OneMoves

\* A power failure leaves files, and those that were synchronized as they were.
LEMMA RemainsIs ==
    ASSUME NEW f \in FileType, NEW g \in Remains(f)
    PROVE  g \in FileType /\ (f.synced => g = f)
<1>1. CASE f.synced
  BY <1>1 DEF Remains
<1>2. CASE ~f.synced
  <2>1. PICK n \in 0..Len(f.body), h \in 0..f.header : g = Torn(f, n, h)
    BY <1>2 DEF Remains
  <2>2. f.body \in Seq(Nat) /\ f.header \in 0..HeaderUnits
    BY DEF FileType
  <2>3. SubSeq(f.body, 1, n) \in Seq(Nat)
    BY <2>2, SubSeqProperties, LenProperties
  <2>4. h \in 0..HeaderUnits
    BY <2>2, CommandAssumption
  <2> QED BY <1>2, <2>1, <2>3, <2>4 DEF FileType, Torn
<1> QED BY <1>1, <1>2

\* The power fails: what was not synchronized may be lost, names included.
LEMMA PowerFailsKeepsInv ==
    ASSUME CommandInv, PowerFails
    PROVE  CommandInv'
<1>1. /\ power' = FALSE
      /\ DOMAIN files' \subseteq DOMAIN files
      /\ \A c \in DOMAIN files' : files'[c] \in Remains(files[c])
      /\ c_pc' = [c \in Commands |-> "ended"]
      /\ c_result' = [c \in Commands |-> IF Unended(c) THEN "killed" ELSE c_result[c]]
      /\ UNCHANGED <<input, c_seen>>
  BY DEF PowerFails
<1>2. \A c \in DOMAIN files : files[c] \in FileType
  BY DEF CommandInv, CommandTypeOK
<1>3. \A c \in DOMAIN files' : files'[c] \in FileType /\ (files[c].synced => files'[c] = files[c])
  BY <1>1, <1>2, RemainsIs
<1>4. CommandTypeOK'
  <2>1. c_result' \in [Commands -> {"none", "success", "failure", "killed"}]
    BY <1>1 DEF CommandInv, CommandTypeOK
  <2> QED BY <1>1, <1>3, <2>1 DEF CommandInv, CommandTypeOK
<1>5. ASSUME NEW c \in Commands PROVE Stands(c)'
  <2>1. Finished(c) /\ Created(c)' => Finished(c)'
    BY <1>1, <1>3 DEF Finished, Created, BodyWhole
  <2>2. c_pc'[c] = "ended"
    BY <1>1
  <2>3. c_result'[c] = "success" => (power \/ Created(c) => Finished(c))
    BY <1>1 DEF CommandInv, Stands
  <2>5. Created(c)' => Created(c)
    BY <1>1 DEF Created
  <2>4. c_seen'[c] <= input'
    BY <1>1 DEF CommandInv, Stands
  <2> QED BY <1>1, <2>1, <2>2, <2>3, <2>4, <2>5 DEF Stands
<1> QED BY <1>4, <1>5 DEF CommandInv

\* Whoever writes the input or uses the output path leaves the commands alone.
LEMMA OutsidersKeepInv ==
    ASSUME CommandInv, input' \in 0..MaxVersion, input <= input',
           UNCHANGED <<files, c_pc, c_seen, c_result, power>>
    PROVE  CommandInv'
<1>1. CommandTypeOK'
  BY DEF CommandInv, CommandTypeOK
<1>2. input' \in Nat
  BY CommandAssumption
<1>3. ASSUME NEW c \in Commands PROVE Stands(c)'
  BY <1>2, OthersStand DEF CommandInv, Created
<1> QED BY <1>1, <1>3 DEF CommandInv

\* No step of a command breaks the invariant.
LEMMA CommandKeepsInv ==
    ASSUME CommandInv, NEW c \in Commands, Proceed(c)
    PROVE  CommandInv'
<1>1. CASE Refuse(c)
  BY <1>1, FailsKeepsInv DEF Refuse, At
<1>2. CASE GivesUp(c)
  BY <1>2, FailsKeepsInv DEF GivesUp, At
<1>3. CASE SyncFails(c)
  BY <1>3, FailsKeepsInv DEF SyncFails, At
<1>4. CASE CloseFails(c)
  BY <1>4, FailsKeepsInv DEF CloseFails, At
<1>5. CASE OpenInput(c)
  BY <1>5, OpenInputKeepsInv
<1>6. CASE CreateOutput(c)
  BY <1>6, CreateOutputKeepsInv
<1>7. CASE WriteRecord(c)
  BY <1>7, WriteRecordKeepsInv
<1>8. CASE EndRecords(c)
  BY <1>8, EndRecordsKeepsInv
<1>9. CASE WriteHeader(c)
  BY <1>9, WriteHeaderKeepsInv
<1>10. CASE Sync(c)
  BY <1>10, SyncKeepsInv
<1>11. CASE Close(c)
  BY <1>11, CloseKeepsInv
<1> QED BY <1>1, <1>2, <1>3, <1>4, <1>5, <1>6, <1>7, <1>8, <1>9, <1>10, <1>11 DEF Proceed

\* No step of any command, of others or of the power breaks the invariant.
LEMMA CommandStepInv ==
    ASSUME CommandInv, [CommandNext]_commandVars
    PROVE  CommandInv'
<1>1. input \in 0..MaxVersion /\ input <= input
  BY CommandAssumption DEF CommandInv, CommandTypeOK
<1>2. CASE UNCHANGED commandVars
  BY <1>1, <1>2, OutsidersKeepInv DEF commandVars
<1>3. CASE WriteInput
  <2>1. input' \in 0..MaxVersion /\ input <= input'
    BY <1>1, <1>3, CommandAssumption DEF WriteInput
  <2> QED BY <1>3, <2>1, OutsidersKeepInv DEF WriteInput
<1>4. CASE OthersCreate
  BY <1>1, <1>4, OutsidersKeepInv DEF OthersCreate
<1>5. CASE OthersRemove
  BY <1>1, <1>5, OutsidersKeepInv DEF OthersRemove
<1>6. CASE PowerFails
  BY <1>6, PowerFailsKeepsInv
<1>7. ASSUME NEW c \in Commands, Proceed(c) \/ Kill(c) PROVE CommandInv'
  BY <1>7, CommandKeepsInv, KillKeepsInv
<1> QED BY <1>2, <1>3, <1>4, <1>5, <1>6, <1>7 DEF CommandNext

-----------------------------------------------------------------------------

\* Every command stands where Stands says, whatever the others do.
THEOREM CommandInvariant == CommandSpec => []CommandInv
<1>1. CommandInit => CommandInv
  BY CommandInitInv
<1>2. CommandInv /\ [CommandNext]_commandVars => CommandInv'
  BY CommandStepInv
<1> QED BY <1>1, <1>2, PTL DEF CommandSpec

\* An exit status of 0 means that the output is whole, of one version of the
\* input, and that a power failure leaves all of it or nothing: its bytes are
\* synchronized, its name is not (file_command.c:283-284, 338-346, 359).
THEOREM CommandSuccessIsWhole == CommandSpec => []SuccessIsWhole
<1>1. CommandInv => SuccessIsWhole
  BY DEF CommandInv, Stands, Finished, Created, BodyWhole, SuccessIsWhole, Readable
<1> QED BY <1>1, CommandInvariant, PTL

\* As long as the power holds, an output that reads is whole, however its command
\* ended (the order of the header and everything else in file_command.c).
THEOREM CommandIncompleteDoesNotRead == CommandSpec => []IncompleteDoesNotRead
<1>1. CommandInv => IncompleteDoesNotRead
  <2> SUFFICES ASSUME CommandInv, NEW c \in Commands, power, Readable(c)
               PROVE  Whole(c)
    BY DEF IncompleteDoesNotRead
  <2>1. Created(c) /\ files[c].header > 0
    BY CommandAssumption DEF Readable, Created
  <2>2. BodyWhole(c)
    BY <2>1 DEF CommandInv, Stands
  <2>3. c_seen[c] \in 0..MaxVersion
    BY DEF CommandInv, CommandTypeOK
  <2> QED BY <2>2, <2>3 DEF BodyWhole, Whole
<1> QED BY <1>1, CommandInvariant, PTL

\* No step of a command changes what others have put at the output path or the
\* file of another command, and the path only if it was free (O_CREAT | O_EXCL at
\* file_command.c:243 and 317, and nothing that removes).
THEOREM CommandPreservesExisting == CommandSpec => ExistingPreserved
<1>1. ASSUME NEW c \in Commands, Proceed(c)
      PROVE  /\ others' = others
             /\ \A d \in DOMAIN files \ {c} : files'[d] = files[d]
             /\ path' # path => path = "none" /\ path' = c
  <2>1. CASE Fails(c)
    BY <2>1 DEF Fails
  <2>2. CASE CreateOutput(c)
    BY <2>1, <2>2 DEF CreateOutput, PathNames
  <2>3. CASE WriteRecord(c) \/ WriteHeader(c) \/ Sync(c)
    BY <2>3 DEF WriteRecord, WriteHeader, Sync, Put
  <2>4. CASE OpenInput(c) \/ EndRecords(c) \/ Close(c)
    BY <2>1, <2>4 DEF OpenInput, EndRecords, Close
  <2>5. CASE Refuse(c) \/ GivesUp(c) \/ SyncFails(c) \/ CloseFails(c)
    BY <2>1, <2>5 DEF Refuse, GivesUp, SyncFails, CloseFails
  <2> QED BY <1>1, <2>2, <2>3, <2>4, <2>5 DEF Proceed
<1>2. [CommandNext]_commandVars =>
          [\A c \in Commands : Proceed(c) =>
              /\ others' = others
              /\ \A d \in DOMAIN files \ {c} : files'[d] = files[d]
              /\ path' # path => path = "none" /\ path' = c]_commandVars
  BY <1>1
<1> QED BY <1>2, PTL DEF CommandSpec, ExistingPreserved

-----------------------------------------------------------------------------
(* The conversion *)

\* Processes that go leave their children to the subreaper, and no circle behind.
LEMMA GoneLeaveNoCircle ==
    ASSUME ConverterTypeOK, Orphans, NEW gone, gone \subseteq Alive, parent' = Without(gone)
    PROVE  /\ parent' \in [Procs -> Procs \cup {Command, Gone}]
           /\ Orphans'
           /\ Alive' \subseteq Alive
<1>1. parent' \in [Procs -> Procs \cup {Command, Gone}]
  BY DEF ConverterTypeOK, Without
<1>2. Alive \subseteq Procs /\ Command \notin Procs /\ Gone \notin Procs /\ Command # Gone
  BY ConverterAssumption DEF Alive
<1>3. ASSUME NEW p \in Procs
      PROVE  /\ p \in gone => parent'[p] = Gone
             /\ p \notin gone /\ parent[p] \in gone => parent'[p] = Command
             /\ p \notin gone /\ parent[p] \notin gone => parent'[p] = parent[p]
  BY <1>3 DEF Without
<1>4. Alive' = Alive \ gone
  <2>1. ASSUME NEW p \in Alive' PROVE p \in Alive \ gone
    <3>1. p \in Procs /\ parent'[p] # p /\ parent'[p] # Gone
      BY <2>1 DEF Alive
    <3>2. p \notin gone
      BY <3>1, <1>3
    <3>3. CASE parent[p] \in gone
      BY <3>1, <3>2, <3>3, <1>2 DEF Alive
    <3>4. CASE parent[p] \notin gone
      BY <3>1, <3>2, <3>4, <1>3 DEF Alive
    <3> QED BY <3>3, <3>4
  <2>2. ASSUME NEW p \in Alive \ gone PROVE p \in Alive'
    <3>1. p \in Procs /\ parent[p] # p /\ parent[p] # Gone
      BY <2>2 DEF Alive
    <3> QED BY <3>1, <2>2, <1>2, <1>3 DEF Alive
  <2> QED BY <2>1, <2>2
<1>5. ASSUME NEW p \in Alive' PROVE parent'[p] \in Alive' \cup {Command}
  BY <1>2, <1>3, <1>4, <1>5 DEF Orphans
<1>6. ASSUME NEW S \in SUBSET Alive', S # {} PROVE \E p \in S : parent'[p] \notin S
  <2>1. S \in SUBSET Alive
    BY <1>4
  <2>2. PICK p \in S : parent[p] \notin S
    BY <2>1, <1>6 DEF Orphans
  <2>3. Command \notin S /\ p \in Procs /\ p \notin gone
    BY <2>1, <1>2, <1>4
  <2>4. parent'[p] \notin S
    BY <2>2, <2>3, <1>3
  <2> QED BY <2>4
<1> QED BY <1>1, <1>4, <1>5, <1>6 DEF Orphans

\* A process that is started has no children yet.
LEMMA ForkLeavesNoCircle ==
    ASSUME ConverterTypeOK, Orphans, NEW p \in Alive \cup {Command}, NEW q \in Procs,
           parent[q] = q, parent' = [parent EXCEPT ![q] = p]
    PROVE  /\ parent' \in [Procs -> Procs \cup {Command, Gone}]
           /\ Orphans'
<1>1. Alive \subseteq Procs /\ Command \notin Procs /\ Gone \notin Procs /\ Command # Gone
  BY ConverterAssumption DEF Alive
<1>2. q \notin Alive
  BY DEF Alive
<1>3. parent' \in [Procs -> Procs \cup {Command, Gone}]
  BY <1>1 DEF ConverterTypeOK
<1>4. parent'[q] = p /\ \A r \in Procs \ {q} : parent'[r] = parent[r]
  BY DEF ConverterTypeOK
<1>5. Alive' = Alive \cup {q}
  <2>1. p # q /\ p # Gone
    BY <1>1, <1>2
  <2>2. ASSUME NEW r \in Procs PROVE r \in Alive' <=> r \in Alive \/ r = q
    BY <2>1, <1>4 DEF Alive
  <2>3. Alive' \subseteq Procs
    BY DEF Alive
  <2> QED BY <2>2, <2>3, <1>1
<1>6. ASSUME NEW r \in Alive' PROVE parent'[r] \in Alive' \cup {Command}
  BY <1>1, <1>2, <1>4, <1>5, <1>6 DEF Orphans
<1>7. ASSUME NEW S \in SUBSET Alive', S # {} PROVE \E r \in S : parent'[r] \notin S
  <2>1. CASE S = {q}
    <3>1. p # q
      BY <1>1, <1>2
    <3> QED BY <2>1, <3>1, <1>4
  <2>2. CASE S # {q}
    <3>1. S \ {q} \in SUBSET Alive /\ S \ {q} # {}
      BY <2>2, <1>5, <1>7
    <3>2. PICK r \in S \ {q} : parent[r] \notin S \ {q}
      BY <3>1 DEF Orphans
    <3>3. r \in Alive /\ parent[r] # q
      BY <3>1, <1>1, <1>2 DEF Orphans
    <3> QED BY <3>2, <3>3, <1>1, <1>4
  <2> QED BY <2>1, <2>2
<1> QED BY <1>3, <1>6, <1>7 DEF Orphans

\* When the subreaper has no child, there is nobody: whoever is left would have
\* an ancestor whose parent it is.
LEMMA NoChildNobody ==
    ASSUME Orphans, Children = {}
    PROVE  Alive = {}
<1> SUFFICES ASSUME Alive # {} PROVE FALSE
  OBVIOUS
<1>1. PICK p \in Alive : parent[p] \notin Alive
  BY DEF Orphans
<1>2. parent[p] = Command /\ p \in Procs
  BY <1>1 DEF Orphans, Alive
<1> QED BY <1>2 DEF Children

\* Children are alive.
LEMMA ChildrenAlive == ASSUME ConverterTypeOK PROVE Children \subseteq Alive
  BY ConverterAssumption DEF Children, Alive

\* The source being read is the one behind those that are sealed.
LEMMA ReadingIs ==
    ASSUME NEW k \in 0..Len(Sources), held = 0..k
    PROVE  Reading = k + 1
<1>1. k + 1 \in 1..NoSource /\ Len(Sources) \in Nat
  BY ConverterAssumption DEF NoSource
<1>2. k + 1 \notin held /\ \A t \in 1..(k + 1) - 1 : t \in held
  OBVIOUS
<1>3. \A s \in 1..NoSource : s \notin held /\ (\A t \in 1..s - 1 : t \in held) => s = k + 1
  <2> SUFFICES ASSUME NEW s \in 1..NoSource, s \notin held, \A t \in 1..s - 1 : t \in held
               PROVE  s = k + 1
    OBVIOUS
  <2>1. s > k
    BY <1>1
  <2>2. ~ (k + 1 <= s - 1)
    BY <1>1, <1>2
  <2> QED BY <2>1, <2>2, <1>1 DEF NoSource
<1> QED BY <1>1, <1>2, <1>3 DEF Reading

\* Before the conversion nothing is open.
LEMMA ConverterInitInv == Init => ConverterInv
<1> SUFFICES ASSUME Init PROVE ConverterInv
  OBVIOUS
<1>1. Alive = {}
  BY DEF Init, Alive
<1>2. ConverterTypeOK
  BY DEF Init, ConverterTypeOK, Preparing
<1> QED BY <1>1, <1>2 DEF Init, ConverterInv, Orphans, SealedInOrder, ComparedStays, Preparing,
      Judging, ReadsPinnedBytes, ConvertedIsWhole

-----------------------------------------------------------------------------
\* Steps at which no process comes or goes, and nothing is copied.
LEMMA QuietStep ==
    ASSUME ConverterInv, ConverterTypeOK', parent' = parent, copy' = copy,
           SealedInOrder', ComparedStays', ConvertedIsWhole'
    PROVE  ConverterInv'
<1>1. Alive' = Alive
  BY DEF Alive
<1>2. Orphans'
  BY <1>1 DEF ConverterInv, Orphans
<1>3. ReadsPinnedBytes'
  BY <1>1 DEF ConverterInv, ReadsPinnedBytes
<1> QED BY <1>2, <1>3 DEF ConverterInv

\* The licence gate lets the conversion through, or not.
LEMMA GateKeeps == ASSUME ConverterInv, Gate PROVE ConverterInv'
<1> USE DEF Gate, asked, world, sandbox
<1>1. ConverterTypeOK' /\ parent' = parent /\ copy' = copy
  BY DEF ConverterInv, ConverterTypeOK, Preparing, Running, Judging
<1>2. SealedInOrder'
  <2>1. Alive' = Alive
    BY DEF Alive
  <2>2. held' = held => Reading' = Reading
    BY DEF Reading
  <2> QED BY <2>1, <2>2, ConverterAssumption
      DEF ConverterInv, ConverterTypeOK, SealedInOrder, Preparing, Running, Judging
<1>3. ComparedStays' /\ ConvertedIsWhole'
  <2>1. Alive' = Alive
    BY DEF Alive
  <2> QED BY <2>1 DEF ConverterInv, ConverterTypeOK, SealedInOrder, ComparedStays, ConvertedIsWhole, Preparing, Running, Judging
<1> QED BY <1>1, <1>2, <1>3, QuietStep

\* The output directory is opened.
LEMMA OpenOutputKeeps == ASSUME ConverterInv, OpenOutput PROVE ConverterInv'
<1> USE DEF OpenOutput, Raise, asked, world, sandbox
<1>1. ConverterTypeOK' /\ parent' = parent /\ copy' = copy
  BY DEF ConverterInv, ConverterTypeOK, Preparing, Running, Judging
<1>2. SealedInOrder'
  <2>1. Alive' = Alive
    BY DEF Alive
  <2>2. held' = held => Reading' = Reading
    BY DEF Reading
  <2>3. {Output} = 0..0 /\ 0 \in 0..Len(Sources) /\ \A s \in 1..0 : copy'[s] = Pinned
    BY ConverterAssumption DEF Output
  <2> QED BY <2>1, <2>3 DEF ConverterInv, ConverterTypeOK, SealedInOrder, Preparing, Running, Judging
<1>3. ComparedStays' /\ ConvertedIsWhole'
  <2>1. Alive' = Alive
    BY DEF Alive
  <2> QED BY <2>1 DEF ConverterInv, ConverterTypeOK, SealedInOrder, ComparedStays, ConvertedIsWhole, Preparing, Running, Judging
<1> QED BY <1>1, <1>2, <1>3, QuietStep

\* One input is opened and looked at; its blocks follow.
LEMMA OpenSourceKeeps == ASSUME ConverterInv, OpenSource PROVE ConverterInv'
<1> USE DEF OpenSource, Raise, asked, world, sandbox
<1>1. ConverterTypeOK' /\ parent' = parent /\ copy' = copy
  BY DEF ConverterInv, ConverterTypeOK, Preparing, Running, Judging
<1>2. SealedInOrder'
  <2>1. Alive' = Alive
    BY DEF Alive
  <2>2. held' = held => Reading' = Reading
    BY DEF Reading
  <2> QED BY <2>1, <2>2, ConverterAssumption
      DEF ConverterInv, ConverterTypeOK, SealedInOrder, Preparing, Running, Judging
<1>3. ComparedStays' /\ ConvertedIsWhole'
  <2>1. Alive' = Alive
    BY DEF Alive
  <2> QED BY <2>1 DEF ConverterInv, ConverterTypeOK, SealedInOrder, ComparedStays, ConvertedIsWhole, Preparing, Running, Judging
<1> QED BY <1>1, <1>2, <1>3, QuietStep

\* The parent looks at the pipe of the sandbox.
LEMMA SelectKeeps == ASSUME ConverterInv, Select PROVE ConverterInv'
<1> USE DEF Select, Raise, asked, world, sandbox
<1>1. ConverterTypeOK' /\ parent' = parent /\ copy' = copy
  BY DEF ConverterInv, ConverterTypeOK, Preparing, Running, Judging
<1>2. SealedInOrder'
  <2>1. Alive' = Alive
    BY DEF Alive
  <2>2. held' = held => Reading' = Reading
    BY DEF Reading
  <2> QED BY <2>1, <2>2, ConverterAssumption
      DEF ConverterInv, ConverterTypeOK, SealedInOrder, Preparing, Running, Judging
<1>3. ComparedStays' /\ ConvertedIsWhole'
  <2>1. Alive' = Alive
    BY DEF Alive
  <2> QED BY <2>1 DEF ConverterInv, ConverterTypeOK, SealedInOrder, ComparedStays, ConvertedIsWhole, Preparing, Running, Judging
<1> QED BY <1>1, <1>2, <1>3, QuietStep

\* The parent waits for the child.
LEMMA WaitKeeps == ASSUME ConverterInv, Wait PROVE ConverterInv'
<1> USE DEF Wait, Raise, asked, world, sandbox
<1>1. ConverterTypeOK' /\ parent' = parent /\ copy' = copy
  BY DEF ConverterInv, ConverterTypeOK, Preparing, Running, Judging
<1>2. SealedInOrder'
  <2>1. Alive' = Alive
    BY DEF Alive
  <2>2. held' = held => Reading' = Reading
    BY DEF Reading
  <2> QED BY <2>1, <2>2, ConverterAssumption
      DEF ConverterInv, ConverterTypeOK, SealedInOrder, Preparing, Running, Judging
<1>3. ComparedStays' /\ ConvertedIsWhole'
  <2>1. Alive' = Alive
    BY DEF Alive
  <2> QED BY <2>1 DEF ConverterInv, ConverterTypeOK, SealedInOrder, ComparedStays, ConvertedIsWhole, Preparing, Running, Judging
<1> QED BY <1>1, <1>2, <1>3, QuietStep

\* The parent judges how the child ended.
LEMMA JudgeKeeps == ASSUME ConverterInv, Judge PROVE ConverterInv'
<1> USE DEF Judge, Raise, asked, world, sandbox
<1>1. ConverterTypeOK' /\ parent' = parent /\ copy' = copy
  BY DEF ConverterInv, ConverterTypeOK, Preparing, Running, Judging
<1>2. SealedInOrder'
  <2>1. Alive' = Alive
    BY DEF Alive
  <2>2. held' = held => Reading' = Reading
    BY DEF Reading
  <2> QED BY <2>1, <2>2, ConverterAssumption
      DEF ConverterInv, ConverterTypeOK, SealedInOrder, Preparing, Running, Judging
<1>3. ComparedStays' /\ ConvertedIsWhole'
  <2>1. Alive' = Alive
    BY DEF Alive
  <2> QED BY <2>1 DEF ConverterInv, ConverterTypeOK, SealedInOrder, ComparedStays, ConvertedIsWhole, Preparing, Running, Judging
<1> QED BY <1>1, <1>2, <1>3, QuietStep

\* One output is compared with its pin.
LEMMA VerifyKeeps == ASSUME ConverterInv, Verify PROVE ConverterInv'
<1> USE DEF Verify, Raise, asked, world, sandbox
<1>1. ConverterTypeOK' /\ parent' = parent /\ copy' = copy
  BY DEF ConverterInv, ConverterTypeOK, Preparing, Running, Judging
<1>2. SealedInOrder'
  <2>1. Alive' = Alive
    BY DEF Alive
  <2>2. held' = held => Reading' = Reading
    BY DEF Reading
  <2> QED BY <2>1, <2>2, ConverterAssumption
      DEF ConverterInv, ConverterTypeOK, SealedInOrder, Preparing, Running, Judging
<1>3. ComparedStays' /\ ConvertedIsWhole'
  <2>1. Alive' = Alive
    BY DEF Alive
  <2> QED BY <2>1 DEF ConverterInv, ConverterTypeOK, SealedInOrder, ComparedStays, ConvertedIsWhole, Preparing, Running, Judging
<1> QED BY <1>1, <1>2, <1>3, QuietStep

\* The deadline passes.
LEMMA ExpireKeeps == ASSUME ConverterInv, Expire PROVE ConverterInv'
<1> USE DEF Expire, conversion, asked, world, sandbox
<1>1. ConverterTypeOK' /\ parent' = parent /\ copy' = copy
  BY DEF ConverterInv, ConverterTypeOK, Preparing, Running, Judging
<1>2. SealedInOrder'
  <2>1. Alive' = Alive
    BY DEF Alive
  <2>2. held' = held => Reading' = Reading
    BY DEF Reading
  <2> QED BY <2>1, <2>2, ConverterAssumption
      DEF ConverterInv, ConverterTypeOK, SealedInOrder, Preparing, Running, Judging
<1>3. ComparedStays' /\ ConvertedIsWhole'
  <2>1. Alive' = Alive
    BY DEF Alive
  <2> QED BY <2>1 DEF ConverterInv, ConverterTypeOK, SealedInOrder, ComparedStays, ConvertedIsWhole, Preparing, Running, Judging
<1> QED BY <1>1, <1>2, <1>3, QuietStep

\* A signal asks the parent to stop.
LEMMA StopKeeps == ASSUME ConverterInv, Stop PROVE ConverterInv'
<1> USE DEF Stop, conversion, asked, world, sandbox
<1>1. ConverterTypeOK' /\ parent' = parent /\ copy' = copy
  BY DEF ConverterInv, ConverterTypeOK, Preparing, Running, Judging
<1>2. SealedInOrder'
  <2>1. Alive' = Alive
    BY DEF Alive
  <2>2. held' = held => Reading' = Reading
    BY DEF Reading
  <2> QED BY <2>1, <2>2, ConverterAssumption
      DEF ConverterInv, ConverterTypeOK, SealedInOrder, Preparing, Running, Judging
<1>3. ComparedStays' /\ ConvertedIsWhole'
  <2>1. Alive' = Alive
    BY DEF Alive
  <2> QED BY <2>1 DEF ConverterInv, ConverterTypeOK, SealedInOrder, ComparedStays, ConvertedIsWhole, Preparing, Running, Judging
<1> QED BY <1>1, <1>2, <1>3, QuietStep

\* Somebody rewrites an input.
LEMMA EditKeeps == ASSUME ConverterInv, Edit PROVE ConverterInv'
<1> USE DEF Edit, conversion, asked, world, sandbox
<1>1. ConverterTypeOK' /\ parent' = parent /\ copy' = copy
  BY DEF ConverterInv, ConverterTypeOK, Preparing, Running, Judging
<1>2. SealedInOrder'
  <2>1. Alive' = Alive
    BY DEF Alive
  <2>2. held' = held => Reading' = Reading
    BY DEF Reading
  <2> QED BY <2>1, <2>2, ConverterAssumption
      DEF ConverterInv, ConverterTypeOK, SealedInOrder, Preparing, Running, Judging
<1>3. ComparedStays' /\ ConvertedIsWhole'
  <2>1. Alive' = Alive
    BY DEF Alive
  <2> QED BY <2>1 DEF ConverterInv, ConverterTypeOK, SealedInOrder, ComparedStays, ConvertedIsWhole, Preparing, Running, Judging
<1> QED BY <1>1, <1>2, <1>3, QuietStep

\* The parent closes the output.
LEMMA CloseOutputKeeps == ASSUME ConverterInv, CloseOutput PROVE ConverterInv'
<1> USE DEF CloseOutput, conversion, asked, world, sandbox
<1>1. ConverterTypeOK' /\ parent' = parent /\ copy' = copy
  BY DEF ConverterInv, ConverterTypeOK, Preparing, Running, Judging
<1>2. SealedInOrder'
  <2>1. Alive' = Alive
    BY DEF Alive
  <2>2. held' = held => Reading' = Reading
    BY DEF Reading
  <2> QED BY <2>1, <2>2, ConverterAssumption
      DEF ConverterInv, ConverterTypeOK, SealedInOrder, Preparing, Running, Judging
<1>3. ComparedStays' /\ ConvertedIsWhole'
  <2>1. Alive' = Alive
    BY DEF Alive
  <2> QED BY <2>1 DEF ConverterInv, ConverterTypeOK, SealedInOrder, ComparedStays, ConvertedIsWhole, Preparing, Running, Judging
<1> QED BY <1>1, <1>2, <1>3, QuietStep

-----------------------------------------------------------------------------
\* A block is copied only to the source that is not sealed yet.
LEMMA CopyBlockKeeps == ASSUME ConverterInv, CopyBlock PROVE ConverterInv'
<1>1. Alive = {} /\ Alive' = Alive
  BY DEF ConverterInv, SealedInOrder, CopyBlock, sandbox, Preparing, Alive
<1>2. ConverterTypeOK'
  BY DEF ConverterInv, ConverterTypeOK, CopyBlock, Raise, sandbox, Preparing
<1>3. Orphans' /\ ReadsPinnedBytes'
  BY <1>1 DEF Orphans, ReadsPinnedBytes
<1>4. SealedInOrder'
  <2>1. CASE stage' = "copy"
    <3>1. PICK k \in 0..Len(Sources) : held = 0..k /\ \A s \in 1..k : copy[s] = Pinned
      BY DEF ConverterInv, SealedInOrder, CopyBlock
    <3>2. Reading = k + 1 /\ Reading # NoSource
      BY <3>1, ReadingIs DEF ConverterInv, SealedInOrder, CopyBlock
    <3>3. held' = held /\ Reading' = Reading
      BY DEF CopyBlock, Reading
    <3>4. \A s \in 1..k : copy'[s] = copy[s]
      BY <3>1, <3>2, <2>1 DEF CopyBlock, Raise, ConverterInv, ConverterTypeOK
    <3> QED BY <1>1, <2>1, <3>1, <3>2, <3>3, <3>4 DEF SealedInOrder, NoSource
  <2>2. CASE stage' # "copy"
    BY <1>1, <2>2 DEF CopyBlock, Raise, SealedInOrder, Preparing
  <2> QED BY <2>1, <2>2
<1>5. ComparedStays' /\ ConvertedIsWhole'
  BY <1>1 DEF CopyBlock, Raise, asked, world, sandbox, ConverterInv, ComparedStays, ConvertedIsWhole,
     Preparing, Running, Judging
<1> QED BY <1>2, <1>3, <1>4, <1>5 DEF ConverterInv

\* What is sealed has been compared with its digest.
LEMMA SealKeeps == ASSUME ConverterInv, Seal PROVE ConverterInv'
<1> USE DEF Seal, Raise, asked, world, sandbox
<1>1. Alive = {} /\ Alive' = Alive
  BY DEF ConverterInv, SealedInOrder, Preparing, Alive
<1>2. ConverterTypeOK' /\ parent' = parent /\ copy' = copy
  BY DEF ConverterInv, ConverterTypeOK, Preparing
<1>3. SealedInOrder'
  <2>1. CASE stage' = "seal"
    <3>1. PICK k \in 0..Len(Sources) : held = 0..k /\ \A s \in 1..k : copy[s] = Pinned
      BY DEF ConverterInv, SealedInOrder
    <3>2. Reading = k + 1 /\ Reading # NoSource
      BY <3>1, ReadingIs DEF ConverterInv, SealedInOrder
    <3>3. k + 1 \in 0..Len(Sources) /\ held' = 0..(k + 1)
      <4>1. held' = held \cup {Reading}
        BY <2>1
      <4>2. 0..(k + 1) = (0..k) \cup {k + 1}
        OBVIOUS
      <4>3. Len(Sources) \in Nat /\ k + 1 # Len(Sources) + 1
        BY <3>2, ConverterAssumption DEF NoSource
      <4>4. k + 1 \in 0..Len(Sources)
        BY <4>3
      <4> HIDE DEF Seal
      <4> QED BY <4>1, <4>2, <4>4, <3>1, <3>2
    <3>4. \A s \in 1..(k + 1) : copy'[s] = Pinned
      BY <1>2, <2>1, <3>1, <3>2 DEF Sealed
    <3> QED BY <1>1, <2>1, <3>3, <3>4 DEF SealedInOrder
  <2>2. CASE stage' # "seal"
    BY <1>1, <2>2 DEF SealedInOrder, Preparing
  <2> QED BY <2>1, <2>2
<1>4. ComparedStays' /\ ConvertedIsWhole'
  BY <1>1 DEF ConverterInv, ComparedStays, ConvertedIsWhole, Preparing, Running, Judging
<1> QED BY <1>2, <1>3, <1>4, QuietStep

\* The first process starts when every source is sealed.
LEMMA SpawnKeeps == ASSUME ConverterInv, Spawn PROVE ConverterInv'
<1> USE DEF Spawn, Raise, asked, world
<1>1. Alive = {} /\ outcome # "converted"
  BY DEF ConverterInv, SealedInOrder, ComparedStays, Preparing
<1>2. PICK k \in 0..Len(Sources) : held = 0..k /\ \A s \in 1..k : copy[s] = Pinned
  BY DEF ConverterInv, SealedInOrder
<1>3. k = Len(Sources)
  BY <1>2, ReadingIs, ConverterAssumption DEF NoSource
<1>4. \A s \in DOMAIN copy' : copy'[s] = Pinned
  BY <1>2, <1>3 DEF ConverterInv, ConverterTypeOK
<1>5. ReadsPinnedBytes'
  BY <1>4 DEF ReadsPinnedBytes, Pinned
<1>6. parent' \in [Procs -> Procs \cup {Command, Gone}] /\ Orphans'
  <2>1. CASE parent' = parent
    BY <1>1, <2>1 DEF ConverterInv, ConverterTypeOK, Orphans, Alive
  <2>2. CASE parent' = [parent EXCEPT ![Child] = Command]
    <3>1. Child \in Procs /\ parent[Child] \in {Child, Gone}
      BY <1>1, ConverterAssumption DEF Alive
    <3>2. parent' \in [Procs -> Procs \cup {Command, Gone}]
      BY <2>2 DEF ConverterInv, ConverterTypeOK
    <3>3. parent'[Child] = Command /\ \A p \in Procs \ {Child} : parent'[p] = parent[p]
      BY <2>2, <3>1 DEF ConverterInv, ConverterTypeOK
    <3>4. Alive' \subseteq {Child} /\ Command # Child
      BY <1>1, <3>1, <3>3, ConverterAssumption DEF Alive
    <3>5. \A S \in SUBSET Alive' : S = {} \/ Child \in S
      BY <3>4
    <3>6. \A S \in SUBSET Alive' : Command \notin S
      BY <3>4
    <3> QED BY <3>2, <3>3, <3>4, <3>5, <3>6 DEF Orphans
  <2> QED BY <2>1, <2>2
<1>7. ConverterTypeOK'
  BY <1>6 DEF ConverterInv, ConverterTypeOK, Running
<1>8. SealedInOrder' /\ ComparedStays' /\ ConvertedIsWhole'
  BY <1>1 DEF ConverterInv, SealedInOrder, ComparedStays, ConvertedIsWhole, Preparing, Running, Judging
<1> QED BY <1>5, <1>6, <1>7, <1>8 DEF ConverterInv

-----------------------------------------------------------------------------
\* Processes go, killed and collected or by themselves, before they have been
\* judged, or when there is nobody.
LEMMA GoneKeeps ==
    ASSUME ConverterInv, NEW gone, gone \subseteq Alive, gone # {}, parent' = Without(gone),
           UNCHANGED <<stage, outcome, asked, receipt, world, copy, held, status, verified,
                       written, stray>>
    PROVE  ConverterInv'
<1>1. parent' \in [Procs -> Procs \cup {Command, Gone}] /\ Orphans' /\ Alive' \subseteq Alive
  BY GoneLeaveNoCircle DEF ConverterInv
<1>2. ConverterTypeOK'
  BY <1>1 DEF ConverterInv, ConverterTypeOK
<1>3. stage \notin Preparing \cup Judging /\ outcome # "converted"
  BY DEF ConverterInv, SealedInOrder, ComparedStays
<1>4. SealedInOrder' /\ ComparedStays' /\ ConvertedIsWhole'
  BY <1>3 DEF ConverterInv, SealedInOrder, ComparedStays, ConvertedIsWhole, Preparing, Judging
<1>5. ReadsPinnedBytes'
  BY <1>1 DEF ConverterInv, ReadsPinnedBytes, Pinned
<1> QED BY <1>1, <1>2, <1>4, <1>5 DEF ConverterInv

\* The parent reaps what the child left behind.
LEMMA ReapAfterWaitKeeps == ASSUME ConverterInv, ReapAfterWait PROVE ConverterInv'
<1>1. CASE Children # {} /\ Reap /\ UNCHANGED <<stage, outcome, held>>
           /\ UNCHANGED <<asked, receipt, world, copy, status, verified>>
  BY <1>1, GoneKeeps, ChildrenAlive DEF ConverterInv, Reap
<1>2. CASE /\ Children = {} /\ stage = "reap" /\ stage' = "judge"
           /\ UNCHANGED <<outcome, held, sandbox, asked, receipt, world, copy, status, verified>>
  <2>1. Alive = {}
    BY <1>2, NoChildNobody DEF ConverterInv
  <2>2. Alive' = Alive
    BY <1>2 DEF Alive, sandbox
  <2> QED BY <1>2, <2>1, <2>2 DEF sandbox, ConverterInv, ConverterTypeOK, Orphans, SealedInOrder,
      ComparedStays, ReadsPinnedBytes, ConvertedIsWhole, Preparing, Running, Judging
<1> QED BY <1>1, <1>2 DEF ReapAfterWait, ReapOwned

\* The parent kills and reaps on every way out.
LEMMA FinallyKeeps == ASSUME ConverterInv, Finally PROVE ConverterInv'
<1>1. CASE Children # {} /\ Reap /\ UNCHANGED <<stage, outcome, held>>
           /\ UNCHANGED <<asked, receipt, world, copy, status, verified>>
  BY <1>1, GoneKeeps, ChildrenAlive DEF ConverterInv, Reap
<1>2. CASE /\ stage = "finally" /\ stage' = "done"
           /\ UNCHANGED <<outcome, sandbox, asked, receipt, world, copy, status, verified>>
  <2>1. Alive' = Alive
    BY <1>2 DEF Alive, sandbox
  <2> QED BY <1>2, <2>1 DEF sandbox, ConverterInv, ConverterTypeOK, Orphans, SealedInOrder,
      ComparedStays, ReadsPinnedBytes, ConvertedIsWhole, Preparing, Running, Judging
<1> QED BY <1>1, <1>2 DEF Finally, ReapOwned

\* The parent exits.
LEMMA ExitKeeps == ASSUME ConverterInv, Exit PROVE ConverterInv'
<1>1. PICK p \in Alive : parent' = Without({p})
  BY DEF Exit
<1> QED BY <1>1, GoneKeeps DEF Exit, conversion, world

\* A process that forks has seen what is sealed; its child sees the same.
LEMMA ForkKeeps == ASSUME ConverterInv, Fork PROVE ConverterInv'
<1>1. PICK p \in Alive, q \in Procs : parent[q] = q /\ parent' = [parent EXCEPT ![q] = p]
  BY DEF Fork
<1>2. parent' \in [Procs -> Procs \cup {Command, Gone}] /\ Orphans'
  BY <1>1, ForkLeavesNoCircle DEF ConverterInv
<1>3. ConverterTypeOK'
  BY <1>2 DEF Fork, conversion, ConverterInv, ConverterTypeOK
<1>4. stage \notin Preparing \cup Judging /\ outcome # "converted"
  BY <1>1 DEF ConverterInv, SealedInOrder, ComparedStays
<1>5. SealedInOrder' /\ ComparedStays' /\ ConvertedIsWhole'
  BY <1>4 DEF Fork, conversion, world, ConverterInv, SealedInOrder, ComparedStays, ConvertedIsWhole,
     Preparing, Judging
<1>6. ReadsPinnedBytes'
  BY <1>1 DEF Fork, conversion, ConverterInv, ReadsPinnedBytes, Pinned
<1> QED BY <1>2, <1>3, <1>5, <1>6 DEF ConverterInv

\* Only somebody who is there writes.
LEMMA WriteKeeps == ASSUME ConverterInv, Write PROVE ConverterInv'
<1> USE DEF Write, conversion, world
<1>1. stage \notin Preparing \cup Judging /\ outcome # "converted"
  BY DEF ConverterInv, SealedInOrder, ComparedStays
<1>2. ConverterTypeOK' /\ parent' = parent /\ copy' = copy
  BY DEF ConverterInv, ConverterTypeOK
<1>3. SealedInOrder' /\ ComparedStays' /\ ConvertedIsWhole'
  BY <1>1 DEF ConverterInv, SealedInOrder, ComparedStays, ConvertedIsWhole, Preparing, Judging
<1> QED BY <1>2, <1>3, QuietStep

\* Every step of the command and of the world keeps the invariant.
LEMMA ConverterStep == ConverterInv /\ [Next]_vars => ConverterInv'
<1> SUFFICES ASSUME ConverterInv, [Next]_vars PROVE ConverterInv'
  OBVIOUS
<1>1. CASE UNCHANGED vars
  <2>1. parent' = parent /\ copy' = copy /\ ConverterTypeOK'
    BY <1>1 DEF vars, ConverterInv, ConverterTypeOK
  <2>2. Alive' = Alive /\ Reading' = Reading
    BY <1>1 DEF vars, Alive, Reading
  <2>3. SealedInOrder' /\ ComparedStays' /\ ConvertedIsWhole'
    BY <1>1, <2>2 DEF vars, ConverterInv, SealedInOrder, ComparedStays, ConvertedIsWhole
  <2> QED BY <2>1, <2>3, QuietStep
<1>2. CASE Run
  BY <1>2, GateKeeps, OpenOutputKeeps, OpenSourceKeeps, CopyBlockKeeps, SealKeeps, SpawnKeeps,
     SelectKeeps, WaitKeeps, ReapAfterWaitKeeps, JudgeKeeps, VerifyKeeps, FinallyKeeps DEF Run
<1> QED BY <1>1, <1>2, ExpireKeeps, StopKeeps, EditKeeps, ForkKeeps, CloseOutputKeeps, ExitKeeps,
       WriteKeeps DEF Next

-----------------------------------------------------------------------------
\* The inductive invariant: what is sealed, who is alive, and what is compared.
THEOREM ConverterInvariant == Spec => []ConverterInv
<1> QED BY ConverterInitInv, ConverterStep, PTL DEF Spec

\* No rewriting of the inputs reaches the sandbox: while any of its processes
\* lives, every snapshot is the pinned file.
THEOREM ConverterReadsPinnedBytes == Spec => []ReadsPinnedBytes
<1>1. ConverterInv => ReadsPinnedBytes
  BY DEF ConverterInv
<1> QED BY <1>1, ConverterInvariant, PTL

\* A success leaves the pinned outputs and nothing else, for any processes: the
\* collection that waitpid says is complete leaves nobody, and no circle of them.
THEOREM ConverterConvertedIsWhole == Spec => []ConvertedIsWhole
<1>1. ConverterInv => ConvertedIsWhole
  BY DEF ConverterInv
<1> QED BY <1>1, ConverterInvariant, PTL
=============================================================================
