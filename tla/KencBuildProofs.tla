--------------------------- MODULE KencBuildProofs ---------------------------
(***************************************************************************)
(* What a converter build publishes, takes back and leaves behind, for any *)
(* number of builders and files, any interference of others, and a failure *)
(* or a kill between any two steps.                                        *)
(***************************************************************************)
EXTENDS KencBuild, TLAPS

\* What a step that is not its own leaves to a builder.
Unmoved(c) ==
    /\ at'[c] = at[c] /\ result'[c] = result[c]
    /\ install'[c] = install[c] /\ tool'[c] = tool[c]
    /\ taken'[c] = taken[c] /\ packed'[c] = packed[c] /\ receipt'[c] = receipt[c]

\* What a step that is not its own may do to the names and the cache: an entry
\* that the builder relies on stays, or somebody puts another over it.
Relied(c, n) ==
    \/ n = "command" /\ at[c] = "remove_first"
    \/ n = "directory" /\ (at[c] \in {"remove_last"} \cup Publishing \/ target["command"] = c)

SharedKept(c) ==
    /\ \A n \in Names : /\ target'[n] = c => target[n] = c
                        /\ Relied(c, n) /\ target[n] \in {c, Other} => target'[n] \in {c, Other}
    /\ \/ cache' = cache
       \/ /\ cache = None \/ cache.by # c
          /\ cache' = None \/ cache'.by # c

\* A builder that somebody else's step does not touch stands where it stood.
LEMMA OthersStand ==
    ASSUME NEW c \in Builders, Stands(c), Unmoved(c), SharedKept(c)
    PROVE  Stands(c)'
<1>1. ResultStands(c)'
  BY DEF Stands, ResultStands, Unmoved
<1>2. NamesStand(c)'
  BY DEF Stands, NamesStand, Unmoved, SharedKept, Relied, Names, Publishing
<1>3. CacheStands(c)'
  BY DEF Stands, CacheStands, Unmoved, SharedKept
<1>4. ResourcesStand(c)'
  BY DEF Stands, ResourcesStand, Unmoved
<1>5. PackedStands(c)'
  BY DEF Stands, PackedStands, Unmoved
<1> QED BY <1>1, <1>2, <1>3, <1>4, <1>5 DEF Stands

\* The invariant after a step of one builder, then, is about that one.
LEMMA OneMoves ==
    ASSUME BuildInv, NEW b \in Builders, BuildTypeOK', Stands(b)', OneRemoves',
           \A c \in Builders \ {b} : Unmoved(c) /\ SharedKept(c)
    PROVE  BuildInv'
<1>1. ASSUME NEW c \in Builders PROVE Stands(c)'
  BY <1>1, OthersStand DEF BuildInv
<1> QED BY <1>1 DEF BuildInv

\* A builder that neither publishes nor goes to remove gets in nobody's way.
LEMMA NobodyHindered ==
    ASSUME OneRemoves, NEW b \in Builders,
           \A c \in Builders \ {b} : at'[c] = at[c],
           at'[b] \notin {"remove_first", "remove_last"} \cup Publishing,
           \A c \in Builders : target'["command"] = c => target["command"] = c
    PROVE  OneRemoves'
  BY DEF OneRemoves

\* A name that is made or replaced leaves the names what they are.
LEMMA PutAtName ==
    ASSUME NEW S, NEW t \in [Names -> S], NEW v \in S
    PROVE  /\ [t EXCEPT !["directory"] = v] \in [Names -> S]
           /\ [t EXCEPT !["command"] = v] \in [Names -> S]
  OBVIOUS

\* Before anybody builds.
LEMMA BuildInitInv == Init => BuildInv
<1> SUFFICES ASSUME Init PROVE BuildInv
  OBVIOUS
<1>1. BuildTypeOK /\ OneRemoves
  BY DEF Init, BuildTypeOK, OneRemoves, Unpublished, NoFiles
<1>2. ASSUME NEW b \in Builders PROVE Stands(b)
  <2>1. at[b] = "start" /\ result[b] = "running"
    BY <1>2 DEF Init
  <2>2. \A n \in Names : target[n] # b
    BY <1>2, BuildAssumption DEF Init
  <2>3. cache # None => cache.by # b
    BY <1>2, BuildAssumption DEF Init
  <2>4. ResultStands(b) /\ ResourcesStand(b)
    BY <1>2, <2>1 DEF Init, ResultStands, ResourcesStand, RollingBack
  <2>5. NamesStand(b)
    BY <2>1, <2>2 DEF NamesStand, Publishing, Over, Names
  <2>6. PackedStands(b)
    BY <1>2, <2>1 DEF Init, PackedStands, Extracted, Publishing, NoFiles, Files
  <2> QED BY <2>1, <2>3, <2>4, <2>5, <2>6 DEF Stands, CacheStands
<1> QED BY <1>1, <1>2 DEF BuildInv

\* A step that does not touch the cache leaves the builder's entry what it is.
LEMMA CacheUntouched ==
    ASSUME BuildInv, NEW b \in Builders, at[b] \in (Unpublished \cup Publishing) \ {"fill"},
           at'[b] # "fill", cache' = cache
    PROVE  CacheStands(b)'
  BY DEF BuildInv, Stands, ResultStands, CacheStands

-----------------------------------------------------------------------------
\* One lemma per action: the shared state keeps its type, the builder stands where
\* it went, and the others are not moved.
LEMMA StartKeeps ==
    ASSUME BuildInv, NEW b \in Builders, Start(b)
    PROVE  BuildInv'
<1> USE DEF BuildInv, Start, Goto, Checkpoint, Raise, seen, files
<1>1. BuildTypeOK'
  BY BuildAssumption DEF BuildTypeOK, Unpublished, Publishing, RollingBack, Over, Extracted
<1>2. Stands(b)'
  BY BuildAssumption
  DEF BuildTypeOK, Names, Unpublished, Publishing, RollingBack, Over, Extracted,
      Stands, ResultStands, NamesStand, CacheStands, ResourcesStand, PackedStands
<1>3. \A c \in Builders \ {b} : Unmoved(c) /\ SharedKept(c)
  BY BuildAssumption
  DEF BuildTypeOK, Names, ResultStands, NamesStand, CacheStands, ResourcesStand, PackedStands,
      Stands, Unpublished, Publishing, RollingBack, Over, Extracted, Unmoved, SharedKept
<1>4. OneRemoves'
  BY NobodyHindered DEF BuildTypeOK, Publishing
<1> QED BY <1>1, <1>2, <1>3, <1>4, OneMoves

\* The builder reads the pins and what they name.
LEMMA PinsKeeps ==
    ASSUME BuildInv, NEW b \in Builders, Pins(b)
    PROVE  BuildInv'
<1> USE DEF BuildInv, Pins, Goto, Try, Checkpoint, Raise, seen, files
<1>1. BuildTypeOK'
  BY BuildAssumption DEF BuildTypeOK, Unpublished, Publishing, RollingBack, Over, Extracted
<1>2. Stands(b)'
  <2>1. ResultStands(b)' /\ ResourcesStand(b)'
    BY DEF BuildTypeOK, Unpublished, Publishing, RollingBack, Over, Stands, ResultStands, ResourcesStand
  <2>2. NamesStand(b)'
    BY DEF BuildTypeOK, Names, Unpublished, Publishing, RollingBack, Over,
       Stands, ResultStands, NamesStand
  <2>3. CacheStands(b)'
    BY CacheUntouched DEF BuildTypeOK, Unpublished, Publishing
  <2>4. PackedStands(b)'
    BY DEF BuildTypeOK, Unpublished, Publishing, Extracted, Stands, ResultStands, PackedStands
  <2> QED BY <2>1, <2>2, <2>3, <2>4 DEF Stands
<1>3. \A c \in Builders \ {b} : Unmoved(c) /\ SharedKept(c)
  BY BuildAssumption
  DEF BuildTypeOK, Names, ResultStands, NamesStand, CacheStands, ResourcesStand, PackedStands,
      Stands, Unpublished, Publishing, RollingBack, Over, Extracted, Unmoved, SharedKept
<1>4. OneRemoves'
  BY NobodyHindered DEF BuildTypeOK, Publishing
<1> QED BY <1>1, <1>2, <1>3, <1>4, OneMoves

\* A tool of the build is started.
LEMMA LaunchKeeps ==
    ASSUME BuildInv, NEW b \in Builders, Launch(b)
    PROVE  BuildInv'
<1> USE DEF BuildInv, Launch, Goto, seen, files
<1>1. BuildTypeOK'
  BY BuildAssumption DEF BuildTypeOK, Unpublished, Publishing, RollingBack, Over, Extracted
<1>2. Stands(b)'
  BY BuildAssumption
  DEF BuildTypeOK, Names, Unpublished, Publishing, RollingBack, Over, Extracted,
      Stands, ResultStands, NamesStand, CacheStands, ResourcesStand, PackedStands
<1>3. \A c \in Builders \ {b} : Unmoved(c) /\ SharedKept(c)
  BY BuildAssumption
  DEF BuildTypeOK, Names, ResultStands, NamesStand, CacheStands, ResourcesStand, PackedStands,
      Stands, Unpublished, Publishing, RollingBack, Over, Extracted, Unmoved, SharedKept
<1>4. OneRemoves'
  BY NobodyHindered DEF BuildTypeOK, Publishing
<1> QED BY <1>1, <1>2, <1>3, <1>4, OneMoves

\* A tool of the build ends, well or not.
LEMMA ToolReturnsKeeps ==
    ASSUME BuildInv, NEW b \in Builders, ToolReturns(b)
    PROVE  BuildInv'
<1> USE DEF BuildInv, ToolReturns, Goto, Collected, Try, Checkpoint, Raise, seen, files
<1>1. BuildTypeOK'
  BY BuildAssumption DEF BuildTypeOK, Unpublished, Publishing, RollingBack, Over, Extracted
<1>2. Stands(b)'
  BY BuildAssumption
  DEF BuildTypeOK, Names, Unpublished, Publishing, RollingBack, Over, Extracted,
      Stands, ResultStands, NamesStand, CacheStands, ResourcesStand, PackedStands
<1>3. \A c \in Builders \ {b} : Unmoved(c) /\ SharedKept(c)
  BY BuildAssumption
  DEF BuildTypeOK, Names, ResultStands, NamesStand, CacheStands, ResourcesStand, PackedStands,
      Stands, Unpublished, Publishing, RollingBack, Over, Extracted, Unmoved, SharedKept
<1>4. OneRemoves'
  BY NobodyHindered DEF BuildTypeOK, Publishing
<1> QED BY <1>1, <1>2, <1>3, <1>4, OneMoves

\* The archive is read from the cache.
LEMMA UseCacheKeeps ==
    ASSUME BuildInv, NEW b \in Builders, UseCache(b)
    PROVE  BuildInv'
<1> USE DEF BuildInv, UseCache, Goto, seen, files
<1>1. BuildTypeOK'
  BY BuildAssumption DEF BuildTypeOK, Unpublished, Publishing, RollingBack, Over, Extracted
<1>2. Stands(b)'
  BY BuildAssumption
  DEF BuildTypeOK, Names, Unpublished, Publishing, RollingBack, Over, Extracted,
      Stands, ResultStands, NamesStand, CacheStands, ResourcesStand, PackedStands
<1>3. \A c \in Builders \ {b} : Unmoved(c) /\ SharedKept(c)
  BY BuildAssumption
  DEF BuildTypeOK, Names, ResultStands, NamesStand, CacheStands, ResourcesStand, PackedStands,
      Stands, Unpublished, Publishing, RollingBack, Over, Extracted, Unmoved, SharedKept
<1>4. OneRemoves'
  BY NobodyHindered DEF BuildTypeOK, Publishing
<1> QED BY <1>1, <1>2, <1>3, <1>4, OneMoves

\* The cache entry is created exclusively.
LEMMA CreateEntryKeeps ==
    ASSUME BuildInv, NEW b \in Builders, CreateEntry(b)
    PROVE  BuildInv'
<1> USE DEF BuildInv, CreateEntry, Goto, Checkpoint, Raise, seen, files
<1>1. BuildTypeOK'
  <2>1. cache' = [by |-> b, holds |-> "part"] \/ cache' = cache
    OBVIOUS
  <2>2. cache' \in {None} \cup [by : Builders \cup {Other}, holds : {"part", "whole", "wrong"}]
    BY <2>1 DEF BuildTypeOK
  <2> QED BY <2>2 DEF BuildTypeOK, Unpublished, Publishing, RollingBack, Over, Extracted
<1>2. Stands(b)'
  BY BuildAssumption
  DEF BuildTypeOK, Names, Unpublished, Publishing, RollingBack, Over, Extracted,
      Stands, ResultStands, NamesStand, CacheStands, ResourcesStand, PackedStands
<1>3. \A c \in Builders \ {b} : Unmoved(c) /\ SharedKept(c)
  BY BuildAssumption
  DEF BuildTypeOK, Names, ResultStands, NamesStand, CacheStands, ResourcesStand, PackedStands,
      Stands, Unpublished, Publishing, RollingBack, Over, Extracted, Unmoved, SharedKept
<1>4. OneRemoves'
  BY NobodyHindered DEF BuildTypeOK, Publishing
<1> QED BY <1>1, <1>2, <1>3, <1>4, OneMoves

\* The downloaded archive is written into the entry, or the entry is taken
\* away.
LEMMA FillEntryKeeps ==
    ASSUME BuildInv, NEW b \in Builders, FillEntry(b)
    PROVE  BuildInv'
<1> USE DEF BuildInv, FillEntry, Goto, Checkpoint, Raise, Strand, seen, files
<1>1. BuildTypeOK'
  <2>1. cache # None /\ cache \in [by : Builders \cup {Other}, holds : {"part", "whole", "wrong"}]
    BY DEF BuildTypeOK, Stands, CacheStands
  <2>2. [cache EXCEPT !.holds = "whole"] \in [by : Builders \cup {Other}, holds : {"part", "whole", "wrong"}]
    BY <2>1
  <2>3. cache' \in {None} \cup [by : Builders \cup {Other}, holds : {"part", "whole", "wrong"}]
    BY <2>1, <2>2
  <2> QED BY <2>3 DEF BuildTypeOK, Unpublished, Publishing, RollingBack, Over, Extracted
<1>2. Stands(b)'
  BY BuildAssumption
  DEF BuildTypeOK, Names, Unpublished, Publishing, RollingBack, Over, Extracted,
      Stands, ResultStands, NamesStand, CacheStands, ResourcesStand, PackedStands
<1>3. \A c \in Builders \ {b} : Unmoved(c) /\ SharedKept(c)
  BY BuildAssumption
  DEF BuildTypeOK, Names, ResultStands, NamesStand, CacheStands, ResourcesStand, PackedStands,
      Stands, Unpublished, Publishing, RollingBack, Over, Extracted, Unmoved, SharedKept
<1>4. OneRemoves'
  BY NobodyHindered DEF BuildTypeOK, Publishing
<1> QED BY <1>1, <1>2, <1>3, <1>4, OneMoves

\* The archive is unpacked.
LEMMA ExtractKeeps ==
    ASSUME BuildInv, NEW b \in Builders, Extract(b)
    PROVE  BuildInv'
<1> USE DEF BuildInv, Extract, Goto, Checkpoint, Raise, seen, files
<1>1. BuildTypeOK'
  <2>1. taken' = [taken EXCEPT ![b] = "whole"] \/ taken' = taken
    OBVIOUS
  <2>2. taken' \in [Builders -> {None, "whole"}]
    BY <2>1 DEF BuildTypeOK
  <2> QED BY <2>2 DEF BuildTypeOK, Unpublished, Publishing, RollingBack, Over, Extracted
<1>2. Stands(b)'
  BY BuildAssumption
  DEF BuildTypeOK, Names, Unpublished, Publishing, RollingBack, Over, Extracted,
      Stands, ResultStands, NamesStand, CacheStands, ResourcesStand, PackedStands
<1>3. \A c \in Builders \ {b} : Unmoved(c) /\ SharedKept(c)
  BY BuildAssumption
  DEF BuildTypeOK, Names, ResultStands, NamesStand, CacheStands, ResourcesStand, PackedStands,
      Stands, Unpublished, Publishing, RollingBack, Over, Extracted, Unmoved, SharedKept
<1>4. OneRemoves'
  BY NobodyHindered DEF BuildTypeOK, Publishing
<1> QED BY <1>1, <1>2, <1>3, <1>4, OneMoves

\* The pins are read again and the population is recorded with its sizes.
LEMMA CollectKeeps ==
    ASSUME BuildInv, NEW b \in Builders, Collect(b)
    PROVE  BuildInv'
<1> USE DEF BuildInv, Collect, Goto, Try, Checkpoint, Raise, seen, files
<1>1. BuildTypeOK'
  BY BuildAssumption DEF BuildTypeOK, Unpublished, Publishing, RollingBack, Over, Extracted
<1>2. Stands(b)'
  <2>1. ResultStands(b)' /\ ResourcesStand(b)'
    BY DEF BuildTypeOK, Unpublished, Publishing, RollingBack, Over, Stands, ResultStands, ResourcesStand
  <2>2. NamesStand(b)'
    BY DEF BuildTypeOK, Names, Unpublished, Publishing, RollingBack, Over,
       Stands, ResultStands, NamesStand
  <2>3. CacheStands(b)'
    BY CacheUntouched DEF BuildTypeOK, Unpublished, Publishing
  <2>4. PackedStands(b)'
    BY DEF BuildTypeOK, Unpublished, Publishing, Extracted, Stands, ResultStands, PackedStands
  <2> QED BY <2>1, <2>2, <2>3, <2>4 DEF Stands
<1>3. \A c \in Builders \ {b} : Unmoved(c) /\ SharedKept(c)
  BY BuildAssumption
  DEF BuildTypeOK, Names, ResultStands, NamesStand, CacheStands, ResourcesStand, PackedStands,
      Stands, Unpublished, Publishing, RollingBack, Over, Extracted, Unmoved, SharedKept
<1>4. OneRemoves'
  BY NobodyHindered DEF BuildTypeOK, Publishing
<1> QED BY <1>1, <1>2, <1>3, <1>4, OneMoves

\* bin/ is made.
LEMMA MakeBinKeeps ==
    ASSUME BuildInv, NEW b \in Builders, MakeBin(b)
    PROVE  BuildInv'
<1>0. /\ at[b] = "bin" /\ UNCHANGED <<target, install, tool, files>>
      /\ \/ at' = [at EXCEPT ![b] = "rename"] /\ UNCHANGED result
         \/ at' = [at EXCEPT ![b] = "clean"] /\ result' = [result EXCEPT ![b] = "failed"]
  BY DEF MakeBin, Goto, Raise
<1> USE <1>0 DEF BuildInv, files
<1>1. BuildTypeOK'
  BY BuildAssumption DEF BuildTypeOK, Unpublished, Publishing, RollingBack, Over, Extracted
<1>2. Stands(b)'
  <2>1. ResultStands(b)' /\ ResourcesStand(b)'
    BY DEF BuildTypeOK, Unpublished, Publishing, RollingBack, Over, Stands, ResultStands, ResourcesStand
  <2>2. NamesStand(b)'
    BY DEF BuildTypeOK, Names, Unpublished, Publishing, RollingBack, Over,
       Stands, ResultStands, NamesStand
  <2>3. CacheStands(b)'
    BY CacheUntouched DEF BuildTypeOK, Unpublished, Publishing
  <2>4. PackedStands(b)'
    BY DEF BuildTypeOK, Unpublished, Publishing, Extracted, Stands, ResultStands, PackedStands
  <2> QED BY <2>1, <2>2, <2>3, <2>4 DEF Stands
<1>3. \A c \in Builders \ {b} : Unmoved(c) /\ SharedKept(c)
  BY BuildAssumption
  DEF BuildTypeOK, Names, ResultStands, NamesStand, CacheStands, ResourcesStand, PackedStands,
      Stands, Unpublished, Publishing, RollingBack, Over, Extracted, Unmoved, SharedKept
<1>4. OneRemoves'
  BY NobodyHindered DEF BuildTypeOK, Publishing
<1> QED BY <1>1, <1>2, <1>3, <1>4, OneMoves

\* The runtime directory gets its name.
LEMMA PublishDirectoryKeeps ==
    ASSUME BuildInv, NEW b \in Builders, PublishDirectory(b)
    PROVE  BuildInv'
<1> USE DEF BuildInv, PublishDirectory, Goto, Raise, seen, files
<1>1. BuildTypeOK'
  <2>1. target' = [target EXCEPT !["directory"] = b] \/ target' = target
    OBVIOUS
  <2>2. target' \in [Names -> Builders \cup {None, Other}]
    BY <2>1, PutAtName DEF BuildTypeOK
  <2> QED BY <2>2 DEF BuildTypeOK, Unpublished, Publishing, RollingBack, Over, Extracted
<1>2. Stands(b)'
  BY BuildAssumption
  DEF BuildTypeOK, Names, Unpublished, Publishing, RollingBack, Over, Extracted,
      Stands, ResultStands, NamesStand, CacheStands, ResourcesStand, PackedStands
<1>3. \A c \in Builders \ {b} : Unmoved(c) /\ SharedKept(c)
  BY BuildAssumption
  DEF BuildTypeOK, Names, ResultStands, NamesStand, CacheStands, ResourcesStand, PackedStands,
      Stands, Unpublished, Publishing, RollingBack, Over, Extracted, Unmoved, SharedKept
<1>4. OneRemoves'
  BY NobodyHindered, BuildAssumption DEF BuildTypeOK, Publishing, OneRemoves, Stands, NamesStand
<1> QED BY <1>1, <1>2, <1>3, <1>4, OneMoves

\* The command gets its name.
LEMMA PublishCommandKeeps ==
    ASSUME BuildInv, NEW b \in Builders, PublishCommand(b)
    PROVE  BuildInv'
<1> USE DEF BuildInv, PublishCommand, Goto, Raise, seen, files
<1>1. BuildTypeOK'
  <2>1. target' = [target EXCEPT !["command"] = b] \/ target' = target
    OBVIOUS
  <2>2. target' \in [Names -> Builders \cup {None, Other}]
    BY <2>1, PutAtName DEF BuildTypeOK
  <2> QED BY <2>2 DEF BuildTypeOK, Unpublished, Publishing, RollingBack, Over, Extracted
<1>2. Stands(b)'
  BY BuildAssumption
  DEF BuildTypeOK, Names, Unpublished, Publishing, RollingBack, Over, Extracted,
      Stands, ResultStands, NamesStand, CacheStands, ResourcesStand, PackedStands
<1>3. \A c \in Builders \ {b} : Unmoved(c) /\ SharedKept(c)
  BY BuildAssumption
  DEF BuildTypeOK, Names, ResultStands, NamesStand, CacheStands, ResourcesStand, PackedStands,
      Stands, Unpublished, Publishing, RollingBack, Over, Extracted, Unmoved, SharedKept
<1>4. OneRemoves'
  <2>1. \A c \in Builders \ {b} : at'[c] = at[c]
    BY DEF BuildTypeOK
  <2>2. at'[b] \in {"confirm", "look_first"}
    BY DEF BuildTypeOK
  <2>3. \A c \in Builders \ {b} : target'["command"] = c => target["command"] = c
    BY DEF BuildTypeOK, Names
  <2>4. \A c \in Builders : at[c] # "remove_last"
    BY DEF OneRemoves, Publishing
  <2> QED BY <2>1, <2>2, <2>4 DEF OneRemoves, Publishing
<1> QED BY <1>1, <1>2, <1>3, <1>4, OneMoves

\* The builder looks whether the names still lead to what it made.
LEMMA ConfirmKeeps ==
    ASSUME BuildInv, NEW b \in Builders, Confirm(b)
    PROVE  BuildInv'
<1> USE DEF BuildInv, Confirm, Goto, Raise, seen, files
<1>1. BuildTypeOK'
  BY BuildAssumption DEF BuildTypeOK, Unpublished, Publishing, RollingBack, Over, Extracted
<1>2. Stands(b)'
  <2>1. ResultStands(b)' /\ ResourcesStand(b)'
    BY DEF BuildTypeOK, Unpublished, Publishing, RollingBack, Over, Stands, ResultStands, ResourcesStand
  <2>2. NamesStand(b)'
    BY DEF BuildTypeOK, Names, Unpublished, Publishing, RollingBack, Over,
       Stands, ResultStands, NamesStand
  <2>3. CacheStands(b)'
    BY CacheUntouched DEF BuildTypeOK, Unpublished, Publishing
  <2>4. PackedStands(b)'
    BY DEF BuildTypeOK, Unpublished, Publishing, Extracted, Stands, ResultStands, PackedStands
  <2> QED BY <2>1, <2>2, <2>3, <2>4 DEF Stands
<1>3. \A c \in Builders \ {b} : Unmoved(c) /\ SharedKept(c)
  BY BuildAssumption
  DEF BuildTypeOK, Names, ResultStands, NamesStand, CacheStands, ResourcesStand, PackedStands,
      Stands, Unpublished, Publishing, RollingBack, Over, Extracted, Unmoved, SharedKept
<1>4. OneRemoves'
  BY NobodyHindered DEF BuildTypeOK, Publishing
<1> QED BY <1>1, <1>2, <1>3, <1>4, OneMoves

\* The temporary directory is removed.
LEMMA CleanKeeps ==
    ASSUME BuildInv, NEW b \in Builders, Clean(b)
    PROVE  BuildInv'
<1> USE DEF BuildInv, Clean, Goto, Collected, seen, files
<1>1. BuildTypeOK'
  BY BuildAssumption DEF BuildTypeOK, Unpublished, Publishing, RollingBack, Over, Extracted
<1>2. Stands(b)'
  BY BuildAssumption
  DEF BuildTypeOK, Names, Unpublished, Publishing, RollingBack, Over, Extracted,
      Stands, ResultStands, NamesStand, CacheStands, ResourcesStand, PackedStands
<1>3. \A c \in Builders \ {b} : Unmoved(c) /\ SharedKept(c)
  BY BuildAssumption
  DEF BuildTypeOK, Names, ResultStands, NamesStand, CacheStands, ResourcesStand, PackedStands,
      Stands, Unpublished, Publishing, RollingBack, Over, Extracted, Unmoved, SharedKept
<1>4. OneRemoves'
  BY NobodyHindered DEF BuildTypeOK, Publishing
<1> QED BY <1>1, <1>2, <1>3, <1>4, OneMoves

\* A signal asks the parent to stop.
LEMMA StopKeeps ==
    ASSUME BuildInv, NEW b \in Builders, Stop(b)
    PROVE  BuildInv'
<1> USE DEF BuildInv, Stop, Goto, seen, files
<1>1. BuildTypeOK'
  BY BuildAssumption DEF BuildTypeOK, Unpublished, Publishing, RollingBack, Over, Extracted
<1>2. Stands(b)'
  BY BuildAssumption
  DEF BuildTypeOK, Names, Unpublished, Publishing, RollingBack, Over, Extracted,
      Stands, ResultStands, NamesStand, CacheStands, ResourcesStand, PackedStands
<1>3. \A c \in Builders \ {b} : Unmoved(c) /\ SharedKept(c)
  BY BuildAssumption
  DEF BuildTypeOK, Names, ResultStands, NamesStand, CacheStands, ResourcesStand, PackedStands,
      Stands, Unpublished, Publishing, RollingBack, Over, Extracted, Unmoved, SharedKept
<1>4. OneRemoves'
  BY DEF OneRemoves
<1> QED BY <1>1, <1>2, <1>3, <1>4, OneMoves

\* The builder is killed.
LEMMA KillKeeps ==
    ASSUME BuildInv, NEW b \in Builders, Kill(b)
    PROVE  BuildInv'
<1> USE DEF BuildInv, Kill, Goto, seen, files
<1>1. BuildTypeOK'
  BY BuildAssumption DEF BuildTypeOK, Unpublished, Publishing, RollingBack, Over, Extracted
<1>2. Stands(b)'
  BY BuildAssumption
  DEF BuildTypeOK, Names, Unpublished, Publishing, RollingBack, Over, Extracted,
      Stands, ResultStands, NamesStand, CacheStands, ResourcesStand, PackedStands
<1>3. \A c \in Builders \ {b} : Unmoved(c) /\ SharedKept(c)
  BY BuildAssumption
  DEF BuildTypeOK, Names, ResultStands, NamesStand, CacheStands, ResourcesStand, PackedStands,
      Stands, Unpublished, Publishing, RollingBack, Over, Extracted, Unmoved, SharedKept
<1>4. OneRemoves'
  BY NobodyHindered DEF BuildTypeOK, Publishing
<1> QED BY <1>1, <1>2, <1>3, <1>4, OneMoves

\* A file is packed as it is recorded, and if pinned only with the pinned bytes.
LEMMA PackKeeps ==
    ASSUME BuildInv, NEW b \in Builders, Pack(b)
    PROVE  BuildInv'
<1> USE DEF BuildInv
<1>1. CASE \E f \in Files :
             /\ Checkpoint(b) /\ Packable(b, f)
             /\ packed' = [packed EXCEPT ![b][f] = source[f]]
             /\ receipt' = [receipt EXCEPT ![b][f] = source[f]]
             /\ UNCHANGED <<at, result, seen, target, install, tool, cache, source, taken, sizes>>
             /\ at[b] = "pack"
  <2>1. PICK f \in Files :
             /\ Packable(b, f)
             /\ packed' = [packed EXCEPT ![b][f] = source[f]]
             /\ receipt' = [receipt EXCEPT ![b][f] = source[f]]
    BY <1>1
  <2>2. source[f] \in {None} \cup 0..2
    BY DEF BuildTypeOK
  <2>3. packed'[b] = [packed[b] EXCEPT ![f] = source[f]]
        /\ receipt'[b] = [receipt[b] EXCEPT ![f] = source[f]]
    BY <2>1 DEF BuildTypeOK
  <2>4. packed' = [packed EXCEPT ![b] = [packed[b] EXCEPT ![f] = source[f]]]
        /\ receipt' = [receipt EXCEPT ![b] = [receipt[b] EXCEPT ![f] = source[f]]]
    BY <2>1
  <2>5. packed[b] \in [Files -> {None} \cup 0..2] /\ receipt[b] \in [Files -> {None} \cup 0..2]
    BY DEF BuildTypeOK
  <2>6. [packed[b] EXCEPT ![f] = source[f]] \in [Files -> {None} \cup 0..2]
        /\ [receipt[b] EXCEPT ![f] = source[f]] \in [Files -> {None} \cup 0..2]
    BY <2>2, <2>5
  <2>7. packed' \in [Builders -> [Files -> {None} \cup 0..2]]
        /\ receipt' \in [Builders -> [Files -> {None} \cup 0..2]]
    BY <2>4, <2>6 DEF BuildTypeOK
  <2>8. BuildTypeOK'
    BY <1>1, <2>7 DEF BuildTypeOK
  <2>9. receipt'[b] = packed'[b]
    BY <2>3 DEF Stands, PackedStands
  <2>10. \A g \in PinnedFiles : packed'[b][g] \in {None, 0}
    BY <2>1, <2>3, <2>5 DEF Stands, PackedStands, Packable, Files
  <2>11. PackedStands(b)'
    BY <1>1, <2>9, <2>10 DEF Stands, PackedStands, ResultStands, Unpublished, Publishing
  <2>12. Stands(b)'
    BY <1>1, <2>11 DEF Stands, ResultStands, NamesStand, CacheStands, ResourcesStand
  <2>13. \A c \in Builders \ {b} : Unmoved(c) /\ SharedKept(c)
    BY <1>1, <2>4 DEF BuildTypeOK, Unmoved, SharedKept
  <2>14. OneRemoves'
    BY <1>1 DEF OneRemoves
  <2> QED BY <2>8, <2>12, <2>13, <2>14, OneMoves
<1>2. CASE /\ at[b] = "pack"
           /\ \/ (\A f \in Files : packed[b][f] # None) /\ Try(b, TRUE, "bin")
              \/ Raise(b, "clean")
           /\ UNCHANGED <<packed, receipt, seen, target, install, tool, cache, source, taken, sizes>>
  <2> USE <1>2 DEF Try, Raise, Goto
  <2>1. BuildTypeOK'
    BY DEF BuildTypeOK, Unpublished, Over
  <2>2. Stands(b)'
    BY DEF BuildTypeOK, Unpublished, Publishing, RollingBack, Over, Extracted,
       Stands, ResultStands, NamesStand, CacheStands, ResourcesStand, PackedStands
  <2>3. \A c \in Builders \ {b} : Unmoved(c) /\ SharedKept(c)
    BY DEF BuildTypeOK, Unmoved, SharedKept
  <2>4. OneRemoves'
    BY NobodyHindered DEF BuildTypeOK, Publishing
  <2> QED BY <2>1, <2>2, <2>3, <2>4, OneMoves
<1> QED BY <1>1, <1>2 DEF Pack, seen

\* The rollback goes on to a removal only where the builder's own entry stands,
\* which then no other is about to remove, or relies on.
LEMMA LookBackKeeps ==
    ASSUME BuildInv, NEW b \in Builders, LookBack(b)
    PROVE  BuildInv'
<1> USE DEF BuildInv
<1>1. /\ UNCHANGED <<seen, result, target, install, tool, files>>
      /\ at' = [at EXCEPT ![b] = at'[b]]
      /\ \/ at[b] = "look_first" /\ at'[b] = "remove_first" /\ target["command"] = b
         \/ at[b] = "look_first" /\ at'[b] = "look_last" /\ target["command"] # b
         \/ at[b] = "look_last" /\ at'[b] = "remove_last" /\ target["directory"] = b
         \/ at[b] = "look_last" /\ at'[b] = "clean" /\ target["directory"] # b
  BY DEF LookBack, Goto, Own, UndoName, UndoFirst, Beyond, Names, BuildTypeOK
<1>2. BuildTypeOK'
  <2>1. at'[b] \in RollingBack \cup Over
    BY <1>1 DEF RollingBack, Over
  <2>2. at' \in [Builders -> Unpublished \cup Publishing \cup RollingBack \cup Over]
    BY <1>1, <2>1 DEF BuildTypeOK
  <2> QED BY <1>1, <2>2 DEF BuildTypeOK, seen, files
<1>3. NamesStand(b)'
  BY <1>1, BuildAssumption DEF BuildTypeOK, Stands, NamesStand, ResultStands, Names,
     Unpublished, Publishing, RollingBack, Over
<1>4. Stands(b)'
  BY <1>1, <1>3 DEF seen, files, BuildTypeOK, Unpublished, Publishing, RollingBack, Over, Extracted,
     Stands, ResultStands, CacheStands, ResourcesStand, PackedStands
<1>5. \A c \in Builders \ {b} : Unmoved(c) /\ SharedKept(c)
  BY <1>1 DEF seen, files, BuildTypeOK, Unmoved, SharedKept
<1>6. OneRemoves'
  <2> SUFFICES ASSUME NEW x \in Builders, NEW y \in Builders, x # y
               PROVE  /\ ~ (at'[x] = "remove_first" /\ at'[y] = "remove_first")
                      /\ at'[x] = "remove_last" =>
                            at'[y] \notin {"remove_last"} \cup Publishing /\ target'["command"] # y
    BY DEF OneRemoves
  <2>1. \A c \in Builders \ {b} : at'[c] = at[c]
    BY <1>1 DEF BuildTypeOK
  <2>2. \A c \in Builders \ {b} : NamesStand(c) /\ NamesStand(b)
    BY DEF Stands
  <2>3. \A c \in Builders : c # Other
    BY BuildAssumption
  <2> QED BY <1>1, <2>1, <2>2, <2>3 DEF OneRemoves, NamesStand, Publishing
<1> QED BY <1>2, <1>4, <1>5, <1>6, OneMoves

\* What goes is the builder's own or somebody's substitute for it, the command
\* before the directory.
LEMMA TakeBackKeeps ==
    ASSUME BuildInv, NEW b \in Builders, TakeBack(b)
    PROVE  BuildInv'
<1> USE DEF BuildInv
<1> DEFINE Removal(n, from, to) ==
          /\ at[b] = from
          /\ \/ /\ target' = [target EXCEPT ![n] = None]
                /\ at' = [at EXCEPT ![b] = to] /\ UNCHANGED result
             \/ Strand(b) /\ UNCHANGED target
<1>0. \/ Removal("command", "remove_first", "look_last")
      \/ Removal("directory", "remove_last", "clean")
  <2>1. CASE at[b] = "remove_first"
    <3>1. UndoName(b) = "command" /\ Beyond(b) = "look_last"
      BY <2>1 DEF UndoName, UndoFirst, Beyond
    <3> QED BY <2>1, <3>1 DEF TakeBack, Goto
  <2>2. CASE at[b] = "remove_last"
    <3>1. /\ UndoName(b) = CHOOSE m \in Names : m # "command"
          /\ Beyond(b) = "clean"
      BY <2>2 DEF UndoName, UndoFirst, Beyond
    <3>2. UndoName(b) = "directory"
      <4>1. "directory" \in Names /\ "directory" # "command"
        BY DEF Names
      <4>2. UndoName(b) \in Names /\ UndoName(b) # "command"
        BY <3>1, <4>1
      <4> QED BY <4>2 DEF Names
    <3> QED BY <2>2, <3>1, <3>2 DEF TakeBack, Goto
  <2> QED BY <2>1, <2>2 DEF TakeBack
<1>1. PICK n \in Names :
          \/ n = "command" /\ Removal(n, "remove_first", "look_last")
          \/ n = "directory" /\ Removal(n, "remove_last", "clean")
  <2>1. "command" \in Names /\ "directory" \in Names
    BY DEF Names
  <2> HIDE DEF Removal
  <2> QED BY <1>0, <2>1
<1>2. UNCHANGED <<seen, install, tool, files>>
  BY DEF TakeBack
<1>3. target' \in [Names -> Builders \cup {None, Other}]
  <2>1. target' = [target EXCEPT ![n] = None] \/ target' = target
    BY <1>1
  <2> QED BY <2>1 DEF BuildTypeOK
<1>4. BuildTypeOK'
  BY <1>1, <1>2, <1>3 DEF Strand, Goto, seen, files, BuildTypeOK, RollingBack, Over
<1>5. \A m \in Names : target'[m] = target[m] \/ (m = n /\ target'[m] = None)
  BY <1>1 DEF BuildTypeOK
<1>6. \A c \in Builders : c # None /\ c # Other
  BY BuildAssumption
<1>7. /\ result[b] = "failed"
      /\ \/ at'[b] = "look_last" /\ n = "command" /\ target'[n] = None /\ result' = result
         \/ at'[b] = "clean" /\ n = "directory" /\ target'[n] = None /\ result' = result
         \/ at'[b] = "clean" /\ result'[b] = "stranded" /\ target' = target
  BY <1>1 DEF Strand, Goto, BuildTypeOK, Stands, ResultStands, RollingBack
<1>8. NamesStand(b)'
  BY <1>1, <1>5, <1>6, <1>7 DEF Stands, NamesStand, Names,
     Unpublished, Publishing, RollingBack, Over
<1>9. Stands(b)'
  BY <1>1, <1>2, <1>7, <1>8 DEF seen, files, BuildTypeOK,
     Unpublished, Publishing, RollingBack, Over, Extracted,
     Stands, ResultStands, CacheStands, ResourcesStand, PackedStands
<1>10. ASSUME NEW c \in Builders \ {b} PROVE Unmoved(c) /\ SharedKept(c)
  <2>1. Unmoved(c)
    BY <1>1, <1>2 DEF Strand, Goto, files, BuildTypeOK, Unmoved
  <2>2. ~ Relied(c, n)
    BY <1>1 DEF Relied, OneRemoves
  <2>3. \A m \in Names : /\ target'[m] = c => target[m] = c
                         /\ Relied(c, m) /\ target[m] \in {c, Other} => target'[m] \in {c, Other}
    BY <1>5, <1>6, <2>2
  <2>4. cache' = cache
    BY <1>2 DEF files
  <2> QED BY <2>1, <2>3, <2>4 DEF SharedKept
<1>11. OneRemoves'
  <2>1. \A c \in Builders \ {b} : at'[c] = at[c]
    BY <1>10 DEF Unmoved
  <2>2. \A c \in Builders : target'["command"] = c => target["command"] = c
    BY <1>5, <1>6 DEF Names
  <2> QED BY <1>7, <2>1, <2>2, NobodyHindered DEF Publishing
<1> QED BY <1>4, <1>9, <1>10, <1>11, OneMoves

\* What others do moves no builder.
LEMMA OthersKeep ==
    ASSUME BuildInv, EditSource \/ Substitute \/ MoveRoot
    PROVE  BuildInv'
<1> USE DEF BuildInv, EditSource, Substitute, MoveRoot, files
<1>1. source' \in [Files -> 0..2]
  BY DEF BuildTypeOK
<1>2. target' \in [Names -> Builders \cup {None, Other}]
  BY DEF BuildTypeOK
<1>3. BuildTypeOK'
  BY <1>1, <1>2 DEF BuildTypeOK
<1>4. \A c \in Builders : Unmoved(c) /\ SharedKept(c)
  BY BuildAssumption DEF BuildTypeOK, Unmoved, SharedKept
<1>5. OneRemoves'
  BY BuildAssumption DEF BuildTypeOK, OneRemoves, Names
<1> QED BY <1>3, <1>4, <1>5, OthersStand

\* Every step of the system keeps the invariant.
LEMMA BuildStep == BuildInv /\ [Next]_vars => BuildInv'
<1> SUFFICES ASSUME BuildInv, [Next]_vars PROVE BuildInv'
  OBVIOUS
<1>1. CASE UNCHANGED vars
  BY <1>1 DEF vars, BuildInv, BuildTypeOK, OneRemoves,
     Stands, ResultStands, NamesStand, CacheStands, ResourcesStand, PackedStands,
     Unpublished, Publishing, RollingBack, Over, Extracted
<1>2. ASSUME NEW b \in Builders, Step(b) \/ Stop(b) \/ Kill(b) PROVE BuildInv'
  BY <1>2, StartKeeps, PinsKeeps, LaunchKeeps, ToolReturnsKeeps, UseCacheKeeps, CreateEntryKeeps,
     FillEntryKeeps, ExtractKeeps, CollectKeeps, PackKeeps, MakeBinKeeps,
     PublishDirectoryKeeps, PublishCommandKeeps, ConfirmKeeps, LookBackKeeps, TakeBackKeeps, CleanKeeps, StopKeeps, KillKeeps DEF Step
<1> QED BY <1>1, <1>2, OthersKeep DEF Next

-----------------------------------------------------------------------------
\* The inductive invariant: where each builder stands, whoever else builds, edits,
\* substitutes, moves or kills.
THEOREM BuildInvariant == Spec => []BuildInv
<1> QED BY BuildInitInv, BuildStep, PTL DEF Spec

\* For any number of builders a command that can be started has its runtime: the
\* directory is published before it and taken back after it.
THEOREM BuildCommandHasItsRuntime == Spec => []CommandHasItsRuntime
<1>1. BuildInv => CommandHasItsRuntime
  BY DEF BuildInv, Stands, NamesStand, CommandHasItsRuntime
<1> QED BY <1>1, BuildInvariant, PTL

\* A build that failed, wherever it did, leaves nothing but bin/ and a whole
\* archive in the cache, if its removals did not fail too.
THEOREM BuildFailedLeavesOnlyBin == Spec => []FailedLeavesOnlyBin
<1>1. BuildInv => FailedLeavesOnlyBin
  BY DEF BuildInv, Stands, NamesStand, CacheStands, ResourcesStand, FailedLeavesOnlyBin, LeftBy, Over
<1> QED BY <1>1, BuildInvariant, PTL

\* A build that succeeded packed the pinned bytes and recorded what it packed,
\* whatever happened to the sources and the cache meanwhile.
THEOREM BuildBuiltIsPinned == Spec => []BuiltIsPinned
<1>1. BuildInv => BuiltIsPinned
  BY DEF BuildInv, Stands, PackedStands, BuiltIsPinned, Files
<1> QED BY <1>1, BuildInvariant, PTL

\* What is removed in a rollback is what its builder has just found to be its own,
\* or what somebody has put over that since; never what another has published.
THEOREM BuildOnlyOwnIsTakenBack == Spec => OnlyOwnIsTakenBack
<1> DEFINE Own1 == \A n \in Names : target[n] # None /\ target'[n] \notin {target[n], Other} =>
          /\ target'[n] = None
          /\ \E b \in Builders :
                Removing(b, n) /\ at'[b] # at[b] /\ target[n] \in {b, Other}
<1>1. ASSUME BuildInv, NEW b \in Builders, Step(b) \/ Stop(b) \/ Kill(b) PROVE Own1
  <2>1. CASE TakeBack(b)
    <3> SUFFICES ASSUME NEW n \in Names, target'[n] # target[n]
                 PROVE  /\ target'[n] = None /\ Removing(b, n)
                        /\ at'[b] # at[b] /\ target[n] \in {b, Other}
      OBVIOUS
    <3>1. target' = [target EXCEPT ![UndoName(b)] = None] /\ at' = [at EXCEPT ![b] = Beyond(b)]
      BY <2>1 DEF TakeBack, Goto
    <3>2. n = UndoName(b) /\ target'[n] = None /\ Removing(b, n)
      BY <2>1, <3>1, <1>1 DEF TakeBack, Removing, BuildInv, BuildTypeOK
    <3>3. target[n] \in {b, Other}
      BY <2>1, <3>2, <1>1 DEF TakeBack, UndoName, UndoFirst, Names, BuildInv, Stands, NamesStand
    <3>4. at'[b] # at[b]
      BY <2>1, <3>1, <1>1 DEF TakeBack, Beyond, BuildInv, BuildTypeOK
    <3> QED BY <3>2, <3>3, <3>4
  <2>2. CASE ~ TakeBack(b)
    <3>1. \A n \in Names : target[n] # None => target'[n] = target[n]
      BY <1>1, <2>2 DEF Step, Start, Pins, Launch, ToolReturns, UseCache, CreateEntry, FillEntry,
         Extract, Collect, Pack, MakeBin, PublishDirectory, PublishCommand, Confirm, LookBack, Clean,
         Stop, Kill, BuildInv, BuildTypeOK
    <3> QED BY <3>1
  <2> QED BY <2>1, <2>2
<1>2. ASSUME BuildInv, EditSource \/ Substitute \/ MoveRoot PROVE Own1
  BY <1>2 DEF EditSource, Substitute, MoveRoot, BuildInv, BuildTypeOK
<1>3. BuildInv /\ [Next]_vars => [Own1]_vars
  BY <1>1, <1>2 DEF Next
<1> QED BY <1>3, BuildInvariant, PTL DEF Spec, OnlyOwnIsTakenBack
=============================================================================
