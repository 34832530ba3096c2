-------------------------- MODULE KencAssetProofs --------------------------
(*****************************************************************************)
(* The content a stream runs on, from the installed tree to the graphs in    *)
(* use: the caller's side of the admission helper, the helper's reading of a *)
(* tree that an installer changes, and the reference count of the shared     *)
(* model. Each has its inductive invariant in its own module; here every     *)
(* action is shown to keep it, one leaf for each of its conjuncts.           *)
(*****************************************************************************)
EXTENDS KencAdmission, KencInstalled, KencModel, SequenceTheorems,
        FiniteSetTheorems, TLAPS

-----------------------------------------------------------------------------
(* The caller of the admission helper *)

\* A record that the helper sends stays behind what it sent before.
LEMMA SentStays ==
    ASSUME NEW s \in Seq(Records), NEW c \in Seq(Records), NEW record \in Records
    PROVE  /\ Append(s, record) \in Seq(Records) /\ Append(c, record) \in Seq(Records)
           /\ Len(Append(s, record)) = Len(s) + 1 /\ Len(Append(c, record)) = Len(c) + 1
           /\ Len(s) > 0 => Append(s, record)[1] = s[1]
<1>1. Len(s) \in Nat
  BY LenProperties
<1> QED BY <1>1, AppendProperties

\* The first record of a channel, and those behind it.
LEMMA TakenFirst ==
    ASSUME NEW c \in Seq(Records), c # << >>
    PROVE  /\ Head(c) = c[1] /\ Head(c) \in Records
           /\ Tail(c) \in Seq(Records) /\ Len(c) = Len(Tail(c)) + 1
<1>1. Len(c) \in Nat /\ Len(c) # 0
  BY LenProperties, EmptySeq
<1> QED BY <1>1, HeadTailProperties

\* Before the helper is spawned there is nothing to account for.
LEMMA AdmissionInitInv == AdmissionInit => AdmissionInv
<1> SUFFICES ASSUME AdmissionInit PROVE AdmissionInv
  OBVIOUS
<1>1. AdmissionTypeOK
  BY EmptySeq DEF AdmissionInit, AdmissionTypeOK
<1> QED BY <1>1 DEF AdmissionInit, AdmissionInv, HelperStands, AnswerStands, DescriptorsStand,
      KillsOnlyItsOwn, Looping

\* The helper closes its end and writes nothing after it.
LEMMA HelperClosesKeeps == ASSUME AdmissionInv, HelperCloses PROVE AdmissionInv'
<1> USE DEF AdmissionInv, HelperCloses, Goto, Elsewhere, parentVars, helperVars, host
<1>1. AdmissionTypeOK'
  BY DEF AdmissionTypeOK, Looping
<1>2. HelperStands' /\ KillsOnlyItsOwn'
  BY DEF AdmissionTypeOK, HelperStands, KillsOnlyItsOwn, Looping
<1>3. AnswerStands'
  BY DEF AdmissionTypeOK, HelperStands, AnswerStands, Looping
<1>4. DescriptorsStand'
  BY DEF AdmissionTypeOK, HelperStands, AnswerStands, DescriptorsStand, Looping
<1> QED BY <1>1, <1>2, <1>3, <1>4

\* The helper exits and stays a zombie until somebody waits for it.
LEMMA HelperEndsKeeps == ASSUME AdmissionInv, HelperEnds PROVE AdmissionInv'
<1> USE DEF AdmissionInv, HelperEnds, Goto, Elsewhere, parentVars, helperVars, host
<1>1. AdmissionTypeOK'
  BY DEF AdmissionTypeOK, Looping
<1>2. HelperStands' /\ KillsOnlyItsOwn'
  BY DEF AdmissionTypeOK, HelperStands, KillsOnlyItsOwn, Looping
<1>3. AnswerStands'
  BY DEF AdmissionTypeOK, HelperStands, AnswerStands, Looping
<1>4. DescriptorsStand'
  BY DEF AdmissionTypeOK, HelperStands, AnswerStands, DescriptorsStand, Looping
<1> QED BY <1>1, <1>2, <1>3, <1>4

\* A SIGCHLD handler of the embedding program takes the helper's status first.
LEMMA SomebodyReapsKeeps == ASSUME AdmissionInv, SomebodyReaps PROVE AdmissionInv'
<1> USE DEF AdmissionInv, SomebodyReaps, Goto, Elsewhere, parentVars, helperVars, host
<1>1. AdmissionTypeOK'
  BY DEF AdmissionTypeOK, Looping
<1>2. HelperStands' /\ KillsOnlyItsOwn'
  BY DEF AdmissionTypeOK, HelperStands, KillsOnlyItsOwn, Looping
<1>3. AnswerStands'
  BY DEF AdmissionTypeOK, HelperStands, AnswerStands, Looping
<1>4. DescriptorsStand'
  BY DEF AdmissionTypeOK, HelperStands, AnswerStands, DescriptorsStand, Looping
<1> QED BY <1>1, <1>2, <1>3, <1>4

\* The deadline passes while the helper is at any point.
LEMMA DeadlinePassesKeeps == ASSUME AdmissionInv, DeadlinePasses PROVE AdmissionInv'
<1> USE DEF AdmissionInv, DeadlinePasses, Goto, Elsewhere, parentVars, helperVars, host
<1>1. AdmissionTypeOK'
  BY DEF AdmissionTypeOK, Looping
<1>2. HelperStands' /\ KillsOnlyItsOwn'
  BY DEF AdmissionTypeOK, HelperStands, KillsOnlyItsOwn, Looping
<1>3. AnswerStands'
  BY DEF AdmissionTypeOK, HelperStands, AnswerStands, Looping
<1>4. DescriptorsStand'
  BY DEF AdmissionTypeOK, HelperStands, AnswerStands, DescriptorsStand, Looping
<1> QED BY <1>1, <1>2, <1>3, <1>4

\* The caller's callback starts to ask for cancellation.
LEMMA CallbackChangesKeeps == ASSUME AdmissionInv, CallbackChanges PROVE AdmissionInv'
<1> USE DEF AdmissionInv, CallbackChanges, Goto, Elsewhere, parentVars, helperVars, host
<1>1. AdmissionTypeOK'
  BY DEF AdmissionTypeOK, Looping
<1>2. HelperStands' /\ KillsOnlyItsOwn'
  BY DEF AdmissionTypeOK, HelperStands, KillsOnlyItsOwn, Looping
<1>3. AnswerStands'
  BY DEF AdmissionTypeOK, HelperStands, AnswerStands, Looping
<1>4. DescriptorsStand'
  BY DEF AdmissionTypeOK, HelperStands, AnswerStands, DescriptorsStand, Looping
<1> QED BY <1>1, <1>2, <1>3, <1>4

\* The helper is started, or what it needs could not be made.
LEMMA SpawnKeeps == ASSUME AdmissionInv, Spawn PROVE AdmissionInv'
<1> USE DEF AdmissionInv, Spawn, Goto, Elsewhere, parentVars, helperVars, host
<1>1. AdmissionTypeOK'
  BY DEF AdmissionTypeOK, Looping
<1>2. HelperStands' /\ KillsOnlyItsOwn'
  BY DEF AdmissionTypeOK, HelperStands, KillsOnlyItsOwn, Looping
<1>3. AnswerStands'
  BY DEF AdmissionTypeOK, HelperStands, AnswerStands, Looping
<1>4. DescriptorsStand'
  BY DEF AdmissionTypeOK, HelperStands, AnswerStands, DescriptorsStand, Looping
<1> QED BY <1>1, <1>2, <1>3, <1>4

\* Process 1 starts no helper.
LEMMA SpawnAsInitKeeps == ASSUME AdmissionInv, SpawnAsInit PROVE AdmissionInv'
<1> USE DEF AdmissionInv, SpawnAsInit, Goto, Elsewhere, parentVars, helperVars, host
<1>1. AdmissionTypeOK'
  BY DEF AdmissionTypeOK, Looping
<1>2. HelperStands' /\ KillsOnlyItsOwn'
  BY DEF AdmissionTypeOK, HelperStands, KillsOnlyItsOwn, Looping
<1>3. AnswerStands'
  BY DEF AdmissionTypeOK, HelperStands, AnswerStands, Looping
<1>4. DescriptorsStand'
  BY DEF AdmissionTypeOK, HelperStands, AnswerStands, DescriptorsStand, Looping
<1> QED BY <1>1, <1>2, <1>3, <1>4

\* The request went out whole, or the call stops the helper.
LEMMA SendRequestKeeps == ASSUME AdmissionInv, SendRequest PROVE AdmissionInv'
<1> USE DEF AdmissionInv, SendRequest, Goto, Elsewhere, parentVars, helperVars, host
<1>1. AdmissionTypeOK'
  BY DEF AdmissionTypeOK, Looping
<1>2. HelperStands' /\ KillsOnlyItsOwn'
  BY DEF AdmissionTypeOK, HelperStands, KillsOnlyItsOwn, Looping
<1>3. AnswerStands'
  BY DEF AdmissionTypeOK, HelperStands, AnswerStands, Looping
<1>4. DescriptorsStand'
  BY DEF AdmissionTypeOK, HelperStands, AnswerStands, DescriptorsStand, Looping
<1> QED BY <1>1, <1>2, <1>3, <1>4

\* One look at the deadline, the callback and the socket.
LEMMA LoopKeeps == ASSUME AdmissionInv, Loop PROVE AdmissionInv'
<1> USE DEF AdmissionInv, Loop, Goto, Elsewhere, parentVars, helperVars, host
<1>1. AdmissionTypeOK'
  BY DEF AdmissionTypeOK, Looping
<1>2. HelperStands' /\ KillsOnlyItsOwn'
  BY DEF AdmissionTypeOK, HelperStands, KillsOnlyItsOwn, Looping
<1>3. AnswerStands'
  BY DEF AdmissionTypeOK, HelperStands, AnswerStands, Looping
<1>4. DescriptorsStand'
  BY DEF AdmissionTypeOK, HelperStands, AnswerStands, DescriptorsStand, Looping
<1> QED BY <1>1, <1>2, <1>3, <1>4

\* The parent waits for the child.
LEMMA WaitKeeps == ASSUME AdmissionInv, Wait PROVE AdmissionInv'
<1> USE DEF AdmissionInv, Wait, Goto, Elsewhere, parentVars, helperVars, host
<1>1. AdmissionTypeOK'
  BY DEF AdmissionTypeOK, Looping
<1>2. HelperStands' /\ KillsOnlyItsOwn'
  BY DEF AdmissionTypeOK, HelperStands, KillsOnlyItsOwn, Looping
<1>3. AnswerStands'
  BY DEF AdmissionTypeOK, HelperStands, AnswerStands, Looping
<1>4. DescriptorsStand'
  BY DEF AdmissionTypeOK, HelperStands, AnswerStands, DescriptorsStand, Looping
<1> QED BY <1>1, <1>2, <1>3, <1>4

\* An answer is believed only with the exit status that belongs to it.
LEMMA VerdictKeeps == ASSUME AdmissionInv, Verdict PROVE AdmissionInv'
<1> USE DEF AdmissionInv, Verdict, Goto, Elsewhere, parentVars, helperVars, host
<1>1. AdmissionTypeOK'
  BY DEF AdmissionTypeOK, Looping
<1>2. HelperStands' /\ KillsOnlyItsOwn'
  BY DEF AdmissionTypeOK, HelperStands, KillsOnlyItsOwn, Looping
<1>3. AnswerStands'
  BY DEF AdmissionTypeOK, HelperStands, AnswerStands, Looping
<1>4. DescriptorsStand'
  BY DEF AdmissionTypeOK, HelperStands, AnswerStands, DescriptorsStand, Looping
<1> QED BY <1>1, <1>2, <1>3, <1>4

\* The builder is killed.
LEMMA KillKeeps == ASSUME AdmissionInv, Kill PROVE AdmissionInv'
<1> USE DEF AdmissionInv, Kill, Goto, Elsewhere, parentVars, helperVars, host
<1>1. AdmissionTypeOK'
  BY DEF AdmissionTypeOK, Looping
<1>2. HelperStands' /\ KillsOnlyItsOwn'
  BY DEF AdmissionTypeOK, HelperStands, KillsOnlyItsOwn, Looping
<1>3. AnswerStands'
  BY DEF AdmissionTypeOK, HelperStands, AnswerStands, Looping
<1>4. DescriptorsStand'
  BY DEF AdmissionTypeOK, HelperStands, AnswerStands, DescriptorsStand, Looping
<1> QED BY <1>1, <1>2, <1>3, <1>4

\* The helper that was killed is waited for.
LEMMA ReapKeeps == ASSUME AdmissionInv, Reap PROVE AdmissionInv'
<1> USE DEF AdmissionInv, Reap, Goto, Elsewhere, parentVars, helperVars, host
<1>1. AdmissionTypeOK'
  BY DEF AdmissionTypeOK, Looping
<1>2. HelperStands' /\ KillsOnlyItsOwn'
  BY DEF AdmissionTypeOK, HelperStands, KillsOnlyItsOwn, Looping
<1>3. AnswerStands'
  BY DEF AdmissionTypeOK, HelperStands, AnswerStands, Looping
<1>4. DescriptorsStand'
  BY DEF AdmissionTypeOK, HelperStands, AnswerStands, DescriptorsStand, Looping
<1> QED BY <1>1, <1>2, <1>3, <1>4

\* The helper writes one more record.
LEMMA HelperSendsKeeps == ASSUME AdmissionInv, HelperSends PROVE AdmissionInv'
<1> USE DEF AdmissionInv, HelperSends, parentVars, host
<1>1. PICK record \in Records :
          channel' = Append(channel, record) /\ sent' = Append(sent, record)
  OBVIOUS
<1>2. /\ sent' \in Seq(Records) /\ channel' \in Seq(Records)
      /\ Len(sent') = Len(sent) + 1 /\ Len(channel') = Len(channel) + 1
      /\ Len(sent) > 0 => sent'[1] = sent[1]
      /\ Len(channel) \in Nat
  BY <1>1, SentStays, LenProperties DEF AdmissionTypeOK
<1>3. AdmissionTypeOK'
  BY <1>2 DEF AdmissionTypeOK
<1>4. HelperStands' /\ KillsOnlyItsOwn'
  BY DEF HelperStands, KillsOnlyItsOwn
<1>5. AnswerStands'
  BY <1>1, <1>2 DEF AnswerStands, Looping
<1>6. DescriptorsStand'
  BY DEF HelperStands, DescriptorsStand
<1> QED BY <1>3, <1>4, <1>5, <1>6

\* Whatever record comes, what is kept of it is a number of descriptors that are
\* accounted for, and it is taken to be the answer only if it is one.
LEMMA ReceiveKeeps ==
    ASSUME AdmissionInv, a_pc \in {"receive", "last"},
           NEW good \in {"wait", "trailing"}, NEW bad, NEW none,
           \/ a_pc = "receive" /\ good = "wait" /\ bad = "done" /\ none = "wait"
           \/ a_pc = "last" /\ good = "trailing" /\ bad = "done" /\ none = "done",
           ReceiveAssets(good, bad, none)
    PROVE  AdmissionInv'
<1> USE DEF AdmissionInv, ReceiveAssets, Goto, helperVars, host
<1>1. ~ a_received /\ channel = sent /\ a_held = 0 /\ a_result # "KENC_OK" /\ a_out = 0 /\ open = 0
  BY DEF AnswerStands, DescriptorsStand, AdmissionTypeOK, Looping
<1>2. CASE channel # << >>
  <2>1. /\ sent[1] \in Records /\ Head(channel) = sent[1]
        /\ channel' = Tail(channel) /\ channel' \in Seq(Records)
        /\ Len(sent) = Len(channel') + 1
    BY <1>1, <1>2, TakenFirst DEF AdmissionTypeOK
  <2>2. a_held' = (IF sent[1].fds < Room THEN sent[1].fds ELSE Room) /\ open' = a_held'
    BY <1>1, <1>2, <2>1, AdmissionAssumption DEF Take, Records
  <2>3. a_held' \in Nat
    BY <2>1, <2>2, AdmissionAssumption DEF Records
  <2>4. CASE Acceptable(sent[1])
    <3>1. a_received' /\ a_pc' = good
      BY <1>2, <2>1, <2>4 DEF Take
    <3>2. a_held' = Wanted
      BY <2>2, <2>4, AdmissionAssumption DEF Acceptable
    <3>3. AdmissionTypeOK'
      BY <2>1, <2>2, <2>3, <3>1, <1>2 DEF AdmissionTypeOK, Looping, Take
    <3>4. HelperStands' /\ KillsOnlyItsOwn'
      BY <3>1 DEF HelperStands, KillsOnlyItsOwn, Looping
    <3>5. AnswerStands'
      BY <2>1, <2>4, <3>1 DEF AnswerStands, Looping
    <3>6. DescriptorsStand'
      BY <1>1, <2>2, <2>3, <3>1, <3>2 DEF DescriptorsStand, Looping
    <3> QED BY <3>3, <3>4, <3>5, <3>6
  <2>5. CASE ~ Acceptable(sent[1])
    <3>1. a_received' = a_received /\ a_pc' = "done"
      BY <1>2, <2>1, <2>5 DEF Take
    <3>2. AdmissionTypeOK'
      BY <2>1, <2>2, <2>3, <3>1 DEF AdmissionTypeOK
    <3> QED BY <1>1, <2>2, <2>3, <3>1, <3>2
        DEF HelperStands, KillsOnlyItsOwn, AnswerStands, DescriptorsStand, Looping
  <2> QED BY <2>4, <2>5
<1>3. CASE channel = << >>
  <2>1. UNCHANGED <<a_received, a_held, open, channel>> /\ a_pc' \in {"wait", "done"}
        /\ (a_pc = "last" => a_pc' = "done")
    BY <1>3
  <2> QED BY <1>1, <2>1
      DEF AdmissionTypeOK, HelperStands, KillsOnlyItsOwn, AnswerStands, DescriptorsStand, Looping
<1> QED BY <1>2, <1>3

\* What follows the answer on the socket spoils it.
LEMMA TrailingKeeps == ASSUME AdmissionInv, Trailing PROVE AdmissionInv'
<1> USE DEF AdmissionInv, Trailing, Goto, helperVars, host
<1>1. a_received /\ a_reaped /\ helper = "gone" /\ status = "success" /\ a_held = Wanted
      /\ a_out = 0 /\ open = Wanted /\ a_result # "KENC_OK"
      /\ Len(sent) = Len(channel) + 1 /\ Acceptable(sent[1])
  BY AdmissionAssumption DEF AdmissionTypeOK, HelperStands, AnswerStands, DescriptorsStand, Looping
<1>2. AdmissionTypeOK'
  <2>1. channel' \in Seq(Records)
    BY TakenFirst DEF AdmissionTypeOK
  <2>2. a_held' \in Nat /\ a_out' \in Nat
    BY DEF AdmissionTypeOK
  <2> QED BY <2>1, <2>2 DEF AdmissionTypeOK
<1>3. HelperStands' /\ KillsOnlyItsOwn' /\ AnswerStands'
  BY DEF AdmissionTypeOK, HelperStands, KillsOnlyItsOwn, AnswerStands, Looping
<1>4. DescriptorsStand'
  <2>1. channel = << >> => Len(sent) = 1
    BY <1>1, EmptySeq DEF AdmissionTypeOK
  <2> QED BY <1>1, <2>1, AdmissionAssumption DEF AdmissionTypeOK, DescriptorsStand, Looping
<1> QED BY <1>2, <1>3, <1>4

\* The call returns with the descriptors of an answer, or with none.
LEMMA ReturnKeeps == ASSUME AdmissionInv, Return PROVE AdmissionInv'
<1> USE DEF AdmissionInv, Return, Goto, helperVars, host
<1>1. open' = a_out /\ a_held' = 0
  BY DEF AdmissionTypeOK, DescriptorsStand
<1>2. AdmissionTypeOK'
  BY <1>1, EmptySeq DEF AdmissionTypeOK
<1>3. HelperStands' /\ KillsOnlyItsOwn' /\ AnswerStands'
  BY DEF HelperStands, KillsOnlyItsOwn, AnswerStands, Looping
<1>4. DescriptorsStand'
  BY <1>1 DEF AdmissionTypeOK, DescriptorsStand, Looping
<1> QED BY <1>2, <1>3, <1>4

\* No step of the call, the helper, the clock or the embedding program breaks
\* the invariant.
LEMMA AdmissionStep == AdmissionInv /\ [AdmissionNext]_admissionVars => AdmissionInv'
<1> SUFFICES ASSUME AdmissionInv, [AdmissionNext]_admissionVars PROVE AdmissionInv'
  OBVIOUS
<1>1. CASE UNCHANGED admissionVars
  BY <1>1 DEF admissionVars, parentVars, helperVars, host, AdmissionInv, AdmissionTypeOK, HelperStands,
     AnswerStands, DescriptorsStand, KillsOnlyItsOwn
<1>2. CASE Caller
  BY <1>2, SpawnKeeps, SpawnAsInitKeeps, SendRequestKeeps, LoopKeeps, ReceiveKeeps, WaitKeeps, VerdictKeeps,
     TrailingKeeps, KillKeeps, ReapKeeps, ReturnKeeps DEF Caller, Receive, ReceiveLast
<1> QED BY <1>1, <1>2, HelperSendsKeeps, HelperClosesKeeps, HelperEndsKeeps, SomebodyReapsKeeps,
       DeadlinePassesKeeps, CallbackChangesKeeps DEF AdmissionNext

-----------------------------------------------------------------------------
\* The inductive invariant.
THEOREM AdmissionInvariant == AdmissionSpec => []AdmissionInv
<1> QED BY AdmissionInitInv, AdmissionStep, PTL DEF AdmissionSpec

\* Every descriptor the helper passed is with the caller or closed: none leaks
\* on any way out.
THEOREM AdmissionDescriptorsAccounted == AdmissionSpec => []DescriptorsAccounted
<1>1. AdmissionInv => DescriptorsAccounted
  BY AdmissionAssumption DEF AdmissionInv, AdmissionTypeOK, DescriptorsStand, DescriptorsAccounted, Returned
<1> QED BY <1>1, AdmissionInvariant, PTL

\* A call that succeeds had one whole answer from a helper that then ended
\* well.
THEOREM AdmissionOneCompleteAnswer == AdmissionSpec => []OneCompleteAnswer
<1>1. AdmissionInv => OneCompleteAnswer
  BY DEF AdmissionInv, DescriptorsStand, OneCompleteAnswer
<1> QED BY <1>1, AdmissionInvariant, PTL

\* No helper outlives the call, not even as a zombie the call should have
\* waited for.
THEOREM AdmissionHelperIsGone == AdmissionSpec => []HelperIsGone
<1>1. AdmissionInv => HelperIsGone
  BY DEF AdmissionInv, HelperStands, HelperIsGone, Returned
<1> QED BY <1>1, AdmissionInvariant, PTL

\* The call signals no process but its own helper, also when somebody else
\* reaps it.
THEOREM AdmissionKillsOnlyItsOwn == AdmissionSpec => []KillsOnlyItsOwn
<1>1. AdmissionInv => KillsOnlyItsOwn
  BY DEF AdmissionInv
<1> QED BY <1>1, AdmissionInvariant, PTL

-----------------------------------------------------------------------------
(* Reading the installed tree *)

\* Before admitted_assets starts nothing has been read.
LEMMA InstalledInitInv == InstalledInit => InstalledInv
  BY InstalledAssumption DEF InstalledInit, InstalledInv, InstalledTypeOK, ReadStands, MomentStands,
      AuthorityStands, KeptStands, NothingLeftOpen, Admitted, Preparing, Reading, Checking

\* What was so since the last read stays so.
LEMMA AfterGrows ==
    ASSUME Remember
    PROVE  /\ after \subseteq after'
           /\ \A d : WasLinked(d) => WasLinked(d)'
           /\ \A s : WasAbsent(s) => WasAbsent(s)'
  BY DEF Remember, WasLinked, WasAbsent

\* An exception leaves nothing that could be asked about.
LEMMA RefuseKeeps == ASSUME InstalledInv, UNCHANGED diskVars, Refuse PROVE InstalledInv'
  BY DEF InstalledInv, diskVars, Refuse, InstalledTypeOK, ReadStands, MomentStands,
      AuthorityStands, KeptStands, NothingLeftOpen, Admitted, Preparing, Reading, Checking

\* Somebody changes a member: its identity is one that it never had, so that a
\* check which would have told it changed still does.
LEMMA ChangeMemberKeeps == ASSUME InstalledInv, ChangeMember PROVE InstalledInv'
<1> USE DEF InstalledInv, admitVars
<1>1. PICK f \in Members, c \in {"pinned", "other", "missing"} :
         /\ content' = [content EXCEPT ![f] = c]
         /\ identity' = [identity EXCEPT ![f] = @ + 1]
  BY DEF ChangeMember, Change
<1>2. /\ changes' = changes + 1 /\ UNCHANGED admitVars
      /\ UNCHANGED <<linked, strays, receipt, store, packaged>>
      /\ after \subseteq after'
      /\ (\A d : WasLinked(d) => WasLinked(d)') /\ (\A s : WasAbsent(s) => WasAbsent(s)')
  BY AfterGrows DEF ChangeMember, Change
<1>3. \A g \in Members : /\ identity'[g] \in Nat /\ identity'[g] >= identity[g]
                         /\ g = f => identity'[g] > identity[g]
                         /\ g # f => identity'[g] = identity[g] /\ content'[g] = content[g]
  BY <1>1 DEF InstalledTypeOK
<1>dom. i_pc \in Reading \cup Checking => DOMAIN identities \subseteq Members
  BY DEF ReadStands, Reading, Checking, Preparing
<1>4. InstalledTypeOK'
  BY <1>1, <1>2, <1>3, <1>dom DEF InstalledTypeOK, Preparing, Reading, Checking
<1>5. ReadStands'
  BY <1>1, <1>2, <1>3, <1>dom DEF InstalledTypeOK, ReadStands, Preparing, Reading, Checking
<1>6. MomentStands'
  BY <1>1, <1>2, <1>3, <1>dom DEF InstalledTypeOK, ReadStands, MomentStands, Preparing, Reading, Checking
<1>7. AuthorityStands'
  BY <1>1, <1>2, <1>3, <1>dom DEF AuthorityStands, Preparing, Reading, Checking
<1>8. KeptStands' /\ NothingLeftOpen'
  BY <1>1, <1>2, <1>3, <1>dom DEF InstalledTypeOK, KeptStands, NothingLeftOpen, Admitted, Preparing, Reading, Checking
<1> QED BY <1>4, <1>5, <1>6, <1>7, <1>8

\* What the path of the tree leads to is exchanged.
LEMMA ChangeLinkKeeps == ASSUME InstalledInv, ChangeLink PROVE InstalledInv'
<1> USE DEF InstalledInv, admitVars
<1>a. /\ UNCHANGED <<content, identity>> /\ changes' = changes + 1 /\ UNCHANGED admitVars
      /\ after \subseteq after'
      /\ (\A d : WasLinked(d) => WasLinked(d)') /\ (\A s : WasAbsent(s) => WasAbsent(s)')
  BY AfterGrows DEF ChangeLink, Change
<1>1. InstalledTypeOK'
  BY <1>a DEF InstalledTypeOK, Preparing, Reading, Checking
<1>2. ReadStands'
  BY <1>a DEF InstalledTypeOK, ReadStands, Preparing, Reading, Checking
<1>3. MomentStands'
  BY <1>a DEF InstalledTypeOK, ReadStands, MomentStands, Preparing, Reading, Checking
<1>4. AuthorityStands'
  BY <1>a DEF AuthorityStands, Preparing, Reading, Checking
<1>5. KeptStands' /\ NothingLeftOpen'
  BY <1>a DEF InstalledTypeOK, KeptStands, NothingLeftOpen, Admitted, Preparing, Reading, Checking
<1> QED BY <1>1, <1>2, <1>3, <1>4, <1>5

\* A file that does not belong appears in the directory, or goes.
LEMMA ChangeStrayKeeps == ASSUME InstalledInv, ChangeStray PROVE InstalledInv'
<1> USE DEF InstalledInv, admitVars
<1>a. /\ UNCHANGED <<content, identity>> /\ changes' = changes + 1 /\ UNCHANGED admitVars
      /\ after \subseteq after'
      /\ (\A d : WasLinked(d) => WasLinked(d)') /\ (\A s : WasAbsent(s) => WasAbsent(s)')
  BY AfterGrows DEF ChangeStray, Change
<1>1. InstalledTypeOK'
  BY <1>a DEF InstalledTypeOK, Preparing, Reading, Checking
<1>2. ReadStands'
  BY <1>a DEF InstalledTypeOK, ReadStands, Preparing, Reading, Checking
<1>3. MomentStands'
  BY <1>a DEF InstalledTypeOK, ReadStands, MomentStands, Preparing, Reading, Checking
<1>4. AuthorityStands'
  BY <1>a DEF AuthorityStands, Preparing, Reading, Checking
<1>5. KeptStands' /\ NothingLeftOpen'
  BY <1>a DEF InstalledTypeOK, KeptStands, NothingLeftOpen, Admitted, Preparing, Reading, Checking
<1> QED BY <1>1, <1>2, <1>3, <1>4, <1>5

\* The receipt is written, or withdrawn.
LEMMA ChangeReceiptKeeps == ASSUME InstalledInv, ChangeReceipt PROVE InstalledInv'
<1> USE DEF InstalledInv, admitVars
<1>a. /\ UNCHANGED <<content, identity>> /\ changes' = changes + 1 /\ UNCHANGED admitVars
      /\ after \subseteq after'
      /\ (\A d : WasLinked(d) => WasLinked(d)') /\ (\A s : WasAbsent(s) => WasAbsent(s)')
  BY AfterGrows DEF ChangeReceipt, Change
<1>1. InstalledTypeOK'
  BY <1>a DEF InstalledTypeOK, Preparing, Reading, Checking
<1>2. ReadStands'
  BY <1>a DEF InstalledTypeOK, ReadStands, Preparing, Reading, Checking
<1>3. MomentStands'
  BY <1>a DEF InstalledTypeOK, ReadStands, MomentStands, Preparing, Reading, Checking
<1>4. AuthorityStands'
  BY <1>a DEF AuthorityStands, Preparing, Reading, Checking
<1>5. KeptStands' /\ NothingLeftOpen'
  BY <1>a DEF InstalledTypeOK, KeptStands, NothingLeftOpen, Admitted, Preparing, Reading, Checking
<1> QED BY <1>1, <1>2, <1>3, <1>4, <1>5

\* The licence authority is consulted.
LEMMA ConsultKeeps == ASSUME InstalledInv, Consult, i_pc' # "refused" PROVE InstalledInv'
<1> USE DEF InstalledInv, Consult, Step, Go, GoWith, diskVars
<1>a. /\ after \subseteq after' /\ ~ Refuse
      /\ (\A d : WasLinked(d) => WasLinked(d)') /\ (\A s : WasAbsent(s) => WasAbsent(s)')
  BY AfterGrows DEF Refuse
<1>1. InstalledTypeOK'
  BY <1>a DEF InstalledTypeOK, Preparing, Reading, Checking
<1>2. ReadStands'
  BY <1>a DEF InstalledTypeOK, ReadStands, Preparing, Reading, Checking
<1>3. MomentStands'
  BY <1>a DEF InstalledTypeOK, ReadStands, MomentStands, Preparing, Reading, Checking
<1>4. AuthorityStands'
  BY <1>a DEF AuthorityStands, Preparing, Reading, Checking
<1>5. KeptStands' /\ NothingLeftOpen'
  BY <1>a DEF InstalledTypeOK, KeptStands, NothingLeftOpen, Admitted, Preparing, Reading, Checking
<1> QED BY <1>1, <1>2, <1>3, <1>4, <1>5

\* The store of receipts is opened and held.
LEMMA HoldStoreKeeps == ASSUME InstalledInv, HoldStore, i_pc' # "refused" PROVE InstalledInv'
<1> USE DEF InstalledInv, HoldStore, Step, Go, GoWith, diskVars
<1>a. /\ after \subseteq after' /\ ~ Refuse
      /\ (\A d : WasLinked(d) => WasLinked(d)') /\ (\A s : WasAbsent(s) => WasAbsent(s)')
  BY AfterGrows DEF Refuse
<1>1. InstalledTypeOK'
  BY <1>a DEF InstalledTypeOK, Preparing, Reading, Checking
<1>2. ReadStands'
  BY <1>a DEF InstalledTypeOK, ReadStands, Preparing, Reading, Checking
<1>3. MomentStands'
  BY <1>a DEF InstalledTypeOK, ReadStands, MomentStands, Preparing, Reading, Checking
<1>4. AuthorityStands'
  BY <1>a DEF AuthorityStands, Preparing, Reading, Checking
<1>5. KeptStands' /\ NothingLeftOpen'
  BY <1>a DEF InstalledTypeOK, KeptStands, NothingLeftOpen, Admitted, Preparing, Reading, Checking
<1> QED BY <1>1, <1>2, <1>3, <1>4, <1>5

\* The receipt is looked for the first time.
LEMMA RequireReceiptKeeps == ASSUME InstalledInv, RequireReceipt, i_pc' # "refused" PROVE InstalledInv'
<1> USE DEF InstalledInv, RequireReceipt, Step, Go, GoWith, diskVars
<1>a. /\ after \subseteq after' /\ ~ Refuse
      /\ (\A d : WasLinked(d) => WasLinked(d)') /\ (\A s : WasAbsent(s) => WasAbsent(s)')
  BY AfterGrows DEF Refuse
<1>1. InstalledTypeOK'
  BY <1>a DEF InstalledTypeOK, Preparing, Reading, Checking
<1>2. ReadStands'
  BY <1>a DEF InstalledTypeOK, ReadStands, Preparing, Reading, Checking
<1>3. MomentStands'
  BY <1>a DEF InstalledTypeOK, ReadStands, MomentStands, Preparing, Reading, Checking
<1>4. AuthorityStands'
  BY <1>a DEF AuthorityStands, Preparing, Reading, Checking
<1>5. KeptStands' /\ NothingLeftOpen'
  BY <1>a DEF InstalledTypeOK, KeptStands, NothingLeftOpen, Admitted, Preparing, Reading, Checking
<1> QED BY <1>1, <1>2, <1>3, <1>4, <1>5

\* A directory of the way to the content root is opened.
LEMMA OpenAncestorKeeps == ASSUME InstalledInv, NEW d \in Ancestors, OpenAncestor(d), i_pc' # "refused" PROVE InstalledInv'
<1> USE DEF InstalledInv, OpenAncestor, Each, Step, Go, GoWith, diskVars
<1>a. /\ after \subseteq after' /\ ~ Refuse
      /\ (\A e : WasLinked(e) => WasLinked(e)') /\ (\A s : WasAbsent(s) => WasAbsent(s)')
  BY AfterGrows DEF Refuse
<1>1. InstalledTypeOK'
  BY <1>a DEF InstalledTypeOK, Preparing, Reading, Checking
<1>2. ReadStands'
  BY <1>a DEF InstalledTypeOK, ReadStands, Preparing, Reading, Checking
<1>3. MomentStands'
  BY <1>a DEF InstalledTypeOK, ReadStands, MomentStands, Preparing, Reading, Checking
<1>4. AuthorityStands'
  BY <1>a DEF AuthorityStands, Preparing, Reading, Checking
<1>5. KeptStands' /\ NothingLeftOpen'
  BY <1>a DEF InstalledTypeOK, KeptStands, NothingLeftOpen, Admitted, Preparing, Reading, Checking
<1> QED BY <1>1, <1>2, <1>3, <1>4, <1>5

\* The content root is opened.
LEMMA EndAncestorsKeeps == ASSUME InstalledInv, EndAncestors, i_pc' # "refused" PROVE InstalledInv'
<1> USE DEF InstalledInv, EndAncestors, Step, Go, GoWith, diskVars
<1>a. /\ after \subseteq after' /\ ~ Refuse
      /\ (\A d : WasLinked(d) => WasLinked(d)') /\ (\A s : WasAbsent(s) => WasAbsent(s)')
  BY AfterGrows DEF Refuse
<1>1. InstalledTypeOK'
  BY <1>a DEF InstalledTypeOK, Preparing, Reading, Checking
<1>2. ReadStands'
  BY <1>a DEF InstalledTypeOK, ReadStands, Preparing, Reading, Checking
<1>3. MomentStands'
  BY <1>a DEF InstalledTypeOK, ReadStands, MomentStands, Preparing, Reading, Checking
<1>4. AuthorityStands'
  BY <1>a DEF AuthorityStands, Preparing, Reading, Checking
<1>5. KeptStands' /\ NothingLeftOpen'
  BY <1>a DEF InstalledTypeOK, KeptStands, NothingLeftOpen, Admitted, Preparing, Reading, Checking
<1> QED BY <1>1, <1>2, <1>3, <1>4, <1>5

\* A directory below it is opened.
LEMMA OpenDirectoryKeeps == ASSUME InstalledInv, NEW d \in Directories, OpenDirectory(d), i_pc' # "refused" PROVE InstalledInv'
<1> USE DEF InstalledInv, OpenDirectory, Each, Step, Go, GoWith, diskVars
<1>a. /\ after \subseteq after' /\ ~ Refuse
      /\ (\A e : WasLinked(e) => WasLinked(e)') /\ (\A s : WasAbsent(s) => WasAbsent(s)')
  BY AfterGrows DEF Refuse
<1>1. InstalledTypeOK'
  BY <1>a DEF InstalledTypeOK, Preparing, Reading, Checking
<1>2. ReadStands'
  BY <1>a DEF InstalledTypeOK, ReadStands, Preparing, Reading, Checking
<1>3. MomentStands'
  BY <1>a DEF InstalledTypeOK, ReadStands, MomentStands, Preparing, Reading, Checking
<1>4. AuthorityStands'
  BY <1>a DEF AuthorityStands, Preparing, Reading, Checking
<1>5. KeptStands' /\ NothingLeftOpen'
  BY <1>a DEF InstalledTypeOK, KeptStands, NothingLeftOpen, Admitted, Preparing, Reading, Checking
<1> QED BY <1>1, <1>2, <1>3, <1>4, <1>5

\* Its name is looked at for the first time.
LEMMA CheckDirectoryKeeps == ASSUME InstalledInv, NEW d \in Directories, CheckDirectory(d), i_pc' # "refused" PROVE InstalledInv'
<1> USE DEF InstalledInv, CheckDirectory, Each, Step, Go, GoWith, diskVars
<1>a. /\ after \subseteq after' /\ ~ Refuse
      /\ (\A e : WasLinked(e) => WasLinked(e)') /\ (\A s : WasAbsent(s) => WasAbsent(s)')
  BY AfterGrows DEF Refuse
<1>1. InstalledTypeOK'
  BY <1>a DEF InstalledTypeOK, Preparing, Reading, Checking
<1>2. ReadStands'
  BY <1>a DEF InstalledTypeOK, ReadStands, Preparing, Reading, Checking
<1>3. MomentStands'
  BY <1>a DEF InstalledTypeOK, ReadStands, MomentStands, Preparing, Reading, Checking
<1>4. AuthorityStands'
  BY <1>a DEF AuthorityStands, Preparing, Reading, Checking
<1>5. KeptStands' /\ NothingLeftOpen'
  BY <1>a DEF InstalledTypeOK, KeptStands, NothingLeftOpen, Admitted, Preparing, Reading, Checking
<1> QED BY <1>1, <1>2, <1>3, <1>4, <1>5

\* A name is looked for, for the first time.
LEMMA ScanKeeps == ASSUME InstalledInv, NEW n \in Names, Scan(n), i_pc' # "refused" PROVE InstalledInv'
<1> USE DEF InstalledInv, Scan, Each, Step, Go, GoWith, diskVars
<1>a. /\ after \subseteq after' /\ ~ Refuse
      /\ (\A d : WasLinked(d) => WasLinked(d)') /\ (\A s : WasAbsent(s) => WasAbsent(s)')
  BY AfterGrows DEF Refuse
<1>1. InstalledTypeOK'
  BY <1>a DEF InstalledTypeOK, Preparing, Reading, Checking
<1>2. ReadStands'
  BY <1>a DEF InstalledTypeOK, ReadStands, Preparing, Reading, Checking
<1>3. MomentStands'
  BY <1>a DEF InstalledTypeOK, ReadStands, MomentStands, Preparing, Reading, Checking
<1>4. AuthorityStands'
  BY <1>a DEF AuthorityStands, Preparing, Reading, Checking
<1>5. KeptStands' /\ NothingLeftOpen'
  BY <1>a DEF InstalledTypeOK, KeptStands, NothingLeftOpen, Admitted, Preparing, Reading, Checking
<1> QED BY <1>1, <1>2, <1>3, <1>4, <1>5

\* The name of a directory still leads to it, at this moment.
LEMMA RecheckKeeps == ASSUME InstalledInv, NEW d \in Directories, Recheck(d), i_pc' # "refused" PROVE InstalledInv'
<1> USE DEF InstalledInv, Recheck, Each, SameDirectory, Step, Go, GoWith, diskVars
<1>a. /\ after \subseteq after' /\ ~ Refuse
      /\ (\A e : WasLinked(e) => WasLinked(e)') /\ (\A s : WasAbsent(s) => WasAbsent(s)')
  BY AfterGrows DEF Refuse
<1>n. Now \in after'
  BY DEF Remember
<1>w. /\ Now.whole <=> \A f \in Members : content[f] = "pinned"
      /\ Now.linked = linked /\ Now.strays = strays /\ Now.receipt = receipt
  BY DEF Now
<1>x. WasLinked(d)'
  BY <1>a, <1>n, <1>w DEF WasLinked
<1>1. InstalledTypeOK'
  BY <1>a, <1>n, <1>w, <1>x DEF InstalledTypeOK, Preparing, Reading, Checking
<1>2. ReadStands'
  BY <1>a, <1>n, <1>w, <1>x DEF InstalledTypeOK, ReadStands, Preparing, Reading, Checking
<1>3. MomentStands'
  BY <1>a, <1>n, <1>w, <1>x DEF InstalledTypeOK, ReadStands, MomentStands, Preparing, Reading, Checking
<1>4. AuthorityStands'
  BY <1>a, <1>n, <1>w, <1>x DEF AuthorityStands, Preparing, Reading, Checking
<1>5. KeptStands' /\ NothingLeftOpen'
  BY <1>a, <1>n, <1>w, <1>x DEF InstalledTypeOK, KeptStands, NothingLeftOpen, Admitted, Preparing, Reading, Checking
<1> QED BY <1>1, <1>2, <1>3, <1>4, <1>5

\* An undeclared name is absent, at this moment.
LEMMA RescanKeeps == ASSUME InstalledInv, NEW n \in Names, Rescan(n), i_pc' # "refused" PROVE InstalledInv'
<1> USE DEF InstalledInv, Rescan, Each, AsDeclared, Step, Go, GoWith, diskVars
<1>a. /\ after \subseteq after' /\ ~ Refuse
      /\ (\A d : WasLinked(d) => WasLinked(d)') /\ (\A s : WasAbsent(s) => WasAbsent(s)')
  BY AfterGrows DEF Refuse
<1>n. Now \in after'
  BY DEF Remember
<1>w. /\ Now.whole <=> \A f \in Members : content[f] = "pinned"
      /\ Now.linked = linked /\ Now.strays = strays /\ Now.receipt = receipt
  BY DEF Now
<1>x. n \in Undeclared => WasAbsent(n)'
  BY <1>a, <1>n, <1>w, InstalledAssumption DEF WasAbsent
<1>1. InstalledTypeOK'
  BY <1>a, <1>n, <1>w, <1>x DEF InstalledTypeOK, Preparing, Reading, Checking
<1>2. ReadStands'
  BY <1>a, <1>n, <1>w, <1>x DEF InstalledTypeOK, ReadStands, Preparing, Reading, Checking
<1>3. MomentStands'
  BY <1>a, <1>n, <1>w, <1>x DEF InstalledTypeOK, ReadStands, MomentStands, Preparing, Reading, Checking
<1>4. AuthorityStands'
  BY <1>a, <1>n, <1>w, <1>x DEF AuthorityStands, Preparing, Reading, Checking
<1>5. KeptStands' /\ NothingLeftOpen'
  BY <1>a, <1>n, <1>w, <1>x DEF InstalledTypeOK, KeptStands, NothingLeftOpen, Admitted, Preparing, Reading, Checking
<1> QED BY <1>1, <1>2, <1>3, <1>4, <1>5

\* A member is opened, copied and sealed.
LEMMA OpenMemberKeeps == ASSUME InstalledInv, NEW f \in Members, OpenMember(f), i_pc' # "refused" PROVE InstalledInv'
<1> USE DEF InstalledInv, OpenMember, Step, Go, GoWith, diskVars
<1>a. /\ after \subseteq after' /\ ~ Refuse
      /\ (\A d : WasLinked(d) => WasLinked(d)') /\ (\A s : WasAbsent(s) => WasAbsent(s)')
  BY AfterGrows DEF Refuse
<1>1. InstalledTypeOK'
  BY <1>a DEF InstalledTypeOK, Preparing, Reading, Checking
<1>2. ReadStands'
  <2>1. /\ UNCHANGED <<identity, content, identities>>
        /\ i_pc' = "read" /\ copy' \in todo' /\ before' = identity'[copy']
    BY <1>a
  <2>2. before' \in Nat
    BY <1>a DEF InstalledTypeOK
  <2>3. i_pc = "members" /\ todo' = todo
    BY <1>a
  <2> QED BY <2>1, <2>2, <2>3 DEF ReadStands, Preparing, Reading, Checking
<1>3. MomentStands'
  BY <1>a DEF InstalledTypeOK, ReadStands, MomentStands, Preparing, Reading, Checking
<1>4. AuthorityStands'
  BY <1>a DEF AuthorityStands, Preparing, Reading, Checking
<1>5. KeptStands' /\ NothingLeftOpen'
  BY <1>a DEF InstalledTypeOK, KeptStands, NothingLeftOpen, Admitted, Preparing, Reading, Checking
<1> QED BY <1>1, <1>2, <1>3, <1>4, <1>5

\* One round is over.  When the names have been rechecked, either all is whole at
\* this moment or a member is not the one that was read.
LEMMA EndRoundKeeps == ASSUME InstalledInv, EndRound, i_pc' # "refused" PROVE InstalledInv'
<1> USE DEF InstalledInv, EndRound, EndOf, Step, Go, GoWith, diskVars
<1>a. /\ after \subseteq after' /\ ~ Refuse
      /\ (\A d : WasLinked(d) => WasLinked(d)') /\ (\A s : WasAbsent(s) => WasAbsent(s)')
  BY AfterGrows DEF Refuse
<1>n. i_pc \in Checking => Now \in after'
  BY DEF Remember, Checking
<1>w. /\ Now.whole <=> \A f \in Members : content[f] = "pinned"
      /\ Now.linked = linked /\ Now.strays = strays /\ Now.receipt = receipt
  BY DEF Now
<1>1. InstalledTypeOK'
  BY <1>a, <1>n, <1>w DEF InstalledTypeOK, Preparing, Reading, Checking
<1>2. ReadStands'
  BY <1>a, <1>n, <1>w DEF InstalledTypeOK, ReadStands, Preparing, Reading, Checking
<1>3. MomentStands'
  <2>1. CASE i_pc = "recheck"
    <3>1. Now.whole \/ \E f \in Members : identities[f] # identity[f]
      BY <2>1, <1>w DEF ReadStands, Checking, Reading
    <3> QED BY <2>1, <3>1, <1>a, <1>n DEF MomentStands, Checking
  <2>2. CASE i_pc \in {"rescan", "identities"}
    <3>1. (\E now \in after : now.whole) => (\E now \in after' : now.whole)
      BY <1>a
    <3>2. CASE i_pc = "rescan"
      <4>1. i_pc' = "identities" /\ todo' = Members /\ UNCHANGED <<identity, identities>>
        BY <3>2
      <4> QED BY <3>1, <3>2, <4>1 DEF MomentStands
    <3>3. CASE i_pc = "identities"
      <4>1. i_pc' = "receipt" /\ todo = {}
        BY <3>3
      <4> QED BY <3>1, <3>3, <4>1 DEF MomentStands
    <3> QED BY <2>2, <3>2, <3>3
  <2>3. CASE i_pc \in {"tree", "check", "scan", "members"}
    <3>1. i_pc' \in {"check", "scan", "members", "recheck"}
      BY <2>3
    <3> QED BY <3>1 DEF MomentStands
  <2> QED BY <2>1, <2>2, <2>3
<1>4. AuthorityStands'
  <2>1. CASE i_pc = "recheck"
    <3>1. todo = {} /\ i_pc' = "rescan" /\ todo' = Names
      BY <2>1
    <3> QED BY <2>1, <3>1, <1>a DEF AuthorityStands, Names
  <2>2. CASE i_pc = "rescan"
    <3>1. todo = {} /\ i_pc' = "identities"
      BY <2>2
    <3> QED BY <2>2, <3>1, <1>a DEF AuthorityStands
  <2>3. CASE i_pc = "identities"
    <3>1. i_pc' = "receipt"
      BY <2>3
    <3> QED BY <2>3, <3>1, <1>a DEF AuthorityStands
  <2>4. CASE i_pc = "members"
    <3>1. i_pc' = "recheck" /\ todo' = Directories
      BY <2>4
    <3> QED BY <3>1 DEF AuthorityStands
  <2>5. CASE i_pc \in {"tree", "check", "scan"}
    <3>1. i_pc' \in {"check", "scan", "members"}
      BY <2>5
    <3> QED BY <3>1 DEF AuthorityStands
  <2> QED BY <2>1, <2>2, <2>3, <2>4, <2>5
<1>5. KeptStands' /\ NothingLeftOpen'
  BY <1>a, <1>n, <1>w DEF InstalledTypeOK, KeptStands, NothingLeftOpen, Admitted, Preparing, Reading, Checking
<1> QED BY <1>1, <1>2, <1>3, <1>4, <1>5

\* A member that is found to be the one that was read is not the one that shows
\* otherwise.
LEMMA CheckIdentityKeeps == ASSUME InstalledInv, NEW f \in Members, CheckIdentity(f), i_pc' # "refused" PROVE InstalledInv'
<1> USE DEF InstalledInv, CheckIdentity, Each, Step, Go, GoWith, diskVars, StillThere
<1>a. /\ after \subseteq after' /\ ~ Refuse
      /\ (\A d : WasLinked(d) => WasLinked(d)') /\ (\A s : WasAbsent(s) => WasAbsent(s)')
  BY AfterGrows DEF Refuse
<1>1. InstalledTypeOK'
  BY <1>a DEF InstalledTypeOK, Preparing, Reading, Checking
<1>2. ReadStands'
  BY <1>a DEF InstalledTypeOK, ReadStands, Preparing, Reading, Checking
<1>3. MomentStands'
  BY <1>a DEF InstalledTypeOK, ReadStands, MomentStands, Preparing, Reading, Checking
<1>4. AuthorityStands'
  BY <1>a DEF AuthorityStands, Preparing, Reading, Checking
<1>5. KeptStands' /\ NothingLeftOpen'
  BY <1>a DEF InstalledTypeOK, KeptStands, NothingLeftOpen, Admitted, Preparing, Reading, Checking
<1> QED BY <1>1, <1>2, <1>3, <1>4, <1>5

\* The receipt is looked for again, in the same store.
LEMMA RequireAgainKeeps == ASSUME InstalledInv, RequireAgain, i_pc' # "refused" PROVE InstalledInv'
<1> USE DEF InstalledInv, RequireAgain, Step, Go, GoWith, diskVars
<1>a. /\ after \subseteq after' /\ ~ Refuse
      /\ (\A d : WasLinked(d) => WasLinked(d)') /\ (\A s : WasAbsent(s) => WasAbsent(s)')
  BY AfterGrows DEF Refuse
<1>n. Now \in after'
  BY DEF Remember
<1>w. /\ Now.whole <=> \A f \in Members : content[f] = "pinned"
      /\ Now.linked = linked /\ Now.strays = strays /\ Now.receipt = receipt
  BY DEF Now
<1>1. InstalledTypeOK'
  BY <1>a, <1>n, <1>w DEF InstalledTypeOK, Preparing, Reading, Checking
<1>2. ReadStands'
  BY <1>a, <1>n, <1>w DEF InstalledTypeOK, ReadStands, Preparing, Reading, Checking
<1>3. MomentStands'
  BY <1>a, <1>n, <1>w DEF InstalledTypeOK, ReadStands, MomentStands, Preparing, Reading, Checking
<1>4. AuthorityStands'
  BY <1>a, <1>n, <1>w DEF AuthorityStands, Preparing, Reading, Checking
<1>5. KeptStands' /\ NothingLeftOpen'
  BY <1>a, <1>n, <1>w DEF InstalledTypeOK, KeptStands, NothingLeftOpen, Admitted, Preparing, Reading, Checking
<1> QED BY <1>1, <1>2, <1>3, <1>4, <1>5

\* The copies are hashed once more and handed out.
LEMMA HandOutKeeps == ASSUME InstalledInv, HandOut, i_pc' # "refused" PROVE InstalledInv'
<1> USE DEF InstalledInv, HandOut, Step, Go, GoWith, diskVars, Rehashed
<1>a. /\ after \subseteq after' /\ ~ Refuse
      /\ (\A d : WasLinked(d) => WasLinked(d)') /\ (\A s : WasAbsent(s) => WasAbsent(s)')
  BY AfterGrows DEF Refuse
<1>1. InstalledTypeOK'
  BY <1>a DEF InstalledTypeOK, Preparing, Reading, Checking
<1>2. ReadStands'
  BY <1>a DEF InstalledTypeOK, ReadStands, Preparing, Reading, Checking
<1>3. MomentStands'
  BY <1>a DEF InstalledTypeOK, ReadStands, MomentStands, Preparing, Reading, Checking
<1>4. AuthorityStands'
  BY <1>a DEF AuthorityStands, Preparing, Reading, Checking
<1>5. KeptStands' /\ NothingLeftOpen'
  BY <1>a DEF InstalledTypeOK, KeptStands, NothingLeftOpen, Admitted, Preparing, Reading, Checking
<1> QED BY <1>1, <1>2, <1>3, <1>4, <1>5

\* The context ends and one thing after another is closed.
LEMMA CloseKeeps == ASSUME InstalledInv, Close, i_pc' # "refused" PROVE InstalledInv'
<1> USE DEF InstalledInv, Close, Step, Go, GoWith, diskVars
<1>a. /\ after \subseteq after' /\ ~ Refuse
      /\ (\A d : WasLinked(d) => WasLinked(d)') /\ (\A s : WasAbsent(s) => WasAbsent(s)')
  BY AfterGrows DEF Refuse
<1>1. InstalledTypeOK'
  BY <1>a DEF InstalledTypeOK, Preparing, Reading, Checking
<1>2. ReadStands'
  BY <1>a DEF InstalledTypeOK, ReadStands, Preparing, Reading, Checking
<1>3. MomentStands'
  BY <1>a DEF InstalledTypeOK, ReadStands, MomentStands, Preparing, Reading, Checking
<1>4. AuthorityStands'
  BY <1>a DEF AuthorityStands, Preparing, Reading, Checking
<1>5. KeptStands' /\ NothingLeftOpen'
  BY <1>a DEF InstalledTypeOK, KeptStands, NothingLeftOpen, Admitted, Preparing, Reading, Checking
<1> QED BY <1>1, <1>2, <1>3, <1>4, <1>5

\* The member was the pinned one throughout: it is the same now as when it was
\* looked at, and has the pinned bytes.
LEMMA ReadMemberKeeps == ASSUME InstalledInv, ReadMember, i_pc' # "refused" PROVE InstalledInv'
<1> USE DEF InstalledInv
<1> DEFINE f == copy
<1>1. /\ i_pc = "read" /\ UNCHANGED diskVars /\ Remember
      /\ content[f] = "pinned" /\ identity[f] = before
      /\ i_pc' = "members" /\ todo' = todo \ {f}
      /\ identities' = [g \in DOMAIN identities \cup {f} |-> IF g = f THEN identity[f] ELSE identities[g]]
      /\ DOMAIN descriptors' = DOMAIN descriptors \cup ({f} \cap Kept)
  BY DEF ReadMember, Step, Refuse, BytesRead, SameAsBefore
<1>2. f \in todo /\ f \in Members /\ DOMAIN identities = Members \ todo
  BY <1>1 DEF ReadStands, InstalledTypeOK, Reading
<1>3. DOMAIN identities' = Members \ todo' /\ identities'[f] = identity[f]
  BY <1>1, <1>2 DEF InstalledTypeOK
<1>4. \A g \in DOMAIN identities : g # f /\ identities'[g] = identities[g]
  BY <1>1, <1>2
<1>5. DOMAIN identities' = DOMAIN identities \cup {f}
  BY <1>1
<1>6. InstalledTypeOK'
  BY <1>1 DEF InstalledTypeOK, diskVars, Reading
<1> HIDE DEF f
<1>7. \A g \in DOMAIN identities' :
          /\ identities'[g] \in Nat /\ identities'[g] <= identity[g]
          /\ identity[g] = identities'[g] => content[g] = "pinned"
  <2> SUFFICES ASSUME NEW g \in DOMAIN identities'
               PROVE  /\ identities'[g] \in Nat /\ identities'[g] <= identity[g]
                      /\ identity[g] = identities'[g] => content[g] = "pinned"
    OBVIOUS
  <2>1. CASE g = f
    BY <2>1, <1>1, <1>2, <1>3 DEF InstalledTypeOK
  <2>2. CASE g # f
    BY <2>2, <1>1, <1>4, <1>5 DEF ReadStands, Reading
  <2> QED BY <2>1, <2>2
<1>8. ReadStands'
  BY <1>1, <1>3, <1>7 DEF ReadStands, diskVars, Preparing, Reading, Checking
<1>9. MomentStands' /\ AuthorityStands'
  BY <1>1 DEF MomentStands, AuthorityStands
<1>10. KeptStands' /\ NothingLeftOpen'
  BY <1>1 DEF KeptStands, NothingLeftOpen, Admitted
<1> QED BY <1>6, <1>8, <1>9, <1>10

\* Nothing happens.
LEMMA InstalledStutter == ASSUME InstalledInv, UNCHANGED installedVars PROVE InstalledInv'
  BY DEF InstalledInv, installedVars, diskVars, admitVars, InstalledTypeOK, ReadStands, MomentStands,
      AuthorityStands, WasLinked, WasAbsent, KeptStands, NothingLeftOpen, Admitted, Preparing, Reading, Checking

\* A step that ends refused is one of Refuse, or leaves it refused.
LEMMA StepKeeps == ASSUME InstalledInv, InstalledNext PROVE InstalledInv'
<1>1. CASE ChangeMember
  BY <1>1, ChangeMemberKeeps
<1>2. CASE ChangeLink
  BY <1>2, ChangeLinkKeeps
<1>3. CASE ChangeStray
  BY <1>3, ChangeStrayKeeps
<1>4. CASE ChangeReceipt
  BY <1>4, ChangeReceiptKeeps
<1>5. CASE Refuse /\ UNCHANGED diskVars
  BY <1>5, RefuseKeeps
<1>r. i_pc' = "refused" => (Refuse /\ UNCHANGED diskVars) \/ ChangeMember \/ ChangeLink \/ ChangeStray \/ ChangeReceipt
  BY DEF InstalledNext, Consult, HoldStore, RequireReceipt, OpenAncestor, EndAncestors, OpenDirectory, CheckDirectory,
         Scan, OpenMember, ReadMember, EndRound, EndOf, Recheck, Rescan, CheckIdentity, RequireAgain, HandOut, Close,
         GivesUp, Each, Step, Go, GoWith
<1>6. CASE i_pc' # "refused"
  <2>1. ASSUME NEW d \in Ancestors, OpenAncestor(d) PROVE InstalledInv'
    BY <1>6, <2>1, OpenAncestorKeeps
  <2>2. ASSUME NEW d \in Directories, OpenDirectory(d) \/ CheckDirectory(d) \/ Recheck(d) PROVE InstalledInv'
    BY <1>6, <2>2, OpenDirectoryKeeps, CheckDirectoryKeeps, RecheckKeeps
  <2>3. ASSUME NEW n \in Names, Scan(n) \/ Rescan(n) PROVE InstalledInv'
    BY <1>6, <2>3, ScanKeeps, RescanKeeps
  <2>4. ASSUME NEW f \in Members, OpenMember(f) \/ CheckIdentity(f) PROVE InstalledInv'
    BY <1>6, <2>4, OpenMemberKeeps, CheckIdentityKeeps
  <2>5. ~ GivesUp
    BY <1>6 DEF GivesUp, Refuse
  <2> QED BY <1>1, <1>2, <1>3, <1>4, <1>6, <2>1, <2>2, <2>3, <2>4, <2>5, ConsultKeeps, HoldStoreKeeps,
             RequireReceiptKeeps, EndAncestorsKeeps, ReadMemberKeeps, EndRoundKeeps, RequireAgainKeeps,
             HandOutKeeps, CloseKeeps DEF InstalledNext
<1> QED BY <1>1, <1>2, <1>3, <1>4, <1>5, <1>6, <1>r

\* The strengthening, for any number of members, directories, names and changes.
THEOREM InstalledInvariant == InstalledSpec => []InstalledInv
<1>1. InstalledInv /\ [InstalledNext]_installedVars => InstalledInv'
  BY StepKeeps, InstalledStutter
<1> QED BY <1>1, InstalledInitInv, PTL DEF InstalledSpec

\* When a tree is admitted there was one moment at which every member was in
\* it with the bytes that are handed out.
THEOREM AdmittedTreeWasWhole == InstalledSpec => []WholeAtOneMoment
<1>1. InstalledInv => WholeAtOneMoment
  BY DEF InstalledInv, MomentStands, WholeAtOneMoment, Admitted
<1> QED BY <1>1, InstalledInvariant, PTL

\* The receipt that covered the asset before the reading was there after it, in
\* the store that was held all along; after it every directory below the content
\* root was where it was opened, and every undeclared name absent, each at some
\* moment.
THEOREM AdmittedAuthorityHeld == InstalledSpec => []AuthorityOutlivesReading
<1>1. InstalledInv => AuthorityOutlivesReading
  BY DEF InstalledInv, AuthorityStands, AuthorityOutlivesReading, Admitted
<1> QED BY <1>1, InstalledInvariant, PTL

\* admitted_assets leaves nothing open, however it ends.
THEOREM InstalledClosesAll == InstalledSpec => []NothingLeftOpen
<1>1. InstalledInv => NothingLeftOpen
  BY DEF InstalledInv
<1> QED BY <1>1, InstalledInvariant, PTL

-----------------------------------------------------------------------------
(* The shared model: its graphs in use are whole, the last reference
   destroys it once, and nothing is left when all are gone *)

\* Those who hold references can be counted.
LEMMA Countable ==
    /\ IsFiniteSet(Handling) /\ IsFiniteSet(Streaming)
    /\ Cardinality(Handling) \in Nat /\ Cardinality(Streaming) \in Nat
<1>1. Handling \subseteq Threads /\ Streaming \subseteq Threads
  BY DEF Handling, Streaming
<1> QED BY <1>1, ModelAssumption, FS_Subset, FS_CardinalityType

\* One more, one less.
LEMMA OneMore ==
    ASSUME NEW S, IsFiniteSet(S), NEW t, t \notin S
    PROVE  Cardinality(S \cup {t}) = Cardinality(S) + 1
  BY FS_AddElement

\* Taking one member away counts one less.
LEMMA OneLess ==
    ASSUME NEW S, IsFiniteSet(S), NEW t \in S
    PROVE  Cardinality(S \ {t}) = Cardinality(S) - 1 /\ Cardinality(S) > 0
<1>1. IsFiniteSet(S \ {t}) /\ Cardinality(S \ {t}) = Cardinality(S) - 1
  BY FS_RemoveElement
<1> QED BY <1>1, FS_CardinalityType

\* A thread that holds the one reference there is holds it alone.
LEMMA Alone ==
    ASSUME ReferenceInv, references = 1, NEW t \in Handling
    PROVE  Handling = {t} /\ Streaming = {} /\ ~ owned
<1>1. Cardinality(Handling) > 0 /\ Cardinality(Handling \ {t}) = Cardinality(Handling) - 1
  BY Countable, OneLess
<1>2. Cardinality(Handling) = 1 /\ Cardinality(Streaming) = 0 /\ ~ owned
  BY <1>1, Countable DEF ReferenceInv, CountIs
<1>3. IsFiniteSet(Handling \ {t}) /\ Cardinality(Handling \ {t}) = 0
  BY <1>1, <1>2, Countable, FS_RemoveElement
<1> QED BY <1>2, <1>3, Countable, FS_EmptySet

\* At these points a thread holds a reference of its own.
Holds(at) == at \in {"read", "hash", "drop"}

\* What a step of one thread does to those who hold references.
LEMMA ThreadGoes ==
    ASSUME ModelTypeOK, NEW t \in Threads,
           NEW to \in {"idle", "read", "hash", "create", "drop", "destroy"},
           NEW n \in 0..SessionsPerStream,
           pc' = [pc EXCEPT ![t] = to], sessions' = [sessions EXCEPT ![t] = n]
    PROVE  /\ pc' \in [Threads -> {"idle", "read", "hash", "create", "drop", "destroy"}]
           /\ sessions' \in [Threads -> 0..SessionsPerStream]
           /\ pc'[t] = to /\ sessions'[t] = n
           /\ \A u \in Threads \ {t} : pc'[u] = pc[u] /\ sessions'[u] = sessions[u]
           /\ Holds(to) => Handling' = Handling \cup {t}
           /\ ~ Holds(to) => Handling' = Handling \ {t}
           /\ ~ Holds(to) /\ t \notin Handling => Handling' = Handling
           /\ to = "create" \/ n > 0 => Streaming' = Streaming \cup {t}
           /\ (to = "create" \/ n > 0) /\ t \in Streaming => Streaming' = Streaming
           /\ ~ (to = "create" \/ n > 0) => Streaming' = Streaming \ {t}
           /\ ~ (to = "create" \/ n > 0) /\ t \notin Streaming => Streaming' = Streaming
<1>1. pc' \in [Threads -> {"idle", "read", "hash", "create", "drop", "destroy"}]
      /\ sessions' \in [Threads -> 0..SessionsPerStream]
  BY DEF ModelTypeOK
<1>2. pc'[t] = to /\ sessions'[t] = n
      /\ \A u \in Threads \ {t} : pc'[u] = pc[u] /\ sessions'[u] = sessions[u]
  BY DEF ModelTypeOK
<1>3. \A u \in Threads : u \in Handling' <=> pc'[u] \in {"read", "hash", "drop"}
  BY DEF Handling
<1>4. /\ Holds(to) => Handling' = Handling \cup {t}
      /\ ~ Holds(to) => Handling' = Handling \ {t}
  BY <1>2, <1>3 DEF Handling, Holds
<1>5. \A u \in Threads : u \in Streaming' <=> pc'[u] = "create" \/ sessions'[u] > 0
  BY DEF Streaming, Using
<1>6. /\ to = "create" \/ n > 0 => Streaming' = Streaming \cup {t}
      /\ ~ (to = "create" \/ n > 0) => Streaming' = Streaming \ {t}
  BY <1>2, <1>5 DEF Streaming, Using
<1> QED BY <1>1, <1>2, <1>4, <1>6

\* A thread that neither reads nor streams is not disturbed by another's step that
\* leaves the model where it is.
LEMMA OthersStand ==
    ASSUME NEW u \in Threads, ThreadStands(u), pc'[u] = pc[u], sessions'[u] = sessions[u],
           model' = model,
           pc[u] = "read" => \A f \in InMemory' : graphs'[f] = "pinned"
    PROVE  ThreadStands(u)'
  BY DEF ThreadStands, Using

\* Before the model is loaded nobody holds it.
LEMMA ReferenceInitInv == ModelInit => ReferenceInv
<1> SUFFICES ASSUME ModelInit PROVE ReferenceInv
  OBVIOUS
<1>1. ModelTypeOK
  <2>1. graphs \in [Files -> Contents \cup {Absent}]
    BY DEF ModelInit
  <2>2. sessions \in [Threads -> 0..SessionsPerStream]
    BY DEF ModelInit, SessionsPerStream
  <2> QED BY <2>1, <2>2 DEF ModelInit, ModelTypeOK
<1>2. Handling = {} /\ Streaming = {}
  BY DEF ModelInit, Handling, Streaming, Using
<1>3. CountIs
  BY <1>2, FS_EmptySet DEF ModelInit, CountIs
<1>4. ModelStands /\ \A t \in Threads : ThreadStands(t)
  BY DEF ModelInit, ModelStands, ThreadStands, Using, InMemory
<1> QED BY <1>1, <1>3, <1>4 DEF ReferenceInv

-----------------------------------------------------------------------------
\* Somebody else's files.
LEMMA ReplaceKeeps ==
    ASSUME ReferenceInv, NEW f \in Files, Replace(f)
    PROVE  ReferenceInv'
<1>1. ModelTypeOK'
  <2>1. (CHOOSE c \in Contents : c # disk[f]) \in Contents
    BY DEF Contents
  <2> QED BY <2>1 DEF Replace, ReferenceInv, ModelTypeOK
<1> QED BY <1>1 DEF Replace, ReferenceInv, CountIs, Handling, Streaming, Using, ModelStands,
      ThreadStands, InMemory

\* The load holds the first reference.
LEMMA BeginLoadKeeps ==
    ASSUME ReferenceInv, NEW t \in Threads, BeginLoad(t)
    PROVE  ReferenceInv'
<1> USE DEF BeginLoad
<1>1. sessions' = [sessions EXCEPT ![t] = 0] /\ sessions[t] = 0
  BY DEF ReferenceInv, ModelTypeOK, ThreadStands, Using, SessionsPerStream
<1>2. Handling = {} /\ Streaming = {} /\ ~ owned
  BY DEF ReferenceInv, ModelStands, ThreadStands, Handling, Streaming
<1>3. Handling' = {t} /\ Streaming' = {}
  <2>1. ModelTypeOK /\ 0 \in 0..SessionsPerStream /\ pc' = [pc EXCEPT ![t] = "read"]
    BY DEF ReferenceInv, SessionsPerStream
  <2>2. Handling' = Handling \cup {t}
    BY <1>1, <2>1, ThreadGoes DEF Holds
  <2>3. Streaming' = Streaming \ {t}
    <3>1. ~ ("read" = "create" \/ 0 > 0)
      OBVIOUS
    <3> HIDE DEF BeginLoad
    <3> QED BY <1>1, <2>1, <3>1, ThreadGoes
  <2> QED BY <1>2, <2>2, <2>3
<1>4. ModelTypeOK'
  BY <1>1, ThreadGoes DEF ReferenceInv, ModelTypeOK, SessionsPerStream
<1>5. CountIs'
  <2>1. Cardinality({t}) = 1 /\ Cardinality({}) = 0
    BY FS_Singleton, FS_EmptySet
  <2> QED BY <1>2, <1>3, <2>1 DEF CountIs
<1>6. ModelStands'
  BY DEF ReferenceInv, ModelStands
<1>7. ASSUME NEW u \in Threads PROVE ThreadStands(u)'
  <2>1. u \notin Streaming' /\ (u # t => u \notin Handling')
    BY <1>3
  <2>2. InMemory' = {}
    BY DEF ReferenceInv, ModelStands, InMemory
  <2>3. pc'[u] # "destroy" /\ (u = t => pc'[u] = "read")
    BY DEF ReferenceInv, ModelTypeOK, ThreadStands
  <2> QED BY <2>1, <2>2, <2>3 DEF ThreadStands, Handling, Streaming
<1> QED BY <1>4, <1>5, <1>6, <1>7 DEF ReferenceInv

\* The load goes on alone.
LEMMA LoadStep ==
    ASSUME ReferenceInv, NEW t \in Threads, model = "loading", pc[t] \in {"read", "hash"},
           NEW to \in {"read", "hash", "drop"}, pc' = [pc EXCEPT ![t] = to],
           graphs' \in [Files -> Contents \cup {Absent}],
           to = "read" => \A f \in InMemory' : graphs'[f] = "pinned",
           UNCHANGED <<disk, model, environment, references, owned, sessions>>
    PROVE  ReferenceInv'
<1>1. t \in Handling /\ references = 1
  BY DEF Handling, ReferenceInv, ModelStands
<1>2. Handling = {t} /\ Streaming = {} /\ ~ owned
  BY <1>1, Alone
<1>3. sessions' = [sessions EXCEPT ![t] = sessions[t]] /\ sessions[t] \in 0..SessionsPerStream
  BY DEF ReferenceInv, ModelTypeOK
<1>4. Handling' = {t} /\ Streaming' = {}
  BY <1>2, <1>3, ThreadGoes DEF ReferenceInv, Streaming, Using, Holds
<1>5. ModelTypeOK'
  BY <1>3, ThreadGoes DEF ReferenceInv, ModelTypeOK
<1>6. CountIs'
  BY <1>2, <1>4 DEF ReferenceInv, CountIs
<1>7. ModelStands'
  BY DEF ReferenceInv, ModelStands
<1>8. ASSUME NEW u \in Threads PROVE ThreadStands(u)'
  <2>1. CASE u = t
    <3>1. pc'[u] = to
      BY <2>1 DEF ReferenceInv, ModelTypeOK
    <3>2. ~ Using(u)'
      BY <1>4 DEF Streaming
    <3> QED BY <3>1, <3>2 DEF ThreadStands
  <2>2. CASE u # t
    <3>1. pc'[u] = pc[u] /\ sessions'[u] = sessions[u] /\ pc[u] # "read"
      BY <1>2, <2>2 DEF ReferenceInv, ModelTypeOK, Handling
    <3> QED BY <3>1, OthersStand DEF ReferenceInv
  <2> QED BY <2>1, <2>2
<1> QED BY <1>5, <1>6, <1>7, <1>8 DEF ReferenceInv

\* One file of the model is read into memory.
LEMMA ReadKeeps ==
    ASSUME ReferenceInv, NEW t \in Threads, NEW f \in Files, Read(t, f)
    PROVE  ReferenceInv'
<1>1. model = "loading" /\ graphs' \in [Files -> Contents \cup {Absent}]
  BY DEF Read, ReferenceInv, ModelTypeOK, ThreadStands, Contents
<1> QED BY <1>1, LoadStep DEF Read

\* One output is compared with its pin.
LEMMA VerifyKeeps ==
    ASSUME ReferenceInv, NEW t \in Threads, Verify(t)
    PROVE  ReferenceInv'
<1>1. model = "loading" /\ graphs' \in [Files -> Contents \cup {Absent}]
  BY DEF Verify, ReferenceInv, ModelTypeOK, ThreadStands, Absent
<1>2. CASE \A f \in InMemory : graphs[f] = "pinned"
  <2>1. graphs' = graphs /\ pc' = [pc EXCEPT ![t] = "read"] /\ \A f \in InMemory' : graphs'[f] = "pinned"
    BY <1>2 DEF Verify, InMemory
  <2> QED BY <1>1, <2>1, LoadStep DEF Verify
<1>3. CASE ~ \A f \in InMemory : graphs[f] = "pinned"
  <2>1. pc' = [pc EXCEPT ![t] = "drop"]
    BY <1>3 DEF Verify
  <2> QED BY <1>1, <2>1, LoadStep DEF Verify
<1> QED BY <1>2, <1>3

\* A load that fails drops what it has.
LEMMA LoadFailsKeeps ==
    ASSUME ReferenceInv, NEW t \in Threads, LoadFails(t)
    PROVE  ReferenceInv'
<1>1. model = "loading" /\ graphs' \in [Files -> Contents \cup {Absent}]
  BY DEF LoadFails, ReferenceInv, ModelTypeOK, ThreadStands
<1> QED BY <1>1, LoadStep DEF LoadFails

\* The load's reference becomes the caller's.
LEMMA EndLoadKeeps ==
    ASSUME ReferenceInv, NEW t \in Threads, EndLoad(t)
    PROVE  ReferenceInv'
<1> USE DEF EndLoad
<1>1. t \in Handling /\ model = "loading" /\ references = 1
  BY DEF Handling, ReferenceInv, ModelStands, ThreadStands
<1>2. Handling = {t} /\ Streaming = {} /\ ~ owned
  BY <1>1, Alone
<1>3. sessions' = [sessions EXCEPT ![t] = sessions[t]] /\ sessions[t] \in 0..SessionsPerStream
  BY DEF ReferenceInv, ModelTypeOK
<1>4. Handling' = {} /\ Streaming' = {}
  BY <1>2, <1>3, ThreadGoes DEF ReferenceInv, Streaming, Using, Holds
<1>5. ModelTypeOK'
  BY <1>3, ThreadGoes DEF ReferenceInv, ModelTypeOK
<1>6. CountIs'
  BY <1>1, <1>4, FS_EmptySet DEF CountIs
<1>7. ModelStands'
  BY <1>1 DEF ReferenceInv, ModelStands, ThreadStands
<1>8. ASSUME NEW u \in Threads PROVE ThreadStands(u)'
  <2>1. u \notin Handling' /\ u \notin Streaming' /\ pc'[u] # "destroy"
    BY <1>1, <1>4 DEF ReferenceInv, ModelTypeOK, ThreadStands
  <2> QED BY <2>1 DEF ThreadStands, Handling, Streaming
<1> QED BY <1>5, <1>6, <1>7, <1>8 DEF ReferenceInv

-----------------------------------------------------------------------------
\* A step of a thread while the model is live, which stays so.
LEMMA LiveStep ==
    ASSUME ReferenceInv, NEW t \in Threads, model = "live",
           NEW to \in {"idle", "create", "drop"}, NEW n \in 0..SessionsPerStream,
           pc' = [pc EXCEPT ![t] = to], sessions' = [sessions EXCEPT ![t] = n],
           UNCHANGED <<disk, model, graphs, environment>>,
           references' \in Nat, references' > 0, owned' \in BOOLEAN, CountIs'
    PROVE  ReferenceInv'
<1>1. ModelTypeOK'
  BY ThreadGoes DEF ReferenceInv, ModelTypeOK
<1>2. ModelStands'
  BY DEF ReferenceInv, ModelStands
<1>3. ASSUME NEW u \in Threads PROVE ThreadStands(u)'
  <2>1. CASE u = t
    BY <2>1, ThreadGoes DEF ReferenceInv, ThreadStands
  <2>2. CASE u # t
    <3>1. pc'[u] = pc[u] /\ sessions'[u] = sessions[u] /\ pc[u] # "read"
      BY <2>2, ThreadGoes DEF ReferenceInv, ThreadStands
    <3> QED BY <3>1, OthersStand DEF ReferenceInv
  <2> QED BY <2>1, <2>2
<1> QED BY <1>1, <1>2, <1>3 DEF ReferenceInv

\* A stream retains the model before it builds on it.
LEMMA BeginCreateKeeps ==
    ASSUME ReferenceInv, NEW t \in Threads, BeginCreate(t)
    PROVE  ReferenceInv'
<1> USE DEF BeginCreate
<1>1. model = "live" /\ references \in Nat /\ owned \in BOOLEAN
  BY DEF ReferenceInv, ModelTypeOK, ModelStands
<1>2. sessions' = [sessions EXCEPT ![t] = 0] /\ 0 \in 0..SessionsPerStream
  BY DEF ReferenceInv, ModelTypeOK, SessionsPerStream
<1>3. t \notin Handling /\ t \notin Streaming
  BY DEF Handling, Streaming, Using
<1>4. Handling' = Handling /\ Streaming' = Streaming \cup {t}
  BY <1>2, <1>3, ThreadGoes DEF ReferenceInv, Holds
<1>5. Cardinality(Streaming') = Cardinality(Streaming) + 1
  BY <1>3, <1>4, Countable, OneMore
<1>6. CountIs'
  BY <1>4, <1>5, Countable DEF ReferenceInv, CountIs
<1>7. /\ pc' = [pc EXCEPT ![t] = "create"] /\ references' \in Nat /\ references' > 0
      /\ owned' \in BOOLEAN /\ UNCHANGED <<disk, model, graphs, environment>>
  BY <1>1
<1> HIDE DEF BeginCreate
<1> QED BY <1>1, <1>2, <1>6, <1>7, LiveStep

\* One session of a stream is built.
LEMMA CreateSessionKeeps ==
    ASSUME ReferenceInv, NEW t \in Threads, CreateSession(t)
    PROVE  ReferenceInv'
<1> USE DEF CreateSession
<1>1. model = "live" /\ references \in Nat /\ references > 0 /\ owned \in BOOLEAN
  BY DEF ReferenceInv, ModelTypeOK, ModelStands, ThreadStands, Using
<1>2. pc' = [pc EXCEPT ![t] = "create"] /\ sessions[t] + 1 \in 0..SessionsPerStream
      /\ sessions' = [sessions EXCEPT ![t] = sessions[t] + 1]
  BY DEF ReferenceInv, ModelTypeOK, SessionsPerStream
<1>3. t \notin Handling /\ t \in Streaming
  BY DEF Handling, Streaming, Using
<1>4. Handling' = Handling /\ Streaming' = Streaming
  BY <1>2, <1>3, ThreadGoes DEF ReferenceInv, Holds
<1>5. CountIs'
  BY <1>4 DEF ReferenceInv, CountIs
<1> QED BY <1>1, <1>2, <1>5, LiveStep

\* The stream is built, or has failed.
LEMMA EndCreateKeeps ==
    ASSUME ReferenceInv, NEW t \in Threads, EndCreate(t)
    PROVE  ReferenceInv'
<1> USE DEF EndCreate
<1>1. model = "live" /\ references \in Nat /\ references > 0 /\ owned \in BOOLEAN
  BY DEF ReferenceInv, ModelTypeOK, ModelStands, ThreadStands, Using
<1>2. sessions' = [sessions EXCEPT ![t] = SessionsPerStream]
      /\ SessionsPerStream \in 0..SessionsPerStream /\ SessionsPerStream > 0
  BY DEF ReferenceInv, ModelTypeOK, SessionsPerStream
<1>3. t \notin Handling /\ t \in Streaming
  BY DEF Handling, Streaming, Using
<1>4. Handling' = Handling /\ Streaming' = Streaming
  BY <1>2, <1>3, ThreadGoes DEF ReferenceInv, Holds
<1>5. CountIs'
  BY <1>4 DEF ReferenceInv, CountIs
<1> QED BY <1>1, <1>2, <1>5, LiveStep

\* The stream's reference becomes one that is being dropped.
LEMMA ReleaseSessionsKeeps ==
    ASSUME ReferenceInv, NEW t \in Threads, ReleaseSessions(t)
    PROVE  ReferenceInv'
<1> USE DEF ReleaseSessions
<1>1. t \notin Handling /\ t \in Streaming
  BY DEF Handling, Streaming, Using
<1>2. model = "live" /\ references \in Nat /\ references > 0 /\ owned \in BOOLEAN
  BY <1>1 DEF ReferenceInv, ModelTypeOK, ModelStands, ThreadStands, Streaming
<1>3. 0 \in 0..SessionsPerStream
  BY DEF SessionsPerStream
<1>4. Handling' = Handling \cup {t} /\ Streaming' = Streaming \ {t}
  <2>1. ModelTypeOK /\ pc' = [pc EXCEPT ![t] = "drop"] /\ sessions' = [sessions EXCEPT ![t] = 0]
    BY DEF ReferenceInv
  <2>2. Handling' = Handling \cup {t}
    BY <1>3, <2>1, ThreadGoes DEF Holds
  <2>3. Streaming' = Streaming \ {t}
    <3>1. ~ ("drop" = "create" \/ 0 > 0)
      OBVIOUS
    <3> HIDE DEF ReleaseSessions
    <3> QED BY <1>3, <2>1, <3>1, ThreadGoes
  <2> QED BY <2>2, <2>3
<1>5. Cardinality(Handling') = Cardinality(Handling) + 1
      /\ Cardinality(Streaming') = Cardinality(Streaming) - 1
  BY <1>1, <1>4, Countable, OneMore, OneLess
<1>6. CountIs'
  BY <1>5, Countable DEF ReferenceInv, CountIs
<1> QED BY <1>2, <1>3, <1>6, LiveStep

\* So does the caller's, whatever streams it still has.
LEMMA OwnerFreesKeeps ==
    ASSUME ReferenceInv, NEW t \in Threads, OwnerFrees(t)
    PROVE  ReferenceInv'
<1> USE DEF OwnerFrees
<1>1. model = "live" /\ references \in Nat /\ references > 0
  BY DEF ReferenceInv, ModelTypeOK, ModelStands
<1>2. sessions' = [sessions EXCEPT ![t] = sessions[t]] /\ sessions[t] \in 0..SessionsPerStream
  BY DEF ReferenceInv, ModelTypeOK
<1>3. t \notin Handling /\ (t \in Streaming <=> sessions[t] > 0)
  BY DEF Handling, Streaming, Using
<1>4. Handling' = Handling \cup {t} /\ Streaming' = Streaming
  BY <1>2, <1>3, ThreadGoes DEF ReferenceInv, Holds
<1>5. Cardinality(Handling') = Cardinality(Handling) + 1
  BY <1>3, <1>4, Countable, OneMore
<1>6. CountIs'
  BY <1>4, <1>5, Countable DEF ReferenceInv, CountIs
<1> QED BY <1>1, <1>2, <1>6, LiveStep

-----------------------------------------------------------------------------
\* The count that fetch_sub returns tells the last one, who then is alone.
LEMMA DropKeeps ==
    ASSUME ReferenceInv, NEW t \in Threads, Drop(t)
    PROVE  ReferenceInv'
<1>1. t \in Handling /\ references \in Nat /\ model \in {"loading", "live"}
  BY DEF Drop, Handling, ReferenceInv, ModelTypeOK, ThreadStands
<1>2. sessions' = [sessions EXCEPT ![t] = sessions[t]] /\ sessions[t] \in 0..SessionsPerStream
  BY DEF Drop, ReferenceInv, ModelTypeOK
<1>3. CASE references = 1
  <2>1. Handling = {t} /\ Streaming = {} /\ ~ owned
    BY <1>1, <1>3, Alone
  <2>2. pc' = [pc EXCEPT ![t] = "destroy"] /\ model' = "destroying" /\ references' = 0
        /\ UNCHANGED <<disk, graphs, environment, owned, sessions>>
    BY <1>3 DEF Drop
  <2>3. Handling' = {} /\ Streaming' = {}
    BY <1>2, <2>1, <2>2, ThreadGoes DEF ReferenceInv, Streaming, Using, Holds
  <2>4. ModelTypeOK'
    BY <1>2, <2>2, ThreadGoes DEF ReferenceInv, ModelTypeOK
  <2>5. CountIs'
    BY <2>1, <2>2, <2>3, FS_EmptySet DEF CountIs
  <2>6. \A u \in Threads : pc'[u] = "destroy" <=> u = t
    BY <1>1, <2>2 DEF ReferenceInv, ModelTypeOK, ThreadStands
  <2>7. {u \in Threads : pc'[u] = "destroy"} = {t}
    BY <2>6
  <2>8. ModelStands'
    BY <2>1, <2>2, <2>7 DEF ModelStands
  <2>9. ASSUME NEW u \in Threads PROVE ThreadStands(u)'
    BY <2>2, <2>3 DEF ThreadStands, Handling, Streaming
  <2> QED BY <2>4, <2>5, <2>8, <2>9 DEF ReferenceInv
<1>4. CASE references # 1
  <2>1. model = "live" /\ references > 0
    BY <1>1, <1>4 DEF ReferenceInv, ModelStands
  <2>2. pc' = [pc EXCEPT ![t] = "idle"] /\ references' = references - 1 /\ references' > 0
        /\ references' \in Nat
        /\ UNCHANGED <<disk, model, graphs, environment, owned, sessions>>
    BY <1>1, <1>4, <2>1 DEF Drop
  <2>3. t \in Streaming <=> sessions[t] > 0
    BY DEF Drop, Streaming, Using
  <2>4. Handling' = Handling \ {t} /\ Streaming' = Streaming
    BY <1>2, <2>2, <2>3, ThreadGoes DEF ReferenceInv, Holds
  <2>5. Cardinality(Handling') = Cardinality(Handling) - 1
    BY <1>1, <2>4, Countable, OneLess
  <2>6. CountIs'
    BY <2>2, <2>4, <2>5, Countable DEF ReferenceInv, CountIs
  <2> QED BY <1>2, <2>1, <2>2, <2>6, LiveStep DEF ReferenceInv, ModelTypeOK
<1> QED BY <1>3, <1>4

\* Nobody else is left to see the destruction.
LEMMA ReleaseEnvironmentKeeps ==
    ASSUME ReferenceInv, NEW t \in Threads, ReleaseEnvironment(t)
    PROVE  ReferenceInv'
<1>1. model = "destroying"
  BY DEF ReleaseEnvironment, ReferenceInv, ThreadStands
<1> QED BY <1>1 DEF ReleaseEnvironment, ReferenceInv, ModelTypeOK, CountIs, Handling, Streaming,
      Using, ModelStands, ThreadStands, InMemory

\* The caller drops the model.
LEMMA FreeModelKeeps ==
    ASSUME ReferenceInv, NEW t \in Threads, FreeModel(t)
    PROVE  ReferenceInv'
<1> USE DEF FreeModel
<1>1. model = "destroying"
  BY DEF ReferenceInv, ThreadStands
<1>2. sessions' = [sessions EXCEPT ![t] = sessions[t]] /\ sessions[t] \in 0..SessionsPerStream
  BY DEF ReferenceInv, ModelTypeOK
<1>3. t \notin Handling /\ t \notin Streaming
  BY <1>1 DEF Handling, Streaming, ReferenceInv, ThreadStands
<1>4. Handling' = Handling /\ Streaming' = Streaming
  BY <1>2, <1>3, ThreadGoes DEF ReferenceInv, Streaming, Using, Holds
<1>5. ModelTypeOK'
  BY <1>2, ThreadGoes DEF ReferenceInv, ModelTypeOK
<1>6. CountIs'
  BY <1>4 DEF ReferenceInv, CountIs
<1>7. ModelStands'
  BY <1>1 DEF ReferenceInv, ModelStands, InMemory
<1>8. ASSUME NEW u \in Threads PROVE ThreadStands(u)'
  <2>1. pc'[u] # "destroy"
    BY <1>1 DEF ReferenceInv, ModelTypeOK, ModelStands
  <2>2. u \notin Handling /\ u \notin Streaming
    BY <1>1 DEF Handling, Streaming, ReferenceInv, ThreadStands
  <2> QED BY <1>4, <2>1, <2>2 DEF ThreadStands, Handling, Streaming
<1> QED BY <1>5, <1>6, <1>7, <1>8 DEF ReferenceInv

\* No step of any thread breaks the count.
LEMMA ReferenceStep == ReferenceInv /\ [ModelNext]_modelVars => ReferenceInv'
<1> SUFFICES ASSUME ReferenceInv, [ModelNext]_modelVars PROVE ReferenceInv'
  OBVIOUS
<1>1. CASE UNCHANGED modelVars
  BY <1>1 DEF modelVars, ReferenceInv, ModelTypeOK, CountIs, Handling, Streaming, Using, ModelStands,
     ThreadStands, InMemory
<1> QED BY <1>1, ReplaceKeeps, BeginLoadKeeps, ReadKeeps, VerifyKeeps, EndLoadKeeps, LoadFailsKeeps,
       BeginCreateKeeps, CreateSessionKeeps, EndCreateKeeps, ReleaseSessionsKeeps, OwnerFreesKeeps,
       DropKeeps, ReleaseEnvironmentKeeps, FreeModelKeeps DEF ModelNext

-----------------------------------------------------------------------------
\* The inductive invariant: the count is the number of those who hold a reference.
THEOREM ModelInvariant == ModelSpec => []ReferenceInv
<1> QED BY ReferenceInitInv, ReferenceStep, PTL DEF ModelSpec

\* Whoever builds or uses a stream has the environment and the pinned graphs, also
\* after the caller freed the model.
THEOREM ModelUsedIsWhole == ModelSpec => []UsedIsWhole
<1>1. ReferenceInv => UsedIsWhole
  BY DEF ReferenceInv, ModelStands, ThreadStands, UsedIsWhole
<1> QED BY <1>1, ModelInvariant, PTL

\* The model is destroyed by one thread, and nobody drops a reference to it then.
THEOREM ModelDestroyedByTheLast == ModelSpec => []DestroyedByTheLast
<1>1. ASSUME ReferenceInv, model \in {"destroying", "freed"} PROVE DestroyedByTheLast
  <2>1. \A t \in Threads : pc[t] # "drop"
    BY <1>1 DEF ReferenceInv, ThreadStands
  <2>2. CASE model = "destroying"
    <3>1. PICK t \in Threads : {u \in Threads : pc[u] = "destroy"} = {t}
      BY <1>1, <2>2 DEF ReferenceInv, ModelStands
    <3>2. Cardinality({u \in Threads : pc[u] = "destroy"}) = 1
      BY <3>1, FS_Singleton
    <3> QED BY <2>1, <2>2, <3>2 DEF DestroyedByTheLast
  <2>3. CASE model = "freed"
    <3>1. {u \in Threads : pc[u] = "destroy"} = {}
      BY <1>1, <2>3 DEF ReferenceInv, ThreadStands
    <3>2. Cardinality({u \in Threads : pc[u] = "destroy"}) = 0
      BY <3>1, FS_EmptySet
    <3> QED BY <2>1, <2>3, <3>2 DEF DestroyedByTheLast
  <2> QED BY <1>1, <2>2, <2>3
<1>2. ReferenceInv => DestroyedByTheLast
  BY <1>1 DEF DestroyedByTheLast
<1> QED BY <1>2, ModelInvariant, PTL

\* When everybody is done with it, the model is gone, with its environment and bytes.
THEOREM ModelNothingLeaked == ModelSpec => []NothingLeaked
<1>1. ASSUME ReferenceInv, \A t \in Threads : pc[t] = "idle" /\ ~ Using(t), ~ owned, model # "none"
      PROVE  model = "freed" /\ ~ environment /\ InMemory = {}
  <2>1. Handling = {} /\ Streaming = {}
    BY <1>1 DEF Handling, Streaming
  <2>2. references = 0
    BY <1>1, <2>1, FS_EmptySet DEF ReferenceInv, CountIs
  <2>3. model \notin {"loading", "live", "destroying"}
    BY <1>1, <2>2 DEF ReferenceInv, ModelStands
  <2> QED BY <1>1, <2>3 DEF ReferenceInv, ModelTypeOK, ModelStands
<1>2. ReferenceInv => NothingLeaked
  BY <1>1 DEF NothingLeaked
<1> QED BY <1>2, ModelInvariant, PTL
=============================================================================
