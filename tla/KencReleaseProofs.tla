------------------------- MODULE KencReleaseProofs -------------------------
(*****************************************************************************)
(* What a release is put together from and what its streams agree on: the    *)
(* vendored licence authority and the content bundles, the staged runtime    *)
(* and the native package; the profile that two sides of a link or the       *)
(* header of a file select; and that the tool with which a release is        *)
(* verified hears what the library would, and measures the lookahead it      *)
(* says. The invariants are in the modules of the components; here every     *)
(* action is shown to keep them.                                             *)
(*****************************************************************************)
EXTENDS KencVendor, KencPackage, KencEpochStream, SequenceTheorems, TLAPS

-----------------------------------------------------------------------------
(* The licence authority *)

\* A checkout starts with one commit of the authority.
LEMMA VendorInitInv == VendorInit => VendorInv
  BY VendorAssumption DEF VendorInit, VendorInv, BindingStands, MoveStands, BundleStands, EmbeddedIsOneCommit,
      BundleIsItsCommit

\* A move reads the commit it moves to out of the object store.
LEMMA BeginMoveKeeps == ASSUME VendorInv, BeginMove PROVE VendorInv'
<1> USE VendorAssumption DEF VendorInv, BeginMove, Idle, CommitReads, CommitFiles, GitObject
<1>1. BindingStands'
  BY DEF BindingStands
<1>2. MoveStands'
  BY DEF MoveStands
<1>3. BundleStands'
  BY DEF BundleStands
<1>4. EmbeddedIsOneCommit' /\ BundleIsItsCommit'
  BY DEF EmbeddedIsOneCommit, BundleIsItsCommit
<1> QED BY <1>1, <1>2, <1>3, <1>4

\* The move removes the vendored tree.
LEMMA RemoveTreeKeeps == ASSUME VendorInv, RemoveTree PROVE VendorInv'
<1> USE VendorAssumption DEF VendorInv, RemoveTree, Idle
<1>1. BindingStands'
  BY DEF BindingStands
<1>2. MoveStands'
  BY DEF MoveStands
<1>3. BundleStands'
  BY DEF BundleStands
<1>4. EmbeddedIsOneCommit' /\ BundleIsItsCommit'
  BY DEF EmbeddedIsOneCommit, BundleIsItsCommit
<1> QED BY <1>1, <1>2, <1>3, <1>4

\* The move writes one file of the new commit.
LEMMA WriteFileKeeps == ASSUME VendorInv, WriteFile PROVE VendorInv'
<1> USE VendorAssumption DEF VendorInv, WriteFile, Idle
<1>1. BindingStands'
  BY DEF BindingStands
<1>2. MoveStands'
  BY DEF MoveStands
<1>3. BundleStands'
  BY DEF BundleStands
<1>4. EmbeddedIsOneCommit' /\ BundleIsItsCommit'
  BY DEF EmbeddedIsOneCommit, BundleIsItsCommit
<1> QED BY <1>1, <1>2, <1>3, <1>4

\* The move writes the pin.
LEMMA WritePinKeeps == ASSUME VendorInv, WritePin PROVE VendorInv'
<1> USE VendorAssumption DEF VendorInv, WritePin, Idle
<1>1. BindingStands'
  BY DEF BindingStands
<1>2. MoveStands'
  BY DEF MoveStands
<1>3. BundleStands'
  BY DEF BundleStands
<1>4. EmbeddedIsOneCommit' /\ BundleIsItsCommit'
  BY DEF EmbeddedIsOneCommit, BundleIsItsCommit
<1> QED BY <1>1, <1>2, <1>3, <1>4

\* The move writes digests of what is on disk, then the name of the commit.
LEMMA WriteBindingKeeps == ASSUME VendorInv, WriteBinding PROVE VendorInv'
<1> USE VendorAssumption DEF VendorInv, WriteBinding, Idle, Regenerated
<1>1. BindingStands'
  <2>1. /\ binding' = [ref |-> moving.to, files |-> [p \in Embedded |-> vendored[p]]]
        /\ ~ edited' => vendored = moving.files
    OBVIOUS
  <2>2. \A p \in Embedded : moving.files[p] = Files[moving.to][p]
    BY DEF MoveStands
  <2>3. /\ binding'.ref = moving.to /\ binding' = [ref |-> binding'.ref, files |-> binding'.files]
        /\ \A p \in Embedded : binding'.files[p] = vendored[p]
    BY <2>1
  <2> QED BY <2>1, <2>2, <2>3 DEF BindingStands
<1>2. MoveStands'
  BY DEF MoveStands
<1>3. BundleStands'
  BY DEF BundleStands
<1>4. EmbeddedIsOneCommit' /\ BundleIsItsCommit'
  BY DEF EmbeddedIsOneCommit, BundleIsItsCommit
<1> QED BY <1>1, <1>2, <1>3, <1>4

\* A crash leaves the move where it was.
LEMMA CrashMoveKeeps == ASSUME VendorInv, CrashMove PROVE VendorInv'
<1> USE VendorAssumption DEF VendorInv, CrashMove, Idle
<1>1. BindingStands'
  BY DEF BindingStands
<1>2. MoveStands'
  BY DEF MoveStands
<1>3. BundleStands'
  BY DEF BundleStands
<1>4. EmbeddedIsOneCommit' /\ BundleIsItsCommit'
  BY DEF EmbeddedIsOneCommit, BundleIsItsCommit
<1> QED BY <1>1, <1>2, <1>3, <1>4

\* The converter embeds the authority when it is in order.
LEMMA EmbedInConverterKeeps == ASSUME VendorInv, EmbedInConverter PROVE VendorInv'
<1> USE VendorAssumption DEF VendorInv, EmbedInConverter, Idle
<1>1. BindingStands'
  BY DEF BindingStands
<1>2. MoveStands'
  BY DEF MoveStands
<1>3. BundleStands'
  BY DEF BundleStands
<1>4. EmbeddedIsOneCommit' /\ BundleIsItsCommit'
  BY DEF EmbeddedIsOneCommit, BundleIsItsCommit, BindingStands
<1> QED BY <1>1, <1>2, <1>3, <1>4

\* The content bundle reads its commit and compares it with the authority.
LEMMA BeginBundleKeeps == ASSUME VendorInv, BeginBundle PROVE VendorInv'
<1> USE VendorAssumption DEF VendorInv, BeginBundle, Idle, ContentMembers, Pinned, SameAuthority, GitObject
<1>1. BindingStands'
  BY DEF BindingStands
<1>2. MoveStands'
  BY DEF MoveStands
<1>3. BundleStands'
  BY DEF BundleStands, BindingStands
<1>4. EmbeddedIsOneCommit' /\ BundleIsItsCommit'
  BY DEF EmbeddedIsOneCommit, BundleIsItsCommit
<1> QED BY <1>1, <1>2, <1>3, <1>4

\* The content bundle is written.
LEMMA EndBundleKeeps == ASSUME VendorInv, EndBundle PROVE VendorInv'
<1> USE VendorAssumption DEF VendorInv, EndBundle, Idle, Pinned
<1>1. BindingStands'
  BY DEF BindingStands
<1>2. MoveStands'
  BY DEF MoveStands
<1>3. BundleStands'
  BY DEF BundleStands
<1>4. EmbeddedIsOneCommit' /\ BundleIsItsCommit'
  BY DEF EmbeddedIsOneCommit, BundleIsItsCommit, BundleStands
<1> QED BY <1>1, <1>2, <1>3, <1>4

\* Somebody edits a vendored file.
LEMMA EditFileKeeps == ASSUME VendorInv, EditFile PROVE VendorInv'
<1> USE VendorAssumption DEF VendorInv, EditFile, Idle
<1>1. BindingStands'
  BY DEF BindingStands
<1>2. MoveStands'
  BY DEF MoveStands
<1>3. BundleStands'
  BY DEF BundleStands
<1>4. EmbeddedIsOneCommit' /\ BundleIsItsCommit'
  BY DEF EmbeddedIsOneCommit, BundleIsItsCommit
<1> QED BY <1>1, <1>2, <1>3, <1>4

\* The object store returns other bytes from now on.
LEMMA DamageKeeps == ASSUME VendorInv, Damage PROVE VendorInv'
<1> USE VendorAssumption DEF VendorInv, Damage, Idle
<1>1. BindingStands'
  BY DEF BindingStands
<1>2. MoveStands'
  BY DEF MoveStands
<1>3. BundleStands'
  BY DEF BundleStands
<1>4. EmbeddedIsOneCommit' /\ BundleIsItsCommit'
  BY DEF EmbeddedIsOneCommit, BundleIsItsCommit
<1> QED BY <1>1, <1>2, <1>3, <1>4

\* Nothing happens.
LEMMA VendorStutter == ASSUME VendorInv, UNCHANGED vendorVars PROVE VendorInv'
  BY DEF VendorInv, vendorVars, BindingStands, MoveStands, BundleStands, EmbeddedIsOneCommit, BundleIsItsCommit

\* What the pin, the binding, a move and a bundle in the making stand for,
\* whatever is interrupted, edited or damaged.
THEOREM VendorInvariant == VendorSpec => []VendorInv
<1>1. VendorInv /\ [VendorNext]_vendorVars => VendorInv'
  BY VendorStutter, BeginMoveKeeps, RemoveTreeKeeps, WriteFileKeeps, WritePinKeeps, WriteBindingKeeps, CrashMoveKeeps, EmbedInConverterKeeps, BeginBundleKeeps, EndBundleKeeps, EditFileKeeps, DamageKeeps DEF VendorNext
<1> QED BY <1>1, VendorInitInv, PTL DEF VendorSpec

\* The offline check passes on the files of one commit only, wherever a move
\* was interrupted.
THEOREM OfflineCheckSound == VendorSpec => []OfflineCheckMeansOneCommit
<1>1. VendorInv => OfflineCheckMeansOneCommit
  BY DEF VendorInv, BindingStands, OfflineCheckMeansOneCommit, Agrees, Pinned, Regenerated
<1> QED BY <1>1, VendorInvariant, PTL

\* What is embedded is one commit of the authority and the one it says it is.
THEOREM EmbedsOneCommit == VendorSpec => []EmbeddedIsOneCommit
<1>1. VendorInv => EmbeddedIsOneCommit
  BY DEF VendorInv
<1> QED BY <1>1, VendorInvariant, PTL

\* A content bundle holds the bytes of the commit it names, whatever the
\* object store answers.
THEOREM BundleHoldsItsCommit == VendorSpec => []BundleIsItsCommit
<1>1. VendorInv => BundleIsItsCommit
  BY DEF VendorInv
<1> QED BY <1>1, VendorInvariant, PTL

-----------------------------------------------------------------------------
(* The staged runtime and the package *)

\* Before the staging starts nothing is taken.
LEMMA StageInitInv == StageInit => StageInv
<1> SUFFICES ASSUME StageInit PROVE StageInv
  OBVIOUS
<1> USE DEF StageInit
<1>1. StageTypeOK
  BY StageAssumption DEF StageTypeOK, Inputs
<1>2. InstalledStands /\ LibrariesStand
  BY DEF InstalledStands, LibrariesStand, Comparing
<1>3. DebsStand /\ StagedAsRecorded
  BY DEF DebsStand, StagedAsRecorded
<1> QED BY <1>1, <1>2, <1>3 DEF StageInv

\* A change can bring nothing nearer to what was installed or taken but by a return.
LEMMA RebuildKeeps == ASSUME StageInv, Rebuild PROVE StageInv'
<1> USE DEF StageInv
<1>1. PICK f \in Inputs, v \in Versions :
          /\ v # tree[f]
          /\ tree' = [tree EXCEPT ![f] = v] /\ past' = [past EXCEPT ![f] = past[f] \cup {v}]
          /\ returns' = [returns EXCEPT ![f] = IF v \in past[f] THEN returns[f] + 1 ELSE returns[f]]
  BY DEF Rebuild
<1>2. changes' = changes + 1 /\ UNCHANGED <<s_at, s_todo, installed, before, staged, debs>>
  BY DEF Rebuild, stageVars
<1>3. \A g \in Inputs :
          /\ g # f => tree'[g] = tree[g] /\ returns'[g] = returns[g]
          /\ past[g] \subseteq past'[g] /\ returns[g] \in Nat
          /\ returns'[g] \in Nat /\ returns'[g] >= returns[g]
  BY <1>1 DEF StageTypeOK
<1>4. \A g \in Inputs : \A w : w \in past[g] /\ w = tree'[g] /\ w # tree[g] => returns'[g] = returns[g] + 1
  BY <1>1, <1>3 DEF StageTypeOK
<1>5. StageTypeOK'
  <2>1. past[f] \cup {v} \in SUBSET Versions
    BY DEF StageTypeOK
  <2>2. tree' \in [Inputs -> Versions] /\ past' \in [Inputs -> SUBSET Versions]
    BY <1>1, <2>1 DEF StageTypeOK
  <2>3. returns' \in [Inputs -> Nat]
    BY <1>1 DEF StageTypeOK
  <2>4. \A g \in Inputs : {0, tree'[g]} \subseteq past'[g]
    BY <1>1 DEF StageTypeOK
  <2> QED BY <1>2, <2>2, <2>3, <2>4 DEF StageTypeOK
<1>6. InstalledStands'
  <2> SUFFICES ASSUME s_at \in {"install", "reverify"} \cup Comparing, NEW g \in DOMAIN installed
               PROVE  /\ installed[g] \in past'[g]
                      /\ installed[g] # 0 =>
                            /\ tree'[g] = 0 => returns'[g] >= 1
                            /\ (s_at = "reverify" /\ g \notin s_todo) \/ s_at \in Comparing =>
                                  returns'[g] >= 1 /\ (tree'[g] = installed[g] => returns'[g] >= 2)
    BY <1>2 DEF InstalledStands
  <2>1. g \in Inputs /\ installed[g] \in past[g] /\ 0 \in past[g]
    BY DEF InstalledStands, Inputs, Comparing, StageTypeOK
  <2>2. tree'[g] = tree[g] \/ tree'[g] \notin past[g] \/ returns'[g] = returns[g] + 1
    BY <1>4, <2>1
  <2>3. /\ installed[g] # 0 =>
              /\ tree[g] = 0 => returns[g] >= 1
              /\ (s_at = "reverify" /\ g \notin s_todo) \/ s_at \in Comparing =>
                    returns[g] >= 1 /\ (tree[g] = installed[g] => returns[g] >= 2)
        /\ returns[g] \in Nat /\ returns'[g] \in Nat /\ returns'[g] >= returns[g]
        /\ past[g] \subseteq past'[g]
    BY <1>3, <2>1 DEF InstalledStands
  <2>4. CASE tree'[g] = tree[g]
    BY <2>1, <2>3, <2>4
  <2>5. CASE tree'[g] \notin past[g]
    BY <2>1, <2>3, <2>5
  <2>6. CASE returns'[g] = returns[g] + 1
    BY <2>1, <2>3, <2>6
  <2> QED BY <2>2, <2>4, <2>5, <2>6
<1>7. LibrariesStand'
  <2>1. ASSUME s_at \in Comparing, NEW g \in DOMAIN before PROVE LibraryStands(g)'
    <3>1. g \in Inputs /\ g \in DOMAIN installed /\ LibraryStands(g)
      BY <2>1 DEF LibrariesStand, InstalledStands, Inputs, Comparing
    <3>2. before[g] \in past[g] /\ staged[g] \in past[g]
      BY <2>1, <3>1 DEF LibraryStands, Compared, InstalledStands
    <3>3. tree'[g] = tree[g] \/ tree'[g] \notin past[g] \/ returns'[g] = returns[g] + 1
      BY <1>4, <3>1
    <3>4. /\ returns[g] \in Nat /\ returns'[g] \in Nat /\ returns'[g] >= returns[g]
          /\ past[g] \subseteq past'[g]
      BY <1>3, <3>1
    <3>5. CASE tree'[g] = tree[g]
      BY <1>2, <3>1, <3>2, <3>4, <3>5 DEF LibraryStands, Compared
    <3>6. CASE tree'[g] \notin past[g]
      BY <1>2, <3>1, <3>2, <3>4, <3>6 DEF LibraryStands, Compared
    <3>7. CASE returns'[g] = returns[g] + 1
      BY <1>2, <3>1, <3>2, <3>4, <3>7 DEF LibraryStands, Compared
    <3> QED BY <3>3, <3>5, <3>6, <3>7
  <2> QED BY <1>2, <2>1 DEF LibrariesStand
<1>8. DebsStand'
  BY <1>2 DEF DebsStand
<1>9. StagedAsRecorded'
  <2>1. \A product \in DOMAIN debs : DOMAIN debs[product].files \subseteq Inputs
    BY DEF DebsStand
  <2> QED BY <1>2, <1>3, <2>1 DEF StagedAsRecorded
<1> QED BY <1>5, <1>6, <1>7, <1>8, <1>9

\* One file of the build tree has its recorded digest.
LEMMA VerifiesOne == ASSUME StageInv, NEW at \in {"verify", "reverify"}, Verified(at) PROVE StageInv'
<1> USE DEF StageInv, treeVars, Verified, Each
<1>1. StageTypeOK'
  BY DEF StageTypeOK, Inputs, Products
<1>2. InstalledStands'
  BY DEF StageTypeOK, InstalledStands, Inputs, Comparing
<1>3. LibrariesStand'
  BY DEF LibrariesStand, LibraryStands, Compared, Comparing
<1>4. DebsStand' /\ StagedAsRecorded'
  BY DEF DebsStand, StagedAsRecorded, Comparing
<1> QED BY <1>1, <1>2, <1>3, <1>4

\* All inputs were verified.
LEMMA EndsVerify == ASSUME StageInv, Then("verify", "install", Libraries \cup Headers) PROVE StageInv'
<1> USE DEF StageInv, treeVars, Then
<1>1. StageTypeOK'
  BY DEF StageTypeOK, Inputs, Products
<1>2. InstalledStands'
  BY DEF StageTypeOK, InstalledStands, Inputs, Comparing
<1>3. LibrariesStand'
  BY DEF LibrariesStand, LibraryStands, Compared, Comparing
<1>4. DebsStand' /\ StagedAsRecorded'
  BY DEF DebsStand, StagedAsRecorded, Comparing
<1> QED BY <1>1, <1>2, <1>3, <1>4

\* cmake --install has copied everything.
LEMMA EndsInstall == ASSUME StageInv, Then("install", "reverify", Libraries \cup Headers) PROVE StageInv'
<1> USE DEF StageInv, treeVars, Then
<1>1. StageTypeOK'
  BY DEF StageTypeOK, Inputs, Products
<1>2. InstalledStands'
  BY DEF StageTypeOK, InstalledStands, Inputs, Comparing
<1>3. LibrariesStand'
  BY DEF LibrariesStand, LibraryStands, Compared, Comparing
<1>4. DebsStand' /\ StagedAsRecorded'
  BY DEF DebsStand, StagedAsRecorded, Comparing
<1> QED BY <1>1, <1>2, <1>3, <1>4

\* The installed copies were verified.
LEMMA EndsReverify == ASSUME StageInv, Then("reverify", "origin", Libraries) PROVE StageInv'
<1> USE DEF StageInv, treeVars, Then
<1>1. StageTypeOK'
  BY DEF StageTypeOK, Inputs, Products
<1>2. InstalledStands'
  BY DEF StageTypeOK, InstalledStands, Inputs, Comparing
<1>3. LibrariesStand'
  BY DEF LibrariesStand, LibraryStands, Compared, Comparing
<1>4. DebsStand' /\ StagedAsRecorded'
  BY DEF DebsStand, StagedAsRecorded, Comparing
<1> QED BY <1>1, <1>2, <1>3, <1>4

\* The libraries were compared with the build.
LEMMA EndsOrigin == ASSUME StageInv, Then("origin", "pack", Products) PROVE StageInv'
<1> USE DEF StageInv, treeVars, Then
<1>1. StageTypeOK'
  BY DEF StageTypeOK, Inputs, Products
<1>2. InstalledStands'
  BY DEF StageTypeOK, InstalledStands, Inputs, Comparing
<1>3. LibrariesStand'
  BY DEF LibrariesStand, LibraryStands, Compared, Comparing
<1>4. DebsStand' /\ StagedAsRecorded'
  BY DEF DebsStand, StagedAsRecorded, Comparing
<1> QED BY <1>1, <1>2, <1>3, <1>4

\* All products are packed.
LEMMA EndsPack == ASSUME StageInv, Then("pack", "staged", {}) PROVE StageInv'
<1> USE DEF StageInv, treeVars, Then
<1>1. StageTypeOK'
  BY DEF StageTypeOK, Inputs, Products
<1>2. InstalledStands'
  BY DEF StageTypeOK, InstalledStands, Inputs, Comparing
<1>3. LibrariesStand'
  BY DEF LibrariesStand, LibraryStands, Compared, Comparing
<1>4. DebsStand' /\ StagedAsRecorded'
  BY DEF DebsStand, StagedAsRecorded, Comparing
<1> QED BY <1>1, <1>2, <1>3, <1>4

\* A step of the staging raises.
LEMMA FailsKeeps == ASSUME StageInv, StageFails PROVE StageInv'
<1> USE DEF StageInv, treeVars, StageFails
<1>1. StageTypeOK'
  BY DEF StageTypeOK, Inputs, Products
<1>2. InstalledStands'
  BY DEF StageTypeOK, InstalledStands, Inputs, Comparing
<1>3. LibrariesStand'
  BY DEF LibrariesStand, LibraryStands, Compared, Comparing
<1>4. DebsStand' /\ StagedAsRecorded'
  BY DEF DebsStand, StagedAsRecorded, Comparing
<1> QED BY <1>1, <1>2, <1>3, <1>4

\* cmake --install copies one file of the tree as it is now.
LEMMA InstallsOne == ASSUME StageInv, NEW f \in s_todo, Each("install", f), installed' = With(installed, f, tree[f]), UNCHANGED <<s_at, before, staged, debs>> PROVE StageInv'
<1> USE DEF StageInv, treeVars, Each
<1>w. /\ DOMAIN installed' = DOMAIN installed \cup {f} /\ installed'[f] = tree[f]
      /\ \A g \in DOMAIN installed : g # f => installed'[g] = installed[g]
  BY DEF With
<1>1. StageTypeOK'
  BY <1>w DEF StageTypeOK, Inputs, Products
<1>2. InstalledStands'
  BY <1>w DEF StageTypeOK, InstalledStands, Inputs, Comparing
<1>3. LibrariesStand'
  BY <1>w DEF LibrariesStand, LibraryStands, Compared, Comparing
<1>4. DebsStand' /\ StagedAsRecorded'
  BY <1>w DEF DebsStand, StagedAsRecorded, Comparing
<1> QED BY <1>1, <1>2, <1>3, <1>4

\* A product is made of what was installed.
LEMMA TakesOne ==
    ASSUME StageInv, NEW f \in s_todo, s_at = "origin", UNCHANGED treeVars,
           before' = With(before, f, tree[f]), staged' = With(staged, f, installed[f]),
           s_at' = "compare", UNCHANGED <<s_todo, installed, debs>>
    PROVE  StageInv'
<1> USE DEF StageInv, treeVars
<1>w. /\ DOMAIN before' = DOMAIN before \cup {f} /\ DOMAIN staged' = DOMAIN staged \cup {f}
      /\ before'[f] = tree[f] /\ staged'[f] = installed[f] /\ before' = [g \in DOMAIN before' |-> before'[g]]
      /\ staged' = [g \in DOMAIN staged' |-> staged'[g]]
      /\ \A g \in DOMAIN before : g # f => before'[g] = before[g]
      /\ \A g \in DOMAIN staged : g # f => staged'[g] = staged[g]
  BY DEF With
<1>v. f \in Libraries /\ f \in Inputs /\ f \notin DOMAIN before /\ f \in DOMAIN installed
  BY DEF LibrariesStand, InstalledStands, Comparing, Inputs
<1>1. StageTypeOK'
  BY <1>w, <1>v DEF StageTypeOK, Inputs, Products
<1>2. InstalledStands'
  BY <1>w, <1>v DEF StageTypeOK, InstalledStands, Inputs, Comparing
<1>3. LibrariesStand'
  <2>1. ASSUME NEW g \in DOMAIN before' PROVE LibraryStands(g)'
    <3>1. CASE g = f
      BY <1>w, <1>v, <3>1 DEF LibraryStands, Compared, InstalledStands, StageTypeOK, Comparing
    <3>2. CASE g # f
      <4>1. LibraryStands(g) /\ g \in DOMAIN before /\ g \in DOMAIN staged /\ g \notin s_todo
        BY <1>w, <3>2 DEF LibrariesStand, Comparing
      <4> QED BY <1>w, <3>2, <4>1 DEF LibraryStands, Compared
    <3> QED BY <3>1, <3>2
  <2> QED BY <1>w, <1>v, <2>1 DEF LibrariesStand
<1>4. DebsStand' /\ StagedAsRecorded'
  BY <1>w, <1>v DEF DebsStand, StagedAsRecorded, Comparing
<1> QED BY <1>1, <1>2, <1>3, <1>4

\* One installed library is compared with the one in the tree.
LEMMA CompareKeeps == ASSUME StageInv, CompareLibrary PROVE StageInv'
<1> USE DEF StageInv, treeVars, CompareLibrary, Each
<1>1. StageTypeOK'
  BY DEF StageTypeOK, Inputs, Products
<1>2. InstalledStands'
  BY DEF StageTypeOK, InstalledStands, Inputs, Comparing
<1>f. PICK f \in s_todo : f \in DOMAIN before /\ tree[f] = staged[f]
  OBVIOUS
<1>g. DOMAIN before = (Libraries \ s_todo) \cup {f} /\ s_todo \subseteq Libraries
  BY <1>f DEF LibrariesStand
<1>3. LibrariesStand'
  <2>1. ASSUME NEW g \in DOMAIN before PROVE LibraryStands(g)'
    <3>1. LibraryStands(g) /\ g \in Inputs /\ g \in DOMAIN installed
      BY <1>g DEF LibrariesStand, InstalledStands, Inputs, Comparing
    <3>2. CASE g = f
      BY <1>f, <1>g, <3>1, <3>2 DEF LibraryStands, Compared, InstalledStands, Comparing
    <3>3. CASE g # f
      BY <1>f, <1>g, <3>1, <3>3 DEF LibraryStands, Compared
    <3> QED BY <3>2, <3>3
  <2> QED BY <1>f, <1>g, <2>1 DEF LibrariesStand
<1>4. DebsStand' /\ StagedAsRecorded'
  BY DEF DebsStand, StagedAsRecorded, Comparing
<1> QED BY <1>1, <1>2, <1>3, <1>4

\* The one in the tree is what it was when it was taken.
LEMMA AgainKeeps == ASSUME StageInv, FingerprintAgain PROVE StageInv'
<1> USE DEF StageInv, treeVars, FingerprintAgain, Each
<1>1. StageTypeOK'
  BY DEF StageTypeOK, Inputs, Products
<1>2. InstalledStands'
  BY DEF StageTypeOK, InstalledStands, Inputs, Comparing
<1>f. PICK f \in s_todo : f \in DOMAIN before /\ tree[f] = before[f] /\ s_todo' = s_todo \ {f}
  OBVIOUS
<1>g. DOMAIN before = (Libraries \ s_todo) \cup {f} /\ s_todo \subseteq Libraries
  BY <1>f DEF LibrariesStand
<1>3. LibrariesStand'
  <2>1. ASSUME NEW g \in DOMAIN before PROVE LibraryStands(g)'
    <3>1. LibraryStands(g) /\ g \in Inputs /\ g \in DOMAIN installed
      BY <1>g DEF LibrariesStand, InstalledStands, Inputs, Comparing
    <3>2. CASE g = f
      BY <1>f, <1>g, <3>1, <3>2 DEF LibraryStands, Compared, InstalledStands, Comparing
    <3>3. CASE g # f
      BY <1>f, <1>g, <3>1, <3>3 DEF LibraryStands, Compared
    <3> QED BY <3>2, <3>3
  <2> QED BY <1>f, <1>g, <2>1 DEF LibrariesStand
<1>4. DebsStand' /\ StagedAsRecorded'
  BY DEF DebsStand, StagedAsRecorded, Comparing
<1> QED BY <1>1, <1>2, <1>3, <1>4

\* What goes into a package is pinned by then, or was changed and put back.
LEMMA PacksOne ==
    ASSUME StageInv, NEW product \in s_todo, Each("pack", product),
           debs' = With(debs, product, [files |-> Packed(product), papers |-> [f \in Papers |-> tree[f]]]),
           UNCHANGED <<s_at, installed, before, staged>>
    PROVE  StageInv'
<1> USE DEF StageInv, treeVars, Each
<1>w. /\ DOMAIN debs' = DOMAIN debs \cup {product} /\ debs'[product].files = Packed(product)
      /\ \A g \in DOMAIN debs : g # product => debs'[g] = debs[g]
  BY DEF With
<1>b. /\ DOMAIN before = Libraries /\ DOMAIN staged = Libraries /\ s_todo \subseteq Products
      /\ DOMAIN installed = Libraries \cup Headers
  BY DEF LibrariesStand, InstalledStands, Comparing
<1>l. \A f \in Libraries :
          /\ staged[f] # 0 => returns[f] >= 2
          /\ before[f] # staged[f] => returns[f] >= 2
  BY <1>b DEF LibrariesStand, LibraryStands, Compared, Comparing, StageTypeOK
<1>h. \A f \in Headers : f \notin Libraries /\ (installed[f] # 0 => returns[f] >= 1)
  BY <1>b, StageAssumption DEF InstalledStands, Comparing
<1>v. LET files == Packed(product)
      IN  \A f \in DOMAIN files :
              /\ files[f] # 0 => returns[f] >= (IF f \in Libraries THEN 2 ELSE 1)
              /\ f \in Libraries => f \in DOMAIN before /\ (before[f] # files[f] => returns[f] >= 2)
  BY <1>b, <1>l, <1>h DEF Packed
<1>1. StageTypeOK'
  BY <1>w, <1>v, <1>b DEF StageTypeOK, Inputs, Products
<1>2. InstalledStands'
  BY <1>w, <1>v, <1>b DEF StageTypeOK, InstalledStands, Inputs, Comparing
<1>3. LibrariesStand'
  BY <1>w, <1>v, <1>b DEF LibrariesStand, LibraryStands, Compared, Comparing
<1>d. DOMAIN Packed(product) \subseteq Inputs
  BY <1>b DEF Packed, Inputs
<1>4. DebsStand' /\ StagedAsRecorded'
  <2>1. DebsStand'
    BY <1>w, <1>d DEF DebsStand
  <2> SUFFICES ASSUME NEW p \in DOMAIN debs', NEW f \in DOMAIN debs'[p].files
               PROVE  LET files == debs'[p].files
                      IN  /\ files[f] # 0 => returns[f] >= (IF f \in Libraries THEN 2 ELSE 1)
                          /\ f \in Libraries =>
                                f \in DOMAIN before /\ (before[f] # files[f] => returns[f] >= 2)
    BY <2>1 DEF StagedAsRecorded
  <2>2. CASE p = product
    BY <1>w, <1>v, <2>2
  <2>3. CASE p # product
    BY <1>w, <2>3 DEF StagedAsRecorded
  <2> QED BY <2>2, <2>3
<1> QED BY <1>1, <1>2, <1>3, <1>4

\* No step of the staging breaks its invariant.
LEMMA StageNextKeeps == ASSUME StageInv, StageNext PROVE StageInv'
<1>1. CASE VerifyInputs
  BY <1>1, VerifiesOne, EndsVerify DEF VerifyInputs
<1>2. CASE Install
  BY <1>2, InstallsOne, EndsInstall DEF Install
<1>3. CASE Reverify
  BY <1>3, VerifiesOne, EndsReverify DEF Reverify
<1>4. CASE TakeLibrary
  BY <1>4, TakesOne, EndsOrigin DEF TakeLibrary
<1>5. CASE PackDeb
  BY <1>5, PacksOne, EndsPack DEF PackDeb
<1> QED BY <1>1, <1>2, <1>3, <1>4, <1>5, CompareKeeps, AgainKeeps, FailsKeeps DEF StageNext

\* What the package builder does leaves the staging alone.
LEMMA StageUnmoved == ASSUME StageInv, UNCHANGED <<treeVars, stageVars>> PROVE StageInv'
  BY DEF StageInv, treeVars, stageVars, StageTypeOK, InstalledStands, LibrariesStand, LibraryStands, Compared,
         DebsStand, StagedAsRecorded, Inputs, Comparing

\* Before the build of the package nothing is read.
LEMMA PackageInitInv == PackageInit => PackageInv
  BY StageInitInv DEF PackageInit, PackageInv, PackageTypeOK, UsedStands, OwnersStand, FloorsStand, Built

\* An upgrade leaves the tree, and can only make what the build sees newer.
LEMMA UpgradeKeeps == ASSUME PackageInv, Upgrade PROVE PackageInv'
<1> USE DEF PackageInv
<1>1. UNCHANGED <<tree, past, returns, stageVars, owners, output, packVars>> /\ changes' = changes + 1
  BY DEF Upgrade
<1>2. StageInv'
  <2>1. StageTypeOK'
    BY <1>1 DEF StageInv, StageTypeOK, stageVars
  <2>2. InstalledStands' /\ LibrariesStand'
    BY <1>1 DEF StageInv, stageVars, InstalledStands, LibrariesStand, LibraryStands, Compared, Comparing
  <2>3. DebsStand' /\ StagedAsRecorded'
    BY <1>1 DEF StageInv, stageVars, DebsStand, StagedAsRecorded
  <2> QED BY <2>1, <2>2, <2>3 DEF StageInv
<1>3. /\ machine' \in [Packages -> Nat] /\ cc' \in Nat
      /\ \A p \in Packages : machine[p] \in Nat /\ machine'[p] \in Nat /\ machine[p] <= machine'[p]
  BY DEF Upgrade, PackageTypeOK
<1>4. PackageTypeOK' /\ UsedStands'
  BY <1>1, <1>3 DEF packVars, PackageTypeOK, UsedStands, Sees, Built
<1>5. OwnersStand' /\ FloorsStand'
  BY <1>1 DEF packVars, OwnersStand, FloorsStand, Built
<1> QED BY <1>2, <1>4, <1>5

\* The fields that a step leaves alone keep what they stand for.
LEMMA OthersKeep ==
    ASSUME PackageInv, StageInv', UNCHANGED <<machineVars, packVars>>
    PROVE  PackageInv'
  BY DEF PackageInv, machineVars, packVars, PackageTypeOK, UsedStands, OwnersStand, FloorsStand, Sees, Built

\* A step of the build raises.
LEMMA PackageFailsKeeps == ASSUME PackageInv, PackageFails PROVE PackageInv'
<1> USE DEF PackageInv, PackageFails, Go
<1>q. UNCHANGED <<treeVars, stageVars>> /\ UNCHANGED machineVars
  BY DEF Quiet
<1>1. StageInv'
  BY <1>q, StageUnmoved
<1>2. PackageTypeOK'
  BY <1>q DEF PackageTypeOK, machineVars, Built
<1>3. UsedStands'
  BY <1>q DEF PackageTypeOK, UsedStands, machineVars, Sees, Built
<1>4. OwnersStand'
  BY <1>q DEF UsedStands, OwnersStand, Built
<1>5. FloorsStand'
  BY <1>q DEF OwnersStand, FloorsStand, Built
<1> QED BY <1>1, <1>2, <1>3, <1>4, <1>5

\* The build starts on a staged runtime.
LEMMA StartPackageKeeps == ASSUME PackageInv, StartPackage PROVE PackageInv'
<1> USE DEF PackageInv, StartPackage, Go
<1>q. UNCHANGED <<treeVars, stageVars>> /\ UNCHANGED machineVars
  BY DEF Quiet
<1>1. StageInv'
  BY <1>q, StageUnmoved
<1>2. PackageTypeOK'
  BY <1>q DEF PackageTypeOK, machineVars, Built
<1>3. UsedStands'
  BY <1>q DEF PackageTypeOK, UsedStands, machineVars, Sees, Built
<1>4. OwnersStand'
  BY <1>q DEF UsedStands, OwnersStand, Built
<1>5. FloorsStand'
  BY <1>q DEF OwnersStand, FloorsStand, Built
<1> QED BY <1>1, <1>2, <1>3, <1>4, <1>5

\* The sources are read.
LEMMA ReadSourceKeeps == ASSUME PackageInv, ReadSource PROVE PackageInv'
<1> USE DEF PackageInv, ReadSource, Go
<1>q. UNCHANGED <<treeVars, stageVars>> /\ UNCHANGED machineVars
  BY DEF Quiet
<1>1. StageInv'
  BY <1>q, StageUnmoved
<1>2. PackageTypeOK'
  BY <1>q DEF PackageTypeOK, machineVars, Built
<1>3. UsedStands'
  BY <1>q DEF PackageTypeOK, UsedStands, machineVars, Sees, Built
<1>4. OwnersStand'
  BY <1>q DEF UsedStands, OwnersStand, Built
<1>5. FloorsStand'
  BY <1>q DEF OwnersStand, FloorsStand, Built
<1> QED BY <1>1, <1>2, <1>3, <1>4, <1>5

\* The machine gets the locked versions.
LEMMA ProvisionKeeps == ASSUME PackageInv, Provision PROVE PackageInv'
<1> USE DEF PackageInv, Provision, Go
<1>q. UNCHANGED <<treeVars, stageVars>> /\ UNCHANGED machineVars
  BY DEF Quiet
<1>1. StageInv'
  BY <1>q, StageUnmoved
<1>2. PackageTypeOK'
  BY <1>q DEF PackageTypeOK, machineVars, Built
<1>3. UsedStands'
  BY <1>q DEF PackageTypeOK, UsedStands, machineVars, Sees, Built
<1>4. OwnersStand'
  BY <1>q DEF UsedStands, OwnersStand, Built
<1>5. FloorsStand'
  BY <1>q DEF OwnersStand, FloorsStand, Built
<1> QED BY <1>1, <1>2, <1>3, <1>4, <1>5

\* The identity of the compiler is read.
LEMMA ReadCompilerKeeps == ASSUME PackageInv, ReadCompiler PROVE PackageInv'
<1> USE DEF PackageInv, ReadCompiler, Go
<1>q. UNCHANGED <<treeVars, stageVars>> /\ UNCHANGED machineVars
  BY DEF Quiet
<1>1. StageInv'
  BY <1>q, StageUnmoved
<1>2. PackageTypeOK'
  BY <1>q DEF PackageTypeOK, machineVars, Built
<1>3. UsedStands'
  BY <1>q DEF PackageTypeOK, UsedStands, machineVars, Sees, Built
<1>4. OwnersStand'
  BY <1>q DEF UsedStands, OwnersStand, Built
<1>5. FloorsStand'
  BY <1>q DEF OwnersStand, FloorsStand, Built
<1> QED BY <1>1, <1>2, <1>3, <1>4, <1>5

\* make links with what the machine has at that moment.
LEMMA MakeKeeps == ASSUME PackageInv, Make PROVE PackageInv'
<1> USE DEF PackageInv, Make, Go
<1>q. UNCHANGED <<treeVars, stageVars>> /\ UNCHANGED machineVars
  BY DEF Quiet
<1>s. \A p \in Packages : Sees(p) \in Nat
  BY DEF PackageTypeOK, Sees
<1>1. StageInv'
  BY <1>q, StageUnmoved
<1>2. PackageTypeOK'
  BY <1>q, <1>s DEF PackageTypeOK, machineVars, Built
<1>3. UsedStands'
  BY <1>q, <1>s DEF PackageTypeOK, UsedStands, machineVars, Sees, Built
<1>4. OwnersStand'
  BY <1>q, <1>s DEF UsedStands, OwnersStand, Built
<1>5. FloorsStand'
  BY <1>q, <1>s DEF OwnersStand, FloorsStand, Built
<1> QED BY <1>1, <1>2, <1>3, <1>4, <1>5

\* Whoever ships the library now, at a version at least that of make.
LEMMA NamesOne ==
    ASSUME PackageInv, NEW l \in p_todo, NEW p \in Packages, Go("owners", "owners", p_todo \ {l}),
           runtime' = With(runtime, l, [package |-> p, version |-> Sees(p)]),
           UNCHANGED <<output, private, asked, compiler, used, depends>>
    PROVE  PackageInv'
<1> USE DEF PackageInv, Go
<1>q. UNCHANGED <<treeVars, stageVars>> /\ UNCHANGED machineVars
  BY DEF Quiet
<1>w. /\ DOMAIN runtime' = DOMAIN runtime \cup {l}
      /\ runtime'[l] = [package |-> p, version |-> Sees(p)]
      /\ \A g \in DOMAIN runtime : g # l => runtime'[g] = runtime[g]
  BY DEF With
<1>s. Sees(p) \in Nat /\ used.machine[p] <= Sees(p) /\ used' = used
  BY DEF PackageTypeOK, Sees, UsedStands, Built
<1>1. StageInv'
  BY <1>q, StageUnmoved
<1>2. PackageTypeOK' /\ UsedStands'
  BY <1>q DEF PackageTypeOK, UsedStands, machineVars, Sees, Built
<1>d. DOMAIN runtime' = Loaded \ p_todo'
  BY <1>w DEF OwnersStand
<1>3. \A g \in DOMAIN runtime' :
          /\ runtime'[g].package \in Packages /\ runtime'[g].version \in Nat
          /\ used'.machine[runtime'[g].package] <= runtime'[g].version
  <2> SUFFICES ASSUME NEW g \in DOMAIN runtime'
               PROVE  /\ runtime'[g].package \in Packages /\ runtime'[g].version \in Nat
                      /\ used'.machine[runtime'[g].package] <= runtime'[g].version
    OBVIOUS
  <2>1. CASE g = l
    BY <2>1, <1>w, <1>s
  <2>2. CASE g # l
    BY <2>2, <1>w, <1>s DEF OwnersStand, Built
  <2> QED BY <2>1, <2>2
<1>4. OwnersStand'
  BY <1>d, <1>3 DEF OwnersStand, Built
<1>5. FloorsStand'
  BY DEF FloorsStand
<1> QED BY <1>1, <1>2, <1>4, <1>5

\* Every loaded library has an owner with a version.
LEMMA EndsOwners ==
    ASSUME PackageInv, p_todo = {}, Go("owners", "record", {}),
           UNCHANGED <<runtime, output, private, asked, compiler, used, depends>>
    PROVE  PackageInv'
<1> USE DEF PackageInv, Go
<1>q. UNCHANGED <<treeVars, stageVars>> /\ UNCHANGED machineVars
  BY DEF Quiet
<1>1. StageInv'
  BY <1>q, StageUnmoved
<1>2. PackageTypeOK' /\ UsedStands'
  BY <1>q DEF PackageTypeOK, UsedStands, machineVars, Sees, Built
<1>3. OwnersStand' /\ FloorsStand'
  BY DEF OwnersStand, FloorsStand, Built
<1> QED BY <1>1, <1>2, <1>3

\* One loaded library gets its owner and its version.
LEMMA RecordKeeps == ASSUME PackageInv, Record PROVE PackageInv'
<1> USE DEF PackageInv, Record, Go
<1>q. UNCHANGED <<treeVars, stageVars>> /\ UNCHANGED machineVars
  BY DEF Quiet
<1>1. StageInv'
  BY <1>q, StageUnmoved
<1>2. PackageTypeOK'
  BY <1>q DEF PackageTypeOK, machineVars, Built
<1>3. UsedStands'
  BY <1>q DEF PackageTypeOK, UsedStands, machineVars, Sees, Built
<1>4. OwnersStand'
  BY <1>q DEF UsedStands, OwnersStand, Built
<1>5. FloorsStand'
  BY <1>q DEF OwnersStand, FloorsStand, Built
<1> QED BY <1>1, <1>2, <1>3, <1>4, <1>5

\* The floors of the dependencies are written.
LEMMA DependKeeps == ASSUME PackageInv, Depend PROVE PackageInv'
<1> USE DEF PackageInv, Depend, Go
<1>q. UNCHANGED <<treeVars, stageVars>> /\ UNCHANGED machineVars
  BY DEF Quiet
<1>f. PICK fl \in [Named -> 0..MaxChanges] : Floors(fl) /\ depends' = fl
  OBVIOUS
<1>g. \A l \in Loaded :
          LET p == runtime[l].package
          IN  depends'[p] = runtime[l].version /\ (p \in Direct => depends'[p] = 0)
  <2> SUFFICES ASSUME NEW l \in Loaded
               PROVE  /\ depends'[runtime[l].package] = runtime[l].version
                      /\ runtime[l].package \in Direct => depends'[runtime[l].package] = 0
    OBVIOUS
  <2>1. runtime[l].package \in Named
    BY DEF Named
  <2>2. runtime[l].version \in Rows(runtime[l].package)
    BY DEF Rows
  <2> QED BY <1>f, <2>1, <2>2 DEF Floors
<1>1. StageInv'
  BY <1>q, StageUnmoved
<1>2. PackageTypeOK'
  BY <1>q DEF PackageTypeOK, machineVars, Built
<1>3. UsedStands'
  BY <1>q DEF PackageTypeOK, UsedStands, machineVars, Sees, Built
<1>4. OwnersStand'
  BY <1>q DEF UsedStands, OwnersStand, Built
<1>5. FloorsStand'
  BY <1>g DEF FloorsStand
<1> QED BY <1>1, <1>2, <1>3, <1>4, <1>5

\* The compiler is the one that was read.
LEMMA RecheckCompilerKeeps == ASSUME PackageInv, RecheckCompiler PROVE PackageInv'
<1> USE DEF PackageInv, RecheckCompiler, Go
<1>q. UNCHANGED <<treeVars, stageVars>> /\ UNCHANGED machineVars
  BY DEF Quiet
<1>1. StageInv'
  BY <1>q, StageUnmoved
<1>2. PackageTypeOK'
  BY <1>q DEF PackageTypeOK, machineVars, Built
<1>3. UsedStands'
  BY <1>q DEF PackageTypeOK, UsedStands, machineVars, Sees, Built
<1>4. OwnersStand'
  BY <1>q DEF UsedStands, OwnersStand, Built
<1>5. FloorsStand'
  BY <1>q DEF OwnersStand, FloorsStand, Built
<1> QED BY <1>1, <1>2, <1>3, <1>4, <1>5

\* The package is published.
LEMMA PublishPackageKeeps == ASSUME PackageInv, PublishPackage PROVE PackageInv'
<1> USE DEF PackageInv, PublishPackage, Go
<1>q. UNCHANGED <<treeVars, stageVars>> /\ UNCHANGED machineVars
  BY DEF Quiet
<1>1. StageInv'
  BY <1>q, StageUnmoved
<1>2. PackageTypeOK'
  BY <1>q DEF PackageTypeOK, machineVars, Built
<1>3. UsedStands'
  BY <1>q DEF PackageTypeOK, UsedStands, machineVars, Sees, Built
<1>4. OwnersStand'
  BY <1>q DEF UsedStands, OwnersStand, Built
<1>5. FloorsStand'
  BY <1>q DEF OwnersStand, FloorsStand, Built
<1> QED BY <1>1, <1>2, <1>3, <1>4, <1>5

\* No step of the builder, the staging or the machine breaks the invariant.
LEMMA PackageNextKeeps == ASSUME PackageInv, [PackageNext]_packageVars PROVE PackageInv'
<1> USE DEF PackageInv
<1>1. CASE StageNext /\ UNCHANGED <<machineVars, output, packVars>>
  BY <1>1, StageNextKeeps, OthersKeep
<1>2. CASE Rebuild /\ UNCHANGED <<machineVars, output, packVars>>
  BY <1>2, RebuildKeeps, OthersKeep
<1>3. CASE OtherOutput
  BY <1>3, StageUnmoved, OthersKeep DEF OtherOutput
<1>4. CASE UNCHANGED packageVars
  BY <1>4, StageUnmoved, OthersKeep DEF packageVars
<1>5. CASE NameOwner
  BY <1>5, NamesOne, EndsOwners DEF NameOwner
<1> HIDE DEF PackageInv
<1> QED BY <1>1, <1>2, <1>3, <1>4, <1>5, UpgradeKeeps, PackageFailsKeeps, StartPackageKeeps, ReadSourceKeeps,
           ProvisionKeeps, ReadCompilerKeeps, MakeKeeps, RecordKeeps, DependKeeps, RecheckCompilerKeeps,
           PublishPackageKeeps DEF PackageNext

\* What the staging and the package builder know at each point, for any
\* upgrades between any two steps.
THEOREM PackageInvariant == PackageSpec => []PackageInv
  BY PackageInitInv, PackageNextKeeps, PTL DEF PackageSpec

\* What a staged package holds and its provenance names is the pinned build, but
\* for what somebody has changed and put back between the checks, for any number
\* of files and changes.
THEOREM DebianStageAsRecorded == PackageSpec => []StagedAsRecorded
<1>1. PackageInv => StagedAsRecorded
  BY DEF PackageInv, StageInv
<1> QED BY <1>1, PackageInvariant, PTL

\* The same of the staging by itself.
THEOREM StageAsRecorded == StageSpec => []StagedAsRecorded
<1>1. StageInv /\ [StageNext \/ Rebuild]_<<treeVars, stageVars>> => StageInv'
  BY StageNextKeeps, RebuildKeeps, StageUnmoved
<1>2. StageInv => StagedAsRecorded
  BY DEF StageInv
<1> QED BY <1>1, <1>2, StageInitInv, PTL DEF StageSpec

\* A published package cannot be installed beside an older library than the
\* one it was linked with.
THEOREM PackageFloorsHold == PackageSpec => []FloorsHoldTheBuild
<1>1. PackageInv => FloorsHoldTheBuild
  <2> SUFFICES ASSUME PackageInv, p_at = "published", NEW l \in Loaded
               PROVE  /\ used.machine[runtime[l].package] <= depends[runtime[l].package]
                      /\ runtime[l].package \in Direct =>
                            used.machine[runtime[l].package] = depends[runtime[l].package]
    BY DEF FloorsHoldTheBuild
  <2>1. /\ used.machine[runtime[l].package] <= runtime[l].version
        /\ used.machine[runtime[l].package] \in Nat
    BY DEF PackageInv, UsedStands, OwnersStand, Built
  <2> QED BY <2>1 DEF PackageInv, FloorsStand
<1> QED BY <1>1, PackageInvariant, PTL

-----------------------------------------------------------------------------
(* The profile of an epoch stream *)

\* A marker names one profile, or none.
LEMMA MarkerNames ==
    /\ FromMarker(0) = "C0" /\ FromMarker(1) = "C5R4"
    /\ FromMarker(2) = Refused
<1>1. /\ DOMAIN Marker = {"C0", "C5R4"} /\ Marker["C0"] = 0 /\ Marker["C5R4"] = 1
  BY DEF Marker
<1>2. \A p \in DOMAIN Marker : Marker[p] = 0 <=> p = "C0"
  BY <1>1
<1>3. \A p \in DOMAIN Marker : Marker[p] = 1 <=> p = "C5R4"
  BY <1>1
<1>4. \A p \in DOMAIN Marker : Marker[p] # 2
  BY <1>1
<1>5. (CHOOSE p \in DOMAIN Marker : Marker[p] = 0) = "C0"
  BY <1>1, <1>2
<1>6. (CHOOSE p \in DOMAIN Marker : Marker[p] = 1) = "C5R4"
  BY <1>1, <1>3
<1> QED BY <1>1, <1>4, <1>5, <1>6 DEF FromMarker

\* A header with one field changed does not turn into that of the other profile.
LEMMA HeaderNamesItsProfile ==
    ASSUME NEW p \in DOMAIN Marker, NEW h \in {HeaderOf(p)} \cup Damaged(HeaderOf(p))
    PROVE  HeaderProfile(h) \in {Refused, p}
<1>1. /\ DOMAIN Marker = {"C0", "C5R4"} /\ Marker["C0"] = 0 /\ Marker["C5R4"] = 1
  BY DEF Marker
<1>2. CASE p = "C0"
  <2>1. HeaderOf(p) = [magic |-> TRUE, version |-> 1, marker |-> 0, kind |-> 1]
    <3>1. Marker[p] = 0 /\ Marker[p] + 1 = 1
      BY <1>1, <1>2
    <3> QED BY <3>1 DEF HeaderOf
  <2>2. CASE h.version = 2 /\ h.marker = 0
    BY <2>2, MarkerNames DEF HeaderProfile
  <2>3. CASE h.version = 1 \/ h.version \notin {1, 2}
    BY <1>2, <2>3 DEF HeaderProfile
  <2> QED BY <2>1, <2>2, <2>3 DEF Damaged
<1>3. CASE p = "C5R4"
  <2>1. HeaderOf(p) = [magic |-> TRUE, version |-> 2, marker |-> 1, kind |-> 1]
    <3>1. Marker[p] = 1 /\ Marker[p] + 1 = 2
      BY <1>1, <1>3
    <3> QED BY <3>1 DEF HeaderOf
  <2>2. CASE h.version = 1 /\ h.marker = 1
    BY <2>2 DEF HeaderProfile
  <2>3. CASE h.version = 2 /\ h.marker \in 0..2
    <3>1. h.marker = 0 \/ h.marker = 1 \/ h.marker = 2
      BY <2>3
    <3> QED BY <3>1, <2>3, <1>3, MarkerNames DEF HeaderProfile
  <2>4. CASE h.version \notin {1, 2}
    BY <2>4 DEF HeaderProfile
  <2> QED BY <2>1, <2>2, <2>3, <2>4 DEF Damaged
<1> QED BY <1>1, <1>2, <1>3

\* Nothing is selected at first.
LEMMA SelectionInitInv == Init => SelectionInv
  BY DEF Init, SelectionInv, SelectionStands, SidesAgree, NoDamageMisleads

\* Each side negotiates with the other's bits: both C5R4 if both advertise it.
LEMMA LinkKeeps == ASSUME SelectionInv, SelectByLink PROVE SelectionInv'
<1> DEFINE E == "encoder"
           D == "decoder"
<1>1. /\ profile' = [s \in Sides |-> Selected(s)] /\ header' = {} /\ stage' # "select"
      /\ UNCHANGED <<knows, bits>>
  BY DEF SelectByLink, Start, SelectionInv, SelectionStands
<1>2. /\ profile'[E] = Selected(E) /\ profile'[D] = Selected(D)
      /\ OtherSide(E) = D /\ OtherSide(D) = E /\ \A s \in Sides : s = E \/ s = D
      /\ {profile'[s] : s \in Sides} = {Selected(E), Selected(D)}
  BY <1>1 DEF Sides, OtherSide
<1>3. /\ knows[E] \in Releases /\ knows[D] \in Releases
      /\ bits[E] # {} => knows[E] # {}
      /\ bits[D] # {} => knows[D] # {}
  BY DEF SelectionInv, SelectionStands, Sides
<1>a. ASSUME NEW s \in Sides
      PROVE  Selected(s) = Refused \/ Selected(s) = IF "c5r4" \in bits[E] \cap bits[D] THEN "C5R4" ELSE "C0"
  <2>1. bits[E] \cap bits[D] = bits[s] \cap bits[OtherSide(s)]
    BY <1>2
  <2>2. knows[s] = {} => bits[s] = {} /\ Selected(s) = "C0"
    BY DEF Selected, SelectionInv, SelectionStands
  <2>3. \/ Negotiate(knows[s], bits[s], bits[OtherSide(s)]) = Refused
        \/ Negotiate(knows[s], bits[s], bits[OtherSide(s)])
              = IF "c5r4" \in bits[s] \cap bits[OtherSide(s)] THEN "C5R4" ELSE "C0"
    BY DEF Negotiate
  <2>4. knows[s] # {} => Selected(s) = Negotiate(knows[s], bits[s], bits[OtherSide(s)])
    BY DEF Selected
  <2> HIDE DEF E, D
  <2> QED BY <2>1, <2>2, <2>3, <2>4
<1>4. Selected(E) # Refused /\ Selected(D) # Refused => Selected(E) = Selected(D)
  BY <1>a DEF Sides
<1>5. ASSUME NEW s \in Sides, knows[s] # {}, "wide" \notin bits[OtherSide(s)]
      PROVE  Selected(s) = NegotiateNative(knows[s], bits[s], bits[OtherSide(s)])
  BY <1>5 DEF Selected, Negotiate, NegotiateNative
<1>6. ASSUME \A s \in Sides : knows[s] # {} =>
                \E ps \in SUBSET DOMAIN Marker :
                    (\A p \in ps : Bit[p] \in knows[s]) /\ bits[s] = Advertisement(ps)
      PROVE  Selected(E) # Refused /\ Selected(D) # Refused
  <2>1. Bit["C0"] = "c0" /\ \A p \in DOMAIN Marker : Bit[p] \in {"c0", "c5r4"}
    BY DEF Bit, Marker
  <2>2. \A s \in Sides : knows[s] # {} =>
            bits[s] \subseteq knows[s] /\ "c0" \in bits[s] /\ "wide" \notin bits[s]
    BY <1>2, <1>3, <1>6, <2>1 DEF Advertisement, Releases
  <2>3. ASSUME NEW s \in Sides PROVE Selected(s) # Refused
    <3>1. OtherSide(s) \in Sides
      BY <1>2 DEF Sides
    <3>2. bits[OtherSide(s)] # {} => "c0" \in bits[OtherSide(s)] /\ "wide" \notin bits[OtherSide(s)]
      BY <2>2, <3>1 DEF SelectionInv, SelectionStands
    <3>3. knows[s] # {} => Negotiate(knows[s], bits[s], bits[OtherSide(s)]) \in {"C0", "C5R4"}
      BY <2>2, <3>2 DEF Negotiate
    <3> QED BY <3>3 DEF Selected, Refused
  <2> QED BY <2>3 DEF Sides
<1>7. SidesAgree'
  BY <1>1, <1>2, <1>4, <1>5, <1>6 DEF SidesAgree
<1> QED BY <1>1, <1>7 DEF SelectionInv, SelectionStands, NoDamageMisleads

\* A header selects the profile that it names, or none.
LEMMA FileKeeps == ASSUME SelectionInv, SelectByFile PROVE SelectionInv'
<1>p. PICK p \in DOMAIN Marker : \E h \in {HeaderOf(p)} \cup Damaged(HeaderOf(p)) :
          header' = {h} /\ profile' = [encoder |-> p, decoder |-> HeaderProfile(h)]
  BY DEF SelectByFile
<1>1. PICK h \in {HeaderOf(p)} \cup Damaged(HeaderOf(p)) :
          header' = {h} /\ profile' = [encoder |-> p, decoder |-> HeaderProfile(h)]
  BY <1>p
<1>2. stage' # "select" /\ UNCHANGED <<knows, bits>>
  BY DEF SelectByFile, Start
<1>3. header' # {} /\ NoDamageMisleads'
  BY <1>1, HeaderNamesItsProfile DEF NoDamageMisleads
<1> QED BY <1>2, <1>3 DEF SelectionInv, SelectionStands, SidesAgree

\* Nothing that comes later selects again.
LEMMA LaterKeeps ==
    ASSUME SelectionInv, stage # "select", stage' # "select", UNCHANGED <<knows, bits, header, profile>>
    PROVE  SelectionInv'
  BY DEF SelectionInv, SelectionStands, SidesAgree, NoDamageMisleads

\* What either side has selected follows from what it was shown.
THEOREM SelectionInvariant == Spec => []SelectionInv
<1>1. SelectionInv /\ [Next]_vars => SelectionInv'
  <2> SUFFICES ASSUME SelectionInv, [Next]_vars PROVE SelectionInv'
    OBVIOUS
  <2>1. CASE Encode \/ EncodeRaises \/ Encoded \/ Decode \/ DecodeRaises \/ Decoded
    BY <2>1, LaterKeeps DEF Encode, EncodeRaises, Encoded, Decode, DecodeRaises, Decoded
  <2>2. CASE UNCHANGED vars
    BY <2>2 DEF vars, SelectionInv, SelectionStands, SidesAgree, NoDamageMisleads
  <2> QED BY <2>1, <2>2, LinkKeeps, FileKeeps DEF Next
<1> QED BY <1>1, SelectionInitInv, PTL DEF Spec

\* Two sides of any releases that select a profile select the same one.
THEOREM ProfilesAgree == Spec => []SidesAgree
<1>1. SelectionInv => SidesAgree
  BY DEF SelectionInv
<1> QED BY <1>1, SelectionInvariant, PTL

\* A header with a damaged field selects nothing, never another profile.
THEOREM HeaderDamageIsSeen == Spec => []NoDamageMisleads
<1>1. SelectionInv => NoDamageMisleads
  BY DEF SelectionInv
<1> QED BY <1>1, SelectionInvariant, PTL

-----------------------------------------------------------------------------
(* The tool and the native stream *)

\* The lemmas about native streams, for the one the tool is compared with.
NF == INSTANCE KencNativeProofs WITH Junk <- None

\* The instance of KencNative that the tool is compared with is the one the
\* lemmas are about.
LEMMA SameNative ==
    /\ NF!PrerollAssumption
    /\ \A n, f : Native!RunFrame(n, f) = NF!RunFrame(n, f)
    /\ \A n, k : Native!SetPreroll(n, k) = NF!SetPreroll(n, k)
    /\ \A n : Native!NativeReset(n) = NF!NativeReset(n)
    /\ \A n : Native!Current(n) = NF!Current(n)
    /\ Native!NativeCreate = NF!NativeCreate
    /\ \A p : Native!LeadIn(p) = LeadIn(p)
    /\ \A k, f : NF!Times(k, f) = Times(k, f)
<1>1. NF!PrerollAssumption
  <2>1. Preroll \in Nat \ {0}
    BY EpochStreamAssumption
  <2> QED BY <2>1 DEF NF!PrerollAssumption
<1>2. \A n, f : Native!RunFrame(n, f) = NF!RunFrame(n, f)
  BY DEF Native!RunFrame, NF!RunFrame, Native!NetworkRun, Native!Primed, Native!LeadInRuns,
         Native!Current, Native!Other, Native!Times, Native!Banks, NF!NetworkRun, NF!Primed,
         NF!LeadInRuns, NF!Current, NF!Other, NF!Times, NF!Banks
<1>3. \A n, k : Native!SetPreroll(n, k) = NF!SetPreroll(n, k)
  BY DEF Native!SetPreroll, NF!SetPreroll
<1>4. \A n : Native!NativeReset(n) = NF!NativeReset(n)
  BY DEF Native!NativeReset, NF!NativeReset, Native!Zeroed, NF!Zeroed, Native!Banks, NF!Banks
<1>5. \A n : Native!Current(n) = NF!Current(n)
  BY DEF Native!Current, NF!Current
<1>6. Native!NativeCreate = NF!NativeCreate
  BY DEF Native!NativeCreate, NF!NativeCreate, Native!Zeroed, NF!Zeroed, Native!Banks, NF!Banks
<1>7. \A p : Native!LeadIn(p) = LeadIn(p)
  BY DEF Native!LeadIn, LeadIn
<1>8. \A k, f : NF!Times(k, f) = Times(k, f)
  BY DEF NF!Times, Times
<1> QED BY <1>1, <1>2, <1>3, <1>4, <1>5, <1>6, <1>7, <1>8

\* A native stream, packet by packet.
NativeGoesOn(at, packets, p, every) ==
    \A i \in 1..Len(packets) :
        Native!Current(at[i]) = IF Boundary(i, every) THEN Times(LeadIn(p) + 1, packets[i])
                                ELSE Append(Native!Current(at[i - 1]), packets[i])

\* ... begins with the lead-in, and goes on from what it holds.
LEMMA NativesStep ==
    ASSUME NEW Frame, NEW p, NEW packets \in Seq(Frame), NEW every \in Nat
    PROVE  NativeGoesOn(Natives(p, packets, every), packets, p, every)
<1> DEFINE n == Len(packets)
           at == Natives(p, packets, every)
           T == {x \in NF!NativeType(Frame) : x.preroll_packets = LeadIn(p)}
           first == Native!SetPreroll(Native!NativeCreate, Native!LeadIn(p))
           Meets(i, x) == IF Boundary(i, every) THEN Native!NativeReset(x) ELSE x
           Step(i, x) == Native!RunFrame(Meets(i, x), packets[i])
           G == [i \in 1..n |-> [x \in T |-> Step(i, x)]]
<1>1. n \in Nat /\ \A i \in 1..n : packets[i] \in Frame
  OBVIOUS
<1>2. first \in T
  BY SameNative, NF!CreateFresh DEF LeadIn, NF!SetPreroll, NF!NativeType
<1>3. ASSUME NEW x \in T, NEW i \in 1..n
      PROVE  /\ Meets(i, x) \in T
             /\ Boundary(i, every) => NF!Fresh(Meets(i, x))
             /\ ~ Boundary(i, every) => Meets(i, x) = x
  BY SameNative, NF!ResetFresh
<1>4. ASSUME NEW x \in T, NEW i \in 1..n
      PROVE  /\ Step(i, x) \in T
             /\ ~ Step(i, x).preroll
             /\ Native!Current(Step(i, x)) =
                    IF Boundary(i, every) THEN Times(LeadIn(p) + 1, packets[i])
                    ELSE IF x.preroll THEN Native!Current(Step(i, x))
                    ELSE Append(Native!Current(x), packets[i])
  <2> DEFINE y == Meets(i, x)
  <2>1. y \in T /\ packets[i] \in Frame
    BY <1>1, <1>3
  <2>2. Boundary(i, every) => NF!Fresh(y)
    BY <1>3
  <2>3. ~ Boundary(i, every) => y = x
    BY <1>3
  <2> HIDE DEF y, Meets
  <2>4. /\ NF!RunFrame(y, packets[i]) \in NF!NativeType(Frame)
        /\ ~ NF!RunFrame(y, packets[i]).preroll
        /\ NF!RunFrame(y, packets[i]).preroll_packets = LeadIn(p)
        /\ NF!Fresh(y) => NF!Current(NF!RunFrame(y, packets[i])) = NF!Times(LeadIn(p) + 1, packets[i])
        /\ ~ y.preroll => NF!Current(NF!RunFrame(y, packets[i])) = Append(NF!Current(y), packets[i])
    BY <2>1, SameNative, NF!RunFrameType
  <2>5. Step(i, x) = NF!RunFrame(y, packets[i])
    BY SameNative DEF y
  <2> HIDE DEF Step
  <2> QED BY <2>2, <2>3, <2>4, <2>5, SameNative
<1>5. PICK h \in [0..n -> T] : h[0] = first /\ \A i \in 1..n : h[i] = G[i][h[i - 1]]
  <2>1. G \in [1..n -> [T -> T]]
    BY <1>4
  <2>2. NF!PrerollAssumption /\ n \in Nat
    BY <1>1, SameNative
  <2> HIDE DEF G, T, first, n
  <2> QED BY <1>2, <2>1, <2>2, NF!Steps
<1>6. ASSUME NEW i \in 1..n PROVE h[i - 1] \in T /\ h[i] \in T /\ h[i] = Step(i, h[i - 1])
  <2>1. i - 1 \in 0..n /\ i \in 0..n
    BY <1>1
  <2> HIDE DEF T, Step
  <2> QED BY <1>5, <2>1
<1> HIDE DEF Step, Meets, first, G, T
<1>7. h = [i \in 0..n |-> IF i = 0 THEN first ELSE Step(i, h[i - 1])]
  <2>1. \A i \in 0..n : i # 0 => i \in 1..n
    BY <1>1
  <2> QED BY <1>5, <1>6, <2>1
<1>8. at = [i \in 0..n |-> IF i = 0 THEN first ELSE Step(i, at[i - 1])]
  <2>1. at = CHOOSE g : g = [i \in 0..n |-> IF i = 0 THEN first ELSE Step(i, g[i - 1])]
    BY DEF Natives, Step, Meets, first, Boundary
  <2> HIDE DEF at
  <2> QED BY <1>7, <2>1
<1> HIDE DEF at
<1>9. at[0] = first /\ \A i \in 1..n : at[i] = Step(i, at[i - 1])
  <2>1. 0 \in 0..n /\ \A i \in 1..n : i \in 0..n /\ i # 0
    BY <1>1
  <2> QED BY <1>8, <2>1
<1>10. \A i \in 0..n : at[i] \in T
  <2> DEFINE P == {i \in Nat : at[i] \in T}
  <2>1. 0 \in P
    BY <1>2, <1>9
  <2>2. ASSUME NEW i \in 0..n - 1, i \in P PROVE i + 1 \in P
    <3>1. i + 1 \in 1..n /\ i + 1 - 1 = i /\ at[i] \in T
      BY <1>1, <2>2
    <3> QED BY <3>1, <1>4, <1>9
  <2>3. P \in SUBSET Nat
    OBVIOUS
  <2> HIDE DEF P
  <2>4. \A i \in 0..n : i \in P
    BY <1>1, <2>1, <2>2, <2>3, SameNative, NF!UpTo
  <2> QED BY <2>4 DEF P
<1>11. \A i \in 1..n : ~ at[i].preroll
  <2>1. \A i \in 1..n : i - 1 \in 0..n
    BY <1>1
  <2> QED BY <2>1, <1>4, <1>9, <1>10
<1>12. ASSUME NEW i \in 1..n
       PROVE  Native!Current(at[i]) =
                  IF Boundary(i, every) THEN Times(LeadIn(p) + 1, packets[i])
                  ELSE Append(Native!Current(at[i - 1]), packets[i])
  <2>1. i - 1 \in 0..n
    BY <1>1
  <2>2. CASE Boundary(i, every)
    BY <2>1, <2>2, <1>4, <1>9, <1>10
  <2>3. CASE ~ Boundary(i, every)
    <3>1. i - 1 \in 1..n
      BY <2>3, <1>1 DEF Boundary
    <3>2. ~ at[i - 1].preroll
      BY <3>1, <1>11
    <3> QED BY <2>1, <2>3, <3>2, <1>4, <1>9, <1>10
  <2> QED BY <2>2, <2>3
<1> QED BY <1>12 DEF NativeGoesOn, at, n

\* What goes on packet by packet as a native stream does is that stream's.
LEMMA NativeStreamIs ==
    ASSUME NEW Frame, NEW p, NEW packets \in Seq(Frame), NEW every \in Nat,
           NEW out \in Seq(Seq(Frame)), Len(out) = Len(packets), Continues(out, packets, p, every)
    PROVE  out = NativeStream(p, packets, every)
<1> DEFINE n == Len(packets)
           at == Natives(p, packets, every)
           stream == [i \in 1..n |-> Native!Current(at[i])]
           P == {i \in Nat : i = 0 \/ out[i] = Native!Current(at[i])}
<1>1. n \in Nat /\ DOMAIN out = 1..n
  OBVIOUS
<1>2. \A i \in 1..n : Native!Current(at[i]) =
                          IF Boundary(i, every) THEN Times(LeadIn(p) + 1, packets[i])
                          ELSE Append(Native!Current(at[i - 1]), packets[i])
  <2>1. NativeGoesOn(Natives(p, packets, every), packets, p, every)
    BY NativesStep
  <2> QED BY <2>1 DEF NativeGoesOn
<1>3. \A i \in 1..n : out[i] = IF Boundary(i, every) THEN Times(LeadIn(p) + 1, packets[i])
                              ELSE Append(out[i - 1], packets[i])
  BY <1>1 DEF Continues
<1> HIDE DEF at, n
<1>4. ASSUME NEW i \in 0..n - 1, i \in P PROVE i + 1 \in P
  <2>1. i + 1 \in 1..n /\ i + 1 - 1 = i
    BY <1>1
  <2>2. CASE Boundary(i + 1, every)
    BY <2>1, <2>2, <1>2, <1>3
  <2>3. CASE ~ Boundary(i + 1, every)
    <3>1. i # 0
      BY <2>3 DEF Boundary
    <3>2. out[i] = Native!Current(at[i])
      BY <3>1, <1>4
    <3> QED BY <2>1, <2>3, <3>2, <1>2, <1>3
  <2> QED BY <2>2, <2>3
<1>5. \A i \in 0..n : i \in P
  <2>1. 0 \in P /\ P \in SUBSET Nat
    OBVIOUS
  <2> HIDE DEF P
  <2> QED BY <1>1, <1>4, <2>1, SameNative, NF!UpTo
<1>6. \A i \in 1..n : out[i] = Native!Current(at[i])
  <2>1. \A i \in 1..n : i \in 0..n /\ i # 0
    BY <1>1
  <2> QED BY <1>5, <2>1
<1>7. out = stream
  BY <1>1, <1>6
<1>8. NativeStream(p, packets, every) = stream
  BY DEF NativeStream, at, n
<1> QED BY <1>7, <1>8

\* One more packet: at the start of an epoch an object begins with the lead-in,
\* and anywhere else it goes on from what it holds.
Pushed(moved, Frame, object, f, i, every) ==
    /\ moved \in EndType(Frame)
    /\ moved.preroll = object.preroll
    /\ moved.states \in Seq(Frame)
    /\ Boundary(i + 1, every) => moved.states = Times(object.preroll + 1, f)
    /\ ~ Boundary(i + 1, every) /\ object.states # None =>
           moved.states = Append(object.states, f)

\* ... that is what push and pull do.
LEMMA PushGoesOn ==
    ASSUME NEW Frame, None \notin Seq(Frame), NEW object \in EndType(Frame), NEW f \in Frame,
           NEW n \in Nat, NEW every \in Nat, NEW i \in 0..n - 1
    PROVE  Pushed(Push(AtIndex(object, n, every, i), f), Frame, object, f, i, every)
<1> DEFINE met == AtIndex(object, n, every, i)
           lead == Lead(met, f)
           moved == Push(met, f)
<1>1. i \in EpochStarts(n, every) <=> Boundary(i + 1, every)
  BY DEF EpochStarts, Boundary
<1>2. object.preroll \in Nat /\ object.states \in {None} \cup Seq(Frame)
  BY DEF EndType
<1>3. met \in EndType(Frame) /\ met.preroll = object.preroll
  BY DEF AtIndex, Reset, EndType
<1>4. Boundary(i + 1, every) => met.states = None
  BY <1>1 DEF AtIndex, Reset, EndType
<1>5. ~ Boundary(i + 1, every) => met = object
  BY <1>1 DEF AtIndex
<1> HIDE DEF met
<1>6. /\ Times(object.preroll, f) \in Seq(Frame)
      /\ Append(Times(object.preroll, f), f) = Times(object.preroll + 1, f)
  <2>1. /\ NF!Times(object.preroll, f) \in Seq(Frame)
        /\ Append(NF!Times(object.preroll, f), f) = NF!Times(object.preroll + 1, f)
    BY <1>2, SameNative, NF!TimesType, NF!TimesAppend
  <2> QED BY <2>1, SameNative
<1>7. /\ lead \in Seq(Frame)
      /\ met.states = None => lead = Times(object.preroll, f)
      /\ met.states # None => lead = met.states
  BY <1>3, <1>6 DEF Lead, EndType
<1> HIDE DEF lead
<1>8. Append(lead, f) \in Seq(Frame)
  BY <1>7, AppendProperties
<1>9. moved = [met EXCEPT !.states = Append(lead, f)]
  BY DEF Push, lead
<1>10. /\ moved \in EndType(Frame) /\ moved.preroll = object.preroll
       /\ moved.states = Append(lead, f)
  <2> DEFINE x == Append(lead, f)
  <2>1. x \in Seq(Frame)
    BY <1>8
  <2>2. moved = [met EXCEPT !.states = x]
    BY <1>9
  <2> HIDE DEF x, moved
  <2>3. moved \in EndType(Frame) /\ moved.preroll = object.preroll /\ moved.states = x
    BY <1>3, <2>1, <2>2 DEF EndType
  <2> QED BY <2>3 DEF x
<1> HIDE DEF moved
<1>11. Boundary(i + 1, every) => moved.states = Times(object.preroll + 1, f)
  BY <1>4, <1>6, <1>7, <1>10
<1>12. ~ Boundary(i + 1, every) /\ object.states # None => moved.states = Append(object.states, f)
  BY <1>5, <1>7, <1>10
<1> QED BY <1>8, <1>10, <1>11, <1>12 DEF moved, met, Pushed

\* One more packet put out.
LEMMA ContinuesOn ==
    ASSUME NEW Frame, NEW out \in Seq(Seq(Frame)), NEW packets, NEW more, NEW p, NEW every \in Nat,
           Continues(out, packets, p, every), NEW x \in Seq(Frame),
           \A i \in 1..Len(out) : more[i] = packets[i],
           LET f == more[Len(out) + 1]
           IN  x = IF Boundary(Len(out) + 1, every) THEN Times(LeadIn(p) + 1, f)
                   ELSE Append(out[Len(out)], f)
    PROVE  Continues(Append(out, x), more, p, every)
<1> DEFINE n == Len(out)
           new == Append(out, x)
<1>1. /\ n \in Nat /\ DOMAIN new = 1..n + 1 /\ DOMAIN out = 1..n
      /\ new[n + 1] = x /\ \A i \in 1..n : new[i] = out[i]
  BY AppendProperties
<1> HIDE DEF new
<1>2. ASSUME NEW i \in 1..n + 1
      PROVE  new[i] = IF Boundary(i, every) THEN Times(LeadIn(p) + 1, more[i])
                      ELSE Append(new[i - 1], more[i])
  <2>1. CASE i = n + 1
    <3>1. ~ Boundary(i, every) => n \in 1..n /\ i - 1 = n
      BY <2>1, <1>1 DEF Boundary
    <3> QED BY <2>1, <3>1, <1>1
  <2>2. CASE i # n + 1
    <3>1. i \in 1..n
      BY <2>2, <1>1
    <3>2. ~ Boundary(i, every) => i - 1 \in 1..n
      BY <3>1, <1>1 DEF Boundary
    <3> QED BY <3>1, <3>2, <1>1 DEF Continues
  <2> QED BY <2>1, <2>2
<1> QED BY <1>1, <1>2 DEF Continues, new

\* The value of None is neither a code packet nor what one is decoded on.
LEMMA NoneIsNoSequence == None \notin Seq(Nat) /\ None \notin Seq(Seq(Nat))
  BY EpochStreamAssumption

\* The first packet may be any; before it there is nothing to go on from.
LEMMA NothingYet ==
    ASSUME NEW Frame, NEW packets, NEW p, NEW every
    PROVE  /\ Continues(<< >>, packets, p, every)
           /\ << >> \in Seq(Seq(Frame)) /\ Len(<< >>) = 0
  BY EmptySeq DEF Continues

\* Before the profiles are selected nothing is encoded.
LEMMA EpochInitInv == Init => EpochInv
<1> SUFFICES ASSUME Init PROVE EpochInv
  OBVIOUS
<1>1. /\ stage = "select" /\ profile = [s \in Sides |-> Refused] /\ length = 0 /\ epoch = 0
      /\ enc = Created("C0") /\ dec = Created("C0") /\ coded = << >> /\ played = << >>
  BY DEF Init
<1>2. Created("C0") \in EndType(Nat) /\ Created("C0") \in EndType(Seq(Nat))
  BY DEF Created, LeadIn, EndType
<1>3. Created("C0").preroll = 0 /\ LeadIn(Refused) = 0
  BY DEF Created, LeadIn, Refused
<1>4. profile["encoder"] = Refused /\ profile["decoder"] = Refused
  BY <1>1 DEF Sides
<1>5. EpochTypeOK
  BY <1>1, <1>2, EmptySeq DEF EpochTypeOK
<1>6. /\ EndStands(enc, coded, [i \in 1..Len(coded) |-> Packet(i)], profile["encoder"])
      /\ EndStands(dec, played, coded, profile["decoder"])
  BY <1>1, <1>3, <1>4, NothingYet DEF EndStands
<1> QED BY <1>1, <1>5, <1>6 DEF EpochInv

\* A profile that is selected is one of the two, or it is refused.
LEMMA SelectsAProfile ==
    ASSUME SelectByLink \/ SelectByFile
    PROVE  profile' \in [Sides -> DOMAIN Marker \cup {Refused}]
<1>1. DOMAIN Marker = {"C0", "C5R4"}
  BY DEF Marker
<1>2. CASE SelectByLink
  <2>1. profile' = [s \in Sides |-> Selected(s)]
    BY <1>2 DEF SelectByLink
  <2>2. \A s \in Sides : Selected(s) \in {"C0", "C5R4", Refused}
    BY DEF Selected, Negotiate
  <2> QED BY <1>1, <2>1, <2>2
<1>3. CASE SelectByFile
  <2>p. PICK p \in DOMAIN Marker : \E h \in {HeaderOf(p)} \cup Damaged(HeaderOf(p)) :
            profile' = [encoder |-> p, decoder |-> HeaderProfile(h)]
    BY <1>3 DEF SelectByFile
  <2>1. PICK h \in {HeaderOf(p)} \cup Damaged(HeaderOf(p)) :
            profile' = [encoder |-> p, decoder |-> HeaderProfile(h)]
    BY <2>p
  <2>2. HeaderProfile(h) \in {Refused, p}
    BY HeaderNamesItsProfile
  <2> QED BY <2>1, <2>2 DEF Sides
<1> QED BY <1>2, <1>3

\* EndType are made for the profiles that were selected.
LEMMA SelectStarts ==
    ASSUME EpochInv, SelectByLink \/ SelectByFile PROVE EpochInv'
<1>1. /\ stage = "select" /\ enc' = Created(profile'["encoder"]) /\ dec' = Created(profile'["decoder"])
      /\ stage' \in {"done", "encode"} /\ length' \in 0..MaxPackets /\ epoch' \in EpochPackets
      /\ UNCHANGED <<coded, played>>
  BY DEF SelectByLink, SelectByFile, Start
<1>2. coded' = << >> /\ played' = << >>
  BY <1>1 DEF EpochInv
<1>3. length' \in Nat /\ epoch' \in Nat
  BY <1>1, EpochStreamAssumption
<1>4. \A p : LeadIn(p) \in Nat
  BY EpochStreamAssumption DEF LeadIn
<1>5. \A p : /\ Created(p) \in EndType(Nat) /\ Created(p) \in EndType(Seq(Nat))
             /\ Created(p).preroll = LeadIn(p)
  BY <1>4 DEF Created, EndType
<1>6. EpochTypeOK'
  BY <1>1, <1>2, <1>3, <1>5, SelectsAProfile, EmptySeq DEF EpochTypeOK
<1>7. /\ EndStands(enc, coded, [i \in 1..Len(coded) |-> Packet(i)], profile["encoder"])'
      /\ EndStands(dec, played, coded, profile["decoder"])'
  BY <1>1, <1>2, <1>5, NothingYet DEF EndStands
<1>8. Len(coded') <= length' /\ Len(played') <= Len(coded')
  BY <1>2, <1>3
<1> QED BY <1>1, <1>2, <1>6, <1>7, <1>8 DEF EpochInv

\* The encoder encodes one more packet.
LEMMA EncodeKeeps == ASSUME EpochInv, Encode PROVE EpochInv'
<1> DEFINE n == Len(coded)
           moved == Push(AtIndex(enc, length, epoch, n), Packet(n + 1))
           p == profile["encoder"]
           earlier == [i \in 1..n |-> Packet(i)]
           more == [i \in 1..n + 1 |-> Packet(i)]
<1>1. /\ stage = "encode" /\ n < length /\ enc' = moved /\ coded' = Append(coded, moved.states)
      /\ UNCHANGED <<profile, stage, length, epoch, dec, played>>
  BY DEF Encode
<1>2. /\ n \in Nat /\ length \in Nat /\ epoch \in Nat /\ n \in 0..length - 1
      /\ enc \in EndType(Nat) /\ coded \in Seq(Seq(Nat)) /\ played = << >>
  BY <1>1 DEF EpochInv, EpochTypeOK
<1>3. /\ enc.preroll = LeadIn(p) /\ Continues(coded, earlier, p, epoch)
      /\ coded # << >> => enc.states = coded[n]
  BY DEF EpochInv, EndStands
<1>4. Packet(n + 1) \in Nat
  BY <1>2 DEF Packet
<1>5. Pushed(moved, Nat, enc, Packet(n + 1), n, epoch)
  BY <1>2, <1>4, NoneIsNoSequence, PushGoesOn
<1> HIDE DEF moved
<1>6. ~ Boundary(n + 1, epoch) => coded # << >> /\ enc.states = coded[n] /\ enc.states # None
  <2>1. ~ Boundary(n + 1, epoch) => n \in 1..n
    BY <1>2 DEF Boundary
  <2>2. \A i \in 1..n : coded[i] \in Seq(Nat) /\ coded # << >>
    BY <1>2
  <2> QED BY <1>3, <2>1, <2>2, NoneIsNoSequence
<1>7. /\ coded' \in Seq(Seq(Nat)) /\ Len(coded') = n + 1 /\ coded'[n + 1] = moved.states
  BY <1>1, <1>2, <1>5, AppendProperties DEF Pushed
<1>8. Continues(coded', more, p, epoch)
  <2>1. \A i \in 1..n : more[i] = earlier[i]
    BY <1>2
  <2>2. more[n + 1] = Packet(n + 1)
    BY <1>2
  <2>3. moved.states = IF Boundary(n + 1, epoch) THEN Times(LeadIn(p) + 1, more[n + 1])
                       ELSE Append(coded[n], more[n + 1])
    BY <1>3, <1>5, <1>6, <2>2 DEF Pushed
  <2> HIDE DEF more, earlier, p
  <2>4. Continues(Append(coded, moved.states), more, p, epoch)
    BY <1>2, <1>3, <1>5, <2>1, <2>3, ContinuesOn DEF Pushed
  <2> QED BY <1>1, <2>4
<1>9. EndStands(enc, coded, [i \in 1..Len(coded) |-> Packet(i)], profile["encoder"])'
  BY <1>1, <1>3, <1>5, <1>7, <1>8 DEF EndStands, Pushed
<1>10. EndStands(dec, played, coded, profile["decoder"])'
  BY <1>1, <1>2, NothingYet DEF EndStands, EpochInv
<1>11. EpochTypeOK'
  BY <1>1, <1>5, <1>7 DEF EpochInv, EpochTypeOK, Pushed
<1>12. Len(coded') <= length' /\ Len(played') <= Len(coded')
  BY <1>1, <1>2, <1>7
<1> QED BY <1>1, <1>2, <1>9, <1>10, <1>11, <1>12 DEF EpochInv

\* The decoder decodes one more packet.
LEMMA DecodeKeeps == ASSUME EpochInv, Decode PROVE EpochInv'
<1> DEFINE n == Len(played)
           F == Seq(Nat)
           moved == Pull(AtIndex(dec, length, epoch, n), coded[n + 1])
           p == profile["decoder"]
<1>1. /\ stage = "decode" /\ n < length /\ dec' = moved /\ played' = Append(played, moved.states)
      /\ UNCHANGED <<profile, stage, length, epoch, enc, coded>>
  BY DEF Decode
<1>2. /\ n \in Nat /\ length \in Nat /\ epoch \in Nat /\ n \in 0..length - 1
      /\ dec \in EndType(F) /\ played \in Seq(Seq(F)) /\ coded \in Seq(F) /\ Len(coded) = length
  BY <1>1 DEF EpochInv, EpochTypeOK
<1>3. /\ dec.preroll = LeadIn(p) /\ Continues(played, coded, p, epoch)
      /\ played # << >> => dec.states = played[n]
  BY DEF EpochInv, EndStands
<1>4. coded[n + 1] \in F
  <2>1. n + 1 \in 1..Len(coded)
    BY <1>2
  <2> QED BY <1>2, <2>1
<1>5. Pushed(moved, F, dec, coded[n + 1], n, epoch)
  BY <1>2, <1>4, NoneIsNoSequence, PushGoesOn DEF Pull
<1> HIDE DEF moved
<1>6. ~ Boundary(n + 1, epoch) => dec.states = played[n] /\ dec.states # None
  <2>1. ~ Boundary(n + 1, epoch) => n \in 1..n
    BY <1>2 DEF Boundary
  <2>2. \A i \in 1..n : played[i] \in Seq(F) /\ played # << >>
    BY <1>2
  <2> QED BY <1>3, <2>1, <2>2, NoneIsNoSequence
<1>7. /\ played' \in Seq(Seq(F)) /\ Len(played') = n + 1 /\ played'[n + 1] = moved.states
  BY <1>1, <1>2, <1>5, AppendProperties DEF Pushed
<1>8. Continues(played', coded, p, epoch)
  <2>3. moved.states = IF Boundary(n + 1, epoch) THEN Times(LeadIn(p) + 1, coded[n + 1])
                       ELSE Append(played[n], coded[n + 1])
    BY <1>3, <1>5, <1>6 DEF Pushed
  <2>5. moved.states \in Seq(F)
    BY <1>5 DEF Pushed
  <2> HIDE DEF p, F
  <2>4. Continues(Append(played, moved.states), coded, p, epoch)
    BY <1>2, <1>3, <2>3, <2>5, ContinuesOn
  <2> QED BY <1>1, <2>4
<1>9. EndStands(dec, played, coded, profile["decoder"])'
  BY <1>1, <1>3, <1>5, <1>7, <1>8 DEF EndStands, Pushed
<1>10. EndStands(enc, coded, [i \in 1..Len(coded) |-> Packet(i)], profile["encoder"])'
  BY <1>1 DEF EndStands, EpochInv
<1>11. EpochTypeOK'
  BY <1>1, <1>5, <1>7 DEF EpochInv, EpochTypeOK, Pushed
<1>12. Len(coded') <= length' /\ Len(played') <= Len(coded')
  BY <1>1, <1>2, <1>7
<1> QED BY <1>1, <1>2, <1>9, <1>10, <1>11, <1>12 DEF EpochInv

\* An object that a run has left half way is an object of the same profile.
LEMMA RaisesLeaveAnObject ==
    ASSUME NEW Frame, NEW object \in EndType(Frame), NEW f \in Frame,
           NEW n, NEW every, NEW i,
           NEW left \in PushRaises(AtIndex(object, n, every, i), f)
    PROVE  left \in EndType(Frame) /\ left.preroll = object.preroll
<1> DEFINE met == AtIndex(object, n, every, i)
           lead == Lead(met, f)
<1>1. met \in EndType(Frame) /\ met.preroll = object.preroll
  BY DEF AtIndex, Reset, EndType
<1>2. left \in PushRaises(met, f)
  OBVIOUS
<1> HIDE DEF met
<1>3. lead \in Seq(Frame)
  <2>1. NF!Times(met.preroll, f) \in Seq(Frame)
    BY <1>1, SameNative, NF!TimesType DEF EndType
  <2> QED BY <1>1, <2>1, SameNative DEF Lead, EndType
<1> HIDE DEF lead
<1>4. Append(lead, f) \in Seq(Frame)
  BY <1>3, AppendProperties
<1>5. ASSUME NEW x \in Seq(Frame)
      PROVE  /\ [met EXCEPT !.states = x] \in EndType(Frame)
             /\ [met EXCEPT !.states = x].preroll = object.preroll
  BY <1>1 DEF EndType
<1>6. PushRaises(met, f) = {met, [met EXCEPT !.states = lead], [met EXCEPT !.states = Append(lead, f)]}
  BY DEF PushRaises, Primed, Push, lead
<1> QED BY <1>1, <1>2, <1>3, <1>4, <1>5, <1>6

\* A run of the encoder raises: what was encoded is lost, and the object stays.
LEMMA EncodeRaisesKeeps == ASSUME EpochInv, EncodeRaises PROVE EpochInv'
<1> DEFINE f == Packet(Len(coded) + 1)
           F == Nat
<1>1. /\ stage = "encode" /\ enc' \in PushRaises(AtIndex(enc, length, epoch, Len(coded)), f)
      /\ coded' = << >> /\ UNCHANGED <<profile, stage, length, epoch, dec, played>>
  BY DEF EncodeRaises
<1>2. enc \in EndType(F) /\ length \in Nat /\ f \in F /\ played = << >>
  BY <1>1 DEF EpochInv, EpochTypeOK, Packet
<1> HIDE DEF f, F
<1>3. enc' \in EndType(F) /\ enc'.preroll = enc.preroll
  BY <1>1, <1>2, RaisesLeaveAnObject
<1>4. /\ EndStands(enc, coded, [i \in 1..Len(coded) |-> Packet(i)], profile["encoder"])'
      /\ EndStands(dec, played, coded, profile["decoder"])'
  BY <1>1, <1>2, <1>3, NothingYet DEF EpochInv, EndStands
<1>5. EpochTypeOK'
  BY <1>1, <1>3, EmptySeq DEF EpochInv, EpochTypeOK, F
<1>6. Len(coded') <= length' /\ Len(played') <= Len(coded')
  BY <1>1, <1>2
<1> QED BY <1>1, <1>2, <1>4, <1>5, <1>6 DEF EpochInv

\* A run of the decoder raises.
LEMMA DecodeRaisesKeeps == ASSUME EpochInv, DecodeRaises PROVE EpochInv'
<1> DEFINE f == coded[Len(played) + 1]
           F == Seq(Nat)
<1>1. /\ stage = "decode" /\ dec' \in PullRaises(AtIndex(dec, length, epoch, Len(played)), f)
      /\ Len(played) < length
      /\ played' = << >> /\ UNCHANGED <<profile, stage, length, epoch, enc, coded>>
  BY DEF DecodeRaises
<1>2. dec \in EndType(F) /\ coded \in Seq(F) /\ Len(coded) = length /\ Len(played) \in Nat
  BY <1>1 DEF EpochInv, EpochTypeOK
<1>3. f \in F
  <2>1. Len(played) + 1 \in 1..Len(coded)
    BY <1>1, <1>2
  <2> QED BY <1>2, <2>1
<1>4. dec' \in PushRaises(AtIndex(dec, length, epoch, Len(played)), f)
  BY <1>1 DEF PullRaises, PushRaises
<1> HIDE DEF f, F
<1>5. dec' \in EndType(F) /\ dec'.preroll = dec.preroll
  BY <1>2, <1>3, <1>4, RaisesLeaveAnObject
<1>6. /\ EndStands(enc, coded, [i \in 1..Len(coded) |-> Packet(i)], profile["encoder"])'
      /\ EndStands(dec, played, coded, profile["decoder"])'
  BY <1>1, <1>5, NothingYet DEF EpochInv, EndStands
<1>7. EpochTypeOK'
  BY <1>1, <1>5, EmptySeq DEF EpochInv, EpochTypeOK, F
<1>8. Len(coded') <= length' /\ Len(played') <= Len(coded')
  BY <1>1, <1>2
<1> QED BY <1>1, <1>6, <1>7, <1>8 DEF EpochInv

\* A stream ends, or nothing happens.
LEMMA EpochStays ==
    ASSUME EpochInv, Encoded \/ Decoded \/ UNCHANGED vars PROVE EpochInv'
<1>1. /\ UNCHANGED <<profile, length, epoch, enc, dec, coded, played>>
      /\ \/ stage' = stage
         \/ stage = "encode" /\ stage' \in {"decode", "done"} /\ Len(coded) = length
         \/ stage = "decode" /\ stage' = "done"
  BY DEF Encoded, Decoded, vars
<1>2. /\ EndStands(enc, coded, [i \in 1..Len(coded) |-> Packet(i)], profile["encoder"])'
      /\ EndStands(dec, played, coded, profile["decoder"])'
  BY <1>1 DEF EpochInv, EndStands
<1>3. EpochTypeOK'
  BY <1>1 DEF EpochInv, EpochTypeOK
<1> QED BY <1>1, <1>2, <1>3 DEF EpochInv

\* Both ends of the tool stand behind what they have put out, whatever raised.
THEOREM EpochInvariant == Spec => []EpochInv
<1>1. EpochInv /\ [Next]_vars => EpochInv'
  BY SelectStarts, EncodeKeeps, EncodeRaisesKeeps, DecodeKeeps, DecodeRaisesKeeps, EpochStays DEF Next
<1> QED BY <1>1, EpochInitInv, PTL DEF Spec

\* The tool hears what the library would: packet by packet both of its ends run
\* what a native stream of the profile runs, for every length, epoch length and
\* lead-in, also after runs that raised on the same objects.
THEOREM EpochAsTheNativeStream == Spec => []AsTheNativeStream
<1>1. ASSUME EpochInv PROVE AsTheNativeStream
  <2> DEFINE n == Len(coded)
             m == Len(played)
             audio == [i \in 1..n |-> Packet(i)]
             heard == SubSeq(coded, 1, m)
             F == Seq(Nat)
  <2>1. /\ n \in Nat /\ m \in Nat /\ m <= n /\ epoch \in Nat
        /\ coded \in Seq(F) /\ played \in Seq(Seq(F))
        /\ Continues(coded, audio, profile["encoder"], epoch)
        /\ Continues(played, coded, profile["decoder"], epoch)
    BY <1>1 DEF EpochInv, EpochTypeOK, EndStands
  <2>2. audio \in Seq(Nat) /\ Len(audio) = n
    BY <2>1 DEF Packet
  <2>3. heard \in Seq(F) /\ Len(heard) = m /\ \A i \in 1..m : heard[i] = coded[i]
    BY <2>1, SubSeqProperties
  <2>4. Continues(played, heard, profile["decoder"], epoch)
    <3>1. DOMAIN played = 1..m
      BY <2>1
    <3> HIDE DEF heard, m
    <3> QED BY <2>1, <2>3, <3>1 DEF Continues
  <2> HIDE DEF audio, heard, n, m
  <2>5. coded = NativeStream(profile["encoder"], audio, epoch)
    BY <2>1, <2>2, NativeStreamIs DEF n
  <2> HIDE DEF F
  <2>6. played = NativeStream(profile["decoder"], heard, epoch)
    BY <2>1, <2>3, <2>4, NativeStreamIs DEF m
  <2> QED BY <2>5, <2>6 DEF AsTheNativeStream, audio, heard, n, m
<1> QED BY <1>1, EpochInvariant, PTL

-----------------------------------------------------------------------------
(* The lookahead probe *)

\* h begins with a and takes the steps of G.
TakesSteps(h, S, a, n, G) ==
    h \in [0..n -> S] /\ h[0] = a /\ \A i \in 1..n : h[i] = G[i][h[i - 1]]

\* Steps of KencNativeProofs, whatever a native stream is.
LEMMA ToolSteps ==
    ASSUME NEW S, NEW a \in S, NEW n \in Nat, NEW G \in [1..n -> [S -> S]]
    PROVE  \E h : TakesSteps(h, S, a, n, G)
<1>1. NF!PrerollAssumption
  BY SameNative
<1>2. \E h \in [0..n -> S] : h[0] = a /\ \A i \in 1..n : h[i] = G[i][h[i - 1]]
  BY <1>1, NF!Steps
<1> QED BY <1>2 DEF TakesSteps

\* The objects of a stream, one after each packet.
MovesOn(at, object, packets, every) ==
    /\ at[0] = object
    /\ \A i \in 1..Len(packets) :
          at[i] = Push(AtIndex(at[i - 1], Len(packets), every, i - 1), packets[i])

\* ... each is the one before it, run on one packet more.
LEMMA MovedStep ==
    ASSUME NEW Frame, None \notin Seq(Frame), NEW object \in EndType(Frame),
           NEW packets \in Seq(Frame), NEW every \in Nat
    PROVE  /\ MovesOn(Moved(object, packets, every), object, packets, every)
           /\ \A i \in 1..Len(packets) : Moved(object, packets, every)[i].states \in Seq(Frame)
<1> DEFINE n == Len(packets)
           at == Moved(object, packets, every)
           T == EndType(Frame)
           Step(i, x) == Push(AtIndex(x, n, every, i - 1), packets[i])
           G == [i \in 1..n |-> [x \in T |-> Step(i, x)]]
<1>1. n \in Nat /\ \A i \in 1..n : packets[i] \in Frame
  OBVIOUS
<1>2. ASSUME NEW x \in T, NEW i \in 1..n
      PROVE  Step(i, x) \in T /\ Step(i, x).states \in Seq(Frame)
  <2>1. i - 1 \in 0..n - 1 /\ packets[i] \in Frame /\ n \in Nat
    BY <1>1
  <2> HIDE DEF n
  <2>2. Pushed(Push(AtIndex(x, n, every, i - 1), packets[i]), Frame, x, packets[i], i - 1, every)
    BY <2>1, PushGoesOn
  <2> QED BY <2>2 DEF Pushed
<1>3. PICK h : TakesSteps(h, T, object, n, G)
  <2>1. G \in [1..n -> [T -> T]]
    BY <1>2
  <2>2. n \in Nat /\ object \in T
    BY <1>1
  <2> HIDE DEF G, T, n
  <2> QED BY ONLY <2>1, <2>2, ToolSteps
<1>4. ASSUME NEW i \in 1..n PROVE h[i - 1] \in T /\ h[i] \in T /\ h[i] = Step(i, h[i - 1])
  <2>1. i - 1 \in 0..n /\ i \in 0..n
    BY <1>1
  <2> HIDE DEF T, Step
  <2> QED BY <1>3, <2>1 DEF TakesSteps
<1> HIDE DEF Step, G, T
<1>5. h = [i \in 0..n |-> IF i = 0 THEN object ELSE Step(i, h[i - 1])]
  <2>1. \A i \in 0..n : i # 0 => i \in 1..n
    BY <1>1
  <2> QED BY <1>3, <1>4, <2>1 DEF TakesSteps
<1>6. at = [i \in 0..n |-> IF i = 0 THEN object ELSE Step(i, at[i - 1])]
  <2>1. at = CHOOSE g : g = [i \in 0..n |-> IF i = 0 THEN object ELSE Step(i, g[i - 1])]
    BY DEF Moved, Step
  <2> HIDE DEF at
  <2> QED BY <1>5, <2>1
<1> HIDE DEF at
<1>7. at[0] = object /\ \A i \in 1..n : at[i] = Step(i, at[i - 1])
  <2>1. 0 \in 0..n /\ \A i \in 1..n : i \in 0..n /\ i # 0
    BY <1>1
  <2> QED BY <1>6, <2>1
<1>8. \A i \in 0..n : at[i] \in T
  <2> DEFINE P == {i \in Nat : at[i] \in T}
  <2>1. 0 \in P
    BY <1>7 DEF T
  <2>2. ASSUME NEW i \in 0..n - 1, i \in P PROVE i + 1 \in P
    <3>1. i + 1 \in 1..n /\ i + 1 - 1 = i /\ at[i] \in T
      BY <1>1, <2>2
    <3> QED BY <3>1, <1>2, <1>7
  <2>3. P \in SUBSET Nat
    OBVIOUS
  <2> HIDE DEF P
  <2>4. \A i \in 0..n : i \in P
    BY <1>1, <2>1, <2>2, <2>3, SameNative, NF!UpTo
  <2> QED BY <2>4 DEF P
<1>9. \A i \in 1..n : at[i].states \in Seq(Frame)
  <2>1. \A i \in 1..n : i - 1 \in 0..n
    BY <1>1
  <2> QED BY <2>1, <1>2, <1>7, <1>8
<1>10. MovesOn(at, object, packets, every)
  BY <1>7 DEF MovesOn, Step, n
<1> QED BY <1>9, <1>10 DEF at, n

\* Two streams with the same first k packets.
Agree(a, b, k) == \A i \in 1..k : a[i] = b[i]

\* What a stream returns up to a packet depends on what came up to it.
LEMMA StreamIsCausal ==
    ASSUME NEW Frame, None \notin Seq(Frame), NEW object \in EndType(Frame), NEW every \in Nat,
           NEW a \in Seq(Frame), NEW b \in Seq(Frame), Len(a) = Len(b),
           NEW k \in 0..Len(a), Agree(a, b, k)
    PROVE  /\ Stream(object, a, every) \in Seq(Seq(Frame))
           /\ Len(Stream(object, a, every)) = Len(a)
           /\ Agree(Stream(object, a, every), Stream(object, b, every), k)
<1> DEFINE n == Len(a)
           at == Moved(object, a, every)
           bt == Moved(object, b, every)
<1>1. /\ MovesOn(at, object, a, every) /\ MovesOn(bt, object, b, every)
      /\ \A i \in 1..n : at[i].states \in Seq(Frame)
  BY MovedStep
<1>2. /\ Stream(object, a, every) = [i \in 1..n |-> at[i].states]
      /\ Stream(object, b, every) = [i \in 1..n |-> bt[i].states]
  BY DEF Stream
<1>3. n \in Nat /\ k \in 0..n
  OBVIOUS
<1>4. at[0] = bt[0] /\ \A i \in 1..k : at[i - 1] = bt[i - 1] => at[i] = bt[i]
  <2>1. \A i \in 1..k : i \in 1..n
    BY <1>3
  <2> QED BY <1>1, <2>1 DEF MovesOn, Agree
<1> HIDE DEF at, bt, n
<1>5. \A i \in 0..k : at[i] = bt[i]
  <2> DEFINE P == {i \in Nat : at[i] = bt[i]}
  <2>1. 0 \in P /\ P \in SUBSET Nat
    BY <1>4
  <2>2. ASSUME NEW i \in 0..k - 1, i \in P PROVE i + 1 \in P
    <3>1. i + 1 \in 1..k /\ i + 1 - 1 = i /\ at[i] = bt[i]
      BY <1>3, <2>2
    <3> QED BY <3>1, <1>4
  <2> HIDE DEF P
  <2>4. k \in Nat
    BY <1>3
  <2>3. \A i \in 0..k : i \in P
    BY <2>4, <2>1, <2>2, SameNative, NF!UpTo
  <2> QED BY <2>3 DEF P
<1>6. \A i \in 1..k : i \in 1..n /\ i \in 0..k
  BY <1>3
<1>7. [i \in 1..n |-> at[i].states] \in Seq(Seq(Frame))
  BY <1>1, <1>3
<1> QED BY <1>2, <1>3, <1>5, <1>6, <1>7 DEF n, Agree

-----------------------------------------------------------------------------
\* The source of the probe, its segment before a probe's margin, and the segment
\* with noise behind a depth.
Audio == [i \in 1..MaxPackets + Margin |-> Packet(i)]

\* A probe has its margin in the source.
LEMMA SegmentIs ==
    ASSUME NEW p \in 0..MaxPackets, NEW d \in 0..3
    PROVE  /\ Segment(Audio, p) \in Seq(Nat) /\ Len(Segment(Audio, p)) = p + Margin
           /\ \A i \in 1..p + Margin : Segment(Audio, p)[i] = i
           /\ Perturbed(Segment(Audio, p), p, d) \in Seq(Nat)
           /\ Len(Perturbed(Segment(Audio, p), p, d)) = p + Margin
           /\ \A i \in 1..p + Margin :
                 Perturbed(Segment(Audio, p), p, d)[i] = IF i > p + d + 1 THEN 0 ELSE i
<1>1. MaxPackets \in Nat /\ Margin \in Nat /\ p \in Nat /\ p + Margin \in Nat
  BY EpochStreamAssumption
<1>2. \A i \in 1..p + Margin : Audio[i] = i /\ Audio[i] \in Nat
  BY <1>1 DEF Audio, Packet
<1> DEFINE s == Segment(Audio, p)
<1>3. s \in Seq(Nat) /\ Len(s) = p + Margin /\ \A i \in 1..p + Margin : s[i] = i
  <2>1. s = SubSeq(Audio, 1, p + Margin) /\ p + Margin \in Int /\ 1 \in Int
    BY <1>1 DEF Segment
  <2> HIDE DEF s
  <2> QED BY <1>1, <1>2, <2>1, SubSeqProperties
<1> HIDE DEF s
<1>4. DOMAIN s = 1..p + Margin
  BY <1>3
<1>5. Perturbed(s, p, d) = [i \in 1..p + Margin |-> IF i > p + d + 1 THEN 0 ELSE i]
  BY <1>3, <1>4 DEF Perturbed
<1>6. /\ Perturbed(s, p, d) \in Seq(Nat) /\ Len(Perturbed(s, p, d)) = p + Margin
  BY <1>1, <1>5
<1> QED BY <1>3, <1>5, <1>6 DEF s

\* All that the probe renders.
LEMMA ProbedAre ==
    ASSUME NEW p \in 0..MaxPackets, NEW d \in 0..3
    PROVE  LET audio == Probed(Audio, 0..MaxPackets, 0..3)
           IN  Segment(Audio, p) \in audio /\ Perturbed(Segment(Audio, p), p, d) \in audio
  BY DEF Probed

\* The first parts of two sequences.
LEMMA FirstParts ==
    ASSUME NEW S, NEW s \in Seq(S), NEW t \in Seq(S), NEW k \in Nat, k <= Len(s), k <= Len(t)
    PROVE  SubSeq(s, 1, k) = SubSeq(t, 1, k) <=> \A i \in 1..k : s[i] = t[i]
<1>1. \A i \in 1..k : s[i] \in S /\ t[i] \in S
  OBVIOUS
<1>2. /\ SubSeq(s, 1, k) \in Seq(S) /\ Len(SubSeq(s, 1, k)) = k
      /\ \A i \in 1..k : SubSeq(s, 1, k)[i] = s[i]
  BY <1>1, SubSeqProperties
<1>3. /\ SubSeq(t, 1, k) \in Seq(S) /\ Len(SubSeq(t, 1, k)) = k
      /\ \A i \in 1..k : SubSeq(t, 1, k)[i] = t[i]
  BY <1>1, SubSeqProperties
<1>4. (\A i \in 1..k : s[i] = t[i]) => SubSeq(s, 1, k) = SubSeq(t, 1, k)
  BY <1>2, <1>3, SeqEqual
<1> QED BY <1>2, <1>3, <1>4

\* The probe reports the least depth that no output notices.
LEMMA MeasuresTheLeast ==
    ASSUME NEW render, NEW source, NEW probes, NEW d \in 0..3,
           \A p \in probes : Unmoved(render, source, p, d),
           \A e \in 0..3 : e < d => \E p \in probes : ~ Unmoved(render, source, p, e)
    PROVE  AddedLookahead(render, source, probes, 0..3) = d
<1> DEFINE unmoved == {e \in 0..3 : \A p \in probes : Unmoved(render, source, p, e)}
<1>1. d \in unmoved /\ \A e \in unmoved : d <= e
  OBVIOUS
<1>2. unmoved \subseteq 0..3
  OBVIOUS
<1>3. AddedLookahead(render, source, probes, 0..3)
        = IF unmoved = {} THEN None ELSE CHOOSE x \in unmoved : \A e \in unmoved : x <= e
  BY DEF AddedLookahead
<1> HIDE DEF unmoved
<1>4. \A x \in unmoved : (\A e \in unmoved : x <= e) => x = d
  BY <1>1, <1>2
<1>5. (CHOOSE x \in unmoved : \A e \in unmoved : x <= e) = d
  BY <1>1, <1>4
<1> QED BY <1>1, <1>3, <1>5

\* A rendering that looks d packets ahead notices what is less far, and no more.
LEMMA AheadIsMoved ==
    ASSUME NEW d \in 1..4, NEW e \in 0..3, NEW p \in 0..MaxPackets
    PROVE  Unmoved(Ahead(Probed(Audio, 0..MaxPackets, 0..3), d), Audio, p, e) <=> d <= e
<1> DEFINE audio == Probed(Audio, 0..MaxPackets, 0..3)
           render == Ahead(audio, d)
           s == Segment(Audio, p)
           t == Perturbed(s, p, e)
           n == p + Margin
           A(x) == [i \in DOMAIN x |-> IF i + d \in DOMAIN x THEN x[i + d] ELSE 0]
<1>1. /\ n \in Nat /\ p \in Nat /\ p + 1 + d <= n /\ Margin \in Nat
  BY EpochStreamAssumption
<1>2. /\ s \in audio /\ t \in audio
  BY ProbedAre
<1>3. /\ s \in Seq(Nat) /\ Len(s) = n /\ \A i \in 1..n : s[i] = i
      /\ t \in Seq(Nat) /\ Len(t) = n
      /\ \A i \in 1..n : t[i] = IF i > p + e + 1 THEN 0 ELSE i
  BY SegmentIs
<1>4. render[s] = A(s) /\ render[t] = A(t)
  <2> HIDE DEF audio, s, t
  <2> QED BY <1>2 DEF Ahead
<1>5. Unmoved(render, Audio, p, e) <=> SubSeq(render[s], 1, p + 1) = SubSeq(render[t], 1, p + 1)
  BY DEF Unmoved
<1> HIDE DEF audio, render, s, t, n
<1>6. DOMAIN s = 1..n /\ DOMAIN t = 1..n
  BY <1>3
<1>7. /\ A(s) \in Seq(Nat) /\ Len(A(s)) = n
      /\ A(t) \in Seq(Nat) /\ Len(A(t)) = n
  BY <1>1, <1>3, <1>6
<1>8. ASSUME NEW i \in 1..p + 1
      PROVE  A(s)[i] = i + d /\ A(t)[i] = IF i + d > p + e + 1 THEN 0 ELSE i + d
  <2>1. i \in 1..n /\ i + d \in 1..n
    BY <1>1
  <2> QED BY <1>3, <1>6, <2>1
<1> HIDE DEF A
<1>9. SubSeq(A(s), 1, p + 1) = SubSeq(A(t), 1, p + 1) <=> \A i \in 1..p + 1 : A(s)[i] = A(t)[i]
  <2>1. p + 1 \in Nat /\ p + 1 <= n
    BY <1>1
  <2> QED BY <1>7, <2>1, FirstParts
<1>10. (\A i \in 1..p + 1 : A(s)[i] = A(t)[i]) <=> d <= e
  <2>1. ASSUME d <= e, NEW i \in 1..p + 1 PROVE A(s)[i] = A(t)[i]
    BY <1>1, <1>8, <2>1
  <2>2. ASSUME e < d PROVE A(s)[p + 1] # A(t)[p + 1]
    <3>1. p + 1 \in 1..p + 1 /\ p + 1 + d > p + e + 1 /\ p + 1 + d # 0
      BY <1>1, <2>2
    <3> QED BY <1>8, <3>1
  <2>3. p + 1 \in 1..p + 1 /\ (d <= e \/ e < d)
    BY <1>1
  <2> QED BY <2>1, <2>2, <2>3
<1>11. SubSeq(render[s], 1, p + 1) = SubSeq(render[t], 1, p + 1) <=> d <= e
  BY <1>4, <1>9, <1>10
<1> QED BY <1>5, <1>11 DEF render, audio

\* A stream that is encoded and decoded does not notice noise behind the probe.
LEMMA StreamedIsUnmoved ==
    ASSUME EpochInv, NEW p \in 0..MaxPackets
    PROVE  LET audio == Probed(Audio, 0..MaxPackets, 0..3)
           IN  Unmoved([a \in audio |-> Stream(Reset(dec), Stream(Reset(enc), a, epoch), epoch)],
                       Audio, p, 0)
<1> DEFINE audio == Probed(Audio, 0..MaxPackets, 0..3)
           F == Seq(Nat)
           Coded(a) == Stream(Reset(enc), a, epoch)
           Heard(a) == Stream(Reset(dec), Coded(a), epoch)
           render == [a \in audio |-> Heard(a)]
           s == Segment(Audio, p)
           t == Perturbed(s, p, 0)
           n == p + Margin
           k == p + 1
<1>1. /\ n \in Nat /\ k \in Nat /\ k <= n /\ epoch \in Nat /\ 0 \in 0..3 /\ k \in 0..n
  BY EpochStreamAssumption DEF EpochInv, EpochTypeOK
<1>2. Reset(enc) \in EndType(Nat) /\ Reset(dec) \in EndType(F)
  BY DEF EpochInv, EpochTypeOK, Reset, EndType
<1>3. s \in audio /\ t \in audio
  BY <1>1, ProbedAre
<1>4. /\ s \in Seq(Nat) /\ Len(s) = n /\ \A i \in 1..n : s[i] = i
      /\ t \in Seq(Nat) /\ Len(t) = n
      /\ \A i \in 1..n : t[i] = IF i > p + 0 + 1 THEN 0 ELSE i
  BY <1>1, SegmentIs
<1> HIDE DEF s, t, n
<1>5. Agree(s, t, k) /\ Agree(t, s, k)
  BY <1>1, <1>4 DEF Agree
<1> HIDE DEF audio, k
<1>6. /\ Coded(s) \in Seq(F) /\ Len(Coded(s)) = n
      /\ Coded(t) \in Seq(F) /\ Len(Coded(t)) = n
      /\ Agree(Coded(s), Coded(t), k) /\ Agree(Coded(t), Coded(s), k)
  <2> DEFINE N == Nat
             object == Reset(enc)
  <2>1. None \notin Seq(N) /\ object \in EndType(N) /\ s \in Seq(N) /\ t \in Seq(N)
    BY <1>2, <1>4, NoneIsNoSequence
  <2>2. /\ k \in 0..Len(s) /\ k \in 0..Len(t) /\ epoch \in Nat /\ Len(s) = Len(t)
    BY <1>1, <1>4, <1>5
  <2> HIDE DEF N, object, F
  <2>3. /\ Stream(object, s, epoch) \in Seq(Seq(N)) /\ Len(Stream(object, s, epoch)) = Len(s)
        /\ Agree(Stream(object, s, epoch), Stream(object, t, epoch), k)
    BY <1>5, <2>1, <2>2, StreamIsCausal
  <2>4. /\ Stream(object, t, epoch) \in Seq(Seq(N)) /\ Len(Stream(object, t, epoch)) = Len(t)
        /\ Agree(Stream(object, t, epoch), Stream(object, s, epoch), k)
    BY <1>5, <2>1, <2>2, StreamIsCausal
  <2> QED BY <1>4, <2>3, <2>4 DEF F, N, object
<1> HIDE DEF Coded, F
<1>7. /\ Heard(s) \in Seq(Seq(F)) /\ Len(Heard(s)) = n
      /\ Heard(t) \in Seq(Seq(F)) /\ Len(Heard(t)) = n
      /\ Agree(Heard(s), Heard(t), k)
  <2> DEFINE object == Reset(dec)
             x == Coded(s)
             y == Coded(t)
  <2>1. None \notin Seq(F) /\ object \in EndType(F) /\ x \in Seq(F) /\ y \in Seq(F)
    BY <1>2, <1>6, NoneIsNoSequence DEF F
  <2>2. /\ k \in 0..Len(x) /\ k \in 0..Len(y) /\ epoch \in Nat /\ Len(x) = Len(y)
    BY <1>1, <1>6
  <2>5. Len(x) = n /\ Len(y) = n /\ Agree(x, y, k) /\ Agree(y, x, k)
    BY <1>6
  <2> HIDE DEF object, x, y
  <2>3. /\ Stream(object, x, epoch) \in Seq(Seq(F)) /\ Len(Stream(object, x, epoch)) = Len(x)
        /\ Agree(Stream(object, x, epoch), Stream(object, y, epoch), k)
    BY <2>1, <2>2, <2>5, StreamIsCausal
  <2>4. Stream(object, y, epoch) \in Seq(Seq(F)) /\ Len(Stream(object, y, epoch)) = Len(y)
    BY <2>1, <2>2, <2>5, StreamIsCausal
  <2> QED BY <2>3, <2>4, <2>5 DEF object, x, y
<1>8. render[s] = Heard(s) /\ render[t] = Heard(t)
  BY <1>3
<1> HIDE DEF Heard
<1>9. SubSeq(Heard(s), 1, k) = SubSeq(Heard(t), 1, k)
  BY <1>1, <1>7, FirstParts DEF Agree
<1>10. SubSeq(render[s], 1, p + 1) = SubSeq(render[t], 1, p + 1)
  BY <1>8, <1>9 DEF k
<1> HIDE DEF render
<1>11. Unmoved(render, Audio, p, 0)
  BY <1>10 DEF Unmoved, s, t
<1> QED BY <1>11 DEF render, audio, Heard, Coded

\* Encoding and decoding a stream adds no lookahead, and the probe that says so
\* would have seen one: it measures 1, 2 and 3, and gives up beyond.
THEOREM EpochLookaheadIsMeasured == Spec => []LookaheadIsMeasured
<1>1. ASSUME EpochInv PROVE LookaheadIsMeasured
  <2> DEFINE probes == 0..MaxPackets
             audio == Probed(Audio, probes, 0..3)
             streamed == [a \in audio |-> Stream(Reset(dec), Stream(Reset(enc), a, epoch), epoch)]
             Measured(render) == AddedLookahead(render, Audio, probes, 0..3)
  <2>1. 0 \in probes
    BY EpochStreamAssumption
  <2>2. Measured(streamed) = 0
    <3>1. \A p \in probes : Unmoved(streamed, Audio, p, 0)
      BY <1>1, StreamedIsUnmoved
    <3> HIDE DEF streamed, probes
    <3> QED BY <3>1, MeasuresTheLeast
  <2>3. ASSUME NEW d \in 1..3 PROVE Measured(Ahead(audio, d)) = d
    <3>1. \A p \in probes, e \in 0..3 : Unmoved(Ahead(audio, d), Audio, p, e) <=> d <= e
      BY AheadIsMoved
    <3> HIDE DEF audio, probes
    <3> QED BY <2>1, <3>1, MeasuresTheLeast
  <2>4. Measured(Ahead(audio, 4)) = None
    <3>1. \A e \in 0..3 : ~ Unmoved(Ahead(audio, 4), Audio, 0, e)
      BY <2>1, AheadIsMoved
    <3> HIDE DEF audio
    <3> QED BY <2>1, <3>1 DEF AddedLookahead
  <2> QED BY <2>2, <2>3, <2>4 DEF LookaheadIsMeasured, Audio
<1> QED BY <1>1, EpochInvariant, PTL
=============================================================================
