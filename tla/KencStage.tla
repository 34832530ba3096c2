------------------------------ MODULE KencStage ------------------------------
(***************************************************************************)
(* stage (packaging/onnxruntime/stage_debian.py): two Debian packages of   *)
(* ONNX Runtime are made from a tree that has been built before, which     *)
(* somebody may go on editing and building in.  A file is known by its     *)
(* version, of which 0 has the pinned digest: a change gives it any other, *)
(* one that it has had before, too.  A library's version is that of its    *)
(* allocated sections; that its other bytes are compared as well can only  *)
(* make the staging fail, which it may at any step.                        *)
(***************************************************************************)
EXTENDS Integers, FiniteSets

CONSTANTS Libraries,  \* the three shared objects of args.build
          Headers,    \* the other install_inputs
          Papers,     \* patches, .dsc: verified, and copied as documentation
          Versions,   \* what a file may hold, 0 the pinned bytes
          MaxChanges  \* bound on what others change

ASSUME StageAssumption ==
    MaxChanges \in Nat /\ 0 \in Versions /\ Libraries \cap Headers = {}

Inputs == Libraries \cup Headers \cup Papers
Products == {"libonnxruntime1.21", "libonnxruntime-dev"}

VARIABLES tree,      \* input -> version
          past,      \* history: input -> the versions it has had
          returns,   \* history: input -> how often it got one of them again
          changes,
          s_at, s_todo,
          installed, \* cmake-install: input -> version
          before,    \* original_libraries of the provenance
          staged,    \* the copies that go into the package
          debs       \* product -> what is in the artifact

treeVars == <<tree, past, returns, changes>>
stageVars == <<s_at, s_todo, installed, before, staged, debs>>

StageInit ==
    /\ tree = [f \in Inputs |-> 0] /\ changes = 0
    /\ past = [f \in Inputs |-> {0}] /\ returns = [f \in Inputs |-> 0]
    /\ s_at = "verify" /\ s_todo = Inputs
    /\ installed = << >> /\ before = << >> /\ staged = << >> /\ debs = << >>

\* Somebody edits or rebuilds an input, or puts back what it was.
Rebuild ==
    /\ changes < MaxChanges /\ changes' = changes + 1
    /\ \E f \in Inputs, v \in Versions :
          /\ v # tree[f]
          /\ tree' = [tree EXCEPT ![f] = v]
          /\ past' = [past EXCEPT ![f] = @ \cup {v}]
          /\ returns' = [returns EXCEPT ![f] = IF v \in past[f] THEN @ + 1 ELSE @]
    /\ UNCHANGED stageVars

With(f, x, v) == [y \in DOMAIN f \cup {x} |-> IF y = x THEN v ELSE f[y]]

\* The next of the files that the current loop goes through.
Each(at, f) == s_at = at /\ f \in s_todo /\ s_todo' = s_todo \ {f} /\ UNCHANGED treeVars

Then(at, next, files) ==
    /\ s_at = at /\ s_todo = {}
    /\ s_at' = next /\ s_todo' = files
    /\ UNCHANGED <<treeVars, installed, before, staged, debs>>

StageFails ==
    /\ s_at \notin {"failed", "staged"}
    /\ s_at' = "failed" /\ s_todo' = {}
    /\ UNCHANGED <<treeVars, installed, before, staged, debs>>

-----------------------------------------------------------------------------
\* verify: the fingerprint is the pinned one, or nothing more happens.
Verified(at) ==
    \E f \in s_todo : Each(at, f) /\ tree[f] = 0
                      /\ UNCHANGED <<s_at, installed, before, staged, debs>>

\* args.output is created, and cmake --install copies the inputs there.
VerifyInputs == Verified("verify") \/ Then("verify", "install", Libraries \cup Headers)

Install ==
    \/ \E f \in s_todo :
          /\ Each("install", f)
          /\ installed' = With(installed, f, tree[f])
          /\ UNCHANGED <<s_at, before, staged, debs>>
    \/ Then("install", "reverify", Libraries \cup Headers)

\* Mutant of Reverify: what was installed is taken to be what was verified.
ReverifyNothing ==
    /\ s_at = "reverify"
    /\ s_at' = "origin" /\ s_todo' = Libraries
    /\ UNCHANGED <<treeVars, installed, before, staged, debs>>

\* verify_install_inputs, for the second time.
Reverify == Verified("reverify") \/ Then("reverify", "origin", Libraries)

\* The library of the build is fingerprinted, the installed one is copied.
TakeLibrary ==
    \/ \E f \in s_todo :
          /\ s_at = "origin" /\ UNCHANGED treeVars
          /\ before' = With(before, f, tree[f])
          /\ staged' = With(staged, f, installed[f])
          /\ s_at' = "compare"
          /\ UNCHANGED <<s_todo, installed, debs>>
    \/ Then("origin", "pack", Products)

\* allocated_sections and dynamic_entries of the library in the tree and of the
\* copy, whose search paths were removed.
CompareLibrary ==
    \E f \in s_todo \cap DOMAIN before :
        /\ s_at = "compare" /\ tree[f] = staged[f]
        /\ s_at' = "again"
        /\ UNCHANGED <<treeVars, s_todo, installed, before, staged, debs>>

\* The library in the tree has the fingerprint that it had before.
FingerprintAgain ==
    \E f \in s_todo \cap DOMAIN before :
        /\ Each("again", f) /\ tree[f] = before[f]
        /\ s_at' = "origin"
        /\ UNCHANGED <<installed, before, staged, debs>>

\* Documentation is copied from where it was verified, and the package built.
Packed(product) ==
    IF product = "libonnxruntime1.21" THEN staged ELSE [f \in Headers |-> installed[f]]

PackDeb ==
    \/ \E product \in s_todo :
          /\ Each("pack", product)
          /\ debs' = With(debs, product,
                          [files |-> Packed(product), papers |-> [f \in Papers |-> tree[f]]])
          /\ UNCHANGED <<s_at, installed, before, staged>>
    \/ Then("pack", "staged", {})

StageNext ==
    VerifyInputs \/ Install \/ Reverify \/ TakeLibrary \/ CompareLibrary
        \/ FingerprintAgain \/ PackDeb \/ StageFails

StageSpec == StageInit /\ [][StageNext \/ Rebuild]_<<treeVars, stageVars>>

-----------------------------------------------------------------------------
\* What gets past the checks: a package that comes out holds the pinned build but
\* for inputs that were changed and put back while it was staged, a library at
\* least twice, since it is compared with what was installed after that was
\* verified.  Only with as many returns does the provenance name another original
\* than the one a library was made from.  Papers are not covered: they are copied
\* long after they were verified.
StagedAsRecorded ==
    \A product \in DOMAIN debs :
        LET files == debs[product].files
        IN  \A f \in DOMAIN files :
                /\ files[f] # 0 => returns[f] >= (IF f \in Libraries THEN 2 ELSE 1)
                /\ f \in Libraries =>
                      f \in DOMAIN before /\ (before[f] # files[f] => returns[f] >= 2)

-----------------------------------------------------------------------------
\* What holds between any two steps of stage and of those who rebuild.
StageTypeOK ==
    /\ changes \in Nat /\ returns \in [Inputs -> Nat]
    /\ tree \in [Inputs -> Versions]
    /\ past \in [Inputs -> SUBSET Versions] /\ \A f \in Inputs : {0, tree[f]} \subseteq past[f]
    /\ s_at \in {"verify", "install", "reverify", "origin", "compare", "again", "pack",
                 "staged", "failed"}
    /\ s_todo \subseteq Inputs \cup Products

Comparing == {"origin", "compare", "again", "pack"}

\* What was installed has been in the tree.  If it is not the pinned version, the
\* second verification takes one return to pass, and the tree another to be again
\* what was installed.
InstalledStands ==
    /\ s_at = "verify" => DOMAIN installed = {}
    /\ s_at = "install" => /\ s_todo \subseteq Libraries \cup Headers
                           /\ DOMAIN installed = (Libraries \cup Headers) \ s_todo
    /\ s_at \in {"reverify"} \cup Comparing => DOMAIN installed = Libraries \cup Headers
    /\ s_at \in {"install", "reverify"} \cup Comparing =>
          \A f \in DOMAIN installed :
              /\ installed[f] \in past[f]
              /\ installed[f] # 0 =>
                    /\ tree[f] = 0 => returns[f] >= 1
                    /\ (s_at = "reverify" /\ f \notin s_todo) \/ s_at \in Comparing =>
                          returns[f] >= 1 /\ (tree[f] = installed[f] => returns[f] >= 2)

\* The library f has been taken; how far its comparison has come.
Compared(f) == s_at = "pack" \/ f \notin s_todo

LibraryStands(f) ==
    /\ before[f] \in past[f] /\ staged[f] = installed[f]
    /\ (s_at = "compare" /\ f \in s_todo) /\ staged[f] # before[f] /\ tree[f] = staged[f] =>
          returns[f] >= 1
    /\ (s_at = "again" \/ Compared(f)) /\ staged[f] # 0 => returns[f] >= 2
    /\ (s_at = "again" /\ f \in s_todo) /\ staged[f] # before[f] =>
          returns[f] >= (IF tree[f] = before[f] THEN 2 ELSE 1)
    /\ Compared(f) /\ staged[f] # before[f] => returns[f] >= 2

LibrariesStand ==
    /\ before = [f \in DOMAIN before |-> before[f]] /\ staged = [f \in DOMAIN staged |-> staged[f]]
    /\ s_at \in {"verify", "install", "reverify"} => DOMAIN before = {}
    /\ s_at \in {"origin", "compare", "again"} => s_todo \subseteq Libraries
    /\ s_at = "origin" => DOMAIN before = Libraries \ s_todo
    /\ s_at \in {"compare", "again"} =>
          \E f \in s_todo : DOMAIN before = (Libraries \ s_todo) \cup {f}
    /\ s_at = "pack" => DOMAIN before = Libraries /\ s_todo \subseteq Products
    /\ DOMAIN staged = DOMAIN before
    /\ s_at \in Comparing => \A f \in DOMAIN before : LibraryStands(f)

DebsStand ==
    /\ s_at \notin {"pack", "staged", "failed"} => DOMAIN debs = {}
    /\ \A product \in DOMAIN debs : DOMAIN debs[product].files \subseteq Inputs

StageInv == StageTypeOK /\ InstalledStands /\ LibrariesStand /\ DebsStand /\ StagedAsRecorded
=============================================================================
