----------------------------- MODULE KencPackage -----------------------------
(***************************************************************************)
(* build (tools/build_native_package.py): the Debian package of the native *)
(* library, compiled against a locked set of packages, while the machine   *)
(* may be upgraded.  Its runtime package may come from the directory that  *)
(* KencStage writes (--deb-directory), unpacked beside the build.          *)
(*                                                                         *)
(* Packages only go up; version 0 of a package is the locked one.  An      *)
(* upgrade replaces a package's files and its dpkg record in one step.     *)
(***************************************************************************)
EXTENDS KencStage

CONSTANTS Packages,   \* of the machine: what the library can be loaded with
          Locked,     \* those in tools/debian-dependencies.json
          Direct,     \* DIRECT_DEPENDENCIES
          Private,    \* those of them with provision = ort
          Loaded,     \* the libraries ldd names
          OwnerTables \* loaded library -> the packages that ship it

ASSUME PackageAssumption ==
    /\ Direct \subseteq Locked /\ Locked \subseteq Packages /\ Private \subseteq Locked

VARIABLES machine,    \* package -> installed version
          cc,         \* version of the compiler
          owners,     \* one of OwnerTables
          output,     \* args.output: none, other or package
          p_at, p_todo,
          private,    \* packages unpacked from --deb-directory
          asked,      \* --deb-directory was given
          compiler,   \* compiler_bytes
          used,       \* history: what make compiled and linked with
          runtime,    \* runtime_libraries: library -> package and version
          depends     \* package -> floor

machineVars == <<machine, cc, owners>>
packVars == <<p_at, p_todo, private, asked, compiler, used, runtime, depends>>
packageVars == <<treeVars, stageVars, machineVars, output, packVars>>

NotYet == [machine |-> << >>, cc |-> -1]

PackageInit ==
    /\ StageInit
    /\ machine = [p \in Packages |-> 0] /\ cc = 0
    /\ owners \in OwnerTables
    /\ output \in {"none", "other"}
    /\ p_at = "start" /\ p_todo = {}
    /\ private = {} /\ asked \in BOOLEAN
    /\ compiler = -1 /\ used = NotYet
    /\ runtime = << >> /\ depends = << >>

-----------------------------------------------------------------------------
(* The others *)

Upgrade ==
    /\ changes < MaxChanges /\ changes' = changes + 1
    /\ \/ \E p \in Packages : machine' = [machine EXCEPT ![p] = @ + 1] /\ UNCHANGED cc
       \/ cc' = cc + 1 /\ UNCHANGED machine
    /\ UNCHANGED <<tree, past, returns, stageVars, owners, output, packVars>>

\* Another command, or anybody, makes an entry of that name.
OtherOutput ==
    /\ output = "none" /\ output' = "other"
    /\ UNCHANGED <<treeVars, stageVars, machineVars, packVars>>

-----------------------------------------------------------------------------
(* build *)

\* What a step of build leaves alone.
Quiet == UNCHANGED <<treeVars, stageVars, machineVars>>

Go(from, to, todo) == p_at = from /\ Quiet /\ p_at' = to /\ p_todo' = todo

\* check, a subprocess or the disk fails: the stage stays, the output does not
\* come into being.
PackageFails ==
    /\ p_at \notin {"failed", "published"}
    /\ Go(p_at, "failed", {})
    /\ UNCHANGED <<output, private, asked, compiler, used, runtime, depends>>

\* The output is new, and a directory of the build's own is made beside it.
StartPackage ==
    /\ output = "none"
    /\ Go("start", "source", {})
    /\ UNCHANGED <<output, private, asked, compiler, used, runtime, depends>>

\* source_files and materialize: the recipe, the sources and the lock are those
\* of the selected commit, read by their Git names (GitObject of KencVendor).
ReadSource ==
    /\ Go("source", "provision", Locked)
    /\ UNCHANGED <<output, private, asked, compiler, used, runtime, depends>>

\* The artifact has the locked digest: it is the pinned one throughout.
LockedDeb ==
    /\ "libonnxruntime1.21" \in DOMAIN debs
    /\ LET deb == debs["libonnxruntime1.21"]
       IN  /\ \A f \in DOMAIN deb.files : deb.files[f] = 0
           /\ \A f \in Papers : deb.papers[f] = 0

\* Each package of the lock is unpacked, or installed at the locked version.
Provision ==
    /\ \/ \E p \in p_todo :
             /\ Go("provision", "provision", p_todo \ {p})
             /\ IF asked /\ p \in Private
                THEN LockedDeb /\ private' = private \cup {p}
                ELSE machine[p] = 0 /\ UNCHANGED private
       \/ p_todo = {} /\ Go("provision", "compiler", {}) /\ UNCHANGED private
    /\ UNCHANGED <<output, asked, compiler, used, runtime, depends>>

ReadCompiler ==
    /\ Go("compiler", "make", {})
    /\ compiler' = cc
    /\ UNCHANGED <<output, private, asked, used, runtime, depends>>

\* The version of a package the build sees.
Sees(p) == IF p \in private THEN 0 ELSE machine[p]

\* make all install; the content receipt and the probe agree, readelf and ldd
\* find what they should.
Make ==
    /\ Go("make", "owners", Loaded)
    /\ used' = [machine |-> [p \in Packages |-> Sees(p)], cc |-> cc]
    /\ UNCHANGED <<output, private, asked, compiler, runtime, depends>>

\* debian_owner and runtime_libraries: exactly one package ships it.
NameOwner ==
    /\ \/ \E l \in p_todo :
             /\ Go("owners", "owners", p_todo \ {l})
             /\ \E p \in Packages :
                   /\ owners[l] = {p}
                   /\ runtime' = With(runtime, l, [package |-> p, version |-> Sees(p)])
       \/ p_todo = {} /\ Go("owners", "record", {}) /\ UNCHANGED runtime
    /\ UNCHANGED <<output, private, asked, compiler, used, depends>>

\* write_source_archive and inventory: the sources, as they were read, and what
\* make installed go on record with the owners that were found.
Record ==
    /\ Go("record", "depends", {})
    /\ UNCHANGED <<output, private, asked, compiler, used, runtime, depends>>

Rows(p) == {runtime[l].version : l \in {k \in Loaded : runtime[k].package = p}}
Named == Direct \cup {runtime[l].package : l \in Loaded}

\* Mutant of Floors: the locked version stands, whatever else was found.
FloorsAsLocked(f) ==
    f \in [Named -> 0..MaxChanges]
        /\ \A p \in Named : IF p \in Direct THEN f[p] = 0 ELSE f[p] \in Rows(p)

\* debian_depends: one version of each package, that of the lock if it is direct.
Floors(f) ==
    f \in [Named -> 0..MaxChanges]
        /\ \A p \in Named : Rows(p) \cup (IF p \in Direct THEN {0} ELSE {}) = {f[p]}

Depend ==
    /\ Go("depends", "recheck", {})
    /\ \E f \in [Named -> 0..MaxChanges] : Floors(f) /\ depends' = f
    /\ UNCHANGED <<output, private, asked, compiler, used, runtime>>

\* The compiler is the one that was read before.
SameCompiler == cc = compiler

RecheckCompiler ==
    /\ SameCompiler
    /\ Go("recheck", "rename", {})
    /\ UNCHANGED <<output, private, asked, compiler, used, runtime, depends>>

\* rename_new does not replace.
PublishPackage ==
    /\ output = "none"
    /\ Go("rename", "published", {})
    /\ output' = "package"
    /\ UNCHANGED <<private, asked, compiler, used, runtime, depends>>

PackageNext ==
    \/ StageNext /\ UNCHANGED <<machineVars, output, packVars>>
    \/ Rebuild /\ UNCHANGED <<machineVars, output, packVars>>
    \/ Upgrade \/ OtherOutput
    \/ StartPackage \/ ReadSource \/ Provision \/ ReadCompiler \/ Make \/ NameOwner
    \/ Record \/ Depend \/ RecheckCompiler \/ PublishPackage \/ PackageFails

PackageSpec == PackageInit /\ [][PackageNext]_packageVars

-----------------------------------------------------------------------------
\* dpkg installs the package only on a machine with every library at least as
\* new as the one it was built with, and never asks for a newer one of what it
\* links directly; whatever was upgraded between any two steps of the build.
FloorsHoldTheBuild ==
    p_at = "published" =>
        \A l \in Loaded :
            LET p == runtime[l].package
            IN  /\ used.machine[p] <= depends[p]
                /\ p \in Direct => used.machine[p] = depends[p]

-----------------------------------------------------------------------------
\* What holds between any two steps.
Built == {"owners", "record", "depends", "recheck", "rename", "published"}

PackageTypeOK ==
    /\ machine \in [Packages -> Nat] /\ cc \in Nat
    /\ p_at \in {"start", "source", "provision", "compiler", "make", "failed"} \cup Built

\* What make linked with is at most as new as what would be found now.
UsedStands ==
    p_at \in Built => \A p \in Packages : used.machine[p] \in Nat /\ used.machine[p] <= Sees(p)

\* The owner of a library is named after make, at a version that is as new.
OwnersStand ==
    /\ p_at \notin Built \cup {"failed"} => DOMAIN runtime = {}
    /\ p_at = "owners" => p_todo \subseteq Loaded /\ DOMAIN runtime = Loaded \ p_todo
    /\ p_at \in Built \ {"owners"} => DOMAIN runtime = Loaded
    /\ p_at \in Built =>
          \A l \in DOMAIN runtime :
              /\ runtime[l].package \in Packages /\ runtime[l].version \in Nat
              /\ used.machine[runtime[l].package] <= runtime[l].version

\* The floor of a package is the one version that its libraries were found at.
FloorsStand ==
    p_at \in {"recheck", "rename", "published"} =>
        \A l \in Loaded :
            LET p == runtime[l].package
            IN  depends[p] = runtime[l].version /\ (p \in Direct => depends[p] = 0)

PackageInv ==
    /\ StageInv
    /\ PackageTypeOK /\ UsedStands /\ OwnersStand /\ FloorsStand
=============================================================================
