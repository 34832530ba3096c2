------------------------------ MODULE KencVendor ------------------------------
(***************************************************************************)
(* The licence authority and what embeds it.  The repository carries one   *)
(* commit of kilix-license in three places, which                          *)
(* tools/vendor_licence_authority.py moves from one commit to another: the *)
(* vendored files, the pin that names the commit, and the binding, with    *)
(* its name again and the digests of the files that get embedded.  The     *)
(* content bundle (tools/build_content_bundle.py) embeds a content commit  *)
(* that must vendor the same authority, the converter (authority_payload   *)
(* of tools/build_converter.py) the vendored files themselves.             *)
(*                                                                         *)
(* An object of a Git store is named by its bytes; what a damaged store    *)
(* returns for a name is the name of other bytes, or Broken.  A file that  *)
(* a crash cut short is Broken, too.                                       *)
(***************************************************************************)
EXTENDS Integers, FiniteSets

CONSTANTS Authorities,  \* commits of kilix-license
          Contents,     \* commits of the content repository
          Paths,        \* files of the vendored subset of a commit
          Embedded,     \* those of them with a digest in the binding
          Files,        \* authority -> path -> the blob there
          Vendors,      \* content -> path -> the blob it vendors
          Names,        \* content -> the authority its own pin names
          MaxFaults,    \* bound on crashes, edits and damage
          Broken

ASSUME VendorAssumption ==
    /\ Embedded \subseteq Paths /\ Embedded # {}
    /\ MaxFaults \in Nat
    /\ Names \in [Contents -> Authorities]

VARIABLES pin, binding,       \* kilix-license.pin, converter-inputs.json
          vendored,           \* path -> blob, or Broken, or "none"
          store,              \* name of an object -> the object Git returns
          moving,             \* vendor_licence_authority --write: where it is
          bundling,           \* build_content_bundle: where it is
          embedded,           \* what was embedded last, by a converter or a bundle
          edited,             \* the binding recorded a file somebody edited
          faults

vendorVars == <<pin, binding, vendored, store, moving, bundling, embedded, edited, faults>>

Blobs == UNION {{Files[a][p] : p \in Paths} : a \in Authorities}
             \cup UNION {{Vendors[c][p] : p \in Paths} : c \in Contents}
Objects == Blobs \cup Authorities \cup Contents

-----------------------------------------------------------------------------
\* Mutant of GitObject: the bytes are not held against the name.
GitObjectUnhashed(oid) == store[oid] # Broken

\* git_object: git_bytes returned, and the bytes are those the name stands for.
GitObject(oid) == store[oid] # Broken /\ store[oid] = oid

\* commit_files: the commit, its trees and each blob of the subset are read.
\* What the reader gets is what the store returned.
CommitReads(a) == GitObject(a) /\ \A p \in Paths : GitObject(Files[a][p])
CommitFiles(a) == [p \in Paths |-> store[Files[a][p]]]

\* licence_authority of a tree of this repository.
Pinned == pin # Broken /\ binding.ref # Broken /\ pin = binding.ref

\* regenerate: the digests of what is on disk.
Regenerated(ref) == [ref |-> ref, files |-> [p \in Embedded |-> vendored[p]]]

\* Mutant of Agrees: the digests are left out.
AgreesByName == Pinned /\ \A p \in Embedded : vendored[p] \notin {"none", Broken}

\* The last lines of main, without a repository and with one.
Agrees ==
    /\ Pinned /\ \A p \in Embedded : vendored[p] \notin {"none", Broken}
    /\ binding = Regenerated(binding.ref)

Idle == [at |-> "idle"]

VendorInit ==
    /\ \E a \in Authorities :
          /\ pin = a
          /\ vendored = Files[a]
          /\ binding = [ref |-> a, files |-> [p \in Embedded |-> Files[a][p]]]
    /\ store = [o \in Objects |-> o]
    /\ moving = Idle /\ bundling = Idle
    /\ embedded = {} /\ edited = FALSE
    /\ faults = 0

-----------------------------------------------------------------------------
\* vendor_licence_authority --write --old a --ref b.
BeginMove ==
    /\ moving = Idle
    /\ \E a, b \in Authorities :
          /\ a # b
          /\ pin = a /\ binding.ref = a
          /\ CommitReads(a) /\ vendored = CommitFiles(a)
          /\ CommitReads(b)
          /\ moving' = [at |-> "remove", to |-> b, files |-> CommitFiles(b)]
    /\ UNCHANGED <<pin, binding, vendored, store, bundling, embedded, edited, faults>>

RemoveTree ==
    /\ moving.at = "remove"
    /\ vendored' = [p \in Paths |-> "none"]
    /\ moving' = [moving EXCEPT !.at = "write"]
    /\ UNCHANGED <<pin, binding, store, bundling, embedded, edited, faults>>

WriteFile ==
    /\ moving.at = "write"
    /\ \E p \in Paths :
          /\ vendored[p] = "none"
          /\ vendored' = [vendored EXCEPT ![p] = moving.files[p]]
    /\ UNCHANGED <<pin, binding, store, moving, bundling, embedded, edited, faults>>

WritePin ==
    /\ moving.at = "write" /\ \A p \in Paths : vendored[p] # "none"
    /\ pin' = moving.to
    /\ moving' = [moving EXCEPT !.at = "bind"]
    /\ UNCHANGED <<binding, vendored, store, bundling, embedded, edited, faults>>

WriteBinding ==
    /\ moving.at = "bind"
    /\ binding' = Regenerated(moving.to)
    /\ edited' = (edited \/ vendored # moving.files)
    /\ moving' = Idle
    /\ UNCHANGED <<pin, vendored, store, bundling, embedded, faults>>

\* A crash: the file that was being written is cut short.
CrashMove ==
    /\ moving # Idle /\ faults < MaxFaults
    /\ \/ moving.at = "remove" /\ UNCHANGED <<pin, binding, vendored>>
       \/ /\ moving.at = "write"
          /\ \/ UNCHANGED <<pin, vendored>>
             \/ /\ \E p \in Paths :
                      vendored[p] = "none" /\ vendored' = [vendored EXCEPT ![p] = Broken]
                /\ UNCHANGED pin
             \/ /\ \A p \in Paths : vendored[p] # "none"
                /\ pin' = Broken /\ UNCHANGED vendored
          /\ UNCHANGED binding
       \/ /\ moving.at = "bind"
          /\ \/ UNCHANGED binding
             \/ binding' = [binding EXCEPT !.ref = Broken]
          /\ UNCHANGED <<pin, vendored>>
    /\ moving' = Idle /\ faults' = faults + 1
    /\ UNCHANGED <<store, bundling, embedded, edited>>

-----------------------------------------------------------------------------
\* build_converter: the binding is loaded once; each file it names is read
\* against its digest there, the pin against its name.
EmbedInConverter ==
    /\ binding.ref # Broken /\ pin = binding.ref
    /\ \A p \in Embedded : vendored[p] = binding.files[p]
    /\ embedded' = {[by |-> "converter", ref |-> binding.ref, files |-> binding.files]}
    /\ UNCHANGED <<pin, binding, vendored, store, moving, bundling, edited, faults>>

\* Mutant of SameAuthority: the pin of the content commit is believed.
SameAuthorityByName(c) == Names[c] = binding.ref

\* The content commit pins the same authority, and the modules, records and
\* licence it vendors have the digests of this repository's binding.
SameAuthority(c) ==
    /\ Names[c] = binding.ref
    /\ \A p \in Embedded : store[Vendors[c][p]] = binding.files[p]

\* content_members: every object is read by its name.
ContentMembers(c) == GitObject(c) /\ \A p \in Embedded : GitObject(Vendors[c][p])

\* Members and authority are read and compared ...
BeginBundle ==
    /\ bundling = Idle
    /\ \E c \in Contents :
          /\ ContentMembers(c) /\ Pinned /\ SameAuthority(c)
          /\ bundling' = [at |-> "files", commit |-> c, content |-> store[c],
                          ref |-> binding.ref,
                          files |-> [p \in Embedded |-> store[Vendors[c][p]]]]
    /\ UNCHANGED <<pin, binding, vendored, store, moving, embedded, edited, faults>>

\* ... and the receipt names the authority this repository has by then, which
\* may be another one after a move.
EndBundle ==
    /\ bundling # Idle
    /\ IF Pinned
       THEN embedded' =
                {[by |-> "bundle", commit |-> bundling.commit, content |-> bundling.content,
                  ref |-> bundling.ref, receipt |-> binding.ref,
                  files |-> bundling.files]}
       ELSE UNCHANGED embedded
    /\ bundling' = Idle
    /\ UNCHANGED <<pin, binding, vendored, store, moving, edited, faults>>

-----------------------------------------------------------------------------
\* Somebody edits a vendored file; a store loses an object, or confuses it with
\* another of its kind (of another kind, Git itself refuses it).
EditFile ==
    /\ faults < MaxFaults /\ faults' = faults + 1
    /\ \E p \in Paths, o \in Blobs : vendored' = [vendored EXCEPT ![p] = o]
    /\ UNCHANGED <<pin, binding, store, moving, bundling, embedded, edited>>

Damage ==
    /\ faults < MaxFaults /\ faults' = faults + 1
    /\ \E o \in Objects :
          \E other \in (IF o \in Blobs THEN Blobs ELSE Objects \ Blobs) \cup {Broken} :
              store' = [store EXCEPT ![o] = other]
    /\ UNCHANGED <<pin, binding, vendored, moving, bundling, embedded, edited>>

VendorNext ==
    \/ BeginMove \/ RemoveTree \/ WriteFile \/ WritePin \/ WriteBinding \/ CrashMove
    \/ EmbedInConverter \/ BeginBundle \/ EndBundle
    \/ EditFile \/ Damage

VendorSpec == VendorInit /\ [][VendorNext]_vendorVars

-----------------------------------------------------------------------------
\* The offline check passes only on the embedded files of the one commit that
\* pin and binding name, also after a move that crashed anywhere, and unless
\* the move itself was given edited files to record.
OfflineCheckMeansOneCommit ==
    Agrees /\ ~ edited => \A p \in Embedded : vendored[p] = Files[binding.ref][p]

\* What a converter or a content bundle embeds is of one commit of the licence
\* authority, never a mix, whatever move, crash or edit goes on meanwhile.
EmbeddedIsOneCommit ==
    \A e \in embedded :
        ~ edited => \A p \in Embedded : e.files[p] = Files[e.ref][p]

\* A bundle holds the objects of the commit it names, from any store.
BundleIsItsCommit ==
    \A e \in embedded :
        e.by = "bundle" => e.content = e.commit /\ \A p \in Embedded : e.files[p] = Vendors[e.commit][p]

-----------------------------------------------------------------------------
\* What holds between any two steps, also when somebody edits and damages things.

\* The digests of the binding are those of the commit it names, unless the move
\* that wrote it was given edited files or has not written its name.
BindingStands ==
    /\ binding = [ref |-> binding.ref, files |-> binding.files]
    /\ ~ edited /\ binding.ref # Broken =>
          \A p \in Embedded : binding.files[p] = Files[binding.ref][p]

\* A move knows the files of the commit it moves to from that commit's objects.
MoveStands ==
    \/ moving = Idle
    \/ /\ moving = [at |-> moving.at, to |-> moving.to, files |-> moving.files]
       /\ \A p \in Paths : moving.files[p] = Files[moving.to][p]

\* A bundle in the making has read what it is going to embed.
BundleStands ==
    \/ bundling = Idle
    \/ /\ bundling = [at |-> bundling.at, commit |-> bundling.commit, content |-> bundling.content,
                      ref |-> bundling.ref, files |-> bundling.files]
       /\ bundling.content = bundling.commit
       /\ \A p \in Embedded : bundling.files[p] = Vendors[bundling.commit][p]
       /\ ~ edited => \A p \in Embedded : bundling.files[p] = Files[bundling.ref][p]

VendorInv ==
    /\ BindingStands /\ MoveStands /\ BundleStands
    /\ EmbeddedIsOneCommit /\ BundleIsItsCommit
===============================================================================
