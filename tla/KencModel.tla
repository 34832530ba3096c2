------------------------------ MODULE KencModel ------------------------------
(***************************************************************************)
(* One kenc_model shared by the streams of several threads                 *)
(* (src/src/onnx.c: model_load, kenc_model_free, kenc_native_create and    *)
(* kenc_native_free).                                                      *)
(*                                                                         *)
(* Loading reads every file of the asset set from a directory that someone *)
(* else may be writing to; each one is read into memory and hashed there.  *)
(* The model is then shared: a stream counts as one reference from the     *)
(* moment its creation begins, and whoever drops the last one destroys it. *)
(*                                                                         *)
(* What the caller owes: it creates streams only while it holds the model  *)
(* (until it calls kenc_model_free), and uses a stream from one thread.    *)
(***************************************************************************)
EXTENDS Integers, FiniteSets

CONSTANTS Threads,
          Files    \* the graphs; the manifest is verified like them, and not kept

ASSUME ModelAssumption == IsFiniteSet(Threads)

\* What a file holds: the pinned export, or anything else.
Contents == {"pinned", "other"}

\* CreateSessionFromArray is called for the network and for the quantizer.
SessionsPerStream == 2

VARIABLES disk,       \* the files, as they are now
          model,      \* none, loading, live, destroying or freed
          graphs,     \* what is in memory of each file: absent, or its content
          environment,\* the OrtEnv exists
          references, \* model->references
          owned,      \* the caller of model_load has not freed it yet
          pc,         \* what each thread is doing
          sessions    \* how many sessions its stream has

modelVars == <<disk, model, graphs, environment, references, owned, pc, sessions>>

Absent == "absent"

ModelInit ==
    /\ disk \in [Files -> Contents]
    /\ model = "none"
    /\ graphs = [f \in Files |-> Absent]
    /\ environment = FALSE
    /\ references = 0
    /\ owned = FALSE
    /\ pc = [t \in Threads |-> "idle"]
    /\ sessions = [t \in Threads |-> 0]

\* Someone replaces a file.
Replace(f) ==
    /\ model \in {"none", "loading"}
    /\ disk' = [disk EXCEPT ![f] = CHOOSE c \in Contents : c # @]
    /\ UNCHANGED <<model, graphs, environment, references, owned, pc, sessions>>

-----------------------------------------------------------------------------
\* model_load, by thread t
BeginLoad(t) ==
    /\ model = "none" /\ pc[t] = "idle"
    /\ model' = "loading"
    /\ references' = 1
    /\ pc' = [pc EXCEPT ![t] = "read"]
    /\ UNCHANGED <<disk, graphs, environment, owned, sessions>>

\* read_verified, its preads: a file that changes meanwhile is read in pieces
\* of different contents, which is some other content.
Read(t, f) ==
    /\ pc[t] = "read" /\ graphs[f] = Absent
    /\ \E content \in {disk[f], "other"} : graphs' = [graphs EXCEPT ![f] = content]
    /\ pc' = [pc EXCEPT ![t] = "hash"]
    /\ UNCHANGED <<disk, model, environment, references, owned, sessions>>

InMemory == {f \in Files : graphs[f] # Absent}

\* Mutant of Verify: the file is hashed, not the bytes read from it.
VerifyOnDisk(t) ==
    /\ pc[t] = "hash"
    /\ IF \A f \in InMemory : disk[f] = "pinned"
       THEN pc' = [pc EXCEPT ![t] = "read"] /\ UNCHANGED graphs
       ELSE /\ pc' = [pc EXCEPT ![t] = "drop"]
            /\ graphs' = [f \in Files |-> IF graphs[f] = "other" THEN Absent ELSE graphs[f]]
    /\ UNCHANGED <<disk, model, environment, references, owned, sessions>>

\* The digest: a file that is not the pinned one is freed at once, and the load
\* drops the one reference to what it has built so far.
Verify(t) ==
    /\ pc[t] = "hash"
    /\ IF \A f \in InMemory : graphs[f] = "pinned"
       THEN pc' = [pc EXCEPT ![t] = "read"] /\ UNCHANGED graphs
       ELSE /\ pc' = [pc EXCEPT ![t] = "drop"]
            /\ graphs' = [f \in Files |-> IF graphs[f] = "other" THEN Absent ELSE graphs[f]]
    /\ UNCHANGED <<disk, model, environment, references, owned, sessions>>

\* CreateEnv
EndLoad(t) ==
    /\ pc[t] = "read" /\ InMemory = Files
    /\ environment' = TRUE
    /\ model' = "live"
    /\ owned' = TRUE
    /\ pc' = [pc EXCEPT ![t] = "idle"]
    /\ UNCHANGED <<disk, graphs, references, sessions>>

\* Mutant of LoadFails: the model is not given up.
LoadFailsKeepingAll(t) ==
    /\ pc[t] = "read"
    /\ pc' = [pc EXCEPT ![t] = "idle"]
    /\ UNCHANGED <<disk, model, graphs, environment, references, owned, sessions>>

\* A file that cannot be opened or read, or no environment.
LoadFails(t) ==
    /\ pc[t] = "read"
    /\ pc' = [pc EXCEPT ![t] = "drop"]
    /\ UNCHANGED <<disk, model, graphs, environment, references, owned, sessions>>

-----------------------------------------------------------------------------
\* kenc_native_create: the reference is taken before anything of the model is
\* used ...
BeginCreate(t) ==
    /\ owned /\ pc[t] = "idle" /\ sessions[t] = 0
    /\ references' = references + 1
    /\ pc' = [pc EXCEPT ![t] = "create"]
    /\ UNCHANGED <<disk, model, graphs, environment, owned, sessions>>

\* ... create_session, from the environment and the bytes of a graph ...
CreateSession(t) ==
    /\ pc[t] = "create" /\ sessions[t] < SessionsPerStream
    /\ sessions' = [sessions EXCEPT ![t] = @ + 1]
    /\ UNCHANGED <<disk, model, graphs, environment, references, owned, pc>>

\* ... the stream is complete ...
EndCreate(t) ==
    /\ pc[t] = "create" /\ sessions[t] = SessionsPerStream
    /\ pc' = [pc EXCEPT ![t] = "idle"]
    /\ UNCHANGED <<disk, model, graphs, environment, references, owned, sessions>>

\* ... or anything above fails, or the owner frees it: kenc_native_free
\* releases the sessions, and then the model.
ReleaseSessions(t) ==
    /\ \/ pc[t] = "create"
       \/ pc[t] = "idle" /\ sessions[t] > 0
    /\ sessions' = [sessions EXCEPT ![t] = 0]
    /\ pc' = [pc EXCEPT ![t] = "drop"]
    /\ UNCHANGED <<disk, model, graphs, environment, references, owned>>

\* The owner calls kenc_model_free, maybe before it frees its streams.
OwnerFrees(t) ==
    /\ owned /\ pc[t] = "idle"
    /\ owned' = FALSE
    /\ pc' = [pc EXCEPT ![t] = "drop"]
    /\ UNCHANGED <<disk, model, graphs, environment, references, sessions>>

\* Mutant of Drop: the count is read again after it was lowered.
DropThenLook(t) ==
    \/ /\ pc[t] = "drop"
       /\ references' = references - 1
       /\ pc' = [pc EXCEPT ![t] = "look"]
       /\ UNCHANGED <<disk, model, graphs, environment, owned, sessions>>
    \/ /\ pc[t] = "look"
       /\ IF references = 0
          THEN model' = "destroying" /\ pc' = [pc EXCEPT ![t] = "destroy"]
          ELSE pc' = [pc EXCEPT ![t] = "idle"] /\ UNCHANGED model
       /\ UNCHANGED <<disk, graphs, environment, references, owned, sessions>>

\* kenc_model_free: fetch_sub is one step, and tells who was the last.
Drop(t) ==
    /\ pc[t] = "drop"
    /\ references' = references - 1
    /\ IF references = 1
       THEN model' = "destroying" /\ pc' = [pc EXCEPT ![t] = "destroy"]
       ELSE pc' = [pc EXCEPT ![t] = "idle"] /\ UNCHANGED model
    /\ UNCHANGED <<disk, graphs, environment, owned, sessions>>

\* ReleaseEnv first ...
ReleaseEnvironment(t) ==
    /\ pc[t] = "destroy" /\ environment
    /\ environment' = FALSE
    /\ UNCHANGED <<disk, model, graphs, references, owned, pc, sessions>>

\* ... then the bytes and the model.
FreeModel(t) ==
    /\ pc[t] = "destroy" /\ ~environment
    /\ graphs' = [f \in Files |-> Absent]
    /\ model' = "freed"
    /\ pc' = [pc EXCEPT ![t] = "idle"]
    /\ UNCHANGED <<disk, environment, references, owned, sessions>>

ModelNext ==
    \/ \E f \in Files : Replace(f)
    \/ \E t \in Threads :
        \/ BeginLoad(t) \/ (\E f \in Files : Read(t, f)) \/ Verify(t)
        \/ EndLoad(t) \/ LoadFails(t)
        \/ BeginCreate(t) \/ CreateSession(t) \/ EndCreate(t) \/ ReleaseSessions(t)
        \/ OwnerFrees(t) \/ Drop(t) \/ ReleaseEnvironment(t) \/ FreeModel(t)

ModelSpec == ModelInit /\ [][ModelNext]_modelVars

-----------------------------------------------------------------------------
(* Properties *)

\* A stream that is being built or used: it is running on the model.
Using(t) == pc[t] = "create" \/ sessions[t] > 0

\* While any thread builds or holds a stream the environment and the graphs are
\* there, and the graphs are the pinned export, whatever was written to the
\* files while they were loaded and whoever has freed the model.
UsedIsWhole ==
    \A t \in Threads : Using(t) =>
        /\ model = "live" /\ environment
        /\ \A f \in Files : graphs[f] = "pinned"

\* The model is destroyed by one thread, once: nobody is left in the middle of
\* dropping a reference to it.
DestroyedByTheLast ==
    model \in {"destroying", "freed"} =>
        /\ Cardinality({t \in Threads : pc[t] = "destroy"}) = (IF model = "freed" THEN 0 ELSE 1)
        /\ \A t \in Threads : pc[t] # "drop"

\* Nothing is leaked: once the owner has freed the model, or the load failed,
\* and every stream is gone, so are the environment and every byte.
NothingLeaked ==
    (\A t \in Threads : pc[t] = "idle" /\ ~Using(t)) /\ ~owned /\ model # "none" =>
        model = "freed" /\ ~environment /\ InMemory = {}

-----------------------------------------------------------------------------
\* What holds between any two steps.
ModelTypeOK ==
    /\ disk \in [Files -> Contents]
    /\ model \in {"none", "loading", "live", "destroying", "freed"}
    /\ graphs \in [Files -> Contents \cup {Absent}]
    /\ environment \in BOOLEAN /\ owned \in BOOLEAN
    /\ references \in Nat
    /\ pc \in [Threads -> {"idle", "read", "hash", "create", "drop", "destroy"}]
    /\ sessions \in [Threads -> 0..SessionsPerStream]

\* Those who hold a reference: a load or a drop under way, and each stream.
Handling == {t \in Threads : pc[t] \in {"read", "hash", "drop"}}
Streaming == {t \in Threads : Using(t)}

CountIs ==
    references = Cardinality(Handling) + Cardinality(Streaming) + (IF owned THEN 1 ELSE 0)

\* What a thread is doing goes with the model.
ThreadStands(t) ==
    /\ pc[t] \in {"read", "hash"} => model = "loading"
    /\ pc[t] = "read" => \A f \in InMemory : graphs[f] = "pinned"
    /\ pc[t] = "drop" => model \in {"loading", "live"}
    /\ pc[t] = "destroy" => model = "destroying"
    /\ Using(t) => model = "live"

ModelStands ==
    /\ owned => model = "live"
    /\ model \in {"none", "loading"} => ~ environment
    /\ model = "none" => InMemory = {}
    /\ model = "loading" => references = 1
    /\ model = "live" =>
          references > 0 /\ environment /\ \A f \in Files : graphs[f] = "pinned"
    /\ model = "destroying" => \E t \in Threads : {u \in Threads : pc[u] = "destroy"} = {t}
    /\ model = "freed" => ~ environment /\ InMemory = {}

ReferenceInv == ModelTypeOK /\ CountIs /\ ModelStands /\ \A t \in Threads : ThreadStands(t)
=============================================================================
