# Verification of kilix-encodec

TLA+ models of the kilix-encodec library and its programs, TLC runs that check
them on small instances, and TLAPS proofs of the properties that matter most.
The source is the reference: every definition names, in PROJECT.json, the lines
it models. Paths below are relative to the repository.

## The system

kilix-encodec encodes 24 kHz mono audio into KMA2 packets and back, one packet
of 960 samples at a time, with a streaming neural network run by ONNX Runtime;
and it keeps local files of such packets, or of independent 48 kHz stereo
frames.

| Part | Source | State | Operations |
| --- | --- | --- | --- |
| native stream | `src/onnx.c` 104-594 | twelve tensors in two banks, the bank in use, the lead-in flag and length | create, reset, set_preroll, encode, decode, free |
| model | `src/onnx.c` 241-307 | reference count, graph bytes | load, retain by a stream, free |
| encoder | `src/encoder.c` | epoch, index, last PTS, flags of the next packet, profile, emitted, exhausted | set_epoch_start, reset, push, free |
| decoder | `src/decoder.c` | epoch, awaited index, last PTS, profile, has_epoch, needs_reset | set_epoch_start, reset, pull, free |
| wire codec | `src/packet.c` | none | packet_write, packet_read, metadata_read |
| options and negotiation | `src/context.c` | none | validate, supported, negotiate, from_marker |
| stereo | `src/onnx.c` 599-844, `src/rvq.c` | two sessions, no stream state | create, encode_frame, decode_frame |
| container | `src/container.c` | reader and writer: position, offset, index; overlap tail | writer create, append, finish; reader create, next, seek |
| source | `src/source.c` | a reader, a decoder, position, faulted | create, pull, seek, free |
| admission | `src/admission.c` | a child process, a socket pair, the descriptors received | open, free |
| content worker | `python/content_worker.py` | one request, the cancellation it watches | main |
| installed assets | `python/installed_assets.py` | admitted descriptors | admitted_assets |
| licence store | `third_party/kilix-license` | receipts on disk | screens, receipts, coverage |
| commands | `tools/file_command.c`, `tools/kenc.c` | the files of one conversion | encode, decode |
| epoch stream tool | `tools/epoch_stream.py` | the states of an encoder and a decoder object | negotiate, read a header, push, pull, encode and decode a stream, probe lookahead |
| converter command | `tools/converter_runtime.py` | sealed inputs, a sandbox of processes, an output directory | one conversion |
| converter builder | `tools/build_converter.py`, `tools/converter_build_io.py` | private stage, archive cache, two published names | one build, several at a time |
| licence authority, content bundle | `tools/vendor_licence_authority.py`, `tools/build_content_bundle.py` | vendored files, pin, binding; Git objects | check, move to another commit, bundle |
| Debian staging | `packaging/onnxruntime/stage_debian.py` | copies of a build tree | stage |
| native package builder | `tools/build_native_package.py`, `Makefile` | locked packages, compiler, a staging directory | build |
| other tools | `tools/export_*.py`, `tools/verify_*.py`, `tools/listening_trial.py` ... | reports | export, verification, measurement |

How they interact: an encoder and a decoder never call one another; the packets
do. Each owns a native stream, and each native stream holds a reference to the
model it was made from, which several streams of several threads share. A source
owns a reader and a decoder and drives the second with what the first reads.
Admission starts a helper process that checks what is installed and hands back
sealed descriptors over a socket, from which a model is loaded. A command is a
process of its own that joins an encoder to a writer, or a source to a WAV file.
The epoch stream tool is a second implementation of the two ends, with which the
graphs that the library runs are verified. The converter that makes those graphs
is built from pinned sources, with the vendored licence authority inside; the
content bundle, built from the same authority, is compiled into the library; the
native package is that library, built against a runtime that was staged before.

What is hard, and what makes each part correct:

- *Two ends that never talk.* Packets are lost, repeated and reordered; either
  end is reset, changes profile or fails an inference when the other does not
  know. A decoder that continues on the wrong state makes noise and no error. So:
  a packet is decoded on exactly the state its encoder computed it for, or not at
  all; none is played twice; nothing that should be played is refused.
- *Failures half way.* An ORT run fails between two runs of a lead-in; an append
  fails and is tried again; a frame decoded ahead of a seek fails. So: nothing
  left over is ever used, and the next legal call works.
- *Files that others write.* A packet file is opened while it is written or
  replaced, an asset while it is installed, a WAV file while it is encoded. So:
  what is accepted is one version, and complete, as far as a look at it can tell.
- *Processes and threads.* The last two references are dropped at once; the
  helper answers, exits, hangs or is killed while the deadline passes. So: freed
  once, by the last; no zombie, no descriptor, no half answer.
- *Crashes.* A command is killed, or the power fails; the move of the licence
  authority is interrupted. So: a success is whole, and synchronized but for its name, an
  unfinished file does not read, and a mix of two commits neither passes a check nor is embedded.
- *Building from what others touch.* Inputs, build trees, caches, output names and
  the machine change between any two steps of a build. So: what is packed is what
  was verified, what is taken back is what was found to be one's own, and what is
  written into a package about the machine holds of what it was compiled with. Each
  check is a look, and what changes and changes back between two looks gets past
  them: the properties say what does.

## Modules

| Module | Models | Composition |
| --- | --- | --- |
| KencNative | a native stream: two banks, each the sequence of frames run on it | |
| KencPacket | a parsed packet | extends KencNative |
| KencEncoder | `kenc_encoder` and the packets emitted | extends KencPacket |
| KencDecoder | `kenc_decoder`, given any packet that parses | extends KencPacket |
| KencStream | the two ends and a carrier that loses, repeats, reorders | KencEncoder, KencDecoder |
| KencPlayback | abstract: what the two ends promise together | implemented by KencStream |
| KencModel | a model shared by threads: load, count, destruction | |
| KencContainer | the packet file's layout, and who writes it | |
| KencWriter, KencReader | `kenc_file_writer`, `kenc_file_reader` | extend KencContainer |
| KencFile | a reader of a file that a writer is making, or that other programs overwrite, extend and cut | KencWriter, KencReader |
| KencSource | `kenc_file_source` on an accepted file | extends KencDecoder |
| KencAdmission | `kenc_installed_assets_open` against its helper | |
| KencInstalled | `admitted_assets` against an installer | |
| KencCommand | several `kenc encode` and `kenc decode` on the same paths | |
| KencEpochStream | selection of a profile and the Python ends | NativeStream of its property is an INSTANCE of KencNative |
| KencConverter | the conversion command, its sandbox and the clock | |
| KencBuild | several builders, one output root, one cache | |
| KencVendor | the licence authority, its move, and those that embed it | |
| KencStage | the staging of the runtime packages | |
| KencPackage | the native package, while the machine is upgraded | extends KencStage: the artifact staged there is what it unpacks |
| KencNativeProofs | lemmas: the operators of KencNative, counting | |
| KencDecoderProofs | lemmas: the decoder given any packets | extends KencDecoder, KencNativeProofs |
| KencStreamProofs | theorems: the encoder, the two ends, the refinement | extends KencStream, KencDecoderProofs |
| KencFileProofs | theorems: packet file, source | extends KencFile, KencSource, KencDecoderProofs |
| KencAssetProofs | theorems: model, admission, installed assets | extends the three |
| KencProgramProofs | theorems: commands, conversion | extends the two |
| KencBuildProofs | theorems: builders | extends KencBuild |
| KencReleaseProofs | theorems: licence authority, packages, epoch stream tool | extends the three, KencNativeProofs as an INSTANCE |
| MC* | constants and environments of the runs | |

Variables keep the names of the fields with a prefix for the structure (`enc_`,
`dec_`, `s_`, `r_`, `w_`, `a_`, `i_`, `c_`); what the code does not hold is
marked history. An action is a call that returns KENC_OK, or one outcome of a
call that fails; a call that is refused before anything is assigned is a
stuttering step. Where a call can be interrupted, or others act during it, it is
split at those points: ORT calls, reads and writes of files, system calls.
Definitions called *Mutant of* another are that definition with a plausible
mistake in it; they are part of no specification, and show for each property
which mistake it would find.

The main abstractions:

- **Tensors and tokens.** A network is a function of what it has been run on
  since its tensors were zeroed, so a bank is that sequence of frames, and the
  tokens of a packet are the sequence of audio behind them. Two states are the
  same exactly when the sequences are. A failed run leaves `Junk`.
- **Numbers.** The 64-bit epoch and PTS end at `EpochMax` and `PtsMax`, and what
  comes after the last is 0 (`EpochAfter`, `PtsAfter`), as in a `uint64_t`. The code's
  guards against that are part of the actions; without the one of the PTS a packet at
  0 follows the last one, which is what the mutant of `TimelineMarked` does.
- **Files** are sequences of units, the least that a stopped write leaves. A
  write may leave the time stamps as they were (`HiddenWrites`), because file
  systems' clocks tick coarsely.
- **Looks.** A path that is walked, a directory that is listed and a population that
  is looked through are one step for each directory and name, so that others can act
  between any two. A check by name and what is then done by that name are two steps.
- **Pinned bytes** are one value, `Good` or version 0, and everything else another:
  a digest tells the two apart and nothing more. A Git object is named by its
  bytes, so a name and its object are one value unless the store is damaged.
- **Populations** of files are two or three, one of each kind the code treats
  differently: pinned and loose, library, header and documentation.
- **Processes of the sandbox** may do anything at any time; an orphan goes to the
  subreaper. The lookup of a receipt inside the embedded authority is one answer.

## Runs

Every run has one configuration, that of its module, and passes. The figures are
distinct states.

| Run | Question | Bounds, and why they are enough |
| --- | --- | --- |
| stream | Is what is heard what was sent, through losses, resets, failures, profile changes? | Two epochs of two packets (the last one is the last number), two sounds, three PTS, a lead-in of two: an epoch has a start, a continuation and a boundary, the number spaces an end behind which they begin again, and a lead-in an even number of bank changes, as the real four. 152,420 |
| model | Are graphs verified, whole and there while used; freed once, by the last? | Three threads (the owner, one that creates, one that destroys), two files. 420 |
| file | Is a file with a header whole, wherever its writer stopped or retried; is a finished one read; is what is played one file as it was at one moment, whatever others do to it? | Written: mono of three records over two epochs and of one, and stereo of two, records of one or two units, so that a retry may be shorter; the reader opens at any point. Of others: three mono files of two records, two of one shape and one of another size; two writes of a unit, or cuts: a change and its undoing, or one after the copy. Any write may hide from the time stamps. 347,908 |
| source | Is PCM at a position independent of how one got there? | Five records over three epochs, the last shorter; seeks to every sample. 415 |
| admission | Helper, deadline, cancellation, other waiters: descriptors, zombies, verdict | A profile of two descriptors, up to two records with up to three: too few, right, too many, and trailing. 105,003 |
| installed | Are the copies one installation, still licensed? | A graph and a notice, the content root and two directories below it, two names that are not declared, two receipts; three changes at any point: one and its undoing, and another that is seen at another look. 1,352,234 |
| command | Success, failure, kill and power failure: which files are whole? | An encoder and a decoder on one path, records and header of two units, two versions of the input after the first; after a power failure the disk may have any entry that the path has had. 113,536 |
| epoch | Do the two Python sides agree on a profile and hear what the library would? | Releases of four ages, from before the profiles to one that knows more, any advertisements or one damaged field; streams of up to four packets in epochs of two or in one, a lead-in of two, one raise at any run: an epoch boundary, and a second use of the objects after it. 38,055 |
| converter | Does the sandbox read pinned bytes, and does a success leave pinned outputs? | The bundle and one input of two blocks, rewritten twice; one output; three processes: a child, its child, and an orphan. 354,651 |
| build | Several builders: what is published, taken back and left? | Two builders (symmetric), a pinned and a loose file, two edits, substitutions or moves: one for each builder, or one and its undoing; any removal may raise. 2,583,587 |
| vendor | Is what the offline check accepts, and what is embedded, one commit? | Two authorities, which share a blob; three content commits, one honest for each and one that vendors what its pin does not name; three paths, two of them embedded; two faults. 1,261,198 |
| package | What gets past the checks of the staging; does the package depend on what it was compiled with? | A library, a header and a paper of two versions each; three changes of inputs or machine, to any version, those before included: a library changed, put back and changed again is the least that gets one past; three packages, two of them locked; four loaded libraries; three tables of owners: one each, none, two. 4,519,352 |

Deadlock is not checked where all may rightly have ended or be refused (an
exhausted encoder, a returned call, finished commands, the last edit).

### What they show

*Streaming.* `EmitsForward`, `EpochsIndependent` and `TimelineMarked` hold of the
encoder through any resets, failures and profile changes: no number twice, no
packet computed on anything but its own epoch, no unmarked break in time.
`DecodesTheEncodersEpoch` and `PlayedOnce` hold of the decoder whatever is
delivered. `ImplementsPlayback` says it all at once: the two ends behave as a
listener that joins an epoch at its start and hears it frame by frame, with no
packets in sight.

*The Python ends.* `AsTheNativeStream` compares the tool with KencNative packet by
packet: what the graphs are verified with is what the library will run, also when
runs raise and objects are used again. `SidesAgree` compares its negotiation with
that of `src/context.c`, for releases that know more or fewer profiles;
`NoDamageMisleads` says why the header's marker costs a version of the format: no
one damaged field names another profile.

*Files.* `CompleteOrUnreadable`: a header is written last, and never reads before
the file is whole, also after a failed append was tried again. `PlaysFromIndex`
holds even when a time stamp hides a write, because the copy is validated before it
is used: others may put together a file of parts of several, which the scan may accept,
and what is played is that copy, whatever the file becomes.
`CopyIsOfOneMoment` says that only a change which leaves size and both time stamps as
they were can mix two versions. `ReadWholeInTheEnd`: a reader that keeps trying gets a finished file.

*Assets.* `OneCompleteAnswer`, `DescriptorsAccounted` and `HelperIsGone` hold
whatever the helper does. `WholeAtOneMoment`: members read at different times are
handed out only if they were together at one moment after all had been read; that
is what the second look at every identity is for. `AuthorityOutlivesReading` claims
less, since links and names are looked at one by one: each directory below the content
root, each undeclared name and the receipt was in order at a moment of its own after
the last byte was read. It says nothing of the content root and what is above
it.

*Commands.* `SuccessIsWhole`, `IncompleteDoesNotRead` and `ExistingPreserved` are
the promises of README.md about exit status, failed outputs and existing files. After
a power failure a success is whole or not there: the file is synchronized, the
directory it is named in is not.

*Conversion.* `ReadsPinnedBytes`: the digest is of the copy, so no rewriting
reaches the sandbox. `ConvertedIsWhole` needs the collection of every process
between the exit of the child and the comparison of its outputs; the mutant that
collects the child alone lets one of its children change a file that was compared.

*Builds.* `CommandHasItsRuntime` rests on the order of publication and on the
reverse order of the rollback. `OnlyOwnIsTakenBack` is what the comparison of inodes
can do: a rollback removes a name only when it has just found its own entry there,
so that it takes its own or what somebody has put over it since, and never what
another builder has published. `FailedLeavesOnlyBin`: a build that fails leaves `bin/`
in the output root, which it may have made, and a whole archive in the cache.
`BuiltIsPinned` holds although sources are read three times, since the last read is
the one that is packed. `EmbeddedIsOneCommit` holds although pin, binding and files
are written one after the other, since each of those who embed compares two of them.
`StagedAsRecorded` counts what must happen for other bytes than the pinned ones to be
packed: a header has to be changed and put back, a library twice.
`FloorsHoldTheBuild` holds across upgrades between make and the look at the owners
because of two facts: versions only go up, and what is linked directly must have
the locked version both before and after.

### Where the code does less than its documents say

- The comment at `tools/build_converter.py:507` says never to unlink a substitute at
  the command's name. The name is stat'ed at 510, the inode compared at 514, and the
  name unlinked at 515; what is put there in between is unlinked. The directory has
  the same gap (518, 523). The look and the removal are two steps of KencBuild, and
  `OnlyOwnIsTakenBack` says what remains true of them.
- `packaging/onnxruntime/README.md:129` says that the exact candidate recorded is
  packaged. The tree is verified at `stage_debian.py:55` and `:82`, and cmake installs
  from it at `:80`; what was installed is not verified, and the headers are packed from
  there (`:169`). A header changed after 55 and put back before 82 is packed with its
  other bytes. Whoever rebuilds without putting back is found out, and so is one
  return of a library, since it is compared with the tree again (`:147`, `:162`).
  `StagedAsRecorded` therefore counts returns; without the count TLC finds the trace.

### Fairness

Safety properties assume none. The three liveness properties assume:

- `ReadWholeInTheEnd`: opening a file goes on, and is tried again after a refusal
  (WF of OpeningStep). The writer may stop for ever; the property is about files
  that are finished.
- `CallReturns` (admission): the caller's thread runs (WF of Caller), and time
  passes (WF of DeadlinePasses). Nothing is assumed of the helper: it may hang.
- `Returns` (conversion): the command runs on (WF of Run) and time passes (WF of
  Expire). Nothing is assumed of the sandbox.

### Observations

- *A cancellation must stay.* `kenc_installed_assets_open` asks the callback again
  at the verdict (`src/admission.c:224`). One that reports a cancellation once
  makes it kill a working helper and return KENC_ERR_MODEL. The
  run has such callbacks too: what it answers is still one complete answer.
- *Nobody else waits for children.* In a process that ignores SIGCHLD, or waits
  for any child in another thread, the kill at `src/admission.c:253` may meet a
  number that is another process's by then. `KillsOnlyItsOwn` is stated for
  processes that do not; without `~reaps` TLC finds the trace.
- *A write shows.* KencReader may copy from two versions when a write hides from
  both time stamps. Such a copy is played if it validates.
  KencInstalled takes every change of a member to show in one of the inode, link
  count, size and two time stamps, and KencCommand a change of its input likewise.
- *A file that is called incomplete may be whole.* After a failed fsync or close
  the message at `tools/file_command.c:363` says that the output is incomplete;
  it may then read. `IncompleteDoesNotRead` therefore says: unless it is whole.
- *A failed push lets the profile change.* `include/kilix_encodec.h:151` allows a
  change of profile after packets behind an explicit `kenc_encoder_reset`. A push
  whose inference fails resets the encoder itself (`src/encoder.c:105`), and the
  change is accepted. Nothing is decoded wrongly by it: the stream run includes it.
- *The name of a success may be lost.* `tools/file_command.c:359` synchronizes the
  file and nothing the directory it was created in, so that after a power failure the
  output of a command that returned 0 may not be there. README.md promises
  that the header is synchronized, which holds.
- *The path is walked once.* `_Tree.root` (`python/installed_assets.py:107-172`) opens
  the content root from the top; `recheck` (`:182-190`) looks again only at the links
  below it. When the root is moved after that, the copies are those of the root that
  was opened.
- *What a failed build leaves.* `bin/` is created in the output root
  (`tools/build_converter.py:489`) before anything is published, and no rollback
  removes it. When the output root has been moved away by then, it is made again, and
  the build fails with that new root left behind. When a removal raises, what was
  to be removed after it stays; `FailedLeavesOnlyBin` excludes such builds
  (`stranded`).
- *What a killed build leaves.* Killed while it fills the cache entry
  (`tools/build_converter.py:389`), it leaves a partial archive that every later
  build refuses, until somebody removes it; killed between the directory and the
  command (`:497`), a directory that blocks the next build in the same root. A
  concurrent build may fail on the entry another is writing. `FailedLeavesOnlyBin`
  is about builds that fail, not about those that are killed.
- *What the environment of a build does not do.* In KencBuild others put entries of
  theirs at the final names, but remove none, and a moved root does not come back. An
  environment that is given with `--environment`, and not prepared from the lock, is
  not modelled; nor are the cache's directory and that of `uv`, which are created
  when missing and kept.
- *The receipt's reference is a second read.* `build` of the content bundle reads
  the authority again for its receipt (`tools/build_content_bundle.py:239-269`);
  after a move it names another commit than the one embedded. `EmbeddedIsOneCommit`
  is about what is embedded.
- *Edited files are recorded.* `--write` takes the digests of what is on disk; a
  file edited between its writing and the binding's becomes the pinned one. The two
  properties of KencVendor that this concerns say: unless `edited`.
- *Papers.* The documentation of a staged package is copied long after it was
  verified (`packaging/onnxruntime/stage_debian.py:194-198`); `StagedAsRecorded` does
  not cover it. The `built` fingerprint of a runtime library may be that of a newer
  version than the one linked; the floor covers it. dpkg is assumed to replace a
  package's files and its record in one step, with versions that only go up.

## Proofs

TLAPS proves, for every value of the constants, the theorems below: every invariant
and action property that a run checks, the refinement `ImplementsPlayback`, and
`NothingLeftOpen`, which no run asks for: its closing half follows from one step of the
model, in which the places where the code closes its descriptors are one. They
rest on the named assumptions of the modules alone, which say that sizes and bounds
are numbers, that names and bytes are told apart, and:

- `PrerollAssumption`, `PacketAssumption`: a lead-in, an epoch and a PTS step are not
  empty. Epochs, number space, lead-in and audio are otherwise any.
- `ContainerAssumption`, `WriterAssumption`, `ReaderAssumption`: a record, a header and
  an epoch are not empty. Nothing is assumed of the lengths of files, of how a write
  may stop, or of what hides from a time stamp.
- `VersionsAssumption`: what others make of a file is made of units. What it says, and
  how often it is written or cut, is any.
- `FileAssumption`: the record numbers of a file fit the number space, since
  validate_info allows a file a day at most.
- `AdmissionAssumption`: a profile has a descriptor, and no more than there is room
  for. Records, descriptors in them and their order are any.
- `InstalledAssumption`, `VendorAssumption`, `StageAssumption`, `PackageAssumption`:
  what is kept, embedded, linked directly or loaded from `--deb-directory` is among
  what there is. Members, receipts, commits, paths, libraries and the number of
  changes are any.
- `EpochStreamAssumption`: the probe's margin is more than the deepest lookahead the
  property asks it about (the code keeps 8 packets, the property asks up to 4);
  `None` is not a sequence, as it is not a tensor.
- `ModelAssumption`: the threads are finitely many, as a count of references needs.
- `CommandAssumption`, `ConverterAssumption`, `BuildAssumption`: as said above.

| Theorem | States |
| --- | --- |
| EncoderInvariant | `EncoderSpec => []EncoderInv` |
| EncoderEmitsForward | `EncoderSpec => EmitsForward` |
| EncoderEpochsIndependent | `EncoderSpec => []EpochsIndependent` |
| EncoderTimelineMarked | `EncoderSpec => []TimelineMarked` |
| EncoderNumbersFromZero | `EncoderSpec => []NumberedFromZero` |
| StreamDecoderInvariant | `Spec => []DecoderInv` (KencStream) |
| StreamTypeCorrect | `Spec => []TypeOK` |
| StreamPlaysOnce | `Spec => []PlayedOnce` |
| StreamDecodesTheEncodersEpoch | `Spec => []DecodesTheEncodersEpoch` |
| StreamImplementsPlayback | `Spec => ImplementsPlayback` |
| FileInvariant | `FileSpec => []FileInv` |
| FileCompleteOrUnreadable | `FileSpec => []CompleteOrUnreadable` |
| FilePlaysFromIndex | `FileSpec => []PlaysFromIndex` |
| FileAcceptedHasAll | `FileSpec => []AcceptedHasAll` |
| FileCopyIsOfOneMoment | `FileSpec => []CopyIsOfOneMoment` |
| SourceInvariant | `SourceSpec => []SourceInv` |
| SourcePlaysAsContinuous | `SourceSpec => []PlaysAsContinuous` |
| ModelInvariant | `ModelSpec => []ReferenceInv` |
| ModelUsedIsWhole | `ModelSpec => []UsedIsWhole` |
| ModelDestroyedByTheLast | `ModelSpec => []DestroyedByTheLast` |
| ModelNothingLeaked | `ModelSpec => []NothingLeaked` |
| AdmissionInvariant | `AdmissionSpec => []AdmissionInv` |
| AdmissionDescriptorsAccounted | `AdmissionSpec => []DescriptorsAccounted` |
| AdmissionOneCompleteAnswer | `AdmissionSpec => []OneCompleteAnswer` |
| AdmissionHelperIsGone | `AdmissionSpec => []HelperIsGone` |
| AdmissionKillsOnlyItsOwn | `AdmissionSpec => []KillsOnlyItsOwn` |
| InstalledInvariant | `InstalledSpec => []InstalledInv` |
| AdmittedTreeWasWhole | `InstalledSpec => []WholeAtOneMoment` |
| AdmittedAuthorityHeld | `InstalledSpec => []AuthorityOutlivesReading` |
| InstalledClosesAll | `InstalledSpec => []NothingLeftOpen` |
| CommandInvariant | `CommandSpec => []CommandInv` |
| CommandSuccessIsWhole | `CommandSpec => []SuccessIsWhole` |
| CommandIncompleteDoesNotRead | `CommandSpec => []IncompleteDoesNotRead` |
| CommandPreservesExisting | `CommandSpec => ExistingPreserved` |
| ConverterInvariant | `Spec => []ConverterInv` (KencConverter) |
| ConverterReadsPinnedBytes | `Spec => []ReadsPinnedBytes` |
| ConverterConvertedIsWhole | `Spec => []ConvertedIsWhole` |
| BuildInvariant | `Spec => []BuildInv` (KencBuild) |
| BuildCommandHasItsRuntime | `Spec => []CommandHasItsRuntime` |
| BuildFailedLeavesOnlyBin | `Spec => []FailedLeavesOnlyBin` |
| BuildBuiltIsPinned | `Spec => []BuiltIsPinned` |
| BuildOnlyOwnIsTakenBack | `Spec => OnlyOwnIsTakenBack` |
| VendorInvariant | `VendorSpec => []VendorInv` |
| OfflineCheckSound | `VendorSpec => []OfflineCheckMeansOneCommit` |
| EmbedsOneCommit | `VendorSpec => []EmbeddedIsOneCommit` |
| BundleHoldsItsCommit | `VendorSpec => []BundleIsItsCommit` |
| PackageInvariant | `PackageSpec => []PackageInv` |
| DebianStageAsRecorded | `PackageSpec => []StagedAsRecorded` |
| PackageFloorsHold | `PackageSpec => []FloorsHoldTheBuild` |
| SelectionInvariant | `Spec => []SelectionInv` (KencEpochStream) |
| ProfilesAgree | `Spec => []SidesAgree` |
| HeaderDamageIsSeen | `Spec => []NoDamageMisleads` |
| EpochInvariant | `Spec => []EpochInv` |
| EpochAsTheNativeStream | `Spec => []AsTheNativeStream` |
| EpochLookaheadIsMeasured | `Spec => []LookaheadIsMeasured` |

*The encoder.* That numbers only go up is not inductive: it needs that the number
the encoder stands at is above all used ones, which after a failure needs to know
whether one was used. `EncoderInv` says that the encoder is always at one of three
points: nothing done (`AtStart`), reset (`AtDiscontinuity`), or directly behind a
packet whose history is the current bank (`InEpoch`); at each it says what the
stream holds. That no sum of an epoch or PTS has wrapped is a lemma
(`NumbersAfter`), which needs the guards. Every action leads from one of the three to another. The operators
of KencNative are proved once (KencNativeProofs): what a run appends, what a reset
zeroes, that the failed outcomes are streams, and every step uses those lemmas.

*The decoder.* `DecoderInv` ties the fields to the packet played last
(`AtLastPlayed`), says that a decoder that is not waiting for a RESET has heard
exactly what its bank holds (`Synchronised`), and carries the order of everything
played. It is proved of a decoder given any set of well-formed packets
(KencDecoderProofs), so it does not depend on an encoder; KencStreamProofs then
instantiates it with what the encoder has sent, and KencFileProofs with the records
of a file. Only `DecodesTheEncodersEpoch` needs both invariants: the packets heard
continue one another, two packets with one number are the same, and so the sequence
heard is the one the encoder computed.

*The refinement.* The listener of KencPlayback hears the frames of an epoch from the
first one on. `NumberedFromZero` says that the packets of an epoch are numbered from
0 without a gap, `OnlySent` and `PlayedFromZero` that what is heard of an epoch is its
first packets, so the packets the mapping chooses by number exist and are unique
(`HeardIsPublished`). With that, a push or a pull that succeeds is a step of the
listener, and every other action a stutter.

*The packet file.* `HeaderStands` says why a header may be trusted: a unit of it is in
the file only when all the rest is, because finish writes it last and no append
follows. `AppendedStands` says where the records are, one behind the other, which
after a failed append means that the next one overwrites what the failed one left.
`ReaderInv` follows the scan of the copy from record to record, so that each index
and each time stamp is that of the record which is found there; it is proved of any
bytes that were copied. `CopyStands` joins the two: behind a whole header the file is
one that nobody changes any more, so what was copied after it is what was appended.
Where others do change it, `CopyIsSoFar` says as much of what has been copied so far,
for as long as no change can be seen and none was hidden; `ReaderInv` is proved once
for both.
`AcceptedHasAll` is the safety half of `ReadWholeInTheEnd`: a file accepted at any
moment, also while finish is under way, has all that was appended.

*The source.* `MonoStands` says that what the decoder was last heard playing is a
record of the file, on exactly the history that continuous playback gives it there,
whatever was sought and failed before; `StereoStands` that the tail which is held is
the record's before the next one. The rest is `DecoderInv`: a decoder that accepts a
record either starts an epoch or goes on from the record before.

*Admission.* `HelperStands` says that the caller has a process number as long as there
is a helper that has not been waited for, which is what `kill` and `waitpid` rely on;
`AnswerStands` that what was taken is the first record, acceptable and in full, and
that the channel has all the others; `DescriptorsStand` that what is open is what the
caller holds or was given: nothing before that record, the profile's number after
it, and given only when the helper has ended well.

*Installed assets.* `ReadStands`: a member whose identity is what it was when it was
read is still what was read, because no identity comes back. `MomentStands`: once the
reading is over, either there has been a moment at which all was whole, or some
member has another identity by now and has not been looked at again. `AuthorityStands`
says what has been looked at again since the last read, directory by directory and
name by name, and that it was in order then; each of them is in the history
of its own, as nothing ties one look to the next. `KeptStands` says whose descriptors
are open.

*The licence authority.* Pin, binding and files are written one after the other, and a
move can stop between any two. `BindingStands` says that a binding which recorded
no edited file has the digests of the commit it names, `MoveStands` that a move writes
the files of the commit it moves to, and `BundleStands` that a bundle in the making has
read the objects of its own commit. None of them says that pin, binding and files agree:
they need not, and each of those who embed compares what it relies on.

*The packages.* `InstalledStands`, `LibrariesStand` and `DebsStand` follow each file
through its copies and count its returns. What was installed has been in the tree; if
it is not pinned, the tree has returned to the pinned version when the second
verification has passed, and once more if it then holds what was installed, which is
what the comparison of a library asks. `UsedStands`
says that what make linked with is no newer than what would be found now,
`OwnersStand` that a library's owner is named at a version that is as new, and
`FloorsStand` that the floor is that version, or the locked one of what is linked
directly. These three rest on one fact about the machine: versions of packages only go
up, so one that is the expected one both before and after was it in between.

*The epoch stream tool.* `SelectionInv` needs no more than that a side selects once and
from a header of the other or a damaged one. `EpochInv` says that each end stands
behind its last packet, and that every packet `Continues` the one before it or starts
at a boundary from the lead-in; what an object held before does not appear in
it. `EpochAsTheNativeStream` shows that this determines the stream, and that the
native stream of KencNative does the same. `EpochLookaheadIsMeasured` needs that a
stream is causal, so that noise behind a packet cannot reach what is rendered up to
it, and that noise at each depth does reach a rendering that looks as far ahead.

*The commands.* That a success is whole needs to know what every earlier step of
the command has left. `CommandInv` is `Stands` of each command: the file exists
from its creation on; its records were made from versions no older than the one
seen first; there is none of the header before all records are of that one
version, which is where `InputUnchanged` comes in; and it is synchronized before
it is closed; a success stands as long as the power does, and after that if the
file is there. `OthersStand` shows that a command's stand survives whatever is not
its own step, so each action is considered for its own command only, and
`RemainsIs` that a power failure leaves synchronized files alone.

*The model.* `ReferenceInv` says whose references are counted (`CountIs`): the
caller's, one of each load or drop under way, and one of each stream, and where
the model is for each of them (`ThreadStands`). A thread that finds the count at
one holds the only reference (`Alone`), so nobody else is reading, streaming or
dropping; that is what the load relies on when it verifies, and the destruction
when it frees.

*The conversion.* That nobody is left to change a compared output rests on
`Orphans`: a living process's parent lives or is the subreaper, and every set of
living processes has one whose parent is outside the set. Forking and dying keep
it (`ForkLeavesNoCircle`, `GoneLeaveNoCircle`), and so a subreaper without a child
is alone (`NoChildNobody`): what waitpid reports of children holds of all
descendants. `SealedInOrder` says that the first process starts when every
snapshot is complete and compared; none is written to afterwards.

*The builds.* `BuildInv` is `Stands` of each builder: which of the two names it can
hold at its stage, whether its entry of the cache is whole, what it has packed; and
`OneRemoves`, of two builders. Between the look and the removal a name has
the builder's entry or somebody else's, never one of another builder, because rename
and link replace nothing, and a name at which a builder stands is not free for
another; so a removal takes no other builder's entry. The order of removals
is what the second name needs. `OthersStand` shows that steps of the others reach a
builder in no other way.

*Sequences and counting.* The library's induction theorems take an operator as a
parameter, which the installed provers cannot instantiate. KencNativeProofs
therefore proves that a set of numbers has a least one (from well-foundedness of
`<`), and from it that what holds of 0 and is kept by a step holds of every number
of a set (`UpTo`), and that a function defined step by step is what its steps say
(`Steps`). With these two the scan of a file and the streams, which are recursive
functions, are reasoned about; no module has a RECURSIVE operator.

The inductive invariants were checked by TLC, as invariants of the runs, before they
were proved. No run states them now: a run states what a reader would ask.

Model-checked only is liveness, which is out of the prover's reach: `CallReturns`,
`Returns`, and the second half of `ReadWholeInTheEnd` (that a finished file is read
in the end).

## Not modelled

- The numbers: networks, quantizers (`src/rvq.c`), conversions of samples, WAV
  chunks. They are functions without state between calls.
- The digits and bits of a packet (`src/packet.c`): a pure function of one buffer.
  KencPacket has its fields and which of them are well formed.
- Validation of option structures and `kenc_epoch_start_from_marker` in
  `src/context.c`: stateless comparisons. Negotiation is in KencEpochStream.
- The licence store (`third_party/kilix-license`), vendored from another
  repository; KencInstalled and KencConverter have what they see of it.
- The export tools, which rewrite graphs in the memory of one script, and the
  verification and listening tools (`tools/verify_*.py`, `tools/listening_trial.py`,
  `tools/bench_native.py`): they compare audio, draw figures from it and write a
  report once. They are most of the Python of the repository, and no interleaving,
  failure or restart is handled in them.
- The checks the content worker makes of its own interpreter; in KencAdmission the
  helper may end at any point for any reason.
- That a decoder which lost synchronisation gets a RESET again: that is up to the
  carrier, and no fairness in the code gives it.

PROJECT.json lists every part with its status.

## What could follow

- an ordered link with fair delivery under the two ends, for their liveness;
- the licence store's receipts, in place of the `receipt` of KencInstalled;
- an abstract specification of the packet file (a list of records that is either
  not there or whole), implemented by KencFile: `FileInv` has the mapping.
