# A verification project for hauler

hauler collects images, Helm charts and files into an OCI layout on disk (the
*store*), packs it into an archive (a *haul*), carries it across an air gap and
loads, copies or serves it there. What users rely on is that the store holds
exactly what they asked for, verified, complete and durable, and that it leaves
the store the same way, although many goroutines and several processes work on
these files, registries fail, tags move, disks lose data, and any process may be
killed at any time.

These TLA+ modules model the part of hauler that has to get this right: the
content store (`pkg/content`, `pkg/store`), the commands that fill, check, empty
and pack it, and the pipeline of `hauler store sync`. TLC checks them on small
instances; theorems about eight of them are proved with TLAPS for every value of
their constants. `PROJECT.json` lists the components, the runs, the mutants, the
source lines of each definition, the hazards, the findings and the theorems.

## 1. Inventory

| Part | State | Operations | What is hard | Correct when | Module |
|---|---|---|---|---|---|
| Blob store: write paths of `content.OCI` (`pkg/content/oci.go`, `stats.go`) | files under `blobs/sha256`, temp files, singleflight groups, `blobSem`, counters | `WriteBlob`, `Pusher.Push` + `Close` | goroutines share downloads and permits; contexts are cancelled, I/O fails, process and machine stop | a final path holds verified bytes only; one download per digest; no permit leaks; "no error" means the file is there | `BlobStore` |
| Index: `index.json` of `content.OCI` (`oci.go`, `reference.go`, `migrate.go`) | `nameMap`, the decoded `index`, `lastDurableSave`, the file | `AddIndex`, `LoadIndex`, `SaveIndex`, `Push` of a root, `UpdateAnnotations`, `RemoveFromIndex` | saves without fsync between checkpoints; failed saves; decoding into shared maps; keys that do not match references; stores of older versions | what was reported as added is in the file until it is removed; a file that can be read after a power loss has what a checkpoint promised; memory and file agree | `OCIIndex` |
| Layout: `store.Layout` and the commands add, load, remove (`pkg/store/store.go`, `cli/store/{add,load,remove}.go`) | blobs and index together | `AddImage`, `AddArtifact`, `Copy`, `RemoveArtifact`, `CleanUp`, final `SaveIndex` | order of blobs and entries; shared blobs; retries of half-done adds; clean-up after failures | an entry in `index.json` is complete; only what was asked changes; success means done | `Layout` |
| Sync: images (`cli/store/sync.go`, `pkg/cosign`, `pkg/retry`, `storeImage`) | errgroup with its context, the `Verifier` cache, pinned digests | pin, set up, verify, retry, store, rewrite | tags move between check and pull; one error cancels the others; `--ignore-errors` | what is stored is what was checked; errors are the real ones; one setup per config | `ImageJobs` |
| Sync: charts (`cli/store/add.go`) | levels, seen set, shared temp root, discovered images | `traverseChartLevels`, `fetchChart`, `dedupeImageJobs` | cycles, shared dependencies, `file://` dependencies inside the parent's expansion | every dependency fetched, once, from a directory that is there | `ChartTraversal` |
| Sync: files (`cli/store/sync.go`, `pkg/artifacts/file`) | `LayerCache`, its flights, the store | `runFileJobsWith`, `storeFile`, `getOrFetch`, `AddArtifact` | shared flights, failures that must not be remembered, a source read twice | what is stored is what the source had, under its digest; one digest per source | `FileJobs` |
| Sync: the command (`SyncCmd`, `processContent`) | the documents left, what was reported | documents in order, the first failure ends | promises of earlier documents and what later ones rename | what was reported as stored is stored; the command ends | `SyncDocument` |
| Finding stores: `inventory.go`, `flags/store.go`, `NewLayout`, `resolveTargetStore` | `store.json`, `stores.json`, their temp files, opened Layouts | resolve, identify, register, prune | processes that share temp names; kills between two files; stores moved, copied, deleted | a store stays findable under its id; one Layout per directory | `Stores` |
| Store check (`cli/store/info.go`, `pkg/store/check.go`) | a memo per digest, the report | `InfoCmd --check`, `Check`, `CheckBlob` | goroutines that wait for each other's answer, shared blobs, nested indexes, corrupt manifests | "passed" means whole; every damaged artifact is reported; a blob is read once | `StoreCheck` |
| Copy and extract (`cli/store/{copy,extract}.go`, `store.go`, `internal/mapper`) | what the registry has, files, retries | two walks, `Layout.Copy`, the verifying writer | the order of parts, manifests and tags; lost pushes; other processes add meanwhile; damaged blobs | a repository is whole at every moment; success means delivered; a bad file is reported | `StoreCopy` |
| Hauls: save, chunks, load (`pkg/archives`, `cli/store/{save,load}.go`, `pkg/audit`) | archives, chunk files, temp directories, `audit.log` | `SaveCmd`, `SplitArchive`, `JoinChunks`, `Unarchive`, `MergeStoreLog` | stale or missing chunks, two schemes of chunk names, a temp directory used again, a size that overflows | a load sees exactly one save, complete; the audit log follows the content | `Hauls` |
| Progress and capture (`pkg/log`) | renderer, pipes, swapped stdout | `Start`, `Stop`, `CaptureOutput` | who waits for whom | every session ends | - |
| Serve, printing half of info, manifest generation | read the store | walks | - | - | - |
| Artifact adapters, getters, layer cache of `pkg/layer` | none shared | build manifests and layers | formats | - | - |

**How they interact.** A command finds its store (`Stores`) and opens one
`Layout` on it (`NewLayout`, `LoadIndex`). `sync` reads its manifest and hands
each document to the image, chart or file pipeline; each pipeline is an errgroup
of at most `--concurrency` goroutines which call `Layout.AddImage` or
`AddArtifact`. Those call `content.OCI.WriteBlob` for every blob and `AddIndex`
for every entry. All goroutines share the `OCI`: its mutex serialises the index,
its singleflight groups and its semaphore the blobs. `save` packs the directory;
`load` unpacks it into a temp directory, opens a second `Layout` there and copies
it into the store with `Pusher.Push`. `remove` takes an entry out of the index and
lets `CleanUp` delete what no entry reaches. `info --check`, `copy` and `extract`
only read the store.

## 2. Modules

```
VerifiedBlobs <--refines-- BlobStore          BlobStoreProofs
                              | one step each in
OCIIndex  -- one step each in -> Layout       OCIIndexProofs, LayoutProofs
                Catalog <--refines-+
                                   | an add is one or two steps in
ImageJobs, ChartTraversal, FileJobs
          -- composed by -->  SyncDocument    SyncDocumentProofs
Stores                                        StoresProofs
StoreCheck                                    StoreCheckProofs
StoreCopy                                     StoreCopyProofs
Hauls                                         HaulsProofs
MC<module>: the small instances for TLC
```

A module's actions are the operations of the code, or the steps of one between
two points where something else can come in: another goroutine or process, a
failure, a kill. Operators named `...Trusting`, `...Unsynced`, `...Shallow` and
so on, preceded by `Mutant:`, are not part of the model: they are the changes of
the code that the properties have to notice.

**VerifiedBlobs** is the abstract store: a set of digests whose content is
stored, and calls that are idle, busy, answered "ok" or with an error. "ok"
implies stored; only a stop of the machine takes content away.

**BlobStore** is `WriteBlob`, `writeBlobShared`, `writeBlobOnce`,
`ociPusher.Push` and `ociBlobWriter`: stat, join or lead a flight, acquire the
semaphore, stat again, create the temp file, stream, check and fsync, rename,
count, release. A file is one of absent, good, corrupt (right length, wrong
bytes), short. `file` is what the process sees, `disk` what is known to be
durable: `blobs/sha256` is never fsync'd, so a power loss may undo a rename.
`IOError` is the failure of any step.

**OCIIndex** has one action per exported operation, since each is one critical
section of `o.mu`; `RemoveArtifact` (load, drop, save) is three. `nm` is
`nameMap`; `slots` says which element of the decoded manifest list still shares
its annotation map with which `nameMap` entry, because `Decode` into that list
writes through those maps. `survivors` is the set of contents a power loss may
leave. A save that does not fsync what it renames into place may leave a `Torn`
file: empty, cut short, whatever does not decode. `NewLayout` returns the error of
such a file, so that no process opens the store again (`Open`). `exposed` says that
the last save that went well did not fsync. Names keep apart the reference as
written (`Ref`), as parsed (`Canon`) and as `Push` cuts it (`Raw`).

**Layout** gives each job a *plan*, a sequence of steps such as "write these blobs",
"add this entry", "copy", "drop", "clean"; the elements of one step are done in any
order (errgroups and maps decide it in the code), the steps in theirs. A step
"image" or "graph" stands for a manifest still to be read, and `ReadManifest` puts
what the manifest asks for in its place: children first, then layers and config,
then the manifest, as `writeImageBlobs` and `copyDescriptorGraph` do. The operations
of the two modules above are one step each. An image and a manifest list under one
reference have entries of their own (`KeyOf`). A save that fails may have put
`index.json` in place before (`SaveFails`: `syncDir` comes after the rename). An
extra (signature, attestation, referrer) that cannot be fetched is passed over,
whatever the reason, as in the code. The clean-up is a walk: `CleanUp` takes the
roots from the index, `Mark` visits what has been named and takes it off the list of
what nothing names, `Sweep` deletes that list, file by file. One that fails in
between (`CleanUpStops`) is only warned of, and the remove succeeds
(`remove.go:191`); a trailing save of an add that fails is only logged
(`EndAdd(FALSE)`). A power loss that leaves a torn `index.json` ends the life of the
store; `PowerLoss` is about the others. `Needs` is what an artifact needs: the least
set of blobs that has its root and all that its manifests name. `half` remembers
entries that a load put into the index ahead of their manifest's blob, which `Push`
does.

**Catalog** is what a store promises to whoever pulls from it: under each key a
complete artifact or nothing. It has no blobs, manifests, jobs or retries. A
command begins with what it was asked for (`asked`, `dropping`), works, and ends.
While it works, artifacts appear that it was asked for, or that complete what an
earlier load left (`pending`), and go away if a remove is about their key or a load
brings another one. A load or a remove that succeeds has done all of it. In
`Layout`, `holds` is `Usable`, `asked` is `Given`, `pending` is `half`, and the
outcome of a command is read off its plans and its failed jobs. An add reports when
its process ends, so its success is not an outcome of `Catalog` (`SuccessIsRecorded`
and `AddRepairs` say what it means); that process may save once more as it ends.

**ImageJobs** is `runRemoteImageJobsWith`. A job is in one place: queued, pin,
get (the Cache), setup (NewVerifier), classic and bundle (the two checks), store,
fetch (AddImage), rewrite, or over. Each request for a tag is answered with any
of its digests: tags move at any time. `Fails` is `retry.Operation` after a
failed attempt, cancellation included. The pair of annotations that
`rewriteReference` compares is one `Ref`.

**ChartTraversal** is `traverseChartLevels` with `fetchChart`: queued, load, add,
expand, done or failed; `dir` is the expansion a `file://` chart is read from
(0 for others), `within` the `file://` charts it lies in there, which together are
its path and its key; `live` are the expansions that still exist. `Images` are the
images a chart refers to: what is found is any subset, because templates that do not
render and images whose registry does not fit are only warned of.

**FileJobs** is `runFileJobsWith` with `storeFile`, `File.compute` and the
`LayerCache`: look into the cache, join or lead the flight of the path, read the
source for its digest, write the layer (which reads the source again), add the
entry, add it once more with its source. `Holds` is what a path may answer; it
answers each request anew.

**SyncDocument** composes the three: documents one after the other, a walk of
charts followed by the pull of the images found, a pull of images, or files. A
document may also be skipped or rejected. `promised` collects what was reported
as stored, by the line logged for each image or by a document of charts that
succeeded.

**Stores** is what happens before a command has its store: resolve an argument
(a path, an id, a prefix of one), open the directory, read or create its id in
`store.json`, load and prune `stores.json`, write and rename it. Names stand for
inodes, because every process writes through the same temp name and a process
that has it open writes to it wherever a rename has put it. Between the steps of
a command other processes run and are killed, and the user moves, copies and
deletes directories.

**StoreCheck** is `info --check --type all`: the walk over the entries, the
platform manifests of an index, and for each `Checker.Check`, whose goroutines
(at most `Limit`) look up the memo, read the blob or wait for who reads it.
`reads` counts the reads of each digest. A read may fail. An entry whose manifest,
or a platform manifest of it, cannot be opened is `skipped`: `OCI.Walk` keeps the
error, visits the others and returns it in the end, when nothing is reported any
more. The command ends in "passed", "corrupt", "error" or, at a platform manifest
without a platform (`info.go:85`), "panic".

**StoreCopy** is `CopyCmd` to a registry and to a directory and `ExtractCmd`, on
`Layout.Copy`. `work` is the descent through the graph of the artifact being
copied. The registry takes whatever it is sent: that no manifest gets there
before its parts is the merit of the order. A push may be lost before or after it
took effect. Another process may add entries meanwhile. `FileName` is what the
mapper of an artifact calls a blob: its title, a name made of its digest, or nothing
when it is discarded. Which manifest chooses the mapper differs: an extraction
follows an index to its first leaf (`Descent`) and passes over it only if it is an
image without titled layers, a copy to a directory takes the manifests of an index
one by one, passes over whatever has the config of an image, and takes an index in
an index for a manifest (`Nested`).

**Hauls** is `SaveCmd` with `Archive` and `SplitArchive`, and `LoadCmd` with
`stageRemoteChunks`, `resolveHaulPath`, `JoinChunks`, `Unarchive`, `CopyAll`,
`MergeStoreLog` and `clearDir`. An archive is a sequence of pieces that know
which save they are from; files of earlier saves stay where they are, one save and
one load may run at the same time, files are deleted at any moment. `temp` is what
the reused temp directory holds of `index.json` and of `audit.log`. Chunks are found
by both schemes of the code: the files `<name>.NNN` of a haul (`Split`) and, as in
versions before 2.1, all files `<base>_N<ext>` of one base and extension (`Legacy`).
`Joined` and `Number` are the `<base><ext>` and the `N` of a haul that has such a
name; `Hinted` are those whose name makes `chunkHint` speak of chunks.

## 3. Runs

| Run | Question | Outcome |
|---|---|---|
| `blob_clean` | three goroutines, two in one errgroup, one digest, two permits, a clean store, everything fails | holds; `BlobStore` implements `VerifiedBlobs` |
| `blob_damaged` | two goroutines, two digests (one of unknown size), one permit, damaged files at first | holds, with liveness |
| `index` | an old store, additions, pushes, renames, removals, restarts, power losses, torn files; saves that fail before or after the rename | holds |
| `index_rewrite_lost` | add, rename, add the old name again | **violated**: the renamed entry is lost |
| `layout` | two jobs with shared blobs, load, remove, clean-ups that stop, failures, retries, kills; and one job with power losses and unreadable manifests | holds; `Layout` implements `Catalog` |
| `layout_unreadable` | `CleanUp` cannot read a manifest | **violated**: blobs of an artifact in the index are deleted |
| `sync_document` | five manifests of images, charts and files, with and without `--ignore-errors` | holds, with termination |
| `stores` | two processes open stores by path and by id, while directories move and processes are killed | holds |
| `store_check` | an index, an image, a chart and an entry that cannot be displayed, which share blobs, in any state of damage; entries that cannot be opened | holds, with termination |
| `copy` | five stores, indexes in indexes among them, three commands, damage, lost pushes, retries, another process | holds |
| `copy_signature` | is what lies under a cosign tag the signature of that image? | **violated**: a signature of the former image of a reference is pushed to the tag of the present one |
| `hauls` | three saves of three hauls, two of them named like old chunks, whole or in chunks, over older files; loads of up to four arguments | holds |

The three violations are the `findings` of `PROJECT.json`, each with the line of
the code and of the comment it disagrees with.

**What the properties say.** `BlobStore`: verified bytes only (`FinalPathVerified`),
one download (`OneDownloadPerDigest`), permits (`PermitsAccounted`), true answers
(`OkMeansStored`), nothing gets worse (`FinalOnlyImproves`), every call returns
(`CallsReturn`). `OCIIndex`: all that was reported is saved unless a failed save is
outstanding (`SavedWhenNotBehind`); what can be read after a power loss has all that
the last checkpoint promised, and it can be read unless something was saved without
an fsync since (`CheckpointSurvives`); memory is what a new process would read.
`Layout`: entries are complete (`EntriesComplete`); what can be pulled changes only
as the running command was asked (`ImplementsCatalog`); a load, an add that report
success have done what they say (`LoadIsWhole`, `AddRepairs`, `SuccessIsRecorded`,
which also says what may be missing when the trailing save failed), and a clean-up
that ran to its end has left no garbage (`NoGarbageLeft`). `ChangesOnlyAsAsked` is
the part of `ImplementsCatalog` about single keys; it is proved, and no run checks
it separately. `SyncDocument`: see the inventory; `NothingNewAfterError` says that
no image is taken up after the error that breaks a document off, also with
`--ignore-errors`. `Stores`: a command that runs alone registers its store and
forgets no other, whatever those before it left. `StoreCheck`: what was visited and
is not whole is in the report or made the command fail, and a report is complete
(`DamageReported`). `StoreCopy`: a repository is whole at every moment
(`TargetWhole`). `Hauls`: a save that returned no error is there, whole
(`SavedIsWhole`); while nothing has happened to it, and no archive before it in an
old chunk set lies beside it, it is what a load copies (`LatestIsLoaded`); a load
that passed over nothing has loaded a complete save of each haul, or of one in the
same old set (`LoadedAll`).

**Bounds.** Three goroutines are what a flight needs: a leader, a waiter, and a
newcomer that meets both. `Permits` is 1 (everyone waits) or 2 (two writers). One
digest makes all goroutines meet; two digests let permits be held for different
blobs.

The index run has two uses of a store: an old one (legacy kind, missing kind,
malformed entry, no file at all) that is read again, renamed in and
power-cycled, and one whose saves fail. They are separate because together they
violate `MemoryMatchesDisk` and `SavedWhenNotBehind`: after a failed save, a reload
decodes through annotation maps that are still in use (hazard at `oci.go:258`), and
the next save writes what came of it. So this run does not cover that hazard, nor
the one of raw keys (`oci.go:807`): no property covers them. `unsynced` bounds
the saves since the last fsync, whose versions a power loss chooses from; 2 gives
it a choice between an older, a newer and a torn one.

The layout run has two images that share a layer and a config, a list of both, and
a signature that shares a layer with one: everything `CleanUp` can get wrong about
sharing. The list and the image of a haul have one name, and so have two of the
artifacts. One retry lets an add fail in the middle and be repeated. Its second use
has one job and five blobs without configs, since every subset of the blobs
written since the last power loss may be lost.

The sync run has two attempts per operation, two slots for up to three jobs, a
chart with a cycle, a dependency shared by siblings and across levels, and a
`file://` dependency with dependencies of its own, of which one lies in it and in
the chart beside it: the same name on two paths; `MaxChartDepth` is 4 rather than
10, deeper than that tree. A source has two contents, and two files name it.

The stores run has two directories, one path that looks like an id, three commands,
one kill and one change by the user; two of the three ids share a prefix. Eleven
inodes are more than the names and open files of two processes can hold at a time,
which `InodeAssumption` requires. The check run has two goroutines for up to three
parts, a digest named with two sizes, and an index that names an index. The copy run
has two failures for two attempts, so that an artifact may be given up; an image
index holds the former and the present image of a tag, and another holds that index
and a manifest of two files that has the config of an image. The hauls run has three
saves, the first in two pieces so that chunks of it outlive the shorter ones, and a
word of 8 values in which the chunk size 9 wraps to 1 and the size 4 to a negative
one. The second save is asked for no chunks or for the size that wraps to 1, the
third for none (`FewChunkSizes`): by then the chunks of the first are there. The
largest runs are `stores` (5.9 million states), `hauls` (2.4 million), `store_check`
(1.7 million) and `layout` (0.9 million).

**Fairness.** `BlobStore`: weak fairness of each goroutine, since Go's scheduler
runs every runnable goroutine and a read ends or fails; strong fairness of
`Acquire`, because `semaphore.Weighted` serves waiters first come, first served.
Nothing is assumed of callers, cancellations or crashes. `SyncDocument`: weak
fairness of each job and of the command's own steps; a job that waits for
`Cache.mu`, a flight or a slot is served because the holder gives it up after
finitely many steps and only finitely many jobs are before it. `StoreCheck`: weak
fairness of the next step, since every step is one of the command or of a
goroutine it waits for, and each is taken once. No property relies on an operation
succeeding. The other runs have no fairness. Deadlock is checked wherever the
system cannot stop; `sync_document`, `store_check` and `copy` stop when their
command has ended, `stores` when its commands are used up.

**Mutants.** Every property of a passing run has a mutant in the same module as
the code it mutates: the save that does not fsync, the permit that an error path
keeps, the nil error returned for a cancellation, the clean-up that does not
descend, the tag resolved again after its check, the Cache that outlives its
document, the temp file that is not truncated, the manifest sent before its parts.

## 4. What is proved

All theorems are about the specifications that TLC checks and rest on the ASSUMEs
of the modules alone, which say no more than the types of the constants, unless
another assumption is named here. None of the properties is inductive;
each proof module has an `Invariant` that is, a lemma for each of its parts with
one step per action, and then the theorems.

| Module | Theorems (property) | Also assumed |
|---|---|---|
| `BlobStoreProofs` | `TypeCorrect`, `SingleDownload` (`OneDownloadPerDigest`), `PermitsNeverLeak` (`PermitsAccounted`), `AnswersAreTrue` (`OkMeansStored`), `CleanStaysClean` (`FinalPathVerified`), `NeverSpoiled` (`FinalOnlyImproves`), `Refinement` (`ImplementsVerifiedBlobs`) | for `Refinement`: a clean store at first |
| `OCIIndexProofs` | `AckedIsSaved` (`SavedWhenNotBehind`), `CheckpointsHold` (`CheckpointSurvives`), `MemoryIsDisk` (`MemoryMatchesDisk`), `OnlyClashesLose`, `ApartNeverClash`, `ApartKeepsPromises`, `TypeCorrect` | `Unambiguous`; no clash, or `Apart`; for `TypeCorrect` neither |
| `LayoutProofs` | `TypeCorrect`, `EntriesAreComplete` (`EntriesComplete`), `LoadsAreWhole` (`LoadIsWhole`), `AddsAreRecorded` (`SuccessIsRecorded`), `AddsRepair` (`AddRepairs`), `NoGarbageIsLeft` (`NoGarbageLeft`), `NothingElseChanges`, `LayoutIsACatalog` (`ImplementsCatalog`) | - |
| `SyncDocumentProofs` | `ImagesAreVerified` (`StoredIsChecked`), `FirstErrorIsReported` (`RunErrIsReal`), `VerifiersAreShared` (`OneSetupPerConfig`), `FilesAreStored` (`FilesAreTheirSource`), `LayersAreShared` (`HashedOnce`), `NothingIsTakenUp` (`NothingNewAfterError`), `DependenciesAreScheduledOnce` (`ScheduledOnce`), `ExpansionsOutlastTheirReaders` (`FileDepsReadable`), `TheTreeIsComplete` (`TreeComplete`), `ReportedIsStored` (`PromisesKept`) | - |
| `StoresProofs` | `TypeCorrect`, `StoresAreFindable` (`AloneRegisters`), `NoStoreIsForgotten` (`AloneForgetsNone`), `StoresAreOpenedOnce` (`OneLayoutPerStore`) | for the last: no two paths are one directory |
| `StoreCheckProofs` | `TypeCorrect`, `BlobsAreReadOnce` (`ReadOnce`), `DamageIsReported` (`DamageReported`) | - |
| `StoreCopyProofs` | `TypeCorrect`, `RegistryIsWhole` (`TargetWhole`), `FilesReported` (`FilesWholeOrReported`), `CopySucceedsComplete` (`SuccessIsComplete`), `MatchedSignaturesStay` | for the last: signatures match (`Matched`) |
| `HaulsProofs` | `TypeCorrect`, `EverythingIsLoaded` (`LoadedAll`), `AuditFollowsContent` (`LogFollowsContent`), `SavesAreWhole` (`SavedIsWhole`), `LastSaveIsLoaded` (`LatestIsLoaded`) | - |

**BlobStore.** A goroutine that leads is the one its digest's flight names, and
every flight is led by somebody who is in it (`FlightInv`, hence one download per
digest); a temp file exists exactly while its goroutine writes, and one that is
about to be renamed is good and fsync'd (`TempInv`, hence verified content at
final paths); the permits held are those of the goroutines between acquire and
release, and the counters are their number (`CountInv`, over finite
cardinalities); a stop that loses the rename returns to what was clean before
(`FileInv`). `ResultInv` and `DiscardInv` say what an answer on its way back
already knows. `Refinement` shows step by step that a rename adds a digest on
behalf of a busy call, a return answers it, and everything else stutters or is a
stop.

**OCIIndex.** The theorems hold where references are *unambiguous*: no two have
one key, a Pusher's key is the reference's own, a rename has a well-formed target,
and a process that cannot write the file does not read it again; and where no step
*clashes* with a renamed entry (`[][NoClash]_vars`). `UpdateAnnotations` leaves an
entry under the key of its old name, and a clash is to add an entry of that old name
over the only copy, to add another of the new name beside it, or to rename one entry
to the name of a different one. All of this can happen in the code: shared keys, raw
keys, reloads after a failed save and renames are hazards in `PROJECT.json`, and a
rename to a digest reference joins name and digest with a colon, which does not
parse (`add.go:617`). With no clash and no failing write nothing is ever lost
(`OnlyClashesLose`), so that a clash is all that the finding on `AckedInIndex` is
about. `ApartNeverClash` gives a condition on the constants alone under which no
step can clash: what is renamed is not added again, and no target is shared, renamed
in turn or there at first. The constants of the run `index` meet all of these
conditions, so `ApartKeepsPromises` is about the specification it checks.

`nameMap` holds all that was promised and no two different entries of one name
(`MapInv`); unless a save failed it is what the file says (`CurrentInv`), and each
element whose map a decode would write through is the entry that shares it
(`SlotsInv`), which is why loading corrupts nothing; no version of the file that may
come back and be read has two different entries of a key or lacks what a checkpoint
promised, and none is torn where the last save was fsync'd (`FilesInv`). More cannot
be said of checkpoints: the first save without an fsync puts them at risk. With
names apart, no map or file has an old and a new name together, and only the target
of a rename is under another key (`ApartInv`).

**Layout**, for any graph of manifests. A plan writes all that an entry needs before
it adds the entry (`Backed`); what the artifact of an add, or an entry of a haul,
still lacks is in its plan, or the job has failed (`AddInv`, `LoadInv`), so that a
plan that has come to its end without a failure has done everything; `nameMap` is
ahead of `index.json` only in what this command was asked for; between marking and
sweeping, `CleanUp` has marked nothing that no entry reaches, and what it has marked
but not visited is all that could still name something (`CleanInv`), so that at the
end the marked blobs are closed under naming and contain every root. An entry that
is missing when an add reports success was in memory only, after a save of its own
that failed (`Met`): with the trailing save gone too, a job of its key had been
retried or had failed. `EntriesComplete` then is `WholeInv`: an entry in the file or
in memory is complete or in `half`. It is stated for a store whose power stays and
whose manifests can be read; `layout_unreadable` shows that it fails otherwise.

`LayoutIsACatalog` maps the steps of such a store to those of `Catalog`. A step of a
job is `Work`: `JobChanges` goes through the steps that write a blob or the index and
finds what each may do to what can be pulled, `JobDrops` that a remove leaves a key
only when it is gone or the remove has failed, `JobHalf` that only a load leaves
entries pending, `LoadedAll` that a load with an empty plan and no failure has brought
its haul. The start of a command is `Begin`, its end or its kill `End`, where
`MemIsAsked` accounts for the last save of an add. A power loss is no step of
`Catalog`, so it is excluded here as for `EntriesComplete`. `CommandInv`, beside the
`Invariant`, says that nothing is left of one command when another begins.

**SyncDocument.** The place of a goroutine determines what it knows: past the
checks its pinned digest is one its config accepts, or the failure was waived under
`--ignore-errors` (`Knows`), and what it stores is the pinned digest. A Verifier in
the Cache belongs to this document and was cut short only by the error the
document fails with (`CacheInv`). A path is hashed exactly when its layer is
cached, and not while a flight for it is under way (`LayerInv`). Of the charts,
what was seen was fetched or is under way in the level, and a dependency of what
was fetched was seen or waits for the next level (`SeenInv`, `DepsKnown`), so that a
walk that has nothing left has everything; a level that was found has each key
once, and none that was fetched (`OnceInv`). `PromiseInv` is a second invariant,
inductive relative to the first, about the index: a job that shares no name with
another of its document finds its entry where it put it until it renames it, a
reload by any other job puts an entry under the key of its own reference and loses
no name, and the images the charts render have one job each, so that a document that
ends without an error has stored them all. The lists that the model takes apart
(a level, the deduplicated images) are enumerations in order; that they have every
element, each once, is `Listed` and `LeastNumber`.

**Stores.** What a process has where it is (`Has`); no inode has two
names (`NamesInv`); and what a process that runs alone finds again of what it wrote
(`Finds`). A counting argument shows that a free inode is always left.

**StoreCheck.** The memo vouches only for right blobs (`MemoInv`); goroutines are
those of the parts of the manifest at hand (`PartsInv`); while no problem was
found, the manifests that were opened are right and their children opened or to be
opened (`CheckInv`), so that in the end the opened manifests are a witness of
`Whole`; an entry being visited is in the report, or what was not found right yet
is still to come (`CoverInv`); an entry that was left before that is in `skipped`,
with which no report is printed.

**StoreCopy.** What a manifest names is in its repository, or ahead of it in
`work` (`OrderInv`); the root of an artifact is sent last (`RootInv`); and of a copy
that succeeds every artifact is delivered, being copied or still to be visited
(`DeliverInv`). `MatchedSignaturesStay` says how far the finding on
`SignatureOfItsImage` goes. If no image or index is ever under a reference whose
signature is of another (`Matched`), what the first walk noted, what is resolved
later and what the index holds are all of one such store (`From`), and the only
manifest sent for a signature is its own (`SigInv`), so that each lies under the tag
of its image, however often a push is lost. The run's store is not like that: an
image is replaced between the two walks and its signature is not.

**Hauls**, for hauls with any names. The files of a haul hold pieces of saves of that
haul (`FilesHold`), and what a load joins are pieces of saves of the hauls it takes
for one (`PiecesInv`); the hauls it was asked for are in its arguments, an argument
of the same set of chunks stands for them, or a save of a kin is among what it got
(`WantInv`); what the temp directory holds while a load copies is one complete save,
its audit log that save's or none (`TempInv`). None of this says how
much of an archive a file holds; `KeptInv`, inductive relative to it, does. Of the
save that is running, the chunks written are the consecutive parts of its archive
(`SplitInv`). What a save has left, unless its files were touched since, is the
archive under the name of the haul, or no such file and chunks 1 to `k` that end
where the archive ends, with no piece of it in any later chunk (`FreshInv`): older
and longer saves leave chunks beside it, which come after. A load that opened the
last save of its haul has joined a beginning of that archive, or more than all of
it, and joins next the chunk that continues it; where the archive is named like an
old chunk, it is joined before its siblings (`LatestInv`); bytes begin with one
archive at most (`OneArchive`). `SavedIsWhole` joins the chunks with `FlattenSeq` in
`Ascending` order: that 1 to `k` come first in order (`FirstInOrder`) and what is
joined from any number of chunks (`FlattenGives`, `ChunksJoin`) are inductions, and
the library's induction rules cannot be applied here; `LeastNumber` takes their
place, by the well-founded order of finite sets.

**Types.** `TypeCorrect` follows from the `Invariant` of each module, with what it
leaves out: the retries of a job and the jobs that failed (`JobTypes` in `Layout`),
that a save is entered when it begins and that only logs of saves are merged (`Made`
and `LogGrows` in `Hauls`). The one of `OCIIndex` has an induction of its own, since
it holds without the conditions of the others. Of a sync document the types proved
are `PullTyped`, `FilesTyped` and `WalkTyped`, which bound retries and flights by
the naturals only and the digests of an image by what the registry may name.

**Only model-checked.** Liveness (`CallsReturn`, both `CommandEnds`), because
fairness and ENABLED are beyond the prover; and that the three findings do happen:
`OnlyClashesLose`, `MatchedSignaturesStay` and `EntriesAreComplete` say when they
do not.

## 5. Assumptions and what is not modelled

- One process at a time writes a store (`BlobStore`, `OCIIndex`, `Layout`). The
  code takes no lock; two commands on one store overwrite each other's
  `index.json`. `Stores`, `StoreCopy` and `Hauls` have several processes.
- Digests do not collide, and a registry answers a request for a digest with that
  digest's bytes or an error (the code checks). Decompression and the digests of
  the store refuse an archive joined from two saves.
- Damaged blobs from earlier runs are in `BlobStore`, `StoreCheck` and
  `StoreCopy`; `Layout` starts from an empty store.
- Every reference of a run of `OCIIndex` has a name of its own. Digest references
  of one repository share a key in the code (`oci.go:176`): the second entry
  replaces the first.
- `AddImage` is one step in `ImageJobs`, `AddArtifact` is two in `FileJobs`;
  `Layout` takes them apart.
- `Stores`: reading `store.json` and the stat before it are one step; writing a
  file does not fail; an open ends before `LoadIndex` can fail.
- `Hauls`: remote chunks have distinct file names, otherwise the second clobbers
  the first in the staging directory; the tarball manifest `SaveCmd` writes into
  the store is left out.
- `StoreCheck`: `--type all`; children whose digest does not validate are left out.
- `StoreCopy`: a manifest that is garbled cannot be parsed; the check for an empty
  store, indexes without children, and the digest files that the catch-all mapper
  writes for the manifests under an index (`mappers.go:97`) are left out.
- Of the sync command: images of a local Docker daemon (added one after the other
  before the group), products, `image.txt`, option precedence and dry run.
- Formats, logging and the audit entries of single commands.
- The parts marked `not_modelled` in `PROJECT.json`: the progress renderer and the
  capture of output (pipes and a ticker, whose outcome decides nothing in the
  store), serving (a library's registry over a copy of the store), printing and
  manifest generation (pure functions of the store), the layer cache of
  `pkg/layer` (no code of the program reaches it), adapters and getters, flags.

**Behaviours met while modelling** that the models have or note, and that no
comment, doc or test of the repository contradicts clearly enough to be a finding:

- A live caller of `WriteBlob` gets somebody else's cancellation when a second
  leader is cancelled in turn (`oci.go:652` retries once). It takes three contexts;
  the errgroups of the program cancel their members together.
- A rewrite that fails is returned under `--ignore-errors` too and cancels the rest
  of the document (`add.go:559`, `sync.go:1066`); the failure needs two jobs of one
  image.
- After a power loss a checkpointed index may name a blob whose rename was lost
  (`oci.go:755`); adding or loading the artifact again repairs it (`AddRepairs`,
  `LoadIsWhole`).
- A power loss after a save without an fsync may leave an `index.json` that does not
  decode. No command opens that store again (`oci.go:258`, `store.go:74`), and what
  earlier checkpoints had made durable is lost with it. A comment (`oci.go:37`)
  accepts that a loss of power costs what was added since the last checkpoint, since
  an interrupted sync is re-run; a re-run fails as well until the file is removed.
- Archives named `haul_1.tar.zst` and `haul_2.tar.zst` are taken for chunks of one
  old set (`unarchiver.go:187`): a load of the second, whole as it is, joins both
  and loads the first; of two remote ones only one is loaded. `x.tar.zst.001` and
  `x_1.tar.zst` among remote arguments share a key too, and the second is downloaded
  and dropped (`load.go:129`). The comment above says that only names that are not
  ambiguous are taken for chunks, and means their split into base and number.
- A copy to a directory takes an index in an index for a manifest (`copy.go:95`). It
  has no config, and a descriptor without a digest is fetched: an error, which is a
  warning, or a panic of the digest library, which is not part of the repository.
- A manifest with the config of an image and titled layers is extracted by
  `extract` and passed over by `copy` to a directory (`extract.go:73`, `copy.go:135`).
- A remove succeeds when its clean-up failed (`remove.go:191`), and an add when its
  last save failed (`add.go:195`).
- Errors of the lookup of signatures and referrers count as absence
  (`store.go:639`).
- The key of `dedupeImageJobs` leaves out the TLS setting (`add.go:892`); the key of
  a chart leaves out whether its dependencies are wanted (`add.go:1008`).
- A file is fetched twice, for its digest and for its bytes (`store.go:962`); when
  it changed in between, every attempt of the document fails for it, since the
  digest is remembered.
- A child of an image index without a platform ends `info --check` in a nil pointer
  (`info.go:85`); an entry with a manifest that is missing makes it fail without a
  report, though all other entries were checked (`oci.go:556`).
- Two processes share the temp name `stores.json.tmp` and may publish a torn
  inventory, from which the next one recovers; two that open a new store at once may
  each go on with an id of its own (`store.go:124`); a symbolic link to a store is
  opened as a second Layout (`sync.go:442`); an unknown or ambiguous prefix of an id
  becomes a directory of that name.
- An image and an index under one reference make the digest that signatures are
  sent to depend on the order of a map (`copy.go`); a manifest of an index is put
  under the index's tag for a moment.
- A haul that was passed over still gets an audit entry of the load, and loading a
  haul twice doubles the lines of its log.

## 6. Plan

Done: the modules of section 2 with their proofs. What could come next:

1. `Progress`: the renderer's session and `CaptureOutput`, with liveness; the
   hazard of an overlong line (`logcapture.go:37`).
2. Local images and products in `SyncDocument`; failing writes in `Stores`.
3. Two processes on one store in `Layout` (hazard at `remove.go:189`), where only
   weak properties can hold.
