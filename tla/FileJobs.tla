------------------------------ MODULE FileJobs ------------------------------
(***************************************************************************)
(* The files of one sync document (cmd/hauler/cli/store/sync.go,           *)
(* runFileJobsWith): an errgroup with a limit runs one storeFile per file. *)
(* What the layer of a path is, its digest above all, is found out by one  *)
(* job and shared by the LayerCache (pkg/artifacts/file/cache.go); the     *)
(* bytes are fetched again when the layer is written to the store.  The    *)
(* source answers every request with the content it has then, or fails.    *)
(*                                                                         *)
(* BlobStore takes the writing of a blob apart, OCIIndex that of an entry. *)
(***************************************************************************)
EXTENDS Naturals, Sequences, FiniteSets

CONSTANTS
  Path,             \* sources of files: a URL, a file or a directory
  FileName,         \* the references they are stored under
  Bytes,            \* contents, and their digests
  Holds,            \* the contents a path may be found to have
  FileRetries,      \* --retries
  FileConcurrency,  \* --concurrency
  Nothing

(* name is Nothing when no reference can be derived.                       *)
FileJob == [path : Path, name : FileName \cup {Nothing}]

ASSUME FileAssumption ==
  /\ Holds \in [Path -> SUBSET Bytes]
  /\ FileRetries \in Nat \ {0}
  /\ FileConcurrency \in Nat \ {0}
  /\ Nothing \notin Path \cup FileName \cup Bytes \cup Nat

VARIABLES
  files,    \* the jobs of the document
  ft,       \* the state of each job's goroutine
  fileErr,  \* the group's first error; its context is cancelled by it
  cache,    \* LayerCache.cache: the digest of the layer of a path
  flight,   \* the job that fetches a path for the others, or Nothing
  hashed,   \* how often a path was read to the end to find its digest
  blobs,    \* the contents in the store
  named     \* nameMap: the entry of a reference, its digest and its
            \* OriginalRefAnnotation

fileVars == <<files, ft, fileErr, cache, flight, hashed, blobs, named>>

FilePlaces == {"queued", "lookup", "fly", "wait", "told", "fetch", "write", "index", "source"}
FileOver   == {"stored", "skipped", "failed"}

NewFile == [at |-> "queued", left |-> 0, blob |-> Nothing, err |-> Nothing]
NoEntry == [blob |-> Nothing, source |-> Nothing]

FileTypeOK ==
  /\ \A j \in DOMAIN files : files[j] \in FileJob
  /\ DOMAIN ft = DOMAIN files
  /\ \A j \in DOMAIN ft :
       /\ ft[j].at \in FilePlaces \cup FileOver
       /\ ft[j].left \in 0..FileRetries
       /\ ft[j].blob \in Bytes \cup {Nothing}
       /\ ft[j].err \in {"error", "canceled", Nothing}
  /\ fileErr \in {"error", "canceled", Nothing}
  /\ cache \in [Path -> Bytes \cup {Nothing}]
  /\ flight \in [Path -> DOMAIN files \cup {Nothing}]
  /\ hashed \in [Path -> Nat]
  /\ blobs \subseteq Bytes
  /\ named \in [FileName -> [blob : Bytes \cup {Nothing}, source : Path \cup {Nothing}]]

FileInit ==
  /\ files = <<>> /\ ft = <<>>
  /\ fileErr = Nothing
  /\ cache = [p \in Path |-> Nothing] /\ flight = [p \in Path |-> Nothing]
  /\ hashed = [p \in Path |-> 0]
  /\ blobs = {}
  /\ named = [n \in FileName |-> NoEntry]

-----------------------------------------------------------------------------
FileCanceled == fileErr # Nothing
FileAt(j, place) == j \in DOMAIN ft /\ ft[j].at = place

(* storeFile, when AddArtifact failed for good.                            *)
NotStored(f, e, ignore) ==
  IF ignore THEN [f EXCEPT !.at = "skipped"] ELSE [f EXCEPT !.at = "failed", !.err = e]

(* An attempt at AddArtifact.  A File computes its layer only once.        *)
Try(f) == [f EXCEPT !.at = IF f.blob = Nothing THEN "lookup" ELSE "write"]

(* What may follow an attempt that failed, in retry.Operation.             *)
FileFails(f, ignore) ==
  CASE FileCanceled /\ f.left > 1 -> {NotStored(f, "canceled", ignore)}
    [] FileCanceled /\ f.left = 1 -> {NotStored(f, e, ignore) : e \in {"canceled", "error"}}
    [] ~FileCanceled /\ f.left > 1 -> {Try([f EXCEPT !.left = @ - 1])}
    [] OTHER -> {NotStored(f, "error", ignore)}

FileGoes(j, f) ==
  /\ ft' = [ft EXCEPT ![j] = f]
  /\ fileErr' = IF f.at = "failed" /\ fileErr = Nothing THEN f.err ELSE fileErr

-----------------------------------------------------------------------------
(* runFileJobsWith begins, with a LayerCache of its own.                   *)
FilesStart(fs) ==
  /\ files' = fs
  /\ ft' = [j \in DOMAIN fs |-> NewFile]
  /\ fileErr' = Nothing
  /\ cache' = [p \in Path |-> Nothing] /\ flight' = [p \in Path |-> Nothing]
  /\ hashed' = [p \in Path |-> 0]
  /\ UNCHANGED <<blobs, named>>

(* g.Go starts the next job; storeFile looks at the context, derives the   *)
(* reference and begins its attempts.                                      *)
GoFile(j, ignore) ==
  /\ FileAt(j, "queued")
  /\ \A i \in 1..(j - 1) : ~FileAt(i, "queued")
  /\ Cardinality({i \in DOMAIN ft : ft[i].at \notin FileOver \cup {"queued"}}) < FileConcurrency
  /\ FileGoes(j, IF FileCanceled THEN [NewFile EXCEPT !.at = "failed", !.err = "canceled"]
                 ELSE IF files[j].name = Nothing THEN NotStored(NewFile, "error", ignore)
                 ELSE Try([NewFile EXCEPT !.left = FileRetries]))
  /\ UNCHANGED <<files, cache, flight, hashed, blobs, named>>

Has(f, content) == [f EXCEPT !.at = "write", !.blob = content]

(* getOrFetch looks into the cache.                                        *)
LookUp(j) ==
  /\ FileAt(j, "lookup")
  /\ LET known == cache[files[j].path]
     IN  FileGoes(j, IF known = Nothing THEN [ft[j] EXCEPT !.at = "fly"] ELSE Has(ft[j], known))
  /\ UNCHANGED <<files, cache, flight, hashed, blobs, named>>

(* Mutant: the leader does not look into the cache again.                  *)
FlyBlindly(j) ==
  /\ FileAt(j, "fly")
  /\ LET p == files[j].path
     IN  IF flight[p] # Nothing
         THEN FileGoes(j, [ft[j] EXCEPT !.at = "wait"]) /\ UNCHANGED flight
         ELSE FileGoes(j, [ft[j] EXCEPT !.at = "fetch"]) /\ flight' = [flight EXCEPT ![p] = j]
  /\ UNCHANGED <<files, cache, hashed, blobs, named>>

(* group.Do: join the flight of the path, or lead one; the leader looks    *)
(* into the cache again.                                                   *)
Fly(j) ==
  /\ FileAt(j, "fly")
  /\ LET p == files[j].path
     IN  CASE flight[p] # Nothing ->
                FileGoes(j, [ft[j] EXCEPT !.at = "wait"]) /\ UNCHANGED flight
           [] flight[p] = Nothing /\ cache[p] # Nothing ->
                FileGoes(j, Has(ft[j], cache[p])) /\ UNCHANGED flight
           [] OTHER ->
                FileGoes(j, [ft[j] EXCEPT !.at = "fetch"]) /\ flight' = [flight EXCEPT ![p] = j]
  /\ UNCHANGED <<files, cache, hashed, blobs, named>>

Waits(i, p) == FileAt(i, "wait") /\ files[i].path = p

(* The leader reads the path to the end for its digest.  A success is      *)
(* cached; the flight is over, and those that wait have its result.        *)
Fetch(j, ignore) ==
  /\ FileAt(j, "fetch")
  /\ LET p == files[j].path
     IN  /\ flight' = [flight EXCEPT ![p] = Nothing]
         /\ \/ \E content \in Holds[p] :
                 /\ cache' = [cache EXCEPT ![p] = content]
                 /\ hashed' = [hashed EXCEPT ![p] = @ + 1]
                 /\ ft' = [i \in DOMAIN ft |-> IF i = j \/ Waits(i, p) THEN Has(ft[i], content) ELSE ft[i]]
                 /\ UNCHANGED fileErr
            \/ \E f \in FileFails(ft[j], ignore) :
                 /\ ft' = [i \in DOMAIN ft |-> IF i = j THEN f
                             ELSE IF Waits(i, p) THEN [ft[i] EXCEPT !.at = "told"] ELSE ft[i]]
                 /\ fileErr' = IF f.at = "failed" /\ fileErr = Nothing THEN f.err ELSE fileErr
                 /\ UNCHANGED <<cache, hashed>>
  /\ UNCHANGED <<files, blobs, named>>

(* An error of the leader's is the error of all that joined its flight.    *)
Told(j, ignore) ==
  /\ FileAt(j, "told")
  /\ \E f \in FileFails(ft[j], ignore) : FileGoes(j, f)
  /\ UNCHANGED <<files, cache, flight, hashed, blobs, named>>

(* Mutant: the bytes that arrive are not compared with the digest.         *)
WriteUnverified(j, ignore) ==
  /\ FileAt(j, "write")
  /\ \/ /\ \E content \in Holds[files[j].path] : blobs' = blobs \cup {content}
        /\ FileGoes(j, [ft[j] EXCEPT !.at = "index"])
     \/ /\ \E f \in FileFails(ft[j], ignore) : FileGoes(j, f)
        /\ UNCHANGED blobs
  /\ UNCHANGED <<files, cache, flight, hashed, named>>

(* AddArtifact writes its blobs.  The layer is opened, and its path read   *)
(* again, unless the store has it; other bytes than those of the digest    *)
(* fail the attempt, as does any other error.                              *)
WriteFile(j, ignore) ==
  /\ FileAt(j, "write")
  /\ \/ /\ ft[j].blob \in blobs \cup Holds[files[j].path]
        /\ blobs' = blobs \cup {ft[j].blob}
        /\ FileGoes(j, [ft[j] EXCEPT !.at = "index"])
     \/ /\ \E f \in FileFails(ft[j], ignore) : FileGoes(j, f)
        /\ UNCHANGED blobs
  /\ UNCHANGED <<files, cache, flight, hashed, named>>

(* AddArtifact's AddIndex; a failed save leaves the entry in memory.       *)
IndexFile(j, ignore) ==
  /\ FileAt(j, "index")
  /\ named' = [named EXCEPT ![files[j].name] = [blob |-> ft[j].blob, source |-> Nothing]]
  /\ \/ FileGoes(j, [ft[j] EXCEPT !.at = "source"])
     \/ \E f \in FileFails(ft[j], ignore) : FileGoes(j, f)
  /\ UNCHANGED <<files, cache, flight, hashed, blobs>>

(* storeFile adds the entry again, with its source; a failure of this is   *)
(* not ignored.                                                            *)
SourceFile(j) ==
  /\ FileAt(j, "source")
  /\ named' = [named EXCEPT ![files[j].name] = [blob |-> ft[j].blob, source |-> files[j].path]]
  /\ \/ FileGoes(j, [ft[j] EXCEPT !.at = "stored"])
     \/ FileGoes(j, [ft[j] EXCEPT !.at = "failed", !.err = "error"])
  /\ UNCHANGED <<files, cache, flight, hashed, blobs>>

FileStep(j, ignore) ==
  \/ LookUp(j) \/ Fly(j) \/ Fetch(j, ignore) \/ Told(j, ignore)
  \/ WriteFile(j, ignore) \/ IndexFile(j, ignore) \/ SourceFile(j)

(* g.Wait returns fileErr.                                                 *)
FilesStored == \A j \in DOMAIN ft : ft[j].at \in FileOver

-----------------------------------------------------------------------------
(* However a source changes, and whoever read it for whom, what a file's   *)
(* entry names is in the store, and was the content of the source that the *)
(* entry gives; a file reported as stored has such an entry, unless        *)
(* another job of the document goes by the same name.                      *)
FilesAreTheirSource ==
  /\ \A n \in FileName :
       named[n].blob # Nothing =>
         /\ named[n].blob \in blobs
         /\ named[n].source # Nothing => named[n].blob \in Holds[named[n].source]
  /\ \A j \in DOMAIN ft :
       ft[j].at = "stored" /\ (\A i \in DOMAIN ft \ {j} : files[i].name # files[j].name) =>
         named[files[j].name] = [blob |-> ft[j].blob, source |-> files[j].path]

(* A path that several jobs name is read for its digest once, however they *)
(* come upon each other, and so all of them store the same content.        *)
HashedOnce ==
  /\ \A p \in Path : hashed[p] <= 1
  /\ \A i, j \in DOMAIN ft :
       files[i].path = files[j].path /\ ft[i].blob # Nothing /\ ft[j].blob # Nothing
         => ft[i].blob = ft[j].blob
=============================================================================
