----------------------------- MODULE StoreCopy ------------------------------
(***************************************************************************)
(* Taking content out of a store: hauler store copy to a registry or to a  *)
(* directory (cmd/hauler/cli/store/copy.go), hauler store extract          *)
(* (extract.go), and Layout.Copy with its descent through the graph of an  *)
(* artifact (pkg/store/store.go).  Another process may add entries to the  *)
(* store meanwhile, blobs of the store may be lost or damaged, and what is *)
(* sent may be lost, or its answer.                                        *)
(*                                                                         *)
(* The registry takes whatever it is sent, manifests with missing parts    *)
(* too: that none gets there is the merit of the order they are sent in.   *)
(* A manifest is put under the tag of the pusher when it has one, every    *)
(* manifest of an index too (containerd's pusher).                         *)
(***************************************************************************)
EXTENDS Naturals, Sequences, FiniteSets, Functions

CONSTANTS
  Modes,        \* of "registry", "directory" and "extract", those to copy in
  Digest,
  Parts,        \* what a manifest or an index names, in order; <<>> for a blob
  Index,        \* the digests that are image indexes
  ImageConfig,  \* the manifests that have the config of an image
  Image,        \* the container images of these: no layer has a title
  FileName,     \* the file a mapper writes a blob to, named by its title or
                \* its digest, or None when it discards it
  SignatureOf,  \* the image a signature was made for, or None
  Ref, Repo, RepoOf,
  Kind,         \* "image" (files and charts too), "index", "sigs" or
                \* "referrer"
  Stores,       \* the indexes of stores, as functions of the keys
  Additions,    \* the entries another process may add, in this order
  Skipped,      \* references with an excluded file name, or that the command
                \* is not asked for
  Unparsable,   \* references that cannot be rewritten for a registry
  Fragile,      \* bound: the blobs of the store that may be damaged
  Retries,      \* --retries
  MaxFailures,  \* bound on what gets lost on its way
  None

Key == Ref \X Kind
Addition == [key : Key, digest : Digest]
File == [of : Digest, has : {"part", "all", "garbage"}, key : Key]
NonEmpty(f) == {x \in DOMAIN f : f[x] # None}

(* The tag of an image or, if sig, the one cosign gives its signatures:    *)
(* sha256-<digest>.sig                                                     *)
Tag == [of : Ref, sig : {FALSE}] \cup [of : Digest, sig : {TRUE}]
NoTag == [of |-> None, sig |-> FALSE]

ASSUME CopyAssumption ==
  /\ Modes \subseteq {"registry", "directory", "extract"}
  /\ Parts \in [Digest -> Seq(Digest)]
  /\ Index \subseteq Digest /\ ImageConfig \subseteq Digest /\ Image \subseteq ImageConfig
  /\ RepoOf \in [Ref -> Repo]
  /\ Kind \subseteq {"image", "index", "sigs", "referrer"}
  /\ Stores \subseteq [Key -> Digest \cup {None}]
  /\ Additions \in Seq(Addition)
  /\ DOMAIN FileName = Digest /\ Fragile \subseteq Digest
  /\ Retries \in Nat \ {0} /\ MaxFailures \in Nat
  /\ None \notin Ref \cup Digest \cup File

(* The entries of a store name manifests and indexes.                      *)
ASSUME EntriesAssumption ==
  /\ \A f \in Stores : \A k \in Key : f[k] # None => Parts[f[k]] # <<>>
  /\ \A i \in DOMAIN Additions : Parts[Additions[i].digest] # <<>>

VARIABLES
  mode,
  index,      \* index.json: the digest of each key
  adds,       \* what the other process has still to add
  bad,        \* the damage: "lost" or "garbled" blobs of the store
  ignore,     \* flags.ShouldIgnoreErrors
  pc,         \* of the command
  refDigest,  \* the digest of the image, or index, of a reference
  todo,       \* the artifacts the second Walk has still to visit
  job,        \* the one being copied
  attempt,    \* of retry.Operation
  work,       \* what the descent of Layout.Copy has still to do, in order
  failures,   \* what was lost on its way so far
  sent,       \* the digest the last Resolve returned for a key
  warned,     \* the keys whose artifact was given up
  linked,     \* the registry: the blobs and manifests of each repository
  tags,       \*   and the manifest under each tag
  files       \* the directory: the digest a file was last opened for, how
              \*   much of it is there, and for which key

store   == <<mode, index, adds, bad, ignore>>
walk    == <<refDigest, todo, job, sent, warned>>
target  == <<linked, tags, files>>
vars    == <<store, pc, walk, attempt, work, failures, target>>

Ended == {"ok", "failed"}
Job  == [key : Key, root : Digest, child : BOOLEAN]
Item == [d : Digest, at : {"copy", "push", "half"}]

TypeOK ==
  /\ mode \in Modes
  /\ index \in [Key -> Digest \cup {None}]
  /\ adds \in Seq(Addition)
  /\ bad \in [Fragile -> {"lost", "garbled", None}]
  /\ ignore \in BOOLEAN
  /\ pc \in {"start", "walk", "next", "resolve", "copy"} \cup Ended
  /\ refDigest \in [Ref -> Digest \cup {None}]
  /\ todo \subseteq Job /\ job \in Job \cup {None}
  /\ attempt \in 0..Retries /\ failures \in 0..MaxFailures
  /\ work \in Seq(Item)
  /\ sent \in [Key -> Digest \cup {None}] /\ warned \subseteq Key
  /\ linked \in [Repo -> SUBSET Digest]
  /\ tags \in [Repo \X Tag -> Digest \cup {None}]
  /\ files \in [Range(FileName) \ {None} -> File \cup {None}]

Init ==
  /\ mode \in Modes
  /\ index \in Stores /\ adds = Additions
  /\ bad \in [Fragile -> {"lost", "garbled", None}]
  /\ ignore \in IF mode = "registry" THEN BOOLEAN ELSE {FALSE}
  /\ pc = "start"
  /\ refDigest = [r \in Ref |-> None]
  /\ todo = {} /\ job = None /\ attempt = 0 /\ work = <<>> /\ failures = 0
  /\ sent = [k \in Key |-> None] /\ warned = {}
  /\ linked = [r \in Repo |-> {}]
  /\ tags = [t \in Repo \X Tag |-> None]
  /\ files = [n \in Range(FileName) \ {None} |-> None]

-----------------------------------------------------------------------------
(* What is known of an artifact                                            *)

Damage(d) == IF d \in DOMAIN bad THEN bad[d] ELSE None
Manifest(d) == Parts[d] # <<>>

RefOf(k) == k[1]
KindOf(k) == k[2]
Repository(k) == RepoOf[RefOf(k)]

(* The tag an artifact is sent to: that of its reference, but a signature  *)
(* goes to the tag of the image its reference names, and a referrer to its *)
(* own digest.                                                             *)
Destination(k) ==
  CASE KindOf(k) = "referrer" -> NoTag
    [] KindOf(k) = "sigs" /\ refDigest[RefOf(k)] # None -> [of |-> refDigest[RefOf(k)], sig |-> TRUE]
    [] OTHER -> [of |-> RefOf(k), sig |-> FALSE]

(* What a walk does not pass over without a word.                          *)
Wanted(k) ==
  /\ mode # "directory" => RefOf(k) \notin Skipped
  /\ mode # "registry" => KindOf(k) \notin {"sigs", "referrer"}

-----------------------------------------------------------------------------
(* The walks of the command                                                *)

(* The first Walk of a copy to a registry: of an image and an index under  *)
(* one reference, whichever comes last in the map.                         *)
MapReferences ==
  /\ pc = "start" /\ mode = "registry"
  /\ LET of(r) == {index[<<r, k>>] : k \in Kind \cap {"image", "index"}} \ {None}
     IN  \E rd \in [Ref -> Digest \cup {None}] :
           /\ \A r \in Ref : IF of(r) = {} THEN rd[r] = None ELSE rd[r] \in of(r)
           /\ refDigest' = rd
  /\ pc' = "walk"
  /\ UNCHANGED <<store, todo, job, sent, warned, attempt, work, failures, target>>

Walk ==
  /\ pc = IF mode = "registry" THEN "walk" ELSE "start"
  /\ todo' = {[key |-> k, root |-> index[k], child |-> FALSE] : k \in {k \in NonEmpty(index) : Wanted(k)}}
  /\ pc' = IF mode = "extract" /\ todo' = {} THEN "failed" ELSE "next"
  /\ UNCHANGED <<store, refDigest, job, sent, warned, attempt, work, failures, target>>

(* The reference cannot be rewritten: the first error ends the copy.       *)
Refuse(j) ==
  /\ pc = "next" /\ j \in todo /\ mode = "registry" /\ RefOf(j.key) \in Unparsable
  /\ todo' = todo \ {j}
  /\ warned' = warned \cup {j.key}
  /\ pc' = IF ignore THEN "next" ELSE "failed"
  /\ UNCHANGED <<store, refDigest, job, sent, attempt, work, failures, target>>

(* firstLeafManifest: down to the first manifest that is not an index,     *)
(* into the first index where there are only those.                        *)
FirstOf(d) ==
  LET plain == SelectSeq(Parts[d], LAMBDA c : c \notin Index)
  IN  Head(IF plain = <<>> THEN Parts[d] ELSE plain)
Descent[d \in Digest] == {d} \cup IF d \in Index THEN Descent[FirstOf(d)] ELSE {}

(* Directory and extract read the manifest first, to choose a mapper, and  *)
(* pass over images; a directory takes none with an image's config.        *)
Peeked(j) == IF mode = "extract" THEN Descent[j.root] ELSE {j.root}
Readable(j) == \A d \in Peeked(j) : Damage(d) = None
Extractable(j) == Peeked(j) \cap (IF mode = "extract" THEN Image ELSE ImageConfig) = {}

(* A directory takes an index in an index for a manifest, of which there   *)
(* is no config to fetch: that is reported, or the empty digest panics.    *)
Nested(j) == j.child /\ j.root \in Index

PassOver(j) ==
  /\ pc = "next" /\ j \in todo /\ mode # "registry"
  /\ Readable(j) /\ Extractable(j) => Nested(j)
  /\ todo' = todo \ {j}
  /\ warned' = IF Readable(j) /\ ~Nested(j) THEN warned ELSE warned \cup {j.key}
  /\ pc' \in IF Readable(j) /\ Nested(j) THEN {"next", "failed"} ELSE {"next"}
  /\ UNCHANGED <<store, refDigest, job, sent, attempt, work, failures, target>>

(* A directory takes the manifests of an index one by one.                 *)
TakeChildren(j) ==
  /\ pc = "next" /\ j \in todo /\ mode = "directory" /\ j.root \in Index /\ ~j.child /\ Readable(j)
  /\ todo' = (todo \ {j})
             \cup {[key |-> j.key, root |-> c, child |-> TRUE] : c \in Range(Parts[j.root])}
  /\ UNCHANGED <<store, refDigest, job, sent, warned, pc, attempt, work, failures, target>>

Take(j) ==
  /\ pc = "next" /\ j \in todo
  /\ IF mode = "registry" THEN RefOf(j.key) \notin Unparsable
                          ELSE Readable(j) /\ Extractable(j)
  /\ mode = "directory" => j.root \notin Index
  /\ todo' = todo \ {j}
  /\ job' = j /\ attempt' = 1
  /\ pc' = "resolve"
  /\ UNCHANGED <<store, refDigest, sent, warned, work, failures, target>>

(* The index is read again: it may have a newer artifact under the key.    *)
Newest == IF job.child THEN job.root ELSE index[job.key]

Resolve ==
  /\ pc = "resolve"
  /\ sent' = [sent EXCEPT ![job.key] = Newest]
  /\ work' = <<[d |-> Newest, at |-> "copy"]>>
  /\ pc' = "copy"
  /\ UNCHANGED <<store, refDigest, todo, job, warned, attempt, failures, target>>

(* The command ends; an extraction fails if it had to report anything.     *)
WalkEnds ==
  /\ pc = "next" /\ todo = {}
  /\ pc' = IF mode = "extract" /\ warned # {} THEN "failed" ELSE "ok"
  /\ UNCHANGED <<store, walk, attempt, work, failures, target>>

-----------------------------------------------------------------------------
(* The descent of Layout.Copy: a manifest is sent after all it names       *)

Rest(items) == work' = items \o Tail(work)

Attempts == IF mode = "registry" THEN Retries ELSE 1

(* Mutant: an artifact that is given up does not end the copy.             *)
GiveUpQuietly ==
  /\ work' = <<>>
  /\ IF attempt < Attempts
       THEN /\ attempt' = attempt + 1 /\ pc' = "resolve"
            /\ UNCHANGED <<job, warned>>
       ELSE /\ warned' = warned \cup {job.key} /\ job' = None
            /\ pc' = "next"
            /\ UNCHANGED attempt
(* A failed attempt: the next one, or the artifact is given up and, unless *)
(* errors are ignored, the whole copy to a registry.                       *)
GiveUp ==
  /\ work' = <<>>
  /\ IF attempt < Attempts
       THEN /\ attempt' = attempt + 1 /\ pc' = "resolve"
            /\ UNCHANGED <<job, warned>>
       ELSE /\ warned' = warned \cup {job.key} /\ job' = None
            /\ pc' = IF mode = "registry" /\ ~ignore THEN "failed" ELSE "next"
            /\ UNCHANGED attempt

Copying(at) == pc = "copy" /\ work # <<>> /\ Head(work).at = at

(* Mutant: the manifest before what it names.                              *)
ManifestFirst(d) == <<[d |-> d, at |-> "push"]>> \o [i \in 1..Len(Parts[d]) |-> [d |-> Parts[d][i], at |-> "copy"]]

(* The order of a manifest: what it names, then the manifest itself.       *)
Expand(d) == [i \in 1..Len(Parts[d]) |-> [d |-> Parts[d][i], at |-> "copy"]] \o <<[d |-> d, at |-> "push"]>>

Descend ==
  /\ Copying("copy") /\ Manifest(Head(work).d) /\ Damage(Head(work).d) = None
  /\ Rest(Expand(Head(work).d))
  /\ UNCHANGED <<store, pc, walk, attempt, failures, target>>

(* A blob is opened, and a manifest read, before anything is sent.         *)
CannotRead ==
  /\ Copying("copy")
  /\ IF Manifest(Head(work).d) THEN Damage(Head(work).d) # None ELSE Damage(Head(work).d) = "lost"
  /\ GiveUp
  /\ UNCHANGED <<store, refDigest, todo, sent, failures, target>>

Repo0 == Repository(job.key)

(* The pusher asks for a blob by its digest, for a manifest by the tag.    *)
Present(d) ==
  IF Manifest(d) /\ Destination(job.key) # NoTag
    THEN tags[<<Repo0, Destination(job.key)>>] = d
    ELSE d \in linked[Repo0]

Accept(d) ==
  /\ linked' = [linked EXCEPT ![Repo0] = @ \cup {d}]
  /\ tags' = IF Manifest(d) /\ Destination(job.key) # NoTag
               THEN [tags EXCEPT ![<<Repo0, Destination(job.key)>>] = d] ELSE tags
  /\ UNCHANGED files

Sending ==
  /\ mode = "registry" /\ pc = "copy" /\ work # <<>>
  /\ IF Manifest(Head(work).d) THEN Head(work).at = "push" ELSE Damage(Head(work).d) # "lost"

Push ==
  /\ Sending
  /\ IF Present(Head(work).d) THEN UNCHANGED target
                              ELSE Damage(Head(work).d) # "garbled" /\ Accept(Head(work).d)
  /\ Rest(<<>>)
  /\ UNCHANGED <<store, pc, walk, attempt, failures>>

(* The registry finds that the bytes do not have the digest.               *)
PushRefused ==
  /\ Sending /\ ~Present(Head(work).d) /\ Damage(Head(work).d) = "garbled"
  /\ GiveUp
  /\ UNCHANGED <<store, refDigest, todo, sent, failures, target>>

(* What is sent gets lost, or the answer to it.                            *)
PushFails ==
  /\ Sending /\ failures < MaxFailures
  /\ failures' = failures + 1
  /\ \/ UNCHANGED target
     \/ ~Present(Head(work).d) /\ Damage(Head(work).d) # "garbled" /\ Accept(Head(work).d)
  /\ GiveUp
  /\ UNCHANGED <<store, refDigest, todo, sent>>

(* The file store of internal/mapper: what has a file name is written to   *)
(* that file, truncated first; all else is discarded, but its digest       *)
(* verified.                                                               *)
Writing == mode # "registry" /\ pc = "copy" /\ work # <<>>

Truncate ==
  /\ Writing /\ Head(work).at = "copy" /\ ~Manifest(Head(work).d)
  /\ Damage(Head(work).d) # "lost" /\ FileName[Head(work).d] # None
  /\ files' = [files EXCEPT ![FileName[Head(work).d]] = [of |-> Head(work).d, has |-> "part", key |-> job.key]]
  /\ Rest(<<[d |-> Head(work).d, at |-> "half"]>>)
  /\ UNCHANGED <<store, pc, walk, attempt, failures, linked, tags>>

(* Mutant: Close does not compare digests.                                 *)
VerifiedNever(d) == TRUE

(* IoContentWriter.Close: the digest of what was written is compared.      *)
Verified(d) == Damage(d) = None

WriteFile ==
  /\ Writing /\ Head(work).at = "half"
  /\ files' = [files EXCEPT ![FileName[Head(work).d]].has =
                 IF Damage(Head(work).d) = None THEN "all" ELSE "garbage"]
  /\ IF Verified(Head(work).d)
       THEN Rest(<<>>) /\ UNCHANGED <<pc, job, warned, attempt>>
       ELSE GiveUp
  /\ UNCHANGED <<store, refDigest, todo, sent, failures, linked, tags>>

WriteFails ==
  /\ Writing /\ Head(work).at = "half" /\ failures < MaxFailures
  /\ failures' = failures + 1
  /\ GiveUp
  /\ UNCHANGED <<store, refDigest, todo, sent, target>>

Discarded(item) ==
  IF Manifest(item.d) THEN item.at = "push"
                      ELSE item.at = "copy" /\ FileName[item.d] = None /\ Damage(item.d) # "lost"

Discard ==
  /\ Writing /\ Discarded(Head(work))
  /\ IF Verified(Head(work).d)
       THEN Rest(<<>>) /\ UNCHANGED <<pc, job, warned, attempt>>
       ELSE GiveUp
  /\ UNCHANGED <<store, refDigest, todo, sent, failures, target>>

Copied ==
  /\ pc = "copy" /\ work = <<>>
  /\ job' = None /\ pc' = "next"
  /\ UNCHANGED <<store, refDigest, todo, sent, warned, attempt, work, failures, target>>

-----------------------------------------------------------------------------
(* Another process adds an artifact: OCI.AddIndex.                         *)
Add ==
  /\ adds # <<>>
  /\ index' = [index EXCEPT ![Head(adds).key] = Head(adds).digest]
  /\ adds' = Tail(adds)
  /\ UNCHANGED <<mode, bad, ignore, pc, walk, attempt, work, failures, target>>

Command ==
  \/ MapReferences \/ Walk \/ Resolve \/ WalkEnds
  \/ \E j \in todo : Refuse(j) \/ TakeChildren(j) \/ PassOver(j) \/ Take(j)
  \/ Descend \/ CannotRead \/ Push \/ PushRefused \/ PushFails
  \/ Truncate \/ WriteFile \/ WriteFails \/ Discard \/ Copied

Next == Command \/ Add
Spec == Init /\ [][Next]_vars

-----------------------------------------------------------------------------
(* Properties                                                              *)

(* Whatever a repository has, it has all that it names, wherever the copy  *)
(* stops: a manifest is sent after its parts, and a part that another      *)
(* repository of the registry has is sent to this one too.                 *)
TargetWhole ==
  \A r \in Repo :
    /\ \A d \in linked[r] : Range(Parts[d]) \subseteq linked[r]
    /\ \A t \in Tag : tags[<<r, t>>] # None => tags[<<r, t>>] \in linked[r]

(* A copy that succeeds and was not told to ignore errors has sent every   *)
(* artifact it wanted, and the tag of each names an artifact that was sent *)
(* there: an image and an index of one reference share a tag.              *)
Delivered(k) ==
  LET r == Repository(k)  t == Destination(k) IN
  /\ sent[k] # None /\ sent[k] \in linked[r]
  /\ t # NoTag => \E o \in Key : Repository(o) = r /\ Destination(o) = t /\ tags[<<r, t>>] = sent[o]
Promised == {k \in NonEmpty(index) : Wanted(k) /\ \A i \in DOMAIN Additions : Additions[i].key # k}
SuccessIsComplete ==
  mode = "registry" /\ pc = "ok" /\ ~ignore => \A k \in Promised : Delivered(k)

(* A file is whole, with the digest its artifact gives it, or the artifact *)
(* was reported; in the end an extraction that left one that is not fails. *)
FilesWholeOrReported ==
  \A n \in DOMAIN files :
    files[n] # None /\ files[n].has # "all" =>
      /\ \/ files[n].key \in warned
         \/ pc \in {"resolve", "copy"} /\ job.key = files[n].key
      /\ ~(mode = "extract" /\ pc = "ok")

(* copy.go: signatures are routed "to the correct destination tag using    *)
(* the cosign tag convention", the digest of their image.                  *)
SignatureOfItsImage ==
  \A r \in Repo, d \in Digest :
    LET s == tags[<<r, [of |-> d, sig |-> TRUE]>>] IN
    s # None /\ SignatureOf[s] # None => SignatureOf[s] = d
=============================================================================
