----------------------------- MODULE StoreCheck -----------------------------
(***************************************************************************)
(* hauler store info --check (cmd/hauler/cli/store/info.go) with the       *)
(* Checker of pkg/store/check.go: every artifact in the index is walked,   *)
(* the config and layers of a manifest by goroutines that share a memo of  *)
(* what was found for each digest, and the artifacts that have a problem   *)
(* are reported.  The store does not change meanwhile; reads may fail.     *)
(***************************************************************************)
EXTENDS Naturals, Sequences, FiniteSets, Functions

CONSTANTS
  Digest,
  Parts,     \* the config and layers a manifest names, as descriptors
  Children,  \* the manifests an image index names, in order, as digests
  Platform,  \* the digests an image index names with a platform
  Entry,     \* the entries of the store's index
  Root,      \* the digest an entry names
  Media,     \* what its media type says it is: "index", "image" or "other"
  Named,     \* the entries whose reference can be displayed
  Limit,     \* GOMAXPROCS
  States,    \* bound: what the file of each digest may be found to be
  None

(* The file of a digest: a garbled one has the right bytes, which are not  *)
(* the JSON of a manifest.                                                 *)
Right == {"good", "garbled"}
File == Right \cup {"missing", "short", "corrupt"}

(* The size of a descriptor is right, absent (0) or that of another file.  *)
Descriptor == [digest : Digest, size : {"right", "absent", "wrong"}]
Sized(d) == [digest |-> d, size |-> "right"]

ASSUME CheckAssumption ==
  /\ Parts \in [Digest -> Seq(Descriptor)]
  /\ Children \in [Digest -> Seq(Digest)]
  /\ Platform \subseteq Digest
  /\ States \in [Digest -> SUBSET File]
  /\ Root \in [Entry -> Digest]
  /\ Media \in [Entry -> {"index", "image", "other"}]
  /\ Named \subseteq Entry
  /\ Limit \in Nat \ {0}
  /\ None \notin Digest \cup Entry

VARIABLES
  blob,     \* the file of each digest
  pc,       \* of the command
  left,     \* the entries Walk has still to visit
  entry,    \* the entry being visited
  plats,    \* the platform manifests of its index still to visit
  todo,     \* the manifests Check has still to visit, innermost first
  gor,      \* the goroutines of the first of them: what each checks, and
            \* where it is
  memo,     \* what the Checker knows of a digest
  clean,    \* the artifact being checked has no problem so far
  opened,   \* the manifests of that artifact that were decoded
  corrupt,  \* the entries with a row in the report
  skipped,  \* those that failed the walk before they were done (errst)
  reads     \* how often each digest was checked for the memo

vars == <<blob, pc, left, entry, plats, todo, gor, memo, clean, opened, corrupt, skipped, reads>>

Status == {"ok", "missing", "size-mismatch", "digest-mismatch", "unreadable"}
Ended == {"passed", "corrupt", "error", "panic"}

TypeOK ==
  /\ blob \in [Digest -> File]
  /\ pc \in {"walk", "entry", "platforms", "check", "parts"} \cup Ended
  /\ left \subseteq Entry /\ entry \in Entry \cup {None}
  /\ plats \in Seq(Digest) /\ todo \in Seq(Digest)
  /\ gor \in Seq([desc : Descriptor, at : {"queued", "run", "wait", "done"}])
  /\ memo \in [Digest -> Status \cup {"unknown", "running"}]
  /\ clean \in BOOLEAN
  /\ opened \subseteq Digest /\ corrupt \subseteq Entry /\ skipped \subseteq Entry
  /\ reads \in [Digest -> Nat]

Init ==
  /\ blob \in {f \in [Digest -> File] : \A d \in Digest : f[d] \in States[d]}
  /\ pc = "walk" /\ left = Entry /\ entry = None
  /\ plats = <<>> /\ todo = <<>> /\ gor = <<>>
  /\ memo = [d \in Digest |-> "unknown"]
  /\ clean = TRUE /\ opened = {} /\ corrupt = {} /\ skipped = {}
  /\ reads = [d \in Digest |-> 0]

-----------------------------------------------------------------------------
(* CheckBlob: the file must be there, of the size named if one is, and     *)
(* have the digest.  A read that fails makes it unreadable.                *)
CheckBlob(desc) ==
  LET file == blob[desc.digest]
  IN  {"unreadable"} \cup
      {CASE file = "missing" -> "missing"
         [] file # "missing" /\ desc.size = "wrong" -> "size-mismatch"
         [] file = "short" /\ desc.size = "right" -> "size-mismatch"
         [] file \in Right /\ desc.size # "wrong" -> "ok"
         [] OTHER -> "digest-mismatch"}

(* A read that succeeds decodes; bytes that are not the manifest's may     *)
(* decode all the same.                                                    *)
MayDecode(d) == blob[d] \notin {"missing", "garbled"}

(* The config an image's manifest names has to open.                       *)
MayOpenConfig(d) ==
  blob[d] = "good" => \A i \in DOMAIN Parts[d] : i = 1 => blob[Parts[d][i].digest] # "missing"

-----------------------------------------------------------------------------
(* InfoCmd.                                                                *)
NotChecking == UNCHANGED <<todo, gor, memo, clean, opened, reads>>

(* A row of the report; an entry that cannot be displayed has none.        *)
Row(bad) == corrupt' = IF bad THEN corrupt \cup ({entry} \cap Named) ELSE corrupt

Goes(to) ==
  /\ pc' = to
  /\ entry' = IF to = "walk" THEN None ELSE entry

(* OCI.Walk opens an entry's manifest.  When it cannot it goes on with the *)
(* next entry, and fails in the end, before anything is reported.          *)
Visit(e) ==
  /\ pc = "walk" /\ e \in left
  /\ left' = left \ {e}
  /\ \/ /\ blob[Root[e]] # "missing"
        /\ pc' = "entry" /\ entry' = e
        /\ UNCHANGED skipped
     \/ /\ skipped' = skipped \cup {e}
        /\ UNCHANGED <<pc, entry>>
  /\ UNCHANGED <<blob, plats, corrupt>> /\ NotChecking

WalkEnds ==
  /\ pc = "walk" /\ left = {}
  /\ pc' = IF skipped # {} THEN "error" ELSE IF corrupt = {} THEN "passed" ELSE "corrupt"
  /\ UNCHANGED <<blob, left, entry, plats, corrupt, skipped>> /\ NotChecking

(* An image index is checked by itself and decoded; a row is added when    *)
(* one of the two fails, and otherwise its platform manifests follow.      *)
VisitIndex ==
  /\ pc = "entry" /\ Media[entry] = "index"
  /\ \/ Row(TRUE) /\ Goes("walk") /\ UNCHANGED plats
     \/ /\ "ok" \in CheckBlob(Sized(Root[entry])) /\ MayDecode(Root[entry])
        /\ plats' = Children[Root[entry]]
        /\ Row(FALSE) /\ Goes("platforms")
  /\ UNCHANGED <<blob, left, skipped>> /\ NotChecking

(* Check begins, with the memo of the artifacts before.                    *)
StartCheck(d) ==
  /\ Goes("check")
  /\ todo' = <<d>> /\ clean' = TRUE /\ opened' = {}
  /\ UNCHANGED <<gor, memo, reads>>

(* A single manifest: it is decoded, the config of an image is opened and  *)
(* decoded too, and each failure is a row; then it is checked.             *)
VisitManifest ==
  /\ pc = "entry" /\ Media[entry] # "index"
  /\ \/ Row(TRUE) /\ Goes("walk") /\ NotChecking
     \/ /\ MayDecode(Root[entry])
        /\ Media[entry] = "image" => MayOpenConfig(Root[entry])
        /\ Row(FALSE)
        /\ IF entry \in Named THEN StartCheck(Root[entry]) ELSE Goes("walk") /\ NotChecking
  /\ UNCHANGED <<blob, left, plats, skipped>>

(* The next platform manifest of an index.  The entry is skipped when it   *)
(* cannot be opened, and the command follows a nil pointer when the index  *)
(* does not say what platform it is for.                                   *)
VisitPlatform ==
  /\ pc = "platforms" /\ plats # <<>>
  /\ LET d == Head(plats)
     IN  \/ /\ d \notin Platform /\ Goes("panic")
           /\ Row(FALSE) /\ NotChecking /\ UNCHANGED <<plats, skipped>>
        \/ /\ d \in Platform /\ Goes("walk")
           /\ skipped' = skipped \cup {entry}
           /\ Row(FALSE) /\ NotChecking /\ UNCHANGED plats
        \/ /\ d \in Platform /\ blob[d] # "missing" \* it does not decode
           /\ Row(TRUE) /\ Goes("platforms") /\ NotChecking
           /\ plats' = Tail(plats) /\ UNCHANGED skipped
        \/ /\ d \in Platform /\ MayDecode(d)
           /\ Row(FALSE) /\ plats' = Tail(plats) /\ UNCHANGED skipped
           /\ IF entry \in Named THEN StartCheck(d) ELSE Goes("platforms") /\ NotChecking
  /\ UNCHANGED <<blob, left>>

PlatformsEnd ==
  /\ pc = "platforms" /\ plats = <<>>
  /\ Goes("walk")
  /\ UNCHANGED <<blob, left, plats, corrupt, skipped>> /\ NotChecking

(* attachProblems: an artifact with a problem is a row.                    *)
CheckEnds ==
  /\ pc = "check" /\ todo = <<>>
  /\ Row(~clean)
  /\ Goes(IF Media[entry] = "index" THEN "platforms" ELSE "walk")
  /\ UNCHANGED <<blob, left, plats, skipped>> /\ NotChecking

-----------------------------------------------------------------------------
(* Checker.Check.                                                          *)
Unvisited == UNCHANGED <<blob, left, entry, plats, corrupt, skipped>>

(* Check begins with the manifest's own blob, asked of the memo; nothing   *)
(* it names is looked at when that is not right, or cannot be decoded.     *)
CheckManifest ==
  /\ pc = "check" /\ todo # <<>>
  /\ LET d == Head(todo)
         new == memo[d] = "unknown"
     IN  \E s \in (IF new THEN CheckBlob(Sized(d)) ELSE {memo[d]}) :
           /\ memo' = [memo EXCEPT ![d] = s]
           /\ reads' = IF new THEN [reads EXCEPT ![d] = @ + 1] ELSE reads
           /\ \/ /\ s = "ok" /\ MayDecode(d)
                 /\ pc' = "parts"
                 /\ gor' = [i \in DOMAIN Parts[d] |-> [desc |-> Parts[d][i], at |-> "queued"]]
                 /\ opened' = opened \cup {d}
                 /\ UNCHANGED <<todo, clean>>
              \/ /\ todo' = Tail(todo) /\ clean' = FALSE
                 /\ UNCHANGED <<pc, gor, opened>>
  /\ Unvisited

Active == {i \in DOMAIN gor : gor[i].at \in {"run", "wait"}}
Next1(i) == gor[i].at = "queued" /\ \A k \in 1..(i - 1) : gor[k].at # "queued"

PartDone(i, s) ==
  /\ gor' = [gor EXCEPT ![i].at = "done"]
  /\ clean' = (clean /\ s = "ok")

(* Mutant: the memo is written when the blob has been read.                *)
StartPartUnmarked(i) ==
  /\ pc = "parts" /\ i \in DOMAIN gor /\ Next1(i) /\ Cardinality(Active) < Limit
  /\ LET d == gor[i].desc.digest
     IN  IF memo[d] = "unknown"
         THEN /\ reads' = [reads EXCEPT ![d] = @ + 1]
              /\ gor' = [gor EXCEPT ![i].at = "run"]
              /\ UNCHANGED <<memo, clean>>
         ELSE PartDone(i, memo[d]) /\ UNCHANGED <<memo, reads>>
  /\ UNCHANGED <<pc, todo, opened>> /\ Unvisited

(* g.Go starts a goroutine for the config or a layer; checkMemo lets the   *)
(* first one that asks for a digest check it and the others wait.          *)
StartPart(i) ==
  /\ pc = "parts" /\ i \in DOMAIN gor /\ Next1(i) /\ Cardinality(Active) < Limit
  /\ LET d == gor[i].desc.digest
     IN  CASE memo[d] = "unknown" ->
                /\ memo' = [memo EXCEPT ![d] = "running"]
                /\ reads' = [reads EXCEPT ![d] = @ + 1]
                /\ gor' = [gor EXCEPT ![i].at = "run"]
                /\ UNCHANGED clean
           [] memo[d] = "running" ->
                gor' = [gor EXCEPT ![i].at = "wait"] /\ UNCHANGED <<memo, clean, reads>>
           [] OTHER -> PartDone(i, memo[d]) /\ UNCHANGED <<memo, reads>>
  /\ UNCHANGED <<pc, todo, opened>> /\ Unvisited

(* Mutant: a check that finds a problem does not wake those that wait.     *)
FinishPartDeaf(i) ==
  /\ pc = "parts" /\ i \in DOMAIN gor
  /\ \/ /\ gor[i].at = "run"
        /\ \E s \in CheckBlob(gor[i].desc) :
             PartDone(i, s) /\ memo' = [memo EXCEPT ![gor[i].desc.digest] = s]
     \/ /\ gor[i].at = "wait" /\ memo[gor[i].desc.digest] = "ok"
        /\ PartDone(i, "ok") /\ UNCHANGED memo
  /\ UNCHANGED <<pc, todo, opened, reads>> /\ Unvisited

(* The one that checks is finished, and the others have its answer.        *)
FinishPart(i) ==
  /\ pc = "parts" /\ i \in DOMAIN gor
  /\ \/ /\ gor[i].at = "run"
        /\ \E s \in CheckBlob(gor[i].desc) :
             PartDone(i, s) /\ memo' = [memo EXCEPT ![gor[i].desc.digest] = s]
     \/ /\ gor[i].at = "wait" /\ memo[gor[i].desc.digest] # "running"
        /\ PartDone(i, memo[gor[i].desc.digest]) /\ UNCHANGED memo
  /\ UNCHANGED <<pc, todo, opened, reads>> /\ Unvisited

(* Mutant: the manifests of a nested index are not checked.                *)
PartsEndFlat ==
  /\ pc = "parts" /\ \A i \in DOMAIN gor : gor[i].at = "done"
  /\ pc' = "check" /\ gor' = <<>>
  /\ todo' = Tail(todo)
  /\ UNCHANGED <<memo, clean, opened, reads>> /\ Unvisited

(* g.Wait; then Check calls itself for each child.                         *)
PartsEnd ==
  /\ pc = "parts" /\ \A i \in DOMAIN gor : gor[i].at = "done"
  /\ pc' = "check" /\ gor' = <<>>
  /\ todo' = Children[Head(todo)] \o Tail(todo)
  /\ UNCHANGED <<memo, clean, opened, reads>> /\ Unvisited

Next ==
  \/ \E e \in Entry : Visit(e)
  \/ WalkEnds \/ VisitIndex \/ VisitManifest \/ VisitPlatform \/ PlatformsEnd \/ CheckEnds
  \/ CheckManifest \/ PartsEnd
  \/ \E i \in DOMAIN gor : StartPart(i) \/ FinishPart(i)

Spec == Init /\ [][Next]_vars

(* Every goroutine, the command's own among them, is run.                  *)
FairSpec == Spec /\ WF_vars(Next)

-----------------------------------------------------------------------------
(* A manifest is whole when it, everything it names and everything that    *)
(* those name is in the store with the right bytes.                        *)
Whole(d) ==
  \E S \in SUBSET Digest :
    /\ d \in S
    /\ \A m \in S :
         /\ blob[m] = "good"
         /\ \A i \in DOMAIN Parts[m] : blob[Parts[m][i].digest] \in Right
         /\ Range(Children[m]) \subseteq S

EntryWhole(e) ==
  IF Media[e] = "index"
  THEN blob[Root[e]] = "good" /\ \A d \in Range(Children[Root[e]]) : Whole(d)
  ELSE Whole(Root[e])

(* The report names every artifact that is not whole, whichever of them    *)
(* was checked first, whatever they share and whatever could not be read:  *)
(* "passed" is true, and so is a report.  An entry that was skipped makes  *)
(* the command fail.                                                       *)
DamageReported ==
  /\ \A e \in Named \ (left \cup {entry}) : e \in corrupt \cup skipped \/ EntryWhole(e)
  /\ pc \in {"passed", "corrupt"} => \A e \in Named : e \in corrupt \/ EntryWhole(e)
  /\ pc = "passed" => corrupt = {}

(* No blob is read twice for the memo, however many goroutines and         *)
(* manifests ask for it.                                                   *)
ReadOnce == \A d \in Digest : reads[d] <= 1

(* The command comes to an end.                                            *)
CommandEnds == <>(pc \in Ended)
=============================================================================
