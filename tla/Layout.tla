------------------------------- MODULE Layout -------------------------------
(***************************************************************************)
(* store.Layout (pkg/store/store.go) and the commands that drive it: add   *)
(* and sync (AddImage, AddArtifact), load (CopyAll into the store), remove *)
(* (RemoveArtifact, CleanUp).  It composes what BlobStore and OCIIndex     *)
(* describe in detail: a blob write is one step that leaves the blob in    *)
(* place or fails, an index operation one step that saves index.json or    *)
(* fails.  What matters here is their order: a manifest names its config,  *)
(* layers and child manifests, an index entry names a manifest, and        *)
(* CleanUp deletes every blob it cannot reach from an entry.               *)
(*                                                                         *)
(* One hauler process runs one command at a time.  The images of a sync    *)
(* are added concurrently, one job each.  What a job has still to do is    *)
(* its plan, a sequence of steps; a step's elements are done in any order. *)
(***************************************************************************)
EXTENDS Naturals, Sequences

CONSTANTS
  Digest,      \* blobs
  Manifest,    \* those that are image manifests or manifest lists
  Layers,      \* the layers a manifest names
  Config,      \* the config of a manifest, as a set of at most one digest
  Children,    \* the manifests a manifest list names, in order
  Name,        \* references of index entries
  Job,         \* the concurrent jobs of a sync; the first also runs commands
  First,
  Uses,        \* what the store goes through, see UsesAssumption
  None

(* An image and a manifest list under one reference have entries of their  *)
(* own.  The kinds of what is attached to an image stand for sigs, atts,   *)
(* sboms and one kind for each referrer.                                   *)
Extra == {"sigs", "referrer"}
Kind  == {"image", "imageIndex"} \cup Extra
Key   == Name \X Kind
Entry == Key \X Manifest

ASSUME LayoutAssumption ==
  /\ Manifest \subseteq Digest
  /\ Layers \in [Manifest -> SUBSET (Digest \ Manifest)]
  /\ Config \in [Manifest -> SUBSET (Digest \ Manifest)]
  /\ Children \in [Manifest -> Seq(Manifest)]
  /\ First \in Job
  /\ None \notin Manifest

(* artifacts: what add and sync may be asked for; jobs: those of a sync;   *)
(* hauls: the archives that load may be given, sets of entries; retries:   *)
(* attempts of an add after its first one; saveFaults: whether writing     *)
(* index.json may fail; readFaults: whether CleanUp may fail to read a     *)
(* manifest that is there; power: whether the machine may lose power.      *)
ASSUME UsesAssumption ==
  \A u \in Uses :
    /\ \A a \in u.artifacts : /\ a.name \in Name /\ a.root \in Manifest /\ a.image \in BOOLEAN
                              /\ a.extras \subseteq Extra \X Manifest
                              /\ ~a.image => Children[a.root] = <<>>
    /\ u.jobs \subseteq Job
    /\ \A h \in u.hauls : h \subseteq Entry /\ \A e, f \in h : e[1] = f[1] => e = f
    /\ u.retries \in Nat
    /\ {u.saveFaults, u.readFaults, u.power} \subseteq BOOLEAN

VARIABLES
  use,       \* what the store goes through
  blobs,     \* the files under blobs/sha256
  disk,      \* those known to be there after a power loss
  index,     \* index.json: Key -> root manifest or None
  versions,  \* what index.json may hold after a power loss
  mem,       \* nameMap of the running process
  cmd,       \* the running command
  art,       \* the artifact each job of an add command adds
  plan,      \* what each job has still to do
  tries,     \* retries each job has used
  failed,    \* jobs that ended with an error
  haul,      \* the entries the running load copies
  half       \* entries a load put into the index ahead of their manifest,
             \* which are not complete since

diskVars == <<blobs, disk, index, versions>>
jobVars  == <<cmd, art, tries, failed, haul>>
vars == <<use, blobs, disk, index, versions, mem, cmd, art, plan, tries, failed, haul, half>>

EmptyMap == [k \in Key |-> None]
Step(do, what) == [do |-> do, what |-> what]
Steps == {"image", "graph", "write", "extras", "add", "copy", "mark", "drop", "clean", "walk", "sweep"}

TypeOK ==
  /\ use \in Uses
  /\ blobs \subseteq Digest /\ disk \subseteq Digest
  /\ index \in [Key -> Manifest \cup {None}]
  /\ mem \in [Key -> Manifest \cup {None}]
  /\ \A v \in versions : v \in [Key -> Manifest \cup {None}]
  /\ cmd \in {"none", "add", "load", "remove"}
  /\ art \in [Job -> use.artifacts \cup {None}]
  /\ \A j \in Job : \A i \in DOMAIN plan[j] :
       LET s == plan[j][i]
       IN /\ s.do \in Steps
          /\ s.do \in {"write", "walk", "sweep"} => s.what \subseteq Digest
          /\ s.do \in {"image", "graph"} => s.what \subseteq Manifest
          /\ s.do \in {"add", "copy", "mark"} => s.what \subseteq Entry
          /\ s.do = "extras" => s.what \subseteq Extra \X Manifest
          /\ s.do = "drop" => s.what \subseteq Key
  /\ tries \in [Job -> 0..use.retries]
  /\ failed \subseteq Job
  /\ haul \subseteq Entry
  /\ half \subseteq Entry

Init ==
  /\ use \in Uses
  /\ blobs = {} /\ disk = {}
  /\ index = EmptyMap /\ versions = {EmptyMap}
  /\ mem = EmptyMap
  /\ cmd = "none"
  /\ art = [j \in Job |-> None]
  /\ plan = [j \in Job |-> <<>>]
  /\ tries = [j \in Job |-> 0]
  /\ failed = {}
  /\ haul = {}
  /\ half = {}

-----------------------------------------------------------------------------
(* What a manifest names, and everything an artifact needs, down from its  *)
(* root manifest.                                                          *)
Names(m) == Config[m] \cup Layers[m] \cup {Children[m][i] : i \in DOMAIN Children[m]}
Closed(S) == \A m \in S \cap Manifest : Names(m) \subseteq S
Needs == [d \in Digest |-> {x \in Digest : \A S \in SUBSET Digest : d \in S /\ Closed(S) => x \in S}]

Ahead(e) == IF Needs[e[2]] \subseteq blobs THEN {} ELSE {e}

(* The plans.  Empty steps are left out.                                   *)
Write(S) == IF S = {} THEN <<>> ELSE <<Step("write", S)>>

(* writeImageBlobs: layers concurrently, config, manifest.  writeIndexBlobs *)
(* and writeIndex: each child completely, then the list.                   *)
Each(do, list) == [i \in DOMAIN list |-> Step(do, {list[i]})]
ImageBlobs(m) == Each("image", Children[m]) \o Write(Layers[m]) \o Write(Config[m]) \o Write({m})

(* AddArtifact, for files and charts: manifest, config, layers.            *)
ArtifactBlobs(m) == Write({m}) \o Write(Config[m]) \o Write(Layers[m])

Add(name, kind, m) == <<Step("add", {<<<<name, kind>>, m>>})>>

Base(m)  == IF Children[m] = <<>> THEN "image" ELSE "imageIndex"
KeyOf(a) == <<a.name, Base(a.root)>>

(* Mutant: an artifact whose manifest is in the store is taken as whole.   *)
AddPlanTrusting(a) ==
  (IF a.root \in blobs THEN <<>>
     ELSE IF a.image THEN <<Step("image", {a.root})>> ELSE ArtifactBlobs(a.root))
    \o Add(a.name, Base(a.root), a.root)

(* AddImage: the image, its entry, then what is attached to it.            *)
AddPlan(a) ==
  (IF a.image THEN <<Step("image", {a.root})>> ELSE ArtifactBlobs(a.root))
    \o Add(a.name, Base(a.root), a.root)
    \o (IF a.extras = {} THEN <<>> ELSE <<Step("extras", a.extras)>>)

(* copyDescriptorGraph up to the manifest: children, config, layers one by *)
(* one.                                                                    *)
CopyParts(m) == Each("graph", Children[m]) \o Write(Config[m]) \o Write(Layers[m])

(* Mutant: the descriptor graph is cut where the store has the manifest.   *)
CopyPlanTrusting(e) ==
  IF e[2] \in blobs THEN <<Step("mark", {e})>>
  ELSE CopyParts(e[2]) \o <<Step("mark", {e})>> \o Write({e[2]})

(* Copy of a root: its Push saves the index entry before the manifest.     *)
CopyPlan(e) == CopyParts(e[2]) \o <<Step("mark", {e})>> \o Write({e[2]})

-----------------------------------------------------------------------------
Doing(j, do) == plan[j] # <<>> /\ plan[j][1].do = do

(* Element e of the first step of p is done.                               *)
Done(p, e) == IF p[1].what = {e} THEN Tail(p) ELSE [p EXCEPT ![1] = Step(@.do, @.what \ {e})]
Did(j, e)  == plan' = [plan EXCEPT ![j] = Done(@, e)]

(* loadIndexLocked never forgets an entry, saveIndexLocked writes them all.*)
Loaded == [k \in Key |-> IF index[k] # None THEN index[k] ELSE mem[k]]

Put(m, durable) ==
  /\ index' = m
  /\ versions' = IF ~use.power \/ durable THEN {m} ELSE versions \cup {m}

Save(m, durable) == mem' = m /\ Put(m, durable)

(* A save that fails may have failed in syncDir, index.json in its place.  *)
SaveFails(m) ==
  /\ use.saveFaults
  /\ mem' = m
  /\ UNCHANGED <<index, versions>> \/ Put(m, FALSE)

(* A write, a fetch or a save fails.  An add starts over, unless it is     *)
(* cancelled or has no attempts left; a load goes on with the next entry;  *)
(* a remove ends with the first artifact it cannot remove.                 *)
Fail(j) ==
  \/ /\ cmd = "add" /\ tries[j] < use.retries
     /\ tries' = [tries EXCEPT ![j] = @ + 1]
     /\ plan' = [plan EXCEPT ![j] = AddPlan(art[j])]
     /\ UNCHANGED <<cmd, art, failed, haul>>
  \/ /\ plan' = [plan EXCEPT ![j] = IF @[Len(@)].do = "copy" THEN <<@[Len(@)]>> ELSE <<>>]
     /\ failed' = failed \cup {j}
     /\ UNCHANGED <<cmd, art, tries, haul>>

Finished == \A j \in Job : plan[j] = <<>>

-----------------------------------------------------------------------------
(* Commands.  A process opens the store with what index.json holds.        *)
Nothing == [j \in Job |-> None]
Alone(p) == [j \in Job |-> IF j = First THEN p ELSE <<>>]

(* Mutant: the process starts without loading index.json.                  *)
StartBlind(c, a, h, p) ==
  /\ cmd = "none"
  /\ cmd' = c
  /\ art' = a
  /\ haul' = h
  /\ plan' = p
  /\ UNCHANGED <<diskVars, mem, tries, failed, half>>

Start(c, a, h, p) ==
  /\ cmd = "none"
  /\ cmd' = c
  /\ art' = a
  /\ haul' = h
  /\ plan' = p
  /\ mem' = index
  /\ UNCHANGED <<diskVars, tries, failed, half>>

AddCmd ==
  \E a \in [Job -> use.artifacts \cup {None}] :
    /\ \E j \in Job : a[j] # None
    /\ \A j \in Job \ use.jobs : a[j] = None
    /\ Start("add", a, {}, [j \in Job |-> IF a[j] = None THEN <<>> ELSE AddPlan(a[j])])

LoadCmd ==
  \E h \in use.hauls : Start("load", Nothing, h, Alone(<<Step("copy", h)>>))

RemoveCmd ==
  \E n \in Name :
    LET matches == {k \in Key : k[1] = n /\ index[k] # None}
    IN /\ matches # {}
       /\ Start("remove", Nothing, {},
                Alone(<<Step("drop", matches), Step("clean", {None})>>))

EndProcess ==
  /\ cmd' = "none"
  /\ art' = Nothing
  /\ tries' = [j \in Job |-> 0]
  /\ failed' = {}
  /\ haul' = {}
  /\ mem' = EmptyMap
  /\ half' = {e \in half : index'[e[1]] = e[2]}

(* Mutant: no SaveIndex at the end.                                        *)
EndAddUnsaved(saved) ==
  /\ cmd = "add" /\ Finished
  /\ UNCHANGED <<diskVars, plan>>
  /\ EndProcess

(* The deferred SaveIndex of add and sync; its failure is only logged.     *)
EndAdd(saved) ==
  /\ cmd = "add" /\ Finished
  /\ IF saved THEN Put(mem, TRUE)
     ELSE use.saveFaults /\ (UNCHANGED <<index, versions>> \/ Put(mem, FALSE))
  /\ EndProcess
  /\ UNCHANGED <<blobs, disk, plan>>

End ==
  /\ cmd \in {"load", "remove"} /\ Finished
  /\ UNCHANGED <<diskVars, plan>>
  /\ EndProcess

-----------------------------------------------------------------------------
(* The steps of a job.                                                     *)

(* The manifest of an image, or of what a haul holds, is read.             *)
ReadManifest(j, m) ==
  /\ plan[j] # <<>> /\ plan[j][1].what = {m}
  /\ \/ /\ plan[j][1].do = "image"
        /\ plan' = [plan EXCEPT ![j] = ImageBlobs(m) \o Tail(@)]
     \/ /\ plan[j][1].do = "graph"
        /\ plan' = [plan EXCEPT ![j] = CopyParts(m) \o Write({m}) \o Tail(@)]
  /\ UNCHANGED <<diskVars, mem, jobVars, half>>

(* WriteBlob, or Push and Close, leaves the blob in place.                 *)
WriteBlob(j, d) ==
  /\ Doing(j, "write") /\ d \in plan[j][1].what
  /\ blobs' = blobs \cup {d}
  /\ half' = {e \in half : ~ Needs[e[2]] \subseteq blobs'}
  /\ Did(j, d)
  /\ UNCHANGED <<disk, index, versions, mem, jobVars>>

(* saveRelatedArtifacts, saveReferrers: the artifact x attached to the     *)
(* job's image is fetched and added, or is passed over, because the        *)
(* registry has none, the fetch failed, or the same manifest was added as  *)
(* a signature already.                                                    *)
FetchExtra(j, x) ==
  /\ Doing(j, "extras") /\ x \in plan[j][1].what
  /\ \/ plan' = [plan EXCEPT ![j] = <<Step("image", {x[2]})>> \o Add(art[j].name, x[1], x[2])
                                    \o Done(@, x)]
     \/ Did(j, x)
  /\ UNCHANGED <<diskVars, mem, jobVars, half>>

AddIndex(j, e) ==
  /\ Doing(j, "add") /\ e \in plan[j][1].what
  /\ \/ /\ mem[e[1]] = e[2]
        /\ Did(j, e)
        /\ UNCHANGED <<index, versions, mem, jobVars, half>>
     \/ /\ mem[e[1]] # e[2]
        /\ \E durable \in BOOLEAN : Save([mem EXCEPT ![e[1]] = e[2]], durable)
        /\ half' = {f \in half : f[1] # e[1]}
        /\ Did(j, e)
        /\ UNCHANGED jobVars
     \/ /\ mem[e[1]] # e[2]
        /\ SaveFails([mem EXCEPT ![e[1]] = e[2]])
        /\ half' = {f \in half : f[1] # e[1] \/ index' = index}
        /\ Fail(j)
  /\ UNCHANGED <<blobs, disk>>

(* CopyAll takes up the next entry of the haul: Resolve, Fetcher, Pusher.  *)
Copy(j, e) ==
  /\ Doing(j, "copy") /\ e \in plan[j][1].what
  /\ mem' = Loaded
  /\ plan' = [plan EXCEPT ![j] = CopyPlan(e) \o Done(@, e)]
  /\ UNCHANGED <<diskVars, jobVars, half>>

(* The Push of a root manifest loads, adds its entry and saves.  After a   *)
(* save that failed the entry is still written by the next one.            *)
MarkRoot(j, e) ==
  /\ Doing(j, "mark") /\ e \in plan[j][1].what
  /\ \/ /\ \E durable \in BOOLEAN : Save([Loaded EXCEPT ![e[1]] = e[2]], durable)
        /\ half' = {f \in half : f[1] # e[1]} \cup Ahead(e)
        /\ Did(j, e)
        /\ UNCHANGED jobVars
     \/ /\ SaveFails([Loaded EXCEPT ![e[1]] = e[2]])
        /\ half' = half \cup Ahead(e)
        /\ Fail(j)
  /\ UNCHANGED <<blobs, disk>>

(* RemoveArtifact; remove ends with its first error.                       *)
RemoveArtifact(j, k) ==
  /\ Doing(j, "drop") /\ k \in plan[j][1].what
  /\ \/ /\ Save([Loaded EXCEPT ![k] = None], TRUE)
        /\ half' = {e \in half : e[1] # k}
        /\ Did(j, k)
        /\ UNCHANGED jobVars
     \/ /\ SaveFails([Loaded EXCEPT ![k] = None])
        /\ Fail(j)
        /\ UNCHANGED half
  /\ UNCHANGED <<blobs, disk>>

(* CleanUp: what is left to visit, and what nothing has named so far.      *)
Cleaning(visit, rest) ==
  (IF visit = {} THEN <<>> ELSE <<Step("walk", visit)>>)
    \o (IF rest = {} THEN <<>> ELSE <<Step("sweep", rest)>>)

CleanUp(j) ==
  /\ Doing(j, "clean")
  /\ LET roots == {Loaded[k] : k \in {l \in Key : Loaded[l] # None}}
     IN plan' = [plan EXCEPT ![j] = Cleaning(roots \cap blobs, blobs) \o Tail(@)]
  /\ mem' = Loaded
  /\ UNCHANGED <<diskVars, jobVars, half>>

(* Mutant: the manifests of a list are marked, what they name is not.      *)
MarkShallow(j) ==
  /\ Doing(j, "walk")
  /\ LET rest == plan[j][2].what \ plan[j][1].what
         named == UNION {Names(m) : m \in plan[j][1].what \cap Manifest}
     IN plan' = [plan EXCEPT ![j] = Cleaning({}, rest \ named) \o Tail(Tail(@))]
  /\ UNCHANGED <<diskVars, mem, jobVars, half>>

(* Mutant: whatever a manifest in the store names counts as referenced.    *)
MarkEvery(j) ==
  /\ Doing(j, "walk")
  /\ LET rest == plan[j][2].what \ plan[j][1].what
         named == UNION {Names(m) : m \in blobs \cap Manifest}
     IN plan' = [plan EXCEPT ![j] = Cleaning(named \cap rest, rest) \o Tail(Tail(@))]
  /\ UNCHANGED <<diskVars, mem, jobVars, half>>

(* processManifest of a list's children, and of all else that is visited:  *)
(* a blob is marked, and what it names is visited, unless it cannot be     *)
(* read.                                                                   *)
Mark(j) ==
  /\ Doing(j, "walk")
  /\ \E read \in IF use.readFaults THEN SUBSET (plan[j][1].what \cap Manifest)
                                  ELSE {plan[j][1].what \cap Manifest} :
       LET rest == plan[j][2].what \ plan[j][1].what
           named == UNION {Names(m) : m \in read}
       IN plan' = [plan EXCEPT ![j] = Cleaning(named \cap rest, rest) \o Tail(Tail(@))]
  /\ UNCHANGED <<diskVars, mem, jobVars, half>>

(* CleanUp, sweeping.                                                      *)
Sweep(j, d) ==
  /\ Doing(j, "sweep") /\ d \in plan[j][1].what
  /\ blobs' = blobs \ {d}
  /\ Did(j, d)
  /\ UNCHANGED <<disk, index, versions, mem, jobVars, half>>

(* CleanUp ends early where it cannot load the index, read the directory   *)
(* of the blobs or remove one.  RemoveCmd warns and ends well.             *)
CleanUpStops(j) ==
  /\ \E do \in {"clean", "walk", "sweep"} : Doing(j, do)
  /\ plan' = [plan EXCEPT ![j] = <<>>]
  /\ UNCHANGED <<diskVars, mem, jobVars, half>>

(* Any other step may fail too: a fetch, a blob write.                     *)
StepFails(j) ==
  /\ \E do \in {"image", "graph", "write"} : Doing(j, do)
  /\ Fail(j)
  /\ UNCHANGED <<diskVars, mem, half>>

-----------------------------------------------------------------------------
(* The process is killed.                                                  *)
Kill ==
  /\ cmd # "none"
  /\ plan' = [j \in Job |-> <<>>]
  /\ UNCHANGED diskVars
  /\ EndProcess

(* blobs/sha256 is never fsync'd: files created or removed there since the *)
(* machine started may be gone, or back.  Where index.json is left torn    *)
(* (OCIIndex) no command runs any more; this is about the other cases.     *)
PowerLoss ==
  /\ use.power
  /\ plan' = [j \in Job |-> <<>>]
  /\ blobs' \in {S \in SUBSET (blobs \cup disk) : blobs \cap disk \subseteq S}
  /\ disk' = blobs'
  /\ index' \in versions
  /\ versions' = {index'}
  /\ EndProcess

JobStep(j) ==
  /\ plan[j] # <<>>
  /\ \/ \E d \in Digest : WriteBlob(j, d) \/ Sweep(j, d)
     \/ \E x \in Extra \X Manifest : FetchExtra(j, x)
     \/ \E e \in Entry : AddIndex(j, e) \/ Copy(j, e) \/ MarkRoot(j, e)
     \/ \E k \in Key : RemoveArtifact(j, k)
     \/ \E m \in Manifest : ReadManifest(j, m)
     \/ CleanUp(j) \/ Mark(j)
     \/ CleanUpStops(j) \/ StepFails(j)

Operation ==
  \/ AddCmd \/ LoadCmd \/ RemoveCmd
  \/ EndAdd(TRUE) \/ EndAdd(FALSE) \/ End
  \/ \E j \in Job : JobStep(j)
  \/ Kill
  \/ PowerLoss

Next == Operation /\ UNCHANGED use
Spec == Init /\ [][Next]_vars

-----------------------------------------------------------------------------
(* Properties.                                                             *)

(* At every moment, whoever looks at the store finds every blob of every   *)
(* artifact in index.json -- while others are being added, removed or      *)
(* loaded, after failures, retries and kills, with blobs shared between    *)
(* artifacts -- except those of an artifact whose load was broken off      *)
(* between its index entry and its manifest.                               *)
EntriesWhole ==
  \A k \in Key : index[k] # None /\ <<k, index[k]>> \notin half
                => Needs[index[k]] \subseteq blobs

(* It holds as long as CleanUp can read what is there and the power stays. *)
Undisturbed == ~use.readFaults /\ ~use.power
EntriesComplete == Undisturbed => EntriesWhole

(* What the store can hand out under a key.                                *)
Usable(k) ==
  IF index[k] # None /\ Needs[index[k]] \subseteq blobs THEN index[k] ELSE None

(* That changes only as the running command asked: an artifact appears     *)
(* because this add or load is about it (or completes one an earlier load  *)
(* left half), and goes away because this remove names it or this load     *)
(* brings another one of its name.  No failure, retry, kill, clean-up or   *)
(* concurrent job touches the others.                                      *)
Given ==
  haul \cup UNION {{<<KeyOf(art[j]), art[j].root>>}
                     \cup {<<<<art[j].name, x[1]>>, x[2]>> : x \in art[j].extras} :
                   j \in {i \in Job : art[i] # None}}
Asked == Given \cup half

ChangesOnlyAsAsked ==
  [][Undisturbed => \A k \in Key : Usable(k)' # Usable(k) =>
       \/ <<k, Usable(k)'>> \in Asked
       \/ /\ Usable(k)' = None
          /\ \/ Doing(First, "drop") /\ k \in plan[First][1].what
             \/ \E e \in haul : e[1] = k]_vars

(* A store whose manifests can be read and whose power stays is a Catalog. *)
(* What its command has come to is in its plan and its failed jobs: an add *)
(* tells when it ends.                                                     *)
Dropping == IF cmd = "remove" /\ Doing(First, "drop") THEN plan[First][1].what ELSE {}
Outcome ==
  IF cmd # "none" /\ failed # {} THEN "failed"
  ELSE IF cmd \in {"load", "remove"} /\ plan[First] = <<>> THEN "ok" ELSE "open"

Abstract == INSTANCE Catalog WITH
  Artifact <- Manifest, holds <- [k \in Key |-> Usable(k)], command <- cmd, outcome <- Outcome,
  asked <- Given, dropping <- Dropping, pending <- half

(* Under every key there is at any moment a complete artifact or nothing,  *)
(* it changes only as the running command was asked, and a load or remove  *)
(* that reports success has done all of it: the store implements Catalog.  *)
ImplementsCatalog ==
  /\ Undisturbed => Abstract!Init
  /\ [][Undisturbed => Abstract!Next]_(Abstract!catalogVars)

(* A load that reports success has left every artifact of the haul in the  *)
(* store, index entry and blobs, also those an earlier attempt left half.  *)
LoadIsWhole ==
  [][End /\ cmd = "load" /\ failed = {} =>
       \A e \in haul : index'[e[1]] = e[2] /\ Needs[e[2]] \subseteq blobs']_vars

(* When a CleanUp has run to its end the store holds no blob that no       *)
(* artifact needs.  (One that stops earlier is only warned of, and the     *)
(* remove that called it succeeds all the same.)                           *)
NoGarbageLeft ==
  [][\A j \in Job :
       (CleanUp(j) \/ Mark(j) \/ \E d \in Digest : Sweep(j, d)) /\ plan'[j] = <<>>
       => \A d \in blobs' : \E k \in Key : index[k] # None /\ d \in Needs[index[k]]]_vars

(* When add or sync has ended, what each job that reported success added   *)
(* is in index.json, unless another job of the same command added another  *)
(* artifact under the same key -- also when the save of an AddIndex failed *)
(* and its retry found nothing left to save.  The last save may fail too,  *)
(* which is only logged: then an entry may be missing, but only one whose  *)
(* own save had failed before, in a job that was retried or gave up.       *)
Sharing(j) == {i \in Job : art[i] # None /\ KeyOf(art[i]) = KeyOf(art[j])}
SuccessIsRecorded ==
  [][\A saved \in BOOLEAN : EndAdd(saved) =>
       \A j \in Job \ failed : art[j] # None =>
         \/ \E i \in Sharing(j) : index'[KeyOf(art[j])] = art[i].root
         \/ ~saved /\ \E i \in Sharing(j) : tries[i] > 0 \/ i \in failed]_vars

(* Adding an artifact again repairs it: an add that reports success leaves *)
(* every blob of its artifact in the store, whatever power losses, broken  *)
(* off commands and clean-ups that could not read a manifest had taken     *)
(* away before.                                                            *)
AddRepairs ==
  [][EndAdd(TRUE) \/ EndAdd(FALSE) =>
       \A j \in Job \ failed : art[j] # None => Needs[art[j].root] \subseteq blobs']_vars
=============================================================================
