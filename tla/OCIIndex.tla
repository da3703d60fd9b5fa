----------------------------- MODULE OCIIndex ------------------------------
(***************************************************************************)
(* The index half of content.OCI (pkg/content/oci.go): nameMap, the        *)
(* in-memory map from "reference-kind" to a descriptor, o.index, the last  *)
(* decoded or written manifest list, and index.json.                       *)
(*                                                                         *)
(* Every exported operation is one critical section of o.mu, so each is    *)
(* one action, whichever goroutine runs it; RemoveArtifact of the layout   *)
(* above is three.  The actions include the save: while the machine runs   *)
(* CreateTemp to Rename change index.json at once or not at all, and the   *)
(* save may fail before or after the rename.  The process may be killed    *)
(* and the machine may lose power between any two steps; a new process     *)
(* then opens the store, unless the power loss left an index.json that     *)
(* does not decode.                                                        *)
(***************************************************************************)
EXTENDS Integers, Sequences, FiniteSets

CONSTANTS
  Ref,          \* values of the ref.name annotation
  Name,         \* the reference half of a nameMap key
  Canon,        \* the Name reference.Parse gives a Ref; None: it is malformed
  Raw,          \* the Name a Pusher takes from a Ref: the text before "@"
  Digest,       \* manifest digests
  Uses,         \* what is done to the store, see UsesAssumption
  Missing,      \* index.json does not exist
  Torn,         \* index.json is empty, cut short or otherwise does not decode
  None

(* Kind annotations: present, of a previous version of hauler, or missing. *)
Kind == {"image", "sigs", "legacySigs", "missing"}

NormalizeKind(k) ==
  CASE k = "legacySigs" -> "sigs" [] k = "missing" -> "image" [] OTHER -> k

Desc == [dig : Digest, ref : Ref, kind : Kind]
Key  == Name \X {"image", "sigs"}

KeyOf(d)     == <<Canon[d.ref], NormalizeKind(d.kind)>>
Normalize(d) == [d EXCEPT !.kind = NormalizeKind(d.kind)]
Blank        == {Missing, Torn}
Entries(f)   == IF f \in Blank THEN {} ELSE {f[i] : i \in DOMAIN f}
Recorded(f)  == {Normalize(d) : d \in {e \in Entries(f) : Canon[e.ref] # None}}
IsIndex(f)   == f \in Blank \/ f \in Seq(Desc)

ASSUME IndexAssumption ==
  /\ IsFiniteSet(Name)
  /\ None \notin Name \cup Desc \cup Key \cup ({"drop", "save"} \X Key)
  /\ Missing # Torn /\ Blank \cap Seq(Desc) = {}
  /\ Canon \in [Ref -> Name \cup {None}]
  /\ Raw \in [Ref -> Name]

(* added: the descriptors AddIndex may be called with; pushed: the root    *)
(* descriptors a Pusher may be given; rewrites: the pairs <<old, new>> a   *)
(* --rewrite asks for; init: what index.json may hold at first; faults:    *)
(* whether writing it may fail; reloads: whether a process that failed to  *)
(* write it may load it again; unsynced: bound on the saves since the last *)
(* fsync'd one.                                                            *)
ASSUME UsesAssumption ==
  \A u \in Uses :
    /\ u.added \subseteq {d \in Desc : Canon[d.ref] # None /\ NormalizeKind(d.kind) = d.kind}
    /\ u.pushed \subseteq {d \in Desc : Canon[d.ref] # None}
    /\ u.rewrites \subseteq Ref \X Ref
    /\ \A f \in u.init : IsIndex(f) /\ f # Torn
    /\ {u.faults, u.reloads} \subseteq BOOLEAN
    /\ u.unsynced \in Nat

VARIABLES
  use,        \* what is done to the store
  up,         \* a process has the store open
  nm,         \* nameMap: Key -> descriptor, or None
  slots,      \* o.index.Manifests: the key whose nameMap entry shares the
              \* annotation map of each element, or None
  due,        \* indexCheckpointInterval has passed since the last durable save
  removing,   \* RemoveArtifact: <<step, key>>, None when it is not running
  file,       \* index.json
  survivors,  \* what index.json may hold after a power loss
  exposed,    \* index.json was replaced without an fsync since the last
              \* fsync'd save
  acked,      \* descriptors whose operation was reported successful
  safe,       \* the acked descriptors at the last durable save
  unsaved     \* the last save failed: memory is ahead of index.json

procVars == <<up, nm, slots, due, removing>>
vars == <<use, up, nm, slots, due, removing, file, survivors, exposed, acked, safe, unsaved>>

EmptyMap == [k \in Key |-> None]

TypeOK ==
  /\ use \in Uses
  /\ up \in BOOLEAN
  /\ nm \in [Key -> Desc \cup {None}]
  /\ \A i \in DOMAIN slots : slots[i] \in Key \cup {None}
  /\ due \in BOOLEAN
  /\ removing \in ({"drop", "save"} \X Key) \cup {None}
  /\ \A f \in survivors \cup {file} : IsIndex(f)
  /\ exposed \in BOOLEAN
  /\ acked \subseteq Desc
  /\ safe \subseteq acked
  /\ unsaved \in BOOLEAN

Init ==
  /\ use \in Uses
  /\ up = FALSE
  /\ nm = EmptyMap
  /\ slots = <<>>
  /\ due = FALSE
  /\ removing = None
  /\ file \in use.init
  /\ survivors = {file}
  /\ exposed = FALSE
  /\ acked = Recorded(file)
  /\ safe = acked
  /\ unsaved = FALSE

-----------------------------------------------------------------------------
(* loadIndexLocked.  Decode(&o.index) fills the elements the slice already *)
(* has in place, their annotation maps included: where such a map is also  *)
(* a nameMap entry's, that entry is given the annotations of whatever      *)
(* stands at its position in index.json.  Then every well-formed element   *)
(* is stored, normalized, under its own key; nothing is deleted.           *)
Positions == IF file \in Blank THEN {} ELSE DOMAIN file

LoadedMap ==
  [k \in Key |->
     LET stored == {i \in Positions : KeyOf(file[i]) = k}
         shared == {i \in Positions \cap DOMAIN slots : slots[i] = k /\ nm[k] # None}
     IN CASE stored # {} ->
               Normalize(file[CHOOSE i \in stored : \A j \in stored : j <= i])
          [] stored = {} /\ shared # {} ->
               LET f == file[CHOOSE i \in shared : TRUE]
               IN [nm[k] EXCEPT !.ref = f.ref, !.kind = IF f.kind = "missing" THEN @ ELSE f.kind]
          [] OTHER -> nm[k]]

LoadedSlots ==
  [i \in Positions |->
     IF i \in DOMAIN slots /\ slots[i] \notin {KeyOf(file[j]) : j \in Positions}
       THEN slots[i] ELSE None]

Loadable == unsaved => use.reloads

(* A power loss leaves some version of index.json since the last fsync'd   *)
(* one.  Where a save renamed a file it had not fsync'd, the rename may be *)
(* on disk before what was written: the file is then torn.                 *)
(* saveIndexLocked writes the entries of m in any order with images first. *)
SaveOutcome == {"ok"} \cup (IF use.faults THEN {"failed", "nosync"} ELSE {})

Orders(S) ==
  {o \in [1..Cardinality(S) -> S] :
     /\ \A i, j \in DOMAIN o : o[i] = o[j] => i = j
     /\ \A i, j \in DOMAIN o : i < j /\ o[j][2] = "image" => o[i][2] = "image"}

(* Mutant: a save that should be durable skips the fsync.                  *)
SaveUnsynced(m, durable, r) ==
  /\ r = "nosync" => durable
  /\ Cardinality(survivors \ {Torn}) <= use.unsynced
  /\ nm' = m
  /\ \E o \in Orders({k \in Key : m[k] # None}) :
       LET content == [i \in DOMAIN o |-> m[o[i]]]
       IN /\ slots' = o
          /\ file' = IF r = "failed" THEN file ELSE content
          /\ survivors' = IF r = "failed" THEN survivors ELSE survivors \cup {content, Torn}
  /\ exposed' = IF r = "ok" THEN ~durable ELSE exposed
  /\ due' = IF r = "ok" /\ durable THEN FALSE ELSE due
  /\ unsaved' = (r = "failed")

(* One save of m, with outcome r: "ok", "failed" before the rename, or     *)
(* "nosync" when only the directory fsync of a durable save failed.        *)
Save(m, durable, r) ==
  /\ r = "nosync" => durable
  /\ ~durable => Cardinality(survivors \ {Torn}) <= use.unsynced
  /\ nm' = m
  /\ \E o \in Orders({k \in Key : m[k] # None}) :
       LET content == [i \in DOMAIN o |-> m[o[i]]]
       IN /\ slots' = o
          /\ file' = IF r = "failed" THEN file ELSE content
          /\ survivors' =
               CASE r = "failed" -> survivors
                 [] r = "nosync" -> survivors \cup {content}
                 [] r = "ok" /\ durable -> {content}
                 [] OTHER -> survivors \cup {content, Torn}
  /\ exposed' = IF r = "ok" THEN ~durable ELSE exposed
  /\ due' = IF r = "ok" /\ durable THEN FALSE ELSE due
  /\ unsaved' = (r = "failed")

(* The promise after an operation that leaves the descriptors A promised:  *)
(* a durable save makes all of them safe.                                  *)
Promise(A, durable) ==
  /\ acked' = A
  /\ safe' = IF durable THEN A ELSE safe \cap A

(* Adding d replaces what was promised under its reference and kind; only  *)
(* an addition that is reported successful promises d instead.             *)
SameEntry(d, e) == d.ref = e.ref /\ NormalizeKind(d.kind) = NormalizeKind(e.kind)
Others(d) == {e \in acked : ~SameEntry(d, e)}
Ack(d, r) == IF r = "ok" THEN Others(d) \cup {d} ELSE Others(d)

Idle == up /\ removing = None

-----------------------------------------------------------------------------
(* Mutant: NewLayout opens the store without loading its index.            *)
OpenBlind ==
  /\ ~up /\ file # Torn
  /\ up' = TRUE
  /\ nm' = EmptyMap
  /\ slots' = <<>>
  /\ due' = TRUE
  /\ unsaved' = FALSE
  /\ UNCHANGED <<removing, file, survivors, exposed, acked, safe>>

(* NewOCI and the LoadIndex of NewLayout, which returns the error of an    *)
(* index.json that does not decode: no process has that store open again.  *)
Open ==
  /\ ~up /\ file # Torn
  /\ up' = TRUE
  /\ nm' = LoadedMap
  /\ slots' = LoadedSlots
  /\ due' = TRUE
  /\ unsaved' = FALSE
  /\ UNCHANGED <<removing, file, survivors, exposed, acked, safe>>

(* A descriptor equal to the stored one is reported as added without a     *)
(* save.                                                                   *)
AddIndex(d) ==
  /\ Idle
  /\ \/ /\ nm[KeyOf(d)] = d
        /\ Promise(Ack(d, "ok"), FALSE)
        /\ UNCHANGED <<procVars, file, survivors, exposed, unsaved>>
     \/ /\ nm[KeyOf(d)] # d
        /\ \E r \in SaveOutcome :
             /\ Save([nm EXCEPT ![KeyOf(d)] = d], due, r)
             /\ Promise(Ack(d, r), r = "ok" /\ due)
        /\ UNCHANGED <<up, removing>>

(* Resolve, Fetcher, Pusher, LoadIndex and the snapshot of Walk.           *)
Lookup ==
  /\ Idle /\ Loadable
  /\ nm' = LoadedMap
  /\ slots' = LoadedSlots
  /\ UNCHANGED <<up, due, removing, file, survivors, exposed, acked, safe, unsaved>>

(* ociPusher.Push of the root manifest: keyed by the pusher's raw          *)
(* reference.                                                              *)
PushRoot(d) ==
  /\ Idle /\ Loadable
  /\ \E r \in SaveOutcome :
       /\ Save([LoadedMap EXCEPT ![<<Raw[d.ref], NormalizeKind(d.kind)>>] = Normalize(d)], due, r)
       /\ Promise(Ack(Normalize(d), r), r = "ok" /\ due)
  /\ UNCHANGED <<up, removing>>

(* UpdateAnnotations as rewriteReference calls it: entries named old are   *)
(* renamed in place, under the key they have.                              *)
UpdateAnnotations(old, new) ==
  LET matched   == {k \in Key : LoadedMap[k] # None /\ LoadedMap[k].ref = old}
      rename(d) == IF d.ref = old THEN [d EXCEPT !.ref = new] ELSE d
  IN /\ Idle /\ Loadable
     /\ \/ /\ matched = {}
           /\ nm' = LoadedMap
           /\ slots' = LoadedSlots
           /\ UNCHANGED <<due, file, survivors, exposed, acked, safe, unsaved>>
        \/ /\ matched # {}
           /\ \E r \in SaveOutcome :
                /\ Save([k \in Key |-> IF k \in matched THEN rename(LoadedMap[k])
                                                        ELSE LoadedMap[k]], TRUE, r)
                /\ Promise(IF r = "ok" THEN {rename(d) : d \in acked}
                                       ELSE {d \in acked : d.ref # old}, r = "ok")
     /\ UNCHANGED <<up, removing>>

(* The explicit checkpoint at the end of the add and sync commands.        *)
SaveIndex ==
  /\ Idle
  /\ \E r \in SaveOutcome : Save(nm, TRUE, r) /\ Promise(acked, r = "ok")
  /\ UNCHANGED <<up, removing>>

(* Layout.RemoveArtifact: LoadIndex, RemoveFromIndex, SaveIndex.           *)
RemoveLoad(k) ==
  /\ Idle /\ Loadable
  /\ LoadedMap[k] # None
  /\ nm' = LoadedMap
  /\ slots' = LoadedSlots
  /\ removing' = <<"drop", k>>
  /\ UNCHANGED <<up, due, file, survivors, exposed, acked, safe, unsaved>>

RemoveFromIndex ==
  /\ up /\ removing # None /\ removing[1] = "drop"
  /\ nm' = [nm EXCEPT ![removing[2]] = None]
  /\ removing' = <<"save", removing[2]>>
  /\ Promise({d \in acked : KeyOf(d) # removing[2]}, FALSE)
  /\ UNCHANGED <<up, slots, due, file, survivors, exposed, unsaved>>

(* Mutant: RemoveArtifact returns without SaveIndex.                       *)
RemoveUnsaved ==
  /\ up /\ removing # None /\ removing[1] = "save"
  /\ removing' = None
  /\ UNCHANGED <<up, nm, slots, due, file, survivors, exposed, acked, safe, unsaved>>

RemoveSave ==
  /\ up /\ removing # None /\ removing[1] = "save"
  /\ \E r \in SaveOutcome : Save(nm, TRUE, r) /\ Promise(acked, r = "ok")
  /\ removing' = None
  /\ UNCHANGED up

(* indexCheckpointInterval passes.                                         *)
IntervalPasses ==
  /\ up /\ ~due
  /\ due' = TRUE
  /\ UNCHANGED <<up, nm, slots, removing, file, survivors, exposed, acked, safe, unsaved>>

(* The process ends, by itself or killed; what a failed save had not       *)
(* written is gone with it.                                                *)
Stop ==
  /\ up' = FALSE
  /\ nm' = EmptyMap
  /\ slots' = <<>>
  /\ due' = FALSE
  /\ removing' = None
  /\ unsaved' = FALSE

Exit ==
  /\ up
  /\ Stop
  /\ Promise(IF unsaved THEN acked \cap Recorded(file) ELSE acked, FALSE)
  /\ UNCHANGED <<file, survivors, exposed>>

PowerLoss ==
  /\ Stop
  /\ file' \in survivors
  /\ survivors' = {file'}
  /\ exposed' = (file' = Torn)
  /\ Promise(IF file' = Torn THEN {} ELSE safe, TRUE)

Operation ==
  \/ Open \/ Lookup \/ SaveIndex \/ RemoveFromIndex \/ RemoveSave
  \/ \E d \in use.added : AddIndex(d)
  \/ \E d \in use.pushed : PushRoot(d)
  \/ \E rw \in use.rewrites : UpdateAnnotations(rw[1], rw[2])
  \/ \E k \in Key : RemoveLoad(k)
  \/ IntervalPasses \/ Exit \/ PowerLoss

Next == Operation /\ UNCHANGED use
Spec == Init /\ [][Next]_vars

-----------------------------------------------------------------------------
(* Properties.                                                             *)

(* What index.json held at first, and what an operation reported as added, *)
(* pushed or renamed, is in index.json until it is removed, renamed, or    *)
(* replaced under its own reference and kind -- across reloads, restarts   *)
(* and a removal in progress.                                              *)
AckedInIndex == acked \subseteq Recorded(file)

(* The same while no save is outstanding: a later successful save, such as *)
(* the SaveIndex at the end of a command, catches up on every save that    *)
(* failed before it.                                                       *)
SavedWhenNotBehind == ~unsaved => acked \subseteq Recorded(file)

(* Checkpoints: an index.json that can be read after a power loss has      *)
(* every entry that was promised at the last fsync'd save and was not      *)
(* removed or replaced since, and while nothing was saved without an fsync *)
(* since that save, it can be read.                                        *)
CheckpointSurvives ==
  /\ \A f \in survivors \ {Torn} : safe \subseteq Recorded(f)
  /\ ~exposed => Torn \notin survivors

(* While the process is not behind on a save it holds exactly the entries  *)
(* a process that opens the store now would hold.                          *)
MemoryMatchesDisk ==
  up /\ removing = None /\ ~unsaved => {nm[k] : k \in Key} \ {None} = Recorded(file)
=============================================================================
