-------------------------- MODULE StoreCopyProofs ---------------------------
(***************************************************************************)
(* What holds of StoreCopy for every store, every registry of any          *)
(* repositories, any damage, any number of retries and of lost pushes.     *)
(*                                                                         *)
(* The properties are not inductive; Invariant is.  It adds what is still  *)
(* to be sent before a manifest may be (OrderInv), which file a copy is in *)
(* the middle of (HalfInv, FileInv), and, for a copy that succeeds, that   *)
(* the root is what is sent last (RootInv) and that every artifact is      *)
(* delivered, or being copied, or still to be visited (DeliverInv).        *)
(* That signatures go to the tag of their image depends on the store: From *)
(* and SigInv are what it takes where they match their images.             *)
(***************************************************************************)
EXTENDS StoreCopy, SequenceTheorems, TLAPS

(* What is visited is in the index and stays there; the registry is not    *)
(* given the manifests of an index one by one, and only it gets retries.   *)
JobInv ==
  /\ \A j \in todo : index[j.key] # None /\ (mode = "registry" => ~j.child)
  /\ pc \in {"resolve", "copy"} =>
       /\ job \in Job /\ index[job.key] # None
       /\ mode = "registry" => ~job.child
       /\ mode # "registry" => attempt = 1
  /\ pc # "copy" => work = <<>>
  /\ mode # "registry" => pc # "walk"

(* What a manifest names is in its repository before the manifest is sent. *)
OrderInv ==
  mode = "registry" =>
    \A i \in DOMAIN work : work[i].at = "push" =>
      \A d \in Range(Parts[work[i].d]) :
        d \in linked[Repository(job.key)] \/ \E k \in 1..(i - 1) : work[k].d = d

(* Only the first thing to do is half done: the file of the job.           *)
HalfInv ==
  \A i \in DOMAIN work : work[i].at = "half" =>
    /\ mode # "registry" /\ i = 1
    /\ FileName[work[1].d] # None /\ files[FileName[work[1].d]] # None
    /\ files[FileName[work[1].d]].key = job.key

(* A file that is not whole is the one being written, or was reported.     *)
FileInv ==
  \A n \in DOMAIN files : files[n] # None /\ files[n].has # "all" =>
    \/ files[n].key \in warned
    \/ /\ pc = "copy" /\ work # <<>> /\ work[1].at = "half"
       /\ FileName[work[1].d] = n /\ files[n].key = job.key

EndInv == mode = "extract" /\ pc = "ok" => warned = {}

(* The index names manifests only; what is still to be added is of the     *)
(* artifacts that may be added.                                            *)
EntriesInv ==
  /\ \A k \in Key : index[k] # None => Manifest(index[k])
  /\ \A i \in DOMAIN adds : \E m \in DOMAIN Additions : adds[i] = Additions[m]

(* The artifact that was resolved is the last thing to send; when nothing  *)
(* is left, the registry has it, under its tag.                            *)
RootInv ==
  mode = "registry" /\ pc = "copy" =>
    /\ sent[job.key] # None /\ Manifest(sent[job.key])
    /\ work # <<>> => work[Len(work)].d = sent[job.key]
    /\ work = <<>> => Present(sent[job.key])

(* An artifact is to be visited, or being copied, or it is delivered, but  *)
(* for its tag while another artifact is on its way to that.               *)
InTransit == pc \in {"resolve", "copy"}
Arrived(k) ==
  LET r == Repository(k)  t == Destination(k) IN
  /\ sent[k] # None /\ sent[k] \in linked[r]
  /\ t # NoTag =>
       \/ InTransit /\ Repository(job.key) = r /\ Destination(job.key) = t
       \/ \E o \in Key : Repository(o) = r /\ Destination(o) = t /\ tags[<<r, t>>] = sent[o]
DeliverInv ==
  mode = "registry" /\ ~ignore /\ pc \in {"next", "resolve", "copy", "ok"} =>
    /\ \A k \in Promised : (\E j \in todo : j.key = k) \/ (InTransit /\ job.key = k) \/ Arrived(k)
    /\ pc = "ok" => todo = {}

Typed == TypeOK /\ JobInv
Whole == Typed /\ TargetWhole /\ OrderInv /\ HalfInv
Invariant == Whole /\ FileInv /\ EndInv /\ EntriesInv /\ RootInv /\ DeliverInv

-----------------------------------------------------------------------------
(* Types                                                                   *)

(* The tag of an artifact is a tag, in a repository.                       *)
LEMMA DestinationType ==
  ASSUME TypeOK, NEW k \in Key
  PROVE  Repository(k) \in Repo /\ (Destination(k) # NoTag => Destination(k) \in Tag)
<1>1. RefOf(k) \in Ref
  BY DEF Key, RefOf
<1> QED
  BY <1>1, CopyAssumption DEF TypeOK, Repository, Destination, Tag, NoTag

(* Giving up an artifact keeps the types; a copy to a directory, and an    *)
(* extraction, have one attempt.                                           *)
LEMMA GiveUpTypes ==
  ASSUME Typed, pc = "copy", GiveUp
  PROVE  /\ work' = <<>> /\ pc' \in {"resolve", "next", "failed"}
         /\ job' \in Job \cup {None} /\ warned' \subseteq Key /\ attempt' \in 0..Retries
         /\ pc' = "resolve" => job' = job /\ mode = "registry"
         /\ pc' # "resolve" => warned' = warned \cup {job.key}
         /\ pc' = "failed" => mode = "registry"
         /\ warned \subseteq warned'
<1>1. job \in Job /\ job.key \in Key
  BY DEF Typed, JobInv, Job
<1>2. Attempts \in 1..Retries /\ (mode # "registry" => Attempts = 1 /\ attempt = 1)
  BY CopyAssumption DEF Attempts, Typed, JobInv
<1>3. attempt \in 0..Retries /\ warned \subseteq Key
  BY DEF Typed, TypeOK
<1>4. CASE attempt < Attempts
  BY <1>1, <1>2, <1>3, <1>4, CopyAssumption DEF GiveUp
<1>5. CASE ~(attempt < Attempts)
  BY <1>1, <1>2, <1>3, <1>5, CopyAssumption DEF GiveUp
<1> QED
  BY <1>4, <1>5
LEMMA TypedInit == Init => Typed
<1> SUFFICES ASSUME Init PROVE Typed
  OBVIOUS
<1>1. TypeOK
  <2>1. index \in [Key -> Digest \cup {None}] /\ adds \in Seq(Addition)
    BY CopyAssumption DEF Init
  <2>2. work \in Seq(Item)
    BY DEF Init
  <2>3. sent \in [Key -> Digest \cup {None}] /\ refDigest \in [Ref -> Digest \cup {None}]
    BY DEF Init
  <2>4. linked \in [Repo -> SUBSET Digest] /\ tags \in [Repo \X Tag -> Digest \cup {None}]
    BY DEF Init
  <2>5. files \in [Range(FileName) \ {None} -> File \cup {None}]
    BY DEF Init
  <2>6. ignore \in BOOLEAN
    BY DEF Init
  <2> QED
    BY <2>1, <2>2, <2>3, <2>4, <2>5, <2>6, CopyAssumption DEF Init, TypeOK
<1>2. JobInv
  BY DEF Init, JobInv
<1> QED
  BY <1>1, <1>2 DEF Typed

(* What there is to do first, and what is left after it.                   *)
LEMMA WorkTypes ==
  ASSUME TypeOK, work # <<>>
  PROVE  /\ Head(work) \in Item /\ Head(work) = work[1] /\ Tail(work) \in Seq(Item)
         /\ Len(work) \in Nat \ {0} /\ 1 \in DOMAIN work
BY HeadTailProperties, LenProperties DEF TypeOK

LEMMA ExpandTypes ==
  ASSUME NEW d \in Digest
  PROVE  /\ Expand(d) \in Seq(Item) /\ Parts[d] \in Seq(Digest)
         /\ Len(Expand(d)) = Len(Parts[d]) + 1
         /\ \A i \in 1..Len(Parts[d]) : Expand(d)[i] = [d |-> Parts[d][i], at |-> "copy"]
         /\ Expand(d)[Len(Parts[d]) + 1] = [d |-> d, at |-> "push"]
<1> DEFINE named == [i \in 1..Len(Parts[d]) |-> [d |-> Parts[d][i], at |-> "copy"]]
<1>1. Parts[d] \in Seq(Digest) /\ Len(Parts[d]) \in Nat
  BY CopyAssumption, LenProperties
<1>2. \A i \in 1..Len(Parts[d]) : Parts[d][i] \in Digest
  BY <1>1, ElementOfSeq
<1>3. \A i \in 1..Len(Parts[d]) : named[i] \in Item
  BY <1>2 DEF Item
<1>8. \A i \in 1..Len(Parts[d]) : named[i] = [d |-> Parts[d][i], at |-> "copy"]
  OBVIOUS
<1> HIDE DEF named
<1>4. named \in [1..Len(Parts[d]) -> Item]
  BY <1>3 DEF named
<1>5. named \in Seq(Item) /\ Len(named) = Len(Parts[d])
  BY <1>1, <1>4, SeqDef
<1>6. <<[d |-> d, at |-> "push"]>> \in Seq(Item)
  BY DEF Item
<1>7. Len(<<[d |-> d, at |-> "push"]>>) = 1 /\ <<[d |-> d, at |-> "push"]>>[1] = [d |-> d, at |-> "push"]
  OBVIOUS
<1>9. Expand(d) = named \o <<[d |-> d, at |-> "push"]>>
  BY DEF Expand, named
<1> DEFINE last == <<[d |-> d, at |-> "push"]>>
<1> HIDE DEF last
<1>10. /\ named \o last \in Seq(Item)
       /\ Len(named \o last) = Len(named) + Len(last)
       /\ \A i \in 1..(Len(named) + Len(last)) :
            (named \o last)[i] = IF i <= Len(named) THEN named[i] ELSE last[i - Len(named)]
  BY <1>5, <1>6, ConcatProperties DEF last
<1>11. Len(last) = 1 /\ last[1] = [d |-> d, at |-> "push"] /\ Expand(d) = named \o last
  BY <1>7, <1>9 DEF last
<1>12. \A i \in 1..Len(Parts[d]) : Expand(d)[i] = [d |-> Parts[d][i], at |-> "copy"]
  <2> SUFFICES ASSUME NEW i \in 1..Len(Parts[d]) PROVE Expand(d)[i] = [d |-> Parts[d][i], at |-> "copy"]
    OBVIOUS
  <2>1. Expand(d)[i] = named[i]
    BY <1>1, <1>5, <1>10, <1>11
  <2> QED
    BY <2>1, <1>8
<1>13. Expand(d)[Len(Parts[d]) + 1] = [d |-> d, at |-> "push"]
  <2>1. Expand(d)[Len(Parts[d]) + 1] = last[1]
    BY <1>1, <1>5, <1>10, <1>11
  <2> QED
    BY <2>1, <1>11
<1> QED
  BY <1>1, <1>5, <1>10, <1>11, <1>12, <1>13
LEMMA PartsAreDigests ==
  ASSUME NEW d \in Digest
  PROVE  /\ Range(Parts[d]) \subseteq Digest
         /\ \A c \in Range(Parts[d]) : \E i \in 1..Len(Parts[d]) : Parts[d][i] = c
<1>1. Parts[d] \in [1..Len(Parts[d]) -> Digest] /\ DOMAIN Parts[d] = 1..Len(Parts[d])
  BY CopyAssumption, LenProperties
<1> QED
  BY <1>1 DEF Range

(* The steps of the descent leave the walk alone, or give the artifact up. *)
LEMMA CopyingStep ==
  ASSUME Typed, pc = "copy", UNCHANGED <<store, refDigest, todo, sent>>,
         linked' \in [Repo -> SUBSET Digest], tags' \in [Repo \X Tag -> Digest \cup {None}],
         files' \in [Range(FileName) \ {None} -> File \cup {None}],
         failures' \in 0..MaxFailures,
         \/ GiveUp
         \/ work' \in Seq(Item) /\ UNCHANGED <<pc, job, warned, attempt>>
  PROVE  Typed'
<1>1. CASE GiveUp
  <2>1. /\ work' = <<>> /\ pc' \in {"resolve", "next", "failed"}
        /\ job' \in Job \cup {None} /\ warned' \subseteq Key /\ attempt' \in 0..Retries
        /\ pc' = "resolve" => job' = job /\ mode = "registry"
    BY <1>1, GiveUpTypes
  <2>2. work' \in Seq(Item)
    BY <2>1, EmptySeq
  <2>3. TypeOK'
    BY <2>1, <2>2 DEF Typed, TypeOK, store, Ended
  <2>4. JobInv'
    BY <2>1 DEF Typed, JobInv, store
  <2> QED
    BY <2>3, <2>4 DEF Typed
<1>2. CASE work' \in Seq(Item) /\ UNCHANGED <<pc, job, warned, attempt>>
  BY <1>2 DEF Typed, TypeOK, JobInv, store
<1> QED
  BY <1>1, <1>2

LEMMA TypedStep ==
  ASSUME Typed, HalfInv, [Next]_vars
  PROVE  Typed'
<1> USE DEF Typed
<1>1. CASE MapReferences
  <2>1. \A r \in Ref : refDigest'[r] \in Digest \cup {None}
    BY <1>1 DEF MapReferences, TypeOK
  <2> QED
    BY <1>1, <2>1 DEF MapReferences, TypeOK, JobInv, store, target
<1>2. CASE Walk
  <2>1. todo' \subseteq Job /\ \A j \in todo' : index[j.key] # None /\ ~j.child
    <3>1. SUFFICES ASSUME NEW j \in todo' PROVE j \in Job /\ index[j.key] # None /\ ~j.child
      OBVIOUS
    <3>2. PICK k \in NonEmpty(index) : j = [key |-> k, root |-> index[k], child |-> FALSE]
      BY <1>2, <3>1 DEF Walk
    <3>3. k \in Key /\ index[k] \in Digest /\ index[k] # None
      BY <3>2, CopyAssumption DEF NonEmpty, TypeOK
    <3> QED
      BY <3>2, <3>3 DEF Job
  <2> QED
    BY <1>2, <2>1 DEF Walk, TypeOK, JobInv, store, target, Ended
<1>3. ASSUME NEW j \in todo, Refuse(j) PROVE Typed'
  BY <1>3 DEF Refuse, TypeOK, JobInv, store, target, Ended, Job
<1>4. ASSUME NEW j \in todo, PassOver(j) PROVE Typed'
  <2>1. /\ pc = "next" /\ pc' \in {"next", "failed"} /\ todo' \subseteq todo
        /\ warned' \in {warned, warned \cup {j.key}} /\ j.key \in Key
        /\ UNCHANGED <<store, refDigest, job, sent, attempt, work, failures, target>>
    BY <1>4 DEF PassOver, TypeOK, Job
  <2> QED
    BY <2>1 DEF TypeOK, JobInv, store, target, Ended
<1>5. ASSUME NEW j \in todo, TakeChildren(j) PROVE Typed'
  <2>1. j \in Job /\ Range(Parts[j.root]) \subseteq Digest
    <3>1. j \in Job /\ j.root \in Digest
      BY DEF TypeOK, Job
    <3> QED
      BY <3>1, PartsAreDigests
  <2>2. ASSUME NEW k \in todo' PROVE k \in Job /\ index[k.key] # None
    <3>1. k \in todo \/ \E c \in Range(Parts[j.root]) : k = [key |-> j.key, root |-> c, child |-> TRUE]
      BY <1>5, <2>2 DEF TakeChildren
    <3>2. CASE k \in todo
      BY <3>2 DEF TypeOK, JobInv
    <3>3. ASSUME NEW c \in Range(Parts[j.root]), k = [key |-> j.key, root |-> c, child |-> TRUE]
          PROVE  k \in Job /\ index[k.key] # None
      <4>1. c \in Digest /\ j.key \in Key /\ index[j.key] # None
        BY <2>1, <3>3 DEF Job, JobInv
      <4> QED
        BY <4>1, <3>3 DEF Job
    <3> QED
      BY <3>1, <3>2, <3>3
  <2> QED
    BY <1>5, <2>2 DEF TakeChildren, TypeOK, JobInv, store, target
<1>6. ASSUME NEW j \in todo, Take(j) PROVE Typed'
  BY <1>6, CopyAssumption DEF Take, TypeOK, JobInv, store, target
<1>7. CASE Resolve
  <2>1. job \in Job /\ Newest \in Digest
    BY <1>7 DEF Resolve, TypeOK, JobInv, Newest, Job
  <2>2. work' \in Seq(Item)
    BY <1>7, <2>1 DEF Resolve, Item
  <2>3. sent' \in [Key -> Digest \cup {None}]
    BY <1>7, <2>1 DEF Resolve, TypeOK
  <2> QED
    BY <1>7, <2>1, <2>2, <2>3 DEF Resolve, TypeOK, JobInv, store, target
<1>8. CASE WalkEnds
  BY <1>8 DEF WalkEnds, TypeOK, JobInv, store, walk, target, Ended
<1>9. CASE Copied
  BY <1>9 DEF Copied, TypeOK, JobInv, store, target
<1>10. CASE Add
  <2>1. Head(adds) \in Addition /\ Tail(adds) \in Seq(Addition)
    BY <1>10, HeadTailProperties DEF Add, TypeOK
  <2>2. index' \in [Key -> Digest \cup {None}] /\ \A k \in Key : index[k] # None => index'[k] # None
    BY <1>10, <2>1, CopyAssumption DEF Add, TypeOK, Addition
  <2>3. \A j \in todo : j.key \in Key
    BY DEF TypeOK, Job
  <2>4. job \in Job => job.key \in Key
    BY DEF Job
  <2> QED
    BY <1>10, <2>1, <2>2, <2>3, <2>4 DEF Add, TypeOK, JobInv, walk, target
<1>11. CASE Descend \/ CannotRead \/ Push \/ PushRefused \/ PushFails \/ Truncate \/ WriteFile \/ WriteFails \/ Discard
  <2>1. work # <<>> /\ pc = "copy"
    BY <1>11 DEF Descend, CannotRead, Push, PushRefused, PushFails, Truncate, WriteFile, WriteFails,
                 Discard, Copying, Sending, Writing
  <2>2. /\ Head(work) \in Item /\ Tail(work) \in Seq(Item)
        /\ \A items \in Seq(Item) : items \o Tail(work) \in Seq(Item)
        /\ <<>> \in Seq(Item)
    BY <2>1, WorkTypes, ConcatProperties, EmptySeq
  <2>3. Head(work).d \in Digest /\ job \in Job
    BY <2>1, <2>2 DEF Item, JobInv
  <2>4. Repo0 \in Repo /\ (Destination(job.key) # NoTag => Destination(job.key) \in Tag)
    BY <2>3, DestinationType DEF Repo0, Job
  <2>5. ASSUME Accept(Head(work).d)
        PROVE  linked' \in [Repo -> SUBSET Digest] /\ tags' \in [Repo \X Tag -> Digest \cup {None}]
    BY <2>3, <2>4, <2>5 DEF Accept, TypeOK
  <2>6. failures < MaxFailures => failures + 1 \in 0..MaxFailures
    BY CopyAssumption DEF TypeOK
  <2>7. CASE Descend
    BY <2>1, <2>2, <2>3, <2>7, ExpandTypes, CopyingStep
       DEF Descend, Rest, walk, target, TypeOK
  <2>8. CASE CannotRead
    BY <2>1, <2>8, CopyingStep DEF CannotRead, target, TypeOK
  <2>9. CASE Push
    BY <2>1, <2>2, <2>5, <2>9, CopyingStep DEF Push, Rest, walk, target, TypeOK, Accept
  <2>10. CASE PushRefused
    BY <2>1, <2>10, CopyingStep DEF PushRefused, target, TypeOK
  <2>11. CASE PushFails
    BY <2>1, <2>5, <2>6, <2>11, CopyingStep DEF PushFails, target, TypeOK, Accept
  <2>12. CASE Truncate
    <3>1. FileName[Head(work).d] \in Range(FileName) \ {None}
      BY <2>3, <2>12, CopyAssumption DEF Truncate, Range
    <3>2. files' \in [Range(FileName) \ {None} -> File \cup {None}]
      BY <2>3, <2>12, <3>1 DEF Truncate, TypeOK, File, Job
    <3>3. <<[d |-> Head(work).d, at |-> "half"]>> \in Seq(Item)
      BY <2>3 DEF Item
    <3> QED
      BY <2>1, <2>2, <2>12, <3>2, <3>3, CopyingStep DEF Truncate, Rest, walk, TypeOK
  <2>13. CASE WriteFile
    <3>1. FileName[Head(work).d] \in Range(FileName) \ {None} /\ files[FileName[Head(work).d]] # None
      BY <2>1, <2>3, <2>13, WorkTypes, CopyAssumption DEF WriteFile, HalfInv, Range
    <3>2. files[FileName[Head(work).d]] \in File
      BY <3>1 DEF TypeOK
    <3>3. files' \in [Range(FileName) \ {None} -> File \cup {None}]
      BY <2>13, <3>1, <3>2 DEF WriteFile, TypeOK, File
    <3> QED
      BY <2>1, <2>2, <2>13, <3>3, CopyingStep DEF WriteFile, Rest, TypeOK
  <2>14. CASE WriteFails
    BY <2>1, <2>6, <2>14, CopyingStep DEF WriteFails, target, TypeOK
  <2>15. CASE Discard
    BY <2>1, <2>2, <2>15, CopyingStep DEF Discard, Rest, target, TypeOK
  <2> QED
    BY <1>11, <2>7, <2>8, <2>9, <2>10, <2>11, <2>12, <2>13, <2>14, <2>15
<1>12. CASE UNCHANGED vars
  BY <1>12 DEF vars, store, walk, target, TypeOK, JobInv
<1> QED
  BY <1>1, <1>2, <1>3, <1>4, <1>5, <1>6, <1>7, <1>8, <1>9, <1>10, <1>11, <1>12 DEF Next, Command
-----------------------------------------------------------------------------
(* What is left to do, and the registry                                    *)

LEMMA RestProperties ==
  ASSUME TypeOK, work # <<>>, NEW items \in Seq(Item), Rest(items)
  PROVE  /\ Len(items) \in Nat /\ DOMAIN work = 1..Len(work) /\ Len(work) \in Nat \ {0}
         /\ DOMAIN work' = 1..(Len(items) + Len(work) - 1)
         /\ \A i \in DOMAIN work' :
              work'[i] = IF i <= Len(items) THEN items[i] ELSE work[i - Len(items) + 1]
<1>1. work \in Seq(Item) /\ Len(items) \in Nat
  BY LenProperties DEF TypeOK
<1>2. /\ DOMAIN work = 1..Len(work) /\ Len(work) \in Nat \ {0}
      /\ Tail(work) \in Seq(Item) /\ Len(Tail(work)) = Len(work) - 1
      /\ \A i \in 1..(Len(work) - 1) : Tail(work)[i] = work[i + 1]
  BY <1>1, HeadTailProperties, LenProperties, EmptySeq
<1>3. /\ items \o Tail(work) \in Seq(Item)
      /\ Len(items \o Tail(work)) = Len(items) + Len(work) - 1
      /\ \A i \in 1..(Len(items) + Len(Tail(work))) :
           (items \o Tail(work))[i] = IF i <= Len(items) THEN items[i] ELSE Tail(work)[i - Len(items)]
  BY <1>1, <1>2, ConcatProperties
<1>4. DOMAIN work' = 1..(Len(items) + Len(work) - 1)
  BY <1>3, LenProperties DEF Rest
<1>5. ASSUME NEW i \in DOMAIN work'
      PROVE  work'[i] = IF i <= Len(items) THEN items[i] ELSE work[i - Len(items) + 1]
  <2>1. i \in 1..(Len(items) + Len(Tail(work))) /\ i \in Nat
    BY <1>1, <1>2, <1>4
  <2>2. work'[i] = IF i <= Len(items) THEN items[i] ELSE Tail(work)[i - Len(items)]
    BY <2>1, <1>3 DEF Rest
  <2>3. ~(i <= Len(items)) => i - Len(items) \in 1..(Len(work) - 1)
    BY <1>1, <1>2, <2>1
  <2> QED
    BY <1>1, <1>2, <2>1, <2>2, <2>3
<1> QED
  BY <1>1, <1>2, <1>4, <1>5

(* What a push finds present, or is accepted, is in the repository.        *)
LEMMA PushedIsLinked ==
  ASSUME Typed, TargetWhole, pc = "copy", work # <<>>,
         \/ Present(Head(work).d) /\ UNCHANGED target
         \/ Accept(Head(work).d)
  PROVE  /\ Head(work).d \in linked'[Repo0]
         /\ \A r \in Repo : linked[r] \subseteq linked'[r]
<1>1. Head(work).d \in Digest /\ job \in Job /\ job.key \in Key
  BY WorkTypes DEF Typed, JobInv, Item, Job
<1>2. Repo0 \in Repo /\ (Destination(job.key) # NoTag => Destination(job.key) \in Tag)
  BY <1>1, DestinationType DEF Repo0, Typed
<1>3. CASE Present(Head(work).d) /\ UNCHANGED target
  <2>1. CASE Manifest(Head(work).d) /\ Destination(job.key) # NoTag
    <3>1. tags[<<Repo0, Destination(job.key)>>] = Head(work).d /\ Head(work).d # None
      BY <1>1, <1>3, <2>1, CopyAssumption DEF Present
    <3> QED
      BY <1>2, <1>3, <2>1, <3>1 DEF TargetWhole, target
  <2>2. CASE ~(Manifest(Head(work).d) /\ Destination(job.key) # NoTag)
    BY <1>3, <2>2 DEF Present, target
  <2> QED
    BY <2>1, <2>2, <1>3 DEF target
<1>4. CASE Accept(Head(work).d)
  BY <1>2, <1>4 DEF Accept, Typed, TypeOK
<1> QED
  BY <1>3, <1>4

(* A manifest is accepted after all it names.                              *)
LEMMA AcceptedWhole ==
  ASSUME Typed, TargetWhole, OrderInv, Sending, Accept(Head(work).d)
  PROVE  TargetWhole'
<1>1. Head(work).d \in Digest /\ job \in Job /\ job.key \in Key /\ Head(work) = work[1] /\ 1 \in DOMAIN work
  BY WorkTypes DEF Sending, Typed, JobInv, Item, Job
<1>2. Repo0 \in Repo /\ (Destination(job.key) # NoTag => Destination(job.key) \in Tag)
  BY <1>1, DestinationType DEF Repo0, Typed
<1>3. Range(Parts[Head(work).d]) \subseteq linked[Repo0]
  <2>1. CASE Manifest(Head(work).d)
    BY <1>1, <2>1 DEF Sending, OrderInv, Repo0
  <2>2. CASE ~Manifest(Head(work).d)
    BY <2>2 DEF Manifest, Range
  <2> QED
    BY <2>1, <2>2
<1>4. linked' = [linked EXCEPT ![Repo0] = @ \cup {Head(work).d}]
  BY DEF Accept
<1>5. ASSUME NEW r \in Repo PROVE \A d \in linked'[r] : Range(Parts[d]) \subseteq linked'[r]
  BY <1>2, <1>3, <1>4 DEF Typed, TypeOK, TargetWhole
<1>6. ASSUME NEW r \in Repo, NEW t \in Tag, tags'[<<r, t>>] # None PROVE tags'[<<r, t>>] \in linked'[r]
  <2>1. linked[r] \subseteq linked'[r] /\ Head(work).d \in linked'[Repo0]
    BY <1>2, <1>4 DEF Typed, TypeOK
  <2>2. \/ tags'[<<r, t>>] = tags[<<r, t>>]
        \/ r = Repo0 /\ tags'[<<r, t>>] = Head(work).d
    BY <1>2 DEF Accept, Typed, TypeOK
  <2> QED
    BY <1>6, <2>1, <2>2 DEF TargetWhole
<1> QED
  BY <1>5, <1>6 DEF TargetWhole

(* The registry is whole after every step.                                 *)
LEMMA TargetWholeStep ==
  ASSUME Typed, TargetWhole, OrderInv, [Next]_vars
  PROVE  TargetWhole'
<1>1. CASE UNCHANGED <<linked, tags>>
  BY <1>1 DEF TargetWhole
<1>2. CASE Push \/ PushFails
  BY <1>1, <1>2, AcceptedWhole DEF Push, PushFails, target
<1>3. Push \/ PushFails \/ UNCHANGED <<linked, tags>>
  BY DEF Next, Command, MapReferences, Walk, Resolve, WalkEnds, Refuse, TakeChildren, PassOver, Take,
         Descend, CannotRead, PushRefused, Truncate, WriteFile, WriteFails, Discard, Copied, Add,
         target, vars
<1> QED
  BY <1>1, <1>2, <1>3
(* What a manifest names stays before it in what is left to do, or is in   *)
(* the repository.                                                         *)
LEMMA OrderStep ==
  ASSUME Typed, TargetWhole, OrderInv, HalfInv, [Next]_vars
  PROVE  OrderInv'
<1>1. CASE work' = <<>>
  BY <1>1 DEF OrderInv
<1>2. CASE UNCHANGED <<mode, work, job, linked>>
  BY <1>2 DEF OrderInv, Repository, RefOf
<1>3. CASE Resolve
  <2>1. work' = <<[d |-> Newest, at |-> "copy"]>>
    BY <1>3 DEF Resolve
  <2>2. \A i \in DOMAIN work' : work'[i].at = "copy"
    BY <2>1
  <2> QED
    BY <2>2 DEF OrderInv
<1>4. CASE Descend
  <2> DEFINE d == Head(work).d
             n == Len(Parts[d])
  <2>1. work # <<>> /\ Head(work) = work[1] /\ d \in Digest /\ 1 \in DOMAIN work
    BY <1>4, WorkTypes DEF Descend, Copying, Typed, Item
  <2>2. /\ Expand(d) \in Seq(Item) /\ n \in Nat /\ Len(Expand(d)) = n + 1
        /\ \A i \in 1..n : Expand(d)[i] = [d |-> Parts[d][i], at |-> "copy"]
        /\ Expand(d)[n + 1] = [d |-> d, at |-> "push"]
    BY <2>1, ExpandTypes, LenProperties
  <2>3. /\ DOMAIN work = 1..Len(work) /\ Len(work) \in Nat \ {0}
        /\ DOMAIN work' = 1..(n + Len(work))
        /\ \A i \in DOMAIN work' : work'[i] = IF i <= n + 1 THEN Expand(d)[i] ELSE work[i - n]
    <3> HIDE DEF n
    <3>1. Rest(Expand(d))
      BY <1>4 DEF Descend
    <3>2. /\ Len(Expand(d)) \in Nat /\ DOMAIN work = 1..Len(work) /\ Len(work) \in Nat \ {0}
          /\ DOMAIN work' = 1..(Len(Expand(d)) + Len(work) - 1)
          /\ \A i \in DOMAIN work' :
               work'[i] = IF i <= Len(Expand(d)) THEN Expand(d)[i] ELSE work[i - Len(Expand(d)) + 1]
      BY <2>1, <2>2, <3>1, RestProperties DEF Typed
    <3> QED
      BY <2>2, <3>2
  <2>4. UNCHANGED <<mode, job, linked>>
    BY <1>4 DEF Descend, store, walk, target
  <2>5. ASSUME mode = "registry", NEW i \in DOMAIN work', work'[i].at = "push",
               NEW p \in Range(Parts[work'[i].d])
        PROVE  p \in linked[Repository(job.key)] \/ \E k \in 1..(i - 1) : work'[k].d = p
    <3> HIDE DEF d, n
    <3>0. i \in Nat /\ i >= 1 /\ i <= n + Len(work)
      BY <2>2, <2>3
    <3>1. CASE i <= n
      <4>1. i \in 1..n /\ i <= n + 1
        BY <2>2, <3>0, <3>1
      <4>2. work'[i] = Expand(d)[i]
        BY <2>3, <4>1
      <4>3. Expand(d)[i] = [d |-> Parts[d][i], at |-> "copy"]
        BY <2>2, <4>1
      <4> QED
        BY <2>5, <4>2, <4>3
    <3>2. CASE i = n + 1
      <4>1. work'[i].d = d
        BY <2>2, <2>3, <3>2
      <4>2. PICK j \in 1..n : Parts[d][j] = p
        BY <2>1, <2>5, <4>1, PartsAreDigests DEF n
      <4>3. j \in DOMAIN work' /\ j <= n + 1 /\ j \in 1..(i - 1)
        BY <2>2, <2>3, <3>2, <4>2
      <4>4. work'[j] = Expand(d)[j]
        BY <2>3, <4>3
      <4>5. Expand(d)[j] = [d |-> Parts[d][j], at |-> "copy"]
        BY <2>2, <4>2
      <4> QED
        BY <4>2, <4>3, <4>4, <4>5
    <3>3. CASE i > n + 1
      <4>1. work'[i] = work[i - n] /\ i - n \in DOMAIN work
        BY <2>2, <2>3, <3>0, <3>3
      <4>2. p \in linked[Repository(job.key)] \/ \E k \in 1..(i - n - 1) : work[k].d = p
        BY <2>5, <4>1 DEF OrderInv
      <4>3. ASSUME NEW k \in 1..(i - n - 1), work[k].d = p PROVE \E l \in 1..(i - 1) : work'[l].d = p
        <5>1. CASE k = 1
          <6>1. n + 1 \in DOMAIN work' /\ work'[n + 1].d = d /\ n + 1 \in 1..(i - 1)
            BY <2>2, <2>3, <3>0, <3>3
          <6> QED
            BY <2>1, <4>3, <5>1, <6>1 DEF d
        <5>2. CASE k # 1
          <6>1. k + n \in DOMAIN work' /\ ~(k + n <= n + 1) /\ (k + n) - n = k /\ k + n \in 1..(i - 1)
            BY <2>2, <2>3, <3>0, <3>3, <5>2
          <6>2. work'[k + n] = work[k]
            BY <2>3, <6>1
          <6> QED
            BY <4>3, <6>1, <6>2
        <5> QED
          BY <5>1, <5>2
      <4> QED
        BY <4>2, <4>3
    <3> QED
      BY <2>2, <3>0, <3>1, <3>2, <3>3
  <2> QED
    BY <2>4, <2>5 DEF OrderInv, Repository, RefOf
<1>5. CASE Push
  <2>1. work # <<>> /\ pc = "copy" /\ mode = "registry" /\ Rest(<<>>) /\ UNCHANGED <<mode, job>>
    BY <1>5 DEF Push, Sending, store, walk
  <2>2. Head(work) = work[1] /\ job \in Job /\ job.key \in Key
    BY <2>1, WorkTypes DEF Typed, JobInv, Job
  <2>3. /\ Head(work).d \in linked'[Repo0]
        /\ \A r \in Repo : linked[r] \subseteq linked'[r]
    BY <1>5, <2>1, PushedIsLinked DEF Push
  <2>4. /\ DOMAIN work = 1..Len(work) /\ Len(work) \in Nat \ {0}
        /\ DOMAIN work' = 1..(Len(work) - 1)
        /\ \A i \in DOMAIN work' : work'[i] = work[i + 1]
    <3>1. <<>> \in Seq(Item) /\ Len(<<>>) = 0
      BY EmptySeq
    <3>2. /\ DOMAIN work = 1..Len(work) /\ Len(work) \in Nat \ {0}
          /\ DOMAIN work' = 1..(0 + Len(work) - 1)
          /\ \A i \in DOMAIN work' : work'[i] = IF i <= 0 THEN <<>>[i] ELSE work[i - 0 + 1]
      BY <2>1, <3>1, RestProperties DEF Typed
    <3> QED
      BY <3>2
  <2>5. Repo0 \in Repo /\ Repo0 = Repository(job.key)
    BY <2>2, DestinationType DEF Repo0, Typed
  <2>6. ASSUME NEW i \in DOMAIN work', work'[i].at = "push", NEW p \in Range(Parts[work'[i].d])
        PROVE  p \in linked'[Repo0] \/ \E k \in 1..(i - 1) : work'[k].d = p
    <3>1. work'[i] = work[i + 1] /\ i + 1 \in DOMAIN work /\ i \in Nat
      BY <2>4
    <3>2. p \in linked[Repo0] \/ \E k \in 1..i : work[k].d = p
      BY <2>1, <2>5, <2>6, <3>1 DEF OrderInv
    <3>3. ASSUME NEW k \in 1..i, work[k].d = p
          PROVE  p \in linked'[Repo0] \/ \E l \in 1..(i - 1) : work'[l].d = p
      <4>1. CASE k = 1
        BY <2>2, <2>3, <3>3, <4>1
      <4>2. CASE k # 1
        <5>1. k - 1 \in DOMAIN work' /\ work'[k - 1] = work[k] /\ k - 1 \in 1..(i - 1)
          BY <2>4, <3>1, <4>2
        <5> QED
          BY <3>3, <5>1
      <4> QED
        BY <4>1, <4>2
    <3> QED
      BY <2>3, <2>5, <3>2, <3>3
  <2> QED
    BY <2>1, <2>5, <2>6 DEF OrderInv, Repository, RefOf, Repo0
<1>6. CASE Add
  BY <1>6, <1>2 DEF Add, walk, target
<1>7. mode # "registry" => mode' # "registry"
  BY DEF Next, Command, MapReferences, Walk, Resolve, WalkEnds, Refuse, TakeChildren, PassOver, Take,
         Descend, CannotRead, Push, PushRefused, PushFails, Truncate, WriteFile, WriteFails, Discard,
         Copied, Add, store, vars
<1>8. CASE mode # "registry"
  BY <1>7, <1>8 DEF OrderInv
<1>9. \/ work' = <<>> \/ UNCHANGED <<mode, work, job, linked>> \/ mode # "registry"
      \/ Resolve \/ Descend \/ Push \/ Add
  BY DEF Next, Command, MapReferences, Walk, WalkEnds, Refuse, TakeChildren, PassOver, Take, CannotRead,
         PushRefused, PushFails, Truncate, WriteFile, WriteFails, Discard, Copied, store, walk, target,
         vars, Typed, JobInv, GiveUp, Writing
<1> QED
  BY <1>1, <1>2, <1>3, <1>4, <1>5, <1>6, <1>8, <1>9
-----------------------------------------------------------------------------
(* The files of a directory                                                *)

(* What replaces the first thing to do is not half done: nothing is then.  *)
LEMMA RestNotHalf ==
  ASSUME Typed, HalfInv, work # <<>>, NEW items \in Seq(Item), Rest(items),
         \A i \in 1..Len(items) : items[i].at # "half"
  PROVE  \A i \in DOMAIN work' : work'[i].at # "half"
<1>1. /\ Len(items) \in Nat /\ DOMAIN work = 1..Len(work) /\ Len(work) \in Nat \ {0}
      /\ DOMAIN work' = 1..(Len(items) + Len(work) - 1)
      /\ \A i \in DOMAIN work' : work'[i] = IF i <= Len(items) THEN items[i] ELSE work[i - Len(items) + 1]
  BY RestProperties DEF Typed
<1>2. SUFFICES ASSUME NEW i \in DOMAIN work' PROVE work'[i].at # "half"
  OBVIOUS
<1>3. CASE i <= Len(items)
  BY <1>1, <1>2, <1>3
<1>4. CASE ~(i <= Len(items))
  <2>1. work'[i] = work[i - Len(items) + 1] /\ i - Len(items) + 1 \in DOMAIN work /\ i - Len(items) + 1 # 1
    BY <1>1, <1>2, <1>4
  <2> QED
    BY <2>1 DEF HalfInv
<1> QED
  BY <1>3, <1>4

LEMMA HalfStep ==
  ASSUME Typed, HalfInv, [Next]_vars
  PROVE  HalfInv'
<1>1. CASE work' = <<>>
  BY <1>1 DEF HalfInv
<1>2. CASE UNCHANGED <<mode, work, job, files>>
  BY <1>2 DEF HalfInv
<1>3. CASE Resolve
  <2>1. work' = <<[d |-> Newest, at |-> "copy"]>>
    BY <1>3 DEF Resolve
  <2>2. \A i \in DOMAIN work' : work'[i].at = "copy"
    BY <2>1
  <2> QED
    BY <2>2 DEF HalfInv
<1>4. CASE Descend
  <2>1. work # <<>> /\ Rest(Expand(Head(work).d)) /\ Head(work).d \in Digest
    BY <1>4, WorkTypes DEF Descend, Copying, Typed, Item
  <2>2. /\ Expand(Head(work).d) \in Seq(Item)
        /\ \A i \in 1..Len(Expand(Head(work).d)) : Expand(Head(work).d)[i].at # "half"
    <3> DEFINE d == Head(work).d
    <3> HIDE DEF d
    <3>1. /\ Expand(d) \in Seq(Item) /\ Len(Parts[d]) \in Nat /\ Len(Expand(d)) = Len(Parts[d]) + 1
          /\ \A i \in 1..Len(Parts[d]) : Expand(d)[i] = [d |-> Parts[d][i], at |-> "copy"]
          /\ Expand(d)[Len(Parts[d]) + 1] = [d |-> d, at |-> "push"]
      BY <2>1, ExpandTypes, LenProperties DEF d
    <3>2. ASSUME NEW i \in 1..Len(Expand(d)) PROVE Expand(d)[i].at # "half"
      <4>1. i \in 1..Len(Parts[d]) \/ i = Len(Parts[d]) + 1
        BY <3>1
      <4>2. i \in 1..Len(Parts[d]) => Expand(d)[i] = [d |-> Parts[d][i], at |-> "copy"]
        BY <3>1
      <4>3. i = Len(Parts[d]) + 1 => Expand(d)[i] = [d |-> d, at |-> "push"]
        BY <3>1
      <4> QED
        BY <4>1, <4>2, <4>3
    <3> QED
      BY <3>1, <3>2 DEF d
  <2> QED
    BY <2>1, <2>2, RestNotHalf DEF HalfInv
<1>5. ASSUME work # <<>>, Rest(<<>>) PROVE HalfInv'
  <2>1. <<>> \in Seq(Item) /\ Len(<<>>) = 0
    BY EmptySeq
  <2>2. \A i \in 1..Len(<<>>) : <<>>[i].at # "half"
    BY <2>1
  <2> QED
    BY <1>5, <2>1, <2>2, RestNotHalf DEF HalfInv
<1>6. CASE Truncate
  <2> DEFINE x == [d |-> Head(work).d, at |-> "half"]
  <2>1. /\ mode' # "registry" /\ work # <<>> /\ Head(work) \in Item /\ Rest(<<x>>)
        /\ FileName[Head(work).d] # None
        /\ UNCHANGED job
    BY <1>6, WorkTypes DEF Truncate, Writing, Typed, store, walk
  <2>2. FileName[Head(work).d] \in DOMAIN files
    <3>1. Head(work).d \in Digest
      BY <2>1 DEF Item
    <3> QED
      BY <2>1, <3>1, CopyAssumption DEF Typed, TypeOK, Range
  <2>3. files'[FileName[Head(work).d]] = [of |-> Head(work).d, has |-> "part", key |-> job.key]
    BY <1>6, <2>2 DEF Truncate
  <2>4. <<x>> \in Seq(Item) /\ Len(<<x>>) = 1 /\ <<x>>[1] = x
    BY <2>1 DEF Item
  <2>5. /\ DOMAIN work = 1..Len(work) /\ Len(work) \in Nat \ {0}
        /\ DOMAIN work' = 1..(1 + Len(work) - 1)
        /\ \A i \in DOMAIN work' : work'[i] = IF i <= 1 THEN <<x>>[i] ELSE work[i - 1 + 1]
    <3> HIDE DEF x
    <3>1. /\ DOMAIN work = 1..Len(work) /\ Len(work) \in Nat \ {0}
          /\ DOMAIN work' = 1..(Len(<<x>>) + Len(work) - 1)
          /\ \A i \in DOMAIN work' : work'[i] = IF i <= Len(<<x>>) THEN <<x>>[i] ELSE work[i - Len(<<x>>) + 1]
      BY <2>1, <2>4, RestProperties DEF Typed
    <3> QED
      BY <2>4, <3>1
  <2>6. 1 \in DOMAIN work' /\ work'[1] = x
    BY <2>4, <2>5
  <2>7. \A i \in DOMAIN work' : work'[i].at = "half" => i = 1
    <3>1. SUFFICES ASSUME NEW i \in DOMAIN work', i # 1 PROVE work'[i].at # "half"
      OBVIOUS
    <3>2. work'[i] = work[i] /\ i \in DOMAIN work
      BY <2>5, <3>1
    <3> QED
      BY <3>1, <3>2 DEF HalfInv
  <2>8. files'[FileName[work'[1].d]] = [of |-> Head(work).d, has |-> "part", key |-> job.key] /\ FileName[work'[1].d] # None
    BY <2>1, <2>3, <2>6
  <2>9. files'[FileName[work'[1].d]] # None
    <3>1. job.key \in Key
      BY <1>6 DEF Truncate, Writing, Typed, JobInv, Job
    <3>2. [of |-> Head(work).d, has |-> "part", key |-> job.key] \in File
      BY <2>1, <3>1 DEF Item, File
    <3> QED
      BY <2>8, <3>2, CopyAssumption
  <2> QED
    BY <2>1, <2>7, <2>8, <2>9 DEF HalfInv
<1>7. \/ work' = <<>> \/ UNCHANGED <<mode, work, job, files>>
      \/ Resolve \/ Descend \/ Truncate \/ (work # <<>> /\ Rest(<<>>))
  BY DEF Next, Command, MapReferences, Walk, WalkEnds, Refuse, TakeChildren, PassOver, Take, CannotRead,
         Push, PushRefused, PushFails, WriteFile, WriteFails, Discard, Copied, Add, store, walk, target,
         vars, Typed, JobInv, GiveUp, Sending, Writing
<1> QED
  BY <1>1, <1>2, <1>3, <1>4, <1>5, <1>6, <1>7

(* A file that is not whole is the one of the job, or it was reported.     *)
LEMMA FileStep ==
  ASSUME Typed, HalfInv, FileInv, [Next]_vars
  PROVE  FileInv'
<1> DEFINE Half == pc = "copy" /\ work # <<>> /\ work[1].at = "half"
           Broken(n) == files[n] # None /\ files[n].has # "all"
<1>1. ~Half => \A n \in DOMAIN files : Broken(n) => files[n].key \in warned
  BY DEF FileInv
<1>2. Half => mode # "registry" /\ Head(work) = work[1] /\ 1 \in DOMAIN work
  BY WorkTypes DEF HalfInv, Typed
<1>3. CASE ~Half /\ UNCHANGED files /\ warned \subseteq warned'
  BY <1>1, <1>3 DEF FileInv
<1>4. CASE Half /\ (WriteFile \/ WriteFails)
  <2>1. pc = "copy" /\ work # <<>> /\ Head(work) \in Item /\ FileName[Head(work).d] \in DOMAIN files
    <3>1. pc = "copy" /\ work # <<>> /\ Head(work) \in Item /\ Head(work).d \in Digest
      BY <1>4, WorkTypes DEF Typed, Item
    <3> QED
      BY <1>2, <1>4, <3>1, CopyAssumption DEF HalfInv, Typed, TypeOK, Range
  <2>2. /\ DOMAIN files' = DOMAIN files
        /\ \A n \in DOMAIN files : n # FileName[Head(work).d] => files'[n] = files[n]
        /\ \A n \in DOMAIN files : Broken(n) => files[n].key \in warned \cup {job.key}
    BY <1>2, <1>4, <2>1 DEF WriteFile, WriteFails, target, FileInv, Typed, TypeOK
  <2>3. files[FileName[Head(work).d]] \in File /\ files[FileName[Head(work).d]].key = job.key
    BY <1>2, <1>4, <2>1 DEF HalfInv, Typed, TypeOK
  <2>4. CASE GiveUp
    <3>1. warned' = warned \cup {job.key}
      BY <1>2, <1>4, <2>1, <2>4, GiveUpTypes
    <3>2. files'[FileName[Head(work).d]].key = job.key
      BY <1>4, <2>1, <2>3 DEF WriteFile, WriteFails, target, File
    <3>3. \A n \in DOMAIN files' : Broken(n)' => files'[n].key \in warned'
      BY <2>2, <3>1, <3>2
    <3> QED
      BY <3>3 DEF FileInv
  <2>5. CASE ~GiveUp
    <3>1. warned' = warned /\ files'[FileName[Head(work).d]].has = "all"
      BY <1>4, <2>1, <2>3, <2>5 DEF WriteFile, WriteFails, Verified, File
    <3>2. \A n \in DOMAIN files : Broken(n) => files[n].key \in warned \/ n = FileName[Head(work).d]
      BY <1>2, <1>4, <2>1 DEF FileInv
    <3>3. \A n \in DOMAIN files' : Broken(n)' => files'[n].key \in warned'
      BY <2>2, <3>1, <3>2
    <3> QED
      BY <3>3 DEF FileInv
  <2> QED
    BY <2>4, <2>5
<1>5. CASE Truncate
  <2>1. /\ ~Half /\ work # <<>> /\ Head(work) \in Item /\ Head(work).d \in Digest
        /\ Rest(<<[d |-> Head(work).d, at |-> "half"]>>)
        /\ UNCHANGED <<pc, warned, job>> /\ pc = "copy"
    BY <1>5, WorkTypes DEF Truncate, Writing, Typed, Item, walk
  <2>2. work' # <<>> /\ work'[1] = [d |-> Head(work).d, at |-> "half"]
    <3> DEFINE x == [d |-> Head(work).d, at |-> "half"]
    <3>1. <<x>> \in Seq(Item) /\ Len(<<x>>) = 1 /\ <<x>>[1] = x
      BY <2>1 DEF Item
    <3> HIDE DEF x
    <3>2. /\ Len(work) \in Nat \ {0} /\ DOMAIN work' = 1..(Len(<<x>>) + Len(work) - 1)
          /\ \A i \in DOMAIN work' : work'[i] = IF i <= Len(<<x>>) THEN <<x>>[i] ELSE work[i - Len(<<x>>) + 1]
      BY <2>1, <3>1, RestProperties DEF Typed, x
    <3>3. 1 \in DOMAIN work' /\ work'[1] = x
      BY <3>1, <3>2
    <3> QED
      BY <3>3 DEF x
  <2>3. /\ DOMAIN files' = DOMAIN files
        /\ \A n \in DOMAIN files : n # FileName[Head(work).d] => files'[n] = files[n]
        /\ FileName[Head(work).d] \in DOMAIN files => files'[FileName[Head(work).d]].key = job.key
    BY <1>5 DEF Truncate, Typed, TypeOK
  <2>4. ASSUME NEW n \in DOMAIN files', Broken(n)'
        PROVE  \/ files'[n].key \in warned'
               \/ /\ pc' = "copy" /\ work' # <<>> /\ work'[1].at = "half"
                  /\ FileName[work'[1].d] = n /\ files'[n].key = job'.key
    BY <1>1, <2>1, <2>2, <2>3, <2>4
  <2> QED
    BY <2>4 DEF FileInv
<1>6. CASE UNCHANGED <<files, warned, pc, work, job>>
  BY <1>6 DEF FileInv
<1>7. \/ ~Half /\ UNCHANGED files /\ warned \subseteq warned'
      \/ Half /\ (WriteFile \/ WriteFails)
      \/ Truncate
      \/ UNCHANGED <<files, warned, pc, work, job>>
  <2>1. CASE MapReferences \/ Walk \/ Resolve \/ WalkEnds \/ Copied
    BY <2>1 DEF MapReferences, Walk, Resolve, WalkEnds, Copied, target, walk
  <2>2. ASSUME NEW j \in todo, Refuse(j) \/ TakeChildren(j) \/ PassOver(j) \/ Take(j) PROVE <1>7
    BY <2>2 DEF Refuse, TakeChildren, PassOver, Take, target
  <2>3. GiveUp /\ pc = "copy" => warned \subseteq warned'
    BY GiveUpTypes
  <2>4. CASE Descend \/ CannotRead \/ Push \/ PushRefused \/ PushFails \/ Discard
    <3>1. ~Half /\ UNCHANGED files /\ pc = "copy"
      BY <1>2, <2>4 DEF Descend, CannotRead, Push, PushRefused, PushFails, Discard, Discarded, Copying,
                         Sending, Writing, Accept, target
    <3>2. GiveUp \/ UNCHANGED warned
      BY <2>4 DEF Descend, CannotRead, Push, PushRefused, PushFails, Discard, walk
    <3> QED
      BY <2>3, <3>1, <3>2, GiveUpTypes
  <2>5. CASE WriteFile \/ WriteFails
    BY <2>5, WorkTypes DEF WriteFile, WriteFails, Writing, Typed
  <2>6. CASE Add \/ UNCHANGED vars
    BY <2>6 DEF Add, vars, walk, target
  <2> QED
    BY <2>1, <2>2, <2>4, <2>5, <2>6 DEF Next, Command
<1> QED
  BY <1>3, <1>4, <1>5, <1>6, <1>7

LEMMA EndStep ==
  ASSUME Typed, EndInv, [Next]_vars
  PROVE  EndInv'
<1>1. mode' = mode /\ (pc = "ok" => UNCHANGED warned)
  BY DEF Next, Command, MapReferences, Walk, Resolve, WalkEnds, Refuse, TakeChildren, PassOver, Take,
         Descend, CannotRead, Push, PushRefused, PushFails, Truncate, WriteFile, WriteFails, Discard,
         Copied, Add, Copying, Sending, Writing, store, walk, vars
<1>2. pc' = "ok" => pc = "ok" \/ WalkEnds
  BY GiveUpTypes
     DEF Next, Command, MapReferences, Walk, Resolve, Refuse, TakeChildren, PassOver, Take,
         Descend, CannotRead, Push, PushRefused, PushFails, Truncate, WriteFile, WriteFails, Discard,
         Copied, Add, Copying, Sending, Writing, vars
<1> QED
  BY <1>1, <1>2 DEF EndInv, WalkEnds, walk
-----------------------------------------------------------------------------
(* A copy that succeeds                                                    *)

LEMMA EntriesStep ==
  ASSUME Typed, EntriesInv, [Next]_vars
  PROVE  EntriesInv'
<1>1. CASE UNCHANGED <<index, adds>>
  BY <1>1 DEF EntriesInv, Manifest
<1>2. CASE Add
  <2>1. adds # <<>> /\ adds \in Seq(Addition) /\ DOMAIN adds = 1..Len(adds) /\ Len(adds) \in Nat \ {0}
    BY <1>2, LenProperties, EmptySeq DEF Add, Typed, TypeOK
  <2>2. /\ Head(adds) = adds[1] /\ 1 \in DOMAIN adds /\ Head(adds) \in Addition
        /\ Tail(adds) \in Seq(Addition) /\ DOMAIN Tail(adds) = 1..(Len(adds) - 1)
        /\ \A i \in 1..(Len(adds) - 1) : Tail(adds)[i] = adds[i + 1]
    BY <2>1, HeadTailProperties, LenProperties
  <2>3. \E m \in DOMAIN Additions : Head(adds) = Additions[m]
    BY <2>2 DEF EntriesInv
  <2>4. Manifest(Head(adds).digest)
    BY <2>3, EntriesAssumption DEF Manifest
  <2>5. \A k \in Key : index'[k] # None => Manifest(index'[k])
    BY <1>2, <2>4 DEF Add, EntriesInv, Typed, TypeOK
  <2>6. ASSUME NEW i \in DOMAIN adds' PROVE \E m \in DOMAIN Additions : adds'[i] = Additions[m]
    <3>1. adds'[i] = adds[i + 1] /\ i + 1 \in DOMAIN adds
      BY <1>2, <2>1, <2>2, <2>6 DEF Add
    <3> QED
      BY <3>1 DEF EntriesInv
  <2> QED
    BY <2>5, <2>6 DEF EntriesInv, Manifest
<1> QED
  BY <1>1, <1>2
     DEF Next, Command, MapReferences, Walk, Resolve, WalkEnds, Refuse, TakeChildren, PassOver, Take,
         Descend, CannotRead, Push, PushRefused, PushFails, Truncate, WriteFile, WriteFails, Discard,
         Copied, store, vars

(* A push leaves the other tags alone; what it was for is there after it.  *)
LEMMA PushedIsPresent ==
  ASSUME Typed, pc = "copy", NEW d \in Digest, UNCHANGED <<refDigest, job>>,
         (Present(d) /\ UNCHANGED target) \/ Accept(d)
  PROVE  /\ Present(d)'
         /\ \A r \in Repo, t \in Tag : ~(r = Repo0 /\ t = Destination(job.key)) => tags'[<<r, t>>] = tags[<<r, t>>]
<1>1. job \in Job /\ job.key \in Key
  BY DEF Typed, JobInv, Job
<1>2. Repo0 \in Repo /\ (Destination(job.key) # NoTag => Destination(job.key) \in Tag)
  BY <1>1, DestinationType DEF Repo0, Typed
<1>3. Destination(job.key)' = Destination(job.key) /\ Repo0' = Repo0
  BY DEF Destination, KindOf, RefOf, Repo0, Repository
<1>4. CASE Present(d) /\ UNCHANGED target
  BY <1>3, <1>4 DEF Present, target, Manifest
<1>5. CASE Accept(d)
  <2>1. /\ d \in linked'[Repo0]
        /\ Manifest(d) /\ Destination(job.key) # NoTag => tags'[<<Repo0, Destination(job.key)>>] = d
    BY <1>2, <1>5 DEF Accept, Typed, TypeOK
  <2>2. \A r \in Repo, t \in Tag : ~(r = Repo0 /\ t = Destination(job.key)) => tags'[<<r, t>>] = tags[<<r, t>>]
    BY <1>2, <1>5 DEF Accept, Typed, TypeOK
  <2> QED
    BY <1>3, <2>1, <2>2 DEF Present, Manifest
<1> QED
  BY <1>4, <1>5
LEMMA RootStep ==
  ASSUME Typed, HalfInv, EntriesInv, RootInv, [Next]_vars
  PROVE  RootInv'
<1>1. CASE mode # "registry" \/ pc' # "copy"
  <2>1. mode' = mode
    BY DEF Next, Command, MapReferences, Walk, Resolve, WalkEnds, Refuse, TakeChildren, PassOver, Take,
           Descend, CannotRead, Push, PushRefused, PushFails, Truncate, WriteFile, WriteFails, Discard,
           Copied, Add, store, vars
  <2> QED
    BY <1>1, <2>1 DEF RootInv
<1>2. CASE UNCHANGED <<mode, pc, job, sent, work, refDigest, linked, tags>>
  BY <1>2 DEF RootInv, Present, Manifest, Destination, Repo0, Repository, RefOf, KindOf
<1>3. CASE Resolve /\ mode = "registry"
  <2>1. job \in Job /\ ~job.child /\ job.key \in Key /\ index[job.key] # None
    BY <1>3 DEF Resolve, Typed, JobInv, Job
  <2>2. Newest = index[job.key] /\ Manifest(Newest)
    BY <2>1 DEF Newest, EntriesInv
  <2>3. sent'[job.key] = Newest /\ job' = job
    BY <1>3, <2>1 DEF Resolve, Typed, TypeOK
  <2>4. work' # <<>> /\ work'[Len(work')].d = Newest
    BY <1>3 DEF Resolve
  <2> QED
    BY <2>1, <2>2, <2>3, <2>4 DEF RootInv, Manifest
<1>4. CASE Descend /\ mode = "registry"
  <2> DEFINE d == Head(work).d
             n == Len(Parts[d])
  <2>1. work # <<>> /\ Head(work) = work[1] /\ d \in Digest /\ Rest(Expand(d))
    BY <1>4, WorkTypes DEF Descend, Copying, Typed, Item
  <2>2. UNCHANGED <<mode, pc, job, sent>> /\ pc = "copy"
    BY <1>4 DEF Descend, Copying, store, walk
  <2> HIDE DEF d, n
  <2>3. /\ Expand(d) \in Seq(Item) /\ n \in Nat /\ Len(Expand(d)) = n + 1
        /\ Expand(d)[n + 1] = [d |-> d, at |-> "push"]
    BY <2>1, ExpandTypes, LenProperties DEF n
  <2>4. /\ Len(work) \in Nat \ {0}
        /\ DOMAIN work' = 1..(Len(Expand(d)) + Len(work) - 1)
        /\ \A i \in DOMAIN work' :
             work'[i] = IF i <= Len(Expand(d)) THEN Expand(d)[i] ELSE work[i - Len(Expand(d)) + 1]
    BY <2>1, <2>3, RestProperties DEF Typed
  <2>5. n + Len(work) \in DOMAIN work' /\ Len(work') = n + Len(work)
    <3>1. work' \in Seq(Item)
      BY TypedStep DEF Typed, TypeOK
    <3>2. DOMAIN work' = 1..(n + Len(work)) /\ n + Len(work) \in Nat \ {0}
      BY <2>3, <2>4
    <3>3. DOMAIN work' = 1..Len(work') /\ Len(work') \in Nat
      BY <3>1, LenProperties
    <3>4. n + Len(work) \in 1..Len(work')
      BY <3>2, <3>3
    <3>5. Len(work') \in 1..(n + Len(work))
      <4>1. Len(work') \in 1..Len(work')
        BY <3>2, <3>3, <3>4
      <4> QED
        BY <3>2, <3>3, <4>1
    <3>6. Len(work') <= n + Len(work) /\ n + Len(work) <= Len(work') /\ Len(work') \in Nat
      BY <3>3, <3>4, <3>5
    <3>7. Len(work') = n + Len(work)
      BY <2>3, <2>4, <3>6
    <3>8. n + Len(work) \in DOMAIN work'
      BY <3>2
    <3> QED
      BY <3>7, <3>8
  <2>6. CASE Len(work) = 1
    <3>1. n + Len(work) = n + 1 /\ n + 1 <= Len(Expand(d))
      BY <2>3, <2>6
    <3>2. work'[n + Len(work)] = Expand(d)[n + 1]
      BY <2>4, <2>5, <3>1
    <3>3. work'[Len(work')].d = work[Len(work)].d
      BY <2>1, <2>3, <2>5, <2>6, <3>2 DEF d
    <3> QED
      BY <1>4, <2>1, <2>2, <2>5, <3>3 DEF RootInv, Manifest
  <2>7. CASE Len(work) # 1
    <3>1. n \in Nat /\ Len(work) \in Nat \ {0} /\ Len(Expand(d)) = n + 1
      BY <2>3, <2>4
    <3>2. \A l \in Nat \ {0} : l # 1 => ~(n + l <= n + 1) /\ (n + l) - (n + 1) + 1 = l
      BY <3>1
    <3>3. ~(n + Len(work) <= Len(Expand(d))) /\ (n + Len(work)) - Len(Expand(d)) + 1 = Len(work)
      BY <2>7, <3>1, <3>2
    <3>4. work'[n + Len(work)] = work[Len(work)]
      BY <2>4, <2>5, <3>3
    <3> QED
      BY <1>4, <2>1, <2>2, <2>5, <3>4 DEF RootInv, Manifest
  <2> QED
    BY <2>6, <2>7
<1>5. CASE Push
  <2>1. work # <<>> /\ pc = "copy" /\ mode = "registry" /\ Rest(<<>>) /\ UNCHANGED <<mode, pc, job, sent, refDigest>>
    BY <1>5 DEF Push, Sending, store, walk
  <2>2. PICK d \in Digest : d = Head(work).d /\ d = work[1].d
    BY <2>1, WorkTypes DEF Typed, Item
  <2>3. /\ Len(work) \in Nat \ {0}
        /\ DOMAIN work' = 1..(Len(work) - 1)
        /\ \A i \in DOMAIN work' : work'[i] = work[i + 1]
    <3>1. <<>> \in Seq(Item) /\ Len(<<>>) = 0
      BY EmptySeq
    <3>2. /\ Len(work) \in Nat \ {0}
          /\ DOMAIN work' = 1..(0 + Len(work) - 1)
          /\ \A i \in DOMAIN work' : work'[i] = IF i <= 0 THEN <<>>[i] ELSE work[i - 0 + 1]
      BY <2>1, <3>1, RestProperties DEF Typed
    <3> QED
      BY <3>2
  <2>4. work' \in Seq(Item) /\ Len(work') = Len(work) - 1
    <3>1. work' \in Seq(Item)
      BY TypedStep DEF Typed, TypeOK
    <3> QED
      BY <2>3, <3>1, LenProperties
  <2>5. ASSUME work' # <<>> PROVE work'[Len(work')].d = sent'[job'.key]
    <3>1. Len(work') \in DOMAIN work' /\ Len(work') + 1 = Len(work)
      BY <2>3, <2>4, <2>5, EmptySeq
    <3> QED
      BY <2>1, <2>3, <3>1 DEF RootInv
  <2>6. ASSUME work' = <<>> PROVE Present(sent[job.key])'
    <3>1. Len(work) = 1
      BY <2>3, <2>4, <2>6
    <3>2. sent[job.key] = d
      BY <2>1, <2>2, <3>1 DEF RootInv
    <3>3. Present(d)'
      BY <1>5, <2>1, <2>2, PushedIsPresent DEF Push
    <3> QED
      BY <2>1, <3>2, <3>3
  <2> QED
    BY <2>1, <2>5, <2>6 DEF RootInv, Manifest
<1>6. \/ mode # "registry" \/ pc' # "copy"
      \/ UNCHANGED <<mode, pc, job, sent, work, refDigest, linked, tags>>
      \/ Resolve \/ Descend \/ Push
  <2>1. GiveUp /\ pc = "copy" => pc' # "copy"
    BY GiveUpTypes
  <2> QED
    BY <2>1 DEF Next, Command, MapReferences, Walk, WalkEnds, Refuse, TakeChildren, PassOver, Take, CannotRead,
         PushRefused, PushFails, Truncate, WriteFile, WriteFails, Discard, Copied, Add, store, walk, target,
         vars, Copying, Sending, Writing
<1> QED
  BY <1>1, <1>2, <1>3, <1>4, <1>5, <1>6
(* No artifact is promised later that was not; tags are settled by the     *)
(* first walk.                                                             *)
LEMMA PromisedStep ==
  ASSUME Typed, EntriesInv, [Next]_vars
  PROVE  /\ Promised' \subseteq Promised
         /\ mode' = mode /\ ignore' = ignore
         /\ pc # "start" => refDigest' = refDigest
<1>1. mode' = mode /\ ignore' = ignore /\ (pc # "start" => refDigest' = refDigest)
  BY DEF Next, Command, MapReferences, Walk, Resolve, WalkEnds, Refuse, TakeChildren, PassOver, Take,
         Descend, CannotRead, Push, PushRefused, PushFails, Truncate, WriteFile, WriteFails, Discard,
         Copied, Add, store, walk, vars
<1>2. CASE UNCHANGED index
  BY <1>1, <1>2 DEF Promised, NonEmpty, Wanted, RefOf, KindOf
<1>3. CASE Add
  <2>1. 1 \in DOMAIN adds /\ Head(adds) = adds[1]
    BY <1>3, LenProperties, EmptySeq DEF Add, Typed, TypeOK
  <2>2. PICK m \in DOMAIN Additions : Head(adds) = Additions[m]
    BY <2>1 DEF EntriesInv
  <2>3. ASSUME NEW k \in Promised' PROVE k \in Promised
    <3>1. k # Head(adds).key
      BY <2>2, <2>3 DEF Promised
    <3>2. k \in DOMAIN index' /\ index'[k] # None
      BY <2>3 DEF Promised, NonEmpty
    <3>3. k \in DOMAIN index /\ index[k] # None
      BY <1>3, <3>1, <3>2 DEF Add, Typed, TypeOK
    <3>4. Wanted(k) /\ \A i \in DOMAIN Additions : Additions[i].key # k
      BY <1>1, <2>3 DEF Promised, Wanted, RefOf, KindOf
    <3> QED
      BY <3>3, <3>4 DEF Promised, NonEmpty
  <2> QED
    BY <1>1, <2>3
<1>4. Add \/ UNCHANGED index
  BY DEF Next, Command, MapReferences, Walk, Resolve, WalkEnds, Refuse, TakeChildren, PassOver, Take,
         Descend, CannotRead, Push, PushRefused, PushFails, Truncate, WriteFile, WriteFails, Discard,
         Copied, store, vars
<1> QED
  BY <1>1, <1>2, <1>3, <1>4

(* What arrived stays: linked grows, and only the tag of the artifact in   *)
(* transit changes.                                                        *)
LEMMA ArrivedStays ==
  ASSUME NEW k \in Key, Typed, TypeOK', Arrived(k), refDigest' = refDigest, UNCHANGED sent,
         InTransit => InTransit' /\ UNCHANGED job,
         \A r \in Repo : linked[r] \subseteq linked'[r],
         \A r \in Repo, t \in Tag :
           tags'[<<r, t>>] = tags[<<r, t>>] \/ (InTransit /\ r = Repo0 /\ t = Destination(job.key))
  PROVE  Arrived(k)'
<1>1. \A o \in Key : Destination(o)' = Destination(o) /\ Repository(o)' = Repository(o)
  BY DEF Destination, KindOf, RefOf, Repository
<1>2. Repository(k) \in Repo /\ (Destination(k) # NoTag => Destination(k) \in Tag)
  BY DestinationType DEF Typed
<1>3. InTransit => /\ Repo0 = Repository(job.key) /\ job.key \in Key /\ InTransit'
                   /\ Destination(job.key)' = Destination(job.key) /\ Repository(job.key)' = Repository(job.key)
  BY DEF Repo0, InTransit, Typed, JobInv, Job, Destination, KindOf, RefOf, Repository
<1>4. sent'[k] # None /\ sent'[k] \in linked'[Repository(k)]
  BY <1>2 DEF Arrived
<1>5. ASSUME Destination(k) # NoTag
      PROVE  \/ InTransit' /\ Repository(job.key)' = Repository(k) /\ Destination(job.key)' = Destination(k)
             \/ \E o \in Key : /\ Repository(o) = Repository(k) /\ Destination(o) = Destination(k)
                               /\ tags'[<<Repository(k), Destination(k)>>] = sent'[o]
  <2>1. CASE InTransit /\ Repository(job.key) = Repository(k) /\ Destination(job.key) = Destination(k)
    BY <1>3, <2>1
  <2>2. CASE ~(InTransit /\ Repository(job.key) = Repository(k) /\ Destination(job.key) = Destination(k))
    <3>1. PICK o \in Key : /\ Repository(o) = Repository(k) /\ Destination(o) = Destination(k)
                           /\ tags[<<Repository(k), Destination(k)>>] = sent[o]
      BY <1>5, <2>2 DEF Arrived
    <3>2. tags'[<<Repository(k), Destination(k)>>] = tags[<<Repository(k), Destination(k)>>]
      BY <1>2, <1>3, <1>5, <2>2
    <3> QED
      BY <3>1, <3>2
  <2> QED
    BY <2>1, <2>2
<1>6. ASSUME Destination(k)' # NoTag, NEW o \in Key,
             Repository(o) = Repository(k), Destination(o) = Destination(k),
             tags'[<<Repository(k), Destination(k)>>] = sent'[o]
      PROVE  /\ Repository(o)' = Repository(k)' /\ Destination(o)' = Destination(k)'
             /\ tags'[<<Repository(k)', Destination(k)'>>] = sent'[o]
  BY <1>1, <1>6
<1>7. NoTag' = NoTag
  BY DEF NoTag
<1> QED
  BY <1>1, <1>4, <1>5, <1>6, <1>7 DEF Arrived
(* An artifact that the registry has under its tag when its copy ends has  *)
(* arrived, and so has every other one of that tag.                        *)
LEMMA ArrivedAtLast ==
  ASSUME NEW k \in Key, Typed, TargetWhole, RootInv, Copied, mode = "registry",
         job.key = k \/ Arrived(k)
  PROVE  Arrived(k)'
<1>1. PICK j \in Key : j = job.key
  BY DEF Copied, Typed, JobInv, Job
<1>2. /\ sent[j] # None /\ Manifest(sent[j]) /\ Present(sent[j])
      /\ UNCHANGED <<refDigest, sent, linked, tags>> /\ Repo0 = Repository(j)
  BY <1>1 DEF Copied, RootInv, target, Repo0
<1>3. \A o \in Key : Destination(o)' = Destination(o) /\ Repository(o)' = Repository(o)
  BY <1>2 DEF Destination, KindOf, RefOf, Repository
<1>4. /\ sent[j] \in linked[Repository(j)]
      /\ Destination(j) # NoTag => tags[<<Repository(j), Destination(j)>>] = sent[j]
  <2>1. Repository(j) \in Repo /\ (Destination(j) # NoTag => Destination(j) \in Tag)
    BY DestinationType DEF Typed
  <2>2. CASE Destination(j) # NoTag
    BY <1>1, <1>2, <2>1, <2>2 DEF Present, TargetWhole
  <2>3. CASE Destination(j) = NoTag
    BY <1>1, <1>2, <2>3 DEF Present
  <2> QED
    BY <2>2, <2>3
<1>5. sent'[k] # None /\ sent'[k] \in linked'[Repository(k)]
  BY <1>1, <1>2, <1>4 DEF Arrived
<1>6. ASSUME Destination(k) # NoTag
      PROVE  \E o \in Key : /\ Repository(o) = Repository(k) /\ Destination(o) = Destination(k)
                            /\ tags'[<<Repository(k), Destination(k)>>] = sent'[o]
  <2>1. CASE Repository(j) = Repository(k) /\ Destination(j) = Destination(k)
    BY <1>2, <1>4, <1>6, <2>1
  <2>2. CASE ~(Repository(j) = Repository(k) /\ Destination(j) = Destination(k))
    BY <1>1, <1>2, <1>6, <2>2 DEF Arrived
  <2> QED
    BY <2>1, <2>2
<1>7. NoTag' = NoTag
  BY DEF NoTag
<1>8. ASSUME Destination(k)' # NoTag, NEW o \in Key,
             Repository(o) = Repository(k), Destination(o) = Destination(k),
             tags'[<<Repository(k), Destination(k)>>] = sent'[o]
      PROVE  /\ Repository(o)' = Repository(k)' /\ Destination(o)' = Destination(k)'
             /\ tags'[<<Repository(k)', Destination(k)'>>] = sent'[o]
  BY <1>3, <1>8
<1> QED
  BY <1>3, <1>5, <1>6, <1>7, <1>8 DEF Arrived

(* The job's digest is looked up: its tag is in transit from then on.      *)
LEMMA ArrivedOrResolved ==
  ASSUME NEW k \in Key, Typed, Resolve, Arrived(k), k # job.key
  PROVE  Arrived(k)'
<1>1. PICK j \in Key : j = job.key
  BY DEF Resolve, Typed, JobInv, Job
<1>2. /\ UNCHANGED <<refDigest, linked, tags, job>> /\ InTransit'
      /\ \A o \in Key : o # j => sent'[o] = sent[o]
  BY <1>1 DEF Resolve, target, InTransit, Typed, TypeOK
<1>3. \A o \in Key : Destination(o)' = Destination(o) /\ Repository(o)' = Repository(o)
  BY <1>2 DEF Destination, KindOf, RefOf, Repository
<1>4. Destination(job.key)' = Destination(j)' /\ Repository(job.key)' = Repository(j)'
  BY <1>1, <1>2 DEF Destination, KindOf, RefOf, Repository
<1>5. sent'[k] # None /\ sent'[k] \in linked'[Repository(k)]
  BY <1>1, <1>2 DEF Arrived
<1>6. ASSUME Destination(k) # NoTag
      PROVE  \/ Repository(j) = Repository(k) /\ Destination(j) = Destination(k)
             \/ \E o \in Key : /\ Repository(o) = Repository(k) /\ Destination(o) = Destination(k)
                               /\ tags'[<<Repository(k), Destination(k)>>] = sent'[o]
  <2>1. CASE ~(Repository(j) = Repository(k) /\ Destination(j) = Destination(k))
    <3>1. PICK o \in Key : /\ Repository(o) = Repository(k) /\ Destination(o) = Destination(k)
                           /\ tags[<<Repository(k), Destination(k)>>] = sent[o]
      BY <1>1, <1>6, <2>1 DEF Arrived
    <3>2. sent'[o] = sent[o]
      BY <1>2, <2>1, <3>1
    <3> QED
      BY <1>2, <3>1, <3>2
  <2> QED
    BY <2>1
<1>7. NoTag' = NoTag
  BY DEF NoTag
<1>8. ASSUME Destination(k)' # NoTag, NEW o \in Key,
             Repository(o) = Repository(k), Destination(o) = Destination(k),
             tags'[<<Repository(k), Destination(k)>>] = sent'[o]
      PROVE  /\ Repository(o)' = Repository(k)' /\ Destination(o)' = Destination(k)'
             /\ tags'[<<Repository(k)', Destination(k)'>>] = sent'[o]
  BY <1>3, <1>8
<1> QED
  BY <1>2, <1>3, <1>4, <1>5, <1>6, <1>7, <1>8 DEF Arrived

(* A copy to a registry loses sight of no artifact.                        *)
LEMMA DeliverStep ==
  ASSUME Typed, Typed', TargetWhole, EntriesInv, RootInv, DeliverInv, [Next]_vars
  PROVE  DeliverInv'
<1> SUFFICES ASSUME mode' = "registry", ~ignore', pc' \in {"next", "resolve", "copy", "ok"}
             PROVE  /\ \A k \in Promised' :
                         (\E j \in todo' : j.key = k) \/ (InTransit' /\ job'.key = k) \/ Arrived(k)'
                    /\ pc' = "ok" => todo' = {}
  BY DEF DeliverInv
<1>1. mode = "registry" /\ ~ignore /\ Promised' \subseteq Promised /\ (pc # "start" => refDigest' = refDigest)
  BY PromisedStep
<1>2. Promised \subseteq Key
  BY DEF Promised, NonEmpty, Typed, TypeOK
<1>3. ASSUME pc \in {"next", "resolve", "copy", "ok"}
      PROVE  /\ \A k \in Promised : (\E j \in todo : j.key = k) \/ (InTransit /\ job.key = k) \/ Arrived(k)
             /\ pc = "ok" => todo = {}
  BY <1>1, <1>3 DEF DeliverInv
<1>5. CASE Walk
  <2>1. ASSUME NEW k \in Promised' PROVE \E j \in todo' : j.key = k
    <3>1. k \in NonEmpty(index) /\ Wanted(k)
      BY <1>1, <2>1 DEF Promised
    <3>2. [key |-> k, root |-> index[k], child |-> FALSE] \in todo'
      BY <1>5, <3>1 DEF Walk
    <3> QED
      BY <3>2
  <2> QED
    BY <1>5, <2>1 DEF Walk
<1>6. ASSUME NEW j \in todo, Take(j) PROVE DeliverInv'
  <2>1. pc = "next" /\ InTransit' /\ job' = j /\ todo' = todo \ {j} /\ UNCHANGED <<sent, linked, tags>> /\ pc' # "ok"
    BY <1>6 DEF Take, InTransit, target
  <2>2. ASSUME NEW k \in Key, Arrived(k) PROVE Arrived(k)'
    BY <1>1, <2>1, <2>2, ArrivedStays DEF Typed, InTransit
  <2>3. ASSUME NEW k \in Promised'
        PROVE  (\E i \in todo' : i.key = k) \/ (InTransit' /\ job'.key = k) \/ Arrived(k)'
    BY <1>1, <1>2, <1>3, <2>1, <2>2, <2>3 DEF InTransit
  <2> QED
    BY <2>1, <2>3 DEF DeliverInv
<1>7. CASE Resolve
  <2>1. pc = "resolve" /\ InTransit /\ InTransit' /\ pc' # "ok" /\ UNCHANGED <<todo, job>>
    BY <1>7 DEF Resolve, InTransit
  <2>2. ASSUME NEW k \in Promised'
        PROVE  (\E i \in todo' : i.key = k) \/ (InTransit' /\ job'.key = k) \/ Arrived(k)'
    BY <1>1, <1>2, <1>3, <1>7, <2>1, <2>2, ArrivedOrResolved
  <2> QED
    BY <2>1, <2>2 DEF DeliverInv
<1>8. CASE WalkEnds
  <2>1. pc = "next" /\ todo = {} /\ todo' = {} /\ UNCHANGED <<sent, linked, tags>>
    BY <1>8 DEF WalkEnds, walk, target
  <2>2. ASSUME NEW k \in Key, Arrived(k) PROVE Arrived(k)'
    BY <1>1, <2>1, <2>2, ArrivedStays DEF Typed, InTransit
  <2> QED
    BY <1>1, <1>2, <1>3, <2>1, <2>2 DEF DeliverInv, InTransit
<1>9. CASE Copied
  <2>1. pc = "copy" /\ pc' # "ok" /\ UNCHANGED todo
    BY <1>9 DEF Copied
  <2>2. ASSUME NEW k \in Promised' PROVE (\E i \in todo' : i.key = k) \/ Arrived(k)'
    BY <1>1, <1>2, <1>3, <1>9, <2>1, <2>2, ArrivedAtLast
  <2> QED
    BY <2>1, <2>2 DEF DeliverInv
<1>10. CASE Descend \/ CannotRead \/ Push \/ PushRefused \/ PushFails
  <2>1. pc = "copy" /\ work # <<>> /\ UNCHANGED <<sent, todo, refDigest>>
    BY <1>10 DEF Descend, CannotRead, Push, PushRefused, PushFails, Copying, Sending, walk
  <2>2. InTransit' /\ UNCHANGED job
    <3>1. CASE GiveUp
      BY <1>1, <2>1, <3>1 DEF GiveUp, InTransit
    <3>2. CASE ~GiveUp
      BY <1>10, <2>1, <3>2 DEF Descend, CannotRead, Push, PushRefused, PushFails, walk, InTransit
    <3> QED
      BY <3>1, <3>2
  <2>3. PICK d \in Digest : d = Head(work).d
    BY <2>1, WorkTypes DEF Typed, Item
  <2>4. UNCHANGED <<linked, tags>> \/ (Accept(d) /\ Accept(Head(work).d))
    BY <1>10, <2>3 DEF Descend, CannotRead, Push, PushRefused, PushFails, target
  <2>5. /\ \A r \in Repo : linked[r] \subseteq linked'[r]
        /\ \A r \in Repo, t \in Tag : tags'[<<r, t>>] = tags[<<r, t>>] \/ (r = Repo0 /\ t = Destination(job.key))
    <3>1. CASE Accept(d) /\ Accept(Head(work).d)
      BY <2>1, <2>2, <3>1, PushedIsLinked, PushedIsPresent
    <3> QED
      BY <2>4, <3>1
  <2>6. ASSUME NEW k \in Key, Arrived(k) PROVE Arrived(k)'
    BY <1>1, <2>1, <2>2, <2>5, <2>6, ArrivedStays DEF Typed, InTransit
  <2>7. pc' # "ok" /\ InTransit
    BY <2>1, <2>2 DEF InTransit
  <2> QED
    BY <1>1, <1>2, <1>3, <2>1, <2>2, <2>6, <2>7 DEF DeliverInv
<1>11. CASE Add \/ UNCHANGED vars
  <2>1. UNCHANGED <<pc, sent, linked, tags, todo, job>>
    BY <1>11 DEF Add, vars, walk, target
  <2>2. ASSUME NEW k \in Key, Arrived(k), pc # "start" PROVE Arrived(k)'
    BY <1>1, <2>1, <2>2, ArrivedStays DEF Typed, InTransit
  <2> QED
    BY <1>1, <1>2, <1>3, <2>1, <2>2 DEF DeliverInv, InTransit
<1>12. ~MapReferences /\ ~(Truncate \/ WriteFile \/ WriteFails \/ Discard)
       /\ \A j \in todo : ~Refuse(j) /\ ~TakeChildren(j) /\ ~PassOver(j)
  BY <1>1 DEF MapReferences, Truncate, WriteFile, WriteFails, Discard, Writing, Refuse, TakeChildren, PassOver
<1> QED
  BY <1>5, <1>6, <1>7, <1>8, <1>9, <1>10, <1>11, <1>12 DEF Next, Command, DeliverInv

-----------------------------------------------------------------------------
LEMMA InvariantInit == Init => Invariant
<1> SUFFICES ASSUME Init PROVE Invariant
  OBVIOUS
<1>1. Typed
  BY TypedInit
<1>2. TargetWhole
  BY DEF Init, TargetWhole
<1>3. work = <<>> /\ DOMAIN work = {}
  BY DEF Init
<1>4. OrderInv /\ HalfInv
  BY <1>3 DEF OrderInv, HalfInv
<1>5. FileInv /\ EndInv
  BY DEF Init, FileInv, EndInv
<1>6. EntriesInv
  <2>1. \A k \in Key : index[k] # None => Manifest(index[k])
    BY EntriesAssumption DEF Init, Manifest
  <2>2. \A i \in DOMAIN adds : \E m \in DOMAIN Additions : adds[i] = Additions[m]
    BY DEF Init
  <2> QED
    BY <2>1, <2>2 DEF EntriesInv
<1>7. RootInv /\ DeliverInv
  BY DEF Init, RootInv, DeliverInv
<1> QED
  BY <1>1, <1>2, <1>4, <1>5, <1>6, <1>7 DEF Invariant, Whole

LEMMA InvariantStep ==
  ASSUME Invariant, [Next]_vars
  PROVE  Invariant'
BY TypedStep, TargetWholeStep, OrderStep, HalfStep, FileStep, EndStep, EntriesStep, RootStep, DeliverStep
   DEF Invariant, Whole

LEMMA InvariantHolds == Spec => []Invariant
BY InvariantInit, InvariantStep, PTL DEF Spec

(* Every variable has its type in every reachable state: what is left to   *)
(* do are blobs and manifests of the store, attempts and failures stay     *)
(* within their bounds, and a file of the directory has one of the kinds   *)
(* of content that IoContentWriter leaves.                                 *)
THEOREM TypeCorrect == Spec => []TypeOK
BY InvariantHolds, PTL DEF Invariant, Whole, Typed

(* Wherever a copy stops, at a lost blob, a lost push or the last retry,   *)
(* no repository of the registry has a manifest without all that it names, *)
(* and no tag names what its repository has not: Layout.Copy sends the     *)
(* parts first, and a part that another repository has is sent again.      *)
THEOREM RegistryIsWhole == Spec => []TargetWhole
BY InvariantHolds, PTL DEF Invariant, Whole

(* A file that a copy to a directory, or an extraction, leaves truncated   *)
(* or with other bytes belongs to an artifact that the command reported;   *)
(* an extraction that left one does not succeed.                           *)
THEOREM FilesReported == Spec => []FilesWholeOrReported
<1>1. Invariant => FilesWholeOrReported
  <2> SUFFICES ASSUME Invariant, NEW n \in DOMAIN files, files[n] # None, files[n].has # "all"
               PROVE  /\ \/ files[n].key \in warned
                         \/ pc \in {"resolve", "copy"} /\ job.key = files[n].key
                      /\ ~(mode = "extract" /\ pc = "ok")
    BY DEF FilesWholeOrReported
  <2> QED
    BY DEF Invariant, FileInv, EndInv
<1> QED
  BY <1>1, InvariantHolds, PTL

(* A copy that succeeds without leave to ignore errors has sent every      *)
(* artifact that was in the store all along and that was asked for, and    *)
(* its tag names an artifact that was sent there: whatever else is being   *)
(* added, however often a push got lost on the way, and although the tag   *)
(* names each manifest of an index in turn before the index.               *)
THEOREM CopySucceedsComplete == Spec => []SuccessIsComplete
<1>1. ASSUME Invariant, mode = "registry", pc = "ok", ~ignore, NEW k \in Promised
      PROVE  Delivered(k)
  <2>1. Arrived(k) /\ ~InTransit
    BY <1>1 DEF Invariant, DeliverInv, InTransit
  <2> QED
    BY <2>1 DEF Arrived, Delivered
<1>2. Invariant => SuccessIsComplete
  BY <1>1 DEF SuccessIsComplete
<1> QED
  BY <1>2, InvariantHolds, PTL
-----------------------------------------------------------------------------
(* Signatures                                                              *)

(* What may be under a key of a store: its own entry and those that are    *)
(* added.                                                                  *)
MayHold(f, k) ==
  ({f[k]} \cup {Additions[i].digest : i \in {n \in DOMAIN Additions : Additions[n].key = k}}) \ {None}

(* Whatever a reference may name, image or index, its signatures are of    *)
(* that; they name layers and a config.                                    *)
Images(r) == {k \in Key : RefOf(k) = r /\ KindOf(k) \in {"image", "index"}}
Matched(f) ==
  \A k \in Key : KindOf(k) = "sigs" =>
    \A s \in MayHold(f, k) :
      /\ \A l \in Images(RefOf(k)) : \A m \in MayHold(f, l) : SignatureOf[s] \in {None, m}
      /\ \A d \in Range(Parts[s]) : ~Manifest(d)

(* The store is one of those that f may have become; the digests the first *)
(* Walk took, and those that were resolved, were in it.                    *)
From(f) ==
  /\ \A k \in Key : index[k] # None => index[k] \in MayHold(f, k)
  /\ \A r \in Ref : refDigest[r] # None => \E l \in Images(r) : refDigest[r] \in MayHold(f, l)
  /\ mode = "registry" => \A k \in Key : sent[k] # None => sent[k] \in MayHold(f, k)

(* The only manifest that is sent for a signature is its own.              *)
SigInv ==
  mode = "registry" /\ pc = "copy" /\ KindOf(job.key) = "sigs" =>
    \A i \in DOMAIN work : Manifest(work[i].d) => work[i].d = sent[job.key]

LEMMA FromStep ==
  ASSUME NEW f, Typed, EntriesInv, From(f), [Next]_vars
  PROVE  From(f)'
<1>1. CASE UNCHANGED <<mode, index, refDigest, sent>>
  BY <1>1 DEF From
<1>2. CASE MapReferences
  <2>1. UNCHANGED <<mode, index, sent>>
    BY <1>2 DEF MapReferences, store
  <2>2. ASSUME NEW r \in Ref, refDigest'[r] # None
        PROVE  \E l \in Images(r) : refDigest'[r] \in MayHold(f, l)
    <3>1. PICK kind \in Kind \cap {"image", "index"} : refDigest'[r] = index[<<r, kind>>]
      BY <1>2, <2>2 DEF MapReferences
    <3>2. <<r, kind>> \in Images(r) /\ <<r, kind>> \in Key
      BY <3>1 DEF Images, Key, RefOf, KindOf
    <3> QED
      BY <2>2, <3>1, <3>2 DEF From
  <2> QED
    BY <2>1, <2>2 DEF From
<1>3. CASE Resolve
  <2>1. job \in Job /\ job.key \in Key /\ UNCHANGED <<mode, index, refDigest>>
        /\ sent' = [sent EXCEPT ![job.key] = Newest]
    BY <1>3 DEF Resolve, Typed, JobInv, Job, store
  <2>2. mode = "registry" => Newest = index[job.key] /\ index[job.key] \in MayHold(f, job.key)
    BY <1>3, <2>1 DEF Resolve, Typed, JobInv, Newest, From
  <2>3. ASSUME mode = "registry", NEW k \in Key, sent'[k] # None PROVE sent'[k] \in MayHold(f, k)
    BY <2>1, <2>2, <2>3 DEF From, Typed, TypeOK
  <2> QED
    BY <2>1, <2>3 DEF From
<1>4. CASE Add
  <2>1. adds # <<>> /\ adds \in Seq(Addition) /\ UNCHANGED <<mode, refDigest, sent>>
        /\ index' = [index EXCEPT ![Head(adds).key] = Head(adds).digest]
    BY <1>4 DEF Add, Typed, TypeOK, walk
  <2>2. PICK m \in DOMAIN Additions : Head(adds) = Additions[m]
    <3>1. Head(adds) = adds[1] /\ 1 \in DOMAIN adds
      BY <2>1, HeadTailProperties, LenProperties, EmptySeq
    <3> QED
      BY <3>1 DEF EntriesInv
  <2>3. Head(adds) \in Addition
    BY <2>1, HeadTailProperties
  <2>4. Additions[m].digest \in MayHold(f, Additions[m].key)
    <3>1. Additions[m].digest # None
      BY <2>2, <2>3, CopyAssumption DEF Addition
    <3> QED
      BY <3>1 DEF MayHold
  <2>5. ASSUME NEW k \in Key, index'[k] # None PROVE index'[k] \in MayHold(f, k)
    BY <2>1, <2>2, <2>4, <2>5 DEF From, Typed, TypeOK
  <2> QED
    BY <2>1, <2>5 DEF From
<1> QED
  BY <1>1, <1>2, <1>3, <1>4
     DEF Next, Command, Walk, WalkEnds, Refuse, TakeChildren, PassOver, Take, Descend, CannotRead,
         Push, PushRefused, PushFails, Truncate, WriteFile, WriteFails, Discard, Copied, store, walk, vars

LEMMA SigStep ==
  ASSUME NEW f, Matched(f), Typed, RootInv, From(f), SigInv, [Next]_vars
  PROVE  SigInv'
<1>1. CASE mode # "registry" \/ pc' # "copy"
  <2>1. mode' = mode
    BY DEF Next, Command, MapReferences, Walk, Resolve, WalkEnds, Refuse, TakeChildren, PassOver, Take,
           Descend, CannotRead, Push, PushRefused, PushFails, Truncate, WriteFile, WriteFails, Discard,
           Copied, Add, store, vars
  <2> QED
    BY <1>1, <2>1 DEF SigInv
<1>2. CASE UNCHANGED <<mode, pc, job, sent, work>>
  BY <1>2 DEF SigInv, Manifest, KindOf
<1>3. CASE Resolve /\ mode = "registry"
  <2>1. job.key \in Key /\ job' = job /\ sent'[job.key] = Newest /\ work' = <<[d |-> Newest, at |-> "copy"]>>
    BY <1>3 DEF Resolve, Typed, TypeOK, JobInv, Job
  <2>2. \A i \in DOMAIN work' : work'[i].d = Newest
    BY <2>1
  <2> QED
    BY <2>1, <2>2 DEF SigInv, Manifest, KindOf
<1>4. CASE Descend /\ mode = "registry" /\ KindOf(job.key) = "sigs"
  <2>1. /\ work # <<>> /\ pc = "copy" /\ Head(work) = work[1] /\ 1 \in DOMAIN work /\ Head(work).d \in Digest
        /\ Manifest(Head(work).d) /\ Rest(Expand(Head(work).d)) /\ UNCHANGED <<mode, pc, job, sent>>
        /\ job.key \in Key
    BY <1>4, WorkTypes DEF Descend, Copying, Typed, JobInv, Item, Job, store, walk
  <2>2. PICK d \in Digest : d = Head(work).d
    BY <2>1
  <2>3. d = sent[job.key]
    BY <1>4, <2>1, <2>2 DEF SigInv
  <2>4. d \in MayHold(f, job.key)
    BY <1>4, <2>1, <2>3, CopyAssumption DEF From
  <2>5. \A c \in Range(Parts[d]) : ~Manifest(c)
    BY <1>4, <2>1, <2>4 DEF Matched
  <2>6. /\ Expand(d) \in Seq(Item) /\ Parts[d] \in Seq(Digest)
        /\ Len(Expand(d)) = Len(Parts[d]) + 1 /\ Len(Parts[d]) \in Nat
        /\ \A i \in 1..Len(Parts[d]) : Expand(d)[i] = [d |-> Parts[d][i], at |-> "copy"]
        /\ Expand(d)[Len(Parts[d]) + 1] = [d |-> d, at |-> "push"]
    BY ExpandTypes, LenProperties
  <2>7. /\ Len(work) \in Nat \ {0} /\ DOMAIN work = 1..Len(work)
        /\ DOMAIN work' = 1..(Len(Expand(d)) + Len(work) - 1)
        /\ \A i \in DOMAIN work' :
             work'[i] = IF i <= Len(Expand(d)) THEN Expand(d)[i] ELSE work[i - Len(Expand(d)) + 1]
    BY <2>1, <2>2, <2>6, RestProperties DEF Typed
  <2>8. Len(Expand(d)) \in Nat /\ Len(work) \in Nat
    <3>1. Expand(d) \in Seq(Item) /\ Len(work) \in Nat
      BY <2>1, ExpandTypes, WorkTypes DEF Typed
    <3> QED
      BY <3>1, LenProperties
  <2>9. ASSUME NEW i \in DOMAIN work', Manifest(work'[i].d) PROVE work'[i].d = d
    <3>1. CASE i \in 1..Len(Parts[d])
      <4>1. work'[i].d = Parts[d][i]
        <5>1. i \in Nat /\ i <= Len(Expand(d))
          BY <2>6, <3>1
        <5>2. work'[i] = Expand(d)[i]
          BY <2>7, <2>9, <5>1
        <5>3. Expand(d)[i] = [d |-> Parts[d][i], at |-> "copy"]
          BY <2>6, <3>1
        <5> QED
          BY <5>2, <5>3
      <4>2. Parts[d][i] \in Range(Parts[d])
        BY <2>6, <3>1, LenProperties DEF Range
      <4> QED
        BY <2>5, <2>9, <4>1, <4>2
    <3>2. CASE i = Len(Parts[d]) + 1
      BY <2>6, <2>7, <3>2
    <3>3. CASE i > Len(Expand(d))
      <4>1. i - Len(Expand(d)) + 1 \in DOMAIN work /\ work'[i] = work[i - Len(Expand(d)) + 1]
        <5>1. PICK e \in Nat, w \in Nat : e = Len(Expand(d)) /\ w = Len(work)
          BY <2>8
        <5>2. i \in 1..(e + w - 1) /\ i > e
          BY <2>7, <2>9, <3>3, <5>1
        <5>3. i - e + 1 \in 1..w /\ ~(i <= e)
          BY <5>2
        <5> QED
          BY <2>7, <2>9, <5>1, <5>3
      <4> QED
        BY <1>4, <2>1, <2>3, <2>9, <4>1 DEF SigInv
    <3> QED
      BY <2>6, <2>7, <3>1, <3>2, <3>3
  <2> QED
    BY <2>1, <2>3, <2>9 DEF SigInv, Manifest
<1>5. CASE Push
  <2>1. /\ work # <<>> /\ pc = "copy" /\ mode = "registry" /\ Rest(<<>>)
        /\ UNCHANGED <<mode, pc, job, sent>>
    BY <1>5 DEF Push, Sending, store, walk
  <2>2. <<>> \in Seq(Item) /\ Len(<<>>) = 0
    BY EmptySeq
  <2>3. /\ Len(work) \in Nat \ {0} /\ DOMAIN work = 1..Len(work)
        /\ DOMAIN work' = 1..(0 + Len(work) - 1)
        /\ \A i \in DOMAIN work' : work'[i] = IF i <= 0 THEN <<>>[i] ELSE work[i - 0 + 1]
    BY <2>1, <2>2, RestProperties DEF Typed
  <2>4. \A i \in DOMAIN work' : work'[i] = work[i + 1] /\ i + 1 \in DOMAIN work
    BY <2>3
  <2> QED
    BY <2>1, <2>4 DEF SigInv, Manifest, KindOf
<1>6. \/ mode # "registry" \/ pc' # "copy"
      \/ UNCHANGED <<mode, pc, job, sent, work>>
      \/ Resolve \/ Descend \/ Push
  <2>1. GiveUp /\ pc = "copy" => pc' # "copy"
    BY GiveUpTypes
  <2> QED
    BY <2>1 DEF Next, Command, MapReferences, Walk, WalkEnds, Refuse, TakeChildren, PassOver, Take, CannotRead,
         PushRefused, PushFails, Truncate, WriteFile, WriteFails, Discard, Copied, Add, store, walk, target,
         vars, Copying, Sending, Writing
<1>7. CASE Descend /\ KindOf(job.key) # "sigs"
  <2>1. job' = job
    BY <1>7 DEF Descend, walk
  <2> QED
    BY <1>7, <2>1 DEF SigInv, KindOf
<1> QED
  BY <1>1, <1>2, <1>3, <1>4, <1>5, <1>6, <1>7

LEMMA SignatureStep ==
  ASSUME NEW f, Matched(f), Typed, From(f), SigInv, SignatureOfItsImage, [Next]_vars
  PROVE  SignatureOfItsImage'
<1>1. CASE UNCHANGED tags
  BY <1>1 DEF SignatureOfItsImage
<1>2. CASE Sending /\ Accept(Head(work).d)
  <2>1. PICK d \in Digest : d = Head(work).d /\ d = work[1].d
    BY <1>2, WorkTypes DEF Sending, Typed, Item
  <2>2. mode = "registry" /\ pc = "copy" /\ 1 \in DOMAIN work /\ job.key \in Key
    BY <1>2, WorkTypes DEF Sending, Typed, JobInv, Job
  <2>3. Repo0 \in Repo /\ (Destination(job.key) # NoTag => Destination(job.key) \in Tag)
    BY <2>2, DestinationType DEF Repo0, Typed
  <2>4. SUFFICES ASSUME NEW r \in Repo, NEW of \in Digest,
                        tags'[<<r, [of |-> of, sig |-> TRUE]>>] # tags[<<r, [of |-> of, sig |-> TRUE]>>]
                 PROVE  SignatureOf[tags'[<<r, [of |-> of, sig |-> TRUE]>>]] \in {None, of}
    BY DEF SignatureOfItsImage
  <2>5. /\ Manifest(d) /\ Destination(job.key) = [of |-> of, sig |-> TRUE]
        /\ tags'[<<r, [of |-> of, sig |-> TRUE]>>] = d
    <3>1. PICK tag \in Tag : tag = [of |-> of, sig |-> TRUE]
      BY DEF Tag
    <3>2. tags'[<<r, tag>>] # tags[<<r, tag>>]
      BY <2>4, <3>1
    <3>3. Manifest(d) /\ Destination(job.key) = tag /\ tags'[<<r, tag>>] = d
      BY <1>2, <2>1, <2>3, <3>2 DEF Accept, Typed, TypeOK
    <3> QED
      BY <3>1, <3>3
  <2>6. KindOf(job.key) = "sigs" /\ refDigest[RefOf(job.key)] # None /\ of = refDigest[RefOf(job.key)]
    BY <2>5 DEF Destination, NoTag
  <2>7. d = sent[job.key] /\ d \in MayHold(f, job.key)
    BY <2>1, <2>2, <2>5, <2>6, CopyAssumption DEF SigInv, From
  <2>8. PICK l \in Images(RefOf(job.key)) : of \in MayHold(f, l)
    <3>1. RefOf(job.key) \in Ref
      BY <2>2 DEF Key, RefOf
    <3> QED
      BY <2>6, <3>1 DEF From
  <2> QED
    BY <2>2, <2>5, <2>6, <2>7, <2>8 DEF Matched
<1> QED
  BY <1>1, <1>2
     DEF Next, Command, MapReferences, Walk, Resolve, WalkEnds, Refuse, TakeChildren, PassOver, Take,
         Descend, CannotRead, Push, PushRefused, PushFails, Truncate, WriteFile, WriteFails, Discard,
         Copied, Add, target, vars

(* A signature reaches the tag of another image than its own only from a   *)
(* store where a reference had, or was given meanwhile, an image or index  *)
(* that its signature is not of: from any other, what lies under a tag of  *)
(* signatures is of the image that the tag gives (CopyCmd, targetRef).     *)
THEOREM MatchedSignaturesStay ==
  ASSUME \A f \in Stores : Matched(f)
  PROVE  Spec => []SignatureOfItsImage
<1> DEFINE Known == Invariant /\ SigInv /\ SignatureOfItsImage /\ \E f \in Stores : From(f)
<1>1. Init => Known
  <2> SUFFICES ASSUME Init PROVE Known
    OBVIOUS
  <2>1. index \in Stores /\ \A k \in Key : index[k] # None => index[k] \in MayHold(index, k)
    BY DEF Init, MayHold
  <2>2. PICK f \in Stores : f = index
    BY <2>1
  <2>3. From(f)
    BY <2>1, <2>2 DEF Init, From
  <2>4. SigInv
    BY DEF Init, SigInv
  <2>5. SignatureOfItsImage
    BY DEF Init, SignatureOfItsImage, Tag
  <2> QED
    BY <2>3, <2>4, <2>5, InvariantInit
<1>2. Known /\ [Next]_vars => Known'
  <2> SUFFICES ASSUME Known, [Next]_vars PROVE Known'
    OBVIOUS
  <2>1. PICK f \in Stores : From(f)
    OBVIOUS
  <2>2. Matched(f)
    OBVIOUS
  <2>3. Invariant'
    BY InvariantStep
  <2>4. From(f)'
    BY <2>1, FromStep DEF Invariant, Whole
  <2>5. SigInv'
    BY <2>1, <2>2, SigStep DEF Invariant, Whole
  <2>6. SignatureOfItsImage'
    BY <2>1, <2>2, SignatureStep DEF Invariant, Whole
  <2> QED
    BY <2>3, <2>4, <2>5, <2>6
<1>3. Known => SignatureOfItsImage
  OBVIOUS
<1> HIDE DEF Known
<1> QED
  BY <1>1, <1>2, <1>3, PTL DEF Spec
=============================================================================
