-------------------------- MODULE StoreCheckProofs --------------------------
(***************************************************************************)
(* What holds of StoreCheck for every store, of any graph of manifests and *)
(* with any damage, and for any number of goroutines.                      *)
(*                                                                         *)
(* DamageReported rests on Invariant: the memo only vouches for blobs that *)
(* are right (MemoInv); the goroutines of a manifest are those of its      *)
(* parts (PartsInv); as long as no problem was found, the manifests that   *)
(* were opened are right and what they name was opened too, or is still to *)
(* be (CheckInv); and the entry being visited is in the report already, or *)
(* all that was not found right yet is still to come (CoverInv).           *)
(***************************************************************************)
EXTENDS StoreCheck, SequenceTheorems, TLAPS

(* The Checker's own steps.                                                *)
Checking == pc \in {"check", "parts"}

(* A blob that is known was read once, one that is not was not; what the   *)
(* memo calls right is.                                                    *)
MemoInv ==
  \A d \in Digest :
    /\ reads[d] = IF memo[d] = "unknown" THEN 0 ELSE 1
    /\ memo[d] = "ok" => blob[d] \in Right

(* A goroutine for each part of the manifest at the head of todo.          *)
PartsInv ==
  pc = "parts" =>
    /\ todo # <<>> /\ Head(todo) \in opened
    /\ DOMAIN gor = DOMAIN Parts[Head(todo)]
    /\ \A i \in DOMAIN gor :
         /\ gor[i].desc = Parts[Head(todo)][i]
         /\ gor[i].at \in {"run", "wait"} => memo[gor[i].desc.digest] # "unknown"
         /\ clean /\ gor[i].at = "done" => blob[gor[i].desc.digest] \in Right

(* The manifests that were opened are right, their parts too, and their    *)
(* children are opened or to be visited, unless a problem was found.       *)
Sound(m) ==
  /\ \A i \in DOMAIN Parts[m] : blob[Parts[m][i].digest] \in Right
  /\ Range(Children[m]) \subseteq opened \cup Range(todo)
CheckInv ==
  Checking /\ clean =>
    \A m \in opened :
      /\ blob[m] = "good"
      /\ (pc = "parts" /\ m = Head(todo)) \/ Sound(m)

(* Where the command is in the index.                                      *)
AtInv ==
  /\ pc = "walk" => entry = None
  /\ pc \in {"entry", "platforms", "check", "parts"} => entry \in Entry
  /\ pc = "platforms" => Media[entry] = "index"
  /\ Checking => entry \in Named

(* What is not reported of the entry being visited is right, or to come.   *)
Found(d) == Checking /\ (clean => d \in opened \cup Range(todo))
CoverInv ==
  pc \in {"platforms", "check", "parts"} /\ entry \in Named /\ entry \notin corrupt =>
    IF Media[entry] = "index"
    THEN /\ blob[Root[entry]] = "good"
         /\ \A d \in Range(Children[Root[entry]]) : Whole(d) \/ d \in Range(plats) \/ Found(d)
    ELSE Found(Root[entry])

Typed == TypeOK /\ AtInv /\ MemoInv /\ PartsInv
Invariant == Typed /\ CheckInv /\ CoverInv /\ DamageReported

-----------------------------------------------------------------------------
(* Sequences of digests and what is in them                                *)

LEMMA SeqRange ==
  ASSUME NEW s \in Seq(Digest)
  PROVE  /\ Range(s) \subseteq Digest
         /\ s = <<>> => Range(s) = {}
         /\ s # <<>> => /\ Head(s) \in Digest /\ Tail(s) \in Seq(Digest)
                        /\ Range(s) \subseteq {Head(s)} \cup Range(Tail(s))
                        /\ Head(s) \in Range(s)
<1>1. /\ s \in [1..Len(s) -> Digest] /\ Len(s) \in Nat /\ DOMAIN s = 1..Len(s)
      /\ \A d \in Range(s) : \E i \in 1..Len(s) : d = s[i]
      /\ \A i \in 1..Len(s) : s[i] \in Range(s)
  BY LenProperties DEF Range
<1>2. s = <<>> => Range(s) = {}
  BY DEF Range
<1>3. ASSUME s # <<>>
      PROVE  /\ Head(s) \in Digest /\ Tail(s) \in Seq(Digest)
             /\ Range(s) \subseteq {Head(s)} \cup Range(Tail(s))
             /\ Head(s) \in Range(s)
  <2>1. /\ Head(s) \in Digest /\ Tail(s) \in Seq(Digest) /\ Len(Tail(s)) = Len(s) - 1
        /\ \A i \in 1..Len(Tail(s)) : Tail(s)[i] = s[i + 1]
        /\ DOMAIN Tail(s) = 1..Len(Tail(s))
        /\ Len(s) \in Nat \ {0} /\ Head(s) = s[1]
    BY <1>1, <1>3, HeadTailProperties, LenProperties, EmptySeq
  <2>2. ASSUME NEW i \in 1..Len(s), i # 1 PROVE s[i] \in Range(Tail(s))
    <3>1. i - 1 \in DOMAIN Tail(s) /\ Tail(s)[i - 1] = s[i]
      BY <2>1, <2>2
    <3> QED
      BY <3>1 DEF Range
  <2> QED
    BY <1>1, <2>1, <2>2
<1> QED
  BY <1>1, <1>2, <1>3

LEMMA ConcatRange ==
  ASSUME NEW s \in Seq(Digest), NEW t \in Seq(Digest)
  PROVE  s \o t \in Seq(Digest) /\ Range(s \o t) = Range(s) \cup Range(t)
BY ConcatProperties, RangeConcatenation

LEMMA SingleRange ==
  ASSUME NEW d \in Digest
  PROVE  <<d>> \in Seq(Digest) /\ Range(<<d>>) = {d}
<1>1. <<d>> \in Seq(Digest) /\ DOMAIN <<d>> = {1} /\ <<d>>[1] = d
  OBVIOUS
<1> QED
  BY <1>1 DEF Range

(* What a check of a blob may find.                                        *)
LEMMA CheckBlobTypes ==
  ASSUME NEW desc \in Descriptor, NEW s \in CheckBlob(desc), TypeOK
  PROVE  /\ s \in Status
         /\ s = "ok" => blob[desc.digest] \in Right
<1>1. blob[desc.digest] \in File
  BY DEF Descriptor, TypeOK
<1> QED
  BY <1>1 DEF CheckBlob, Status, File, Right

LEMMA PartTypes ==
  ASSUME NEW d \in Digest
  PROVE  /\ Parts[d] \in Seq(Descriptor) /\ DOMAIN Parts[d] = 1..Len(Parts[d]) /\ Len(Parts[d]) \in Nat
         /\ \A i \in DOMAIN Parts[d] : Parts[d][i] \in Descriptor /\ Parts[d][i].digest \in Digest
         /\ Children[d] \in Seq(Digest)
         /\ Sized(d) \in Descriptor /\ Sized(d).digest = d
<1>1. Parts[d] \in Seq(Descriptor) /\ Children[d] \in Seq(Digest)
  BY CheckAssumption
<1>2. Parts[d] \in [1..Len(Parts[d]) -> Descriptor] /\ DOMAIN Parts[d] = 1..Len(Parts[d]) /\ Len(Parts[d]) \in Nat
  BY <1>1, LenProperties
<1>3. \A i \in DOMAIN Parts[d] : Parts[d][i] \in Descriptor
  BY <1>2
<1> QED
  BY <1>1, <1>2, <1>3 DEF Descriptor, Sized

LEMMA GoroutineTypes ==
  ASSUME TypeOK, NEW i \in DOMAIN gor
  PROVE  /\ gor[i] \in [desc : Descriptor, at : {"queued", "run", "wait", "done"}]
         /\ gor[i].desc \in Descriptor /\ gor[i].desc.digest \in Digest
         /\ gor[i].at \in {"queued", "run", "wait", "done"}
         /\ [gor EXCEPT ![i].at = "run"] \in Seq([desc : Descriptor, at : {"queued", "run", "wait", "done"}])
         /\ [gor EXCEPT ![i].at = "wait"] \in Seq([desc : Descriptor, at : {"queued", "run", "wait", "done"}])
         /\ [gor EXCEPT ![i].at = "done"] \in Seq([desc : Descriptor, at : {"queued", "run", "wait", "done"}])
<1> DEFINE G == [desc : Descriptor, at : {"queued", "run", "wait", "done"}]
<1>1. gor \in [1..Len(gor) -> G] /\ Len(gor) \in Nat /\ DOMAIN gor = 1..Len(gor)
  BY LenProperties DEF TypeOK
<1>2. gor[i] \in G
  BY <1>1
<1>3. ASSUME NEW a \in {"queued", "run", "wait", "done"} PROVE [gor EXCEPT ![i].at = a] \in Seq(G)
  <2>1. [gor EXCEPT ![i].at = a] \in [1..Len(gor) -> G]
    BY <1>1, <1>2
  <2> HIDE DEF G
  <2> QED
    BY <1>1, <2>1, SeqDef
<1> QED
  BY <1>2, <1>3 DEF Descriptor

-----------------------------------------------------------------------------
(* Types, the memo and the goroutines                                      *)

LEMMA TypedInit == Init => Typed
<1> SUFFICES ASSUME Init PROVE Typed
  OBVIOUS
<1>1. TypeOK
  BY EmptySeq DEF Init, TypeOK
<1>2. AtInv /\ MemoInv /\ PartsInv
  BY DEF Init, AtInv, MemoInv, PartsInv, Checking
<1> QED
  BY <1>1, <1>2 DEF Typed

(* The command's own steps.                                                *)
Commands ==
  \/ \E e \in Entry : Visit(e)
  \/ WalkEnds \/ VisitIndex \/ VisitManifest \/ VisitPlatform \/ PlatformsEnd \/ CheckEnds

LEMMA CommandTypes ==
  ASSUME Typed, Commands
  PROVE  Typed'
<1> USE DEF Typed
<1>1. \A d \in Digest : <<d>> \in Seq(Digest)
  BY SingleRange
<1>2. \A e \in Entry : Root[e] \in Digest /\ Children[Root[e]] \in Seq(Digest)
  BY CheckAssumption
<1>3. plats \in Seq(Digest) /\ (plats # <<>> => Head(plats) \in Digest /\ Tail(plats) \in Seq(Digest))
  BY SeqRange DEF TypeOK
<1>4. Named \subseteq Entry /\ None \notin Entry
  BY CheckAssumption
<1>5. ASSUME NEW e \in Entry, Visit(e) PROVE Typed'
  BY <1>5 DEF Visit, TypeOK, AtInv, MemoInv, PartsInv, Checking, NotChecking, Ended
<1>6. CASE WalkEnds
  BY <1>6 DEF WalkEnds, TypeOK, AtInv, MemoInv, PartsInv, Checking, NotChecking, Ended
<1>7. CASE VisitIndex
  BY <1>2, <1>4, <1>7 DEF VisitIndex, Row, Goes, TypeOK, AtInv, MemoInv, PartsInv, Checking, NotChecking
<1>8. CASE VisitManifest
  <2>1. /\ entry \in Entry /\ UNCHANGED <<blob, left, plats, skipped>> /\ corrupt' \subseteq Entry
        /\ (Goes("walk") /\ NotChecking) \/ (entry \in Named /\ StartCheck(Root[entry]))
    BY <1>4, <1>8 DEF VisitManifest, Row, TypeOK, AtInv
  <2>2. CASE Goes("walk") /\ NotChecking
    BY <2>1, <2>2 DEF Goes, TypeOK, AtInv, MemoInv, PartsInv, Checking, NotChecking
  <2>3. CASE entry \in Named /\ StartCheck(Root[entry])
    <3>1. /\ pc' = "check" /\ entry' = entry /\ todo' \in Seq(Digest) /\ clean' = TRUE /\ opened' = {}
          /\ UNCHANGED <<gor, memo, reads>>
      BY <1>1, <1>2, <2>1, <2>3 DEF StartCheck, Goes
    <3> QED
      BY <2>1, <2>3, <3>1 DEF TypeOK, AtInv, MemoInv, PartsInv, Checking
  <2> QED
    BY <2>1, <2>2, <2>3
<1>9. CASE VisitPlatform
  <2>1. /\ pc = "platforms" /\ entry \in Entry /\ Media[entry] = "index" /\ plats # <<>>
        /\ UNCHANGED <<blob, left>> /\ skipped' \subseteq Entry
    BY <1>9 DEF VisitPlatform, AtInv, TypeOK
  <2>2. Head(plats) \in Digest /\ Tail(plats) \in Seq(Digest)
    BY <1>3, <2>1
  <2>3. CASE NotChecking /\ pc' # "check"
    <3>1. /\ corrupt' \subseteq Entry /\ plats' \in Seq(Digest) /\ pc' \in {"platforms", "walk", "panic"}
          /\ entry' = IF pc' = "walk" THEN None ELSE entry
      BY <1>3, <1>4, <1>9, <2>1, <2>2, <2>3 DEF VisitPlatform, Row, Goes, TypeOK, StartCheck
    <3> QED
      BY <2>1, <2>3, <3>1 DEF TypeOK, AtInv, MemoInv, PartsInv, Checking, NotChecking, Ended
  <2>4. CASE StartCheck(Head(plats)) /\ entry \in Named
    <3>1. corrupt' \subseteq Entry /\ plats' \in Seq(Digest)
      BY <1>3, <1>4, <1>9, <2>1, <2>2, <2>4 DEF VisitPlatform, Row, TypeOK, StartCheck
    <3>2. /\ entry' = entry /\ pc' = "check" /\ todo' \in Seq(Digest) /\ clean' = TRUE /\ opened' = {}
          /\ UNCHANGED <<gor, memo, reads>>
      BY <1>1, <2>2, <2>4 DEF StartCheck, Goes
    <3> QED
      BY <2>1, <2>4, <3>1, <3>2 DEF TypeOK, AtInv, MemoInv, PartsInv, Checking
  <2> QED
    BY <1>9, <2>3, <2>4 DEF VisitPlatform, Goes
<1>10. CASE PlatformsEnd
  BY <1>4, <1>10 DEF PlatformsEnd, Goes, TypeOK, AtInv, MemoInv, PartsInv, Checking, NotChecking
<1>11. CASE CheckEnds
  BY <1>4, <1>11 DEF CheckEnds, Row, Goes, TypeOK, AtInv, MemoInv, PartsInv, Checking, NotChecking
<1> QED
  BY <1>5, <1>6, <1>7, <1>8, <1>9, <1>10, <1>11 DEF Commands

LEMMA ManifestTypes ==
  ASSUME Typed, CheckManifest
  PROVE  Typed'
<1> USE DEF Typed
<1> DEFINE d == Head(todo)
           new == memo[d] = "unknown"
<1>1. todo # <<>> /\ todo \in Seq(Digest) /\ d \in Digest /\ Tail(todo) \in Seq(Digest)
  BY SeqRange DEF CheckManifest, TypeOK
<1>2. PICK s \in (IF new THEN CheckBlob(Sized(d)) ELSE {memo[d]}) :
           /\ memo' = [memo EXCEPT ![d] = s]
           /\ reads' = IF new THEN [reads EXCEPT ![d] = @ + 1] ELSE reads
           /\ \/ /\ s = "ok" /\ MayDecode(d)
                 /\ pc' = "parts"
                 /\ gor' = [i \in DOMAIN Parts[d] |-> [desc |-> Parts[d][i], at |-> "queued"]]
                 /\ opened' = opened \cup {d}
                 /\ UNCHANGED <<todo, clean>>
              \/ /\ todo' = Tail(todo) /\ clean' = FALSE
                 /\ UNCHANGED <<pc, gor, opened>>
  BY DEF CheckManifest
<1>3. pc = "check" /\ UNCHANGED <<blob, left, entry, plats, corrupt, skipped>>
  BY DEF CheckManifest, Unvisited
<1> HIDE DEF d
<1>4. s \in Status \cup {"running"} /\ s # "unknown" /\ (s = "ok" => blob[d] \in Right)
  <2>1. CASE new
    BY <1>1, <1>2, <2>1, PartTypes, CheckBlobTypes DEF Status
  <2>2. CASE ~new
    BY <1>1, <1>2, <2>2 DEF TypeOK, MemoInv
  <2> QED
    BY <2>1, <2>2
<1>5. memo' \in [Digest -> Status \cup {"unknown", "running"}] /\ reads' \in [Digest -> Nat] /\ MemoInv'
  <2>1. memo' \in [Digest -> Status \cup {"unknown", "running"}] /\ reads' \in [Digest -> Nat]
    BY <1>1, <1>2, <1>4 DEF TypeOK
  <2>2. ASSUME NEW x \in Digest
        PROVE  /\ reads'[x] = IF memo'[x] = "unknown" THEN 0 ELSE 1
               /\ memo'[x] = "ok" => blob'[x] \in Right
    BY <1>1, <1>2, <1>3, <1>4 DEF TypeOK, MemoInv
  <2> QED
    BY <2>1, <2>2 DEF MemoInv
<1>6. CASE pc' = "parts"
  <2>1. /\ gor' = [i \in DOMAIN Parts[d] |-> [desc |-> Parts[d][i], at |-> "queued"]]
        /\ opened' = opened \cup {d} /\ UNCHANGED <<todo, clean>>
    BY <1>2, <1>3, <1>6
  <2>2. DOMAIN Parts[d] = 1..Len(Parts[d]) /\ Len(Parts[d]) \in Nat /\ \A i \in DOMAIN Parts[d] : Parts[d][i] \in Descriptor
    BY <1>1, PartTypes
  <2>3. gor' \in [1..Len(Parts[d]) -> [desc : Descriptor, at : {"queued", "run", "wait", "done"}]]
    BY <2>1, <2>2
  <2>4. gor' \in Seq([desc : Descriptor, at : {"queued", "run", "wait", "done"}])
    <3> DEFINE G == [desc : Descriptor, at : {"queued", "run", "wait", "done"}]
    <3>1. gor' \in [1..Len(Parts[d]) -> G]
      BY <2>3
    <3> HIDE DEF G
    <3>2. gor' \in Seq(G)
      BY <2>2, <3>1, SeqDef
    <3> QED
      BY <3>2 DEF G
  <2>5. TypeOK'
    BY <1>1, <1>3, <1>5, <1>6, <2>1, <2>4 DEF TypeOK
  <2>6. PartsInv'
    BY <1>1, <2>1 DEF PartsInv, d
  <2>7. AtInv'
    BY <1>3, <1>6 DEF AtInv, Checking
  <2> QED
    BY <1>5, <2>5, <2>6, <2>7
<1>7. CASE pc' # "parts"
  <2>1. todo' = Tail(todo) /\ clean' = FALSE /\ UNCHANGED <<pc, gor, opened>>
    BY <1>2, <1>7
  <2>2. TypeOK'
    BY <1>1, <1>3, <1>5, <2>1 DEF TypeOK
  <2>3. PartsInv' /\ AtInv'
    BY <1>3, <2>1 DEF PartsInv, AtInv, Checking
  <2> QED
    BY <1>5, <2>2, <2>3
<1> QED
  BY <1>6, <1>7

LEMMA GoroutineStep ==
  ASSUME Typed, NEW i \in DOMAIN gor, StartPart(i) \/ FinishPart(i)
  PROVE  Typed'
<1> USE DEF Typed
<1> DEFINE d == gor[i].desc.digest
           G == [desc : Descriptor, at : {"queued", "run", "wait", "done"}]
<1>1. /\ pc = "parts" /\ UNCHANGED <<pc, todo, opened, blob, left, entry, plats, corrupt, skipped>>
      /\ clean \in BOOLEAN /\ memo \in [Digest -> Status \cup {"unknown", "running"}]
      /\ reads \in [Digest -> Nat]
  BY DEF StartPart, FinishPart, Unvisited, TypeOK
<1>2. /\ gor[i].desc \in Descriptor /\ d \in Digest
      /\ \A a \in {"run", "wait", "done"} : [gor EXCEPT ![i].at = a][i].at = a
      /\ \A a \in {"run", "wait", "done"} : [gor EXCEPT ![i].at = a] \in Seq(G)
  BY GoroutineTypes
<1>3. \E a \in {"run", "wait", "done"} : gor' = [gor EXCEPT ![i].at = a]
  BY DEF StartPart, FinishPart, PartDone
<1>4. gor' \in Seq(G)
  BY <1>2, <1>3
<1>5. \/ /\ memo[d] = "unknown" /\ gor' = [gor EXCEPT ![i].at = "run"] /\ clean' = clean
         /\ memo' = [memo EXCEPT ![d] = "running"] /\ reads' = [reads EXCEPT ![d] = @ + 1]
      \/ /\ memo[d] = "running" /\ gor' = [gor EXCEPT ![i].at = "wait"] /\ UNCHANGED <<memo, reads, clean>>
      \/ /\ memo[d] \notin {"unknown", "running"} /\ PartDone(i, memo[d]) /\ UNCHANGED <<memo, reads>>
      \/ /\ gor[i].at = "run" /\ UNCHANGED reads
         /\ \E s \in CheckBlob(gor[i].desc) : PartDone(i, s) /\ memo' = [memo EXCEPT ![d] = s]
  <2>1. CASE StartPart(i)
    BY <2>1 DEF StartPart
  <2>2. CASE FinishPart(i)
    <3>1. gor[i].at = "wait" => memo[d] # "unknown"
      BY <1>1 DEF PartsInv
    <3> QED
      BY <2>2, <3>1 DEF FinishPart
  <2> QED
    BY <2>1, <2>2
<1> HIDE DEF d, G
<1>6. d = gor[i].desc.digest
  BY DEF d
<1> DEFINE Answered(s) ==
        /\ memo' = [memo EXCEPT ![d] = s] \/ UNCHANGED memo
        /\ memo[d] = "unknown" => reads' = [reads EXCEPT ![d] = @ + 1] /\ memo' = [memo EXCEPT ![d] = s]
        /\ memo[d] # "unknown" => UNCHANGED reads
        /\ s = "ok" => blob[d] \in Right
        /\ clean' => clean
        /\ clean' \in BOOLEAN
        /\ gor'[i].at \in {"run", "wait"} => memo'[d] # "unknown"
        /\ clean' /\ gor'[i].at = "done" => s = "ok"
<1>7. \E s \in Status \cup {"running"} : Answered(s)
  <2>1. CASE \/ /\ memo[d] = "unknown" /\ gor' = [gor EXCEPT ![i].at = "run"] /\ clean' = clean
                /\ memo' = [memo EXCEPT ![d] = "running"] /\ reads' = [reads EXCEPT ![d] = @ + 1]
             \/ /\ memo[d] = "running" /\ gor' = [gor EXCEPT ![i].at = "wait"] /\ UNCHANGED <<memo, reads, clean>>
    <3>1. \E a \in {"run", "wait"} : gor' = [gor EXCEPT ![i].at = a] /\ UNCHANGED clean
      BY <2>1
    <3>2. gor'[i].at # "done" /\ UNCHANGED clean
      BY <1>2, <3>1
    <3>3. memo'[d] = "running"
      BY <1>1, <1>2, <2>1
    <3>4. Answered("running")
      BY <1>1, <2>1, <3>2, <3>3
    <3> QED
      BY <3>4
  <2>2. CASE /\ memo[d] \notin {"unknown", "running"} /\ PartDone(i, memo[d]) /\ UNCHANGED <<memo, reads>>
    <3>1. memo[d] \in Status \cup {"running"} /\ (memo[d] = "ok" => blob[d] \in Right)
      BY <1>1, <1>2, <2>2 DEF MemoInv
    <3>2. Answered(memo[d])
      BY <1>1, <1>2, <2>2, <3>1 DEF PartDone
    <3> QED
      BY <3>1, <3>2
  <2>3. ASSUME NEW s \in CheckBlob(gor[i].desc), gor[i].at = "run", UNCHANGED reads,
               PartDone(i, s), memo' = [memo EXCEPT ![d] = s]
        PROVE  \E x \in Status \cup {"running"} : Answered(x)
    <3>1. s \in Status /\ (s = "ok" => blob[d] \in Right)
      BY <1>2, <1>6, CheckBlobTypes
    <3>2. memo[d] # "unknown"
      BY <1>1, <1>6, <2>3 DEF PartsInv
    <3>3. s # "unknown"
      BY <3>1 DEF Status
    <3>4. Answered(s)
      BY <1>1, <1>2, <2>3, <3>1, <3>2, <3>3 DEF PartDone
    <3> QED
      BY <3>1, <3>4
  <2> HIDE DEF Answered
  <2> QED
    BY <1>5, <2>1, <2>2, <2>3
<1>8. PICK s \in Status \cup {"running"} : Answered(s)
  BY <1>7
<1>9. MemoInv' /\ memo' \in [Digest -> Status \cup {"unknown", "running"}] /\ reads' \in [Digest -> Nat]
  <2>1. s # "unknown"
    BY DEF Status
  <2>2. memo' \in [Digest -> Status \cup {"unknown", "running"}] /\ reads' \in [Digest -> Nat]
    BY <1>1, <1>2, <1>8
  <2>3. ASSUME NEW x \in Digest
        PROVE  /\ reads'[x] = IF memo'[x] = "unknown" THEN 0 ELSE 1
               /\ memo'[x] = "ok" => blob'[x] \in Right
    BY <1>1, <1>2, <1>8, <2>1 DEF MemoInv
  <2> QED
    BY <2>2, <2>3 DEF MemoInv
<1>10. TypeOK'
  BY <1>1, <1>4, <1>8, <1>9 DEF TypeOK, G
<1>11. DOMAIN gor' = DOMAIN gor /\ \A j \in DOMAIN gor :
         /\ gor'[j].desc = gor[j].desc
         /\ j # i => gor'[j] = gor[j]
  BY <1>3
<1>12. \A x \in Digest : memo[x] # "unknown" => memo'[x] # "unknown"
  BY <1>1, <1>2, <1>8 DEF Status
<1>13. ASSUME NEW j \in DOMAIN gor'
       PROVE  /\ gor'[j].desc = Parts[Head(todo)][j]
              /\ gor'[j].at \in {"run", "wait"} => memo'[gor'[j].desc.digest] # "unknown"
              /\ clean' /\ gor'[j].at = "done" => blob[gor'[j].desc.digest] \in Right
  <2>1. j \in DOMAIN gor /\ gor[j].desc.digest \in Digest /\ gor'[j].desc = gor[j].desc
    BY <1>11, <1>13, GoroutineTypes
  <2>2. CASE j # i
    BY <1>1, <1>8, <1>11, <1>12, <2>1, <2>2 DEF PartsInv
  <2>3. CASE j = i
    <3>1. gor'[i].at \in {"run", "wait"} => memo'[d] # "unknown"
      BY <1>8
    <3>2. clean' /\ gor'[i].at = "done" => blob[d] \in Right
      BY <1>8
    <3> QED
      BY <1>1, <1>6, <2>1, <2>3, <3>1, <3>2 DEF PartsInv
  <2> QED
    BY <2>2, <2>3
<1>14. PartsInv' /\ AtInv'
  BY <1>1, <1>11, <1>13 DEF PartsInv, AtInv, Checking
<1> QED
  BY <1>9, <1>10, <1>14
LEMMA PartsEndStep ==
  ASSUME Typed, PartsEnd
  PROVE  /\ Typed'
         /\ \A x : x \in Range(todo') <=> x \in Range(Children[Head(todo)]) \/ x \in Range(Tail(todo))
         /\ Range(todo) \subseteq {Head(todo)} \cup Range(todo')
<1>1. /\ pc = "parts" /\ pc' = "check" /\ gor' = <<>> /\ todo' = Children[Head(todo)] \o Tail(todo)
      /\ UNCHANGED <<memo, clean, opened, reads, blob, left, entry, plats, corrupt, skipped>>
  BY DEF PartsEnd, Unvisited
<1>2. todo # <<>> /\ todo \in Seq(Digest) /\ Head(todo) \in Digest /\ Tail(todo) \in Seq(Digest)
      /\ Range(todo) \subseteq {Head(todo)} \cup Range(Tail(todo))
  BY <1>1, SeqRange DEF Typed, TypeOK, PartsInv
<1>3. todo' \in Seq(Digest) /\ Range(todo') = Range(Children[Head(todo)]) \cup Range(Tail(todo))
  BY <1>1, <1>2, PartTypes, ConcatRange
<1>4. Typed'
  BY <1>1, <1>3, EmptySeq DEF Typed, TypeOK, AtInv, MemoInv, PartsInv, Checking
<1> QED
  BY <1>2, <1>3, <1>4

LEMMA TypedStep ==
  ASSUME Typed, [Next]_vars
  PROVE  Typed'
<1>1. CASE UNCHANGED vars
  BY <1>1 DEF vars, Typed, TypeOK, AtInv, MemoInv, PartsInv, Checking
<1> QED
  BY <1>1, CommandTypes, ManifestTypes, GoroutineStep, PartsEndStep DEF Next, Commands

(* Goroutines forget no problem.                                           *)
LEMMA GoroutineFrame ==
  ASSUME NEW i \in DOMAIN gor, StartPart(i) \/ FinishPart(i)
  PROVE  /\ clean' => clean
         /\ pc = "parts" /\ UNCHANGED <<pc, todo, opened, blob, left, entry, plats, corrupt, skipped>>
BY DEF StartPart, FinishPart, PartDone, Unvisited

LEMMA ManifestFrame ==
  ASSUME Typed, CheckManifest
  PROVE  /\ pc = "check" /\ todo # <<>> /\ UNCHANGED <<blob, left, entry, plats, corrupt, skipped>> /\ Checking'
         /\ clean' => /\ clean /\ blob[Head(todo)] = "good" /\ pc' = "parts"
                      /\ opened' = opened \cup {Head(todo)} /\ todo' = todo
<1>1. pc = "check" /\ todo # <<>> /\ Head(todo) \in Digest
  BY SeqRange DEF CheckManifest, Typed, TypeOK
<1>2. ASSUME clean'
      PROVE  /\ memo'[Head(todo)] = "ok" /\ MayDecode(Head(todo)) /\ pc' = "parts"
             /\ opened' = opened \cup {Head(todo)} /\ todo' = todo /\ clean
  BY <1>1, <1>2 DEF CheckManifest, Typed, TypeOK
<1>3. ASSUME clean' PROVE blob[Head(todo)] = "good"
  BY <1>1, <1>2, <1>3, ManifestTypes DEF Typed, MemoInv, MayDecode, CheckManifest, Unvisited, Right
<1> QED
  BY <1>1, <1>2, <1>3 DEF CheckManifest, Unvisited, Checking

-----------------------------------------------------------------------------
(* What was found right is                                                 *)

LEMMA CheckStep ==
  ASSUME Typed, CheckInv, [Next]_vars
  PROVE  CheckInv'
<1>1. CASE Commands
  BY <1>1 DEF Commands, Visit, WalkEnds, VisitIndex, VisitManifest, VisitPlatform, PlatformsEnd, CheckEnds,
              StartCheck, Goes, CheckInv, Checking, NotChecking
<1>2. CASE CheckManifest
  <2>1. SUFFICES ASSUME clean', NEW m \in opened'
                 PROVE  blob'[m] = "good" /\ ((pc' = "parts" /\ m = Head(todo')) \/ Sound(m)')
    BY DEF CheckInv
  <2>2. /\ pc = "check" /\ clean /\ blob[Head(todo)] = "good" /\ pc' = "parts" /\ blob' = blob
        /\ opened' = opened \cup {Head(todo)} /\ todo' = todo
    BY <1>2, <2>1, ManifestFrame
  <2>3. m # Head(todo) => blob[m] = "good" /\ Sound(m)
    BY <2>1, <2>2 DEF CheckInv, Checking
  <2> QED
    BY <2>2, <2>3 DEF Sound
<1>3. ASSUME NEW i \in DOMAIN gor, StartPart(i) \/ FinishPart(i) PROVE CheckInv'
  BY <1>3, GoroutineFrame DEF CheckInv, Checking, Sound
<1>4. CASE PartsEnd
  <2>1. SUFFICES ASSUME clean', NEW m \in opened' PROVE blob'[m] = "good" /\ Sound(m)'
    BY DEF CheckInv
  <2>2. /\ pc = "parts" /\ clean /\ UNCHANGED <<blob, opened>> /\ m \in opened
        /\ \A i \in DOMAIN gor : gor[i].at = "done"
    BY <1>4, <2>1 DEF PartsEnd, Unvisited
  <2>3. /\ \A x : x \in Range(todo') <=> x \in Range(Children[Head(todo)]) \/ x \in Range(Tail(todo))
        /\ Range(todo) \subseteq {Head(todo)} \cup Range(todo') /\ Head(todo) \in opened
    BY <1>4, <2>2, PartsEndStep DEF Typed, PartsInv
  <2>4. blob[m] = "good" /\ (m # Head(todo) => Sound(m))
    BY <2>2 DEF CheckInv, Checking
  <2>5. m = Head(todo) => \A i \in DOMAIN Parts[m] : blob[Parts[m][i].digest] \in Right
    BY <2>2 DEF Typed, PartsInv
  <2> QED
    BY <2>2, <2>3, <2>4, <2>5 DEF Sound
<1>5. CASE UNCHANGED vars
  BY <1>5 DEF vars, CheckInv, Checking, Sound
<1> QED
  BY <1>1, <1>2, <1>3, <1>4, <1>5 DEF Next, Commands

(* Nothing is left to visit and no problem was found: the manifests that   *)
(* were opened are whole.                                                  *)
LEMMA OpenedWhole ==
  ASSUME Typed, CheckInv, pc = "check", todo = <<>>, clean
  PROVE  \A d \in opened : Whole(d)
<1>1. Range(todo) = {}
  BY DEF Range
<1>2. opened \in SUBSET Digest
  BY DEF Typed, TypeOK
<1>3. \A m \in opened : /\ blob[m] = "good"
                        /\ \A i \in DOMAIN Parts[m] : blob[Parts[m][i].digest] \in Right
                        /\ Range(Children[m]) \subseteq opened
  BY <1>1 DEF CheckInv, Checking, Sound
<1> QED
  BY <1>2, <1>3 DEF Whole

LEMMA WholeStays ==
  ASSUME blob' = blob
  PROVE  /\ \A d : Whole(d)' <=> Whole(d)
         /\ \A e : EntryWhole(e)' <=> EntryWhole(e)
BY DEF Whole, EntryWhole

-----------------------------------------------------------------------------
(* The report                                                              *)

(* Within a Check nothing gets out of sight.                               *)
LEMMA CoverStays ==
  ASSUME CoverInv, Checking, Checking', UNCHANGED <<blob, entry, plats, corrupt>>,
         clean' => clean /\ opened \cup Range(todo) \subseteq opened' \cup Range(todo')
  PROVE  CoverInv'
<1>1. \A d : Found(d) => Found(d)'
  BY DEF Found
<1>2. \A d : Whole(d) => Whole(d)'
  BY WholeStays
<1> QED
  BY <1>1, <1>2 DEF CoverInv, Checking

LEMMA CoverStep ==
  ASSUME Typed, CheckInv, CoverInv, [Next]_vars
  PROVE  CoverInv'
<1>1. ASSUME NEW e \in Entry, Visit(e) PROVE CoverInv'
  BY <1>1 DEF Visit, CoverInv
<1>2. CASE WalkEnds \/ PlatformsEnd
  BY <1>2 DEF WalkEnds, PlatformsEnd, Goes, CoverInv
<1>3. CASE VisitIndex
  <2>1. CASE pc' = "walk"
    BY <2>1 DEF CoverInv
  <2>2. CASE pc' # "walk"
    <3>1. /\ "ok" \in CheckBlob(Sized(Root[entry])) /\ MayDecode(Root[entry])
          /\ plats' = Children[Root[entry]] /\ Media[entry] = "index"
          /\ UNCHANGED <<blob, entry>> /\ entry \in Entry
      BY <1>3, <2>2 DEF VisitIndex, Goes, Typed, AtInv
    <3>2. Root[entry] \in Digest
      BY <3>1, CheckAssumption
    <3>3. blob[Root[entry]] \in Right
      BY <3>1, <3>2, CheckBlobTypes, PartTypes DEF Typed
    <3>4. blob[Root[entry]] = "good"
      BY <3>1, <3>3 DEF MayDecode, Right
    <3> QED
      BY <3>1, <3>4 DEF CoverInv
  <2> QED
    BY <2>1, <2>2
<1>4. CASE VisitManifest
  <2>1. CASE pc' = "walk"
    BY <2>1 DEF CoverInv
  <2>2. CASE pc' # "walk"
    <3>1. StartCheck(Root[entry]) /\ Media[entry] # "index" /\ entry' = entry /\ entry \in Entry
      BY <1>4, <2>2 DEF VisitManifest, StartCheck, Goes, Typed, AtInv
    <3>2. pc' = "check" /\ todo' = <<Root[entry]>> /\ Root[entry] \in Digest
      BY <3>1, CheckAssumption DEF StartCheck, Goes
    <3>3. Found(Root[entry])'
      BY <3>1, <3>2, SingleRange DEF Found, Checking
    <3> QED
      BY <3>1, <3>3 DEF CoverInv
  <2> QED
    BY <2>1, <2>2
<1>5. CASE VisitPlatform
  <2>1. /\ pc = "platforms" /\ entry \in Entry /\ Media[entry] = "index" /\ UNCHANGED blob
        /\ Head(plats) \in Digest /\ Range(plats) \subseteq {Head(plats)} \cup Range(Tail(plats))
    BY <1>5, SeqRange DEF VisitPlatform, Typed, AtInv, TypeOK
  <2>2. CASE pc' \in {"walk", "panic"}
    BY <2>2 DEF CoverInv
  <2>3. CASE Row(TRUE) /\ entry' = entry
    BY <2>3 DEF Row, CoverInv
  <2>4. CASE entry \notin Named /\ entry' = entry
    BY <2>4 DEF CoverInv
  <2>5. CASE StartCheck(Head(plats)) /\ Row(FALSE) /\ plats' = Tail(plats)
    <3>1. entry' = entry /\ pc' = "check" /\ todo' = <<Head(plats)>> /\ corrupt' = corrupt
      BY <2>5 DEF StartCheck, Goes, Row
    <3>2. Range(todo') = {Head(plats)} /\ ~Checking
      BY <2>1, <3>1, SingleRange DEF Checking
    <3>3. \A d : Whole(d) => Whole(d)'
      BY <2>1, WholeStays
    <3>4. ASSUME entry \in Named, entry \notin corrupt, NEW d \in Range(Children[Root[entry]])
          PROVE  Whole(d)' \/ d \in Range(plats') \/ Found(d)'
      <4>1. Whole(d) \/ d \in Range(plats)
        BY <2>1, <3>2, <3>4 DEF CoverInv, Found
      <4>2. d = Head(plats) => Found(d)'
        BY <3>1, <3>2 DEF Found, Checking
      <4> QED
        BY <2>1, <2>5, <3>3, <4>1, <4>2
    <3>5. entry \in Named /\ entry \notin corrupt => blob[Root[entry]] = "good"
      BY <2>1 DEF CoverInv
    <3> QED
      BY <2>1, <3>1, <3>4, <3>5 DEF CoverInv
  <2> QED
    BY <1>5, <2>2, <2>3, <2>4, <2>5 DEF VisitPlatform, Goes
<1>6. CASE CheckEnds
  <2>1. CASE Media[entry] # "index"
    BY <1>6, <2>1 DEF CheckEnds, Goes, CoverInv
  <2>2. CASE Media[entry] = "index"
    <3>1. pc = "check" /\ todo = <<>> /\ entry' = entry /\ Row(~clean) /\ UNCHANGED <<plats, blob>>
      BY <1>6, <2>2 DEF CheckEnds, Goes
    <3>2. CASE ~clean
      BY <3>1, <3>2 DEF Row, CoverInv
    <3>3. CASE clean
      <4>1. corrupt' = corrupt /\ Range(todo) = {} /\ (\A d \in opened : Whole(d))
        BY <3>1, <3>3, OpenedWhole DEF Row, Range
      <4>2. \A d : Found(d) => Whole(d)
        BY <3>3, <4>1 DEF Found
      <4>3. \A d : Whole(d) => Whole(d)'
        BY <3>1, WholeStays
      <4> QED
        BY <2>2, <3>1, <4>1, <4>2, <4>3 DEF CoverInv
    <3> QED
      BY <3>2, <3>3 DEF Typed, TypeOK
  <2> QED
    BY <2>1, <2>2
<1>7. CASE CheckManifest
  BY <1>7, ManifestFrame, CoverStays DEF Checking
<1>8. ASSUME NEW i \in DOMAIN gor, StartPart(i) \/ FinishPart(i) PROVE CoverInv'
  BY <1>8, GoroutineFrame, CoverStays DEF Checking
<1>9. CASE PartsEnd
  <2>1. pc = "parts" /\ pc' = "check" /\ UNCHANGED <<clean, opened, blob, entry, plats, corrupt>> /\ Head(todo) \in opened
    BY <1>9 DEF PartsEnd, Unvisited, Typed, PartsInv
  <2>2. Range(todo) \subseteq {Head(todo)} \cup Range(todo')
    BY <1>9, PartsEndStep
  <2> QED
    BY <2>1, <2>2, CoverStays DEF Checking
<1>10. CASE UNCHANGED vars
  <2>1. \A d : Whole(d) => Whole(d)'
    BY <1>10, WholeStays DEF vars
  <2> QED
    BY <1>10, <2>1 DEF vars, CoverInv, Found, Checking
<1> QED
  BY <1>1, <1>2, <1>3, <1>4, <1>5, <1>6, <1>7, <1>8, <1>9, <1>10 DEF Next

(* An entry left behind is in the report, or whole.                        *)
LEMMA ReportStep ==
  ASSUME Typed, CheckInv, CoverInv, DamageReported, [Next]_vars
  PROVE  DamageReported'
<1>1. blob' = blob /\ corrupt \subseteq corrupt' /\ skipped \subseteq skipped'
  BY DEF Next, Visit, WalkEnds, VisitIndex, VisitManifest, VisitPlatform, PlatformsEnd, CheckEnds, CheckManifest,
         StartPart, FinishPart, PartsEnd, Unvisited, Row, vars
<1>2. \A e : EntryWhole(e)' <=> EntryWhole(e)
  BY <1>1, WholeStays
<1>3. ASSUME entry' = None, entry \in Named 
      PROVE  entry \in corrupt' \cup skipped' \/ EntryWhole(entry) \/ entry \in left' \/ entry = None
  <2>1. CASE VisitIndex
    BY <1>3, <2>1, CheckAssumption DEF VisitIndex, Goes, Row, Typed, AtInv
  <2>2. CASE VisitManifest
    BY <1>3, <2>2, CheckAssumption DEF VisitManifest, StartCheck, Goes, Row, Typed, AtInv
  <2>3. CASE PlatformsEnd
    <3>1. pc = "platforms" /\ plats = <<>> /\ Media[entry] = "index" /\ ~Checking /\ Range(plats) = {}
      BY <2>3 DEF PlatformsEnd, Typed, AtInv, Checking, Range
    <3>2. entry \notin corrupt => EntryWhole(entry)
      BY <1>3, <3>1 DEF CoverInv, Found, EntryWhole
    <3> QED
      BY <1>1, <3>2
  <2>4. CASE CheckEnds
    <3>1. pc = "check" /\ todo = <<>> /\ entry \in Entry /\ Row(~clean) /\ Media[entry] # "index"
      BY <1>3, <2>4, CheckAssumption DEF CheckEnds, Goes, Typed, AtInv
    <3>2. CASE ~clean
      BY <1>3, <3>1, <3>2 DEF Row
    <3>3. CASE clean
      <4>1. Range(todo) = {} /\ \A d \in opened : Whole(d)
        BY <3>1, <3>3, OpenedWhole DEF Range
      <4>2. entry \notin corrupt => EntryWhole(entry)
        BY <1>3, <3>1, <3>3, <4>1 DEF CoverInv, Found, EntryWhole
      <4> QED
        BY <1>1, <4>2
    <3> QED
      BY <3>2, <3>3
  <2>5. CASE VisitPlatform
    BY <1>3, <2>5 DEF VisitPlatform, StartCheck, Goes, Typed, AtInv
  <2>6. CASE ~(VisitIndex \/ VisitManifest \/ VisitPlatform \/ PlatformsEnd \/ CheckEnds)
    <3>1. entry' = entry \/ \E e \in Entry : Visit(e)
      BY <2>6 DEF Next, WalkEnds, StartCheck, Goes, CheckManifest, StartPart, FinishPart,
                  PartsEnd, Unvisited, vars
    <3>2. ASSUME NEW e \in Entry, Visit(e) PROVE entry = None
      BY <3>2 DEF Visit, Typed, AtInv
    <3> QED
      BY <1>3, <3>1, <3>2
  <2> QED
    BY <2>1, <2>2, <2>3, <2>4, <2>5, <2>6
<1>4. ASSUME NEW e \in Named, e \notin left', e # entry' PROVE e \in corrupt' \cup skipped' \/ EntryWhole(e)
  <2>1. CASE e \notin left /\ e # entry
    BY <1>1, <2>1 DEF DamageReported
  <2>2. CASE e \in left
    BY <1>4, <2>2 DEF Next, Visit, WalkEnds, VisitIndex, VisitManifest, VisitPlatform, PlatformsEnd, CheckEnds,
                      CheckManifest, StartPart, FinishPart, PartsEnd, Unvisited, vars
  <2>3. CASE e = entry
    <3>1. entry' = None
      BY <1>4, <2>3, CheckAssumption
         DEF Next, Visit, WalkEnds, VisitIndex, VisitManifest, VisitPlatform, PlatformsEnd, CheckEnds,
             CheckManifest, StartPart, FinishPart, PartsEnd, Unvisited, vars, StartCheck, Goes, Typed, AtInv
    <3> QED
      BY <1>3, <1>4, <2>3, <3>1, CheckAssumption
  <2> QED
    BY <2>1, <2>2, <2>3
<1>5. ASSUME pc' \in {"passed", "corrupt"}
      PROVE  /\ \A e \in Named : e \in corrupt' \/ EntryWhole(e)
             /\ pc' = "passed" => corrupt' = {}
  <2>1. CASE pc \in {"passed", "corrupt"}
    <3>1. pc' = pc /\ corrupt' = corrupt
      BY <2>1 DEF Next, Visit, WalkEnds, VisitIndex, VisitManifest, VisitPlatform, PlatformsEnd, CheckEnds,
                  CheckManifest, StartPart, FinishPart, PartsEnd, vars
    <3> QED
      BY <2>1, <3>1 DEF DamageReported
  <2>2. CASE pc \notin {"passed", "corrupt"}
    <3>1. WalkEnds
      BY <1>5, <2>2 DEF Next, Visit, VisitIndex, VisitManifest, VisitPlatform, PlatformsEnd, CheckEnds,
                        CheckManifest, StartPart, FinishPart, PartsEnd, vars, StartCheck, Goes
    <3>2. skipped = {} /\ left = {} /\ entry = None /\ corrupt' = corrupt /\ (pc' = "passed" => corrupt = {})
      BY <1>5, <3>1 DEF WalkEnds, Typed, AtInv
    <3> QED
      BY <3>2, CheckAssumption DEF DamageReported
  <2> QED
    BY <2>1, <2>2
<1> QED
  BY <1>2, <1>4, <1>5 DEF DamageReported

-----------------------------------------------------------------------------
LEMMA InvariantHolds == Spec => []Invariant
<1>1. Init => Invariant
  <2> SUFFICES ASSUME Init PROVE Invariant
    OBVIOUS
  <2>1. CheckInv /\ CoverInv /\ DamageReported
    BY CheckAssumption DEF Init, CheckInv, CoverInv, DamageReported, Checking
  <2> QED
    BY <2>1, TypedInit DEF Invariant
<1>2. Invariant /\ [Next]_vars => Invariant'
  BY TypedStep, CheckStep, CoverStep, ReportStep DEF Invariant
<1> QED
  BY <1>1, <1>2, PTL DEF Spec

(* Every variable has its type, in every store: what is left to visit are  *)
(* digests, and the memo has a status for each.                            *)
THEOREM TypeCorrect == Spec => []TypeOK
BY InvariantHolds, PTL DEF Invariant, Typed

(* The memo does its work: however many manifests and goroutines ask for   *)
(* a blob, one of them reads it.                                           *)
THEOREM BlobsAreReadOnce == Spec => []ReadOnce
<1>1. Invariant => ReadOnce
  BY DEF Invariant, Typed, MemoInv, ReadOnce
<1> QED
  BY <1>1, InvariantHolds, PTL

(* No damage goes unreported: an artifact that the check left behind is in *)
(* the report, or was skipped and makes the command fail, or it, all it    *)
(* names and all that those name is in the store with the right bytes; a   *)
(* report is complete, and a store that passes is whole.                   *)
THEOREM DamageIsReported == Spec => []DamageReported
BY InvariantHolds, PTL DEF Invariant
=============================================================================
