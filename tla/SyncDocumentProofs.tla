------------------------- MODULE SyncDocumentProofs -------------------------
(***************************************************************************)
(* What holds of a sync for every manifest, any number of images, files    *)
(* and goroutines, and whatever the registry and the sources answer.       *)
(*                                                                         *)
(* PullInv ties where the goroutine of an image is to what it knows, the   *)
(* Cache of Verifiers, and the group's error; StoreInv where that of a     *)
(* file is to the LayerCache, the flights, and the store; WalkInv what the *)
(* charts of a level are to what was seen, fetched and found.  PromiseInv  *)
(* is about the index: what the entry of an image is while its goroutine   *)
(* goes on, and when other jobs reload and rename.                         *)
(***************************************************************************)
EXTENDS SyncDocument, SequenceTheorems, FiniteSetTheorems, TLAPS

-----------------------------------------------------------------------------
(* The images                                                              *)

(* A goroutine's state: the digests are those the registry may name.       *)
Named == Digest \cup {None} \cup UNION {Names[jobs[j].ref] : j \in DOMAIN jobs}
JobState == [at : Places, left : Nat, pinned : Digest \cup {None}, waived : {None, "error"},
             err : Errors \cup {None}, dig : Named]
Verifiers == [is : {"none", "ready", "error", "canceled"}, doc : Nat]

(* Only the images of a manifest are verified.                             *)
Verifiable(js) ==
  \A j \in DOMAIN js : js[j].cfg # None => js[j] \in ImageJob /\ j \in Nat

(* A Verifier in the Cache is of this document, was set up once, and was   *)
(* cut short only by the error the document fails with.                    *)
CacheInv ==
  \A c \in Config :
    /\ builds[c] = IF verifier[c].is = "none" THEN 0 ELSE 1
    /\ verifier[c].is # "none" => verifier[c].doc = doc
    /\ verifier[c].is = "canceled" => runErr # None

(* What a job with a Config has shown when it goes on to the registry.     *)
Checked(c, s) ==
  \/ s.pinned # None /\ Good(c, s.pinned)
  \/ ignoreErrors /\ s.waived = "error"

NoTag(c, d) == Classic[c, d] = "absent"

(* What a goroutine knows where it is.                                     *)
Knows(j, s) ==
  LET c == jobs[j].cfg IN
  /\ s.at \in {"pin", "get", "setup", "classic", "bundle"} => c # None
  /\ s.at \in {"get", "setup", "classic", "bundle"} => s.pinned # None
  /\ s.at = "setup" => lock = j /\ verifier[c].is = "none"
  /\ s.at = "classic" => verifier[c].is = "ready"
  /\ s.at = "bundle" => NoTag(c, s.pinned)
  /\ s.at \in {"store", "fetch"} /\ c # None => Checked(c, s)
  /\ s.at \notin {"rewrite", "ok", "skipped", "failed"} => s.dig = None
  /\ s.dig # None /\ c # None => Checked(c, s) /\ s.pinned \in {None, s.dig}

PullTyped ==
  /\ ignoreErrors \in BOOLEAN /\ doc \in Nat
  /\ st \in [DOMAIN jobs -> JobState]
  /\ Verifiable(jobs)
  /\ verifier \in [Config -> Verifiers]
  /\ builds \in [Config -> Nat]
  /\ runErr \in Errors \cup {None}
PullInv == PullTyped /\ CacheInv /\ RunErrIsReal /\ \A j \in DOMAIN st : Knows(j, st[j])

-----------------------------------------------------------------------------
(* The files                                                               *)

FileState == [at : FilePlaces \cup FileOver, left : Nat, blob : Bytes \cup {Nothing},
              err : {"error", "canceled", Nothing}]
EntryOf == [blob : Bytes \cup {Nothing}, source : Path \cup {Nothing}]

FilesTyped ==
  /\ files \in Seq(FileJob)
  /\ ft \in [DOMAIN files -> FileState]
  /\ fileErr \in {"error", "canceled", Nothing}
  /\ cache \in [Path -> Bytes \cup {Nothing}]
  /\ flight \in [Path -> Nat \cup {Nothing}]
  /\ hashed \in [Path -> Nat]
  /\ blobs \subseteq Bytes
  /\ named \in [FileName -> EntryOf]

(* A path is hashed when its layer is cached, not before; while a flight   *)
(* for it is under way it is not.                                          *)
LayerInv ==
  \A p \in Path :
    /\ hashed[p] = IF cache[p] = Nothing THEN 0 ELSE 1
    /\ cache[p] # Nothing => cache[p] \in Holds[p]
    /\ flight[p] # Nothing => cache[p] = Nothing

(* What the goroutine of a file has where it is.                           *)
Carries(j, f, there) ==
  LET p == files[j].path IN
  /\ f.blob # Nothing => f.blob = cache[p]
  /\ f.at = "fetch" => flight[p] = j
  /\ f.at \in {"queued", "lookup", "fly", "wait", "told", "fetch"} => f.blob = Nothing
  /\ f.at \in {"write", "index", "source", "stored"} => f.blob # Nothing
  /\ f.at \in {"index", "source", "stored"} => f.blob \in there
  /\ f.at \in (FilePlaces \ {"queued"}) \cup {"stored"} => files[j].name # Nothing

StoreInv == FilesTyped /\ LayerInv /\ FilesAreTheirSource /\ \A j \in DOMAIN ft : Carries(j, ft[j], blobs)

-----------------------------------------------------------------------------
(* How the goroutine of an image goes on                                   *)

(* One that fails has an error, and only --ignore-errors skips.            *)
Reports(r) ==
  /\ r.at = "failed" => r.err # None
  /\ r.at = "skipped" => ignoreErrors

(* It ends, for a cancellation only if there was an error before.          *)
Ended(s, r) ==
  /\ r.at \in {"skipped", "failed"}
  /\ r.pinned = s.pinned /\ r.waived = s.waived /\ r.dig = s.dig
  /\ r.at = "failed" /\ r.err = "canceled" => Canceled
  /\ Reports(r)

(* Its verification failed, and it goes on to the registry.                *)
Waived(s, r) ==
  /\ r.at = "store" /\ ignoreErrors /\ r.waived = "error"
  /\ r.pinned = s.pinned /\ r.dig = s.dig

(* What a step may make of it.                                             *)
Moved(j, r) ==
  /\ r \in JobState
  /\ r.at = "failed" /\ r.err = "canceled" => Canceled
  /\ Reports(r)
  /\ Canceled /\ st[j].at \notin {"fetch", "rewrite"} => r.at \notin {"fetch", "rewrite", "ok"}

LEMMA UnverifiedGives ==
  ASSUME PullTyped, NEW s \in JobState, NEW e \in {"error", "canceled"}, e = "canceled" => Canceled
  PROVE  /\ Unverified(s, e) \in JobState
         /\ Ended(s, Unverified(s, e)) \/ Waived(s, Unverified(s, e))
<1>1. CASE e = "canceled" \/ ~ignoreErrors
  BY <1>1, ImageAssumption DEF Unverified, JobState, Ended, Places, Errors, Reports
<1>2. CASE ~(e = "canceled" \/ ~ignoreErrors)
  BY <1>2 DEF Unverified, JobState, PullTyped, Places, Waived
<1> QED
  BY <1>1, <1>2

LEMMA AttemptGives ==
  ASSUME PullTyped, NEW s \in JobState, NEW place \in Places
  PROVE  /\ Attempt(s, place) \in JobState
         /\ \/ Ended(s, Attempt(s, place))
            \/ /\ ~Canceled /\ Attempt(s, place).at = place
               /\ Attempt(s, place).pinned = s.pinned /\ Attempt(s, place).waived = s.waived
               /\ Attempt(s, place).dig = s.dig
<1>1. CASE Canceled
  <2>1. Attempt(s, place) = [s EXCEPT !.at = "failed", !.err = "canceled"]
    BY <1>1 DEF Attempt, Unverified
  <2>2. Attempt(s, place) \in JobState
    BY <2>1 DEF JobState, Places, Errors
  <2>3. Ended(s, Attempt(s, place))
    BY <1>1, <2>1, ImageAssumption DEF Ended, Reports, JobState, Errors
  <2> QED
    BY <2>2, <2>3
<1>2. CASE ~Canceled
  BY <1>2, ImageAssumption DEF Attempt, JobState
<1> QED
  BY <1>1, <1>2

(* A failed attempt is followed by another, by the end, or, when it was    *)
(* one to verify, by the registry.                                         *)
LEMMA FailsGives ==
  ASSUME PullTyped, NEW s \in JobState, NEW r \in Fails(s)
  PROVE  /\ r \in JobState
         /\ \/ Ended(s, r)
            \/ s.at # "fetch" /\ Waived(s, r)
            \/ /\ ~Canceled /\ r.at = s.at /\ r.pinned = s.pinned /\ r.waived = s.waived
               /\ r.dig = s.dig
<1>1. ASSUME NEW e \in {"error", "canceled"}, e = "canceled" => Canceled
      PROVE  /\ GivesUp(s, e) \in JobState
             /\ Ended(s, GivesUp(s, e)) \/ (s.at # "fetch" /\ Waived(s, GivesUp(s, e)))
  <2>1. CASE s.at = "fetch"
    BY <1>1, <2>1, ImageAssumption DEF GivesUp, Unstored, JobState, Ended, Places, Errors, Reports
  <2>2. CASE s.at # "fetch"
    BY <1>1, <2>2, UnverifiedGives DEF GivesUp
  <2> QED
    BY <2>1, <2>2
<1>2. CASE ~Canceled /\ s.left > 1
  <2>1. r = [s EXCEPT !.left = s.left - 1]
    BY <1>2 DEF Fails
  <2>2. s.left - 1 \in Nat
    BY <1>2 DEF JobState
  <2> QED
    BY <1>2, <2>1, <2>2 DEF JobState
<1>3. CASE ~(~Canceled /\ s.left > 1)
  <2>1. \E e \in {"error", "canceled"} : (e = "canceled" => Canceled) /\ r = GivesUp(s, e)
    BY <1>3 DEF Fails
  <2> QED
    BY <1>1, <2>1
<1> QED
  BY <1>2, <1>3

LEMMA JobTypes ==
  ASSUME PullInv, NEW j \in DOMAIN st
  PROVE  /\ st[j] \in JobState /\ Knows(j, st[j]) /\ j \in DOMAIN jobs
         /\ jobs[j].cfg # None => /\ jobs[j].cfg \in Config /\ jobs[j].ref \in Ref
                                  /\ Names[jobs[j].ref] \subseteq Digest
                                  /\ j # None
BY ImageAssumption DEF PullInv, PullTyped, Verifiable, ImageJob

(* A goroutine that ends, or goes on unverified, knows what it has to.     *)
LEMMA EndedKnows ==
  ASSUME PullInv, NEW j \in DOMAIN st, st[j].at \notin {"rewrite", "ok", "skipped", "failed"},
         NEW r \in JobState, Ended(st[j], r) \/ Waived(st[j], r)
  PROVE  Knows(j, r) /\ Moved(j, r)
<1>1. Knows(j, st[j]) /\ st[j] \in JobState
  BY JobTypes
<1>2. CASE Ended(st[j], r)
  BY <1>1, <1>2 DEF Ended, Knows, Moved, Checked, Reports
<1>3. CASE Waived(st[j], r)
  BY <1>1, <1>3 DEF Waived, Knows, Moved, Checked, Reports
<1> QED
  BY <1>2, <1>3

(* A step of one goroutine.                                                *)
LEMMA GoesFrame ==
  ASSUME PullInv, NEW j \in DOMAIN st, NEW r, Goes(j, r), Moved(j, r),
         UNCHANGED <<ignoreErrors, doc, jobs>>
  PROVE  /\ st' \in [DOMAIN jobs -> JobState] /\ JobState' = JobState /\ Verifiable(jobs)'
         /\ DOMAIN st' = DOMAIN st
         /\ \A i \in DOMAIN st : st'[i] = IF i = j THEN r ELSE st[i]
         /\ runErr' \in Errors \cup {None} /\ RunErrIsReal'
         /\ runErr # None => runErr' # None
<1>1. st' = [st EXCEPT ![j] = r] /\ runErr' = IF r.at = "failed" /\ runErr = None THEN r.err ELSE runErr
  BY DEF Goes
<1>2. st' \in [DOMAIN jobs -> JobState] /\ DOMAIN st = DOMAIN jobs
  BY <1>1 DEF PullInv, PullTyped, Moved
<1>3. r.err \in Errors \cup {None}
  BY DEF Moved, JobState
<1>4. runErr' \in Errors \cup {None}
  BY <1>1, <1>3 DEF PullInv, PullTyped
<1>5. JobState' = JobState /\ Verifiable(jobs)'
  BY DEF JobState, Named, Verifiable, PullInv, PullTyped
<1>6. RunErrIsReal' /\ (runErr # None => runErr' # None)
  BY <1>1 DEF PullInv, RunErrIsReal, Moved, Canceled
<1> QED
  BY <1>1, <1>2, <1>4, <1>5, <1>6 DEF PullInv, PullTyped

(* One that leaves the Cache alone.                                        *)
LEMMA GoesKeeps ==
  ASSUME PullInv, NEW j \in DOMAIN st, NEW r, Goes(j, r), Moved(j, r), Knows(j, r),
         UNCHANGED <<ignoreErrors, doc, jobs, verifier, lock, builds>>
  PROVE  PullInv'
<1>1. PullTyped'
  BY GoesFrame DEF PullInv, PullTyped
<1>2. CacheInv'
  BY GoesFrame DEF PullInv, CacheInv
<1>3. ASSUME NEW i \in DOMAIN st PROVE Knows(i, st[i])'
  <2>1. st'[i] = IF i = j THEN r ELSE st[i]
    BY GoesFrame
  <2>2. Knows(i, IF i = j THEN r ELSE st[i])
    BY <1>3 DEF PullInv
  <2> QED
    BY <2>1, <2>2 DEF Knows, Checked
<1> QED
  BY <1>1, <1>2, <1>3, GoesFrame DEF PullInv

LEMMA GoMoves ==
  ASSUME PullInv, NEW j \in DOMAIN st, Go(j)
  PROVE  \E r : Goes(j, r) /\ Moved(j, r) /\ Knows(j, r)
<1> DEFINE q == IF jobs[j].cfg = None THEN [Queued EXCEPT !.at = "store"] ELSE Attempt(Queued, "pin")
<1>1. Goes(j, q) /\ st[j].at = "queued"
  BY DEF Go, At
<1>2. Queued \in JobState /\ Queued.dig = None /\ Queued.at = "queued"
  BY DEF Queued, JobState, Named, Places
<1>3. CASE jobs[j].cfg = None
  <2>1. q \in JobState /\ q.at = "store" /\ q.dig = None
    BY <1>2, <1>3 DEF JobState, Places, Queued
  <2> QED
    BY <1>1, <1>3, <2>1 DEF Moved, Knows, Reports
<1>4. CASE jobs[j].cfg # None
  <2>1. PullTyped /\ q = Attempt(Queued, "pin") /\ "pin" \in Places
    BY <1>4 DEF PullInv, Places
  <2> HIDE DEF q
  <2>2. /\ q \in JobState
        /\ \/ Ended(Queued, q)
           \/ ~Canceled /\ q.at = "pin" /\ q.pinned = Queued.pinned /\ q.waived = Queued.waived /\ q.dig = Queued.dig
    BY <1>2, <2>1, AttemptGives
  <2>3. q.dig = None /\ q.at \in {"skipped", "failed", "pin"}
        /\ (q.at = "failed" /\ q.err = "canceled" => Canceled) /\ Reports(q)
    BY <1>2, <2>2 DEF Ended, Reports
  <2>4. Moved(j, q)
    BY <1>1, <2>2, <2>3 DEF Moved
  <2>5. Knows(j, q)
    BY <1>4, <2>3 DEF Knows
  <2> QED
    BY <1>1, <2>4, <2>5
<1> QED
  BY <1>3, <1>4

(* An attempt that fails, where it may.                                    *)
LEMMA FailedKnows ==
  ASSUME PullInv, NEW j \in DOMAIN st, st[j].at \notin {"rewrite", "ok", "skipped", "failed"},
         NEW r \in Fails(st[j])
  PROVE  Moved(j, r) /\ Knows(j, r)
<1>1. st[j] \in JobState /\ Knows(j, st[j]) /\ PullTyped
  BY JobTypes DEF PullInv
<1>2. /\ r \in JobState
      /\ \/ Ended(st[j], r) \/ Waived(st[j], r)
         \/ /\ ~Canceled /\ r.at = st[j].at /\ r.pinned = st[j].pinned
            /\ r.waived = st[j].waived /\ r.dig = st[j].dig
  BY <1>1, FailsGives
<1>3. CASE ~Canceled /\ r.at = st[j].at /\ r.pinned = st[j].pinned
            /\ r.waived = st[j].waived /\ r.dig = st[j].dig
  BY <1>1, <1>2, <1>3 DEF Moved, Knows, Checked, Reports
<1> QED
  BY <1>2, <1>3, EndedKnows

LEMMA PinDigestMoves ==
  ASSUME PullInv, NEW j \in DOMAIN st, PinDigest(j)
  PROVE  \E r : Goes(j, r) /\ Moved(j, r) /\ Knows(j, r)
<1>1. st[j] \in JobState /\ Knows(j, st[j]) /\ st[j].at = "pin" /\ jobs[j].cfg # None
  BY JobTypes DEF PinDigest, At, Knows
<1>2. ASSUME NEW d \in Names[jobs[j].ref], Goes(j, [st[j] EXCEPT !.at = "get", !.pinned = d])
      PROVE  \E r : Goes(j, r) /\ Moved(j, r) /\ Knows(j, r)
  <2> DEFINE r == [st[j] EXCEPT !.at = "get", !.pinned = d]
  <2>1. d \in Digest /\ d # None
    BY <1>1, JobTypes, ImageAssumption
  <2>2. r \in JobState /\ r.at = "get" /\ r.pinned = d /\ r.dig = st[j].dig /\ r.waived = st[j].waived
    BY <1>1, <2>1 DEF JobState, Places
  <2>3. st[j].dig = None
    BY <1>1 DEF Knows, Checked
  <2>4. Goes(j, r)
    BY <1>2
  <2> HIDE DEF r
  <2> QED
    BY <1>1, <2>1, <2>2, <2>3, <2>4 DEF Moved, Knows, Reports
<1>3. ASSUME NEW r \in Fails(st[j]), Goes(j, r)
      PROVE  Moved(j, r) /\ Knows(j, r)
  BY <1>1, <1>3, FailedKnows
<1> QED
  BY <1>2, <1>3 DEF PinDigest

(* Verify: what the answers of the registry say of the pinned digest.      *)
LEMMA VerifyImageMoves ==
  ASSUME PullInv, NEW j \in DOMAIN st, VerifyImage(j)
  PROVE  \E r : Goes(j, r) /\ Moved(j, r) /\ Knows(j, r)
<1> DEFINE c == jobs[j].cfg  d == st[j].pinned
<1>1. /\ st[j] \in JobState /\ Knows(j, st[j]) /\ st[j].at = "classic" /\ PullTyped
      /\ c # None /\ c \in Config /\ d # None /\ st[j].dig = None
  BY JobTypes DEF VerifyImage, At, Knows, PullInv
<1>2. ~Stale(j)
  BY <1>1 DEF Stale, PullInv, CacheInv, Knows
<1>3. ASSUME NEW e \in {"error"}, Goes(j, Unverified(st[j], e))
      PROVE  \E r : Goes(j, r) /\ Moved(j, r) /\ Knows(j, r)
  BY <1>1, <1>3, UnverifiedGives, EndedKnows
<1>4. ASSUME Classic[c, d] = "good", Goes(j, [st[j] EXCEPT !.at = "store"])
      PROVE  \E r : Goes(j, r) /\ Moved(j, r) /\ Knows(j, r)
  <2> DEFINE r == [st[j] EXCEPT !.at = "store"]
  <2>1. Good(c, d)
    BY <1>4 DEF Good
  <2>2. r \in JobState /\ r.at = "store" /\ r.pinned = d /\ r.dig = None
    BY <1>1 DEF JobState, Places
  <2>3. Goes(j, r)
    BY <1>4
  <2> HIDE DEF r
  <2>4. Checked(c, r)
    BY <1>1, <2>1, <2>2 DEF Checked
  <2> QED
    BY <1>1, <2>2, <2>3, <2>4 DEF Moved, Knows, Reports
<1>5. ASSUME Classic[c, d] \notin {"good", "bad"}, Goes(j, Attempt(st[j], "bundle"))
      PROVE  \E r : Goes(j, r) /\ Moved(j, r) /\ Knows(j, r)
  <2> DEFINE r == Attempt(st[j], "bundle")
  <2>1. NoTag(c, d)
    <3>1. <<c, d>> \in Config \X Digest
      BY <1>1 DEF JobState
    <3>2. Classic[<<c, d>>] \in {"good", "bad", "absent"}
      BY <3>1, ImageAssumption
    <3> QED
      BY <1>5, <3>2 DEF NoTag
  <2>2. "bundle" \in Places
    BY DEF Places
  <2>3. Goes(j, r)
    BY <1>5
  <2>4. /\ r \in JobState
        /\ \/ Ended(st[j], r)
           \/ ~Canceled /\ r.at = "bundle" /\ r.pinned = d /\ r.dig = st[j].dig
    BY <1>1, <2>2, AttemptGives
  <2> HIDE DEF r
  <2>5. CASE Ended(st[j], r)
    BY <1>1, <2>3, <2>4, <2>5, EndedKnows
  <2>6. CASE ~Canceled /\ r.at = "bundle" /\ r.pinned = d /\ r.dig = st[j].dig
    BY <1>1, <2>1, <2>3, <2>4, <2>6 DEF Moved, Knows, Reports
  <2> QED
    BY <2>4, <2>5, <2>6
<1>6. ASSUME NEW r \in Fails(st[j]), Goes(j, r)
      PROVE  Moved(j, r) /\ Knows(j, r)
  BY <1>1, <1>6, FailedKnows
<1>7. \/ Classic[c, d] = "good" /\ Goes(j, [st[j] EXCEPT !.at = "store"])
      \/ Goes(j, Unverified(st[j], "error"))
      \/ Classic[c, d] \notin {"good", "bad"} /\ Goes(j, Attempt(st[j], "bundle"))
      \/ \E r \in Fails(st[j]) : Goes(j, r)
  BY <1>2 DEF VerifyImage
<1> QED
  BY <1>3, <1>4, <1>5, <1>6, <1>7

LEMMA VerifyBundleMoves ==
  ASSUME PullInv, NEW j \in DOMAIN st, VerifyBundle(j)
  PROVE  \E r : Goes(j, r) /\ Moved(j, r) /\ Knows(j, r)
<1> DEFINE c == jobs[j].cfg  d == st[j].pinned
<1>1. /\ st[j] \in JobState /\ Knows(j, st[j]) /\ st[j].at = "bundle" /\ PullTyped
      /\ c # None /\ d # None /\ st[j].dig = None /\ NoTag(c, d)
  BY JobTypes DEF VerifyBundle, At, Knows, PullInv
<1>2. ASSUME Bundle[c, d], Goes(j, [st[j] EXCEPT !.at = "store"])
      PROVE  \E r : Goes(j, r) /\ Moved(j, r) /\ Knows(j, r)
  <2> DEFINE r == [st[j] EXCEPT !.at = "store"]
  <2>1. Good(c, d)
    BY <1>1, <1>2 DEF Good, NoTag
  <2>2. r \in JobState /\ r.at = "store" /\ r.pinned = d /\ r.dig = None
    BY <1>1 DEF JobState, Places
  <2>3. Goes(j, r)
    BY <1>2
  <2> HIDE DEF r
  <2>4. Checked(c, r)
    BY <1>1, <2>1, <2>2 DEF Checked
  <2> QED
    BY <1>1, <2>2, <2>3, <2>4 DEF Moved, Knows, Reports
<1>3. ASSUME Goes(j, Unverified(st[j], "error"))
      PROVE  \E r : Goes(j, r) /\ Moved(j, r) /\ Knows(j, r)
  BY <1>1, <1>3, UnverifiedGives, EndedKnows
<1>4. ASSUME NEW r \in Fails(st[j]), Goes(j, r)
      PROVE  Moved(j, r) /\ Knows(j, r)
  BY <1>1, <1>4, FailedKnows
<1> QED
  BY <1>2, <1>3, <1>4 DEF VerifyBundle
LEMMA StoreImageMoves ==
  ASSUME PullInv, NEW j \in DOMAIN st, StoreImage(j)
  PROVE  \E r : Goes(j, r) /\ Moved(j, r) /\ Knows(j, r)
<1> DEFINE r == IF Canceled THEN [st[j] EXCEPT !.at = "failed", !.err = "canceled"]
                            ELSE [st[j] EXCEPT !.at = "fetch", !.left = Retries]
<1>1. /\ st[j] \in JobState /\ Knows(j, st[j]) /\ st[j].at = "store" /\ st[j].dig = None
      /\ Goes(j, r)
  BY JobTypes DEF StoreImage, At, Knows
<1>2. /\ r \in JobState /\ r.dig = None /\ r.pinned = st[j].pinned /\ r.waived = st[j].waived
      /\ IF Canceled THEN r.at = "failed" /\ r.err = "canceled" ELSE r.at = "fetch"
  BY <1>1, ImageAssumption DEF JobState, Places, Errors
<1> HIDE DEF r
<1>3. Knows(j, r)
  BY <1>1, <1>2 DEF Knows, Checked
<1> QED
  BY <1>1, <1>2, <1>3, ImageAssumption DEF Moved, Reports, Errors

(* AddImage: the digest stored is the one that was pinned, if one was.     *)
LEMMA AddImageMoves ==
  ASSUME PullInv, NEW j \in DOMAIN st, AddImage(j)
  PROVE  \E r : Goes(j, r) /\ Moved(j, r) /\ Knows(j, r)
<1>1. /\ st[j] \in JobState /\ Knows(j, st[j]) /\ st[j].at = "fetch" /\ st[j].dig = None
      /\ st[j].pinned \in Digest \cup {None} /\ j \in DOMAIN jobs
  BY JobTypes DEF AddImage, At, Knows, JobState
<1>2. ASSUME NEW d \in IF st[j].pinned = None THEN Names[jobs[j].ref] ELSE {st[j].pinned},
             Goes(j, [st[j] EXCEPT !.at = IF jobs[j].rewrite = None THEN "ok" ELSE "rewrite",
                                   !.dig = d])
      PROVE  \E r : Goes(j, r) /\ Moved(j, r) /\ Knows(j, r)
  <2> DEFINE r == [st[j] EXCEPT !.at = IF jobs[j].rewrite = None THEN "ok" ELSE "rewrite", !.dig = d]
  <2>1. d \in Named
    BY <1>1 DEF Named
  <2>2. /\ r \in JobState /\ r.at \in {"ok", "rewrite"} /\ r.dig = d
        /\ r.pinned = st[j].pinned /\ r.waived = st[j].waived
    BY <1>1, <2>1 DEF JobState, Places
  <2>3. Goes(j, r)
    BY <1>2
  <2> HIDE DEF r
  <2>4. Knows(j, r)
    BY <1>1, <2>2 DEF Knows, Checked
  <2> QED
    BY <1>1, <2>2, <2>3, <2>4 DEF Moved, Reports
<1>3. ASSUME NEW r \in Fails(st[j]), Goes(j, r)
      PROVE  Moved(j, r) /\ Knows(j, r)
  BY <1>1, <1>3, FailedKnows
<1>4. \/ \E d \in IF st[j].pinned = None THEN Names[jobs[j].ref] ELSE {st[j].pinned} :
           Goes(j, [st[j] EXCEPT !.at = IF jobs[j].rewrite = None THEN "ok" ELSE "rewrite",
                                 !.dig = d])
      \/ \E r \in Fails(st[j]) : Goes(j, r)
  BY DEF AddImage
<1> QED
  BY <1>2, <1>3, <1>4

LEMMA RewriteReferenceMoves ==
  ASSUME PullInv, NEW j \in DOMAIN st, RewriteReference(j)
  PROVE  \E r : Goes(j, r) /\ Moved(j, r) /\ Knows(j, r)
<1> DEFINE f == [st[j] EXCEPT !.at = "failed", !.err = "rewrite"]
           k == [st[j] EXCEPT !.at = "ok"]
<1>1. /\ st[j] \in JobState /\ Knows(j, st[j]) /\ st[j].at = "rewrite"
      /\ Goes(j, f) \/ Goes(j, k)
  BY JobTypes DEF RewriteReference, At, Knows
<1>2. /\ f \in JobState /\ f.at = "failed" /\ f.err = "rewrite"
      /\ f.dig = st[j].dig /\ f.pinned = st[j].pinned /\ f.waived = st[j].waived
      /\ k \in JobState /\ k.at = "ok"
      /\ k.dig = st[j].dig /\ k.pinned = st[j].pinned /\ k.waived = st[j].waived
  BY <1>1 DEF JobState, Places, Errors
<1> HIDE DEF f, k
<1>3. Knows(j, f) /\ Knows(j, k)
  BY <1>1, <1>2 DEF Knows, Checked
<1>4. Moved(j, f) /\ Moved(j, k)
  BY <1>1, <1>2, ImageAssumption DEF Moved, Reports, Errors
<1> QED
  BY <1>1, <1>3, <1>4

(* Cache.Get: the Verifier there is, or the lock to build it.              *)
LEMMA GetKeeps ==
  ASSUME PullInv, NEW j \in DOMAIN st, Get(j)
  PROVE  PullInv' /\ \E r : Goes(j, r) /\ Moved(j, r)
<1> DEFINE c == jobs[j].cfg  v == verifier[c]
<1>1. /\ st[j] \in JobState /\ Knows(j, st[j]) /\ st[j].at = "get" /\ PullTyped /\ j # None
      /\ c # None /\ c \in Config /\ st[j].pinned # None /\ st[j].dig = None /\ lock = None
      /\ UNCHANGED <<ignoreErrors, doc, jobs, verifier, builds>>
  BY JobTypes DEF Get, At, Knows, PullInv
<1>2. v.is \in {"none", "ready", "error", "canceled"} /\ (v.is = "canceled" => Canceled)
  BY <1>1 DEF PullInv, PullTyped, Verifiers, CacheInv, Canceled
<1>3. CASE v.is = "none"
  <2> DEFINE r == [st[j] EXCEPT !.at = "setup"]
  <2>1. Goes(j, r) /\ lock' = j
    BY <1>3 DEF Get
  <2>2. r \in JobState /\ r.at = "setup" /\ r.pinned = st[j].pinned /\ r.dig = None
    BY <1>1 DEF JobState, Places
  <2> HIDE DEF r
  <2>3. Moved(j, r)
    BY <2>2 DEF Moved, Reports
  <2>4. PullTyped' /\ CacheInv'
    BY <1>1, <2>1, <2>3, GoesFrame DEF PullInv, PullTyped, CacheInv
  <2>5. ASSUME NEW i \in DOMAIN st PROVE Knows(i, st[i])'
    <3>1. st'[i] = IF i = j THEN r ELSE st[i]
      BY <1>1, <2>1, <2>3, GoesFrame
    <3>2. CASE i = j
      BY <1>1, <1>3, <2>1, <2>2, <3>1, <3>2 DEF Knows
    <3>3. CASE i # j
      <4>1. Knows(i, st[i]) /\ st[i].at # "setup"
        BY <1>1, <2>5, JobTypes DEF Knows
      <4> QED
        BY <1>1, <3>1, <3>3, <4>1 DEF Knows, Checked
    <3> QED
      BY <3>2, <3>3
  <2> QED
    BY <1>1, <2>1, <2>3, <2>4, <2>5, GoesFrame DEF PullInv
<1>4. CASE v.is = "ready"
  <2> DEFINE r == Attempt(st[j], "classic")
  <2>1. Goes(j, r) /\ UNCHANGED lock /\ "classic" \in Places
    BY <1>1, <1>4 DEF Get, Places
  <2>2. /\ r \in JobState
        /\ \/ Ended(st[j], r)
           \/ ~Canceled /\ r.at = "classic" /\ r.pinned = st[j].pinned /\ r.dig = st[j].dig
    BY <1>1, <2>1, AttemptGives
  <2> HIDE DEF r
  <2>3. Moved(j, r) /\ Knows(j, r)
    <3>1. CASE Ended(st[j], r)
      BY <1>1, <2>2, <3>1, EndedKnows
    <3>2. CASE ~Canceled /\ r.at = "classic" /\ r.pinned = st[j].pinned /\ r.dig = st[j].dig
      BY <1>1, <1>4, <2>2, <3>2 DEF Moved, Knows, Reports
    <3> QED
      BY <2>2, <3>1, <3>2
  <2> QED
    BY <1>1, <2>1, <2>3, GoesKeeps
<1>5. CASE v.is \in {"error", "canceled"}
  <2> DEFINE r == Unverified(st[j], v.is)
  <2>1. Goes(j, r) /\ UNCHANGED lock
    BY <1>1, <1>5 DEF Get
  <2>2. r \in JobState /\ (Ended(st[j], r) \/ Waived(st[j], r))
    BY <1>1, <1>2, <1>5, UnverifiedGives
  <2> HIDE DEF r
  <2>3. Moved(j, r) /\ Knows(j, r)
    BY <1>1, <2>2, EndedKnows
  <2> QED
    BY <1>1, <2>1, <2>3, GoesKeeps
<1> QED
  BY <1>2, <1>3, <1>4, <1>5

(* The Verifier of a Config is built, or is not, for good.                 *)
LEMMA NewVerifierKeeps ==
  ASSUME PullInv, NEW j \in DOMAIN st, NewVerifier(j)
  PROVE  PullInv' /\ \E r : Goes(j, r) /\ Moved(j, r)
<1> DEFINE c == jobs[j].cfg
<1>1. /\ st[j] \in JobState /\ Knows(j, st[j]) /\ st[j].at = "setup" /\ PullTyped /\ j # None
      /\ c # None /\ c \in Config /\ st[j].pinned # None /\ st[j].dig = None /\ lock = j
      /\ verifier[c].is = "none"
      /\ UNCHANGED <<ignoreErrors, doc, jobs>> /\ lock' = None
      /\ builds' = [builds EXCEPT ![c] = @ + 1]
  BY JobTypes DEF NewVerifier, At, Knows, PullInv
<1>2. PICK is \in {"ready", "error"} \cup (IF Canceled THEN {"canceled"} ELSE {}) :
        /\ verifier' = [verifier EXCEPT ![c] = [is |-> is, doc |-> doc]]
        /\ Goes(j, IF is = "ready" THEN Attempt(st[j], "classic") ELSE Unverified(st[j], is))
  BY DEF NewVerifier
<1> DEFINE r == IF is = "ready" THEN Attempt(st[j], "classic") ELSE Unverified(st[j], is)
<1>3. Goes(j, r) /\ "classic" \in Places
  BY <1>2 DEF Places
<1>4. /\ r \in JobState
      /\ \/ Ended(st[j], r) \/ Waived(st[j], r)
         \/ ~Canceled /\ is = "ready" /\ r.at = "classic" /\ r.pinned = st[j].pinned /\ r.dig = st[j].dig
  <2>1. CASE is = "ready"
    BY <1>1, <1>3, <2>1, AttemptGives
  <2>2. CASE is # "ready"
    <3>1. is \in {"error", "canceled"} /\ (is = "canceled" => Canceled)
      BY <1>2, <2>2
    <3> QED
      BY <1>1, <2>2, <3>1, UnverifiedGives
  <2> QED
    BY <2>1, <2>2
<1> HIDE DEF r
<1>5. Moved(j, r)
  <2>1. CASE Ended(st[j], r) \/ Waived(st[j], r)
    BY <1>1, <1>4, <2>1, EndedKnows
  <2> QED
    BY <1>4, <2>1 DEF Moved, Reports
<1>6. /\ verifier' \in [Config -> Verifiers] /\ builds' \in [Config -> Nat]
      /\ verifier'[c].is = is /\ verifier'[c].doc = doc /\ builds'[c] = 1
      /\ \A d \in Config \ {c} : verifier'[d] = verifier[d] /\ builds'[d] = builds[d]
  <2>1. builds[c] = 0
    BY <1>1 DEF PullInv, CacheInv
  <2>2. [is |-> is, doc |-> doc] \in Verifiers
    BY <1>1, <1>2 DEF Verifiers, PullTyped
  <2> QED
    BY <1>1, <1>2, <2>1, <2>2 DEF PullTyped
<1>7. PullTyped'
  BY <1>1, <1>3, <1>5, <1>6, GoesFrame DEF PullTyped
<1>8. CacheInv'
  <2>1. is # "none" /\ (is = "canceled" => runErr' # None)
    BY <1>1, <1>2, <1>3, <1>5, GoesFrame DEF Canceled
  <2> QED
    BY <1>1, <1>3, <1>5, <1>6, <2>1, GoesFrame DEF PullInv, CacheInv
<1>9. ASSUME NEW i \in DOMAIN st PROVE Knows(i, st[i])'
  <2>1. st'[i] = IF i = j THEN r ELSE st[i]
    BY <1>1, <1>3, <1>5, GoesFrame
  <2>2. CASE i = j
    <3>1. CASE Ended(st[j], r) \/ Waived(st[j], r)
      <4>1. Knows(j, r) /\ r.at \in {"skipped", "failed", "store"}
        BY <1>1, <1>4, <3>1, EndedKnows DEF Ended, Waived
      <4> QED
        BY <1>1, <2>1, <2>2, <4>1 DEF Knows, Checked
    <3>2. CASE ~Canceled /\ is = "ready" /\ r.at = "classic" /\ r.pinned = st[j].pinned /\ r.dig = st[j].dig
      BY <1>1, <1>6, <2>1, <2>2, <3>2 DEF Knows
    <3> QED
      BY <1>4, <3>1, <3>2
  <2>3. CASE i # j
    <3>1. Knows(i, st[i]) /\ st[i].at # "setup" /\ (jobs[i].cfg # None => jobs[i].cfg \in Config)
      BY <1>1, <1>9, <2>3, JobTypes DEF Knows
    <3>2. st[i].at = "classic" => jobs[i].cfg \in Config \ {c}
      BY <1>1, <3>1 DEF Knows
    <3>3. st[i].at = "classic" => verifier'[jobs[i].cfg].is = "ready"
      BY <1>6, <3>1, <3>2 DEF Knows
    <3> QED
      BY <1>1, <2>1, <2>3, <3>1, <3>3 DEF Knows, Checked
  <2> QED
    BY <2>2, <2>3
<1> QED
  BY <1>1, <1>3, <1>5, <1>7, <1>8, <1>9, GoesFrame DEF PullInv
LEMMA PullStartKeeps ==
  ASSUME PullInv, NEW js, PullStart(js), Verifiable(js)
  PROVE  PullInv'
<1>1. /\ doc' = doc + 1 /\ jobs' = js /\ st' = [j \in DOMAIN js |-> Queued] /\ runErr' = None
      /\ verifier' = [c \in Config |-> Unbuilt] /\ builds' = [c \in Config |-> 0]
      /\ ignoreErrors' = ignoreErrors
  BY DEF PullStart
<1>2. doc' \in Nat /\ Unbuilt \in Verifiers
  BY <1>1 DEF PullInv, PullTyped, Unbuilt, Verifiers
<1>3. Queued \in JobState'
  BY DEF JobState, Queued, Places, Named
<1>4. st' \in [DOMAIN jobs' -> JobState']
  BY <1>1, <1>3
<1>5. PullTyped'
  BY <1>1, <1>2, <1>4 DEF PullInv, PullTyped, Verifiable
<1>6. CacheInv'
  BY <1>1 DEF CacheInv, Unbuilt
<1>7. RunErrIsReal'
  BY <1>1, ImageAssumption DEF RunErrIsReal, Errors
<1>8. ASSUME NEW j \in DOMAIN st' PROVE Knows(j, st[j])'
  BY <1>1, <1>8 DEF Knows, Queued
<1> QED
  BY <1>5, <1>6, <1>7, <1>8 DEF PullInv

(* A step of a goroutine of the pull.                                      *)
LEMMA PullStepKeeps ==
  ASSUME PullInv, NEW j \in DOMAIN st, Go(j) \/ JobStep(j)
  PROVE  PullInv' /\ \E r : Goes(j, r) /\ Moved(j, r)
<1>1. CASE Go(j)
  BY <1>1, GoMoves, GoesKeeps DEF Go
<1>2. CASE PinDigest(j)
  BY <1>2, PinDigestMoves, GoesKeeps DEF PinDigest
<1>3. CASE Get(j)
  BY <1>3, GetKeeps
<1>4. CASE NewVerifier(j)
  BY <1>4, NewVerifierKeeps
<1>5. CASE VerifyImage(j)
  <2>1. UNCHANGED <<ignoreErrors, doc, jobs, verifier, lock, builds>>
    BY <1>5 DEF VerifyImage
  <2> QED
    BY <1>5, <2>1, VerifyImageMoves, GoesKeeps
<1>6. CASE VerifyBundle(j)
  <2>1. UNCHANGED <<ignoreErrors, doc, jobs, verifier, lock, builds>>
    BY <1>6 DEF VerifyBundle
  <2> QED
    BY <1>6, <2>1, VerifyBundleMoves, GoesKeeps
<1>7. CASE StoreImage(j)
  BY <1>7, StoreImageMoves, GoesKeeps DEF StoreImage
<1>8. CASE AddImage(j)
  BY <1>8, AddImageMoves, GoesKeeps DEF AddImage
<1>9. CASE RewriteReference(j)
  BY <1>9, RewriteReferenceMoves, GoesKeeps DEF RewriteReference
<1> QED
  BY <1>1, <1>2, <1>3, <1>4, <1>5, <1>6, <1>7, <1>8, <1>9 DEF JobStep

LEMMA PullUnchanged ==
  ASSUME PullInv, UNCHANGED <<ignoreErrors, pullVars>>
  PROVE  PullInv'
<1>1. PullTyped' /\ RunErrIsReal' /\ CacheInv'
  BY DEF PullInv, pullVars, PullTyped, RunErrIsReal, CacheInv, Verifiable, JobState, Named
<1>2. \A j \in DOMAIN st : Knows(j, st[j])'
  BY DEF PullInv, pullVars, Knows, Checked
<1> QED
  BY <1>1, <1>2 DEF PullInv, pullVars

-----------------------------------------------------------------------------
(* How the goroutine of a file goes on                                     *)

LEMMA FileTypes ==
  ASSUME StoreInv, NEW j \in DOMAIN ft
  PROVE  /\ ft[j] \in FileState /\ Carries(j, ft[j], blobs) /\ j \in DOMAIN files
         /\ j \in Nat /\ j # Nothing
         /\ files[j] \in FileJob /\ files[j].path \in Path
         /\ files[j].name \in FileName \cup {Nothing}
<1>1. DOMAIN files = 1..Len(files) /\ Len(files) \in Nat
  BY DEF StoreInv, FilesTyped
<1>2. j \in 1..Len(files) /\ files[j] \in FileJob
  BY <1>1 DEF StoreInv, FilesTyped
<1> QED
  BY <1>1, <1>2, FileAssumption DEF StoreInv, FilesTyped, FileJob

(* A failed attempt is followed by another or by the end, and the layer,   *)
(* once known, is kept.                                                    *)
LEMMA FileFailsGives ==
  ASSUME NEW s \in FileState, NEW ignore, NEW r \in FileFails(s, ignore)
  PROVE  /\ r \in FileState /\ r.blob = s.blob
         /\ \/ r.at \in {"skipped", "failed"}
            \/ r.at = "lookup" /\ s.blob = Nothing
            \/ r.at = "write" /\ s.blob # Nothing
<1>1. ASSUME NEW e \in {"error", "canceled"}
      PROVE  /\ NotStored(s, e, ignore) \in FileState /\ NotStored(s, e, ignore).blob = s.blob
             /\ NotStored(s, e, ignore).at \in {"skipped", "failed"}
  BY <1>1 DEF NotStored, FileState, FileOver
<1>2. CASE ~FileCanceled /\ s.left > 1
  <2> DEFINE t == [s EXCEPT !.left = @ - 1]
  <2>1. t \in FileState /\ t.blob = s.blob
    <3>1. s.left - 1 \in Nat
      BY <1>2 DEF FileState
    <3> QED
      BY <3>1 DEF FileState
  <2>2. r = Try(t)
    BY <1>2 DEF FileFails
  <2> HIDE DEF t
  <2> QED
    BY <2>1, <2>2 DEF Try, FileState, FilePlaces
<1>3. CASE ~(~FileCanceled /\ s.left > 1)
  <2>1. \E e \in {"error", "canceled"} : r = NotStored(s, e, ignore)
    BY <1>3 DEF FileFails
  <2> QED
    BY <1>1, <2>1
<1> QED
  BY <1>2, <1>3

(* An entry that may be put under the name of a file whose goroutine goes  *)
(* on with r.                                                              *)
Fits(j, r, e) ==
  /\ e \in EntryOf /\ files[j].name # Nothing
  /\ e.blob \in blobs
  /\ e.source # Nothing => e.blob \in Holds[e.source]
  /\ r.at = "stored" => e = [blob |-> r.blob, source |-> files[j].path]

(* A step of one goroutine that leaves the layers alone.                   *)
LEMMA FileKeeps ==
  ASSUME StoreInv, NEW j \in DOMAIN ft, NEW r \in FileState, FileGoes(j, r), Carries(j, r, blobs'),
         UNCHANGED <<files, cache, flight, hashed>>,
         blobs \subseteq blobs', blobs' \subseteq Bytes,
         \/ UNCHANGED named /\ r.at # "stored"
         \/ \E e : Fits(j, r, e) /\ named' = [named EXCEPT ![files[j].name] = e]
  PROVE  StoreInv'
<1>1. /\ ft' = [ft EXCEPT ![j] = r] /\ ft' \in [DOMAIN files -> FileState]
      /\ DOMAIN ft' = DOMAIN ft /\ \A i \in DOMAIN ft : ft'[i] = IF i = j THEN r ELSE ft[i]
  BY DEF FileGoes, StoreInv, FilesTyped
<1>2. fileErr' \in {"error", "canceled", Nothing}
  <2>1. r.err \in {"error", "canceled", Nothing}
    BY DEF FileState
  <2> QED
    BY <2>1 DEF FileGoes, StoreInv, FilesTyped
<1>3. named' \in [FileName -> EntryOf]
  BY DEF StoreInv, FilesTyped, Fits
<1>4. FilesTyped' /\ LayerInv'
  BY <1>1, <1>2, <1>3 DEF StoreInv, FilesTyped, LayerInv
<1>5. ASSUME NEW i \in DOMAIN ft PROVE Carries(i, ft[i], blobs)'
  <2>1. Carries(i, IF i = j THEN r ELSE ft[i], blobs')
    BY DEF StoreInv, Carries
  <2> QED
    BY <1>1, <2>1 DEF Carries
<1>6. ASSUME NEW n \in FileName, named'[n].blob # Nothing
      PROVE  /\ named'[n].blob \in blobs'
             /\ named'[n].source # Nothing => named'[n].blob \in Holds[named'[n].source]
  BY <1>6 DEF StoreInv, FilesTyped, FilesAreTheirSource, Fits
<1>7. ASSUME NEW i \in DOMAIN ft, ft'[i].at = "stored",
             \A k \in DOMAIN ft \ {i} : files[k].name # files[i].name
      PROVE  named'[files[i].name] = [blob |-> ft'[i].blob, source |-> files[i].path]
  <2>1. CASE i = j
    <3>1. PICK e : Fits(j, r, e) /\ named' = [named EXCEPT ![files[j].name] = e]
      BY <1>1, <1>7, <2>1
    <3>2. files[j].name \in FileName
      BY <3>1, FileTypes DEF Fits
    <3> QED
      BY <1>1, <1>7, <2>1, <3>1, <3>2 DEF Fits, StoreInv, FilesTyped
  <2>2. CASE i # j
    <3>1. ft'[i] = ft[i] /\ files[j].name # files[i].name
      BY <1>1, <1>7, <2>2
    <3>2. named[files[i].name] = [blob |-> ft[i].blob, source |-> files[i].path]
      BY <1>7, <3>1 DEF StoreInv, FilesAreTheirSource
    <3>3. files[i].name \in FileName
      BY <1>7, <3>1, FileTypes DEF Carries
    <3> QED
      BY <3>1, <3>2, <3>3 DEF StoreInv, FilesTyped
  <2> QED
    BY <2>1, <2>2
<1>8. FilesAreTheirSource'
  BY <1>1, <1>6, <1>7 DEF FilesAreTheirSource
<1> QED
  BY <1>1, <1>4, <1>5, <1>8 DEF StoreInv

LEMMA FileFailedCarries ==
  ASSUME StoreInv, NEW j \in DOMAIN ft, ft[j].at \in FilePlaces \ {"queued"},
         NEW ignore, NEW r \in FileFails(ft[j], ignore)
  PROVE  r \in FileState /\ Carries(j, r, blobs) /\ r.at \in {"skipped", "failed", "lookup", "write"}
<1>1. ft[j] \in FileState /\ Carries(j, ft[j], blobs)
  BY FileTypes
<1>2. /\ r \in FileState /\ r.blob = ft[j].blob
      /\ \/ r.at \in {"skipped", "failed"}
         \/ r.at = "lookup" /\ r.blob = Nothing
         \/ r.at = "write" /\ r.blob # Nothing
  BY <1>1, FileFailsGives
<1> QED
  BY <1>1, <1>2 DEF Carries, FilePlaces

LEMMA GoFileKeeps ==
  ASSUME StoreInv, NEW j \in DOMAIN ft, NEW ignore, GoFile(j, ignore)
  PROVE  StoreInv'
<1> DEFINE r == IF FileCanceled THEN [NewFile EXCEPT !.at = "failed", !.err = "canceled"]
                ELSE IF files[j].name = Nothing THEN NotStored(NewFile, "error", ignore)
                ELSE Try([NewFile EXCEPT !.left = FileRetries])
<1>1. FileGoes(j, r) /\ UNCHANGED <<files, cache, flight, hashed, blobs, named>>
  BY DEF GoFile
<1>2. /\ r \in FileState /\ r.blob = Nothing
      /\ r.at \in {"failed", "skipped", "lookup"}
      /\ r.at = "lookup" => files[j].name # Nothing
  BY FileAssumption DEF NewFile, NotStored, Try, FileState, FilePlaces, FileOver
<1> HIDE DEF r
<1>3. Carries(j, r, blobs')
  BY <1>2 DEF Carries, FilePlaces
<1> QED
  BY <1>1, <1>2, <1>3, FileKeeps DEF StoreInv, FilesTyped

LEMMA LookUpKeeps ==
  ASSUME StoreInv, NEW j \in DOMAIN ft, LookUp(j)
  PROVE  StoreInv'
<1> DEFINE known == cache[files[j].path]
           r == IF known = Nothing THEN [ft[j] EXCEPT !.at = "fly"] ELSE Has(ft[j], known)
<1>1. /\ FileGoes(j, r) /\ UNCHANGED <<files, cache, flight, hashed, blobs, named>>
      /\ ft[j].at = "lookup" /\ ft[j] \in FileState /\ Carries(j, ft[j], blobs)
      /\ known \in Bytes \cup {Nothing}
  BY FileTypes DEF LookUp, FileAt, StoreInv, FilesTyped
<1>2. /\ r \in FileState
      /\ IF known = Nothing THEN r.at = "fly" /\ r.blob = Nothing ELSE r.at = "write" /\ r.blob = known
      /\ files[j].name # Nothing
  BY <1>1 DEF Has, FileState, FilePlaces, Carries
<1> HIDE DEF r
<1>3. Carries(j, r, blobs')
  BY <1>2 DEF Carries, FilePlaces
<1> QED
  BY <1>1, <1>2, <1>3, FileKeeps DEF StoreInv, FilesTyped

LEMMA WriteFileKeeps ==
  ASSUME StoreInv, NEW j \in DOMAIN ft, NEW ignore, WriteFile(j, ignore)
  PROVE  StoreInv'
<1>1. /\ UNCHANGED <<files, cache, flight, hashed, named>>
      /\ ft[j].at = "write" /\ ft[j] \in FileState /\ Carries(j, ft[j], blobs)
      /\ "write" \in FilePlaces \ {"queued"} /\ blobs \subseteq Bytes
  BY FileTypes DEF WriteFile, FileAt, FilePlaces, StoreInv, FilesTyped
<1>2. CASE blobs' = blobs \cup {ft[j].blob} /\ FileGoes(j, [ft[j] EXCEPT !.at = "index"])
  <2> DEFINE r == [ft[j] EXCEPT !.at = "index"]
  <2>1. r \in FileState /\ r.at = "index" /\ r.blob = ft[j].blob /\ FileGoes(j, r)
    BY <1>1, <1>2 DEF FileState, FilePlaces
  <2> HIDE DEF r
  <2>2. blobs' \subseteq Bytes
    BY <1>1, <1>2 DEF FileState, Carries
  <2>3. Carries(j, r, blobs')
    BY <1>1, <1>2, <2>1 DEF Carries
  <2> QED
    BY <1>1, <1>2, <2>1, <2>2, <2>3, FileKeeps
<1>3. CASE \E r \in FileFails(ft[j], ignore) : FileGoes(j, r) /\ UNCHANGED blobs
  BY <1>1, <1>3, FileFailedCarries, FileKeeps
<1> QED
  BY <1>2, <1>3 DEF WriteFile
LEMMA IndexFileKeeps ==
  ASSUME StoreInv, NEW j \in DOMAIN ft, NEW ignore, IndexFile(j, ignore)
  PROVE  StoreInv'
<1> DEFINE e == [blob |-> ft[j].blob, source |-> Nothing]
<1>1. /\ UNCHANGED <<files, cache, flight, hashed, blobs>>
      /\ ft[j].at = "index" /\ ft[j] \in FileState /\ Carries(j, ft[j], blobs)
      /\ "index" \in FilePlaces \ {"queued"} /\ blobs \subseteq Bytes
      /\ named' = [named EXCEPT ![files[j].name] = e]
  BY FileTypes DEF IndexFile, FileAt, FilePlaces, StoreInv, FilesTyped
<1>2. ASSUME NEW r \in FileState, FileGoes(j, r), Carries(j, r, blobs), r.at # "stored"
      PROVE  StoreInv'
  <2>1. Fits(j, r, e)
    BY <1>1, <1>2 DEF Fits, EntryOf, FileState, Carries
  <2> HIDE DEF e
  <2> QED
    BY <1>1, <1>2, <2>1, FileKeeps
<1>3. CASE FileGoes(j, [ft[j] EXCEPT !.at = "source"])
  <2> DEFINE r == [ft[j] EXCEPT !.at = "source"]
  <2>1. r \in FileState /\ r.at = "source" /\ r.blob = ft[j].blob /\ FileGoes(j, r)
    BY <1>1, <1>3 DEF FileState, FilePlaces
  <2> HIDE DEF r
  <2>2. Carries(j, r, blobs)
    BY <1>1, <2>1 DEF Carries
  <2> QED
    BY <1>2, <2>1, <2>2
<1>4. CASE \E r \in FileFails(ft[j], ignore) : FileGoes(j, r)
  BY <1>1, <1>2, <1>4, FileFailedCarries
<1> QED
  BY <1>3, <1>4 DEF IndexFile

LEMMA SourceFileKeeps ==
  ASSUME StoreInv, NEW j \in DOMAIN ft, SourceFile(j)
  PROVE  StoreInv'
<1> DEFINE e == [blob |-> ft[j].blob, source |-> files[j].path]
           r == [ft[j] EXCEPT !.at = "stored"]
           f == [ft[j] EXCEPT !.at = "failed", !.err = "error"]
<1>1. /\ UNCHANGED <<files, cache, flight, hashed, blobs>>
      /\ ft[j].at = "source" /\ ft[j] \in FileState /\ Carries(j, ft[j], blobs)
      /\ "source" \in FilePlaces \ {"queued"} /\ blobs \subseteq Bytes /\ files[j].path \in Path
      /\ named' = [named EXCEPT ![files[j].name] = e]
      /\ FileGoes(j, r) \/ FileGoes(j, f)
  BY FileTypes DEF SourceFile, FileAt, FilePlaces, StoreInv, FilesTyped
<1>2. /\ r \in FileState /\ r.at = "stored" /\ r.blob = ft[j].blob
      /\ f \in FileState /\ f.at = "failed" /\ f.blob = ft[j].blob
  BY <1>1 DEF FileState, FileOver
<1>3. ft[j].blob \in Holds[files[j].path]
  BY <1>1 DEF Carries, StoreInv, LayerInv
<1>4. e \in EntryOf /\ e.blob = ft[j].blob /\ e.source = files[j].path
      /\ e = [blob |-> r.blob, source |-> files[j].path]
  BY <1>1, <1>2 DEF EntryOf, FileState
<1> HIDE DEF e, r, f
<1>5. Fits(j, r, e) /\ Fits(j, f, e)
  BY <1>1, <1>2, <1>3, <1>4 DEF Fits, Carries
<1>6. Carries(j, r, blobs) /\ Carries(j, f, blobs)
  BY <1>1, <1>2 DEF Carries, FilePlaces
<1> QED
  BY <1>1, <1>2, <1>5, <1>6, FileKeeps

(* The flights: the one that leads has found no layer in the cache.        *)
LEMMA FlyKeeps ==
  ASSUME StoreInv, NEW j \in DOMAIN ft, Fly(j)
  PROVE  StoreInv'
<1> DEFINE p == files[j].path
<1>1. /\ UNCHANGED <<files, cache, hashed, blobs, named>>
      /\ ft[j].at = "fly" /\ ft[j] \in FileState /\ Carries(j, ft[j], blobs)
      /\ p \in Path /\ j \in Nat /\ j # Nothing /\ blobs \subseteq Bytes
      /\ cache[p] \in Bytes \cup {Nothing} /\ ft[j].blob = Nothing /\ files[j].name # Nothing
  BY FileTypes DEF Fly, FileAt, StoreInv, FilesTyped, Carries, FilePlaces
<1>2. ASSUME NEW r \in FileState, FileGoes(j, r), Carries(j, r, blobs), r.at # "stored", UNCHANGED flight
      PROVE  StoreInv'
  BY <1>1, <1>2, FileKeeps
<1>3. CASE flight[p] # Nothing
  <2> DEFINE r == [ft[j] EXCEPT !.at = "wait"]
  <2>1. r \in FileState /\ r.at = "wait" /\ r.blob = Nothing /\ FileGoes(j, r) /\ UNCHANGED flight
    BY <1>1, <1>3 DEF Fly, FileState, FilePlaces
  <2> HIDE DEF r
  <2>2. Carries(j, r, blobs)
    BY <1>1, <2>1 DEF Carries
  <2> QED
    BY <1>2, <2>1, <2>2
<1>4. CASE flight[p] = Nothing /\ cache[p] # Nothing
  <2> DEFINE r == Has(ft[j], cache[p])
  <2>1. r \in FileState /\ r.at = "write" /\ r.blob = cache[p] /\ FileGoes(j, r) /\ UNCHANGED flight
    BY <1>1, <1>4 DEF Fly, FileState, FilePlaces, Has
  <2> HIDE DEF r
  <2>2. Carries(j, r, blobs)
    BY <1>1, <1>4, <2>1 DEF Carries
  <2> QED
    BY <1>2, <2>1, <2>2
<1>5. CASE flight[p] = Nothing /\ cache[p] = Nothing
  <2> DEFINE r == [ft[j] EXCEPT !.at = "fetch"]
  <2>1. FileGoes(j, r) /\ flight' = [flight EXCEPT ![p] = j]
    BY <1>5 DEF Fly
  <2>2. r \in FileState /\ r.at = "fetch" /\ r.blob = Nothing /\ r.err = ft[j].err
    BY <1>1 DEF FileState, FilePlaces
  <2> HIDE DEF r
  <2>3. /\ ft' \in [DOMAIN files -> FileState] /\ DOMAIN ft' = DOMAIN ft
        /\ \A i \in DOMAIN ft : ft'[i] = IF i = j THEN r ELSE ft[i]
        /\ fileErr' = fileErr
    BY <2>1, <2>2 DEF FileGoes, StoreInv, FilesTyped
  <2>4. /\ flight' \in [Path -> Nat \cup {Nothing}] /\ flight'[p] = j
        /\ \A q \in Path \ {p} : flight'[q] = flight[q]
    BY <1>1, <2>1 DEF StoreInv, FilesTyped
  <2>5. FilesTyped'
    BY <1>1, <2>3, <2>4 DEF StoreInv, FilesTyped
  <2>6. LayerInv'
    BY <1>1, <1>5, <2>4 DEF StoreInv, LayerInv
  <2>7. ASSUME NEW i \in DOMAIN ft PROVE Carries(i, ft[i], blobs)'
    <3>1. CASE i = j
      BY <1>1, <2>2, <2>3, <2>4, <3>1 DEF Carries
    <3>2. CASE i # j
      <4>1. Carries(i, ft[i], blobs) /\ files[i].path \in Path /\ i # Nothing
        BY <2>7, FileTypes
      <4>2. ft[i].at = "fetch" => files[i].path # p
        BY <1>5, <4>1 DEF Carries
      <4> QED
        BY <1>1, <2>3, <2>4, <3>2, <4>1, <4>2 DEF Carries
    <3> QED
      BY <3>1, <3>2
  <2>8. FilesAreTheirSource'
    <3>1. ASSUME NEW i \in DOMAIN ft, ft'[i].at = "stored" PROVE ft[i] = ft'[i]
      BY <2>2, <2>3, <3>1
    <3> QED
      BY <1>1, <2>3, <3>1 DEF StoreInv, FilesAreTheirSource
  <2> QED
    BY <2>3, <2>5, <2>6, <2>7, <2>8 DEF StoreInv
<1> QED
  BY <1>3, <1>4, <1>5
(* The leader lands: with the layer, which all that wait take over, or     *)
(* with an error, which is theirs too.                                     *)
LEMMA FetchKeeps ==
  ASSUME StoreInv, NEW j \in DOMAIN ft, NEW ignore, Fetch(j, ignore)
  PROVE  StoreInv'
<1> DEFINE p == files[j].path
           Lands(i) == i = j \/ Waits(i, p)
<1>1. /\ UNCHANGED <<files, blobs, named>> /\ flight' = [flight EXCEPT ![p] = Nothing]
      /\ ft[j].at = "fetch" /\ ft[j] \in FileState /\ Carries(j, ft[j], blobs)
      /\ p \in Path /\ j \in Nat /\ j # Nothing
      /\ flight[p] = j /\ cache[p] = Nothing /\ hashed[p] = 0
      /\ "fetch" \in FilePlaces \ {"queued"}
  BY FileTypes DEF Fetch, FileAt, FilePlaces, StoreInv, LayerInv, Carries
<1>2. /\ flight' \in [Path -> Nat \cup {Nothing}] /\ flight'[p] = Nothing
      /\ \A q \in Path \ {p} : flight'[q] = flight[q]
  BY <1>1 DEF StoreInv, FilesTyped
<1>3. ASSUME NEW i \in DOMAIN ft
      PROVE  /\ ft[i] \in FileState /\ Carries(i, ft[i], blobs) /\ files[i].path \in Path
             /\ files[i].path = p => ft[i].blob = Nothing /\ (i # j => ft[i].at # "fetch")
             /\ Lands(i) => files[i].path = p /\ ft[i].at \in {"fetch", "wait"} /\ files[i].name # Nothing
  <2>1. /\ ft[i] \in FileState /\ Carries(i, ft[i], blobs) /\ files[i].path \in Path
    BY FileTypes
  <2>2. files[i].path = p => ft[i].blob = Nothing /\ (i # j => ft[i].at # "fetch")
    BY <1>1, <2>1 DEF Carries
  <2>3. Lands(i) => files[i].path = p /\ ft[i].at \in {"fetch", "wait"}
    BY <1>1 DEF Waits, FileAt
  <2>4. Lands(i) => files[i].name # Nothing
    BY <2>1, <2>3 DEF Carries, FilePlaces
  <2> QED
    BY <2>1, <2>2, <2>3, <2>4
<1>4. ASSUME ft' \in [DOMAIN files -> FileState], DOMAIN ft' = DOMAIN ft,
             fileErr' \in {"error", "canceled", Nothing},
             cache' \in [Path -> Bytes \cup {Nothing}], hashed' \in [Path -> Nat], LayerInv',
             \A i \in DOMAIN ft : Carries(i, ft[i], blobs)' /\ (ft'[i].at = "stored" => ft'[i] = ft[i])
      PROVE  StoreInv'
  <2>1. FilesTyped'
    BY <1>1, <1>2, <1>4 DEF StoreInv, FilesTyped
  <2>2. FilesAreTheirSource'
    BY <1>1, <1>4 DEF StoreInv, FilesAreTheirSource
  <2> QED
    BY <1>4, <2>1, <2>2 DEF StoreInv
<1>5. ASSUME NEW content \in Holds[p],
             cache' = [cache EXCEPT ![p] = content], hashed' = [hashed EXCEPT ![p] = @ + 1],
             ft' = [i \in DOMAIN ft |-> IF Lands(i) THEN Has(ft[i], content) ELSE ft[i]],
             UNCHANGED fileErr
      PROVE  StoreInv'
  <2>1. content \in Bytes /\ content # Nothing
    BY <1>1, FileAssumption
  <2>2. /\ cache' \in [Path -> Bytes \cup {Nothing}] /\ hashed' \in [Path -> Nat]
        /\ cache'[p] = content /\ hashed'[p] = 1
        /\ \A q \in Path \ {p} : cache'[q] = cache[q] /\ hashed'[q] = hashed[q]
    BY <1>1, <1>5, <2>1 DEF StoreInv, FilesTyped
  <2>3. LayerInv'
    BY <1>2, <2>1, <2>2 DEF StoreInv, LayerInv
  <2> HIDE DEF Lands
  <2>4. ASSUME NEW i \in DOMAIN ft
        PROVE  /\ ft'[i] \in FileState /\ Carries(i, ft[i], blobs)'
               /\ ft'[i].at = "stored" => ft'[i] = ft[i]
    <3>1. CASE Lands(i)
      <4>1. ft'[i] = Has(ft[i], content)
        BY <1>5, <3>1
      <4>2. ft'[i] \in FileState /\ ft'[i].at = "write" /\ ft'[i].blob = content
        BY <1>3, <2>1, <4>1 DEF Has, FileState, FilePlaces
      <4> QED
        BY <1>1, <1>3, <2>1, <2>2, <3>1, <4>2 DEF Carries
    <3>2. CASE ~Lands(i)
      <4>1. ft'[i] = ft[i] /\ i # j
        BY <1>5, <3>2 DEF Lands
      <4> QED
        BY <1>1, <1>2, <1>3, <2>2, <4>1 DEF Carries
    <3> QED
      BY <3>1, <3>2
  <2>5. ft' \in [DOMAIN files -> FileState] /\ DOMAIN ft' = DOMAIN ft
    BY <1>5, <2>4 DEF StoreInv, FilesTyped
  <2> QED
    BY <1>4, <1>5, <2>2, <2>3, <2>4, <2>5 DEF StoreInv, FilesTyped
<1>6. ASSUME NEW f \in FileFails(ft[j], ignore), UNCHANGED <<cache, hashed>>,
             ft' = [i \in DOMAIN ft |-> IF i = j THEN f
                      ELSE IF Waits(i, p) THEN [ft[i] EXCEPT !.at = "told"] ELSE ft[i]],
             fileErr' = IF f.at = "failed" /\ fileErr = Nothing THEN f.err ELSE fileErr
      PROVE  StoreInv'
  <2>1. f \in FileState /\ Carries(j, f, blobs) /\ f.at \in {"skipped", "failed", "lookup", "write"}
    BY <1>1, FileFailedCarries
  <2>2. LayerInv'
    BY <1>1, <1>2, <1>6 DEF StoreInv, LayerInv
  <2>3. ASSUME NEW i \in DOMAIN ft
        PROVE  /\ ft'[i] \in FileState /\ Carries(i, ft[i], blobs)'
               /\ ft'[i].at = "stored" => ft'[i] = ft[i]
    <3>1. CASE i = j
      BY <1>1, <1>6, <2>1, <3>1 DEF Carries
    <3>2. CASE i # j /\ Waits(i, p)
      <4>1. ft'[i] = [ft[i] EXCEPT !.at = "told"] /\ Lands(i)
        BY <1>6, <3>2
      <4> HIDE DEF Lands
      <4>2. ft'[i] \in FileState /\ ft'[i].at = "told" /\ ft'[i].blob = Nothing
        BY <1>3, <4>1 DEF FileState, FilePlaces
      <4> QED
        BY <1>1, <1>3, <4>1, <4>2 DEF Carries
    <3>3. CASE i # j /\ ~Waits(i, p)
      <4>1. ft'[i] = ft[i]
        BY <1>6, <3>3
      <4> QED
        BY <1>1, <1>2, <1>3, <1>6, <3>3, <4>1 DEF Carries
    <3> QED
      BY <3>1, <3>2, <3>3
  <2>4. ft' \in [DOMAIN files -> FileState] /\ DOMAIN ft' = DOMAIN ft
    BY <1>6, <2>3 DEF StoreInv, FilesTyped
  <2>5. fileErr' \in {"error", "canceled", Nothing}
    BY <1>6, <2>1 DEF FileState, StoreInv, FilesTyped
  <2> QED
    BY <1>4, <1>6, <2>2, <2>3, <2>4, <2>5 DEF StoreInv, FilesTyped
<1>7. \/ \E content \in Holds[p] :
           /\ cache' = [cache EXCEPT ![p] = content] /\ hashed' = [hashed EXCEPT ![p] = @ + 1]
           /\ ft' = [i \in DOMAIN ft |-> IF Lands(i) THEN Has(ft[i], content) ELSE ft[i]]
           /\ UNCHANGED fileErr
      \/ \E f \in FileFails(ft[j], ignore) :
           /\ ft' = [i \in DOMAIN ft |-> IF i = j THEN f
                       ELSE IF Waits(i, p) THEN [ft[i] EXCEPT !.at = "told"] ELSE ft[i]]
           /\ fileErr' = IF f.at = "failed" /\ fileErr = Nothing THEN f.err ELSE fileErr
           /\ UNCHANGED <<cache, hashed>>
  BY DEF Fetch
<1> QED
  BY <1>5, <1>6, <1>7

LEMMA FileStepKeeps ==
  ASSUME StoreInv, NEW j \in DOMAIN ft, NEW ignore, GoFile(j, ignore) \/ FileStep(j, ignore)
  PROVE  StoreInv'
<1>1. CASE Told(j, ignore)
  <2>1. PICK r \in FileFails(ft[j], ignore) : FileGoes(j, r)
    BY <1>1 DEF Told
  <2>2. ft[j].at = "told" /\ "told" \in FilePlaces \ {"queued"} /\ blobs \subseteq Bytes
        /\ UNCHANGED <<files, cache, flight, hashed, blobs, named>>
    BY <1>1 DEF Told, FileAt, FilePlaces, StoreInv, FilesTyped
  <2>3. r \in FileState /\ Carries(j, r, blobs) /\ r.at # "stored"
    BY <2>2, FileFailedCarries
  <2> QED
    BY <2>1, <2>2, <2>3, FileKeeps
<1> QED
  BY <1>1, GoFileKeeps, LookUpKeeps, FlyKeeps, FetchKeeps, WriteFileKeeps, IndexFileKeeps,
     SourceFileKeeps DEF FileStep

(* A document of files begins with a LayerCache that is empty.             *)
LEMMA FilesStartKeeps ==
  ASSUME StoreInv, NEW fs \in Seq(FileJob), FilesStart(fs)
  PROVE  StoreInv'
<1>1. /\ files' = fs /\ ft' = [j \in DOMAIN fs |-> NewFile] /\ fileErr' = Nothing
      /\ cache' = [p \in Path |-> Nothing] /\ flight' = [p \in Path |-> Nothing]
      /\ hashed' = [p \in Path |-> 0] /\ UNCHANGED <<blobs, named>>
  BY DEF FilesStart
<1>2. NewFile \in FileState /\ NewFile.at = "queued" /\ NewFile.blob = Nothing
  BY DEF NewFile, FileState, FilePlaces
<1>3. ft' \in [DOMAIN files' -> FileState] /\ \A j \in DOMAIN ft' : ft'[j] = NewFile
  BY <1>1, <1>2
<1>4. FilesTyped'
  BY <1>1, <1>3 DEF StoreInv, FilesTyped
<1>5. LayerInv'
  BY <1>1 DEF LayerInv
<1>6. FilesAreTheirSource'
  BY <1>1, <1>2, <1>3 DEF StoreInv, FilesAreTheirSource
<1>7. \A j \in DOMAIN ft' : Carries(j, ft[j], blobs)'
  BY <1>1, <1>2, <1>3 DEF Carries, FilePlaces
<1> QED
  BY <1>4, <1>5, <1>6, <1>7 DEF StoreInv

LEMMA FilesUnchanged ==
  ASSUME StoreInv, UNCHANGED fileVars
  PROVE  StoreInv'
<1>1. FilesTyped' /\ LayerInv' /\ FilesAreTheirSource'
  BY DEF StoreInv, fileVars, FilesTyped, LayerInv, FilesAreTheirSource
<1>2. \A j \in DOMAIN ft : Carries(j, ft[j], blobs)'
  BY DEF StoreInv, fileVars, Carries
<1> QED
  BY <1>1, <1>2 DEF StoreInv, fileVars
-----------------------------------------------------------------------------
(* Sets in order                                                           *)

(* A set listed in any order: each of its elements, once.                  *)
LEMMA Listed ==
  ASSUME NEW S, IsFiniteSet(S), NEW f \in SetToSeqs(S)
  PROVE  /\ f \in Seq(S)
         /\ \A i, k \in DOMAIN f : f[i] = f[k] => i = k
         /\ \A x \in S : \E i \in DOMAIN f : f[i] = x
<1> DEFINE D == 1..Cardinality(S)
<1>1. Cardinality(S) \in Nat
  BY FS_CardinalityType
<1>2. f \in [D -> S] /\ \A i, k \in D : i # k => f[i] # f[k]
  BY DEF SetToSeqs
<1>3. f \in Injection(D, S)
  BY <1>2 DEF Injection, IsInjective
<1>4. Cardinality(D) = Cardinality(S)
  BY <1>1, FS_Interval
<1>5. f \in Surjection(D, S)
  BY <1>3, <1>4, FS_Injection
<1>6. f \in Seq(S)
  BY <1>1, <1>2
<1> QED
  BY <1>2, <1>5, <1>6 DEF Surjection

(* A set of numbers has a least one: the sets 1..n are well-founded.       *)
LEMMA LeastNumber ==
  ASSUME NEW T, T \subseteq Nat, T # {}
  PROVE  \E n \in T : \A k \in T : n <= k
<1> DEFINE F == FiniteSubsetsOf(Nat)
           R == StrictSubsetOrdering(Nat)
           U == {1..n : n \in T}
<1>1. \A n \in T : 1..n \in SUBSET Nat /\ IsFiniteSet(1..n)
  BY FS_Interval
<1>2. U \subseteq F /\ U # {} /\ IsWellFoundedOn(R, F)
  BY <1>1, FS_StrictSubsetOrderingWellFounded DEF FiniteSubsetsOf
<1>3. PICK x \in U : \A y \in U : <<y, x>> \notin R
  <2> HIDE DEF F, R, U
  <2> QED
    BY <1>2, WFMin
<1>4. PICK n \in T : x = 1..n
  BY <1>3
<1>5. ASSUME NEW k \in T, ~(n <= k) PROVE FALSE
  <2>1. 1..k \subseteq 1..n /\ n \in 1..n /\ n \notin 1..k
    BY <1>5
  <2>2. <<1..k, 1..n>> \in R
    BY <1>1, <2>1 DEF StrictSubsetOrdering
  <2> QED
    BY <1>3, <1>4, <2>2
<1> QED
  BY <1>5

LEMMA InOrderGives ==
  ASSUME NEW S, IsFiniteSet(S), NEW order \in InOrder(S)
  PROVE  /\ order \in Seq(S)
         /\ \A i, k \in DOMAIN order : i < k => order[i] < order[k]
         /\ \A x \in S : \E i \in DOMAIN order : order[i] = x
BY Listed DEF InOrder

-----------------------------------------------------------------------------
(* The charts                                                              *)

ChartPlaces == {"queued", "load", "add", "expand", "done", "failed"}

WalkTyped ==
  /\ level \in Seq(ChartJob) /\ at \in [DOMAIN level -> ChartPlaces]
  /\ depth \in Nat
  /\ deps \in Seq(ChartJob) /\ images \in Seq(Ref)
  /\ walkErr \in BOOLEAN
  /\ dirs \in Nat /\ live = 1..dirs

(* What is to be read from an expansion can be, now and in later levels.   *)
ReadableInv ==
  /\ \A i \in DOMAIN level : Readable(level[i])
  /\ \A i \in DOMAIN deps : Readable(deps[i])

(* What was fetched, and what is in the level, was seen; a level that was  *)
(* found has each key once, and has what was not fetched before.           *)
OnceInv ==
  /\ \A f \in fetched : ChartKey(f.job) \in seen
  /\ \A i \in DOMAIN level : ChartKey(level[i]) \in seen
  /\ depth > 0 =>
       /\ \A i, k \in DOMAIN level : ChartKey(level[i]) = ChartKey(level[k]) => i = k
       /\ \A i \in DOMAIN level : at[i] # "done" =>
            \A f \in fetched : ChartKey(f.job) # ChartKey(level[i])

(* A dependency of what was fetched was seen, or waits for the next level. *)
DepKnown(k, saw, found) == k \in saw \/ \E i \in DOMAIN found : ChartKey(found[i]) = k
DepsKnown ==
  \A f \in fetched : f.job.addDeps /\ f.full =>
    \A c \in Deps[f.job.chart] : DepKnown(ChartKey(Dependency(c, f.job, f.dir)), seen, deps)

(* What was seen was fetched, or is under way in the level.                *)
SeenInv ==
  \A k \in seen :
    \/ \E f \in fetched : ChartKey(f.job) = k
    \/ \E i \in DOMAIN level : ChartKey(level[i]) = k /\ at[i] # "done"

TreeInv ==
  /\ level = <<>> => deps = <<>>
  /\ ~walkErr => /\ DepsKnown /\ SeenInv
                 /\ \A i \in DOMAIN at : at[i] # "failed"

WalkInv == WalkTyped /\ ReadableInv /\ OnceInv /\ TreeInv

LEMMA LevelTyped ==
  ASSUME NEW js \in Seq(ChartJob), Level(js)
  PROVE  /\ level' \in Seq(ChartJob) /\ at' \in [DOMAIN level' -> ChartPlaces]
         /\ level' = js /\ \A i \in DOMAIN js : at'[i] = "queued"
BY DEF Level, ChartPlaces

LEMMA MovesGives ==
  ASSUME WalkTyped, NEW i \in DOMAIN at, NEW place \in ChartPlaces, Moves(i, place), UNCHANGED level
  PROVE  /\ at' \in [DOMAIN level' -> ChartPlaces] /\ walkErr' \in BOOLEAN
         /\ i \in DOMAIN level /\ DOMAIN at' = DOMAIN level
         /\ \A k \in DOMAIN level : at'[k] = IF k = i THEN place ELSE at[k]
         /\ ~walkErr' => ~walkErr /\ place # "failed"
BY DEF WalkTyped, Moves, ChartPlaces

(* A goroutine of the level that goes on or gives up.                      *)
LEMMA MovesKeeps ==
  ASSUME WalkInv, NEW i \in DOMAIN at, NEW place \in ChartPlaces \ {"done"}, Moves(i, place),
         at[i] # "done",
         UNCHANGED <<level, depth, seen, deps, images, live, dirs, fetched>>
  PROVE  WalkInv'
<1>1. /\ at' \in [DOMAIN level' -> ChartPlaces] /\ walkErr' \in BOOLEAN
      /\ DOMAIN at' = DOMAIN level /\ DOMAIN at = DOMAIN level
      /\ \A k \in DOMAIN level : at'[k] = IF k = i THEN place ELSE at[k]
      /\ ~walkErr' => ~walkErr /\ place # "failed"
  BY MovesGives DEF WalkInv, WalkTyped
<1>2. WalkTyped' /\ ReadableInv'
  BY <1>1 DEF WalkInv, WalkTyped, ReadableInv, Readable
<1>3. OnceInv'
  BY <1>1 DEF WalkInv, OnceInv
<1>4. TreeInv'
  <2>1. CASE walkErr'
    BY <2>1 DEF WalkInv, TreeInv
  <2>2. CASE ~walkErr'
    <3>1. SeenInv'
      BY <1>1, <2>2 DEF WalkInv, TreeInv, SeenInv
    <3>2. DepsKnown'
      BY <1>1, <2>2 DEF WalkInv, TreeInv, DepsKnown, DepKnown
    <3> QED
      BY <1>1, <2>2, <3>1, <3>2 DEF WalkInv, TreeInv
  <2> QED
    BY <2>1, <2>2
<1> QED
  BY <1>2, <1>3, <1>4 DEF WalkInv

(* A goroutine whose fetchChart returned without an error.                 *)
LEMMA FetchedKeeps ==
  ASSUME WalkInv, NEW i \in DOMAIN at, Moves(i, "done"), at[i] \in {"add", "expand"},
         NEW full \in BOOLEAN, NEW dir \in Nat,
         fetched' = fetched \cup {[job |-> level[i], dir |-> dir, full |-> full]},
         dirs' \in Nat, dirs' >= dirs, live' = 1..dirs', images' \in Seq(Ref),
         NEW new \in Seq(ChartJob), deps' = deps \o new,
         \A k \in DOMAIN new : Readable(new[k])',
         full /\ level[i].addDeps => \A c \in Deps[level[i].chart] :
            \E k \in DOMAIN new : ChartKey(new[k]) = ChartKey(Dependency(c, level[i], dir)),
         UNCHANGED <<level, depth, seen>>
  PROVE  WalkInv'
<1> DEFINE g == [job |-> level[i], dir |-> dir, full |-> full]
<1>1. /\ at' \in [DOMAIN level' -> ChartPlaces] /\ walkErr' \in BOOLEAN
      /\ DOMAIN at' = DOMAIN level /\ DOMAIN at = DOMAIN level /\ i \in DOMAIN level
      /\ \A k \in DOMAIN level : at'[k] = IF k = i THEN "done" ELSE at[k]
      /\ ~walkErr' => ~walkErr
  BY MovesGives DEF WalkInv, WalkTyped, ChartPlaces
<1>2. /\ deps' \in Seq(ChartJob)
      /\ \A k \in DOMAIN deps' :
           (k \in DOMAIN deps /\ deps'[k] = deps[k]) \/ (\E l \in DOMAIN new : deps'[k] = new[l])
      /\ \A k \in DOMAIN deps : k \in DOMAIN deps' /\ deps'[k] = deps[k]
      /\ \A l \in DOMAIN new : \E k \in DOMAIN deps' : deps'[k] = new[l]
  <2>1. deps \in Seq(ChartJob) /\ new \in Seq(ChartJob) /\ deps' = deps \o new
    BY DEF WalkInv, WalkTyped
  <2>2. /\ deps' \in Seq(ChartJob) /\ Len(deps') = Len(deps) + Len(new)
        /\ \A k \in 1..Len(deps) + Len(new) :
             deps'[k] = IF k <= Len(deps) THEN deps[k] ELSE new[k - Len(deps)]
    BY <2>1, ConcatProperties
  <2>3. Len(deps) \in Nat /\ Len(new) \in Nat /\ DOMAIN deps = 1..Len(deps)
        /\ DOMAIN new = 1..Len(new) /\ DOMAIN deps' = 1..Len(deps')
    BY <2>1, <2>2
  <2>4. ASSUME NEW l \in DOMAIN new PROVE \E k \in DOMAIN deps' : deps'[k] = new[l]
    <3>1. Len(deps) + l \in DOMAIN deps' /\ deps'[Len(deps) + l] = new[l]
      BY <2>2, <2>3
    <3> QED
      BY <3>1
  <2>5. ASSUME NEW k \in DOMAIN deps'
        PROVE  (k \in DOMAIN deps /\ deps'[k] = deps[k]) \/ (\E l \in DOMAIN new : deps'[k] = new[l])
    <3>1. CASE k <= Len(deps)
      BY <2>2, <2>3, <3>1
    <3>2. CASE ~(k <= Len(deps))
      <4>1. k - Len(deps) \in DOMAIN new /\ deps'[k] = new[k - Len(deps)]
        BY <2>2, <2>3, <3>2
      <4> QED
        BY <4>1
    <3> QED
      BY <3>1, <3>2
  <2> QED
    BY <2>2, <2>3, <2>4, <2>5
<1>3. WalkTyped'
  BY <1>1, <1>2 DEF WalkInv, WalkTyped
<1>4. \A j : Readable(j) => Readable(j)'
  BY DEF Readable, WalkInv, WalkTyped
<1>5. ReadableInv'
  BY <1>1, <1>2, <1>4 DEF WalkInv, ReadableInv, Readable
<1>6. OnceInv'
  BY <1>1 DEF WalkInv, OnceInv
<1>7. CASE walkErr'
  BY <1>1, <1>3, <1>5, <1>6, <1>7 DEF WalkInv, TreeInv
<1>8. CASE ~walkErr'
  <2>1. SeenInv'
    <3>1. SeenInv
      BY <1>1, <1>8 DEF WalkInv, TreeInv
    <3>2. g \in fetched' /\ fetched \subseteq fetched' /\ g.job = level[i]
      OBVIOUS
    <3> HIDE DEF g
    <3>3. ASSUME NEW k \in seen
          PROVE  \/ \E f \in fetched' : ChartKey(f.job) = k
                 \/ \E n \in DOMAIN level : ChartKey(level[n]) = k /\ at'[n] # "done"
      <4>1. CASE \E f \in fetched : ChartKey(f.job) = k
        BY <3>2, <4>1
      <4>2. CASE \E n \in DOMAIN level : ChartKey(level[n]) = k /\ at[n] # "done"
        BY <1>1, <3>2, <4>2
      <4> QED
        BY <3>1, <4>1, <4>2 DEF SeenInv
    <3> QED
      BY <3>3 DEF SeenInv, ChartKey
  <2>2. \A k : DepKnown(k, seen, deps) => DepKnown(k, seen', deps')
    BY <1>2 DEF DepKnown
  <2>3. g.job.addDeps /\ g.full => \A c \in Deps[g.job.chart] : DepKnown(ChartKey(Dependency(c, g.job, g.dir)), seen', deps')
    <3>1. g.job = level[i] /\ g.full = full /\ g.dir = dir
      OBVIOUS
    <3> HIDE DEF g
    <3>2. ASSUME full, level[i].addDeps, NEW c \in Deps[level[i].chart]
          PROVE  \E k \in DOMAIN deps' : ChartKey(deps'[k]) = ChartKey(Dependency(c, level[i], dir))
      <4>1. PICK l \in DOMAIN new : ChartKey(new[l]) = ChartKey(Dependency(c, level[i], dir))
        BY <3>2
      <4>2. PICK k \in DOMAIN deps' : deps'[k] = new[l]
        BY <1>2
      <4> QED
        BY <4>1, <4>2
    <3> QED
      BY <3>1, <3>2 DEF DepKnown
  <2>4. DepsKnown'
    <3>1. DepsKnown
      BY <1>1, <1>8 DEF WalkInv, TreeInv
    <3>2. fetched' = fetched \cup {g}
      OBVIOUS
    <3> HIDE DEF g
    <3>3. ASSUME NEW f \in fetched', f.job.addDeps, f.full, NEW c \in Deps[f.job.chart]
          PROVE  DepKnown(ChartKey(Dependency(c, f.job, f.dir)), seen', deps')
      BY <2>2, <2>3, <3>1, <3>2, <3>3 DEF DepsKnown
    <3> QED
      BY <3>3 DEF DepsKnown
  <2>5. \A k \in DOMAIN at' : at'[k] # "failed"
    BY <1>1, <1>8 DEF WalkInv, TreeInv
  <2>6. level' # <<>>
    BY <1>1
  <2> QED
    BY <1>3, <1>5, <1>6, <2>1, <2>4, <2>5, <2>6 DEF WalkInv, TreeInv
<1> QED
  BY <1>7, <1>8

LEMMA GoChartKeeps ==
  ASSUME WalkInv, NEW i \in DOMAIN at, GoChart(i)
  PROVE  WalkInv'
<1>1. at[i] = "queued" /\ Moves(i, IF walkErr THEN "failed" ELSE "load")
      /\ UNCHANGED <<level, depth, seen, deps, images, live, dirs, fetched>>
  BY DEF GoChart, IsAt
<1>2. (IF walkErr THEN "failed" ELSE "load") \in ChartPlaces \ {"done"}
  BY DEF ChartPlaces
<1> QED
  BY <1>1, <1>2, MovesKeeps

LEMMA LoadChartKeeps ==
  ASSUME WalkInv, NEW i \in DOMAIN at, LoadChart(i)
  PROVE  WalkInv'
<1>1. at[i] = "load" /\ (Moves(i, "add") \/ Moves(i, "failed"))
      /\ UNCHANGED <<level, depth, seen, deps, images, live, dirs, fetched>>
  BY DEF LoadChart, IsAt
<1>2. {"add", "failed"} \subseteq ChartPlaces \ {"done"}
  BY DEF ChartPlaces
<1> QED
  BY <1>1, <1>2, MovesKeeps

LEMMA AddChartKeeps ==
  ASSUME WalkInv, NEW i \in DOMAIN at, NEW ignore, AddChart(i, ignore)
  PROVE  WalkInv'
<1>1. at[i] = "add" /\ UNCHANGED <<level, depth, seen, deps, images, live, dirs>>
  BY DEF AddChart, IsAt
<1>2. CASE \/ Moves(i, "expand") /\ UNCHANGED fetched
           \/ Moves(i, "failed") /\ UNCHANGED fetched
  <2>1. {"expand", "failed"} \subseteq ChartPlaces \ {"done"}
    BY DEF ChartPlaces
  <2> QED
    BY <1>1, <1>2, <2>1, MovesKeeps
<1>3. CASE /\ Moves(i, "done")
           /\ fetched' = fetched \cup {[job |-> level[i], dir |-> 0, full |-> FALSE]}
  <2>1. deps' = deps \o <<>> /\ <<>> \in Seq(ChartJob)
    BY <1>1, ConcatEmptySeq DEF WalkInv, WalkTyped
  <2>2. dirs' \in Nat /\ dirs' >= dirs /\ live' = 1..dirs' /\ images' \in Seq(Ref) /\ 0 \in Nat
    BY <1>1 DEF WalkInv, WalkTyped
  <2>3. \A k \in DOMAIN <<>> : Readable(<<>>[k])'
    OBVIOUS
  <2> QED
    BY <1>1, <1>3, <2>1, <2>2, <2>3, FetchedKeeps
<1> QED
  BY <1>2, <1>3 DEF AddChart

LEMMA ExpandKeeps ==
  ASSUME WalkInv, NEW i \in DOMAIN at, Expand(i)
  PROVE  WalkInv'
<1>1. at[i] = "expand" /\ UNCHANGED <<level, depth, seen>>
  BY DEF Expand, Expands, IsAt
<1>2. i \in DOMAIN level /\ level[i] \in ChartJob /\ Readable(level[i])
  BY DEF WalkInv, WalkTyped, ReadableInv
<1>3. CASE Moves(i, "failed") /\ UNCHANGED <<deps, images, live, dirs, fetched>>
  BY <1>1, <1>3, MovesKeeps DEF ChartPlaces
<1>4. CASE /\ Moves(i, "done")
           /\ dirs' = IF level[i].chart \in Inside THEN dirs ELSE dirs + 1
           /\ live' = live \cup (dirs + 1)..dirs'
           /\ \E some \in SUBSET (IF level[i].addImages THEN Images[level[i].chart] ELSE {}) :
                \E found \in SetToSeqs(some) : images' = images \o found
           /\ \E found \in SetToSeqs(IF level[i].addDeps THEN Deps[level[i].chart] ELSE {}) :
                deps' = deps \o [k \in DOMAIN found |-> Dependency(found[k], level[i], DirOf(i))]
           /\ fetched' = fetched \cup {[job |-> level[i], dir |-> DirOf(i), full |-> TRUE]}
  <2> DEFINE I == IF level[i].addImages THEN Images[level[i].chart] ELSE {}
             D == IF level[i].addDeps THEN Deps[level[i].chart] ELSE {}
  <2>1. I \subseteq Ref /\ IsFiniteSet(I) /\ D \subseteq Chart /\ IsFiniteSet(D)
    BY <1>2, ChartAssumption, ManifestAssumption, FS_EmptySet DEF ChartJob
  <2>2. dirs' \in Nat /\ dirs' >= dirs /\ live' = 1..dirs'
    BY <1>4 DEF WalkInv, WalkTyped
  <2>3. PICK to : to = DirOf(i)
    OBVIOUS
  <2>4. to \in Nat /\ to \in 1..dirs'
    BY <1>2, <1>4, <2>3 DEF WalkInv, WalkTyped, DirOf, Readable
  <2>5. images' \in Seq(Ref)
    <3>1. PICK some \in SUBSET I : \E found \in SetToSeqs(some) : images' = images \o found
      BY <1>4
    <3>2. PICK found \in SetToSeqs(some) : images' = images \o found
      BY <3>1
    <3>3. found \in Seq(Ref)
      <4>1. some \subseteq Ref /\ IsFiniteSet(some)
        BY <2>1, FS_Subset
      <4>2. found \in Seq(some)
        BY <4>1, Listed
      <4> QED
        BY <4>1, <4>2, SeqMonotonic
    <3> QED
      BY <3>2, <3>3, ConcatProperties DEF WalkInv, WalkTyped
  <2>6. PICK cs \in SetToSeqs(D) : deps' = deps \o [k \in DOMAIN cs |-> Dependency(cs[k], level[i], to)]
    BY <1>4, <2>3
  <2>7. cs \in Seq(D) /\ \A c \in D : \E k \in DOMAIN cs : cs[k] = c
    <3> HIDE DEF D
    <3> QED
      BY <2>1, Listed
  <2>8. PICK dep \in [Chart -> ChartJob] : \A c \in Chart :
          /\ dep[c] = Dependency(c, level[i], to) /\ dep[c].chart = c
          /\ c \in Inside => dep[c].dir = to
    <3>1. ASSUME NEW c \in Chart PROVE Dependency(c, level[i], to) \in ChartJob
      <4>1. level[i].within \in Seq(Chart) /\ level[i].chart \in Chart
        BY <1>2 DEF ChartJob
      <4>2. Append(level[i].within, level[i].chart) \in Seq(Chart) /\ <<>> \in Seq(Chart)
        BY <4>1
      <4> QED
        BY <2>4, <4>2 DEF Dependency, ChartJob
    <3> DEFINE all == [c \in Chart |-> Dependency(c, level[i], to)]
    <3>2. all \in [Chart -> ChartJob]
      BY <3>1
    <3>3. ASSUME NEW c \in Chart
          PROVE  /\ all[c] = Dependency(c, level[i], to) /\ all[c].chart = c
                 /\ c \in Inside => all[c].dir = to
      BY DEF Dependency
    <3> HIDE DEF all
    <3> QED
      BY <3>2, <3>3
  <2>9. PICK new \in Seq(ChartJob) :
          /\ deps' = deps \o new /\ DOMAIN new = DOMAIN cs
          /\ \A k \in DOMAIN new : cs[k] \in Chart /\ new[k] = dep[cs[k]]
    <3> HIDE DEF D
    <3>1. DOMAIN cs = 1..Len(cs) /\ Len(cs) \in Nat /\ \A k \in 1..Len(cs) : cs[k] \in Chart
      BY <2>1, <2>7
    <3>2. [k \in DOMAIN cs |-> dep[cs[k]]] \in Seq(ChartJob)
      BY <2>8, <3>1
    <3>3. [k \in DOMAIN cs |-> Dependency(cs[k], level[i], to)] = [k \in DOMAIN cs |-> dep[cs[k]]]
      BY <2>8, <3>1
    <3> QED
      BY <2>6, <3>1, <3>2, <3>3
  <2>10. \A k \in DOMAIN new : Readable(new[k])'
    <3> SUFFICES ASSUME NEW k \in DOMAIN new PROVE new[k].chart \in Inside => new[k].dir \in live'
      BY DEF Readable
    <3> QED
      BY <2>2, <2>4, <2>8, <2>9
  <2>11. level[i].addDeps => \A c \in Deps[level[i].chart] :
           \E k \in DOMAIN new : ChartKey(new[k]) = ChartKey(Dependency(c, level[i], to))
    <3> SUFFICES ASSUME level[i].addDeps, NEW c \in Deps[level[i].chart]
                 PROVE  \E k \in DOMAIN new : ChartKey(new[k]) = ChartKey(Dependency(c, level[i], to))
      OBVIOUS
    <3>1. PICK k \in DOMAIN cs : cs[k] = c
      BY <2>7
    <3> QED
      BY <2>8, <2>9, <3>1
  <2>12. Moves(i, "done") /\ fetched' = fetched \cup {[job |-> level[i], dir |-> to, full |-> TRUE]}
    BY <1>4, <2>3
  <2> QED
    BY <1>1, <2>2, <2>4, <2>5, <2>9, <2>10, <2>11, <2>12, FetchedKeeps
<1> QED
  BY <1>3, <1>4 DEF Expand, Expands

(* The dependencies found, the first of each key that was not seen.        *)
LEMMA NextLevelKeeps ==
  ASSUME WalkInv, NextLevel
  PROVE  WalkInv'
<1> DEFINE first(i) == \A k \in 1..(i - 1) : ChartKey(deps[k]) # ChartKey(deps[i])
           next == {i \in DOMAIN deps : ChartKey(deps[i]) \notin seen /\ first(i)}
<1>1. /\ level # <<>> /\ ~walkErr /\ \A i \in DOMAIN at : at[i] = "done"
      /\ \E order \in InOrder(next) : Level([i \in DOMAIN order |-> deps[order[i]]])
      /\ seen' = seen \cup {ChartKey(deps[i]) : i \in next}
      /\ deps' = <<>> /\ depth' = depth + 1
      /\ UNCHANGED <<images, walkErr, live, dirs, fetched>>
  BY DEF NextLevel
<1>2. deps \in Seq(ChartJob) /\ Len(deps) \in Nat /\ DOMAIN deps = 1..Len(deps)
  BY DEF WalkInv, WalkTyped
<1>3. next \subseteq Nat /\ next \subseteq DOMAIN deps /\ IsFiniteSet(next)
  <2>1. next \subseteq DOMAIN deps /\ DOMAIN deps \subseteq Nat
    BY <1>2
  <2>2. IsFiniteSet(DOMAIN deps)
    BY <1>2, FS_Interval
  <2> HIDE DEF next
  <2> QED
    BY <2>1, <2>2, FS_Subset
<1>4. PICK order \in InOrder(next) : Level([i \in DOMAIN order |-> deps[order[i]]])
  BY <1>1
<1>5. /\ order \in Seq(next)
      /\ \A i, k \in DOMAIN order : i < k => order[i] < order[k]
      /\ \A n \in next : \E i \in DOMAIN order : order[i] = n
  <2> HIDE DEF next
  <2> QED
    BY <1>3, InOrderGives
<1>6. \A n \in next : deps[n] \in ChartJob /\ Readable(deps[n])
  BY <1>2 DEF WalkInv, ReadableInv
<1>7. PICK js \in Seq(ChartJob) :
        /\ Level(js) /\ DOMAIN js = DOMAIN order
        /\ \A i \in DOMAIN js : order[i] \in next /\ js[i] = deps[order[i]]
  <2> HIDE DEF next
  <2>1. DOMAIN order = 1..Len(order) /\ Len(order) \in Nat /\ \A i \in 1..Len(order) : order[i] \in next
    BY <1>5
  <2>2. [i \in DOMAIN order |-> deps[order[i]]] \in Seq(ChartJob)
    BY <1>6, <2>1
  <2> QED
    BY <1>4, <2>1, <2>2
<1>8. ASSUME NEW k, k \notin seen, NEW i \in DOMAIN deps, ChartKey(deps[i]) = k
      PROVE  \E n \in DOMAIN js : ChartKey(js[n]) = k
  <2> DEFINE T == {n \in DOMAIN deps : ChartKey(deps[n]) = k}
  <2>1. PICK n \in T : \A m \in T : n <= m
    <3>1. T \subseteq Nat /\ T # {}
      BY <1>2, <1>8
    <3> HIDE DEF T
    <3> QED
      BY <3>1, LeastNumber
  <2>2. n \in next
    <3>1. n \in DOMAIN deps /\ ChartKey(deps[n]) = k
      BY <2>1
    <3>2. ASSUME NEW m \in 1..(n - 1) PROVE ChartKey(deps[m]) # ChartKey(deps[n])
      <4>1. m \in DOMAIN deps /\ m < n
        BY <1>2, <3>1
      <4> QED
        BY <1>2, <2>1, <3>1, <4>1
    <3> QED
      BY <1>8, <3>1, <3>2
  <2>3. PICK l \in DOMAIN order : order[l] = n
    BY <1>5, <2>2
  <2> QED
    BY <1>7, <2>1, <2>3
<1>9. ASSUME NEW i \in DOMAIN js, NEW k \in DOMAIN js, ChartKey(js[i]) = ChartKey(js[k]) PROVE i = k
  <2>1. i \in Nat /\ k \in Nat /\ order[i] \in next /\ order[k] \in next
    BY <1>5, <1>7
  <2>2. ASSUME NEW a \in DOMAIN js, NEW b \in DOMAIN js, a < b PROVE ChartKey(js[a]) # ChartKey(js[b])
    <3>1. order[a] \in next /\ order[b] \in next /\ order[a] < order[b]
      BY <1>5, <1>7, <2>2
    <3>2. order[a] \in 1..(order[b] - 1) /\ first(order[b])
      BY <1>2, <3>1
    <3> QED
      BY <1>7, <3>2
  <2> QED
    BY <1>9, <2>1, <2>2
<1>10. /\ level' = js /\ level' \in Seq(ChartJob) /\ at' \in [DOMAIN level' -> ChartPlaces]
       /\ \A i \in DOMAIN js : at'[i] = "queued"
  BY <1>7, LevelTyped
<1>11. \A i \in DOMAIN js : ChartKey(js[i]) \notin seen /\ ChartKey(js[i]) \in seen'
  BY <1>1, <1>7
<1>12. \A k \in seen' : k \in seen \/ \E i \in DOMAIN js : ChartKey(js[i]) = k
  BY <1>1, <1>8
<1>13. seen \subseteq seen'
  BY <1>1
<1>14. \A i \in DOMAIN js : Readable(js[i])
  BY <1>6, <1>7
<1> HIDE DEF next, first
<1>15. WalkTyped'
  BY <1>1, <1>10 DEF WalkInv, WalkTyped
<1>16. ReadableInv'
  BY <1>1, <1>10, <1>14 DEF ReadableInv, Readable
<1>17. OnceInv'
  <2>1. \A f \in fetched : ChartKey(f.job) \in seen
    BY DEF WalkInv, OnceInv
  <2> QED
    BY <1>1, <1>9, <1>10, <1>11, <1>13, <2>1 DEF OnceInv, ChartKey
<1>18. TreeInv'
  <2>1. DepsKnown /\ SeenInv
    BY <1>1 DEF WalkInv, TreeInv
  <2>2. \A k \in seen : \E f \in fetched : ChartKey(f.job) = k
    BY <1>1, <2>1 DEF SeenInv, WalkInv, WalkTyped
  <2>3. SeenInv'
    <3>1. ASSUME NEW k \in seen'
          PROVE  \/ \E f \in fetched : ChartKey(f.job) = k
                 \/ \E i \in DOMAIN js : ChartKey(js[i]) = k /\ at'[i] # "done"
      BY <1>10, <1>12, <2>2
    <3> QED
      BY <1>1, <1>10, <3>1 DEF SeenInv, ChartKey
  <2>4. \A k : DepKnown(k, seen, deps) => k \in seen'
    <3> SUFFICES ASSUME NEW k, k \notin seen, NEW i \in DOMAIN deps, ChartKey(deps[i]) = k
                 PROVE  k \in seen'
      BY <1>13 DEF DepKnown
    <3> QED
      BY <1>8, <1>11
  <2>5. DepsKnown'
    BY <1>1, <2>1, <2>4 DEF DepsKnown, DepKnown
  <2> QED
    BY <1>1, <1>10, <2>3, <2>5 DEF TreeInv
<1> QED
  BY <1>15, <1>16, <1>17, <1>18 DEF WalkInv

(* The charts of the manifest.                                             *)
LEMMA WalkStartKeeps ==
  ASSUME WalkInv, NEW js \in Seq(ChartJob), \A k \in DOMAIN js : js[k].chart \notin Inside, WalkStart(js)
  PROVE  WalkInv'
<1>1. /\ Level(js) /\ depth' = 0 /\ seen' = {ChartKey(js[i]) : i \in DOMAIN js}
      /\ deps' = <<>> /\ images' = <<>> /\ walkErr' = FALSE /\ fetched' = {}
      /\ UNCHANGED <<live, dirs>>
  BY DEF WalkStart
<1>2. /\ level' = js /\ at' \in [DOMAIN level' -> ChartPlaces] /\ \A i \in DOMAIN js : at'[i] = "queued"
  BY <1>1, LevelTyped
<1>3. WalkTyped'
  <2>1. level' \in Seq(ChartJob) /\ depth' \in Nat /\ deps' \in Seq(ChartJob) /\ images' \in Seq(Ref)
    BY <1>1, <1>2
  <2>2. walkErr' \in BOOLEAN
    BY <1>1
  <2>3. dirs' \in Nat /\ live' = 1..dirs'
    BY <1>1 DEF WalkInv, WalkTyped
  <2> QED
    BY <1>2, <2>1, <2>2, <2>3 DEF WalkTyped
<1>4. ReadableInv'
  BY <1>1, <1>2 DEF ReadableInv, Readable
<1>5. OnceInv'
  BY <1>1, <1>2 DEF OnceInv, ChartKey
<1>6. SeenInv'
  BY <1>1, <1>2 DEF SeenInv, ChartKey
<1>7. TreeInv'
  BY <1>1, <1>2, <1>6 DEF TreeInv, DepsKnown
<1> QED
  BY <1>3, <1>4, <1>5, <1>7 DEF WalkInv

LEMMA NoWalk ==
  ASSUME level = <<>>, at = <<>>, depth = 0, seen = {}, fetched = {}, deps = <<>>, images = <<>>,
         walkErr = FALSE, live = {}, dirs = 0
  PROVE  WalkInv
<1>1. WalkTyped /\ ReadableInv /\ OnceInv
  <2>1. 1..0 = {}
    OBVIOUS
  <2>2. level \in Seq(ChartJob) /\ at \in [DOMAIN level -> ChartPlaces]
        /\ deps \in Seq(ChartJob) /\ images \in Seq(Ref)
    OBVIOUS
  <2>3. walkErr \in BOOLEAN
    OBVIOUS
  <2>4. WalkTyped
    BY <2>1, <2>2, <2>3 DEF WalkTyped
  <2>5. ReadableInv /\ OnceInv
    BY DEF ReadableInv, OnceInv
  <2> QED
    BY <2>4, <2>5
<1>2. TreeInv
  BY DEF TreeInv, DepsKnown, SeenInv
<1> QED
  BY <1>1, <1>2 DEF WalkInv

LEMMA WalkEndKeeps ==
  ASSUME WalkEnd
  PROVE  WalkInv'
<1>1. /\ level' = <<>> /\ at' = <<>> /\ depth' = 0 /\ seen' = {} /\ fetched' = {} /\ deps' = <<>>
      /\ images' = <<>> /\ walkErr' = FALSE /\ live' = {} /\ dirs' = 0
  BY DEF WalkEnd, Level
<1>2. WalkTyped' /\ ReadableInv' /\ OnceInv'
  <2>1. 1..0 = {}
    OBVIOUS
  <2>2. level' \in Seq(ChartJob) /\ at' \in [DOMAIN level' -> ChartPlaces]
        /\ deps' \in Seq(ChartJob) /\ images' \in Seq(Ref)
    BY <1>1
  <2>3. walkErr' \in BOOLEAN
    BY <1>1
  <2>4. WalkTyped'
    BY <1>1, <2>1, <2>2, <2>3 DEF WalkTyped
  <2>5. ReadableInv' /\ OnceInv'
    BY <1>1 DEF ReadableInv, OnceInv
  <2> QED
    BY <2>4, <2>5
<1>3. TreeInv'
  BY <1>1 DEF TreeInv, DepsKnown, SeenInv
<1> QED
  BY <1>2, <1>3 DEF WalkInv

LEMMA WalkUnchanged ==
  ASSUME WalkInv, UNCHANGED walkVars
  PROVE  WalkInv'
<1>1. WalkTyped' /\ ReadableInv' /\ OnceInv'
  BY DEF WalkInv, walkVars, WalkTyped, ReadableInv, Readable, OnceInv
<1>2. TreeInv'
  BY DEF WalkInv, walkVars, TreeInv, DepsKnown, DepKnown, SeenInv
<1> QED
  BY <1>1, <1>2 DEF WalkInv

-----------------------------------------------------------------------------
(* The command                                                             *)

(* No chart of a manifest is one that is found inside another.             *)
DocsInv ==
  /\ docs \in Seq(Document)
  /\ \A i \in DOMAIN docs : \A k \in DOMAIN docs[i].charts : docs[i].charts[k].chart \notin Inside

Invariant == DocsInv /\ PullInv /\ StoreInv /\ WalkInv

LEMMA DocTypes ==
  ASSUME DocsInv, docs # <<>>
  PROVE  /\ docs[1] \in Document
         /\ docs[1].images \in Seq(ImageJob) /\ docs[1].files \in Seq(FileJob)
         /\ docs[1].charts \in Seq(ChartJob)
         /\ \A k \in DOMAIN docs[1].charts : docs[1].charts[k].chart \notin Inside
         /\ Verifiable(docs[1].images)
<1>1. docs[1] \in Document /\ 1 \in DOMAIN docs
  BY DEF DocsInv
<1>2. docs[1].images \in Seq(ImageJob) /\ docs[1].files \in Seq(FileJob)
      /\ docs[1].charts \in Seq(ChartJob)
  BY <1>1 DEF Document
<1>3. ASSUME NEW js \in Seq(ImageJob) PROVE Verifiable(js)
  BY DEF Verifiable
<1> QED
  BY <1>1, <1>2, <1>3 DEF DocsInv

LEMMA DocsGoOn ==
  ASSUME DocsInv, \/ docs # <<>> /\ docs' = Tail(docs)
                  \/ docs' = docs
  PROVE  DocsInv'
<1>1. CASE docs # <<>> /\ docs' = Tail(docs)
  <2>1. docs \in Seq(Document) /\ Len(docs) \in Nat \ {0} /\ DOMAIN docs = 1..Len(docs)
    BY <1>1 DEF DocsInv
  <2>2. docs' \in Seq(Document) /\ Len(docs') = Len(docs) - 1
        /\ \A i \in 1..Len(docs') : docs'[i] = docs[i + 1]
    BY <1>1, <2>1, HeadTailProperties
  <2>3. \A i \in DOMAIN docs' : i + 1 \in DOMAIN docs /\ docs'[i] = docs[i + 1]
    BY <2>1, <2>2
  <2>4. \A i \in DOMAIN docs : \A k \in DOMAIN docs[i].charts : docs[i].charts[k].chart \notin Inside
    BY DEF DocsInv
  <2> QED
    BY <2>2, <2>3, <2>4 DEF DocsInv
<1>2. CASE docs' = docs
  BY <1>2 DEF DocsInv
<1> QED
  BY <1>1, <1>2

LEMMA InitInvariant == Init => Invariant
<1> SUFFICES ASSUME Init PROVE Invariant
  OBVIOUS
<1>1. DocsInv
  BY ManifestAssumption DEF Init, DocsInv
<1>2. PullInv
  <2>1. PullTyped /\ CacheInv
    BY DEF Init, PullInit, PullTyped, CacheInv, Verifiable, Verifiers, Unbuilt
  <2>2. RunErrIsReal /\ \A j \in DOMAIN st : Knows(j, st[j])
    BY ImageAssumption DEF Init, PullInit, RunErrIsReal, Errors
  <2> QED
    BY <2>1, <2>2 DEF PullInv
<1>3. StoreInv
  <2>1. FilesTyped
    BY DEF Init, FileInit, FilesTyped, EntryOf, NoEntry
  <2>2. LayerInv
    BY DEF Init, FileInit, LayerInv
  <2>3. FilesAreTheirSource /\ \A j \in DOMAIN ft : Carries(j, ft[j], blobs)
    BY DEF Init, FileInit, FilesAreTheirSource, NoEntry
  <2> QED
    BY <2>1, <2>2, <2>3 DEF StoreInv
<1>4. WalkInv
  BY NoWalk DEF Init, WalkInit
<1> QED
  BY <1>1, <1>2, <1>3, <1>4 DEF Invariant

LEMMA DocStepKeeps == Invariant /\ DocStep => Invariant'
<1> SUFFICES ASSUME Invariant, DocStep PROVE Invariant'
  OBVIOUS
<1>1. DocsInv /\ PullInv /\ StoreInv /\ WalkInv
  BY DEF Invariant
<1>2. DocsInv'
  <2>1. \/ docs # <<>> /\ docs' = Tail(docs)
        \/ docs' = docs
    BY DEF DocStep, SkipDocument, RejectDocument, ImagesDocument, ChartsDocument, FilesDocument,
           PullFound, WalkFails, EndDocument, EndFiles, Finish
  <2> QED
    BY <1>1, <2>1, DocsGoOn
<1>3. PullInv'
  <2>1. CASE ImagesDocument
    <3>1. docs # <<>> /\ PullStart(docs[1].images)
      BY <2>1 DEF ImagesDocument
    <3> QED
      BY <1>1, <3>1, DocTypes, PullStartKeeps
  <2>2. CASE PullFound
    <3>1. PICK js : js \in {[i \in DOMAIN refs |-> Found(refs[i])] : refs \in Deduped} /\ PullStart(js)
      BY <2>2 DEF PullFound
    <3>2. Verifiable(js)
      BY <3>1 DEF Verifiable, Found
    <3> QED
      BY <1>1, <3>1, <3>2, PullStartKeeps
  <2>3. CASE ~ImagesDocument /\ ~PullFound
    <3>1. UNCHANGED <<ignoreErrors, pullVars>>
      BY <2>3 DEF DocStep, SkipDocument, RejectDocument, ChartsDocument, FilesDocument,
                  WalkFails, EndDocument, EndFiles, Finish
    <3> QED
      BY <1>1, <3>1, PullUnchanged
  <2> QED
    BY <2>1, <2>2, <2>3
<1>4. StoreInv'
  <2>1. CASE FilesDocument
    <3>1. docs # <<>> /\ FilesStart(docs[1].files)
      BY <2>1 DEF FilesDocument
    <3> QED
      BY <1>1, <3>1, DocTypes, FilesStartKeeps
  <2>2. CASE ~FilesDocument
    <3>1. UNCHANGED fileVars
      BY <2>2 DEF DocStep, SkipDocument, RejectDocument, ImagesDocument, ChartsDocument,
                  PullFound, WalkFails, EndDocument, EndFiles, Finish
    <3> QED
      BY <1>1, <3>1, FilesUnchanged
  <2> QED
    BY <2>1, <2>2
<1>5. WalkInv'
  <2>1. CASE ChartsDocument
    <3>1. docs # <<>> /\ WalkStart(docs[1].charts)
      BY <2>1 DEF ChartsDocument
    <3> QED
      BY <1>1, <3>1, DocTypes, WalkStartKeeps
  <2>2. CASE WalkFails \/ EndDocument
    BY <2>2, WalkEndKeeps DEF WalkFails, EndDocument
  <2>3. CASE ~ChartsDocument /\ ~WalkFails /\ ~EndDocument
    <3>1. UNCHANGED walkVars
      BY <2>3 DEF DocStep, SkipDocument, RejectDocument, ImagesDocument, FilesDocument,
                  PullFound, EndFiles, Finish
    <3> QED
      BY <1>1, <3>1, WalkUnchanged
  <2> QED
    BY <2>1, <2>2, <2>3
<1> QED
  BY <1>2, <1>3, <1>4, <1>5 DEF Invariant

LEMMA NextInvariant == Invariant /\ [Next]_vars => Invariant'
<1> SUFFICES ASSUME Invariant, [Next]_vars PROVE Invariant'
  OBVIOUS
<1>1. DocsInv /\ PullInv /\ StoreInv /\ WalkInv
  BY DEF Invariant
<1>2. CASE DocStep
  BY <1>2, DocStepKeeps
<1>3. CASE WalkOn \/ \E i \in DOMAIN at : WalkStep(i)
  <2>1. UNCHANGED <<ignoreErrors, pullVars, fileVars, docs>>
    BY <1>3 DEF WalkOn, WalkStep
  <2>2. WalkInv'
    BY <1>1, <1>3, NextLevelKeeps, GoChartKeeps, LoadChartKeeps, AddChartKeeps, ExpandKeeps
       DEF WalkOn, WalkStep, ChartStep
  <2> QED
    BY <1>1, <2>1, <2>2, PullUnchanged, FilesUnchanged, DocsGoOn DEF Invariant
<1>4. CASE \E j \in DOMAIN st : PullStep(j)
  <2>1. PICK j \in DOMAIN st : Go(j) \/ JobStep(j)
    BY <1>4 DEF PullStep
  <2>2. UNCHANGED <<walkVars, fileVars, docs>>
    BY <1>4 DEF PullStep
  <2> QED
    BY <1>1, <2>1, <2>2, PullStepKeeps, FilesUnchanged, WalkUnchanged, DocsGoOn DEF Invariant
<1>5. CASE \E j \in DOMAIN ft : StoreStep(j)
  <2>1. PICK j \in DOMAIN ft : GoFile(j, ignoreErrors) \/ FileStep(j, ignoreErrors)
    BY <1>5 DEF StoreStep
  <2>2. UNCHANGED <<ignoreErrors, pullVars, walkVars, docs>>
    BY <1>5 DEF StoreStep
  <2> QED
    BY <1>1, <2>1, <2>2, FileStepKeeps, PullUnchanged, WalkUnchanged, DocsGoOn DEF Invariant
<1>6. CASE UNCHANGED vars
  <2>1. UNCHANGED <<ignoreErrors, pullVars>> /\ UNCHANGED <<fileVars, docs>> /\ UNCHANGED walkVars
    BY <1>6 DEF vars
  <2> QED
    BY <1>1, <2>1, PullUnchanged, FilesUnchanged, WalkUnchanged, DocsGoOn DEF Invariant
<1> QED
  BY <1>2, <1>3, <1>4, <1>5, <1>6 DEF Next

LEMMA InvariantHolds == Spec => []Invariant
BY InitInvariant, NextInvariant, PTL DEF Spec

(* What a job with a cosign.Config stores is a digest the Config accepts,  *)
(* however the tag moves, whatever is retried and in whatever order the    *)
(* jobs of the document run; only --ignore-errors stores another, and then *)
(* the one that was checked.                                               *)
THEOREM ImagesAreVerified == Spec => []StoredIsChecked
<1>1. Invariant => StoredIsChecked
  BY DEF Invariant, PullInv, Knows, Checked, StoredIsChecked, Good
<1> QED
  BY <1>1, InvariantHolds, PTL

(* A document of images fails with the error that broke it off and never   *)
(* with a cancellation that error caused, nor because the Verifier of a    *)
(* document that is over was used.                                         *)
THEOREM FirstErrorIsReported == Spec => []RunErrIsReal
<1>1. Invariant => RunErrIsReal
  BY DEF Invariant, PullInv
<1> QED
  BY <1>1, InvariantHolds, PTL

(* The trust material of a Config is set up at most once in a document,    *)
(* whether that succeeds or fails.                                         *)
THEOREM VerifiersAreShared == Spec => []OneSetupPerConfig
<1>1. Invariant => OneSetupPerConfig
  BY DEF Invariant, PullInv, PullTyped, CacheInv, OneSetupPerConfig
<1> QED
  BY <1>1, InvariantHolds, PTL

(* The entry of a file names content that is in the store and that its     *)
(* source had, and a file reported as stored has its entry, if no other    *)
(* file goes by its name.                                                  *)
THEOREM FilesAreStored == Spec => []FilesAreTheirSource
<1>1. Invariant => FilesAreTheirSource
  BY DEF Invariant, StoreInv
<1> QED
  BY <1>1, InvariantHolds, PTL

(* A source that several files name is hashed once in a document, and all  *)
(* of them store the one layer found then.                                 *)
THEOREM LayersAreShared == Spec => []HashedOnce
<1>1. ASSUME Invariant PROVE HashedOnce
  <2>1. \A p \in Path : hashed[p] \in Nat /\ hashed[p] <= 1
    BY <1>1 DEF Invariant, StoreInv, FilesTyped, LayerInv
  <2>2. \A i \in DOMAIN ft : ft[i].blob # Nothing => ft[i].blob = cache[files[i].path]
    BY <1>1 DEF Invariant, StoreInv, Carries
  <2> QED
    BY <2>1, <2>2 DEF HashedOnce
<1> QED
  BY <1>1, InvariantHolds, PTL

(* After the error that breaks a document off no image is taken up, however *)
(* many goroutines were under way: the action property of ImageJobs.       *)
THEOREM NothingIsTakenUp == Spec => NothingNewAfterError
<1> DEFINE TakesUpNone ==
      \A j \in DOMAIN st :
        Canceled /\ doc' = doc /\ st[j].at \notin {"fetch", "rewrite"} =>
          st'[j].at \notin {"fetch", "rewrite", "ok"} \/ st[j].at = "ok"
<1>1. Invariant /\ [Next]_vars => [TakesUpNone]_pullVars
  <2> SUFFICES ASSUME Invariant, [Next]_vars, pullVars' # pullVars PROVE TakesUpNone
    OBVIOUS
  <2>1. PullInv /\ doc \in Nat
    BY DEF Invariant, PullInv, PullTyped
  <2>2. CASE \E k \in DOMAIN st : PullStep(k)
    <3>1. PICK k \in DOMAIN st : Go(k) \/ JobStep(k)
      BY <2>2 DEF PullStep
    <3>2. PICK r : Goes(k, r) /\ Moved(k, r)
      BY <2>1, <3>1, PullStepKeeps
    <3>3. \A j \in DOMAIN st : st'[j] = IF j = k THEN r ELSE st[j]
      BY <2>1, <3>2 DEF Goes, PullInv, PullTyped
    <3> QED
      BY <3>2, <3>3 DEF Moved
  <2>3. CASE ImagesDocument \/ PullFound
    <3>1. doc' = doc + 1
      BY <2>3 DEF ImagesDocument, PullFound, PullStart
    <3> QED
      BY <2>1, <3>1
  <2>4. CASE SkipDocument \/ RejectDocument \/ ChartsDocument \/ FilesDocument
             \/ WalkFails \/ EndDocument \/ EndFiles \/ Finish
    BY <2>4 DEF SkipDocument, RejectDocument, ChartsDocument, FilesDocument,
                WalkFails, EndDocument, EndFiles, Finish
  <2>5. CASE WalkOn \/ (\E i \in DOMAIN at : WalkStep(i)) \/ \E j \in DOMAIN ft : StoreStep(j)
    BY <2>5 DEF WalkOn, WalkStep, StoreStep
  <2>6. CASE UNCHANGED vars
    BY <2>6 DEF vars
  <2> QED
    BY <2>2, <2>3, <2>4, <2>5, <2>6 DEF Next, DocStep
<1> QED
  BY <1>1, InvariantHolds, PTL DEF Spec, NothingNewAfterError

(* A dependency that several charts share, or that depends on one that     *)
(* needs it, is scheduled once, whatever the order in which the goroutines *)
(* of a level find it.                                                     *)
THEOREM DependenciesAreScheduledOnce == Spec => []ScheduledOnce
<1>1. Invariant => ScheduledOnce
  BY DEF Invariant, WalkInv, OnceInv, ScheduledOnce
<1> QED
  BY <1>1, InvariantHolds, PTL

(* A file:// dependency of any level finds the expansion it is read from.  *)
THEOREM ExpansionsOutlastTheirReaders == Spec => []FileDepsReadable
<1>1. Invariant => FileDepsReadable
  BY DEF Invariant, WalkInv, ReadableInv, FileDepsReadable
<1> QED
  BY <1>1, InvariantHolds, PTL

(* A walk that ends without an error, and not for its depth, has fetched   *)
(* every dependency of every chart, for any dependencies, also circular.   *)
THEOREM TheTreeIsComplete == Spec => []TreeComplete
<1>1. ASSUME Invariant PROVE TreeComplete
  <2> SUFFICES ASSUME level = <<>>, ~walkErr, NEW f \in fetched, f.job.addDeps, f.full,
                      NEW c \in Deps[f.job.chart]
               PROVE  \E g \in fetched : ChartKey(g.job) = ChartKey(Dependency(c, f.job, f.dir))
    BY DEF TreeComplete
  <2>1. deps = <<>> /\ DepsKnown /\ SeenInv
    BY <1>1 DEF Invariant, WalkInv, TreeInv
  <2>2. ChartKey(Dependency(c, f.job, f.dir)) \in seen
    BY <2>1 DEF DepsKnown, DepKnown
  <2> QED
    BY <2>1, <2>2 DEF SeenInv
<1> QED
  BY <1>1, InvariantHolds, PTL

-----------------------------------------------------------------------------
(* What is promised                                                        *)

ImageEntry == [ref : Ref, dig : Digest]

(* The entry under a key names r.                                          *)
HeldAt(k, r, es) == es[k] # None /\ es[k].ref = r

(* What a job stores is under the reference it was pulled by until a       *)
(* reload puts it under the one it has now.                                *)
KeptIn(p, es) == HeldAt(p.ref, Final(p), es) \/ HeldAt(Final(p), Final(p), es)

Alone(j) == \A k \in DOMAIN jobs \ {j} : ~Touches(jobs[k], jobs[j])

PromiseTyped ==
  /\ jobs \in Seq(ImageJob) /\ entries \in [Ref -> ImageEntry \cup {None}]
  /\ promised \subseteq ImageJob

(* A job that no other of its document interferes with has stored what it  *)
(* says it has; one that gave up did so for an error, or for the flag.     *)
JobsKept ==
  \A j \in DOMAIN st :
    /\ st[j].at = "rewrite" => jobs[j].rewrite # None
    /\ Alone(j) => /\ st[j].at = "rewrite" => HeldAt(jobs[j].ref, jobs[j].ref, entries)
                   /\ st[j].at = "ok" => KeptIn(jobs[j], entries)
    /\ st[j].at = "failed" => runErr # None
    /\ st[j].at = "skipped" => ignoreErrors

(* What was promised is kept until a document comes that names it.         *)
EarlierKept ==
  \A p \in promised :
    KeptIn(p, entries) \/ (phase = "pull" /\ \E j \in DOMAIN jobs : Touches(jobs[j], p))

(* Each image the charts render has a job of its own.                      *)
FoundInv ==
  /\ phase \notin {"walk", "pull"} => images = <<>>
  /\ phase = "pull" =>
       \A i \in DOMAIN images : \E j \in DOMAIN jobs : jobs[j] = Found(images[i]) /\ Alone(j)

PromiseInv == PromiseTyped /\ JobsKept /\ EarlierKept /\ FoundInv

LEMMA FinalTyped == \A p \in ImageJob : p.ref \in Ref /\ Final(p) \in Ref
BY DEF ImageJob, Final

(* What the index is after a step of the goroutine of an image.            *)
Wrote(j) ==
  \/ entries' = entries /\ st'[j].at \notin {"rewrite", "ok"}
  \/ \E d \in Digest :
       /\ entries' = [entries EXCEPT ![jobs[j].ref] = [ref |-> jobs[j].ref, dig |-> d]]
       /\ st'[j].at = "rewrite" => jobs[j].rewrite # None
       /\ st'[j].at = "ok" => jobs[j].rewrite = None
  \/ /\ st[j].at = "rewrite" /\ st'[j].at # "rewrite"
     /\ \E m \in Reloaded :
          entries' = [r \in Ref |-> IF m[r] # None /\ m[r].ref = jobs[j].ref
                                      THEN [m[r] EXCEPT !.ref = jobs[j].rewrite] ELSE m[r]]
  \/ st[j].at = "rewrite" /\ st'[j].at = "failed" /\ entries' = entries

LEMMA StepWrote ==
  ASSUME PullInv, jobs \in Seq(ImageJob), NEW j \in DOMAIN st, Go(j) \/ JobStep(j)
  PROVE  Wrote(j)
<1>1. \A r : Goes(j, r) => st'[j] = r
  BY DEF PullInv, PullTyped, Goes
<1>2. st[j] \in JobState /\ PullTyped /\ "pin" \in Places /\ "classic" \in Places /\ "bundle" \in Places
  BY JobTypes DEF PullInv, Places
<1>3. ASSUME NEW r \in Fails(st[j]), Goes(j, r), st[j].at \notin {"rewrite", "ok"}
      PROVE  st'[j].at \notin {"rewrite", "ok"}
  BY <1>1, <1>2, <1>3, FailsGives DEF Ended, Waived
<1>4. ASSUME NEW s \in JobState, NEW place \in Places \ {"rewrite", "ok"}, Goes(j, Attempt(s, place))
      PROVE  st'[j].at \notin {"rewrite", "ok"}
  <2>1. Attempt(s, place).at \in {"skipped", "failed", place}
    BY <1>2, AttemptGives DEF Ended
  <2>2. st'[j] = Attempt(s, place)
    BY <1>1, <1>4
  <2> QED
    BY <2>1, <2>2
<1>5. ASSUME NEW e, Goes(j, Unverified(st[j], e))
      PROVE  st'[j].at \notin {"rewrite", "ok"}
  BY <1>1, <1>2, <1>5 DEF Unverified, JobState
<1>6. CASE Go(j)
  <2>1. Queued \in JobState
    BY DEF Queued, JobState, Named, Places
  <2>2. CASE Goes(j, Attempt(Queued, "pin"))
    BY <1>2, <1>4, <1>6, <2>1, <2>2 DEF Go, Wrote
  <2>3. CASE Goes(j, [Queued EXCEPT !.at = "store"])
    BY <1>1, <1>6, <2>1, <2>3 DEF Go, Wrote, Queued
  <2> QED
    BY <1>6, <2>2, <2>3 DEF Go
<1>7. CASE PinDigest(j)
  <2>1. st[j].at = "pin" /\ entries' = entries
    BY <1>7 DEF PinDigest, At
  <2>2. ASSUME NEW d, Goes(j, [st[j] EXCEPT !.at = "get", !.pinned = d])
        PROVE  st'[j].at = "get"
    BY <1>1, <1>2, <2>2 DEF JobState
  <2> QED
    BY <1>3, <1>7, <2>1, <2>2 DEF PinDigest, Wrote
<1>8. CASE Get(j)
  <2>1. entries' = entries
    BY <1>8 DEF Get
  <2>2. CASE Goes(j, [st[j] EXCEPT !.at = "setup"])
    BY <1>1, <1>2, <2>1, <2>2 DEF JobState, Wrote
  <2>3. CASE Goes(j, Attempt(st[j], "classic"))
    BY <1>2, <1>4, <2>1, <2>3 DEF Wrote
  <2>4. CASE \E e : Goes(j, Unverified(st[j], e))
    BY <1>5, <2>1, <2>4 DEF Wrote
  <2> QED
    BY <1>8, <2>2, <2>3, <2>4 DEF Get
<1>9. CASE NewVerifier(j)
  BY <1>2, <1>4, <1>5, <1>9 DEF NewVerifier, Wrote
<1>10. CASE VerifyImage(j)
  <2>1. entries' = entries /\ st[j].at = "classic"
    BY <1>10 DEF VerifyImage, At
  <2>2. CASE Goes(j, [st[j] EXCEPT !.at = "store"])
    BY <1>1, <1>2, <2>1, <2>2 DEF JobState, Wrote
  <2>3. CASE Goes(j, Attempt(st[j], "bundle"))
    BY <1>2, <1>4, <2>1, <2>3 DEF Wrote
  <2>4. CASE \E e : Goes(j, Unverified(st[j], e))
    BY <1>5, <2>1, <2>4 DEF Wrote
  <2>5. CASE \E s \in Fails(st[j]) : Goes(j, s)
    BY <1>3, <2>1, <2>5 DEF Wrote
  <2> QED
    BY <1>10, <2>2, <2>3, <2>4, <2>5 DEF VerifyImage
<1>11. CASE VerifyBundle(j)
  <2>1. entries' = entries /\ st[j].at = "bundle"
    BY <1>11 DEF VerifyBundle, At
  <2>2. CASE Goes(j, [st[j] EXCEPT !.at = "store"])
    BY <1>1, <1>2, <2>1, <2>2 DEF JobState, Wrote
  <2>3. CASE Goes(j, Unverified(st[j], "error"))
    BY <1>5, <2>1, <2>3 DEF Wrote
  <2>4. CASE \E s \in Fails(st[j]) : Goes(j, s)
    BY <1>3, <2>1, <2>4 DEF Wrote
  <2> QED
    BY <1>11, <2>2, <2>3, <2>4 DEF VerifyBundle
<1>12. CASE StoreImage(j)
  <2>1. entries' = entries
    BY <1>12 DEF StoreImage
  <2>2. st'[j].at \in {"failed", "fetch"}
    BY <1>1, <1>2, <1>12 DEF StoreImage, JobState
  <2> QED
    BY <2>1, <2>2 DEF Wrote
<1>13. CASE AddImage(j)
  <2>1. st[j].at = "fetch" /\ jobs[j] \in ImageJob
    <3>1. j \in DOMAIN jobs
      BY JobTypes
    <3>2. jobs[j] \in ImageJob
      BY <3>1
    <3> QED
      BY <1>13, <3>2 DEF AddImage, At
  <2>2. CASE entries' = entries /\ \E s \in Fails(st[j]) : Goes(j, s)
    BY <1>3, <2>1, <2>2 DEF Wrote
  <2>3. ASSUME NEW d \in IF st[j].pinned = None THEN Names[jobs[j].ref] ELSE {st[j].pinned},
               entries' = [entries EXCEPT ![jobs[j].ref] = [ref |-> jobs[j].ref, dig |-> d]],
               \/ Goes(j, [st[j] EXCEPT !.at = IF jobs[j].rewrite = None THEN "ok" ELSE "rewrite",
                                        !.dig = d])
               \/ \E s \in Fails(st[j]) : Goes(j, s)
        PROVE  Wrote(j)
    <3>1. d \in Digest
      BY <1>2, <2>1, <2>3, ImageAssumption DEF JobState, ImageJob
    <3>2. CASE Goes(j, [st[j] EXCEPT !.at = IF jobs[j].rewrite = None THEN "ok" ELSE "rewrite", !.dig = d])
      <4>1. st'[j].at = IF jobs[j].rewrite = None THEN "ok" ELSE "rewrite"
        BY <1>1, <1>2, <3>2 DEF JobState
      <4> QED
        BY <2>3, <3>1, <4>1 DEF Wrote
    <3>3. CASE \E s \in Fails(st[j]) : Goes(j, s)
      BY <1>3, <2>1, <2>3, <3>1, <3>3 DEF Wrote
    <3> QED
      BY <2>3, <3>2, <3>3
  <2> QED
    BY <1>13, <2>2, <2>3 DEF AddImage
<1>14. CASE RewriteReference(j)
  <2>1. st[j].at = "rewrite"
    BY <1>14 DEF RewriteReference, At
  <2>2. ASSUME Goes(j, [st[j] EXCEPT !.at = "failed", !.err = "rewrite"]) PROVE st'[j].at = "failed"
    BY <1>1, <1>2, <2>2 DEF JobState
  <2>3. ASSUME Goes(j, [st[j] EXCEPT !.at = "ok"]) PROVE st'[j].at = "ok"
    BY <1>1, <1>2, <2>3 DEF JobState
  <2>4. PICK m \in Reloaded :
          LET matched == {r \in Ref : m[r] # None /\ m[r].ref = jobs[j].ref}
              fails   == Goes(j, [st[j] EXCEPT !.at = "failed", !.err = "rewrite"])
          IN \/ /\ entries' = [r \in Ref |-> IF r \in matched THEN [m[r] EXCEPT !.ref = jobs[j].rewrite]
                                                             ELSE m[r]]
                /\ \/ fails
                   \/ matched # {} /\ Goes(j, [st[j] EXCEPT !.at = "ok"])
             \/ fails /\ UNCHANGED entries
    BY <1>14 DEF RewriteReference
  <2>5. CASE entries' = entries /\ st'[j].at = "failed"
    BY <2>1, <2>5 DEF Wrote
  <2>6. CASE ~(entries' = entries /\ st'[j].at = "failed")
    <3>1. st'[j].at # "rewrite"
      BY <2>2, <2>3, <2>4
    <3>2. entries' = [r \in Ref |-> IF m[r] # None /\ m[r].ref = jobs[j].ref
                                      THEN [m[r] EXCEPT !.ref = jobs[j].rewrite] ELSE m[r]]
      BY <2>2, <2>4, <2>6
    <3> QED
      BY <2>1, <3>1, <3>2 DEF Wrote
  <2> QED
    BY <2>5, <2>6
<1> QED
  BY <1>6, <1>7, <1>8, <1>9, <1>10, <1>11, <1>12, <1>13, <1>14 DEF JobStep

(* A reload puts an entry under the key of its own reference.              *)
LEMMA ReloadedGives ==
  ASSUME PromiseTyped, NEW m \in Reloaded
  PROVE  /\ m \in [Ref -> ImageEntry \cup {None}]
         /\ \A k, r \in Ref : HeldAt(k, r, entries) => HeldAt(r, r, m)
<1>1. m \in [Ref -> ImageEntry \cup {None}]
  <2>1. m \in [Ref -> {entries[r] : r \in Ref} \cup {None}]
    BY DEF Reloaded
  <2> QED
    BY <2>1 DEF PromiseTyped
<1>2. ASSUME NEW k \in Ref, NEW r \in Ref, HeldAt(k, r, entries)
      PROVE  HeldAt(r, r, m)
  <2> DEFINE same == {entries[n] : n \in {l \in Ref : entries[l] # None /\ entries[l].ref = r}}
  <2>1. entries[k] \in same
    BY <1>2 DEF HeldAt
  <2>2. m[r] \in same
    BY <2>1 DEF Reloaded
  <2> QED
    BY <2>2 DEF HeldAt
<1> QED
  BY <1>1, <1>2

LEMMA EntriesTyped ==
  ASSUME PromiseTyped, NEW j \in DOMAIN jobs, jobs[j] \in ImageJob,
         st[j].at = "rewrite" => jobs[j].rewrite # None, Wrote(j)
  PROVE  entries' \in [Ref -> ImageEntry \cup {None}]
<1>1. CASE entries' = entries
  BY <1>1 DEF PromiseTyped
<1>2. ASSUME NEW d \in Digest, entries' = [entries EXCEPT ![jobs[j].ref] = [ref |-> jobs[j].ref, dig |-> d]]
      PROVE  entries' \in [Ref -> ImageEntry \cup {None}]
  <2>1. [ref |-> jobs[j].ref, dig |-> d] \in ImageEntry
    BY DEF ImageEntry, ImageJob
  <2> QED
    BY <1>2, <2>1 DEF PromiseTyped
<1>3. ASSUME NEW m \in Reloaded, jobs[j].rewrite # None,
             entries' = [r \in Ref |-> IF m[r] # None /\ m[r].ref = jobs[j].ref
                                         THEN [m[r] EXCEPT !.ref = jobs[j].rewrite] ELSE m[r]]
      PROVE  entries' \in [Ref -> ImageEntry \cup {None}]
  <2>1. jobs[j].rewrite \in Ref
    BY <1>3 DEF ImageJob
  <2>2. m \in [Ref -> ImageEntry \cup {None}]
    BY ReloadedGives
  <2>3. ASSUME NEW e \in ImageEntry PROVE [e EXCEPT !.ref = jobs[j].rewrite] \in ImageEntry
    BY <2>1 DEF ImageEntry
  <2>4. \A r \in Ref : (IF m[r] # None /\ m[r].ref = jobs[j].ref
                          THEN [m[r] EXCEPT !.ref = jobs[j].rewrite] ELSE m[r]) \in ImageEntry \cup {None}
    BY <2>2, <2>3
  <2> QED
    BY <1>3, <2>4
<1> QED
  BY <1>1, <1>2, <1>3 DEF Wrote

(* An entry that a job neither pulls nor renames stays, or is put under    *)
(* its own key.                                                            *)
LEMMA HeldOn ==
  ASSUME PromiseTyped, NEW j \in DOMAIN jobs, Wrote(j), NEW k \in Ref, NEW r \in Ref,
         HeldAt(k, r, entries), k # jobs[j].ref, r # jobs[j].ref
  PROVE  HeldAt(k, r, entries') \/ HeldAt(r, r, entries')
<1>1. CASE entries' = entries
  BY <1>1
<1>2. ASSUME NEW d, entries' = [entries EXCEPT ![jobs[j].ref] = [ref |-> jobs[j].ref, dig |-> d]]
      PROVE  HeldAt(k, r, entries')
  <2>1. entries'[k] = entries[k]
    BY <1>2 DEF PromiseTyped
  <2> QED
    BY <2>1 DEF HeldAt
<1>3. ASSUME NEW m \in Reloaded,
             entries' = [x \in Ref |-> IF m[x] # None /\ m[x].ref = jobs[j].ref
                                         THEN [m[x] EXCEPT !.ref = jobs[j].rewrite] ELSE m[x]]
      PROVE  HeldAt(r, r, entries')
  <2>1. HeldAt(r, r, m)
    BY ReloadedGives
  <2>2. entries'[r] = m[r]
    BY <1>3, <2>1 DEF HeldAt
  <2> QED
    BY <2>1, <2>2 DEF HeldAt
<1> QED
  BY <1>1, <1>2, <1>3 DEF Wrote

LEMMA KeptOn ==
  ASSUME PromiseTyped, NEW j \in DOMAIN jobs, jobs[j] \in ImageJob, Wrote(j), NEW p \in ImageJob,
         ~Touches(jobs[j], p)
  PROVE  /\ KeptIn(p, entries) => KeptIn(p, entries')
         /\ HeldAt(p.ref, p.ref, entries) => HeldAt(p.ref, p.ref, entries')
<1>1. p.ref # jobs[j].ref /\ Final(p) # jobs[j].ref /\ p.ref \in Ref /\ Final(p) \in Ref
  BY FinalTyped DEF Touches
<1> QED
  BY <1>1, HeldOn DEF KeptIn

(* What the job itself is to store.                                        *)
LEMMA OwnOn ==
  ASSUME PullInv, PromiseInv, NEW j \in DOMAIN st, jobs[j] \in ImageJob, j \in DOMAIN jobs, Wrote(j),
         Alone(j), st[j].at # "ok"
  PROVE  /\ st'[j].at = "rewrite" => HeldAt(jobs[j].ref, jobs[j].ref, entries')
         /\ st'[j].at = "ok" => KeptIn(jobs[j], entries')
<1>1. jobs[j].ref \in Ref /\ entries \in [Ref -> ImageEntry \cup {None}]
  BY DEF ImageJob, PromiseInv, PromiseTyped
<1>2. ASSUME NEW d \in Digest,
             entries' = [entries EXCEPT ![jobs[j].ref] = [ref |-> jobs[j].ref, dig |-> d]],
             st'[j].at = "ok" => jobs[j].rewrite = None
      PROVE  /\ HeldAt(jobs[j].ref, jobs[j].ref, entries')
             /\ st'[j].at = "ok" => KeptIn(jobs[j], entries')
  <2>1. entries'[jobs[j].ref] = [ref |-> jobs[j].ref, dig |-> d]
    BY <1>1, <1>2
  <2>2. [ref |-> jobs[j].ref, dig |-> d] # None
    BY <1>1, ImageAssumption
  <2>3. HeldAt(jobs[j].ref, jobs[j].ref, entries')
    BY <2>1, <2>2 DEF HeldAt
  <2> QED
    BY <1>2, <2>3 DEF KeptIn, Final
<1>3. ASSUME NEW m \in Reloaded, st[j].at = "rewrite", st'[j].at # "rewrite",
             entries' = [x \in Ref |-> IF m[x] # None /\ m[x].ref = jobs[j].ref
                                         THEN [m[x] EXCEPT !.ref = jobs[j].rewrite] ELSE m[x]]
      PROVE  KeptIn(jobs[j], entries')
  <2>1. HeldAt(jobs[j].ref, jobs[j].ref, entries) /\ jobs[j].rewrite # None
    BY <1>3 DEF PromiseInv, JobsKept
  <2>2. HeldAt(jobs[j].ref, jobs[j].ref, m) /\ m \in [Ref -> ImageEntry \cup {None}]
    BY <1>1, <2>1, ReloadedGives DEF PromiseInv
  <2>3. m[jobs[j].ref] \in ImageEntry /\ entries'[jobs[j].ref] = [m[jobs[j].ref] EXCEPT !.ref = jobs[j].rewrite]
    BY <1>1, <1>3, <2>2 DEF HeldAt
  <2>4. entries'[jobs[j].ref].ref = jobs[j].rewrite /\ entries'[jobs[j].ref] \in ImageEntry
    BY <1>1, <2>1, <2>3 DEF ImageEntry, ImageJob
  <2>5. None \notin ImageEntry
    BY ImageAssumption DEF ImageEntry
  <2> QED
    BY <2>1, <2>4, <2>5 DEF HeldAt, KeptIn, Final
<1> QED
  BY <1>2, <1>3 DEF Wrote

LEMMA PullStepPromises ==
  ASSUME PullInv, PromiseInv, NEW j \in DOMAIN st, Go(j) \/ JobStep(j), phase = "pull",
         UNCHANGED <<walkVars, phase, promised>>
  PROVE  PromiseInv'
<1>1. /\ j \in DOMAIN jobs /\ jobs \in Seq(ImageJob) /\ UNCHANGED <<jobs, ignoreErrors, images>>
  BY JobTypes DEF PromiseInv, PromiseTyped, Go, JobStep, PinDigest, Get, NewVerifier, VerifyImage,
                  VerifyBundle, StoreImage, AddImage, RewriteReference, walkVars
<1>2. jobs[j] \in ImageJob /\ Wrote(j) /\ PromiseTyped /\ JobsKept
  BY <1>1, StepWrote DEF PromiseInv
<1>3. PICK r : Goes(j, r) /\ Moved(j, r)
  BY PullStepKeeps
<1>4. /\ DOMAIN st' = DOMAIN st /\ DOMAIN st = DOMAIN jobs /\ st'[j] = r
      /\ \A i \in DOMAIN st \ {j} : st'[i] = st[i]
      /\ runErr # None => runErr' # None
      /\ r.at = "failed" => runErr' # None
      /\ r.at = "skipped" => ignoreErrors
  BY <1>3 DEF Goes, PullInv, PullTyped, Moved, Reports
<1>5. st[j].at # "ok"
  BY DEF Go, JobStep, PinDigest, Get, NewVerifier, VerifyImage, VerifyBundle, StoreImage, AddImage,
         RewriteReference, At
<1>6. PromiseTyped'
  BY <1>1, <1>2, EntriesTyped DEF PromiseTyped, JobsKept
<1>7. JobsKept'
  <2>1. \A i : Alone(i)' = Alone(i)
    BY <1>1 DEF Alone, Touches
  <2>2. ASSUME NEW i \in DOMAIN st PROVE st'[i].at = "rewrite" => jobs[i].rewrite # None
    <3>1. st'[j].at = "rewrite" => jobs[j].rewrite # None
      BY <1>2 DEF Wrote
    <3>2. i # j => st'[i] = st[i] /\ (st[i].at = "rewrite" => jobs[i].rewrite # None)
      BY <1>2, <1>4 DEF JobsKept
    <3> QED
      BY <3>1, <3>2
  <2>3. ASSUME NEW i \in DOMAIN st
        PROVE  /\ st'[i].at = "failed" => runErr' # None
               /\ st'[i].at = "skipped" => ignoreErrors
    BY <1>2, <1>4 DEF JobsKept
  <2>4. ASSUME NEW i \in DOMAIN st, Alone(i)
        PROVE  /\ st'[i].at = "rewrite" => HeldAt(jobs[i].ref, jobs[i].ref, entries')
               /\ st'[i].at = "ok" => KeptIn(jobs[i], entries')
    <3>1. CASE i = j
      BY <1>1, <1>2, <1>5, <2>4, <3>1, OwnOn
    <3>2. CASE i # j
      <4>1. st'[i] = st[i] /\ i \in DOMAIN jobs /\ jobs[i] \in ImageJob
        BY <1>1, <1>4, <3>2
      <4>2. ~Touches(jobs[j], jobs[i])
        BY <1>1, <2>4, <3>2 DEF Alone
      <4>3. /\ st[i].at = "rewrite" => HeldAt(jobs[i].ref, jobs[i].ref, entries)
            /\ st[i].at = "ok" => KeptIn(jobs[i], entries)
        BY <1>2, <2>4 DEF JobsKept
      <4>4. /\ KeptIn(jobs[i], entries) => KeptIn(jobs[i], entries')
            /\ HeldAt(jobs[i].ref, jobs[i].ref, entries) => HeldAt(jobs[i].ref, jobs[i].ref, entries')
        BY <1>1, <1>2, <4>1, <4>2, KeptOn
      <4> QED
        BY <4>1, <4>3, <4>4
    <3> QED
      BY <3>1, <3>2
  <2> QED
    BY <1>1, <1>4, <2>1, <2>2, <2>3, <2>4 DEF JobsKept
<1>8. EarlierKept'
  <2> SUFFICES ASSUME NEW p \in promised
               PROVE  KeptIn(p, entries') \/ \E i \in DOMAIN jobs : Touches(jobs[i], p)
    BY <1>1 DEF EarlierKept, Touches
  <2>1. p \in ImageJob
    BY <1>2 DEF PromiseTyped
  <2>2. CASE \E i \in DOMAIN jobs : Touches(jobs[i], p)
    BY <2>2
  <2>3. CASE ~Touches(jobs[j], p) /\ KeptIn(p, entries)
    BY <1>1, <1>2, <2>1, <2>3, KeptOn
  <2> QED
    BY <1>1, <2>2, <2>3 DEF PromiseInv, EarlierKept
<1>9. FoundInv'
  BY <1>1 DEF PromiseInv, FoundInv, Alone, Touches
<1> QED
  BY <1>6, <1>7, <1>8, <1>9 DEF PromiseInv

(* A step outside the pull.                                                *)
LEMMA OtherStepPromises ==
  ASSUME PromiseInv, UNCHANGED <<ignoreErrors, pullVars, promised>>,
         phase # "pull", phase' # "pull", phase' # "walk" => images' = <<>>
  PROVE  PromiseInv'
<1>1. PromiseTyped'
  BY DEF PromiseInv, PromiseTyped, pullVars
<1>2. JobsKept'
  BY DEF PromiseInv, JobsKept, Alone, Touches, pullVars
<1>3. EarlierKept'
  BY DEF PromiseInv, EarlierKept, pullVars
<1>4. FoundInv'
  BY DEF PromiseInv, FoundInv
<1> QED
  BY <1>1, <1>2, <1>3, <1>4 DEF PromiseInv

(* A pull begins.                                                          *)
LEMMA PullStartPromises ==
  ASSUME PromiseInv, NEW js \in Seq(ImageJob), PullStart(js), phase # "pull", phase' = "pull",
         UNCHANGED <<images, promised>>, FoundInv'
  PROVE  PromiseInv'
<1>1. jobs' = js /\ st' = [j \in DOMAIN js |-> Queued] /\ UNCHANGED <<ignoreErrors, entries>>
  BY DEF PullStart
<1>2. PromiseTyped'
  BY <1>1 DEF PromiseInv, PromiseTyped
<1>3. JobsKept'
  BY <1>1 DEF JobsKept, Queued
<1>4. EarlierKept'
  BY <1>1 DEF PromiseInv, EarlierKept
<1> QED
  BY <1>2, <1>3, <1>4 DEF PromiseInv

LEMMA PullFoundPromises ==
  ASSUME WalkInv, PromiseInv, PullFound
  PROVE  PromiseInv'
<1> DEFINE first(i) == \A k \in 1..(i - 1) : images[k] # images[i]
           once == {i \in DOMAIN images : first(i)}
<1>1. /\ phase = "walk" /\ phase' = "pull" /\ UNCHANGED <<images, promised>>
      /\ \E refs \in Deduped : PullStart([i \in DOMAIN refs |-> Found(refs[i])])
  BY DEF PullFound, walkVars
<1>2. images \in Seq(Ref) /\ Len(images) \in Nat /\ DOMAIN images = 1..Len(images)
  BY DEF WalkInv, WalkTyped
<1>3. once \subseteq DOMAIN images /\ once \subseteq Nat /\ IsFiniteSet(once)
  <2>1. once \subseteq DOMAIN images /\ DOMAIN images \subseteq Nat
    BY <1>2
  <2>2. IsFiniteSet(DOMAIN images)
    BY <1>2, FS_Interval
  <2> HIDE DEF once
  <2> QED
    BY <2>1, <2>2, FS_Subset
<1>4. PICK order \in InOrder(once) :
        PullStart([i \in DOMAIN [n \in DOMAIN order |-> images[order[n]]]
                     |-> Found([n \in DOMAIN order |-> images[order[n]]][i])])
  BY <1>1 DEF Deduped
<1>5. /\ order \in Seq(once)
      /\ \A i, k \in DOMAIN order : i < k => order[i] < order[k]
      /\ \A n \in once : \E i \in DOMAIN order : order[i] = n
  <2> HIDE DEF once
  <2> QED
    BY <1>3, InOrderGives
<1>6. \A r \in Ref : Found(r) \in ImageJob /\ Found(r).ref = r /\ Final(Found(r)) = r
  BY DEF Found, ImageJob, Final
<1>7. PICK js \in Seq(ImageJob) :
        /\ PullStart(js) /\ DOMAIN js = DOMAIN order
        /\ \A i \in DOMAIN js : order[i] \in once /\ js[i] = Found(images[order[i]])
  <2> HIDE DEF once
  <2>1. DOMAIN order = 1..Len(order) /\ Len(order) \in Nat /\ \A i \in 1..Len(order) : order[i] \in once
    BY <1>5
  <2> DEFINE found == [i \in DOMAIN order |-> Found(images[order[i]])]
  <2>2. \A i \in 1..Len(order) : Found(images[order[i]]) \in ImageJob
    BY <1>2, <1>3, <1>6, <2>1
  <2>3. found \in Seq(ImageJob)
    BY <2>1, <2>2
  <2>4. PullStart(found)
    <3>1. found = [i \in DOMAIN [n \in DOMAIN order |-> images[order[n]]]
                     |-> Found([n \in DOMAIN order |-> images[order[n]]][i])]
      OBVIOUS
    <3> QED
      BY <1>4, <3>1
  <2>5. DOMAIN found = DOMAIN order /\ \A i \in DOMAIN found : found[i] = Found(images[order[i]])
    OBVIOUS
  <2> HIDE DEF found
  <2> QED
    BY <2>1, <2>3, <2>4, <2>5
<1>8. ASSUME NEW i \in DOMAIN images
      PROVE  \E j \in DOMAIN js : js[j] = Found(images[i])
  <2> DEFINE T == {n \in DOMAIN images : images[n] = images[i]}
  <2>1. PICK n \in T : \A m \in T : n <= m
    <3>1. T \subseteq Nat /\ T # {}
      BY <1>2
    <3> HIDE DEF T
    <3> QED
      BY <3>1, LeastNumber
  <2>2. n \in once
    <3>1. n \in DOMAIN images /\ images[n] = images[i]
      BY <2>1
    <3>2. ASSUME NEW m \in 1..(n - 1) PROVE images[m] # images[n]
      <4>1. m \in DOMAIN images /\ m < n
        BY <1>2, <3>1
      <4> QED
        BY <1>2, <2>1, <3>1, <4>1
    <3> QED
      BY <3>1, <3>2
  <2>3. PICK l \in DOMAIN order : order[l] = n
    BY <1>5, <2>2
  <2> QED
    BY <1>7, <2>1, <2>3
<1>9. ASSUME NEW i \in DOMAIN js, NEW k \in DOMAIN js, i # k
      PROVE  ~Touches(js[i], js[k])
  <2>1. i \in Nat /\ k \in Nat /\ order[i] \in once /\ order[k] \in once
    BY <1>5, <1>7
  <2>2. ASSUME NEW a \in DOMAIN js, NEW b \in DOMAIN js, a < b
        PROVE  images[order[a]] # images[order[b]]
    <3>1. order[a] \in once /\ order[b] \in once /\ order[a] < order[b]
      BY <1>5, <1>7, <2>2
    <3>2. order[a] \in 1..(order[b] - 1) /\ first(order[b])
      BY <1>2, <3>1
    <3> QED
      BY <3>2
  <2>3. images[order[i]] # images[order[k]] /\ images[order[i]] \in Ref /\ images[order[k]] \in Ref
    BY <1>2, <1>9, <2>1, <2>2
  <2> QED
    BY <1>6, <1>7, <2>3 DEF Touches
<1>10. jobs' = js
  BY <1>7 DEF PullStart
<1>11. FoundInv'
  <2>1. ASSUME NEW i \in DOMAIN images
        PROVE  \E j \in DOMAIN js : js[j] = Found(images[i]) /\ \A k \in DOMAIN js \ {j} : ~Touches(js[k], js[j])
    BY <1>8, <1>9
  <2> QED
    BY <1>1, <1>10, <2>1 DEF FoundInv, Alone, Touches, Found, Final
<1> QED
  BY <1>1, <1>7, <1>11, PullStartPromises

LEMMA EndDocumentPromises ==
  ASSUME PullInv, PromiseInv, EndDocument
  PROVE  PromiseInv'
<1>1. /\ phase = "pull" /\ Pulled /\ phase' \in {"next", "end"} /\ images' = <<>>
      /\ UNCHANGED <<ignoreErrors, jobs, st, runErr, entries>>
  BY DEF EndDocument, WalkEnd, pullVars
<1>2. DOMAIN st = DOMAIN jobs /\ \A j \in DOMAIN jobs : jobs[j] \in ImageJob
  BY DEF PullInv, PullTyped, PromiseInv, PromiseTyped
<1>3. ASSUME NEW p \in promised' PROVE p \in ImageJob /\ KeptIn(p, entries)
  <2>1. CASE p \in promised /\ \A j \in DOMAIN jobs : ~Touches(jobs[j], p)
    BY <2>1 DEF PromiseInv, PromiseTyped, EarlierKept
  <2>2. ASSUME NEW i \in DOMAIN st, st[i].at = "ok", p = jobs[i], Alone(i)
        PROVE  p \in ImageJob /\ KeptIn(p, entries)
    BY <1>2, <2>2 DEF PromiseInv, JobsKept
  <2>3. ASSUME runErr = None, ~ignoreErrors, NEW i \in DOMAIN images, p = Found(images[i])
        PROVE  p \in ImageJob /\ KeptIn(p, entries)
    <3>1. PICK j \in DOMAIN jobs : jobs[j] = p /\ Alone(j)
      BY <1>1, <2>3 DEF PromiseInv, FoundInv
    <3>2. st[j].at = "ok"
      BY <1>1, <1>2, <2>3 DEF PromiseInv, JobsKept, Pulled, Over
    <3> QED
      BY <1>2, <2>2, <3>1, <3>2
  <2>4. \/ p \in promised /\ \A j \in DOMAIN jobs : ~Touches(jobs[j], p)
        \/ \E i \in DOMAIN st : st[i].at = "ok" /\ Alone(i) /\ p = jobs[i]
        \/ runErr = None /\ ~ignoreErrors /\ \E i \in DOMAIN images : p = Found(images[i])
    BY <1>3 DEF EndDocument, Alone
  <2> QED
    BY <2>1, <2>2, <2>3, <2>4
<1>4. PromiseTyped'
  BY <1>1, <1>3 DEF PromiseInv, PromiseTyped
<1>5. JobsKept'
  BY <1>1 DEF PromiseInv, JobsKept, Alone, Touches
<1>6. EarlierKept'
  BY <1>1, <1>3 DEF EarlierKept
<1>7. FoundInv'
  BY <1>1 DEF FoundInv
<1> QED
  BY <1>4, <1>5, <1>6, <1>7 DEF PromiseInv

LEMMA InitPromises == Init => PromiseInv
<1> SUFFICES ASSUME Init PROVE PromiseInv
  OBVIOUS
<1>1. PromiseTyped
  BY DEF Init, PullInit, EmptyMap, PromiseTyped
<1>2. JobsKept /\ EarlierKept /\ FoundInv
  BY DEF Init, PullInit, WalkInit, JobsKept, EarlierKept, FoundInv
<1> QED
  BY <1>1, <1>2 DEF PromiseInv

LEMMA NextPromises == Invariant /\ PromiseInv /\ [Next]_vars => PromiseInv'
<1> SUFFICES ASSUME Invariant, PromiseInv, [Next]_vars PROVE PromiseInv'
  OBVIOUS
<1>1. DocsInv /\ PullInv /\ WalkInv
  BY DEF Invariant
<1>2. phase \notin {"walk", "pull"} => images = <<>>
  BY DEF PromiseInv, FoundInv
<1>3. CASE SkipDocument \/ RejectDocument \/ ChartsDocument \/ FilesDocument \/ WalkFails
           \/ EndFiles \/ Finish \/ WalkOn \/ (\E i \in DOMAIN at : WalkStep(i))
           \/ \E j \in DOMAIN ft : StoreStep(j)
  <2>1. UNCHANGED <<ignoreErrors, pullVars, promised>>
    BY <1>3 DEF SkipDocument, RejectDocument, ChartsDocument, FilesDocument, WalkFails, EndFiles,
                Finish, WalkOn, WalkStep, StoreStep
  <2>2. phase # "pull" /\ phase' # "pull"
    BY <1>3 DEF SkipDocument, RejectDocument, ChartsDocument, FilesDocument, WalkFails, EndFiles,
                Finish, WalkOn, WalkStep, StoreStep
  <2>3. phase' # "walk" => images' = <<>>
    BY <1>2, <1>3 DEF SkipDocument, RejectDocument, ChartsDocument, FilesDocument, WalkFails, WalkEnd,
                EndFiles, Finish, WalkOn, WalkStep, StoreStep, walkVars
  <2> QED
    BY <2>1, <2>2, <2>3, OtherStepPromises
<1>4. CASE ImagesDocument
  <2>1. docs # <<>> /\ PullStart(docs[1].images) /\ phase = "next" /\ phase' = "pull"
        /\ UNCHANGED <<images, promised>>
    BY <1>4 DEF ImagesDocument, walkVars
  <2>2. FoundInv'
    BY <1>2, <2>1 DEF FoundInv
  <2> QED
    BY <1>1, <2>1, <2>2, DocTypes, PullStartPromises
<1>5. CASE PullFound
  BY <1>1, <1>5, PullFoundPromises
<1>6. CASE EndDocument
  BY <1>1, <1>6, EndDocumentPromises
<1>7. CASE \E j \in DOMAIN st : PullStep(j)
  BY <1>1, <1>7, PullStepPromises DEF PullStep
<1>8. CASE UNCHANGED vars
  <2>1. UNCHANGED <<ignoreErrors, pullVars, images, phase, promised>>
    BY <1>8 DEF vars, walkVars
  <2>2. PromiseTyped' /\ JobsKept' /\ EarlierKept'
    BY <2>1 DEF PromiseInv, PromiseTyped, JobsKept, EarlierKept, Alone, Touches, pullVars
  <2>3. FoundInv'
    BY <2>1 DEF PromiseInv, FoundInv, Alone, Touches, pullVars
  <2> QED
    BY <2>2, <2>3 DEF PromiseInv
<1> QED
  BY <1>3, <1>4, <1>5, <1>6, <1>7, <1>8 DEF Next, DocStep

(* What the command has reported as stored, image by image or for all the  *)
(* charts of a document, is in the store under the name it was to have     *)
(* when the command goes on and when it ends, whatever failed, was retried *)
(* or reloaded in between.                                                 *)
THEOREM ReportedIsStored == Spec => []PromisesKept
<1>1. ASSUME PromiseInv PROVE PromisesKept
  <2> SUFFICES ASSUME phase \in {"next", "end"}, NEW p \in promised
               PROVE  \E r \in Ref : entries[r] # None /\ entries[r].ref = Final(p)
    BY DEF PromisesKept
  <2>1. p \in ImageJob /\ KeptIn(p, entries)
    BY <1>1 DEF PromiseInv, PromiseTyped, EarlierKept
  <2> QED
    BY <2>1, FinalTyped DEF KeptIn, HeldAt
<1>2. Spec => []PromiseInv
  BY InitPromises, NextPromises, InvariantHolds, PTL DEF Spec
<1> QED
  BY <1>1, <1>2, PTL
=============================================================================
