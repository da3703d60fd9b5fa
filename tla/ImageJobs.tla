----------------------------- MODULE ImageJobs ------------------------------
(***************************************************************************)
(* The images of one sync document (cmd/hauler/cli/store/sync.go,          *)
(* runRemoteImageJobsWith): an errgroup with a limit runs one goroutine    *)
(* per image, which pins the tag to a digest, verifies that digest with a  *)
(* Verifier shared by all images of one Config (pkg/cosign), and stores    *)
(* the image (storeImage).  The first error of a goroutine cancels the     *)
(* group's context and is what the document fails with.                    *)
(*                                                                         *)
(* What a tag names may change at any time: each request for it is         *)
(* answered with any of its digests.  AddImage is one step here, the       *)
(* module Layout takes it apart.                                           *)
(***************************************************************************)
EXTENDS Naturals, Sequences, FiniteSets

CONSTANTS
  Ref,          \* image references
  Digest,
  Names,        \* the digests a reference may name in the registry
  Config,       \* cosign.Config values that ask for a verification
  Classic,      \* the answer of a tag-based check: "good", "bad" or "absent"
  Bundle,       \* whether the bundle of a digest checks out
  Retries,      \* --retries
  Concurrency,  \* --concurrency
  None

Errors == {"error", "rewrite", "canceled"}

ImageJob == [ref : Ref, cfg : Config \cup {None}, rewrite : Ref \cup {None}]

ASSUME ImageAssumption ==
  /\ Names \in [Ref -> SUBSET Digest]
  /\ Classic \in [Config \X Digest -> {"good", "bad", "absent"}]
  /\ Bundle \in [Config \X Digest -> BOOLEAN]
  /\ Retries \in Nat \ {0}
  /\ Concurrency \in Nat \ {0}
  /\ None \notin Ref \cup Digest \cup Config \cup Errors \cup Nat
  /\ None \notin [ref : Ref, dig : Digest]

VARIABLES
  ignoreErrors,  \* --ignore-errors
  doc,           \* how many documents were begun
  jobs,          \* the images of the document
  st,            \* the state of each job's goroutine
  runErr,        \* the group's first error; its context is cancelled by it
  verifier,      \* the Cache: Config -> [is, doc]
  lock,          \* the job that holds Cache.mu, or None
  builds,        \* how often the trust material of a Config was set up
  entries        \* nameMap: the entry added under a Ref, or None

pullVars == <<doc, jobs, st, runErr, verifier, lock, builds, entries>>

(* A goroutine: where it is, the attempts it has left there, the digest it *)
(* pinned, the error of its verification if that was waived, the error it  *)
(* ends with, the digest it stored.                                        *)
Places == {"queued", "pin", "get", "setup", "classic", "bundle", "store",
           "fetch", "rewrite", "ok", "skipped", "failed"}
Over   == {"ok", "skipped", "failed"}

Queued   == [at |-> "queued", left |-> 0, pinned |-> None, waived |-> None, err |-> None, dig |-> None]
Unbuilt  == [is |-> "none", doc |-> 0]
EmptyMap == [r \in Ref |-> None]

PullTypeOK ==
  /\ ignoreErrors \in BOOLEAN
  /\ doc \in Nat
  /\ \A j \in DOMAIN jobs : jobs[j] \in ImageJob
  /\ DOMAIN st = DOMAIN jobs
  /\ \A j \in DOMAIN st :
       /\ st[j].at \in Places
       /\ st[j].left \in 0..Retries
       /\ st[j].pinned \in Digest \cup {None}
       /\ st[j].waived \in Errors \cup {None}
       /\ st[j].err \in Errors \cup {None}
       /\ st[j].dig \in Digest \cup {None}
  /\ runErr \in Errors \cup {None}
  /\ verifier \in [Config -> [is : {"none", "ready", "error", "canceled"}, doc : Nat]]
  /\ lock \in DOMAIN jobs \cup {None}
  /\ builds \in [Config -> Nat]
  /\ \A r \in Ref : entries[r] = None \/ (entries[r].ref \in Ref /\ entries[r].dig \in Digest)

PullInit ==
  /\ ignoreErrors \in BOOLEAN
  /\ doc = 0
  /\ jobs = <<>>
  /\ st = <<>>
  /\ runErr = None
  /\ verifier = [c \in Config |-> Unbuilt]
  /\ lock = None
  /\ builds = [c \in Config |-> 0]
  /\ entries = EmptyMap

-----------------------------------------------------------------------------
Canceled == runErr # None
Running  == {j \in DOMAIN st : st[j].at \notin Over \cup {"queued"}}

(* logVerifyFailure: a cancellation, and without --ignore-errors any       *)
(* failure, ends the job; otherwise it goes on to store the image.         *)
Unverified(s, e) ==
  IF e = "canceled" \/ ~ignoreErrors THEN [s EXCEPT !.at = "failed", !.err = e]
                                     ELSE [s EXCEPT !.at = "store", !.waived = e]

(* storeImage, when AddImage failed for good.                              *)
Unstored(s, e) ==
  IF ignoreErrors THEN [s EXCEPT !.at = "skipped"]
                  ELSE [s EXCEPT !.at = "failed", !.err = e]

(* retry.Operation begins, and looks at the context first.                 *)
Attempt(s, at) ==
  IF Canceled THEN Unverified(s, "canceled") ELSE [s EXCEPT !.at = at, !.left = Retries]

(* The caller of retry.Operation takes its error.                          *)
GivesUp(s, e) == IF s.at = "fetch" THEN Unstored(s, e) ELSE Unverified(s, e)

(* What may follow a failed attempt.                                       *)
Fails(s) ==
  CASE Canceled /\ s.left > 1 -> {GivesUp(s, "canceled")}
    [] Canceled /\ s.left = 1 -> {GivesUp(s, "canceled"), GivesUp(s, "error")}
    [] ~Canceled /\ s.left > 1 -> {[s EXCEPT !.left = @ - 1]}
    [] OTHER -> {GivesUp(s, "error")}

(* The errgroup keeps the first error.                                     *)
Goes(j, s) ==
  /\ st' = [st EXCEPT ![j] = s]
  /\ runErr' = IF s.at = "failed" /\ runErr = None THEN s.err ELSE runErr

At(j, at) == j \in DOMAIN st /\ st[j].at = at

-----------------------------------------------------------------------------
(* Mutant: the Cache lives as long as the command.                         *)
PullStartKeepsCache(js) ==
  /\ doc' = doc + 1
  /\ jobs' = js
  /\ st' = [j \in DOMAIN js |-> Queued]
  /\ runErr' = None
  /\ builds' = [c \in Config |-> 0]
  /\ UNCHANGED <<ignoreErrors, verifier, lock, entries>>

(* runRemoteImageJobsWith begins, with a Cache of its own.                 *)
PullStart(js) ==
  /\ doc' = doc + 1
  /\ jobs' = js
  /\ st' = [j \in DOMAIN js |-> Queued]
  /\ runErr' = None
  /\ verifier' = [c \in Config |-> Unbuilt]
  /\ builds' = [c \in Config |-> 0]
  /\ lock' = None
  /\ UNCHANGED <<ignoreErrors, entries>>

(* g.Go blocks while the group is full; the jobs start in their order, and *)
(* all of them do, cancelled or not.                                       *)
Go(j) ==
  /\ At(j, "queued")
  /\ \A i \in 1..(j - 1) : ~At(i, "queued")
  /\ Cardinality(Running) < Concurrency
  /\ Goes(j, IF jobs[j].cfg = None THEN [Queued EXCEPT !.at = "store"]
                                   ELSE Attempt(Queued, "pin"))
  /\ UNCHANGED <<ignoreErrors, doc, jobs, verifier, lock, builds, entries>>

PinDigest(j) ==
  /\ At(j, "pin")
  /\ \/ \E d \in Names[jobs[j].ref] : Goes(j, [st[j] EXCEPT !.at = "get", !.pinned = d])
     \/ \E s \in Fails(st[j]) : Goes(j, s)
  /\ UNCHANGED <<ignoreErrors, doc, jobs, verifier, lock, builds, entries>>

(* Cache.Get: the lock is held while a Verifier is built, and a failure to *)
(* build it is cached.                                                     *)
Get(j) ==
  /\ At(j, "get") /\ lock = None
  /\ LET v == verifier[jobs[j].cfg]
     IN /\ Goes(j, CASE v.is = "none" -> [st[j] EXCEPT !.at = "setup"]
                     [] v.is = "ready" -> Attempt(st[j], "classic")
                     [] OTHER -> Unverified(st[j], v.is))
        /\ lock' = IF v.is = "none" THEN j ELSE None
  /\ UNCHANGED <<ignoreErrors, doc, jobs, verifier, builds, entries>>

(* Mutant: a setup that fails returns with the lock held.                  *)
NewVerifierKeepsLock(j) ==
  /\ At(j, "setup")
  /\ \E is \in {"ready", "error"} \cup (IF Canceled THEN {"canceled"} ELSE {}) :
       /\ verifier' = [verifier EXCEPT ![jobs[j].cfg] = [is |-> is, doc |-> doc]]
       /\ Goes(j, IF is = "ready" THEN Attempt(st[j], "classic") ELSE Unverified(st[j], is))
       /\ lock' = IF is = "ready" THEN None ELSE lock
  /\ builds' = [builds EXCEPT ![jobs[j].cfg] = @ + 1]
  /\ UNCHANGED <<ignoreErrors, doc, jobs, entries>>

NewVerifier(j) ==
  /\ At(j, "setup")
  /\ \E is \in {"ready", "error"} \cup (IF Canceled THEN {"canceled"} ELSE {}) :
       /\ verifier' = [verifier EXCEPT ![jobs[j].cfg] = [is |-> is, doc |-> doc]]
       /\ Goes(j, IF is = "ready" THEN Attempt(st[j], "classic") ELSE Unverified(st[j], is))
  /\ builds' = [builds EXCEPT ![jobs[j].cfg] = @ + 1]
  /\ lock' = None
  /\ UNCHANGED <<ignoreErrors, doc, jobs, entries>>

(* A Verifier keeps the context it was built with, which ends with its     *)
(* document's group.                                                       *)
Stale(j) == verifier[jobs[j].cfg].doc # doc

(* Verify, the tag-based check: a bad signature is final, an absent one    *)
(* leads to the bundle, anything else is tried again.                      *)
VerifyImage(j) ==
  /\ At(j, "classic")
  /\ IF Stale(j) THEN Goes(j, Unverified(st[j], "canceled"))
     ELSE \/ CASE Classic[jobs[j].cfg, st[j].pinned] = "good" -> Goes(j, [st[j] EXCEPT !.at = "store"])
               [] Classic[jobs[j].cfg, st[j].pinned] = "bad"  -> Goes(j, Unverified(st[j], "error"))
               [] OTHER -> Goes(j, Attempt(st[j], "bundle"))
          \/ \E s \in Fails(st[j]) : Goes(j, s)
  /\ UNCHANGED <<ignoreErrors, doc, jobs, verifier, lock, builds, entries>>

(* The bundle check: a bundle that fails, and one that seems absent, are   *)
(* final; a blip may look like absence.                                    *)
VerifyBundle(j) ==
  /\ At(j, "bundle")
  /\ \/ Bundle[jobs[j].cfg, st[j].pinned] /\ Goes(j, [st[j] EXCEPT !.at = "store"])
     \/ Goes(j, Unverified(st[j], "error"))
     \/ \E s \in Fails(st[j]) : Goes(j, s)
  /\ UNCHANGED <<ignoreErrors, doc, jobs, verifier, lock, builds, entries>>

-----------------------------------------------------------------------------
(* Mutant: no look at the context before the image is stored.              *)
StoreImageUnchecked(j) ==
  /\ At(j, "store")
  /\ Goes(j, [st[j] EXCEPT !.at = "fetch", !.left = Retries])
  /\ UNCHANGED <<ignoreErrors, doc, jobs, verifier, lock, builds, entries>>

StoreImage(j) ==
  /\ At(j, "store")
  /\ Goes(j, IF Canceled THEN [st[j] EXCEPT !.at = "failed", !.err = "canceled"]
                         ELSE [st[j] EXCEPT !.at = "fetch", !.left = Retries])
  /\ UNCHANGED <<ignoreErrors, doc, jobs, verifier, lock, builds, entries>>

(* Mutant: AddImage resolves the tag again.                                *)
AddImageUnpinned(j) ==
  /\ At(j, "fetch")
  /\ \E d \in Names[jobs[j].ref] :
       /\ entries' = [entries EXCEPT ![jobs[j].ref] = [ref |-> jobs[j].ref, dig |-> d]]
       /\ Goes(j, [st[j] EXCEPT !.at = IF jobs[j].rewrite = None THEN "ok" ELSE "rewrite",
                                !.dig = d])
  /\ UNCHANGED <<ignoreErrors, doc, jobs, verifier, lock, builds>>

(* An attempt at AddImage: the pinned digest, or what the tag names now,   *)
(* is fetched and added; the attempt may fail before or after that.        *)
AddImage(j) ==
  /\ At(j, "fetch")
  /\ \/ \E d \in IF st[j].pinned = None THEN Names[jobs[j].ref] ELSE {st[j].pinned} :
          /\ entries' = [entries EXCEPT ![jobs[j].ref] = [ref |-> jobs[j].ref, dig |-> d]]
          /\ \/ Goes(j, [st[j] EXCEPT !.at = IF jobs[j].rewrite = None THEN "ok" ELSE "rewrite",
                                      !.dig = d])
             \/ \E s \in Fails(st[j]) : Goes(j, s)
     \/ /\ \E s \in Fails(st[j]) : Goes(j, s)
        /\ UNCHANGED entries
  /\ UNCHANGED <<ignoreErrors, doc, jobs, verifier, lock, builds>>

(* loadIndexLocked stores every entry under the key of its own reference;  *)
(* of two with one reference either may come last.                         *)
Reloaded ==
  {m \in [Ref -> {entries[r] : r \in Ref} \cup {None}] :
     \A r \in Ref :
       LET named == {entries[k] : k \in {l \in Ref : entries[l] # None /\ entries[l].ref = r}}
       IN IF named = {} THEN m[r] = entries[r] ELSE m[r] \in named}

(* Mutant: nothing but the look-up.                                        *)
RewriteReferenceFinds(j) ==
  /\ At(j, "rewrite")
  /\ Goes(j, [st[j] EXCEPT !.at = "ok"])
  /\ UNCHANGED <<ignoreErrors, doc, jobs, verifier, lock, builds, entries>>

(* rewriteReference: UpdateAnnotations reloads the index, renames what has *)
(* the old reference and saves.  That there is none, and a failed load or  *)
(* save, fail the job whatever the flags.                                  *)
RewriteReference(j) ==
  /\ At(j, "rewrite")
  /\ \E m \in Reloaded :
       LET matched == {r \in Ref : m[r] # None /\ m[r].ref = jobs[j].ref}
           fails   == Goes(j, [st[j] EXCEPT !.at = "failed", !.err = "rewrite"])
       IN \/ /\ entries' = [r \in Ref |-> IF r \in matched THEN [m[r] EXCEPT !.ref = jobs[j].rewrite]
                                                          ELSE m[r]]
             /\ \/ fails
                \/ matched # {} /\ Goes(j, [st[j] EXCEPT !.at = "ok"])
          \/ fails /\ UNCHANGED entries
  /\ UNCHANGED <<ignoreErrors, doc, jobs, verifier, lock, builds>>

(* g.Wait returns runErr, and the Cache is closed.                         *)
Pulled == \A j \in DOMAIN st : st[j].at \in Over

JobStep(j) ==
  \/ PinDigest(j) \/ Get(j) \/ NewVerifier(j) \/ VerifyImage(j) \/ VerifyBundle(j)
  \/ StoreImage(j) \/ AddImage(j) \/ RewriteReference(j)

-----------------------------------------------------------------------------
(* What a configuration accepts.                                           *)
Good(c, d) == Classic[c, d] = "good" \/ (Classic[c, d] = "absent" /\ Bundle[c, d])

(* The bytes stored are the bytes checked: what a job with a Config stored *)
(* is a digest the Config accepts, however the tag moved and whatever was  *)
(* retried; except, with --ignore-errors, one whose verification failed    *)
(* without being cancelled, and then the digest that was checked, if any.  *)
StoredIsChecked ==
  \A j \in DOMAIN st :
    st[j].dig # None /\ jobs[j].cfg # None =>
      \/ Good(jobs[j].cfg, st[j].dig)
      \/ /\ ignoreErrors /\ st[j].waived = "error"
         /\ st[j].pinned \in {None, st[j].dig}

(* A document fails with the error that broke it off, never with one of    *)
(* the cancellations that error caused, and never because of a Verifier    *)
(* built under a context that is gone.                                     *)
RunErrIsReal == runErr # "canceled"

(* The trust material of a Config is set up once per document, also when   *)
(* setting it up fails.                                                    *)
OneSetupPerConfig == \A c \in Config : builds[c] <= 1

(* No image is taken up after the error that breaks the document off, and  *)
(* so none that was verified by a check that was cut short is stored: the  *)
(* images stored after it are those being fetched by then.                 *)
NothingNewAfterError ==
  [][\A j \in DOMAIN st :
       Canceled /\ doc' = doc /\ st[j].at \notin {"fetch", "rewrite"} =>
         st'[j].at \notin {"fetch", "rewrite", "ok"} \/ st[j].at = "ok"]_pullVars
=============================================================================
