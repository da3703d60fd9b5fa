----------------------------- MODULE BlobStore -----------------------------
(***************************************************************************)
(* The blob half of content.OCI (pkg/content/oci.go): goroutines of one    *)
(* hauler process write content-addressed files under blobs/sha256.        *)
(*                                                                         *)
(* There are two write paths.  WriteBlob ("write") trusts a file of the    *)
(* expected size, otherwise joins or leads the singleflight of its digest; *)
(* the leader takes a permit of blobSem, streams into a temp file, checks  *)
(* the digest, fsyncs and renames.  ociPusher.Push + ociBlobWriter.Close   *)
(* ("push") trusts any existing file, otherwise takes a permit of the same *)
(* semaphore and writes its own temp file, without the singleflight.       *)
(*                                                                         *)
(* Contexts may be cancelled at any time, every file operation may fail,   *)
(* and the process or the machine may stop between any two steps.          *)
(***************************************************************************)
EXTENDS Naturals, FiniteSets

CONSTANTS
  Proc,       \* goroutines
  Digest,     \* content digests
  Sized,      \* the digests whose size callers know (size > 0)
  Ctx,        \* contexts: goroutines of one errgroup share one
  CtxOf,      \* the context a goroutine was started with
  Permits,    \* blobConcurrency, the weight of blobSem
  InitFiles,  \* what a final path may hold when the store is opened
  None        \* no leader, no digest

(* What the file at a digest's final path holds: nothing, the bytes the    *)
(* digest names, other bytes of the same length, or a file of another,     *)
(* non-zero length.                                                        *)
FileState == {"absent", "good", "corrupt", "short"}
Clean     == {"absent", "good"}

ASSUME BlobAssumption ==
  /\ IsFiniteSet(Proc)
  /\ Sized \subseteq Digest
  /\ CtxOf \in [Proc -> Ctx]
  /\ Permits \in Nat \ {0}
  /\ InitFiles \subseteq FileState
  /\ None \notin Proc \cup Digest

VARIABLES
  pc,         \* the next step of each goroutine
  op,         \* "write" or "push" while a call runs
  want,       \* the digest the call is about, None when idle
  res,        \* the error class the call (or its flight) ended with
  retried,    \* WriteBlob has used its one retry
  tmp,        \* the temp file of each goroutine
  synced,     \* goroutines whose temp file is fsync'd
  flight,     \* singleflight: the leader of each digest's flight
  held,       \* goroutines holding a permit of blobSem
  inflight,   \* IOStats.blobInFlight
  peak,       \* IOStats.BlobPeakInFlight
  file,       \* final paths, as open and stat see them
  disk,       \* final paths, as they were last known to be on stable storage
  unflushed,  \* final paths whose renamed data was never fsync'd
  ctx         \* "live" or "canceled"

callVars == <<op, want>>
semVars  == <<held, inflight, peak>>
fileVars == <<file, disk, unflushed>>
vars == <<pc, op, want, res, retried, tmp, synced, flight, held, inflight,
          peak, file, disk, unflushed, ctx>>

(* A call is idle before it starts and done once it has returned.          *)
(* Counted: between enterBlob and exitBlob.  Holding: a permit is held.    *)
Writing == {"create", "stream", "verify", "rename"}
Counted == Writing \cup {"exit"}
Holding == Counted \cup {"enter", "release"}
Leading == Holding \cup {"acquire"}
PC      == Leading \cup {"idle", "stat", "join", "wait", "discard", "return", "done"}
Outcome == {"ok", "canceled", "failed"}

TypeOK ==
  /\ pc \in [Proc -> PC]
  /\ op \in [Proc -> {"none", "write", "push"}]
  /\ want \in [Proc -> Digest \cup {None}]
  /\ res \in [Proc -> Outcome \cup {"none"}]
  /\ retried \in [Proc -> BOOLEAN]
  /\ tmp \in [Proc -> {"none", "partial", "good", "bad"}]
  /\ synced \in SUBSET Proc
  /\ flight \in [Digest -> Proc \cup {None}]
  /\ held \in SUBSET Proc
  /\ inflight \in Nat
  /\ peak \in Nat
  /\ file \in [Digest -> FileState]
  /\ disk \in [Digest -> FileState]
  /\ unflushed \in SUBSET Digest
  /\ ctx \in [Ctx -> {"live", "canceled"}]

Init ==
  /\ pc = [p \in Proc |-> "idle"]
  /\ op = [p \in Proc |-> "none"]
  /\ want = [p \in Proc |-> None]
  /\ res = [p \in Proc |-> "none"]
  /\ retried = [p \in Proc |-> FALSE]
  /\ tmp = [p \in Proc |-> "none"]
  /\ synced = {}
  /\ flight = [d \in Digest |-> None]
  /\ held = {}
  /\ inflight = 0
  /\ peak = 0
  /\ file \in [Digest -> InitFiles]
  /\ disk = file
  /\ unflushed = {}
  /\ ctx = [c \in Ctx |-> "live"]

-----------------------------------------------------------------------------
Live(p) == ctx[CtxOf[p]] = "live"

(* os.Stat against the expected size: equal when the size is known,        *)
(* non-empty otherwise.                                                    *)
StatHit(d) ==
  IF d \in Sized THEN file[d] \in {"good", "corrupt"} ELSE file[d] # "absent"

Goto(p, s) == pc' = [pc EXCEPT ![p] = s]

(* The call returns r to its caller without having taken a permit.         *)
Finish(p, r) ==
  /\ Goto(p, "done")
  /\ res' = [res EXCEPT ![p] = r]

(* writeBlobOnce or Close is left with result r: the deferred os.Remove    *)
(* has removed the temp file, the permit is still to be given back.        *)
Leave(p, r) ==
  /\ Goto(p, "exit")
  /\ res' = [res EXCEPT ![p] = r]
  /\ tmp' = [tmp EXCEPT ![p] = "none"]
  /\ synced' = synced \ {p}

(* singleflight publishes r to the leader and to every goroutine waiting   *)
(* on the flight, and forgets the flight.                                  *)
EndFlight(p, r) ==
  LET members == {p} \cup {q \in Proc : pc[q] = "wait" /\ want[q] = want[p]}
  IN /\ flight' = [flight EXCEPT ![want[p]] = None]
     /\ pc' = [q \in Proc |-> IF q \in members THEN "return" ELSE pc[q]]
     /\ res' = [q \in Proc |-> IF q \in members THEN r ELSE res[q]]

-----------------------------------------------------------------------------
(* WriteBlob.                                                              *)

WriteBlob(p, d) ==
  /\ pc[p] = "idle"
  /\ op' = [op EXCEPT ![p] = "write"]
  /\ want' = [want EXCEPT ![p] = d]
  /\ IF Live(p) THEN Goto(p, "stat") /\ UNCHANGED res ELSE Finish(p, "canceled")
  /\ UNCHANGED <<retried, tmp, synced, flight, semVars, fileVars, ctx>>

FastPath(p) ==
  /\ pc[p] = "stat" /\ op[p] = "write"
  /\ IF StatHit(want[p]) THEN Finish(p, "ok") ELSE Goto(p, "join") /\ UNCHANGED res
  /\ UNCHANGED <<callVars, retried, tmp, synced, flight, semVars, fileVars, ctx>>

(* Mutant: no singleflight, every goroutine downloads for itself.          *)
LeadAgain(p) ==
  /\ pc[p] = "join"
  /\ flight' = [flight EXCEPT ![want[p]] = p]
  /\ Goto(p, "acquire")
  /\ UNCHANGED <<callVars, res, retried, tmp, synced, semVars, fileVars, ctx>>

Lead(p) ==
  /\ pc[p] = "join"
  /\ flight[want[p]] = None
  /\ flight' = [flight EXCEPT ![want[p]] = p]
  /\ Goto(p, "acquire")
  /\ UNCHANGED <<callVars, res, retried, tmp, synced, semVars, fileVars, ctx>>

JoinFlight(p) ==
  /\ pc[p] = "join"
  /\ flight[want[p]] # None
  /\ Goto(p, "wait")
  /\ UNCHANGED <<callVars, res, retried, tmp, synced, flight, semVars, fileVars, ctx>>

(* A cancellation that was not the caller's own is retried, once.          *)
Return(p) ==
  /\ pc[p] = "return"
  /\ IF res[p] = "canceled" /\ Live(p) /\ ~retried[p]
       THEN /\ Goto(p, "join")
            /\ res' = [res EXCEPT ![p] = "none"]
            /\ retried' = [retried EXCEPT ![p] = TRUE]
       ELSE Goto(p, "done") /\ UNCHANGED <<res, retried>>
  /\ UNCHANGED <<callVars, tmp, synced, flight, semVars, fileVars, ctx>>

(* ociPusher.Push, after the root descriptor was marked (see OCIIndex):    *)
(* any existing file is trusted and the content only checked.              *)
Push(p, d) ==
  /\ pc[p] = "idle"
  /\ op' = [op EXCEPT ![p] = "push"]
  /\ want' = [want EXCEPT ![p] = d]
  /\ Goto(p, "stat")
  /\ UNCHANGED <<res, retried, tmp, synced, flight, semVars, fileVars, ctx>>

PushStat(p) ==
  /\ pc[p] = "stat" /\ op[p] = "push"
  /\ Goto(p, IF file[want[p]] = "absent" THEN "acquire" ELSE "discard")
  /\ UNCHANGED <<callVars, res, retried, tmp, synced, flight, semVars, fileVars, ctx>>

Discard(p) ==
  /\ pc[p] = "discard"
  /\ \E r \in {"ok", "failed"} : Finish(p, r)
  /\ UNCHANGED <<callVars, retried, tmp, synced, flight, semVars, fileVars, ctx>>

-----------------------------------------------------------------------------
(* The permit, and the write under it.                                     *)

Acquire(p) ==
  /\ pc[p] = "acquire"
  /\ Live(p)
  /\ Cardinality(held) < Permits
  /\ held' = held \cup {p}
  /\ Goto(p, "enter")
  /\ UNCHANGED <<callVars, res, retried, tmp, synced, flight, inflight, peak, fileVars, ctx>>

AcquireCanceled(p) ==
  /\ pc[p] = "acquire"
  /\ ~Live(p)
  /\ IF op[p] = "write" THEN EndFlight(p, "canceled")
                        ELSE Finish(p, "canceled") /\ UNCHANGED flight
  /\ UNCHANGED <<callVars, retried, tmp, synced, semVars, fileVars, ctx>>

(* Mutant: exitBlob without the matching enterBlob.                        *)
EnterBlobUncounted(p) ==
  /\ pc[p] = "enter"
  /\ Goto(p, "create")
  /\ UNCHANGED <<callVars, res, retried, tmp, synced, flight, semVars, fileVars, ctx>>

EnterBlob(p) ==
  /\ pc[p] = "enter"
  /\ inflight' = inflight + 1
  /\ peak' = IF inflight' <= peak THEN peak ELSE inflight'
  /\ Goto(p, "create")
  /\ UNCHANGED <<callVars, res, retried, tmp, synced, flight, held, fileVars, ctx>>

(* Mutant: the second stat's error, which is none, is returned for the     *)
(* context's.                                                              *)
RecheckForgives(p) ==
  /\ pc[p] = "create" /\ op[p] = "write"
  /\ StatHit(want[p]) \/ ~Live(p)
  /\ Leave(p, "ok")
  /\ UNCHANGED <<callVars, retried, flight, semVars, fileVars, ctx>>

(* writeBlobOnce looks again, because an earlier flight may have written   *)
(* the blob in the meantime, and looks at its context; Push does neither.  *)
Recheck(p) ==
  /\ pc[p] = "create" /\ op[p] = "write"
  /\ \/ StatHit(want[p]) /\ Leave(p, "ok")
     \/ ~StatHit(want[p]) /\ ~Live(p) /\ Leave(p, "canceled")
  /\ UNCHANGED <<callVars, retried, flight, semVars, fileVars, ctx>>

CreateTemp(p) ==
  /\ pc[p] = "create"
  /\ op[p] = "write" => ~StatHit(want[p]) /\ Live(p)
  /\ tmp' = [tmp EXCEPT ![p] = "partial"]
  /\ Goto(p, "stream")
  /\ UNCHANGED <<callVars, res, retried, synced, flight, semVars, fileVars, ctx>>

(* The source is exhausted: it delivered the right bytes or others.        *)
(* ctxReader lets WriteBlob's copy end only while the context is live.     *)
Stream(p) ==
  /\ pc[p] = "stream"
  /\ op[p] = "write" => Live(p)
  /\ \E b \in {"good", "bad"} : tmp' = [tmp EXCEPT ![p] = b]
  /\ Goto(p, "verify")
  /\ UNCHANGED <<callVars, res, retried, synced, flight, semVars, fileVars, ctx>>

StreamCanceled(p) ==
  /\ pc[p] = "stream" /\ op[p] = "write"
  /\ ~Live(p)
  /\ Leave(p, "canceled")
  /\ UNCHANGED <<callVars, retried, flight, semVars, fileVars, ctx>>

(* Mutant: the size is checked and the digest is not.                      *)
VerifySizeOnly(p) ==
  /\ pc[p] = "verify"
  /\ Goto(p, "rename")
  /\ synced' = synced \cup {p}
  /\ UNCHANGED <<callVars, res, retried, tmp, flight, semVars, fileVars, ctx>>

(* Mutant: the temp file is renamed without an fsync.                      *)
VerifyUnsynced(p) ==
  /\ pc[p] = "verify"
  /\ IF tmp[p] = "good"
       THEN Goto(p, "rename") /\ UNCHANGED <<res, tmp, synced>>
       ELSE Leave(p, "failed")
  /\ UNCHANGED <<callVars, retried, flight, semVars, fileVars, ctx>>

(* Size and digest check, chmod, fsync and close of the temp file.         *)
Verify(p) ==
  /\ pc[p] = "verify"
  /\ IF tmp[p] = "good"
       THEN Goto(p, "rename") /\ synced' = synced \cup {p} /\ UNCHANGED <<res, tmp>>
       ELSE Leave(p, "failed")
  /\ UNCHANGED <<callVars, retried, flight, semVars, fileVars, ctx>>

Rename(p) ==
  /\ pc[p] = "rename"
  /\ file' = [file EXCEPT ![want[p]] = IF tmp[p] = "good" THEN "good" ELSE "corrupt"]
  /\ unflushed' = IF p \in synced THEN unflushed \ {want[p]}
                                  ELSE unflushed \cup {want[p]}
  /\ Leave(p, "ok")
  /\ UNCHANGED <<callVars, retried, flight, semVars, disk, ctx>>

(* Mutant: Push returns the error of newOCIBlobWriter without releasing    *)
(* the permit it took.                                                     *)
IOErrorKeepsPermit(p) ==
  \/ /\ pc[p] = "stat" \/ (pc[p] = "create" /\ op[p] = "push")
     /\ Finish(p, "failed")
     /\ UNCHANGED <<callVars, retried, tmp, synced, flight, semVars, fileVars, ctx>>
  \/ /\ pc[p] \in Writing /\ ~(pc[p] = "create" /\ op[p] = "push")
     /\ Leave(p, "failed")
     /\ UNCHANGED <<callVars, retried, flight, semVars, fileVars, ctx>>

(* mkdir, create, open, read, write, chmod, fsync, close or rename fails.  *)
IOError(p) ==
  \/ /\ pc[p] = "stat"
     /\ Finish(p, "failed")
     /\ UNCHANGED <<callVars, retried, tmp, synced, flight, semVars, fileVars, ctx>>
  \/ /\ pc[p] \in Writing
     /\ Leave(p, "failed")
     /\ UNCHANGED <<callVars, retried, flight, semVars, fileVars, ctx>>

ExitBlob(p) ==
  /\ pc[p] = "exit"
  /\ inflight' = inflight - 1
  /\ Goto(p, "release")
  /\ UNCHANGED <<callVars, res, retried, tmp, synced, flight, held, peak, fileVars, ctx>>

Release(p) ==
  /\ pc[p] = "release"
  /\ held' = held \ {p}
  /\ IF op[p] = "write" THEN EndFlight(p, res[p])
                        ELSE Goto(p, "done") /\ UNCHANGED <<res, flight>>
  /\ UNCHANGED <<callVars, retried, tmp, synced, inflight, peak, fileVars, ctx>>

-----------------------------------------------------------------------------
(* The callers and the machine.                                            *)

(* The caller takes the result; the goroutine may make another call.       *)
Consume(p) ==
  /\ pc[p] = "done"
  /\ Goto(p, "idle")
  /\ op' = [op EXCEPT ![p] = "none"]
  /\ want' = [want EXCEPT ![p] = None]
  /\ res' = [res EXCEPT ![p] = "none"]
  /\ retried' = [retried EXCEPT ![p] = FALSE]
  /\ UNCHANGED <<tmp, synced, flight, semVars, fileVars, ctx>>

Cancel(c) ==
  /\ ctx[c] = "live"
  /\ ctx' = [ctx EXCEPT ![c] = "canceled"]
  /\ UNCHANGED <<pc, callVars, res, retried, tmp, synced, flight, semVars, fileVars>>

(* A retry or another artifact starts its goroutines with a fresh context. *)
FreshCtx(c) ==
  /\ ctx[c] = "canceled"
  /\ \A p \in Proc : CtxOf[p] = c => pc[p] = "idle"
  /\ ctx' = [ctx EXCEPT ![c] = "live"]
  /\ UNCHANGED <<pc, callVars, res, retried, tmp, synced, flight, semVars, fileVars>>

(* Everything in memory is gone; temp files of interrupted writes stay in  *)
(* blobs/sha256 under names no digest has, where nothing reads them.       *)
Restart ==
  /\ pc' = [p \in Proc |-> "idle"]
  /\ op' = [p \in Proc |-> "none"]
  /\ want' = [p \in Proc |-> None]
  /\ res' = [p \in Proc |-> "none"]
  /\ retried' = [p \in Proc |-> FALSE]
  /\ tmp' = [p \in Proc |-> "none"]
  /\ synced' = {}
  /\ flight' = [d \in Digest |-> None]
  /\ held' = {}
  /\ inflight' = 0
  /\ peak' = 0
  /\ ctx' = [c \in Ctx |-> "live"]

Kill ==
  /\ Restart
  /\ UNCHANGED fileVars

(* blobs/sha256 is never fsync'd, so a rename may be lost; data that was   *)
(* renamed without an fsync may come back torn.                            *)
PowerLoss ==
  /\ Restart
  /\ file' \in [Digest -> FileState]
  /\ \A d \in Digest :
       file'[d] \in {disk[d], IF d \in unflushed THEN "short" ELSE file[d]}
  /\ disk' = file'
  /\ unflushed' = {}

Step(p) ==
  \/ FastPath(p) \/ Lead(p) \/ JoinFlight(p) \/ Return(p)
  \/ PushStat(p) \/ Discard(p)
  \/ Acquire(p) \/ AcquireCanceled(p) \/ EnterBlob(p)
  \/ Recheck(p) \/ CreateTemp(p) \/ Stream(p) \/ StreamCanceled(p)
  \/ Verify(p) \/ Rename(p) \/ IOError(p) \/ ExitBlob(p) \/ Release(p)

Next ==
  \/ \E p \in Proc, d \in Digest : WriteBlob(p, d) \/ Push(p, d)
  \/ \E p \in Proc : Step(p) \/ Consume(p)
  \/ \E c \in Ctx : Cancel(c) \/ FreshCtx(c)
  \/ Kill
  \/ PowerLoss

Spec == Init /\ [][Next]_vars

(* The Go scheduler runs every runnable goroutine, a source that is read   *)
(* ends or fails, and semaphore.Weighted serves its waiters in FIFO order. *)
Fairness ==
  \A p \in Proc : WF_vars(Step(p)) /\ SF_vars(Acquire(p))

FairSpec == Spec /\ Fairness

-----------------------------------------------------------------------------
(* Properties.                                                             *)

(* Whatever fails, is cancelled, is killed or loses power: in a store that *)
(* was clean when it was opened, a final path holds nothing or exactly the *)
(* bytes its name is the digest of ("the final path untouched" on error,   *)
(* fsync before rename).                                                   *)
FinalPathVerified ==
  InitFiles \subseteq Clean => \A d \in Digest : file[d] \in Clean

(* In any store, damaged ones too, a final path changes only to verified   *)
(* content or, by a power loss, back to what it held before: a failing or  *)
(* late writer never spoils what a peer has completed.                     *)
FinalOnlyImproves ==
  [][\A d \in Digest : file'[d] \in {file[d], "good", disk[d]}]_vars

(* singleflight: no two WriteBlob goroutines download the same digest.     *)
OneDownloadPerDigest ==
  \A p, q \in Proc :
    /\ op[p] = "write" /\ pc[p] \in Leading
    /\ op[q] = "write" /\ pc[q] \in Leading
    /\ want[p] = want[q]
    => p = q

(* blobSem bounds the writes of both paths together, the permits in use    *)
(* are exactly those of goroutines inside a write (none leaks on an error, *)
(* a cancellation or a failed Close), and the reported peak never exceeds  *)
(* the ceiling it is printed against.                                      *)
PermitsAccounted ==
  /\ held = {p \in Proc : pc[p] \in Holding}
  /\ Cardinality(held) <= Permits
  /\ peak <= Permits

(* A call that ends without error has its blob in place: of the expected   *)
(* size after WriteBlob, present after Push -- also for a goroutine that   *)
(* only waited for another one's flight.                                   *)
OkMeansStored ==
  \A p \in Proc : res[p] = "ok" =>
    IF op[p] = "write" THEN StatHit(want[p]) ELSE file[want[p]] # "absent"

(* Every call returns: no lost wake-up of a flight's waiters, no permit    *)
(* that is never given back.                                               *)
CallsReturn ==
  \A p \in Proc : pc[p] \notin {"idle", "done"} ~> pc[p] \in {"idle", "done"}

(* A clean store is a VerifiedBlobs: the files that hold their content are *)
(* its blobs, a call is busy until its result is with the caller.          *)
Stored == {d \in Digest : file[d] = "good"}
StatusOf(p) ==
  IF pc[p] = "idle" THEN "idle"
  ELSE IF pc[p] # "done" THEN "busy"
  ELSE IF res[p] = "ok" THEN "ok" ELSE "error"

Abstract == INSTANCE VerifiedBlobs WITH
  stored <- Stored,
  status <- [p \in Proc |-> StatusOf(p)],
  asked  <- want

(* An answer "ok" implies verified content, whoever wrote it; content      *)
(* appears only on behalf of a running call and only a stop takes it away. *)
ImplementsVerifiedBlobs == Abstract!Spec
=============================================================================
