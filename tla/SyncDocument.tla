---------------------------- MODULE SyncDocument ----------------------------
(***************************************************************************)
(* `hauler store sync` (SyncCmd, processContent): the documents of a       *)
(* manifest one after the other, each the walk of its charts               *)
(* (ChartTraversal) followed by the pull of the images found, or the pull  *)
(* of its images (ImageJobs), or the storing of its files (FileJobs).  The *)
(* first document that fails ends the command.                             *)
(***************************************************************************)
EXTENDS ImageJobs, ChartTraversal, FileJobs

CONSTANT Manifests  \* sequences of documents

Document == [charts : Seq(ChartJob), images : Seq(ImageJob), files : Seq(FileJob)]

ASSUME ManifestAssumption ==
  /\ ImageRef = Ref
  /\ Manifests \subseteq Seq(Document)
  /\ \A m \in Manifests : \A i \in DOMAIN m : \A k \in DOMAIN m[i].charts :
       m[i].charts[k].chart \notin Inside

VARIABLES
  docs,     \* the documents that are left
  phase,    \* of the document: "next", "walk", "pull" or
            \* "files"; "end" of the command
  promised  \* the images reported as stored, by the line logged for each or
            \* by a document of charts that succeeded

vars == <<ignoreErrors, pullVars, walkVars, fileVars, docs, phase, promised>>

TypeOK ==
  /\ PullTypeOK
  /\ WalkTypeOK
  /\ FileTypeOK
  /\ phase \in {"next", "walk", "pull", "files", "end"}
  /\ promised \subseteq ImageJob

Init ==
  /\ PullInit
  /\ WalkInit
  /\ FileInit
  /\ docs \in Manifests
  /\ phase = "next"
  /\ promised = {}

-----------------------------------------------------------------------------
(* processContent takes up the next document.  One that is not a document  *)
(* of hauler's is skipped, one of an unknown kind or version or whose      *)
(* options do not resolve ends the command.                                *)
SkipDocument ==
  /\ phase = "next" /\ docs # <<>>
  /\ docs' = Tail(docs)
  /\ UNCHANGED <<ignoreErrors, pullVars, walkVars, fileVars, phase, promised>>

RejectDocument ==
  /\ phase = "next" /\ docs # <<>>
  /\ phase' = "end"
  /\ UNCHANGED <<ignoreErrors, pullVars, walkVars, fileVars, docs, promised>>

ImagesDocument ==
  /\ phase = "next" /\ docs # <<>> /\ docs[1].images # <<>>
  /\ PullStart(docs[1].images)
  /\ phase' = "pull"
  /\ docs' = Tail(docs)
  /\ UNCHANGED <<walkVars, fileVars, promised>>

ChartsDocument ==
  /\ phase = "next" /\ docs # <<>> /\ docs[1].charts # <<>>
  /\ WalkStart(docs[1].charts)
  /\ phase' = "walk"
  /\ docs' = Tail(docs)
  /\ UNCHANGED <<ignoreErrors, pullVars, fileVars, promised>>

FilesDocument ==
  /\ phase = "next" /\ docs # <<>> /\ docs[1].files # <<>>
  /\ FilesStart(docs[1].files)
  /\ phase' = "files"
  /\ docs' = Tail(docs)
  /\ UNCHANGED <<ignoreErrors, pullVars, walkVars, promised>>

(* runChartJobs: the images found are pulled without a verification or a   *)
(* rewrite, unless the walk failed.                                        *)
Found(r) == [ref |-> r, cfg |-> None, rewrite |-> None]

PullFound ==
  /\ phase = "walk" /\ ~walkErr /\ Walked
  /\ \E refs \in Deduped : PullStart([i \in DOMAIN refs |-> Found(refs[i])])
  /\ phase' = "pull"
  /\ UNCHANGED <<walkVars, fileVars, docs, promised>>

WalkFails ==
  /\ phase = "walk" /\ BrokenOff
  /\ WalkEnd
  /\ phase' = "end"
  /\ UNCHANGED <<ignoreErrors, pullVars, fileVars, docs, promised>>

(* What an image p was promised under is touched by another job.           *)
Final(job) == IF job.rewrite = None THEN job.ref ELSE job.rewrite
Touches(job, p) == {job.ref, Final(job)} \cap {p.ref, Final(p)} # {}

EndDocument ==
  /\ phase = "pull" /\ Pulled
  /\ WalkEnd
  /\ phase' = IF runErr = None THEN "next" ELSE "end"
  /\ promised' =
       {p \in promised : \A j \in DOMAIN jobs : ~Touches(jobs[j], p)}
       \cup {jobs[j] : j \in {i \in DOMAIN st : /\ st[i].at = "ok"
                                               /\ \A k \in DOMAIN jobs \ {i} : ~Touches(jobs[k], jobs[i])}}
       \cup (IF runErr = None /\ ~ignoreErrors
               THEN {Found(images[i]) : i \in DOMAIN images} ELSE {})
  /\ UNCHANGED <<ignoreErrors, pullVars, fileVars, docs>>

EndFiles ==
  /\ phase = "files" /\ FilesStored
  /\ phase' = IF fileErr = Nothing THEN "next" ELSE "end"
  /\ UNCHANGED <<ignoreErrors, pullVars, walkVars, fileVars, docs, promised>>

Finish ==
  /\ phase = "next" /\ docs = <<>>
  /\ phase' = "end"
  /\ UNCHANGED <<ignoreErrors, pullVars, walkVars, fileVars, docs, promised>>

DocStep ==
  \/ SkipDocument \/ RejectDocument \/ ImagesDocument \/ ChartsDocument \/ FilesDocument
  \/ PullFound \/ WalkFails \/ EndDocument \/ EndFiles \/ Finish

-----------------------------------------------------------------------------
WalkStep(i) ==
  /\ phase = "walk"
  /\ GoChart(i) \/ ChartStep(i, ignoreErrors)
  /\ UNCHANGED <<ignoreErrors, pullVars, fileVars, docs, phase, promised>>

WalkOn ==
  /\ phase = "walk"
  /\ NextLevel
  /\ UNCHANGED <<ignoreErrors, pullVars, fileVars, docs, phase, promised>>

PullStep(j) ==
  /\ phase = "pull"
  /\ Go(j) \/ JobStep(j)
  /\ UNCHANGED <<walkVars, fileVars, docs, phase, promised>>

StoreStep(j) ==
  /\ phase = "files"
  /\ GoFile(j, ignoreErrors) \/ FileStep(j, ignoreErrors)
  /\ UNCHANGED <<ignoreErrors, pullVars, walkVars, docs, phase, promised>>

Next ==
  \/ DocStep
  \/ WalkOn
  \/ \E i \in DOMAIN at : WalkStep(i)
  \/ \E j \in DOMAIN st : PullStep(j)
  \/ \E j \in DOMAIN ft : StoreStep(j)

(* Every goroutine that can go on does: they run on Go's scheduler, locks  *)
(* and slots are given up after a bounded number of steps.                 *)
MaxJobs == 5
Spec ==
  /\ Init /\ [][Next]_vars
  /\ WF_vars(DocStep) /\ WF_vars(WalkOn)
  /\ \A i \in 1..MaxJobs : WF_vars(i \in DOMAIN at /\ WalkStep(i))
  /\ \A j \in 1..MaxJobs : WF_vars(j \in DOMAIN st /\ PullStep(j))
  /\ \A j \in 1..MaxJobs : WF_vars(j \in DOMAIN ft /\ StoreStep(j))

-----------------------------------------------------------------------------
(* Between documents, and when the command has ended, what was reported    *)
(* as stored is in the store under the reference it was to have: the       *)
(* images of every chart that was to have them as well, after retries,     *)
(* renames and reloads; except what a later job of the same name replaced  *)
(* or renamed.                                                             *)
PromisesKept ==
  phase \in {"next", "end"} =>
    \A p \in promised : \E r \in Ref : entries[r] # None /\ entries[r].ref = Final(p)

(* The command ends, whatever fails, is cancelled, or depends on itself.   *)
CommandEnds == <>(phase = "end")
=============================================================================
