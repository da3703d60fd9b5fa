--------------------------- MODULE VerifiedBlobs ---------------------------
(***************************************************************************)
(* What the blob half of a content.OCI promises its callers, without temp  *)
(* files, flights, permits or contexts: a set of digests whose content is  *)
(* stored and verified.  A call for a digest is answered "ok" only while   *)
(* the digest is in the set, and content appears only for a digest that    *)
(* somebody is asking for.                                                 *)
(***************************************************************************)
CONSTANTS Proc, Digest, None

VARIABLES
  stored,   \* the digests whose content is in the store
  status,   \* "idle", "busy", or the answer "ok" or "error"
  asked     \* the digest of each running call

blobVars == <<stored, status, asked>>

Init ==
  /\ stored \in SUBSET Digest
  /\ status = [p \in Proc |-> "idle"]
  /\ asked = [p \in Proc |-> None]

Ask(p, d) ==
  /\ status[p] = "idle"
  /\ \E s \in {"busy", "error"} : status' = [status EXCEPT ![p] = s]
  /\ asked' = [asked EXCEPT ![p] = d]
  /\ UNCHANGED stored

Store(p) ==
  /\ status[p] = "busy"
  /\ stored' = stored \cup {asked[p]}
  /\ UNCHANGED <<status, asked>>

(* One step may answer one caller.                                         *)
Answer(p) ==
  /\ status[p] = "busy"
  /\ \/ asked[p] \in stored /\ status' = [status EXCEPT ![p] = "ok"]
     \/ status' = [status EXCEPT ![p] = "error"]
  /\ UNCHANGED <<stored, asked>>

Consume(p) ==
  /\ status[p] \in {"ok", "error"}
  /\ status' = [status EXCEPT ![p] = "idle"]
  /\ asked' = [asked EXCEPT ![p] = None]
  /\ UNCHANGED stored

(* The process stops; a power loss may take content that was answered.     *)
Stop ==
  /\ stored' \in SUBSET stored
  /\ status' = [p \in Proc |-> "idle"]
  /\ asked' = [p \in Proc |-> None]

Next ==
  \/ \E p \in Proc, d \in Digest : Ask(p, d)
  \/ \E p \in Proc : Store(p) \/ Answer(p) \/ Consume(p)
  \/ Stop

Spec == Init /\ [][Next]_blobVars
=============================================================================
