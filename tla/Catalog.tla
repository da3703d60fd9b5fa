------------------------------ MODULE Catalog ------------------------------
(***************************************************************************)
(* What a store promises to whoever pulls from it while add, sync, load    *)
(* and remove work on it, without blobs, manifests, index.json, nameMap,   *)
(* jobs or retries: under each key there is a complete artifact or nothing *)
(* (holds).  Artifacts appear because the running command was asked for    *)
(* them, or because they complete what an earlier load left; they go away  *)
(* because a remove is about their key, or a load brings another one.  A   *)
(* load or a remove that reports success has done all it was asked to do.  *)
(***************************************************************************)
CONSTANTS Key, Artifact, None

VARIABLES
  holds,     \* the artifact that can be pulled under each key, or None
  command,   \* what runs: "none", "add", "load" or "remove"
  outcome,   \* "open"; "failed", and perhaps still at work; "ok"
  asked,     \* the entries the command is to bring
  dropping,  \* the keys it has still to take away
  pending    \* entries loads were asked for and have left incomplete

catalogVars == <<holds, command, outcome, asked, dropping, pending>>

Entry  == Key \X Artifact
Holder == [Key -> Artifact \cup {None}]

Init ==
  /\ holds = [k \in Key |-> None]
  /\ command = "none" /\ outcome = "open"
  /\ asked = {} /\ dropping = {} /\ pending = {}

Begin ==
  /\ command = "none" /\ command' \in {"add", "load", "remove"}
  /\ asked' \subseteq Entry /\ dropping' \subseteq Key
  /\ IF command' = "remove" THEN asked' = {} ELSE dropping' = {}
  /\ command' = "load" => \A e, f \in asked' : e[1] = f[1] => e = f
  /\ UNCHANGED <<holds, outcome, pending>>

Replaced    == {k \in Key : command = "load" /\ \E e \in asked : e[1] = k}
Appears(k)  == command # "remove" /\ <<k, holds'[k]>> \in asked \cup pending
Vanishes(k) == holds'[k] = None /\ k \in dropping \cup Replaced
Dropped     == \A k \in dropping \ dropping' : holds'[k] = None

Succeeds ==
  /\ command \in {"load", "remove"} /\ outcome = "open"
  /\ dropping' = {} /\ Dropped
  /\ \A e \in asked : holds'[e[1]] = e[2]

Work ==
  /\ command # "none" /\ outcome # "ok"
  /\ holds' \in Holder
  /\ \A k \in Key : holds'[k] # holds[k] => Appears(k) \/ Vanishes(k)
  /\ pending' \subseteq pending \cup (IF command = "load" THEN asked ELSE {})
  /\ dropping' \subseteq dropping
  /\ \/ outcome' = outcome /\ Dropped
     \/ outcome' = "failed"
     \/ outcome' = "ok" /\ Succeeds
  /\ UNCHANGED <<command, asked>>

(* The process ends, done or killed.  An add saves once more at its end.   *)
End ==
  /\ command # "none" /\ command' = "none"
  /\ holds' \in Holder
  /\ \A k \in Key : holds'[k] # holds[k] => command = "add" /\ <<k, holds'[k]>> \in asked
  /\ outcome' = "open" /\ asked' = {} /\ dropping' = {}
  /\ pending' \subseteq pending

Next == Begin \/ Work \/ End

Spec == Init /\ [][Next]_catalogVars
=============================================================================
