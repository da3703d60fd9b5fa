---------------------------- MODULE MCStoreCheck ----------------------------
(* A small store for StoreCheck.                                           *)
EXTENDS StoreCheck

CONSTANTS list, amd, art, lay, cfg, odd, eList, eImage, eArt, eOdd

(* An image index with a platform image and an artifact, both under names  *)
(* of their own too.  The artifact has the image among its manifests and   *)
(* shares its config; the image names a layer twice, once with a size that *)
(* is wrong.  An index that cannot be displayed names the first one,       *)
(* without a platform.                                                     *)
MCParts ==
  [d \in Digest |->
     CASE d = amd -> <<Sized(cfg), Sized(lay), [digest |-> lay, size |-> "wrong"]>>
       [] d = art -> <<[digest |-> cfg, size |-> "absent"]>>
       [] OTHER -> <<>>]
MCChildren ==
  [d \in Digest |->
     CASE d = list -> <<amd, art>> [] d = art -> <<amd>> [] d = odd -> <<list>> [] OTHER -> <<>>]
MCRoot ==
  [e \in Entry |-> CASE e = eList -> list [] e = eImage -> amd [] e = eArt -> art [] OTHER -> odd]
MCMedia ==
  [e \in Entry |-> CASE e \in {eList, eOdd} -> "index" [] e = eImage -> "image" [] OTHER -> "other"]
MCStates ==
  [d \in Digest |->
     CASE d = list -> {"good", "garbled", "missing", "short"}
       [] d = amd  -> File
       [] d = odd  -> {"good", "garbled"}
       [] d = lay  -> {"good", "missing", "short"}
       [] OTHER    -> {"good", "missing", "corrupt"}]
=============================================================================
