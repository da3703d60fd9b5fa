------------------------------ MODULE MCLayout ------------------------------
(* Small instances of Layout: two images that share a layer and a config,  *)
(* a manifest list of both, and a signature; and the same without configs. *)
EXTENDS Layout, TLC

CONSTANTS j1, j2, imgA, imgB, list, sig, repA, repB, repList, layA, layB, cfg, nA, nB

MCManifest == {imgA, imgB, list, sig, repA, repB, repList} \cap Digest
MCLayers   == [m \in MCManifest |->
                 CASE m \in {imgA, repA} -> {layA, layB}
                   [] m \in {imgB, repB} -> {layB}
                   [] m = sig            -> {layA}
                   [] OTHER              -> {}]
MCConfig   == [m \in MCManifest |-> IF m \in {imgA, imgB, sig} THEN {cfg} ELSE {}]
MCChildren == [m \in MCManifest |-> CASE m = list    -> <<imgA, imgB>>
                                      [] m = repList -> <<repA, repB>>
                                      [] OTHER       -> <<>>]

Art(n, m, isImage, extras) == [name |-> n, root |-> m, image |-> isImage, extras |-> extras]
E(n, k, m) == <<<<n, k>>, m>>

Images    == {Art(nA, list, TRUE, {}), Art(nB, imgB, TRUE, {<<"sigs", sig>>}), Art(nB, imgA, FALSE, {})}
ListAndImage == {Art(nA, repList, TRUE, {}), Art(nA, repA, FALSE, {})}

Sync == [artifacts |-> Images, jobs |-> {j1, j2}, hauls |-> {{E(nA, "imageIndex", list), E(nB, "image", imgA)}},
         retries |-> 1, saveFaults |-> TRUE, readFaults |-> FALSE, power |-> FALSE]
Repair == [artifacts |-> ListAndImage, jobs |-> {j1}, hauls |-> {{E(nA, "image", repA), E(nB, "imageIndex", repList)}},
           retries |-> 0, saveFaults |-> FALSE, readFaults |-> TRUE, power |-> TRUE]
SyncAndRepair == {Sync, Repair}
Unreadable == {[Sync EXCEPT !.retries = 0, !.saveFaults = FALSE, !.readFaults = TRUE]}
=============================================================================
