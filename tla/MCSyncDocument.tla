--------------------------- MODULE MCSyncDocument ---------------------------
(* Small manifests for SyncDocument.                                       *)
EXTENDS SyncDocument, TLC

CONSTANTS rA, rB, rC, rD, rE, d1, d2, key, app, lib, sub, core, leaf, pA, pB, nA, nB, bX, bY, bZ

(* rA and rB may move from a digest with a bad signature to one that has   *)
(* only a bundle, which checks out; rC names the latter, rD nothing.       *)
MCNames   == [r \in Ref |-> CASE r \in {rA, rB} -> {d1, d2} [] r = rC -> {d2} [] OTHER -> {}]
MCClassic == [x \in Config \X Digest |-> IF x[2] = d1 THEN "bad" ELSE "absent"]
MCBundle  == [x \in Config \X Digest |-> TRUE]

(* app depends on lib, from a repository, and on sub, inside its archive;  *)
(* both of these depend on leaf, and lib on app; app and sub have each a   *)
(* core inside.                                                            *)
MCDeps   == [c \in Chart |-> CASE c = app -> {lib, sub, core} [] c = sub -> {leaf, core}
                              [] c = lib -> {app, leaf} [] OTHER -> {}]
MCInside == {sub, core}
MCImages == [c \in Chart |-> CASE c = app -> {rA, rB} [] c = lib -> {rB} [] OTHER -> {}]

(* The content of pA changes; pB has one.                                  *)
MCHolds == [p \in Path |-> IF p = pA THEN {bX, bY} ELSE {bZ}]

I(r, c, new) == [ref |-> r, cfg |-> c, rewrite |-> new]
C(c, imgs, dps) == [chart |-> c, dir |-> 0, within |-> <<>>, addImages |-> imgs, addDeps |-> dps]
F(p, n) == [path |-> p, name |-> n]
NoJobs == [charts |-> <<>>, images |-> <<>>, files |-> <<>>]
ImagesOf(js) == [NoJobs EXCEPT !.images = js]
ChartsOf(js) == [NoJobs EXCEPT !.charts = js]
FilesOf(js)  == [NoJobs EXCEPT !.files = js]

MCManifests ==
  {\* checked images, one renamed, one that does not exist; then another document
   <<ImagesOf(<<I(rA, key, None), I(rB, key, rE), I(rD, key, None)>>),
     ImagesOf(<<I(rC, key, None)>>)>>,
   \* one image under two names, one of them new
   <<ImagesOf(<<I(rA, None, None), I(rA, None, rE)>>)>>,
   \* charts with a cycle and shared dependencies, then an image of theirs
   <<ChartsOf(<<C(app, TRUE, TRUE), C(lib, TRUE, FALSE)>>),
     ImagesOf(<<I(rB, None, rE)>>)>>,
   <<ChartsOf(<<C(app, FALSE, TRUE)>>),
     ChartsOf(<<C(leaf, FALSE, FALSE), C(leaf, FALSE, FALSE)>>)>>,
   \* one path under two names, and another file of the first name
   <<FilesOf(<<F(pA, nA), F(pA, nB), F(pB, nA)>>), FilesOf(<<F(pA, nB), F(pB, Nothing)>>)>>}
=============================================================================
