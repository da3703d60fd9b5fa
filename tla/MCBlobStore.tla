---------------------------- MODULE MCBlobStore ----------------------------
(* Small instances of BlobStore.                                           *)
EXTENDS BlobStore, TLC

CONSTANTS p1, p2, p3, d1, d2, c1, c2, c3

TwoOwn     == (p1 :> c1) @@ (p2 :> c2)
TwoAndOne  == (p1 :> c1) @@ (p2 :> c1) @@ (p3 :> c2)

AnyFile == FileState
=============================================================================
