---------------------------- MODULE MCOCIIndex -----------------------------
(* Small instances of OCIIndex.                                            *)
EXTENDS OCIIndex, TLC

CONSTANTS d1, d2, d3, tagA, tagB, tagC, bad,
          nA, nB, nC

(* tagA, tagB and tagC are plain tags; bad cannot be parsed.               *)
AllCanon == (tagA :> nA) @@ (tagB :> nB) @@ (tagC :> nC) @@ (bad :> None)
AllRaw   == (tagA :> nA) @@ (tagB :> nB) @@ (tagC :> nC) @@ (bad :> nB)
MCCanon  == [r \in Ref |-> AllCanon[r]]
MCRaw    == [r \in Ref |-> AllRaw[r]]

D(g, r, k) == [dig |-> g, ref |-> r, kind |-> k]

Nothing     == {Missing}
OldStore    == {Missing, <<D(d1, tagA, "legacySigs"), D(d3, bad, "image")>>,
                <<D(d2, tagA, "missing")>>}
ImageAndSig == {D(d1, tagB, "image"), D(d3, tagB, "sigs")}
PushSig     == {D(d2, tagB, "legacySigs")}
OneEach     == {D(d1, tagA, "image"), D(d2, tagB, "image")}
PushTagged  == {D(d1, tagA, "image"), D(d2, tagB, "legacySigs")}
Signed      == {D(d1, tagA, "image"), D(d2, tagA, "sigs")}
AtoC        == {<<tagA, tagC>>}

(* An old store that is read again, and one that cannot always be saved.   *)
OldAndFaulty ==
  {[added |-> ImageAndSig, pushed |-> PushSig, rewrites |-> AtoC, init |-> OldStore,
    faults |-> FALSE, reloads |-> TRUE, unsynced |-> 1],
   [added |-> OneEach, pushed |-> PushTagged, rewrites |-> {}, init |-> Nothing,
    faults |-> TRUE, reloads |-> FALSE, unsynced |-> 2]}
RenameLost ==
  {[added |-> Signed, pushed |-> {}, rewrites |-> AtoC, init |-> Nothing,
    faults |-> FALSE, reloads |-> TRUE, unsynced |-> 2]}
=============================================================================
