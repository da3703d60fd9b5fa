---------------------------- MODULE MCStoreCopy -----------------------------
(* Small stores for StoreCopy.                                             *)
EXTENDS StoreCopy

CONSTANTS list, old, new, cfg, lay, sig, doc, odd, nest, kit, page, raw,
          rA, rB, rFile, rBad, library, hauler, pageName, rawName

(* An image index of the former and the present image under a tag, which   *)
(* share a layer; the signature of the former; a file.  A second           *)
(* repository has the present image too, or an index that has an index and *)
(* a kit of two files, with the config of an image.                        *)
MCParts ==
  [d \in Digest |->
     CASE d = list -> <<old, new>>
       [] d \in {old, new} -> <<cfg, lay>>
       [] d = sig -> <<lay>>
       [] d = doc -> <<cfg, page>>
       [] d = odd -> <<doc, new>>
       [] d = nest -> <<list, kit>>
       [] d = kit -> <<cfg, raw, page>>
       [] OTHER -> <<>>]
MCFileName == [d \in Digest |-> CASE d = page -> pageName [] d = raw -> rawName [] OTHER -> None]
MCRepoOf == [r \in Ref |-> IF r = rB THEN library ELSE hauler]
MCSignatureOf == [d \in Digest |-> IF d = sig THEN old ELSE None]

Holding(f) == [k \in Key |-> IF k \in DOMAIN f THEN f[k] ELSE None]
MCStores ==
  { Holding([k \in {<<rA, "image">>, <<rA, "sigs">>} |-> IF k[2] = "sigs" THEN sig ELSE old]),
    Holding([k \in {<<rA, "index">>, <<rB, "image">>, <<rB, "referrer">>} |->
               CASE k[2] = "index" -> list [] k[2] = "image" -> new [] OTHER -> sig]),
    Holding([k \in {<<rFile, "image">>, <<rB, "index">>} |-> IF k[1] = rFile THEN doc ELSE odd]),
    Holding([k \in {<<rFile, "image">>, <<rB, "index">>} |-> IF k[1] = rFile THEN doc ELSE nest]),
    Holding([k \in {<<rBad, "image">>, <<rA, "image">>} |-> old]) }
MCAdditions == <<[key |-> <<rA, "image">>, digest |-> new]>>
=============================================================================
