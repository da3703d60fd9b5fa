---------------------------- MODULE LayoutProofs ----------------------------
(***************************************************************************)
(* What holds of a store under Layout, for any graph of manifests, any     *)
(* artifacts, names, jobs, hauls and retries: an entry of index.json is    *)
(* complete, only what was asked changes, a load or an add that reports    *)
(* success has done its work, CleanUp leaves no garbage, and the whole     *)
(* implements Catalog.                                                     *)
(*                                                                         *)
(* None of this is inductive.  Invariant adds what the plans promise: a    *)
(* plan writes all that an entry needs before it adds the entry (Backed),  *)
(* and what an artifact or a haul lacks is still in the plan (AddInv,      *)
(* LoadInv); what nameMap is ahead of index.json in is something this      *)
(* command was asked for; and between marking and sweeping CleanUp has     *)
(* marked all that is needed and nothing else (CleanInv).                  *)
(***************************************************************************)
EXTENDS Layout, SequenceTheorems, TLAPS

(* The blobs a step will have left in place, and those a plan will have.   *)
Gives(s) ==
  IF s.do = "write" THEN s.what
  ELSE IF s.do \in {"image", "graph"} THEN UNION {Needs[m] : m \in s.what} ELSE {}
All(p) == UNION {Gives(p[i]) : i \in 1..Len(p)}

(* Something the plan has still to do for e.                               *)
Has(p, do, e) == \E i \in 1..Len(p) : p[i].do = do /\ e \in p[i].what

(* An entry is added when its blobs are there.                             *)
Backed(p, B) ==
  \A i \in 1..Len(p) : p[i].do = "add" =>
    \A e \in p[i].what : Needs[e[2]] \subseteq B \cup UNION {Gives(p[n]) : n \in 1..(i - 1)}

Image(a)   == <<KeyOf(a), a.root>>
AskedOf(a) == {Image(a)} \cup {<<<<a.name, x[1]>>, x[2]>> : x \in a.extras}
Artifacts  == {art[j] : j \in Job} \ {None}

BlobStep    == [do : {"image", "graph"}, what : SUBSET Manifest] \cup [do : {"write"}, what : SUBSET Digest]
AddStep(a)  == BlobStep \cup [do : {"extras"}, what : SUBSET a.extras] \cup [do : {"add"}, what : SUBSET AskedOf(a)]
LoadStep(h) == BlobStep \cup [do : {"copy", "mark"}, what : SUBSET h]

Typed ==
  /\ use \in Uses
  /\ blobs \subseteq Digest /\ disk \subseteq Digest
  /\ index \in [Key -> Manifest \cup {None}] /\ mem \in [Key -> Manifest \cup {None}]
  /\ versions \subseteq [Key -> Manifest \cup {None}]
  /\ cmd \in {"none", "add", "load", "remove"}
  /\ plan = [j \in Job |-> plan[j]]
  /\ art \in [Job -> use.artifacts \cup {None}]
  /\ haul \subseteq Entry /\ half \subseteq Entry
  /\ \A e, f \in haul : e[1] = f[1] => e = f
  /\ cmd = "none" => plan = [j \in Job |-> <<>>]

AddInv ==
  cmd = "add" =>
    /\ \A j \in Job : IF art[j] = None THEN plan[j] = <<>>
                      ELSE plan[j] \in Seq(AddStep(art[j])) /\ Backed(plan[j], blobs)
    /\ \A j \in Job \ failed : art[j] # None =>
         /\ Needs[art[j].root] \subseteq blobs \cup All(plan[j])
         /\ \/ Has(plan[j], "add", Image(art[j]))
            \/ \E a \in Artifacts : KeyOf(a) = KeyOf(art[j]) /\ mem[KeyOf(a)] = a.root
    /\ \A k \in Key : mem[k] # index[k] =>
         /\ mem[k] # None /\ Needs[mem[k]] \subseteq blobs
         /\ \E a \in Artifacts : <<k, mem[k]>> \in AskedOf(a)

LoadInv ==
  cmd = "load" =>
    /\ \A j \in Job \ {First} : plan[j] = <<>>
    /\ plan[First] \in Seq(LoadStep(haul))
    /\ failed = {} => \A e \in haul :
         \/ Has(plan[First], "copy", e)
         \/ /\ Has(plan[First], "mark", e) \/ index[e[1]] = e[2]
            /\ Needs[e[2]] \subseteq blobs \cup All(plan[First])
    /\ \A k \in Key : mem[k] # None /\ mem[k] # index[k] => <<k, mem[k]>> \in haul

(* W is to be visited, G is what nothing has named so far.                 *)
CleanInv(W, G) ==
  /\ W \subseteq G /\ G \subseteq blobs
  /\ \A x \in W \cup (blobs \ G) : \E k \in Key : mem[k] # None /\ x \in Needs[mem[k]]
  /\ ~use.readFaults =>
       /\ \A k \in Key : mem[k] # None /\ mem[k] \in G => mem[k] \in W
       /\ \A m \in Manifest \cap (blobs \ G) : Names(m) \cap G \subseteq W

Visit(p) == IF p[1].do = "walk" THEN p[1].what ELSE {}
Rest(p)  == IF p[1].do = "walk" THEN p[2].what ELSE p[1].what

RemoveInv ==
  cmd = "remove" =>
    /\ \A j \in Job \ {First} : plan[j] = <<>>
    /\ LET p == plan[First]
       IN p # <<>> =>
            /\ mem = index
            /\ \/ p[1].what \subseteq Key /\ p = <<Step("drop", p[1].what), Step("clean", {None})>>
               \/ p = <<Step("clean", {None})>>
               \/ p = Cleaning(Visit(p), Rest(p)) /\ CleanInv(Visit(p), Rest(p))

WholeOrHalf(k, m) == Needs[m] \subseteq blobs \/ <<k, m>> \in half
WholeInv ==
  Undisturbed => \A k \in Key : /\ index[k] # None => WholeOrHalf(k, index[k])
                                /\ mem[k] # None => WholeOrHalf(k, mem[k])

Invariant == Typed /\ AddInv /\ LoadInv /\ RemoveInv /\ WholeInv
-----------------------------------------------------------------------------
(* What an artifact needs.                                                 *)

LEMMA NamesTypes ==
  ASSUME NEW m \in Manifest
  PROVE  /\ Names(m) \subseteq Digest /\ m \in Digest /\ Children[m] \in Seq(Manifest)
         /\ (Config[m] \cup Layers[m]) \cap Manifest = {}
<1>1. Children[m] \in Seq(Manifest) /\ \A i \in DOMAIN Children[m] : Children[m][i] \in Manifest
  BY LayoutAssumption, ElementOfSeq, LenProperties
<1> QED
  BY <1>1, LayoutAssumption DEF Names

LEMMA NeedsIsLeast ==
  ASSUME NEW d \in Digest
  PROVE  /\ d \in Needs[d] /\ Needs[d] \subseteq Digest /\ Closed(Needs[d])
         /\ \A S \in SUBSET Digest : d \in S /\ Closed(S) => Needs[d] \subseteq S
<1>1. Needs[d] = {x \in Digest : \A S \in SUBSET Digest : d \in S /\ Closed(S) => x \in S}
  BY DEF Needs
<1>2. Closed(Needs[d])
  <2> SUFFICES ASSUME NEW m \in Needs[d] \cap Manifest, NEW x \in Names(m),
                      NEW S \in SUBSET Digest, d \in S, Closed(S)
               PROVE  x \in S
    BY <1>1, NamesTypes DEF Closed
  <2> QED
    BY <1>1 DEF Closed
<1> QED
  BY <1>1, <1>2

(* All that a manifest needs is what it names and what its children need.  *)
LEMMA NeedsOfManifest ==
  ASSUME NEW m \in Manifest
  PROVE  Needs[m] \subseteq {m} \cup Config[m] \cup Layers[m]
                            \cup UNION {Needs[Children[m][i]] : i \in DOMAIN Children[m]}
<1> DEFINE S == {m} \cup Config[m] \cup Layers[m]
                    \cup UNION {Needs[Children[m][i]] : i \in DOMAIN Children[m]}
<1>1. \A i \in DOMAIN Children[m] : Children[m][i] \in Manifest /\ Children[m][i] \in Digest
  BY NamesTypes, ElementOfSeq, LenProperties
<1>2. S \subseteq Digest
  BY <1>1, NamesTypes, NeedsIsLeast DEF Names
<1>3. Closed(S)
  <2> SUFFICES ASSUME NEW n \in S \cap Manifest PROVE Names(n) \subseteq S
    BY DEF Closed
  <2>1. CASE n = m
    BY <1>1, <2>1, NeedsIsLeast DEF Names
  <2>2. CASE n # m
    <3>1. PICK i \in DOMAIN Children[m] : n \in Needs[Children[m][i]]
      BY <2>2, NamesTypes
    <3>2. Names(n) \subseteq Needs[Children[m][i]]
      BY <1>1, <3>1, NeedsIsLeast DEF Closed
    <3> QED
      BY <3>2
  <2> QED
    BY <2>1, <2>2
<1> QED
  BY <1>2, <1>3, NeedsIsLeast, NamesTypes

(* What is needed does not change with what is read of it: the blobs that  *)
(* are marked contain all that is needed by what is marked and complete.   *)
LEMMA MarkedNeeds ==
  ASSUME NEW d \in Digest, NEW G, d \notin G, NEW B, Needs[d] \subseteq B,
         \A m \in Manifest \cap (B \ G) : Names(m) \cap G = {}
  PROVE  Needs[d] \cap G = {}
<1>1. Needs[d] \ G \in SUBSET Digest /\ d \in Needs[d] \ G
  BY NeedsIsLeast
<1>2. Closed(Needs[d] \ G)
  BY NeedsIsLeast DEF Closed
<1> QED
  BY <1>1, <1>2, NeedsIsLeast
-----------------------------------------------------------------------------
(* Plans.                                                                  *)

LEMMA EmptyFacts ==
  /\ \A A : <<>> \in Seq(A)
  /\ All(<<>>) = {} /\ \A do, e : ~Has(<<>>, do, e)
  /\ \A B : Backed(<<>>, B)
<1>1. \A A : <<>> \in Seq(A)
  BY EmptySeq
<1>2. 1..Len(<<>>) = {}
  BY EmptySeq
<1> QED
  BY <1>1, <1>2 DEF All, Has, Backed

LEMMA OneFacts ==
  ASSUME NEW A, NEW s \in A
  PROVE  /\ <<s>> \in Seq(A) /\ All(<<s>>) = Gives(s)
         /\ \A do, e : Has(<<s>>, do, e) <=> s.do = do /\ e \in s.what
         /\ \A B : (s.do = "add" => \A e \in s.what : Needs[e[2]] \subseteq B) => Backed(<<s>>, B)
<1>1. <<s>> \in Seq(A) /\ Len(<<s>>) = 1 /\ <<s>>[1] = s /\ 1..1 = {1}
  OBVIOUS
<1> QED
  BY <1>1 DEF All, Has, Backed

LEMMA ConcatFacts ==
  ASSUME NEW A, NEW p \in Seq(A), NEW q \in Seq(A)
  PROVE  /\ p \o q \in Seq(A) /\ All(p \o q) = All(p) \cup All(q)
         /\ \A do, e : Has(p \o q, do, e) <=> Has(p, do, e) \/ Has(q, do, e)
         /\ \A B : Backed(p, B) /\ Backed(q, B \cup All(p)) => Backed(p \o q, B)
<1>1. PICK r, n, m : r = p \o q /\ n = Len(p) /\ m = Len(q)
  OBVIOUS
<1>2. /\ r \in Seq(A) /\ Len(r) = n + m /\ n \in Nat /\ m \in Nat
      /\ \A i \in 1..(n + m) : r[i] = IF i <= n THEN p[i] ELSE q[i - n]
  BY <1>1, ConcatProperties, LenProperties
<1>3. /\ \A i \in 1..n : i \in 1..(n + m) /\ r[i] = p[i]
      /\ \A i \in 1..m : i + n \in 1..(n + m) /\ r[i + n] = q[i]
  BY <1>2
<1>4. \A i \in 1..(n + m) : i \in 1..n \/ i - n \in 1..m
  BY <1>2
<1>5. \A i \in 1..(n + m) : i - n \in 1..m => r[i] = q[i - n]
  BY <1>2
<1>6. All(r) = All(p) \cup All(q)
  <2>1. All(r) \subseteq All(p) \cup All(q)
    BY <1>1, <1>2, <1>3, <1>4, <1>5 DEF All
  <2>2. \A i \in 1..n : Gives(p[i]) \subseteq All(r)
    BY <1>2, <1>3 DEF All
  <2>3. \A i \in 1..m : Gives(q[i]) \subseteq All(r)
    BY <1>2, <1>3 DEF All
  <2>4. /\ UNION {Gives(p[i]) : i \in 1..n} \subseteq All(r)
        /\ UNION {Gives(q[i]) : i \in 1..m} \subseteq All(r)
    BY <2>2, <2>3
  <2>5. /\ All(p) = UNION {Gives(p[i]) : i \in 1..n}
        /\ All(q) = UNION {Gives(q[i]) : i \in 1..m}
    BY <1>1 DEF All
  <2> QED
    BY <2>1, <2>4, <2>5
<1>7. \A do, e : Has(r, do, e) <=> Has(p, do, e) \/ Has(q, do, e)
  <2> TAKE do, e
  <2>1. Has(p, do, e) <=> \E i \in 1..n : r[i].do = do /\ e \in r[i].what
    BY <1>1, <1>3 DEF Has
  <2>2. Has(q, do, e) <=> \E i \in 1..m : r[i + n].do = do /\ e \in r[i + n].what
    BY <1>1, <1>3 DEF Has
  <2>3. Has(r, do, e) <=> \E i \in 1..(n + m) : r[i].do = do /\ e \in r[i].what
    BY <1>2 DEF Has
  <2>4. \A i \in 1..(n + m) : i - n \in 1..m => (i - n) + n = i
    BY <1>2
  <2> QED
    BY <1>3, <1>4, <2>1, <2>2, <2>3, <2>4
<1>8. ASSUME NEW B, Backed(p, B), Backed(q, B \cup All(p)), NEW i \in 1..(n + m), r[i].do = "add",
             NEW e \in r[i].what
      PROVE  Needs[e[2]] \subseteq B \cup UNION {Gives(r[x]) : x \in 1..(i - 1)}
  <2>1. CASE i \in 1..n
    <3>1. Needs[e[2]] \subseteq B \cup UNION {Gives(p[x]) : x \in 1..(i - 1)}
      BY <1>1, <1>3, <1>8, <2>1 DEF Backed
    <3>2. \A x \in 1..(i - 1) : p[x] = r[x]
      BY <1>2, <1>3, <2>1
    <3> QED
      BY <3>1, <3>2
  <2>2. CASE i - n \in 1..m
    <3>1. Needs[e[2]] \subseteq B \cup All(p) \cup UNION {Gives(q[x]) : x \in 1..(i - n - 1)}
      BY <1>1, <1>5, <1>8, <2>2 DEF Backed
    <3>2. All(p) \subseteq UNION {Gives(r[x]) : x \in 1..(i - 1)}
      <4>1. \A x \in 1..n : x \in 1..(i - 1) /\ p[x] = r[x]
        BY <1>2, <1>3, <2>2
      <4> QED
        BY <1>1, <4>1 DEF All
    <3>3. \A x \in 1..(i - n - 1) : x + n \in 1..(i - 1) /\ q[x] = r[x + n]
      BY <1>2, <1>3, <2>2
    <3>4. UNION {Gives(q[x]) : x \in 1..(i - n - 1)} \subseteq UNION {Gives(r[x]) : x \in 1..(i - 1)}
      BY <3>3
    <3> QED
      BY <3>1, <3>2, <3>4
  <2> QED
    BY <1>4, <2>1, <2>2
<1>9. \A B : Backed(p, B) /\ Backed(q, B \cup All(p)) => Backed(r, B)
  BY <1>2, <1>8 DEF Backed
<1> QED
  BY <1>1, <1>2, <1>6, <1>7, <1>9

LEMMA ConsFacts ==
  ASSUME NEW A, NEW p \in Seq(A), p # <<>>
  PROVE  /\ p[1] \in A /\ Tail(p) \in Seq(A) /\ p = <<p[1]>> \o Tail(p)
         /\ All(p) = Gives(p[1]) \cup All(Tail(p))
         /\ \A do, e : Has(p, do, e) <=> (p[1].do = do /\ e \in p[1].what) \/ Has(Tail(p), do, e)
         /\ \A B : Backed(p, B) => /\ p[1].do = "add" => \A e \in p[1].what : Needs[e[2]] \subseteq B
                                   /\ Backed(Tail(p), B \cup Gives(p[1]))
<1>1. /\ Tail(p) \in Seq(A) /\ Len(Tail(p)) = Len(p) - 1 /\ \A i \in 1..Len(Tail(p)) : Tail(p)[i] = p[i + 1]
      /\ Len(p) \in Nat \ {0} /\ 1 \in 1..Len(p) /\ p[1] \in A
  BY HeadTailProperties, EmptySeq, LenProperties, ElementOfSeq
<1>2. p = <<p[1]>> \o Tail(p)
  <2> PICK r : r = <<p[1]>> \o Tail(p)
    OBVIOUS
  <2>1. /\ <<p[1]>> \in Seq(A) /\ Len(<<p[1]>>) = 1 /\ <<p[1]>>[1] = p[1]
    BY <1>1
  <2>2. /\ r \in Seq(A) /\ Len(r) = 1 + Len(Tail(p))
        /\ \A i \in 1..(1 + Len(Tail(p))) : r[i] = IF i <= 1 THEN p[1] ELSE Tail(p)[i - 1]
    BY <1>1, <2>1, ConcatProperties
  <2>3. \A i \in 1..Len(p) : r[i] = p[i]
    BY <1>1, <2>2
  <2>4. Len(r) = Len(p)
    BY <1>1, <2>2
  <2> QED
    BY <2>2, <2>3, <2>4, SeqEqual
<1>3. /\ <<p[1]>> \in Seq(A) /\ All(<<p[1]>>) = Gives(p[1])
      /\ \A do, e : Has(<<p[1]>>, do, e) <=> p[1].do = do /\ e \in p[1].what
  BY <1>1, OneFacts
<1>4. /\ All(p) = Gives(p[1]) \cup All(Tail(p))
      /\ \A do, e : Has(p, do, e) <=> (p[1].do = do /\ e \in p[1].what) \/ Has(Tail(p), do, e)
  <2> PICK h, t : h = <<p[1]>> /\ t = Tail(p)
    OBVIOUS
  <2>1. h \in Seq(A) /\ t \in Seq(A) /\ p = h \o t
    BY <1>1, <1>2, <1>3
  <2>2. /\ All(h \o t) = All(h) \cup All(t)
        /\ \A do, e : Has(h \o t, do, e) <=> Has(h, do, e) \/ Has(t, do, e)
    <3>1. h \in Seq(A) /\ t \in Seq(A)
      BY <2>1
    <3>2. All(h \o t) = All(h) \cup All(t)
      BY ONLY <3>1, ConcatFacts
    <3>3. \A do, e : Has(h \o t, do, e) <=> Has(h, do, e) \/ Has(t, do, e)
      BY ONLY <3>1, ConcatFacts
    <3> QED
      BY <3>2, <3>3
  <2>3. /\ All(h) = Gives(p[1])
        /\ \A do, e : Has(h, do, e) <=> p[1].do = do /\ e \in p[1].what
    BY <1>3
  <2> QED
    BY <2>1, <2>2, <2>3
<1>5. ASSUME NEW B, Backed(p, B)
      PROVE  /\ p[1].do = "add" => \A e \in p[1].what : Needs[e[2]] \subseteq B
             /\ Backed(Tail(p), B \cup Gives(p[1]))
  <2>1. p[1].do = "add" => \A e \in p[1].what : Needs[e[2]] \subseteq B
    <3>1. 1..(1 - 1) = {}
      OBVIOUS
    <3> QED
      BY <1>1, <1>5, <3>1 DEF Backed
  <2>2. ASSUME NEW i \in 1..Len(Tail(p)), Tail(p)[i].do = "add", NEW e \in Tail(p)[i].what
        PROVE  Needs[e[2]] \subseteq B \cup Gives(p[1]) \cup UNION {Gives(Tail(p)[x]) : x \in 1..(i - 1)}
    <3>1. i + 1 \in 1..Len(p) /\ Tail(p)[i] = p[i + 1] /\ (i + 1) - 1 = i
      BY <1>1
    <3>2. Needs[e[2]] \subseteq B \cup UNION {Gives(p[x]) : x \in 1..i}
      BY <1>5, <2>2, <3>1 DEF Backed
    <3>3. \A x \in 1..i : x = 1 \/ (x - 1 \in 1..(i - 1) /\ p[x] = Tail(p)[x - 1])
      BY <1>1, <3>1
    <3> QED
      BY <3>2, <3>3
  <2>3. Backed(Tail(p), B \cup Gives(p[1]))
    BY <2>2 DEF Backed
  <2> QED
    BY <2>1, <2>3
<1> QED
  BY <1>1, <1>2, <1>4, <1>5

LEMMA BackedMono ==
  ASSUME NEW p, NEW B, NEW C, B \subseteq C, Backed(p, B)
  PROVE  Backed(p, C)
BY DEF Backed
LEMMA PrefixFacts ==
  ASSUME NEW A, NEW s \in A, NEW t \in Seq(A)
  PROVE  /\ <<s>> \o t \in Seq(A) /\ All(<<s>> \o t) = Gives(s) \cup All(t)
         /\ \A do, e : Has(<<s>> \o t, do, e) <=> (s.do = do /\ e \in s.what) \/ Has(t, do, e)
         /\ \A B : (s.do = "add" => \A e \in s.what : Needs[e[2]] \subseteq B)
                     /\ Backed(t, B \cup Gives(s)) => Backed(<<s>> \o t, B)
<1>1. PICK h : h = <<s>>
  OBVIOUS
<1>2. /\ h \in Seq(A) /\ All(h) = Gives(s)
      /\ \A do, e : Has(h, do, e) <=> s.do = do /\ e \in s.what
      /\ \A B : (s.do = "add" => \A e \in s.what : Needs[e[2]] \subseteq B) => Backed(h, B)
  BY ONLY <1>1, OneFacts
<1>3. h \o t \in Seq(A) /\ All(h \o t) = All(h) \cup All(t)
  BY ONLY <1>2, ConcatFacts
<1>4. \A do, e : Has(h \o t, do, e) <=> Has(h, do, e) \/ Has(t, do, e)
  BY ONLY <1>2, ConcatFacts
<1>5. \A B : Backed(h, B) /\ Backed(t, B \cup All(h)) => Backed(h \o t, B)
  BY ONLY <1>2, ConcatFacts
<1>6. \A do, e : Has(h \o t, do, e) <=> (s.do = do /\ e \in s.what) \/ Has(t, do, e)
  BY ONLY <1>2, <1>4
<1>7. \A B : (s.do = "add" => \A e \in s.what : Needs[e[2]] \subseteq B)
                /\ Backed(t, B \cup Gives(s)) => Backed(h \o t, B)
  BY ONLY <1>2, <1>5
<1> QED
  BY ONLY <1>1, <1>2, <1>3, <1>6, <1>7

(* What taking element e off a plan's first step leaves.                   *)
LEMMA DoneIs ==
  ASSUME NEW A, NEW p \in Seq(A), p # <<>>, NEW e, p[1].what # {e},
         p[1] = Step(p[1].do, p[1].what), Step(p[1].do, p[1].what \ {e}) \in A
  PROVE  Done(p, e) = <<Step(p[1].do, p[1].what \ {e})>> \o Tail(p)
<1>1. PICK t, s : t = Tail(p) /\ s = Step(p[1].do, p[1].what \ {e})
  OBVIOUS
<1>3. Done(p, e) = [p EXCEPT ![1] = s]
  BY <1>1 DEF Done
<1>4. /\ Len(t) = Len(p) - 1 /\ Len(p) \in Nat \ {0} /\ \A i \in 1..Len(t) : t[i] = p[i + 1]
      /\ t \in Seq(A) /\ s \in A
  BY <1>1, HeadTailProperties, EmptySeq
<1>5. 1 \in 1..Len(p)
  BY <1>4
<1>6. PICK q : q = [p EXCEPT ![1] = s]
  OBVIOUS
<1>7. q \in Seq(A) /\ Len(q) = Len(p) /\ \A i \in 1..Len(p) : q[i] = IF i = 1 THEN s ELSE p[i]
  BY ONLY <1>4, <1>5, <1>6, p \in Seq(A), ExceptSeq
<1>8. PICK h : h = <<s>>
  OBVIOUS
<1>9. h \in Seq(A) /\ Len(h) = 1 /\ h[1] = s
  BY ONLY <1>4, <1>8
<1>10. PICK r : r = h \o t
  OBVIOUS
<1>11. /\ r \in Seq(A) /\ Len(r) = 1 + Len(t)
       /\ \A i \in 1..(1 + Len(t)) : r[i] = IF i <= 1 THEN h[i] ELSE t[i - 1]
  <2>1. /\ r \in Seq(A) /\ Len(r) = Len(h) + Len(t)
        /\ \A i \in 1..(Len(h) + Len(t)) : r[i] = IF i <= Len(h) THEN h[i] ELSE t[i - Len(h)]
    BY ONLY <1>4, <1>9, <1>10, ConcatProperties
  <2> QED
    BY ONLY <1>9, <2>1
<1>12. Len(r) = Len(q)
  BY ONLY <1>4, <1>7, <1>11
<1>13. ASSUME NEW i \in 1..Len(q) PROVE q[i] = r[i]
  <2>1. CASE i = 1
    BY ONLY <1>4, <1>7, <1>9, <1>11, <2>1
  <2>2. CASE i # 1
    <3>1. i \in 1..Len(p) /\ i \in 1..(1 + Len(t)) /\ i - 1 \in 1..Len(t) /\ ~(i <= 1) /\ (i - 1) + 1 = i
      BY ONLY <1>4, <1>7, <2>2, i \in 1..Len(q)
    <3>2. q[i] = p[i] /\ r[i] = t[i - 1]
      BY ONLY <1>7, <1>11, <2>2, <3>1
    <3>3. t[i - 1] = p[i]
      BY ONLY <1>4, <3>1
    <3> QED
      BY ONLY <3>2, <3>3
  <2> QED
    BY <2>1, <2>2
<1>14. q = r
  BY ONLY <1>7, <1>11, <1>12, <1>13, SeqEqual
<1> QED
  BY ONLY <1>1, <1>3, <1>6, <1>8, <1>10, <1>14

LEMMA DoneFacts ==
  ASSUME NEW A, NEW p \in Seq(A), p # <<>>, NEW e,
         p[1] = Step(p[1].do, p[1].what), Step(p[1].do, p[1].what \ {e}) \in A,
         p[1].do \notin {"image", "graph"}
  PROVE  /\ Done(p, e) \in Seq(A)
         /\ All(p) \subseteq All(Done(p, e)) \cup (IF p[1].do = "write" THEN {e} ELSE {})
         /\ \A do, f : Has(p, do, f) => Has(Done(p, e), do, f) \/ (do = p[1].do /\ f = e)
         /\ \A B : Backed(p, B) => Backed(Done(p, e), B \cup (IF p[1].do = "write" THEN {e} ELSE {}))
<1>1. PICK t, s, do, w, G : /\ t = Tail(p) /\ s = Step(p[1].do, p[1].what \ {e})
                            /\ do = p[1].do /\ w = p[1].what
                            /\ G = IF p[1].do = "write" THEN {e} ELSE {}
  OBVIOUS
<1> SUFFICES /\ Done(p, e) \in Seq(A) /\ All(p) \subseteq All(Done(p, e)) \cup G
             /\ \A x, f : Has(p, x, f) => Has(Done(p, e), x, f) \/ (x = do /\ f = e)
             /\ \A B : Backed(p, B) => Backed(Done(p, e), B \cup G)
  BY <1>1
<1>2. p[1] \in A /\ t \in Seq(A) /\ All(p) = Gives(p[1]) \cup All(t)
  BY <1>1, ConsFacts
<1>3. \A x, f : Has(p, x, f) <=> (do = x /\ f \in w) \/ Has(t, x, f)
  BY <1>1, ConsFacts
<1>4. \A B : Backed(p, B) => /\ do = "add" => \A f \in w : Needs[f[2]] \subseteq B
                             /\ Backed(t, B \cup Gives(p[1]))
  BY <1>1, ConsFacts
<1>5. s \in A /\ s.do = do /\ s.what = w \ {e}
  BY <1>1 DEF Step
<1>6. Gives(p[1]) \subseteq Gives(s) \cup G /\ Gives(p[1]) = IF do = "write" THEN w ELSE {}
  BY <1>1, <1>5 DEF Gives
<1>7. CASE w = {e}
  <2>1. Done(p, e) = t
    BY <1>1, <1>7 DEF Done
  <2>2. Gives(p[1]) \subseteq G
    BY <1>1, <1>6, <1>7
  <2>3. All(p) \subseteq All(t) \cup G
    BY <1>2, <2>2
  <2>4. ASSUME NEW B, Backed(p, B) PROVE Backed(t, B \cup G)
    <3>1. Backed(t, B \cup Gives(p[1])) /\ B \cup Gives(p[1]) \subseteq B \cup G
      BY <1>4, <2>2, <2>4
    <3> QED
      BY ONLY <3>1, BackedMono
  <2>5. \A x, f : Has(p, x, f) => Has(t, x, f) \/ (x = do /\ f = e)
    BY <1>3, <1>7
  <2>6. Done(p, e) \in Seq(A) /\ All(p) \subseteq All(Done(p, e)) \cup G
    BY ONLY <1>2, <2>1, <2>3
  <2>7. \A B : Backed(p, B) => Backed(Done(p, e), B \cup G)
    BY ONLY <2>1, <2>4
  <2>8. \A x, f : Has(p, x, f) => Has(Done(p, e), x, f) \/ (x = do /\ f = e)
    BY ONLY <2>1, <2>5
  <2> QED
    BY ONLY <2>6, <2>7, <2>8
<1>8. CASE w # {e}
  <2>1. PICK q : q = <<s>> \o t
    OBVIOUS
  <2>2. Done(p, e) = q
    BY <1>1, <1>8, <2>1, DoneIs
  <2>3. q \in Seq(A) /\ All(q) = Gives(s) \cup All(t)
    BY ONLY <1>2, <1>5, <2>1, PrefixFacts
  <2>4. \A x, f : Has(q, x, f) <=> (do = x /\ f \in w \ {e}) \/ Has(t, x, f)
    BY ONLY <1>2, <1>5, <2>1, PrefixFacts
  <2>5. ASSUME NEW B, Backed(p, B) PROVE Backed(q, B \cup G)
    <3>1. do = "add" => \A f \in w \ {e} : Needs[f[2]] \subseteq B \cup G
      BY <1>4, <2>5
    <3>2. Backed(t, B \cup Gives(p[1])) /\ B \cup Gives(p[1]) \subseteq (B \cup G) \cup Gives(s)
      BY <1>4, <1>6, <2>5
    <3>3. Backed(t, (B \cup G) \cup Gives(s))
      BY ONLY <3>2, BackedMono
    <3> QED
      BY ONLY <1>2, <1>5, <2>1, <3>1, <3>3, PrefixFacts
  <2>6. All(p) \subseteq All(q) \cup G
    BY ONLY <1>2, <1>6, <2>3
  <2>7. \A x, f : Has(p, x, f) => Has(q, x, f) \/ (x = do /\ f = e)
    BY ONLY <1>3, <2>4
  <2>8. Done(p, e) \in Seq(A) /\ All(p) \subseteq All(Done(p, e)) \cup G
    BY ONLY <2>2, <2>3, <2>6
  <2>9. \A B : Backed(p, B) => Backed(Done(p, e), B \cup G)
    BY ONLY <2>2, <2>5
  <2>10. \A x, f : Has(p, x, f) => Has(Done(p, e), x, f) \/ (x = do /\ f = e)
    BY ONLY <2>2, <2>7
  <2> QED
    BY ONLY <2>8, <2>9, <2>10
<1> QED
  BY ONLY <1>7, <1>8

(* The steps that leave blobs in place.                                    *)
LEMMA BlobStepFacts ==
  /\ \A S \in SUBSET Digest : Step("write", S) \in BlobStep /\ Gives(Step("write", S)) = S
  /\ \A do \in {"image", "graph"}, m \in Manifest :
       Step(do, {m}) \in BlobStep /\ Gives(Step(do, {m})) = Needs[m]
  /\ \A s \in BlobStep : /\ s = Step(s.do, s.what) /\ s.do \in {"image", "graph", "write"}
                         /\ s.do = "write" => s.what \subseteq Digest
                         /\ s.do # "write" => s.what \subseteq Manifest
BY DEF BlobStep, Step, Gives

LEMMA WriteFacts ==
  ASSUME NEW S \in SUBSET Digest
  PROVE  Write(S) \in Seq(BlobStep) /\ All(Write(S)) = S
<1>1. Step("write", S) \in BlobStep /\ Gives(Step("write", S)) = S
  BY BlobStepFacts
<1> QED
  BY <1>1, EmptyFacts, OneFacts DEF Write

LEMMA EachFacts ==
  ASSUME NEW do \in {"image", "graph"}, NEW list \in Seq(Manifest)
  PROVE  /\ Each(do, list) \in Seq(BlobStep)
         /\ All(Each(do, list)) = UNION {Needs[list[i]] : i \in DOMAIN list}
<1>1. /\ Len(list) \in Nat /\ DOMAIN list = 1..Len(list)
      /\ \A i \in 1..Len(list) : list[i] \in Manifest
  BY LenProperties, ElementOfSeq
<1>2. Each(do, list) = [i \in 1..Len(list) |-> Step(do, {list[i]})]
  BY <1>1 DEF Each
<1>3. Each(do, list) \in [1..Len(list) -> BlobStep]
  BY <1>1, <1>2, BlobStepFacts
<1>4. Each(do, list) \in Seq(BlobStep)
  BY <1>1, <1>3
<1>5. Len(Each(do, list)) = Len(list)
  BY <1>1, <1>2
<1>6. \A i \in 1..Len(list) : Gives(Each(do, list)[i]) = Needs[list[i]]
  BY <1>1, <1>2, BlobStepFacts
<1> QED
  BY <1>1, <1>4, <1>5, <1>6 DEF All

(* A plan of such steps adds nothing to the index, and copies nothing.     *)
LEMMA BlobPlanFacts ==
  ASSUME NEW p \in Seq(BlobStep)
  PROVE  /\ \A B : Backed(p, B)
         /\ \A do \in {"add", "copy", "mark"} : \A e : ~Has(p, do, e)
<1>1. \A i \in 1..Len(p) : p[i].do \in {"image", "graph", "write"}
  BY ElementOfSeq, BlobStepFacts
<1> QED
  BY <1>1 DEF Backed, Has
LEMMA Concat4 ==
  ASSUME NEW p \in Seq(BlobStep), NEW q \in Seq(BlobStep), NEW r \in Seq(BlobStep), NEW t \in Seq(BlobStep)
  PROVE  /\ p \o q \o r \in Seq(BlobStep) /\ All(p \o q \o r) = All(p) \cup All(q) \cup All(r)
         /\ p \o q \o r \o t \in Seq(BlobStep)
         /\ All(p \o q \o r \o t) = All(p) \cup All(q) \cup All(r) \cup All(t)
<1>1. PICK u, v : u = p \o q /\ v = u \o r
  OBVIOUS
<1>2. u \in Seq(BlobStep) /\ All(u) = All(p) \cup All(q)
  BY ONLY <1>1, p \in Seq(BlobStep), q \in Seq(BlobStep), ConcatFacts
<1>3. v \in Seq(BlobStep) /\ All(v) = All(u) \cup All(r)
  <2>1. u \o r \in Seq(BlobStep) /\ All(u \o r) = All(u) \cup All(r)
    BY ONLY <1>2, r \in Seq(BlobStep), ConcatFacts
  <2> QED
    BY ONLY <1>1, <2>1
<1>4. v \o t \in Seq(BlobStep) /\ All(v \o t) = All(v) \cup All(t)
  BY ONLY <1>3, t \in Seq(BlobStep), ConcatFacts
<1> QED
  BY ONLY <1>1, <1>2, <1>3, <1>4

(* What is written for a manifest is all it needs.                         *)
LEMMA ManifestPlans ==
  ASSUME NEW m \in Manifest
  PROVE  /\ ImageBlobs(m) \in Seq(BlobStep) /\ Needs[m] \subseteq All(ImageBlobs(m))
         /\ CopyParts(m) \in Seq(BlobStep) /\ Write({m}) \in Seq(BlobStep)
         /\ Needs[m] \subseteq All(CopyParts(m)) \cup All(Write({m}))
         /\ Children[m] = <<>> => /\ ArtifactBlobs(m) \in Seq(BlobStep)
                                  /\ Needs[m] \subseteq All(ArtifactBlobs(m))
<1>1. PICK c, l, w, ei, eg : /\ c = Write(Config[m]) /\ l = Write(Layers[m]) /\ w = Write({m})
                             /\ ei = Each("image", Children[m]) /\ eg = Each("graph", Children[m])
  OBVIOUS
<1>2. Config[m] \in SUBSET Digest /\ Layers[m] \in SUBSET Digest /\ {m} \in SUBSET Digest
  BY LayoutAssumption
<1>3. /\ c \in Seq(BlobStep) /\ All(c) = Config[m]
      /\ l \in Seq(BlobStep) /\ All(l) = Layers[m]
      /\ w \in Seq(BlobStep) /\ All(w) = {m}
  BY ONLY <1>1, <1>2, WriteFacts
<1>4. PICK n : n = UNION {Needs[Children[m][i]] : i \in DOMAIN Children[m]}
  OBVIOUS
<1>5. ei \in Seq(BlobStep) /\ All(ei) = n /\ eg \in Seq(BlobStep) /\ All(eg) = n
  <2>1. Children[m] \in Seq(Manifest)
    BY NamesTypes
  <2> QED
    BY <1>1, <1>4, <2>1, EachFacts
<1>6. Needs[m] \subseteq {m} \cup Config[m] \cup Layers[m] \cup n
  BY <1>4, NeedsOfManifest
<1>7. /\ ei \o l \o c \o w \in Seq(BlobStep)
      /\ All(ei \o l \o c \o w) = All(ei) \cup All(l) \cup All(c) \cup All(w)
  BY ONLY <1>3, <1>5, Concat4
<1>8. /\ eg \o c \o l \in Seq(BlobStep) /\ All(eg \o c \o l) = All(eg) \cup All(c) \cup All(l)
  BY ONLY <1>3, <1>5, Concat4
<1>9. /\ w \o c \o l \in Seq(BlobStep) /\ All(w \o c \o l) = All(w) \cup All(c) \cup All(l)
  BY ONLY <1>3, <1>5, Concat4
<1>10. Children[m] = <<>> => n = {}
  <2>1. Children[m] = <<>> => DOMAIN Children[m] = {}
    OBVIOUS
  <2> QED
    BY <1>4, <2>1
<1>11. /\ ImageBlobs(m) = ei \o l \o c \o w /\ CopyParts(m) = eg \o c \o l
       /\ ArtifactBlobs(m) = w \o c \o l
  BY <1>1 DEF ImageBlobs, CopyParts, ArtifactBlobs
<1> QED
  BY ONLY <1>1, <1>3, <1>5, <1>6, <1>7, <1>8, <1>9, <1>10, <1>11

(* Plans built of a part that writes and a part that follows it.           *)
LEMMA FollowFacts ==
  ASSUME NEW A, BlobStep \subseteq A, NEW p \in Seq(BlobStep), NEW q \in Seq(A)
  PROVE  /\ p \o q \in Seq(A) /\ All(p \o q) = All(p) \cup All(q)
         /\ \A do, e : Has(p \o q, do, e) <=> Has(p, do, e) \/ Has(q, do, e)
         /\ \A B : Backed(q, B \cup All(p)) => Backed(p \o q, B)
<1>1. p \in Seq(A)
  BY SeqMonotonic
<1>2. p \o q \in Seq(A) /\ All(p \o q) = All(p) \cup All(q)
  BY ONLY <1>1, q \in Seq(A), ConcatFacts
<1>3. \A do, e : Has(p \o q, do, e) <=> Has(p, do, e) \/ Has(q, do, e)
  BY ONLY <1>1, q \in Seq(A), ConcatFacts
<1>4. \A B : Backed(p, B) /\ Backed(q, B \cup All(p)) => Backed(p \o q, B)
  BY ONLY <1>1, q \in Seq(A), ConcatFacts
<1>5. \A B : Backed(p, B)
  BY BlobPlanFacts
<1> QED
  BY ONLY <1>2, <1>3, <1>4, <1>5

LEMMA AddFacts ==
  ASSUME NEW a, NEW name, NEW kind, NEW m, <<<<name, kind>>, m>> \in AskedOf(a)
  PROVE  /\ Add(name, kind, m) \in Seq(AddStep(a)) /\ All(Add(name, kind, m)) = {}
         /\ Has(Add(name, kind, m), "add", <<<<name, kind>>, m>>)
         /\ \A B : Needs[m] \subseteq B => Backed(Add(name, kind, m), B)
<1>1. PICK s : s = Step("add", {<<<<name, kind>>, m>>})
  OBVIOUS
<1>2. s \in AddStep(a) /\ s.do = "add" /\ s.what = {<<<<name, kind>>, m>>} /\ Gives(s) = {}
  BY <1>1 DEF AddStep, Step, Gives
<1>3. /\ <<s>> \in Seq(AddStep(a)) /\ All(<<s>>) = Gives(s)
      /\ \A do, e : Has(<<s>>, do, e) <=> s.do = do /\ e \in s.what
  BY ONLY <1>2, OneFacts
<1>4. \A B : (s.do = "add" => \A e \in s.what : Needs[e[2]] \subseteq B) => Backed(<<s>>, B)
  BY ONLY <1>2, OneFacts
<1>5. \A B : Needs[m] \subseteq B => Backed(<<s>>, B)
  BY ONLY <1>2, <1>4
<1>6. Has(<<s>>, "add", <<<<name, kind>>, m>>)
  BY ONLY <1>2, <1>3
<1>7. Add(name, kind, m) = <<s>>
  BY <1>1 DEF Add
<1> QED
  BY ONLY <1>2, <1>3, <1>5, <1>6, <1>7

(* The plan of an add: whatever the store holds, it writes all its image   *)
(* needs, adds its entry, and adds nothing before its blobs are there.     *)
LEMMA AddPlanFacts ==
  ASSUME NEW a, a.root \in Manifest, a.image \in BOOLEAN, ~a.image => Children[a.root] = <<>>
  PROVE  /\ AddPlan(a) \in Seq(AddStep(a)) /\ \A B : Backed(AddPlan(a), B)
         /\ Needs[a.root] \subseteq All(AddPlan(a)) /\ Has(AddPlan(a), "add", Image(a))
<1>1. PICK p, q, x : /\ p = IF a.image THEN <<Step("image", {a.root})>> ELSE ArtifactBlobs(a.root)
                     /\ q = Add(a.name, Base(a.root), a.root)
                     /\ x = IF a.extras = {} THEN <<>> ELSE <<Step("extras", a.extras)>>
  OBVIOUS
<1>2. p \in Seq(BlobStep) /\ Needs[a.root] \subseteq All(p)
  <2>1. CASE a.image
    <3>1. PICK s : s = Step("image", {a.root})
      OBVIOUS
    <3>2. s \in BlobStep /\ Gives(s) = Needs[a.root]
      BY <3>1, BlobStepFacts
    <3>3. <<s>> \in Seq(BlobStep) /\ All(<<s>>) = Gives(s)
      BY ONLY <3>2, OneFacts
    <3> QED
      BY <1>1, <2>1, <3>1, <3>2, <3>3
  <2>2. CASE ~a.image
    BY <1>1, <2>2, ManifestPlans
  <2> QED
    BY <2>1, <2>2
<1>3. PICK A : A = AddStep(a)
  OBVIOUS
<1>4. BlobStep \subseteq A
  BY <1>3 DEF AddStep
<1>5. /\ q \in Seq(A) /\ All(q) = {} /\ Has(q, "add", Image(a))
      /\ \A B : Needs[a.root] \subseteq B => Backed(q, B)
  <2>1. <<<<a.name, Base(a.root)>>, a.root>> = Image(a) /\ Image(a) \in AskedOf(a)
    BY DEF Image, AskedOf, KeyOf
  <2> QED
    BY <1>1, <1>3, <2>1, AddFacts
<1>6. x \in Seq(A) /\ \A B : Backed(x, B)
  <2>1. CASE a.extras = {}
    BY <1>1, <2>1, EmptyFacts
  <2>2. CASE a.extras # {}
    <3>1. PICK s : s = Step("extras", a.extras)
      OBVIOUS
    <3>2. s \in A /\ s.do # "add"
      BY <1>3, <3>1 DEF AddStep, Step
    <3>3. <<s>> \in Seq(A)
      BY <3>2
    <3>4. \A B : (s.do = "add" => \A e \in s.what : Needs[e[2]] \subseteq B) => Backed(<<s>>, B)
      BY ONLY <3>2, OneFacts
    <3>5. \A B : Backed(<<s>>, B)
      BY ONLY <3>2, <3>4
    <3> QED
      BY <1>1, <2>2, <3>1, <3>3, <3>5
  <2> QED
    BY <2>1, <2>2
<1>7. PICK r : r = p \o q
  OBVIOUS
<1>8. r \in Seq(A) /\ All(r) = All(p) \cup All(q)
  <2>1. BlobStep \subseteq A /\ p \in Seq(BlobStep) /\ q \in Seq(A)
    BY <1>2, <1>4, <1>5
  <2>2. p \o q \in Seq(A) /\ All(p \o q) = All(p) \cup All(q)
    BY ONLY <2>1, FollowFacts
  <2> QED
    BY ONLY <1>7, <2>2
<1>9. Has(r, "add", Image(a))
  <2>1. BlobStep \subseteq A /\ p \in Seq(BlobStep) /\ q \in Seq(A) /\ Has(q, "add", Image(a))
    BY <1>2, <1>4, <1>5
  <2>2. \A do, e : Has(p \o q, do, e) <=> Has(p, do, e) \/ Has(q, do, e)
    BY ONLY <2>1, FollowFacts
  <2> QED
    BY ONLY <1>7, <2>1, <2>2
<1>10. \A B : Backed(q, B \cup All(p)) => Backed(r, B)
  <2>1. BlobStep \subseteq A /\ p \in Seq(BlobStep) /\ q \in Seq(A)
    BY <1>2, <1>4, <1>5
  <2>2. \A B : Backed(q, B \cup All(p)) => Backed(p \o q, B)
    BY ONLY <2>1, FollowFacts
  <2> QED
    BY ONLY <1>7, <2>2
<1>11. \A B : Backed(r, B)
  BY ONLY <1>2, <1>5, <1>10
<1>12. r \o x \in Seq(A) /\ All(r \o x) = All(r) \cup All(x)
  BY ONLY <1>6, <1>8, ConcatFacts
<1>13. Has(r \o x, "add", Image(a))
  BY ONLY <1>6, <1>8, <1>9, ConcatFacts
<1>14. \A B : Backed(r, B) /\ Backed(x, B \cup All(r)) => Backed(r \o x, B)
  BY ONLY <1>6, <1>8, ConcatFacts
<1>15. \A B : Backed(r \o x, B)
  BY ONLY <1>6, <1>11, <1>14
<1>16. AddPlan(a) = r \o x
  BY <1>1, <1>7 DEF AddPlan
<1> QED
  BY ONLY <1>2, <1>3, <1>8, <1>12, <1>13, <1>15, <1>16

LEMMA CopyPlanFacts ==
  ASSUME NEW h, h \subseteq Entry, NEW e \in h
  PROVE  /\ CopyPlan(e) \in Seq(LoadStep(h)) /\ Has(CopyPlan(e), "mark", e)
         /\ Needs[e[2]] \subseteq All(CopyPlan(e))
<1>1. PICK p, s, w, m, A : /\ p = CopyParts(e[2]) /\ s = Step("mark", {e}) /\ w = Write({e[2]})
                           /\ m = e[2] /\ A = LoadStep(h)
  OBVIOUS
<1>2. m \in Manifest
  BY <1>1 DEF Entry
<1>3. p \in Seq(BlobStep) /\ w \in Seq(BlobStep) /\ Needs[m] \subseteq All(p) \cup All(w)
  BY <1>1, <1>2, ManifestPlans
<1>4. BlobStep \subseteq A /\ s \in A /\ s.do = "mark" /\ s.what = {e}
  BY <1>1 DEF LoadStep, Step
<1>5. p \in Seq(A) /\ w \in Seq(A)
  BY <1>3, <1>4, SeqMonotonic
<1>6. PICK t : t = <<s>>
  OBVIOUS
<1>7. t \in Seq(A) /\ \A do, f : Has(t, do, f) <=> s.do = do /\ f \in s.what
  BY ONLY <1>4, <1>6, OneFacts
<1>8. Has(t, "mark", e)
  BY ONLY <1>4, <1>7
<1>9. PICK r : r = p \o t
  OBVIOUS
<1>10. r \in Seq(A) /\ All(r) = All(p) \cup All(t)
  BY ONLY <1>5, <1>7, <1>9, ConcatFacts
<1>11. Has(r, "mark", e)
  BY ONLY <1>5, <1>7, <1>8, <1>9, ConcatFacts
<1>12. r \o w \in Seq(A) /\ All(r \o w) = All(r) \cup All(w)
  BY ONLY <1>5, <1>10, ConcatFacts
<1>13. Has(r \o w, "mark", e)
  BY ONLY <1>5, <1>10, <1>11, ConcatFacts
<1>14. CopyPlan(e) = r \o w
  BY <1>1, <1>6, <1>9 DEF CopyPlan
<1> QED
  BY ONLY <1>1, <1>3, <1>10, <1>12, <1>13, <1>14
-----------------------------------------------------------------------------
(* What the invariant says of a job that has something to do.              *)

LEMMA ArtifactTypes ==
  ASSUME Typed, NEW j \in Job, art[j] # None
  PROVE  /\ art[j] \in use.artifacts /\ art[j] \in Artifacts
         /\ art[j].root \in Manifest /\ art[j].name \in Name /\ art[j].image \in BOOLEAN
         /\ ~art[j].image => Children[art[j].root] = <<>>
         /\ art[j].extras \subseteq Extra \X Manifest
         /\ Image(art[j]) \in AskedOf(art[j]) /\ AskedOf(art[j]) \subseteq Entry
<1>1. art[j] \in use.artifacts /\ use \in Uses /\ art[j] \in Artifacts
  BY DEF Typed, Artifacts
<1>2. /\ art[j].root \in Manifest /\ art[j].name \in Name /\ art[j].image \in BOOLEAN
      /\ ~art[j].image => Children[art[j].root] = <<>>
      /\ art[j].extras \subseteq Extra \X Manifest
  BY <1>1, UsesAssumption
<1>3. \A x \in Extra \X Manifest : x[1] \in Kind /\ x[2] \in Manifest
  BY DEF Kind
<1>4. KeyOf(art[j]) \in Key
  BY <1>2 DEF KeyOf, Base, Kind, Key
<1> QED
  BY <1>1, <1>2, <1>3, <1>4 DEF Image, AskedOf, Entry, Key

LEMMA AddWork ==
  ASSUME Invariant, cmd = "add", NEW j \in Job, plan[j] # <<>>
  PROVE  /\ art[j] # None /\ plan[j] \in Seq(AddStep(art[j])) /\ Backed(plan[j], blobs)
         /\ plan[j][1] \in AddStep(art[j])
         /\ plan[j][1] = Step(plan[j][1].do, plan[j][1].what)
         /\ plan[j][1].do \in {"image", "graph", "write", "extras", "add"}
<1>1. art[j] # None /\ plan[j] \in Seq(AddStep(art[j])) /\ Backed(plan[j], blobs)
  BY DEF Invariant, AddInv
<1>2. plan[j][1] \in AddStep(art[j])
  BY <1>1, ConsFacts
<1> QED
  BY <1>1, <1>2 DEF AddStep, BlobStep, Step

LEMMA LoadWork ==
  ASSUME Invariant, cmd = "load", NEW j \in Job, plan[j] # <<>>
  PROVE  /\ j = First /\ plan[j] \in Seq(LoadStep(haul)) /\ plan[j][1] \in LoadStep(haul)
         /\ plan[j][1] = Step(plan[j][1].do, plan[j][1].what)
         /\ plan[j][1].do \in {"image", "graph", "write", "copy", "mark"}
<1>1. j = First /\ plan[j] \in Seq(LoadStep(haul))
  BY DEF Invariant, LoadInv
<1>2. plan[j][1] \in LoadStep(haul)
  BY <1>1, ConsFacts
<1> QED
  BY <1>1, <1>2 DEF LoadStep, BlobStep, Step

LEMMA CleaningShape ==
  ASSUME NEW W, NEW G, W \subseteq G
  PROVE  /\ Cleaning(W, G) = <<>> <=> G = {}
         /\ W # {} => Cleaning(W, G) = <<Step("walk", W), Step("sweep", G)>>
         /\ W = {} /\ G # {} => Cleaning(W, G) = <<Step("sweep", G)>>
         /\ G # {} => Visit(Cleaning(W, G)) = W /\ Rest(Cleaning(W, G)) = G
<1>1. CASE W # {}
  <2>1. Cleaning(W, G) = <<Step("walk", W), Step("sweep", G)>>
    <3>1. PICK s, t : s = Step("walk", W) /\ t = Step("sweep", G)
      OBVIOUS
    <3>2. Cleaning(W, G) = <<s>> \o <<t>>
      BY <1>1, <3>1 DEF Cleaning
    <3>3. <<s>> \o <<t>> = <<s, t>>
      <4>1. PICK A, p, q, r, u : A = {s, t} /\ p = <<s>> /\ q = <<t>> /\ r = <<s, t>> /\ u = p \o q
        OBVIOUS
      <4>2. /\ p \in Seq(A) /\ q \in Seq(A) /\ r \in Seq(A) /\ Len(p) = 1 /\ Len(q) = 1 /\ Len(r) = 2
            /\ p[1] = s /\ q[1] = t /\ r[1] = s /\ r[2] = t
        BY <4>1
      <4>3. /\ u \in Seq(A) /\ Len(u) = Len(p) + Len(q)
            /\ \A i \in 1..(Len(p) + Len(q)) : u[i] = IF i <= Len(p) THEN p[i] ELSE q[i - Len(p)]
        BY ONLY <4>1, <4>2, ConcatProperties
      <4>4. Len(u) = Len(r) /\ \A i \in 1..Len(u) : u[i] = r[i]
        <5>1. /\ Len(u) = 2 /\ u[1] = s /\ u[2] = t
          BY ONLY <4>2, <4>3
        <5>2. \A i \in 1..2 : i = 1 \/ i = 2
          OBVIOUS
        <5> QED
          BY ONLY <4>2, <5>1, <5>2
      <4>5. u = r
        BY ONLY <4>2, <4>3, <4>4, SeqEqual
      <4> QED
        BY ONLY <4>1, <4>5
    <3> QED
      BY <3>1, <3>2, <3>3
  <2> QED
    BY <1>1, <2>1 DEF Visit, Rest, Step
<1>2. CASE W = {} /\ G # {}
  <2>1. Cleaning(W, G) = <<Step("sweep", G)>>
    BY <1>2 DEF Cleaning
  <2> QED
    BY <1>2, <2>1 DEF Visit, Rest, Step
<1>3. CASE W = {} /\ G = {}
  BY <1>3 DEF Cleaning
<1> QED
  BY <1>1, <1>2, <1>3

LEMMA RemoveWork ==
  ASSUME Invariant, cmd = "remove", NEW j \in Job, plan[j] # <<>>
  PROVE  /\ j = First /\ mem = index
         /\ plan[j][1].do \in {"drop", "clean", "walk", "sweep"}
         /\ plan[j][1].do = "drop" =>
              plan[j][1].what \subseteq Key /\ plan[j] = <<Step("drop", plan[j][1].what), Step("clean", {None})>>
         /\ plan[j][1].do = "clean" => plan[j] = <<Step("clean", {None})>>
         /\ plan[j][1].do = "walk" =>
              /\ plan[j] = <<Step("walk", plan[j][1].what), Step("sweep", plan[j][2].what)>>
              /\ CleanInv(plan[j][1].what, plan[j][2].what)
         /\ plan[j][1].do = "sweep" =>
              /\ plan[j] = <<Step("sweep", plan[j][1].what)>>
              /\ CleanInv({}, plan[j][1].what)
<1>1. PICK p, W, G : p = plan[j] /\ W = Visit(p) /\ G = Rest(p)
  OBVIOUS
<1>2. /\ j = First /\ mem = index
      /\ \/ p[1].what \subseteq Key /\ p = <<Step("drop", p[1].what), Step("clean", {None})>>
         \/ p = <<Step("clean", {None})>>
         \/ p = Cleaning(W, G) /\ CleanInv(W, G)
  BY <1>1 DEF Invariant, RemoveInv
<1>3. CASE p = Cleaning(W, G) /\ CleanInv(W, G)
  <2>1. W \subseteq G
    BY <1>3 DEF CleanInv
  <2>2. CASE W # {}
    <3>1. p = <<Step("walk", W), Step("sweep", G)>>
      BY <1>3, <2>1, <2>2, CleaningShape
    <3>2. p[1] = Step("walk", W) /\ p[2] = Step("sweep", G)
      BY <3>1
    <3>3. p[1].do = "walk" /\ p[1].what = W /\ p[2].what = G
      BY <3>2 DEF Step
    <3> QED
      BY <1>1, <1>2, <1>3, <3>1, <3>3
  <2>3. CASE W = {}
    <3>1. p = <<Step("sweep", G)>>
      BY <1>1, <1>3, <2>1, <2>3, CleaningShape
    <3>2. p[1] = Step("sweep", G)
      BY <3>1
    <3>3. p[1].do = "sweep" /\ p[1].what = G
      BY <3>2 DEF Step
    <3> QED
      BY <1>1, <1>2, <1>3, <2>3, <3>1, <3>3
  <2> QED
    BY <2>2, <2>3
<1>4. CASE p[1].what \subseteq Key /\ p = <<Step("drop", p[1].what), Step("clean", {None})>>
  <2>1. p[1] = Step("drop", p[1].what)
    BY <1>4
  <2>2. p[1].do = "drop"
    BY <2>1 DEF Step
  <2> QED
    BY <1>1, <1>2, <1>4, <2>2
<1>5. CASE p = <<Step("clean", {None})>>
  <2>1. p[1] = Step("clean", {None})
    BY <1>5
  <2>2. p[1].do = "clean"
    BY <2>1 DEF Step
  <2> QED
    BY <1>1, <1>2, <1>5, <2>2
<1> QED
  BY <1>2, <1>3, <1>4, <1>5

(* Only three commands have anything to do.                                *)
LEMMA WhoWorks ==
  ASSUME Invariant, NEW j \in Job, plan[j] # <<>>
  PROVE  cmd \in {"add", "load", "remove"}
BY DEF Invariant, Typed

LEMMA LoadedFacts ==
  ASSUME Typed
  PROVE  /\ Loaded \in [Key -> Manifest \cup {None}]
         /\ \A k \in Key : Loaded[k] = IF index[k] # None THEN index[k] ELSE mem[k]
         /\ mem = index => Loaded = index
<1>1. /\ Loaded \in [Key -> Manifest \cup {None}]
      /\ \A k \in Key : Loaded[k] = IF index[k] # None THEN index[k] ELSE mem[k]
  BY DEF Loaded, Typed
<1>2. ASSUME mem = index PROVE Loaded = index
  <2>1. \A k \in Key : Loaded[k] = index[k]
    BY <1>1, <1>2
  <2> QED
    BY <1>1, <2>1 DEF Typed
<1> QED
  BY <1>1, <1>2
-----------------------------------------------------------------------------
(* What a step has to establish, part by part.                             *)

LEMMA AddFrame ==
  ASSUME Typed, AddInv, cmd = "add", cmd' = cmd, art' = art, NEW j \in Job, art[j] # None, NEW q,
         plan' = [plan EXCEPT ![j] = q], blobs \subseteq blobs', failed \subseteq failed',
         q \in Seq(AddStep(art[j])), Backed(q, blobs'),
         j \notin failed' =>
           /\ Needs[art[j].root] \subseteq blobs' \cup All(q)
           /\ \/ Has(q, "add", Image(art[j]))
              \/ \E a \in Artifacts : KeyOf(a) = KeyOf(art[j]) /\ mem'[KeyOf(a)] = a.root,
         \A a \in Artifacts : mem[KeyOf(a)] = a.root =>
           \E b \in Artifacts : KeyOf(b) = KeyOf(a) /\ mem'[KeyOf(b)] = b.root,
         \A k \in Key : mem'[k] # index'[k] =>
           /\ mem'[k] # None /\ Needs[mem'[k]] \subseteq blobs'
           /\ \E a \in Artifacts : <<k, mem'[k]>> \in AskedOf(a)
  PROVE  AddInv'
<1>1. Artifacts' = Artifacts
  BY DEF Artifacts
<1>2. plan'[j] = q /\ \A i \in Job \ {j} : plan'[i] = plan[i]
  <2>1. plan = [i \in Job |-> plan[i]]
    BY DEF Typed
  <2> QED
    BY <2>1
<1>3. ASSUME NEW i \in Job
      PROVE  IF art[i] = None THEN plan'[i] = <<>>
             ELSE plan'[i] \in Seq(AddStep(art[i])) /\ Backed(plan'[i], blobs')
  <2>1. CASE i = j
    BY <1>2, <2>1
  <2>2. CASE i # j
    BY <1>2, <2>2, BackedMono DEF AddInv
  <2> QED
    BY <2>1, <2>2
<1>4. ASSUME NEW i \in Job \ failed', art[i] # None
      PROVE  /\ Needs[art[i].root] \subseteq blobs' \cup All(plan'[i])
             /\ \/ Has(plan'[i], "add", Image(art[i]))
                \/ \E a \in Artifacts : KeyOf(a) = KeyOf(art[i]) /\ mem'[KeyOf(a)] = a.root
  <2>1. CASE i = j
    BY <1>2, <1>4, <2>1
  <2>2. CASE i # j
    <3>1. i \in Job \ failed /\ plan'[i] = plan[i]
      BY <1>2, <1>4, <2>2
    <3>2. /\ Needs[art[i].root] \subseteq blobs \cup All(plan[i])
          /\ \/ Has(plan[i], "add", Image(art[i]))
             \/ \E a \in Artifacts : KeyOf(a) = KeyOf(art[i]) /\ mem[KeyOf(a)] = a.root
      BY <1>4, <3>1 DEF AddInv
    <3>3. Needs[art[i].root] \subseteq blobs' \cup All(plan'[i])
      BY <3>1, <3>2
    <3>4. CASE Has(plan[i], "add", Image(art[i]))
      BY <3>1, <3>3, <3>4
    <3>5. CASE \E a \in Artifacts : KeyOf(a) = KeyOf(art[i]) /\ mem[KeyOf(a)] = a.root
      <4>1. \E a \in Artifacts : KeyOf(a) = KeyOf(art[i]) /\ mem'[KeyOf(a)] = a.root
        BY <3>5
      <4> QED
        BY <3>3, <4>1
    <3> QED
      BY <3>2, <3>4, <3>5
  <2> QED
    BY <2>1, <2>2
<1> QED
  BY <1>1, <1>3, <1>4 DEF AddInv

LEMMA LoadFrame ==
  ASSUME Typed, LoadInv, cmd = "load", cmd' = cmd, haul' = haul, NEW q,
         plan' = [plan EXCEPT ![First] = q], q \in Seq(LoadStep(haul)),
         failed' = {} => \A e \in haul :
           \/ Has(q, "copy", e)
           \/ /\ Has(q, "mark", e) \/ index'[e[1]] = e[2]
              /\ Needs[e[2]] \subseteq blobs' \cup All(q),
         \A k \in Key : mem'[k] # None /\ mem'[k] # index'[k] => <<k, mem'[k]>> \in haul
  PROVE  LoadInv'
<1>1. plan'[First] = q /\ \A i \in Job \ {First} : plan'[i] = plan[i]
  <2>1. plan = [i \in Job |-> plan[i]] /\ First \in Job
    BY LayoutAssumption DEF Typed
  <2> QED
    BY <2>1
<1> QED
  BY <1>1 DEF LoadInv

WholeNext(k, m) == Needs[m] \subseteq blobs' \/ <<k, m>> \in half'

LEMMA WholeFrame ==
  ASSUME WholeInv, use' = use,
         Undisturbed => \A k \in Key : \A m \in {index'[k], mem'[k]} : m # None =>
           \/ WholeNext(k, m)
           \/ m \in {index[k], mem[k]} /\ (WholeOrHalf(k, m) => WholeNext(k, m))
  PROVE  WholeInv'
<1>1. ASSUME Undisturbed, NEW k \in Key, NEW m \in {index'[k], mem'[k]}, m # None
      PROVE  WholeNext(k, m)
  <2>1. m \in {index[k], mem[k]} => WholeOrHalf(k, m)
    BY <1>1 DEF WholeInv
  <2> QED
    BY <1>1, <2>1
<1>2. Undisturbed' => Undisturbed
  BY DEF Undisturbed
<1> QED
  BY <1>1, <1>2 DEF WholeInv, WholeOrHalf, WholeNext

(* Entries that this command has put into nameMap and not into index.json. *)
KeptNames ==
  \A a \in Artifacts : mem[KeyOf(a)] = a.root =>
    \E b \in Artifacts : KeyOf(b) = KeyOf(a) /\ mem'[KeyOf(b)] = b.root
AddedAhead ==
  \A k \in Key : mem'[k] # index'[k] =>
    /\ mem'[k] # None /\ Needs[mem'[k]] \subseteq blobs'
    /\ \E a \in Artifacts : <<k, mem'[k]>> \in AskedOf(a)
LoadedAhead ==
  \A k \in Key : mem'[k] # None /\ mem'[k] # index'[k] => <<k, mem'[k]>> \in haul

LEMMA FailKeeps ==
  ASSUME Invariant, NEW j \in Job, plan[j] # <<>>, Fail(j), use' = use, blobs' = blobs,
         cmd = "add" => KeptNames /\ AddedAhead,
         cmd = "load" => LoadedAhead
  PROVE  /\ cmd' = cmd /\ art' = art /\ haul' = haul /\ plan' = [i \in Job |-> plan'[i]]
         /\ AddInv' /\ LoadInv' /\ RemoveInv'
<1>1. Typed /\ AddInv /\ LoadInv
  BY DEF Invariant
<1>2. plan = [i \in Job |-> plan[i]]
  BY <1>1 DEF Typed
<1>3. cmd' = cmd /\ art' = art /\ haul' = haul
  BY DEF Fail
<1>4. PICK q : /\ plan' = [plan EXCEPT ![j] = q]
               /\ \/ cmd = "add" /\ q = AddPlan(art[j]) /\ failed' = failed
                  \/ /\ q = IF plan[j][Len(plan[j])].do = "copy" THEN <<plan[j][Len(plan[j])]>> ELSE <<>>
                     /\ failed' = failed \cup {j}
  BY DEF Fail
<1>5. plan' = [i \in Job |-> plan'[i]]
  BY <1>2, <1>4
<1>6. ASSUME cmd = "add" PROVE AddInv' /\ LoadInv' /\ RemoveInv'
  <2>1. art[j] # None /\ plan[j] \in Seq(AddStep(art[j]))
    BY <1>6, AddWork
  <2>2. CASE q = AddPlan(art[j]) /\ failed' = failed
    <3>1. /\ q \in Seq(AddStep(art[j])) /\ Backed(q, blobs')
          /\ Needs[art[j].root] \subseteq All(q) /\ Has(q, "add", Image(art[j]))
      BY <1>1, <2>1, <2>2, ArtifactTypes, AddPlanFacts
    <3>2. AddInv'
      BY <1>1, <1>3, <1>4, <1>6, <2>1, <2>2, <3>1, AddFrame DEF KeptNames, AddedAhead
    <3> QED
      BY <1>3, <1>6, <3>2 DEF LoadInv, RemoveInv
  <2>3. CASE /\ q = IF plan[j][Len(plan[j])].do = "copy" THEN <<plan[j][Len(plan[j])]>> ELSE <<>>
             /\ failed' = failed \cup {j}
    <3>1. Len(plan[j]) \in 1..Len(plan[j])
      BY <2>1, EmptySeq
    <3>2. plan[j][Len(plan[j])] \in AddStep(art[j])
      BY <2>1, <3>1, ElementOfSeq
    <3>3. plan[j][Len(plan[j])].do # "copy"
      BY <3>2 DEF AddStep, BlobStep
    <3>4. q \in Seq(AddStep(art[j])) /\ Backed(q, blobs')
      BY <2>3, <3>3, EmptyFacts
    <3>5. AddInv'
      BY <1>1, <1>3, <1>4, <1>6, <2>1, <2>3, <3>4, AddFrame DEF KeptNames, AddedAhead
    <3> QED
      BY <1>3, <1>6, <3>5 DEF LoadInv, RemoveInv
  <2> QED
    BY <1>4, <2>2, <2>3
<1>7. ASSUME cmd = "load" PROVE AddInv' /\ LoadInv' /\ RemoveInv'
  <2>1. j = First /\ plan[j] \in Seq(LoadStep(haul))
    BY <1>7, LoadWork
  <2>2. /\ q = IF plan[j][Len(plan[j])].do = "copy" THEN <<plan[j][Len(plan[j])]>> ELSE <<>>
        /\ failed' # {}
    BY <1>4, <1>7
  <2>3. q \in Seq(LoadStep(haul))
    <3>1. PICK s : s = plan[j][Len(plan[j])]
      OBVIOUS
    <3>2. Len(plan[j]) \in 1..Len(plan[j])
      BY <2>1, EmptySeq
    <3>3. s \in LoadStep(haul)
      BY <2>1, <3>1, <3>2, ElementOfSeq
    <3>4. <<s>> \in Seq(LoadStep(haul)) /\ <<>> \in Seq(LoadStep(haul))
      BY <3>3
    <3> QED
      BY <2>2, <3>1, <3>4
  <2>4. LoadInv'
    BY <1>1, <1>3, <1>4, <1>7, <2>1, <2>2, <2>3, LoadFrame DEF LoadedAhead
  <2> QED
    BY <1>3, <1>7, <2>4 DEF AddInv, RemoveInv
<1>8. ASSUME cmd = "remove" PROVE AddInv' /\ LoadInv' /\ RemoveInv'
  <2>1. /\ j = First
        /\ plan[j][1].do = "drop" => plan[j] = <<Step("drop", plan[j][1].what), Step("clean", {None})>>
        /\ plan[j][1].do = "clean" => plan[j] = <<Step("clean", {None})>>
        /\ plan[j][1].do = "walk" => plan[j] = <<Step("walk", plan[j][1].what), Step("sweep", plan[j][2].what)>>
        /\ plan[j][1].do = "sweep" => plan[j] = <<Step("sweep", plan[j][1].what)>>
        /\ plan[j][1].do \in {"drop", "clean", "walk", "sweep"}
    BY <1>8, RemoveWork
  <2>2. plan[j][Len(plan[j])].do \in {"clean", "sweep"}
    <3>1. CASE plan[j][1].do = "drop"
      <4>1. PICK s : s = Step("drop", plan[j][1].what)
        OBVIOUS
      <4>2. plan[j] = <<s, Step("clean", {None})>>
        BY <2>1, <3>1, <4>1
      <4>3. plan[j][Len(plan[j])] = Step("clean", {None})
        BY <4>2
      <4> QED
        BY <4>3 DEF Step
    <3>2. CASE plan[j][1].do = "clean"
      <4>1. plan[j][Len(plan[j])] = Step("clean", {None})
        BY <2>1, <3>2
      <4> QED
        BY <4>1 DEF Step
    <3>3. CASE plan[j][1].do = "walk"
      <4>1. PICK s, t : s = Step("walk", plan[j][1].what) /\ t = Step("sweep", plan[j][2].what)
        OBVIOUS
      <4>2. plan[j] = <<s, t>>
        BY <2>1, <3>3, <4>1
      <4>3. plan[j][Len(plan[j])] = t
        BY <4>2
      <4> QED
        BY <4>1, <4>3 DEF Step
    <3>4. CASE plan[j][1].do = "sweep"
      <4>1. PICK s : s = Step("sweep", plan[j][1].what)
        OBVIOUS
      <4>2. plan[j] = <<s>>
        BY <2>1, <3>4, <4>1
      <4>3. plan[j][Len(plan[j])] = s
        BY <4>2
      <4> QED
        BY <4>1, <4>3 DEF Step
    <3> QED
      BY <2>1, <3>1, <3>2, <3>3, <3>4
  <2>3. q = <<>>
    BY <1>4, <1>8, <2>2
  <2>4. \A i \in Job : plan'[i] = <<>>
    <3>1. \A i \in Job \ {First} : plan[i] = <<>>
      BY <1>8 DEF Invariant, RemoveInv
    <3> QED
      BY <1>2, <1>4, <2>1, <2>3, <3>1
  <2>5. RemoveInv'
    BY <2>4, LayoutAssumption DEF RemoveInv
  <2> QED
    BY <1>3, <1>8, <2>5 DEF AddInv, LoadInv
<1> QED
  BY <1>3, <1>5, <1>6, <1>7, <1>8, WhoWorks
-----------------------------------------------------------------------------
(* The steps of a job.                                                     *)

LEMMA ReadManifestKeeps ==
  ASSUME Invariant, use' = use, NEW j \in Job, NEW m \in Manifest, ReadManifest(j, m)
  PROVE  Invariant'
<1>1. Typed /\ AddInv /\ LoadInv /\ WholeInv
  BY DEF Invariant
<1>2. /\ plan[j] # <<>> /\ plan[j][1].what = {m} /\ plan[j][1].do \in {"image", "graph"}
      /\ UNCHANGED <<blobs, disk, index, versions, mem, cmd, art, tries, failed, haul, half>>
  BY DEF ReadManifest, diskVars, jobVars
<1>3. PICK p, t : /\ t = Tail(plan[j]) /\ p \in Seq(BlobStep) /\ Needs[m] \subseteq All(p)
                  /\ plan' = [plan EXCEPT ![j] = p \o t]
  <2>1. CASE plan[j][1].do = "image" /\ plan' = [plan EXCEPT ![j] = ImageBlobs(m) \o Tail(@)]
    BY <2>1, ManifestPlans
  <2>2. CASE plan[j][1].do = "graph" /\ plan' = [plan EXCEPT ![j] = CopyParts(m) \o Write({m}) \o Tail(@)]
    <3>1. PICK c, w, u : c = CopyParts(m) /\ w = Write({m}) /\ u = c \o w
      OBVIOUS
    <3>2. c \in Seq(BlobStep) /\ w \in Seq(BlobStep) /\ Needs[m] \subseteq All(c) \cup All(w)
      BY <3>1, ManifestPlans
    <3>3. c \o w \in Seq(BlobStep) /\ All(c \o w) = All(c) \cup All(w)
      BY ONLY <3>2, ConcatFacts
    <3>4. u \in Seq(BlobStep) /\ Needs[m] \subseteq All(u)
      BY ONLY <3>1, <3>2, <3>3
    <3> QED
      BY <2>2, <3>1, <3>4
  <2> QED
    BY <2>1, <2>2 DEF ReadManifest
<1>4. Gives(plan[j][1]) = Needs[m]
  BY <1>2 DEF Gives
<1>5. Typed'
  BY <1>1, <1>2, <1>3, WhoWorks DEF Typed
<1>6. WholeInv'
  <2>1. \A k, n : WholeOrHalf(k, n) => WholeNext(k, n)
    BY <1>2 DEF WholeOrHalf, WholeNext
  <2> QED
    BY <1>1, <1>2, <2>1, WholeFrame
<1>7. ASSUME cmd = "add" PROVE AddInv' /\ LoadInv' /\ RemoveInv'
  <2>1. PICK A : A = AddStep(art[j]) /\ BlobStep \subseteq A
    BY DEF AddStep
  <2>2. /\ art[j] # None /\ plan[j] \in Seq(A) /\ Backed(plan[j], blobs)
    BY <1>2, <1>7, <2>1, AddWork
  <2>3. /\ t \in Seq(A) /\ All(plan[j]) = Needs[m] \cup All(t)
        /\ \A do, e : Has(plan[j], do, e) <=> (plan[j][1].do = do /\ e \in plan[j][1].what) \/ Has(t, do, e)
        /\ Backed(t, blobs \cup Needs[m])
    BY <1>2, <1>3, <1>4, <2>2, ConsFacts
  <2>4. PICK q : q = p \o t
    OBVIOUS
  <2>5. q \in Seq(A) /\ All(q) = All(p) \cup All(t)
    <3>1. BlobStep \subseteq A /\ p \in Seq(BlobStep) /\ t \in Seq(A)
      BY <1>3, <2>1, <2>3
    <3>2. p \o t \in Seq(A) /\ All(p \o t) = All(p) \cup All(t)
      BY ONLY <3>1, FollowFacts
    <3> QED
      BY ONLY <2>4, <3>2
  <2>6. \A do, e : Has(q, do, e) <=> Has(p, do, e) \/ Has(t, do, e)
    <3>1. BlobStep \subseteq A /\ p \in Seq(BlobStep) /\ t \in Seq(A)
      BY <1>3, <2>1, <2>3
    <3>2. \A do, e : Has(p \o t, do, e) <=> Has(p, do, e) \/ Has(t, do, e)
      BY ONLY <3>1, FollowFacts
    <3> QED
      BY ONLY <2>4, <3>2
  <2>7. Backed(q, blobs)
    <3>1. blobs \cup Needs[m] \subseteq blobs \cup All(p)
      BY <1>3
    <3>2. Backed(t, blobs \cup All(p))
      BY ONLY <2>3, <3>1, BackedMono
    <3>3. BlobStep \subseteq A /\ p \in Seq(BlobStep) /\ t \in Seq(A)
      BY <1>3, <2>1, <2>3
    <3>4. \A B : Backed(t, B \cup All(p)) => Backed(p \o t, B)
      BY ONLY <3>3, FollowFacts
    <3> QED
      BY ONLY <2>4, <3>2, <3>4
  <2>8. All(plan[j]) \subseteq All(q)
    BY <1>3, <2>3, <2>5
  <2>9. Has(plan[j], "add", Image(art[j])) => Has(q, "add", Image(art[j]))
    BY <1>2, <2>3, <2>6
  <2>10. j \notin failed' =>
           /\ Needs[art[j].root] \subseteq blobs' \cup All(q)
           /\ \/ Has(q, "add", Image(art[j]))
              \/ \E a \in Artifacts : KeyOf(a) = KeyOf(art[j]) /\ mem'[KeyOf(a)] = a.root
    BY <1>1, <1>2, <1>7, <2>2, <2>8, <2>9 DEF AddInv
  <2>11. AddInv'
    <3>1. /\ q \in Seq(AddStep(art[j])) /\ Backed(q, blobs')
          /\ plan' = [plan EXCEPT ![j] = q] /\ blobs \subseteq blobs' /\ failed \subseteq failed'
      BY <1>2, <1>3, <2>1, <2>4, <2>5, <2>7
    <3>2. \A k \in Key : mem'[k] # index'[k] =>
           /\ mem'[k] # None /\ Needs[mem'[k]] \subseteq blobs'
           /\ \E a \in Artifacts : <<k, mem'[k]>> \in AskedOf(a)
      BY <1>1, <1>2, <1>7 DEF AddInv
    <3> QED
      BY <1>1, <1>2, <1>7, <2>2, <2>10, <3>1, <3>2, AddFrame
  <2> QED
    BY <1>2, <1>7, <2>11 DEF LoadInv, RemoveInv
<1>8. ASSUME cmd = "load" PROVE AddInv' /\ LoadInv' /\ RemoveInv'
  <2>1. PICK A : A = LoadStep(haul) /\ BlobStep \subseteq A
    BY DEF LoadStep
  <2>2. j = First /\ plan[j] \in Seq(A)
    BY <1>2, <1>8, <2>1, LoadWork
  <2>3. /\ t \in Seq(A) /\ All(plan[j]) = Needs[m] \cup All(t)
        /\ \A do, e : Has(plan[j], do, e) <=> (plan[j][1].do = do /\ e \in plan[j][1].what) \/ Has(t, do, e)
    BY <1>2, <1>3, <1>4, <2>2, ConsFacts
  <2>4. PICK q : q = p \o t
    OBVIOUS
  <2>5. q \in Seq(A) /\ All(q) = All(p) \cup All(t)
    <3>1. BlobStep \subseteq A /\ p \in Seq(BlobStep) /\ t \in Seq(A)
      BY <1>3, <2>1, <2>3
    <3>2. p \o t \in Seq(A) /\ All(p \o t) = All(p) \cup All(t)
      BY ONLY <3>1, FollowFacts
    <3> QED
      BY ONLY <2>4, <3>2
  <2>6. \A do, e : Has(q, do, e) <=> Has(p, do, e) \/ Has(t, do, e)
    <3>1. BlobStep \subseteq A /\ p \in Seq(BlobStep) /\ t \in Seq(A)
      BY <1>3, <2>1, <2>3
    <3>2. \A do, e : Has(p \o t, do, e) <=> Has(p, do, e) \/ Has(t, do, e)
      BY ONLY <3>1, FollowFacts
    <3> QED
      BY ONLY <2>4, <3>2
  <2>7. All(plan[j]) \subseteq All(q)
    BY <1>3, <2>3, <2>5
  <2>8. \A do \in {"copy", "mark"} : \A e : Has(plan[j], do, e) => Has(q, do, e)
    BY <1>2, <2>3, <2>6
  <2>9. failed' = {} => \A e \in haul :
           \/ Has(q, "copy", e)
           \/ /\ Has(q, "mark", e) \/ index'[e[1]] = e[2]
              /\ Needs[e[2]] \subseteq blobs' \cup All(q)
    BY <1>1, <1>2, <1>8, <2>2, <2>7, <2>8 DEF LoadInv
  <2>10. LoadInv'
    <3>1. plan' = [plan EXCEPT ![First] = q] /\ q \in Seq(LoadStep(haul))
      BY <1>3, <2>1, <2>2, <2>4, <2>5
    <3>2. \A k \in Key : mem'[k] # None /\ mem'[k] # index'[k] => <<k, mem'[k]>> \in haul
      BY <1>1, <1>2, <1>8 DEF LoadInv
    <3> QED
      BY <1>1, <1>2, <1>8, <2>9, <3>1, <3>2, LoadFrame
  <2> QED
    BY <1>2, <1>8, <2>10 DEF AddInv, RemoveInv
<1>9. cmd # "remove"
  BY <1>2, RemoveWork
<1> QED
  BY <1>2, <1>5, <1>6, <1>7, <1>8, <1>9, WhoWorks DEF Invariant
(* What is left of a job's plan when an element of its first step is done. *)
LEMMA AddDone ==
  ASSUME Invariant, cmd = "add", NEW j \in Job, plan[j] # <<>>, NEW e,
         plan[j][1].do \notin {"image", "graph"}
  PROVE  /\ Done(plan[j], e) \in Seq(AddStep(art[j]))
         /\ All(plan[j]) \subseteq All(Done(plan[j], e)) \cup (IF plan[j][1].do = "write" THEN {e} ELSE {})
         /\ \A do, f : Has(plan[j], do, f) => Has(Done(plan[j], e), do, f) \/ (do = plan[j][1].do /\ f = e)
         /\ Backed(Done(plan[j], e), blobs \cup (IF plan[j][1].do = "write" THEN {e} ELSE {}))
<1>1. PICK p, A : p = plan[j] /\ A = AddStep(art[j])
  OBVIOUS
<1>2. /\ p \in Seq(A) /\ p # <<>> /\ Backed(p, blobs) /\ p[1] \in A
      /\ p[1] = Step(p[1].do, p[1].what) /\ p[1].do \notin {"image", "graph"}
  BY <1>1, AddWork
<1>3. Step(p[1].do, p[1].what \ {e}) \in A
  <2>1. p[1] \in AddStep(art[j])
    BY <1>1, <1>2
  <2> QED
    BY <1>1, <1>2, <2>1 DEF AddStep, BlobStep, Step
<1>4. /\ Done(p, e) \in Seq(A)
      /\ All(p) \subseteq All(Done(p, e)) \cup (IF p[1].do = "write" THEN {e} ELSE {})
      /\ \A do, f : Has(p, do, f) => Has(Done(p, e), do, f) \/ (do = p[1].do /\ f = e)
      /\ \A B : Backed(p, B) => Backed(Done(p, e), B \cup (IF p[1].do = "write" THEN {e} ELSE {}))
  BY ONLY <1>2, <1>3, DoneFacts
<1> QED
  BY <1>1, <1>2, <1>4

LEMMA LoadDone ==
  ASSUME Invariant, cmd = "load", NEW j \in Job, plan[j] # <<>>, NEW e,
         plan[j][1].do \notin {"image", "graph"}
  PROVE  /\ Done(plan[j], e) \in Seq(LoadStep(haul))
         /\ All(plan[j]) \subseteq All(Done(plan[j], e)) \cup (IF plan[j][1].do = "write" THEN {e} ELSE {})
         /\ \A do, f : Has(plan[j], do, f) => Has(Done(plan[j], e), do, f) \/ (do = plan[j][1].do /\ f = e)
<1>1. PICK p, A : p = plan[j] /\ A = LoadStep(haul)
  OBVIOUS
<1>2. /\ p \in Seq(A) /\ p # <<>> /\ p[1] \in A
      /\ p[1] = Step(p[1].do, p[1].what) /\ p[1].do \notin {"image", "graph"}
  BY <1>1, LoadWork
<1>3. Step(p[1].do, p[1].what \ {e}) \in A
  <2>1. p[1] \in LoadStep(haul)
    BY <1>1, <1>2
  <2> QED
    BY <1>1, <1>2, <2>1 DEF LoadStep, BlobStep, Step
<1>4. /\ Done(p, e) \in Seq(A)
      /\ All(p) \subseteq All(Done(p, e)) \cup (IF p[1].do = "write" THEN {e} ELSE {})
      /\ \A do, f : Has(p, do, f) => Has(Done(p, e), do, f) \/ (do = p[1].do /\ f = e)
  BY ONLY <1>2, <1>3, DoneFacts
<1> QED
  BY <1>1, <1>4

LEMMA WriteBlobKeeps ==
  ASSUME Invariant, use' = use, NEW j \in Job, NEW d \in Digest, WriteBlob(j, d)
  PROVE  Invariant'
<1>1. Typed /\ AddInv /\ LoadInv /\ WholeInv
  BY DEF Invariant
<1>2. PICK q : q = Done(plan[j], d)
  OBVIOUS
<1>3. /\ plan[j] # <<>> /\ plan[j][1].do = "write" /\ blobs' = blobs \cup {d}
      /\ half' = {e \in half : ~ Needs[e[2]] \subseteq blobs'} /\ plan' = [plan EXCEPT ![j] = q]
      /\ UNCHANGED <<disk, index, versions, mem, cmd, art, tries, failed, haul>>
  BY <1>2 DEF WriteBlob, Doing, Did, jobVars
<1>4. Typed'
  BY <1>1, <1>3, WhoWorks DEF Typed
<1>5. WholeInv'
  <2>1. \A k, n : WholeOrHalf(k, n) => WholeNext(k, n)
    BY <1>3 DEF WholeOrHalf, WholeNext
  <2> QED
    BY <1>1, <1>3, <2>1, WholeFrame
<1>6. ASSUME cmd = "add" PROVE AddInv' /\ LoadInv' /\ RemoveInv'
  <2>1. /\ q \in Seq(AddStep(art[j])) /\ All(plan[j]) \subseteq All(q) \cup {d}
        /\ \A do, f : Has(plan[j], do, f) => Has(q, do, f) \/ (do = "write" /\ f = d)
        /\ Backed(q, blobs \cup {d})
    BY <1>2, <1>3, <1>6, AddDone
  <2>2. art[j] # None
    BY <1>3, <1>6, AddWork
  <2>3. Has(plan[j], "add", Image(art[j])) => Has(q, "add", Image(art[j]))
    BY <2>1
  <2>4. j \notin failed' =>
           /\ Needs[art[j].root] \subseteq blobs' \cup All(q)
           /\ \/ Has(q, "add", Image(art[j]))
              \/ \E a \in Artifacts : KeyOf(a) = KeyOf(art[j]) /\ mem'[KeyOf(a)] = a.root
    BY <1>1, <1>3, <1>6, <2>1, <2>2, <2>3 DEF AddInv
  <2>5. \A k \in Key : mem'[k] # index'[k] =>
           /\ mem'[k] # None /\ Needs[mem'[k]] \subseteq blobs'
           /\ \E a \in Artifacts : <<k, mem'[k]>> \in AskedOf(a)
    BY <1>1, <1>3, <1>6 DEF AddInv
  <2>6. AddInv'
    BY <1>1, <1>3, <1>6, <2>1, <2>2, <2>4, <2>5, AddFrame
  <2> QED
    BY <1>3, <1>6, <2>6 DEF LoadInv, RemoveInv
<1>7. ASSUME cmd = "load" PROVE AddInv' /\ LoadInv' /\ RemoveInv'
  <2>1. /\ q \in Seq(LoadStep(haul)) /\ All(plan[j]) \subseteq All(q) \cup {d}
        /\ \A do, f : Has(plan[j], do, f) => Has(q, do, f) \/ (do = "write" /\ f = d)
    BY <1>2, <1>3, <1>7, LoadDone
  <2>2. j = First
    BY <1>3, <1>7, LoadWork
  <2>3. \A do \in {"copy", "mark"} : \A f : Has(plan[j], do, f) => Has(q, do, f)
    BY <2>1
  <2>4. failed' = {} => \A e \in haul :
           \/ Has(q, "copy", e)
           \/ /\ Has(q, "mark", e) \/ index'[e[1]] = e[2]
              /\ Needs[e[2]] \subseteq blobs' \cup All(q)
    BY <1>1, <1>3, <1>7, <2>1, <2>2, <2>3 DEF LoadInv
  <2>5. \A k \in Key : mem'[k] # None /\ mem'[k] # index'[k] => <<k, mem'[k]>> \in haul
    BY <1>1, <1>3, <1>7 DEF LoadInv
  <2>6. LoadInv'
    BY <1>1, <1>3, <1>7, <2>1, <2>2, <2>4, <2>5, LoadFrame
  <2> QED
    BY <1>3, <1>7, <2>6 DEF AddInv, RemoveInv
<1>8. cmd # "remove"
  BY <1>3, RemoveWork
<1> QED
  BY <1>3, <1>4, <1>5, <1>6, <1>7, <1>8, WhoWorks DEF Invariant

LEMMA FetchExtraKeeps ==
  ASSUME Invariant, use' = use, NEW j \in Job, NEW x \in Extra \X Manifest, FetchExtra(j, x)
  PROVE  Invariant'
<1>1. Typed /\ AddInv /\ LoadInv /\ WholeInv
  BY DEF Invariant
<1>2. /\ plan[j] # <<>> /\ plan[j][1].do = "extras" /\ x \in plan[j][1].what
      /\ UNCHANGED <<blobs, disk, index, versions, mem, cmd, art, tries, failed, haul, half>>
  BY DEF FetchExtra, Doing, diskVars, jobVars
<1>3. cmd = "add"
  BY <1>2, WhoWorks, LoadWork, RemoveWork
<1>4. PICK A, t : A = AddStep(art[j]) /\ t = Done(plan[j], x)
  OBVIOUS
<1>5. art[j] # None /\ x \in art[j].extras /\ x[2] \in Manifest /\ BlobStep \subseteq A
  <2>1. art[j] # None /\ plan[j][1] \in AddStep(art[j])
    BY <1>2, <1>3, AddWork
  <2>2. x \in art[j].extras
    BY <1>2, <2>1 DEF AddStep, BlobStep
  <2> QED
    BY <1>4, <2>1, <2>2 DEF AddStep
<1>6. /\ t \in Seq(A) /\ All(plan[j]) \subseteq All(t) /\ Backed(t, blobs)
      /\ \A do, f : Has(plan[j], do, f) => Has(t, do, f) \/ (do = "extras" /\ f = x)
  BY <1>2, <1>3, <1>4, AddDone
<1>7. PICK q : /\ plan' = [plan EXCEPT ![j] = q]
               /\ \/ q = t
                  \/ q = <<Step("image", {x[2]})>> \o Add(art[j].name, x[1], x[2]) \o t
  BY <1>4 DEF FetchExtra, Did
<1>8. /\ q \in Seq(A) /\ Backed(q, blobs) /\ All(plan[j]) \subseteq All(q)
      /\ Has(plan[j], "add", Image(art[j])) => Has(q, "add", Image(art[j]))
  <2>1. CASE q = t
    BY <1>6, <2>1
  <2>2. CASE q = <<Step("image", {x[2]})>> \o Add(art[j].name, x[1], x[2]) \o t
    <3>1. PICK s, p, v, u : /\ s = Step("image", {x[2]}) /\ p = <<s>>
                            /\ v = Add(art[j].name, x[1], x[2]) /\ u = p \o v
      OBVIOUS
    <3>2. s \in BlobStep /\ Gives(s) = Needs[x[2]]
      BY <1>5, <3>1, BlobStepFacts
    <3>3. p \in Seq(BlobStep) /\ All(p) = Needs[x[2]]
      <4>1. <<s>> \in Seq(BlobStep) /\ All(<<s>>) = Gives(s)
        BY ONLY <3>2, OneFacts
      <4> QED
        BY ONLY <3>1, <3>2, <4>1
    <3>4. v \in Seq(A) /\ \A B : Needs[x[2]] \subseteq B => Backed(v, B)
      <4>1. <<<<art[j].name, x[1]>>, x[2]>> \in AskedOf(art[j])
        BY <1>5 DEF AskedOf
      <4> QED
        BY <1>4, <3>1, <4>1, AddFacts
    <3>5. u \in Seq(A) /\ \A B : Backed(v, B \cup All(p)) => Backed(u, B)
      <4>1. p \o v \in Seq(A) /\ \A B : Backed(v, B \cup All(p)) => Backed(p \o v, B)
        BY ONLY <1>5, <3>3, <3>4, FollowFacts
      <4> QED
        BY ONLY <3>1, <4>1
    <3>6. Backed(u, blobs)
      BY ONLY <3>3, <3>4, <3>5
    <3>7. /\ u \o t \in Seq(A) /\ All(u \o t) = All(u) \cup All(t)
      BY ONLY <1>6, <3>5, ConcatFacts
    <3>8. \A do, e : Has(u \o t, do, e) <=> Has(u, do, e) \/ Has(t, do, e)
      BY ONLY <1>6, <3>5, ConcatFacts
    <3>9. \A B : Backed(u, B) /\ Backed(t, B \cup All(u)) => Backed(u \o t, B)
      BY ONLY <1>6, <3>5, ConcatFacts
    <3>10. Backed(t, blobs \cup All(u))
      <4>1. blobs \subseteq blobs \cup All(u)
        OBVIOUS
      <4> QED
        BY ONLY <1>6, <4>1, BackedMono
    <3>11. q = u \o t
      BY <2>2, <3>1
    <3>12. Backed(q, blobs)
      BY ONLY <3>6, <3>9, <3>10, <3>11
    <3>13. Has(plan[j], "add", Image(art[j])) => Has(q, "add", Image(art[j]))
      BY ONLY <1>6, <3>8, <3>11
    <3> QED
      BY ONLY <1>6, <3>7, <3>11, <3>12, <3>13
  <2> QED
    BY <1>7, <2>1, <2>2
<1>9. Typed'
  BY <1>1, <1>2, <1>3, <1>7 DEF Typed
<1>10. WholeInv'
  <2>1. \A k, n : WholeOrHalf(k, n) => WholeNext(k, n)
    BY <1>2 DEF WholeOrHalf, WholeNext
  <2> QED
    BY <1>1, <1>2, <2>1, WholeFrame
<1>11. AddInv'
  <2>1. j \notin failed' =>
           /\ Needs[art[j].root] \subseteq blobs' \cup All(q)
           /\ \/ Has(q, "add", Image(art[j]))
              \/ \E a \in Artifacts : KeyOf(a) = KeyOf(art[j]) /\ mem'[KeyOf(a)] = a.root
    BY <1>1, <1>2, <1>3, <1>5, <1>8 DEF AddInv
  <2>2. \A k \in Key : mem'[k] # index'[k] =>
           /\ mem'[k] # None /\ Needs[mem'[k]] \subseteq blobs'
           /\ \E a \in Artifacts : <<k, mem'[k]>> \in AskedOf(a)
    BY <1>1, <1>2, <1>3 DEF AddInv
  <2>3. /\ q \in Seq(AddStep(art[j])) /\ Backed(q, blobs')
        /\ plan' = [plan EXCEPT ![j] = q] /\ blobs \subseteq blobs' /\ failed \subseteq failed'
    BY <1>2, <1>4, <1>7, <1>8
  <2> QED
    BY <1>1, <1>2, <1>3, <1>5, <2>1, <2>2, <2>3, AddFrame
<1> QED
  BY <1>2, <1>3, <1>9, <1>10, <1>11 DEF Invariant, LoadInv, RemoveInv
LEMMA AddIndexKeeps ==
  ASSUME Invariant, use' = use, NEW j \in Job, NEW e \in Entry, AddIndex(j, e)
  PROVE  Invariant'
<1>1. Typed /\ AddInv /\ LoadInv /\ WholeInv
  BY DEF Invariant
<1>2. /\ plan[j] # <<>> /\ plan[j][1].do = "add" /\ e \in plan[j][1].what
      /\ UNCHANGED <<blobs, disk>>
  BY DEF AddIndex, Doing
<1>3. cmd = "add"
  BY <1>2, WhoWorks, LoadWork, RemoveWork
<1>4. PICK A, q, k, m : A = AddStep(art[j]) /\ q = Done(plan[j], e) /\ k = e[1] /\ m = e[2]
  OBVIOUS
<1>5. k \in Key /\ m \in Manifest /\ e = <<k, m>>
  BY <1>4 DEF Entry
<1>6. art[j] # None /\ e \in AskedOf(art[j]) /\ Needs[m] \subseteq blobs
  <2>1. /\ art[j] # None /\ plan[j][1] \in AddStep(art[j]) /\ plan[j] \in Seq(AddStep(art[j]))
        /\ Backed(plan[j], blobs)
    BY <1>2, <1>3, AddWork
  <2>2. e \in AskedOf(art[j])
    BY <1>2, <2>1 DEF AddStep, BlobStep
  <2>3. Needs[e[2]] \subseteq blobs
    BY <1>2, <2>1, ConsFacts
  <2> QED
    BY <1>4, <2>1, <2>2, <2>3
<1>7. /\ q \in Seq(A) /\ All(plan[j]) \subseteq All(q) /\ Backed(q, blobs)
      /\ \A do, f : Has(plan[j], do, f) => Has(q, do, f) \/ (do = "add" /\ f = e)
  BY <1>2, <1>3, <1>4, AddDone
<1>8. e = Image(art[j]) => k = KeyOf(art[j]) /\ m = art[j].root
  BY <1>5 DEF Image
<1>9. art[j] \in Artifacts /\ \A a \in Artifacts : KeyOf(a) \in Key
  <2>1. \A i \in Job : art[i] # None => KeyOf(art[i]) \in Key
    BY <1>1, ArtifactTypes DEF KeyOf, Base, Kind, Key
  <2> QED
    BY <1>6, <2>1 DEF Artifacts
<1>10. ASSUME mem' = [mem EXCEPT ![k] = m] PROVE KeptNames
  <2> SUFFICES ASSUME NEW a \in Artifacts, mem[KeyOf(a)] = a.root
               PROVE  \E b \in Artifacts : KeyOf(b) = KeyOf(a) /\ mem'[KeyOf(b)] = b.root
    BY DEF KeptNames
  <2>1. CASE k = KeyOf(a)
    <3>1. e = Image(art[j])
      <4>1. \A x \in art[j].extras : KeyOf(a) # <<art[j].name, x[1]>>
        BY <1>1, <1>6, ArtifactTypes DEF Extra, KeyOf, Base
      <4>2. \A x \in art[j].extras : e # <<<<art[j].name, x[1]>>, x[2]>>
        BY <1>5, <2>1, <4>1
      <4> QED
        BY <1>6, <4>2 DEF AskedOf
    <3>2. KeyOf(art[j]) = KeyOf(a) /\ mem'[k] = m
      BY <1>1, <1>5, <1>8, <1>10, <2>1, <3>1 DEF Typed
    <3> QED
      BY <1>8, <1>9, <3>1, <3>2
  <2>2. CASE k # KeyOf(a)
    <3>1. mem'[KeyOf(a)] = mem[KeyOf(a)]
      BY <1>1, <1>9, <1>10, <2>2 DEF Typed
    <3> QED
      BY <3>1
  <2> QED
    BY <2>1, <2>2
<1>11. CASE mem[k] = m /\ plan' = [plan EXCEPT ![j] = q]
              /\ UNCHANGED <<index, versions, mem, cmd, art, tries, failed, haul, half>>
  <2>1. Typed'
    BY <1>1, <1>2, <1>3, <1>11 DEF Typed
  <2>2. WholeInv'
    <3>1. \A l, n : WholeOrHalf(l, n) => WholeNext(l, n)
      BY <1>2, <1>11 DEF WholeOrHalf, WholeNext
    <3> QED
      BY <1>1, <1>11, <3>1, WholeFrame
  <2>3. AddInv'
    <3>1. j \notin failed' =>
            /\ Needs[art[j].root] \subseteq blobs' \cup All(q)
            /\ \/ Has(q, "add", Image(art[j]))
               \/ \E a \in Artifacts : KeyOf(a) = KeyOf(art[j]) /\ mem'[KeyOf(a)] = a.root
      BY <1>1, <1>2, <1>3, <1>6, <1>7, <1>8, <1>9, <1>11 DEF AddInv
    <3>2. \A l \in Key : mem'[l] # index'[l] =>
            /\ mem'[l] # None /\ Needs[mem'[l]] \subseteq blobs'
            /\ \E a \in Artifacts : <<l, mem'[l]>> \in AskedOf(a)
      BY <1>1, <1>2, <1>3, <1>11 DEF AddInv
    <3>3. /\ q \in Seq(AddStep(art[j])) /\ Backed(q, blobs')
          /\ plan' = [plan EXCEPT ![j] = q] /\ blobs \subseteq blobs' /\ failed \subseteq failed'
      BY <1>2, <1>4, <1>7, <1>11
    <3> QED
      BY <1>1, <1>3, <1>6, <1>11, <3>1, <3>2, <3>3, AddFrame
  <2> QED
    BY <1>3, <1>11, <2>1, <2>2, <2>3 DEF Invariant, LoadInv, RemoveInv
<1>12. CASE /\ mem' = [mem EXCEPT ![k] = m] /\ index' = mem' /\ versions' \subseteq {mem'} \cup versions
            /\ half' = {f \in half : f[1] # k} /\ plan' = [plan EXCEPT ![j] = q]
            /\ UNCHANGED <<cmd, art, tries, failed, haul>>
  <2>1. mem' \in [Key -> Manifest \cup {None}] /\ mem'[k] = m /\ \A l \in Key \ {k} : mem'[l] = mem[l]
    BY <1>1, <1>5, <1>12 DEF Typed
  <2>2. Typed'
    BY <1>1, <1>2, <1>3, <1>12, <2>1 DEF Typed
  <2>3. WholeInv'
    <3>1. ASSUME NEW l \in Key, NEW n, n = mem'[l]
          PROVE  \/ WholeNext(l, n)
                 \/ n \in {index[l], mem[l]} /\ (WholeOrHalf(l, n) => WholeNext(l, n))
      <4>1. CASE l = k
        BY <1>2, <1>6, <2>1, <3>1, <4>1 DEF WholeNext
      <4>2. CASE l # k
        <5>1. WholeOrHalf(l, n) => WholeNext(l, n)
          BY <1>2, <1>12, <4>2 DEF WholeOrHalf, WholeNext
        <5> QED
          BY <2>1, <3>1, <4>2, <5>1
      <4> QED
        BY <4>1, <4>2
    <3> QED
      BY <1>1, <1>12, <3>1, WholeFrame
  <2>4. AddInv'
    <3>1. j \notin failed' =>
            /\ Needs[art[j].root] \subseteq blobs' \cup All(q)
            /\ \/ Has(q, "add", Image(art[j]))
               \/ \E a \in Artifacts : KeyOf(a) = KeyOf(art[j]) /\ mem'[KeyOf(a)] = a.root
      <4> SUFFICES ASSUME j \notin failed
                   PROVE  /\ Needs[art[j].root] \subseteq blobs' \cup All(q)
                          /\ \/ Has(q, "add", Image(art[j]))
                             \/ \E a \in Artifacts : KeyOf(a) = KeyOf(art[j]) /\ mem'[KeyOf(a)] = a.root
        BY <1>12
      <4>1. /\ Needs[art[j].root] \subseteq blobs \cup All(plan[j])
            /\ \/ Has(plan[j], "add", Image(art[j]))
               \/ \E a \in Artifacts : KeyOf(a) = KeyOf(art[j]) /\ mem[KeyOf(a)] = a.root
        BY <1>1, <1>3, <1>6 DEF AddInv
      <4>2. CASE e = Image(art[j])
        <5>1. KeyOf(art[j]) = KeyOf(art[j]) /\ mem'[KeyOf(art[j])] = art[j].root
          BY <1>8, <2>1, <4>2
        <5> QED
          BY <1>2, <1>7, <1>9, <4>1, <5>1
      <4>3. CASE e # Image(art[j])
        <5>1. Has(plan[j], "add", Image(art[j])) => Has(q, "add", Image(art[j]))
          BY <1>7, <4>3
        <5>2. (\E a \in Artifacts : KeyOf(a) = KeyOf(art[j]) /\ mem[KeyOf(a)] = a.root)
                => \E b \in Artifacts : KeyOf(b) = KeyOf(art[j]) /\ mem'[KeyOf(b)] = b.root
          BY <1>10, <1>12 DEF KeptNames
        <5> QED
          BY <1>2, <1>7, <4>1, <5>1, <5>2
      <4> QED
        BY <4>2, <4>3
    <3>2. \A l \in Key : mem'[l] # index'[l] =>
            /\ mem'[l] # None /\ Needs[mem'[l]] \subseteq blobs'
            /\ \E a \in Artifacts : <<l, mem'[l]>> \in AskedOf(a)
      BY <1>12
    <3>3. /\ q \in Seq(AddStep(art[j])) /\ Backed(q, blobs')
          /\ plan' = [plan EXCEPT ![j] = q] /\ blobs \subseteq blobs' /\ failed \subseteq failed'
      BY <1>2, <1>4, <1>7, <1>12
    <3>4. \A a \in Artifacts : mem[KeyOf(a)] = a.root =>
            \E b \in Artifacts : KeyOf(b) = KeyOf(a) /\ mem'[KeyOf(b)] = b.root
      BY <1>10, <1>12 DEF KeptNames
    <3> QED
      BY <1>1, <1>3, <1>6, <1>12, <3>1, <3>2, <3>3, <3>4, AddFrame
  <2> QED
    BY <1>3, <1>12, <2>2, <2>3, <2>4 DEF Invariant, LoadInv, RemoveInv
<1>13. CASE mem' = [mem EXCEPT ![k] = m] /\ Fail(j) /\ UNCHANGED <<index, versions, half>>
  <2>1. mem' \in [Key -> Manifest \cup {None}] /\ mem'[k] = m /\ \A l \in Key \ {k} : mem'[l] = mem[l]
    BY <1>1, <1>5, <1>13 DEF Typed
  <2>2. AddedAhead
    <3> SUFFICES ASSUME NEW l \in Key, mem'[l] # index'[l]
                 PROVE  /\ mem'[l] # None /\ Needs[mem'[l]] \subseteq blobs'
                        /\ \E a \in Artifacts : <<l, mem'[l]>> \in AskedOf(a)
      BY DEF AddedAhead
    <3>1. CASE l = k
      <4>1. mem'[l] = m /\ <<l, mem'[l]>> = e /\ m # None
        BY <1>5, <2>1, <3>1, LayoutAssumption
      <4> QED
        BY <1>2, <1>6, <1>9, <4>1
    <3>2. CASE l # k
      <4>1. mem'[l] = mem[l] /\ mem[l] # index[l]
        BY <1>13, <2>1, <3>2
      <4>2. /\ mem[l] # None /\ Needs[mem[l]] \subseteq blobs
            /\ \E a \in Artifacts : <<l, mem[l]>> \in AskedOf(a)
        BY <1>1, <1>3, <4>1 DEF AddInv
      <4> QED
        BY <1>2, <4>1, <4>2
    <3> QED
      BY <3>1, <3>2
  <2>3. /\ cmd' = cmd /\ art' = art /\ haul' = haul /\ plan' = [i \in Job |-> plan'[i]]
        /\ AddInv' /\ LoadInv' /\ RemoveInv'
    BY <1>2, <1>3, <1>10, <1>13, <2>2, FailKeeps
  <2>4. Typed'
    BY <1>1, <1>2, <1>3, <1>13, <2>1, <2>3 DEF Typed
  <2>5. WholeInv'
    <3>1. ASSUME NEW l \in Key, NEW n \in {index'[l], mem'[l]}
          PROVE  \/ WholeNext(l, n)
                 \/ n \in {index[l], mem[l]} /\ (WholeOrHalf(l, n) => WholeNext(l, n))
      <4>1. WholeOrHalf(l, n) => WholeNext(l, n)
        BY <1>2, <1>13 DEF WholeOrHalf, WholeNext
      <4>2. n = m /\ l = k => WholeNext(l, n)
        BY <1>2, <1>6 DEF WholeNext
      <4> QED
        BY <1>13, <2>1, <4>1, <4>2
    <3> QED
      BY <1>1, <3>1, WholeFrame
  <2> QED
    BY <2>3, <2>4, <2>5 DEF Invariant
<1>14. CASE /\ mem' = [mem EXCEPT ![k] = m] /\ index' = mem' /\ versions' \subseteq {mem'} \cup versions
            /\ half' = {f \in half : f[1] # k \/ index' = index} /\ Fail(j)
  <2>1. mem' \in [Key -> Manifest \cup {None}] /\ mem'[k] = m /\ \A l \in Key \ {k} : mem'[l] = mem[l]
    BY <1>1, <1>5, <1>14 DEF Typed
  <2>2. AddedAhead
    BY <1>14 DEF AddedAhead
  <2>3. /\ cmd' = cmd /\ art' = art /\ haul' = haul /\ plan' = [i \in Job |-> plan'[i]]
        /\ AddInv' /\ LoadInv' /\ RemoveInv'
    BY <1>2, <1>3, <1>10, <1>14, <2>2, FailKeeps
  <2>4. Typed'
    BY <1>1, <1>2, <1>3, <1>14, <2>1, <2>3 DEF Typed
  <2>5. WholeInv'
    <3>1. ASSUME NEW l \in Key, NEW n, n = mem'[l]
          PROVE  \/ WholeNext(l, n)
                 \/ n \in {index[l], mem[l]} /\ (WholeOrHalf(l, n) => WholeNext(l, n))
      <4>1. CASE l = k
        BY <1>2, <1>6, <2>1, <3>1, <4>1 DEF WholeNext
      <4>2. CASE l # k
        <5>1. WholeOrHalf(l, n) => WholeNext(l, n)
          BY <1>2, <1>14, <4>2 DEF WholeOrHalf, WholeNext
        <5> QED
          BY <2>1, <3>1, <4>2, <5>1
      <4> QED
        BY <4>1, <4>2
    <3> QED
      BY <1>1, <1>14, <3>1, WholeFrame
  <2> QED
    BY <2>3, <2>4, <2>5 DEF Invariant
<1>15. index' = index /\ half' = {f \in half : f[1] # k \/ index' = index} => half' = half
  OBVIOUS
<1> QED
  BY <1>4, <1>11, <1>12, <1>13, <1>14, <1>15 DEF AddIndex, Save, SaveFails, Put, Did, jobVars
LEMMA CopyKeeps ==
  ASSUME Invariant, use' = use, NEW j \in Job, NEW e \in Entry, Copy(j, e)
  PROVE  Invariant'
<1>1. Typed /\ AddInv /\ LoadInv /\ WholeInv
  BY DEF Invariant
<1>2. /\ plan[j] # <<>> /\ plan[j][1].do = "copy" /\ e \in plan[j][1].what /\ mem' = Loaded
      /\ UNCHANGED <<blobs, disk, index, versions, cmd, art, tries, failed, haul, half>>
  BY DEF Copy, Doing, diskVars, jobVars
<1>3. cmd = "load"
  BY <1>2, WhoWorks, AddWork, RemoveWork
<1>4. PICK A, t, p, q : /\ A = LoadStep(haul) /\ t = Done(plan[j], e) /\ p = CopyPlan(e) /\ q = p \o t
                        /\ plan' = [plan EXCEPT ![j] = q]
  BY DEF Copy
<1>5. j = First /\ e \in haul
  <2>1. j = First /\ plan[j][1] \in LoadStep(haul)
    BY <1>2, <1>3, LoadWork
  <2> QED
    BY <1>2, <2>1 DEF LoadStep, BlobStep
<1>6. p \in Seq(A) /\ Has(p, "mark", e) /\ Needs[e[2]] \subseteq All(p)
  BY <1>1, <1>4, <1>5, CopyPlanFacts DEF Typed
<1>7. /\ t \in Seq(A) /\ All(plan[j]) \subseteq All(t)
      /\ \A do, f : Has(plan[j], do, f) => Has(t, do, f) \/ (do = "copy" /\ f = e)
  BY <1>2, <1>3, <1>4, LoadDone
<1>8. q \in Seq(A) /\ All(q) = All(p) \cup All(t)
  <2>1. p \o t \in Seq(A) /\ All(p \o t) = All(p) \cup All(t)
    BY ONLY <1>6, <1>7, ConcatFacts
  <2> QED
    BY ONLY <1>4, <2>1
<1>9. \A do, f : Has(q, do, f) <=> Has(p, do, f) \/ Has(t, do, f)
  <2>1. \A do, f : Has(p \o t, do, f) <=> Has(p, do, f) \/ Has(t, do, f)
    BY ONLY <1>6, <1>7, ConcatFacts
  <2> QED
    BY ONLY <1>4, <2>1
<1>10. Loaded \in [Key -> Manifest \cup {None}] /\ \A k \in Key : Loaded[k] = IF index[k] # None THEN index[k] ELSE mem[k]
  BY <1>1, LoadedFacts
<1>11. Typed'
  BY <1>1, <1>2, <1>3, <1>4, <1>10 DEF Typed
<1>12. WholeInv'
  <2>1. \A k, n : WholeOrHalf(k, n) => WholeNext(k, n)
    BY <1>2 DEF WholeOrHalf, WholeNext
  <2>2. \A k \in Key : index'[k] = index[k] /\ mem'[k] \in {index[k], mem[k]}
    BY <1>2, <1>10
  <2> QED
    BY <1>1, <2>1, <2>2, WholeFrame
<1>13. LoadInv'
  <2>1. ASSUME failed' = {}, NEW f \in haul
        PROVE  \/ Has(q, "copy", f)
               \/ /\ Has(q, "mark", f) \/ index'[f[1]] = f[2]
                  /\ Needs[f[2]] \subseteq blobs' \cup All(q)
    <3>1. \/ Has(plan[j], "copy", f)
          \/ /\ Has(plan[j], "mark", f) \/ index[f[1]] = f[2]
             /\ Needs[f[2]] \subseteq blobs \cup All(plan[j])
      BY <1>1, <1>2, <1>3, <1>5, <2>1 DEF LoadInv
    <3>2. CASE f = e
      BY <1>6, <1>8, <1>9, <3>2
    <3>3. CASE f # e
      BY <1>2, <1>7, <1>8, <1>9, <3>1, <3>3
    <3> QED
      BY <3>2, <3>3
  <2>2. \A k \in Key : mem'[k] # None /\ mem'[k] # index'[k] => <<k, mem'[k]>> \in haul
    BY <1>1, <1>2, <1>3, <1>10 DEF LoadInv
  <2>3. plan' = [plan EXCEPT ![First] = q] /\ q \in Seq(LoadStep(haul))
    BY <1>4, <1>5, <1>8
  <2> QED
    BY <1>1, <1>2, <1>3, <2>1, <2>2, <2>3, LoadFrame
<1> QED
  BY <1>2, <1>3, <1>11, <1>12, <1>13 DEF Invariant, AddInv, RemoveInv

LEMMA MarkRootKeeps ==
  ASSUME Invariant, use' = use, NEW j \in Job, NEW e \in Entry, MarkRoot(j, e)
  PROVE  Invariant'
<1>1. Typed /\ AddInv /\ LoadInv /\ WholeInv
  BY DEF Invariant
<1>2. /\ plan[j] # <<>> /\ plan[j][1].do = "mark" /\ e \in plan[j][1].what
      /\ UNCHANGED <<blobs, disk>>
  BY DEF MarkRoot, Doing
<1>3. cmd = "load"
  BY <1>2, WhoWorks, AddWork, RemoveWork
<1>4. PICK A, q, k, m : A = LoadStep(haul) /\ q = Done(plan[j], e) /\ k = e[1] /\ m = e[2]
  OBVIOUS
<1>5. k \in Key /\ m \in Manifest /\ e = <<k, m>> /\ m # None
  BY <1>4, LayoutAssumption DEF Entry
<1>6. j = First /\ e \in haul
  <2>1. j = First /\ plan[j][1] \in LoadStep(haul)
    BY <1>2, <1>3, LoadWork
  <2> QED
    BY <1>2, <2>1 DEF LoadStep, BlobStep
<1>7. /\ q \in Seq(A) /\ All(plan[j]) \subseteq All(q)
      /\ \A do, f : Has(plan[j], do, f) => Has(q, do, f) \/ (do = "mark" /\ f = e)
  BY <1>2, <1>3, <1>4, LoadDone
<1>8. Loaded \in [Key -> Manifest \cup {None}] /\ \A l \in Key : Loaded[l] = IF index[l] # None THEN index[l] ELSE mem[l]
  BY <1>1, LoadedFacts
<1>9. PICK new : new = [Loaded EXCEPT ![k] = m]
  OBVIOUS
<1>10. new \in [Key -> Manifest \cup {None}] /\ new[k] = m /\ \A l \in Key \ {k} : new[l] = Loaded[l]
  BY <1>5, <1>8, <1>9
<1>11. half \subseteq Entry /\ Ahead(e) \subseteq Entry /\ (Needs[m] \subseteq blobs \/ e \in Ahead(e))
  BY <1>1, <1>4 DEF Typed, Ahead
<1>12. CASE /\ mem' = new /\ index' = new /\ versions' \subseteq {new} \cup versions
            /\ half' = {f \in half : f[1] # k} \cup Ahead(e) /\ plan' = [plan EXCEPT ![j] = q]
            /\ UNCHANGED <<cmd, art, tries, failed, haul>>
  <2>1. Typed'
    BY <1>1, <1>2, <1>3, <1>10, <1>11, <1>12 DEF Typed
  <2>2. WholeInv'
    <3>1. ASSUME NEW l \in Key, NEW n, n = new[l]
          PROVE  \/ WholeNext(l, n)
                 \/ n \in {index[l], mem[l]} /\ (WholeOrHalf(l, n) => WholeNext(l, n))
      <4>1. CASE l = k
        BY <1>2, <1>5, <1>10, <1>11, <1>12, <3>1, <4>1 DEF WholeNext
      <4>2. CASE l # k
        <5>1. WholeOrHalf(l, n) => WholeNext(l, n)
          BY <1>2, <1>12, <4>2 DEF WholeOrHalf, WholeNext
        <5>2. n \in {index[l], mem[l]}
          BY <1>8, <1>10, <3>1, <4>2
        <5> QED
          BY <5>1, <5>2
      <4> QED
        BY <4>1, <4>2
    <3> QED
      BY <1>1, <1>12, <3>1, WholeFrame
  <2>3. LoadInv'
    <3>1. ASSUME failed' = {}, NEW f \in haul
          PROVE  \/ Has(q, "copy", f)
                 \/ /\ Has(q, "mark", f) \/ index'[f[1]] = f[2]
                    /\ Needs[f[2]] \subseteq blobs' \cup All(q)
      <4>1. \/ Has(plan[j], "copy", f)
            \/ /\ Has(plan[j], "mark", f) \/ index[f[1]] = f[2]
               /\ Needs[f[2]] \subseteq blobs \cup All(plan[j])
        BY <1>1, <1>3, <1>6, <1>12, <3>1 DEF LoadInv
      <4>2. CASE f = e
        <5>1. index'[f[1]] = f[2]
          BY <1>4, <1>10, <1>12, <4>2
        <5>2. Has(plan[j], "copy", f) => Has(q, "copy", f)
          BY <1>7
        <5> QED
          BY <1>2, <1>7, <4>1, <5>1, <5>2
      <4>3. CASE f # e
        <5>1. f[1] # k /\ f[1] \in Key /\ f[2] # None
          <6>1. f[1] # e[1] /\ f \in Entry
            BY <1>1, <1>6, <4>3 DEF Typed
          <6> QED
            BY <1>4, <6>1, LayoutAssumption DEF Entry
        <5>2. index[f[1]] = f[2] => index'[f[1]] = f[2]
          BY <1>8, <1>10, <1>12, <5>1
        <5> QED
          BY <1>2, <1>7, <4>1, <4>3, <5>2
      <4> QED
        BY <4>2, <4>3
    <3>2. \A l \in Key : mem'[l] # None /\ mem'[l] # index'[l] => <<l, mem'[l]>> \in haul
      BY <1>12
    <3>3. plan' = [plan EXCEPT ![First] = q] /\ q \in Seq(LoadStep(haul))
      BY <1>4, <1>6, <1>7, <1>12
    <3> QED
      BY <1>1, <1>3, <1>12, <3>1, <3>2, <3>3, LoadFrame
  <2> QED
    BY <1>3, <1>12, <2>1, <2>2, <2>3 DEF Invariant, AddInv, RemoveInv
<1>13. CASE mem' = new /\ Fail(j) /\ half' = half \cup Ahead(e) /\ UNCHANGED <<index, versions>>
  <2>1. LoadedAhead
    <3>1. ASSUME NEW l \in Key, mem'[l] # None, mem'[l] # index'[l]
          PROVE  <<l, mem'[l]>> \in haul
      <4>1. CASE l = k
        BY <1>5, <1>6, <1>10, <1>13, <4>1
      <4>2. CASE l # k
        <5>1. mem'[l] = Loaded[l] /\ Loaded[l] # index[l] /\ Loaded[l] # None
          BY <1>10, <1>13, <3>1, <4>2
        <5>2. mem'[l] = mem[l] /\ mem[l] # None /\ mem[l] # index[l]
          BY <1>8, <5>1
        <5> QED
          BY <1>1, <1>3, <5>2 DEF LoadInv
      <4> QED
        BY <4>1, <4>2
    <3> QED
      BY <3>1 DEF LoadedAhead
  <2>2. /\ cmd' = cmd /\ art' = art /\ haul' = haul /\ plan' = [i \in Job |-> plan'[i]]
        /\ AddInv' /\ LoadInv' /\ RemoveInv'
    BY <1>2, <1>3, <1>13, <2>1, FailKeeps
  <2>3. Typed'
    BY <1>1, <1>2, <1>3, <1>10, <1>11, <1>13, <2>2 DEF Typed
  <2>4. WholeInv'
    <3>1. ASSUME NEW l \in Key, NEW n \in {index'[l], mem'[l]}
          PROVE  \/ WholeNext(l, n)
                 \/ n \in {index[l], mem[l]} /\ (WholeOrHalf(l, n) => WholeNext(l, n))
      <4>1. WholeOrHalf(l, n) => WholeNext(l, n)
        BY <1>2, <1>13 DEF WholeOrHalf, WholeNext
      <4>2. n = m /\ l = k => WholeNext(l, n)
        BY <1>2, <1>5, <1>11, <1>13 DEF WholeNext
      <4>3. n \in {index[l], mem[l]} \/ (n = m /\ l = k)
        BY <1>8, <1>10, <1>13
      <4> QED
        BY <4>1, <4>2, <4>3
    <3> QED
      BY <1>1, <3>1, WholeFrame
  <2> QED
    BY <2>2, <2>3, <2>4 DEF Invariant
<1>14. CASE /\ mem' = new /\ index' = new /\ versions' \subseteq {new} \cup versions
            /\ Fail(j) /\ half' = half \cup Ahead(e)
  <2>1. LoadedAhead
    BY <1>14 DEF LoadedAhead
  <2>2. /\ cmd' = cmd /\ art' = art /\ haul' = haul /\ plan' = [i \in Job |-> plan'[i]]
        /\ AddInv' /\ LoadInv' /\ RemoveInv'
    BY <1>2, <1>3, <1>14, <2>1, FailKeeps
  <2>3. Typed'
    BY <1>1, <1>2, <1>3, <1>10, <1>11, <1>14, <2>2 DEF Typed
  <2>4. WholeInv'
    <3>1. ASSUME NEW l \in Key, NEW n, n = new[l]
          PROVE  \/ WholeNext(l, n)
                 \/ n \in {index[l], mem[l]} /\ (WholeOrHalf(l, n) => WholeNext(l, n))
      <4>1. WholeOrHalf(l, n) => WholeNext(l, n)
        BY <1>2, <1>14 DEF WholeOrHalf, WholeNext
      <4>2. n = m /\ l = k => WholeNext(l, n)
        BY <1>2, <1>5, <1>11, <1>14 DEF WholeNext
      <4>3. n \in {index[l], mem[l]} \/ (n = m /\ l = k)
        BY <1>8, <1>10, <3>1
      <4> QED
        BY <4>1, <4>2, <4>3
    <3> QED
      BY <1>1, <1>14, <3>1, WholeFrame
  <2> QED
    BY <2>2, <2>3, <2>4 DEF Invariant
<1> QED
  BY <1>4, <1>9, <1>12, <1>13, <1>14 DEF MarkRoot, Save, SaveFails, Put, Did, jobVars
(* A step of a remove, which leaves the plan q.                            *)
LEMMA RemoveFrame ==
  ASSUME Invariant, cmd = "remove", cmd' = cmd, NEW q, plan' = [plan EXCEPT ![First] = q],
         q # <<>> =>
           /\ mem' = index'
           /\ \/ q[1].what \subseteq Key /\ q = <<Step("drop", q[1].what), Step("clean", {None})>>
              \/ q = <<Step("clean", {None})>>
              \/ \E W, G : q = Cleaning(W, G) /\ CleanInv(W, G)'
  PROVE  AddInv' /\ LoadInv' /\ RemoveInv'
<1>1. plan'[First] = q /\ \A i \in Job \ {First} : plan'[i] = <<>>
  <2>1. /\ plan = [i \in Job |-> plan[i]] /\ First \in Job
        /\ \A i \in Job \ {First} : plan[i] = <<>>
    BY LayoutAssumption DEF Invariant, Typed, RemoveInv
  <2> QED
    BY <2>1
<1>2. ASSUME NEW W, NEW G, q = Cleaning(W, G), CleanInv(W, G)', q # <<>>
      PROVE  q = Cleaning(Visit(q), Rest(q)) /\ CleanInv(Visit(q), Rest(q))'
  <2>1. W \subseteq G
    BY <1>2 DEF CleanInv
  <2>2. Visit(q) = W /\ Rest(q) = G
    BY <1>2, <2>1, CleaningShape
  <2> QED
    BY <1>2, <2>2
<1>3. RemoveInv'
  <2>1. CASE q = <<>>
    BY <1>1, <2>1 DEF RemoveInv
  <2>2. CASE q # <<>> /\ \E W, G : q = Cleaning(W, G) /\ CleanInv(W, G)'
    <3>1. mem' = index' /\ q = Cleaning(Visit(q), Rest(q)) /\ CleanInv(Visit(q), Rest(q))'
      BY <1>2, <2>2
    <3> QED
      BY <1>1, <3>1 DEF RemoveInv
  <2>3. CASE q # <<>> /\ q[1].what \subseteq Key /\ q = <<Step("drop", q[1].what), Step("clean", {None})>>
    BY <1>1, <2>3 DEF RemoveInv
  <2>4. CASE q # <<>> /\ q = <<Step("clean", {None})>>
    BY <1>1, <2>4 DEF RemoveInv
  <2> QED
    BY <2>1, <2>2, <2>3, <2>4
<1> QED
  BY <1>3 DEF AddInv, LoadInv

LEMMA RemoveArtifactKeeps ==
  ASSUME Invariant, use' = use, NEW j \in Job, NEW k \in Key, RemoveArtifact(j, k)
  PROVE  Invariant'
<1>1. Typed /\ WholeInv
  BY DEF Invariant
<1>2. plan[j] # <<>> /\ plan[j][1].do = "drop" /\ k \in plan[j][1].what /\ UNCHANGED <<blobs, disk>>
  BY DEF RemoveArtifact, Doing
<1>3. cmd = "remove"
  BY <1>2, WhoWorks, AddWork, LoadWork
<1>4. PICK K, p, q, new : /\ p = plan[j] /\ K = p[1].what /\ q = Done(p, k) /\ new = [Loaded EXCEPT ![k] = None]
  OBVIOUS
<1>5. j = First /\ mem = index /\ K \subseteq Key /\ p = <<Step("drop", K), Step("clean", {None})>>
  BY <1>2, <1>3, <1>4, RemoveWork
<1>6. /\ new \in [Key -> Manifest \cup {None}] /\ new[k] = None /\ \A l \in Key \ {k} : new[l] = index[l]
  <2>1. Loaded = index /\ index \in [Key -> Manifest \cup {None}]
    BY <1>1, <1>5, LoadedFacts DEF Typed
  <2> QED
    BY <1>4, <2>1
<1>7. q = <<Step("clean", {None})>> \/ q = <<Step("drop", K \ {k}), Step("clean", {None})>>
  <2>1. PICK s, c, t : s = Step("drop", K) /\ c = Step("clean", {None}) /\ t = Step("drop", K \ {k})
    OBVIOUS
  <2>2. p = <<s, c>> /\ p[1] = s /\ Tail(p) = <<c>> /\ [p EXCEPT ![1] = t] = <<t, c>>
    BY <1>5, <2>1
  <2>3. s.do = "drop" /\ s.what = K
    BY <2>1 DEF Step
  <2> QED
    BY <1>4, <2>1, <2>2, <2>3 DEF Done
<1>8. CASE /\ mem' = new /\ index' = new /\ versions' = {new}
           /\ half' = {e \in half : e[1] # k} /\ plan' = [plan EXCEPT ![j] = q]
           /\ UNCHANGED <<cmd, art, tries, failed, haul>>
  <2>1. Typed'
    BY <1>1, <1>2, <1>3, <1>6, <1>8 DEF Typed
  <2>2. WholeInv'
    <3>1. ASSUME NEW l \in Key, NEW n, n = new[l], n # None
          PROVE  n \in {index[l], mem[l]} /\ (WholeOrHalf(l, n) => WholeNext(l, n))
      <4>1. l # k /\ n = index[l]
        BY <1>6, <3>1
      <4>2. WholeOrHalf(l, n) => WholeNext(l, n)
        BY <1>2, <1>8, <4>1 DEF WholeOrHalf, WholeNext
      <4> QED
        BY <4>1, <4>2
    <3> QED
      BY <1>1, <1>8, <3>1, WholeFrame
  <2>3. AddInv' /\ LoadInv' /\ RemoveInv'
    <3>1. \/ q[1].what \subseteq Key /\ q = <<Step("drop", q[1].what), Step("clean", {None})>>
          \/ q = <<Step("clean", {None})>>
      <4>1. CASE q = <<Step("drop", K \ {k}), Step("clean", {None})>>
        <5>1. q[1] = Step("drop", K \ {k})
          BY <4>1
        <5>2. q[1].what = K \ {k}
          BY <5>1 DEF Step
        <5> QED
          BY <1>5, <4>1, <5>2
      <4> QED
        BY <1>7, <4>1
    <3>2. plan' = [plan EXCEPT ![First] = q] /\ mem' = index' /\ cmd' = cmd
      BY <1>5, <1>8
    <3> QED
      BY <1>3, <3>1, <3>2, RemoveFrame
  <2> QED
    BY <2>1, <2>2, <2>3 DEF Invariant
<1>9. CASE mem' = new /\ Fail(j) /\ UNCHANGED <<index, versions, half>>
  <2>1. /\ cmd' = cmd /\ art' = art /\ haul' = haul /\ plan' = [i \in Job |-> plan'[i]]
        /\ AddInv' /\ LoadInv' /\ RemoveInv'
    BY <1>2, <1>3, FailKeeps, <1>9
  <2>2. Typed'
    BY <1>1, <1>2, <1>3, <1>6, <1>9, <2>1 DEF Typed
  <2>3. WholeInv'
    <3>1. ASSUME NEW l \in Key, NEW n \in {index'[l], mem'[l]}, n # None
          PROVE  n \in {index[l], mem[l]} /\ (WholeOrHalf(l, n) => WholeNext(l, n))
      <4>1. WholeOrHalf(l, n) => WholeNext(l, n)
        BY <1>2, <1>9 DEF WholeOrHalf, WholeNext
      <4>2. n = index[l]
        BY <1>6, <1>9, <3>1
      <4> QED
        BY <4>1, <4>2
    <3> QED
      BY <1>1, <3>1, WholeFrame
  <2> QED
    BY <2>1, <2>2, <2>3 DEF Invariant
<1>10. CASE /\ mem' = new /\ index' = new /\ versions' \subseteq {new} \cup versions
            /\ Fail(j) /\ UNCHANGED half
  <2>1. /\ cmd' = cmd /\ art' = art /\ haul' = haul /\ plan' = [i \in Job |-> plan'[i]]
        /\ AddInv' /\ LoadInv' /\ RemoveInv'
    BY <1>2, <1>3, FailKeeps, <1>10
  <2>2. Typed'
    BY <1>1, <1>2, <1>3, <1>6, <1>10, <2>1 DEF Typed
  <2>3. WholeInv'
    <3>1. ASSUME NEW l \in Key, NEW n, n = new[l], n # None
          PROVE  n \in {index[l], mem[l]} /\ (WholeOrHalf(l, n) => WholeNext(l, n))
      <4>1. WholeOrHalf(l, n) => WholeNext(l, n)
        BY <1>2, <1>10 DEF WholeOrHalf, WholeNext
      <4>2. n = index[l]
        BY <1>6, <3>1
      <4> QED
        BY <4>1, <4>2
    <3> QED
      BY <1>1, <1>10, <3>1, WholeFrame
  <2> QED
    BY <2>1, <2>2, <2>3 DEF Invariant
<1> QED
  BY <1>4, <1>8, <1>9, <1>10 DEF RemoveArtifact, Save, SaveFails, Put, Did, jobVars

(* CleanUp, a step of its walk and a step of its sweep.                    *)
Cleans ==
  /\ cmd = "remove" /\ mem = index /\ First \in Job /\ plan[First] # <<>>
  /\ UNCHANGED <<disk, index, versions, mem, cmd, art, tries, failed, haul, half>>
  /\ \E W, G : plan' = [plan EXCEPT ![First] = Cleaning(W, G)] /\ CleanInv(W, G)'

LEMMA CleansKeeps ==
  ASSUME Invariant, use' = use, Cleans, blobs' \subseteq blobs,
         Undisturbed => \A k \in Key : mem[k] # None /\ Needs[mem[k]] \subseteq blobs => Needs[mem[k]] \subseteq blobs'
  PROVE  Invariant'
<1>1. Typed /\ WholeInv
  BY DEF Invariant
<1>2. /\ cmd = "remove" /\ mem = index
      /\ UNCHANGED <<disk, index, versions, mem, cmd, art, tries, failed, haul, half>>
  BY DEF Cleans
<1>3. PICK W, G : plan' = [plan EXCEPT ![First] = Cleaning(W, G)] /\ CleanInv(W, G)'
  BY DEF Cleans
<1>4. PICK q : q = Cleaning(W, G) /\ plan' = [plan EXCEPT ![First] = q]
  BY <1>3
<1>5. AddInv' /\ LoadInv' /\ RemoveInv'
  <2>1. mem' = index' /\ \E X, H : q = Cleaning(X, H) /\ CleanInv(X, H)'
    BY <1>2, <1>3, <1>4 DEF CleanInv
  <2> QED
    BY <1>2, <1>4, <2>1, RemoveFrame
<1>6. Typed'
  BY <1>1, <1>2, <1>4 DEF Typed
<1>7. WholeInv'
  <2>1. ASSUME Undisturbed, NEW k \in Key, NEW n, n = mem[k], n # None
        PROVE  WholeOrHalf(k, n) => WholeNext(k, n)
    BY <1>2, <2>1 DEF WholeOrHalf, WholeNext
  <2> QED
    BY <1>1, <1>2, <2>1, WholeFrame
<1> QED
  BY <1>5, <1>6, <1>7 DEF Invariant

LEMMA CleanUpCleans ==
  ASSUME Invariant, use' = use, NEW j \in Job, CleanUp(j)
  PROVE  Cleans /\ blobs' = blobs
<1>1. Typed /\ WholeInv
  BY DEF Invariant
<1>2. /\ plan[j] # <<>> /\ plan[j][1].do = "clean" /\ mem' = Loaded
      /\ UNCHANGED <<blobs, disk, index, versions, cmd, art, tries, failed, haul, half>>
  BY DEF CleanUp, Doing, diskVars, jobVars
<1>3. cmd = "remove"
  BY <1>2, WhoWorks, AddWork, LoadWork
<1>4. j = First /\ mem = index /\ plan[j] = <<Step("clean", {None})>>
  BY <1>2, <1>3, RemoveWork
<1>5. Loaded = index /\ mem' = mem
  BY <1>1, <1>2, <1>4, LoadedFacts
<1>6. PICK W, q : /\ W = {index[k] : k \in {l \in Key : index[l] # None}} \cap blobs
                  /\ q = Cleaning(W, blobs)
  OBVIOUS
<1>7. plan' = [plan EXCEPT ![First] = q]
  <2>1. plan' = [plan EXCEPT ![j] = q \o Tail(plan[j])]
    BY <1>5, <1>6 DEF CleanUp
  <2>2. Tail(plan[j]) = <<>>
    <3>1. PICK c : c = Step("clean", {None})
      OBVIOUS
    <3>2. Tail(<<c>>) = <<>>
      OBVIOUS
    <3> QED
      BY <1>4, <3>1, <3>2
  <2>3. q \o <<>> = q
    <3>1. PICK s, t, S : s = Step("walk", W) /\ t = Step("sweep", blobs) /\ S = {s, t}
      OBVIOUS
    <3>2. q \in {<<>>, <<t>>, <<s, t>>}
      BY <1>6, <3>1, CleaningShape
    <3>3. <<>> \in Seq(S) /\ <<t>> \in Seq(S) /\ <<s, t>> \in Seq(S)
      BY <3>1
    <3>4. q \in Seq(S)
      BY <3>2, <3>3
    <3> QED
      BY ONLY <3>4, ConcatEmptySeq
  <2> QED
    BY <1>4, <2>1, <2>2, <2>3
<1>8. CleanInv(W, blobs)'
  <2>1. ASSUME NEW x \in W PROVE \E k \in Key : mem[k] # None /\ x \in Needs[mem[k]]
    <3>1. PICK k \in Key : index[k] # None /\ x = index[k]
      BY <1>6, <2>1
    <3>2. x \in Digest
      BY <1>1, <3>1, LayoutAssumption DEF Typed
    <3> QED
      BY <1>4, <3>1, <3>2, NeedsIsLeast
  <2>2. W \subseteq blobs /\ \A k \in Key : mem[k] # None /\ mem[k] \in blobs => mem[k] \in W
    BY <1>4, <1>6
  <2> QED
    BY <1>2, <1>5, <2>1, <2>2 DEF CleanInv
<1>9. \E V, G : plan' = [plan EXCEPT ![First] = Cleaning(V, G)] /\ CleanInv(V, G)'
  <2>1. plan' = [plan EXCEPT ![First] = Cleaning(W, blobs)]
    BY <1>6, <1>7
  <2>2. PICK B : B = blobs
    OBVIOUS
  <2>3. CleanInv(W, B)'
    BY <1>2, <1>8, <2>2 DEF CleanInv
  <2> QED
    BY <2>1, <2>2, <2>3 DEF CleanInv
<1> QED
  BY <1>2, <1>3, <1>4, <1>5, <1>9 DEF Cleans

NamedBy(read) == UNION {Names(m) : m \in read}

(* Marking W: what W names is to be visited, unless it is marked already.  *)
LEMMA MarkIsClean ==
  ASSUME NEW W, NEW G, CleanInv(W, G), NEW read, read \subseteq W \cap Manifest,
         ~use.readFaults => read = W \cap Manifest, mem \in [Key -> Manifest \cup {None}],
         NEW R, NEW V, R = G \ W, V = NamedBy(read) \cap R
  PROVE  CleanInv(V, R)
<1>1. R = G \ W /\ V = NamedBy(read) \cap R
  OBVIOUS
<1>2. /\ W \subseteq G /\ G \subseteq blobs
      /\ \A x \in W \cup (blobs \ G) : \E k \in Key : mem[k] # None /\ x \in Needs[mem[k]]
  BY DEF CleanInv
<1>3. V \subseteq R /\ R \subseteq blobs /\ blobs \ R = W \cup (blobs \ G)
  BY <1>1, <1>2
<1>4. ASSUME NEW x \in V \cup (blobs \ R)
      PROVE  \E k \in Key : mem[k] # None /\ x \in Needs[mem[k]]
  <2>1. CASE x \in V
    <3>1. PICK m \in W \cap Manifest : x \in Names(m)
      BY <1>1, <2>1 DEF NamedBy
    <3>2. PICK k \in Key : mem[k] # None /\ m \in Needs[mem[k]]
      BY <1>2
    <3>3. mem[k] \in Digest
      BY <3>2, LayoutAssumption
    <3>4. Closed(Needs[mem[k]])
      BY <3>3, NeedsIsLeast
    <3>5. x \in Needs[mem[k]]
      BY <3>1, <3>2, <3>4 DEF Closed
    <3> QED
      BY <3>2, <3>5
  <2>2. CASE x \in blobs \ R
    BY <1>2, <1>3, <2>2
  <2> QED
    BY <2>1, <2>2
<1>5. ASSUME ~use.readFaults
      PROVE  /\ \A k \in Key : mem[k] # None /\ mem[k] \in R => mem[k] \in V
             /\ \A m \in Manifest \cap (blobs \ R) : Names(m) \cap R \subseteq V
  <2>1. /\ \A k \in Key : mem[k] # None /\ mem[k] \in G => mem[k] \in W
        /\ \A m \in Manifest \cap (blobs \ G) : Names(m) \cap G \subseteq W
    BY <1>5 DEF CleanInv
  <2>2. \A k \in Key : mem[k] # None /\ mem[k] \in R => mem[k] \in V
    BY <1>1, <2>1
  <2>3. ASSUME NEW m \in Manifest \cap (blobs \ R) PROVE Names(m) \cap R \subseteq V
    <3>1. CASE m \in W
      BY <1>1, <1>5, <3>1 DEF NamedBy
    <3>2. CASE m \notin W
      <4>1. m \in blobs \ G
        BY <1>3, <3>2
      <4>2. Names(m) \cap G \subseteq W
        BY <2>1, <4>1
      <4> QED
        BY <1>1, <4>2
    <3> QED
      BY <3>1, <3>2
  <2> QED
    BY <2>2, <2>3
<1> QED
  BY <1>3, <1>4, <1>5 DEF CleanInv

LEMMA MarkCleans ==
  ASSUME Invariant, use' = use, NEW j \in Job, Mark(j)
  PROVE  Cleans /\ blobs' = blobs
<1>1. Typed /\ WholeInv
  BY DEF Invariant
<1>2. /\ plan[j] # <<>> /\ plan[j][1].do = "walk"
      /\ UNCHANGED <<blobs, disk, index, versions, mem, cmd, art, tries, failed, haul, half>>
  BY DEF Mark, Doing, diskVars, jobVars
<1>3. cmd = "remove"
  BY <1>2, WhoWorks, AddWork, LoadWork
<1>4. PICK W, G : W = plan[j][1].what /\ G = plan[j][2].what
  OBVIOUS
<1>5. j = First /\ mem = index /\ plan[j] = <<Step("walk", W), Step("sweep", G)>> /\ CleanInv(W, G)
  BY <1>2, <1>3, <1>4, RemoveWork
<1>6. PICK read : /\ read \subseteq W \cap Manifest /\ (~use.readFaults => read = W \cap Manifest)
                  /\ plan' = [plan EXCEPT ![j] =
                       Cleaning(NamedBy(read) \cap (G \ W), G \ W) \o Tail(Tail(plan[j]))]
  <2>1. CASE use.readFaults
    BY <1>4, <2>1 DEF Mark, NamedBy
  <2>2. CASE ~use.readFaults
    BY <1>4, <2>2 DEF Mark, NamedBy
  <2> QED
    BY <2>1, <2>2
<1>7. PICK R, V, q : R = G \ W /\ V = NamedBy(read) \cap R /\ q = Cleaning(V, R)
  OBVIOUS
<1>8. plan' = [plan EXCEPT ![First] = q]
  <2>1. Tail(Tail(plan[j])) = <<>>
    <3>1. PICK s, t : s = Step("walk", W) /\ t = Step("sweep", G)
      OBVIOUS
    <3>2. Tail(<<s, t>>) = <<t>> /\ Tail(<<t>>) = <<>>
      OBVIOUS
    <3> QED
      BY <1>5, <3>1, <3>2
  <2>2. q \o <<>> = q
    <3>1. PICK s, t, S : s = Step("walk", V) /\ t = Step("sweep", R) /\ S = {s, t}
      OBVIOUS
    <3>2. q \in {<<>>, <<t>>, <<s, t>>}
      <4>1. V \subseteq R
        BY <1>7
      <4> QED
        BY <1>7, <3>1, <4>1, CleaningShape
    <3>3. <<>> \in Seq(S) /\ <<t>> \in Seq(S) /\ <<s, t>> \in Seq(S)
      BY <3>1
    <3>4. q \in Seq(S)
      BY <3>2, <3>3
    <3> QED
      BY ONLY <3>4, ConcatEmptySeq
  <2> QED
    BY <1>5, <1>6, <1>7, <2>1, <2>2
<1>9. CleanInv(V, R)'
  <2>1. mem \in [Key -> Manifest \cup {None}]
    BY <1>1 DEF Typed
  <2>2. CleanInv(V, R)
    <3>1. /\ CleanInv(W, G) /\ read \subseteq W \cap Manifest /\ (~use.readFaults => read = W \cap Manifest)
          /\ R = G \ W /\ V = NamedBy(read) \cap R
      BY <1>5, <1>6, <1>7
    <3> QED
      BY ONLY <2>1, <3>1, MarkIsClean
  <2> QED
    BY <1>2, <2>2 DEF CleanInv
<1>10. \E X, H : plan' = [plan EXCEPT ![First] = Cleaning(X, H)] /\ CleanInv(X, H)'
  BY <1>7, <1>8, <1>9 DEF CleanInv
<1> QED
  BY <1>2, <1>3, <1>5, <1>10 DEF Cleans

(* Sweeping takes nothing that an entry needs.                             *)
LEMMA SweepSpares ==
  ASSUME Invariant, cmd = "remove", NEW G, CleanInv({}, G), Undisturbed, NEW k \in Key, mem[k] # None,
         Needs[mem[k]] \subseteq blobs
  PROVE  Needs[mem[k]] \cap G = {}
<1>1. mem[k] \in Digest
  BY LayoutAssumption DEF Invariant, Typed
<1>2. mem[k] \in blobs
  BY <1>1, NeedsIsLeast
<1>3. mem[k] \notin G /\ \A m \in Manifest \cap (blobs \ G) : Names(m) \cap G = {}
  BY <1>2 DEF CleanInv, Undisturbed
<1> QED
  BY <1>1, <1>3, MarkedNeeds

LEMMA SweepCleans ==
  ASSUME Invariant, use' = use, NEW j \in Job, NEW d \in Digest, Sweep(j, d)
  PROVE  /\ Cleans /\ blobs' \subseteq blobs
         /\ Undisturbed => \A k \in Key : mem[k] # None /\ Needs[mem[k]] \subseteq blobs
                                           => Needs[mem[k]] \subseteq blobs'
<1>1. Typed /\ WholeInv
  BY DEF Invariant
<1>2. PICK G, q : G = plan[j][1].what /\ q = Done(plan[j], d)
  OBVIOUS
<1>3. /\ plan[j] # <<>> /\ plan[j][1].do = "sweep" /\ d \in G /\ blobs' = blobs \ {d}
      /\ plan' = [plan EXCEPT ![j] = q]
      /\ UNCHANGED <<disk, index, versions, mem, cmd, art, tries, failed, haul, half>>
  BY <1>2 DEF Sweep, Doing, Did, jobVars
<1>4. cmd = "remove"
  BY <1>3, WhoWorks, AddWork, LoadWork
<1>5. j = First /\ mem = index /\ plan[j] = <<Step("sweep", G)>> /\ CleanInv({}, G)
  BY <1>2, <1>3, <1>4, RemoveWork
<1>6. q = Cleaning({}, G \ {d})
  <2>1. PICK s, t : s = Step("sweep", G) /\ t = Step("sweep", G \ {d})
    OBVIOUS
  <2>2. /\ plan[j] = <<s>> /\ plan[j][1] = s /\ Tail(plan[j]) = <<>> /\ [plan[j] EXCEPT ![1] = t] = <<t>>
        /\ s.do = "sweep" /\ s.what = G
    <3>1. plan[j] = <<s>>
      BY <1>5, <2>1
    <3>2. Tail(<<s>>) = <<>> /\ [<<s>> EXCEPT ![1] = t] = <<t>> /\ <<s>>[1] = s
      OBVIOUS
    <3> QED
      BY <2>1, <3>1, <3>2 DEF Step
  <2>3. q = IF G = {d} THEN <<>> ELSE <<t>>
    BY <1>2, <2>1, <2>2 DEF Done
  <2>4. Cleaning({}, G \ {d}) = IF G \ {d} = {} THEN <<>> ELSE <<t>>
    BY <2>1, CleaningShape
  <2> QED
    BY <1>3, <2>3, <2>4
<1>7. CleanInv({}, G \ {d})'
  <2>1. G \ {d} \subseteq blobs' /\ blobs' \ (G \ {d}) = blobs \ G
    BY <1>3, <1>5 DEF CleanInv
  <2> QED
    BY <1>3, <1>5, <2>1 DEF CleanInv
<1>8. \E X, H : plan' = [plan EXCEPT ![First] = Cleaning(X, H)] /\ CleanInv(X, H)'
  <2>1. PICK H : H = G \ {d}
    OBVIOUS
  <2>2. plan' = [plan EXCEPT ![First] = Cleaning({}, H)]
    BY <1>3, <1>5, <1>6, <2>1
  <2>3. PICK X : X = {}
    OBVIOUS
  <2>4. CleanInv(X, H)'
    BY <1>3, <1>7, <2>1, <2>3 DEF CleanInv
  <2>5. plan' = [plan EXCEPT ![First] = Cleaning(X, H)]
    BY <2>2, <2>3
  <2> QED
    BY <2>4, <2>5, Zenon
<1>9. ASSUME Undisturbed, NEW k \in Key, mem[k] # None, Needs[mem[k]] \subseteq blobs
      PROVE  Needs[mem[k]] \subseteq blobs'
  BY <1>3, <1>4, <1>5, <1>9, SweepSpares
<1> QED
  BY <1>3, <1>4, <1>5, <1>8, <1>9 DEF Cleans

(* A CleanUp that stops leaves the remove with nothing to do.              *)
LEMMA CleanUpStopsIs ==
  ASSUME Invariant, NEW j \in Job, CleanUpStops(j)
  PROVE  /\ cmd = "remove" /\ j = First /\ plan[First] # <<>> /\ plan[First][1].do # "drop"
         /\ plan' = [plan EXCEPT ![First] = <<>>] /\ plan'[First] = <<>>
         /\ UNCHANGED <<blobs, disk, index, versions, mem, cmd, art, tries, failed, haul, half>>
<1>1. /\ plan[j] # <<>> /\ plan[j][1].do \in {"clean", "walk", "sweep"}
      /\ plan' = [plan EXCEPT ![j] = <<>>]
      /\ UNCHANGED <<blobs, disk, index, versions, mem, cmd, art, tries, failed, haul, half>>
  BY DEF CleanUpStops, Doing, diskVars, jobVars
<1>2. cmd = "remove" /\ j = First
  BY <1>1, WhoWorks, AddWork, LoadWork, RemoveWork
<1>3. plan = [i \in Job |-> plan[i]] /\ First \in Job
  BY LayoutAssumption DEF Invariant, Typed
<1> QED
  BY <1>1, <1>2, <1>3

LEMMA CleanUpStopsKeeps ==
  ASSUME Invariant, use' = use, NEW j \in Job, CleanUpStops(j)
  PROVE  Invariant'
<1>1. Typed /\ WholeInv
  BY DEF Invariant
<1>2. /\ cmd = "remove" /\ plan' = [plan EXCEPT ![First] = <<>>]
      /\ UNCHANGED <<blobs, disk, index, versions, mem, cmd, art, tries, failed, haul, half>>
  BY CleanUpStopsIs
<1>3. AddInv' /\ LoadInv' /\ RemoveInv'
  BY <1>2, RemoveFrame
<1>4. Typed'
  BY <1>1, <1>2 DEF Typed
<1>5. WholeInv'
  <2>1. \A k, n : WholeOrHalf(k, n) => WholeNext(k, n)
    BY <1>2 DEF WholeOrHalf, WholeNext
  <2> QED
    BY <1>1, <1>2, <2>1, WholeFrame
<1> QED
  BY <1>3, <1>4, <1>5 DEF Invariant

LEMMA StepFailsKeeps ==
  ASSUME Invariant, use' = use, NEW j \in Job, StepFails(j)
  PROVE  Invariant'
<1>1. Typed /\ AddInv /\ LoadInv /\ WholeInv
  BY DEF Invariant
<1>2. plan[j] # <<>> /\ Fail(j) /\ UNCHANGED <<blobs, disk, index, versions, mem, half>>
  BY DEF StepFails, Doing, diskVars
<1>3. cmd = "add" => KeptNames /\ AddedAhead
  BY <1>1, <1>2 DEF AddInv, KeptNames, AddedAhead
<1>4. cmd = "load" => LoadedAhead
  BY <1>1, <1>2 DEF LoadInv, LoadedAhead
<1>5. /\ cmd' = cmd /\ art' = art /\ haul' = haul /\ plan' = [i \in Job |-> plan'[i]]
      /\ AddInv' /\ LoadInv' /\ RemoveInv'
  BY <1>2, <1>3, <1>4, FailKeeps
<1>6. cmd # "none"
  BY <1>2, WhoWorks
<1>7. Typed'
  BY <1>1, <1>2, <1>5, <1>6 DEF Typed
<1>8. WholeInv'
  <2>1. \A k, n : WholeOrHalf(k, n) => WholeNext(k, n)
    BY <1>2 DEF WholeOrHalf, WholeNext
  <2> QED
    BY <1>1, <1>2, <2>1, WholeFrame
<1> QED
  BY <1>5, <1>7, <1>8 DEF Invariant
-----------------------------------------------------------------------------
(* The commands.                                                           *)

LEMMA StartKeeps ==
  ASSUME Invariant, use' = use, NEW c, NEW a, NEW h, NEW p, Start(c, a, h, p)
  PROVE  /\ WholeInv' /\ mem' = index' /\ cmd = "none" /\ cmd' = c /\ art' = a /\ haul' = h /\ plan' = p
         /\ UNCHANGED <<blobs, disk, index, versions, failed, half>>
         /\ index \in [Key -> Manifest \cup {None}]
<1>1. /\ mem' = index /\ cmd = "none" /\ cmd' = c /\ art' = a /\ haul' = h /\ plan' = p
      /\ UNCHANGED <<blobs, disk, index, versions, failed, half>>
  BY DEF Start, diskVars
<1>2. WholeInv'
  <2>1. \A k, n : WholeOrHalf(k, n) => WholeNext(k, n)
    BY <1>1 DEF WholeOrHalf, WholeNext
  <2>2. \A k \in Key : index'[k] \in {index[k], mem[k]} /\ mem'[k] \in {index[k], mem[k]}
    BY <1>1
  <2> QED
    BY <2>1, <2>2, WholeFrame DEF Invariant
<1> QED
  BY <1>1, <1>2 DEF Invariant, Typed

LEMMA AddCmdKeeps ==
  ASSUME Invariant, use' = use, AddCmd
  PROVE  Invariant'
<1>1. PICK a \in [Job -> use.artifacts \cup {None}] :
        Start("add", a, {}, [j \in Job |-> IF a[j] = None THEN <<>> ELSE AddPlan(a[j])])
  BY DEF AddCmd
<1>2. /\ WholeInv' /\ mem' = index' /\ cmd' = "add" /\ art' = a /\ haul' = {}
      /\ plan' = [j \in Job |-> IF a[j] = None THEN <<>> ELSE AddPlan(a[j])]
      /\ UNCHANGED <<blobs, disk, index, versions, failed, half>>
  BY <1>1, StartKeeps
<1>3. Typed
  BY DEF Invariant
<1>4. Typed'
  BY <1>2, <1>3 DEF Typed
<1>5. ASSUME NEW j \in Job, a[j] # None
      PROVE  /\ plan'[j] = AddPlan(a[j]) /\ plan'[j] \in Seq(AddStep(a[j])) /\ \A B : Backed(plan'[j], B)
             /\ Needs[a[j].root] \subseteq All(plan'[j]) /\ Has(plan'[j], "add", Image(a[j]))
  <2>1. plan'[j] = AddPlan(a[j])
    BY <1>2, <1>5
  <2>2. a[j].root \in Manifest /\ a[j].image \in BOOLEAN /\ (~a[j].image => Children[a[j].root] = <<>>)
    <3>1. a[j] \in use.artifacts /\ use \in Uses
      BY <1>3, <1>5 DEF Typed
    <3> QED
      BY <3>1, UsesAssumption
  <2> QED
    BY <2>1, <2>2, AddPlanFacts
<1>6. \A j \in Job : a[j] = None => plan'[j] = <<>>
  BY <1>2
<1>7. AddInv'
  BY <1>2, <1>5, <1>6 DEF AddInv
<1> QED
  BY <1>2, <1>4, <1>7 DEF Invariant, LoadInv, RemoveInv

LEMMA LoadCmdKeeps ==
  ASSUME Invariant, use' = use, LoadCmd
  PROVE  Invariant'
<1>1. PICK h \in use.hauls : Start("load", Nothing, h, Alone(<<Step("copy", h)>>))
  BY DEF LoadCmd
<1>2. PICK p : p = <<Step("copy", h)>>
  OBVIOUS
<1>3. /\ WholeInv' /\ mem' = index' /\ cmd' = "load" /\ art' = Nothing /\ haul' = h
      /\ plan' = Alone(p)
      /\ UNCHANGED <<blobs, disk, index, versions, failed, half>>
  BY <1>1, <1>2, StartKeeps
<1>4. Typed
  BY DEF Invariant
<1>5. h \subseteq Entry /\ \A e, f \in h : e[1] = f[1] => e = f
  BY <1>4, UsesAssumption DEF Typed
<1>6. First \in Job /\ plan' = [j \in Job |-> IF j = First THEN p ELSE <<>>]
  BY <1>3, LayoutAssumption DEF Alone
<1>7. Typed'
  <2>1. art' \in [Job -> use.artifacts \cup {None}]
    BY <1>3 DEF Nothing
  <2> QED
    BY <1>3, <1>4, <1>5, <1>6, <2>1 DEF Typed
<1>8. plan'[First] = p /\ \A j \in Job \ {First} : plan'[j] = <<>>
  BY <1>6
<1>9. p \in Seq(LoadStep(h)) /\ \A e \in h : Has(p, "copy", e)
  <2>1. PICK s : s = Step("copy", h)
    OBVIOUS
  <2>2. s \in LoadStep(h) /\ s.do = "copy" /\ s.what = h
    BY <2>1 DEF LoadStep, Step
  <2>3. <<s>> \in Seq(LoadStep(h)) /\ \A do, e : Has(<<s>>, do, e) <=> s.do = do /\ e \in s.what
    BY ONLY <2>2, OneFacts
  <2> QED
    BY <1>2, <2>1, <2>2, <2>3
<1>10. LoadInv'
  BY <1>3, <1>8, <1>9 DEF LoadInv
<1> QED
  BY <1>3, <1>7, <1>10 DEF Invariant, AddInv, RemoveInv

LEMMA RemoveCmdKeeps ==
  ASSUME Invariant, use' = use, RemoveCmd
  PROVE  Invariant'
<1>1. PICK K \in SUBSET Key :
        Start("remove", Nothing, {}, Alone(<<Step("drop", K), Step("clean", {None})>>))
  BY DEF RemoveCmd
<1>2. PICK p : p = <<Step("drop", K), Step("clean", {None})>>
  OBVIOUS
<1>3. /\ WholeInv' /\ mem' = index' /\ cmd' = "remove" /\ art' = Nothing /\ haul' = {}
      /\ plan' = Alone(p)
      /\ UNCHANGED <<blobs, disk, index, versions, failed, half>>
  BY <1>1, <1>2, StartKeeps
<1>4. Typed
  BY DEF Invariant
<1>5. First \in Job /\ plan' = [j \in Job |-> IF j = First THEN p ELSE <<>>]
  BY <1>3, LayoutAssumption DEF Alone
<1>6. Typed'
  <2>1. art' \in [Job -> use.artifacts \cup {None}]
    BY <1>3 DEF Nothing
  <2> QED
    BY <1>3, <1>4, <1>5, <2>1 DEF Typed
<1>7. plan'[First] = p /\ \A j \in Job \ {First} : plan'[j] = <<>>
  BY <1>5
<1>8. p[1].what = K
  <2>1. p[1] = Step("drop", K)
    BY <1>2
  <2> QED
    BY <2>1 DEF Step
<1>9. RemoveInv'
  BY <1>2, <1>3, <1>7, <1>8 DEF RemoveInv
<1> QED
  BY <1>3, <1>6, <1>9 DEF Invariant, AddInv, LoadInv

(* A command that ends, or is ended: the next process starts from          *)
(* index.json.                                                             *)
LEMMA EndKeeps ==
  ASSUME Invariant, use' = use, EndProcess, plan' = [j \in Job |-> <<>>],
         blobs' \subseteq Digest, disk' \subseteq Digest, versions' \subseteq [Key -> Manifest \cup {None}],
         index' \in [Key -> Manifest \cup {None}],
         Undisturbed => blobs' = blobs /\ index' \in {index, mem}
  PROVE  Invariant'
<1>1. Typed /\ WholeInv
  BY DEF Invariant
<1>2. /\ cmd' = "none" /\ art' = Nothing /\ haul' = {} /\ mem' = EmptyMap
      /\ half' = {e \in half : index'[e[1]] = e[2]}
  BY DEF EndProcess
<1>3. art' \in [Job -> use.artifacts \cup {None}]
  BY <1>2 DEF Nothing
<1>4. mem' \in [Key -> Manifest \cup {None}] /\ \A k \in Key : mem'[k] = None
  BY <1>2 DEF EmptyMap
<1>5. Typed'
  BY <1>1, <1>2, <1>3, <1>4 DEF Typed
<1>6. WholeInv'
  <2>1. ASSUME Undisturbed, NEW k \in Key, NEW m \in {index'[k], mem'[k]}, m # None
        PROVE  m \in {index[k], mem[k]} /\ (WholeOrHalf(k, m) => WholeNext(k, m))
    <3>1. m = index'[k] /\ blobs' = blobs /\ index' \in {index, mem}
      BY <1>4, <2>1
    <3>2. WholeOrHalf(k, m) => WholeNext(k, m)
      BY <1>2, <3>1 DEF WholeOrHalf, WholeNext
    <3> QED
      BY <3>1, <3>2
  <2> QED
    BY <1>1, <2>1, WholeFrame
<1> QED
  BY <1>2, <1>5, <1>6 DEF Invariant, AddInv, LoadInv, RemoveInv

LEMMA EndsKeep ==
  ASSUME Invariant, use' = use, EndAdd(TRUE) \/ EndAdd(FALSE) \/ End \/ Kill \/ PowerLoss
  PROVE  Invariant'
<1>1. /\ blobs \subseteq Digest /\ disk \subseteq Digest /\ versions \subseteq [Key -> Manifest \cup {None}]
      /\ index \in [Key -> Manifest \cup {None}] /\ mem \in [Key -> Manifest \cup {None}]
      /\ plan = [j \in Job |-> plan[j]]
  BY DEF Invariant, Typed
<1>2. Finished => plan = [j \in Job |-> <<>>]
  BY <1>1 DEF Finished
<1>3. CASE EndAdd(TRUE)
  <2>1. /\ EndProcess /\ plan' = [j \in Job |-> <<>>] /\ blobs' = blobs /\ disk' = disk
        /\ versions' = {mem} /\ index' = mem
    BY <1>2, <1>3 DEF EndAdd, Put
  <2> QED
    BY <1>1, <2>1, EndKeeps
<1>4. CASE EndAdd(FALSE)
  <2>1. /\ EndProcess /\ plan' = [j \in Job |-> <<>>] /\ blobs' = blobs /\ disk' = disk
        /\ versions' \subseteq versions \cup {mem} /\ index' \in {index, mem}
    BY <1>2, <1>4 DEF EndAdd, Put
  <2> QED
    BY <1>1, <2>1, EndKeeps
<1>5. CASE End \/ Kill
  <2>1. /\ EndProcess /\ plan' = [j \in Job |-> <<>>] /\ blobs' = blobs /\ disk' = disk
        /\ versions' = versions /\ index' = index
    BY <1>2, <1>5 DEF End, Kill, diskVars
  <2> QED
    BY <1>1, <2>1, EndKeeps
<1>6. CASE PowerLoss
  <2>1. /\ EndProcess /\ plan' = [j \in Job |-> <<>>] /\ blobs' \subseteq Digest /\ disk' = blobs'
        /\ versions' = {index'} /\ index' \in versions /\ ~Undisturbed
    BY <1>1, <1>6 DEF PowerLoss, Undisturbed
  <2> QED
    BY <1>1, <2>1, EndKeeps
<1> QED
  BY <1>3, <1>4, <1>5, <1>6
-----------------------------------------------------------------------------
LEMMA InitInvariant == Init => Invariant
<1> SUFFICES ASSUME Init PROVE Invariant
  OBVIOUS
<1>1. EmptyMap \in [Key -> Manifest \cup {None}] /\ \A k \in Key : EmptyMap[k] = None
  BY DEF EmptyMap
<1>2. Typed
  BY <1>1 DEF Init, Typed
<1>3. WholeInv
  BY <1>1 DEF Init, WholeInv
<1> QED
  BY <1>2, <1>3 DEF Init, Invariant, AddInv, LoadInv, RemoveInv

LEMMA StutterKeeps == Invariant /\ UNCHANGED vars => Invariant'
<1> SUFFICES ASSUME Invariant, UNCHANGED vars PROVE Invariant'
  OBVIOUS
<1>1. UNCHANGED <<use, blobs, disk, index, versions, mem, cmd, art, plan, tries, failed, haul, half>>
  BY DEF vars
<1>2. Typed' /\ AddInv' /\ LoadInv' /\ RemoveInv' /\ WholeInv'
  <2>1. Typed'
    BY <1>1 DEF Invariant, Typed
  <2>2. AddInv'
    BY <1>1 DEF Invariant, AddInv, Artifacts
  <2>3. LoadInv' /\ RemoveInv' /\ WholeInv'
    BY <1>1 DEF Invariant, LoadInv, RemoveInv, WholeInv, CleanInv, Undisturbed, WholeOrHalf
  <2> QED
    BY <2>1, <2>2, <2>3
<1> QED
  BY <1>2 DEF Invariant

LEMMA NextInvariant == Invariant /\ [Next]_vars => Invariant'
<1> SUFFICES ASSUME Invariant, Next PROVE Invariant'
  BY StutterKeeps
<1>1. use' = use
  BY DEF Next
<1>2. ASSUME NEW j \in Job, JobStep(j) PROVE Invariant'
  <2>1. CASE \E d \in Digest : WriteBlob(j, d) \/ Sweep(j, d)
    BY <1>1, <2>1, WriteBlobKeeps, SweepCleans, CleansKeeps
  <2>2. CASE \E x \in Extra \X Manifest : FetchExtra(j, x)
    BY <1>1, <2>2, FetchExtraKeeps
  <2>3. CASE \E e \in Entry : AddIndex(j, e) \/ Copy(j, e) \/ MarkRoot(j, e)
    BY <1>1, <2>3, AddIndexKeeps, CopyKeeps, MarkRootKeeps
  <2>4. CASE \E k \in Key : RemoveArtifact(j, k)
    BY <1>1, <2>4, RemoveArtifactKeeps
  <2>5. CASE \E m \in Manifest : ReadManifest(j, m)
    BY <1>1, <2>5, ReadManifestKeeps
  <2>6. CASE CleanUp(j) \/ Mark(j)
    BY <1>1, <2>6, CleanUpCleans, MarkCleans, CleansKeeps
  <2>7. CASE CleanUpStops(j) \/ StepFails(j)
    BY <1>1, <2>7, CleanUpStopsKeeps, StepFailsKeeps
  <2> QED
    BY <1>2, <2>1, <2>2, <2>3, <2>4, <2>5, <2>6, <2>7 DEF JobStep
<1>3. CASE AddCmd \/ LoadCmd \/ RemoveCmd
  BY <1>1, <1>3, AddCmdKeeps, LoadCmdKeeps, RemoveCmdKeeps
<1>4. CASE EndAdd(TRUE) \/ EndAdd(FALSE) \/ End \/ Kill \/ PowerLoss
  BY <1>1, <1>4, EndsKeep
<1> QED
  BY <1>2, <1>3, <1>4 DEF Next, Operation
LEMMA AlwaysInvariant == Spec => []Invariant
<1>1. Init => Invariant
  BY InitInvariant
<1>2. Invariant /\ [Next]_vars => Invariant'
  BY NextInvariant
<1> QED
  BY <1>1, <1>2, PTL DEF Spec
-----------------------------------------------------------------------------
(* Whoever looks at the store at any moment finds every blob of every      *)
(* artifact in index.json, whatever is added, loaded, removed or retried   *)
(* concurrently and wherever a process is killed, as long as CleanUp can   *)
(* read what is there and the power stays (EntriesComplete).               *)
THEOREM EntriesAreComplete == Spec => []EntriesComplete
<1>1. Invariant => EntriesComplete
  BY DEF Invariant, WholeInv, WholeOrHalf, EntriesComplete, EntriesWhole
<1> QED
  BY <1>1, AlwaysInvariant, PTL

(* A load that reports success has left every artifact of its haul in the  *)
(* store, index entry and blobs (LoadIsWhole).                             *)
THEOREM LoadsAreWhole == Spec => LoadIsWhole
<1> DEFINE A == End /\ cmd = "load" /\ failed = {} =>
                  \A e \in haul : index'[e[1]] = e[2] /\ Needs[e[2]] \subseteq blobs'
<1>1. Invariant /\ [Next]_vars => A
  <2> SUFFICES ASSUME Invariant, End, cmd = "load", failed = {}, NEW e \in haul
               PROVE  index'[e[1]] = e[2] /\ Needs[e[2]] \subseteq blobs'
    OBVIOUS
  <2>1. plan[First] = <<>> /\ index' = index /\ blobs' = blobs
    BY LayoutAssumption DEF End, Finished, diskVars
  <2>2. \/ Has(plan[First], "copy", e)
        \/ /\ Has(plan[First], "mark", e) \/ index[e[1]] = e[2]
           /\ Needs[e[2]] \subseteq blobs \cup All(plan[First])
    BY DEF Invariant, LoadInv
  <2> QED
    BY <2>1, <2>2, EmptyFacts
<1>2. Invariant /\ [Next]_vars => [A]_vars
  BY <1>1
<1> QED
  BY <1>2, AlwaysInvariant, PTL DEF Spec, LoadIsWhole

(* When an add or a sync has ended, what each job that reported success    *)
(* was to add is whole, and in nameMap unless another job of the command   *)
(* added another artifact under its name.                                  *)
LEMMA AddedIsThere ==
  ASSUME Invariant, cmd = "add", Finished, NEW j \in Job \ failed, art[j] # None
  PROVE  /\ Needs[art[j].root] \subseteq blobs
         /\ \E i \in Sharing(j) : mem[KeyOf(art[j])] = art[i].root
<1>1. plan[j] = <<>>
  BY DEF Finished
<1>2. /\ Needs[art[j].root] \subseteq blobs \cup All(plan[j])
      /\ \/ Has(plan[j], "add", Image(art[j]))
         \/ \E a \in Artifacts : KeyOf(a) = KeyOf(art[j]) /\ mem[KeyOf(a)] = a.root
  BY DEF Invariant, AddInv
<1>3. PICK a \in Artifacts : KeyOf(a) = KeyOf(art[j]) /\ mem[KeyOf(a)] = a.root
  BY <1>1, <1>2, EmptyFacts
<1>4. PICK i \in Job : art[i] # None /\ a = art[i]
  BY DEF Artifacts
<1> QED
  BY <1>1, <1>2, <1>3, <1>4, EmptyFacts DEF Sharing

(* Adding an artifact again repairs it: every blob of what a job added is  *)
(* in the store when it reports success, after whatever power losses,      *)
(* broken off loads and unreadable manifests (AddRepairs).                 *)
THEOREM AddsRepair == Spec => AddRepairs
<1> DEFINE A == EndAdd(TRUE) \/ EndAdd(FALSE) =>
                  \A j \in Job \ failed : art[j] # None => Needs[art[j].root] \subseteq blobs'
<1>1. Invariant /\ [Next]_vars => A
  <2> SUFFICES ASSUME Invariant, EndAdd(TRUE) \/ EndAdd(FALSE), NEW j \in Job \ failed, art[j] # None
               PROVE  Needs[art[j].root] \subseteq blobs'
    OBVIOUS
  <2>1. cmd = "add" /\ Finished /\ blobs' = blobs
    BY DEF EndAdd
  <2> QED
    BY <2>1, AddedIsThere
<1>2. Invariant /\ [Next]_vars => [A]_vars
  BY <1>1
<1> QED
  BY <1>2, AlwaysInvariant, PTL DEF Spec, AddRepairs
(* When a CleanUp has run to its end the store holds no blob that no       *)
(* artifact needs (NoGarbageLeft).                                         *)
THEOREM NoGarbageIsLeft == Spec => NoGarbageLeft
<1> DEFINE A == \A j \in Job :
                  (CleanUp(j) \/ Mark(j) \/ \E d \in Digest : Sweep(j, d)) /\ plan'[j] = <<>>
                  => \A d \in blobs' : \E k \in Key : index[k] # None /\ d \in Needs[index[k]]
<1>1. Invariant /\ Next => A
  <2> SUFFICES ASSUME Invariant, Next, NEW j \in Job,
                      CleanUp(j) \/ Mark(j) \/ \E x \in Digest : Sweep(j, x),
                      plan'[j] = <<>>, NEW d \in blobs'
               PROVE  \E k \in Key : index[k] # None /\ d \in Needs[index[k]]
    OBVIOUS
  <2>1. Cleans
    BY CleanUpCleans, MarkCleans, SweepCleans DEF Next
  <2>2. PICK W, G : plan' = [plan EXCEPT ![First] = Cleaning(W, G)] /\ CleanInv(W, G)'
    BY <2>1 DEF Cleans
  <2>3. W \subseteq G /\ \A x \in blobs' \ G : \E k \in Key : mem'[k] # None /\ x \in Needs[mem'[k]]
    BY <2>2 DEF CleanInv
  <2>4. Cleaning(W, G) = <<>>
    <3>1. j = First
      <4>1. plan[j] # <<>> /\ cmd = "remove"
        BY <2>1 DEF CleanUp, Mark, Sweep, Doing, Cleans
      <4> QED
        BY <4>1, RemoveWork
    <3>2. plan = [i \in Job |-> plan[i]]
      BY DEF Invariant, Typed
    <3>3. plan'[First] = Cleaning(W, G)
      BY <2>2, <3>1, <3>2
    <3> QED
      BY <3>1, <3>3
  <2>5. G = {}
    BY <2>3, <2>4, CleaningShape
  <2>6. mem' = index
    BY <2>1 DEF Cleans
  <2> QED
    BY <2>3, <2>5, <2>6
<1>2. Invariant /\ [Next]_vars => [A]_vars
  BY <1>1
<1> QED
  BY <1>2, AlwaysInvariant, PTL DEF Spec, NoGarbageLeft

(* What ChangesOnlyAsAsked says of a key when a step changes what can be   *)
(* handed out under it.                                                    *)
Change(k) ==
  \/ <<k, Usable(k)'>> \in Asked
  \/ /\ Usable(k)' = None
     /\ \/ Doing(First, "drop") /\ k \in plan[First][1].what
        \/ \E e \in haul : e[1] = k

LEMMA AskedFacts ==
  ASSUME NEW a \in Artifacts, NEW e \in AskedOf(a)
  PROVE  e \in Given /\ e \in Asked
<1>1. PICK j \in Job : art[j] # None /\ a = art[j]
  BY DEF Artifacts
<1>2. AskedOf(art[j]) \subseteq Given
  BY <1>1 DEF Given, AskedOf, Image
<1> QED
  BY <1>1, <1>2 DEF Asked

(* Entries that an add has put into nameMap are written into index.json.   *)
LEMMA MemIsAsked ==
  ASSUME Invariant, cmd = "add", NEW k \in Key, index'[k] = mem[k], blobs' = blobs,
         Usable(k)' # Usable(k)
  PROVE  Change(k) /\ <<k, Usable(k)'>> \in Given
<1>1. mem[k] # index[k]
  BY DEF Usable
<1>2. /\ mem[k] # None /\ Needs[mem[k]] \subseteq blobs
      /\ \E a \in Artifacts : <<k, mem[k]>> \in AskedOf(a)
  BY <1>1 DEF Invariant, AddInv
<1>3. Usable(k)' = mem[k]
  BY <1>2 DEF Usable
<1> QED
  BY <1>2, <1>3, AskedFacts DEF Change

LEMMA WriteChanges ==
  ASSUME Invariant, Undisturbed, NEW j \in Job, NEW d \in Digest, WriteBlob(j, d),
         NEW k \in Key, Usable(k)' # Usable(k)
  PROVE  Change(k)
<1>1. blobs' = blobs \cup {d} /\ index' = index
  BY DEF WriteBlob
<1>2. index[k] # None /\ ~(Needs[index[k]] \subseteq blobs) /\ Usable(k)' = index[k]
  BY <1>1 DEF Usable
<1>3. <<k, index[k]>> \in half
  BY <1>2 DEF Invariant, WholeInv, WholeOrHalf
<1> QED
  BY <1>2, <1>3 DEF Change, Asked

LEMMA SweepChanges ==
  ASSUME Invariant, Undisturbed, NEW j \in Job, NEW d \in Digest, Sweep(j, d), use' = use,
         NEW k \in Key
  PROVE  Usable(k)' = Usable(k)
<1>1. blobs' = blobs \ {d} /\ index' = index
  BY DEF Sweep
<1>2. mem = index /\ \A l \in Key : mem[l] # None /\ Needs[mem[l]] \subseteq blobs => Needs[mem[l]] \subseteq blobs'
  BY SweepCleans DEF Cleans
<1>3. index[k] # None => (Needs[index[k]] \subseteq blobs' <=> Needs[index[k]] \subseteq blobs)
  BY <1>1, <1>2
<1> QED
  BY <1>1, <1>3 DEF Usable

LEMMA AddIndexChanges ==
  ASSUME Invariant, NEW j \in Job, NEW e \in Entry, AddIndex(j, e),
         NEW k \in Key, Usable(k)' # Usable(k)
  PROVE  Change(k)
<1>1. plan[j] # <<>> /\ plan[j][1].do = "add" /\ e \in plan[j][1].what /\ blobs' = blobs
  BY DEF AddIndex, Doing
<1>2. cmd = "add"
  BY <1>1, WhoWorks, LoadWork, RemoveWork
<1>3. index' # index
  BY <1>1 DEF Usable
<1>4. index' = [mem EXCEPT ![e[1]] = e[2]]
  BY <1>3 DEF AddIndex, Save, SaveFails, Put
<1>5. mem \in [Key -> Manifest \cup {None}] /\ e[1] \in Key /\ e[2] \in Manifest /\ e = <<e[1], e[2]>>
  BY DEF Invariant, Typed, Entry
<1>6. CASE k = e[1]
  <2>1. /\ art[j] # None /\ plan[j][1] \in AddStep(art[j]) /\ plan[j] \in Seq(AddStep(art[j]))
        /\ Backed(plan[j], blobs)
    BY <1>1, <1>2, AddWork
  <2>2. art[j] \in Artifacts /\ e \in AskedOf(art[j])
    BY <1>1, <2>1 DEF AddStep, BlobStep, Artifacts
  <2>3. Needs[e[2]] \subseteq blobs
    BY <1>1, <2>1, ConsFacts
  <2>4. Usable(k)' = e[2]
    BY <1>1, <1>4, <1>5, <1>6, <2>3, LayoutAssumption DEF Usable
  <2>5. e \in Asked
    BY <2>2, AskedFacts
  <2> QED
    BY <1>5, <1>6, <2>4, <2>5 DEF Change
<1>7. CASE k # e[1]
  <2>1. index'[k] = mem[k]
    BY <1>4, <1>5, <1>7
  <2> QED
    BY <1>1, <1>2, <2>1, MemIsAsked
<1> QED
  BY <1>6, <1>7

LEMMA MarkRootChanges ==
  ASSUME Invariant, NEW j \in Job, NEW e \in Entry, MarkRoot(j, e),
         NEW k \in Key, Usable(k)' # Usable(k)
  PROVE  Change(k)
<1>1. plan[j] # <<>> /\ plan[j][1].do = "mark" /\ e \in plan[j][1].what /\ blobs' = blobs
  BY DEF MarkRoot, Doing
<1>2. cmd = "load"
  BY <1>1, WhoWorks, AddWork, RemoveWork
<1>3. index' # index
  BY <1>1 DEF Usable
<1>4. index' = [Loaded EXCEPT ![e[1]] = e[2]]
  BY <1>3 DEF MarkRoot, Save, SaveFails, Put
<1>5. /\ Typed /\ e[1] \in Key /\ e[2] \in Manifest /\ e = <<e[1], e[2]>>
      /\ Loaded \in [Key -> Manifest \cup {None}]
      /\ \A l \in Key : Loaded[l] = IF index[l] # None THEN index[l] ELSE mem[l]
  BY LoadedFacts DEF Invariant, Entry
<1>6. e \in haul
  <2>1. plan[j][1] \in LoadStep(haul)
    BY <1>1, <1>2, LoadWork
  <2> QED
    BY <1>1, <2>1 DEF LoadStep, BlobStep
<1>7. ASSUME NEW m, <<k, m>> \in haul, Usable(k)' \in {m, None}
      PROVE  Change(k)
  <2>1. <<k, m>>[1] = k
    OBVIOUS
  <2> QED
    BY <1>7, <2>1 DEF Change, Asked, Given
<1>8. CASE k = e[1]
  <2>1. Usable(k)' \in {e[2], None}
    BY <1>4, <1>5, <1>8 DEF Usable
  <2>2. <<k, e[2]>> \in haul
    BY <1>5, <1>6, <1>8
  <2> QED
    BY <1>7, <2>1, <2>2
<1>9. CASE k # e[1]
  <2>1. index'[k] = Loaded[k]
    BY <1>4, <1>5, <1>9
  <2>2. index[k] = None /\ mem[k] # None /\ index'[k] = mem[k]
    BY <1>1, <1>5, <2>1 DEF Usable
  <2>3. <<k, mem[k]>> \in haul
    BY <1>2, <2>2 DEF Invariant, LoadInv
  <2>4. Usable(k)' \in {mem[k], None}
    BY <2>2 DEF Usable
  <2> QED
    BY <1>7, <2>3, <2>4
<1> QED
  BY <1>8, <1>9

LEMMA RemoveChanges ==
  ASSUME Invariant, NEW j \in Job, NEW l \in Key, RemoveArtifact(j, l),
         NEW k \in Key, Usable(k)' # Usable(k)
  PROVE  k = l /\ Usable(k)' = None /\ Doing(First, "drop") /\ k \in plan[First][1].what
<1>1. plan[j] # <<>> /\ plan[j][1].do = "drop" /\ l \in plan[j][1].what /\ blobs' = blobs
  BY DEF RemoveArtifact, Doing
<1>2. cmd = "remove"
  BY <1>1, WhoWorks, AddWork, LoadWork
<1>3. j = First /\ mem = index
  BY <1>1, <1>2, RemoveWork
<1>4. index' # index
  BY <1>1 DEF Usable
<1>5. index' = [Loaded EXCEPT ![l] = None]
  BY <1>4 DEF RemoveArtifact, Save, SaveFails, Put
<1>6. Loaded = index /\ index \in [Key -> Manifest \cup {None}]
  BY <1>3, LoadedFacts DEF Invariant, Typed
<1>7. k = l
  BY <1>1, <1>5, <1>6 DEF Usable
<1>8. Usable(k)' = None
  BY <1>5, <1>6, <1>7 DEF Usable
<1> QED
  BY <1>1, <1>3, <1>7, <1>8 DEF Doing

(* A step changes what can be pulled under a name only as the running      *)
(* command asked (ChangesOnlyAsAsked): retries, kills, clean-ups and other *)
(* jobs leave the artifacts it was not asked about alone.                  *)
THEOREM NothingElseChanges == Spec => ChangesOnlyAsAsked
<1> DEFINE A == Undisturbed => \A k \in Key : Usable(k)' # Usable(k) =>
                  \/ <<k, Usable(k)'>> \in Asked
                  \/ /\ Usable(k)' = None
                     /\ \/ Doing(First, "drop") /\ k \in plan[First][1].what
                        \/ \E e \in haul : e[1] = k
<1>1. Invariant /\ Next => A
  <2> SUFFICES ASSUME Invariant, Next, Undisturbed, NEW k \in Key, Usable(k)' # Usable(k)
               PROVE  Change(k)
    BY DEF Change
  <2>1. use' = use /\ ~(index' = index /\ blobs' = blobs)
    BY DEF Next, Usable
  <2>2. ASSUME NEW j \in Job, JobStep(j) PROVE Change(k)
    <3>1. ~(\E m \in Manifest : ReadManifest(j, m)) /\ ~(\E x \in Extra \X Manifest : FetchExtra(j, x))
          /\ ~CleanUp(j) /\ ~Mark(j) /\ ~CleanUpStops(j) /\ ~StepFails(j) /\ ~(\E e \in Entry : Copy(j, e))
      BY <2>1 DEF ReadManifest, FetchExtra, CleanUp, Mark, CleanUpStops, StepFails, Copy, diskVars
    <3>2. CASE \E d \in Digest : WriteBlob(j, d) \/ Sweep(j, d)
      BY <2>1, <3>2, WriteChanges, SweepChanges
    <3>3. CASE \E e \in Entry : AddIndex(j, e) \/ MarkRoot(j, e)
      BY <3>3, AddIndexChanges, MarkRootChanges
    <3>4. CASE \E l \in Key : RemoveArtifact(j, l)
      BY <3>4, RemoveChanges DEF Change
    <3> QED
      BY <2>2, <3>1, <3>2, <3>3, <3>4 DEF JobStep
  <2>3. ~(AddCmd \/ LoadCmd \/ RemoveCmd \/ End \/ Kill)
    BY <2>1 DEF AddCmd, LoadCmd, RemoveCmd, Start, End, Kill, diskVars
  <2>4. ~PowerLoss
    BY DEF PowerLoss, Undisturbed
  <2>5. CASE EndAdd(TRUE) \/ EndAdd(FALSE)
    <3>1. cmd = "add" /\ index'[k] = mem[k] /\ blobs' = blobs
      BY <2>1, <2>5 DEF EndAdd, Put
    <3> QED
      BY <3>1, MemIsAsked
  <2> QED
    BY <2>2, <2>3, <2>4, <2>5 DEF Next, Operation
<1>2. Invariant /\ [Next]_vars => [A]_vars
  BY <1>1
<1> QED
  BY <1>2, AlwaysInvariant, PTL DEF Spec, ChangesOnlyAsAsked
-----------------------------------------------------------------------------
(* Layout implements Catalog: every step of a job is a step of its Work,   *)
(* every start of a command its Begin, every end but a power loss its End. *)

(* What nothing is left of when another command runs, or none.             *)
CommandInv ==
  /\ cmd # "load" => haul = {}
  /\ cmd # "add" => art = Nothing
  /\ cmd = "none" => failed = {}

LEMMA JobFrame ==
  ASSUME NEW j \in Job, JobStep(j)
  PROVE  plan[j] # <<>> /\ cmd' = cmd /\ art' = art /\ haul' = haul /\ failed \subseteq failed'
<1> DEFINE Kept == UNCHANGED <<cmd, art, haul, failed>>
           Failed == UNCHANGED <<cmd, art, haul>> /\ failed \subseteq failed'
<1>1. Fail(j) => Failed
  BY DEF Fail
<1>2. Kept \/ Failed
  <2> USE DEF jobVars
  <2>1. CASE \E d \in Digest : WriteBlob(j, d) \/ Sweep(j, d)
    BY <2>1, Zenon DEF WriteBlob, Sweep
  <2>2. CASE \E x \in Extra \X Manifest : FetchExtra(j, x)
    BY <2>2 DEF FetchExtra
  <2>3. CASE \E e \in Entry : AddIndex(j, e) \/ Copy(j, e) \/ MarkRoot(j, e)
    <3>1. PICK e \in Entry : AddIndex(j, e) \/ Copy(j, e) \/ MarkRoot(j, e)
      BY <2>3
    <3>2. Kept \/ Fail(j)
      BY <3>1 DEF AddIndex, Copy, MarkRoot
    <3> QED
      BY <1>1, <3>2
  <2>4. CASE \E k \in Key : RemoveArtifact(j, k)
    <3>1. Kept \/ Fail(j)
      BY <2>4 DEF RemoveArtifact
    <3> QED
      BY <1>1, <3>1
  <2>5. CASE \E m \in Manifest : ReadManifest(j, m)
    BY <2>5 DEF ReadManifest
  <2>6. CASE CleanUp(j) \/ Mark(j)
    BY <2>6 DEF CleanUp, Mark
  <2>7. CASE CleanUpStops(j) \/ StepFails(j)
    BY <1>1, <2>7 DEF CleanUpStops, StepFails
  <2> QED
    BY <2>1, <2>2, <2>3, <2>4, <2>5, <2>6, <2>7 DEF JobStep
<1> QED
  BY <1>2 DEF JobStep

LEMMA CommandStays ==
  ASSUME Invariant, CommandInv, [Next]_vars
  PROVE  CommandInv'
<1>1. CASE AddCmd
  <2>1. PICK a, p : Start("add", a, {}, p)
    BY <1>1 DEF AddCmd
  <2> QED
    BY <2>1 DEF Start, CommandInv
<1>2. CASE LoadCmd
  <2>1. PICK h, p : Start("load", Nothing, h, p)
    BY <1>2 DEF LoadCmd
  <2> QED
    BY <2>1 DEF Start, CommandInv, Nothing
<1>3. CASE RemoveCmd
  <2>1. PICK p : Start("remove", Nothing, {}, p)
    BY <1>3 DEF RemoveCmd
  <2> QED
    BY <2>1 DEF Start, CommandInv, Nothing
<1>4. CASE EndAdd(TRUE) \/ EndAdd(FALSE) \/ End \/ Kill \/ PowerLoss
  <2>1. EndProcess
    BY <1>4 DEF EndAdd, End, Kill, PowerLoss
  <2> QED
    BY <2>1 DEF EndProcess, CommandInv, Nothing
<1>5. ASSUME NEW j \in Job, JobStep(j) PROVE CommandInv'
  <2>1. cmd' = cmd /\ art' = art /\ haul' = haul /\ cmd # "none"
    BY <1>5, JobFrame, WhoWorks
  <2> QED
    BY <2>1 DEF CommandInv, Nothing
<1>6. CASE UNCHANGED vars
  BY <1>6 DEF vars, CommandInv, Nothing
<1> QED
  BY <1>1, <1>2, <1>3, <1>4, <1>5, <1>6 DEF Next, Operation

(* What a job's step may change, by the command.                           *)
LEMMA JobChanges ==
  ASSUME Invariant, CommandInv, Undisturbed, use' = use, NEW j \in Job, JobStep(j),
         NEW k \in Key, Usable(k)' # Usable(k)
  PROVE  \/ cmd # "remove" /\ <<k, Usable(k)'>> \in Asked
         \/ Usable(k)' = None /\ k \in Dropping
         \/ Usable(k)' = None /\ cmd = "load" /\ \E e \in haul : e[1] = k
<1>1. ~(index' = index /\ blobs' = blobs)
  BY DEF Usable
<1>2. ~(\E m \in Manifest : ReadManifest(j, m)) /\ ~(\E x \in Extra \X Manifest : FetchExtra(j, x))
      /\ ~CleanUp(j) /\ ~Mark(j) /\ ~CleanUpStops(j) /\ ~StepFails(j) /\ ~(\E e \in Entry : Copy(j, e))
  BY <1>1 DEF ReadManifest, FetchExtra, CleanUp, Mark, CleanUpStops, StepFails, Copy, diskVars
<1>3. haul # {} => cmd = "load"
  BY DEF CommandInv
<1>4. ASSUME cmd # "remove", Change(k)
      PROVE  \/ cmd # "remove" /\ <<k, Usable(k)'>> \in Asked
             \/ Usable(k)' = None /\ cmd = "load" /\ \E e \in haul : e[1] = k
  <2>1. ~Doing(First, "drop")
    BY <1>4, LayoutAssumption, WhoWorks, AddWork, LoadWork DEF Doing
  <2> QED
    BY <1>3, <1>4, <2>1 DEF Change
<1>5. CASE \E d \in Digest : WriteBlob(j, d) \/ Sweep(j, d)
  <2>1. PICK d \in Digest : WriteBlob(j, d)
    BY <1>5, SweepChanges
  <2>2. cmd # "remove"
    BY <2>1, RemoveWork DEF WriteBlob, Doing
  <2> QED
    BY <1>4, <2>1, <2>2, WriteChanges
<1>6. CASE \E e \in Entry : AddIndex(j, e) \/ MarkRoot(j, e)
  <2>1. PICK e \in Entry : AddIndex(j, e) \/ MarkRoot(j, e)
    BY <1>6
  <2>2. cmd # "remove"
    BY <2>1, RemoveWork DEF AddIndex, MarkRoot, Doing
  <2> QED
    BY <1>4, <2>1, <2>2, AddIndexChanges, MarkRootChanges
<1>7. CASE \E l \in Key : RemoveArtifact(j, l)
  <2>1. PICK l \in Key : RemoveArtifact(j, l)
    BY <1>7
  <2>2. Usable(k)' = None /\ Doing(First, "drop") /\ k \in plan[First][1].what
    BY <2>1, RemoveChanges
  <2>3. cmd = "remove"
    BY <2>2, LayoutAssumption, WhoWorks, AddWork, LoadWork DEF Doing
  <2> QED
    BY <2>2, <2>3 DEF Dropping
<1> QED
  BY <1>2, <1>5, <1>6, <1>7 DEF JobStep

(* Only a load leaves artifacts half, and only its own.                    *)
LEMMA JobHalf ==
  ASSUME Invariant, NEW j \in Job, JobStep(j)
  PROVE  half' \subseteq half \cup (IF cmd = "load" THEN haul ELSE {})
<1>1. CASE \E e \in Entry : MarkRoot(j, e)
  <2>1. PICK e \in Entry : MarkRoot(j, e)
    BY <1>1
  <2>2. plan[j] # <<>> /\ plan[j][1].do = "mark" /\ e \in plan[j][1].what
    BY <2>1 DEF MarkRoot, Doing
  <2>3. cmd = "load" /\ e \in haul
    <3>1. cmd = "load"
      BY <2>2, WhoWorks, AddWork, RemoveWork
    <3>2. plan[j][1] \in LoadStep(haul)
      BY <2>2, <3>1, LoadWork
    <3> QED
      BY <2>2, <3>1, <3>2 DEF LoadStep, BlobStep
  <2>4. Ahead(e) \subseteq {e} /\ half' \subseteq half \cup Ahead(e)
    BY <2>1 DEF MarkRoot, Ahead
  <2> QED
    BY <2>3, <2>4
<1>2. CASE ~ \E e \in Entry : MarkRoot(j, e)
  <2>1. half' \subseteq half
    <3>1. CASE \E d \in Digest : WriteBlob(j, d) \/ Sweep(j, d)
      BY <3>1 DEF WriteBlob, Sweep
    <3>2. CASE \E x \in Extra \X Manifest : FetchExtra(j, x)
      BY <3>2 DEF FetchExtra
    <3>3. CASE \E e \in Entry : AddIndex(j, e) \/ Copy(j, e)
      <4>1. PICK e \in Entry : AddIndex(j, e) \/ Copy(j, e)
        BY <3>3
      <4> QED
        BY <4>1 DEF AddIndex, Copy
    <3>4. CASE \E k \in Key : RemoveArtifact(j, k)
      BY <3>4 DEF RemoveArtifact
    <3>5. CASE \E m \in Manifest : ReadManifest(j, m)
      BY <3>5 DEF ReadManifest
    <3>6. CASE CleanUp(j) \/ Mark(j) \/ CleanUpStops(j) \/ StepFails(j)
      BY <3>6 DEF CleanUp, Mark, CleanUpStops, StepFails
    <3> QED
      BY <1>2, <3>1, <3>2, <3>3, <3>4, <3>5, <3>6 DEF JobStep
  <2> QED
    BY <2>1
<1> QED
  BY <1>1, <1>2
(* After a failure a remove has nothing left to do.                        *)
LEMMA RemoveFails ==
  ASSUME Typed, NEW j \in Job, plan[j] # <<>>, Fail(j), cmd = "remove"
  PROVE  failed' # {} /\ ~Doing(j, "drop")'
<1>1. plan' = [plan EXCEPT ![j] = IF @[Len(@)].do = "copy" THEN <<@[Len(@)]>> ELSE <<>>] /\ failed' # {}
  BY DEF Fail
<1>2. plan = [i \in Job |-> plan[i]]
  BY DEF Typed
<1>3. plan'[j] = IF plan[j][Len(plan[j])].do = "copy" THEN <<plan[j][Len(plan[j])]>> ELSE <<>>
  BY <1>1, <1>2
<1>4. CASE plan[j][Len(plan[j])].do = "copy"
  <2>1. PICK s : s = plan[j][Len(plan[j])]
    OBVIOUS
  <2>2. plan'[j] = <<s>> /\ s.do = "copy"
    BY <1>3, <1>4, <2>1
  <2>3. plan'[j][1] = s
    BY <2>2
  <2> QED
    BY <1>1, <2>2, <2>3 DEF Doing
<1>5. CASE plan[j][Len(plan[j])].do # "copy"
  BY <1>1, <1>3, <1>5 DEF Doing
<1> QED
  BY <1>4, <1>5

(* A remove that still drops keys takes them from index.json one by one.   *)
LEMMA JobDrops ==
  ASSUME Invariant, use' = use, NEW j \in Job, JobStep(j)
  PROVE  /\ Dropping' \subseteq Dropping
         /\ failed' = {} => \A k \in Dropping \ Dropping' : Usable(k)' = None
<1>1. plan[j] # <<>> /\ cmd' = cmd /\ Typed
  BY JobFrame DEF Invariant
<1>2. CASE cmd # "remove"
  BY <1>1, <1>2 DEF Dropping
<1>3. ASSUME cmd = "remove", Fail(j)
      PROVE  /\ Dropping' \subseteq Dropping
             /\ failed' = {} => \A k \in Dropping \ Dropping' : Usable(k)' = None
  <2>1. j = First
    BY <1>1, <1>3, RemoveWork
  <2>2. failed' # {} /\ ~Doing(j, "drop")'
    BY <1>1, <1>3, RemoveFails
  <2> QED
    BY <2>1, <2>2 DEF Dropping
<1>4. CASE cmd = "remove" /\ plan[j][1].do # "drop"
  <2>1. j = First /\ plan[j][1].do \in {"clean", "walk", "sweep"}
    BY <1>1, <1>4, RemoveWork
  <2>2. CleanUp(j) \/ Mark(j) \/ (\E d \in Digest : Sweep(j, d)) \/ CleanUpStops(j)
    BY <2>1 DEF JobStep, WriteBlob, FetchExtra, AddIndex, Copy, MarkRoot, RemoveArtifact,
                ReadManifest, StepFails, Doing
  <2>3. CASE CleanUpStops(j)
    BY <2>3, CleanUpStopsIs DEF Dropping, Doing
  <2>4. CASE CleanUp(j) \/ Mark(j) \/ (\E d \in Digest : Sweep(j, d))
    <3>1. Cleans
      BY <2>4, CleanUpCleans, MarkCleans, SweepCleans
    <3>2. PICK W, G : plan' = [plan EXCEPT ![First] = Cleaning(W, G)] /\ CleanInv(W, G)'
      BY <3>1 DEF Cleans
    <3>3. W \subseteq G
      BY <3>2 DEF CleanInv
    <3>4. plan'[First] = Cleaning(W, G)
      <4>1. plan = [i \in Job |-> plan[i]] /\ First \in Job
        BY <1>1, LayoutAssumption DEF Typed
      <4> QED
        BY <3>2, <4>1
    <3>5. ~Doing(First, "drop")'
      <4>1. CASE W # {}
        <5>1. Cleaning(W, G)[1] = Step("walk", W)
          BY <3>3, <4>1, CleaningShape
        <5> QED
          BY <3>4, <5>1 DEF Doing, Step
      <4>2. CASE W = {} /\ G # {}
        <5>1. Cleaning(W, G)[1] = Step("sweep", G)
          BY <3>3, <4>2, CleaningShape
        <5> QED
          BY <3>4, <5>1 DEF Doing, Step
      <4>3. CASE G = {}
        BY <3>3, <3>4, <4>3, CleaningShape DEF Doing
      <4> QED
        BY <4>1, <4>2, <4>3
    <3>6. Dropping = {} /\ Dropping' = {}
      BY <2>1, <3>5 DEF Dropping, Doing
    <3> QED
      BY <3>6
  <2> QED
    BY <2>2, <2>3, <2>4
<1>5. CASE cmd = "remove" /\ plan[j][1].do = "drop"
  <2>1. /\ j = First /\ mem = index
        /\ plan[j] = <<Step("drop", plan[j][1].what), Step("clean", {None})>>
    BY <1>1, <1>5, RemoveWork
  <2>2. PICK l \in Key : RemoveArtifact(j, l)
    BY <1>5 DEF JobStep, WriteBlob, Sweep, FetchExtra, AddIndex, Copy, MarkRoot, CleanUp, Mark,
                ReadManifest, CleanUpStops, StepFails, Doing
  <2>3. PICK D : D = plan[j][1].what
    OBVIOUS
  <2>4. Dropping = D
    BY <1>1, <1>5, <2>1, <2>3 DEF Dropping, Doing
  <2>5. CASE Fail(j)
    BY <1>3, <1>5, <2>5
  <2>6. CASE Did(j, l) /\ index' = [Loaded EXCEPT ![l] = None]
    <3>1. Usable(l)' = None
      <4>1. Loaded \in [Key -> Manifest \cup {None}]
        BY <1>1, LoadedFacts
      <4> QED
        BY <2>6, <4>1 DEF Usable
    <3>2. plan'[j] = Done(plan[j], l)
      <4>1. plan = [i \in Job |-> plan[i]]
        BY <1>1 DEF Typed
      <4> QED
        BY <2>6, <4>1 DEF Did
    <3>3. Dropping' \subseteq D /\ D \ Dropping' \subseteq {l}
      <4>1. PICK s, c : s = Step("drop", D) /\ c = Step("clean", {None})
        OBVIOUS
      <4>2. s.do = "drop" /\ s.what = D /\ c.do = "clean"
        BY <4>1 DEF Step
      <4>3. plan[j] = <<s, c>>
        BY <2>1, <2>3, <4>1
      <4>4. CASE D = {l}
        <5>1. plan'[j] = <<c>>
          BY <3>2, <4>2, <4>3, <4>4 DEF Done
        <5>2. Dropping' = {}
          BY <1>1, <2>1, <4>2, <5>1 DEF Dropping, Doing
        <5> QED
          BY <4>4, <5>2
      <4>5. CASE D # {l}
        <5>1. PICK r : r = Step("drop", D \ {l})
          OBVIOUS
        <5>2. r.do = "drop" /\ r.what = D \ {l}
          BY <5>1 DEF Step
        <5>3. Done(plan[j], l) = [plan[j] EXCEPT ![1] = r]
          <6>1. plan[j][1] = s
            BY <4>3
          <6>2. plan[j][1].what # {l} /\ Step(plan[j][1].do, plan[j][1].what \ {l}) = r
            BY <4>2, <4>5, <5>1, <6>1
          <6> QED
            BY <6>2 DEF Done
        <5>4. plan'[j] # <<>> /\ plan'[j][1] = r
          BY <3>2, <4>3, <5>3
        <5>5. Dropping' = D \ {l}
          BY <1>1, <1>5, <2>1, <5>2, <5>4 DEF Dropping, Doing
        <5> QED
          BY <5>5
      <4> QED
        BY <4>4, <4>5
    <3> QED
      BY <2>4, <3>1, <3>3
  <2> QED
    BY <2>2, <2>5, <2>6 DEF RemoveArtifact, Save, Put
<1> QED
  BY <1>2, <1>4, <1>5

(* A load without failure that has nothing left to do has done all of it.  *)
LEMMA LoadedAll ==
  ASSUME Invariant', cmd' = "load", plan'[First] = <<>>, failed' = {}, NEW e \in haul'
  PROVE  Usable(e[1])' = e[2]
<1>1. /\ Has(<<>>, "copy", e) \/ Has(<<>>, "mark", e) \/ index'[e[1]] = e[2]
      /\ Has(<<>>, "copy", e) \/ Needs[e[2]] \subseteq blobs' \cup All(<<>>)
  BY DEF Invariant, LoadInv
<1>2. index'[e[1]] = e[2] /\ Needs[e[2]] \subseteq blobs'
  BY <1>1, EmptyFacts
<1>3. e[2] # None
  BY LayoutAssumption DEF Invariant, Typed, Entry
<1> QED
  BY <1>2, <1>3 DEF Usable

LEMMA GivenIs ==
  ASSUME CommandInv
  PROVE  /\ haul \subseteq Given
         /\ cmd \in {"load", "remove"} => Given = haul
         /\ cmd = "none" \/ cmd = "remove" => Given = {}
<1>1. haul \subseteq Given
  BY DEF Given
<1>2. cmd # "add" => {i \in Job : art[i] # None} = {}
  BY DEF CommandInv, Nothing
<1>3. cmd # "add" => Given = haul
  BY <1>2 DEF Given
<1> QED
  BY <1>1, <1>3 DEF CommandInv

LEMMA GivenTypes ==
  ASSUME Typed
  PROVE  Given \subseteq Entry
<1>1. \A j \in Job : art[j] # None => AskedOf(art[j]) \subseteq Entry
  BY ArtifactTypes
<1> QED
  BY <1>1 DEF Given, AskedOf, Image, Typed

(* A step of a job is a step of the command's work.                        *)
LEMMA JobStepIsWork ==
  ASSUME Invariant, CommandInv, Undisturbed, use' = use, NEW j \in Job, JobStep(j), Invariant', CommandInv'
  PROVE  Abstract!Work
<1>1. /\ plan[j] # <<>> /\ cmd \in {"add", "load", "remove"}
      /\ cmd' = cmd /\ art' = art /\ haul' = haul /\ failed \subseteq failed'
  BY JobFrame, WhoWorks
<1>2. cmd # "none" /\ Outcome # "ok"
  <2>1. cmd \in {"load", "remove"} => plan[First] # <<>>
    BY <1>1, LoadWork, RemoveWork
  <2> QED
    BY <1>1, <2>1 DEF Outcome
<1>3. [k \in Key |-> Usable(k)]' \in Abstract!Holder
  BY DEF Invariant, Typed, Usable, Abstract!Holder
<1>4. Given' = Given
  BY <1>1 DEF Given
<1>5. \A k \in Key : [l \in Key |-> Usable(l)]'[k] # [l \in Key |-> Usable(l)][k]
        => Abstract!Appears(k) \/ Abstract!Vanishes(k)
  <2> SUFFICES ASSUME NEW k \in Key, Usable(k)' # Usable(k)
               PROVE  Abstract!Appears(k) \/ Abstract!Vanishes(k)
    OBVIOUS
  <2>1. haul \subseteq Given
    BY GivenIs
  <2>2. CASE cmd # "remove" /\ <<k, Usable(k)'>> \in Asked
    BY <2>2 DEF Abstract!Appears, Asked
  <2>3. CASE Usable(k)' = None /\ k \in Dropping
    BY <2>3 DEF Abstract!Vanishes
  <2>4. CASE Usable(k)' = None /\ cmd = "load" /\ \E e \in haul : e[1] = k
    BY <2>1, <2>4 DEF Abstract!Vanishes, Abstract!Replaced
  <2> QED
    BY <2>2, <2>3, <2>4, JobChanges
<1>6. half' \subseteq half \cup (IF cmd = "load" THEN Given ELSE {})
  BY JobHalf, GivenIs
<1>7. Dropping' \subseteq Dropping /\ (failed' = {} => \A k \in Dropping \ Dropping' : Usable(k)' = None)
  BY JobDrops
<1>8. failed' = {} => Abstract!Dropped
  <2>1. Dropping \subseteq Key
    BY RemoveWork, LayoutAssumption DEF Dropping, Doing
  <2> QED
    BY <1>7, <2>1 DEF Abstract!Dropped
<1>9. \/ Outcome' = Outcome /\ Abstract!Dropped
      \/ Outcome' = "failed"
      \/ Outcome' = "ok" /\ Abstract!Succeeds
  <2>1. CASE failed' # {}
    BY <1>1, <2>1 DEF Outcome
  <2>2. CASE failed' = {}
    <3>1. failed = {} /\ Outcome = "open"
      BY <1>1, <1>2, <2>2 DEF Outcome
    <3>2. CASE ~(cmd \in {"load", "remove"} /\ plan'[First] = <<>>)
      BY <1>1, <1>8, <2>2, <3>1, <3>2 DEF Outcome
    <3>3. CASE cmd \in {"load", "remove"} /\ plan'[First] = <<>>
      <4>1. Outcome' = "ok"
        BY <1>1, <2>2, <3>3 DEF Outcome
      <4>2. Dropping' = {}
        BY <3>3 DEF Dropping, Doing
      <4>3. \A e \in Given : Usable(e[1])' = e[2]
        <5>1. CASE cmd = "load"
          BY <1>1, <2>2, <3>3, <5>1, GivenIs, LoadedAll
        <5>2. CASE cmd = "remove"
          BY <5>2, GivenIs
        <5> QED
          BY <3>3, <5>1, <5>2
      <4>4. \A e \in Given : e[1] \in Key
        BY GivenTypes DEF Invariant, Entry
      <4>5. \A e \in Given : [l \in Key |-> Usable(l)]'[e[1]] = e[2]
        BY <4>3, <4>4
      <4> QED
        BY <1>8, <2>2, <3>1, <3>3, <4>1, <4>2, <4>5 DEF Abstract!Succeeds
    <3> QED
      BY <3>2, <3>3
  <2> QED
    BY <2>1, <2>2
<1> QED
  BY <1>1, <1>2, <1>3, <1>4, <1>5, <1>6, <1>7, <1>9 DEF Abstract!Work

LEMMA GivenNext ==
  /\ Typed' => Given' \subseteq Entry
  /\ CommandInv' => /\ haul' \subseteq Given'
                    /\ cmd' \in {"load", "remove"} => Given' = haul'
                    /\ cmd' = "none" \/ cmd' = "remove" => Given' = {}
<1>1. Typed => Given \subseteq Entry
  BY GivenTypes
<1>2. CommandInv => /\ haul \subseteq Given
                    /\ cmd \in {"load", "remove"} => Given = haul
                    /\ cmd = "none" \/ cmd = "remove" => Given = {}
  BY GivenIs
<1>3. Typed' => (Given \subseteq Entry)'
  BY <1>1, PTL
<1>4. CommandInv' => (/\ haul \subseteq Given
                      /\ cmd \in {"load", "remove"} => Given = haul
                      /\ cmd = "none" \/ cmd = "remove" => Given = {})'
  BY <1>2, PTL
<1> QED
  BY <1>3, <1>4

LEMMA StartIsBegin ==
  ASSUME Invariant, CommandInv, use' = use, AddCmd \/ LoadCmd \/ RemoveCmd, Invariant', CommandInv'
  PROVE  Abstract!Begin
<1>1. PICK c, a, h, p : /\ c \in {"add", "load", "remove"} /\ Start(c, a, h, p)
                        /\ c # "add" => p[First] # <<>>
  <2>1. CASE AddCmd
    <3>1. \E a, p : Start("add", a, {}, p)
      BY <2>1 DEF AddCmd
    <3> QED
      BY <3>1
  <2>2. CASE LoadCmd
    <3>1. PICK h : Start("load", Nothing, h, Alone(<<Step("copy", h)>>))
      BY <2>2 DEF LoadCmd
    <3>2. Alone(<<Step("copy", h)>>)[First] # <<>>
      BY LayoutAssumption DEF Alone
    <3> QED
      BY <3>1, <3>2
  <2>3. CASE RemoveCmd
    <3>1. PICK K : Start("remove", Nothing, {}, Alone(<<Step("drop", K), Step("clean", {None})>>))
      BY <2>3 DEF RemoveCmd
    <3>2. Alone(<<Step("drop", K), Step("clean", {None})>>)[First] # <<>>
      BY LayoutAssumption DEF Alone
    <3> QED
      BY <3>1, <3>2
  <2> QED
    BY <2>1, <2>2, <2>3
<1>2. cmd = "none" /\ cmd' = c /\ plan' = p /\ UNCHANGED <<blobs, index, failed, half>>
  BY <1>1 DEF Start, diskVars
<1>3. [k \in Key |-> Usable(k)]' = [k \in Key |-> Usable(k)]
  <2>1. \A k \in Key : Usable(k)' = Usable(k)
    BY <1>2 DEF Usable
  <2> QED
    BY <2>1
<1>4. Outcome = "open" /\ Outcome' = "open"
  BY <1>1, <1>2 DEF Outcome, CommandInv
<1>5. Given' \subseteq Entry /\ (cmd' = "remove" => Given' = {}) /\ (cmd' = "load" => Given' = haul')
  BY GivenNext DEF Invariant
<1>6. Dropping' \subseteq Key /\ (cmd' # "remove" => Dropping' = {})
  <2>1. ASSUME cmd' = "remove", plan'[First] # <<>>, plan'[First][1].do = "drop"
        PROVE  plan'[First][1].what \subseteq Key
    <3>1. RemoveCmd
      BY <2>1 DEF AddCmd, LoadCmd, Start
    <3>2. PICK K \in SUBSET Key :
            Start("remove", Nothing, {}, Alone(<<Step("drop", K), Step("clean", {None})>>))
      BY <3>1 DEF RemoveCmd
    <3>3. PICK t : t = <<Step("drop", K), Step("clean", {None})>>
      OBVIOUS
    <3>4. plan'[First] = t
      BY <3>2, <3>3, LayoutAssumption DEF Start, Alone
    <3>5. t[1] = Step("drop", K)
      BY <3>3
    <3> QED
      BY <3>4, <3>5 DEF Step
  <2>2. PICK s : s = plan'[First]
    OBVIOUS
  <2>3. Dropping' = IF cmd' = "remove" /\ s # <<>> /\ s[1].do = "drop" THEN s[1].what ELSE {}
    BY <2>2 DEF Dropping, Doing
  <2>4. cmd' = "remove" /\ s # <<>> /\ s[1].do = "drop" => s[1].what \subseteq Key
    BY <2>1, <2>2
  <2> QED
    BY ONLY <2>3, <2>4
<1>7. cmd' = "load" => \A e, f \in Given' : e[1] = f[1] => e = f
  BY <1>5 DEF Invariant, Typed
<1> QED
  BY <1>1, <1>2, <1>3, <1>4, <1>5, <1>6, <1>7 DEF Abstract!Begin, Abstract!Entry, Entry

LEMMA EndIsEnd ==
  ASSUME Invariant, CommandInv, use' = use, EndAdd(TRUE) \/ EndAdd(FALSE) \/ End \/ Kill,
         Invariant', CommandInv'
  PROVE  Abstract!End
<1>1. cmd # "none" /\ cmd' = "none" /\ blobs' = blobs /\ half' \subseteq half
  BY DEF EndAdd, End, Kill, EndProcess, diskVars
<1>2. Outcome' = "open" /\ Given' = {} /\ Dropping' = {}
  BY <1>1, GivenNext DEF Outcome, Dropping
<1>3. [k \in Key |-> Usable(k)]' \in Abstract!Holder
  BY DEF Invariant, Typed, Usable, Abstract!Holder
<1>4. ASSUME NEW k \in Key, Usable(k)' # Usable(k)
      PROVE  cmd = "add" /\ <<k, Usable(k)'>> \in Given
  <2>1. index' # index
    BY <1>1, <1>4 DEF Usable
  <2>2. cmd = "add" /\ index' = mem
    BY <2>1 DEF EndAdd, Put, End, Kill, diskVars
  <2> QED
    BY <1>1, <1>4, <2>2, MemIsAsked
<1>5. \A k \in Key : [l \in Key |-> Usable(l)]'[k] # [l \in Key |-> Usable(l)][k]
        => cmd = "add" /\ <<k, [l \in Key |-> Usable(l)]'[k]>> \in Given
  BY <1>4
<1> QED
  BY <1>1, <1>2, <1>3, <1>5 DEF Abstract!End

LEMMA AbstractInit ==
  ASSUME Init
  PROVE  Abstract!Init
<1>1. \A k \in Key : Usable(k) = None
  BY DEF Init, EmptyMap, Usable
<1>2. Given = {} /\ Dropping = {} /\ Outcome = "open"
  <2>1. {i \in Job : art[i] # None} = {}
    BY DEF Init
  <2> QED
    BY <2>1 DEF Init, Given, Dropping, Outcome
<1> QED
  BY <1>1, <1>2 DEF Init, Abstract!Init

(* The store implements Catalog (ImplementsCatalog): under every key there *)
(* is a complete artifact or nothing, which changes only as the running    *)
(* command was asked, and a load or a remove that reports success has done *)
(* all of it.                                                              *)
THEOREM LayoutIsACatalog == Spec => ImplementsCatalog
<1> DEFINE A == Undisturbed => Abstract!Next
<1>1. Init => CommandInv /\ (Undisturbed => Abstract!Init)
  BY AbstractInit DEF Init, CommandInv, Nothing
<1>2. Invariant /\ CommandInv /\ [Next]_vars => CommandInv'
  BY CommandStays
<1>3. Invariant /\ CommandInv /\ Next /\ Invariant' /\ CommandInv' => A
  <2> SUFFICES ASSUME Invariant, CommandInv, Next, Invariant', CommandInv', Undisturbed
               PROVE  Abstract!Next
    OBVIOUS
  <2>1. use' = use
    BY DEF Next
  <2>2. ASSUME NEW j \in Job, JobStep(j) PROVE Abstract!Next
    BY <2>1, <2>2, JobStepIsWork DEF Abstract!Next
  <2>3. CASE AddCmd \/ LoadCmd \/ RemoveCmd
    BY <2>1, <2>3, StartIsBegin DEF Abstract!Next
  <2>4. CASE EndAdd(TRUE) \/ EndAdd(FALSE) \/ End \/ Kill
    BY <2>1, <2>4, EndIsEnd DEF Abstract!Next
  <2>5. ~PowerLoss
    BY DEF PowerLoss, Undisturbed
  <2> QED
    BY <2>2, <2>3, <2>4, <2>5 DEF Next, Operation
<1>4. UNCHANGED vars => UNCHANGED Abstract!catalogVars
  BY DEF vars, Abstract!catalogVars, Usable, Outcome, Given, Dropping, Doing
<1>5. Invariant /\ CommandInv /\ [Next]_vars /\ Invariant' /\ CommandInv' => [A]_(Abstract!catalogVars)
  BY <1>3, <1>4
<1> QED
  BY <1>1, <1>2, <1>5, AlwaysInvariant, PTL DEF Spec, ImplementsCatalog
-----------------------------------------------------------------------------
(* Types                                                                   *)

StepTypes(s) ==
  /\ s.do \in Steps
  /\ s.do \in {"write", "walk", "sweep"} => s.what \subseteq Digest
  /\ s.do \in {"image", "graph"} => s.what \subseteq Manifest
  /\ s.do \in {"add", "copy", "mark"} => s.what \subseteq Entry
  /\ s.do = "extras" => s.what \subseteq Extra \X Manifest
  /\ s.do = "drop" => s.what \subseteq Key

LEMMA PlanTypes ==
  ASSUME Invariant, NEW j \in Job, NEW i \in DOMAIN plan[j]
  PROVE  StepTypes(plan[j][i])
<1>1. Typed /\ AddInv /\ LoadInv /\ RemoveInv
  BY DEF Invariant
<1>2. plan[j] # <<>>
  OBVIOUS
<1>3. cmd \in {"add", "load", "remove"}
  BY <1>1, <1>2 DEF Typed
<1>4. CASE cmd = "add"
  <2>1. art[j] # None /\ plan[j] \in Seq(AddStep(art[j]))
    BY <1>1, <1>2, <1>4 DEF AddInv
  <2>2. plan[j][i] \in AddStep(art[j])
    BY <2>1, ElementOfSeq, LenProperties
  <2>3. AskedOf(art[j]) \subseteq Entry /\ art[j].extras \subseteq Extra \X Manifest
    BY <1>1, <2>1, ArtifactTypes
  <2> QED
    BY <2>2, <2>3 DEF AddStep, BlobStep, StepTypes, Steps
<1>5. CASE cmd = "load"
  <2>1. j = First /\ plan[j] \in Seq(LoadStep(haul)) /\ haul \subseteq Entry
    BY <1>1, <1>2, <1>5 DEF LoadInv, Typed
  <2>2. plan[j][i] \in LoadStep(haul)
    BY <2>1, ElementOfSeq, LenProperties
  <2> QED
    BY <2>1, <2>2 DEF LoadStep, BlobStep, StepTypes, Steps
<1>6. CASE cmd = "remove"
  <2> DEFINE p == plan[j]
  <2>1. /\ j = First
        /\ \/ p[1].what \subseteq Key /\ p = <<Step("drop", p[1].what), Step("clean", {None})>>
           \/ p = <<Step("clean", {None})>>
           \/ p = Cleaning(Visit(p), Rest(p)) /\ CleanInv(Visit(p), Rest(p))
    BY <1>1, <1>2, <1>6 DEF RemoveInv
  <2>2. CASE p[1].what \subseteq Key /\ p = <<Step("drop", p[1].what), Step("clean", {None})>>
    <3>1. PICK what \in SUBSET Key : p = <<Step("drop", what), Step("clean", {None})>>
      BY <2>2
    <3>2. p[i] \in {Step("drop", what), Step("clean", {None})}
      BY <3>1
    <3> QED
      BY <3>2 DEF Step, StepTypes, Steps
  <2>3. CASE p = <<Step("clean", {None})>>
    <3>1. p[i] = Step("clean", {None})
      BY <2>3
    <3> QED
      BY <3>1 DEF Step, StepTypes, Steps
  <2>4. CASE p = Cleaning(Visit(p), Rest(p)) /\ CleanInv(Visit(p), Rest(p))
    <3>1. PICK W \in SUBSET Digest, G \in SUBSET Digest : p = Cleaning(W, G) /\ W \subseteq G
      BY <1>1, <2>4 DEF CleanInv, Typed
    <3>2. \/ p = <<Step("walk", W), Step("sweep", G)>>
          \/ p = <<Step("sweep", G)>>
      BY <1>2, <3>1, CleaningShape
    <3>3. p[i] \in {Step("walk", W), Step("sweep", G)}
      BY <3>2
    <3> QED
      BY <3>3 DEF Step, StepTypes, Steps
  <2> QED
    BY <2>1, <2>2, <2>3, <2>4
<1> QED
  BY <1>3, <1>4, <1>5, <1>6

JobTypes == tries \in [Job -> 0..use.retries] /\ failed \subseteq Job

LEMMA JobTypesStay ==
  ASSUME Typed, JobTypes, Next
  PROVE  JobTypes'
<1>1. use' = use /\ use.retries \in Nat
  BY UsesAssumption DEF Next, Typed
<1>2. CASE UNCHANGED <<tries, failed>>
  BY <1>1, <1>2 DEF JobTypes
<1>3. CASE tries' = [j \in Job |-> 0] /\ failed' = {}
  BY <1>1, <1>3 DEF JobTypes
<1>4. ASSUME NEW j \in Job, Fail(j) PROVE JobTypes'
  BY <1>1, <1>4 DEF JobTypes, Fail
<1>5. CASE AddCmd \/ LoadCmd \/ RemoveCmd
  BY <1>2, <1>5, Zenon DEF AddCmd, LoadCmd, RemoveCmd, Start
<1>6. CASE EndAdd(TRUE) \/ EndAdd(FALSE) \/ End \/ Kill \/ PowerLoss
  BY <1>3, <1>6, Zenon DEF EndAdd, End, Kill, PowerLoss, EndProcess
<1>7. ASSUME NEW j \in Job, JobStep(j) PROVE JobTypes'
  <2>1. UNCHANGED <<tries, failed>> \/ Fail(j)
    <3> USE DEF jobVars
    <3>1. CASE \E d \in Digest : WriteBlob(j, d) \/ Sweep(j, d)
      BY <3>1, Zenon DEF WriteBlob, Sweep
    <3>2. CASE \E x \in Extra \X Manifest : FetchExtra(j, x)
      BY <3>2 DEF FetchExtra
    <3>3. CASE \E e \in Entry : AddIndex(j, e) \/ Copy(j, e) \/ MarkRoot(j, e)
      <4>1. PICK e \in Entry : AddIndex(j, e) \/ Copy(j, e) \/ MarkRoot(j, e)
        BY <3>3
      <4> QED
        BY <4>1 DEF AddIndex, Copy, MarkRoot
    <3>4. CASE \E k \in Key : RemoveArtifact(j, k)
      BY <3>4 DEF RemoveArtifact
    <3>5. CASE \E m \in Manifest : ReadManifest(j, m)
      BY <3>5 DEF ReadManifest
    <3>6. CASE CleanUp(j) \/ Mark(j) \/ CleanUpStops(j) \/ StepFails(j)
      BY <3>6 DEF CleanUp, Mark, CleanUpStops, StepFails
    <3> QED
      BY <1>7, <3>1, <3>2, <3>3, <3>4, <3>5, <3>6 DEF JobStep
  <2> QED
    BY <1>2, <1>4, <2>1
<1> QED
  BY <1>5, <1>6, <1>7 DEF Next, Operation

(* A store, the plans of the jobs that work on it and the retries they     *)
(* have used have their types at any step.                                 *)
THEOREM TypeCorrect == Spec => []TypeOK
<1>1. Init => Invariant /\ JobTypes
  BY InitInvariant, UsesAssumption DEF Init, JobTypes
<1>2. Invariant /\ JobTypes /\ [Next]_vars => (Invariant /\ JobTypes)'
  <2>1. Invariant /\ JobTypes /\ UNCHANGED vars => JobTypes'
    BY DEF vars, JobTypes
  <2> QED
    BY <2>1, NextInvariant, JobTypesStay DEF Invariant
<1>3. Invariant /\ JobTypes => TypeOK
  BY PlanTypes DEF Invariant, Typed, JobTypes, TypeOK, StepTypes
<1> QED
  BY <1>1, <1>2, <1>3, PTL DEF Spec
-----------------------------------------------------------------------------
(* Where an add has put an entry into nameMap and not into index.json, a   *)
(* save has failed, and the job it failed for was retried or gave up.      *)
Met(i)         == tries[i] > 0 \/ i \in failed
Tried(k, m)    == \E i \in Job : art[i] # None /\ <<k, m>> \in AskedOf(art[i]) /\ Met(i)
StillTried     == \A k, m : Tried(k, m) => Tried(k, m)'
TriedInv       == cmd = "add" => \A k \in Key : mem[k] # index[k] => Tried(k, mem[k])

LEMMA FailMeets ==
  ASSUME Typed, JobTypes, NEW j \in Job, Fail(j)
  PROVE  art' = art /\ cmd' = cmd /\ Met(j)' /\ StillTried
<1>1. tries \in [Job -> Nat]
  BY UsesAssumption DEF Typed, JobTypes
<1>2. art' = art /\ cmd' = cmd /\ Met(j)'
  BY <1>1 DEF Fail, Met
<1>3. \A i \in Job : Met(i) => Met(i)'
  BY <1>1 DEF Fail, Met
<1> QED
  BY <1>2, <1>3 DEF StillTried, Tried

LEMMA AddIndexTries ==
  ASSUME Invariant, JobTypes, TriedInv, NEW j \in Job, NEW e \in Entry, AddIndex(j, e)
  PROVE  TriedInv'
<1>1. Typed /\ plan[j] # <<>> /\ plan[j][1].do = "add" /\ e \in plan[j][1].what
  BY DEF Invariant, AddIndex, Doing
<1>2. cmd = "add"
  BY <1>1, WhoWorks, LoadWork, RemoveWork
<1>3. CASE UNCHANGED <<index, mem, cmd, art, tries, failed>>
  BY <1>3 DEF TriedInv, Tried, Met
<1>4. CASE mem' = index'
  BY <1>4 DEF TriedInv
<1>5. CASE mem' = [mem EXCEPT ![e[1]] = e[2]] /\ index' = index /\ Fail(j)
  <2>1. art[j] # None /\ e \in AskedOf(art[j]) /\ e = <<e[1], e[2]>>
    <3>1. art[j] # None /\ plan[j][1] \in AddStep(art[j])
      BY <1>1, <1>2, AddWork
    <3> QED
      BY <1>1, <3>1 DEF AddStep, BlobStep, Entry
  <2>2. art' = art /\ Met(j)' /\ StillTried
    BY <1>1, <1>5, FailMeets
  <2>3. ASSUME NEW k \in Key, mem'[k] # index'[k] PROVE Tried(k, mem[k])'
    <3>1. CASE k = e[1]
      <4>1. mem'[k] = e[2]
        BY <1>1, <1>5, <3>1 DEF Typed
      <4> QED
        BY <2>1, <2>2, <3>1, <4>1 DEF Tried
    <3>2. CASE k # e[1]
      <4>1. PICK m : m = mem[k]
        OBVIOUS
      <4>2. mem'[k] = m
        BY <1>1, <1>5, <3>2, <4>1 DEF Typed
      <4>3. Tried(k, m)
        BY <1>2, <1>5, <2>3, <4>1, <4>2 DEF TriedInv
      <4>4. Tried(k, m)'
        BY <2>2, <4>3 DEF StillTried
      <4> QED
        BY <4>2, <4>4 DEF Tried
    <3> QED
      BY <3>1, <3>2
  <2> QED
    BY <2>3 DEF TriedInv
<1> QED
  BY <1>3, <1>4, <1>5 DEF AddIndex, Save, SaveFails, Put, jobVars

LEMMA TriedStays ==
  ASSUME Invariant, JobTypes, TriedInv, Next
  PROVE  TriedInv'
<1>1. Typed
  BY DEF Invariant
<1>2. CASE UNCHANGED <<index, mem, cmd, art, tries, failed>>
  BY <1>2 DEF TriedInv, Tried, Met
<1>3. ASSUME NEW j \in Job, Fail(j), UNCHANGED <<index, mem>> PROVE TriedInv'
  <2>1. cmd' = cmd /\ StillTried
    BY <1>1, <1>3, FailMeets
  <2>2. ASSUME cmd = "add", NEW k \in Key, mem[k] # index[k] PROVE Tried(k, mem[k])'
    <3>1. PICK m : m = mem[k]
      OBVIOUS
    <3>2. Tried(k, m)
      BY <2>2, <3>1 DEF TriedInv
    <3>3. Tried(k, m)'
      BY <2>1, <3>2 DEF StillTried
    <3> QED
      BY <1>3, <3>1, <3>3 DEF Tried
  <2> QED
    BY <1>3, <2>1, <2>2 DEF TriedInv
<1>4. CASE AddCmd \/ LoadCmd \/ RemoveCmd
  <2>1. mem' = index /\ index' = index
    BY <1>4 DEF AddCmd, LoadCmd, RemoveCmd, Start, diskVars
  <2> QED
    BY <2>1 DEF TriedInv
<1>5. CASE EndAdd(TRUE) \/ EndAdd(FALSE) \/ End \/ Kill \/ PowerLoss
  <2>1. cmd' = "none"
    BY <1>5 DEF EndAdd, End, Kill, PowerLoss, EndProcess
  <2> QED
    BY <2>1 DEF TriedInv
<1>6. ASSUME NEW j \in Job, JobStep(j) PROVE TriedInv'
  <2>1. cmd' = cmd
    BY <1>6, JobFrame
  <2>2. CASE \E d \in Digest : WriteBlob(j, d) \/ Sweep(j, d)
    BY <1>2, <2>2, Zenon DEF WriteBlob, Sweep, jobVars
  <2>3. CASE \E x \in Extra \X Manifest : FetchExtra(j, x)
    BY <1>2, <2>3 DEF FetchExtra, diskVars, jobVars
  <2>4. CASE \E e \in Entry : AddIndex(j, e)
    BY <2>4, AddIndexTries
  <2>5. CASE (\E e \in Entry : Copy(j, e) \/ MarkRoot(j, e)) \/ (\E k \in Key : RemoveArtifact(j, k)) \/ CleanUp(j)
    <3>1. plan[j] # <<>> /\ plan[j][1].do \in {"copy", "mark", "drop", "clean"}
      BY <2>5 DEF Copy, MarkRoot, RemoveArtifact, CleanUp, Doing
    <3>2. cmd # "add"
      BY <3>1, AddWork
    <3> QED
      BY <2>1, <3>2 DEF TriedInv
  <2>6. CASE \E m \in Manifest : ReadManifest(j, m)
    BY <1>2, <2>6 DEF ReadManifest, diskVars, jobVars
  <2>7. CASE Mark(j) \/ CleanUpStops(j)
    BY <1>2, <2>7 DEF Mark, CleanUpStops, diskVars, jobVars
  <2>8. CASE StepFails(j)
    BY <1>3, <2>8 DEF StepFails, diskVars
  <2> QED
    BY <1>6, <2>2, <2>3, <2>4, <2>5, <2>6, <2>7, <2>8 DEF JobStep
<1> QED
  BY <1>4, <1>5, <1>6 DEF Next, Operation

LEMMA AlwaysTried == Spec => [](Invariant /\ JobTypes /\ TriedInv)
<1>1. Init => Invariant /\ JobTypes /\ TriedInv
  BY InitInvariant, UsesAssumption DEF Init, JobTypes, TriedInv
<1>2. Invariant /\ JobTypes /\ TriedInv /\ [Next]_vars => (Invariant /\ JobTypes /\ TriedInv)'
  <2>1. JobTypes /\ TriedInv /\ UNCHANGED vars => JobTypes' /\ TriedInv'
    BY DEF vars, JobTypes, TriedInv, Tried, Met
  <2> QED
    BY <2>1, NextInvariant, JobTypesStay, TriedStays DEF Invariant
<1> QED
  BY <1>1, <1>2, PTL DEF Spec

(* When an add or a sync has ended, what each job that reported success    *)
(* added is in index.json, or what another job added under its key.  An    *)
(* entry may be missing only where the last save failed, which is only     *)
(* logged, and a save of its own had failed before (SuccessIsRecorded).    *)
THEOREM AddsAreRecorded == Spec => SuccessIsRecorded
<1> DEFINE A == \A saved \in BOOLEAN : EndAdd(saved) =>
                  \A j \in Job \ failed : art[j] # None =>
                    \/ \E i \in Sharing(j) : index'[KeyOf(art[j])] = art[i].root
                    \/ ~saved /\ \E i \in Sharing(j) : tries[i] > 0 \/ i \in failed
<1>1. Invariant /\ TriedInv /\ [Next]_vars => A
  <2> SUFFICES ASSUME Invariant, TriedInv, NEW saved \in BOOLEAN, EndAdd(saved), NEW j \in Job \ failed, art[j] # None
               PROVE  \/ \E i \in Sharing(j) : index'[KeyOf(art[j])] = art[i].root
                      \/ ~saved /\ \E i \in Sharing(j) : tries[i] > 0 \/ i \in failed
    OBVIOUS
  <2>1. cmd = "add" /\ Finished /\ (index' = mem \/ (~saved /\ index' = index))
    BY DEF EndAdd, Put
  <2>2. PICK k : k = KeyOf(art[j])
    OBVIOUS
  <2>3. PICK i \in Sharing(j) : mem[k] = art[i].root
    BY <2>1, <2>2, AddedIsThere
  <2>4. CASE index'[k] = mem[k]
    BY <2>2, <2>3, <2>4
  <2>5. CASE index'[k] # mem[k]
    <3>1. ~saved /\ mem[k] # index[k] /\ Typed
      BY <2>1, <2>5 DEF Invariant
    <3>2. k \in Key
      BY <2>2, <3>1, ArtifactTypes DEF KeyOf, Base, Kind, Key
    <3>3. PICK l \in Job : art[l] # None /\ <<k, mem[k]>> \in AskedOf(art[l]) /\ Met(l)
      BY <2>1, <3>1, <3>2 DEF TriedInv, Tried
    <3>4. KeyOf(art[l]) = k
      <4>1. \A x \in art[l].extras : <<art[l].name, x[1]>> # KeyOf(art[j])
        BY <3>1, <3>3, ArtifactTypes DEF Extra, KeyOf, Base
      <4>2. \A x \in art[l].extras : <<<<art[l].name, x[1]>>, x[2]>> # <<k, mem[k]>>
        BY <2>2, <4>1
      <4> QED
        BY <3>3, <4>2 DEF AskedOf, Image
    <3> QED
      BY <2>2, <3>1, <3>3, <3>4 DEF Sharing, Met
  <2> QED
    BY <2>4, <2>5
<1>2. Invariant /\ TriedInv /\ [Next]_vars => [A]_vars
  BY <1>1
<1> QED
  BY <1>2, AlwaysTried, PTL DEF Spec, SuccessIsRecorded
=============================================================================
