--------------------------- MODULE OCIIndexProofs ---------------------------
(***************************************************************************)
(* What holds of OCIIndex for any number of entries, renames, saves,       *)
(* failures, kills and power losses, where references are unambiguous and  *)
(* no operation clashes with a renamed entry.                              *)
(*                                                                         *)
(* The properties are not inductive; Invariant is.  It adds that nameMap   *)
(* holds all of what was promised and no two entries of one name (MapInv), *)
(* that it is what index.json says unless a save failed (CurrentInv), that *)
(* the maps a decode may write through stand where their entries do        *)
(* (SlotsInv), and that no version of index.json that may come back has    *)
(* two entries of one name and a process only runs on one that can be read *)
(* (FilesInv).                                                             *)
(***************************************************************************)
EXTENDS OCIIndex, SequenceTheorems, FiniteSetTheorems, TLAPS

(* Two elements of one key say the same.                                   *)
OneEntryPerKey(f) ==
  f \notin Blank => \A i, j \in DOMAIN f :
    Canon[f[i].ref] # None /\ KeyOf(f[i]) = KeyOf(f[j]) => Normalize(f[i]) = Normalize(f[j])

(* No two references have one key, a Pusher's key is the reference's own,  *)
(* an entry is renamed to a well-formed reference, and a process that      *)
(* cannot write index.json does not read it again.  Each of these can be   *)
(* otherwise in the code.                                                  *)
Unambiguous ==
  /\ \A r, s \in Ref : Canon[r] # None /\ Canon[r] = Canon[s] => r = s
  /\ \A u \in Uses :
       /\ \A rw \in u.rewrites : Canon[rw[2]] # None
       /\ \A d \in u.pushed : Raw[d.ref] = Canon[d.ref]
       /\ \A f \in u.init : OneEntryPerKey(f)
       /\ u.faults => ~u.reloads

(* A renamed entry stays under the key it had.  Storing d in m clashes     *)
(* with none of these: d is not another entry of the same name, and does   *)
(* not take the key of one that is nowhere else.                           *)
Free(m, d) ==
  \A k \in Key : m[k] # None /\ KeyOf(m[k]) # k =>
    /\ KeyOf(m[k]) = KeyOf(d) => m[k] = d
    /\ k = KeyOf(d) => m[KeyOf(m[k])] = m[k]

(* What is named new already is what a renamed entry becomes.              *)
NewName(m, old, new) ==
  \A k, l \in Key :
    /\ m[k] # None /\ m[k].ref = old
    /\ m[l] # None /\ m[l].ref = new
    /\ m[k].kind = m[l].kind
    => m[l] = [m[k] EXCEPT !.ref = new]

(* No step clashes with a renamed entry.  In the code one may: this is how *)
(* AckedInIndex fails.                                                     *)
NoClash ==
  /\ \A d \in use.added : AddIndex(d) => Free(nm, d)
  /\ \A d \in use.pushed : PushRoot(d) => Free(LoadedMap, Normalize(d))
  /\ \A rw \in use.rewrites : UpdateAnnotations(rw[1], rw[2]) => NewName(LoadedMap, rw[1], rw[2])

Good(d) == d \in Desc /\ Canon[d.ref] # None /\ Normalize(d) = d

Holds(m, d) == \E k \in Key : m[k] = d

(* A map that holds good entries, no two of one name.                      *)
Mapped(m) ==
  /\ m \in [Key -> Desc \cup {None}]
  /\ \A k \in Key : m[k] # None => Good(m[k])
  /\ \A k, l \in Key : m[k] # None /\ m[l] # None /\ KeyOf(m[k]) = KeyOf(m[l]) => m[k] = m[l]

(* Every element of f whose map is shared with an entry of m is the entry. *)
Shared(f, s, m) ==
  f \notin Blank => \A i \in DOMAIN f \cap DOMAIN s :
    s[i] \in Key /\ m[s[i]] # None => f[i] = m[s[i]]

ProcessInv ==
  /\ use \in Uses /\ {up, due, exposed, unsaved} \subseteq BOOLEAN
  /\ removing \in ({"drop", "save"} \X Key) \cup {None}
  /\ ~up => nm = EmptyMap /\ removing = None /\ ~unsaved
  /\ unsaved => use.faults /\ removing = None

FilesInv ==
  /\ file \in survivors
  /\ \A f \in survivors : IsIndex(f) /\ OneEntryPerKey(f) /\ (f # Torn => safe \subseteq Recorded(f))
  /\ Torn \in survivors => exposed
  /\ up => file # Torn
  /\ file = Torn => safe = {}

MapInv ==
  /\ Mapped(nm)
  /\ \A d \in acked : Good(d) /\ (up => Holds(nm, d))
  /\ safe \subseteq acked

CurrentInv ==
  ~unsaved =>
    /\ acked \subseteq Recorded(file)
    /\ \A k \in Key : nm[k] # None => nm[k] \in Recorded(file)
    /\ up /\ removing = None => \A d \in Recorded(file) : Holds(nm, d)
    /\ up /\ removing # None /\ removing[1] = "drop" =>
         \A d \in Recorded(file) : nm[KeyOf(d)] = d

SlotsInv == ~unsaved => Shared(file, slots, nm)

Invariant == ProcessInv /\ FilesInv /\ MapInv /\ CurrentInv /\ SlotsInv
-----------------------------------------------------------------------------
(* Descriptors and keys                                                    *)

LEMMA Normalized ==
  ASSUME NEW d \in Desc, Canon[d.ref] # None
  PROVE  /\ Good(Normalize(d)) /\ KeyOf(Normalize(d)) = KeyOf(d) /\ KeyOf(d) \in Key
         /\ Normalize(d).ref = d.ref
<1>1. d.ref \in Ref /\ d.kind \in Kind /\ Canon[d.ref] \in Name
  BY IndexAssumption DEF Desc
<1>2. NormalizeKind(d.kind) \in {"image", "sigs"} /\ NormalizeKind(NormalizeKind(d.kind)) = NormalizeKind(d.kind)
  BY <1>1 DEF Kind, NormalizeKind
<1>3. /\ Normalize(d) \in Desc /\ Normalize(d).ref = d.ref
      /\ Normalize(d).kind = NormalizeKind(d.kind)
  BY <1>1, <1>2 DEF Normalize, Desc, Kind
<1>4. Normalize(Normalize(d)) = Normalize(d)
  BY <1>2, <1>3 DEF Normalize, Desc
<1> QED
  BY <1>1, <1>2, <1>3, <1>4 DEF Good, KeyOf, Key

LEMMA KeysAreFinite == IsFiniteSet(Key)
<1>1. IsFiniteSet({"image"})
  BY FS_Singleton, Zenon
<1>2. IsFiniteSet({"image"} \cup {"sigs"})
  BY <1>1, FS_AddElement
<1>3. {"image"} \cup {"sigs"} = {"image", "sigs"}
  OBVIOUS
<1> QED
  BY <1>2, <1>3, IndexAssumption, FS_Product DEF Key

(* What is recorded, element by element.                                   *)
LEMMA RecordedBy ==
  ASSUME NEW f, IsIndex(f)
  PROVE  /\ \A d \in Recorded(f) : /\ Good(d) /\ f \notin Blank
                                   /\ \E i \in DOMAIN f : /\ f[i] \in Desc /\ Canon[f[i].ref] # None
                                                          /\ d = Normalize(f[i])
         /\ f \notin Blank => \A i \in DOMAIN f : f[i] \in Desc /\ (Canon[f[i].ref] # None => Normalize(f[i]) \in Recorded(f))
<1>1. f \notin Blank => \A i \in DOMAIN f : f[i] \in Desc
  BY DEF IsIndex
<1>2. \A d \in Recorded(f) : f \notin Blank /\ \E i \in DOMAIN f : Canon[f[i].ref] # None /\ d = Normalize(f[i])
  BY DEF Recorded, Entries
<1>3. f \notin Blank => \A i \in DOMAIN f : Canon[f[i].ref] # None => Normalize(f[i]) \in Recorded(f)
  BY DEF Recorded, Entries
<1> QED
  BY <1>1, <1>2, <1>3, Normalized

(* Two recorded descriptors have two keys.                                 *)
LEMMA GoodKeys ==
  ASSUME Unambiguous, NEW d, NEW e, Good(d), Good(e)
  PROVE  /\ KeyOf(d) \in Key /\ d \in Desc /\ d # None
         /\ KeyOf(d) = KeyOf(e) <=> SameEntry(d, e)
<1>1. KeyOf(d) \in Key /\ d \in Desc /\ d # None /\ e \in Desc /\ d.ref \in Ref /\ e.ref \in Ref
  BY Normalized, IndexAssumption DEF Good, Desc
<1> QED
  BY <1>1 DEF Good, KeyOf, SameEntry, Unambiguous
-----------------------------------------------------------------------------
(* Saving and loading                                                      *)

(* A set of numbers that is not empty has a least element.                 *)
LEMMA LeastNumber ==
  ASSUME NEW T, T \subseteq Nat, T # {}
  PROVE  \E n \in T : \A k \in T : n <= k
<1> DEFINE R == StrictSubsetOrdering(Nat)
           U == {1..n : n \in T}
<1>1. \A n \in T : 1..n \in SUBSET Nat /\ IsFiniteSet(1..n)
  BY FS_Interval
<1>2. U \subseteq FiniteSubsetsOf(Nat) /\ U # {} /\ IsWellFoundedOn(R, FiniteSubsetsOf(Nat))
  BY <1>1, FS_StrictSubsetOrderingWellFounded DEF FiniteSubsetsOf
<1>3. PICK x \in U : \A y \in U : <<y, x>> \notin R
  <2> HIDE DEF R, U
  <2> QED
    BY <1>2, WFMin
<1>4. PICK n \in T : x = 1..n
  BY <1>3
<1>5. ASSUME NEW k \in T, ~(n <= k) PROVE FALSE
  <2>1. 1..k \subseteq 1..n /\ n \in 1..n /\ n \notin 1..k
    BY <1>5
  <2>2. <<1..k, 1..n>> \in R
    BY <1>1, <2>1 DEF StrictSubsetOrdering
  <2> QED
    BY <1>3, <1>4, <2>2
<1> QED
  BY <1>5

(* A finite set of positions has a last one.                               *)
LEMMA LastPosition ==
  ASSUME NEW n \in Nat, NEW T, T \subseteq 1..n, T # {}
  PROVE  \E x \in T : \A y \in T : y <= x
<1> DEFINE U == {n - t : t \in T}
<1>1. U \subseteq Nat /\ U # {}
  <2>1. \A t \in T : n - t \in Nat
    OBVIOUS
  <2>2. PICK t : t \in T
    OBVIOUS
  <2>3. n - t \in U
    BY <2>2
  <2> QED
    BY <2>1, <2>3
<1>2. PICK u \in U : \A v \in U : u <= v
  <2> HIDE DEF U
  <2> QED
    BY <1>1, LeastNumber
<1>3. PICK x \in T : u = n - x
  BY <1>2
<1>4. ASSUME NEW y \in T PROVE y <= x
  <2>1. n - y \in U
    OBVIOUS
  <2>2. n - x <= n - y
    BY <1>2, <1>3, <2>1
  <2> QED
    BY <2>2
<1> QED
  BY <1>4

(* What is written is what the map holds.                                  *)
LEMMA Written ==
  ASSUME NEW m, Mapped(m), NEW o \in Orders({k \in Key : m[k] # None}),
         NEW content, content = [i \in DOMAIN o |-> m[o[i]]]
  PROVE  /\ IsIndex(content) /\ OneEntryPerKey(content) /\ content \notin Blank
         /\ \A k \in Key : m[k] # None => m[k] \in Recorded(content)
         /\ \A d \in Recorded(content) : Good(d) /\ Holds(m, d)
         /\ Shared(content, o, m)
<1> DEFINE S == {k \in Key : m[k] # None}
           n == Cardinality(S)
<1>1. IsFiniteSet(S) /\ n \in Nat
  BY KeysAreFinite, FS_Subset, FS_CardinalityType
<1>2. /\ o \in [1..n -> S] /\ \A i, j \in 1..n : o[i] = o[j] => i = j
  BY DEF Orders
<1> HIDE DEF S, n
<1>3. \A k \in S : \E i \in 1..n : o[i] = k
  <2>1. o \in Injection(1..n, S)
    BY <1>2 DEF Injection, IsInjective
  <2>2. IsFiniteSet(1..n) /\ Cardinality(1..n) = n
    BY <1>1, FS_Interval
  <2>3. o \in Surjection(1..n, S)
    BY <2>1, <2>2, FS_Injection, <1>1 DEF n
  <2> QED
    BY <2>3 DEF Surjection
<1>4. /\ DOMAIN content = 1..n
      /\ \A i \in 1..n : /\ content[i] = m[o[i]] /\ o[i] \in Key /\ m[o[i]] # None
                         /\ Good(content[i])
  BY <1>2 DEF Mapped, S
<1>5. content \notin Blank
  <2>1. content \in [1..n -> Desc]
    BY <1>4 DEF Good
  <2>2. content \in Seq(Desc)
    BY <1>1, <2>1
  <2> QED
    BY <2>2, IndexAssumption
<1>6. IsIndex(content)
  <2>1. content \in [1..n -> Desc]
    BY <1>4 DEF Good
  <2> QED
    BY <1>1, <2>1 DEF IsIndex
<1>7. OneEntryPerKey(content)
  <2> SUFFICES ASSUME NEW i \in 1..n, NEW j \in 1..n, KeyOf(content[i]) = KeyOf(content[j])
               PROVE  Normalize(content[i]) = Normalize(content[j])
    BY <1>4 DEF OneEntryPerKey
  <2>1. content[i] = content[j]
    BY <1>4 DEF Mapped
  <2> QED
    BY <2>1
<1>8. \A k \in Key : m[k] # None => m[k] \in Recorded(content)
  <2> SUFFICES ASSUME NEW k \in Key, m[k] # None PROVE m[k] \in Recorded(content)
    OBVIOUS
  <2>1. PICK i \in 1..n : o[i] = k
    BY <1>3 DEF S
  <2>2. Normalize(content[i]) \in Recorded(content)
    BY <1>4, <1>5, <1>6, RecordedBy DEF Good
  <2> QED
    BY <1>4, <2>1, <2>2 DEF Good
<1>9. \A d \in Recorded(content) : Good(d) /\ Holds(m, d)
  <2> SUFFICES ASSUME NEW d \in Recorded(content) PROVE Good(d) /\ Holds(m, d)
    OBVIOUS
  <2>1. PICK i \in DOMAIN content : d = Normalize(content[i])
    BY <1>6, RecordedBy
  <2>2. d = content[i]
    BY <1>4, <2>1 DEF Good
  <2> QED
    BY <1>4, <2>2 DEF Holds
<1>10. Shared(content, o, m)
  BY <1>4 DEF Shared
<1> QED
  BY <1>5, <1>6, <1>7, <1>8, <1>9, <1>10

(* Where no save is outstanding, loading yields what index.json says.      *)
LEMMA Loaded ==
  ASSUME Unambiguous, Invariant, ~unsaved
  PROVE  /\ Mapped(LoadedMap)
         /\ \A k \in Key : LoadedMap[k] # None => LoadedMap[k] \in Recorded(file)
         /\ \A d \in Recorded(file) : LoadedMap[KeyOf(d)] = d
         /\ \A k \in Key : LoadedMap[k] # None =>
              KeyOf(LoadedMap[k]) = k \/ LoadedMap[k] = nm[k]
         /\ Shared(file, LoadedSlots, LoadedMap)
<1>1. IsIndex(file) /\ OneEntryPerKey(file)
  BY DEF Invariant, FilesInv
<1>2. ASSUME NEW i \in Positions, Canon[file[i].ref] # None
      PROVE  /\ KeyOf(file[i]) \in Key /\ LoadedMap[KeyOf(file[i])] = Normalize(file[i])
             /\ Normalize(file[i]) \in Recorded(file)
             /\ Good(Normalize(file[i])) /\ KeyOf(Normalize(file[i])) = KeyOf(file[i])
  <2>1. file \notin Blank /\ i \in DOMAIN file
    BY <1>2 DEF Positions
  <2>2. /\ file[i] \in Desc /\ Normalize(file[i]) \in Recorded(file)
        /\ \A j \in DOMAIN file : file[j] \in Desc
    BY <1>1, <1>2, <2>1, RecordedBy
  <2>3. KeyOf(file[i]) \in Key
    BY <1>2, <2>2, Normalized
  <2> DEFINE stored == {j \in Positions : KeyOf(file[j]) = KeyOf(file[i])}
             last   == CHOOSE k \in stored : \A j \in stored : j <= k
  <2>4. last \in stored
    <3>1. file \in Seq(Desc) /\ Positions = 1..Len(file) /\ Len(file) \in Nat
      BY <1>1, <2>1 DEF IsIndex, Positions
    <3>2. stored \subseteq 1..Len(file) /\ stored # {}
      BY <3>1
    <3> HIDE DEF stored
    <3>3. \E k \in stored : \A j \in stored : j <= k
      BY <3>1, <3>2, LastPosition
    <3> QED
      BY <3>3
  <2>5. LoadedMap[KeyOf(file[i])] = Normalize(file[last])
    <3>1. stored # {}
      BY <2>4
    <3> QED
      BY <2>3, <3>1 DEF LoadedMap
  <2>6. Normalize(file[last]) = Normalize(file[i])
    <3> HIDE DEF last
    <3>1. last \in DOMAIN file /\ KeyOf(file[i]) = KeyOf(file[last])
      BY <2>1, <2>4 DEF Positions
    <3> QED
      BY <1>1, <1>2, <2>1, <3>1 DEF OneEntryPerKey
  <2> QED
    BY <1>2, <2>2, <2>3, <2>5, <2>6, Normalized
<1>3. ASSUME NEW k \in Key, ~\E i \in Positions : KeyOf(file[i]) = k
      PROVE  LoadedMap[k] = nm[k]
  <2> DEFINE stored == {i \in Positions : KeyOf(file[i]) = k}
             shared == {i \in Positions \cap DOMAIN slots : slots[i] = k /\ nm[k] # None}
             first  == CHOOSE i \in shared : TRUE
             f      == file[first]
  <2>1. stored = {}
    BY <1>3
  <2>2. CASE shared = {}
    BY <2>1, <2>2 DEF LoadedMap
  <2>3. CASE shared # {}
    <3>1. LoadedMap[k] = [nm[k] EXCEPT !.ref = f.ref, !.kind = IF f.kind = "missing" THEN @ ELSE f.kind]
      BY <2>1, <2>3 DEF LoadedMap
    <3>2. first \in shared
      BY <2>3
    <3> HIDE DEF first
    <3>3. f = nm[k] /\ nm[k] \in Desc
      BY <3>2 DEF Invariant, MapInv, Mapped, SlotsInv, Shared, Positions
    <3> HIDE DEF f, LoadedMap
    <3> QED
      BY <3>1, <3>3 DEF Desc
  <2> QED
    BY <2>2, <2>3
<1>4. ASSUME NEW i \in Positions, KeyOf(file[i]) \in Key PROVE Canon[file[i].ref] # None
  BY <1>4, IndexAssumption DEF KeyOf, Key
<1>5. ASSUME NEW k \in Key
      PROVE  LoadedMap[k] # None => /\ Good(LoadedMap[k]) /\ LoadedMap[k] \in Recorded(file)
                                    /\ KeyOf(LoadedMap[k]) = k \/ LoadedMap[k] = nm[k]
  <2>1. CASE \E i \in Positions : KeyOf(file[i]) = k
    BY <1>2, <1>4, <2>1
  <2>2. CASE ~\E i \in Positions : KeyOf(file[i]) = k
    <3>1. LoadedMap[k] = nm[k]
      BY <1>3, <2>2
    <3> QED
      BY <3>1 DEF Invariant, MapInv, Mapped, CurrentInv
  <2> QED
    BY <2>1, <2>2
<1>6. \A d \in Recorded(file) : LoadedMap[KeyOf(d)] = d
  <2> SUFFICES ASSUME NEW d \in Recorded(file) PROVE LoadedMap[KeyOf(d)] = d
    OBVIOUS
  <2>1. PICK i \in DOMAIN file : file \notin Blank /\ Canon[file[i].ref] # None /\ d = Normalize(file[i])
    BY <1>1, RecordedBy
  <2> QED
    BY <1>2, <2>1 DEF Positions
<1>7. Mapped(LoadedMap)
  <2>1. \A k \in Key : LoadedMap[k] \in Desc \cup {None}
    BY <1>5 DEF Good
  <2>2. LoadedMap = [k \in Key |-> LoadedMap[k]]
    BY DEF LoadedMap
  <2> HIDE DEF LoadedMap
  <2>3. LoadedMap \in [Key -> Desc \cup {None}]
    BY <2>1, <2>2
  <2>4. ASSUME NEW k \in Key, NEW l \in Key, LoadedMap[k] # None, LoadedMap[l] # None,
               KeyOf(LoadedMap[k]) = KeyOf(LoadedMap[l])
        PROVE  LoadedMap[k] = LoadedMap[l]
    BY <1>5, <1>6, <2>4
  <2> QED
    BY <1>5, <2>3, <2>4 DEF Mapped
<1>8. Shared(file, LoadedSlots, LoadedMap)
  <2> SUFFICES ASSUME file \notin Blank, NEW i \in DOMAIN file \cap DOMAIN LoadedSlots,
                      LoadedSlots[i] \in Key, LoadedMap[LoadedSlots[i]] # None
               PROVE  file[i] = LoadedMap[LoadedSlots[i]]
    BY DEF Shared
  <2>1. i \in Positions /\ LoadedSlots[i] # None
    BY IndexAssumption DEF Positions
  <2>2. /\ i \in DOMAIN slots /\ LoadedSlots[i] = slots[i]
        /\ slots[i] \notin {KeyOf(file[j]) : j \in Positions}
    BY <2>1 DEF LoadedSlots
  <2>3. LoadedMap[slots[i]] = nm[slots[i]]
    BY <1>3, <2>2
  <2> HIDE DEF LoadedMap, LoadedSlots
  <2> QED
    BY <2>1, <2>2, <2>3 DEF Invariant, SlotsInv, Shared, Positions
<1> QED
  BY <1>5, <1>6, <1>7, <1>8

(* A save of a map that holds what is promised, whatever its outcome.      *)
LEMMA SaveKeeps ==
  ASSUME Unambiguous, Invariant, up, UNCHANGED <<use, up>>, removing' = None,
         NEW m, Mapped(m), NEW durable \in BOOLEAN, NEW r \in SaveOutcome, Save(m, durable, r),
         NEW A, \A d \in A : Good(d) /\ Holds(m, d), Promise(A, r = "ok" /\ durable)
  PROVE  Invariant'
<1>1. /\ nm' = m /\ unsaved' = (r = "failed") /\ acked' = A /\ due' \in BOOLEAN
      /\ exposed' \in BOOLEAN /\ exposed' = IF r = "ok" THEN ~durable ELSE exposed
      /\ safe' = IF r = "ok" /\ durable THEN A ELSE safe \cap A
      /\ r \in {"ok", "failed", "nosync"}
  BY DEF Save, Promise, SaveOutcome, Invariant, ProcessInv
<1>2. PICK o \in Orders({k \in Key : m[k] # None}) :
        LET content == [i \in DOMAIN o |-> m[o[i]]]
        IN /\ slots' = o
           /\ file' = IF r = "failed" THEN file ELSE content
           /\ r = "failed" => survivors' = survivors
           /\ r = "nosync" => survivors' = survivors \cup {content}
           /\ r = "ok" /\ durable => survivors' = {content}
           /\ r = "ok" /\ ~durable => survivors' = survivors \cup {content, Torn}
  BY DEF Save
<1> PICK content : content = [i \in DOMAIN o |-> m[o[i]]]
  OBVIOUS
<1>3. /\ IsIndex(content) /\ OneEntryPerKey(content) /\ content \notin Blank
      /\ \A k \in Key : m[k] # None => m[k] \in Recorded(content)
      /\ \A d \in Recorded(content) : Good(d) /\ Holds(m, d)
      /\ Shared(content, o, m)
  BY Written
<1>4. A \subseteq Recorded(content)
  <2> SUFFICES ASSUME NEW d \in A PROVE d \in Recorded(content)
    OBVIOUS
  <2>1. d # None /\ \E k \in Key : m[k] = d
    BY GoodKeys DEF Holds
  <2> QED
    BY <1>3, <2>1
<1>5. ProcessInv'
  <2>1. r = "failed" => use.faults
    BY DEF SaveOutcome
  <2> QED
    BY <1>1, <2>1 DEF Invariant, ProcessInv
<1>6. FilesInv'
  <2>1. content # Torn
    BY <1>3 DEF Blank
  <2>2. CASE r = "failed"
    BY <1>1, <1>2, <2>2 DEF Invariant, FilesInv
  <2>3. CASE r = "ok" /\ durable
    <3>1. file' = content /\ survivors' = {content} /\ safe' = A
      BY <1>1, <1>2, <2>3
    <3> QED
      BY <1>3, <1>4, <2>1, <3>1 DEF FilesInv
  <2>4. CASE r = "nosync"
    <3>1. /\ file' = content /\ survivors' = survivors \cup {content} /\ safe' = safe \cap A
          /\ exposed' = exposed
      BY <1>1, <1>2, <2>4
    <3> QED
      BY <1>3, <1>4, <2>1, <3>1 DEF Invariant, FilesInv
  <2>5. CASE r = "ok" /\ ~durable
    <3>1. /\ file' = content /\ survivors' = survivors \cup {content, Torn} /\ safe' = safe \cap A
          /\ exposed' = TRUE
      BY <1>1, <1>2, <2>5
    <3>2. IsIndex(Torn) /\ OneEntryPerKey(Torn)
      BY DEF IsIndex, OneEntryPerKey, Blank
    <3> QED
      BY <1>3, <1>4, <2>1, <3>1, <3>2 DEF Invariant, FilesInv
  <2> QED
    BY <1>1, <2>2, <2>3, <2>4, <2>5
<1>7. MapInv'
  BY <1>1 DEF MapInv
<1>8. CurrentInv' /\ SlotsInv'
  <2>1. CASE r = "failed"
    BY <1>1, <2>1 DEF CurrentInv, SlotsInv
  <2>2. CASE r # "failed"
    <3>1. file' = content /\ slots' = o
      BY <1>2, <2>2
    <3> QED
      BY <1>1, <1>3, <1>4, <3>1 DEF CurrentInv, SlotsInv
  <2> QED
    BY <2>1, <2>2
<1> QED
  BY <1>5, <1>6, <1>7, <1>8 DEF Invariant
-----------------------------------------------------------------------------
(* The steps                                                               *)

(* A process that loads the index, and perhaps opens the store or begins a *)
(* removal.                                                                *)
LEMMA LoadKeeps ==
  ASSUME Unambiguous, Invariant, ~unsaved, removing = None, nm' = LoadedMap, slots' = LoadedSlots,
         removing' \in ({"drop"} \X Key) \cup {None}, up' = TRUE, file # Torn, due' \in BOOLEAN, unsaved' = FALSE,
         UNCHANGED <<use, file, survivors, exposed, acked, safe>>
  PROVE  Invariant'
<1>1. /\ Mapped(LoadedMap)
      /\ \A k \in Key : LoadedMap[k] # None => LoadedMap[k] \in Recorded(file)
      /\ \A d \in Recorded(file) : LoadedMap[KeyOf(d)] = d
      /\ Shared(file, LoadedSlots, LoadedMap)
  BY Loaded
<1>2. \A d \in Recorded(file) : Holds(LoadedMap, d)
  <2>1. \A d \in Recorded(file) : KeyOf(d) \in Key
    BY RecordedBy, GoodKeys DEF Invariant, FilesInv
  <2> QED
    BY <1>1, <2>1 DEF Holds
<1> HIDE DEF LoadedMap, LoadedSlots
<1>3. ProcessInv' /\ FilesInv'
  BY DEF Invariant, ProcessInv, FilesInv
<1>4. MapInv'
  BY <1>1, <1>2 DEF Invariant, MapInv, CurrentInv
<1>5. CurrentInv' /\ SlotsInv'
  BY <1>1, <1>2 DEF Invariant, CurrentInv, SlotsInv
<1> QED
  BY <1>3, <1>4, <1>5 DEF Invariant

(* Adding d under its key, where it clashes with no renamed entry, to a    *)
(* map that holds all that is promised.                                    *)
LEMMA EntryAdded ==
  ASSUME Unambiguous, Invariant, NEW m, Mapped(m), \A e \in acked : Holds(m, e),
         NEW d, Good(d), Free(m, d), NEW n \in [Key -> Desc \cup {None}],
         \A k \in Key : n[k] = IF k = KeyOf(d) THEN d ELSE m[k]
  PROVE  Mapped(n) /\ \A e \in Others(d) \cup {d} : Good(e) /\ Holds(n, e)
<1>1. KeyOf(d) \in Key /\ d \in Desc /\ d # None
  BY GoodKeys
<1>2. \A e \in Others(d) : Good(e) /\ KeyOf(e) # KeyOf(d) /\ e \in acked /\ KeyOf(e) \in Key /\ e # None
  <2>1. \A e \in acked : Good(e)
    BY DEF Invariant, MapInv
  <2> QED
    BY <2>1, GoodKeys DEF Others, SameEntry
<1>3. Mapped(n)
  <2>1. \A k \in Key : n[k] # None => Good(n[k])
    BY <1>1 DEF Mapped
  <2>2. ASSUME NEW k \in Key, m[k] # None, k # KeyOf(d), KeyOf(m[k]) = KeyOf(d)
        PROVE  m[k] = d
    BY <2>2 DEF Free
  <2>3. ASSUME NEW k \in Key, NEW l \in Key, n[k] # None, n[l] # None, KeyOf(n[k]) = KeyOf(n[l])
        PROVE  n[k] = n[l]
    <3>1. CASE k # KeyOf(d) /\ l # KeyOf(d)
      BY <2>3, <3>1 DEF Mapped
    <3>2. CASE k = KeyOf(d) \/ l = KeyOf(d)
      BY <2>2, <2>3, <3>2
    <3> QED
      BY <3>1, <3>2
  <2> QED
    BY <2>1, <2>3 DEF Mapped
<1>4. ASSUME NEW e \in Others(d) PROVE Holds(n, e)
  <2>1. PICK k \in Key : m[k] = e
    BY <1>2 DEF Holds
  <2>2. CASE k # KeyOf(d)
    BY <2>1, <2>2 DEF Holds
  <2>3. CASE k = KeyOf(d)
    <3>1. m[KeyOf(e)] = e
      BY <1>2, <2>1, <2>3 DEF Free
    <3> QED
      BY <1>2, <3>1 DEF Holds
  <2> QED
    BY <2>2, <2>3
<1>5. Holds(n, d)
  BY <1>1 DEF Holds
<1> QED
  BY <1>2, <1>3, <1>4, <1>5

LEMMA AddIndexKeeps ==
  ASSUME Unambiguous, Invariant, UNCHANGED use, NEW d \in use.added, AddIndex(d), Free(nm, d)
  PROVE  Invariant'
<1>1. Good(d) /\ up /\ removing = None
  BY UsesAssumption DEF AddIndex, Idle, Good, Normalize, Desc, Invariant, ProcessInv
<1>2. KeyOf(d) \in Key /\ d # None
  BY <1>1, GoodKeys
<1>3. CASE /\ nm[KeyOf(d)] = d
           /\ Promise(Ack(d, "ok"), FALSE)
           /\ UNCHANGED <<procVars, file, survivors, exposed, unsaved>>
  <2>1. acked' = Others(d) \cup {d} /\ Others(d) \subseteq acked /\ safe' = safe \cap acked'
    BY <1>3 DEF Promise, Ack, Others
  <2>2. ~unsaved => d \in Recorded(file)
    BY <1>2, <1>3 DEF Invariant, CurrentInv
  <2>3. Holds(nm, d)
    BY <1>2, <1>3 DEF Holds
  <2>4. MapInv'
    BY <1>1, <1>3, <2>1, <2>3 DEF Invariant, MapInv, procVars
  <2> QED
    BY <1>1, <1>3, <2>1, <2>2, <2>4
       DEF Invariant, ProcessInv, FilesInv, CurrentInv, SlotsInv, procVars
<1>4. CASE /\ \E r \in SaveOutcome :
                /\ Save([nm EXCEPT ![KeyOf(d)] = d], due, r)
                /\ Promise(Ack(d, r), r = "ok" /\ due)
           /\ UNCHANGED <<up, removing>>
  <2>1. PICK r \in SaveOutcome : /\ Save([nm EXCEPT ![KeyOf(d)] = d], due, r)
                                 /\ Promise(Ack(d, r), r = "ok" /\ due)
    BY <1>4
  <2>2. PICK m : m = nm
    OBVIOUS
  <2>3. PICK n : n = [m EXCEPT ![KeyOf(d)] = d]
    OBVIOUS
  <2>4. Mapped(m) /\ Free(m, d) /\ \A e \in acked : Holds(m, e)
    BY <1>1, <2>2 DEF Invariant, MapInv
  <2>5. n \in [Key -> Desc \cup {None}] /\ \A k \in Key : n[k] = IF k = KeyOf(d) THEN d ELSE m[k]
    BY <1>1, <2>3, <2>4 DEF Good, Mapped
  <2>6. Mapped(n) /\ \A e \in Others(d) \cup {d} : Good(e) /\ Holds(n, e)
    BY <1>1, <2>4, <2>5, EntryAdded
  <2>7. \A e \in Ack(d, r) : Good(e) /\ Holds(n, e)
    BY <2>6 DEF Ack
  <2>8. Save(n, due, r) /\ due \in BOOLEAN /\ UNCHANGED up /\ removing' = None
    BY <1>1, <1>4, <2>1, <2>2, <2>3 DEF Invariant, ProcessInv
  <2> QED
    BY <1>1, <2>1, <2>6, <2>7, <2>8, SaveKeeps
<1> QED
  BY <1>3, <1>4 DEF AddIndex

LEMMA PushRootKeeps ==
  ASSUME Unambiguous, Invariant, UNCHANGED use, NEW d \in use.pushed, PushRoot(d),
         Free(LoadedMap, Normalize(d))
  PROVE  Invariant'
<1>1. PICK r \in SaveOutcome :
        /\ Save([LoadedMap EXCEPT ![<<Raw[d.ref], NormalizeKind(d.kind)>>] = Normalize(d)], due, r)
        /\ Promise(Ack(Normalize(d), r), r = "ok" /\ due)
  BY DEF PushRoot
<1>2. up /\ removing = None /\ ~unsaved /\ due \in BOOLEAN /\ UNCHANGED <<up, removing>>
  BY DEF PushRoot, Idle, Loadable, Invariant, ProcessInv, Unambiguous
<1>3. d \in Desc /\ Canon[d.ref] # None /\ Raw[d.ref] = Canon[d.ref]
  BY UsesAssumption DEF Invariant, ProcessInv, Unambiguous
<1>4. PICK e : e = Normalize(d)
  OBVIOUS
<1>5. Good(e) /\ KeyOf(e) = <<Raw[d.ref], NormalizeKind(d.kind)>>
  BY <1>3, <1>4, Normalized DEF KeyOf
<1>6. PICK m : m = LoadedMap
  OBVIOUS
<1>7. PICK n : n = [m EXCEPT ![KeyOf(e)] = e]
  OBVIOUS
<1>8. Mapped(m) /\ Free(m, e) /\ \A a \in acked : m[KeyOf(a)] = a
  BY <1>2, <1>4, <1>6, Loaded DEF Invariant, CurrentInv
<1>9. \A a \in acked : Holds(m, a)
  <2>1. \A a \in acked : KeyOf(a) \in Key
    BY GoodKeys DEF Invariant, MapInv
  <2> QED
    BY <1>8, <2>1 DEF Holds
<1>10. Mapped(n) /\ \A a \in Ack(e, r) : Good(a) /\ Holds(n, a)
  <2>1. n \in [Key -> Desc \cup {None}] /\ \A k \in Key : n[k] = IF k = KeyOf(e) THEN e ELSE m[k]
    BY <1>5, <1>7, <1>8 DEF Good, Mapped
  <2>2. Mapped(n) /\ \A a \in Others(e) \cup {e} : Good(a) /\ Holds(n, a)
    BY <1>5, <1>8, <1>9, <2>1, EntryAdded
  <2> QED
    BY <2>2 DEF Ack
<1>11. Save(n, due, r) /\ Promise(Ack(e, r), r = "ok" /\ due)
  BY <1>1, <1>4, <1>5, <1>6, <1>7
<1> QED
  BY <1>2, <1>10, <1>11, SaveKeeps

(* A renamed entry is good, and has the new name and its kind.             *)
LEMMA Renamed ==
  ASSUME NEW d, Good(d), NEW new \in Ref, Canon[new] # None,
         NEW e, e = [d EXCEPT !.ref = new]
  PROVE  Good(e) /\ e # None /\ e.ref = new /\ e.kind = d.kind /\ KeyOf(e) = <<Canon[new], d.kind>>
<1>1. d \in Desc /\ NormalizeKind(d.kind) = d.kind
  <2>1. d \in Desc /\ d = [d EXCEPT !.kind = NormalizeKind(d.kind)]
    BY DEF Good, Normalize
  <2> HIDE DEF NormalizeKind
  <2> QED
    BY <2>1 DEF Desc
<1>2. e \in Desc /\ e.ref = new /\ e.kind = d.kind
  BY <1>1 DEF Desc
<1>3. Normalize(e) = e
  BY <1>1, <1>2 DEF Normalize, Desc
<1> QED
  BY <1>1, <1>2, <1>3, IndexAssumption DEF Good, KeyOf

OnKeys(n) == n = [k \in Key |-> n[k]]

(* Renaming every entry named old, where what is named new already is what *)
(* one of them becomes, keeps all entries and leaves no two of one name.   *)
LEMMA EntriesRenamed ==
  ASSUME Unambiguous, NEW m, Mapped(m), NEW old \in Ref, NEW new \in Ref, Canon[new] # None,
         NewName(m, old, new), NEW n, OnKeys(n),
         \A k \in Key : n[k] = IF m[k] # None /\ m[k].ref = old
                                  THEN [m[k] EXCEPT !.ref = new] ELSE m[k]
  PROVE  Mapped(n)
<1>1. ASSUME NEW k \in Key, m[k] # None
      PROVE  /\ Good(m[k]) /\ KeyOf(m[k]) = <<Canon[m[k].ref], m[k].kind>> /\ m[k].ref \in Ref
             /\ Canon[m[k].ref] # None
  <2>1. Good(m[k])
    BY <1>1 DEF Mapped
  <2>2. m[k] \in Desc /\ m[k] = [m[k] EXCEPT !.kind = NormalizeKind(m[k].kind)]
    BY <2>1 DEF Good, Normalize
  <2>3. m[k].kind = NormalizeKind(m[k].kind)
    <3> HIDE DEF NormalizeKind
    <3> QED
      BY <2>2 DEF Desc
  <2> QED
    BY <2>1, <2>2, <2>3 DEF Good, KeyOf, Desc
<1>2. ASSUME NEW k \in Key, m[k] # None, m[k].ref = old
      PROVE  /\ n[k] = [m[k] EXCEPT !.ref = new] /\ Good(n[k]) /\ n[k].ref = new
             /\ n[k].kind = m[k].kind /\ KeyOf(n[k]) = <<Canon[new], m[k].kind>>
  <2>1. Good(m[k]) /\ n[k] = [m[k] EXCEPT !.ref = new]
    BY <1>1, <1>2
  <2> QED
    BY <2>1, Renamed
<1>3. ASSUME NEW k \in Key, NEW l \in Key, m[k] # None, m[l] # None, m[k].ref = old, m[l].ref # old,
             KeyOf(n[k]) = KeyOf(n[l])
      PROVE  n[k] = n[l]
  <2>1. n[l] = m[l]
    BY <1>3
  <2>2. <<Canon[new], m[k].kind>> = <<Canon[m[l].ref], m[l].kind>>
    <3>1. KeyOf(n[k]) = <<Canon[new], m[k].kind>>
      BY <1>2, <1>3
    <3>2. KeyOf(m[l]) = <<Canon[m[l].ref], m[l].kind>>
      BY <1>1, <1>3
    <3>3. KeyOf(n[k]) = KeyOf(m[l])
      BY <1>3, <2>1
    <3> QED
      BY <3>1, <3>2, <3>3
  <2>3. m[l].ref = new /\ m[k].kind = m[l].kind
    BY <1>1, <1>3, <2>2 DEF Unambiguous
  <2>4. m[l] = [m[k] EXCEPT !.ref = new]
    BY <1>3, <2>3 DEF NewName
  <2> QED
    BY <1>2, <1>3, <2>1, <2>4
<1>4. ASSUME NEW k \in Key, NEW l \in Key, m[k] # None, m[l] # None, m[k].ref = old, m[l].ref = old,
             KeyOf(n[k]) = KeyOf(n[l])
      PROVE  n[k] = n[l]
  <2>1. m[k].kind = m[l].kind
    <3>1. <<Canon[new], m[k].kind>> = <<Canon[new], m[l].kind>>
      BY <1>2, <1>4, Zenon
    <3> QED
      BY <3>1
  <2>2. KeyOf(m[k]) = KeyOf(m[l])
    BY <1>1, <1>4, <2>1
  <2>3. m[k] = m[l]
    BY <1>4, <2>2 DEF Mapped
  <2>4. n[k] = [m[k] EXCEPT !.ref = new] /\ n[l] = [m[l] EXCEPT !.ref = new]
    BY <1>2, <1>4
  <2> QED
    BY ONLY <2>3, <2>4
<1>5. \A k \in Key : n[k] # None => m[k] # None /\ Good(n[k])
  BY <1>1, <1>2
<1>6. ASSUME NEW k \in Key, NEW l \in Key, n[k] # None, n[l] # None, KeyOf(n[k]) = KeyOf(n[l])
      PROVE  n[k] = n[l]
  <2>1. m[k] # None /\ m[l] # None
    BY <1>5, <1>6
  <2>2. CASE m[k].ref # old /\ m[l].ref # old
    <3>1. n[k] = m[k] /\ n[l] = m[l]
      BY <2>2
    <3> QED
      BY <1>6, <3>1 DEF Mapped
  <2>3. CASE m[k].ref = old \/ m[l].ref = old
    BY <1>3, <1>4, <1>6, <2>1, <2>3
  <2> QED
    BY <2>2, <2>3
<1>7. n \in [Key -> Desc \cup {None}]
  <2>1. \A k \in Key : n[k] \in Desc \cup {None}
    BY <1>5 DEF Good
  <2> QED
    BY <2>1 DEF OnKeys
<1> QED
  BY <1>5, <1>6, <1>7 DEF Mapped

LEMMA UpdateAnnotationsKeeps ==
  ASSUME Unambiguous, Invariant, UNCHANGED use, NEW rw \in use.rewrites,
         UpdateAnnotations(rw[1], rw[2]), NewName(LoadedMap, rw[1], rw[2])
  PROVE  Invariant'
<1>1. PICK old \in Ref, new \in Ref : old = rw[1] /\ new = rw[2] /\ Canon[new] # None
  BY UsesAssumption DEF Invariant, ProcessInv, Unambiguous
<1>2. PICK m : m = LoadedMap
  OBVIOUS
<1>3. UpdateAnnotations(old, new) /\ NewName(m, old, new)
  BY <1>1, <1>2
<1>4. up /\ file # Torn /\ removing = None /\ ~unsaved /\ UNCHANGED <<up, removing>>
  BY <1>3 DEF UpdateAnnotations, Idle, Loadable, Invariant, ProcessInv, FilesInv, Unambiguous
<1> DEFINE matched   == {k \in Key : m[k] # None /\ m[k].ref = old}
           rename(d) == IF d.ref = old THEN [d EXCEPT !.ref = new] ELSE d
<1>5. CASE /\ nm' = LoadedMap
           /\ slots' = LoadedSlots
           /\ UNCHANGED <<due, file, survivors, exposed, acked, safe, unsaved>>
  <2>1. unsaved' = FALSE /\ up' = TRUE /\ due' \in BOOLEAN
    BY <1>4, <1>5 DEF Invariant, ProcessInv
  <2> QED
    BY <1>4, <1>5, <2>1, LoadKeeps
<1>6. CASE \E r \in SaveOutcome :
             /\ Save([k \in Key |-> IF k \in matched THEN rename(m[k]) ELSE m[k]], TRUE, r)
             /\ Promise(IF r = "ok" THEN {rename(d) : d \in acked}
                                    ELSE {d \in acked : d.ref # old}, r = "ok")
  <2>1. PICK r \in SaveOutcome :
          /\ Save([k \in Key |-> IF k \in matched THEN rename(m[k]) ELSE m[k]], TRUE, r)
          /\ Promise(IF r = "ok" THEN {rename(d) : d \in acked}
                                 ELSE {d \in acked : d.ref # old}, r = "ok")
    BY <1>6
  <2>2. PICK n : n = [k \in Key |-> IF k \in matched THEN rename(m[k]) ELSE m[k]]
    OBVIOUS
  <2>3. PICK A : A = IF r = "ok" THEN {rename(d) : d \in acked} ELSE {d \in acked : d.ref # old}
    OBVIOUS
  <2>4. /\ Mapped(m)
        /\ \A d \in acked : m[KeyOf(d)] = d /\ Good(d) /\ KeyOf(d) \in Key /\ d # None
    <3>1. Mapped(m) /\ \A d \in acked : m[KeyOf(d)] = d
      BY <1>2, <1>4, Loaded DEF Invariant, CurrentInv
    <3>2. \A d \in acked : Good(d)
      BY DEF Invariant, MapInv
    <3> QED
      BY <3>1, <3>2, GoodKeys
  <2>5. \A k \in Key : n[k] = IF m[k] # None /\ m[k].ref = old
                                THEN [m[k] EXCEPT !.ref = new] ELSE m[k]
    BY <2>2
  <2>6. ASSUME NEW d, Good(d) PROVE Good(rename(d))
    <3>1. CASE d.ref = old
      BY <1>1, <2>6, <3>1, Renamed DEF Good
    <3>2. CASE d.ref # old
      BY <2>6, <3>2 DEF Good
    <3> QED
      BY <3>1, <3>2
  <2>7. OnKeys(n)
    BY <2>2 DEF OnKeys
  <2>8. Mapped(n)
    <3>1. Mapped(m) /\ Canon[new] # None /\ NewName(m, old, new)
      BY <1>1, <1>3, <2>4
    <3> HIDE DEF matched, rename
    <3> QED
      BY <2>5, <2>7, <3>1, EntriesRenamed, Zenon
  <2>9. ASSUME NEW d \in acked
        PROVE  Holds(n, rename(d)) /\ Good(rename(d))
    <3>1. n[KeyOf(d)] = rename(d)
      BY <2>4, <2>5
    <3> QED
      BY <2>4, <2>6, <3>1 DEF Holds
  <2>10. \A d \in A : Good(d) /\ Holds(n, d)
    <3>1. CASE r = "ok"
      BY <2>3, <2>9, <3>1
    <3>2. CASE r # "ok"
      <4>1. A \subseteq acked /\ \A d \in A : rename(d) = d
        BY <2>3, <3>2
      <4> HIDE DEF rename
      <4> QED
        BY <2>9, <4>1
    <3> QED
      BY <3>1, <3>2
  <2>11. (r = "ok" /\ TRUE) = (r = "ok")
    OBVIOUS
  <2>12. Save(n, TRUE, r) /\ Promise(A, r = "ok" /\ TRUE)
    BY <2>1, <2>2, <2>3, <2>11
  <2> QED
    BY <1>4, <2>8, <2>10, <2>12, SaveKeeps
<1> QED
  BY <1>2, <1>3, <1>5, <1>6, Zenon DEF UpdateAnnotations

(* Saving nameMap as it is.                                                *)
LEMMA SaveIndexKeeps ==
  ASSUME Unambiguous, Invariant, up, UNCHANGED <<use, up>>, removing' = None,
         \E r \in SaveOutcome : Save(nm, TRUE, r) /\ Promise(acked, r = "ok")
  PROVE  Invariant'
<1>1. PICK r \in SaveOutcome : Save(nm, TRUE, r) /\ Promise(acked, r = "ok")
  OBVIOUS
<1>2. PICK m : m = nm
  OBVIOUS
<1>3. PICK A : A = acked
  OBVIOUS
<1>4. Mapped(m) /\ \A d \in A : Good(d) /\ Holds(m, d)
  BY <1>2, <1>3 DEF Invariant, MapInv
<1>5. (r = "ok" /\ TRUE) = (r = "ok")
  OBVIOUS
<1>6. Save(m, TRUE, r) /\ Promise(A, r = "ok" /\ TRUE)
  BY <1>1, <1>2, <1>3, <1>5
<1> QED
  BY <1>4, <1>6, SaveKeeps

LEMMA OpenKeeps ==
  ASSUME Unambiguous, Invariant, UNCHANGED use, Open
  PROVE  Invariant'
<1>1. /\ up' = TRUE /\ nm' = LoadedMap /\ slots' = LoadedSlots /\ due' = TRUE /\ unsaved' = FALSE
      /\ UNCHANGED <<removing, file, survivors, exposed, acked, safe>> /\ removing = None /\ ~unsaved
      /\ file # Torn
  BY DEF Open, Invariant, ProcessInv
<1> QED
  BY <1>1, LoadKeeps

LEMMA LookupKeeps ==
  ASSUME Unambiguous, Invariant, UNCHANGED use, Lookup
  PROVE  Invariant'
<1>1. /\ up' = TRUE /\ nm' = LoadedMap /\ slots' = LoadedSlots /\ due' \in BOOLEAN /\ unsaved' = FALSE
      /\ UNCHANGED <<removing, file, survivors, exposed, acked, safe>> /\ removing = None /\ ~unsaved
      /\ file # Torn
  BY DEF Lookup, Idle, Loadable, Invariant, ProcessInv, FilesInv, Unambiguous
<1> QED
  BY <1>1, LoadKeeps

LEMMA RemoveLoadKeeps ==
  ASSUME Unambiguous, Invariant, UNCHANGED use, NEW k \in Key, RemoveLoad(k)
  PROVE  Invariant'
<1>1. /\ up' = TRUE /\ nm' = LoadedMap /\ slots' = LoadedSlots /\ due' \in BOOLEAN /\ unsaved' = FALSE
      /\ UNCHANGED <<file, survivors, exposed, acked, safe>> /\ removing = None /\ ~unsaved
      /\ removing' = <<"drop", k>> /\ file # Torn
  BY DEF RemoveLoad, Idle, Loadable, Invariant, ProcessInv, FilesInv, Unambiguous
<1> QED
  BY <1>1, LoadKeeps

LEMMA RemoveFromIndexKeeps ==
  ASSUME Unambiguous, Invariant, UNCHANGED use, RemoveFromIndex
  PROVE  Invariant'
<1>1. /\ up /\ removing # None /\ removing[1] = "drop" /\ removing \in {"drop", "save"} \X Key /\ ~unsaved
      /\ nm' = [nm EXCEPT ![removing[2]] = None] /\ removing' = <<"save", removing[2]>>
      /\ acked' = {d \in acked : KeyOf(d) # removing[2]} /\ safe' = safe \cap acked'
      /\ UNCHANGED <<up, slots, due, file, survivors, exposed, unsaved>>
  BY DEF RemoveFromIndex, Promise, Invariant, ProcessInv
<1>2. PICK k \in Key : k = removing[2]
  BY <1>1
<1>3. /\ removing' \in {"drop", "save"} \X Key /\ removing' # None /\ removing'[1] = "save"
  BY <1>1, <1>2, IndexAssumption
<1>4. \A j \in Key : nm'[j] = IF j = k THEN None ELSE nm[j]
  BY <1>1, <1>2 DEF Invariant, MapInv, Mapped
<1>5. \A d \in acked' : /\ d \in acked /\ Good(d) /\ KeyOf(d) # k /\ KeyOf(d) \in Key
                        /\ nm[KeyOf(d)] = d
  <2>1. \A d \in acked : Good(d)
    BY DEF Invariant, MapInv
  <2>2. \A d \in acked : nm[KeyOf(d)] = d
    BY <1>1 DEF Invariant, CurrentInv
  <2> QED
    BY <1>1, <1>2, <2>1, <2>2, GoodKeys
<1>6. ProcessInv'
  BY <1>1, <1>3 DEF Invariant, ProcessInv
<1>7. FilesInv'
  BY <1>1 DEF Invariant, FilesInv
<1>8. MapInv'
  <2>1. Mapped(nm')
    BY <1>1, <1>2, <1>4 DEF Invariant, MapInv, Mapped
  <2>2. \A d \in acked' : Good(d) /\ Holds(nm', d)
    BY <1>4, <1>5 DEF Holds
  <2> QED
    BY <1>1, <2>1, <2>2 DEF MapInv
<1>9. CurrentInv'
  BY <1>1, <1>3, <1>4 DEF Invariant, CurrentInv
<1>10. SlotsInv'
  BY <1>1, <1>4 DEF Invariant, SlotsInv, Shared
<1> QED
  BY <1>6, <1>7, <1>8, <1>9, <1>10 DEF Invariant

LEMMA IntervalPassesKeeps ==
  ASSUME Invariant, UNCHANGED use, IntervalPasses
  PROVE  Invariant'
BY DEF IntervalPasses, Invariant, ProcessInv, FilesInv, MapInv, CurrentInv, SlotsInv

LEMMA StoppedMap ==
  /\ Mapped(EmptyMap) /\ \A k \in Key : EmptyMap[k] = None
  /\ \A f, s : Shared(f, s, EmptyMap)
BY DEF EmptyMap, Mapped, Shared

LEMMA ExitKeeps ==
  ASSUME Invariant, UNCHANGED use, Exit
  PROVE  Invariant'
<1>1. /\ Stop /\ UNCHANGED <<file, survivors, exposed>> /\ safe' = safe \cap acked' /\ acked' \subseteq acked
      /\ acked' = IF unsaved THEN acked \cap Recorded(file) ELSE acked
  BY DEF Exit, Promise
<1>2. acked' \subseteq Recorded(file)
  BY <1>1 DEF Invariant, CurrentInv
<1> QED
  BY <1>1, <1>2, StoppedMap DEF Stop, Invariant, ProcessInv, FilesInv, MapInv, CurrentInv, SlotsInv

LEMMA PowerLossKeeps ==
  ASSUME Invariant, UNCHANGED use, PowerLoss
  PROVE  Invariant'
<1>1. /\ Stop /\ file' \in survivors /\ survivors' = {file'} /\ exposed' = (file' = Torn)
      /\ acked' = IF file' = Torn THEN {} ELSE safe
      /\ safe' = acked'
  BY DEF PowerLoss, Promise
<1>2. ProcessInv' /\ FilesInv' /\ CurrentInv' /\ SlotsInv'
  <2>1. file' # Torn => safe \subseteq Recorded(file')
    BY <1>1 DEF Invariant, FilesInv
  <2> QED
    BY <1>1, <2>1, StoppedMap DEF Stop, Invariant, ProcessInv, FilesInv, CurrentInv, SlotsInv
<1>3. MapInv'
  BY <1>1, StoppedMap DEF Stop, Invariant, MapInv
<1> QED
  BY <1>2, <1>3 DEF Invariant
-----------------------------------------------------------------------------
(* The specification                                                       *)

LEMMA InitInvariant ==
  ASSUME Unambiguous, Init
  PROVE  Invariant
<1>1. IsIndex(file) /\ file # Torn /\ OneEntryPerKey(file)
  BY UsesAssumption DEF Init, Unambiguous
<1>2. \A d \in Recorded(file) : Good(d)
  BY <1>1, RecordedBy
<1> QED
  BY <1>1, <1>2, StoppedMap DEF Init, Invariant, ProcessInv, FilesInv, MapInv, CurrentInv, SlotsInv

LEMMA NextInvariant ==
  ASSUME Unambiguous, Invariant, [Next]_vars, [NoClash]_vars
  PROVE  Invariant'
<1>1. CASE UNCHANGED vars
  BY <1>1 DEF vars, Invariant, ProcessInv, FilesInv, MapInv, CurrentInv, SlotsInv
<1> SUFFICES ASSUME Operation, UNCHANGED use, NoClash PROVE Invariant'
  BY <1>1 DEF Next
<1>2. CASE Open
  BY <1>2, OpenKeeps
<1>3. CASE Lookup
  BY <1>3, LookupKeeps
<1>4. CASE SaveIndex
  BY <1>4, SaveIndexKeeps DEF SaveIndex, Idle
<1>5. CASE RemoveFromIndex
  BY <1>5, RemoveFromIndexKeeps
<1>6. CASE RemoveSave
  BY <1>6, SaveIndexKeeps DEF RemoveSave
<1>7. CASE \E d \in use.added : AddIndex(d)
  BY <1>7, AddIndexKeeps DEF NoClash
<1>8. CASE \E d \in use.pushed : PushRoot(d)
  BY <1>8, PushRootKeeps DEF NoClash
<1>9. CASE \E rw \in use.rewrites : UpdateAnnotations(rw[1], rw[2])
  BY <1>9, UpdateAnnotationsKeeps DEF NoClash
<1>10. CASE \E k \in Key : RemoveLoad(k)
  BY <1>10, RemoveLoadKeeps
<1>11. CASE IntervalPasses \/ Exit \/ PowerLoss
  BY <1>11, IntervalPassesKeeps, ExitKeeps, PowerLossKeeps
<1> QED
  BY <1>2, <1>3, <1>4, <1>5, <1>6, <1>7, <1>8, <1>9, <1>10, <1>11 DEF Operation

LEMMA InvariantHolds ==
  ASSUME Unambiguous
  PROVE  Spec /\ [][NoClash]_vars => []Invariant
<1>1. Init => Invariant
  BY InitInvariant
<1>2. Invariant /\ [Next]_vars /\ [NoClash]_vars => Invariant'
  BY NextInvariant
<1> QED
  BY <1>1, <1>2, PTL DEF Spec

(* While no save is outstanding, index.json has all that was reported as   *)
(* added, pushed or renamed and was not removed or replaced                *)
(* (saveIndexLocked).                                                      *)
THEOREM AckedIsSaved ==
  ASSUME Unambiguous
  PROVE  Spec /\ [][NoClash]_vars => []SavedWhenNotBehind
<1>1. Invariant => SavedWhenNotBehind
  BY DEF Invariant, CurrentInv, SavedWhenNotBehind
<1> QED
  BY <1>1, InvariantHolds, PTL

(* Where writing index.json does not fail, it always has all that was      *)
(* promised: what RenameLost loses is lost to a clash, and to nothing else *)
(* (UpdateAnnotations, AddIndex).                                          *)
THEOREM OnlyClashesLose ==
  ASSUME Unambiguous, \A u \in Uses : ~u.faults
  PROVE  Spec /\ [][NoClash]_vars => []AckedInIndex
<1>1. Invariant => AckedInIndex
  BY DEF Invariant, ProcessInv, CurrentInv, AckedInIndex
<1> QED
  BY <1>1, InvariantHolds, PTL

(* Whatever index.json a power loss leaves, if it can be read it has what  *)
(* was promised at the last checkpoint (SaveIndex); it can be read where   *)
(* nothing was saved without an fsync since (saveIndexCheckpointLocked).   *)
THEOREM CheckpointsHold ==
  ASSUME Unambiguous
  PROVE  Spec /\ [][NoClash]_vars => []CheckpointSurvives
<1>1. Invariant => CheckpointSurvives
  BY DEF Invariant, FilesInv, CheckpointSurvives
<1> QED
  BY <1>1, InvariantHolds, PTL

(* A process that is not behind on a save holds what a process that opens  *)
(* the store now would (loadIndexLocked).                                  *)
THEOREM MemoryIsDisk ==
  ASSUME Unambiguous
  PROVE  Spec /\ [][NoClash]_vars => []MemoryMatchesDisk
<1>1. Invariant => MemoryMatchesDisk
  <2> SUFFICES ASSUME Invariant, up, removing = None, ~unsaved
               PROVE  {nm[k] : k \in Key} \ {None} = Recorded(file)
    BY DEF MemoryMatchesDisk
  <2>1. \A k \in Key : nm[k] # None => nm[k] \in Recorded(file)
    BY DEF Invariant, CurrentInv
  <2>2. \A d \in Recorded(file) : d # None /\ \E k \in Key : nm[k] = d
    <3>1. \A d \in Recorded(file) : d # None
      BY RecordedBy, GoodKeys DEF Invariant, FilesInv
    <3> QED
      BY <3>1 DEF Invariant, CurrentInv, Holds
  <2> QED
    BY <2>1, <2>2
<1> QED
  BY <1>1, InvariantHolds, PTL
-----------------------------------------------------------------------------
(* Names kept apart                                                        *)

(* One way to be sure that nothing clashes: what is renamed is not added   *)
(* again, no name is the target of two renames or renamed in turn, and     *)
(* nothing has a target's name at first.                                   *)
Apart ==
  \A u \in Uses : \A rw \in u.rewrites :
    /\ \A rv \in u.rewrites : rw[1] # rv[2] /\ (rw[2] = rv[2] => rw = rv)
    /\ \A d \in u.added \cup u.pushed : d.ref \notin {rw[1], rw[2]}
    /\ \A f \in u.init : \A d \in Recorded(f) : d.ref # rw[2]

(* Not both of an old name and what it is renamed to.                      *)
OldOrNew(S) == \A rw \in use.rewrites : ~\E d, e \in S : d.ref = rw[1] /\ e.ref = rw[2]

Held(m) == {m[k] : k \in Key} \ {None}

(* Only a renamed entry is under another key, that of its old name.        *)
ApartMap(m) ==
  /\ OldOrNew(Held(m))
  /\ \A k \in Key : m[k] # None =>
       KeyOf(m[k]) = k \/ \E rw \in use.rewrites : m[k].ref = rw[2] /\ k[1] = Canon[rw[1]]

ApartInv == ApartMap(nm) /\ \A f \in survivors : OldOrNew(Recorded(f))

(* Storing d clashes with nothing, and keeps names apart.                  *)
LEMMA ApartAdd ==
  ASSUME Unambiguous, Apart, Invariant, NEW m, Mapped(m), ApartMap(m),
         NEW d, Good(d), \A rw \in use.rewrites : d.ref \notin {rw[1], rw[2]},
         NEW n \in [Key -> Desc \cup {None}],
         \A k \in Key : n[k] = IF k = KeyOf(d) THEN d ELSE m[k]
  PROVE  Free(m, d) /\ ApartMap(n)
<1>1. KeyOf(d) \in Key /\ d # None /\ d.ref \in Ref /\ KeyOf(d)[1] = Canon[d.ref] /\ Canon[d.ref] # None
  BY GoodKeys DEF Good, KeyOf, Desc
<1>2. \A k \in Key : m[k] # None => m[k].ref \in Ref /\ KeyOf(m[k])[1] = Canon[m[k].ref]
  BY DEF Mapped, Good, KeyOf, Desc
<1>3. Free(m, d)
  <2> SUFFICES ASSUME NEW k \in Key, m[k] # None, KeyOf(m[k]) # k
               PROVE  KeyOf(m[k]) # KeyOf(d) /\ k # KeyOf(d)
    BY DEF Free
  <2>1. PICK rw \in use.rewrites : m[k].ref = rw[2] /\ k[1] = Canon[rw[1]]
    BY DEF ApartMap
  <2>2. rw \in Ref \X Ref
    BY UsesAssumption DEF Invariant, ProcessInv
  <2>3. KeyOf(m[k]) # KeyOf(d)
    BY <1>1, <1>2, <2>1 DEF Unambiguous
  <2>4. k # KeyOf(d)
    BY <1>1, <2>1, <2>2 DEF Unambiguous
  <2> QED
    BY <2>3, <2>4
<1>4. Held(n) \subseteq Held(m) \cup {d}
  BY DEF Held
<1>5. OldOrNew(Held(n))
  BY <1>4 DEF OldOrNew, ApartMap
<1>6. \A k \in Key : n[k] # None =>
        KeyOf(n[k]) = k \/ \E rw \in use.rewrites : n[k].ref = rw[2] /\ k[1] = Canon[rw[1]]
  BY DEF ApartMap
<1> QED
  BY <1>3, <1>5, <1>6 DEF ApartMap

LEMMA ApartRename ==
  ASSUME Unambiguous, Apart, Invariant, NEW m, Mapped(m), ApartMap(m), NEW rw \in use.rewrites,
         NEW n, \A k \in Key : n[k] = IF m[k] # None /\ m[k].ref = rw[1]
                                        THEN [m[k] EXCEPT !.ref = rw[2]] ELSE m[k]
  PROVE  NewName(m, rw[1], rw[2]) /\ ApartMap(n)
<1>1. /\ rw \in Ref \X Ref /\ rw[1] # rw[2] /\ Canon[rw[2]] # None
      /\ \A rv \in use.rewrites : rw[1] # rv[2] /\ rv[1] # rw[2] /\ (rw[2] = rv[2] => rw = rv)
  BY UsesAssumption DEF Invariant, ProcessInv, Apart, Unambiguous
<1>2. \A k, l \in Key : \A rv \in use.rewrites :
        ~(m[k] # None /\ m[l] # None /\ m[k].ref = rv[1] /\ m[l].ref = rv[2])
  BY DEF ApartMap, OldOrNew, Held
<1>3. NewName(m, rw[1], rw[2])
  BY <1>2 DEF NewName
<1>4. ASSUME NEW k \in Key, m[k] # None, m[k].ref = rw[1]
      PROVE  n[k] # None /\ n[k].ref = rw[2] /\ k[1] = Canon[rw[1]]
  <2>1. Good(m[k]) /\ n[k] = [m[k] EXCEPT !.ref = rw[2]]
    BY <1>4 DEF Mapped
  <2>2. n[k] # None /\ n[k].ref = rw[2]
    BY <1>1, <2>1, Renamed
  <2>3. KeyOf(m[k]) = k
    BY <1>1, <1>4 DEF ApartMap
  <2> QED
    BY <1>4, <2>2, <2>3 DEF KeyOf
<1>5. ASSUME NEW k \in Key, ~(m[k] # None /\ m[k].ref = rw[1]) PROVE n[k] = m[k]
  BY <1>5
<1>6. OldOrNew(Held(n))
  <2> SUFFICES ASSUME NEW rv \in use.rewrites, NEW k \in Key, NEW l \in Key,
                      n[k] # None, n[l] # None, n[k].ref = rv[1], n[l].ref = rv[2]
               PROVE  FALSE
    BY DEF OldOrNew, Held
  <2>1. m[k] # None /\ m[k].ref # rw[1] /\ n[k] = m[k]
    BY <1>1, <1>4, <1>5
  <2>2. CASE m[l] # None /\ m[l].ref = rw[1]
    BY <1>1, <1>4, <2>1, <2>2
  <2>3. CASE ~(m[l] # None /\ m[l].ref = rw[1])
    BY <1>2, <1>5, <2>1, <2>3
  <2> QED
    BY <2>2, <2>3
<1>7. \A k \in Key : n[k] # None =>
        KeyOf(n[k]) = k \/ \E rv \in use.rewrites : n[k].ref = rv[2] /\ k[1] = Canon[rv[1]]
  <2> SUFFICES ASSUME NEW k \in Key, n[k] # None
               PROVE  KeyOf(n[k]) = k \/ \E rv \in use.rewrites : n[k].ref = rv[2] /\ k[1] = Canon[rv[1]]
    OBVIOUS
  <2>1. CASE m[k] # None /\ m[k].ref = rw[1]
    BY <1>4, <2>1
  <2>2. CASE ~(m[k] # None /\ m[k].ref = rw[1])
    BY <1>5, <2>2 DEF ApartMap
  <2> QED
    BY <2>1, <2>2
<1> QED
  BY <1>3, <1>6, <1>7 DEF ApartMap

LEMMA ApartLoad ==
  ASSUME Unambiguous, Invariant, ApartInv, ~unsaved
  PROVE  ApartMap(LoadedMap)
<1>1. /\ \A k \in Key : LoadedMap[k] # None => LoadedMap[k] \in Recorded(file)
      /\ \A k \in Key : LoadedMap[k] # None => KeyOf(LoadedMap[k]) = k \/ LoadedMap[k] = nm[k]
  BY Loaded
<1> HIDE DEF LoadedMap
<1>2. Held(LoadedMap) \subseteq Recorded(file)
  BY <1>1 DEF Held
<1>3. OldOrNew(Recorded(file))
  BY DEF ApartInv, Invariant, FilesInv
<1>4. OldOrNew(Held(LoadedMap))
  BY <1>2, <1>3 DEF OldOrNew
<1> QED
  BY <1>1, <1>4 DEF ApartInv, ApartMap

(* A save writes names as far apart as the map it saves.                   *)
LEMMA ApartSave ==
  ASSUME Unambiguous, Invariant, ApartInv, UNCHANGED use, NEW m, Mapped(m), ApartMap(m),
         NEW durable, NEW r, Save(m, durable, r)
  PROVE  ApartInv'
<1>1. PICK o \in Orders({k \in Key : m[k] # None}) :
        LET content == [i \in DOMAIN o |-> m[o[i]]]
        IN survivors' \subseteq survivors \cup {content, Torn}
  BY DEF Save
<1> PICK content : content = [i \in DOMAIN o |-> m[o[i]]]
  OBVIOUS
<1>2. \A d \in Recorded(content) : Good(d) /\ Holds(m, d)
  BY Written
<1>3. Recorded(content) \subseteq Held(m)
  BY <1>2, GoodKeys DEF Holds, Held
<1>4. \A f \in survivors' : OldOrNew(Recorded(f))
  <2>1. Recorded(Torn) = {}
    BY DEF Recorded, Entries, Blank
  <2> QED
    BY <1>1, <1>3, <2>1 DEF ApartInv, ApartMap, OldOrNew
<1>5. nm' = m
  BY DEF Save
<1>6. ApartMap(nm)'
  BY <1>5 DEF ApartMap, OldOrNew
<1>7. (\A f \in survivors : OldOrNew(Recorded(f)))'
  BY <1>4 DEF OldOrNew
<1> QED
  BY <1>6, <1>7 DEF ApartInv

LEMMA ApartAddIndex ==
  ASSUME Unambiguous, Apart, Invariant, ApartInv, UNCHANGED use, NEW d \in use.added, AddIndex(d)
  PROVE  Free(nm, d) /\ ApartInv'
<1>1. Good(d)
  BY UsesAssumption DEF Good, Normalize, Desc, Invariant, ProcessInv
<1>2. \A rw \in use.rewrites : d.ref \notin {rw[1], rw[2]}
  BY DEF Apart, Invariant, ProcessInv
<1>3. PICK m : m = nm
  OBVIOUS
<1>4. PICK n : n = [m EXCEPT ![KeyOf(d)] = d]
  OBVIOUS
<1>5. Mapped(m) /\ ApartMap(m)
  BY <1>3 DEF Invariant, MapInv, ApartInv
<1>6. n \in [Key -> Desc \cup {None}] /\ \A k \in Key : n[k] = IF k = KeyOf(d) THEN d ELSE m[k]
  BY <1>1, <1>4, <1>5 DEF Good, Mapped
<1>7. Free(m, d) /\ ApartMap(n)
  BY <1>1, <1>2, <1>5, <1>6, ApartAdd
<1>8. CASE UNCHANGED <<procVars, file, survivors, exposed, unsaved>>
  <2>1. UNCHANGED <<use, nm, survivors>>
    BY <1>8 DEF procVars
  <2> QED
    BY <1>3, <1>7, <2>1 DEF ApartInv, ApartMap, OldOrNew
<1>9. CASE \E r \in SaveOutcome : Save(n, due, r)
  <2>1. up /\ \A e \in acked : Holds(m, e)
    BY <1>3 DEF AddIndex, Idle, Invariant, MapInv
  <2>2. Mapped(n)
    BY <1>1, <1>5, <1>6, <1>7, <2>1, EntryAdded
  <2> QED
    BY <1>3, <1>7, <1>9, <2>2, ApartSave
<1> QED
  BY <1>3, <1>4, <1>7, <1>8, <1>9 DEF AddIndex

LEMMA ApartPushRoot ==
  ASSUME Unambiguous, Apart, Invariant, ApartInv, UNCHANGED use, NEW d \in use.pushed, PushRoot(d)
  PROVE  Free(LoadedMap, Normalize(d)) /\ ApartInv'
<1>1. PICK r \in SaveOutcome :
        Save([LoadedMap EXCEPT ![<<Raw[d.ref], NormalizeKind(d.kind)>>] = Normalize(d)], due, r)
  BY DEF PushRoot
<1>2. ~unsaved
  BY DEF PushRoot, Idle, Loadable, Invariant, ProcessInv, Unambiguous
<1>3. /\ d \in Desc /\ Canon[d.ref] # None /\ Raw[d.ref] = Canon[d.ref]
      /\ \A rw \in use.rewrites : d.ref \notin {rw[1], rw[2]}
  BY UsesAssumption DEF Invariant, ProcessInv, Unambiguous, Apart
<1>4. PICK e : e = Normalize(d)
  OBVIOUS
<1>5. Good(e) /\ KeyOf(e) = <<Raw[d.ref], NormalizeKind(d.kind)>> /\ e.ref = d.ref
  BY <1>3, <1>4, Normalized DEF KeyOf
<1>6. PICK m : m = LoadedMap
  OBVIOUS
<1>7. PICK n : n = [m EXCEPT ![KeyOf(e)] = e]
  OBVIOUS
<1>8. Mapped(m) /\ ApartMap(m) /\ \A a \in acked : Holds(m, a)
  <2>1. \A a \in acked : m[KeyOf(a)] = a
    BY <1>2, <1>6, Loaded DEF Invariant, CurrentInv
  <2>2. \A a \in acked : KeyOf(a) \in Key
    BY GoodKeys DEF Invariant, MapInv
  <2> QED
    BY <1>2, <1>6, <2>1, <2>2, Loaded, ApartLoad DEF Holds
<1>9. n \in [Key -> Desc \cup {None}] /\ \A k \in Key : n[k] = IF k = KeyOf(e) THEN e ELSE m[k]
  BY <1>5, <1>7, <1>8 DEF Good, Mapped
<1>10. Free(m, e) /\ ApartMap(n)
  BY <1>3, <1>5, <1>8, <1>9, ApartAdd
<1>11. Mapped(n)
  BY <1>5, <1>8, <1>9, <1>10, EntryAdded
<1>12. Save(n, due, r)
  BY <1>1, <1>4, <1>5, <1>6, <1>7
<1> QED
  BY <1>4, <1>6, <1>10, <1>11, <1>12, ApartSave

LEMMA ApartUpdate ==
  ASSUME Unambiguous, Apart, Invariant, ApartInv, UNCHANGED use, NEW rw \in use.rewrites,
         UpdateAnnotations(rw[1], rw[2])
  PROVE  NewName(LoadedMap, rw[1], rw[2]) /\ ApartInv'
<1>1. PICK old \in Ref, new \in Ref : old = rw[1] /\ new = rw[2] /\ Canon[new] # None
  BY UsesAssumption DEF Invariant, ProcessInv, Unambiguous
<1>2. ~unsaved
  BY DEF UpdateAnnotations, Idle, Loadable, Invariant, ProcessInv, Unambiguous
<1>3. PICK m : m = LoadedMap
  OBVIOUS
<1>4. Mapped(m) /\ ApartMap(m)
  BY <1>2, <1>3, Loaded, ApartLoad
<1> DEFINE matched   == {k \in Key : m[k] # None /\ m[k].ref = old}
           rename(d) == IF d.ref = old THEN [d EXCEPT !.ref = new] ELSE d
<1>5. PICK n : n = [k \in Key |-> IF k \in matched THEN rename(m[k]) ELSE m[k]]
  OBVIOUS
<1>6. /\ OnKeys(n)
      /\ \A k \in Key : n[k] = IF m[k] # None /\ m[k].ref = old
                               THEN [m[k] EXCEPT !.ref = new] ELSE m[k]
  BY <1>5 DEF OnKeys
<1>7. NewName(m, rw[1], rw[2]) /\ ApartMap(n)
  <2>1. \A k \in Key : n[k] = IF m[k] # None /\ m[k].ref = rw[1]
                               THEN [m[k] EXCEPT !.ref = rw[2]] ELSE m[k]
    BY <1>1, <1>6
  <2> HIDE DEF matched, rename
  <2> QED
    BY <1>4, <2>1, ApartRename, Zenon
<1>8. Mapped(n)
  <2>1. NewName(m, old, new) /\ Canon[new] # None /\ Mapped(m)
    BY <1>1, <1>4, <1>7
  <2> HIDE DEF matched, rename
  <2> QED
    BY <1>6, <2>1, EntriesRenamed, Zenon
<1>9. CASE nm' = LoadedMap /\ UNCHANGED survivors
  <2> HIDE DEF LoadedMap
  <2> QED
    BY <1>3, <1>4, <1>7, <1>9 DEF ApartInv, ApartMap, OldOrNew
<1>10. CASE \E r \in SaveOutcome : Save(n, TRUE, r)
  BY <1>3, <1>7, <1>8, <1>10, ApartSave
<1>11. UpdateAnnotations(old, new)
  BY <1>1
<1>12. (nm' = LoadedMap /\ UNCHANGED survivors) \/ \E r \in SaveOutcome : Save(n, TRUE, r)
  BY <1>3, <1>5, <1>11 DEF UpdateAnnotations
<1> QED
  BY <1>3, <1>7, <1>9, <1>10, <1>12

LEMMA ApartNext ==
  ASSUME Unambiguous, Apart, Invariant, ApartInv, Next
  PROVE  NoClash /\ ApartInv'
<1>1. Operation /\ UNCHANGED use
  BY DEF Next
<1>2. NoClash
  BY <1>1, ApartAddIndex, ApartPushRoot, ApartUpdate DEF NoClash
<1>3. CASE nm' = LoadedMap /\ UNCHANGED survivors /\ ~unsaved
  <2>1. ApartMap(LoadedMap)
    BY <1>3, ApartLoad
  <2> HIDE DEF LoadedMap
  <2> QED
    BY <1>1, <1>2, <1>3, <2>1 DEF ApartInv, ApartMap, OldOrNew
<1>4. CASE Open \/ Lookup \/ \E k \in Key : RemoveLoad(k)
  BY <1>3, <1>4 DEF Open, Lookup, RemoveLoad, Idle, Loadable, Invariant, ProcessInv, Unambiguous
<1>5. CASE SaveIndex \/ RemoveSave
  <2>1. PICK r \in SaveOutcome : Save(nm, TRUE, r)
    BY <1>5 DEF SaveIndex, RemoveSave
  <2>2. PICK m : m = nm
    OBVIOUS
  <2>3. Mapped(m) /\ ApartMap(m) /\ Save(m, TRUE, r)
    BY <2>1, <2>2 DEF Invariant, MapInv, ApartInv
  <2> QED
    BY <1>1, <1>2, <2>3, ApartSave
<1>6. CASE RemoveFromIndex
  <2>1. \A k \in Key : nm'[k] = nm[k] \/ nm'[k] = None
    BY <1>6 DEF RemoveFromIndex, Invariant, MapInv, Mapped
  <2>2. Held(nm') \subseteq Held(nm)
    BY <2>1 DEF Held
  <2>3. UNCHANGED survivors
    BY <1>6 DEF RemoveFromIndex
  <2>4. ApartMap(nm)'
    BY <1>1, <2>1, <2>2 DEF ApartInv, ApartMap, OldOrNew, Held
  <2> QED
    BY <1>1, <1>2, <2>3, <2>4 DEF ApartInv, OldOrNew
<1>7. CASE IntervalPasses
  BY <1>1, <1>2, <1>7 DEF IntervalPasses, ApartInv, ApartMap, OldOrNew
<1>8. CASE Exit \/ PowerLoss
  <2>1. nm' = EmptyMap /\ survivors' \subseteq survivors
    BY <1>8 DEF Exit, PowerLoss, Stop
  <2>2. ApartMap(nm)'
    BY <2>1, StoppedMap DEF ApartMap, OldOrNew, Held
  <2> QED
    BY <1>1, <1>2, <2>1, <2>2 DEF ApartInv, OldOrNew
<1>9. CASE \E d \in use.added : AddIndex(d)
  BY <1>1, <1>2, <1>9, ApartAddIndex
<1>10. CASE \E d \in use.pushed : PushRoot(d)
  BY <1>1, <1>2, <1>10, ApartPushRoot
<1>11. CASE \E rw \in use.rewrites : UpdateAnnotations(rw[1], rw[2])
  BY <1>1, <1>2, <1>11, ApartUpdate
<1> QED
  BY <1>1, <1>2, <1>4, <1>5, <1>6, <1>7, <1>8, <1>9, <1>10, <1>11 DEF Operation

(* Where names are kept apart no step clashes with a renamed entry         *)
(* (AddIndex, Push and UpdateAnnotations of OCI).                          *)
THEOREM ApartNeverClash ==
  ASSUME Unambiguous, Apart
  PROVE  Spec => [][NoClash]_vars
<1>1. Init => Invariant /\ ApartInv
  <2> SUFFICES ASSUME Init PROVE ApartInv
    BY InitInvariant
  <2>1. \A f \in survivors : OldOrNew(Recorded(f))
    BY DEF Init, Apart, OldOrNew
  <2>2. nm = EmptyMap
    BY DEF Init
  <2>3. ApartMap(nm)
    BY <2>2, StoppedMap DEF ApartMap, OldOrNew, Held
  <2> QED
    BY <2>1, <2>3 DEF ApartInv
<1>2. Invariant /\ ApartInv /\ [Next]_vars => [NoClash]_vars /\ (Invariant /\ ApartInv)'
  <2> SUFFICES ASSUME Invariant, ApartInv, [Next]_vars PROVE [NoClash]_vars /\ Invariant' /\ ApartInv'
    OBVIOUS
  <2>1. CASE Next
    BY <2>1, ApartNext, NextInvariant
  <2>2. CASE UNCHANGED vars
    <3>1. ApartInv'
      BY <2>2 DEF vars, ApartInv, ApartMap, OldOrNew, Held
    <3> QED
      BY <2>2, <3>1, NextInvariant
  <2> QED
    BY <2>1, <2>2
<1> QED
  BY <1>1, <1>2, PTL DEF Spec

(* There the index keeps all its promises, whatever is renamed, written,   *)
(* lost or loaded, and when.                                               *)
THEOREM ApartKeepsPromises ==
  ASSUME Unambiguous, Apart
  PROVE  Spec => [](SavedWhenNotBehind /\ CheckpointSurvives /\ MemoryMatchesDisk)
BY ApartNeverClash, AckedIsSaved, CheckpointsHold, MemoryIsDisk, PTL
-----------------------------------------------------------------------------
(* Types, whatever the references are                                      *)

LEMMA NormalizeType ==
  ASSUME NEW d \in Desc
  PROVE  Normalize(d) \in Desc /\ NormalizeKind(d.kind) \in {"image", "sigs"}
<1>1. d.kind \in Kind
  BY DEF Desc
<1>2. NormalizeKind(d.kind) \in {"image", "sigs"}
  BY <1>1 DEF Kind, NormalizeKind
<1> QED
  BY <1>2 DEF Normalize, Desc, Kind

LEMMA LoadedType ==
  ASSUME TypeOK
  PROVE  /\ LoadedMap \in [Key -> Desc \cup {None}]
         /\ \A i \in DOMAIN LoadedSlots : LoadedSlots[i] \in Key \cup {None}
<1>1. /\ \A i \in Positions : file[i] \in Desc
      /\ Positions # {} => file \in Seq(Desc) /\ Positions = 1..Len(file) /\ Len(file) \in Nat
  BY DEF TypeOK, IsIndex, Positions
<1>2. ASSUME NEW k \in Key PROVE LoadedMap[k] \in Desc \cup {None}
  <2> DEFINE stored == {i \in Positions : KeyOf(file[i]) = k}
             shared == {i \in Positions \cap DOMAIN slots : slots[i] = k /\ nm[k] # None}
             last   == CHOOSE i \in stored : \A j \in stored : j <= i
             f      == file[CHOOSE i \in shared : TRUE]
  <2>1. CASE stored # {}
    <3>1. last \in stored
      <4>1. stored \subseteq 1..Len(file) /\ Len(file) \in Nat
        BY <1>1, <2>1
      <4> HIDE DEF stored
      <4>2. \E i \in stored : \A j \in stored : j <= i
        BY <2>1, <4>1, LastPosition
      <4> QED
        BY <4>2
    <3>2. LoadedMap[k] = Normalize(file[last])
      BY <2>1 DEF LoadedMap
    <3>3. file[last] \in Desc
      BY <1>1, <3>1
    <3> HIDE DEF last, LoadedMap
    <3> QED
      BY <3>2, <3>3, NormalizeType
  <2>2. CASE stored = {} /\ shared # {}
    <3>1. LoadedMap[k] = [nm[k] EXCEPT !.ref = f.ref, !.kind = IF f.kind = "missing" THEN @ ELSE f.kind]
      BY <2>2 DEF LoadedMap
    <3>2. f \in Desc /\ nm[k] \in Desc
      <4>1. (CHOOSE i \in shared : TRUE) \in shared
        BY <2>2
      <4> QED
        BY <1>1, <4>1 DEF TypeOK
    <3> HIDE DEF f, LoadedMap
    <3> QED
      BY <3>1, <3>2 DEF Desc
  <2>3. CASE stored = {} /\ shared = {}
    BY <2>3 DEF LoadedMap, TypeOK
  <2> QED
    BY <2>1, <2>2, <2>3
<1>3. LoadedMap = [k \in Key |-> LoadedMap[k]]
  BY DEF LoadedMap
<1>4. \A i \in DOMAIN LoadedSlots : LoadedSlots[i] \in Key \cup {None}
  BY DEF LoadedSlots, TypeOK
<1> HIDE DEF LoadedMap, LoadedSlots
<1> QED
  BY <1>2, <1>3, <1>4

LEMMA LoadTyped ==
  ASSUME TypeOK, nm' = LoadedMap, slots' = LoadedSlots, up' \in BOOLEAN, due' \in BOOLEAN,
         unsaved' \in BOOLEAN, removing' \in ({"drop", "save"} \X Key) \cup {None},
         UNCHANGED <<use, file, survivors, exposed, acked, safe>>
  PROVE  TypeOK'
<1>1. /\ LoadedMap \in [Key -> Desc \cup {None}]
      /\ \A i \in DOMAIN LoadedSlots : LoadedSlots[i] \in Key \cup {None}
  BY LoadedType
<1> HIDE DEF LoadedMap, LoadedSlots
<1> QED
  BY <1>1 DEF TypeOK

LEMMA SaveTyped ==
  ASSUME TypeOK, UNCHANGED <<use, up>>, removing' \in ({"drop", "save"} \X Key) \cup {None},
         NEW m \in [Key -> Desc \cup {None}], NEW durable \in BOOLEAN, NEW r, Save(m, durable, r),
         NEW A, A \subseteq Desc, NEW all, Promise(A, all)
  PROVE  TypeOK'
<1> DEFINE S == {k \in Key : m[k] # None}
           n == Cardinality(S)
<1>1. n \in Nat
  BY KeysAreFinite, FS_Subset, FS_CardinalityType
<1>2. PICK o \in Orders(S) :
        LET content == [i \in DOMAIN o |-> m[o[i]]]
        IN /\ slots' = o
           /\ {file'} \cup survivors' \subseteq survivors \cup {file, content, Torn}
  BY DEF Save
<1>3. o \in [1..n -> S]
  BY DEF Orders
<1> PICK content : content = [i \in DOMAIN o |-> m[o[i]]]
  OBVIOUS
<1>4. content \in Seq(Desc)
  <2> HIDE DEF n
  <2>1. content \in [1..n -> Desc]
    BY <1>3
  <2> QED
    BY <1>1, <2>1
<1>5. \A f \in survivors' \cup {file'} : IsIndex(f)
  BY <1>2, <1>4 DEF TypeOK, IsIndex, Blank
<1>6. \A i \in DOMAIN slots' : slots'[i] \in Key \cup {None}
  BY <1>2, <1>3
<1>7. nm' \in [Key -> Desc \cup {None}] /\ {due', exposed', unsaved'} \subseteq BOOLEAN
  BY DEF Save, TypeOK
<1>8. acked' \subseteq Desc /\ safe' \subseteq acked'
  BY DEF Promise
<1> QED
  BY <1>5, <1>6, <1>7, <1>8 DEF TypeOK

LEMMA NextTyped ==
  ASSUME TypeOK, [Next]_vars
  PROVE  TypeOK'
<1>1. CASE UNCHANGED vars
  BY <1>1 DEF vars, TypeOK
<1> SUFFICES ASSUME Operation, UNCHANGED use PROVE TypeOK'
  BY <1>1 DEF Next
<1>2. CASE Open
  BY <1>2, LoadTyped DEF Open, TypeOK
<1>3. CASE Lookup
  BY <1>3, LoadTyped DEF Lookup, TypeOK
<1>4. CASE SaveIndex \/ RemoveSave
  <2>1. PICK r \in SaveOutcome : Save(nm, TRUE, r) /\ Promise(acked, r = "ok")
    BY <1>4 DEF SaveIndex, RemoveSave
  <2>2. PICK m : m = nm
    OBVIOUS
  <2>3. PICK A : A = acked
    OBVIOUS
  <2>4. m \in [Key -> Desc \cup {None}] /\ A \subseteq Desc
    BY <2>2, <2>3 DEF TypeOK
  <2>5. UNCHANGED <<use, up>> /\ removing' \in ({"drop", "save"} \X Key) \cup {None}
    BY <1>4 DEF SaveIndex, RemoveSave, TypeOK
  <2> QED
    BY <2>1, <2>2, <2>3, <2>4, <2>5, SaveTyped
<1>5. CASE RemoveFromIndex
  BY <1>5 DEF RemoveFromIndex, Promise, TypeOK
<1>6. ASSUME NEW d \in use.added, AddIndex(d) PROVE TypeOK'
  <2>1. d \in Desc
    BY UsesAssumption DEF TypeOK
  <2>2. Others(d) \subseteq Desc /\ \A r : Ack(d, r) \subseteq Desc
    BY <2>1 DEF Others, Ack, TypeOK
  <2>3. CASE UNCHANGED <<procVars, file, survivors, exposed, unsaved>> /\ Promise(Ack(d, "ok"), FALSE)
    BY <2>2, <2>3 DEF procVars, Promise, TypeOK
  <2>4. CASE /\ \E r \in SaveOutcome :
                  /\ Save([nm EXCEPT ![KeyOf(d)] = d], due, r)
                  /\ Promise(Ack(d, r), r = "ok" /\ due)
             /\ UNCHANGED <<up, removing>>
    <3>1. PICK r \in SaveOutcome : /\ Save([nm EXCEPT ![KeyOf(d)] = d], due, r)
                                   /\ Promise(Ack(d, r), r = "ok" /\ due)
      BY <2>4
    <3>2. PICK m : m = [nm EXCEPT ![KeyOf(d)] = d]
      OBVIOUS
    <3>3. PICK A : A = Ack(d, r)
      OBVIOUS
    <3>4. m \in [Key -> Desc \cup {None}] /\ A \subseteq Desc /\ due \in BOOLEAN
      BY <2>1, <2>2, <3>2, <3>3 DEF TypeOK
    <3>5. Save(m, due, r) /\ Promise(A, r = "ok" /\ due)
      BY <3>1, <3>2, <3>3
    <3>6. UNCHANGED <<use, up>> /\ removing' \in ({"drop", "save"} \X Key) \cup {None}
      BY <2>4 DEF TypeOK
    <3> QED
      BY <3>4, <3>5, <3>6, SaveTyped
  <2> QED
    BY <1>6, <2>3, <2>4 DEF AddIndex
<1>7. ASSUME NEW d \in use.pushed, PushRoot(d) PROVE TypeOK'
  <2>1. d \in Desc
    BY UsesAssumption DEF TypeOK
  <2>2. PICK e \in Desc : e = Normalize(d)
    BY <2>1, NormalizeType
  <2>3. \A r : Ack(e, r) \subseteq Desc
    BY <2>2 DEF Others, Ack, TypeOK
  <2>4. PICK m : m = LoadedMap
    OBVIOUS
  <2>5. PICK k : k = <<Raw[d.ref], NormalizeKind(d.kind)>>
    OBVIOUS
  <2>6. PICK r \in SaveOutcome : /\ Save([m EXCEPT ![k] = e], due, r)
                                 /\ Promise(Ack(e, r), r = "ok" /\ due)
    BY <1>7, <2>2, <2>4, <2>5 DEF PushRoot
  <2>7. PICK n : n = [m EXCEPT ![k] = e]
    OBVIOUS
  <2>8. PICK A : A = Ack(e, r)
    OBVIOUS
  <2>9. n \in [Key -> Desc \cup {None}] /\ A \subseteq Desc /\ due \in BOOLEAN
    <3>1. m \in [Key -> Desc \cup {None}]
      BY <2>4, LoadedType
    <3> QED
      BY <2>2, <2>3, <2>7, <2>8, <3>1 DEF TypeOK
  <2>10. Save(n, due, r) /\ Promise(A, r = "ok" /\ due)
    BY <2>6, <2>7, <2>8
  <2>11. UNCHANGED <<use, up>> /\ removing' \in ({"drop", "save"} \X Key) \cup {None}
    BY <1>7 DEF PushRoot, TypeOK
  <2> QED
    BY <2>9, <2>10, <2>11, SaveTyped
<1>8. ASSUME NEW rw \in use.rewrites, UpdateAnnotations(rw[1], rw[2]) PROVE TypeOK'
  <2>1. PICK old \in Ref, new \in Ref : old = rw[1] /\ new = rw[2]
    BY UsesAssumption DEF TypeOK
  <2>2. PICK m : m = LoadedMap
    OBVIOUS
  <2>3. UpdateAnnotations(old, new) /\ m \in [Key -> Desc \cup {None}]
    BY <1>8, <2>1, <2>2, LoadedType
  <2> DEFINE matched   == {k \in Key : m[k] # None /\ m[k].ref = old}
             rename(d) == IF d.ref = old THEN [d EXCEPT !.ref = new] ELSE d
  <2>4. \A d \in Desc : rename(d) \in Desc
    BY <2>1 DEF Desc
  <2>5. CASE /\ nm' = LoadedMap
             /\ slots' = LoadedSlots
             /\ UNCHANGED <<due, file, survivors, exposed, acked, safe, unsaved, up, removing>>
    BY <2>5, LoadTyped DEF TypeOK
  <2>6. CASE /\ \E r \in SaveOutcome :
                  /\ Save([k \in Key |-> IF k \in matched THEN rename(m[k]) ELSE m[k]], TRUE, r)
                  /\ Promise(IF r = "ok" THEN {rename(d) : d \in acked}
                                         ELSE {d \in acked : d.ref # old}, r = "ok")
             /\ UNCHANGED <<up, removing>>
    <3>1. PICK r \in SaveOutcome :
            /\ Save([k \in Key |-> IF k \in matched THEN rename(m[k]) ELSE m[k]], TRUE, r)
            /\ Promise(IF r = "ok" THEN {rename(d) : d \in acked}
                                   ELSE {d \in acked : d.ref # old}, r = "ok")
      BY <2>6
    <3>2. PICK n : n = [k \in Key |-> IF k \in matched THEN rename(m[k]) ELSE m[k]]
      OBVIOUS
    <3>3. PICK A : A = IF r = "ok" THEN {rename(d) : d \in acked} ELSE {d \in acked : d.ref # old}
      OBVIOUS
    <3>4. \A k \in Key : (IF k \in matched THEN rename(m[k]) ELSE m[k]) \in Desc \cup {None}
      <4>1. \A k \in matched : m[k] \in Desc
        BY <2>3
      <4>2. \A k \in matched : rename(m[k]) \in Desc
        BY <2>4, <4>1
      <4>3. \A k \in Key : m[k] \in Desc \cup {None}
        BY <2>3
      <4> HIDE DEF matched, rename
      <4> QED
        BY <4>2, <4>3
    <3>5. n \in [Key -> Desc \cup {None}]
      <4> HIDE DEF matched, rename
      <4> QED
        BY <3>2, <3>4
    <3>6. A \subseteq Desc
      <4>1. acked \subseteq Desc
        BY DEF TypeOK
      <4> HIDE DEF rename
      <4> QED
        BY <2>4, <3>3, <4>1
    <3>7. Save(n, TRUE, r) /\ Promise(A, r = "ok")
      BY <3>1, <3>2, <3>3
    <3>8. UNCHANGED <<use, up>> /\ removing' \in ({"drop", "save"} \X Key) \cup {None}
      BY <2>6 DEF TypeOK
    <3> QED
      BY <3>5, <3>6, <3>7, <3>8, SaveTyped
  <2> QED
    BY <2>2, <2>3, <2>5, <2>6, Zenon DEF UpdateAnnotations
<1>9. ASSUME NEW k \in Key, RemoveLoad(k) PROVE TypeOK'
  BY <1>9, LoadTyped DEF RemoveLoad, TypeOK
<1>10. CASE IntervalPasses
  BY <1>10 DEF IntervalPasses, TypeOK
<1>11. CASE Exit \/ PowerLoss
  <2>1. nm' \in [Key -> Desc \cup {None}] /\ slots' = <<>>
    BY <1>11 DEF Exit, PowerLoss, Stop, EmptyMap
  <2>2. /\ {up', due', exposed', unsaved'} \subseteq BOOLEAN /\ removing' = None
        /\ survivors' \cup {file'} \subseteq survivors \cup {file}
    BY <1>11 DEF Exit, PowerLoss, Stop, TypeOK
  <2>3. acked' \subseteq acked /\ safe' \subseteq acked'
    BY <1>11 DEF Exit, PowerLoss, Promise, TypeOK
  <2>4. \A i \in DOMAIN slots' : slots'[i] \in Key \cup {None}
    BY <2>1
  <2> QED
    BY <2>1, <2>2, <2>3, <2>4 DEF TypeOK
<1> QED
  BY <1>2, <1>3, <1>4, <1>5, <1>6, <1>7, <1>8, <1>9, <1>10, <1>11 DEF Operation

(* Type correctness, for ambiguous references and clashing renames too:    *)
(* each reload, save and rename of oci.go leaves well-formed maps and      *)
(* files behind.                                                           *)
THEOREM TypeCorrect == Spec => []TypeOK
<1>1. Init => TypeOK
  <2> SUFFICES ASSUME Init PROVE TypeOK
    OBVIOUS
  <2>1. IsIndex(file)
    BY UsesAssumption DEF Init
  <2>2. Recorded(file) \subseteq Desc
    BY <2>1, RecordedBy DEF Good
  <2>3. nm \in [Key -> Desc \cup {None}]
    BY DEF Init, EmptyMap
  <2>4. \A i \in DOMAIN slots : slots[i] \in Key \cup {None}
    BY DEF Init
  <2> QED
    BY <2>1, <2>2, <2>3, <2>4 DEF Init, TypeOK
<1> QED
  BY <1>1, NextTyped, PTL DEF Spec
=============================================================================
