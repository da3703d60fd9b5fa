---------------------------- MODULE StoresProofs ----------------------------
(***************************************************************************)
(* What holds of Stores for any number of processes, paths, ids and        *)
(* arguments, however often commands are killed and stores are moved.      *)
(*                                                                         *)
(* The invariant is what a process has where it is (Has), that no inode    *)
(* has two names (NamesInv), and what a process that runs alone finds      *)
(* again of what it wrote (Finds).                                         *)
(***************************************************************************)
EXTENDS Stores, SequenceTheorems, FiniteSetTheorems, TLAPS

Registering == {"load", "prune", "invOpen", "invWrite", "invRename"}
Naming      == {"metaOpen", "metaWrite", "metaRename"}
Opening     == {"meta"} \cup Naming \cup Registering

FilesTyped ==
  /\ dirs \subseteq Dir
  /\ meta \in [Dir -> Inode \cup {None}] /\ metaTmp \in [Dir -> Inode \cup {None}]
  /\ idIn \in [Inode -> Id \cup {None}]
  /\ inv \in Inode \cup {None} /\ invTmp \in Inode \cup {None}
  /\ pathsIn \in [Inode -> {None} \cup [Id -> Path \cup {None}]]
  /\ made \in 0..Cardinality(Id)

(* What a process has where it is.                                         *)
Has(s) ==
  /\ s.at # "idle" => s.args # <<>>
  /\ s.at \notin {"idle", "resolve"} => s.path \in Path
  /\ s.at = "match" => s.byId \in Id
  /\ s.at \in {"resolve", "match", "open", "meta"} => s.id = None
  /\ s.at \in Naming \cup Registering => s.id \in Id
  /\ s.at \in {"metaWrite", "invWrite"} => s.fd \in Inode
  /\ s.at \in Opening => s.path \notin Range(s.layouts)
  /\ \A i, j \in 1..Len(s.layouts) : i # j => s.layouts[i] # s.layouts[j]

NamesInv ==
  /\ \A d, e \in Dir : meta[d] # None /\ d # e => meta[d] # meta[e]
  /\ \A d, e \in Dir : metaTmp[d] # None /\ d # e => metaTmp[d] # metaTmp[e]
  /\ \A d, e \in Dir : meta[d] # None => meta[d] # metaTmp[e]
  /\ inv # None => inv # invTmp

(* No store that is where the inventory says is left out of it.            *)
KeepsAll(seen) ==
  \A id \in Id : Inventory[id] # None /\ MatchesStoreID(Inventory[id], id) => seen[id] # None

(* What a process that runs alone finds.                                   *)
Finds(s) ==
  s.alone =>
    LET d == Real[s.path] IN
    /\ s.at \in Opening => d \in dirs
    /\ s.at = "metaWrite" => metaTmp[d] = s.fd
    /\ s.at = "metaRename" => metaTmp[d] # None /\ idIn[metaTmp[d]] = s.id
    /\ s.at \in Registering => IdAt(s.path) = s.id
    /\ s.at = "prune" => s.seen = Inventory
    /\ s.at \in {"invOpen", "invWrite", "invRename"} => s.seen[s.id] = s.path /\ KeepsAll(s.seen)
    /\ s.at = "invWrite" => invTmp = s.fd /\ pathsIn[s.fd] = None
    /\ s.at = "invRename" => invTmp # None /\ pathsIn[invTmp] = s.seen
    /\ s.at = "opened" /\ s.id # None => IdAt(s.path) = s.id /\ Inventory[s.id] = s.path

AloneInv ==
  \A p \in Proc : st[p].alone => Running(p) /\ \A q \in Proc \ {p} : ~Running(q)

Invariant ==
  /\ TypeOK
  /\ \A p \in Proc : Has(st[p])
  /\ NamesInv
  /\ AloneInv
  /\ \A p \in Proc : Finds(st[p])
-----------------------------------------------------------------------------
(* Inodes                                                                  *)

LEMMA UnionBound ==
  ASSUME NEW S, NEW T, IsFiniteSet(S), IsFiniteSet(T), NEW m \in Nat, NEW n \in Nat,
         Cardinality(S) <= m, Cardinality(T) <= n
  PROVE  IsFiniteSet(S \cup T) /\ Cardinality(S \cup T) <= m + n
<1>1. /\ IsFiniteSet(S \cup T)
      /\ Cardinality(S \cup T) = Cardinality(S) + Cardinality(T) - Cardinality(S \cap T)
  BY FS_Union
<1>2. IsFiniteSet(S \cap T)
  BY FS_Subset
<1>3. Cardinality(S) \in Nat /\ Cardinality(T) \in Nat /\ Cardinality(S \cap T) \in Nat
  BY <1>2, FS_CardinalityType
<1> QED
  BY <1>1, <1>3

LEMMA RangeBound ==
  ASSUME NEW S, IsFiniteSet(S), NEW T, NEW f \in [S -> T]
  PROVE  IsFiniteSet({f[x] : x \in S}) /\ Cardinality({f[x] : x \in S}) <= Cardinality(S)
<1>1. f \in Surjection(S, {f[x] : x \in S})
  BY DEF Surjection
<1> QED
  BY <1>1, FS_Surjection

(* There is an inode for a new file.                                       *)
LEMMA NewInodeIsNew ==
  ASSUME TypeOK
  PROVE  /\ NewInode \in Inode
         /\ \A d \in Dir : NewInode # meta[d] /\ NewInode # metaTmp[d]
         /\ NewInode # inv /\ NewInode # invTmp
<1> DEFINE fd == [p \in Proc |-> st[p].fd]
           M == {meta[d] : d \in Dir}
           T == {metaTmp[d] : d \in Dir}
           F == {fd[p] : p \in Proc}
           D == Cardinality(Dir)
           P == Cardinality(Proc)
<1>1. D \in Nat /\ P \in Nat /\ Cardinality(Inode) \in Nat
  BY InodeAssumption, FS_CardinalityType
<1>2. IsFiniteSet(M) /\ Cardinality(M) <= D /\ IsFiniteSet(T) /\ Cardinality(T) <= D
  <2>1. meta \in [Dir -> Inode \cup {None}] /\ metaTmp \in [Dir -> Inode \cup {None}]
    BY DEF TypeOK
  <2>2. IsFiniteSet({meta[d] : d \in Dir}) /\ Cardinality({meta[d] : d \in Dir}) <= Cardinality(Dir)
    BY <2>1, InodeAssumption, RangeBound
  <2>3. IsFiniteSet({metaTmp[d] : d \in Dir}) /\ Cardinality({metaTmp[d] : d \in Dir}) <= Cardinality(Dir)
    BY <2>1, InodeAssumption, RangeBound
  <2> QED
    BY <2>2, <2>3
<1>3. IsFiniteSet(F) /\ Cardinality(F) <= P
  <2>1. fd \in [Proc -> {fd[p] : p \in Proc}]
    OBVIOUS
  <2> QED
    BY <2>1, InodeAssumption, RangeBound
<1>4. /\ IsFiniteSet({inv}) /\ Cardinality({inv}) <= 1
      /\ IsFiniteSet({invTmp}) /\ Cardinality({invTmp}) <= 1
  <2>1. IsFiniteSet({inv}) /\ Cardinality({inv}) = 1
    BY FS_Singleton, Zenon
  <2>2. IsFiniteSet({invTmp}) /\ Cardinality({invTmp}) = 1
    BY FS_Singleton, Zenon
  <2> QED
    BY <2>1, <2>2
<1> HIDE DEF M, T, F, D, P
<1>5. IsFiniteSet(M \cup T) /\ Cardinality(M \cup T) <= D + D
  BY <1>1, <1>2, UnionBound
<1>6. IsFiniteSet((M \cup T) \cup F) /\ Cardinality((M \cup T) \cup F) <= (D + D) + P
  <2>1. D + D \in Nat
    BY <1>1
  <2> QED
    BY <1>1, <1>3, <1>5, <2>1, UnionBound
<1>7. IsFiniteSet({inv} \cup {invTmp}) /\ Cardinality({inv} \cup {invTmp}) <= 1 + 1
  BY <1>4, UnionBound
<1> DEFINE U == ((M \cup T) \cup F) \cup ({inv} \cup {invTmp})
<1>8. IsFiniteSet(U) /\ Cardinality(U) <= ((D + D) + P) + (1 + 1)
  <2>1. (D + D) + P \in Nat /\ 1 + 1 \in Nat
    BY <1>1
  <2> QED
    BY <1>6, <1>7, <2>1, UnionBound
<1>9. \E i \in Inode : i \notin U
  <2>1. SUFFICES ASSUME Inode \subseteq U PROVE FALSE
    OBVIOUS
  <2>2. Cardinality(Inode) <= Cardinality(U) /\ Cardinality(U) \in Nat
    BY <1>8, <2>1, FS_Subset, FS_CardinalityType
  <2>3. 2 * D + P + 2 < Cardinality(Inode)
    BY InodeAssumption DEF D, P
  <2> QED
    BY <1>1, <1>8, <2>2, <2>3
<1>10. \E i \in Inode : /\ \A d \in Dir : i \notin {meta[d], metaTmp[d]}
                        /\ i \notin {inv, invTmp} /\ \A p \in Proc : i # st[p].fd
  BY <1>9 DEF U, M, T, F
<1> QED
  BY <1>10 DEF NewInode
-----------------------------------------------------------------------------
(* Processes                                                               *)

LEMMA ProcessTypes ==
  ASSUME Invariant, NEW p \in Proc
  PROVE  /\ st[p] \in Process /\ Has(st[p]) /\ Finds(st[p]) /\ FilesTyped /\ NamesInv
         /\ st[p].at \in Places /\ st[p].args \in Seq(Arg) /\ st[p].layouts \in Seq(Path)
         /\ st[p].path \in Path \cup {None} /\ st[p].id \in Id \cup {None}
         /\ st[p].byId \in Id \cup {None}
         /\ st[p].seen \in [Id -> Path \cup {None}] /\ st[p].fd \in Inode \cup {None}
         /\ st[p].alone \in BOOLEAN
BY DEF Invariant, TypeOK, Process, FilesTyped

LEMMA RealTypes ==
  ASSUME NEW path \in Path
  PROVE  Real[path] \in Dir
BY StoresAssumption DEF Dir, Range

LEMMA FilesTypes ==
  ASSUME FilesTyped
  PROVE  /\ \A path \in Path : IdAt(path) \in Id \cup {None}
         /\ Inventory \in [Id -> Path \cup {None}]
<1>1. \A path \in Path : IdAt(path) \in Id \cup {None}
  BY RealTypes DEF IdAt, FilesTyped
<1>2. Inventory \in [Id -> Path \cup {None}]
  BY DEF Inventory, FilesTyped, Empty
<1> QED
  BY <1>1, <1>2

(* A step of one process: the others are not alone, as it runs.            *)
LEMMA SetKeeps ==
  ASSUME Invariant, NEW p \in Proc, NEW s \in Process, Set(p, s), Running(p), Has(s),
         s.alone => st[p].alone /\ s.at # "idle",
         FilesTyped', NamesInv', Finds(s)'
  PROVE  Invariant'
<1>1. /\ st' \in [Proc -> Process]
      /\ \A q \in Proc : st'[q] = IF q = p THEN s ELSE st[q]
  BY DEF Set, Invariant, TypeOK
<1>2. TypeOK'
  BY <1>1 DEF FilesTyped, TypeOK
<1>3. \A q \in Proc : Has(st[q])'
  BY <1>1 DEF Has, Invariant
<1>4. \A q \in Proc \ {p} : ~st[q].alone
  BY DEF Invariant, AloneInv
<1>5. AloneInv'
  <2> SUFFICES ASSUME NEW q \in Proc, st'[q].alone
               PROVE  Running(q)' /\ \A o \in Proc \ {q} : ~Running(o)'
    BY DEF AloneInv
  <2>1. q = p /\ s.alone
    BY <1>1, <1>4
  <2>2. \A o \in Proc \ {p} : ~Running(o)
    BY <2>1 DEF Invariant, AloneInv
  <2> QED
    BY <1>1, <2>1, <2>2 DEF Running
<1>6. \A q \in Proc : Finds(st[q])'
  <2> SUFFICES ASSUME NEW q \in Proc PROVE Finds(st[q])'
    OBVIOUS
  <2>1. CASE q = p
    BY <1>1, <2>1 DEF Finds
  <2>2. CASE q # p
    BY <1>1, <1>4, <2>2 DEF Finds
  <2> QED
    BY <2>1, <2>2
<1> QED
  BY <1>2, <1>3, <1>5, <1>6 DEF Invariant

(* One that leaves the files alone.                                        *)
LEMMA StayKeeps ==
  ASSUME Invariant, NEW p \in Proc, NEW s \in Process, Set(p, s), Running(p), Has(s),
         s.alone => st[p].alone /\ s.at # "idle",
         UNCHANGED <<dirs, files, inventory, made>>, Finds(s)
  PROVE  Invariant'
<1>1. FilesTyped' /\ NamesInv'
  BY ProcessTypes DEF files, inventory, FilesTyped, NamesInv
<1>2. Finds(s)'
  BY DEF files, inventory, Finds, KeepsAll, Inventory, IdAt, MatchesStoreID
<1> QED
  BY <1>1, <1>2, SetKeeps

LEMMA IdleKeeps ==
  ASSUME Invariant, NEW p \in Proc, Set(p, Idle), Running(p),
         UNCHANGED <<dirs, files, inventory, made>>
  PROVE  Invariant'
<1> PICK s : s = Idle
  OBVIOUS
<1>1. /\ s \in Process /\ s.at = "idle" /\ s.alone = FALSE
      /\ Range(s.layouts) = {} /\ Len(s.layouts) = 0
  BY DEF Idle, Process, Places, Empty, Range
<1>2. Has(s) /\ Finds(s)
  BY <1>1 DEF Has, Finds, Opening, Naming, Registering
<1> QED
  BY <1>1, <1>2, StayKeeps

LEMMA StartKeeps ==
  ASSUME Invariant, NEW p \in Proc, Start(p)
  PROVE  Invariant'
<1>1. PICK asked \in Asked :
        st' = [q \in Proc |->
                 IF q = p THEN [Idle EXCEPT !.at = "resolve", !.args = asked,
                                            !.alone = \A o \in Proc \ {p} : ~Running(o)]
                 ELSE [st[q] EXCEPT !.alone = @ /\ ~Running(q)]]
  BY DEF Start
<1>2. UNCHANGED <<dirs, files, inventory, made>>
  BY DEF Start
<1>3. asked \in Seq(Arg) /\ asked # <<>>
  BY StoresAssumption
<1>4. /\ st'[p] \in Process /\ st'[p].at = "resolve" /\ st'[p].args = asked
      /\ st'[p].layouts = <<>> /\ st'[p].id = None
      /\ st'[p].alone => \A o \in Proc \ {p} : ~Running(o)
  <2>1. PICK b \in BOOLEAN : b = \A o \in Proc \ {p} : ~Running(o)
    OBVIOUS
  <2>2. st'[p] = [Idle EXCEPT !.at = "resolve", !.args = asked, !.alone = b]
    BY <1>1, <2>1
  <2>3. /\ st'[p] \in Process /\ st'[p].at = "resolve" /\ st'[p].args = asked
        /\ st'[p].layouts = <<>> /\ st'[p].id = None /\ st'[p].alone = b
    <3>1. Idle \in Process /\ Idle.layouts = <<>> /\ Idle.id = None
      BY DEF Idle, Process, Places, Empty
    <3> QED
      BY <1>3, <2>1, <2>2, <3>1 DEF Process, Places
  <2>4. b => \A o \in Proc \ {p} : ~Running(o)
    BY <2>1, Zenon
  <2> QED
    BY <2>3, <2>4
<1>5. ASSUME NEW q \in Proc \ {p}
      PROVE  /\ st'[q] \in Process /\ st'[q].alone = FALSE
             /\ st'[q].at = st[q].at /\ st'[q].args = st[q].args /\ st'[q].path = st[q].path
             /\ st'[q].byId = st[q].byId /\ st'[q].id = st[q].id /\ st'[q].fd = st[q].fd
             /\ st'[q].layouts = st[q].layouts
  <2>1. st[q] \in Process /\ st'[q] = [st[q] EXCEPT !.alone = @ /\ ~Running(q)]
    BY <1>1 DEF Invariant, TypeOK
  <2>2. (st[q].alone /\ ~Running(q)) = FALSE
    BY DEF Invariant, AloneInv
  <2>3. st'[q] = [st[q] EXCEPT !.alone = FALSE]
    BY <2>1, <2>2
  <2> QED
    BY <2>1, <2>3 DEF Process, Running
<1>6. TypeOK'
  <2>1. st' \in [Proc -> Process]
    BY <1>1, <1>4, <1>5
  <2> QED
    BY <1>2, <2>1 DEF Invariant, TypeOK, files, inventory
<1>7. \A q \in Proc : Has(st[q])'
  <2>1. Has(st[p])'
    BY <1>3, <1>4 DEF Has, Opening, Naming, Registering
  <2>2. ASSUME NEW q \in Proc \ {p} PROVE Has(st[q])'
    <3>1. Has(st[q])
      BY ProcessTypes
    <3> QED
      BY <1>5, <3>1 DEF Has
  <2> QED
    BY <2>1, <2>2
<1>8. NamesInv'
  BY <1>2 DEF Invariant, NamesInv, files, inventory
<1>9. AloneInv'
  BY <1>4, <1>5 DEF AloneInv, Running
<1>10. \A q \in Proc : Finds(st[q])'
  BY <1>4, <1>5 DEF Finds, Opening, Naming, Registering
<1> QED
  BY <1>6, <1>7, <1>8, <1>9, <1>10 DEF Invariant
-----------------------------------------------------------------------------
(* The steps                                                               *)

LEMMA ResolveKeeps ==
  ASSUME Invariant, NEW p \in Proc, Resolve(p)
  PROVE  Invariant'
<1> DEFINE a == Head(st[p].args)
           ids == Candidates(a)
<1>1. /\ st[p] \in Process /\ Has(st[p]) /\ st[p].at = "resolve" /\ Running(p) /\ FilesTyped
      /\ st[p].args # <<>> /\ UNCHANGED <<dirs, files, inventory, made>>
  BY ProcessTypes DEF Resolve, Running, Has
<1>2. a \in Arg /\ AbsOf[a] \in Path
  <2>1. st[p].args \in Seq(Arg) /\ st[p].args # <<>>
    BY <1>1, ProcessTypes
  <2> QED
    BY <2>1, StoresAssumption
<1>3. ASSUME NEW path \in Path, NEW id \in Id \cup {None}, NEW at \in {"open", "match"},
             at = "match" => id \in Id,
             Set(p, [st[p] EXCEPT !.at = at, !.path = path, !.byId = id])
      PROVE  Invariant'
  <2> PICK s : s = [st[p] EXCEPT !.at = at, !.path = path, !.byId = id]
    OBVIOUS
  <2>1. /\ s \in Process /\ s.at = at /\ s.path = path /\ s.byId = id /\ s.args = st[p].args
        /\ s.layouts = st[p].layouts /\ s.alone = st[p].alone /\ s.id = st[p].id
    BY <1>1 DEF Process, Places
  <2>2. Has(s) /\ Finds(s)
    BY <1>1, <1>3, <2>1 DEF Has, Finds, Opening, Naming, Registering
  <2> QED
    BY <1>1, <1>3, <2>1, <2>2, StayKeeps
<1>4. CASE Set(p, [st[p] EXCEPT !.at = "open", !.path = AbsOf[a], !.byId = None])
  BY <1>2, <1>3, <1>4
<1>5. CASE Cardinality(ids) = 1 /\ LET id == CHOOSE id \in ids : TRUE IN
             Set(p, [st[p] EXCEPT !.at = "match", !.path = Inventory[id], !.byId = id])
  <2>1. ids # {}
    BY <1>5, FS_EmptySet
  <2> DEFINE id == CHOOSE id \in ids : TRUE
  <2>2. id \in ids
    BY <2>1
  <2>3. IdsOf[a] \subseteq Id
    BY <1>2, StoresAssumption
  <2>4. id \in Id /\ Inventory[id] # None
    BY <2>2, <2>3 DEF Candidates
  <2>5. Inventory[id] \in Path
    BY <1>1, <2>4, FilesTypes
  <2> HIDE DEF id
  <2>6. Set(p, [st[p] EXCEPT !.at = "match", !.path = Inventory[id], !.byId = id])
    BY <1>5 DEF id
  <2> QED
    BY <1>3, <2>4, <2>5, <2>6
<1>6. CASE Set(p, Idle)
  BY <1>1, <1>6, IdleKeeps
<1> QED
  BY <1>4, <1>5, <1>6 DEF Resolve

LEMMA MatchKeeps ==
  ASSUME Invariant, NEW p \in Proc, Match(p)
  PROVE  Invariant'
<1>1. /\ st[p] \in Process /\ Has(st[p]) /\ st[p].at = "match" /\ Running(p)
      /\ UNCHANGED <<dirs, files, inventory, made>>
      /\ Set(p, Idle) \/ Set(p, [st[p] EXCEPT !.at = "open"])
  BY ProcessTypes DEF Match, Running
<1>2. CASE Set(p, [st[p] EXCEPT !.at = "open"])
  <2> PICK s : s = [st[p] EXCEPT !.at = "open"]
    OBVIOUS
  <2>1. /\ s \in Process /\ s.at = "open" /\ s.path = st[p].path /\ s.args = st[p].args
        /\ s.layouts = st[p].layouts /\ s.alone = st[p].alone /\ s.id = st[p].id
    BY <1>1 DEF Process, Places
  <2>2. Has(s) /\ Finds(s)
    BY <1>1, <2>1 DEF Has, Finds, Opening, Naming, Registering
  <2> QED
    BY <1>1, <1>2, <2>1, <2>2, StayKeeps
<1> QED
  BY <1>1, <1>2, IdleKeeps

(* A store that is open already is not opened again.                       *)
LEMMA OpenKeeps ==
  ASSUME Invariant, NEW p \in Proc, Open(p)
  PROVE  Invariant'
<1>1. /\ st[p] \in Process /\ Has(st[p]) /\ st[p].at = "open" /\ Running(p) /\ FilesTyped /\ NamesInv
      /\ st[p].path \in Path /\ UNCHANGED <<files, inventory, made>>
  BY ProcessTypes DEF Open, Running, Has
<1>2. CASE IsOpen(p)
  <2> PICK s : s = [st[p] EXCEPT !.at = "opened"]
    OBVIOUS
  <2>1. /\ s \in Process /\ s.at = "opened" /\ s.path = st[p].path /\ s.args = st[p].args
        /\ s.layouts = st[p].layouts /\ s.alone = st[p].alone /\ s.id = st[p].id
    BY <1>1 DEF Process, Places
  <2>2. Set(p, s) /\ UNCHANGED dirs
    BY <1>2 DEF Open, At
  <2>3. Has(s)
    BY <1>1, <2>1 DEF Has, Opening, Naming, Registering
  <2>4. Finds(s)
    BY <1>1, <2>1 DEF Finds, Opening, Naming, Registering, Has
  <2> QED
    BY <1>1, <2>1, <2>2, <2>3, <2>4, StayKeeps
<1>3. CASE ~IsOpen(p)
  <2> PICK s : s = [st[p] EXCEPT !.at = "meta"]
    OBVIOUS
  <2>1. /\ s \in Process /\ s.at = "meta" /\ s.path = st[p].path /\ s.args = st[p].args
        /\ s.layouts = st[p].layouts /\ s.alone = st[p].alone /\ s.id = st[p].id
    BY <1>1 DEF Process, Places
  <2>2. Set(p, s) /\ dirs' = dirs \cup {Real[st[p].path]}
    BY <1>3 DEF Open, At
  <2>3. FilesTyped' /\ NamesInv'
    BY <1>1, <2>2, RealTypes DEF FilesTyped, NamesInv, files, inventory
  <2>4. Has(s)
    BY <1>1, <1>3, <2>1 DEF Has, IsOpen, Opening, Naming, Registering
  <2>5. Finds(s)'
    BY <2>1, <2>2 DEF Finds, Opening, Naming, Registering
  <2> QED
    BY <1>1, <2>1, <2>2, <2>3, <2>4, <2>5, SetKeeps
<1> QED
  BY <1>2, <1>3
LEMMA IdentifyKeeps ==
  ASSUME Invariant, NEW p \in Proc, Identify(p)
  PROVE  Invariant'
<1>1. /\ st[p] \in Process /\ Has(st[p]) /\ Finds(st[p]) /\ st[p].at = "meta" /\ Running(p)
      /\ FilesTyped /\ NamesInv /\ st[p].path \in Path /\ UNCHANGED <<dirs, files, inventory>>
  BY ProcessTypes DEF Identify, Running, Has
<1>2. CASE IdAt(st[p].path) # None
  <2> PICK s : s = [st[p] EXCEPT !.at = "load", !.id = IdAt(st[p].path)]
    OBVIOUS
  <2>1. IdAt(st[p].path) \in Id
    BY <1>1, <1>2, FilesTypes
  <2>2. /\ s \in Process /\ s.at = "load" /\ s.path = st[p].path /\ s.args = st[p].args
        /\ s.layouts = st[p].layouts /\ s.alone = st[p].alone /\ s.id = IdAt(st[p].path)
    BY <1>1, <2>1 DEF Process, Places
  <2>3. Set(p, s) /\ UNCHANGED made
    BY <1>2 DEF Identify
  <2>4. Has(s) /\ Finds(s)
    BY <1>1, <2>1, <2>2 DEF Has, Finds, Opening, Naming, Registering
  <2> QED
    BY <1>1, <2>2, <2>3, <2>4, StayKeeps
<1>3. CASE IdAt(st[p].path) = None
  <2> PICK s : s = [st[p] EXCEPT !.at = "metaOpen", !.id = made + 1]
    OBVIOUS
  <2>1. made < Cardinality(Id) /\ made' = made + 1 /\ Set(p, s)
    BY <1>3 DEF Identify
  <2>2. made + 1 \in 0..Cardinality(Id) /\ made + 1 \in Id
    <3>1. Cardinality(Id) \in Nat
      BY StoresAssumption, FS_CardinalityType
    <3> QED
      BY <1>1, <2>1, <3>1, StoresAssumption DEF FilesTyped
  <2>3. /\ s \in Process /\ s.at = "metaOpen" /\ s.path = st[p].path /\ s.args = st[p].args
        /\ s.layouts = st[p].layouts /\ s.alone = st[p].alone /\ s.id = made + 1
    BY <1>1, <2>2 DEF Process, Places
  <2>4. FilesTyped' /\ NamesInv'
    BY <1>1, <2>1, <2>2 DEF FilesTyped, NamesInv, files, inventory
  <2>5. Has(s)
    BY <1>1, <2>2, <2>3 DEF Has, Opening, Naming, Registering
  <2>6. Finds(s)'
    BY <1>1, <2>3 DEF Finds, Opening, Naming, Registering
  <2> QED
    BY <1>1, <2>1, <2>3, <2>4, <2>5, <2>6, SetKeeps
<1> QED
  BY <1>2, <1>3

LEMMA MetaOpenKeeps ==
  ASSUME Invariant, NEW p \in Proc, MetaOpen(p)
  PROVE  Invariant'
<1> PICK d : d = Real[st[p].path]
  OBVIOUS
<1> PICK i : i = IF metaTmp[d] # None THEN metaTmp[d] ELSE NewInode
  OBVIOUS
<1> PICK s : s = [st[p] EXCEPT !.at = "metaWrite", !.fd = i]
  OBVIOUS
<1>1. /\ st[p] \in Process /\ Has(st[p]) /\ Finds(st[p]) /\ st[p].at = "metaOpen" /\ Running(p)
      /\ FilesTyped /\ NamesInv /\ TypeOK /\ st[p].path \in Path /\ d \in Dir
      /\ UNCHANGED <<dirs, meta, inventory, made>>
      /\ metaTmp' = [metaTmp EXCEPT ![d] = i] /\ idIn' = [idIn EXCEPT ![i] = None] /\ Set(p, s)
  BY ProcessTypes, RealTypes DEF MetaOpen, Running, Has, Invariant
<1>2. i \in Inode /\ i # None
  BY <1>1, NewInodeIsNew, StoresAssumption DEF FilesTyped
<1>3. \A e \in Dir : /\ i # meta[e]
                     /\ e # d => i # metaTmp[e]
  BY <1>1, NewInodeIsNew DEF NamesInv
<1>4. /\ s \in Process /\ s.at = "metaWrite" /\ s.path = st[p].path /\ s.args = st[p].args /\ s.fd = i
      /\ s.layouts = st[p].layouts /\ s.alone = st[p].alone /\ s.id = st[p].id
  BY <1>1, <1>2 DEF Process, Places
<1>5. FilesTyped'
  BY <1>1, <1>2 DEF FilesTyped, inventory
<1>6. \A e \in Dir : metaTmp'[e] = IF e = d THEN i ELSE metaTmp[e]
  BY <1>1 DEF FilesTyped
<1>7. NamesInv'
  <2>1. meta' = meta /\ inv' = inv /\ invTmp' = invTmp /\ NamesInv
    BY <1>1 DEF inventory
  <2>2. \A a, e \in Dir : metaTmp'[a] # None /\ a # e => metaTmp'[a] # metaTmp'[e]
    BY ONLY <1>3, <1>6, <2>1 DEF NamesInv
  <2>3. \A a, e \in Dir : meta[a] # None => meta[a] # metaTmp'[e]
    BY ONLY <1>3, <1>6, <2>1 DEF NamesInv
  <2> QED
    BY ONLY <2>1, <2>2, <2>3 DEF NamesInv
<1>8. Has(s)
  <2>1. /\ st[p].args # <<>> /\ st[p].path \in Path /\ st[p].id \in Id
        /\ st[p].path \notin Range(st[p].layouts)
        /\ \A j, k \in 1..Len(st[p].layouts) : j # k => st[p].layouts[j] # st[p].layouts[k]
    <3>1. Has(st[p]) /\ st[p].at = "metaOpen"
      BY <1>1
    <3> QED
      BY ONLY <3>1 DEF Has, Opening, Naming
  <2> QED
    BY ONLY <1>2, <1>4, <2>1 DEF Has, Opening, Naming, Registering
<1>9. Finds(s)'
  <2>1. s.alone => d \in dirs
    BY <1>1, <1>4 DEF Finds, Opening, Naming
  <2>2. metaTmp'[d] = i /\ d = Real[s.path] /\ dirs' = dirs
    BY <1>1, <1>4, <1>6
  <2> QED
    BY ONLY <1>4, <2>1, <2>2 DEF Finds, Opening, Naming, Registering
<1> QED
  BY <1>1, <1>4, <1>5, <1>7, <1>8, <1>9, SetKeeps

LEMMA MetaWriteKeeps ==
  ASSUME Invariant, NEW p \in Proc, MetaWrite(p)
  PROVE  Invariant'
<1> PICK s : s = [st[p] EXCEPT !.at = "metaRename", !.fd = None]
  OBVIOUS
<1>1. /\ st[p] \in Process /\ Has(st[p]) /\ Finds(st[p]) /\ st[p].at = "metaWrite" /\ Running(p)
      /\ FilesTyped /\ NamesInv /\ st[p].path \in Path /\ st[p].fd \in Inode /\ st[p].id \in Id
      /\ UNCHANGED <<dirs, meta, metaTmp, inventory, made>>
      /\ idIn' = [idIn EXCEPT ![st[p].fd] = st[p].id] /\ Set(p, s)
  BY ProcessTypes DEF MetaWrite, Running, Has, Naming
<1>2. /\ s \in Process /\ s.at = "metaRename" /\ s.path = st[p].path /\ s.args = st[p].args
      /\ s.layouts = st[p].layouts /\ s.alone = st[p].alone /\ s.id = st[p].id
  BY <1>1 DEF Process, Places
<1>3. FilesTyped' /\ NamesInv'
  BY <1>1 DEF FilesTyped, NamesInv, inventory
<1>4. Has(s)
  BY <1>1, <1>2 DEF Has, Opening, Naming, Registering
<1>5. Finds(s)'
  <2> SUFFICES ASSUME s.alone PROVE Finds(s)'
    BY DEF Finds
  <2>1. /\ Real[s.path] \in dirs' /\ metaTmp'[Real[s.path]] = st[p].fd /\ st[p].fd # None
        /\ idIn'[st[p].fd] = s.id
    BY <1>1, <1>2, StoresAssumption DEF Finds, Opening, Naming, FilesTyped
  <2> QED
    BY <1>2, <2>1 DEF Finds, Opening, Naming, Registering
<1> QED
  BY <1>1, <1>2, <1>3, <1>4, <1>5, SetKeeps

LEMMA MetaRenameKeeps ==
  ASSUME Invariant, NEW p \in Proc, MetaRename(p)
  PROVE  Invariant'
<1> PICK d : d = Real[st[p].path]
  OBVIOUS
<1> PICK s : s = [st[p] EXCEPT !.at = "load"]
  OBVIOUS
<1>1. /\ st[p] \in Process /\ Has(st[p]) /\ Finds(st[p]) /\ st[p].at = "metaRename" /\ Running(p)
      /\ FilesTyped /\ NamesInv /\ st[p].path \in Path /\ d \in Dir /\ st[p].id \in Id
      /\ UNCHANGED <<dirs, inventory, made>> /\ Set(p, s)
  BY ProcessTypes, RealTypes DEF MetaRename, Running, Has, At, Naming
<1>2. /\ s \in Process /\ s.at = "load" /\ s.path = st[p].path /\ s.args = st[p].args
      /\ s.layouts = st[p].layouts /\ s.alone = st[p].alone /\ s.id = st[p].id
  BY <1>1 DEF Process, Places
<1>3. Has(s)
  BY <1>1, <1>2 DEF Has, Opening, Naming, Registering
<1>4. CASE metaTmp[d] # None
  <2>1. /\ meta' = [meta EXCEPT ![d] = metaTmp[d]] /\ metaTmp' = [metaTmp EXCEPT ![d] = None]
        /\ idIn' = Unlinked(idIn, meta[d])
    BY <1>4 DEF MetaRename
  <2>2. /\ \A e \in Dir : /\ meta'[e] = IF e = d THEN metaTmp[d] ELSE meta[e]
                          /\ metaTmp'[e] = IF e = d THEN None ELSE metaTmp[e]
        /\ \A i \in Inode : idIn'[i] = IF i = meta[d] THEN None ELSE idIn[i]
    BY <1>1, <2>1, StoresAssumption DEF FilesTyped, Unlinked
  <2>3. FilesTyped'
    BY <1>1, <2>1 DEF FilesTyped, Unlinked, inventory
  <2>4. NamesInv'
    BY <1>1, <1>4, <2>2 DEF NamesInv, inventory
  <2>5. Finds(s)'
    <3> SUFFICES ASSUME s.alone PROVE Finds(s)'
      BY DEF Finds
    <3>1. d \in dirs /\ idIn[metaTmp[d]] = s.id /\ metaTmp[d] \in Inode /\ metaTmp[d] # meta[d]
      BY <1>1, <1>2, <1>4 DEF Finds, Opening, Naming, FilesTyped, NamesInv
    <3>2. IdAt(s.path)' = s.id
      BY <1>1, <1>2, <1>4, <2>2, <3>1 DEF IdAt
    <3> QED
      BY <1>1, <1>2, <3>1, <3>2 DEF Finds, Opening, Naming, Registering
  <2> QED
    BY <1>1, <1>2, <1>3, <2>3, <2>4, <2>5, SetKeeps
<1>5. CASE metaTmp[d] = None
  <2>1. UNCHANGED files
    BY <1>5 DEF MetaRename
  <2>2. ~s.alone
    BY <1>1, <1>2, <1>5 DEF Finds
  <2>3. Finds(s)
    BY <2>2 DEF Finds
  <2> QED
    BY <1>1, <1>2, <1>3, <2>1, <2>2, <2>3, StayKeeps
<1> QED
  BY <1>4, <1>5
LEMMA LoadInventoryKeeps ==
  ASSUME Invariant, NEW p \in Proc, LoadInventory(p)
  PROVE  Invariant'
<1> PICK s : s = [st[p] EXCEPT !.at = "prune", !.seen = Inventory]
  OBVIOUS
<1>1. /\ st[p] \in Process /\ Has(st[p]) /\ Finds(st[p]) /\ st[p].at = "load" /\ Running(p)
      /\ Inventory \in [Id -> Path \cup {None}]
      /\ UNCHANGED <<dirs, files, inventory, made>> /\ Set(p, s)
  BY ProcessTypes, FilesTypes DEF LoadInventory, Running
<1>2. /\ s \in Process /\ s.at = "prune" /\ s.path = st[p].path /\ s.args = st[p].args
      /\ s.layouts = st[p].layouts /\ s.alone = st[p].alone /\ s.id = st[p].id /\ s.seen = Inventory
  BY <1>1 DEF Process, Places
<1>3. Has(s) /\ Finds(s)
  BY <1>1, <1>2 DEF Has, Finds, Opening, Naming, Registering
<1> QED
  BY <1>1, <1>2, <1>3, StayKeeps

LEMMA PruneKeeps ==
  ASSUME Invariant, NEW p \in Proc, Prune(p)
  PROVE  Invariant'
<1> PICK new : new = [id \in Id |-> Entry(p, id)]
  OBVIOUS
<1> PICK s : s = [st[p] EXCEPT !.at = "invOpen", !.seen = new]
  OBVIOUS
<1>1. /\ st[p] \in Process /\ Has(st[p]) /\ Finds(st[p]) /\ st[p].at = "prune" /\ Running(p)
      /\ st[p].path \in Path /\ st[p].id \in Id /\ st[p].seen \in [Id -> Path \cup {None}]
      /\ UNCHANGED <<dirs, files, inventory, made>> /\ Set(p, s)
  BY ProcessTypes DEF Prune, Running, Has, Registering
<1>2. /\ new \in [Id -> Path \cup {None}] /\ new[st[p].id] = st[p].path
      /\ \A id \in Id : st[p].seen[id] # None /\ MatchesStoreID(st[p].seen[id], id) => new[id] # None
  BY <1>1, StoresAssumption DEF Entry
<1>3. /\ s \in Process /\ s.at = "invOpen" /\ s.path = st[p].path /\ s.args = st[p].args
      /\ s.layouts = st[p].layouts /\ s.alone = st[p].alone /\ s.id = st[p].id /\ s.seen = new
  BY <1>1, <1>2 DEF Process, Places
<1>4. Has(s)
  BY <1>1, <1>3 DEF Has, Opening, Naming, Registering
<1>5. Finds(s)
  <2> SUFFICES ASSUME s.alone PROVE Finds(s)
    BY DEF Finds
  <2>1. st[p].seen = Inventory /\ Real[s.path] \in dirs /\ IdAt(s.path) = s.id
    BY <1>1, <1>3 DEF Finds, Opening, Registering
  <2>2. KeepsAll(new)
    BY <1>2, <2>1 DEF KeepsAll
  <2> QED
    BY <1>2, <1>3, <2>1, <2>2 DEF Finds, Opening, Naming, Registering
<1> QED
  BY <1>1, <1>3, <1>4, <1>5, StayKeeps

LEMMA InvOpenKeeps ==
  ASSUME Invariant, NEW p \in Proc, InvOpen(p)
  PROVE  Invariant'
<1> PICK i : i = IF invTmp # None THEN invTmp ELSE NewInode
  OBVIOUS
<1> PICK s : s = [st[p] EXCEPT !.at = "invWrite", !.fd = i]
  OBVIOUS
<1>1. /\ st[p] \in Process /\ Has(st[p]) /\ Finds(st[p]) /\ st[p].at = "invOpen" /\ Running(p)
      /\ FilesTyped /\ NamesInv /\ TypeOK
      /\ UNCHANGED <<dirs, files, inv, made>>
      /\ invTmp' = i /\ pathsIn' = [pathsIn EXCEPT ![i] = None] /\ Set(p, s)
  BY ProcessTypes DEF InvOpen, Running, Invariant
<1>2. i \in Inode /\ i # None /\ (inv # None => i # inv)
  BY <1>1, NewInodeIsNew, StoresAssumption DEF FilesTyped, NamesInv
<1>3. /\ s \in Process /\ s.at = "invWrite" /\ s.path = st[p].path /\ s.args = st[p].args /\ s.fd = i
      /\ s.layouts = st[p].layouts /\ s.alone = st[p].alone /\ s.id = st[p].id /\ s.seen = st[p].seen
  BY <1>1, <1>2 DEF Process, Places
<1>4. FilesTyped' /\ NamesInv'
  BY <1>1, <1>2 DEF FilesTyped, NamesInv, files
<1>5. Has(s)
  BY <1>1, <1>2, <1>3 DEF Has, Opening, Naming, Registering
<1>6. Inventory' = Inventory /\ pathsIn'[i] = None
  BY <1>1, <1>2 DEF Inventory, FilesTyped
<1>7. Finds(s)'
  <2> SUFFICES ASSUME s.alone PROVE Finds(s)'
    BY DEF Finds
  <2>1. /\ Real[s.path] \in dirs /\ IdAt(s.path) = s.id /\ s.seen[s.id] = s.path /\ KeepsAll(s.seen)
    BY <1>1, <1>3 DEF Finds, Opening, Registering
  <2>2. IdAt(s.path)' = IdAt(s.path) /\ KeepsAll(s.seen)'
    BY <1>1, <1>6, <2>1 DEF IdAt, KeepsAll, MatchesStoreID, files
  <2> QED
    BY <1>1, <1>3, <1>6, <2>1, <2>2 DEF Finds, Opening, Naming, Registering
<1> QED
  BY <1>1, <1>3, <1>4, <1>5, <1>7, SetKeeps

LEMMA InvWriteKeeps ==
  ASSUME Invariant, NEW p \in Proc, InvWrite(p)
  PROVE  Invariant'
<1> PICK s : s = [st[p] EXCEPT !.at = "invRename", !.fd = None]
  OBVIOUS
<1>1. /\ st[p] \in Process /\ Has(st[p]) /\ Finds(st[p]) /\ st[p].at = "invWrite" /\ Running(p)
      /\ FilesTyped /\ NamesInv /\ st[p].fd \in Inode /\ st[p].fd # None
      /\ st[p].seen \in [Id -> Path \cup {None}]
      /\ UNCHANGED <<dirs, files, inv, invTmp, made>> /\ Set(p, s)
  BY ProcessTypes, StoresAssumption DEF InvWrite, Running, Has
<1>2. PICK left \in IF pathsIn[st[p].fd] = None THEN {st[p].seen} ELSE {st[p].seen, None} :
        pathsIn' = [pathsIn EXCEPT ![st[p].fd] = left]
  BY DEF InvWrite
<1>3. /\ s \in Process /\ s.at = "invRename" /\ s.path = st[p].path /\ s.args = st[p].args
      /\ s.layouts = st[p].layouts /\ s.alone = st[p].alone /\ s.id = st[p].id /\ s.seen = st[p].seen
  BY <1>1 DEF Process, Places
<1>4. FilesTyped' /\ NamesInv'
  BY <1>1, <1>2 DEF FilesTyped, NamesInv, files
<1>5. Has(s)
  BY <1>1, <1>3 DEF Has, Opening, Naming, Registering
<1>6. Finds(s)'
  <2> SUFFICES ASSUME s.alone PROVE Finds(s)'
    BY DEF Finds
  <2>1. /\ Real[s.path] \in dirs /\ IdAt(s.path) = s.id /\ s.seen[s.id] = s.path /\ KeepsAll(s.seen)
        /\ invTmp = st[p].fd /\ pathsIn[st[p].fd] = None
    BY <1>1, <1>3 DEF Finds, Opening, Registering
  <2>2. pathsIn'[invTmp] = s.seen /\ inv # invTmp
    BY <1>1, <1>2, <1>3, <2>1 DEF FilesTyped, NamesInv
  <2>3. Inventory' = Inventory
    BY <1>1, <1>2, <2>1, <2>2 DEF Inventory, FilesTyped
  <2>4. IdAt(s.path)' = IdAt(s.path) /\ KeepsAll(s.seen)'
    BY <1>1, <2>1, <2>3 DEF IdAt, KeepsAll, MatchesStoreID, files
  <2> QED
    BY <1>1, <1>3, <2>1, <2>2, <2>4 DEF Finds, Opening, Naming, Registering
<1> QED
  BY <1>1, <1>3, <1>4, <1>5, <1>6, SetKeeps

(* The store is known, and the command has a Layout on it.                 *)
LEMMA InvRenameKeeps ==
  ASSUME Invariant, NEW p \in Proc, InvRename(p)
  PROVE  /\ Invariant'
         /\ st[p].alone => \A id \in Id : Inventory[id] # None /\ MatchesStoreID(Inventory[id], id) =>
              Inventory'[id] # None
<1> PICK ls : ls = Append(st[p].layouts, st[p].path)
  OBVIOUS
<1> PICK s : s = [st[p] EXCEPT !.at = "opened", !.layouts = ls, !.seen = Empty]
  OBVIOUS
<1>1. /\ st[p] \in Process /\ Has(st[p]) /\ Finds(st[p]) /\ st[p].at = "invRename" /\ Running(p)
      /\ FilesTyped /\ NamesInv /\ st[p].path \in Path /\ st[p].layouts \in Seq(Path) /\ st[p].id \in Id
      /\ st[p].seen \in [Id -> Path \cup {None}] /\ st[p].seen # None
      /\ UNCHANGED <<dirs, files, made>> /\ Set(p, s)
  BY ProcessTypes, StoresAssumption DEF InvRename, Running, Has, Registering
<1>2. /\ ls \in Seq(Path) /\ Len(ls) = Len(st[p].layouts) + 1 /\ Len(st[p].layouts) \in Nat
      /\ ls[Len(st[p].layouts) + 1] = st[p].path
      /\ \A i \in 1..Len(st[p].layouts) : /\ ls[i] = st[p].layouts[i]
                                          /\ st[p].layouts[i] \in Range(st[p].layouts)
  <2>1. /\ ls \in Seq(Path) /\ Len(ls) = Len(st[p].layouts) + 1 /\ Len(st[p].layouts) \in Nat
        /\ ls[Len(st[p].layouts) + 1] = st[p].path
        /\ \A i \in 1..Len(st[p].layouts) : ls[i] = st[p].layouts[i]
    BY <1>1, AppendProperties, LenProperties
  <2>2. DOMAIN st[p].layouts = 1..Len(st[p].layouts)
    BY <1>1, LenProperties
  <2> QED
    BY <2>1, <2>2 DEF Range
<1>3. /\ s \in Process /\ s.at = "opened" /\ s.path = st[p].path /\ s.args = st[p].args
      /\ s.layouts = ls /\ s.alone = st[p].alone /\ s.id = st[p].id
  BY <1>1, <1>2 DEF Process, Places, Empty
<1>4. Has(s)
  <2>1. ASSUME NEW i \in 1..Len(ls), NEW j \in 1..Len(ls), i # j PROVE ls[i] # ls[j]
    <3>1. i \in 1..Len(st[p].layouts) \/ i = Len(st[p].layouts) + 1
      BY <1>2
    <3>2. j \in 1..Len(st[p].layouts) \/ j = Len(st[p].layouts) + 1
      BY <1>2
    <3>3. \A k \in 1..Len(st[p].layouts) : ls[k] # st[p].path
      BY <1>1, <1>2 DEF Has, Opening, Registering
    <3> QED
      BY <1>1, <1>2, <2>1, <3>1, <3>2, <3>3 DEF Has
  <2> QED
    BY <1>1, <1>3, <2>1 DEF Has, Opening, Naming, Registering
<1>5. CASE invTmp # None
  <2>1. inv' = invTmp /\ invTmp' = None /\ pathsIn' = Unlinked(pathsIn, inv)
    BY <1>5 DEF InvRename
  <2>2. FilesTyped' /\ NamesInv'
    BY <1>1, <1>5, <2>1 DEF FilesTyped, NamesInv, files, Unlinked
  <2>3. pathsIn'[invTmp] = pathsIn[invTmp]
    <3>1. invTmp \in Inode /\ (inv = None \/ inv # invTmp)
      BY <1>1, <1>5 DEF FilesTyped, NamesInv
    <3> QED
      BY <1>1, <2>1, <3>1 DEF FilesTyped, Unlinked
  <2>4. ASSUME s.alone
        PROVE  /\ Inventory' = st[p].seen /\ KeepsAll(st[p].seen)
               /\ IdAt(s.path)' = s.id /\ Inventory'[s.id] = s.path
    <3>1. /\ pathsIn[invTmp] = st[p].seen /\ KeepsAll(st[p].seen) /\ st[p].seen[s.id] = s.path
          /\ IdAt(s.path) = s.id
      BY <1>1, <1>3, <2>4 DEF Finds, Registering
    <3>2. Inventory' = st[p].seen
      BY <1>1, <1>5, <2>1, <2>3, <3>1 DEF Inventory
    <3>3. IdAt(s.path)' = IdAt(s.path)
      BY <1>1 DEF IdAt, files
    <3> QED
      BY <3>1, <3>2, <3>3
  <2>5. Finds(s)'
    <3> SUFFICES ASSUME s.alone PROVE Finds(s)'
      BY DEF Finds
    <3> QED
      BY <1>3, <2>4 DEF Finds, Opening, Naming, Registering
  <2>6. st[p].alone => \A id \in Id : Inventory[id] # None /\ MatchesStoreID(Inventory[id], id) =>
          Inventory'[id] # None
    BY <1>3, <2>4 DEF KeepsAll
  <2> QED
    BY <1>1, <1>3, <1>4, <2>2, <2>5, <2>6, SetKeeps
<1>6. CASE invTmp = None
  <2>1. UNCHANGED inventory
    BY <1>6 DEF InvRename
  <2>2. ~st[p].alone
    BY <1>1, <1>6 DEF Finds
  <2>3. Finds(s)
    BY <1>3, <2>2 DEF Finds
  <2> QED
    BY <1>1, <1>3, <1>4, <2>1, <2>2, <2>3, StayKeeps
<1> QED
  BY <1>5, <1>6

LEMMA NextStoreKeeps ==
  ASSUME Invariant, NEW p \in Proc, NextStore(p)
  PROVE  Invariant'
<1>1. /\ st[p] \in Process /\ Has(st[p]) /\ st[p].at = "opened" /\ Running(p)
      /\ st[p].args \in Seq(Arg) /\ UNCHANGED <<dirs, files, inventory, made>>
  BY ProcessTypes DEF NextStore, Running
<1>2. CASE Len(st[p].args) > 1
  <2> PICK rest : rest = Tail(st[p].args)
    OBVIOUS
  <2> PICK s : s = [st[p] EXCEPT !.at = "resolve", !.args = rest, !.id = None]
    OBVIOUS
  <2>1. rest \in Seq(Arg) /\ rest # <<>>
    <3>1. st[p].args # <<>>
      BY <1>1 DEF Has
    <3>2. rest \in Seq(Arg) /\ Len(rest) = Len(st[p].args) - 1 /\ Len(st[p].args) \in Nat
      BY <1>1, <3>1, HeadTailProperties, LenProperties
    <3> QED
      BY <1>2, <3>2, EmptySeq
  <2>2. /\ s \in Process /\ s.at = "resolve" /\ s.args = rest /\ s.id = None
        /\ s.layouts = st[p].layouts /\ s.alone = st[p].alone
    BY <1>1, <2>1 DEF Process, Places
  <2>3. Set(p, s)
    BY <1>2 DEF NextStore
  <2>4. Has(s) /\ Finds(s)
    BY <1>1, <2>1, <2>2 DEF Has, Finds, Opening, Naming, Registering
  <2> QED
    BY <1>1, <2>2, <2>3, <2>4, StayKeeps
<1>3. CASE ~(Len(st[p].args) > 1)
  BY <1>1, <1>3, IdleKeeps DEF NextStore
<1> QED
  BY <1>2, <1>3
LEMMA KillKeeps ==
  ASSUME Invariant, NEW p \in Proc, Kill(p)
  PROVE  Invariant'
BY IdleKeeps DEF Kill

(* A change of the user's: no command runs, so only the files matter.      *)
LEMMA QuietKeeps ==
  ASSUME Invariant, Quiet, UNCHANGED st, FilesTyped', NamesInv'
  PROVE  Invariant'
<1>1. \A p \in Proc : ~st[p].alone
  BY DEF Quiet, Invariant, AloneInv
<1>2. TypeOK'
  BY DEF Invariant, TypeOK, FilesTyped
<1>3. (\A p \in Proc : Has(st[p]))' /\ AloneInv' /\ (\A p \in Proc : Finds(st[p]))'
  BY <1>1 DEF Invariant, Has, AloneInv, Running, Finds
<1> QED
  BY <1>2, <1>3 DEF Invariant

LEMMA MoveKeeps ==
  ASSUME Invariant, NEW from \in Dir, NEW to \in Dir, Move(from, to)
  PROVE  Invariant'
<1>1. /\ Quiet /\ FilesTyped /\ NamesInv /\ from # to /\ UNCHANGED <<idIn, inventory, made, st>>
      /\ dirs' = (dirs \ {from}) \cup {to}
      /\ meta' = [meta EXCEPT ![to] = meta[from], ![from] = None]
      /\ metaTmp' = [metaTmp EXCEPT ![to] = metaTmp[from], ![from] = None]
  BY DEF Move, Invariant, TypeOK, FilesTyped
<1>2. FilesTyped'
  BY <1>1 DEF FilesTyped, inventory
<1>3. \A d \in Dir :
        /\ meta'[d] = IF d = from THEN None ELSE IF d = to THEN meta[from] ELSE meta[d]
        /\ metaTmp'[d] = IF d = from THEN None ELSE IF d = to THEN metaTmp[from] ELSE metaTmp[d]
  BY <1>1 DEF FilesTyped
<1>4. NamesInv /\ from # to /\ UNCHANGED <<inv, invTmp>>
  BY <1>1 DEF inventory
<1>5. NamesInv'
  <2>1. ASSUME NEW d \in Dir, NEW e \in Dir, meta'[d] # None, d # e PROVE meta'[d] # meta'[e]
    <3>1. CASE d = to
      BY <1>3, <1>4, <2>1, <3>1 DEF NamesInv
    <3>2. CASE d # to
      BY <1>3, <1>4, <2>1, <3>2 DEF NamesInv
    <3> QED
      BY <3>1, <3>2
  <2>2. ASSUME NEW d \in Dir, NEW e \in Dir, metaTmp'[d] # None, d # e PROVE metaTmp'[d] # metaTmp'[e]
    <3>1. CASE d = to
      BY <1>3, <1>4, <2>2, <3>1 DEF NamesInv
    <3>2. CASE d # to
      BY <1>3, <1>4, <2>2, <3>2 DEF NamesInv
    <3> QED
      BY <3>1, <3>2
  <2>3. ASSUME NEW d \in Dir, NEW e \in Dir, meta'[d] # None PROVE meta'[d] # metaTmp'[e]
    BY <1>3, <1>4, <2>3 DEF NamesInv
  <2>4. inv' # None => inv' # invTmp'
    BY <1>4 DEF NamesInv
  <2> QED
    BY <2>1, <2>2, <2>3, <2>4 DEF NamesInv
<1> QED
  BY <1>1, <1>2, <1>5, QuietKeeps

LEMMA CopyKeeps ==
  ASSUME Invariant, NEW from \in Dir, NEW to \in Dir, Copy(from, to)
  PROVE  Invariant'
<1> PICK i : i = NewInode
  OBVIOUS
<1>1. /\ Quiet /\ FilesTyped /\ NamesInv /\ from # to /\ UNCHANGED <<metaTmp, inventory, made, st>>
      /\ meta[from] # None /\ dirs' = dirs \cup {to}
      /\ meta' = [meta EXCEPT ![to] = i] /\ idIn' = [idIn EXCEPT ![i] = idIn[meta[from]]]
  BY DEF Copy, Invariant, TypeOK, FilesTyped
<1>2. /\ i \in Inode /\ \A d \in Dir : i # meta[d] /\ i # metaTmp[d]
  BY NewInodeIsNew DEF Invariant
<1>3. FilesTyped'
  BY <1>1, <1>2 DEF FilesTyped, inventory
<1>4. \A d \in Dir : meta'[d] = IF d = to THEN i ELSE meta[d]
  BY <1>1 DEF FilesTyped
<1>5. NamesInv'
  BY <1>1, <1>2, <1>4 DEF NamesInv, inventory
<1> QED
  BY <1>1, <1>3, <1>5, QuietKeeps

LEMMA DeleteKeeps ==
  ASSUME Invariant, NEW d \in Dir, Delete(d)
  PROVE  Invariant'
<1>1. /\ Quiet /\ FilesTyped /\ NamesInv /\ UNCHANGED <<inventory, made, st>>
      /\ dirs' = dirs \ {d}
      /\ meta' = [meta EXCEPT ![d] = None] /\ metaTmp' = [metaTmp EXCEPT ![d] = None]
      /\ idIn' = Unlinked(Unlinked(idIn, meta[d]), metaTmp[d])
  BY DEF Delete, Invariant, TypeOK, FilesTyped
<1>2. \A i, j : Unlinked(Unlinked(idIn, i), j) \in [Inode -> Id \cup {None}]
  BY <1>1 DEF Unlinked, FilesTyped
<1>3. FilesTyped'
  BY <1>1, <1>2 DEF FilesTyped, inventory
<1>4. \A e \in Dir : /\ meta'[e] = IF e = d THEN None ELSE meta[e]
                     /\ metaTmp'[e] = IF e = d THEN None ELSE metaTmp[e]
  BY <1>1 DEF FilesTyped
<1>5. NamesInv'
  BY <1>1, <1>4 DEF NamesInv, inventory
<1> QED
  BY <1>1, <1>3, <1>5, QuietKeeps
-----------------------------------------------------------------------------
(* The specification                                                       *)

LEMMA InitInvariant ==
  ASSUME Init
  PROVE  Invariant
<1>1. \A p \in Proc : /\ st[p] = Idle /\ Idle \in Process /\ Idle.at = "idle" /\ Idle.alone = FALSE
                      /\ Idle.layouts = <<>>
  BY DEF Init, Idle, Process, Places, Empty
<1>2. TypeOK
  <2>1. Cardinality(Id) \in Nat
    BY StoresAssumption, FS_CardinalityType
  <2> QED
    BY <1>1, <2>1 DEF Init, TypeOK
<1>3. \A p \in Proc : Has(st[p]) /\ Finds(st[p])
  BY <1>1 DEF Has, Finds, Opening, Naming, Registering
<1>4. NamesInv /\ AloneInv
  BY <1>1 DEF Init, NamesInv, AloneInv
<1> QED
  BY <1>2, <1>3, <1>4 DEF Invariant

LEMMA StepKeeps ==
  ASSUME Invariant, NEW p \in Proc, Step(p)
  PROVE  Invariant'
BY ResolveKeeps, MatchKeeps, OpenKeeps, IdentifyKeeps, MetaOpenKeeps, MetaWriteKeeps, MetaRenameKeeps,
   LoadInventoryKeeps, PruneKeeps, InvOpenKeeps, InvWriteKeeps, InvRenameKeeps, NextStoreKeeps DEF Step

LEMMA NextInvariant ==
  ASSUME Invariant, [Next]_vars
  PROVE  Invariant'
<1>1. CASE Next
  BY <1>1, StartKeeps, StepKeeps, KillKeeps, MoveKeeps, CopyKeeps, DeleteKeeps DEF Next
<1>2. CASE UNCHANGED vars
  <2>1. TypeOK' /\ NamesInv'
    BY <1>2 DEF vars, files, inventory, counts, Invariant, TypeOK, NamesInv
  <2>2. AloneInv' /\ (\A p \in Proc : Has(st[p]))'
    BY <1>2 DEF vars, Invariant, AloneInv, Running, Has
  <2>3. (\A p \in Proc : Finds(st[p]))'
    <3>1. \A p \in Proc : Finds(st[p])
      BY DEF Invariant
    <3>2. /\ dirs' = dirs /\ meta' = meta /\ metaTmp' = metaTmp /\ idIn' = idIn /\ inv' = inv
          /\ invTmp' = invTmp /\ pathsIn' = pathsIn /\ st' = st
      BY <1>2 DEF vars, files, inventory
    <3>3. Inventory' = Inventory
      BY ONLY <3>2 DEF Inventory
    <3>4. \A path : IdAt(path)' = IdAt(path)
      BY ONLY <3>2 DEF IdAt
    <3>5. \A seen : KeepsAll(seen)' <=> KeepsAll(seen)
      BY ONLY <3>3, <3>4 DEF KeepsAll, MatchesStoreID
    <3> QED
      BY ONLY <3>1, <3>2, <3>3, <3>4, <3>5 DEF Finds
  <2> QED
    BY <2>1, <2>2, <2>3 DEF Invariant
<1> QED
  BY <1>1, <1>2

(* The strengthened invariant of the stores and their inventory holds at   *)
(* every moment.                                                           *)
THEOREM InvariantHolds == Spec => []Invariant
<1>1. Init => Invariant
  BY InitInvariant
<1>2. Invariant /\ [Next]_vars => Invariant'
  BY NextInvariant
<1> QED
  BY <1>1, <1>2, PTL DEF Spec

(* Whatever kills and colliding commands left behind, a command that runs  *)
(* alone leaves its store under its id and findable (NewLayout).           *)
THEOREM StoresAreFindable == Spec => []AloneRegisters
<1>1. Invariant => AloneRegisters
  BY DEF Invariant, Finds, AloneRegisters
<1> QED
  BY <1>1, InvariantHolds, PTL

(* A command that runs alone drops no store from the inventory that is     *)
(* where it was last seen (updateStoreInventory).                          *)
THEOREM NoStoreIsForgotten == Spec => AloneForgetsNone
<1> DEFINE Step1 == \A p \in Proc : InvRename(p) /\ st[p].alone =>
       \A id \in Id : Inventory[id] # None /\ MatchesStoreID(Inventory[id], id) =>
         Inventory'[id] # None
<1>1. Invariant => Step1
  BY InvRenameKeeps
<1>2. Invariant => [Step1]_vars
  BY <1>1
<1> HIDE DEF Step1
<1>3. Spec => [][Step1]_vars
  BY <1>2, InvariantHolds, PTL DEF Spec
<1> QED
  BY <1>3 DEF AloneForgetsNone, Step1

(* The documents of a sync share a Layout of a store, where no two paths   *)
(* are one directory (resolveTargetStore).                                 *)
THEOREM StoresAreOpenedOnce ==
  ASSUME \A a, b \in Path : Real[a] = Real[b] => a = b
  PROVE  Spec => []OneLayoutPerStore
<1>1. Invariant => OneLayoutPerStore
  <2> SUFFICES ASSUME Invariant, NEW p \in Proc,
                      NEW i \in DOMAIN st[p].layouts, NEW j \in DOMAIN st[p].layouts, i # j
               PROVE  Real[st[p].layouts[i]] # Real[st[p].layouts[j]]
    BY DEF OneLayoutPerStore
  <2>1. st[p].layouts \in Seq(Path) /\ DOMAIN st[p].layouts = 1..Len(st[p].layouts)
    BY ProcessTypes, LenProperties
  <2>2. st[p].layouts[i] # st[p].layouts[j] /\ st[p].layouts[i] \in Path /\ st[p].layouts[j] \in Path
    BY <2>1, ElementOfSeq, ProcessTypes DEF Has
  <2> QED
    BY <2>2
<1> QED
  BY <1>1, InvariantHolds, PTL

(* What a process keeps of the inventory and of its stores has its type.   *)
THEOREM TypeCorrect == Spec => []TypeOK
<1>1. Invariant => TypeOK
  BY DEF Invariant
<1> QED
  BY <1>1, InvariantHolds, PTL
=============================================================================
