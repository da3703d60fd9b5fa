------------------------------- MODULE Stores -------------------------------
(***************************************************************************)
(* How a command finds its stores: a store's identity in <store>/store.json*)
(* (pkg/store/store.go, NewLayout), the inventory <hauler>/stores.json of  *)
(* where each was seen last (inventory.go), the lookup of a store by its   *)
(* id (internal/flags/store.go), and the stores the documents of a sync    *)
(* name (cmd/hauler/cli/store/sync.go, resolveTargetStore).  Commands run  *)
(* side by side and may be killed; between them the user moves, copies and *)
(* deletes stores.                                                         *)
(*                                                                         *)
(* Both files are replaced by writing a temp file of one fixed name and    *)
(* renaming it, so what the name stands for is modelled by its inode: a    *)
(* process that has the temp file open writes to it wherever it is now.    *)
(***************************************************************************)
EXTENDS Naturals, Sequences, FiniteSets, Functions

CONSTANTS
  Proc,
  Path,        \* absolute paths of directories
  Real,        \* the directory a path is, behind symbolic links
  Arg,         \* what a command may be given for a store
  AbsOf,       \*   the absolute path of that as a path
  Id,          \* ids, in the order uuid.New() makes them
  IdsOf,       \*   the ids it is, or is a prefix of
  FullId,      \* arguments in the form of a whole id
  Asked,       \* the commands: which stores, the default first, they open
  Inode,
  MaxCommands, MaxKills, MaxChanges,   \* bounds
  None

Dir == Range(Real)

ASSUME StoresAssumption ==
  /\ Real \in [Path -> Path] /\ \A p \in Path : Real[Real[p]] = Real[p]
  /\ AbsOf \in [Arg -> Path]
  /\ IsFiniteSet(Id) /\ Id = 1..Cardinality(Id)
  /\ IdsOf \in [Arg -> SUBSET Id] /\ FullId \subseteq Arg
  /\ Asked \subseteq Seq(Arg) /\ <<>> \notin Asked
  /\ MaxCommands \in Nat /\ MaxKills \in Nat /\ MaxChanges \in Nat
  /\ None \notin Path \cup Arg \cup Inode \cup Id
  /\ None \notin [Id -> Path \cup {None}]

(* There are inodes for the files of every store, of the inventory, and    *)
(* those that processes have open.                                         *)
ASSUME InodeAssumption ==
  /\ IsFiniteSet(Dir) /\ IsFiniteSet(Proc) /\ IsFiniteSet(Inode)
  /\ 2 * Cardinality(Dir) + Cardinality(Proc) + 2 < Cardinality(Inode)

VARIABLES
  dirs,      \* the directories there are
  meta,      \* the inode of store.json in each directory, or None
  metaTmp,   \*   and of store.json.tmp
  idIn,      \* the id in an inode, or None when it cannot be parsed
  inv,       \* the inode of stores.json, or None
  invTmp,    \*   and of stores.json.tmp
  pathsIn,   \* the paths by id in an inode, or None
  made,      \* how many ids were made
  st,        \* the state of each process
  commands, kills, changes

files == <<meta, metaTmp, idIn>>
inventory == <<inv, invTmp, pathsIn>>
counts == <<commands, kills, changes>>
vars == <<dirs, files, inventory, made, st, counts>>

Empty == [id \in Id |-> None]
Places == {"idle", "resolve", "match", "open", "meta", "metaOpen", "metaWrite", "metaRename",
           "load", "prune", "invOpen", "invWrite", "invRename", "opened"}

(* args: the stores still to open; byId: the id the argument was resolved  *)
(* to; layouts: the paths of the Layouts the command holds; seen: the      *)
(* inventory it read; fd: the temp file it has open; alone: no other       *)
(* process has run since it started                                        *)
Idle == [at |-> "idle", args |-> <<>>, byId |-> None, path |-> None, id |-> None,
         layouts |-> <<>>, seen |-> Empty, fd |-> None, alone |-> FALSE]

Process ==
  [at : Places, args : Seq(Arg), byId : Id \cup {None}, path : Path \cup {None},
   id : Id \cup {None}, layouts : Seq(Path), seen : [Id -> Path \cup {None}],
   fd : Inode \cup {None}, alone : BOOLEAN]

TypeOK ==
  /\ dirs \subseteq Dir
  /\ meta \in [Dir -> Inode \cup {None}] /\ metaTmp \in [Dir -> Inode \cup {None}]
  /\ idIn \in [Inode -> Id \cup {None}]
  /\ inv \in Inode \cup {None} /\ invTmp \in Inode \cup {None}
  /\ pathsIn \in [Inode -> {None} \cup [Id -> Path \cup {None}]]
  /\ made \in 0..Cardinality(Id)
  /\ st \in [Proc -> Process]

Init ==
  /\ dirs = {} /\ made = 0
  /\ meta = [d \in Dir |-> None] /\ metaTmp = [d \in Dir |-> None]
  /\ idIn = [i \in Inode |-> None]
  /\ inv = None /\ invTmp = None /\ pathsIn = [i \in Inode |-> None]
  /\ st = [p \in Proc |-> Idle]
  /\ commands = 0 /\ kills = 0 /\ changes = 0

-----------------------------------------------------------------------------
(* What the files say                                                      *)

(* loadInventory: a file that is missing or cannot be parsed is an empty   *)
(* inventory.                                                              *)
Inventory == IF inv = None \/ pathsIn[inv] = None THEN Empty ELSE pathsIn[inv]

IdAt(path) ==
  IF Real[path] \notin dirs \/ meta[Real[path]] = None THEN None ELSE idIn[meta[Real[path]]]

MatchesStoreID(path, id) == IdAt(path) = id

(* ResolveStoreID: the whole id, or the one id with that prefix.           *)
Candidates(a) == {id \in IdsOf[a] : Inventory[id] # None}

Running(p) == st[p].at # "idle"

Set(p, new) == st' = [st EXCEPT ![p] = new]
At(p, at) == Set(p, [st[p] EXCEPT !.at = at])
NewInode ==
  CHOOSE i \in Inode : /\ \A d \in Dir : i \notin {meta[d], metaTmp[d]}
                       /\ i \notin {inv, invTmp}
                       /\ \A p \in Proc : i # st[p].fd

(* Nobody can read the inode a rename has replaced.                        *)
Unlinked(content, i) == IF i = None THEN content ELSE [content EXCEPT ![i] = None]

-----------------------------------------------------------------------------
(* ResolveStoreDir                                                         *)

Start(p) ==
  /\ st[p].at = "idle" /\ commands < MaxCommands
  /\ commands' = commands + 1
  /\ \E asked \in Asked :
       st' = [q \in Proc |->
                IF q = p THEN [Idle EXCEPT !.at = "resolve", !.args = asked,
                                           !.alone = \A o \in Proc \ {p} : ~Running(o)]
                ELSE [st[q] EXCEPT !.alone = @ /\ ~Running(q)]]
  /\ UNCHANGED <<dirs, files, inventory, made, kills, changes>>

(* A path that exists; else the id of a known store; else, unless it looks *)
(* like an id, a path to be made.                                          *)
Resolve(p) ==
  LET a == Head(st[p].args)  ids == Candidates(a) IN
  /\ st[p].at = "resolve"
  /\ Set(p,
       IF Real[AbsOf[a]] \in dirs
         THEN [st[p] EXCEPT !.at = "open", !.path = AbsOf[a], !.byId = None]
       ELSE IF Cardinality(ids) = 1
         THEN LET id == CHOOSE id \in ids : TRUE IN
              [st[p] EXCEPT !.at = "match", !.path = Inventory[id], !.byId = id]
       ELSE IF a \in FullId THEN Idle
       ELSE [st[p] EXCEPT !.at = "open", !.path = AbsOf[a], !.byId = None])
  /\ UNCHANGED <<dirs, files, inventory, made, counts>>

(* The directory the inventory names has that id still.                    *)
Match(p) ==
  /\ st[p].at = "match"
  /\ Set(p, IF MatchesStoreID(st[p].path, st[p].byId) THEN [st[p] EXCEPT !.at = "open"] ELSE Idle)
  /\ UNCHANGED <<dirs, files, inventory, made, counts>>

(* resolveTargetStore: a store the command has open already is used again, *)
(* found by its path.                                                      *)
(* Mutant: the default store is not compared with.                         *)
IsOpenTarget(p) == st[p].layouts # <<>> /\ st[p].path \in Range(Tail(st[p].layouts))
IsOpen(p) == st[p].path \in Range(st[p].layouts)

(* StoreRootOpts.Store: the directory is made if need be.                  *)
Open(p) ==
  /\ st[p].at = "open"
  /\ IF IsOpen(p)
       THEN At(p, "opened") /\ UNCHANGED dirs
       ELSE At(p, "meta") /\ dirs' = dirs \cup {Real[st[p].path]}
  /\ UNCHANGED <<files, inventory, made, counts>>

-----------------------------------------------------------------------------
(* loadOrCreateStoreID                                                     *)

Identify(p) ==
  /\ st[p].at = "meta"
  /\ IF IdAt(st[p].path) # None
       THEN /\ Set(p, [st[p] EXCEPT !.at = "load", !.id = IdAt(st[p].path)])
            /\ UNCHANGED made
       ELSE /\ made < Cardinality(Id)
            /\ made' = made + 1
            /\ Set(p, [st[p] EXCEPT !.at = "metaOpen", !.id = made + 1])
  /\ UNCHANGED <<dirs, files, inventory, counts>>

(* os.WriteFile truncates what is there, and writes.                       *)
MetaOpen(p) ==
  LET d == Real[st[p].path]  i == IF metaTmp[d] # None THEN metaTmp[d] ELSE NewInode IN
  /\ st[p].at = "metaOpen"
  /\ metaTmp' = [metaTmp EXCEPT ![d] = i]
  /\ idIn' = [idIn EXCEPT ![i] = None]
  /\ Set(p, [st[p] EXCEPT !.at = "metaWrite", !.fd = i])
  /\ UNCHANGED <<dirs, meta, inventory, made, counts>>

MetaWrite(p) ==
  /\ st[p].at = "metaWrite"
  /\ idIn' = [idIn EXCEPT ![st[p].fd] = st[p].id]
  /\ Set(p, [st[p] EXCEPT !.at = "metaRename", !.fd = None])
  /\ UNCHANGED <<dirs, meta, metaTmp, inventory, made, counts>>

(* The rename fails when another process has renamed the file already: the *)
(* id is used all the same.                                                *)
MetaRename(p) ==
  LET d == Real[st[p].path] IN
  /\ st[p].at = "metaRename"
  /\ IF metaTmp[d] # None
       THEN /\ meta' = [meta EXCEPT ![d] = metaTmp[d]] /\ metaTmp' = [metaTmp EXCEPT ![d] = None]
            /\ idIn' = Unlinked(idIn, meta[d])
       ELSE UNCHANGED files
  /\ At(p, "load")
  /\ UNCHANGED <<dirs, inventory, made, counts>>

-----------------------------------------------------------------------------
(* updateStoreInventory                                                    *)

LoadInventory(p) ==
  /\ st[p].at = "load"
  /\ Set(p, [st[p] EXCEPT !.at = "prune", !.seen = Inventory])
  /\ UNCHANGED <<dirs, files, inventory, made, counts>>

(* What becomes of the entry of an id: the own one is set, one whose path  *)
(* no longer holds the store is dropped.                                   *)
(* Mutant: the entries of other stores are checked for the own id.         *)
EntryOfOwn(p, id) ==
  IF id = st[p].id THEN st[p].path
  ELSE IF st[p].seen[id] # None /\ MatchesStoreID(st[p].seen[id], st[p].id) THEN st[p].seen[id]
  ELSE None
Entry(p, id) ==
  IF id = st[p].id THEN st[p].path
  ELSE IF st[p].seen[id] # None /\ MatchesStoreID(st[p].seen[id], id) THEN st[p].seen[id]
  ELSE None

Prune(p) ==
  /\ st[p].at = "prune"
  /\ Set(p, [st[p] EXCEPT !.at = "invOpen", !.seen = [id \in Id |-> Entry(p, id)]])
  /\ UNCHANGED <<dirs, files, inventory, made, counts>>

(* Mutant: what is there already is not truncated.                         *)
InvOpenAsIs(p) ==
  LET i == IF invTmp # None THEN invTmp ELSE NewInode IN
  /\ st[p].at = "invOpen"
  /\ invTmp' = i
  /\ Set(p, [st[p] EXCEPT !.at = "invWrite", !.fd = i])
  /\ UNCHANGED <<dirs, files, inv, pathsIn, made, counts>>
InvOpen(p) ==
  LET i == IF invTmp # None THEN invTmp ELSE NewInode IN
  /\ st[p].at = "invOpen"
  /\ invTmp' = i
  /\ pathsIn' = [pathsIn EXCEPT ![i] = None]
  /\ Set(p, [st[p] EXCEPT !.at = "invWrite", !.fd = i])
  /\ UNCHANGED <<dirs, files, inv, made, counts>>

(* Two processes that write one file: the second overwrites the first, and *)
(* a tail of the first may be left.                                        *)
InvWrite(p) ==
  /\ st[p].at = "invWrite"
  /\ \E left \in IF pathsIn[st[p].fd] = None THEN {st[p].seen} ELSE {st[p].seen, None} :
       pathsIn' = [pathsIn EXCEPT ![st[p].fd] = left]
  /\ Set(p, [st[p] EXCEPT !.at = "invRename", !.fd = None])
  /\ UNCHANGED <<dirs, files, inv, invTmp, made, counts>>

InvRename(p) ==
  /\ st[p].at = "invRename"
  /\ IF invTmp # None
       THEN /\ inv' = invTmp /\ invTmp' = None
            /\ pathsIn' = Unlinked(pathsIn, inv)
       ELSE UNCHANGED inventory
  /\ Set(p, [st[p] EXCEPT !.at = "opened", !.layouts = Append(@, st[p].path), !.seen = Empty])
  /\ UNCHANGED <<dirs, files, made, counts>>

-----------------------------------------------------------------------------
(* The next document of a sync names its store, or the command ends.       *)
NextStore(p) ==
  /\ st[p].at = "opened"
  /\ Set(p, IF Len(st[p].args) > 1
              THEN [st[p] EXCEPT !.at = "resolve", !.args = Tail(@), !.id = None]
              ELSE Idle)
  /\ UNCHANGED <<dirs, files, inventory, made, counts>>

Kill(p) ==
  /\ Running(p) /\ kills < MaxKills
  /\ kills' = kills + 1
  /\ Set(p, Idle)
  /\ UNCHANGED <<dirs, files, inventory, made, commands, changes>>

(* The user moves a store, or deletes it, while no command runs; a copy    *)
(* has the same id.                                                        *)
Quiet == \A p \in Proc : ~Running(p)

Move(from, to) ==
  /\ Quiet /\ changes < MaxChanges /\ from \in dirs /\ to \in Dir \ dirs
  /\ changes' = changes + 1
  /\ dirs' = (dirs \ {from}) \cup {to}
  /\ meta' = [meta EXCEPT ![to] = meta[from], ![from] = None]
  /\ metaTmp' = [metaTmp EXCEPT ![to] = metaTmp[from], ![from] = None]
  /\ UNCHANGED <<idIn, inventory, made, st, commands, kills>>

Copy(from, to) ==
  /\ Quiet /\ changes < MaxChanges /\ from \in dirs /\ to \in Dir \ dirs
  /\ meta[from] # None
  /\ changes' = changes + 1
  /\ dirs' = dirs \cup {to}
  /\ meta' = [meta EXCEPT ![to] = NewInode]
  /\ idIn' = [idIn EXCEPT ![NewInode] = idIn[meta[from]]]
  /\ UNCHANGED <<metaTmp, inventory, made, st, commands, kills>>

Delete(d) ==
  /\ Quiet /\ changes < MaxChanges /\ d \in dirs
  /\ changes' = changes + 1
  /\ dirs' = dirs \ {d}
  /\ meta' = [meta EXCEPT ![d] = None] /\ metaTmp' = [metaTmp EXCEPT ![d] = None]
  /\ idIn' = Unlinked(Unlinked(idIn, meta[d]), metaTmp[d])
  /\ UNCHANGED <<inventory, made, st, commands, kills>>

Step(p) ==
  \/ Resolve(p) \/ Match(p) \/ Open(p)
  \/ Identify(p) \/ MetaOpen(p) \/ MetaWrite(p) \/ MetaRename(p)
  \/ LoadInventory(p) \/ Prune(p) \/ InvOpen(p) \/ InvWrite(p) \/ InvRename(p)
  \/ NextStore(p)

Next ==
  \/ \E p \in Proc : Start(p) \/ Step(p) \/ Kill(p)
  \/ \E from, to \in Dir : Move(from, to) \/ Copy(from, to)
  \/ \E d \in Dir : Delete(d)

Spec == Init /\ [][Next]_vars

-----------------------------------------------------------------------------
(* Properties                                                              *)

(* Whatever was left behind by kills and by commands that ran into each    *)
(* other, a command that runs alone leaves the store it opened under its   *)
(* id, in store.json, and findable, in stores.json.                        *)
AloneRegisters ==
  \A p \in Proc : st[p].at = "opened" /\ st[p].alone /\ st[p].id # None =>
    IdAt(st[p].path) = st[p].id /\ Inventory[st[p].id] = st[p].path

(* It forgets no store that is where it was last seen.                     *)
AloneForgetsNone ==
  [][\A p \in Proc : InvRename(p) /\ st[p].alone =>
       \A id \in Id : Inventory[id] # None /\ MatchesStoreID(Inventory[id], id) =>
         Inventory'[id] # None]_vars

(* sync.go: the documents of a sync that name one store share its Layout.  *)
OneLayoutPerStore ==
  \A p \in Proc : \A i, j \in DOMAIN st[p].layouts :
    i # j => Real[st[p].layouts[i]] # Real[st[p].layouts[j]]
=============================================================================
