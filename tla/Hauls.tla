------------------------------- MODULE Hauls -------------------------------
(***************************************************************************)
(* A store is saved into an archive, a haul, whole or split into chunks    *)
(* (cmd/hauler/cli/store/save.go, pkg/archives), and hauls are loaded into *)
(* another store, one after the other, through one temp directory          *)
(* (load.go, pkg/archives, audit.MergeStoreLog).  The files lie in one     *)
(* directory, where old chunks stay, a user deletes files, and one save    *)
(* and one load may run at the same time.                                  *)
(*                                                                         *)
(* The n-th save of a behaviour writes an archive of Size[n] pieces; its   *)
(* index.json names the references Content[n].  In a directory, 0 is the   *)
(* name without a suffix and i > 0 the chunk with the suffix .00i.         *)
(* Versions before 2.1 named a chunk <base>_N<ext>.  A haul may have such  *)
(* a name: a load then takes it for a chunk of <base><ext>.                *)
(***************************************************************************)
EXTENDS Integers, Sequences, FiniteSets, SequencesExt

CONSTANTS
  Haul,      \* names given to save and load, --filename
  Joined,    \* the <base><ext> of each haul named <base>_N<ext>, else None
  Number,    \* the N of such a name
  Hinted,    \* hauls with an old chunk's "_N." somewhere in their name
  Ref,       \* references of artifacts
  MaxSaves,  \* bound: saves in a behaviour
  Size,      \* pieces of the archive of each save
  Content,   \* the references in its index.json
  Logged,    \* the saves whose store has an audit.log
  Asked,     \* chunk sizes asked for, in pieces; 0 asks for none
  Word,      \* how many values the integer a chunk size is computed in has
  Arguments, \* lists of files given to load
  None, Torn

Save == 1..MaxSaves
Piece == [save : Save, at : Nat]
Archive(n) == [i \in 1..Size[n] |-> [save |-> n, at |-> i]]
Suffix == UNION {0..Size[n] : n \in Save}

(* One --filename: a haul or one chunk of it, on disk or behind a URL.     *)
Argument == [haul : Haul, chunk : Suffix, remote : BOOLEAN]

ASSUME HaulsAssumption ==
  /\ MaxSaves \in Nat \ {0} /\ Word \in Nat \ {0}
  /\ DOMAIN Joined = Haul /\ Number \in [Haul -> Nat]
  /\ \A g, h \in Haul : Joined[g] = Joined[h] /\ Joined[h] # None /\ Number[g] = Number[h] => g = h
  /\ {h \in Haul : Joined[h] # None} \subseteq Hinted
  /\ Size \in [Save -> Nat \ {0}]
  /\ Content \in [Save -> SUBSET Ref]
  /\ Logged \subseteq Save
  /\ Asked \subseteq Nat
  /\ Arguments \subseteq Seq(Argument)
  /\ {None, Torn} \cap (Save \cup Haul) = {} /\ None # Torn
  /\ None \notin Seq(Piece)

VARIABLES
  file,   \* the contents of each file of each haul; None: there is no such file
  saves,  \* saves begun so far
  made,   \* the haul each of them is written to, and the chunk size asked for
  sv,     \* the save that is running
  fresh,  \* for each haul, the last save that returned no error, while its
          \* files are as it left them, else None
  ld,     \* the load that is running, or the last one
  stage,  \* stageDir: chunks downloaded by the load
  temp,   \* tempDir: the saves its index.json and its audit.log come from
  dest,   \* the store loaded into: the save each reference was loaded from
  log     \* the saves whose audit log is merged into the store's

vars == <<file, saves, made, sv, fresh, ld, stage, temp, dest, log>>

NoFiles == [i \in Suffix |-> None]

NoSave == [pc |-> "idle", haul |-> None, limit |-> 0, done |-> 0]
NoLoad == [pc |-> "idle", args |-> <<>>, want |-> {}, ignore |-> FALSE, todo |-> <<>>, item |-> None,
           parts |-> {}, hinted |-> FALSE, bytes |-> <<>>,
           left |-> {}, got |-> {}, skipped |-> FALSE, expect |-> None]

TypeOK ==
  /\ \A h \in Haul : \A i \in Suffix : file[h][i] = None \/ file[h][i] \in Seq(Piece)
  /\ saves \in 0..MaxSaves
  /\ \A n \in 1..saves : made[n].haul \in Haul /\ made[n].asked \in Asked
  /\ sv.pc \in {"idle", "write", "split", "drop"}
  /\ fresh \in [Haul -> Save \cup {None}]
  /\ ld.pc \in {"idle", "stage", "open", "join", "unarchive", "copy", "clear", "done"}
  /\ temp.index \in Save \cup {None, Torn} /\ temp.log \in Save \cup {None}
  /\ dest \in [Ref -> Save \cup {None}]
  /\ log \subseteq Save

Init ==
  /\ file = [h \in Haul |-> NoFiles]
  /\ saves = 0 /\ made = [n \in Save |-> None]
  /\ sv = NoSave
  /\ fresh = [h \in Haul |-> None]
  /\ ld = NoLoad
  /\ stage = [h \in Haul |-> NoFiles]
  /\ temp = [index |-> None, log |-> None]
  /\ dest = [r \in Ref |-> None]
  /\ log = {}

-----------------------------------------------------------------------------
(* hauler store save.                                                      *)

(* n * mult, in a signed integer: it may wrap, and a wrapped size that is  *)
(* positive is taken.                                                      *)
ParseChunkSize(asked) ==
  LET m == asked % Word IN IF 2 * m >= Word THEN m - Word ELSE m

SaveUnchanged == UNCHANGED <<saves, made, sv, fresh, file>>
LoadUnchanged == UNCHANGED <<ld, stage, temp, dest, log>>

(* SaveCmd up to the archive: Archive removes an existing output file.     *)
SaveStart(h, asked) ==
  /\ sv.pc = "idle" /\ saves < MaxSaves
  /\ saves' = saves + 1
  /\ made' = [made EXCEPT ![saves + 1] = [haul |-> h, asked |-> asked]]
  /\ sv' = [NoSave EXCEPT !.pc = "write", !.haul = h]
  /\ file' = [file EXCEPT ![h][0] = None]
  /\ fresh' = [fresh EXCEPT ![h] = None]
  /\ LoadUnchanged

SaveReturns(ok) ==
  /\ sv' = NoSave
  /\ fresh' = IF ok THEN [fresh EXCEPT ![sv.haul] = saves] ELSE fresh

(* Archive writes the file, piece by piece.                                *)
WriteArchive ==
  /\ sv.pc = "write"
  /\ LET had == IF file[sv.haul][0] = None THEN <<>> ELSE file[sv.haul][0]
         now == SubSeq(Archive(saves), 1, Len(had) + 1)
         limit == ParseChunkSize(made[saves].asked)
     IN  /\ file' = [file EXCEPT ![sv.haul][0] = now]
         /\ IF now # Archive(saves) THEN UNCHANGED <<sv, fresh>>
            ELSE IF made[saves].asked = 0 THEN SaveReturns(TRUE)
            ELSE IF limit <= 0 THEN SaveReturns(FALSE)
            ELSE sv' = [sv EXCEPT !.pc = "split", !.limit = limit] /\ UNCHANGED fresh
  /\ UNCHANGED <<saves, made>> /\ LoadUnchanged

(* Mutant: the last chunk is taken for written one piece too early.        *)
NextChunkShort ==
  /\ sv.pc = "split"
  /\ LET upto == (sv.done + 1) * sv.limit
     IN  /\ file' = [file EXCEPT ![sv.haul][sv.done + 1] =
                       SubSeq(Archive(saves), sv.done * sv.limit + 1, upto)]
         /\ sv' = [sv EXCEPT !.done = @ + 1,
                             !.pc = IF upto >= Size[saves] - 1 THEN "drop" ELSE "split"]
  /\ UNCHANGED <<saves, made, fresh>> /\ LoadUnchanged

(* SplitArchive: the next chunk, created with the first bytes for it; an   *)
(* existing file of that name is replaced.                                 *)
NextChunk ==
  /\ sv.pc = "split"
  /\ LET from == sv.done * sv.limit
         upto == IF from + sv.limit < Size[saves] THEN from + sv.limit ELSE Size[saves]
     IN  /\ file' = [file EXCEPT ![sv.haul][sv.done + 1] = SubSeq(Archive(saves), from + 1, upto)]
         /\ sv' = [sv EXCEPT !.done = @ + 1,
                             !.pc = IF upto = Size[saves] THEN "drop" ELSE "split"]
  /\ UNCHANGED <<saves, made, fresh>> /\ LoadUnchanged

(* The original is removed when all its chunks are there.                  *)
DropOriginal ==
  /\ sv.pc = "drop"
  /\ file' = [file EXCEPT ![sv.haul][0] = None]
  /\ SaveReturns(TRUE)
  /\ UNCHANGED <<saves, made>> /\ LoadUnchanged

(* A step of the save fails, or the process is killed: what is written     *)
(* stays, a chunk perhaps in part.                                         *)
SaveFails ==
  /\ sv.pc # "idle"
  /\ SaveReturns(FALSE)
  /\ \/ UNCHANGED file
     \/ /\ sv.pc = "split"
        /\ file' = [file EXCEPT ![sv.haul][sv.done + 1] = <<>>]
  /\ UNCHANGED <<saves, made>> /\ LoadUnchanged

(* A file is deleted, or lost on the way to where it is loaded.            *)
LoseFile(h, i) ==
  /\ i # 0 /\ file[h][i] # None /\ sv.haul # h
  /\ file' = [file EXCEPT ![h][i] = None]
  /\ fresh' = [fresh EXCEPT ![h] = None]
  /\ UNCHANGED <<saves, made, sv>> /\ LoadUnchanged

-----------------------------------------------------------------------------
(* hauler store load.                                                      *)
Chunks(dir, h) == {i \in Suffix \ {0} : dir[h][i] # None}

(* What JoinChunks joins: the files <name>.NNN of one name, else those     *)
(* named <base>_N<ext> with one base and ext.                              *)
Siblings(h) == {g \in Haul : Joined[g] = Joined[h] /\ Joined[h] # None}
Split(dir, h) == {<<h, i>> : i \in Chunks(dir, h)}
Legacy(dir, h) == {<<g, 0>> : g \in {s \in Siblings(h) : dir[s][0] # None}}

Position(part) == IF part[2] = 0 THEN Number[part[1]] ELSE part[2]

NoTemp == [index |-> None, log |-> None]
NoStage == [h \in Haul |-> NoFiles]

LoadStart(list, ignore) ==
  /\ ld.pc \in {"idle", "done"}
  /\ ld' = [NoLoad EXCEPT !.pc = "stage", !.args = list, !.ignore = ignore,
                          !.want = {list[i].haul : i \in DOMAIN list}]
  /\ SaveUnchanged /\ UNCHANGED <<stage, temp, dest, log>>

(* LoadCmd returns and removes both its directories, which no other load   *)
(* uses.                                                                   *)
LoadReturns(last) ==
  /\ ld' = last
  /\ stage' = NoStage /\ temp' = NoTemp
  /\ SaveUnchanged /\ UNCHANGED <<dest, log>>

LoadEnds ==
  /\ ld.pc = "open" /\ ld.todo = <<>>
  /\ LoadReturns([NoLoad EXCEPT !.pc = "done", !.want = ld.want, !.got = ld.got,
                                !.skipped = ld.skipped])

(* An error at any step, a download or a file that is gone, or the process *)
(* is killed: what is in the store stays.                                  *)
LoadStops == ld.pc \notin {"idle", "done"} /\ LoadReturns(NoLoad)

Items == {ld.todo[i] : i \in DOMAIN ld.todo}

(* ChunkGroupKey: chunks of one key are taken for one set.                 *)
IsChunk(arg) == arg.chunk # 0 \/ Joined[arg.haul] # None
Key(arg)     == IF arg.chunk # 0 THEN arg.haul ELSE Joined[arg.haul]
Staged(arg)  == arg.remote /\ IsChunk(arg)

(* stageRemoteChunks: remote chunks are downloaded first, and only one of  *)
(* each key is loaded.                                                     *)
StageArgument ==
  /\ ld.pc = "stage" /\ ld.args # <<>>
  /\ LET arg == Head(ld.args)
         known == \E it \in Items : Staged(it) /\ Key(it) = Key(arg)
     IN  /\ Staged(arg) => file[arg.haul][arg.chunk] # None
         /\ stage' = IF Staged(arg) THEN [stage EXCEPT ![arg.haul][arg.chunk] = file[arg.haul][arg.chunk]]
                     ELSE stage
         /\ ld' = [ld EXCEPT !.args = Tail(@),
                             !.todo = IF Staged(arg) /\ known THEN @ ELSE Append(@, arg)]
  /\ SaveUnchanged /\ UNCHANGED <<temp, dest, log>>

StageEnds ==
  /\ ld.pc = "stage" /\ ld.args = <<>>
  /\ ld' = [ld EXCEPT !.pc = "open"]
  /\ SaveUnchanged /\ UNCHANGED <<stage, temp, dest, log>>

(* What this argument should find: the last save of the haul, unless it    *)
(* names an older form of it or one downloaded before, or is taken for     *)
(* another chunk than the first.                                           *)
Expected(arg) ==
  LET h     == arg.haul
      whole == file[h][0] # None
      first == \A g \in Siblings(h) : file[g][0] # None => Number[h] <= Number[g]
  IN  IF ~arg.remote /\ (whole => arg.chunk = 0 /\ first) THEN fresh[h] ELSE None

(* Mutant: chunks are looked for before the archive itself.                *)
OpenChunksFirst ==
  /\ ld.pc = "open" /\ ld.todo # <<>>
  /\ LET arg == Head(ld.todo)
         dir == IF Staged(arg) THEN stage ELSE file
         there == arg.chunk = 0 /\ dir[arg.haul][0] # None
         split == Split(dir, arg.haul)
         parts == IF split = {} /\ arg.chunk = 0 THEN Legacy(dir, arg.haul) ELSE split
     IN  /\ arg.remote /\ ~Staged(arg) => there
         /\ ld' = [ld EXCEPT !.todo = Tail(@), !.item = arg, !.expect = Expected(arg),
                             !.pc = IF parts = {} THEN "unarchive" ELSE "join",
                             !.parts = parts,
                             !.hinted = arg.haul \in Hinted \/ arg.chunk # 0 \/ split # {},
                             !.bytes = IF parts = {} /\ there THEN dir[arg.haul][0] ELSE <<>>]
  /\ SaveUnchanged /\ UNCHANGED <<stage, temp, dest, log>>

(* resolveHaulPath, the download of a remote archive, and the globs of     *)
(* JoinChunks.  A name that is neither there nor a chunk's is opened all   *)
(* the same: Unarchive fails.                                              *)
OpenHaul ==
  /\ ld.pc = "open" /\ ld.todo # <<>>
  /\ LET arg == Head(ld.todo)
         dir == IF Staged(arg) THEN stage ELSE file
         there == arg.chunk = 0 /\ dir[arg.haul][0] # None
         split == IF there THEN {} ELSE Split(dir, arg.haul)
         parts == IF split = {} /\ arg.chunk = 0 THEN Legacy(dir, arg.haul) ELSE split
     IN  /\ arg.remote /\ ~Staged(arg) => there
         /\ ld' = [ld EXCEPT !.todo = Tail(@), !.item = arg, !.expect = Expected(arg),
                             !.pc = IF parts = {} THEN "unarchive" ELSE "join",
                             !.parts = parts,
                             !.hinted = arg.haul \in Hinted \/ arg.chunk # 0 \/ split # {},
                             !.bytes = IF parts = {} /\ there THEN dir[arg.haul][0] ELSE <<>>]
  /\ SaveUnchanged /\ UNCHANGED <<stage, temp, dest, log>>

(* joinFiles: the next chunk is opened when its turn comes.                *)
JoinChunk ==
  /\ ld.pc = "join"
  /\ \E p \in ld.parts :
       LET chunk == (IF Staged(ld.item) THEN stage ELSE file)[p[1]][p[2]]
           rest  == ld.parts \ {p}
       IN  /\ \A q \in rest : Position(p) < Position(q)
           /\ chunk # None
           /\ ld' = [ld EXCEPT !.bytes = @ \o chunk, !.parts = rest,
                               !.pc = IF rest = {} THEN "unarchive" ELSE "join"]
  /\ SaveUnchanged /\ UNCHANGED <<stage, temp, dest, log>>

(* The saves whose archive the bytes begin with.                           *)
Whole(bytes) == {n \in Save : IsPrefix(Archive(n), bytes)}

(* Unarchive writes over the files of an earlier haul without truncating   *)
(* them: an index.json that was longer keeps its end.                      *)
Unpacked(n, old) ==
  {[index |-> i, log |-> IF n \in Logged THEN n ELSE old.log] :
     i \in {n} \cup (IF old.index \in {None, n} THEN {} ELSE {Torn})}

(* Unarchive, and the index.json of the haul read and written back; one    *)
(* that is torn does not decode.  What comes after the end of the archive  *)
(* is not always noticed.                                                  *)
UnarchiveHaul ==
  /\ ld.pc = "unarchive"
  /\ \E n \in Whole(ld.bytes) : temp' \in Unpacked(n, temp) /\ temp'.index # Torn
  /\ ld' = [ld EXCEPT !.pc = "copy", !.bytes = <<>>, !.left = Content[temp'.index]]
  /\ SaveUnchanged /\ UNCHANGED <<stage, dest, log>>

(* Unarchive fails and has unpacked some files.  With --ignore-errors a    *)
(* haul whose name looks like a chunk's is then passed over (chunkHint);   *)
(* any other failure ends the load.                                        *)
PassOver ==
  /\ ld.pc = "unarchive" /\ ld.hinted /\ ld.ignore
  /\ \/ UNCHANGED temp
     \/ \E n \in {ld.bytes[i].save : i \in DOMAIN ld.bytes} : temp' \in Unpacked(n, temp)
  /\ ld' = [ld EXCEPT !.pc = "clear", !.bytes = <<>>, !.skipped = TRUE]
  /\ SaveUnchanged /\ UNCHANGED <<stage, dest, log>>

(* CopyAll into the store, an entry at a time.                             *)
CopyEntry(r) ==
  /\ ld.pc = "copy" /\ r \in ld.left
  /\ dest' = [dest EXCEPT ![r] = temp.index]
  /\ ld' = [ld EXCEPT !.left = @ \ {r}]
  /\ SaveUnchanged /\ UNCHANGED <<stage, temp, log>>

(* Mutant: an error of CopyAll is dropped.                                 *)
MergeAnyway ==
  /\ ld.pc = "copy"
  /\ ld' = [ld EXCEPT !.pc = "clear", !.got = @ \cup {temp.index}]
  /\ \/ temp.log # None /\ log' = log \cup {temp.log}
     \/ UNCHANGED log
  /\ SaveUnchanged /\ UNCHANGED <<stage, temp, dest>>

(* MergeStoreLog, once everything is copied; its failure is a warning.     *)
MergeLog ==
  /\ ld.pc = "copy" /\ ld.left = {}
  /\ ld' = [ld EXCEPT !.pc = "clear", !.got = @ \cup {temp.index}]
  /\ \/ temp.log # None /\ log' = log \cup {temp.log}
     \/ UNCHANGED log
  /\ SaveUnchanged /\ UNCHANGED <<stage, temp, dest>>

(* Mutant: the directory that cannot be removed comes first.               *)
ClearFromTheEnd ==
  /\ ld.pc = "clear"
  /\ temp' \in {NoTemp, [temp EXCEPT !.index = None]}
  /\ ld' = [ld EXCEPT !.pc = "open", !.item = None, !.expect = None, !.hinted = FALSE]
  /\ SaveUnchanged /\ UNCHANGED <<stage, dest, log>>

(* clearDir removes audit.log, blobs, index.json in this order and stops   *)
(* at a directory it cannot remove; nobody looks at its error.             *)
ClearDir ==
  /\ ld.pc = "clear"
  /\ temp' \in {NoTemp, [temp EXCEPT !.log = None]}
  /\ ld' = [ld EXCEPT !.pc = "open", !.item = None, !.expect = None, !.hinted = FALSE]
  /\ SaveUnchanged /\ UNCHANGED <<stage, dest, log>>

Next ==
  \/ \E h \in Haul : \E asked \in Asked : SaveStart(h, asked)
  \/ WriteArchive \/ NextChunk \/ DropOriginal \/ SaveFails
  \/ \E h \in Haul : \E i \in Suffix : LoseFile(h, i)
  \/ \E list \in Arguments : \E ignore \in BOOLEAN : LoadStart(list, ignore)
  \/ StageArgument \/ StageEnds \/ OpenHaul \/ JoinChunk \/ UnarchiveHaul \/ PassOver
  \/ \E r \in Ref : CopyEntry(r)
  \/ MergeLog \/ ClearDir \/ LoadEnds \/ LoadStops

Spec == Init /\ [][Next]_vars

-----------------------------------------------------------------------------
(* A finite set of numbers, in ascending order.                            *)
Ascending(S) ==
  CHOOSE s \in SetToSeqs(S) : \A i, k \in DOMAIN s : i < k => s[i] < s[k]

(* Where an archive was put by a save that returned no error, its bytes    *)
(* are: the file, or the chunks joined in order, begin with all of it,     *)
(* whatever was there before and however the chunk size was computed, and  *)
(* no chunk of it is larger than was asked for.                            *)
SavedIsWhole ==
  \A h \in Haul : \A n \in {fresh[h]} \ {None} :
    LET parts == Ascending(Chunks(file, h))
        joined == FlattenSeq([i \in DOMAIN parts |-> file[h][parts[i]]])
    IN  IF made[n].asked = 0 THEN file[h][0] = Archive(n)
        ELSE /\ file[h][0] = None
             /\ IsPrefix(Archive(n), joined)
             /\ \A i \in DOMAIN parts :
                  Range(file[h][parts[i]]) \cap Range(Archive(n)) # {}
                    => Len(file[h][parts[i]]) <= made[n].asked

(* What a load copies is the last save of the haul, as long as nothing has *)
(* happened to its files since: never an older form of the same haul that  *)
(* lies beside it, nor what an earlier haul left in the temp directory.    *)
(* Of hauls named like the chunks of one old set the load takes the        *)
(* first, whichever it was given: for the others nothing is promised.      *)
LatestIsLoaded ==
  /\ ld.pc = "copy"
  /\ ld.expect # None /\ fresh[ld.item.haul] = ld.expect
  => temp.index = ld.expect

(* Hauls a load takes for one: the same name, or names of one old set.     *)
Names(h)  == {h, Joined[h]} \ {None}
Kin(g, h) == Names(g) \cap Names(h) # {}

(* A load that returns no error, and passed over nothing, has loaded a     *)
(* complete save of every haul it was given, by whatever chunks, or of one *)
(* that it takes for the same; every reference of those is in the store,   *)
(* from one of them.                                                       *)
LoadedAll ==
  ld.pc = "done" /\ ~ld.skipped =>
    /\ \A h \in ld.want : \E n \in ld.got : Kin(made[n].haul, h)
    /\ \A n \in ld.got : \E h \in ld.want : Kin(made[n].haul, h)
    /\ \A n \in ld.got : \A r \in Content[n] : dest[r] \in ld.got

(* Audit logs are merged for hauls whose content was copied, never from a  *)
(* haul that was passed over or that failed, though they share a directory.*)
LogFollowsContent == [][log' \ log \subseteq ld'.got]_vars
=============================================================================
