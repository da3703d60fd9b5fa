----------------------------- MODULE HaulsProofs ----------------------------
(***************************************************************************)
(* What holds of the saves and loads of Hauls for any number of hauls, of  *)
(* saves of any size, and of files given to a load, whatever is lost on    *)
(* the way.                                                                *)
(*                                                                         *)
(* The properties are not inductive.  Invariant is: it adds whose pieces   *)
(* the files of a haul hold (FilesHold, PiecesInv), where the hauls a load *)
(* was asked for are on their way to the store (WantInv), and what the     *)
(* temp directory and the store hold at each point of it (TempInv,         *)
(* DestInv).  It says nothing of what a file holds of an archive, which is *)
(* what KeptInv adds to it: how far a save is split (SplitInv), what one   *)
(* that returned has left (FreshInv), and how much of that a load has in   *)
(* its hands (LatestInv).                                                  *)
(*                                                                         *)
(* Chunks are joined by FlattenSeq in the order of their numbers; what     *)
(* that gives for any number of them is proved by the least number that    *)
(* would be an exception, which the well-founded order of finite sets has. *)
(***************************************************************************)
EXTENDS Hauls, SequenceTheorems, FiniteSetTheorems, TLAPS

Places == {"idle", "stage", "open", "join", "unarchive", "copy", "clear", "done"}
HasItem == {"join", "unarchive", "copy"}

Saving == [pc : {"idle", "write", "split", "drop"}, haul : Haul \cup {None}, limit : Int, done : Nat]
Loading ==
  [pc : Places, args : Seq(Argument), want : SUBSET Haul, ignore : BOOLEAN, todo : Seq(Argument),
   item : Argument \cup {None}, parts : SUBSET (Haul \X Suffix), hinted : BOOLEAN, bytes : Seq(Piece),
   left : SUBSET Ref, got : SUBSET Save, skipped : BOOLEAN, expect : Save \cup {None}]

(* The contents of a file of haul h: pieces of saves of it.                *)
PiecesOf(h, n) == n \in 1..saves /\ made[n] \in [haul : {h}, asked : Asked]
Holds(h, contents) ==
  contents \in Seq(Piece) /\ \A i \in 1..Len(contents) : PiecesOf(h, contents[i].save)

(* What a load may take for haul h, or for a chunk of it, and the pieces   *)
(* it then reads.                                                          *)
Family(arg) == {arg.haul} \cup IF arg.chunk = 0 THEN Siblings(arg.haul) ELSE {}
HoldsOf(hauls, contents) ==
  contents \in Seq(Piece) /\ \A i \in 1..Len(contents) : \E h \in hauls : PiecesOf(h, contents[i].save)

SaveTypes ==
  /\ saves \in 0..MaxSaves
  /\ made \in [Save -> {None} \cup [haul : Haul, asked : Asked]]
  /\ fresh \in [Haul -> Save \cup {None}]
  /\ sv \in Saving
  /\ sv.pc # "idle" => sv.haul \in Haul /\ PiecesOf(sv.haul, saves)
  /\ file \in [Haul -> [Suffix -> {None} \cup Seq(Piece)]]
  /\ sv.pc = "write" /\ file[sv.haul][0] # None => Len(file[sv.haul][0]) < Size[saves]
  /\ sv.pc = "split" => sv.limit > 0

LoadTypes ==
  /\ ld \in Loading
  /\ ld.got \subseteq 1..saves
  /\ stage \in [Haul -> [Suffix -> {None} \cup Seq(Piece)]]
  /\ dest \in [Ref -> Save \cup {None}]
  /\ ld.pc # "stage" => ld.args = <<>>
  /\ ld.pc = "idle" => ld.got = {}
  /\ ld.pc = "done" => ld.todo = <<>>

FilesHold == \A h \in Haul : \A i \in Suffix : file[h][i] # None => Holds(h, file[h][i])

PiecesInv ==
  /\ \A h \in Haul : \A i \in Suffix : stage[h][i] # None => Holds(h, stage[h][i])
  /\ ld.pc \in HasItem =>
       /\ ld.item \in Argument /\ HoldsOf(Family(ld.item), ld.bytes)
       /\ \A p \in ld.parts : p[1] \in Family(ld.item)

Listed(list) == {list[i] : i \in 1..Len(list)}

(* The argument that is open, and the hauls whose chunks it stands for.    *)
Open == IF ld.pc \in HasItem THEN {ld.item} ELSE {}
Stands(arg, h) == h = arg.haul \/ (Staged(arg) /\ Key(arg) \in Names(h))

WantInv ==
  ld.pc # "idle" /\ ~ld.skipped =>
    /\ \A arg \in Listed(ld.args) \cup Listed(ld.todo) \cup Open : arg.haul \in ld.want
    /\ \A n \in ld.got : \E h \in ld.want : Kin(made[n].haul, h)
    /\ \A h \in ld.want :
         \/ \E arg \in Listed(ld.args) : h = arg.haul
         \/ \E arg \in Listed(ld.todo) \cup Open : Stands(arg, h)
         \/ \E n \in ld.got : Kin(made[n].haul, h)

TempInv ==
  /\ temp \in [index : Save \cup {None, Torn}, log : Save \cup {None}]
  /\ ld.pc \notin {"copy", "clear"} => temp.log = None
  /\ ld.pc = "copy" => /\ temp.index \in Save
                       /\ \E h \in Family(ld.item) : PiecesOf(h, temp.index)
                       /\ temp.log \in {None, temp.index}

DestInv ==
  /\ \A n \in ld.got : \A r \in Content[n] :
       dest[r] \in ld.got \/ (ld.pc = "copy" /\ dest[r] = temp.index)
  /\ ld.pc = "copy" => \A r \in Content[temp.index] \ ld.left : dest[r] = temp.index

Invariant == SaveTypes /\ FilesHold /\ LoadTypes /\ PiecesInv /\ WantInv /\ TempInv /\ DestInv
-----------------------------------------------------------------------------
(* Archives and their pieces                                               *)

LEMMA ArchiveTypes ==
  ASSUME NEW n \in Save
  PROVE  /\ Archive(n) \in Seq(Piece) /\ Len(Archive(n)) = Size[n] /\ Size[n] \in Nat \ {0} /\ n \in Nat
         /\ \A i \in 1..Size[n] : Archive(n)[i] \in Piece /\ Archive(n)[i].save = n
<1>1. Size[n] \in Nat \ {0} /\ n \in Nat
  BY HaulsAssumption DEF Save
<1>2. Archive(n) \in [1..Size[n] -> Piece] /\ \A i \in 1..Size[n] : Archive(n)[i].save = n
  BY <1>1 DEF Archive, Piece
<1>3. Archive(n) \in Seq(Piece)
  BY <1>1, <1>2
<1> QED
  BY <1>1, <1>2, <1>3, LenProperties

(* A part of an archive.                                                   *)
LEMMA PartHolds ==
  ASSUME NEW n \in Save, NEW h, PiecesOf(h, n), NEW from \in Nat \ {0}, NEW upto \in Nat, upto <= Size[n]
  PROVE  Holds(h, SubSeq(Archive(n), from, upto))
<1>1. \A i \in from..upto : Archive(n)[i] \in Piece /\ Archive(n)[i].save = n
  BY ArchiveTypes
<1>2. /\ SubSeq(Archive(n), from, upto) \in Seq(Piece)
      /\ Len(SubSeq(Archive(n), from, upto)) = IF from <= upto THEN upto - from + 1 ELSE 0
      /\ \A i \in 1..(upto - from + 1) : SubSeq(Archive(n), from, upto)[i] = Archive(n)[from + i - 1]
  BY <1>1, SubSeqProperties
<1>3. \A i \in 1..Len(SubSeq(Archive(n), from, upto)) : SubSeq(Archive(n), from, upto)[i].save = n
  BY <1>1, <1>2
<1> QED
  BY <1>2, <1>3 DEF Holds

(* The first piece of what begins with an archive tells whose it is.       *)
LEMMA FirstPiece ==
  ASSUME NEW n \in Save, NEW bytes \in Seq(Piece), IsPrefix(Archive(n), bytes)
  PROVE  1 \in 1..Len(bytes) /\ bytes[1].save = n
<1>1. Size[n] \in Nat \ {0} /\ Size[n] <= Len(bytes) /\ Len(bytes) \in Nat
  BY ArchiveTypes, LenProperties DEF IsPrefix
<1>2. SubSeq(Archive(n), 1, Size[n])[1] = SubSeq(bytes, 1, Size[n])[1]
  BY ArchiveTypes DEF IsPrefix
<1>3. SubSeq(Archive(n), 1, Size[n])[1] = Archive(n)[1]
  BY <1>1, ArchiveTypes, SubSeqProperties
<1>4. SubSeq(bytes, 1, Size[n])[1] = bytes[1]
  <2>1. \A i \in 1..Size[n] : bytes[i] \in Piece
    BY <1>1, ElementOfSeq
  <2> QED
    BY <1>1, <2>1, SubSeqProperties
<1> QED
  BY <1>1, <1>2, <1>3, <1>4, ArchiveTypes

(* What begins with an archive of some hauls' pieces is a save of one.     *)
LEMMA WholeIsOfHaul ==
  ASSUME NEW hauls, NEW bytes, HoldsOf(hauls, bytes), NEW n \in Whole(bytes)
  PROVE  n \in Save /\ \E h \in hauls : PiecesOf(h, n)
<1>1. n \in Save /\ IsPrefix(Archive(n), bytes) /\ bytes \in Seq(Piece)
  BY DEF Whole, HoldsOf
<1>2. bytes[1].save = n /\ 1 \in 1..Len(bytes)
  BY <1>1, FirstPiece
<1> QED
  BY <1>1, <1>2 DEF HoldsOf

LEMMA HoldsAmong ==
  ASSUME NEW hauls, NEW h \in hauls, NEW c, Holds(h, c)
  PROVE  HoldsOf(hauls, c)
BY DEF Holds, HoldsOf

LEMMA JoinHolds ==
  ASSUME NEW hauls, NEW b, NEW c, HoldsOf(hauls, b), HoldsOf(hauls, c)
  PROVE  HoldsOf(hauls, b \o c)
<1>1. /\ b \o c \in Seq(Piece) /\ Len(b \o c) = Len(b) + Len(c) /\ Len(b) \in Nat /\ Len(c) \in Nat
      /\ \A i \in 1..(Len(b) + Len(c)) : (b \o c)[i] = IF i <= Len(b) THEN b[i] ELSE c[i - Len(b)]
  BY ConcatProperties, LenProperties DEF HoldsOf
<1>2. ASSUME NEW i \in 1..Len(b \o c) PROVE \E h \in hauls : PiecesOf(h, (b \o c)[i].save)
  <2>1. CASE i <= Len(b)
    BY <1>1, <2>1 DEF HoldsOf
  <2>2. CASE ~(i <= Len(b))
    <3>1. i - Len(b) \in 1..Len(c) /\ (b \o c)[i] = c[i - Len(b)]
      BY <1>1, <2>2
    <3> QED
      BY <3>1 DEF HoldsOf
  <2> QED
    BY <2>1, <2>2
<1> QED
  BY <1>1, <1>2 DEF HoldsOf

(* A load that opens an argument reads pieces of hauls that are kin to all *)
(* that the argument stands for.                                           *)
LEMMA FamilyIsKin ==
  ASSUME NEW arg \in Argument, NEW g \in Family(arg), NEW h \in Haul, Stands(arg, h)
  PROVE  g \in Haul /\ Kin(g, h)
<1>1. arg.haul \in Haul /\ g \in Haul /\ None \notin Haul
  BY HaulsAssumption DEF Argument, Family, Siblings
<1>2. g = arg.haul \/ (arg.chunk = 0 /\ Joined[g] = Joined[arg.haul] /\ Joined[g] # None)
  BY DEF Family, Siblings
<1>3. CASE h = arg.haul
  BY <1>1, <1>2, <1>3 DEF Kin, Names
<1>4. CASE Staged(arg) /\ Key(arg) \in Names(h)
  <2>1. Key(arg) \in Names(g)
    <3>1. CASE arg.chunk # 0
      BY <1>1, <1>2, <3>1 DEF Key, Names
    <3>2. CASE arg.chunk = 0
      BY <1>2, <1>4, <3>2 DEF Key, Names, Staged, IsChunk
    <3> QED
      BY <3>1, <3>2
  <2> QED
    BY <1>1, <1>4, <2>1 DEF Kin
<1> QED
  BY <1>3, <1>4 DEF Stands
-----------------------------------------------------------------------------
(* The steps of a save                                                     *)

(* What is wanted stays on its way when the load goes on with what it had. *)
LEMMA WantStays ==
  ASSUME WantInv, \A n \in ld.got : made'[n] = made[n], UNCHANGED <<ld.want, ld.got, ld.skipped>>, ld.pc # "idle",
         Listed(ld.args)' = Listed(ld.args),
         (Listed(ld.todo) \cup Open)' = Listed(ld.todo) \cup Open
  PROVE  WantInv'
<1>1. PICK listed, open : listed = Listed(ld.args) /\ open = Listed(ld.todo) \cup Open
  OBVIOUS
<1>2. listed = Listed(ld.args)' /\ open = (Listed(ld.todo) \cup Open)'
  BY <1>1
<1>3. ~ld.skipped =>
        /\ \A arg \in listed \cup open : arg.haul \in ld.want
        /\ \A n \in ld.got : \E h \in ld.want : Kin(made[n].haul, h)
        /\ \A h \in ld.want :
             \/ \E arg \in listed : h = arg.haul
             \/ \E arg \in open : Stands(arg, h)
             \/ \E n \in ld.got : Kin(made[n].haul, h)
  BY <1>1 DEF WantInv
<1>4. /\ ld'.want = ld.want /\ ld'.got = ld.got /\ ld'.skipped = ld.skipped
      /\ \A n \in ld.got : made'[n] = made[n]
  OBVIOUS
<1> QED
  BY ONLY <1>2, <1>3, <1>4 DEF WantInv

(* A load sees no more of them than that there are more saves.             *)
LEMMA SaveStepKeeps ==
  ASSUME Invariant, LoadUnchanged, SaveTypes', FilesHold',
         saves <= saves', \A n \in 1..saves : made'[n] = made[n]
  PROVE  Invariant'
<1>1. saves \in Nat /\ saves' \in Nat
  BY HaulsAssumption DEF Invariant, SaveTypes
<1>2. \A h, n : PiecesOf(h, n) => PiecesOf(h, n)'
  BY <1>1 DEF PiecesOf
<1>3. \A h, c : Holds(h, c) => Holds(h, c)'
  BY <1>2 DEF Holds
<1>4. LoadTypes'
  BY <1>1 DEF Invariant, LoadTypes, LoadUnchanged
<1>5. PiecesInv'
  <2>1. \A hauls, c : HoldsOf(hauls, c) => HoldsOf(hauls, c)'
    BY <1>2 DEF HoldsOf
  <2> QED
    BY <1>3, <2>1 DEF Invariant, PiecesInv, LoadUnchanged, Family, Siblings
<1>6. WantInv'
  <2>1. \A n \in ld.got : made'[n] = made[n]
    BY DEF Invariant, LoadTypes
  <2>2. ld' = ld
    BY DEF LoadUnchanged
  <2>3. Listed(ld.args)' = Listed(ld.args) /\ (Listed(ld.todo) \cup Open)' = Listed(ld.todo) \cup Open
    BY <2>2 DEF Listed, Open
  <2>4. CASE ld.pc = "idle"
    BY <2>2, <2>4 DEF WantInv
  <2>5. CASE ld.pc # "idle"
    BY <2>1, <2>2, <2>3, <2>5, WantStays DEF Invariant
  <2> QED
    BY <2>4, <2>5
<1>7. TempInv'
  BY <1>2 DEF Invariant, TempInv, LoadUnchanged, Family, Siblings
<1>8. DestInv'
  BY DEF Invariant, DestInv, LoadUnchanged
<1> QED
  BY <1>4, <1>5, <1>6, <1>7, <1>8 DEF Invariant

(* One that writes one file, or removes it.                                *)
LEMMA FileKeeps ==
  ASSUME Invariant, LoadUnchanged, UNCHANGED <<saves, made>>, NEW h \in Haul, NEW i, NEW c,
         c # None => Holds(h, c), file' = [file EXCEPT ![h][i] = c],
         sv' \in Saving, sv'.pc # "idle" => sv'.haul = sv.haul /\ sv.pc # "idle",
         fresh' \in [Haul -> Save \cup {None}],
         sv'.pc = "write" => \/ h = sv.haul /\ i = 0 /\ Len(c) < Size[saves]
                             \/ sv.pc = "write" /\ ~(h = sv.haul /\ i = 0),
         sv'.pc = "split" => sv'.limit > 0
  PROVE  Invariant'
<1>1. \A g \in Haul : \A j \in Suffix : file'[g][j] = IF g = h /\ j = i THEN c ELSE file[g][j]
  BY DEF Invariant, SaveTypes
<1>2. FilesHold'
  <2>1. \A g \in Haul : \A j \in Suffix : file'[g][j] # None => Holds(g, file'[g][j])
    BY <1>1 DEF Invariant, FilesHold
  <2>2. saves' = saves /\ made' = made
    OBVIOUS
  <2> QED
    BY ONLY <2>1, <2>2 DEF FilesHold, Holds, PiecesOf
<1>3. file' \in [Haul -> [Suffix -> {None} \cup Seq(Piece)]]
  <2>1. c \in {None} \cup Seq(Piece)
    BY DEF Holds
  <2> QED
    BY <2>1 DEF Invariant, SaveTypes
<1>4. sv'.pc = "write" /\ file'[sv'.haul][0] # None => Len(file'[sv'.haul][0]) < Size[saves]
  <2>1. 0 \in Suffix
    BY HaulsAssumption DEF Suffix, Save
  <2> QED
    BY <1>1, <2>1 DEF Invariant, SaveTypes
<1>5. SaveTypes'
  BY <1>3, <1>4 DEF Invariant, SaveTypes, PiecesOf
<1>6. saves \in Nat
  BY HaulsAssumption DEF Invariant, SaveTypes
<1> QED
  BY <1>2, <1>5, <1>6, SaveStepKeeps
LEMMA SaveStartKeeps ==
  ASSUME Invariant, NEW h \in Haul, NEW asked \in Asked, SaveStart(h, asked)
  PROVE  Invariant'
<1>1. /\ saves \in 0..MaxSaves /\ saves < MaxSaves /\ saves' = saves + 1 /\ MaxSaves \in Nat
      /\ made' = [made EXCEPT ![saves + 1] = [haul |-> h, asked |-> asked]]
      /\ sv' = [NoSave EXCEPT !.pc = "write", !.haul = h]
      /\ file' = [file EXCEPT ![h][0] = None]
      /\ fresh' = [fresh EXCEPT ![h] = None]
      /\ LoadUnchanged
  BY HaulsAssumption DEF SaveStart, Invariant, SaveTypes
<1>2. saves + 1 \in Save /\ saves' \in 0..MaxSaves /\ \A n \in 1..saves : n \in Save /\ n # saves + 1
  BY <1>1 DEF Save
<1>3. /\ made' \in [Save -> {None} \cup [haul : Haul, asked : Asked]]
      /\ made'[saves + 1].haul = h /\ \A n \in 1..saves : made'[n] = made[n]
  <2>1. made \in [Save -> {None} \cup [haul : Haul, asked : Asked]]
    BY DEF Invariant, SaveTypes
  <2> QED
    BY <1>1, <1>2, <2>1
<1>4. sv' \in Saving /\ sv'.haul = h /\ sv'.pc = "write"
  <2>1. NoSave \in Saving
    BY DEF NoSave, Saving
  <2> QED
    BY <1>1, <2>1 DEF Saving
<1>5. /\ \A g \in Haul : \A j \in Suffix : file'[g][j] = IF g = h /\ j = 0 THEN None ELSE file[g][j]
      /\ file' \in [Haul -> [Suffix -> {None} \cup Seq(Piece)]]
  BY <1>1 DEF Invariant, SaveTypes
<1>6. 0 \in Suffix
  BY HaulsAssumption DEF Suffix, Save
<1>7. SaveTypes'
  <2>1. PiecesOf(sv.haul, saves)'
    BY <1>1, <1>3, <1>4 DEF PiecesOf
  <2>2. fresh' \in [Haul -> Save \cup {None}]
    BY <1>1 DEF Invariant, SaveTypes
  <2> QED
    BY <1>2, <1>3, <1>4, <1>5, <1>6, <2>1, <2>2 DEF SaveTypes
<1>8. FilesHold'
  <2>1. \A g, n : PiecesOf(g, n) => PiecesOf(g, n)'
    BY <1>1, <1>3 DEF PiecesOf
  <2>2. \A g, c : Holds(g, c) => Holds(g, c)'
    BY <2>1 DEF Holds
  <2> QED
    BY <1>5, <2>2 DEF Invariant, FilesHold
<1>9. saves <= saves'
  BY <1>1
<1> QED
  BY <1>1, <1>3, <1>7, <1>8, <1>9, SaveStepKeeps

LEMMA SavingTypes ==
  ASSUME Invariant, sv.pc # "idle"
  PROVE  /\ sv \in Saving /\ sv.haul \in Haul /\ saves \in Save /\ PiecesOf(sv.haul, saves)
         /\ Size[saves] \in Nat \ {0} /\ Len(Archive(saves)) = Size[saves]
         /\ fresh \in [Haul -> Save \cup {None}]
<1>1. saves \in Save
  BY HaulsAssumption DEF Invariant, SaveTypes, PiecesOf, Save
<1> QED
  BY <1>1, ArchiveTypes DEF Invariant, SaveTypes

(* What SaveReturns leaves.                                                *)
LEMMA ReturnTypes ==
  ASSUME Invariant, sv.pc # "idle", NEW ok \in BOOLEAN, SaveReturns(ok)
  PROVE  sv' \in Saving /\ sv'.pc = "idle" /\ fresh' \in [Haul -> Save \cup {None}]
BY SavingTypes DEF SaveReturns, NoSave, Saving

LEMMA WriteArchiveKeeps ==
  ASSUME Invariant, WriteArchive
  PROVE  Invariant'
<1> DEFINE had == IF file[sv.haul][0] = None THEN <<>> ELSE file[sv.haul][0]
           now == SubSeq(Archive(saves), 1, Len(had) + 1)
<1>1. /\ sv.pc = "write" /\ sv \in Saving /\ sv.haul \in Haul /\ saves \in Save /\ PiecesOf(sv.haul, saves)
      /\ LoadUnchanged /\ UNCHANGED <<saves, made>> /\ file' = [file EXCEPT ![sv.haul][0] = now]
      /\ Size[saves] \in Nat \ {0}
  BY SavingTypes DEF WriteArchive
<1>2. Len(had) \in Nat /\ Len(had) + 1 <= Size[saves]
  <2>1. CASE file[sv.haul][0] = None
    <3>1. Len(<<>>) = 0
      BY EmptySeq
    <3> QED
      BY <1>1, <2>1, <3>1
  <2>2. CASE file[sv.haul][0] # None
    <3>1. file[sv.haul][0] \in Seq(Piece) /\ Len(file[sv.haul][0]) < Size[saves]
      <4>1. 0 \in Suffix
        BY HaulsAssumption DEF Suffix, Save
      <4> QED
        BY <1>1, <2>2, <4>1 DEF Invariant, SaveTypes
    <3>2. Len(file[sv.haul][0]) \in Nat
      BY <3>1, LenProperties
    <3> QED
      BY <1>1, <2>2, <3>1, <3>2
  <2> QED
    BY <2>1, <2>2
<1> HIDE DEF had
<1>3. PICK h : h = sv.haul
  OBVIOUS
<1>4. PICK c : c = now
  OBVIOUS
<1>5. Holds(h, c) /\ Len(c) = Len(had) + 1
  <2>1. Len(had) + 1 \in Nat /\ 1 \in Nat \ {0}
    BY <1>2
  <2>2. Holds(h, c)
    BY <1>1, <1>2, <1>3, <1>4, <2>1, PartHolds
  <2>3. \A i \in 1..(Len(had) + 1) : Archive(saves)[i] \in Piece
    BY <1>1, <1>2, ArchiveTypes
  <2>4. Len(c) = Len(had) + 1
    BY <1>2, <1>4, <2>1, <2>3, SubSeqProperties
  <2> QED
    BY <2>2, <2>4
<1>6. c # Archive(saves) => Len(c) < Size[saves]
  <2> SUFFICES ASSUME Len(c) = Size[saves] PROVE c = Archive(saves)
    BY <1>1, <1>2, <1>5
  <2> QED
    BY <1>1, <1>4, <1>5, ArchiveTypes, SubSeqFull
<1>7. file' = [file EXCEPT ![h][0] = c]
  BY <1>1, <1>3, <1>4
<1>8. /\ sv' \in Saving /\ fresh' \in [Haul -> Save \cup {None}]
      /\ sv'.pc # "idle" => sv'.haul = sv.haul
      /\ sv'.pc = "write" => c # Archive(saves)
      /\ sv'.pc = "split" => sv'.limit > 0
  <2>1. CASE c # Archive(saves)
    BY <1>1, <1>4, <2>1, SavingTypes DEF WriteArchive, had
  <2>2. CASE c = Archive(saves) /\ \E ok \in BOOLEAN : SaveReturns(ok)
    BY <1>1, <2>2, ReturnTypes
  <2>3. CASE /\ c = Archive(saves) /\ ParseChunkSize(made[saves].asked) > 0
             /\ sv' = [sv EXCEPT !.pc = "split", !.limit = ParseChunkSize(made[saves].asked)]
             /\ UNCHANGED fresh
    <3>1. made[saves].asked \in Nat /\ Word \in Nat \ {0}
      BY <1>1, HaulsAssumption DEF PiecesOf
    <3>2. ParseChunkSize(made[saves].asked) \in Int
      BY <3>1 DEF ParseChunkSize
    <3> QED
      BY <1>1, <2>3, <3>2, SavingTypes DEF Saving
  <2>4. c = Archive(saves) =>
          \/ SaveReturns(TRUE) \/ SaveReturns(FALSE)
          \/ /\ ~(ParseChunkSize(made[saves].asked) <= 0)
             /\ sv' = [sv EXCEPT !.pc = "split", !.limit = ParseChunkSize(made[saves].asked)]
             /\ UNCHANGED fresh
    BY <1>4 DEF WriteArchive, had
  <2>5. made[saves].asked \in Nat /\ Word \in Nat \ {0}
    BY <1>1, HaulsAssumption DEF PiecesOf
  <2>6. ParseChunkSize(made[saves].asked) \in Int
    BY <2>5 DEF ParseChunkSize
  <2>7. ~(ParseChunkSize(made[saves].asked) <= 0) => ParseChunkSize(made[saves].asked) > 0
    BY <2>6
  <2>8. TRUE \in BOOLEAN /\ FALSE \in BOOLEAN
    OBVIOUS
  <2> HIDE DEF now
  <2> QED
    BY <2>1, <2>2, <2>3, <2>4, <2>7, <2>8, Zenon
<1> QED
  BY <1>1, <1>3, <1>5, <1>6, <1>7, <1>8, FileKeeps

LEMMA NextChunkKeeps ==
  ASSUME Invariant, NextChunk
  PROVE  Invariant'
<1> DEFINE from == sv.done * sv.limit
           upto == IF from + sv.limit < Size[saves] THEN from + sv.limit ELSE Size[saves]
           part == SubSeq(Archive(saves), from + 1, upto)
<1>1. /\ sv.pc = "split" /\ sv \in Saving /\ sv.haul \in Haul /\ saves \in Save /\ PiecesOf(sv.haul, saves)
      /\ Size[saves] \in Nat \ {0} /\ LoadUnchanged /\ UNCHANGED <<saves, made, fresh>>
      /\ sv.done \in Nat /\ sv.limit \in Nat /\ sv.limit > 0
  BY SavingTypes DEF NextChunk, Saving, Invariant, SaveTypes
<1>2. /\ file' = [file EXCEPT ![sv.haul][sv.done + 1] = part]
      /\ sv' = [sv EXCEPT !.done = @ + 1, !.pc = IF upto = Size[saves] THEN "drop" ELSE "split"]
  BY DEF NextChunk
<1>3. from \in Nat /\ upto \in Nat /\ upto <= Size[saves]
  BY <1>1
<1> HIDE DEF from, upto
<1>4. Holds(sv.haul, part)
  <2>1. from + 1 \in Nat \ {0}
    BY <1>3
  <2> QED
    BY <1>1, <1>3, <2>1, PartHolds
<1> HIDE DEF part
<1>5. PICK h, i, c : h = sv.haul /\ i = sv.done + 1 /\ c = part
  OBVIOUS
<1>6. sv' \in Saving /\ sv'.haul = sv.haul /\ sv'.pc \in {"drop", "split"} /\ sv'.limit = sv.limit
  <2>1. PICK pc \in {"drop", "split"} : pc = IF upto = Size[saves] THEN "drop" ELSE "split"
    OBVIOUS
  <2>2. PICK done \in Nat : done = sv.done + 1
    BY <1>1
  <2>3. sv' = [sv EXCEPT !.done = done, !.pc = pc]
    BY <1>2, <2>1, <2>2
  <2> QED
    BY <1>1, <2>1, <2>2, <2>3 DEF Saving
<1>7. file' = [file EXCEPT ![h][i] = c] /\ Holds(h, c) /\ h \in Haul
  BY <1>1, <1>2, <1>4, <1>5
<1>8. fresh' \in [Haul -> Save \cup {None}]
  BY <1>1, SavingTypes
<1> QED
  BY <1>1, <1>6, <1>7, <1>8, FileKeeps

LEMMA DropOriginalKeeps ==
  ASSUME Invariant, DropOriginal
  PROVE  Invariant'
<1>1. /\ sv.pc = "drop" /\ sv.haul \in Haul /\ LoadUnchanged /\ UNCHANGED <<saves, made>>
      /\ file' = [file EXCEPT ![sv.haul][0] = None] /\ SaveReturns(TRUE)
  BY SavingTypes DEF DropOriginal
<1>2. sv' \in Saving /\ sv'.pc = "idle" /\ fresh' \in [Haul -> Save \cup {None}]
  BY <1>1, ReturnTypes
<1>3. PICK h, i, c : h = sv.haul /\ i = 0 /\ c = None
  OBVIOUS
<1>4. file' = [file EXCEPT ![h][i] = c] /\ h \in Haul /\ c = None
  BY <1>1, <1>3
<1> QED
  BY <1>1, <1>2, <1>4, FileKeeps

LEMMA SaveFailsKeeps ==
  ASSUME Invariant, SaveFails
  PROVE  Invariant'
<1>1. /\ sv.pc # "idle" /\ sv.haul \in Haul /\ LoadUnchanged /\ UNCHANGED <<saves, made>>
      /\ SaveReturns(FALSE)
  BY SavingTypes DEF SaveFails
<1>2. sv' \in Saving /\ sv'.pc = "idle" /\ fresh' \in [Haul -> Save \cup {None}]
  BY <1>1, ReturnTypes
<1>3. CASE UNCHANGED file
  <2>1. SaveTypes' /\ FilesHold'
    BY <1>1, <1>2, <1>3 DEF Invariant, SaveTypes, FilesHold, Holds, PiecesOf
  <2>2. saves <= saves'
    BY <1>1, HaulsAssumption DEF Invariant, SaveTypes
  <2> QED
    BY <1>1, <2>1, <2>2, SaveStepKeeps
<1>4. CASE file' = [file EXCEPT ![sv.haul][sv.done + 1] = <<>>]
  <2>1. PICK h, i, c : h = sv.haul /\ i = sv.done + 1 /\ c = <<>>
    OBVIOUS
  <2>2. Holds(h, c)
    BY <2>1, EmptySeq DEF Holds
  <2>3. file' = [file EXCEPT ![h][i] = c] /\ h \in Haul
    BY <1>1, <1>4, <2>1
  <2> QED
    BY <1>1, <1>2, <2>2, <2>3, FileKeeps
<1> QED
  BY <1>3, <1>4 DEF SaveFails

LEMMA LoseFileKeeps ==
  ASSUME Invariant, NEW h \in Haul, NEW i \in Suffix, LoseFile(h, i)
  PROVE  Invariant'
<1>1. /\ LoadUnchanged /\ UNCHANGED <<saves, made, sv>> /\ sv.haul # h
      /\ file' = [file EXCEPT ![h][i] = None]
  BY DEF LoseFile
<1>2. sv' \in Saving /\ fresh' \in [Haul -> Save \cup {None}] /\ (sv'.pc = "split" => sv'.limit > 0)
  BY <1>1 DEF LoseFile, Invariant, SaveTypes
<1>3. PICK c : c = None
  OBVIOUS
<1>4. file' = [file EXCEPT ![h][i] = c] /\ c = None
  BY <1>1, <1>3
<1> QED
  BY <1>1, <1>2, <1>4, FileKeeps
-----------------------------------------------------------------------------
(* The steps of a load                                                     *)

LEMMA LoadFacts ==
  ASSUME Invariant
  PROVE  /\ ld \in Loading /\ ld.pc \in Places /\ ld.args \in Seq(Argument) /\ ld.want \subseteq Haul
         /\ ld.todo \in Seq(Argument) /\ ld.item \in Argument \cup {None} /\ ld.parts \subseteq Haul \X Suffix
         /\ ld.bytes \in Seq(Piece) /\ ld.left \subseteq Ref /\ ld.got \subseteq Save
         /\ ld.skipped \in BOOLEAN /\ ld.expect \in Save \cup {None}
BY DEF Invariant, LoadTypes, Loading

LEMMA LoadStepKeeps ==
  ASSUME Invariant, SaveUnchanged, LoadTypes', PiecesInv', WantInv', TempInv', DestInv'
  PROVE  Invariant'
BY DEF Invariant, SaveTypes, FilesHold, Holds, PiecesOf, SaveUnchanged

LEMMA NoLoadTypes ==
  /\ NoLoad \in Loading /\ NoLoad.pc = "idle" /\ NoLoad.args = <<>> /\ NoLoad.todo = <<>>
  /\ NoLoad.got = {} /\ NoLoad.want = {}
  /\ NoStage \in [Haul -> [Suffix -> {None} \cup Seq(Piece)]]
  /\ \A h \in Haul : \A i \in Suffix : NoStage[h][i] = None
BY DEF NoLoad, Loading, Places, NoStage, NoFiles

LEMMA ListedFacts ==
  /\ Listed(<<>>) = {}
  /\ \A list \in Seq(Argument) : list # <<>> =>
       Listed(list) = {Head(list)} \cup Listed(Tail(list)) /\ Head(list) \in Argument
       /\ Tail(list) \in Seq(Argument)
  /\ \A list \in Seq(Argument) : \A arg \in Argument :
       Listed(Append(list, arg)) = Listed(list) \cup {arg} /\ Append(list, arg) \in Seq(Argument)
<1>1. Listed(<<>>) = {}
  BY EmptySeq DEF Listed
<1>2. ASSUME NEW list \in Seq(Argument), list # <<>>
      PROVE  Listed(list) = {Head(list)} \cup Listed(Tail(list)) /\ Head(list) \in Argument
             /\ Tail(list) \in Seq(Argument)
  <2>1. /\ Head(list) \in Argument /\ Tail(list) \in Seq(Argument) /\ Len(Tail(list)) = Len(list) - 1
        /\ \A i \in 1..Len(Tail(list)) : Tail(list)[i] = list[i + 1]
    BY <1>2, HeadTailProperties
  <2>2. Len(list) \in Nat \ {0} /\ Head(list) = list[1]
    BY <1>2, EmptySeq
  <2>3. Listed(list) \subseteq {Head(list)} \cup Listed(Tail(list))
    <3> SUFFICES ASSUME NEW i \in 1..Len(list)
                 PROVE  list[i] \in {Head(list)} \cup Listed(Tail(list))
      BY DEF Listed
    <3>1. CASE i = 1
      BY <2>2, <3>1
    <3>2. CASE i # 1
      <4>1. i - 1 \in 1..Len(Tail(list)) /\ Tail(list)[i - 1] = list[i]
        BY <2>1, <2>2, <3>2
      <4> QED
        BY <4>1 DEF Listed
    <3> QED
      BY <3>1, <3>2
  <2>4. {Head(list)} \cup Listed(Tail(list)) \subseteq Listed(list)
    <3>1. \A i \in 1..Len(Tail(list)) : i + 1 \in 1..Len(list) /\ Tail(list)[i] = list[i + 1]
      BY <2>1, <2>2
    <3>2. 1 \in 1..Len(list)
      BY <2>2
    <3> QED
      BY <2>2, <3>1, <3>2 DEF Listed
  <2> QED
    BY <2>1, <2>3, <2>4
<1>3. ASSUME NEW list \in Seq(Argument), NEW arg \in Argument
      PROVE  Listed(Append(list, arg)) = Listed(list) \cup {arg} /\ Append(list, arg) \in Seq(Argument)
  <2> PICK longer : longer = Append(list, arg)
    OBVIOUS
  <2>1. /\ longer \in Seq(Argument) /\ Len(longer) = Len(list) + 1 /\ Len(list) \in Nat
        /\ longer[Len(list) + 1] = arg /\ \A i \in 1..Len(list) : longer[i] = list[i]
    BY AppendProperties, LenProperties
  <2>2. \A i \in 1..Len(longer) : i \in 1..Len(list) \/ i = Len(list) + 1
    BY <2>1
  <2>3. (\A i \in 1..Len(list) : i \in 1..Len(longer)) /\ Len(list) + 1 \in 1..Len(longer)
    BY <2>1
  <2>4. Listed(longer) = Listed(list) \cup {arg}
    BY <2>1, <2>2, <2>3 DEF Listed
  <2> QED
    BY <2>1, <2>4
<1> QED
  BY <1>1, <1>2, <1>3

LEMMA LoadStartKeeps ==
  ASSUME Invariant, NEW list \in Arguments, NEW ignore \in BOOLEAN, LoadStart(list, ignore)
  PROVE  Invariant'
<1>1. /\ ld.pc \in {"idle", "done"} /\ SaveUnchanged /\ UNCHANGED <<stage, temp, dest, log>>
      /\ list \in Seq(Argument) /\ DOMAIN list = 1..Len(list)
  BY HaulsAssumption, LenProperties DEF LoadStart
<1>2. PICK want : want = {list[i].haul : i \in 1..Len(list)}
  OBVIOUS
<1>3. want \in SUBSET Haul
  <2>1. \A i \in 1..Len(list) : list[i] \in Argument
    BY <1>1, ElementOfSeq
  <2> QED
    BY <1>2, <2>1 DEF Argument
<1>4. ld' = [NoLoad EXCEPT !.pc = "stage", !.args = list, !.ignore = ignore, !.want = want]
  BY <1>1, <1>2 DEF LoadStart
<1>5. /\ ld' \in Loading /\ ld'.pc = "stage" /\ ld'.args = list /\ ld'.todo = <<>> /\ ld'.want = want
      /\ ld'.got = {}
  BY <1>1, <1>3, <1>4, NoLoadTypes DEF Loading, Places
<1>6. LoadTypes' /\ PiecesInv'
  BY <1>1, <1>5 DEF Invariant, LoadTypes, PiecesInv, HasItem, SaveUnchanged, Holds, PiecesOf
<1>7. WantInv'
  <2>1. /\ \A arg \in Listed(list) : arg.haul \in want
        /\ \A h \in want : \E arg \in Listed(list) : h = arg.haul
    BY <1>2 DEF Listed
  <2>2. ld'.pc \notin HasItem /\ Listed(<<>>) = {}
    BY <1>5, ListedFacts DEF HasItem
  <2>3. Listed(ld.args)' = Listed(list) /\ (Listed(ld.todo) \cup Open)' = {}
    BY <1>5, <2>2 DEF Open, Listed
  <2> QED
    BY <1>5, <2>1, <2>3 DEF WantInv
<1>8. TempInv' /\ DestInv'
  BY <1>1, <1>5 DEF Invariant, TempInv, DestInv
<1> QED
  BY <1>1, <1>6, <1>7, <1>8, LoadStepKeeps
Fetched(want, got) ==
  /\ \A n \in got : \E h \in want : Kin(made[n].haul, h)
  /\ \A h \in want : \E n \in got : Kin(made[n].haul, h)

(* A load that returns, and leaves last of what it was.                    *)
LEMMA LoadReturnsKeeps ==
  ASSUME Invariant, NEW last \in Loading, LoadReturns(last), last.pc \in {"idle", "done"},
         last.args = <<>>, last.todo = <<>>, last.got \subseteq ld.got,
         last.pc = "idle" => last.got = {},
         ld.pc \notin HasItem \/ last.got = {},
         last.pc = "done" /\ ~last.skipped => Fetched(last.want, last.got),
         last.got = {} \/ last.got = ld.got
  PROVE  Invariant'
<1>1. /\ ld' = last /\ stage' = NoStage /\ temp' = NoTemp /\ SaveUnchanged /\ UNCHANGED <<dest, log>>
  BY DEF LoadReturns
<1>2. LoadTypes' /\ PiecesInv'
  BY <1>1, NoLoadTypes DEF Invariant, LoadTypes, PiecesInv, HasItem, SaveUnchanged
<1>3. WantInv'
  <2>1. made' = made /\ ld' = last
    BY <1>1 DEF SaveUnchanged
  <2>2. Listed(ld'.args) = {} /\ Listed(ld'.todo) = {}
    BY <1>1, ListedFacts
  <2>3. ld'.pc \notin HasItem
    BY <1>1 DEF HasItem
  <2>4. Listed(ld.args)' = {} /\ (Listed(ld.todo) \cup Open)' = {}
    BY <2>2, <2>3 DEF Open, Listed
  <2> QED
    BY <2>1, <2>4 DEF WantInv, Fetched, Kin, Names
<1>4. TempInv' /\ DestInv'
  BY <1>1 DEF Invariant, TempInv, DestInv, NoTemp, HasItem
<1> QED
  BY <1>1, <1>2, <1>3, <1>4, LoadStepKeeps

LEMMA LoadEndsKeeps ==
  ASSUME Invariant, LoadEnds
  PROVE  Invariant'
<1>1. ld.pc = "open" /\ ld.todo = <<>> /\ ld.args = <<>>
  BY DEF LoadEnds, Invariant, LoadTypes
<1>2. PICK last : last = [NoLoad EXCEPT !.pc = "done", !.want = ld.want, !.got = ld.got,
                                        !.skipped = ld.skipped]
  OBVIOUS
<1>3. /\ last \in Loading /\ last.pc = "done" /\ last.args = <<>> /\ last.todo = <<>>
      /\ last.want = ld.want /\ last.got = ld.got /\ last.skipped = ld.skipped
  BY <1>2, NoLoadTypes, LoadFacts DEF Loading, Places
<1>4. ~ld.skipped => Fetched(ld.want, ld.got)
  <2>1. Listed(ld.args) = {} /\ Listed(ld.todo) = {} /\ Open = {}
    BY <1>1, ListedFacts DEF Open, HasItem
  <2> QED
    BY <1>1, <2>1 DEF Invariant, WantInv, Fetched
<1>5. LoadReturns(last)
  BY <1>2 DEF LoadEnds
<1> QED
  BY <1>1, <1>3, <1>4, <1>5, LoadReturnsKeeps DEF HasItem

LEMMA LoadStopsKeeps ==
  ASSUME Invariant, LoadStops
  PROVE  Invariant'
<1>1. PICK last : last = NoLoad
  OBVIOUS
<1>2. /\ last \in Loading /\ last.pc = "idle" /\ last.args = <<>> /\ last.todo = <<>> /\ last.got = {}
      /\ LoadReturns(last)
  BY <1>1, NoLoadTypes DEF LoadStops
<1> QED
  BY <1>2, LoadReturnsKeeps

LEMMA StageArgumentKeeps ==
  ASSUME Invariant, StageArgument
  PROVE  Invariant'
<1> DEFINE arg == Head(ld.args)
           known == \E it \in Items : Staged(it) /\ Key(it) = Key(arg)
<1>1. /\ ld.pc = "stage" /\ ld.args # <<>> /\ SaveUnchanged /\ UNCHANGED <<temp, dest, log>>
      /\ Staged(arg) => file[arg.haul][arg.chunk] # None
      /\ stage' = IF Staged(arg) THEN [stage EXCEPT ![arg.haul][arg.chunk] = file[arg.haul][arg.chunk]]
                  ELSE stage
  BY DEF StageArgument
<1>2. /\ arg \in Argument /\ Tail(ld.args) \in Seq(Argument)
      /\ Listed(ld.args) = {arg} \cup Listed(Tail(ld.args))
      /\ arg.haul \in Haul /\ arg.chunk \in Suffix
  BY <1>1, LoadFacts, ListedFacts DEF Argument
<1>3. PICK rest, todo : /\ rest = Tail(ld.args)
                        /\ todo = IF Staged(arg) /\ known THEN ld.todo ELSE Append(ld.todo, arg)
  OBVIOUS
<1>4. /\ todo \in Seq(Argument) /\ Listed(ld.todo) \subseteq Listed(todo)
      /\ \A it \in Listed(todo) : it \in Listed(ld.todo) \/ it = arg
      /\ \E it \in Listed(todo) : Stands(it, arg.haul)
  <2>1. CASE Staged(arg) /\ known
    <3>1. DOMAIN ld.todo = 1..Len(ld.todo)
      BY LoadFacts, LenProperties
    <3>2. PICK it \in Listed(ld.todo) : Staged(it) /\ Key(it) = Key(arg)
      BY <2>1, <3>1 DEF Items, Listed
    <3>3. Key(arg) \in Names(arg.haul)
      BY <1>2, <2>1, HaulsAssumption DEF Staged, IsChunk, Key, Names
    <3>4. Stands(it, arg.haul)
      BY <3>2, <3>3 DEF Stands
    <3> QED
      BY <1>3, <2>1, <3>2, <3>4, LoadFacts
  <2>2. CASE ~(Staged(arg) /\ known)
    <3>1. Listed(todo) = Listed(ld.todo) \cup {arg} /\ todo \in Seq(Argument)
      BY <1>2, <1>3, <2>2, LoadFacts, ListedFacts
    <3>2. Stands(arg, arg.haul)
      BY DEF Stands
    <3> QED
      BY <3>1, <3>2
  <2> QED
    BY <2>1, <2>2
<1>5. ld' = [ld EXCEPT !.args = rest, !.todo = todo]
  BY <1>3 DEF StageArgument
<1>6. /\ ld' \in Loading /\ ld'.pc = "stage" /\ ld'.args = rest /\ ld'.todo = todo
      /\ ld'.got = ld.got /\ ld'.want = ld.want /\ ld'.skipped = ld.skipped
  BY <1>1, <1>2, <1>3, <1>4, <1>5, LoadFacts DEF Loading
<1> HIDE DEF known, arg
<1>7. LoadTypes' /\ PiecesInv'
  <2>1. CASE Staged(arg)
    <3>1. PICK h, i, c : /\ h = arg.haul /\ i = arg.chunk /\ c = file[h][i]
                          /\ h \in Haul /\ i \in Suffix
      BY <1>2
    <3>2. c \in Seq(Piece) /\ Holds(h, c)
      BY <1>1, <2>1, <3>1 DEF Invariant, FilesHold, Holds
    <3>3. stage' = [stage EXCEPT ![h][i] = c]
      BY <1>1, <2>1, <3>1
    <3>4. stage \in [Haul -> [Suffix -> {None} \cup Seq(Piece)]]
      BY DEF Invariant, LoadTypes
    <3>5. \A g \in Haul : \A j \in Suffix : stage'[g][j] = IF g = h /\ j = i THEN c ELSE stage[g][j]
      BY <3>3, <3>4
    <3>6. stage' \in [Haul -> [Suffix -> {None} \cup Seq(Piece)]]
      BY <3>2, <3>3, <3>4
    <3>7. \A g \in Haul : \A j \in Suffix : stage'[g][j] # None => Holds(g, stage'[g][j])
      BY <3>2, <3>5 DEF Invariant, PiecesInv
    <3>8. PiecesInv'
      <4>1. saves' = saves /\ made' = made /\ ld'.pc \notin HasItem
        BY <1>1, <1>6 DEF SaveUnchanged, HasItem
      <4> QED
        BY ONLY <3>7, <4>1 DEF PiecesInv, Holds, PiecesOf
    <3> QED
      BY <1>1, <1>6, <3>6, <3>8 DEF Invariant, LoadTypes, SaveUnchanged
  <2>2. CASE ~Staged(arg)
    BY <1>1, <1>6, <2>2 DEF Invariant, LoadTypes, PiecesInv, HasItem, SaveUnchanged, Holds, PiecesOf
  <2> QED
    BY <2>1, <2>2
<1>8. WantInv'
  <2>1. made' = made /\ Open = {} /\ Open' = {}
    BY <1>1, <1>6 DEF Open, HasItem, SaveUnchanged
  <2>2. ~ld.skipped =>
          /\ \A it \in {arg} \cup Listed(rest) \cup Listed(todo) : it.haul \in ld.want
          /\ \A n \in ld.got : \E h \in ld.want : Kin(made[n].haul, h)
          /\ \A h \in ld.want :
               \/ \E it \in Listed(rest) : h = it.haul
               \/ \E it \in Listed(todo) : Stands(it, h)
               \/ \E n \in ld.got : Kin(made[n].haul, h)
    BY <1>1, <1>2, <1>3, <1>4, <2>1 DEF Invariant, WantInv
  <2>3. Listed(ld.args)' = Listed(rest) /\ (Listed(ld.todo) \cup Open)' = Listed(todo)
    BY <1>6, <2>1 DEF Listed
  <2>4. /\ \A g, h : Kin(g, h)' = Kin(g, h)
        /\ \A it, h : Stands(it, h)' = Stands(it, h)
    BY DEF Kin, Names, Stands, Staged, Key, IsChunk
  <2> QED
    BY <1>6, <2>1, <2>2, <2>3 DEF WantInv
<1>9. TempInv' /\ DestInv'
  BY <1>1, <1>6 DEF Invariant, TempInv, DestInv
<1> QED
  BY <1>1, <1>7, <1>8, <1>9, LoadStepKeeps

LEMMA StageEndsKeeps ==
  ASSUME Invariant, StageEnds
  PROVE  Invariant'
<1>1. /\ ld.pc = "stage" /\ ld.args = <<>> /\ SaveUnchanged /\ UNCHANGED <<stage, temp, dest, log>>
      /\ ld' = [ld EXCEPT !.pc = "open"]
  BY DEF StageEnds
<1>2. /\ ld' \in Loading /\ ld'.pc = "open" /\ ld'.args = <<>> /\ ld'.todo = ld.todo
      /\ ld'.got = ld.got /\ ld'.want = ld.want /\ ld'.skipped = ld.skipped
  BY <1>1, LoadFacts DEF Loading, Places
<1>3. LoadTypes' /\ PiecesInv'
  BY <1>1, <1>2 DEF Invariant, LoadTypes, PiecesInv, HasItem, SaveUnchanged, Holds, PiecesOf
<1>4. WantInv'
  <2>1. Open = {} /\ Open' = {} /\ ld'.args = ld.args
    BY <1>1, <1>2 DEF Open, HasItem
  <2>2. Listed(ld.args)' = Listed(ld.args) /\ (Listed(ld.todo) \cup Open)' = Listed(ld.todo) \cup Open
    BY <1>2, <2>1 DEF Listed
  <2> QED
    BY <1>1, <1>2, <2>2, WantStays DEF Invariant, SaveUnchanged
<1>5. TempInv' /\ DestInv'
  BY <1>1, <1>2 DEF Invariant, TempInv, DestInv
<1> QED
  BY <1>1, <1>3, <1>4, <1>5, LoadStepKeeps

(* What an argument is opened as: its own file, what is joined for it, or  *)
(* nothing.                                                                *)
Opened(arg, parts, bytes, dir) ==
  LET there == arg.chunk = 0 /\ dir[arg.haul][0] # None
      split == IF there THEN {} ELSE Split(dir, arg.haul)
  IN  /\ parts = IF split = {} /\ arg.chunk = 0 THEN Legacy(dir, arg.haul) ELSE split
      /\ bytes = IF parts = {} /\ there THEN dir[arg.haul][0] ELSE <<>>

LEMMA OpensAs ==
  ASSUME OpenHaul
  PROVE  \E arg, hinted, at, parts, bytes, expect :
           /\ arg = Head(ld.todo) /\ hinted \in BOOLEAN
           /\ Opened(arg, parts, bytes, IF Staged(arg) THEN stage ELSE file)
           /\ at = IF parts = {} THEN "unarchive" ELSE "join"
           /\ expect = Expected(arg)
           /\ ld' = [ld EXCEPT !.todo = Tail(ld.todo), !.item = arg, !.expect = expect, !.pc = at,
                               !.parts = parts, !.hinted = hinted, !.bytes = bytes]
<1> DEFINE arg == Head(ld.todo)
           dir == IF Staged(arg) THEN stage ELSE file
           there == arg.chunk = 0 /\ dir[arg.haul][0] # None
           split == IF there THEN {} ELSE Split(dir, arg.haul)
           parts == IF split = {} /\ arg.chunk = 0 THEN Legacy(dir, arg.haul) ELSE split
           hinted == arg.haul \in Hinted \/ arg.chunk # 0 \/ split # {}
           bytes == IF parts = {} /\ there THEN dir[arg.haul][0] ELSE <<>>
           at == IF parts = {} THEN "unarchive" ELSE "join"
<1>1. ld' = [ld EXCEPT !.todo = Tail(ld.todo), !.item = arg, !.expect = Expected(arg), !.pc = at,
                       !.parts = parts, !.hinted = hinted, !.bytes = bytes]
  BY DEF OpenHaul
<1>2. hinted \in BOOLEAN
  OBVIOUS
<1>3. Opened(arg, parts, bytes, dir)
  BY DEF Opened
<1> HIDE DEF arg, dir, there, split, parts, hinted, bytes
<1>4. arg = Head(ld.todo) /\ dir = IF Staged(arg) THEN stage ELSE file
  BY DEF arg, dir
<1> QED
  BY <1>1, <1>2, <1>3, <1>4

(* What is opened holds pieces of the family alone.                        *)
LEMMA OpenedHolds ==
  ASSUME NEW arg \in Argument, NEW parts, NEW bytes, NEW dir, Opened(arg, parts, bytes, dir),
         dir[arg.haul][0] # None => Holds(arg.haul, dir[arg.haul][0])
  PROVE  /\ HoldsOf(Family(arg), bytes) /\ parts \in SUBSET (Haul \X Suffix)
         /\ \A p \in parts : p[1] \in Family(arg)
<1>1. arg.haul \in Haul /\ 0 \in Suffix
  BY HaulsAssumption DEF Argument, Suffix, Save
<1>2. HoldsOf(Family(arg), bytes)
  <2>1. CASE bytes = <<>>
    BY <2>1, EmptySeq DEF HoldsOf
  <2>2. CASE bytes = dir[arg.haul][0] /\ dir[arg.haul][0] # None
    BY <2>2, HoldsAmong DEF Family
  <2> QED
    BY <2>1, <2>2 DEF Opened
<1>3. parts = {} \/ parts = Split(dir, arg.haul) \/ (arg.chunk = 0 /\ parts = Legacy(dir, arg.haul))
  BY DEF Opened
<1>4. CASE parts = {}
  BY <1>2, <1>4
<1>5. CASE parts = Split(dir, arg.haul)
  BY <1>1, <1>2, <1>5 DEF Split, Chunks, Family
<1>6. CASE arg.chunk = 0 /\ parts = Legacy(dir, arg.haul)
  BY <1>1, <1>2, <1>6 DEF Legacy, Siblings, Family
<1> QED
  BY <1>3, <1>4, <1>5, <1>6

LEMMA OpenHaulKeeps ==
  ASSUME Invariant, OpenHaul
  PROVE  Invariant'
<1>1. /\ ld.pc = "open" /\ ld.todo # <<>> /\ ld.args = <<>> /\ SaveUnchanged
      /\ UNCHANGED <<stage, temp, dest, log>>
  BY DEF OpenHaul, Invariant, LoadTypes
<1>2. PICK arg, hinted, at, parts, bytes, expect :
           /\ arg = Head(ld.todo) /\ hinted \in BOOLEAN
           /\ Opened(arg, parts, bytes, IF Staged(arg) THEN stage ELSE file)
           /\ at = IF parts = {} THEN "unarchive" ELSE "join"
           /\ expect = Expected(arg)
           /\ ld' = [ld EXCEPT !.todo = Tail(ld.todo), !.item = arg, !.expect = expect, !.pc = at,
                               !.parts = parts, !.hinted = hinted, !.bytes = bytes]
  BY OpensAs
<1> PICK rest, dir : rest = Tail(ld.todo) /\ dir = IF Staged(arg) THEN stage ELSE file
  OBVIOUS
<1>3. /\ arg \in Argument /\ rest \in Seq(Argument) /\ Listed(ld.todo) = {arg} \cup Listed(rest)
      /\ arg.haul \in Haul /\ 0 \in Suffix
  <2>1. 0 \in Suffix
    BY HaulsAssumption DEF Suffix, Save
  <2> QED
    BY <1>1, <1>2, <2>1, LoadFacts, ListedFacts DEF Argument
<1>4. /\ HoldsOf(Family(arg), bytes) /\ parts \in SUBSET (Haul \X Suffix) /\ bytes \in Seq(Piece)
      /\ \A p \in parts : p[1] \in Family(arg)
  <2>1. dir[arg.haul][0] # None => Holds(arg.haul, dir[arg.haul][0])
    BY <1>3 DEF Invariant, FilesHold, PiecesInv
  <2>2. Opened(arg, parts, bytes, dir)
    BY <1>2
  <2> QED
    BY <1>3, <2>1, <2>2, OpenedHolds DEF HoldsOf
<1>5. expect \in Save \cup {None}
  BY <1>2, <1>3 DEF Expected, Invariant, SaveTypes
<1>6. at \in {"unarchive", "join"}
  BY <1>2
<1>7. ld' = [ld EXCEPT !.todo = rest, !.item = arg, !.expect = expect, !.pc = at,
                       !.parts = parts, !.hinted = hinted, !.bytes = bytes]
  BY <1>2
<1>8. /\ ld' \in Loading /\ ld'.pc = at /\ ld'.args = <<>> /\ ld'.todo = rest /\ ld'.item = arg
      /\ ld'.bytes = bytes /\ ld'.got = ld.got /\ ld'.want = ld.want /\ ld'.skipped = ld.skipped
      /\ ld'.parts = parts
  <2>1. ld \in Loading /\ ld.args = <<>> /\ hinted \in BOOLEAN
    BY <1>1, <1>2, LoadFacts
  <2>2. at \in Places
    BY <1>6 DEF Places
  <2>3. /\ ld'.pc = at /\ ld'.args = ld.args /\ ld'.todo = rest /\ ld'.item = arg
        /\ ld'.bytes = bytes /\ ld'.got = ld.got /\ ld'.want = ld.want /\ ld'.skipped = ld.skipped
        /\ ld'.parts = parts
    BY ONLY <1>7, <2>1 DEF Loading
  <2>4. ld' \in Loading
    BY ONLY <1>3, <1>4, <1>5, <1>7, <2>1, <2>2 DEF Loading
  <2> QED
    BY <2>1, <2>3, <2>4
<1>9. LoadTypes'
  BY <1>1, <1>6, <1>8 DEF Invariant, LoadTypes, SaveUnchanged
<1>10. PiecesInv'
  <2>1. /\ saves' = saves /\ made' = made /\ stage' = stage
        /\ \A h \in Haul : \A i \in Suffix : stage[h][i] # None => Holds(h, stage[h][i])
    BY <1>1 DEF Invariant, PiecesInv, SaveUnchanged
  <2> QED
    BY ONLY <1>3, <1>4, <1>8, <2>1 DEF PiecesInv, Holds, HoldsOf, PiecesOf, Family, Siblings
<1>11. WantInv'
  <2>1. Open = {} /\ Open' = {arg}
    BY <1>1, <1>6, <1>8 DEF Open, HasItem
  <2>2. Listed(ld.args)' = Listed(ld.args) /\ (Listed(ld.todo) \cup Open)' = Listed(ld.todo) \cup Open
    BY <1>1, <1>3, <1>8, <2>1 DEF Listed
  <2> QED
    BY <1>1, <1>8, <2>2, WantStays DEF Invariant, SaveUnchanged
<1>12. TempInv' /\ DestInv'
  BY <1>1, <1>6, <1>8 DEF Invariant, TempInv, DestInv
<1> QED
  BY <1>1, <1>9, <1>10, <1>11, <1>12, LoadStepKeeps

(* A step that goes on with the same argument.                             *)
LEMMA WantStaysOpen ==
  ASSUME WantInv, SaveUnchanged, UNCHANGED <<ld.want, ld.got, ld.skipped, ld.args, ld.todo, ld.item>>,
         ld.pc \in HasItem, ld'.pc \in HasItem
  PROVE  WantInv'
<1>1. Open' = Open
  BY DEF Open
<1>2. Listed(ld.args)' = Listed(ld.args) /\ (Listed(ld.todo) \cup Open)' = Listed(ld.todo) \cup Open
  BY <1>1 DEF Listed
<1> QED
  BY <1>2, WantStays DEF HasItem, SaveUnchanged

(* The chunk that is joined next.                                          *)
LEMMA JoinsAs ==
  ASSUME JoinChunk
  PROVE  \E p \in ld.parts : \E chunk, rest, at :
           /\ chunk = (IF Staged(ld.item) THEN stage ELSE file)[p[1]][p[2]] /\ chunk # None
           /\ rest = ld.parts \ {p} /\ \A q \in rest : Position(p) < Position(q)
           /\ at = IF rest = {} THEN "unarchive" ELSE "join"
           /\ ld' = [ld EXCEPT !.bytes = ld.bytes \o chunk, !.parts = rest, !.pc = at]
<1> DEFINE chunk(p) == (IF Staged(ld.item) THEN stage ELSE file)[p[1]][p[2]]
           rest(p) == ld.parts \ {p}
           at(p) == IF rest(p) = {} THEN "unarchive" ELSE "join"
<1>1. PICK p \in ld.parts :
        /\ \A q \in rest(p) : Position(p) < Position(q)
        /\ chunk(p) # None
        /\ ld' = [ld EXCEPT !.bytes = ld.bytes \o chunk(p), !.parts = rest(p), !.pc = at(p)]
  BY Zenon DEF JoinChunk
<1>2. PICK c, r, t : c = chunk(p) /\ r = rest(p) /\ t = at(p)
  OBVIOUS
<1> QED
  BY <1>1, <1>2

LEMMA JoinChunkKeeps ==
  ASSUME Invariant, JoinChunk
  PROVE  Invariant'
<1>1. /\ ld.pc = "join" /\ ld.args = <<>> /\ SaveUnchanged /\ UNCHANGED <<stage, temp, dest, log>>
      /\ ld.item \in Argument /\ HoldsOf(Family(ld.item), ld.bytes)
      /\ \A p \in ld.parts : p[1] \in Family(ld.item)
  BY DEF JoinChunk, Invariant, LoadTypes, PiecesInv, HasItem
<1>2. PICK p \in ld.parts : \E chunk, rest, at :
           /\ chunk = (IF Staged(ld.item) THEN stage ELSE file)[p[1]][p[2]] /\ chunk # None
           /\ rest = ld.parts \ {p} /\ \A q \in rest : Position(p) < Position(q)
           /\ at = IF rest = {} THEN "unarchive" ELSE "join"
           /\ ld' = [ld EXCEPT !.bytes = ld.bytes \o chunk, !.parts = rest, !.pc = at]
  BY JoinsAs
<1>3. PICK chunk, rest, at :
           /\ chunk = (IF Staged(ld.item) THEN stage ELSE file)[p[1]][p[2]] /\ chunk # None
           /\ rest = ld.parts \ {p} /\ \A q \in rest : Position(p) < Position(q)
           /\ at = IF rest = {} THEN "unarchive" ELSE "join"
           /\ ld' = [ld EXCEPT !.bytes = ld.bytes \o chunk, !.parts = rest, !.pc = at]
  BY <1>2
<1>4. HoldsOf(Family(ld.item), chunk)
  <2>1. p[1] \in Haul /\ p[2] \in Suffix /\ p[1] \in Family(ld.item)
    BY <1>1, LoadFacts
  <2>2. Holds(p[1], chunk)
    BY <1>3, <2>1 DEF Invariant, FilesHold, PiecesInv
  <2> QED
    BY <2>1, <2>2, HoldsAmong
<1>5. PICK bytes : bytes = ld.bytes \o chunk
  OBVIOUS
<1>6. HoldsOf(Family(ld.item), bytes) /\ bytes \in Seq(Piece)
  BY <1>1, <1>4, <1>5, JoinHolds DEF HoldsOf
<1>7. at \in {"unarchive", "join"} /\ rest \subseteq ld.parts /\ rest \in SUBSET (Haul \X Suffix)
  BY <1>3, LoadFacts
<1>8. /\ ld' \in Loading /\ ld'.pc = at /\ ld'.args = <<>> /\ ld'.todo = ld.todo /\ ld'.item = ld.item
      /\ ld'.bytes = bytes /\ ld'.got = ld.got /\ ld'.want = ld.want /\ ld'.skipped = ld.skipped
      /\ ld'.parts = rest
  <2>1. ld' = [ld EXCEPT !.bytes = bytes, !.parts = rest, !.pc = at]
    BY <1>3, <1>5
  <2> QED
    BY <1>1, <1>6, <1>7, <2>1, LoadFacts DEF Loading, Places
<1>9. LoadTypes'
  BY <1>1, <1>7, <1>8 DEF Invariant, LoadTypes, SaveUnchanged
<1>10. PiecesInv'
  <2>1. /\ saves' = saves /\ made' = made /\ stage' = stage
        /\ \A h \in Haul : \A i \in Suffix : stage[h][i] # None => Holds(h, stage[h][i])
    BY <1>1 DEF Invariant, PiecesInv, SaveUnchanged
  <2> QED
    BY ONLY <1>1, <1>6, <1>7, <1>8, <2>1 DEF PiecesInv, Holds, HoldsOf, PiecesOf, Family, Siblings
<1>11. WantInv'
  BY <1>1, <1>7, <1>8, WantStaysOpen DEF Invariant, HasItem
<1>12. TempInv' /\ DestInv'
  BY <1>1, <1>7, <1>8 DEF Invariant, TempInv, DestInv
<1> QED
  BY <1>1, <1>9, <1>10, <1>11, <1>12, LoadStepKeeps

LEMMA UnarchiveHaulKeeps ==
  ASSUME Invariant, UnarchiveHaul
  PROVE  Invariant'
<1>1. /\ ld.pc = "unarchive" /\ ld.args = <<>> /\ SaveUnchanged /\ UNCHANGED <<stage, dest, log>>
      /\ ld.item \in Argument /\ HoldsOf(Family(ld.item), ld.bytes) /\ temp.log = None
      /\ \A p \in ld.parts : p[1] \in Family(ld.item)
  BY DEF UnarchiveHaul, Invariant, LoadTypes, PiecesInv, HasItem, TempInv
<1>2. PICK n \in Whole(ld.bytes) : temp' \in Unpacked(n, temp) /\ temp'.index # Torn
  BY DEF UnarchiveHaul
<1>3. n \in Save /\ \E h \in Family(ld.item) : PiecesOf(h, n)
  BY <1>1, WholeIsOfHaul
<1>4. /\ temp'.index = n /\ temp'.log \in {None, n}
      /\ temp' \in [index : Save \cup {None, Torn}, log : Save \cup {None}]
  BY <1>1, <1>2, <1>3 DEF Unpacked
<1>5. PICK left : left = Content[n]
  OBVIOUS
<1>6. left \in SUBSET Ref
  BY <1>3, <1>5, HaulsAssumption
<1>7. ld' = [ld EXCEPT !.pc = "copy", !.bytes = <<>>, !.left = left]
  BY <1>4, <1>5 DEF UnarchiveHaul
<1>8. /\ ld' \in Loading /\ ld'.pc = "copy" /\ ld'.args = <<>> /\ ld'.todo = ld.todo /\ ld'.item = ld.item
      /\ ld'.bytes = <<>> /\ ld'.got = ld.got /\ ld'.want = ld.want /\ ld'.skipped = ld.skipped
      /\ ld'.left = left /\ ld'.parts = ld.parts
  <2>1. <<>> \in Seq(Piece) /\ "copy" \in Places
    BY EmptySeq DEF Places
  <2> QED
    BY <1>1, <1>6, <1>7, <2>1, LoadFacts DEF Loading
<1>9. LoadTypes' /\ PiecesInv'
  <2>1. LoadTypes'
    BY <1>1, <1>8 DEF Invariant, LoadTypes, SaveUnchanged
  <2>2. /\ saves' = saves /\ made' = made /\ stage' = stage /\ ld'.item \in Argument /\ ld'.bytes = <<>>
        /\ \A h \in Haul : \A i \in Suffix : stage[h][i] # None => Holds(h, stage[h][i])
    BY <1>1, <1>8 DEF Invariant, PiecesInv, SaveUnchanged
  <2>3. PiecesInv'
    BY ONLY <1>1, <1>8, <2>2, EmptySeq DEF PiecesInv, Holds, HoldsOf, PiecesOf, Family, Siblings
  <2> QED
    BY <2>1, <2>3
<1>10. WantInv'
  BY <1>1, <1>8, WantStaysOpen DEF Invariant, HasItem
<1>11. TempInv'
  BY <1>1, <1>3, <1>4, <1>8 DEF TempInv, SaveUnchanged, PiecesOf, Family, Siblings
<1>12. DestInv'
  BY <1>1, <1>4, <1>5, <1>8 DEF Invariant, DestInv
<1> QED
  BY <1>1, <1>9, <1>10, <1>11, <1>12, LoadStepKeeps

LEMMA PassOverKeeps ==
  ASSUME Invariant, PassOver
  PROVE  Invariant'
<1>1. /\ ld.pc = "unarchive" /\ ld.args = <<>> /\ SaveUnchanged /\ UNCHANGED <<stage, dest, log>>
      /\ ld' = [ld EXCEPT !.pc = "clear", !.bytes = <<>>, !.skipped = TRUE]
  BY DEF PassOver, Invariant, LoadTypes
<1>2. /\ ld' \in Loading /\ ld'.pc = "clear" /\ ld'.args = <<>> /\ ld'.got = ld.got /\ ld'.skipped
  <2>1. <<>> \in Seq(Piece) /\ "clear" \in Places /\ TRUE \in BOOLEAN
    BY EmptySeq DEF Places
  <2> QED
    BY <1>1, <2>1, LoadFacts DEF Loading
<1>3. LoadTypes' /\ PiecesInv'
  BY <1>1, <1>2 DEF Invariant, LoadTypes, PiecesInv, HasItem, SaveUnchanged, Holds, PiecesOf
<1>4. WantInv'
  BY <1>2 DEF WantInv
<1>5. TempInv'
  <2>1. \A i \in DOMAIN ld.bytes : ld.bytes[i].save \in Save
    <3>1. ld.bytes \in Seq(Piece)
      BY LoadFacts
    <3>2. \A i \in DOMAIN ld.bytes : ld.bytes[i] \in Piece
      BY <3>1, LenProperties, ElementOfSeq
    <3> QED
      BY <3>2 DEF Piece
  <2>2. CASE \E n \in {ld.bytes[i].save : i \in DOMAIN ld.bytes} : temp' \in Unpacked(n, temp)
    BY <1>2, <2>1, <2>2 DEF Unpacked, Invariant, TempInv
  <2>3. CASE UNCHANGED temp
    BY <1>2, <2>3 DEF Invariant, TempInv
  <2> QED
    BY <2>2, <2>3 DEF PassOver
<1>6. DestInv'
  BY <1>1, <1>2 DEF Invariant, DestInv
<1> QED
  BY <1>1, <1>3, <1>4, <1>5, <1>6, LoadStepKeeps

LEMMA CopyEntryKeeps ==
  ASSUME Invariant, NEW r \in Ref, CopyEntry(r)
  PROVE  Invariant'
<1>1. /\ ld.pc = "copy" /\ ld.args = <<>> /\ SaveUnchanged /\ UNCHANGED <<stage, temp, log>>
      /\ dest \in [Ref -> Save \cup {None}] /\ temp.index \in Save
      /\ dest' = [dest EXCEPT ![r] = temp.index]
  BY DEF CopyEntry, Invariant, LoadTypes, TempInv
<1>2. PICK left : left = ld.left \ {r}
  OBVIOUS
<1>3. ld' = [ld EXCEPT !.left = left] /\ left \in SUBSET Ref
  BY <1>2, LoadFacts DEF CopyEntry
<1>4. /\ ld' \in Loading /\ ld'.pc = "copy" /\ ld'.args = <<>> /\ ld'.todo = ld.todo /\ ld'.item = ld.item
      /\ ld'.bytes = ld.bytes /\ ld'.got = ld.got /\ ld'.want = ld.want /\ ld'.skipped = ld.skipped
      /\ ld'.left = left /\ ld'.parts = ld.parts
  BY <1>1, <1>3, LoadFacts DEF Loading
<1>5. LoadTypes' /\ PiecesInv'
  <2>1. dest' \in [Ref -> Save \cup {None}]
    BY <1>1
  <2> QED
    BY <1>1, <1>4, <2>1 DEF Invariant, LoadTypes, PiecesInv, HasItem, SaveUnchanged, Holds, HoldsOf,
       PiecesOf, Family, Siblings
<1>6. WantInv'
  BY <1>1, <1>4, WantStaysOpen DEF Invariant, HasItem
<1>7. TempInv'
  BY <1>1, <1>4 DEF Invariant, TempInv, SaveUnchanged, PiecesOf, Family, Siblings
<1>8. DestInv'
  <2>1. \A q \in Ref : dest'[q] = IF q = r THEN temp.index ELSE dest[q]
    BY <1>1
  <2>2. \A n \in Save : Content[n] \subseteq Ref
    BY HaulsAssumption
  <2> QED
    BY <1>1, <1>2, <1>4, <2>1, <2>2, LoadFacts DEF Invariant, DestInv
<1> QED
  BY <1>1, <1>5, <1>6, <1>7, <1>8, LoadStepKeeps

LEMMA MergeLogKeeps ==
  ASSUME Invariant, MergeLog
  PROVE  Invariant'
<1>1. /\ ld.pc = "copy" /\ ld.args = <<>> /\ ld.left = {} /\ SaveUnchanged
      /\ UNCHANGED <<stage, temp, dest>>
      /\ temp.index \in Save /\ ld.item \in Argument /\ (\E h \in Family(ld.item) : PiecesOf(h, temp.index))
  BY DEF MergeLog, Invariant, LoadTypes, TempInv, PiecesInv, HasItem
<1>2. PICK got : got = ld.got \cup {temp.index}
  OBVIOUS
<1>3. ld' = [ld EXCEPT !.pc = "clear", !.got = got] /\ got \in SUBSET Save
  BY <1>1, <1>2, LoadFacts DEF MergeLog
<1>4. /\ ld' \in Loading /\ ld'.pc = "clear" /\ ld'.args = <<>> /\ ld'.todo = ld.todo
      /\ ld'.got = got /\ ld'.want = ld.want /\ ld'.skipped = ld.skipped
  BY <1>1, <1>3, LoadFacts DEF Loading, Places
<1>5. LoadTypes' /\ PiecesInv'
  BY <1>1, <1>2, <1>4 DEF Invariant, LoadTypes, PiecesInv, HasItem, SaveUnchanged, Holds, PiecesOf
<1>6. WantInv'
  <2>1. PICK g \in Family(ld.item) : made[temp.index].haul = g
    BY <1>1 DEF PiecesOf
  <2>2. \A h \in Haul : Stands(ld.item, h) => Kin(g, h)
    BY <1>1, FamilyIsKin
  <2>3. Open = {ld.item} /\ Open' = {} /\ made' = made
    BY <1>1, <1>4 DEF Open, HasItem, SaveUnchanged
  <2>4. ld.item.haul \in Haul /\ Stands(ld.item, ld.item.haul) /\ ld.want \subseteq Haul
    BY <1>1, LoadFacts DEF Argument, Stands
  <2>5. ~ld.skipped =>
          /\ \A arg \in Listed(ld.args) \cup Listed(ld.todo) : arg.haul \in ld.want
          /\ \A n \in got : \E h \in ld.want : Kin(made[n].haul, h)
          /\ \A h \in ld.want :
               \/ \E arg \in Listed(ld.args) : h = arg.haul
               \/ \E arg \in Listed(ld.todo) : Stands(arg, h)
               \/ \E n \in got : Kin(made[n].haul, h)
    <3>1. ~ld.skipped =>
            /\ \A arg \in Listed(ld.args) \cup Listed(ld.todo) \cup {ld.item} : arg.haul \in ld.want
            /\ \A n \in ld.got : \E h \in ld.want : Kin(made[n].haul, h)
            /\ \A h \in ld.want :
                 \/ \E arg \in Listed(ld.args) : h = arg.haul
                 \/ \E arg \in Listed(ld.todo) \cup {ld.item} : Stands(arg, h)
                 \/ \E n \in ld.got : Kin(made[n].haul, h)
      BY <1>1, <2>3 DEF Invariant, WantInv
    <3> QED
      BY ONLY <1>2, <2>1, <2>2, <2>4, <3>1
  <2>6. Listed(ld.args)' = Listed(ld.args) /\ Listed(ld.todo)' = Listed(ld.todo)
    BY <1>1, <1>4 DEF Listed
  <2> QED
    BY <1>4, <2>3, <2>5, <2>6 DEF WantInv, Stands, Staged, Key, IsChunk, Kin, Names
<1>7. TempInv'
  BY <1>1, <1>4 DEF Invariant, TempInv
<1>8. DestInv'
  BY <1>1, <1>2, <1>4 DEF Invariant, DestInv
<1> QED
  BY <1>1, <1>5, <1>6, <1>7, <1>8, LoadStepKeeps

LEMMA ClearDirKeeps ==
  ASSUME Invariant, ClearDir
  PROVE  Invariant'
<1>1. /\ ld.pc = "clear" /\ ld.args = <<>> /\ SaveUnchanged /\ UNCHANGED <<stage, dest, log>>
      /\ ld' = [ld EXCEPT !.pc = "open", !.item = None, !.expect = None, !.hinted = FALSE]
      /\ temp' \in {NoTemp, [temp EXCEPT !.log = None]}
  BY DEF ClearDir, Invariant, LoadTypes
<1>2. /\ ld' \in Loading /\ ld'.pc = "open" /\ ld'.args = <<>> /\ ld'.todo = ld.todo
      /\ ld'.got = ld.got /\ ld'.want = ld.want /\ ld'.skipped = ld.skipped
  BY <1>1, LoadFacts DEF Loading, Places
<1>3. LoadTypes' /\ PiecesInv'
  BY <1>1, <1>2 DEF Invariant, LoadTypes, PiecesInv, HasItem, SaveUnchanged, Holds, PiecesOf
<1>4. WantInv'
  <2>1. Open = {} /\ Open' = {} /\ ld'.args = ld.args
    BY <1>1, <1>2 DEF Open, HasItem
  <2>2. Listed(ld.args)' = Listed(ld.args) /\ (Listed(ld.todo) \cup Open)' = Listed(ld.todo) \cup Open
    BY <1>2, <2>1 DEF Listed
  <2> QED
    BY <1>1, <1>2, <2>2, WantStays DEF Invariant, SaveUnchanged
<1>5. temp'.log = None /\ temp' \in [index : Save \cup {None, Torn}, log : Save \cup {None}]
  BY <1>1 DEF NoTemp, Invariant, TempInv
<1>6. TempInv' /\ DestInv'
  BY <1>1, <1>2, <1>5 DEF Invariant, TempInv, DestInv
<1> QED
  BY <1>1, <1>3, <1>4, <1>6, LoadStepKeeps
-----------------------------------------------------------------------------
LEMMA InitInvariant ==
  ASSUME Init
  PROVE  Invariant
<1>1. SaveTypes /\ FilesHold
  <2>1. NoSave \in Saving /\ NoSave.pc = "idle"
    BY DEF NoSave, Saving
  <2>2. 0 \in 0..MaxSaves
    BY HaulsAssumption
  <2> QED
    BY <2>1, <2>2 DEF Init, SaveTypes, FilesHold, NoFiles
<1>2. LoadTypes /\ PiecesInv /\ WantInv
  BY NoLoadTypes DEF Init, LoadTypes, PiecesInv, WantInv, HasItem, NoFiles
<1>3. TempInv /\ DestInv
  BY NoLoadTypes DEF Init, TempInv, DestInv
<1> QED
  BY <1>1, <1>2, <1>3 DEF Invariant

LEMMA NextInvariant ==
  ASSUME Invariant, [Next]_vars
  PROVE  Invariant'
<1>1. CASE UNCHANGED vars
  <2>1. SaveTypes' /\ LoadTypes'
    BY <1>1 DEF vars, Invariant, SaveTypes, LoadTypes, PiecesOf
  <2>2. FilesHold' /\ PiecesInv'
    <3>1. /\ saves' = saves /\ made' = made /\ file' = file /\ stage' = stage /\ ld' = ld
          /\ FilesHold /\ PiecesInv
      BY <1>1 DEF vars, Invariant
    <3>2. FilesHold'
      BY ONLY <3>1 DEF FilesHold, Holds, PiecesOf
    <3>3. PiecesInv'
      BY ONLY <3>1 DEF PiecesInv, Holds, HoldsOf, PiecesOf, Family, Siblings
    <3> QED
      BY <3>2, <3>3
  <2>3. WantInv'
    <3>1. ld' = ld /\ made' = made /\ WantInv
      BY <1>1 DEF vars, Invariant
    <3>2. Listed(ld.args)' = Listed(ld.args) /\ (Listed(ld.todo) \cup Open)' = Listed(ld.todo) \cup Open
      BY <3>1 DEF Listed, Open
    <3>3. CASE ld.pc = "idle"
      BY <3>1, <3>3 DEF WantInv
    <3>4. CASE ld.pc # "idle"
      BY <3>1, <3>2, <3>4, WantStays
    <3> QED
      BY <3>3, <3>4
  <2>4. TempInv' /\ DestInv'
    BY <1>1 DEF vars, Invariant, TempInv, DestInv, PiecesOf, Family, Siblings
  <2> QED
    BY <2>1, <2>2, <2>3, <2>4 DEF Invariant
<1>2. CASE \E h \in Haul : \E asked \in Asked : SaveStart(h, asked)
  BY <1>2, SaveStartKeeps
<1>3. CASE WriteArchive
  BY <1>3, WriteArchiveKeeps
<1>4. CASE NextChunk
  BY <1>4, NextChunkKeeps
<1>5. CASE DropOriginal
  BY <1>5, DropOriginalKeeps
<1>6. CASE SaveFails
  BY <1>6, SaveFailsKeeps
<1>7. CASE \E h \in Haul : \E i \in Suffix : LoseFile(h, i)
  BY <1>7, LoseFileKeeps
<1>8. CASE \E list \in Arguments : \E ignore \in BOOLEAN : LoadStart(list, ignore)
  BY <1>8, LoadStartKeeps
<1>9. CASE StageArgument
  BY <1>9, StageArgumentKeeps
<1>10. CASE StageEnds
  BY <1>10, StageEndsKeeps
<1>11. CASE OpenHaul
  BY <1>11, OpenHaulKeeps
<1>12. CASE JoinChunk
  BY <1>12, JoinChunkKeeps
<1>13. CASE UnarchiveHaul
  BY <1>13, UnarchiveHaulKeeps
<1>14. CASE PassOver
  BY <1>14, PassOverKeeps
<1>15. CASE \E r \in Ref : CopyEntry(r)
  BY <1>15, CopyEntryKeeps
<1>16. CASE MergeLog
  BY <1>16, MergeLogKeeps
<1>17. CASE ClearDir
  BY <1>17, ClearDirKeeps
<1>18. CASE LoadEnds
  BY <1>18, LoadEndsKeeps
<1>19. CASE LoadStops
  BY <1>19, LoadStopsKeeps
<1> QED
  BY <1>1, <1>2, <1>3, <1>4, <1>5, <1>6, <1>7, <1>8, <1>9, <1>10, <1>11, <1>12, <1>13, <1>14, <1>15,
     <1>16, <1>17, <1>18, <1>19 DEF Next

LEMMA InvariantHolds == Spec => []Invariant
<1>1. Init => Invariant
  BY InitInvariant
<1>2. Invariant /\ [Next]_vars => Invariant'
  BY NextInvariant
<1> QED
  BY <1>1, <1>2, PTL DEF Spec

(* A load that ends well and passed over nothing has loaded, for every     *)
(* haul it was given, a complete save of it, or of one whose name makes it *)
(* a chunk of the same old set (ChunkGroupKey, JoinChunks): with any       *)
(* number of hauls, chunks and saves, whatever their names, and whatever   *)
(* files were lost on the way.                                             *)
THEOREM EverythingIsLoaded == Spec => []LoadedAll
<1>1. Invariant => LoadedAll
  <2> SUFFICES ASSUME Invariant, ld.pc = "done", ~ld.skipped
               PROVE  /\ Fetched(ld.want, ld.got)
                      /\ \A n \in ld.got : \A r \in Content[n] : dest[r] \in ld.got
    BY DEF LoadedAll, Fetched
  <2>1. Listed(ld.args) = {} /\ Listed(ld.todo) = {} /\ Open = {}
    BY ListedFacts DEF Invariant, LoadTypes, Open, HasItem
  <2>2. Fetched(ld.want, ld.got)
    BY <2>1 DEF Invariant, WantInv, Fetched
  <2>3. \A n \in ld.got : \A r \in Content[n] : dest[r] \in ld.got
    BY DEF Invariant, DestInv
  <2> QED
    BY <2>2, <2>3
<1> QED
  BY <1>1, InvariantHolds, PTL

LEMMA LogGrows ==
  ASSUME Invariant, [Next]_vars
  PROVE  log' \ log \subseteq ld'.got
<1>1. CASE MergeLog
  <2>1. ld.pc = "copy" /\ (log' \ log) \subseteq {temp.log} \ {None}
    BY <1>1 DEF MergeLog
  <2>2. temp.log \in {None, temp.index}
    BY <2>1 DEF Invariant, TempInv
  <2>3. temp.index \in ld'.got
    BY <1>1, LoadFacts DEF MergeLog, Loading
  <2> QED
    BY <2>1, <2>2, <2>3
<1>2. CASE ~MergeLog
  <2>1. log' = log
    <3>1. CASE UNCHANGED vars
      BY <3>1 DEF vars
    <3>2. CASE \/ \E h \in Haul : \E asked \in Asked : SaveStart(h, asked)
               \/ WriteArchive \/ NextChunk \/ DropOriginal \/ SaveFails
               \/ \E h \in Haul : \E i \in Suffix : LoseFile(h, i)
      <4>1. LoadUnchanged
        BY <3>2, Zenon DEF SaveStart, WriteArchive, NextChunk, DropOriginal, SaveFails, LoseFile
      <4> QED
        BY <4>1 DEF LoadUnchanged
    <3>3. CASE \/ \E list \in Arguments : \E ignore \in BOOLEAN : LoadStart(list, ignore)
               \/ StageArgument \/ StageEnds \/ OpenHaul \/ JoinChunk \/ UnarchiveHaul \/ PassOver
               \/ \E r \in Ref : CopyEntry(r)
               \/ ClearDir \/ LoadEnds \/ LoadStops
      BY <3>3, Zenon DEF LoadStart, StageArgument, StageEnds, OpenHaul, JoinChunk, UnarchiveHaul,
         PassOver, CopyEntry, ClearDir, LoadEnds, LoadStops, LoadReturns
    <3> QED
      BY <1>2, <3>1, <3>2, <3>3 DEF Next
  <2> QED
    BY <2>1
<1> QED
  BY <1>1, <1>2

(* An audit log is merged only when the references of the same save are in *)
(* the store, never one that an earlier haul left in the temp directory.   *)
THEOREM AuditFollowsContent == Spec => LogFollowsContent
<1>1. Invariant /\ [Next]_vars => [log' \ log \subseteq ld'.got]_vars
  BY LogGrows
<1> QED
  BY <1>1, InvariantHolds, PTL DEF Spec, LogFollowsContent

Made == \A n \in 1..saves : made[n] \in [haul : Haul, asked : Asked]

(* Every save that has begun is entered in made.                           *)
LEMMA MadeStays ==
  ASSUME Invariant, Made, [Next]_vars
  PROVE  Made'
<1>1. saves \in 0..MaxSaves /\ made \in [Save -> {None} \cup [haul : Haul, asked : Asked]]
      /\ MaxSaves \in Nat
  BY HaulsAssumption DEF Invariant, SaveTypes
<1>2. CASE \E h \in Haul : \E asked \in Asked : SaveStart(h, asked)
  <2>1. PICK h \in Haul, asked \in Asked : SaveStart(h, asked)
    BY <1>2
  <2>2. /\ saves < MaxSaves /\ saves' = saves + 1
        /\ made' = [made EXCEPT ![saves + 1] = [haul |-> h, asked |-> asked]]
    BY <2>1 DEF SaveStart
  <2>3. ASSUME NEW n \in 1..saves' PROVE made'[n] \in [haul : Haul, asked : Asked]
    <3>1. n \in Save /\ (n = saves + 1 \/ n \in 1..saves)
      BY <1>1, <2>2 DEF Save
    <3> QED
      BY <1>1, <2>2, <3>1 DEF Made
  <2> QED
    BY <2>3 DEF Made
<1>3. CASE \/ UNCHANGED vars
           \/ WriteArchive \/ NextChunk \/ DropOriginal \/ SaveFails
           \/ \E h \in Haul : \E i \in Suffix : LoseFile(h, i)
  <2>1. UNCHANGED <<saves, made>>
    BY <1>3, Zenon DEF WriteArchive, NextChunk, DropOriginal, SaveFails, LoseFile, vars
  <2> QED
    BY <2>1 DEF Made
<1>4. CASE \/ \E list \in Arguments : \E ignore \in BOOLEAN : LoadStart(list, ignore)
           \/ StageArgument \/ StageEnds \/ OpenHaul \/ JoinChunk \/ UnarchiveHaul \/ PassOver
           \/ \E r \in Ref : CopyEntry(r)
           \/ MergeLog \/ ClearDir \/ LoadEnds \/ LoadStops
  <2>1. SaveUnchanged
    BY <1>4, Zenon DEF LoadStart, StageArgument, StageEnds, OpenHaul, JoinChunk, UnarchiveHaul,
       PassOver, CopyEntry, MergeLog, ClearDir, LoadEnds, LoadStops, LoadReturns
  <2> QED
    BY <2>1 DEF Made, SaveUnchanged
<1> QED
  BY <1>2, <1>3, <1>4 DEF Next

(* Files, the save and the load that run, the temp directory, the store    *)
(* and its audit log have their types at any step.                         *)
THEOREM TypeCorrect == Spec => []TypeOK
<1> DEFINE Known == Invariant /\ Made /\ log \subseteq Save
<1>1. Init => Known
  BY InitInvariant DEF Init, Made
<1>2. ASSUME Known, [Next]_vars PROVE Known'
  <2>1. Invariant'
    BY <1>2, NextInvariant
  <2>2. log' \ log \subseteq ld'.got
    BY <1>2, LogGrows
  <2>3. ld'.got \subseteq Save
    BY <2>1 DEF Invariant, LoadTypes, Loading
  <2> QED
    BY <1>2, <2>1, <2>2, <2>3, MadeStays
<1>3. Known => TypeOK
  <2> SUFFICES ASSUME Known PROVE TypeOK
    OBVIOUS
  <2>1. \A h \in Haul : \A i \in Suffix : file[h][i] = None \/ file[h][i] \in Seq(Piece)
    BY DEF Invariant, SaveTypes
  <2>2. \A n \in 1..saves : made[n].haul \in Haul /\ made[n].asked \in Asked
    BY DEF Made
  <2> QED
    BY <2>1, <2>2 DEF TypeOK, Invariant, SaveTypes, Saving, LoadTypes, Loading, Places, TempInv
<1>4. Known /\ [Next]_vars => Known'
  BY <1>2
<1> HIDE DEF Known
<1> QED
  BY <1>1, <1>3, <1>4, PTL DEF Spec
-----------------------------------------------------------------------------
(* Numbers in order, and sequences joined                                  *)

(* A set of numbers has a least one: the sets 1..n are well-founded.       *)
LEMMA LeastNumber ==
  ASSUME NEW T, T \subseteq Nat, T # {}
  PROVE  \E n \in T : \A k \in T : n <= k
<1> DEFINE R == StrictSubsetOrdering(Nat)
           U == {1..n : n \in T}
<1>1. \A n \in T : 1..n \in SUBSET Nat /\ IsFiniteSet(1..n)
  BY FS_Interval
<1>2. U \subseteq FiniteSubsetsOf(Nat) /\ U # {} /\ IsWellFoundedOn(R, FiniteSubsetsOf(Nat))
  BY <1>1, FS_StrictSubsetOrderingWellFounded DEF FiniteSubsetsOf
<1>3. PICK x \in U : \A y \in U : <<y, x>> \notin R
  <2> HIDE DEF R, U
  <2> QED
    BY <1>2, WFMin
<1>4. PICK n \in T : x = 1..n
  BY <1>3
<1>5. ASSUME NEW k \in T, ~(n <= k) PROVE FALSE
  <2>1. 1..k \subseteq 1..n /\ n \in 1..n /\ n \notin 1..k
    BY <1>5
  <2>2. <<1..k, 1..n>> \in R
    BY <1>1, <2>1 DEF StrictSubsetOrdering
  <2> QED
    BY <1>3, <1>4, <2>2
<1> QED
  BY <1>5

(* What holds of 0, and with every number of the next one, holds of all.   *)
LEMMA Inductive ==
  ASSUME NEW T, 0 \in T, \A n \in Nat : n \in T => n + 1 \in T
  PROVE  Nat \subseteq T
<1> SUFFICES ASSUME Nat \ T # {} PROVE FALSE
  OBVIOUS
<1>1. PICK n \in Nat \ T : \A k \in Nat \ T : n <= k
  BY LeastNumber
<1>2. n # 0 /\ n - 1 \in Nat /\ n - 1 \notin Nat \ T
  BY <1>1
<1>3. (n - 1) + 1 \in T
  BY <1>2
<1> QED
  BY <1>1, <1>2, <1>3

InOrder(s) == \A i, k \in DOMAIN s : i < k => s[i] < s[k]

(* Every finite set of numbers can be listed in order.                     *)
LEMMA OrderExists ==
  ASSUME NEW S, IsFiniteSet(S), S \subseteq Nat
  PROVE  \E s \in SetToSeqs(S) : InOrder(s)
<1> DEFINE R == StrictSubsetOrdering(Nat)
           U == {X \in FiniteSubsetsOf(Nat) : \A s \in SetToSeqs(X) : ~InOrder(s)}
<1> SUFFICES ASSUME U # {} PROVE FALSE
  BY DEF FiniteSubsetsOf
<1>1. U \subseteq FiniteSubsetsOf(Nat) /\ IsWellFoundedOn(R, FiniteSubsetsOf(Nat))
  BY FS_StrictSubsetOrderingWellFounded
<1>2. PICK X \in U : \A Y \in U : <<Y, X>> \notin R
  <2> HIDE DEF R, U
  <2> QED
    BY <1>1, WFMin
<1>3. X \subseteq Nat /\ IsFiniteSet(X) /\ Cardinality(X) \in Nat
  BY <1>2, FS_CardinalityType DEF FiniteSubsetsOf
<1>4. CASE X = {}
  <2>1. <<>> \in SetToSeqs({}) /\ InOrder(<<>>)
    <3>1. Cardinality({}) = 0
      BY FS_EmptySet
    <3>2. 1..0 = {} /\ DOMAIN <<>> = {}
      OBVIOUS
    <3>3. <<>> \in [1..0 -> {}]
      OBVIOUS
    <3> QED
      BY <3>1, <3>2, <3>3 DEF SetToSeqs, InOrder
  <2> QED
    BY <1>2, <1>4, <2>1
<1>5. CASE X # {}
  <2>1. PICK m \in X : \A k \in X : m <= k
    BY <1>3, <1>5, LeastNumber
  <2> PICK Y : Y = X \ {m}
    OBVIOUS
  <2>2. /\ IsFiniteSet(Y) /\ Cardinality(Y) = Cardinality(X) - 1 /\ Y \subseteq Nat
        /\ Cardinality(Y) \in Nat
    BY <1>3, <2>1, FS_RemoveElement, FS_CardinalityType
  <2>3. <<Y, X>> \in R
    BY <1>3, <2>1, <2>2 DEF StrictSubsetOrdering
  <2>4. PICK s \in SetToSeqs(Y) : InOrder(s)
    BY <1>2, <2>2, <2>3 DEF FiniteSubsetsOf
  <2> PICK n \in Nat : n = Cardinality(Y)
    BY <2>2
  <2>5. /\ s \in [1..n -> Y] /\ \A i, k \in 1..n : i # k => s[i] # s[k]
        /\ \A i, k \in 1..n : i < k => s[i] < s[k]
    BY <2>4 DEF SetToSeqs, InOrder
  <2> PICK t : t = [i \in 1..n + 1 |-> IF i = 1 THEN m ELSE s[i - 1]]
    OBVIOUS
  <2>6. \A i \in 1..n + 1 : i # 1 => i - 1 \in 1..n /\ t[i] = s[i - 1] /\ s[i - 1] \in Y
    <3> SUFFICES ASSUME NEW i \in 1..n + 1, i # 1
                 PROVE  i - 1 \in 1..n /\ t[i] = s[i - 1] /\ s[i - 1] \in Y
      OBVIOUS
    <3>1. i - 1 \in 1..n
      OBVIOUS
    <3> QED
      BY <2>5, <3>1
  <2>7. t \in [1..n + 1 -> X] /\ t[1] = m
    <3>1. t[1] = m /\ 1 \in 1..n + 1
      OBVIOUS
    <3>2. \A i \in 1..n + 1 : t[i] \in X
      BY <2>1, <2>6, <3>1
    <3> QED
      BY <3>1, <3>2
  <2>8. \A i, k \in 1..n + 1 : i < k => t[i] < t[k]
    <3> SUFFICES ASSUME NEW i \in 1..n + 1, NEW k \in 1..n + 1, i < k PROVE t[i] < t[k]
      OBVIOUS
    <3>0. k # 1
      OBVIOUS
    <3>1. k - 1 \in 1..n /\ t[k] = s[k - 1] /\ s[k - 1] \in Y
      BY <2>6, <3>0
    <3>2. CASE i = 1
      <4>1. m <= t[k] /\ t[k] # m /\ t[k] \in Nat /\ m \in Nat
        BY <1>3, <2>1, <3>1
      <4> QED
        BY <2>7, <3>2, <4>1
    <3>3. CASE i # 1
      <4>1. i - 1 \in 1..n /\ t[i] = s[i - 1] /\ i - 1 < k - 1
        BY <2>6, <3>3
      <4> QED
        BY <2>5, <3>1, <4>1
    <3> QED
      BY <3>2, <3>3
  <2>9. \A i, k \in 1..n + 1 : i # k => t[i] # t[k]
    <3> SUFFICES ASSUME NEW i \in 1..n + 1, NEW k \in 1..n + 1, i # k PROVE t[i] # t[k]
      OBVIOUS
    <3>1. t[i] \in Nat /\ t[k] \in Nat
      BY <1>3, <2>7
    <3>2. CASE i < k
      <4>1. t[i] < t[k]
        BY <2>8, <3>2
      <4> QED
        BY <3>1, <4>1
    <3>3. CASE k < i
      <4>1. t[k] < t[i]
        BY <2>8, <3>3
      <4> QED
        BY <3>1, <4>1
    <3> QED
      BY <3>2, <3>3
  <2>10. Cardinality(X) = n + 1
    BY <1>3, <2>2
  <2>11. t \in SetToSeqs(X)
    BY ONLY <2>7, <2>9, <2>10 DEF SetToSeqs
  <2>12. InOrder(t)
    <3>1. DOMAIN t = 1..n + 1
      BY <2>7
    <3> QED
      BY ONLY <2>8, <3>1 DEF InOrder
  <2> QED
    BY <1>2, <2>11, <2>12
<1> QED
  BY <1>4, <1>5

LEMMA AscendingGives ==
  ASSUME NEW S, IsFiniteSet(S), S \subseteq Nat
  PROVE  \E order \in Seq(S) :
           /\ order = Ascending(S) /\ DOMAIN order = 1..Len(order) /\ Len(order) \in Nat
           /\ \A i, k \in 1..Len(order) : i < k => order[i] < order[k]
           /\ \A x \in S : \E i \in 1..Len(order) : order[i] = x
<1> PICK order : order = Ascending(S)
  OBVIOUS
<1>1. order \in SetToSeqs(S) /\ \A i, k \in DOMAIN order : i < k => order[i] < order[k]
  <2>1. \E s \in SetToSeqs(S) : \A i, k \in DOMAIN s : i < k => s[i] < s[k]
    BY OrderExists DEF InOrder
  <2> QED
    BY <2>1 DEF Ascending
<1> DEFINE D == 1..Cardinality(S)
<1>2. Cardinality(S) \in Nat
  BY FS_CardinalityType
<1>3. order \in [D -> S] /\ \A i, k \in D : i # k => order[i] # order[k]
  BY <1>1 DEF SetToSeqs
<1>4. order \in Injection(D, S)
  BY <1>3 DEF Injection, IsInjective
<1>5. Cardinality(D) = Cardinality(S)
  BY <1>2, FS_Interval
<1>6. order \in Surjection(D, S)
  BY <1>4, <1>5, FS_Injection
<1>7. order \in Seq(S) /\ Len(order) = Cardinality(S)
  BY <1>2, <1>3
<1> QED
  BY <1>1, <1>2, <1>3, <1>6, <1>7 DEF Surjection

(* When 1 to k are in a set of positive numbers, they come first in order. *)
LEMMA FirstInOrder ==
  ASSUME NEW S, IsFiniteSet(S), S \subseteq Nat \ {0}, NEW k \in Nat, 1..k \subseteq S
  PROVE  k <= Len(Ascending(S)) /\ \A i \in 1..k : Ascending(S)[i] = i
<1>1. PICK order \in Seq(S) :
        /\ order = Ascending(S) /\ Len(order) \in Nat
        /\ \A i, j \in 1..Len(order) : i < j => order[i] < order[j]
        /\ \A x \in S : \E i \in 1..Len(order) : order[i] = x
  <2>1. S \subseteq Nat
    OBVIOUS
  <2> QED
    BY <2>1, AscendingGives
<1>a. \A i \in 1..Len(order) : order[i] \in S
  BY ElementOfSeq
<1> DEFINE B == {i \in 1..k : ~(i \in 1..Len(order) /\ order[i] = i)}
<1>2. ASSUME B # {} PROVE FALSE
  <2>1. PICK i \in B : \A j \in B : i <= j
    BY <1>2, LeastNumber
  <2>2. \A j \in 1..i - 1 : j \in 1..Len(order) /\ order[j] = j
    BY <2>1
  <2>3. i \in S /\ i \in Nat \ {0}
    BY <2>1
  <2>4. PICK p \in 1..Len(order) : order[p] = i
    BY <1>1, <2>3
  <2>5. p >= i
    BY <2>2, <2>3, <2>4
  <2>6. i \in 1..Len(order)
    BY <2>3, <2>5
  <2>7. p # i
    BY <2>1, <2>4, <2>6
  <2>8. order[i] < i /\ order[i] \in Nat \ {0}
    <3>1. i < p
      BY <2>3, <2>5, <2>7
    <3>2. order[i] < order[p] /\ order[i] \in S
      BY <1>1, <1>a, <2>6, <3>1
    <3> QED
      BY <2>4, <3>2
  <2>9. order[i] \in 1..i - 1
    BY <2>3, <2>8
  <2>10. order[order[i]] = order[i] /\ order[i] \in 1..Len(order)
    BY <2>2, <2>9
  <2> QED
    BY <1>1, <2>6, <2>8, <2>10
<1>3. \A i \in 1..k : i \in 1..Len(order) /\ order[i] = i
  BY <1>2
<1>4. k <= Len(order)
  <2>1. CASE k = 0
    BY <1>1, <2>1
  <2>2. CASE k # 0
    <3>1. k \in 1..k
      BY <2>2
    <3> QED
      BY <1>1, <1>3, <3>1
  <2> QED
    BY <2>1, <2>2
<1> QED
  BY <1>1, <1>3, <1>4

(* g is what the parts of s are when they are joined one after the other.  *)
Joins(g, s, m) == \A i \in 1..m : g[i] = IF i = 1 THEN s[i] ELSE g[i - 1] \o s[i]

LEMMA JoinsOneMore ==
  ASSUME NEW X, NEW s, NEW m \in Nat, s[m + 1] \in Seq(X), NEW g \in [1..m -> Seq(X)], Joins(g, s, m)
  PROVE  \E h \in [1..m + 1 -> Seq(X)] : Joins(h, s, m + 1)
<1>1. PICK last \in Seq(X) : last = IF m = 0 THEN s[m + 1] ELSE g[m] \o s[m + 1]
  <2>1. CASE m = 0
    BY <2>1
  <2>2. CASE m # 0
    <3>1. g[m] \in Seq(X)
      BY <2>2
    <3> QED
      BY <2>2, <3>1, ConcatProperties
  <2> QED
    BY <2>1, <2>2
<1> PICK h : h = [i \in 1..m + 1 |-> IF i = m + 1 THEN last ELSE g[i]]
  OBVIOUS
<1>2. h \in [1..m + 1 -> Seq(X)] /\ h[m + 1] = last
  OBVIOUS
<1>3. \A i \in 1..m : h[i] = g[i]
  OBVIOUS
<1>4. ASSUME NEW i \in 1..m + 1 PROVE h[i] = IF i = 1 THEN s[i] ELSE h[i - 1] \o s[i]
  <2>1. i # 1 => i - 1 \in 1..m /\ h[i - 1] = g[i - 1]
    BY <1>3
  <2>2. CASE i = m + 1
    BY <1>1, <1>2, <2>1, <2>2
  <2>3. CASE i # m + 1
    <3>1. i \in 1..m
      BY <2>3
    <3> QED
      BY <1>3, <2>1, <3>1 DEF Joins
  <2> QED
    BY <2>2, <2>3
<1> QED
  BY <1>2, <1>4 DEF Joins

LEMMA JoinsExists ==
  ASSUME NEW X, NEW n \in Nat, NEW s, \A i \in 1..n : s[i] \in Seq(X)
  PROVE  \E g \in [1..n -> Seq(X)] : Joins(g, s, n)
<1> PICK T : T = {m \in Nat : m <= n => \E g \in [1..m -> Seq(X)] : Joins(g, s, m)}
  OBVIOUS
<1>1. 0 \in T
  <2>1. [i \in 1..0 |-> <<>>] \in [1..0 -> Seq(X)] /\ \A g : Joins(g, s, 0)
    BY DEF Joins
  <2> QED
    BY <2>1
<1>2. ASSUME NEW m \in Nat, m \in T PROVE m + 1 \in T
  <2>1. ASSUME m + 1 <= n PROVE \E g \in [1..m + 1 -> Seq(X)] : Joins(g, s, m + 1)
    <3>1. PICK g \in [1..m -> Seq(X)] : Joins(g, s, m)
      BY <1>2, <2>1
    <3>2. s[m + 1] \in Seq(X)
      BY <2>1
    <3> QED
      BY <3>1, <3>2, JoinsOneMore
  <2> QED
    BY <2>1
<1>3. Nat \subseteq T
  BY <1>1, <1>2, Inductive
<1>4. n \in T
  BY <1>3
<1> QED
  BY <1>4

(* FlattenSeq is the last of them.                                         *)
LEMMA FlattenGives ==
  ASSUME NEW X, NEW s \in Seq(Seq(X)), s # <<>>
  PROVE  \E f \in [1..Len(s) -> Seq(X)] : Joins(f, s, Len(s)) /\ FlattenSeq(s) = f[Len(s)]
<1> PICK n \in Nat \ {0} : n = Len(s)
  BY EmptySeq
<1>1. \A i \in 1..n : s[i] \in Seq(X)
  BY ElementOfSeq
<1> DEFINE IsFlat(f) == f = [i \in 1..n |-> IF i = 1 THEN s[i] ELSE f[i - 1] \o s[i]]
           flat == CHOOSE f : IsFlat(f)
<1>2. \E f : IsFlat(f)
  <2>1. PICK g \in [1..n -> Seq(X)] : Joins(g, s, n)
    BY <1>1, JoinsExists
  <2>2. IsFlat(g)
    BY <2>1 DEF Joins
  <2> QED
    BY <2>2
<1>3. PICK f : IsFlat(f) /\ FlattenSeq(s) = f[n]
  <2>1. IsFlat(flat)
    <3> HIDE DEF IsFlat
    <3> QED
      BY <1>2, Zenon
  <2>2. FlattenSeq(s) = flat[n]
    BY DEF FlattenSeq
  <2> QED
    BY <2>1, <2>2
<1>4. Joins(f, s, n)
  BY <1>3 DEF Joins
<1>5. \A i \in 1..n : f[i] \in Seq(X)
  <2> PICK B : B = {i \in 1..n : f[i] \notin Seq(X)}
    OBVIOUS
  <2> SUFFICES ASSUME B # {} PROVE FALSE
    OBVIOUS
  <2>1. B \subseteq Nat
    OBVIOUS
  <2>2. PICK i \in B : \A j \in B : i <= j
    BY <2>1, LeastNumber
  <2>3. i \in 1..n /\ s[i] \in Seq(X) /\ f[i] \notin Seq(X)
    BY <1>1, <2>2
  <2>4. i # 1 /\ f[i] = f[i - 1] \o s[i]
    BY <1>4, <2>3 DEF Joins
  <2>5. i - 1 \in 1..n /\ f[i - 1] \in Seq(X)
    <3>1. i - 1 \in 1..n /\ i - 1 \notin B
      BY <2>2, <2>3, <2>4
    <3> QED
      BY <3>1
  <2> QED
    BY <2>3, <2>4, <2>5, ConcatProperties
<1>6. f \in [1..n -> Seq(X)]
  BY <1>3, <1>5
<1> HIDE DEF IsFlat
<1> QED
  BY <1>3, <1>4, <1>6
-----------------------------------------------------------------------------
(* How many pieces of an archive the first i chunks of that size hold, and *)
(* the i-th of them.                                                       *)
Cut(n, limit, i) == IF i * limit < Size[n] THEN i * limit ELSE Size[n]
Chunk(n, limit, i) == SubSeq(Archive(n), Cut(n, limit, i - 1) + 1, Cut(n, limit, i))

Without(contents, n) == contents # None => \A i \in 1..Len(contents) : contents[i].save # n

(* The first k chunks of haul h are those of save n, and no other one has  *)
(* a piece of it.                                                          *)
Chunked(h, n, limit, k) ==
  /\ \A i \in 1..k : i \in Suffix /\ file[h][i] = Chunk(n, limit, i)
  /\ \A i \in Suffix : i > k => Without(file[h][i], n)

AllChunked(h, n, limit, k) == Chunked(h, n, limit, k) /\ Cut(n, limit, k) = Size[n]

(* What is split so far.                                                   *)
SplitInv ==
  sv.pc # "idle" =>
    /\ fresh[sv.haul] = None
    /\ Chunked(sv.haul, saves, sv.limit, sv.done)
    /\ sv.pc = "write" => sv.done = 0
    /\ sv.pc = "split" => sv.done * sv.limit < Size[saves]
    /\ sv.pc = "drop" => Cut(saves, sv.limit, sv.done) = Size[saves]
    /\ sv.pc # "write" => sv.limit \in 1..made[saves].asked

(* A save that has returned.                                               *)
Returned(n) == n \in 1..saves /\ (sv.pc # "idle" => n # saves)

(* What a save that returned no error has left.                            *)
Left(h, n) ==
  IF made[n].asked = 0 THEN file[h][0] = Archive(n)
  ELSE /\ file[h][0] = None
       /\ \E limit \in 1..made[n].asked : \E k \in Suffix : AllChunked(h, n, limit, k)

FreshInv ==
  \A h \in Haul : \A n \in Save : fresh[h] = n => Returned(n) /\ PiecesOf(h, n) /\ Left(h, n)

(* The chunks of haul h up to d are joined.                                *)
Later(h, d) == {<<h, i>> : i \in {j \in Chunks(file, h) : j > d}}
JoinedUpTo(h, n, limit, k, d) ==
  /\ ld.parts = Later(h, d)
  /\ IF d < k THEN ld.bytes = SubSeq(Archive(n), 1, Cut(n, limit, d)) ELSE IsPrefix(Archive(n), ld.bytes)

(* The archive of haul h is joined, or comes before its siblings'.         *)
InLine(h, n) ==
  \/ IsPrefix(Archive(n), ld.bytes)
  \/ /\ ld.bytes = <<>> /\ <<h, 0>> \in ld.parts
     /\ \A p \in ld.parts : p = <<h, 0>> \/ Number[h] < Position(p)

(* A load that opened the last save of its haul has that in its hands.     *)
OnItsWay(h, n) ==
  /\ ld.pc = "join" =>
       /\ ~Staged(ld.item)
       /\ made[n].asked = 0 => InLine(h, n)
       /\ made[n].asked # 0 =>
            \A limit \in 1..made[n].asked : \A k \in Suffix :
              AllChunked(h, n, limit, k) => \E d \in Suffix : JoinedUpTo(h, n, limit, k, d)
  /\ ld.pc = "unarchive" => IsPrefix(Archive(n), ld.bytes)
  /\ ld.pc = "copy" => temp.index = n

LatestInv ==
  ld.pc \in HasItem =>
    \A h \in Haul : \A n \in Save : ld.item.haul = h /\ ld.expect = n =>
      Returned(n) /\ (fresh[h] = n => OnItsWay(h, n))

KeptInv == SplitInv /\ FreshInv /\ LatestInv

LEMMA ArchiveIsSeq ==
  ASSUME NEW n \in Save
  PROVE  /\ Archive(n) \in Seq(Piece) /\ Len(Archive(n)) = Size[n] /\ Size[n] \in Nat \ {0}
         /\ \A i \in 1..Size[n] : Archive(n)[i] \in Piece
BY ArchiveTypes

LEMMA CutFacts ==
  ASSUME NEW n \in Save, NEW limit \in Nat, NEW i \in Nat
  PROVE  /\ Cut(n, limit, i) \in 0..Size[n] /\ Cut(n, limit, 0) = 0
         /\ Cut(n, limit, i) <= Cut(n, limit, i + 1)
         /\ Cut(n, limit, i + 1) <= Cut(n, limit, i) + limit
<1>1. Size[n] \in Nat \ {0}
  BY ArchiveIsSeq
<1>2. i * limit \in Nat /\ (i + 1) * limit = i * limit + limit /\ 0 * limit = 0
  OBVIOUS
<1> QED
  BY <1>1, <1>2 DEF Cut

LEMMA ChunkFacts ==
  ASSUME NEW n \in Save, NEW limit \in Nat, NEW i \in Nat \ {0}
  PROVE  /\ Chunk(n, limit, i) \in Seq(Piece) /\ Len(Chunk(n, limit, i)) <= limit
         /\ SubSeq(Archive(n), 1, Cut(n, limit, i - 1)) \in Seq(Piece)
         /\ SubSeq(Archive(n), 1, Cut(n, limit, i - 1)) \o Chunk(n, limit, i)
            = SubSeq(Archive(n), 1, Cut(n, limit, i))
<1> PICK from, upto, arc : /\ from = Cut(n, limit, i - 1) /\ upto = Cut(n, limit, i) /\ arc = Archive(n)
  OBVIOUS
<1>1. /\ from \in 0..Size[n] /\ upto \in 0..Size[n] /\ from <= upto /\ upto <= from + limit
      /\ Size[n] \in Nat \ {0}
  <2>1. i - 1 \in Nat /\ (i - 1) + 1 = i
    OBVIOUS
  <2> QED
    BY <2>1, CutFacts, ArchiveIsSeq
<1>2. arc \in Seq(Piece) /\ Len(arc) = Size[n] /\ \A j \in 1..Size[n] : arc[j] \in Piece
  BY ArchiveIsSeq
<1>3. /\ SubSeq(arc, from + 1, upto) \in Seq(Piece)
      /\ Len(SubSeq(arc, from + 1, upto)) = IF from + 1 <= upto THEN upto - (from + 1) + 1 ELSE 0
      /\ SubSeq(arc, 1, from) \in Seq(Piece)
  <2>1. from + 1 \in Int /\ upto \in Int /\ from \in Int /\ 1 \in Int
    BY <1>1
  <2>2. (\A j \in from + 1..upto : arc[j] \in Piece) /\ (\A j \in 1..from : arc[j] \in Piece)
    BY <1>1, <1>2
  <2> QED
    BY <2>1, <2>2, SubSeqProperties
<1>4. SubSeq(arc, 1, from) \o SubSeq(arc, from + 1, upto) = SubSeq(arc, 1, upto)
  <2>1. 1 \in 1..Len(arc) + 1 /\ from \in 1 - 1..Len(arc) /\ upto \in from..Len(arc)
    BY <1>1, <1>2
  <2> QED
    BY <1>2, <2>1, ConcatAdjacentSubSeq
<1>5. Len(SubSeq(arc, from + 1, upto)) <= limit
  BY <1>1, <1>3
<1> QED
  BY <1>3, <1>4, <1>5 DEF Chunk

(* The pieces of a save in order are all of its archive.                   *)
LEMMA WholeIsPrefix ==
  ASSUME NEW n \in Save
  PROVE  IsPrefix(Archive(n), SubSeq(Archive(n), 1, Size[n])) /\ SubSeq(Archive(n), 1, Size[n]) = Archive(n)
BY ArchiveIsSeq, SubSeqFull DEF IsPrefix

LEMMA PrefixStays ==
  ASSUME NEW n \in Save, NEW b \in Seq(Piece), NEW c \in Seq(Piece), IsPrefix(Archive(n), b)
  PROVE  IsPrefix(Archive(n), b \o c)
<1>1. Archive(n) \in Seq(Piece) /\ Len(Archive(n)) = Size[n] /\ Size[n] \in Nat \ {0}
  BY ArchiveIsSeq
<1>2. /\ Len(b) \in Nat /\ Len(c) \in Nat /\ Size[n] <= Len(b)
      /\ SubSeq(Archive(n), 1, Size[n]) = SubSeq(b, 1, Size[n])
  BY <1>1, LenProperties DEF IsPrefix
<1>3. SubSeq(b \o c, 1, Size[n]) = SubSeq(b, 1, Size[n]) /\ Len(b \o c) = Len(b) + Len(c)
  <2>1. 1 \in 1..Len(b) /\ Size[n] \in 1..Len(b)
    BY <1>1, <1>2
  <2> QED
    BY <2>1, SubSeqOfConcat1, ConcatProperties
<1> QED
  BY <1>1, <1>2, <1>3 DEF IsPrefix

(* Bytes begin with one archive at most.                                   *)
LEMMA OneArchive ==
  ASSUME NEW n \in Save, NEW m \in Save, NEW b \in Seq(Piece),
         IsPrefix(Archive(n), b), IsPrefix(Archive(m), b)
  PROVE  n = m
<1>1. b[1].save = n /\ b[1].save = m
  BY FirstPiece
<1> QED
  BY <1>1

LEMMA SuffixFinite == IsFiniteSet(Suffix) /\ Suffix \subseteq Nat /\ 0 \in Suffix
<1>1. MaxSaves \in Nat \ {0} /\ Size \in [Save -> Nat \ {0}]
  BY HaulsAssumption
<1>2. IsFiniteSet(Save)
  BY <1>1, FS_Interval DEF Save
<1> DEFINE F == {0..Size[n] : n \in Save}
           f == [n \in Save |-> 0..Size[n]]
<1>3. f \in Surjection(Save, F)
  BY DEF Surjection
<1>4. IsFiniteSet(F)
  BY <1>2, <1>3, FS_Surjection
<1>5. \A X \in F : IsFiniteSet(X)
  BY <1>1, FS_Interval
<1>6. IsFiniteSet(UNION F)
  <2> HIDE DEF F
  <2> QED
    BY <1>4, <1>5, FS_UNION
<1>7. 1 \in Save
  BY <1>1 DEF Save
<1> QED
  BY <1>1, <1>6, <1>7 DEF Suffix

LEMMA ChunksGive ==
  ASSUME NEW dir, NEW h
  PROVE  IsFiniteSet(Chunks(dir, h)) /\ Chunks(dir, h) \subseteq Suffix \ {0} /\ Chunks(dir, h) \subseteq Nat \ {0}
<1>1. Chunks(dir, h) \in SUBSET Suffix
  BY DEF Chunks
<1>2. IsFiniteSet(Chunks(dir, h))
  BY <1>1, SuffixFinite, FS_Subset
<1> QED
  BY <1>2, SuffixFinite DEF Chunks

LEMMA ChunkedGives ==
  ASSUME NEW h \in Haul, NEW n \in Save, NEW limit \in Nat, NEW k \in Suffix, Chunked(h, n, limit, k)
  PROVE  /\ 1..k \subseteq Chunks(file, h)
         /\ \A i \in 1..k : file[h][i] = Chunk(n, limit, i)
<1>1. k \in Nat
  BY SuffixFinite
<1> SUFFICES ASSUME NEW i \in 1..k
             PROVE  i \in Chunks(file, h) /\ file[h][i] = Chunk(n, limit, i)
  OBVIOUS
<1>2. i \in Nat \ {0} /\ i \in Suffix /\ file[h][i] = Chunk(n, limit, i)
  BY <1>1 DEF Chunked
<1>3. Chunk(n, limit, i) # None
  BY <1>2, ChunkFacts, HaulsAssumption
<1> QED
  BY <1>2, <1>3 DEF Chunks

(* The chunks of a save joined in order begin with its archive.            *)
LEMMA ChunksJoin ==
  ASSUME Invariant, NEW h \in Haul, NEW n \in Save, NEW limit \in Nat, NEW k \in Suffix,
         AllChunked(h, n, limit, k)
  PROVE  LET parts == Ascending(Chunks(file, h))
         IN  IsPrefix(Archive(n), FlattenSeq([i \in DOMAIN parts |-> file[h][parts[i]]]))
<1> DEFINE S == Chunks(file, h)
<1>1. /\ k \in Nat /\ Chunked(h, n, limit, k) /\ Cut(n, limit, k) = Size[n]
      /\ 1..k \subseteq S /\ (\A i \in 1..k : file[h][i] = Chunk(n, limit, i))
      /\ Size[n] \in Nat \ {0}
  BY SuffixFinite, ChunkedGives, ArchiveIsSeq DEF AllChunked
<1>2. k # 0
  BY <1>1, CutFacts
<1>3. IsFiniteSet(S) /\ S \subseteq Nat \ {0} /\ S \subseteq Nat
  BY ChunksGive
<1> HIDE DEF S
<1>4. PICK parts \in Seq(S) : parts = Ascending(S) /\ DOMAIN parts = 1..Len(parts) /\ Len(parts) \in Nat
  BY <1>3, AscendingGives
<1>5. k <= Len(parts) /\ \A i \in 1..k : parts[i] = i
  BY <1>1, <1>3, <1>4, FirstInOrder
<1> PICK L : L = Len(parts)
  OBVIOUS
<1> PICK s : s = [i \in 1..L |-> file[h][parts[i]]]
  OBVIOUS
<1>6. \A i \in 1..L : s[i] \in Seq(Piece)
  <2> SUFFICES ASSUME NEW i \in 1..L PROVE s[i] \in Seq(Piece)
    OBVIOUS
  <2>1. parts[i] \in S
    BY <1>4, ElementOfSeq
  <2>2. parts[i] \in Suffix /\ file[h][parts[i]] # None
    BY <2>1 DEF Chunks, S
  <2> QED
    BY <2>2 DEF Invariant, FilesHold, Holds
<1>7. s \in Seq(Seq(Piece)) /\ Len(s) = L /\ L \in Nat /\ L # 0
  BY <1>1, <1>2, <1>4, <1>5, <1>6
<1>8. s # <<>>
  BY <1>7, EmptySeq
<1>9. PICK f \in [1..L -> Seq(Piece)] : Joins(f, s, L) /\ FlattenSeq(s) = f[L]
  <2>1. \E f \in [1..Len(s) -> Seq(Piece)] : Joins(f, s, Len(s)) /\ FlattenSeq(s) = f[Len(s)]
    BY ONLY <1>7, <1>8, FlattenGives
  <2> QED
    BY ONLY <1>7, <2>1
<1> PICK T : T = {m \in Nat : m \in 1..L => IF m < k THEN f[m] = SubSeq(Archive(n), 1, Cut(n, limit, m))
                                            ELSE IsPrefix(Archive(n), f[m])}
  OBVIOUS
<1>10. 0 \in T
  OBVIOUS
<1>11. ASSUME NEW m \in Nat, m \in T PROVE m + 1 \in T
  <2> SUFFICES ASSUME m + 1 \in 1..L
               PROVE  IF m + 1 < k THEN f[m + 1] = SubSeq(Archive(n), 1, Cut(n, limit, m + 1))
                      ELSE IsPrefix(Archive(n), f[m + 1])
    OBVIOUS
  <2>1. f[m + 1] = IF m = 0 THEN s[m + 1] ELSE f[m] \o s[m + 1]
    <3>1. (m + 1) - 1 = m /\ (m + 1 = 1 <=> m = 0)
      OBVIOUS
    <3>2. f[m + 1] = IF m + 1 = 1 THEN s[m + 1] ELSE f[(m + 1) - 1] \o s[m + 1]
      BY <1>9 DEF Joins
    <3> QED
      BY <3>1, <3>2
  <2>2. CASE m + 1 <= k
    <3>1. s[m + 1] = Chunk(n, limit, m + 1)
      BY <1>1, <1>5, <2>2
    <3>2. f[m + 1] = SubSeq(Archive(n), 1, Cut(n, limit, m + 1))
      <4>1. /\ SubSeq(Archive(n), 1, Cut(n, limit, m)) \o Chunk(n, limit, m + 1)
               = SubSeq(Archive(n), 1, Cut(n, limit, m + 1))
            /\ Chunk(n, limit, m + 1) \in Seq(Piece)
        <5>1. m + 1 \in Nat \ {0} /\ (m + 1) - 1 = m
          OBVIOUS
        <5> QED
          BY <5>1, ChunkFacts
      <4>2. CASE m = 0
        <5>1. SubSeq(Archive(n), 1, Cut(n, limit, m)) = <<>>
          <6>1. Cut(n, limit, m) = 0
            BY <4>2, CutFacts
          <6>2. SubSeq(Archive(n), 1, 0) = <<>>
            BY SubSeqEmpty
          <6> QED
            BY <6>1, <6>2
        <5> QED
          BY <2>1, <3>1, <4>1, <4>2, <5>1, ConcatEmptySeq
      <4>3. CASE m # 0
        <5>1. f[m] = SubSeq(Archive(n), 1, Cut(n, limit, m))
          <6>1. m \in 1..L /\ m < k
            BY <1>1, <1>7, <2>2, <4>3
          <6> QED
            BY <1>11, <6>1
        <5> QED
          BY <2>1, <3>1, <4>1, <4>3, <5>1
      <4> QED
        BY <4>2, <4>3
    <3>3. m + 1 = k => IsPrefix(Archive(n), f[m + 1])
      BY <1>1, <3>2, WholeIsPrefix
    <3> QED
      BY <1>1, <2>2, <3>2, <3>3
  <2>3. CASE ~(m + 1 <= k)
    <3>1. m # 0 /\ m \in 1..L /\ ~(m < k)
      BY <1>1, <1>2, <1>7, <2>3
    <3>2. IsPrefix(Archive(n), f[m]) /\ f[m] \in Seq(Piece) /\ s[m + 1] \in Seq(Piece)
      BY <1>6, <1>11, <3>1
    <3>3. IsPrefix(Archive(n), f[m + 1])
      BY <2>1, <3>1, <3>2, PrefixStays
    <3> QED
      BY <1>1, <2>3, <3>3
  <2> QED
    BY <1>1, <2>2, <2>3
<1>12. L \in T
  <2>1. Nat \subseteq T
    BY <1>10, <1>11, Inductive
  <2> QED
    BY <1>7, <2>1
<1>13. IsPrefix(Archive(n), f[L])
  BY <1>1, <1>4, <1>5, <1>7, <1>12
<1> QED
  BY <1>4, <1>9, <1>13 DEF S

LEMMA FreshIsWhole ==
  ASSUME Invariant, FreshInv
  PROVE  SavedIsWhole
<1> SUFFICES ASSUME NEW h \in Haul, NEW n, n = fresh[h], n # None
             PROVE  LET parts == Ascending(Chunks(file, h))
                        joined == FlattenSeq([i \in DOMAIN parts |-> file[h][parts[i]]])
                    IN  IF made[n].asked = 0 THEN file[h][0] = Archive(n)
                        ELSE /\ file[h][0] = None
                             /\ IsPrefix(Archive(n), joined)
                             /\ \A i \in DOMAIN parts :
                                  Range(file[h][parts[i]]) \cap Range(Archive(n)) # {}
                                    => Len(file[h][parts[i]]) <= made[n].asked
  BY DEF SavedIsWhole
<1>1. n \in Save /\ Left(h, n) /\ made[n].asked \in Nat
  <2>1. n \in Save
    BY DEF Invariant, SaveTypes
  <2>2. PiecesOf(h, n) /\ Left(h, n)
    BY <2>1 DEF FreshInv
  <2>3. made[n].asked \in Asked
    BY ONLY <2>2 DEF PiecesOf
  <2> QED
    BY <2>1, <2>2, <2>3, HaulsAssumption
<1>2. CASE made[n].asked = 0
  BY <1>1, <1>2 DEF Left
<1>3. CASE made[n].asked # 0
  <2>1. PICK limit \in 1..made[n].asked, k \in Suffix : AllChunked(h, n, limit, k)
    BY <1>1, <1>3 DEF Left
  <2>2. limit \in Nat /\ limit <= made[n].asked /\ k \in Nat
    BY <1>1, SuffixFinite
  <2> PICK parts : parts = Ascending(Chunks(file, h))
    OBVIOUS
  <2>3. IsPrefix(Archive(n), FlattenSeq([i \in DOMAIN parts |-> file[h][parts[i]]]))
    BY <1>1, <2>1, <2>2, ChunksJoin
  <2>4. ASSUME NEW i \in DOMAIN parts, Range(file[h][parts[i]]) \cap Range(Archive(n)) # {}
        PROVE  Len(file[h][parts[i]]) <= made[n].asked
    <3> PICK j : j = parts[i]
      OBVIOUS
    <3>1. j \in Chunks(file, h)
      <4>1. IsFiniteSet(Chunks(file, h)) /\ Chunks(file, h) \subseteq Nat
        BY ChunksGive
      <4>2. parts \in Seq(Chunks(file, h)) /\ DOMAIN parts = 1..Len(parts)
        BY <4>1, AscendingGives
      <4> QED
        BY <4>2, ElementOfSeq
    <3>2. j \in Suffix /\ j \in Nat \ {0} /\ file[h][j] # None /\ file[h][j] \in Seq(Piece)
      BY <3>1, SuffixFinite DEF Chunks, Invariant, FilesHold, Holds
    <3>3. CASE j <= k
      <4>1. file[h][j] = Chunk(n, limit, j)
        BY <2>1, <2>2, <3>2, <3>3 DEF AllChunked, Chunked
      <4>2. Len(Chunk(n, limit, j)) <= limit /\ Len(Chunk(n, limit, j)) \in Nat
        BY <1>1, <2>2, <3>2, ChunkFacts, LenProperties
      <4> QED
        BY <1>1, <2>2, <4>1, <4>2
    <3>4. CASE ~(j <= k)
      <4>1. \A p \in 1..Len(file[h][j]) : file[h][j][p].save # n
        BY <2>1, <2>2, <3>2, <3>4 DEF AllChunked, Chunked, Without
      <4>2. DOMAIN file[h][j] = 1..Len(file[h][j]) /\ DOMAIN Archive(n) = 1..Size[n]
        BY <1>1, <3>2, LenProperties DEF Archive
      <4>3. \A p \in 1..Size[n] : Archive(n)[p].save = n
        BY <1>1, ArchiveTypes
      <4> QED
        BY <2>4, <4>1, <4>2, <4>3 DEF Range
    <3> QED
      BY <3>3, <3>4
  <2> QED
    BY <1>1, <1>3, <2>3, <2>4 DEF Left
<1> QED
  BY <1>2, <1>3
-----------------------------------------------------------------------------
(* The steps of a save keep what is saved                                  *)

LEMMA ParseFacts ==
  ASSUME NEW asked \in Nat, ParseChunkSize(asked) > 0
  PROVE  ParseChunkSize(asked) \in 1..asked
<1>1. Word \in Nat \ {0}
  BY HaulsAssumption
<1> PICK m : m = asked % Word
  OBVIOUS
<1>2. m \in Nat /\ m <= asked /\ m < Word
  BY <1>1
<1> QED
  BY <1>1, <1>2 DEF ParseChunkSize

(* What is known of a haul whose files stay.                               *)
LEMMA LeftStays ==
  ASSUME NEW h, NEW n, file'[h] = file[h], made'[n] = made[n]
  PROVE  /\ Left(h, n) => Left(h, n)'
         /\ \A limit, k : AllChunked(h, n, limit, k)' <=> AllChunked(h, n, limit, k)
BY DEF Left, AllChunked, Chunked, Cut, Chunk, Archive, Without

LEMMA SaveStepKept ==
  ASSUME Invariant, KeptInv, LoadUnchanged, SplitInv',
         \A m \in 1..saves : made'[m] = made[m],
         \A m : Returned(m) => Returned(m)',
         \A h \in Haul : \A n \in Save : fresh'[h] = n =>
           \/ fresh[h] = n /\ file'[h] = file[h]
           \/ sv.pc # "idle" /\ saves = n /\ Returned(n)' /\ PiecesOf(h, n)' /\ Left(h, n)'
  PROVE  KeptInv'
<1>1. ASSUME NEW h \in Haul, NEW n \in Save, fresh'[h] = n
      PROVE  Returned(n)' /\ PiecesOf(h, n)' /\ Left(h, n)'
  <2>1. CASE fresh[h] = n /\ file'[h] = file[h]
    <3>1. Returned(n) /\ PiecesOf(h, n) /\ Left(h, n) /\ made'[n] = made[n]
      BY <2>1 DEF KeptInv, FreshInv, Returned
    <3>2. Returned(n)' /\ PiecesOf(h, n)'
      BY <3>1 DEF PiecesOf, Returned
    <3>3. Left(h, n)'
      BY <2>1, <3>1, LeftStays
    <3> QED
      BY <3>2, <3>3
  <2> QED
    BY <1>1, <2>1
<1>2. FreshInv'
  BY <1>1 DEF FreshInv
<1>3. LatestInv'
  <2> SUFFICES ASSUME ld.pc \in HasItem, NEW h \in Haul, NEW n \in Save, ld.item.haul = h, ld.expect = n
               PROVE  Returned(n)' /\ (fresh'[h] = n => OnItsWay(h, n)')
    BY DEF LatestInv, LoadUnchanged
  <2>1. Returned(n) /\ Returned(n)' /\ (fresh[h] = n => OnItsWay(h, n))
    BY DEF KeptInv, LatestInv
  <2>2. ASSUME fresh'[h] = n PROVE OnItsWay(h, n)'
    <3>1. fresh[h] = n /\ file'[h] = file[h]
      BY <2>1, <2>2 DEF Returned
    <3>2. OnItsWay(h, n) /\ made'[n] = made[n]
      BY <2>1, <3>1 DEF Returned
    <3>3. /\ \A limit, k : AllChunked(h, n, limit, k)' <=> AllChunked(h, n, limit, k)
          /\ \A limit, k, d : JoinedUpTo(h, n, limit, k, d) => JoinedUpTo(h, n, limit, k, d)'
      BY <3>1, <3>2, LeftStays DEF JoinedUpTo, Later, Chunks, LoadUnchanged, Cut, Archive
    <3> QED
      BY <3>2, <3>3 DEF OnItsWay, InLine, Position, LoadUnchanged, Staged, IsChunk, Archive
  <2> QED
    BY <2>1, <2>2
<1> QED
  BY <1>2, <1>3 DEF KeptInv

LEMMA NoneIsNoSave == None \notin Save
BY HaulsAssumption

LEMMA SaveStartKept ==
  ASSUME Invariant, KeptInv, NEW h \in Haul, NEW asked \in Asked, SaveStart(h, asked)
  PROVE  KeptInv'
<1>1. /\ sv.pc = "idle" /\ saves \in 0..MaxSaves /\ saves < MaxSaves /\ saves' = saves + 1 /\ MaxSaves \in Nat
      /\ made' = [made EXCEPT ![saves + 1] = [haul |-> h, asked |-> asked]]
      /\ sv' = [NoSave EXCEPT !.pc = "write", !.haul = h]
      /\ file' = [file EXCEPT ![h][0] = None]
      /\ fresh' = [fresh EXCEPT ![h] = None]
      /\ LoadUnchanged
  BY HaulsAssumption DEF SaveStart, Invariant, SaveTypes
<1>2. /\ \A m \in 1..saves : m \in Save /\ m # saves + 1 /\ made'[m] = made[m]
      /\ \A g \in Haul : fresh'[g] = (IF g = h THEN None ELSE fresh[g]) /\ (g # h => file'[g] = file[g])
      /\ \A i \in Suffix : file'[h][i] = IF i = 0 THEN None ELSE file[h][i]
  BY <1>1 DEF Invariant, SaveTypes, Save
<1>3. \A m : Returned(m) => Returned(m)'
  BY <1>1 DEF Returned
<1>4. sv'.pc = "write" /\ sv'.haul = h /\ sv'.done = 0 /\ sv'.limit = 0
  BY <1>1 DEF NoSave
<1>5. \A i \in Suffix : i > 0 => Without(file'[h][i], saves')
  <2>1. ASSUME NEW i \in Suffix, i > 0 PROVE Without(file'[h][i], saves')
    <3>1. file'[h][i] = file[h][i]
      BY <1>2, <2>1
    <3>2. file[h][i] # None => \A j \in 1..Len(file[h][i]) : file[h][i][j].save \in 1..saves
      BY DEF Invariant, FilesHold, Holds, PiecesOf
    <3> QED
      BY <1>1, <3>1, <3>2 DEF Without
  <2> QED
    BY <2>1
<1>6. SplitInv'
  BY <1>2, <1>4, <1>5 DEF SplitInv, Chunked, Without
<1>7. ASSUME NEW g \in Haul, NEW n \in Save, fresh'[g] = n
      PROVE  fresh[g] = n /\ file'[g] = file[g]
  BY <1>2, <1>7, NoneIsNoSave
<1> QED
  BY <1>1, <1>2, <1>3, <1>6, <1>7, SaveStepKept

(* The save that is running.                                               *)
LEMMA SavingIsNotFresh ==
  ASSUME Invariant, KeptInv, sv.pc # "idle"
  PROVE  /\ sv.haul \in Haul /\ saves \in Save /\ saves \in Nat /\ PiecesOf(sv.haul, saves) /\ fresh[sv.haul] = None
         /\ Chunked(sv.haul, saves, sv.limit, sv.done)
         /\ sv.limit \in Int /\ sv.done \in Nat /\ made[saves].asked \in Nat
         /\ Size[saves] \in Nat \ {0}
<1>1. sv \in Saving /\ sv.haul \in Haul /\ saves \in Save /\ PiecesOf(sv.haul, saves)
  BY SavingTypes
<1>2. sv.limit \in Int /\ sv.done \in Nat
  BY <1>1 DEF Saving
<1>3. made[saves].asked \in Nat
  BY <1>1, HaulsAssumption DEF PiecesOf
<1>4. saves \in Nat /\ Size[saves] \in Nat \ {0}
  BY <1>1, ArchiveTypes
<1> QED
  BY <1>1, <1>2, <1>3, <1>4 DEF KeptInv, SplitInv

(* A step that goes on with a save and changes nothing but one of its files.*)
LEMMA SaveGoesOn ==
  ASSUME Invariant, KeptInv, LoadUnchanged, UNCHANGED <<saves, made>>, sv.pc # "idle",
         NEW i, NEW c, file' = [file EXCEPT ![sv.haul][i] = c],
         \/ fresh' = fresh /\ SplitInv'
         \/ sv' = NoSave /\ fresh' = fresh
         \/ /\ sv' = NoSave /\ fresh' = [fresh EXCEPT ![sv.haul] = saves]
            /\ \A h, n : h = sv.haul /\ n = saves => Left(h, n)'
  PROVE  KeptInv'
<1>1. sv.haul \in Haul /\ saves \in Nat /\ PiecesOf(sv.haul, saves) /\ fresh[sv.haul] = None
  BY SavingIsNotFresh
<1>2. \A g \in Haul : g # sv.haul => file'[g] = file[g]
  BY DEF Invariant, SaveTypes
<1>3. \A m : Returned(m) => Returned(m)'
  BY DEF Returned
<1>4. sv' = NoSave => SplitInv'
  BY DEF SplitInv, NoSave
<1>5. fresh \in [Haul -> Save \cup {None}]
  BY DEF Invariant, SaveTypes
<1>6. CASE fresh' = fresh
  <2>1. \A g \in Haul : \A n \in Save : fresh'[g] = n => fresh[g] = n /\ file'[g] = file[g]
    BY <1>1, <1>2, <1>6, NoneIsNoSave
  <2>2. SplitInv'
    BY <1>4
  <2> QED
    BY <1>3, <2>1, <2>2, SaveStepKept
<1>7. CASE /\ sv' = NoSave /\ fresh' = [fresh EXCEPT ![sv.haul] = saves]
           /\ \A h, n : h = sv.haul /\ n = saves => Left(h, n)'
  <2>1. \A g \in Haul : g # sv.haul => fresh'[g] = fresh[g]
    BY <1>5, <1>7
  <2>2. fresh'[sv.haul] = saves
    BY <1>1, <1>5, <1>7
  <2>3. ASSUME NEW g \in Haul, NEW n \in Save, fresh'[g] = n
        PROVE  \/ fresh[g] = n /\ file'[g] = file[g]
               \/ sv.pc # "idle" /\ saves = n /\ Returned(n)' /\ PiecesOf(g, n)' /\ Left(g, n)'
    <3>1. CASE g = sv.haul
      <4>1. saves = n
        BY <2>2, <2>3, <3>1
      <4>2. Returned(n)' /\ PiecesOf(g, n)'
        BY <1>1, <1>7, <3>1, <4>1 DEF Returned, PiecesOf, NoSave
      <4>3. Left(g, n)'
        BY <1>7, <3>1, <4>1
      <4> QED
        BY <4>1, <4>2, <4>3
    <3>2. CASE g # sv.haul
      BY <1>2, <2>1, <2>3, <3>2
    <3> QED
      BY <3>1, <3>2
  <2> QED
    BY <1>3, <1>4, <1>7, <2>3, SaveStepKept
<1> QED
  BY <1>6, <1>7

LEMMA WriteArchiveKept ==
  ASSUME Invariant, KeptInv, WriteArchive
  PROVE  KeptInv'
<1> DEFINE had == IF file[sv.haul][0] = None THEN <<>> ELSE file[sv.haul][0]
           now == SubSeq(Archive(saves), 1, Len(had) + 1)
           limit == ParseChunkSize(made[saves].asked)
<1>1. /\ sv.pc = "write" /\ LoadUnchanged /\ UNCHANGED <<saves, made>>
      /\ file' = [file EXCEPT ![sv.haul][0] = now]
      /\ IF now # Archive(saves) THEN UNCHANGED <<sv, fresh>>
         ELSE IF made[saves].asked = 0 THEN SaveReturns(TRUE)
         ELSE IF limit <= 0 THEN SaveReturns(FALSE)
         ELSE sv' = [sv EXCEPT !.pc = "split", !.limit = limit] /\ UNCHANGED fresh
  BY DEF WriteArchive
<1> PICK c : c = now
  OBVIOUS
<1> HIDE DEF had, now, limit
<1>2. /\ sv.haul \in Haul /\ saves \in Save /\ PiecesOf(sv.haul, saves) /\ fresh[sv.haul] = None
      /\ Chunked(sv.haul, saves, sv.limit, sv.done) /\ sv.done = 0 /\ Size[saves] \in Nat \ {0}
      /\ made[saves].asked \in Nat
  BY <1>1, SavingIsNotFresh DEF KeptInv, SplitInv
<1>3. file' = [file EXCEPT ![sv.haul][0] = c]
  BY <1>1
<1>4. \A h, n : h = sv.haul /\ n = saves =>
        (\A i \in Suffix : i > 0 => file'[h][i] = file[h][i] /\ Without(file[h][i], n)) /\ file'[h][0] = c
  <2>1. file[sv.haul] \in [Suffix -> {None} \cup Seq(Piece)] /\ file' [sv.haul] = [file[sv.haul] EXCEPT ![0] = c]
    BY <1>2, <1>3 DEF Invariant, SaveTypes
  <2> QED
    BY <1>2, <2>1, SuffixFinite DEF Chunked
<1>5. CASE UNCHANGED <<sv, fresh>>
  <2>1. SplitInv'
    BY <1>1, <1>2, <1>4, <1>5 DEF SplitInv, Chunked, Without, KeptInv
  <2> QED
    BY <1>1, <1>3, <1>5, <2>1, SaveGoesOn
<1>6. CASE c = Archive(saves) /\ made[saves].asked = 0 /\ SaveReturns(TRUE)
  <2>1. \A h, n : h = sv.haul /\ n = saves => Left(h, n)'
    BY <1>1, <1>4, <1>6 DEF Left, Archive
  <2> QED
    BY <1>1, <1>3, <1>6, <2>1, SaveGoesOn DEF SaveReturns
<1>7. CASE SaveReturns(FALSE)
  BY <1>1, <1>3, <1>7, SaveGoesOn DEF SaveReturns
<1>8. CASE ~(limit <= 0) /\ sv' = [sv EXCEPT !.pc = "split", !.limit = limit] /\ UNCHANGED fresh
  <2>1. limit \in 1..made[saves].asked
    <3>1. limit \in Int
      BY <1>2, HaulsAssumption DEF limit, ParseChunkSize
    <3> QED
      BY <1>2, <1>8, <3>1, ParseFacts DEF limit
  <2>2. sv'.pc = "split" /\ sv'.haul = sv.haul /\ sv'.limit = limit /\ sv'.done = 0
    BY <1>1, <1>2, <1>8, SavingTypes DEF Saving
  <2>3. limit \in Nat /\ 0 * limit < Size[saves]
    BY <1>2, <2>1
  <2>4. SplitInv'
    BY <1>1, <1>2, <1>4, <1>8, <2>1, <2>2, <2>3 DEF SplitInv, Chunked, Without
  <2> QED
    BY <1>1, <1>3, <1>8, <2>4, SaveGoesOn
<1> QED
  BY <1>1, <1>5, <1>6, <1>7, <1>8

LEMMA NextChunkKept ==
  ASSUME Invariant, KeptInv, NextChunk
  PROVE  KeptInv'
<1> DEFINE from == sv.done * sv.limit
           upto == IF from + sv.limit < Size[saves] THEN from + sv.limit ELSE Size[saves]
<1>1. /\ sv.pc = "split" /\ LoadUnchanged /\ UNCHANGED <<saves, made, fresh>>
      /\ file' = [file EXCEPT ![sv.haul][sv.done + 1] = SubSeq(Archive(saves), from + 1, upto)]
      /\ sv' = [sv EXCEPT !.done = @ + 1, !.pc = IF upto = Size[saves] THEN "drop" ELSE "split"]
  BY DEF NextChunk
<1>2. /\ sv.haul \in Haul /\ saves \in Save /\ fresh[sv.haul] = None
      /\ Chunked(sv.haul, saves, sv.limit, sv.done) /\ Size[saves] \in Nat \ {0}
      /\ sv.done \in Nat /\ sv.limit \in 1..made[saves].asked /\ sv.limit \in Nat \ {0}
      /\ from < Size[saves]
  BY <1>1, SavingIsNotFresh DEF KeptInv, SplitInv
<1> PICK h, n, k, limit : h = sv.haul /\ n = saves /\ k = sv.done /\ limit = sv.limit
  OBVIOUS
<1>3. /\ from = Cut(n, limit, k) /\ upto = Cut(n, limit, k + 1)
      /\ (k + 1) * limit = from + limit /\ from \in Nat
  <2>1. (k + 1) * limit = k * limit + limit /\ k * limit \in Nat
    BY <1>2
  <2> QED
    BY <1>2, <2>1 DEF Cut
<1>4. k + 1 \in Suffix
  <2>1. k <= k * limit
    BY <1>2
  <2>2. k + 1 \in 0..Size[n]
    BY <1>2, <2>1
  <2> QED
    BY <1>2, <2>2 DEF Suffix
<1>5. upto # Size[n] => (k + 1) * limit < Size[n]
  BY <1>2, <1>3
<1> HIDE DEF from, upto
<1> PICK c : c = Chunk(n, limit, k + 1)
  OBVIOUS
<1>6. c = SubSeq(Archive(n), from + 1, upto)
  <2>1. (k + 1) - 1 = k
    BY <1>2
  <2> QED
    BY <1>3, <2>1 DEF Chunk
<1>7. file' = [file EXCEPT ![h][k + 1] = c]
  BY <1>1, <1>6
<1>8. /\ sv'.haul = h /\ sv'.limit = limit /\ sv'.done = k + 1
      /\ sv'.pc = IF upto = Size[n] THEN "drop" ELSE "split"
  BY <1>1, <1>2, SavingTypes DEF Saving
<1>9. \A i \in Suffix : file'[h][i] = IF i = k + 1 THEN c ELSE file[h][i]
  <2>1. file[h] \in [Suffix -> {None} \cup Seq(Piece)] /\ file'[h] = [file[h] EXCEPT ![k + 1] = c]
    BY <1>2, <1>7 DEF Invariant, SaveTypes
  <2> QED
    BY <2>1
<1>10. /\ \A i \in 1..k + 1 : i \in Suffix /\ file'[h][i] = Chunk(n, limit, i)
       /\ \A i \in Suffix : i > k + 1 => Without(file'[h][i], n)
  <2>1. \A i \in 1..k + 1 : i = k + 1 \/ (i \in 1..k /\ i # k + 1)
    <3>1. k \in Nat
      BY <1>2
    <3> QED
      BY <3>1
  <2>2. \A i \in Suffix : i > k + 1 => i > k /\ i # k + 1
    <3>1. k \in Nat /\ Suffix \subseteq Nat
      BY <1>2, SuffixFinite
    <3> QED
      BY <3>1
  <2> QED
    BY <1>2, <1>4, <1>9, <2>1, <2>2 DEF Chunked
<1>11. Chunked(h, n, limit, k + 1)'
  BY <1>10 DEF Chunked, Chunk, Cut, Archive, Without
<1>12. Cut(n, limit, k + 1)' = upto
  BY <1>3 DEF Cut
<1>13. SplitInv'
  <2>1. sv'.pc = "split" => (k + 1) * limit < Size[n]
    BY <1>5, <1>8
  <2>2. sv'.pc = "drop" => Cut(n, limit, k + 1)' = Size[n]
    BY <1>8, <1>12
  <2>3. sv'.pc # "write" /\ fresh'[h] = None /\ made'[n] = made[n] /\ saves' = n
    BY <1>1, <1>2, <1>8
  <2>4. Chunked(sv.haul, saves, sv.limit, sv.done)'
    BY <1>8, <1>11, <2>3 DEF Chunked, Chunk, Cut, Archive, Without
  <2>5. sv'.pc = "drop" => Cut(saves, sv.limit, sv.done)' = Size[saves']
    BY <1>8, <2>2, <2>3 DEF Cut
  <2>6. /\ sv'.done * sv'.limit = (k + 1) * limit /\ Size[saves'] = Size[n]
        /\ sv'.limit \in 1..made'[saves'].asked /\ fresh'[sv'.haul] = None
    BY <1>2, <1>8, <2>3
  <2> QED
    BY <2>1, <2>3, <2>4, <2>5, <2>6 DEF SplitInv
<1>14. PICK j : j = k + 1
  OBVIOUS
<1>15. file' = [file EXCEPT ![sv.haul][j] = c]
  BY <1>7, <1>14
<1>16. LoadUnchanged /\ UNCHANGED <<saves, made>> /\ fresh' = fresh /\ sv.pc # "idle"
  BY <1>1
<1> QED
  BY <1>13, <1>15, <1>16, SaveGoesOn

LEMMA DropOriginalKept ==
  ASSUME Invariant, KeptInv, DropOriginal
  PROVE  KeptInv'
<1>1. /\ sv.pc = "drop" /\ LoadUnchanged /\ UNCHANGED <<saves, made>>
      /\ file' = [file EXCEPT ![sv.haul][0] = None]
      /\ sv' = NoSave /\ fresh' = [fresh EXCEPT ![sv.haul] = saves]
  BY DEF DropOriginal, SaveReturns
<1>2. /\ sv.haul \in Haul /\ saves \in Save
      /\ Chunked(sv.haul, saves, sv.limit, sv.done) /\ Size[saves] \in Nat \ {0}
      /\ sv.done \in Nat /\ sv.limit \in 1..made[saves].asked /\ made[saves].asked \in Nat
      /\ Cut(saves, sv.limit, sv.done) = Size[saves]
  BY <1>1, SavingIsNotFresh DEF KeptInv, SplitInv
<1> PICK h, n, k, limit : h = sv.haul /\ n = saves /\ k = sv.done /\ limit = sv.limit
  OBVIOUS
<1>3. file'[h][0] = None /\ \A i \in Suffix : i # 0 => file'[h][i] = file[h][i]
  <2>1. file[h] \in [Suffix -> {None} \cup Seq(Piece)] /\ file'[h] = [file[h] EXCEPT ![0] = None]
    BY <1>1, <1>2 DEF Invariant, SaveTypes
  <2> QED
    BY <2>1, SuffixFinite
<1>4. k \in Suffix
  <2>1. k # 0
    <3>1. limit \in Nat /\ n \in Save /\ 0 \in Nat
      BY <1>2
    <3>2. Cut(n, limit, 0) = 0
      BY <3>1, CutFacts
    <3> QED
      BY <1>2, <3>2
  <2> QED
    BY <1>2, <2>1 DEF Chunked
<1>5. AllChunked(h, n, limit, k)'
  <2>1. /\ \A i \in 1..k : i # 0 /\ i \in Suffix /\ file[h][i] = Chunk(n, limit, i)
        /\ \A i \in Suffix : i > k => i # 0 /\ Without(file[h][i], n)
    <3>1. k \in Nat /\ Chunked(h, n, limit, k)
      BY <1>2
    <3> QED
      BY <3>1, SuffixFinite DEF Chunked
  <2>2. /\ \A i \in 1..k : i \in Suffix /\ file'[h][i] = Chunk(n, limit, i)
        /\ \A i \in Suffix : i > k => Without(file'[h][i], n)
    BY <1>3, <2>1
  <2>3. Chunked(h, n, limit, k)'
    BY <2>2 DEF Chunked, Chunk, Cut, Archive, Without
  <2>4. Cut(n, limit, k)' = Size[n]
    BY <1>2 DEF Cut
  <2> QED
    BY <2>3, <2>4 DEF AllChunked
<1>6. Left(h, n)'
  BY <1>1, <1>2, <1>3, <1>4, <1>5 DEF Left
<1>7. sv.pc # "idle"
  BY <1>1
<1> QED
  BY <1>1, <1>6, <1>7, SaveGoesOn

LEMMA SaveFailsKept ==
  ASSUME Invariant, KeptInv, SaveFails
  PROVE  KeptInv'
<1>1. /\ sv.pc # "idle" /\ LoadUnchanged /\ UNCHANGED <<saves, made>> /\ sv' = NoSave /\ fresh' = fresh
  BY DEF SaveFails, SaveReturns
<1>2. sv.haul \in Haul /\ fresh[sv.haul] = None
  BY <1>1, SavingIsNotFresh
<1>3. CASE UNCHANGED file
  <2>1. SplitInv' /\ \A m : Returned(m) => Returned(m)'
    BY <1>1 DEF SplitInv, NoSave, Returned
  <2> QED
    BY <1>1, <1>3, <2>1, SaveStepKept
<1>4. CASE file' = [file EXCEPT ![sv.haul][sv.done + 1] = <<>>]
  BY <1>1, <1>4, SaveGoesOn
<1> QED
  BY <1>3, <1>4 DEF SaveFails

LEMMA LoseFileKept ==
  ASSUME Invariant, KeptInv, NEW h \in Haul, NEW i \in Suffix, LoseFile(h, i)
  PROVE  KeptInv'
<1>1. /\ LoadUnchanged /\ UNCHANGED <<saves, made, sv>> /\ sv.haul # h
      /\ file' = [file EXCEPT ![h][i] = None] /\ fresh' = [fresh EXCEPT ![h] = None]
  BY DEF LoseFile
<1>2. \A g \in Haul : fresh'[g] = (IF g = h THEN None ELSE fresh[g]) /\ (g # h => file'[g] = file[g])
  BY <1>1 DEF Invariant, SaveTypes
<1>3. ASSUME NEW g \in Haul, NEW n \in Save, fresh'[g] = n
      PROVE  fresh[g] = n /\ file'[g] = file[g]
  BY <1>2, <1>3, NoneIsNoSave
<1>4. SplitInv'
  <2>1. sv.pc # "idle" => sv.haul \in Haul /\ fresh'[sv.haul] = fresh[sv.haul] /\ file'[sv.haul] = file[sv.haul]
    BY <1>1, <1>2, SavingIsNotFresh
  <2>2. CASE sv.pc = "idle"
    BY <1>1, <2>2 DEF SplitInv
  <2>3. CASE sv.pc # "idle"
    <3>1. Chunked(sv.haul, saves, sv.limit, sv.done)' <=> Chunked(sv.haul, saves, sv.limit, sv.done)
      BY <1>1, <2>1, <2>3 DEF Chunked, Chunk, Cut, Archive, Without
    <3>2. Cut(saves, sv.limit, sv.done)' = Cut(saves, sv.limit, sv.done)
      BY <1>1 DEF Cut
    <3> QED
      BY <1>1, <2>1, <2>3, <3>1, <3>2 DEF KeptInv, SplitInv
  <2> QED
    BY <2>2, <2>3
<1>5. \A m : Returned(m) => Returned(m)'
  BY <1>1 DEF Returned
<1> QED
  BY <1>1, <1>3, <1>4, <1>5, SaveStepKept
-----------------------------------------------------------------------------
(* The steps of a load keep what is saved, and what it opened.             *)

LEMMA LoadStepKept ==
  ASSUME Invariant, KeptInv, SaveUnchanged, LatestInv'
  PROVE  KeptInv'
<1>1. SplitInv'
  <2>1. /\ Chunked(sv.haul, saves, sv.limit, sv.done)' <=> Chunked(sv.haul, saves, sv.limit, sv.done)
        /\ Cut(saves, sv.limit, sv.done)' = Cut(saves, sv.limit, sv.done)
    BY DEF SaveUnchanged, Chunked, Chunk, Cut, Archive, Without
  <2> QED
    BY <2>1 DEF SaveUnchanged, KeptInv, SplitInv
<1>2. FreshInv'
  <2> SUFFICES ASSUME NEW h \in Haul, NEW n \in Save, fresh[h] = n
               PROVE  Returned(n)' /\ PiecesOf(h, n)' /\ Left(h, n)'
    BY DEF FreshInv, SaveUnchanged
  <2>1. Returned(n) /\ PiecesOf(h, n) /\ Left(h, n) /\ file'[h] = file[h] /\ made'[n] = made[n]
    BY DEF KeptInv, FreshInv, SaveUnchanged
  <2>2. Left(h, n)'
    BY <2>1, LeftStays
  <2> QED
    BY <2>1, <2>2 DEF Returned, PiecesOf, SaveUnchanged
<1> QED
  BY <1>1, <1>2 DEF KeptInv

(* One that has no haul open when it is done.                              *)
LEMMA NothingOpenKept ==
  ASSUME Invariant, KeptInv, SaveUnchanged, ld'.pc \notin HasItem
  PROVE  KeptInv'
BY LoadStepKept DEF LatestInv

LEMMA LoadStartKept ==
  ASSUME Invariant, KeptInv, NEW list \in Arguments, NEW ignore \in BOOLEAN, LoadStart(list, ignore)
  PROVE  KeptInv'
BY NothingOpenKept DEF LoadStart, NoLoad, HasItem

LEMMA StagingKept ==
  ASSUME Invariant, KeptInv, StageArgument \/ StageEnds
  PROVE  KeptInv'
<1>1. ld.pc = "stage" /\ SaveUnchanged
  BY DEF StageArgument, StageEnds
<1>2. ld'.pc \in {"stage", "open"}
  BY <1>1, LoadFacts DEF StageArgument, StageEnds, Loading
<1> QED
  BY <1>1, <1>2, NothingOpenKept DEF HasItem

LEMMA ClosingKept ==
  ASSUME Invariant, KeptInv, PassOver \/ MergeLog \/ ClearDir
  PROVE  KeptInv'
<1>1. SaveUnchanged
  BY DEF PassOver, MergeLog, ClearDir
<1>2. ld'.pc \in {"clear", "open"}
  BY LoadFacts DEF PassOver, MergeLog, ClearDir, Loading
<1> QED
  BY <1>1, <1>2, NothingOpenKept DEF HasItem

LEMMA LoadReturnsKept ==
  ASSUME Invariant, KeptInv, LoadEnds \/ LoadStops
  PROVE  KeptInv'
<1>1. PICK last : LoadReturns(last) /\ last.pc \in {"idle", "done"}
  <2>1. NoLoad.pc = "idle" /\ [NoLoad EXCEPT !.pc = "done", !.want = ld.want, !.got = ld.got,
                                             !.skipped = ld.skipped].pc = "done"
    BY DEF NoLoad
  <2> QED
    BY <2>1 DEF LoadEnds, LoadStops
<1>2. SaveUnchanged /\ ld'.pc \in {"idle", "done"}
  BY <1>1 DEF LoadReturns
<1> QED
  BY <1>2, NothingOpenKept DEF HasItem

(* A whole archive that comes first of its siblings is opened first.       *)
LEMMA OpensWhole ==
  ASSUME NEW arg \in Argument, NEW parts, NEW bytes, Opened(arg, parts, bytes, file), arg.chunk = 0,
         NEW h \in Haul, h = arg.haul, NEW n \in Save, file[h][0] = Archive(n),
         \A g \in Siblings(h) : file[g][0] # None => Number[h] <= Number[g]
  PROVE  IF parts = {} THEN bytes = Archive(n)
         ELSE /\ bytes = <<>> /\ <<h, 0>> \in parts
              /\ \A p \in parts : p = <<h, 0>> \/ Number[h] < Position(p)
<1>1. Archive(n) # None
  BY ArchiveIsSeq, HaulsAssumption
<1>2. parts = Legacy(file, h) /\ bytes = IF parts = {} THEN Archive(n) ELSE <<>>
  BY <1>1 DEF Opened
<1>3. \A g \in Siblings(h) : g # h => Number[g] # Number[h]
  BY HaulsAssumption DEF Siblings
<1>4. ASSUME NEW p \in parts, p # <<h, 0>> PROVE Number[h] < Position(p)
  <2>1. PICK g \in Siblings(h) : p = <<g, 0>> /\ file[g][0] # None
    BY <1>2 DEF Legacy
  <2>2. g # h /\ g \in Haul /\ Number[g] \in Nat /\ Number[h] \in Nat
    BY <1>4, <2>1, HaulsAssumption DEF Siblings
  <2>3. Number[h] <= Number[g] /\ Number[g] # Number[h] /\ Position(p) = Number[g]
    BY <1>3, <2>1, <2>2 DEF Position
  <2> QED
    BY <2>2, <2>3
<1>5. parts # {} => <<h, 0>> \in parts
  <2> SUFFICES ASSUME NEW p \in parts PROVE h \in Siblings(h)
    BY <1>1, <1>2 DEF Legacy
  <2> QED
    BY <1>2 DEF Legacy, Siblings
<1> QED
  BY <1>2, <1>4, <1>5

(* Where there is none, its chunks are opened, if there are some.          *)
LEMMA OpensChunks ==
  ASSUME NEW arg, NEW parts, NEW bytes, Opened(arg, parts, bytes, file),
         file[arg.haul][0] = None, Chunks(file, arg.haul) # {}
  PROVE  parts = Later(arg.haul, 0) /\ parts # {} /\ bytes = <<>>
<1>1. /\ Split(file, arg.haul) = {<<arg.haul, i>> : i \in Chunks(file, arg.haul)}
      /\ Split(file, arg.haul) # {}
  BY DEF Split
<1>2. parts = Split(file, arg.haul) /\ parts # {} /\ bytes = <<>>
  BY <1>1 DEF Opened
<1>3. {j \in Chunks(file, arg.haul) : j > 0} = Chunks(file, arg.haul)
  BY ChunksGive
<1> QED
  BY <1>1, <1>2, <1>3 DEF Later

LEMMA OpenHaulKept ==
  ASSUME Invariant, KeptInv, OpenHaul
  PROVE  KeptInv'
<1>1. /\ ld.pc = "open" /\ ld.todo # <<>> /\ SaveUnchanged /\ UNCHANGED <<stage, temp, dest, log>>
  BY DEF OpenHaul
<1>2. PICK arg, hinted, at, parts, bytes, expect :
           /\ arg = Head(ld.todo) /\ hinted \in BOOLEAN
           /\ Opened(arg, parts, bytes, IF Staged(arg) THEN stage ELSE file)
           /\ at = IF parts = {} THEN "unarchive" ELSE "join"
           /\ expect = Expected(arg)
           /\ ld' = [ld EXCEPT !.todo = Tail(ld.todo), !.item = arg, !.expect = expect, !.pc = at,
                               !.parts = parts, !.hinted = hinted, !.bytes = bytes]
  BY OpensAs
<1>3. arg \in Argument
  BY <1>1, <1>2, LoadFacts, ListedFacts
<1>4. /\ ld'.pc = at /\ ld'.item = arg /\ ld'.expect = expect /\ ld'.parts = parts /\ ld'.bytes = bytes
  BY <1>2, LoadFacts DEF Loading
<1>5. ASSUME NEW h \in Haul, NEW n \in Save, arg.haul = h, expect = n
      PROVE  Returned(n) /\ OnItsWay(h, n)'
  <2>1. /\ ~arg.remote /\ fresh[h] = n
        /\ file[h][0] # None => /\ arg.chunk = 0
                                /\ \A g \in Siblings(h) : file[g][0] # None => Number[h] <= Number[g]
    BY <1>2, <1>5, NoneIsNoSave DEF Expected
  <2>2. Returned(n) /\ PiecesOf(h, n) /\ Left(h, n)
    BY <2>1 DEF KeptInv, FreshInv
  <2>3. ~Staged(arg) /\ Opened(arg, parts, bytes, file)
    BY <1>2, <2>1 DEF Staged
  <2>4. /\ made[n].asked \in Nat /\ made'[n] = made[n] /\ file'[h] = file[h]
        /\ \A limit, k : AllChunked(h, n, limit, k)' <=> AllChunked(h, n, limit, k)
    <3>1. made'[n] = made[n] /\ file'[h] = file[h]
      BY <1>1 DEF SaveUnchanged
    <3> QED
      BY <2>2, <3>1, LeftStays, HaulsAssumption DEF PiecesOf
  <2>5. ~Staged(ld'.item)
    BY <1>4, <2>3
  <2>6. CASE made[n].asked = 0
    <3>1. file[h][0] = Archive(n) /\ Archive(n) # None
      BY <2>2, <2>6, ArchiveIsSeq, HaulsAssumption DEF Left
    <3>2. IF parts = {} THEN bytes = Archive(n)
          ELSE /\ bytes = <<>> /\ <<h, 0>> \in parts
               /\ \A p \in parts : p = <<h, 0>> \/ Number[h] < Position(p)
      BY <1>3, <1>5, <2>1, <2>3, <3>1, OpensWhole
    <3>3. CASE parts = {}
      <4>1. at = "unarchive" /\ IsPrefix(Archive(n), bytes)
        BY <1>2, <3>2, <3>3, WholeIsPrefix
      <4>2. IsPrefix(Archive(n), ld.bytes)'
        BY <1>4, <4>1 DEF Archive
      <4> QED
        BY <1>4, <2>2, <4>1, <4>2 DEF OnItsWay
    <3>4. CASE parts # {}
      <4>1. at = "join" /\ InLine(h, n)'
        BY <1>2, <1>4, <3>2, <3>4 DEF InLine, Position
      <4> QED
        BY <1>4, <2>2, <2>4, <2>5, <2>6, <4>1 DEF OnItsWay
    <3> QED
      BY <3>3, <3>4
  <2>7. CASE made[n].asked # 0
    <3>1. /\ file[h][0] = None
          /\ \E limit \in 1..made[n].asked : \E k \in Suffix : AllChunked(h, n, limit, k)
      BY <2>2, <2>7 DEF Left
    <3>2. ASSUME NEW limit \in 1..made[n].asked, NEW k \in Suffix, AllChunked(h, n, limit, k)
          PROVE  0 < k /\ <<>> = SubSeq(Archive(n), 1, Cut(n, limit, 0)) /\ Chunks(file, h) # {}
      <4>1. limit \in Nat /\ k \in Nat /\ 0 \in Nat
        BY <2>4, SuffixFinite
      <4>2. Cut(n, limit, 0) = 0 /\ Cut(n, limit, k) = Size[n] /\ Size[n] # 0
        BY <3>2, <4>1, CutFacts, ArchiveIsSeq DEF AllChunked
      <4>3. SubSeq(Archive(n), 1, Cut(n, limit, 0)) = <<>>
        <5>1. SubSeq(Archive(n), 1, 0) = <<>>
          BY SubSeqEmpty
        <5> QED
          BY <4>2, <5>1
      <4>4. k # 0
        BY <4>2
      <4>5. 1..k \subseteq Chunks(file, h) /\ 1 \in 1..k
        BY <3>2, <4>1, <4>4, ChunkedGives DEF AllChunked
      <4>6. 0 < k
        BY <4>1, <4>4
      <4>7. Chunks(file, h) # {}
        BY <4>5
      <4> QED
        BY <4>3, <4>6, <4>7
    <3>3. parts = Later(h, 0) /\ parts # {} /\ bytes = <<>>
      <4>1. PICK limit \in 1..made[n].asked, k \in Suffix : AllChunked(h, n, limit, k)
        BY <3>1
      <4>2. Chunks(file, h) # {}
        BY <3>2, <4>1
      <4>3. file[arg.haul][0] = None /\ Chunks(file, arg.haul) # {} /\ arg.haul = h
        BY <1>5, <3>1, <4>2
      <4>4. Opened(arg, parts, bytes, file)
        BY <2>3
      <4>5. parts = Later(arg.haul, 0) /\ parts # {} /\ bytes = <<>>
        BY ONLY <4>3, <4>4, OpensChunks
      <4> QED
        BY <4>3, <4>5
    <3>4. at = "join" /\ 0 \in Suffix
      BY <1>2, <3>3, SuffixFinite
    <3>5. ASSUME NEW limit \in 1..made[n].asked, NEW k \in Suffix, AllChunked(h, n, limit, k)
          PROVE  JoinedUpTo(h, n, limit, k, 0)'
      <4>1. 0 < k /\ bytes = SubSeq(Archive(n), 1, Cut(n, limit, 0))
        BY <3>2, <3>3, <3>5
      <4> QED
        BY <1>4, <2>4, <3>3, <4>1 DEF JoinedUpTo, Later, Chunks, Cut, Archive
    <3> QED
      BY <1>4, <2>2, <2>4, <2>5, <2>7, <3>4, <3>5 DEF OnItsWay
  <2> QED
    BY <2>2, <2>6, <2>7
<1>6. LatestInv'
  <2>1. ASSUME NEW h \in Haul, NEW n \in Save, ld'.item.haul = h, ld'.expect = n
        PROVE  Returned(n)' /\ OnItsWay(h, n)'
    BY <1>1, <1>4, <1>5, <2>1 DEF Returned, SaveUnchanged
  <2> QED
    BY <2>1 DEF LatestInv
<1> QED
  BY <1>1, <1>6, LoadStepKept

(* The next chunk of a haul joined to those before it.                     *)
LEMMA JoinedOneMore ==
  ASSUME NEW h \in Haul, NEW n \in Save, NEW limit \in Nat, NEW k \in Suffix, AllChunked(h, n, limit, k),
         NEW d \in Suffix, JoinedUpTo(h, n, limit, k, d), ld.bytes \in Seq(Piece),
         NEW p \in ld.parts, \A q \in ld.parts \ {p} : Position(p) < Position(q),
         file[h][p[2]] \in Seq(Piece)
  PROVE  \E i \in Suffix :
           /\ p = <<h, i>>
           /\ ld.parts \ {p} = Later(h, i)
           /\ i < k => ld.parts \ {p} # {}
           /\ IF i < k THEN ld.bytes \o file[h][i] = SubSeq(Archive(n), 1, Cut(n, limit, i))
              ELSE IsPrefix(Archive(n), ld.bytes \o file[h][i])
<1> DEFINE parts == {j \in Chunks(file, h) : j > d}
<1>1. /\ ld.parts = {<<h, j>> : j \in parts}
      /\ IF d < k THEN ld.bytes = SubSeq(Archive(n), 1, Cut(n, limit, d)) ELSE IsPrefix(Archive(n), ld.bytes)
  BY DEF JoinedUpTo, Later
<1>2. /\ Chunks(file, h) \subseteq Nat \ {0} /\ Chunks(file, h) \subseteq Suffix /\ d \in Nat /\ k \in Nat
  BY ChunksGive, SuffixFinite
<1>3. PICK i \in parts : p = <<h, i>>
  BY <1>1
<1>4. ASSUME NEW j \in parts, j # i PROVE i < j
  <2>1. <<h, j>> \in ld.parts \ {p}
    BY <1>1, <1>3, <1>4
  <2>2. Position(<<h, j>>) = j /\ Position(p) = i
    BY <1>2, <1>3 DEF Position
  <2> QED
    BY <2>1, <2>2
<1>5. i \in Chunks(file, h) /\ i > d /\ i \in Nat \ {0} /\ i \in Suffix /\ file[h][i] \in Seq(Piece)
  BY <1>2, <1>3
<1>6. parts \ {i} = {j \in Chunks(file, h) : j > i}
  BY <1>2, <1>5, <1>4
<1>7. ld.parts \ {p} = Later(h, i)
  <2>1. ld.parts \ {p} = {<<h, j>> : j \in parts \ {i}}
    BY <1>1, <1>3
  <2> QED
    BY <1>6, <2>1 DEF Later
<1>8. /\ 1..k \subseteq Chunks(file, h) /\ \A j \in 1..k : file[h][j] = Chunk(n, limit, j)
      /\ Cut(n, limit, k) = Size[n]
  BY ChunkedGives DEF AllChunked
<1>9. i < k => i + 1 \in parts \ {i}
  <2> SUFFICES ASSUME i < k PROVE i + 1 \in Chunks(file, h) /\ i + 1 > i
    BY <1>6
  <2> QED
    BY <1>2, <1>5, <1>8
<1>10. i < k => ld.parts \ {p} # {}
  <2> SUFFICES ASSUME i < k PROVE <<h, i + 1>> \in ld.parts /\ <<h, i + 1>> # p
    OBVIOUS
  <2> QED
    BY <1>1, <1>9, <1>3
<1> HIDE DEF parts
<1>11. CASE d < k
  <2>1. i = d + 1 /\ d = i - 1 /\ i \in 1..k
    <3>1. d + 1 \in 1..k /\ d + 1 > d
      BY <1>2, <1>11
    <3>2. d + 1 \in parts
      BY <1>8, <3>1 DEF parts
    <3>3. ~(i < d + 1)
      BY <1>2, <1>5
    <3>4. d + 1 = i \/ i < d + 1
      BY <1>4, <3>2
    <3> QED
      BY <1>2, <1>5, <3>1, <3>3, <3>4
  <2>2. ld.bytes = SubSeq(Archive(n), 1, Cut(n, limit, i - 1)) /\ file[h][i] = Chunk(n, limit, i)
    BY <1>1, <1>8, <1>11, <2>1
  <2>3. ld.bytes \o file[h][i] = SubSeq(Archive(n), 1, Cut(n, limit, i))
    BY <1>5, <2>2, ChunkFacts
  <2>4. ~(i < k) => i = k
    BY <1>2, <2>1
  <2>5. ~(i < k) => IsPrefix(Archive(n), ld.bytes \o file[h][i])
    BY <1>8, <2>3, <2>4, WholeIsPrefix
  <2> QED
    BY <1>5, <1>9, <1>3, <1>7, <1>10, <2>3, <2>5
<1>12. CASE ~(d < k)
  <2>1. ~(i < k)
    BY <1>2, <1>5, <1>12
  <2>2. IsPrefix(Archive(n), ld.bytes \o file[h][i])
    BY <1>1, <1>5, <1>12, PrefixStays
  <2> QED
    BY <1>5, <1>3, <1>7, <2>1, <2>2
<1> QED
  BY <1>11, <1>12

LEMMA JoinChunkKept ==
  ASSUME Invariant, KeptInv, JoinChunk
  PROVE  KeptInv'
<1>1. /\ ld.pc = "join" /\ SaveUnchanged /\ UNCHANGED <<stage, temp, dest, log>>
      /\ ld.bytes \in Seq(Piece)
  BY LoadFacts DEF JoinChunk
<1>2. PICK p \in ld.parts : \E chunk, rest, at :
           /\ chunk = (IF Staged(ld.item) THEN stage ELSE file)[p[1]][p[2]] /\ chunk # None
           /\ rest = ld.parts \ {p} /\ \A q \in rest : Position(p) < Position(q)
           /\ at = IF rest = {} THEN "unarchive" ELSE "join"
           /\ ld' = [ld EXCEPT !.bytes = ld.bytes \o chunk, !.parts = rest, !.pc = at]
  BY JoinsAs
<1>3. PICK chunk, rest, at :
           /\ chunk = (IF Staged(ld.item) THEN stage ELSE file)[p[1]][p[2]] /\ chunk # None
           /\ rest = ld.parts \ {p} /\ \A q \in rest : Position(p) < Position(q)
           /\ at = IF rest = {} THEN "unarchive" ELSE "join"
           /\ ld' = [ld EXCEPT !.bytes = ld.bytes \o chunk, !.parts = rest, !.pc = at]
  BY <1>2
<1>4. /\ ld'.pc = at /\ ld'.item = ld.item /\ ld'.expect = ld.expect /\ ld'.parts = rest
      /\ ld'.bytes = ld.bytes \o chunk /\ at \in {"unarchive", "join"}
      /\ p[1] \in Haul /\ p[2] \in Suffix
  BY <1>3, LoadFacts DEF Loading
<1>5. ASSUME NEW h \in Haul, NEW n \in Save, ld.item.haul = h, ld.expect = n, fresh[h] = n
      PROVE  OnItsWay(h, n)'
  <2>1. ~Staged(ld.item) /\ OnItsWay(h, n)
    BY <1>1, <1>5 DEF KeptInv, LatestInv, OnItsWay, HasItem
  <2>2. PiecesOf(h, n) /\ Left(h, n) /\ made[n].asked \in Nat
    BY <1>5, HaulsAssumption DEF KeptInv, FreshInv, PiecesOf
  <2>3. chunk = file[p[1]][p[2]] /\ chunk \in Seq(Piece)
    BY <1>3, <1>4, <2>1 DEF Invariant, FilesHold, Holds
  <2>4. /\ made'[n] = made[n] /\ file'[h] = file[h] /\ ~Staged(ld'.item)
        /\ \A limit, k : AllChunked(h, n, limit, k)' <=> AllChunked(h, n, limit, k)
    <3>1. made'[n] = made[n] /\ file'[h] = file[h]
      BY <1>1 DEF SaveUnchanged
    <3> QED
      BY <1>4, <2>1, <3>1, LeftStays
  <2>5. IsPrefix(Archive(n), ld.bytes \o chunk) => IsPrefix(Archive(n), ld.bytes)'
    BY <1>4 DEF Archive
  <2>6. CASE made[n].asked = 0
    <3>1. IsPrefix(Archive(n), ld.bytes \o chunk)
      <4>1. InLine(h, n) /\ file[h][0] = Archive(n)
        BY <1>1, <2>1, <2>2, <2>6 DEF OnItsWay, Left
      <4>2. CASE IsPrefix(Archive(n), ld.bytes)
        BY <1>1, <2>3, <4>2, PrefixStays
      <4>3. CASE /\ ld.bytes = <<>> /\ <<h, 0>> \in ld.parts
                 /\ \A q \in ld.parts : q = <<h, 0>> \/ Number[h] < Position(q)
        <5>1. p = <<h, 0>>
          <6> SUFFICES ASSUME p # <<h, 0>> PROVE FALSE
            OBVIOUS
          <6>1. Number[h] < Position(p) /\ Position(p) < Position(<<h, 0>>)
            BY <1>3, <4>3
          <6>2. Position(<<h, 0>>) = Number[h] /\ Number[h] \in Nat /\ Position(p) \in Nat
            BY <1>4, SuffixFinite, HaulsAssumption DEF Position
          <6> QED
            BY <6>1, <6>2
        <5>2. ld.bytes \o chunk = Archive(n)
          BY <2>3, <4>1, <4>3, <5>1, ConcatEmptySeq
        <5> QED
          BY <5>2, WholeIsPrefix
      <4> QED
        BY <4>1, <4>2, <4>3 DEF InLine
    <3> QED
      BY <1>4, <2>4, <2>5, <2>6, <3>1 DEF OnItsWay, InLine
  <2>7. CASE made[n].asked # 0
    <3>1. ASSUME NEW limit \in 1..made[n].asked, NEW k \in Suffix, AllChunked(h, n, limit, k)
          PROVE  \E i \in Suffix :
                   /\ rest = Later(h, i) /\ (i < k => rest # {})
                   /\ IF i < k THEN ld.bytes \o chunk = SubSeq(Archive(n), 1, Cut(n, limit, i))
                      ELSE IsPrefix(Archive(n), ld.bytes \o chunk)
      <4>1. limit \in Nat
        BY <2>2
      <4>2. PICK d \in Suffix : JoinedUpTo(h, n, limit, k, d)
        BY <1>1, <2>1, <2>7, <3>1 DEF OnItsWay
      <4>3. p[1] = h /\ file[h][p[2]] \in Seq(Piece)
        <5>1. p[1] = h
          BY <4>2 DEF JoinedUpTo, Later
        <5> QED
          BY <2>3, <5>1
      <4>4. p \in ld.parts /\ rest = ld.parts \ {p} /\ \A q \in ld.parts \ {p} : Position(p) < Position(q)
        BY <1>3
      <4>5. PICK i \in Suffix :
              /\ p = <<h, i>> /\ ld.parts \ {p} = Later(h, i) /\ (i < k => ld.parts \ {p} # {})
              /\ IF i < k THEN ld.bytes \o file[h][i] = SubSeq(Archive(n), 1, Cut(n, limit, i))
                 ELSE IsPrefix(Archive(n), ld.bytes \o file[h][i])
        <5>1. /\ h \in Haul /\ n \in Save /\ limit \in Nat /\ k \in Suffix /\ d \in Suffix
              /\ AllChunked(h, n, limit, k) /\ JoinedUpTo(h, n, limit, k, d) /\ ld.bytes \in Seq(Piece)
              /\ p \in ld.parts /\ (\A q \in ld.parts \ {p} : Position(p) < Position(q))
              /\ file[h][p[2]] \in Seq(Piece)
          BY <1>1, <3>1, <4>1, <4>2, <4>3, <4>4
        <5> QED
          BY ONLY <5>1, JoinedOneMore
      <4>6. chunk = file[h][i]
        BY <2>3, <4>5
      <4> QED
        BY <4>4, <4>5, <4>6
    <3>2. ASSUME NEW limit \in 1..made[n].asked, NEW k \in Suffix, AllChunked(h, n, limit, k)
          PROVE  \E i \in Suffix : JoinedUpTo(h, n, limit, k, i)'
      <4>1. PICK i \in Suffix : /\ rest = Later(h, i)
                                /\ IF i < k THEN ld.bytes \o chunk = SubSeq(Archive(n), 1, Cut(n, limit, i))
                                   ELSE IsPrefix(Archive(n), ld.bytes \o chunk)
        BY <3>1, <3>2
      <4>2. JoinedUpTo(h, n, limit, k, i)'
        BY <1>4, <2>4, <4>1 DEF JoinedUpTo, Later, Chunks, Cut, Archive
      <4> QED
        BY <4>2
    <3>3. at = "unarchive" => IsPrefix(Archive(n), ld.bytes \o chunk)
      <4> SUFFICES ASSUME rest = {} PROVE IsPrefix(Archive(n), ld.bytes \o chunk)
        BY <1>3
      <4>1. PICK limit \in 1..made[n].asked, k \in Suffix : AllChunked(h, n, limit, k)
        BY <2>2, <2>7 DEF Left
      <4> QED
        BY <3>1, <4>1
    <3> QED
      BY <1>4, <2>4, <2>5, <2>7, <3>2, <3>3 DEF OnItsWay
  <2> QED
    BY <2>6, <2>7
<1>6. LatestInv'
  <2>1. ASSUME NEW h \in Haul, NEW n \in Save, ld'.item.haul = h, ld'.expect = n
        PROVE  Returned(n)' /\ (fresh'[h] = n => OnItsWay(h, n)')
    <3>1. Returned(n)
      BY <1>1, <1>4, <2>1 DEF KeptInv, LatestInv, HasItem
    <3> QED
      BY <1>1, <1>4, <1>5, <2>1, <3>1 DEF Returned, SaveUnchanged
  <2> QED
    BY <2>1 DEF LatestInv
<1> QED
  BY <1>1, <1>6, LoadStepKept

LEMMA UnarchiveHaulKept ==
  ASSUME Invariant, KeptInv, UnarchiveHaul
  PROVE  KeptInv'
<1>1. /\ ld.pc = "unarchive" /\ SaveUnchanged /\ ld.bytes \in Seq(Piece)
  BY LoadFacts DEF UnarchiveHaul
<1>2. PICK m \in Whole(ld.bytes) : temp' \in Unpacked(m, temp) /\ temp'.index # Torn
  BY DEF UnarchiveHaul
<1>3. temp'.index = m /\ m \in Save /\ IsPrefix(Archive(m), ld.bytes)
  BY <1>2 DEF Unpacked, Whole
<1>4. ld'.pc = "copy" /\ ld'.item = ld.item /\ ld'.expect = ld.expect
  BY LoadFacts DEF UnarchiveHaul, Loading
<1>5. ASSUME NEW h \in Haul, NEW n \in Save, ld'.item.haul = h, ld'.expect = n
      PROVE  Returned(n)' /\ (fresh'[h] = n => OnItsWay(h, n)')
  <2>1. Returned(n) /\ (fresh[h] = n => OnItsWay(h, n))
    BY <1>1, <1>4, <1>5 DEF KeptInv, LatestInv, HasItem
  <2>2. ASSUME fresh[h] = n PROVE OnItsWay(h, n)'
    <3>1. IsPrefix(Archive(n), ld.bytes)
      BY <1>1, <2>1, <2>2 DEF OnItsWay
    <3>2. n = m
      BY <1>1, <1>3, <3>1, OneArchive
    <3> QED
      BY <1>3, <1>4, <3>2 DEF OnItsWay
  <2> QED
    BY <1>1, <2>1, <2>2 DEF Returned, SaveUnchanged
<1>6. LatestInv'
  BY <1>5 DEF LatestInv
<1> QED
  BY <1>1, <1>6, LoadStepKept

LEMMA CopyEntryKept ==
  ASSUME Invariant, KeptInv, NEW r \in Ref, CopyEntry(r)
  PROVE  KeptInv'
<1>1. ld.pc = "copy" /\ SaveUnchanged /\ UNCHANGED <<stage, temp, log>>
  BY DEF CopyEntry
<1>2. ld'.pc = "copy" /\ ld'.item = ld.item /\ ld'.expect = ld.expect
  BY <1>1, LoadFacts DEF CopyEntry, Loading
<1>3. LatestInv'
  BY <1>1, <1>2 DEF KeptInv, LatestInv, OnItsWay, HasItem, Returned, SaveUnchanged
<1> QED
  BY <1>1, <1>3, LoadStepKept
-----------------------------------------------------------------------------
LEMMA InitKept ==
  ASSUME Init
  PROVE  KeptInv
BY NoneIsNoSave DEF Init, NoSave, NoLoad, KeptInv, SplitInv, FreshInv, LatestInv, HasItem

LEMMA NextKept ==
  ASSUME Invariant, KeptInv, [Next]_vars
  PROVE  KeptInv'
<1>1. CASE UNCHANGED vars
  <2>1. SaveUnchanged /\ UNCHANGED <<ld, temp>>
    BY <1>1 DEF vars, SaveUnchanged
  <2>2. LatestInv'
    <3> SUFFICES ASSUME ld.pc \in HasItem, NEW h \in Haul, NEW n \in Save, ld.item.haul = h, ld.expect = n
                 PROVE  Returned(n)' /\ (fresh'[h] = n => OnItsWay(h, n)')
      BY <2>1 DEF LatestInv
    <3>1. Returned(n) /\ (fresh[h] = n => OnItsWay(h, n))
      BY DEF KeptInv, LatestInv
    <3>2. made' = made /\ file' = file
      BY <2>1 DEF SaveUnchanged
    <3>3. /\ \A limit, k : AllChunked(h, n, limit, k)' <=> AllChunked(h, n, limit, k)
          /\ \A limit, k, d : JoinedUpTo(h, n, limit, k, d) => JoinedUpTo(h, n, limit, k, d)'
      BY <2>1, <3>2, LeftStays DEF JoinedUpTo, Later, Chunks, Cut, Archive
    <3>4. OnItsWay(h, n) => OnItsWay(h, n)'
      BY <2>1, <3>2, <3>3 DEF OnItsWay, InLine, Position, Staged, IsChunk, Archive
    <3> QED
      BY <2>1, <3>1, <3>4 DEF Returned, SaveUnchanged
  <2> QED
    BY <2>1, <2>2, LoadStepKept
<1>2. CASE \E h \in Haul : \E asked \in Asked : SaveStart(h, asked)
  BY <1>2, SaveStartKept
<1>3. CASE WriteArchive
  BY <1>3, WriteArchiveKept
<1>4. CASE NextChunk
  BY <1>4, NextChunkKept
<1>5. CASE DropOriginal
  BY <1>5, DropOriginalKept
<1>6. CASE SaveFails
  BY <1>6, SaveFailsKept
<1>7. CASE \E h \in Haul : \E i \in Suffix : LoseFile(h, i)
  BY <1>7, LoseFileKept
<1>8. CASE \E list \in Arguments : \E ignore \in BOOLEAN : LoadStart(list, ignore)
  BY <1>8, LoadStartKept
<1>9. CASE StageArgument \/ StageEnds
  BY <1>9, StagingKept
<1>10. CASE OpenHaul
  BY <1>10, OpenHaulKept
<1>11. CASE JoinChunk
  BY <1>11, JoinChunkKept
<1>12. CASE UnarchiveHaul
  BY <1>12, UnarchiveHaulKept
<1>13. CASE \E r \in Ref : CopyEntry(r)
  BY <1>13, CopyEntryKept
<1>14. CASE PassOver \/ MergeLog \/ ClearDir
  BY <1>14, ClosingKept
<1>15. CASE LoadEnds \/ LoadStops
  BY <1>15, LoadReturnsKept
<1> QED
  BY <1>1, <1>2, <1>3, <1>4, <1>5, <1>6, <1>7, <1>8, <1>9, <1>10, <1>11, <1>12, <1>13, <1>14, <1>15 DEF Next

LEMMA KeptHolds == Spec => [](Invariant /\ KeptInv)
<1>1. Init => KeptInv
  BY InitKept
<1>2. Invariant /\ KeptInv /\ [Next]_vars => KeptInv'
  BY NextKept
<1> QED
  BY <1>1, <1>2, InvariantHolds, PTL DEF Spec

(* Where a save that returned no error put its archive, all of its bytes   *)
(* are, in one file or in chunks none of which is larger than was asked    *)
(* for, whatever chunks of older and longer saves lie beside them:         *)
(* SplitArchive, Archive and the order in which JoinChunks reads them.     *)
THEOREM SavesAreWhole == Spec => []SavedIsWhole
<1>1. Invariant /\ KeptInv => SavedIsWhole
  BY FreshIsWhole DEF KeptInv
<1> QED
  BY <1>1, KeptHolds, PTL

(* A load copies the last save of a haul as long as its files are as that  *)
(* save left them, never an older form beside it, and never what an        *)
(* earlier haul left in the temp directory: resolveHaulPath, JoinChunks    *)
(* and clearDir.  Of hauls named like the chunks of one old set, this is   *)
(* true of the one with the least number alone.                            *)
THEOREM LastSaveIsLoaded == Spec => []LatestIsLoaded
<1>1. ASSUME Invariant, KeptInv
      PROVE  LatestIsLoaded
  <2> SUFFICES ASSUME ld.pc = "copy", ld.expect # None, fresh[ld.item.haul] = ld.expect
               PROVE  temp.index = ld.expect
    BY DEF LatestIsLoaded
  <2>1. ld.item.haul \in Haul /\ ld.expect \in Save
    <3>1. ld.item \in Argument /\ ld.expect \in Save \cup {None}
      BY <1>1, LoadFacts DEF Invariant, PiecesInv, HasItem
    <3> QED
      BY <3>1 DEF Argument
  <2> QED
    BY <1>1, <2>1 DEF KeptInv, LatestInv, OnItsWay, HasItem
<1>2. Invariant /\ KeptInv => LatestIsLoaded
  BY <1>1
<1> QED
  BY <1>2, KeptHolds, PTL
=============================================================================
